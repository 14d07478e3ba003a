SPECIFICATION Spec
CONSTANTS
    Callers = {c1}
    Kinds <- DashboardItself
PROPERTY ThenLoad
