CONSTANTS
    Background = bg
    Readers = {r1}
    Callers = {c1}
SPECIFICATION Spec
INVARIANTS TypeOK ControlIsShown EmptyIsExcused
PROPERTIES StatusConverges
