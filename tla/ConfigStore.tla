----------------------------- MODULE ConfigStore -----------------------------
(***************************************************************************)
(* How the settings editor stores the configuration (app.py): a page posts *)
(* the local services, then the machines, and each of them is written with *)
(* save_config_atomic by a thread of its own, without a lock.  A start of  *)
(* the dashboard reads both files.                                         *)
(*                                                                         *)
(* A file holds what the repository came with, what a page saved, or only  *)
(* part of something.  Opening for writing truncates.  A descriptor goes   *)
(* with the file when a rename moves it, so that a thread may write into   *)
(* what has become the live file.  Both live files exist from the start.   *)
(***************************************************************************)
EXTENDS FiniteSets

CONSTANT Pages  \* the pages that save, once each; also names what they save

Files == {"services", "machines"}

\* Original is as it came: machines.json has an entry for this machine too, and
\* the settings of Authentik.  A page saves neither.
Absent == "absent"
Torn == "torn"
Original == "original"
Nothing == "nothing"
Contents == Pages \cup {Original}

ASSUME ConfigAssumption == Pages \cap {Absent, Torn, Original, Nothing} = {}

VARIABLES live, backup, temp,  \* per file: the three copies
          save,                \* per page: the file it saves, how far, and
                               \* where its open descriptor leads
          mixed,               \* history variable: pages whose running save
                               \* overlapped with another save of the file
          acked,               \* history variable, per file: the data of the
                               \* last success, unless something went wrong in
                               \* a restore, or saves overlapped, since then
          spoilt               \* history variable: files of which a torn copy
                               \* has replaced the backup, or saves overlapped

disk == <<live, backup, temp>>
ghosts == <<mixed, acked, spoilt>>
vars == <<disk, save, ghosts>>

At(p) == save[p].at
File(p) == save[p].file
Working == {"validate", "backup", "copy", "open", "write", "check", "rename",
            "restore", "refill", "remove"}
Saving(p) == At(p) \in Working \ {"validate"}
Goto(p, at, fd) == save' = [save EXCEPT ![p] = [@ EXCEPT !.at = at, !.fd = fd]]

\* The entry of the machine that the dashboard finds itself on is there.
HasSelf == live["machines"] = Original

\* load_services_config prefers that entry to services.json.
LoadServices == IF HasSelf THEN Original
                ELSE IF live["services"] \in Contents THEN live["services"] ELSE Nothing

\* load_machines_config.
LoadMachines == IF live["machines"] \in Contents THEN live["machines"] ELSE Nothing

Init ==
    /\ live = [f \in Files |-> Original]
    /\ backup = [f \in Files |-> Absent]
    /\ temp = [f \in Files |-> Absent]
    /\ save = [p \in Pages |-> [file |-> "services", at |-> "edit", fd |-> "none"]]
    /\ mixed = {} /\ spoilt = {}
    /\ acked = [f \in Files |-> "none"]

-----------------------------------------------------------------------------
(* The handlers, up to the call of save_config_atomic.                     *)

Post(p) ==
    /\ At(p) = "edit"
    /\ Goto(p, "validate", "none")
    /\ UNCHANGED <<disk, ghosts>>

\* An id, port or path is refused.
Reject(p) ==
    /\ At(p) = "validate"
    /\ Goto(p, "failed", "none")
    /\ UNCHANGED <<disk, ghosts>>

Others(p) == {q \in Pages \ {p} : Saving(q) /\ File(q) = File(p)}

Begin(p) ==
    /\ At(p) = "validate"
    /\ Goto(p, "backup", "none")
    /\ IF Others(p) = {} THEN mixed' = mixed \ {p} /\ UNCHANGED <<acked, spoilt>>
       ELSE /\ mixed' = mixed \cup {p} \cup Others(p)
            /\ acked' = [acked EXCEPT ![File(p)] = "none"]
            /\ spoilt' = spoilt \cup {File(p)}
    /\ UNCHANGED disk

-----------------------------------------------------------------------------
(* save_config_atomic.                                                     *)

\* Fault: no backup is made.
OpenBackupSkipped(p) ==
    /\ At(p) = "backup"
    /\ Goto(p, "open", "none")
    /\ UNCHANGED <<disk, ghosts>>

\* The copy of the live file opens the backup, then reads and writes.
OpenBackup(p) ==
    /\ At(p) = "backup"
    /\ backup' = [backup EXCEPT ![File(p)] = Torn]
    /\ spoilt' = IF live[File(p)] = Torn THEN spoilt \cup {File(p)} ELSE spoilt
    /\ Goto(p, "copy", "none")
    /\ UNCHANGED <<live, temp, mixed, acked>>

CopyBackup(p) ==
    /\ At(p) = "copy"
    /\ backup' = [backup EXCEPT ![File(p)] = live[File(p)]]
    /\ Goto(p, "open", "none")
    /\ UNCHANGED <<live, temp, ghosts>>

\* It is made outside the try: nothing is restored or removed.
BackupFails(p) ==
    /\ At(p) \in {"backup", "copy"}
    /\ Goto(p, "failed", "none")
    /\ UNCHANGED <<disk, ghosts>>

\* A temporary file that an earlier save has left is truncated.
OpenTemp(p) ==
    /\ At(p) = "open"
    /\ temp' = [temp EXCEPT ![File(p)] = Torn]
    /\ Goto(p, "write", "temp")
    /\ UNCHANGED <<live, backup, ghosts>>

\* What is written lands where the descriptor leads.
Put(p, contents) ==
    \E new \in contents :
        /\ temp' = IF save[p].fd = "temp" THEN [temp EXCEPT ![File(p)] = new] ELSE temp
        /\ live' = IF save[p].fd = "live" THEN [live EXCEPT ![File(p)] = new] ELSE live

\* Somebody else's data may be there already or come in between.
Mixed(p, data) ==
    LET there == IF save[p].fd = "live" THEN live[File(p)] ELSE temp[File(p)]
    IN  IF there = Torn /\ \A q \in Others(p) : save[q].fd # save[p].fd
        THEN {data} ELSE {data, Torn}

Write(p) ==
    /\ At(p) = "write"
    /\ Put(p, Mixed(p, p))
    /\ Goto(p, "check", "none")
    /\ UNCHANGED <<backup, ghosts>>

\* The temporary file cannot be opened; the disk is full, or the data cannot be
\* written as JSON.
WriteFails(p) ==
    /\ \/ At(p) = "open" /\ UNCHANGED <<live, temp>>
       \/ At(p) = "write" /\ (Put(p, {Torn}) \/ UNCHANGED <<live, temp>>)
    /\ Goto(p, "restore", "none")
    /\ UNCHANGED <<backup, ghosts>>

Check(p) ==
    /\ At(p) = "check"
    /\ Goto(p, IF temp[File(p)] \in Contents THEN "rename" ELSE "restore", "none")
    /\ UNCHANGED <<disk, ghosts>>

\* Where the descriptors of others lead once a file has moved or is removed.
Moved(fd, renamed) ==
    CASE fd = "temp" -> IF renamed THEN "live" ELSE "gone"
      [] fd = "live" -> IF renamed THEN "gone" ELSE "live"
      [] OTHER -> fd

Follow(p, next, renamed) ==
    save' = [q \in Pages |->
        IF q = p THEN next
        ELSE IF File(q) = File(p) THEN [save[q] EXCEPT !.fd = Moved(@, renamed)]
        ELSE save[q]]

\* The page goes on to the machines once the services are saved.
Following(p) == IF File(p) = "services"
                THEN [file |-> "machines", at |-> "edit", fd |-> "none"]
                ELSE [file |-> "machines", at |-> "saved", fd |-> "none"]

Rename(p) ==
    /\ At(p) = "rename" /\ temp[File(p)] # Absent
    /\ live' = [live EXCEPT ![File(p)] = temp[File(p)]]
    /\ temp' = [temp EXCEPT ![File(p)] = Absent]
    /\ Follow(p, Following(p), TRUE)
    /\ IF p \in mixed THEN UNCHANGED <<acked, spoilt>>
       ELSE /\ acked' = [acked EXCEPT ![File(p)] = p]
            /\ spoilt' = spoilt \ {File(p)}
    /\ UNCHANGED <<backup, mixed>>

\* Reading it back fails, the temporary file is gone by now, or the rename is
\* refused and leaves it there.
RenameFails(p) ==
    /\ At(p) \in {"check", "rename"}
    /\ Goto(p, "restore", "none")
    /\ UNCHANGED <<disk, ghosts>>

\* Fault: the restore removes the live file first.
OpenLiveRemoving(p) ==
    /\ At(p) = "restore"
    /\ live' = [live EXCEPT ![File(p)] = Absent]
    /\ Goto(p, "refill", "live")
    /\ UNCHANGED <<backup, temp, ghosts>>

\* The restore copies the backup into the live file.
OpenLive(p) ==
    /\ At(p) = "restore"
    /\ live' = [live EXCEPT ![File(p)] = Torn]
    /\ Goto(p, "refill", "live")
    /\ UNCHANGED <<backup, temp, ghosts>>

\* Fault: the backup is not copied back.
RefillForgotten(p) ==
    /\ At(p) = "refill"
    /\ Goto(p, "remove", "none")
    /\ UNCHANGED <<disk, ghosts>>

Refill(p) ==
    /\ At(p) = "refill"
    /\ Put(p, Mixed(p, backup[File(p)]))
    /\ Goto(p, "remove", "none")
    /\ UNCHANGED <<backup, ghosts>>

\* An exception in the handler of an exception: once opened, the live file
\* stays torn.
RestoreFails(p) ==
    /\ At(p) \in {"restore", "refill"}
    /\ acked' = IF At(p) = "refill" THEN [acked EXCEPT ![File(p)] = "none"] ELSE acked
    /\ Goto(p, "failed", "none")
    /\ UNCHANGED <<disk, mixed, spoilt>>

Remove(p) ==
    /\ At(p) = "remove"
    /\ temp' = [temp EXCEPT ![File(p)] = Absent]
    /\ Follow(p, [save[p] EXCEPT !.at = "failed"], FALSE)
    /\ UNCHANGED <<live, backup, ghosts>>

\* Another exception in the handler of the exception: the temporary file stays.
RemoveFails(p) ==
    /\ At(p) = "remove"
    /\ Goto(p, "failed", "none")
    /\ UNCHANGED <<disk, ghosts>>

Step(p) == \/ Post(p) \/ Reject(p) \/ Begin(p)
           \/ OpenBackup(p) \/ CopyBackup(p) \/ BackupFails(p)
           \/ OpenTemp(p) \/ Write(p) \/ WriteFails(p) \/ Check(p)
           \/ Rename(p) \/ RenameFails(p)
           \/ OpenLive(p) \/ Refill(p) \/ RestoreFails(p)
           \/ Remove(p) \/ RemoveFails(p)

-----------------------------------------------------------------------------
\* restart_dashboard, or a crash: the process ends between any two steps, and
\* another one reads the files.
Restart ==
    /\ save' = [p \in Pages |->
                   IF At(p) \in Working THEN [save[p] EXCEPT !.at = "failed", !.fd = "none"]
                   ELSE save[p]]
    /\ acked' = [f \in Files |->
                    IF \E p \in Pages : At(p) = "refill" /\ File(p) = f THEN "none"
                    ELSE acked[f]]
    /\ UNCHANGED <<disk, mixed, spoilt>>

Next == Restart \/ \E p \in Pages : Step(p)

Spec == Init /\ [][Next]_vars
-----------------------------------------------------------------------------
\* The shape of the state; a live file never goes missing.
TypeOK ==
    /\ live \in [Files -> Contents \cup {Torn}]
    /\ backup \in [Files -> Contents \cup {Torn, Absent}]
    /\ temp \in [Files -> Contents \cup {Torn, Absent}]
    /\ save \in [Pages -> [file : Files, at : Working \cup {"edit", "saved", "failed"},
                           fd : {"none", "temp", "live", "gone"}]]
    /\ mixed \subseteq Pages /\ spoilt \subseteq Files
    /\ acked \in [Files -> Pages \cup {"none"}]

\* Whatever fails, and wherever the process ends, a whole copy is left of each
\* file, unless saves of it overlapped, or one was started on a torn file and
\* copied that over the last good backup (save_config_atomic).
WholeCopy ==
    \A f \in Files : f \notin spoilt => live[f] \in Contents \/ backup[f] \in Contents

Restoring(f) == \E p \in Pages : At(p) = "refill" /\ File(p) = f

\* What a successful save stored is what a start loads from then on, also after
\* later saves that failed or were cut off, unless saves of the file overlapped
\* or a restore did not come to its end.  The services are loaded from their
\* file only once the machines have been saved too (load_services_config).
SavedIsLoaded ==
    /\ acked["machines"] # "none" /\ ~Restoring("machines") =>
          LoadMachines = acked["machines"]
    /\ /\ acked["services"] # "none" /\ ~Restoring("services")
       /\ acked["machines"] # "none" /\ ~Restoring("machines")
       => LoadServices = acked["services"]
=============================================================================
