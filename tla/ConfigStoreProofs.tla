-------------------------- MODULE ConfigStoreProofs --------------------------
(***************************************************************************)
(* What save_config_atomic guarantees for any number of pages: a file      *)
(* keeps a whole copy as long as its saves do not overlap and none of them *)
(* has copied a torn file over the backup, and what a success stored is    *)
(* what the next start loads as long as nothing went wrong in a restore.   *)
(*                                                                         *)
(* The argument: a save that is alone on its file has the temporary file   *)
(* and the backup for itself.  Its temporary file then holds its own data, *)
(* and its backup is what the live file held when it began.                *)
(***************************************************************************)
EXTENDS ConfigStore, TLAPS

\* A save that overlaps with no other has the file for itself.
AloneOK(p) == Saving(p) /\ p \notin mixed => Others(p) = {}

\* One that does has spoilt the file.
MixedOK(p) == Saving(p) /\ p \in mixed => File(p) \in spoilt

\* Where the descriptor leads.
PathOK(p) ==
    /\ At(p) \notin {"write", "refill"} => save[p].fd = "none"
    /\ p \notin mixed /\ At(p) = "write" => save[p].fd = "temp"
    /\ p \notin mixed /\ At(p) = "refill" => save[p].fd = "live"

\* The temporary file belongs to the save.
DraftOK(p) ==
    /\ At(p) = "write" => temp[File(p)] = Torn
    /\ At(p) \in {"check", "rename"} => temp[File(p)] = p
    /\ At(p) = "refill" => live[File(p)] = Torn

BackupOK(p) == Saving(p) /\ At(p) # "backup" => backup[File(p)] # Absent

\* The backup is what the live file holds, or held.
BackedOK(p) ==
    File(p) \notin spoilt =>
        /\ At(p) = "copy" => live[File(p)] \in Contents
        /\ At(p) \in {"open", "write", "check", "rename", "restore", "remove"} =>
              live[File(p)] \in Contents /\ backup[File(p)] = live[File(p)]
        /\ At(p) = "refill" => backup[File(p)] \in Contents

WholeOK(f) == f \notin spoilt => live[f] \in Contents \/ backup[f] \in Contents

\* What was saved last is in the live file, or about to be put back there.
AckedOK(f) ==
    acked[f] # "none" =>
        /\ f \notin spoilt
        /\ IF Restoring(f) THEN backup[f] = acked[f] ELSE live[f] = acked[f]

IInv ==
    /\ TypeOK
    /\ \A p \in Pages : AloneOK(p) /\ MixedOK(p) /\ PathOK(p) /\ BackupOK(p) /\ BackedOK(p)
    /\ \A p \in Pages \ mixed : DraftOK(p)
    /\ \A f \in Files : WholeOK(f) /\ AckedOK(f)

-----------------------------------------------------------------------------
Ats == Working \cup {"edit", "saved", "failed"}
Fds == {"none", "temp", "live", "gone"}
Saves == [file : Files, at : Ats, fd : Fds]

USE DEF At, File, Saving

\* Where Goto leaves the saves.
LEMMA GotoMoves ==
    ASSUME TypeOK, NEW p \in Pages, NEW at \in Ats, NEW fd \in Fds, Goto(p, at, fd)
    PROVE  /\ save' \in [Pages -> Saves]
           /\ save'[p].file = save[p].file /\ save'[p].at = at /\ save'[p].fd = fd
           /\ \A q \in Pages \ {p} : save'[q] = save[q]
<1>1. save \in [Pages -> Saves]
    BY DEF TypeOK, Saves, Ats, Fds
<1>2. [save[p] EXCEPT !.at = at, !.fd = fd] \in Saves
    BY <1>1 DEF Saves
<1>3. save' = [save EXCEPT ![p] = [save[p] EXCEPT !.at = at, !.fd = fd]]
    BY DEF Goto
<1> QED
    BY <1>1, <1>2, <1>3 DEF Saves

\* Where Follow leaves them.
LEMMA FollowMoves ==
    ASSUME TypeOK, NEW p \in Pages, NEW next \in Saves, NEW renamed \in BOOLEAN,
           Follow(p, next, renamed)
    PROVE  /\ save' \in [Pages -> Saves]
           /\ save'[p] = next
           /\ \A q \in Pages \ {p} :
                 /\ save'[q].file = save[q].file /\ save'[q].at = save[q].at
                 /\ save[q].fd = "none" => save'[q].fd = "none"
                 /\ save[q].file # save[p].file => save'[q] = save[q]
<1>1. \A q \in Pages : save[q] \in Saves
    BY DEF TypeOK, Saves, Ats, Fds
<1>2. \A fd \in Fds : Moved(fd, renamed) \in Fds /\ Moved("none", renamed) = "none"
    BY DEF Moved, Fds
<1>3. ASSUME NEW q \in Pages
      PROVE  /\ [save[q] EXCEPT !.fd = Moved(@, renamed)] \in Saves
             /\ [save[q] EXCEPT !.fd = Moved(@, renamed)].file = save[q].file
             /\ [save[q] EXCEPT !.fd = Moved(@, renamed)].at = save[q].at
             /\ [save[q] EXCEPT !.fd = Moved(@, renamed)].fd = Moved(save[q].fd, renamed)
    BY <1>1, <1>2 DEF Saves
<1>4. \A q \in Pages : save'[q] = IF q = p THEN next
                                  ELSE IF save[q].file = save[p].file
                                       THEN [save[q] EXCEPT !.fd = Moved(@, renamed)]
                                       ELSE save[q]
    BY DEF Follow
<1>5. save' \in [Pages -> Saves]
    BY <1>1, <1>3 DEF Follow
<1>6. ASSUME NEW q \in Pages \ {p}
      PROVE  /\ save'[q].file = save[q].file /\ save'[q].at = save[q].at
             /\ save[q].fd = "none" => save'[q].fd = "none"
             /\ save[q].file # save[p].file => save'[q] = save[q]
    <2>1. CASE save[q].file = save[p].file
        <3>1. save'[q] = [save[q] EXCEPT !.fd = Moved(@, renamed)]
            BY <1>4, <2>1
        <3>2. /\ save'[q].file = save[q].file /\ save'[q].at = save[q].at
              /\ save'[q].fd = Moved(save[q].fd, renamed)
            BY <1>3, <3>1, Zenon
        <3>3. Moved("none", renamed) = "none"
            BY DEF Moved
        <3> QED
            BY <2>1, <3>2, <3>3, Zenon
    <2>2. CASE save[q].file # save[p].file
        BY <1>4, <2>2
    <2> QED
        BY <2>1, <2>2
<1> QED
    BY <1>4, <1>5, <1>6

\* A step of the save of p touches nothing of another file, and of other saves
\* of the same file no more than their descriptors.
Confined(p) ==
    /\ mixed' = mixed
    /\ \A q \in Pages \ {p} :
          /\ save'[q].file = save[q].file /\ save'[q].at = save[q].at
          /\ save[q].fd = "none" => save'[q].fd = "none"
          /\ save[q].file # save[p].file => save'[q] = save[q]
    /\ save'[p].at \in {"edit", "saved", "failed"} \/ save'[p].file = save[p].file
    /\ \A f \in Files \ {save[p].file} :
          /\ live'[f] = live[f] /\ backup'[f] = backup[f] /\ temp'[f] = temp[f]
          /\ acked'[f] = acked[f] /\ (f \in spoilt' <=> f \in spoilt)
    /\ backup'[save[p].file] = Absent => backup[save[p].file] = Absent

\* A step of one save keeps the invariant if it keeps what concerns that save,
\* and, where it is alone, its file.
LEMMA OneSave ==
    ASSUME IInv, NEW p \in Pages, NEW f \in Files, f = File(p), Saving(p),
           Confined(p), TypeOK', PathOK(p)', BackupOK(p)',
           p \in mixed => f \in spoilt' /\ acked'[f] = acked[f],
           p \notin mixed =>
              /\ DraftOK(p)' /\ BackedOK(p)' /\ WholeOK(f)'
              /\ acked'[f] # "none" =>
                    /\ f \notin spoilt'
                    /\ IF save'[p].at = "refill" THEN backup'[f] = acked'[f]
                                                 ELSE live'[f] = acked'[f]
    PROVE  IInv'
<1>1. ASSUME NEW q \in Pages \ {p}, Saving(q), File(q) = f
      PROVE  q \in mixed /\ p \in mixed /\ f \in spoilt /\ f \in spoilt'
    BY <1>1 DEF IInv, AloneOK, MixedOK, Others
<1>2. ASSUME NEW q \in Pages
      PROVE  AloneOK(q)' /\ MixedOK(q)'
    <2>1. /\ Saving(q)' => Saving(q) /\ File(q)' = File(q)
          /\ Others(q)' \subseteq Others(q) \/ ~Saving(q)'
        BY DEF Confined, Others, Working
    <2>2. AloneOK(q)'
        BY <2>1 DEF IInv, AloneOK, Confined
    <2>3. MixedOK(q)'
        BY <1>1, <2>1 DEF IInv, TypeOK, MixedOK, Confined
    <2> QED
        BY <2>2, <2>3
<1>3. ASSUME NEW q \in Pages \ {p}
      PROVE  PathOK(q)' /\ BackupOK(q)' /\ BackedOK(q)' /\ (q \notin mixed => DraftOK(q)')
    <2>1. CASE ~Saving(q)
        BY <2>1 DEF IInv, PathOK, BackupOK, BackedOK, DraftOK, Confined, Working
    <2>2. CASE File(q) # f
        BY <2>2 DEF IInv, TypeOK, PathOK, BackupOK, BackedOK, DraftOK, Confined
    <2>3. CASE Saving(q) /\ File(q) = f
        BY <1>1, <2>3 DEF IInv, PathOK, BackupOK, BackedOK, DraftOK, Confined
    <2> QED
        BY <2>1, <2>2, <2>3
<1>4. BackedOK(p)'
    BY DEF IInv, BackedOK, Confined, Working
<1>5. ASSUME NEW g \in Files \ {f}
      PROVE  WholeOK(g)' /\ AckedOK(g)'
    <2>1. Restoring(g)' <=> Restoring(g)
        BY DEF Restoring, Confined
    <2> QED
        BY <2>1 DEF IInv, WholeOK, AckedOK, Confined
<1>6. WholeOK(f)' /\ AckedOK(f)'
    <2>1. CASE p \in mixed
        BY <2>1 DEF IInv, MixedOK, AckedOK, WholeOK
    <2>2. CASE p \notin mixed
        <3>1. Restoring(f)' => save'[p].at = "refill"
            BY <1>1, <2>2 DEF Restoring, Confined, Working
        <3>2. save'[p].at = "refill" => Restoring(f)'
            BY DEF Restoring, Confined
        <3> QED
            BY <2>2, <3>1, <3>2 DEF AckedOK
    <2> QED
        BY <2>1, <2>2
<1> QED
    BY <1>2, <1>3, <1>4, <1>5, <1>6 DEF IInv, Confined

-----------------------------------------------------------------------------
(* The steps of save_config_atomic.                                        *)

USE ConfigAssumption DEF Contents, Absent, Torn, Original, Nothing, Working, Ats, Fds

\* What a save may rely on at each of its steps.
LEMMA Facts ==
    ASSUME IInv, NEW p \in Pages
    PROVE  /\ File(p) \in Files /\ At(p) \in Ats /\ save[p].fd \in Fds
           /\ live \in [Files -> Contents \cup {Torn}]
           /\ backup \in [Files -> Contents \cup {Torn, Absent}]
           /\ temp \in [Files -> Contents \cup {Torn, Absent}]
           /\ acked \in [Files -> Pages \cup {"none"}] /\ spoilt \subseteq Files
           /\ PathOK(p) /\ BackupOK(p) /\ BackedOK(p) /\ (p \notin mixed => DraftOK(p))
           /\ Saving(p) /\ p \notin mixed => Others(p) = {}
           /\ Saving(p) /\ p \in mixed => File(p) \in spoilt /\ acked[File(p)] = "none"
           /\ acked[File(p)] # "none" =>
                 File(p) \notin spoilt /\ (At(p) # "refill" /\ p \notin mixed /\ Saving(p)
                                          => live[File(p)] = acked[File(p)])
           /\ acked[File(p)] # "none" /\ At(p) = "refill" => backup[File(p)] = acked[File(p)]
           /\ WholeOK(File(p))
<1>1. save[p] \in Saves
    BY DEF IInv, TypeOK, Saves
<1>2. AckedOK(File(p)) /\ WholeOK(File(p))
    BY <1>1 DEF IInv, Saves
<1>3. Saving(p) /\ p \notin mixed => Others(p) = {}
    BY DEF IInv, AloneOK
<1>4. Saving(p) /\ p \notin mixed /\ At(p) # "refill" => ~Restoring(File(p))
    BY <1>3 DEF Others, Restoring
<1>5. At(p) = "refill" => Restoring(File(p))
    BY DEF Restoring
<1>6. Saving(p) /\ p \in mixed => File(p) \in spoilt
    BY DEF IInv, MixedOK
<1>7. PathOK(p) /\ BackupOK(p) /\ BackedOK(p) /\ (p \notin mixed => DraftOK(p))
    BY DEF IInv
<1> QED
    BY <1>1, <1>2, <1>3, <1>4, <1>5, <1>6, <1>7 DEF IInv, TypeOK, Saves, AckedOK

\* The copy opens the backup; a live file that is torn spoils it.
LEMMA OpenBackupKeeps ==
    ASSUME IInv, NEW p \in Pages, OpenBackup(p)
    PROVE  IInv'
<1>0. PICK f \in Files : f = File(p)
    BY Facts
<1>1. Saving(p) /\ Goto(p, "copy", "none") /\ mixed' = mixed
    BY DEF OpenBackup, disk, ghosts
<1>2. /\ save' \in [Pages -> Saves]
      /\ save'[p].file = f /\ save'[p].at = "copy" /\ save'[p].fd = "none"
      /\ \A q \in Pages \ {p} : save'[q] = save[q]
    BY <1>0, <1>1, GotoMoves DEF IInv
<1>3. Confined(p)
    BY <1>0, <1>1, <1>2, Facts DEF Confined, OpenBackup, disk, ghosts
<1>4. TypeOK'
    BY <1>0, <1>1, <1>2, Facts
       DEF IInv, TypeOK, BackupOK, Saves, OpenBackup, disk, ghosts
<1>5. PathOK(p)' /\ BackupOK(p)'
    BY <1>0, <1>1, <1>2, Facts DEF PathOK, BackupOK, OpenBackup, disk, ghosts
<1>6. p \in mixed => f \in spoilt' /\ acked'[f] = acked[f]
    BY <1>0, <1>1, Facts DEF OpenBackup, disk, ghosts
<1>7. p \notin mixed =>
          /\ DraftOK(p)' /\ BackedOK(p)' /\ WholeOK(f)'
          /\ acked'[f] # "none" =>
                /\ f \notin spoilt'
                /\ IF save'[p].at = "refill" THEN backup'[f] = acked'[f]
                                             ELSE live'[f] = acked'[f]
    BY <1>0, <1>1, <1>2, Facts
       DEF PathOK, DraftOK, BackupOK, BackedOK, WholeOK, OpenBackup, disk, ghosts
<1> QED
    BY <1>0, <1>1, <1>3, <1>4, <1>5, <1>6, <1>7, Facts, OneSave

\* The backup holds what the live file does.
LEMMA CopyBackupKeeps ==
    ASSUME IInv, NEW p \in Pages, CopyBackup(p)
    PROVE  IInv'
<1>0. PICK f \in Files : f = File(p)
    BY Facts
<1>1. Saving(p) /\ Goto(p, "open", "none") /\ mixed' = mixed
    BY DEF CopyBackup, disk, ghosts
<1>2. /\ save' \in [Pages -> Saves]
      /\ save'[p].file = f /\ save'[p].at = "open" /\ save'[p].fd = "none"
      /\ \A q \in Pages \ {p} : save'[q] = save[q]
    BY <1>0, <1>1, GotoMoves DEF IInv
<1>3. Confined(p)
    BY <1>0, <1>1, <1>2, Facts DEF Confined, CopyBackup, disk, ghosts
<1>4. TypeOK'
    BY <1>0, <1>1, <1>2, Facts
       DEF IInv, TypeOK, BackupOK, Saves, CopyBackup, disk, ghosts
<1>5. PathOK(p)' /\ BackupOK(p)'
    BY <1>0, <1>1, <1>2, Facts DEF PathOK, BackupOK, CopyBackup, disk, ghosts
<1>6. p \in mixed => f \in spoilt' /\ acked'[f] = acked[f]
    BY <1>0, <1>1, Facts DEF CopyBackup, disk, ghosts
<1>7. p \notin mixed =>
          /\ DraftOK(p)' /\ BackedOK(p)' /\ WholeOK(f)'
          /\ acked'[f] # "none" =>
                /\ f \notin spoilt'
                /\ IF save'[p].at = "refill" THEN backup'[f] = acked'[f]
                                             ELSE live'[f] = acked'[f]
    BY <1>0, <1>1, <1>2, Facts
       DEF PathOK, DraftOK, BackupOK, BackedOK, WholeOK, CopyBackup, disk, ghosts
<1> QED
    BY <1>0, <1>1, <1>3, <1>4, <1>5, <1>6, <1>7, Facts, OneSave

\* A backup that cannot be made ends the save before it has touched the live file.
LEMMA BackupFailsKeeps ==
    ASSUME IInv, NEW p \in Pages, BackupFails(p)
    PROVE  IInv'
<1>0. PICK f \in Files : f = File(p)
    BY Facts
<1>1. Saving(p) /\ Goto(p, "failed", "none") /\ mixed' = mixed
    BY DEF BackupFails, disk, ghosts
<1>2. /\ save' \in [Pages -> Saves]
      /\ save'[p].file = f /\ save'[p].at = "failed" /\ save'[p].fd = "none"
      /\ \A q \in Pages \ {p} : save'[q] = save[q]
    BY <1>0, <1>1, GotoMoves DEF IInv
<1>3. Confined(p)
    BY <1>0, <1>1, <1>2, Facts DEF Confined, BackupFails, disk, ghosts
<1>4. TypeOK'
    BY <1>0, <1>1, <1>2, Facts
       DEF IInv, TypeOK, BackupOK, Saves, BackupFails, disk, ghosts
<1>5. PathOK(p)' /\ BackupOK(p)'
    BY <1>0, <1>1, <1>2, Facts DEF PathOK, BackupOK, BackupFails, disk, ghosts
<1>6. p \in mixed => f \in spoilt' /\ acked'[f] = acked[f]
    BY <1>0, <1>1, Facts DEF BackupFails, disk, ghosts
<1>7. p \notin mixed =>
          /\ DraftOK(p)' /\ BackedOK(p)' /\ WholeOK(f)'
          /\ acked'[f] # "none" =>
                /\ f \notin spoilt'
                /\ IF save'[p].at = "refill" THEN backup'[f] = acked'[f]
                                             ELSE live'[f] = acked'[f]
    BY <1>0, <1>1, <1>2, Facts
       DEF PathOK, DraftOK, BackupOK, BackedOK, WholeOK, BackupFails, disk, ghosts
<1> QED
    BY <1>0, <1>1, <1>3, <1>4, <1>5, <1>6, <1>7, Facts, OneSave

\* The temporary file is opened.
LEMMA OpenTempKeeps ==
    ASSUME IInv, NEW p \in Pages, OpenTemp(p)
    PROVE  IInv'
<1>0. PICK f \in Files : f = File(p)
    BY Facts
<1>1. Saving(p) /\ Goto(p, "write", "temp") /\ mixed' = mixed
    BY DEF OpenTemp, disk, ghosts
<1>2. /\ save' \in [Pages -> Saves]
      /\ save'[p].file = f /\ save'[p].at = "write" /\ save'[p].fd = "temp"
      /\ \A q \in Pages \ {p} : save'[q] = save[q]
    BY <1>0, <1>1, GotoMoves DEF IInv
<1>3. Confined(p)
    BY <1>0, <1>1, <1>2, Facts DEF Confined, OpenTemp, disk, ghosts
<1>4. TypeOK'
    BY <1>0, <1>1, <1>2, Facts
       DEF IInv, TypeOK, BackupOK, Saves, OpenTemp, disk, ghosts
<1>5. PathOK(p)' /\ BackupOK(p)'
    BY <1>0, <1>1, <1>2, Facts DEF PathOK, BackupOK, OpenTemp, disk, ghosts
<1>6. p \in mixed => f \in spoilt' /\ acked'[f] = acked[f]
    BY <1>0, <1>1, Facts DEF OpenTemp, disk, ghosts
<1>7. p \notin mixed =>
          /\ DraftOK(p)' /\ BackedOK(p)' /\ WholeOK(f)'
          /\ acked'[f] # "none" =>
                /\ f \notin spoilt'
                /\ IF save'[p].at = "refill" THEN backup'[f] = acked'[f]
                                             ELSE live'[f] = acked'[f]
    BY <1>0, <1>1, <1>2, Facts
       DEF PathOK, DraftOK, BackupOK, BackedOK, WholeOK, OpenTemp, disk, ghosts
<1> QED
    BY <1>0, <1>1, <1>3, <1>4, <1>5, <1>6, <1>7, Facts, OneSave

\* A save that is alone finds its own data in the temporary file.
LEMMA WriteKeeps ==
    ASSUME IInv, NEW p \in Pages, Write(p)
    PROVE  IInv'
<1>0. PICK f \in Files : f = File(p)
    BY Facts
<1>1. Saving(p) /\ Goto(p, "check", "none") /\ mixed' = mixed
    BY DEF Write, disk, ghosts
<1>2. /\ save' \in [Pages -> Saves]
      /\ save'[p].file = f /\ save'[p].at = "check" /\ save'[p].fd = "none"
      /\ \A q \in Pages \ {p} : save'[q] = save[q]
    BY <1>0, <1>1, GotoMoves DEF IInv
<1>3. Confined(p)
    BY <1>0, <1>1, <1>2, Facts DEF Confined, Write, disk, ghosts, Put
<1>4. TypeOK'
    BY <1>0, <1>1, <1>2, Facts
       DEF IInv, TypeOK, BackupOK, Saves, Write, disk, ghosts, Put, Mixed
<1>5. PathOK(p)' /\ BackupOK(p)'
    BY <1>0, <1>1, <1>2, Facts DEF PathOK, BackupOK, Write, disk, ghosts, Put
<1>6. p \in mixed => f \in spoilt' /\ acked'[f] = acked[f]
    BY <1>0, <1>1, Facts DEF Write, disk, ghosts
<1>7. p \notin mixed =>
          /\ DraftOK(p)' /\ BackedOK(p)' /\ WholeOK(f)'
          /\ acked'[f] # "none" =>
                /\ f \notin spoilt'
                /\ IF save'[p].at = "refill" THEN backup'[f] = acked'[f]
                                             ELSE live'[f] = acked'[f]
    BY <1>0, <1>1, <1>2, Facts
       DEF PathOK, DraftOK, BackupOK, BackedOK, WholeOK, Write, disk, ghosts, Put, Mixed
<1> QED
    BY <1>0, <1>1, <1>3, <1>4, <1>5, <1>6, <1>7, Facts, OneSave

\* A write that fails leaves the live file alone, if the save is.
LEMMA WriteFailsKeeps ==
    ASSUME IInv, NEW p \in Pages, WriteFails(p)
    PROVE  IInv'
<1>0. PICK f \in Files : f = File(p)
    BY Facts
<1>1. Saving(p) /\ Goto(p, "restore", "none") /\ mixed' = mixed
    BY DEF WriteFails, disk, ghosts
<1>2. /\ save' \in [Pages -> Saves]
      /\ save'[p].file = f /\ save'[p].at = "restore" /\ save'[p].fd = "none"
      /\ \A q \in Pages \ {p} : save'[q] = save[q]
    BY <1>0, <1>1, GotoMoves DEF IInv
<1>3. Confined(p)
    BY <1>0, <1>1, <1>2, Facts DEF Confined, WriteFails, disk, ghosts, Put
<1>4. TypeOK'
    <2>1. /\ live' \in [Files -> Contents \cup {Torn}]
          /\ temp' \in [Files -> Contents \cup {Torn, Absent}]
        BY Facts DEF WriteFails, Put
    <2> QED
        BY <1>1, <1>2, <2>1 DEF IInv, TypeOK, Saves, WriteFails, ghosts
<1>5. PathOK(p)' /\ BackupOK(p)'
    BY <1>0, <1>1, <1>2, Facts DEF PathOK, BackupOK, WriteFails, disk, ghosts, Put
<1>6. p \in mixed => f \in spoilt' /\ acked'[f] = acked[f]
    BY <1>0, <1>1, Facts DEF WriteFails, disk, ghosts
<1>7. p \notin mixed =>
          /\ DraftOK(p)' /\ BackedOK(p)' /\ WholeOK(f)'
          /\ acked'[f] # "none" =>
                /\ f \notin spoilt'
                /\ IF save'[p].at = "refill" THEN backup'[f] = acked'[f]
                                             ELSE live'[f] = acked'[f]
    BY <1>0, <1>1, <1>2, Facts
       DEF PathOK, DraftOK, BackupOK, BackedOK, WholeOK, WriteFails, disk, ghosts, Put, Mixed
<1> QED
    BY <1>0, <1>1, <1>3, <1>4, <1>5, <1>6, <1>7, Facts, OneSave

\* A save that is alone reads back what it wrote.
LEMMA CheckKeeps ==
    ASSUME IInv, NEW p \in Pages, Check(p)
    PROVE  IInv'
<1>0. PICK f \in Files : f = File(p)
    BY Facts
<1>1. PICK at \in {"rename", "restore"} :
          /\ Saving(p) /\ Goto(p, at, "none") /\ mixed' = mixed
          /\ p \notin mixed => at = "rename"
    BY Facts DEF Check, DraftOK, disk, ghosts
<1>2. /\ save' \in [Pages -> Saves]
      /\ save'[p].file = f /\ save'[p].at = at /\ save'[p].fd = "none"
      /\ \A q \in Pages \ {p} : save'[q] = save[q]
    BY <1>0, <1>1, GotoMoves DEF IInv
<1>3. Confined(p)
    BY <1>0, <1>1, <1>2, Facts DEF Confined, Check, disk, ghosts
<1>4. TypeOK'
    BY <1>0, <1>1, <1>2, Facts
       DEF IInv, TypeOK, BackupOK, Saves, Check, disk, ghosts
<1>5. PathOK(p)' /\ BackupOK(p)'
    BY <1>0, <1>1, <1>2, Facts DEF PathOK, BackupOK, Check, disk, ghosts
<1>6. p \in mixed => f \in spoilt' /\ acked'[f] = acked[f]
    BY <1>0, <1>1, Facts DEF Check, disk, ghosts
<1>7. p \notin mixed =>
          /\ DraftOK(p)' /\ BackedOK(p)' /\ WholeOK(f)'
          /\ acked'[f] # "none" =>
                /\ f \notin spoilt'
                /\ IF save'[p].at = "refill" THEN backup'[f] = acked'[f]
                                             ELSE live'[f] = acked'[f]
    BY <1>0, <1>1, <1>2, Facts
       DEF PathOK, DraftOK, BackupOK, BackedOK, WholeOK, Check, disk, ghosts
<1> QED
    BY <1>0, <1>1, <1>3, <1>4, <1>5, <1>6, <1>7, Facts, OneSave

\* Only a save that is not alone finds its temporary file gone.
LEMMA RenameFailsKeeps ==
    ASSUME IInv, NEW p \in Pages, RenameFails(p)
    PROVE  IInv'
<1>0. PICK f \in Files : f = File(p)
    BY Facts
<1>1. Saving(p) /\ Goto(p, "restore", "none") /\ mixed' = mixed
    BY DEF RenameFails, disk, ghosts
<1>2. /\ save' \in [Pages -> Saves]
      /\ save'[p].file = f /\ save'[p].at = "restore" /\ save'[p].fd = "none"
      /\ \A q \in Pages \ {p} : save'[q] = save[q]
    BY <1>0, <1>1, GotoMoves DEF IInv
<1>3. Confined(p)
    BY <1>0, <1>1, <1>2, Facts DEF Confined, RenameFails, disk, ghosts
<1>4. TypeOK'
    BY <1>0, <1>1, <1>2, Facts
       DEF IInv, TypeOK, BackupOK, Saves, RenameFails, disk, ghosts
<1>5. PathOK(p)' /\ BackupOK(p)'
    BY <1>0, <1>1, <1>2, Facts DEF PathOK, BackupOK, RenameFails, disk, ghosts
<1>6. p \in mixed => f \in spoilt' /\ acked'[f] = acked[f]
    BY <1>0, <1>1, Facts DEF RenameFails, disk, ghosts
<1>7. p \notin mixed =>
          /\ DraftOK(p)' /\ BackedOK(p)' /\ WholeOK(f)'
          /\ acked'[f] # "none" =>
                /\ f \notin spoilt'
                /\ IF save'[p].at = "refill" THEN backup'[f] = acked'[f]
                                             ELSE live'[f] = acked'[f]
    BY <1>0, <1>1, <1>2, Facts
       DEF PathOK, DraftOK, BackupOK, BackedOK, WholeOK, RenameFails, disk, ghosts
<1> QED
    BY <1>0, <1>1, <1>3, <1>4, <1>5, <1>6, <1>7, Facts, OneSave

\* The restore truncates the live file, of which the backup is a whole copy.
LEMMA OpenLiveKeeps ==
    ASSUME IInv, NEW p \in Pages, OpenLive(p)
    PROVE  IInv'
<1>0. PICK f \in Files : f = File(p)
    BY Facts
<1>1. Saving(p) /\ Goto(p, "refill", "live") /\ mixed' = mixed
    BY DEF OpenLive, disk, ghosts
<1>2. /\ save' \in [Pages -> Saves]
      /\ save'[p].file = f /\ save'[p].at = "refill" /\ save'[p].fd = "live"
      /\ \A q \in Pages \ {p} : save'[q] = save[q]
    BY <1>0, <1>1, GotoMoves DEF IInv
<1>3. Confined(p)
    BY <1>0, <1>1, <1>2, Facts DEF Confined, OpenLive, disk, ghosts
<1>4. TypeOK'
    BY <1>0, <1>1, <1>2, Facts
       DEF IInv, TypeOK, BackupOK, Saves, OpenLive, disk, ghosts
<1>5. PathOK(p)' /\ BackupOK(p)'
    BY <1>0, <1>1, <1>2, Facts DEF PathOK, BackupOK, OpenLive, disk, ghosts
<1>6. p \in mixed => f \in spoilt' /\ acked'[f] = acked[f]
    BY <1>0, <1>1, Facts DEF OpenLive, disk, ghosts
<1>7. p \notin mixed =>
          /\ DraftOK(p)' /\ BackedOK(p)' /\ WholeOK(f)'
          /\ acked'[f] # "none" =>
                /\ f \notin spoilt'
                /\ IF save'[p].at = "refill" THEN backup'[f] = acked'[f]
                                             ELSE live'[f] = acked'[f]
    BY <1>0, <1>1, <1>2, Facts
       DEF PathOK, DraftOK, BackupOK, BackedOK, WholeOK, OpenLive, disk, ghosts
<1> QED
    BY <1>0, <1>1, <1>3, <1>4, <1>5, <1>6, <1>7, Facts, OneSave

\* The live file is again what the backup holds.
LEMMA RefillKeeps ==
    ASSUME IInv, NEW p \in Pages, Refill(p)
    PROVE  IInv'
<1>0. PICK f \in Files : f = File(p)
    BY Facts
<1>1. Saving(p) /\ Goto(p, "remove", "none") /\ mixed' = mixed
    BY DEF Refill, disk, ghosts
<1>2. /\ save' \in [Pages -> Saves]
      /\ save'[p].file = f /\ save'[p].at = "remove" /\ save'[p].fd = "none"
      /\ \A q \in Pages \ {p} : save'[q] = save[q]
    BY <1>0, <1>1, GotoMoves DEF IInv
<1>3. Confined(p)
    BY <1>0, <1>1, <1>2, Facts DEF Confined, Refill, disk, ghosts, Put
<1>4. TypeOK'
    BY <1>0, <1>1, <1>2, Facts
       DEF IInv, TypeOK, BackupOK, Saves, Refill, disk, ghosts, Put, Mixed
<1>5. PathOK(p)' /\ BackupOK(p)'
    BY <1>0, <1>1, <1>2, Facts DEF PathOK, BackupOK, Refill, disk, ghosts, Put
<1>6. p \in mixed => f \in spoilt' /\ acked'[f] = acked[f]
    BY <1>0, <1>1, Facts DEF Refill, disk, ghosts
<1>7. p \notin mixed =>
          /\ DraftOK(p)' /\ BackedOK(p)' /\ WholeOK(f)'
          /\ acked'[f] # "none" =>
                /\ f \notin spoilt'
                /\ IF save'[p].at = "refill" THEN backup'[f] = acked'[f]
                                             ELSE live'[f] = acked'[f]
    BY <1>0, <1>1, <1>2, Facts
       DEF PathOK, DraftOK, BackupOK, BackedOK, WholeOK, Refill, disk, ghosts, Put, Mixed
<1> QED
    BY <1>0, <1>1, <1>3, <1>4, <1>5, <1>6, <1>7, Facts, OneSave

\* A restore that breaks off leaves the backup.
LEMMA RestoreFailsKeeps ==
    ASSUME IInv, NEW p \in Pages, RestoreFails(p)
    PROVE  IInv'
<1>0. PICK f \in Files : f = File(p)
    BY Facts
<1>1. Saving(p) /\ Goto(p, "failed", "none") /\ mixed' = mixed
    BY DEF RestoreFails, disk, ghosts
<1>2. /\ save' \in [Pages -> Saves]
      /\ save'[p].file = f /\ save'[p].at = "failed" /\ save'[p].fd = "none"
      /\ \A q \in Pages \ {p} : save'[q] = save[q]
    BY <1>0, <1>1, GotoMoves DEF IInv
<1>3. Confined(p)
    BY <1>0, <1>1, <1>2, Facts DEF Confined, RestoreFails, disk, ghosts
<1>4. TypeOK'
    BY <1>0, <1>1, <1>2, Facts
       DEF IInv, TypeOK, BackupOK, Saves, RestoreFails, disk, ghosts
<1>5. PathOK(p)' /\ BackupOK(p)'
    BY <1>0, <1>1, <1>2, Facts DEF PathOK, BackupOK, RestoreFails, disk, ghosts
<1>6. p \in mixed => f \in spoilt' /\ acked'[f] = acked[f]
    BY <1>0, <1>1, Facts DEF RestoreFails, disk, ghosts
<1>7. p \notin mixed =>
          /\ DraftOK(p)' /\ BackedOK(p)' /\ WholeOK(f)'
          /\ acked'[f] # "none" =>
                /\ f \notin spoilt'
                /\ IF save'[p].at = "refill" THEN backup'[f] = acked'[f]
                                             ELSE live'[f] = acked'[f]
    BY <1>0, <1>1, <1>2, Facts
       DEF PathOK, DraftOK, BackupOK, BackedOK, WholeOK, RestoreFails, disk, ghosts
<1> QED
    BY <1>0, <1>1, <1>3, <1>4, <1>5, <1>6, <1>7, Facts, OneSave

\* Rename keeps the invariant: the live file holds what was saved.
LEMMA RenameKeeps ==
    ASSUME IInv, NEW p \in Pages, Rename(p)
    PROVE  IInv'
<1>0. PICK f \in Files : f = File(p)
    BY Facts
<1>1. Saving(p) /\ Follow(p, Following(p), TRUE) /\ mixed' = mixed
    BY DEF Rename
<1>2. Following(p) \in Saves /\ Following(p).fd = "none" /\ Following(p).at \in {"edit", "saved"}
    BY DEF Following, Files, Saves
<1>3. /\ save' \in [Pages -> Saves]
      /\ save'[p].fd = "none" /\ save'[p].at \in {"edit", "saved"}
      /\ \A q \in Pages \ {p} :
            /\ save'[q].file = save[q].file /\ save'[q].at = save[q].at
            /\ save[q].fd = "none" => save'[q].fd = "none"
            /\ save[q].file # save[p].file => save'[q] = save[q]
    BY <1>1, <1>2, FollowMoves DEF IInv
<1>4. Confined(p)
    BY <1>0, <1>1, <1>3, Facts DEF Confined, Rename
<1>5. TypeOK'
    BY <1>0, <1>1, <1>3, Facts DEF IInv, TypeOK, Saves, Rename
<1>6. PathOK(p)' /\ BackupOK(p)' /\ DraftOK(p)' /\ BackedOK(p)'
    BY <1>3 DEF PathOK, BackupOK, DraftOK, BackedOK
<1>7. p \in mixed => f \in spoilt' /\ acked'[f] = acked[f]
    BY <1>0, <1>1, Facts DEF Rename
<1>8. p \notin mixed => /\ WholeOK(f)' /\ f \notin spoilt'
                        /\ save'[p].at # "refill" /\ live'[f] = acked'[f]
    BY <1>0, <1>1, <1>3, Facts DEF WholeOK, DraftOK, Rename
<1> QED
    BY <1>0, <1>1, <1>4, <1>5, <1>6, <1>7, <1>8, OneSave

\* A failed save removes its temporary file and keeps the answer for last; a save
\* that was alone has a whole live file by then.
LEMMA RemoveKeeps ==
    ASSUME IInv, NEW p \in Pages, Remove(p)
    PROVE  IInv'
<1>0. PICK f \in Files : f = File(p)
    BY Facts
<1> DEFINE next == [save[p] EXCEPT !.at = "failed"]
<1>1. Saving(p) /\ Follow(p, next, FALSE) /\ mixed' = mixed /\ save[p].fd = "none"
    BY Facts DEF Remove, ghosts, PathOK
<1>2. save[p] \in Saves
    BY DEF IInv, TypeOK, Saves
<1>3. next \in Saves /\ next.fd = "none" /\ next.at = "failed" /\ next.file = save[p].file
    BY <1>1, <1>2 DEF Saves
<1>4. /\ save' \in [Pages -> Saves]
      /\ save'[p].fd = "none" /\ save'[p].at = "failed"
      /\ \A q \in Pages \ {p} :
            /\ save'[q].file = save[q].file /\ save'[q].at = save[q].at
            /\ save[q].fd = "none" => save'[q].fd = "none"
            /\ save[q].file # save[p].file => save'[q] = save[q]
    BY <1>1, <1>3, FollowMoves DEF IInv
<1>5. Confined(p)
    BY <1>0, <1>1, <1>4, Facts DEF Confined, Remove, ghosts
<1>6. TypeOK'
    BY <1>0, <1>1, <1>4, Facts DEF IInv, TypeOK, Saves, Remove, ghosts
<1>7. PathOK(p)' /\ BackupOK(p)' /\ DraftOK(p)' /\ BackedOK(p)'
    BY <1>4 DEF PathOK, BackupOK, DraftOK, BackedOK
<1>8. p \in mixed => f \in spoilt' /\ acked'[f] = acked[f]
    BY <1>0, <1>1, Facts DEF Remove, ghosts
<1>9. p \notin mixed =>
          /\ WholeOK(f)'
          /\ acked'[f] # "none" => f \notin spoilt' /\ live'[f] = acked'[f]
    BY <1>0, <1>1, Facts DEF WholeOK, Remove, ghosts
<1> QED
    BY <1>0, <1>1, <1>4, <1>5, <1>6, <1>7, <1>8, <1>9, OneSave

\* A temporary file that cannot be removed stays; nothing else changes.
LEMMA RemoveFailsKeeps ==
    ASSUME IInv, NEW p \in Pages, RemoveFails(p)
    PROVE  IInv'
<1>0. PICK f \in Files : f = File(p)
    BY Facts
<1>1. Saving(p) /\ Goto(p, "failed", "none") /\ mixed' = mixed
    BY DEF RemoveFails, disk, ghosts
<1>2. /\ save' \in [Pages -> Saves]
      /\ save'[p].file = f /\ save'[p].at = "failed" /\ save'[p].fd = "none"
      /\ \A q \in Pages \ {p} : save'[q] = save[q]
    BY <1>0, <1>1, GotoMoves DEF IInv
<1>3. Confined(p)
    BY <1>0, <1>1, <1>2, Facts DEF Confined, RemoveFails, disk, ghosts
<1>4. TypeOK'
    BY <1>0, <1>1, <1>2, Facts
       DEF IInv, TypeOK, BackupOK, Saves, RemoveFails, disk, ghosts
<1>5. PathOK(p)' /\ BackupOK(p)'
    BY <1>0, <1>1, <1>2, Facts DEF PathOK, BackupOK, RemoveFails, disk, ghosts
<1>6. p \in mixed => f \in spoilt' /\ acked'[f] = acked[f]
    BY <1>0, <1>1, Facts DEF RemoveFails, disk, ghosts
<1>7. p \notin mixed =>
          /\ DraftOK(p)' /\ BackedOK(p)' /\ WholeOK(f)'
          /\ acked'[f] # "none" =>
                /\ f \notin spoilt'
                /\ IF save'[p].at = "refill" THEN backup'[f] = acked'[f]
                                             ELSE live'[f] = acked'[f]
    BY <1>0, <1>1, <1>2, Facts
       DEF PathOK, DraftOK, BackupOK, BackedOK, WholeOK, RemoveFails, disk, ghosts
<1> QED
    BY <1>0, <1>1, <1>3, <1>4, <1>5, <1>6, <1>7, Facts, OneSave

\* A page that is not yet saving may post, be refused, or begin.
LEMMA HandlerKeeps ==
    ASSUME IInv, NEW p \in Pages, Post(p) \/ Reject(p) \/ Begin(p)
    PROVE  IInv'
<1>0. PICK f \in Files : f = File(p)
    BY Facts
<1>1. PICK at \in {"validate", "failed", "backup"} :
          /\ Goto(p, at, "none") /\ At(p) \in {"edit", "validate"}
          /\ at = "backup" <=> Begin(p)
    <2>1. "validate" # "failed" /\ "failed" # "backup" /\ "validate" # "backup"
        OBVIOUS
    <2>2. Post(p) => Goto(p, "validate", "none") /\ At(p) = "edit"
        BY DEF Post
    <2>3. Reject(p) => Goto(p, "failed", "none") /\ At(p) = "validate"
        BY DEF Reject
    <2>4. Begin(p) => Goto(p, "backup", "none") /\ At(p) = "validate"
        BY DEF Begin
    <2>5. Begin(p) => save'[p].at = "backup"
        BY <2>4, GotoMoves DEF IInv
    <2>6. Reject(p) => save'[p].at = "failed"
        BY <2>3, GotoMoves DEF IInv
    <2>7. Post(p) => save'[p].at = "validate"
        BY <2>2, GotoMoves DEF IInv
    <2> QED
        BY <2>1, <2>2, <2>3, <2>4, <2>5, <2>6, <2>7
<1>2. /\ save' \in [Pages -> Saves]
      /\ save'[p].file = f /\ save'[p].at = at /\ save'[p].fd = "none"
      /\ \A q \in Pages \ {p} : save'[q] = save[q]
    BY <1>0, <1>1, GotoMoves DEF IInv
<1>3. UNCHANGED <<live, backup, temp>>
    BY DEF Post, Reject, Begin, disk
<1>4. \A q \in Pages \ {p} : Others(q)' \subseteq Others(q) \cup {p}
    BY <1>2 DEF Others
<1>5. CASE ~Begin(p)
    <2>1. UNCHANGED <<mixed, acked, spoilt>> /\ ~Saving(p)' /\ ~Saving(p)
        BY <1>1, <1>2, <1>5 DEF Post, Reject, ghosts
    <2>2. TypeOK'
        BY <1>2, <1>3, <2>1 DEF IInv, TypeOK, Saves
    <2>3. \A q \in Pages : AloneOK(q)' /\ MixedOK(q)'
        BY <1>2, <2>1 DEF IInv, AloneOK, MixedOK, Others
    <2>4. \A q \in Pages : PathOK(q)' /\ BackupOK(q)' /\ BackedOK(q)'
        BY <1>2, <1>3, <2>1 DEF IInv, PathOK, BackupOK, BackedOK
    <2>5. \A q \in Pages \ mixed' : DraftOK(q)'
        BY <1>2, <1>3, <2>1 DEF IInv, DraftOK
    <2>6. \A g \in Files : Restoring(g)' <=> Restoring(g)
        BY <1>1, <1>2 DEF Restoring
    <2>7. \A g \in Files : WholeOK(g)' /\ AckedOK(g)'
        BY <1>3, <2>1, <2>6 DEF IInv, WholeOK, AckedOK
    <2> QED
        BY <2>2, <2>3, <2>4, <2>5, <2>7 DEF IInv
<1>6. CASE Begin(p)
    <2>0. at = "backup"
        BY <1>1, <1>6
    <2>1. \A g \in Files : Restoring(g)' <=> Restoring(g)
        BY <1>1, <1>2 DEF Restoring
    <2>2. \A q \in Pages : BackupOK(q)'
        BY <1>2, <1>3, <2>0 DEF IInv, BackupOK
    <2>3. CASE Others(p) = {}
        <3>1. mixed' = mixed \ {p} /\ UNCHANGED <<acked, spoilt>>
            BY <1>6, <2>3 DEF Begin
        <3>2. TypeOK'
            BY <1>2, <1>3, <3>1 DEF IInv, TypeOK, Saves
        <3>3. \A q \in Pages \ {p} : Saving(q) => File(q) # f
            BY <1>0, <2>3 DEF Others
        <3>4. \A q \in Pages : AloneOK(q)' /\ MixedOK(q)'
            BY <1>0, <1>2, <3>1, <3>3 DEF IInv, AloneOK, MixedOK, Others
        <3>5. \A q \in Pages : PathOK(q)' /\ BackedOK(q)'
            BY <1>2, <1>3, <2>0, <3>1 DEF IInv, PathOK, BackedOK
        <3>6. \A q \in Pages \ mixed' : DraftOK(q)'
            BY <1>2, <1>3, <2>0, <3>1 DEF IInv, DraftOK
        <3>7. \A g \in Files : WholeOK(g)' /\ AckedOK(g)'
            BY <1>3, <2>1, <3>1 DEF IInv, WholeOK, AckedOK
        <3> QED
            BY <2>2, <3>2, <3>4, <3>5, <3>6, <3>7 DEF IInv
    <2>4. CASE Others(p) # {}
        <3>1. /\ mixed' = mixed \cup {p} \cup Others(p)
              /\ acked' = [acked EXCEPT ![f] = "none"]
              /\ spoilt' = spoilt \cup {f}
            BY <1>0, <1>6, <2>4 DEF Begin
        <3>2. TypeOK'
            BY <1>2, <1>3, <3>1 DEF IInv, TypeOK, Saves, Others
        <3>3. \A q \in Pages \ {p} : Saving(q) /\ File(q) = f => q \in mixed'
            BY <1>0, <3>1 DEF Others
        <3>4. \A q \in Pages : AloneOK(q)' /\ MixedOK(q)'
            BY <1>0, <1>2, <3>1, <3>3 DEF IInv, AloneOK, MixedOK, Others
        <3>5. \A q \in Pages : PathOK(q)' /\ BackedOK(q)'
            BY <1>2, <1>3, <2>0, <3>1 DEF IInv, PathOK, BackedOK
        <3>6. \A q \in Pages \ mixed' : DraftOK(q)'
            BY <1>2, <1>3, <2>0, <3>1 DEF IInv, DraftOK
        <3>7. \A g \in Files : WholeOK(g)' /\ AckedOK(g)'
            BY <1>3, <2>1, <3>1 DEF IInv, TypeOK, WholeOK, AckedOK
        <3> QED
            BY <2>2, <3>2, <3>4, <3>5, <3>6, <3>7 DEF IInv
    <2> QED
        BY <2>3, <2>4
<1> QED
    BY <1>5, <1>6

\* The end of the process keeps the invariant: nobody saves any more, and a live
\* file that was being restored has its backup.
LEMMA RestartKeeps ==
    ASSUME IInv, Restart
    PROVE  IInv'
<1>1. ASSUME NEW q \in Pages
      PROVE  /\ save'[q] \in Saves /\ save'[q].file = save[q].file
             /\ ~Saving(q)' /\ save'[q].at \notin Working /\ save'[q].fd = "none"
    <2>1. save[q] \in Saves
        BY DEF IInv, TypeOK, Saves
    <2>2. [save[q] EXCEPT !.at = "failed", !.fd = "none"] \in Saves
        BY <2>1 DEF Saves
    <2>3. save[q].at \notin Working => save[q].fd = "none"
        BY DEF IInv, PathOK
    <2> QED
        BY <2>1, <2>2, <2>3 DEF Restart, Saves
<1>2. save' \in [Pages -> Saves]
    BY <1>1 DEF Restart
<1>3. /\ \A g \in Files : acked'[g] = IF Restoring(g) THEN "none" ELSE acked[g]
      /\ acked' \in [Files -> Pages \cup {"none"}]
      /\ UNCHANGED <<live, backup, temp, mixed, spoilt>>
    BY DEF Restart, Restoring, disk, IInv, TypeOK
<1>4. TypeOK'
    BY <1>2, <1>3 DEF IInv, TypeOK, Saves
<1>5. \A q \in Pages : /\ AloneOK(q)' /\ MixedOK(q)' /\ PathOK(q)' /\ BackupOK(q)'
                       /\ BackedOK(q)' /\ DraftOK(q)'
    BY <1>1 DEF AloneOK, MixedOK, PathOK, BackupOK, BackedOK, DraftOK
<1>6. \A g \in Files : ~Restoring(g)'
    BY <1>1 DEF Restoring
<1>7. \A g \in Files : WholeOK(g)' /\ AckedOK(g)'
    BY <1>3, <1>6 DEF IInv, WholeOK, AckedOK
<1> QED
    BY <1>4, <1>5, <1>7 DEF IInv

-----------------------------------------------------------------------------
(* The theorems.                                                           *)

\* The invariant holds at first.
LEMMA IInvInit == Init => IInv
<1> SUFFICES ASSUME Init PROVE IInv
    OBVIOUS
<1>1. TypeOK
    BY DEF Init, TypeOK, Files
<1>2. \A p \in Pages : At(p) = "edit" /\ save[p].fd = "none"
    BY DEF Init
<1>3. \A p \in Pages : /\ AloneOK(p) /\ MixedOK(p) /\ PathOK(p) /\ BackupOK(p)
                       /\ BackedOK(p) /\ DraftOK(p)
    BY <1>2 DEF AloneOK, MixedOK, PathOK, BackupOK, BackedOK, DraftOK
<1>4. \A f \in Files : WholeOK(f) /\ AckedOK(f)
    BY DEF Init, WholeOK, AckedOK
<1> QED
    BY <1>1, <1>3, <1>4 DEF IInv

\* Every step keeps the invariant.
LEMMA IInvStep == IInv /\ [Next]_vars => IInv'
<1> SUFFICES ASSUME IInv, [Next]_vars PROVE IInv'
    OBVIOUS
<1>1. CASE UNCHANGED vars
    BY <1>1 DEF vars, disk, ghosts, IInv, TypeOK, AloneOK, MixedOK, PathOK, BackupOK,
                BackedOK, DraftOK, WholeOK, AckedOK, Restoring, Others
<1>2. CASE Restart
    BY <1>2, RestartKeeps
<1>3. ASSUME NEW p \in Pages, Step(p)
      PROVE  IInv'
    BY <1>3, HandlerKeeps, OpenBackupKeeps, CopyBackupKeeps, BackupFailsKeeps, OpenTempKeeps,
       WriteKeeps, WriteFailsKeeps, CheckKeeps, RenameKeeps, RenameFailsKeeps, OpenLiveKeeps,
       RefillKeeps, RestoreFailsKeeps, RemoveKeeps,
       RemoveFailsKeeps
       DEF Step
<1> QED
    BY <1>1, <1>2, <1>3 DEF Next

\* The state keeps its shape; no live file goes missing.
THEOREM StoreTypes == Spec => []TypeOK
<1>1. IInv => TypeOK
    BY DEF IInv
<1> QED
    BY <1>1, IInvInit, IInvStep, PTL DEF Spec

\* A whole copy of each file is left, whichever step of a save fails and wherever
\* the process ends (save_config_atomic), unless saves of the file overlapped, or
\* one that was alone began on a torn file and copied that over the backup.
THEOREM AWholeCopyIsLeft == Spec => []WholeCopy
<1>1. IInv => WholeCopy
    BY DEF IInv, WholeCopy, WholeOK
<1> QED
    BY <1>1, IInvInit, IInvStep, PTL DEF Spec

\* What a success stored is what a start loads (save_config_atomic,
\* load_services_config, load_machines_config), unless saves of the file overlapped
\* or a restore of it was cut off or failed since; and for the services only if the
\* machines have been saved as well.
THEOREM SavedIsAlwaysLoaded == Spec => []SavedIsLoaded
<1>1. ASSUME IInv PROVE SavedIsLoaded
    <2>1. \A f \in Files : acked[f] # "none" /\ ~Restoring(f) =>
             live[f] = acked[f] /\ acked[f] \in Pages
        BY <1>1 DEF IInv, TypeOK, AckedOK
    <2>2. Original \notin Pages
        OBVIOUS
    <2> QED
        BY <2>1, <2>2 DEF SavedIsLoaded, LoadMachines, LoadServices, HasSelf, Files
<1> QED
    BY <1>1, IInvInit, IInvStep, PTL DEF Spec
=============================================================================
