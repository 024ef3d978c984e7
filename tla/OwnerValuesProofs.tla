------------------------- MODULE OwnerValuesProofs -------------------------
(* Theorems about what the Router keeps for an owner and about a runbook a  *)
(* gateway fires, for every value of the constants.                         *)
EXTENDS RunbookFire, OwnerLock, Shares, OwnerOpIntake, ScheduledSends, Enrolment, SequenceTheorems, WellFoundedInduction, TLAPS

----------------------------------------------------------------------------
(* RunbookFire: a fire that may still deliver has delivered nothing that a  *)
(* stop or an error did not forget.                                         *)

Markers == [state : {"none", "in-flight", "complete"}, generation : Nat]

RunbookTypes ==
    /\ entry \in Markers /\ disk \in Markers
    /\ fire \in [at : {"none", "opening", "sending", "relaying", "sent"}, generation : Nat]
    /\ fence \in [fenced : BOOLEAN, settled : BOOLEAN]
    /\ nextGeneration \in Nat /\ firing \in BOOLEAN
    /\ sent \in Nat /\ swallowed \in Nat /\ failed \in Nat /\ crashed \in Nat

(* Where the fire stands decides whether the op is held, and what the       *)
(* session has, or a fence refused.                                         *)
FireStands ==
    /\ fire.at = "none" => fire = NoFire
    /\ fire.at # "none" => firing /\ entry.state # "complete"
    /\ fire.at = "sent" \/ disk.state = "complete" => sent + swallowed > 0

(* What can still be delivered was not, since the last stop or error. *)
DeliverableIsNew ==
    entry.state # "complete" /\ (~ firing \/ fire.at \in {"opening", "sending", "relaying"}) => sent <= crashed + failed

RunbookInv == RunbookTypes /\ FireStands /\ DeliverableIsNew /\ FireSettles

(* The invariant holds at the start. *)
LEMMA RunbookInitInv == RunbookInit => RunbookInv
<1> SUFFICES ASSUME RunbookInit
             PROVE  RunbookInv
    OBVIOUS
<1> USE DEF RunbookInit, NoMarker, NoFire, Unfenced
<1>1. RunbookTypes
    BY DEF RunbookTypes, Markers
<1>2. FireStands /\ DeliverableIsNew /\ FireSettles
    BY DEF FireStands, DeliverableIsNew, FireSettles, FiredOnce, HeldOnlyFired
<1> QED
    BY <1>1, <1>2 DEF RunbookInv

(* Every step of the op store, the fire and the gateway keeps it. *)
LEMMA RunbookStep == RunbookInv /\ [RunbookNext]_runbookVars => RunbookInv'
<1> SUFFICES ASSUME RunbookInv, [RunbookNext]_runbookVars
             PROVE  RunbookInv'
    OBVIOUS
<1> USE DEF RunbookInv, RunbookTypes, Markers, FireStands, DeliverableIsNew, FireSettles, FiredOnce,
            HeldOnlyFired, NoMarker, NoFire, Unfenced, observers, persist
<1>1. CASE Fires
    <2>1. CASE entry.state = "complete" \/ firing
        BY <1>1, <2>1 DEF Fires
    <2>2. CASE ~ (entry.state = "complete" \/ firing)
        <3>1. entry.state # "complete" /\ ~ firing
            BY <2>2
        <3>2. /\ UNCHANGED <<fence, sent, swallowed, failed, crashed>> /\ firing' = TRUE
              /\ entry' = entry \/ entry' = [state |-> "in-flight", generation |-> nextGeneration]
              /\ disk' = disk \/ (disk' = entry' /\ entry' = [state |-> "in-flight", generation |-> nextGeneration])
              /\ nextGeneration' \in Nat
              /\ \E at \in {"opening", "sending", "relaying"} : fire' = [at |-> at, generation |-> Generation]
            BY <1>1, <3>1 DEF Fires, markInFlight
        <3>3. Generation \in Nat
            BY DEF Generation
        <3>4. PICK at \in {"opening", "sending", "relaying"} : fire' = [at |-> at, generation |-> Generation]
            BY <3>2
        <3>5. fire' \in [at : {"none", "opening", "sending", "relaying", "sent"}, generation : Nat] /\ fire'.at = at
            BY <3>3, <3>4
        <3>6. entry' \in Markers /\ entry'.state # "complete"
            BY <3>1, <3>2
        <3>7. disk' \in Markers /\ (disk'.state = "complete" => disk.state = "complete")
            BY <3>2, <3>6
        <3> QED
            BY <3>1, <3>2, <3>5, <3>6, <3>7
    <2> QED
        BY <2>1, <2>2
<1>2. CASE Registered
    BY <1>2 DEF Registered
<1>12. ASSUME fire.at # "none", release
      PROVE  /\ entry' \in Markers /\ entry'.state # "complete"
             /\ disk' \in Markers /\ (disk'.state = "complete" => disk.state = "complete")
    <2>1. entry' = entry \/ entry' = NoMarker
        BY <1>12 DEF release, clear
    <2>2. entry' \in Markers /\ entry'.state # "complete"
        BY <1>12, <2>1
    <2>3. disk' = disk \/ disk' = entry'
        BY <1>12 DEF release
    <2> QED
        BY <2>2, <2>3
<1>3. CASE NotFired
    <2>1. /\ fire.at # "none" /\ fire' = NoFire /\ firing' = FALSE
          /\ fire.at \in {"opening", "sending", "relaying"}
          /\ UNCHANGED <<nextGeneration, fence, sent, swallowed, failed, crashed>>
        BY <1>3 DEF NotFired, release
    <2>2. fire' \in [at : {"none", "opening", "sending", "relaying", "sent"}, generation : Nat] /\ fire'.at = "none"
        BY <2>1
    <2>3. release
        BY <1>3 DEF NotFired
    <2> QED
        BY <1>12, <2>1, <2>2, <2>3
<1>4. CASE deliver
    BY <1>4 DEF deliver
<1>5. CASE FailsLate
    <2>1. /\ fire.at = "sent" /\ fire' = NoFire /\ firing' = FALSE /\ failed' = failed + 1
          /\ UNCHANGED <<nextGeneration, fence, sent, swallowed, crashed>>
        BY <1>5 DEF FailsLate, release
    <2>2. fire' \in [at : {"none", "opening", "sending", "relaying", "sent"}, generation : Nat] /\ fire'.at = "none"
        BY <2>1
    <2>3. release
        BY <1>5 DEF FailsLate
    <2>4. /\ entry' \in Markers /\ entry'.state # "complete"
          /\ disk' \in Markers /\ (disk'.state = "complete" => disk.state = "complete")
        BY <1>12, <2>1, <2>3
    <2>5. RunbookTypes'
        <3>1. failed' \in Nat
            BY <2>1
        <3>2. firing' \in BOOLEAN
            BY <2>1
        <3>3. /\ sent' \in Nat /\ swallowed' \in Nat /\ crashed' \in Nat
              /\ nextGeneration' \in Nat /\ fence' \in [fenced : BOOLEAN, settled : BOOLEAN]
            BY <2>1
        <3> QED
            BY <2>2, <2>4, <3>1, <3>2, <3>3
    <2>6. FireStands'
        BY <2>1, <2>2, <2>4
    <2>7. DeliverableIsNew' /\ FireSettles'
        <3>1. sent <= 1 + crashed + failed
            OBVIOUS
        <3>2. sent' <= crashed' + failed'
            BY <2>1, <3>1
        <3> QED
            BY <2>1, <2>4, <2>5, <3>2
    <2> QED
        BY <2>5, <2>6, <2>7
<1>6. CASE markComplete
    BY <1>6 DEF markComplete, Completed
<1>7. CASE Fence
    BY <1>7 DEF Fence
<1>8. CASE Unfence
    BY <1>8 DEF Unfence
<1>9. CASE failInFlight
    <2>1. /\ UNCHANGED <<nextGeneration, firing, fire, sent, swallowed, failed, crashed>>
          /\ fence' = [fence EXCEPT !.settled = TRUE]
          /\ entry' = entry \/ entry' = NoMarker
          /\ disk' = disk \/ disk' = NoMarker
        <3>1. entry' = (IF entry.state = "in-flight" THEN NoMarker ELSE entry)
            BY <1>9 DEF failInFlight
        <3>2. disk' = disk \/ (entry' # entry /\ disk' = entry')
            BY <1>9 DEF failInFlight
        <3>3. /\ UNCHANGED <<nextGeneration, firing, fire, sent, swallowed, failed, crashed>>
              /\ fence' = [fence EXCEPT !.settled = TRUE]
            BY <1>9 DEF failInFlight
        <3> QED
            BY <3>1, <3>2, <3>3
    <2>2. fence' \in [fenced : BOOLEAN, settled : BOOLEAN]
        BY <2>1
    <2>3. /\ entry' \in Markers /\ (entry'.state = "complete" => entry.state = "complete")
          /\ disk' \in Markers /\ (disk'.state = "complete" => disk.state = "complete")
        BY <2>1
    <2>4. entry.state = "complete" => entry'.state = "complete"
        BY <1>9 DEF failInFlight
    <2>5. RunbookTypes'
        BY <2>1, <2>2, <2>3
    <2>6. FireStands' /\ DeliverableIsNew' /\ FireSettles'
        BY <2>1, <2>3, <2>4
    <2> QED
        BY <2>5, <2>6
<1>10. CASE Stops
    <2>1. /\ UNCHANGED <<disk, sent, swallowed, failed>> /\ entry' = disk
          /\ ~ firing' /\ fire' = [at |-> "none", generation |-> 0]
          /\ fence' = [fence EXCEPT !.settled = FALSE] /\ nextGeneration' = disk.generation + 1
        BY <1>10 DEF Stops
    <2>2. crashed' = crashed + (IF sent > 0 /\ disk.state # "complete" THEN 1 ELSE 0)
        BY <1>10 DEF Stops
    <2>3. crashed' \in Nat /\ crashed' >= crashed
        BY <2>2
    <2>4. entry'.state # "complete" => sent <= crashed' + failed
        BY <2>1, <2>2
    <2>5. RunbookTypes'
        <3>1. fire' \in [at : {"none", "opening", "sending", "relaying", "sent"}, generation : Nat]
            BY <2>1
        <3>2. fence' \in [fenced : BOOLEAN, settled : BOOLEAN]
            BY <2>1
        <3>3. disk.generation + 1 \in Nat /\ firing' = FALSE
            BY <1>10 DEF Stops
        <3> QED
            BY <2>1, <2>3, <3>1, <3>2, <3>3
    <2>6. FireStands' /\ DeliverableIsNew' /\ FireSettles'
        BY <2>1, <2>3, <2>4
    <2> QED
        BY <2>5, <2>6
<1>11. CASE UNCHANGED runbookVars
    BY <1>11 DEF runbookVars
<1> QED
    BY <1>1, <1>2, <1>3, <1>4, <1>5, <1>6, <1>7, <1>8, <1>9, <1>10, <1>11 DEF RunbookNext

(* Whatever fences, stops and lost answers come between the phone's          *)
(* repetitions, the session gets the runbook once more only for a stop that  *)
(* forgot a delivery or a fire that failed after it, and an op that no fire  *)
(* runs is held, or done, only when the session has it or a fence refused it.*)
THEOREM FiresSettle == RunbookSpec => []FireSettles
<1>1. RunbookInv => FireSettles
    BY DEF RunbookInv
<1> QED
    BY <1>1, RunbookInitInv, RunbookStep, PTL DEF RunbookSpec

----------------------------------------------------------------------------
(* OwnerLock: until a lock is put back over a successor's, the name points  *)
(* at the youngest file or at nothing, and only who made the youngest file  *)
(* has read every line.                                                     *)

LockFile == [owner : Openers \cup {"gone"}, gen : Nat, filled : BOOLEAN, fresh : BOOLEAN]
Opener ==
    [pc : {"idle", "read", "move", "moved", "putBack", "create", "fill", "replay", "open", "beat",
           "closed", "dead"},
     ino : Nat, gen : Nat, aside : Nat, fd : Nat, seq : Nat]

LockTypes ==
    /\ lockFiles \in Seq(LockFile) /\ lockPath \in 0 .. Len(lockFiles)
    /\ opener \in [Openers -> Opener]
    /\ lines \in Seq(Nat) /\ overwritten \in BOOLEAN

(* Who has a file made it, and what is aside exists. *)
OwnsFile(p) ==
    /\ opener[p].aside \in 0 .. Len(lockFiles)
    /\ opener[p].pc \in {"fill", "replay", "open", "beat"} =>
          opener[p].fd \in 1 .. Len(lockFiles) /\ lockFiles[opener[p].fd].owner = p

Youngest(p) == opener[p].pc \in {"open", "beat"} /\ opener[p].fd = Len(lockFiles)

YoungestReads ==
    ~ overwritten =>
        /\ lockPath \in {0, Len(lockFiles)}
        /\ \A i \in 1 .. Len(lines) : lines[i] = i
        /\ \A p \in Openers : Youngest(p) => opener[p].seq = Len(lines)

LockInv == LockTypes /\ (\A p \in Openers : OwnsFile(p)) /\ YoungestReads

(* The invariant holds at the start. *)
LEMMA LockInitInv == LockInit => LockInv
<1> SUFFICES ASSUME LockInit
             PROVE  LockInv
    OBVIOUS
<1>1. /\ opener = [p \in Openers |-> NotOpen] /\ lines = <<>> /\ overwritten = FALSE
      /\ NotOpen \in Opener /\ NotOpen.pc = "idle" /\ NotOpen.aside = 0
    BY DEF LockInit, NotOpen, Opener
<1>2. lockFiles \in Seq(LockFile) /\ lockPath \in 0 .. Len(lockFiles) /\ lockPath \in {0, Len(lockFiles)}
    <2>1. CASE lockPath = 0 /\ lockFiles = <<>>
        BY <2>1
    <2>2. CASE lockPath = 1 /\ lockFiles = <<[owner |-> "gone", gen |-> 1, filled |-> TRUE, fresh |-> FALSE]>>
        <3>1. [owner |-> "gone", gen |-> 1, filled |-> TRUE, fresh |-> FALSE] \in LockFile
            BY DEF LockFile
        <3> QED
            BY <2>2, <3>1
    <2> QED
        BY <2>1, <2>2 DEF LockInit
<1>3. lines \in Seq(Nat) /\ Len(lines) = 0
    BY <1>1
<1>4. \A p \in Openers : opener[p].pc = "idle" /\ opener[p].aside = 0
    BY <1>1
<1>5. opener \in [Openers -> Opener] /\ Len(lockFiles) \in Nat
    BY <1>1, <1>2
<1>6. LockTypes
    BY <1>1, <1>2, <1>3, <1>5 DEF LockTypes
<1>7. \A p \in Openers : OwnsFile(p) /\ ~ Youngest(p)
    BY <1>4, <1>5 DEF OwnsFile, Youngest
<1> QED
    BY <1>2, <1>3, <1>6, <1>7 DEF LockInv, YoungestReads

(* A step of one process that leaves the files, the name and the lines. *)
LEMMA OpenerMoves ==
    ASSUME LockInv, NEW p \in Openers, NEW o \in Opener,
           opener' = [opener EXCEPT ![p] = o],
           UNCHANGED <<lockFiles, lockPath, lines, overwritten>>,
           o.aside \in 0 .. Len(lockFiles),
           o.pc \in {"fill", "replay", "open", "beat"} =>
               o.fd \in 1 .. Len(lockFiles) /\ lockFiles[o.fd].owner = p,
           o.pc \in {"open", "beat"} /\ o.fd = Len(lockFiles) => o.seq = Len(lines)
    PROVE  LockInv'
<1>1. opener' \in [Openers -> Opener] /\ opener'[p] = o /\ \A q \in Openers : q # p => opener'[q] = opener[q]
    BY DEF LockInv, LockTypes
<1>2. LockTypes'
    BY <1>1 DEF LockInv, LockTypes
<1>3. \A q \in Openers : OwnsFile(q)'
    BY <1>1 DEF LockInv, OwnsFile
<1>4. YoungestReads'
    BY <1>1 DEF LockInv, YoungestReads, Youngest
<1> QED
    BY <1>2, <1>3, <1>4 DEF LockInv

(* A lock file that is filled, emptied or lapses is the same file. *)
LEMMA FileKept ==
    ASSUME LockInv, NEW f \in 1 .. Len(lockFiles), NEW lf \in LockFile, lf.owner = lockFiles[f].owner,
           lockFiles' = [lockFiles EXCEPT ![f] = lf]
    PROVE  /\ lockFiles' \in Seq(LockFile) /\ Len(lockFiles') = Len(lockFiles)
           /\ \A i \in 1 .. Len(lockFiles) : lockFiles'[i].owner = lockFiles[i].owner
BY DEF LockInv, LockTypes

(* A step of one process that fills or empties its file. *)
LEMMA OpenerWrites ==
    ASSUME LockInv, NEW p \in Openers, NEW o \in Opener,
           opener' = [opener EXCEPT ![p] = o],
           UNCHANGED <<lockPath, lines, overwritten>>,
           lockFiles' \in Seq(LockFile), Len(lockFiles') = Len(lockFiles),
           \A i \in 1 .. Len(lockFiles) : lockFiles'[i].owner = lockFiles[i].owner,
           opener[p].pc \in {"fill", "open", "beat"}, o.fd = opener[p].fd, o.aside = opener[p].aside,
           o.seq = opener[p].seq,
           o.pc \in {"open", "beat"} => opener[p].pc \in {"open", "beat"},
           o.pc \in {"replay", "open", "beat"}
    PROVE  LockInv'
<1>1. opener' \in [Openers -> Opener] /\ opener'[p] = o /\ \A q \in Openers : q # p => opener'[q] = opener[q]
    BY DEF LockInv, LockTypes
<1>2. LockTypes'
    BY <1>1 DEF LockInv, LockTypes
<1>3. \A q \in Openers : OwnsFile(q)'
    BY <1>1 DEF LockInv, OwnsFile
<1>4. YoungestReads'
    BY <1>1 DEF LockInv, YoungestReads, Youngest
<1> QED
    BY <1>2, <1>3, <1>4 DEF LockInv

(* A process that no longer holds anything. *)
LEMMA GivesUp ==
    ASSUME NEW pc \in {"closed", "dead", "idle"}
    PROVE  /\ [NotOpen EXCEPT !.pc = pc] \in Opener
           /\ [NotOpen EXCEPT !.pc = pc].pc = pc
           /\ [NotOpen EXCEPT !.pc = pc].aside = 0
BY DEF NotOpen, Opener

(* Every step of every process keeps the invariant. *)
LEMMA LockStep == LockInv /\ [LockNext]_lockVars => LockInv'
<1> SUFFICES ASSUME LockInv, [LockNext]_lockVars
             PROVE  LockInv'
    OBVIOUS
<1> USE DEF At, Goes
<1>0. /\ lockFiles \in Seq(LockFile) /\ lockPath \in 0 .. Len(lockFiles) /\ Len(lockFiles) \in Nat
      /\ opener \in [Openers -> Opener]
      /\ lines \in Seq(Nat) /\ Len(lines) \in Nat /\ overwritten \in BOOLEAN
      /\ \A p \in Openers : opener[p] \in Opener /\ opener[p].aside \in 0 .. Len(lockFiles)
    BY DEF LockInv, LockTypes, OwnsFile
<1>1. CASE Lapses
    <2>1. lockPath \in 1 .. Len(lockFiles) /\ lockFiles' = [lockFiles EXCEPT ![lockPath] = [@ EXCEPT !.fresh = FALSE]]
        BY <1>0, <1>1 DEF Lapses
    <2>2. lockFiles[lockPath] \in LockFile
        BY <1>0, <2>1
    <2> DEFINE lf == [lockFiles[lockPath] EXCEPT !.fresh = FALSE]
    <2>3. lf \in LockFile /\ lf.owner = lockFiles[lockPath].owner
        BY <2>2 DEF LockFile
    <2>4. lockFiles' = [lockFiles EXCEPT ![lockPath] = lf]
        BY <2>1
    <2> HIDE DEF lf
    <2>5. /\ lockFiles' \in Seq(LockFile) /\ Len(lockFiles') = Len(lockFiles)
          /\ \A i \in 1 .. Len(lockFiles) : lockFiles'[i].owner = lockFiles[i].owner
        BY <2>1, <2>3, <2>4, FileKept
    <2>6. UNCHANGED <<lockPath, opener, lines, overwritten>>
        BY <1>1 DEF Lapses
    <2> QED
        BY <1>0, <2>5, <2>6 DEF LockInv, LockTypes, OwnsFile, YoungestReads, Youngest
<1>2. ASSUME NEW p \in Openers, StatLock(p)
      PROVE  LockInv'
    <2> DEFINE o == IF lockPath = 0 THEN [NotOpen EXCEPT !.pc = "create", !.gen = 1]
                    ELSE [NotOpen EXCEPT !.pc = "read", !.ino = lockPath]
    <2>1. o \in Opener /\ o.aside = 0 /\ o.pc \in {"create", "read"}
        <3>1. CASE lockPath = 0
            BY <3>1 DEF NotOpen, Opener
        <3>2. CASE lockPath # 0
            <4>1. lockPath \in Nat
                BY <1>0
            <4>2. o = [pc |-> "read", ino |-> lockPath, gen |-> 0, aside |-> 0, fd |-> 0, seq |-> 0]
                BY <3>2 DEF NotOpen
            <4> HIDE DEF o
            <4> QED
                BY <4>1, <4>2 DEF Opener
        <3> QED
            BY <3>1, <3>2
    <2>2. opener' = [opener EXCEPT ![p] = o] /\ UNCHANGED <<lockFiles, lockPath, lines, overwritten>>
        BY <1>2 DEF StatLock
    <2> HIDE DEF o
    <2>3. o.aside \in 0 .. Len(lockFiles)
        BY <1>0, <2>1
    <2> QED
        BY <2>1, <2>2, <2>3, OpenerMoves
<1>3. ASSUME NEW p \in Openers, ReadLock(p)
      PROVE  LockInv'
    <2> DEFINE readable == lockPath # 0 /\ lockFiles[lockPath].filled
               prior == IF readable THEN lockFiles[lockPath] ELSE NoPrior
               taken == readable /\ Alive(prior.owner) /\ prior.fresh
               o == IF taken THEN NotOpen ELSE [opener[p] EXCEPT !.pc = "move", !.gen = prior.gen + 1]
    <2>1. prior.gen \in Nat
        <3>1. CASE readable
            <4>1. lockFiles[lockPath] \in LockFile
                BY <1>0, <3>1
            <4> QED
                BY <3>1, <4>1 DEF LockFile
        <3>2. CASE ~ readable
            BY <3>2 DEF NoPrior
        <3> QED
            BY <3>1, <3>2
    <2>2. opener' = [opener EXCEPT ![p] = o] /\ UNCHANGED <<lockFiles, lockPath, lines, overwritten>>
        BY <1>3 DEF ReadLock
    <2> HIDE DEF prior, taken
    <2>3. opener[p] \in Opener /\ opener[p].aside \in 0 .. Len(lockFiles)
        BY <1>0
    <2>4. o \in Opener /\ o.aside \in 0 .. Len(lockFiles) /\ o.pc \in {"idle", "move"}
        <3>1. CASE taken
            BY <1>0, <3>1 DEF NotOpen, Opener
        <3>2. CASE ~ taken
            <4>1. o = [opener[p] EXCEPT !.pc = "move", !.gen = prior.gen + 1] /\ prior.gen + 1 \in Nat
                BY <2>1, <3>2
            <4> HIDE DEF o
            <4> QED
                BY <2>3, <4>1 DEF Opener
        <3> QED
            BY <3>1, <3>2
    <2> HIDE DEF o
    <2> QED
        BY <2>2, <2>4, OpenerMoves
<1>4. ASSUME NEW p \in Openers, MoveAside(p)
      PROVE  LockInv'
    <2> DEFINE o == [opener[p] EXCEPT !.pc = "moved", !.aside = lockPath]
    <2>0. opener[p] \in Opener /\ lockPath \in Nat
        BY <1>0
    <2>1. o \in Opener /\ o.aside = lockPath /\ o.pc = "moved"
        BY <2>0 DEF Opener
    <2>2. opener' = [opener EXCEPT ![p] = o] /\ lockPath' = 0 /\ UNCHANGED <<lockFiles, lines, overwritten>>
        BY <1>4 DEF MoveAside
    <2> HIDE DEF o
    <2> QED
        BY <1>0, <2>1, <2>2 DEF LockInv, LockTypes, OwnsFile, YoungestReads, Youngest
<1>5. ASSUME NEW p \in Openers, CheckMoved(p)
      PROVE  LockInv'
    <2> DEFINE o == IF opener[p].aside \in {0, opener[p].ino}
                    THEN [opener[p] EXCEPT !.pc = "create", !.ino = 0, !.aside = 0]
                    ELSE [opener[p] EXCEPT !.pc = "putBack"]
    <2>0. opener[p] \in Opener /\ opener[p].aside \in 0 .. Len(lockFiles)
        BY <1>0
    <2>1. o \in Opener /\ o.aside \in 0 .. Len(lockFiles) /\ o.pc \in {"create", "putBack"}
        <3>1. CASE opener[p].aside \in {0, opener[p].ino}
            <4>1. o = [opener[p] EXCEPT !.pc = "create", !.ino = 0, !.aside = 0] /\ 0 \in 0 .. Len(lockFiles)
                BY <1>0, <3>1
            <4> HIDE DEF o
            <4> QED
                BY <2>0, <4>1 DEF Opener
        <3>2. CASE opener[p].aside \notin {0, opener[p].ino}
            BY <2>0, <3>2 DEF Opener
        <3> QED
            BY <3>1, <3>2
    <2>2. opener' = [opener EXCEPT ![p] = o] /\ UNCHANGED <<lockFiles, lockPath, lines, overwritten>>
        BY <1>5 DEF CheckMoved
    <2> HIDE DEF o
    <2> QED
        BY <2>1, <2>2, OpenerMoves
<1>6. ASSUME NEW p \in Openers, PutBack(p)
      PROVE  LockInv'
    <2>1. NotOpen \in Opener /\ NotOpen.aside = 0 /\ NotOpen.pc = "idle"
        BY DEF NotOpen, Opener
    <2>2. /\ opener' = [opener EXCEPT ![p] = NotOpen] /\ UNCHANGED <<lockFiles, lines>>
          /\ lockPath' = opener[p].aside
          /\ overwritten' = (overwritten \/ Len(lockFiles) > opener[p].aside)
        BY <1>6 DEF PutBack
    <2>3. opener[p].aside \in 0 .. Len(lockFiles)
        BY <1>0
    <2>4. ASSUME ~ overwritten'
          PROVE  ~ overwritten /\ lockPath' = Len(lockFiles)
        <3>1. ~ overwritten /\ ~ (Len(lockFiles) > opener[p].aside)
            BY <2>2, <2>4, Zenon
        <3> QED
            BY <1>0, <2>2, <2>3, <3>1
    <2>5. overwritten' \in BOOLEAN /\ lockPath' \in 0 .. Len(lockFiles)
        BY <2>2, <2>3
    <2> QED
        BY <1>0, <2>1, <2>2, <2>4, <2>5 DEF LockInv, LockTypes, OwnsFile, YoungestReads, Youngest
<1>7. ASSUME NEW p \in Openers, createLockFile(p)
      PROVE  LockInv'
    <2>1. CASE lockPath # 0
        <3>1. NotOpen \in Opener /\ NotOpen.aside \in 0 .. Len(lockFiles) /\ NotOpen.pc = "idle"
            BY <1>0 DEF NotOpen, Opener
        <3>2. opener' = [opener EXCEPT ![p] = NotOpen] /\ UNCHANGED <<lockFiles, lockPath, lines, overwritten>>
            BY <1>7, <2>1 DEF createLockFile
        <3> QED
            BY <3>1, <3>2, OpenerMoves
    <2>2. CASE lockPath = 0
        <3> DEFINE lf == [owner |-> p, gen |-> opener[p].gen, filled |-> FALSE, fresh |-> TRUE]
                   o == [opener[p] EXCEPT !.pc = "fill", !.fd = Len(lockFiles) + 1]
        <3>0. opener[p] \in Opener /\ Len(lockFiles) + 1 \in Nat
            BY <1>0
        <3>1. lf \in LockFile /\ lf.owner = p /\ o \in Opener /\ o.aside = opener[p].aside /\ o.pc = "fill"
              /\ o.fd = Len(lockFiles) + 1
            BY <3>0 DEF LockFile, Opener
        <3>2. /\ lockFiles' = Append(lockFiles, lf) /\ lockPath' = Len(lockFiles')
              /\ opener' = [opener EXCEPT ![p] = [opener[p] EXCEPT !.pc = "fill", !.fd = Len(lockFiles')]]
              /\ UNCHANGED <<lines, overwritten>>
            BY <1>7, <2>2 DEF createLockFile
        <3> HIDE DEF lf
        <3>3. /\ lockFiles' \in Seq(LockFile) /\ Len(lockFiles') = Len(lockFiles) + 1
              /\ lockFiles'[Len(lockFiles) + 1].owner = p
              /\ \A i \in 1 .. Len(lockFiles) : lockFiles'[i] = lockFiles[i]
            BY <1>0, <3>1, <3>2
        <3>4. opener' = [opener EXCEPT ![p] = o]
            BY <3>2, <3>3
        <3> HIDE DEF o
        <3>5. opener' \in [Openers -> Opener] /\ opener'[p] = o /\ \A q \in Openers : q # p => opener'[q] = opener[q]
            BY <1>0, <3>1, <3>4
        <3>6. LockTypes'
            BY <1>0, <3>2, <3>3, <3>5 DEF LockTypes
        <3>7. ASSUME NEW q \in Openers
              PROVE  OwnsFile(q)'
            <4>1. OwnsFile(q) /\ opener[q].aside \in 0 .. Len(lockFiles)
                BY <1>0 DEF LockInv
            <4>2. opener'[q].aside = opener[q].aside
                BY <3>1, <3>5
            <4>3. opener'[q].aside \in 0 .. Len(lockFiles')
                BY <1>0, <3>3, <4>1, <4>2
            <4>4. CASE q = p
                BY <1>0, <3>1, <3>3, <3>5, <4>3, <4>4 DEF OwnsFile
            <4>5. CASE q # p
                BY <1>0, <3>3, <3>5, <4>1, <4>3, <4>5 DEF OwnsFile
            <4> QED
                BY <4>4, <4>5
        <3>8. YoungestReads'
            <4>1. \A q \in Openers : ~ Youngest(q)'
                BY <1>0, <3>1, <3>3, <3>5 DEF LockInv, OwnsFile, Youngest
            <4> QED
                BY <3>2, <3>3, <4>1 DEF LockInv, YoungestReads
        <3> QED
            BY <3>6, <3>7, <3>8 DEF LockInv
    <2> QED
        BY <2>1, <2>2
<1>8. ASSUME NEW p \in Openers, NEW pc \in {"replay", "open"}, Fill(p, pc),
             opener[p].pc = IF pc = "replay" THEN "fill" ELSE "beat"
      PROVE  LockInv'
    <2>1. opener[p].fd \in 1 .. Len(lockFiles)
        BY <1>8 DEF LockInv, OwnsFile
    <2> DEFINE f == opener[p].fd
               lf == [lockFiles[f] EXCEPT !.filled = TRUE, !.fresh = TRUE]
               o == [opener[p] EXCEPT !.pc = pc]
    <2>2. lockFiles[f] \in LockFile
        BY <1>0, <2>1
    <2>3. lf \in LockFile /\ lf.owner = lockFiles[f].owner
        BY <2>2 DEF LockFile
    <2>4. lockFiles' = [lockFiles EXCEPT ![f] = lf]
        BY <1>0, <1>8, <2>1 DEF Fill
    <2>5. /\ o \in Opener /\ o.pc = pc /\ o.fd = opener[p].fd /\ o.aside = opener[p].aside /\ o.seq = opener[p].seq
          /\ opener' = [opener EXCEPT ![p] = o]
          /\ UNCHANGED <<lockPath, lines, overwritten>>
        BY <1>0, <1>8 DEF Fill, Opener
    <2> HIDE DEF lf, o
    <2>6. /\ lockFiles' \in Seq(LockFile) /\ Len(lockFiles') = Len(lockFiles)
          /\ \A i \in 1 .. Len(lockFiles) : lockFiles'[i].owner = lockFiles[i].owner
        BY <2>1, <2>3, <2>4, FileKept
    <2> QED
        BY <1>8, <2>5, <2>6, OpenerWrites
<1>9. ASSUME NEW p \in Openers, Replay(p)
      PROVE  LockInv'
    <2> DEFINE o == [opener[p] EXCEPT !.pc = "open", !.seq = Len(lines)]
    <2>1. /\ o \in Opener /\ o.pc = "open" /\ o.fd = opener[p].fd /\ o.aside = opener[p].aside
          /\ o.seq = Len(lines)
        BY <1>0 DEF Opener
    <2>2. opener[p].pc = "replay" /\ opener' = [opener EXCEPT ![p] = o]
          /\ UNCHANGED <<lockFiles, lockPath, lines, overwritten>>
        BY <1>9 DEF Replay
    <2> HIDE DEF o
    <2>3. o.fd \in 1 .. Len(lockFiles) /\ lockFiles[o.fd].owner = p
        BY <2>1, <2>2 DEF LockInv, OwnsFile
    <2> QED
        BY <1>0, <2>1, <2>2, <2>3, OpenerMoves
<1>10. ASSUME NEW p \in Openers, Closed(p), UNCHANGED <<lockFiles, lockPath, lines, overwritten>>
       PROVE  LockInv'
    <2> DEFINE o == [NotOpen EXCEPT !.pc = "closed"]
    <2>1. opener' = [opener EXCEPT ![p] = o]
        BY <1>10 DEF Closed
    <2>2. o \in Opener /\ o.pc = "closed" /\ o.aside \in 0 .. Len(lockFiles)
        BY <1>0, GivesUp
    <2> HIDE DEF o
    <2> QED
        BY <1>10, <2>1, <2>2, OpenerMoves
<1>11. ASSUME NEW p \in Openers, commit(p)
       PROVE  LockInv'
    <2>1. CASE stillOwned(p)
        <3> DEFINE o == [opener[p] EXCEPT !.seq = @ + 1]
        <3>1. /\ opener[p].pc = "open" /\ lockPath # 0 /\ lockPath = opener[p].fd
              /\ lines' = Append(lines, opener[p].seq + 1)
              /\ opener' = [opener EXCEPT ![p] = o]
              /\ UNCHANGED <<lockPath, lockFiles, overwritten>>
            BY <1>11, <2>1 DEF commit, stillOwned
        <3>0. opener[p] \in Opener
            BY <1>0
        <3>2. /\ o \in Opener /\ o.pc = "open" /\ o.fd = opener[p].fd /\ o.aside = opener[p].aside
              /\ o.seq = opener[p].seq + 1 /\ opener[p].seq \in Nat
            BY <3>0, <3>1 DEF Opener
        <3> HIDE DEF o
        <3>3. opener' \in [Openers -> Opener] /\ opener'[p] = o /\ \A q \in Openers : q # p => opener'[q] = opener[q]
            BY <1>0, <3>1, <3>2
        <3>4. lines' \in Seq(Nat) /\ Len(lines') = Len(lines) + 1 /\ lines'[Len(lines) + 1] = opener[p].seq + 1
              /\ \A i \in 1 .. Len(lines) : lines'[i] = lines[i]
            BY <1>0, <3>1, <3>2
        <3>5. LockTypes'
            BY <1>0, <3>1, <3>3, <3>4 DEF LockTypes
        <3>6. \A q \in Openers : OwnsFile(q)'
            BY <3>1, <3>2, <3>3 DEF LockInv, OwnsFile
        <3>7. YoungestReads'
            <4> SUFFICES ASSUME ~ overwritten
                         PROVE  /\ lockPath' \in {0, Len(lockFiles')}
                                /\ \A i \in 1 .. Len(lines') : lines'[i] = i
                                /\ \A q \in Openers : Youngest(q)' => opener'[q].seq = Len(lines')
                BY <3>1 DEF YoungestReads
            <4>1. lockPath = Len(lockFiles) /\ opener[p].fd = Len(lockFiles) /\ lockFiles[Len(lockFiles)].owner = p
                BY <1>0, <3>1 DEF LockInv, YoungestReads, OwnsFile
            <4>2. opener[p].seq = Len(lines) /\ \A i \in 1 .. Len(lines) : lines[i] = i
                BY <3>1, <4>1 DEF LockInv, YoungestReads, Youngest
            <4>3. \A i \in 1 .. Len(lines') : lines'[i] = i
                BY <1>0, <3>4, <4>2
            <4>4. ASSUME NEW q \in Openers, Youngest(q)'
                  PROVE  q = p
                BY <3>1, <3>3, <4>1, <4>4 DEF LockInv, Youngest, OwnsFile
            <4> QED
                BY <3>1, <3>2, <3>3, <3>4, <4>1, <4>2, <4>3, <4>4
        <3> QED
            BY <3>5, <3>6, <3>7 DEF LockInv
    <2>2. CASE ~ stillOwned(p)
        BY <1>10, <1>11, <2>2 DEF commit
    <2> QED
        BY <2>1, <2>2
<1>12. ASSUME NEW p \in Openers, refresh(p)
       PROVE  LockInv'
    <2>1. CASE stillOwned(p)
        <3>1. opener[p].pc = "open" /\ opener[p].fd \in 1 .. Len(lockFiles)
            BY <1>12 DEF LockInv, OwnsFile, refresh
        <3> DEFINE f == opener[p].fd
                   lf == [lockFiles[f] EXCEPT !.filled = FALSE]
                   o == [opener[p] EXCEPT !.pc = "beat"]
        <3>2. lockFiles[f] \in LockFile
            BY <1>0, <3>1
        <3>3. lf \in LockFile /\ lf.owner = lockFiles[f].owner
            BY <3>2 DEF LockFile
        <3>4. lockFiles' = [lockFiles EXCEPT ![f] = lf]
            BY <1>0, <1>12, <2>1, <3>1 DEF refresh
        <3>5. /\ o \in Opener /\ o.pc = "beat" /\ o.fd = opener[p].fd /\ o.aside = opener[p].aside
              /\ o.seq = opener[p].seq
              /\ opener' = [opener EXCEPT ![p] = o]
              /\ UNCHANGED <<lockPath, lines, overwritten>>
            BY <1>0, <1>12, <2>1 DEF refresh, Opener
        <3> HIDE DEF lf, o
        <3>6. /\ lockFiles' \in Seq(LockFile) /\ Len(lockFiles') = Len(lockFiles)
              /\ \A i \in 1 .. Len(lockFiles) : lockFiles'[i].owner = lockFiles[i].owner
            BY <3>1, <3>3, <3>4, FileKept
        <3> QED
            BY <3>1, <3>5, <3>6, OpenerWrites
    <2>2. CASE ~ stillOwned(p)
        BY <1>10, <1>12, <2>2 DEF refresh
    <2> QED
        BY <2>1, <2>2
<1>13. ASSUME NEW p \in Openers, stop(p)
       PROVE  LockInv'
    <2> DEFINE o == [NotOpen EXCEPT !.pc = "closed"]
    <2>1. /\ opener' = [opener EXCEPT ![p] = o] /\ UNCHANGED <<lockFiles, lines, overwritten>>
          /\ lockPath' \in {0, lockPath}
        BY <1>13 DEF stop, Closed
    <2>2. o \in Opener /\ o.pc = "closed" /\ o.aside = 0
        BY GivesUp
    <2> HIDE DEF o
    <2> QED
        BY <1>0, <2>1, <2>2 DEF LockInv, LockTypes, OwnsFile, YoungestReads, Youngest
<1>14. ASSUME NEW p \in Openers, Dies(p)
       PROVE  LockInv'
    <2> DEFINE o == [NotOpen EXCEPT !.pc = "dead"]
    <2>1. /\ opener' = [opener EXCEPT ![p] = o]
          /\ UNCHANGED <<lockFiles, lockPath, lines, overwritten>>
        BY <1>14 DEF Dies
    <2>2. o \in Opener /\ o.pc = "dead" /\ o.aside \in 0 .. Len(lockFiles)
        BY <1>0, GivesUp
    <2> HIDE DEF o
    <2> QED
        BY <2>1, <2>2, OpenerMoves
<1>15. CASE UNCHANGED lockVars
    BY <1>15 DEF lockVars, LockInv, LockTypes, OwnsFile, YoungestReads, Youngest
<1>16. ASSUME NEW p \in Openers, FillLock(p)
       PROVE  LockInv'
    BY <1>8, <1>16 DEF FillLock
<1>17. ASSUME NEW p \in Openers, Beat(p)
       PROVE  LockInv'
    BY <1>8, <1>17 DEF Beat
<1> QED
    BY <1>1, <1>2, <1>3, <1>4, <1>5, <1>6, <1>7, <1>9, <1>11, <1>12, <1>13, <1>14, <1>15, <1>16, <1>17
    DEF LockNext

(* No two stores opened under one owner's lock give a line the same seq, in  *)
(* whatever order processes stat, read, move, create, refresh, are held up   *)
(* and die, as long as no lock was put back over a successor's.              *)
THEOREM LockOneWriter == LockSpec => []OneWriter
<1>1. LockInv => OneWriter
    BY DEF LockInv, YoungestReads, OneWriter
<1> QED
    BY <1>1, LockInitInv, LockStep, PTL DEF LockSpec

----------------------------------------------------------------------------
(* Shares: a row that waits was admitted in the present stretch of sharing, *)
(* because every step that ends one drops the rows of the pair; and an edge *)
(* that was cut and stands is marked.                                       *)

ShareTypes ==
    /\ era \in [Pairs -> Nat]
    /\ edge \in [Friends -> Nat] /\ edges \in [Friends -> Nat]
    /\ marks \in [Friends -> Nat] /\ cut \in [Friends -> Nat]

RowsOfThisEra == \A r \in peerRows : r.pair \in Pairs /\ r.era = era[r.pair]

(* The marks and cuts of a friend are of edges it was given. *)
EdgesMinted ==
    \A f \in Friends :
        /\ edges[f] >= 1 /\ edge[f] \in {0, edges[f]}
        /\ marks[f] <= edges[f] /\ cut[f] <= edges[f]

CutIsMarked == \A f \in Friends : edge[f] # 0 /\ cut[f] = edge[f] => marks[f] = edge[f]

ShareInv == ShareTypes /\ RowsOfThisEra /\ EdgesMinted /\ CutIsMarked

(* Only the first edge a friend is given may be cut without being dropped. *)
FirstCutOnly == UnlinkCut \subseteq {1}

(* The invariant holds at the start. *)
LEMMA ShareInitInv == ShareInit => ShareInv
BY DEF ShareInit, ShareInv, ShareTypes, RowsOfThisEra, EdgesMinted, CutIsMarked

(* A change of what is shared whose ended pairs are all retired leaves only  *)
(* rows of the present stretch.                                             *)
LEMMA RowsRetired ==
    ASSUME NEW after, NEW bumped, ShareTypes, RowsOfThisEra, putState(after, bumped),
           \A p \in Pairs : /\ isSharedTo(shares, marks, edge, p[1], p[2])
                            /\ ~ isSharedTo(shares', marks', edge', p[1], p[2])
                            => p \in bumped
    PROVE  RowsOfThisEra' /\ era' \in [Pairs -> Nat] /\ shares' = after
<1> DEFINE was(p) == isSharedTo(shares, marks, edge, p[1], p[2])
           is(p) == isSharedTo(shares', marks', edge', p[1], p[2])
<1>1. /\ era' = [p \in Pairs |-> IF was(p) /\ ~ is(p) THEN era[p] + 1 ELSE era[p]]
      /\ peerRows' = {r \in peerRows : r.pair \notin bumped} /\ shares' = after
    BY DEF putState, Observed
<1>2. \A p \in Pairs : was(p) /\ ~ is(p) => p \in bumped
    OBVIOUS
<1> HIDE DEF was, is
<1>3. era' \in [Pairs -> Nat]
    BY <1>1 DEF ShareTypes
<1>4. ASSUME NEW r \in peerRows'
      PROVE  r.pair \in Pairs /\ r.era = era'[r.pair]
    <2>1. r \in peerRows /\ r.pair \notin bumped /\ r.pair \in Pairs /\ r.era = era[r.pair]
        BY <1>1, <1>4 DEF RowsOfThisEra
    <2>2. ~ (was(r.pair) /\ ~ is(r.pair))
        BY <1>2, <2>1
    <2>3. era'[r.pair] = era[r.pair]
        BY <1>1, <2>1, <2>2
    <2> QED
        BY <2>1, <2>3
<1> QED
    BY <1>1, <1>3, <1>4 DEF RowsOfThisEra

(* Every step of the owner, the friends and the sweep keeps the invariant.  *)
LEMMA ShareStep ==
    ASSUME FirstCutOnly, ShareInv, [ShareNext]_shareVars
    PROVE  ShareInv'
<1>0. ShareTypes /\ RowsOfThisEra /\ EdgesMinted /\ CutIsMarked
    BY DEF ShareInv
<1>1. ASSUME NEW s \in Targets, NEW to \in Audience, share(s, to)
      PROVE  ShareInv'
    <2> DEFINE after == {r \in shares : r.session # s \/ r.to # to}
                        \cup {[session |-> s, to |-> to, age |-> "seen"]}
    <2>1. /\ marks' = (IF to \in Friends THEN [marks EXCEPT ![to] = 0] ELSE marks)
          /\ cut' = (IF to \in Friends THEN [cut EXCEPT ![to] = 0] ELSE cut)
          /\ UNCHANGED <<edge, edges, attested>> /\ putState(after, {})
        BY <1>1 DEF share
    <2>2. shares' = after
        BY <2>1 DEF putState
    <2>3. ASSUME NEW p \in Pairs, isSharedTo(shares, marks, edge, p[1], p[2])
          PROVE  isSharedTo(shares', marks', edge', p[1], p[2])
        <3>1. p[1] \in Targets /\ p[2] \in Friends
            BY DEF Pairs
        <3>2. edge'[p[2]] # 0 /\ marks'[p[2]] # edge'[p[2]]
            BY <1>0, <2>1, <2>3, <3>1 DEF isSharedTo, ShareTypes
        <3>3. PICK r \in shares : r.session = p[1] /\ r.to \in {p[2], "everyone"}
            BY <2>3 DEF isSharedTo
        <3>4. CASE r.session = s /\ r.to = to
            <4>1. [session |-> s, to |-> to, age |-> "seen"] \in shares'
                BY <2>2
            <4> QED
                BY <3>2, <3>3, <3>4, <4>1 DEF isSharedTo
        <3>5. CASE ~ (r.session = s /\ r.to = to)
            <4>1. r \in shares'
                BY <2>2, <3>5
            <4> QED
                BY <3>2, <3>3, <4>1 DEF isSharedTo
        <3> QED
            BY <3>4, <3>5
    <2>4. RowsOfThisEra' /\ era' \in [Pairs -> Nat]
        BY <1>0, <2>1, <2>3, RowsRetired
    <2>5. marks' \in [Friends -> Nat] /\ cut' \in [Friends -> Nat]
        BY <1>0, <2>1 DEF ShareTypes
    <2>6. EdgesMinted' /\ CutIsMarked'
        <3> SUFFICES ASSUME NEW f \in Friends
                     PROVE  /\ edges[f] >= 1 /\ edge[f] \in {0, edges[f]}
                            /\ marks'[f] <= edges[f] /\ cut'[f] <= edges[f]
                            /\ edge[f] # 0 /\ cut'[f] = edge[f] => marks'[f] = edge[f]
            BY <2>1 DEF EdgesMinted, CutIsMarked
        <3>1. \/ marks'[f] = marks[f] /\ cut'[f] = cut[f]
              \/ marks'[f] = 0 /\ cut'[f] = 0
            <4>0. \/ to \in Friends /\ marks' = [marks EXCEPT ![to] = 0] /\ cut' = [cut EXCEPT ![to] = 0]
                  \/ marks' = marks /\ cut' = cut
                BY <2>1, Zenon
            <4>1. marks \in [Friends -> Nat] /\ cut \in [Friends -> Nat]
                BY <1>0 DEF ShareTypes
            <4> HIDE DEF after
            <4>2. CASE to = f
                BY <4>0, <4>1, <4>2
            <4>3. CASE to # f
                BY <4>0, <4>1, <4>3
            <4> QED
                BY <4>2, <4>3
        <3> QED
            BY <1>0, <3>1 DEF ShareTypes, EdgesMinted, CutIsMarked
    <2> QED
        BY <1>0, <2>1, <2>4, <2>5, <2>6 DEF ShareInv, ShareTypes
<1>2. ASSUME NEW after, NEW pairs, UNCHANGED <<marks, cut, edge, edges, attested>>,
             putState(after, Revoked(after, pairs)),
             \A p \in Pairs : /\ isSharedTo(shares, marks, edge, p[1], p[2])
                              /\ ~ isSharedTo(after, marks, edge, p[1], p[2])
                              => p \in pairs
      PROVE  ShareInv'
    <2>1. shares' = after
        BY <1>2 DEF putState
    <2>2. RowsOfThisEra' /\ era' \in [Pairs -> Nat]
        BY <1>0, <1>2, <2>1, RowsRetired DEF Revoked
    <2> QED
        BY <1>0, <1>2, <2>2 DEF ShareInv, ShareTypes, EdgesMinted, CutIsMarked
<1>3. ASSUME NEW s \in Targets, NEW to \in Audience, unshare(s, to)
      PROVE  ShareInv'
    <2> DEFINE after == {r \in shares : r.session # s \/ r.to # to}
               friends == IF to \in Friends THEN {to} ELSE Friends
    <2>1. UNCHANGED <<marks, cut, edge, edges, attested>> /\ putState(after, Revoked(after, {s} \X friends))
        BY <1>3 DEF unshare
    <2>2. ASSUME NEW p \in Pairs, isSharedTo(shares, marks, edge, p[1], p[2]),
                 ~ isSharedTo(after, marks, edge, p[1], p[2])
          PROVE  p \in {s} \X friends
        <3>1. p = <<p[1], p[2]>> /\ p[1] \in Targets /\ p[2] \in Friends
            BY DEF Pairs
        <3>2. PICK r \in shares : r.session = p[1] /\ r.to \in {p[2], "everyone"}
            BY <2>2 DEF isSharedTo
        <3>3. edge[p[2]] # 0 /\ marks[p[2]] # edge[p[2]]
            BY <2>2 DEF isSharedTo
        <3>4. r.session = s /\ r.to = to
            BY <2>2, <3>2, <3>3 DEF isSharedTo
        <3>5. p[1] = s /\ p[2] \in friends
            BY <3>1, <3>2, <3>4, FriendsAssumption
        <3> QED
            BY <3>1, <3>5
    <2> QED
        BY <1>2, <2>1, <2>2
<1>4. CASE ShareSweep
    <2> DEFINE after == {r \in shares : r.age = "seen" \/ r.session \in attested}
    <2>1. UNCHANGED <<marks, cut, edge, edges, attested>> /\ putState(after, Revoked(after, Pairs))
        BY <1>4 DEF ShareSweep
    <2> QED
        BY <1>2, <2>1
<1>5. ASSUME NEW f \in Friends, unlink(f)
      PROVE  ShareInv'
    <2> DEFINE after == {r \in shares : r.to # f}
               bumped == {p \in Pairs : p[2] = f /\ isSharedTo(shares, marks, edge, p[1], f)}
    <2>1. /\ edge' = edge \/ edge' = [edge EXCEPT ![f] = 0]
          /\ edge'[f] # 0 => edge[f] \in UnlinkCut \cup {0}
          /\ marks' = (IF edge[f] # 0 /\ marks[f] = 0 THEN [marks EXCEPT ![f] = edge[f]] ELSE marks)
          /\ cut' = [cut EXCEPT ![f] = edge[f]]
          /\ UNCHANGED <<edges, attested>>
          /\ putState(after, bumped)
        BY <1>5 DEF unlink
    <2>2. shares' = after
        BY <2>1 DEF putState
    <2>3. ASSUME NEW p \in Pairs, isSharedTo(shares, marks, edge, p[1], p[2]),
                 ~ isSharedTo(shares', marks', edge', p[1], p[2])
          PROVE  p \in bumped
        <3>1. p[1] \in Targets /\ p[2] \in Friends
            BY DEF Pairs
        <3>2. CASE p[2] = f
            BY <2>3, <3>2
        <3>3. CASE p[2] # f
            <4>1. edge'[p[2]] = edge[p[2]] /\ marks'[p[2]] = marks[p[2]]
                BY <1>0, <2>1, <3>1, <3>3 DEF ShareTypes
            <4>2. PICK r \in shares : r.session = p[1] /\ r.to \in {p[2], "everyone"}
                BY <2>3 DEF isSharedTo
            <4>3. r.to # f
                BY <3>3, <4>2, FriendsAssumption
            <4>4. r \in shares'
                BY <2>2, <4>3
            <4> QED
                BY <2>3, <4>1, <4>2, <4>4 DEF isSharedTo
        <3> QED
            BY <3>2, <3>3
    <2>4. RowsOfThisEra' /\ era' \in [Pairs -> Nat]
        BY <1>0, <2>1, <2>3, RowsRetired
    <2>5. marks' \in [Friends -> Nat] /\ cut' \in [Friends -> Nat] /\ edge' \in [Friends -> Nat]
        BY <1>0, <2>1 DEF ShareTypes
    <2>6. EdgesMinted' /\ CutIsMarked'
        <3> SUFFICES ASSUME NEW g \in Friends
                     PROVE  /\ edges[g] >= 1 /\ edge'[g] \in {0, edges[g]}
                            /\ marks'[g] <= edges[g] /\ cut'[g] <= edges[g]
                            /\ edge'[g] # 0 /\ cut'[g] = edge'[g] => marks'[g] = edge'[g]
            BY <2>1 DEF EdgesMinted, CutIsMarked
        <3>1. CASE g # f
            <4>1. edge'[g] = edge[g] /\ marks'[g] = marks[g] /\ cut'[g] = cut[g]
                BY <1>0, <2>1, <3>1 DEF ShareTypes
            <4> QED
                BY <1>0, <4>1 DEF EdgesMinted, CutIsMarked
        <3>2. CASE g = f
            <4>1. /\ edges[f] \in Nat /\ edge[f] \in Nat /\ marks[f] \in Nat
                  /\ edges[f] >= 1 /\ edge[f] \in {0, edges[f]} /\ marks[f] <= edges[f]
                BY <1>0 DEF ShareTypes, EdgesMinted
            <4>2. /\ edge'[f] \in {0, edge[f]} /\ cut'[f] = edge[f]
                  /\ marks'[f] = IF edge[f] # 0 /\ marks[f] = 0 THEN edge[f] ELSE marks[f]
                BY <1>0, <2>1 DEF ShareTypes
            <4>3. edge'[f] # 0 => edge[f] = 1
                BY <2>1, <4>2 DEF FirstCutOnly
            <4> QED
                BY <3>2, <4>1, <4>2, <4>3
        <3> QED
            BY <3>1, <3>2
    <2> QED
        BY <1>0, <2>1, <2>4, <2>5, <2>6 DEF ShareInv, ShareTypes
<1>6. ASSUME NEW f \in Friends, LinkFriend(f) \/ RevokeEdge(f)
      PROVE  ShareInv'
    <2>1. /\ UNCHANGED <<marks, peerRows, era, cut>>
          /\ \/ edge' = [edge EXCEPT ![f] = edges[f] + 1] /\ edges' = [edges EXCEPT ![f] = edges[f] + 1]
             \/ edge' = [edge EXCEPT ![f] = 0] /\ edges' = edges
        BY <1>6 DEF LinkFriend, RevokeEdge
    <2>2. /\ edge' \in [Friends -> Nat] /\ edges' \in [Friends -> Nat]
        BY <1>0, <2>1 DEF ShareTypes
    <2>3. EdgesMinted' /\ CutIsMarked'
        <3> SUFFICES ASSUME NEW g \in Friends
                     PROVE  /\ edges'[g] >= 1 /\ edge'[g] \in {0, edges'[g]}
                            /\ marks[g] <= edges'[g] /\ cut[g] <= edges'[g]
                            /\ edge'[g] # 0 /\ cut[g] = edge'[g] => marks[g] = edge'[g]
            BY <2>1 DEF EdgesMinted, CutIsMarked
        <3>1. /\ edges[g] \in Nat /\ edge[g] \in Nat /\ marks[g] \in Nat /\ cut[g] \in Nat
              /\ edges[g] >= 1 /\ edge[g] \in {0, edges[g]} /\ marks[g] <= edges[g] /\ cut[g] <= edges[g]
              /\ edge[g] # 0 /\ cut[g] = edge[g] => marks[g] = edge[g]
            BY <1>0 DEF ShareTypes, EdgesMinted, CutIsMarked
        <3>2. \/ edge'[g] = edges[g] + 1 /\ edges'[g] = edges[g] + 1
              \/ edge'[g] = 0 /\ edges'[g] = edges[g]
              \/ edge'[g] = edge[g] /\ edges'[g] = edges[g]
            BY <1>0, <2>1 DEF ShareTypes
        <3> QED
            BY <3>1, <3>2
    <2> QED
        BY <1>0, <2>1, <2>2, <2>3 DEF ShareInv, ShareTypes, RowsOfThisEra
<1>7. ASSUME NEW s \in Targets, NEW f \in Friends, admitPeerRow(s, f)
      PROVE  ShareInv'
    <2> DEFINE row == [pair |-> <<s, f>>, gen |-> generation[<<s, f>>], era |-> era[<<s, f>>]]
    <2>1. peerRows' = peerRows \cup {row} /\ UNCHANGED <<marks, edge, edges, era, cut>>
        BY <1>7 DEF admitPeerRow
    <2>2. row.pair \in Pairs /\ row.era = era[row.pair]
        BY DEF Pairs
    <2> HIDE DEF row
    <2> QED
        BY <1>0, <2>1, <2>2 DEF ShareInv, ShareTypes, RowsOfThisEra, EdgesMinted, CutIsMarked
<1>8. ASSUME peerRows' \subseteq peerRows, UNCHANGED <<marks, edge, edges, era, cut>>
      PROVE  ShareInv'
    BY <1>0, <1>8 DEF ShareInv, ShareTypes, RowsOfThisEra, EdgesMinted, CutIsMarked
<1>9. CASE \E s \in Targets : attest(s)
    BY <1>8, <1>9 DEF attest
<1>10. CASE \E r \in peerRows : PullRow(r)
    BY <1>8, <1>10 DEF PullRow
<1>11. CASE SharesAge
    BY <1>8, <1>11 DEF SharesAge
<1>12. CASE UNCHANGED shareVars
    BY <1>8, <1>12 DEF shareVars
<1> QED
    BY <1>1, <1>3, <1>4, <1>5, <1>6, <1>7, <1>9, <1>10, <1>11, <1>12 DEF ShareNext

(* Where only a friend's first unlink may stop half way, what a revocation   *)
(* ended stays ended: no row sent before it is delivered once the pair is    *)
(* shared again, and nothing is shared over an edge the owner cut. A later   *)
(* unlink that stops half way keeps the mark of an older edge (:140), and    *)
(* does break the second part.                                               *)
THEOREM RevokedStays ==
    ASSUME FirstCutOnly
    PROVE  ShareSpec => []RevocationHolds
<1>1. ShareInv => RevocationHolds
    <2> SUFFICES ASSUME ShareInv
                 PROVE  RevocationHolds
        OBVIOUS
    <2>1. RevokedRowsGone
        BY DEF ShareInv, RowsOfThisEra, RevokedRowsGone
    <2>2. UnlinkHolds
        BY DEF ShareInv, CutIsMarked, UnlinkHolds, isSharedTo
    <2> QED
        BY <2>1, <2>2 DEF RevocationHolds
<1>2. ShareInv /\ [ShareNext]_shareVars => ShareInv'
    BY ShareStep
<1> QED
    BY <1>1, <1>2, ShareInitInv, PTL DEF ShareSpec

----------------------------------------------------------------------------
(* OwnerOpIntake: an answer that was given, is cached or is about to be     *)
(* given is the outcome of its write, which the record keeps until no post  *)
(* of the write can come any more.                                          *)

Answers == {"applied", "refused", "conflict"}

IntakeTypes ==
    /\ queue \in [QueuedWrites -> {"queued", "applied", "refused", "empty"}]
    /\ posted \in Seq(QueuedWrites) /\ Len(posted) <= MaxNonces
    /\ fresh \subseteq Nonces /\ waiting \in 0 .. Len(posted)
    /\ nonces \subseteq fresh
    /\ running \subseteq [nonce : fresh, res : Answers, turn : {1, 2}]
    /\ settled \in [1 .. MaxNonces -> Answers \cup {"none"}]
    /\ record \in [QueuedWrites -> {"none", "applied", "refused"}]
    /\ runs \in [QueuedWrites -> Nat]

CacheTypes == cache \in Seq(Nat) /\ Len(cache) <= MaxCached /\ \A i \in 1 .. Len(cache) : cache[i] \in Nonces

(* No post of the write comes any more. *)
Over(w) == record[w] = "none" /\ queue[w] # "queued" /\ \A n \in fresh : posted[n] # w

AppliedWrites == {w \in QueuedWrites : runs[w] = 1 /\ (record[w] = "applied" \/ Over(w))}
RefusedWrites == {w \in QueuedWrites : runs[w] = 0 /\ (record[w] = "refused" \/ Over(w))}
Undecided == {w \in QueuedWrites : runs[w] = 0 /\ record[w] = "none"}

TrueOf(w, answer) ==
    /\ answer = "applied" => w \in AppliedWrites
    /\ answer = "refused" => w \in RefusedWrites

AnswersTrue ==
    /\ QueuedWrites = AppliedWrites \cup RefusedWrites \cup Undecided
    /\ \A w \in QueuedWrites : TrueOf(w, queue[w])
    /\ \A r \in running : TrueOf(posted[r.nonce], r.res)
    /\ \A n \in 1 .. MaxNonces : settled[n] # "none" => n <= Len(posted) /\ TrueOf(posted[n], settled[n])

IntakeInv == IntakeTypes /\ CacheTypes /\ AnswersTrue

(* The invariant holds at the start. *)
LEMMA IntakeInitInv == IntakeInit => IntakeInv
<1> SUFFICES ASSUME IntakeInit
             PROVE  IntakeInv
    OBVIOUS
<1>1. posted = << >> /\ cache = << >> /\ Len(posted) = 0 /\ Len(cache) = 0
    BY DEF IntakeInit
<1>2. posted \in Seq(QueuedWrites) /\ cache \in Seq(Nat)
    BY <1>1
<1>3. IntakeTypes
    BY <1>1, <1>2, IntakeAssumption DEF IntakeInit, IntakeTypes, Nonces
<1>4. CacheTypes
    BY <1>1, <1>2, IntakeAssumption DEF CacheTypes
<1>5. AnswersTrue
    <2>1. Undecided = QueuedWrites /\ AppliedWrites \subseteq QueuedWrites /\ RefusedWrites \subseteq QueuedWrites
        BY DEF IntakeInit, Undecided, AppliedWrites, RefusedWrites
    <2>2. /\ \A w \in QueuedWrites : queue[w] = "queued"
          /\ running = {} /\ \A n \in 1 .. MaxNonces : settled[n] = "none"
        BY DEF IntakeInit
    <2> QED
        BY <2>1, <2>2 DEF AnswersTrue, TrueOf
<1> QED
    BY <1>3, <1>4, <1>5 DEF IntakeInv

(* The cache keeps nonces of posts, no more than it may. *)
LEMMA DroppedKeeps ==
    ASSUME CacheTypes, NEW n, cache' = Dropped(n), Len(posted) \in Nat, UNCHANGED posted
    PROVE  CacheTypes'
<1>1. CASE ~ Cached(n)
    BY <1>1 DEF Dropped, CacheTypes, Nonces
<1>2. CASE Cached(n)
    <2> DEFINE i == CHOOSE j \in 1 .. Len(cache) : cache[j] = n
    <2>1. i \in 1 .. Len(cache)
        BY <1>2, Zenon DEF Cached, Contains
    <2>2. cache' = SubSeq(cache, 1, i - 1) \o SubSeq(cache, i + 1, Len(cache))
        BY <1>2 DEF Dropped, RemoveAt
    <2>3. cache \in Seq(Nat) /\ Len(cache) \in Nat
        BY DEF CacheTypes
    <2> HIDE DEF i
    <2>4. /\ SubSeq(cache, 1, i - 1) \in Seq(Nat) /\ Len(SubSeq(cache, 1, i - 1)) = i - 1
          /\ \A j \in 1 .. i - 1 : SubSeq(cache, 1, i - 1)[j] = cache[j]
        BY <2>1, <2>3
    <2>5. /\ SubSeq(cache, i + 1, Len(cache)) \in Seq(Nat)
          /\ Len(SubSeq(cache, i + 1, Len(cache))) = Len(cache) - i
          /\ \A j \in 1 .. Len(cache) - i : SubSeq(cache, i + 1, Len(cache))[j] = cache[i + j]
        BY <2>1, <2>3
    <2> DEFINE a == SubSeq(cache, 1, i - 1)
               b == SubSeq(cache, i + 1, Len(cache))
    <2> HIDE DEF a, b
    <2>8. /\ a \in Seq(Nat) /\ b \in Seq(Nat) /\ Len(a) = i - 1 /\ Len(b) = Len(cache) - i
          /\ cache' = a \o b
        BY <2>2, <2>4, <2>5 DEF a, b
    <2>10. /\ a \o b \in Seq(Nat) /\ Len(a \o b) = Len(a) + Len(b)
           /\ \A j \in 1 .. Len(a) + Len(b) : (a \o b)[j] = IF j <= Len(a) THEN a[j] ELSE b[j - Len(a)]
        BY <2>8, ConcatProperties
    <2>9. /\ cache' \in Seq(Nat) /\ Len(cache') = Len(a) + Len(b)
          /\ \A j \in 1 .. Len(a) + Len(b) : cache'[j] = IF j <= Len(a) THEN a[j] ELSE b[j - Len(a)]
        BY <2>8, <2>10
    <2>6. cache' \in Seq(Nat) /\ Len(cache') = Len(cache) - 1
        BY <2>1, <2>3, <2>8, <2>9
    <2>7a. /\ i \in Nat /\ i >= 1 /\ i <= Len(cache) /\ Len(cache) \in Nat
           /\ Len(a) = i - 1 /\ Len(b) = Len(cache) - i /\ Len(cache') = Len(cache) - 1
        BY <2>1, <2>3, <2>6, <2>8
    <2>7. ASSUME NEW j \in 1 .. Len(cache')
          PROVE  cache'[j] \in Nonces
        <3>1. CASE j <= i - 1
            <4>0. j \in 1 .. Len(a) + Len(b) /\ j <= Len(a) /\ j \in 1 .. i - 1 /\ j \in 1 .. Len(cache)
                BY <2>7a, <3>1
            <4>1. cache'[j] = a[j]
                BY <2>9, <4>0
            <4>2. a[j] = cache[j]
                BY <2>4, <4>0 DEF a
            <4> QED
                BY <4>0, <4>1, <4>2 DEF CacheTypes
        <3>2. CASE j > i - 1
            <4>0. j \in 1 .. Len(a) + Len(b) /\ ~ (j <= Len(a)) /\ Len(a) = i - 1
                BY <2>7a, <3>2
            <4>1. cache'[j] = b[j - (i - 1)]
                BY <2>9, <4>0
            <4>2. j - (i - 1) \in 1 .. Len(cache) - i /\ i + (j - (i - 1)) \in 1 .. Len(cache)
                BY <2>1, <2>3, <2>6, <3>2
            <4>3. cache'[j] = cache[i + (j - (i - 1))]
                BY <2>5, <4>1, <4>2 DEF b
            <4> QED
                BY <4>2, <4>3 DEF CacheTypes
        <3> QED
            BY <2>1, <2>3, <2>6, <3>1, <3>2
    <2> QED
        BY <2>3, <2>6, <2>7, IntakeAssumption DEF CacheTypes, Nonces
<1> QED
    BY <1>1, <1>2

(* One more, and the oldest goes when there are too many. *)
LEMMA EvictedKeeps ==
    ASSUME CacheTypes, NEW n \in Nonces, cache' = Evicted(Append(cache, n)), Len(posted) \in Nat, UNCHANGED posted
    PROVE  CacheTypes'
<1> DEFINE c == Append(cache, n)
<1>1. n \in Nat /\ cache \in Seq(Nat) /\ Len(cache) \in Nat
    BY DEF CacheTypes, Nonces
<1>2. c \in Seq(Nat) /\ Len(c) = Len(cache) + 1 /\ \A i \in 1 .. Len(c) : c[i] \in Nonces
    BY <1>1 DEF CacheTypes
<1>3. cache' = (IF Len(c) > MaxCached THEN Tail(c) ELSE c) /\ Nonces' = Nonces
    BY DEF Evicted, Nonces
<1> HIDE DEF c
<1>4. CASE Len(c) > MaxCached
    <2>1. cache' \in Seq(Nat) /\ Len(cache') = Len(cache) /\ \A i \in 1 .. Len(cache') : cache'[i] = c[i + 1]
        BY <1>1, <1>2, <1>3, <1>4
    <2> QED
        BY <1>1, <1>2, <1>3, <2>1 DEF CacheTypes
<1>5. CASE ~ (Len(c) > MaxCached)
    BY <1>1, <1>2, <1>3, <1>5, IntakeAssumption DEF CacheTypes
<1> QED
    BY <1>4, <1>5

(* What decided a write still does, and every write has an outcome or none. *)
OutcomesKept ==
    /\ AppliedWrites \subseteq AppliedWrites' /\ RefusedWrites \subseteq RefusedWrites'
    /\ QueuedWrites = (AppliedWrites \cup RefusedWrites \cup Undecided)'

(* Steps that run no handler and post no settled write keep the outcomes.   *)
LEMMA OutcomesStay ==
    ASSUME IntakeInv, UNCHANGED <<record, runs>>, \A w \in QueuedWrites : Over(w) => Over(w)'
    PROVE  OutcomesKept
<1>1. AppliedWrites \subseteq AppliedWrites'
    BY DEF AppliedWrites
<1>2. RefusedWrites \subseteq RefusedWrites'
    BY DEF RefusedWrites
<1>3. Undecided = Undecided'
    BY DEF Undecided
<1>4. AppliedWrites' \subseteq QueuedWrites /\ RefusedWrites' \subseteq QueuedWrites /\ Undecided' \subseteq QueuedWrites
    BY DEF AppliedWrites, RefusedWrites, Undecided
<1> QED
    BY <1>1, <1>2, <1>3, <1>4 DEF OutcomesKept, IntakeInv, AnswersTrue

(* With the outcomes kept, what was true of the answers stays true.          *)
LEMMA AnswersStay ==
    ASSUME IntakeInv, OutcomesKept, IntakeTypes',
           \A w \in QueuedWrites : queue'[w] = queue[w] \/ TrueOf(w, queue[w])',
           \A r \in running' : r \in running \/ TrueOf(posted[r.nonce], r.res)',
           \A n \in 1 .. MaxNonces :
               settled'[n] \in {settled[n], "none"} \/ (n <= Len(posted') /\ TrueOf(posted[n], settled[n])'),
           Len(posted') >= Len(posted), \A n \in Nonces : posted'[n] = posted[n]
    PROVE  AnswersTrue'
<1>0. /\ AppliedWrites \subseteq AppliedWrites' /\ RefusedWrites \subseteq RefusedWrites'
      /\ AnswersTrue /\ IntakeTypes /\ Len(posted) \in Nat /\ Len(posted') \in Nat
    BY DEF IntakeInv, OutcomesKept, IntakeTypes
<1>1. ASSUME NEW w \in QueuedWrites
      PROVE  TrueOf(w, queue[w])'
    <2>1. TrueOf(w, queue[w])
        BY <1>0 DEF AnswersTrue
    <2> QED
        BY <1>0, <2>1 DEF TrueOf
<1>2. ASSUME NEW r \in running'
      PROVE  TrueOf(posted[r.nonce], r.res)'
    <2>1. CASE r \in running
        <3>1. TrueOf(posted[r.nonce], r.res) /\ r.nonce \in Nonces
            BY <1>0, <2>1 DEF AnswersTrue, IntakeTypes
        <3> QED
            BY <1>0, <3>1 DEF TrueOf
    <2> QED
        BY <1>2, <2>1
<1>3. ASSUME NEW n \in 1 .. MaxNonces, settled'[n] # "none"
      PROVE  n <= Len(posted') /\ TrueOf(posted[n], settled[n])'
    <2>1. CASE settled'[n] = settled[n]
        <3>1. n <= Len(posted) /\ TrueOf(posted[n], settled[n])
            BY <1>0, <1>3, <2>1 DEF AnswersTrue
        <3>2. n \in Nonces /\ n <= Len(posted')
            BY <1>0, <3>1, IntakeAssumption DEF Nonces
        <3> QED
            BY <1>0, <2>1, <3>1, <3>2 DEF TrueOf
    <2> QED
        BY <1>3, <2>1
<1> QED
    BY <1>1, <1>2, <1>3 DEF AnswersTrue, OutcomesKept

(* What the phone learns of the post it waits for. *)
LEMMA Learned ==
    ASSUME IntakeInv, NEW n \in Nonces, NEW answer, TrueOf(posted[n], answer), Learn(n, answer),
           UNCHANGED <<posted, record, runs, fresh>>
    PROVE  /\ queue' \in [QueuedWrites -> {"queued", "applied", "refused", "empty"}]
           /\ waiting' \in 0 .. Len(posted)
           /\ \A w \in QueuedWrites : queue[w] # "queued" => queue'[w] # "queued"
           /\ \A w \in QueuedWrites : queue'[w] = queue[w] \/ TrueOf(w, queue'[w])
<1>1. /\ queue \in [QueuedWrites -> {"queued", "applied", "refused", "empty"}]
      /\ posted[n] \in QueuedWrites /\ waiting \in 0 .. Len(posted) /\ Len(posted) \in Nat
      /\ \A w \in QueuedWrites : TrueOf(w, queue[w])
    BY DEF IntakeInv, IntakeTypes, AnswersTrue, Nonces
<1>2. /\ waiting' \in {0, waiting}
      /\ queue' = queue \/ (answer \in {"applied", "refused"} /\ queue' = [queue EXCEPT ![posted[n]] = answer])
    BY DEF Learn
<1>3. waiting' \in 0 .. Len(posted)
    BY <1>1, <1>2
<1>4. CASE queue' = queue
    BY <1>1, <1>3, <1>4
<1>5. CASE answer \in {"applied", "refused"} /\ queue' = [queue EXCEPT ![posted[n]] = answer]
    BY <1>1, <1>3, <1>5
<1> QED
    BY <1>2, <1>4, <1>5

(* Every step of the phone, the network and the Router keeps the invariant. *)
LEMMA IntakeStep ==
    ASSUME ~ RefusalsLost, IntakeInv, [IntakeNext]_intakeVars
    PROVE  IntakeInv'
<1>0. /\ IntakeTypes /\ CacheTypes /\ AnswersTrue
      /\ posted \in Seq(QueuedWrites) /\ Len(posted) \in Nat
      /\ \A n \in Nonces : posted[n] \in QueuedWrites
    BY DEF IntakeInv, IntakeTypes, Nonces
<1>1. ASSUME NEW w \in QueuedWrites, Post(w)
      PROVE  IntakeInv'
    <2> DEFINE k == Len(posted) + 1
    <2>1. /\ queue[w] = "queued" /\ Len(posted) < MaxNonces
          /\ posted' = Append(posted, w) /\ fresh' = fresh \cup {k} /\ waiting' = k
          /\ UNCHANGED <<queue, cache, running, settled, nonces, record, runs>>
        BY <1>1 DEF Post
    <2>2. /\ posted' \in Seq(QueuedWrites) /\ Len(posted') = k /\ k \in Nat /\ k <= MaxNonces
          /\ posted'[k] = w /\ \A n \in Nonces : posted'[n] = posted[n] /\ n \in Nonces'
        BY <1>0, <2>1, IntakeAssumption DEF Nonces
    <2>3. k \in Nonces' /\ fresh \subseteq Nonces
        BY <1>0, <2>2 DEF Nonces, IntakeTypes
    <2> HIDE DEF k
    <2>4. IntakeTypes'
        <3>1. fresh' \subseteq Nonces' /\ nonces' \subseteq fresh'
            BY <1>0, <2>1, <2>2, <2>3 DEF IntakeTypes
        <3>2. waiting' \in 0 .. Len(posted')
            BY <2>1, <2>2
        <3>3. running' \subseteq [nonce : fresh', res : Answers, turn : {1, 2}]
            BY <1>0, <2>1 DEF IntakeTypes
        <3> QED
            BY <1>0, <2>1, <2>2, <3>1, <3>2, <3>3 DEF IntakeTypes
    <2>5. CacheTypes'
        BY <1>0, <2>1, <2>2 DEF CacheTypes
    <2>6. OutcomesKept
        <3>1. \A v \in QueuedWrites : Over(v) => Over(v)'
            BY <2>1, <2>2, <2>3 DEF Over
        <3> QED
            BY <2>1, <3>1, OutcomesStay
    <2>10. AnswersTrue'
        <3>1. /\ \A v \in QueuedWrites : queue'[v] = queue[v]
              /\ \A r \in running' : r \in running
              /\ \A n \in 1 .. MaxNonces : settled'[n] \in {settled[n], "none"}
              /\ Len(posted') >= Len(posted)
            BY <1>0, <2>1, <2>2
        <3> QED
            BY <2>2, <2>4, <2>6, <3>1, AnswersStay
    <2> QED
        BY <2>4, <2>5, <2>10 DEF IntakeInv
<1>2. ASSUME NEW n \in Nonces, NEW answer, TrueOf(posted[n], answer), answer \in Answers \cup {"none", "replay", "migrating", "uncertain"},
             Learn(n, answer),
             UNCHANGED <<posted, fresh, record, runs>>,
             nonces' \subseteq fresh,
             running' \subseteq running,
             settled' \in [1 .. MaxNonces -> Answers \cup {"none"}],
             \A k \in 1 .. MaxNonces : settled'[k] \in {settled[k], "none"} \/ (k = n /\ settled'[k] = answer),
             CacheTypes'
      PROVE  IntakeInv'
    <2>1. /\ queue' \in [QueuedWrites -> {"queued", "applied", "refused", "empty"}]
          /\ waiting' \in 0 .. Len(posted)
          /\ \A w \in QueuedWrites : queue[w] # "queued" => queue'[w] # "queued"
          /\ \A w \in QueuedWrites : queue'[w] = queue[w] \/ TrueOf(w, queue'[w])
        BY <1>2, Learned
    <2>2. OutcomesKept
        <3>1. \A w \in QueuedWrites : Over(w) => Over(w)'
            BY <1>2, <2>1 DEF Over
        <3> QED
            BY <1>2, <3>1, OutcomesStay
    <2>3. IntakeTypes'
        BY <1>0, <1>2, <2>1 DEF IntakeTypes, Nonces
    <2>4. \A w \in QueuedWrites : queue'[w] = queue[w] \/ TrueOf(w, queue[w])'
        BY <2>1, <2>2 DEF OutcomesKept, TrueOf
    <2>5. TrueOf(posted[n], answer)'
        BY <1>2, <2>2 DEF OutcomesKept, TrueOf
    <2>6. \A k \in 1 .. MaxNonces :
            settled'[k] \in {settled[k], "none"} \/ (k <= Len(posted') /\ TrueOf(posted[k], settled[k])')
        <3> SUFFICES ASSUME NEW k \in 1 .. MaxNonces, k = n, settled'[k] = answer
                     PROVE  k <= Len(posted') /\ TrueOf(posted[k], settled[k])'
            BY <1>2
        <3>1. k <= Len(posted')
            BY <1>0, <1>2 DEF Nonces
        <3> QED
            BY <1>2, <2>2, <3>1 DEF OutcomesKept, TrueOf
    <2>7. /\ \A r \in running' : r \in running
          /\ Len(posted') >= Len(posted) /\ \A k \in Nonces : posted'[k] = posted[k]
        BY <1>0, <1>2
    <2>8. AnswersTrue'
        BY <2>2, <2>3, <2>4, <2>6, <2>7, AnswersStay
    <2> QED
        BY <1>2, <2>3, <2>8 DEF IntakeInv
<1>3. ASSUME UNCHANGED posted, OutcomesKept, IntakeTypes', CacheTypes',
             \A w \in QueuedWrites : queue'[w] \in {queue[w], "empty"},
             running' \subseteq running,
             \A n \in 1 .. MaxNonces : settled'[n] \in {settled[n], "none"}
      PROVE  IntakeInv'
    <2>1. \A w \in QueuedWrites : queue'[w] = queue[w] \/ TrueOf(w, queue[w])'
        BY <1>3 DEF TrueOf
    <2>2. /\ \A r \in running' : r \in running
          /\ Len(posted') >= Len(posted) /\ \A k \in Nonces : posted'[k] = posted[k]
        BY <1>0, <1>3
    <2>3. AnswersTrue'
        BY <1>3, <2>1, <2>2, AnswersStay
    <2> QED
        BY <1>3, <2>3 DEF IntakeInv
<1>4. ASSUME NEW w \in QueuedWrites, RetireEmpty(w)
      PROVE  IntakeInv'
    <2>1. /\ queue' = [queue EXCEPT ![w] = "empty"]
          /\ UNCHANGED <<posted, fresh, waiting, cache, running, settled, nonces, record, runs>>
        BY <1>4 DEF RetireEmpty
    <2>2. /\ queue' \in [QueuedWrites -> {"queued", "applied", "refused", "empty"}]
          /\ \A v \in QueuedWrites : queue'[v] \in {queue[v], "empty"}
        BY <1>0, <2>1 DEF IntakeTypes
    <2>3. OutcomesKept
        <3>1. \A v \in QueuedWrites : Over(v) => Over(v)'
            BY <2>1, <2>2 DEF Over
        <3> QED
            BY <2>1, <3>1, OutcomesStay
    <2>4. IntakeTypes' /\ CacheTypes'
        BY <1>0, <2>1, <2>2 DEF IntakeTypes, CacheTypes, Nonces
    <2> QED
        BY <1>3, <2>1, <2>2, <2>3, <2>4
<1>5. CASE GiveUp
    <2>1. waiting' = 0 /\ UNCHANGED <<queue, posted, fresh, cache, running, settled, nonces, record, runs>>
        BY <1>5 DEF GiveUp
    <2>2. OutcomesKept
        <3>1. \A v \in QueuedWrites : Over(v) => Over(v)'
            BY <2>1 DEF Over
        <3> QED
            BY <2>1, <3>1, OutcomesStay
    <2>3. IntakeTypes' /\ CacheTypes'
        BY <1>0, <2>1 DEF IntakeTypes, CacheTypes, Nonces
    <2> QED
        BY <1>3, <2>1, <2>2, <2>3
<1>6. ASSUME NEW n \in Nonces, Stale(n)
      PROVE  IntakeInv'
    <2>1. /\ Turns(n) = {} /\ fresh' = fresh \ {n} /\ nonces' = nonces \ {n} /\ cache' = Dropped(n)
          /\ UNCHANGED <<queue, posted, waiting, running, settled, record, runs>>
        BY <1>6 DEF Stale
    <2>2. \A r \in running : r.nonce # n
        BY <2>1 DEF Turns
    <2>3. OutcomesKept
        <3>1. \A v \in QueuedWrites : Over(v) => Over(v)'
            BY <2>1 DEF Over
        <3> QED
            BY <2>1, <3>1, OutcomesStay
    <2>4. running' \subseteq [nonce : fresh', res : Answers, turn : {1, 2}]
        <3> SUFFICES ASSUME NEW r \in running
                     PROVE  r \in [nonce : fresh', res : Answers, turn : {1, 2}]
            BY <2>1
        <3>1. r \in [nonce : fresh, res : Answers, turn : {1, 2}] /\ r.nonce # n
            BY <1>0, <2>2 DEF IntakeTypes
        <3> QED
            BY <2>1, <3>1
    <2>5. IntakeTypes'
        BY <1>0, <2>1, <2>4 DEF IntakeTypes, Nonces
    <2>6. CacheTypes'
        BY <1>0, <2>1, DroppedKeeps
    <2> QED
        BY <1>3, <2>1, <2>3, <2>5, <2>6
<1>7. CASE RouterRestarts
    <2>1. /\ cache' = << >> /\ running' = {} /\ settled' = [n \in 1 .. MaxNonces |-> "none"]
          /\ UNCHANGED <<queue, posted, fresh, waiting, nonces, record, runs>>
        BY <1>7 DEF RouterRestarts
    <2>2. OutcomesKept
        <3>1. \A v \in QueuedWrites : Over(v) => Over(v)'
            BY <2>1 DEF Over
        <3> QED
            BY <2>1, <3>1, OutcomesStay
    <2>3. IntakeTypes'
        BY <1>0, <2>1 DEF IntakeTypes, Nonces
    <2>4. CacheTypes'
        <3>1. cache' \in Seq(Nat) /\ Len(cache') = 0
            BY <2>1
        <3> QED
            BY <3>1, IntakeAssumption DEF CacheTypes
    <2> QED
        BY <1>3, <2>1, <2>2, <2>3, <2>4
<1>8. ASSUME NEW w \in QueuedWrites, PruneRecord(w)
      PROVE  IntakeInv'
    <2>1. /\ queue[w] # "queued" /\ record[w] # "none" /\ (\A n \in fresh : posted[n] # w)
          /\ record' = [record EXCEPT ![w] = "none"]
          /\ UNCHANGED <<queue, posted, fresh, waiting, cache, running, settled, nonces, runs>>
        BY <1>8 DEF PruneRecord
    <2>2. record' \in [QueuedWrites -> {"none", "applied", "refused"}]
          /\ record'[w] = "none" /\ \A v \in QueuedWrites : v # w => record'[v] = record[v]
        BY <1>0, <2>1 DEF IntakeTypes
    <2>3. OutcomesKept
        <3>1. Over(w)' /\ \A v \in QueuedWrites : Over(v) => Over(v)'
            BY <2>1, <2>2 DEF Over
        <3>2. AppliedWrites \subseteq AppliedWrites' /\ RefusedWrites \subseteq RefusedWrites'
            BY <2>1, <2>2, <3>1 DEF AppliedWrites, RefusedWrites
        <3>3. Undecided \subseteq Undecided' /\ Undecided' \subseteq QueuedWrites
            BY <2>1, <2>2 DEF Undecided
        <3>4. AppliedWrites' \subseteq QueuedWrites /\ RefusedWrites' \subseteq QueuedWrites
            BY DEF AppliedWrites, RefusedWrites
        <3> QED
            BY <1>0, <3>2, <3>3, <3>4 DEF OutcomesKept, AnswersTrue
    <2>4. IntakeTypes' /\ CacheTypes'
        BY <1>0, <2>1, <2>2 DEF IntakeTypes, CacheTypes, Nonces
    <2> QED
        BY <1>3, <2>1, <2>3, <2>4
<1>9. ASSUME NEW n \in Nonces, n \in fresh, NEW res \in Answers, NEW turn \in {1, 2},
             HandlerRuns(posted[n], res),
             running' = running \cup {[nonce |-> n, res |-> res, turn |-> turn]},
             cache' = Evicted(Append(cache, n)), settled' = [settled EXCEPT ![n] = "none"],
             UNCHANGED <<queue, posted, fresh, waiting, nonces>>
      PROVE  IntakeInv'
    <2> DEFINE w == posted[n]
    <2>1. w \in QueuedWrites /\ ~ Over(w) /\ record[w] \in {"none", "applied", "refused"}
        BY <1>0, <1>9 DEF Over, IntakeTypes
    <2>2. w \in AppliedWrites \cup RefusedWrites \cup Undecided
        BY <1>0, <2>1 DEF AnswersTrue
    <2>2a. w' = w
        BY <1>9
    <2> HIDE DEF w
    <2>3. /\ record' \in [QueuedWrites -> {"none", "applied", "refused"}] /\ runs' \in [QueuedWrites -> Nat]
          /\ OutcomesKept /\ TrueOf(w, res)'
        <3>1. CASE record[w] # "none"
            <4>1. res = record[w] /\ UNCHANGED <<record, runs>>
                BY <1>9, <3>1 DEF HandlerRuns, w
            <4>2. TrueOf(w, res)
                BY <2>1, <2>2, <3>1, <4>1 DEF TrueOf, AppliedWrites, RefusedWrites, Undecided
            <4>3. OutcomesKept
                <5>1. \A v \in QueuedWrites : Over(v) => Over(v)'
                    BY <1>9, <4>1 DEF Over
                <5> QED
                    BY <4>1, <5>1, OutcomesStay
            <4>4. TrueOf(w, res)'
                BY <2>2a, <4>2, <4>3 DEF OutcomesKept, TrueOf
            <4> QED
                BY <1>0, <4>1, <4>3, <4>4 DEF IntakeTypes
        <3>2. CASE record[w] = "none"
            <4>1. runs[w] = 0 /\ w \notin AppliedWrites /\ w \notin RefusedWrites
                BY <2>1, <2>2, <3>2 DEF AppliedWrites, RefusedWrites, Undecided
            <4>2. \/ res = "conflict" /\ UNCHANGED <<record, runs>>
                  \/ /\ res = "applied" /\ record' = [record EXCEPT ![w] = "applied"]
                     /\ runs' = [runs EXCEPT ![w] = runs[w] + 1]
                  \/ res = "refused" /\ record' = [record EXCEPT ![w] = "refused"] /\ UNCHANGED runs
                BY <1>9, <3>2 DEF HandlerRuns, w
            <4>3. CASE res = "conflict" /\ UNCHANGED <<record, runs>>
                <5>1. \A v \in QueuedWrites : Over(v) => Over(v)'
                    BY <1>9, <4>3 DEF Over
                <5> QED
                    BY <1>0, <4>3, <5>1, OutcomesStay DEF IntakeTypes, TrueOf
            <4>4. CASE res # "conflict"
                <5>1. /\ record' \in [QueuedWrites -> {"none", "applied", "refused"}] /\ runs' \in [QueuedWrites -> Nat]
                      /\ record'[w] = res /\ runs'[w] = (IF res = "applied" THEN 1 ELSE 0) /\ res \in {"applied", "refused"}
                      /\ \A v \in QueuedWrites : v # w => record'[v] = record[v] /\ runs'[v] = runs[v]
                    <6>1. record \in [QueuedWrites -> {"none", "applied", "refused"}] /\ runs \in [QueuedWrites -> Nat]
                        BY <1>0 DEF IntakeTypes
                    <6>2. CASE /\ res = "applied" /\ record' = [record EXCEPT ![w] = "applied"]
                               /\ runs' = [runs EXCEPT ![w] = runs[w] + 1]
                        BY <2>1, <4>1, <6>1, <6>2
                    <6>3. CASE res = "refused" /\ record' = [record EXCEPT ![w] = "refused"] /\ UNCHANGED runs
                        BY <2>1, <4>1, <6>1, <6>3
                    <6> QED
                        BY <4>2, <4>4, <6>2, <6>3
                <5>2. \A v \in QueuedWrites : v # w => (Over(v) <=> Over(v)')
                    BY <1>9, <5>1 DEF Over
                <5>3. AppliedWrites \subseteq AppliedWrites' /\ RefusedWrites \subseteq RefusedWrites'
                    BY <4>1, <5>1, <5>2 DEF AppliedWrites, RefusedWrites
                <5>4. w \in AppliedWrites' \cup RefusedWrites' /\ TrueOf(w, res)'
                    <6>1. res = "applied" => w \in AppliedWrites'
                        BY <2>1, <5>1 DEF AppliedWrites
                    <6>2. res = "refused" => w \in RefusedWrites'
                        BY <2>1, <5>1 DEF RefusedWrites
                    <6> QED
                        BY <2>2a, <5>1, <6>1, <6>2 DEF TrueOf
                <5>5. \A v \in Undecided : v # w => v \in Undecided'
                    BY <5>1 DEF Undecided
                <5>6. /\ AppliedWrites' \subseteq QueuedWrites /\ RefusedWrites' \subseteq QueuedWrites
                      /\ Undecided' \subseteq QueuedWrites
                    BY DEF AppliedWrites, RefusedWrites, Undecided
                <5>7. OutcomesKept
                    BY <1>0, <5>3, <5>4, <5>5, <5>6 DEF OutcomesKept, AnswersTrue
                <5> QED
                    BY <5>1, <5>4, <5>7
            <4> QED
                BY <4>2, <4>3, <4>4
        <3> QED
            BY <3>1, <3>2
    <2> DEFINE r == [nonce |-> n, res |-> res, turn |-> turn]
    <2>4. r \in [nonce : fresh, res : Answers, turn : {1, 2}] /\ r.nonce = n /\ r.res = res
        BY <1>9
    <2>5. running' = running \cup {r}
        BY <1>9
    <2> HIDE DEF r
    <2>6. /\ settled' \in [1 .. MaxNonces -> Answers \cup {"none"}]
          /\ \A k \in 1 .. MaxNonces : settled'[k] \in {settled[k], "none"}
        BY <1>0, <1>9 DEF IntakeTypes
    <2>7. IntakeTypes'
        BY <1>0, <1>9, <2>3, <2>4, <2>5, <2>6 DEF IntakeTypes, Nonces
    <2>8. CacheTypes'
        BY <1>0, <1>9, EvictedKeeps
    <2>9. \A x \in running' : x \in running \/ TrueOf(posted[x.nonce], x.res)'
        BY <1>9, <2>3, <2>4, <2>5 DEF w, TrueOf
    <2>10. /\ \A v \in QueuedWrites : queue'[v] = queue[v]
           /\ Len(posted') >= Len(posted) /\ \A k \in Nonces : posted'[k] = posted[k]
        BY <1>0, <1>9
    <2>11. AnswersTrue'
        BY <2>3, <2>6, <2>7, <2>9, <2>10, AnswersStay
    <2> QED
        BY <2>7, <2>8, <2>11 DEF IntakeInv
<1>10. ASSUME NEW n \in Nonces, Arrive(n)
       PROVE  IntakeInv'
    <2>1. n \in fresh /\ n \in 1 .. MaxNonces
        BY <1>0, <1>10, IntakeAssumption DEF Arrive, Nonces, IntakeTypes
    <2>2. ASSUME UNCHANGED <<posted, fresh, cache, running, settled, nonces, record, runs>>,
                 NEW answer \in Answers \cup {"none", "replay", "migrating", "uncertain"},
                 TrueOf(posted[n], answer), Learn(n, answer)
          PROVE  IntakeInv'
        <3>1. /\ nonces' \subseteq fresh /\ settled' \in [1 .. MaxNonces -> Answers \cup {"none"}]
              /\ running' \subseteq running
              /\ \A k \in 1 .. MaxNonces : settled'[k] \in {settled[k], "none"}
            BY <1>0, <2>2 DEF IntakeTypes
        <3>2. CacheTypes'
            BY <1>0, <2>2 DEF CacheTypes, Nonces
        <3> QED
            BY <1>2, <2>2, <3>1, <3>2
    <2>3. TrueOf(posted[n], "replay") /\ TrueOf(posted[n], "migrating")
        BY DEF TrueOf
    <2>4. settled[n] \in Answers \cup {"none"} /\ TrueOf(posted[n], settled[n])
        BY <1>0, <2>1 DEF IntakeTypes, AnswersTrue, TrueOf
    <2>5. CASE Learn(n, settled[n]) /\ UNCHANGED <<posted, fresh, cache, running, settled, nonces, record, runs>>
        BY <2>2, <2>4, <2>5
    <2>6. CASE Learn(n, "replay") /\ UNCHANGED <<posted, fresh, cache, running, settled, nonces, record, runs>>
        BY <2>2, <2>3, <2>6
    <2>7. CASE Learn(n, "migrating") /\ UNCHANGED <<posted, fresh, cache, running, settled, nonces, record, runs>>
        BY <2>2, <2>3, <2>7
    <2>8. CASE /\ \E res \in Answers, turn \in {1, 2} \ Turns(n) :
                     /\ HandlerRuns(posted[n], res)
                     /\ running' = running \cup {[nonce |-> n, res |-> res, turn |-> turn]}
               /\ cache' = Evicted(Append(cache, n)) /\ settled' = [settled EXCEPT ![n] = "none"]
               /\ UNCHANGED <<queue, posted, fresh, waiting, nonces>>
        <3>1. PICK res \in Answers, turn \in {1, 2} :
                     /\ HandlerRuns(posted[n], res)
                     /\ running' = running \cup {[nonce |-> n, res |-> res, turn |-> turn]}
            BY <2>8
        <3> QED
            BY <1>9, <2>1, <2>8, <3>1
    <2> QED
        BY <1>10, <2>5, <2>6, <2>7, <2>8 DEF Arrive, Answers
<1>11. ASSUME NEW r \in running, Settle(r)
       PROVE  IntakeInv'
    <2>1. /\ r.nonce \in fresh /\ r.nonce \in Nonces /\ r.nonce \in 1 .. MaxNonces /\ r.res \in Answers
          /\ TrueOf(posted[r.nonce], r.res)
        <3>1. r \in [nonce : fresh, res : Answers, turn : {1, 2}] /\ fresh \subseteq Nonces /\ Len(posted) <= MaxNonces
            BY <1>0 DEF IntakeTypes
        <3>3. r.nonce \in Nonces
            BY <3>1
        <3>4. Len(posted) \in Nat
            BY <1>0
        <3>2. r.nonce \in Nonces /\ r.nonce \in 1 .. MaxNonces
            BY <3>1, <3>3, <3>4, IntakeAssumption DEF Nonces
        <3> QED
            BY <1>0, <3>1, <3>2 DEF AnswersTrue
    <2> DEFINE n == r.nonce
    <2>2. running' \subseteq running /\ UNCHANGED <<posted, fresh, record, runs>>
        BY <1>11 DEF Settle
    <2>3. CASE SettleSpent(r)
        <3>1. /\ nonces' = nonces \cup {n} /\ settled' = [settled EXCEPT ![n] = r.res] /\ Learn(n, r.res)
              /\ cache' = cache
            BY <2>3 DEF SettleSpent
        <3> HIDE DEF n
        <3>2. /\ nonces' \subseteq fresh /\ settled' \in [1 .. MaxNonces -> Answers \cup {"none"}]
              /\ \A k \in 1 .. MaxNonces : settled'[k] \in {settled[k], "none"} \/ (k = n /\ settled'[k] = r.res)
            BY <1>0, <2>1, <3>1 DEF IntakeTypes, n
        <3>3. CacheTypes'
            BY <1>0, <2>2, <3>1 DEF CacheTypes, Nonces
        <3> QED
            BY <1>2, <2>1, <2>2, <3>1, <3>2, <3>3 DEF n
    <2>4. CASE SettleUncertain(r)
        <3>1. /\ nonces' = nonces /\ settled' = [settled EXCEPT ![n] = "none"] /\ Learn(n, "uncertain")
              /\ cache' = Dropped(n)
            BY <2>4 DEF SettleUncertain
        <3> HIDE DEF n
        <3>2. /\ nonces' \subseteq fresh /\ settled' \in [1 .. MaxNonces -> Answers \cup {"none"}]
              /\ \A k \in 1 .. MaxNonces : settled'[k] \in {settled[k], "none"}
            BY <1>0, <2>1, <3>1 DEF IntakeTypes, n
        <3>3. CacheTypes'
            BY <1>0, <2>2, <3>1, DroppedKeeps
        <3>4. TrueOf(posted[n], "uncertain")
            BY DEF TrueOf
        <3> QED
            BY <1>2, <2>1, <2>2, <3>1, <3>2, <3>3, <3>4 DEF n
    <2> QED
        BY <1>11, <2>3, <2>4 DEF Settle
<1>12. CASE UNCHANGED intakeVars
    <2>1. UNCHANGED <<queue, posted, fresh, waiting, cache, running, settled, nonces, record, runs>>
        BY <1>12 DEF intakeVars
    <2>2. OutcomesKept
        <3>1. \A v \in QueuedWrites : Over(v) => Over(v)'
            BY <2>1 DEF Over
        <3> QED
            BY <2>1, <3>1, OutcomesStay
    <2>3. IntakeTypes' /\ CacheTypes'
        BY <1>0, <2>1 DEF IntakeTypes, CacheTypes, Nonces
    <2> QED
        BY <1>3, <2>1, <2>2, <2>3
<1> QED
    BY <1>1, <1>4, <1>5, <1>6, <1>7, <1>8, <1>10, <1>11, <1>12 DEF IntakeNext

(* Where the store keeps a refusal it answers, a queued write has one        *)
(* outcome, the one the phone is told, however often its posts arrive,       *)
(* whatever the cache evicts and wherever the Router stops between the       *)
(* handler and its nonce.                                                    *)
THEOREM WritesSettle ==
    ASSUME ~ RefusalsLost
    PROVE  IntakeSpec => []WriteSettled
<1>1. IntakeInv => WriteSettled
    <2> SUFFICES ASSUME IntakeInv
                 PROVE  WriteSettled
        OBVIOUS
    <2>1. IntakeTypes /\ CacheTypes /\ AnswersTrue
        BY DEF IntakeInv
    <2>2. IntakeTypeOK
        <3>1. running \subseteq [nonce : Nonces, res : {"applied", "refused", "conflict"}, turn : {1, 2}]
            <4> SUFFICES ASSUME NEW r \in running
                         PROVE  r \in [nonce : Nonces, res : {"applied", "refused", "conflict"}, turn : {1, 2}]
                OBVIOUS
            <4>1. r \in [nonce : fresh, res : {"applied", "refused", "conflict"}, turn : {1, 2}] /\ fresh \subseteq Nonces
                BY <2>1 DEF IntakeTypes, Answers
            <4> QED
                BY <4>1
        <3>2. DOMAIN cache = 1 .. Len(cache)
            BY <2>1 DEF CacheTypes
        <3> QED
            BY <2>1, <3>1, <3>2 DEF IntakeTypeOK, IntakeTypes, CacheTypes
    <2>3. AppliedOnce
        BY <2>1 DEF AppliedOnce, AnswersTrue, AppliedWrites, RefusedWrites, Undecided
    <2>4. AnswerTrue
        BY <2>1 DEF AnswerTrue, AnswersTrue, TrueOf, AppliedWrites, RefusedWrites
    <2> QED
        BY <2>2, <2>3, <2>4 DEF WriteSettled
<1>2. IntakeInv /\ [IntakeNext]_intakeVars => IntakeInv'
    BY IntakeStep
<1> QED
    BY <1>1, <1>2, IntakeInitInv, PTL DEF IntakeSpec

----------------------------------------------------------------------------
(* ScheduledSends: an op that has held the slot was posted with a version   *)
(* the slot has passed, so no repeat of it takes the slot again; what was   *)
(* cancelled or reported as failed holds it settled or not at all.          *)

SlotStates == {"absent", "armed", "firing", "fired", "cancelled", "error"}

SchedTypes ==
    /\ slot \in [op : SendOps \cup {"none"}, state : SlotStates, attempts : Nat, version : Nat]
    /\ timer \in BOOLEAN /\ step \in {"idle", "send", "record", "fail", "sent", "failed"}
    /\ asked \in [SendOps -> Nat]
    /\ sendLedger \in [SendOps -> {"none", "accepted", "retired"}]
    /\ sendRows \in [SendOps -> Nat]
    /\ reports \in [SendOps -> SUBSET {"pending", "sent", "failed"}]
    /\ dropped \subseteq SendOps

(* The record of the slot, where the turn of fire stands. *)
TurnStands ==
    /\ slot.state # "absent" => slot.op \in SendOps
    /\ slot.state = "absent" => slot = NoRecord
    /\ step \in {"send", "record", "fail"} => slot.state = "firing"
    /\ step = "sent" => slot.state = "fired"
    /\ step = "failed" => slot.state = "error"
    /\ step \in {"record", "sent"} => sendLedger[slot.op] = "accepted"
    /\ step \in {"fail", "failed"} => sendLedger[slot.op] # "accepted"

LedgerCounts == \A op \in SendOps : sendRows[op] = IF sendLedger[op] = "none" THEN 0 ELSE 1

Holds(op) == slot.state # "absent" /\ slot.op = op
HasHeld(op) == Holds(op) \/ op \in dropped \/ "failed" \in reports[op]

HeldOnce == \A op \in SendOps : HasHeld(op) => asked[op] < slot.version /\ asked[op] <= MaxSlotVersion

SettledStays ==
    \A op \in SendOps :
        /\ op \in dropped /\ Holds(op) => slot.state = "cancelled"
        /\ "failed" \in reports[op] => sendLedger[op] # "accepted" /\ (Holds(op) => slot.state = "error" /\ step = "idle")
        /\ "sent" \in reports[op] => sendLedger[op] # "none"

SchedInv == SchedTypes /\ TurnStands /\ LedgerCounts /\ HeldOnce /\ SettledStays /\ TimerKept

(* The invariant holds at the start. *)
LEMMA SchedInitInv == SchedInit => SchedInv
<1> SUFFICES ASSUME SchedInit
             PROVE  SchedInv
    OBVIOUS
<1>1. /\ slot = [op |-> "none", state |-> "absent", attempts |-> 0, version |-> 0]
      /\ timer = FALSE /\ step = "idle" /\ dropped = {} /\ Unasked \in Nat
      /\ \A op \in SendOps : sendLedger[op] = "none" /\ sendRows[op] = 0 /\ reports[op] = {}
    BY SlotAssumption DEF SchedInit, NoRecord, Unasked
<1>2. SchedTypes
    <2>1. slot \in [op : SendOps \cup {"none"}, state : SlotStates, attempts : Nat, version : Nat]
        BY <1>1 DEF SlotStates
    <2>2. asked \in [SendOps -> Nat] /\ reports \in [SendOps -> SUBSET {"pending", "sent", "failed"}]
        BY <1>1 DEF SchedInit
    <2> QED
        BY <1>1, <2>1, <2>2 DEF SchedInit, SchedTypes
<1>3. TurnStands /\ LedgerCounts /\ HeldOnce /\ SettledStays /\ TimerKept
    BY <1>1 DEF TurnStands, LedgerCounts, HeldOnce, HasHeld, Holds, SettledStays, TimerKept, NoRecord
<1> QED
    BY <1>2, <1>3 DEF SchedInv

(* What a write of the slot makes of it. *)
LEMMA WrittenIs ==
    ASSUME SchedTypes, NEW state \in SlotStates, NEW attempts \in Nat, Written(state, attempts)
    PROVE  /\ slot' \in [op : SendOps \cup {"none"}, state : SlotStates, attempts : Nat, version : Nat]
           /\ slot'.op = slot.op /\ slot'.state = state /\ slot'.version = slot.version + 1
<1>1. slot' = [slot EXCEPT !.state = state, !.attempts = attempts, !.version = slot.version + 1]
    BY DEF Written
<1>2. slot \in [op : SendOps \cup {"none"}, state : SlotStates, attempts : Nat, version : Nat] /\ slot.version + 1 \in Nat
    BY DEF SchedTypes
<1> QED
    BY <1>1, <1>2

(* Every step of the owner, the turn and the Router keeps the invariant.    *)
LEMMA SchedStep ==
    ASSUME SchedInv, [SchedNext]_schedVars
    PROVE  SchedInv'
<1>0. /\ SchedTypes /\ TurnStands /\ LedgerCounts /\ HeldOnce /\ SettledStays /\ TimerKept
      /\ slot.version \in Nat /\ slot.attempts \in Nat /\ slot.state \in SlotStates
    BY DEF SchedInv, SchedTypes
\* steps that leave what was asked, appended and told
<1>1. ASSUME UNCHANGED <<asked, sendLedger, sendRows, reports, dropped>>,
             timer' \in BOOLEAN, step' \in {"idle", "send", "record", "fail", "sent", "failed"},
             slot' \in [op : SendOps \cup {"none"}, state : SlotStates, attempts : Nat, version : Nat],
             slot'.op = slot.op, slot'.version >= slot.version, slot.state # "absent" /\ slot'.state # "absent",
             slot.state = "cancelled" => slot'.state = "cancelled",
             slot.state = "error" /\ step = "idle" => slot'.state = "error" /\ step' = "idle",
             step' = "send" => slot'.state = "firing",
             step' \in {"record", "fail"} => step' = step /\ slot'.state = "firing",
             step' = "sent" => step \in {"record", "sent"} /\ slot'.state = "fired",
             step' = "failed" => step \in {"fail", "failed"} /\ slot'.state = "error",
             step' = "idle" /\ slot'.state \in {"armed", "firing"} => timer'
      PROVE  SchedInv'
    <2>1. SchedTypes'
        BY <1>0, <1>1 DEF SchedTypes
    <2>2. TurnStands'
        BY <1>0, <1>1 DEF TurnStands
    <2>3. LedgerCounts' /\ TimerKept'
        BY <1>0, <1>1 DEF LedgerCounts, TimerKept
    <2>4. \A op \in SendOps : Holds(op)' <=> Holds(op)
        BY <1>1 DEF Holds
    <2>5. HeldOnce'
        <3> SUFFICES ASSUME NEW op \in SendOps, HasHeld(op)'
                     PROVE  asked[op] < slot'.version /\ asked[op] <= MaxSlotVersion
            BY <1>1 DEF HeldOnce
        <3>1. HasHeld(op)
            BY <1>1, <2>4 DEF HasHeld
        <3>2. asked[op] < slot.version /\ asked[op] <= MaxSlotVersion /\ asked[op] \in Nat
            BY <1>0, <3>1 DEF HeldOnce, SchedTypes
        <3>3. slot'.version \in Nat
            BY <1>1
        <3> QED
            BY <1>0, <1>1, <3>2, <3>3
    <2>6. SettledStays'
        BY <1>0, <1>1, <2>4 DEF SettledStays
    <2> QED
        BY <2>1, <2>2, <2>3, <2>5, <2>6 DEF SchedInv
<1>2. ASSUME NEW op \in SendOps, NEW v \in 0 .. MaxSlotVersion, schedule(op, v)
      PROVE  SchedInv'
    <2>1. /\ step = "idle" /\ asked[op] \in {Unasked, v} /\ asked' = [asked EXCEPT ![op] = v]
          /\ UNCHANGED <<step, sendLedger, sendRows, dropped>>
        BY <1>2 DEF schedule
    <2>2. /\ asked' \in [SendOps -> Nat] /\ v \in Nat
          /\ \A o \in SendOps : HasHeld(o) => asked'[o] = asked[o]
        <3>1. asked' \in [SendOps -> Nat] /\ v \in Nat
            BY <1>0, <2>1 DEF SchedTypes
        <3>2. HasHeld(op) => asked[op] # Unasked
            BY <1>0, SlotAssumption DEF HeldOnce, Unasked, SchedTypes
        <3>3. HasHeld(op) => asked[op] = v
            BY <2>1, <3>2
        <3> QED
            BY <1>0, <2>1, <3>1, <3>3 DEF SchedTypes
    <2>3. CASE UNCHANGED <<slot, timer, reports>>
        <3>1. SchedTypes' /\ TurnStands' /\ LedgerCounts' /\ TimerKept'
            BY <1>0, <2>1, <2>2, <2>3 DEF SchedTypes, TurnStands, LedgerCounts, TimerKept
        <3>2. \A o \in SendOps : (HasHeld(o)' <=> HasHeld(o)) /\ (Holds(o)' <=> Holds(o))
            BY <2>1, <2>3 DEF HasHeld, Holds
        <3>3. HeldOnce'
            BY <1>0, <2>2, <2>3, <3>2 DEF HeldOnce
        <3>4. SettledStays'
            BY <1>0, <2>1, <2>3, <3>2 DEF SettledStays
        <3> QED
            BY <3>1, <3>3, <3>4 DEF SchedInv
    <2>4. CASE /\ slot.op # op /\ SlotFree(v)
               /\ slot' = [op |-> op, state |-> "armed", attempts |-> 0, version |-> slot.version + 1]
               /\ timer' = TRUE
               /\ \E kept \in BOOLEAN : reports' = [reports EXCEPT ![op] = IF kept THEN @ \cup {"pending"} ELSE @]
        <3>1. /\ slot' \in [op : SendOps \cup {"none"}, state : SlotStates, attempts : Nat, version : Nat]
              /\ slot'.op = op /\ slot'.state = "armed" /\ slot'.version = slot.version + 1
            BY <1>0, <2>4 DEF SlotStates
        <3>2. /\ reports' \in [SendOps -> SUBSET {"pending", "sent", "failed"}]
              /\ \A o \in SendOps : ("sent" \in reports'[o] <=> "sent" \in reports[o])
                                    /\ ("failed" \in reports'[o] <=> "failed" \in reports[o])
            <4>1. PICK kept \in BOOLEAN : reports' = [reports EXCEPT ![op] = IF kept THEN @ \cup {"pending"} ELSE @]
                BY <2>4
            <4>2. reports \in [SendOps -> SUBSET {"pending", "sent", "failed"}]
                BY <1>0 DEF SchedTypes
            <4>3. reports' = [reports EXCEPT ![op] = reports[op] \cup {"pending"}] \/ reports' = reports
                BY <4>1, <4>2
            <4> QED
                BY <4>2, <4>3
        <3>3. v = slot.version
            BY <2>4 DEF SlotFree
        <3>4. ~ HasHeld(op)
            <4>1. HasHeld(op) => asked[op] = v /\ asked[op] < slot.version
                BY <1>0, <2>1, SlotAssumption DEF HeldOnce, Unasked, SchedTypes
            <4> QED
                BY <1>0, <3>3, <4>1
        <3>5. \A o \in SendOps : Holds(o)' <=> o = op
            BY <3>1 DEF Holds
        <3>6. SchedTypes' /\ TurnStands' /\ LedgerCounts' /\ TimerKept'
            BY <1>0, <2>1, <2>2, <2>4, <3>1, <3>2 DEF SchedTypes, TurnStands, LedgerCounts, TimerKept
        <3>7. HeldOnce'
            <4> SUFFICES ASSUME NEW o \in SendOps, HasHeld(o)'
                         PROVE  asked'[o] < slot'.version /\ asked'[o] <= MaxSlotVersion
                BY DEF HeldOnce
            <4>1. CASE o = op
                <5>1. asked'[o] = v
                    BY <1>0, <2>1, <4>1 DEF SchedTypes
                <5> QED
                    BY <1>0, <2>2, <3>1, <3>3, <5>1
            <4>2. CASE o # op
                <5>1. HasHeld(o)
                    BY <2>1, <3>2, <3>5, <4>2 DEF HasHeld
                <5>2. asked'[o] = asked[o] /\ asked[o] \in Nat /\ asked[o] < slot.version /\ asked[o] <= MaxSlotVersion
                    BY <1>0, <2>2, <5>1 DEF HeldOnce, SchedTypes
                <5> QED
                    BY <1>0, <3>1, <5>2
            <4> QED
                BY <4>1, <4>2
        <3>8. SettledStays'
            <4> SUFFICES ASSUME NEW o \in SendOps
                         PROVE  /\ o \in dropped /\ Holds(o)' => slot'.state = "cancelled"
                                /\ "failed" \in reports'[o] => sendLedger[o] # "accepted" /\ ~ Holds(o)'
                                /\ "sent" \in reports'[o] => sendLedger[o] # "none"
                BY <2>1 DEF SettledStays
            <4>1. o = op => o \notin dropped /\ "failed" \notin reports[o]
                BY <3>4 DEF HasHeld
            <4> QED
                BY <1>0, <3>2, <3>5, <4>1 DEF SettledStays
        <3> QED
            BY <3>6, <3>7, <3>8 DEF SchedInv
    <2> QED
        BY <1>2, <2>3, <2>4 DEF schedule
<1>3. CASE cancel
    <2>1. /\ step = "idle" /\ slot.state = "armed" /\ Written("cancelled", slot.attempts) /\ timer' = FALSE
          /\ dropped' = dropped \cup {slot.op}
          /\ UNCHANGED <<step, asked, sendLedger, sendRows, reports>>
        BY <1>3 DEF cancel
    <2>2. /\ slot' \in [op : SendOps \cup {"none"}, state : SlotStates, attempts : Nat, version : Nat]
          /\ slot'.op = slot.op /\ slot'.state = "cancelled" /\ slot'.version = slot.version + 1
          /\ slot.op \in SendOps
        BY <1>0, <2>1, WrittenIs DEF SlotStates, TurnStands
    <2>3. \A o \in SendOps : (Holds(o)' <=> Holds(o)) /\ (HasHeld(o)' <=> HasHeld(o))
        BY <2>1, <2>2 DEF Holds, HasHeld
    <2>4. SchedTypes' /\ TurnStands' /\ LedgerCounts' /\ TimerKept'
        BY <1>0, <2>1, <2>2 DEF SchedTypes, TurnStands, LedgerCounts, TimerKept
    <2>5. HeldOnce'
        <3> SUFFICES ASSUME NEW o \in SendOps, HasHeld(o)
                     PROVE  asked[o] < slot'.version /\ asked[o] <= MaxSlotVersion
            BY <2>1, <2>3 DEF HeldOnce
        <3>1. asked[o] \in Nat /\ asked[o] < slot.version /\ asked[o] <= MaxSlotVersion
            BY <1>0 DEF HeldOnce, SchedTypes
        <3> QED
            BY <1>0, <2>2, <3>1
    <2>6. SettledStays'
        BY <1>0, <2>1, <2>2, <2>3 DEF SettledStays, Holds
    <2> QED
        BY <2>4, <2>5, <2>6 DEF SchedInv
<1>4. CASE FireMarks
    <2>1. CASE (slot.state \in TERMINAL \/ slot = NoRecord) /\ timer' = FALSE /\ UNCHANGED <<slot, step>>
        <3>1. UNCHANGED <<slot, step, asked, sendLedger, sendRows, reports, dropped>> /\ timer' = FALSE
              /\ slot.state \notin {"armed", "firing"}
            BY <1>4, <2>1 DEF FireMarks, TERMINAL, NoRecord
        <3>2. SchedTypes' /\ TurnStands' /\ LedgerCounts' /\ TimerKept'
            BY <1>0, <3>1 DEF SchedTypes, TurnStands, LedgerCounts, TimerKept
        <3>3. HeldOnce' /\ SettledStays'
            BY <1>0, <3>1 DEF HeldOnce, SettledStays, HasHeld, Holds
        <3> QED
            BY <3>2, <3>3 DEF SchedInv
    <2>2. CASE /\ ~ (slot.state \in TERMINAL \/ slot = NoRecord)
               /\ Written("firing", slot.attempts) /\ step' = "send" /\ timer' = FALSE
        <3>1. step = "idle" /\ UNCHANGED <<asked, sendLedger, sendRows, reports, dropped>>
            BY <1>4 DEF FireMarks
        <3>2. /\ slot' \in [op : SendOps \cup {"none"}, state : SlotStates, attempts : Nat, version : Nat]
              /\ slot'.op = slot.op /\ slot'.state = "firing" /\ slot'.version = slot.version + 1
            BY <1>0, <2>2, WrittenIs DEF SlotStates
        <3>3. slot.state # "absent" /\ slot.state # "cancelled" /\ slot.state # "error"
            BY <1>0, <2>2 DEF TERMINAL, TurnStands
        <3>4. step' = "send" /\ timer' = FALSE /\ slot'.version >= slot.version
            BY <1>0, <2>2, <3>2
        <3> QED
            BY <1>1, <3>1, <3>2, <3>3, <3>4
    <2>3. CASE UNCHANGED schedVars
        BY <1>0, <2>3
        DEF schedVars, SchedInv, SchedTypes, TurnStands, LedgerCounts, TimerKept, HeldOnce, SettledStays, HasHeld, Holds
    <2> QED
        BY <1>4, <2>1, <2>2, <2>3 DEF FireMarks, schedVars
<1>5. CASE FireSends
    <2>1. step = "send" /\ slot.state = "firing" /\ slot.op \in SendOps
          /\ UNCHANGED <<slot, timer, asked, reports, dropped>>
        BY <1>0, <1>5 DEF FireSends, TurnStands
    <2>2. \A o \in SendOps : (Holds(o)' <=> Holds(o)) /\ (HasHeld(o)' <=> HasHeld(o))
        BY <2>1 DEF Holds, HasHeld
    <2>3. HeldOnce'
        BY <1>0, <2>1, <2>2 DEF HeldOnce
    <2>5. CASE /\ step' \in {"record", "fail"} /\ UNCHANGED <<sendLedger, sendRows>>
               /\ step' = "record" => sendLedger[slot.op] = "accepted"
               /\ step' = "fail" => sendLedger[slot.op] # "accepted"
        <3>1. SchedTypes' /\ TurnStands' /\ LedgerCounts' /\ TimerKept'
            BY <1>0, <2>1, <2>5 DEF SchedTypes, TurnStands, LedgerCounts, TimerKept
        <3>2. SettledStays'
            BY <1>0, <2>1, <2>2, <2>5 DEF SettledStays
        <3> QED
            BY <2>3, <3>1, <3>2 DEF SchedInv
    <2>6. CASE /\ step' = "record" /\ sendLedger[slot.op] = "none"
               /\ sendLedger' = [sendLedger EXCEPT ![slot.op] = "accepted"]
               /\ sendRows' = [sendRows EXCEPT ![slot.op] = @ + 1]
        <3>1. /\ sendLedger' \in [SendOps -> {"none", "accepted", "retired"}] /\ sendRows' \in [SendOps -> Nat]
              /\ sendLedger'[slot.op] = "accepted" /\ sendRows'[slot.op] = 1
              /\ \A o \in SendOps : o # slot.op => sendLedger'[o] = sendLedger[o] /\ sendRows'[o] = sendRows[o]
            BY <1>0, <2>1, <2>6 DEF SchedTypes, LedgerCounts
        <3>2. SchedTypes' /\ TurnStands' /\ TimerKept'
            BY <1>0, <2>1, <2>6, <3>1 DEF SchedTypes, TurnStands, TimerKept
        <3>3. LedgerCounts'
            BY <1>0, <3>1 DEF LedgerCounts
        <3>4. Holds(slot.op)
            BY <2>1 DEF Holds
        <3>5. SettledStays'
            <4> SUFFICES ASSUME NEW o \in SendOps
                         PROVE  /\ o \in dropped /\ Holds(o) => slot.state = "cancelled"
                                /\ "failed" \in reports[o] => sendLedger'[o] # "accepted" /\ ~ Holds(o)
                                /\ "sent" \in reports[o] => sendLedger'[o] # "none"
                BY <2>1, <2>2 DEF SettledStays
            <4>1. "failed" \in reports[o] => ~ Holds(o) /\ o # slot.op
                BY <1>0, <2>1, <3>4 DEF SettledStays
            <4>2. "sent" \in reports[o] => sendLedger'[o] # "none"
                BY <1>0, <3>1 DEF SettledStays
            <4> QED
                BY <1>0, <3>1, <4>1, <4>2 DEF SettledStays
        <3> QED
            BY <2>3, <3>2, <3>3, <3>5 DEF SchedInv
    <2>7. sendLedger[slot.op] \in {"none", "accepted", "retired"}
        BY <1>0, <2>1 DEF SchedTypes
    <2>8. CASE sendLedger[slot.op] = "accepted"
        BY <1>5, <2>5, <2>8 DEF FireSends
    <2>9. CASE sendLedger[slot.op] = "retired"
        BY <1>5, <2>5, <2>9 DEF FireSends
    <2>10. CASE sendLedger[slot.op] = "none"
        BY <1>5, <2>5, <2>6, <2>10 DEF FireSends
    <2> QED
        BY <2>7, <2>8, <2>9, <2>10
<1>6. CASE FireRecords
    <2>1. step = "record" /\ slot.state = "firing" /\ UNCHANGED <<asked, sendLedger, sendRows, reports, dropped>>
        BY <1>0, <1>6 DEF FireRecords, TurnStands
    <2>2. CASE Written("fired", slot.attempts + 1) /\ step' = "sent" /\ UNCHANGED timer
        <3>1. /\ slot' \in [op : SendOps \cup {"none"}, state : SlotStates, attempts : Nat, version : Nat]
              /\ slot'.op = slot.op /\ slot'.state = "fired" /\ slot'.version = slot.version + 1
            BY <1>0, <2>2, WrittenIs DEF SlotStates
        <3>2. timer' \in BOOLEAN
            BY <1>0, <2>2 DEF SchedTypes
        <3> QED
            BY <1>0, <1>1, <2>1, <2>2, <3>1, <3>2
    <2>3. CASE step' = "idle" /\ timer' = TRUE /\ UNCHANGED slot
        BY <1>0, <1>1, <2>1, <2>3 DEF SchedTypes
    <2> QED
        BY <1>6, <2>2, <2>3 DEF FireRecords
<1>7. CASE FireFails
    <2>1. step = "fail" /\ slot.state = "firing" /\ UNCHANGED <<asked, sendLedger, sendRows, reports, dropped>>
        BY <1>0, <1>7 DEF FireFails, TurnStands
    <2>2. CASE Written("armed", slot.attempts + 1) /\ step' = "idle" /\ timer' = TRUE
        <3>1. /\ slot' \in [op : SendOps \cup {"none"}, state : SlotStates, attempts : Nat, version : Nat]
              /\ slot'.op = slot.op /\ slot'.state = "armed" /\ slot'.version = slot.version + 1
            BY <1>0, <2>2, WrittenIs DEF SlotStates
        <3> QED
            BY <1>0, <1>1, <2>1, <2>2, <3>1
    <2>3. CASE Written("error", slot.attempts + 1) /\ step' = "failed" /\ UNCHANGED timer
        <3>1. /\ slot' \in [op : SendOps \cup {"none"}, state : SlotStates, attempts : Nat, version : Nat]
              /\ slot'.op = slot.op /\ slot'.state = "error" /\ slot'.version = slot.version + 1
            BY <1>0, <2>3, WrittenIs DEF SlotStates
        <3>2. timer' \in BOOLEAN
            BY <1>0, <2>3 DEF SchedTypes
        <3> QED
            BY <1>0, <1>1, <2>1, <2>3, <3>1, <3>2
    <2>4. CASE step' = "idle" /\ timer' = TRUE /\ UNCHANGED slot
        BY <1>0, <1>1, <2>1, <2>4 DEF SchedTypes
    <2> QED
        BY <1>7, <2>2, <2>3, <2>4 DEF FireFails
<1>8. CASE FireReports
    <2>1. step \in {"sent", "failed"} /\ step' = "idle" /\ UNCHANGED <<asked, sendLedger, sendRows, dropped>>
          /\ slot.state = (IF step = "sent" THEN "fired" ELSE "error") /\ slot.op \in SendOps
        BY <1>0, <1>8 DEF FireReports, TurnStands
    <2>2. CASE reports' = [reports EXCEPT ![slot.op] = @ \cup {step}] /\ UNCHANGED <<slot, timer>>
        <3>1. /\ reports' \in [SendOps -> SUBSET {"pending", "sent", "failed"}]
              /\ reports'[slot.op] = reports[slot.op] \cup {step}
              /\ \A o \in SendOps : o # slot.op => reports'[o] = reports[o]
            BY <1>0, <2>1, <2>2 DEF SchedTypes
        <3>2. SchedTypes' /\ TurnStands' /\ LedgerCounts' /\ TimerKept'
            BY <1>0, <2>1, <2>2, <3>1 DEF SchedTypes, TurnStands, LedgerCounts, TimerKept
        <3>3. Holds(slot.op) /\ \A o \in SendOps : Holds(o)' <=> Holds(o)
            BY <2>1, <2>2 DEF Holds
        <3>4. \A o \in SendOps : HasHeld(o)' => HasHeld(o)
            BY <2>1, <3>1, <3>3 DEF HasHeld
        <3>5. HeldOnce'
            BY <1>0, <2>1, <2>2, <3>4 DEF HeldOnce
        <3>6. SettledStays'
            <4> SUFFICES ASSUME NEW o \in SendOps
                         PROVE  /\ o \in dropped /\ Holds(o) => slot.state = "cancelled"
                                /\ "failed" \in reports'[o] => sendLedger[o] # "accepted"
                                                              /\ (Holds(o) => slot.state = "error")
                                /\ "sent" \in reports'[o] => sendLedger[o] # "none"
                BY <2>1, <2>2, <3>3 DEF SettledStays
            <4>1. CASE o = slot.op
                <5>1. \/ step = "sent" /\ sendLedger[o] = "accepted" /\ slot.state = "fired"
                      \/ step = "failed" /\ sendLedger[o] # "accepted" /\ slot.state = "error"
                    BY <1>0, <2>1, <4>1 DEF TurnStands
                <5>2. Holds(o)
                    BY <3>3, <4>1
                <5>3. "failed" \notin reports[o]
                    BY <1>0, <2>1, <5>2 DEF SettledStays
                <5> QED
                    BY <1>0, <3>1, <4>1, <5>1, <5>2, <5>3 DEF SettledStays
            <4>2. CASE o # slot.op
                BY <1>0, <3>1, <4>2 DEF SettledStays
            <4> QED
                BY <4>1, <4>2
        <3> QED
            BY <3>2, <3>5, <3>6 DEF SchedInv
    <2>3. CASE Written("armed", slot.attempts) /\ timer' = TRUE /\ UNCHANGED reports
        <3>1. /\ slot' \in [op : SendOps \cup {"none"}, state : SlotStates, attempts : Nat, version : Nat]
              /\ slot'.op = slot.op /\ slot'.state = "armed" /\ slot'.version = slot.version + 1
            BY <1>0, <2>3, WrittenIs DEF SlotStates
        <3>2. slot.state \in {"fired", "error"} /\ step # "idle"
            BY <2>1
        <3> QED
            BY <1>0, <1>1, <2>1, <2>3, <3>1, <3>2
    <2>4. CASE UNCHANGED <<slot, timer, reports>>
        <3>1. timer' \in BOOLEAN /\ slot.state \in {"fired", "error"} /\ step # "idle"
            BY <1>0, <2>1, <2>4 DEF SchedTypes
        <3> QED
            BY <1>0, <1>1, <2>1, <2>4, <3>1 DEF SchedTypes
    <2> QED
        BY <1>8, <2>2, <2>3, <2>4 DEF FireReports
<1>9. CASE RouterRearms
    <2>1. /\ step' = "idle" /\ timer' = (slot.state \in {"armed", "firing"})
          /\ (slot.state = "firing" /\ Written("armed", slot.attempts)) \/ UNCHANGED slot
          /\ UNCHANGED <<asked, sendLedger, sendRows, reports, dropped>>
        BY <1>9 DEF RouterRearms
    <2>2. CASE slot.state = "absent"
        <3>1. UNCHANGED slot
            BY <2>1, <2>2
        <3>2. SchedTypes' /\ TurnStands' /\ LedgerCounts' /\ TimerKept'
            BY <1>0, <2>1, <2>2, <3>1 DEF SchedTypes, TurnStands, LedgerCounts, TimerKept
        <3>3. HeldOnce' /\ SettledStays'
            BY <1>0, <2>1, <2>2, <3>1 DEF HeldOnce, SettledStays, HasHeld, Holds
        <3> QED
            BY <3>2, <3>3 DEF SchedInv
    <2>3. CASE slot.state # "absent" /\ UNCHANGED slot
        <3>0. timer' \in BOOLEAN
            BY <2>1
        <3>1. slot.state \in {"armed", "firing"} => timer' = TRUE
            BY <2>1
        <3>2. slot' = slot /\ step' = "idle" /\ slot.version >= slot.version
            BY <1>0, <2>1, <2>3
        <3>3. slot \in [op : SendOps \cup {"none"}, state : SlotStates, attempts : Nat, version : Nat]
            BY <1>0 DEF SchedTypes
        <3> QED
            BY <1>1, <2>1, <2>3, <3>0, <3>1, <3>2, <3>3
    <2>4. CASE slot.state = "firing" /\ Written("armed", slot.attempts)
        <3>1. /\ slot' \in [op : SendOps \cup {"none"}, state : SlotStates, attempts : Nat, version : Nat]
              /\ slot'.op = slot.op /\ slot'.state = "armed" /\ slot'.version = slot.version + 1
            BY <1>0, <2>4, WrittenIs DEF SlotStates
        <3>2. timer' = TRUE
            BY <2>1, <2>4
        <3> QED
            BY <1>0, <1>1, <2>1, <2>4, <3>1, <3>2
    <2> QED
        BY <2>1, <2>2, <2>3, <2>4
<1>10. ASSUME NEW op \in SendOps, TargetForgotten(op)
       PROVE  SchedInv'
    <2>1. /\ step = "idle" /\ sendLedger[op] = "accepted" /\ sendLedger' = [sendLedger EXCEPT ![op] = "retired"]
          /\ UNCHANGED <<slot, timer, step, asked, sendRows, reports, dropped>>
        BY <1>10 DEF TargetForgotten
    <2>2. /\ sendLedger' \in [SendOps -> {"none", "accepted", "retired"}] /\ sendLedger'[op] = "retired"
          /\ \A o \in SendOps : o # op => sendLedger'[o] = sendLedger[o]
        BY <1>0, <2>1 DEF SchedTypes
    <2>3. SchedTypes' /\ TurnStands' /\ TimerKept'
        BY <1>0, <2>1, <2>2 DEF SchedTypes, TurnStands, TimerKept
    <2>4. LedgerCounts'
        BY <1>0, <2>1, <2>2 DEF LedgerCounts
    <2>5. HeldOnce'
        BY <1>0, <2>1 DEF HeldOnce, HasHeld, Holds
    <2>6. SettledStays'
        BY <1>0, <2>1, <2>2 DEF SettledStays, Holds
    <2> QED
        BY <2>3, <2>4, <2>5, <2>6 DEF SchedInv
<1>11. CASE UNCHANGED schedVars
    BY <1>0, <1>11
    DEF schedVars, SchedInv, SchedTypes, TurnStands, LedgerCounts, TimerKept, HeldOnce, SettledStays, HasHeld, Holds
<1> QED
    BY <1>2, <1>3, <1>4, <1>5, <1>6, <1>7, <1>8, <1>9, <1>10, <1>11 DEF SchedNext

(* A scheduled message is appended once, the owner is told what became of    *)
(* it, and a record that is not settled has its timer: whatever write of the *)
(* turn the store does not keep, wherever the Router stops, and whatever     *)
(* repeats of the schedule arrive late.                                      *)
THEOREM SendsSettle == SchedSpec => []SendSettles
<1>1. SchedInv => SendSettles
    BY DEF SchedInv, LedgerCounts, SettledStays, SendSettles, ScheduledOnce, ReportTrue
<1>2. SchedInv /\ [SchedNext]_schedVars => SchedInv'
    BY SchedStep
<1> QED
    BY <1>1, <1>2, SchedInitInv, PTL DEF SchedSpec

(* A message whose cancel was accepted is never sent: no late repeat of its  *)
(* schedule, no restart and no turn finds it in the slot but cancelled.      *)
THEOREM CancelsHold == SchedSpec => CancelFinal
<1>1. SchedInv /\ [SchedNext]_schedVars => SchedInv'
    BY SchedStep
<1>2. SchedInv /\ [SchedNext]_schedVars => [\A op \in dropped : sendRows'[op] = sendRows[op]]_schedVars
    <2> SUFFICES ASSUME SchedInv, SchedNext, NEW op \in dropped
                 PROVE  sendRows'[op] = sendRows[op]
        OBVIOUS
    <2>1. CASE FireSends
        <3>1. step = "send" /\ slot.state = "firing" /\ op \in SendOps /\ slot.op # op
            BY <2>1 DEF FireSends, SchedInv, TurnStands, SettledStays, Holds, SchedTypes
        <3>2. sendRows' = sendRows \/ sendRows' = [sendRows EXCEPT ![slot.op] = @ + 1]
            <4>1. sendLedger[slot.op] \in {"none", "accepted", "retired"}
                BY <3>1 DEF SchedInv, SchedTypes, TurnStands
            <4> QED
                BY <2>1, <4>1 DEF FireSends
        <3> QED
            BY <3>1, <3>2 DEF SchedInv, SchedTypes
    <2>2. CASE ~ FireSends
        BY <2>2 DEF SchedNext, schedule, TargetForgotten, cancel, FireMarks, FireRecords, FireFails, FireReports,
                    RouterRearms
    <2> QED
        BY <2>1, <2>2
<1> QED
    BY <1>1, <1>2, SchedInitInv, PTL DEF SchedSpec, CancelFinal

----------------------------------------------------------------------------
(* Enrolment: what is stored of the device is what was said of it; of the   *)
(* edges, those said that no revocation is as late as.                      *)

(* A non-empty set of naturals has a least element. *)
LEMMA LeastTime ==
    ASSUME NEW T \in SUBSET Nat, T # {}
    PROVE  \E m \in T : \A k \in T : m <= k
<1> DEFINE R == OpToRel(<, Nat)
<1>1. \E x \in T : \A y \in T : ~ (<<y, x>> \in R)
    <2>1. IsWellFoundedOn(R, Nat)
        BY NatLessThanWellFounded
    <2> HIDE DEF R
    <2> QED
        BY <2>1, WFMin
<1>2. \A x, y \in Nat : ~ (<<y, x>> \in R) => x <= y
    BY DEF OpToRel
<1> HIDE DEF R
<1> QED
    BY <1>1, <1>2

(* The newest of the times signed at: the last of them, or 0. *)
LEMMA NewestIs ==
    ASSUME NEW T \in SUBSET Times
    PROVE  /\ T = {} => Newest(T) = 0
           /\ T # {} => Newest(T) \in T /\ \A t \in T : t <= Newest(T)
<1> USE SignedAssumption
<1> DEFINE U == {SignedAt - t : t \in T}
<1>1. CASE T = {}
    BY <1>1 DEF Newest
<1>2. CASE T # {}
    <2>1. U \in SUBSET Nat /\ U # {}
        <3>1. PICK t \in T : TRUE
            BY <1>2
        <3>2. SignedAt - t \in U
            BY <3>1
        <3>3. U \in SUBSET Nat
            BY DEF Times
        <3> QED
            BY <3>2, <3>3
    <2>2. PICK u \in U : \A k \in U : u <= k
        <3> HIDE DEF U
        <3> QED
            BY <2>1, LeastTime
    <2>3. PICK m \in T : u = SignedAt - m
        OBVIOUS
    <2>4. ASSUME NEW k \in T
          PROVE  m >= k
        <3>1. SignedAt - k \in U
            OBVIOUS
        <3>2. SignedAt - m <= SignedAt - k
            BY <2>2, <2>3, <3>1
        <3> QED
            BY <3>2 DEF Times
    <2>5. Max(T) \in T /\ \A k \in T : Max(T) >= k
        BY <2>4, Zenon DEF Max
    <2>6. Newest(T) = Max(T)
        BY <1>2 DEF Newest
    <2> QED
        BY <1>2, <2>5, <2>6 DEF Times
<1> QED
    BY <1>1, <1>2

EnrolInv ==
    /\ said \in [admit : SUBSET Times, revoke : SUBSET Times, link : SUBSET Times, unlink : SUBSET Times]
    /\ admissions = said.admit /\ revocations = said.revoke /\ linkRevocations = said.unlink
    /\ linkEdges = {t \in said.link : \A r \in said.unlink : r < t}

(* The invariant holds at the start, and whatever comes keeps it. *)
LEMMA EnrolInitInv == EnrolInit => EnrolInv
<1> SUFFICES ASSUME EnrolInit
             PROVE  EnrolInv
    OBVIOUS
<1>1. said \in [admit : SUBSET Times, revoke : SUBSET Times, link : SUBSET Times, unlink : SUBSET Times]
    BY DEF EnrolInit
<1> QED
    BY <1>1 DEF EnrolInit, EnrolInv

(* Every statement that comes, in whatever order, keeps it. *)
LEMMA EnrolStep == EnrolInv /\ [EnrolNext]_enrolVars => EnrolInv'
<1> SUFFICES ASSUME EnrolInv, [EnrolNext]_enrolVars
             PROVE  EnrolInv'
    OBVIOUS
<1> USE DEF EnrolInv
<1> DEFINE Said == [admit : SUBSET Times, revoke : SUBSET Times, link : SUBSET Times, unlink : SUBSET Times]
<1>1. CASE dropLinkEdge
    <2>1. /\ linkEdges' = {} /\ said' = [said EXCEPT !.link = {}]
          /\ UNCHANGED <<admissions, revocations, linkRevocations>>
        BY <1>1 DEF dropLinkEdge
    <2>2. /\ said' \in Said /\ said'.link = {}
          /\ said'.admit = said.admit /\ said'.revoke = said.revoke /\ said'.unlink = said.unlink
        BY <2>1
    <2> QED
        BY <2>1, <2>2
<1>2. ASSUME NEW t \in Times, admit(t)
      PROVE  EnrolInv'
    <2>1. /\ said' = [said EXCEPT !.admit = said.admit \cup {t}] /\ admissions' = admissions \cup {t}
          /\ UNCHANGED <<revocations, linkEdges, linkRevocations>>
        BY <1>2 DEF admit, Says
    <2>2. /\ said' \in Said /\ said'.admit = said.admit \cup {t}
          /\ said'.revoke = said.revoke /\ said'.link = said.link /\ said'.unlink = said.unlink
        BY <2>1
    <2> QED
        BY <2>1, <2>2
<1>3. ASSUME NEW t \in Times, revoke(t)
      PROVE  EnrolInv'
    <2>1. /\ said' = [said EXCEPT !.revoke = said.revoke \cup {t}] /\ revocations' = revocations \cup {t}
          /\ UNCHANGED <<admissions, linkEdges, linkRevocations>>
        BY <1>3 DEF revoke, Says
    <2>2. /\ said' \in Said /\ said'.revoke = said.revoke \cup {t}
          /\ said'.admit = said.admit /\ said'.link = said.link /\ said'.unlink = said.unlink
        BY <2>1
    <2> QED
        BY <2>1, <2>2
<1>4. ASSUME NEW t \in Times, addLinkEdge(t)
      PROVE  EnrolInv'
    <2>1. /\ said' = [said EXCEPT !.link = said.link \cup {t}]
          /\ linkEdges' = (IF \E r \in linkRevocations : r >= t THEN linkEdges ELSE linkEdges \cup {t})
          /\ UNCHANGED <<admissions, revocations, linkRevocations>>
        BY <1>4 DEF addLinkEdge, Says
    <2>2. /\ said' \in Said /\ said'.link = said.link \cup {t}
          /\ said'.admit = said.admit /\ said'.revoke = said.revoke /\ said'.unlink = said.unlink
        BY <2>1
    <2>3. linkEdges' = {e \in said'.link : \A r \in said'.unlink : r < e}
        <3>1. \A r \in said.unlink : r >= t <=> ~ (r < t)
            BY SignedAssumption DEF Times
        <3>2. CASE \E r \in linkRevocations : r >= t
            BY <2>1, <2>2, <3>1, <3>2
        <3>3. CASE ~ \E r \in linkRevocations : r >= t
            BY <2>1, <2>2, <3>1, <3>3
        <3> QED
            BY <3>2, <3>3
    <2> QED
        BY <2>1, <2>2, <2>3
<1>5. ASSUME NEW t \in Times, removeLinkEdge(t)
      PROVE  EnrolInv'
    <2>1. /\ said' = [said EXCEPT !.unlink = said.unlink \cup {t}]
          /\ linkEdges' = {e \in linkEdges : e > t} /\ linkRevocations' = linkRevocations \cup {t}
          /\ UNCHANGED <<admissions, revocations>>
        BY <1>5 DEF removeLinkEdge, Says
    <2>2. /\ said' \in Said /\ said'.unlink = said.unlink \cup {t}
          /\ said'.admit = said.admit /\ said'.revoke = said.revoke /\ said'.link = said.link
        BY <2>1
    <2>3. \A e \in said.link : e > t <=> t < e
        BY SignedAssumption DEF Times
    <2>4. linkEdges' = {e \in said'.link : \A r \in said'.unlink : r < e}
        BY <2>1, <2>2, <2>3
    <2> QED
        BY <2>1, <2>2, <2>4
<1>6. CASE UNCHANGED enrolVars
    BY <1>6 DEF enrolVars
<1> QED
    BY <1>1, <1>2, <1>3, <1>4, <1>5, <1>6 DEF EnrolNext

(* Whether the device is admitted and the Domain linked follows from what    *)
(* the owner signed last, whatever the order, the repetitions and the times  *)
(* of the statements that came.                                              *)
THEOREM LastSigned == EnrolSpec => []LastSignedHolds
<1>1. EnrolInv => LastSignedHolds
    <2> SUFFICES ASSUME EnrolInv
                 PROVE  LastSignedHolds
        OBVIOUS
    <2> USE SignedAssumption
    <2> DEFINE A == said.admit
               R == said.revoke
               L == said.link
               U == said.unlink
               E == linkEdges
    <2>1. /\ A \subseteq Times /\ R \subseteq Times /\ L \subseteq Times /\ U \subseteq Times
          /\ E = {t \in L : \A r \in U : r < t}
        BY DEF EnrolInv
    <2>2. admissions = A /\ revocations = R /\ linkRevocations = U
        BY DEF EnrolInv
    <2> HIDE DEF A, R, L, U, E
    <2>3. /\ A = {} => Newest(A) = 0
          /\ A # {} => Newest(A) \in A /\ \A t \in A : t <= Newest(A)
        BY <2>1, NewestIs
    <2>4. /\ R = {} => Newest(R) = 0
          /\ R # {} => Newest(R) \in R /\ \A t \in R : t <= Newest(R)
        BY <2>1, NewestIs
    <2>5. /\ L = {} => Newest(L) = 0
          /\ L # {} => Newest(L) \in L /\ \A t \in L : t <= Newest(L)
        BY <2>1, NewestIs
    <2>6. /\ U = {} => Newest(U) = 0
          /\ U # {} => Newest(U) \in U /\ \A t \in U : t <= Newest(U)
        BY <2>1, NewestIs
    <2>7. /\ E = {} => Newest(E) = 0
          /\ E # {} => Newest(E) \in E /\ \A t \in E : t <= Newest(E)
        <3>1. E \in SUBSET Times
            BY <2>1
        <3> QED
            BY <3>1, NewestIs
    <2>8. \A t \in Times : t \in Nat /\ t >= 1
        BY DEF Times
    <2>9. resolveAdmitted <=> Newest(A) > Newest(R)
        <3>1. resolveAdmitted <=> A # {} /\ \A r \in R : r < Newest(A)
            BY <2>2 DEF resolveAdmitted
        <3>2. CASE A = {}
            BY <2>1, <2>3, <2>4, <2>8, <3>1, <3>2
        <3>3. CASE A # {} /\ R = {}
            BY <2>1, <2>3, <2>4, <2>8, <3>1, <3>3
        <3>4. CASE A # {} /\ R # {}
            BY <2>1, <2>3, <2>4, <2>8, <3>1, <3>4
        <3> QED
            BY <3>2, <3>3, <3>4
    <2>10. linkEdgeId = IF Newest(L) > Newest(U) THEN Newest(L) ELSE 0
        <3>1. E # {} <=> Newest(L) > Newest(U)
            <4>1. ASSUME NEW e \in E
                  PROVE  Newest(L) > Newest(U)
                <5>1. e \in L /\ e \in Nat /\ e >= 1 /\ (\A r \in U : r < e) /\ Newest(L) \in Nat /\ e <= Newest(L)
                    BY <2>1, <2>5, <2>8, <4>1
                <5>2. CASE U = {}
                    BY <2>6, <5>1, <5>2
                <5>3. CASE U # {}
                    <6>1. Newest(U) \in U /\ Newest(U) \in Nat
                        BY <2>1, <2>6, <2>8, <5>3
                    <6>2. Newest(U) < e
                        BY <5>1, <6>1
                    <6> QED
                        BY <5>1, <6>1, <6>2
                <5> QED
                    BY <5>2, <5>3
            <4>2. ASSUME Newest(L) > Newest(U)
                  PROVE  Newest(L) \in E
                <5>1. L # {}
                    BY <2>1, <2>5, <2>6, <2>8, <4>2
                <5>2. \A r \in U : r < Newest(L)
                    BY <2>1, <2>5, <2>6, <2>8, <4>2, <5>1
                <5> QED
                    BY <2>1, <2>5, <5>1, <5>2
            <4> QED
                BY <4>1, <4>2
        <3>2. CASE E = {}
            <4>1. linkEdgeId = 0
                BY <3>2 DEF linkEdgeId, hasLinkEdge, E
            <4> QED
                BY <3>1, <3>2, <4>1
        <3>3. CASE E # {}
            <4>1. Newest(L) > Newest(U) /\ L # {} /\ Newest(E) \in L
                BY <2>1, <2>7, <3>1, <3>3
            <4>2. Newest(L) \in E
                <5>1. \A r \in U : r < Newest(L)
                    BY <2>1, <2>5, <2>6, <2>8, <4>1
                <5> QED
                    BY <2>1, <2>5, <4>1, <5>1
            <4>3. Newest(E) = Newest(L)
                <5>1. Newest(L) \in Nat /\ Newest(E) \in Nat
                    BY <2>1, <2>5, <2>8, <4>1
                <5>2. Newest(E) <= Newest(L) /\ Newest(L) <= Newest(E)
                    BY <2>5, <2>7, <3>3, <4>1, <4>2
                <5> QED
                    BY <5>1, <5>2
            <4>4. \A r \in U : r < Newest(E)
                BY <2>1, <2>7, <3>3
            <4>5. hasLinkEdge
                BY <2>2, <3>3, <4>4 DEF hasLinkEdge, E
            <4> QED
                BY <4>1, <4>3, <4>5 DEF linkEdgeId, E
        <3> QED
            BY <3>2, <3>3
    <2> QED
        BY <2>9, <2>10 DEF LastSignedHolds, A, R, L, U
<1> QED
    BY <1>1, EnrolInitInv, EnrolStep, PTL DEF EnrolSpec

=============================================================================
