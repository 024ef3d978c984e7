------------------------------ MODULE OwnerLock ------------------------------
(* The lock file of an owner's directory (ownerLock.ts) and the stores that  *)
(* several processes open under it. Opening is a series of calls on the file *)
(* system, each a step; what a holder does in one turn of its loop (look     *)
(* whether the lock is still its own, then write, refresh or remove) is one  *)
(* step, but a refresh empties the file before it fills it.                  *)
EXTENDS Integers, Sequences, FiniteSets

CONSTANTS
    Openers,        \* processes
    MaxOpens,       \* bound: attempts of a process to open
    MaxLines        \* bound: lines of the journal

VARIABLES
    lockPath,       \* the file the lock's name points at, or 0
    lockFiles,      \* file -> what is written in it
    opener,         \* process -> its attempt, or its store
    opens,          \* process -> attempts made
    lines,          \* the journal: the seq of every line
    overwritten     \* a lock was put back after a successor had been made (observer)

lockVars == <<lockPath, lockFiles, opener, opens, lines, overwritten>>

NoPrior == [owner |-> "none", gen |-> 0]
NotOpen == [pc |-> "idle", ino |-> 0, gen |-> 0, aside |-> 0, fd |-> 0, seq |-> 0]

LockInit ==
    /\ opens = [p \in Openers |-> 0]
    /\ opener = [p \in Openers |-> NotOpen]
    /\ lines = <<>> /\ overwritten = FALSE
    \* nothing, or the lock of a process that died
    /\ \/ lockPath = 0 /\ lockFiles = <<>>
       \/ lockPath = 1 /\ lockFiles = <<[owner |-> "gone", gen |-> 1, filled |-> TRUE, fresh |-> FALSE]>>

Alive(p) == p \in Openers /\ opener[p].pc # "dead"
At(p, pc) == opener[p].pc = pc
Goes(p, o) == opener' = [opener EXCEPT ![p] = o]

-----------------------------------------------------------------------------
(* Opening *)

\* The file the name points at; none means nothing to read or to move.
StatLock(p) ==
    /\ At(p, "idle") /\ opens[p] < MaxOpens
    /\ opens' = [opens EXCEPT ![p] = @ + 1]
    /\ Goes(p, IF lockPath = 0 THEN [NotOpen EXCEPT !.pc = "create", !.gen = 1]
               ELSE [NotOpen EXCEPT !.pc = "read", !.ino = lockPath])
    /\ UNCHANGED <<lockPath, lockFiles, lines, overwritten>>

\* A file that cannot be read counts as no lock.
ReadLock(p) ==
    /\ At(p, "read")
    /\ LET readable == lockPath # 0 /\ lockFiles[lockPath].filled
           prior == IF readable THEN lockFiles[lockPath] ELSE NoPrior
       IN Goes(p, IF readable /\ Alive(prior.owner) /\ prior.fresh THEN NotOpen
                  ELSE [opener[p] EXCEPT !.pc = "move", !.gen = prior.gen + 1])
    /\ UNCHANGED <<lockPath, lockFiles, opens, lines, overwritten>>

MoveAside(p) ==
    /\ At(p, "move")
    /\ Goes(p, [opener[p] EXCEPT !.pc = "moved", !.aside = lockPath])
    /\ lockPath' = 0
    /\ UNCHANGED <<lockFiles, opens, lines, overwritten>>

\* Another file than the one inspected is put back, over whatever is there:
\* if a successor's was made meanwhile, its store and this one both go on.
CheckMoved(p) ==
    /\ At(p, "moved")
    /\ Goes(p, IF opener[p].aside \in {0, opener[p].ino}
               THEN [opener[p] EXCEPT !.pc = "create", !.ino = 0, !.aside = 0]
               ELSE [opener[p] EXCEPT !.pc = "putBack"])
    /\ UNCHANGED <<lockPath, lockFiles, opens, lines, overwritten>>
PutBack(p) ==
    /\ At(p, "putBack")
    /\ lockPath' = opener[p].aside
    /\ overwritten' = (overwritten \/ Len(lockFiles) > opener[p].aside)
    /\ Goes(p, NotOpen)
    /\ UNCHANGED <<lockFiles, opens, lines>>

createLockFile(p) ==
    /\ At(p, "create")
    /\ IF lockPath # 0 THEN Goes(p, NotOpen) /\ UNCHANGED <<lockPath, lockFiles>>
       ELSE /\ lockFiles' = Append(lockFiles, [owner |-> p, gen |-> opener[p].gen, filled |-> FALSE, fresh |-> TRUE])
            /\ lockPath' = Len(lockFiles')
            /\ Goes(p, [opener[p] EXCEPT !.pc = "fill", !.fd = Len(lockFiles')])
    /\ UNCHANGED <<opens, lines, overwritten>>

Fill(p, pc) ==
    /\ lockFiles' = [lockFiles EXCEPT ![opener[p].fd].filled = TRUE, ![opener[p].fd].fresh = TRUE]
    /\ Goes(p, [opener[p] EXCEPT !.pc = pc])
    /\ UNCHANGED <<lockPath, opens, lines, overwritten>>
FillLock(p) == At(p, "fill") /\ Fill(p, "replay")

\* The store reads the journal once it has the lock.
Replay(p) ==
    /\ At(p, "replay")
    /\ Goes(p, [opener[p] EXCEPT !.pc = "open", !.seq = Len(lines)])
    /\ UNCHANGED <<lockPath, lockFiles, opens, lines, overwritten>>

-----------------------------------------------------------------------------
(* Holding *)

\* Mutant: any lock at the name will do.
stillOwnedByName(p) == lockPath # 0

stillOwned(p) ==
    /\ lockPath # 0 /\ lockPath = opener[p].fd
    /\ lockFiles[lockPath].filled
    /\ lockFiles[lockPath].owner = p /\ lockFiles[lockPath].gen = opener[p].gen

Closed(p) == Goes(p, [NotOpen EXCEPT !.pc = "closed"])

commit(p) ==
    /\ At(p, "open") /\ Len(lines) < MaxLines
    /\ IF stillOwned(p)
       THEN /\ lines' = Append(lines, opener[p].seq + 1)
            /\ Goes(p, [opener[p] EXCEPT !.seq = @ + 1])
       ELSE Closed(p) /\ UNCHANGED lines
    /\ UNCHANGED <<lockPath, lockFiles, opens, overwritten>>

refresh(p) ==
    /\ At(p, "open")
    /\ IF stillOwned(p)
       THEN /\ lockFiles' = [lockFiles EXCEPT ![opener[p].fd].filled = FALSE]
            /\ Goes(p, [opener[p] EXCEPT !.pc = "beat"])
       ELSE Closed(p) /\ UNCHANGED lockFiles
    /\ UNCHANGED <<lockPath, opens, lines, overwritten>>
Beat(p) == At(p, "beat") /\ Fill(p, "open")

stop(p) ==
    /\ At(p, "open")
    /\ lockPath' = IF stillOwned(p) THEN 0 ELSE lockPath
    /\ Closed(p)
    /\ UNCHANGED <<lockFiles, opens, lines, overwritten>>

\* A heartbeat is late: the process was held up, or is gone. One lock at most
\* has lapsed (bound).
Lapses ==
    /\ lockPath # 0 /\ \A i \in 1..Len(lockFiles) : lockFiles[i].fresh
    /\ lockFiles' = [lockFiles EXCEPT ![lockPath].fresh = FALSE]
    /\ UNCHANGED <<lockPath, opener, opens, lines, overwritten>>
Dies(p) ==
    /\ opener[p].pc \notin {"idle", "closed", "dead"}
    /\ Goes(p, [NotOpen EXCEPT !.pc = "dead"])
    /\ UNCHANGED <<lockPath, lockFiles, opens, lines, overwritten>>

LockNext ==
    \/ Lapses
    \/ \E p \in Openers :
          \/ StatLock(p) \/ ReadLock(p) \/ MoveAside(p) \/ CheckMoved(p) \/ PutBack(p) \/ createLockFile(p)
          \/ FillLock(p) \/ Replay(p) \/ commit(p) \/ refresh(p) \/ Beat(p) \/ stop(p) \/ Dies(p)

LockSpec == LockInit /\ [][LockNext]_lockVars

-----------------------------------------------------------------------------
(* Properties *)

\* Whoever holds the lock has read every line before it writes one: no two
\* stores give a line the same seq, whatever is moved aside, unless a lock was
\* put back over a successor's ("Move aside only the inspected lock", open,
\* stillOwned).
OneWriter == overwritten \/ \A i \in 1..Len(lines) : lines[i] = i
=============================================================================
