--------------------------- MODULE ThreadLifecycle ---------------------------
(* One thread of a Codex App Server as its client keeps it                   *)
(* (codexThreadLifecycle.ts): every request about it goes through one queue, *)
(* a terminal that comes while a start has no id yet is buffered, a turn's   *)
(* terminal is published before the thread is parked, and a park that is     *)
(* refused is tried again later. The server is external: what it does        *)
(* between a request and its answer is a step of its own. Closing the client *)
(* and the bounded memory of retired threads are left out.                   *)
EXTENDS Integers, Sequences, FiniteSets

CONSTANTS
    ThreadTurns,    \* turns of the thread, numbered from 1
    ParkAttempts,   \* PARK_ATTEMPTS
    MaxThreadOps,   \* bound: operations asked for
    MaxServerFaults \* bound: refusals without a cause, timeouts, unreadable reads

ASSUME ThreadAssumption == ThreadTurns \in Nat

VARIABLES
    thread,         \* the record
    job,            \* the operation that has the queue, and the request it awaits
    queued,         \* operations behind it
    server,         \* where the thread is, its turns
    notices,        \* turns whose terminal is on its way
    handed,         \* turns whose id a start or a read gave to the client
    told,           \* turn -> terminals published
    threadOps, serverFaults

threadVars == <<thread, job, queued, server, notices, handed, told, threadOps, serverFaults>>

ThreadTurnIds == 1..ThreadTurns
NoRetry == -1
Queue(op, t) == [op |-> op, turn |-> t]
Working(q) == [op |-> q.op, turn |-> q.turn, awaits |-> "none", started |-> 0, rest |-> {}]
NoWork == Working(Queue("none", 0))

ThreadInit ==
    /\ thread = [phase |-> "unloaded", turn |-> 0, epoch |-> 0, parkEpoch |-> 0, pendingStart |-> FALSE,
                 buffered |-> {}, published |-> {}, parkAttempts |-> 0, retry |-> NoRetry]
    /\ job = NoWork /\ queued = <<>>
    \* a new thread, or one an earlier client left: parked, or with a turn that runs
    /\ \E at \in {"loaded", "archived"}, first \in {"none", "running", "past"} :
          /\ at = "archived" => first = "past"
          /\ server = [at |-> at, turns |-> [t \in ThreadTurnIds |-> IF t = 1 THEN first ELSE "none"]]
    /\ notices = {} /\ handed = {} /\ told = [t \in ThreadTurnIds |-> 0]
    /\ threadOps = 0 /\ serverFaults = 0

-----------------------------------------------------------------------------
(* The server *)

RunningTurns == {t \in ThreadTurnIds : server.turns[t] = "running"}
KnownTurns == {t \in ThreadTurnIds : server.turns[t] # "none"}
NewTurn(t) == t = Cardinality(KnownTurns) + 1 /\ t \in ThreadTurnIds

\* What a read of the thread tells.
inspectRead ==
    IF KnownTurns = {} THEN [known |-> "empty", turn |-> 0]
    ELSE IF RunningTurns # {} THEN [known |-> "running", turn |-> CHOOSE t \in RunningTurns : TRUE]
    ELSE [known |-> "settled", turn |-> Cardinality(KnownTurns)]

\* A reply that cannot be made out tells nothing.
Unclear == [known |-> "unknown", turn |-> 0]
Readings == {inspectRead, Unclear}
Told(seen) ==
    IF seen # Unclear THEN UNCHANGED serverFaults
    ELSE serverFaults < MaxServerFaults /\ serverFaults' = serverFaults + 1

\* A turn is started before the request is answered.
ServerStarts ==
    /\ job.awaits = "turn/start" /\ job.started = 0 /\ RunningTurns = {} /\ server.at = "loaded"
    /\ \E t \in ThreadTurnIds :
          /\ NewTurn(t)
          /\ server' = [server EXCEPT !.turns[t] = "running"]
          /\ job' = [job EXCEPT !.started = t]
    /\ UNCHANGED <<thread, queued, notices, handed, told, threadOps, serverFaults>>

ServerEnds ==
    \E t \in RunningTurns :
        /\ server' = [server EXCEPT !.turns[t] = "ended"]
        /\ notices' = notices \cup {t}
        /\ UNCHANGED <<thread, job, queued, handed, told, threadOps, serverFaults>>

-----------------------------------------------------------------------------
(* Operations come in *)

\* Outside the queue while a start has no id.
settleTurn(t) ==
    IF thread.pendingStart
    THEN thread' = [thread EXCEPT !.buffered = @ \cup {t}] /\ UNCHANGED queued
    ELSE queued' = Append(queued, Queue("settle", t)) /\ UNCHANGED thread

Noticed ==
    \E t \in notices :
        /\ settleTurn(t)
        /\ notices' = notices \ {t}
        /\ UNCHANGED <<job, server, handed, told, threadOps, serverFaults>>

Asked == threadOps < MaxThreadOps /\ threadOps' = threadOps + 1
         /\ UNCHANGED <<job, server, notices, handed, told, serverFaults>>

\* A second observer of a turn's end: a read for a reconciliation or a deadline.
SettleAgain == \E t \in ThreadTurnIds : server.turns[t] \in {"ended", "past"} /\ settleTurn(t) /\ Asked

Ask == \E op \in {"activate", "start", "adopt", "adoptOrDispose"} :
          queued' = Append(queued, Queue(op, 0)) /\ UNCHANGED thread /\ Asked

RetryFires ==
    /\ thread.retry # NoRetry
    /\ queued' = Append(queued, Queue("park", thread.retry))
    /\ thread' = [thread EXCEPT !.retry = NoRetry]
    /\ UNCHANGED <<job, server, notices, handed, told, threadOps, serverFaults>>

-----------------------------------------------------------------------------
(* Steps of an operation. Each makes of x, the record with the operation and *)
(* what was handed out and reported, the next one.                           *)

X == [th |-> thread, job |-> job, handed |-> handed, told |-> told]
Do(x) == /\ thread' = x.th /\ job' = x.job /\ handed' = x.handed /\ told' = x.told
         /\ UNCHANGED <<notices, threadOps>>

Await(x, method) == [x EXCEPT !.job.awaits = method]
Done(x) == [x EXCEPT !.job = NoWork]
\* No request is open: what it holds comes next (Continue).
GoOn(x) == Await(x, "none")
GivenUp(x) == x.th.phase \in {"disposed", "poisoned"}

publishOnce(x, t) ==
    IF t \in x.th.published THEN x
    ELSE [x EXCEPT !.th.published = @ \cup {t}, !.told[t] = @ + 1]

\* Publish, then park when the turn is the thread's own or the thread had none.
accept(x, t) ==
    LET seen == publishOnce(x, t)
        own == x.th.phase = "active" /\ x.th.turn = t
    IN IF own \/ x.th.phase \in {"idle", "unloaded"}
       THEN Await([seen EXCEPT !.th.phase = "parking", !.th.parkEpoch = x.th.epoch], "thread/archive")
       ELSE GoOn(seen)

drain(x) == GoOn([x EXCEPT !.th.buffered = {}, !.job.rest = @ \cup x.th.buffered])

park(x, e) ==
    IF x.th.phase # "parking" \/ x.th.parkEpoch # e THEN Done(x) ELSE Await(x, "thread/archive")

poison(x) == [x EXCEPT !.th.phase = "poisoned", !.th.retry = NoRetry]

\* A park that did not happen is tried again, until it gives up on the generation.
ParkFailed(x) ==
    LET tried == [x EXCEPT !.th.parkAttempts = @ + 1] IN
    GoOn(IF tried.th.parkAttempts >= ParkAttempts THEN poison(tried)
           ELSE [tried EXCEPT !.th.retry = tried.th.parkEpoch])

\* What an operation does once the thread is loaded.
AfterLoad(x) ==
    CASE x.job.op = "start" -> Await([x EXCEPT !.th.pendingStart = TRUE], "turn/start")
      [] x.job.op = "adopt" -> Await(x, "read")
      [] OTHER -> Done(x)

Loaded(x) == AfterLoad([x EXCEPT !.th.epoch = @ + 1, !.th.phase = "idle"])

load(x) ==
    CASE x.th.phase \in {"idle", "active"} -> AfterLoad(x)
      [] x.th.phase = "parking" -> Loaded([x EXCEPT !.th.retry = NoRetry])
      [] OTHER -> Await([x EXCEPT !.th.retry = NoRetry], "thread/resume")

Activate(x, t) == [x EXCEPT !.th.epoch = @ + 1, !.th.phase = "active", !.th.turn = t, !.handed = @ \cup {t}]

take(x, seen) ==
    CASE seen.known = "running" -> Activate([x EXCEPT !.th.retry = NoRetry], seen.turn)
      [] seen.known = "settled" /\ x.th.phase = "active" -> [x EXCEPT !.th.phase = "idle"]
      [] OTHER -> x

-----------------------------------------------------------------------------
(* The queue *)

run ==
    /\ job = NoWork /\ queued # <<>>
    /\ queued' = Tail(queued)
    /\ LET q == Head(queued)
           x == [X EXCEPT !.job = Working(q)]
       IN \/ q.op = "settle" /\ Do([x EXCEPT !.job.rest = {q.turn}])
          \/ q.op = "park" /\ Do(park(x, q.turn))
          \/ q.op \notin {"settle", "park"} /\ GivenUp(x) /\ Do(Done(x))
          \/ q.op = "adoptOrDispose" /\ ~GivenUp(x) /\ Do(Await(x, "read"))
          \/ q.op \in {"activate", "start", "adopt"} /\ ~GivenUp(x) /\ Do(load(x))
    /\ UNCHANGED <<server, serverFaults>>

\* The next terminal it holds, in any order, or the end of the operation.
Continue ==
    /\ job # NoWork /\ job.awaits = "none"
    /\ \/ job.rest = {} /\ Do(Done(X))
       \/ \E t \in job.rest : Do(accept([X EXCEPT !.job.rest = @ \ {t}], t))
    /\ UNCHANGED <<queued, server, serverFaults>>

Replied(method) == job.awaits = method /\ UNCHANGED <<queued, serverFaults>>
\* A request the server refuses: for a cause, or for none that the client knows.
Refused(method, cause) ==
    /\ job.awaits = method /\ UNCHANGED <<queued, server>>
    /\ IF cause THEN UNCHANGED serverFaults
       ELSE serverFaults < MaxServerFaults /\ serverFaults' = serverFaults + 1

Resumed ==
    /\ Replied("thread/resume") \/ Replied("resumeAgain")
    /\ server.at = "loaded"
    /\ Do(Loaded(X)) /\ UNCHANGED server
ResumeRefused ==
    \/ Refused("thread/resume", server.at # "loaded") /\ Do(Await(X, "thread/unarchive"))
    \/ Refused("resumeAgain", server.at # "loaded") /\ Do(Done(X))
Unarchived ==
    /\ Replied("thread/unarchive") /\ server.at = "archived"
    /\ server' = [server EXCEPT !.at = "loaded"]
    /\ Do(Await(X, "resumeAgain"))
UnarchiveRefused ==
    /\ Refused("thread/unarchive", server.at # "archived")
    /\ Do(Done(X))

TurnStarted ==
    /\ Replied("turn/start") /\ job.started # 0
    /\ Do(drain(Activate([X EXCEPT !.th.pendingStart = FALSE, !.th.parkAttempts = 0], job.started)))
    /\ UNCHANGED server
\* Mutant: the terminals a failed start held stay where they are.
TurnRefusedHolds ==
    /\ Refused("turn/start", RunningTurns # {} \/ server.at # "loaded") /\ job.started = 0
    /\ Do(Done([X EXCEPT !.th.pendingStart = FALSE]))

TurnRefused ==
    /\ Refused("turn/start", RunningTurns # {} \/ server.at # "loaded") /\ job.started = 0
    /\ Do(drain([X EXCEPT !.th.pendingStart = FALSE]))

Archived ==
    /\ Replied("thread/archive") /\ server.at = "loaded" /\ RunningTurns = {} /\ KnownTurns # {}
    /\ server' = [server EXCEPT !.at = "archived"]
    /\ Do(GoOn([X EXCEPT !.th.phase = "parked", !.th.parkAttempts = 0]))
ArchiveRefused ==
    /\ Refused("thread/archive", server.at # "loaded" \/ RunningTurns # {} \/ KnownTurns = {})
    /\ Do(Await(X, "inspect"))

\* The read after a refused archive, and the one that confirms it after a pause.
Inspected ==
    /\ job.awaits \in {"inspect", "inspectAgain"} /\ UNCHANGED <<queued, server>>
    /\ \E seen \in Readings :
        /\ Told(seen)
        /\ Do(CASE seen.known = "running" /\ job.awaits = "inspect" ->
                       GoOn(Activate(X, seen.turn))
                 [] seen.known = "empty" ->
                       Await(X, IF job.awaits = "inspect" THEN "inspectAgain" ELSE "thread/delete")
                 [] OTHER -> ParkFailed(X))

Deleted ==
    /\ Replied("thread/delete")
    /\ server' = [server EXCEPT !.at = "deleted"]
    /\ Do(GoOn([X EXCEPT !.th.phase = "disposed"]))
DeleteRefused ==
    /\ Refused("thread/delete", server.at = "deleted")
    /\ Do(IF job.op = "adoptOrDispose" THEN Done(X) ELSE ParkFailed(X))

\* The read of adopt and adoptOrDispose, then the second one of the latter.
Read ==
    /\ job.awaits = "read" /\ UNCHANGED <<queued, server>>
    /\ \E seen \in Readings :
        LET x == take(X, seen)
        IN /\ Told(seen)
           /\ Do(IF job.op = "adoptOrDispose" /\ seen.known = "settled"
              THEN GoOn([x EXCEPT !.job.rest = {seen.turn}])
              ELSE IF job.op = "adoptOrDispose" /\ seen.known = "empty" THEN Await(x, "readAgain")
              ELSE Done(x))
ReadAgain ==
    /\ job.awaits = "readAgain" /\ UNCHANGED <<queued, server>>
    /\ \E seen \in Readings :
        Told(seen) /\ Do(IF seen.known = "empty" THEN Await(X, "thread/delete") ELSE Done(X))

\* No answer, or one that cannot be read: the generation is given up. A start
\* publishes what it held; the operation fails.
TimesOut ==
    /\ job.awaits # "none" /\ serverFaults < MaxServerFaults
    /\ serverFaults' = serverFaults + 1
    /\ Do(IF job.awaits = "turn/start" THEN drain([poison(X) EXCEPT !.th.pendingStart = FALSE])
          ELSE Done(poison(X)))
    /\ UNCHANGED <<queued, server>>

ThreadNext ==
    \/ ServerStarts \/ ServerEnds \/ Noticed \/ SettleAgain \/ Ask \/ RetryFires \/ run \/ Continue
    \/ Resumed \/ ResumeRefused \/ Unarchived \/ UnarchiveRefused \/ TurnStarted \/ TurnRefused
    \/ Archived \/ ArchiveRefused \/ Inspected \/ Deleted \/ DeleteRefused \/ Read \/ ReadAgain \/ TimesOut

ThreadSpec == ThreadInit /\ [][ThreadNext]_threadVars

-----------------------------------------------------------------------------
(* Properties *)

\* The terminal of a turn is published once, however many observers report it
\* and whichever of them come while a start is open (accept, settleTurn).
ReportedOnce == \A t \in ThreadTurnIds : told[t] <= 1

\* When nothing is on its way every turn whose end was noticed is published:
\* a terminal held for a start is not forgotten when the start fails, nor when
\* a park before it is refused (drain, accept). A generation that was given up
\* is excepted: an archive that times out ends drain before its later terminals.
NoneStranded ==
    job = NoWork /\ queued = <<>> /\ notices = {} /\ thread.phase # "poisoned" =>
        /\ thread.buffered = {}
        /\ \A t \in ThreadTurnIds : server.turns[t] = "ended" => told[t] = 1

\* A thread is archived or deleted only when no turn of the client's runs on
\* it: a park that was put off does not reach a thread that has been started
\* again (park's epoch, load).
ParkedQuiet ==
    job.awaits = "thread/archive" \/ thread.phase \in {"parked", "disposed"} =>
        \A t \in handed : server.turns[t] # "running"

\* The end of a turn is told, once, and a thread is put away only when no turn of
\* its client runs (codexThreadLifecycle.ts).
TurnsReported == ReportedOnce /\ NoneStranded /\ ParkedQuiet
=============================================================================
