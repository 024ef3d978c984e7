------------------------------ MODULE Presence ------------------------------
(***************************************************************************)
(* The presence of a gateway's sessions as its Router shows it. The        *)
(* reporter (presenceReporter.ts, presenceProtocol.ts) sends a baseline    *)
(* after each registration and then numbered deltas, one frame at a time,  *)
(* debounced and retried; the Router applies them to stored rows           *)
(* (presenceService.ts), one store write at a time, any of which may be    *)
(* refused, and marks the rows of a dropped gateway unreachable            *)
(* (gatewayBridge.ts). A connection that was replaced stays registered     *)
(* until it is closed, and what it sent is still taken. A baseline is      *)
(* never refused for its incarnation (the bridge refuses the whole call    *)
(* before), so the parked state of the protocol does not occur.            *)
(***************************************************************************)
EXTENDS Naturals

CONSTANTS
    Teams,
    RowValues,          \* contents of a row; 0 is no row
    SpawnValues,
    MaxIncarnation,     \* bound: registrations
    MaxChanges          \* bound: changes of rows and spawn points

ASSUME PresenceAssumption == SpawnValues # {} /\ MaxChanges \in Nat

VARIABLES
    rows, spawns,               \* what the gateway shows
    inc,                        \* its incarnation, 0 without a connection
    sync,                       \* [at, seq, sent]
    superseded,                 \* sync was replaced while a frame was out
    dirty, deadline, timer,
    sentSpawns,
    pumpAt,                     \* idle, run (nothing comes between) or wait
    frame,                      \* the frame that is out, with its answer
    late,                       \* frames the gateway gave up with their connection
    changes,
    rowsAt, gatewayAt, freshAt, \* the Router's rows, gateway record, freshness
    minted,                     \* the Router's counter of registrations
    unclosed,                   \* incarnations whose connection it has not seen closed
    unsure                      \* history: teams whose row was changed without the gateway's record
                                \* of it: a delete refused, a frame half taken, a session forgotten

reporterVars == <<sync, superseded, dirty, deadline, timer, sentSpawns, pumpAt>>
gatewayVars == <<rows, spawns, inc, changes>>
routerVars == <<rowsAt, gatewayAt, freshAt, minted, unclosed, unsure>>
presenceVars == <<reporterVars, gatewayVars, routerVars, frame, late>>

Rows == [Teams -> RowValues \cup {0}]
NoFrame == [kind |-> "none"]
NoSeq == MaxChanges + 9     \* a gateway record without a sequence number
needsBaseline == [at |-> "needsBaseline", seq |-> 0, sent |-> rows]

\* pump() is called: it starts unless it is at work.
Pumped == pumpAt' = IF pumpAt = "idle" THEN "run" ELSE pumpAt
Deadline(d) == deadline' = d /\ timer' = (d # "none")

-----------------------------------------------------------------------------
(* The reporter *)

markDirty ==
    /\ dirty' = TRUE
    /\ IF deadline = "none" THEN Deadline("future") ELSE UNCHANGED <<deadline, timer>>
    /\ Pumped
    /\ UNCHANGED <<sync, superseded, sentSpawns>>

\* baseline() and resync()
startOver ==
    /\ sync' = needsBaseline
    /\ superseded' = TRUE
    /\ Deadline("past")
    /\ Pumped
    /\ UNCHANGED <<dirty, sentSpawns>>

RowChanges(t, v) ==
    /\ pumpAt # "run" /\ changes < MaxChanges /\ rows[t] # v
    /\ rows' = [rows EXCEPT ![t] = v]
    /\ changes' = changes + 1
    /\ markDirty
    /\ UNCHANGED <<spawns, inc, routerVars, frame, late>>

SpawnsChange(v) ==
    /\ pumpAt # "run" /\ changes < MaxChanges /\ spawns # v
    /\ spawns' = v
    /\ changes' = changes + 1
    /\ markDirty
    /\ UNCHANGED <<rows, inc, routerVars, frame, late>>

TimerFires ==
    /\ timer /\ pumpAt # "run"
    /\ timer' = FALSE /\ deadline' = "past"
    /\ Pumped
    /\ UNCHANGED <<sync, superseded, dirty, sentSpawns, gatewayVars, routerVars, frame, late>>

Changed(s) == {t \in Teams : s.sent[t] # rows[t]}

nextFrame(s) ==
    IF s.at = "needsBaseline"
    THEN [kind |-> "baseline", inc |-> inc, seq |-> 0, rows |-> rows, spawns |-> spawns, answer |-> "out"]
    ELSE [kind |-> "delta", inc |-> inc, seq |-> s.seq + 1, rows |-> rows, spawns |-> spawns,
          changed |-> Changed(s), answer |-> "out"]

pumpTurn ==
    LET s == IF sync.at = "streaming" /\ sentSpawns # spawns THEN needsBaseline ELSE sync
    IN /\ pumpAt = "run"
       /\ \/ /\ inc = 0 \/ deadline = "future"
             /\ pumpAt' = "idle"
             /\ UNCHANGED <<sync, superseded, dirty, deadline, timer, frame>>
          \/ /\ inc # 0 /\ deadline # "future"
             /\ s.at = "streaming" /\ (~dirty \/ Changed(s) = {})
             /\ pumpAt' = "idle"
             /\ UNCHANGED <<sync, superseded, dirty, deadline, timer, frame>>
          \/ /\ inc # 0 /\ deadline # "future"
             /\ s.at = "needsBaseline" \/ (dirty /\ Changed(s) # {})
             /\ frame' = nextFrame(s)
             /\ dirty' = (dirty /\ s.at = "needsBaseline")
             /\ sync' = s /\ superseded' = FALSE
             /\ Deadline("none")
             /\ pumpAt' = "wait"
       /\ UNCHANGED <<sentSpawns, gatewayVars, routerVars, late>>

\* Mutant: the rows of the moment are taken for sent.
landedRereads == [at |-> "streaming", seq |-> frame.seq, sent |-> rows]

landed == [at |-> "streaming", seq |-> frame.seq, sent |-> frame.rows]

retry == dirty' = TRUE /\ Deadline("future")

applyAnswer ==
    /\ pumpAt = "wait" /\ frame.answer # "out"
    /\ frame' = NoFrame
    /\ \/ /\ superseded
          /\ IF sync.at = "needsBaseline" THEN Deadline("past") ELSE UNCHANGED <<deadline, timer>>
          /\ pumpAt' = "run"
          /\ UNCHANGED <<sync, superseded, dirty, sentSpawns>>
       \/ /\ ~superseded /\ frame.answer = "ok"
          /\ sync' = landed
          /\ sentSpawns' = IF frame.kind = "baseline" THEN frame.spawns ELSE sentSpawns
          /\ Deadline("none")
          /\ pumpAt' = "run"
          /\ UNCHANGED <<superseded, dirty>>
       \/ /\ ~superseded /\ frame.answer = "failed"
          /\ retry
          /\ pumpAt' = "idle"
          /\ UNCHANGED <<sync, superseded, sentSpawns>>
       \/ /\ ~superseded /\ frame.answer = "resync"
          /\ sync' = needsBaseline
          /\ Deadline("past")
          /\ pumpAt' = "run"
          /\ UNCHANGED <<superseded, dirty, sentSpawns>>
    /\ UNCHANGED <<gatewayVars, routerVars, late>>

-----------------------------------------------------------------------------
(* The Router *)

\* A frame's rows: a baseline deletes every stored row first, a delta its tombstones.
Covered(f) == IF f.kind = "baseline" THEN Teams ELSE f.changed
Puts(f) == {t \in Covered(f) : f.rows[t] # 0}
Dels(f) == {t \in Covered(f) : f.kind = "baseline" \/ f.rows[t] = 0}
RowsStored(f, del, put) ==
    [t \in Teams |-> IF t \in put THEN f.rows[t] ELSE IF t \in del THEN 0 ELSE rowsAt[t]]

\* Every row is put and the record written; nobody looks at what became of the deletes.
Taken(f) ==
    /\ \E del \in SUBSET Dels(f) : rowsAt' = RowsStored(f, del, Puts(f))
    /\ gatewayAt' = [inc |-> f.inc, seq |-> f.seq,
                     spawns |-> IF f.kind = "baseline" THEN f.spawns ELSE gatewayAt.spawns]
    /\ freshAt' = (freshAt \/ f.kind = "baseline")
    /\ unsure' = {t \in Teams : IF t \in Covered(f) THEN rowsAt'[t] # f.rows[t] ELSE t \in unsure}

\* The store refuses a row, or the record after them.
TakenInPart(f) ==
    /\ \E del \in SUBSET Dels(f), put \in SUBSET Puts(f) : rowsAt' = RowsStored(f, del, put)
    /\ unsure' = unsure \cup {t \in Teams : rowsAt'[t] # rowsAt[t]}
    /\ UNCHANGED <<gatewayAt, freshAt>>

\* Deltas require a baseline of their incarnation, and follow one another.
applies(f) == f.kind = "baseline" \/ (gatewayAt.inc = f.inc /\ f.seq = gatewayAt.seq + 1)

\* A frame that was applied is answered with an error when the projection
\* throws after it.
RouterTakes ==
    /\ frame # NoFrame /\ frame.answer = "out" /\ pumpAt # "run"
    /\ \/ /\ applies(frame)
          /\ Taken(frame)
          /\ \E a \in {"ok", "failed"} : frame' = [frame EXCEPT !.answer = a]
          /\ UNCHANGED reporterVars
       \/ /\ applies(frame)
          /\ TakenInPart(frame)
          /\ frame' = [frame EXCEPT !.answer = "failed"]
          /\ UNCHANGED reporterVars
       \/ /\ ~applies(frame)
          /\ frame' = [frame EXCEPT !.answer = "resync"]
          /\ startOver     \* the presence_resync frame comes before the answer
          /\ UNCHANGED <<rowsAt, gatewayAt, freshAt, unsure>>
       \/ /\ ~applies(frame)
          /\ frame' = [frame EXCEPT !.answer = "resync"]
          /\ UNCHANGED <<rowsAt, gatewayAt, freshAt, unsure, reporterVars>>
    /\ UNCHANGED <<gatewayVars, minted, unclosed, late>>

\* A frame given up is taken as any other while its own connection is not closed.
\* The presence_resync it causes goes to the gateway's connection of the day.
LateFrameTaken ==
    /\ pumpAt # "run"
    /\ \E f \in late :
          /\ late' = late \ {f}
          /\ \/ applies(f) /\ (Taken(f) \/ TakenInPart(f)) /\ UNCHANGED reporterVars
             \/ /\ ~applies(f)
                /\ (inc # 0 /\ startOver) \/ UNCHANGED reporterVars
                /\ UNCHANGED <<rowsAt, gatewayAt, freshAt, unsure>>
    /\ UNCHANGED <<gatewayVars, minted, unclosed, frame>>

\* session_forget of a gateway, over any of its connections, drops the row of the
\* session too, whatever the reporter has sent.
RouterForgets(t) ==
    /\ pumpAt # "run" /\ unclosed # {} /\ rowsAt[t] # 0
    /\ rowsAt' = [rowsAt EXCEPT ![t] = 0]
    /\ unsure' = unsure \cup {t}
    /\ UNCHANGED <<reporterVars, gatewayVars, gatewayAt, freshAt, minted, unclosed, frame, late>>

-----------------------------------------------------------------------------
(* Connections *)

\* The gateway's record follows, unless the store refuses it.
Registers ==
    /\ inc = 0 /\ pumpAt # "run" /\ minted < MaxIncarnation
    /\ minted' = minted + 1 /\ inc' = minted + 1
    /\ unclosed' = unclosed \cup {minted + 1}
    /\ gatewayAt' \in {gatewayAt, [inc |-> minted + 1, seq |-> NoSeq, spawns |-> gatewayAt.spawns]}
    /\ startOver
    /\ UNCHANGED <<rows, spawns, changes, rowsAt, freshAt, unsure, frame, late>>

\* The gateway loses its connection: what it waits for fails.
Disconnect ==
    /\ inc # 0 /\ pumpAt # "run"
    /\ inc' = 0
    /\ frame' = IF frame = NoFrame THEN frame ELSE [frame EXCEPT !.answer = "failed"]
    /\ late' = IF frame # NoFrame /\ frame.answer = "out" THEN late \cup {frame} ELSE late
    /\ UNCHANGED <<rows, spawns, changes, reporterVars, routerVars>>

\* Row by row, each of which may be refused.
markUnreachable == freshAt' \in {freshAt, FALSE}

Closes(i) == unclosed' = unclosed \ {i} /\ late' = {f \in late : f.inc # i}

RouterSeesDrop ==
    /\ inc = 0 /\ minted \in unclosed /\ pumpAt # "run"
    /\ Closes(minted)
    /\ markUnreachable
    /\ UNCHANGED <<reporterVars, gatewayVars, rowsAt, gatewayAt, unsure, minted, frame>>

\* The close of a replaced connection: nobody is told.
dropConnection(i) == Closes(i) /\ UNCHANGED freshAt

OldConnectionDrops ==
    /\ pumpAt # "run"
    /\ \E i \in unclosed \ {minted} : dropConnection(i)
    /\ UNCHANGED <<reporterVars, gatewayVars, rowsAt, gatewayAt, unsure, minted, frame>>

RouterRestarts ==
    /\ inc # 0 /\ pumpAt # "run"
    /\ inc' = 0
    /\ frame' = IF frame = NoFrame THEN frame ELSE [frame EXCEPT !.answer = "failed"]
    /\ unclosed' = {} /\ late' = {}
    /\ markUnreachable
    /\ UNCHANGED <<rows, spawns, changes, reporterVars, rowsAt, gatewayAt, unsure, minted>>

PresenceInit ==
    /\ rows = [t \in Teams |-> 0] /\ spawns = (CHOOSE v \in SpawnValues : TRUE)
    /\ inc = 0 /\ changes = 0
    /\ sync = needsBaseline /\ superseded = FALSE
    /\ dirty = FALSE /\ deadline = "none" /\ timer = FALSE /\ sentSpawns = 0
    /\ pumpAt = "idle" /\ frame = NoFrame /\ late = {}
    /\ rowsAt = rows /\ gatewayAt = [inc |-> 0, seq |-> NoSeq, spawns |-> 0] /\ freshAt = TRUE
    /\ minted = 0 /\ unclosed = {} /\ unsure = {}

PresenceNext ==
    \/ \E t \in Teams : RouterForgets(t) \/ \E v \in RowValues \cup {0} : RowChanges(t, v)
    \/ \E v \in SpawnValues : SpawnsChange(v)
    \/ TimerFires \/ pumpTurn \/ applyAnswer
    \/ RouterTakes \/ LateFrameTaken
    \/ Registers \/ Disconnect \/ RouterSeesDrop \/ OldConnectionDrops \/ RouterRestarts

PresenceSpec == PresenceInit /\ [][PresenceNext]_presenceVars

-----------------------------------------------------------------------------
(* Properties *)

AtRest == inc # 0 /\ pumpAt = "idle" /\ ~timer

\* With nothing to send and no timer, the Router shows the gateway's rows and
\* spawn points, or its record is of another incarnation or number and the next
\* delta will bring a baseline (presenceReporter.ts pumpAt, presenceService.ts
\* applyDelta). The exception are the rows of the history unsure: a delete the
\* store refused, a row that changed back after half a frame was taken, or one
\* dropped with its session are not sent again before a frame is about them.
RouterAgrees ==
    AtRest => \/ /\ \A t \in Teams : rowsAt[t] = rows[t] \/ t \in unsure
                 /\ gatewayAt.spawns = spawns
              \/ gatewayAt.inc # inc \/ gatewayAt.seq # sync.seq

\* What the Router has not been sent is on its way or has a timer.
NoLostWake ==
    inc # 0 /\ pumpAt = "idle" /\ ~timer =>
        sync.at = "streaming" /\ sync.sent = rows /\ sentSpawns = spawns

\* The rows of a gateway that is connected and at rest are not shown as
\* unreachable, however late the close of its former connection is seen, but for
\* rows whose delete was refused.
FreshWhenLive == AtRest => freshAt

\* A reporter that rests has brought the Router up to date, over reconnections, lost
\* answers and restarts (presenceReporter.ts, presenceService.ts).
RouterKeepsUp == RouterAgrees /\ NoLostWake /\ FreshWhenLive
=============================================================================
