---------------------------- MODULE ConsoleInbox ----------------------------
(***************************************************************************)
(* The owner inbox and the consoles that drain it: the owner address of    *)
(* inboxService.ts with its consumer cursors and compaction floor, the     *)
(* Router's console sockets (console/consoleSockets.ts), and the phone's   *)
(* ConsoleSocketDriver, ConsoleTransportCoordinator and drainTick.         *)
(*                                                                         *)
(* A row is its sequence number.  A phone reads through a socket while it  *)
(* is visible and by polling while it is not; both move one cursor at the  *)
(* Router, and the sweep drops what every cursor has passed.               *)
(*                                                                         *)
(* Router handlers run to completion, so each is one action.  The sweep is *)
(* one too, but made of several commits: a failure, or the end of the      *)
(* process between two of them, leaves any part of them done.              *)
(***************************************************************************)
EXTENDS Integers, Sequences, FiniteSets, FiniteSetsExt, Functions

CONSTANTS
    Phones,        \* console signing keys
    RowsPerFrame,  \* CONSOLE_ROWS_PER_FRAME
    RowsPerPoll,   \* the limit of inbox_read
    MaxRows,       \* bound: rows appended to the owner inbox
    MaxMonths,     \* bound: how often 30 days pass
    Faults         \* which failures of the environment a run admits

(* "drop": a live socket or an inbox_read breaks; "reply": the answer to   *)
(* an inbox_advance is lost;                                               *)
(* "commit": the store refuses a write; "split": only the floor write of   *)
(* compactInbox is refused or cut off; "restart": the Router process ends; *)
(* "death": the phone's process ends.                                      *)
AllFaults == {"drop", "reply", "commit", "split", "restart", "death"}

ASSUME BoundsAssumption ==
    /\ RowsPerFrame \in Nat \ {0} /\ RowsPerPoll \in Nat \ {0}
    /\ MaxRows \in Nat /\ MaxMonths \in Nat
ASSUME FaultsAssumption == Faults \subseteq AllFaults

VARIABLES
    rows,      \* sequence numbers held at the owner address
    next,      \* nextSeq of the owner address
    floor,     \* the inbox.address record's floor
    consumer,  \* consumer records; epoch 0 is no record
    minted,    \* epochs stored for a phone so far
    old,       \* rows past INBOX_ROW_TTL_MS
    idle,      \* phones not seen for CONSUMER_IDLE_TTL_MS
    months,    \* how often 30 days have passed
    bound,     \* phones whose socket the Router has bound
    toPhone,   \* frames on the way to a phone's live socket
    toRouter,  \* frames on the way to the Router
    visible,   \* whether the phone is in the foreground
    link,      \* "poll", "opening" (no welcome yet), "socket"
    cursor,    \* coordinator.cursor
    epoch,     \* coordinator.cursorEpoch
    advance,   \* coordinator.pendingAdvance
    tick,      \* the running drainTick: the call it makes next
    jobs,      \* row frames whose drain coroutine has not finished
    seen,      \* history: rows dispatched on the phone
    excused    \* history: rows the phone was told are dropped

inbox   == <<rows, next, floor, consumer, minted>>
time    == <<old, idle, months>>
network == <<bound, toPhone, toRouter>>
coord   == <<link, cursor, epoch, advance>>
phone   == <<visible, coord, tick, jobs, seen, excused>>
vars    == <<inbox, time, network, phone>>

Seqs == 1 .. MaxRows

Hello              == [type |-> "hello"]
Ack(c, e)          == [type |-> "ack", cursor |-> c, epoch |-> e]
Welcome(c, e)      == [type |-> "welcome", cursor |-> c, epoch |-> e, floor |-> floor]
InboxRows(set, c)  == [type |-> "rows", rows |-> set, cursor |-> c]
Stale(f)           == [type |-> "stale", floor |-> f]

Position(c, e) == [cursor |-> c, epoch |-> e]
None           == Position(0, 0)
Idle           == [pc |-> "idle", at |-> None]

(* The epoch a phone is given when its registration was not stored. *)
Unstored == -1

(* What a set of commits leaves done: all, or any part under the fault. *)
Done(S) == IF "commit" \in Faults THEN SUBSET S ELSE {S}

----------------------------------------------------------------------------
Init ==
    /\ rows = {} /\ next = 1 /\ floor = 1
    /\ consumer = [p \in Phones |-> None]
    /\ minted = [p \in Phones |-> 0]
    /\ old = {} /\ idle = {} /\ months = 0
    /\ bound = {}
    /\ toPhone = [p \in Phones |-> <<>>]
    /\ toRouter = [p \in Phones |-> <<>>]
    /\ visible = [p \in Phones |-> TRUE]
    /\ link = [p \in Phones |-> "poll"]
    /\ cursor = [p \in Phones |-> 0]
    /\ epoch = [p \in Phones |-> 0]
    /\ advance = [p \in Phones |-> None]
    /\ tick = [p \in Phones |-> Idle]
    /\ jobs = [p \in Phones |-> {}]
    /\ seen = [p \in Phones |-> {}]
    /\ excused = [p \in Phones |-> {}]

----------------------------------------------------------------------------
(* The owner inbox *)

(* The first n rows from a sequence number on. *)
Page(from, n) ==
    LET ahead == {s \in rows : s >= from}
    IN  {s \in ahead : Cardinality({t \in ahead : t < s}) < n}

(* Mutant: the floor itself reads as dropped. *)
ReadStaleAtFloor(record, from, e) ==
    record.epoch = 0 \/ e # record.epoch \/ from <= floor

(* readOwner: whether a read from a sequence number answers cursor_stale. *)
ReadStale(record, from, e) ==
    record.epoch = 0 \/ e # record.epoch \/ from < floor

(* advanceCursor: whether it answers cursor_stale without writing. *)
AdvanceStale(record, c, e) ==
    record.epoch = 0 \/ e # record.epoch \/ c < floor

(* A frame reaches a phone only while its end of the socket is open. *)
Sent(p, frames) == IF link[p] = "poll" THEN toPhone[p] ELSE toPhone[p] \o frames

(* A row is appended and pushed to every bound socket.  The push carries   *)
(* the row's own sequence number as the frame's cursor.                    *)
AppendRow ==
    /\ next <= MaxRows
    /\ rows' = rows \cup {next}
    /\ next' = next + 1
    /\ toPhone' = [p \in Phones |->
           IF p \in bound THEN Sent(p, <<InboxRows({next}, next)>>) ELSE toPhone[p]]
    /\ UNCHANGED <<floor, consumer, minted, time, bound, toRouter, phone>>

----------------------------------------------------------------------------
(* consoleSockets *)

(* Mutant: the first row after the cursor is skipped. *)
DrainedLate(record, c, e) ==
    LET page == Page(c + 2, RowsPerFrame)
    IN  IF ReadStale(record, c + 1, e) THEN <<Stale(floor)>>
        ELSE IF page = {} THEN <<>>
        ELSE <<InboxRows(page, Max(page))>>

(* Mutant: rows come by push alone. *)
DrainedNot(record, c, e) ==
    IF ReadStale(record, c + 1, e) THEN <<Stale(floor)>> ELSE <<>>

(* drain(): the frames a socket gets when the rows after a cursor are read. *)
Drained(record, c, e) ==
    LET page == Page(c + 1, RowsPerFrame)
    IN  IF ReadStale(record, c + 1, e) THEN <<Stale(floor)>>
        ELSE IF page = {} THEN <<>>
        ELSE <<InboxRows(page, Max(page))>>

Refuses(frames) == \E i \in DOMAIN frames : frames[i].type = "stale"

(* Mutant: every hello mints an epoch. *)
RegisteredAnew(p) == Position(consumer[p].cursor, minted[p] + 1)

(* registerConsumer: a record is kept, a new one starts at cursor 0 under  *)
(* a fresh epoch.                                                          *)
Registered(p) ==
    IF consumer[p] = None THEN Position(0, minted[p] + 1) ELSE consumer[p]

(* hello(): register, bind, welcome, drain.  A registration the store does *)
(* not take is answered all the same, under an epoch nobody knows.         *)
HandleHello(p) ==
    /\ toRouter[p] # <<>> /\ Head(toRouter[p]) = Hello
    /\ toRouter' = [toRouter EXCEPT ![p] = Tail(@)]
    /\ \E stored \in Done({p}) :
         LET record  == IF p \in stored THEN Registered(p) ELSE consumer[p]
             given   == IF record = None THEN Unstored ELSE record.epoch
             drained == Drained(record, record.cursor, given)
         IN  /\ consumer' = [consumer EXCEPT ![p] = record]
             /\ minted' = [minted EXCEPT ![p] = Max({@, record.epoch})]
             /\ idle' = idle \ stored
             /\ toPhone' = [toPhone EXCEPT ![p] =
                    Sent(p, <<Welcome(record.cursor, given)>> \o drained)]
             /\ bound' = IF Refuses(drained) THEN bound \ {p} ELSE bound \cup {p}
    /\ UNCHANGED <<rows, next, floor, old, months, phone>>

(* An ack on a bound socket: advanceCursor, then drain from the cursor the *)
(* frame names.  A write that fails answers cursor_stale too.              *)
HandleAck(p) ==
    /\ toRouter[p] # <<>> /\ Head(toRouter[p]).type = "ack"
    /\ toRouter' = [toRouter EXCEPT ![p] = Tail(@)]
    /\ LET c     == Head(toRouter[p]).cursor
           e     == Head(toRouter[p]).epoch
           stale == AdvanceStale(consumer[p], c, e)
       IN  \/ /\ p \notin bound
              /\ UNCHANGED <<consumer, idle, toPhone, bound>>
           \/ /\ p \in bound
              /\ stale \/ "commit" \in Faults
              /\ toPhone' = [toPhone EXCEPT ![p] = Sent(p, <<Stale(floor)>>)]
              /\ bound' = bound \ {p}
              /\ UNCHANGED <<consumer, idle>>
           \/ /\ p \in bound
              /\ ~ stale
              /\ consumer' = [consumer EXCEPT ![p] = Position(c, e)]
              /\ toPhone' = [toPhone EXCEPT ![p] = Sent(p, Drained(Position(c, e), c, e))]
              /\ idle' = idle \ {p}
              /\ UNCHANGED bound
    /\ UNCHANGED <<rows, next, floor, minted, old, months, phone>>

(* The Router learns that a socket is gone. *)
RouterDrops(p) ==
    /\ p \in bound
    /\ link[p] = "poll" \/ "drop" \in Faults
    /\ bound' = bound \ {p}
    /\ toRouter' = [toRouter EXCEPT ![p] = <<>>]
    /\ UNCHANGED <<inbox, time, toPhone, phone>>

(* The Router process ends and a new one starts: sockets and bindings are  *)
(* gone, the records stay.                                                 *)
RouterRestarts ==
    /\ "restart" \in Faults
    /\ bound' = {}
    /\ toRouter' = [p \in Phones |-> <<>>]
    /\ UNCHANGED <<inbox, time, toPhone, phone>>

----------------------------------------------------------------------------
(* The sweep *)

(* retireRow at the owner address: the floor passes every row it expires. *)
ExpiredFloor(expired) == Max({floor} \cup {s + 1 : s \in expired})

(* Mutant: the highest cursor decides. *)
HighestCursor(records) ==
    LET cursors == {records[p].cursor : p \in {q \in Phones : records[q] # None}}
    IN  IF cursors = {} THEN 0 ELSE Max(cursors)

(* compactInbox: the lowest cursor, none registered counting as 0. *)
LowestCursor(records) ==
    LET cursors == {records[p].cursor : p \in {q \in Phones : records[q] # None}}
    IN  IF cursors = {} THEN 0 ELSE Min(cursors)

(* sweepDomain: idle consumers are forgotten and expired rows retired, one *)
(* commit each; then compactInbox drops the rows every consumer has passed *)
(* in one commit and moves the floor in another.                           *)
SweepInbox ==
    \E forgotten \in Done({p \in idle : consumer[p] # None}), expired \in Done(old) :
        LET records == [p \in Phones |-> IF p \in forgotten THEN None ELSE consumer[p]]
            left    == rows \ expired
            f       == ExpiredFloor(expired)
            low     == LowestCursor(records)
        IN  /\ consumer' = records
            /\ \/ /\ low + 1 <= f \/ "commit" \in Faults
                  /\ rows' = left /\ floor' = f
               \/ /\ low + 1 > f
                  /\ rows' = {s \in left : s > low}
                  /\ \/ floor' = low + 1
                     \/ "split" \in Faults /\ floor' = f
            /\ old' = old \cap rows'
            /\ UNCHANGED <<next, minted, idle, months, network, phone>>

(* 30 days pass: every held row is past its TTL, every consumer idle. *)
MonthPasses ==
    /\ months < MaxMonths
    /\ months' = months + 1
    /\ old' = rows
    /\ idle' = Phones
    /\ UNCHANGED <<inbox, network, phone>>

----------------------------------------------------------------------------
(* The phone's socket *)

(* connect(): a new generation and its hello. *)
Connect(p) ==
    /\ visible[p] /\ link[p] = "poll"
    /\ link' = [link EXCEPT ![p] = "opening"]
    /\ toRouter' = [toRouter EXCEPT ![p] = <<Hello>>]
    /\ bound' = bound \ {p}
    /\ UNCHANGED <<inbox, time, toPhone, visible, cursor, epoch, advance, tick, jobs,
                   seen, excused>>

(* The socket is gone for the phone: what it still carried is lost, and    *)
(* the acks of running drains belong to a dead generation.                 *)
Closed(p) ==
    /\ link' = [link EXCEPT ![p] = "poll"]
    /\ toPhone' = [toPhone EXCEPT ![p] = <<>>]
    /\ jobs' = [jobs EXCEPT ![p] = {[j EXCEPT !.live = FALSE] : j \in @}]

(* The other end has closed, or never answers. *)
Abandoned(p) ==
    /\ link[p] # "poll" /\ p \notin bound
    /\ toPhone[p] = <<>>
    /\ Hello \notin Range(toRouter[p])

PhoneDrops(p) ==
    /\ link[p] # "poll"
    /\ Abandoned(p) \/ "drop" \in Faults
    /\ Closed(p)
    /\ UNCHANGED <<inbox, time, bound, toRouter, visible, cursor, epoch, advance, tick,
                   seen, excused>>

Receive(p, type) ==
    /\ toPhone[p] # <<>> /\ Head(toPhone[p]).type = type
    /\ UNCHANGED <<inbox, time, bound, toRouter, visible, advance, tick, seen>>

(* onWelcome: the Router's cursor is adopted, the rows between it and the  *)
(* floor are counted as dropped.                                           *)
OnWelcome(p) ==
    /\ link[p] = "opening"
    /\ Receive(p, "welcome")
    /\ LET w == Head(toPhone[p])
       IN  /\ cursor' = [cursor EXCEPT ![p] = w.cursor]
           /\ epoch' = [epoch EXCEPT ![p] = w.epoch]
           /\ excused' = [excused EXCEPT ![p] = @ \cup (w.cursor + 1 .. w.floor - 1)]
    /\ link' = [link EXCEPT ![p] = "socket"]
    /\ toPhone' = [toPhone EXCEPT ![p] = Tail(@)]
    /\ UNCHANGED jobs

(* An inbox_rows frame starts a drain coroutine. *)
OnRows(p) ==
    /\ link[p] = "socket"
    /\ Receive(p, "rows")
    /\ LET f == Head(toPhone[p])
       IN  jobs' = [jobs EXCEPT ![p] = @ \cup {[rows |-> f.rows, cursor |-> f.cursor, live |-> TRUE]}]
    /\ toPhone' = [toPhone EXCEPT ![p] = Tail(@)]
    /\ UNCHANGED <<link, cursor, epoch, excused>>

(* Refused with cursor_stale: the phone moves to the floor, shows a gap    *)
(* and closes.                                                             *)
OnStale(p) ==
    /\ link[p] # "poll"
    /\ Receive(p, "stale")
    /\ LET f == Head(toPhone[p]).floor
       IN  /\ cursor' = [cursor EXCEPT ![p] = f - 1]
           /\ excused' = [excused EXCEPT ![p] = @ \cup 1 .. f - 1]
    /\ Closed(p)
    /\ UNCHANGED epoch

(* A drain coroutine runs under the drain mutex: dispatch, then acked() on *)
(* the coordinator and, if it took the cursor, an ack to the Router.       *)
DrainRows(p) ==
    /\ tick[p] = Idle
    /\ \E j \in jobs[p] :
         /\ jobs' = [jobs EXCEPT ![p] = @ \ {j}]
         /\ seen' = [seen EXCEPT ![p] = @ \cup j.rows]
         /\ IF j.live /\ j.cursor > cursor[p]
            THEN /\ cursor' = [cursor EXCEPT ![p] = j.cursor]
                 /\ toRouter' = [toRouter EXCEPT ![p] = Append(@, Ack(j.cursor, epoch[p]))]
            ELSE UNCHANGED <<cursor, toRouter>>
    /\ UNCHANGED <<inbox, time, bound, toPhone, visible, link, epoch, advance, tick, excused>>

(* onBackground disconnects; the foreground reconnects through Connect. *)
Background(p) ==
    /\ visible[p]
    /\ visible' = [visible EXCEPT ![p] = FALSE]
    /\ Closed(p)
    /\ UNCHANGED <<inbox, time, bound, toRouter, cursor, epoch, advance, tick, seen, excused>>

Foreground(p) ==
    /\ ~ visible[p]
    /\ visible' = [visible EXCEPT ![p] = TRUE]
    /\ UNCHANGED <<inbox, time, network, coord, tick, jobs, seen, excused>>

(* The phone's process ends; its database stays, its coordinator does not. *)
PhoneDies(p) ==
    /\ "death" \in Faults
    /\ link' = [link EXCEPT ![p] = "poll"]
    /\ toPhone' = [toPhone EXCEPT ![p] = <<>>]
    /\ jobs' = [jobs EXCEPT ![p] = {}]
    /\ cursor' = [cursor EXCEPT ![p] = 0]
    /\ epoch' = [epoch EXCEPT ![p] = 0]
    /\ advance' = [advance EXCEPT ![p] = None]
    /\ tick' = [tick EXCEPT ![p] = Idle]
    /\ UNCHANGED <<inbox, time, bound, toRouter, visible, seen, excused>>

----------------------------------------------------------------------------
(* drainTick: polling in the background *)

AdoptFloor(p) ==
    /\ cursor' = [cursor EXCEPT ![p] = floor - 1]
    /\ excused' = [excused EXCEPT ![p] = @ \cup 1 .. floor - 1]

Goes(p, pc, at) == tick' = [tick EXCEPT ![p] = [pc |-> pc, at |-> at]]

(* inbox_advance and what the phone makes of the answer: taken, refused    *)
(* (a write that fails reads as refused), or no answer, the write done or  *)
(* not.  then is the call that follows an answer other than refused.       *)
SendAdvance(p, at, then) ==
    LET stale  == AdvanceStale(consumer[p], at.cursor, at.epoch)
        taken  == /\ ~ stale
                  /\ consumer' = [consumer EXCEPT ![p] = at]
                  /\ idle' = idle \ {p}
    IN  \/ /\ stale \/ "commit" \in Faults
           /\ AdoptFloor(p)
           /\ advance' = [advance EXCEPT ![p] = None]
           /\ Goes(p, "idle", None)
           /\ UNCHANGED <<consumer, idle>>
        \/ /\ taken
           /\ advance' = [advance EXCEPT ![p] = None]
           /\ Goes(p, then, None)
           /\ UNCHANGED <<cursor, excused>>
        \/ /\ "reply" \in Faults
           /\ taken \/ UNCHANGED <<consumer, idle>>
           /\ advance' = [advance EXCEPT ![p] = at]
           /\ Goes(p, then, None)
           /\ UNCHANGED <<cursor, excused>>

(* A tick starts with the advance an earlier one got no answer to. *)
PollStart(p) ==
    /\ ~ visible[p] /\ link[p] = "poll"
    /\ tick[p] = Idle
    /\ \/ /\ advance[p] = None
          /\ Goes(p, "read", None)
          /\ UNCHANGED <<consumer, idle, cursor, advance, excused>>
       \/ /\ advance[p] # None
          /\ SendAdvance(p, advance[p], "read")
    /\ UNCHANGED <<rows, next, floor, minted, old, months, network, visible, link, epoch,
                   jobs, seen>>

(* inbox_read, dispatch of the page, and polled(), which moves the cursor  *)
(* unless a socket has taken over meanwhile.                               *)
PollRead(p) ==
    /\ tick[p].pc = "read"
    /\ LET page == Page(cursor[p] + 1, RowsPerPoll)
           last == Max(page)
       IN  \/ /\ ReadStale(consumer[p], cursor[p] + 1, epoch[p])
              /\ AdoptFloor(p)
              /\ Goes(p, "idle", None)
              /\ UNCHANGED <<idle, seen>>
           \/ /\ ~ ReadStale(consumer[p], cursor[p] + 1, epoch[p])
              /\ idle' = idle \ {p}
              /\ seen' = [seen EXCEPT ![p] = @ \cup page]
              /\ IF page # {} /\ link[p] # "socket"
                 THEN /\ cursor' = [cursor EXCEPT ![p] = last]
                      /\ Goes(p, "advance", Position(last, epoch[p]))
                 ELSE /\ Goes(p, "idle", None)
                      /\ UNCHANGED cursor
              /\ UNCHANGED excused
           \/ /\ "drop" \in Faults
              /\ Goes(p, "idle", None)
              /\ UNCHANGED <<idle, seen, cursor, excused>>
    /\ UNCHANGED <<inbox, old, months, network, visible, link, epoch, advance, jobs>>

PollAdvance(p) ==
    /\ tick[p].pc = "advance"
    /\ SendAdvance(p, tick[p].at, "idle")
    /\ UNCHANGED <<rows, next, floor, minted, old, months, network, visible, link, epoch,
                   jobs, seen>>

----------------------------------------------------------------------------
Reply(p)   == HandleHello(p) \/ HandleAck(p)
Deliver(p) == OnWelcome(p) \/ OnRows(p) \/ OnStale(p)
Poll(p)    == PollStart(p) \/ PollRead(p) \/ PollAdvance(p)

RouterStep ==
    \/ AppendRow \/ SweepInbox \/ MonthPasses \/ RouterRestarts
    \/ \E p \in Phones : Reply(p) \/ RouterDrops(p)

PhoneStep(p) ==
    \/ Connect(p) \/ PhoneDrops(p) \/ Deliver(p) \/ DrainRows(p)
    \/ Background(p) \/ Foreground(p) \/ PhoneDies(p) \/ Poll(p)

Next == RouterStep \/ \E p \in Phones : PhoneStep(p)

Spec == Init /\ [][Next]_vars

(* Every frame on a live socket is handled, every coroutine and every poll *)
(* tick runs, a closed socket is noticed, a visible phone reconnects.  The *)
(* drain mutex is fair, so a coroutine gets it between two ticks.          *)
(* Nothing is assumed of appends, of the sweep or of the user.             *)
Fairness ==
    \A p \in Phones :
        /\ WF_vars(Reply(p)) /\ WF_vars(Connect(p)) /\ WF_vars(Abandoned(p) /\ PhoneDrops(p))
        /\ WF_vars(Deliver(p)) /\ SF_vars(DrainRows(p)) /\ WF_vars(Poll(p))

FairSpec == Spec /\ Fairness

----------------------------------------------------------------------------
(* Properties *)

Positions == [cursor : 0 .. MaxRows, epoch : {Unstored} \cup 0 .. MaxMonths + 1]
Jobs      == [rows : SUBSET Seqs, cursor : Seqs, live : BOOLEAN]

(* The types of the variables.  Consumer records carry stored epochs only. *)
TypeOK ==
    /\ rows \subseteq Seqs /\ next \in 1 .. MaxRows + 1 /\ floor \in 1 .. MaxRows + 1
    /\ consumer \in [Phones -> Positions]
    /\ minted \in [Phones -> 0 .. MaxMonths + 1]
    /\ old \subseteq rows /\ idle \subseteq Phones /\ months \in 0 .. MaxMonths
    /\ bound \subseteq Phones
    /\ visible \in [Phones -> BOOLEAN]
    /\ link \in [Phones -> {"poll", "opening", "socket"}]
    /\ cursor \in [Phones -> 0 .. MaxRows]
    /\ epoch \in [Phones -> {Unstored} \cup 0 .. MaxMonths + 1]
    /\ advance \in [Phones -> Positions]
    /\ tick \in [Phones -> [pc : {"idle", "read", "advance"}, at : Positions]]
    /\ \A p \in Phones : jobs[p] \subseteq Jobs
    /\ seen \in [Phones -> SUBSET Seqs] /\ excused \in [Phones -> SUBSET Seqs]

(* What the phone has dispatched, is dispatching, or was told it lost. *)
Accounted(p) == seen[p] \cup excused[p] \cup UNION {j.rows : j \in jobs[p]}

(* "Cursor guarantees delivery" (consoleSockets.ts): the Router's cursor   *)
(* for a console never passes a row the console neither got nor was told   *)
(* it lost, whichever of socket, poll and retry moved it.                  *)
CursorCovered == \A p \in Phones : 1 .. consumer[p].cursor \subseteq Accounted(p)

(* The floor is the lowest retained sequence: from it on nothing is        *)
(* missing, so a console that reads from the floor misses nothing          *)
(* silently (compactInbox, retireRow).                                     *)
NoHoleAboveFloor == floor .. next - 1 \subseteq rows

(* What a console can still read and what it has read leave no row out.    *)
RowsKept == CursorCovered /\ NoHoleAboveFloor

(* A sweep drops a row only when its TTL is over or every console it       *)
(* leaves registered accounts for it (compactInbox takes the lowest cursor *)
(* of the consumers not forgotten).                                        *)
DropsOnlyAccounted ==
    [][\A s \in rows \ rows' :
          s \in old \/ \A p \in Phones : consumer'[p] # None => s \in Accounted(p)]_vars

(* A console that stays in the foreground gets every row, or is told it is *)
(* gone: "Hello drains the cursor" (consoleSockets.ts).                    *)
VisibleDelivers ==
    \A p \in Phones : \A s \in Seqs :
        <>[]visible[p] => (s \in rows ~> s \in seen[p] \cup excused[p])

(* A registered console that stays in the background gets every row by     *)
(* polling (drainTick), whatever answers are lost.                         *)
BackgroundDelivers ==
    \A p \in Phones : \A s \in Seqs :
        <>[](~ visible[p] /\ epoch[p] # 0) => (s \in rows ~> s \in seen[p] \cup excused[p])
=============================================================================
