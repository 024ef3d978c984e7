------------------------------- MODULE Inbox --------------------------------
(***************************************************************************)
(* The Router's op ledger and the inbox rows it speaks for: appendInboxRow *)
(* and appendResultRow (inboxAppend.ts), ack, markWaking and forgetSession *)
(* (inboxService.ts), retireRow (inboxRetire.ts) and the expiry of the     *)
(* sweep (inboxSweep.ts), with the answers the gateway's delivery pump     *)
(* gives (inboxDeliveryPump.ts).                                           *)
(*                                                                         *)
(* One owner, one gateway, one domain.  An operation is one key of the     *)
(* ledger; what it is, who sends it and where to is a constant.  A result  *)
(* row carries the key of the operation it answers, so several rows may    *)
(* share one ledger record.  Each commit of the store is atomic (see       *)
(* OwnerStateStore); it may fail, or be applied with the answer uncertain. *)
(***************************************************************************)
EXTENDS Integers, FiniteSets

CONSTANTS
    Ops,        \* keys of the op ledger
    Sessions,   \* sessions of the gateway
    Kind,       \* the row kind of an operation: "message" or "console_op"
    From,       \* its sender: "owner", "gateway" or a session
    To,         \* the address it is delivered to: "owner" or a session
    Capacity,   \* rows an address takes (SESSION_INBOX_MAX_ROWS ...)
    MaxMonths,  \* bound: how often 30 days pass
    Faults      \* which failures a run admits

Addresses == {"owner", "gateway"} \cup Sessions

(* "store": a commit fails or is uncertain; "keys": the gateway lacks the  *)
(* content key of a row; "reply": the answer to an append is lost;         *)
(* "unread": no console reads the owner's rows for 30 days.                *)
AllFaults == {"store", "keys", "reply", "unread"}

ASSUME ShapeAssumption ==
    /\ Kind \in [Ops -> {"message", "console_op"}]
    /\ From \in [Ops -> Addresses] /\ To \in [Ops -> Addresses \ {"gateway"}]
    /\ \A o \in Ops : Kind[o] = "console_op" => From[o] = "owner" /\ To[o] \in Sessions
ASSUME SessionsAssumption == Sessions \cap {"owner", "gateway", "router"} = {}
ASSUME BoundsAssumption == Capacity \in Nat /\ MaxMonths \in Nat
ASSUME FaultsAssumption == Faults \subseteq AllFaults

VARIABLES
    rows,      \* rows held at each address
    next,      \* nextSeq of each address
    ledger,    \* op records: the state and the recorded result
    old,       \* sequence numbers past INBOX_ROW_TTL_MS at each address
    months,    \* how often 30 days have passed
    pump,      \* what the gateway is doing about a console_op
    appended,  \* history: how often an operation's own row was appended
    answered   \* history: how often its gateway result was

store   == <<rows, next, ledger>>
history == <<appended, answered>>
vars    == <<store, old, months, pump, history>>

States  == {"none", "accepted", "waking", "complete", "delivered", "failed", "expired"}
Open    == {"accepted", "waking"}
Ended   == {"complete", "delivered", "failed", "expired"}
Results == {"none", "accepted", "answer", "failed", "expired"}
Records == [state : States, result : Results]
Origins == Addresses \cup {"router"}
Kinds   == {"message", "console_op", "op_result"}
Rows    == [seq : Nat \ {0}, op : Ops, kind : Kinds, origin : Origins]

Record(state, result) == [state |-> state, result |-> result]

Row(o, seq, kind, origin) == [seq |-> seq, op |-> o, kind |-> kind, origin |-> origin]

----------------------------------------------------------------------------
Init ==
    /\ rows = [a \in Addresses |-> {}]
    /\ next = [a \in Addresses |-> 1]
    /\ ledger = [o \in Ops |-> Record("none", "none")]
    /\ old = [a \in Addresses |-> {}]
    /\ months = 0
    /\ pump = [o \in Ops |-> "idle"]
    /\ appended = [o \in Ops |-> 0]
    /\ answered = [o \in Ops |-> 0]

----------------------------------------------------------------------------
(* What happens to the rows *)

(* A row at the end of an address. *)
Appends(a, o, kind, origin) ==
    /\ rows' = [rows EXCEPT ![a] = @ \cup {Row(o, next[a], kind, origin)}]
    /\ next' = [next EXCEPT ![a] = @ + 1]

Removes(a, gone) ==
    /\ rows' = [rows EXCEPT ![a] = @ \ gone]
    /\ old' = [old EXCEPT ![a] = @ \ {r.seq : r \in gone}]

(* retireRow for a set of rows of one address, in order: the record of     *)
(* each ends, the row goes, and its sender, unless it is the Router, gets  *)
(* a result row.                                                           *)
Retires(a, gone, outcome) ==
    LET from(b)   == {r \in gone : r.origin = b}
        place(r)  == Cardinality({q \in from(r.origin) : q.seq < r.seq})
        results(b) == {Row(r.op, next[b] + place(r), "op_result", "router") : r \in from(b)}
        kept(b)   == IF b = a THEN rows[b] \ gone ELSE rows[b]
    IN  /\ rows' = [b \in Addresses |-> kept(b) \cup results(b)]
        /\ next' = [b \in Addresses |-> next[b] + Cardinality(from(b))]
        /\ ledger' = [o \in Ops |-> IF \E r \in gone : r.op = o THEN Record(outcome, outcome) ELSE ledger[o]]
        /\ old' = [old EXCEPT ![a] = @ \ {r.seq : r \in gone}]

----------------------------------------------------------------------------
(* Appending *)

(* appendInboxRow for a key the ledger does not know: one commit writes    *)
(* the record and the row.  A row that cannot be pushed to its gateway at  *)
(* once is marked waking; a console_op is taken for a connected gateway    *)
(* only.                                                                   *)
AppendRow(o) ==
    /\ ledger[o].state = "none"
    /\ Cardinality(rows[To[o]]) < Capacity
    /\ Appends(To[o], o, Kind[o], From[o])
    /\ \E pushed \in BOOLEAN :
         /\ To[o] = "owner" \/ Kind[o] = "console_op" => pushed
         /\ ledger' = [ledger EXCEPT ![o] =
                           Record(IF pushed THEN "accepted" ELSE "waking", "accepted")]
    /\ appended' = [appended EXCEPT ![o] = @ + 1]
    /\ UNCHANGED <<old, months, pump, answered>>

(* appendInboxRow for a known key leaves everything alone: the recorded    *)
(* result, or conflict.  The gateway's op_result is the exception: while   *)
(* the record is accepted it is appended for the owner and completes the   *)
(* record (appendResultRow).                                               *)
(* Mutant: a result is taken while the record is open. *)
ResultAcceptedOpen(o) == ledger[o].state \in Open

(* Mutant: a result is taken once the record is complete. *)
ResultAcceptedLate(o) == ledger[o].state = "complete"

ResultAccepted(o) == ledger[o].state = "accepted"

AppendResultRow(o) ==
    /\ ResultAccepted(o)
    /\ Appends("owner", o, "op_result", "gateway")
    /\ ledger' = [ledger EXCEPT ![o] = Record("complete", "answer")]
    /\ answered' = [answered EXCEPT ![o] = @ + 1]

----------------------------------------------------------------------------
(* The gateway's acks *)

(* Mutant: the pump acks with what the Router answers. *)
AckOutcomesEchoed(a, r) == {"delivered", "waking", "failed", "gone"}

(* Mutant: a result row waits for its session as a message does. *)
AckOutcomesAlike(a, r) ==
    CASE r.kind = "message"    -> {"delivered", "waking", "failed"}
      [] r.kind = "op_result"  -> {"delivered", "waking"}
      [] r.kind = "console_op" -> {}

(* The answers the pump gives for a row of a session or of the gateway.    *)
(* Nothing reads a result row of the gateway, so it stays waking; what     *)
(* becomes of a console_op is told below.                                  *)
AckOutcomes(a, r) ==
    CASE r.kind = "message"                      -> {"delivered", "waking", "failed"}
      [] r.kind = "op_result" /\ a = "gateway"   -> {"waking"}
      [] r.kind = "op_result" /\ a # "gateway"   -> {"delivered"}
      [] r.kind = "console_op"                   -> {}

(* Mutant: every ack removes its row. *)
AckRemoves(a, r, outcome) ==
    \/ /\ outcome = "failed"
       /\ Retires(a, {r}, "failed")
    \/ /\ outcome # "failed"
       /\ Removes(a, {r})
       /\ ledger' = [ledger EXCEPT ![r.op] = Record(outcome, @.result)]
       /\ UNCHANGED next

(* ack(): failed retires the row; delivered removes it; both that and      *)
(* waking go into the record of the row's key.                             *)
Ack(a, r, outcome) ==
    \/ /\ outcome = "failed"
       /\ Retires(a, {r}, "failed")
    \/ /\ outcome # "failed"
       /\ IF outcome = "delivered" THEN Removes(a, {r}) ELSE UNCHANGED <<rows, old>>
       /\ ledger' = [ledger EXCEPT ![r.op] = Record(outcome, @.result)]
       /\ UNCHANGED next

GatewayAcks(a) ==
    \E r \in rows[a] : \E outcome \in AckOutcomes(a, r) :
        /\ a # "owner"
        /\ Ack(a, r, outcome)
        /\ UNCHANGED <<months, pump, history>>

----------------------------------------------------------------------------
(* A console_op at the gateway *)

HeldFor(o) == {r \in rows[To[o]] : r.op = o /\ r.kind = Kind[o]}

(* deliverConsoleOp without the content key: waking, and nothing is run. *)
ConsoleOpWaits(o) ==
    /\ Kind[o] = "console_op" /\ "keys" \in Faults
    /\ pump[o] = "idle"
    /\ \E r \in HeldFor(o) : Ack(To[o], r, "waking")
    /\ UNCHANGED <<months, pump, history>>

(* The op is claimed and run; a claim found after a restart is answered    *)
(* with "lost" instead.                                                    *)
ConsoleOpRuns(o) ==
    /\ Kind[o] = "console_op"
    /\ pump[o] = "idle" /\ HeldFor(o) # {}
    /\ pump' = [pump EXCEPT ![o] = "ran"]
    /\ UNCHANGED <<store, old, months, history>>

(* The op cannot be opened, or its answer not be sealed. *)
ConsoleOpFails(o) ==
    /\ pump[o] = "ran"
    /\ \E r \in HeldFor(o) : Ack(To[o], r, "failed")
    /\ pump' = [pump EXCEPT ![o] = "idle"]
    /\ UNCHANGED <<months, history>>

(* appendConsoleResult: a result that is taken, was taken before or is in  *)
(* conflict settles the op; any other answer, or none, leaves it pending.  *)
AppendConsoleResult(o) ==
    /\ pump[o] = "ran"
    /\ \/ /\ AppendResultRow(o)
          /\ \E answer \in {"settled"} \cup (IF Faults \cap {"store", "reply"} # {} THEN {"pending"} ELSE {}) :
                pump' = [pump EXCEPT ![o] = answer]
       \/ /\ ~ ResultAccepted(o)
          /\ pump' = [pump EXCEPT ![o] = "settled"]
          /\ UNCHANGED <<store, answered>>
       \/ /\ "store" \in Faults
          /\ pump' = [pump EXCEPT ![o] = "pending"]
          /\ UNCHANGED <<store, answered>>
    /\ UNCHANGED <<old, months, appended>>

(* The ack that ends the handler: delivered when settled, waking when the  *)
(* result is pending.  One that does not land, because the row is gone or  *)
(* the call is lost, changes nothing at the Router; an undelivered settled *)
(* op keeps its claim and acks again on the next delivery.                 *)
ConsoleOpAcks(o) ==
    /\ pump[o] \in {"settled", "pending"}
    /\ \/ \E r \in HeldFor(o) : Ack(To[o], r, IF pump[o] = "settled" THEN "delivered" ELSE "waking")
       \/ /\ HeldFor(o) = {} \/ (pump[o] = "pending" /\ "reply" \in Faults)
          /\ UNCHANGED <<store, old>>
    /\ pump' = [pump EXCEPT ![o] = "idle"]
    /\ UNCHANGED <<months, history>>

----------------------------------------------------------------------------
(* Reading, forgetting and expiry *)

(* Compaction drops the owner rows every console has read. *)
OwnerReads ==
    \E upto \in {r.seq : r \in rows["owner"]} :
        /\ Removes("owner", {r \in rows["owner"] : r.seq <= upto})
        /\ UNCHANGED <<next, ledger, months, pump, history>>

(* forgetSession: every row of the address fails. *)
ForgetSession(s) ==
    /\ rows[s] # {}
    /\ Retires(s, rows[s], "failed")
    /\ UNCHANGED <<months, pump, history>>

MonthPasses ==
    /\ months < MaxMonths
    /\ months' = months + 1
    /\ old' = [a \in Addresses |-> {r.seq : r \in rows[a]}]
    /\ UNCHANGED <<store, pump, history>>

(* sweepDomain at one address: rows past their TTL expire, all of them or, *)
(* when the store fails, some.                                             *)
SweepExpired(a) ==
    LET due == {r \in rows[a] : r.seq \in old[a]}
    IN  \E gone \in (IF "store" \in Faults THEN SUBSET due ELSE {due}) \ {{}} :
            /\ a = "owner" => "unread" \in Faults
            /\ Retires(a, gone, "expired")
            /\ UNCHANGED <<months, pump, history>>

----------------------------------------------------------------------------
Next ==
    \/ \E o \in Ops : AppendRow(o) \/ ConsoleOpWaits(o) \/ ConsoleOpRuns(o)
                      \/ ConsoleOpFails(o) \/ AppendConsoleResult(o) \/ ConsoleOpAcks(o)
    \/ \E a \in Addresses : GatewayAcks(a) \/ SweepExpired(a)
    \/ \E s \in Sessions : ForgetSession(s)
    \/ OwnerReads \/ MonthPasses

Spec == Init /\ [][Next]_vars

----------------------------------------------------------------------------
(* Properties *)

TypeOK ==
    /\ rows \in [Addresses -> SUBSET Rows]
    /\ next \in [Addresses -> Nat \ {0}]
    /\ ledger \in [Ops -> Records]
    /\ old \in [Addresses -> SUBSET (Nat \ {0})]
    /\ months \in 0 .. MaxMonths
    /\ pump \in [Ops -> {"idle", "ran", "settled", "pending"}]
    /\ appended \in [Ops -> Nat] /\ answered \in [Ops -> Nat]

(* An operation for a session that the ledger calls open, accepted or      *)
(* waking, still has a row that a later delivery, ack or expiry can end:   *)
(* no interleaving of acks, failures, expiries and reads strands it.       *)
OpenHasRow ==
    \A o \in Ops :
        To[o] \in Sessions /\ ledger[o].state \in Open =>
            \E a \in Addresses \ {"owner"} : \E r \in rows[a] : r.op = o

(* A key is appended once however often it is sent, and its gateway result *)
(* once however often the gateway retries it (federation.md, "A retry is   *)
(* one operation").                                                        *)
AppendedOnce == \A o \in Ops : appended[o] <= 1 /\ answered[o] <= 1

(* A console op is retired as delivered only after its op_result row was   *)
(* written for the owner ("Delivery answers use `op_result`").             *)
AnsweredBeforeDelivered ==
    \A o \in Ops : Kind[o] = "console_op" /\ ledger[o].state = "delivered" => answered[o] > 0

(* An operation that has ended stays ended: its result rows may come and   *)
(* go without reopening the record ("Result rows complete ledger").        *)
EndedStays == [][\A o \in Ops : ledger[o].state \in Ended => ledger'[o].state \in Ended]_vars
=============================================================================
