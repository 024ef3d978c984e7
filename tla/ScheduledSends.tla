--------------------------- MODULE ScheduledSends ---------------------------
(***************************************************************************)
(* Messages the owner schedules for a session (scheduledService.ts). A     *)
(* target has one slot; a due timer marks it firing, appends the message   *)
(* through the op ledger, records the outcome and reports it to the owner: *)
(* several writes in one turn, between which the Router may stop and each  *)
(* of which the store may fail to keep. A restart arms again what was      *)
(* armed or firing. The slot of one target is modelled; a message is known *)
(* by its operation id.                                                    *)
(***************************************************************************)
EXTENDS Naturals, FiniteSets

CONSTANTS
    SendOps,        \* operation ids of schedule_send
    MaxSlotVersion  \* bound: writes of the slot explored

ASSUME SlotAssumption == MaxSlotVersion \in Nat

VARIABLES
    slot,           \* the record of the target: [op, state, attempts, version]
    timer,          \* the target's timer is set
    step,           \* where the turn of fire stands, or "idle"
    asked,          \* op -> the expectedVersion it was posted with, or Unasked
    sendLedger,     \* op -> "none", "accepted" or "retired"
    sendRows,       \* op -> message rows appended
    reports,        \* op -> results in the owner's inbox
    dropped         \* ops whose cancel was accepted

schedVars == <<slot, timer, step, asked, sendLedger, sendRows, reports, dropped>>

NoRecord == [op |-> "none", state |-> "absent", attempts |-> 0, version |-> 0]
Unasked == MaxSlotVersion + 1
TERMINAL == {"fired", "cancelled", "error"}

\* One write of the slot, kept or not.
Written(state, attempts) ==
    slot' = [slot EXCEPT !.state = state, !.attempts = attempts, !.version = @ + 1]

-----------------------------------------------------------------------------
(* The owner's operations, at any time, late and repeated *)

\* Mutant: a settled record does not hold the slot.
SlotFreeWhenSettled(expected) ==
    \/ slot.state \in TERMINAL
    \/ slot.state # "firing" /\ expected = slot.version

\* A free slot takes a first schedule, a taken one the version the owner saw.
SlotFree(expected) == slot.state # "firing" /\ expected = slot.version

\* A record already made under the operation id answers a repeat.
schedule(op, expected) ==
    /\ step = "idle" /\ slot.version < MaxSlotVersion
    /\ asked[op] \in {Unasked, expected}
    /\ asked' = [asked EXCEPT ![op] = expected]
    /\ \/ UNCHANGED <<slot, timer, reports>>   \* a repeat, a conflict or not kept
       \/ /\ slot.op # op /\ SlotFree(expected)
          /\ slot' = [op |-> op, state |-> "armed", attempts |-> 0, version |-> slot.version + 1]
          /\ timer' = TRUE
          /\ \E kept \in BOOLEAN :
                reports' = [reports EXCEPT ![op] = IF kept THEN @ \cup {"pending"} ELSE @]
    /\ UNCHANGED <<step, sendLedger, sendRows, dropped>>

cancel ==
    /\ step = "idle" /\ slot.version < MaxSlotVersion
    /\ slot.state = "armed"
    /\ Written("cancelled", slot.attempts)
    /\ timer' = FALSE
    /\ dropped' = dropped \cup {slot.op}
    /\ UNCHANGED <<step, asked, sendLedger, sendRows, reports>>

-----------------------------------------------------------------------------
(* fire *)

FireMarks ==
    /\ step = "idle" /\ timer /\ slot.version < MaxSlotVersion
    /\ IF slot.state \in TERMINAL \/ slot = NoRecord
       THEN timer' = FALSE /\ UNCHANGED <<slot, step>>
       ELSE \/ Written("firing", slot.attempts) /\ step' = "send" /\ timer' = FALSE
            \/ UNCHANGED <<slot, step, timer>>   \* not kept: the timer is set again
    /\ UNCHANGED <<asked, sendLedger, sendRows, reports, dropped>>

\* Mutant: a repeat conflicts with the row of the attempt before.
FireSendsConflict ==
    /\ step = "send"
    /\ \/ step' = "fail" /\ UNCHANGED <<sendLedger, sendRows>>
       \/ /\ sendLedger[slot.op] = "none" /\ step' = "record"
          /\ sendLedger' = [sendLedger EXCEPT ![slot.op] = "accepted"]
          /\ sendRows' = [sendRows EXCEPT ![slot.op] = @ + 1]
    /\ UNCHANGED <<slot, timer, asked, reports, dropped>>

\* The op ledger answers a repeat: accepted, or what the retired row was
\* answered with. A first append is kept, refused for capacity or lost.
FireSends ==
    /\ step = "send"
    /\ CASE sendLedger[slot.op] = "accepted" -> step' = "record" /\ UNCHANGED <<sendLedger, sendRows>>
         [] sendLedger[slot.op] = "retired"  -> step' = "fail" /\ UNCHANGED <<sendLedger, sendRows>>
         [] sendLedger[slot.op] = "none"     ->
              \/ step' = "fail" /\ UNCHANGED <<sendLedger, sendRows>>
              \/ /\ step' = "record"
                 /\ sendLedger' = [sendLedger EXCEPT ![slot.op] = "accepted"]
                 /\ sendRows' = [sendRows EXCEPT ![slot.op] = @ + 1]
    /\ UNCHANGED <<slot, timer, asked, reports, dropped>>

FireRecords ==
    /\ step = "record"
    /\ \/ Written("fired", slot.attempts + 1) /\ step' = "sent" /\ UNCHANGED timer
       \/ step' = "idle" /\ timer' = TRUE /\ UNCHANGED slot
    /\ UNCHANGED <<asked, sendLedger, sendRows, reports, dropped>>

\* The second failure settles the record, the first tries again.
FireFails ==
    /\ step = "fail"
    /\ \/ /\ slot.attempts + 1 < 2 /\ Written("armed", slot.attempts + 1)
          /\ step' = "idle" /\ timer' = TRUE
       \/ /\ slot.attempts + 1 >= 2 /\ Written("error", slot.attempts + 1)
          /\ step' = "failed" /\ UNCHANGED timer
       \/ step' = "idle" /\ timer' = TRUE /\ UNCHANGED slot   \* not kept
    /\ UNCHANGED <<asked, sendLedger, sendRows, reports, dropped>>

\* The outcome is reported to the owner; a report the inbox does not take arms
\* the record again.
FireReports ==
    /\ step \in {"sent", "failed"}
    /\ step' = "idle"
    /\ \/ reports' = [reports EXCEPT ![slot.op] = @ \cup {step}] /\ UNCHANGED <<slot, timer>>
       \/ Written("armed", slot.attempts) /\ timer' = TRUE /\ UNCHANGED reports
       \/ UNCHANGED <<slot, timer, reports>>   \* neither kept
    /\ UNCHANGED <<asked, sendLedger, sendRows, dropped>>

\* The Router stops anywhere and starts: rearm.
RouterRearms ==
    /\ slot.version < MaxSlotVersion
    /\ step' = "idle"
    /\ timer' = (slot.state \in {"armed", "firing"})
    /\ \/ slot.state = "firing" /\ Written("armed", slot.attempts)
       \/ UNCHANGED slot
    /\ UNCHANGED <<asked, sendLedger, sendRows, reports, dropped>>

\* The target session is forgotten and its rows retired.
TargetForgotten(op) ==
    /\ step = "idle" /\ sendLedger[op] = "accepted"
    /\ sendLedger' = [sendLedger EXCEPT ![op] = "retired"]
    /\ UNCHANGED <<slot, timer, step, asked, sendRows, reports, dropped>>

SchedInit ==
    /\ slot = NoRecord /\ timer = FALSE /\ step = "idle"
    /\ asked = [op \in SendOps |-> Unasked]
    /\ sendLedger = [op \in SendOps |-> "none"]
    /\ sendRows = [op \in SendOps |-> 0]
    /\ reports = [op \in SendOps |-> {}]
    /\ dropped = {}

SchedNext ==
    \/ \E op \in SendOps : (\E v \in 0 .. MaxSlotVersion : schedule(op, v)) \/ TargetForgotten(op)
    \/ cancel
    \/ FireMarks \/ FireSends \/ FireRecords \/ FireFails \/ FireReports
    \/ RouterRearms

SchedSpec == SchedInit /\ [][SchedNext]_schedVars

-----------------------------------------------------------------------------
(* Properties *)

\* A scheduled message is appended once, wherever its turn was cut short, failed
\* to be recorded or was repeated.
ScheduledOnce == \A op \in SendOps : sendRows[op] <= 1

\* What the owner is told of a message is so: "sent" when it is in the session's
\* inbox or was, "failed" only when no row of it stands there.
ReportTrue ==
    \A op \in SendOps :
        /\ "sent" \in reports[op] => sendRows[op] = 1
        /\ "failed" \in reports[op] => sendLedger[op] # "accepted"

\* Between turns a record that is not settled has its timer: nothing armed or
\* caught in firing waits for a restart.
TimerKept == step = "idle" /\ slot.state \in {"armed", "firing"} => timer

\* Once its cancel was accepted a message is never sent, whatever repeats of
\* its schedule arrive after it.
CancelFinal == [][\A op \in dropped : sendRows'[op] = sendRows[op]]_schedVars

\* A scheduled message has one outcome, it is the one the owner is told, and until
\* then something works on it (scheduledService.ts fire).
SendSettles == ScheduledOnce /\ ReportTrue /\ TimerKept
=============================================================================
