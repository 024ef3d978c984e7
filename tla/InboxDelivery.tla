---------------------------- MODULE InboxDelivery ----------------------------
(***************************************************************************)
(* How a message row reaches its session: the Router pushes the rows it    *)
(* holds for a session (gatewayBridge.ts, registrationHandler.ts), the     *)
(* gateway's pump claims and lands them (inboxDeliveryPump.ts,             *)
(* inboxClaims.ts), channel delivery keeps them on disk and offers them    *)
(* (channelDelivery.ts, pending-delivery-store.ts), the session's plugin   *)
(* confirms what it has shown (mcp/bridge/helpers.ts), and the pump acks.  *)
(*                                                                         *)
(* One Router, one gateway, one session.  JavaScript runs a handler up to  *)
(* its next await without interruption, so that is one action here; what   *)
(* is awaited (a wake, the answer to an ack) is state.  Claims and pending *)
(* deliveries are written through to disk; everything else of the gateway  *)
(* is lost when its process ends.  The ledger is the subject of Inbox.     *)
(***************************************************************************)
EXTENDS Integers, FiniteSets

CONSTANTS
    Messages,   \* rows the Router may hold for the session
    Capacity,   \* MAX_PENDING_DELIVERIES_PER_TEAM
    MaxBreaks,  \* bound: how often a connection or the gateway breaks
    Faults      \* which failures a run admits

(* "cut": the gateway ends inside a handler, between two writes; "fence":  *)
(* deliveries are fenced for a migration; "emit": the plugin cannot show a *)
(* message; "store": a commit of the Router fails, is uncertain or is      *)
(* answered too late; "retire": the Router ends a row on its own.          *)
AllFaults == {"cut", "fence", "emit", "store", "retire"}

ASSUME BoundsAssumption == Capacity \in Nat /\ MaxBreaks \in Nat
ASSUME FaultsAssumption == Faults \subseteq AllFaults
ASSUME MessagesAssumption == IsFiniteSet(Messages)

VARIABLES
    fate,       \* Router: what became of each row
    up,         \* the gateway process runs
    link,       \* it is registered with the Router
    wire,       \* rows pushed to it and not yet handled, under way or arrived
    claims,     \* InboxClaims: the outcome of each claimed row
    pending,    \* PendingDeliveryStore
    wakes,      \* rows whose delivery awaits tryWakeTeam
    calls,      \* inbox_ack calls the pump awaits
    fenced,     \* the migration fence is up
    live,       \* the session is connected
    socket,     \* rows written to its socket
    confirms,   \* its confirmations on their way
    shown,      \* history: rows the session has shown
    confirmed,  \* history: rows whose confirmation the gateway took
    breaks      \* how often something broke

disk    == <<claims, pending>>
pump    == <<wire, wakes, calls>>
session == <<live, socket, confirms>>
history == <<shown, confirmed>>
vars    == <<fate, up, link, disk, pump, fenced, session, history, breaks>>

Fates    == {"new", "held", "delivered", "failed", "dropped"}
Outcomes == {"waking", "delivered", "failed"}
Answers  == {"none", "landed", "gone", "refused"}
Calls    == [row : Messages, outcome : Outcomes, answer : Answers]

held == {m \in Messages : fate[m] = "held"}

(* inbox_ack is called if the gateway is registered, and fails at once if  *)
(* it is not.                                                              *)
Call(m, outcome) ==
    IF link THEN {[row |-> m, outcome |-> outcome, answer |-> "none"]} ELSE {}

----------------------------------------------------------------------------
Init ==
    /\ fate = [m \in Messages |-> "new"]
    /\ up = TRUE /\ link = FALSE
    /\ claims = [m \in Messages |-> "none"] /\ pending = {}
    /\ wire = {} /\ wakes = {} /\ calls = {}
    /\ fenced = FALSE
    /\ live = FALSE /\ socket = {} /\ confirms = {}
    /\ shown = {} /\ confirmed = {}
    /\ breaks = 0

----------------------------------------------------------------------------
(* The Router *)

(* A row is appended and, if the gateway is there, pushed. *)
AppendMessage(m) ==
    /\ fate[m] = "new"
    /\ fate' = [fate EXCEPT ![m] = "held"]
    /\ wire' = IF link THEN wire \cup {m} ELSE wire
    /\ UNCHANGED <<up, link, disk, wakes, calls, fenced, session, history, breaks>>

(* Mutant: redelivery leaves out the rows the gateway has claimed. *)
PendingForUnclaimed == {m \in held : claims[m] = "none"}

PendingFor == held

(* gateway_register: redeliverPending pushes every row that is held. *)
Register ==
    /\ up /\ ~ link
    /\ link' = TRUE
    /\ wire' = wire \cup PendingFor
    /\ UNCHANGED <<fate, up, disk, wakes, calls, fenced, session, history, breaks>>

(* ack(): a row that is no longer held is gone; a commit that fails or is  *)
(* uncertain is not answered with the outcome.                             *)
RouterAcks ==
    \E c \in calls : \E works \in (IF "store" \in Faults THEN BOOLEAN ELSE {TRUE}) :
        /\ c.answer = "none"
        /\ \/ /\ c.row \in held /\ c.outcome # "waking"
              /\ fate' = [fate EXCEPT ![c.row] = c.outcome]
           \/ /\ c.row \notin held \/ c.outcome = "waking" \/ ~ works
              /\ UNCHANGED fate
        /\ calls' = (calls \ {c}) \cup {[c EXCEPT !.answer =
                        IF c.row \notin held THEN "gone" ELSE IF works THEN "landed" ELSE "refused"]}
        /\ UNCHANGED <<up, link, disk, wire, wakes, fenced, session, history, breaks>>

(* Expiry, forgetSession or a revoked peer: the gateway is not told. *)
RouterRetires(m) ==
    /\ "retire" \in Faults
    /\ m \in held
    /\ fate' = [fate EXCEPT ![m] = "dropped"]
    /\ UNCHANGED <<up, link, disk, pump, fenced, session, history, breaks>>

----------------------------------------------------------------------------
(* The pump *)

Claimed(m) == claims[m] # "none"

Full(m) == m \notin pending /\ Cardinality(pending) >= Capacity

(* deliver() of a claimed row repeats the outcome of the claim. *)
RepeatsOutcome(m) ==
    /\ Claimed(m)
    /\ calls' = calls \cup Call(m, claims[m])
    /\ UNCHANGED <<disk, wakes, socket>>

(* land(): the queue of the session is full. *)
Refused(m) ==
    /\ ~ Claimed(m) /\ ~ fenced /\ Full(m)
    /\ claims' = [claims EXCEPT ![m] = "failed"]
    /\ calls' = calls \cup Call(m, "failed")
    /\ UNCHANGED <<pending, wakes, socket>>

(* Mutant: a row that was written to the session counts as delivered. *)
OfferedAcks(m) ==
    /\ ~ Claimed(m) /\ ~ fenced /\ ~ Full(m) /\ live
    /\ claims' = [claims EXCEPT ![m] = "delivered"]
    /\ pending' = pending \cup {m}
    /\ socket' = socket \cup {m}
    /\ calls' = calls \cup Call(m, "delivered")
    /\ UNCHANGED wakes

(* land(): the row is on disk and written to the session, whose            *)
(* confirmation is awaited.                                                *)
OfferedRow(m) ==
    /\ ~ Claimed(m) /\ ~ fenced /\ ~ Full(m) /\ live
    /\ claims' = [claims EXCEPT ![m] = "waking"]
    /\ pending' = pending \cup {m}
    /\ socket' = socket \cup {m}
    /\ UNCHANGED <<wakes, calls>>

(* Mutant: a row for a session that is away is not kept. *)
QueuedInMemory(m) ==
    /\ ~ Claimed(m) /\ (fenced \/ (~ Full(m) /\ ~ live))
    /\ claims' = [claims EXCEPT ![m] = "waking"]
    /\ UNCHANGED pending
    /\ \/ /\ ~ live /\ wakes' = wakes \cup {m} /\ UNCHANGED calls
       \/ /\ calls' = calls \cup Call(m, "waking") /\ UNCHANGED wakes
    /\ UNCHANGED socket

(* land(): no socket takes the row, which is on disk, or the fence is up,  *)
(* and it is not.  A session that is away is woken; one that is live under *)
(* another name is waited for.                                             *)
QueuedRow(m) ==
    /\ ~ Claimed(m) /\ (fenced \/ (~ Full(m) /\ ~ live))
    /\ claims' = [claims EXCEPT ![m] = "waking"]
    /\ pending' = IF fenced THEN pending ELSE pending \cup {m}
    /\ \/ /\ ~ live /\ wakes' = wakes \cup {m} /\ UNCHANGED calls
       \/ /\ calls' = calls \cup Call(m, "waking") /\ UNCHANGED wakes
    /\ UNCHANGED socket

(* onFrame handles the rows of a frame one after the other, so a row may   *)
(* wait for the wake or the ack of another, and outlive the registration   *)
(* it came with.                                                           *)
OnFrame(m) ==
    /\ m \in wire
    /\ wire' = wire \ {m}
    /\ RepeatsOutcome(m) \/ Refused(m) \/ OfferedRow(m) \/ QueuedRow(m)
    /\ UNCHANGED <<fate, up, link, fenced, live, confirms, history, breaks>>

(* The host cannot start the session: the row is withdrawn and failed. *)
WakeFails(m) ==
    /\ claims' = [claims EXCEPT ![m] = "failed"]
    /\ pending' = IF fenced THEN pending ELSE pending \ {m}
    /\ calls' = calls \cup Call(m, "failed")

(* tryWakeTeam ends: definitely failed, or timed out or disconnected. *)
WakeEnds(m) ==
    /\ m \in wakes
    /\ wakes' = wakes \ {m}
    /\ \/ WakeFails(m)
       \/ /\ calls' = calls \cup Call(m, "waking")
          /\ UNCHANGED disk
    /\ UNCHANGED <<fate, up, link, wire, fenced, session, history, breaks>>

(* Mutant: the claim takes over what the Router answered. *)
AckReplyEchoed ==
    \E c \in calls :
        /\ c.answer # "none"
        /\ calls' = calls \ {c}
        /\ claims' = [claims EXCEPT ![c.row] = c.answer]
        /\ UNCHANGED <<fate, up, link, pending, wire, wakes, fenced, session, history, breaks>>

(* The answer to inbox_ack: the claim is dropped when the row is done. *)
AckReply ==
    \E c \in calls :
        /\ c.answer # "none" \/ "store" \in Faults
        /\ calls' = calls \ {c}
        /\ claims' = IF c.answer = "gone" \/ (c.answer = "landed" /\ c.outcome # "waking")
                     THEN [claims EXCEPT ![c.row] = "none"] ELSE claims
        /\ UNCHANGED <<fate, up, link, pending, wire, wakes, fenced, session, history, breaks>>

(* Mutant: a confirmation is passed on and not recorded. *)
ConfirmationUnrecorded(m) ==
    /\ calls' = IF Claimed(m) THEN calls \cup Call(m, "delivered") ELSE calls
    /\ UNCHANGED claims

(* onChannelDeliveryAck: what the session confirmed is recorded, acked. *)
Confirmation(m) ==
    /\ calls' = IF Claimed(m) THEN calls \cup Call(m, "delivered") ELSE calls
    /\ claims' = IF Claimed(m) THEN [claims EXCEPT ![m] = "delivered"] ELSE claims

OnChannelDeliveryAck(m) ==
    /\ m \in confirms
    /\ confirms' = confirms \ {m}
    /\ Confirmation(m)
    /\ pending' = IF fenced THEN pending ELSE pending \ {m}
    /\ confirmed' = confirmed \cup {m}
    /\ UNCHANGED <<fate, up, link, wire, wakes, fenced, live, socket, shown, breaks>>

----------------------------------------------------------------------------
(* The session *)

(* Registering ends the wakes that wait for the session, and drain offers  *)
(* it what is kept for it.                                                 *)
SessionConnects ==
    /\ up /\ ~ live
    /\ live' = TRUE
    /\ socket' = IF fenced THEN {} ELSE pending
    /\ wakes' = {}
    /\ calls' = calls \cup UNION {Call(m, "waking") : m \in wakes}
    /\ UNCHANGED <<fate, up, link, disk, wire, fenced, confirms, history, breaks>>

(* channel_push: shown and confirmed, or not shown and not confirmed. *)
ChannelPush(m) ==
    /\ m \in socket
    /\ socket' = socket \ {m}
    /\ \/ /\ shown' = shown \cup {m} /\ confirms' = confirms \cup {m}
       \/ /\ "emit" \in Faults /\ UNCHANGED <<shown, confirms>>
    /\ UNCHANGED <<fate, up, link, disk, pump, fenced, live, confirmed, breaks>>

----------------------------------------------------------------------------
(* What breaks *)

Breaks == breaks < MaxBreaks /\ breaks' = breaks + 1

SessionDrops ==
    /\ Breaks
    /\ live /\ live' = FALSE /\ socket' = {} /\ confirms' = {}
    /\ UNCHANGED <<fate, up, link, disk, pump, fenced, history>>

(* The Router connection closes: every call that is awaited fails, and     *)
(* what has not arrived is lost; a row that waits its turn does not.       *)
LinkDrops ==
    /\ Breaks
    /\ link /\ link' = FALSE /\ calls' = {}
    /\ wire' \in SUBSET wire
    /\ UNCHANGED <<fate, up, disk, wakes, fenced, session, history>>

(* The gateway ends: between two handlers, or after the first of the two   *)
(* files a handler writes.                                                 *)
GatewayEnds ==
    /\ Breaks
    /\ up /\ up' = FALSE /\ link' = FALSE
    /\ \/ UNCHANGED disk
       \/ "cut" \in Faults /\
          \/ \E m \in wire : ~ Claimed(m) /\ claims' = [claims EXCEPT ![m] = "waking"] /\ UNCHANGED pending
          \/ \E m \in wakes : pending' = (IF fenced THEN pending ELSE pending \ {m}) /\ UNCHANGED claims
          \/ \E m \in confirms : Claimed(m) /\ claims' = [claims EXCEPT ![m] = "delivered"] /\ UNCHANGED pending
    /\ wire' = {} /\ wakes' = {} /\ calls' = {}
    /\ live' = FALSE /\ socket' = {} /\ confirms' = {}
    /\ UNCHANGED <<fate, fenced, history>>

GatewayStarts ==
    /\ ~ up /\ up' = TRUE
    /\ UNCHANGED <<fate, link, disk, pump, fenced, session, history, breaks>>

FenceMoves ==
    /\ "fence" \in Faults
    /\ Breaks
    /\ fenced' = ~ fenced
    /\ UNCHANGED <<fate, up, link, disk, pump, session, history>>

----------------------------------------------------------------------------
Next ==
    \/ \E m \in Messages : AppendMessage(m) \/ RouterRetires(m) \/ OnFrame(m) \/ WakeEnds(m)
                           \/ OnChannelDeliveryAck(m) \/ ChannelPush(m)
    \/ Register \/ RouterAcks \/ AckReply \/ SessionConnects
    \/ SessionDrops \/ LinkDrops \/ GatewayEnds \/ GatewayStarts \/ FenceMoves

Spec == Init /\ [][Next]_vars

(* The reconnector retries until it is registered, a supervisor restarts   *)
(* the gateway, and whatever has arrived is handled.  Nothing is assumed   *)
(* of the session, nor that anything breaks.                               *)
FairSpec ==
    /\ Spec
    /\ WF_vars(Register) /\ WF_vars(GatewayStarts) /\ WF_vars(RouterAcks) /\ WF_vars(AckReply)
    /\ \A m \in Messages : /\ WF_vars(OnFrame(m)) /\ WF_vars(WakeEnds(m))
                           /\ WF_vars(OnChannelDeliveryAck(m)) /\ WF_vars(ChannelPush(m))

----------------------------------------------------------------------------
(* Properties *)

TypeOK ==
    /\ fate \in [Messages -> Fates]
    /\ up \in BOOLEAN /\ link \in BOOLEAN /\ fenced \in BOOLEAN /\ live \in BOOLEAN
    /\ claims \in [Messages -> Outcomes \cup {"none"}] /\ pending \in SUBSET Messages
    /\ wire \in SUBSET Messages /\ wakes \in SUBSET Messages /\ calls \in SUBSET Calls
    /\ socket \in SUBSET Messages /\ confirms \in SUBSET Messages
    /\ shown \in SUBSET Messages /\ confirmed \in SUBSET Messages
    /\ breaks \in 0 .. MaxBreaks

(* A row leaves the Router as delivered only after the session has shown   *)
(* it: "a socket write proves the bytes left, not that anything read them" *)
(* (channelDelivery.ts).  Holds whatever breaks, in the middle of what.    *)
DeliveredShown == \A m \in Messages : fate[m] = "delivered" => m \in shown

(* What the session has confirmed stays on the gateway's disk until the    *)
(* Router has let go of the row: no lost answer, late wake, restart or     *)
(* redelivery turns the claim back ("Claims survive lost Router            *)
(* acknowledgements").                                                     *)
ConfirmedRemembered == \A m \in confirmed \cap held : claims[m] = "delivered"

(* A registered gateway that has no row on the wire, awaits no wake for it *)
(* and no answer, has the row on disk or its outcome: acceptance is a      *)
(* promise, and no claim stands for a message nobody keeps.                *)
InHand ==
    \A m \in held :
        \/ ~ link \/ m \in wire \cup wakes \/ \E c \in calls : c.row = m
        \/ m \in pending \/ claims[m] \in {"delivered", "failed"}

(* Once the session stays connected, every row the Router holds is         *)
(* delivered or failed.                                                    *)
SettledWhenLive == <>[]live => \A m \in Messages : m \in held ~> m \notin held
=============================================================================
