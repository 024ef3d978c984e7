------------------------- MODULE InboxDeliveryProofs -------------------------
(***************************************************************************)
(* Proofs about InboxDelivery, for any set of messages, any capacity and   *)
(* any combination of failures: a row the Router calls delivered was shown *)
(* to the session, and a confirmation survives until the Router has let go *)
(* of the row.                                                             *)
(***************************************************************************)
EXTENDS InboxDelivery, TLAPS

(* Whatever says "delivered" (a confirmation, a claim, a call, the ledger) *)
(* is about a row the session has shown.                                   *)
Evidence ==
    /\ confirms \subseteq shown
    /\ \A m \in Messages : claims[m] = "delivered" => m \in shown
    /\ \A c \in calls : c.outcome = "delivered" => c.row \in shown
    /\ DeliveredShown

(* Nothing is known of a row before it is appended. *)
Fresh ==
    \A m \in Messages : fate[m] = "new" =>
        /\ m \notin wire /\ m \notin wakes /\ m \notin pending
        /\ m \notin socket /\ m \notin confirms /\ m \notin confirmed
        /\ claims[m] = "none"
        /\ \A c \in calls : c.row # m

(* An answer on which AckReply drops the claim. *)
Final(c) == c.answer = "gone" \/ (c.answer = "landed" /\ c.outcome # "waking")

(* The claim is dropped only for a row the Router has let go of. *)
FinalIsOver == \A c \in calls : Final(c) => fate[c.row] # "new" /\ fate[c.row] # "held"

(* A row that is kept, offered or confirmed, and still held, is claimed. *)
KeptIsClaimed ==
    \A m \in Messages : fate[m] = "held" /\ (m \in pending \/ m \in socket \/ m \in confirms)
                        => claims[m] # "none"

(* No wake is awaited beside a live session; only a live session confirms. *)
WakeOrSession ==
    /\ live => wakes = {}
    /\ ~ live => socket = {} /\ confirms = {}

(* A late wake cannot fail what was confirmed meanwhile. *)
WokenUnconfirmed == \A m \in wakes : m \in confirmed => fate[m] # "held"

(* ConfirmedRemembered, without the set of held rows. *)
Remembered == \A m \in confirmed : fate[m] = "held" => claims[m] = "delivered"

IInv ==
    /\ TypeOK /\ Evidence /\ Fresh /\ FinalIsOver
    /\ KeptIsClaimed /\ WakeOrSession /\ WokenUnconfirmed /\ Remembered

----------------------------------------------------------------------------
(* Lemmas *)

(* A call is made for the row and the outcome it is given, and is open. *)
LEMMA CallShape ==
    ASSUME NEW m \in Messages, NEW o \in Outcomes
    PROVE  /\ Call(m, o) \subseteq Calls
           /\ \A c \in Call(m, o) : c.row = m /\ c.outcome = o /\ c.answer = "none"
<1> QED
  BY DEF Call, Calls, Answers

(* The initial state satisfies the invariant. *)
LEMMA InitIInv == Init => IInv
<1> SUFFICES ASSUME Init PROVE IInv
  OBVIOUS
<1>1. TypeOK
  <2>1. up \in BOOLEAN /\ link \in BOOLEAN /\ fenced \in BOOLEAN /\ live \in BOOLEAN
    BY Zenon DEF Init
  <2>2. breaks \in 0 .. MaxBreaks
    BY BoundsAssumption DEF Init
  <2>3. fate \in [Messages -> Fates] /\ claims \in [Messages -> Outcomes \cup {"none"}]
    BY DEF Init, Fates
  <2> QED
    BY <2>1, <2>2, <2>3 DEF Init, TypeOK
<1>2. Evidence /\ Fresh /\ FinalIsOver
  BY DEF Init, Evidence, Fresh, FinalIsOver, DeliveredShown
<1>3. KeptIsClaimed /\ WakeOrSession /\ WokenUnconfirmed /\ Remembered
  BY DEF Init, KeptIsClaimed, WakeOrSession, WokenUnconfirmed, Remembered
<1> QED
  BY <1>1, <1>2, <1>3 DEF IInv

(* A row is appended: nothing was known of it. *)
LEMMA AppendKeeps == ASSUME IInv, NEW m \in Messages, AppendMessage(m) PROVE IInv'
<1> USE DEF IInv, AppendMessage, disk, session, history
<1>1. TypeOK'
  BY DEF TypeOK, Fates
<1>2. Evidence' /\ Fresh' /\ FinalIsOver'
  BY DEF TypeOK, Evidence, DeliveredShown, Fresh, FinalIsOver, Final, Calls
<1>3. KeptIsClaimed' /\ WakeOrSession' /\ WokenUnconfirmed' /\ Remembered'
  BY DEF TypeOK, Fresh, KeptIsClaimed, WakeOrSession, WokenUnconfirmed, Remembered
<1> QED
  BY <1>1, <1>2, <1>3

(* The Router ends a row on its own. *)
LEMMA RetiresKeeps == ASSUME IInv, NEW m \in Messages, RouterRetires(m) PROVE IInv'
<1> USE DEF IInv, RouterRetires, held, disk, pump, session, history
<1>1. TypeOK'
  BY DEF TypeOK, Fates
<1>2. Evidence' /\ Fresh' /\ FinalIsOver'
  BY DEF TypeOK, Evidence, DeliveredShown, Fresh, FinalIsOver, Final, Calls
<1>3. KeptIsClaimed' /\ WakeOrSession' /\ WokenUnconfirmed' /\ Remembered'
  BY DEF TypeOK, KeptIsClaimed, WakeOrSession, WokenUnconfirmed, Remembered
<1> QED
  BY <1>1, <1>2, <1>3

(* An ack at the Router: the row is over exactly when the answer is final. *)
LEMMA RouterAcksKeeps == ASSUME IInv, RouterAcks PROVE IInv'
<1>1. PICK c \in calls : \E works \in BOOLEAN :
        /\ \/ /\ c.row \in held /\ c.outcome # "waking"
              /\ fate' = [fate EXCEPT ![c.row] = c.outcome]
           \/ /\ c.row \notin held \/ c.outcome = "waking" \/ ~ works
              /\ UNCHANGED fate
        /\ calls' = (calls \ {c}) \cup {[c EXCEPT !.answer =
                        IF c.row \notin held THEN "gone" ELSE IF works THEN "landed" ELSE "refused"]}
  BY DEF RouterAcks
<1>2. UNCHANGED <<up, link, disk, wire, wakes, fenced, session, history, breaks>>
  BY DEF RouterAcks
<1>3. PICK works \in BOOLEAN :
        /\ \/ /\ c.row \in held /\ c.outcome # "waking"
              /\ fate' = [fate EXCEPT ![c.row] = c.outcome]
           \/ /\ c.row \notin held \/ c.outcome = "waking" \/ ~ works
              /\ UNCHANGED fate
        /\ calls' = (calls \ {c}) \cup {[c EXCEPT !.answer =
                        IF c.row \notin held THEN "gone" ELSE IF works THEN "landed" ELSE "refused"]}
  BY <1>1
<1> DEFINE d == [c EXCEPT !.answer =
                    IF c.row \notin held THEN "gone" ELSE IF works THEN "landed" ELSE "refused"]
<1>4. c \in Calls /\ c.row \in Messages /\ c.outcome \in Outcomes
  BY DEF IInv, TypeOK, Calls
<1>5. d \in Calls /\ d.row = c.row /\ d.outcome = c.outcome
  BY <1>4 DEF Calls, Answers
<1>6. fate[c.row] # "new"
  BY <1>4 DEF IInv, Fresh
<1>7. Final(d) => fate'[c.row] # "new" /\ fate'[c.row] # "held"
  BY <1>3, <1>4, <1>6 DEF Final, held, Calls, Outcomes, IInv, TypeOK
<1>8. calls' = (calls \ {c}) \cup {d}
  BY <1>3
<1>9. \/ UNCHANGED fate
      \/ /\ fate[c.row] = "held" /\ c.outcome # "waking"
         /\ fate' = [fate EXCEPT ![c.row] = c.outcome]
  BY <1>3 DEF held
<1> HIDE DEF d
<1> USE DEF IInv
<1>10. TypeOK'
  <2>1. fate' \in [Messages -> Fates]
    BY <1>4, <1>9 DEF TypeOK, Fates, Outcomes
  <2>2. calls' \in SUBSET Calls
    BY <1>5, <1>8 DEF TypeOK
  <2> QED
    BY <1>2, <2>1, <2>2 DEF TypeOK, disk, session, history
<1>11. Evidence'
  BY <1>2, <1>4, <1>5, <1>8, <1>9 DEF TypeOK, Evidence, DeliveredShown, disk, session, history
<1>12. Fresh'
  BY <1>2, <1>4, <1>5, <1>6, <1>8, <1>9 DEF TypeOK, Fresh, disk, session, history, Outcomes
<1>13. FinalIsOver'
  BY <1>4, <1>5, <1>7, <1>8, <1>9 DEF TypeOK, FinalIsOver, Calls, Outcomes
<1>14. KeptIsClaimed' /\ WakeOrSession' /\ WokenUnconfirmed' /\ Remembered'
  BY <1>2, <1>4, <1>9 DEF TypeOK, KeptIsClaimed, WakeOrSession, WokenUnconfirmed, Remembered,
                          disk, session, history, Outcomes
<1> QED
  BY <1>10, <1>11, <1>12, <1>13, <1>14

(* A row of a frame: repeated, refused, offered or queued. *)
LEMMA OnFrameKeeps == ASSUME IInv, NEW m \in Messages, OnFrame(m) PROVE IInv'
<1> USE DEF IInv, OnFrame, history
<1>1. fate[m] # "new"
  BY DEF Fresh
<1>2. ~ Claimed(m) => fate[m] # "held" \/ m \notin confirmed
  BY DEF Claimed, Remembered
<1>3. CASE RepeatsOutcome(m)
  <2>1. claims[m] \in Outcomes /\ calls' = calls \cup Call(m, claims[m])
    BY <1>3 DEF RepeatsOutcome, Claimed, TypeOK
  <2>2. UNCHANGED <<claims, pending, wakes, socket>>
    BY <1>3 DEF RepeatsOutcome, disk
  <2>3. TypeOK'
    BY <2>1, <2>2, CallShape DEF TypeOK
  <2>4. Evidence' /\ Fresh' /\ FinalIsOver'
    BY <1>1, <2>1, <2>2, CallShape DEF TypeOK, Evidence, DeliveredShown, Fresh, FinalIsOver, Final
  <2>5. KeptIsClaimed' /\ WakeOrSession' /\ WokenUnconfirmed' /\ Remembered'
    BY <2>1, <2>2 DEF KeptIsClaimed, WakeOrSession, WokenUnconfirmed, Remembered
  <2> QED
    BY <2>3, <2>4, <2>5
<1>4. CASE Refused(m)
  <2> USE <1>4 DEF Refused
  <2>1. "failed" \in Outcomes
    BY DEF Outcomes
  <2>3. TypeOK'
    BY <2>1, CallShape DEF TypeOK
  <2>4. Evidence' /\ Fresh' /\ FinalIsOver'
    BY <1>1, <2>1, CallShape DEF TypeOK, Evidence, DeliveredShown, Fresh, FinalIsOver, Final
  <2>5. KeptIsClaimed' /\ WakeOrSession' /\ WokenUnconfirmed' /\ Remembered'
    BY <1>2 DEF TypeOK, KeptIsClaimed, WakeOrSession, WokenUnconfirmed, Remembered
  <2> QED
    BY <2>3, <2>4, <2>5
<1>5. CASE OfferedRow(m)
  <2> USE <1>5 DEF OfferedRow
  <2>3. TypeOK'
    BY DEF TypeOK, Outcomes
  <2>4. Evidence' /\ Fresh' /\ FinalIsOver'
    BY <1>1 DEF TypeOK, Evidence, DeliveredShown, Fresh, FinalIsOver, Final
  <2>5. KeptIsClaimed' /\ WakeOrSession' /\ WokenUnconfirmed' /\ Remembered'
    BY <1>2 DEF TypeOK, KeptIsClaimed, WakeOrSession, WokenUnconfirmed, Remembered
  <2> QED
    BY <2>3, <2>4, <2>5
<1>6. CASE QueuedRow(m)
  <2>1. "waking" \in Outcomes
    BY DEF Outcomes
  <2>2. /\ claims' = [claims EXCEPT ![m] = "waking"]
        /\ pending' \subseteq pending \cup {m}
        /\ UNCHANGED socket
        /\ ~ Claimed(m)
    BY <1>6 DEF QueuedRow
  <2>3. /\ calls' \subseteq calls \cup Call(m, "waking")
        /\ wakes' = wakes \/ (~ live /\ wakes' = wakes \cup {m})
    BY <1>6 DEF QueuedRow
  <2>4. TypeOK'
    BY <2>1, <2>2, <2>3, CallShape DEF TypeOK
  <2>5. Evidence' /\ Fresh' /\ FinalIsOver'
    BY <1>1, <2>1, <2>2, <2>3, CallShape DEF TypeOK, Evidence, DeliveredShown, Fresh, FinalIsOver, Final
  <2>6. KeptIsClaimed' /\ WakeOrSession' /\ WokenUnconfirmed' /\ Remembered'
    BY <1>2, <2>2, <2>3 DEF TypeOK, KeptIsClaimed, WakeOrSession, WokenUnconfirmed, Remembered
  <2> QED
    BY <2>4, <2>5, <2>6
<1> QED
  BY <1>3, <1>4, <1>5, <1>6

(* A wake that ends for an unconfirmed row. *)
LEMMA WakeEndsKeeps == ASSUME IInv, NEW m \in Messages, WakeEnds(m) PROVE IInv'
<1> USE DEF IInv, WakeEnds, history, session
<1>1. fate[m] # "new" /\ m \in wakes /\ ~ live
  BY DEF Fresh, WakeOrSession
<1>2. PICK o \in {"failed", "waking"} :
        /\ calls' = calls \cup Call(m, o)
        /\ claims' = claims \/ claims' = [claims EXCEPT ![m] = "failed"]
        /\ pending' \subseteq pending
  BY DEF WakeFails, disk
<1>3. o \in Outcomes /\ "failed" \in Outcomes
  BY DEF Outcomes
<1>4. TypeOK'
  BY <1>2, <1>3, CallShape DEF TypeOK
<1>5. Evidence' /\ Fresh' /\ FinalIsOver'
  BY <1>1, <1>2, <1>3, CallShape DEF TypeOK, Evidence, DeliveredShown, Fresh, FinalIsOver, Final
<1>6. KeptIsClaimed' /\ WakeOrSession' /\ WokenUnconfirmed' /\ Remembered'
  BY <1>1, <1>2 DEF TypeOK, KeptIsClaimed, WakeOrSession, WokenUnconfirmed, Remembered
<1> QED
  BY <1>4, <1>5, <1>6

(* The answer to a call: a claim is dropped when its row is over. *)
LEMMA AckReplyKeeps == ASSUME IInv, AckReply PROVE IInv'
<1> USE DEF IInv, AckReply, history, session
<1>1. PICK c \in calls :
        /\ calls' = calls \ {c}
        /\ claims' = IF Final(c) THEN [claims EXCEPT ![c.row] = "none"] ELSE claims
  BY DEF Final
<1>2. c.row \in Messages
  BY DEF TypeOK, Calls
<1>3. \/ claims' = claims
      \/ /\ claims' = [claims EXCEPT ![c.row] = "none"]
         /\ fate[c.row] # "new" /\ fate[c.row] # "held"
  BY <1>1 DEF FinalIsOver
<1>4. TypeOK'
  BY <1>1, <1>2, <1>3 DEF TypeOK
<1>5. Evidence' /\ Fresh' /\ FinalIsOver'
  BY <1>1, <1>2, <1>3 DEF TypeOK, Evidence, DeliveredShown, Fresh, FinalIsOver, Final
<1>6. KeptIsClaimed' /\ WakeOrSession' /\ WokenUnconfirmed' /\ Remembered'
  BY <1>2, <1>3 DEF TypeOK, KeptIsClaimed, WakeOrSession, WokenUnconfirmed, Remembered
<1> QED
  BY <1>4, <1>5, <1>6

(* A confirmation reaches the pump. *)
LEMMA ConfirmationKeeps == ASSUME IInv, NEW m \in Messages, OnChannelDeliveryAck(m) PROVE IInv'
<1> USE DEF IInv, OnChannelDeliveryAck
<1>1. fate[m] # "new" /\ m \in shown /\ live /\ wakes = {}
  BY DEF Fresh, Evidence, WakeOrSession
<1>2. fate[m] = "held" => Claimed(m)
  BY DEF KeptIsClaimed, Claimed
<1>3. /\ calls' \subseteq calls \cup Call(m, "delivered")
      /\ \/ claims' = [claims EXCEPT ![m] = "delivered"]
         \/ claims' = claims /\ fate[m] # "held"
      /\ pending' \subseteq pending
  BY <1>2 DEF Confirmation
<1>4. "delivered" \in Outcomes
  BY DEF Outcomes
<1>5. TypeOK'
  BY <1>3, <1>4, CallShape DEF TypeOK
<1>6. Evidence' /\ Fresh' /\ FinalIsOver'
  BY <1>1, <1>3, <1>4, CallShape DEF TypeOK, Evidence, DeliveredShown, Fresh, FinalIsOver, Final
<1>7. KeptIsClaimed' /\ WakeOrSession' /\ WokenUnconfirmed' /\ Remembered'
  BY <1>1, <1>3 DEF TypeOK, KeptIsClaimed, WakeOrSession, WokenUnconfirmed, Remembered
<1> QED
  BY <1>5, <1>6, <1>7

(* The session connects and is offered what is kept for it. *)
LEMMA ConnectsKeeps == ASSUME IInv, SessionConnects PROVE IInv'
<1> USE DEF IInv, SessionConnects, disk, history
<1>1. "waking" \in Outcomes
  BY DEF Outcomes
<1>2. \A c \in calls' : c \in calls \/ \E m \in wakes : c \in Call(m, "waking")
  OBVIOUS
<1>3. \A c \in calls' : c \in calls \/
        (c \in Calls /\ c.row \in wakes /\ c.outcome = "waking" /\ c.answer = "none")
  BY <1>1, <1>2, CallShape DEF TypeOK
<1>4. calls' \subseteq Calls
  BY <1>3 DEF TypeOK
<1>5. TypeOK'
  BY <1>4 DEF TypeOK
<1>6. Evidence' /\ Fresh' /\ FinalIsOver'
  BY <1>3 DEF TypeOK, Evidence, DeliveredShown, Fresh, FinalIsOver, Final
<1>7. KeptIsClaimed' /\ WakeOrSession' /\ WokenUnconfirmed' /\ Remembered'
  BY DEF TypeOK, KeptIsClaimed, WakeOrSession, WokenUnconfirmed, Remembered
<1> QED
  BY <1>5, <1>6, <1>7

(* The session shows a message, or cannot. *)
LEMMA PushKeeps == ASSUME IInv, NEW m \in Messages, ChannelPush(m) PROVE IInv'
<1> USE DEF IInv, ChannelPush, disk, pump
<1>1. TypeOK'
  BY DEF TypeOK
<1>2. Evidence' /\ Fresh' /\ FinalIsOver'
  BY DEF TypeOK, Evidence, DeliveredShown, Fresh, FinalIsOver, Final
<1>3. KeptIsClaimed' /\ WakeOrSession' /\ WokenUnconfirmed' /\ Remembered'
  BY DEF TypeOK, KeptIsClaimed, WakeOrSession, WokenUnconfirmed, Remembered
<1> QED
  BY <1>1, <1>2, <1>3

(* A connection breaks. *)
LEMMA DropsKeep == ASSUME IInv, SessionDrops \/ LinkDrops PROVE IInv'
<1> USE DEF IInv, SessionDrops, LinkDrops, Breaks, disk, pump, session, history
<1>1. TypeOK'
  <2>1. up' \in BOOLEAN /\ link' \in BOOLEAN /\ fenced' \in BOOLEAN /\ live' \in BOOLEAN
    BY Zenon DEF TypeOK
  <2>2. breaks' \in 0 .. MaxBreaks
    BY BoundsAssumption DEF TypeOK
  <2> QED
    BY <2>1, <2>2 DEF TypeOK
<1>2. Evidence' /\ Fresh' /\ FinalIsOver'
  BY DEF TypeOK, Evidence, DeliveredShown, Fresh, FinalIsOver, Final
<1>3. KeptIsClaimed' /\ WakeOrSession' /\ WokenUnconfirmed' /\ Remembered'
  BY DEF TypeOK, KeptIsClaimed, WakeOrSession, WokenUnconfirmed, Remembered
<1> QED
  BY <1>1, <1>2, <1>3

(* The gateway ends, perhaps between two writes of a handler. *)
LEMMA EndsKeeps == ASSUME IInv, GatewayEnds PROVE IInv'
<1> USE DEF IInv, GatewayEnds, Breaks, history
<1>1. pending' \subseteq pending
  BY DEF disk
<1>2. \/ claims' = claims
      \/ \E m \in wire : claims[m] = "none" /\ claims' = [claims EXCEPT ![m] = "waking"]
      \/ \E m \in confirms : claims' = [claims EXCEPT ![m] = "delivered"]
  BY DEF disk, Claimed
<1>3. claims' \in [Messages -> Outcomes \cup {"none"}]
  BY <1>2 DEF TypeOK, Outcomes
<1>4. \A n \in Messages :
        \/ claims'[n] = claims[n]
        \/ /\ fate[n] # "new"
           /\ \/ claims'[n] = "waking" /\ claims[n] = "none"
              \/ claims'[n] = "delivered" /\ n \in shown
  BY <1>2 DEF TypeOK, Fresh, Evidence
<1>5. TypeOK'
  <2>1. up' \in BOOLEAN /\ link' \in BOOLEAN /\ fenced' \in BOOLEAN /\ live' \in BOOLEAN
    BY Zenon DEF TypeOK
  <2>2. breaks' \in 0 .. MaxBreaks
    BY BoundsAssumption DEF TypeOK
  <2> QED
    BY <1>1, <1>3, <2>1, <2>2 DEF TypeOK
<1>6. Evidence' /\ Fresh' /\ FinalIsOver'
  BY <1>1, <1>4 DEF TypeOK, Evidence, DeliveredShown, Fresh, FinalIsOver, Final
<1>7. KeptIsClaimed' /\ WakeOrSession' /\ WokenUnconfirmed' /\ Remembered'
  BY <1>1, <1>4 DEF TypeOK, KeptIsClaimed, WakeOrSession, WokenUnconfirmed, Remembered
<1> QED
  BY <1>5, <1>6, <1>7

(* Registration and redelivery, a start of the gateway, the fence. *)
LEMMA RestKeeps == ASSUME IInv, Register \/ GatewayStarts \/ FenceMoves PROVE IInv'
<1> USE DEF IInv, Register, PendingFor, held, GatewayStarts, FenceMoves, Breaks,
            disk, pump, session, history
<1>1. TypeOK'
  <2>1. up' \in BOOLEAN /\ link' \in BOOLEAN /\ fenced' \in BOOLEAN /\ live' \in BOOLEAN
    BY Zenon DEF TypeOK
  <2>2. breaks' \in 0 .. MaxBreaks
    BY BoundsAssumption DEF TypeOK
  <2> QED
    BY <2>1, <2>2 DEF TypeOK
<1>2. Evidence' /\ Fresh' /\ FinalIsOver'
  BY DEF TypeOK, Evidence, DeliveredShown, Fresh, FinalIsOver, Final
<1>3. KeptIsClaimed' /\ WakeOrSession' /\ WokenUnconfirmed' /\ Remembered'
  BY DEF TypeOK, KeptIsClaimed, WakeOrSession, WokenUnconfirmed, Remembered
<1> QED
  BY <1>1, <1>2, <1>3

(* Every step keeps the invariant. *)
LEMMA StepIInv == IInv /\ [Next]_vars => IInv'
<1> SUFFICES ASSUME IInv, [Next]_vars PROVE IInv'
  OBVIOUS
<1>1. CASE UNCHANGED vars
  BY <1>1 DEF vars, disk, pump, session, history, IInv, TypeOK, Evidence, DeliveredShown, Fresh,
              FinalIsOver, KeptIsClaimed, WakeOrSession, WokenUnconfirmed, Remembered
<1>2. CASE \E m \in Messages : AppendMessage(m) \/ RouterRetires(m) \/ OnFrame(m) \/ WakeEnds(m)
                               \/ OnChannelDeliveryAck(m) \/ ChannelPush(m)
  BY <1>2, AppendKeeps, RetiresKeeps, OnFrameKeeps, WakeEndsKeeps, ConfirmationKeeps, PushKeeps
<1>3. CASE Register \/ GatewayStarts \/ FenceMoves
  BY <1>3, RestKeeps
<1>4. CASE RouterAcks
  BY <1>4, RouterAcksKeeps
<1>5. CASE AckReply
  BY <1>5, AckReplyKeeps
<1>6. CASE SessionConnects
  BY <1>6, ConnectsKeeps
<1>7. CASE SessionDrops \/ LinkDrops
  BY <1>7, DropsKeep
<1>8. CASE GatewayEnds
  BY <1>8, EndsKeeps
<1> QED
  BY <1>1, <1>2, <1>3, <1>4, <1>5, <1>6, <1>7, <1>8 DEF Next

(* The invariant holds in every reachable state. *)
LEMMA Inductive == Spec => []IInv
<1> QED
  BY InitIInv, StepIInv, PTL DEF Spec

----------------------------------------------------------------------------
(* Acceptance, when the gateway ends only between two handlers and nothing *)
(* is fenced: the faults under which a claim may outlive what it stands    *)
(* for are excluded, not those of connections, sessions and the store.     *)

(* A row that is accepted and not yet known to be over is kept on disk.    *)
WakingIsKept == \A m \in Messages : fate[m] = "held" /\ claims[m] = "waking" => m \in pending

(* A row that no claim stands for is on its way to a registered gateway.   *)
UnclaimedOnWire == \A m \in Messages : fate[m] = "held" /\ claims[m] = "none" /\ link => m \in wire

HandInv == ~ fenced /\ WakingIsKept /\ UnclaimedOnWire

LEMMA InitHand == Init => HandInv
<1> QED
  BY DEF Init, HandInv, WakingIsKept, UnclaimedOnWire

(* Of the steps that write a claim or take a row off the wire or the disk. *)
LEMMA FrameInHand == ASSUME IInv, HandInv, NEW m \in Messages, OnFrame(m) PROVE HandInv'
<1> USE DEF IInv, TypeOK, HandInv, WakingIsKept, UnclaimedOnWire, OnFrame, Claimed, disk
<1>1. CASE RepeatsOutcome(m)
  BY <1>1 DEF RepeatsOutcome
<1>2. CASE Refused(m)
  BY <1>2 DEF Refused
<1>3. CASE OfferedRow(m)
  BY <1>3 DEF OfferedRow
<1>4. CASE QueuedRow(m)
  <2>1. claims' = [claims EXCEPT ![m] = "waking"] /\ pending' = pending \cup {m}
    BY <1>4 DEF QueuedRow
  <2> QED
    BY <2>1
<1> QED
  BY <1>1, <1>2, <1>3, <1>4

LEMMA PumpInHand ==
    ASSUME IInv, HandInv, NEW m \in Messages, WakeEnds(m) \/ OnChannelDeliveryAck(m)
    PROVE  HandInv'
<1> USE DEF IInv, TypeOK, HandInv, WakingIsKept, UnclaimedOnWire
<1>1. CASE WakeEnds(m)
  <2>1. \/ UNCHANGED <<claims, pending>>
        \/ claims' = [claims EXCEPT ![m] = "failed"] /\ pending' = pending \ {m}
    BY <1>1 DEF WakeEnds, WakeFails, disk
  <2>2. UNCHANGED <<fate, link, wire, fenced>>
    BY <1>1 DEF WakeEnds
  <2> QED
    BY <2>1, <2>2
<1>2. CASE OnChannelDeliveryAck(m)
  <2>1. fate[m] = "held" => Claimed(m)
    BY <1>2 DEF OnChannelDeliveryAck, KeptIsClaimed, Claimed
  <2>2. /\ \/ claims' = [claims EXCEPT ![m] = "delivered"]
           \/ claims' = claims /\ fate[m] # "held"
        /\ pending' = pending \ {m}
    BY <1>2, <2>1 DEF OnChannelDeliveryAck, Confirmation
  <2>3. UNCHANGED <<fate, link, wire, fenced>>
    BY <1>2 DEF OnChannelDeliveryAck
  <2> QED
    BY <2>2, <2>3
<1> QED
  BY <1>1, <1>2

LEMMA RouterInHand ==
    ASSUME IInv, HandInv,
           RouterAcks \/ AckReply \/ \E m \in Messages : AppendMessage(m) \/ RouterRetires(m)
    PROVE  HandInv'
<1> USE DEF IInv, TypeOK, HandInv, WakingIsKept, UnclaimedOnWire, disk, pump
<1>1. CASE RouterAcks
  <2>1. UNCHANGED <<claims, pending, link, wire, fenced>>
    BY <1>1 DEF RouterAcks
  <2>2. \A m \in Messages : fate'[m] = "held" => fate[m] = "held"
    BY <1>1 DEF RouterAcks, Calls, Outcomes, held
  <2> QED
    BY <2>1, <2>2
<1>2. CASE AckReply
  <2>1. \A m \in Messages : claims'[m] = claims[m] \/ (fate[m] # "held" /\ claims'[m] = "none")
    BY <1>2 DEF AckReply, Calls, FinalIsOver, Final
  <2>2. UNCHANGED <<fate, pending, link, wire, fenced>>
    BY <1>2 DEF AckReply
  <2> QED
    BY <2>1, <2>2
<1>3. CASE \E m \in Messages : AppendMessage(m)
  BY <1>3 DEF AppendMessage, Fresh
<1>4. CASE \E m \in Messages : RouterRetires(m)
  BY <1>4 DEF RouterRetires, held
<1> QED
  BY <1>1, <1>2, <1>3, <1>4

(* Every step keeps a row in hand, unless a fence or a cut may. *)
LEMMA StepHand ==
    ASSUME "cut" \notin Faults, "fence" \notin Faults
    PROVE  IInv /\ HandInv /\ [Next]_vars => HandInv'
<1> SUFFICES ASSUME IInv, HandInv, [Next]_vars PROVE HandInv'
  OBVIOUS
<1>1. CASE UNCHANGED vars
  BY <1>1 DEF vars, disk, pump, HandInv, WakingIsKept, UnclaimedOnWire
<1>2. CASE \E m \in Messages : OnFrame(m) \/ WakeEnds(m) \/ OnChannelDeliveryAck(m)
  BY <1>2, FrameInHand, PumpInHand
<1>3. CASE RouterAcks \/ AckReply \/ \E m \in Messages : AppendMessage(m) \/ RouterRetires(m)
  BY <1>3, RouterInHand
<1>4. CASE Register
  BY <1>4 DEF Register, PendingFor, held, disk, HandInv, WakingIsKept, UnclaimedOnWire
<1>5. CASE SessionConnects \/ SessionDrops \/ \E m \in Messages : ChannelPush(m)
  BY <1>5 DEF SessionConnects, SessionDrops, ChannelPush, disk, pump, HandInv, WakingIsKept, UnclaimedOnWire
<1>6. CASE LinkDrops \/ GatewayEnds \/ GatewayStarts
  BY <1>6 DEF LinkDrops, GatewayEnds, GatewayStarts, IInv, TypeOK, disk, pump,
              HandInv, WakingIsKept, UnclaimedOnWire
<1>7. CASE FenceMoves
  BY <1>7 DEF FenceMoves
<1> QED
  BY <1>1, <1>2, <1>3, <1>4, <1>5, <1>6, <1>7 DEF Next

----------------------------------------------------------------------------
(* Theorems *)

(* Rows, claims, calls and sockets are well formed whatever breaks. *)
THEOREM TypeCorrect == Spec => []TypeOK
<1>1. IInv => TypeOK
  BY DEF IInv
<1> QED
  BY <1>1, Inductive, PTL

(* The Router calls a row delivered only after the session has shown it,   *)
(* for any number of messages and any failure of gateway, session, store   *)
(* and connections (RouterAcks, Confirmation, ChannelPush).                *)
THEOREM DeliveredWasShown == Spec => []DeliveredShown
<1>1. IInv => DeliveredShown
  BY DEF IInv, Evidence
<1> QED
  BY <1>1, Inductive, PTL

(* The gateway keeps what the session confirmed on disk until the Router   *)
(* has let go of the row, so that a redelivery repeats the outcome and not *)
(* the message (OnChannelDeliveryAck, AckReply, GatewayEnds).              *)
THEOREM ConfirmationsSurvive == Spec => []ConfirmedRemembered
<1>1. IInv => ConfirmedRemembered
  BY DEF IInv, Remembered, ConfirmedRemembered, held
<1> QED
  BY <1>1, Inductive, PTL

(* Acceptance is a promise: whatever connections, sessions, the store and  *)
(* stops of the gateway between its handlers do, a registered gateway has  *)
(* every held row on its way, on disk, or its outcome.  (With a fence, and *)
(* with a stop between the two writes of a handler, it has not: a claim    *)
(* can stand for a row that nobody keeps.)                                 *)
THEOREM AcceptedInHand ==
    ASSUME "cut" \notin Faults, "fence" \notin Faults
    PROVE  Spec => []InHand
<1>1. IInv /\ HandInv => InHand
  BY DEF IInv, TypeOK, HandInv, WakingIsKept, UnclaimedOnWire, InHand, held, Outcomes
<1>2. Spec => []HandInv
  BY Inductive, InitHand, StepHand, PTL DEF Spec
<1> QED
  BY <1>1, <1>2, Inductive, PTL
=============================================================================
