---------------------------- MODULE GatewayProofs ----------------------------
(***************************************************************************)
(* Theorems about the parts of a gateway beside the delivery of messages:  *)
(* the content keys its rows wait for (ContentKeys), the replies of a      *)
(* conversation with a session of another gateway (Crosstalk), the         *)
(* presence its Router shows (Presence), the turns of an agent's thread    *)
(* (ThreadLifecycle) and the agents of a daemon (CodexAgents).             *)
(***************************************************************************)
EXTENDS ContentKeys, Crosstalk, Presence, ThreadLifecycle, CodexAgents, FiniteSetTheorems, SequenceTheorems, TLAPS

-----------------------------------------------------------------------------
(* Content keys *)

KeyTypes ==
    /\ wanted \subseteq Epochs
    /\ atRouter \in [Epochs -> {"new", "again", "pending", "landed", "lost"}]

\* The gateway remembers a row it acked as waking, or lost it to a stale claim.
PendingHeld == \A e \in Epochs : atRouter[e] = "pending" => e \in waiting \cup stranded

\* Of the parked rows, those whose key is held are about to be delivered.
ParkedUnkeyed == waiting \cap keysHeld \subseteq granting

KeyInv ==
    /\ KeyTypes
    /\ RequestsGoOn
    /\ ParkedAwaited
    /\ PendingHeld
    /\ ParkedUnkeyed

\* A row whose key is held and receipted is not pending unless it was stranded:
\* it would be parked, and a parked row's key is not receipted yet.
LEMMA KeyInvSuffices == KeyInv /\ keysHeld \subseteq Epochs => KeysLandRows
<1>1. SUFFICES ASSUME KeyInv, keysHeld \subseteq Epochs,
                      NEW e \in keysHeld \ granting
               PROVE  atRouter[e] \in {"landed", "lost", "new", "again"} \/ e \in stranded
  BY <1>1 DEF KeyInv, KeysLandRows, KeyedRowsLand
<1>2. e \in Epochs /\ e \notin waiting
  BY <1>1 DEF KeyInv, ParkedUnkeyed
<1>3. atRouter[e] \in {"new", "again", "pending", "landed", "lost"}
  BY <1>1, <1>2 DEF KeyInv, KeyTypes
<1>. QED  BY <1>1, <1>2, <1>3 DEF KeyInv, PendingHeld

LEMMA KeyInvInit == KeyInit => KeyInv /\ keysHeld \subseteq Epochs
BY DEF KeyInit, KeyInv, KeyTypes, RequestsGoOn, ParkedAwaited, PendingHeld, ParkedUnkeyed

\* A set of epochs is not the mark of an idle requester (keyRequester.ts).
LEMMA EpochsAreNoMark == \A S \in SUBSET Epochs : S # NotSending
BY EpochsAssumption DEF NotSending

\* The requester asks: what is wanted is on its way (keyRequester.ts send).
LEMMA SendKeeps == KeyInv /\ send => KeyInv'
<1>. SUFFICES ASSUME KeyInv, send  PROVE KeyInv'
  OBVIOUS
<1>1. PICK old \in SUBSET wanted : /\ expired' = expired \cup old
                                   /\ wanted' = wanted \ old
                                   /\ sending' = wanted'
  BY DEF send
<1>2. wanted' \subseteq Epochs
  BY <1>1 DEF KeyInv, KeyTypes
<1>3. isSending'
  BY <1>1, <1>2, EpochsAreNoMark DEF isSending
<1>4. UNCHANGED <<keysHeld, waiting, granting, atRouter, stranded>>
  BY DEF send
<1>5. ParkedAwaited'
  BY <1>1, <1>4 DEF KeyInv, ParkedAwaited
<1>. QED  BY <1>2, <1>3, <1>4, <1>5 DEF KeyInv, KeyTypes, RequestsGoOn, PendingHeld, ParkedUnkeyed

\* The request was sent or failed: the next one is armed (keyRequester.ts).
LEMMA SendDoneKeeps == KeyInv /\ SendDone => KeyInv'
<1>. SUFFICES ASSUME KeyInv, SendDone  PROVE KeyInv'
  OBVIOUS
<1>1. UNCHANGED <<keysHeld, wanted, expired, waiting, granting, atRouter, stranded>>
  BY DEF SendDone
<1>2. wanted # {} => keyTimer' # "none"
  BY DEF SendDone
<1>. QED  BY <1>1, <1>2 DEF KeyInv, KeyTypes, RequestsGoOn, ParkedAwaited, PendingHeld, ParkedUnkeyed

\* What delivering a row again does to it and to the rows beside it.
LEMMA RedeliveredLands ==
    ASSUME KeyTypes, NEW e \in Epochs, Redelivered(e)
    PROVE  /\ atRouter' \in [Epochs -> {"new", "again", "pending", "landed", "lost"}]
           /\ stranded \subseteq stranded'
           /\ atRouter'[e] = "pending" => e \in stranded'
           /\ \A f \in Epochs \ {e} : atRouter'[f] = atRouter[f]
<1>1. CASE e \in claim
  BY <1>1 DEF Redelivered, KeyTypes
<1>2. CASE e \notin claim
  BY <1>2 DEF Redelivered, KeyTypes
<1>. QED  BY <1>1, <1>2

\* The Router offers a row (inboxDeliveryPump.ts deliverRow).
LEMMA DeliverRowKeeps ==
    ASSUME KeyInv, NEW e \in Epochs, deliverRow(e)
    PROVE  KeyInv'
<1>1. UNCHANGED <<keysHeld, sending, expired, granting>>
  BY DEF deliverRow
<1>2. CASE e \in claim \/ e \in keysHeld
  <2>1. Redelivered(e) /\ UNCHANGED <<wanted, keyTimer, waiting>>
    BY <1>2 DEF deliverRow
  <2>2. KeyTypes
    BY DEF KeyInv
  <2>3. KeyTypes' /\ PendingHeld'
    BY <2>1, <2>2, RedeliveredLands DEF KeyInv, KeyTypes, PendingHeld
  <2>. QED  BY <1>1, <2>1, <2>3 DEF KeyInv, RequestsGoOn, isSending, ParkedAwaited, ParkedUnkeyed
<1>3. CASE e \notin claim /\ e \notin keysHeld
  <2>1. /\ atRouter' = [atRouter EXCEPT ![e] = "pending"]
        /\ waiting' = waiting \cup {e}
        /\ request(e)
        /\ UNCHANGED stranded
    BY <1>3 DEF deliverRow
  <2>2. /\ wanted' = wanted \cup {e}
        /\ keyTimer' # "none" \/ isSending' \/ (wanted' = wanted /\ UNCHANGED keyTimer)
    BY <1>1, <2>1 DEF request, isSending
  <2>3. KeyTypes'
    BY <2>1, <2>2 DEF KeyInv, KeyTypes
  <2>4. RequestsGoOn'
    BY <1>1, <2>2 DEF KeyInv, RequestsGoOn, isSending
  <2>5. ParkedAwaited' /\ ParkedUnkeyed'
    BY <1>1, <1>3, <2>1, <2>2 DEF KeyInv, ParkedAwaited, ParkedUnkeyed
  <2>6. PendingHeld'
    BY <2>1 DEF KeyInv, KeyTypes, PendingHeld
  <2>. QED  BY <2>3, <2>4, <2>5, <2>6 DEF KeyInv
<1>. QED  BY <1>2, <1>3

\* A grant is receipted and the rows that wait for it are delivered: they leave
\* the parking in the step in which the grant leaves the receipts (contentKeyStore.ts).
LEMMA GrantReceiptedKeeps ==
    ASSUME KeyInv, NEW e \in Epochs, GrantReceipted(e)
    PROVE  KeyInv'
<1>1. /\ granting' = granting \ {e}
      /\ UNCHANGED <<keysHeld, sending, expired>>
  BY DEF GrantReceipted
<1>2. /\ wanted' = wanted \ {e}
      /\ wanted' = {} \/ keyTimer' = keyTimer
  BY DEF GrantReceipted, installed
<1>3. KeyTypes
  BY DEF KeyInv
<1>4. /\ waiting' = waiting \ {e}
      /\ atRouter' \in [Epochs -> {"new", "again", "pending", "landed", "lost"}]
      /\ PendingHeld'
  <2>1. CASE e \in waiting
    <3>1. waiting' = waiting \ {e} /\ Redelivered(e)
      BY <2>1 DEF GrantReceipted, retryWaiting
    <3>. QED  BY <3>1, <1>3, RedeliveredLands DEF KeyInv, PendingHeld
  <2>2. CASE e \notin waiting
    <3>1. UNCHANGED <<waiting, atRouter, stranded>>
      BY <2>2 DEF GrantReceipted, retryWaiting
    <3>. QED  BY <3>1, <2>2 DEF KeyInv, KeyTypes, PendingHeld
  <2>. QED  BY <2>1, <2>2
<1>5. KeyTypes'
  BY <1>2, <1>4 DEF KeyInv, KeyTypes
<1>6. RequestsGoOn'
  BY <1>1, <1>2 DEF KeyInv, RequestsGoOn, isSending
<1>7. ParkedAwaited' /\ ParkedUnkeyed'
  BY <1>1, <1>2, <1>4 DEF KeyInv, ParkedAwaited, ParkedUnkeyed
<1>. QED  BY <1>4, <1>5, <1>6, <1>7 DEF KeyInv

\* The gateway registers again, with what it remembers or with nothing.
LEMMA ReregisterKeeps == KeyInv /\ Reregister => KeyInv'
<1>. SUFFICES ASSUME KeyInv, Reregister  PROVE KeyInv'
  OBVIOUS
<1>. DEFINE below == {e \in Epochs \ keysHeld : \A h \in keysHeld : e < h}
<1>1. /\ atRouter' = [e \in Epochs |-> IF atRouter[e] = "pending" THEN "again" ELSE atRouter[e]]
      /\ UNCHANGED keysHeld
  BY DEF Reregister
<1>2. /\ \A e \in Epochs : atRouter'[e] # "pending"
      /\ atRouter' \in [Epochs -> {"new", "again", "pending", "landed", "lost"}]
  BY <1>1 DEF KeyInv, KeyTypes
<1>3. PendingHeld'
  BY <1>2 DEF PendingHeld
<1>4. below \subseteq Epochs
  OBVIOUS
<1>5. CASE /\ wanted' = wanted \cup below
           /\ keyTimer' = IF below \subseteq wanted \/ isSending THEN keyTimer ELSE "now"
           /\ UNCHANGED <<sending, waiting, granting, expired, stranded>>
  <2>. HIDE DEF below
  <2>1. KeyTypes'
    BY <1>2, <1>4, <1>5 DEF KeyInv, KeyTypes
  <2>2. RequestsGoOn'
    BY <1>5 DEF KeyInv, RequestsGoOn, isSending
  <2>3. ParkedAwaited' /\ ParkedUnkeyed'
    BY <1>1, <1>5 DEF KeyInv, ParkedAwaited, ParkedUnkeyed
  <2>. QED  BY <1>3, <2>1, <2>2, <2>3 DEF KeyInv
<1>6. CASE /\ wanted' = below
           /\ keyTimer' = ArmedNow(below)
           /\ waiting' = {}
  <2>. HIDE DEF below
  <2>1. KeyTypes'
    BY <1>2, <1>4, <1>6 DEF KeyTypes
  <2>2. RequestsGoOn'
    BY <1>6 DEF RequestsGoOn, ArmedNow
  <2>3. ParkedAwaited' /\ ParkedUnkeyed'
    BY <1>6 DEF ParkedAwaited, ParkedUnkeyed
  <2>. QED  BY <1>3, <2>1, <2>2, <2>3 DEF KeyInv
<1>. QED  BY <1>5, <1>6 DEF Reregister

LEMMA KeyInvNext == KeyInv /\ [KeyNext]_keyVars => KeyInv'
<1>. SUFFICES ASSUME KeyInv, [KeyNext]_keyVars  PROVE KeyInv'
  OBVIOUS
<1>. USE DEF KeyInv, KeyTypes, RequestsGoOn, isSending, ParkedAwaited, PendingHeld, ParkedUnkeyed
<1>1. CASE send
  BY <1>1, SendKeeps
<1>2. CASE SendDone
  BY <1>2, SendDoneKeeps
<1>3. CASE Reregister
  BY <1>3, ReregisterKeeps
<1>4. ASSUME NEW e \in Epochs, deliverRow(e)  PROVE KeyInv'
  BY <1>4, DeliverRowKeeps
<1>5. ASSUME NEW e \in Epochs, ParkingAcked(e)  PROVE KeyInv'
  BY <1>5 DEF ParkingAcked, requesterVars
<1>6. ASSUME NEW e \in Epochs, landGrant(e)  PROVE KeyInv'
  BY <1>6 DEF landGrant, requesterVars
<1>7. ASSUME NEW e \in Epochs, GrantReceipted(e)  PROVE KeyInv'
  BY <1>7, GrantReceiptedKeeps
<1>8. ASSUME NEW e \in Epochs, onKeyRequest(e)  PROVE KeyInv'
  BY <1>8 DEF onKeyRequest, requesterVars
<1>9. ASSUME NEW e \in Epochs, GrantWindowPasses(e)  PROVE KeyInv'
  BY <1>9 DEF GrantWindowPasses, requesterVars
<1>10. CASE UNCHANGED keyVars
  BY <1>10 DEF keyVars
<1>. QED  BY <1>1, <1>2, <1>3, <1>4, <1>5, <1>6, <1>7, <1>8, <1>9, <1>10 DEF KeyNext

\* Keys are installed for epochs only (contentKeyStore.ts).
LEMMA KeysAreEpochs == keysHeld \subseteq Epochs /\ [KeyNext]_keyVars => (keysHeld \subseteq Epochs)'
BY DEF KeyNext, keyVars, send, SendDone, Reregister, deliverRow, ParkingAcked, landGrant, GrantReceipted,
       onKeyRequest, GrantWindowPasses

\* A row that came before its key is neither forgotten while the key is asked
\* for nor left lying once it is here, for any number of epochs, whatever is
\* lost between the gateway, the Router and the phone, over every restart
\* (keyRequester.ts, inboxDeliveryPump.ts, contentKeyStore.ts).
THEOREM ParkedRowsLand == KeySpec => []KeysLandRows
<1>1. KeySpec => [](KeyInv /\ keysHeld \subseteq Epochs)
  BY KeyInvInit, KeyInvNext, KeysAreEpochs, PTL DEF KeySpec
<1>. QED  BY <1>1, KeyInvSuffices, PTL

-----------------------------------------------------------------------------
(* Replies between gateways *)

Calls == [kind : {"send", "reply"}, n : Nat, stage : {"out", "ok", "failed"}, waiting : BOOLEAN]
RelayStates == {"unsaid", "trying", "sent", "gave up", "dropped", "forgotten"}
OpRows == ({"send"} \X Nat) \cup ({"reply"} \X Replies)

JobTypes ==
    /\ sent \in Nat
    /\ askJob \in 0 .. NoJob
    /\ fence \in [at : {"none", "asker", "target"}, up : BOOLEAN]
    /\ relay \in [Replies -> [state : RelayStates, attempts : Nat]]
    /\ landings \in [Replies -> Nat]
    /\ relays \subseteq Calls
    /\ \A c \in relays : c.kind = "reply" => c.n \in Replies
    /\ inboxRows \subseteq ledger /\ ledger \subseteq OpRows

Tried(n) == \E c \in relays : c.kind = "reply" /\ c.n = n /\ c.waiting
Arrived(n) == landings[n] > 0 \/ <<"reply", n>> \in ledger \/ fence.at = "asker"

TryingTried == \A n \in Replies : relay[n].state = "trying" => Tried(n)
SentArrived == \A n \in Replies : relay[n].state = "sent" => Arrived(n)

\* An answer that says a reply was taken is true of the asker's side.
AnswersTrue == \A c \in relays : c.kind = "reply" /\ c.stage = "ok" => Arrived(c.n)

\* Between Domains a reply that landed had its row in the ledger, and has it
\* no longer in the inbox: the operation id cannot bring another one.
RowsLandOnce ==
    cross => \A n \in Replies :
        landings[n] = 0 \/ (landings[n] = 1 /\ <<"reply", n>> \in ledger \ inboxRows)

JobInv ==
    /\ JobTypes
    /\ TryingTried
    /\ SentArrived
    /\ AnswersTrue
    /\ RowsLandOnce
    /\ ReplyReadable

LEMMA JobInvSuffices == JobInv => RepliesKept
<1>1. JobInv => ReplyOnce
  <2>1. SUFFICES ASSUME JobInv, cross, NEW n \in Replies  PROVE landings[n] <= 1
    BY DEF ReplyOnce
  <2>2. landings[n] = 0 \/ landings[n] = 1
    BY <2>1 DEF JobInv, RowsLandOnce
  <2>. QED  BY <2>2
<1>2. JobInv => ReplyAccounted
  BY DEF JobInv, ReplyAccounted, TryingTried, Tried, SentArrived, Arrived
<1>. QED  BY <1>1, <1>2 DEF JobInv, RepliesKept

LEMMA JobInvInit == JobInit => JobInv
<1>. SUFFICES ASSUME JobInit  PROVE JobInv
  OBVIOUS
<1>1. NoJob \in 0 .. NoJob
  BY RepliesAssumption DEF NoJob
<1>2. relay \in [Replies -> [state : RelayStates, attempts : Nat]] /\ \A n \in Replies : relay[n].state = "unsaid"
  BY DEF JobInit, RelayStates
<1>3. landings \in [Replies -> Nat] /\ \A n \in Replies : landings[n] = 0
  BY DEF JobInit
<1>4. /\ relays = {} /\ sent = 0 /\ inboxRows = {} /\ ledger = {} /\ askJob = NoJob
      /\ fence = [at |-> "none", up |-> FALSE]
  BY DEF JobInit
<1>. QED  BY <1>1, <1>2, <1>3, <1>4 DEF JobInv, JobTypes, TryingTried, SentArrived, AnswersTrue, RowsLandOnce,
                                        ReplyReadable

\* What arrived stays arrived.
LEMMA ArrivedStays ==
    ASSUME NEW n \in Replies, Arrived(n), JobTypes, landings'[n] \in Nat, landings'[n] >= landings[n],
           ledger \subseteq ledger', fence.at = "asker" => fence'.at = "asker"
    PROVE  Arrived(n)'
BY DEF Arrived, JobTypes

\* A step that leaves the replies alone on the asker's side.
JobRest == UNCHANGED <<askJob, relay, landings, ledger, inboxRows, cross>>

\* An operation at the gateway it is for: a reply that lands finds the job, one
\* that does not is refused or the fence answers for it (gatewayRelay.ts).
LEMMA HandledLands ==
    ASSUME JobTypes, NEW kind \in {"send", "reply"}, NEW n \in Nat, kind = "reply" => n \in Replies,
           NEW ok \in BOOLEAN, Handled(kind, n, ok)
    PROVE  /\ askJob' \in 0 .. NoJob
           /\ landings' \in [Replies -> Nat]
           /\ \A m \in Replies : landings'[m] = landings[m]
                                 \/ (kind = "reply" /\ m = n /\ landings'[m] = landings[m] + 1)
           /\ landings' # landings => askJob' \in Replies
           /\ askJob \in Replies => askJob' \in Replies
           /\ kind = "reply" /\ ok => landings'[n] > 0 \/ fence.at = "asker"
<1>1. CASE kind = "send"
  BY <1>1 DEF Handled, Fenced, JobTypes
<1>2. CASE kind = "reply" /\ Fenced("asker")
  BY <1>2 DEF Handled, Fenced, JobTypes
<1>3. CASE kind = "reply" /\ ~Fenced("asker")
  <2>1. /\ ok = (askJob # NoJob)
        /\ askJob' = deliver(askJob, n)
        /\ landings' = [landings EXCEPT ![n] = IF ok THEN @ + 1 ELSE @]
    BY <1>3 DEF Handled
  <2>2. n \in Replies /\ Replies \subseteq 0 .. NoJob /\ NoJob \notin Replies /\ NoJob \in 0 .. NoJob
    BY <1>3, RepliesAssumption DEF Replies, NoJob
  <2>3. /\ askJob' \in 0 .. NoJob
        /\ askJob \in Replies => askJob' \in Replies
        /\ ok => askJob' \in Replies
    BY <2>1, <2>2 DEF deliver
  <2>4. CASE ok
    BY <1>3, <2>1, <2>2, <2>3, <2>4 DEF JobTypes
  <2>5. CASE ~ok
    <3>1. landings' = landings
      BY <2>1, <2>5 DEF JobTypes
    <3>. QED  BY <2>3, <2>5, <3>1 DEF JobTypes
  <2>. QED  BY <2>4, <2>5
<1>. QED  BY <1>1, <1>2, <1>3

LEMMA NewCallTyped ==
    /\ \A n \in Nat : /\ NewCall("send", n) \in Calls /\ NewCall("send", n).kind = "send"
                      /\ NewCall("reply", n) \in Calls
    /\ \A n \in Nat : /\ NewCall("reply", n).kind = "reply" /\ NewCall("reply", n).n = n
                      /\ NewCall("reply", n).stage = "out" /\ NewCall("reply", n).waiting
BY DEF NewCall, Calls

LEMMA SendCrossKeeps == JobInv /\ sendCrossGateway => JobInv'
<1>. SUFFICES ASSUME JobInv, sendCrossGateway  PROVE JobInv'
  OBVIOUS
<1>1. /\ sent' = sent + 1 /\ relays' = relays \cup {NewCall("send", sent + 1)}
      /\ UNCHANGED <<cross, linked, askJob, ledger, inboxRows, relay, landings, fence, stopped>>
  BY DEF sendCrossGateway
<1>2. sent + 1 \in Nat
  BY DEF JobInv, JobTypes
<1>3. NewCall("send", sent + 1) \in Calls /\ NewCall("send", sent + 1).kind = "send"
  BY <1>2, NewCallTyped
<1>4. JobTypes'
  BY <1>1, <1>2, <1>3 DEF JobInv, JobTypes
<1>5. TryingTried'
  BY <1>1 DEF JobInv, TryingTried, Tried
<1>6. AnswersTrue' /\ SentArrived'
  BY <1>1, <1>3 DEF JobInv, AnswersTrue, SentArrived, Arrived
<1>7. RowsLandOnce' /\ ReplyReadable'
  BY <1>1 DEF JobInv, RowsLandOnce, ReplyReadable
<1>. QED  BY <1>4, <1>5, <1>6, <1>7 DEF JobInv

LEMMA RespondKeeps == JobInv /\ respond => JobInv'
<1>. SUFFICES ASSUME JobInv, respond  PROVE JobInv'
  OBVIOUS
<1>1. UNCHANGED <<cross, linked, askJob, ledger, inboxRows, sent, landings, fence, stopped>>
  BY DEF respond
<1>2. PICK n \in Replies :
         \/ relay' = [relay EXCEPT ![n].state = "dropped"] /\ UNCHANGED relays
         \/ /\ relay' = [relay EXCEPT ![n].state = "trying"]
            /\ relays' = relays \cup {NewCall("reply", n)}
  BY DEF respond
<1>3. n \in Nat
  BY DEF Replies
<1>4. /\ NewCall("reply", n) \in Calls /\ NewCall("reply", n).kind = "reply" /\ NewCall("reply", n).n = n
      /\ NewCall("reply", n).stage = "out" /\ NewCall("reply", n).waiting
  BY <1>3, NewCallTyped
<1>5. /\ relay' \in [Replies -> [state : RelayStates, attempts : Nat]]
      /\ \A m \in Replies : m # n => relay'[m] = relay[m]
      /\ relay'[n].state \in {"dropped", "trying"}
      /\ relay'[n].state = "trying" => relays' = relays \cup {NewCall("reply", n)}
  <2>1. relay \in [Replies -> [state : RelayStates, attempts : Nat]]
    BY DEF JobInv, JobTypes
  <2>2. relay[n] \in [state : RelayStates, attempts : Nat]
    BY <2>1
  <2>3. \A st \in RelayStates :
           /\ [relay EXCEPT ![n].state = st] \in [Replies -> [state : RelayStates, attempts : Nat]]
           /\ [relay EXCEPT ![n].state = st][n].state = st
           /\ \A m \in Replies : m # n => [relay EXCEPT ![n].state = st][m] = relay[m]
    BY <2>1, <2>2
  <2>4. "dropped" \in RelayStates /\ "trying" \in RelayStates
    BY DEF RelayStates
  <2>5. CASE relay' = [relay EXCEPT ![n].state = "dropped"]
    BY <2>3, <2>4, <2>5
  <2>6. CASE relay' = [relay EXCEPT ![n].state = "trying"] /\ relays' = relays \cup {NewCall("reply", n)}
    BY <2>3, <2>4, <2>6
  <2>. QED  BY <1>2, <2>5, <2>6
<1>6. JobTypes'
  BY <1>1, <1>2, <1>4, <1>5 DEF JobInv, JobTypes
<1>7. TryingTried'
  <2>1. ASSUME NEW m \in Replies, relay'[m].state = "trying"  PROVE Tried(m)'
    <3>1. CASE m = n
      BY <3>1, <2>1, <1>4, <1>5 DEF Tried
    <3>2. CASE m # n
      BY <3>2, <2>1, <1>2, <1>5 DEF JobInv, TryingTried, Tried
    <3>. QED  BY <3>1, <3>2
  <2>. QED  BY <2>1 DEF TryingTried
<1>8. SentArrived'
  BY <1>1, <1>5 DEF JobInv, SentArrived, Arrived
<1>9. AnswersTrue'
  BY <1>1, <1>2, <1>4 DEF JobInv, AnswersTrue, Arrived
<1>10. RowsLandOnce' /\ ReplyReadable'
  BY <1>1 DEF JobInv, RowsLandOnce, ReplyReadable
<1>. QED  BY <1>6, <1>7, <1>8, <1>9, <1>10 DEF JobInv

\* Within a Domain a call is handled and answered in one step of the Router.
LEMMA RelayHandledKeeps ==
    ASSUME JobInv, NEW c \in relays, RelayHandled(c)
    PROVE  JobInv'
<1>1. PICK ok \in BOOLEAN :
         /\ Handled(c.kind, c.n, ok)
         /\ relays' = (relays \ {c}) \cup
                     (IF c.waiting THEN {[c EXCEPT !.stage = IF ok THEN "ok" ELSE "failed"]} ELSE {})
  BY DEF RelayHandled
<1>2. /\ UNCHANGED <<cross, linked, ledger, inboxRows, sent, relay, fence, stopped>>
      /\ ~cross
  BY DEF RelayHandled
<1>3. JobTypes /\ c \in Calls
  BY DEF JobInv, JobTypes
<1>4. c.kind \in {"send", "reply"} /\ c.n \in Nat /\ (c.kind = "reply" => c.n \in Replies)
  BY <1>3 DEF Calls, JobTypes
<1>5. /\ askJob' \in 0 .. NoJob
      /\ landings' \in [Replies -> Nat]
      /\ \A m \in Replies : landings'[m] = landings[m]
                            \/ (c.kind = "reply" /\ m = c.n /\ landings'[m] = landings[m] + 1)
      /\ landings' # landings => askJob' \in Replies
      /\ askJob \in Replies => askJob' \in Replies
      /\ c.kind = "reply" /\ ok => landings'[c.n] > 0 \/ fence.at = "asker"
  BY <1>1, <1>3, <1>4, HandledLands
<1>. DEFINE d == [c EXCEPT !.stage = IF ok THEN "ok" ELSE "failed"]
<1>6. /\ d \in Calls /\ d.kind = c.kind /\ d.n = c.n /\ d.waiting = c.waiting
      /\ d.stage = "ok" <=> ok
  BY <1>3 DEF Calls
<1>7. relays' = (relays \ {c}) \cup (IF c.waiting THEN {d} ELSE {})
  BY <1>1
<1>. HIDE DEF d
<1>8. JobTypes'
  BY <1>2, <1>3, <1>4, <1>5, <1>6, <1>7 DEF JobTypes
<1>9. TryingTried'
  <2>1. ASSUME NEW m \in Replies, relay[m].state = "trying"  PROVE Tried(m)'
    <3>1. PICK e \in relays : e.kind = "reply" /\ e.n = m /\ e.waiting
      BY <2>1 DEF JobInv, TryingTried, Tried
    <3>2. CASE e = c
      BY <3>1, <3>2, <1>6, <1>7 DEF Tried
    <3>3. CASE e # c
      BY <3>1, <3>3, <1>7 DEF Tried
    <3>. QED  BY <3>2, <3>3
  <2>. QED  BY <2>1, <1>2 DEF TryingTried
<1>10. \A m \in Replies : Arrived(m) => Arrived(m)'
  BY <1>2, <1>3, <1>5 DEF Arrived, JobTypes
<1>11. SentArrived'
  BY <1>2, <1>10 DEF JobInv, SentArrived
<1>12. AnswersTrue'
  <2>1. ASSUME NEW e \in relays', e.kind = "reply", e.stage = "ok"  PROVE Arrived(e.n)'
    <3>1. CASE e = d
      BY <2>1, <3>1, <1>2, <1>5, <1>6 DEF Arrived
    <3>2. CASE e # d
      <4>1. e \in relays /\ e.n \in Replies
        BY <2>1, <3>2, <1>3, <1>7 DEF JobTypes
      <4>. QED  BY <2>1, <4>1, <1>10 DEF JobInv, AnswersTrue
    <3>. QED  BY <3>1, <3>2
  <2>. QED  BY <2>1 DEF AnswersTrue
<1>13. RowsLandOnce'
  BY <1>2 DEF RowsLandOnce
<1>14. ReplyReadable'
  BY <1>2, <1>5 DEF JobInv, ReplyReadable
<1>. QED  BY <1>8, <1>9, <1>11, <1>12, <1>13, <1>14 DEF JobInv

\* Between Domains the Router appends the row of an operation id once (relayRouter.ts).
LEMMA RouterAppendsKeeps ==
    ASSUME JobInv, NEW c \in relays, RouterAppends(c)
    PROVE  JobInv'
<1>. DEFINE row == <<c.kind, c.n>>
            d   == [c EXCEPT !.stage = IF linked THEN "ok" ELSE "failed"]
<1>1. /\ ledger' = IF linked THEN ledger \cup {row} ELSE ledger
      /\ inboxRows' = IF linked /\ row \notin ledger THEN inboxRows \cup {row} ELSE inboxRows
      /\ relays' = (relays \ {c}) \cup (IF c.waiting THEN {d} ELSE {})
      /\ UNCHANGED <<cross, linked, askJob, sent, relay, landings, fence, stopped>>
  BY DEF RouterAppends
<1>2. JobTypes /\ c \in Calls /\ (c.kind = "reply" => c.n \in Replies)
  BY DEF JobInv, JobTypes
<1>3. c.kind \in {"send", "reply"} /\ c.n \in Nat
  BY <1>2 DEF Calls
<1>4. row \in OpRows
  BY <1>2, <1>3 DEF OpRows
<1>5. /\ d \in Calls /\ d.kind = c.kind /\ d.n = c.n /\ d.waiting = c.waiting
      /\ d.stage = "ok" => linked
  BY <1>2 DEF Calls
<1>6. c.kind = "reply" => row = <<"reply", c.n>>
  OBVIOUS
<1>7. \A n \in Replies : row = <<"reply", n>> => c.kind = "reply" /\ c.n = n
  OBVIOUS
<1>. HIDE DEF row, d
<1>8. JobTypes'
  BY <1>1, <1>2, <1>4, <1>5 DEF JobTypes
<1>9. TryingTried'
  <2>1. ASSUME NEW m \in Replies, relay[m].state = "trying"  PROVE Tried(m)'
    <3>1. PICK e \in relays : e.kind = "reply" /\ e.n = m /\ e.waiting
      BY <2>1 DEF JobInv, TryingTried, Tried
    <3>2. CASE e = c
      BY <3>1, <3>2, <1>1, <1>5 DEF Tried
    <3>3. CASE e # c
      BY <3>1, <3>3, <1>1 DEF Tried
    <3>. QED  BY <3>2, <3>3
  <2>. QED  BY <2>1, <1>1 DEF TryingTried
<1>10. \A m \in Replies : Arrived(m) => Arrived(m)'
  BY <1>1 DEF Arrived
<1>11. SentArrived'
  BY <1>1, <1>10 DEF JobInv, SentArrived
<1>12. AnswersTrue'
  <2>1. ASSUME NEW e \in relays', e.kind = "reply", e.stage = "ok"  PROVE Arrived(e.n)'
    <3>1. CASE e = d
      BY <2>1, <3>1, <1>1, <1>5, <1>6 DEF Arrived
    <3>2. CASE e # d
      <4>1. e \in relays /\ e.n \in Replies
        BY <2>1, <3>2, <1>1, <1>2 DEF JobTypes
      <4>. QED  BY <2>1, <4>1, <1>10 DEF JobInv, AnswersTrue
    <3>. QED  BY <3>1, <3>2
  <2>. QED  BY <2>1 DEF AnswersTrue
<1>13. RowsLandOnce'
  BY <1>1 DEF JobInv, RowsLandOnce
<1>14. ReplyReadable'
  BY <1>1 DEF JobInv, ReplyReadable
<1>. QED  BY <1>8, <1>9, <1>11, <1>12, <1>13, <1>14 DEF JobInv

\* The delivery pump lands a row (inboxDeliveryPump.ts): it leaves the inbox, and
\* the ledger keeps its operation id.
LEMMA LandRowKeeps ==
    ASSUME JobInv, NEW r \in inboxRows, LandRow(r)
    PROVE  JobInv'
<1>1. PICK ok \in BOOLEAN : Handled(r[1], r[2], ok)
  BY DEF LandRow
<1>2. /\ inboxRows' = inboxRows \ {r}
      /\ UNCHANGED <<cross, linked, relays, ledger, sent, relay, fence, stopped>>
  BY DEF LandRow
<1>3. JobTypes /\ r \in ledger /\ r \in OpRows
  BY DEF JobInv, JobTypes
<1>4. /\ r[1] \in {"send", "reply"} /\ r[2] \in Nat
      /\ r[1] = "reply" => r[2] \in Replies
      /\ r = <<r[1], r[2]>>
  BY <1>3 DEF OpRows, Replies
<1>5. /\ askJob' \in 0 .. NoJob
      /\ landings' \in [Replies -> Nat]
      /\ \A m \in Replies : landings'[m] = landings[m]
                            \/ (r[1] = "reply" /\ m = r[2] /\ landings'[m] = landings[m] + 1)
      /\ landings' # landings => askJob' \in Replies
      /\ askJob \in Replies => askJob' \in Replies
  <2>. HIDE DEF JobTypes, Handled
  <2>. QED  BY <1>1, <1>3, <1>4, HandledLands
<1>6. JobTypes'
  BY <1>2, <1>3, <1>5 DEF JobTypes
<1>7. \A m \in Replies : Arrived(m) => Arrived(m)'
  BY <1>2, <1>3, <1>5 DEF Arrived, JobTypes
<1>8. TryingTried' /\ SentArrived'
  BY <1>2, <1>7 DEF JobInv, TryingTried, Tried, SentArrived
<1>9. AnswersTrue'
  BY <1>2, <1>3, <1>7 DEF JobInv, AnswersTrue, JobTypes
<1>10. RowsLandOnce'
  <2>1. ASSUME cross, NEW m \in Replies
        PROVE  landings'[m] = 0 \/ (landings'[m] = 1 /\ <<"reply", m>> \in ledger \ (inboxRows \ {r}))
    <3>1. landings[m] = 0 \/ (landings[m] = 1 /\ <<"reply", m>> \in ledger \ inboxRows)
      BY <2>1 DEF JobInv, RowsLandOnce
    <3>2. CASE landings'[m] = landings[m]
      BY <3>1, <3>2
    <3>3. CASE r[1] = "reply" /\ m = r[2] /\ landings'[m] = landings[m] + 1
      <4>1. r = <<"reply", m>> /\ r \in inboxRows
        BY <3>3, <1>4
      <4>2. landings[m] = 0
        BY <3>1, <4>1
      <4>. QED  BY <4>1, <4>2, <3>3, <1>3
    <3>. QED  BY <3>2, <3>3, <1>5
  <2>. QED  BY <2>1, <1>2 DEF RowsLandOnce
<1>11. ReplyReadable'
  BY <1>2, <1>5 DEF JobInv, ReplyReadable
<1>. QED  BY <1>6, <1>8, <1>9, <1>10, <1>11 DEF JobInv

\* The caller learns that a call succeeded or failed: a reply is then sent, given
\* up or tried again, and the answer of a send leaves what the job holds alone.
LEMMA OutcomeKeeps ==
    ASSUME JobTypes, NEW c \in relays, NEW ok \in BOOLEAN, Outcome(c, ok)
    PROVE  /\ relay' \in [Replies -> [state : RelayStates, attempts : Nat]]
           /\ \A m \in Replies : relay'[m] # relay[m] => c.kind = "reply" /\ c.n = m
           /\ \A m \in Replies : relay'[m].state # relay[m].state =>
                 (ok /\ relay'[m].state = "sent") \/ relay'[m].state = "gave up"
           /\ askJob' \in 0 .. NoJob
           /\ askJob \in Replies => askJob' \in Replies
<1>1. c.kind \in {"send", "reply"} /\ (c.kind = "reply" => c.n \in Replies)
  BY DEF JobTypes, Calls
<1>2. relay \in [Replies -> [state : RelayStates, attempts : Nat]]
  BY DEF JobTypes
<1>3. CASE c.kind = "send"
  <2>1. relay' = relay /\ askJob' \in {0, askJob} /\ (askJob # NoJob => askJob' = askJob)
    BY <1>3 DEF Outcome, create
  <2>2. 0 \in 0 .. NoJob /\ NoJob \notin Replies
    BY RepliesAssumption DEF NoJob, Replies
  <2>3. askJob' \in 0 .. NoJob /\ (askJob \in Replies => askJob' \in Replies)
    BY <2>1, <2>2 DEF JobTypes
  <2>. QED  BY <1>2, <2>1, <2>3
<1>4. CASE c.kind = "reply"
  <2>1. relay[c.n] \in [state : RelayStates, attempts : Nat]
    BY <1>1, <1>2, <1>4
  <2>2. "sent" \in RelayStates /\ "gave up" \in RelayStates
    BY DEF RelayStates
  <2>3. askJob' = askJob
    BY <1>4 DEF Outcome
  <2>4. PICK v \in [state : RelayStates, attempts : Nat] :
           /\ relay' = [relay EXCEPT ![c.n] = v]
           /\ v.state # relay[c.n].state => (ok /\ v.state = "sent") \/ v.state = "gave up"
    <3>1. CASE ok
      <4>1. relay' = [relay EXCEPT ![c.n] = [relay[c.n] EXCEPT !.state = "sent"]]
        BY <1>4, <3>1 DEF Outcome
      <4>2. [relay[c.n] EXCEPT !.state = "sent"] \in [state : RelayStates, attempts : Nat]
        BY <2>1, <2>2
      <4>3. [relay[c.n] EXCEPT !.state = "sent"].state = "sent"
        BY <2>1
      <4>. QED  BY <4>1, <4>2, <4>3, <3>1
    <3>2. CASE ~ok /\ ~(relay[c.n].attempts + 1 < MaxAttempts)
      <4>1. relay' = [relay EXCEPT ![c.n] = [state |-> "gave up", attempts |-> MaxAttempts]]
        BY <1>4, <3>2 DEF Outcome
      <4>2. [state |-> "gave up", attempts |-> MaxAttempts] \in [state : RelayStates, attempts : Nat]
        BY <2>2, RepliesAssumption
      <4>3. [state |-> "gave up", attempts |-> MaxAttempts].state = "gave up"
        OBVIOUS
      <4>. QED  BY <4>1, <4>2, <4>3
    <3>3. CASE ~ok /\ relay[c.n].attempts + 1 < MaxAttempts
      <4>1. relay' = [relay EXCEPT ![c.n] = [state |-> relay[c.n].state, attempts |-> relay[c.n].attempts + 1]]
        BY <1>4, <3>3 DEF Outcome
      <4>2. [state |-> relay[c.n].state, attempts |-> relay[c.n].attempts + 1] \in [state : RelayStates, attempts : Nat]
        BY <2>1
      <4>3. [state |-> relay[c.n].state, attempts |-> relay[c.n].attempts + 1].state = relay[c.n].state
        BY <2>1
      <4>. QED  BY <4>1, <4>2, <4>3
    <3>. QED  BY <3>1, <3>2, <3>3
  <2>5. /\ relay' \in [Replies -> [state : RelayStates, attempts : Nat]]
        /\ relay'[c.n] = v
        /\ \A m \in Replies : m # c.n => relay'[m] = relay[m]
    BY <2>4, <1>1, <1>2, <1>4
  <2>. QED  BY <2>3, <2>4, <2>5, <1>4 DEF JobTypes
<1>. QED  BY <1>1, <1>3, <1>4

\* What the caller learns of one call keeps the account of every reply: the call is
\* replaced by the next attempt, and may itself still be under way.
LEMMA CallerLearnsKeeps ==
    ASSUME JobInv, NEW c \in relays, NEW ok \in BOOLEAN, Outcome(c, ok),
           ok /\ c.kind = "reply" => Arrived(c.n),
           NEW lingers \in SUBSET Calls,
           \A d \in lingers : d.kind = c.kind /\ d.n = c.n /\ d.stage # "ok",
           relays' = (relays \ {c}) \cup lingers \cup Again(c),
           UNCHANGED <<cross, linked, ledger, inboxRows, sent, landings, fence, stopped>>
    PROVE  JobInv'
<1>1. JobTypes /\ (c.kind = "reply" => c.n \in Replies)
  BY DEF JobInv, JobTypes
<1>2. /\ relay' \in [Replies -> [state : RelayStates, attempts : Nat]]
      /\ \A m \in Replies : relay'[m] # relay[m] => c.kind = "reply" /\ c.n = m
      /\ \A m \in Replies : relay'[m].state # relay[m].state =>
            (ok /\ relay'[m].state = "sent") \/ relay'[m].state = "gave up"
      /\ askJob' \in 0 .. NoJob
      /\ askJob \in Replies => askJob' \in Replies
  BY <1>1, OutcomeKeeps
<1>3. \A d \in Again(c) : /\ d \in Calls /\ d.kind = "reply" /\ d.n = c.n
                          /\ d.stage = "out" /\ c.kind = "reply"
  <2>1. CASE c.kind = "reply" /\ relay'[c.n].state = "trying"
    <3>1. Again(c) = {NewCall("reply", c.n)} /\ c.n \in Nat
      BY <2>1, <1>1 DEF Again, Replies
    <3>. QED  BY <3>1, <2>1, NewCallTyped
  <2>2. CASE ~(c.kind = "reply" /\ relay'[c.n].state = "trying")
    BY <2>2 DEF Again
  <2>. QED  BY <2>1, <2>2
<1>4. \A m \in Replies : Arrived(m)' <=> Arrived(m)
  BY DEF Arrived
<1>5. JobTypes'
  <2>1. relays' \subseteq Calls
    BY <1>1, <1>3 DEF JobTypes
  <2>2. \A d \in relays' : d.kind = "reply" => d.n \in Replies
    BY <1>1, <1>3 DEF JobTypes
  <2>. QED  BY <2>1, <2>2, <1>1, <1>2 DEF JobTypes
<1>6. TryingTried'
  <2>1. ASSUME NEW m \in Replies, relay'[m].state = "trying"  PROVE Tried(m)'
    <3>1. CASE c.kind = "reply" /\ c.n = m
      <4>1. Again(c) = {NewCall("reply", m)} /\ m \in Nat
        BY <2>1, <3>1 DEF Again, Replies
      <4>2. NewCall("reply", m) \in relays'
        BY <4>1
      <4>. QED  BY <4>1, <4>2, NewCallTyped DEF Tried
    <3>2. CASE ~(c.kind = "reply" /\ c.n = m)
      <4>1. relay'[m] = relay[m]
        BY <3>2, <1>2
      <4>2. PICK e \in relays : e.kind = "reply" /\ e.n = m /\ e.waiting
        BY <2>1, <4>1 DEF JobInv, TryingTried, Tried
      <4>3. e \in relays'
        BY <3>2, <4>2
      <4>. QED  BY <4>2, <4>3 DEF Tried
    <3>. QED  BY <3>1, <3>2
  <2>. QED  BY <2>1 DEF TryingTried
<1>7. SentArrived'
  <2>1. ASSUME NEW m \in Replies, relay'[m].state = "sent"  PROVE Arrived(m)
    <3>1. CASE relay'[m].state = relay[m].state
      BY <2>1, <3>1 DEF JobInv, SentArrived
    <3>2. CASE relay'[m].state # relay[m].state
      BY <2>1, <3>2, <1>2
    <3>. QED  BY <3>1, <3>2
  <2>. QED  BY <2>1, <1>4 DEF SentArrived
<1>8. AnswersTrue'
  <2>1. ASSUME NEW d \in relays', d.kind = "reply", d.stage = "ok"  PROVE Arrived(d.n)'
    <3>1. d \in relays
      BY <2>1, <1>3
    <3>2. Arrived(d.n) /\ d.n \in Replies
      BY <2>1, <3>1, <1>1 DEF JobInv, AnswersTrue, JobTypes
    <3>. QED  BY <3>2, <1>4
  <2>. QED  BY <2>1 DEF AnswersTrue
<1>9. RowsLandOnce'
  BY DEF JobInv, RowsLandOnce
<1>10. ReplyReadable'
  BY <1>2 DEF JobInv, ReplyReadable
<1>. QED  BY <1>5, <1>6, <1>7, <1>8, <1>9, <1>10 DEF JobInv

LEMMA CallAnsweredKeeps ==
    ASSUME JobInv, NEW c \in relays, CallAnswered(c)
    PROVE  JobInv'
<1>. DEFINE ok == c.stage = "ok"
<1>1. /\ Outcome(c, ok)
      /\ relays' = (relays \ {c}) \cup Again(c)
      /\ UNCHANGED <<cross, linked, ledger, inboxRows, sent, landings, fence, stopped>>
  BY DEF CallAnswered
<1>2. ok /\ c.kind = "reply" => Arrived(c.n)
  BY DEF JobInv, AnswersTrue
<1>3. relays' = (relays \ {c}) \cup {} \cup Again(c)
  BY <1>1
<1>4. {} \in SUBSET Calls /\ ok \in BOOLEAN
  OBVIOUS
<1>. HIDE DEF ok
<1>. QED  BY <1>1, <1>2, <1>3, <1>4, CallerLearnsKeeps

LEMMA CallTimesOutKeeps ==
    ASSUME JobInv, NEW c \in relays, CallTimesOut(c)
    PROVE  JobInv'
<1>1. PICK lingers \in {{}, IF c.stage = "out" THEN {[c EXCEPT !.waiting = FALSE]} ELSE {}} :
         relays' = (relays \ {c}) \cup lingers \cup Again(c)
  BY DEF CallTimesOut
<1>2. /\ Outcome(c, FALSE)
      /\ UNCHANGED <<cross, linked, ledger, inboxRows, sent, landings, fence, stopped>>
  BY DEF CallTimesOut
<1>3. c \in Calls
  BY DEF JobInv, JobTypes
<1>4. lingers \in SUBSET Calls /\ \A d \in lingers : d.kind = c.kind /\ d.n = c.n /\ d.stage # "ok"
  <2>1. CASE lingers = {}
    BY <2>1
  <2>2. CASE lingers = {[c EXCEPT !.waiting = FALSE]} /\ c.stage = "out"
    BY <1>3, <2>2 DEF Calls
  <2>. QED  BY <1>1, <2>1, <2>2
<1>. QED  BY <1>1, <1>2, <1>4, CallerLearnsKeeps

\* A step after which what is known of the replies and their calls is as before.
LEMMA RestKeeps ==
    ASSUME JobInv, UNCHANGED <<cross, linked, askJob, relays, ledger, inboxRows, sent, relay, landings>>,
           fence' \in [at : {"none", "asker", "target"}, up : BOOLEAN],
           fence.at = "none" \/ fence'.at = fence.at,
           stopped \subseteq stopped'
    PROVE  JobInv'
BY DEF JobInv, JobTypes, TryingTried, Tried, SentArrived, AnswersTrue, Arrived, RowsLandOnce, ReplyReadable

\* unlink takes the jobs and the rows, not what landed (relayRouter.ts).
LEMMA UnlinkedKeeps == JobInv /\ Unlinked => JobInv'
<1>. SUFFICES ASSUME JobInv, Unlinked  PROVE JobInv'
  OBVIOUS
<1>1. /\ cross /\ linked' = FALSE /\ askJob' = NoJob /\ inboxRows' = {}
      /\ UNCHANGED <<cross, relays, ledger, sent, relay, landings, fence, stopped>>
  BY DEF Unlinked
<1>2. NoJob \in 0 .. NoJob
  BY RepliesAssumption DEF NoJob
<1>3. JobTypes'
  BY <1>1, <1>2 DEF JobInv, JobTypes
<1>4. RowsLandOnce' /\ ReplyReadable'
  BY <1>1 DEF JobInv, RowsLandOnce, ReplyReadable
<1>. QED  BY <1>1, <1>3, <1>4 DEF JobInv, TryingTried, Tried, SentArrived, AnswersTrue, Arrived

\* Calls of a stopped gateway: nobody waits for them, and the others are as they were.
LEMMA CallersGone ==
    ASSUME JobTypes, NEW kind,
           relays' = {IF c.kind = kind THEN [c EXCEPT !.waiting = FALSE] ELSE c : c \in relays}
    PROVE  /\ relays' \subseteq Calls
           /\ \A d \in relays' : \E c \in relays : d.kind = c.kind /\ d.n = c.n /\ d.stage = c.stage
           /\ \A c \in relays : c.kind # kind => c \in relays'
<1>1. ASSUME NEW c \in relays
      PROVE  /\ (IF c.kind = kind THEN [c EXCEPT !.waiting = FALSE] ELSE c) \in Calls
             /\ (IF c.kind = kind THEN [c EXCEPT !.waiting = FALSE] ELSE c).kind = c.kind
             /\ (IF c.kind = kind THEN [c EXCEPT !.waiting = FALSE] ELSE c).n = c.n
             /\ (IF c.kind = kind THEN [c EXCEPT !.waiting = FALSE] ELSE c).stage = c.stage
             /\ c.kind # kind => (IF c.kind = kind THEN [c EXCEPT !.waiting = FALSE] ELSE c) = c
  <2>1. c \in Calls
    BY DEF JobTypes
  <2>. QED  BY <2>1 DEF Calls
<1>. QED  BY <1>1

LEMMA AskerRestartsKeeps == JobInv /\ AskerRestarts /\ askSaved \in 0 .. NoJob => JobInv'
<1>. SUFFICES ASSUME JobInv, AskerRestarts, askSaved \in 0 .. NoJob  PROVE JobInv'
  OBVIOUS
<1>1. /\ stopped' = stopped \cup {"asker"} /\ askJob' = askSaved
      /\ UNCHANGED <<cross, linked, ledger, inboxRows, sent, relay, landings, fence>>
      /\ relays' = {IF c.kind = "send" THEN [c EXCEPT !.waiting = FALSE] ELSE c : c \in relays}
  BY DEF AskerRestarts
<1>2. /\ relays' \subseteq Calls
      /\ \A d \in relays' : \E c \in relays : d.kind = c.kind /\ d.n = c.n /\ d.stage = c.stage
      /\ \A c \in relays : c.kind # "send" => c \in relays'
  <2>1. JobTypes
    BY DEF JobInv
  <2>. QED  BY <1>1, <2>1, CallersGone
<1>3. JobTypes'
  BY <1>1, <1>2 DEF JobInv, JobTypes
<1>4. TryingTried'
  BY <1>1, <1>2 DEF JobInv, TryingTried, Tried
<1>5. SentArrived' /\ RowsLandOnce'
  BY <1>1 DEF JobInv, SentArrived, Arrived, RowsLandOnce
<1>6. AnswersTrue'
  BY <1>1, <1>2 DEF JobInv, AnswersTrue, Arrived
<1>7. ReplyReadable'
  BY <1>1 DEF ReplyReadable
<1>. QED  BY <1>3, <1>4, <1>5, <1>6, <1>7 DEF JobInv

LEMMA TargetRestartsKeeps == JobInv /\ TargetRestarts => JobInv'
<1>. SUFFICES ASSUME JobInv, TargetRestarts  PROVE JobInv'
  OBVIOUS
<1>1. /\ stopped' = stopped \cup {"target"}
      /\ UNCHANGED <<cross, linked, askJob, ledger, inboxRows, sent, landings, fence>>
      /\ relays' = {IF c.kind = "reply" THEN [c EXCEPT !.waiting = FALSE] ELSE c : c \in relays}
      /\ relay' = [n \in Replies |-> IF relay[n].state = "trying" THEN [relay[n] EXCEPT !.state = "forgotten"]
                                     ELSE relay[n]]
  BY DEF TargetRestarts
<1>2. /\ relays' \subseteq Calls
      /\ \A d \in relays' : \E c \in relays : d.kind = c.kind /\ d.n = c.n /\ d.stage = c.stage
  <2>1. JobTypes
    BY DEF JobInv
  <2>. QED  BY <1>1, <2>1, CallersGone
<1>3. ASSUME NEW n \in Replies
      PROVE  /\ relay'[n] \in [state : RelayStates, attempts : Nat]
             /\ relay'[n].state # "trying"
             /\ relay'[n].state = "sent" => relay[n].state = "sent"
  <2>1. relay[n] \in [state : RelayStates, attempts : Nat]
    BY DEF JobInv, JobTypes
  <2>2. "forgotten" \in RelayStates
    BY DEF RelayStates
  <2>3. CASE relay[n].state = "trying"
    <3>1. relay'[n] = [relay[n] EXCEPT !.state = "forgotten"]
      BY <1>1, <2>3
    <3>. QED  BY <3>1, <2>1, <2>2
  <2>4. CASE relay[n].state # "trying"
    BY <1>1, <2>1, <2>4
  <2>. QED  BY <2>3, <2>4
<1>4. relay' \in [Replies -> [state : RelayStates, attempts : Nat]]
  <2>1. relay' = [n \in Replies |-> relay'[n]]
    BY <1>1
  <2>. QED  BY <2>1, <1>3
<1>5. JobTypes'
  BY <1>1, <1>2, <1>4 DEF JobInv, JobTypes
<1>6. TryingTried' /\ SentArrived'
  BY <1>1, <1>3 DEF JobInv, TryingTried, SentArrived, Arrived
<1>7. AnswersTrue'
  BY <1>1, <1>2 DEF JobInv, AnswersTrue, Arrived
<1>8. RowsLandOnce' /\ ReplyReadable'
  BY <1>1 DEF JobInv, RowsLandOnce, ReplyReadable
<1>. QED  BY <1>5, <1>6, <1>7, <1>8 DEF JobInv

\* What a gateway saved of its job is something the job was.
LEMMA SavedTyped == JobInv /\ askSaved \in 0 .. NoJob /\ [JobNext]_jobVars => (askSaved \in 0 .. NoJob)'
BY DEF JobInv, JobTypes, JobNext, jobVars, sendCrossGateway, respond, RelayHandled, RouterAppends, CallAnswered,
       CallTimesOut, LandRow, Unlinked, SaveAsker, SaveTarget, AskerRestarts, TargetRestarts, RaiseFence, NoJob

LEMMA JobInvNext == JobInv /\ askSaved \in 0 .. NoJob /\ [JobNext]_jobVars => JobInv'
<1>. SUFFICES ASSUME JobInv, askSaved \in 0 .. NoJob, [JobNext]_jobVars  PROVE JobInv'
  OBVIOUS
<1>1. CASE sendCrossGateway
  BY <1>1, SendCrossKeeps
<1>2. CASE respond
  BY <1>2, RespondKeeps
<1>3. ASSUME NEW c \in relays, RelayHandled(c)  PROVE JobInv'
  BY <1>3, RelayHandledKeeps
<1>4. ASSUME NEW c \in relays, RouterAppends(c)  PROVE JobInv'
  BY <1>4, RouterAppendsKeeps
<1>5. ASSUME NEW c \in relays, CallAnswered(c)  PROVE JobInv'
  BY <1>5, CallAnsweredKeeps
<1>6. ASSUME NEW c \in relays, CallTimesOut(c)  PROVE JobInv'
  BY <1>6, CallTimesOutKeeps
<1>7. ASSUME NEW r \in inboxRows, LandRow(r)  PROVE JobInv'
  BY <1>7, LandRowKeeps
<1>8. CASE Unlinked
  BY <1>8, UnlinkedKeeps
<1>9. CASE SaveAsker \/ SaveTarget
  <2>1. UNCHANGED <<cross, linked, askJob, relays, ledger, inboxRows, sent, relay, landings, stopped, fence>>
    BY <1>9 DEF SaveAsker, SaveTarget
  <2>2. fence \in [at : {"none", "asker", "target"}, up : BOOLEAN]
    BY DEF JobInv, JobTypes
  <2>. QED  BY <2>1, <2>2, RestKeeps
<1>10. CASE AskerRestarts
  BY <1>10, AskerRestartsKeeps
<1>11. CASE TargetRestarts
  BY <1>11, TargetRestartsKeeps
<1>12. CASE RaiseFence
  <2>1. UNCHANGED <<cross, linked, askJob, relays, ledger, inboxRows, sent, relay, landings, stopped>>
    BY <1>12 DEF RaiseFence
  <2>2. fence \in [at : {"none", "asker", "target"}, up : BOOLEAN]
    BY DEF JobInv, JobTypes
  <2>3. CASE fence.at = "none"
    <3>1. fence' \in [at : {"none", "asker", "target"}, up : BOOLEAN]
      BY <1>12, <2>3 DEF RaiseFence
    <3>. QED  BY <2>1, <2>3, <3>1, RestKeeps
  <2>4. CASE fence.at # "none"
    <3>1. fence' = [fence EXCEPT !.up = FALSE]
      BY <1>12, <2>4 DEF RaiseFence
    <3>2. fence' \in [at : {"none", "asker", "target"}, up : BOOLEAN] /\ fence'.at = fence.at
      BY <3>1, <2>2
    <3>. QED  BY <2>1, <3>2, RestKeeps
  <2>. QED  BY <2>3, <2>4
<1>13. CASE UNCHANGED jobVars
  <2>1. fence \in [at : {"none", "asker", "target"}, up : BOOLEAN]
    BY DEF JobInv, JobTypes
  <2>. QED  BY <1>13, <2>1, RestKeeps DEF jobVars
<1>. QED  BY <1>1, <1>2, <1>3, <1>4, <1>5, <1>6, <1>7, <1>8, <1>9, <1>10, <1>11, <1>12, <1>13 DEF JobNext

\* A reply reaches the asker, once between Domains, and can be read there, for any
\* number of messages, replies and attempts, over lingers answers, unlinks, restarts
\* and the migration fence (relay.ts, routesRespond.ts, pending-job-store.ts).
THEOREM RepliesArrive == JobSpec => []RepliesKept
<1>1. JobInit => askSaved \in 0 .. NoJob
  BY RepliesAssumption DEF JobInit, NoJob
<1>2. JobSpec => [](JobInv /\ askSaved \in 0 .. NoJob)
  BY <1>1, JobInvInit, JobInvNext, SavedTyped, PTL DEF JobSpec
<1>. QED  BY <1>2, JobInvSuffices, PTL

-----------------------------------------------------------------------------
(* Presence at the Router *)

Answers == {"out", "ok", "failed", "resync"}
Baselines == [kind : {"baseline"}, inc : Nat, seq : {0}, rows : Rows, spawns : SpawnValues, answer : Answers]
Deltas == [kind : {"delta"}, inc : Nat, seq : Nat, rows : Rows, spawns : SpawnValues,
           changed : SUBSET Teams, answer : Answers]
Frames == {NoFrame} \cup Baselines \cup Deltas
Syncs == [at : {"needsBaseline", "streaming"}, seq : Nat, sent : Rows]
GatewayRecords == [inc : Nat, seq : Nat, spawns : SpawnValues \cup {0}]

PresenceTypes ==
    /\ rows \in Rows /\ spawns \in SpawnValues /\ inc \in Nat
    /\ sync \in Syncs /\ superseded \in BOOLEAN /\ dirty \in BOOLEAN /\ timer \in BOOLEAN
    /\ deadline \in {"none", "future", "past"} /\ pumpAt \in {"idle", "run", "wait"}
    /\ sentSpawns \in SpawnValues \cup {0}
    /\ frame \in Frames /\ late \subseteq Frames \ {NoFrame}
    /\ rowsAt \in Rows /\ gatewayAt \in GatewayRecords /\ minted \in Nat /\ unsure \subseteq Teams

\* The pump waits while a frame is out; a frame without its answer, or with a good
\* one, is of the connection there is. Those given up are of connections before it.
FrameOut ==
    /\ pumpAt = "wait" <=> frame # NoFrame
    /\ frame # NoFrame /\ frame.answer \in {"out", "ok"} => inc # 0 /\ frame.inc = inc
    /\ frame # NoFrame /\ (superseded \/ frame.kind = "baseline") => sync.at = "needsBaseline"
    /\ inc \in {0, minted}
    /\ \A f \in late : f.inc <= minted /\ (f.inc = minted => inc = 0)

TimerArmed == deadline = "future" => timer

\* A delta continues what was sent.
DeltaContinues ==
    frame.kind = "delta" /\ ~superseded =>
        /\ sync.at = "streaming" /\ frame.seq = sync.seq + 1
        /\ \A t \in Teams \ frame.changed : frame.rows[t] = sync.sent[t]

\* What is not dirty was sent, or is in the frame.
CleanSent ==
    /\ frame # NoFrame /\ ~dirty => frame.rows = rows
    /\ frame = NoFrame /\ sync.at = "streaming" /\ ~dirty => sync.sent = rows

\* The Router's rows are those of r, but for the ones nobody is sure of.
Showing(r) == \A t \in Teams : rowsAt[t] = r[t] \/ t \in unsure

\* The Router holds what the reporter takes for sent as long as it is at its number.
InStep ==
    inc # 0 /\ sync.at = "streaming" =>
        /\ freshAt
        /\ gatewayAt.inc = inc /\ gatewayAt.seq = sync.seq => Showing(sync.sent) /\ gatewayAt.spawns = sentSpawns

\* A frame whose answer is good and will be heard is what the Router holds, until a
\* frame of an older connection overtakes it.
GoodAnswer ==
    frame # NoFrame /\ frame.answer = "ok" /\ ~superseded =>
        /\ freshAt
        /\ gatewayAt.inc = inc /\ gatewayAt.seq = frame.seq =>
             /\ Showing(frame.rows)
             /\ gatewayAt.spawns = IF frame.kind = "baseline" THEN frame.spawns ELSE sentSpawns

PresenceInv ==
    /\ PresenceTypes
    /\ FrameOut
    /\ TimerArmed
    /\ DeltaContinues
    /\ CleanSent
    /\ InStep
    /\ GoodAnswer
    /\ NoLostWake

LEMMA FrameKinds ==
    ASSUME NEW f \in Frames, f # NoFrame
    PROVE  /\ f \in Baselines \cup Deltas /\ f.kind # "none"
           /\ f.seq \in Nat /\ f.inc \in Nat /\ f.rows \in Rows
BY DEF Frames, NoFrame, Baselines, Deltas

\* A frame that is answered is otherwise the same.
LEMMA AnsweredFrame ==
    ASSUME NEW f \in Frames, f # NoFrame, NEW a \in Answers
    PROVE  LET g == [f EXCEPT !.answer = a] IN
           /\ g \in Frames /\ g # NoFrame /\ g.answer = a
           /\ g.kind = f.kind /\ g.inc = f.inc /\ g.seq = f.seq /\ g.rows = f.rows /\ g.spawns = f.spawns
           /\ f.kind = "delta" => g.changed = f.changed
<1>. DEFINE g == [f EXCEPT !.answer = a]
<1>1. CASE f \in Baselines
  <2>1. g \in Baselines
    BY <1>1 DEF Baselines
  <2>2. /\ g.answer = a /\ g.kind = f.kind /\ g.inc = f.inc /\ g.seq = f.seq /\ g.rows = f.rows /\ g.spawns = f.spawns
        /\ f.kind = "baseline" /\ g.kind = "baseline"
    BY <1>1 DEF Baselines
  <2>. HIDE DEF g
  <2>3. g # NoFrame
    BY <2>2 DEF NoFrame
  <2>4. g \in Frames /\ f.kind # "delta"
    BY <2>1, <2>2 DEF Frames
  <2>. QED  BY <2>2, <2>3, <2>4 DEF g
<1>2. CASE f \in Deltas
  <2>1. g \in Deltas
    BY <1>2 DEF Deltas
  <2>2. /\ g.answer = a /\ g.kind = f.kind /\ g.inc = f.inc /\ g.seq = f.seq /\ g.rows = f.rows /\ g.spawns = f.spawns
        /\ g.changed = f.changed /\ g.kind = "delta"
    BY <1>2 DEF Deltas
  <2>. HIDE DEF g
  <2>3. g # NoFrame
    BY <2>2 DEF NoFrame
  <2>4. g \in Frames
    BY <2>1 DEF Frames
  <2>. QED  BY <2>2, <2>3, <2>4 DEF g
<1>. QED  BY <1>1, <1>2, FrameKinds

\* What the Router holds once it took a frame (presenceService.ts).
LEMMA TakenHolds ==
    ASSUME PresenceTypes, NEW f \in Frames, f # NoFrame, Taken(f)
    PROVE  /\ rowsAt' \in Rows /\ gatewayAt' \in GatewayRecords /\ unsure' \subseteq Teams
           /\ gatewayAt'.inc = f.inc /\ gatewayAt'.seq = f.seq
           /\ gatewayAt'.spawns = IF f.kind = "baseline" THEN f.spawns ELSE gatewayAt.spawns
           /\ \A t \in Teams : \/ rowsAt'[t] = f.rows[t] \/ t \in unsure'
                               \/ /\ f.kind = "delta" /\ t \notin f.changed
                                  /\ rowsAt'[t] = rowsAt[t] /\ (t \in unsure' <=> t \in unsure)
           /\ f.kind = "baseline" => freshAt' = TRUE
           /\ freshAt => freshAt'
<1>1. rowsAt \in Rows /\ gatewayAt \in GatewayRecords
  BY DEF PresenceTypes
<1>2. f \in Baselines \cup Deltas /\ f.seq \in Nat /\ f.inc \in Nat /\ f.rows \in Rows
  BY FrameKinds
<1>3. f.spawns \in SpawnValues /\ f.kind \in {"baseline", "delta"}
  BY <1>2 DEF Baselines, Deltas
<1>. DEFINE sp == IF f.kind = "baseline" THEN f.spawns ELSE gatewayAt.spawns
<1>4. sp \in SpawnValues \cup {0}
  BY <1>1, <1>3 DEF GatewayRecords
<1>5. gatewayAt' = [inc |-> f.inc, seq |-> f.seq, spawns |-> sp]
  BY DEF Taken
<1>. HIDE DEF sp
<1>6. gatewayAt' \in GatewayRecords /\ gatewayAt'.inc = f.inc /\ gatewayAt'.seq = f.seq /\ gatewayAt'.spawns = sp
  BY <1>2, <1>4, <1>5 DEF GatewayRecords
<1>7. PICK del \in SUBSET Dels(f) : rowsAt' = RowsStored(f, del, Puts(f))
  BY DEF Taken
<1>8. rowsAt' = [t \in Teams |-> IF t \in Puts(f) THEN f.rows[t] ELSE IF t \in del THEN 0 ELSE rowsAt[t]]
  BY <1>7 DEF RowsStored
<1>9. unsure' = {t \in Teams : IF t \in Covered(f) THEN rowsAt'[t] # f.rows[t] ELSE t \in unsure}
  BY DEF Taken
<1>10. rowsAt' \in Rows
  BY <1>1, <1>2, <1>8 DEF Rows
<1>11. ASSUME NEW t \in Teams
       PROVE  \/ rowsAt'[t] = f.rows[t] \/ t \in unsure'
              \/ /\ f.kind = "delta" /\ t \notin f.changed
                 /\ rowsAt'[t] = rowsAt[t] /\ (t \in unsure' <=> t \in unsure)
  <2>1. CASE t \in Covered(f)
    BY <1>9, <2>1
  <2>2. CASE t \notin Covered(f)
    <3>1. f.kind = "delta" /\ t \notin f.changed
      BY <1>3, <2>2 DEF Covered
    <3>2. t \notin Puts(f) /\ t \notin del
      BY <1>7, <2>2 DEF Puts, Dels
    <3>. QED  BY <1>8, <1>9, <2>2, <3>1, <3>2
  <2>. QED  BY <2>1, <2>2
<1>12. (f.kind = "baseline" => freshAt' = TRUE) /\ (freshAt => freshAt')
  BY DEF Taken
<1>. QED  BY <1>6, <1>9, <1>10, <1>11, <1>12 DEF sp

\* Taking a frame in part changes no row anybody is sure of.
LEMMA PartHolds ==
    ASSUME PresenceTypes, NEW f \in Frames, f # NoFrame, TakenInPart(f)
    PROVE  /\ rowsAt' \in Rows /\ unsure' \subseteq Teams /\ UNCHANGED <<gatewayAt, freshAt>>
           /\ unsure \subseteq unsure' /\ \A t \in Teams : rowsAt'[t] = rowsAt[t] \/ t \in unsure'
<1>1. rowsAt \in Rows /\ f.rows \in Rows /\ unsure \subseteq Teams
  BY FrameKinds DEF PresenceTypes
<1>2. PICK del, put : rowsAt' = [t \in Teams |-> IF t \in put THEN f.rows[t] ELSE IF t \in del THEN 0 ELSE rowsAt[t]]
  BY DEF TakenInPart, RowsStored
<1>3. rowsAt' \in Rows
  BY <1>1, <1>2 DEF Rows
<1>. QED  BY <1>1, <1>3 DEF TakenInPart

\* Rows that agree team by team are the same rows.
LEMMA SameRows ==
    ASSUME NEW r \in Rows, NEW q \in Rows, \A t \in Teams : r[t] = q[t]
    PROVE  r = q
BY DEF Rows

LEMMA PresenceInitInv == PresenceInit => PresenceInv
<1>. SUFFICES ASSUME PresenceInit  PROVE PresenceInv
  OBVIOUS
<1>1. /\ inc = 0 /\ pumpAt = "idle" /\ frame = NoFrame /\ late = {} /\ minted = 0 /\ unsure = {}
      /\ sync = needsBaseline /\ deadline = "none" /\ timer = FALSE /\ dirty = FALSE
  BY DEF PresenceInit
<1>2. spawns \in SpawnValues
  BY PresenceAssumption DEF PresenceInit
<1>3. rows \in Rows /\ rowsAt \in Rows
  BY DEF PresenceInit, Rows
<1>4. sync \in Syncs /\ sync.at = "needsBaseline"
  BY <1>1, <1>3 DEF Syncs, needsBaseline
<1>5. gatewayAt \in GatewayRecords
  BY PresenceAssumption DEF PresenceInit, GatewayRecords, NoSeq
<1>6. superseded \in BOOLEAN /\ sentSpawns \in SpawnValues \cup {0} /\ NoFrame \in Frames
  BY DEF PresenceInit, Frames
<1>7. PresenceTypes
  BY <1>1, <1>2, <1>3, <1>4, <1>5, <1>6 DEF PresenceTypes
<1>8. NoFrame.kind # "delta"
  BY DEF NoFrame
<1>. QED  BY <1>1, <1>4, <1>7, <1>8 DEF PresenceInv, FrameOut, TimerArmed, DeltaContinues, CleanSent, InStep, GoodAnswer, Showing,
                                   NoLostWake

\* The rows or the spawn points change: the reporter is marked dirty and pumps.
LEMMA ChangeKeeps ==
    ASSUME PresenceInv, markDirty, rows' \in Rows, spawns' \in SpawnValues, pumpAt # "run",
           UNCHANGED <<inc, routerVars, frame, late>>
    PROVE  PresenceInv'
<1>1. /\ dirty' = TRUE /\ UNCHANGED <<sync, superseded, sentSpawns>>
      /\ pumpAt' = IF pumpAt = "idle" THEN "run" ELSE pumpAt
  BY DEF markDirty, Pumped
<1>2. /\ deadline' \in {"none", "future", "past"} /\ timer' \in BOOLEAN
      /\ deadline' = "future" => timer'
  BY DEF PresenceInv, PresenceTypes, TimerArmed, markDirty, Deadline
<1>3. pumpAt' \in {"run", "wait"} /\ (pumpAt' = "wait" <=> pumpAt = "wait")
  BY <1>1 DEF PresenceInv, PresenceTypes
<1>4. UNCHANGED <<inc, rowsAt, gatewayAt, freshAt, unsure, minted,
                  frame, late>>
  BY DEF routerVars
<1>5. PresenceTypes'
  BY <1>1, <1>2, <1>3, <1>4 DEF PresenceInv, PresenceTypes
<1>6. FrameOut' /\ TimerArmed'
  BY <1>1, <1>2, <1>3, <1>4 DEF PresenceInv, FrameOut, TimerArmed
<1>7. DeltaContinues' /\ CleanSent'
  BY <1>1, <1>4 DEF PresenceInv, DeltaContinues, CleanSent
<1>8. InStep' /\ GoodAnswer'
  BY <1>1, <1>4 DEF PresenceInv, InStep, GoodAnswer, Showing
<1>9. NoLostWake'
  BY <1>3 DEF NoLostWake
<1>. QED  BY <1>5, <1>6, <1>7, <1>8, <1>9 DEF PresenceInv

LEMMA ChangesKeep ==
    ASSUME PresenceInv,
           (\E t \in Teams, v \in RowValues \cup {0} : RowChanges(t, v)) \/ (\E v \in SpawnValues : SpawnsChange(v))
    PROVE  PresenceInv'
<1>1. rows \in Rows /\ spawns \in SpawnValues
  BY DEF PresenceInv, PresenceTypes
<1>2. ASSUME NEW t \in Teams, NEW v \in RowValues \cup {0}, RowChanges(t, v)  PROVE PresenceInv'
  <2>1. /\ markDirty /\ pumpAt # "run" /\ UNCHANGED <<spawns, inc, routerVars, frame, late>>
        /\ rows' = [rows EXCEPT ![t] = v]
    BY <1>2 DEF RowChanges
  <2>2. rows' \in Rows
    BY <1>1, <2>1 DEF Rows
  <2>. QED  BY <1>1, <2>1, <2>2, ChangeKeeps
<1>3. ASSUME NEW v \in SpawnValues, SpawnsChange(v)  PROVE PresenceInv'
  BY <1>1, <1>3, ChangeKeeps DEF SpawnsChange
<1>. QED  BY <1>2, <1>3

LEMMA TimerFiresKeeps == PresenceInv /\ TimerFires => PresenceInv'
<1>. SUFFICES ASSUME PresenceInv, TimerFires  PROVE PresenceInv'
  OBVIOUS
<1>1. /\ timer' = FALSE /\ deadline' = "past" /\ pumpAt # "run"
      /\ pumpAt' = IF pumpAt = "idle" THEN "run" ELSE pumpAt
      /\ UNCHANGED <<sync, superseded, dirty, sentSpawns, rows, spawns, inc, rowsAt, gatewayAt, freshAt, unsure, minted,
                  frame, late>>
  BY DEF TimerFires, Pumped, gatewayVars, routerVars
<1>2. pumpAt' \in {"run", "wait"} /\ (pumpAt' = "wait" <=> pumpAt = "wait")
  BY <1>1 DEF PresenceInv, PresenceTypes
<1>3. PresenceTypes'
  BY <1>1, <1>2 DEF PresenceInv, PresenceTypes
<1>4. FrameOut' /\ TimerArmed'
  BY <1>1, <1>2 DEF PresenceInv, FrameOut, TimerArmed
<1>5. DeltaContinues' /\ CleanSent'
  BY <1>1 DEF PresenceInv, DeltaContinues, CleanSent
<1>6. InStep' /\ GoodAnswer' /\ NoLostWake'
  BY <1>1, <1>2 DEF PresenceInv, InStep, GoodAnswer, Showing, NoLostWake
<1>. QED  BY <1>3, <1>4, <1>5, <1>6 DEF PresenceInv

\* A turn of the pump: it rests with nothing unsent, or sends the rows of the moment.
LEMMA PumpKeeps == PresenceInv /\ pumpTurn => PresenceInv'
<1>. SUFFICES ASSUME PresenceInv, pumpTurn  PROVE PresenceInv'
  OBVIOUS
<1>. DEFINE s == IF sync.at = "streaming" /\ sentSpawns # spawns THEN needsBaseline ELSE sync
<1>1. /\ pumpAt = "run"
      /\ UNCHANGED <<sentSpawns, rows, spawns, inc, rowsAt, gatewayAt, freshAt, unsure, minted, late>>
  BY DEF pumpTurn, gatewayVars, routerVars
<1>2. PresenceTypes
  BY DEF PresenceInv
<1>3. frame = NoFrame
  BY <1>1 DEF PresenceInv, FrameOut
<1>4. /\ s \in Syncs
      /\ s = sync \/ s.at = "needsBaseline"
      /\ s.at = "streaming" => s = sync /\ sentSpawns = spawns
  BY <1>2 DEF PresenceTypes, Syncs, needsBaseline
<1>5. CASE /\ inc = 0 \/ deadline = "future" \/ (s.at = "streaming" /\ (~dirty \/ Changed(s) = {}))
           /\ pumpAt' = "idle" /\ UNCHANGED <<sync, superseded, dirty, deadline, timer, frame>>
  <2>1. PresenceTypes'
    BY <1>1, <1>2, <1>5 DEF PresenceTypes
  <2>2. FrameOut' /\ TimerArmed' /\ DeltaContinues' /\ CleanSent'
    BY <1>1, <1>3, <1>5 DEF PresenceInv, FrameOut, TimerArmed, DeltaContinues, CleanSent
  <2>3. InStep' /\ GoodAnswer'
    BY <1>1, <1>5 DEF PresenceInv, InStep, GoodAnswer, Showing
  <2>4. NoLostWake'
    <3>1. SUFFICES ASSUME inc # 0, ~timer
                   PROVE  sync.at = "streaming" /\ sync.sent = rows /\ sentSpawns = spawns
      BY <1>1, <1>5 DEF NoLostWake
    <3>2. s.at = "streaming" /\ (~dirty \/ Changed(s) = {})
      BY <1>5, <3>1 DEF PresenceInv, TimerArmed
    <3>3. s = sync /\ sentSpawns = spawns
      BY <1>4, <3>2
    <3>4. sync.sent = rows
      <4>1. CASE ~dirty
        BY <4>1, <1>3, <3>2, <3>3 DEF PresenceInv, CleanSent
      <4>2. CASE Changed(s) = {}
        <5>1. \A t \in Teams : sync.sent[t] = rows[t]
          BY <4>2, <3>3 DEF Changed
        <5>. QED  BY <5>1, <1>2, SameRows DEF PresenceTypes, Syncs
      <4>. QED  BY <3>2, <4>1, <4>2
    <3>. QED  BY <3>2, <3>3, <3>4
  <2>. QED  BY <2>1, <2>2, <2>3, <2>4 DEF PresenceInv
<1>6. CASE /\ inc # 0
           /\ s.at = "needsBaseline" \/ (dirty /\ Changed(s) # {})
           /\ frame' = nextFrame(s)
           /\ dirty' = (dirty /\ s.at = "needsBaseline")
           /\ sync' = s /\ superseded' = FALSE
           /\ Deadline("none")
           /\ pumpAt' = "wait"
  <2>1. /\ deadline' = "none" /\ timer' = FALSE
    BY <1>6 DEF Deadline
  <2>2. /\ frame' \in Frames /\ frame' # NoFrame /\ frame'.rows = rows /\ frame'.answer = "out" /\ frame'.inc = inc
        /\ frame'.kind = "delta" => /\ s.at = "streaming" /\ frame'.seq = s.seq + 1
                                    /\ frame'.changed = Changed(s)
        /\ frame'.kind = "baseline" => s.at = "needsBaseline"
    <3>. HIDE DEF s
    <3>1. CASE s.at = "needsBaseline"
      <4>1. frame' = [kind |-> "baseline", inc |-> inc, seq |-> 0, rows |-> rows, spawns |-> spawns, answer |-> "out"]
        BY <1>6, <3>1 DEF nextFrame
      <4>2. frame' \in Baselines /\ frame'.kind = "baseline"
        BY <4>1, <1>2 DEF Baselines, PresenceTypes, Answers
      <4>. QED  BY <3>1, <4>1, <4>2 DEF Frames, NoFrame
    <3>2. CASE s.at # "needsBaseline"
      <4>1. frame' = [kind |-> "delta", inc |-> inc, seq |-> s.seq + 1, rows |-> rows, spawns |-> spawns,
                      changed |-> Changed(s), answer |-> "out"]
        BY <1>6, <3>2 DEF nextFrame
      <4>2. s.at = "streaming" /\ s.seq \in Nat /\ Changed(s) \subseteq Teams
        BY <1>4, <3>2 DEF Syncs, Changed
      <4>3. frame' \in Deltas /\ frame'.kind = "delta"
        BY <4>1, <4>2, <1>2 DEF Deltas, PresenceTypes, Answers
      <4>. QED  BY <4>1, <4>2, <4>3 DEF Frames, NoFrame
    <3>. QED  BY <3>1, <3>2
  <2>3. PresenceTypes'
    <3>. HIDE DEF s
    <3>. QED  BY <1>1, <1>2, <1>4, <1>6, <2>1, <2>2 DEF PresenceTypes
  <2>4. FrameOut' /\ TimerArmed'
    BY <1>1, <1>6, <2>1, <2>2 DEF PresenceInv, FrameOut, TimerArmed
  <2>5. DeltaContinues'
    <3>1. \A t \in Teams \ Changed(s) : s.sent[t] = rows[t]
      BY DEF Changed
    <3>. HIDE DEF s
    <3>. QED  BY <1>6, <2>2, <3>1 DEF DeltaContinues
  <2>6. CleanSent' /\ GoodAnswer' /\ NoLostWake'
    BY <1>1, <1>6, <2>2 DEF CleanSent, GoodAnswer, Showing, NoLostWake
  <2>7. InStep'
    <3>. HIDE DEF s
    <3>. QED  BY <1>1, <1>4, <1>6 DEF PresenceInv, InStep, Showing
  <2>. QED  BY <2>3, <2>4, <2>5, <2>6, <2>7 DEF PresenceInv
<1>. QED  BY <1>5, <1>6 DEF pumpTurn

\* The answer of a frame: its rows count as sent if it was taken and nothing
\* replaced the state since, a failed one is tried again.
LEMMA AnswerKeeps == PresenceInv /\ applyAnswer => PresenceInv'
<1>. SUFFICES ASSUME PresenceInv, applyAnswer  PROVE PresenceInv'
  OBVIOUS
<1>1. /\ pumpAt = "wait" /\ frame.answer # "out" /\ frame' = NoFrame
      /\ UNCHANGED <<rows, spawns, inc, rowsAt, gatewayAt, freshAt, unsure, minted, late>>
  BY DEF applyAnswer, gatewayVars, routerVars
<1>2. PresenceTypes /\ frame \in Frames /\ frame # NoFrame
  BY <1>1 DEF PresenceInv, FrameOut, PresenceTypes
<1>3. /\ frame \in Baselines \cup Deltas /\ frame.seq \in Nat /\ frame.rows \in Rows
      /\ NoFrame \in Frames /\ NoFrame.kind # "delta"
  BY <1>2, FrameKinds DEF Frames, NoFrame
<1>4. CASE /\ superseded
           /\ IF sync.at = "needsBaseline" THEN Deadline("past") ELSE UNCHANGED <<deadline, timer>>
           /\ pumpAt' = "run"
           /\ UNCHANGED <<sync, superseded, dirty, sentSpawns>>
  <2>1. sync.at = "needsBaseline"
    BY <1>2, <1>4 DEF PresenceInv, FrameOut
  <2>2. deadline' = "past" /\ timer' = TRUE
    BY <1>4, <2>1 DEF Deadline
  <2>3. PresenceTypes'
    BY <1>1, <1>2, <1>3, <1>4, <2>2 DEF PresenceTypes
  <2>4. FrameOut' /\ TimerArmed' /\ DeltaContinues'
    BY <1>1, <1>3, <1>4, <2>2 DEF PresenceInv, FrameOut, TimerArmed, DeltaContinues
  <2>5. CleanSent' /\ InStep' /\ GoodAnswer' /\ NoLostWake'
    BY <1>1, <1>4, <2>1 DEF CleanSent, InStep, GoodAnswer, Showing, NoLostWake
  <2>. QED  BY <2>3, <2>4, <2>5 DEF PresenceInv
<1>5. CASE /\ ~superseded /\ frame.answer = "ok"
           /\ sync' = landed
           /\ sentSpawns' = IF frame.kind = "baseline" THEN frame.spawns ELSE sentSpawns
           /\ Deadline("none")
           /\ pumpAt' = "run"
           /\ UNCHANGED <<superseded, dirty>>
  <2>1. deadline' = "none" /\ timer' = FALSE
    BY <1>5 DEF Deadline
  <2>2. sync' \in Syncs /\ sync'.at = "streaming" /\ sync'.seq = frame.seq /\ sync'.sent = frame.rows
    BY <1>3, <1>5 DEF landed, Syncs
  <2>3. sentSpawns' \in SpawnValues \cup {0}
    BY <1>2, <1>3, <1>5 DEF PresenceTypes, Baselines, Deltas
  <2>4. PresenceTypes'
    BY <1>1, <1>2, <1>3, <1>5, <2>1, <2>2, <2>3 DEF PresenceTypes
  <2>5. FrameOut' /\ TimerArmed' /\ DeltaContinues'
    BY <1>1, <1>3, <1>5, <2>1 DEF PresenceInv, FrameOut, TimerArmed, DeltaContinues
  <2>6. CleanSent'
    BY <1>1, <1>2, <1>5, <2>2 DEF PresenceInv, CleanSent
  <2>7. InStep'
    BY <1>1, <1>2, <1>5, <2>2 DEF PresenceInv, InStep, GoodAnswer, Showing
  <2>8. GoodAnswer' /\ NoLostWake'
    BY <1>1, <1>5 DEF GoodAnswer, Showing, NoLostWake
  <2>. QED  BY <2>4, <2>5, <2>6, <2>7, <2>8 DEF PresenceInv
<1>6. CASE /\ ~superseded /\ frame.answer = "failed"
           /\ retry
           /\ pumpAt' = "idle"
           /\ UNCHANGED <<sync, superseded, sentSpawns>>
  <2>1. dirty' = TRUE /\ deadline' = "future" /\ timer' = TRUE
    BY <1>6 DEF retry, Deadline
  <2>2. PresenceTypes'
    BY <1>1, <1>2, <1>3, <1>6, <2>1 DEF PresenceTypes
  <2>3. FrameOut' /\ TimerArmed' /\ DeltaContinues'
    BY <1>1, <1>3, <1>6, <2>1 DEF PresenceInv, FrameOut, TimerArmed, DeltaContinues
  <2>4. CleanSent' /\ InStep' /\ GoodAnswer' /\ NoLostWake'
    BY <1>1, <1>6, <2>1 DEF PresenceInv, CleanSent, InStep, GoodAnswer, Showing, NoLostWake
  <2>. QED  BY <2>2, <2>3, <2>4 DEF PresenceInv
<1>7. CASE /\ ~superseded /\ frame.answer = "resync"
           /\ sync' = needsBaseline
           /\ Deadline("past")
           /\ pumpAt' = "run"
           /\ UNCHANGED <<superseded, dirty, sentSpawns>>
  <2>1. deadline' = "past" /\ timer' = TRUE
    BY <1>7 DEF Deadline
  <2>2. sync' \in Syncs /\ sync'.at = "needsBaseline"
    BY <1>2, <1>7 DEF needsBaseline, Syncs, PresenceTypes
  <2>3. PresenceTypes'
    BY <1>1, <1>2, <1>3, <1>7, <2>1, <2>2 DEF PresenceTypes
  <2>4. FrameOut' /\ TimerArmed' /\ DeltaContinues'
    BY <1>1, <1>3, <1>7, <2>1 DEF PresenceInv, FrameOut, TimerArmed, DeltaContinues
  <2>5. CleanSent' /\ InStep' /\ GoodAnswer' /\ NoLostWake'
    BY <1>1, <1>7, <2>2 DEF CleanSent, InStep, GoodAnswer, Showing, NoLostWake
  <2>. QED  BY <2>3, <2>4, <2>5 DEF PresenceInv
<1>. QED  BY <1>4, <1>5, <1>6, <1>7 DEF applyAnswer

\* The reporter starts over, with a frame out or not: it needs a baseline.
LEMMA StartingOver ==
    ASSUME PresenceTypes, startOver, UNCHANGED rows
    PROVE  /\ sync' \in Syncs /\ sync'.at = "needsBaseline" /\ superseded' = TRUE
           /\ deadline' = "past" /\ timer' = TRUE
           /\ pumpAt' \in {"run", "wait"} /\ (pumpAt' = "wait" <=> pumpAt = "wait")
           /\ UNCHANGED <<dirty, sentSpawns>>
BY DEF startOver, needsBaseline, Syncs, PresenceTypes, Deadline, Pumped

\* The Router takes a frame, or cannot: a delta is taken only at its number, where
\* the rows the Router holds are those the delta was built upon.
LEMMA RouterTakesKeeps == PresenceInv /\ RouterTakes => PresenceInv'
<1>. SUFFICES ASSUME PresenceInv, RouterTakes  PROVE PresenceInv'
  OBVIOUS
<1>1. /\ frame # NoFrame /\ frame.answer = "out" /\ pumpAt # "run"
      /\ UNCHANGED <<rows, spawns, inc, minted, late>>
  BY DEF RouterTakes, gatewayVars
<1>2. PresenceTypes /\ frame \in Frames /\ inc # 0 /\ frame.inc = inc /\ pumpAt = "wait"
  BY <1>1 DEF PresenceInv, PresenceTypes, FrameOut
<1>3. frame.kind \in {"baseline", "delta"} /\ frame.rows \in Rows /\ frame.seq \in Nat
  BY <1>1, <1>2, FrameKinds DEF Baselines, Deltas
<1>4. ASSUME NEW a \in Answers, frame' = [frame EXCEPT !.answer = a]
      PROVE  /\ frame' \in Frames /\ frame' # NoFrame /\ frame'.answer = a
             /\ frame'.kind = frame.kind /\ frame'.inc = frame.inc /\ frame'.seq = frame.seq /\ frame'.rows = frame.rows
             /\ frame'.spawns = frame.spawns
             /\ frame.kind = "delta" => frame'.changed = frame.changed
  BY <1>1, <1>2, <1>4, AnsweredFrame
<1>5. ASSUME Taken(frame), NEW a \in {"ok", "failed"}, frame' = [frame EXCEPT !.answer = a], applies(frame),
             UNCHANGED reporterVars
      PROVE  PresenceInv'
  <2>1. UNCHANGED <<sync, superseded, dirty, deadline, timer, sentSpawns, pumpAt>>
    BY <1>5 DEF reporterVars
  <2>2. /\ frame' \in Frames /\ frame' # NoFrame /\ frame'.answer = a
        /\ frame'.kind = frame.kind /\ frame'.inc = frame.inc /\ frame'.seq = frame.seq /\ frame'.rows = frame.rows
        /\ frame'.spawns = frame.spawns
        /\ frame.kind = "delta" => frame'.changed = frame.changed
    BY <1>4, <1>5 DEF Answers
  <2>3. /\ rowsAt' \in Rows /\ gatewayAt' \in GatewayRecords /\ unsure' \subseteq Teams
        /\ gatewayAt'.inc = frame.inc /\ gatewayAt'.seq = frame.seq
        /\ gatewayAt'.spawns = IF frame.kind = "baseline" THEN frame.spawns ELSE gatewayAt.spawns
        /\ \A t \in Teams : \/ rowsAt'[t] = frame.rows[t] \/ t \in unsure'
                            \/ /\ frame.kind = "delta" /\ t \notin frame.changed
                               /\ rowsAt'[t] = rowsAt[t] /\ (t \in unsure' <=> t \in unsure)
        /\ frame.kind = "baseline" => freshAt' = TRUE
        /\ freshAt => freshAt'
    BY <1>1, <1>2, <1>5, TakenHolds
  <2>4. frame.kind = "delta" /\ ~superseded =>
            /\ sync.at = "streaming" /\ frame.seq = sync.seq + 1
            /\ Showing(sync.sent) /\ gatewayAt.spawns = sentSpawns /\ freshAt
            /\ \A t \in Teams \ frame.changed : frame.rows[t] = sync.sent[t]
    <3>1. SUFFICES ASSUME frame.kind = "delta", ~superseded
                   PROVE  /\ sync.at = "streaming" /\ frame.seq = sync.seq + 1
                          /\ Showing(sync.sent) /\ gatewayAt.spawns = sentSpawns /\ freshAt
                          /\ \A t \in Teams \ frame.changed : frame.rows[t] = sync.sent[t]
      OBVIOUS
    <3>2. /\ sync.at = "streaming" /\ frame.seq = sync.seq + 1
          /\ \A t \in Teams \ frame.changed : frame.rows[t] = sync.sent[t]
      BY <3>1 DEF PresenceInv, DeltaContinues
    <3>3. gatewayAt.inc = inc /\ frame.seq = gatewayAt.seq + 1
      BY <3>1, <1>2, <1>5 DEF applies
    <3>4. sync.seq \in Nat /\ gatewayAt.seq \in Nat
      BY <1>2 DEF PresenceTypes, Syncs, GatewayRecords
    <3>5. gatewayAt.seq = sync.seq
      BY <3>2, <3>3, <3>4
    <3>. QED  BY <3>2, <3>3, <3>5, <1>2 DEF PresenceInv, InStep
  <2>5. ~superseded => \A t \in Teams : rowsAt'[t] = frame.rows[t] \/ t \in unsure'
    BY <2>3, <2>4 DEF Showing
  <2>6. PresenceTypes'
    BY <1>1, <1>2, <2>1, <2>2, <2>3 DEF PresenceTypes
  <2>7. FrameOut' /\ TimerArmed'
    BY <1>1, <1>2, <2>1, <2>2 DEF PresenceInv, FrameOut, TimerArmed
  <2>8. DeltaContinues' /\ CleanSent'
    BY <1>1, <2>1, <2>2 DEF PresenceInv, DeltaContinues, CleanSent
  <2>9. InStep'
    <3>1. SUFFICES ASSUME sync.at = "streaming"
                   PROVE  freshAt' /\ gatewayAt'.seq # sync.seq
      BY <1>1, <2>1 DEF InStep
    <3>2. frame.kind = "delta" /\ ~superseded
      BY <3>1, <1>1, <1>2, <1>3 DEF PresenceInv, FrameOut
    <3>3. sync.seq \in Nat
      BY <1>2 DEF PresenceTypes, Syncs
    <3>. QED  BY <3>2, <3>3, <2>3, <2>4
  <2>10. GoodAnswer'
    <3>1. ~superseded => freshAt'
      BY <1>3, <2>3, <2>4
    <3>2. ~superseded => gatewayAt'.spawns = IF frame.kind = "baseline" THEN frame.spawns ELSE sentSpawns
      BY <1>3, <2>3, <2>4
    <3>. QED  BY <2>1, <2>2, <2>5, <3>1, <3>2 DEF GoodAnswer, Showing
  <2>11. NoLostWake'
    BY <1>2, <2>1 DEF NoLostWake
  <2>. QED  BY <2>6, <2>7, <2>8, <2>9, <2>10, <2>11 DEF PresenceInv
<1>6. ASSUME NEW a \in {"failed", "resync"}, frame' = [frame EXCEPT !.answer = a],
             rowsAt' \in Rows, unsure' \subseteq Teams, UNCHANGED <<gatewayAt, freshAt, reporterVars>>,
             unsure \subseteq unsure', \A t \in Teams : rowsAt'[t] = rowsAt[t] \/ t \in unsure'
      PROVE  PresenceInv'
  <2>1. UNCHANGED <<sync, superseded, dirty, deadline, timer, sentSpawns, pumpAt>>
    BY <1>6 DEF reporterVars
  <2>2. /\ frame' \in Frames /\ frame' # NoFrame /\ frame'.answer = a
        /\ frame'.kind = frame.kind /\ frame'.inc = frame.inc /\ frame'.seq = frame.seq /\ frame'.rows = frame.rows
        /\ frame.kind = "delta" => frame'.changed = frame.changed
    BY <1>4, <1>6 DEF Answers
  <2>3. PresenceTypes'
    BY <1>1, <1>2, <1>6, <2>1, <2>2 DEF PresenceTypes
  <2>4. FrameOut' /\ TimerArmed'
    <3>1. /\ frame' # NoFrame /\ frame # NoFrame
          /\ frame'.answer \notin {"out", "ok"} /\ frame'.kind = frame.kind
      <4>1. a \in {"failed", "resync"}
        BY <1>6
      <4>2. a \notin {"out", "ok"}
        BY <4>1
      <4>. QED  BY <1>1, <2>2, <4>2
    <3>2. FrameOut'
      BY <1>1, <2>1, <3>1 DEF PresenceInv, FrameOut
    <3>3. TimerArmed'
      BY <1>1, <2>1 DEF PresenceInv, TimerArmed
    <3>. QED  BY <3>2, <3>3
  <2>5. DeltaContinues' /\ CleanSent'
    BY <1>1, <2>1, <2>2 DEF PresenceInv, DeltaContinues, CleanSent
  <2>6. InStep' /\ GoodAnswer' /\ NoLostWake'
    BY <1>1, <1>2, <1>6, <2>1, <2>2 DEF PresenceInv, InStep, GoodAnswer, Showing, NoLostWake
  <2>. QED  BY <2>3, <2>4, <2>5, <2>6 DEF PresenceInv
<1>7. ASSUME frame' = [frame EXCEPT !.answer = "resync"], startOver, UNCHANGED <<rowsAt, gatewayAt, freshAt, unsure>>
      PROVE  PresenceInv'
  <2>1. /\ sync' \in Syncs /\ sync'.at = "needsBaseline" /\ superseded' = TRUE
        /\ deadline' = "past" /\ timer' = TRUE
        /\ pumpAt' \in {"run", "wait"} /\ (pumpAt' = "wait" <=> pumpAt = "wait")
        /\ UNCHANGED <<dirty, sentSpawns>>
    BY <1>1, <1>2, <1>7, StartingOver
  <2>2. /\ frame' \in Frames /\ frame' # NoFrame /\ frame'.answer = "resync" /\ frame'.rows = frame.rows
    BY <1>4, <1>7 DEF Answers
  <2>3. PresenceTypes'
    BY <1>1, <1>2, <1>7, <2>1, <2>2 DEF PresenceTypes
  <2>4. FrameOut' /\ TimerArmed'
    BY <1>1, <1>2, <2>1, <2>2 DEF PresenceInv, FrameOut, TimerArmed
  <2>5. DeltaContinues' /\ CleanSent'
    BY <1>1, <2>1, <2>2 DEF PresenceInv, DeltaContinues, CleanSent
  <2>6. InStep' /\ GoodAnswer' /\ NoLostWake'
    BY <2>1, <2>2 DEF InStep, GoodAnswer, Showing, NoLostWake
  <2>. QED  BY <2>3, <2>4, <2>5, <2>6 DEF PresenceInv
<1>8. CASE \/ /\ TakenInPart(frame)
              /\ frame' = [frame EXCEPT !.answer = "failed"]
              /\ UNCHANGED reporterVars
           \/ /\ frame' = [frame EXCEPT !.answer = "resync"]
              /\ UNCHANGED <<rowsAt, gatewayAt, freshAt, unsure, reporterVars>>
  <2>1. CASE TakenInPart(frame) /\ frame' = [frame EXCEPT !.answer = "failed"] /\ UNCHANGED reporterVars
    BY <1>1, <1>2, <1>6, <2>1, PartHolds
  <2>2. CASE /\ frame' = [frame EXCEPT !.answer = "resync"]
             /\ UNCHANGED <<rowsAt, gatewayAt, freshAt, unsure, reporterVars>>
    BY <1>2, <1>6, <2>2 DEF PresenceTypes
  <2>. QED  BY <1>8, <2>1, <2>2
<1>. QED  BY <1>5, <1>7, <1>8 DEF RouterTakes

\* A frame of a connection that was given up: its record is of another incarnation
\* than the gateway's, and taking a part of it changes no row anybody is sure of.
LEMMA LateFrameKeeps == PresenceInv /\ LateFrameTaken => PresenceInv'
<1>. SUFFICES ASSUME PresenceInv, LateFrameTaken  PROVE PresenceInv'
  OBVIOUS
<1>1. PICK f \in late :
         /\ late' = late \ {f}
         /\ \/ Taken(f) /\ UNCHANGED reporterVars
            \/ TakenInPart(f) /\ UNCHANGED reporterVars
            \/ startOver /\ UNCHANGED <<rowsAt, gatewayAt, freshAt, unsure>>
            \/ UNCHANGED <<reporterVars, rowsAt, gatewayAt, freshAt, unsure>>
  BY DEF LateFrameTaken
<1>2. pumpAt # "run" /\ UNCHANGED <<rows, spawns, inc, minted, frame>>
  BY DEF LateFrameTaken, gatewayVars
<1>3. /\ PresenceTypes /\ f \in Frames /\ f # NoFrame /\ late' \subseteq late
      /\ inc # 0 => f.inc # inc
  BY <1>1 DEF PresenceInv, PresenceTypes, FrameOut
<1>4. frame # NoFrame /\ frame.answer = "ok" => inc # 0
  BY DEF PresenceInv, FrameOut
<1>5. ASSUME UNCHANGED reporterVars, rowsAt' \in Rows, unsure' \subseteq Teams, gatewayAt' \in GatewayRecords,
             freshAt => freshAt',
             \/ inc # 0 => gatewayAt'.inc # inc
             \/ /\ gatewayAt' = gatewayAt /\ unsure \subseteq unsure'
                /\ \A t \in Teams : rowsAt'[t] = rowsAt[t] \/ t \in unsure'
      PROVE  PresenceInv'
  <2>1. UNCHANGED <<sync, superseded, dirty, deadline, timer, sentSpawns, pumpAt>>
    BY <1>5 DEF reporterVars
  <2>2. PresenceTypes'
    BY <1>2, <1>3, <1>5, <2>1 DEF PresenceTypes
  <2>3. FrameOut' /\ TimerArmed' /\ DeltaContinues' /\ CleanSent'
    BY <1>2, <1>3, <2>1 DEF PresenceInv, FrameOut, TimerArmed, DeltaContinues, CleanSent
  <2>4. InStep'
    BY <1>2, <1>5, <2>1 DEF PresenceInv, InStep, Showing
  <2>5. GoodAnswer'
    BY <1>2, <1>4, <1>5, <2>1 DEF PresenceInv, GoodAnswer, Showing
  <2>6. NoLostWake'
    BY <1>2, <2>1 DEF PresenceInv, NoLostWake
  <2>. QED  BY <2>2, <2>3, <2>4, <2>5, <2>6 DEF PresenceInv
<1>6. CASE Taken(f) /\ UNCHANGED reporterVars
  BY <1>3, <1>5, <1>6, TakenHolds
<1>7. CASE TakenInPart(f) /\ UNCHANGED reporterVars
  BY <1>3, <1>5, <1>7, PartHolds DEF PresenceTypes
<1>8. CASE UNCHANGED <<reporterVars, rowsAt, gatewayAt, freshAt, unsure>>
  BY <1>3, <1>5, <1>8 DEF PresenceTypes
<1>9. CASE startOver /\ UNCHANGED <<rowsAt, gatewayAt, freshAt, unsure>>
  <2>1. /\ sync' \in Syncs /\ sync'.at = "needsBaseline" /\ superseded' = TRUE
        /\ deadline' = "past" /\ timer' = TRUE
        /\ pumpAt' \in {"run", "wait"} /\ (pumpAt' = "wait" <=> pumpAt = "wait")
        /\ UNCHANGED <<dirty, sentSpawns>>
    BY <1>2, <1>3, <1>9, StartingOver
  <2>2. PresenceTypes'
    BY <1>2, <1>3, <1>9, <2>1 DEF PresenceTypes
  <2>3. FrameOut' /\ TimerArmed' /\ DeltaContinues' /\ CleanSent'
    BY <1>2, <1>3, <2>1 DEF PresenceInv, FrameOut, TimerArmed, DeltaContinues, CleanSent
  <2>4. InStep' /\ GoodAnswer' /\ NoLostWake'
    BY <2>1 DEF InStep, GoodAnswer, NoLostWake
  <2>. QED  BY <2>2, <2>3, <2>4 DEF PresenceInv
<1>. QED  BY <1>1, <1>6, <1>7, <1>8, <1>9

\* A session is forgotten: of its row nobody is sure any more.
LEMMA ForgettingKeeps ==
    ASSUME PresenceInv, NEW t \in Teams, RouterForgets(t)
    PROVE  PresenceInv'
<1>1. /\ rowsAt' = [rowsAt EXCEPT ![t] = 0] /\ unsure' = unsure \cup {t}
      /\ UNCHANGED <<sync, superseded, dirty, deadline, timer, sentSpawns, pumpAt, rows, spawns, inc, gatewayAt,
                     freshAt, minted, frame, late>>
  BY DEF RouterForgets, reporterVars, gatewayVars
<1>2. PresenceTypes
  BY DEF PresenceInv
<1>3. PresenceTypes' /\ \A x \in Teams : rowsAt'[x] = rowsAt[x] \/ x \in unsure'
  BY <1>1, <1>2 DEF PresenceTypes, Rows
<1>4. FrameOut' /\ TimerArmed' /\ DeltaContinues' /\ CleanSent'
  BY <1>1 DEF PresenceInv, FrameOut, TimerArmed, DeltaContinues, CleanSent
<1>5. InStep' /\ GoodAnswer' /\ NoLostWake'
  BY <1>1, <1>3 DEF PresenceInv, InStep, GoodAnswer, NoLostWake, Showing
<1>. QED  BY <1>3, <1>4, <1>5 DEF PresenceInv

\* The gateway registers: whatever it knew, it starts over.
LEMMA RegistersKeeps == PresenceInv /\ Registers => PresenceInv'
<1>. SUFFICES ASSUME PresenceInv, Registers  PROVE PresenceInv'
  OBVIOUS
<1>1. /\ inc = 0 /\ inc' = minted + 1 /\ minted' = minted + 1 /\ startOver
      /\ gatewayAt' \in {gatewayAt, [inc |-> minted + 1, seq |-> NoSeq, spawns |-> gatewayAt.spawns]}
      /\ UNCHANGED <<rows, spawns, rowsAt, freshAt, unsure, frame, late>>
  BY DEF Registers
<1>2. /\ PresenceTypes /\ NoFrame \in Frames /\ gatewayAt \in GatewayRecords /\ frame \in Frames /\ minted \in Nat
      /\ \A f \in late : f.inc \in Nat /\ f.inc <= minted
  <2>1. \A f \in late : f.inc \in Nat
    BY FrameKinds DEF PresenceInv, PresenceTypes
  <2>. QED  BY <2>1 DEF PresenceInv, PresenceTypes, Frames, FrameOut
<1>3. /\ sync' \in Syncs /\ sync'.at = "needsBaseline" /\ superseded' = TRUE
      /\ deadline' = "past" /\ timer' = TRUE
      /\ pumpAt' \in {"run", "wait"} /\ (pumpAt' = "wait" <=> pumpAt = "wait")
      /\ UNCHANGED <<dirty, sentSpawns>>
  BY <1>1, <1>2, StartingOver
<1>4. gatewayAt' \in GatewayRecords /\ inc' \in Nat
  <2>1. minted + 1 \in Nat /\ NoSeq \in Nat
    BY <1>2, PresenceAssumption DEF NoSeq
  <2>. QED  BY <1>1, <1>2, <2>1 DEF GatewayRecords
<1>5. PresenceTypes'
  BY <1>1, <1>2, <1>3, <1>4 DEF PresenceTypes
<1>6. frame # NoFrame => frame.answer \notin {"out", "ok"}
  BY <1>1 DEF PresenceInv, FrameOut
<1>7. FrameOut' /\ TimerArmed'
  BY <1>1, <1>2, <1>3, <1>6 DEF PresenceInv, FrameOut, TimerArmed
<1>8. DeltaContinues' /\ CleanSent'
  BY <1>1, <1>3 DEF PresenceInv, DeltaContinues, CleanSent
<1>9. InStep' /\ GoodAnswer' /\ NoLostWake'
  BY <1>1, <1>3, <1>6 DEF InStep, GoodAnswer, Showing, NoLostWake
<1>. QED  BY <1>5, <1>7, <1>8, <1>9 DEF PresenceInv

\* The connection is lost, at either end: a frame that is out fails.
LEMMA ConnectionLost ==
    ASSUME PresenceInv, inc' = 0,
           frame' = IF frame = NoFrame THEN frame ELSE [frame EXCEPT !.answer = "failed"],
           late' \subseteq late \cup {frame}, NoFrame \notin late',
           frame \in late' => frame \in late \/ frame.answer = "out",
           UNCHANGED <<rows, spawns, reporterVars, rowsAt, gatewayAt, unsure, minted>>
    PROVE  PresenceInv'
<1>1. UNCHANGED <<sync, superseded, dirty, deadline, timer, sentSpawns, pumpAt>>
  BY DEF reporterVars
<1>2. PresenceTypes /\ frame \in Frames /\ NoFrame \in Frames
  BY DEF PresenceInv, PresenceTypes, Frames
<1>3. frame # NoFrame => /\ frame' \in Frames /\ frame' # NoFrame /\ frame'.answer = "failed"
                         /\ frame'.kind = frame.kind /\ frame'.inc = frame.inc /\ frame'.seq = frame.seq /\ frame'.rows = frame.rows
                         /\ frame.kind = "delta" => frame'.changed = frame.changed
  BY <1>2, AnsweredFrame DEF Answers
<1>4. PresenceTypes'
  BY <1>1, <1>2, <1>3 DEF PresenceTypes
<1>8. minted \in Nat /\ \A f \in late' : f.inc <= minted
  BY DEF PresenceInv, PresenceTypes, FrameOut
<1>5. FrameOut' /\ TimerArmed'
  BY <1>1, <1>3, <1>8 DEF PresenceInv, FrameOut, TimerArmed
<1>6. DeltaContinues' /\ CleanSent'
  BY <1>1, <1>3 DEF PresenceInv, DeltaContinues, CleanSent
<1>7. InStep' /\ GoodAnswer' /\ NoLostWake'
  BY <1>3 DEF InStep, GoodAnswer, Showing, NoLostWake
<1>. QED  BY <1>4, <1>5, <1>6, <1>7 DEF PresenceInv

LEMMA PresenceInvNext == PresenceInv /\ [PresenceNext]_presenceVars => PresenceInv'
<1>. SUFFICES ASSUME PresenceInv, [PresenceNext]_presenceVars  PROVE PresenceInv'
  OBVIOUS
<1>1. CASE \/ \E t \in Teams, v \in RowValues \cup {0} : RowChanges(t, v)
           \/ \E v \in SpawnValues : SpawnsChange(v)
  BY <1>1, ChangesKeep
<1>14. ASSUME NEW t \in Teams, RouterForgets(t)  PROVE PresenceInv'
  BY <1>14, ForgettingKeeps
<1>2. CASE TimerFires
  BY <1>2, TimerFiresKeeps
<1>3. CASE pumpTurn
  BY <1>3, PumpKeeps
<1>4. CASE applyAnswer
  BY <1>4, AnswerKeeps
<1>5. CASE RouterTakes
  BY <1>5, RouterTakesKeeps
<1>6. CASE LateFrameTaken
  BY <1>6, LateFrameKeeps
<1>7. CASE Registers
  BY <1>7, RegistersKeeps
<1>8. CASE Disconnect
  <2>1. NoFrame \notin late
    BY DEF PresenceInv, PresenceTypes
  <2>. QED  BY <1>8, <2>1, ConnectionLost DEF Disconnect, routerVars
<1>9. CASE RouterRestarts
  BY <1>9, ConnectionLost DEF RouterRestarts
<1>10. CASE RouterSeesDrop
  <2>1. /\ inc = 0 /\ late' \subseteq late
        /\ UNCHANGED <<sync, superseded, dirty, deadline, timer, sentSpawns, pumpAt, rows, spawns, inc, rowsAt,
                       gatewayAt, unsure, minted, frame>>
    BY <1>10 DEF RouterSeesDrop, Closes, reporterVars, gatewayVars
  <2>3. PresenceTypes'
    BY <2>1 DEF PresenceInv, PresenceTypes
  <2>4. FrameOut' /\ TimerArmed' /\ DeltaContinues' /\ CleanSent'
    BY <2>1 DEF PresenceInv, FrameOut, TimerArmed, DeltaContinues, CleanSent
  <2>5. InStep' /\ GoodAnswer' /\ NoLostWake'
    BY <2>1 DEF PresenceInv, FrameOut, InStep, GoodAnswer, Showing, NoLostWake
  <2>. QED  BY <2>3, <2>4, <2>5 DEF PresenceInv
<1>11. ASSUME UNCHANGED <<sync, superseded, dirty, deadline, timer, sentSpawns, pumpAt, rows, spawns, inc, rowsAt,
                         gatewayAt, freshAt, unsure, minted, frame>>,
              late' \subseteq late
       PROVE  PresenceInv'
  <2>1. PresenceTypes' /\ FrameOut' /\ TimerArmed'
    BY <1>11 DEF PresenceInv, PresenceTypes, FrameOut, TimerArmed
  <2>2. DeltaContinues' /\ CleanSent' /\ InStep' /\ GoodAnswer' /\ NoLostWake'
    BY <1>11 DEF PresenceInv, DeltaContinues, CleanSent, InStep, GoodAnswer, Showing, NoLostWake
  <2>. QED  BY <2>1, <2>2 DEF PresenceInv
<1>12. CASE OldConnectionDrops
  BY <1>11, <1>12 DEF OldConnectionDrops, dropConnection, Closes, reporterVars, gatewayVars
<1>13. CASE UNCHANGED presenceVars
  BY <1>11, <1>13 DEF presenceVars, reporterVars, gatewayVars, routerVars
<1>. QED  BY <1>1, <1>2, <1>3, <1>4, <1>5, <1>6, <1>7, <1>8, <1>9, <1>10, <1>12, <1>13, <1>14 DEF PresenceNext

\* A reporter that rests has brought the Router up to date, for any number of
\* sessions, contents and changes, over lost and late answers, reconnections and
\* restarts of the Router, store writes refused and frames of replaced connections
\* (presenceReporter.ts, presenceService.ts, gatewayBridge.ts): but for the rows left
\* unsure by a delete that was refused, a frame taken in part or a session forgotten.
THEOREM RouterUpToDate == PresenceSpec => []RouterKeepsUp
<1>1. PresenceInv => RouterKeepsUp
  BY DEF PresenceInv, RouterKeepsUp, RouterAgrees, FreshWhenLive, AtRest, NoLostWake, InStep, Showing
<1>2. PresenceSpec => []PresenceInv
  BY PresenceInitInv, PresenceInvNext, PTL DEF PresenceSpec
<1>. QED  BY <1>1, <1>2, PTL

-----------------------------------------------------------------------------
(* The thread of an agent *)

\* One of the turns is over: it ended under this client or was over before.
Over(t) == server.turns[t] \in {"ended", "past"}

ThreadOpKinds == {"settle", "park", "activate", "start", "adopt", "adoptOrDispose"}
Loading == {"thread/resume", "resumeAgain", "thread/unarchive"}
Parking == {"thread/archive", "inspect", "inspectAgain"}
Requests == Loading \cup Parking \cup {"none", "turn/start", "read", "readAgain", "thread/delete"}
ThreadRecords ==
    [phase : {"unloaded", "idle", "active", "parking", "parked", "disposed", "poisoned"},
     turn : 0..ThreadTurns, epoch : Nat, parkEpoch : Nat, pendingStart : BOOLEAN,
     buffered : SUBSET ThreadTurnIds, published : SUBSET ThreadTurnIds, parkAttempts : Nat,
     retry : Nat \cup {NoRetry}]
Works ==
    [op : ThreadOpKinds \cup {"none"}, turn : Nat, awaits : Requests, started : 0..ThreadTurns,
     rest : SUBSET ThreadTurnIds]
XTypes ==
    [th : ThreadRecords, job : Works, handed : SUBSET ThreadTurnIds, told : [ThreadTurnIds -> Nat]]

\* What is published is counted, what is held is over, and of the turns handed
\* out only the thread's own runs, while the generation stands.
Sound(x) ==
    /\ x \in XTypes
    /\ \A t \in ThreadTurnIds : x.told[t] = IF t \in x.th.published THEN 1 ELSE 0
    /\ \A t \in x.th.buffered \cup x.job.rest : Over(t)
    /\ x.handed \subseteq KnownTurns
    /\ \A t \in x.handed \cap RunningTurns :
          x.th.phase = "poisoned" \/ (x.th.phase = "active" /\ x.th.turn = t)

\* What the open request says of the record.
Shaped(x) ==
    /\ x.th.pendingStart <=> x.job.awaits = "turn/start"
    /\ x.th.buffered # {} => x.th.pendingStart
    /\ x.job.awaits # "none" => x.th.phase \notin {"disposed", "poisoned"}
    /\ x.job.awaits \in Parking => x.th.phase = "parking"
    /\ x.job.awaits \in Loading => x.th.phase \in {"unloaded", "parked"} /\ x.job.started = 0
    /\ x.job.awaits = "thread/delete" => KnownTurns = {}
    /\ x.job.awaits \in Loading \cup {"turn/start", "read", "readAgain"} => x.job.rest = {}
    /\ x.job.awaits = "turn/start" /\ x.job.started # 0 =>
          x.job.started \in KnownTurns /\ RunningTurns \subseteq {x.job.started}
    /\ x.job.op = "none" => x.job = NoWork

ServerSound ==
    /\ server \in [at : {"loaded", "archived", "deleted"}, turns : [ThreadTurnIds -> {"none", "running", "ended", "past"}]]
    /\ \E n \in 0..ThreadTurns : KnownTurns = 1..n
    /\ \A t, u \in RunningTurns : t = u

QueueSound ==
    /\ queued \in Seq([op : ThreadOpKinds, turn : Nat])
    /\ notices \subseteq {t \in ThreadTurnIds : Over(t)}
    /\ \A i \in DOMAIN queued : queued[i].op = "settle" => queued[i].turn \in ThreadTurnIds /\ Over(queued[i].turn)

Settles(t) == \E i \in DOMAIN queued : queued[i] = Queue("settle", t)
\* The end of a turn is published or on its way, or the generation is given up.
Accounted ==
    \A t \in ThreadTurnIds : server.turns[t] = "ended" =>
        t \in notices \cup thread.buffered \cup job.rest \cup thread.published \/ thread.phase = "poisoned" \/ Settles(t)

ThreadInv == Sound(X) /\ Shaped(X) /\ ServerSound /\ QueueSound /\ Accounted

LEMMA ThreadInvSuffices == ThreadInv => TurnsReported
<1>. SUFFICES ASSUME ThreadInv PROVE TurnsReported
  OBVIOUS
<1>. USE DEF ThreadInv, X
<1>1. ReportedOnce
  <2>1. \A t \in ThreadTurnIds : told[t] = IF t \in thread.published THEN 1 ELSE 0
    BY DEF Sound
  <2>. QED  BY <2>1 DEF ReportedOnce
<1>2. NoneStranded
  <2>. SUFFICES ASSUME job = NoWork, queued = <<>>, notices = {}, thread.phase # "poisoned"
                PROVE  /\ thread.buffered = {}
                       /\ \A t \in ThreadTurnIds : server.turns[t] = "ended" => told[t] = 1
    BY DEF NoneStranded
  <2>1. job.awaits = "none" /\ job.rest = {}
    BY DEF NoWork, Working, Queue
  <2>2. thread.buffered = {}
    BY <2>1 DEF Shaped
  <2>3. ASSUME NEW t \in ThreadTurnIds, server.turns[t] = "ended" PROVE told[t] = 1
    <3>1. ~Settles(t)
      BY DEF Settles
    <3>2. t \in thread.published
      BY <2>1, <2>2, <2>3, <3>1 DEF Accounted
    <3>. QED  BY <3>2 DEF Sound
  <2>. QED  BY <2>2, <2>3
<1>3. ParkedQuiet
  <2>. SUFFICES ASSUME job.awaits = "thread/archive" \/ thread.phase \in {"parked", "disposed"},
                       NEW t \in handed, server.turns[t] = "running"
                PROVE  FALSE
    BY DEF ParkedQuiet
  <2>1. thread.phase \in {"parking", "parked", "disposed"}
    BY DEF Shaped, Parking
  <2>2. t \in handed \cap RunningTurns
    BY DEF Sound, XTypes, RunningTurns
  <2>. QED  BY <2>1, <2>2 DEF Sound
<1>. QED  BY <1>1, <1>2, <1>3 DEF TurnsReported

\* The record, the operation and the rest as one value.
LEMMA TypedParts ==
    ASSUME NEW x \in XTypes
    PROVE  /\ x = [th |-> x.th, job |-> x.job, handed |-> x.handed, told |-> x.told]
           /\ x.th \in ThreadRecords /\ x.job \in Works
           /\ x.handed \subseteq ThreadTurnIds /\ x.told \in [ThreadTurnIds -> Nat]
BY DEF XTypes

LEMMA ThreadInitInv == ThreadInit => ThreadInv
<1>. SUFFICES ASSUME ThreadInit PROVE ThreadInv
  OBVIOUS
<1>1. /\ thread = [phase |-> "unloaded", turn |-> 0, epoch |-> 0, parkEpoch |-> 0, pendingStart |-> FALSE,
                   buffered |-> {}, published |-> {}, parkAttempts |-> 0, retry |-> NoRetry]
      /\ job = NoWork /\ queued = <<>> /\ notices = {} /\ handed = {} /\ told = [t \in ThreadTurnIds |-> 0]
  BY DEF ThreadInit
<1>2. PICK at \in {"loaded", "archived"}, first \in {"none", "running", "past"} :
          server = [at |-> at, turns |-> [t \in ThreadTurnIds |-> IF t = 1 THEN first ELSE "none"]]
  BY DEF ThreadInit
<1>3. Sound(X)
  BY <1>1, ThreadAssumption DEF Sound, X, XTypes, ThreadRecords, Works, Requests, NoWork, Working, Queue
<1>4. Shaped(X)
  BY <1>1 DEF Shaped, X, NoWork, Working, Queue, Parking, Loading
<1>5. ServerSound
  <2>1. /\ server \in [at : {"loaded", "archived", "deleted"},
                       turns : [ThreadTurnIds -> {"none", "running", "ended", "past"}]]
        /\ \A t \in ThreadTurnIds : server.turns[t] = IF t = 1 THEN first ELSE "none"
    BY <1>2
  <2>2. \A t, u \in RunningTurns : t = u
    BY <2>1 DEF RunningTurns
  <2>3. CASE first = "none" \/ ThreadTurns = 0
    <3>1. KnownTurns = {}
      BY <2>1, <2>3 DEF KnownTurns, ThreadTurnIds
    <3>2. KnownTurns = 1..0 /\ 0 \in 0..ThreadTurns
      BY <3>1, ThreadAssumption
    <3>. QED  BY <3>2, <2>1, <2>2 DEF ServerSound
  <2>4. CASE first # "none" /\ ThreadTurns # 0
    <3>1. KnownTurns = 1..1 /\ 1 \in 0..ThreadTurns
      BY <2>1, <2>4, ThreadAssumption DEF KnownTurns, ThreadTurnIds
    <3>. QED  BY <3>1, <2>1, <2>2 DEF ServerSound
  <2>. QED  BY <2>3, <2>4
<1>6. QueueSound
  BY <1>1 DEF QueueSound
<1>7. Accounted
  BY <1>2 DEF Accounted
<1>. QED  BY <1>3, <1>4, <1>5, <1>6, <1>7 DEF ThreadInv

\* A step of the operation, or of the queue, that leaves the turns as they are.
LEMMA StepKeeps ==
    ASSUME ThreadInv, NEW x, Do(x), Sound(x), Shaped(x),
           server' \in [at : {"loaded", "archived", "deleted"}, turns : {server.turns}],
           queued' \in Seq([op : ThreadOpKinds, turn : Nat]),
           \A i \in DOMAIN queued' : queued'[i].op = "settle" =>
               queued'[i].turn \in ThreadTurnIds /\ Over(queued'[i].turn),
           x.th.phase = "poisoned" \/
           \A t \in ThreadTurnIds : \/ t \in thread.buffered \cup job.rest \cup thread.published \/ Settles(t)
                                    \/ thread.phase = "poisoned"
               => t \in x.th.buffered \cup x.job.rest \cup x.th.published \/ Settles(t)'
    PROVE  ThreadInv'
<1>1. server'.turns = server.turns /\ server'.at \in {"loaded", "archived", "deleted"}
  OBVIOUS
<1>2. KnownTurns' = KnownTurns /\ RunningTurns' = RunningTurns /\ \A t : Over(t)' <=> Over(t)
  BY <1>1 DEF KnownTurns, RunningTurns, Over
<1>3. X' = x /\ x \in XTypes
  BY TypedParts DEF Do, X, Sound
<1>4. Sound(X)' /\ Shaped(X)'
  <2>1. Sound(X)'
    BY <1>2, <1>3 DEF Sound
  <2>2. Shaped(X)'
    BY <1>2, <1>3 DEF Shaped
  <2>. QED  BY <2>1, <2>2
<1>5. ServerSound'
  BY <1>1, <1>2 DEF ThreadInv, ServerSound
<1>6. QueueSound'
  BY <1>2 DEF ThreadInv, QueueSound, Do
<1>7. Accounted'
  <2>. SUFFICES ASSUME NEW t \in ThreadTurnIds, server'.turns[t] = "ended"
                PROVE  (t \in notices \cup thread.buffered \cup job.rest \cup thread.published
                        \/ thread.phase = "poisoned" \/ Settles(t))'
    BY DEF Accounted
  <2>1. t \in notices \cup thread.buffered \cup job.rest \cup thread.published \/ thread.phase = "poisoned" \/ Settles(t)
    BY <1>1 DEF ThreadInv, Accounted
  <2>2. notices' = notices /\ thread' = x.th /\ job' = x.job
    BY DEF Do
  <2>. QED  BY <2>1, <2>2
<1>. QED  BY <1>4, <1>5, <1>6, <1>7 DEF ThreadInv

\* The number of turns the server knows of is the last one of them.
LEMMA LastKnown == ServerSound => /\ Cardinality(KnownTurns) \in 0..ThreadTurns
                                  /\ KnownTurns = 1..Cardinality(KnownTurns)
<1>. SUFFICES ASSUME ServerSound PROVE /\ Cardinality(KnownTurns) \in 0..ThreadTurns
                                       /\ KnownTurns = 1..Cardinality(KnownTurns)
  OBVIOUS
<1>1. PICK n \in 0..ThreadTurns : KnownTurns = 1..n
  BY DEF ServerSound
<1>2. Cardinality(1..n) = n
  BY FS_Interval, ThreadAssumption
<1>. QED  BY <1>1, <1>2

LEMMA ServerStartsKeeps == ThreadInv /\ ServerStarts => ThreadInv'
<1>. SUFFICES ASSUME ThreadInv, ServerStarts PROVE ThreadInv'
  OBVIOUS
<1>1. PICK t \in ThreadTurnIds : /\ NewTurn(t)
                                 /\ server' = [server EXCEPT !.turns[t] = "running"]
                                 /\ job' = [job EXCEPT !.started = t]
  BY DEF ServerStarts
<1>2. /\ job.awaits = "turn/start" /\ job.started = 0 /\ RunningTurns = {}
      /\ UNCHANGED <<thread, queued, notices, handed, told, threadOps, serverFaults>>
  BY DEF ServerStarts
<1>3. /\ Cardinality(KnownTurns) \in 0..ThreadTurns
      /\ KnownTurns = 1..Cardinality(KnownTurns) /\ t = Cardinality(KnownTurns) + 1
  BY <1>1, LastKnown DEF ThreadInv, NewTurn
<1>4. /\ server' \in [at : {"loaded", "archived", "deleted"},
                      turns : [ThreadTurnIds -> {"none", "running", "ended", "past"}]]
      /\ \A u \in ThreadTurnIds : server'.turns[u] = IF u = t THEN "running" ELSE server.turns[u]
      /\ server.turns \in [ThreadTurnIds -> {"none", "running", "ended", "past"}]
  BY <1>1 DEF ThreadInv, ServerSound
<1>5. t \notin KnownTurns /\ server.turns[t] = "none"
  BY <1>3, <1>4, ThreadAssumption DEF KnownTurns
<1>6. KnownTurns' = KnownTurns \cup {t} /\ RunningTurns' = {t}
  BY <1>2, <1>4 DEF KnownTurns, RunningTurns
<1>7. \A u \in ThreadTurnIds : Over(u) => Over(u)'
  BY <1>4, <1>5 DEF Over
<1>8. /\ X \in XTypes /\ X' \in XTypes /\ X'.th = thread /\ X.th = thread /\ X.job = job
      /\ X'.job = job' /\ X'.handed = handed /\ X.handed = handed /\ X'.told = told /\ X.told = told
      /\ job'.awaits = "turn/start" /\ job'.started = t /\ job'.rest = job.rest /\ job'.op = job.op
  <2>1. X \in XTypes
    BY DEF ThreadInv, Sound
  <2>2. job \in Works /\ thread \in ThreadRecords /\ handed \subseteq ThreadTurnIds /\ told \in [ThreadTurnIds -> Nat]
    BY <2>1 DEF X, XTypes
  <2>3. job' \in Works /\ job'.awaits = "turn/start" /\ job'.started = t /\ job'.rest = job.rest /\ job'.op = job.op
    BY <1>1, <1>2, <2>2, ThreadAssumption DEF Works, ThreadTurnIds
  <2>. QED  BY <1>2, <2>1, <2>2, <2>3 DEF X, XTypes
<1>9. Sound(X)'
  <2>1. \A u \in X'.th.buffered \cup X'.job.rest : Over(u)'
    <3>1. \A u \in thread.buffered \cup job.rest : u \in ThreadTurnIds /\ Over(u)
      BY <1>8 DEF ThreadInv, Sound, XTypes, ThreadRecords, Works
    <3>. QED  BY <3>1, <1>7, <1>8
  <2>2. t \notin handed /\ handed \subseteq KnownTurns
    BY <1>5, <1>8 DEF ThreadInv, Sound
  <2>3. X'.handed \cap RunningTurns' = {} /\ X'.handed \subseteq KnownTurns'
    BY <2>2, <1>6, <1>8
  <2>. QED  BY <2>1, <2>3, <1>8 DEF ThreadInv, Sound
<1>10. Shaped(X)'
  <2>1. job'.op # "none"
    BY <1>2, <1>8 DEF ThreadInv, Shaped, NoWork, Working, Queue
  <2>. QED  BY <2>1, <1>2, <1>6, <1>8 DEF ThreadInv, Shaped, Parking, Loading
<1>11. ServerSound'
  <2>1. Cardinality(KnownTurns) + 1 \in 0..ThreadTurns /\ KnownTurns' = 1..(Cardinality(KnownTurns) + 1)
    BY <1>3, <1>6, ThreadAssumption DEF ThreadTurnIds
  <2>. QED  BY <2>1, <1>4, <1>6 DEF ServerSound
<1>12. QueueSound'
  BY <1>2, <1>7 DEF ThreadInv, QueueSound
<1>13. Accounted'
  <2>. SUFFICES ASSUME NEW u \in ThreadTurnIds, server'.turns[u] = "ended"
                PROVE  (u \in notices \cup thread.buffered \cup job.rest \cup thread.published
                        \/ thread.phase = "poisoned" \/ Settles(u))'
    BY DEF Accounted
  <2>1. server.turns[u] = "ended"
    BY <1>4
  <2>2. u \in notices \cup thread.buffered \cup job.rest \cup thread.published
        \/ thread.phase = "poisoned" \/ Settles(u)
    BY <2>1 DEF ThreadInv, Accounted
  <2>. QED  BY <2>2, <1>2, <1>8 DEF Settles
<1>. QED  BY <1>9, <1>10, <1>11, <1>12, <1>13 DEF ThreadInv

LEMMA ServerEndsKeeps == ThreadInv /\ ServerEnds => ThreadInv'
<1>. SUFFICES ASSUME ThreadInv, ServerEnds PROVE ThreadInv'
  OBVIOUS
<1>1. PICK t \in RunningTurns : /\ server' = [server EXCEPT !.turns[t] = "ended"]
                                /\ notices' = notices \cup {t}
                                /\ UNCHANGED <<thread, job, queued, handed, told, threadOps, serverFaults>>
  BY DEF ServerEnds
<1>2. /\ t \in ThreadTurnIds /\ server.turns[t] = "running"
      /\ server' \in [at : {"loaded", "archived", "deleted"},
                      turns : [ThreadTurnIds -> {"none", "running", "ended", "past"}]]
      /\ \A u \in ThreadTurnIds : server'.turns[u] = IF u = t THEN "ended" ELSE server.turns[u]
  BY <1>1 DEF ThreadInv, ServerSound, RunningTurns
<1>3. KnownTurns' = KnownTurns /\ RunningTurns' = RunningTurns \ {t}
  BY <1>2 DEF KnownTurns, RunningTurns
<1>4. Over(t)' /\ \A u \in ThreadTurnIds : Over(u) => Over(u)'
  BY <1>2 DEF Over
<1>5. X' = X
  BY <1>1 DEF X
<1>6. Sound(X)'
  <2>1. \A u \in X.th.buffered \cup X.job.rest : Over(u)'
    BY <1>4 DEF ThreadInv, Sound, XTypes, ThreadRecords, Works
  <2>. QED  BY <2>1, <1>3, <1>5 DEF ThreadInv, Sound
<1>7. Shaped(X)'
  BY <1>3, <1>5 DEF ThreadInv, Shaped
<1>8. ServerSound'
  BY <1>2, <1>3 DEF ThreadInv, ServerSound
<1>9. QueueSound'
  BY <1>1, <1>2, <1>4 DEF ThreadInv, QueueSound
<1>10. Accounted'
  BY <1>1, <1>2 DEF ThreadInv, Accounted, Settles
<1>. QED  BY <1>6, <1>7, <1>8, <1>9, <1>10 DEF ThreadInv

\* An operation is put at the end of the queue.
LEMMA AppendTyped ==
    ASSUME QueueSound, NEW q \in [op : ThreadOpKinds, turn : Nat], queued' = Append(queued, q),
           q.op = "settle" => q.turn \in ThreadTurnIds /\ Over(q.turn)
    PROVE  /\ queued' \in Seq([op : ThreadOpKinds, turn : Nat])
           /\ \A i \in DOMAIN queued' : queued'[i].op = "settle" =>
                  queued'[i].turn \in ThreadTurnIds /\ Over(queued'[i].turn)
           /\ \A t : Settles(t) \/ q = Queue("settle", t) => Settles(t)'
<1>1. queued \in Seq([op : ThreadOpKinds, turn : Nat])
  BY DEF QueueSound
<1>2. /\ queued' \in Seq([op : ThreadOpKinds, turn : Nat])
      /\ Len(queued') = Len(queued) + 1 /\ Len(queued) \in Nat
      /\ DOMAIN queued = 1..Len(queued) /\ DOMAIN queued' = 1..Len(queued')
      /\ queued'[Len(queued) + 1] = q
      /\ \A i \in 1..Len(queued) : queued'[i] = queued[i]
  BY <1>1, AppendProperties, LenProperties
<1>3. \A i \in DOMAIN queued' : i \in DOMAIN queued \/ i = Len(queued) + 1
  BY <1>2
<1>4. \A i \in DOMAIN queued' : queued'[i].op = "settle" => queued'[i].turn \in ThreadTurnIds /\ Over(queued'[i].turn)
  BY <1>2, <1>3 DEF QueueSound
<1>5. \A t : Settles(t) \/ q = Queue("settle", t) => Settles(t)'
  BY <1>2 DEF Settles
<1>. QED  BY <1>2, <1>4, <1>5

\* Only the record or the queue changes, before an operation has its turn.
LEMMA OutsideKeeps ==
    ASSUME ThreadInv, thread' \in ThreadRecords,
           UNCHANGED <<job, server, handed, told>>, notices' \subseteq notices,
           thread'.phase = thread.phase, thread'.turn = thread.turn, thread'.pendingStart = thread.pendingStart,
           thread'.published = thread.published,
           thread.buffered \subseteq thread'.buffered, thread.pendingStart \/ thread'.buffered = thread.buffered,
           \A t \in thread'.buffered \ thread.buffered : Over(t),
           queued' \in Seq([op : ThreadOpKinds, turn : Nat]),
           \A i \in DOMAIN queued' : queued'[i].op = "settle" =>
               queued'[i].turn \in ThreadTurnIds /\ Over(queued'[i].turn),
           \A t \in ThreadTurnIds : Settles(t) => Settles(t)',
           \A t \in notices \ notices' : Settles(t)' \/ t \in thread'.buffered
    PROVE  ThreadInv'
<1>1. KnownTurns' = KnownTurns /\ RunningTurns' = RunningTurns /\ \A t : Over(t)' <=> Over(t)
  BY DEF KnownTurns, RunningTurns, Over
<1>2. /\ X.th = thread /\ X.job = job /\ X.handed = handed /\ X.told = told
      /\ X'.th = thread' /\ X'.job = job /\ X'.handed = handed /\ X'.told = told
      /\ job \in Works /\ handed \subseteq ThreadTurnIds /\ told \in [ThreadTurnIds -> Nat] /\ X' \in XTypes
  BY DEF ThreadInv, Sound, X, XTypes
<1>3. Sound(X)'
  BY <1>1, <1>2 DEF ThreadInv, Sound
<1>4. Shaped(X)'
  BY <1>1, <1>2 DEF ThreadInv, Shaped
<1>5. ServerSound'
  BY <1>1 DEF ThreadInv, ServerSound
<1>6. QueueSound'
  BY <1>1 DEF ThreadInv, QueueSound
<1>7. Accounted'
  <2>. SUFFICES ASSUME NEW t \in ThreadTurnIds, server.turns[t] = "ended"
                PROVE  (t \in notices \cup thread.buffered \cup job.rest \cup thread.published
                        \/ thread.phase = "poisoned" \/ Settles(t))'
    BY DEF Accounted
  <2>1. t \in notices \cup thread.buffered \cup job.rest \cup thread.published
        \/ thread.phase = "poisoned" \/ Settles(t)
    BY DEF ThreadInv, Accounted
  <2>. QED  BY <2>1
<1>. QED  BY <1>3, <1>4, <1>5, <1>6, <1>7 DEF ThreadInv

\* A terminal comes: it is held for the start that has no id yet, or queued.
LEMMA SettleTurnKeeps ==
    ASSUME ThreadInv, NEW t \in ThreadTurnIds, Over(t), settleTurn(t),
           UNCHANGED <<job, server, handed, told>>, notices' \subseteq notices, notices \ notices' \subseteq {t}
    PROVE  ThreadInv'
<1>1. thread \in ThreadRecords /\ QueueSound
  BY DEF ThreadInv, Sound, X, XTypes
<1>2. CASE thread.pendingStart
  <2>1. thread' = [thread EXCEPT !.buffered = @ \cup {t}] /\ queued' = queued
    BY <1>2 DEF settleTurn
  <2>2. /\ thread' \in ThreadRecords /\ thread'.buffered = thread.buffered \cup {t}
        /\ thread'.phase = thread.phase /\ thread'.turn = thread.turn
        /\ thread'.pendingStart = thread.pendingStart /\ thread'.published = thread.published
    BY <1>1, <2>1 DEF ThreadRecords
  <2>3. \A u \in ThreadTurnIds : Settles(u) => Settles(u)'
    BY <2>1 DEF Settles
  <2>. QED  BY <1>1, <1>2, <2>1, <2>2, <2>3, OutsideKeeps DEF QueueSound
<1>3. CASE ~thread.pendingStart
  <2>1. thread' = thread /\ queued' = Append(queued, Queue("settle", t))
    BY <1>3 DEF settleTurn
  <2>2. /\ Queue("settle", t) \in [op : ThreadOpKinds, turn : Nat] /\ Queue("settle", t).turn = t
    BY DEF Queue, ThreadOpKinds, ThreadTurnIds
  <2>3. /\ queued' \in Seq([op : ThreadOpKinds, turn : Nat])
        /\ \A i \in DOMAIN queued' : queued'[i].op = "settle" =>
               queued'[i].turn \in ThreadTurnIds /\ Over(queued'[i].turn)
        /\ \A u : Settles(u) \/ Queue("settle", t) = Queue("settle", u) => Settles(u)'
    BY <1>1, <2>1, <2>2, AppendTyped
  <2>. QED  BY <1>1, <2>1, <2>3, OutsideKeeps
<1>. QED  BY <1>2, <1>3

LEMMA NoticedKeeps == ThreadInv /\ Noticed => ThreadInv'
<1>. SUFFICES ASSUME ThreadInv, Noticed PROVE ThreadInv'
  OBVIOUS
<1>1. PICK t \in notices : settleTurn(t) /\ notices' = notices \ {t}
                           /\ UNCHANGED <<job, server, handed, told, threadOps, serverFaults>>
  BY DEF Noticed
<1>2. t \in ThreadTurnIds /\ Over(t)
  BY DEF ThreadInv, QueueSound
<1>. QED  BY <1>1, <1>2, SettleTurnKeeps

LEMMA SettleAgainKeeps == ThreadInv /\ SettleAgain => ThreadInv'
<1>. SUFFICES ASSUME ThreadInv, SettleAgain PROVE ThreadInv'
  OBVIOUS
<1>1. PICK t \in ThreadTurnIds : Over(t) /\ settleTurn(t)
  BY DEF SettleAgain, Over
<1>2. UNCHANGED <<job, server, notices, handed, told>>
  BY DEF SettleAgain, Asked
<1>. QED  BY <1>1, <1>2, SettleTurnKeeps

\* What is put in the queue is no terminal.
LEMMA QueuedKeeps ==
    ASSUME ThreadInv, NEW q \in [op : ThreadOpKinds, turn : Nat], q.op # "settle",
           queued' = Append(queued, q), thread' \in {thread, [thread EXCEPT !.retry = NoRetry]},
           UNCHANGED <<job, server, notices, handed, told>>
    PROVE  ThreadInv'
<1>1. thread \in ThreadRecords /\ QueueSound
  BY DEF ThreadInv, Sound, X, XTypes
<1>2. /\ thread' \in ThreadRecords /\ thread'.buffered = thread.buffered
      /\ thread'.phase = thread.phase /\ thread'.turn = thread.turn
      /\ thread'.pendingStart = thread.pendingStart /\ thread'.published = thread.published
  BY <1>1 DEF ThreadRecords
<1>3. /\ queued' \in Seq([op : ThreadOpKinds, turn : Nat])
      /\ \A i \in DOMAIN queued' : queued'[i].op = "settle" =>
             queued'[i].turn \in ThreadTurnIds /\ Over(queued'[i].turn)
      /\ \A u : Settles(u) => Settles(u)'
  BY <1>1, AppendTyped
<1>. QED  BY <1>2, <1>3, OutsideKeeps

LEMMA AskKeeps == ThreadInv /\ Ask => ThreadInv'
<1>. SUFFICES ASSUME ThreadInv, Ask PROVE ThreadInv'
  OBVIOUS
<1>1. PICK op \in {"activate", "start", "adopt", "adoptOrDispose"} :
          queued' = Append(queued, Queue(op, 0)) /\ UNCHANGED thread
  BY DEF Ask
<1>2. UNCHANGED <<job, server, notices, handed, told>>
  BY DEF Ask, Asked
<1>3. Queue(op, 0) \in [op : ThreadOpKinds, turn : Nat] /\ Queue(op, 0).op # "settle"
  BY DEF Queue, ThreadOpKinds
<1>. QED  BY <1>1, <1>2, <1>3, QueuedKeeps

LEMMA RetryFiresKeeps == ThreadInv /\ RetryFires => ThreadInv'
<1>. SUFFICES ASSUME ThreadInv, RetryFires PROVE ThreadInv'
  OBVIOUS
<1>1. /\ thread.retry # NoRetry /\ queued' = Append(queued, Queue("park", thread.retry))
      /\ thread' = [thread EXCEPT !.retry = NoRetry]
      /\ UNCHANGED <<job, server, notices, handed, told>>
  BY DEF RetryFires
<1>2. thread.retry \in Nat
  BY <1>1 DEF ThreadInv, Sound, X, XTypes, ThreadRecords
<1>3. Queue("park", thread.retry) \in [op : ThreadOpKinds, turn : Nat] /\ Queue("park", thread.retry).op # "settle"
  BY <1>2 DEF Queue, ThreadOpKinds
<1>. QED  BY <1>1, <1>3, QueuedKeeps

\* The parts of the record an operation works on.
LEMMA HereTyped ==
    ThreadInv => /\ X \in XTypes /\ Sound(X) /\ Shaped(X)
                 /\ X.th = thread /\ X.job = job /\ X.handed = handed /\ X.told = told
                 /\ thread \in ThreadRecords /\ job \in Works
                 /\ handed \subseteq ThreadTurnIds /\ told \in [ThreadTurnIds -> Nat]
BY DEF ThreadInv, Sound, X, XTypes

\* A step of the operation that has the queue.
LEMMA AnsweredKeeps ==
    ASSUME ThreadInv, NEW x, Do(x), Sound(x), Shaped(x), queued' = queued,
           server' \in [at : {"loaded", "archived", "deleted"}, turns : {server.turns}],
           thread.phase = "poisoned" => x.th.phase = "poisoned",
           x.th.phase = "poisoned" \/
           thread.buffered \cup job.rest \cup thread.published
               \subseteq x.th.buffered \cup x.job.rest \cup x.th.published
    PROVE  ThreadInv'
<1>1. /\ queued' \in Seq([op : ThreadOpKinds, turn : Nat])
      /\ \A i \in DOMAIN queued' : queued'[i].op = "settle" =>
             queued'[i].turn \in ThreadTurnIds /\ Over(queued'[i].turn)
  BY DEF ThreadInv, QueueSound
<1>2. \A t : Settles(t) => Settles(t)'
  BY DEF Settles
<1>. QED  BY <1>1, <1>2, StepKeeps

LEMMA ServerStays == ThreadInv /\ UNCHANGED server =>
                         server' \in [at : {"loaded", "archived", "deleted"}, turns : {server.turns}]
BY DEF ThreadInv, ServerSound

\* What publishing a terminal once makes of the record.
LEMMA PublishedOnce ==
    ASSUME NEW x, Sound(x), NEW t \in ThreadTurnIds
    PROVE  LET seen == publishOnce(x, t) IN
           /\ Sound(seen) /\ seen.th.published = x.th.published \cup {t}
           /\ seen.job = x.job /\ seen.th.phase = x.th.phase /\ seen.th.turn = x.th.turn
           /\ seen.th.buffered = x.th.buffered /\ seen.th.pendingStart = x.th.pendingStart
           /\ seen.th.epoch = x.th.epoch
<1>. DEFINE seen == publishOnce(x, t)
<1>1. /\ x \in XTypes /\ x.th \in ThreadRecords /\ x.told \in [ThreadTurnIds -> Nat]
      /\ x.job \in Works /\ x.handed \subseteq ThreadTurnIds
  BY DEF Sound, XTypes
<1>2. CASE t \in x.th.published
  <2>1. seen = x
    BY <1>2 DEF publishOnce
  <2>. QED  BY <1>2, <2>1
<1>3. CASE t \notin x.th.published
  <2>1. seen = [x EXCEPT !.th.published = @ \cup {t}, !.told[t] = @ + 1]
    BY <1>3 DEF publishOnce
  <2>2. /\ seen.th = [x.th EXCEPT !.published = @ \cup {t}]
        /\ seen.told = [x.told EXCEPT ![t] = @ + 1]
        /\ seen.job = x.job /\ seen.handed = x.handed
    BY <1>1, <2>1 DEF XTypes
  <2>3. /\ seen.th \in ThreadRecords /\ seen.th.published = x.th.published \cup {t}
        /\ seen.th.phase = x.th.phase /\ seen.th.turn = x.th.turn
        /\ seen.th.buffered = x.th.buffered /\ seen.th.pendingStart = x.th.pendingStart
        /\ seen.th.epoch = x.th.epoch
    BY <1>1, <2>2 DEF ThreadRecords
  <2>4. seen.told \in [ThreadTurnIds -> Nat] /\ \A u \in ThreadTurnIds : seen.told[u] = IF u = t THEN x.told[t] + 1 ELSE x.told[u]
    BY <1>1, <2>2
  <2>5. seen \in XTypes
    BY <1>1, <2>1, <2>2, <2>3, <2>4 DEF XTypes
  <2>6. \A u \in ThreadTurnIds : seen.told[u] = IF u \in seen.th.published THEN 1 ELSE 0
    BY <1>3, <2>3, <2>4 DEF Sound
  <2>. QED  BY <2>2, <2>3, <2>5, <2>6 DEF Sound
<1>. QED  BY <1>2, <1>3

\* A terminal is accepted while no request is open.
LEMMA Accepts ==
    ASSUME NEW x, Sound(x), Shaped(x), x.job.awaits = "none", x.job.op # "none",
           NEW t \in ThreadTurnIds, Over(t)
    PROVE  LET y == accept(x, t) IN
           /\ Sound(y) /\ Shaped(y) /\ y.th.buffered = x.th.buffered /\ y.job.rest = x.job.rest
           /\ y.th.published = x.th.published \cup {t}
           /\ x.th.phase = "poisoned" => y.th.phase = "poisoned"
<1>. DEFINE seen == publishOnce(x, t)
            own == x.th.phase = "active" /\ x.th.turn = t
            y == accept(x, t)
<1>1. /\ Sound(seen) /\ seen.th.published = x.th.published \cup {t}
      /\ seen.job = x.job /\ seen.th.phase = x.th.phase /\ seen.th.turn = x.th.turn
      /\ seen.th.buffered = x.th.buffered /\ seen.th.pendingStart = x.th.pendingStart
      /\ seen.th.epoch = x.th.epoch
  BY PublishedOnce
<1>2. /\ seen \in XTypes /\ seen.th \in ThreadRecords /\ seen.job \in Works
      /\ seen.handed \subseteq ThreadTurnIds /\ seen.told \in [ThreadTurnIds -> Nat]
  BY <1>1 DEF Sound, XTypes
<1>3. CASE own \/ x.th.phase \in {"idle", "unloaded"}
  <2>1. y = [[seen EXCEPT !.th.phase = "parking", !.th.parkEpoch = x.th.epoch] EXCEPT !.job.awaits = "thread/archive"]
    BY <1>3 DEF accept, Await
  <2>2. /\ y.th = [seen.th EXCEPT !.phase = "parking", !.parkEpoch = x.th.epoch]
        /\ y.job = [seen.job EXCEPT !.awaits = "thread/archive"]
        /\ y.handed = seen.handed /\ y.told = seen.told
        /\ y = [th |-> y.th, job |-> y.job, handed |-> y.handed, told |-> y.told]
    BY <1>2, <2>1 DEF XTypes
  <2>3. /\ y.th \in ThreadRecords /\ y.th.phase = "parking" /\ y.th.buffered = seen.th.buffered
        /\ y.th.pendingStart = seen.th.pendingStart /\ y.th.published = seen.th.published
    BY <1>1, <1>2, <2>2 DEF ThreadRecords
  <2>4. /\ y.job \in Works /\ y.job.awaits = "thread/archive" /\ y.job.rest = seen.job.rest
        /\ y.job.op = seen.job.op
    BY <1>2, <2>2 DEF Works, Requests, Parking
  <2>5. y \in XTypes
    BY <1>2, <2>2, <2>3, <2>4 DEF XTypes
  <2>6. \A u \in y.handed \cap RunningTurns : FALSE
    <3>1. \A u \in seen.handed \cap RunningTurns :
              seen.th.phase = "poisoned" \/ (seen.th.phase = "active" /\ seen.th.turn = u)
      BY <1>1 DEF Sound
    <3>2. t \notin RunningTurns
      BY DEF Over, RunningTurns
    <3>. QED  BY <3>1, <3>2, <1>1, <1>3, <2>2
  <2>7. Sound(y)
    BY <1>1, <2>2, <2>3, <2>4, <2>5, <2>6 DEF Sound
  <2>8. Shaped(y)
    BY <1>1, <2>3, <2>4 DEF Shaped, Parking, Loading
  <2>. QED  BY <1>1, <1>3, <2>3, <2>4, <2>7, <2>8
<1>4. CASE ~(own \/ x.th.phase \in {"idle", "unloaded"})
  <2>1. y = [seen EXCEPT !.job.awaits = "none"]
    BY <1>4 DEF accept, Await, GoOn
  <2>2. y = seen
    BY <1>1, <1>2, <2>1 DEF XTypes, Works
  <2>. QED  BY <1>1, <2>2 DEF Shaped
<1>. QED  BY <1>3, <1>4

LEMMA ContinueKeeps == ThreadInv /\ Continue => ThreadInv'
<1>. SUFFICES ASSUME ThreadInv, Continue PROVE ThreadInv'
  OBVIOUS
<1>1. /\ job # NoWork /\ job.awaits = "none" /\ queued' = queued
      /\ server' \in [at : {"loaded", "archived", "deleted"}, turns : {server.turns}]
  BY ServerStays DEF Continue
<1>2. job.op # "none"
  BY <1>1, HereTyped DEF Shaped
<1>3. CASE job.rest = {} /\ Do(Done(X))
  <2>. DEFINE x == Done(X)
  <2>1. x = [th |-> thread, job |-> NoWork, handed |-> handed, told |-> told]
    BY DEF X, Done
  <2>2. NoWork \in Works
    BY ThreadAssumption DEF NoWork, Working, Queue, Works, Requests
  <2>3. Sound(x)
    BY <2>1, <2>2, HereTyped DEF Sound, XTypes, NoWork, Working, Queue
  <2>4. Shaped(x)
    BY <1>1, <2>1, HereTyped DEF Shaped, NoWork, Working, Queue, Parking, Loading
  <2>5. x.th = thread /\ job.rest = {} /\ Do(x)
    BY <1>3, <2>1
  <2>. HIDE DEF x
  <2>. QED  BY <1>1, <2>3, <2>4, <2>5, AnsweredKeeps
<1>4. ASSUME NEW t \in job.rest, Do(accept([X EXCEPT !.job.rest = @ \ {t}], t))
      PROVE  ThreadInv'
  <2>. DEFINE x == [X EXCEPT !.job.rest = @ \ {t}]
              y == accept(x, t)
  <2>1. t \in ThreadTurnIds /\ Over(t)
    BY HereTyped DEF Sound, Works
  <2>2. x = [th |-> thread, job |-> [job EXCEPT !.rest = @ \ {t}], handed |-> handed, told |-> told]
    BY DEF X
  <2>3. /\ x.job \in Works /\ x.job.rest = job.rest \ {t} /\ x.job.awaits = "none" /\ x.job.op = job.op
    BY <1>1, <2>2, HereTyped DEF Works
  <2>4. Sound(x)
    BY <2>2, <2>3, HereTyped DEF Sound, XTypes
  <2>5. Shaped(x)
    BY <1>1, <1>2, <2>2, <2>3, HereTyped DEF Shaped, Parking, Loading
  <2>6. /\ Sound(y) /\ Shaped(y) /\ y.th.buffered = thread.buffered /\ y.job.rest = job.rest \ {t}
        /\ y.th.published = thread.published \cup {t}
        /\ thread.phase = "poisoned" => y.th.phase = "poisoned"
    <3>1. x.th = thread
      BY <2>2
    <3>. HIDE DEF x
    <3>2. LET z == accept(x, t) IN
          /\ Sound(z) /\ Shaped(z) /\ z.th.buffered = x.th.buffered /\ z.job.rest = x.job.rest
          /\ z.th.published = x.th.published \cup {t}
          /\ x.th.phase = "poisoned" => z.th.phase = "poisoned"
      BY <1>2, <2>1, <2>3, <2>4, <2>5, Accepts
    <3>. QED  BY <2>3, <3>1, <3>2
  <2>7. Do(y)
    BY <1>4
  <2>. HIDE DEF y
  <2>. QED  BY <1>1, <2>6, <2>7, AnsweredKeeps
<1>. QED  BY <1>3, <1>4 DEF Continue

\* What an operation does once the thread is loaded.
LEMMA AfterLoadHolds ==
    ASSUME NEW x, Sound(x), ~x.th.pendingStart, x.th.buffered = {}, x.th.phase \in {"idle", "active"},
           x.job.op # "none", x.job.rest = {}, x.job.started = 0
    PROVE  LET y == AfterLoad(x) IN
           Sound(y) /\ Shaped(y) /\ y.th.published = x.th.published /\ y.th.phase = x.th.phase
<1>. DEFINE y == AfterLoad(x)
<1>1. /\ x \in XTypes /\ x.th \in ThreadRecords /\ x.job \in Works
      /\ x.handed \subseteq ThreadTurnIds /\ x.told \in [ThreadTurnIds -> Nat]
  BY DEF Sound, XTypes
<1>2. CASE x.job.op = "start"
  <2>1. y = [[x EXCEPT !.th.pendingStart = TRUE] EXCEPT !.job.awaits = "turn/start"]
    BY <1>2 DEF AfterLoad, Await
  <2>2. /\ y.th = [x.th EXCEPT !.pendingStart = TRUE] /\ y.job = [x.job EXCEPT !.awaits = "turn/start"]
        /\ y.handed = x.handed /\ y.told = x.told
        /\ y = [th |-> y.th, job |-> y.job, handed |-> y.handed, told |-> y.told]
    BY <1>1, <2>1 DEF XTypes
  <2>3. /\ y.th \in ThreadRecords /\ y.th.pendingStart /\ y.th.buffered = {}
        /\ y.th.phase = x.th.phase /\ y.th.turn = x.th.turn /\ y.th.published = x.th.published
    BY <1>1, <2>2 DEF ThreadRecords
  <2>4. /\ y.job \in Works /\ y.job.awaits = "turn/start" /\ y.job.rest = {} /\ y.job.started = 0
        /\ y.job.op = "start"
    BY <1>1, <1>2, <2>2 DEF Works, Requests
  <2>5. Sound(y)
    BY <1>1, <2>2, <2>3, <2>4 DEF Sound, XTypes
  <2>6. Shaped(y)
    BY <2>3, <2>4 DEF Shaped, Parking, Loading
  <2>. QED  BY <2>3, <2>5, <2>6
<1>3. CASE x.job.op = "adopt"
  <2>1. y = [x EXCEPT !.job.awaits = "read"]
    BY <1>3 DEF AfterLoad, Await
  <2>2. /\ y.th = x.th /\ y.job = [x.job EXCEPT !.awaits = "read"]
        /\ y.handed = x.handed /\ y.told = x.told
        /\ y = [th |-> y.th, job |-> y.job, handed |-> y.handed, told |-> y.told]
    BY <1>1, <2>1 DEF XTypes
  <2>4. y.job \in Works /\ y.job.awaits = "read" /\ y.job.rest = {} /\ y.job.op = "adopt"
    BY <1>1, <1>3, <2>2 DEF Works, Requests
  <2>5. Sound(y)
    BY <1>1, <2>2, <2>4 DEF Sound, XTypes
  <2>6. Shaped(y)
    BY <2>2, <2>4 DEF Shaped, Parking, Loading
  <2>. QED  BY <2>2, <2>5, <2>6
<1>4. CASE x.job.op \notin {"start", "adopt"}
  <2>1. y = [x EXCEPT !.job = NoWork]
    BY <1>4 DEF AfterLoad, Done
  <2>2. /\ y.th = x.th /\ y.job = NoWork /\ y.handed = x.handed /\ y.told = x.told
        /\ y = [th |-> y.th, job |-> y.job, handed |-> y.handed, told |-> y.told]
    BY <1>1, <2>1 DEF XTypes
  <2>3. NoWork \in Works
    BY ThreadAssumption DEF NoWork, Working, Queue, Works, Requests
  <2>5. Sound(y)
    BY <1>1, <2>2, <2>3 DEF Sound, XTypes, NoWork, Working, Queue
  <2>6. Shaped(y)
    BY <2>2 DEF Shaped, Parking, Loading, NoWork, Working, Queue
  <2>. QED  BY <2>2, <2>5, <2>6
<1>. QED  BY <1>2, <1>3, <1>4

\* A thread that was resumed, or whose park was put off, has no turn of its client.
LEMMA LoadedHolds ==
    ASSUME NEW x, Sound(x), ~x.th.pendingStart, x.th.buffered = {}, x.th.phase \in {"parking", "unloaded", "parked"},
           x.job.op # "none", x.job.rest = {}, x.job.started = 0
    PROVE  LET y == Loaded(x) IN
           Sound(y) /\ Shaped(y) /\ y.th.published = x.th.published /\ y.th.phase = "idle"
<1>. DEFINE z == [x EXCEPT !.th.epoch = @ + 1, !.th.phase = "idle"]
<1>1. /\ x \in XTypes /\ x.th \in ThreadRecords /\ x.job \in Works
      /\ x.handed \subseteq ThreadTurnIds /\ x.told \in [ThreadTurnIds -> Nat]
  BY DEF Sound, XTypes
<1>2. /\ z.th = [x.th EXCEPT !.epoch = x.th.epoch + 1, !.phase = "idle"] /\ z.job = x.job
      /\ z.handed = x.handed /\ z.told = x.told
      /\ z = [th |-> z.th, job |-> z.job, handed |-> z.handed, told |-> z.told]
  <2>1. z = [x EXCEPT !.th = [x.th EXCEPT !.epoch = x.th.epoch + 1, !.phase = "idle"]]
    BY <1>1 DEF XTypes, ThreadRecords
  <2>. QED  BY <1>1, <2>1 DEF XTypes
<1>6. Loaded(x) = AfterLoad(z)
  BY DEF Loaded
<1>. HIDE DEF z
<1>3. /\ z.th \in ThreadRecords /\ z.th.phase = "idle" /\ z.th.buffered = {} /\ ~z.th.pendingStart
      /\ z.th.published = x.th.published
  <2>0. x.th.epoch \in Nat
    BY <1>1 DEF ThreadRecords
  <2>1. x.th = [phase |-> x.th.phase, turn |-> x.th.turn, epoch |-> x.th.epoch, parkEpoch |-> x.th.parkEpoch,
                   pendingStart |-> x.th.pendingStart, buffered |-> x.th.buffered, published |-> x.th.published,
                   parkAttempts |-> x.th.parkAttempts, retry |-> x.th.retry]
    BY <1>1 DEF ThreadRecords
  <2>2. z.th = [phase |-> "idle", turn |-> x.th.turn, epoch |-> x.th.epoch + 1, parkEpoch |-> x.th.parkEpoch,
                pendingStart |-> x.th.pendingStart, buffered |-> x.th.buffered, published |-> x.th.published,
                parkAttempts |-> x.th.parkAttempts, retry |-> x.th.retry]
    BY <1>2, <2>1
  <2>3. x.th.epoch + 1 \in Nat
    BY <2>0
  <2>. QED  BY <1>1, <2>2, <2>3 DEF ThreadRecords
<1>4. x.handed \cap RunningTurns = {}
  BY DEF Sound
<1>5. Sound(z)
  BY <1>1, <1>2, <1>3, <1>4 DEF Sound, XTypes
<1>7. LET y == AfterLoad(z) IN
      Sound(y) /\ Shaped(y) /\ y.th.published = z.th.published /\ y.th.phase = z.th.phase
  BY <1>2, <1>3, <1>5, AfterLoadHolds
<1>. QED  BY <1>3, <1>6, <1>7

\* The retry of a park is dropped.
LEMMA RetryDropped ==
    ASSUME NEW x, Sound(x)
    PROVE  LET z == [x EXCEPT !.th.retry = NoRetry] IN
           /\ Sound(z) /\ z.job = x.job /\ z.th.phase = x.th.phase /\ z.th.buffered = x.th.buffered
           /\ z.th.pendingStart = x.th.pendingStart /\ z.th.published = x.th.published
           /\ z.handed = x.handed /\ z.told = x.told /\ z.th.turn = x.th.turn
           /\ z \in XTypes /\ z.th \in ThreadRecords
<1>. DEFINE z == [x EXCEPT !.th.retry = NoRetry]
<1>1. /\ x \in XTypes /\ x.th \in ThreadRecords /\ x.job \in Works
      /\ x.handed \subseteq ThreadTurnIds /\ x.told \in [ThreadTurnIds -> Nat]
  BY DEF Sound, XTypes
<1>2. /\ z.th = [x.th EXCEPT !.retry = NoRetry] /\ z.job = x.job
      /\ z.handed = x.handed /\ z.told = x.told
      /\ z = [th |-> z.th, job |-> z.job, handed |-> z.handed, told |-> z.told]
  BY <1>1 DEF XTypes
<1>3. /\ z.th \in ThreadRecords /\ z.th.phase = x.th.phase /\ z.th.buffered = x.th.buffered
      /\ z.th.pendingStart = x.th.pendingStart /\ z.th.turn = x.th.turn
      /\ z.th.published = x.th.published
  BY <1>1, <1>2 DEF ThreadRecords
<1>. QED  BY <1>1, <1>2, <1>3 DEF Sound, XTypes

LEMMA LoadHolds ==
    ASSUME NEW x, Sound(x), ~x.th.pendingStart, x.th.buffered = {}, x.th.phase \notin {"disposed", "poisoned"},
           x.job.op # "none", x.job.rest = {}, x.job.started = 0
    PROVE  LET y == load(x) IN
           Sound(y) /\ Shaped(y) /\ y.th.published = x.th.published
<1>. DEFINE z == [x EXCEPT !.th.retry = NoRetry]
            y == load(x)
<1>1. CASE x.th.phase \in {"idle", "active"}
  <2>1. load(x) = AfterLoad(x)
    BY <1>1 DEF load
  <2>. QED  BY <1>1, <2>1, AfterLoadHolds
<1>2. /\ Sound(z) /\ z.job = x.job /\ z.th.phase = x.th.phase /\ z.th.buffered = {}
      /\ ~z.th.pendingStart /\ z.th.published = x.th.published
      /\ z.handed = x.handed /\ z.told = x.told /\ z.th.turn = x.th.turn
      /\ z \in XTypes /\ z.th \in ThreadRecords
  BY RetryDropped
<1>3. CASE x.th.phase = "parking"
  <2>1. load(x) = Loaded(z)
    BY <1>3 DEF load
  <2>. HIDE DEF z
  <2>. QED  BY <1>2, <1>3, <2>1, LoadedHolds
<1>4. CASE x.th.phase \notin {"idle", "active", "parking"}
  <2>1. y = [z EXCEPT !.job.awaits = "thread/resume"]
    BY <1>4 DEF load, Await
  <2>2. x.th.phase \in {"unloaded", "parked"} /\ x.job \in Works
    BY <1>4 DEF Sound, XTypes, ThreadRecords
  <2>. HIDE DEF z
  <2>3. /\ y.th = z.th /\ y.job = [x.job EXCEPT !.awaits = "thread/resume"]
        /\ y.handed = z.handed /\ y.told = z.told
        /\ y = [th |-> y.th, job |-> y.job, handed |-> y.handed, told |-> y.told]
    BY <1>2, <2>1 DEF XTypes
  <2>4. /\ y.job \in Works /\ y.job.awaits = "thread/resume" /\ y.job.rest = {} /\ y.job.started = 0
        /\ y.job.op = x.job.op
    BY <2>2, <2>3 DEF Works, Requests, Loading
  <2>5. Sound(y)
    BY <1>2, <2>3, <2>4 DEF Sound, XTypes
  <2>6. Shaped(y)
    BY <1>2, <2>2, <2>3, <2>4 DEF Shaped, Parking, Loading
  <2>. QED  BY <1>2, <2>3, <2>5, <2>6
<1>. QED  BY <1>1, <1>3, <1>4

LEMMA DoneHolds ==
    ASSUME NEW x, Sound(x), ~x.th.pendingStart, x.th.buffered = {}
    PROVE  LET y == Done(x) IN
           Sound(y) /\ Shaped(y) /\ y.th = x.th /\ y.job = NoWork
<1>. DEFINE y == Done(x)
<1>1. /\ x \in XTypes /\ x.th \in ThreadRecords /\ x.job \in Works
      /\ x.handed \subseteq ThreadTurnIds /\ x.told \in [ThreadTurnIds -> Nat]
  BY DEF Sound, XTypes
<1>2. /\ y.th = x.th /\ y.job = NoWork /\ y.handed = x.handed /\ y.told = x.told
      /\ y = [th |-> y.th, job |-> y.job, handed |-> y.handed, told |-> y.told]
  BY <1>1 DEF Done, XTypes
<1>3. NoWork \in Works /\ NoWork.rest = {} /\ NoWork.awaits = "none"
  BY ThreadAssumption DEF NoWork, Working, Queue, Works, Requests
<1>. HIDE DEF y
<1>4. Sound(y)
  BY <1>1, <1>2, <1>3 DEF Sound, XTypes
<1>5. Shaped(y)
  BY <1>2, <1>3 DEF Shaped, Parking, Loading
<1>. QED  BY <1>2, <1>4, <1>5 DEF y

\* A request is sent, or none is open.
LEMMA AwaitHolds ==
    ASSUME NEW x, Sound(x), NEW m \in Requests
    PROVE  LET y == Await(x, m) IN
           /\ Sound(y) /\ y.th = x.th /\ y.job.awaits = m /\ y.job.rest = x.job.rest
           /\ y.job.started = x.job.started /\ y.job.op = x.job.op /\ y.handed = x.handed
<1>. DEFINE y == Await(x, m)
<1>1. /\ x \in XTypes /\ x.th \in ThreadRecords /\ x.job \in Works
      /\ x.handed \subseteq ThreadTurnIds /\ x.told \in [ThreadTurnIds -> Nat]
  BY DEF Sound, XTypes
<1>2. /\ y.th = x.th /\ y.job = [x.job EXCEPT !.awaits = m] /\ y.handed = x.handed /\ y.told = x.told
      /\ y = [th |-> y.th, job |-> y.job, handed |-> y.handed, told |-> y.told]
  BY <1>1 DEF Await, XTypes
<1>. HIDE DEF y
<1>3. /\ y.job \in Works /\ y.job.awaits = m /\ y.job.rest = x.job.rest
      /\ y.job.started = x.job.started /\ y.job.op = x.job.op
  BY <1>1, <1>2 DEF Works
<1>4. Sound(y)
  BY <1>1, <1>2, <1>3 DEF Sound, XTypes
<1>. QED  BY <1>2, <1>3, <1>4 DEF y

\* A phase in which no turn of the client's counts, or none of them runs.
LEMMA PhaseHolds ==
    ASSUME NEW x, Sound(x), NEW z, NEW th \in ThreadRecords, z = [x EXCEPT !.th = th],
           th.published = x.th.published, \A t \in th.buffered : Over(t),
           th.phase = "poisoned" \/ x.handed \cap RunningTurns = {} \/ (th.phase = x.th.phase /\ th.turn = x.th.turn)
    PROVE  Sound(z) /\ z.th = th /\ z.job = x.job /\ z.handed = x.handed
<1>1. /\ x \in XTypes /\ x.th \in ThreadRecords /\ x.job \in Works
      /\ x.handed \subseteq ThreadTurnIds /\ x.told \in [ThreadTurnIds -> Nat]
  BY DEF Sound, XTypes
<1>2. /\ z.th = th /\ z.job = x.job /\ z.handed = x.handed /\ z.told = x.told
      /\ z = [th |-> z.th, job |-> z.job, handed |-> z.handed, told |-> z.told]
  BY <1>1 DEF XTypes
<1>3. z \in XTypes
  BY <1>1, <1>2 DEF XTypes
<1>4. \A t \in z.handed \cap RunningTurns : z.th.phase = "poisoned" \/ (z.th.phase = "active" /\ z.th.turn = t)
  BY <1>2 DEF Sound
<1>. QED  BY <1>2, <1>3, <1>4 DEF Sound

LEMMA PoisonHolds ==
    ASSUME NEW x, Sound(x)
    PROVE  LET z == poison(x) IN
           /\ Sound(z) /\ z.job = x.job /\ z.th.phase = "poisoned" /\ z.th.buffered = x.th.buffered
           /\ z.th.pendingStart = x.th.pendingStart /\ z.th.published = x.th.published
<1>. DEFINE th == [x.th EXCEPT !.phase = "poisoned", !.retry = NoRetry]
            z == poison(x)
<1>1. x \in XTypes /\ x.th \in ThreadRecords
  BY DEF Sound, XTypes
<1>2. z = [x EXCEPT !.th = th]
  BY <1>1 DEF poison, XTypes, ThreadRecords
<1>3. /\ th \in ThreadRecords /\ th.phase = "poisoned" /\ th.buffered = x.th.buffered
      /\ th.pendingStart = x.th.pendingStart /\ th.published = x.th.published
  BY <1>1 DEF ThreadRecords
<1>4. \A t \in x.th.buffered : Over(t)
  BY DEF Sound
<1>. HIDE DEF th
<1>. QED  BY <1>2, <1>3, <1>4, PhaseHolds

\* A turn that is the only one to run becomes the thread's own.
LEMMA ActivateHolds ==
    ASSUME NEW x, Sound(x), NEW t \in KnownTurns, RunningTurns \subseteq {t}
    PROVE  LET z == Activate(x, t) IN
           /\ Sound(z) /\ z.job = x.job /\ z.th.phase = "active" /\ z.th.buffered = x.th.buffered
           /\ z.th.pendingStart = x.th.pendingStart /\ z.th.published = x.th.published
<1>. DEFINE th == [x.th EXCEPT !.epoch = x.th.epoch + 1, !.phase = "active", !.turn = t]
            z == Activate(x, t)
<1>1. /\ x \in XTypes /\ x.th \in ThreadRecords /\ x.job \in Works
      /\ x.handed \subseteq ThreadTurnIds /\ x.told \in [ThreadTurnIds -> Nat]
  BY DEF Sound, XTypes
<1>2. z = [x EXCEPT !.th = th, !.handed = x.handed \cup {t}]
  BY <1>1 DEF Activate, XTypes, ThreadRecords
<1>3. /\ th \in ThreadRecords /\ th.phase = "active" /\ th.turn = t /\ th.buffered = x.th.buffered
      /\ th.pendingStart = x.th.pendingStart /\ th.published = x.th.published
  <2>1. x.th.epoch \in Nat /\ t \in 0..ThreadTurns
    BY <1>1, ThreadAssumption DEF ThreadRecords, KnownTurns, ThreadTurnIds
  <2>2. x.th.epoch + 1 \in Nat
    BY <2>1
  <2>3. \A e \in Nat : LET r == [x.th EXCEPT !.epoch = e, !.phase = "active", !.turn = t] IN
            /\ r \in ThreadRecords /\ r.phase = "active" /\ r.turn = t /\ r.buffered = x.th.buffered
            /\ r.pendingStart = x.th.pendingStart /\ r.published = x.th.published
    BY <1>1, <2>1 DEF ThreadRecords
  <2>. QED  BY <2>2, <2>3, Zenon
<1>. HIDE DEF th
<1>4. /\ z.th = th /\ z.job = x.job /\ z.handed = x.handed \cup {t} /\ z.told = x.told
      /\ z = [th |-> z.th, job |-> z.job, handed |-> z.handed, told |-> z.told]
  BY <1>1, <1>2 DEF XTypes
<1>. HIDE DEF z
<1>5. t \in ThreadTurnIds
  BY DEF KnownTurns
<1>6. z \in XTypes
  BY <1>1, <1>3, <1>4, <1>5 DEF XTypes
<1>7. z.handed \subseteq KnownTurns
  BY <1>4 DEF Sound
<1>8. Sound(z)
  BY <1>3, <1>4, <1>6, <1>7 DEF Sound
<1>. QED  BY <1>3, <1>4, <1>8 DEF z

\* The first operation of the queue is taken.
LEMMA TailTyped ==
    ASSUME QueueSound, queued # <<>>, queued' = Tail(queued)
    PROVE  /\ Head(queued) \in [op : ThreadOpKinds, turn : Nat]
           /\ Head(queued).op = "settle" => Head(queued).turn \in ThreadTurnIds /\ Over(Head(queued).turn)
           /\ queued' \in Seq([op : ThreadOpKinds, turn : Nat])
           /\ \A i \in DOMAIN queued' : queued'[i].op = "settle" =>
                  queued'[i].turn \in ThreadTurnIds /\ Over(queued'[i].turn)
           /\ \A t : Settles(t) => Settles(t)' \/ Head(queued) = Queue("settle", t)
<1>1. queued \in Seq([op : ThreadOpKinds, turn : Nat])
  BY DEF QueueSound
<1>2. /\ queued' \in Seq([op : ThreadOpKinds, turn : Nat]) /\ Len(queued') = Len(queued) - 1 /\ Len(queued) \in Nat \ {0}
      /\ DOMAIN queued = 1..Len(queued) /\ DOMAIN queued' = 1..Len(queued')
      /\ Head(queued) = queued[1] /\ \A i \in 1..Len(queued') : queued'[i] = queued[i + 1]
  BY <1>1, HeadTailProperties, LenProperties, EmptySeq
<1>3. 1 \in DOMAIN queued /\ \A i \in DOMAIN queued' : i + 1 \in DOMAIN queued
  BY <1>2
<1>4. \A i \in DOMAIN queued : i = 1 \/ (i - 1 \in DOMAIN queued' /\ queued'[i - 1] = queued[i])
  <2>. SUFFICES ASSUME NEW i \in DOMAIN queued, i # 1
                PROVE  i - 1 \in DOMAIN queued' /\ queued'[i - 1] = queued[i]
    OBVIOUS
  <2>1. i - 1 \in 1..Len(queued')
    BY <1>2
  <2>2. queued'[i - 1] = queued[(i - 1) + 1]
    BY <1>2, <2>1
  <2>. QED  BY <1>2, <2>1, <2>2
<1>5. \A t : Settles(t) => Settles(t)' \/ Head(queued) = Queue("settle", t)
  BY <1>2, <1>4 DEF Settles
<1>6. Head(queued) \in [op : ThreadOpKinds, turn : Nat]
  BY <1>1, <1>2, HeadTailProperties
<1>. QED  BY <1>2, <1>3, <1>5, <1>6 DEF QueueSound

LEMMA RunKeeps == ThreadInv /\ run => ThreadInv'
<1>. SUFFICES ASSUME ThreadInv, run PROVE ThreadInv'
  OBVIOUS
<1>. DEFINE q == Head(queued)
            x == [X EXCEPT !.job = Working(q)]
<1>1. /\ job = NoWork /\ queued # <<>> /\ queued' = Tail(queued)
      /\ server' \in [at : {"loaded", "archived", "deleted"}, turns : {server.turns}]
      /\ \/ q.op = "settle" /\ Do([x EXCEPT !.job.rest = {q.turn}])
         \/ q.op = "park" /\ Do(park(x, q.turn))
         \/ q.op \notin {"settle", "park"} /\ GivenUp(x) /\ Do(Done(x))
         \/ q.op = "adoptOrDispose" /\ ~GivenUp(x) /\ Do(Await(x, "read"))
         \/ q.op \in {"activate", "start", "adopt"} /\ ~GivenUp(x) /\ Do(load(x))
  BY ServerStays DEF run
<1>2. /\ q \in [op : ThreadOpKinds, turn : Nat]
      /\ q.op = "settle" => q.turn \in ThreadTurnIds /\ Over(q.turn)
      /\ queued' \in Seq([op : ThreadOpKinds, turn : Nat])
      /\ \A i \in DOMAIN queued' : queued'[i].op = "settle" =>
             queued'[i].turn \in ThreadTurnIds /\ Over(queued'[i].turn)
      /\ \A t : Settles(t) => Settles(t)' \/ q = Queue("settle", t)
  BY <1>1, TailTyped DEF ThreadInv
<1>3. ~thread.pendingStart /\ thread.buffered = {} /\ job.rest = {}
  BY <1>1, HereTyped DEF Shaped, NoWork, Working, Queue
<1>. HIDE DEF q
<1>4. /\ x = [th |-> thread, job |-> [op |-> q.op, turn |-> q.turn, awaits |-> "none", started |-> 0, rest |-> {}],
              handed |-> handed, told |-> told]
      /\ q.op \in ThreadOpKinds /\ q.turn \in Nat
  <2>1. Working(q) = [op |-> q.op, turn |-> q.turn, awaits |-> "none", started |-> 0, rest |-> {}]
    BY DEF Working
  <2>2. x = [th |-> thread, job |-> Working(q), handed |-> handed, told |-> told]
    BY DEF X
  <2>. QED  BY <1>2, <2>1, <2>2
<1>. HIDE DEF x
<1>5. /\ x.th = thread /\ x.job.op = q.op /\ x.job.rest = {} /\ x.job.awaits = "none" /\ x.job.started = 0
      /\ x.job \in Works /\ x.handed = handed /\ x.told = told /\ q.op # "none"
  BY <1>4, ThreadAssumption DEF Works, Requests, ThreadOpKinds
<1>6. Sound(x)
  BY <1>4, <1>5, HereTyped DEF Sound, XTypes
<1>7. ASSUME NEW y, Do(y), Sound(y), Shaped(y), thread.published \subseteq y.th.published,
             thread.phase = "poisoned" => y.th.phase = "poisoned",
             q.op = "settle" => q.turn \in y.job.rest
      PROVE  ThreadInv'
  <2>1. \A t \in ThreadTurnIds :
            t \in thread.buffered \cup job.rest \cup thread.published \/ Settles(t) \/ thread.phase = "poisoned"
            => t \in y.th.buffered \cup y.job.rest \cup y.th.published \/ Settles(t)' \/ y.th.phase = "poisoned"
    BY <1>2, <1>3, <1>7 DEF Queue
  <2>. QED  BY <1>1, <1>2, <1>7, <2>1, StepKeeps
<1>8. CASE q.op = "settle" /\ Do([x EXCEPT !.job.rest = {q.turn}])
  <2>. DEFINE y == [x EXCEPT !.job.rest = {q.turn}]
  <2>1. Do(y)
    BY <1>8
  <2>2. /\ y.th = thread /\ y.job = [x.job EXCEPT !.rest = {q.turn}] /\ y.handed = handed /\ y.told = told
        /\ y = [th |-> y.th, job |-> y.job, handed |-> y.handed, told |-> y.told]
    BY <1>4
  <2>. HIDE DEF y
  <2>3. y.job \in Works /\ y.job.rest = {q.turn} /\ y.job.awaits = "none" /\ y.job.op = q.op
    BY <1>2, <1>5, <1>8, <2>2 DEF Works
  <2>4. Sound(y)
    BY <1>2, <1>3, <1>8, <2>2, <2>3, HereTyped DEF Sound, XTypes
  <2>5. Shaped(y)
    BY <1>3, <1>5, <2>2, <2>3 DEF Shaped, Parking, Loading
  <2>. QED  BY <1>7, <2>1, <2>2, <2>3, <2>4, <2>5
<1>9. CASE q.op # "settle" /\ Do(Done(x))
  <2>1. Sound(Done(x)) /\ Shaped(Done(x)) /\ Done(x).th = thread
    BY <1>3, <1>5, <1>6, DoneHolds
  <2>. QED  BY <1>7, <1>9, <2>1
<1>10. CASE q.op = "park" /\ Do(park(x, q.turn))
  <2>1. CASE park(x, q.turn) = Done(x)
    BY <1>9, <1>10, <2>1
  <2>2. CASE park(x, q.turn) = Await(x, "thread/archive") /\ thread.phase = "parking"
    <3>. DEFINE y == Await(x, "thread/archive")
    <3>1. /\ Sound(y) /\ y.th = x.th /\ y.job.awaits = "thread/archive" /\ y.job.rest = x.job.rest
          /\ y.job.started = x.job.started /\ y.job.op = x.job.op
      BY <1>6, AwaitHolds DEF Requests, Parking
    <3>2. Do(y)
      BY <1>10, <2>2
    <3>. HIDE DEF y
    <3>3. Shaped(y)
      BY <1>3, <1>5, <2>2, <3>1 DEF Shaped, Parking, Loading
    <3>. QED  BY <1>5, <1>7, <1>10, <2>2, <3>1, <3>2, <3>3
  <2>. QED  BY <1>5, <2>1, <2>2 DEF park
<1>11. CASE q.op = "adoptOrDispose" /\ ~GivenUp(x) /\ Do(Await(x, "read"))
  <2>. DEFINE y == Await(x, "read")
  <2>1. /\ Sound(y) /\ y.th = x.th /\ y.job.awaits = "read" /\ y.job.rest = x.job.rest
        /\ y.job.started = x.job.started /\ y.job.op = x.job.op
    BY <1>6, AwaitHolds DEF Requests
  <2>2. Do(y)
    BY <1>11
  <2>. HIDE DEF y
  <2>3. Shaped(y)
    BY <1>3, <1>5, <1>11, <2>1 DEF Shaped, Parking, Loading, GivenUp
  <2>. QED  BY <1>5, <1>7, <1>11, <2>1, <2>2, <2>3 DEF GivenUp
<1>12. CASE q.op \in {"activate", "start", "adopt"} /\ ~GivenUp(x) /\ Do(load(x))
  <2>1. x.th.phase \notin {"disposed", "poisoned"}
    BY <1>12 DEF GivenUp
  <2>2. Sound(load(x)) /\ Shaped(load(x)) /\ load(x).th.published = x.th.published
    BY <1>3, <1>5, <1>6, <2>1, LoadHolds
  <2>. QED  BY <1>5, <1>7, <1>12, <2>1, <2>2
<1>. QED  BY <1>1, <1>8, <1>9, <1>10, <1>11, <1>12

\* While a request is open the generation stands, and only a start holds terminals.
LEMMA RequestOpen ==
    ThreadInv /\ job.awaits # "none" =>
        /\ job.op # "none" /\ thread.phase \notin {"disposed", "poisoned"}
        /\ job.awaits # "turn/start" => ~thread.pendingStart /\ thread.buffered = {}
BY HereTyped DEF Shaped, NoWork, Working, Queue

\* The operation ends: it holds no terminal, or the generation is given up.
LEMMA EndsKeeps ==
    ASSUME ThreadInv, job.awaits \notin {"none", "turn/start"}, job.rest = {}, Do(Done(X)), queued' = queued,
           server' \in [at : {"loaded", "archived", "deleted"}, turns : {server.turns}]
    PROVE  ThreadInv'
<1>1. Sound(Done(X)) /\ Shaped(Done(X)) /\ Done(X).th = thread
  BY HereTyped, RequestOpen, DoneHolds
<1>. QED  BY <1>1, AnsweredKeeps

\* The operation sends its next request.
LEMMA AsksKeeps ==
    ASSUME ThreadInv, job.awaits \notin {"none", "turn/start"}, NEW m \in Requests, Do(Await(X, m)), queued' = queued,
           Shaped(Await(X, m)),
           server' \in [at : {"loaded", "archived", "deleted"}, turns : {server.turns}]
    PROVE  ThreadInv'
<1>1. Sound(Await(X, m)) /\ Await(X, m).th = thread /\ Await(X, m).job.rest = job.rest
  BY HereTyped, AwaitHolds
<1>. QED  BY <1>1, AnsweredKeeps

LEMMA AskedShape ==
    ASSUME ThreadInv, job.awaits \notin {"none", "turn/start"}, NEW m \in Requests \ {"none", "turn/start"},
           m \in Parking => thread.phase = "parking",
           m \in Loading => thread.phase \in {"unloaded", "parked"} /\ job.started = 0,
           m = "thread/delete" => KnownTurns = {},
           m \in Loading \cup {"read", "readAgain"} => job.rest = {}
    PROVE  Shaped(Await(X, m))
<1>. DEFINE y == Await(X, m)
<1>1. /\ y.th = thread /\ y.job.awaits = m /\ y.job.rest = job.rest
      /\ y.job.started = job.started /\ y.job.op = job.op
  BY HereTyped, AwaitHolds
<1>. HIDE DEF y
<1>2. Shaped(y)
  BY <1>1, RequestOpen, HereTyped DEF Shaped, Parking, Loading
<1>. QED  BY <1>2 DEF y

LEMMA ResumedKeeps == ThreadInv /\ Resumed => ThreadInv'
<1>. SUFFICES ASSUME ThreadInv, Resumed PROVE ThreadInv'
  OBVIOUS
<1>1. /\ job.awaits \in {"thread/resume", "resumeAgain"} /\ queued' = queued /\ Do(Loaded(X))
      /\ server' \in [at : {"loaded", "archived", "deleted"}, turns : {server.turns}]
  BY ServerStays DEF Resumed, Replied
<1>2. thread.phase \in {"unloaded", "parked"} /\ job.started = 0 /\ job.rest = {}
  BY <1>1, HereTyped DEF Shaped, Loading
<1>3. /\ Sound(Loaded(X)) /\ Shaped(Loaded(X)) /\ Loaded(X).th.published = thread.published
  BY <1>1, <1>2, RequestOpen, HereTyped, LoadedHolds
<1>4. thread.buffered = {} /\ thread.phase # "poisoned"
  BY <1>1, RequestOpen
<1>. QED  BY <1>1, <1>2, <1>3, <1>4, AnsweredKeeps

LEMMA ResumeRefusedKeeps == ThreadInv /\ ResumeRefused => ThreadInv'
<1>. SUFFICES ASSUME ThreadInv, ResumeRefused PROVE ThreadInv'
  OBVIOUS
<1>1. /\ job.awaits \in {"thread/resume", "resumeAgain"} /\ queued' = queued
      /\ Do(Await(X, "thread/unarchive")) \/ Do(Done(X))
      /\ server' \in [at : {"loaded", "archived", "deleted"}, turns : {server.turns}]
  BY ServerStays DEF ResumeRefused, Refused
<1>2. thread.phase \in {"unloaded", "parked"} /\ job.started = 0 /\ job.rest = {}
  BY <1>1, HereTyped DEF Shaped, Loading
<1>3. "thread/unarchive" \in Requests /\ Shaped(Await(X, "thread/unarchive"))
  BY <1>1, <1>2, AskedShape DEF Requests, Loading, Parking
<1>. QED  BY <1>1, <1>2, <1>3, AsksKeeps, EndsKeeps

LEMMA UnarchivedKeeps == ThreadInv /\ Unarchived => ThreadInv'
<1>. SUFFICES ASSUME ThreadInv, Unarchived PROVE ThreadInv'
  OBVIOUS
<1>1. /\ job.awaits = "thread/unarchive" /\ queued' = queued /\ Do(Await(X, "resumeAgain"))
      /\ server' \in [at : {"loaded", "archived", "deleted"}, turns : {server.turns}]
  BY DEF Unarchived, Replied, ThreadInv, ServerSound
<1>2. thread.phase \in {"unloaded", "parked"} /\ job.started = 0 /\ job.rest = {}
  BY <1>1, HereTyped DEF Shaped, Loading
<1>3. "resumeAgain" \in Requests /\ Shaped(Await(X, "resumeAgain"))
  BY <1>1, <1>2, AskedShape DEF Requests, Loading, Parking
<1>. QED  BY <1>1, <1>3, AsksKeeps

LEMMA UnarchiveRefusedKeeps == ThreadInv /\ UnarchiveRefused => ThreadInv'
<1>. SUFFICES ASSUME ThreadInv, UnarchiveRefused PROVE ThreadInv'
  OBVIOUS
<1>1. /\ job.awaits = "thread/unarchive" /\ queued' = queued /\ Do(Done(X))
      /\ server' \in [at : {"loaded", "archived", "deleted"}, turns : {server.turns}]
  BY ServerStays DEF UnarchiveRefused, Refused
<1>2. job.rest = {}
  BY <1>1, HereTyped DEF Shaped, Loading
<1>. QED  BY <1>1, <1>2, EndsKeeps

\* The terminals a start held are to be accepted one by one.
LEMMA DrainHolds ==
    ASSUME NEW x, Sound(x), ~x.th.pendingStart, x.job.op # "none"
    PROVE  LET y == drain(x) IN
           /\ Sound(y) /\ Shaped(y) /\ y.th.buffered = {} /\ y.job.rest = x.job.rest \cup x.th.buffered
           /\ y.th.published = x.th.published /\ y.th.phase = x.th.phase
<1>. DEFINE th == [x.th EXCEPT !.buffered = {}]
            j == [x.job EXCEPT !.rest = @ \cup x.th.buffered, !.awaits = "none"]
            y == drain(x)
<1>1. /\ x \in XTypes /\ x.th \in ThreadRecords /\ x.job \in Works
      /\ x.handed \subseteq ThreadTurnIds /\ x.told \in [ThreadTurnIds -> Nat]
  BY DEF Sound, XTypes
<1>2. /\ y.th = th /\ y.job = j /\ y.handed = x.handed /\ y.told = x.told
      /\ y = [th |-> y.th, job |-> y.job, handed |-> y.handed, told |-> y.told]
  <2>. DEFINE w == [x EXCEPT !.th.buffered = {}, !.job.rest = @ \cup x.th.buffered]
  <2>1. /\ w.th = th /\ w.job = [x.job EXCEPT !.rest = @ \cup x.th.buffered]
        /\ w.handed = x.handed /\ w.told = x.told
        /\ w = [th |-> w.th, job |-> w.job, handed |-> w.handed, told |-> w.told]
    <3>1. w = [[x EXCEPT !.th.buffered = {}] EXCEPT !.job.rest = x.job.rest \cup x.th.buffered]
      BY <1>1 DEF XTypes
    <3>2. [x EXCEPT !.th.buffered = {}] = [th |-> th, job |-> x.job, handed |-> x.handed, told |-> x.told]
      BY <1>1 DEF XTypes
    <3>. HIDE DEF w, th
    <3>. QED  BY <3>1, <3>2
  <2>2. y = [w EXCEPT !.job.awaits = "none"]
    BY DEF drain, GoOn, Await
  <2>. HIDE DEF w, th, y
  <2>3. /\ y.th = th /\ y.job = [w.job EXCEPT !.awaits = "none"] /\ y.handed = x.handed /\ y.told = x.told
        /\ y = [th |-> y.th, job |-> y.job, handed |-> y.handed, told |-> y.told]
    BY <2>1, <2>2
  <2>. QED  BY <2>1, <2>3
<1>3. /\ th \in ThreadRecords /\ th.buffered = {} /\ ~th.pendingStart /\ th.published = x.th.published
      /\ th.phase = x.th.phase /\ th.turn = x.th.turn
  BY <1>1 DEF ThreadRecords
<1>4. /\ j \in Works /\ j.rest = x.job.rest \cup x.th.buffered /\ j.awaits = "none" /\ j.op = x.job.op
  BY <1>1 DEF Works, ThreadRecords, Requests
<1>. HIDE DEF y, th, j
<1>5. Sound(y)
  BY <1>1, <1>2, <1>3, <1>4 DEF Sound, XTypes
<1>6. Shaped(y)
  BY <1>2, <1>3, <1>4 DEF Shaped, Parking, Loading
<1>. QED  BY <1>2, <1>3, <1>4, <1>5, <1>6 DEF y

LEMMA TurnRefusedKeeps == ThreadInv /\ TurnRefused => ThreadInv'
<1>. SUFFICES ASSUME ThreadInv, TurnRefused PROVE ThreadInv'
  OBVIOUS
<1>. DEFINE th == [thread EXCEPT !.pendingStart = FALSE]
            x == [X EXCEPT !.th.pendingStart = FALSE]
<1>1. /\ job.awaits = "turn/start" /\ queued' = queued /\ Do(drain(x))
      /\ server' \in [at : {"loaded", "archived", "deleted"}, turns : {server.turns}]
  BY ServerStays DEF TurnRefused, Refused
<1>2. x = [X EXCEPT !.th = th]
  BY DEF X
<1>3. /\ th \in ThreadRecords /\ ~th.pendingStart /\ th.buffered = thread.buffered
      /\ th.published = thread.published /\ th.phase = thread.phase /\ th.turn = thread.turn
  BY HereTyped DEF ThreadRecords
<1>. HIDE DEF x, th
<1>4. Sound(x) /\ x.th = th /\ x.job = job
  BY <1>2, <1>3, HereTyped, PhaseHolds DEF Sound
<1>5. /\ Sound(drain(x)) /\ Shaped(drain(x)) /\ drain(x).job.rest = job.rest \cup thread.buffered
      /\ drain(x).th.published = thread.published
  BY <1>1, <1>3, <1>4, RequestOpen, DrainHolds
<1>. QED  BY <1>1, <1>5, RequestOpen, AnsweredKeeps

LEMMA TurnStartedKeeps == ThreadInv /\ TurnStarted => ThreadInv'
<1>. SUFFICES ASSUME ThreadInv, TurnStarted PROVE ThreadInv'
  OBVIOUS
<1>. DEFINE th == [thread EXCEPT !.pendingStart = FALSE, !.parkAttempts = 0]
            x == [X EXCEPT !.th.pendingStart = FALSE, !.th.parkAttempts = 0]
            z == Activate(x, job.started)
<1>1. /\ job.awaits = "turn/start" /\ job.started # 0 /\ queued' = queued /\ Do(drain(z))
      /\ server' \in [at : {"loaded", "archived", "deleted"}, turns : {server.turns}]
  BY ServerStays DEF TurnStarted, Replied
<1>2. x = [X EXCEPT !.th = th]
  BY DEF X
<1>3. /\ th \in ThreadRecords /\ ~th.pendingStart /\ th.buffered = thread.buffered
      /\ th.published = thread.published /\ th.phase = thread.phase /\ th.turn = thread.turn
  BY HereTyped DEF ThreadRecords
<1>. HIDE DEF x, th
<1>4. Sound(x) /\ x.th = th /\ x.job = job
  BY <1>2, <1>3, HereTyped, PhaseHolds DEF Sound
<1>5. job.started \in KnownTurns /\ RunningTurns \subseteq {job.started}
  BY <1>1, HereTyped DEF Shaped
<1>6. /\ Sound(z) /\ z.job = job /\ z.th.buffered = thread.buffered
      /\ ~z.th.pendingStart /\ z.th.published = thread.published
  BY <1>3, <1>4, <1>5, ActivateHolds
<1>. HIDE DEF z
<1>7. /\ Sound(drain(z)) /\ Shaped(drain(z)) /\ drain(z).job.rest = job.rest \cup thread.buffered
      /\ drain(z).th.published = thread.published
  BY <1>1, <1>6, RequestOpen, DrainHolds
<1>. QED  BY <1>1, <1>7, RequestOpen, AnsweredKeeps

\* The operation is answered and goes on with what it holds.
LEMMA GoesOnKeeps ==
    ASSUME ThreadInv, job.awaits \notin {"none", "turn/start"}, NEW z, Do(GoOn(z)), Sound(z),
           ~z.th.pendingStart, z.th.buffered = {}, z.th.published = thread.published, z.job.op = job.op,
           job.rest \subseteq z.job.rest, queued' = queued,
           server' \in [at : {"loaded", "archived", "deleted"}, turns : {server.turns}]
    PROVE  ThreadInv'
<1>. DEFINE y == GoOn(z)
<1>1. /\ Sound(y) /\ y.th = z.th /\ y.job.awaits = "none" /\ y.job.rest = z.job.rest
      /\ y.job.started = z.job.started /\ y.job.op = z.job.op
  BY AwaitHolds DEF GoOn, Requests
<1>2. Do(y)
  OBVIOUS
<1>. HIDE DEF y
<1>3. Shaped(y)
  BY <1>1, RequestOpen DEF Shaped, Parking, Loading
<1>. QED  BY <1>1, <1>2, <1>3, RequestOpen, AnsweredKeeps

\* While a park is under way no turn handed out runs.
LEMMA ParkingQuiet ==
    ThreadInv /\ job.awaits \in Parking =>
        thread.phase = "parking" /\ handed \cap RunningTurns = {}
BY HereTyped DEF Shaped, Sound

LEMMA ArchivedKeeps == ThreadInv /\ Archived => ThreadInv'
<1>. SUFFICES ASSUME ThreadInv, Archived PROVE ThreadInv'
  OBVIOUS
<1>. DEFINE th == [thread EXCEPT !.phase = "parked", !.parkAttempts = 0]
            z == [X EXCEPT !.th.phase = "parked", !.th.parkAttempts = 0]
<1>1. /\ job.awaits = "thread/archive" /\ queued' = queued /\ Do(GoOn(z))
      /\ server' \in [at : {"loaded", "archived", "deleted"}, turns : {server.turns}]
  BY DEF Archived, Replied, ThreadInv, ServerSound
<1>2. z = [X EXCEPT !.th = th]
  BY DEF X
<1>3. /\ th \in ThreadRecords /\ th.pendingStart = thread.pendingStart /\ th.buffered = thread.buffered
      /\ th.published = thread.published
  BY HereTyped DEF ThreadRecords
<1>. HIDE DEF z, th
<1>4. Sound(z) /\ z.th = th /\ z.job = job
  BY <1>1, <1>2, <1>3, HereTyped, ParkingQuiet, PhaseHolds DEF Sound, Parking
<1>. QED  BY <1>1, <1>3, <1>4, RequestOpen, GoesOnKeeps

LEMMA ArchiveRefusedKeeps == ThreadInv /\ ArchiveRefused => ThreadInv'
<1>. SUFFICES ASSUME ThreadInv, ArchiveRefused PROVE ThreadInv'
  OBVIOUS
<1>1. /\ job.awaits = "thread/archive" /\ queued' = queued /\ Do(Await(X, "inspect"))
      /\ server' \in [at : {"loaded", "archived", "deleted"}, turns : {server.turns}]
  BY ServerStays DEF ArchiveRefused, Refused
<1>2. thread.phase = "parking"
  BY <1>1, ParkingQuiet DEF Parking
<1>3. "inspect" \in Requests /\ Shaped(Await(X, "inspect"))
  BY <1>1, <1>2, AskedShape DEF Requests, Loading, Parking
<1>. QED  BY <1>1, <1>3, AsksKeeps

\* A park that did not happen is tried again, or the generation is given up.
LEMMA ParkFailedKeeps ==
    ASSUME ThreadInv, job.awaits \notin {"none", "turn/start"}, Do(ParkFailed(X)), queued' = queued,
           server' \in [at : {"loaded", "archived", "deleted"}, turns : {server.turns}]
    PROVE  ThreadInv'
<1>. DEFINE th(n) == [thread EXCEPT !.parkAttempts = n]
            tried == [X EXCEPT !.th.parkAttempts = @ + 1]
<1>1. /\ \A n \in Nat : /\ th(n) \in ThreadRecords /\ th(n).pendingStart = thread.pendingStart
                        /\ th(n).buffered = thread.buffered /\ th(n).published = thread.published
                        /\ th(n).phase = thread.phase /\ th(n).turn = thread.turn /\ th(n).parkEpoch \in Nat
  BY HereTyped DEF ThreadRecords
<1>2. \E n \in Nat : tried = [X EXCEPT !.th = th(n)]
  <2>1. thread.parkAttempts + 1 \in Nat
    BY HereTyped DEF ThreadRecords
  <2>2. tried = [X EXCEPT !.th = th(thread.parkAttempts + 1)]
    BY DEF X
  <2>. QED  BY <2>1, <2>2
<1>3. PICK n \in Nat : tried = [X EXCEPT !.th = th(n)]
  BY <1>2
<1>4. /\ Do(GoOn(poison(tried))) \/ Do(GoOn([tried EXCEPT !.th.retry = tried.th.parkEpoch]))
  BY DEF ParkFailed
<1>. HIDE DEF th, tried
<1>5. Sound(tried) /\ tried.th = th(n) /\ tried.job = job
  BY <1>1, <1>3, HereTyped, PhaseHolds DEF Sound
<1>6. CASE Do(GoOn(poison(tried)))
  <2>1. /\ Sound(poison(tried)) /\ poison(tried).job = job /\ poison(tried).th.buffered = thread.buffered
        /\ poison(tried).th.pendingStart = thread.pendingStart /\ poison(tried).th.published = thread.published
    BY <1>1, <1>5, PoisonHolds
  <2>. QED  BY <1>6, <2>1, RequestOpen, GoesOnKeeps
<1>7. CASE Do(GoOn([tried EXCEPT !.th.retry = tried.th.parkEpoch]))
  <2>. DEFINE again == [th(n) EXCEPT !.retry = th(n).parkEpoch]
              z == [tried EXCEPT !.th.retry = tried.th.parkEpoch]
  <2>1. /\ again \in ThreadRecords /\ again.pendingStart = thread.pendingStart
        /\ again.buffered = thread.buffered /\ again.published = thread.published
        /\ again.phase = thread.phase /\ again.turn = thread.turn
    BY <1>1 DEF ThreadRecords
  <2>2. z = [tried EXCEPT !.th = again]
    BY <1>5 DEF Sound, XTypes
  <2>3. Do(GoOn(z))
    BY <1>7
  <2>. HIDE DEF again, z
  <2>4. Sound(z) /\ z.th = again /\ z.job = job
    BY <1>1, <1>5, <2>1, <2>2, PhaseHolds DEF Sound
  <2>. QED  BY <2>1, <2>3, <2>4, RequestOpen, GoesOnKeeps
<1>. QED  BY <1>4, <1>6, <1>7

\* What a read of the thread tells is so.
LEMMA ReadingTells ==
    ASSUME ThreadInv, NEW seen \in Readings
    PROVE  /\ seen.known = "running" => seen.turn \in KnownTurns /\ RunningTurns \subseteq {seen.turn}
           /\ seen.known = "empty" => KnownTurns = {}
           /\ seen.known = "settled" => /\ RunningTurns = {}
                                        /\ seen.turn \in ThreadTurnIds /\ Over(seen.turn)
<1>1. CASE seen = Unclear
  BY <1>1 DEF Unclear
<1>2. CASE seen = inspectRead /\ KnownTurns = {}
  BY <1>2 DEF inspectRead
<1>3. CASE seen = inspectRead /\ KnownTurns # {} /\ RunningTurns # {}
  <2>1. seen.known = "running" /\ seen.turn \in RunningTurns
    BY <1>3 DEF inspectRead
  <2>. QED  BY <2>1 DEF ThreadInv, ServerSound, RunningTurns, KnownTurns
<1>4. CASE seen = inspectRead /\ KnownTurns # {} /\ RunningTurns = {}
  <2>1. seen.known = "settled" /\ seen.turn = Cardinality(KnownTurns)
    BY <1>4 DEF inspectRead
  <2>2. seen.turn \in KnownTurns
    <3>1. /\ Cardinality(KnownTurns) \in 0..ThreadTurns
          /\ KnownTurns = 1..Cardinality(KnownTurns)
      BY LastKnown DEF ThreadInv
    <3>. DEFINE n == Cardinality(KnownTurns)
    <3>2. n \in Nat /\ KnownTurns = 1..n
      BY <3>1, ThreadAssumption
    <3>. HIDE DEF n
    <3>3. n \in 1..n
      BY <1>4, <3>2
    <3>. QED  BY <2>1, <3>2, <3>3 DEF n
  <2>3. Over(seen.turn) /\ seen.turn \in ThreadTurnIds
    BY <1>4, <2>2 DEF ThreadInv, ServerSound, KnownTurns, RunningTurns, Over
  <2>. QED  BY <1>4, <2>1, <2>3
<1>. QED  BY <1>1, <1>2, <1>3, <1>4 DEF Readings

LEMMA InspectedKeeps == ThreadInv /\ Inspected => ThreadInv'
<1>. SUFFICES ASSUME ThreadInv, Inspected PROVE ThreadInv'
  OBVIOUS
<1>1. /\ job.awaits \in {"inspect", "inspectAgain"} /\ queued' = queued
      /\ server' \in [at : {"loaded", "archived", "deleted"}, turns : {server.turns}]
  BY ServerStays DEF Inspected
<1>2. PICK seen \in Readings :
          Do(CASE seen.known = "running" /\ job.awaits = "inspect" ->
                       GoOn(Activate(X, seen.turn))
                 [] seen.known = "empty" ->
                       Await(X, IF job.awaits = "inspect" THEN "inspectAgain" ELSE "thread/delete")
                 [] OTHER -> ParkFailed(X))
  BY DEF Inspected
<1>3. thread.phase = "parking"
  BY <1>1, ParkingQuiet DEF Parking
<1>4. CASE seen.known = "running" /\ job.awaits = "inspect"
  <2>1. Do(GoOn(Activate(X, seen.turn)))
    BY <1>2, <1>4
  <2>. DEFINE z == Activate(X, seen.turn)
  <2>2. /\ Sound(z) /\ z.job = job /\ z.th.buffered = thread.buffered
        /\ z.th.pendingStart = thread.pendingStart /\ z.th.published = thread.published
    BY <1>4, ReadingTells, HereTyped, ActivateHolds
  <2>. QED  BY <1>1, <2>1, <2>2, RequestOpen, GoesOnKeeps
<1>5. CASE seen.known = "empty"
  <2>1. KnownTurns = {}
    BY <1>5, ReadingTells
  <2>2. CASE job.awaits = "inspect"
    <3>1. Do(Await(X, "inspectAgain"))
      BY <1>2, <1>5, <2>2
    <3>2. "inspectAgain" \in Requests /\ Shaped(Await(X, "inspectAgain"))
      BY <1>1, <1>3, AskedShape DEF Requests, Loading, Parking
    <3>. QED  BY <1>1, <3>1, <3>2, AsksKeeps
  <2>3. CASE job.awaits = "inspectAgain"
    <3>1. Do(Await(X, "thread/delete"))
      BY <1>2, <1>5, <2>3
    <3>2. "thread/delete" \in Requests /\ Shaped(Await(X, "thread/delete"))
      BY <1>1, <2>1, AskedShape DEF Requests, Loading, Parking
    <3>. QED  BY <1>1, <3>1, <3>2, AsksKeeps
  <2>. QED  BY <1>1, <2>2, <2>3
<1>6. CASE ~(seen.known = "running" /\ job.awaits = "inspect") /\ seen.known # "empty"
  <2>1. Do(ParkFailed(X))
    BY <1>2, <1>6
  <2>. QED  BY <1>1, <2>1, ParkFailedKeeps
<1>. QED  BY <1>4, <1>5, <1>6

\* A thread is deleted only when it has no turns.
LEMMA DeletedKeeps == ThreadInv /\ Deleted => ThreadInv'
<1>. SUFFICES ASSUME ThreadInv, Deleted PROVE ThreadInv'
  OBVIOUS
<1>. DEFINE th == [thread EXCEPT !.phase = "disposed"]
            z == [X EXCEPT !.th.phase = "disposed"]
<1>1. /\ job.awaits = "thread/delete" /\ queued' = queued /\ Do(GoOn(z))
      /\ server' \in [at : {"loaded", "archived", "deleted"}, turns : {server.turns}]
  BY DEF Deleted, Replied, ThreadInv, ServerSound
<1>2. z = [X EXCEPT !.th = th]
  BY DEF X
<1>3. /\ th \in ThreadRecords /\ th.pendingStart = thread.pendingStart /\ th.buffered = thread.buffered
      /\ th.published = thread.published
  BY HereTyped DEF ThreadRecords
<1>4. KnownTurns = {} /\ RunningTurns = {}
  BY <1>1, HereTyped DEF Shaped, KnownTurns, RunningTurns
<1>. HIDE DEF z, th
<1>5. Sound(z) /\ z.th = th /\ z.job = job
  BY <1>2, <1>3, <1>4, HereTyped, PhaseHolds DEF Sound
<1>. QED  BY <1>1, <1>3, <1>5, RequestOpen, GoesOnKeeps

LEMMA DeleteRefusedKeeps == ThreadInv /\ DeleteRefused => ThreadInv'
<1>. SUFFICES ASSUME ThreadInv, DeleteRefused PROVE ThreadInv'
  OBVIOUS
<1>1. /\ job.awaits = "thread/delete" /\ queued' = queued
      /\ Do(Done(X)) \/ Do(ParkFailed(X))
      /\ server' \in [at : {"loaded", "archived", "deleted"}, turns : {server.turns}]
  BY ServerStays DEF DeleteRefused, Refused
<1>2. job.rest = {}
  <2>1. KnownTurns = {}
    BY <1>1, HereTyped DEF Shaped
  <2>2. \A t \in job.rest : t \in ThreadTurnIds /\ Over(t)
    BY HereTyped DEF Sound, Works
  <2>. QED  BY <2>1, <2>2 DEF Over, KnownTurns
<1>. QED  BY <1>1, <1>2, EndsKeeps, ParkFailedKeeps

\* A read takes what the thread holds.
LEMMA TakeHolds ==
    ASSUME ThreadInv, NEW seen \in Readings
    PROVE  LET z == take(X, seen) IN
           /\ Sound(z) /\ z.job = job /\ z.th.buffered = thread.buffered
           /\ z.th.pendingStart = thread.pendingStart /\ z.th.published = thread.published
           /\ seen.known = "empty" => z = X
<1>1. CASE seen.known = "running"
  <2>. DEFINE x == [X EXCEPT !.th.retry = NoRetry]
              z == Activate(x, seen.turn)
  <2>1. take(X, seen) = z
    BY <1>1 DEF take
  <2>2. /\ Sound(x) /\ x.job = job /\ x.th.buffered = thread.buffered
        /\ x.th.pendingStart = thread.pendingStart /\ x.th.published = thread.published
    <3>1. Sound(X) /\ X.th = thread /\ X.job = job
      BY HereTyped
    <3>2. /\ Sound(x) /\ x.job = X.job /\ x.th.buffered = X.th.buffered
          /\ x.th.pendingStart = X.th.pendingStart /\ x.th.published = X.th.published
      BY <3>1, RetryDropped
    <3>. HIDE DEF x
    <3>. QED  BY <3>1, <3>2
  <2>. HIDE DEF x
  <2>3. /\ Sound(z) /\ z.job = job /\ z.th.buffered = thread.buffered
        /\ z.th.pendingStart = thread.pendingStart /\ z.th.published = thread.published
    BY <1>1, <2>2, ReadingTells, ActivateHolds
  <2>. HIDE DEF z
  <2>. QED  BY <1>1, <2>1, <2>3
<1>2. CASE seen.known = "settled" /\ thread.phase = "active"
  <2>. DEFINE th == [thread EXCEPT !.phase = "idle"]
              z == [X EXCEPT !.th.phase = "idle"]
  <2>1. take(X, seen) = z
    BY <1>2, HereTyped DEF take
  <2>2. z = [X EXCEPT !.th = th]
    BY DEF X
  <2>3. /\ th \in ThreadRecords /\ th.pendingStart = thread.pendingStart /\ th.buffered = thread.buffered
        /\ th.published = thread.published
    BY HereTyped DEF ThreadRecords
  <2>. HIDE DEF z, th
  <2>4. Sound(z) /\ z.th = th /\ z.job = job
    BY <1>2, <2>2, <2>3, ReadingTells, HereTyped, PhaseHolds DEF Sound
  <2>. QED  BY <1>2, <2>1, <2>3, <2>4
<1>3. CASE seen.known # "running" /\ ~(seen.known = "settled" /\ thread.phase = "active")
  <2>1. take(X, seen) = X
    BY <1>3, HereTyped DEF take
  <2>. QED  BY <2>1, HereTyped
<1>. QED  BY <1>1, <1>2, <1>3

LEMMA ReadKeeps == ThreadInv /\ Read => ThreadInv'
<1>. SUFFICES ASSUME ThreadInv, Read PROVE ThreadInv'
  OBVIOUS
<1>1. /\ job.awaits = "read" /\ queued' = queued
      /\ server' \in [at : {"loaded", "archived", "deleted"}, turns : {server.turns}]
  BY ServerStays DEF Read
<1>2. PICK seen \in Readings :
          \/ seen.known = "settled" /\ Do(GoOn([take(X, seen) EXCEPT !.job.rest = {seen.turn}]))
          \/ seen.known = "empty" /\ Do(Await(take(X, seen), "readAgain"))
          \/ Do(Done(take(X, seen)))
  BY DEF Read
<1>. DEFINE x == take(X, seen)
<1>3. /\ Sound(x) /\ x.job = job /\ x.th.buffered = thread.buffered
      /\ x.th.pendingStart = thread.pendingStart /\ x.th.published = thread.published
      /\ seen.known = "empty" => x = X
  BY TakeHolds
<1>4. job.rest = {} /\ ~thread.pendingStart /\ thread.buffered = {} /\ job.op # "none" /\ thread.phase # "poisoned"
  BY <1>1, RequestOpen, HereTyped DEF Shaped
<1>. HIDE DEF x
<1>5. CASE seen.known = "settled" /\ Do(GoOn([x EXCEPT !.job.rest = {seen.turn}]))
  <2>. DEFINE z == [x EXCEPT !.job.rest = {seen.turn}]
  <2>1. /\ x \in XTypes /\ x.th \in ThreadRecords /\ x.job \in Works
        /\ x.handed \subseteq ThreadTurnIds /\ x.told \in [ThreadTurnIds -> Nat]
    BY <1>3 DEF Sound, XTypes
  <2>2. /\ z.th = x.th /\ z.job = [x.job EXCEPT !.rest = {seen.turn}] /\ z.handed = x.handed /\ z.told = x.told
        /\ z = [th |-> z.th, job |-> z.job, handed |-> z.handed, told |-> z.told]
    BY <2>1 DEF XTypes
  <2>3. Do(GoOn(z))
    BY <1>5
  <2>. HIDE DEF z
  <2>4. seen.turn \in ThreadTurnIds /\ Over(seen.turn)
    BY <1>5, ReadingTells
  <2>5. z.job \in Works /\ z.job.rest = {seen.turn} /\ z.job.op = job.op
    BY <1>3, <2>1, <2>2, <2>4 DEF Works
  <2>6. Sound(z)
    BY <1>3, <2>1, <2>2, <2>4, <2>5 DEF Sound, XTypes
  <2>. QED  BY <1>1, <1>3, <1>4, <2>2, <2>3, <2>5, <2>6, GoesOnKeeps
<1>6. CASE seen.known = "empty" /\ Do(Await(x, "readAgain"))
  <2>1. "readAgain" \in Requests /\ Shaped(Await(X, "readAgain"))
    BY <1>1, <1>4, AskedShape DEF Requests, Loading, Parking
  <2>2. Do(Await(X, "readAgain"))
    BY <1>3, <1>6
  <2>. QED  BY <1>1, <2>1, <2>2, AsksKeeps
<1>7. CASE Do(Done(x))
  <2>1. Sound(Done(x)) /\ Shaped(Done(x)) /\ Done(x).th = x.th
    BY <1>3, <1>4, DoneHolds
  <2>. QED  BY <1>1, <1>3, <1>4, <1>7, <2>1, AnsweredKeeps
<1>. QED  BY <1>2, <1>5, <1>6, <1>7 DEF x

LEMMA ReadAgainKeeps == ThreadInv /\ ReadAgain => ThreadInv'
<1>. SUFFICES ASSUME ThreadInv, ReadAgain PROVE ThreadInv'
  OBVIOUS
<1>1. /\ job.awaits = "readAgain" /\ queued' = queued
      /\ server' \in [at : {"loaded", "archived", "deleted"}, turns : {server.turns}]
  BY ServerStays DEF ReadAgain
<1>2. PICK seen \in Readings : Do(IF seen.known = "empty" THEN Await(X, "thread/delete") ELSE Done(X))
  BY DEF ReadAgain
<1>3. job.rest = {}
  BY <1>1, HereTyped DEF Shaped
<1>4. CASE seen.known = "empty"
  <2>1. "thread/delete" \in Requests /\ Shaped(Await(X, "thread/delete"))
    BY <1>1, <1>4, ReadingTells, AskedShape DEF Requests, Loading, Parking
  <2>. QED  BY <1>1, <1>2, <1>4, <2>1, AsksKeeps
<1>5. CASE seen.known # "empty"
  BY <1>1, <1>2, <1>3, <1>5, EndsKeeps
<1>. QED  BY <1>4, <1>5

LEMMA TimesOutKeeps == ThreadInv /\ TimesOut => ThreadInv'
<1>. SUFFICES ASSUME ThreadInv, TimesOut PROVE ThreadInv'
  OBVIOUS
<1>. DEFINE x == poison(X)
            th == [x.th EXCEPT !.pendingStart = FALSE]
            z == [x EXCEPT !.th.pendingStart = FALSE]
<1>1. /\ job.awaits # "none" /\ queued' = queued
      /\ server' \in [at : {"loaded", "archived", "deleted"}, turns : {server.turns}]
      /\ IF job.awaits = "turn/start" THEN Do(drain(z)) ELSE Do(Done(x))
  BY ServerStays DEF TimesOut
<1>2. /\ Sound(x) /\ x.job = job /\ x.th.phase = "poisoned" /\ x.th.buffered = thread.buffered
      /\ x.th.pendingStart = thread.pendingStart /\ x.th.published = thread.published
  BY HereTyped, PoisonHolds
<1>. HIDE DEF x
<1>3. CASE job.awaits = "turn/start"
  <2>1. x.th \in ThreadRecords /\ x \in XTypes
    BY <1>2 DEF Sound, XTypes
  <2>2. /\ th \in ThreadRecords /\ ~th.pendingStart /\ th.buffered = thread.buffered
        /\ th.published = thread.published /\ th.phase = "poisoned"
    BY <1>2, <2>1 DEF ThreadRecords
  <2>3. z = [x EXCEPT !.th = th] /\ Do(drain(z))
    BY <1>1, <1>3, <2>1 DEF XTypes
  <2>. HIDE DEF th, z
  <2>4. \A t \in th.buffered : Over(t)
    BY <1>2, <2>2 DEF Sound
  <2>5. Sound(z) /\ z.th = th /\ z.job = job
    BY <1>2, <2>2, <2>3, <2>4, PhaseHolds
  <2>6. Sound(drain(z)) /\ Shaped(drain(z)) /\ drain(z).th.phase = "poisoned"
    BY <1>1, <2>2, <2>5, RequestOpen, DrainHolds
  <2>. QED  BY <1>1, <2>3, <2>6, AnsweredKeeps
<1>4. CASE job.awaits # "turn/start"
  <2>1. Sound(Done(x)) /\ Shaped(Done(x)) /\ Done(x).th = x.th
    BY <1>1, <1>2, <1>4, RequestOpen, DoneHolds
  <2>. QED  BY <1>1, <1>2, <1>4, <2>1, AnsweredKeeps
<1>. QED  BY <1>3, <1>4

LEMMA ThreadInvNext == ThreadInv /\ [ThreadNext]_threadVars => ThreadInv'
<1>. SUFFICES ASSUME ThreadInv, [ThreadNext]_threadVars PROVE ThreadInv'
  OBVIOUS
<1>1. CASE ThreadNext
  BY <1>1, ServerStartsKeeps, ServerEndsKeeps, NoticedKeeps, SettleAgainKeeps, AskKeeps, RetryFiresKeeps,
     RunKeeps, ContinueKeeps, ResumedKeeps, ResumeRefusedKeeps, UnarchivedKeeps, UnarchiveRefusedKeeps,
     TurnStartedKeeps, TurnRefusedKeeps, ArchivedKeeps, ArchiveRefusedKeeps, InspectedKeeps, DeletedKeeps,
     DeleteRefusedKeeps, ReadKeeps, ReadAgainKeeps, TimesOutKeeps
  DEF ThreadNext
<1>2. CASE UNCHANGED threadVars
  BY <1>2 DEF threadVars, ThreadInv, Sound, Shaped, ServerSound, QueueSound, Accounted, Settles, Over, X,
              KnownTurns, RunningTurns
<1>. QED  BY <1>1, <1>2

\* The end of a turn is told, once, and a thread is put away only while no turn
\* of its client runs, for any number of turns, refusals and timeouts
\* (codexThreadLifecycle.ts).
THEOREM TurnsAreReported == ThreadSpec => []TurnsReported
<1>1. ThreadSpec => []ThreadInv
  BY ThreadInitInv, ThreadInvNext, PTL DEF ThreadSpec
<1>. QED  BY <1>1, ThreadInvSuffices, PTL

-----------------------------------------------------------------------------
(* The agents of a daemon *)

Fences == Nat \X Nat \X Nat
AgentOps ==
    [kind : {"none", "start", "message", "stop"}, state : {"none", "requested", "accepted", "indeterminate"},
     preState : {"none", "creating", "idle", "working", "recovering", "unavailable"}, preTurn : 0..MaxTurns,
     preFence : Fences, turn : 0..MaxTurns, delivery : {"none", "started", "steered", "inProgress", "settled"},
     fence : Fences]
AgentRecords ==
    [state : {"none", "creating", "idle", "working", "recovering", "unavailable"}, thread : BOOLEAN,
     active : 0..MaxTurns, fence : Fences, turns : [TurnIds -> {"none", "inProgress", "settled"}],
     ops : [OpIds -> AgentOps], pending : Nat]
AgentFrames ==
    {m \in [kind : {"hello", "activity", "terminal", "accepted", "rejected", "interruptResult", "interruptFailed",
                    "reconciled"},
            op : Nat, turn : 0..MaxTurns, delivery : {"none", "started", "steered", "inProgress", "settled"},
            at : Fences] :
        m.kind = "terminal" => m.turn # 0}

StopIsPending(a) == \A o \in OpIds : a.ops[o].kind = "stop" /\ a.ops[o].state = "requested" => a.pending = o

\* A record that is kept: the schema takes it, and its open stop is the one it names.
Kept(a) == a \in AgentRecords /\ Storable(a) /\ StopIsPending(a)

\* Commands that name turns and operations, in a line.
Line(q) == q \in Seq(Range(q)) /\ \A c \in Range(q) : c.op \in Nat /\ c.turn \in 0..MaxTurns

RelayShape(r) ==
    /\ r = [held |-> r.held, draining |-> r.draining, reconciling |-> r.reconciling, streams |-> r.streams]
    /\ r.held \subseteq AgentFrames
    /\ r.draining \in Seq(SUBSET AgentFrames)

\* What a step of the gateway is given and makes.
Steady(g) ==
    /\ g = [agent |-> g.agent, relay |-> g.relay, sent |-> g.sent]
    /\ Kept(g.agent) /\ RelayShape(g.relay) /\ Line(g.sent)

DaemonRecords ==
    [inst : Nat, child : Nat, serving : BOOLEAN, nextEvent : Nat, bound : SUBSET (0..MaxTurns),
     published : SUBSET (0..MaxTurns), outbox : SUBSET AgentFrames]
\* The daemon's copies are of its own frames, each with a fence of its own.
DaemonShape(d) ==
    /\ d \in DaemonRecords
    /\ IsFiniteSet(d.outbox)
    /\ \A m, n \in d.outbox : m.at = n.at => m = n
    /\ \A m \in d.outbox : /\ m.at[1] = d.inst /\ m.at[2] <= d.child
                           /\ m.at[2] = d.child => m.at[3] < d.nextEvent

AgentInv ==
    /\ Kept(agent) /\ RelayShape(agentRelay) /\ DaemonShape(daemon)
    /\ agentUp \in Seq(AgentFrames) /\ Line(agentDown)

\* A terminal that ends the turn a record waits on leaves a record the schema takes.
LEMMA TerminalStorable ==
  ASSUME NEW a \in AgentRecords, Storable(a), NEW m \in AgentFrames, m.kind = "terminal",
         a.thread, classifyEventFence(a.fence, m.at) = "advances", a.active = m.turn
  PROVE  Storable(withTerminal(a, m))
<1>. DEFINE b == withTerminal(a, m)
<1>1. m.turn \in TurnIds /\ m.at \in Fences /\ a.fence \in Fences
  BY AgentAssumption DEF AgentFrames, TurnIds, AgentRecords
<1>2. a.fence # NoFence /\ StreamOf(a.fence) = StreamOf(m.at) /\ m.at[3] > a.fence[3] /\ m.at # NoFence
  BY <1>1 DEF classifyEventFence, NoFence, Fences
<1>3. InProgress(a) = {m.turn}
  BY <1>1 DEF Storable, codexAgentHistoryIssues, agentTurnHistoryIssues, TurnIds
<1>4. /\ b.state = "idle" /\ b.active = 0 /\ b.pending = 0 /\ b.fence = m.at /\ b.thread
      /\ b.turns = [a.turns EXCEPT ![m.turn] = "settled"]
  BY DEF withTerminal, AgentRecords
<1>5. \A o \in OpIds :
        /\ b.ops[o].kind = a.ops[o].kind /\ b.ops[o].preState = a.ops[o].preState
        /\ b.ops[o].preTurn = a.ops[o].preTurn /\ b.ops[o].preFence = a.ops[o].preFence
        /\ b.ops[o].turn = a.ops[o].turn /\ b.ops[o].delivery = a.ops[o].delivery
        /\ b.ops[o].kind # "stop" => b.ops[o] = a.ops[o]
        /\ b.ops[o].fence \in {a.ops[o].fence, m.at}
  BY DEF withTerminal, AgentRecords, AgentOps
<1>6. a.turns \in [TurnIds -> {"none", "inProgress", "settled"}] /\ a.ops \in [OpIds -> AgentOps]
  BY DEF AgentRecords
<1>7. Turns(b) = Turns(a) /\ InProgress(b) = {}
  BY <1>1, <1>3, <1>4, <1>6 DEF Turns, InProgress
<1>8. \A t : {o \in OpIds : b.ops[o].delivery = "started" /\ b.ops[o].turn = t}
               = {o \in OpIds : a.ops[o].delivery = "started" /\ a.ops[o].turn = t}
  BY <1>5
<1>9. \A o \in OpIds : IsPrompt(b.ops[o]) <=> IsPrompt(a.ops[o])
  BY <1>5 DEF IsPrompt
<1>10. ~agentTurnHistoryIssues(b)
  BY <1>4, <1>7 DEF agentTurnHistoryIssues
<1>11. ~codexAgentHistoryIssues(b)
  <2>1. ~codexAgentHistoryIssues(a)
    BY DEF Storable
  <2>2. \A t \in Turns(b) : Cardinality({o \in OpIds : b.ops[o].delivery = "started" /\ b.ops[o].turn = t}) = 1
    <3>. SUFFICES ASSUME NEW t \in Turns(b)
                  PROVE  Cardinality({o \in OpIds : b.ops[o].delivery = "started" /\ b.ops[o].turn = t}) = 1
      OBVIOUS
    <3>1. Cardinality({o \in OpIds : a.ops[o].delivery = "started" /\ a.ops[o].turn = t}) = 1
      BY <2>1, <1>7 DEF codexAgentHistoryIssues
    <3>. QED  BY <3>1, <1>8
  <2>3. \A o \in OpIds : IsPrompt(b.ops[o]) /\ b.ops[o].turn # 0 => b.ops[o].turn \in Turns(b)
    BY <2>1, <1>5, <1>7, <1>9 DEF codexAgentHistoryIssues
  <2>. QED  BY <2>2, <2>3, <1>4, <1>10 DEF codexAgentHistoryIssues
<1>12. HasNativeHistory(b) <=> HasNativeHistory(a)
  BY <1>5, <1>7, <1>9 DEF HasNativeHistory, IsPrompt
<1>13. \A o \in OpIds : OperationStorable(b, b.ops[o])
  <2>. SUFFICES ASSUME NEW o \in OpIds PROVE OperationStorable(b, b.ops[o])
    OBVIOUS
  <2>. DEFINE p == a.ops[o]
              q == b.ops[o]
  <2>1. OperationStorable(a, p) /\ p \in AgentOps
    BY <1>6 DEF Storable
  <2>2. q.delivery = "steered" => q.preState = "working" /\ q.preTurn = q.turn
    BY <2>1, <1>5 DEF OperationStorable
  <2>3. q.kind = "message" /\ q.delivery = "started" /\ q.preState = "working" =>
            q.preTurn # q.turn /\ b.turns[q.preTurn] = "settled"
    <3>. SUFFICES ASSUME q.kind = "message", q.delivery = "started", q.preState = "working"
                  PROVE  q.preTurn # q.turn /\ b.turns[q.preTurn] = "settled"
      OBVIOUS
    <3>1. p.preTurn # p.turn /\ a.turns[p.preTurn] = "settled" /\ q.preTurn = p.preTurn /\ q.turn = p.turn
      BY <2>1, <1>5 DEF OperationStorable
    <3>. QED  BY <3>1, <1>1, <1>4, <1>6
  <2>4. q.kind = "message" /\ q.state = "accepted" /\ q.preState = "idle" => q.delivery = "started"
    BY <2>1, <1>5 DEF OperationStorable
  <2>5. {q.turn, q.preTurn} \subseteq Turns(b) \cup {0}
    BY <2>1, <1>5, <1>7 DEF OperationStorable
  <2>6. \A f \in Fences : NotPast(f, a.fence) => NotPast(f, m.at)
    BY <1>1, <1>2 DEF NotPast, Fences
  <2>7. NotPast(m.at, m.at)
    BY <1>1 DEF NotPast, Fences
  <2>8. NotPast(q.preFence, b.fence) /\ NotPast(q.fence, b.fence)
    BY <2>1, <2>6, <2>7, <1>4, <1>5 DEF OperationStorable, AgentOps
  <2>. QED  BY <2>2, <2>3, <2>4, <2>5, <2>8 DEF OperationStorable
<1>. QED  BY <1>2, <1>4, <1>11, <1>12, <1>13 DEF Storable

LEMMA TerminalPlaceable ==
  ASSUME NEW a \in AgentRecords, Storable(a), NEW m \in AgentFrames, m.kind = "terminal"
  PROVE  applied(a, m).is # "failed"
<1>1. applied(a, m) = applyEvent(a, m)
  BY DEF applied
<1>2. CASE ~a.thread \/ classifyEventFence(a.fence, m.at) # "advances" \/ a.turns[m.turn] # "inProgress" \/ a.active # m.turn
  <2>1. m.turn \in TurnIds /\ a.turns[m.turn] \in {"none", "inProgress", "settled"}
    BY AgentAssumption DEF AgentFrames, AgentRecords, TurnIds
  <2>2. classifyEventFence(a.fence, m.at) \in {"foreign", "advances", "duplicate"}
    BY DEF classifyEventFence
  <2>3. applyEvent(a, m) \in {Out("ignored", a), Out("reconcile", a)}
    BY <1>2, <2>1, <2>2 DEF applyEvent
  <2>. QED  BY <1>1, <2>3 DEF Out
<1>3. CASE a.thread /\ classifyEventFence(a.fence, m.at) = "advances" /\ a.turns[m.turn] = "inProgress" /\ a.active = m.turn
  <2>1. Storable(withTerminal(a, m))
    BY <1>3, TerminalStorable
  <2>. QED  BY <1>1, <1>3, <2>1 DEF applyEvent, Out, Stored
<1>. QED  BY <1>2, <1>3

LEMMA OpsTyped ==
  ASSUME NEW ops \in [OpIds -> AgentOps], NEW k, NEW r, k \in OpIds => r \in AgentOps
  PROVE  [ops EXCEPT ![k] = r] \in [OpIds -> AgentOps]
OBVIOUS

LEMMA OpTyped ==
  ASSUME NEW op \in AgentOps, NEW s \in {"accepted", "indeterminate"}, NEW f \in Fences, NEW t \in 0..MaxTurns,
         NEW d \in {"none", "started", "steered", "inProgress", "settled"}
  PROVE  /\ [op EXCEPT !.state = s] \in AgentOps /\ [op EXCEPT !.state = s, !.fence = f] \in AgentOps
         /\ [op EXCEPT !.state = s, !.turn = t, !.delivery = d, !.fence = f] \in AgentOps
BY DEF AgentOps

\* What a frame makes of a record that is kept.
OutcomeOK(o) == o = [is |-> o.is, agent |-> o.agent, about |-> o.about] /\ Kept(o.agent) /\ Kept(o.about)

LEMMA StoredKept ==
  ASSUME NEW a, Kept(a), NEW b, b \in AgentRecords, StopIsPending(b)
  PROVE  OutcomeOK(Stored(a, b))
BY DEF Stored, Out, OutcomeOK, Kept

LEMMA OutKept == ASSUME NEW a, Kept(a), NEW is PROVE OutcomeOK(Out(is, a))
BY DEF Out, OutcomeOK

LEMMA RefuseShape ==
  ASSUME NEW a, Kept(a), NEW o
  PROVE  refuseDelivery(a, o) \in AgentRecords /\ StopIsPending(refuseDelivery(a, o))
<1>. DEFINE b == refuseDelivery(a, o)
<1>1. a \in AgentRecords /\ StopIsPending(a)
  BY DEF Kept
<1>2. b.ops \in [OpIds -> AgentOps] /\ b.pending = a.pending
  <2>1. b.ops = [a.ops EXCEPT ![o] = [a.ops[o] EXCEPT !.state = "indeterminate"]] /\ b.pending = a.pending
    BY <1>1 DEF refuseDelivery, AgentRecords
  <2>2. a.ops \in [OpIds -> AgentOps] /\ \E f : f \in Fences
    BY <1>1 DEF AgentRecords
  <2>3. o \in OpIds => [a.ops[o] EXCEPT !.state = "indeterminate"] \in AgentOps
    BY <2>2 DEF AgentOps
  <2>. QED  BY <2>1, <2>2, <2>3, OpsTyped
<1>3. \A p \in OpIds : b.ops[p].kind = a.ops[p].kind /\ b.ops[p].state \in {a.ops[p].state, "indeterminate"}
  BY <1>1 DEF refuseDelivery, AgentRecords, AgentOps
<1>4. b \in AgentRecords
  BY <1>1, <1>2 DEF refuseDelivery, AgentRecords
<1>. QED  BY <1>1, <1>2, <1>3, <1>4 DEF StopIsPending

LEMMA AcceptKept ==
  ASSUME NEW a, Kept(a), NEW m \in AgentFrames
  PROVE  OutcomeOK(acceptDelivery(a, m))
<1>. DEFINE verdict == decideAcceptance(a, m)
            settled == verdict = "acceptSettled"
            next == [a EXCEPT !.state = IF settled THEN @ ELSE "working",
                          !.thread = TRUE,
                          !.active = IF settled THEN @ ELSE m.turn,
                          !.turns[m.turn] = IF @ = "none" THEN "inProgress" ELSE @,
                          !.ops[m.op] = [@ EXCEPT !.state = "accepted", !.turn = m.turn,
                                                  !.delivery = m.delivery, !.fence = m.at],
                          !.fence = m.at]
            kept == IF verdict = "refuse" THEN refuseDelivery(a, m.op) ELSE next
<1>1. a \in AgentRecords /\ StopIsPending(a)
  BY DEF Kept
<1>2. m.turn \in 0..MaxTurns /\ m.at \in Fences
      /\ m.delivery \in {"none", "started", "steered", "inProgress", "settled"}
  BY DEF AgentFrames
<1>3. next.ops \in [OpIds -> AgentOps] /\ next.pending = a.pending
  <2>. DEFINE op == [a.ops[m.op] EXCEPT !.state = "accepted", !.turn = m.turn, !.delivery = m.delivery, !.fence = m.at]
  <2>1. next.ops = [a.ops EXCEPT ![m.op] = op] /\ next.pending = a.pending
    BY <1>1 DEF AgentRecords
  <2>2. a.ops \in [OpIds -> AgentOps]
    BY <1>1 DEF AgentRecords
  <2>3. m.op \in OpIds => op \in AgentOps
    BY <1>2, <2>2, OpTyped
  <2>. HIDE DEF op, next
  <2>. QED  BY <2>1, <2>2, <2>3, OpsTyped
<1>4. \A p \in OpIds : next.ops[p].kind = a.ops[p].kind /\ next.ops[p].state \in {a.ops[p].state, "accepted"}
  BY <1>1 DEF AgentRecords, AgentOps
<1>5. next.turns \in [TurnIds -> {"none", "inProgress", "settled"}]
  BY <1>1 DEF AgentRecords
<1>6. next \in AgentRecords
  BY <1>1, <1>2, <1>3, <1>5 DEF AgentRecords
<1>7. StopIsPending(next)
  BY <1>1, <1>3, <1>4 DEF StopIsPending
<1>8. kept \in AgentRecords /\ StopIsPending(kept)
  BY <1>6, <1>7, RefuseShape
<1>. HIDE DEF next, kept
<1>9. OutcomeOK(IF Storable(kept) THEN Out("applied", kept) ELSE Out("reconcile", a))
  BY <1>8 DEF Out, OutcomeOK, Kept
<1>10. acceptDelivery(a, m) \in {Out("ignored", a), Out("applied", a), Out("reconcile", a),
                                 IF Storable(kept) THEN Out("applied", kept) ELSE Out("reconcile", a)}
  BY DEF acceptDelivery, kept, next
<1>. QED  BY <1>9, <1>10, OutKept

LEMMA RejectionKept ==
  ASSUME NEW a, Kept(a), NEW m \in AgentFrames
  PROVE  OutcomeOK(applyRejection(a, m))
<1>. DEFINE b == [a EXCEPT !.state = CASE a.ops[m.op].kind = "start" -> "unavailable"
                                         [] a.ops[m.op].kind = "message" -> "recovering"
                                         [] OTHER -> @,
                             !.pending = IF @ = m.op THEN 0 ELSE @,
                             !.ops[m.op].state = "indeterminate"]
<1>1. a \in AgentRecords /\ StopIsPending(a) /\ m.op \in Nat
  BY DEF Kept, AgentFrames
<1>2. b.ops \in [OpIds -> AgentOps] /\ b.pending = IF a.pending = m.op THEN 0 ELSE a.pending
  <2>1. b.ops = [a.ops EXCEPT ![m.op] = [a.ops[m.op] EXCEPT !.state = "indeterminate"]]
        /\ b.pending = IF a.pending = m.op THEN 0 ELSE a.pending
    BY <1>1 DEF AgentRecords
  <2>2. a.ops \in [OpIds -> AgentOps]
    BY <1>1 DEF AgentRecords
  <2>3. m.op \in OpIds => [a.ops[m.op] EXCEPT !.state = "indeterminate"] \in AgentOps
    BY <2>2 DEF AgentOps
  <2>. HIDE DEF b
  <2>. QED  BY <2>1, <2>2, <2>3, OpsTyped
<1>3. \A p \in OpIds : b.ops[p].kind = a.ops[p].kind
                       /\ b.ops[p].state = IF p = m.op THEN "indeterminate" ELSE a.ops[p].state
  BY <1>1 DEF AgentRecords, AgentOps
<1>4. b.state \in {"none", "creating", "idle", "working", "recovering", "unavailable"}
  BY <1>1 DEF AgentRecords
<1>5. b \in AgentRecords
  BY <1>1, <1>2, <1>4 DEF AgentRecords
<1>6. StopIsPending(b)
  BY <1>1, <1>2, <1>3 DEF StopIsPending
<1>7. applyRejection(a, m) \in {Out("ignored", a), Stored(a, b)}
  BY DEF applyRejection
<1>. HIDE DEF b
<1>. QED  BY <1>5, <1>6, <1>7, OutKept, StoredKept

LEMMA InterruptKept ==
  ASSUME NEW a, Kept(a), NEW m \in AgentFrames
  PROVE  OutcomeOK(applyInterruptOutcome(a, m))
<1>. DEFINE delivered == m.kind = "interruptResult"
            b == [a EXCEPT !.pending = IF delivered THEN @ ELSE 0,
                           !.ops[m.op].state = IF delivered THEN "accepted" ELSE "indeterminate",
                           !.ops[m.op].fence = IF delivered THEN m.at ELSE NoFence,
                           !.fence = m.at]
<1>1. a \in AgentRecords /\ StopIsPending(a) /\ m.op \in Nat /\ m.at \in Fences /\ NoFence \in Fences
  BY DEF Kept, AgentFrames, Fences, NoFence
<1>2. CASE a.pending # m.op
  <2>1. applyInterruptOutcome(a, m) \in {Out("ignored", a), Out("reconcile", a)}
    BY <1>2 DEF applyInterruptOutcome
  <2>. QED  BY <2>1, OutKept
<1>3. CASE a.pending = m.op
  <2>1. b.ops \in [OpIds -> AgentOps] /\ b.pending \in {0, a.pending}
    <3>. DEFINE op == [a.ops[m.op] EXCEPT !.state = IF delivered THEN "accepted" ELSE "indeterminate",
                                          !.fence = IF delivered THEN m.at ELSE NoFence]
    <3>1. b.ops = [a.ops EXCEPT ![m.op] = op] /\ b.pending \in {0, a.pending}
      BY <1>1 DEF AgentRecords
    <3>2. a.ops \in [OpIds -> AgentOps]
      BY <1>1 DEF AgentRecords
    <3>3. m.op \in OpIds => op \in AgentOps
      <4>1. /\ (IF delivered THEN "accepted" ELSE "indeterminate") \in {"accepted", "indeterminate"}
            /\ (IF delivered THEN m.at ELSE NoFence) \in Fences
        BY <1>1
      <4>2. m.op \in OpIds => a.ops[m.op] \in AgentOps
        BY <3>2
      <4>3. m.op \in OpIds => \E t \in 0..MaxTurns : TRUE
        BY AgentAssumption
      <4>. QED  BY <4>1, <4>2, <4>3, OpTyped
    <3>. HIDE DEF op, b
    <3>. QED  BY <3>1, <3>2, <3>3, OpsTyped
  <2>2. \A p \in OpIds : b.ops[p].kind = a.ops[p].kind
                         /\ b.ops[p].state \in IF p = m.op THEN {"accepted", "indeterminate"} ELSE {a.ops[p].state}
    BY <1>1 DEF AgentRecords, AgentOps
  <2>3. b \in AgentRecords
    BY <1>1, <2>1 DEF AgentRecords
  <2>4. StopIsPending(b)
    <3>. SUFFICES ASSUME NEW p \in OpIds, b.ops[p].kind = "stop", b.ops[p].state = "requested" PROVE FALSE
      BY DEF StopIsPending
    <3>. HIDE DEF b
    <3>1. p # m.op /\ a.ops[p].kind = "stop" /\ a.ops[p].state = "requested"
      BY <2>2
    <3>. QED  BY <3>1, <1>1, <1>3 DEF StopIsPending
  <2>5. applyInterruptOutcome(a, m) \in {Out("ignored", a), Out("reconcile", a), Stored(a, b)}
    BY DEF applyInterruptOutcome
  <2>. HIDE DEF b
  <2>. QED  BY <2>3, <2>4, <2>5, OutKept, StoredKept
<1>. QED  BY <1>2, <1>3

LEMMA ReconciliationKept ==
  ASSUME NEW a, Kept(a), NEW m \in AgentFrames
  PROVE  OutcomeOK(applyReconciliation(a, m))
<1>. DEFINE b == [a EXCEPT !.state = IF a.active = 0 THEN "idle"
                                       ELSE IF m.turn = a.active /\ m.delivery = "inProgress" THEN "working"
                                       ELSE "recovering",
                             !.fence = m.at]
<1>1. a \in AgentRecords /\ StopIsPending(a) /\ m.at \in Fences
  BY DEF Kept, AgentFrames
<1>2. b \in AgentRecords /\ b.ops = a.ops /\ b.pending = a.pending
  BY <1>1 DEF AgentRecords
<1>3. StopIsPending(b)
  BY <1>1, <1>2 DEF StopIsPending
<1>4. applyReconciliation(a, m) \in {Out("ignored", a), Stored(a, b)}
  BY DEF applyReconciliation
<1>. HIDE DEF b
<1>. QED  BY <1>2, <1>3, <1>4, OutKept, StoredKept

LEMMA EventKept ==
  ASSUME NEW a, Kept(a), NEW m \in AgentFrames, m.kind \in {"activity", "terminal"}
  PROVE  OutcomeOK(applyEvent(a, m))
<1>1. a \in AgentRecords /\ StopIsPending(a) /\ m.at \in Fences /\ m.turn \in 0..MaxTurns
  BY DEF Kept, AgentFrames
<1>2. applyEvent(a, m) \in {Out("ignored", a), Out("reconcile", a)}
      \/ /\ a.active = m.turn
         /\ applyEvent(a, m) = Stored(a, IF m.kind = "activity" THEN [a EXCEPT !.fence = m.at] ELSE withTerminal(a, m))
  BY DEF applyEvent
<1>3. StopIsPending([a EXCEPT !.fence = m.at]) /\ [a EXCEPT !.fence = m.at] \in AgentRecords
  BY <1>1 DEF StopIsPending, AgentRecords
<1>4. ASSUME a.active = m.turn PROVE withTerminal(a, m) \in AgentRecords /\ StopIsPending(withTerminal(a, m))
  <2>. DEFINE b == withTerminal(a, m)
  <2>1. b.turns \in [TurnIds -> {"none", "inProgress", "settled"}]
    BY <1>1 DEF withTerminal, AgentRecords
  <2>2. b.ops \in [OpIds -> AgentOps]
    <3>1. b.ops = [o \in OpIds |->
                  IF a.ops[o].kind = "stop" /\ a.ops[o].state = "requested" /\ a.ops[o].turn = m.turn
                  THEN [a.ops[o] EXCEPT !.state = "accepted", !.fence = m.at] ELSE a.ops[o]]
      BY <1>1 DEF withTerminal, AgentRecords
    <3>2. \A o \in OpIds : a.ops[o] \in AgentOps /\ [a.ops[o] EXCEPT !.state = "accepted", !.fence = m.at] \in AgentOps
      <4>1. \A o \in OpIds : a.ops[o] \in AgentOps
        BY <1>1 DEF AgentRecords
      <4>. QED  BY <4>1, <1>1, OpTyped
    <3>. HIDE DEF b
    <3>. QED  BY <3>1, <3>2
  <2>4. b \in AgentRecords
    <3>. DEFINE turns == [a.turns EXCEPT ![m.turn] = "settled"]
                ops == [o \in OpIds |->
                  IF a.ops[o].kind = "stop" /\ a.ops[o].state = "requested" /\ a.ops[o].turn = m.turn
                  THEN [a.ops[o] EXCEPT !.state = "accepted", !.fence = m.at] ELSE a.ops[o]]
    <3>1. b = [a EXCEPT !.state = "idle", !.active = 0, !.pending = 0, !.turns = turns, !.fence = m.at, !.ops = ops]
      BY <1>1 DEF withTerminal, AgentRecords
    <3>2. b.turns = turns /\ b.ops = ops
      BY <1>1, <3>1 DEF AgentRecords
    <3>3. 0 \in 0..MaxTurns
      BY AgentAssumption
    <3>. HIDE DEF b, turns, ops
    <3>. QED  BY <1>1, <2>1, <2>2, <3>1, <3>2, <3>3 DEF AgentRecords
  <2>3. \A o \in OpIds : ~(b.ops[o].kind = "stop" /\ b.ops[o].state = "requested")
    <3>. SUFFICES ASSUME NEW o \in OpIds, b.ops[o].kind = "stop", b.ops[o].state = "requested" PROVE FALSE
      OBVIOUS
    <3>1. /\ a.ops[o].kind = "stop" /\ a.ops[o].state = "requested" /\ a.ops[o].turn # m.turn
          /\ a.ops[o] \in AgentOps
      BY <1>1 DEF withTerminal, AgentRecords, AgentOps
    <3>2. a.pending = o /\ o # 0
      BY <3>1, <1>1 DEF StopIsPending, OpIds
    <3>3. a.ops[a.pending].turn = a.active
      BY <3>2 DEF Kept, Storable
    <3>. QED  BY <3>1, <3>2, <3>3, <1>4
  <2>. QED  BY <2>4, <2>3 DEF StopIsPending
<1>5. CASE a.active = m.turn
  <2>1. OutcomeOK(Stored(a, IF m.kind = "activity" THEN [a EXCEPT !.fence = m.at] ELSE withTerminal(a, m)))
    BY <1>3, <1>4, <1>5, StoredKept
  <2>. QED  BY <1>2, <2>1, OutKept
<1>. QED  BY <1>2, <1>5, OutKept

LEMMA AppliedKept ==
  ASSUME NEW a, Kept(a), NEW m \in AgentFrames
  PROVE  OutcomeOK(applied(a, m))
<1>1. CASE m.kind \in {"activity", "terminal"}
  BY <1>1, EventKept DEF applied
<1>2. CASE m.kind = "accepted"
  BY <1>2, AcceptKept DEF applied
<1>3. CASE m.kind = "rejected"
  BY <1>3, RejectionKept DEF applied
<1>4. CASE m.kind = "reconciled"
  BY <1>4, ReconciliationKept DEF applied
<1>5. CASE m.kind \notin {"activity", "terminal", "accepted", "rejected", "reconciled"}
  BY <1>5, InterruptKept DEF applied
<1>. QED  BY <1>1, <1>2, <1>3, <1>4, <1>5

Sendable(c) == c.op \in Nat /\ c.turn \in 0..MaxTurns

LEMMA LineOf ==
  ASSUME NEW S, \A c \in S : Sendable(c), NEW q \in Seq(S)
  PROVE  Line(q)
<1>1. \A i \in 1..Len(q) : q[i] \in S
  OBVIOUS
<1>2. DOMAIN q = 1..Len(q) /\ Len(q) \in Nat
  OBVIOUS
<1>3. Range(q) \subseteq S
  BY <1>1, <1>2 DEF Range
<1>4. q = [i \in 1..Len(q) |-> q[i]]
  BY <1>2
<1>5. \A i \in 1..Len(q) : q[i] \in Range(q)
  BY <1>2 DEF Range
<1>6. q \in Seq(Range(q))
  BY <1>2, <1>4, <1>5
<1>. QED  BY <1>3, <1>6 DEF Line, Sendable

LEMMA LineAppend == ASSUME NEW q, Line(q), NEW c, Sendable(c) PROVE Line(Append(q, c))
<1>1. q \in Seq(Range(q) \cup {c}) /\ \A x \in Range(q) \cup {c} : Sendable(x)
  BY DEF Line, Sendable
<1>2. Append(q, c) \in Seq(Range(q) \cup {c})
  BY <1>1
<1>. QED  BY <1>1, <1>2, LineOf

LEMMA LineConcat == ASSUME NEW p, Line(p), NEW q, Line(q) PROVE Line(p \o q)
<1>1. p \in Seq(Range(p) \cup Range(q)) /\ q \in Seq(Range(p) \cup Range(q))
  BY DEF Line
<1>2. p \o q \in Seq(Range(p) \cup Range(q)) /\ \A x \in Range(p) \cup Range(q) : Sendable(x)
  BY <1>1 DEF Line, Sendable
<1>. QED  BY <1>2, LineOf

LEMMA LineTail == ASSUME NEW q, Line(q), q # <<>> PROVE Line(Tail(q)) /\ Sendable(Head(q))
<1>1. q \in Seq(Range(q)) /\ \A x \in Range(q) : Sendable(x)
  BY DEF Line, Sendable
<1>2. Tail(q) \in Seq(Range(q)) /\ Head(q) \in Range(q)
  BY <1>1
<1>. QED  BY <1>1, <1>2, LineOf

LEMMA LineEmpty == Line(<<>>)
<1>1. <<>> \in Seq({})
  OBVIOUS
<1>. QED  BY <1>1, LineOf

LEMMA LineOne == ASSUME NEW c, Sendable(c) PROVE Line(<<c>>)
<1>1. <<c>> \in Seq({c}) /\ \A x \in {c} : Sendable(x)
  OBVIOUS
<1>. QED  BY <1>1, LineOf

\* A finite set is put in a line by SetToSeq.
LEMMA SetToSeqIsSeq == ASSUME NEW S, IsFiniteSet(S) PROVE SetToSeq(S) \in Seq(S)
<1>1. Cardinality(S) \in Nat /\ ExistsBijection(1..Cardinality(S), S)
  BY FS_CardinalityType
<1>2. \E f \in [1..Cardinality(S) -> S] : IsInjective(f)
  BY <1>1 DEF ExistsBijection, Bijection, Injection
<1>3. SetToSeq(S) \in [1..Cardinality(S) -> S]
  BY <1>2 DEF SetToSeq
<1>. QED  BY <1>1, <1>3

\* A step of the gateway that replaces one part of the relay's state.
LEMMA GuardSet ==
  ASSUME NEW g, Steady(g), NEW b
  PROVE  Steady([g EXCEPT !.relay.reconciling = b])
BY DEF Steady, RelayShape

LEMMA HeldSet ==
  ASSUME NEW g, Steady(g), NEW held \in SUBSET AgentFrames
  PROVE  Steady([g EXCEPT !.relay.held = held]) /\ [g EXCEPT !.relay.held = held].agent = g.agent
BY DEF Steady, RelayShape

LEMMA DrainingSet ==
  ASSUME NEW g, Steady(g), NEW frames \in Seq(SUBSET AgentFrames)
  PROVE  Steady([g EXCEPT !.relay.draining = frames]) /\ [g EXCEPT !.relay.draining = frames].agent = g.agent
<1>1. RelayShape([g.relay EXCEPT !.draining = frames])
  BY DEF Steady, RelayShape
<1>. QED  BY <1>1 DEF Steady

LEMMA StreamsSet ==
  ASSUME NEW g, Steady(g), NEW streams
  PROVE  Steady([g EXCEPT !.relay.streams = streams]) /\ [g EXCEPT !.relay.streams = streams].agent = g.agent
BY DEF Steady, RelayShape

LEMMA SentSet ==
  ASSUME NEW g, Steady(g), NEW q, Line(q)
  PROVE  Steady([g EXCEPT !.sent = q]) /\ [g EXCEPT !.sent = q].agent = g.agent
BY DEF Steady

LEMMA RequestSteady ==
  ASSUME NEW g, Steady(g), NEW a, Kept(a)
  PROVE  Steady(requestReconciliation(g, a)) /\ requestReconciliation(g, a).agent = g.agent
<1>. DEFINE c == Command("reconcile", 0, a.active, NoFence)
            h == [g EXCEPT !.relay.reconciling = TRUE, !.sent = Append(@, c)]
<1>1. Sendable(c)
  BY DEF Command, Sendable, Kept, AgentRecords
<1>2. Line(Append(g.sent, c))
  BY <1>1, LineAppend DEF Steady
<1>3. ASSUME NEW b PROVE [g EXCEPT !.relay.reconciling = b, !.sent = Append(@, c)]
                         = [[g EXCEPT !.relay.reconciling = b] EXCEPT !.sent = Append(g.sent, c)]
                         /\ [g EXCEPT !.relay.reconciling = b].agent = g.agent
  BY DEF Steady
<1>4. ASSUME NEW b PROVE /\ Steady([g EXCEPT !.relay.reconciling = b, !.sent = Append(@, c)])
                         /\ [g EXCEPT !.relay.reconciling = b, !.sent = Append(@, c)].agent = g.agent
  <2>. HIDE DEF c
  <2>. DEFINE k == [g EXCEPT !.relay.reconciling = b]
  <2>1. Steady(k) /\ k.agent = g.agent
    BY <1>3, GuardSet
  <2>. HIDE DEF k
  <2>2. Steady([k EXCEPT !.sent = Append(g.sent, c)]) /\ [k EXCEPT !.sent = Append(g.sent, c)].agent = g.agent
    BY <1>2, <2>1, SentSet
  <2>. QED  BY <1>3, <2>2 DEF k
<1>5. Steady(h) /\ h.agent = g.agent
  BY <1>4
<1>6. requestReconciliation(g, a) \in {g, h}
  BY DEF requestReconciliation
<1>. HIDE DEF h
<1>. QED  BY <1>5, <1>6

LEMMA AcknowledgeSteady ==
  ASSUME NEW g, Steady(g), NEW s
  PROVE  Steady(acknowledge(g, s)) /\ acknowledge(g, s).agent = g.agent
<1>. DEFINE p == g.relay.streams[s]
            lowest == IF p.undecided = {} THEN p.decided + 1 ELSE Min(p.undecided)
            through == Min({p.decided, lowest - 1})
            c == Command("ack", 0, 0, <<s[1], s[2], through>>)
            streams == [g.relay.streams EXCEPT ![s] = [@ EXCEPT !.through = through]]
            k == [g EXCEPT !.relay.streams = streams]
            h == [k EXCEPT !.sent = Append(g.sent, c)]
<1>1. acknowledge(g, s) \in {g, h}
  <2>1. [g EXCEPT !.relay.streams[s].through = through, !.sent = Append(@, c)] = h
    <3>. HIDE DEF c, through
    <3>. QED  BY DEF Steady, RelayShape
  <2>. HIDE DEF h
  <2>. QED  BY <2>1 DEF acknowledge
<1>2. Sendable(c)
  BY AgentAssumption DEF Command, Sendable
<1>3. Line(Append(g.sent, c))
  <2>. HIDE DEF c
  <2>. QED  BY <1>2, LineAppend DEF Steady
<1>4. Steady(k) /\ k.agent = g.agent
  <2>. HIDE DEF streams
  <2>. QED  BY StreamsSet
<1>5. Steady(h) /\ h.agent = g.agent
  <2>. HIDE DEF k, c
  <2>. QED  BY <1>3, <1>4, SentSet
<1>. HIDE DEF h
<1>. QED  BY <1>1, <1>5

LEMMA AdvanceSteady ==
  ASSUME NEW g, Steady(g), NEW m, NEW hold
  PROVE  Steady(advance(g, m, hold)) /\ advance(g, m, hold).agent = g.agent
<1>. DEFINE s == StreamOf(m.at)
            p == g.relay.streams[s]
            held == [g EXCEPT !.relay.streams[s].undecided = @ \cup {m.at[3]}]
            decided == [g EXCEPT !.relay.streams[s] =
                             [p EXCEPT !.undecided = @ \ {m.at[3]}, !.decided = Max({@, m.at[3]})]]
<1>2. \E streams : held = [g EXCEPT !.relay.streams = streams]
  <2>1. held = [g EXCEPT !.relay.streams = [g.relay.streams EXCEPT ![s] =
                   [g.relay.streams[s] EXCEPT !.undecided = g.relay.streams[s].undecided \cup {m.at[3]}]]]
    BY DEF Steady, RelayShape
  <2>. QED  BY <2>1
<1>3. \E streams : decided = [g EXCEPT !.relay.streams = streams]
  <2>1. decided = [g EXCEPT !.relay.streams = [g.relay.streams EXCEPT ![s] =
                         [p EXCEPT !.undecided = @ \ {m.at[3]}, !.decided = Max({@, m.at[3]})]]]
    BY DEF Steady, RelayShape
  <2>. QED  BY <2>1
<1>4. Steady(held) /\ held.agent = g.agent
  <2>. HIDE DEF held
  <2>. QED  BY <1>2, StreamsSet
<1>5. Steady(decided) /\ decided.agent = g.agent
  <2>. HIDE DEF decided
  <2>. QED  BY <1>3, StreamsSet
<1>6. Steady(acknowledge(decided, s)) /\ acknowledge(decided, s).agent = g.agent
  <2>. HIDE DEF decided, s
  <2>. QED  BY <1>5, AcknowledgeSteady
<1>7. advance(g, m, hold) = IF hold THEN held ELSE acknowledge(decided, s)
  BY DEF advance
<1>. HIDE DEF held, decided, s
<1>. QED  BY <1>4, <1>6, <1>7

LEMMA DeferSteady ==
  ASSUME NEW g, Steady(g), NEW m \in AgentFrames
  PROVE  Steady(defer(g, m)) /\ defer(g, m).agent = g.agent
<1>. DEFINE held == g.relay.held \cup {m}
            h == [g EXCEPT !.relay.held = held]
<1>1. held \in SUBSET AgentFrames
  BY DEF Steady, RelayShape
<1>2. [g EXCEPT !.relay.held = @ \cup {m}] = h
  BY DEF Steady, RelayShape
<1>3. Steady(h) /\ h.agent = g.agent
  <2>. HIDE DEF held
  <2>. QED  BY <1>1, HeldSet
<1>4. defer(g, m) \in {g, h}
  BY <1>2 DEF defer
<1>. HIDE DEF h
<1>. QED  BY <1>3, <1>4

LEMMA SettleSteady ==
  ASSUME NEW g, Steady(g), NEW m \in AgentFrames, NEW out, OutcomeOK(out)
  PROVE  Steady(settle(g, m, out))
<1>. DEFINE next == [g EXCEPT !.agent = out.agent]
            repairable == out.is = "failed" \/ (out.is = "reconcile" /\ isAskable(out.about))
            held == IF repairable THEN defer(next, m) ELSE next
            asked == IF repairable /\ out.is = "reconcile" THEN requestReconciliation(held, out.about) ELSE held
<1>1. Steady(next)
  BY DEF Steady, OutcomeOK
<1>. HIDE DEF next
<1>2. Steady(held)
  BY <1>1, DeferSteady
<1>. HIDE DEF held
<1>3. Steady(asked)
  BY <1>2, RequestSteady DEF OutcomeOK
<1>4. settle(g, m, out) = IF m.kind = "rejected" THEN asked ELSE advance(asked, m, repairable)
  BY DEF settle, asked, held, next
<1>. HIDE DEF asked
<1>. QED  BY <1>3, <1>4, AdvanceSteady

LEMMA ReleaseSteady ==
  ASSUME NEW g, Steady(g)
  PROVE  Steady(releaseStreams(g))
<1>. DEFINE old == g.relay.streams
            due == {s \in Streams : old[s].decided > old[s].through}
            acks == {Command("ack", 0, 0, <<s[1], s[2], old[s].decided>>) : s \in due}
            streams == [s \in Streams |-> [old[s] EXCEPT !.undecided = {}, !.through = Max({@, old[s].decided})]]
            k == [g EXCEPT !.relay.streams = streams]
            h == [k EXCEPT !.sent = g.sent \o SetToSeq(acks)]
<1>1. releaseStreams(g) = h
  <2>1. ASSUME NEW t, NEW q PROVE [g EXCEPT !.relay.streams = t, !.sent = @ \o q]
                                  = [[g EXCEPT !.relay.streams = t] EXCEPT !.sent = g.sent \o q]
    BY DEF Steady
  <2>. QED  BY <2>1 DEF releaseStreams
<1>2. IsFiniteSet(acks)
  <2>. DEFINE f == [s \in due |-> Command("ack", 0, 0, <<s[1], s[2], old[s].decided>>)]
  <2>1. IsFiniteSet(Streams)
    <3>. DEFINE A == 1..2
                B == 1..MaxChildren
    <3>1. IsFiniteSet(A) /\ IsFiniteSet(B)
      <4>1. 1 \in Int /\ 2 \in Int /\ MaxChildren \in Int
        BY AgentAssumption
      <4>. QED  BY <4>1, FS_Interval, Zenon
    <3>2. Streams = A \X B
      BY DEF Streams
    <3>. HIDE DEF A, B
    <3>3. IsFiniteSet(A \X B)
      BY <3>1, FS_Product, Zenon
    <3>. QED  BY <3>2, <3>3
  <2>2. IsFiniteSet(due)
    BY <2>1, FS_Subset
  <2>3. f \in Surjection(due, acks)
    BY DEF Surjection
  <2>. QED  BY <2>2, <2>3, FS_Surjection
<1>3. \A c \in acks : Sendable(c)
  BY AgentAssumption DEF Command, Sendable
<1>4. Line(SetToSeq(acks))
  <2>. HIDE DEF acks
  <2>. QED  BY <1>2, <1>3, SetToSeqIsSeq, LineOf
<1>5. Line(g.sent \o SetToSeq(acks))
  <2>. HIDE DEF acks
  <2>. QED  BY <1>4, LineConcat DEF Steady
<1>6. Steady(k)
  <2>. HIDE DEF streams
  <2>. QED  BY StreamsSet
<1>7. Steady(h)
  <2>. HIDE DEF k, acks
  <2>. QED  BY <1>5, <1>6, SentSet
<1>. HIDE DEF h
<1>. QED  BY <1>1, <1>7

LEMMA DrainSteady ==
  ASSUME NEW g, Steady(g)
  PROVE  Steady(drainDeferred(g))
<1>. DEFINE frames == <<g.relay.held>> \o g.relay.draining
            emptied == [g EXCEPT !.relay.held = {}]
            h == [emptied EXCEPT !.relay.draining = frames]
<1>1. frames \in Seq(SUBSET AgentFrames) /\ {} \in SUBSET AgentFrames
  BY DEF Steady, RelayShape
<1>2. Steady(emptied) /\ emptied.relay.draining = g.relay.draining
  <2>1. emptied.relay.draining = g.relay.draining
    BY DEF Steady, RelayShape
  <2>. QED  BY <1>1, <2>1, HeldSet
<1>3. Steady(h)
  <2>. HIDE DEF frames, emptied
  <2>. QED  BY <1>1, <1>2, DrainingSet
<1>4. [emptied EXCEPT !.relay.draining = <<g.relay.held>> \o @] = h
  <2>. HIDE DEF emptied
  <2>. QED  BY <1>2
<1>5. drainDeferred(g) = releaseStreams(h)
  BY <1>4 DEF drainDeferred
<1>. HIDE DEF h
<1>. QED  BY <1>3, <1>5, ReleaseSteady

LEMMA ClearSteady == ASSUME NEW g, Steady(g) PROVE Steady([g EXCEPT !.relay.reconciling = FALSE])
BY GuardSet

LEMMA ReduceSteady ==
  ASSUME NEW g, Steady(g), NEW m \in AgentFrames
  PROVE  Steady(reduceFrame(g, m))
<1>. DEFINE out == applied(g.agent, m)
            next == settle(g, m, out)
            cleared == [next EXCEPT !.relay.reconciling = FALSE]
<1>1. OutcomeOK(out)
  BY AppliedKept DEF Steady
<1>2. Steady(next)
  BY <1>1, SettleSteady
<1>3. Steady(cleared)
  <2>. HIDE DEF next
  <2>. QED  BY <1>2, ClearSteady
<1>4. Steady(drainDeferred(cleared))
  <2>. HIDE DEF cleared
  <2>. QED  BY <1>3, DrainSteady
<1>5. reduceFrame(g, m) \in {next, cleared, drainDeferred(cleared)}
  BY DEF reduceFrame
<1>. HIDE DEF next, cleared
<1>. QED  BY <1>2, <1>3, <1>4, <1>5

LEMMA HelloSteady == ASSUME NEW g, Steady(g) PROVE Steady(onHello(g))
<1>. DEFINE cleared == [g EXCEPT !.relay.reconciling = FALSE]
<1>1. Steady(cleared)
  BY ClearSteady
<1>2. Steady(requestReconciliation(cleared, g.agent))
  <2>. HIDE DEF cleared
  <2>. QED  BY <1>1, RequestSteady DEF Steady
<1>3. onHello(g) \in {cleared, requestReconciliation(cleared, g.agent)}
  BY DEF onHello
<1>. HIDE DEF cleared
<1>. QED  BY <1>1, <1>2, <1>3

LEMMA FrameTyped ==
  ASSUME NEW kind \in {"hello", "activity", "accepted", "rejected", "interruptResult", "interruptFailed", "reconciled"},
         NEW op \in Nat, NEW turn \in 0..MaxTurns, NEW t \in TurnIds,
         NEW delivery \in {"none", "started", "steered", "inProgress", "settled"}
  PROVE  Frame(kind, op, turn, delivery, NoFence) \in AgentFrames /\ Frame("terminal", 0, t, "none", NoFence) \in AgentFrames
BY DEF Frame, AgentFrames, Fences, NoFence, TurnIds

\* Frames with fences of their own have one order.
LEMMA InOrderIsSeq ==
  ASSUME NEW S \in SUBSET AgentFrames, IsFiniteSet(S), \A m, n \in S : m.at = n.at => m = n
  PROVE  InOrder(S) \in Seq(S)
<1>. DEFINE P(m) == {n \in S : Before(n, m)}
            N == Cardinality(S)
            rank == [m \in S |-> Cardinality(P(m))]
<1>1. N \in Nat
  BY FS_CardinalityType
<1>2. \A m \in S : m.at \in Fences
  BY DEF AgentFrames
<1>3. \A m, n \in S : m # n => Before(m, n) \/ Before(n, m)
  BY <1>2 DEF Before, Fences
<1>4. \A m \in S : ~Before(m, m)
  BY <1>2 DEF Before, Fences
<1>5. \A k, m, n \in S : Before(k, m) /\ Before(m, n) => Before(k, n)
  BY <1>2 DEF Before, Fences
<1>6. \A m \in S : P(m) \in SUBSET S /\ IsFiniteSet(P(m)) /\ Cardinality(P(m)) \in Nat
  BY FS_Subset, FS_CardinalityType
<1>7. \A m \in S : Cardinality(P(m)) \in 0..(N - 1)
  <2>. SUFFICES ASSUME NEW m \in S PROVE Cardinality(P(m)) \in 0..(N - 1)
    OBVIOUS
  <2>1. P(m) # S
    BY <1>4
  <2>2. Cardinality(P(m)) <= N /\ Cardinality(P(m)) # N
    <3>. HIDE DEF P
    <3>. QED  BY <1>6, <2>1, FS_Subset
  <2>. HIDE DEF P, N
  <2>. QED  BY <1>1, <1>6, <2>2
<1>8. \A m, n \in S : Before(m, n) => Cardinality(P(m)) # Cardinality(P(n))
  <2>. SUFFICES ASSUME NEW m \in S, NEW n \in S, Before(m, n) PROVE Cardinality(P(m)) # Cardinality(P(n))
    OBVIOUS
  <2>1. P(m) \in SUBSET P(n) /\ P(m) # P(n)
    BY <1>4, <1>5
  <2>2. IsFiniteSet(P(n))
    BY <1>6
  <2>. HIDE DEF P
  <2>. QED  BY <2>1, <2>2, FS_Subset
<1>9. rank \in Injection(S, 0..(N - 1))
  <2>1. rank \in [S -> 0..(N - 1)]
    BY <1>7
  <2>2. \A m, n \in S : m # n => rank[m] # rank[n]
    BY <1>3, <1>8
  <2>. HIDE DEF rank
  <2>. QED  BY <2>1, <2>2 DEF Injection, IsInjective
<1>10. IsFiniteSet(0..(N - 1)) /\ Cardinality(0..(N - 1)) = N
  <2>1. 0 \in Int /\ N - 1 \in Int
    BY <1>1
  <2>2. IsFiniteSet(0..(N - 1)) /\ Cardinality(0..(N - 1)) = IF 0 > N - 1 THEN 0 ELSE (N - 1) - 0 + 1
    <3>. HIDE DEF N
    <3>. QED  BY <2>1, FS_Interval
  <2>. HIDE DEF N
  <2>. QED  BY <1>1, <2>2
<1>11. rank \in Surjection(S, 0..(N - 1))
  <2>. HIDE DEF rank
  <2>. QED  BY <1>9, <1>10, FS_Injection
<1>12. \A i \in 0..(N - 1) : \E m \in S : Cardinality(P(m)) = i
  BY <1>11 DEF Surjection
<1>13. \A i \in 1..N : \E m \in S : Cardinality(P(m)) = i - 1
  <2>. HIDE DEF P, N
  <2>. QED  BY <1>1, <1>12
<1>14. InOrder(S) = [i \in 1..N |-> CHOOSE m \in S : Cardinality(P(m)) = i - 1]
  BY DEF InOrder
<1>15. InOrder(S) \in [1..N -> S]
  <2>. HIDE DEF P, N
  <2>. QED  BY <1>13, <1>14
<1>. HIDE DEF N
<1>. QED  BY <1>1, <1>15

LEMMA HereSteady == ASSUME AgentInv PROVE Steady(Here) /\ Here.agent = agent
BY LineEmpty DEF AgentInv, Here, Steady

LEMMA GatewaySteady ==
  ASSUME AgentInv, NEW g, Steady(g), Gateway(g)
  PROVE  Kept(agent') /\ RelayShape(agentRelay') /\ Line(agentDown')
<1>1. Line(agentDown \o g.sent)
  BY LineConcat DEF AgentInv, Steady
<1>. QED  BY <1>1 DEF Gateway, Steady, AgentInv

LEMMA BeginKeeps ==
  ASSUME AgentInv, NEW next \in AgentRecords, StopIsPending(next), NEW commands, Line(commands),
         Begin(next, commands)
  PROVE  AgentInv'
<1>. DEFINE g == [agent |-> next, relay |-> agentRelay, sent |-> commands]
<1>1. Kept(next)
  BY DEF Begin, Kept
<1>3. Steady(g)
  BY <1>1 DEF Steady, AgentInv
<1>4. Gateway(g)
  BY DEF Begin
<1>5. Kept(agent') /\ RelayShape(agentRelay') /\ Line(agentDown')
  <2>. HIDE DEF g
  <2>. QED  BY <1>3, <1>4, GatewaySteady
<1>. QED  BY <1>5 DEF Begin, GatewayOnly, AgentInv

LEMMA IntentShape ==
  ASSUME AgentInv, NEW o \in OpIds, NEW kind \in {"message", "stop"}, NEW state \in {"requested", "accepted"},
         NEW turn \in 0..MaxTurns, NEW pending \in Nat,
         kind = "stop" /\ state = "requested" => pending = o, agent.pending = 0
  PROVE  LET b == [agent EXCEPT !.ops[o] = Intent(kind, state, turn), !.pending = pending]
         IN  b \in AgentRecords /\ StopIsPending(b)
<1>. DEFINE op == Intent(kind, state, turn)
            ops == [agent.ops EXCEPT ![o] = op]
            b == [agent EXCEPT !.ops[o] = op, !.pending = pending]
<1>1. agent \in AgentRecords /\ StopIsPending(agent) /\ agent.ops \in [OpIds -> AgentOps]
  BY DEF AgentInv, Kept, AgentRecords
<1>2. op \in AgentOps /\ op.kind = kind /\ op.state = state
  BY <1>1, AgentAssumption DEF Intent, NoOp, AgentOps, AgentRecords, Fences, NoFence
<1>. HIDE DEF op
<1>3. ops \in [OpIds -> AgentOps]
  BY <1>1, <1>2
<1>4. b = [agent EXCEPT !.ops = ops, !.pending = pending]
  BY <1>1 DEF AgentRecords
<1>5. ops[o] = op /\ \A p \in OpIds : p # o => ops[p] = agent.ops[p]
  BY <1>1
<1>. HIDE DEF ops
<1>6. [agent EXCEPT !.ops = ops, !.pending = pending] \in AgentRecords
      /\ [agent EXCEPT !.ops = ops, !.pending = pending].ops = ops
      /\ [agent EXCEPT !.ops = ops, !.pending = pending].pending = pending
  BY <1>1, <1>3 DEF AgentRecords
<1>7. \A p \in OpIds : p # 0
  BY DEF OpIds
<1>8. StopIsPending(b)
  <2>. SUFFICES ASSUME NEW p \in OpIds, ops[p].kind = "stop", ops[p].state = "requested" PROVE pending = p
    BY <1>4, <1>6 DEF StopIsPending
  <2>. QED  BY <1>1, <1>2, <1>5, <1>7 DEF StopIsPending
<1>. QED  BY <1>4, <1>6, <1>8 DEF op

LEMMA BoundSet ==
  ASSUME NEW d, DaemonShape(d), NEW bound \in SUBSET (0..MaxTurns), NEW published \in SUBSET (0..MaxTurns)
  PROVE  /\ DaemonShape([d EXCEPT !.bound = bound]) /\ DaemonShape([d EXCEPT !.published = published])
         /\ DaemonShape([d EXCEPT !.bound = bound, !.published = published])
<1>1. ASSUME NEW e \in DaemonRecords, e.outbox = d.outbox, e.inst = d.inst, e.child = d.child, e.nextEvent = d.nextEvent
      PROVE  DaemonShape(e)
  BY <1>1 DEF DaemonShape
<1>2. /\ [d EXCEPT !.bound = bound] \in DaemonRecords
      /\ [d EXCEPT !.published = published] \in DaemonRecords
      /\ [d EXCEPT !.bound = bound, !.published = published] \in DaemonRecords
  BY DEF DaemonShape, DaemonRecords
<1>3. ASSUME NEW e \in {[d EXCEPT !.bound = bound], [d EXCEPT !.published = published],
                        [d EXCEPT !.bound = bound, !.published = published]}
      PROVE  e.outbox = d.outbox /\ e.inst = d.inst /\ e.child = d.child /\ e.nextEvent = d.nextEvent
  BY <1>3 DEF DaemonShape, DaemonRecords
<1>. QED  BY <1>1, <1>2, <1>3

LEMMA SessionShape ==
  ASSUME NEW inst \in Nat, NEW child \in Nat, NEW serving \in BOOLEAN, NEW outbox \in SUBSET AgentFrames
  PROVE  /\ Session(inst, child, serving, outbox) \in DaemonRecords
         /\ Session(inst, child, serving, outbox).outbox = outbox /\ Session(inst, child, serving, outbox).inst = inst
         /\ Session(inst, child, serving, outbox).child = child /\ Session(inst, child, serving, outbox).nextEvent = 0
BY DEF Session, DaemonRecords

LEMMA AcquireShape == ASSUME DaemonShape(daemon) PROVE DaemonShape(acquireSession)
<1>1. CASE daemon.serving
  BY <1>1 DEF acquireSession
<1>2. CASE ~daemon.serving
  <2>. DEFINE e == Session(daemon.inst, daemon.child + 1, TRUE, daemon.outbox)
  <2>1. daemon.inst \in Nat /\ daemon.child \in Nat /\ daemon.outbox \in SUBSET AgentFrames
    BY DEF DaemonShape, DaemonRecords
  <2>2. /\ e \in DaemonRecords
        /\ e.outbox = daemon.outbox /\ e.inst = daemon.inst /\ e.child = daemon.child + 1 /\ e.nextEvent = 0
    <3>1. daemon.child + 1 \in Nat
      BY <2>1
    <3>. QED  BY <2>1, <3>1 DEF Session, DaemonRecords
  <2>3. acquireSession = e
    BY <1>2 DEF acquireSession
  <2>. HIDE DEF e
  <2>4. \A m \in daemon.outbox : m.at \in Fences /\ m.at[1] = daemon.inst /\ m.at[2] <= daemon.child
    BY DEF DaemonShape, DaemonRecords, AgentFrames
  <2>5. \A m \in e.outbox : m.at[1] = e.inst /\ m.at[2] <= e.child /\ m.at[2] # e.child
    BY <2>1, <2>2, <2>4 DEF Fences
  <2>. QED  BY <2>2, <2>3, <2>5 DEF DaemonShape
<1>. QED  BY <1>1, <1>2

\* Frames that are published get fences of their own.
LEMMA PublishKeeps ==
  ASSUME agentUp \in Seq(AgentFrames), NEW d, DaemonShape(d), NEW frames \in Seq(AgentFrames), publish(d, frames)
  PROVE  DaemonShape(daemon') /\ agentUp' \in Seq(AgentFrames)
<1>. DEFINE n == Len(frames)
            at(i) == <<d.inst, d.child, d.nextEvent + i - 1>>
            stamped == [i \in DOMAIN frames |-> [frames[i] EXCEPT !.at = <<d.inst, d.child, d.nextEvent + i - 1>>]]
            new == {m \in Range(stamped) : Reliable(m)}
            e == [d EXCEPT !.nextEvent = @ + n, !.outbox = @ \cup new]
<1>1. d.inst \in Nat /\ d.child \in Nat /\ d.nextEvent \in Nat /\ n \in Nat /\ DOMAIN frames = 1..n
      /\ (\A i \in 1..n : frames[i] \in AgentFrames) /\ d \in DaemonRecords
  BY DEF DaemonShape, DaemonRecords
<1>2. \A i \in 1..n : at(i) \in Fences
  BY <1>1 DEF Fences
<1>3. \A i \in 1..n : stamped[i] \in AgentFrames /\ stamped[i].at = at(i)
  <2>1. \A m \in AgentFrames, f \in Fences : [m EXCEPT !.at = f] \in AgentFrames /\ [m EXCEPT !.at = f].at = f
    BY DEF AgentFrames
  <2>2. \A i \in 1..n : stamped[i] = [frames[i] EXCEPT !.at = at(i)]
    BY <1>1
  <2>. SUFFICES ASSUME NEW i \in 1..n PROVE stamped[i] \in AgentFrames /\ stamped[i].at = at(i)
    OBVIOUS
  <2>3. frames[i] \in AgentFrames /\ at(i) \in Fences /\ stamped[i] = [frames[i] EXCEPT !.at = at(i)]
    BY <1>1, <1>2, <2>2
  <2>. HIDE DEF stamped, at
  <2>. QED  BY <2>1, <2>3
<1>4. DOMAIN stamped = 1..n
  BY <1>1
<1>5. stamped \in Seq(AgentFrames)
  <2>1. stamped \in [1..n -> AgentFrames]
    <3>1. stamped = [i \in 1..n |-> stamped[i]]
      BY <1>4
    <3>. HIDE DEF stamped
    <3>. QED  BY <1>3, <3>1
  <2>. HIDE DEF stamped
  <2>. QED  BY <1>1, <2>1
<1>6. Range(stamped) = {stamped[i] : i \in 1..n} /\ Range(stamped) \in SUBSET AgentFrames
  <2>. HIDE DEF stamped
  <2>. QED  BY <1>3, <1>4 DEF Range
<1>7. IsFiniteSet(Range(stamped))
  <2>1. IsFiniteSet(1..n)
    <3>1. 1 \in Int /\ n \in Int
      BY <1>1
    <3>. HIDE DEF n
    <3>. QED  BY <3>1, FS_Interval, Zenon
  <2>2. stamped \in Surjection(1..n, Range(stamped))
    <3>1. stamped \in [1..n -> Range(stamped)]
      <4>1. stamped = [i \in 1..n |-> stamped[i]]
        BY <1>4
      <4>. HIDE DEF stamped
      <4>. QED  BY <1>6, <4>1
    <3>. HIDE DEF stamped
    <3>. QED  BY <1>6, <3>1 DEF Surjection
  <2>. HIDE DEF stamped, n
  <2>. QED  BY <2>1, <2>2, FS_Surjection
<1>8. new \in SUBSET AgentFrames /\ IsFiniteSet(new)
      /\ \A m \in new : \E i \in 1..n : m = stamped[i]
  <2>. HIDE DEF stamped
  <2>. QED  BY <1>6, <1>7, FS_Subset
<1>9. /\ e \in DaemonRecords
      /\ e.outbox = d.outbox \cup new /\ e.inst = d.inst /\ e.child = d.child /\ e.nextEvent = d.nextEvent + n
  <2>1. d.nextEvent + n \in Nat /\ d.outbox \cup new \in SUBSET AgentFrames
    BY <1>1, <1>8 DEF DaemonRecords
  <2>. HIDE DEF new, n
  <2>. QED  BY <1>1, <2>1 DEF DaemonRecords
<1>10. IsFiniteSet(e.outbox)
  <2>1. IsFiniteSet(d.outbox)
    BY DEF DaemonShape
  <2>2. IsFiniteSet(new) /\ e.outbox = d.outbox \cup new
    BY <1>8, <1>9
  <2>. HIDE DEF new, e
  <2>3. IsFiniteSet(d.outbox \cup new)
    BY <2>1, <2>2, FS_Union, Zenon
  <2>. QED  BY <2>2, <2>3
<1>11. \A m \in new : m.at[1] = d.inst /\ m.at[2] = d.child /\ m.at[3] >= d.nextEvent /\ m.at[3] < d.nextEvent + n
  <2>. SUFFICES ASSUME NEW m \in new
                PROVE  m.at[1] = d.inst /\ m.at[2] = d.child /\ m.at[3] >= d.nextEvent /\ m.at[3] < d.nextEvent + n
    OBVIOUS
  <2>. HIDE DEF new
  <2>3. PICK i \in 1..n : m = stamped[i]
    BY <1>8
  <2>1. stamped[i].at = <<d.inst, d.child, d.nextEvent + i - 1>>
    BY <1>3
  <2>2. d.nextEvent + i - 1 >= d.nextEvent /\ d.nextEvent + i - 1 < d.nextEvent + n
    BY <1>1
  <2>. HIDE DEF stamped, n
  <2>. QED  BY <2>1, <2>2, <2>3
<1>12. \A m, k \in new : m.at = k.at => m = k
  <2>. SUFFICES ASSUME NEW m \in new, NEW k \in new, m.at = k.at PROVE m = k
    OBVIOUS
  <2>. HIDE DEF new
  <2>3. PICK i \in 1..n : m = stamped[i]
    BY <1>8
  <2>4. PICK j \in 1..n : k = stamped[j]
    BY <1>8
  <2>1. at(i) = at(j)
    <3>. HIDE DEF stamped
    <3>. QED  BY <1>3, <2>3, <2>4
  <2>2. i = j
    BY <2>1, <1>1
  <2>. HIDE DEF stamped
  <2>. QED  BY <2>2, <2>3, <2>4
<1>13. \A m \in d.outbox : m.at[1] = d.inst /\ m.at[2] <= d.child /\ (m.at[2] = d.child => m.at[3] < d.nextEvent)
                           /\ m.at \in Fences
  BY DEF DaemonShape, DaemonRecords, AgentFrames
<1>14. \A m \in d.outbox, k \in new : m.at # k.at
  <2>. HIDE DEF new
  <2>. QED  BY <1>1, <1>11, <1>13 DEF Fences
<1>15. \A m, k \in e.outbox : m.at = k.at => m = k
  <2>. HIDE DEF new, e
  <2>. QED  BY <1>9, <1>12, <1>14 DEF DaemonShape
<1>16. \A m \in e.outbox : m.at[1] = e.inst /\ m.at[2] <= e.child /\ (m.at[2] = e.child => m.at[3] < e.nextEvent)
  <2>. SUFFICES ASSUME NEW m \in e.outbox
                PROVE  m.at[1] = e.inst /\ m.at[2] <= e.child /\ (m.at[2] = e.child => m.at[3] < e.nextEvent)
    OBVIOUS
  <2>. HIDE DEF new, e, n
  <2>1. CASE m \in new
    BY <2>1, <1>1, <1>9, <1>11
  <2>2. CASE m \in d.outbox
    BY <2>2, <1>1, <1>9, <1>13 DEF Fences
  <2>. QED  BY <2>1, <2>2, <1>9
<1>17. DaemonShape(e)
  <2>. HIDE DEF e
  <2>. QED  BY <1>9, <1>10, <1>15, <1>16 DEF DaemonShape
<1>18. daemon' = e /\ agentUp' \in {agentUp \o stamped, agentUp}
  BY DEF publish
<1>19. agentUp \o stamped \in Seq(AgentFrames)
  <2>. HIDE DEF stamped
  <2>. QED  BY <1>5
<1>. HIDE DEF e, stamped
<1>. QED  BY <1>17, <1>18, <1>19

LEMMA StartKeeps == ASSUME AgentInv, beginStart PROVE AgentInv'
<1>. DEFINE op == [NoOp EXCEPT !.kind = "start", !.state = "requested", !.preState = "creating"]
            ops == [agent.ops EXCEPT ![1] = op]
            next == [agent EXCEPT !.state = "creating", !.ops = ops]
<1>1. agent = NoAgent /\ agent \in AgentRecords /\ agent.ops \in [OpIds -> AgentOps]
  BY DEF beginStart, AgentInv, Kept, AgentRecords
<1>2. op \in AgentOps /\ op.kind = "start"
  <2>1. NoOp \in AgentOps
    BY AgentAssumption DEF NoOp, AgentOps, Fences, NoFence
  <2>. QED  BY <2>1 DEF AgentOps
<1>. HIDE DEF op
<1>3. ops \in [OpIds -> AgentOps]
  BY <1>1, <1>2
<1>4. \A o \in OpIds : ops[o].kind # "stop"
  BY <1>1, <1>2 DEF NoAgent, NoOp
<1>. HIDE DEF ops
<1>5. next \in AgentRecords /\ next.ops = ops
  BY <1>1, <1>3 DEF AgentRecords
<1>6. StopIsPending(next)
  BY <1>4, <1>5 DEF StopIsPending
<1>7. Line(<<Command("start", 1, 0, NoFence)>>)
  BY LineOne, AgentAssumption DEF Command, Sendable
<1>8. Begin(next, <<Command("start", 1, 0, NoFence)>>)
  BY <1>1 DEF beginStart, ops, op, AgentRecords
<1>. HIDE DEF next
<1>. QED  BY <1>5, <1>6, <1>7, <1>8, BeginKeeps

LEMMA MessageKeeps == ASSUME AgentInv, beginMessage PROVE AgentInv'
<1>1. PICK o \in OpIds : /\ Ready
                         /\ Begin([agent EXCEPT !.ops[o] = Intent("message", "requested", 0)],
                                  <<Command("message", o, agent.active, NoFence)>>)
  BY DEF beginMessage
<1>. DEFINE op == Intent("message", "requested", 0)
            next == [agent EXCEPT !.ops[o] = op, !.pending = 0]
<1>2. agent \in AgentRecords /\ agent.pending = 0 /\ agent.active \in 0..MaxTurns /\ o \in Nat /\ 0 \in 0..MaxTurns
  BY <1>1, AgentAssumption DEF AgentInv, Kept, Ready, AgentRecords, OpIds
<1>3. next \in AgentRecords /\ StopIsPending(next)
  <2>1. 0 \in Nat /\ "message" \in {"message", "stop"} /\ "requested" \in {"requested", "accepted"} /\ "message" # "stop"
    OBVIOUS
  <2>. QED  BY <1>2, <2>1, IntentShape, Zenon
<1>4. [agent EXCEPT !.ops[o] = op] = next
  <2>. HIDE DEF op
  <2>. QED  BY <1>2 DEF AgentRecords
<1>5. Line(<<Command("message", o, agent.active, NoFence)>>)
  BY <1>2, LineOne DEF Command, Sendable
<1>6. Begin(next, <<Command("message", o, agent.active, NoFence)>>)
  BY <1>1, <1>4
<1>. HIDE DEF next
<1>. QED  BY <1>3, <1>5, <1>6, BeginKeeps

LEMMA StopKeeps == ASSUME AgentInv, beginStop PROVE AgentInv'
<1>1. PICK o \in OpIds :
        /\ Ready
        /\ IF agent.state = "idle"
           THEN Begin([agent EXCEPT !.ops[o] = Intent("stop", "accepted", 0)], <<>>)
           ELSE Begin([agent EXCEPT !.ops[o] = Intent("stop", "requested", agent.active), !.pending = o],
                      <<Command("interrupt", o, agent.active, NoFence)>>)
  BY DEF beginStop
<1>2. agent \in AgentRecords /\ agent.pending = 0 /\ agent.active \in 0..MaxTurns /\ o \in Nat /\ 0 \in 0..MaxTurns
  BY <1>1, AgentAssumption DEF AgentInv, Kept, Ready, AgentRecords, OpIds
<1>3. CASE agent.state = "idle"
  <2>. DEFINE op == Intent("stop", "accepted", 0)
              next == [agent EXCEPT !.ops[o] = op, !.pending = 0]
  <2>1. next \in AgentRecords /\ StopIsPending(next)
    <3>1. 0 \in Nat /\ "stop" \in {"message", "stop"} /\ "accepted" \in {"requested", "accepted"} /\ "accepted" # "requested"
      OBVIOUS
    <3>. QED  BY <1>2, <3>1, IntentShape, Zenon
  <2>2. [agent EXCEPT !.ops[o] = op] = next
    <3>. HIDE DEF op
    <3>. QED  BY <1>2 DEF AgentRecords
  <2>3. Begin(next, <<>>)
    BY <1>1, <1>3, <2>2
  <2>. HIDE DEF next
  <2>. QED  BY <2>1, <2>3, LineEmpty, BeginKeeps
<1>4. CASE agent.state # "idle"
  <2>. DEFINE next == [agent EXCEPT !.ops[o] = Intent("stop", "requested", agent.active), !.pending = o]
              c == Command("interrupt", o, agent.active, NoFence)
  <2>1. next \in AgentRecords /\ StopIsPending(next)
    BY <1>2, IntentShape
  <2>2. Line(<<c>>)
    BY <1>2, LineOne DEF Command, Sendable
  <2>3. Begin(next, <<c>>)
    BY <1>1, <1>4
  <2>. HIDE DEF next, c
  <2>. QED  BY <2>1, <2>2, <2>3, BeginKeeps
<1>. QED  BY <1>3, <1>4

LEMMA AbandonKeeps == ASSUME AgentInv, abandonDelivery PROVE AgentInv'
<1>1. PICK o \in OpIds : Begin(refuseDelivery(agent, o), <<>>)
  BY DEF abandonDelivery
<1>2. refuseDelivery(agent, o) \in AgentRecords /\ StopIsPending(refuseDelivery(agent, o))
  BY RefuseShape DEF AgentInv
<1>. QED  BY <1>1, <1>2, LineEmpty, BeginKeeps

LEMMA StaleKeeps == ASSUME AgentInv, reconcileStale PROVE AgentInv'
<1>. DEFINE g == requestReconciliation(Here, agent)
<1>1. Steady(g)
  BY HereSteady, RequestSteady DEF AgentInv
<1>2. Gateway(g) /\ GatewayOnly
  BY DEF reconcileStale
<1>. HIDE DEF g
<1>3. Kept(agent') /\ RelayShape(agentRelay') /\ Line(agentDown')
  BY <1>1, <1>2, GatewaySteady
<1>. QED  BY <1>2, <1>3 DEF GatewayOnly, AgentInv

LEMMA LapseKeeps == ASSUME AgentInv, GuardLapses PROVE AgentInv'
<1>1. ASSUME NEW b PROVE RelayShape([agentRelay EXCEPT !.reconciling = b])
  BY DEF AgentInv, RelayShape
<1>. QED  BY <1>1 DEF GuardLapses, AgentInv

LEMMA ArrivesKeeps == ASSUME AgentInv, FrameArrives PROVE AgentInv'
<1>. DEFINE m == Head(agentUp)
            g == IF m.kind = "hello" THEN onHello(Here) ELSE reduceFrame(Here, m)
<1>1. m \in AgentFrames /\ Tail(agentUp) \in Seq(AgentFrames)
  BY DEF FrameArrives, AgentInv
<1>2. Steady(g)
  BY <1>1, HereSteady, HelloSteady, ReduceSteady
<1>3. Gateway(g) /\ agentUp' = Tail(agentUp) /\ UNCHANGED daemon
  BY DEF FrameArrives
<1>. HIDE DEF g
<1>4. Kept(agent') /\ RelayShape(agentRelay') /\ Line(agentDown')
  BY <1>2, <1>3, GatewaySteady
<1>. QED  BY <1>1, <1>3, <1>4 DEF AgentInv

LEMMA DrainKeeps == ASSUME AgentInv, Drain PROVE AgentInv'
<1>. DEFINE frames == Head(agentRelay.draining)
            rest == Tail(agentRelay.draining)
<1>1. frames \in SUBSET AgentFrames /\ rest \in Seq(SUBSET AgentFrames)
  BY DEF Drain, AgentInv, RelayShape
<1>2. \E g : Steady(g) /\ Gateway(g)
  <2>1. CASE frames = {} /\ Gateway([Here EXCEPT !.relay.draining = rest])
    <3>1. Steady([Here EXCEPT !.relay.draining = rest])
      <4>. HIDE DEF rest
      <4>. QED  BY <1>1, HereSteady, DrainingSet
    <3>. QED  BY <2>1, <3>1
  <2>2. ASSUME NEW m \in frames,
               Gateway(reduceFrame([Here EXCEPT !.relay.draining = <<frames \ {m}>> \o rest], m))
        PROVE  \E g : Steady(g) /\ Gateway(g)
    <3>. DEFINE left == <<frames \ {m}>> \o rest
                h == [Here EXCEPT !.relay.draining = left]
    <3>1. left \in Seq(SUBSET AgentFrames) /\ m \in AgentFrames
      <4>. HIDE DEF frames, rest
      <4>1. m \in AgentFrames /\ frames \ {m} \in SUBSET AgentFrames
        BY <1>1
      <4>2. <<frames \ {m}>> \in Seq(SUBSET AgentFrames)
        BY <4>1
      <4>. QED  BY <1>1, <4>1, <4>2
    <3>2. Steady(h)
      <4>. HIDE DEF left
      <4>. QED  BY <3>1, HereSteady, DrainingSet
    <3>3. Steady(reduceFrame(h, m))
      <4>. HIDE DEF h
      <4>. QED  BY <3>1, <3>2, ReduceSteady
    <3>. QED  BY <2>2, <3>3
  <2>. QED  BY <2>1, <2>2 DEF Drain
<1>3. Kept(agent') /\ RelayShape(agentRelay') /\ Line(agentDown')
  BY <1>2, GatewaySteady
<1>. QED  BY <1>3 DEF Drain, GatewayOnly, AgentInv

LEMMA CommitFailsKeeps == ASSUME AgentInv, CommitFails PROVE AgentInv'
<1>. DEFINE m == Head(agentUp)
            out == Out("reconcile", agent)
            about == applied(agent, m).agent
            about2 == [out EXCEPT !.about = about]
            given == IF m.kind = "accepted" THEN out ELSE about2
            next == settle(Here, m, given)
            g == IF m.kind = "reconciled" THEN [next EXCEPT !.relay.reconciling = FALSE] ELSE next
<1>1. m \in AgentFrames /\ Tail(agentUp) \in Seq(AgentFrames)
  BY DEF CommitFails, AgentInv
<1>2. OutcomeOK(out)
  BY OutKept DEF AgentInv
<1>3. OutcomeOK(about2)
  <2>1. Kept(about)
    BY <1>1, AppliedKept DEF AgentInv, OutcomeOK
  <2>. HIDE DEF about
  <2>. QED  BY <2>1 DEF AgentInv, Out, OutcomeOK
<1>4. OutcomeOK(given)
  <2>. HIDE DEF out, about2
  <2>. QED  BY <1>2, <1>3
<1>5. Steady(next)
  <2>. HIDE DEF given
  <2>. QED  BY <1>1, <1>4, HereSteady, SettleSteady
<1>6. Steady(g)
  <2>. HIDE DEF next
  <2>. QED  BY <1>5, ClearSteady
<1>7. Gateway(g) /\ agentUp' = Tail(agentUp) /\ UNCHANGED daemon
  BY DEF CommitFails
<1>. HIDE DEF g
<1>8. Kept(agent') /\ RelayShape(agentRelay') /\ Line(agentDown')
  BY <1>6, <1>7, GatewaySteady
<1>. QED  BY <1>1, <1>7, <1>8 DEF AgentInv

\* Where the record and the relay are left alone.
LEMMA DaemonSideKeeps ==
  ASSUME AgentInv, UNCHANGED <<agent, agentRelay>>, DaemonShape(daemon'), agentUp' \in Seq(AgentFrames), Line(agentDown')
  PROVE  AgentInv'
BY DEF AgentInv

LEMMA OneFrame == ASSUME NEW m \in AgentFrames PROVE <<m>> \in Seq(AgentFrames)
OBVIOUS

LEMMA RunPromptShape ==
  ASSUME AgentInv, NEW c, Sendable(c), runPrompt(c)
  PROVE  DaemonShape(daemon') /\ agentUp' \in Seq(AgentFrames)
<1>1. PICK t \in TurnIds : publish([acquireSession EXCEPT !.bound = @ \cup {t}],
                                   <<Frame("accepted", c.op, t, "started", NoFence)>>)
  BY DEF runPrompt
<1>. DEFINE d == acquireSession
            bound == d.bound \cup {t}
            m == Frame("accepted", c.op, t, "started", NoFence)
            e == [d EXCEPT !.bound = bound]
<1>2. DaemonShape(d)
  BY AcquireShape DEF AgentInv
<1>. HIDE DEF d
<1>3. bound \in SUBSET (0..MaxTurns) /\ {} \in SUBSET (0..MaxTurns)
  BY <1>2 DEF DaemonShape, DaemonRecords, TurnIds
<1>4. [d EXCEPT !.bound = @ \cup {t}] = e
  BY <1>2 DEF DaemonShape, DaemonRecords
<1>5. DaemonShape(e)
  <2>. HIDE DEF bound
  <2>. QED  BY <1>2, <1>3, BoundSet
<1>6. m \in AgentFrames
  BY FrameTyped, AgentAssumption DEF Sendable, TurnIds
<1>7. publish(e, <<m>>)
  BY <1>1, <1>4 DEF d
<1>. HIDE DEF e, m
<1>. QED  BY <1>5, <1>6, <1>7, OneFrame, PublishKeeps DEF AgentInv

LEMMA RunPromptEarlyShape ==
  ASSUME AgentInv, NEW c, Sendable(c), runPromptEarly(c)
  PROVE  DaemonShape(daemon') /\ agentUp' \in Seq(AgentFrames)
<1>1. PICK t \in TurnIds :
        publish([acquireSession EXCEPT !.published = @ \cup {t}],
                <<Frame("terminal", 0, t, "none", NoFence), Frame("accepted", c.op, t, "started", NoFence)>>)
  BY DEF runPromptEarly
<1>. DEFINE d == acquireSession
            published == d.published \cup {t}
            m == Frame("terminal", 0, t, "none", NoFence)
            n == Frame("accepted", c.op, t, "started", NoFence)
            e == [d EXCEPT !.published = published]
<1>2. DaemonShape(d)
  BY AcquireShape DEF AgentInv
<1>. HIDE DEF d
<1>3. published \in SUBSET (0..MaxTurns) /\ {} \in SUBSET (0..MaxTurns)
  BY <1>2 DEF DaemonShape, DaemonRecords, TurnIds
<1>4. [d EXCEPT !.published = @ \cup {t}] = e
  BY <1>2 DEF DaemonShape, DaemonRecords
<1>5. DaemonShape(e)
  <2>. HIDE DEF published
  <2>. QED  BY <1>2, <1>3, BoundSet
<1>6. m \in AgentFrames /\ n \in AgentFrames
  BY FrameTyped, AgentAssumption DEF Sendable, TurnIds
<1>7. publish(e, <<m, n>>)
  BY <1>1, <1>4 DEF d
<1>. HIDE DEF e, m, n
<1>8. <<m, n>> \in Seq(AgentFrames)
  BY <1>6
<1>. QED  BY <1>5, <1>7, <1>8, PublishKeeps DEF AgentInv

LEMMA RunMessageShape ==
  ASSUME AgentInv, NEW c, Sendable(c), runMessage(c)
  PROVE  DaemonShape(daemon') /\ agentUp' \in Seq(AgentFrames)
<1>. DEFINE m == Frame("accepted", c.op, c.turn, "steered", NoFence)
<1>1. CASE publish(daemon, <<m>>)
  <2>1. m \in AgentFrames
    BY FrameTyped, AgentAssumption DEF Sendable, TurnIds
  <2>. HIDE DEF m
  <2>. QED  BY <1>1, <2>1, OneFrame, PublishKeeps DEF AgentInv
<1>. QED  BY <1>1, RunPromptShape, RunPromptEarlyShape DEF runMessage

LEMMA RunInterruptShape ==
  ASSUME AgentInv, NEW c, Sendable(c), runInterrupt(c)
  PROVE  DaemonShape(daemon') /\ agentUp' \in Seq(AgentFrames)
<1>. DEFINE m == Frame(IF c.turn \in Running THEN "interruptResult" ELSE "interruptFailed", c.op, c.turn, "none", NoFence)
            d == acquireSession
<1>1. m \in AgentFrames
  BY FrameTyped, AgentAssumption DEF Sendable, TurnIds
<1>2. DaemonShape(d)
  BY AcquireShape DEF AgentInv
<1>3. publish(d, <<m>>)
  BY DEF runInterrupt
<1>. HIDE DEF m, d
<1>. QED  BY <1>1, <1>2, <1>3, OneFrame, PublishKeeps DEF AgentInv

LEMMA RunReconcileShape ==
  ASSUME AgentInv, NEW c, Sendable(c), runReconcile(c)
  PROVE  DaemonShape(daemon') /\ agentUp' \in Seq(AgentFrames)
<1>1. PICK seen \in {"none", "inProgress", "settled"} :
        /\ Observe(c.turn, seen)
        /\ publish([acquireSession EXCEPT
                        !.bound = CASE seen = "inProgress" -> @ \cup {c.turn}
                                    [] seen = "settled" -> @ \ {c.turn}
                                    [] OTHER -> @,
                        !.published = IF seen = "settled" THEN @ \cup {c.turn} ELSE @],
                   answers(acquireSession, c.turn, seen))
  BY DEF runReconcile
<1>. DEFINE d == acquireSession
            bound == CASE seen = "inProgress" -> d.bound \cup {c.turn}
                       [] seen = "settled" -> d.bound \ {c.turn}
                       [] OTHER -> d.bound
            published == IF seen = "settled" THEN d.published \cup {c.turn} ELSE d.published
            e == [d EXCEPT !.bound = bound, !.published = published]
            frames == answers(d, c.turn, seen)
<1>2. DaemonShape(d)
  BY AcquireShape DEF AgentInv
<1>3. publish([d EXCEPT !.bound = CASE seen = "inProgress" -> @ \cup {c.turn}
                                    [] seen = "settled" -> @ \ {c.turn}
                                    [] OTHER -> @,
                        !.published = IF seen = "settled" THEN @ \cup {c.turn} ELSE @], frames)
  BY <1>1
<1>4. c.op \in Nat /\ c.turn \in 0..MaxTurns /\ (seen = "settled" => c.turn \in TurnIds)
  BY <1>1 DEF Sendable, Observe, TurnIds
<1>. HIDE DEF d
<1>5. bound \in SUBSET (0..MaxTurns) /\ published \in SUBSET (0..MaxTurns)
  BY <1>2, <1>4 DEF DaemonShape, DaemonRecords
<1>6. [d EXCEPT !.bound = CASE seen = "inProgress" -> @ \cup {c.turn}
                            [] seen = "settled" -> @ \ {c.turn}
                            [] OTHER -> @,
                !.published = IF seen = "settled" THEN @ \cup {c.turn} ELSE @] = e
  <2>1. ASSUME NEW b PROVE [d EXCEPT !.bound = b].published = d.published
    BY <1>2 DEF DaemonShape, DaemonRecords
  <2>. QED  BY <2>1, <1>2 DEF DaemonShape, DaemonRecords
<1>7. DaemonShape(e)
  <2>. HIDE DEF bound, published
  <2>. QED  BY <1>2, <1>5, BoundSet
<1>8. frames \in Seq(AgentFrames)
  <2>. DEFINE m == Frame("reconciled", 0, c.turn, seen, NoFence)
              n == Frame("terminal", 0, c.turn, "none", NoFence)
  <2>1. m \in AgentFrames /\ (seen = "settled" => n \in AgentFrames)
    BY <1>4, FrameTyped, AgentAssumption DEF TurnIds
  <2>2. frames = <<m>> \o <<>> \/ (seen = "settled" /\ frames = <<m>> \o <<n>>)
    BY DEF answers
  <2>. HIDE DEF m, n, frames
  <2>3. CASE frames = <<m>> \o <<>>
    BY <2>1, <2>3
  <2>4. CASE seen = "settled" /\ frames = <<m>> \o <<n>>
    <3>1. <<m>> \in Seq(AgentFrames) /\ <<n>> \in Seq(AgentFrames)
      BY <2>1, <2>4
    <3>. QED  BY <3>1, <2>4
  <2>. QED  BY <2>2, <2>3, <2>4
<1>. HIDE DEF e, frames
<1>. QED  BY <1>3, <1>6, <1>7, <1>8, PublishKeeps DEF AgentInv, e

LEMMA CommandKeeps == ASSUME AgentInv, CommandArrives PROVE AgentInv'
<1>. DEFINE c == Head(agentDown)
<1>1. Sendable(c) /\ Line(agentDown')
  BY LineTail DEF CommandArrives, AgentInv
<1>2. DaemonShape(daemon') /\ agentUp' \in Seq(AgentFrames)
  <2>1. CASE acknowledgeOutbox(c)
    <3>. DEFINE left == {m \in daemon.outbox : ~(m.at[2] = c.at[2] /\ m.at[3] <= c.at[3])}
                e == [daemon EXCEPT !.outbox = left]
    <3>1. left \subseteq daemon.outbox /\ IsFiniteSet(daemon.outbox)
      BY DEF AgentInv, DaemonShape
    <3>2. daemon' = e /\ UNCHANGED agentUp
      BY <2>1 DEF acknowledgeOutbox, AgentInv, DaemonShape, DaemonRecords
    <3>. HIDE DEF left
    <3>3. IsFiniteSet(left)
      BY <3>1, FS_Subset
    <3>4. /\ e \in DaemonRecords
          /\ e.outbox = left /\ e.inst = daemon.inst /\ e.child = daemon.child /\ e.nextEvent = daemon.nextEvent
      BY <3>1 DEF AgentInv, DaemonShape, DaemonRecords
    <3>. HIDE DEF e
    <3>5. DaemonShape(e)
      BY <3>1, <3>3, <3>4 DEF AgentInv, DaemonShape
    <3>. QED  BY <3>2, <3>5 DEF AgentInv
  <2>2. CASE reject(c)
    <3>1. Frame("rejected", c.op, 0, "none", NoFence) \in AgentFrames
      BY <1>1, FrameTyped, AgentAssumption DEF Sendable, TurnIds
    <3>. QED  BY <2>2, <3>1 DEF reject, AgentInv
  <2>. HIDE DEF c
  <2>3. CASE runPrompt(c) \/ runPromptEarly(c)
    BY <2>3, <1>1, RunPromptShape, RunPromptEarlyShape
  <2>4. CASE runMessage(c) \/ runInterrupt(c) \/ runReconcile(c)
    BY <2>4, <1>1, RunMessageShape, RunInterruptShape, RunReconcileShape
  <2>. QED  BY <2>1, <2>2, <2>3, <2>4 DEF CommandArrives, c
<1>. QED  BY <1>1, <1>2, DaemonSideKeeps DEF CommandArrives

LEMMA CommentaryKeeps == ASSUME AgentInv, onCommentary PROVE AgentInv'
<1>1. PICK t \in TurnIds : publish(daemon, <<Frame("activity", 0, t, "none", NoFence)>>)
  BY DEF onCommentary, Running
<1>. DEFINE m == Frame("activity", 0, t, "none", NoFence)
<1>2. m \in AgentFrames
  BY FrameTyped, AgentAssumption DEF TurnIds
<1>3. publish(daemon, <<m>>)
  BY <1>1
<1>. HIDE DEF m
<1>4. DaemonShape(daemon') /\ agentUp' \in Seq(AgentFrames)
  BY <1>2, <1>3, OneFrame, PublishKeeps DEF AgentInv
<1>. QED  BY <1>4, DaemonSideKeeps DEF onCommentary, DaemonOnly, AgentInv

LEMMA TerminalKeeps == ASSUME AgentInv, publishTerminal PROVE AgentInv'
<1>1. PICK t \in TurnIds : publish([daemon EXCEPT !.bound = @ \ {t}, !.published = @ \cup {t}],
                                   <<Frame("terminal", 0, t, "none", NoFence)>>)
  BY DEF publishTerminal, Running
<1>. DEFINE m == Frame("terminal", 0, t, "none", NoFence)
            bound == daemon.bound \ {t}
            published == daemon.published \cup {t}
            e == [daemon EXCEPT !.bound = bound, !.published = published]
<1>2. m \in AgentFrames
  BY FrameTyped, AgentAssumption DEF TurnIds
<1>3. bound \in SUBSET (0..MaxTurns) /\ published \in SUBSET (0..MaxTurns)
  BY DEF AgentInv, DaemonShape, DaemonRecords, TurnIds
<1>4. DaemonShape(e)
  <2>. HIDE DEF bound, published
  <2>. QED  BY <1>3, BoundSet DEF AgentInv
<1>5. publish(e, <<m>>)
  <2>1. ASSUME NEW b PROVE [daemon EXCEPT !.bound = b].published = daemon.published
    BY DEF AgentInv, DaemonShape, DaemonRecords
  <2>2. [daemon EXCEPT !.bound = @ \ {t}, !.published = @ \cup {t}] = e
    BY <2>1 DEF AgentInv, DaemonShape, DaemonRecords
  <2>. QED  BY <1>1, <2>2
<1>. HIDE DEF m, e
<1>6. DaemonShape(daemon') /\ agentUp' \in Seq(AgentFrames)
  BY <1>2, <1>4, <1>5, OneFrame, PublishKeeps DEF AgentInv
<1>. QED  BY <1>6, DaemonSideKeeps DEF publishTerminal, DaemonOnly, AgentInv

LEMMA ReleaseKeeps == ASSUME AgentInv, release PROVE AgentInv'
<1>. DEFINE e == [daemon EXCEPT !.serving = FALSE]
<1>1. /\ e \in DaemonRecords
      /\ e.outbox = daemon.outbox /\ e.inst = daemon.inst /\ e.child = daemon.child /\ e.nextEvent = daemon.nextEvent
  BY DEF AgentInv, DaemonShape, DaemonRecords
<1>2. daemon' = e
  BY DEF release
<1>. HIDE DEF e
<1>3. DaemonShape(daemon')
  BY <1>1, <1>2 DEF AgentInv, DaemonShape
<1>. QED  BY <1>3, DaemonSideKeeps DEF release, DaemonOnly, AgentInv

LEMMA CutsKeep ==
  ASSUME AgentInv, SocketDrops \/ GatewayStops \/ DaemonStops \/ connect
  PROVE  AgentInv'
<1>1. CASE SocketDrops
  BY <1>1, LineEmpty, DaemonSideKeeps DEF SocketDrops, Cut, AgentInv
<1>2. CASE GatewayStops
  <2>1. RelayShape(NewRelay)
    BY DEF RelayShape, NewRelay
  <2>. QED  BY <1>2, <2>1, LineEmpty DEF GatewayStops, Cut, AgentInv
<1>3. CASE DaemonStops
  <2>. DEFINE e == Session(daemon.inst + 1, 0, FALSE, {})
  <2>1. e \in DaemonRecords /\ e.outbox = {}
    <3>1. daemon.inst + 1 \in Nat
      BY DEF AgentInv, DaemonShape, DaemonRecords
    <3>. QED  BY <3>1 DEF Session, DaemonRecords
  <2>2. daemon' = e
    BY <1>3 DEF DaemonStops
  <2>. HIDE DEF e
  <2>3. DaemonShape(daemon')
    BY <2>1, <2>2, FS_EmptySet DEF DaemonShape
  <2>. QED  BY <1>3, <2>3, LineEmpty, DaemonSideKeeps DEF DaemonStops, Cut
<1>4. CASE connect
  <2>. DEFINE m == Frame("hello", 0, 0, "none", NoFence)
              q == InOrder(daemon.outbox)
  <2>1. m \in AgentFrames
    BY FrameTyped, AgentAssumption DEF TurnIds
  <2>2. q \in Seq(AgentFrames)
    <3>1. q \in Seq(daemon.outbox) /\ daemon.outbox \in SUBSET AgentFrames
      BY InOrderIsSeq DEF AgentInv, DaemonShape, DaemonRecords
    <3>. HIDE DEF q
    <3>. QED  BY <3>1
  <2>3. agentUp' = <<m>> \o q
    BY <1>4 DEF connect
  <2>. HIDE DEF m, q
  <2>4. agentUp' \in Seq(AgentFrames)
    BY <2>1, <2>2, <2>3
  <2>. QED  BY <1>4, <2>4, DaemonSideKeeps DEF connect, AgentInv
<1>. QED  BY <1>1, <1>2, <1>3, <1>4

LEMMA AgentInvInit == ASSUME AgentInit PROVE AgentInv
<1>1. NoOp \in AgentOps /\ NoOp.turn = 0 /\ NoOp.preTurn = 0
  BY AgentAssumption DEF NoOp, AgentOps, Fences, NoFence
<1>2. NoAgent \in AgentRecords
  BY <1>1, AgentAssumption DEF NoAgent, AgentRecords, Fences, NoFence
<1>3. Turns(NoAgent) = {} /\ InProgress(NoAgent) = {}
  BY DEF NoAgent, Turns, InProgress
<1>4. ~codexAgentHistoryIssues(NoAgent)
  BY <1>3 DEF codexAgentHistoryIssues, agentTurnHistoryIssues, NoAgent, NoOp, IsPrompt
<1>5. \A o \in OpIds : OperationStorable(NoAgent, NoAgent.ops[o])
  BY DEF OperationStorable, NoAgent, NoOp, NotPast, NoFence
<1>6. ~HasNativeHistory(NoAgent)
  BY <1>3 DEF HasNativeHistory, NoAgent, NoOp, IsPrompt
<1>7. Storable(NoAgent)
  BY <1>4, <1>5, <1>6 DEF Storable, NoAgent, NoFence
<1>8. StopIsPending(NoAgent)
  BY DEF StopIsPending, NoAgent, NoOp
<1>9. RelayShape(NewRelay)
  BY DEF RelayShape, NewRelay
<1>10. DaemonShape(Session(1, 0, FALSE, {}))
  <2>. DEFINE e == Session(1, 0, FALSE, {})
  <2>1. e \in DaemonRecords /\ e.outbox = {}
    BY DEF Session, DaemonRecords
  <2>2. ASSUME NEW d \in DaemonRecords, d.outbox = {} PROVE DaemonShape(d)
    BY <2>2, FS_EmptySet DEF DaemonShape
  <2>. QED  BY <2>1, <2>2, Zenon
<1>11. Kept(agent) /\ agentRelay = NewRelay /\ daemon = Session(1, 0, FALSE, {}) /\ agentUp = <<>> /\ agentDown = <<>>
  BY <1>2, <1>7, <1>8 DEF AgentInit, Kept
<1>12. agentUp \in Seq(AgentFrames)
  BY <1>11
<1>. QED  BY <1>9, <1>10, <1>11, <1>12, LineEmpty DEF AgentInv

\* What a record waits for is named by it, and a frame that comes can be placed.
LEMMA AgentInvSuffices == ASSUME AgentInv PROVE FramesPlaceable /\ StopAwaited
<1>1. FramesAround \subseteq AgentFrames
  <2>1. Range(agentUp) \subseteq AgentFrames
    BY DEF AgentInv, Range
  <2>2. UNION Range(agentRelay.draining) \subseteq AgentFrames
    BY DEF AgentInv, RelayShape, Range
  <2>. QED  BY <2>1, <2>2 DEF FramesAround, AgentInv, RelayShape, DaemonShape, DaemonRecords
<1>2. FramesPlaceable
  BY <1>1, TerminalPlaceable DEF FramesPlaceable, AgentInv, Kept
<1>. QED  BY <1>2 DEF StopAwaited, AgentInv, Kept, StopIsPending

\* No frame on its way, kept, held or put again is refused by the schema of the
\* record (codexAgentApply.applyEvent), and an open interrupt is the one the record
\* names (codexAgentReducers.withTerminal).
THEOREM FramesSettle == AgentSpec => [](FramesPlaceable /\ StopAwaited)
<1>1. ASSUME AgentInv, [AgentNext]_agentVars PROVE AgentInv'
  <2>1. CASE UNCHANGED agentVars
    BY <1>1, <2>1 DEF agentVars, AgentInv, Kept, RelayShape, DaemonShape, Line
  <2>. QED  BY <1>1, <2>1, StartKeeps, MessageKeeps, StopKeeps, AbandonKeeps, StaleKeeps, LapseKeeps, ArrivesKeeps,
                DrainKeeps, CommitFailsKeeps, CommandKeeps, CommentaryKeeps, TerminalKeeps, ReleaseKeeps, CutsKeep
            DEF AgentNext
<1>. QED  BY <1>1, AgentInvInit, AgentInvSuffices, PTL DEF AgentSpec
=============================================================================
