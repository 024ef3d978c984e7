----------------------------- MODULE ContentKeys -----------------------------
(***************************************************************************)
(* How a gateway gets the content keys its rows are sealed under. A row    *)
(* whose key is missing is parked and acked as waking without custody      *)
(* (inboxDeliveryPump.ts); the key is asked for, again and again for a day *)
(* (keyRequester.ts), through the Router's inbox (keyDeliveryService.ts);  *)
(* a phone grants it (KeyDeliveryOps.kt), once per window; the grant is    *)
(* installed (contentKeyStore.ts), receipted, and the parked rows are      *)
(* delivered again. Claims are on disk, parked rows in memory. There is    *)
(* one row per epoch.                                                      *)
(***************************************************************************)
EXTENDS Naturals, FiniteSets

CONSTANTS
    Epochs,
    OpEpochs,       \* epochs whose row is a console op
    MaxGrants,      \* bound: grants made
    MaxStops        \* bound: restarts of the gateway

\* Epochs count from 1 (content-envelope.ts).
ASSUME EpochsAssumption == 0 \notin Epochs

VARIABLES
    keysHeld,   \* contentKeyStore: epochs installed
    wanted,     \* keyRequester: epochs asked for
    keyTimer,   \* none, now or later
    sending,    \* epochs of the request being sent, or NotSending
    keyDirty,
    expired,    \* epochs given up after a day
    waiting,    \* epochs whose row is parked
    claim,      \* rows claimed
    parking,    \* rows whose waking ack is under way
    granting,   \* grants installed whose receipt is under way
    atRouter,   \* row -> pending, landed or lost
    requested,  \* epochs in key_request rows of the owner's inbox
    grants,     \* epochs in key_grant rows of the gateway's inbox
    recentGrants, \* the phone's claims: epochs granted within the window
    granted, stops,
    stranded    \* history: rows whose parking claim outlived their parking

keyVars == <<keysHeld, wanted, keyTimer, sending, keyDirty, expired, waiting, claim, parking, granting, atRouter,
             requested, grants, recentGrants, granted, stops, stranded>>
requesterVars == <<wanted, keyTimer, sending, keyDirty, expired>>

NotSending == {0}
isSending == sending # NotSending

-----------------------------------------------------------------------------
(* keyRequester.ts *)

\* armImmediate, over the epochs that are wanted
ArmedNow(left) == IF left = {} THEN "none" ELSE "now"

\* Mutant: a request made while one is being sent is dropped.
requestWhenIdle(e) ==
    /\ wanted' = IF isSending THEN wanted ELSE wanted \cup {e}
    /\ keyTimer' = IF isSending THEN keyTimer ELSE "now"
    /\ UNCHANGED keyDirty

request(e) ==
    IF e \in wanted THEN UNCHANGED <<wanted, keyTimer, keyDirty>>
    ELSE /\ wanted' = wanted \cup {e}
         /\ keyDirty' = (keyDirty \/ isSending)
         /\ keyTimer' = IF isSending THEN keyTimer ELSE "now"

send ==
    /\ keyTimer # "none" /\ ~isSending
    /\ \E old \in SUBSET wanted :
         /\ expired' = expired \cup old
         /\ wanted' = wanted \ old
         /\ sending' = wanted'
    /\ keyTimer' = "none"
    /\ UNCHANGED <<keysHeld, keyDirty, waiting, claim, parking, granting, atRouter, requested, grants, recentGrants,
                   granted, stops, stranded>>

\* The Router appends the request, or the call fails; the next one is armed.
SendDone ==
    /\ isSending
    /\ \E taken \in {sending, {}} : requested' = requested \cup taken
    /\ sending' = NotSending /\ keyDirty' = FALSE
    /\ keyTimer' = CASE wanted = {} -> keyTimer
                  [] keyTimer # "none" -> keyTimer
                  [] OTHER -> IF keyDirty THEN "now" ELSE "later"
    /\ UNCHANGED <<keysHeld, wanted, expired, waiting, claim, parking, granting, atRouter, grants, recentGrants,
                   granted, stops, stranded>>

installed(e) ==
    /\ wanted' = wanted \ {e}
    /\ keyTimer' = IF wanted' = {} THEN "none" ELSE keyTimer

-----------------------------------------------------------------------------
(* The Router's inboxes and the phone *)

\* The request row reaches the phone: it grants unless it did so of late, and
\* takes its claim back when the grant is not taken.
onKeyRequest(e) ==
    /\ e \in requested
    /\ requested' = requested \ {e}
    /\ \/ e \in recentGrants /\ UNCHANGED <<grants, recentGrants, granted>>
       \/ /\ e \notin recentGrants /\ granted < MaxGrants
          /\ grants' = grants \cup {e} /\ recentGrants' = recentGrants \cup {e}
          /\ granted' = granted + 1
       \/ e \notin recentGrants /\ UNCHANGED <<grants, recentGrants, granted>>
    /\ UNCHANGED <<keysHeld, requesterVars, waiting, claim, parking, granting, atRouter, stops, stranded>>

GrantWindowPasses(e) ==
    /\ e \in recentGrants
    /\ recentGrants' = recentGrants \ {e}
    /\ UNCHANGED <<keysHeld, requesterVars, waiting, claim, parking, granting, atRouter, requested, grants,
                   granted, stops, stranded>>

-----------------------------------------------------------------------------
(* The delivery pump *)

\* deliverRow of a row with its key: landed. One that is claimed is acked as it was,
\* and a console op found in custody is answered as lost.
Redelivered(e) ==
    IF e \in claim
    THEN /\ atRouter' = IF e \in OpEpochs THEN [atRouter EXCEPT ![e] = "lost"] ELSE atRouter
         /\ stranded' = stranded \cup {e}
         /\ UNCHANGED claim
    ELSE /\ atRouter' = [atRouter EXCEPT ![e] = "landed"]
         /\ UNCHANGED <<claim, stranded>>

\* The Router offers the row: at its append and after each registration.
deliverRow(e) ==
    /\ atRouter[e] \in {"new", "again"}
    /\ \/ /\ e \in claim \/ e \in keysHeld
          /\ Redelivered(e)
          /\ UNCHANGED <<wanted, keyTimer, keyDirty, waiting, parking>>
       \/ /\ e \notin claim /\ e \notin keysHeld
          /\ atRouter' = [atRouter EXCEPT ![e] = "pending"]
          /\ claim' = claim \cup {e}
          /\ waiting' = waiting \cup {e}
          /\ parking' = parking \cup {e}
          /\ request(e)
          /\ UNCHANGED stranded
    /\ UNCHANGED <<keysHeld, sending, expired, granting, requested, grants, recentGrants, granted, stops>>

\* The waking ack is answered, or failed: without custody the claim goes.
ParkingAcked(e) ==
    /\ e \in parking
    /\ parking' = parking \ {e}
    /\ claim' = claim \ {e}
    /\ UNCHANGED <<keysHeld, requesterVars, waiting, granting, atRouter, requested, grants, recentGrants,
                   granted, stops, stranded>>

\* A grant row lands: the key is installed and its receipt sent.
landGrant(e) ==
    /\ e \in grants
    /\ grants' = grants \ {e}
    /\ keysHeld' = keysHeld \cup {e}
    /\ granting' = granting \cup {e}
    /\ UNCHANGED <<requesterVars, waiting, claim, parking, atRouter, requested, recentGrants, granted, stops,
                   stranded>>

retryWaiting(e) ==
    IF e \in waiting
    THEN waiting' = waiting \ {e} /\ Redelivered(e)
    ELSE UNCHANGED <<waiting, atRouter, claim, stranded>>

\* The receipt is answered or fails: the rows that wait for the key are delivered.
GrantReceipted(e) ==
    /\ e \in granting
    /\ granting' = granting \ {e}
    /\ installed(e)
    /\ retryWaiting(e)
    /\ UNCHANGED <<keysHeld, sending, keyDirty, expired, parking, requested, grants, recentGrants, granted, stops>>

\* The gateway registers again: pending rows are offered once more, and epochs
\* below the oldest key that is held are asked for.
Reregister ==
    LET below == {e \in Epochs \ keysHeld : \A h \in keysHeld : e < h}
    IN /\ \E e \in Epochs : atRouter[e] = "pending"
       /\ stops < MaxStops /\ stops' = stops + 1
       /\ atRouter' = [e \in Epochs |-> IF atRouter[e] = "pending" THEN "again" ELSE atRouter[e]]
       /\ \/ \* the process stays
             /\ wanted' = wanted \cup below
             /\ keyTimer' = IF below \subseteq wanted \/ isSending THEN keyTimer ELSE "now"
             /\ keyDirty' = (keyDirty \/ (isSending /\ ~(below \subseteq wanted)))
             /\ UNCHANGED <<sending, waiting, parking, granting, grants, expired, stranded>>
          \/ \* it restarts: grants not settled come again
             /\ wanted' = below
             /\ keyTimer' = ArmedNow(below)
             /\ sending' = NotSending /\ keyDirty' = FALSE /\ expired' = {}
             /\ waiting' = {} /\ parking' = {} /\ granting' = {}
             /\ grants' = grants \cup granting
             /\ stranded' = stranded \cup parking
       /\ UNCHANGED <<keysHeld, claim, requested, recentGrants, granted>>

KeyInit ==
    /\ keysHeld = {} /\ wanted = {} /\ keyTimer = "none" /\ sending = NotSending /\ keyDirty = FALSE
    /\ expired = {} /\ waiting = {} /\ claim = {} /\ parking = {} /\ granting = {}
    /\ atRouter = [e \in Epochs |-> "new"]
    /\ requested = {} /\ grants = {} /\ recentGrants = {} /\ granted = 0 /\ stops = 0 /\ stranded = {}

KeyNext ==
    \/ send \/ SendDone \/ Reregister
    \/ \E e \in Epochs : \/ deliverRow(e) \/ ParkingAcked(e) \/ landGrant(e) \/ GrantReceipted(e)
                         \/ onKeyRequest(e) \/ GrantWindowPasses(e)

KeySpec == KeyInit /\ [][KeyNext]_keyVars

-----------------------------------------------------------------------------
(* Properties *)

\* An epoch that is asked for is asked for again: a timer runs or a request is
\* being sent, until the key arrives or a day has passed.
RequestsGoOn == wanted # {} => keyTimer # "none" \/ isSending

\* A parked row waits for something: its epoch is asked for or was given up, or
\* the key is here and the rows are about to be delivered.
ParkedAwaited == \A e \in waiting : e \in wanted \cup expired \cup granting

\* A row whose key is held has landed, unless its own parking claim, still being
\* acked when the key came or the gateway stopped, stood in its way.
KeyedRowsLand ==
    \A e \in keysHeld \ granting : atRouter[e] \in {"landed", "lost", "new", "again"} \/ e \in stranded

\* A row that came before its key is neither forgotten while the key is asked for
\* nor left lying once it is here (contentKeyRequests.ts, inboxDeliveryPump.ts).
KeysLandRows == RequestsGoOn /\ ParkedAwaited /\ KeyedRowsLand
=============================================================================
