------------------------------ MODULE Crosstalk ------------------------------
(***************************************************************************)
(* One conversation between a session and a session of another gateway:    *)
(* sends (routesSend.ts), the job each gateway keeps for it                *)
(* (pending-job-store.ts), replies relayed back with retries               *)
(* (routesRespond.ts, relay.ts, gatewayRelay.ts). Within a Domain a call   *)
(* goes through the Router to the other gateway and its answer comes back  *)
(* (relayRouter.ts); between Domains it is a row in the target's inbox,    *)
(* kept once per operation id, that the delivery pump lands later. Calls   *)
(* time out while they are still under way. Jobs are saved every few       *)
(* seconds; a gateway that stops loses what is newer. A gateway behind its *)
(* migration fence does nothing with what it is sent, and answers as if it *)
(* had (gatewayRelay.ts:107).                                              *)
(***************************************************************************)
EXTENDS Naturals, FiniteSets

CONSTANTS
    MaxSends,       \* bound: messages sent in the conversation
    MaxReplies,     \* bound: replies given
    MaxAttempts     \* maxAttempts of relayWithRetry

ASSUME RepliesAssumption == MaxReplies \in Nat /\ MaxAttempts \in Nat

VARIABLES
    cross,      \* the two gateways are of different Domains
    linked,     \* the link between the Domains stands
    askJob,     \* the asker's anchor: NoJob or the last reply it holds
    askSaved,   \* its saved copy
    tgtJob,     \* the target gateway holds the job
    tgtSaved,
    relays,     \* calls under way: [kind, n, stage, waiting]
    ledger,     \* <<kind, n>> the Router accepted as rows
    inboxRows,  \* rows not landed yet
    sent,       \* messages sent so far
    accepted,   \* messages the target gateway accepted
    relay,      \* reply -> [state, attempts]
    landings,   \* reply -> times it landed at the asker's gateway
    fence,      \* the migration fence: the gateway it was raised at, and whether it is up
    stopped     \* gateways that stopped since the conversation began

jobVars == <<cross, linked, askJob, askSaved, tgtJob, tgtSaved, relays, ledger, inboxRows, sent,
             accepted, relay, landings, fence, stopped>>

NoJob == MaxReplies + 1   \* no anchor; 0 is an anchor without a reply
Replies == 1 .. MaxReplies
NewCall(kind, n) == [kind |-> kind, n |-> n, stage |-> "out", waiting |-> TRUE]

-----------------------------------------------------------------------------
(* pending-job-store.ts *)

\* A refresh keeps what the job holds.
create(job) == IF job = NoJob THEN 0 ELSE job

\* The reply is stored over an earlier one; without a job it is refused.
deliver(job, n) == IF job = NoJob THEN NoJob ELSE n

-----------------------------------------------------------------------------
(* The asker sends *)

sendCrossGateway ==
    /\ sent < MaxSends /\ (cross => linked)
    /\ sent' = sent + 1
    /\ relays' = relays \cup {NewCall("send", sent + 1)}
    /\ UNCHANGED <<cross, linked, askJob, askSaved, tgtJob, tgtSaved, ledger, inboxRows, accepted,
                   relay, landings, fence, stopped>>

\* The target's agent replies; a reply to a Domain no longer linked is dropped.
respond ==
    /\ tgtJob
    /\ \E n \in Replies :
         /\ relay[n].state = "unsaid" /\ \A k \in 1 .. n - 1 : relay[k].state # "unsaid"
         /\ IF cross /\ ~linked
            THEN relay' = [relay EXCEPT ![n].state = "dropped"] /\ UNCHANGED relays
            ELSE /\ relay' = [relay EXCEPT ![n].state = "trying"]
                 /\ relays' = relays \cup {NewCall("reply", n)}
    /\ UNCHANGED <<cross, linked, askJob, askSaved, tgtJob, tgtSaved, ledger, inboxRows, sent,
                   accepted, landings, fence, stopped>>

-----------------------------------------------------------------------------
(* The operation at the other gateway: handleOp *)

Fenced(g) == fence = [at |-> g, up |-> TRUE]

\* What comes of an operation at the gateway it is for, and whether the answer
\* says it was done. A refusal of the fence is returned as a result: the answer
\* says ok.
Handled(kind, n, ok) ==
    CASE Fenced(IF kind = "send" THEN "target" ELSE "asker") ->
            ok /\ UNCHANGED <<tgtJob, accepted, askJob, landings>>
      [] kind = "send" /\ ~Fenced("target") ->
         /\ tgtJob' = (tgtJob \/ ok)
         /\ accepted' = IF ok THEN accepted \cup {n} ELSE accepted
         /\ UNCHANGED <<askJob, landings>>
      [] kind = "reply" /\ ~Fenced("asker") ->
         /\ ok = (askJob # NoJob)
         /\ askJob' = deliver(askJob, n)
         /\ landings' = [landings EXCEPT ![n] = IF ok THEN @ + 1 ELSE @]
         /\ UNCHANGED <<tgtJob, accepted>>

\* Within a Domain: the Router forwards, the gateway handles and answers.
RelayHandled(c) ==
    /\ ~cross /\ c.stage = "out"
    /\ \E ok \in BOOLEAN :
         /\ Handled(c.kind, c.n, ok)
         /\ relays' = (relays \ {c}) \cup
                     (IF c.waiting THEN {[c EXCEPT !.stage = IF ok THEN "ok" ELSE "failed"]} ELSE {})
    /\ UNCHANGED <<cross, linked, askSaved, tgtSaved, ledger, inboxRows, sent, relay, fence, stopped>>

\* Mutant: every attempt is an operation of its own.
RouterAppendsAnew(c) ==
    /\ cross /\ c.stage = "out"
    /\ ledger' = ledger \cup {<<c.kind, c.n>>}
    /\ inboxRows' = inboxRows \cup (IF linked THEN {<<c.kind, c.n>>} ELSE {})
    /\ relays' = (relays \ {c}) \cup
                (IF c.waiting THEN {[c EXCEPT !.stage = IF linked THEN "ok" ELSE "failed"]} ELSE {})
    /\ UNCHANGED <<cross, linked, askJob, askSaved, tgtJob, tgtSaved, sent, accepted, relay, landings, fence, stopped>>

\* Between Domains: the Router appends the row, once per operation id.
RouterAppends(c) ==
    /\ cross /\ c.stage = "out"
    /\ ledger' = IF linked THEN ledger \cup {<<c.kind, c.n>>} ELSE ledger
    /\ inboxRows' = IF linked /\ <<c.kind, c.n>> \notin ledger
                    THEN inboxRows \cup {<<c.kind, c.n>>} ELSE inboxRows
    /\ relays' = (relays \ {c}) \cup
                (IF c.waiting THEN {[c EXCEPT !.stage = IF linked THEN "ok" ELSE "failed"]} ELSE {})
    /\ UNCHANGED <<cross, linked, askJob, askSaved, tgtJob, tgtSaved, sent, accepted, relay, landings, fence, stopped>>

\* The delivery pump lands a row and settles it, whatever came of it.
LandRow(r) ==
    /\ inboxRows' = inboxRows \ {r}
    /\ \E ok \in BOOLEAN : Handled(r[1], r[2], ok)
    /\ UNCHANGED <<cross, linked, askSaved, tgtSaved, relays, ledger, sent, relay, fence, stopped>>

-----------------------------------------------------------------------------
(* The caller learns *)

\* An accepted send anchors the job; a reply that failed is tried again.
Outcome(c, ok) ==
    IF c.kind = "send"
    THEN askJob' = (IF ok THEN create(askJob) ELSE askJob) /\ UNCHANGED relay
    ELSE /\ relay' = [relay EXCEPT ![c.n] =
                        IF ok THEN [@ EXCEPT !.state = "sent"]
                        ELSE IF @.attempts + 1 < MaxAttempts THEN [state |-> @.state, attempts |-> @.attempts + 1]
                        ELSE [state |-> "gave up", attempts |-> MaxAttempts]]
         /\ UNCHANGED askJob

Again(c) == IF c.kind = "reply" /\ relay'[c.n].state = "trying" THEN {NewCall("reply", c.n)} ELSE {}

CallAnswered(c) ==
    /\ c.waiting /\ c.stage \in {"ok", "failed"}
    /\ Outcome(c, c.stage = "ok")
    /\ relays' = (relays \ {c}) \cup Again(c)
    /\ UNCHANGED <<cross, linked, askSaved, tgtJob, tgtSaved, ledger, inboxRows, sent, accepted, landings, fence, stopped>>

\* The call fails for the caller: no Router, a closed connection, no answer in
\* time. What is under way may still arrive.
CallTimesOut(c) ==
    /\ c.waiting
    /\ Outcome(c, FALSE)
    /\ \E late \in {{}, IF c.stage = "out" THEN {[c EXCEPT !.waiting = FALSE]} ELSE {}} :
         relays' = (relays \ {c}) \cup late \cup Again(c)
    /\ UNCHANGED <<cross, linked, askSaved, tgtJob, tgtSaved, ledger, inboxRows, sent, accepted, landings, fence, stopped>>

\* unlink frames reach both gateways: expireByDomain; the rows are retired.
Unlinked ==
    /\ cross /\ linked
    /\ linked' = FALSE
    /\ askJob' = NoJob /\ tgtJob' = FALSE
    /\ inboxRows' = {}
    /\ UNCHANGED <<cross, askSaved, tgtSaved, relays, ledger, sent, accepted, relay, landings, fence, stopped>>

-----------------------------------------------------------------------------
(* Persistence *)

\* The jobs of a gateway are saved.
SaveAsker ==
    /\ askSaved # askJob /\ ~Fenced("asker")
    /\ askSaved' = askJob
    /\ UNCHANGED <<cross, linked, askJob, tgtJob, tgtSaved, relays, ledger, inboxRows, sent, accepted,
                   relay, landings, fence, stopped>>

SaveTarget ==
    /\ tgtSaved # tgtJob /\ ~Fenced("target")
    /\ tgtSaved' = tgtJob
    /\ UNCHANGED <<cross, linked, askJob, askSaved, tgtJob, relays, ledger, inboxRows, sent, accepted,
                   relay, landings, fence, stopped>>

\* A gateway stops and starts from what it saved; its callers are gone.
AskerRestarts ==
    /\ "asker" \notin stopped
    /\ stopped' = stopped \cup {"asker"}
    /\ askJob' = askSaved
    /\ relays' = {IF c.kind = "send" THEN [c EXCEPT !.waiting = FALSE] ELSE c : c \in relays}
    /\ UNCHANGED <<cross, linked, askSaved, tgtJob, tgtSaved, ledger, inboxRows, sent, accepted, relay, landings, fence>>

TargetRestarts ==
    /\ "target" \notin stopped
    /\ stopped' = stopped \cup {"target"}
    /\ tgtJob' = tgtSaved
    /\ relays' = {IF c.kind = "reply" THEN [c EXCEPT !.waiting = FALSE] ELSE c : c \in relays}
    /\ relay' = [n \in Replies |-> IF relay[n].state = "trying" THEN [relay[n] EXCEPT !.state = "forgotten"]
                                   ELSE relay[n]]
    /\ UNCHANGED <<cross, linked, askJob, askSaved, tgtSaved, ledger, inboxRows, sent, accepted, landings, fence>>

\* An operator raises the migration fence of a gateway, and lowers it again.
RaiseFence ==
    /\ fence' \in IF fence.at = "none" THEN [at : {"asker", "target"}, up : {TRUE}]
                  ELSE {[fence EXCEPT !.up = FALSE]} \ {fence}
    /\ UNCHANGED <<cross, linked, askJob, askSaved, tgtJob, tgtSaved, relays, ledger, inboxRows, sent,
                   accepted, relay, landings, stopped>>

JobInit ==
    /\ cross \in BOOLEAN /\ linked = cross
    /\ askJob = NoJob /\ askSaved = NoJob /\ tgtJob = FALSE /\ tgtSaved = FALSE
    /\ relays = {} /\ ledger = {} /\ inboxRows = {} /\ sent = 0 /\ accepted = {}
    /\ relay = [n \in Replies |-> [state |-> "unsaid", attempts |-> 0]]
    /\ landings = [n \in Replies |-> 0]
    /\ fence = [at |-> "none", up |-> FALSE] /\ stopped = {}

JobNext ==
    \/ sendCrossGateway \/ respond
    \/ \E c \in relays : RelayHandled(c) \/ RouterAppends(c) \/ CallAnswered(c) \/ CallTimesOut(c)
    \/ \E r \in inboxRows : LandRow(r)
    \/ Unlinked \/ SaveAsker \/ SaveTarget \/ AskerRestarts \/ TargetRestarts \/ RaiseFence

JobSpec == JobInit /\ [][JobNext]_jobVars

-----------------------------------------------------------------------------
(* Properties *)

\* Between Domains a reply lands once, however many of its attempts were
\* answered too late: one operation id serves them all (relay.ts:130).
ReplyOnce == cross => \A n \in Replies : landings[n] <= 1

\* A reply that is still being tried has an attempt under way, and one that was
\* taken for sent is with the asker's gateway or in its inbox, unless the fence
\* of that gateway answered for it.
ReplyAccounted ==
    \A n \in Replies :
        /\ relay[n].state = "trying" => \E c \in relays : c.kind = "reply" /\ c.n = n /\ c.waiting
        /\ relay[n].state = "sent" => landings[n] > 0 \/ <<"reply", n>> \in ledger \/ fence.at = "asker"

\* What reached the asker can be polled: later sends in the conversation do not
\* take it away, only an unlink or a restart before it was saved may.
ReplyReadable ==
    (\E n \in Replies : landings[n] > 0) /\ "asker" \notin stopped /\ (cross => linked) => askJob \in Replies

\* "Phones and agents see `migrating` for fenced writes" (docs/federation.md:147):
\* an agent whose message is answered "running" by a gateway of its own Domain
\* has had a message taken there. A fenced gateway answers without taking it.
SendsTaken == ~cross /\ askJob # NoJob => accepted # {}

\* A reply reaches the asker, once between Domains, and can be read there
\* (relay.ts, resultCache.ts).
RepliesKept == ReplyOnce /\ ReplyAccounted /\ ReplyReadable
=============================================================================
