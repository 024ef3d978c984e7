--------------------------- MODULE SessionRegistry ---------------------------
(***************************************************************************)
(* The sessions a gateway records, as its Router knows them. The reporter  *)
(* (sessionRegistryReporter.ts) wraps the session store: each record made  *)
(* or dropped is sent at once, what was not taken is sent again by a timer *)
(* and everything at each registration. The Router answers in order        *)
(* (inboxFrames.ts, inboxService.ts). A record that moves to another name  *)
(* with its transcript is not reported before the next registration. A     *)
(* call of a connection that was replaced is still taken.                  *)
(***************************************************************************)
EXTENDS Naturals, Sequences, FiniteSets

CONSTANTS
    SessionIds,
    MaxMade,            \* bound: records made or dropped
    MaxLine,            \* bound: calls out
    MaxRegistrations,   \* bound
    MaxStrays           \* bound: calls a lost connection brings late

ASSUME SessionIdsAssumption == IsFiniteSet(SessionIds)

VARIABLES
    sessionRecord,  \* id -> the record of that id, 0 for none
    known,
    pendingUpserts, \* id -> the record to send again, 0 for none
    pendingTombstones,
    retryTimer,
    joined,         \* the gateway is registered
    line,           \* calls out: [op, id, rec, answer], in order
    strays,         \* calls out with a connection that was lost: [op, id]
    sessions,       \* the Router's session records
    made, registrations,
    moved,          \* history: a record changed its name since the last registration
    lost,           \* history: ids whose forget was dropped by an older one's answer or by a stop
    refused         \* history: ids whose last change the Router's store refused, though it was answered
                    \* ok, or came late, from a connection that was lost

registryVars == <<sessionRecord, known, pendingUpserts, pendingTombstones, retryTimer, joined, line,
                  strays, sessions, made, registrations, moved, lost, refused>>

LiveIds == {i \in SessionIds : sessionRecord[i] # 0}
Report(op, i, r) == [op |-> op, id |-> i, rec |-> r, answer |-> "out"]
\* A call is made when the gateway is registered.
Sent(c) == line' = IF joined THEN Append(line, c) ELSE line
Room == joined => Len(line) < MaxLine

-----------------------------------------------------------------------------
(* The wrapped session store *)

upsert(i, r) ==
    /\ pendingTombstones' = pendingTombstones \ {i}
    /\ known' = known \cup {i}
    /\ pendingUpserts' = [pendingUpserts EXCEPT ![i] = r]

createRecord(i) ==
    /\ sessionRecord[i] = 0 /\ made < MaxMade /\ Room
    /\ made' = made + 1
    /\ sessionRecord' = [sessionRecord EXCEPT ![i] = made + 1]
    /\ upsert(i, made + 1)
    /\ Sent(Report("upsert", i, made + 1))
    /\ UNCHANGED <<retryTimer, joined, strays, sessions, registrations, moved, lost, refused>>

\* forget and sweep
forgetRecord(i) ==
    /\ sessionRecord[i] # 0 /\ made < MaxMade /\ Room
    /\ made' = made + 1
    /\ sessionRecord' = [sessionRecord EXCEPT ![i] = 0]
    /\ known' = known \ {i}
    /\ pendingUpserts' = [pendingUpserts EXCEPT ![i] = 0]
    /\ pendingTombstones' = pendingTombstones \cup {i}
    /\ Sent(Report("forget", i, 0))
    /\ UNCHANGED <<retryTimer, joined, strays, sessions, registrations, moved, lost, refused>>

\* establishOnConfirm hands a record over to another name: neither is reported.
handOver(i, j) ==
    /\ sessionRecord[i] # 0 /\ sessionRecord[j] = 0 /\ made < MaxMade
    /\ made' = made + 1
    /\ sessionRecord' = [sessionRecord EXCEPT ![i] = 0, ![j] = sessionRecord[i]]
    /\ moved' = TRUE
    /\ lost' = IF i \in known THEN lost ELSE lost \cup {i}
    /\ UNCHANGED <<known, pendingUpserts, pendingTombstones, retryTimer, joined, line, strays,
                   sessions, registrations, refused>>

-----------------------------------------------------------------------------
(* Calls and answers *)

Applied(s, c) == IF c.op = "upsert" THEN s \cup {c.id} ELSE s \ {c.id}

FirstOut == {k \in 1 .. Len(line) : line[k].answer = "out" /\ \A h \in 1 .. k - 1 : line[h].answer # "out"}

\* The next call is applied, and its answer may still be an error; it is not taken;
\* or the store refuses it, which upsertSession and forgetSession do not look at:
\* the answer is ok.
RouterHandles ==
    \E k \in FirstOut :
        /\ \/ /\ sessions' = Applied(sessions, line[k])
              /\ \E a \in {"ok", "failed"} : line' = [line EXCEPT ![k].answer = a]
              /\ refused' = refused \ {line[k].id}
           \/ line' = [line EXCEPT ![k].answer = "failed"] /\ UNCHANGED <<sessions, refused>>
           \/ /\ line' = [line EXCEPT ![k].answer = "ok"]
              /\ refused' = refused \cup {line[k].id}
              /\ UNCHANGED sessions
        /\ UNCHANGED <<sessionRecord, known, pendingUpserts, pendingTombstones, retryTimer, joined, strays,
                       made, registrations, moved, lost>>

\* A call of a connection that was lost is taken as any other while the Router has
\* not seen that connection closed. Nobody hears the answer.
StrayHandled ==
    \E c \in strays :
        /\ strays' = strays \ {c}
        /\ sessions' = Applied(sessions, c)
        /\ refused' = IF sessions' = sessions THEN refused ELSE refused \cup {c.id}
        /\ UNCHANGED <<sessionRecord, known, pendingUpserts, pendingTombstones, retryTimer, joined, line,
                       made, registrations, moved, lost>>

\* Mutant: an upsert that was not taken is not sent again.
UpsertFailsQuietly(c) ==
    /\ pendingUpserts' = IF c.id \in known THEN [pendingUpserts EXCEPT ![c.id] = c.rec] ELSE pendingUpserts
    /\ UNCHANGED retryTimer

UpsertFails(c) ==
    /\ pendingUpserts' = IF c.id \in known THEN [pendingUpserts EXCEPT ![c.id] = c.rec] ELSE pendingUpserts
    /\ retryTimer' = (retryTimer \/ c.id \in known)

LaterForgets(i) == {k \in 2 .. Len(line) : line[k].op = "forget" /\ line[k].id = i}

sendUpsert(c) ==
    /\ c.op = "upsert"
    /\ IF c.answer = "ok"
       THEN /\ pendingUpserts' = [pendingUpserts EXCEPT ![c.id] = IF @ = c.rec THEN 0 ELSE @]
            /\ UNCHANGED retryTimer
       ELSE UpsertFails(c)
    /\ UNCHANGED <<pendingTombstones, lost>>

sendForget(c) ==
    /\ c.op = "forget"
    /\ IF c.answer = "ok"
       THEN /\ pendingTombstones' = pendingTombstones \ {c.id}
            /\ lost' = IF LaterForgets(c.id) # {} THEN lost \cup {c.id} ELSE lost
            /\ UNCHANGED retryTimer
       ELSE /\ retryTimer' = (retryTimer \/ c.id \in pendingTombstones)
            /\ UNCHANGED <<pendingTombstones, lost>>
    /\ UNCHANGED pendingUpserts

AnswerLands ==
    /\ line # <<>> /\ line[1].answer # "out"
    /\ line' = Tail(line)
    /\ sendUpsert(line[1]) \/ sendForget(line[1])
    /\ UNCHANGED <<sessionRecord, known, joined, strays, sessions, made, registrations, moved, refused>>

\* The calls that send everything of the set ids, in some order.
Orders(ids) == {q \in [1 .. Cardinality(ids) -> ids] : \A i \in ids : \E k \in DOMAIN q : q[k] = i}
Upserts(q) == [k \in DOMAIN q |-> Report("upsert", q[k], pendingUpserts'[q[k]])]
Forgets(q) == [k \in DOMAIN q |-> Report("forget", q[k], 0)]

flush ==
    /\ retryTimer /\ retryTimer' = FALSE
    /\ Len(line) + Cardinality({i \in SessionIds : pendingUpserts[i] # 0} \cup pendingTombstones) <= MaxLine
    /\ UNCHANGED pendingUpserts
    /\ \E u \in Orders({i \in SessionIds : pendingUpserts[i] # 0}), f \in Orders(pendingTombstones) :
          line' = IF joined THEN line \o Upserts(u) \o Forgets(f) ELSE line
    /\ UNCHANGED <<sessionRecord, known, pendingTombstones, joined, strays, sessions, made, registrations,
                   moved, lost, refused>>

-----------------------------------------------------------------------------
(* Registrations *)

\* The forgets a registration sends: pending ones, and names that are gone.
ToForget == (pendingTombstones \cup known) \ LiveIds

reconcile ==
    /\ ~joined /\ registrations < MaxRegistrations
    /\ joined' = TRUE /\ registrations' = registrations + 1
    /\ pendingUpserts' = [i \in SessionIds |-> IF i \in LiveIds THEN sessionRecord[i] ELSE pendingUpserts[i]]
    /\ pendingTombstones' = (pendingTombstones \ LiveIds) \cup (known \ LiveIds)
    /\ \E u \in Orders(LiveIds), f \in Orders(ToForget) : line' = Upserts(u) \o Forgets(f)
    /\ known' = LiveIds
    /\ moved' = FALSE
    /\ lost' = lost \cup {i \in known \ LiveIds : pendingUpserts[i] # 0}
    /\ UNCHANGED <<sessionRecord, retryTimer, strays, sessions, made, refused>>

\* The Router knows a session after the calls taken when the last of them about it
\* is an upsert, or when none is and it knew it before.
KnownAfter(i, taken) ==
    LET about == {k \in taken : line[k].id = i}
    IN IF about = {} THEN i \in sessions
       ELSE \E k \in about : line[k].op = "upsert" /\ \A h \in about : h <= k

\* The connection is lost: what is out fails, though the Router may have applied
\* any of it: it took the first of them, and its store refused some. Of the others
\* some may reach it yet.
Disconnected ==
    LET last(i) == {k \in DOMAIN line : /\ line[k].op = "upsert" /\ line[k].id = i
                                        /\ \A h \in k + 1 .. Len(line) : ~(line[h].op = "upsert" /\ line[h].id = i)}
        failed  == {i \in known : last(i) # {}}
    IN /\ joined /\ joined' = FALSE
       /\ line' = <<>>
       /\ \E taken, behind \in SUBSET {k \in DOMAIN line : line[k].answer = "out"} :
             /\ sessions' = {i \in SessionIds : KnownAfter(i, taken)}
             /\ refused' = refused \ {line[k].id : k \in taken}
             /\ \A k \in taken, h \in behind : k < h
             /\ strays' = strays \cup {[op |-> line[k].op, id |-> line[k].id] : k \in behind}
             /\ Cardinality(strays') <= MaxStrays
       /\ pendingUpserts' = [i \in SessionIds |-> IF i \in failed THEN line[CHOOSE k \in last(i) : TRUE].rec
                                                  ELSE pendingUpserts[i]]
       /\ retryTimer' = (retryTimer \/ failed # {} \/ \E k \in DOMAIN line :
                              line[k].op = "forget" /\ line[k].id \in pendingTombstones)
       /\ UNCHANGED <<sessionRecord, known, pendingTombstones, made, registrations, moved, lost>>

\* The gateway stops and starts: its records are restored, the rest is gone.
GatewayRestarts ==
    /\ ~joined /\ registrations < MaxRegistrations
    /\ known' = {} /\ pendingUpserts' = [i \in SessionIds |-> 0] /\ pendingTombstones' = {}
    /\ retryTimer' = FALSE
    /\ lost' = lost \cup pendingTombstones \cup (known \ LiveIds)
    /\ UNCHANGED <<sessionRecord, joined, line, strays, sessions, made, registrations, moved, refused>>

RegistryInit ==
    /\ sessionRecord = [i \in SessionIds |-> 0] /\ known = {}
    /\ pendingUpserts = [i \in SessionIds |-> 0] /\ pendingTombstones = {}
    /\ retryTimer = FALSE /\ joined = FALSE /\ line = <<>>
    /\ strays = {} /\ sessions = {}
    /\ made = 0 /\ registrations = 0 /\ moved = FALSE /\ lost = {} /\ refused = {}

RegistryNext ==
    \/ \E i \in SessionIds : createRecord(i) \/ forgetRecord(i) \/ \E j \in SessionIds : handOver(i, j)
    \/ RouterHandles \/ StrayHandled \/ AnswerLands \/ flush
    \/ reconcile \/ Disconnected \/ GatewayRestarts

RegistrySpec == RegistryInit /\ [][RegistryNext]_registryVars

-----------------------------------------------------------------------------
(* Properties *)

Quiet == joined /\ line = <<>> /\ ~retryTimer

\* Once nothing is out and no timer runs, the Router knows every session the
\* gateway records: it would refuse messages to the others. The exception are
\* those whose upsert its store refused (inboxService.ts:316): answered ok, it is
\* not sent again before the next registration; and those a late call of a lost
\* connection forgot.
RecordsRegistered == Quiet /\ ~moved => LiveIds \subseteq sessions \cup refused

\* And it knows no other, but for a forget that was dropped as done by the answer
\* of an older one or by a stop of the gateway (sessionRegistryReporter.ts:68),
\* or for a name handed over: not known since a restart, or with an upsert pending;
\* and but for a forget the Router's store refused, which no registration sends again,
\* or a late upsert of a lost connection.
ForgottenGone == Quiet /\ ~moved => sessions \subseteq LiveIds \cup lost \cup refused

\* A reporter that rests has left the Router with the gateway's sessions, neither
\* fewer nor more (sessionRegistryReporter.ts).
RegistryFollows == RecordsRegistered /\ ForgottenGone
=============================================================================
