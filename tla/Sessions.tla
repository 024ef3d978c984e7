------------------------------ MODULE Sessions ------------------------------
(***************************************************************************)
(* The sessions of a gateway: plugin sockets register under a name         *)
(* (websocket.ts), answer a handshake that tells leads from workers        *)
(* (handshakeGate.ts), and are recorded with their transcript and binding  *)
(* token (session-store.ts, sessionAuthority.ts). Wakes mint records and   *)
(* tokens for processes that register later (wakeService.ts, wake.ts).     *)
(* A socket that was evicted is gone for the gateway before it has closed; *)
(* one that went silent is closed first and forgotten on its close event.  *)
(***************************************************************************)
EXTENDS Naturals, FiniteSets

CONSTANTS
    Names,          \* session names
    ClashNames,     \* names that are projects or reserved: never adopted
    HostNames,      \* sessions of the host shell
    Sockets,        \* one per connection ever made
    SubIds,
    Conversations,
    Transcripts,
    MaxTokens       \* bound: binding tokens minted

VARIABLES
    sock,       \* socket -> [state, name, sub, conv, bound, transcript, confirmed]
    records,    \* name -> NoRecord or [transcript, token, active, confirmed, live, moved]
    challenges, \* handshakes in question: [by, name, sub]
    leads,      \* name -> the binding that answered a handshake last, or NoLead
    waking,     \* names whose wake is in flight
    fresh,      \* records minted by a wake still in flight
    tokens,     \* binding tokens minted so far
    forgotten   \* history: names whose record the owner dropped

sessionVars == <<sock, records, challenges, leads, waking, fresh, tokens, forgotten>>

None == 0
NoLead == MaxTokens + 1
NoRecord == [exists |-> FALSE]
Unmade == [state |-> "new"]
NewRecord(tr) == [exists |-> TRUE, transcript |-> tr, token |-> None, active |-> FALSE,
                  confirmed |-> FALSE, live |-> <<>>, moved |-> FALSE]

Recorded == {n \in Names : records[n].exists}
Registered == {s \in Sockets : sock[s].state \in {"open", "closing"}}
Open == {s \in Registered : sock[s].state = "open"}
At(name, sub) == {s \in Registered : sock[s].name = name /\ sock[s].sub = sub}
Ref(s) == <<sock[s].name, sock[s].sub>>

-----------------------------------------------------------------------------
(* Authority *)

\* The open sockets that stand for a name: confirmed ones, its alias, any.
resolveLiveIncarnation(name) ==
    LET here      == {s \in Open : sock[s].name = name}
        confirmed == {s \in here : sock[s].confirmed}
        alias     == {s \in Open : /\ records[name].exists /\ records[name].live = Ref(s)
                                   /\ sock[s].confirmed}
    IN CASE confirmed # {} -> confirmed
         [] confirmed = {} /\ alias # {} -> alias
         [] OTHER -> here

toClaim(name) == IF records[name].exists /\ records[name].active THEN records[name].token ELSE None
satisfies(need, got) == need = None \/ need = got
holdsToken(name, tok) == tok # None /\ records[name].exists /\ records[name].token = tok

-----------------------------------------------------------------------------
(* Leaving *)

clearLive(recs, gone) ==
    [n \in Names |-> IF recs[n].exists /\ \E s \in gone : recs[n].live = Ref(s)
                     THEN [recs[n] EXCEPT !.live = <<>>] ELSE recs[n]]

withoutPending(gone) == {p \in challenges : \A s \in gone : <<p.name, p.sub>> # Ref(s)}
evicted(gone) == [s \in Sockets |-> IF s \in gone THEN [state |-> "gone"] ELSE sock[s]]

close(s) ==
    /\ s \in Registered
    /\ sock' = evicted({s})
    /\ challenges' = withoutPending({s})
    /\ records' = clearLive(records, {s})
    /\ UNCHANGED <<leads, waking, fresh, tokens, forgotten>>

\* Two missed pings: the socket is closed, its close event follows.
heartbeatCloses(s) ==
    /\ s \in Open
    /\ sock' = [sock EXCEPT ![s].state = "closing"]
    /\ UNCHANGED <<records, challenges, leads, waking, fresh, tokens, forgotten>>

\* A handshake nobody answered: whoever is at its coordinates unconfirmed goes.
expirePending(p) ==
    LET gone == {s \in At(p.name, p.sub) : ~sock[s].confirmed}
    IN /\ sock' = evicted(gone)
       /\ challenges' = challenges \ {p}
       /\ records' = clearLive(records, gone)
       /\ UNCHANGED <<leads, waking, fresh, tokens, forgotten>>

-----------------------------------------------------------------------------
(* Confirming *)

\* The transcript's record may be taken when nobody else stands for it.
mayTake(s, name, from) == from = name \/ resolveLiveIncarnation(from) \subseteq {s}

Holders(tr) == {n \in Recorded : tr # None /\ records[n].transcript = tr}

\* establishOnConfirm over recs, in which the sockets that left are cleared: the
\* possible records, none when refused. from is the first holder the map yields.
established(recs, s, name, ref, tr) ==
    LET confirmedAt(rec) == [rec EXCEPT !.confirmed = TRUE, !.live = ref,
                                        !.transcript = IF tr # None THEN tr ELSE @]
        from(n)  == CASE recs[name].exists -> [recs EXCEPT ![name] = confirmedAt(@)]
                      [] OTHER -> [recs EXCEPT ![name] = confirmedAt([recs[n] EXCEPT !.moved = TRUE]),
                                               ![n] = NoRecord]
        new(n)   == [recs EXCEPT ![n] = confirmedAt(NewRecord(tr))]
        minted   == {n \in Names \ ClashNames : ~recs[n].exists /\ n # name}
    IN CASE Holders(tr) # {}   -> {from(n) : n \in {h \in Holders(tr) : mayTake(s, name, h)}}
         [] Holders(tr) = {} /\ recs[name].exists
                               -> {[recs EXCEPT ![name] = confirmedAt(@)]}
         [] OTHER -> IF name \in ClashNames THEN {new(n) : n \in minted} ELSE {new(name)}

-----------------------------------------------------------------------------
(* Registration *)

registerRejected(s, name, tok) ==
    /\ sock[s].state = "new"
    /\ \/ ~satisfies(toClaim(name), tok)
       \/ name \in HostNames /\ ~holdsToken(name, tok)
    /\ sock' = [sock EXCEPT ![s] = [state |-> "gone"]]
    /\ UNCHANGED <<records, challenges, leads, waking, fresh, tokens, forgotten>>

\* Mutant: arming a binding leaves the sockets that claimed the name before.
displacedKept(s, name, sub, tok, conv) ==
    At(name, sub) \cup {o \in Open : conv # None /\ sock[o].conv = conv /\ sock[o].name = name}

\* The sockets a registration displaces: claims made while the binding was
\* inert, the same subId, the same conversation.
displaced(s, name, sub, tok, conv) ==
    At(name, sub)
    \cup {o \in Open : conv # None /\ sock[o].conv = conv /\ sock[o].name = name}
    \cup {o \in Registered : /\ holdsToken(name, tok) /\ ~records[name].active
                             /\ sock[o].name = name /\ sock[o].bound # tok}

\* The conversation is claimed unless a socket of another name holds it.
claimed(name, conv) ==
    IF \E o \in Registered : conv # None /\ sock[o].conv = conv /\ sock[o].name # name THEN None ELSE conv

\* A process may say it led before, and is taken at its word when it holds the binding
\* the lead had.
register(s, name, sub, tok, conv, tr) ==
    LET gone   == displaced(s, name, sub, tok, conv)
        bound  == IF holdsToken(name, tok) THEN tok ELSE None
        recs   == clearLive([records EXCEPT ![name] = IF bound # None THEN [@ EXCEPT !.active = TRUE] ELSE @], gone)
        mine(c) == [evicted(gone) EXCEPT ![s] = [state |-> "open", name |-> name, sub |-> sub,
                      conv |-> claimed(name, conv), bound |-> bound, transcript |-> tr, confirmed |-> c]]
    IN /\ sock[s].state = "new"
       /\ satisfies(toClaim(name), tok)
       /\ name \in HostNames => holdsToken(name, tok)
       /\ waking' = waking \ {name}
       /\ fresh' = fresh \ {name}
       /\ \/ /\ sock' = mine(FALSE)
             /\ records' = recs
             /\ challenges' = withoutPending(gone) \cup {[by |-> s, name |-> name, sub |-> sub]}
          \/ /\ leads[name] = bound
             /\ sock' = mine(TRUE)
             /\ records' \in established(recs, s, name, <<name, sub>>, tr)
             /\ challenges' = withoutPending(gone)
          \/ \* refused, or register_ok could not be sent
             /\ sock' = [evicted(gone) EXCEPT ![s] = [state |-> "gone"]]
             /\ records' = recs
             /\ challenges' = withoutPending(gone)
       /\ UNCHANGED <<leads, tokens, forgotten>>

-----------------------------------------------------------------------------
(* The handshake *)

\* An answer from another session than the challenged one is ignored.
resolveHandshake(p, tok) ==
    /\ \A s \in At(p.name, p.sub) : satisfies(sock[s].bound, tok)
    /\ LET here == At(p.name, p.sub) \cap Open
       IN \/ \* nobody there, or an answer that says nothing
             /\ challenges' = challenges \ {p}
             /\ UNCHANGED <<sock, records, leads>>
          \/ \E s \in here :
                /\ records' \in established(records, s, p.name, Ref(s), sock[s].transcript)
                /\ sock' = [sock EXCEPT ![s].confirmed = TRUE]
                /\ leads' = [leads EXCEPT ![p.name] = sock[s].bound]
                /\ challenges' = challenges \ {p}
          \/ \E s \in here :   \* a worker, or the transcript is live elsewhere
                /\ sock' = evicted({s})
                /\ records' = clearLive(records, {s})
                /\ challenges' = withoutPending({s}) \ {p}
                /\ UNCHANGED leads
    /\ UNCHANGED <<waking, fresh, tokens, forgotten>>

-----------------------------------------------------------------------------
(* Records come and go *)

\* ensureBindToken: minted once, inert until a process presents it.
tokened(rec) == IF rec.token = None THEN [rec EXCEPT !.token = tokens + 1] ELSE rec

\* tryWakeTeam: an existing record is woken with its token, a new one is minted.
tryWakeTeam(name) ==
    LET made == ~records[name].exists
        rec  == IF made THEN NewRecord(None) ELSE records[name]
    IN /\ name \notin waking /\ resolveLiveIncarnation(name) = {}
       /\ made => name \notin ClashNames \cup HostNames
       /\ tokens < MaxTokens
       /\ records' = [records EXCEPT ![name] = tokened(rec)]
       /\ tokens' = IF rec.token = None THEN tokens + 1 ELSE tokens
       /\ waking' = waking \cup {name}
       /\ fresh' = IF made THEN fresh \cup {name} ELSE fresh
       /\ UNCHANGED <<sock, challenges, leads, forgotten>>

\* createSession of the console: adopted and launched by the host with a token.
createSession(name) ==
    LET rec == IF records[name].exists THEN records[name] ELSE NewRecord(None)
    IN /\ name \in HostNames \ ClashNames /\ tokens < MaxTokens
       /\ records' = [records EXCEPT ![name] = tokened(rec)]
       /\ tokens' = IF rec.token = None THEN tokens + 1 ELSE tokens
       /\ UNCHANGED <<sock, challenges, leads, waking, fresh, forgotten>>

\* A wake that timed out, was refused or lost its host: a record made for it goes.
wakeFails(name) ==
    /\ name \in waking
    /\ waking' = waking \ {name} /\ fresh' = fresh \ {name}
    /\ records' = IF /\ name \in fresh /\ records[name].exists /\ ~records[name].confirmed
                     /\ resolveLiveIncarnation(name) = {}
                  THEN [records EXCEPT ![name] = NoRecord] ELSE records
    /\ UNCHANGED <<sock, challenges, leads, tokens, forgotten>>

\* forget of the console: its check for a wake in flight is stale once the kill
\* has been awaited.
forget(name) ==
    /\ name \in Recorded
    /\ records' = [records EXCEPT ![name] = NoRecord]
    /\ forgotten' = forgotten \cup {name}
    /\ UNCHANGED <<sock, challenges, leads, waking, fresh, tokens>>

\* Old records go, and the oldest that nobody stands for when there are too many.
sweep(name) ==
    /\ name \in Recorded /\ resolveLiveIncarnation(name) = {}
    /\ records' = [records EXCEPT ![name] = NoRecord]
    /\ UNCHANGED <<sock, challenges, leads, waking, fresh, tokens, forgotten>>

\* The gateway restarts: sockets, handshakes, leads and wakes are gone, and of
\* the records what is newer than the last save.
restore ==
    /\ Registered # {}
    /\ sock' = evicted(Registered)
    /\ \E saved \in SUBSET Recorded :
         \E armed \in SUBSET {n \in saved : records[n].active} :
            records' = [n \in Names |-> IF n \in saved
                                        THEN [records[n] EXCEPT !.live = <<>>, !.active = n \in armed]
                                        ELSE NoRecord]
    /\ challenges' = {} /\ leads' = [n \in Names |-> NoLead] /\ waking' = {} /\ fresh' = {}
    /\ UNCHANGED <<tokens, forgotten>>

SessionInit ==
    /\ sock = [s \in Sockets |-> Unmade]
    /\ records = [n \in Names |-> NoRecord]
    /\ challenges = {} /\ leads = [n \in Names |-> NoLead]
    /\ waking = {} /\ fresh = {} /\ tokens = 0 /\ forgotten = {}

Presentable == 0 .. tokens
Connecting  == {s \in Sockets : sock[s] = Unmade}

SessionNext ==
    \/ \E s \in Connecting, name \in Names, tok \in Presentable :
          \/ registerRejected(s, name, tok)
          \/ \E sub \in SubIds, conv \in Conversations \cup {None}, tr \in Transcripts \cup {None} :
                register(s, name, sub, tok, conv, tr)
    \/ \E s \in Sockets : close(s) \/ heartbeatCloses(s)
    \/ \E p \in challenges : expirePending(p) \/ \E tok \in Presentable : resolveHandshake(p, tok)
    \/ \E name \in Names : tryWakeTeam(name) \/ createSession(name) \/ wakeFails(name) \/ forget(name) \/ sweep(name)
    \/ restore

SessionSpec == SessionInit /\ [][SessionNext]_sessionVars

-----------------------------------------------------------------------------
(* Properties *)

\* A record that says where its session is live names a confirmed socket that is
\* registered there (session-store.ts liveTeam).
LiveRefTrue ==
    \A n \in Recorded : records[n].live # <<>> =>
        \E s \in Registered : Ref(s) = records[n].live /\ sock[s].confirmed

\* "Pending entries stay bounded by live unconfirmed sockets" (handshakeGate.ts:20).
PendingBounded ==
    \A p \in challenges : \E s \in At(p.name, p.sub) : s = p.by /\ ~sock[s].confirmed

\* Whoever is registered under a name whose binding is armed holds that binding,
\* unless the record came to the name with its transcript.
BoundNameHeld ==
    \A s \in Registered : LET rec == records[sock[s].name] IN
        rec.exists /\ rec.active /\ ~rec.moved => sock[s].bound = rec.token

\* A confirmed session keeps its record: neither a transcript taken by another
\* name nor a wake that fails nor a sweep takes it away, only the owner.
RecordKept ==
    \A s \in Open : sock[s].confirmed =>
        \/ records[sock[s].name].exists \/ sock[s].name \in forgotten
        \/ \E n \in Recorded : records[n].live = Ref(s)
        \/ sock[s].name \in ClashNames

\* Sockets, challenges and records agree, in whatever order connections are made,
\* replaced and closed (sessionAuthority, handshakeGate, session-store.ts).
SessionsBound == LiveRefTrue /\ PendingBounded /\ BoundNameHeld /\ RecordKept
=============================================================================
