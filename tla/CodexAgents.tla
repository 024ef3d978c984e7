----------------------------- MODULE CodexAgents -----------------------------
(* One Codex agent of a managed session: the record the gateway keeps of it  *)
(* (CodexAgentService and its receipt applier), the relay that decides which *)
(* daemon frames are settled (CodexRelay), and the host daemon that runs the *)
(* turns and keeps a copy of each reliable frame until it is acknowledged    *)
(* (AgentDaemonCore, codexCommandDispatch). Frames carry a fence             *)
(* <<daemon instance, generation of the child, event id>>. Prompts, answers, *)
(* timestamps and fingerprints are left out; there is one thread.            *)
EXTENDS Integers, Sequences, FiniteSets, SequencesExt

CONSTANTS
    MaxTurns,       \* turns the App Server may start
    MaxAgentOps,    \* operations of the owner: a start, then messages and stops
    MaxChildren,    \* children a daemon process may launch
    MaxEventId,     \* last event id of a child
    MaxBroken,      \* breaks of a behaviour, each of another kind
    AgentFaults     \* the kinds of break there may be

ASSUME AgentAssumption ==
    /\ MaxTurns \in Nat \ {0} /\ MaxAgentOps \in Nat \ {0} /\ MaxChildren \in Nat \ {0}
    /\ MaxEventId \in Nat /\ MaxBroken \in Nat
    /\ AgentFaults \subseteq {"socket", "gateway", "daemon", "lapse", "commit", "read", "refused", "early"}

VARIABLES
    agent,          \* the persisted record
    agentRelay,     \* held frames, those being put again, the reconciliation guard, the streams
    daemon,         \* instance, child, next event id, bound and published turns, outbox
    serverTurns,    \* what the App Server knows of each turn
    agentUp,        \* frames on their way to the gateway
    agentDown,      \* commands and acknowledgements on their way to the daemon
    daemonLinked,   \* the daemon's socket stands
    broken          \* the kinds of break so far

agentVars == <<agent, agentRelay, daemon, serverTurns, agentUp, agentDown, daemonLinked, broken>>

TurnIds == 1..MaxTurns
OpIds == 1..MaxAgentOps
NoFence == <<0, 0, 0>>
Streams == (1..2) \X (1..MaxChildren)
StreamOf(f) == <<f[1], f[2]>>

NoOp == [kind |-> "none", state |-> "none", preState |-> "none", preTurn |-> 0,
         preFence |-> NoFence, turn |-> 0, delivery |-> "none", fence |-> NoFence]
NoAgent == [state |-> "none", thread |-> FALSE, active |-> 0, fence |-> NoFence,
            turns |-> [t \in TurnIds |-> "none"], ops |-> [o \in OpIds |-> NoOp], pending |-> 0]
NoStreams == [s \in Streams |-> [through |-> -1, decided |-> -1, undecided |-> {}]]
NewRelay == [held |-> {}, draining |-> <<>>, reconciling |-> FALSE, streams |-> NoStreams]

\* A daemon whose child has said nothing yet.
Session(inst, child, serving, outbox) ==
    [inst |-> inst, child |-> child, serving |-> serving, nextEvent |-> 0,
     bound |-> {}, published |-> {}, outbox |-> outbox]

AgentInit ==
    /\ agent = NoAgent
    /\ agentRelay = NewRelay
    /\ daemon = Session(1, 0, FALSE, {})
    /\ serverTurns = [t \in TurnIds |-> "none"]
    /\ agentUp = <<>> /\ agentDown = <<>>
    /\ daemonLinked = TRUE /\ broken = {}

-----------------------------------------------------------------------------
(* Fences *)

advancesFence(current, next) ==
    \/ current = NoFence
    \/ StreamOf(current) = StreamOf(next) /\ next[3] > current[3]

classifyEventFence(current, next) ==
    IF current = NoFence \/ StreamOf(current) # StreamOf(next) THEN "foreign"
    ELSE IF next[3] > current[3] THEN "advances" ELSE "duplicate"

\* f is not past the fence g of its own stream.
NotPast(f, g) == f = NoFence \/ StreamOf(f) # StreamOf(g) \/ f[3] <= g[3]

-----------------------------------------------------------------------------
(* The stored record *)

IsPrompt(op) == op.kind \in {"start", "message"}
Turns(a) == {t \in TurnIds : a.turns[t] # "none"}
InProgress(a) == {t \in TurnIds : a.turns[t] = "inProgress"}

agentTurnHistoryIssues(a) ==
    \/ a.active # 0 /\ InProgress(a) # {a.active}
    \/ a.active = 0 /\ InProgress(a) # {}
    \/ a.state = "working" /\ a.active = 0
    \/ a.state = "idle" /\ a.active # 0

\* Each turn is started by one prompt, each prompt names a turn of the record.
codexAgentHistoryIssues(a) ==
    \/ agentTurnHistoryIssues(a)
    \/ \E t \in Turns(a) : Cardinality({o \in OpIds : a.ops[o].delivery = "started" /\ a.ops[o].turn = t}) # 1
    \/ \E o \in OpIds : IsPrompt(a.ops[o]) /\ a.ops[o].turn # 0 /\ a.ops[o].turn \notin Turns(a)
    \/ a.state = "creating" /\ (Turns(a) # {} \/ \E o \in OpIds \ {1} : a.ops[o] # NoOp)

HasNativeHistory(a) ==
    Turns(a) # {} \/ \E o \in OpIds : IsPrompt(a.ops[o]) /\ a.ops[o].state = "accepted"

OperationStorable(a, op) ==
    /\ op.delivery = "steered" => op.preState = "working" /\ op.preTurn = op.turn
    /\ op.kind = "message" /\ op.delivery = "started" /\ op.preState = "working" =>
          op.preTurn # op.turn /\ a.turns[op.preTurn] = "settled"
    /\ op.kind = "message" /\ op.state = "accepted" /\ op.preState = "idle" => op.delivery = "started"
    /\ {op.turn, op.preTurn} \subseteq Turns(a) \cup {0}
    /\ NotPast(op.preFence, a.fence) /\ NotPast(op.fence, a.fence)

\* What CodexPersistedAgentSchema takes; a record it does not take is not kept.
Storable(a) ==
    /\ ~codexAgentHistoryIssues(a)
    /\ HasNativeHistory(a) <=> a.thread
    /\ HasNativeHistory(a) => a.fence # NoFence
    /\ a.fence # NoFence => a.thread
    /\ a.state = "idle" => a.thread
    /\ a.pending # 0 => a.ops[a.pending].kind = "stop" /\ a.ops[a.pending].turn = a.active /\ a.active # 0
    /\ \A o \in OpIds : OperationStorable(a, a.ops[o])

-----------------------------------------------------------------------------
(* What a frame makes of the record *)

Frame(kind, op, turn, delivery, at) ==
    [kind |-> kind, op |-> op, turn |-> turn, delivery |-> delivery, at |-> at]
\* An outcome: the record, and the agent a reconciliation would ask about.
Out(is, a) == [is |-> is, agent |-> a, about |-> a]
\* A commit of a record the schema takes.
Stored(a, next) == IF Storable(next) THEN Out("applied", next) ELSE Out("failed", a)

hasPendingPrompt(a) == \E o \in OpIds : IsPrompt(a.ops[o]) /\ a.ops[o].state = "requested"

\* The verdict on an accepted delivery.
decideAcceptance(a, m) ==
    LET op == a.ops[m.op]
        settledSince == op.kind = "message" /\ op.preState = "working" /\ op.preTurn # 0
                        /\ a.turns[op.preTurn] = "settled" /\ a.active # op.preTurn
        startedAfter == settledSince /\ m.delivery = "started"
        steeredInto == settledSince /\ m.delivery = "steered" /\ m.turn = op.preTurn
    IN IF op.state = "accepted" THEN
          IF op.turn = m.turn /\ op.delivery = m.delivery /\ op.fence = m.at
          THEN "replayed" ELSE "conflict"
       ELSE IF \/ op.kind \notin {"start", "message"} \/ op.state # "requested"
               \/ op.kind = "start" /\ m.delivery # "started"
               \/ op.kind = "message" /\ op.preState = "working" /\ m.delivery # "steered" /\ ~startedAfter
               \/ op.kind = "message" /\ op.preState = "idle" /\ m.delivery # "started" THEN "refuse"
       ELSE IF startedAfter \/ steeredInto THEN
          IF \/ a.state # "idle" \/ a.active # 0 \/ ~advancesFence(a.fence, m.at)
             \/ startedAfter /\ a.turns[m.turn] # "none"
          THEN "refuse" ELSE IF steeredInto THEN "acceptSettled" ELSE "accept"
       ELSE IF a.state # op.preState \/ a.active # op.preTurn \/ a.fence # op.preFence THEN "refuse"
       ELSE IF ~advancesFence(op.preFence, m.at) THEN "unresolved"
       ELSE IF \/ m.delivery = "steered" /\ a.active # m.turn
               \/ m.delivery = "started" /\ a.turns[m.turn] # "none" THEN "refuse"
       ELSE "accept"

refuseDelivery(a, o) ==
    [a EXCEPT !.state = IF a.ops[o].kind = "start" THEN "unavailable" ELSE "recovering",
              !.ops[o].state = "indeterminate"]

acceptDelivery(a, m) ==
    LET verdict == decideAcceptance(a, m)
        settled == verdict = "acceptSettled"
        next == [a EXCEPT !.state = IF settled THEN @ ELSE "working",
                          !.thread = TRUE,
                          !.active = IF settled THEN @ ELSE m.turn,
                          !.turns[m.turn] = IF @ = "none" THEN "inProgress" ELSE @,
                          !.ops[m.op] = [@ EXCEPT !.state = "accepted", !.turn = m.turn,
                                                  !.delivery = m.delivery, !.fence = m.at],
                          !.fence = m.at]
    IN CASE verdict = "conflict" -> Out("ignored", a)
         [] verdict = "replayed" -> Out("applied", a)
         [] verdict = "unresolved" -> Out("reconcile", a)
         [] verdict = "refuse" /\ a.ops[m.op].state # "requested" -> Out("applied", a)
         [] OTHER -> LET kept == IF verdict = "refuse" THEN refuseDelivery(a, m.op) ELSE next
                     IN IF Storable(kept) THEN Out("applied", kept) ELSE Out("reconcile", a)

applyRejection(a, m) ==
    IF m.op = 0 \/ a.ops[m.op].state # "requested" THEN Out("ignored", a)
    ELSE LET kind == a.ops[m.op].kind IN
         Stored(a, [a EXCEPT !.state = CASE kind = "start" -> "unavailable"
                                         [] kind = "message" -> "recovering"
                                         [] OTHER -> @,
                             !.pending = IF @ = m.op THEN 0 ELSE @,
                             !.ops[m.op].state = "indeterminate"])

applyInterruptOutcome(a, m) ==
    LET standing == classifyEventFence(a.fence, m.at)
        delivered == m.kind = "interruptResult"
    IN IF a.pending # m.op \/ a.ops[m.op].turn # m.turn \/ standing = "duplicate" THEN Out("ignored", a)
       ELSE IF standing = "foreign" THEN Out("reconcile", a)
       ELSE Stored(a, [a EXCEPT !.pending = IF delivered THEN @ ELSE 0,
                                !.ops[m.op].state = IF delivered THEN "accepted" ELSE "indeterminate",
                                !.ops[m.op].fence = IF delivered THEN m.at ELSE NoFence,
                                !.fence = m.at])

applyReconciliation(a, m) ==
    IF ~a.thread \/ classifyEventFence(a.fence, m.at) = "duplicate" THEN Out("ignored", a)
    ELSE Stored(a, [a EXCEPT !.state = IF a.active = 0 THEN "idle"
                                       ELSE IF m.turn = a.active /\ m.delivery = "inProgress" THEN "working"
                                       ELSE "recovering",
                             !.fence = m.at])

withTerminal(a, m) ==
    [a EXCEPT !.state = "idle", !.active = 0, !.pending = 0, !.turns[m.turn] = "settled", !.fence = m.at,
              !.ops = [o \in OpIds |->
                  IF @[o].kind = "stop" /\ @[o].state = "requested" /\ @[o].turn = m.turn
                  THEN [@[o] EXCEPT !.state = "accepted", !.fence = m.at] ELSE @[o]]]

applyEvent(a, m) ==
    LET standing == classifyEventFence(a.fence, m.at) IN
    IF ~a.thread \/ standing = "duplicate" THEN Out("ignored", a)
    ELSE IF standing = "foreign" \/ a.turns[m.turn] = "none" THEN Out("reconcile", a)
    ELSE IF a.turns[m.turn] = "settled" THEN Out("ignored", a)
    ELSE IF a.active # m.turn THEN Out("reconcile", a)
    ELSE Stored(a, IF m.kind = "activity" THEN [a EXCEPT !.fence = m.at] ELSE withTerminal(a, m))

applied(a, m) ==
    CASE m.kind \in {"activity", "terminal"} -> applyEvent(a, m)
      [] m.kind = "accepted" -> acceptDelivery(a, m)
      [] m.kind = "rejected" -> applyRejection(a, m)
      [] m.kind = "reconciled" -> applyReconciliation(a, m)
      [] OTHER -> applyInterruptOutcome(a, m)

-----------------------------------------------------------------------------
(* The relay. Its steps take and return g: the record, the relay's state and *)
(* what is sent to the daemon.                                               *)

Command(kind, op, turn, at) == [kind |-> kind, op |-> op, turn |-> turn, at |-> at]

isAskable(a) == a.thread
needsReconciliation(a) == isAskable(a) /\ a.state \in {"working", "recovering"}

requestReconciliation(g, a) ==
    IF ~isAskable(a) \/ g.relay.reconciling \/ ~daemonLinked THEN g
    ELSE [g EXCEPT !.relay.reconciling = TRUE,
                   !.sent = Append(@, Command("reconcile", 0, a.active, NoFence))]

\* The stream is acknowledged below its lowest undecided frame.
acknowledge(g, s) ==
    LET p == g.relay.streams[s]
        lowest == IF p.undecided = {} THEN p.decided + 1 ELSE Min(p.undecided)
        through == Min({p.decided, lowest - 1})
    IN IF through <= p.through THEN g
       ELSE [g EXCEPT !.relay.streams[s].through = through,
                      !.sent = Append(@, Command("ack", 0, 0, <<s[1], s[2], through>>))]

advance(g, m, hold) ==
    LET s == StreamOf(m.at)
        p == g.relay.streams[s]
    IN IF hold THEN [g EXCEPT !.relay.streams[s].undecided = @ \cup {m.at[3]}]
       ELSE acknowledge([g EXCEPT !.relay.streams[s] =
                             [p EXCEPT !.undecided = @ \ {m.at[3]}, !.decided = Max({@, m.at[3]})]], s)

IsEvent(m) == m.kind \in {"activity", "terminal"}

\* Held once, as replays repeat it.
defer(g, m) ==
    IF \E h \in g.relay.held : IsEvent(h) = IsEvent(m) /\ h.at[3] = m.at[3] THEN g
    ELSE [g EXCEPT !.relay.held = @ \cup {m}]

settle(g, m, out) ==
    LET next == [g EXCEPT !.agent = out.agent]
        repairable == out.is = "failed" \/ (out.is = "reconcile" /\ isAskable(out.about))
        held == IF repairable THEN defer(next, m) ELSE next
        asked == IF repairable /\ out.is = "reconcile" THEN requestReconciliation(held, out.about) ELSE held
    IN IF m.kind = "rejected" THEN asked ELSE advance(asked, m, repairable)

\* By event id, whatever the stream; frames of one event id came in the order of their children.
Before(m, n) ==
    \/ m.at[3] < n.at[3]
    \/ m.at[3] = n.at[3] /\ (m.at[1] < n.at[1] \/ (m.at[1] = n.at[1] /\ m.at[2] < n.at[2]))

\* Every stream is released and acknowledged as far as it is decided.
releaseStreams(g) ==
    LET streams == g.relay.streams
        due == {s \in Streams : streams[s].decided > streams[s].through}
    IN [g EXCEPT !.relay.streams = [s \in Streams |->
                     [streams[s] EXCEPT !.undecided = {}, !.through = Max({@, streams[s].decided})]],
                 !.sent = @ \o SetToSeq({Command("ack", 0, 0, <<s[1], s[2], streams[s].decided>>) : s \in due})]

\* An applied reconciliation supersedes what is undecided, then what was held
\* is put again (Drain), before the rest of an earlier drain.
drainDeferred(g) ==
    LET emptied == [g EXCEPT !.relay.held = {}]
    IN releaseStreams([emptied EXCEPT !.relay.draining = <<g.relay.held>> \o @])

\* An answer to a reconciliation ends its guard and, when applied, drains what was held.
reduceFrame(g, m) ==
    LET out == applied(g.agent, m)
        next == settle(g, m, out)
        answer == m.kind = "reconciled" \/ (m.kind = "rejected" /\ m.op = 0)
        cleared == [next EXCEPT !.relay.reconciling = FALSE]
    IN IF ~answer \/ ~next.relay.reconciling THEN next
       ELSE IF out.is = "applied" THEN drainDeferred(cleared) ELSE cleared

onHello(g) ==
    LET cleared == [g EXCEPT !.relay.reconciling = FALSE] IN
    IF needsReconciliation(g.agent) \/ g.relay.held # {}
    THEN requestReconciliation(cleared, g.agent) ELSE cleared

\* A break, of a kind that has not happened yet.
Break(kind) == kind \in AgentFaults \ broken /\ Cardinality(broken) < MaxBroken /\ broken' = broken \cup {kind}

\* A step of the gateway: what it sends goes out while the socket stands.
Gateway(g) ==
    /\ agent' = g.agent /\ agentRelay' = g.relay
    /\ agentDown' = IF daemonLinked THEN agentDown \o g.sent ELSE agentDown

Here == [agent |-> agent, relay |-> agentRelay, sent |-> <<>>]

-----------------------------------------------------------------------------
(* The owner's operations *)

FreeOp(o) == agent.ops[o] = NoOp /\ \A p \in OpIds : p < o => agent.ops[p] # NoOp
Intent(kind, state, turn) ==
    [NoOp EXCEPT !.kind = kind, !.state = state, !.preState = agent.state, !.preTurn = agent.active,
                 !.preFence = agent.fence, !.turn = turn]
Ready == /\ agent.thread /\ agent.state \in {"idle", "working"}
         /\ agent.pending = 0 /\ ~hasPendingPrompt(agent)
GatewayOnly == UNCHANGED <<daemon, serverTurns, agentUp, daemonLinked, broken>>
\* Commit the record and, when there is a command, dispatch it.
Begin(next, commands) ==
    /\ Storable(next)
    /\ Gateway([agent |-> next, relay |-> agentRelay, sent |-> commands])
    /\ GatewayOnly

beginStart ==
    /\ agent = NoAgent
    /\ Begin([agent EXCEPT !.state = "creating",
                           !.ops[1] = [NoOp EXCEPT !.kind = "start", !.state = "requested", !.preState = "creating"]],
             <<Command("start", 1, 0, NoFence)>>)

beginMessage ==
    \E o \in OpIds :
        /\ FreeOp(o) /\ Ready
        /\ Begin([agent EXCEPT !.ops[o] = Intent("message", "requested", 0)],
                 <<Command("message", o, agent.active, NoFence)>>)

beginStop ==
    \E o \in OpIds :
        /\ FreeOp(o) /\ Ready
        /\ IF agent.state = "idle"
           THEN Begin([agent EXCEPT !.ops[o] = Intent("stop", "accepted", 0)], <<>>)
           ELSE Begin([agent EXCEPT !.ops[o] = Intent("stop", "requested", agent.active), !.pending = o],
                      <<Command("interrupt", o, agent.active, NoFence)>>)

\* The caller's wait for the acceptance ends.
abandonDelivery ==
    \E o \in OpIds :
        /\ agent.ops[o].kind = "message" /\ agent.ops[o].state = "requested"
        /\ Begin(refuseDelivery(agent, o), <<>>)

\* The owner lists its agents.
reconcileStale ==
    /\ needsReconciliation(agent) /\ ~agentRelay.reconciling /\ daemonLinked
    /\ Gateway(requestReconciliation(Here, agent))
    /\ GatewayOnly

\* The guard of a reconciliation that is not answered runs out.
GuardLapses ==
    /\ agentRelay.reconciling
    /\ Break("lapse")
    /\ agentRelay' = [agentRelay EXCEPT !.reconciling = FALSE]
    /\ UNCHANGED <<agent, agentDown, daemon, serverTurns, agentUp, daemonLinked>>

-----------------------------------------------------------------------------
(* Frames at the gateway *)

FrameArrives ==
    /\ agentUp # <<>>
    /\ agentUp' = Tail(agentUp)
    /\ LET m == Head(agentUp) IN
       Gateway(IF m.kind = "hello" THEN onHello(Here) ELSE reduceFrame(Here, m))
    /\ UNCHANGED <<daemon, serverTurns, daemonLinked, broken>>

\* The next of the frames that are put again, by event id; nothing comes in between.
Drain ==
    /\ agentRelay.draining # <<>>
    /\ LET frames == Head(agentRelay.draining)
           rest == Tail(agentRelay.draining)
       IN \/ frames = {} /\ Gateway([Here EXCEPT !.relay.draining = rest])
          \/ \E m \in frames :
                /\ \A n \in frames : ~Before(n, m)
                /\ Gateway(reduceFrame([Here EXCEPT !.relay.draining = <<frames \ {m}>> \o rest], m))
    /\ GatewayOnly

\* The catalog is not written: the record stays as it was and the frame waits,
\* for a reconciliation of the agent as the frame would have left it (an
\* acceptance: as it is, and that of a start has no thread and is let go).
CommitFails ==
    /\ Break("commit")
    /\ agentUp # <<>> /\ Head(agentUp).kind # "hello"
    /\ applied(agent, Head(agentUp)).agent # agent
    /\ agentUp' = Tail(agentUp)
    /\ LET m == Head(agentUp)
           out == Out("reconcile", agent)
           next == settle(Here, m, IF m.kind = "accepted" THEN out
                                   ELSE [out EXCEPT !.about = applied(agent, m).agent])
       IN Gateway(IF m.kind = "reconciled" THEN [next EXCEPT !.relay.reconciling = FALSE] ELSE next)
    /\ UNCHANGED <<daemon, serverTurns, daemonLinked>>

-----------------------------------------------------------------------------
(* The daemon *)

Reliable(m) == m.kind # "activity"

\* Frames get the child's next event ids; the reliable ones are kept.
publish(d, frames) ==
    LET stamped == [i \in DOMAIN frames |->
                       [frames[i] EXCEPT !.at = <<d.inst, d.child, d.nextEvent + i - 1>>]]
    IN /\ daemon' = [d EXCEPT !.nextEvent = @ + Len(frames),
                              !.outbox = @ \cup {m \in Range(stamped) : Reliable(m)}]
       /\ agentUp' = IF daemonLinked THEN agentUp \o stamped ELSE agentUp

reject(c) ==
    /\ UNCHANGED <<daemon, serverTurns>>
    /\ agentUp' = Append(agentUp, Frame("rejected", c.op, 0, "none", NoFence))

CanServe == daemon.serving \/ daemon.child < MaxChildren
\* The session that serves the target, a new child when there is none.
acquireSession ==
    IF daemon.serving THEN daemon
    ELSE Session(daemon.inst, daemon.child + 1, TRUE, daemon.outbox)

Running == {t \in TurnIds : serverTurns[t] = "running"}
FreeTurn(t) == serverTurns[t] = "none" /\ \A u \in TurnIds : u < t => serverTurns[u] # "none"
\* A turn is started; while another one runs it is refused and that one is taken.
beginTurn(t) == IF Running # {} THEN t \in Running ELSE FreeTurn(t)

runPrompt(c) ==
    \E t \in TurnIds :
        /\ beginTurn(t)
        /\ serverTurns' = [serverTurns EXCEPT ![t] = "running"]
        /\ publish([acquireSession EXCEPT !.bound = @ \cup {t}], <<Frame("accepted", c.op, t, "started", NoFence)>>)
        /\ UNCHANGED broken

\* The turn ends before the answer to its start: what was buffered for it is
\* published when the answer comes, ahead of the acceptance.
runPromptEarly(c) ==
    \E t \in TurnIds :
        /\ Running = {} /\ FreeTurn(t)
        /\ Break("early")
        /\ serverTurns' = [serverTurns EXCEPT ![t] = "ended"]
        /\ publish([acquireSession EXCEPT !.published = @ \cup {t}],
                   <<Frame("terminal", 0, t, "none", NoFence), Frame("accepted", c.op, t, "started", NoFence)>>)

runMessage(c) ==
    IF daemon.serving /\ c.turn \in daemon.bound
    THEN publish(daemon, <<Frame("accepted", c.op, c.turn, "steered", NoFence)>>) /\ UNCHANGED <<serverTurns, broken>>
    ELSE runPrompt(c) \/ runPromptEarly(c)

runInterrupt(c) ==
    /\ publish(acquireSession,
               <<Frame(IF c.turn \in Running THEN "interruptResult" ELSE "interruptFailed", c.op, c.turn, "none", NoFence)>>)
    /\ UNCHANGED serverTurns

\* What the thread says of the turn, or nothing when it cannot be read.
Observe(t, seen) ==
    \/ t = 0 /\ seen = "none" /\ UNCHANGED broken
    \/ t # 0 /\ seen = (IF t \in Running THEN "inProgress" ELSE "settled") /\ UNCHANGED broken
    \/ t # 0 /\ seen = "none" /\ Break("read")

\* Mutant: the terminal goes first, under the fence it is to be placed by.
answersReversed(d, turn, seen) ==
    IF seen = "settled" /\ turn \notin d.published
    THEN <<Frame("terminal", 0, turn, "none", NoFence), Frame("reconciled", 0, turn, seen, NoFence)>>
    ELSE <<Frame("reconciled", 0, turn, seen, NoFence)>>

\* The answer installs the fence; a turn that ended and was not reported
\* under this child is reported after it.
answers(d, turn, seen) ==
    <<Frame("reconciled", 0, turn, seen, NoFence)>>
    \o IF seen = "settled" /\ turn \notin d.published
       THEN <<Frame("terminal", 0, turn, "none", NoFence)>> ELSE <<>>

runReconcile(c) ==
    \E seen \in {"none", "inProgress", "settled"} :
        /\ Observe(c.turn, seen)
        /\ publish([acquireSession EXCEPT
                        !.bound = CASE seen = "inProgress" -> @ \cup {c.turn}
                                    [] seen = "settled" -> @ \ {c.turn}
                                    [] OTHER -> @,
                        !.published = IF seen = "settled" THEN @ \cup {c.turn} ELSE @],
                   answers(acquireSession, c.turn, seen))
        /\ UNCHANGED serverTurns

\* The generation and the event id are compared, the daemon's instance is not.
acknowledgeOutbox(c) ==
    /\ daemon' = [daemon EXCEPT !.outbox = {m \in @ : ~(m.at[2] = c.at[2] /\ m.at[3] <= c.at[3])}]
    /\ UNCHANGED <<agentUp, serverTurns>>

CommandArrives ==
    /\ agentDown # <<>> /\ daemonLinked
    /\ agentDown' = Tail(agentDown)
    /\ daemon.nextEvent <= MaxEventId
    /\ LET c == Head(agentDown) IN
       \/ c.kind = "ack" /\ acknowledgeOutbox(c) /\ UNCHANGED broken
       \/ c.kind = "start" /\ CanServe /\ (runPrompt(c) \/ runPromptEarly(c))
       \/ c.kind = "message" /\ CanServe /\ runMessage(c)
       \/ c.kind = "interrupt" /\ CanServe /\ runInterrupt(c) /\ UNCHANGED broken
       \/ c.kind = "reconcile" /\ CanServe /\ runReconcile(c)
       \/ c.kind # "ack" /\ reject(c)
          /\ IF CanServe THEN Break("refused") ELSE UNCHANGED broken
    /\ UNCHANGED <<agent, agentRelay, daemonLinked>>

DaemonOnly == UNCHANGED <<agent, agentRelay, agentDown, daemonLinked, broken>>

\* A running turn says something.
onCommentary ==
    \E t \in Running :
        /\ daemon.serving /\ daemon.nextEvent < MaxEventId
        /\ publish(daemon, <<Frame("activity", 0, t, "none", NoFence)>>)
        /\ UNCHANGED serverTurns /\ DaemonOnly

\* A running turn ends: its terminal is published once under this child.
publishTerminal ==
    \E t \in Running :
        /\ daemon.serving /\ daemon.nextEvent <= MaxEventId
        /\ serverTurns' = [serverTurns EXCEPT ![t] = "ended"]
        /\ publish([daemon EXCEPT !.bound = @ \ {t}, !.published = @ \cup {t}],
                   <<Frame("terminal", 0, t, "none", NoFence)>>)
        /\ DaemonOnly

EndRunning == serverTurns' = [t \in TurnIds |-> IF t \in Running THEN "ended" ELSE serverTurns[t]]

\* The child exits, is retired for a stuck turn or is reaped.
release ==
    /\ daemon.serving
    /\ daemon' = [daemon EXCEPT !.serving = FALSE]
    /\ EndRunning
    /\ UNCHANGED agentUp /\ DaemonOnly

-----------------------------------------------------------------------------
(* Breaks *)

Cut(kind) == Break(kind) /\ daemonLinked' = FALSE /\ agentUp' = <<>> /\ agentDown' = <<>>

SocketDrops == daemonLinked /\ Cut("socket") /\ UNCHANGED <<agent, agentRelay, daemon, serverTurns>>

\* The catalog is durable, the relay's state is not.
GatewayStops == Cut("gateway") /\ agentRelay' = NewRelay /\ UNCHANGED <<agent, daemon, serverTurns>>

DaemonStops ==
    /\ Cut("daemon")
    /\ daemon' = Session(daemon.inst + 1, 0, FALSE, {})
    /\ EndRunning
    /\ UNCHANGED <<agent, agentRelay>>

\* Frames in the order of their event ids.
InOrder(frames) ==
    [i \in 1..Cardinality(frames) |->
        CHOOSE m \in frames : Cardinality({n \in frames : Before(n, m)}) = i - 1]

\* A hello, then every frame that was kept.
connect ==
    /\ ~daemonLinked
    /\ daemonLinked' = TRUE
    /\ agentUp' = <<Frame("hello", 0, 0, "none", NoFence)>> \o InOrder(daemon.outbox)
    /\ UNCHANGED <<agent, agentRelay, daemon, serverTurns, agentDown, broken>>

AgentNext ==
    \/ Drain
    \/ /\ agentRelay.draining = <<>>
       /\ \/ beginStart \/ beginMessage \/ beginStop \/ abandonDelivery \/ reconcileStale \/ GuardLapses
          \/ FrameArrives \/ CommitFails
          \/ CommandArrives \/ onCommentary \/ publishTerminal \/ release
          \/ SocketDrops \/ GatewayStops \/ DaemonStops \/ connect

AgentSpec == AgentInit /\ [][AgentNext]_agentVars

-----------------------------------------------------------------------------
(* Properties *)

FramesAround == Range(agentUp) \cup daemon.outbox \cup agentRelay.held \cup UNION Range(agentRelay.draining)

\* No frame that is on its way, kept or held makes a record the schema
\* refuses: such a frame would be held with nothing to release it
\* (codexAgentApply.applyEvent, "event did not produce a valid record").
FramesPlaceable ==
    \A m \in FramesAround : m.kind = "terminal" => applied(agent, m).is # "failed"

\* The turn a record waits on has a way to its end: it runs, or its child has
\* not reported it, or the report is kept by the daemon. A report that is
\* gone while the record still waits would not come again from this child
\* (ThreadLifecycle.accept publishes a turn once). A failed commit, and a turn
\* that ends before the answer to its start, do lose the report; so does a stop
\* of both sides, after which a late ack of the former daemon's stream drops
\* the report of the new one (acknowledgeOutbox).
ReportLost == broken \cap {"commit", "early"} # {} \/ {"gateway", "daemon"} \subseteq broken
TerminalKept ==
    ~ReportLost /\ agent.active # 0 /\ daemon.serving /\ agent.active \in daemon.published =>
        \E m \in daemon.outbox : m.kind = "terminal" /\ m.turn = agent.active

\* An interrupt that waits is the one the record names: none is forgotten
\* when its turn ends, is refused or fails (codexAgentReducers.withTerminal).
StopAwaited ==
    \A o \in OpIds : agent.ops[o].kind = "stop" /\ agent.ops[o].state = "requested" => agent.pending = o

\* What a record waits for can still come, and a frame that comes can be placed
\* (codexAgentApply.ts, codexAgentReducers.ts).
AgentSettles == FramesPlaceable /\ TerminalKept /\ StopAwaited
=============================================================================
