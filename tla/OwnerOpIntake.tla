---------------------------- MODULE OwnerOpIntake ----------------------------
(***************************************************************************)
(* The way of an owner's write to a Router-held value: the phone's queue   *)
(* (BoardRouterWriter.kt), signed posts that may arrive late or twice, the *)
(* intake (ownerOpIntake.ts) with its cache of answers and its durable     *)
(* nonces, and a handler that records its answer under the operation id    *)
(* (boardService.write). Every post of a queued write carries the write's  *)
(* operation id under a nonce of its own. The handler runs at once; the    *)
(* nonce is spent and the answer given after the handler's promise, so the *)
(* Router may stop in between.                                             *)
(***************************************************************************)
EXTENDS Naturals, Sequences, SequencesExt, FiniteSets

CONSTANTS
    QueuedWrites,   \* operation ids of the phone's queue
    MaxNonces,      \* bound: posts signed
    MaxCached,      \* maxCachedAnswers
    RefusalsLost    \* whether the store may lose the record of a refusal (never checked)

ASSUME IntakeAssumption == MaxNonces \in Nat /\ MaxCached \in Nat

VARIABLES
    queue,      \* write -> "queued", "applied", "refused" or "empty": what the phone knows
    posted,     \* <<write of nonce 1, write of nonce 2, ...>>
    fresh,      \* nonces whose post is not stale yet
    waiting,    \* nonce the phone waits for, or 0
    cache,      \* nonces of the cached answers, oldest first
    running,    \* handlers that ran and whose answer is not settled: [nonce, res, turn]
    settled,    \* nonce -> settled answer in the cache, or "none"
    nonces,     \* durable nonces
    record,     \* write -> recorded answer, or "none" (board.op)
    runs        \* write -> times it was applied

intakeVars == <<queue, posted, fresh, waiting, cache, running, settled, nonces, record, runs>>

Nonces == 1 .. Len(posted)
Turns(n) == {r.turn : r \in {x \in running : x.nonce = n}}

-----------------------------------------------------------------------------
(* The phone *)

\* drainQueue signs the next write of the queue under a fresh nonce. A post
\* given up on stays fresh: it may still arrive.
Post(w) ==
    /\ queue[w] = "queued" /\ waiting = 0 /\ Len(posted) < MaxNonces
    /\ posted' = Append(posted, w)
    /\ fresh' = fresh \cup {Len(posted) + 1}
    /\ waiting' = Len(posted) + 1
    /\ UNCHANGED <<queue, cache, running, settled, nonces, record, runs>>

\* What an answer makes of the write: a conflict, an uncertain or migrating
\* answer and the intake's own refusals leave it queued.
Learn(n, answer) ==
    IF n # waiting THEN UNCHANGED <<queue, waiting>>
    ELSE /\ waiting' = 0
         /\ queue' = IF answer \in {"applied", "refused"} THEN [queue EXCEPT ![posted[n]] = answer] ELSE queue

\* A write that materializes to nothing on the board held now is retired.
RetireEmpty(w) ==
    /\ queue[w] = "queued" /\ waiting = 0
    /\ queue' = [queue EXCEPT ![w] = "empty"]
    /\ UNCHANGED <<posted, fresh, waiting, cache, running, settled, nonces, record, runs>>

GiveUp ==
    /\ waiting # 0 /\ waiting' = 0
    /\ UNCHANGED <<queue, posted, fresh, cache, running, settled, nonces, record, runs>>

-----------------------------------------------------------------------------
(* The handler: boardService.write *)

\* A recorded answer is given again; otherwise the batch applies and records,
\* is refused and recorded, meets another revision, or is not kept by the
\* store, and then the refusal may not be kept either.
HandlerRuns(w, res) ==
    IF record[w] # "none"
    THEN res = record[w] /\ UNCHANGED <<record, runs>>
    ELSE \/ /\ res = "applied"
            /\ record' = [record EXCEPT ![w] = "applied"]
            /\ runs' = [runs EXCEPT ![w] = @ + 1]
         \/ /\ res = "refused"
            /\ record' \in {[record EXCEPT ![w] = "refused"]} \cup (IF RefusalsLost THEN {record} ELSE {})
            /\ UNCHANGED runs
         \/ res = "conflict" /\ UNCHANGED <<record, runs>>

-----------------------------------------------------------------------------
(* The intake *)

Cached(n) == Contains(cache, n)
Dropped(n) == IF Cached(n) THEN RemoveAt(cache, CHOOSE i \in 1 .. Len(cache) : cache[i] = n) ELSE cache
Evicted(c) == IF Len(c) > MaxCached THEN Tail(c) ELSE c

\* The post arrives, perhaps again: a cached answer is given (a running one is
\* awaited), a spent nonce is refused as a replay, a fence whose leases are not
\* ready refuses (it comes and goes between any two posts), and otherwise the handler runs and the answer is awaited.
Arrive(n) ==
    /\ n \in fresh
    /\ \/ /\ Cached(n) /\ settled[n] # "none" /\ Learn(n, settled[n])
          /\ UNCHANGED <<posted, fresh, cache, running, settled, nonces, record, runs>>
       \/ /\ ~Cached(n) /\ n \in nonces /\ Learn(n, "replay")
          /\ UNCHANGED <<posted, fresh, cache, running, settled, nonces, record, runs>>
       \/ /\ ~Cached(n) /\ n \notin nonces /\ Learn(n, "migrating")
          /\ UNCHANGED <<posted, fresh, cache, running, settled, nonces, record, runs>>
       \/ /\ ~Cached(n) /\ n \notin nonces /\ Cardinality(Turns(n)) < 2
          /\ \E res \in {"applied", "refused", "conflict"}, turn \in {1, 2} \ Turns(n) :
                /\ HandlerRuns(posted[n], res)
                /\ running' = running \cup {[nonce |-> n, res |-> res, turn |-> turn]}
          /\ cache' = Evicted(Append(cache, n))
          /\ settled' = [settled EXCEPT ![n] = "none"]
          /\ UNCHANGED <<queue, posted, fresh, waiting, nonces>>

\* The nonce is spent and the answer given, to the phone and to the cache; when
\* the store does not keep the nonce the answer is uncertain and not cached.
SettleSpent(r) ==
    /\ r.nonce \notin nonces
    /\ nonces' = nonces \cup {r.nonce}
    /\ settled' = [settled EXCEPT ![r.nonce] = r.res]
    /\ Learn(r.nonce, r.res)
    /\ UNCHANGED cache

\* Mutant: a nonce the store did not keep refuses the operation.
SettleRefused(r) ==
    /\ cache' = Dropped(r.nonce)
    /\ settled' = [settled EXCEPT ![r.nonce] = "none"]
    /\ Learn(r.nonce, "refused")
    /\ UNCHANGED nonces

SettleUncertain(r) ==
    /\ cache' = Dropped(r.nonce)
    /\ settled' = [settled EXCEPT ![r.nonce] = "none"]
    /\ Learn(r.nonce, "uncertain")
    /\ UNCHANGED nonces

Settle(r) ==
    /\ running' = running \ {r}
    /\ SettleSpent(r) \/ SettleUncertain(r)
    /\ UNCHANGED <<posted, fresh, record, runs>>

\* REGISTER_MAX_SKEW_MS after its signing a post is refused as stale, its
\* cached answer expires and its nonce is swept.
Stale(n) ==
    /\ n \in fresh /\ Turns(n) = {} /\ waiting # n
    /\ fresh' = fresh \ {n}
    /\ nonces' = nonces \ {n}
    /\ cache' = Dropped(n)
    /\ UNCHANGED <<queue, posted, waiting, running, settled, record, runs>>

\* The Router restarts: what is in memory is gone.
RouterRestarts ==
    /\ cache' = << >> /\ running' = {}
    /\ settled' = [n \in 1 .. MaxNonces |-> "none"]
    /\ UNCHANGED <<queue, posted, fresh, waiting, nonces, record, runs>>

\* sweepTrash drops recorded answers a week old. The phone has drained its
\* queue by then, and no post is that old.
PruneRecord(w) ==
    /\ queue[w] # "queued" /\ record[w] # "none"
    /\ \A n \in fresh : posted[n] # w
    /\ record' = [record EXCEPT ![w] = "none"]
    /\ UNCHANGED <<queue, posted, fresh, waiting, cache, running, settled, nonces, runs>>

IntakeInit ==
    /\ queue = [w \in QueuedWrites |-> "queued"]
    /\ posted = << >> /\ fresh = {} /\ waiting = 0
    /\ cache = << >> /\ running = {} /\ settled = [n \in 1 .. MaxNonces |-> "none"]
    /\ nonces = {} /\ record = [w \in QueuedWrites |-> "none"]
    /\ runs = [w \in QueuedWrites |-> 0]

IntakeNext ==
    \/ \E w \in QueuedWrites : Post(w) \/ RetireEmpty(w) \/ PruneRecord(w)
    \/ GiveUp
    \/ \E n \in Nonces : Arrive(n) \/ Stale(n)
    \/ \E r \in running : Settle(r)
    \/ RouterRestarts

IntakeSpec == IntakeInit /\ [][IntakeNext]_intakeVars

-----------------------------------------------------------------------------
(* Properties *)

IntakeTypeOK ==
    /\ queue \in [QueuedWrites -> {"queued", "applied", "refused", "empty"}]
    /\ posted \in Seq(QueuedWrites) /\ fresh \subseteq Nonces /\ waiting \in 0 .. Len(posted)
    /\ \A i \in DOMAIN cache : cache[i] \in Nonces
    /\ Len(cache) <= MaxCached
    /\ running \subseteq [nonce : Nonces, res : {"applied", "refused", "conflict"}, turn : {1, 2}]
    /\ nonces \subseteq fresh

\* A queued write is applied at most once, however often it is posted, however
\* its posts are doubled or late, and wherever the Router stopped between
\* applying it and spending its nonce.
AppliedOnce == \A w \in QueuedWrites : runs[w] <= 1

\* What the phone settles a write as is what became of it: applied once, or
\* refused and never applied by a post that is still on its way.
AnswerTrue ==
    \A w \in QueuedWrites :
        /\ queue[w] = "applied" => runs[w] = 1
        /\ queue[w] = "refused" => runs[w] = 0

\* A queued write has one outcome, and it is the one the phone is told (ownerOpIntake.ts,
\* BoardRouterWriter.kt).
WriteSettled == IntakeTypeOK /\ AppliedOnce /\ AnswerTrue
=============================================================================
