-------------------------------- MODULE Board --------------------------------
(***************************************************************************)
(* The task board of one Domain: boardService.ts with the rules it takes   *)
(* from shared/board-*.ts. The board is a set of entries linked by parent  *)
(* pointers; every write is a batch of operations of one actor, refused or *)
(* applied whole, followed by the promotion of orphans, the cycle check    *)
(* and the cascade of terminal states along the live tree. Titles, ranks   *)
(* and attachments only matter by their being acceptable ("sound").        *)
(* Handlers run to completion: a write never meets another one half-way.   *)
(***************************************************************************)
EXTENDS Naturals, Sequences, SequencesExt, FiniteSets, TLC

CONSTANTS
    Entries,        \* entry ids, in the order the store lists them
    BoardSessions,  \* sessions that may hold entries
    Batches,        \* the batches of operations a writer may send
    MaxEntries,     \* MAX_ENTRIES_PER_OWNER
    MaxRevision     \* bound: writes explored

VARIABLES
    board,      \* Entries -> entry record or Absent
    revision,   \* board.meta
    registered, \* sessions the inbox knows
    lastWrite,  \* the writer of the last commit, the rows it appended and those it could not
    cutShort    \* observer: a cascade was stopped at its ceiling

boardVars == <<board, revision, registered, lastWrite, cutShort>>

Absent == [state |-> "absent"]
Nobody == "nobody"
NoParent == "none"
Owner == "owner"
BoardStates == {"open", "done", "cancelled"}   \* in_progress and paused act as open
EntryRecords == [state : BoardStates, parent : Entries \cup {NoParent},
                 holder : BoardSessions \cup {Nobody}, trash : {"live", "trashed", "expired"}]
Entry(state, parent, holder, trash) ==
    [state |-> state, parent |-> parent, holder |-> holder, trash |-> trash]
Operations ==
    [kind : {"upsert"}, id : Entries, parent : Entries \cup {NoParent}, state : BoardStates,
     session : BoardSessions \cup {Nobody}, sound : BOOLEAN, trashed : BOOLEAN]
    \cup [kind : {"remove", "trash", "restore"}, id : Entries]
    \cup [kind : {"set_state"}, id : Entries, state : BoardStates]
    \cup [kind : {"set_parent"}, id : Entries, parent : Entries \cup {NoParent}]
    \cup [kind : {"set_session"}, id : Entries, session : BoardSessions \cup {Nobody}]
    \cup [kind : {"set_content"}, id : Entries, sound : BOOLEAN]

\* No entry and no session has the name of what is not one.
ASSUME BoardAssumption ==
    /\ IsFiniteSet(Entries) /\ NoParent \notin Entries
    /\ BoardSessions \cap {Owner, Nobody} = {}
    /\ Batches \subseteq Seq(Operations)
    /\ MaxEntries \in Nat /\ MaxRevision \in Nat

isTerminal(state) == state \in {"done", "cancelled"}
Has(es, id) == es[id] # Absent
Live(es, id) == Has(es, id) /\ es[id].trash = "live"
liveChildren(es, id) == {c \in Entries : Live(es, c) /\ es[c].parent = id}

-----------------------------------------------------------------------------
(* board-authority.ts *)

\* Sessions write held, active entries.
mayWrite(e, actor) ==
    IF actor = Owner \/ (e.trash = "live" /\ e.holder = actor) THEN "ok"
    ELSE IF e.trash # "live" THEN "entry_missing" ELSE "held"

\* Sessions take what nobody holds and drop what they hold.
mayTake(e, actor, next) ==
    IF actor = Owner \/ (e.trash = "live" /\ {e.holder, next} \subseteq {Nobody, actor}) THEN "ok"
    ELSE IF e.trash # "live" THEN "entry_missing" ELSE "held"

First(reasons) == IF \E i \in DOMAIN reasons : reasons[i] # "ok"
                  THEN reasons[CHOOSE i \in DOMAIN reasons :
                                  /\ reasons[i] # "ok"
                                  /\ \A j \in 1 .. i - 1 : reasons[j] = "ok"]
                  ELSE "ok"
Unless(ok, reason) == IF ok THEN "ok" ELSE reason

\* Why an operation is refused on the entries as the batch left them so far.
ParentRefusal(es, parent, actor) ==
    IF parent = NoParent THEN "ok"
    ELSE IF Has(es, parent) THEN mayWrite(es[parent], actor) ELSE "parent_missing"

Refusal(es, op, actor, removed) ==
    LET e == es[op.id]
        known == Unless(Has(es, op.id), "entry_missing")
        write == IF Has(es, op.id) THEN mayWrite(e, actor) ELSE "ok"
        present(s) == Unless(s = Nobody \/ s \in registered, "session_missing")
    IN CASE op.kind = "upsert" ->
              First(<< Unless(Has(es, op.id) \/ Cardinality({i \in Entries : Has(es, i)}) < MaxEntries,
                              "board_full"),
                       write, ParentRefusal(es, op.parent, actor), Unless(op.sound, "bad_rank"),
                       present(op.session),
                       IF op.session = Nobody THEN "ok"
                       ELSE IF Has(es, op.id) THEN mayTake(e, actor, op.session)
                       ELSE Unless(actor \in {Owner, op.session}, "held") >>)
         [] op.kind = "remove" ->
              First(<< known, write,
                       Unless(liveChildren(es, op.id) \subseteq removed, "would_orphan") >>)
         [] op.kind = "set_session" ->
              First(<< known, present(op.session),
                       IF Has(es, op.id) THEN mayTake(e, actor, op.session) ELSE "ok" >>)
         [] op.kind = "set_parent" ->
              First(<< known, write, ParentRefusal(es, op.parent, actor) >>)
         [] op.kind = "set_content" -> First(<< known, write, Unless(op.sound, "bad_rank") >>)
         [] OTHER -> First(<< known, write >>)

\* What an accepted operation writes.
Effect(es, op) ==
    LET e == IF Has(es, op.id) THEN es[op.id] ELSE Entry("open", NoParent, Nobody, "live")
    IN [es EXCEPT ![op.id] =
          CASE op.kind = "upsert" ->
                 Entry(op.state, IF op.parent = NoParent THEN e.parent ELSE op.parent,
                       IF op.session = Nobody THEN e.holder ELSE op.session,
                       IF op.trashed THEN "trashed" ELSE e.trash)
            [] op.kind = "remove"      -> Absent
            [] op.kind = "set_session" -> Entry(e.state, e.parent, op.session, e.trash)
            [] op.kind = "set_parent"  -> Entry(e.state, op.parent, e.holder, e.trash)
            [] op.kind = "set_state"   -> Entry(op.state, e.parent, e.holder, e.trash)
            [] op.kind = "trash"       -> Entry(e.state, e.parent, e.holder, "trashed")
            [] op.kind = "restore"     -> Entry(e.state, e.parent, e.holder, "live")
            [] OTHER                   -> e]

\* The batch, operation by operation, up to the first refusal.
ApplyOp(acc, op, actor, removed) ==
    LET why == Refusal(acc.es, op, actor, removed)
    IN CASE acc.why # "ok" -> acc
         [] acc.why = "ok" /\ why # "ok" -> [es |-> acc.es, touched |-> acc.touched, why |-> why]
         [] OTHER -> [es |-> Effect(acc.es, op),
                      touched |-> IF Contains(acc.touched, op.id) THEN acc.touched
                                  ELSE Append(acc.touched, op.id),
                      why |-> "ok"]

ApplyOps(es, ops, actor) ==
    LET removed == {ops[i].id : i \in {j \in DOMAIN ops : ops[j].kind = "remove"}}
        after[n \in 0 .. Len(ops)] ==
            IF n = 0 THEN [es |-> es, touched |-> << >>, why |-> "ok"]
            ELSE ApplyOp(after[n - 1], ops[n], actor, removed)
    IN after[Len(ops)]

-----------------------------------------------------------------------------
(* board-structure.ts and board-cascade.ts *)

Orphans(es) == {id \in Entries : Has(es, id) /\ es[id].parent # NoParent /\ ~Has(es, es[id].parent)}
\* Mutant: refusing would_orphan is thought to be enough.
promoteNothing(es) == es
promoteOrphans(es) ==
    [id \in Entries |-> IF id \in Orphans(es)
                        THEN Entry(es[id].state, NoParent, es[id].holder, es[id].trash) ELSE es[id]]

\* Walking up from an entry one meets an entry twice.
Up(es, id) == IF id = NoParent \/ ~Has(es, id) THEN NoParent ELSE es[id].parent
Cyclic(es, id) ==
    LET up[n \in 0 .. Cardinality(Entries)] == IF n = 0 THEN id ELSE Up(es, up[n - 1])
    IN up[Cardinality(Entries)] # NoParent

\* Entries that may be set aside: eligible, with every live child going too.
\* The greatest such set is the one canPrune computes on a forest.
prunableSubtrees(es, eligible) ==
    UNION {S \in SUBSET {id \in eligible : Live(es, id)} :
              \A id \in S : liveChildren(es, id) \subseteq S}

\* Parents that lost a live child between two boards.
Detached(prev, next, id) ==
    /\ Live(prev, id) /\ prev[id].parent # NoParent
    /\ ~(Live(next, id) /\ next[id].parent = prev[id].parent)
orphanedParents(prev, next, touched) ==
    LET out[n \in 0 .. Len(touched)] ==
            IF n = 0 THEN << >>
            ELSE IF Detached(prev, next, touched[n]) THEN Append(out[n - 1], prev[touched[n]].parent)
            ELSE out[n - 1]
    IN out[Len(touched)]

\* What the children of a live entry say its state should be.
settledState(es, id) ==
    LET kids == liveChildren(es, id)
        finished == \A c \in kids : isTerminal(es[c].state)
    IN CASE kids # {} /\ finished /\ ~isTerminal(es[id].state) ->
              IF \E c \in kids : es[c].state = "done" THEN "done" ELSE "cancelled"
         [] ~finished /\ isTerminal(es[id].state) -> "open"
         [] OTHER -> es[id].state

WithState(e, state) == Entry(state, e.parent, e.holder, e.trash)
Items(ids, derive) == [i \in DOMAIN ids |-> [id |-> ids[i], derive |-> derive]]

\* One turn of the work list: the last item is taken off the end.
CascadeStep(acc) ==
    LET step == Last(acc.queue)
        rest == Front(acc.queue)
        e == acc.es[step.id]
        settled == settledState(acc.es, step.id)
        down == IF isTerminal(e.state)
                THEN {c \in liveChildren(acc.es, step.id) : ~isTerminal(acc.es[c].state)} ELSE {}
    IN CASE acc.queue = << >> -> acc
         [] acc.queue # << >> /\ (~Live(acc.es, step.id) \/ (step.derive /\ settled = e.state)) ->
              [es |-> acc.es, queue |-> rest, changed |-> acc.changed]
         [] acc.queue # << >> /\ Live(acc.es, step.id) /\ step.derive /\ settled # e.state ->
              [es |-> [acc.es EXCEPT ![step.id] = WithState(e, settled)],
               queue |-> Append(rest, [id |-> step.id, derive |-> FALSE]),
               changed |-> acc.changed \cup {step.id}]
         [] OTHER ->
              [es |-> [c \in Entries |-> IF c \in down THEN WithState(acc.es[c], e.state)
                                         ELSE acc.es[c]],
               queue |-> rest \o Items(SetToSeq(down), FALSE)
                              \o Items(IF e.parent = NoParent THEN << >> ELSE <<e.parent>>, TRUE),
               changed |-> acc.changed \cup down]

\* The turns a cascade is given.
Ceiling(es) == Cardinality({id \in Entries : Has(es, id)}) * 4 + 16
applyCascade(es, written, orphaned) ==
    LET run[n \in 0 .. Ceiling(es)] ==
            IF n = 0 THEN [es |-> es, queue |-> Items(written, FALSE) \o Items(orphaned, TRUE),
                           changed |-> {}]
            ELSE CascadeStep(run[n - 1])
    IN run[Ceiling(es)]

-----------------------------------------------------------------------------
(* boardService.ts *)

\* What a batch makes of the board: the entries, everything it touched and,
\* when it is refused, why.
Outcome(es, ops, actor) ==
    LET applied == ApplyOps(es, ops, actor)
        next == promoteOrphans(applied.es)
        touched == applied.touched
                   \o SetToSeq(Orphans(applied.es) \ ToSet(applied.touched))
        cascade == applyCascade(next, touched, orphanedParents(es, next, touched))
        why == IF applied.why # "ok" THEN applied.why
               ELSE Unless(\A id \in ToSet(touched) : ~Cyclic(next, id), "cycle")
    IN [why |-> why,
        es |-> IF why = "ok" THEN cascade.es ELSE es,
        touched |-> IF why = "ok" THEN ToSet(touched) \cup cascade.changed ELSE {},
        cut |-> cascade.queue # << >>]

\* Sessions told of a change: those that held the entry, before or after, and
\* did not write it themselves.
holds(es, id, s) == Has(es, id) /\ mayWrite(es[id], s) = "ok"
observationsFor(prev, next, touched, actor) ==
    {o \in {<<s, id>> : s \in BoardSessions \ {actor}, id \in touched} :
        holds(prev, o[2], o[1]) \/ holds(next, o[2], o[1])}

\* The committed batch: the entries touched and the revision; then one row for
\* every registered session concerned. Each is appended for itself, may be refused
\* and is only warned of; a Router that stops first appends none of the rest.
Commit(out, actor, ending) ==
    /\ board' = [id \in Entries |-> IF id \in out.touched THEN out.es[id] ELSE board[id]]
    /\ revision' = revision + 1
    /\ \E due \in {{o \in observationsFor(board, out.es, out.touched, actor) : o[1] \in registered}} :
          \E rows \in SUBSET due :
             lastWrite' = [actor |-> actor, ending |-> ending, rows |-> rows, unwritten |-> due \ rows]
    /\ cutShort' = (cutShort \/ out.cut)
    /\ UNCHANGED registered

\* write, under the current revision. A refused batch, one the store did not
\* keep, one under another revision and the repeat of a recorded operation id
\* change nothing of the board (OwnerOpIntake has the recorded answers).
\* board_write of the owner; board_op of a gateway for a session it registered.
BoardWrite ==
    /\ revision < MaxRevision
    /\ \E actor \in {Owner} \cup registered, ops \in Batches :
         \E out \in {Outcome(board, ops, actor)} :
             out.why = "ok" /\ Commit(out, actor, << >>)

\* Mutant: what is trashed in the session's name stays in it.
EndOpsLive(s, disposition) ==
    LET held == SetToSeq({id \in Entries : Live(board, id) /\ board[id].holder = s})
    IN [i \in DOMAIN held |-> [kind |-> "set_session", id |-> held[i], session |-> Nobody]]

\* sessionEnded: finished work of the session is trashed, the rest released;
\* "cancel" first cancels what is unfinished. An owner's write.
SessionEndOps(s, disposition) ==
    LET ending == {id \in Entries : Has(board, id) /\ board[id].holder = s}
        dropped == {id \in ending : disposition = "cancel" /\ Live(board, id)
                                    /\ ~isTerminal(board[id].state)}
        next == [id \in Entries |-> IF id \in dropped THEN WithState(board[id], "cancelled")
                                    ELSE board[id]]
        drop == SetToSeq(dropped)
        trash == SetToSeq(prunableSubtrees(next, {id \in ending : isTerminal(next[id].state)}))
        release == SetToSeq(ending)
    IN [i \in DOMAIN drop |-> [kind |-> "set_state", id |-> drop[i], state |-> "cancelled"]]
       \o [i \in DOMAIN trash |-> [kind |-> "trash", id |-> trash[i]]]
       \o [i \in DOMAIN release |-> [kind |-> "set_session", id |-> release[i], session |-> Nobody]]

SessionEnded(s, disposition) ==
    /\ revision < MaxRevision
    /\ \E ops \in {SessionEndOps(s, disposition)} :
          /\ ops # << >>
          /\ \E out \in {Outcome(board, ops, Owner)} : out.why = "ok" /\ Commit(out, Owner, <<s, disposition>>)

\* sweepTrash: entries expired in the trash whose children are all expired too.
SweepTrash ==
    LET dead == {id \in Entries : Has(board, id) /\ board[id].trash = "expired"}
        removable == {id \in dead : \A c \in Entries :
                         Has(board, c) /\ board[c].parent = id => c \in dead}
        ids == SetToSeq(removable)
        ops == [i \in DOMAIN ids |-> [kind |-> "remove", id |-> ids[i]]]
    IN /\ revision < MaxRevision
       /\ removable # {}
       /\ \E out \in {Outcome(board, ops, Owner)} : out.why = "ok" /\ Commit(out, Owner, << >>)

\* BOARD_TRASH_TTL_MS passes over everything in the trash.
TrashAges ==
    /\ board' = [id \in Entries |-> IF Has(board, id) /\ board[id].trash = "trashed"
                                    THEN Entry(board[id].state, board[id].parent,
                                               board[id].holder, "expired")
                                    ELSE board[id]]
    /\ UNCHANGED <<revision, registered, lastWrite, cutShort>>

\* A gateway registers its sessions; one it stops naming is forgotten.
SessionsKnown ==
    /\ registered' \in SUBSET BoardSessions
    /\ UNCHANGED <<board, revision, lastWrite, cutShort>>

BoardInit ==
    /\ board = [id \in Entries |-> Absent]
    /\ revision = 0
    /\ registered = BoardSessions
    /\ lastWrite = [actor |-> Owner, ending |-> << >>, rows |-> {}, unwritten |-> {}]
    /\ cutShort = FALSE

BoardNext ==
    \/ BoardWrite
    \/ \E s \in BoardSessions, d \in {"release", "cancel"} : SessionEnded(s, d)
    \/ SweepTrash
    \/ TrashAges
    \/ SessionsKnown

BoardSpec == BoardInit /\ [][BoardNext]_boardVars

-----------------------------------------------------------------------------
(* Properties *)

BoardTypeOK ==
    /\ board \in [Entries -> EntryRecords \cup {Absent}]
    /\ revision \in 0 .. MaxRevision
    /\ registered \subseteq BoardSessions
    /\ lastWrite.actor \in {Owner} \cup BoardSessions
    /\ cutShort \in BOOLEAN

\* The stored entries are a forest: no parent pointer dangles and none leads
\* back to its entry, whatever batches, sweeps and session ends produced them.
\* Receivers rebuild the tree from the pointers (board-structure.ts:102).
Forest ==
    \A id \in Entries : Has(board, id) =>
        /\ board[id].parent # NoParent => Has(board, board[id].parent)
        /\ ~Cyclic(board, id)

\* A finished entry has no unfinished live child: however an entry was finished,
\* reopened, moved, trashed or restored, the cascade reached it, unless one was
\* stopped at its ceiling.
FinishedClosed ==
    ~cutShort => \A id \in Entries : Live(board, id) /\ isTerminal(board[id].state) =>
        \A c \in liveChildren(board, id) : isTerminal(board[c].state)

\* A session's write leaves the entries of other sessions and all that is in the
\* trash alone, but for the cascade of states and for losing a parent that went
\* away. What nobody holds it may claim, and then write, in one batch.
HeldUntouched ==
    [][\A id \in Entries : lastWrite'.actor # Owner /\ revision' # revision /\ Has(board, id)
           /\ (board[id].holder \notin {Nobody, lastWrite'.actor} \/ board[id].trash # "live") =>
         /\ Has(board', id)
         /\ board'[id].trash = board[id].trash
         /\ board'[id].holder = board[id].holder
         /\ board'[id].parent \in {board[id].parent, NoParent}]_boardVars

\* A registered session is sent a row for every change another makes to an
\* entry it holds or is given, cascades and promotions included, but for the rows
\* the Router could not append: these it never tries again (boardService.ts:363).
HoldersTold ==
    [][\A s \in registered, id \in Entries :
         board'[id] # board[id] /\ revision' # revision /\ lastWrite'.actor # s
           /\ (holds(board, id, s) \/ holds(board', id, s)) =>
                <<s, id>> \in lastWrite'.rows \cup lastWrite'.unwritten]_boardVars

\* When a session ends nothing stays in its name; when it is cancelled, what it
\* leaves on the board is finished, or open only because of somebody's
\* unfinished child.
EndedSettled ==
    [][revision' # revision /\ lastWrite'.ending # << >> =>
         \A id \in Entries : Has(board, id) /\ board[id].holder = lastWrite'.ending[1] =>
            /\ board'[id].holder = Nobody
            /\ ~cutShort' /\ lastWrite'.ending[2] = "cancel" /\ Live(board', id) /\ ~isTerminal(board'[id].state) =>
                 \E c \in liveChildren(board', id) : ~isTerminal(board'[c].state)]_boardVars

\* Whatever batches, sweeps and session ends made of it, the board is a forest in
\* which nothing finished stands over unfinished work (board-structure.ts,
\* board-cascade.ts).
BoardSound == BoardTypeOK /\ Forest /\ FinishedClosed

\* A write respects those that hold entries: it leaves theirs alone, tells them
\* of what changed unless a row is refused, and lets go of them all when one ends
\* (board-authority.ts, boardService.ts).
HoldersKept == HeldUntouched /\ HoldersTold /\ EndedSettled
=============================================================================
