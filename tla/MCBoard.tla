------------------------------- MODULE MCBoard -------------------------------
EXTENDS Board

CONSTANTS e1, e2, e3

Parents == Entries \cup {NoParent}
Holders == BoardSessions \cup {Nobody}
Op(kind, id) == [kind |-> kind, id |-> id]
Upsert(i, p, st, s) == [kind |-> "upsert", id |-> i, parent |-> p, state |-> st, session |-> s, sound |-> TRUE,
                         trashed |-> FALSE]
SetState(i, st) == [kind |-> "set_state", id |-> i, state |-> st]
SetSession(i, s) == [kind |-> "set_session", id |-> i, session |-> s]
SetParent(i, p) == [kind |-> "set_parent", id |-> i, parent |-> p]

\* A tree created in one batch, then changed one or two operations at a time.
Trees == {<<Upsert(e1, NoParent, "open", s), Upsert(e2, e1, "open", s), Upsert(e3, p, "open", t)>> :
             s \in Holders, t \in BoardSessions, p \in {e1, e2}}
Changes ==
    {Op(k, i) : k \in {"remove", "trash", "restore"}, i \in Entries}
    \cup {SetState(i, st) : i \in Entries, st \in {"open", "done"}}
    \cup {SetParent(i, p) : i \in Entries, p \in Parents}
    \cup {SetSession(i, s) : i \in Entries, s \in Holders}
    \cup {[kind |-> "set_content", id |-> e1, sound |-> FALSE]}
    \cup {Upsert(e3, p, "done", s) : p \in Parents, s \in Holders}
    \cup {[Upsert(e3, e1, "open", Nobody) EXCEPT !.trashed = TRUE]}
MCBatches == Trees \cup {<<op>> : op \in Changes}
    \cup {<<Op(k, i), Op(k, e2)>> : i \in {e1, e3}, k \in {"remove", "trash"}}
    \cup {<<SetState(i, "cancelled"), Op(k, e2)>> : i \in Entries, k \in {"trash", "restore"}}
    \cup {<<SetSession(i, s), Op(k, i)>> : i \in {e2, e3}, s \in BoardSessions, k \in {"remove", "trash"}}
BoardView == <<board, revision, registered, cutShort>>
=============================================================================
