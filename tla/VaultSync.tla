------------------------------ MODULE VaultSync ------------------------------
(***************************************************************************)
(* The Router-held vault (vaultService.ts) and the copies its readers keep *)
(* of it: the gateway's client (vaultClient.ts) and the phone's            *)
(* (VaultManager.kt, VaultOps.kt), both over foldVersionedList. A reader   *)
(* lists what changed after the revision it holds. Deletions travel as     *)
(* tombstones until a sweep removes them and raises the floor below which  *)
(* a cursor is answered with the full list. Lists and the answers of       *)
(* writes are in flight together and land in any order. The text of an     *)
(* entry is told apart by the revision that wrote it (changedAt).          *)
(***************************************************************************)
EXTENDS Naturals, FiniteSets, FiniteSetsExt

CONSTANTS
    VaultIds,       \* entry ids; one is minted for every new entry
    Phones,         \* readers that also write and land their writes
    Gateways,       \* readers that list only; they create, never update
    MaxLive,        \* maxEntries
    MaxRecords,     \* maxRecords
    MaxVaultRev,    \* bound: commits explored
    MaxFlight,      \* bound: calls in flight per reader
    IdsReturn       \* whether an id may be used again once its tombstone is gone

VARIABLES
    vault,      \* the Router's entries: NoEntry or [rev, at, tomb, old]
    vaultRev,   \* vault.meta revision
    floor,      \* vault.meta floor
    minted,     \* ids used so far
    held,       \* reader -> [rev, entries]: the list it holds
    lists,      \* reader -> list calls in flight
    answers     \* phone -> answers of its writes in flight

vaultVars == <<vault, vaultRev, floor, minted, held, lists, answers>>

\* Readers do not touch one another's lists: a behaviour follows one of them,
\* and the others are known by their writes.
Readers == DOMAIN held
Landing == Readers \cap Phones
NoEntry == [rev |-> 0, at |-> 0, tomb |-> TRUE, old |-> FALSE]
Nothing == [rev |-> 0, entries |-> [i \in VaultIds |-> NoEntry]]
Present(es) == {i \in VaultIds : es[i].rev > 0}
LiveIn(es) == {i \in VaultIds : ~es[i].tomb}

-----------------------------------------------------------------------------
(* The Router *)

\* Mutant: a cursor below the floor is answered with the changes after it.
AnswerChanges(cursor) ==
    [rev |-> vaultRev, since |-> cursor,
     entries |-> [i \in VaultIds |-> IF vault[i].at > cursor THEN [vault[i] EXCEPT !.old = FALSE] ELSE NoEntry]]

\* What a cursor is answered: the changes after it, or everything when it is
\* below the floor.
Answer(cursor) ==
    LET since == IF cursor < floor THEN 0 ELSE cursor
    IN [rev |-> vaultRev, since |-> since,
        entries |-> [i \in VaultIds |-> IF vault[i].at > since THEN [vault[i] EXCEPT !.old = FALSE] ELSE NoEntry]]

Commit1(i, entry) ==
    /\ vaultRev < MaxVaultRev
    /\ vault' = [vault EXCEPT ![i] = entry]
    /\ vaultRev' = vaultRev + 1

\* The answer of a write carries the entry that won and the revision.
Answered(c, i) ==
    answers' = IF c \notin Landing \/ vault'[i].rev = 0 THEN answers
               ELSE [answers EXCEPT ![c] = @ \cup {[id |-> i, rev |-> vaultRev',
                                                    entry |-> [vault'[i] EXCEPT !.old = FALSE]]}]

\* put: a gateway creates only; a phone writes over the revision it read. A
\* write that loses, is refused or is not kept is answered with what is stored.
PutWins(c, i, expected) ==
    /\ c \in Gateways => vault[i].rev = 0 /\ expected = 0
    /\ expected = vault[i].rev
    /\ vault[i].rev = 0 => /\ Cardinality(Present(vault)) < MaxRecords
                           /\ (i \in minted => IdsReturn)
    /\ vault[i].tomb => Cardinality(LiveIn(vault)) < MaxLive

Put(c, i, expected) ==
    /\ c \in Landing => Cardinality(lists[c]) + Cardinality(answers[c]) < MaxFlight
    /\ \/ /\ PutWins(c, i, expected)
          /\ Commit1(i, [rev |-> expected + 1, at |-> vaultRev + 1, tomb |-> FALSE, old |-> FALSE])
       \/ c \in Landing /\ UNCHANGED <<vault, vaultRev>>
    /\ Answered(c, i)
    /\ minted' = minted \cup {i}
    /\ UNCHANGED <<floor, held, lists>>

Delete(c, i, expected) ==
    /\ c \in Landing => Cardinality(lists[c]) + Cardinality(answers[c]) < MaxFlight
    /\ \/ /\ ~vault[i].tomb /\ expected = vault[i].rev
          /\ Commit1(i, [rev |-> expected + 1, at |-> vaultRev + 1, tomb |-> TRUE, old |-> FALSE])
       \/ UNCHANGED <<vault, vaultRev>>
    /\ Answered(c, i)
    /\ UNCHANGED <<floor, minted, held, lists>>

\* VAULT_TOMBSTONE_TTL_MS passes over the tombstones there are. It is a week: no
\* call in flight lives through it.
TombstonesAge ==
    /\ \A c \in Readers : lists[c] = {}
    /\ \A c \in Landing : answers[c] = {}
    /\ vault' = [i \in VaultIds |-> [vault[i] EXCEPT !.old = vault[i].rev > 0 /\ vault[i].tomb]]
    /\ UNCHANGED <<vaultRev, floor, minted, held, lists, answers>>

\* sweep: expired tombstones go, in one revision, and the floor rises to the
\* last of them.
Dead == {i \in VaultIds : vault[i].old}
Raised == Max({floor} \cup {vault[i].at : i \in Dead})
VaultSweep ==
    /\ Dead # {} /\ vaultRev < MaxVaultRev
    /\ vault' = [i \in VaultIds |-> IF i \in Dead THEN NoEntry ELSE vault[i]]
    /\ vaultRev' = vaultRev + 1
    /\ floor' = Raised
    /\ UNCHANGED <<minted, held, lists, answers>>

-----------------------------------------------------------------------------
(* The readers *)

\* foldVersionedList: a full list replaces, a delta lands on the revision it
\* rests on, and an entry never moves backward.
foldVersionedList(h, in) ==
    CASE in.rev < h.rev                          -> IF in.since = 0 THEN "ignore" ELSE "restart"
      [] in.rev >= h.rev /\ in.since = 0         -> "apply"
      [] in.rev >= h.rev /\ in.since # 0         -> IF in.since = h.rev THEN "apply" ELSE "restart"

Folded(h, in) ==
    [rev |-> in.rev,
     entries |-> [i \in VaultIds |->
        IF in.since = 0 THEN in.entries[i]
        ELSE IF in.entries[i].rev = 0 \/ h.entries[i].rev > in.entries[i].rev
             THEN h.entries[i] ELSE in.entries[i]]]

NoAnswer == [rev |-> 0, since |-> 0, entries |-> Nothing.entries]
Call(cursor) == [cursor |-> cursor, read |-> FALSE, answer |-> NoAnswer]

\* A phone has one list in flight; a gateway's refreshes overlap.
ListFrom(c, cursor) ==
    /\ Cardinality(lists[c]) < (IF c \in Phones THEN 1 ELSE MaxFlight)
    /\ lists' = [lists EXCEPT ![c] = @ \cup {Call(cursor)}]

Refresh(c) ==
    /\ ListFrom(c, held[c].rev)
    /\ UNCHANGED <<vault, vaultRev, floor, minted, held, answers>>

RouterReads(c, call) ==
    /\ ~call.read
    /\ lists' = [lists EXCEPT ![c] = (@ \ {call}) \cup
                   {[call EXCEPT !.read = TRUE, !.answer = Answer(call.cursor)]}]
    /\ UNCHANGED <<vault, vaultRev, floor, minted, held, answers>>

\* The answer lands. A restart forgets the revision (phone) or the list
\* (gateway) and lists from zero; a phone also does so after a late full list
\* it had not asked for from zero.
ListLands(c, call) ==
    LET fold == foldVersionedList(held[c], call.answer)
        again == fold # "apply" /\ (fold = "restart" \/ c \in Phones) /\ call.cursor # 0
    IN /\ call.read
       /\ held' = [held EXCEPT ![c] =
             CASE fold = "apply"   -> Folded(@, call.answer)
               [] fold = "restart" -> IF c \in Phones THEN [@ EXCEPT !.rev = 0] ELSE Nothing
               [] fold = "ignore"  -> @]
       /\ lists' = [lists EXCEPT ![c] = (@ \ {call}) \cup (IF again THEN {Call(0)} ELSE {})]
       /\ UNCHANGED <<vault, vaultRev, floor, minted, answers>>

ListFails(c, call) ==
    /\ lists' = [lists EXCEPT ![c] = @ \ {call}]
    /\ UNCHANGED <<vault, vaultRev, floor, minted, held, answers>>

\* applyWrite: the written entry lands unless one as new is held; the revision
\* moves only when nothing was skipped.
WriteLands(c, a) ==
    LET h == held[c]
    IN /\ answers' = [answers EXCEPT ![c] = @ \ {a}]
       /\ held' = IF h.entries[a.id].rev >= a.entry.rev THEN held
                  ELSE [held EXCEPT ![c] = [rev |-> IF a.rev = h.rev + 1 THEN a.rev ELSE h.rev,
                                            entries |-> [h.entries EXCEPT ![a.id] = a.entry]]]
       /\ UNCHANGED <<vault, vaultRev, floor, minted, lists>>

AnswerLost(c, a) ==
    /\ answers' = [answers EXCEPT ![c] = @ \ {a}]
    /\ UNCHANGED <<vault, vaultRev, floor, minted, held, lists>>

\* A gateway starts with an empty list. A wiped phone too; what was in flight
\* carries the generation before it and lands nothing.
Restart(c) ==
    /\ held' = [held EXCEPT ![c] = Nothing]
    /\ lists' = [lists EXCEPT ![c] = {}]
    /\ answers' = IF c \in Phones THEN [answers EXCEPT ![c] = {}] ELSE answers
    /\ UNCHANGED <<vault, vaultRev, floor, minted>>

VaultInit ==
    /\ vault = Nothing.entries /\ vaultRev = 0 /\ floor = 0 /\ minted = {}
    /\ \E r \in Phones \cup Gateways :
         /\ held = [c \in {r} |-> Nothing]
         /\ lists = [c \in {r} |-> {}]
         /\ answers = [c \in {r} \cap Phones |-> {}]

VaultNext ==
    \/ \E c \in Phones \cup Gateways, i \in VaultIds, r \in 0 .. MaxVaultRev : Put(c, i, r)
    \/ \E c \in Phones, i \in VaultIds, r \in 1 .. MaxVaultRev : Delete(c, i, r)
    \/ TombstonesAge \/ VaultSweep
    \/ \E c \in Readers : Refresh(c) \/ Restart(c)
    \/ \E c \in Readers : \E call \in lists[c] : RouterReads(c, call) \/ ListLands(c, call) \/ ListFails(c, call)
    \/ \E c \in Landing : \E a \in answers[c] : WriteLands(c, a) \/ AnswerLost(c, a)

VaultSpec == VaultInit /\ [][VaultNext]_vaultVars

-----------------------------------------------------------------------------
(* Properties *)

\* A reader that holds the Router's revision holds the Router's vault: every
\* live entry as last written, and none that was deleted, whatever was swept,
\* lost, or landed out of order on the way.
Converged ==
    \A c \in Readers : held[c].rev = vaultRev =>
        /\ LiveIn(held[c].entries) = LiveIn(vault)
        /\ \A i \in LiveIn(vault) : held[c].entries[i].at = vault[i].at

\* A cursor stands for what it claims: nothing changed up to it is missing from
\* the list, and an entry the Router no longer has is shown only by a reader
\* whose cursor the floor will send back to the full list.
CursorCovers ==
    \A c \in Readers, i \in VaultIds :
        /\ vault[i].rev > 0 /\ vault[i].at <= held[c].rev => held[c].entries[i].at = vault[i].at
        /\ vault[i].rev = 0 /\ ~held[c].entries[i].tomb => held[c].rev < floor

\* The two halves of what a reader's cursor promises (vaultService.ts read,
\* VaultManager.kt): nothing up to it is missing, and at the Router's own revision
\* nothing is left over.
ReadersAgree == CursorCovers /\ Converged
=============================================================================
