-------------------------- MODULE BoardVaultProofs --------------------------
(***************************************************************************)
(* Three things the Router keeps for a Domain.                             *)
(*                                                                         *)
(* That the readers of the vault agree with the Router                     *)
(* (VaultSync!ReadersAgree), where an id is not used again. What the       *)
(* Router last wrote for an id outlives the entry once its tombstone is    *)
(* swept, and every copy under way is measured against it: the invariant   *)
(* says that there is such a record of last writes. It is stated of        *)
(* values, the vault v at revision r with the last writes g, and of the    *)
(* list, the calls and the answers of one reader.                          *)
(*                                                                         *)
(* That the cache of blobs is sound (BlobCache!CacheSound): the index in   *)
(* memory and the one a restart reads back both describe the files.        *)
(*                                                                         *)
(* That the board stays a forest in which nothing finished stands over     *)
(* unfinished work, and that writes respect those that hold entries        *)
(* (Board!BoardSound, Board!HoldersKept). A batch, the walk up the tree    *)
(* and the cascade are recursive functions: what they do is shown step by  *)
(* step, by induction over the number of steps, and for the cascade from   *)
(* what is still on its work list.                                         *)
(***************************************************************************)
EXTENDS VaultSync, BlobCache, Board, FiniteSetTheorems, SequenceTheorems, WellFoundedInduction, TLAPS

-----------------------------------------------------------------------------
(* The vault *)

VaultEntries == [rev : Nat, at : Nat, tomb : BOOLEAN, old : BOOLEAN]
Held == [rev : Nat, entries : [VaultIds -> VaultEntries]]
Answers == [rev : Nat, since : Nat, entries : [VaultIds -> VaultEntries]]
Calls == [cursor : Nat, read : BOOLEAN, answer : Answers]
Notes == [id : VaultIds, rev : Nat, entry : VaultEntries]

\* A copy e of an entry last written as l is older, or is that entry.
CopyOf(l, e) ==
    IF e.rev = 0 THEN e.at = 0 /\ e.tomb
    ELSE /\ e.at > 0
         /\ e.rev <= l.rev
         /\ e.rev = l.rev => e.at = l.at /\ e.tomb = l.tomb
         /\ e.rev < l.rev => e.at < l.at

\* The vault holds what was last written for an id, or nothing of what was
\* deleted before the floor.
LastWritten(v, r, f, g, ids) ==
    /\ f <= r
    /\ \A i \in VaultIds :
         /\ g[i].at <= r
         /\ IF g[i].rev = 0 THEN g[i].at = 0 /\ g[i].tomb ELSE g[i].at > 0 /\ i \in ids
         /\ IF v[i].rev = 0
            THEN v[i].at = 0 /\ v[i].tomb /\ ~v[i].old /\ g[i].tomb /\ g[i].at <= f
            ELSE v[i].rev = g[i].rev /\ v[i].at = g[i].at /\ v[i].tomb = g[i].tomb
         /\ v[i].old => v[i].tomb
    /\ \A i, j \in VaultIds : g[i].at = g[j].at /\ g[i].at > 0 => i = j

\* A cursor covers what was written up to it.
Covers(v, g, h) ==
    \A i \in VaultIds : g[i].at <= h.rev =>
        IF v[i].rev > 0 THEN h.entries[i].at = g[i].at ELSE h.entries[i].tomb

HeldRight(v, r, g, h) ==
    /\ h.rev <= r
    /\ \A i \in VaultIds : CopyOf(g[i], h.entries[i])
    /\ Covers(v, g, h)

\* An answer to a list brings what was written after the revision it rests on.
AnswerRight(v, r, g, a) ==
    /\ a.rev <= r
    /\ \A i \in VaultIds :
         /\ CopyOf(g[i], a.entries[i])
         /\ a.entries[i].rev > 0 => a.entries[i].at > a.since
         /\ a.since < g[i].at /\ g[i].at <= a.rev =>
              a.entries[i].at = g[i].at \/ (v[i].rev = 0 /\ a.since = 0 /\ a.entries[i].rev = 0)

\* The answer of a write carries an entry the Router had, and a tombstone when
\* the entry may be swept.
NoteRight(v, r, g, n) ==
    /\ n.rev <= r /\ n.entry.rev > 0 /\ n.entry.at <= n.rev
    /\ CopyOf(g[n.id], n.entry)
    /\ v[n.id].rev = 0 \/ v[n.id].old => n.entry.tomb
    /\ \A j \in VaultIds : g[j].at = n.entry.at => j = n.id

SameWrite(m, n) == m.entry.at = n.entry.at => m.id = n.id /\ m.entry.rev = n.entry.rev

\* A list whose cursor passed a write whose answer is still to come has it.
NoteHeld(h, n) == n.entry.at <= h.rev /\ h.rev < n.rev => h.entries[n.id].rev >= n.entry.rev
NoteListed(a, n) ==
    a.since < n.entry.at /\ n.entry.at <= a.rev /\ a.rev < n.rev => a.entries[n.id].rev >= n.entry.rev

ReaderRight(v, r, g, h, ls, ns) ==
    /\ HeldRight(v, r, g, h)
    /\ \A call \in ls : call.read => AnswerRight(v, r, g, call.answer)
    /\ \A n \in ns : NoteRight(v, r, g, n) /\ NoteHeld(h, n)
    /\ \A n, m \in ns : SameWrite(m, n)
    /\ \A call \in ls, n \in ns : call.read => NoteListed(call.answer, n)

NotesOf(c) == IF c \in Landing THEN answers[c] ELSE {}

VaultTypes ==
    /\ vault \in [VaultIds -> VaultEntries] /\ vaultRev \in Nat /\ floor \in Nat
    /\ held \in [DOMAIN held -> Held]
    /\ lists \in [DOMAIN held -> SUBSET Calls]
    /\ answers \in [Landing -> SUBSET Notes]

VaultInvFor(g) ==
    /\ LastWritten(vault, vaultRev, floor, g, minted)
    /\ \A c \in Readers : ReaderRight(vault, vaultRev, g, held[c], lists[c], NotesOf(c))

VaultInv == VaultTypes /\ \E g \in [VaultIds -> VaultEntries] : VaultInvFor(g)

-----------------------------------------------------------------------------
(* The greatest of a set of revisions *)

\* A non-empty set of naturals has a least element.
LEMMA Least ==
    ASSUME NEW T \in SUBSET Nat, T # {}
    PROVE  \E m \in T : \A k \in T : m <= k
<1> DEFINE R == OpToRel(<, Nat)
<1>1. \E x \in T : \A y \in T : ~ (<<y, x>> \in R)
  <2>1. IsWellFoundedOn(R, Nat)
    BY NatLessThanWellFounded
  <2> HIDE DEF R
  <2> QED
    BY <2>1, WFMin
<1>2. \A x, y \in Nat : ~ (<<y, x>> \in R) => x <= y
  BY DEF OpToRel
<1> HIDE DEF R
<1> QED
  BY <1>1, <1>2

\* A non-empty set of naturals below a bound has a greatest element.
LEMMA Greatest ==
    ASSUME NEW n \in Nat, NEW T \in SUBSET (0 .. n), T # {}
    PROVE  \E m \in T : \A k \in T : m >= k
<1> DEFINE U == {n - t : t \in T}
<1>1. U \in SUBSET Nat
  OBVIOUS
<1>2. U # {}
  <2>1. PICK t \in T : TRUE
    OBVIOUS
  <2>2. n - t \in U
    OBVIOUS
  <2> QED
    BY <2>2
<1>3. PICK u \in U : \A k \in U : u <= k
  <2> HIDE DEF U
  <2> QED
    BY <1>1, <1>2, Least
<1>4. PICK m \in T : u = n - m
  OBVIOUS
<1>5. \A k \in T : n - m <= n - k
  BY <1>3, <1>4
<1> QED
  BY <1>5

\* Max of a set of revisions below a bound.
LEMMA MaxIs ==
    ASSUME NEW n \in Nat, NEW T \in SUBSET (0 .. n), T # {}
    PROVE  Max(T) \in T /\ \A k \in T : Max(T) >= k
<1> QED
  BY Greatest, Zenon DEF Max

-----------------------------------------------------------------------------
(* What a commit does to the vault and to what is under way *)

\* What commit writes is the last write of its id (vaultService.ts put, delete).
LEMMA CommitVault ==
    ASSUME NEW v \in [VaultIds -> VaultEntries], NEW g \in [VaultIds -> VaultEntries], NEW r \in Nat, NEW f \in Nat,
           NEW ids, LastWritten(v, r, f, g, ids),
           NEW i \in VaultIds, NEW e \in VaultEntries, e.rev = g[i].rev + 1, e.at = r + 1, ~e.old
    PROVE  LastWritten([v EXCEPT ![i] = e], r + 1, f, [g EXCEPT ![i] = e], ids \cup {i})
<1> DEFINE v2 == [v EXCEPT ![i] = e]
           g2 == [g EXCEPT ![i] = e]
<1>1. v2[i] = e /\ g2[i] = e /\ e.rev \in Nat /\ e.at \in Nat /\ e.rev > 0 /\ e.at > 0
  BY DEF VaultEntries
<1>2. \A j \in VaultIds : j # i => v2[j] = v[j] /\ g2[j] = g[j]
  OBVIOUS
<1>3. \A j \in VaultIds : g[j].at \in Nat /\ g[j].at <= r
  BY DEF LastWritten, VaultEntries
<1> HIDE DEF v2, g2
<1>4. ASSUME NEW j \in VaultIds
      PROVE  /\ g2[j].at <= r + 1
             /\ IF g2[j].rev = 0 THEN g2[j].at = 0 /\ g2[j].tomb ELSE g2[j].at > 0 /\ j \in ids \cup {i}
             /\ IF v2[j].rev = 0
                THEN v2[j].at = 0 /\ v2[j].tomb /\ ~v2[j].old /\ g2[j].tomb /\ g2[j].at <= f
                ELSE v2[j].rev = g2[j].rev /\ v2[j].at = g2[j].at /\ v2[j].tomb = g2[j].tomb
             /\ v2[j].old => v2[j].tomb
  <2>1. CASE j = i
    BY <1>1, <2>1
  <2>2. CASE j # i
    BY <1>2, <1>3, <2>2 DEF LastWritten
  <2> QED  BY <2>1, <2>2
<1>5. ASSUME NEW j \in VaultIds, NEW k \in VaultIds, g2[j].at = g2[k].at, g2[j].at > 0
      PROVE  j = k
  <2>1. CASE j = i \/ k = i
    BY <1>1, <1>2, <1>3, <1>5, <2>1
  <2>2. CASE j # i /\ k # i
    BY <1>2, <1>5, <2>2 DEF LastWritten
  <2> QED  BY <2>1, <2>2
<1>6. f <= r + 1
  BY DEF LastWritten
<1>7. LastWritten(v2, r + 1, f, g2, ids \cup {i})
  BY <1>4, <1>5, <1>6, Zenon DEF LastWritten
<1> QED  BY <1>7 DEF v2, g2

\* A copy stays a copy when its entry is written once more.
LEMMA CopyOlder ==
    ASSUME NEW l \in VaultEntries, NEW w \in VaultEntries, NEW e \in VaultEntries,
           CopyOf(l, e), w.rev > l.rev, w.at > l.at
    PROVE  CopyOf(w, e)
BY DEF CopyOf, VaultEntries

\* A commit leaves right what is held and under way: what it writes is beyond
\* every revision that was told.
LEMMA CommitReader ==
    ASSUME NEW v \in [VaultIds -> VaultEntries], NEW g \in [VaultIds -> VaultEntries], NEW r \in Nat, NEW f \in Nat,
           NEW ids, LastWritten(v, r, f, g, ids),
           NEW i \in VaultIds, NEW e \in VaultEntries, e.rev = g[i].rev + 1, e.at = r + 1, ~e.old,
           NEW h \in Held, NEW ls \in SUBSET Calls, NEW ns \in SUBSET Notes,
           ReaderRight(v, r, g, h, ls, ns)
    PROVE  ReaderRight([v EXCEPT ![i] = e], r + 1, [g EXCEPT ![i] = e], h, ls, ns)
<1> DEFINE v2 == [v EXCEPT ![i] = e]
           g2 == [g EXCEPT ![i] = e]
<1>1. v2[i] = e /\ g2[i] = e /\ e.rev \in Nat /\ e.at \in Nat /\ e.rev > g[i].rev /\ e.rev > 0 /\ e.at > g[i].at
  BY DEF VaultEntries, LastWritten
<1>2. \A j \in VaultIds : j # i => v2[j] = v[j] /\ g2[j] = g[j]
  OBVIOUS
<1>3. \A j \in VaultIds : g[j] \in VaultEntries /\ g[j].at \in Nat /\ g[j].at <= r
  BY DEF LastWritten, VaultEntries
<1>4. ASSUME NEW j \in VaultIds, NEW b \in VaultEntries, CopyOf(g[j], b)
      PROVE  CopyOf(g2[j], b)
  BY <1>1, <1>2, <1>3, <1>4, CopyOlder
<1> HIDE DEF v2, g2
<1>5. HeldRight(v2, r + 1, g2, h)
  <2>1. HeldRight(v, r, g, h) /\ h.rev \in Nat /\ \A j \in VaultIds : h.entries[j] \in VaultEntries
    BY DEF ReaderRight, Held
  <2>2. \A j \in VaultIds : CopyOf(g2[j], h.entries[j])
    BY <1>4, <2>1 DEF HeldRight
  <2>3. Covers(v2, g2, h)
    BY <1>1, <1>2, <2>1 DEF HeldRight, Covers
  <2> QED  BY <2>1, <2>2, <2>3 DEF HeldRight
<1>6. ASSUME NEW call \in ls, call.read
      PROVE  AnswerRight(v2, r + 1, g2, call.answer)
  <2> DEFINE a == call.answer
  <2>1. a \in Answers
    BY DEF Calls
  <2>2. AnswerRight(v, r, g, a)
    BY <1>6 DEF ReaderRight
  <2> HIDE DEF a
  <2>3. a.rev \in Nat /\ a.since \in Nat /\ \A j \in VaultIds : a.entries[j] \in VaultEntries
    BY <2>1 DEF Answers
  <2>4. \A j \in VaultIds : CopyOf(g2[j], a.entries[j])
    BY <1>4, <2>2, <2>3 DEF AnswerRight
  <2>5. \A j \in VaultIds : a.since < g2[j].at /\ g2[j].at <= a.rev =>
              a.entries[j].at = g2[j].at \/ (v2[j].rev = 0 /\ a.since = 0 /\ a.entries[j].rev = 0)
    BY <1>1, <1>2, <2>2, <2>3 DEF AnswerRight
  <2>6. AnswerRight(v2, r + 1, g2, a)
    BY <2>2, <2>3, <2>4, <2>5 DEF AnswerRight
  <2> QED  BY <2>6 DEF a
<1>7. ASSUME NEW n \in ns
      PROVE  NoteRight(v2, r + 1, g2, n)
  <2>1. NoteRight(v, r, g, n) /\ n.id \in VaultIds /\ n.rev \in Nat /\ n.entry \in VaultEntries /\ n.entry.at \in Nat
    BY DEF ReaderRight, Notes, VaultEntries
  <2>2. CopyOf(g2[n.id], n.entry)
    BY <1>4, <2>1 DEF NoteRight
  <2>3. v2[n.id].rev = 0 \/ v2[n.id].old => n.entry.tomb
    BY <1>1, <1>2, <2>1 DEF NoteRight
  <2>4. \A j \in VaultIds : g2[j].at = n.entry.at => j = n.id
    BY <1>1, <1>2, <2>1 DEF NoteRight
  <2> QED  BY <2>1, <2>2, <2>3, <2>4 DEF NoteRight
<1>8. ReaderRight(v2, r + 1, g2, h, ls, ns)
  BY <1>5, <1>6, <1>7, Zenon DEF ReaderRight
<1> QED  BY <1>8 DEF v2, g2

-----------------------------------------------------------------------------
(* The answers the Router gives *)

\* The answer of a write is right when it joins what is under way.
LEMMA NoteJoins ==
    ASSUME NEW v \in [VaultIds -> VaultEntries], NEW g \in [VaultIds -> VaultEntries], NEW r \in Nat, NEW f \in Nat,
           NEW ids, LastWritten(v, r, f, g, ids),
           NEW i \in VaultIds, v[i].rev > 0,
           NEW h \in Held, NEW ls \in SUBSET Calls, NEW ns \in SUBSET Notes,
           ReaderRight(v, r, g, h, ls, ns),
           NEW n \in Notes, n.id = i, n.rev = r, n.entry.rev = v[i].rev, n.entry.at = v[i].at, n.entry.tomb = v[i].tomb
    PROVE  ReaderRight(v, r, g, h, ls, ns \cup {n})
<1>1. /\ v[i].rev = g[i].rev /\ v[i].at = g[i].at /\ v[i].tomb = g[i].tomb
      /\ g[i].rev > 0 /\ g[i].at > 0 /\ g[i].at <= r /\ g[i].rev \in Nat /\ g[i].at \in Nat
  BY DEF LastWritten, VaultEntries
<1>2. n.entry \in VaultEntries /\ n.entry.rev \in Nat /\ n.entry.at \in Nat
  BY DEF Notes, VaultEntries
<1>3. NoteRight(v, r, g, n)
  <2>1. CopyOf(g[i], n.entry)
    BY <1>1, <1>2 DEF CopyOf
  <2>2. \A j \in VaultIds : g[j].at = n.entry.at => j = n.id
    BY <1>1 DEF LastWritten
  <2>3. v[n.id].rev = 0 \/ v[n.id].old => n.entry.tomb
    BY <1>1 DEF LastWritten
  <2> QED  BY <1>1, <1>2, <2>1, <2>2, <2>3 DEF NoteRight
<1>4. NoteHeld(h, n)
  <2>1. h.rev \in Nat /\ h.entries[i] \in VaultEntries /\ h.entries[i].rev \in Nat /\ h.entries[i].at \in Nat
    BY DEF Held, VaultEntries
  <2>2. Covers(v, g, h) /\ CopyOf(g[i], h.entries[i])
    BY DEF ReaderRight, HeldRight
  <2>3. g[i].at <= h.rev => h.entries[i].at = g[i].at
    BY <2>2 DEF Covers, VaultEntries
  <2>4. g[i].at <= h.rev => h.entries[i].rev = g[i].rev
    BY <1>1, <2>1, <2>2, <2>3 DEF CopyOf, VaultEntries
  <2> QED  BY <1>1, <2>4, <2>1 DEF NoteHeld, VaultEntries
<1>5. ASSUME NEW m \in ns
      PROVE  SameWrite(m, n) /\ SameWrite(n, m)
  <2>1. NoteRight(v, r, g, m) /\ m.id \in VaultIds /\ m.entry \in VaultEntries
    BY DEF ReaderRight, Notes
  <2>2. m.entry.at = g[i].at => m.id = i /\ m.entry.rev = g[i].rev
    BY <1>1, <2>1 DEF NoteRight, CopyOf, VaultEntries
  <2> QED  BY <1>1, <2>2 DEF SameWrite
<1>6. ASSUME NEW call \in ls, call.read
      PROVE  NoteListed(call.answer, n)
  <2> DEFINE a == call.answer
  <2>1. a \in Answers
    BY DEF Calls
  <2>2. AnswerRight(v, r, g, a)
    BY <1>6 DEF ReaderRight
  <2> HIDE DEF a
  <2>3. a.entries[i] \in VaultEntries /\ a.entries[i].rev \in Nat /\ a.entries[i].at \in Nat
    BY <2>1 DEF Answers, VaultEntries
  <2>4. a.since < g[i].at /\ g[i].at <= a.rev => a.entries[i].at = g[i].at
    BY <2>2 DEF AnswerRight
  <2>5. CopyOf(g[i], a.entries[i])
    BY <2>2 DEF AnswerRight
  <2>6. a.since < g[i].at /\ g[i].at <= a.rev => a.entries[i].rev = g[i].rev
    BY <1>1, <2>3, <2>4, <2>5 DEF CopyOf, VaultEntries
  <2>7. NoteListed(a, n)
    BY <1>1, <2>3, <2>6 DEF NoteListed, VaultEntries
  <2> QED  BY <2>7 DEF a
<1>7. SameWrite(n, n)
  BY DEF SameWrite
<1> DEFINE ns2 == ns \cup {n}
<1>8. \A m \in ns2 : m \in ns \/ m = n
  OBVIOUS
<1> HIDE DEF ns2
<1>9. \A m \in ns2 : NoteRight(v, r, g, m) /\ NoteHeld(h, m)
  BY <1>3, <1>4, <1>8 DEF ReaderRight
<1>10. \A m, k \in ns2 : SameWrite(m, k)
  BY <1>5, <1>7, <1>8 DEF ReaderRight
<1>11. \A call \in ls, m \in ns2 : call.read => NoteListed(call.answer, m)
  BY <1>6, <1>8 DEF ReaderRight
<1>12. ReaderRight(v, r, g, h, ls, ns2)
  BY <1>9, <1>10, <1>11 DEF ReaderRight
<1> QED  BY <1>12 DEF ns2

\* What a list is answered is right: the changes after its cursor, or, when the
\* cursor is below the floor, everything (vaultService.ts read).
LEMMA ListedRight ==
    ASSUME NEW v \in [VaultIds -> VaultEntries], NEW g \in [VaultIds -> VaultEntries], NEW r \in Nat, NEW f \in Nat,
           NEW ids, LastWritten(v, r, f, g, ids),
           NEW cursor \in Nat, NEW a \in Answers, a.rev = r, a.since = (IF cursor < f THEN 0 ELSE cursor),
           \A i \in VaultIds : IF v[i].at > a.since
                               THEN a.entries[i].rev = v[i].rev /\ a.entries[i].at = v[i].at /\ a.entries[i].tomb = v[i].tomb
                               ELSE a.entries[i].rev = 0 /\ a.entries[i].at = 0 /\ a.entries[i].tomb
    PROVE  AnswerRight(v, r, g, a)
<1>1. a.since \in Nat /\ (a.since = 0 \/ a.since >= f)
  OBVIOUS
<1>2. ASSUME NEW i \in VaultIds
      PROVE  /\ CopyOf(g[i], a.entries[i])
             /\ a.entries[i].rev > 0 => a.entries[i].at > a.since
             /\ a.since < g[i].at /\ g[i].at <= a.rev =>
                  a.entries[i].at = g[i].at \/ (v[i].rev = 0 /\ a.since = 0 /\ a.entries[i].rev = 0)
  <2>1. /\ v[i].rev \in Nat /\ v[i].at \in Nat /\ g[i].rev \in Nat /\ g[i].at \in Nat
        /\ a.entries[i].rev \in Nat /\ a.entries[i].at \in Nat
    BY DEF VaultEntries, Answers
  <2>2. CASE v[i].at > a.since
    <3>1. v[i].rev # 0
      BY <1>1, <2>1, <2>2 DEF LastWritten
    <3>2. v[i].rev = g[i].rev /\ v[i].at = g[i].at /\ v[i].tomb = g[i].tomb
      BY <3>1 DEF LastWritten
    <3> QED  BY <1>1, <2>1, <2>2, <3>1, <3>2 DEF CopyOf
  <2>3. CASE ~(v[i].at > a.since)
    <3>1. CopyOf(g[i], a.entries[i]) /\ a.entries[i].rev = 0
      BY <2>3 DEF CopyOf
    <3>2. v[i].rev # 0 => g[i].at <= a.since
      BY <1>1, <2>1, <2>3 DEF LastWritten
    <3>3. v[i].rev = 0 => a.since = 0 \/ g[i].at <= a.since
      BY <1>1, <2>1 DEF LastWritten
    <3> QED  BY <1>1, <2>1, <3>1, <3>2, <3>3
  <2> QED  BY <2>2, <2>3
<1> QED  BY <1>2 DEF AnswerRight

-----------------------------------------------------------------------------
(* What a reader makes of them *)

\* What is right stays so when less is in flight.
LEMMA LessInFlight ==
    ASSUME NEW v, NEW r, NEW g, NEW h, NEW ls, NEW ns, ReaderRight(v, r, g, h, ls, ns),
           NEW ls2, \A call \in ls2 : call.read => call \in ls,
           NEW ns2 \in SUBSET ns
    PROVE  ReaderRight(v, r, g, h, ls2, ns2)
<1>1. HeldRight(v, r, g, h)
  BY DEF ReaderRight
<1>2. \A call \in ls2 : call.read => AnswerRight(v, r, g, call.answer)
  BY DEF ReaderRight
<1>3. \A n \in ns2 : NoteRight(v, r, g, n) /\ NoteHeld(h, n)
  BY DEF ReaderRight
<1>4. \A n, m \in ns2 : SameWrite(m, n)
  BY DEF ReaderRight
<1>5. \A call \in ls2, n \in ns2 : call.read => NoteListed(call.answer, n)
  BY DEF ReaderRight
<1> QED  BY <1>1, <1>2, <1>3, <1>4, <1>5 DEF ReaderRight

\* Another list held is right where it covers its cursor and has the writes
\* whose answers are to come.
LEMMA HoldsAnother ==
    ASSUME NEW v, NEW r, NEW g, NEW h, NEW ls, NEW ns, ReaderRight(v, r, g, h, ls, ns),
           NEW h2, HeldRight(v, r, g, h2), \A n \in ns : NoteHeld(h2, n)
    PROVE  ReaderRight(v, r, g, h2, ls, ns)
BY DEF ReaderRight

\* A full list replaces what is held, a delta lands on the revision it rests
\* on, and no entry moves backward (foldVersionedList).
LEMMA FoldIsRight ==
    ASSUME NEW v \in [VaultIds -> VaultEntries], NEW g \in [VaultIds -> VaultEntries], NEW r \in Nat, NEW f \in Nat,
           NEW ids, LastWritten(v, r, f, g, ids),
           NEW h \in Held, NEW ls \in SUBSET Calls, NEW ns \in SUBSET Notes,
           ReaderRight(v, r, g, h, ls, ns),
           NEW a \in Answers, AnswerRight(v, r, g, a), \A n \in ns : NoteListed(a, n),
           a.rev >= h.rev, a.since = 0 \/ a.since = h.rev,
           NEW h2 \in Held, h2.rev = a.rev,
           \A i \in VaultIds : h2.entries[i] =
               IF a.since = 0 THEN a.entries[i]
               ELSE IF a.entries[i].rev = 0 \/ h.entries[i].rev > a.entries[i].rev
                    THEN h.entries[i] ELSE a.entries[i]
    PROVE  ReaderRight(v, r, g, h2, ls, ns)
<1>1. a.rev \in Nat /\ a.since \in Nat /\ h.rev \in Nat
  BY DEF Answers, Held
<1>2. ASSUME NEW i \in VaultIds
      PROVE  /\ v[i].rev \in Nat /\ g[i].rev \in Nat /\ g[i].at \in Nat
             /\ a.entries[i].rev \in Nat /\ a.entries[i].at \in Nat
             /\ h.entries[i].rev \in Nat /\ h.entries[i].at \in Nat
  BY DEF VaultEntries, Answers, Held
<1>3. ASSUME NEW i \in VaultIds
      PROVE  CopyOf(g[i], a.entries[i]) /\ CopyOf(g[i], h.entries[i])
  BY DEF AnswerRight, ReaderRight, HeldRight
<1>4. \A i \in VaultIds : CopyOf(g[i], h2.entries[i])
  BY <1>3
<1>5. ASSUME NEW i \in VaultIds, g[i].at <= h2.rev
      PROVE  IF v[i].rev > 0 THEN h2.entries[i].at = g[i].at ELSE h2.entries[i].tomb
  <2>1. /\ IF g[i].rev = 0 THEN g[i].at = 0 /\ g[i].tomb ELSE g[i].at > 0
        /\ v[i].rev = 0 => g[i].tomb
        /\ v[i].rev # 0 => v[i].rev = g[i].rev
    BY DEF LastWritten
  <2>10. /\ v[i].rev \in Nat /\ g[i].rev \in Nat /\ g[i].at \in Nat
         /\ a.entries[i].rev \in Nat /\ a.entries[i].at \in Nat
         /\ h.entries[i].rev \in Nat /\ h.entries[i].at \in Nat
    BY <1>2
  <2>11. CopyOf(g[i], a.entries[i]) /\ CopyOf(g[i], h.entries[i])
    BY <1>3
  <2>2. CASE a.since = 0
    <3>1. h2.entries[i] = a.entries[i]
      BY <2>2
    <3>2. a.since < g[i].at => a.entries[i].at = g[i].at \/ (v[i].rev = 0 /\ a.entries[i].rev = 0)
      BY <1>5, <2>2 DEF AnswerRight
    <3>3. CopyOf(g[i], a.entries[i])
      BY <1>3
    <3>4. CASE g[i].at = 0
      BY <1>2, <2>1, <3>1, <3>3, <3>4 DEF CopyOf
    <3>5. CASE g[i].at > 0
      <4>1. CASE a.entries[i].at = g[i].at
        <5>1. a.entries[i].rev = g[i].rev /\ a.entries[i].rev > 0
          BY <2>10, <3>3, <3>5, <4>1 DEF CopyOf
        <5>2. a.entries[i].tomb = g[i].tomb
          BY <3>3, <5>1 DEF CopyOf
        <5> QED  BY <2>1, <2>10, <3>1, <4>1, <5>2
      <4>2. CASE v[i].rev = 0 /\ a.entries[i].rev = 0
        BY <3>1, <3>3, <4>2 DEF CopyOf
      <4> QED  BY <2>2, <3>2, <3>5, <4>1, <4>2
    <3> QED  BY <1>2, <3>4, <3>5
  <2>3. CASE a.since # 0 /\ g[i].at <= a.since
    <3>1. a.entries[i].rev = 0
      <4>1. a.entries[i].rev > 0 => a.entries[i].at > a.since
        BY DEF AnswerRight
      <4>2. a.entries[i].rev > 0 => a.entries[i].at <= g[i].at
        BY <2>10, <2>11 DEF CopyOf
      <4> QED  BY <1>1, <2>10, <2>3, <4>1, <4>2
    <3>2. h2.entries[i] = h.entries[i]
      BY <2>3, <3>1
    <3>3. g[i].at <= h.rev
      BY <2>3
    <3> QED  BY <3>2, <3>3 DEF ReaderRight, HeldRight, Covers
  <2>4. CASE a.since # 0 /\ g[i].at > a.since
    <3>1. a.entries[i].at = g[i].at
      BY <1>5, <2>4 DEF AnswerRight
    <3>2. a.entries[i].rev = g[i].rev /\ a.entries[i].rev > 0 /\ a.entries[i].tomb = g[i].tomb
      <4>1. a.entries[i].rev = g[i].rev /\ a.entries[i].rev > 0
        BY <1>1, <2>10, <2>11, <2>4, <3>1 DEF CopyOf
      <4> QED  BY <2>11, <4>1 DEF CopyOf
    <3>3. h.entries[i].rev <= g[i].rev
      BY <2>10, <2>11 DEF CopyOf
    <3>4. h2.entries[i] = a.entries[i]
      BY <1>2, <2>4, <3>2, <3>3
    <3> QED  BY <1>2, <2>1, <3>1, <3>2, <3>4
  <2> QED  BY <1>1, <1>2, <2>2, <2>3, <2>4
<1>6. HeldRight(v, r, g, h2)
  BY <1>4, <1>5 DEF HeldRight, Covers, AnswerRight
<1>7. ASSUME NEW n \in ns
      PROVE  NoteHeld(h2, n)
  <2>1. /\ n.id \in VaultIds /\ n.rev \in Nat /\ n.entry.rev \in Nat /\ n.entry.at \in Nat
    BY DEF Notes, VaultEntries
  <2>2. NoteHeld(h, n) /\ NoteListed(a, n) /\ n.entry.at > 0 /\ n.entry.rev > 0
    BY <2>1 DEF ReaderRight, NoteRight, CopyOf
  <2>3. n.entry.at <= a.rev /\ a.rev < n.rev /\ n.entry.at > a.since => a.entries[n.id].rev >= n.entry.rev
    BY <2>2 DEF NoteListed
  <2>4. n.entry.at <= h.rev /\ a.rev < n.rev => h.entries[n.id].rev >= n.entry.rev
    BY <1>1, <2>1, <2>2 DEF NoteHeld
  <2>5. CASE a.since = 0
    BY <1>1, <1>2, <2>1, <2>2, <2>3, <2>5 DEF NoteHeld
  <2>6. CASE a.since # 0 /\ a.since = h.rev
    <3>1. h2.entries[n.id].rev >= h.entries[n.id].rev /\ h2.entries[n.id].rev >= a.entries[n.id].rev
      BY <1>2, <2>1, <2>6
    <3>2. h2.entries[n.id].rev \in Nat
      BY <1>2, <2>1, <2>6
    <3> QED  BY <1>1, <1>2, <2>1, <2>3, <2>4, <2>6, <3>1, <3>2 DEF NoteHeld
  <2> QED  BY <2>5, <2>6
<1> QED  BY <1>6, <1>7, HoldsAnother

\* A list forgotten, or only its revision, covers nothing.
LEMMA ForgottenRight ==
    ASSUME NEW v \in [VaultIds -> VaultEntries], NEW g \in [VaultIds -> VaultEntries], NEW r \in Nat, NEW f \in Nat,
           NEW ids, LastWritten(v, r, f, g, ids),
           NEW h \in Held, NEW ls \in SUBSET Calls, NEW ns \in SUBSET Notes,
           ReaderRight(v, r, g, h, ls, ns),
           NEW h2 \in Held, h2.rev = 0,
           h2.entries = h.entries \/ \A i \in VaultIds : h2.entries[i] = NoEntry
    PROVE  ReaderRight(v, r, g, h2, ls, ns)
<1>1. ASSUME NEW i \in VaultIds
      PROVE  CopyOf(g[i], h2.entries[i])
  BY DEF ReaderRight, HeldRight, CopyOf, NoEntry
<1>2. ASSUME NEW i \in VaultIds, g[i].at <= 0
      PROVE  IF v[i].rev > 0 THEN h2.entries[i].at = g[i].at ELSE h2.entries[i].tomb
  <2>1. g[i].rev = 0 /\ g[i].at \in Nat /\ v[i].rev \in Nat
    BY <1>2 DEF LastWritten, VaultEntries
  <2>2. v[i].rev = 0
    BY <2>1 DEF LastWritten
  <2>3. h2.entries[i].rev \in Nat
    BY DEF Held, VaultEntries
  <2> QED  BY <1>1, <2>1, <2>2, <2>3 DEF CopyOf
<1>3. HeldRight(v, r, g, h2)
  BY <1>1, <1>2 DEF HeldRight, Covers
<1>4. ASSUME NEW n \in ns
      PROVE  NoteHeld(h2, n)
  <2>1. n.entry.at \in Nat /\ n.entry.at > 0
    BY DEF ReaderRight, NoteRight, CopyOf, Notes, VaultEntries
  <2> QED  BY <2>1 DEF NoteHeld
<1> QED  BY <1>3, <1>4, HoldsAnother

\* The answer of a write lands: its entry is held unless one as new is, and the
\* revision moves to the next one only (VaultOps.kt applyWrite).
LEMMA WriteRight ==
    ASSUME NEW v \in [VaultIds -> VaultEntries], NEW g \in [VaultIds -> VaultEntries], NEW r \in Nat, NEW f \in Nat,
           NEW ids, LastWritten(v, r, f, g, ids),
           NEW h \in Held, NEW ls \in SUBSET Calls, NEW ns \in SUBSET Notes,
           ReaderRight(v, r, g, h, ls, ns),
           NEW n \in ns, h.entries[n.id].rev < n.entry.rev,
           NEW h2 \in Held, h2.rev = IF n.rev = h.rev + 1 THEN n.rev ELSE h.rev,
           h2.entries = [h.entries EXCEPT ![n.id] = n.entry]
    PROVE  ReaderRight(v, r, g, h2, ls, ns)
<1>1. /\ n.id \in VaultIds /\ n.rev \in Nat /\ n.entry.rev \in Nat /\ n.entry.at \in Nat
      /\ h.rev \in Nat /\ h2.rev \in Nat /\ h.entries \in [VaultIds -> VaultEntries]
      /\ \A i \in VaultIds : h.entries[i].rev \in Nat /\ h.entries[i].at \in Nat /\ g[i].rev \in Nat /\ g[i].at \in Nat
                             /\ v[i].rev \in Nat
  BY DEF Notes, VaultEntries, Held
<1>2. NoteRight(v, r, g, n) /\ NoteHeld(h, n) /\ HeldRight(v, r, g, h)
  BY DEF ReaderRight
<1>3. h2.entries[n.id] = n.entry /\ \A i \in VaultIds : i # n.id => h2.entries[i] = h.entries[i]
  BY <1>1
<1>4. h2.rev # h.rev => h2.rev = h.rev + 1 /\ n.rev = h.rev + 1 /\ n.entry.at = h.rev + 1
  <2>1. h.entries[n.id].rev \in Nat
    BY <1>1
  <2>2. ~(n.entry.at <= h.rev /\ h.rev < n.rev)
    BY <1>1, <1>2, <2>1 DEF NoteHeld
  <2>3. n.entry.at <= n.rev
    BY <1>2 DEF NoteRight
  <2>4. h2.rev = h.rev \/ (h2.rev = n.rev /\ n.rev = h.rev + 1)
    OBVIOUS
  <2>5. n.rev \in Nat /\ n.entry.at \in Nat /\ h.rev \in Nat /\ h2.rev \in Nat
    BY <1>1
  <2> QED  BY <2>2, <2>3, <2>4, <2>5
<1>5. \A i \in VaultIds : CopyOf(g[i], h2.entries[i])
  BY <1>2, <1>3 DEF NoteRight, HeldRight
<1>6. ASSUME NEW i \in VaultIds, g[i].at <= h2.rev
      PROVE  IF v[i].rev > 0 THEN h2.entries[i].at = g[i].at ELSE h2.entries[i].tomb
  <2>0. g[i].at \in Nat /\ n.entry.at \in Nat /\ h.rev \in Nat /\ h2.rev \in Nat
    BY <1>1
  <2>1. CASE i # n.id
    <3>1. g[i].at # n.entry.at
      BY <1>2, <2>1 DEF NoteRight
    <3>2. g[i].at <= h.rev
      BY <2>0, <1>4, <1>6, <3>1
    <3> QED  BY <1>2, <1>3, <2>1, <3>2 DEF HeldRight, Covers
  <2>2. CASE i = n.id /\ v[i].rev > 0
    <3>1. CopyOf(g[i], n.entry) /\ n.entry.rev > 0 /\ CopyOf(g[i], h.entries[i])
      BY <1>2, <2>2 DEF NoteRight, HeldRight
    <3>2. g[i].at <= h.rev => h.entries[i].at = g[i].at
      BY <1>2, <2>2 DEF HeldRight, Covers
    <3>3. h.entries[i].rev < n.entry.rev
      BY <2>2
    <3>4. g[i].rev > 0 /\ g[i].at > 0
      BY <1>1, <2>2 DEF LastWritten
    <3>5. ~(g[i].at <= h.rev)
      BY <1>1, <2>2, <3>1, <3>2, <3>3, <3>4 DEF CopyOf
    <3>6. n.entry.at = g[i].at
      <4>1. g[i].at \in Nat /\ g[i].rev \in Nat
        BY <1>1
      <4>2. n.entry.at = h.rev + 1 /\ g[i].at <= h.rev + 1
        BY <2>0, <1>4, <1>6, <3>5
      <4> QED  BY <2>0, <3>5, <4>2
    <3> QED  BY <1>3, <2>2, <3>6
  <2>3. CASE i = n.id /\ ~(v[i].rev > 0)
    <3>1. n.entry.tomb
      BY <1>1, <1>2, <2>3 DEF NoteRight
    <3> QED  BY <1>3, <2>3, <3>1
  <2> QED  BY <2>1, <2>2, <2>3
<1>7. HeldRight(v, r, g, h2)
  <2>1. h2.rev <= r
    BY <1>1, <1>2 DEF NoteRight, HeldRight
  <2> QED  BY <1>5, <1>6, <2>1 DEF HeldRight, Covers
<1>8. ASSUME NEW m \in ns
      PROVE  NoteHeld(h2, m)
  <2>1. m.id \in VaultIds /\ m.rev \in Nat /\ m.entry.rev \in Nat /\ m.entry.at \in Nat
    BY DEF Notes, VaultEntries
  <2>2. NoteHeld(h, m) /\ SameWrite(m, n)
    BY DEF ReaderRight
  <2>3. h2.entries[m.id].rev >= h.entries[m.id].rev /\ h2.entries[m.id].rev \in Nat
    BY <1>1, <1>3, <2>1
  <2>4. CASE m.entry.at <= h.rev
    <3>1. m.entry.at <= h2.rev /\ h2.rev < m.rev => h.rev < m.rev
      BY <1>1, <1>4, <2>1
    <3> QED  BY <1>1, <2>1, <2>2, <2>3, <2>4, <3>1 DEF NoteHeld
  <2>5. CASE ~(m.entry.at <= h.rev)
    <3>1. m.entry.at <= h2.rev => m.entry.at = n.entry.at
      BY <1>1, <1>4, <2>1, <2>5
    <3>2. m.entry.at <= h2.rev => m.id = n.id /\ m.entry.rev = n.entry.rev
      BY <2>2, <3>1 DEF SameWrite
    <3> QED  BY <1>1, <1>3, <2>1, <3>2 DEF NoteHeld
  <2> QED  BY <2>4, <2>5
<1> QED  BY <1>7, <1>8, HoldsAnother

-----------------------------------------------------------------------------
(* The Router's steps *)

LEMMA InitRight == VaultInit => VaultInv
<1> SUFFICES ASSUME VaultInit PROVE VaultInv
  OBVIOUS
<1> DEFINE g == [i \in VaultIds |-> NoEntry]
<1>1. NoEntry \in VaultEntries /\ NoEntry.rev = 0 /\ NoEntry.at = 0 /\ NoEntry.tomb /\ ~NoEntry.old
  BY DEF NoEntry, VaultEntries
<1>2. g \in [VaultIds -> VaultEntries] /\ vault = g /\ vaultRev = 0 /\ floor = 0
  BY <1>1 DEF VaultInit, Nothing
<1>3. PICK p \in Phones \cup Gateways :
        /\ held = [c \in {p} |-> Nothing] /\ lists = [c \in {p} |-> {}]
        /\ answers = [c \in {p} \cap Phones |-> {}]
  BY DEF VaultInit
<1>4. Nothing \in Held /\ Nothing.rev = 0 /\ \A i \in VaultIds : Nothing.entries[i] = NoEntry
  BY <1>1 DEF Nothing, Held
<1>5. DOMAIN held = {p} /\ Landing = {p} \cap Phones
  BY <1>3 DEF Readers, Landing
<1>6. held[p] = Nothing /\ lists[p] = {} /\ NotesOf(p) = {}
  BY <1>3, <1>5 DEF NotesOf
<1>7. VaultTypes
  BY <1>2, <1>3, <1>4, <1>5 DEF VaultTypes
<1>8. LastWritten(vault, vaultRev, floor, g, minted)
  BY <1>1, <1>2 DEF LastWritten
<1>9. ReaderRight(vault, vaultRev, g, Nothing, {}, {})
  <2>1. HeldRight(vault, vaultRev, g, Nothing)
    <3>1. \A i \in VaultIds : g[i] = NoEntry /\ vault[i] = NoEntry
      BY <1>2
    <3> HIDE DEF g
    <3> QED  BY <1>1, <1>2, <1>4, <3>1 DEF HeldRight, CopyOf, Covers
  <2> QED  BY <2>1 DEF ReaderRight
<1>10. VaultInvFor(g)
  BY <1>5, <1>6, <1>8, <1>9 DEF VaultInvFor, Readers
<1> QED  BY <1>2, <1>7, <1>10 DEF VaultInv

\* A commit, and its answer to the reader that is followed when it wrote.
LEMMA CommitStep ==
    ASSUME VaultInv, NEW c, NEW i \in VaultIds, NEW e \in VaultEntries,
           e.rev = vault[i].rev + 1, e.at = vaultRev + 1, ~e.old, vault[i].rev = 0 => i \notin minted,
           Commit1(i, e), Answered(c, i), minted' = minted \cup {i}, UNCHANGED <<floor, held, lists>>
    PROVE  VaultInv'
<1>1. PICK g \in [VaultIds -> VaultEntries] : VaultInvFor(g)
  BY DEF VaultInv
<1> DEFINE g2 == [g EXCEPT ![i] = e]
           n == [id |-> i, rev |-> vaultRev', entry |-> [vault'[i] EXCEPT !.old = FALSE]]
<1>2. /\ vault \in [VaultIds -> VaultEntries] /\ vaultRev \in Nat /\ floor \in Nat
      /\ LastWritten(vault, vaultRev, floor, g, minted)
  BY <1>1 DEF VaultInv, VaultTypes, VaultInvFor
<1>3. vault' = [vault EXCEPT ![i] = e] /\ vaultRev' = vaultRev + 1 /\ vault'[i] = e
  BY <1>2 DEF Commit1
<1>4. e.rev = g[i].rev + 1
  <2>1. vault[i].rev # 0 => vault[i].rev = g[i].rev
    BY <1>2 DEF LastWritten
  <2>2. vault[i].rev = 0 => g[i].rev = 0
    BY <1>2 DEF LastWritten
  <2> QED  BY <2>1, <2>2
<1>5. LastWritten(vault, vaultRev, floor, g2, minted)'
  <2>1. LastWritten([vault EXCEPT ![i] = e], vaultRev + 1, floor, g2, minted \cup {i})
    BY <1>2, <1>4, CommitVault
  <2> QED  BY <1>3, <2>1
<1>6. ASSUME NEW d \in Readers
      PROVE  ReaderRight(vault', vaultRev', g2, held[d], lists[d], NotesOf(d))
  <2>1. /\ ReaderRight(vault, vaultRev, g, held[d], lists[d], NotesOf(d))
        /\ held[d] \in Held /\ lists[d] \in SUBSET Calls /\ NotesOf(d) \in SUBSET Notes
    BY <1>1 DEF VaultInvFor, VaultInv, VaultTypes, NotesOf, Readers
  <2> DEFINE h == held[d]
             ls == lists[d]
             ns == NotesOf(d)
  <2> HIDE DEF h, ls, ns
  <2>2. ReaderRight(vault, vaultRev, g, h, ls, ns) /\ h \in Held /\ ls \in SUBSET Calls /\ ns \in SUBSET Notes
    BY <2>1 DEF h, ls, ns
  <2>3. ReaderRight([vault EXCEPT ![i] = e], vaultRev + 1, g2, h, ls, ns)
    BY <1>2, <1>4, <2>2, CommitReader
  <2> QED  BY <1>3, <2>3 DEF h, ls, ns
<1>7. n \in Notes /\ n.id = i /\ n.rev = vaultRev' /\ n.entry.rev = vault'[i].rev /\ n.entry.at = vault'[i].at
      /\ n.entry.tomb = vault'[i].tomb
  BY <1>2, <1>3 DEF Notes, VaultEntries
<1>8. vault' \in [VaultIds -> VaultEntries] /\ vaultRev' \in Nat /\ g2 \in [VaultIds -> VaultEntries] /\ vault'[i].rev > 0
  BY <1>2, <1>3 DEF VaultEntries
<1>9. held' = held /\ lists' = lists /\ floor' = floor /\ DOMAIN held' = DOMAIN held /\ Readers' = Readers /\ Landing' = Landing
  BY DEF Readers, Landing
<1>10. /\ c \notin Landing => answers' = answers
       /\ c \in Landing => answers' = [answers EXCEPT ![c] = @ \cup {n}]
  BY <1>8 DEF Answered
<1>11. answers \in [Landing -> SUBSET Notes]
  BY DEF VaultInv, VaultTypes
<1> HIDE DEF n
<1>12. VaultTypes'
  <2>1. answers' \in [Landing -> SUBSET Notes]
    BY <1>7, <1>10, <1>11
  <2>2. held \in [DOMAIN held -> Held] /\ lists \in [DOMAIN held -> SUBSET Calls]
    BY DEF VaultInv, VaultTypes
  <2> QED  BY <1>2, <1>8, <1>9, <2>1, <2>2 DEF VaultTypes
<1>13. ASSUME NEW d \in Readers
       PROVE  NotesOf(d)' = NotesOf(d) \/ NotesOf(d)' = NotesOf(d) \cup {n}
  BY <1>9, <1>10, <1>11 DEF NotesOf
<1>14. ASSUME NEW d \in Readers
       PROVE  ReaderRight(vault', vaultRev', g2, held'[d], lists'[d], NotesOf(d)')
  <2> DEFINE h == held[d]
             ls == lists[d]
             ns == NotesOf(d)
             v2 == vault'
             r2 == vaultRev'
             f2 == floor'
             ids2 == minted'
  <2>1. h \in Held /\ ls \in SUBSET Calls /\ ns \in SUBSET Notes /\ f2 \in Nat
    BY <1>2, <1>9 DEF VaultInv, VaultTypes, NotesOf, Readers
  <2>2. ReaderRight(v2, r2, g2, h, ls, ns)
    BY <1>6
  <2>3. LastWritten(v2, r2, f2, g2, ids2)
    BY <1>5
  <2>4. v2 \in [VaultIds -> VaultEntries] /\ r2 \in Nat /\ g2 \in [VaultIds -> VaultEntries] /\ v2[i].rev > 0
    BY <1>8
  <2>5. n \in Notes /\ n.id = i /\ n.rev = r2 /\ n.entry.rev = v2[i].rev /\ n.entry.at = v2[i].at
        /\ n.entry.tomb = v2[i].tomb
    BY <1>7
  <2>6. NotesOf(d)' = ns \/ NotesOf(d)' = ns \cup {n}
    BY <1>13
  <2>7. held'[d] = h /\ lists'[d] = ls
    BY <1>9
  <2> HIDE DEF h, ls, ns, v2, r2, f2, ids2, g2
  <2>8. ReaderRight(v2, r2, g2, h, ls, ns \cup {n})
    BY <2>1, <2>2, <2>3, <2>4, <2>5, NoteJoins
  <2>9. ReaderRight(v2, r2, g2, held'[d], lists'[d], NotesOf(d)')
    BY <2>2, <2>6, <2>7, <2>8
  <2> QED  BY <2>9 DEF v2, r2
<1>15. VaultInvFor(g2)'
  BY <1>5, <1>9, <1>14 DEF VaultInvFor
<1> QED  BY <1>8, <1>12, <1>15 DEF VaultInv

\* A reader's step: the vault stays, and so do the other readers.
LEMMA OneReader ==
    ASSUME VaultInv, UNCHANGED <<vault, vaultRev, floor>>, minted \subseteq minted',
           NEW c \in Readers, DOMAIN held' = DOMAIN held,
           NEW h \in Held, NEW ls \in SUBSET Calls, NEW ns \in SUBSET Notes,
           held' = [held EXCEPT ![c] = h], lists' = [lists EXCEPT ![c] = ls],
           c \in Landing => answers' = [answers EXCEPT ![c] = ns],
           c \notin Landing => answers' = answers /\ ns = {},
           \A g \in [VaultIds -> VaultEntries] :
               /\ LastWritten(vault, vaultRev, floor, g, minted)
               /\ ReaderRight(vault, vaultRev, g, held[c], lists[c], NotesOf(c))
               => ReaderRight(vault, vaultRev, g, h, ls, ns)
    PROVE  VaultInv'
<1>1. PICK g \in [VaultIds -> VaultEntries] : VaultInvFor(g)
  BY DEF VaultInv
<1>2. Readers' = Readers /\ Landing' = Landing /\ c \in DOMAIN held
  BY DEF Readers, Landing
<1>3. /\ held \in [DOMAIN held -> Held] /\ lists \in [DOMAIN held -> SUBSET Calls]
      /\ answers \in [Landing -> SUBSET Notes]
      /\ vault \in [VaultIds -> VaultEntries] /\ vaultRev \in Nat /\ floor \in Nat
  BY DEF VaultInv, VaultTypes
<1>4. VaultTypes'
  <2>1. held' \in [DOMAIN held -> Held] /\ lists' \in [DOMAIN held -> SUBSET Calls]
    BY <1>2, <1>3
  <2>2. answers' \in [Landing -> SUBSET Notes]
    BY <1>3
  <2> QED  BY <1>2, <1>3, <2>1, <2>2 DEF VaultTypes
<1>5. held'[c] = h /\ lists'[c] = ls /\ NotesOf(c)' = ns
  BY <1>2, <1>3 DEF NotesOf
<1>6. \A d \in Readers : d # c => held'[d] = held[d] /\ lists'[d] = lists[d] /\ NotesOf(d)' = NotesOf(d)
  BY <1>2, <1>3 DEF NotesOf
<1>7. LastWritten(vault, vaultRev, floor, g, minted) /\ LastWritten(vault, vaultRev, floor, g, minted')
  BY <1>1 DEF VaultInvFor, LastWritten
<1>8. ASSUME NEW d \in Readers
      PROVE  ReaderRight(vault, vaultRev, g, held'[d], lists'[d], NotesOf(d)')
  <2>1. ReaderRight(vault, vaultRev, g, held[d], lists[d], NotesOf(d))
    BY <1>1 DEF VaultInvFor
  <2>2. CASE d = c
    BY <1>5, <1>7, <2>1, <2>2
  <2>3. CASE d # c
    BY <1>6, <2>1, <2>3
  <2> QED  BY <2>2, <2>3
<1>9. VaultInvFor(g)'
  BY <1>2, <1>7, <1>8 DEF VaultInvFor
<1> QED  BY <1>4, <1>9 DEF VaultInv

\* A write that loses or is not kept is answered with what is stored.
LEMMA RefusalStep ==
    ASSUME VaultInv, NEW c, NEW i \in VaultIds, Answered(c, i),
           UNCHANGED <<vault, vaultRev, floor, held, lists>>, minted \subseteq minted'
    PROVE  VaultInv'
<1> DEFINE n == [id |-> i, rev |-> vaultRev, entry |-> [vault[i] EXCEPT !.old = FALSE]]
<1>0. Readers' = Readers /\ Landing' = Landing
  BY DEF Readers, Landing
<1>1. /\ held \in [DOMAIN held -> Held] /\ lists \in [DOMAIN held -> SUBSET Calls]
      /\ answers \in [Landing -> SUBSET Notes]
      /\ vault \in [VaultIds -> VaultEntries] /\ vaultRev \in Nat /\ floor \in Nat
  BY DEF VaultInv, VaultTypes
<1>2. CASE c \notin Landing \/ vault[i].rev = 0
  <2>1. answers' = answers
    BY <1>0, <1>2 DEF Answered
  <2>2. VaultTypes'
    BY <1>0, <1>1, <2>1 DEF VaultTypes
  <2>3. PICK g \in [VaultIds -> VaultEntries] : VaultInvFor(g)
    BY DEF VaultInv
  <2>4. LastWritten(vault, vaultRev, floor, g, minted')
    BY <2>3 DEF VaultInvFor, LastWritten
  <2>5. \A d \in Readers : NotesOf(d)' = NotesOf(d)
    BY <1>0, <2>1 DEF NotesOf
  <2>6. VaultInvFor(g)'
    BY <1>0, <2>3, <2>4, <2>5 DEF VaultInvFor
  <2> QED  BY <2>2, <2>6 DEF VaultInv
<1>3. CASE c \in Landing /\ vault[i].rev # 0
  <2>1. c \in Readers /\ c \in DOMAIN held
    BY <1>3 DEF Landing, Readers
  <2>2. answers' = [answers EXCEPT ![c] = answers[c] \cup {n}]
    BY <1>0, <1>3 DEF Answered
  <2>3. n \in Notes /\ n.id = i /\ n.rev = vaultRev /\ n.entry.rev = vault[i].rev /\ n.entry.at = vault[i].at
        /\ n.entry.tomb = vault[i].tomb
    BY <1>1 DEF Notes, VaultEntries
  <2> HIDE DEF n
  <2>4. held[c] \in Held /\ lists[c] \in SUBSET Calls /\ answers[c] \in SUBSET Notes /\ NotesOf(c) = answers[c]
    BY <1>1, <1>3, <2>1 DEF NotesOf
  <2>5. held' = [held EXCEPT ![c] = held[c]] /\ lists' = [lists EXCEPT ![c] = lists[c]]
    BY <1>1, <2>1
  <2> DEFINE h == held[c]
             ls == lists[c]
             ns == answers[c]
  <2>6. vault[i].rev > 0
    BY <1>1, <1>3 DEF VaultEntries
  <2>7. h \in Held /\ ls \in SUBSET Calls /\ ns \in SUBSET Notes
    BY <2>4
  <2>8. ASSUME NEW g \in [VaultIds -> VaultEntries], LastWritten(vault, vaultRev, floor, g, minted),
               ReaderRight(vault, vaultRev, g, h, ls, ns)
        PROVE  ReaderRight(vault, vaultRev, g, h, ls, ns \cup {n})
    <3> HIDE DEF h, ls, ns
    <3> QED  BY <1>1, <2>3, <2>6, <2>7, <2>8, NoteJoins
  <2>9. held' = [held EXCEPT ![c] = h] /\ lists' = [lists EXCEPT ![c] = ls]
        /\ answers' = [answers EXCEPT ![c] = ns \cup {n}] /\ ns \cup {n} \in SUBSET Notes
    BY <2>2, <2>3, <2>4, <2>5
  <2>10. \A g \in [VaultIds -> VaultEntries] :
               /\ LastWritten(vault, vaultRev, floor, g, minted)
               /\ ReaderRight(vault, vaultRev, g, held[c], lists[c], NotesOf(c))
               => ReaderRight(vault, vaultRev, g, h, ls, ns \cup {n})
    BY <2>4, <2>8
  <2> HIDE DEF h, ls, ns
  <2> QED  BY <1>3, <2>1, <2>7, <2>9, <2>10, OneReader
<1> QED  BY <1>2, <1>3

LEMMA PutStep ==
    ASSUME VaultInv, ~IdsReturn, NEW c, NEW i \in VaultIds, NEW expected, Put(c, i, expected)
    PROVE  VaultInv'
<1>1. vault \in [VaultIds -> VaultEntries] /\ vaultRev \in Nat
  BY DEF VaultInv, VaultTypes
<1> DEFINE e == [rev |-> expected + 1, at |-> vaultRev + 1, tomb |-> FALSE, old |-> FALSE]
<1>2. CASE PutWins(c, i, expected) /\ Commit1(i, e)
  <2>1. expected = vault[i].rev /\ expected \in Nat
    BY <1>1, <1>2 DEF PutWins, VaultEntries
  <2>2. e \in VaultEntries /\ e.rev = vault[i].rev + 1 /\ e.at = vaultRev + 1 /\ ~e.old
    BY <1>1, <2>1 DEF VaultEntries
  <2>3. vault[i].rev = 0 => i \notin minted
    BY <1>2 DEF PutWins
  <2>4. Answered(c, i) /\ minted' = minted \cup {i} /\ UNCHANGED <<floor, held, lists>>
    BY DEF Put
  <2> HIDE DEF e
  <2> QED  BY <1>2, <2>2, <2>3, <2>4, CommitStep
<1>3. CASE UNCHANGED <<vault, vaultRev>>
  BY <1>3, RefusalStep DEF Put
<1> QED  BY <1>2, <1>3 DEF Put

LEMMA DeleteStep ==
    ASSUME VaultInv, NEW c, NEW i \in VaultIds, NEW expected, Delete(c, i, expected)
    PROVE  VaultInv'
<1>1. vault \in [VaultIds -> VaultEntries] /\ vaultRev \in Nat
  BY DEF VaultInv, VaultTypes
<1> DEFINE e == [rev |-> expected + 1, at |-> vaultRev + 1, tomb |-> TRUE, old |-> FALSE]
<1>2. CASE ~vault[i].tomb /\ expected = vault[i].rev /\ Commit1(i, e)
  <2>1. expected \in Nat
    BY <1>1, <1>2 DEF VaultEntries
  <2>2. e \in VaultEntries /\ e.rev = vault[i].rev + 1 /\ e.at = vaultRev + 1 /\ ~e.old
    BY <1>1, <1>2, <2>1 DEF VaultEntries
  <2>3. vault[i].rev # 0 /\ i \in minted
    BY <1>2 DEF VaultInv, VaultInvFor, LastWritten
  <2>4. Answered(c, i) /\ minted' = minted \cup {i} /\ UNCHANGED <<floor, held, lists>>
    BY <2>3 DEF Delete
  <2> HIDE DEF e
  <2> QED  BY <1>2, <2>2, <2>3, <2>4, CommitStep
<1>3. CASE UNCHANGED <<vault, vaultRev>>
  BY <1>3, RefusalStep DEF Delete
<1> QED  BY <1>2, <1>3 DEF Delete

\* A tombstone grows old only while nothing is in flight.
LEMMA AgeStep == ASSUME VaultInv, TombstonesAge PROVE VaultInv'
<1>1. PICK g \in [VaultIds -> VaultEntries] : VaultInvFor(g)
  BY DEF VaultInv
<1>2. /\ held \in [DOMAIN held -> Held] /\ lists \in [DOMAIN held -> SUBSET Calls]
      /\ answers \in [Landing -> SUBSET Notes]
      /\ vault \in [VaultIds -> VaultEntries] /\ vaultRev \in Nat /\ floor \in Nat
      /\ UNCHANGED <<vaultRev, floor, minted, held, lists, answers>>
      /\ Readers' = Readers /\ Landing' = Landing
  BY DEF VaultInv, VaultTypes, TombstonesAge, Readers, Landing
<1>3. ASSUME NEW i \in VaultIds
      PROVE  /\ vault'[i] \in VaultEntries /\ vault'[i].rev = vault[i].rev /\ vault'[i].at = vault[i].at
             /\ vault'[i].tomb = vault[i].tomb
             /\ vault'[i].old => vault[i].rev > 0
             /\ vault'[i].old => vault[i].tomb
  <2>1. vault[i] \in VaultEntries /\ vault[i].rev \in Nat /\ vault[i].tomb \in BOOLEAN
    BY <1>2 DEF VaultEntries
  <2>2. vault'[i] = [vault[i] EXCEPT !.old = vault[i].rev > 0 /\ vault[i].tomb]
    BY DEF TombstonesAge
  <2>3. (vault[i].rev > 0 /\ vault[i].tomb) \in BOOLEAN
    BY <2>1
  <2> QED  BY <2>1, <2>2, <2>3 DEF VaultEntries
<1>4. vault' \in [VaultIds -> VaultEntries]
  BY <1>3 DEF TombstonesAge
<1>5. VaultTypes'
  BY <1>2, <1>4 DEF VaultTypes
<1>6. LastWritten(vault, vaultRev, floor, g, minted)
  BY <1>1 DEF VaultInvFor
<1>7. LastWritten(vault', vaultRev, floor, g, minted)
  <2>1. ASSUME NEW i \in VaultIds
        PROVE  /\ g[i].at <= vaultRev
               /\ IF g[i].rev = 0 THEN g[i].at = 0 /\ g[i].tomb ELSE g[i].at > 0 /\ i \in minted
               /\ IF vault'[i].rev = 0
                  THEN vault'[i].at = 0 /\ vault'[i].tomb /\ ~vault'[i].old /\ g[i].tomb /\ g[i].at <= floor
                  ELSE vault'[i].rev = g[i].rev /\ vault'[i].at = g[i].at /\ vault'[i].tomb = g[i].tomb
               /\ vault'[i].old => vault'[i].tomb
    <3>1. CASE vault[i].rev = 0
      <4>1. vault[i].at = 0 /\ vault[i].tomb /\ g[i].tomb /\ g[i].at <= floor
        BY <1>6, <3>1 DEF LastWritten
      <4>2. ~vault'[i].old
        BY <1>3, <3>1
      <4> QED  BY <1>3, <1>6, <3>1, <4>1, <4>2 DEF LastWritten
    <3>2. CASE vault[i].rev # 0
      BY <1>3, <1>6, <3>2 DEF LastWritten
    <3> QED  BY <3>1, <3>2
  <2> QED  BY <1>6, <2>1, Zenon DEF LastWritten
<1>8. ASSUME NEW c \in Readers
      PROVE  ReaderRight(vault', vaultRev, g, held[c], lists[c], NotesOf(c))
  <2>1. lists[c] = {} /\ NotesOf(c) = {}
    BY DEF TombstonesAge, NotesOf
  <2>2. HeldRight(vault, vaultRev, g, held[c])
    BY <1>1 DEF VaultInvFor, ReaderRight
  <2>3. Covers(vault', g, held[c])
    BY <1>3, <2>2 DEF HeldRight, Covers
  <2>4. HeldRight(vault', vaultRev, g, held[c])
    BY <2>2, <2>3 DEF HeldRight
  <2> QED  BY <2>1, <2>4 DEF ReaderRight
<1>9. VaultInvFor(g)'
  <2>1. \A c \in Readers : NotesOf(c)' = NotesOf(c)
    BY <1>2 DEF NotesOf
  <2> QED  BY <1>2, <1>7, <1>8, <2>1 DEF VaultInvFor
<1> QED  BY <1>5, <1>9 DEF VaultInv

\* Old tombstones go, and the floor rises to the last of them.
LEMMA SweepStep == ASSUME VaultInv, VaultSweep PROVE VaultInv'
<1>1. PICK g \in [VaultIds -> VaultEntries] : VaultInvFor(g)
  BY DEF VaultInv
<1>2. /\ held \in [DOMAIN held -> Held] /\ lists \in [DOMAIN held -> SUBSET Calls]
      /\ answers \in [Landing -> SUBSET Notes]
      /\ vault \in [VaultIds -> VaultEntries] /\ vaultRev \in Nat /\ floor \in Nat
      /\ UNCHANGED <<minted, held, lists, answers>> /\ vaultRev' = vaultRev + 1
      /\ Readers' = Readers /\ Landing' = Landing
  BY DEF VaultInv, VaultTypes, VaultSweep, Readers, Landing
<1>3. LastWritten(vault, vaultRev, floor, g, minted)
  BY <1>1 DEF VaultInvFor
<1>4. /\ floor' \in Nat /\ floor' >= floor /\ floor' <= vaultRev + 1
      /\ \A i \in Dead : floor' >= vault[i].at
  <2> DEFINE T == {floor} \cup {vault[i].at : i \in Dead}
  <2>1. \A i \in VaultIds : vault[i].at \in 0 .. vaultRev
    BY <1>2, <1>3 DEF LastWritten, VaultEntries
  <2>2. T \in SUBSET (0 .. vaultRev) /\ T # {}
    BY <1>2, <1>3, <2>1 DEF LastWritten, Dead
  <2>3. floor \in T /\ \A i \in Dead : vault[i].at \in T
    OBVIOUS
  <2>4. floor' = Max(T)
    BY DEF VaultSweep, Raised
  <2> HIDE DEF T
  <2>5. Max(T) \in T /\ \A k \in T : Max(T) >= k
    BY <1>2, <2>2, MaxIs
  <2> QED  BY <1>2, <2>2, <2>3, <2>4, <2>5
<1>5. ASSUME NEW i \in VaultIds
      PROVE  /\ i \in Dead => vault'[i] = NoEntry /\ vault[i].rev > 0 /\ vault[i].tomb
             /\ i \notin Dead => vault'[i] = vault[i] /\ ~vault[i].old
             /\ vault'[i] \in VaultEntries
  <2>1. NoEntry \in VaultEntries /\ vault[i] \in VaultEntries /\ vault[i].rev \in Nat /\ vault[i].old \in BOOLEAN
    BY <1>2 DEF NoEntry, VaultEntries
  <2>2. vault[i].old => vault[i].rev > 0 /\ vault[i].tomb
    BY <1>3, <2>1 DEF LastWritten
  <2>3. vault'[i] = IF i \in Dead THEN NoEntry ELSE vault[i]
    BY DEF VaultSweep
  <2> QED  BY <2>1, <2>2, <2>3 DEF Dead
<1>6. NoEntry.rev = 0 /\ NoEntry.at = 0 /\ NoEntry.tomb /\ ~NoEntry.old
  BY DEF NoEntry
<1>7. VaultTypes'
  <2>1. vault' \in [VaultIds -> VaultEntries]
    BY <1>5 DEF VaultSweep
  <2> QED  BY <1>2, <1>4, <2>1 DEF VaultTypes
<1>8. LastWritten(vault', vaultRev + 1, floor', g, minted)
  <2>1. ASSUME NEW i \in VaultIds
        PROVE  /\ g[i].at <= vaultRev + 1
               /\ IF g[i].rev = 0 THEN g[i].at = 0 /\ g[i].tomb ELSE g[i].at > 0 /\ i \in minted
               /\ IF vault'[i].rev = 0
                  THEN vault'[i].at = 0 /\ vault'[i].tomb /\ ~vault'[i].old /\ g[i].tomb /\ g[i].at <= floor'
                  ELSE vault'[i].rev = g[i].rev /\ vault'[i].at = g[i].at /\ vault'[i].tomb = g[i].tomb
               /\ vault'[i].old => vault'[i].tomb
    <3>1. g[i].at \in Nat /\ g[i].at <= vaultRev
      BY <1>3 DEF LastWritten, VaultEntries
    <3>2. CASE i \in Dead
      <4>1. vault[i].rev = g[i].rev /\ vault[i].at = g[i].at /\ vault[i].tomb = g[i].tomb
        BY <1>3, <1>5, <3>2 DEF LastWritten
      <4>2. IF g[i].rev = 0 THEN g[i].at = 0 /\ g[i].tomb ELSE g[i].at > 0 /\ i \in minted
        BY <1>3 DEF LastWritten
      <4> QED  BY <1>2, <1>4, <1>5, <1>6, <3>1, <3>2, <4>1, <4>2
    <3>3. CASE i \notin Dead
      <4>1. vault'[i] = vault[i] /\ ~vault[i].old
        BY <1>5, <3>3
      <4>2. vault[i].rev = 0 => g[i].at <= floor'
        BY <1>2, <1>3, <1>4, <3>1 DEF LastWritten
      <4> QED  BY <1>2, <1>3, <3>1, <4>1, <4>2 DEF LastWritten
    <3> QED  BY <3>2, <3>3
  <2>2. \A i, j \in VaultIds : g[i].at = g[j].at /\ g[i].at > 0 => i = j
    BY <1>3 DEF LastWritten
  <2> QED  BY <1>4, <2>1, <2>2, Zenon DEF LastWritten
<1>9. ASSUME NEW c \in Readers
      PROVE  ReaderRight(vault', vaultRev + 1, g, held[c], lists[c], NotesOf(c))
  <2>0. /\ held[c] \in Held /\ lists[c] \in SUBSET Calls /\ NotesOf(c) \in SUBSET Notes
        /\ ReaderRight(vault, vaultRev, g, held[c], lists[c], NotesOf(c))
    BY <1>1, <1>2 DEF VaultInvFor, NotesOf, Readers
  <2> DEFINE h == held[c]
             ls == lists[c]
             ns == NotesOf(c)
  <2>1. h \in Held /\ ls \in SUBSET Calls /\ ns \in SUBSET Notes /\ ReaderRight(vault, vaultRev, g, h, ls, ns)
    BY <2>0
  <2> HIDE DEF h, ls, ns
  <2>2. Covers(vault', g, h)
    <3>1. ASSUME NEW i \in VaultIds, g[i].at <= h.rev
          PROVE  IF vault'[i].rev > 0 THEN h.entries[i].at = g[i].at ELSE h.entries[i].tomb
      <4>1. IF vault[i].rev > 0 THEN h.entries[i].at = g[i].at ELSE h.entries[i].tomb
        BY <2>1, <3>1 DEF ReaderRight, HeldRight, Covers
      <4>2. CASE i \in Dead
        <5>1. vault[i].rev = g[i].rev /\ vault[i].tomb = g[i].tomb /\ vault[i].tomb /\ h.entries[i].at = g[i].at
          BY <1>3, <1>5, <4>1, <4>2 DEF LastWritten
        <5>2. CopyOf(g[i], h.entries[i]) /\ h.entries[i] \in VaultEntries /\ g[i] \in VaultEntries
          BY <2>1 DEF ReaderRight, HeldRight, Held
        <5>3. h.entries[i].rev = 0 \/ h.entries[i].rev = g[i].rev
          BY <5>1, <5>2 DEF CopyOf, VaultEntries
        <5>4. h.entries[i].tomb
          BY <5>1, <5>2, <5>3 DEF CopyOf
        <5> QED  BY <1>5, <1>6, <4>2, <5>4
      <4>3. CASE i \notin Dead
        BY <1>5, <4>1, <4>3
      <4> QED  BY <4>2, <4>3
    <3> QED  BY <3>1 DEF Covers
  <2>3. HeldRight(vault', vaultRev + 1, g, h)
    BY <1>2, <2>1, <2>2 DEF ReaderRight, HeldRight, Held
  <2>4. ASSUME NEW call \in ls, call.read
        PROVE  AnswerRight(vault', vaultRev + 1, g, call.answer)
    <3> DEFINE a == call.answer
    <3>1. AnswerRight(vault, vaultRev, g, a) /\ a \in Answers
      BY <2>1, <2>4 DEF ReaderRight, Calls
    <3> HIDE DEF a
    <3>2. a.rev <= vaultRev + 1
      BY <1>2, <3>1 DEF AnswerRight, Answers
    <3>3. \A i \in VaultIds : vault[i].rev = 0 => vault'[i].rev = 0
      BY <1>5, <1>6
    <3>4. AnswerRight(vault', vaultRev + 1, g, a)
      BY <3>1, <3>2, <3>3 DEF AnswerRight
    <3> QED  BY <3>4 DEF a
  <2>5. ASSUME NEW n \in ns
        PROVE  NoteRight(vault', vaultRev + 1, g, n)
    <3>1. NoteRight(vault, vaultRev, g, n) /\ n.id \in VaultIds /\ n.rev \in Nat
      BY <2>1 DEF ReaderRight, Notes
    <3>2. vault'[n.id].rev = 0 \/ vault'[n.id].old => n.entry.tomb
      BY <1>5, <1>6, <3>1 DEF NoteRight, Dead
    <3> QED  BY <1>2, <3>1, <3>2 DEF NoteRight
  <2>6. ReaderRight(vault', vaultRev + 1, g, h, ls, ns)
    BY <2>1, <2>3, <2>4, <2>5 DEF ReaderRight
  <2> QED  BY <2>6 DEF h, ls, ns
<1>10. VaultInvFor(g)'
  <2>1. \A c \in Readers : NotesOf(c)' = NotesOf(c)
    BY <1>2 DEF NotesOf
  <2> QED  BY <1>2, <1>8, <1>9, <2>1 DEF VaultInvFor
<1> QED  BY <1>7, <1>10 DEF VaultInv

-----------------------------------------------------------------------------
(* The readers' steps *)

\* A call made, read or ended: nothing else of the reader changes.
LEMMA CallsOnly ==
    ASSUME VaultInv, UNCHANGED <<vault, vaultRev, floor, minted, held, answers>>,
           NEW c \in Readers, NEW ls \in SUBSET Calls, lists' = [lists EXCEPT ![c] = ls],
           \A g \in [VaultIds -> VaultEntries] :
               /\ LastWritten(vault, vaultRev, floor, g, minted)
               /\ ReaderRight(vault, vaultRev, g, held[c], lists[c], NotesOf(c))
               => ReaderRight(vault, vaultRev, g, held[c], ls, NotesOf(c))
    PROVE  VaultInv'
<1> DEFINE h == held[c]
           ns == NotesOf(c)
<1>1. /\ held \in [DOMAIN held -> Held] /\ answers \in [Landing -> SUBSET Notes] /\ c \in DOMAIN held
  BY DEF VaultInv, VaultTypes, Readers
<1>2. h \in Held /\ ns \in SUBSET Notes
  BY <1>1 DEF NotesOf
<1>3. held' = [held EXCEPT ![c] = h]
  BY <1>1
<1>4. /\ c \in Landing => answers' = [answers EXCEPT ![c] = ns]
      /\ c \notin Landing => answers' = answers /\ ns = {}
  BY <1>1 DEF NotesOf
<1>5. \A g \in [VaultIds -> VaultEntries] :
               /\ LastWritten(vault, vaultRev, floor, g, minted)
               /\ ReaderRight(vault, vaultRev, g, held[c], lists[c], NotesOf(c))
               => ReaderRight(vault, vaultRev, g, h, ls, ns)
  OBVIOUS
<1>6. DOMAIN held' = DOMAIN held
  OBVIOUS
<1> HIDE DEF h, ns
<1> QED  BY <1>2, <1>3, <1>4, <1>5, <1>6, OneReader

LEMMA RefreshStep == ASSUME VaultInv, NEW c \in Readers, Refresh(c) PROVE VaultInv'
<1>1. /\ held \in [DOMAIN held -> Held] /\ lists \in [DOMAIN held -> SUBSET Calls] /\ c \in DOMAIN held
  BY DEF VaultInv, VaultTypes, Readers
<1> DEFINE call == Call(held[c].rev)
           ls == lists[c] \cup {call}
<1>2. NoAnswer \in Answers
  BY DEF NoAnswer, Nothing, NoEntry, Answers, VaultEntries
<1>3. call \in Calls /\ ~call.read
  BY <1>1, <1>2 DEF Call, Calls, Held
<1> HIDE DEF call
<1>4. ls \in SUBSET Calls /\ \A d \in ls : d.read => d \in lists[c]
  BY <1>1, <1>3
<1>5. lists' = [lists EXCEPT ![c] = ls] /\ UNCHANGED <<vault, vaultRev, floor, minted, held, answers>>
  BY DEF Refresh, ListFrom, call
<1> HIDE DEF ls
<1>6. ASSUME NEW g \in [VaultIds -> VaultEntries], ReaderRight(vault, vaultRev, g, held[c], lists[c], NotesOf(c))
      PROVE  ReaderRight(vault, vaultRev, g, held[c], ls, NotesOf(c))
  BY <1>4, <1>6, LessInFlight
<1> QED  BY <1>4, <1>5, <1>6, CallsOnly

LEMMA FailStep == ASSUME VaultInv, NEW c \in Readers, NEW call, ListFails(c, call) PROVE VaultInv'
<1>1. lists \in [DOMAIN held -> SUBSET Calls] /\ c \in DOMAIN held
  BY DEF VaultInv, VaultTypes, Readers
<1> DEFINE ls == lists[c] \ {call}
<1>2. ls \in SUBSET Calls /\ \A d \in ls : d.read => d \in lists[c]
  BY <1>1
<1>3. lists' = [lists EXCEPT ![c] = ls] /\ UNCHANGED <<vault, vaultRev, floor, minted, held, answers>>
  BY DEF ListFails
<1> HIDE DEF ls
<1>4. ASSUME NEW g \in [VaultIds -> VaultEntries], ReaderRight(vault, vaultRev, g, held[c], lists[c], NotesOf(c))
      PROVE  ReaderRight(vault, vaultRev, g, held[c], ls, NotesOf(c))
  BY <1>2, <1>4, LessInFlight
<1> QED  BY <1>2, <1>3, <1>4, CallsOnly

LEMMA ReadStep ==
    ASSUME VaultInv, NEW c \in Readers, NEW call \in lists[c], RouterReads(c, call)
    PROVE  VaultInv'
<1>1. /\ held \in [DOMAIN held -> Held] /\ lists \in [DOMAIN held -> SUBSET Calls] /\ c \in DOMAIN held
      /\ answers \in [Landing -> SUBSET Notes]
      /\ vault \in [VaultIds -> VaultEntries] /\ vaultRev \in Nat /\ floor \in Nat
  BY DEF VaultInv, VaultTypes, Readers
<1>2. call \in Calls /\ call.cursor \in Nat
  BY <1>1 DEF Calls
<1> DEFINE a == Answer(call.cursor)
           read == [call EXCEPT !.read = TRUE, !.answer = a]
           ls == (lists[c] \ {call}) \cup {read}
           since == IF call.cursor < floor THEN 0 ELSE call.cursor
<1>3. since \in Nat
  BY <1>1, <1>2
<1>4. a = [rev |-> vaultRev, since |-> since,
           entries |-> [i \in VaultIds |-> IF vault[i].at > since THEN [vault[i] EXCEPT !.old = FALSE] ELSE NoEntry]]
  BY DEF Answer
<1>5. ASSUME NEW i \in VaultIds
      PROVE  [vault[i] EXCEPT !.old = FALSE] \in VaultEntries /\ NoEntry \in VaultEntries
  BY <1>1 DEF VaultEntries, NoEntry
<1> HIDE DEF since
<1>6. a \in Answers /\ a.rev = vaultRev /\ a.since = since
  BY <1>1, <1>3, <1>4, <1>5 DEF Answers
<1>7. \A i \in VaultIds : IF vault[i].at > since
         THEN a.entries[i].rev = vault[i].rev /\ a.entries[i].at = vault[i].at /\ a.entries[i].tomb = vault[i].tomb
         ELSE a.entries[i].rev = 0 /\ a.entries[i].at = 0 /\ a.entries[i].tomb
  <2> SUFFICES ASSUME NEW i \in VaultIds
               PROVE  IF vault[i].at > since
         THEN a.entries[i].rev = vault[i].rev /\ a.entries[i].at = vault[i].at /\ a.entries[i].tomb = vault[i].tomb
         ELSE a.entries[i].rev = 0 /\ a.entries[i].at = 0 /\ a.entries[i].tomb
    OBVIOUS
  <2>1. a.entries[i] = IF vault[i].at > since THEN [vault[i] EXCEPT !.old = FALSE] ELSE NoEntry
    BY <1>4
  <2>2. vault[i] \in VaultEntries /\ NoEntry.rev = 0 /\ NoEntry.at = 0 /\ NoEntry.tomb
    BY <1>1 DEF NoEntry
  <2> HIDE DEF a
  <2> QED  BY <2>1, <2>2 DEF VaultEntries
<1> HIDE DEF a
<1>8. read \in Calls /\ read.read /\ read.answer = a
  BY <1>2, <1>6 DEF Calls
<1> HIDE DEF read
<1>9. ls \in SUBSET Calls /\ \A d \in ls : d \in lists[c] \/ d = read
  BY <1>1, <1>8
<1>10. lists' = [lists EXCEPT ![c] = ls] /\ UNCHANGED <<vault, vaultRev, floor, minted, held, answers>>
  BY DEF RouterReads, a, read
<1> HIDE DEF ls
<1>11. ASSUME NEW g \in [VaultIds -> VaultEntries], LastWritten(vault, vaultRev, floor, g, minted),
              ReaderRight(vault, vaultRev, g, held[c], lists[c], NotesOf(c))
       PROVE  ReaderRight(vault, vaultRev, g, held[c], ls, NotesOf(c))
  <2>1. since = IF call.cursor < floor THEN 0 ELSE call.cursor
    BY DEF since
  <2>2. AnswerRight(vault, vaultRev, g, a)
    BY <1>1, <1>2, <1>6, <1>7, <1>11, <2>1, ListedRight
  <2>3. ASSUME NEW n \in NotesOf(c)
        PROVE  NoteListed(a, n)
    <3>1. NoteRight(vault, vaultRev, g, n) /\ n.rev \in Nat
      BY <1>1, <1>11 DEF ReaderRight, NotesOf, Notes
    <3> QED  BY <1>1, <1>6, <3>1 DEF NoteListed, NoteRight
  <2>4. \A d \in ls : d.read => AnswerRight(vault, vaultRev, g, d.answer)
    BY <1>8, <1>9, <1>11, <2>2 DEF ReaderRight
  <2>5. \A d \in ls, n \in NotesOf(c) : d.read => NoteListed(d.answer, n)
    BY <1>8, <1>9, <1>11, <2>3 DEF ReaderRight
  <2> QED  BY <1>11, <2>4, <2>5 DEF ReaderRight
<1> QED  BY <1>9, <1>10, <1>11, CallsOnly

\* A list lands, is refused or starts over.
LEMMA ListStep ==
    ASSUME VaultInv, NEW c \in Readers, NEW call \in lists[c], ListLands(c, call)
    PROVE  VaultInv'
<1>1. /\ held \in [DOMAIN held -> Held] /\ lists \in [DOMAIN held -> SUBSET Calls] /\ c \in DOMAIN held
      /\ answers \in [Landing -> SUBSET Notes]
      /\ vault \in [VaultIds -> VaultEntries] /\ vaultRev \in Nat /\ floor \in Nat
  BY DEF VaultInv, VaultTypes, Readers
<1> DEFINE a == call.answer
           h == held[c]
           ns == NotesOf(c)
           fold == foldVersionedList(h, a)
           again == fold # "apply" /\ (fold = "restart" \/ c \in Phones) /\ call.cursor # 0
           ls == (lists[c] \ {call}) \cup (IF again THEN {Call(0)} ELSE {})
           h2 == CASE fold = "apply"   -> Folded(h, a)
                   [] fold = "restart" -> IF c \in Phones THEN [h EXCEPT !.rev = 0] ELSE Nothing
                   [] fold = "ignore"  -> h
<1>2. call \in Calls /\ call.read /\ a \in Answers /\ h \in Held /\ ns \in SUBSET Notes
  BY <1>1 DEF ListLands, Calls, NotesOf
<1>3. held' = [held EXCEPT ![c] = h2] /\ lists' = [lists EXCEPT ![c] = ls]
      /\ UNCHANGED <<vault, vaultRev, floor, minted, answers>>
  BY <1>1 DEF ListLands
<1>4. Nothing \in Held /\ Nothing.rev = 0 /\ \A i \in VaultIds : Nothing.entries[i] = NoEntry
  BY DEF Nothing, Held, NoEntry, VaultEntries
<1>5. Call(0) \in Calls /\ ~Call(0).read
  BY DEF Call, NoAnswer, Nothing, NoEntry, Calls, Answers, VaultEntries
<1>6. ls \in SUBSET Calls /\ \A d \in ls : d.read => d \in lists[c]
  BY <1>1, <1>5
<1>7. a.rev \in Nat /\ h.rev \in Nat /\ a.since \in Nat
  BY <1>2 DEF Answers, Held
<1> HIDE DEF a, h, ns
<1>8. \/ fold = "apply" /\ a.rev >= h.rev /\ (a.since = 0 \/ a.since = h.rev)
      \/ fold = "restart"
      \/ fold = "ignore"
  BY <1>7 DEF foldVersionedList
<1> HIDE DEF fold, again, ls
<1>9. \/ fold = "apply" /\ a.rev >= h.rev /\ (a.since = 0 \/ a.since = h.rev) /\ h2 = Folded(h, a)
      \/ fold = "restart" /\ h2 = IF c \in Phones THEN [h EXCEPT !.rev = 0] ELSE Nothing
      \/ fold = "ignore" /\ h2 = h
  BY <1>8
<1> HIDE DEF h2
<1>10. h2 \in Held /\ \A g \in [VaultIds -> VaultEntries] :
               /\ LastWritten(vault, vaultRev, floor, g, minted)
               /\ ReaderRight(vault, vaultRev, g, h, lists[c], ns)
               => ReaderRight(vault, vaultRev, g, h2, lists[c], ns)
  <2>1. CASE fold = "apply" /\ a.rev >= h.rev /\ (a.since = 0 \/ a.since = h.rev) /\ h2 = Folded(h, a)
    <3>1. /\ h2.rev = a.rev
          /\ h2 \in Held
          /\ \A i \in VaultIds : h2.entries[i] =
               IF a.since = 0 THEN a.entries[i]
               ELSE IF a.entries[i].rev = 0 \/ h.entries[i].rev > a.entries[i].rev
                    THEN h.entries[i] ELSE a.entries[i]
      BY <1>2, <1>7, <2>1 DEF Folded, Held, Answers
    <3>2. ASSUME NEW g \in [VaultIds -> VaultEntries], LastWritten(vault, vaultRev, floor, g, minted),
                 ReaderRight(vault, vaultRev, g, h, lists[c], ns)
          PROVE  ReaderRight(vault, vaultRev, g, h2, lists[c], ns)
      <4>1. AnswerRight(vault, vaultRev, g, a) /\ \A n \in ns : NoteListed(a, n)
        BY <1>2, <3>2 DEF ReaderRight, a
      <4>2. lists[c] \in SUBSET Calls
        BY <1>1
      <4> QED  BY <1>1, <1>2, <2>1, <3>1, <3>2, <4>1, <4>2, FoldIsRight
    <3> QED  BY <3>1, <3>2
  <2>2. CASE fold = "restart" /\ h2 = IF c \in Phones THEN [h EXCEPT !.rev = 0] ELSE Nothing
    <3>1. h2 \in Held /\ h2.rev = 0 /\ (h2.entries = h.entries \/ \A i \in VaultIds : h2.entries[i] = NoEntry)
      BY <1>2, <1>4, <2>2 DEF Held
    <3>2. lists[c] \in SUBSET Calls
      BY <1>1
    <3> QED  BY <1>1, <1>2, <3>1, <3>2, ForgottenRight
  <2>3. CASE fold = "ignore" /\ h2 = h
    BY <1>2, <2>3
  <2> QED  BY <1>9, <2>1, <2>2, <2>3
<1>11. \A g \in [VaultIds -> VaultEntries] :
               /\ LastWritten(vault, vaultRev, floor, g, minted)
               /\ ReaderRight(vault, vaultRev, g, held[c], lists[c], NotesOf(c))
               => ReaderRight(vault, vaultRev, g, h2, ls, ns)
  <2>1. ASSUME NEW g \in [VaultIds -> VaultEntries], ReaderRight(vault, vaultRev, g, h2, lists[c], ns)
        PROVE  ReaderRight(vault, vaultRev, g, h2, ls, ns)
    BY <1>6, <2>1, LessInFlight
  <2> QED  BY <1>10, <2>1 DEF h, ns
<1>12. /\ c \in Landing => answers' = [answers EXCEPT ![c] = ns]
       /\ c \notin Landing => answers' = answers /\ ns = {}
  BY <1>1, <1>3 DEF NotesOf, ns
<1>13. DOMAIN held' = DOMAIN held /\ minted \subseteq minted'
  BY <1>1, <1>3
<1> QED  BY <1>2, <1>3, <1>6, <1>10, <1>11, <1>12, <1>13, OneReader

\* The answer of a write lands.
LEMMA LandStep ==
    ASSUME VaultInv, NEW c \in Landing, NEW n \in answers[c], WriteLands(c, n)
    PROVE  VaultInv'
<1>1. /\ held \in [DOMAIN held -> Held] /\ lists \in [DOMAIN held -> SUBSET Calls]
      /\ c \in DOMAIN held /\ c \in Readers
      /\ answers \in [Landing -> SUBSET Notes]
      /\ vault \in [VaultIds -> VaultEntries] /\ vaultRev \in Nat /\ floor \in Nat
  BY DEF VaultInv, VaultTypes, Readers, Landing
<1> DEFINE h == held[c]
           ls == lists[c]
           ns == answers[c]
           ns2 == ns \ {n}
           h2 == [rev |-> IF n.rev = h.rev + 1 THEN n.rev ELSE h.rev,
                  entries |-> [h.entries EXCEPT ![n.id] = n.entry]]
           h3 == IF h.entries[n.id].rev >= n.entry.rev THEN h ELSE h2
<1>2. h \in Held /\ ls \in SUBSET Calls /\ ns \in SUBSET Notes /\ ns2 \in SUBSET ns /\ ns2 \in SUBSET Notes
      /\ n \in ns /\ n \in Notes /\ NotesOf(c) = ns
  BY <1>1 DEF NotesOf
<1>3. h2 \in Held /\ h2.rev = (IF n.rev = h.rev + 1 THEN n.rev ELSE h.rev)
      /\ h2.entries = [h.entries EXCEPT ![n.id] = n.entry]
  BY <1>2 DEF Held, Notes
<1>4. held' = [held EXCEPT ![c] = h3] /\ lists' = [lists EXCEPT ![c] = ls] /\ answers' = [answers EXCEPT ![c] = ns2]
      /\ UNCHANGED <<vault, vaultRev, floor, minted>>
  BY <1>1 DEF WriteLands
<1>5. h.entries[n.id].rev \in Nat /\ n.entry.rev \in Nat
  BY <1>2 DEF Held, Notes, VaultEntries
<1> HIDE DEF h, ls, ns, ns2, h2
<1>6. ASSUME NEW g \in [VaultIds -> VaultEntries], LastWritten(vault, vaultRev, floor, g, minted),
             ReaderRight(vault, vaultRev, g, h, ls, ns)
      PROVE  ReaderRight(vault, vaultRev, g, h3, ls, ns2)
  <2>1. CASE h.entries[n.id].rev >= n.entry.rev
    BY <1>2, <1>6, <2>1, LessInFlight
  <2>2. CASE h.entries[n.id].rev < n.entry.rev
    <3>1. ReaderRight(vault, vaultRev, g, h2, ls, ns)
      BY <1>1, <1>2, <1>3, <1>6, <2>2, WriteRight
    <3>2. ReaderRight(vault, vaultRev, g, h2, ls, ns2)
      BY <1>2, <3>1, LessInFlight
    <3> QED  BY <1>5, <2>2, <3>2
  <2> QED  BY <1>5, <2>1, <2>2
<1>7. h3 \in Held
  BY <1>2, <1>3
<1>8. \A g \in [VaultIds -> VaultEntries] :
               /\ LastWritten(vault, vaultRev, floor, g, minted)
               /\ ReaderRight(vault, vaultRev, g, held[c], lists[c], NotesOf(c))
               => ReaderRight(vault, vaultRev, g, h3, ls, ns2)
  BY <1>2, <1>6 DEF h, ls
<1>9. DOMAIN held' = DOMAIN held /\ minted \subseteq minted'
  BY <1>1, <1>4
<1> HIDE DEF h3
<1> QED  BY <1>1, <1>2, <1>4, <1>7, <1>8, <1>9, OneReader

LEMMA LostStep ==
    ASSUME VaultInv, NEW c \in Landing, NEW n \in answers[c], AnswerLost(c, n)
    PROVE  VaultInv'
<1>1. /\ held \in [DOMAIN held -> Held] /\ lists \in [DOMAIN held -> SUBSET Calls]
      /\ c \in DOMAIN held /\ c \in Readers /\ answers \in [Landing -> SUBSET Notes]
  BY DEF VaultInv, VaultTypes, Readers, Landing
<1> DEFINE h == held[c]
           ls == lists[c]
           ns == answers[c] \ {n}
<1>2. h \in Held /\ ls \in SUBSET Calls /\ ns \in SUBSET Notes /\ ns \in SUBSET NotesOf(c)
  BY <1>1 DEF NotesOf
<1>3. held' = [held EXCEPT ![c] = h] /\ lists' = [lists EXCEPT ![c] = ls] /\ answers' = [answers EXCEPT ![c] = ns]
      /\ UNCHANGED <<vault, vaultRev, floor, minted>> /\ DOMAIN held' = DOMAIN held
  BY <1>1 DEF AnswerLost
<1>4. \A g \in [VaultIds -> VaultEntries] :
               /\ LastWritten(vault, vaultRev, floor, g, minted)
               /\ ReaderRight(vault, vaultRev, g, held[c], lists[c], NotesOf(c))
               => ReaderRight(vault, vaultRev, g, h, ls, ns)
  BY <1>2, LessInFlight
<1>5. minted \subseteq minted'
  BY <1>3
<1> HIDE DEF h, ls, ns
<1> QED  BY <1>1, <1>2, <1>3, <1>4, <1>5, OneReader

\* A reader starts again: nothing from before lands.
LEMMA RestartStep == ASSUME VaultInv, NEW c \in Readers, Restart(c) PROVE VaultInv'
<1>1. /\ held \in [DOMAIN held -> Held] /\ lists \in [DOMAIN held -> SUBSET Calls]
      /\ c \in DOMAIN held /\ answers \in [Landing -> SUBSET Notes]
      /\ vault \in [VaultIds -> VaultEntries] /\ vaultRev \in Nat /\ floor \in Nat
  BY DEF VaultInv, VaultTypes, Readers
<1> DEFINE ls == {}
           ns == {}
           h2 == Nothing
<1>2. h2 \in Held /\ h2.rev = 0 /\ \A i \in VaultIds : h2.entries[i] = NoEntry
  BY DEF Nothing, Held, NoEntry, VaultEntries
<1>3. held' = [held EXCEPT ![c] = h2] /\ lists' = [lists EXCEPT ![c] = ls]
      /\ UNCHANGED <<vault, vaultRev, floor, minted>> /\ DOMAIN held' = DOMAIN held
  BY <1>1 DEF Restart
<1>4. /\ c \in Landing => answers' = [answers EXCEPT ![c] = ns]
      /\ c \notin Landing => answers' = answers /\ ns = {}
  BY DEF Restart, Landing
<1> HIDE DEF h2
<1>5. ASSUME NEW g \in [VaultIds -> VaultEntries], LastWritten(vault, vaultRev, floor, g, minted),
             ReaderRight(vault, vaultRev, g, held[c], lists[c], NotesOf(c))
      PROVE  ReaderRight(vault, vaultRev, g, h2, ls, ns)
  <2> DEFINE h == held[c]
             ls1 == lists[c]
             ns1 == NotesOf(c)
  <2>1. h \in Held /\ ls1 \in SUBSET Calls /\ ns1 \in SUBSET Notes
    BY <1>1 DEF NotesOf
  <2>2. ReaderRight(vault, vaultRev, g, h, ls1, ns1)
    BY <1>5
  <2> HIDE DEF h, ls1, ns1
  <2>3. ReaderRight(vault, vaultRev, g, h2, ls1, ns1)
    BY <1>1, <1>2, <1>5, <2>1, <2>2, ForgottenRight
  <2> QED  BY <2>3 DEF ReaderRight
<1>6. ls \in SUBSET Calls /\ ns \in SUBSET Notes /\ minted \subseteq minted'
  BY <1>3
<1>7. \A g \in [VaultIds -> VaultEntries] :
               /\ LastWritten(vault, vaultRev, floor, g, minted)
               /\ ReaderRight(vault, vaultRev, g, held[c], lists[c], NotesOf(c))
               => ReaderRight(vault, vaultRev, g, h2, ls, ns)
  BY <1>5
<1> HIDE DEF ls, ns
<1> QED  BY <1>2, <1>3, <1>4, <1>6, <1>7, OneReader

LEMMA VaultStep == ~IdsReturn /\ VaultInv /\ [VaultNext]_vaultVars => VaultInv'
<1> SUFFICES ASSUME ~IdsReturn, VaultInv, [VaultNext]_vaultVars PROVE VaultInv'
  OBVIOUS
<1>1. ASSUME NEW c \in Phones \cup Gateways, NEW i \in VaultIds, NEW x \in 0 .. MaxVaultRev, Put(c, i, x)
      PROVE  VaultInv'
  BY <1>1, PutStep
<1>2. ASSUME NEW c \in Phones, NEW i \in VaultIds, NEW x \in 1 .. MaxVaultRev, Delete(c, i, x)
      PROVE  VaultInv'
  BY <1>2, DeleteStep
<1>3. CASE TombstonesAge
  BY <1>3, AgeStep
<1>4. CASE VaultSweep
  BY <1>4, SweepStep
<1>5. ASSUME NEW c \in Readers, Refresh(c) \/ Restart(c)
      PROVE  VaultInv'
  BY <1>5, RefreshStep, RestartStep
<1>6. ASSUME NEW c \in Readers, NEW call \in lists[c],
             RouterReads(c, call) \/ ListLands(c, call) \/ ListFails(c, call)
      PROVE  VaultInv'
  BY <1>6, ReadStep, ListStep, FailStep
<1>7. ASSUME NEW c \in Landing, NEW n \in answers[c], WriteLands(c, n) \/ AnswerLost(c, n)
      PROVE  VaultInv'
  BY <1>7, LandStep, LostStep
<1>8. CASE UNCHANGED vaultVars
  <2>1. Readers' = Readers /\ Landing' = Landing /\ \A c : NotesOf(c)' = NotesOf(c)
    BY <1>8 DEF vaultVars, Readers, Landing, NotesOf
  <2>2. VaultTypes'
    BY <1>8, <2>1 DEF vaultVars, VaultInv, VaultTypes
  <2>3. \A g \in [VaultIds -> VaultEntries] : VaultInvFor(g) => VaultInvFor(g)'
    BY <1>8, <2>1 DEF vaultVars, VaultInvFor
  <2> QED  BY <2>2, <2>3 DEF VaultInv
<1> QED  BY <1>1, <1>2, <1>3, <1>4, <1>5, <1>6, <1>7, <1>8 DEF VaultNext

-----------------------------------------------------------------------------
(* The theorem *)

LEMMA RightAgrees == VaultInv => ReadersAgree
<1> SUFFICES ASSUME VaultInv PROVE ReadersAgree
  OBVIOUS
<1>1. PICK g \in [VaultIds -> VaultEntries] : VaultInvFor(g)
  BY DEF VaultInv
<1>2. ASSUME NEW c \in Readers, NEW i \in VaultIds
      PROVE  /\ vault[i].rev \in Nat /\ vault[i].at \in Nat /\ g[i].rev \in Nat /\ g[i].at \in Nat
             /\ held[c].rev \in Nat /\ held[c].rev <= vaultRev /\ vaultRev \in Nat /\ floor \in Nat
             /\ held[c].entries[i].rev \in Nat /\ held[c].entries[i].at \in Nat
             /\ CopyOf(g[i], held[c].entries[i])
             /\ g[i].at <= held[c].rev =>
                  IF vault[i].rev > 0 THEN held[c].entries[i].at = g[i].at ELSE held[c].entries[i].tomb
  BY <1>1 DEF VaultInv, VaultTypes, VaultInvFor, ReaderRight, HeldRight, Covers, VaultEntries, Held, Readers
<1>3. LastWritten(vault, vaultRev, floor, g, minted)
  BY <1>1 DEF VaultInvFor
<1>4. CursorCovers
  <2> SUFFICES ASSUME NEW c \in Readers, NEW i \in VaultIds
               PROVE  /\ vault[i].rev > 0 /\ vault[i].at <= held[c].rev => held[c].entries[i].at = vault[i].at
                      /\ vault[i].rev = 0 /\ ~held[c].entries[i].tomb => held[c].rev < floor
    BY DEF CursorCovers
  <2>1. vault[i].rev # 0 => vault[i].at = g[i].at
    BY <1>3 DEF LastWritten
  <2>2. vault[i].rev = 0 => g[i].at <= floor
    BY <1>3 DEF LastWritten
  <2> QED  BY <1>2, <2>1, <2>2
<1>5. Converged
  <2> SUFFICES ASSUME NEW c \in Readers, held[c].rev = vaultRev
               PROVE  /\ LiveIn(held[c].entries) = LiveIn(vault)
                      /\ \A i \in LiveIn(vault) : held[c].entries[i].at = vault[i].at
    BY DEF Converged
  <2>1. ASSUME NEW i \in VaultIds
        PROVE  /\ vault[i].rev # 0 => held[c].entries[i].at = vault[i].at
               /\ vault[i].tomb <=> held[c].entries[i].tomb
               /\ vault[i].rev = 0 => vault[i].tomb
    <3>1. g[i].at <= held[c].rev
      BY <1>3 DEF LastWritten
    <3>2. CASE vault[i].rev = 0
      <4>1. vault[i].tomb /\ held[c].entries[i].tomb
        BY <1>2, <1>3, <3>1, <3>2 DEF LastWritten
      <4> QED  BY <3>2, <4>1
    <3>3. CASE vault[i].rev # 0
      <4>1. vault[i].rev = g[i].rev /\ vault[i].at = g[i].at /\ vault[i].tomb = g[i].tomb
        BY <1>3, <3>3 DEF LastWritten
      <4>2. g[i].at > 0
        BY <1>2, <1>3, <3>3, <4>1 DEF LastWritten
      <4>3. held[c].entries[i].at = g[i].at
        BY <1>2, <3>1, <3>3
      <4>4. CopyOf(g[i], held[c].entries[i]) /\ held[c].entries[i].rev \in Nat /\ g[i].rev \in Nat /\ g[i].at \in Nat
        BY <1>2
      <4>5. held[c].entries[i].rev = g[i].rev /\ held[c].entries[i].rev # 0
        BY <4>2, <4>3, <4>4 DEF CopyOf
      <4>6. held[c].entries[i].tomb = g[i].tomb
        BY <4>4, <4>5 DEF CopyOf
      <4> QED  BY <3>3, <4>1, <4>3, <4>6
    <3> QED  BY <3>2, <3>3
  <2> QED  BY <2>1 DEF LiveIn
<1> QED  BY <1>4, <1>5 DEF ReadersAgree

\* Where an id is never used again (IdsReturn says what happens otherwise), a
\* reader's cursor stands for what it claims and a reader at the Router's
\* revision holds the Router's vault: for any ids, phones and gateways, any
\* limits and any number of commits, in whatever order lists and the answers of
\* writes are read, land, are refused or lost, over sweeps and restarts
\* (vaultService.ts, vaultClient.ts, VaultManager.kt, VaultOps.kt).
THEOREM ReadersHold ==
    ASSUME ~IdsReturn
    PROVE  VaultSpec => []ReadersAgree
<1>1. VaultInv /\ [VaultNext]_vaultVars => VaultInv'
  BY VaultStep
<1> QED  BY <1>1, InitRight, RightAgrees, PTL DEF VaultSpec

-----------------------------------------------------------------------------
(* Room *)

Slots(amount) == UNION {{b} \X (1 .. amount[b]) : b \in Blobs}
Amounts == [Blobs -> Nat]

(* An interval that starts at 1 is finite and has so many elements. *)
LEMMA UpTo ==
    ASSUME NEW n \in Nat
    PROVE  IsFiniteSet(1 .. n) /\ Cardinality(1 .. n) = n
<1>1. 1 \in Int /\ n \in Int
  OBVIOUS
<1>2. IsFiniteSet(1 .. n) /\ Cardinality(1 .. n) = IF 1 > n THEN 0 ELSE n - 1 + 1
  BY <1>1, FS_Interval, Zenon
<1> QED
  BY <1>2

(* The slots of finitely many blobs are finitely many. *)
LEMMA SlotsFinite ==
    ASSUME NEW a \in Amounts
    PROVE  IsFiniteSet(Slots(a)) /\ Cardinality(Slots(a)) \in Nat
<1> DEFINE Of(b) == {b} \X (1 .. a[b])
           All == {Of(b) : b \in Blobs}
<1>1. IsFiniteSet(All)
  <2>1. IsFiniteSet(Blobs)
    BY CacheAssumption
  <2>2. \E f : f \in [Blobs -> All] /\ \A t \in All : \E b \in Blobs : f[b] = t
    <3> DEFINE g == [b \in Blobs |-> Of(b)]
    <3>1. g \in [Blobs -> All] /\ \A t \in All : \E b \in Blobs : g[b] = t
      OBVIOUS
    <3> HIDE DEF g
    <3> QED
      BY <3>1
  <2> HIDE DEF All
  <2>3. PICK f : f \in Surjection(Blobs, All)
    BY <2>2 DEF Surjection
  <2> QED
    BY <2>1, <2>3, FS_Surjection, Zenon
<1>2. \A t \in All : IsFiniteSet(t)
  <2>1. ASSUME NEW b \in Blobs
        PROVE  IsFiniteSet(Of(b))
    <3>1. a[b] \in Nat
      BY DEF Amounts
    <3>2. IsFiniteSet({b}) /\ IsFiniteSet(1 .. a[b])
      BY <3>1, UpTo, FS_Singleton, Zenon
    <3> QED
      BY <3>2, FS_Product, Zenon
  <2> QED
    BY <2>1
<1>3. IsFiniteSet(UNION All)
  <2> HIDE DEF All
  <2> QED
    BY <1>1, <1>2, FS_UNION, Zenon
<1> QED
  BY <1>3, FS_CardinalityType, Zenon DEF Slots

(* Less of each blob takes less room. *)
LEMMA TotalMonotone ==
    ASSUME NEW a \in Amounts, NEW c \in Amounts, \A b \in Blobs : a[b] <= c[b]
    PROVE  Total(a) \in Nat /\ Total(c) \in Nat /\ Total(a) <= Total(c)
<1>1. Slots(a) \subseteq Slots(c)
  BY DEF Slots, Amounts
<1>2. IsFiniteSet(Slots(c)) /\ Cardinality(Slots(a)) \in Nat /\ Cardinality(Slots(c)) \in Nat
  BY SlotsFinite, Zenon
<1>3. Cardinality(Slots(a)) <= Cardinality(Slots(c))
  BY <1>1, <1>2, FS_Subset, Zenon
<1> QED
  BY <1>2, <1>3 DEF Total, Slots

(* What one blob takes is added to the others. *)
LEMMA TotalSplit ==
    ASSUME NEW a \in Amounts, NEW b \in Blobs
    PROVE  Total(a) = Total([a EXCEPT ![b] = 0]) + a[b]
<1> DEFINE z == [a EXCEPT ![b] = 0]
           Own == {b} \X (1 .. a[b])
<1>1. z \in Amounts /\ a[b] \in Nat
  BY DEF Amounts
<1>2. Slots(a) = Slots(z) \cup Own /\ Slots(z) \cap Own = {}
  <2>1. \A c \in Blobs : z[c] = IF c = b THEN 0 ELSE a[c]
    BY DEF Amounts
  <2> HIDE DEF z
  <2>2. \A x : x \in Slots(a) <=> \E c \in Blobs : x \in {c} \X (1 .. a[c])
    BY DEF Slots
  <2>3. \A x : x \in Slots(z) <=> \E c \in Blobs \ {b} : x \in {c} \X (1 .. a[c])
    BY <2>1 DEF Slots
  <2> HIDE DEF Slots
  <2> QED
    BY <2>2, <2>3
<1>3. IsFiniteSet(Slots(z)) /\ IsFiniteSet(Own) /\ Cardinality(Own) = a[b] /\ Cardinality(Slots(z)) \in Nat
  <2>1. IsFiniteSet({b}) /\ Cardinality({b}) = 1 /\ IsFiniteSet(1 .. a[b]) /\ Cardinality(1 .. a[b]) = a[b]
    BY <1>1, UpTo, FS_Singleton, Zenon
  <2>2. IsFiniteSet(Own) /\ Cardinality(Own) = Cardinality({b}) * Cardinality(1 .. a[b])
    BY <2>1, FS_Product, Zenon
  <2>3. IsFiniteSet(Slots(z)) /\ Cardinality(Slots(z)) \in Nat
    BY <1>1, SlotsFinite, Zenon
  <2> QED
    BY <2>1, <2>2, <2>3, <1>1
<1>4. Cardinality(Slots(a)) = Cardinality(Slots(z)) + a[b]
  <2> HIDE DEF z, Own, Slots
  <2>1. Cardinality(Slots(z) \cup Own) = Cardinality(Slots(z)) + Cardinality(Own) - Cardinality(Slots(z) \cap Own)
    BY <1>3, FS_Union, Zenon
  <2>2. Cardinality(Slots(z) \cap Own) = 0
    BY <1>2, FS_EmptySet, Zenon
  <2> QED
    BY <1>1, <1>2, <1>3, <2>1, <2>2
<1> QED
  BY <1>4 DEF Total, Slots

(* A change of one amount changes the total by so much. *)
LEMMA TotalChanged ==
    ASSUME NEW a \in Amounts, NEW c \in Amounts, NEW b \in Blobs,
           \A x \in Blobs \ {b} : c[x] = a[x]
    PROVE  /\ Total(c) = Total(a) - a[b] + c[b]
           /\ Total(a) \in Nat
<1>1. [c EXCEPT ![b] = 0] = [a EXCEPT ![b] = 0]
  BY DEF Amounts
<1>2. Total(c) = Total([c EXCEPT ![b] = 0]) + c[b] /\ Total(a) = Total([a EXCEPT ![b] = 0]) + a[b]
  BY TotalSplit, Zenon
<1>3. [a EXCEPT ![b] = 0] \in Amounts /\ a[b] \in Nat /\ c[b] \in Nat
  BY DEF Amounts
<1>4. Total([a EXCEPT ![b] = 0]) \in Nat
  <2>1. \A x \in Blobs : [a EXCEPT ![b] = 0][x] <= [a EXCEPT ![b] = 0][x]
    BY <1>3 DEF Amounts
  <2> QED
    BY <1>3, <2>1, TotalMonotone, Zenon
<1> QED
  BY <1>1, <1>2, <1>3, <1>4

(* Nothing takes no room. *)
LEMMA TotalNothing ==
    ASSUME NEW a \in Amounts, \A b \in Blobs : a[b] = 0
    PROVE  Total(a) = 0
<1>1. Slots(a) = {}
  BY DEF Slots
<1> QED
  BY <1>1, FS_EmptySet DEF Total, Slots

-----------------------------------------------------------------------------
(* The invariant of the cache *)

Metas == [digest : Uploads \cup {0}, lease : Uploads \cup {0}, live : BOOLEAN]
Sendings == [stage : {"new", "sending", "done", "failed"}, blob : Blobs \cup {0}, sent : Nat]
Uploadings == {up \in [Uploads -> Sendings] : \A u \in Uploads :
                  up[u].stage = "sending" => up[u].blob \in Blobs /\ up[u].sent < Chunks}
Seqs == Seq(Uploads)
FileMaps == [Blobs -> Seqs]
Indexes == [Blobs -> Metas]

CacheTypes ==
    /\ part \in FileMaps /\ final \in FileMaps
    /\ index \in Indexes /\ saved \in Indexes
    /\ recovery \in [Blobs -> Uploads \cup {0}]
    /\ upload \in Uploadings
    /\ cacheDown \in BOOLEAN

(* A file is whole, and then its part is gone. *)
FilesWhole(p, f) ==
    \A b \in Blobs : /\ Len(p[b]) <= Chunks
                     /\ f[b] # <<>> => Len(f[b]) = Chunks /\ p[b] = <<>>

(* A lease is for the ciphertext of its entry. *)
LeaseOfEntry(idx) ==
    \A b \in Blobs : idx[b].lease \in {0, idx[b].digest} /\ (idx[b].live => idx[b].lease # 0)

(* What an index says is complete is the file of its entry. *)
WholeBy(f, idx) == \A b \in Blobs : f[b] # <<>> /\ idx[b].digest # 0 => f[b] = Whole(idx[b].digest)

(* Who may send on has all of the part. *)
OwnedBy(p, idx, up) ==
    \A u \in Uploads : LET b == up[u].blob IN
        up[u].stage = "sending" /\ idx[b].lease = u /\ idx[b].live =>
            /\ Len(p[b]) <= up[u].sent
            /\ \A k \in DOMAIN p[b] : p[b][k] = u

(* No index names an upload that did not begin. *)
BegunBy(idx, up) == \A u \in Uploads, b \in Blobs : up[u].stage = "new" => idx[b].digest # u

(* In memory entries may be missing: those of files evicted for a begin      *)
(* that was refused.                                                         *)
SavedBehind(idx, sv) == \A b \in Blobs : sv[b] # idx[b] => idx[b] = NoBlob /\ sv[b].lease = 0

(* A part has a lease, a file none. *)
PartLeased(p, f, idx) ==
    \A b \in Blobs : IF idx[b].lease = 0 THEN p[b] = <<>> ELSE f[b] = <<>>

(* Every index, the one in memory and the one a restart reads, is right about *)
(* the files.                                                                 *)
Describes(p, f, idx, up) ==
    /\ LeaseOfEntry(idx) /\ WholeBy(f, idx) /\ OwnedBy(p, idx, up) /\ BegunBy(idx, up)
    /\ used(f, p, idx) <= Quota

CacheInv ==
    /\ CacheTypes
    /\ FilesWhole(part, final) /\ PartLeased(part, final, index)
    /\ Describes(part, final, index, upload) /\ Describes(part, final, saved, upload)
    /\ \A u \in Uploads, b \in Blobs : upload[u].stage = "new" => recovery[b] # u
    /\ cacheDown \/ SavedBehind(index, saved)

(* What a blob takes, as amounts. *)
LEMMA ReservedAmounts ==
    ASSUME NEW f \in FileMaps, NEW p \in FileMaps, NEW idx \in Indexes
    PROVE  /\ \A b \in Blobs : reserved(f, p, idx, b) \in Nat
           /\ [b \in Blobs |-> reserved(f, p, idx, b)] \in Amounts
<1>1. \A b \in Blobs : Len(f[b]) \in Nat /\ Len(p[b]) \in Nat
  BY LenProperties DEF FileMaps, Seqs
<1>2. \A b \in Blobs : reserved(f, p, idx, b) \in Nat
  BY <1>1, CacheAssumption DEF reserved, Have, CacheMax
<1> QED
  BY <1>2 DEF Amounts

(* Files, parts and leases that take no more of any blob take no more. *)
LEMMA RoomShrinks ==
    ASSUME NEW f \in FileMaps, NEW p \in FileMaps, NEW idx \in Indexes,
           NEW f1 \in FileMaps, NEW p1 \in FileMaps, NEW idx1 \in Indexes,
           used(f, p, idx) <= Quota,
           \A b \in Blobs : reserved(f1, p1, idx1, b) <= reserved(f, p, idx, b)
    PROVE  used(f1, p1, idx1) <= Quota /\ used(f1, p1, idx1) <= used(f, p, idx)
<1> DEFINE a == [b \in Blobs |-> reserved(f, p, idx, b)]
           c == [b \in Blobs |-> reserved(f1, p1, idx1, b)]
<1>1. a \in Amounts /\ c \in Amounts
  BY ReservedAmounts, Zenon
<1>2. \A b \in Blobs : c[b] <= a[b]
  OBVIOUS
<1>3. Total(c) \in Nat /\ Total(a) \in Nat /\ Total(c) <= Total(a)
  <2> HIDE DEF a, c
  <2> QED
    BY <1>1, <1>2, TotalMonotone, Zenon
<1>4. Total(a) <= Quota
  BY DEF used
<1>5. Quota \in Nat
  BY CacheAssumption
<1>6. Total(c) <= Quota
  <2> HIDE DEF a, c
  <2> QED
    BY <1>3, <1>4, <1>5
<1> QED
  BY <1>3, <1>6 DEF used

(* What a blob takes, in the cases the proofs meet. *)
LEMMA ReservedCases ==
    ASSUME NEW f \in FileMaps, NEW p \in FileMaps, NEW idx \in Indexes, NEW b \in Blobs,
           Len(p[b]) <= Chunks, f[b] # <<>> => Len(f[b]) = Chunks
    PROVE  /\ idx[b].lease # 0 => reserved(f, p, idx, b) = Chunks
           /\ f[b] # <<>> => reserved(f, p, idx, b) = Chunks
           /\ idx[b].lease = 0 /\ f[b] = <<>> => reserved(f, p, idx, b) = Len(p[b])
           /\ reserved(f, p, idx, b) <= Chunks
           /\ Len(p[b]) \in Nat
<1>1. Len(p[b]) \in Nat /\ Len(f[b]) \in Nat
  BY LenProperties DEF FileMaps, Seqs
<1> QED
  BY <1>1, CacheAssumption DEF reserved, Have, CacheMax

(* Less of the files and of the parts, and entries that lost their lease or  *)
(* are gone.                                                                 *)
Lesser(p1, f1, p, f) == \A b \in Blobs : p1[b] \in {p[b], <<>>} /\ f1[b] \in {f[b], <<>>}
Lower(idx1, idx) ==
    \A b \in Blobs :
        \/ idx1[b] = NoBlob
        \/ /\ idx1[b].digest = idx[b].digest
           /\ \/ idx1[b].lease = 0 /\ ~idx1[b].live
              \/ idx1[b].lease = idx[b].lease /\ (idx1[b].live => idx[b].live)

LEMMA LesserWhole ==
    ASSUME NEW p \in FileMaps, NEW f \in FileMaps, NEW p1 \in FileMaps, NEW f1 \in FileMaps,
           FilesWhole(p, f), Lesser(p1, f1, p, f)
    PROVE  FilesWhole(p1, f1)
<1>1. Len(<<>>) <= Chunks
  BY CacheAssumption
<1> QED
  BY <1>1, LenProperties DEF FilesWhole, Lesser, FileMaps, Seqs

(* Less is described as well as before. *)
LEMMA LessDescribed ==
    ASSUME NEW p \in FileMaps, NEW f \in FileMaps, NEW idx \in Indexes, NEW up \in Uploadings,
           NEW p1 \in FileMaps, NEW f1 \in FileMaps, NEW idx1 \in Indexes,
           FilesWhole(p, f), Describes(p, f, idx, up),
           Lesser(p1, f1, p, f), Lower(idx1, idx), 0 \notin Uploads
    PROVE  Describes(p1, f1, idx1, up)
<1>1. LeaseOfEntry(idx1)
  BY DEF Describes, LeaseOfEntry, Lower, NoBlob
<1>2. WholeBy(f1, idx1)
  BY DEF Describes, WholeBy, Lower, Lesser, NoBlob
<1>3. OwnedBy(p1, idx1, up)
  <2> SUFFICES ASSUME NEW u \in Uploads, up[u].stage = "sending",
                      idx1[up[u].blob].lease = u, idx1[up[u].blob].live, up[u].blob \in Blobs
               PROVE  /\ Len(p1[up[u].blob]) <= up[u].sent
                      /\ \A k \in DOMAIN p1[up[u].blob] : p1[up[u].blob][k] = u
    BY DEF OwnedBy, Uploadings
  <2>1. Len(<<>>) = 0 /\ DOMAIN <<>> = {} /\ up[u].sent \in Nat
    BY DEF Uploadings, Sendings
  <2>2. idx[up[u].blob].lease = u /\ idx[up[u].blob].live
    BY DEF Lower, NoBlob
  <2>3. /\ Len(p[up[u].blob]) <= up[u].sent
        /\ \A k \in DOMAIN p[up[u].blob] : p[up[u].blob][k] = u
    BY <2>2 DEF Describes, OwnedBy
  <2> QED
    BY <2>1, <2>3 DEF Lesser
<1>4. BegunBy(idx1, up)
  BY DEF Describes, BegunBy, Lower, NoBlob
<1>5. \A b \in Blobs : reserved(f1, p1, idx1, b) <= reserved(f, p, idx, b)
  <2> SUFFICES ASSUME NEW b \in Blobs
               PROVE  reserved(f1, p1, idx1, b) <= reserved(f, p, idx, b)
    OBVIOUS
  <2>1. Len(<<>>) = 0 /\ Len(p[b]) \in Nat /\ Len(f[b]) \in Nat /\ Chunks \in Nat
    BY LenProperties, CacheAssumption DEF FileMaps, Seqs
  <2>2. Have(f1, p1, b) <= Have(f, p, b) /\ Have(f1, p1, b) \in Nat /\ Have(f, p, b) \in Nat
    BY <2>1 DEF Have, Lesser, FilesWhole
  <2>3. idx1[b].lease # 0 => idx[b].lease # 0
    BY DEF Lower, NoBlob
  <2> QED
    BY <2>1, <2>2, <2>3 DEF reserved, CacheMax
<1>6. used(f1, p1, idx1) <= Quota
  BY <1>5, RoomShrinks, Zenon DEF Describes
<1> QED
  BY <1>1, <1>2, <1>3, <1>4, <1>6 DEF Describes

(* An upload goes on or ends. *)
LEMMA UploadMoved ==
    ASSUME NEW p \in FileMaps, NEW f \in FileMaps, NEW idx \in Indexes, NEW up \in Uploadings,
           NEW up1 \in Uploadings, NEW u \in Uploads,
           Describes(p, f, idx, up),
           \A v \in Uploads \ {u} : up1[v] = up[v],
           up1[u].stage # "new",
           up1[u].stage = "sending" => p[up1[u].blob] = <<>>
    PROVE  Describes(p, f, idx, up1)
<1>1. OwnedBy(p, idx, up1)
  <2> SUFFICES ASSUME NEW v \in Uploads, up1[v].stage = "sending", up1[v].blob \in Blobs,
                      idx[up1[v].blob].lease = v, idx[up1[v].blob].live
               PROVE  /\ Len(p[up1[v].blob]) <= up1[v].sent
                      /\ \A k \in DOMAIN p[up1[v].blob] : p[up1[v].blob][k] = v
    BY DEF OwnedBy, Uploadings
  <2>1. CASE v = u
    <3>1. Len(<<>>) = 0 /\ DOMAIN <<>> = {} /\ up1[v].sent \in Nat
      BY DEF Uploadings, Sendings
    <3> QED
      BY <2>1, <3>1
  <2>2. CASE v # u
    BY <2>2 DEF Describes, OwnedBy
  <2> QED
    BY <2>1, <2>2
<1>2. BegunBy(idx, up1)
  BY DEF Describes, BegunBy
<1> QED
  BY <1>1, <1>2 DEF Describes

(* A part that is not whole has room for a chunk. *)
LEMMA AppendedFiles ==
    ASSUME NEW p \in FileMaps, NEW f \in FileMaps, NEW u \in Uploads, NEW b \in Blobs,
           FilesWhole(p, f), Len(p[b]) + 1 < Chunks, f[b] = <<>>
    PROVE  /\ [p EXCEPT ![b] = Append(p[b], u)] \in FileMaps
           /\ FilesWhole([p EXCEPT ![b] = Append(p[b], u)], f)
<1> DEFINE p1 == [p EXCEPT ![b] = Append(p[b], u)]
<1>1. /\ Append(p[b], u) \in Seqs /\ Len(Append(p[b], u)) = Len(p[b]) + 1
      /\ Len(p[b]) \in Nat /\ Chunks \in Nat
  BY AppendProperties, LenProperties, CacheAssumption DEF FileMaps, Seqs
<1>2. p1 \in FileMaps
  BY <1>1 DEF FileMaps
<1>3. p1[b] = Append(p[b], u) /\ \A x \in Blobs \ {b} : p1[x] = p[x]
  BY DEF FileMaps
<1> HIDE DEF p1
<1>4. Len(p1[b]) <= Chunks
  BY <1>1, <1>3
<1>5. FilesWhole(p1, f)
  BY <1>3, <1>4 DEF FilesWhole
<1> QED
  BY <1>2, <1>5 DEF p1

(* The chunk of the upload with the lease is appended. *)
LEMMA Appended ==
    ASSUME NEW p \in FileMaps, NEW f \in FileMaps, NEW idx \in Indexes, NEW up \in Uploadings,
           NEW up1 \in Uploadings, NEW u \in Uploads, NEW b \in Blobs,
           FilesWhole(p, f), Describes(p, f, idx, up),
           up[u].stage = "sending", up[u].blob = b, idx[b].lease = u, idx[b].live,
           Len(p[b]) = up[u].sent, up[u].sent + 1 < Chunks, f[b] = <<>>,
           \A v \in Uploads \ {u} : up1[v] = up[v],
           up1[u].stage # "new", up1[u].blob = b,
           up1[u].stage = "sending" => up1[u].sent = up[u].sent + 1, 0 \notin Uploads
    PROVE  LET p1 == [p EXCEPT ![b] = Append(p[b], u)]
           IN Describes(p1, f, idx, up1)
<1> DEFINE p1 == [p EXCEPT ![b] = Append(p[b], u)]
<1>1. /\ p[b] \in Seq(Uploads) /\ Append(p[b], u) \in Seq(Uploads)
      /\ Len(Append(p[b], u)) = Len(p[b]) + 1 /\ Len(p[b]) \in Nat /\ Chunks \in Nat
      /\ DOMAIN Append(p[b], u) = 1 .. Len(p[b]) + 1 /\ DOMAIN p[b] = 1 .. Len(p[b])
      /\ \A k \in 1 .. Len(p[b]) : Append(p[b], u)[k] = p[b][k]
      /\ Append(p[b], u)[Len(p[b]) + 1] = u
  BY AppendProperties, LenProperties, CacheAssumption DEF FileMaps, Seqs
<1>2. p1 \in FileMaps /\ FilesWhole(p1, f)
  BY <1>1, AppendedFiles
<1>3. \A x \in Blobs : p1[x] = IF x = b THEN Append(p[b], u) ELSE p[x]
  BY DEF FileMaps
<1> HIDE DEF p1
<1>5. OwnedBy(p1, idx, up1)
  <2> SUFFICES ASSUME NEW v \in Uploads, up1[v].stage = "sending", up1[v].blob \in Blobs,
                      idx[up1[v].blob].lease = v, idx[up1[v].blob].live
               PROVE  /\ Len(p1[up1[v].blob]) <= up1[v].sent
                      /\ \A k \in DOMAIN p1[up1[v].blob] : p1[up1[v].blob][k] = v
    BY DEF OwnedBy, Uploadings
  <2>1. CASE v = u
    <3>1. \A k \in 1 .. Len(p[b]) : p[b][k] = u
      <4>0. OwnedBy(p, idx, up) /\ idx[up[u].blob].lease = u /\ idx[up[u].blob].live
        BY DEF Describes
      <4>1. \A k \in DOMAIN p[up[u].blob] : p[up[u].blob][k] = u
        BY <4>0, Zenon DEF OwnedBy
      <4> QED
        BY <4>1, <1>1
    <3>2. \A k \in DOMAIN p1[b] : p1[b][k] = u
      <4>1. p1[b] = Append(p[b], u)
        BY <1>3
      <4>2. \A k \in 1 .. Len(p[b]) + 1 : Append(p[b], u)[k] = u
        <5> SUFFICES ASSUME NEW k \in 1 .. Len(p[b]) + 1
                     PROVE  Append(p[b], u)[k] = u
          OBVIOUS
        <5>1. CASE k = Len(p[b]) + 1
          BY <5>1, <1>1
        <5>2. CASE k # Len(p[b]) + 1
          <6>1. k \in 1 .. Len(p[b])
            BY <5>2, <1>1
          <6> QED
            BY <6>1, <3>1, <1>1
        <5> QED
          BY <5>1, <5>2
      <4> QED
        BY <4>1, <4>2, <1>1
    <3>3. Len(p1[b]) = up1[u].sent
      BY <2>1, <1>1, <1>3
    <3> QED
      BY <2>1, <3>2, <3>3, <1>1
  <2>2. CASE v # u
    <3>1. up1[v].blob # b
      BY <2>2
    <3> QED
      BY <2>2, <3>1, <1>3 DEF Describes, OwnedBy
  <2> QED
    BY <2>1, <2>2
<1>6. BegunBy(idx, up1)
  BY DEF Describes, BegunBy
<1>7. \A x \in Blobs : reserved(f, p1, idx, x) <= reserved(f, p, idx, x)
  <2> SUFFICES ASSUME NEW x \in Blobs
               PROVE  reserved(f, p1, idx, x) <= reserved(f, p, idx, x)
    OBVIOUS
  <2>1. CASE x = b
    <3>1. /\ Len(p[b]) <= Chunks /\ (f[b] # <<>> => Len(f[b]) = Chunks)
          /\ Len(p1[b]) <= Chunks
      BY <1>2 DEF FilesWhole
    <3>2. idx[b].lease # 0
      OBVIOUS
    <3>3. reserved(f, p, idx, b) = Chunks /\ reserved(f, p1, idx, b) = Chunks
      BY <3>1, <3>2, <1>2, ReservedCases, Zenon
    <3> QED
      BY <2>1, <3>3, <1>1
  <2>2. CASE x # b
    <3>1. reserved(f, p1, idx, x) = reserved(f, p, idx, x)
      BY <2>2, <1>3 DEF reserved, Have
    <3>2. reserved(f, p, idx, x) \in Nat
      BY ReservedAmounts, Zenon
    <3> QED
      BY <3>1, <3>2
  <2> QED
    BY <2>1, <2>2
<1>8. used(f, p1, idx) <= Quota
  BY <1>2, <1>7, RoomShrinks, Zenon DEF Describes
<1>9. Describes(p1, f, idx, up1)
  BY <1>5, <1>6, <1>8 DEF Describes
<1> QED
  BY <1>9 DEF p1

(* The part of the upload with the lease becomes the file. *)
LEMMA Sealed ==
    ASSUME NEW p \in FileMaps, NEW f \in FileMaps, NEW idx \in Indexes, NEW up \in Uploadings,
           NEW u \in Uploads, NEW b \in Blobs,
           FilesWhole(p, f), Describes(p, f, idx, up), idx[b].lease = u, 0 \notin Uploads
    PROVE  LET p1 == [p EXCEPT ![b] = <<>>]
               f1 == [f EXCEPT ![b] = Whole(u)]
           IN /\ p1 \in FileMaps /\ f1 \in FileMaps
              /\ FilesWhole(p1, f1)
              /\ Describes(p1, f1, idx, up)
<1> DEFINE p1 == [p EXCEPT ![b] = <<>>]
           f1 == [f EXCEPT ![b] = Whole(u)]
<1>1. /\ Whole(u) \in Seq(Uploads) /\ <<>> \in Seq(Uploads) /\ Len(<<>>) = 0 /\ DOMAIN <<>> = {}
      /\ Chunks \in Nat \ {0}
  BY CacheAssumption DEF Whole
<1>2. Len(Whole(u)) = Chunks
  BY <1>1 DEF Whole
<1>3. p1 \in FileMaps /\ f1 \in FileMaps
  <2> HIDE DEF Whole
  <2> QED
    BY <1>1 DEF FileMaps, Seqs
<1>4. \A x \in Blobs : p1[x] = (IF x = b THEN <<>> ELSE p[x]) /\ f1[x] = IF x = b THEN Whole(u) ELSE f[x]
  BY DEF FileMaps
<1> HIDE DEF p1, f1
<1>5. FilesWhole(p1, f1)
  BY <1>1, <1>2, <1>4 DEF FilesWhole
<1>6. idx[b].digest = u
  BY DEF Describes, LeaseOfEntry
<1>7. WholeBy(f1, idx)
  BY <1>4, <1>6 DEF Describes, WholeBy
<1>8. OwnedBy(p1, idx, up)
  <2> SUFFICES ASSUME NEW v \in Uploads, up[v].stage = "sending", up[v].blob \in Blobs,
                      idx[up[v].blob].lease = v, idx[up[v].blob].live
               PROVE  /\ Len(p1[up[v].blob]) <= up[v].sent
                      /\ \A k \in DOMAIN p1[up[v].blob] : p1[up[v].blob][k] = v
    BY DEF OwnedBy, Uploadings
  <2>1. up[v].sent \in Nat
    BY DEF Uploadings, Sendings
  <2>2. CASE up[v].blob = b
    BY <2>1, <2>2, <1>1, <1>4
  <2>3. CASE up[v].blob # b
    BY <2>3, <1>4 DEF Describes, OwnedBy
  <2> QED
    BY <2>2, <2>3
<1>9. \A x \in Blobs : reserved(f1, p1, idx, x) <= reserved(f, p, idx, x)
  <2> SUFFICES ASSUME NEW x \in Blobs
               PROVE  reserved(f1, p1, idx, x) <= reserved(f, p, idx, x)
    OBVIOUS
  <2>1. CASE x = b
    <3>1. /\ Len(p[b]) <= Chunks /\ (f[b] # <<>> => Len(f[b]) = Chunks)
          /\ Len(p1[b]) <= Chunks /\ (f1[b] # <<>> => Len(f1[b]) = Chunks)
      BY <1>5 DEF FilesWhole
    <3>2. idx[b].lease # 0
      OBVIOUS
    <3>3. reserved(f, p, idx, b) = Chunks /\ reserved(f1, p1, idx, b) = Chunks
      BY <3>1, <3>2, <1>3, ReservedCases, Zenon
    <3> QED
      BY <2>1, <3>3, <1>1
  <2>2. CASE x # b
    <3>1. reserved(f1, p1, idx, x) = reserved(f, p, idx, x)
      BY <2>2, <1>4 DEF reserved, Have
    <3>2. reserved(f, p, idx, x) \in Nat
      BY ReservedAmounts, Zenon
    <3> QED
      BY <3>1, <3>2
  <2> QED
    BY <2>1, <2>2
<1>10. used(f1, p1, idx) <= Quota
  BY <1>3, <1>9, RoomShrinks, Zenon DEF Describes
<1>11. Describes(p1, f1, idx, up)
  BY <1>7, <1>8, <1>10 DEF Describes
<1> QED
  BY <1>3, <1>5, <1>11 DEF p1, f1

(* An upload gets the lease of a blob of which nothing is there, with room    *)
(* for all of it.                                                            *)
LEMMA Leased ==
    ASSUME NEW p \in FileMaps, NEW f \in FileMaps, NEW idx \in Indexes, NEW up \in Uploadings,
           NEW u \in Uploads, NEW b \in Blobs, NEW idx1,
           FilesWhole(p, f), Describes(p, f, idx, up), p[b] = <<>>, f[b] = <<>>,
           up[u].stage # "new",
           idx1 = [idx EXCEPT ![b] = [digest |-> u, lease |-> u, live |-> TRUE]],
           used(f, p, idx) - reserved(f, p, idx, b) + Chunks <= Quota, 0 \notin Uploads
    PROVE  idx1 \in Indexes /\ Describes(p, f, idx1, up)
<1> DEFINE a == [x \in Blobs |-> reserved(f, p, idx, x)]
           c == [x \in Blobs |-> reserved(f, p, idx1, x)]
<1>1. idx1 \in Indexes
  BY DEF Indexes, Metas
<1>2. /\ idx1[b] = [digest |-> u, lease |-> u, live |-> TRUE]
      /\ \A x \in Blobs \ {b} : idx1[x] = idx[x]
  BY DEF Indexes
<1>3. LeaseOfEntry(idx1) /\ WholeBy(f, idx1) /\ BegunBy(idx1, up)
  BY <1>2 DEF Describes, LeaseOfEntry, WholeBy, BegunBy
<1>4. OwnedBy(p, idx1, up)
  <2> SUFFICES ASSUME NEW v \in Uploads, up[v].stage = "sending", up[v].blob \in Blobs,
                      idx1[up[v].blob].lease = v, idx1[up[v].blob].live
               PROVE  /\ Len(p[up[v].blob]) <= up[v].sent
                      /\ \A k \in DOMAIN p[up[v].blob] : p[up[v].blob][k] = v
    BY DEF OwnedBy, Uploadings
  <2>1. up[v].sent \in Nat /\ Len(<<>>) = 0 /\ DOMAIN <<>> = {}
    BY DEF Uploadings, Sendings
  <2>2. CASE up[v].blob = b
    BY <2>1, <2>2
  <2>3. CASE up[v].blob # b
    BY <2>3, <1>2 DEF Describes, OwnedBy
  <2> QED
    BY <2>2, <2>3
<1>5. a \in Amounts /\ c \in Amounts
  BY <1>1, ReservedAmounts, Zenon
<1>6. \A x \in Blobs \ {b} : c[x] = a[x]
  BY <1>2 DEF reserved
<1>7. a[b] = reserved(f, p, idx, b) /\ c[b] = Chunks
  <2>1. Len(p[b]) <= Chunks /\ (f[b] # <<>> => Len(f[b]) = Chunks)
    BY DEF FilesWhole
  <2>2. idx1[b].lease # 0
    BY <1>2
  <2>3. reserved(f, p, idx1, b) = Chunks
    BY <2>1, <2>2, <1>1, ReservedCases
  <2> QED
    BY <2>3
<1>8. Total(c) = Total(a) - a[b] + c[b]
  <2> HIDE DEF a, c
  <2> QED
    BY <1>5, <1>6, TotalChanged, Zenon
<1>9. used(f, p, idx1) <= Quota
  BY <1>7, <1>8 DEF used
<1> QED
  BY <1>1, <1>3, <1>4, <1>9 DEF Describes

-----------------------------------------------------------------------------
(* The steps *)

(* The upload ends, and nothing else of it changes. *)
LEMMA UploadEnded ==
    ASSUME upload \in Uploadings, NEW u \in Uploads, NEW how \in {"failed", "done"}, UploadEnds(u, how)
    PROVE  /\ upload' \in Uploadings /\ upload'[u].stage = how /\ upload'[u].blob = upload[u].blob
           /\ \A v \in Uploads \ {u} : upload'[v] = upload[v]
BY DEF Uploadings, Sendings, UploadEnds

(* What is new after a step that moves one upload was new before. *)
Moves(u, up, up1) ==
    /\ up1 \in Uploadings
    /\ \A v \in Uploads \ {u} : up1[v] = up[v]
    /\ up1[u].stage # "new"

(* Only an upload ends. *)
LEMMA EndKeeps ==
    ASSUME CacheInv, NEW u \in Uploads, NEW how \in {"failed", "done"}, UploadEnds(u, how),
           UNCHANGED <<part, final, index, saved, recovery, cacheDown>>
    PROVE  CacheInv'
<1>1. upload \in Uploadings
  BY DEF CacheInv, CacheTypes
<1>2. Moves(u, upload, upload') /\ upload'[u].stage # "sending"
  <2>1. /\ upload' \in Uploadings /\ upload'[u].stage = how
        /\ \A v \in Uploads \ {u} : upload'[v] = upload[v]
    BY <1>1, UploadEnded, Zenon
  <2> QED
    BY <2>1 DEF Moves
<1>3. Describes(part, final, index, upload') /\ Describes(part, final, saved, upload')
  <2>1. /\ part \in FileMaps /\ final \in FileMaps /\ index \in Indexes /\ saved \in Indexes
        /\ Describes(part, final, index, upload) /\ Describes(part, final, saved, upload)
    BY DEF CacheInv, CacheTypes
  <2> QED
    BY <1>1, <1>2, <2>1, UploadMoved, Zenon DEF Moves
<1>4. CacheTypes'
  BY <1>2 DEF CacheInv, CacheTypes, Moves
<1>5. \A v \in Uploads, b \in Blobs : upload'[v].stage = "new" => recovery'[b] # v
  BY <1>2 DEF CacheInv, Moves
<1> QED
  BY <1>3, <1>4, <1>5 DEF CacheInv

LEMMA LowerSelf ==
    ASSUME NEW idx \in Indexes
    PROVE  Lower(idx, idx)
BY DEF Lower

LEMMA ReconciledLower ==
    ASSUME NEW idx \in Indexes, LeaseOfEntry(idx)
    PROVE  /\ Reconciled(idx) \in Indexes /\ Lower(Reconciled(idx), idx)
           /\ \A b \in Blobs : Reconciled(idx)[b].lease # 0 => final[b] = <<>> /\ idx[b].lease # 0
           /\ \A b \in Blobs : Reconciled(idx)[b].lease = 0 =>
                 idx[b].lease = 0 \/ final[b] # <<>> \/ b \in Lapsed(idx)
<1>1. \A b \in Blobs :
         /\ Reconciled(idx)[b] \in Metas
         /\ \/ b \in Lapsed(idx) /\ Reconciled(idx)[b] = NoBlob
            \/ /\ final[b] # <<>> /\ Reconciled(idx)[b].digest = idx[b].digest
               /\ Reconciled(idx)[b].lease = 0 /\ ~Reconciled(idx)[b].live
            \/ final[b] = <<>> /\ Reconciled(idx)[b] = idx[b]
  <2> TAKE b \in Blobs
  <2>1. idx[b] \in Metas
    BY DEF Indexes
  <2>2. CASE b \in Lapsed(idx)
    <3>1. Reconciled(idx)[b] = NoBlob
      BY <2>2 DEF Reconciled
    <3> QED
      BY <2>2, <3>1 DEF NoBlob, Metas
  <2>3. CASE b \notin Lapsed(idx) /\ final[b] # <<>>
    <3>1. Reconciled(idx)[b] = Unleased(idx[b].digest)
      BY <2>3 DEF Reconciled, Complete
    <3> QED
      BY <2>1, <2>3, <3>1 DEF Unleased, Metas
  <2>4. CASE b \notin Lapsed(idx) /\ final[b] = <<>>
    <3>1. Reconciled(idx)[b] = idx[b]
      BY <2>4 DEF Reconciled, Complete
    <3> QED
      BY <2>1, <2>4, <3>1
  <2> QED
    BY <2>2, <2>3, <2>4
<1>2. DOMAIN Reconciled(idx) = Blobs /\ Reconciled(idx) = [b \in Blobs |-> Reconciled(idx)[b]]
  BY DEF Reconciled
<1>3. \A b \in Blobs : Reconciled(idx)[b] \in Metas
  BY <1>1
<1>4. Reconciled(idx) \in Indexes
  <2> DEFINE r == Reconciled(idx)
  <2>1. r = [b \in Blobs |-> r[b]] /\ \A b \in Blobs : r[b] \in Metas
    BY <1>2, <1>3
  <2> HIDE DEF r
  <2>2. r \in Indexes
    BY <2>1 DEF Indexes
  <2> QED
    BY <2>2 DEF r
<1>0. NoBlob.lease = 0
  BY DEF NoBlob
<1>5. Lower(Reconciled(idx), idx)
  BY <1>1 DEF Lower
<1>6. \A b \in Blobs : Reconciled(idx)[b].lease # 0 => final[b] = <<>> /\ idx[b].lease # 0
  BY <1>0, <1>1
<1>7. \A b \in Blobs : Reconciled(idx)[b].lease = 0 =>
                 idx[b].lease = 0 \/ final[b] # <<>> \/ b \in Lapsed(idx)
  BY <1>0, <1>1
<1> QED
  BY <1>4, <1>5, <1>6, <1>7

(* Files and parts that go. *)
LEMMA WithoutLess ==
    ASSUME NEW f \in FileMaps, NEW gone
    PROVE  Without(f, gone) \in FileMaps /\ \A b \in Blobs : Without(f, gone)[b] = IF b \in gone THEN <<>> ELSE f[b]
<1>1. <<>> \in Seqs
  BY DEF Seqs
<1> QED
  BY <1>1 DEF Without, FileMaps

LEMMA BareLower ==
    ASSUME NEW idx \in Indexes, NEW gone
    PROVE  /\ Bare(idx, gone) \in Indexes /\ Lower(Bare(idx, gone), idx)
           /\ \A b \in Blobs : Bare(idx, gone)[b] = IF b \in gone THEN NoBlob ELSE idx[b]
<1>1. NoBlob \in Metas
  BY DEF NoBlob, Metas
<1> QED
  BY <1>1 DEF Bare, Indexes, Lower

LEMMA ForgottenTyped ==
    ASSUME NEW rec \in [Blobs -> Uploads \cup {0}], NEW gone
    PROVE  /\ Forgotten(rec, gone) \in [Blobs -> Uploads \cup {0}]
           /\ \A b \in Blobs : Forgotten(rec, gone)[b] \in {rec[b], 0}
BY DEF Forgotten

LEMMA SweepKeeps ==
    ASSUME CacheInv, sweepBlobs
    PROVE  CacheInv'
<1>1. /\ part \in FileMaps /\ final \in FileMaps /\ index \in Indexes /\ upload \in Uploadings
      /\ FilesWhole(part, final) /\ PartLeased(part, final, index)
      /\ Describes(part, final, index, upload) /\ LeaseOfEntry(index)
      /\ recovery \in [Blobs -> Uploads \cup {0}] /\ 0 \notin Uploads
  BY CacheAssumption DEF CacheInv, CacheTypes, Describes
<1>2. /\ part' = Without(part, Lapsed(index)) /\ index' = Reconciled(index) /\ saved' = index'
      /\ recovery' = Forgotten(recovery, Lapsed(index))
      /\ UNCHANGED <<final, upload, restarts, cacheDown>>
  BY DEF sweepBlobs
<1>3. part' \in FileMaps /\ Lesser(part', final, part, final)
  BY <1>1, <1>2, WithoutLess DEF Lesser
<1>4. index' \in Indexes /\ Lower(index', index)
  BY <1>1, <1>2, ReconciledLower, Zenon
<1>5. FilesWhole(part', final)
  BY <1>1, <1>3, LesserWhole, Zenon
<1>6. Describes(part', final, index', upload)
  BY <1>1, <1>3, <1>4, LessDescribed, Zenon
<1>7. PartLeased(part', final, index')
  <2> SUFFICES ASSUME NEW b \in Blobs
               PROVE  IF index'[b].lease = 0 THEN part'[b] = <<>> ELSE final[b] = <<>>
    BY DEF PartLeased
  <2>1. part'[b] = IF b \in Lapsed(index) THEN <<>> ELSE part[b]
    BY <1>1, <1>2, WithoutLess
  <2>2. index'[b].lease # 0 => final[b] = <<>>
    BY <1>1, <1>2, ReconciledLower
  <2>3. index'[b].lease = 0 => index[b].lease = 0 \/ final[b] # <<>> \/ b \in Lapsed(index)
    BY <1>1, <1>2, ReconciledLower
  <2>4. (index[b].lease = 0 => part[b] = <<>>) /\ (final[b] # <<>> => part[b] = <<>>)
    BY <1>1 DEF PartLeased, FilesWhole
  <2> QED
    BY <2>1, <2>2, <2>3, <2>4
<1>8. /\ recovery' \in [Blobs -> Uploads \cup {0}]
      /\ \A b \in Blobs : recovery'[b] \in {recovery[b], 0}
  BY <1>1, <1>2, ForgottenTyped, Zenon
<1>9. \A u \in Uploads, b \in Blobs : upload[u].stage = "new" => recovery'[b] # u
  BY <1>1, <1>8 DEF CacheInv
<1>10. SavedBehind(index', saved')
  BY <1>2 DEF SavedBehind
<1>11. CacheTypes'
  BY <1>1, <1>2, <1>3, <1>4, <1>8 DEF CacheInv, CacheTypes
<1> QED
  BY <1>2, <1>5, <1>6, <1>7, <1>9, <1>10, <1>11 DEF CacheInv

LEMMA ExpiryKeeps ==
    ASSUME CacheInv, NEW b \in Blobs, LeaseExpires(b)
    PROVE  CacheInv'
<1>1. /\ part \in FileMaps /\ final \in FileMaps /\ index \in Indexes /\ saved \in Indexes
      /\ upload \in Uploadings
      /\ FilesWhole(part, final) /\ PartLeased(part, final, index)
      /\ Describes(part, final, index, upload) /\ Describes(part, final, saved, upload)
      /\ 0 \notin Uploads
  BY CacheAssumption DEF CacheInv, CacheTypes
<1>2. /\ index' = [index EXCEPT ![b].live = FALSE] /\ saved' = [saved EXCEPT ![b].live = FALSE]
      /\ UNCHANGED <<part, final, recovery, upload, restarts, cacheDown>> /\ saved[b].live
  BY DEF LeaseExpires, files
<1>3. /\ index' \in Indexes /\ Lower(index', index)
      /\ saved' \in Indexes /\ Lower(saved', saved)
      /\ \A x \in Blobs : index'[x].lease = index[x].lease
  BY <1>1, <1>2 DEF Indexes, Metas, Lower
<1>4. Lesser(part, final, part, final)
  BY DEF Lesser
<1>5. Describes(part, final, index', upload) /\ Describes(part, final, saved', upload)
  BY <1>1, <1>3, <1>4, LessDescribed, Zenon
<1>6. PartLeased(part, final, index')
  BY <1>1, <1>3 DEF PartLeased
<1>7. SavedBehind(index, saved) => SavedBehind(index', saved')
  <2> SUFFICES ASSUME SavedBehind(index, saved), NEW x \in Blobs, saved'[x] # index'[x]
               PROVE  index'[x] = NoBlob /\ saved'[x].lease = 0
    BY DEF SavedBehind
  <2>1. saved[b].lease # 0
    BY <1>1, <1>2 DEF Describes, LeaseOfEntry
  <2>2. saved[b] = index[b]
    BY <2>1 DEF SavedBehind
  <2>3. x # b
    BY <1>1, <1>2, <2>2 DEF Indexes
  <2>4. saved'[x] = saved[x] /\ index'[x] = index[x]
    BY <1>1, <1>2, <2>3 DEF Indexes
  <2> QED
    BY <2>4 DEF SavedBehind
<1>8. CacheTypes'
  BY <1>2, <1>3 DEF CacheInv, CacheTypes
<1> QED
  BY <1>2, <1>5, <1>6, <1>7, <1>8 DEF CacheInv

(* What is there of a blob an upload begins, once what was there of another   *)
(* ciphertext is gone: nothing.                                              *)
LEMMA BeginFiles ==
    ASSUME CacheInv, NEW u \in Uploads, NEW b \in Blobs, upload[u].stage = "new",
           NEW gone \in SUBSET Evictable(Without(final, discarded(u, b)), index),
           NEW p, NEW f, p = Without(part, discarded(u, b)),
           f = Without(Without(final, discarded(u, b)), gone)
    PROVE  LET f0 == Without(final, discarded(u, b)) IN
           /\ p \in FileMaps /\ f0 \in FileMaps /\ f \in FileMaps
           /\ Lesser(p, f, part, final)
           /\ b \notin gone
           /\ p[b] = <<>> /\ f[b] = <<>> /\ f0[b] = <<>>
           /\ \A x \in gone : x \in Blobs /\ final[x] # <<>> /\ index[x].lease = 0 /\ f[x] = <<>>
<1> DEFINE f0 == Without(final, discarded(u, b))
<1>1. /\ part \in FileMaps /\ final \in FileMaps /\ index \in Indexes
      /\ FilesWhole(part, final) /\ PartLeased(part, final, index)
      /\ LeaseOfEntry(index) /\ BegunBy(index, upload)
  BY DEF CacheInv, CacheTypes, Describes
<1>2. p \in FileMaps /\ f0 \in FileMaps
  BY <1>1, WithoutLess, Zenon
<1>3. f \in FileMaps
  BY <1>2, WithoutLess
<1>4. \A x \in Blobs : /\ p[x] = (IF x \in discarded(u, b) THEN <<>> ELSE part[x])
                       /\ f0[x] = (IF x \in discarded(u, b) THEN <<>> ELSE final[x])
                       /\ f[x] = (IF x \in gone THEN <<>> ELSE f0[x])
  BY <1>1, <1>2, WithoutLess
<1>5. f0[b] = <<>>
  BY <1>4 DEF discarded, Complete
<1>6. \A x \in gone : x \in Blobs /\ f0[x] # <<>> /\ index[x].lease = 0
  BY DEF Evictable
<1>7. b \notin gone
  BY <1>5, <1>6
<1>8. p[b] = <<>>
  <2>1. CASE b \in discarded(u, b)
    BY <2>1, <1>4
  <2>2. CASE b \notin discarded(u, b)
    <3>1. index[b].digest \in {0, u}
      BY <2>2 DEF discarded
    <3>2. index[b].digest # u
      BY <1>1 DEF BegunBy
    <3>3. index[b].lease = 0
      BY <1>1, <3>1, <3>2 DEF LeaseOfEntry
    <3>4. part[b] = <<>>
      BY <1>1, <3>3 DEF PartLeased
    <3> QED
      BY <2>2, <3>4, <1>4
  <2> QED
    BY <2>1, <2>2
<1>9. Lesser(p, f, part, final)
  BY <1>4 DEF Lesser
<1>10. \A x \in gone : final[x] # <<>> /\ f[x] = <<>>
  BY <1>4, <1>6
<1> QED
  BY <1>2, <1>3, <1>5, <1>6, <1>7, <1>8, <1>9, <1>10, <1>4

(* The indexes are right about what a begin leaves of the files.             *)
LEMMA BeginDescribed ==
    ASSUME CacheInv, NEW u \in Uploads, NEW b \in Blobs, upload[u].stage = "new",
           NEW gone \in SUBSET Evictable(Without(final, discarded(u, b)), index),
           NEW p, NEW f, NEW idx, p = Without(part, discarded(u, b)),
           f = Without(Without(final, discarded(u, b)), gone), idx = Bare(index, gone)
    PROVE  /\ p \in FileMaps /\ f \in FileMaps /\ idx \in Indexes
           /\ FilesWhole(p, f) /\ PartLeased(p, f, idx)
           /\ Describes(p, f, idx, upload) /\ Describes(p, f, saved, upload)
           /\ p[b] = <<>> /\ f[b] = <<>>
           /\ reserved(Without(final, discarded(u, b)), p, index, b) = reserved(f, p, idx, b)
           /\ cacheDown \/ SavedBehind(idx, saved)
<1>1. /\ part \in FileMaps /\ final \in FileMaps /\ index \in Indexes /\ saved \in Indexes
      /\ upload \in Uploadings /\ FilesWhole(part, final) /\ PartLeased(part, final, index)
      /\ Describes(part, final, index, upload) /\ Describes(part, final, saved, upload)
      /\ cacheDown \/ SavedBehind(index, saved)
      /\ 0 \notin Uploads
  BY CacheAssumption DEF CacheInv, CacheTypes
<1> DEFINE f0 == Without(final, discarded(u, b))
<1>2. /\ p \in FileMaps /\ f0 \in FileMaps /\ f \in FileMaps
      /\ Lesser(p, f, part, final)
      /\ b \notin gone
      /\ p[b] = <<>> /\ f[b] = <<>> /\ f0[b] = <<>>
      /\ \A x \in gone : x \in Blobs /\ final[x] # <<>> /\ index[x].lease = 0 /\ f[x] = <<>>
  BY BeginFiles
<1>3. /\ idx \in Indexes /\ Lower(idx, index)
      /\ \A x \in Blobs : idx[x] = IF x \in gone THEN NoBlob ELSE index[x]
  BY <1>1, BareLower
<1>4. FilesWhole(p, f)
  BY <1>1, <1>2, LesserWhole, Zenon
<1>5. Describes(p, f, idx, upload)
  BY <1>1, <1>2, <1>3, LessDescribed, Zenon
<1>6. Describes(p, f, saved, upload)
  BY <1>1, <1>2, LowerSelf, LessDescribed, Zenon
<1>7. PartLeased(p, f, idx)
  <2> SUFFICES ASSUME NEW x \in Blobs
               PROVE  IF idx[x].lease = 0 THEN p[x] = <<>> ELSE f[x] = <<>>
    BY DEF PartLeased
  <2>1. p[x] \in {part[x], <<>>} /\ f[x] \in {final[x], <<>>}
    BY <1>2 DEF Lesser
  <2>2. CASE x \in gone
    <3>1. part[x] = <<>> /\ f[x] = <<>>
      BY <2>2, <1>1, <1>2 DEF FilesWhole
    <3> QED
      BY <2>1, <3>1
  <2>3. CASE x \notin gone
    <3>1. idx[x] = index[x]
      BY <2>3, <1>3
    <3>2. IF index[x].lease = 0 THEN part[x] = <<>> ELSE final[x] = <<>>
      BY <1>1 DEF PartLeased
    <3> QED
      BY <2>1, <3>1, <3>2
  <2> QED
    BY <2>2, <2>3
<1>8. reserved(f0, p, index, b) = reserved(f, p, idx, b)
  BY <1>2, <1>3 DEF reserved, Have
<1>9. SavedBehind(index, saved) => SavedBehind(idx, saved)
  <2> SUFFICES ASSUME SavedBehind(index, saved), NEW x \in Blobs, saved[x] # idx[x]
               PROVE  idx[x] = NoBlob /\ saved[x].lease = 0
    BY DEF SavedBehind
  <2>1. CASE x \in gone
    <3>1. idx[x] = NoBlob /\ index[x].lease = 0
      BY <2>1, <1>2, <1>3
    <3>2. saved[x].lease = 0
      BY <3>1 DEF SavedBehind
    <3> QED
      BY <3>1, <3>2
  <2>2. CASE x \notin gone
    BY <2>2, <1>3 DEF SavedBehind
  <2> QED
    BY <2>1, <2>2
<1> QED
  BY <1>1, <1>2, <1>3, <1>4, <1>5, <1>6, <1>7, <1>8, <1>9

(* A begin that goes on has moved its upload, whether the index was written   *)
(* or the Router stopped before.                                             *)
LEMMA BeginPersisted ==
    ASSUME CacheInv, NEW u \in Uploads, NEW b \in Blobs,
           Persist(u, [stage |-> "sending", blob |-> b, sent |-> 0])
    PROVE  /\ Moves(u, upload, upload')
           /\ upload'[u].stage = "sending" => upload'[u].blob = b
           /\ saved' \in {saved, index'}
           /\ cacheDown' \in BOOLEAN
           /\ cacheDown' \/ saved' = index'
<1>1. upload \in Uploadings /\ cacheDown \in BOOLEAN
  BY DEF CacheInv, CacheTypes
<1>2. CASE saved' = index' /\ upload' = [upload EXCEPT ![u] = [stage |-> "sending", blob |-> b, sent |-> 0]]
           /\ UNCHANGED cacheDown
  <2>1. upload' \in [Uploads -> Sendings]
    BY <1>1, <1>2 DEF Uploadings, Sendings
  <2>2. /\ upload'[u] = [stage |-> "sending", blob |-> b, sent |-> 0]
        /\ \A v \in Uploads \ {u} : upload'[v] = upload[v]
    BY <1>1, <1>2 DEF Uploadings
  <2>3. upload' \in Uploadings
    BY <1>1, <2>1, <2>2, CacheAssumption DEF Uploadings
  <2> QED
    BY <1>1, <1>2, <2>2, <2>3 DEF Moves
<1>3. CASE cacheDown' = TRUE /\ UploadEnds(u, "failed") /\ UNCHANGED saved
  <2>1. /\ upload' \in Uploadings /\ upload'[u].stage = "failed"
        /\ \A v \in Uploads \ {u} : upload'[v] = upload[v]
    <3>1. "failed" \in {"failed", "done"}
      OBVIOUS
    <3> QED
      BY <1>1, <1>3, <3>1, UploadEnded, Zenon
  <2> QED
    BY <1>3, <2>1 DEF Moves
<1> QED
  BY <1>2, <1>3 DEF Persist

(* A begin that finds the blob, makes room and leases it, or finds no room.   *)
LEMMA BeginKeeps ==
    ASSUME CacheInv, NEW u \in Uploads, NEW b \in Blobs, begin(u, b)
    PROVE  CacheInv'
<1> DEFINE p == Without(part, discarded(u, b))
           f0 == Without(final, discarded(u, b))
           own == reserved(f0, p, index, b)
           need == used(f0, p, index) - own + Chunks
<1>1. CASE UploadEnds(u, "done") /\ UNCHANGED <<files, index, saved, recovery, cacheDown>>
  <2>1. UNCHANGED <<part, final, index, saved, recovery, cacheDown>>
    BY <1>1 DEF files
  <2>2. "done" \in {"failed", "done"}
    OBVIOUS
  <2> QED
    BY <1>1, <2>1, <2>2, EndKeeps, Zenon
<1>2. ASSUME NEW gone \in evict(f0, index, IF need > Quota THEN need - Quota ELSE 0),
             part' = p, final' = Without(f0, gone),
             IF used(final', p, Bare(index, gone)) - own + Chunks > Quota
             THEN /\ index' = Bare(index, gone) /\ recovery' = Forgotten(recovery, gone)
                  /\ UploadEnds(u, "failed")
                  /\ UNCHANGED <<saved, cacheDown>>
             ELSE /\ index' = [Bare(index, gone) EXCEPT ![b] = [digest |-> u, lease |-> u, live |-> TRUE]]
                  /\ recovery' = [Forgotten(recovery, gone) EXCEPT ![b] = u]
                  /\ Persist(u, [stage |-> "sending", blob |-> b, sent |-> 0])
      PROVE  CacheInv'
  <2> DEFINE idx == Bare(index, gone)
             f == Without(f0, gone)
  <2>1. gone \in SUBSET Evictable(f0, index) /\ upload[u].stage = "new"
    BY <1>2 DEF begin, evict
  <2>2. /\ p \in FileMaps /\ f \in FileMaps /\ idx \in Indexes
        /\ FilesWhole(p, f) /\ PartLeased(p, f, idx)
        /\ Describes(p, f, idx, upload) /\ Describes(p, f, saved, upload)
        /\ p[b] = <<>> /\ f[b] = <<>>
        /\ own = reserved(f, p, idx, b)
        /\ cacheDown \/ SavedBehind(idx, saved)
    BY <2>1, BeginDescribed
  <2>3. /\ saved \in Indexes /\ upload \in Uploadings /\ cacheDown \in BOOLEAN
        /\ recovery \in [Blobs -> Uploads \cup {0}] /\ 0 \notin Uploads
        /\ \A v \in Uploads, x \in Blobs : upload[v].stage = "new" => recovery[x] # v
        /\ part' = p /\ final' = f
    BY <1>2, CacheAssumption DEF CacheInv, CacheTypes
  <2>4. /\ Forgotten(recovery, gone) \in [Blobs -> Uploads \cup {0}]
        /\ \A x \in Blobs : Forgotten(recovery, gone)[x] \in {recovery[x], 0}
    BY <2>3, ForgottenTyped, Zenon
  <2> HIDE DEF p, f, f0, idx, own
  <2>5. CASE used(final', p, idx) - own + Chunks > Quota
    <3>1. /\ index' = idx /\ recovery' = Forgotten(recovery, gone)
          /\ UploadEnds(u, "failed") /\ saved' = saved /\ cacheDown' = cacheDown
      BY <1>2, <2>5 DEF idx
    <3>2. "failed" \in {"failed", "done"}
      OBVIOUS
    <3>3. /\ upload' \in Uploadings /\ upload'[u].stage = "failed"
          /\ \A v \in Uploads \ {u} : upload'[v] = upload[v]
      BY <2>3, <3>1, <3>2, UploadEnded, Zenon
    <3>4. Moves(u, upload, upload') /\ upload'[u].stage # "sending"
      BY <3>3 DEF Moves
    <3>5. Describes(p, f, idx, upload') /\ Describes(p, f, saved, upload')
      BY <2>2, <2>3, <3>4, UploadMoved, Zenon DEF Moves
    <3>6. CacheTypes'
      BY <2>2, <2>3, <2>4, <3>1, <3>4 DEF CacheTypes, Moves
    <3>7. \A v \in Uploads, x \in Blobs : upload'[v].stage = "new" => recovery'[x] # v
      BY <2>3, <2>4, <3>1, <3>4 DEF Moves
    <3> QED
      BY <2>2, <2>3, <3>1, <3>5, <3>6, <3>7 DEF CacheInv
  <2>6. CASE ~(used(final', p, idx) - own + Chunks > Quota)
    <3>1. /\ index' = [idx EXCEPT ![b] = [digest |-> u, lease |-> u, live |-> TRUE]]
          /\ recovery' = [Forgotten(recovery, gone) EXCEPT ![b] = u]
          /\ Persist(u, [stage |-> "sending", blob |-> b, sent |-> 0])
      BY <1>2, <2>6 DEF idx
    <3>2. /\ Moves(u, upload, upload')
          /\ upload'[u].stage = "sending" => upload'[u].blob = b
          /\ saved' \in {saved, index'}
          /\ cacheDown' \in BOOLEAN
          /\ cacheDown' \/ saved' = index'
      BY <3>1, BeginPersisted
    <3>3. upload'[u].stage = "sending" => p[upload'[u].blob] = <<>>
      BY <2>2, <3>2
    <3>4. Describes(p, f, idx, upload') /\ Describes(p, f, saved, upload')
      BY <2>2, <2>3, <3>2, <3>3, UploadMoved, Zenon DEF Moves
    <3>5. used(f, p, idx) - reserved(f, p, idx, b) + Chunks <= Quota
      <4>1. used(f, p, idx) \in Nat
        <5>1. [x \in Blobs |-> reserved(f, p, idx, x)] \in Amounts
          BY <2>2, ReservedAmounts, Zenon
        <5>2. \A x \in Blobs : reserved(f, p, idx, x) \in Nat
          BY <2>2, ReservedAmounts, Zenon
        <5>3. Total([x \in Blobs |-> reserved(f, p, idx, x)]) \in Nat
          BY <5>1, <5>2, SlotsFinite DEF Total, Slots
        <5> QED
          BY <5>3 DEF used
      <4>2. reserved(f, p, idx, b) \in Nat
        BY <2>2, ReservedAmounts, Zenon
      <4>3. Chunks \in Nat /\ Quota \in Nat
        BY CacheAssumption
      <4> QED
        BY <4>1, <4>2, <4>3, <2>2, <2>3, <2>6
    <3>6. index' \in Indexes /\ Describes(p, f, index', upload')
      <4>1. upload'[u].stage # "new" /\ upload' \in Uploadings
        BY <3>2 DEF Moves
      <4>2. /\ p \in FileMaps /\ f \in FileMaps /\ idx \in Indexes
            /\ FilesWhole(p, f) /\ Describes(p, f, idx, upload') /\ p[b] = <<>> /\ f[b] = <<>>
            /\ 0 \notin Uploads
            /\ index' = [idx EXCEPT ![b] = [digest |-> u, lease |-> u, live |-> TRUE]]
        BY <2>2, <2>3, <3>1, <3>4
      <4> QED
        BY <3>5, <4>1, <4>2, Leased
    <3>7. PartLeased(p, f, index')
      <4>1. \A x \in Blobs : x # b => index'[x] = idx[x]
        BY <2>2, <3>1 DEF Indexes
      <4> QED
        BY <2>2, <4>1 DEF PartLeased
    <3>8. Describes(p, f, saved', upload')
      BY <3>2, <3>4, <3>6
    <3>9. /\ recovery' \in [Blobs -> Uploads \cup {0}]
          /\ \A x \in Blobs : recovery'[x] \in {recovery[x], 0, u}
      BY <2>4, <3>1
    <3>10. CacheTypes'
      BY <2>2, <2>3, <3>2, <3>6, <3>9 DEF CacheTypes, Moves
    <3>11. \A v \in Uploads, x \in Blobs : upload'[v].stage = "new" => recovery'[x] # v
      BY <2>3, <3>2, <3>9 DEF Moves
    <3>12. cacheDown' \/ SavedBehind(index', saved')
      BY <3>2 DEF SavedBehind
    <3> QED
      BY <2>2, <2>3, <3>6, <3>7, <3>8, <3>10, <3>11, <3>12 DEF CacheInv
  <2> QED
    BY <2>5, <2>6
<1> QED
  BY <1>1, <1>2 DEF begin

(* A chunk is refused, appended, or completes the blob.                       *)
LEMMA CommitKeeps ==
    ASSUME CacheInv, NEW u \in Uploads, commitChunk(u)
    PROVE  CacheInv'
<1> DEFINE b == upload[u].blob
           p == IF upload[u].sent >= Len(part[b]) THEN Append(part[b], u) ELSE part[b]
<1>1. /\ part \in FileMaps /\ final \in FileMaps /\ index \in Indexes /\ saved \in Indexes
      /\ upload \in Uploadings /\ FilesWhole(part, final) /\ PartLeased(part, final, index)
      /\ Describes(part, final, index, upload) /\ Describes(part, final, saved, upload)
      /\ recovery \in [Blobs -> Uploads \cup {0}] /\ 0 \notin Uploads
      /\ cacheDown \in BOOLEAN
      /\ \A v \in Uploads, x \in Blobs : upload[v].stage = "new" => recovery[x] # v
  BY CacheAssumption DEF CacheInv, CacheTypes
<1>2. /\ upload[u].stage = "sending" /\ ~cacheDown /\ recovery' = recovery
      /\ b \in Blobs /\ upload[u].sent \in Nat /\ upload[u].sent < Chunks
      /\ upload[u] \in Sendings
  BY <1>1 DEF commitChunk, Uploadings, Sendings
<1>3. "failed" \in {"failed", "done"}
  OBVIOUS
<1>4. CASE UploadEnds(u, "failed") /\ UNCHANGED <<files, index, saved, cacheDown>>
  <2>1. UNCHANGED <<part, final, index, saved, recovery, cacheDown>>
    BY <1>2, <1>4 DEF files
  <2> QED
    BY <1>3, <1>4, <2>1, EndKeeps, Zenon
<1>5. ASSUME admitted(u, b), upload[u].sent <= Len(part[b])
      PROVE  /\ index[b].lease = u /\ index[b].live /\ index[b].digest = u /\ saved[b] = index[b]
             /\ final[b] = <<>> /\ Len(part[b]) = upload[u].sent /\ p = Append(part[b], u)
  <2>1. index[b].lease = u /\ index[b].live /\ u # 0
    BY <1>1, <1>5 DEF admitted
  <2>2. index[b].digest = u
    BY <1>1, <1>2, <2>1 DEF Describes, LeaseOfEntry
  <2>3. saved[b] = index[b]
    <3>1. SavedBehind(index, saved)
      BY <1>2 DEF CacheInv
    <3> QED
      BY <1>2, <2>1, <3>1 DEF SavedBehind, NoBlob
  <2>4. final[b] = <<>>
    BY <1>1, <1>2, <2>1 DEF PartLeased
  <2>5. Len(part[b]) <= upload[u].sent
    BY <1>1, <1>2, <2>1 DEF Describes, OwnedBy
  <2>6. Len(part[b]) \in Nat
    BY <1>1, <1>2, LenProperties DEF FileMaps, Seqs
  <2>7. Len(part[b]) = upload[u].sent
    BY <1>2, <1>5, <2>5, <2>6
  <2> QED
    BY <2>1, <2>2, <2>3, <2>4, <2>6, <2>7
<1>6. ASSUME admitted(u, b), upload[u].sent <= Len(part[b]), upload[u].sent + 1 # Chunks,
             part' = [part EXCEPT ![b] = p], UNCHANGED <<final, index>>,
             Persist(u, [upload[u] EXCEPT !.sent = @ + 1])
      PROVE  CacheInv'
  <2>1. /\ index[b].lease = u /\ index[b].live /\ saved[b] = index[b]
        /\ final[b] = <<>> /\ Len(part[b]) = upload[u].sent /\ p = Append(part[b], u)
    BY <1>5, <1>6
  <2>2. /\ Moves(u, upload, upload') /\ upload'[u].blob = b
        /\ upload'[u].stage = "sending" => upload'[u].sent = upload[u].sent + 1
        /\ saved' \in {saved, index} /\ cacheDown' \in BOOLEAN
        /\ cacheDown' \/ saved' = index
    <3>1. CASE saved' = index' /\ upload' = [upload EXCEPT ![u] = [upload[u] EXCEPT !.sent = @ + 1]]
               /\ UNCHANGED cacheDown
      <4>1. /\ [upload[u] EXCEPT !.sent = @ + 1] \in Sendings
            /\ [upload[u] EXCEPT !.sent = @ + 1].stage = "sending"
            /\ [upload[u] EXCEPT !.sent = @ + 1].blob = b
            /\ [upload[u] EXCEPT !.sent = @ + 1].sent = upload[u].sent + 1
        BY <1>2 DEF Sendings
      <4>2. upload[u].sent + 1 < Chunks
        BY <1>2, <1>6, CacheAssumption
      <4>3. upload' \in [Uploads -> Sendings]
        BY <1>1, <3>1, <4>1 DEF Uploadings
      <4>4. /\ upload'[u] = [upload[u] EXCEPT !.sent = @ + 1]
            /\ \A v \in Uploads \ {u} : upload'[v] = upload[v]
        BY <1>1, <3>1 DEF Uploadings
      <4> HIDE DEF b
      <4>5. upload' \in Uploadings
        BY <1>1, <1>2, <4>1, <4>2, <4>3, <4>4 DEF Uploadings
      <4> QED
        BY <1>1, <1>2, <1>6, <3>1, <4>1, <4>4, <4>5 DEF Moves
    <3>2. CASE cacheDown' = TRUE /\ UploadEnds(u, "failed") /\ UNCHANGED saved
      <4>1. /\ upload' \in Uploadings /\ upload'[u].stage = "failed" /\ upload'[u].blob = b
            /\ \A v \in Uploads \ {u} : upload'[v] = upload[v]
        BY <1>1, <1>3, <3>2, UploadEnded, Zenon
      <4> QED
        BY <3>2, <4>1 DEF Moves
    <3> QED
      BY <1>6, <3>1, <3>2 DEF Persist
  <2>3. upload[u].sent + 1 < Chunks
    BY <1>2, <1>6, CacheAssumption
  <2>4. part' = [part EXCEPT ![b] = Append(part[b], u)]
    BY <1>6, <2>1
  <2> HIDE DEF b, p
  <2>5. /\ upload' \in Uploadings /\ \A v \in Uploads \ {u} : upload'[v] = upload[v]
        /\ upload'[u].stage # "new" /\ upload[u].blob = b
    BY <2>2 DEF Moves, b
  <2>6. /\ part' \in FileMaps /\ FilesWhole(part', final) /\ Describes(part', final, index, upload')
    <3>1. /\ part \in FileMaps /\ final \in FileMaps /\ index \in Indexes /\ upload \in Uploadings
          /\ FilesWhole(part, final) /\ Describes(part, final, index, upload)
          /\ upload[u].stage = "sending" /\ 0 \notin Uploads /\ b \in Blobs
      BY <1>1, <1>2 DEF b
    <3>2. /\ [part EXCEPT ![b] = Append(part[b], u)] \in FileMaps
          /\ FilesWhole([part EXCEPT ![b] = Append(part[b], u)], final)
      <4>1. Len(part[b]) + 1 < Chunks
        BY <2>1, <2>3
      <4> QED
        BY <2>1, <3>1, <4>1, AppendedFiles, Zenon
    <3>4. Describes([part EXCEPT ![b] = Append(part[b], u)], final, index, upload')
      BY <2>1, <2>2, <2>3, <2>5, <3>1, Appended, Zenon
    <3> QED
      BY <2>4, <3>2, <3>4
  <2>7. Describes(part', final, saved, upload')
    <3>1. saved[b].lease = u /\ saved[b].live
      BY <2>1
    <3>2. /\ part \in FileMaps /\ final \in FileMaps /\ saved \in Indexes /\ upload \in Uploadings
          /\ FilesWhole(part, final) /\ Describes(part, final, saved, upload)
          /\ upload[u].stage = "sending" /\ 0 \notin Uploads /\ b \in Blobs
      BY <1>1, <1>2 DEF b
    <3>3. Describes([part EXCEPT ![b] = Append(part[b], u)], final, saved, upload')
      BY <2>1, <2>2, <2>3, <2>5, <3>1, <3>2, Appended, Zenon
    <3> QED
      BY <2>4, <3>3
  <2>8. Describes(part', final, saved', upload')
    BY <2>2, <2>6, <2>7
  <2>9. PartLeased(part', final, index)
    <3>1. \A x \in Blobs : x # b => part'[x] = part[x]
      BY <1>1, <2>4 DEF FileMaps
    <3>2. u # 0
      BY <1>1
    <3> QED
      BY <1>1, <2>1, <3>1, <3>2 DEF PartLeased
  <2>10. CacheTypes'
    BY <1>1, <1>2, <1>6, <2>2, <2>5, <2>6 DEF CacheTypes
  <2>11. cacheDown' \/ SavedBehind(index', saved')
    BY <1>6, <2>2 DEF SavedBehind
  <2>12. \A v \in Uploads, x \in Blobs : upload'[v].stage = "new" => recovery'[x] # v
    BY <1>1, <1>2, <2>2 DEF Moves
  <2> QED
    BY <1>6, <2>6, <2>8, <2>9, <2>10, <2>11, <2>12 DEF CacheInv
<1>7. ASSUME admitted(u, b), upload[u].sent <= Len(part[b]),
             part' = [part EXCEPT ![b] = <<>>],
             IF p = Whole(index[b].digest)
             THEN /\ final' = [final EXCEPT ![b] = p]
                  /\ index' = [index EXCEPT ![b] = Unleased(@.digest)]
                  /\ Persist(u, [upload[u] EXCEPT !.stage = "done"])
             ELSE UploadEnds(u, "failed") /\ UNCHANGED <<final, index, saved, cacheDown>>
      PROVE  CacheInv'
  <2>1. /\ index[b].lease = u /\ index[b].live /\ index[b].digest = u /\ saved[b] = index[b]
        /\ final[b] = <<>>
    BY <1>5, <1>7
  <2>2. /\ part' \in FileMaps
        /\ \A x \in Blobs : part'[x] = IF x = b THEN <<>> ELSE part[x]
    <3>1. <<>> \in Seqs
      BY DEF Seqs
    <3> QED
      BY <1>1, <1>7, <3>1 DEF FileMaps
  <2>3. CASE p = Whole(index[b].digest)
    <3>1. /\ final' = [final EXCEPT ![b] = Whole(u)]
          /\ index' = [index EXCEPT ![b] = Unleased(u)]
          /\ Persist(u, [upload[u] EXCEPT !.stage = "done"])
      BY <1>7, <2>1, <2>3
    <3>2. /\ Moves(u, upload, upload') /\ upload'[u].stage # "sending"
          /\ saved' \in {saved, index'} /\ cacheDown' \in BOOLEAN
          /\ cacheDown' \/ saved' = index'
      <4>1. CASE saved' = index' /\ upload' = [upload EXCEPT ![u] = [upload[u] EXCEPT !.stage = "done"]]
                 /\ UNCHANGED cacheDown
        <5>1. UploadEnds(u, "done")
          BY <1>1, <4>1 DEF UploadEnds, Uploadings
        <5>2. "done" \in {"failed", "done"}
          OBVIOUS
        <5>3. /\ upload' \in Uploadings /\ upload'[u].stage = "done"
              /\ \A v \in Uploads \ {u} : upload'[v] = upload[v]
          BY <1>1, <5>1, <5>2, UploadEnded, Zenon
        <5> QED
          BY <1>1, <4>1, <5>3 DEF Moves
      <4>2. CASE cacheDown' = TRUE /\ UploadEnds(u, "failed") /\ UNCHANGED saved
        <5>1. /\ upload' \in Uploadings /\ upload'[u].stage = "failed"
              /\ \A v \in Uploads \ {u} : upload'[v] = upload[v]
          BY <1>1, <1>3, <4>2, UploadEnded, Zenon
        <5> QED
          BY <4>2, <5>1 DEF Moves
      <4> QED
        BY <3>1, <4>1, <4>2 DEF Persist
    <3> HIDE DEF b, p
    <3>3. /\ part' \in FileMaps /\ final' \in FileMaps /\ FilesWhole(part', final')
          /\ Describes(part', final', index, upload) /\ Describes(part', final', saved, upload)
      <4>1. part' = [part EXCEPT ![b] = <<>>]
        BY <1>7
      <4>2. saved[b].lease = u
        BY <2>1
      <4>3. /\ [part EXCEPT ![b] = <<>>] \in FileMaps /\ [final EXCEPT ![b] = Whole(u)] \in FileMaps
            /\ FilesWhole([part EXCEPT ![b] = <<>>], [final EXCEPT ![b] = Whole(u)])
            /\ Describes([part EXCEPT ![b] = <<>>], [final EXCEPT ![b] = Whole(u)], index, upload)
        BY <1>1, <1>2, <2>1, Sealed, Zenon
      <4>4. Describes([part EXCEPT ![b] = <<>>], [final EXCEPT ![b] = Whole(u)], saved, upload)
        BY <1>1, <1>2, <4>2, Sealed, Zenon
      <4> QED
        BY <3>1, <4>1, <4>3, <4>4
    <3>4. /\ index' \in Indexes /\ Lower(index', index)
          /\ \A x \in Blobs : index'[x].lease = IF x = b THEN 0 ELSE index[x].lease
      <4>1. /\ Unleased(u) \in Metas /\ Unleased(u).digest = u /\ Unleased(u).lease = 0
            /\ ~Unleased(u).live
        BY DEF Unleased, Metas
      <4> QED
        BY <1>1, <2>1, <3>1, <4>1 DEF Indexes, Lower
    <3>5. Describes(part', final', index, upload') /\ Describes(part', final', saved, upload')
      <4>1. /\ upload' \in Uploadings /\ \A v \in Uploads \ {u} : upload'[v] = upload[v]
            /\ upload'[u].stage # "new" /\ upload'[u].stage # "sending"
        BY <3>2 DEF Moves
      <4> QED
        BY <1>1, <3>3, <4>1, UploadMoved, Zenon
    <3>6. Lesser(part', final', part', final')
      BY DEF Lesser
    <3>7. Describes(part', final', index', upload')
      <4>1. upload' \in Uploadings
        BY <3>2 DEF Moves
      <4> QED
        BY <1>1, <3>3, <3>4, <3>5, <3>6, <4>1, LessDescribed, Zenon
    <3>8. Describes(part', final', saved', upload')
      BY <3>2, <3>5, <3>7
    <3>9. PartLeased(part', final', index')
      <4>1. \A x \in Blobs : x # b => final'[x] = final[x]
        BY <1>1, <3>1 DEF FileMaps
      <4> QED
        BY <1>1, <2>2, <3>4, <4>1 DEF PartLeased
    <3>10. CacheTypes'
      BY <1>1, <1>2, <3>2, <3>3, <3>4 DEF CacheTypes, Moves
    <3>11. cacheDown' \/ SavedBehind(index', saved')
      BY <3>2 DEF SavedBehind
    <3>12. \A v \in Uploads, x \in Blobs : upload'[v].stage = "new" => recovery'[x] # v
      BY <1>1, <1>2, <3>2 DEF Moves
    <3> QED
      BY <3>3, <3>7, <3>8, <3>9, <3>10, <3>11, <3>12 DEF CacheInv
  <2>4. CASE p # Whole(index[b].digest)
    <3>1. UploadEnds(u, "failed") /\ UNCHANGED <<final, index, saved, cacheDown>>
      BY <1>7, <2>4
    <3>2. /\ upload' \in Uploadings /\ upload'[u].stage = "failed"
          /\ \A v \in Uploads \ {u} : upload'[v] = upload[v]
      BY <1>1, <1>3, <3>1, UploadEnded, Zenon
    <3>3. Moves(u, upload, upload') /\ upload'[u].stage # "sending"
      BY <3>2 DEF Moves
    <3> HIDE DEF b, p
    <3>4. Lesser(part', final, part, final)
      BY <2>2 DEF Lesser
    <3>5. FilesWhole(part', final)
      BY <1>1, <2>2, <3>4, LesserWhole, Zenon
    <3>6. Describes(part', final, index, upload) /\ Describes(part', final, saved, upload)
      BY <1>1, <2>2, <3>4, LowerSelf, LessDescribed, Zenon
    <3>7. Describes(part', final, index, upload') /\ Describes(part', final, saved, upload')
      BY <1>1, <2>2, <3>2, <3>3, <3>6, UploadMoved, Zenon DEF Moves
    <3>8. PartLeased(part', final, index)
      BY <1>1, <2>2 DEF PartLeased
    <3>9. CacheTypes'
      BY <1>1, <1>2, <2>2, <3>1, <3>2 DEF CacheTypes
    <3>10. \A v \in Uploads, x \in Blobs : upload'[v].stage = "new" => recovery'[x] # v
      BY <1>1, <1>2, <3>3 DEF Moves
    <3> QED
      BY <1>2, <3>1, <3>5, <3>7, <3>8, <3>9, <3>10 DEF CacheInv
  <2> QED
    BY <2>3, <2>4
<1> QED
  BY <1>2, <1>4, <1>6, <1>7 DEF commitChunk, admitted

(* The index is read back, or rebuilt from what is whole.                     *)
LEMMA RestartKeeps ==
    ASSUME CacheInv, CacheRestarts
    PROVE  CacheInv'
<1>1. /\ part \in FileMaps /\ final \in FileMaps /\ index \in Indexes /\ saved \in Indexes
      /\ upload \in Uploadings /\ FilesWhole(part, final)
      /\ Describes(part, final, index, upload) /\ Describes(part, final, saved, upload)
      /\ recovery \in [Blobs -> Uploads \cup {0}] /\ 0 \notin Uploads
      /\ \A v \in Uploads, x \in Blobs : upload[v].stage = "new" => recovery[x] # v
      /\ LeaseOfEntry(saved)
  BY CacheAssumption DEF CacheInv, CacheTypes, Describes
<1>2. /\ part' = [b \in Blobs |-> IF index'[b].lease # 0 THEN part[b] ELSE <<>>]
      /\ saved' = index' /\ cacheDown' = FALSE /\ upload' = upload
  BY DEF CacheRestarts
<1>3. /\ part' \in FileMaps
      /\ \A b \in Blobs : part'[b] = IF index'[b].lease # 0 THEN part[b] ELSE <<>>
  <2>1. <<>> \in Seqs
    BY DEF Seqs
  <2> QED
    BY <1>1, <1>2, <2>1 DEF FileMaps
<1>4. ASSUME index' \in Indexes, final' \in FileMaps, FilesWhole(part', final'),
             Describes(part', final', index', upload), PartLeased(part', final', index'),
             \E gone : recovery' = Forgotten(recovery, gone)
      PROVE  CacheInv'
  <2>1. PICK gone : recovery' = Forgotten(recovery, gone)
    BY <1>4
  <2>2. /\ recovery' \in [Blobs -> Uploads \cup {0}]
        /\ \A b \in Blobs : recovery'[b] \in {recovery[b], 0}
    BY <1>1, <2>1, ForgottenTyped
  <2>3. CacheTypes'
    BY <1>1, <1>2, <1>3, <1>4, <2>2 DEF CacheTypes
  <2>4. \A v \in Uploads, x \in Blobs : upload'[v].stage = "new" => recovery'[x] # v
    BY <1>1, <1>2, <2>2
  <2>5. SavedBehind(index', saved')
    BY <1>2 DEF SavedBehind
  <2> QED
    BY <1>2, <1>4, <2>3, <2>4, <2>5 DEF CacheInv
<1>5. CASE index' = Reconciled(saved) /\ final' = final /\ recovery' = Forgotten(recovery, Lapsed(saved))
  <2>1. index' \in Indexes /\ Lower(index', saved)
    BY <1>1, <1>5, ReconciledLower, Zenon
  <2>2. Lesser(part', final, part, final)
    BY <1>3 DEF Lesser
  <2>3. FilesWhole(part', final)
    BY <1>1, <1>3, <2>2, LesserWhole, Zenon
  <2>4. Describes(part', final, index', upload)
    BY <1>1, <1>3, <2>1, <2>2, LessDescribed, Zenon
  <2>5. PartLeased(part', final, index')
    <3>1. \A b \in Blobs : index'[b].lease # 0 => final[b] = <<>>
      BY <1>1, <1>5, ReconciledLower
    <3> QED
      BY <1>3, <3>1 DEF PartLeased
  <2>6. \E gone : recovery' = Forgotten(recovery, gone)
    BY <1>5
  <2> QED
    BY <1>4, <1>5, <1>1, <2>1, <2>3, <2>4, <2>5, <2>6
<1>6. CASE /\ index' = [b \in Blobs |-> IF Complete(b) /\ recovered(b) THEN Unleased(recovery[b]) ELSE NoBlob]
           /\ final' = [b \in Blobs |-> IF Complete(b) /\ recovered(b) THEN final[b] ELSE <<>>]
           /\ recovery' = Forgotten(recovery, {b \in Blobs : Complete(b) /\ ~recovered(b)})
  <2>1. \A b \in Blobs : index'[b] = IF Complete(b) /\ recovered(b) THEN Unleased(recovery[b]) ELSE NoBlob
    BY <1>6
  <2>2. \A b \in Blobs : final'[b] = IF Complete(b) /\ recovered(b) THEN final[b] ELSE <<>>
    BY <1>6
  <2>3. final' \in FileMaps
    <3>1. <<>> \in Seqs
      BY DEF Seqs
    <3> QED
      BY <1>1, <1>6, <3>1 DEF FileMaps
  <2>4. \A b \in Blobs : /\ index'[b] \in Metas /\ index'[b].lease = 0 /\ ~index'[b].live
                         /\ index'[b].digest # 0 =>
                              index'[b].digest = recovery[b] /\ final[b] = Whole(recovery[b])
    <3> TAKE b \in Blobs
    <3>1. CASE Complete(b) /\ recovered(b)
      <4>1. index'[b] = Unleased(recovery[b]) /\ recovery[b] \in Uploads \cup {0}
            /\ final[b] = Whole(recovery[b])
        BY <1>1, <2>1, <3>1 DEF recovered
      <4> QED
        BY <4>1 DEF Unleased, Metas
    <3>2. CASE ~(Complete(b) /\ recovered(b))
      <4>1. index'[b] = NoBlob
        BY <2>1, <3>2
      <4> QED
        BY <4>1 DEF NoBlob, Metas
    <3> QED
      BY <3>1, <3>2
  <2>5. index' \in Indexes
    <3>1. index' = [b \in Blobs |-> index'[b]]
      BY <1>6
    <3> QED
      BY <2>4, <3>1 DEF Indexes
  <2>6. \A b \in Blobs : part'[b] = <<>>
    BY <1>3, <2>4
  <2>7. Lesser(part', final', part, final)
    BY <2>2, <2>6 DEF Lesser
  <2>8. FilesWhole(part', final')
    BY <1>1, <1>3, <2>3, <2>7, LesserWhole, Zenon
  <2>9. PartLeased(part', final', index')
    BY <2>4, <2>6 DEF PartLeased
  <2>10. Describes(part', final', index', upload)
    <3>1. LeaseOfEntry(index')
      BY <2>4 DEF LeaseOfEntry
    <3>2. WholeBy(final', index')
      BY <2>2, <2>4 DEF WholeBy
    <3>3. OwnedBy(part', index', upload)
      BY <1>1, <2>4 DEF OwnedBy, Uploadings
    <3>4. BegunBy(index', upload)
      BY <1>1, <2>4 DEF BegunBy
    <3>5. used(final', part', index') <= Quota
      <4> DEFINE bare == [b \in Blobs |-> NoBlob]
      <4>1. bare \in Indexes /\ Lower(bare, index) /\ \A b \in Blobs : bare[b].lease = 0
        BY DEF Indexes, Metas, NoBlob, Lower
      <4> HIDE DEF bare
      <4>2. Describes(part', final', bare, upload)
        BY <1>1, <1>3, <2>3, <2>7, <4>1, LessDescribed, Zenon
      <4>3. \A b \in Blobs : reserved(final', part', index', b) = reserved(final', part', bare, b)
        BY <2>4, <4>1 DEF reserved
      <4>4. used(final', part', index') = used(final', part', bare)
        BY <4>3 DEF used
      <4> QED
        BY <4>2, <4>4 DEF Describes
    <3> QED
      BY <3>1, <3>2, <3>3, <3>4, <3>5 DEF Describes
  <2>11. \E gone : recovery' = Forgotten(recovery, gone)
    BY <1>6
  <2> QED
    BY <1>4, <2>3, <2>5, <2>8, <2>9, <2>10, <2>11
<1> QED
  BY <1>5, <1>6 DEF CacheRestarts

LEMMA InitCacheInv == CacheInit => CacheInv
<1> SUFFICES ASSUME CacheInit
             PROVE  CacheInv
  OBVIOUS
<1>1. /\ \A b \in Blobs : part[b] = <<>> /\ final[b] = <<>> /\ index[b] = NoBlob /\ recovery[b] = 0
      /\ part = [b \in Blobs |-> <<>>] /\ final = part /\ saved = index /\ index = [b \in Blobs |-> NoBlob]
      /\ recovery = [b \in Blobs |-> 0] /\ cacheDown = FALSE
      /\ upload = [u \in Uploads |-> [stage |-> "new", blob |-> 0, sent |-> 0]]
  BY DEF CacheInit
<1>2. /\ NoBlob \in Metas /\ NoBlob.digest = 0 /\ NoBlob.lease = 0 /\ ~NoBlob.live /\ <<>> \in Seqs
      /\ Len(<<>>) = 0 /\ 0 \notin Uploads /\ Quota \in Nat /\ Chunks \in Nat
  BY CacheAssumption DEF NoBlob, Metas, Seqs
<1>3. upload \in Uploadings /\ \A u \in Uploads : upload[u].stage = "new"
  BY <1>1 DEF Uploadings, Sendings
<1> HIDE DEF NoBlob
<1>4. part \in FileMaps /\ final \in FileMaps /\ index \in Indexes
  BY <1>1, <1>2 DEF FileMaps, Indexes
<1>5. FilesWhole(part, final) /\ PartLeased(part, final, index)
  BY <1>1, <1>2 DEF FilesWhole, PartLeased
<1>6. used(final, part, index) <= Quota
  <2>1. [b \in Blobs |-> reserved(final, part, index, b)] \in Amounts
    BY <1>4, ReservedAmounts, Zenon
  <2>2. \A b \in Blobs : reserved(final, part, index, b) = 0
    BY <1>1, <1>2 DEF reserved, Have, CacheMax
  <2>3. Total([b \in Blobs |-> reserved(final, part, index, b)]) = 0
    BY <2>1, <2>2, TotalNothing
  <2> QED
    BY <1>2, <2>3 DEF used
<1>7. Describes(part, final, index, upload)
  <2>1. LeaseOfEntry(index)
    BY <1>1, <1>2 DEF LeaseOfEntry
  <2>2. WholeBy(final, index)
    BY <1>1 DEF WholeBy
  <2>3. OwnedBy(part, index, upload)
    BY <1>3 DEF OwnedBy
  <2>4. BegunBy(index, upload)
    BY <1>1, <1>2 DEF BegunBy
  <2> QED
    BY <1>6, <2>1, <2>2, <2>3, <2>4 DEF Describes
<1>8. SavedBehind(index, saved)
  BY <1>1 DEF SavedBehind
<1> QED
  BY <1>1, <1>2, <1>3, <1>4, <1>5, <1>7, <1>8 DEF CacheInv, CacheTypes

LEMMA CacheNextInv == CacheInv /\ [CacheNext]_cacheVars => CacheInv'
<1> SUFFICES ASSUME CacheInv, [CacheNext]_cacheVars
             PROVE  CacheInv'
  OBVIOUS
<1>1. ASSUME NEW u \in Uploads, commitChunk(u)
      PROVE  CacheInv'
  BY <1>1, CommitKeeps
<1>2. ASSUME NEW u \in Uploads, UploadFails(u)
      PROVE  CacheInv'
  <2>1. UploadEnds(u, "failed") /\ UNCHANGED <<part, final, index, saved, recovery, cacheDown>>
    BY <1>2 DEF UploadFails, files
  <2>2. "failed" \in {"failed", "done"}
    OBVIOUS
  <2> QED
    BY <2>1, <2>2, EndKeeps, Zenon
<1>3. ASSUME NEW u \in Uploads, NEW b \in Blobs, begin(u, b)
      PROVE  CacheInv'
  BY <1>3, BeginKeeps
<1>4. ASSUME NEW b \in Blobs, LeaseExpires(b)
      PROVE  CacheInv'
  BY <1>4, ExpiryKeeps
<1>5. CASE sweepBlobs
  BY <1>5, SweepKeeps
<1>6. CASE CacheRestarts
  BY <1>6, RestartKeeps
<1>7. CASE UNCHANGED cacheVars
  BY <1>7 DEF cacheVars, CacheInv, CacheTypes
<1> QED
  BY <1>1, <1>2, <1>3, <1>4, <1>5, <1>6, <1>7 DEF CacheNext

(* Uploads that overlap, die, expire or are cut short by a restart leave the  *)
(* cache with whole blobs, parts of one writer and room accounted for, for    *)
(* any blobs, uploads, chunks, quota and number of restarts (BlobCache's      *)
(* CacheSound).                                                              *)
THEOREM CacheIsSound == CacheSpec => []CacheSound
<1>1. CacheInv => CacheSound
  <2> SUFFICES ASSUME CacheInv
               PROVE  CacheSound
    OBVIOUS
  <2>1. Describes(part, final, index, upload)
    BY DEF CacheInv
  <2>2. ServedWhole
    BY <2>1 DEF ServedWhole, Describes, WholeBy, Complete
  <2>3. LeaseOwnsPart
    BY <2>1 DEF LeaseOwnsPart, Describes, OwnedBy, admitted
  <2>4. QuotaKept
    BY <2>1 DEF QuotaKept, Describes
  <2> QED
    BY <2>2, <2>3, <2>4 DEF CacheSound
<1> QED
  BY <1>1, InitCacheInv, CacheNextInv, PTL DEF CacheSpec

-----------------------------------------------------------------------------
(* The board: counting, sequences and the sets they hold *)

\* What holds at 0 and goes from each number to the next holds up to N.
LEMMA CountsUp ==
    ASSUME NEW N \in Nat, NEW G, 0 \in G, \A n \in 1 .. N : n - 1 \in G => n \in G
    PROVE  \A n \in 0 .. N : n \in G
<1> DEFINE T == {n \in 0 .. N : n \notin G}
<1>1. T \in SUBSET Nat
  OBVIOUS
<1>2. SUFFICES ASSUME T # {} PROVE FALSE
  OBVIOUS
<1>3. PICK m \in T : \A k \in T : m <= k
  <2> HIDE DEF T
  <2> QED BY <1>1, <1>2, Least
<1>4. m \in 1 .. N
  OBVIOUS
<1>5. m - 1 \notin T
  BY <1>3, <1>4
<1> QED
  BY <1>4, <1>5

\* The elements of a finite set in some order are its elements.
LEMMA InSomeOrder ==
    ASSUME NEW S, IsFiniteSet(S)
    PROVE  SetToSeq(S) \in Seq(S) /\ ToSet(SetToSeq(S)) = S
<1> DEFINE n == Cardinality(S)
<1>1. n \in Nat /\ ExistsBijection(1 .. n, S)
  BY FS_CardinalityType
<1>2. Cardinality(1 .. n) = n /\ IsFiniteSet(1 .. n)
  <2>1. 1 \in Int /\ n \in Int
    BY <1>1
  <2>2. Cardinality(1 .. n) = IF 1 > n THEN 0 ELSE n - 1 + 1
    <3> HIDE DEF n
    <3> QED BY <2>1, FS_Interval
  <2>3. IsFiniteSet(1 .. n)
    <3> HIDE DEF n
    <3> QED BY <2>1, FS_Interval
  <2> QED
    BY <1>1, <2>2, <2>3
<1>3. \E f \in [1 .. n -> S] : IsInjective(f)
  BY <1>1, Zenon DEF ExistsBijection, Bijection, Injection
<1>4. SetToSeq(S) \in [1 .. n -> S] /\ IsInjective(SetToSeq(S))
  BY <1>3, Zenon DEF SetToSeq
<1>5. SetToSeq(S) \in Injection(1 .. n, S)
  BY <1>4, Zenon DEF Injection
<1>6. SetToSeq(S) \in Surjection(1 .. n, S)
  <2> DEFINE f == SetToSeq(S)
  <2>1. f \in Injection(1 .. n, S)
    BY <1>5
  <2>2. Cardinality(1 .. n) = Cardinality(S)
    BY <1>2
  <2> HIDE DEF f, n
  <2>3. Cardinality(1 .. n) = Cardinality(S) <=> f \in Surjection(1 .. n, S)
    BY <2>1, FS_Injection, Zenon
  <2>4. f \in Surjection(1 .. n, S)
    BY <2>2, <2>3
  <2> QED
    BY <2>4 DEF f
<1>7. SetToSeq(S) \in Seq(S)
  BY <1>1, <1>4
<1>8. \A x \in S : \E i \in 1 .. n : SetToSeq(S)[i] = x
  BY <1>6, Zenon DEF Surjection
<1>9. DOMAIN SetToSeq(S) = 1 .. n
  BY <1>4, Zenon
<1>10. ToSet(SetToSeq(S)) = S
  <2> DEFINE f == SetToSeq(S)
  <2>1. f \in [1 .. n -> S] /\ DOMAIN f = 1 .. n /\ \A x \in S : \E i \in 1 .. n : f[i] = x
    BY <1>4, <1>8, <1>9, Zenon
  <2> HIDE DEF f, n
  <2>2. {f[i] : i \in DOMAIN f} = S
    BY <2>1
  <2> QED
    BY <2>2 DEF ToSet, f
<1> QED
  BY <1>7, <1>10

LEMMA OfAppend ==
    ASSUME NEW A, NEW q \in Seq(A), NEW x \in A
    PROVE  Append(q, x) \in Seq(A) /\ ToSet(Append(q, x)) = ToSet(q) \cup {x}
<1> DEFINE n == Len(q)
           s == Append(q, x)
<1>1. s \in Seq(A) /\ DOMAIN s = 1 .. n + 1 /\ s[n + 1] = x /\ \A i \in 1 .. n : s[i] = q[i]
  OBVIOUS
<1>2. n \in Nat /\ DOMAIN q = 1 .. n
  OBVIOUS
<1> HIDE DEF n, s
<1>3. {s[i] : i \in DOMAIN s} = {q[i] : i \in DOMAIN q} \cup {x}
  <2>1. n + 1 \in DOMAIN s /\ \A i \in DOMAIN s : i \in DOMAIN q \/ i = n + 1
    BY <1>1, <1>2
  <2>2. \A i \in DOMAIN q : i \in DOMAIN s /\ s[i] = q[i]
    BY <1>1, <1>2
  <2> QED
    BY <1>1, <2>1, <2>2
<1> QED
  BY <1>1, <1>3 DEF ToSet, s

LEMMA OfConcat ==
    ASSUME NEW A, NEW q \in Seq(A), NEW r \in Seq(A)
    PROVE  q \o r \in Seq(A) /\ ToSet(q \o r) = ToSet(q) \cup ToSet(r)
<1>1. q \o r \in Seq(A) /\ Len(q \o r) = Len(q) + Len(r)
  OBVIOUS
<1>2. \A i \in 1 .. Len(q) : (q \o r)[i] = q[i]
  OBVIOUS
<1>3. \A i \in 1 .. Len(r) : (q \o r)[Len(q) + i] = r[i]
  OBVIOUS
<1>4. Len(q) \in Nat /\ Len(r) \in Nat
  OBVIOUS
<1>5. DOMAIN q = 1 .. Len(q) /\ DOMAIN r = 1 .. Len(r) /\ DOMAIN (q \o r) = 1 .. Len(q) + Len(r)
  BY <1>1
<1> DEFINE s == q \o r
<1>6. DOMAIN s = 1 .. Len(q) + Len(r) /\ (\A i \in 1 .. Len(q) : s[i] = q[i])
      /\ \A i \in 1 .. Len(r) : s[Len(q) + i] = r[i]
  BY <1>2, <1>3, <1>5
<1> HIDE DEF s
<1>7. ToSet(s) \subseteq ToSet(q) \cup ToSet(r)
  <2> SUFFICES ASSUME NEW i \in DOMAIN s PROVE s[i] \in ToSet(q) \cup ToSet(r)
    BY DEF ToSet
  <2>1. CASE i \in 1 .. Len(q)
    BY <2>1, <1>6, <1>5 DEF ToSet
  <2>2. CASE i \notin 1 .. Len(q)
    <3>1. i - Len(q) \in 1 .. Len(r) /\ i = Len(q) + (i - Len(q))
      BY <2>2, <1>6, <1>4
    <3>2. s[i] = r[i - Len(q)]
      BY <3>1, <1>6
    <3> QED
      BY <3>1, <3>2, <1>5 DEF ToSet
  <2> QED
    BY <2>1, <2>2
<1>8. ToSet(q) \subseteq ToSet(s)
  <2> SUFFICES ASSUME NEW i \in 1 .. Len(q) PROVE q[i] \in ToSet(s)
    BY <1>5 DEF ToSet
  <2>1. i \in DOMAIN s /\ s[i] = q[i]
    BY <1>6, <1>4
  <2> QED
    BY <2>1 DEF ToSet
<1>9. ToSet(r) \subseteq ToSet(s)
  <2> SUFFICES ASSUME NEW i \in 1 .. Len(r) PROVE r[i] \in ToSet(s)
    BY <1>5 DEF ToSet
  <2>1. Len(q) + i \in DOMAIN s /\ s[Len(q) + i] = r[i]
    BY <1>6, <1>4
  <2> QED
    BY <2>1 DEF ToSet
<1> QED
  BY <1>1, <1>7, <1>8, <1>9 DEF s

LEMMA FrontAndLast ==
    ASSUME NEW A, NEW q \in Seq(A), q # << >>
    PROVE  /\ Front(q) \in Seq(A) /\ Last(q) \in A
           /\ ToSet(q) = ToSet(Front(q)) \cup {Last(q)}
<1> DEFINE n == Len(q)
           f == SubSeq(q, 1, n - 1)
<1>1. n \in Nat \ {0} /\ DOMAIN q = 1 .. n /\ \A i \in 1 .. n : q[i] \in A
  OBVIOUS
<1>2. f \in Seq(A) /\ Len(f) = n - 1 /\ \A i \in 1 .. n - 1 : f[i] = q[i]
  BY <1>1
<1>3. DOMAIN f = 1 .. n - 1
  BY <1>2
<1> HIDE DEF n, f
<1>4. {q[i] : i \in DOMAIN q} = {f[i] : i \in DOMAIN f} \cup {q[n]}
  BY <1>1, <1>2, <1>3
<1> QED
  BY <1>1, <1>2, <1>4 DEF Front, Last, ToSet, f, n

WorkItems == [id : Entries, derive : BOOLEAN]

LEMMA OfItems ==
    ASSUME NEW ids \in Seq(Entries), NEW d \in BOOLEAN
    PROVE  /\ Items(ids, d) \in Seq(WorkItems)
           /\ ToSet(Items(ids, d)) = {[id |-> x, derive |-> d] : x \in ToSet(ids)}
<1> DEFINE q == [i \in DOMAIN ids |-> [id |-> ids[i], derive |-> d]]
           n == Len(ids)
<1>1. n \in Nat /\ DOMAIN ids = 1 .. n /\ \A i \in 1 .. n : ids[i] \in Entries
  OBVIOUS
<1>2. q \in [1 .. n -> WorkItems]
  <2> HIDE DEF n
  <2> QED BY <1>1 DEF WorkItems
<1>3. q \in Seq(WorkItems)
  <2> HIDE DEF n, q
  <2> QED BY <1>1, <1>2
<1>4. {q[i] : i \in DOMAIN q} = {[id |-> x, derive |-> d] : x \in {ids[i] : i \in DOMAIN ids}}
  <2>1. DOMAIN q = DOMAIN ids /\ \A i \in DOMAIN ids : q[i] = [id |-> ids[i], derive |-> d]
    OBVIOUS
  <2> HIDE DEF q, n
  <2> QED BY <2>1, Zenon
<1> QED
  BY <1>3, <1>4 DEF Items, ToSet

\* The walk up from an entry, step by step.
LEMMA CyclicWalk ==
    ASSUME NEW es, NEW id, NEW N \in Nat, N = Cardinality(Entries)
    PROVE  \E f : /\ \A n \in 0 .. N : f[n] = IF n = 0 THEN id ELSE Up(es, f[n - 1])
                  /\ Cyclic(es, id) <=> f[N] # NoParent
<1> DEFINE up[n \in 0 .. N] == IF n = 0 THEN id ELSE Up(es, up[n - 1])
           G == {m \in Nat : \E f : f = [n \in 0 .. m |-> IF n = 0 THEN id ELSE Up(es, f[n - 1])]}
<1>1. 0 \in G
  <2> DEFINE f == [n \in 0 .. 0 |-> id]
  <2>1. f = [n \in 0 .. 0 |-> IF n = 0 THEN id ELSE Up(es, f[n - 1])]
    OBVIOUS
  <2> QED
    BY <2>1
<1>2. ASSUME NEW m \in 1 .. N, m - 1 \in G PROVE m \in G
  <2>1. PICK f : f = [n \in 0 .. m - 1 |-> IF n = 0 THEN id ELSE Up(es, f[n - 1])]
    BY <1>2
  <2> DEFINE g == [n \in 0 .. m |-> IF n < m THEN f[n] ELSE Up(es, f[m - 1])]
  <2>2. \A n \in 0 .. m - 1 : f[n] = IF n = 0 THEN id ELSE Up(es, f[n - 1])
    BY <2>1
  <2>3. \A n \in 0 .. m : g[n] = IF n = 0 THEN id ELSE Up(es, g[n - 1])
    BY <2>2
  <2>4. g = [n \in 0 .. m |-> IF n = 0 THEN id ELSE Up(es, g[n - 1])]
    BY <2>3
  <2>5. m \in Nat
    OBVIOUS
  <2> HIDE DEF g
  <2> QED
    BY <2>4, <2>5, Zenon
<1> HIDE DEF G
<1>3. \A n \in 0 .. N : n \in G
  BY <1>1, <1>2, CountsUp
<1>4. N \in G
  BY <1>3
<1>5. up = [n \in 0 .. N |-> IF n = 0 THEN id ELSE Up(es, up[n - 1])]
  BY <1>4 DEF G
<1>6. Cyclic(es, id) <=> up[N] # NoParent
  BY DEF Cyclic
<1> HIDE DEF up
<1>7. \A n \in 0 .. N : up[n] = IF n = 0 THEN id ELSE Up(es, up[n - 1])
  BY <1>5
<1> QED
  BY <1>6, <1>7

Boards == [Entries -> EntryRecords \cup {Absent}]

\* What is on the board is an entry, and an entry is not the absence of one.
LEMMA OnBoard ==
    ASSUME NEW es \in Boards, NEW id \in Entries, Has(es, id)
    PROVE  /\ es[id] \in EntryRecords
           /\ es[id].state \in BoardStates /\ es[id].parent \in Entries \cup {NoParent}
           /\ es[id].holder \in BoardSessions \cup {Nobody}
           /\ es[id].trash \in {"live", "trashed", "expired"}
<1>1. es[id] \in EntryRecords
  BY DEF Boards, Has
<1> QED
  BY <1>1 DEF EntryRecords

LEMMA AbsentIsNone == Absent \notin EntryRecords
<1>1. Absent.state = "absent"
  BY DEF Absent
<1>2. \A e \in EntryRecords : e.state \in BoardStates
  BY DEF EntryRecords
<1> QED
  BY <1>1, <1>2 DEF BoardStates

LEMMA EntryIs ==
    ASSUME NEW s \in BoardStates, NEW p \in Entries \cup {NoParent},
           NEW h \in BoardSessions \cup {Nobody}, NEW t \in {"live", "trashed", "expired"}
    PROVE  /\ Entry(s, p, h, t) \in EntryRecords
           /\ Entry(s, p, h, t) # Absent
           /\ Entry(s, p, h, t).state = s /\ Entry(s, p, h, t).parent = p
           /\ Entry(s, p, h, t).holder = h /\ Entry(s, p, h, t).trash = t
<1>1. Entry(s, p, h, t) \in EntryRecords
  BY DEF Entry, EntryRecords
<1> QED
  BY <1>1, AbsentIsNone DEF Entry

\* A set of entries that has the parent of each.
Loops(es, S) == \A x \in S : Has(es, x) /\ es[x].parent \in S

LEMMA UpIs ==
    ASSUME NEW es \in Boards, NoParent \notin Entries
    PROVE  /\ Up(es, NoParent) = NoParent
           /\ \A x \in Entries :
                /\ Up(es, x) \in Entries \cup {NoParent}
                /\ Up(es, x) # NoParent => Has(es, x) /\ Up(es, x) = es[x].parent
                /\ Has(es, x) => Up(es, x) = es[x].parent
BY OnBoard DEF Up

\* The walk from an entry comes back if and only if the entry is in such a set.
LEMMA CyclicIs ==
    ASSUME NEW es \in Boards, NEW id \in Entries, IsFiniteSet(Entries), NoParent \notin Entries
    PROVE  Cyclic(es, id) <=> \E S \in SUBSET Entries : id \in S /\ Loops(es, S)
<1>1. PICK N \in Nat : N = Cardinality(Entries)
  BY FS_CardinalityType, Zenon
<1>2. PICK up : /\ \A n \in 0 .. N : up[n] = IF n = 0 THEN id ELSE Up(es, up[n - 1])
                /\ Cyclic(es, id) <=> up[N] # NoParent
  BY <1>1, CyclicWalk
<1>3. up[0] = id /\ \A n \in 1 .. N : up[n] = Up(es, up[n - 1])
  BY <1>1, <1>2
<1>4. Up(es, NoParent) = NoParent
      /\ \A x \in Entries : /\ Up(es, x) \in Entries \cup {NoParent}
                            /\ Up(es, x) # NoParent => Has(es, x) /\ Up(es, x) = es[x].parent
                            /\ Has(es, x) => Up(es, x) = es[x].parent
  BY UpIs, Zenon
<1>5. ASSUME NEW S \in SUBSET Entries, id \in S, Loops(es, S) PROVE Cyclic(es, id)
  <2> DEFINE G == {n \in 0 .. N : up[n] \in S}
  <2>1. 0 \in G
    BY <1>1, <1>3, <1>5
  <2>2. ASSUME NEW n \in 1 .. N, n - 1 \in G PROVE n \in G
    <3>1. up[n - 1] \in S /\ up[n] = Up(es, up[n - 1])
      BY <1>3, <2>2
    <3>2. Up(es, up[n - 1]) \in S
      BY <1>4, <1>5, <3>1 DEF Loops
    <3> QED
      BY <1>1, <3>1, <3>2
  <2> HIDE DEF G
  <2>3. N \in G
    <3>1. \A n \in 0 .. N : n \in G
      BY <1>1, <2>1, <2>2, CountsUp
    <3> QED
      BY <1>1, <3>1
  <2> QED
    BY <1>2, <2>3 DEF G
<1>6. ASSUME Cyclic(es, id) PROVE \E S \in SUBSET Entries : id \in S /\ Loops(es, S)
  <2> DEFINE G == {n \in 0 .. N : up[n] \in Entries \cup {NoParent}}
             B == {n \in 0 .. N : up[N - n] # NoParent}
  <2>1. \A n \in 0 .. N : up[n] \in Entries \cup {NoParent}
    <3>1. 0 \in G
      BY <1>1, <1>3
    <3>2. \A n \in 1 .. N : n - 1 \in G => n \in G
      BY <1>1, <1>3, <1>4
    <3> HIDE DEF G
    <3>3. \A n \in 0 .. N : n \in G
      BY <1>1, <3>1, <3>2, CountsUp
    <3> QED
      BY <3>3 DEF G
  <2>2. \A n \in 0 .. N : up[n] # NoParent
    <3>1. 0 \in B
      BY <1>1, <1>2, <1>6
    <3>2. ASSUME NEW n \in 1 .. N, n - 1 \in B PROVE n \in B
      <4>1. up[N - (n - 1)] # NoParent
        BY <3>2
      <4>2. N - (n - 1) \in 1 .. N /\ N - (n - 1) - 1 = N - n
        BY <1>1
      <4>3. up[N - (n - 1)] = Up(es, up[N - n])
        BY <1>3, <4>2
      <4> QED
        BY <1>1, <1>4, <4>1, <4>3
    <3> HIDE DEF B
    <3>3. \A n \in 0 .. N : n \in B
      BY <1>1, <3>1, <3>2, CountsUp
    <3>4. \A n \in 0 .. N : N - n \in 0 .. N /\ N - (N - n) = n
      BY <1>1
    <3>5. \A n \in 0 .. N : up[N - n] # NoParent
      BY <3>3 DEF B
    <3> QED
      BY <3>4, <3>5
  <2>3. \A n \in 0 .. N : up[n] \in Entries
    BY <2>1, <2>2
  <2> DEFINE f == [n \in 0 .. N |-> up[n]]
  <2>4. \E x, y \in 0 .. N : x # y /\ f[x] = f[y]
    <3>1. f \in [0 .. N -> Entries]
      BY <2>3
    <3>2. IsFiniteSet(0 .. N) /\ Cardinality(0 .. N) = N + 1
      <4>1. 0 \in Int /\ N \in Int
        BY <1>1
      <4>2. IsFiniteSet(0 .. N) /\ Cardinality(0 .. N) = IF 0 > N THEN 0 ELSE N - 0 + 1
        BY <4>1, FS_Interval, Zenon
      <4> QED
        BY <1>1, <4>2
    <3>3. Cardinality(Entries) < Cardinality(0 .. N)
      BY <1>1, <3>2
    <3> HIDE DEF f
    <3> QED
      BY <3>1, <3>2, <3>3, FS_PigeonHole, Zenon
  <2>5. PICK i \in 0 .. N, j \in 0 .. N : i < j /\ up[i] = up[j]
    <3>1. PICK x \in 0 .. N, y \in 0 .. N : x # y /\ up[x] = up[y]
      BY <2>4
    <3>2. x < y \/ y < x
      BY <1>1, <3>1
    <3> QED
      BY <3>1, <3>2
  <2> DEFINE S == {up[k] : k \in 0 .. j - 1}
  <2>6. S \in SUBSET Entries
    BY <1>1, <2>3
  <2>7. id \in S
    BY <1>1, <1>3, <2>5
  <2>8. ASSUME NEW k \in 0 .. j - 1 PROVE Has(es, up[k]) /\ es[up[k]].parent \in S
    <3>1. k + 1 \in 1 .. N /\ k \in 0 .. N /\ (k + 1) - 1 = k
      BY <1>1, <2>5
    <3>2. up[k + 1] = Up(es, up[k])
      BY <1>3, <3>1
    <3>3. up[k + 1] # NoParent /\ up[k] \in Entries
      BY <2>2, <2>3, <3>1
    <3>4. Has(es, up[k]) /\ es[up[k]].parent = up[k + 1]
      BY <1>4, <3>2, <3>3
    <3>5. up[k + 1] \in S
      <4>1. CASE k + 1 \in 0 .. j - 1
        BY <4>1
      <4>2. CASE k + 1 = j
        <5>1. i \in 0 .. j - 1
          BY <2>5
        <5> QED
          BY <2>5, <4>2, <5>1
      <4> QED
        BY <1>1, <4>1, <4>2
    <3> QED
      BY <3>4, <3>5
  <2>9. Loops(es, S)
    <3>1. ASSUME NEW x \in S PROVE Has(es, x) /\ es[x].parent \in S
      <4>1. PICK k \in 0 .. j - 1 : x = up[k]
        OBVIOUS
      <4> HIDE DEF S
      <4> QED
        BY <2>8, <4>1
    <3> HIDE DEF S
    <3> QED
      BY <3>1 DEF Loops
  <2> HIDE DEF S
  <2> QED
    BY <2>6, <2>7, <2>9
<1> QED
  BY <1>5, <1>6

CascadeStart(es, written, orphaned) ==
    [es |-> es, queue |-> Items(written, FALSE) \o Items(orphaned, TRUE), changed |-> {}]
BatchStart(es) == [es |-> es, touched |-> << >>, why |-> "ok"]
Removed(ops) == {ops[i].id : i \in {j \in DOMAIN ops : ops[j].kind = "remove"}}

\* The cascade, turn by turn.
LEMMA CascadeRuns ==
    ASSUME NEW es, NEW written, NEW orphaned, NEW N \in Nat, N = Ceiling(es)
    PROVE  \E f : /\ f[0] = CascadeStart(es, written, orphaned)
                  /\ \A n \in 1 .. N : f[n] = CascadeStep(f[n - 1])
                  /\ applyCascade(es, written, orphaned) = f[N]
<1> DEFINE run[n \in 0 .. N] == IF n = 0 THEN CascadeStart(es, written, orphaned) ELSE CascadeStep(run[n - 1])
           G == {m \in Nat : \E f : f = [n \in 0 .. m |-> IF n = 0 THEN CascadeStart(es, written, orphaned) ELSE CascadeStep(f[n - 1])]}
<1>1. 0 \in G
  <2> DEFINE f == [n \in 0 .. 0 |-> CascadeStart(es, written, orphaned)]
  <2>1. f = [n \in 0 .. 0 |-> IF n = 0 THEN CascadeStart(es, written, orphaned) ELSE CascadeStep(f[n - 1])]
    OBVIOUS
  <2> QED
    BY <2>1
<1>2. ASSUME NEW m \in 1 .. N, m - 1 \in G PROVE m \in G
  <2>1. PICK f : f = [n \in 0 .. m - 1 |-> IF n = 0 THEN CascadeStart(es, written, orphaned) ELSE CascadeStep(f[n - 1])]
    BY <1>2
  <2> DEFINE g == [n \in 0 .. m |-> IF n < m THEN f[n] ELSE CascadeStep(f[m - 1])]
  <2>2. \A n \in 0 .. m - 1 : f[n] = IF n = 0 THEN CascadeStart(es, written, orphaned) ELSE CascadeStep(f[n - 1])
    BY <2>1
  <2>3. \A n \in 0 .. m : g[n] = IF n = 0 THEN CascadeStart(es, written, orphaned) ELSE CascadeStep(g[n - 1])
    BY <2>2
  <2>4. g = [n \in 0 .. m |-> IF n = 0 THEN CascadeStart(es, written, orphaned) ELSE CascadeStep(g[n - 1])]
    BY <2>3
  <2>5. m \in Nat
    OBVIOUS
  <2> HIDE DEF g
  <2> QED
    BY <2>4, <2>5, Zenon
<1>3. N \in Nat
  OBVIOUS
<1> HIDE DEF G
<1>4. \A n \in 0 .. N : n \in G
  BY <1>1, <1>2, <1>3, CountsUp
<1>5. N \in G
  BY <1>3, <1>4
<1>6. run = [n \in 0 .. N |-> IF n = 0 THEN CascadeStart(es, written, orphaned) ELSE CascadeStep(run[n - 1])]
  BY <1>5 DEF G
<1>7. applyCascade(es, written, orphaned) = run[N]
  BY DEF applyCascade, CascadeStart
<1> HIDE DEF run
<1>8. \A n \in 0 .. N : run[n] = IF n = 0 THEN CascadeStart(es, written, orphaned) ELSE CascadeStep(run[n - 1])
  BY <1>6
<1> QED
  BY <1>3, <1>7, <1>8

BatchRun(f, N, es, ops, actor) ==
    /\ f[0] = BatchStart(es)
    /\ \A n \in 1 .. N : f[n] = ApplyOp(f[n - 1], ops[n], actor, Removed(ops))

\* A batch, operation by operation.
LEMMA BatchRuns ==
    ASSUME NEW es, NEW ops \in Seq(Operations), NEW actor, NEW N \in Nat, N = Len(ops)
    PROVE  \E f : BatchRun(f, N, es, ops, actor) /\ ApplyOps(es, ops, actor) = f[N]
<1> DEFINE run[n \in 0 .. N] == IF n = 0 THEN BatchStart(es) ELSE ApplyOp(run[n - 1], ops[n], actor, Removed(ops))
           G == {m \in Nat : \E f : f = [n \in 0 .. m |-> IF n = 0 THEN BatchStart(es) ELSE ApplyOp(f[n - 1], ops[n], actor, Removed(ops))]}
<1>1. 0 \in G
  <2> DEFINE f == [n \in 0 .. 0 |-> BatchStart(es)]
  <2>1. f = [n \in 0 .. 0 |-> IF n = 0 THEN BatchStart(es) ELSE ApplyOp(f[n - 1], ops[n], actor, Removed(ops))]
    OBVIOUS
  <2> QED
    BY <2>1
<1>2. ASSUME NEW m \in 1 .. N, m - 1 \in G PROVE m \in G
  <2>1. PICK f : f = [n \in 0 .. m - 1 |-> IF n = 0 THEN BatchStart(es) ELSE ApplyOp(f[n - 1], ops[n], actor, Removed(ops))]
    BY <1>2
  <2> DEFINE g == [n \in 0 .. m |-> IF n < m THEN f[n] ELSE ApplyOp(f[m - 1], ops[m], actor, Removed(ops))]
  <2>2. \A n \in 0 .. m - 1 : f[n] = IF n = 0 THEN BatchStart(es) ELSE ApplyOp(f[n - 1], ops[n], actor, Removed(ops))
    BY <2>1
  <2>3. \A n \in 0 .. m : g[n] = IF n = 0 THEN BatchStart(es) ELSE ApplyOp(g[n - 1], ops[n], actor, Removed(ops))
    BY <2>2
  <2>4. g = [n \in 0 .. m |-> IF n = 0 THEN BatchStart(es) ELSE ApplyOp(g[n - 1], ops[n], actor, Removed(ops))]
    BY <2>3
  <2>5. m \in Nat
    OBVIOUS
  <2> HIDE DEF g
  <2> QED
    BY <2>4, <2>5, Zenon
<1>3. N \in Nat
  OBVIOUS
<1> HIDE DEF G
<1>4. \A n \in 0 .. N : n \in G
  BY <1>1, <1>2, <1>3, CountsUp
<1>5. N \in G
  BY <1>3, <1>4
<1>6. run = [n \in 0 .. N |-> IF n = 0 THEN BatchStart(es) ELSE ApplyOp(run[n - 1], ops[n], actor, Removed(ops))]
  BY <1>5 DEF G
<1>7. ApplyOps(es, ops, actor) = run[N]
  BY DEF ApplyOps, BatchStart, Removed
<1> HIDE DEF run
<1>8. \A n \in 0 .. N : run[n] = IF n = 0 THEN BatchStart(es) ELSE ApplyOp(run[n - 1], ops[n], actor, Removed(ops))
  BY <1>6
<1>9. run[0] = BatchStart(es)
  BY <1>3, <1>8
<1>10. \A n \in 1 .. N : run[n] = ApplyOp(run[n - 1], ops[n], actor, Removed(ops))
  BY <1>3, <1>8
<1> QED
  BY <1>7, <1>9, <1>10, Zenon DEF BatchRun

OrphanStart == << >>
OrphanStep(prev, next, q, id) == IF Detached(prev, next, id) THEN Append(q, prev[id].parent) ELSE q

OrphanRun(f, N, prev, next, touched) ==
    /\ f[0] = OrphanStart
    /\ \A n \in 1 .. N : f[n] = OrphanStep(prev, next, f[n - 1], touched[n])

\* The parents that lost a child, one touched entry after another.
LEMMA OrphanedRuns ==
    ASSUME NEW prev, NEW next, NEW touched \in Seq(Entries), NEW N \in Nat, N = Len(touched)
    PROVE  \E f : OrphanRun(f, N, prev, next, touched) /\ orphanedParents(prev, next, touched) = f[N]
<1> DEFINE run[n \in 0 .. N] == IF n = 0 THEN OrphanStart ELSE OrphanStep(prev, next, run[n - 1], touched[n])
           G == {m \in Nat : \E f : f = [n \in 0 .. m |-> IF n = 0 THEN OrphanStart ELSE OrphanStep(prev, next, f[n - 1], touched[n])]}
<1>1. 0 \in G
  <2> DEFINE f == [n \in 0 .. 0 |-> OrphanStart]
  <2>1. f = [n \in 0 .. 0 |-> IF n = 0 THEN OrphanStart ELSE OrphanStep(prev, next, f[n - 1], touched[n])]
    OBVIOUS
  <2> QED
    BY <2>1
<1>2. ASSUME NEW m \in 1 .. N, m - 1 \in G PROVE m \in G
  <2>1. PICK f : f = [n \in 0 .. m - 1 |-> IF n = 0 THEN OrphanStart ELSE OrphanStep(prev, next, f[n - 1], touched[n])]
    BY <1>2
  <2> DEFINE g == [n \in 0 .. m |-> IF n < m THEN f[n] ELSE OrphanStep(prev, next, f[m - 1], touched[m])]
  <2>2. \A n \in 0 .. m - 1 : f[n] = IF n = 0 THEN OrphanStart ELSE OrphanStep(prev, next, f[n - 1], touched[n])
    BY <2>1
  <2>3. \A n \in 0 .. m : g[n] = IF n = 0 THEN OrphanStart ELSE OrphanStep(prev, next, g[n - 1], touched[n])
    BY <2>2
  <2>4. g = [n \in 0 .. m |-> IF n = 0 THEN OrphanStart ELSE OrphanStep(prev, next, g[n - 1], touched[n])]
    BY <2>3
  <2>5. m \in Nat
    OBVIOUS
  <2> HIDE DEF g
  <2> QED
    BY <2>4, <2>5, Zenon
<1>3. N \in Nat
  OBVIOUS
<1> HIDE DEF G
<1>4. \A n \in 0 .. N : n \in G
  BY <1>1, <1>2, <1>3, CountsUp
<1>5. N \in G
  BY <1>3, <1>4
<1>6. run = [n \in 0 .. N |-> IF n = 0 THEN OrphanStart ELSE OrphanStep(prev, next, run[n - 1], touched[n])]
  BY <1>5 DEF G
<1>7. orphanedParents(prev, next, touched) = run[N]
  BY DEF orphanedParents, OrphanStart, OrphanStep
<1> HIDE DEF run
<1>8. \A n \in 0 .. N : run[n] = IF n = 0 THEN OrphanStart ELSE OrphanStep(prev, next, run[n - 1], touched[n])
  BY <1>6
<1>9. run[0] = OrphanStart
  BY <1>3, <1>8
<1>10. \A n \in 1 .. N : run[n] = OrphanStep(prev, next, run[n - 1], touched[n])
  BY <1>3, <1>8
<1> QED
  BY <1>7, <1>9, <1>10, Zenon DEF OrphanRun

Item(id, derive) == [id |-> id, derive |-> derive]
WorkOK(acc) == acc.es \in Boards /\ acc.queue \in Seq(WorkItems) /\ acc.changed \in SUBSET Entries
Down(es, id) == IF isTerminal(es[id].state)
                THEN {c \in liveChildren(es, id) : ~isTerminal(es[c].state)} ELSE {}
Spread(es, id) ==
    [c \in Entries |-> IF c \in Down(es, id) THEN WithState(es[c], es[id].state) ELSE es[c]]
Settle(es, id, st) == [es EXCEPT ![id] = WithState(es[id], st)]
UpItem(es, id) == IF es[id].parent = NoParent THEN {} ELSE {Item(es[id].parent, TRUE)}

LEMMA ItemIs ==
    \A x, d : /\ Item(x, d).id = x /\ Item(x, d).derive = d
              /\ x \in Entries /\ d \in BOOLEAN => Item(x, d) \in WorkItems
BY DEF Item, WorkItems

LEMMA LiveIs ==
    ASSUME NEW es \in Boards, NEW id \in Entries
    PROVE  Live(es, id) => es[id] \in EntryRecords
BY OnBoard DEF Live

\* One turn of the cascade that takes the item step and leaves the others: it is
\* passed over, a parent is settled by its children, or an entry passes its state
\* down and asks its parent.
Turned(es, changed, next, step, rest) ==
    \/ /\ ~Live(es, step.id) \/ (step.derive /\ settledState(es, step.id) = es[step.id].state)
       /\ next.es = es /\ next.changed = changed /\ ToSet(next.queue) = rest
    \/ /\ Live(es, step.id) /\ step.derive /\ settledState(es, step.id) # es[step.id].state
       /\ next.es = Settle(es, step.id, settledState(es, step.id))
       /\ next.changed = changed \cup {step.id}
       /\ ToSet(next.queue) = rest \cup {Item(step.id, FALSE)}
    \/ /\ Live(es, step.id) /\ ~step.derive
       /\ next.es = Spread(es, step.id) /\ next.changed = changed \cup Down(es, step.id)
       /\ ToSet(next.queue) = rest \cup {Item(c, FALSE) : c \in Down(es, step.id)} \cup UpItem(es, step.id)

LEMMA TurnIs ==
    ASSUME NEW acc, WorkOK(acc), IsFiniteSet(Entries),
           NEW step, step = Last(acc.queue), NEW rest, rest = ToSet(Front(acc.queue)),
           acc.queue # << >>
    PROVE  /\ step \in WorkItems /\ ToSet(acc.queue) = rest \cup {step} /\ rest \subseteq WorkItems
           /\ CascadeStep(acc).queue \in Seq(WorkItems)
           /\ Turned(acc.es, acc.changed, CascadeStep(acc), step, rest)
<1> DEFINE es == acc.es
           q == acc.queue
<1>1. es \in Boards /\ q \in Seq(WorkItems) /\ q # << >>
  BY DEF WorkOK
<1>2. Front(q) \in Seq(WorkItems) /\ Last(q) \in WorkItems /\ ToSet(q) = ToSet(Front(q)) \cup {Last(q)}
  <2> HIDE DEF q
  <2> QED BY <1>1, FrontAndLast, Zenon
<1>3. rest \subseteq WorkItems
  <2> DEFINE f == Front(q)
  <2>1. f \in Seq(WorkItems)
    BY <1>2
  <2> HIDE DEF f
  <2>2. ToSet(f) \subseteq WorkItems
    BY <2>1 DEF ToSet
  <2> QED
    BY <2>2 DEF f
<1>4. step \in WorkItems /\ ToSet(q) = rest \cup {step}
  BY <1>2
<1>5. step.id \in Entries /\ step.derive \in BOOLEAN
  BY <1>4 DEF WorkItems
<1> DEFINE skips == ~Live(es, step.id) \/ (step.derive /\ settledState(es, step.id) = es[step.id].state)
           settles == Live(es, step.id) /\ step.derive /\ settledState(es, step.id) # es[step.id].state
           spreads == Live(es, step.id) /\ ~step.derive
<1>6. PICK f : f = Front(q) /\ f \in Seq(WorkItems) /\ ToSet(f) = rest
  BY <1>2
<1>7. CASE skips
  <2>1. CascadeStep(acc) = [es |-> es, queue |-> Front(q), changed |-> acc.changed]
    BY <1>1, <1>7 DEF CascadeStep
  <2>2. CascadeStep(acc).es = es /\ CascadeStep(acc).queue = f /\ CascadeStep(acc).changed = acc.changed
    BY <1>6, <2>1
  <2> QED
    BY <1>3, <1>4, <1>6, <1>7, <2>2, Zenon DEF Turned
<1>8. CASE settles
  <2>1. CascadeStep(acc) = [es |-> Settle(es, step.id, settledState(es, step.id)),
                            queue |-> Append(Front(q), Item(step.id, FALSE)),
                            changed |-> acc.changed \cup {step.id}]
    BY <1>1, <1>8 DEF CascadeStep, Item, Settle
  <2>2. Item(step.id, FALSE) \in WorkItems
    BY <1>5, ItemIs
  <2>3. PICK i \in WorkItems : i = Item(step.id, FALSE)
    BY <2>2
  <2>4. Append(f, i) \in Seq(WorkItems) /\ ToSet(Append(f, i)) = rest \cup {i}
    <3>1. f \in Seq(WorkItems)
      BY <1>6
    <3>2. i \in WorkItems
      OBVIOUS
    <3>3. Append(f, i) \in Seq(WorkItems) /\ ToSet(Append(f, i)) = ToSet(f) \cup {i}
      BY <3>1, <3>2, OfAppend
    <3> QED
      BY <1>6, <3>3, Zenon
  <2>5. CascadeStep(acc).es = Settle(es, step.id, settledState(es, step.id))
        /\ CascadeStep(acc).queue = Append(f, i)
        /\ CascadeStep(acc).changed = acc.changed \cup {step.id}
    <3>1. PICK e2 : e2 = Settle(es, step.id, settledState(es, step.id))
      OBVIOUS
    <3>2. PICK c2 : c2 = acc.changed \cup {step.id}
      OBVIOUS
    <3>3. CascadeStep(acc) = [es |-> e2, queue |-> Append(f, i), changed |-> c2]
      BY <1>6, <2>1, <2>3, <3>1, <3>2, Zenon
    <3>4. CascadeStep(acc).es = e2 /\ CascadeStep(acc).queue = Append(f, i) /\ CascadeStep(acc).changed = c2
      BY <3>3
    <3> QED
      BY <3>1, <3>2, <3>4, Zenon
  <2>6. CascadeStep(acc).queue \in Seq(WorkItems)
        /\ ToSet(CascadeStep(acc).queue) = rest \cup {Item(step.id, FALSE)}
    BY <2>3, <2>4, <2>5, Zenon
  <2> QED
    BY <1>3, <1>4, <1>8, <2>5, <2>6, Zenon DEF Turned
<1>9. CASE spreads
  <2> DEFINE p == es[step.id].parent
             ups == IF p = NoParent THEN << >> ELSE <<p>>
  <2>1. CascadeStep(acc) =
          [es |-> Spread(es, step.id),
           queue |-> Front(q) \o Items(SetToSeq(Down(es, step.id)), FALSE) \o Items(ups, TRUE),
           changed |-> acc.changed \cup Down(es, step.id)]
    BY <1>1, <1>9 DEF CascadeStep, Spread, Down
  <2>2. PICK down : down = Down(es, step.id) /\ down \in SUBSET Entries
    BY DEF Down, liveChildren
  <2>3. IsFiniteSet(down)
    BY <2>2, FS_Subset
  <2>4. p \in Entries \cup {NoParent}
    BY <1>1, <1>5, <1>9, OnBoard DEF Live
  <2>5. SetToSeq(down) \in Seq(Entries) /\ ToSet(SetToSeq(down)) = down
    <3>1. SetToSeq(down) \in Seq(down) /\ ToSet(SetToSeq(down)) = down
      BY <2>3, InSomeOrder, Zenon
    <3> QED
      BY <2>2, <3>1
  <2>6. ups \in Seq(Entries) /\ ToSet(ups) = IF p = NoParent THEN {} ELSE {p}
    <3> HIDE DEF p
    <3> QED BY <2>4 DEF ToSet
  <2>7. PICK r1 : r1 = Items(SetToSeq(down), FALSE) /\ r1 \in Seq(WorkItems)
                  /\ ToSet(r1) = {Item(c, FALSE) : c \in down}
    <3>1. FALSE \in BOOLEAN
      OBVIOUS
    <3>2. Items(SetToSeq(down), FALSE) \in Seq(WorkItems)
          /\ ToSet(Items(SetToSeq(down), FALSE)) = {[id |-> x, derive |-> FALSE] : x \in ToSet(SetToSeq(down))}
      BY <2>5, <3>1, OfItems, Zenon
    <3> QED
      BY <2>5, <3>2, Zenon DEF Item
  <2>8. PICK r2 : r2 = Items(ups, TRUE) /\ r2 \in Seq(WorkItems) /\ ToSet(r2) = UpItem(es, step.id)
    <3>1. TRUE \in BOOLEAN
      OBVIOUS
    <3> HIDE DEF ups
    <3>2. Items(ups, TRUE) \in Seq(WorkItems)
          /\ ToSet(Items(ups, TRUE)) = {[id |-> x, derive |-> TRUE] : x \in ToSet(ups)}
      BY <2>6, <3>1, OfItems, Zenon
    <3> QED
      BY <2>6, <3>2 DEF UpItem, Item
  <2> HIDE DEF ups
  <2>9. f \o r1 \in Seq(WorkItems) /\ ToSet(f \o r1) = rest \cup ToSet(r1)
    <3>1. f \in Seq(WorkItems) /\ r1 \in Seq(WorkItems)
      BY <1>6, <2>7
    <3>2. f \o r1 \in Seq(WorkItems) /\ ToSet(f \o r1) = ToSet(f) \cup ToSet(r1)
      BY <3>1, OfConcat, Zenon
    <3> QED
      BY <1>6, <3>2, Zenon
  <2>10. PICK f1 : f1 = f \o r1 /\ f1 \in Seq(WorkItems) /\ ToSet(f1) = rest \cup ToSet(r1)
    BY <2>9
  <2>11. f1 \o r2 \in Seq(WorkItems) /\ ToSet(f1 \o r2) = ToSet(f1) \cup ToSet(r2)
    <3>1. f1 \in Seq(WorkItems) /\ r2 \in Seq(WorkItems)
      BY <2>8, <2>10
    <3> QED
      BY <3>1, OfConcat, Zenon
  <2>12. f1 \o r2 = Front(q) \o Items(SetToSeq(Down(es, step.id)), FALSE) \o Items(ups, TRUE)
    BY <1>6, <2>2, <2>7, <2>8, <2>10, Zenon
  <2>13. CascadeStep(acc).queue = f1 \o r2 /\ CascadeStep(acc).es = Spread(es, step.id)
         /\ CascadeStep(acc).changed = acc.changed \cup Down(es, step.id)
    <3>1. PICK e2 : e2 = Spread(es, step.id)
      OBVIOUS
    <3>2. PICK c2 : c2 = acc.changed \cup Down(es, step.id)
      OBVIOUS
    <3>3. PICK q2 : q2 = f1 \o r2
      OBVIOUS
    <3>4. CascadeStep(acc) = [es |-> e2, queue |-> q2, changed |-> c2]
      BY <2>1, <2>12, <3>1, <3>2, <3>3, Zenon
    <3>5. CascadeStep(acc).es = e2 /\ CascadeStep(acc).queue = q2 /\ CascadeStep(acc).changed = c2
      BY <3>4
    <3> QED
      BY <3>1, <3>2, <3>3, <3>5, Zenon
  <2>14. ToSet(CascadeStep(acc).queue) =
           rest \cup {Item(c, FALSE) : c \in Down(es, step.id)} \cup UpItem(es, step.id)
    BY <2>2, <2>7, <2>8, <2>10, <2>11, <2>13, Zenon
  <2>15. CascadeStep(acc).queue \in Seq(WorkItems)
    BY <2>11, <2>13, Zenon
  <2> QED
    BY <1>3, <1>4, <1>9, <2>13, <2>14, <2>15, Zenon DEF Turned
<1> QED
  BY <1>5, <1>7, <1>8, <1>9

\* Two boards that differ in states only.
SameTree(es, e2) ==
    \A x \in Entries : /\ Has(e2, x) <=> Has(es, x)
                       /\ Has(es, x) => /\ e2[x].parent = es[x].parent
                                        /\ e2[x].holder = es[x].holder
                                        /\ e2[x].trash = es[x].trash

LEMMA SameTreeLive ==
    ASSUME NEW es, NEW e2, SameTree(es, e2)
    PROVE  /\ \A x \in Entries : Live(e2, x) <=> Live(es, x)
           /\ \A x : liveChildren(e2, x) = liveChildren(es, x)
<1>1. \A x \in Entries : Live(e2, x) <=> Live(es, x)
  BY DEF SameTree, Live
<1>2. \A x : \A c \in Entries : Live(e2, c) /\ e2[c].parent = x <=> Live(es, c) /\ es[c].parent = x
  BY <1>1 DEF SameTree, Live
<1> QED
  BY <1>1, <1>2 DEF liveChildren

LEMMA StateSet ==
    ASSUME NEW es \in Boards, NEW i \in Entries, Live(es, i), NEW st \in BoardStates
    PROVE  /\ Settle(es, i, st) \in Boards /\ SameTree(es, Settle(es, i, st))
           /\ Settle(es, i, st)[i].state = st
           /\ \A x \in Entries \ {i} : Settle(es, i, st)[x] = es[x]
<1> DEFINE e2 == Settle(es, i, st)
<1>1. Has(es, i)
  BY DEF Live
<1>2. es[i].parent \in Entries \cup {NoParent} /\ es[i].holder \in BoardSessions \cup {Nobody}
      /\ es[i].trash \in {"live", "trashed", "expired"}
  BY <1>1, OnBoard, Zenon
<1>3. PICK e : e = WithState(es[i], st)
  OBVIOUS
<1>4. e \in EntryRecords /\ e # Absent /\ e.state = st /\ e.parent = es[i].parent
      /\ e.holder = es[i].holder /\ e.trash = es[i].trash
  BY <1>2, <1>3, EntryIs DEF WithState
<1>5. e2 = [es EXCEPT ![i] = e]
  BY <1>3 DEF Settle
<1>6. e2 \in Boards /\ e2[i] = e /\ \A x \in Entries \ {i} : e2[x] = es[x]
  BY <1>4, <1>5 DEF Boards
<1>7. SameTree(es, e2)
  BY <1>1, <1>4, <1>6 DEF SameTree, Has
<1> QED
  BY <1>4, <1>6, <1>7

LEMMA StatesSpread ==
    ASSUME NEW es \in Boards, NEW i \in Entries, Live(es, i)
    PROVE  /\ Spread(es, i) \in Boards /\ SameTree(es, Spread(es, i))
           /\ Down(es, i) \in SUBSET Entries
           /\ \A x \in Entries \ Down(es, i) : Spread(es, i)[x] = es[x]
           /\ \A x \in Down(es, i) : /\ Spread(es, i)[x].state = es[i].state
                                     /\ Live(es, x) /\ es[x].parent = i
                                     /\ isTerminal(es[i].state) /\ ~isTerminal(es[x].state)
           /\ \A c \in liveChildren(es, i) :
                isTerminal(es[i].state) /\ ~isTerminal(es[c].state) => c \in Down(es, i)
<1>1. es[i].state \in BoardStates
  BY OnBoard DEF Live
<1>2. Down(es, i) \in SUBSET Entries
      /\ \A x \in Down(es, i) : Live(es, x) /\ es[x].parent = i
                                /\ isTerminal(es[i].state) /\ ~isTerminal(es[x].state)
  BY DEF Down, liveChildren
<1>3. \A c \in liveChildren(es, i) :
        isTerminal(es[i].state) /\ ~isTerminal(es[c].state) => c \in Down(es, i)
  BY DEF Down
<1>4. ASSUME NEW x \in Down(es, i)
      PROVE  /\ Spread(es, i)[x] \in EntryRecords /\ Spread(es, i)[x] # Absent
             /\ Spread(es, i)[x].state = es[i].state
             /\ Spread(es, i)[x].parent = es[x].parent
             /\ Spread(es, i)[x].holder = es[x].holder /\ Spread(es, i)[x].trash = es[x].trash
  <2>1. x \in Entries /\ Has(es, x)
    BY <1>2 DEF Live
  <2>2. es[x].parent \in Entries \cup {NoParent} /\ es[x].holder \in BoardSessions \cup {Nobody}
        /\ es[x].trash \in {"live", "trashed", "expired"}
    BY <2>1, OnBoard, Zenon
  <2>3. Spread(es, i)[x] = WithState(es[x], es[i].state)
    BY <2>1 DEF Spread
  <2> QED
    BY <1>1, <2>2, <2>3, EntryIs DEF WithState
<1>5. \A x \in Entries \ Down(es, i) : Spread(es, i)[x] = es[x]
  BY DEF Spread
<1>6. Spread(es, i) \in Boards
  <2>1. \A x \in Entries : Spread(es, i)[x] \in EntryRecords \cup {Absent}
    BY <1>4, <1>5 DEF Boards
  <2>2. Spread(es, i) = [x \in Entries |-> Spread(es, i)[x]]
    BY DEF Spread
  <2> QED
    BY <2>1, <2>2 DEF Boards
<1>7. SameTree(es, Spread(es, i))
  <2> SUFFICES ASSUME NEW x \in Entries
               PROVE  /\ Has(Spread(es, i), x) <=> Has(es, x)
                      /\ Has(es, x) => /\ Spread(es, i)[x].parent = es[x].parent
                                       /\ Spread(es, i)[x].holder = es[x].holder
                                       /\ Spread(es, i)[x].trash = es[x].trash
    BY DEF SameTree
  <2>1. CASE x \in Down(es, i)
    BY <1>2, <1>4, <2>1 DEF Has, Live
  <2>2. CASE x \notin Down(es, i)
    BY <1>5, <2>2 DEF Has
  <2> QED
    BY <2>1, <2>2
<1> QED
  BY <1>2, <1>3, <1>4, <1>5, <1>6, <1>7

LEMMA SettledIs ==
    ASSUME NEW es \in Boards, NEW id \in Entries, Live(es, id),
           NEW st, st = settledState(es, id)
    PROVE  /\ st \in BoardStates
           /\ \A c \in liveChildren(es, id) :
                isTerminal(es[id].state) /\ ~isTerminal(es[c].state) => st # es[id].state
           /\ st # es[id].state =>
                \/ isTerminal(st)
                \/ \E c \in liveChildren(es, id) : ~isTerminal(es[c].state)
           /\ \A c \in liveChildren(es, id) :
                st = es[id].state /\ ~isTerminal(es[id].state) =>
                  \E d \in liveChildren(es, id) : ~isTerminal(es[d].state)
<1>1. es[id].state \in BoardStates
  BY OnBoard DEF Live
<1> DEFINE kids == liveChildren(es, id)
           finished == \A c \in kids : isTerminal(es[c].state)
<1>2. st = CASE kids # {} /\ finished /\ ~isTerminal(es[id].state) ->
                  IF \E c \in kids : es[c].state = "done" THEN "done" ELSE "cancelled"
             [] ~finished /\ isTerminal(es[id].state) -> "open"
             [] OTHER                                 -> es[id].state
  BY DEF settledState
<1>3. isTerminal("done") /\ isTerminal("cancelled") /\ ~isTerminal("open")
  BY DEF isTerminal
<1>4. CASE kids = {}
  <2>1. st = es[id].state
    BY <1>2, <1>4, <1>3
  <2> QED
    BY <1>1, <1>4, <2>1
<1>5. CASE kids # {} /\ finished /\ ~isTerminal(es[id].state)
  <2>1. st \in {"done", "cancelled"}
    BY <1>2, <1>5
  <2> QED
    BY <1>3, <1>5, <2>1 DEF BoardStates
<1>6. CASE kids # {} /\ ~finished /\ isTerminal(es[id].state)
  <2>1. st = "open"
    BY <1>2, <1>6
  <2> QED
    BY <1>3, <1>6, <2>1 DEF BoardStates
<1>7. CASE kids # {} /\ ~(finished /\ ~isTerminal(es[id].state)) /\ ~(~finished /\ isTerminal(es[id].state))
  <2>1. st = es[id].state
    BY <1>2, <1>7
  <2> QED
    BY <1>1, <1>7, <2>1
<1> QED
  BY <1>4, <1>5, <1>6, <1>7

\* Unfinished work under something finished is still on the work list: its parent,
\* or itself to ask its parent.
Pending(es, Q) ==
    \A c \in Entries : \A p \in Entries :
        Live(es, c) /\ es[c].parent = p /\ Live(es, p)
          /\ isTerminal(es[p].state) /\ ~isTerminal(es[c].state) =>
            \E w \in Q : w.id = p \/ (w.id = c /\ ~w.derive)

\* An entry of E that is open has an open child, or it or a child is on the list.
Reopened(es, Q, E) ==
    \A id \in E : Live(es, id) /\ ~isTerminal(es[id].state) =>
        \E c \in liveChildren(es, id) :
            \/ ~isTerminal(es[c].state)
            \/ \E w \in Q : (w.id = id /\ w.derive) \/ (w.id = c /\ ~w.derive)

LEMMA SkipPending ==
    ASSUME NEW es \in Boards, NEW R, NEW step \in WorkItems, Pending(es, R \cup {step}),
           ~Live(es, step.id) \/ (step.derive /\ settledState(es, step.id) = es[step.id].state)
    PROVE  Pending(es, R)
<1> SUFFICES ASSUME NEW c \in Entries, NEW p \in Entries, Live(es, c), es[c].parent = p, Live(es, p),
                    isTerminal(es[p].state), ~isTerminal(es[c].state)
             PROVE  \E w \in R : w.id = p \/ (w.id = c /\ ~w.derive)
  BY ZenonT(30) DEF Pending
<1>1. PICK w \in R \cup {step} : w.id = p \/ (w.id = c /\ ~w.derive)
  BY ZenonT(30) DEF Pending
<1>2. CASE w = step
  <2>1. step.id = p /\ step.derive /\ settledState(es, p) = es[p].state
    BY <1>1, <1>2
  <2>2. c \in liveChildren(es, p)
    BY DEF liveChildren
  <2>3. settledState(es, p) # es[p].state
    BY <2>2, SettledIs
  <2> QED
    BY <2>1, <2>3
<1> QED
  BY <1>1, <1>2

LEMMA SettlePending ==
    ASSUME NEW es \in Boards, NEW R, NEW i \in Entries, Pending(es, R \cup {Item(i, TRUE)}),
           NEW st \in BoardStates, Live(es, i)
    PROVE  Pending(Settle(es, i, st), R \cup {Item(i, FALSE)})
<1> DEFINE e2 == Settle(es, i, st)
<1> SUFFICES ASSUME NEW c \in Entries, NEW p \in Entries, Live(e2, c), e2[c].parent = p, Live(e2, p),
                    isTerminal(e2[p].state), ~isTerminal(e2[c].state)
             PROVE  \E w \in R \cup {Item(i, FALSE)} : w.id = p \/ (w.id = c /\ ~w.derive)
  BY ZenonT(30) DEF Pending
<1>1. SameTree(es, e2) /\ \A x \in Entries \ {i} : e2[x] = es[x]
  <2>1. e2 \in Boards /\ SameTree(es, e2)
        /\ e2[i].state = st /\ \A x \in Entries \ {i} : e2[x] = es[x]
    BY StateSet
  <2> QED
    BY <2>1
<1>2. Live(es, c) /\ es[c].parent = p /\ Live(es, p)
  BY <1>1, SameTreeLive DEF SameTree, Live
<1>3. CASE c = i \/ p = i
  <2>1. Item(i, FALSE).id = i /\ ~Item(i, FALSE).derive
    BY ItemIs
  <2>2. Item(i, FALSE) \in R \cup {Item(i, FALSE)}
    OBVIOUS
  <2> QED
    BY <1>3, <2>1, <2>2, Zenon
<1>4. CASE c # i /\ p # i
  <2>1. es[c] = e2[c] /\ es[p] = e2[p]
    BY <1>1, <1>4
  <2>2. PICK w \in R \cup {Item(i, TRUE)} : w.id = p \/ (w.id = c /\ ~w.derive)
    BY <1>2, <2>1 DEF Pending
  <2>3. Item(i, TRUE).id = i /\ Item(i, TRUE).derive
    BY ItemIs
  <2>4. w \in R
    BY <1>4, <2>2, <2>3
  <2> QED
    BY <2>2, <2>4
<1> QED
  BY <1>3, <1>4

LEMMA SpreadPending ==
    ASSUME NEW es \in Boards, NEW R, NEW i \in Entries, Pending(es, R \cup {Item(i, FALSE)}), Live(es, i),
           NoParent \notin Entries
    PROVE  Pending(Spread(es, i), R \cup {Item(c, FALSE) : c \in Down(es, i)} \cup UpItem(es, i))
<1> DEFINE e2 == Spread(es, i)
           Q2 == R \cup {Item(c, FALSE) : c \in Down(es, i)} \cup UpItem(es, i)
<1> SUFFICES ASSUME NEW c \in Entries, NEW p \in Entries, Live(e2, c), e2[c].parent = p, Live(e2, p),
                    isTerminal(e2[p].state), ~isTerminal(e2[c].state)
             PROVE  \E w \in Q2 : w.id = p \/ (w.id = c /\ ~w.derive)
  BY ZenonT(30) DEF Pending
<1>1. /\ SameTree(es, e2) /\ Down(es, i) \in SUBSET Entries
      /\ \A x \in Entries \ Down(es, i) : e2[x] = es[x]
      /\ \A x \in Down(es, i) : e2[x].state = es[i].state /\ isTerminal(es[i].state)
      /\ \A x \in liveChildren(es, i) :
            isTerminal(es[i].state) /\ ~isTerminal(es[x].state) => x \in Down(es, i)
  BY StatesSpread
<1>2. Live(es, c) /\ es[c].parent = p /\ Live(es, p)
  BY <1>1, SameTreeLive DEF SameTree, Live
<1>3. c \notin Down(es, i) /\ es[c] = e2[c]
  BY <1>1
<1>4. CASE p \in Down(es, i)
  <2>1. Item(p, FALSE) \in Q2
    BY <1>4
  <2> QED
    BY <2>1, ItemIs
<1>5. CASE p \notin Down(es, i)
  <2>1. es[p] = e2[p]
    BY <1>1, <1>5
  <2>2. PICK w \in R \cup {Item(i, FALSE)} : w.id = p \/ (w.id = c /\ ~w.derive)
    BY <1>2, <1>3, <2>1 DEF Pending
  <2>3. CASE w \in R
    BY <2>2, <2>3
  <2>4. CASE w = Item(i, FALSE)
    <3>1. i = p \/ i = c
      BY <2>2, <2>4, ItemIs
    <3>2. CASE i = p
      <4>1. c \in liveChildren(es, i)
        BY <1>2, <3>2 DEF liveChildren
      <4> QED
        BY <1>1, <1>3, <2>1, <3>2, <4>1
    <3>3. CASE i = c
      <4>1. Item(p, TRUE) \in Q2
        BY <1>2, <3>3 DEF UpItem
      <4> QED
        BY <4>1, ItemIs
    <3> QED
      BY <3>1, <3>2, <3>3
  <2> QED
    BY <2>2, <2>3, <2>4
<1> QED
  BY <1>4, <1>5

LEMMA SkipReopened ==
    ASSUME NEW es \in Boards, NEW R, NEW step \in WorkItems, NEW E \in SUBSET Entries,
           Reopened(es, R \cup {step}, E),
           ~Live(es, step.id) \/ (step.derive /\ settledState(es, step.id) = es[step.id].state)
    PROVE  Reopened(es, R, E)
<1> SUFFICES ASSUME NEW id \in E, Live(es, id), ~isTerminal(es[id].state)
             PROVE  \E c \in liveChildren(es, id) :
                       \/ ~isTerminal(es[c].state)
                       \/ \E w \in R : (w.id = id /\ w.derive) \/ (w.id = c /\ ~w.derive)
  BY ZenonT(30) DEF Reopened
<1>1. PICK c \in liveChildren(es, id) :
         \/ ~isTerminal(es[c].state)
         \/ \E w \in R \cup {step} : (w.id = id /\ w.derive) \/ (w.id = c /\ ~w.derive)
  BY ZenonT(30) DEF Reopened
<1>2. CASE ~isTerminal(es[c].state)
  BY <1>2
<1>3. CASE \E w \in R \cup {step} : (w.id = id /\ w.derive) \/ (w.id = c /\ ~w.derive)
  <2>1. PICK w \in R \cup {step} : (w.id = id /\ w.derive) \/ (w.id = c /\ ~w.derive)
    BY <1>3
  <2>2. CASE w \in R
    BY <2>1, <2>2
  <2>3. CASE w = step
    <3>1. Live(es, c)
      BY DEF liveChildren
    <3>2. step.id = id /\ step.derive /\ settledState(es, id) = es[id].state
      BY <2>1, <2>3, <3>1
    <3>3. \E d \in liveChildren(es, id) : ~isTerminal(es[d].state)
      BY <3>2, SettledIs
    <3> QED
      BY <3>3
  <2> QED
    BY <2>1, <2>2, <2>3
<1> QED
  BY <1>1, <1>2, <1>3

LEMMA SettleReopened ==
    ASSUME NEW es \in Boards, NEW R, NEW i \in Entries, NEW E \in SUBSET Entries,
           Reopened(es, R \cup {Item(i, TRUE)}, E),
           NEW st, st = settledState(es, i), st # es[i].state, Live(es, i)
    PROVE  Reopened(Settle(es, i, st), R \cup {Item(i, FALSE)}, E)
<1> DEFINE e2 == Settle(es, i, st)
<1> SUFFICES ASSUME NEW id \in E, Live(e2, id), ~isTerminal(e2[id].state)
             PROVE  \E c \in liveChildren(e2, id) :
                       \/ ~isTerminal(e2[c].state)
                       \/ \E w \in R \cup {Item(i, FALSE)} : (w.id = id /\ w.derive) \/ (w.id = c /\ ~w.derive)
  BY ZenonT(30) DEF Reopened
<1>1. st \in BoardStates /\ (isTerminal(st) \/ \E d \in liveChildren(es, i) : ~isTerminal(es[d].state))
  BY SettledIs
<1>2. SameTree(es, e2) /\ e2[i].state = st /\ \A x \in Entries \ {i} : e2[x] = es[x]
  <2>1. e2 \in Boards /\ SameTree(es, e2)
        /\ e2[i].state = st /\ \A x \in Entries \ {i} : e2[x] = es[x]
    BY <1>1, StateSet
  <2> QED
    BY <2>1
<1>3. Live(es, id) /\ \A x : liveChildren(e2, x) = liveChildren(es, x)
  BY <1>2, SameTreeLive
<1>4. liveChildren(es, id) \subseteq Entries
  BY DEF liveChildren
<1>5. CASE id = i
  <2>1. PICK d \in liveChildren(es, i) : ~isTerminal(es[d].state)
    BY <1>1, <1>2, <1>5
  <2>2. ~isTerminal(e2[d].state)
    BY <1>2, <1>4, <1>5, <2>1
  <2> QED
    BY <1>3, <1>5, <2>1, <2>2
<1>6. CASE id # i
  <2>1. ~isTerminal(es[id].state)
    BY <1>2, <1>6
  <2>2. PICK c \in liveChildren(es, id) :
           \/ ~isTerminal(es[c].state)
           \/ \E w \in R \cup {Item(i, TRUE)} : (w.id = id /\ w.derive) \/ (w.id = c /\ ~w.derive)
    BY <1>3, <2>1 DEF Reopened
  <2>3. CASE c = i
    <3>1. Item(i, FALSE) \in R \cup {Item(i, FALSE)} /\ Item(i, FALSE).id = c /\ ~Item(i, FALSE).derive
      BY <2>3, ItemIs
    <3> QED
      BY <1>3, <2>2, <3>1
  <2>4. CASE c # i /\ ~isTerminal(es[c].state)
    <3>1. e2[c] = es[c]
      BY <1>2, <1>4, <2>4
    <3> QED
      BY <1>3, <2>4, <3>1
  <2>5. CASE c # i /\ \E w \in R \cup {Item(i, TRUE)} : (w.id = id /\ w.derive) \/ (w.id = c /\ ~w.derive)
    <3>1. PICK w \in R \cup {Item(i, TRUE)} : (w.id = id /\ w.derive) \/ (w.id = c /\ ~w.derive)
      BY <2>5
    <3>2. w \in R
      BY <1>6, <3>1, ItemIs
    <3> QED
      BY <1>3, <3>1, <3>2
  <2> QED
    BY <2>2, <2>3, <2>4, <2>5
<1> QED
  BY <1>5, <1>6

LEMMA SpreadReopened ==
    ASSUME NEW es \in Boards, NEW R, NEW i \in Entries, NEW E \in SUBSET Entries,
           Reopened(es, R \cup {Item(i, FALSE)}, E), Live(es, i), NoParent \notin Entries
    PROVE  Reopened(Spread(es, i), R \cup {Item(c, FALSE) : c \in Down(es, i)} \cup UpItem(es, i), E)
<1> DEFINE e2 == Spread(es, i)
           Q2 == R \cup {Item(c, FALSE) : c \in Down(es, i)} \cup UpItem(es, i)
<1> SUFFICES ASSUME NEW id \in E, Live(e2, id), ~isTerminal(e2[id].state)
             PROVE  \E c \in liveChildren(e2, id) :
                       \/ ~isTerminal(e2[c].state)
                       \/ \E w \in Q2 : (w.id = id /\ w.derive) \/ (w.id = c /\ ~w.derive)
  BY ZenonT(30) DEF Reopened
<1>1. /\ SameTree(es, e2) /\ Down(es, i) \in SUBSET Entries
      /\ \A x \in Entries \ Down(es, i) : e2[x] = es[x]
      /\ \A x \in Down(es, i) : e2[x].state = es[i].state /\ isTerminal(es[i].state)
  BY StatesSpread
<1>2. Live(es, id) /\ \A x : liveChildren(e2, x) = liveChildren(es, x)
  BY <1>1, SameTreeLive
<1>3. liveChildren(es, id) \subseteq Entries /\ \A c \in liveChildren(es, id) : es[c].parent = id
  BY DEF liveChildren
<1>4. ~isTerminal(es[id].state)
  BY <1>1
<1>5. PICK c \in liveChildren(es, id) :
         \/ ~isTerminal(es[c].state)
         \/ \E w \in R \cup {Item(i, FALSE)} : (w.id = id /\ w.derive) \/ (w.id = c /\ ~w.derive)
  BY <1>2, <1>4 DEF Reopened
<1>6. CASE c \in Down(es, i)
  <2>1. Item(c, FALSE) \in Q2 /\ Item(c, FALSE).id = c /\ ~Item(c, FALSE).derive
    BY <1>6, ItemIs
  <2> QED
    BY <1>2, <1>5, <2>1
<1>7. CASE c \notin Down(es, i) /\ ~isTerminal(es[c].state)
  <2>1. e2[c] = es[c]
    BY <1>1, <1>3, <1>7
  <2> QED
    BY <1>2, <1>7, <2>1
<1>8. CASE \E w \in R \cup {Item(i, FALSE)} : (w.id = id /\ w.derive) \/ (w.id = c /\ ~w.derive)
  <2>1. PICK w \in R \cup {Item(i, FALSE)} : (w.id = id /\ w.derive) \/ (w.id = c /\ ~w.derive)
    BY <1>8
  <2>2. CASE w \in R
    BY <1>2, <2>1, <2>2
  <2>3. CASE w = Item(i, FALSE)
    <3>1. i = c
      BY <2>1, <2>3, ItemIs
    <3>2. Item(id, TRUE) \in Q2 /\ Item(id, TRUE).id = id /\ Item(id, TRUE).derive
      BY <1>3, <3>1, ItemIs DEF UpItem
    <3> QED
      BY <1>2, <3>2
  <2> QED
    BY <2>1, <2>2, <2>3
<1> QED
  BY <1>5, <1>6, <1>7, <1>8

\* What a turn of the cascade keeps.
LEMMA TurnKeeps ==
    ASSUME NEW acc, WorkOK(acc), IsFiniteSet(Entries), NoParent \notin Entries,
           NEW E \in SUBSET Entries, NEW next, next = CascadeStep(acc)
    PROVE  /\ WorkOK(next) /\ SameTree(acc.es, next.es)
           /\ acc.changed \subseteq next.changed
           /\ \A x \in Entries \ next.changed : next.es[x] = acc.es[x]
           /\ Pending(acc.es, ToSet(acc.queue)) => Pending(next.es, ToSet(next.queue))
           /\ Reopened(acc.es, ToSet(acc.queue), E) => Reopened(next.es, ToSet(next.queue), E)
<1>1. CASE acc.queue = << >>
  <2>1. next = acc
    BY <1>1 DEF CascadeStep
  <2>2. SameTree(acc.es, acc.es)
    BY DEF SameTree
  <2> QED
    BY <2>1, <2>2
<1>2. CASE acc.queue # << >>
  <2>1. PICK es : es = acc.es /\ es \in Boards
    BY DEF WorkOK
  <2>2. PICK rest : rest = ToSet(Front(acc.queue))
    OBVIOUS
  <2>3. PICK step : step = Last(acc.queue)
    OBVIOUS
  <2>4. PICK Q2 : Q2 = ToSet(next.queue)
    OBVIOUS
  <2> DEFINE st == settledState(es, step.id)
  <2>5. /\ step \in WorkItems /\ ToSet(acc.queue) = rest \cup {step} /\ rest \subseteq WorkItems
        /\ next.queue \in Seq(WorkItems)
        /\ \/ /\ ~Live(es, step.id) \/ (step.derive /\ st = es[step.id].state)
              /\ next.es = es /\ next.changed = acc.changed /\ Q2 = rest
           \/ /\ Live(es, step.id) /\ step.derive /\ st # es[step.id].state
              /\ next.es = Settle(es, step.id, st) /\ next.changed = acc.changed \cup {step.id}
              /\ Q2 = rest \cup {Item(step.id, FALSE)}
           \/ /\ Live(es, step.id) /\ ~step.derive
              /\ next.es = Spread(es, step.id) /\ next.changed = acc.changed \cup Down(es, step.id)
              /\ Q2 = rest \cup {Item(c, FALSE) : c \in Down(es, step.id)} \cup UpItem(es, step.id)
    <3>1. /\ step \in WorkItems /\ ToSet(acc.queue) = rest \cup {step} /\ rest \subseteq WorkItems
          /\ CascadeStep(acc).queue \in Seq(WorkItems)
          /\ Turned(acc.es, acc.changed, CascadeStep(acc), step, rest)
      BY <1>2, <2>2, <2>3, TurnIs
    <3>2. Turned(es, acc.changed, next, step, rest)
      BY <2>1, <3>1, Zenon
    <3> QED
      BY <2>4, <3>1, <3>2, Zenon DEF Turned
  <2>6. step.id \in Entries /\ step.derive \in BOOLEAN /\ step = Item(step.id, step.derive)
        /\ acc.changed \in SUBSET Entries
    BY <2>5 DEF WorkItems, Item, WorkOK
  <2>7. SUFFICES /\ next.es \in Boards /\ next.changed \in SUBSET Entries
                 /\ SameTree(es, next.es) /\ acc.changed \subseteq next.changed
                 /\ \A x \in Entries \ next.changed : next.es[x] = es[x]
                 /\ Pending(es, rest \cup {step}) => Pending(next.es, Q2)
                 /\ Reopened(es, rest \cup {step}, E) => Reopened(next.es, Q2, E)
    BY <2>1, <2>4, <2>5 DEF WorkOK
  <2>8. CASE /\ ~Live(es, step.id) \/ (step.derive /\ st = es[step.id].state)
             /\ next.es = es /\ next.changed = acc.changed /\ Q2 = rest
    <3>1. SameTree(es, es)
      BY DEF SameTree
    <3>2. Pending(es, rest \cup {step}) => Pending(es, rest)
      BY <2>1, <2>5, <2>8, SkipPending
    <3>3. Reopened(es, rest \cup {step}, E) => Reopened(es, rest, E)
      BY <2>1, <2>5, <2>8, SkipReopened
    <3> QED
      BY <2>1, <2>6, <2>8, <3>1, <3>2, <3>3
  <2>9. CASE /\ Live(es, step.id) /\ step.derive /\ st # es[step.id].state
             /\ next.es = Settle(es, step.id, st) /\ next.changed = acc.changed \cup {step.id}
             /\ Q2 = rest \cup {Item(step.id, FALSE)}
    <3>1. PICK i \in Entries : i = step.id
      BY <2>6
    <3>2. PICK s : s = settledState(es, i)
      OBVIOUS
    <3>3. Live(es, i) /\ s # es[i].state /\ step = Item(i, TRUE)
      BY <2>6, <2>9, <3>1, <3>2
    <3>4. s \in BoardStates
      BY <2>1, <3>2, <3>3, SettledIs
    <3>5. Settle(es, i, s) \in Boards /\ SameTree(es, Settle(es, i, s))
          /\ \A x \in Entries \ {i} : Settle(es, i, s)[x] = es[x]
      BY <2>1, <3>3, <3>4, StateSet
    <3>6. Pending(es, rest \cup {Item(i, TRUE)}) => Pending(Settle(es, i, s), rest \cup {Item(i, FALSE)})
      BY <2>1, <3>3, <3>4, SettlePending
    <3>7. Reopened(es, rest \cup {Item(i, TRUE)}, E) =>
            Reopened(Settle(es, i, s), rest \cup {Item(i, FALSE)}, E)
      BY <2>1, <3>2, <3>3, SettleReopened
    <3>8. next.es = Settle(es, i, s) /\ next.changed = acc.changed \cup {i} /\ Q2 = rest \cup {Item(i, FALSE)}
      BY <2>9, <3>1, <3>2
    <3> QED
      BY <2>6, <3>3, <3>5, <3>6, <3>7, <3>8
  <2>10. CASE /\ Live(es, step.id) /\ ~step.derive
              /\ next.es = Spread(es, step.id) /\ next.changed = acc.changed \cup Down(es, step.id)
              /\ Q2 = rest \cup {Item(c, FALSE) : c \in Down(es, step.id)} \cup UpItem(es, step.id)
    <3>1. PICK i \in Entries : i = step.id
      BY <2>6
    <3>2. Live(es, i) /\ step = Item(i, FALSE)
      BY <2>6, <2>10, <3>1
    <3>3. Spread(es, i) \in Boards /\ SameTree(es, Spread(es, i)) /\ Down(es, i) \in SUBSET Entries
          /\ \A x \in Entries \ Down(es, i) : Spread(es, i)[x] = es[x]
      BY <2>1, <3>2, StatesSpread
    <3>4. Q2 = rest \cup {Item(c, FALSE) : c \in Down(es, i)} \cup UpItem(es, i)
          /\ next.es = Spread(es, i) /\ next.changed = acc.changed \cup Down(es, i)
      BY <2>10, <3>1, Zenon
    <3>5. Pending(es, rest \cup {Item(i, FALSE)}) =>
            Pending(Spread(es, i), rest \cup {Item(c, FALSE) : c \in Down(es, i)} \cup UpItem(es, i))
      BY <2>1, <3>2, SpreadPending
    <3>6. Reopened(es, rest \cup {Item(i, FALSE)}, E) =>
            Reopened(Spread(es, i), rest \cup {Item(c, FALSE) : c \in Down(es, i)} \cup UpItem(es, i), E)
      BY <2>1, <3>2, SpreadReopened
    <3>7. Pending(es, rest \cup {step}) => Pending(next.es, Q2)
      BY <3>2, <3>4, <3>5, Zenon
    <3>8. Reopened(es, rest \cup {step}, E) => Reopened(next.es, Q2, E)
      BY <3>2, <3>4, <3>6, Zenon
    <3>9. next.es \in Boards /\ SameTree(es, next.es) /\ next.changed \in SUBSET Entries
          /\ acc.changed \subseteq next.changed /\ \A x \in Entries \ next.changed : next.es[x] = es[x]
      <4>1. next.es = Spread(es, i) /\ next.changed = acc.changed \cup Down(es, i)
        BY <3>4
      <4> QED
        BY <2>6, <3>3, <4>1
    <3> QED
      BY <3>7, <3>8, <3>9
  <2> QED
    BY <2>5, <2>8, <2>9, <2>10
<1> QED
  BY <1>1, <1>2

Cascaded(es, written, out, E) ==
    /\ out.es \in Boards /\ SameTree(es, out.es)
    /\ out.changed \in SUBSET Entries
    /\ \A x \in Entries \ out.changed : out.es[x] = es[x]
    /\ out.queue = << >> /\ Pending(es, {Item(x, FALSE) : x \in ToSet(written)}) => Pending(out.es, {})
    /\ out.queue = << >> /\ Reopened(es, {}, E) => Reopened(out.es, {}, E)

\* What the cascade makes of a board: the same tree with other states, and when it
\* was not cut short, what was waiting for it is settled.
LEMMA CascadeKeeps ==
    ASSUME NEW es \in Boards, NEW written \in Seq(Entries), NEW orphaned \in Seq(Entries),
           IsFiniteSet(Entries), NoParent \notin Entries, NEW E \in SUBSET Entries,
           NEW out, out = applyCascade(es, written, orphaned)
    PROVE  Cascaded(es, written, out, E)
<1> USE DEF Cascaded
<1>1. PICK N \in Nat : N = Ceiling(es)
  <2> DEFINE T == {id \in Entries : Has(es, id)}
  <2>1. T \in SUBSET Entries
    OBVIOUS
  <2>2. Ceiling(es) = Cardinality(T) * 4 + 16
    BY DEF Ceiling
  <2> HIDE DEF T
  <2>3. IsFiniteSet(T)
    BY <2>1, FS_Subset
  <2>4. Cardinality(T) \in Nat
    BY <2>3, FS_CardinalityType
  <2> QED
    BY <2>2, <2>4
<1>2. PICK run : /\ run[0] = CascadeStart(es, written, orphaned)
                 /\ \A n \in 1 .. N : run[n] = CascadeStep(run[n - 1])
                 /\ applyCascade(es, written, orphaned) = run[N]
  BY <1>1, CascadeRuns
<1>3. PICK q : /\ q = Items(written, FALSE) \o Items(orphaned, TRUE) /\ q \in Seq(WorkItems)
               /\ {Item(x, FALSE) : x \in ToSet(written)} \subseteq ToSet(q)
  <2>1. TRUE \in BOOLEAN /\ FALSE \in BOOLEAN
    OBVIOUS
  <2>2. PICK q1 : q1 = Items(written, FALSE) /\ q1 \in Seq(WorkItems)
                  /\ ToSet(q1) = {[id |-> x, derive |-> FALSE] : x \in ToSet(written)}
    BY <2>1, OfItems, Zenon
  <2>3. PICK q2 : q2 = Items(orphaned, TRUE) /\ q2 \in Seq(WorkItems)
    BY <2>1, OfItems, Zenon
  <2>4. q1 \o q2 \in Seq(WorkItems) /\ ToSet(q1 \o q2) = ToSet(q1) \cup ToSet(q2)
    <3>1. q1 \in Seq(WorkItems) /\ q2 \in Seq(WorkItems)
      BY <2>2, <2>3
    <3> QED
      BY <3>1, OfConcat, Zenon
  <2>5. ToSet(q1) = {Item(x, FALSE) : x \in ToSet(written)}
    BY <2>2, Zenon DEF Item
  <2> QED
    BY <2>2, <2>3, <2>4, <2>5
<1>4. run[0].es = es /\ run[0].queue = q /\ run[0].changed = {}
  <2>1. run[0] = [es |-> es, queue |-> q, changed |-> {}]
    BY <1>2, <1>3, Zenon DEF CascadeStart
  <2> QED
    BY <2>1
<1> DEFINE S == ToSet(q)
           G == {n \in 0 .. N :
                   /\ WorkOK(run[n]) /\ SameTree(es, run[n].es)
                   /\ \A x \in Entries \ run[n].changed : run[n].es[x] = es[x]
                   /\ Pending(es, S) => Pending(run[n].es, ToSet(run[n].queue))
                   /\ Reopened(es, S, E) => Reopened(run[n].es, ToSet(run[n].queue), E)}
<1>5. 0 \in G
  <2>1. WorkOK(run[0])
    BY <1>3, <1>4 DEF WorkOK
  <2>2. SameTree(es, es)
    BY DEF SameTree
  <2> QED
    BY <1>1, <1>4, <2>1, <2>2
<1>6. ASSUME NEW n \in 1 .. N, n - 1 \in G PROVE n \in G
  <2>1. PICK a : a = run[n - 1]
    OBVIOUS
  <2>2. PICK b : b = run[n]
    OBVIOUS
  <2>3. b = CascadeStep(a)
    BY <1>2, <2>1, <2>2
  <2>4. /\ WorkOK(a) /\ SameTree(es, a.es)
        /\ \A x \in Entries \ a.changed : a.es[x] = es[x]
        /\ Pending(es, S) => Pending(a.es, ToSet(a.queue))
        /\ Reopened(es, S, E) => Reopened(a.es, ToSet(a.queue), E)
    BY <1>6, <2>1
  <2>5. /\ WorkOK(b) /\ SameTree(a.es, b.es)
        /\ a.changed \subseteq b.changed
        /\ \A x \in Entries \ b.changed : b.es[x] = a.es[x]
        /\ Pending(a.es, ToSet(a.queue)) => Pending(b.es, ToSet(b.queue))
        /\ Reopened(a.es, ToSet(a.queue), E) => Reopened(b.es, ToSet(b.queue), E)
    <3> HIDE DEF G, S
    <3> QED BY <2>3, <2>4, TurnKeeps
  <2>6. SameTree(es, b.es) /\ \A x \in Entries \ b.changed : b.es[x] = es[x]
    BY <2>4, <2>5 DEF SameTree
  <2>7. n \in 0 .. N
    BY <1>1
  <2> QED
    BY <2>2, <2>4, <2>5, <2>6, <2>7
<1>7. N \in G
  <2> HIDE DEF G, S
  <2>1. \A n \in 0 .. N : n \in G
    BY <1>1, <1>5, <1>6, CountsUp
  <2> QED
    BY <1>1, <2>1
<1>8. out = run[N]
  BY <1>2
<1>9. Pending(es, {Item(x, FALSE) : x \in ToSet(written)}) => Pending(es, S)
  BY <1>3 DEF Pending
<1>10. Reopened(es, {}, E) => Reopened(es, S, E)
  BY DEF Reopened
<1>11. out.queue = << >> => ToSet(out.queue) = {}
  BY DEF ToSet
<1>12. /\ WorkOK(out) /\ SameTree(es, out.es)
       /\ \A x \in Entries \ out.changed : out.es[x] = es[x]
       /\ Pending(es, S) => Pending(out.es, ToSet(out.queue))
       /\ Reopened(es, S, E) => Reopened(out.es, ToSet(out.queue), E)
  BY <1>7, <1>8
<1> QED
  BY <1>9, <1>10, <1>11, <1>12 DEF WorkOK

LEMMA OrphanedTyped ==
    ASSUME NEW prev \in Boards, NEW next, NEW touched \in Seq(Entries)
    PROVE  orphanedParents(prev, next, touched) \in Seq(Entries)
<1>1. PICK N \in Nat : N = Len(touched)
  <2>1. Len(touched) \in Nat
    OBVIOUS
  <2> QED BY <2>1, Zenon
<1>2. PICK run : /\ run[0] = OrphanStart
                 /\ \A n \in 1 .. N : run[n] = OrphanStep(prev, next, run[n - 1], touched[n])
                 /\ orphanedParents(prev, next, touched) = run[N]
  <2>1. PICK run : OrphanRun(run, N, prev, next, touched) /\ orphanedParents(prev, next, touched) = run[N]
    BY <1>1, OrphanedRuns
  <2> QED
    BY <2>1, Zenon DEF OrphanRun
<1> DEFINE G == {n \in 0 .. N : run[n] \in Seq(Entries)}
<1>3. 0 \in G
  <2>1. OrphanStart \in Seq(Entries)
    BY DEF OrphanStart
  <2> QED
    BY <1>1, <1>2, <2>1
<1>4. ASSUME NEW n \in 1 .. N, n - 1 \in G PROVE n \in G
  <2>1. touched[n] \in Entries /\ n \in 0 .. N
    BY <1>1
  <2>2. Detached(prev, next, touched[n]) => prev[touched[n]].parent \in Entries
    <3>1. PICK x \in Entries : x = touched[n]
      BY <2>1
    <3>2. Detached(prev, next, x) => Has(prev, x) /\ prev[x].parent # NoParent
      BY DEF Detached, Live
    <3>3. Has(prev, x) => prev[x].parent \in Entries \cup {NoParent}
      BY OnBoard
    <3> QED
      BY <3>1, <3>2, <3>3
  <2>3. run[n - 1] \in Seq(Entries)
    BY <1>4
  <2>4. run[n] \in Seq(Entries)
    <3>1. CASE Detached(prev, next, touched[n])
      <4>1. PICK p \in Entries : p = prev[touched[n]].parent
        BY <2>2, <3>1
      <4>2. run[n] = Append(run[n - 1], p)
        BY <1>2, <3>1, <4>1 DEF OrphanStep
      <4>3. PICK r \in Seq(Entries) : r = run[n - 1]
        BY <2>3
      <4>4. Append(r, p) \in Seq(Entries)
        BY OfAppend
      <4> QED
        BY <4>2, <4>3, <4>4
    <3>2. CASE ~Detached(prev, next, touched[n])
      <4>1. run[n] = run[n - 1]
        BY <1>2, <3>2 DEF OrphanStep
      <4> QED
        BY <2>3, <4>1
    <3> QED
      BY <3>1, <3>2
  <2> QED
    BY <2>1, <2>4
<1>5. N \in G
  <2> HIDE DEF G
  <2>1. \A n \in 0 .. N : n \in G
    BY <1>1, <1>3, <1>4, CountsUp
  <2> QED
    BY <1>1, <2>1
<1> QED
  BY <1>2, <1>5

-----------------------------------------------------------------------------
(* What a batch does *)

\* An operation none of whose reasons speaks against it.
LEMMA FirstOk ==
    ASSUME NEW n \in Nat, NEW reasons, DOMAIN reasons = 1 .. n, First(reasons) = "ok"
    PROVE  \A i \in 1 .. n : reasons[i] = "ok"
<1> SUFFICES ASSUME \E i \in 1 .. n : reasons[i] # "ok" PROVE FALSE
  OBVIOUS
<1> DEFINE T == {i \in 1 .. n : reasons[i] # "ok"}
<1>1. T \in SUBSET Nat /\ T # {}
  OBVIOUS
<1>2. PICK m \in T : \A k \in T : m <= k
  <2> HIDE DEF T
  <2> QED BY <1>1, Least
<1>3. m \in DOMAIN reasons /\ reasons[m] # "ok" /\ \A j \in 1 .. m - 1 : reasons[j] = "ok"
  BY <1>2
<1> DEFINE c == CHOOSE i \in DOMAIN reasons : /\ reasons[i] # "ok"
                                              /\ \A j \in 1 .. i - 1 : reasons[j] = "ok"
<1>4. reasons[c] # "ok"
  <2>1. \E i \in DOMAIN reasons : /\ reasons[i] # "ok"
                                  /\ \A j \in 1 .. i - 1 : reasons[j] = "ok"
    BY <1>3
  <2> HIDE DEF T
  <2> QED
    BY <2>1, Zenon
<1>5. First(reasons) = reasons[c]
  <2>1. \E i \in DOMAIN reasons : reasons[i] # "ok"
    BY <1>3
  <2> QED
    BY <2>1, Zenon DEF First
<1> QED
  BY <1>4, <1>5

LEMMA OpIs ==
    ASSUME NEW op \in Operations
    PROVE  /\ op.id \in Entries
           /\ op.kind \in {"upsert", "remove", "set_session", "set_parent", "set_state", "trash",
                           "restore", "set_content"}
           /\ op.kind = "upsert" => /\ op.parent \in Entries \cup {NoParent} /\ op.state \in BoardStates
                                    /\ op.session \in BoardSessions \cup {Nobody} /\ op.trashed \in BOOLEAN
           /\ op.kind = "set_session" => op.session \in BoardSessions \cup {Nobody}
           /\ op.kind = "set_parent" => op.parent \in Entries \cup {NoParent}
           /\ op.kind = "set_state" => op.state \in BoardStates
<1>1. CASE op \in [kind : {"upsert"}, id : Entries, parent : Entries \cup {NoParent}, state : BoardStates,
                   session : BoardSessions \cup {Nobody}, sound : BOOLEAN, trashed : BOOLEAN]
  BY <1>1
<1>2. CASE op \in [kind : {"remove", "trash", "restore"}, id : Entries]
  BY <1>2
<1>3. CASE op \in [kind : {"set_state"}, id : Entries, state : BoardStates]
  BY <1>3
<1>4. CASE op \in [kind : {"set_parent"}, id : Entries, parent : Entries \cup {NoParent}]
  BY <1>4
<1>5. CASE op \in [kind : {"set_session"}, id : Entries, session : BoardSessions \cup {Nobody}]
  BY <1>5
<1>6. CASE op \in [kind : {"set_content"}, id : Entries, sound : BOOLEAN]
  BY <1>6
<1> QED
  BY <1>1, <1>2, <1>3, <1>4, <1>5, <1>6 DEF Operations


LEMMA EffectIs ==
    ASSUME NEW es \in Boards, NEW op \in Operations
    PROVE  /\ Effect(es, op) \in Boards
           /\ \A x \in Entries \ {op.id} : Effect(es, op)[x] = es[x]
           /\ op.kind # "remove" => Has(Effect(es, op), op.id)
           /\ op.kind # "remove" /\ Has(es, op.id) =>
                /\ op.kind \notin {"upsert", "set_state"} => Effect(es, op)[op.id].state = es[op.id].state
                /\ op.kind \notin {"upsert", "set_session"} => Effect(es, op)[op.id].holder = es[op.id].holder
                /\ op.kind \notin {"upsert", "trash", "restore"} => Effect(es, op)[op.id].trash = es[op.id].trash
                /\ op.kind = "set_state" => Effect(es, op)[op.id].state = op.state
                /\ op.kind = "set_session" => Effect(es, op)[op.id].holder = op.session
                /\ op.kind = "trash" => Effect(es, op)[op.id].trash = "trashed"
<1>1. PICK id \in Entries : id = op.id
  BY OpIs
<1>2. PICK e : e = IF Has(es, id) THEN es[id] ELSE Entry("open", NoParent, Nobody, "live")
  OBVIOUS
<1>3. e \in EntryRecords /\ e.state \in BoardStates /\ e.parent \in Entries \cup {NoParent}
      /\ e.holder \in BoardSessions \cup {Nobody} /\ e.trash \in {"live", "trashed", "expired"}
  <2>1. CASE Has(es, id)
    BY <1>2, <2>1, OnBoard
  <2>2. CASE ~Has(es, id)
    <3>1. PICK s \in BoardStates, p \in Entries \cup {NoParent},
               h \in BoardSessions \cup {Nobody}, t \in {"live", "trashed", "expired"} :
               s = "open" /\ p = NoParent /\ h = Nobody /\ t = "live"
      BY DEF BoardStates
    <3>2. e = Entry(s, p, h, t)
      BY <1>2, <2>2, <3>1
    <3> QED
      BY <3>2, EntryIs
  <2> QED
    BY <2>1, <2>2
<1>4. Has(es, id) => e = es[id]
  BY <1>2
<1>5. Absent \notin EntryRecords
  BY AbsentIsNone
<1> DEFINE w == CASE op.kind = "upsert" ->
                       Entry(op.state, IF op.parent = NoParent THEN e.parent ELSE op.parent,
                             IF op.session = Nobody THEN e.holder ELSE op.session,
                             IF op.trashed THEN "trashed" ELSE e.trash)
                  [] op.kind = "remove"      -> Absent
                  [] op.kind = "set_session" -> Entry(e.state, e.parent, op.session, e.trash)
                  [] op.kind = "set_parent"  -> Entry(e.state, op.parent, e.holder, e.trash)
                  [] op.kind = "set_state"   -> Entry(op.state, e.parent, e.holder, e.trash)
                  [] op.kind = "trash"       -> Entry(e.state, e.parent, e.holder, "trashed")
                  [] op.kind = "restore"     -> Entry(e.state, e.parent, e.holder, "live")
                  [] OTHER                   -> e
<1>6. Effect(es, op) = [es EXCEPT ![id] = w]
  BY <1>1, <1>2, Zenon DEF Effect
<1>7. /\ w \in EntryRecords \cup {Absent}
      /\ op.kind # "remove" => w \in EntryRecords
      /\ op.kind \notin {"upsert", "set_state", "remove"} => w.state = e.state
      /\ op.kind \notin {"upsert", "set_session", "remove"} => w.holder = e.holder
      /\ op.kind \notin {"upsert", "trash", "restore", "remove"} => w.trash = e.trash
      /\ op.kind = "set_state" => w.state = op.state
      /\ op.kind = "set_session" => w.holder = op.session
      /\ op.kind = "trash" => w.trash = "trashed"
  <2>1. CASE op.kind = "upsert"
    <3>1. PICK p \in Entries \cup {NoParent} : p = IF op.parent = NoParent THEN e.parent ELSE op.parent
      BY <1>3, <2>1, OpIs
    <3>2. PICK h \in BoardSessions \cup {Nobody} : h = IF op.session = Nobody THEN e.holder ELSE op.session
      BY <1>3, <2>1, OpIs
    <3>3. PICK t \in {"live", "trashed", "expired"} : t = IF op.trashed THEN "trashed" ELSE e.trash
      BY <1>3
    <3>4. op.state \in BoardStates
      BY <2>1, OpIs
    <3>5. w = Entry(op.state, p, h, t)
      BY <2>1, <3>1, <3>2, <3>3
    <3>6. w \in EntryRecords
      BY <3>4, <3>5, EntryIs
    <3> QED
      BY <2>1, <3>6
  <2>2. CASE op.kind = "remove"
    BY <2>2
  <2>3. CASE op.kind = "set_session"
    <3>1. op.session \in BoardSessions \cup {Nobody} /\ w = Entry(e.state, e.parent, op.session, e.trash)
      BY <2>3, OpIs
    <3> QED
      BY <1>3, <2>3, <3>1, EntryIs
  <2>4. CASE op.kind = "set_parent"
    <3>1. PICK p \in Entries \cup {NoParent} : p = op.parent
      BY <2>4, OpIs
    <3>2. PICK s \in BoardStates, h \in BoardSessions \cup {Nobody}, t \in {"live", "trashed", "expired"} :
             s = e.state /\ h = e.holder /\ t = e.trash
      BY <1>3
    <3>3. w = Entry(s, p, h, t)
      BY <2>4, <3>1, <3>2, Zenon
    <3>4. w \in EntryRecords /\ w.state = s /\ w.holder = h /\ w.trash = t
      BY <3>3, EntryIs
    <3> HIDE DEF w
    <3> QED
      BY <2>4, <3>2, <3>4
  <2>5. CASE op.kind = "set_state"
    <3>1. op.state \in BoardStates /\ w = Entry(op.state, e.parent, e.holder, e.trash)
      BY <2>5, OpIs
    <3> QED
      BY <1>3, <2>5, <3>1, EntryIs
  <2>6. CASE op.kind = "trash"
    <3>1. PICK s \in BoardStates, p \in Entries \cup {NoParent}, h \in BoardSessions \cup {Nobody},
               t \in {"live", "trashed", "expired"} : s = e.state /\ p = e.parent /\ h = e.holder /\ t = "trashed"
      BY <1>3
    <3>2. w = Entry(s, p, h, t)
      BY <2>6, <3>1, Zenon
    <3>3. w \in EntryRecords /\ w.state = s /\ w.holder = h /\ w.trash = t
      BY <3>2, EntryIs
    <3> HIDE DEF w
    <3> QED
      BY <2>6, <3>1, <3>3
  <2>7. CASE op.kind = "restore"
    <3>1. PICK s \in BoardStates, p \in Entries \cup {NoParent}, h \in BoardSessions \cup {Nobody},
               t \in {"live", "trashed", "expired"} : s = e.state /\ p = e.parent /\ h = e.holder /\ t = "live"
      BY <1>3
    <3>2. w = Entry(s, p, h, t)
      BY <2>7, <3>1, Zenon
    <3>3. w \in EntryRecords /\ w.state = s /\ w.holder = h /\ w.trash = t
      BY <3>2, EntryIs
    <3> HIDE DEF w
    <3> QED
      BY <2>7, <3>1, <3>3
  <2>8. CASE op.kind = "set_content"
    <3>1. w = e
      BY <2>8
    <3> QED
      BY <1>3, <2>8, <3>1
  <2> QED
    BY OpIs, <2>1, <2>2, <2>3, <2>4, <2>5, <2>6, <2>7, <2>8
<1> HIDE DEF w
<1>8. Effect(es, op) \in Boards /\ Effect(es, op)[id] = w /\ \A x \in Entries \ {id} : Effect(es, op)[x] = es[x]
  BY <1>6, <1>7 DEF Boards
<1>9. op.kind # "remove" => Has(Effect(es, op), id)
  BY <1>5, <1>7, <1>8 DEF Has
<1> QED
  BY <1>1, <1>4, <1>7, <1>8, <1>9

OpDone(acc, op, actor, removed, next) ==
    /\ next.es \in Boards /\ next.touched \in Seq(Entries)
    /\ ToSet(acc.touched) \subseteq ToSet(next.touched)
    /\ \A x \in Entries \ ToSet(next.touched) : next.es[x] = acc.es[x]
    /\ next.why = "ok" => /\ acc.why = "ok" /\ Refusal(acc.es, op, actor, removed) = "ok"
                        /\ next.es = Effect(acc.es, op) /\ op.id \in ToSet(next.touched)

\* One operation of a batch: refused, it changes nothing; accepted, it writes one
\* entry and notes it.
LEMMA OpKeeps ==
    ASSUME NEW acc, acc.es \in Boards, acc.touched \in Seq(Entries), NEW op \in Operations,
           NEW actor, NEW removed, NEW next, next = ApplyOp(acc, op, actor, removed)
    PROVE  OpDone(acc, op, actor, removed, next)
<1> USE DEF OpDone
<1>1. PICK why : why = Refusal(acc.es, op, actor, removed)
  OBVIOUS
<1>2. CASE acc.why # "ok"
  <2>1. next = acc
    BY <1>2, Zenon DEF ApplyOp
  <2> QED
    BY <1>2, <2>1
<1>3. CASE acc.why = "ok" /\ why # "ok"
  <2>1. next = [es |-> acc.es, touched |-> acc.touched, why |-> why]
    BY <1>1, <1>3, Zenon DEF ApplyOp
  <2> QED
    BY <1>3, <2>1
<1>4. CASE acc.why = "ok" /\ why = "ok"
  <2>1. PICK id \in Entries : id = op.id
    BY OpIs
  <2>2. PICK q : q = IF Contains(acc.touched, op.id) THEN acc.touched ELSE Append(acc.touched, op.id)
    OBVIOUS
  <2>3. next = [es |-> Effect(acc.es, op), touched |-> q, why |-> "ok"]
    BY <1>1, <1>4, <2>2, Zenon DEF ApplyOp
  <2>4. next.es = Effect(acc.es, op) /\ next.touched = q
    BY <2>3
  <2>5. PICK r \in Seq(Entries) : r = acc.touched
    OBVIOUS
  <2>6. q \in Seq(Entries) /\ ToSet(r) \subseteq ToSet(q) /\ id \in ToSet(q)
    <3>1. CASE Contains(r, id)
      <4>1. q = r
        BY <2>1, <2>2, <2>5, <3>1
      <4>2. PICK i \in 1 .. Len(r) : r[i] = id
        BY <3>1 DEF Contains
      <4>3. i \in DOMAIN r
        BY <4>2
      <4> QED
        BY <4>1, <4>2, <4>3 DEF ToSet
    <3>2. CASE ~Contains(r, id)
      <4>1. q = Append(r, id)
        BY <2>1, <2>2, <2>5, <3>2
      <4>2. Append(r, id) \in Seq(Entries) /\ ToSet(Append(r, id)) = ToSet(r) \cup {id}
        BY <2>1, <2>5, OfAppend
      <4> QED
        BY <4>1, <4>2
    <3> QED
      BY <3>1, <3>2
  <2>7. PICK es \in Boards : es = acc.es
    OBVIOUS
  <2>8. Effect(es, op) \in Boards /\ \A x \in Entries \ {id} : Effect(es, op)[x] = es[x]
    BY <2>1, EffectIs
  <2> QED
    BY <1>1, <1>4, <2>1, <2>4, <2>5, <2>6, <2>7, <2>8
<1> QED
  BY <1>2, <1>3, <1>4

\* The boards an accepted batch goes through, from es, one per operation.
Written(f, N, es, ops, actor) ==
    /\ f[0] = es
    /\ \A n \in 0 .. N : f[n] \in Boards
    /\ \A n \in 1 .. N : /\ Refusal(f[n - 1], ops[n], actor, Removed(ops)) = "ok"
                         /\ f[n] = Effect(f[n - 1], ops[n])

\* What an accepted batch does: it goes through boards, and has noted every entry it
\* names and every entry it changed.
LEMMA BatchKeeps ==
    ASSUME NEW es \in Boards, NEW ops \in Seq(Operations), NEW actor,
           NEW out, out = ApplyOps(es, ops, actor), out.why = "ok",
           NEW N \in Nat, N = Len(ops)
    PROVE  /\ out.es \in Boards /\ out.touched \in Seq(Entries)
           /\ \A x \in Entries \ ToSet(out.touched) : out.es[x] = es[x]
           /\ \A n \in 1 .. N : ops[n].id \in ToSet(out.touched)
           /\ \E f : Written(f, N, es, ops, actor) /\ out.es = f[N]
<1>1. PICK run : /\ run[0] = BatchStart(es)
                 /\ \A n \in 1 .. N : run[n] = ApplyOp(run[n - 1], ops[n], actor, Removed(ops))
                 /\ out = run[N]
  <2>1. PICK run : BatchRun(run, N, es, ops, actor) /\ ApplyOps(es, ops, actor) = run[N]
    BY BatchRuns
  <2> QED
    BY <2>1, Zenon DEF BatchRun
<1>2. BatchStart(es).es = es /\ BatchStart(es).touched = << >> /\ BatchStart(es).why = "ok"
  BY DEF BatchStart
<1>3. \A n \in 1 .. N : ops[n] \in Operations /\ n - 1 \in 0 .. N /\ n \in 0 .. N
  OBVIOUS
<1> DEFINE G == {n \in 0 .. N : /\ run[n].es \in Boards /\ run[n].touched \in Seq(Entries)
                                /\ \A x \in Entries \ ToSet(run[n].touched) : run[n].es[x] = es[x]}
<1>4. 0 \in G
  <2>1. run[0].touched \in Seq(Entries) /\ run[0].es = es
    BY <1>1, <1>2
  <2> QED
    BY <2>1
<1>5. ASSUME NEW n \in 1 .. N, run[n - 1].es \in Boards, run[n - 1].touched \in Seq(Entries)
      PROVE  /\ run[n].es \in Boards /\ run[n].touched \in Seq(Entries)
             /\ ToSet(run[n - 1].touched) \subseteq ToSet(run[n].touched)
             /\ \A x \in Entries \ ToSet(run[n].touched) : run[n].es[x] = run[n - 1].es[x]
             /\ run[n].why = "ok" =>
                  /\ run[n - 1].why = "ok" /\ Refusal(run[n - 1].es, ops[n], actor, Removed(ops)) = "ok"
                  /\ run[n].es = Effect(run[n - 1].es, ops[n]) /\ ops[n].id \in ToSet(run[n].touched)
  <2>1. PICK acc : acc = run[n - 1]
    OBVIOUS
  <2>2. PICK op \in Operations : op = ops[n]
    BY <1>3
  <2>0. PICK removed : removed = Removed(ops)
    OBVIOUS
  <2>3. PICK next : next = ApplyOp(acc, op, actor, removed)
    OBVIOUS
  <2>4. run[n] = next
    BY <1>1, <2>0, <2>1, <2>2, <2>3
  <2>5. acc.es \in Boards /\ acc.touched \in Seq(Entries)
    BY <1>5, <2>1
  <2>6. /\ next.es \in Boards /\ next.touched \in Seq(Entries)
        /\ ToSet(acc.touched) \subseteq ToSet(next.touched)
        /\ \A x \in Entries \ ToSet(next.touched) : next.es[x] = acc.es[x]
        /\ next.why = "ok" => /\ acc.why = "ok" /\ Refusal(acc.es, op, actor, removed) = "ok"
                              /\ next.es = Effect(acc.es, op) /\ op.id \in ToSet(next.touched)
    <3>1. OpDone(acc, op, actor, removed, next)
      BY <2>3, <2>5, OpKeeps
    <3> QED BY <3>1, Zenon DEF OpDone
  <2> QED
    BY <2>0, <2>1, <2>2, <2>4, <2>6, Zenon
<1>6. ASSUME NEW n \in 1 .. N, n - 1 \in G PROVE n \in G
  <2>1. /\ run[n - 1].es \in Boards /\ run[n - 1].touched \in Seq(Entries)
        /\ \A x \in Entries \ ToSet(run[n - 1].touched) : run[n - 1].es[x] = es[x]
    BY <1>6, Zenon
  <2>2. /\ run[n].es \in Boards /\ run[n].touched \in Seq(Entries)
        /\ ToSet(run[n - 1].touched) \subseteq ToSet(run[n].touched)
        /\ \A x \in Entries \ ToSet(run[n].touched) : run[n].es[x] = run[n - 1].es[x]
    BY <1>5, <2>1, Zenon
  <2>3. \A x \in Entries \ ToSet(run[n].touched) : run[n].es[x] = es[x]
    BY <2>1, <2>2
  <2> QED
    BY <1>3, <2>2, <2>3, Zenon
<1>7. \A n \in 0 .. N : n \in G
  <2> HIDE DEF G
  <2> QED
    BY <1>4, <1>6, CountsUp
<1>8. \A n \in 0 .. N : /\ run[n].es \in Boards /\ run[n].touched \in Seq(Entries)
                        /\ \A x \in Entries \ ToSet(run[n].touched) : run[n].es[x] = es[x]
  BY <1>7, Zenon
<1> HIDE DEF G
<1> DEFINE B == {k \in 0 .. N : run[N - k].why = "ok" /\ ToSet(run[N - k].touched) \subseteq ToSet(out.touched)}
<1>9. \A n \in 1 .. N : /\ ToSet(run[n - 1].touched) \subseteq ToSet(run[n].touched)
                        /\ run[n].why = "ok" =>
                             /\ run[n - 1].why = "ok" /\ Refusal(run[n - 1].es, ops[n], actor, Removed(ops)) = "ok"
                             /\ run[n].es = Effect(run[n - 1].es, ops[n]) /\ ops[n].id \in ToSet(run[n].touched)
  BY <1>3, <1>5, <1>8, Zenon
<1>10. \A n \in 0 .. N : run[n].why = "ok" /\ ToSet(run[n].touched) \subseteq ToSet(out.touched)
  <2>1. 0 \in B
    <3>1. N - 0 = N /\ 0 \in 0 .. N
      OBVIOUS
    <3>2. run[N - 0] = out
      BY <1>1, <3>1
    <3> QED
      BY <3>1, <3>2
  <2>2. ASSUME NEW k \in 1 .. N, k - 1 \in B PROVE k \in B
    <3>1. PICK n \in 1 .. N : n = N - (k - 1) /\ n - 1 = N - k
      OBVIOUS
    <3>2. run[n].why = "ok" /\ ToSet(run[n].touched) \subseteq ToSet(out.touched)
      BY <2>2, <3>1
    <3>3. run[n - 1].why = "ok" /\ ToSet(run[n - 1].touched) \subseteq ToSet(out.touched)
      BY <1>9, <3>2
    <3>4. k \in 0 .. N
      OBVIOUS
    <3> QED
      BY <3>1, <3>3, <3>4
  <2> HIDE DEF B
  <2>3. \A k \in 0 .. N : k \in B
    BY <2>1, <2>2, CountsUp
  <2>4. ASSUME NEW n \in 0 .. N PROVE run[n].why = "ok" /\ ToSet(run[n].touched) \subseteq ToSet(out.touched)
    <3>1. PICK k \in 0 .. N : N - k = n
      <4>1. N - n \in 0 .. N /\ N - (N - n) = n
        OBVIOUS
      <4> QED BY <4>1
    <3>2. k \in B
      BY <2>3
    <3> QED
      BY <3>1, <3>2 DEF B
  <2> QED
    BY <2>4
<1>11. \A n \in 1 .. N : ops[n].id \in ToSet(out.touched)
  BY <1>3, <1>9, <1>10
<1>12. \E f : Written(f, N, es, ops, actor) /\ out.es = f[N]
  <2> DEFINE f == [n \in 0 .. N |-> run[n].es]
  <2>1. 0 \in 0 .. N /\ N \in 0 .. N
    OBVIOUS
  <2>2. \A n \in 0 .. N : f[n] = run[n].es
    OBVIOUS
  <2> HIDE DEF f
  <2>3. f[0] = es /\ out.es = f[N]
    BY <1>1, <1>2, <2>1, <2>2
  <2>4. \A n \in 0 .. N : f[n] \in Boards
    BY <1>8, <2>2
  <2>5. \A n \in 1 .. N : /\ Refusal(f[n - 1], ops[n], actor, Removed(ops)) = "ok"
                          /\ f[n] = Effect(f[n - 1], ops[n])
    BY <1>3, <1>9, <1>10, <2>2
  <2>6. Written(f, N, es, ops, actor)
    BY <2>3, <2>4, <2>5, Zenon DEF Written
  <2> QED
    BY <2>3, <2>6
<1>13. out.es \in Boards /\ out.touched \in Seq(Entries)
       /\ \A x \in Entries \ ToSet(out.touched) : out.es[x] = es[x]
  BY <1>1, <1>8
<1> QED
  BY <1>11, <1>12, <1>13

-----------------------------------------------------------------------------
(* What a writer may touch *)

\* Held by another session, or in the trash.
Guarded(es, id, actor) ==
    Has(es, id) /\ (es[id].holder \notin {Nobody, actor} \/ es[id].trash # "live")

\* No session's operation on such an entry is accepted.
LEMMA Denied ==
    ASSUME NEW es \in Boards, NEW op \in Operations, NEW actor, actor # Owner, NEW removed,
           Guarded(es, op.id, actor)
    PROVE  Refusal(es, op, actor, removed) # "ok"
<1>1. PICK id \in Entries : id = op.id
  BY OpIs
<1>2. Has(es, id) /\ (es[id].holder \notin {Nobody, actor} \/ es[id].trash # "live")
  BY <1>1 DEF Guarded
<1>3. PICK write : write = mayWrite(es[id], actor)
  OBVIOUS
<1>4. write # "ok"
  BY <1>2, <1>3 DEF mayWrite
<1>5. \A s : mayTake(es[id], actor, s) # "ok"
  BY <1>2 DEF mayTake
<1> SUFFICES ASSUME Refusal(es, op, actor, removed) = "ok" PROVE FALSE
  OBVIOUS
<1>6. CASE op.kind = "upsert"
  <2>1. PICK a, b, c, d, r : r = <<a, write, b, c, d,
            IF op.session = Nobody THEN "ok" ELSE mayTake(es[id], actor, op.session)>>
            /\ Refusal(es, op, actor, removed) = First(r)
    BY <1>1, <1>2, <1>3, <1>6, Zenon DEF Refusal
  <2>2. PICK t : t = IF op.session = Nobody THEN "ok" ELSE mayTake(es[id], actor, op.session)
    OBVIOUS
  <2>3. r = <<a, write, b, c, d, t>>
    BY <2>1, <2>2, Zenon
  <2>4. DOMAIN r = 1 .. 6 /\ r[2] = write
    BY <2>3
  <2>5. First(r) = "ok"
    BY <2>1, Zenon
  <2>6. \A i \in 1 .. 6 : r[i] = "ok"
    <3>1. 6 \in Nat
      OBVIOUS
    <3> QED BY <2>4, <2>5, <3>1, FirstOk, Zenon
  <2> QED
    BY <1>4, <2>4, <2>6
<1>7. CASE op.kind = "set_session"
  <2>1. PICK a, b, t, r : r = <<a, b, t>> /\ t = mayTake(es[id], actor, op.session)
                          /\ Refusal(es, op, actor, removed) = First(r)
    BY <1>1, <1>2, <1>7, Zenon DEF Refusal
  <2>2. DOMAIN r = 1 .. 3 /\ r[3] = t
    BY <2>1
  <2>3. First(r) = "ok" /\ t # "ok"
    BY <1>5, <2>1, Zenon
  <2>4. \A i \in 1 .. 3 : r[i] = "ok"
    <3>1. 3 \in Nat
      OBVIOUS
    <3> QED BY <2>2, <2>3, <3>1, FirstOk, Zenon
  <2> QED
    BY <2>2, <2>3, <2>4
<1>8. CASE op.kind \in {"remove", "set_parent", "set_content"}
  <2>1. PICK a, b, r : r = <<a, write, b>> /\ Refusal(es, op, actor, removed) = First(r)
    <3>1. CASE op.kind = "remove"
      BY <1>1, <1>2, <1>3, <3>1, Zenon DEF Refusal
    <3>2. CASE op.kind = "set_parent"
      BY <1>1, <1>2, <1>3, <3>2, Zenon DEF Refusal
    <3>3. CASE op.kind = "set_content"
      BY <1>1, <1>2, <1>3, <3>3, Zenon DEF Refusal
    <3> QED
      BY <1>8, <3>1, <3>2, <3>3
  <2>2. DOMAIN r = 1 .. 3 /\ r[2] = write
    BY <2>1
  <2>3. First(r) = "ok"
    BY <2>1, Zenon
  <2>4. \A i \in 1 .. 3 : r[i] = "ok"
    <3>1. 3 \in Nat
      OBVIOUS
    <3> QED BY <2>2, <2>3, <3>1, FirstOk, Zenon
  <2> QED
    BY <1>4, <2>2, <2>4
<1>9. CASE op.kind \in {"set_state", "trash", "restore"}
  <2>1. PICK a, r : r = <<a, write>> /\ Refusal(es, op, actor, removed) = First(r)
    <3>1. /\ op.kind # "upsert" /\ op.kind # "remove" /\ op.kind # "set_session"
          /\ op.kind # "set_parent" /\ op.kind # "set_content"
      BY <1>9
    <3> QED
      BY <1>1, <1>2, <1>3, <3>1, Zenon DEF Refusal
  <2>2. DOMAIN r = 1 .. 2 /\ r[2] = write
    BY <2>1
  <2>3. First(r) = "ok"
    BY <2>1, Zenon
  <2>4. \A i \in 1 .. 2 : r[i] = "ok"
    <3>1. 2 \in Nat
      OBVIOUS
    <3> QED BY <2>2, <2>3, <3>1, FirstOk, Zenon
  <2> QED
    BY <1>4, <2>2, <2>4
<1> QED
  BY OpIs, <1>6, <1>7, <1>8, <1>9

AsBefore(f, N, es, id) == f[N][id] = es[id]

\* A session's batch leaves such an entry as it was.
LEMMA GuardedKept ==
    ASSUME NEW N \in Nat, NEW f, NEW es, NEW ops \in Seq(Operations), NEW actor, actor # Owner,
           N = Len(ops), Written(f, N, es, ops, actor), NEW id \in Entries, Guarded(es, id, actor)
    PROVE  AsBefore(f, N, es, id)
<1>1. /\ f[0] = es /\ \A n \in 0 .. N : f[n] \in Boards
      /\ \A n \in 1 .. N : /\ Refusal(f[n - 1], ops[n], actor, Removed(ops)) = "ok"
                           /\ f[n] = Effect(f[n - 1], ops[n])
  BY Zenon DEF Written
<1> DEFINE G == {n \in 0 .. N : f[n][id] = es[id]}
<1>2. 0 \in G
  BY <1>1
<1>3. ASSUME NEW n \in 1 .. N, n - 1 \in G PROVE n \in G
  <2>1. PICK b \in Boards : b = f[n - 1]
    BY <1>1
  <2>2. PICK op \in Operations : op = ops[n]
    OBVIOUS
  <2>3. PICK removed : removed = Removed(ops)
    OBVIOUS
  <2>4. Refusal(b, op, actor, removed) = "ok" /\ f[n] = Effect(b, op)
    BY <1>1, <2>1, <2>2, <2>3
  <2>5. b[id] = es[id]
    BY <1>3, <2>1
  <2>6. op.id # id
    <3>1. SUFFICES ASSUME op.id = id PROVE FALSE
      OBVIOUS
    <3>2. Guarded(b, op.id, actor)
      BY <2>5, <3>1, Zenon DEF Guarded, Has
    <3> QED
      BY <2>4, <3>2, Denied
  <2>7. Effect(b, op)[id] = b[id]
    BY <2>6, EffectIs
  <2> QED
    BY <2>4, <2>5, <2>7
<1> HIDE DEF G
<1>4. \A n \in 0 .. N : n \in G
  BY <1>2, <1>3, CountsUp
<1> QED
  BY <1>4 DEF G, AsBefore

\* Orphans become roots, and nothing else changes.
LEMMA PromoteIs ==
    ASSUME NEW es \in Boards, NEW next, next = promoteOrphans(es)
    PROVE  /\ next \in Boards
           /\ \A x \in Entries : /\ Has(next, x) <=> Has(es, x)
                                 /\ x \notin Orphans(es) => next[x] = es[x]
                                 /\ Has(next, x) => /\ next[x].state = es[x].state /\ next[x].holder = es[x].holder
                                                    /\ next[x].trash = es[x].trash
                                                    /\ next[x].parent \in {es[x].parent, NoParent}
                                                    /\ next[x].parent # NoParent => Has(next, next[x].parent)
<1>1. \A x \in Entries : next[x] = IF x \in Orphans(es) THEN Entry(es[x].state, NoParent, es[x].holder, es[x].trash)
                                   ELSE es[x]
  BY DEF promoteOrphans
<1>2. ASSUME NEW x \in Entries, x \in Orphans(es)
      PROVE  /\ next[x] \in EntryRecords /\ next[x] # Absent /\ next[x].state = es[x].state
             /\ next[x].holder = es[x].holder /\ next[x].trash = es[x].trash /\ next[x].parent = NoParent
             /\ Has(es, x)
  <2>1. Has(es, x)
    BY <1>2 DEF Orphans
  <2>2. PICK s \in BoardStates, p \in Entries \cup {NoParent},
             h \in BoardSessions \cup {Nobody}, t \in {"live", "trashed", "expired"} :
             s = es[x].state /\ p = NoParent /\ h = es[x].holder /\ t = es[x].trash
    BY <2>1, OnBoard
  <2>3. next[x] = Entry(s, p, h, t)
    BY <1>1, <1>2, <2>2, Zenon
  <2>4. /\ Entry(s, p, h, t) \in EntryRecords /\ Entry(s, p, h, t) # Absent
        /\ Entry(s, p, h, t).state = s /\ Entry(s, p, h, t).parent = p
        /\ Entry(s, p, h, t).holder = h /\ Entry(s, p, h, t).trash = t
    BY EntryIs
  <2> QED
    BY <2>1, <2>2, <2>3, <2>4
<1>3. next \in Boards
  <2>1. next = [id \in Entries |-> IF id \in Orphans(es)
                       THEN Entry(es[id].state, NoParent, es[id].holder, es[id].trash) ELSE es[id]]
    BY DEF promoteOrphans
  <2>2. \A x \in Entries : next[x] \in EntryRecords \cup {Absent}
    BY <1>1, <1>2 DEF Boards
  <2>3. DOMAIN next = Entries /\ next = [x \in Entries |-> next[x]]
    BY <2>1
  <2> QED
    BY <2>2, <2>3 DEF Boards
<1>4. \A x \in Entries : Has(next, x) <=> Has(es, x)
  BY <1>1, <1>2 DEF Has
<1>5. ASSUME NEW x \in Entries, Has(next, x), x \notin Orphans(es), es[x].parent # NoParent
      PROVE  Has(next, es[x].parent)
  <2>1. Has(es, x)
    BY <1>4, <1>5
  <2>2. PICK p \in Entries : p = es[x].parent
    BY <1>5, <2>1, OnBoard
  <2>3. Has(es, p)
    BY <1>5, <2>1, <2>2 DEF Orphans
  <2> QED
    BY <1>4, <2>2, <2>3
<1> QED
  BY <1>1, <1>2, <1>3, <1>4, <1>5

-----------------------------------------------------------------------------
(* What a write makes of the board *)

\* An accepted write goes through the boards f of its batch, then makes roots of the
\* orphans (next), then cascades. It wrote the entries of touched itself.
Through(es, ops, actor, out, N, f, next, touched, E) ==
    /\ Written(f, N, es, ops, actor)
    /\ next = promoteOrphans(f[N]) /\ next \in Boards
    /\ touched \in SUBSET Entries
    /\ \A n \in 1 .. N : ops[n].id \in touched
    /\ \A x \in Entries \ touched : next[x] = es[x]
    /\ \A x \in touched : ~Cyclic(next, x)
    /\ out.es \in Boards /\ SameTree(next, out.es)
    /\ \A x \in Entries \ out.touched : out.es[x] = es[x]
    /\ ~out.cut /\ Pending(next, {Item(x, FALSE) : x \in touched}) => Pending(out.es, {})
    /\ ~out.cut /\ Reopened(next, {}, E) => Reopened(out.es, {}, E)

LEMMA OutcomeIs ==
    ASSUME NEW es \in Boards, NEW ops \in Seq(Operations), NEW actor, NEW out,
           out = Outcome(es, ops, actor), out.why = "ok", NEW N \in Nat, N = Len(ops),
           NEW E \in SUBSET Entries
    PROVE  \E f, next, touched : Through(es, ops, actor, out, N, f, next, touched, E)
<1>0. IsFiniteSet(Entries) /\ NoParent \notin Entries
  BY BoardAssumption
<1>1. PICK applied : applied = ApplyOps(es, ops, actor)
  OBVIOUS
<1>2. PICK next : next = promoteOrphans(applied.es)
  OBVIOUS
<1>3. PICK tail : tail = SetToSeq(Orphans(applied.es) \ ToSet(applied.touched))
  OBVIOUS
<1>4. PICK touched : touched = applied.touched \o tail
  OBVIOUS
<1>5. PICK orphaned : orphaned = orphanedParents(es, next, touched)
  OBVIOUS
<1>6. PICK cascade : cascade = applyCascade(next, touched, orphaned)
  OBVIOUS
<1>7. PICK why : why = IF applied.why # "ok" THEN applied.why
                       ELSE Unless(\A id \in ToSet(touched) : ~Cyclic(next, id), "cycle")
  OBVIOUS
<1>8. out = [why |-> why, es |-> IF why = "ok" THEN cascade.es ELSE es,
             touched |-> IF why = "ok" THEN ToSet(touched) \cup cascade.changed ELSE {},
             cut |-> cascade.queue # << >>]
  BY <1>1, <1>2, <1>3, <1>4, <1>5, <1>6, <1>7, Zenon DEF Outcome
<1>9. PICK e2, t2, c2 : /\ e2 = (IF why = "ok" THEN cascade.es ELSE es)
                        /\ t2 = (IF why = "ok" THEN ToSet(touched) \cup cascade.changed ELSE {})
                        /\ c2 = (cascade.queue # << >>)
                        /\ out = [why |-> why, es |-> e2, touched |-> t2, cut |-> c2]
  BY <1>8, Zenon
<1>10. why = "ok" /\ out.es = cascade.es /\ out.touched = ToSet(touched) \cup cascade.changed
       /\ (out.cut <=> cascade.queue # << >>)
  <2>1. out.why = why /\ out.es = e2 /\ out.touched = t2 /\ out.cut = c2
    BY <1>9
  <2> QED
    BY <1>9, <2>1, Zenon
<1>11. applied.why = "ok" /\ \A id \in ToSet(touched) : ~Cyclic(next, id)
  BY <1>7, <1>10 DEF Unless
<1>12. /\ applied.es \in Boards /\ applied.touched \in Seq(Entries)
       /\ \A x \in Entries \ ToSet(applied.touched) : applied.es[x] = es[x]
       /\ \A n \in 1 .. N : ops[n].id \in ToSet(applied.touched)
       /\ \E f : Written(f, N, es, ops, actor) /\ applied.es = f[N]
  <2> HIDE <1>3, <1>4, <1>5, <1>6, <1>7, <1>8, <1>9, <1>10
  <2> QED BY <1>1, <1>11, BatchKeeps
<1>13. PICK f : Written(f, N, es, ops, actor) /\ applied.es = f[N]
  BY <1>12
<1>14. PICK b \in Boards : b = applied.es
  BY <1>12
<1>15. /\ next \in Boards /\ \A x \in Entries : x \notin Orphans(b) => next[x] = b[x]
  <2>1. next = promoteOrphans(b)
    BY <1>2, <1>14
  <2> HIDE <1>2, <1>3, <1>4, <1>5, <1>6, <1>7, <1>8, <1>9, <1>10
  <2> QED BY <2>1, PromoteIs
<1>16. touched \in Seq(Entries) /\ ToSet(touched) = ToSet(applied.touched) \cup (Orphans(b) \ ToSet(applied.touched))
  <2> DEFINE S == Orphans(applied.es) \ ToSet(applied.touched)
  <2>1. S \in SUBSET Entries
    BY DEF Orphans
  <2> HIDE DEF S
  <2>2. IsFiniteSet(S)
    BY <1>0, <2>1, FS_Subset
  <2>3. SetToSeq(S) \in Seq(S) /\ ToSet(SetToSeq(S)) = S
    BY <2>2, InSomeOrder
  <2>4. tail \in Seq(Entries) /\ ToSet(tail) = S
    <3>1. tail = SetToSeq(S)
      BY <1>3, Zenon DEF S
    <3>2. PICK q : q = SetToSeq(S)
      OBVIOUS
    <3>3. q \in Seq(S) /\ ToSet(q) = S
      BY <2>3, <3>2, Zenon
    <3>4. q \in Seq(Entries)
      BY <2>1, <3>3
    <3> QED BY <3>1, <3>2, <3>3, <3>4, Zenon
  <2>5. PICK q \in Seq(Entries), r \in Seq(Entries) : q = applied.touched /\ r = tail
    BY <1>12, <2>4
  <2>6. q \o r \in Seq(Entries) /\ ToSet(q \o r) = ToSet(q) \cup ToSet(r)
    BY OfConcat, Zenon
  <2> QED
    BY <1>4, <1>14, <2>4, <2>5, <2>6 DEF S
<1>17. \A x \in Entries \ ToSet(touched) : next[x] = es[x]
  BY <1>12, <1>14, <1>15, <1>16
<1>18. \A n \in 1 .. N : ops[n].id \in ToSet(touched)
  BY <1>12, <1>16
<1>19. orphaned \in Seq(Entries)
  <2> HIDE <1>1, <1>2, <1>3, <1>4, <1>6, <1>7, <1>8, <1>9, <1>10
  <2> QED BY <1>5, <1>16, OrphanedTyped
<1>20. /\ cascade.es \in Boards /\ SameTree(next, cascade.es)
       /\ cascade.changed \in SUBSET Entries
       /\ \A x \in Entries \ cascade.changed : cascade.es[x] = next[x]
       /\ cascade.queue = << >> /\ Pending(next, {Item(x, FALSE) : x \in ToSet(touched)}) => Pending(cascade.es, {})
       /\ cascade.queue = << >> /\ Reopened(next, {}, E) => Reopened(cascade.es, {}, E)
  <2>1. PICK w \in Seq(Entries), o \in Seq(Entries) : w = touched /\ o = orphaned
    BY <1>16, <1>19
  <2>2. cascade = applyCascade(next, w, o)
    BY <1>6, <2>1
  <2>3. Cascaded(next, w, cascade, E)
    BY <1>0, <1>15, <2>2, CascadeKeeps
  <2> QED BY <2>1, <2>3, Zenon DEF Cascaded
<1>21. ToSet(touched) \in SUBSET Entries
  BY <1>16 DEF ToSet
<1>22. \A x \in Entries \ out.touched : out.es[x] = es[x]
  BY <1>10, <1>17, <1>20
<1>23. Through(es, ops, actor, out, N, f, next, ToSet(touched), E)
  <2>1. next = promoteOrphans(f[N])
    BY <1>2, <1>13
  <2>2. ~out.cut /\ Pending(next, {Item(x, FALSE) : x \in ToSet(touched)}) => Pending(out.es, {})
    BY <1>10, <1>20, Zenon
  <2>3. ~out.cut /\ Reopened(next, {}, E) => Reopened(out.es, {}, E)
    BY <1>10, <1>20, Zenon
  <2>4. out.es \in Boards /\ SameTree(next, out.es)
    BY <1>10, <1>20, Zenon
  <2> HIDE <1>1, <1>2, <1>3, <1>4, <1>5, <1>6, <1>7, <1>8, <1>9
  <2> QED
    BY <1>11, <1>13, <1>15, <1>17, <1>18, <1>21, <1>22, <2>1, <2>2, <2>3, <2>4, Zenon DEF Through
<1> QED
  BY <1>23

\* A forest: no parent pointer dangles and none leads back.
WellFormed(es) ==
    \A id \in Entries : Has(es, id) =>
        /\ es[id].parent # NoParent => Has(es, es[id].parent)
        /\ ~Cyclic(es, id)
\* Nothing finished stands over unfinished work.
Closed(es) ==
    \A id \in Entries : Live(es, id) /\ isTerminal(es[id].state) =>
        \A c \in liveChildren(es, id) : isTerminal(es[c].state)

\* A write leaves a forest: what it wrote it looked through for cycles, and a cycle
\* of entries it did not write was there before.
LEMMA ForestKept ==
    ASSUME NEW es \in Boards, WellFormed(es), NEW ops, NEW actor, NEW out, NEW N, NEW E, N \in Nat,
           NEW f, NEW next, NEW touched, Through(es, ops, actor, out, N, f, next, touched, E)
    PROVE  WellFormed(out.es)
<1>1. /\ \A n \in 0 .. N : f[n] \in Boards
      /\ next = promoteOrphans(f[N]) /\ next \in Boards /\ touched \in SUBSET Entries
      /\ \A x \in Entries \ touched : next[x] = es[x]
      /\ \A x \in touched : ~Cyclic(next, x)
      /\ out.es \in Boards /\ SameTree(next, out.es)
  BY Zenon DEF Through, Written
<1>2. PICK e2 \in Boards : e2 = out.es
  BY <1>1
<1>3. \A x \in Entries : /\ Has(e2, x) <=> Has(next, x)
                         /\ Has(next, x) => e2[x].parent = next[x].parent
  BY <1>1, <1>2 DEF SameTree
<1>4. \A x \in Entries : Has(next, x) /\ next[x].parent # NoParent => Has(next, next[x].parent)
  <2>1. PICK b \in Boards : b = f[N]
    BY <1>1
  <2>2. next = promoteOrphans(b)
    BY <1>1, <2>1
  <2> QED
    BY <2>2, PromoteIs
<1>5. ASSUME NEW x \in Entries, Has(e2, x) PROVE e2[x].parent # NoParent => Has(e2, e2[x].parent)
  <2>1. Has(next, x) /\ e2[x].parent = next[x].parent
    BY <1>3, <1>5
  <2>2. next[x].parent \in Entries \cup {NoParent}
    BY <1>1, <2>1, OnBoard
  <2> QED
    BY <1>3, <1>4, <2>1, <2>2
<1>6. ASSUME NEW x \in Entries, Has(e2, x), Cyclic(e2, x) PROVE FALSE
  <2>0. IsFiniteSet(Entries) /\ NoParent \notin Entries
    BY BoardAssumption
  <2>1. PICK S \in SUBSET Entries : x \in S /\ Loops(e2, S)
    BY <1>6, <2>0, CyclicIs
  <2>2. Loops(next, S)
    BY <1>3, <2>1 DEF Loops
  <2>3. \A y \in S : Cyclic(next, y)
    BY <1>1, <2>0, <2>2, CyclicIs
  <2>4. \A y \in S : next[y] = es[y]
    BY <1>1, <2>3
  <2>5. Loops(es, S)
    BY <2>2, <2>4 DEF Loops, Has
  <2>6. Has(es, x)
    BY <2>1, <2>5 DEF Loops
  <2>7. Cyclic(es, x)
    BY <2>0, <2>1, <2>5, CyclicIs
  <2> QED
    BY <2>6, <2>7 DEF WellFormed
<1> QED
  BY <1>2, <1>5, <1>6 DEF WellFormed

\* What the batch did not write was closed, so all that is not is on the list.
LEMMA WriteIsPending ==
    ASSUME NEW es \in Boards, Closed(es), NEW next \in Boards, NEW touched \in SUBSET Entries,
           \A x \in Entries \ touched : next[x] = es[x]
    PROVE  Pending(next, {Item(x, FALSE) : x \in touched})
<1> SUFFICES ASSUME NEW c \in Entries, NEW p \in Entries,
                    Live(next, c), next[c].parent = p, Live(next, p),
                    isTerminal(next[p].state), ~isTerminal(next[c].state)
             PROVE  \E w \in {Item(x, FALSE) : x \in touched} : w.id = p \/ (w.id = c /\ ~w.derive)
  BY DEF Pending
<1>1. Item(c, FALSE).id = c /\ ~Item(c, FALSE).derive /\ Item(p, FALSE).id = p
  BY DEF Item
<1>2. CASE c \in touched
  BY <1>1, <1>2
<1>3. CASE p \in touched
  BY <1>1, <1>3
<1>4. CASE c \notin touched /\ p \notin touched
  <2>1. next[c] = es[c] /\ next[p] = es[p]
    BY <1>4
  <2>2. Live(es, c) /\ es[c].parent = p /\ Live(es, p) /\ isTerminal(es[p].state) /\ ~isTerminal(es[c].state)
    BY <2>1 DEF Live, Has
  <2>3. c \in liveChildren(es, p)
    BY <2>2 DEF liveChildren
  <2> QED
    BY <2>2, <2>3 DEF Closed
<1> QED
  BY <1>2, <1>3, <1>4

LEMMA NothingPending ==
    ASSUME NEW es \in Boards, Pending(es, {})
    PROVE  Closed(es)
BY DEF Pending, Closed, liveChildren

\* The types of what the board writes in its own name.
LEMMA OwnOps ==
    ASSUME NEW x \in Entries
    PROVE  /\ [kind |-> "set_state", id |-> x, state |-> "cancelled"] \in Operations
           /\ [kind |-> "trash", id |-> x] \in Operations
           /\ [kind |-> "set_session", id |-> x, session |-> Nobody] \in Operations
           /\ [kind |-> "remove", id |-> x] \in Operations
<1>1. [kind |-> "set_state", id |-> x, state |-> "cancelled"] \in Operations
  BY DEF Operations, BoardStates
<1>2. [kind |-> "trash", id |-> x] \in Operations
  BY DEF Operations
<1>3. [kind |-> "set_session", id |-> x, session |-> Nobody] \in Operations
  BY DEF Operations
<1>4. [kind |-> "remove", id |-> x] \in Operations
  BY DEF Operations
<1> QED
  BY <1>1, <1>2, <1>3, <1>4

Ending(s) == {id \in Entries : Has(board, id) /\ board[id].holder = s}
Dropped(s, disposition) ==
    {id \in Ending(s) : disposition = "cancel" /\ Live(board, id) /\ ~isTerminal(board[id].state)}
Cancels(x) == [kind |-> "set_state", id |-> x, state |-> "cancelled"]
Trashes(x) == [kind |-> "trash", id |-> x]
Releases(x) == [kind |-> "set_session", id |-> x, session |-> Nobody]
Removes(x) == [kind |-> "remove", id |-> x]

LEMMA OwnOpsAre ==
    ASSUME NEW x \in Entries
    PROVE  /\ Cancels(x) \in Operations /\ Trashes(x) \in Operations
           /\ Releases(x) \in Operations /\ Removes(x) \in Operations
           /\ Cancels(x).kind = "set_state" /\ Cancels(x).id = x /\ Cancels(x).state = "cancelled"
           /\ Trashes(x).kind = "trash" /\ Trashes(x).id = x
           /\ Releases(x).kind = "set_session" /\ Releases(x).id = x /\ Releases(x).session = Nobody
BY OwnOps DEF Cancels, Trashes, Releases, Removes

PerEntry(r, S, g) == r \in Seq(Operations) /\ ToSet(r) = {g[x] : x \in S}

\* One operation per element of a sequence.
LEMMA OnePerEntry ==
    ASSUME NEW S \in SUBSET Entries, NEW q \in Seq(S), ToSet(q) = S, NEW r \in [DOMAIN q -> Operations],
           NEW g, \A i \in DOMAIN q : r[i] = g[q[i]]
    PROVE  PerEntry(r, S, g)
<1>1. PICK n \in Nat : n = Len(q)
  <2>1. Len(q) \in Nat
    OBVIOUS
  <2> QED BY <2>1, Zenon
<1>2. DOMAIN q = 1 .. n /\ \A i \in 1 .. n : q[i] \in S
  BY <1>1
<1>3. DOMAIN r = 1 .. n /\ \A i \in 1 .. n : r[i] = g[q[i]]
  BY <1>2
<1>6. r \in [1 .. n -> Operations]
  BY <1>2
<1>7. r \in Seq(Operations)
  BY <1>6
<1>8. \A x \in S : \E i \in 1 .. n : q[i] = x
  BY <1>2 DEF ToSet
<1>9. ToSet(r) = {g[x] : x \in S}
  <2>1. {r[i] : i \in 1 .. n} = {g[x] : x \in S}
    BY <1>2, <1>3, <1>8
  <2> QED
    BY <1>3, <2>1, Zenon DEF ToSet
<1> QED
  BY <1>7, <1>9, Zenon DEF PerEntry

\* What a session's end asks for: cancel what is dropped, trash some of what it
\* held, release all of it.
LEMMA SessionEndOpsAre ==
    ASSUME NEW s, NEW disposition, NEW ops, ops = SessionEndOps(s, disposition), IsFiniteSet(Entries)
    PROVE  /\ ops \in Seq(Operations)
           /\ \E T \in SUBSET Entries :
                ToSet(ops) = {Cancels(x) : x \in Dropped(s, disposition)} \cup {Trashes(x) : x \in T}
                             \cup {Releases(x) : x \in Ending(s)}
<1>1. PICK next : next = [id \in Entries |-> IF id \in Dropped(s, disposition) THEN WithState(board[id], "cancelled")
                                              ELSE board[id]]
  OBVIOUS
<1>2. PICK T : T = prunableSubtrees(next, {id \in Ending(s) : isTerminal(next[id].state)})
  OBVIOUS
<1>3. T \in SUBSET Entries /\ Ending(s) \in SUBSET Entries /\ Dropped(s, disposition) \in SUBSET Entries
  BY <1>2 DEF prunableSubtrees, Ending, Dropped
<1>4. PICK a, b, c : /\ a = [i \in DOMAIN SetToSeq(Dropped(s, disposition)) |-> Cancels(SetToSeq(Dropped(s, disposition))[i])]
                     /\ b = [i \in DOMAIN SetToSeq(T) |-> Trashes(SetToSeq(T)[i])]
                     /\ c = [i \in DOMAIN SetToSeq(Ending(s)) |-> Releases(SetToSeq(Ending(s))[i])]
                     /\ ops = a \o b \o c
  BY <1>1, <1>2, Zenon DEF SessionEndOps, Cancels, Trashes, Releases, Ending, Dropped
<1>5. ASSUME NEW S \in SUBSET Entries PROVE SetToSeq(S) \in Seq(S) /\ ToSet(SetToSeq(S)) = S
  <2>1. IsFiniteSet(S)
    BY FS_Subset
  <2> QED
    BY <2>1, InSomeOrder
<1>6. a \in Seq(Operations) /\ ToSet(a) = {Cancels(x) : x \in Dropped(s, disposition)}
  <2>1. PICK S \in SUBSET Entries : S = Dropped(s, disposition)
    BY <1>3
  <2>2. PICK q \in Seq(S) : q = SetToSeq(S) /\ ToSet(q) = S
    BY <1>5
  <2> DEFINE g == [x \in Entries |-> Cancels(x)]
  <2>3. a = [i \in DOMAIN q |-> g[q[i]]]
    <3>1. \A i \in DOMAIN q : q[i] \in Entries
      BY <2>2
    <3>2. \A i \in DOMAIN q : g[q[i]] = Cancels(q[i])
      BY <3>1, Zenon
    <3>3. a = [i \in DOMAIN q |-> Cancels(q[i])]
      BY <1>4, <2>1, <2>2, Zenon
    <3> HIDE DEF g
    <3> QED
      BY <3>2, <3>3, Zenon
  <2>4. \A x \in S : g[x] = Cancels(x) /\ g[x] \in Operations
    BY OwnOpsAre
  <2> HIDE DEF g
  <2>5. a \in [DOMAIN q -> Operations] /\ \A i \in DOMAIN q : a[i] = g[q[i]]
    <3>1. \A i \in DOMAIN q : q[i] \in S
      BY <2>2
    <3> QED BY <2>3, <2>4, <3>1
  <2>6. a \in Seq(Operations) /\ ToSet(a) = {g[x] : x \in S}
    <3>1. S \in SUBSET Entries /\ q \in Seq(S) /\ ToSet(q) = S
      BY <2>2, Zenon
    <3>2. a \in [DOMAIN q -> Operations]
      BY <2>5, Zenon
    <3>3. \A i \in DOMAIN q : a[i] = g[q[i]]
      BY <2>5, Zenon
    <3>4. PerEntry(a, S, g)
      <4> HIDE <1>4, <2>1, <2>3
      <4> QED BY <3>1, <3>2, <3>3, OnePerEntry
    <3> QED BY <3>4, Zenon DEF PerEntry
  <2> QED
    BY <2>1, <2>4, <2>6, Zenon
<1>7. b \in Seq(Operations) /\ ToSet(b) = {Trashes(x) : x \in T}
  <2>1. PICK S \in SUBSET Entries : S = T
    BY <1>3
  <2>2. PICK q \in Seq(S) : q = SetToSeq(S) /\ ToSet(q) = S
    BY <1>5
  <2> DEFINE g == [x \in Entries |-> Trashes(x)]
  <2>3. b = [i \in DOMAIN q |-> g[q[i]]]
    <3>1. \A i \in DOMAIN q : q[i] \in Entries
      BY <2>2
    <3>2. \A i \in DOMAIN q : g[q[i]] = Trashes(q[i])
      BY <3>1, Zenon
    <3>3. b = [i \in DOMAIN q |-> Trashes(q[i])]
      BY <1>4, <2>1, <2>2, Zenon
    <3> HIDE DEF g
    <3> QED
      BY <3>2, <3>3, Zenon
  <2>4. \A x \in S : g[x] = Trashes(x) /\ g[x] \in Operations
    BY OwnOpsAre
  <2> HIDE DEF g
  <2>5. b \in [DOMAIN q -> Operations] /\ \A i \in DOMAIN q : b[i] = g[q[i]]
    <3>1. \A i \in DOMAIN q : q[i] \in S
      BY <2>2
    <3> QED BY <2>3, <2>4, <3>1
  <2>6. b \in Seq(Operations) /\ ToSet(b) = {g[x] : x \in S}
    <3>1. S \in SUBSET Entries /\ q \in Seq(S) /\ ToSet(q) = S
      BY <2>2, Zenon
    <3>2. b \in [DOMAIN q -> Operations]
      BY <2>5, Zenon
    <3>3. \A i \in DOMAIN q : b[i] = g[q[i]]
      BY <2>5, Zenon
    <3>4. PerEntry(b, S, g)
      <4> HIDE <1>4, <2>1, <2>3
      <4> QED BY <3>1, <3>2, <3>3, OnePerEntry
    <3> QED BY <3>4, Zenon DEF PerEntry
  <2> QED
    BY <2>1, <2>4, <2>6, Zenon
<1>8. c \in Seq(Operations) /\ ToSet(c) = {Releases(x) : x \in Ending(s)}
  <2>1. PICK S \in SUBSET Entries : S = Ending(s)
    BY <1>3
  <2>2. PICK q \in Seq(S) : q = SetToSeq(S) /\ ToSet(q) = S
    BY <1>5
  <2> DEFINE g == [x \in Entries |-> Releases(x)]
  <2>3. c = [i \in DOMAIN q |-> g[q[i]]]
    <3>1. \A i \in DOMAIN q : q[i] \in Entries
      BY <2>2
    <3>2. \A i \in DOMAIN q : g[q[i]] = Releases(q[i])
      BY <3>1, Zenon
    <3>3. c = [i \in DOMAIN q |-> Releases(q[i])]
      BY <1>4, <2>1, <2>2, Zenon
    <3> HIDE DEF g
    <3> QED
      BY <3>2, <3>3, Zenon
  <2>4. \A x \in S : g[x] = Releases(x) /\ g[x] \in Operations
    BY OwnOpsAre
  <2> HIDE DEF g
  <2>5. c \in [DOMAIN q -> Operations] /\ \A i \in DOMAIN q : c[i] = g[q[i]]
    <3>1. \A i \in DOMAIN q : q[i] \in S
      BY <2>2
    <3> QED BY <2>3, <2>4, <3>1
  <2>6. c \in Seq(Operations) /\ ToSet(c) = {g[x] : x \in S}
    <3>1. S \in SUBSET Entries /\ q \in Seq(S) /\ ToSet(q) = S
      BY <2>2, Zenon
    <3>2. c \in [DOMAIN q -> Operations]
      BY <2>5, Zenon
    <3>3. \A i \in DOMAIN q : c[i] = g[q[i]]
      BY <2>5, Zenon
    <3>4. PerEntry(c, S, g)
      <4> HIDE <1>4, <2>1, <2>3
      <4> QED BY <3>1, <3>2, <3>3, OnePerEntry
    <3> QED BY <3>4, Zenon DEF PerEntry
  <2> QED
    BY <2>1, <2>4, <2>6, Zenon
<1>9. a \o b \in Seq(Operations) /\ ToSet(a \o b) = ToSet(a) \cup ToSet(b)
  <2>1. a \in Seq(Operations) /\ b \in Seq(Operations)
    BY <1>6, <1>7
  <2> QED
    BY <2>1, OfConcat, Zenon
<1>10. a \o b \o c \in Seq(Operations) /\ ToSet(a \o b \o c) = ToSet(a \o b) \cup ToSet(c)
  <2>1. a \o b \in Seq(Operations) /\ c \in Seq(Operations)
    BY <1>8, <1>9
  <2> QED
    BY <2>1, OfConcat, Zenon
<1>11. ToSet(ops) = {Cancels(x) : x \in Dropped(s, disposition)} \cup {Trashes(x) : x \in T}
                    \cup {Releases(x) : x \in Ending(s)}
  BY <1>4, <1>6, <1>7, <1>8, <1>9, <1>10, Zenon
<1>12. ops \in Seq(Operations)
  BY <1>4, <1>10, Zenon
<1> QED
  BY <1>3, <1>11, <1>12, Zenon

LEMMA SweepOpsAre ==
    ASSUME NEW S \in SUBSET Entries, IsFiniteSet(Entries), NEW ops,
           ops = [i \in DOMAIN SetToSeq(S) |-> Removes(SetToSeq(S)[i])]
    PROVE  ops \in Seq(Operations)
<1>1. PICK q \in Seq(S) : q = SetToSeq(S) /\ ToSet(q) = S
  <2>1. IsFiniteSet(S)
    BY FS_Subset
  <2> QED
    BY <2>1, InSomeOrder
<1>2. ops = [i \in DOMAIN q |-> Removes(q[i])]
  BY <1>1, Zenon
<1>3. PICK n \in Nat : n = Len(q)
  <2>1. Len(q) \in Nat
    OBVIOUS
  <2> QED BY <2>1, Zenon
<1>4. DOMAIN q = 1 .. n /\ \A i \in 1 .. n : q[i] \in Entries
  BY <1>3
<1>5. \A i \in 1 .. n : Removes(q[i]) \in Operations
  BY <1>4, OwnOpsAre
<1>6. ops \in [1 .. n -> Operations]
  BY <1>2, <1>4, <1>5
<1> QED
  BY <1>6

\* An operation a session's end may ask for.
OwnOp(op) ==
    \/ op.kind = "set_state" /\ op.state = "cancelled"
    \/ op.kind = "trash"
    \/ op.kind = "set_session" /\ op.session = Nobody

\* It takes an entry nearer to its end, never back.
LEMMA OwnOpKeeps ==
    ASSUME NEW b \in Boards, NEW op \in Operations, OwnOp(op), NEW id \in Entries, Has(b, id),
           NEW e2, e2 = Effect(b, op)
    PROVE  /\ Has(e2, id)
           /\ b[id].holder = Nobody \/ (op.kind = "set_session" /\ op.id = id) => e2[id].holder = Nobody
           /\ Live(e2, id) => Live(b, id)
           /\ isTerminal(b[id].state) \/ (op.kind = "set_state" /\ op.id = id) => isTerminal(e2[id].state)
<1>1. op.kind \in {"set_state", "trash", "set_session"}
  BY DEF OwnOp
<1>2. /\ \A x \in Entries \ {op.id} : e2[x] = b[x]
      /\ Has(e2, op.id)
      /\ Has(b, op.id) =>
           /\ op.kind # "set_state" => e2[op.id].state = b[op.id].state
           /\ op.kind # "set_session" => e2[op.id].holder = b[op.id].holder
           /\ op.kind # "trash" => e2[op.id].trash = b[op.id].trash
           /\ op.kind = "set_state" => e2[op.id].state = op.state
           /\ op.kind = "set_session" => e2[op.id].holder = op.session
           /\ op.kind = "trash" => e2[op.id].trash = "trashed"
  BY <1>1, EffectIs
<1>3. CASE op.id # id
  BY <1>2, <1>3 DEF Live, Has
<1>4. CASE op.id = id
  <2>1. isTerminal("cancelled")
    BY DEF isTerminal
  <2>2. op.kind = "set_state" => op.state = "cancelled"
    BY DEF OwnOp
  <2>3. op.kind = "set_session" => op.session = Nobody
    BY DEF OwnOp
  <2>4. Live(e2, id) => Live(b, id)
    BY <1>1, <1>2, <1>4 DEF Live
  <2> QED
    BY <1>1, <1>2, <1>4, <2>1, <2>2, <2>3, <2>4
<1> QED
  BY <1>3, <1>4

\* After the batch of a session's end nothing is in its name, and when it was
\* cancelled nothing of what it held is open but in the trash.
LEMMA EndBatchKeeps ==
    ASSUME board \in Boards, NEW s, NEW disposition, NEW ops \in Seq(Operations), NEW T \in SUBSET Entries,
           ToSet(ops) = {Cancels(x) : x \in Dropped(s, disposition)} \cup {Trashes(x) : x \in T}
                        \cup {Releases(x) : x \in Ending(s)},
           NEW N \in Nat, N = Len(ops), NEW f, NEW actor, Written(f, N, board, ops, actor),
           NEW id \in Ending(s)
    PROVE  /\ Has(f[N], id) /\ f[N][id].holder = Nobody
           /\ disposition = "cancel" /\ Live(f[N], id) => isTerminal(f[N][id].state)
<1>1. /\ f[0] = board /\ \A n \in 0 .. N : f[n] \in Boards
      /\ \A n \in 1 .. N : f[n] = Effect(f[n - 1], ops[n])
  BY Zenon DEF Written
<1>2. id \in Entries /\ Has(board, id)
  BY DEF Ending
<1>3. ASSUME NEW n \in 1 .. N PROVE ops[n] \in Operations /\ OwnOp(ops[n])
  <2>1. PICK op \in Operations : op = ops[n] /\ op \in ToSet(ops)
    BY DEF ToSet
  <2>2. CASE \E x \in Dropped(s, disposition) : op = Cancels(x)
    <3>1. PICK x \in Entries : op = Cancels(x)
      BY <2>2 DEF Dropped, Ending
    <3> QED
      BY <2>1, <3>1, OwnOpsAre DEF OwnOp
  <2>3. CASE \E x \in T : op = Trashes(x)
    <3>1. PICK x \in Entries : op = Trashes(x)
      BY <2>3
    <3> QED
      BY <2>1, <3>1, OwnOpsAre DEF OwnOp
  <2>4. CASE \E x \in Ending(s) : op = Releases(x)
    <3>1. PICK x \in Entries : op = Releases(x)
      BY <2>4 DEF Ending
    <3> QED
      BY <2>1, <3>1, OwnOpsAre DEF OwnOp
  <2> QED
    BY <2>1, <2>2, <2>3, <2>4
<1>4. \A op \in ToSet(ops) : \E n \in 1 .. N : ops[n] = op
  BY DEF ToSet
<1>5. PICK n0 \in 1 .. N : ops[n0].kind = "set_session" /\ ops[n0].id = id
  <2>1. Releases(id) \in ToSet(ops)
    OBVIOUS
  <2>2. PICK n \in 1 .. N : ops[n] = Releases(id)
    BY <1>4, <2>1, Zenon
  <2>3. Releases(id).kind = "set_session" /\ Releases(id).id = id
    BY <1>2, OwnOpsAre, Zenon
  <2> QED
    BY <2>2, <2>3, Zenon
<1>6. ASSUME NEW n \in 1 .. N, Has(f[n - 1], id)
      PROVE  /\ Has(f[n], id)
             /\ f[n - 1][id].holder = Nobody \/ n = n0 => f[n][id].holder = Nobody
             /\ Live(f[n], id) => Live(f[n - 1], id)
             /\ isTerminal(f[n - 1][id].state) \/ (ops[n].kind = "set_state" /\ ops[n].id = id)
                  => isTerminal(f[n][id].state)
  <2>1. PICK b \in Boards : b = f[n - 1]
    BY <1>1
  <2>2. PICK op \in Operations : op = ops[n] /\ OwnOp(op)
    BY <1>3
  <2>3. PICK e2 : e2 = Effect(b, op)
    OBVIOUS
  <2>4. f[n] = e2
    BY <1>1, <2>1, <2>2, <2>3
  <2>5. Has(b, id)
    BY <1>6, <2>1
  <2>6. /\ Has(e2, id)
        /\ b[id].holder = Nobody \/ (op.kind = "set_session" /\ op.id = id) => e2[id].holder = Nobody
        /\ Live(e2, id) => Live(b, id)
        /\ isTerminal(b[id].state) \/ (op.kind = "set_state" /\ op.id = id) => isTerminal(e2[id].state)
    BY <1>2, <2>2, <2>3, <2>5, OwnOpKeeps
  <2> QED
    BY <1>5, <2>1, <2>2, <2>4, <2>6
<1> DEFINE G == {n \in 0 .. N : /\ Has(f[n], id)
                                /\ n >= n0 => f[n][id].holder = Nobody
                                /\ Live(f[n], id) => Live(board, id)}
<1>7. N \in G
  <2>1. 0 \in G
    BY <1>1, <1>2, <1>5
  <2>2. ASSUME NEW n \in 1 .. N, n - 1 \in G PROVE n \in G
    <3>1. Has(f[n - 1], id) /\ (n - 1 >= n0 => f[n - 1][id].holder = Nobody)
          /\ (Live(f[n - 1], id) => Live(board, id))
      BY <2>2
    <3>2. Has(f[n], id) /\ (f[n - 1][id].holder = Nobody \/ n = n0 => f[n][id].holder = Nobody)
          /\ (Live(f[n], id) => Live(f[n - 1], id))
      BY <1>6, <3>1
    <3>3. n >= n0 => n - 1 >= n0 \/ n = n0
      OBVIOUS
    <3> QED
      BY <3>1, <3>2, <3>3
  <2> HIDE DEF G
  <2>3. \A n \in 0 .. N : n \in G
    BY <2>1, <2>2, CountsUp
  <2> QED
    BY <2>3
<1>8. Has(f[N], id) /\ f[N][id].holder = Nobody /\ (Live(f[N], id) => Live(board, id))
  BY <1>7
<1>9. ASSUME NEW n \in 0 .. N PROVE Has(f[n], id)
  <2> DEFINE H == {m \in 0 .. N : Has(f[m], id)}
  <2>1. 0 \in H
    BY <1>1, <1>2
  <2>2. ASSUME NEW m \in 1 .. N, m - 1 \in H PROVE m \in H
    BY <1>6, <2>2
  <2> HIDE DEF H, G
  <2>3. \A m \in 0 .. N : m \in H
    BY <2>1, <2>2, CountsUp
  <2> QED
    BY <2>3 DEF H
<1>10. ASSUME disposition = "cancel", Live(board, id) PROVE isTerminal(f[N][id].state)
  <2>1. PICK n1 \in 0 .. N : /\ n1 = 0 => isTerminal(board[id].state)
                             /\ n1 # 0 => ops[n1].kind = "set_state" /\ ops[n1].id = id
    <3>1. CASE isTerminal(board[id].state)
      BY <3>1
    <3>2. CASE ~isTerminal(board[id].state)
      <4>1. id \in Dropped(s, disposition)
        BY <1>10, <3>2 DEF Dropped
      <4>2. Cancels(id) \in ToSet(ops)
        BY <4>1
      <4>3. PICK n \in 1 .. N : ops[n] = Cancels(id)
        BY <1>4, <4>2, Zenon
      <4>4. Cancels(id).kind = "set_state" /\ Cancels(id).id = id
        BY <1>2, OwnOpsAre, Zenon
      <4>5. ops[n].kind = "set_state" /\ ops[n].id = id
        BY <4>3, <4>4, Zenon
      <4>6. n \in 0 .. N /\ n # 0
        OBVIOUS
      <4> QED
        BY <4>5, <4>6
    <3> QED
      BY <3>1, <3>2
  <2> DEFINE H == {m \in 0 .. N : m >= n1 => isTerminal(f[m][id].state)}
  <2>2. 0 \in H
    BY <1>1, <2>1
  <2>3. ASSUME NEW m \in 1 .. N, m - 1 \in H PROVE m \in H
    <3>1. isTerminal(f[m - 1][id].state) \/ (ops[m].kind = "set_state" /\ ops[m].id = id)
            => isTerminal(f[m][id].state)
      BY <1>6, <1>9
    <3>2. m >= n1 => m - 1 >= n1 \/ (m = n1 /\ n1 # 0)
      BY <2>1
    <3> QED
      BY <2>1, <2>3, <3>1, <3>2
  <2> HIDE DEF H, G
  <2>4. \A m \in 0 .. N : m \in H
    BY <2>2, <2>3, CountsUp
  <2> QED
    BY <2>4 DEF H
<1> HIDE DEF G
<1> QED
  BY <1>8, <1>10

-----------------------------------------------------------------------------
(* The board stays sound *)

\* What a commit does, in the board's own variables.
LEMMA CommitIs ==
    ASSUME NEW out, NEW actor, NEW ending, Commit(out, actor, ending), board \in Boards,
           out.es \in Boards, \A x \in Entries \ out.touched : out.es[x] = board[x]
    PROVE  /\ board' = out.es /\ revision' = revision + 1 /\ registered' = registered
           /\ lastWrite'.actor = actor /\ lastWrite'.ending = ending
           /\ lastWrite'.rows \cup lastWrite'.unwritten = {o \in observationsFor(board, out.es, out.touched, actor) : o[1] \in registered}
           /\ cutShort' = (cutShort \/ out.cut)
<1>1. PICK due : /\ due = {o \in observationsFor(board, out.es, out.touched, actor) : o[1] \in registered}
                 /\ \E rows \in SUBSET due :
                      lastWrite' = [actor |-> actor, ending |-> ending, rows |-> rows, unwritten |-> due \ rows]
  BY Zenon DEF Commit
<1>2. /\ lastWrite'.actor = actor /\ lastWrite'.ending = ending
      /\ lastWrite'.rows \cup lastWrite'.unwritten = due
  <2>1. PICK rows \in SUBSET due :
           lastWrite' = [actor |-> actor, ending |-> ending, rows |-> rows, unwritten |-> due \ rows]
    BY <1>1
  <2>2. lastWrite'.actor = actor /\ lastWrite'.ending = ending /\ lastWrite'.rows = rows
        /\ lastWrite'.unwritten = due \ rows
    BY <2>1
  <2> QED
    BY <2>2
<1>3. board' = [id \in Entries |-> IF id \in out.touched THEN out.es[id] ELSE board[id]]
  BY Zenon DEF Commit
<1>4. \A x \in Entries : (IF x \in out.touched THEN out.es[x] ELSE board[x]) = out.es[x]
  OBVIOUS
<1>5. PICK e2 \in Boards : e2 = out.es
  OBVIOUS
<1>6. board' = [id \in Entries |-> e2[id]]
  BY <1>3, <1>4, <1>5
<1>7. board' = e2
  BY <1>5, <1>6 DEF Boards
<1>8. revision' = revision + 1 /\ registered' = registered /\ cutShort' = (cutShort \/ out.cut)
  BY Zenon DEF Commit
<1> QED
  BY <1>1, <1>2, <1>5, <1>7, <1>8, Zenon

Committed(out, actor, ending) ==
    /\ out.es \in Boards /\ \A x \in Entries \ out.touched : out.es[x] = board[x]
    /\ board' = out.es /\ revision' = revision + 1 /\ registered' = registered
    /\ lastWrite'.actor = actor /\ lastWrite'.ending = ending
    /\ lastWrite'.rows \cup lastWrite'.unwritten = {o \in observationsFor(board, out.es, out.touched, actor) : o[1] \in registered}
    /\ cutShort' = (cutShort \/ out.cut)

\* An accepted write and its commit, with E as OutcomeIs has it.
LEMMA WriteIs ==
    ASSUME NEW ops \in Seq(Operations), NEW actor, NEW ending, NEW out,
           board \in Boards, out = Outcome(board, ops, actor), out.why = "ok",
           Commit(out, actor, ending), NEW E \in SUBSET Entries, NEW N \in Nat, N = Len(ops)
    PROVE  /\ \E f, next, touched : Through(board, ops, actor, out, N, f, next, touched, E)
           /\ Committed(out, actor, ending)
<1>1. PICK f, next, touched : Through(board, ops, actor, out, N, f, next, touched, E)
  <2>1. PICK b \in Boards : b = board
    OBVIOUS
  <2>2. out = Outcome(b, ops, actor)
    BY <2>1
  <2>3. \E f, next, touched : Through(b, ops, actor, out, N, f, next, touched, E)
    BY <2>2, OutcomeIs
  <2> QED
    BY <2>1, <2>3
<1>2. out.es \in Boards /\ \A x \in Entries \ out.touched : out.es[x] = board[x]
  BY <1>1, Zenon DEF Through
<1>3. /\ board' = out.es /\ revision' = revision + 1 /\ registered' = registered
      /\ lastWrite'.actor = actor /\ lastWrite'.ending = ending
      /\ lastWrite'.rows \cup lastWrite'.unwritten = {o \in observationsFor(board, out.es, out.touched, actor) : o[1] \in registered}
      /\ cutShort' = (cutShort \/ out.cut)
  BY <1>2, CommitIs, Zenon
<1> QED
  BY <1>1, <1>2, <1>3, Zenon DEF Committed

LEMMA WriteSound ==
    ASSUME BoardSound, revision < MaxRevision, NEW ops \in Seq(Operations),
           NEW actor \in {Owner} \cup BoardSessions, NEW ending, NEW out,
           out = Outcome(board, ops, actor), out.why = "ok", Commit(out, actor, ending)
    PROVE  BoardSound'
<1>1. /\ board \in Boards /\ revision \in 0 .. MaxRevision /\ registered \subseteq BoardSessions
      /\ cutShort \in BOOLEAN
  BY Zenon DEF BoardSound, BoardTypeOK, Boards
<1>2. WellFormed(board) /\ (~cutShort => Closed(board))
  BY Zenon DEF BoardSound, Forest, FinishedClosed, WellFormed, Closed
<1>3. PICK N \in Nat : N = Len(ops)
  <2>1. Len(ops) \in Nat
    OBVIOUS
  <2> QED BY <2>1, Zenon
<1>4. PICK E \in SUBSET Entries : E = {}
  OBVIOUS
<1>0. /\ \E f, next, touched : Through(board, ops, actor, out, N, f, next, touched, E)
      /\ Committed(out, actor, ending)
  <2>1. board \in Boards
    BY <1>1
  <2> QED
    BY <1>3, <2>1, WriteIs, Zenon
<1>5. /\ \E f, next, touched : Through(board, ops, actor, out, N, f, next, touched, E)
      /\ out.es \in Boards
      /\ board' = out.es /\ revision' = revision + 1 /\ registered' = registered
      /\ lastWrite'.actor = actor /\ cutShort' = (cutShort \/ out.cut)
  BY <1>0, Zenon DEF Committed
<1>6. PICK f, next, touched : Through(board, ops, actor, out, N, f, next, touched, E)
  BY <1>5
<1>7. WellFormed(out.es)
  BY <1>1, <1>2, <1>6, ForestKept, Zenon
<1>8. ASSUME ~cutShort' PROVE Closed(out.es)
  <2>1. ~cutShort /\ ~out.cut
    BY <1>5, <1>8, Zenon
  <2>2. /\ next \in Boards /\ touched \in SUBSET Entries
        /\ \A x \in Entries \ touched : next[x] = board[x]
        /\ ~out.cut /\ Pending(next, {Item(x, FALSE) : x \in touched}) => Pending(out.es, {})
    BY <1>6, Zenon DEF Through
  <2>3. Closed(board)
    BY <1>2, <2>1, Zenon
  <2>4. Pending(next, {Item(x, FALSE) : x \in touched})
    BY <1>1, <2>2, <2>3, WriteIsPending, Zenon
  <2>5. Pending(out.es, {})
    BY <2>1, <2>2, <2>4, Zenon
  <2> QED
    BY <1>5, <2>5, NothingPending, Zenon
<1>9. BoardTypeOK'
  <2>1. revision' \in 0 .. MaxRevision
    BY <1>1, <1>5, BoardAssumption
  <2>2. lastWrite'.actor \in {Owner} \cup BoardSessions
    BY <1>5
  <2>3. cutShort' \in BOOLEAN
    BY <1>5, Zenon
  <2> QED
    BY <1>1, <1>5, <2>1, <2>2, <2>3, Zenon DEF BoardTypeOK, Boards
<1>10. Forest'
  BY <1>5, <1>7, Zenon DEF Forest, WellFormed
<1>11. FinishedClosed'
  BY <1>5, <1>8, Zenon DEF FinishedClosed, Closed
<1> QED
  BY <1>9, <1>10, <1>11, Zenon DEF BoardSound

\* Ageing in the trash changes nothing of the tree.
LEMMA TrashAgesSound ==
    ASSUME BoardSound, TrashAges
    PROVE  BoardSound'
<1>1. /\ board \in Boards /\ revision \in 0 .. MaxRevision /\ registered \subseteq BoardSessions
      /\ lastWrite.actor \in {Owner} \cup BoardSessions /\ cutShort \in BOOLEAN
  BY Zenon DEF BoardSound, BoardTypeOK, Boards
<1>2. WellFormed(board) /\ (~cutShort => Closed(board))
  BY Zenon DEF BoardSound, Forest, FinishedClosed, WellFormed, Closed
<1>a. PICK b \in Boards : b = board
  BY <1>1
<1>b. PICK e2 : e2 = board'
  OBVIOUS
<1>3. b = board /\ e2 = board'
  BY <1>a, <1>b
<1>4. e2 = [id \in Entries |-> IF Has(b, id) /\ b[id].trash = "trashed"
                               THEN Entry(b[id].state, b[id].parent, b[id].holder, "expired") ELSE b[id]]
  BY <1>3, Zenon DEF TrashAges
<1>5. /\ revision' = revision /\ registered' = registered /\ lastWrite' = lastWrite /\ cutShort' = cutShort
  BY DEF TrashAges
<1>6. ASSUME NEW x \in Entries
      PROVE  /\ e2[x] \in EntryRecords \cup {Absent}
             /\ Has(e2, x) <=> Has(b, x)
             /\ Live(e2, x) <=> Live(b, x)
             /\ Has(b, x) => e2[x].state = b[x].state /\ e2[x].parent = b[x].parent
  <2>1. CASE Has(b, x) /\ b[x].trash = "trashed"
    <3>1. PICK s \in BoardStates, p \in Entries \cup {NoParent},
               h \in BoardSessions \cup {Nobody}, t \in {"live", "trashed", "expired"} :
               s = b[x].state /\ p = b[x].parent /\ h = b[x].holder /\ t = "expired"
      BY <2>1, OnBoard
    <3>2. e2[x] = Entry(s, p, h, t)
      BY <1>4, <2>1, <3>1
    <3>3. /\ Entry(s, p, h, t) \in EntryRecords /\ Entry(s, p, h, t) # Absent
          /\ Entry(s, p, h, t).state = s /\ Entry(s, p, h, t).parent = p /\ Entry(s, p, h, t).trash = t
      BY EntryIs
    <3> HIDE <1>4
    <3> QED
      BY <2>1, <3>1, <3>2, <3>3 DEF Has, Live
  <2>2. CASE ~(Has(b, x) /\ b[x].trash = "trashed")
    <3>1. e2[x] = b[x]
      BY <1>4, <2>2
    <3> QED
      BY <3>1 DEF Boards, Has, Live
  <2> QED
    BY <2>1, <2>2
<1>7. e2 \in Boards
  <2>1. DOMAIN e2 = Entries /\ e2 = [x \in Entries |-> e2[x]]
    BY <1>4
  <2> QED
    BY <1>6, <2>1 DEF Boards
<1>8. \A x : liveChildren(e2, x) = liveChildren(b, x)
  BY <1>6 DEF liveChildren, Live
<1>9. Closed(b) => Closed(e2)
  <2>1. SUFFICES ASSUME Closed(b), NEW id \in Entries, Live(e2, id), isTerminal(e2[id].state),
                        NEW c \in liveChildren(e2, id)
                 PROVE  isTerminal(e2[c].state)
    BY DEF Closed
  <2>2. c \in Entries /\ c \in liveChildren(b, id) /\ Has(b, c) /\ Has(b, id) /\ Live(b, id)
    BY <1>6, <1>8, <2>1 DEF liveChildren, Live
  <2> QED
    BY <1>6, <2>1, <2>2 DEF Closed
<1>10. WellFormed(b) => WellFormed(e2)
  <2>0. IsFiniteSet(Entries) /\ NoParent \notin Entries
    BY BoardAssumption
  <2>1. SUFFICES ASSUME WellFormed(b), NEW id \in Entries, Has(e2, id)
                 PROVE  /\ e2[id].parent # NoParent => Has(e2, e2[id].parent)
                        /\ ~Cyclic(e2, id)
    BY DEF WellFormed
  <2>2. Has(b, id) /\ e2[id].parent = b[id].parent /\ b[id].parent \in Entries \cup {NoParent}
    BY <1>6, <2>1, OnBoard
  <2>3. e2[id].parent # NoParent => Has(e2, e2[id].parent)
    BY <1>6, <2>1, <2>2 DEF WellFormed
  <2>4. ASSUME Cyclic(e2, id) PROVE FALSE
    <3>1. PICK S \in SUBSET Entries : id \in S /\ Loops(e2, S)
      BY <1>7, <2>0, <2>4, CyclicIs
    <3>2. Loops(b, S)
      BY <1>6, <3>1 DEF Loops
    <3>3. Cyclic(b, id)
      BY <2>0, <3>1, <3>2, CyclicIs
    <3> QED
      BY <2>1, <2>2, <3>3 DEF WellFormed
  <2> QED
    BY <2>3, <2>4
<1>11. BoardTypeOK'
  BY <1>1, <1>3, <1>5, <1>7, Zenon DEF BoardTypeOK, Boards
<1>12. Forest'
  BY <1>2, <1>3, <1>10, Zenon DEF Forest, WellFormed
<1>13. FinishedClosed'
  BY <1>2, <1>3, <1>5, <1>9, Zenon DEF FinishedClosed, Closed
<1> QED
  BY <1>11, <1>12, <1>13, Zenon DEF BoardSound

\* The steps that write, as accepted batches.
LEMMA StepsWrite ==
    ASSUME BoardSound, BoardWrite \/ SweepTrash \/ \E s \in BoardSessions, d \in {"release", "cancel"} : SessionEnded(s, d)
    PROVE  \E actor \in {Owner} \cup BoardSessions, ops \in Seq(Operations) :
              \E ending, out :
                       /\ revision < MaxRevision
                       /\ out = Outcome(board, ops, actor) /\ out.why = "ok" /\ Commit(out, actor, ending)
                       /\ ending # << >> =>
                            \E s, d : ending = <<s, d>> /\ actor = Owner /\ ops = SessionEndOps(s, d)
<1>0. IsFiniteSet(Entries) /\ Batches \subseteq Seq(Operations) /\ registered \subseteq BoardSessions
  BY BoardAssumption DEF BoardSound, BoardTypeOK
<1>1. CASE BoardWrite
  <2>1. PICK actor \in {Owner} \cup registered, ops \in Batches :
           \E out \in {Outcome(board, ops, actor)} : out.why = "ok" /\ Commit(out, actor, << >>)
    BY <1>1, Zenon DEF BoardWrite
  <2>2. PICK out : out = Outcome(board, ops, actor) /\ out.why = "ok" /\ Commit(out, actor, << >>)
    BY <2>1, Zenon
  <2>3. actor \in {Owner} \cup BoardSessions /\ ops \in Seq(Operations)
    BY <1>0, <2>1
  <2>4. revision < MaxRevision
    BY <1>1, Zenon DEF BoardWrite
  <2> QED
    BY <2>2, <2>3, <2>4, Zenon
<1>2. CASE SweepTrash
  <2> DEFINE dead == {id \in Entries : Has(board, id) /\ board[id].trash = "expired"}
             S == {id \in dead : \A c \in Entries : Has(board, c) /\ board[c].parent = id => c \in dead}
             ops == [i \in DOMAIN SetToSeq(S) |-> Removes(SetToSeq(S)[i])]
  <2>1. PICK out : out = Outcome(board, ops, Owner) /\ out.why = "ok" /\ Commit(out, Owner, << >>)
    BY <1>2, Zenon DEF SweepTrash, Removes
  <2>2. S \in SUBSET Entries
    OBVIOUS
  <2>3. PICK o : o = ops
    OBVIOUS
  <2>4. o \in Seq(Operations)
    <3>1. PICK T \in SUBSET Entries : T = S
      BY <2>2
    <3>2. o = [i \in DOMAIN SetToSeq(T) |-> Removes(SetToSeq(T)[i])]
      BY <2>3, <3>1, Zenon
    <3> HIDE DEF ops, S, dead
    <3> QED
      BY <1>0, <3>2, SweepOpsAre
  <2>5. revision < MaxRevision
    BY <1>2, Zenon DEF SweepTrash
  <2>6. out = Outcome(board, o, Owner)
    BY <2>1, <2>3, Zenon
  <2>7. Owner \in {Owner} \cup BoardSessions
    OBVIOUS
  <2> HIDE DEF ops, S, dead
  <2> QED
    BY <2>1, <2>4, <2>5, <2>6, <2>7, Zenon
<1>3. ASSUME NEW s \in BoardSessions, NEW d \in {"release", "cancel"}, SessionEnded(s, d)
      PROVE  \E actor \in {Owner} \cup BoardSessions, ops \in Seq(Operations) :
                \E ending, out :
                         /\ revision < MaxRevision
                         /\ out = Outcome(board, ops, actor) /\ out.why = "ok" /\ Commit(out, actor, ending)
                         /\ ending # << >> =>
                              \E t, e : ending = <<t, e>> /\ actor = Owner /\ ops = SessionEndOps(t, e)
  <2>1. PICK ops : /\ ops = SessionEndOps(s, d)
                   /\ \E out \in {Outcome(board, ops, Owner)} : out.why = "ok" /\ Commit(out, Owner, <<s, d>>)
    BY <1>3, Zenon DEF SessionEnded
  <2>2. PICK out : out = Outcome(board, ops, Owner) /\ out.why = "ok" /\ Commit(out, Owner, <<s, d>>)
    BY <2>1, Zenon
  <2>3. revision < MaxRevision
    BY <1>3, Zenon DEF SessionEnded
  <2>4. ops \in Seq(Operations)
    BY <1>0, <2>1, SessionEndOpsAre
  <2>5. Owner \in {Owner} \cup BoardSessions
    OBVIOUS
  <2> QED
    BY <2>1, <2>2, <2>3, <2>4, <2>5, Zenon
<1> QED
  BY <1>1, <1>2, <1>3, Zenon

\* The step of the board.
LEMMA BoardStep ==
    ASSUME BoardSound, [BoardNext]_boardVars
    PROVE  BoardSound'
<1>1. CASE BoardWrite \/ SweepTrash \/ \E s \in BoardSessions, d \in {"release", "cancel"} : SessionEnded(s, d)
  <2>0. PICK actor \in {Owner} \cup BoardSessions, ops \in Seq(Operations) :
           \E ending, out :
              /\ revision < MaxRevision
              /\ out = Outcome(board, ops, actor) /\ out.why = "ok" /\ Commit(out, actor, ending)
    BY <1>1, StepsWrite, Zenon
  <2>1. PICK ending, out :
           /\ revision < MaxRevision
           /\ out = Outcome(board, ops, actor) /\ out.why = "ok" /\ Commit(out, actor, ending)
    BY <2>0
  <2> QED
    BY <2>1, WriteSound, Zenon
<1>2. CASE TrashAges
  BY <1>2, TrashAgesSound, Zenon
<1>3. CASE SessionsKnown
  <2>1. board' = board /\ revision' = revision /\ lastWrite' = lastWrite /\ cutShort' = cutShort
        /\ registered' \subseteq BoardSessions
    BY <1>3 DEF SessionsKnown
  <2> QED
    BY <2>1, Zenon DEF BoardSound, BoardTypeOK, Forest, FinishedClosed
<1>4. CASE UNCHANGED boardVars
  <2>1. board' = board /\ revision' = revision /\ lastWrite' = lastWrite /\ cutShort' = cutShort
        /\ registered' = registered
    BY <1>4 DEF boardVars
  <2> QED
    BY <2>1, Zenon DEF BoardSound, BoardTypeOK, Forest, FinishedClosed
<1> QED
  BY <1>1, <1>2, <1>3, <1>4, Zenon DEF BoardNext

LEMMA BoardStart ==
    ASSUME BoardInit
    PROVE  BoardSound
<1>1. \A x \in Entries : ~Has(board, x)
  BY DEF BoardInit, Has
<1>2. board \in [Entries -> EntryRecords \cup {Absent}]
  BY DEF BoardInit
<1>3. lastWrite.actor = Owner /\ revision = 0 /\ registered = BoardSessions /\ cutShort = FALSE
  BY DEF BoardInit
<1>4. BoardTypeOK
  <2>1. revision \in 0 .. MaxRevision
    BY <1>3, BoardAssumption
  <2>2. lastWrite.actor \in {Owner} \cup BoardSessions
    BY <1>3
  <2> QED
    BY <1>2, <1>3, <2>1, <2>2, Zenon DEF BoardTypeOK
<1>5. Forest
  BY <1>1 DEF Forest
<1>6. FinishedClosed
  BY <1>1 DEF FinishedClosed, Live
<1> QED
  BY <1>4, <1>5, <1>6 DEF BoardSound

\* The stored entries are a forest in which nothing finished stands over unfinished
\* live work, unless a cascade was stopped at its ceiling (boardService.ts write).
THEOREM BoardStaysSound == BoardSpec => []BoardSound
<1>1. BoardInit => BoardSound
  BY BoardStart
<1>2. BoardSound /\ [BoardNext]_boardVars => BoardSound'
  BY BoardStep
<1> QED
  BY <1>1, <1>2, PTL DEF BoardSpec

-----------------------------------------------------------------------------
(* What a write owes those that hold entries *)

HeldStep ==
    \A id \in Entries : lastWrite'.actor # Owner /\ revision' # revision /\ Has(board, id)
           /\ (board[id].holder \notin {Nobody, lastWrite'.actor} \/ board[id].trash # "live") =>
         /\ Has(board', id)
         /\ board'[id].trash = board[id].trash
         /\ board'[id].holder = board[id].holder
         /\ board'[id].parent \in {board[id].parent, NoParent}
ToldStep ==
    \A s \in registered, id \in Entries :
         board'[id] # board[id] /\ revision' # revision /\ lastWrite'.actor # s
           /\ (holds(board, id, s) \/ holds(board', id, s)) =>
                <<s, id>> \in lastWrite'.rows \cup lastWrite'.unwritten
SettledStep ==
    revision' # revision /\ lastWrite'.ending # << >> =>
         \A id \in Entries : Has(board, id) /\ board[id].holder = lastWrite'.ending[1] =>
            /\ board'[id].holder = Nobody
            /\ ~cutShort' /\ lastWrite'.ending[2] = "cancel" /\ Live(board', id) /\ ~isTerminal(board'[id].state) =>
                 \E c \in liveChildren(board', id) : ~isTerminal(board'[c].state)

LEMMA WriteLeavesHeld ==
    ASSUME board \in Boards, NEW ops \in Seq(Operations), NEW actor, NEW ending, NEW out, actor # Owner,
           NEW E, NEW N \in Nat, N = Len(ops), NEW f, NEW next, NEW touched,
           Through(board, ops, actor, out, N, f, next, touched, E),
           NEW id \in Entries, Guarded(board, id, actor)
    PROVE  /\ Has(out.es, id)
           /\ out.es[id].trash = board[id].trash /\ out.es[id].holder = board[id].holder
           /\ out.es[id].parent \in {board[id].parent, NoParent}
<1>1. /\ Written(f, N, board, ops, actor)
      /\ next = promoteOrphans(f[N]) /\ SameTree(next, out.es)
  BY Zenon DEF Through
<1>2. f[N] \in Boards
  <2>1. \A n \in 0 .. N : f[n] \in Boards
    BY <1>1, Zenon DEF Written
  <2> QED
    BY <2>1
<1>3. f[N][id] = board[id]
  <2>1. Written(f, N, board, ops, actor) /\ ops \in Seq(Operations) /\ N \in Nat /\ N = Len(ops)
    BY <1>1, Zenon
  <2>2. AsBefore(f, N, board, id)
    BY <2>1, GuardedKept
  <2> QED
    BY <2>2, Zenon DEF AsBefore
<1>4. PICK b \in Boards : b = f[N]
  BY <1>2
<1>5. /\ Has(next, id) <=> Has(b, id)
      /\ Has(next, id) => /\ next[id].holder = b[id].holder /\ next[id].trash = b[id].trash
                          /\ next[id].parent \in {b[id].parent, NoParent}
  <2>1. next = promoteOrphans(b)
    BY <1>1, <1>4
  <2> QED
    BY <2>1, PromoteIs
<1>6. Has(b, id) /\ b[id] = board[id]
  BY <1>3, <1>4 DEF Guarded, Has
<1>7. /\ Has(out.es, id) /\ out.es[id].parent = next[id].parent
      /\ out.es[id].holder = next[id].holder /\ out.es[id].trash = next[id].trash
  BY <1>1, <1>5, <1>6, Zenon DEF SameTree
<1> QED
  BY <1>5, <1>6, <1>7

LEMMA WriteTells ==
    ASSUME NEW out, NEW actor, NEW ending, Committed(out, actor, ending), registered \subseteq BoardSessions,
           NEW s \in registered, NEW id \in Entries, board'[id] # board[id], actor # s,
           holds(board, id, s) \/ holds(board', id, s)
    PROVE  <<s, id>> \in lastWrite'.rows \cup lastWrite'.unwritten
<1>1. /\ \A x \in Entries \ out.touched : out.es[x] = board[x]
      /\ board' = out.es
      /\ lastWrite'.rows \cup lastWrite'.unwritten = {o \in observationsFor(board, out.es, out.touched, actor) : o[1] \in registered}
  BY Zenon DEF Committed
<1>2. id \in out.touched
  BY <1>1
<1>3. holds(board, id, s) \/ holds(out.es, id, s)
  BY <1>1, Zenon
<1>4. <<s, id>> \in observationsFor(board, out.es, out.touched, actor)
  <2>1. s \in BoardSessions \ {actor}
    OBVIOUS
  <2>2. PICK o : o = <<s, id>>
    OBVIOUS
  <2>3. o[1] = s /\ o[2] = id
    BY <2>2
  <2>4. o \in {<<t, x>> : t \in BoardSessions \ {actor}, x \in out.touched}
    BY <1>2, <2>1, <2>2
  <2>5. holds(board, o[2], o[1]) \/ holds(out.es, o[2], o[1])
    BY <1>3, <2>3, Zenon
  <2>6. o \in observationsFor(board, out.es, out.touched, actor)
    BY <2>4, <2>5 DEF observationsFor
  <2> QED
    BY <2>2, <2>6
<1>5. <<s, id>>[1] \in registered
  OBVIOUS
<1> QED
  BY <1>1, <1>4, <1>5, Zenon

LEMMA EndSettles ==
    ASSUME board \in Boards, NEW s, NEW disposition, NEW ops \in Seq(Operations), NEW actor, NEW out,
           ops = SessionEndOps(s, disposition), NEW N \in Nat, N = Len(ops), NEW f, NEW next, NEW touched,
           Through(board, ops, actor, out, N, f, next, touched, Ending(s)), NEW id \in Ending(s)
    PROVE  /\ out.es[id].holder = Nobody
           /\ ~out.cut /\ disposition = "cancel" /\ Live(out.es, id) /\ ~isTerminal(out.es[id].state) =>
                \E c \in liveChildren(out.es, id) : ~isTerminal(out.es[c].state)
<1>0. IsFiniteSet(Entries)
  BY BoardAssumption
<1>1. /\ Written(f, N, board, ops, actor)
      /\ next = promoteOrphans(f[N]) /\ SameTree(next, out.es)
      /\ ~out.cut /\ Reopened(next, {}, Ending(s)) => Reopened(out.es, {}, Ending(s))
  BY Zenon DEF Through
<1>2. PICK T \in SUBSET Entries :
         ToSet(ops) = {Cancels(x) : x \in Dropped(s, disposition)} \cup {Trashes(x) : x \in T}
                      \cup {Releases(x) : x \in Ending(s)}
  BY <1>0, SessionEndOpsAre, Zenon
<1>3. ASSUME NEW x \in Ending(s)
      PROVE  /\ Has(f[N], x) /\ f[N][x].holder = Nobody
             /\ disposition = "cancel" /\ Live(f[N], x) => isTerminal(f[N][x].state)
  <2>1. Written(f, N, board, ops, actor) /\ N \in Nat /\ N = Len(ops) /\ ops \in Seq(Operations)
        /\ x \in Ending(s) /\ board \in Boards
    BY <1>1, Zenon
  <2> QED
    BY <1>2, <2>1, EndBatchKeeps
<1>4. PICK b \in Boards : b = f[N]
  <2>1. \A n \in 0 .. N : f[n] \in Boards
    BY <1>1, Zenon DEF Written
  <2> QED
    BY <2>1
<1>5. \A x \in Entries :
        /\ Has(next, x) <=> Has(b, x)
        /\ Has(next, x) => /\ next[x].holder = b[x].holder /\ next[x].trash = b[x].trash
                           /\ next[x].state = b[x].state
  <2>1. next = promoteOrphans(b)
    BY <1>1, <1>4
  <2> QED
    BY <2>1, PromoteIs
<1>6. Ending(s) \subseteq Entries
  BY DEF Ending
<1>7. out.es[id].holder = Nobody
  <2>1. Has(b, id) /\ b[id].holder = Nobody
    BY <1>3, <1>4
  <2>2. Has(next, id) /\ next[id].holder = Nobody
    BY <1>5, <1>6, <2>1
  <2> QED
    BY <1>1, <1>6, <2>2 DEF SameTree
<1>8. ASSUME ~out.cut, disposition = "cancel", Live(out.es, id), ~isTerminal(out.es[id].state)
      PROVE  \E c \in liveChildren(out.es, id) : ~isTerminal(out.es[c].state)
  <2>1. ASSUME NEW x \in Ending(s), Live(next, x) PROVE isTerminal(next[x].state)
    <3>1. x \in Entries /\ Has(next, x) /\ next[x].trash = "live"
      BY <1>6, <2>1 DEF Live
    <3>2. Live(b, x) /\ next[x].state = b[x].state
      BY <1>5, <3>1 DEF Live
    <3> QED
      BY <1>3, <1>4, <1>8, <3>2
  <2>2. Reopened(next, {}, Ending(s))
    BY <2>1 DEF Reopened
  <2>3. Reopened(out.es, {}, Ending(s))
    BY <1>1, <1>8, <2>2, Zenon
  <2> QED
    BY <1>8, <2>3, Zenon DEF Reopened
<1> QED
  BY <1>7, <1>8

\* Each step keeps the three promises.
LEMMA StepKeepsHeld ==
    ASSUME BoardSound, BoardNext
    PROVE  HeldStep /\ ToldStep /\ SettledStep
<1>1. board \in Boards /\ registered \subseteq BoardSessions /\ revision \in Nat
  BY DEF BoardSound, BoardTypeOK, Boards
<1>2. CASE TrashAges \/ SessionsKnown
  <2>1. revision' = revision
    BY <1>2 DEF TrashAges, SessionsKnown
  <2> QED
    BY <2>1, Zenon DEF HeldStep, ToldStep, SettledStep
<1>3. CASE BoardWrite \/ SweepTrash \/ \E s \in BoardSessions, d \in {"release", "cancel"} : SessionEnded(s, d)
  <2>0. PICK actor \in {Owner} \cup BoardSessions, ops \in Seq(Operations) :
           \E ending, out :
              /\ out = Outcome(board, ops, actor) /\ out.why = "ok" /\ Commit(out, actor, ending)
              /\ ending # << >> => \E s, d : ending = <<s, d>> /\ actor = Owner /\ ops = SessionEndOps(s, d)
    BY <1>3, StepsWrite, Zenon
  <2>1. PICK ending, out :
           /\ out = Outcome(board, ops, actor) /\ out.why = "ok" /\ Commit(out, actor, ending)
           /\ ending # << >> => \E s, d : ending = <<s, d>> /\ actor = Owner /\ ops = SessionEndOps(s, d)
    BY <2>0
  <2>2. PICK N \in Nat : N = Len(ops)
    <3>1. Len(ops) \in Nat
      OBVIOUS
    <3> QED BY <3>1, Zenon
  <2>3. ASSUME NEW E \in SUBSET Entries
        PROVE  /\ \E f, next, touched : Through(board, ops, actor, out, N, f, next, touched, E)
               /\ Committed(out, actor, ending)
    <3>1. board \in Boards /\ ops \in Seq(Operations) /\ E \in SUBSET Entries
      BY <1>1
    <3> QED
      BY <2>1, <2>2, <3>1, WriteIs, Zenon
  <2>4. Committed(out, actor, ending)
    <3>1. {} \in SUBSET Entries
      OBVIOUS
    <3> QED
      BY <2>3, <3>1, Zenon
  <2>5. board' = out.es /\ lastWrite'.actor = actor /\ lastWrite'.ending = ending
        /\ cutShort' = (cutShort \/ out.cut)
    BY <2>4, Zenon DEF Committed
  <2>6. HeldStep
    <3>1. SUFFICES ASSUME NEW id \in Entries, actor # Owner, Guarded(board, id, actor)
                   PROVE  /\ Has(board', id)
                          /\ board'[id].trash = board[id].trash
                          /\ board'[id].holder = board[id].holder
                          /\ board'[id].parent \in {board[id].parent, NoParent}
      BY <2>5, Zenon DEF HeldStep, Guarded
    <3>2. PICK f, next, touched : Through(board, ops, actor, out, N, f, next, touched, {})
      <4>1. {} \in SUBSET Entries
        OBVIOUS
      <4> QED
        BY <2>3, <4>1, Zenon
    <3>3. board \in Boards /\ actor # Owner /\ N = Len(ops)
      BY <1>1, <2>2, <3>1
    <3>4. /\ Has(out.es, id)
          /\ out.es[id].trash = board[id].trash /\ out.es[id].holder = board[id].holder
          /\ out.es[id].parent \in {board[id].parent, NoParent}
      BY <3>1, <3>2, <3>3, WriteLeavesHeld, Zenon
    <3> QED
      BY <2>5, <3>4, Zenon
  <2>7. ToldStep
    <3>1. SUFFICES ASSUME NEW s \in registered, NEW id \in Entries, board'[id] # board[id], actor # s,
                          holds(board, id, s) \/ holds(board', id, s)
                   PROVE  <<s, id>> \in lastWrite'.rows \cup lastWrite'.unwritten
      BY <2>5, Zenon DEF ToldStep
    <3> QED
      BY <1>1, <2>4, <3>1, WriteTells, Zenon
  <2>8. SettledStep
    <3>1. SUFFICES ASSUME ending # << >>
                   PROVE  \A id \in Entries : Has(board, id) /\ board[id].holder = ending[1] =>
                            /\ board'[id].holder = Nobody
                            /\ ~cutShort' /\ ending[2] = "cancel" /\ Live(board', id) /\ ~isTerminal(board'[id].state) =>
                                 \E c \in liveChildren(board', id) : ~isTerminal(board'[c].state)
      BY <2>5, Zenon DEF SettledStep
    <3>2. PICK s, d : ending = <<s, d>> /\ ops = SessionEndOps(s, d)
      BY <2>1, <3>1, Zenon
    <3>3. ending[1] = s /\ ending[2] = d
      BY <3>2
    <3>4. Ending(s) \in SUBSET Entries
      BY DEF Ending
    <3>5. PICK f, next, touched : Through(board, ops, actor, out, N, f, next, touched, Ending(s))
      BY <2>3, <3>4, Zenon
    <3>6. ASSUME NEW id \in Entries, Has(board, id), board[id].holder = s
          PROVE  /\ board'[id].holder = Nobody
                 /\ ~cutShort' /\ d = "cancel" /\ Live(board', id) /\ ~isTerminal(board'[id].state) =>
                      \E c \in liveChildren(board', id) : ~isTerminal(board'[c].state)
      <4>1. id \in Ending(s) /\ board \in Boards /\ N = Len(ops) /\ N \in Nat
        BY <1>1, <2>2, <3>6 DEF Ending
      <4>2. /\ out.es[id].holder = Nobody
            /\ ~out.cut /\ d = "cancel" /\ Live(out.es, id) /\ ~isTerminal(out.es[id].state) =>
                 \E c \in liveChildren(out.es, id) : ~isTerminal(out.es[c].state)
        BY <3>2, <3>5, <4>1, EndSettles, Zenon
      <4> QED
        BY <2>5, <4>2, Zenon
    <3> QED
      BY <3>3, <3>6, Zenon
  <2> QED
    BY <2>6, <2>7, <2>8
<1> QED
  BY <1>2, <1>3, Zenon DEF BoardNext

\* A session's write leaves the entries of other sessions alone, each holder is told
\* of what others change unless its row is refused, and a session that ends lets go of all it held
\* (board-authority.ts, boardService.ts observationsFor and sessionEnded).
THEOREM HoldersAreKept == BoardSpec => HoldersKept
<1>1. BoardInit => BoardSound
  BY BoardStart
<1>2. BoardSound /\ [BoardNext]_boardVars => BoardSound'
  BY BoardStep
<1>3. BoardSound /\ [BoardNext]_boardVars => [HeldStep]_boardVars
  BY StepKeepsHeld
<1>4. BoardSound /\ [BoardNext]_boardVars => [ToldStep]_boardVars
  BY StepKeepsHeld
<1>5. BoardSound /\ [BoardNext]_boardVars => [SettledStep]_boardVars
  BY StepKeepsHeld
<1>6. BoardSpec => [][HeldStep]_boardVars /\ [][ToldStep]_boardVars /\ [][SettledStep]_boardVars
  BY <1>1, <1>2, <1>3, <1>4, <1>5, PTL DEF BoardSpec
<1> QED
  BY <1>6, Zenon DEF HoldersKept, HeldUntouched, HoldersTold, EndedSettled, HeldStep, ToldStep, SettledStep
=============================================================================
