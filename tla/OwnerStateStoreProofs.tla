----------------------- MODULE OwnerStateStoreProofs -----------------------
(* Theorems about OwnerStateStore, for every value of its constants. *)
EXTENDS MCOwnerStateStore, FiniteSetTheorems, TLAPS

----------------------------------------------------------------------------
(* The inductive invariant *)

(* The faults that lose acknowledged writes do not happen. *)
Benign == Faults \cap {"newline", "dirsync", "wide"} = {}

(* The manifest is quarantined or damaged, for good. *)
Dead ==
    /\ manifest = manifestSynced
    /\ manifest.quarantine \/ ~ manifest.parses
    /\ status \in {"down", "quarantined"}

Snap == snapshots[current]
Jour == journals[current]

(* The journal continues its snapshot: seqs are consecutive, a line that   *)
(* parses has its newline, and only a damaged line with a synced successor *)
(* or the last one may fail to parse.                                      *)
JournalShape ==
    /\ synced <= Len(Jour)
    /\ \A i \in DOMAIN Jour : Jour[i].parses => Jour[i].nl
    /\ \A i \in DOMAIN Jour : ~ Jour[i].parses => (i < synced \/ i = Len(Jour))
    /\ Snap # Unreadable => \A i \in DOMAIN Jour : Jour[i].seq = Snap.seq + i

(* Every acknowledged entry is in the snapshot or in a synced whole line. *)
CurrentSafe ==
    Snap # Unreadable =>
        \A e \in acked : \/ e \in Snap.log
                         \/ \E i \in DOMAIN DropTorn(Jour) : i <= synced /\ e = EntryOf(Jour[i])

(* The segments a compaction prepares hold every acknowledged entry. *)
NextSafe ==
    /\ current + 1 \in Gens
    /\ journals[current + 1] = <<>>
    /\ snapshots[current + 1] # Unreadable => acked \subseteq snapshots[current + 1].log

(* A manifest names the current segments, the prepared ones, or removed ones. *)
NamesSafe(m) ==
    /\ m.parses /\ ~ m.quarantine
    /\ \/ m.gen = current
       \/ m.gen = current + 1 /\ NextSafe
       \/ m.gen < current /\ snapshots[m.gen] = Unreadable

(* While the process runs its state is the snapshot and the journal. *)
Running ==
    /\ manifest.gen = IF phase = "directory" THEN current + 1 ELSE current
    /\ manifestSynced.gen <= current
    /\ Snap # Unreadable
    /\ \A i \in DOMAIN Jour : Jour[i].parses
    /\ state.seq = Snap.seq + (IF phase = "fsync" THEN Len(Jour) - 1 ELSE Len(Jour))
    /\ synced <= state.seq - Snap.seq
    /\ state.log = Snap.log \cup {EntryOf(Jour[i]) : i \in 1 .. state.seq - Snap.seq}
    /\ phase = "fsync" => Jour # <<>> /\ pending = Jour[Len(Jour)] /\ pending \in Line
    /\ phase \in {"journal", "manifest", "directory"} =>
          current + 1 \in Gens /\ snapshots[current + 1] = state
    /\ phase \in {"manifest", "directory"} => journals[current + 1] = <<>>

Alive ==
    /\ status \in {"open", "closed", "down"}
    /\ NamesSafe(manifest) /\ NamesSafe(manifestSynced)
    /\ manifestSynced.gen <= manifest.gen
    /\ JournalShape
    /\ CurrentSafe
    /\ status = "closed" => manifest.gen = current
    /\ status = "open" => Running

IInv == TypeOK /\ (Dead \/ Alive)

----------------------------------------------------------------------------
(* Lemmas *)

(* Front and Last of a nonempty sequence. *)
LEMMA FrontLast ==
    ASSUME NEW S, NEW s \in Seq(S), s # <<>>
    PROVE  /\ Len(s) \in Nat /\ Len(s) >= 1
           /\ Last(s) = s[Len(s)] /\ Last(s) \in S
           /\ Front(s) \in Seq(S) /\ Len(Front(s)) = Len(s) - 1
           /\ \A i \in 1 .. Len(s) - 1 : Front(s)[i] = s[i]
  <1>1. Len(s) \in Nat /\ Len(s) >= 1
    OBVIOUS
  <1>2. Front(s) = [i \in 1 .. Len(s) - 1 |-> s[i]]
    BY <1>1 DEF Front
  <1> QED BY <1>1, <1>2 DEF Last

(* Appending one line leaves the others where they were. *)
LEMMA AppendFacts ==
    ASSUME NEW j \in Seq(Line), NEW l \in Line
    PROVE  /\ Append(j, l) \in Seq(Line) /\ Len(Append(j, l)) = Len(j) + 1 /\ Len(j) \in Nat
           /\ DOMAIN Append(j, l) = 1 .. Len(j) + 1 /\ DOMAIN j = 1 .. Len(j)
           /\ Append(j, l)[Len(j) + 1] = l
           /\ \A i \in 1 .. Len(j) : Append(j, l)[i] = j[i]
  OBVIOUS

(* Truncation keeps all lines but possibly the last one. *)
LEMMA DropTornFacts ==
    ASSUME NEW j \in Seq(Line)
    PROVE  /\ DropTorn(j) \in Seq(Line) /\ Len(j) \in Nat /\ DOMAIN j = 1 .. Len(j)
           /\ Len(DropTorn(j)) \in {Len(j), Len(j) - 1}
           /\ DOMAIN DropTorn(j) = 1 .. Len(DropTorn(j))
           /\ \A i \in DOMAIN DropTorn(j) : DropTorn(j)[i] = j[i]
           /\ (\A i \in 1 .. Len(j) : j[i].parses) => DropTorn(j) = j
           /\ j = <<>> => DropTorn(j) = <<>>
           /\ Len(DropTorn(j)) = Len(j) - 1 => ~ j[Len(j)].parses
           /\ Len(j) >= 1 /\ ~ j[Len(j)].parses => Len(DropTorn(j)) = Len(j) - 1
  <1>1. CASE j # <<>> /\ ~ Last(j).parses
    <2>1. DropTorn(j) = Front(j)
      BY <1>1 DEF DropTorn
    <2>2. /\ Last(j) = j[Len(j)] /\ Front(j) \in Seq(Line) /\ Len(Front(j)) = Len(j) - 1
          /\ Len(j) \in Nat /\ Len(j) >= 1
          /\ \A i \in 1 .. Len(j) - 1 : Front(j)[i] = j[i]
      BY <1>1, FrontLast
    <2> QED BY <1>1, <2>1, <2>2
  <1>2. CASE ~ (j # <<>> /\ ~ Last(j).parses)
    <2>1. DropTorn(j) = j
      BY <1>2 DEF DropTorn
    <2>2. Len(j) >= 1 => Last(j) = j[Len(j)] /\ j # <<>>
      BY DEF Last
    <2> QED BY <1>2, <2>1, <2>2
  <1> QED BY <1>1, <1>2

LEMMA DropTornDomain ==
    ASSUME NEW j \in Seq(Line)
    PROVE  \A k \in DOMAIN DropTorn(j) : k \in DOMAIN j
  <1>1. /\ Len(DropTorn(j)) \in {Len(j), Len(j) - 1} /\ Len(j) \in Nat
        /\ DOMAIN DropTorn(j) = 1 .. Len(DropTorn(j)) /\ DOMAIN j = 1 .. Len(j)
    BY DropTornFacts
  <1>2. CASE Len(DropTorn(j)) = Len(j)
    BY <1>1, <1>2, Zenon
  <1>3. CASE Len(DropTorn(j)) = Len(j) - 1
    <2>1. \A n \in Nat : \A k \in 1 .. n - 1 : k \in 1 .. n
      OBVIOUS
    <2>2. \A k \in 1 .. Len(j) - 1 : k \in 1 .. Len(j)
      BY <1>1, <2>1, Zenon
    <2> QED BY <1>1, <1>3, <2>2, Zenon
  <1> QED BY <1>1, <1>2, <1>3

LEMMA DropTornClean ==
    ASSUME NEW j \in Seq(Line), \A i \in DOMAIN j : j[i].parses
    PROVE  DropTorn(j) = j
  <1>1. ASSUME j # <<>> PROVE Last(j).parses
    <2>1. Len(j) \in Nat /\ Len(j) >= 1 /\ DOMAIN j = 1 .. Len(j)
      BY <1>1
    <2> QED BY <2>1 DEF Last
  <1> QED BY <1>1 DEF DropTorn

(* Whether the last line is cut depends on that line alone. *)
LEMMA DropTornLength ==
    ASSUME NEW j \in Seq(Line), NEW k \in Seq(Line), Len(j) = Len(k), Len(j) >= 1,
           j[Len(j)] = k[Len(j)]
    PROVE  DOMAIN DropTorn(j) = DOMAIN DropTorn(k)
  <1>1. /\ Len(DropTorn(j)) \in {Len(j), Len(j) - 1} /\ Len(j) \in Nat
        /\ DOMAIN DropTorn(j) = 1 .. Len(DropTorn(j))
        /\ Len(DropTorn(j)) = Len(j) - 1 <=> ~ j[Len(j)].parses
    BY DropTornFacts
  <1>2. /\ Len(DropTorn(k)) \in {Len(k), Len(k) - 1} /\ Len(k) \in Nat
        /\ DOMAIN DropTorn(k) = 1 .. Len(DropTorn(k))
        /\ Len(DropTorn(k)) = Len(k) - 1 <=> ~ k[Len(k)].parses
    BY DropTornFacts
  <1> QED BY <1>1, <1>2

(* Damage to one line changes nothing but whether it parses. *)
LEMMA DamagedFacts ==
    ASSUME NEW j \in Seq(Line), NEW i \in DOMAIN j
    PROVE  LET d == [j EXCEPT ![i].parses = FALSE]
           IN  /\ Len(d) = Len(j) /\ DOMAIN d = DOMAIN j /\ d \in Seq(Line)
               /\ \A k \in DOMAIN j : d[k] = j[k] \/ k = i
               /\ \A k \in DOMAIN j : EntryOf(d[k]) = EntryOf(j[k]) /\ d[k].seq = j[k].seq
               /\ ~ d[i].parses
  <1> DEFINE l == [j[i] EXCEPT !.parses = FALSE]
             d == [j EXCEPT ![i] = l]
  <1>1. j[i] \in Line
    OBVIOUS
  <1>2. l \in Line /\ l.seq = j[i].seq /\ l.id = j[i].id /\ ~ l.parses
    BY <1>1 DEF Line
  <1> HIDE DEF l
  <1>3. d \in Seq(Line) /\ Len(d) = Len(j) /\ DOMAIN d = DOMAIN j
    BY <1>2
  <1>4. d[i] = l /\ \A k \in DOMAIN j : d[k] = j[k] \/ k = i
    BY <1>3
  <1>5. \A k \in DOMAIN j : EntryOf(d[k]) = EntryOf(j[k]) /\ d[k].seq = j[k].seq
    BY <1>2, <1>4 DEF EntryOf
  <1> QED BY <1>2, <1>3, <1>4, <1>5 DEF l

(* Truncating what is left of a journal keeps every synced whole line. *)
LEMMA DropTornPrefix ==
    ASSUME NEW j \in Seq(Line), NEW left \in Seq(Line), NEW n \in Nat,
           n <= Len(left), Len(left) <= Len(j),
           left[n] = j[n],
           ~ j[n].parses => n = Len(j),
           NEW i \in DOMAIN DropTorn(j), i <= n
    PROVE  i \in DOMAIN DropTorn(left) /\ i <= Len(left) /\ i \in 1 .. n
  <1>1. /\ Len(DropTorn(j)) \in {Len(j), Len(j) - 1} /\ Len(j) \in Nat
        /\ DOMAIN DropTorn(j) = 1 .. Len(DropTorn(j))
        /\ Len(j) >= 1 /\ ~ j[Len(j)].parses => Len(DropTorn(j)) = Len(j) - 1
    BY DropTornFacts
  <1>2. /\ Len(DropTorn(left)) \in {Len(left), Len(left) - 1} /\ Len(left) \in Nat
        /\ DOMAIN DropTorn(left) = 1 .. Len(DropTorn(left))
        /\ Len(DropTorn(left)) = Len(left) - 1 => ~ left[Len(left)].parses
    BY DropTornFacts
  <1>3. i \in Int /\ 1 <= i /\ i <= Len(DropTorn(j))
    BY <1>1
  <1>4. CASE i = Len(left) /\ ~ left[i].parses
    <2>1. n <= i /\ i \in Int /\ n \in Int /\ i <= n
      BY <1>3, <1>4
    <2>2. i = n
      BY <2>1
    <2> QED BY <1>1, <1>3, <1>4, <2>2
  <1>5. CASE ~ (i = Len(left) /\ ~ left[i].parses)
    BY <1>2, <1>3, <1>5
  <1> QED BY <1>4, <1>5

(* A line appended after lines that have their newlines is a line. *)
LEMMA AppendClean ==
    ASSUME NEW j \in Seq(Line), NEW l \in Line, \A i \in DOMAIN j : j[i].nl
    PROVE  AppendBytes(j, l) = Append(j, l)
  <1>1. ASSUME j # <<>> PROVE Last(j).nl
    <2>1. Len(j) \in Nat /\ Len(j) >= 1 /\ DOMAIN j = 1 .. Len(j)
      BY <1>1
    <2> QED BY <2>1 DEF Last
  <1> QED BY <1>1 DEF AppendBytes

(* What a write appends to a journal is again a journal of lines. *)
LEMMA AppendBytesType ==
    ASSUME NEW j \in Seq(Line), NEW l \in Line
    PROVE  AppendBytes(j, l) \in Seq(Line)
  <1>1. CASE j # <<>> /\ ~ Last(j).nl
    <2>1. Front(j) \in Seq(Line) /\ Last(j) \in Line
      BY <1>1, FrontLast
    <2>2. [Last(j) EXCEPT !.parses = FALSE, !.nl = l.nl] \in Line
      BY <2>1 DEF Line
    <2> QED BY <1>1, <2>1, <2>2 DEF AppendBytes
  <1>2. CASE ~ (j # <<>> /\ ~ Last(j).nl)
    BY <1>2 DEF AppendBytes
  <1> QED BY <1>1, <1>2

LEMMA PartialsType ==
    ASSUME NEW l \in Line, NEW part \in Partials(l)
    PROVE  part \in Line
  BY DEF Partials, Parts, Line

LEMMA DropTornType ==
    ASSUME NEW j \in Seq(Line)
    PROVE  DropTorn(j) \in Seq(Line)
  BY FrontLast DEF DropTorn

(* Without text outside ASCII the cut takes the torn line and no more. *)
LEMMA ExactCut ==
    ASSUME "wide" \notin Faults, NEW j
    PROVE  Cuts(j) = {DropTorn(j)}
  BY DEF Cuts

(* A cut that falls short leaves lines that were replayed, the last one    *)
(* perhaps in part.                                                        *)
LEMMA CutFacts ==
    ASSUME NEW j \in Seq(Line), NEW left \in Cuts(j)
    PROVE  /\ left \in Seq(Line)
           /\ \A i \in DOMAIN left : i \in DOMAIN DropTorn(j) /\ left[i].id = DropTorn(j)[i].id
  <1> DEFINE k == DropTorn(j)
  <1>1. k \in Seq(Line) /\ Len(k) \in Nat /\ DOMAIN k = 1 .. Len(k)
    BY DropTornType
  <1> HIDE DEF k
  <1>2. ASSUME left = k
        PROVE  left \in Seq(Line) /\ \A i \in DOMAIN left : i \in DOMAIN k /\ left[i].id = k[i].id
    BY <1>1, <1>2
  <1>3. ASSUME NEW n \in 1 .. Len(k) - 1, left = SubSeq(k, 1, n)
        PROVE  left \in Seq(Line) /\ \A i \in DOMAIN left : i \in DOMAIN k /\ left[i] = k[i]
    BY <1>1, <1>3
  <1>4. ASSUME NEW n \in 1 .. Len(k), NEW part \in Parts(k[n]),
               left = Append(SubSeq(k, 1, n - 1), part)
        PROVE  /\ left \in Seq(Line)
               /\ \A i \in DOMAIN left : i \in DOMAIN k /\ left[i].id = k[i].id
    <2> DEFINE front == SubSeq(k, 1, n - 1)
    <2>1. k[n] \in Line
      BY <1>1
    <2>2. part \in Line /\ part.id = k[n].id
      BY <2>1 DEF Parts, Line
    <2>3. /\ front \in Seq(Line) /\ Len(front) = n - 1
          /\ \A i \in 1 .. n - 1 : front[i] = k[i]
      BY <1>1
    <2>4. left = Append(front, part)
      BY <1>4
    <2> HIDE DEF front
    <2>5. /\ left \in Seq(Line) /\ DOMAIN left = 1 .. n /\ left[n] = part
          /\ \A i \in 1 .. n - 1 : left[i] = front[i]
      BY <2>2, <2>3, <2>4, AppendFacts
    <2>6. ASSUME NEW i \in 1 .. n PROVE i \in DOMAIN k /\ left[i].id = k[i].id
      <3>1. CASE i = n
        BY <1>1, <2>2, <2>5, <3>1
      <3>2. CASE i \in 1 .. n - 1
        BY <1>1, <2>3, <2>5, <3>2
      <3> QED BY <3>1, <3>2
    <2> QED BY <2>5, <2>6
  <1>5. \/ left = k
        \/ \E n \in 1 .. Len(k) - 1 : left = SubSeq(k, 1, n)
        \/ \E n \in 1 .. Len(k) : \E part \in Parts(k[n]) :
              left = Append(SubSeq(k, 1, n - 1), part)
    <2>1. left = k \/ left \in ShortCuts(k)
      BY DEF Cuts, k
    <2> QED BY <2>1 DEF ShortCuts
  <1>6. left \in Seq(Line) /\ \A i \in DOMAIN left : i \in DOMAIN k /\ left[i].id = k[i].id
    BY <1>2, <1>3, <1>4, <1>5
  <1> QED BY <1>6 DEF k

(* What a power loss leaves of a journal is a journal of lines. *)
LEMMA RemainsType ==
    ASSUME NEW j \in Seq(Line), NEW left \in Remains(j), synced \in Nat
    PROVE  left \in Seq(Line)
  <1>0. Len(j) \in Nat
    OBVIOUS
  <1>1. ASSUME NEW n \in synced .. Len(j) PROVE SubSeq(j, 1, n) \in Seq(Line)
    BY <1>0
  <1>2. CASE left \in {SubSeq(j, 1, n) : n \in synced .. Len(j)}
    BY <1>1, <1>2
  <1>3. ASSUME NEW n \in synced .. Len(j) - 1, NEW part \in Partials(j[n + 1]),
               left = Append(SubSeq(j, 1, n), part)
        PROVE  left \in Seq(Line)
    <2>1. n \in synced .. Len(j) /\ n + 1 \in 1 .. Len(j)
      BY <1>0
    <2>2. j[n + 1] \in Line
      BY <2>1
    <2> QED BY <1>1, <1>3, <2>1, <2>2, PartialsType
  <1> QED BY <1>2, <1>3 DEF Remains

(* Without the newline fault, what a power loss leaves is a prefix of the  *)
(* journal that holds the synced lines, the last line perhaps torn.        *)
LEMMA RemainsFacts ==
    ASSUME Benign, NEW j \in Seq(Line), NEW left \in Remains(j), synced \in Nat, synced <= Len(j)
    PROVE  /\ left \in Seq(Line) /\ Len(left) \in synced .. Len(j) /\ DOMAIN left = 1 .. Len(left)
           /\ \A i \in 1 .. Len(left) : /\ EntryOf(left[i]) = EntryOf(j[i])
                                        /\ left[i].seq = j[i].seq
                                        /\ left[i].parses => left[i] = j[i]
           /\ \A i \in 1 .. synced : left[i] = j[i]
  <1>0. Len(j) \in Nat /\ left \in Seq(Line)
    BY RemainsType
  <1>1. ASSUME NEW n \in synced .. Len(j)
        PROVE  /\ SubSeq(j, 1, n) \in Seq(Line) /\ Len(SubSeq(j, 1, n)) = n
               /\ \A i \in 1 .. n : SubSeq(j, 1, n)[i] = j[i]
    BY <1>0
  <1>2. CASE left \in {SubSeq(j, 1, n) : n \in synced .. Len(j)}
    <2>1. PICK n \in synced .. Len(j) : left = SubSeq(j, 1, n)
      BY <1>2
    <2>2. Len(left) = n /\ \A i \in 1 .. n : left[i] = j[i]
      BY <1>1, <2>1
    <2> QED BY <1>0, <2>1, <2>2
  <1>3. ASSUME NEW n \in synced .. Len(j) - 1, NEW part \in Partials(j[n + 1]),
               left = Append(SubSeq(j, 1, n), part)
        PROVE  /\ Len(left) = n + 1 /\ left[n + 1] = part
               /\ \A i \in 1 .. n : left[i] = j[i]
               /\ ~ part.parses /\ part.seq = j[n + 1].seq /\ part.id = j[n + 1].id
    <2>1. n \in synced .. Len(j) /\ n + 1 \in 1 .. Len(j)
      BY <1>0
    <2>2. j[n + 1] \in Line
      BY <2>1
    <2>3. part \in Line
      BY <2>2, PartialsType
    <2>4. part = [j[n + 1] EXCEPT !.parses = FALSE, !.nl = FALSE]
      BY DEF Partials, Benign
    <2>5. ~ part.parses /\ part.seq = j[n + 1].seq /\ part.id = j[n + 1].id
      BY <2>2, <2>4 DEF Line
    <2>6. SubSeq(j, 1, n) \in Seq(Line) /\ Len(SubSeq(j, 1, n)) = n
      BY <1>1, <2>1
    <2>7. Len(left) = n + 1 /\ left[n + 1] = part /\ \A i \in 1 .. n : left[i] = SubSeq(j, 1, n)[i]
      BY <1>3, <2>3, <2>6, AppendFacts
    <2> QED BY <1>1, <2>1, <2>5, <2>7
  <1>4. CASE \E n \in synced .. Len(j) - 1 : \E part \in Partials(j[n + 1]) :
                left = Append(SubSeq(j, 1, n), part)
    <2>1. PICK n \in synced .. Len(j) - 1 : \E part \in Partials(j[n + 1]) :
                left = Append(SubSeq(j, 1, n), part)
      BY <1>4
    <2>2. PICK part \in Partials(j[n + 1]) : left = Append(SubSeq(j, 1, n), part)
      BY <2>1
    <2>3. /\ Len(left) = n + 1 /\ left[n + 1] = part
          /\ \A i \in 1 .. n : left[i] = j[i]
          /\ ~ part.parses /\ part.seq = j[n + 1].seq /\ part.id = j[n + 1].id
      BY <1>3, <2>2
    <2> QED BY <1>0, <2>3 DEF EntryOf
  <1> QED BY <1>2, <1>4 DEF Remains

(* Replaying a journal over a readable snapshot gives a state. *)
LEMMA ReplayType ==
    ASSUME NEW s \in State, NEW j \in Seq(Line)
    PROVE  Replay(s, j) \in State
  <1> DEFINE fresh == {i \in DOMAIN j : /\ j[i].seq > s.seq
                                        /\ \A k \in 1 .. i - 1 : j[k].seq < j[i].seq}
  <1>1. \A i \in DOMAIN j : j[i] \in Line
    OBVIOUS
  <1>2. {EntryOf(j[i]) : i \in fresh} \subseteq Entry
    BY <1>1 DEF EntryOf, Entry, Line
  <1>3. fresh # {} => Last(j).seq \in Nat
    <2>1. fresh # {} => j # <<>>
      OBVIOUS
    <2>2. fresh # {} => Last(j) \in Line
      BY <2>1, FrontLast
    <2> QED BY <2>2 DEF Line
  <1> QED BY <1>2, <1>3 DEF Replay, State

(* Replaying a journal that continues its snapshot applies every line. *)
LEMMA ReplayFacts ==
    ASSUME NEW s \in State, NEW j \in Seq(Line), \A i \in DOMAIN j : j[i].seq = s.seq + i
    PROVE  /\ Replay(s, j).seq = s.seq + Len(j)
           /\ Replay(s, j).log = s.log \cup {EntryOf(j[i]) : i \in 1 .. Len(j)}
  <1> DEFINE fresh == {i \in DOMAIN j : /\ j[i].seq > s.seq
                                        /\ \A k \in 1 .. i - 1 : j[k].seq < j[i].seq}
  <1>1. s.seq \in Nat /\ Len(j) \in Nat /\ DOMAIN j = 1 .. Len(j)
    BY DEF State
  <1>2. fresh = 1 .. Len(j)
    <2>1. ASSUME NEW i \in 1 .. Len(j) PROVE i \in fresh
      <3>1. j[i].seq > s.seq
        BY <1>1
      <3>2. ASSUME NEW k \in 1 .. i - 1 PROVE j[k].seq < j[i].seq
        BY <1>1
      <3> QED BY <1>1, <3>1, <3>2
    <2> QED BY <1>1, <2>1
  <1>3. CASE j = <<>>
    BY <1>1, <1>2, <1>3 DEF Replay
  <1>4. CASE j # <<>>
    <2>1. Len(j) \in DOMAIN j /\ fresh # {}
      BY <1>1, <1>2, <1>4
    <2>2. Last(j).seq = s.seq + Len(j)
      BY <2>1 DEF Last
    <2> QED BY <1>2, <2>1, <2>2 DEF Replay
  <1> QED BY <1>3, <1>4

----------------------------------------------------------------------------
(* Type correctness *)

LEMMA NextLineType ==
    ASSUME TypeOK, MayCommit
    PROVE  NextLine \in Line /\ attempts + 1 \in Ids /\ attempts + 1 \in 0 .. MaxWrites
  BY BoundsAssumption DEF TypeOK, MayCommit, NextLine, Line, State, Ids

LEMMA InitType == Init => TypeOK
  <1> SUFFICES ASSUME Init PROVE TypeOK
    OBVIOUS
  <1>1. manifest \in Manifest /\ manifestSynced \in Manifest
    BY BoundsAssumption DEF Init, Manifest, Gens
  <1>2. /\ snapshots \in [Gens -> State \cup {Unreadable}] /\ journals \in [Gens -> Seq(Line)]
        /\ state \in State /\ current \in Gens
    BY BoundsAssumption DEF Init, State, EmptyState, Gens
  <1> QED BY <1>1, <1>2, BoundsAssumption DEF Init, TypeOK

LEMMA NextType == TypeOK /\ [Next]_vars => TypeOK'
  <1> SUFFICES ASSUME TypeOK, [Next]_vars PROVE TypeOK'
    OBVIOUS
  <1>1. CASE CommitFails
    BY <1>1, NextLineType DEF CommitFails, TypeOK, disk, process
  <1>2. CASE CommitWrite
    BY <1>2, NextLineType, AppendBytesType DEF CommitWrite, MayCommit, TypeOK
  <1>3. CASE CommitTruncateFails
    <2>1. PICK part \in Partials(NextLine) :
             journals' = [journals EXCEPT ![current] = AppendBytes(@, part)]
      BY <1>3 DEF CommitTruncateFails
    <2>2. part \in Line /\ MayCommit
      BY <1>3, NextLineType, PartialsType DEF CommitTruncateFails
    <2>3. journals' \in [Gens -> Seq(Line)]
      BY <2>1, <2>2, AppendBytesType DEF TypeOK
    <2> QED BY <1>3, <2>2, <2>3, NextLineType DEF CommitTruncateFails, MayCommit, TypeOK
  <1>4. CASE FinishCommit /\ synced' \in Nat /\ acked' \in {acked, acked \cup {EntryOf(pending)}}
    <2>1. phase = "fsync" /\ pending \in Line
      BY <1>4 DEF FinishCommit, TypeOK
    <2>2. EntryOf(pending) \in Entry
      BY <2>1 DEF EntryOf, Entry, Line
    <2>3. Apply(state, pending) \in State
      BY <2>1, <2>2 DEF Apply, State, TypeOK, Line
    <2> QED BY <1>4, <2>2, <2>3 DEF FinishCommit, TypeOK
  <1>5. CASE CommitFsync
    <2>1. Len(journals[current]) \in Nat
      BY DEF TypeOK
    <2> QED BY <1>4, <1>5, <2>1 DEF CommitFsync
  <1>6. CASE CommitFsyncFails
    BY <1>4, <1>6 DEF CommitFsyncFails, TypeOK
  <1>7. CASE CompactSnapshot
    BY <1>7, BoundsAssumption DEF CompactSnapshot, TypeOK, history, Gens
  <1>8. CASE CompactJournal
    <2>1. <<>> \in Seq(Line)
      OBVIOUS
    <2>2. journals' \in [Gens -> Seq(Line)]
      BY <1>8, <2>1 DEF CompactJournal, TypeOK
    <2> QED BY <1>8, <2>2 DEF CompactJournal, TypeOK, history
  <1>9. CASE CompactManifest
    <2>1. current + 1 \in Gens
      BY <1>9, BoundsAssumption DEF CompactManifest, TypeOK, Gens
    <2> QED BY <1>9, <2>1 DEF CompactManifest, TypeOK, history, Manifest
  <1>10. CASE CompactSwitch
    <2>1. current + 1 \in Gens
      BY <1>10, BoundsAssumption DEF CompactSwitch, TypeOK, Gens
    <2> QED BY <1>10, <2>1 DEF CompactSwitch, TypeOK, history
  <1>11. CASE CompactFails
    BY <1>11 DEF CompactFails, TypeOK, disk, history
  <1>12. CASE CompactDirectoryFails
    BY <1>12 DEF CompactDirectoryFails, TypeOK, disk, history
  <1>13. CASE Stop
    BY <1>13 DEF Stop, GoDown, TypeOK, disk
  <1>14. CASE StopInWrite
    <2>1. PICK part \in Partials(NextLine) :
             journals' = [journals EXCEPT ![current] = AppendBytes(@, part)]
      BY <1>14 DEF StopInWrite
    <2>2. part \in Line /\ MayCommit
      BY <1>14, NextLineType, PartialsType DEF StopInWrite
    <2>3. journals' \in [Gens -> Seq(Line)]
      BY <2>1, <2>2, AppendBytesType DEF TypeOK
    <2> QED BY <1>14, <2>2, <2>3, NextLineType DEF StopInWrite, GoDown, TypeOK
  <1>15. CASE PowerLoss
    <2>1. PICK left \in Remains(journals[current]) :
             /\ journals' = [journals EXCEPT ![current] = left]
             /\ synced' = Len(left)
      BY <1>15 DEF PowerLoss
    <2>2. left \in Seq(Line)
      BY <2>1, RemainsType DEF TypeOK
    <2> QED BY <1>15, <2>1, <2>2 DEF PowerLoss, GoDown, TypeOK
  <1>16. CASE Damage
    <2>1. manifest' \in Manifest /\ manifestSynced' \in Manifest
      BY <1>16 DEF Damage, TypeOK, Manifest
    <2>2. snapshots' \in [Gens -> State \cup {Unreadable}]
      BY <1>16 DEF Damage, TypeOK
    <2>3. ASSUME NEW i \in DOMAIN journals[manifest.gen],
                 journals' = [journals EXCEPT ![manifest.gen][i].parses = FALSE]
          PROVE  journals' \in [Gens -> Seq(Line)]
      <3> DEFINE g == manifest.gen
                 l == [journals[g][i] EXCEPT !.parses = FALSE]
      <3>1. g \in Gens /\ journals[g] \in Seq(Line)
        BY DEF TypeOK, Manifest
      <3>2. journals[g][i] \in Line
        BY <3>1
      <3>3. l \in Line
        BY <3>2 DEF Line
      <3>4. [journals[g] EXCEPT ![i] = l] \in Seq(Line)
        BY <3>1, <3>3
      <3>5. journals' = [journals EXCEPT ![g] = [journals[g] EXCEPT ![i] = l]]
        BY <2>3
      <3> QED BY <3>4, <3>5 DEF TypeOK
    <2>4. journals' \in [Gens -> Seq(Line)]
      BY <1>16, <2>3 DEF Damage, TypeOK
    <2> QED BY <1>16, <2>1, <2>2, <2>4 DEF Damage, TypeOK, process, history
  <1>17. CASE OpenQuarantined
    <2>1. manifest' \in Manifest /\ manifestSynced' \in Manifest
      BY <1>17 DEF OpenQuarantined, TypeOK, Manifest
    <2>2. synced' \in Nat /\ current' \in Gens
      BY <1>17 DEF OpenQuarantined, TypeOK, Manifest
    <2>3. state' \in State
      BY <1>17 DEF OpenQuarantined, EmptyState, State
    <2> QED BY <1>17, <2>1, <2>2, <2>3 DEF OpenQuarantined, TypeOK
  <1>18. CASE Open
    <2>1. snapshots[manifest.gen] \in State /\ manifest.gen \in Gens
      BY <1>18 DEF Open, MustQuarantine, TypeOK, Manifest
    <2>2. DropTorn(journals[manifest.gen]) \in Seq(Line)
      BY <2>1, DropTornType DEF TypeOK
    <2>3. Replay(snapshots[manifest.gen], DropTorn(journals[manifest.gen])) \in State
      BY <2>1, <2>2, ReplayType
    <2>4. <<>> \in Seq(Line)
      OBVIOUS
    <2>5. PICK left \in Cuts(journals[manifest.gen]) :
             /\ journals' = [g \in Gens |-> IF g = manifest.gen THEN left ELSE <<>>]
             /\ synced' = IF current = manifest.gen /\ synced <= Len(left)
                          THEN synced ELSE Len(left)
             /\ overcut' = (overcut \/ left # DropTorn(journals[manifest.gen]))
      BY <1>18 DEF Open
    <2>6. left \in Seq(Line)
      BY <2>1, CutFacts DEF TypeOK
    <2>7. /\ snapshots' \in [Gens -> State \cup {Unreadable}]
          /\ journals' \in [Gens -> Seq(Line)] /\ overcut' \in BOOLEAN
      BY <1>18, <2>1, <2>4, <2>5, <2>6 DEF Open, TypeOK
    <2>8. synced' \in Nat /\ current' \in Gens /\ state' \in State
      BY <1>18, <2>1, <2>3, <2>5, <2>6 DEF Open, TypeOK
    <2> QED BY <1>18, <2>7, <2>8 DEF Open, TypeOK
  <1>19. CASE UNCHANGED vars
    BY <1>19 DEF vars, disk, process, history, TypeOK
  <1> QED BY <1>1, <1>2, <1>3, <1>5, <1>6, <1>7, <1>8, <1>9, <1>10, <1>11, <1>12, <1>13,
             <1>14, <1>15, <1>16, <1>17, <1>18, <1>19 DEF Next

(* Type correctness of the store, under every combination of faults. *)
THEOREM TypeCorrect == Spec => []TypeOK
  BY InitType, NextType, PTL DEF Spec

----------------------------------------------------------------------------
(* No acknowledged write is lost *)

LEMMA InitInv == Init => IInv
  <1> SUFFICES ASSUME Init PROVE IInv
    OBVIOUS
  <1>1. TypeOK
    BY InitType
  <1>2. Snap = EmptyState /\ Jour = <<>> /\ Unreadable # EmptyState
    BY BoundsAssumption DEF Init, Snap, Jour, Gens, EmptyState, Unreadable
  <1>3. NamesSafe(manifest) /\ NamesSafe(manifestSynced)
    BY DEF Init, NamesSafe
  <1>4. JournalShape /\ CurrentSafe
    BY <1>2 DEF Init, JournalShape, CurrentSafe
  <1>5. Running
    BY <1>2 DEF Init, Running, EmptyState
  <1> QED BY <1>1, <1>3, <1>4, <1>5 DEF Init, IInv, Alive

(* A store with a bad manifest stays that way. *)
LEMMA DeadStays ==
    ASSUME TypeOK, Dead, [Next]_vars
    PROVE  Dead'
  <1>0. phase = "idle" /\ status # "open" /\ MustQuarantine
    BY DEF TypeOK, Dead, MustQuarantine
  <1>1. CASE Stop
    BY <1>1 DEF Stop, GoDown, Dead, disk
  <1>2. CASE PowerLoss
    BY <1>2 DEF PowerLoss, GoDown, Dead
  <1>3. CASE Damage
    BY <1>3 DEF Damage, Dead, process, TypeOK, Manifest
  <1>4. CASE OpenQuarantined
    BY <1>4 DEF OpenQuarantined, Dead, TypeOK, Manifest
  <1>5. CASE UNCHANGED vars
    BY <1>5 DEF vars, disk, process, Dead
  <1> QED
    BY <1>0, <1>1, <1>2, <1>3, <1>4, <1>5
    DEF Next, MayCommit, FinishCommit, CommitFails, CommitWrite, CommitTruncateFails,
        CommitFsync, CommitFsyncFails, CompactSnapshot, CompactJournal, CompactManifest,
        CompactSwitch, CompactFails, CompactDirectoryFails, StopInWrite, Open

(* The facts about the open journal that the steps below rest on. *)
LEMMA OpenFacts ==
    ASSUME TypeOK, Alive, status = "open"
    PROVE  /\ Snap \in State /\ Snap.seq \in Nat /\ Jour \in Seq(Line)
           /\ DOMAIN Jour = 1 .. Len(Jour) /\ Len(Jour) \in Nat
           /\ \A i \in DOMAIN Jour : Jour[i].parses /\ Jour[i].nl /\ Jour[i].seq = Snap.seq + i
           /\ DropTorn(Jour) = Jour
           /\ Running
  <1>1. Snap \in State /\ Jour \in Seq(Line)
    BY DEF TypeOK, Alive, Running, Snap, Jour
  <1>2. \A i \in DOMAIN Jour : Jour[i].parses /\ Jour[i].nl /\ Jour[i].seq = Snap.seq + i
    BY DEF Alive, Running, JournalShape
  <1>3. DropTorn(Jour) = Jour
    BY <1>1, <1>2, DropTornClean
  <1> QED BY <1>1, <1>2, <1>3 DEF Alive, State

(* Writing part or all of a line at the end of an open journal. *)
LEMMA AppendKeeps ==
    ASSUME TypeOK, Alive, status = "open", phase = "idle",
           NEW l \in Line, l.seq = state.seq + 1, l.parses => l.nl,
           journals' = [journals EXCEPT ![current] = AppendBytes(@, l)],
           UNCHANGED <<current, synced, snapshots, acked>>
    PROVE  /\ Snap' = Snap /\ Jour' = Append(Jour, l)
           /\ JournalShape' /\ CurrentSafe'
           /\ \A g \in Gens : g # current => journals'[g] = journals[g]
  <1> DEFINE j == Append(Jour, l)
  <1>0. /\ Snap \in State /\ Snap.seq \in Nat /\ Jour \in Seq(Line) /\ Len(Jour) \in Nat
        /\ \A i \in DOMAIN Jour : Jour[i].parses /\ Jour[i].nl /\ Jour[i].seq = Snap.seq + i
        /\ DropTorn(Jour) = Jour
        /\ DOMAIN Jour = 1 .. Len(Jour)
    BY OpenFacts
  <1>1. AppendBytes(Jour, l) = j
    BY <1>0, AppendClean
  <1>2. Jour' = j /\ Snap' = Snap
    BY <1>1 DEF Jour, Snap, TypeOK
  <1>3. /\ Len(j) = Len(Jour) + 1 /\ DOMAIN j = 1 .. Len(Jour) + 1 /\ j \in Seq(Line)
        /\ j[Len(Jour) + 1] = l /\ \A i \in 1 .. Len(Jour) : j[i] = Jour[i]
    BY <1>0, AppendFacts
  <1>4. synced <= Len(Jour) /\ synced \in Nat /\ state.seq = Snap.seq + Len(Jour)
    BY OpenFacts DEF Running, TypeOK, Alive, JournalShape
  <1> HIDE DEF j
  <1>5. JournalShape'
    <2>1. synced <= Len(j)
      BY <1>0, <1>3, <1>4
    <2>2. ASSUME NEW i \in DOMAIN j
          PROVE  /\ j[i].parses => j[i].nl
                 /\ ~ j[i].parses => i = Len(j)
                 /\ j[i].seq = Snap.seq + i
      <3>1. CASE i \in 1 .. Len(Jour)
        BY <1>0, <1>3, <3>1
      <3>2. CASE i = Len(Jour) + 1
        BY <1>0, <1>3, <1>4, <3>2
      <3> QED BY <1>0, <1>3, <3>1, <3>2
    <2> QED BY <1>2, <2>1, <2>2 DEF JournalShape
  <1>6. \A i \in DOMAIN Jour : i \in DOMAIN DropTorn(j)
    BY <1>0, <1>3, DropTornFacts
  <1>7. CurrentSafe'
    BY <1>0, <1>2, <1>3, <1>6 DEF Alive, CurrentSafe
  <1> QED BY <1>2, <1>5, <1>7 DEF TypeOK, j

(* Names that do not depend on the journals or the process. *)
LEMMA NamesKeep ==
    ASSUME NEW m, NamesSafe(m), TypeOK,
           UNCHANGED <<current, snapshots, acked>>,
           \A g \in Gens : g # current => journals'[g] = journals[g]
    PROVE  /\ m.parses /\ ~ m.quarantine
           /\ \/ m.gen = current'
              \/ m.gen = current' + 1 /\ NextSafe'
              \/ m.gen < current' /\ snapshots'[m.gen] = Unreadable
  <1>1. NextSafe => NextSafe'
    BY DEF NextSafe, TypeOK, Gens
  <1> QED BY <1>1 DEF NamesSafe

(* A running store holds every acknowledged entry in memory. *)
LEMMA AckedInState ==
    ASSUME TypeOK, Alive, status = "open"
    PROVE  acked \subseteq state.log
  <1>1. /\ Running /\ DropTorn(Jour) = Jour /\ DOMAIN Jour = 1 .. Len(Jour)
        /\ Snap.seq \in Nat /\ Len(Jour) \in Nat
    BY OpenFacts
  <1>2. SUFFICES ASSUME NEW e \in acked, e \notin Snap.log PROVE e \in state.log
    BY <1>1 DEF Running
  <1>3. PICK i \in DOMAIN Jour : i <= synced /\ e = EntryOf(Jour[i])
    BY <1>1, <1>2 DEF Alive, CurrentSafe, Running
  <1>4. i \in 1 .. state.seq - Snap.seq
    BY <1>1, <1>3 DEF Running, TypeOK, State
  <1> QED BY <1>1, <1>3, <1>4 DEF Running

(* Every step of a live store keeps it live or quarantines it. *)
LEMMA AliveStep ==
    ASSUME Benign, TypeOK, TypeOK', Alive, [Next]_vars
    PROVE  Alive' \/ Dead'
  <1>1. CASE CommitFails
    BY <1>1 DEF CommitFails, disk, process, Alive, NamesSafe, NextSafe, JournalShape, CurrentSafe, Running, Snap, Jour
  <1>2. CASE CommitWrite
    <2>1. NextLine \in Line /\ status = "open" /\ phase = "idle"
      BY <1>2, NextLineType DEF CommitWrite, MayCommit
    <2>2. /\ Snap' = Snap /\ Jour' = Append(Jour, NextLine)
          /\ JournalShape' /\ CurrentSafe'
          /\ \A g \in Gens : g # current => journals'[g] = journals[g]
      BY <1>2, <2>1, AppendKeeps DEF CommitWrite, NextLine
    <2>3. NamesSafe(manifest)' /\ NamesSafe(manifestSynced)'
      BY <1>2, <2>2, NamesKeep DEF CommitWrite, Alive, NamesSafe
    <2>4. /\ Snap.seq \in Nat /\ Jour \in Seq(Line) /\ Len(Jour) \in Nat /\ Running
          /\ \A i \in DOMAIN Jour : Jour[i].parses
      BY <2>1, OpenFacts
    <2>5. /\ Len(Jour') = Len(Jour) + 1 /\ DOMAIN Jour' = 1 .. Len(Jour) + 1
          /\ Jour'[Len(Jour) + 1] = NextLine /\ \A i \in 1 .. Len(Jour) : Jour'[i] = Jour[i]
      BY <2>1, <2>2, <2>4, AppendFacts
    <2>6. Running'
      <3>1. /\ state' = state /\ phase' = "fsync" /\ pending' = NextLine /\ current' = current
            /\ manifest' = manifest /\ manifestSynced' = manifestSynced /\ synced' = synced
        BY <1>2 DEF CommitWrite
      <3>2. state.seq = Snap.seq + Len(Jour) /\ state.seq - Snap.seq = Len(Jour)
        BY <2>1, <2>4 DEF Running
      <3>3. state'.log = Snap'.log \cup {EntryOf(Jour'[i]) : i \in 1 .. state'.seq - Snap'.seq}
        BY <2>2, <2>4, <2>5, <3>1, <3>2 DEF Running
      <3>4. \A i \in DOMAIN Jour' : Jour'[i].parses
        BY <2>4, <2>5 DEF NextLine
      <3>5. Jour' # <<>> /\ pending' = Jour'[Len(Jour')] /\ pending' \in Line
        BY <2>1, <2>4, <2>5, <3>1
      <3> QED BY <2>1, <2>2, <2>4, <2>5, <3>1, <3>2, <3>3, <3>4, <3>5 DEF Running
    <2> QED BY <1>2, <2>2, <2>3, <2>6 DEF CommitWrite, Alive
  <1>3. ASSUME NEW part \in Partials(NextLine), MayCommit,
               journals' = [journals EXCEPT ![current] = AppendBytes(@, part)],
               UNCHANGED <<manifest, manifestSynced, current, synced, snapshots, acked>>,
               status' \in {"closed", "down"}
        PROVE  Alive'
    <2>1. NextLine \in Line /\ status = "open" /\ phase = "idle"
      BY <1>3, NextLineType DEF MayCommit
    <2>2. part \in Line
      BY <2>1, PartialsType
    <2>3. ~ part.parses /\ part.seq = state.seq + 1
      BY DEF Partials, Benign, NextLine
    <2>4. /\ JournalShape' /\ CurrentSafe'
          /\ \A g \in Gens : g # current => journals'[g] = journals[g]
      BY <1>3, <2>1, <2>2, <2>3, AppendKeeps
    <2>5. NamesSafe(manifest)' /\ NamesSafe(manifestSynced)'
      BY <1>3, <2>4, NamesKeep DEF Alive, NamesSafe
    <2>6. manifest.gen = current
      BY <2>1, OpenFacts DEF Running
    <2> QED BY <1>3, <2>4, <2>5, <2>6 DEF Alive
  <1>4. CASE CommitTruncateFails
    BY <1>3, <1>4 DEF CommitTruncateFails
  <1>5. CASE StopInWrite
    BY <1>3, <1>5 DEF StopInWrite, GoDown
  <1>6. ASSUME FinishCommit,
               \/ synced' = Len(journals[current]) /\ acked' = acked \cup {EntryOf(pending)}
               \/ UNCHANGED <<synced, acked>>
        PROVE  Alive'
    <2>1. phase = "fsync" /\ status = "open" /\ status' = "open" /\ phase' = "idle"
      BY <1>6 DEF FinishCommit, TypeOK
    <2>2. /\ Snap.seq \in Nat /\ Jour \in Seq(Line) /\ Len(Jour) \in Nat /\ Running
          /\ DOMAIN Jour = 1 .. Len(Jour) /\ DropTorn(Jour) = Jour
          /\ \A i \in DOMAIN Jour : Jour[i].parses /\ Jour[i].seq = Snap.seq + i
      BY <2>1, OpenFacts
    <2>3. Snap' = Snap /\ Jour' = Jour /\ current' = current /\ snapshots' = snapshots
      BY <1>6 DEF FinishCommit, Snap, Jour
    <2>4. Len(Jour) \in DOMAIN Jour /\ pending = Jour[Len(Jour)] /\ Len(Jour) >= 1
      BY <2>1, <2>2 DEF Running
    <2>5. synced' \in Nat /\ synced' <= Len(Jour) /\ synced <= synced'
      BY <1>6, <2>2 DEF TypeOK, Alive, JournalShape, Jour
    <2>6. JournalShape'
      BY <2>2, <2>3, <2>5 DEF Alive, JournalShape
    <2>7. CurrentSafe'
      <3>1. ASSUME NEW e \in acked, e \notin Snap.log
            PROVE  \E i \in DOMAIN Jour : i <= synced' /\ e = EntryOf(Jour[i])
        <4>1. PICK i \in DOMAIN Jour : i <= synced /\ e = EntryOf(Jour[i])
          BY <2>2, <3>1 DEF Alive, CurrentSafe, Running
        <4> QED BY <4>1, <2>2, <2>5 DEF TypeOK
      <3>2. ASSUME acked' # acked
            PROVE  acked' = acked \cup {EntryOf(Jour[Len(Jour)])} /\ Len(Jour) <= synced'
        BY <1>6, <2>2, <2>4, <3>2 DEF Jour
      <3> QED BY <2>2, <2>3, <2>4, <3>1, <3>2 DEF CurrentSafe
    <2>8. state' = [seq |-> Snap.seq + Len(Jour), log |-> state.log \cup {EntryOf(pending)}]
      BY <1>6, <2>2, <2>4 DEF FinishCommit, Apply
    <2>9. state'.log = Snap.log \cup {EntryOf(Jour[i]) : i \in 1 .. Len(Jour)}
      <3>1. state.log = Snap.log \cup {EntryOf(Jour[i]) : i \in 1 .. Len(Jour) - 1}
        BY <2>1, <2>2 DEF Running
      <3>2. 1 .. Len(Jour) = (1 .. Len(Jour) - 1) \cup {Len(Jour)}
        BY <2>2, <2>4
      <3> QED BY <2>4, <2>8, <3>1, <3>2
    <2>10. manifest' = manifest /\ manifestSynced' = manifestSynced
           /\ manifest.gen = current /\ manifestSynced.gen <= current
      BY <1>6, <2>1, <2>2 DEF FinishCommit, Running
    <2>11. Running'
      <3>1. state'.seq - Snap.seq = Len(Jour)
        BY <2>2, <2>8
      <3> QED BY <2>1, <2>2, <2>3, <2>5, <2>8, <2>9, <2>10, <3>1 DEF Running
    <2>12. NamesSafe(manifest)' /\ NamesSafe(manifestSynced)'
      BY <2>3, <2>10, BoundsAssumption DEF Alive, NamesSafe, TypeOK, Manifest, Gens
    <2> QED BY <2>1, <2>6, <2>7, <2>10, <2>11, <2>12 DEF Alive
  <1>7. CASE CommitFsync
    BY <1>6, <1>7 DEF CommitFsync
  <1>8. CASE CommitFsyncFails
    BY <1>6, <1>8 DEF CommitFsyncFails
  <1>9. CASE CompactSnapshot
    <2>1. /\ status = "open" /\ phase = "idle" /\ current + 1 \in Gens /\ current + 1 # current
          /\ status' = "open" /\ phase' = "journal"
      BY <1>9, BoundsAssumption DEF CompactSnapshot, TypeOK, Gens
    <2>2. Running /\ manifest.gen = current /\ manifestSynced.gen <= current
      BY <2>1, OpenFacts DEF Running
    <2>3. /\ Snap' = Snap /\ Jour' = Jour /\ snapshots'[current + 1] = state
          /\ \A g \in Gens : g <= current => snapshots'[g] = snapshots[g]
      BY <1>9, <2>1, BoundsAssumption DEF CompactSnapshot, Snap, Jour, TypeOK, Gens
    <2>4. NamesSafe(manifest)' /\ NamesSafe(manifestSynced)'
      BY <1>9, <2>2, <2>3, BoundsAssumption
      DEF CompactSnapshot, Alive, NamesSafe, TypeOK, Manifest, Gens
    <2>5. Running'
      BY <1>9, <2>1, <2>2, <2>3 DEF CompactSnapshot, Running
    <2>6. JournalShape' /\ CurrentSafe'
      BY <1>9, <2>3 DEF CompactSnapshot, Alive, JournalShape, CurrentSafe, history
    <2> QED BY <1>9, <2>1, <2>4, <2>5, <2>6 DEF CompactSnapshot, Alive
  <1>10. CASE CompactJournal
    <2>1. /\ status = "open" /\ phase = "journal" /\ current + 1 \in Gens /\ current + 1 # current
          /\ status' = "open" /\ phase' = "manifest"
      BY <1>10, BoundsAssumption DEF CompactJournal, TypeOK, Gens
    <2>2. Running /\ manifest.gen = current /\ manifestSynced.gen <= current
      BY <2>1, OpenFacts DEF Running
    <2>3. Snap' = Snap /\ Jour' = Jour /\ journals'[current + 1] = <<>>
      BY <1>10, <2>1 DEF CompactJournal, Snap, Jour, TypeOK
    <2>4. NamesSafe(manifest)' /\ NamesSafe(manifestSynced)'
      BY <1>10, <2>2, BoundsAssumption
      DEF CompactJournal, Alive, NamesSafe, TypeOK, Manifest, Gens
    <2>5. Running'
      BY <1>10, <2>1, <2>2, <2>3 DEF CompactJournal, Running
    <2>6. JournalShape' /\ CurrentSafe'
      BY <1>10, <2>3 DEF CompactJournal, Alive, JournalShape, CurrentSafe, history
    <2> QED BY <1>10, <2>1, <2>4, <2>5, <2>6 DEF CompactJournal, Alive
  <1>11. CASE CompactManifest
    <2>1. /\ status = "open" /\ phase = "manifest" /\ current + 1 \in Gens /\ current \in Int
          /\ status' = "open" /\ phase' = "directory" /\ acked' = acked
      BY <1>11, BoundsAssumption DEF CompactManifest, TypeOK, Gens, history
    <2>2. Running /\ manifestSynced.gen <= current
      BY <2>1, OpenFacts DEF Running
    <2>3. NextSafe'
      <3>1. snapshots[current + 1] = state /\ journals[current + 1] = <<>>
        BY <2>1, <2>2 DEF Running
      <3> QED BY <1>11, <2>1, <3>1, AckedInState DEF CompactManifest, NextSafe
    <2>4. manifest'.gen = current + 1 /\ manifest'.parses /\ ~ manifest'.quarantine
      BY <1>11 DEF CompactManifest, Alive, NamesSafe, TypeOK, Manifest
    <2>5. NamesSafe(manifest)'
      BY <1>11, <2>3, <2>4 DEF CompactManifest, NamesSafe
    <2>6. NamesSafe(manifestSynced)'
      BY <1>11, <2>2, <2>3 DEF CompactManifest, Alive, NamesSafe
    <2>7. Running'
      BY <1>11, <2>1, <2>2, <2>4 DEF CompactManifest, Running, Snap, Jour
    <2>8. JournalShape' /\ CurrentSafe'
      BY <1>11, <2>1 DEF CompactManifest, Alive, JournalShape, CurrentSafe, Snap, Jour
    <2>9. manifestSynced'.gen <= manifest'.gen
      BY <1>11, <2>1, <2>2, <2>4 DEF CompactManifest, TypeOK, Manifest, Gens
    <2> QED BY <1>11, <2>1, <2>5, <2>6, <2>7, <2>8, <2>9 DEF CompactManifest, Alive
  <1>12. CASE CompactSwitch
    <2>1. /\ status = "open" /\ phase = "directory" /\ current + 1 \in Gens /\ current \in Int
          /\ status' = "open" /\ phase' = "idle" /\ acked' = acked /\ current' = current + 1
          /\ state' = state /\ manifest' = manifest /\ manifestSynced' = manifest /\ synced' = 0
      BY <1>12, BoundsAssumption DEF CompactSwitch, TypeOK, Gens, history
    <2>2. Running /\ manifest.gen = current + 1
      BY <2>1, OpenFacts DEF Running
    <2>3. Snap' = state /\ Jour' = <<>>
      BY <1>12, <2>1, <2>2 DEF CompactSwitch, Running, Snap, Jour, TypeOK
    <2>4. state # Unreadable /\ state.seq \in Nat
      BY DEF TypeOK, State, Unreadable
    <2>5. JournalShape'
      BY <2>1, <2>3 DEF JournalShape
    <2>6. CurrentSafe'
      BY <2>1, <2>3, AckedInState DEF CurrentSafe
    <2>7. Running'
      BY <2>1, <2>2, <2>3, <2>4 DEF Running
    <2>8. NamesSafe(manifest)' /\ NamesSafe(manifestSynced)'
      BY <2>1, <2>2 DEF Alive, NamesSafe
    <2>9. manifestSynced'.gen <= manifest'.gen
      BY <2>1, <2>2
    <2> QED BY <2>1, <2>5, <2>6, <2>7, <2>8, <2>9 DEF Alive
  <1>13. CASE CompactFails
    <2>1. /\ status = "open" /\ phase \in {"journal", "manifest"} /\ phase' = "idle"
          /\ UNCHANGED <<disk, status, state, current, pending, acked>>
      BY <1>13 DEF CompactFails, TypeOK, history
    <2>2. Running
      BY <2>1, OpenFacts
    <2>3. Running'
      BY <2>1, <2>2 DEF Running, Snap, Jour, disk
    <2> QED
      BY <2>1, <2>3
      DEF Alive, disk, NamesSafe, NextSafe, JournalShape, CurrentSafe, Snap, Jour
  <1>14. CASE CompactDirectoryFails
    BY <1>14 DEF CompactDirectoryFails, Benign
  <1>15. CASE Stop
    BY <1>15
    DEF Stop, GoDown, Alive, disk, NamesSafe, NextSafe, JournalShape, CurrentSafe, Snap, Jour
  <1>16. CASE PowerLoss
    <2>1. PICK left \in Remains(Jour) :
             /\ journals' = [journals EXCEPT ![current] = left]
             /\ synced' = Len(left)
      BY <1>16 DEF PowerLoss, Jour
    <2>2. /\ status' = "down" /\ current' = current /\ acked' = acked /\ snapshots' = snapshots
          /\ manifest' \in {manifest, manifestSynced} /\ manifestSynced' = manifest'
      BY <1>16 DEF PowerLoss, GoDown
    <2>3. /\ Jour \in Seq(Line) /\ synced \in Nat /\ synced <= Len(Jour) /\ Len(Jour) \in Nat
          /\ DOMAIN Jour = 1 .. Len(Jour)
      BY DEF TypeOK, Alive, JournalShape, Jour
    <2>4. /\ left \in Seq(Line) /\ Len(left) \in synced .. Len(Jour)
          /\ DOMAIN left = 1 .. Len(left)
          /\ \A i \in 1 .. Len(left) : /\ left[i].seq = Jour[i].seq
                                       /\ left[i].parses => left[i] = Jour[i]
          /\ \A i \in 1 .. synced : left[i] = Jour[i]
      BY <2>1, <2>3, RemainsFacts
    <2>5. Jour' = left /\ Snap' = Snap
      BY <2>1, <2>2 DEF Jour, Snap, TypeOK
    <2>6. \A g \in Gens : g # current => journals'[g] = journals[g]
      BY <2>1 DEF TypeOK
    <2>7. JournalShape'
      BY <2>1, <2>3, <2>4, <2>5 DEF Alive, JournalShape
    <2>8. CurrentSafe'
      <3>1. ASSUME NEW i \in DOMAIN DropTorn(Jour), i <= synced
            PROVE  i \in DOMAIN DropTorn(left) /\ i <= Len(left) /\ i \in 1 .. synced
        <4>1. i \in 1 .. Len(Jour)
          BY <2>3, <3>1, DropTornFacts
        <4>2. synced \in 1 .. Len(Jour)
          BY <2>3, <3>1, <4>1
        <4>3. ~ Jour[synced].parses => synced = Len(Jour)
          <5>1. \A k \in DOMAIN Jour : ~ Jour[k].parses => (k < synced \/ k = Len(Jour))
            BY DEF Alive, JournalShape
          <5>2. synced \in DOMAIN Jour /\ ~ (synced < synced)
            BY <2>3, <4>2
          <5> QED BY <5>1, <5>2
        <4>4. left[synced] = Jour[synced] /\ synced <= Len(left) /\ Len(left) <= Len(Jour)
          BY <2>3, <2>4, <4>2
        <4> QED BY <2>3, <2>4, <3>1, <4>3, <4>4, DropTornPrefix
      <3>2. ASSUME NEW e \in acked, Snap # Unreadable, e \notin Snap.log
            PROVE  \E i \in DOMAIN DropTorn(left) : i <= Len(left) /\ e = EntryOf(left[i])
        <4>1. PICK i \in DOMAIN DropTorn(Jour) : i <= synced /\ e = EntryOf(Jour[i])
          BY <3>2 DEF Alive, CurrentSafe
        <4> QED BY <2>4, <3>1, <4>1
      <3> QED BY <2>1, <2>2, <2>5, <3>2 DEF CurrentSafe
    <2>9. NamesSafe(manifest)' /\ NamesSafe(manifestSynced)'
      <3>1. NextSafe => NextSafe'
        BY <2>2, <2>6 DEF NextSafe, TypeOK, Gens
      <3> QED BY <2>2, <3>1 DEF Alive, NamesSafe
    <2> QED BY <2>2, <2>7, <2>8, <2>9 DEF Alive, TypeOK, Manifest, Gens
  <1>17. CASE Damage
    <2>0. /\ status' = "down" /\ current' = current /\ acked' = acked /\ synced' = synced
          /\ manifest = manifestSynced /\ manifest.gen \in Gens /\ current \in Gens
      BY <1>17 DEF Damage, process, history, TypeOK, Manifest
    <2>1. CASE manifest' # manifest
      BY <1>17, <2>0, <2>1 DEF Damage, Dead, TypeOK, Manifest
    <2>2. CASE /\ UNCHANGED <<manifest, manifestSynced, journals>>
               /\ snapshots' = [snapshots EXCEPT ![manifest.gen] = Unreadable]
      <3>1. \A g \in Gens : snapshots'[g] \in {snapshots[g], Unreadable}
        BY <2>2 DEF TypeOK
      <3>2. JournalShape' /\ CurrentSafe'
        BY <2>0, <2>2, <3>1 DEF Alive, JournalShape, CurrentSafe, Snap, Jour
      <3>3. NextSafe => NextSafe'
        BY <2>0, <2>2, <3>1 DEF NextSafe
      <3>4. NamesSafe(manifest)' /\ NamesSafe(manifestSynced)'
        BY <2>0, <2>2, <3>1, <3>3 DEF Alive, NamesSafe
      <3> QED BY <2>0, <2>2, <3>2, <3>4 DEF Alive
    <2>3. CASE UNCHANGED <<manifest, manifestSynced, snapshots>> /\ journals' # journals
      <3>1. PICK i \in DOMAIN journals[manifest.gen] :
               i < synced /\ journals' = [journals EXCEPT ![manifest.gen][i].parses = FALSE]
        BY <1>17, <2>3 DEF Damage
      <3> DEFINE g == manifest.gen
                 j == [journals[g] EXCEPT ![i].parses = FALSE]
      <3>2. g # current + 1
        BY <2>0, <3>1 DEF Alive, NamesSafe, NextSafe, Gens
      <3>3. journals' = [journals EXCEPT ![g] = j]
        BY <3>1
      <3>4. \A h \in Gens : h # g => journals'[h] = journals[h]
        BY <3>3 DEF TypeOK
      <3>5. NamesSafe(manifest)' /\ NamesSafe(manifestSynced)'
        BY <2>0, <2>3, <3>2, <3>4 DEF Alive, NamesSafe, NextSafe
      <3>6. JournalShape' /\ CurrentSafe'
        <4>1. CASE g # current
          BY <2>0, <2>3, <3>4, <4>1 DEF Alive, JournalShape, CurrentSafe, Snap, Jour
        <4>2. CASE g = current
          <5>1. Jour' = j /\ Snap' = Snap /\ Jour \in Seq(Line) /\ Jour = journals[g]
            BY <2>0, <2>3, <3>3, <4>2 DEF Jour, Snap, TypeOK
          <5>2. /\ Len(Jour') = Len(Jour) /\ DOMAIN Jour' = DOMAIN Jour /\ Jour' \in Seq(Line)
                /\ \A k \in DOMAIN Jour : Jour'[k] = Jour[k] \/ k = i
                /\ \A k \in DOMAIN Jour : EntryOf(Jour'[k]) = EntryOf(Jour[k])
                                          /\ Jour'[k].seq = Jour[k].seq
                /\ ~ Jour'[i].parses
            BY <5>1, <3>1, DamagedFacts
          <5>3. i < synced /\ synced <= Len(Jour) /\ Len(Jour) \in Nat /\ synced \in Nat
                /\ DOMAIN Jour = 1 .. Len(Jour) /\ i \in DOMAIN Jour
            BY <3>1, <5>1 DEF Alive, JournalShape, TypeOK
          <5>4. Jour'[Len(Jour)] = Jour[Len(Jour)] /\ Len(Jour) >= 1
            BY <5>2, <5>3
          <5>5. DOMAIN DropTorn(Jour') = DOMAIN DropTorn(Jour)
            BY <5>1, <5>2, <5>4, DropTornLength
          <5>6. JournalShape'
            <6>1. \A k \in DOMAIN Jour : /\ Jour[k].parses => Jour[k].nl
                                         /\ ~ Jour[k].parses => (k < synced \/ k = Len(Jour))
                                         /\ Snap # Unreadable => Jour[k].seq = Snap.seq + k
              BY DEF Alive, JournalShape
            <6>2. \A k \in DOMAIN Jour : /\ Jour'[k].parses => Jour'[k].nl
                                         /\ ~ Jour'[k].parses => (k < synced \/ k = Len(Jour))
                                         /\ Snap # Unreadable => Jour'[k].seq = Snap.seq + k
              BY <5>2, <5>3, <6>1
            <6> QED BY <2>0, <5>1, <5>2, <5>3, <6>2 DEF JournalShape
          <5>7. \A k \in DOMAIN DropTorn(Jour) : k \in DOMAIN Jour
            <6>1. Jour \in Seq(Line)
              BY <5>1
            <6> QED BY <6>1, DropTornDomain
          <5>8. CurrentSafe'
            <6>1. ASSUME NEW e \in acked, Snap # Unreadable, e \notin Snap.log
                  PROVE  \E k \in DOMAIN DropTorn(Jour') : k <= synced /\ e = EntryOf(Jour'[k])
              <7>1. PICK k \in DOMAIN DropTorn(Jour) : k <= synced /\ e = EntryOf(Jour[k])
                BY <6>1 DEF Alive, CurrentSafe
              <7>2. k \in DOMAIN DropTorn(Jour') /\ e = EntryOf(Jour'[k])
                BY <5>2, <5>5, <5>7, <7>1
              <7> QED BY <7>1, <7>2
            <6>2. Snap' = Snap
              BY <5>1
            <6> QED BY <2>0, <6>1, <6>2 DEF CurrentSafe
          <5> QED BY <5>6, <5>8
        <4> QED BY <4>1, <4>2
      <3> QED BY <2>0, <2>3, <3>5, <3>6 DEF Alive
    <2>4. CASE UNCHANGED <<manifest, manifestSynced, snapshots, journals>>
      BY <2>0, <2>4
      DEF Alive, NamesSafe, NextSafe, JournalShape, CurrentSafe, Snap, Jour
    <2> QED BY <1>17, <2>0, <2>1, <2>2, <2>3, <2>4 DEF Damage
  <1>18. CASE OpenQuarantined
    BY <1>18 DEF OpenQuarantined, Alive, NamesSafe, Dead, TypeOK, Manifest
  <1>19. CASE Open
    <2>1. /\ ~ MustQuarantine /\ status' = "open" /\ phase' = "idle" /\ acked' = acked
          /\ manifest' = manifest /\ manifestSynced' = manifestSynced /\ current' = manifest.gen
          /\ manifest.gen \in Gens /\ manifestSynced.gen \in Gens /\ current \in Gens
      BY <1>19 DEF Open, TypeOK, Manifest
    <2> DEFINE g == manifest.gen
               kept == DropTorn(journals[g])
    <2>2. /\ Snap' = snapshots[g] /\ Jour' = kept /\ state' = Replay(snapshots[g], kept)
          /\ \A h \in Gens : h # g => snapshots'[h] = Unreadable
          /\ synced' = IF current = g /\ synced <= Len(kept) THEN synced ELSE Len(kept)
      BY <1>19, <2>1, ExactCut DEF Open, Snap, Jour, Benign
    <2>3. /\ snapshots[g] # Unreadable /\ snapshots[g] \in State /\ AllParse(kept)
          /\ journals[g] \in Seq(Line)
      BY <2>1 DEF MustQuarantine, TypeOK
    <2>4. /\ kept \in Seq(Line) /\ DOMAIN kept = 1 .. Len(kept) /\ Len(kept) \in Nat
          /\ Len(kept) <= Len(journals[g])
          /\ \A i \in DOMAIN kept : kept[i] = journals[g][i] /\ i \in DOMAIN journals[g]
      BY <2>3, DropTornFacts
    <2>5. \A i \in DOMAIN kept : kept[i].parses
      BY <2>3 DEF AllParse
    <2>6. DropTorn(kept) = kept
      BY <2>4, <2>5, DropTornClean
    <2> HIDE DEF kept
    <2>7. synced' \in Nat /\ synced' <= Len(kept)
      BY <2>2, <2>4 DEF TypeOK
    <2>8. g = current \/ (g = current + 1 /\ NextSafe)
      BY <2>3 DEF Alive, NamesSafe
    <2>9. \A i \in DOMAIN kept : kept[i].nl /\ kept[i].seq = snapshots[g].seq + i
      <3>1. CASE g = current
        <4>1. \A i \in DOMAIN Jour : /\ Jour[i].parses => Jour[i].nl
                                     /\ Snap # Unreadable => Jour[i].seq = Snap.seq + i
          BY DEF Alive, JournalShape
        <4> QED BY <2>3, <2>4, <2>5, <3>1, <4>1 DEF Jour, Snap
      <3>2. CASE g = current + 1 /\ NextSafe
        BY <2>4, <3>2 DEF NextSafe
      <3> QED BY <2>8, <3>1, <3>2
    <2>10. JournalShape'
      BY <2>2, <2>5, <2>7, <2>9 DEF JournalShape
    <2>11. ASSUME NEW e \in acked, e \notin snapshots[g].log
           PROVE  \E i \in DOMAIN kept : i <= synced' /\ e = EntryOf(kept[i])
      <3>1. g = current
        BY <2>3, <2>8, <2>11 DEF NextSafe
      <3>2. PICK i \in DOMAIN DropTorn(Jour) : i <= synced /\ e = EntryOf(Jour[i])
        BY <2>3, <2>11, <3>1 DEF Alive, CurrentSafe, Snap
      <3>3. i \in DOMAIN kept /\ kept[i] = Jour[i]
        BY <2>4, <3>1, <3>2 DEF kept, Jour
      <3>4. i <= synced'
        BY <2>2, <2>4, <3>1, <3>2, <3>3
      <3> QED BY <3>2, <3>3, <3>4
    <2>12. CurrentSafe'
      BY <2>1, <2>2, <2>6, <2>11 DEF CurrentSafe
    <2>13. /\ state'.seq = snapshots[g].seq + Len(kept)
           /\ state'.log = snapshots[g].log \cup {EntryOf(kept[i]) : i \in 1 .. Len(kept)}
      BY <2>2, <2>3, <2>4, <2>9, ReplayFacts
    <2>14. Running'
      <3>1. state'.seq - snapshots[g].seq = Len(kept) /\ snapshots[g].seq \in Nat
        BY <2>3, <2>4, <2>13 DEF State
      <3>2. manifestSynced.gen <= g
        BY DEF Alive
      <3> QED BY <2>1, <2>2, <2>3, <2>5, <2>7, <2>13, <3>1, <3>2 DEF Running
    <2>15. NamesSafe(manifest)' /\ NamesSafe(manifestSynced)'
      BY <2>1, <2>2 DEF Alive, NamesSafe, Gens
    <2> QED BY <2>1, <2>10, <2>12, <2>14, <2>15 DEF Alive
  <1>20. CASE UNCHANGED vars
    BY <1>20
    DEF vars, disk, process, history, Alive, NamesSafe, NextSafe, JournalShape, CurrentSafe,
        Running, Snap, Jour
  <1> QED
    BY <1>1, <1>2, <1>4, <1>5, <1>7, <1>8, <1>9, <1>10, <1>11, <1>12, <1>13, <1>14, <1>15,
       <1>16, <1>17, <1>18, <1>19, <1>20 DEF Next

(* Every write the store answered ok is in the state of every later open   *)
(* store, through any sequence of crashes, power losses, torn tails,       *)
(* uncertain fsyncs, compactions and damage, as long as no stop drops      *)
(* exactly a newline, no directory sync fails after a manifest rename, and *)
(* no text outside ASCII lets a reopening cut more than the torn line.     *)
THEOREM AckedWritesSurvive == Benign => (Spec => []AckedSurvive)
  <1> SUFFICES ASSUME Benign PROVE Spec => []AckedSurvive
    OBVIOUS
  <1>1. Init => IInv
    BY InitInv
  <1>2. IInv /\ [Next]_vars => IInv'
    BY NextType, DeadStays, AliveStep DEF IInv
  <1>3. IInv => AckedSurvive
    BY AckedInState DEF IInv, AckedSurvive, Dead
  <1> QED BY <1>1, <1>2, <1>3, PTL DEF Spec

----------------------------------------------------------------------------
(* One history, whatever fails *)

(* A state whose seqs run from 1 to its seq, each carried by one entry. *)
History(s) ==
    /\ s \in State
    /\ \A e \in s.log : e.seq \in 1 .. s.seq
    /\ \A n \in 1 .. s.seq : \E e \in s.log : e.seq = n
    /\ \A e, f \in s.log : e.seq = f.seq => e = f

(* The lines before the first that does not parse continue the snapshot. *)
Continues(s, j) ==
    \A i \in DOMAIN j : (\A k \in 1 .. i : j[k].parses) => j[i].seq = s.seq + i

(* What the directory holds rebuilds one history, and a running store's    *)
(* own state is the one it would rebuild.                                  *)
Rebuildable ==
    /\ \A g \in Gens : snapshots[g] # Unreadable => /\ History(snapshots[g])
                                                    /\ Continues(snapshots[g], journals[g])
    /\ \A g \in Gens : g # current => journals[g] = <<>>
    /\ phase = "fsync" => pending.seq = state.seq + 1
    /\ status = "open" =>
          /\ Snap # Unreadable
          /\ AllParse(Jour) => Snap.seq + Len(Jour) = state.seq + (IF phase = "fsync" THEN 1 ELSE 0)
          /\ phase \in {"journal", "manifest", "directory"} => snapshots[current + 1] = state

HistInv ==
    /\ TypeOK
    /\ History(state)
    /\ told \subseteq state.log
    /\ Dead \/ Rebuildable

(* A line is appended whole, or it spoils the last one. *)
LEMMA AppendBytesFacts ==
    ASSUME NEW j \in Seq(Line), NEW l \in Line
    PROVE  \/ AppendBytes(j, l) = Append(j, l)
           \/ /\ Len(j) \in Nat /\ Len(j) >= 1 /\ Len(AppendBytes(j, l)) = Len(j)
              /\ AppendBytes(j, l) \in Seq(Line)
              /\ \A k \in 1 .. Len(j) - 1 : AppendBytes(j, l)[k] = j[k]
              /\ ~ AppendBytes(j, l)[Len(j)].parses
  <1>1. CASE j # <<>> /\ ~ Last(j).nl
    <2> DEFINE last == [Last(j) EXCEPT !.parses = FALSE, !.nl = l.nl]
    <2>1. /\ Len(j) \in Nat /\ Len(j) >= 1 /\ Last(j) \in Line /\ Front(j) \in Seq(Line)
          /\ Len(Front(j)) = Len(j) - 1 /\ \A i \in 1 .. Len(j) - 1 : Front(j)[i] = j[i]
      BY <1>1, FrontLast
    <2>2. last \in Line /\ ~ last.parses
      BY <2>1 DEF Line
    <2>3. AppendBytes(j, l) = Append(Front(j), last)
      BY <1>1 DEF AppendBytes
    <2> HIDE DEF last
    <2>4. /\ Len(Append(Front(j), last)) = Len(j)
          /\ Append(Front(j), last) \in Seq(Line)
          /\ Append(Front(j), last)[Len(j)] = last
          /\ \A i \in 1 .. Len(j) - 1 : Append(Front(j), last)[i] = Front(j)[i]
      BY <2>1, <2>2, AppendFacts
    <2> QED BY <2>1, <2>2, <2>3, <2>4
  <1>2. CASE ~ (j # <<>> /\ ~ Last(j).nl)
    BY <1>2 DEF AppendBytes
  <1> QED BY <1>1, <1>2

(* Appending the next line to a journal that continues a snapshot. *)
LEMMA AppendContinues ==
    ASSUME NEW j \in Seq(Line), NEW l \in Line, NEW s \in State, Continues(s, j),
           AllParse(j) => l.seq = s.seq + Len(j) + 1
    PROVE  /\ Continues(s, AppendBytes(j, l))
           /\ AllParse(AppendBytes(j, l)) =>
                 AllParse(j) /\ Len(AppendBytes(j, l)) = Len(j) + 1
  <1>0. Len(j) \in Nat /\ DOMAIN j = 1 .. Len(j)
    OBVIOUS
  <1> DEFINE r == AppendBytes(j, l)
  <1>1. CASE r = Append(j, l)
    <2>1. /\ Len(r) = Len(j) + 1 /\ DOMAIN r = 1 .. Len(j) + 1
          /\ r[Len(j) + 1] = l /\ \A i \in 1 .. Len(j) : r[i] = j[i]
      BY <1>1, AppendFacts
    <2> HIDE DEF r
    <2>2. ASSUME \A k \in 1 .. Len(j) : r[k].parses PROVE AllParse(j)
      BY <1>0, <2>1, <2>2 DEF AllParse
    <2>3. ASSUME NEW i \in DOMAIN r, \A k \in 1 .. i : r[k].parses PROVE r[i].seq = s.seq + i
      <3>1. CASE i \in 1 .. Len(j)
        <4>1. \A k \in 1 .. i : j[k].parses
          BY <1>0, <2>1, <2>3, <3>1
        <4> QED BY <1>0, <2>1, <3>1, <4>1 DEF Continues
      <3>2. CASE i = Len(j) + 1
        <4>1. AllParse(j)
          BY <1>0, <2>2, <2>3, <3>2
        <4> QED BY <1>0, <2>1, <3>2, <4>1 DEF State
      <3> QED BY <1>0, <2>1, <3>1, <3>2
    <2>4. AllParse(r) => AllParse(j)
      BY <1>0, <2>1, <2>2 DEF AllParse
    <2> QED BY <2>1, <2>3, <2>4 DEF Continues, r
  <1>2. CASE r # Append(j, l)
    <2>1. /\ Len(j) >= 1 /\ Len(r) = Len(j) /\ r \in Seq(Line)
          /\ \A k \in 1 .. Len(j) - 1 : r[k] = j[k]
          /\ ~ r[Len(j)].parses
      BY <1>2, AppendBytesFacts
    <2> HIDE DEF r
    <2>2. DOMAIN r = 1 .. Len(j) /\ ~ AllParse(r)
      BY <1>0, <2>1 DEF AllParse
    <2>3. ASSUME NEW i \in DOMAIN r, \A k \in 1 .. i : r[k].parses PROVE r[i].seq = s.seq + i
      <3>1. i \in 1 .. Len(j) - 1
        BY <1>0, <2>1, <2>2, <2>3
      <3>2. \A k \in 1 .. i : j[k].parses
        BY <1>0, <2>1, <2>3, <3>1
      <3> QED BY <1>0, <2>1, <3>1, <3>2 DEF Continues
    <2> QED BY <2>2, <2>3 DEF Continues, r
  <1> QED BY <1>1, <1>2

(* Any shorter journal whose lines agree still continues the snapshot. *)
LEMMA LessContinues ==
    ASSUME NEW j \in Seq(Line), NEW r \in Seq(Line), NEW s, Continues(s, j),
           Len(r) <= Len(j),
           \A i \in 1 .. Len(r) : r[i].seq = j[i].seq /\ (r[i].parses => j[i].parses)
    PROVE  Continues(s, r)
  <1>1. /\ DOMAIN j = 1 .. Len(j) /\ DOMAIN r = 1 .. Len(r)
        /\ Len(j) \in Nat /\ Len(r) \in Nat
    OBVIOUS
  <1>2. SUFFICES ASSUME NEW i \in DOMAIN r, \A k \in 1 .. i : r[k].parses
                 PROVE  r[i].seq = s.seq + i
    BY DEF Continues
  <1>3. \A k \in 1 .. i : j[k].parses
    BY <1>1, <1>2
  <1> QED BY <1>1, <1>3 DEF Continues

(* What a power loss leaves is a prefix, its last line perhaps torn. *)
LEMMA RemainsPrefix ==
    ASSUME NEW j \in Seq(Line), NEW left \in Remains(j), synced \in Nat
    PROVE  /\ left \in Seq(Line) /\ Len(left) <= Len(j)
           /\ \A i \in 1 .. Len(left) : /\ left[i].seq = j[i].seq /\ left[i].id = j[i].id
                                        /\ left[i].parses => j[i].parses
  <1>0. Len(j) \in Nat /\ left \in Seq(Line)
    BY RemainsType
  <1>1. ASSUME NEW n \in synced .. Len(j)
        PROVE  /\ SubSeq(j, 1, n) \in Seq(Line) /\ Len(SubSeq(j, 1, n)) = n
               /\ \A i \in 1 .. n : SubSeq(j, 1, n)[i] = j[i]
    BY <1>0
  <1>2. CASE left \in {SubSeq(j, 1, n) : n \in synced .. Len(j)}
    <2>1. PICK n \in synced .. Len(j) : left = SubSeq(j, 1, n)
      BY <1>2
    <2>2. Len(left) = n /\ \A i \in 1 .. n : left[i] = j[i]
      BY <1>1, <2>1
    <2> QED BY <1>0, <2>1, <2>2
  <1>3. ASSUME NEW n \in synced .. Len(j) - 1, NEW part \in Partials(j[n + 1]),
               left = Append(SubSeq(j, 1, n), part)
        PROVE  /\ Len(left) = n + 1 /\ left[n + 1] = part
               /\ \A i \in 1 .. n : left[i] = j[i]
               /\ part.seq = j[n + 1].seq /\ part.id = j[n + 1].id
               /\ part.parses => j[n + 1].parses
    <2>1. n \in synced .. Len(j) /\ n + 1 \in 1 .. Len(j)
      BY <1>0
    <2>2. j[n + 1] \in Line
      BY <2>1
    <2>3. part \in Line
      BY <2>2, PartialsType
    <2>4. \/ part = [j[n + 1] EXCEPT !.parses = FALSE, !.nl = FALSE]
          \/ part = [j[n + 1] EXCEPT !.nl = FALSE]
      BY DEF Partials, Parts
    <2>5. /\ part.seq = j[n + 1].seq /\ part.id = j[n + 1].id
          /\ part.parses => j[n + 1].parses
      BY <2>2, <2>4 DEF Line
    <2>6. SubSeq(j, 1, n) \in Seq(Line) /\ Len(SubSeq(j, 1, n)) = n
      BY <1>1, <2>1
    <2>7. Len(left) = n + 1 /\ left[n + 1] = part /\ \A i \in 1 .. n : left[i] = SubSeq(j, 1, n)[i]
      BY <1>3, <2>3, <2>6, AppendFacts
    <2> QED BY <1>1, <2>1, <2>5, <2>7
  <1>4. CASE \E n \in synced .. Len(j) - 1 : \E part \in Partials(j[n + 1]) :
                left = Append(SubSeq(j, 1, n), part)
    <2>1. PICK n \in synced .. Len(j) - 1 : \E part \in Partials(j[n + 1]) :
                left = Append(SubSeq(j, 1, n), part)
      BY <1>4
    <2>2. PICK part \in Partials(j[n + 1]) : left = Append(SubSeq(j, 1, n), part)
      BY <2>1
    <2>3. /\ Len(left) = n + 1 /\ left[n + 1] = part
          /\ \A i \in 1 .. n : left[i] = j[i]
          /\ part.seq = j[n + 1].seq /\ part.id = j[n + 1].id
          /\ part.parses => j[n + 1].parses
      BY <1>3, <2>2
    <2>4. \A i \in 1 .. Len(left) : i \in 1 .. n \/ i = n + 1
      BY <2>3
    <2> QED BY <1>0, <2>3, <2>4
  <1> QED BY <1>2, <1>4 DEF Remains

(* One more entry at the next seq is again one history. *)
LEMMA ApplyHistory ==
    ASSUME NEW s, History(s), NEW l \in Line, l.seq = s.seq + 1
    PROVE  History(Apply(s, l)) /\ s.log \subseteq Apply(s, l).log
           /\ EntryOf(l) \in Apply(s, l).log /\ Apply(s, l).seq = l.seq
  <1> DEFINE e == EntryOf(l)
             t == Apply(s, l)
  <1>1. s.seq \in Nat /\ s.log \subseteq Entry /\ l.seq \in Nat
    BY DEF History, State, Line
  <1>2. e \in Entry /\ e.seq = s.seq + 1
    BY DEF EntryOf, Entry, Line
  <1>3. t.seq = s.seq + 1 /\ t.log = s.log \cup {e} /\ t \in State
    BY <1>1, <1>2 DEF Apply, State
  <1>4. \A f \in s.log : f.seq \in 1 .. s.seq
    BY DEF History
  <1> HIDE DEF e, t
  <1>5. \A f \in t.log : f.seq \in 1 .. t.seq
    BY <1>1, <1>2, <1>3, <1>4
  <1>6. ASSUME NEW n \in 1 .. t.seq PROVE \E f \in t.log : f.seq = n
    <2>1. CASE n \in 1 .. s.seq
      BY <1>3, <2>1 DEF History
    <2>2. CASE n = s.seq + 1
      BY <1>2, <1>3, <2>2
    <2> QED BY <1>1, <1>3, <2>1, <2>2
  <1>7. ASSUME NEW f \in t.log, NEW g \in t.log, f.seq = g.seq PROVE f = g
    <2>1. \A h \in s.log : h.seq # e.seq
      BY <1>1, <1>2, <1>4
    <2>2. CASE f \in s.log /\ g \in s.log
      BY <1>7, <2>2 DEF History
    <2> QED BY <1>3, <1>7, <2>1, <2>2
  <1> QED BY <1>1, <1>3, <1>5, <1>6, <1>7 DEF History, e, t, Apply

(* Replaying whole lines that continue one history gives one history. *)
LEMMA ReplayHistory ==
    ASSUME NEW s, History(s), NEW j \in Seq(Line), AllParse(j), Continues(s, j)
    PROVE  History(Replay(s, j)) /\ Replay(s, j).seq = s.seq + Len(j)
  <1>0. s \in State /\ s.seq \in Nat /\ s.log \subseteq Entry
        /\ DOMAIN j = 1 .. Len(j) /\ Len(j) \in Nat
    BY DEF History, State
  <1>1. \A i \in DOMAIN j : j[i].seq = s.seq + i
    BY <1>0 DEF AllParse, Continues
  <1> DEFINE t == Replay(s, j)
  <1>2. t.seq = s.seq + Len(j) /\ t.log = s.log \cup {EntryOf(j[i]) : i \in 1 .. Len(j)}
    BY <1>0, <1>1, ReplayFacts
  <1>3. t \in State
    BY <1>0, ReplayType
  <1>4. \A i \in 1 .. Len(j) : EntryOf(j[i]).seq = s.seq + i
    BY <1>0, <1>1 DEF EntryOf
  <1>5. \A f \in s.log : f.seq \in 1 .. s.seq
    BY DEF History
  <1> HIDE DEF t
  <1>6. \A f \in t.log : f \in s.log \/ \E i \in 1 .. Len(j) : f = EntryOf(j[i])
    BY <1>2
  <1>7. \A f \in t.log : f.seq \in 1 .. t.seq
    BY <1>0, <1>2, <1>4, <1>5, <1>6
  <1>8. ASSUME NEW n \in 1 .. t.seq PROVE \E f \in t.log : f.seq = n
    <2>1. CASE n \in 1 .. s.seq
      BY <1>2, <2>1 DEF History
    <2>2. CASE n \notin 1 .. s.seq
      <3>1. n - s.seq \in 1 .. Len(j) /\ s.seq + (n - s.seq) = n
        BY <1>0, <1>2, <2>2
      <3>2. EntryOf(j[n - s.seq]) \in t.log
        BY <1>2, <3>1
      <3> QED BY <1>4, <3>1, <3>2
    <2> QED BY <2>1, <2>2
  <1>9. ASSUME NEW f \in t.log, NEW g \in t.log, f.seq = g.seq PROVE f = g
    <2>1. CASE f \in s.log /\ g \in s.log
      BY <1>9, <2>1 DEF History
    <2>2. ASSUME NEW h \in s.log, NEW i \in 1 .. Len(j) PROVE h.seq # EntryOf(j[i]).seq
      BY <1>0, <1>4, <1>5
    <2>3. ASSUME NEW i \in 1 .. Len(j), NEW k \in 1 .. Len(j),
                 f = EntryOf(j[i]), g = EntryOf(j[k])
          PROVE  f = g
      <3>1. i = k
        BY <1>0, <1>4, <1>9, <2>3
      <3> QED BY <2>3, <3>1
    <2> QED BY <1>6, <1>9, <2>1, <2>2, <2>3
  <1> QED BY <1>2, <1>3, <1>7, <1>8, <1>9 DEF History, t

LEMMA InitHistory == Init => HistInv
  <1> SUFFICES ASSUME Init PROVE HistInv
    OBVIOUS
  <1>1. TypeOK
    BY InitType
  <1>2. History(EmptyState)
    BY DEF History, EmptyState, State
  <1>3. EmptyState # Unreadable /\ EmptyState.seq = 0
    BY DEF EmptyState, Unreadable
  <1>4. \A g \in Gens : Continues(snapshots[g], journals[g])
    BY DEF Init, Continues
  <1>5. Snap = EmptyState /\ Jour = <<>> /\ Len(Jour) = 0
    BY BoundsAssumption DEF Init, Snap, Jour, Gens
  <1>6. \A g \in Gens : snapshots[g] # Unreadable => snapshots[g] = EmptyState
    BY DEF Init
  <1> QED BY <1>1, <1>2, <1>3, <1>4, <1>5, <1>6 DEF Init, HistInv, Rebuildable

(* Bytes written at the end of the open journal. *)
LEMMA WriteRebuilds ==
    ASSUME TypeOK, History(state), Rebuildable, status = "open", phase = "idle",
           NEW l \in Line, l.seq = state.seq + 1,
           journals' = [journals EXCEPT ![current] = AppendBytes(@, l)],
           UNCHANGED <<current, snapshots>>
    PROVE  /\ \A g \in Gens : snapshots'[g] # Unreadable =>
                                 /\ History(snapshots'[g])
                                 /\ Continues(snapshots'[g], journals'[g])
           /\ \A g \in Gens : g # current' => journals'[g] = <<>>
           /\ Snap' # Unreadable
           /\ AllParse(Jour') => Snap'.seq + Len(Jour') = state.seq + 1
  <1>1. /\ Jour \in Seq(Line) /\ Snap # Unreadable /\ History(Snap) /\ Continues(Snap, Jour)
        /\ Snap \in State /\ Snap.seq \in Nat /\ state.seq \in Nat /\ Len(Jour) \in Nat
        /\ AllParse(Jour) => Snap.seq + Len(Jour) = state.seq
    BY DEF TypeOK, Rebuildable, Snap, Jour, State, Unreadable
  <1>2. AllParse(Jour) => l.seq = Snap.seq + Len(Jour) + 1
    BY <1>1
  <1>3. /\ Continues(Snap, AppendBytes(Jour, l))
        /\ AllParse(AppendBytes(Jour, l)) =>
              AllParse(Jour) /\ Len(AppendBytes(Jour, l)) = Len(Jour) + 1
    BY <1>1, <1>2, AppendContinues
  <1>4. Jour' = AppendBytes(Jour, l) /\ Snap' = Snap /\ current \in Gens
    BY DEF Jour, Snap, TypeOK
  <1>5. \A g \in Gens : g # current => journals'[g] = journals[g]
    BY DEF TypeOK
  <1>6. \A g \in Gens : snapshots[g] # Unreadable => /\ History(snapshots[g])
                                                     /\ Continues(snapshots[g], journals'[g])
    BY <1>3, <1>4, <1>5 DEF Rebuildable, Jour, Snap
  <1>7. Snap' # Unreadable
    BY <1>1, <1>4
  <1>8. AllParse(Jour') => Snap'.seq + Len(Jour') = state.seq + 1
    BY <1>1, <1>3, <1>4
  <1>9. \A g \in Gens : g # current' => journals'[g] = <<>>
    BY <1>5 DEF Rebuildable
  <1>10. \A g \in Gens : snapshots'[g] # Unreadable => /\ History(snapshots'[g])
                                                       /\ Continues(snapshots'[g], journals'[g])
    BY <1>6
  <1> QED BY <1>7, <1>8, <1>9, <1>10

(* Every step keeps the directory rebuildable, or quarantines it, while no *)
(* reopening cut more than the torn line.                                  *)
LEMMA RebuildStep ==
    ASSUME TypeOK, TypeOK', History(state), Rebuildable, ~ overcut', [Next]_vars
    PROVE  Rebuildable' \/ Dead'
  <1>0. /\ current \in Gens /\ manifest.gen \in Gens /\ synced \in Nat
        /\ \A g \in Gens : journals[g] \in Seq(Line)
        /\ phase # "idle" => status = "open"
        /\ DOMAIN journals = Gens /\ DOMAIN snapshots = Gens
    BY DEF TypeOK, Manifest
  <1>1. CASE CommitFails
    BY <1>1 DEF CommitFails, disk, process, Rebuildable, Snap, Jour
  <1>2. CASE CommitWrite
    <2>1. /\ status = "open" /\ phase = "idle" /\ NextLine \in Line
          /\ NextLine.seq = state.seq + 1
      BY <1>2, NextLineType DEF CommitWrite, MayCommit, NextLine
    <2>2. /\ journals' = [journals EXCEPT ![current] = AppendBytes(@, NextLine)]
          /\ UNCHANGED <<current, snapshots, state>> /\ phase' = "fsync" /\ pending' = NextLine
      BY <1>2 DEF CommitWrite
    <2>3. /\ \A g \in Gens : snapshots'[g] # Unreadable =>
                                 /\ History(snapshots'[g])
                                 /\ Continues(snapshots'[g], journals'[g])
          /\ \A g \in Gens : g # current' => journals'[g] = <<>>
          /\ Snap' # Unreadable
          /\ AllParse(Jour') => Snap'.seq + Len(Jour') = state.seq + 1
      BY <2>1, <2>2, WriteRebuilds
    <2> QED BY <2>1, <2>2, <2>3 DEF Rebuildable
  <1>3. ASSUME NEW part \in Partials(NextLine), MayCommit,
               journals' = [journals EXCEPT ![current] = AppendBytes(@, part)],
               UNCHANGED <<current, snapshots>>,
               status' # "open", phase' = "idle"
        PROVE  Rebuildable'
    <2>1. /\ status = "open" /\ phase = "idle" /\ NextLine \in Line /\ part \in Line
      BY <1>3, NextLineType, PartialsType DEF MayCommit
    <2>2. part.seq = state.seq + 1
      BY DEF Partials, Parts, NextLine
    <2>3. /\ \A g \in Gens : snapshots'[g] # Unreadable =>
                                 /\ History(snapshots'[g])
                                 /\ Continues(snapshots'[g], journals'[g])
          /\ \A g \in Gens : g # current' => journals'[g] = <<>>
      BY <1>3, <2>1, <2>2, WriteRebuilds
    <2> QED BY <1>3, <2>3 DEF Rebuildable
  <1>4. CASE CommitTruncateFails
    BY <1>3, <1>4 DEF CommitTruncateFails, MayCommit
  <1>5. CASE StopInWrite
    BY <1>3, <1>5 DEF StopInWrite, GoDown
  <1>6. CASE FinishCommit
    <2>1. /\ phase = "fsync" /\ phase' = "idle" /\ state'.seq = state.seq + 1 /\ status = "open"
          /\ UNCHANGED <<snapshots, journals, status, current>>
      BY <1>0, <1>6 DEF FinishCommit, Apply, Rebuildable
    <2>2. state.seq \in Nat /\ state'.seq \in Nat
      BY DEF TypeOK, State
    <2>3. AllParse(Jour) => Snap.seq + Len(Jour) = state.seq + 1
      BY <2>1 DEF Rebuildable
    <2>4. Snap' = Snap /\ Jour' = Jour
      BY <2>1 DEF Snap, Jour
    <2>5. AllParse(Jour') => Snap'.seq + Len(Jour') = state'.seq + 0
      BY <2>1, <2>2, <2>3, <2>4
    <2> QED BY <2>1, <2>4, <2>5 DEF Rebuildable
  <1>7. CASE CompactSnapshot
    <2>1. /\ status = "open" /\ phase = "idle" /\ current + 1 \in Gens /\ current + 1 # current
          /\ snapshots' = [snapshots EXCEPT ![current + 1] = state]
          /\ phase' = "journal"
          /\ UNCHANGED <<journals, current, state, status>>
      BY <1>0, <1>7, BoundsAssumption DEF CompactSnapshot, Gens
    <2>2. journals[current + 1] = <<>> /\ Continues(state, <<>>)
      BY <2>1 DEF Rebuildable, Continues
    <2>3. Snap' = Snap /\ Jour' = Jour /\ snapshots'[current + 1] = state
      BY <1>0, <2>1 DEF Snap, Jour
    <2>4. \A g \in Gens : g # current + 1 => snapshots'[g] = snapshots[g]
      BY <1>0, <2>1
    <2>5. \A g \in Gens : snapshots'[g] # Unreadable => /\ History(snapshots'[g])
                                                        /\ Continues(snapshots'[g], journals'[g])
      BY <2>1, <2>2, <2>3, <2>4 DEF Rebuildable
    <2> QED BY <2>1, <2>3, <2>5 DEF Rebuildable
  <1>8. CASE CompactJournal
    <2>1. /\ journals[current + 1] = <<>> /\ current + 1 \in Gens
          /\ status = "open" /\ phase = "journal"
      BY <1>0, <1>8, BoundsAssumption DEF CompactJournal, Rebuildable, Gens, TypeOK
    <2>2. journals' = journals
      BY <1>8, <2>1 DEF CompactJournal, TypeOK
    <2> QED BY <1>8, <2>1, <2>2 DEF CompactJournal, Rebuildable, Snap, Jour
  <1>9. CASE CompactManifest
    BY <1>0, <1>9 DEF CompactManifest, Rebuildable, Snap, Jour
  <1>10. CASE CompactSwitch
    <2>1. /\ status = "open" /\ phase = "directory" /\ phase' = "idle" /\ status' = "open"
          /\ current' = current + 1 /\ current + 1 \in Gens /\ current + 1 # current
          /\ snapshots' = [snapshots EXCEPT ![current] = Unreadable]
          /\ journals' = [journals EXCEPT ![current] = <<>>] /\ state' = state
      BY <1>0, <1>10, BoundsAssumption DEF CompactSwitch, TypeOK, Gens
    <2>2. /\ snapshots[current + 1] = state /\ journals[current + 1] = <<>>
          /\ state # Unreadable /\ state.seq \in Nat
      BY <1>0, <2>1 DEF Rebuildable, TypeOK, State, Unreadable
    <2>3. Snap' = state /\ Jour' = <<>> /\ Len(<<>>) = 0
      BY <1>0, <2>1, <2>2 DEF Snap, Jour
    <2>4. \A g \in Gens : journals'[g] = <<>>
      BY <1>0, <2>1 DEF Rebuildable
    <2>5. \A g \in Gens : snapshots'[g] # Unreadable => snapshots'[g] = snapshots[g]
      BY <1>0, <2>1
    <2>6. \A s : Continues(s, <<>>)
      BY DEF Continues
    <2> QED BY <2>1, <2>2, <2>3, <2>4, <2>5, <2>6 DEF Rebuildable
  <1>11. CASE CompactFails
    BY <1>0, <1>11 DEF CompactFails, disk, Rebuildable, Snap, Jour
  <1>12. CASE CompactDirectoryFails
    BY <1>0, <1>12 DEF CompactDirectoryFails, disk, Rebuildable, Snap, Jour
  <1>13. CASE Stop
    BY <1>13 DEF Stop, GoDown, disk, Rebuildable
  <1>14. CASE PowerLoss
    <2>1. PICK left \in Remains(Jour) : journals' = [journals EXCEPT ![current] = left]
      BY <1>14 DEF PowerLoss, Jour
    <2>2. status' = "down" /\ phase' = "idle" /\ current' = current /\ snapshots' = snapshots
      BY <1>14 DEF PowerLoss, GoDown
    <2>3. /\ left \in Seq(Line) /\ Len(left) <= Len(Jour)
          /\ \A i \in 1 .. Len(left) : left[i].seq = Jour[i].seq /\ (left[i].parses => Jour[i].parses)
      BY <1>0, <2>1, RemainsPrefix DEF Jour
    <2>4. \A s : Continues(s, Jour) => Continues(s, left)
      BY <1>0, <2>3, LessContinues DEF Jour
    <2>5. \A g \in Gens : journals'[g] = IF g = current THEN left ELSE journals[g]
      BY <1>0, <2>1
    <2>6. \A g \in Gens : \A s : Continues(s, journals[g]) => Continues(s, journals'[g])
      BY <2>4, <2>5 DEF Jour
    <2>7. \A g \in Gens : g # current => journals'[g] = <<>>
      BY <2>5 DEF Rebuildable
    <2> QED BY <2>2, <2>6, <2>7 DEF Rebuildable
  <1>15. CASE Damage
    <2>1. status' = "down" /\ status = "down" /\ phase' = phase /\ current' = current
      BY <1>15 DEF Damage, process
    <2>2. CASE manifest' # manifest
      BY <1>0, <1>15, <2>1, <2>2 DEF Damage, Dead, TypeOK, Manifest
    <2>3. ASSUME \A g \in Gens : snapshots'[g] \in {snapshots[g], Unreadable},
                 \A g \in Gens : \A s : Continues(s, journals[g]) => Continues(s, journals'[g]),
                 \A g \in Gens : journals[g] = <<>> => journals'[g] = <<>>
          PROVE  Rebuildable'
      BY <1>0, <2>1, <2>3 DEF Rebuildable
    <2>4. CASE UNCHANGED journals /\ snapshots' = [snapshots EXCEPT ![manifest.gen] = Unreadable]
      BY <1>0, <2>3, <2>4
    <2>5. CASE UNCHANGED journals /\ UNCHANGED snapshots
      BY <1>0, <2>3, <2>5
    <2>6. ASSUME NEW i \in DOMAIN journals[manifest.gen], UNCHANGED snapshots,
                 journals' = [journals EXCEPT ![manifest.gen][i].parses = FALSE]
          PROVE  Rebuildable'
      <3> DEFINE g0 == manifest.gen
                 d == [journals[g0] EXCEPT ![i].parses = FALSE]
      <3>1. journals[g0] \in Seq(Line)
        BY <1>0
      <3>2. /\ Len(d) = Len(journals[g0]) /\ DOMAIN d = DOMAIN journals[g0] /\ d \in Seq(Line)
            /\ \A k \in DOMAIN journals[g0] : d[k] = journals[g0][k] \/ k = i
            /\ \A k \in DOMAIN journals[g0] : d[k].seq = journals[g0][k].seq
            /\ ~ d[i].parses
        BY <2>6, <3>1, DamagedFacts
      <3>3. journals' = [journals EXCEPT ![g0] = d]
        BY <2>6
      <3> HIDE DEF d
      <3>4. \A s : Continues(s, journals[g0]) => Continues(s, d)
        <4>1. /\ Len(d) <= Len(journals[g0])
              /\ \A k \in 1 .. Len(d) : /\ d[k].seq = journals[g0][k].seq
                                        /\ d[k].parses => journals[g0][k].parses
          BY <3>1, <3>2
        <4> QED BY <3>1, <3>2, <4>1, LessContinues
      <3>5. \A g \in Gens : journals'[g] = IF g = g0 THEN d ELSE journals[g]
        BY <1>0, <3>3
      <3>6. journals[g0] # <<>>
        BY <2>6
      <3>7. /\ \A g \in Gens : \A s : Continues(s, journals[g]) => Continues(s, journals'[g])
            /\ \A g \in Gens : journals[g] = <<>> => journals'[g] = <<>>
        BY <3>4, <3>5, <3>6
      <3> QED BY <2>3, <2>6, <3>7
    <2> QED BY <1>15, <2>2, <2>4, <2>5, <2>6 DEF Damage
  <1>16. CASE OpenQuarantined
    BY <1>16 DEF OpenQuarantined, Dead, TypeOK, Manifest
  <1>17. CASE Open
    <2> DEFINE g == manifest.gen
               kept == DropTorn(journals[g])
    <2>1. /\ ~ MustQuarantine /\ status' = "open" /\ status = "down" /\ phase' = "idle"
          /\ current' = g /\ g \in Gens
      BY <1>0, <1>17 DEF Open
    <2>2. /\ state' = Replay(snapshots[g], kept) /\ Snap' = snapshots[g] /\ Jour' = kept
          /\ \A h \in Gens : h # g => snapshots'[h] = Unreadable /\ journals'[h] = <<>>
          /\ snapshots'[g] = snapshots[g] /\ journals'[g] = kept
      BY <1>17, <2>1 DEF Open, Snap, Jour
    <2>3. /\ snapshots[g] # Unreadable /\ AllParse(kept) /\ History(snapshots[g])
          /\ Continues(snapshots[g], journals[g])
      BY <2>1 DEF MustQuarantine, Rebuildable
    <2>4. kept \in Seq(Line) /\ Continues(snapshots[g], kept)
      <3>1. journals[g] \in Seq(Line)
        BY <1>0
      <3>2. /\ kept \in Seq(Line) /\ DOMAIN kept = 1 .. Len(kept) /\ Len(kept) <= Len(journals[g])
            /\ \A i \in DOMAIN kept : kept[i] = journals[g][i]
        BY <3>1, DropTornFacts
      <3> HIDE DEF kept
      <3> QED BY <2>3, <3>1, <3>2, LessContinues
    <2> HIDE DEF kept
    <2>5. state'.seq = snapshots[g].seq + Len(kept) /\ snapshots[g].seq \in Nat /\ Len(kept) \in Nat
      BY <2>2, <2>3, <2>4, ReplayHistory DEF History, State
    <2> QED BY <2>1, <2>2, <2>3, <2>4, <2>5 DEF Rebuildable
  <1>18. CASE UNCHANGED vars
    BY <1>18 DEF vars, disk, process, Rebuildable, Snap, Jour
  <1> QED
    BY <1>1, <1>2, <1>4, <1>5, <1>6, <1>7, <1>8, <1>9, <1>10, <1>11, <1>12, <1>13, <1>14,
       <1>15, <1>16, <1>17, <1>18 DEF Next, CommitFsync, CommitFsyncFails

(* Every step keeps the state one history and the answers part of it. *)
LEMMA HistoryStep == HistInv /\ ~ overcut' /\ [Next]_vars => HistInv'
  <1> SUFFICES ASSUME HistInv, ~ overcut', [Next]_vars PROVE HistInv'
    OBVIOUS
  <1>1. TypeOK /\ TypeOK' /\ History(state) /\ told \subseteq state.log
    BY NextType DEF HistInv
  <1>2. Dead' \/ Rebuildable'
    BY <1>1, DeadStays, RebuildStep DEF HistInv
  <1>3. ASSUME UNCHANGED <<state, told>> PROVE History(state') /\ told' \subseteq state'.log
    BY <1>1, <1>3
  <1>4. ASSUME FinishCommit PROVE History(state') /\ told' \subseteq state'.log
    <2>1. /\ phase = "fsync" /\ state' = Apply(state, pending)
          /\ told' = told \cup {EntryOf(pending)} /\ pending \in Line
      BY <1>1, <1>4 DEF FinishCommit, TypeOK
    <2>2. Rebuildable
      BY <1>1, <2>1 DEF HistInv, Dead, TypeOK
    <2>3. pending.seq = state.seq + 1
      BY <2>1, <2>2 DEF Rebuildable
    <2>4. History(Apply(state, pending)) /\ state.log \subseteq Apply(state, pending).log
          /\ EntryOf(pending) \in Apply(state, pending).log
      BY <1>1, <2>1, <2>3, ApplyHistory
    <2> QED BY <1>1, <2>1, <2>4
  <1>5. ASSUME OpenQuarantined PROVE History(state') /\ told' \subseteq state'.log
    <2>1. History(EmptyState)
      BY DEF History, EmptyState, State
    <2> QED BY <1>5, <2>1 DEF OpenQuarantined
  <1>6. ASSUME Open PROVE History(state') /\ told' \subseteq state'.log
    <2> DEFINE g == manifest.gen
               kept == DropTorn(journals[g])
    <2>1. /\ ~ MustQuarantine /\ state' = Replay(snapshots[g], kept) /\ told' = {}
          /\ g \in Gens /\ journals[g] \in Seq(Line)
      BY <1>1, <1>6 DEF Open, TypeOK, Manifest
    <2>2. Rebuildable
      BY <2>1 DEF HistInv, Dead, MustQuarantine
    <2>3. /\ AllParse(kept) /\ History(snapshots[g])
          /\ Continues(snapshots[g], journals[g])
      BY <2>1, <2>2 DEF MustQuarantine, Rebuildable
    <2>4. kept \in Seq(Line) /\ Continues(snapshots[g], kept)
      <3>1. /\ kept \in Seq(Line) /\ DOMAIN kept = 1 .. Len(kept) /\ Len(kept) <= Len(journals[g])
            /\ \A i \in DOMAIN kept : kept[i] = journals[g][i]
        BY <2>1, DropTornFacts
      <3> HIDE DEF kept
      <3> QED BY <2>1, <2>3, <3>1, LessContinues
    <2> HIDE DEF kept
    <2> QED BY <2>1, <2>3, <2>4, ReplayHistory
  <1>7. History(state') /\ told' \subseteq state'.log
    BY <1>3, <1>4, <1>5, <1>6
    DEF Next, CommitFails, CommitWrite, CommitTruncateFails, CommitFsync, CommitFsyncFails,
        CompactSnapshot, CompactJournal, CompactManifest, CompactSwitch, CompactFails,
        CompactDirectoryFails, Stop, StopInWrite, PowerLoss, Damage, GoDown, process, history,
        vars
  <1> QED BY <1>1, <1>2, <1>7 DEF HistInv

(* A reopening that cut too much is not forgotten. *)
LEMMA OvercutStays == TypeOK /\ overcut /\ [Next]_vars => overcut'
  BY DEF Next, CommitFails, CommitWrite, CommitTruncateFails, CommitFsync, CommitFsyncFails,
      FinishCommit, CompactSnapshot, CompactJournal, CompactManifest, CompactSwitch,
      CompactFails, CompactDirectoryFails, Stop, StopInWrite, PowerLoss, Damage, GoDown,
      OpenQuarantined, Open, process, history, vars

(* The state of an open store is one history, each seq from 1 to its seq   *)
(* applied once: whatever failures the environment brings, a newline lost, *)
(* a directory sync that fails and damage included, a replay neither skips *)
(* nor repeats a seq, until a reopening cuts lines that memory holds.      *)
THEOREM HistoryIsOne == Spec => []OneHistory
  <1> DEFINE Inv == TypeOK /\ (overcut \/ HistInv)
  <1>1. Init => Inv
    BY InitHistory DEF HistInv
  <1>2. Inv /\ [Next]_vars => Inv'
    BY NextType, OvercutStays, HistoryStep
  <1>3. Inv => OneHistory
    BY DEF HistInv, History, OneHistory
  <1> HIDE DEF Inv
  <1> QED BY <1>1, <1>2, <1>3, PTL DEF Spec

(* The answers of this process: numbered apart, none above the state.      *)
TellInv ==
    /\ TypeOK
    /\ phase = "fsync" => pending.seq = state.seq + 1
    /\ \A e \in told : e.seq <= state.seq
    /\ SeqsOnce

LEMMA TellStep == TellInv /\ [Next]_vars => TellInv'
  <1> SUFFICES ASSUME TellInv, [Next]_vars PROVE TellInv'
    OBVIOUS
  <1>0. TypeOK /\ TypeOK'
    BY NextType DEF TellInv
  <1>1. state.seq \in Nat /\ \A e \in told : e.seq \in Nat
    BY <1>0 DEF TypeOK, State, Entry
  <1>2. CASE FinishCommit
    <2>1. /\ phase = "fsync" /\ phase' = "idle" /\ pending.seq = state.seq + 1
          /\ state'.seq = pending.seq /\ told' = told \cup {EntryOf(pending)}
          /\ EntryOf(pending).seq = pending.seq
      BY <1>2 DEF FinishCommit, TellInv, Apply, EntryOf
    <2>2. \A e \in told' : e.seq <= state'.seq
      BY <1>1, <2>1 DEF TellInv
    <2>3. SeqsOnce'
      BY <1>1, <2>1 DEF TellInv, SeqsOnce
    <2> QED BY <1>0, <2>1, <2>2, <2>3 DEF TellInv
  <1>3. CASE CommitWrite
    BY <1>0, <1>3 DEF CommitWrite, NextLine, TellInv, SeqsOnce
  <1>4. CASE OpenQuarantined \/ Open
    <2>1. told' = {} /\ phase' # "fsync"
      BY <1>0, <1>4 DEF OpenQuarantined, Open, TypeOK
    <2> QED BY <1>0, <2>1 DEF TellInv, SeqsOnce
  <1>5. ASSUME UNCHANGED <<told, state>>,
               phase' # "fsync" \/ UNCHANGED <<phase, pending>>
        PROVE  TellInv'
    BY <1>0, <1>5 DEF TellInv, SeqsOnce
  <1>6. CASE \/ CommitFails \/ CommitTruncateFails \/ CompactSnapshot \/ CompactJournal
             \/ CompactManifest \/ CompactSwitch \/ CompactFails \/ CompactDirectoryFails
             \/ Stop \/ StopInWrite \/ PowerLoss \/ Damage \/ UNCHANGED vars
    BY <1>5, <1>6
    DEF CommitFails, CommitTruncateFails, CompactSnapshot, CompactJournal, CompactManifest,
        CompactSwitch, CompactFails, CompactDirectoryFails, Stop, StopInWrite, PowerLoss,
        Damage, GoDown, MayCommit, process, history, vars
  <1> QED BY <1>2, <1>3, <1>4, <1>6 DEF Next, CommitFsync, CommitFsyncFails

(* No sequence number is answered for two writes of one process, also when *)
(* the fsync of the first failed and its answer was uncertain, or the file *)
(* lost lines its memory holds.                                            *)
THEOREM SeqsAnsweredOnce == Spec => []SeqsOnce
  <1>1. Init => TellInv
    BY InitType DEF Init, TellInv, SeqsOnce
  <1>2. TellInv => SeqsOnce
    BY DEF TellInv
  <1> QED BY <1>1, <1>2, TellStep, PTL DEF Spec

----------------------------------------------------------------------------
(* A failed write stays out *)

(* The writes attempted and not refused. *)
Admitted == (1 .. attempts) \ failed

(* Nothing a refused write left behind can be applied: its bytes never     *)
(* parse.  While a line waits for its fsync it is the last one attempted.  *)
OnlyAdmitted ==
    /\ failed \subseteq 1 .. attempts
    /\ \A g \in Gens : \A e \in snapshots[g].log : e.id \in Admitted
    /\ \A g \in Gens : \A i \in DOMAIN journals[g] :
          journals[g][i].parses => journals[g][i].id \in Admitted
    /\ \A e \in state.log : e.id \in Admitted
    /\ phase = "fsync" => /\ pending.id = attempts /\ pending.id \in Admitted
                          /\ \A e \in state.log : e.id < attempts

(* Bytes that do not parse, or parse as an admitted write, add no other. *)
LEMMA AppendAdmits ==
    ASSUME NEW j \in Seq(Line), NEW l \in Line, NEW A,
           \A i \in DOMAIN j : j[i].parses => j[i].id \in A,
           l.parses => l.id \in A
    PROVE  \A i \in DOMAIN AppendBytes(j, l) :
              AppendBytes(j, l)[i].parses => AppendBytes(j, l)[i].id \in A
  <1> DEFINE r == AppendBytes(j, l)
  <1>1. Len(j) \in Nat /\ DOMAIN j = 1 .. Len(j)
    OBVIOUS
  <1>2. CASE r = Append(j, l)
    <2>1. /\ DOMAIN r = 1 .. Len(j) + 1
          /\ r[Len(j) + 1] = l /\ \A i \in 1 .. Len(j) : r[i] = j[i]
      BY <1>2, AppendFacts
    <2> HIDE DEF r
    <2>2. ASSUME NEW i \in DOMAIN r, r[i].parses PROVE r[i].id \in A
      <3>1. i \in 1 .. Len(j) \/ i = Len(j) + 1
        BY <1>1, <2>1, <2>2
      <3> QED BY <1>1, <2>1, <2>2, <3>1
    <2> QED BY <2>2 DEF r
  <1>3. CASE r # Append(j, l)
    <2>1. /\ Len(r) = Len(j) /\ r \in Seq(Line) /\ ~ r[Len(j)].parses
          /\ \A k \in 1 .. Len(j) - 1 : r[k] = j[k]
      BY <1>3, AppendBytesFacts
    <2> HIDE DEF r
    <2>2. ASSUME NEW i \in DOMAIN r, r[i].parses PROVE r[i].id \in A
      <3>1. i \in 1 .. Len(j) - 1 /\ i \in DOMAIN j
        BY <1>1, <2>1, <2>2
      <3> QED BY <2>1, <2>2, <3>1
    <2> QED BY <2>2 DEF r
  <1> QED BY <1>2, <1>3

(* The set of admitted writes only grows, and a refusal leaves it alone. *)
LEMMA AdmittedGrows ==
    ASSUME TypeOK, failed \subseteq 1 .. attempts, [Next]_vars
    PROVE  Admitted \subseteq Admitted' /\ failed' \subseteq 1 .. attempts'
  <1>1. attempts \in Nat /\ attempts + 1 \notin 1 .. attempts
        /\ 1 .. attempts \subseteq 1 .. attempts + 1 /\ attempts + 1 \in 1 .. attempts + 1
    BY DEF TypeOK
  <1>2. \/ UNCHANGED <<attempts, failed>>
        \/ attempts' = attempts + 1 /\ failed' \in {failed, failed \cup {attempts + 1}}
    BY DEF Next, CommitFails, CommitWrite, CommitTruncateFails, CommitFsync, CommitFsyncFails,
        FinishCommit, CompactSnapshot, CompactJournal, CompactManifest, CompactSwitch,
        CompactFails, CompactDirectoryFails, Stop, StopInWrite, PowerLoss, Damage, GoDown,
        OpenQuarantined, Open, history, vars
  <1>3. CASE UNCHANGED <<attempts, failed>>
    BY <1>3 DEF Admitted
  <1>4. CASE attempts' = attempts + 1 /\ failed' \in {failed, failed \cup {attempts + 1}}
    <2>1. failed' \subseteq 1 .. attempts'
      BY <1>1, <1>4
    <2>2. ASSUME NEW i \in Admitted PROVE i \in Admitted'
      <3>1. i \in 1 .. attempts /\ i \notin failed /\ i # attempts + 1
        BY <1>1 DEF Admitted
      <3>2. i \in 1 .. attempts' /\ i \notin failed'
        BY <1>1, <1>4, <3>1
      <3> QED BY <3>2 DEF Admitted
    <2> QED BY <2>1, <2>2
  <1> QED BY <1>2, <1>3, <1>4

LEMMA AdmittedStep ==
    ASSUME "newline" \notin Faults, TypeOK, OnlyAdmitted, [Next]_vars
    PROVE  OnlyAdmitted'
  <1>0. /\ current \in Gens /\ manifest.gen \in Gens /\ synced \in Nat
        /\ \A g \in Gens : journals[g] \in Seq(Line)
        /\ DOMAIN journals = Gens /\ DOMAIN snapshots = Gens
        /\ attempts \in Nat /\ phase \in {"idle", "fsync", "journal", "manifest", "directory"}
        /\ phase # "idle" => status = "open"
    BY DEF TypeOK, Manifest
  <1>1. Admitted \subseteq Admitted' /\ failed' \subseteq 1 .. attempts'
    BY AdmittedGrows DEF OnlyAdmitted
  <1> DEFINE SnapsKept == \A g \in Gens : snapshots'[g].log \subseteq snapshots[g].log
                                            \/ snapshots'[g].log = state.log
             LinesKept(A) == \A g \in Gens : \A i \in DOMAIN journals'[g] :
                                journals'[g][i].parses => journals'[g][i].id \in A
             StateKept == \A e \in state'.log : e.id \in Admitted'
  <1>2. ASSUME SnapsKept PROVE \A g \in Gens : \A e \in snapshots'[g].log : e.id \in Admitted'
    BY <1>1, <1>2 DEF OnlyAdmitted
  <1>3. ASSUME UNCHANGED journals PROVE LinesKept(Admitted')
    BY <1>1, <1>3 DEF OnlyAdmitted
  <1>4. ASSUME SnapsKept, LinesKept(Admitted'), UNCHANGED state, phase' # "fsync"
        PROVE  OnlyAdmitted'
    <2>1. StateKept
      BY <1>1, <1>4 DEF OnlyAdmitted
    <2>2. \A g \in Gens : \A e \in snapshots'[g].log : e.id \in Admitted'
      BY <1>2, <1>4
    <2> QED BY <1>1, <1>4, <2>1, <2>2 DEF OnlyAdmitted
  <1>5. ASSUME NEW l \in Line, l.parses => l.id \in Admitted',
               journals' = [journals EXCEPT ![current] = AppendBytes(@, l)]
        PROVE  LinesKept(Admitted')
    <2>1. Jour \in Seq(Line) /\ \A i \in DOMAIN Jour : Jour[i].parses => Jour[i].id \in Admitted'
      BY <1>0, <1>1 DEF OnlyAdmitted, Jour
    <2>2. \A i \in DOMAIN AppendBytes(Jour, l) :
             AppendBytes(Jour, l)[i].parses => AppendBytes(Jour, l)[i].id \in Admitted'
      BY <1>5, <2>1, AppendAdmits
    <2>3. \A g \in Gens : journals'[g] = IF g = current THEN AppendBytes(Jour, l) ELSE journals[g]
      BY <1>0, <1>5 DEF Jour
    <2> QED BY <1>1, <2>2, <2>3 DEF OnlyAdmitted
  <1>6. CASE CommitFails
    BY <1>3, <1>4, <1>6 DEF CommitFails, MayCommit, disk, process
  <1>7. CASE CommitWrite
    <2>1. /\ status = "open" /\ phase = "idle" /\ NextLine \in Line /\ NextLine.id = attempts'
          /\ attempts' = attempts + 1 /\ failed' = failed /\ pending' = NextLine
          /\ UNCHANGED <<snapshots, state>>
          /\ journals' = [journals EXCEPT ![current] = AppendBytes(@, NextLine)]
      BY <1>7, NextLineType DEF CommitWrite, MayCommit, NextLine
    <2>2. attempts' \in Admitted'
      BY <1>0, <2>1 DEF Admitted, OnlyAdmitted
    <2>3. LinesKept(Admitted')
      BY <1>5, <2>1, <2>2
    <2>4. \A e \in state.log : e.id \in Admitted /\ e.id < attempts + 1
      BY <1>0 DEF OnlyAdmitted, Admitted
    <2>5. \A e \in state'.log : e.id \in Admitted' /\ e.id < attempts'
      BY <1>1, <2>1, <2>4
    <2>6. pending'.id = attempts' /\ pending'.id \in Admitted'
      BY <2>1, <2>2
    <2>7. \A g \in Gens : \A e \in snapshots'[g].log : e.id \in Admitted'
      BY <1>2, <2>1
    <2> QED BY <1>1, <2>3, <2>5, <2>6, <2>7 DEF OnlyAdmitted
  <1>8. ASSUME NEW part \in Partials(NextLine), MayCommit,
               journals' = [journals EXCEPT ![current] = AppendBytes(@, part)],
               UNCHANGED <<snapshots, state>>, phase' = "idle"
        PROVE  OnlyAdmitted'
    <2>1. NextLine \in Line /\ part \in Line
      BY <1>8, NextLineType, PartialsType
    <2>2. ~ part.parses
      BY <2>1 DEF Partials, Parts, NextLine
    <2>3. LinesKept(Admitted')
      BY <1>5, <1>8, <2>1, <2>2
    <2> QED BY <1>4, <1>8, <2>3
  <1>9. CASE CommitTruncateFails
    BY <1>8, <1>9 DEF CommitTruncateFails, MayCommit
  <1>10. CASE StopInWrite
    BY <1>8, <1>10 DEF StopInWrite, GoDown
  <1>11. CASE FinishCommit
    <2>1. /\ phase = "fsync" /\ phase' = "idle" /\ state' = Apply(state, pending)
          /\ UNCHANGED <<snapshots, journals>>
      BY <1>11 DEF FinishCommit
    <2>2. StateKept
      BY <1>1, <2>1 DEF OnlyAdmitted, Apply, EntryOf
    <2> QED BY <1>1, <1>2, <1>3, <2>1, <2>2 DEF OnlyAdmitted
  <1>12. CASE CompactSnapshot
    <2>1. SnapsKept
      BY <1>0, <1>12 DEF CompactSnapshot
    <2> QED BY <1>3, <1>4, <1>12, <2>1 DEF CompactSnapshot
  <1>13. ASSUME \A g \in Gens : journals'[g] \in {journals[g], <<>>}
         PROVE  LinesKept(Admitted')
    <2>1. ASSUME NEW g \in Gens, NEW i \in DOMAIN journals'[g], journals'[g][i].parses
          PROVE  journals'[g][i].id \in Admitted'
      <3>1. journals'[g] = journals[g]
        BY <1>13, <2>1
      <3> QED BY <1>1, <2>1, <3>1 DEF OnlyAdmitted
    <2> QED BY <2>1
  <1>14. CASE CompactJournal
    <2>1. /\ \A g \in Gens : journals'[g] \in {journals[g], <<>>}
          /\ UNCHANGED <<snapshots, state>> /\ phase' # "fsync"
      BY <1>0, <1>14 DEF CompactJournal
    <2> QED BY <1>4, <1>13, <2>1
  <1>15. CASE CompactManifest
    BY <1>3, <1>4, <1>15 DEF CompactManifest
  <1>16. CASE CompactSwitch
    <2>1. /\ \A g \in Gens : journals'[g] \in {journals[g], <<>>}
          /\ \A g \in Gens : snapshots'[g] \in {snapshots[g], Unreadable}
          /\ UNCHANGED state /\ phase' # "fsync"
      BY <1>0, <1>16 DEF CompactSwitch
    <2>2. SnapsKept
      BY <2>1 DEF Unreadable
    <2> QED BY <1>4, <1>13, <2>1, <2>2
  <1>17. CASE CompactFails
    BY <1>3, <1>4, <1>17 DEF CompactFails, disk
  <1>18. CASE CompactDirectoryFails
    BY <1>3, <1>4, <1>18 DEF CompactDirectoryFails, disk
  <1>19. CASE Stop
    BY <1>3, <1>4, <1>19 DEF Stop, GoDown, disk
  <1>20. CASE PowerLoss
    <2>1. PICK left \in Remains(Jour) : journals' = [journals EXCEPT ![current] = left]
      BY <1>20 DEF PowerLoss, Jour
    <2>2. phase' = "idle" /\ state' = state /\ snapshots' = snapshots
      BY <1>20 DEF PowerLoss, GoDown
    <2>3. /\ left \in Seq(Line) /\ Len(left) <= Len(Jour) /\ Jour \in Seq(Line)
          /\ \A i \in 1 .. Len(left) : left[i].id = Jour[i].id /\ (left[i].parses => Jour[i].parses)
      BY <1>0, <2>1, RemainsPrefix DEF Jour
    <2>4. \A i \in DOMAIN left : i \in DOMAIN Jour /\ left[i].id = Jour[i].id
                                 /\ (left[i].parses => Jour[i].parses)
      BY <2>3
    <2>5. \A g \in Gens : journals'[g] = IF g = current THEN left ELSE journals[g]
      BY <1>0, <2>1
    <2>6. \A i \in DOMAIN left : left[i].parses => left[i].id \in Admitted
      BY <1>0, <2>4 DEF OnlyAdmitted, Jour
    <2>7. LinesKept(Admitted')
      BY <1>1, <2>5, <2>6 DEF OnlyAdmitted
    <2> QED BY <1>4, <2>2, <2>7
  <1>21. CASE Damage
    <2>1. phase' # "fsync" /\ state' = state
      BY <1>0, <1>21 DEF Damage, process
    <2>2. CASE UNCHANGED <<snapshots, journals>>
      BY <1>3, <1>4, <2>1, <2>2
    <2>3. CASE UNCHANGED journals /\ snapshots' = [snapshots EXCEPT ![manifest.gen] = Unreadable]
      <3>1. SnapsKept
        BY <1>0, <2>3 DEF Unreadable
      <3> QED BY <1>3, <1>4, <2>1, <2>3, <3>1
    <2>4. ASSUME NEW i \in DOMAIN journals[manifest.gen], UNCHANGED snapshots,
                 journals' = [journals EXCEPT ![manifest.gen][i].parses = FALSE]
          PROVE  OnlyAdmitted'
      <3> DEFINE g0 == manifest.gen
                 d == [journals[g0] EXCEPT ![i].parses = FALSE]
      <3>1. journals[g0] \in Seq(Line)
        BY <1>0
      <3>2. /\ DOMAIN d = DOMAIN journals[g0]
            /\ \A k \in DOMAIN journals[g0] : d[k] = journals[g0][k] \/ k = i
            /\ ~ d[i].parses
        BY <2>4, <3>1, DamagedFacts
      <3>3. journals' = [journals EXCEPT ![g0] = d]
        BY <2>4
      <3> HIDE DEF d
      <3>4. \A k \in DOMAIN d : d[k].parses => d[k].id \in Admitted
        BY <1>0, <3>2 DEF OnlyAdmitted
      <3>5. \A g \in Gens : journals'[g] = IF g = g0 THEN d ELSE journals[g]
        BY <1>0, <3>3
      <3>6. LinesKept(Admitted')
        BY <1>1, <3>4, <3>5 DEF OnlyAdmitted
      <3> QED BY <1>4, <2>1, <2>4, <3>6
    <2> QED BY <1>21, <2>2, <2>3, <2>4 DEF Damage
  <1>22. CASE OpenQuarantined
    <2>1. StateKept
      BY <1>22 DEF OpenQuarantined, EmptyState
    <2>2. UNCHANGED <<snapshots, journals, phase>> /\ phase # "fsync"
      BY <1>0, <1>22 DEF OpenQuarantined
    <2> QED BY <1>1, <1>2, <1>3, <2>1, <2>2 DEF OnlyAdmitted
  <1>23. CASE Open
    <2> DEFINE g == manifest.gen
               kept == DropTorn(journals[g])
    <2>0. PICK left \in Cuts(journals[g]) :
             journals' = [h \in Gens |-> IF h = g THEN left ELSE <<>>]
      BY <1>23 DEF Open
    <2>1. /\ ~ MustQuarantine /\ status = "down" /\ phase' = phase /\ g \in Gens
          /\ state' = Replay(snapshots[g], kept)
          /\ \A h \in Gens : snapshots'[h] \in {snapshots[h], Unreadable}
          /\ \A h \in Gens : journals'[h] = IF h = g THEN left ELSE <<>>
      BY <1>0, <1>23, <2>0 DEF Open
    <2>2. \A i \in DOMAIN kept : i \in DOMAIN journals[g] /\ kept[i] = journals[g][i]
      <3>1. journals[g] \in Seq(Line)
        BY <1>0
      <3> QED BY <3>1, DropTornFacts, DropTornDomain
    <2>3. AllParse(kept)
      BY <2>1 DEF MustQuarantine
    <2>10. \A i \in DOMAIN left : i \in DOMAIN kept /\ left[i].id = kept[i].id
      BY <1>0, <2>1, CutFacts
    <2> HIDE DEF kept
    <2>4. \A i \in DOMAIN kept : kept[i].id \in Admitted
      BY <2>1, <2>2, <2>3 DEF AllParse, OnlyAdmitted
    <2>5. \A e \in state'.log : e \in snapshots[g].log \/ \E i \in DOMAIN kept : e = EntryOf(kept[i])
      BY <2>1 DEF Replay
    <2>6. \A i \in DOMAIN kept : EntryOf(kept[i]).id = kept[i].id
      BY DEF EntryOf
    <2>7. StateKept
      BY <1>1, <2>1, <2>4, <2>5, <2>6 DEF OnlyAdmitted
    <2>8. LinesKept(Admitted')
      BY <1>1, <2>1, <2>4, <2>10
    <2>9. SnapsKept
      BY <2>1 DEF Unreadable
    <2> QED BY <1>0, <1>1, <1>2, <2>1, <2>7, <2>8, <2>9 DEF OnlyAdmitted
  <1>24. CASE UNCHANGED vars
    BY <1>24 DEF vars, disk, process, history, OnlyAdmitted, Admitted
  <1> QED
    BY <1>6, <1>7, <1>9, <1>10, <1>11, <1>12, <1>14, <1>15, <1>16, <1>17, <1>18, <1>19,
       <1>20, <1>21, <1>22, <1>23, <1>24 DEF Next, CommitFsync, CommitFsyncFails

LEMMA InitAdmitted == Init => OnlyAdmitted
  <1> SUFFICES ASSUME Init PROVE OnlyAdmitted
    OBVIOUS
  <1>1. \A g \in Gens : snapshots[g].log = {} /\ DOMAIN journals[g] = {}
    BY DEF Init, EmptyState, Unreadable
  <1> QED BY <1>1 DEF Init, OnlyAdmitted, EmptyState

(* A write answered durability_failure is never in an open store, however  *)
(* often the store goes down, loses bytes, compacts and opens again, unless*)
(* a stop can leave a refused line whole but for its newline.              *)
THEOREM FailuresStayOut == "newline" \notin Faults => (Spec => []FailedStayOut)
  <1> SUFFICES ASSUME "newline" \notin Faults PROVE Spec => []FailedStayOut
    OBVIOUS
  <1>1. Init => TypeOK /\ OnlyAdmitted
    BY InitType, InitAdmitted
  <1>2. TypeOK /\ OnlyAdmitted /\ [Next]_vars => (TypeOK /\ OnlyAdmitted)'
    BY NextType, AdmittedStep
  <1>3. OnlyAdmitted => FailedStayOut
    BY DEF OnlyAdmitted, FailedStayOut, Admitted
  <1> QED BY <1>1, <1>2, <1>3, PTL DEF Spec

----------------------------------------------------------------------------
(* The store implements the log *)

(* A snapshot's entries and those of the first n lines. *)
Applied(s, j, n) == s.log \cup {EntryOf(j[i]) : i \in 1 .. n}

(* The log counts its entries as the store's module does. *)
LEMMA SameCardinality == \A S : Log!Cardinality(S) = Cardinality(S)
  BY DEF Log!Cardinality, Cardinality

(* One history has as many entries as its seq says. *)
LEMMA HistorySize ==
    ASSUME NEW s, History(s)
    PROVE  s.seq \in Nat /\ IsFiniteSet(s.log) /\ Cardinality(s.log) = s.seq
  <1> DEFINE f == [n \in 1 .. s.seq |-> CHOOSE e \in s.log : e.seq = n]
  <1>1. s.seq \in Nat /\ \A n \in 1 .. s.seq : \E e \in s.log : e.seq = n
    BY DEF History, State
  <1>2. \A n \in 1 .. s.seq : f[n] \in s.log /\ f[n].seq = n
    BY <1>1, Zenon
  <1>3. f \in [1 .. s.seq -> s.log]
    BY <1>2
  <1>4. ASSUME NEW n \in 1 .. s.seq, NEW m \in 1 .. s.seq, f[n] = f[m] PROVE n = m
    BY <1>2, <1>4, Zenon
  <1>5. ASSUME NEW e \in s.log PROVE \E n \in 1 .. s.seq : f[n] = e
    <2>1. e.seq \in 1 .. s.seq
      BY DEF History
    <2>2. f[e.seq] \in s.log /\ f[e.seq].seq = e.seq
      BY <1>2, <2>1, Zenon
    <2>3. f[e.seq] = e
      BY <2>2, Zenon DEF History
    <2> QED BY <2>1, <2>3
  <1> HIDE DEF f
  <1>6. DOMAIN f = 1 .. s.seq
    BY <1>3
  <1>7. IsInjective(f)
    BY <1>4, <1>6, Zenon DEF IsInjective
  <1>8. f \in Bijection(1 .. s.seq, s.log)
    BY <1>3, <1>5, <1>7, Zenon DEF Bijection, Injection, Surjection
  <1>9. ExistsBijection(1 .. s.seq, s.log)
    BY <1>8, Zenon DEF ExistsBijection
  <1> QED BY <1>1, <1>9, FS_CountingElements, FS_NatBijection

(* Whole lines that continue one history rebuild their entries. *)
LEMMA AppliedHistory ==
    ASSUME NEW s, History(s), NEW j \in Seq(Line), Continues(s, j),
           NEW n \in 0 .. Len(j), \A i \in 1 .. n : j[i].parses
    PROVE  /\ History([seq |-> s.seq + n, log |-> Applied(s, j, n)])
           /\ Cardinality(Applied(s, j, n)) = s.seq + n /\ s.seq \in Nat /\ Len(j) \in Nat
           /\ \A e \in s.log : e.seq \in 1 .. s.seq
           /\ \A i \in 1 .. n : EntryOf(j[i]).seq = s.seq + i
  <1> DEFINE k == SubSeq(j, 1, n)
  <1>1. /\ Len(j) \in Nat /\ n \in Nat /\ DOMAIN j = 1 .. Len(j) /\ s.seq \in Nat /\ s \in State
        /\ \A e \in s.log : e.seq \in 1 .. s.seq
    BY DEF History, State
  <1>2. k \in Seq(Line) /\ Len(k) = n /\ DOMAIN k = 1 .. n /\ \A i \in 1 .. n : k[i] = j[i]
    BY <1>1
  <1> HIDE DEF k
  <1>3. AllParse(k)
    BY <1>2 DEF AllParse
  <1>4. Continues(s, k)
    BY <1>1, <1>2, LessContinues
  <1>5. History(Replay(s, k)) /\ Replay(s, k).seq = s.seq + n
    BY <1>2, <1>3, <1>4, ReplayHistory
  <1>6. \A i \in DOMAIN k : k[i].seq = s.seq + i
    BY <1>2, <1>3, <1>4 DEF AllParse, Continues
  <1>7. Replay(s, k).log = s.log \cup {EntryOf(k[i]) : i \in 1 .. Len(k)}
    BY <1>1, <1>2, <1>6, ReplayFacts
  <1>8. Replay(s, k).log = Applied(s, j, n)
    BY <1>2, <1>7 DEF Applied
  <1>9. Replay(s, k) = [seq |-> s.seq + n, log |-> Applied(s, j, n)]
    BY <1>5, <1>8 DEF Replay
  <1>10. Cardinality(Applied(s, j, n)) = s.seq + n
    BY <1>5, <1>8, HistorySize
  <1>11. \A i \in 1 .. n : EntryOf(j[i]).seq = s.seq + i
    BY <1>2, <1>6 DEF EntryOf
  <1> QED BY <1>1, <1>5, <1>9, <1>10, <1>11

(* Fewer lines are a prefix of the log. *)
LEMMA AppliedPrefix ==
    ASSUME NEW s, History(s), NEW j \in Seq(Line), Continues(s, j),
           NEW n \in 0 .. Len(j), \A i \in 1 .. n : j[i].parses, NEW m \in 0 .. n
    PROVE  Applied(s, j, m) \in Log!Prefixes(Applied(s, j, n))
  <1>1. /\ Cardinality(Applied(s, j, n)) = s.seq + n /\ s.seq \in Nat /\ Len(j) \in Nat
        /\ \A e \in s.log : e.seq \in 1 .. s.seq
        /\ \A i \in 1 .. n : EntryOf(j[i]).seq = s.seq + i
    BY AppliedHistory
  <1>2. n \in Nat /\ m \in Nat /\ m <= n
    BY <1>1
  <1>3. ASSUME NEW e \in Applied(s, j, n), e.seq <= s.seq + m PROVE e \in Applied(s, j, m)
    <2>1. CASE e \in s.log
      BY <2>1 DEF Applied
    <2>2. ASSUME NEW i \in 1 .. n, e = EntryOf(j[i]) PROVE e \in Applied(s, j, m)
      <3>1. i \in 1 .. m
        BY <1>1, <1>2, <1>3, <2>2
      <3> QED BY <2>2, <3>1 DEF Applied
    <2> QED BY <1>3, <2>1, <2>2 DEF Applied
  <1>4. ASSUME NEW e \in Applied(s, j, m) PROVE e \in Applied(s, j, n) /\ e.seq <= s.seq + m
    <2>1. CASE e \in s.log
      BY <1>1, <1>2, <2>1 DEF Applied
    <2>2. ASSUME NEW i \in 1 .. m, e = EntryOf(j[i])
          PROVE  e \in Applied(s, j, n) /\ e.seq <= s.seq + m
      <3>1. i \in 1 .. n
        BY <1>2
      <3>2. EntryOf(j[i]).seq = s.seq + i /\ i <= m
        BY <1>1, <3>1
      <3> QED BY <1>1, <1>2, <2>2, <3>1, <3>2 DEF Applied
    <2> QED BY <1>4, <2>1, <2>2 DEF Applied
  <1>5. Applied(s, j, m) = {e \in Applied(s, j, n) : e.seq <= s.seq + m}
    BY <1>3, <1>4
  <1>6. s.seq + m \in 0 .. Cardinality(Applied(s, j, n))
    BY <1>1, <1>2
  <1> QED BY <1>5, <1>6, SameCardinality DEF Log!Prefixes

(* What a store that stopped serving writes still agrees on: the closed    *)
(* store's state is its whole lines, and while a power loss may still pick *)
(* either manifest both lead to the same log.                              *)
Settled ==
    /\ status = "closed" => /\ Snap # Unreadable /\ AllParse(DropTorn(Jour))
                            /\ state.log = Applied(Snap, Jour, Len(DropTorn(Jour)))
    /\ status = "down" /\ manifest.gen = current + 1 /\ manifestSynced.gen = current =>
          /\ Snap # Unreadable /\ AllParse(Jour) /\ snapshots[current + 1] # Unreadable
          /\ snapshots[current + 1].log = Applied(Snap, Jour, Len(Jour))

(* The log a caller sees, in terms of the current segments. *)
LEMMA CurrentView ==
    ASSUME TypeOK, Alive, Rebuildable, Settled, ~ Lost,
           status = "down" => manifest.gen = current \/ manifestSynced.gen = current
    PROVE  /\ Snap # Unreadable /\ History(Snap) /\ Jour \in Seq(Line) /\ Continues(Snap, Jour)
           /\ \A i \in 1 .. Len(DropTorn(Jour)) : Jour[i].parses
           /\ Len(DropTorn(Jour)) \in Nat /\ Len(DropTorn(Jour)) <= Len(Jour)
           /\ \E n \in Nat : /\ LogView = Applied(Snap, Jour, n)
                             /\ \/ n = Len(DropTorn(Jour))
                                \/ status = "open" /\ phase = "fsync" /\ n + 1 = Len(DropTorn(Jour))
  <1>0. current \in Gens /\ Jour \in Seq(Line) /\ Len(Jour) \in Nat /\ DOMAIN Jour = 1 .. Len(Jour)
    BY DEF TypeOK, Jour
  <1> DEFINE kept == DropTorn(Jour)
  <1>1. /\ kept \in Seq(Line) /\ Len(kept) \in Nat /\ Len(kept) <= Len(Jour)
        /\ DOMAIN kept = 1 .. Len(kept) /\ \A i \in DOMAIN kept : kept[i] = Jour[i]
    BY <1>0, DropTornFacts
  <1>2. ASSUME AllParse(kept) PROVE \A i \in 1 .. Len(kept) : Jour[i].parses
    BY <1>1, <1>2 DEF AllParse
  <1>3. Snap # Unreadable => History(Snap) /\ Continues(Snap, Jour)
    BY <1>0 DEF Rebuildable, Snap, Jour
  <1>4. AllParse(Jour) => kept = Jour
    BY <1>0, DropTornClean DEF AllParse
  <1> HIDE DEF kept
  <1>5. CASE status = "open"
    <2>1. /\ Running /\ Snap # Unreadable /\ kept = Jour /\ AllParse(Jour) /\ Snap.seq \in Nat
      BY <1>5, OpenFacts DEF kept, AllParse, Running
    <2>2. /\ state.log = Applied(Snap, Jour, state.seq - Snap.seq)
          /\ state.seq = Snap.seq + (IF phase = "fsync" THEN Len(Jour) - 1 ELSE Len(Jour))
          /\ phase = "fsync" => Jour # <<>>
      BY <2>1 DEF Running, Applied
    <2>3. CASE phase = "fsync"
      <3>1. state.seq - Snap.seq \in Nat /\ state.seq - Snap.seq + 1 = Len(kept)
        BY <1>0, <2>1, <2>2, <2>3
      <3>2. LogView = Applied(Snap, Jour, state.seq - Snap.seq)
        BY <1>5, <2>2 DEF LogView, Lost
      <3> QED BY <1>0, <1>1, <1>2, <1>3, <1>5, <2>1, <2>3, <3>1, <3>2 DEF kept
    <2>4. CASE phase # "fsync"
      <3>1. state.seq - Snap.seq \in Nat /\ state.seq - Snap.seq = Len(kept)
        BY <1>0, <2>1, <2>2, <2>4
      <3>2. LogView = Applied(Snap, Jour, state.seq - Snap.seq)
        BY <1>5, <2>2 DEF LogView, Lost
      <3> QED BY <1>0, <1>1, <1>2, <1>3, <1>5, <2>1, <3>1, <3>2 DEF kept
    <2> QED BY <2>3, <2>4
  <1>6. CASE status = "closed"
    <2>1. Snap # Unreadable /\ AllParse(kept) /\ LogView = Applied(Snap, Jour, Len(kept))
      BY <1>6 DEF Settled, LogView, Lost, kept
    <2> QED BY <1>0, <1>1, <1>2, <1>3, <2>1 DEF kept
  <1>7. CASE status = "down" /\ manifest.gen = current
    <2>1. ~ MustQuarantine /\ LogView = Replay(Snap, kept).log
      BY <1>7 DEF Lost, LogView, Snap, Jour, kept
    <2>2. Snap # Unreadable /\ AllParse(kept)
      BY <1>7, <2>1 DEF MustQuarantine, Snap, Jour, kept
    <2>3. \A i \in DOMAIN kept : kept[i].seq = Snap.seq + i
      BY <1>0, <1>1, <2>2 DEF Alive, JournalShape
    <2>4. Replay(Snap, kept).log = Snap.log \cup {EntryOf(kept[i]) : i \in 1 .. Len(kept)}
      BY <1>1, <1>3, <2>2, <2>3, ReplayFacts DEF History
    <2>5. LogView = Applied(Snap, Jour, Len(kept))
      BY <1>1, <2>1, <2>4 DEF Applied
    <2> QED BY <1>0, <1>1, <1>2, <1>3, <2>2, <2>5 DEF kept
  <1>8. CASE status = "down" /\ manifest.gen # current
    <2>1. ~ MustQuarantine /\ manifest.gen \in Gens /\ manifestSynced.gen = current
      BY <1>8 DEF Lost, TypeOK, Manifest
    <2>2. manifest.gen = current + 1 /\ NextSafe
      BY <1>8, <2>1 DEF Alive, NamesSafe, MustQuarantine
    <2>3. /\ Snap # Unreadable /\ AllParse(Jour)
          /\ snapshots[current + 1].log = Applied(Snap, Jour, Len(Jour))
      BY <1>8, <2>1, <2>2 DEF Settled
    <2>4. journals[manifest.gen] = <<>> /\ DropTorn(<<>>) = <<>>
      BY <2>2 DEF NextSafe, DropTorn
    <2>5. LogView = Replay(snapshots[current + 1], <<>>).log
      BY <1>8, <2>1, <2>2, <2>4 DEF LogView, Lost
    <2>6. LogView = snapshots[current + 1].log
      BY <2>5 DEF Replay
    <2> QED BY <1>0, <1>1, <1>2, <1>3, <1>4, <2>3, <2>6 DEF kept
  <1> QED BY <1>5, <1>6, <1>7, <1>8 DEF Alive

(* What open() would read back holds every acknowledged entry. *)
DownSound ==
    TypeOK /\ Alive /\ Rebuildable /\ status = "down" /\ ~ Lost =>
        /\ acked \subseteq LogView
        /\ manifest.gen = current \/ manifest.gen = current + 1
        /\ manifest.gen = current + 1 => LogView = snapshots[current + 1].log
        /\ manifest.gen = current => LogView = Applied(Snap, Jour, Len(DropTorn(Jour)))

LEMMA DownView == DownSound
  <1> SUFFICES ASSUME TypeOK, Alive, Rebuildable, status = "down", ~ Lost
               PROVE  /\ acked \subseteq LogView
                      /\ manifest.gen = current \/ manifest.gen = current + 1
                      /\ manifest.gen = current + 1 => LogView = snapshots[current + 1].log
                      /\ manifest.gen = current =>
                            LogView = Applied(Snap, Jour, Len(DropTorn(Jour)))
    BY DEF DownSound
  <1>0. current \in Gens /\ Jour \in Seq(Line) /\ Len(Jour) \in Nat /\ DOMAIN Jour = 1 .. Len(Jour)
        /\ manifest.gen \in Gens /\ ~ MustQuarantine
    BY DEF TypeOK, Jour, Manifest, Lost
  <1>1. manifest.gen = current \/ (manifest.gen = current + 1 /\ NextSafe)
    BY <1>0 DEF Alive, NamesSafe, MustQuarantine
  <1> DEFINE kept == DropTorn(Jour)
  <1>2. CASE manifest.gen = current
    <2>1. /\ kept \in Seq(Line) /\ Len(kept) \in Nat /\ DOMAIN kept = 1 .. Len(kept)
          /\ \A i \in DOMAIN kept : kept[i] = Jour[i] /\ i \in DOMAIN Jour
      BY <1>0, DropTornFacts, DropTornDomain
    <2>2. Snap # Unreadable /\ LogView = Replay(Snap, kept).log
      BY <1>0, <1>2 DEF MustQuarantine, LogView, Lost, Snap, Jour
    <2>3. Snap \in State
      BY <1>0, <2>2 DEF TypeOK, Snap
    <2>4. \A i \in DOMAIN kept : kept[i].seq = Snap.seq + i
      BY <2>1, <2>2 DEF Alive, JournalShape
    <2>5. \A e \in acked : e \in Snap.log \/ \E i \in DOMAIN kept : e = EntryOf(Jour[i])
      BY <2>2 DEF Alive, CurrentSafe
    <2> HIDE DEF kept
    <2>6. LogView = Snap.log \cup {EntryOf(kept[i]) : i \in 1 .. Len(kept)}
      BY <2>1, <2>2, <2>3, <2>4, ReplayFacts
    <2>7. LogView = Applied(Snap, Jour, Len(kept))
      BY <2>1, <2>6 DEF Applied
    <2>8. acked \subseteq LogView
      BY <2>1, <2>5, <2>7 DEF Applied
    <2> QED BY <1>0, <1>2, <2>7, <2>8 DEF kept, Gens
  <1>3. CASE manifest.gen = current + 1 /\ NextSafe
    <2>1. journals[manifest.gen] = <<>> /\ DropTorn(<<>>) = <<>>
      BY <1>3 DEF NextSafe, DropTorn
    <2>2. snapshots[current + 1] # Unreadable /\ LogView = Replay(snapshots[current + 1], <<>>).log
      BY <1>0, <1>3, <2>1 DEF LogView, Lost, MustQuarantine
    <2>3. LogView = snapshots[current + 1].log /\ acked \subseteq snapshots[current + 1].log
      BY <1>3, <2>2 DEF Replay, NextSafe
    <2> QED BY <1>0, <1>3, <2>3 DEF Gens
  <1> QED BY <1>1, <1>2, <1>3

LEMMA DownViewNext == DownSound'
  BY DownView, PTL

(* The first lines of two journals that agree rebuild the same entries. *)
LEMMA AppliedSame ==
    ASSUME NEW s, NEW j, NEW k, NEW m, \A i \in 1 .. m : EntryOf(k[i]) = EntryOf(j[i])
    PROVE  Applied(s, k, m) = Applied(s, j, m)
  <1>1. {EntryOf(k[i]) : i \in 1 .. m} = {EntryOf(j[i]) : i \in 1 .. m}
    OBVIOUS
  <1> QED BY <1>1 DEF Applied

(* Going down with the current segments: the log is cut back to a prefix,  *)
(* or the line that waited for its fsync has landed.                       *)
LEMMA FallsBack ==
    ASSUME TypeOK, Alive, Rebuildable, Settled, OnlyAdmitted, ~ Lost,
           TypeOK', Alive', Rebuildable', ~ Lost',
           status' = "down", acked' = acked, current' = current, manifest'.gen = current',
           snapshots' = snapshots,
           status = "down" => manifest.gen = current \/ manifestSynced.gen = current,
           Len(DropTorn(Jour')) <= Len(DropTorn(Jour)),
           \A i \in 1 .. Len(DropTorn(Jour')) : EntryOf(Jour'[i]) = EntryOf(Jour[i])
    PROVE  Log!Fail
  <1> DEFINE s == Snap
             j == Jour
             w == Len(DropTorn(Jour))
             m == Len(DropTorn(Jour'))
  <1>1. /\ History(s) /\ j \in Seq(Line) /\ Continues(s, j)
        /\ \A i \in 1 .. w : j[i].parses
        /\ w \in Nat /\ w <= Len(j)
        /\ \E n \in Nat : /\ LogView = Applied(s, j, n)
                          /\ n = w \/ (status = "open" /\ phase = "fsync" /\ n + 1 = w)
    BY CurrentView
  <1>2. PICK n \in Nat : /\ LogView = Applied(s, j, n)
                         /\ n = w \/ (status = "open" /\ phase = "fsync" /\ n + 1 = w)
    BY <1>1
  <1>3. Snap' = s
    BY DEF Snap
  <1>4. acked' \subseteq LogView' /\ LogView' = Applied(s, Jour', m)
    <2>1. /\ acked' \subseteq LogView'
          /\ LogView' = Applied(Snap', Jour', Len(DropTorn(Jour')))
      BY DownViewNext DEF DownSound
    <2> QED BY <1>3, <2>1
  <1>5. m \in Nat
    <2>1. Jour' \in Seq(Line)
      BY DEF TypeOK, Jour
    <2> QED BY <2>1, DropTornFacts
  <1>6. m <= w /\ \A i \in 1 .. m : EntryOf(Jour'[i]) = EntryOf(j[i])
    OBVIOUS
  <1>7. LogView' = Applied(s, j, m)
    BY <1>4, <1>6, AppliedSame
  <1>8. LogMode = (IF status = "down" THEN "down" ELSE "up") /\ LogMode' = "down"
    BY DEF LogMode
  <1> HIDE DEF s, j, w, m
  <1>9. CASE m <= n
    <2>1. /\ n \in 0 .. Len(j) /\ \A i \in 1 .. n : j[i].parses
          /\ m \in 0 .. n
      BY <1>1, <1>2, <1>5, <1>9
    <2>2. Applied(s, j, m) \in Log!Prefixes(Applied(s, j, n))
      BY <1>1, <2>1, AppliedPrefix
    <2>3. LogView' \in Log!Prefixes(LogView)
      BY <1>2, <1>7, <2>2
    <2> QED BY <1>4, <1>8, <2>3 DEF Log!Fail
  <1>10. CASE ~ (m <= n)
    <2>1. status = "open" /\ phase = "fsync" /\ n + 1 = w /\ m = n + 1 /\ w \in 1 .. Len(j)
      BY <1>1, <1>2, <1>5, <1>6, <1>10
    <2>2. pending = j[Len(j)] /\ pending \in Line /\ pending.id \in Ids /\ Len(j) \in Nat
      BY <2>1, OpenFacts DEF Running, j, Line
    <2>3. w = Len(j)
      BY <2>1, OpenFacts DEF w, j
    <2>4. /\ n \in 0 .. Len(j) /\ \A i \in 1 .. n : j[i].parses
          /\ w \in 0 .. Len(j)
      BY <1>1, <1>2, <2>1
    <2>5. Cardinality(Applied(s, j, n)) = s.seq + n
      BY <1>1, <2>4, AppliedHistory
    <2>6. EntryOf(j[w]).seq = s.seq + w /\ s.seq \in Nat
      <3>1. \A i \in 1 .. w : EntryOf(j[i]).seq = s.seq + i
        BY <1>1, <2>4, AppliedHistory
      <3>2. s.seq \in Nat
        BY <1>1 DEF History, State
      <3> QED BY <1>1, <2>1, <3>1, <3>2
    <2>7. Log!NextSeq = EntryOf(j[w]).seq
      <3>1. Log!NextSeq = Cardinality(LogView) + 1
        BY SameCardinality DEF Log!NextSeq
      <3>2. Cardinality(LogView) = s.seq + n
        BY <1>2, <2>5
      <3>3. s.seq + n + 1 = s.seq + w
        <4>1. n + 1 = w /\ s.seq \in Nat /\ n \in Nat /\ w \in Nat
          BY <1>1, <2>1, <2>6
        <4> DEFINE q == s.seq
        <4>2. q \in Nat
          BY <4>1
        <4> HIDE DEF q
        <4>3. q + n + 1 = q + w
          BY <4>1, <4>2
        <4> QED BY <4>3 DEF q
      <3> QED BY <2>6, <3>1, <3>2, <3>3
    <2>8. EntryOf(j[w]) = [seq |-> Log!NextSeq, id |-> pending.id]
      BY <2>2, <2>3, <2>7 DEF EntryOf
    <2>9. Applied(s, j, m) = Applied(s, j, n) \cup {EntryOf(j[w])}
      <3>1. 1 .. m = (1 .. n) \cup {w}
        BY <1>5, <2>1
      <3> QED BY <3>1 DEF Applied
    <2>10. LogView' = LogView \cup {[seq |-> Log!NextSeq, id |-> pending.id]}
      BY <1>2, <1>7, <2>8, <2>9
    <2> QED BY <1>4, <1>8, <2>1, <2>2, <2>10 DEF Log!Fail
  <1> QED BY <1>9, <1>10

(* Going down with the segments a compaction prepared: they hold the log. *)
LEMMA FallsForward ==
    ASSUME LogMode \in {"up", "down"}, LogMode' = "down", LogView' = LogView,
           acked' = acked, acked' \subseteq LogView', IsFiniteSet(LogView),
           NEW n \in Nat, Cardinality(LogView) = n, \A e \in LogView : e.seq <= n
    PROVE  Log!Fail
  <1>1. LogView = {e \in LogView : e.seq <= n} /\ n \in 0 .. Cardinality(LogView)
    OBVIOUS
  <1>2. LogView \in Log!Prefixes(LogView)
    BY <1>1, SameCardinality DEF Log!Prefixes
  <1> QED BY <1>2 DEF Log!Fail

LEMMA SettledStep ==
    ASSUME Benign, TypeOK, TypeOK', Alive, Settled, Alive', [Next]_vars
    PROVE  Settled'
  <1>0. current \in Gens /\ current # current + 1 /\ current + 1 # current
    BY DEF TypeOK, Gens
  <1>1. CASE CommitTruncateFails
    <2>1. PICK part \in Partials(NextLine) :
             journals' = [journals EXCEPT ![current] = AppendBytes(@, part)]
      BY <1>1 DEF CommitTruncateFails
    <2>2. /\ status = "open" /\ phase = "idle" /\ NextLine \in Line /\ part \in Line
          /\ UNCHANGED <<current, synced, snapshots, acked, state>> /\ status' = "closed"
      BY <1>1, NextLineType, PartialsType DEF CommitTruncateFails, MayCommit
    <2>3. ~ part.parses /\ part.seq = state.seq + 1
      BY DEF Partials, Benign, NextLine
    <2>4. Snap' = Snap /\ Jour' = Append(Jour, part)
      BY <2>1, <2>2, <2>3, AppendKeeps
    <2>5. /\ Jour \in Seq(Line) /\ Len(Jour) \in Nat /\ DOMAIN Jour = 1 .. Len(Jour)
          /\ \A i \in DOMAIN Jour : Jour[i].parses
          /\ Running /\ Snap # Unreadable /\ Snap.seq \in Nat
      BY <2>2, OpenFacts DEF Running
    <2>6. /\ Jour' \in Seq(Line) /\ Len(Jour') = Len(Jour) + 1
          /\ Jour'[Len(Jour) + 1] = part /\ \A i \in 1 .. Len(Jour) : Jour'[i] = Jour[i]
      BY <2>2, <2>4, <2>5, AppendFacts
    <2>7. Len(DropTorn(Jour')) = Len(Jour)
      <3>1. Len(Jour') >= 1 /\ ~ Jour'[Len(Jour')].parses
        BY <2>3, <2>5, <2>6
      <3>2. Len(DropTorn(Jour')) = Len(Jour') - 1
        BY <2>6, <3>1, DropTornFacts
      <3> QED BY <2>5, <2>6, <3>2
    <2>8. AllParse(DropTorn(Jour'))
      <3>1. /\ DOMAIN DropTorn(Jour') = 1 .. Len(DropTorn(Jour'))
            /\ \A i \in DOMAIN DropTorn(Jour') : DropTorn(Jour')[i] = Jour'[i]
        BY <2>6, DropTornFacts
      <3> QED BY <2>5, <2>6, <2>7, <3>1 DEF AllParse
    <2>9. state.log = Applied(Snap, Jour, Len(Jour))
      <3>1. state.seq - Snap.seq = Len(Jour)
        BY <2>2, <2>5 DEF Running
      <3> QED BY <2>5, <3>1 DEF Running, Applied
    <2>10. Applied(Snap, Jour', Len(Jour)) = Applied(Snap, Jour, Len(Jour))
      BY <2>6, AppliedSame
    <2> QED BY <2>2, <2>4, <2>5, <2>7, <2>8, <2>9, <2>10 DEF Settled
  <1>2. CASE Stop
    <2>1. /\ status # "down" /\ status' = "down" /\ current' = current
          /\ UNCHANGED <<manifest, manifestSynced, snapshots, journals>>
          /\ Snap' = Snap /\ Jour' = Jour
      BY <1>2 DEF Stop, GoDown, disk, Snap, Jour
    <2>2. SUFFICES ASSUME manifest.gen = current + 1
                   PROVE  /\ Snap # Unreadable /\ AllParse(Jour)
                          /\ snapshots[current + 1] # Unreadable
                          /\ snapshots[current + 1].log = Applied(Snap, Jour, Len(Jour))
      BY <2>1 DEF Settled
    <2>3. status = "open"
      BY <1>0, <2>1, <2>2 DEF Alive
    <2>4. Running /\ phase = "directory" /\ Snap.seq \in Nat /\ Len(Jour) \in Nat
      BY <1>0, <2>2, <2>3, OpenFacts DEF Running
    <2>5. state.seq - Snap.seq = Len(Jour) /\ state # Unreadable
      BY <2>4 DEF Running, TypeOK, State, Unreadable
    <2> QED BY <2>4, <2>5 DEF Running, Applied, AllParse
  <1>3. CASE StopInWrite
    <2>1. status = "open" /\ phase = "idle"
      BY <1>3 DEF StopInWrite, MayCommit
    <2>2. manifest.gen = current
      BY <2>1, OpenFacts DEF Running
    <2> QED BY <1>0, <1>3, <2>2 DEF StopInWrite, GoDown, Settled
  <1>4. CASE PowerLoss
    <2>1. manifest' = manifestSynced' /\ current' = current /\ status' = "down"
      BY <1>4 DEF PowerLoss, GoDown
    <2> QED BY <1>0, <2>1 DEF Settled
  <1>5. CASE Damage
    <2>1. manifest' = manifestSynced' /\ current' = current /\ status' = "down"
      BY <1>5 DEF Damage, process
    <2> QED BY <1>0, <2>1 DEF Settled
  <1>6. CASE UNCHANGED vars
    BY <1>6 DEF vars, disk, process, Settled, Snap, Jour
  <1>7. ASSUME status' \in {"open", "quarantined"} PROVE Settled'
    BY <1>7 DEF Settled
  <1> QED
    BY <1>1, <1>2, <1>3, <1>4, <1>5, <1>6, <1>7
    DEF Next, CommitFails, CommitWrite, CommitFsync, CommitFsyncFails, FinishCommit, MayCommit,
        CompactSnapshot, CompactJournal, CompactManifest, CompactSwitch, CompactFails,
        CompactDirectoryFails, OpenQuarantined, Open, process, TypeOK

(* Damage is always found by the next open. *)
LEMMA DamageLoses ==
    ASSUME TypeOK, Alive, Damage
    PROVE  Lost'
  <1>0. /\ current \in Gens /\ manifest.gen \in Gens /\ status' = "down" /\ synced \in Nat
        /\ manifestSynced.gen \in Gens
    BY DEF TypeOK, Damage, process, Manifest
  <1>1. CASE manifest' = [manifest EXCEPT !.parses = FALSE]
    <2>1. ~ manifest'.parses
      BY <1>1 DEF TypeOK, Manifest
    <2> QED BY <1>0, <2>1 DEF Lost, MustQuarantine
  <1>2. CASE UNCHANGED manifest /\ snapshots' = [snapshots EXCEPT ![manifest.gen] = Unreadable]
    <2>1. snapshots'[manifest'.gen] = Unreadable
      BY <1>0, <1>2 DEF TypeOK
    <2> QED BY <1>0, <2>1 DEF Lost, MustQuarantine
  <1>3. ASSUME NEW i \in DOMAIN journals[manifest.gen], i < synced, UNCHANGED <<manifest, snapshots>>,
               journals' = [journals EXCEPT ![manifest.gen][i].parses = FALSE]
        PROVE  Lost'
    <2> DEFINE g == manifest.gen
               d == [journals[g] EXCEPT ![i].parses = FALSE]
    <2>1. journals[g] \in Seq(Line) /\ journals[g] # <<>>
      BY <1>0, <1>3 DEF TypeOK
    <2>2. /\ Len(d) = Len(journals[g]) /\ DOMAIN d = DOMAIN journals[g] /\ d \in Seq(Line)
          /\ ~ d[i].parses
      BY <1>3, <2>1, DamagedFacts
    <2>3. journals'[g] = d
      BY <1>0, <1>3 DEF TypeOK
    <2> HIDE DEF d
    <2>4. CASE g = current
      <3>1. i \in DOMAIN DropTorn(d) /\ DropTorn(d)[i] = d[i]
        <4>1. synced <= Len(d) /\ i < synced /\ i \in 1 .. Len(d) /\ Len(d) \in Nat
          BY <1>3, <2>1, <2>2, <2>4 DEF Alive, JournalShape, Jour
        <4>2. /\ DOMAIN DropTorn(d) = 1 .. Len(DropTorn(d))
              /\ Len(DropTorn(d)) \in {Len(d), Len(d) - 1}
              /\ \A k \in DOMAIN DropTorn(d) : DropTorn(d)[k] = d[k]
          BY <2>2, DropTornFacts
        <4>3. i \in 1 .. Len(DropTorn(d))
          BY <1>0, <4>1, <4>2
        <4> QED BY <4>2, <4>3
      <3>2. ~ AllParse(DropTorn(d))
        BY <2>2, <3>1 DEF AllParse
      <3> QED BY <1>0, <1>3, <2>3, <3>2 DEF Lost, MustQuarantine
    <2>5. CASE g # current
      <3>1. snapshots[g] = Unreadable
        BY <2>1, <2>5 DEF Alive, NamesSafe, NextSafe
      <3> QED BY <1>0, <1>3, <3>1 DEF Lost, MustQuarantine
    <2> QED BY <2>4, <2>5
  <1> QED BY <1>1, <1>2, <1>3 DEF Damage

(* What a power loss leaves has no more whole lines than the journal had. *)
LEMMA RemainsWhole ==
    ASSUME Benign, NEW j \in Seq(Line), NEW left \in Remains(j), synced \in Nat, synced <= Len(j)
    PROVE  /\ Len(DropTorn(left)) <= Len(DropTorn(j))
           /\ \A i \in 1 .. Len(DropTorn(left)) : EntryOf(left[i]) = EntryOf(j[i])
           /\ \A i \in 1 .. Len(j) : i < synced => /\ i \in DOMAIN DropTorn(left)
                                                   /\ DropTorn(left)[i] = j[i]
  <1>1. /\ left \in Seq(Line) /\ Len(left) \in synced .. Len(j) /\ DOMAIN left = 1 .. Len(left)
        /\ \A i \in 1 .. Len(left) : /\ EntryOf(left[i]) = EntryOf(j[i])
                                     /\ left[i].parses => left[i] = j[i]
        /\ \A i \in 1 .. synced : left[i] = j[i]
    BY RemainsFacts
  <1>2. /\ Len(DropTorn(j)) \in {Len(j), Len(j) - 1} /\ Len(j) \in Nat
        /\ Len(DropTorn(j)) = Len(j) - 1 => ~ j[Len(j)].parses
        /\ DropTorn(j) \in Seq(Line)
    BY DropTornFacts
  <1>3. /\ Len(DropTorn(left)) \in {Len(left), Len(left) - 1} /\ Len(left) \in Nat
        /\ DOMAIN DropTorn(left) = 1 .. Len(DropTorn(left))
        /\ \A i \in DOMAIN DropTorn(left) : DropTorn(left)[i] = left[i]
        /\ Len(left) >= 1 /\ ~ left[Len(left)].parses => Len(DropTorn(left)) = Len(left) - 1
        /\ DropTorn(left) \in Seq(Line)
    BY <1>1, DropTornFacts
  <1>4. Len(DropTorn(left)) <= Len(DropTorn(j))
    <2>0. Len(left) <= Len(j)
      BY <1>1, <1>2
    <2>1. CASE Len(left) < Len(j)
      BY <1>2, <1>3, <2>1
    <2>2. CASE Len(left) = Len(j) /\ Len(DropTorn(j)) = Len(j)
      BY <1>2, <1>3, <2>2
    <2>3. CASE Len(left) = Len(j) /\ Len(DropTorn(j)) = Len(j) - 1
      <3>1. Len(j) >= 1
        <4>1. Len(DropTorn(j)) \in Nat
          BY <1>2
        <4> QED BY <1>2, <2>3, <4>1
      <3>2. ~ left[Len(left)].parses
        <4>1. Len(left) \in 1 .. Len(left) /\ ~ j[Len(left)].parses
          BY <1>2, <1>3, <2>3, <3>1
        <4> QED BY <1>1, <4>1
      <3>3. Len(DropTorn(left)) = Len(left) - 1
        BY <1>3, <2>3, <3>1, <3>2
      <3> QED BY <1>2, <2>3, <3>3
    <2>4. Len(left) < Len(j) \/ Len(left) = Len(j)
      BY <1>2, <1>3, <2>0
    <2>5. Len(DropTorn(j)) = Len(j) \/ Len(DropTorn(j)) = Len(j) - 1
      BY <1>2
    <2> QED BY <2>1, <2>2, <2>3, <2>4, <2>5
  <1>5. \A i \in 1 .. Len(DropTorn(left)) : i \in 1 .. Len(left)
    BY <1>3
  <1>6. ASSUME NEW i \in 1 .. Len(j), i < synced
        PROVE  i \in DOMAIN DropTorn(left) /\ DropTorn(left)[i] = j[i]
    <2>0. synced <= Len(left) /\ Len(left) \in Nat
      <3>1. Len(left) \in synced .. Len(j)
        BY <1>1
      <3>2. Len(j) \in Nat /\ Len(left) \in Nat
        BY <1>2, <1>3
      <3> QED BY <3>1, <3>2
    <2>2. i \in Nat /\ 1 <= i
      BY <1>2
    <2>3. Len(DropTorn(left)) = Len(left) \/ Len(DropTorn(left)) = Len(left) - 1
      BY <1>3
    <2>1. i \in 1 .. synced /\ i \in 1 .. Len(DropTorn(left))
      BY <1>6, <2>0, <2>2, <2>3
    <2> QED BY <1>1, <1>3, <2>1
  <1> QED BY <1>1, <1>4, <1>5, <1>6

(* Once an open would quarantine the store, no step makes it serve again. *)
LEMMA LostStays ==
    ASSUME Benign, TypeOK, Alive, Settled, Lost, [Next]_vars
    PROVE  Lost'
  <1>0. /\ status = "down" /\ MustQuarantine /\ phase = "idle"
        /\ current \in Gens /\ manifest.gen \in Gens /\ synced \in Nat /\ manifestSynced.gen \in Gens
        /\ manifest.parses /\ ~ manifest.quarantine
        /\ manifestSynced.parses /\ ~ manifestSynced.quarantine
        /\ Jour \in Seq(Line) /\ synced <= Len(Jour) /\ Len(Jour) \in Nat /\ DOMAIN Jour = 1 .. Len(Jour)
    BY DEF Lost, Alive, TypeOK, Manifest, NamesSafe, Jour, JournalShape
  <1>1. CASE PowerLoss
    <2>1. PICK left \in Remains(Jour) : journals' = [journals EXCEPT ![current] = left]
      BY <1>1 DEF PowerLoss, Jour
    <2>2. /\ status' = "down" /\ current' = current /\ snapshots' = snapshots
          /\ manifest' \in {manifest, manifestSynced}
      BY <1>1 DEF PowerLoss, GoDown
    <2>3. \A g \in Gens : journals'[g] = IF g = current THEN left ELSE journals[g]
      BY <2>1 DEF TypeOK
    <2>4. ASSUME snapshots[manifest'.gen] = Unreadable PROVE Lost'
      BY <2>2, <2>4 DEF Lost, MustQuarantine
    <2>5. CASE manifest'.gen # manifest.gen
      <3>1. manifest' = manifestSynced
        BY <2>2, <2>5
      <3>2. CASE manifestSynced.gen = current
        <4>1. \/ manifest.gen = current + 1 /\ NextSafe
              \/ manifest.gen < current /\ snapshots[manifest.gen] = Unreadable
          BY <2>5, <3>1, <3>2 DEF Alive, NamesSafe
        <4>2. manifestSynced.gen <= manifest.gen
          BY DEF Alive
        <4>3. manifest.gen = current + 1 /\ NextSafe
          BY <1>0, <3>2, <4>1, <4>2 DEF Gens
        <4>4. snapshots[current + 1] # Unreadable
          BY <1>0, <3>2, <4>3 DEF Settled
        <4>5. journals[current + 1] = <<>> /\ DropTorn(<<>>) = <<>> /\ AllParse(<<>>)
          BY <4>3 DEF NextSafe, DropTorn, AllParse
        <4> QED BY <1>0, <4>3, <4>4, <4>5 DEF MustQuarantine
      <3>3. CASE manifestSynced.gen < current /\ snapshots[manifestSynced.gen] = Unreadable
        BY <2>4, <3>1, <3>3
      <3>4. CASE manifestSynced.gen = current + 1
        <4>1. manifestSynced.gen <= manifest.gen
          BY DEF Alive
        <4> QED BY <1>0, <2>5, <3>1, <3>4, <4>1 DEF Alive, NamesSafe, Gens
      <3> QED BY <3>2, <3>3, <3>4 DEF Alive, NamesSafe
    <2>6. CASE manifest'.gen = manifest.gen
      <3>1. CASE snapshots[manifest.gen] = Unreadable
        BY <2>4, <2>6, <3>1
      <3>2. CASE snapshots[manifest.gen] # Unreadable
        <4>1. ~ AllParse(DropTorn(journals[manifest.gen]))
          BY <1>0, <3>2 DEF MustQuarantine
        <4>2. manifest.gen = current
          <5>1. <<>> = DropTorn(<<>>) /\ AllParse(<<>>)
            BY DEF DropTorn, AllParse
          <5> QED BY <3>2, <4>1, <5>1 DEF Alive, NamesSafe, NextSafe
        <4>3. PICK i \in DOMAIN DropTorn(Jour) : ~ DropTorn(Jour)[i].parses
          BY <4>1, <4>2 DEF AllParse, Jour
        <4>4. /\ i \in 1 .. Len(Jour) /\ ~ Jour[i].parses /\ i \in 1 .. Len(DropTorn(Jour))
              /\ Len(Jour) >= 1 /\ ~ Jour[Len(Jour)].parses => Len(DropTorn(Jour)) = Len(Jour) - 1
          <5>1. i \in DOMAIN Jour
            BY <1>0, <4>3, DropTornDomain
          <5>2. /\ DOMAIN DropTorn(Jour) = 1 .. Len(DropTorn(Jour))
                /\ \A k \in DOMAIN DropTorn(Jour) : DropTorn(Jour)[k] = Jour[k]
                /\ Len(Jour) >= 1 /\ ~ Jour[Len(Jour)].parses => Len(DropTorn(Jour)) = Len(Jour) - 1
            BY <1>0, DropTornFacts
          <5> QED BY <1>0, <4>3, <5>1, <5>2
        <4>5. i < synced
          <5>1. i < synced \/ i = Len(Jour)
            BY <1>0, <4>4 DEF Alive, JournalShape
          <5>2. ASSUME i = Len(Jour) PROVE FALSE
            <6>0. ~ Jour[Len(Jour)].parses
              BY <4>4, <5>2, Zenon
            <6>1. Len(Jour) \in Nat /\ Len(Jour) >= 1 /\ ~ Jour[Len(Jour)].parses
              <7>1. Len(Jour) \in Nat
                BY <1>0
              <7>2. i \in 1 .. Len(Jour)
                BY <4>4
              <7>3. Len(Jour) >= 1
                BY <7>1, <7>2
              <7> QED BY <6>0, <7>1, <7>3
            <6>2. Len(DropTorn(Jour)) = Len(Jour) - 1
              BY <4>4, <6>1
            <6> QED BY <4>4, <5>2, <6>1, <6>2
          <5> QED BY <5>1, <5>2
        <4>6. i \in DOMAIN DropTorn(left) /\ DropTorn(left)[i] = Jour[i]
          BY <1>0, <2>1, <4>4, <4>5, RemainsWhole
        <4>7. ~ AllParse(DropTorn(left))
          BY <4>4, <4>6 DEF AllParse
        <4> QED BY <1>0, <2>2, <2>3, <2>6, <4>2, <4>7 DEF Lost, MustQuarantine
      <3> QED BY <3>1, <3>2
    <2> QED BY <2>5, <2>6
  <1>2. CASE Damage
    BY <1>2, DamageLoses
  <1>3. CASE OpenQuarantined
    BY <1>3 DEF OpenQuarantined, Lost
  <1>4. CASE UNCHANGED vars
    BY <1>4 DEF vars, disk, process, Lost, MustQuarantine
  <1> QED
    BY <1>0, <1>1, <1>2, <1>3, <1>4
    DEF Next, MayCommit, FinishCommit, CommitFails, CommitWrite, CommitTruncateFails,
        CommitFsync, CommitFsyncFails, CompactSnapshot, CompactJournal, CompactManifest,
        CompactSwitch, CompactFails, CompactDirectoryFails, Stop, StopInWrite, Open

RefInv == IInv /\ HistInv /\ OnlyAdmitted /\ ~ overcut /\ (Dead \/ (Alive /\ Rebuildable /\ Settled))

LEMMA InitRef == Init => RefInv
  <1> SUFFICES ASSUME Init PROVE RefInv
    OBVIOUS
  <1>1. IInv /\ HistInv /\ OnlyAdmitted /\ ~ overcut
    BY InitInv, InitHistory, InitAdmitted DEF Init
  <1>2. ~ Dead /\ status = "open"
    BY DEF Init, Dead
  <1>3. Settled
    BY <1>2 DEF Settled
  <1> QED BY <1>1, <1>2, <1>3 DEF RefInv, IInv, HistInv

LEMMA RefStep ==
    ASSUME Benign, RefInv, [Next]_vars
    PROVE  RefInv'
  <1>1. IInv' /\ HistInv' /\ OnlyAdmitted' /\ ~ overcut'
    <2>0. ~ overcut'
      <3>1. ASSUME Open PROVE overcut' = overcut
        BY <3>1, ExactCut DEF Open, Benign, RefInv, IInv, TypeOK
      <3>2. ASSUME ~ Open PROVE overcut' = overcut
        BY <3>2
        DEF Next, CommitFails, CommitWrite, CommitTruncateFails, CommitFsync,
            CommitFsyncFails, FinishCommit, CompactSnapshot, CompactJournal, CompactManifest,
            CompactSwitch, CompactFails, CompactDirectoryFails, Stop, StopInWrite, PowerLoss,
            Damage, GoDown, OpenQuarantined, process, history, vars
      <3> QED BY <3>1, <3>2 DEF RefInv
    <2>1. TypeOK' /\ HistInv'
      BY <2>0, NextType, HistoryStep DEF RefInv, IInv
    <2>2. Dead' \/ Alive'
      BY <2>1, DeadStays, AliveStep DEF RefInv, IInv
    <2>3. OnlyAdmitted'
      BY AdmittedStep DEF RefInv, IInv, Benign
    <2> QED BY <2>0, <2>1, <2>2, <2>3 DEF IInv
  <1>2. CASE Dead
    BY <1>1, <1>2, DeadStays DEF RefInv, IInv
  <1>3. CASE Alive /\ Rebuildable /\ Settled
    <2>1. CASE Dead'
      BY <1>1, <2>1 DEF RefInv
    <2>2. CASE ~ Dead'
      <3>1. Alive' /\ Rebuildable' /\ TypeOK /\ TypeOK'
        BY <1>1, <2>2 DEF RefInv, IInv, HistInv
      <3>2. Settled'
        BY <1>3, <3>1, SettledStep
      <3> QED BY <1>1, <3>1, <3>2 DEF RefInv
    <2> QED BY <2>1, <2>2
  <1> QED BY <1>2, <1>3 DEF RefInv

(* A store that quarantines serves nothing for good. *)
LEMMA DeadIsLost ==
    ASSUME Dead
    PROVE  Lost
  BY DEF Dead, Lost, MustQuarantine

LEMMA DeadIsLostNext ==
    ASSUME Dead'
    PROVE  Lost'
  BY DEF Dead, Lost, MustQuarantine

(* A finished commit writes the next entry of the log. *)
LEMMA FinishWrites ==
    ASSUME RefInv, Alive, Rebuildable, FinishCommit,
           acked' \in {acked, acked \cup {EntryOf(pending)}}
    PROVE  Log!Write
  <1>1. /\ phase = "fsync" /\ status = "open" /\ status' = "open" /\ pending \in Line
        /\ state' = Apply(state, pending) /\ pending.seq = state.seq + 1
        /\ History(state)
    BY DEF FinishCommit, RefInv, IInv, HistInv, TypeOK, Rebuildable
  <1>2. /\ LogMode = "up" /\ LogMode' = "up" /\ LogView = state.log /\ LogView' = state'.log
    BY <1>1 DEF LogMode, LogView, Lost
  <1>3. Log!NextSeq = pending.seq
    BY <1>1, <1>2, HistorySize, SameCardinality DEF Log!NextSeq
  <1>4. EntryOf(pending) = [seq |-> Log!NextSeq, id |-> pending.id]
    BY <1>3 DEF EntryOf
  <1>5. pending.id \in Ids /\ \A f \in LogView : f.id # pending.id
    <2>1. pending.id = attempts /\ \A e \in state.log : e.id < attempts
      BY <1>1 DEF RefInv, OnlyAdmitted
    <2>2. attempts \in Nat /\ ~ (attempts < attempts)
      BY DEF RefInv, IInv, TypeOK
    <2> QED BY <1>1, <1>2, <2>1, <2>2 DEF Line
  <1>6. LogView' = LogView \cup {EntryOf(pending)}
    BY <1>1, <1>2 DEF Apply
  <1> QED BY <1>2, <1>4, <1>5, <1>6 DEF Log!Write

(* A process that dies takes nothing from the journal. *)
LEMMA StopFalls ==
    ASSUME Benign, RefInv, RefInv', Alive, Rebuildable, Settled, Alive', Rebuildable',
           ~ Lost, ~ Lost', Stop
    PROVE  Log!Fail
  <1>1. /\ status # "down" /\ status' = "down" /\ current' = current /\ acked' = acked
        /\ UNCHANGED <<manifest, manifestSynced, snapshots, journals>>
        /\ Snap' = Snap /\ Jour' = Jour /\ TypeOK /\ TypeOK' /\ OnlyAdmitted
    BY DEF Stop, GoDown, disk, Snap, Jour, RefInv, IInv
  <1>2. Jour \in Seq(Line) /\ Len(DropTorn(Jour)) \in Nat
    <2>1. Jour \in Seq(Line)
      BY <1>1 DEF TypeOK, Jour
    <2> QED BY <2>1, DropTornFacts
  <1>3. CASE manifest.gen = current
    BY <1>1, <1>2, <1>3, FallsBack
  <1>4. CASE manifest.gen # current
    <2>1. /\ acked' \subseteq LogView'
          /\ manifest.gen = current + 1
          /\ LogView' = snapshots[current + 1].log
      BY <1>1, <1>4, DownViewNext DEF DownSound
    <2>2. status = "open" /\ Running
      BY <1>1, <1>4 DEF Alive, Lost
    <2>3. phase = "directory" /\ snapshots[current + 1] = state
      BY <1>4, <2>2 DEF Running
    <2>4. LogView = state.log /\ LogMode = "up" /\ LogMode' = "down"
      BY <1>1, <2>2 DEF LogView, LogMode
    <2>5. History(state)
      BY DEF RefInv, HistInv
    <2>6. /\ state.seq \in Nat /\ IsFiniteSet(LogView) /\ Cardinality(LogView) = state.seq
          /\ \A e \in LogView : e.seq <= state.seq
      BY <2>4, <2>5, HistorySize DEF History
    <2> QED BY <1>1, <2>1, <2>3, <2>4, <2>6, FallsForward
  <1> QED BY <1>3, <1>4

(* A process that dies in a write leaves a torn line, which counts for nothing. *)
LEMMA StopInWriteFalls ==
    ASSUME Benign, RefInv, RefInv', Alive, Rebuildable, Settled, Alive', Rebuildable',
           ~ Lost, ~ Lost', StopInWrite
    PROVE  Log!Fail
  <1>1. /\ status = "open" /\ phase = "idle" /\ MayCommit /\ TypeOK /\ TypeOK' /\ OnlyAdmitted
        /\ status' = "down" /\ current' = current /\ acked' = acked
        /\ UNCHANGED <<manifest, manifestSynced, snapshots, synced>>
    BY DEF StopInWrite, MayCommit, GoDown, RefInv, IInv
  <1>2. PICK part \in Partials(NextLine) :
           journals' = [journals EXCEPT ![current] = AppendBytes(@, part)]
    BY DEF StopInWrite
  <1>3. NextLine \in Line /\ part \in Line
    BY <1>1, NextLineType, PartialsType
  <1>4. ~ part.parses /\ part.seq = state.seq + 1
    BY DEF Partials, Benign, NextLine
  <1>5. Snap' = Snap /\ Jour' = Append(Jour, part)
    BY <1>1, <1>2, <1>3, <1>4, AppendKeeps
  <1>6. /\ Jour \in Seq(Line) /\ Len(Jour) \in Nat /\ DropTorn(Jour) = Jour
        /\ manifest.gen = current
    BY <1>1, OpenFacts DEF Running
  <1>7. /\ Jour' \in Seq(Line) /\ Len(Jour') = Len(Jour) + 1
        /\ Jour'[Len(Jour) + 1] = part /\ \A i \in 1 .. Len(Jour) : Jour'[i] = Jour[i]
    BY <1>3, <1>5, <1>6, AppendFacts
  <1>8. Len(DropTorn(Jour')) = Len(Jour)
    <2>1. Len(Jour') >= 1 /\ ~ Jour'[Len(Jour')].parses
      BY <1>4, <1>6, <1>7
    <2>2. Len(DropTorn(Jour')) = Len(Jour') - 1
      BY <1>7, <2>1, DropTornFacts
    <2> QED BY <1>6, <1>7, <2>2
  <1>9. /\ Len(DropTorn(Jour')) <= Len(DropTorn(Jour))
        /\ \A i \in 1 .. Len(DropTorn(Jour')) : EntryOf(Jour'[i]) = EntryOf(Jour[i])
    BY <1>6, <1>7, <1>8
  <1> QED BY <1>1, <1>6, <1>9, FallsBack

(* A power loss leaves a prefix of the journal and one of two manifests. *)
LEMMA PowerFalls ==
    ASSUME Benign, RefInv, RefInv', Alive, Rebuildable, Settled, Alive', Rebuildable',
           ~ Lost, ~ Lost', PowerLoss
    PROVE  Log!Fail
  <1>1. /\ status' = "down" /\ current' = current /\ acked' = acked /\ snapshots' = snapshots
        /\ manifest' \in {manifest, manifestSynced}
        /\ TypeOK /\ TypeOK' /\ OnlyAdmitted /\ synced \in Nat
    BY DEF PowerLoss, GoDown, RefInv, IInv, TypeOK
  <1>2. PICK left \in Remains(Jour) : journals' = [journals EXCEPT ![current] = left]
    BY DEF PowerLoss, Jour
  <1>3. Jour \in Seq(Line) /\ synced <= Len(Jour) /\ Jour' = left
    BY <1>1, <1>2 DEF TypeOK, Alive, JournalShape, Jour
  <1>4. /\ Len(DropTorn(Jour')) <= Len(DropTorn(Jour))
        /\ \A i \in 1 .. Len(DropTorn(Jour')) : EntryOf(Jour'[i]) = EntryOf(Jour[i])
    BY <1>1, <1>2, <1>3, RemainsWhole
  <1>5. /\ acked' \subseteq LogView'
        /\ manifest'.gen = current \/ manifest'.gen = current + 1
        /\ manifest'.gen = current + 1 => LogView' = snapshots[current + 1].log
    BY <1>1, DownViewNext DEF DownSound
  <1>6. current \in Nat /\ current # current + 1
    BY <1>1 DEF TypeOK, Gens
  <1>7. CASE manifest'.gen = current
    <2>1. status = "down" => manifest.gen = current \/ manifestSynced.gen = current
      BY <1>1, <1>7
    <2> QED BY <1>1, <1>4, <1>7, <2>1, FallsBack
  <1>8. CASE manifest'.gen = current + 1
    <2>1. manifest.gen = current + 1
      <3>1. manifest'.gen = manifestSynced.gen => manifest.gen >= current + 1
        BY <1>1, <1>8 DEF Alive, TypeOK, Manifest, Gens
      <3> QED BY <1>1, <1>6, <1>8, <3>1 DEF Alive, NamesSafe, TypeOK, Manifest, Gens
    <2>2. LogView = snapshots[current + 1].log
      <3>1. CASE status = "down"
        BY <1>1, <2>1, <3>1, DownView DEF DownSound
      <3>2. CASE status = "open"
        BY <1>6, <2>1, <3>2, OpenFacts, <1>1 DEF Running, LogView, Lost
      <3>3. CASE status = "closed"
        BY <1>6, <2>1, <3>3 DEF Alive
      <3> QED BY <3>1, <3>2, <3>3 DEF Alive
    <2>3. current + 1 \in Gens /\ snapshots[current + 1] # Unreadable
      BY <1>1, <1>8, <2>1 DEF TypeOK, Manifest, Lost, MustQuarantine
    <2>4. History(snapshots[current + 1])
      BY <2>3 DEF Rebuildable
    <2>5. LogMode \in {"up", "down"} /\ LogMode' = "down"
      BY <1>1 DEF LogMode
    <2> DEFINE n == snapshots[current + 1].seq
    <2>6. /\ n \in Nat /\ IsFiniteSet(LogView) /\ Cardinality(LogView) = n
          /\ \A e \in LogView : e.seq <= n
      BY <2>2, <2>4, HistorySize DEF History
    <2> HIDE DEF n
    <2> QED BY <1>1, <1>5, <1>8, <2>2, <2>5, <2>6, FallsForward
  <1> QED BY <1>5, <1>7, <1>8

(* Every step of the store is a step of the log, or changes nothing there. *)
LEMMA LogStep ==
    ASSUME Benign, RefInv, RefInv', [Next]_vars
    PROVE  Log!Next \/ UNCHANGED <<LogView, acked, LogMode>>
  <1>0. TypeOK /\ TypeOK'
    BY DEF RefInv, IInv
  <1>1. CASE Lost'
    <2>1. LogView' = {} /\ LogMode' = "lost"
      BY <1>1 DEF LogView, LogMode
    <2>2. ~ FinishCommit
      <3>1. FinishCommit => status' = "open"
        BY <1>0 DEF FinishCommit, TypeOK
      <3> QED BY <1>1, <3>1 DEF Lost
    <2>3. acked' = acked
      BY <2>2
      DEF Next, CommitFails, CommitWrite, CommitTruncateFails, CommitFsync, CommitFsyncFails,
          CompactSnapshot, CompactJournal, CompactManifest, CompactSwitch, CompactFails,
          CompactDirectoryFails, Stop, StopInWrite, PowerLoss, Damage, GoDown, OpenQuarantined,
          Open, process, history, vars
    <2> QED BY <2>1, <2>3 DEF Log!Next, Log!Quarantine
  <1>2. CASE ~ Lost'
    <2>1. ~ Dead' /\ ~ Dead
      BY <1>0, <1>2, DeadStays, DeadIsLostNext
    <2>2. Alive /\ Rebuildable /\ Settled /\ Alive' /\ Rebuildable'
      BY <2>1 DEF RefInv
    <2>3. ~ Lost
      BY <1>0, <1>2, <2>2, LostStays
    <2>4. ASSUME status = "open", status' \in {"open", "closed"}, UNCHANGED <<state, acked>>
          PROVE  UNCHANGED <<LogView, acked, LogMode>>
      BY <2>4 DEF LogView, LogMode, Lost
    <2>5. CASE CommitFsync \/ CommitFsyncFails
      <3>1. FinishCommit /\ acked' \in {acked, acked \cup {EntryOf(pending)}}
        BY <2>5 DEF CommitFsync, CommitFsyncFails
      <3> QED BY <2>2, <3>1, FinishWrites DEF Log!Next
    <2>6. CASE \/ CommitFails \/ CommitWrite \/ CommitTruncateFails \/ CompactSnapshot
               \/ CompactJournal \/ CompactManifest \/ CompactSwitch \/ CompactFails
               \/ CompactDirectoryFails
      <3>1. status = "open" /\ status' \in {"open", "closed"} /\ UNCHANGED <<state, acked>>
        BY <1>0, <2>6
        DEF CommitFails, CommitWrite, CommitTruncateFails, CompactSnapshot, CompactJournal,
            CompactManifest, CompactSwitch, CompactFails, CompactDirectoryFails, MayCommit,
            disk, process, history, TypeOK
      <3> QED BY <2>4, <3>1
    <2>7. CASE Stop
      BY <1>2, <2>2, <2>3, <2>7, StopFalls DEF Log!Next
    <2>8. CASE StopInWrite
      BY <1>2, <2>2, <2>3, <2>8, StopInWriteFalls DEF Log!Next
    <2>9. CASE PowerLoss
      BY <1>2, <2>2, <2>3, <2>9, PowerFalls DEF Log!Next
    <2>10. CASE Damage
      BY <1>0, <1>2, <2>2, <2>10, DamageLoses
    <2>11. CASE OpenQuarantined
      BY <1>2, <2>11 DEF OpenQuarantined, Lost
    <2>12. CASE Open
      <3>1. /\ status = "down" /\ status' = "open" /\ acked' = acked
            /\ state' = Replay(snapshots[manifest.gen], DropTorn(journals[manifest.gen]))
        BY <2>12 DEF Open
      <3>2. LogMode = "down" /\ LogMode' = "up" /\ LogView' = LogView
        BY <1>2, <2>3, <3>1 DEF LogMode, LogView
      <3> QED BY <3>1, <3>2 DEF Log!Next, Log!Restart
    <2>13. CASE UNCHANGED vars
      BY <2>13 DEF vars, disk, process, history, LogView, LogMode, Lost, MustQuarantine
    <2> QED
      BY <2>5, <2>6, <2>7, <2>8, <2>9, <2>10, <2>11, <2>12, <2>13 DEF Next
  <1> QED BY <1>1, <1>2

(* The store implements the log it promises: through commits, failed       *)
(* fsyncs, crashes, power losses, torn tails, compactions and damage, each *)
(* step adds one entry at the next seq, takes back an unacknowledged       *)
(* suffix, lands the one line that waited for its fsync, or ends in        *)
(* quarantine; under the same three limits as AckedWritesSurvive.          *)
THEOREM StoreIsALog == Benign => (Spec => ImplementsLog)
  <1> SUFFICES ASSUME Benign PROVE Spec => ImplementsLog
    OBVIOUS
  <1>1. Init => Log!Init
    <2> SUFFICES ASSUME Init PROVE Log!Init
      OBVIOUS
    <2> QED BY DEF Init, Log!Init, LogView, LogMode, Lost, EmptyState
  <1>2. RefInv /\ RefInv' /\ [Next]_vars => [Log!Next]_<<LogView, acked, LogMode>>
    BY LogStep
  <1>3. RefInv /\ [Next]_vars => RefInv'
    BY RefStep
  <1> QED BY <1>1, <1>2, <1>3, InitRef, PTL DEF Spec, ImplementsLog, Log!Spec

=============================================================================
