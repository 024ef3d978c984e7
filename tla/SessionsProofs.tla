---------------------------- MODULE SessionsProofs ----------------------------
(***************************************************************************)
(* That the sockets, challenges and records of a gateway agree             *)
(* (Sessions!SessionsBound), and that its Router is left with its records  *)
(* (SessionRegistry!RegistryFollows). The invariant of the sessions is     *)
(* stated of values, so that a registration can be followed through its    *)
(* parts: the sockets it displaces leave, the new one comes, and its       *)
(* record is confirmed. The one of the registry says what the calls out    *)
(* still tell the Router, first to last.                                   *)
(***************************************************************************)
EXTENDS Sessions, SessionRegistry, FiniteSetTheorems, SequenceTheorems, TLAPS

Gone == [state |-> "gone"]
LiveSocks == [state : {"open", "closing"}, name : Names, sub : SubIds, conv : Conversations \cup {None},
              bound : Nat, transcript : Transcripts \cup {None}, confirmed : BOOLEAN]
Socks == {Unmade, Gone} \cup LiveSocks
SomeRecords == [exists : {TRUE}, transcript : Transcripts \cup {None}, token : Nat, active : BOOLEAN,
                confirmed : BOOLEAN, live : {<<>>} \cup (Names \X SubIds), moved : BOOLEAN]
Records == {NoRecord} \cup SomeRecords
Challenges == [by : Sockets, name : Names, sub : SubIds]

Reg(sk) == {s \in Sockets : sk[s].state \in {"open", "closing"}}
Place(sk, s) == <<sk[s].name, sk[s].sub>>

\* One socket stands at a name and subId.
Apart(sk) == \A s, t \in Reg(sk) : Place(sk, s) = Place(sk, t) => s = t

LivesTrue(sk, rc) ==
    \A n \in Names : rc[n].exists /\ rc[n].live # <<>> =>
        \E s \in Reg(sk) : Place(sk, s) = rc[n].live /\ sk[s].confirmed

Bounded(sk, ch) ==
    \A p \in ch : p.by \in Reg(sk) /\ Place(sk, p.by) = <<p.name, p.sub>> /\ ~sk[p.by].confirmed

Held(sk, rc) ==
    \A s \in Reg(sk) : LET rec == rc[sk[s].name] IN
        rec.exists /\ rec.active /\ ~rec.moved => sk[s].bound = rec.token

\* A binding is armed by the process that presents its token: there is one.
Armed(rc) == \A n \in Names : rc[n].exists /\ rc[n].active => rc[n].token # None

Kept(sk, rc, fg) ==
    \A s \in Reg(sk) : sk[s].state = "open" /\ sk[s].confirmed =>
        rc[sk[s].name].exists \/ sk[s].name \in fg \cup ClashNames

SInv(sk, rc, ch, fg) ==
    /\ sk \in [Sockets -> Socks]
    /\ rc \in [Names -> Records]
    /\ ch \subseteq Challenges
    /\ Apart(sk)
    /\ LivesTrue(sk, rc)
    /\ Bounded(sk, ch)
    /\ Held(sk, rc)
    /\ Armed(rc)
    /\ Kept(sk, rc, fg)

SessionInv == tokens \in Nat /\ SInv(sock, records, challenges, forgotten)

LEMMA SInvSuffices == SessionInv => SessionsBound
<1>. SUFFICES ASSUME SessionInv  PROVE SessionsBound
  OBVIOUS
<1>. USE DEF SessionInv, SInv
<1>1. Registered = Reg(sock)
  BY DEF Registered, Reg
<1>2. LiveRefTrue
  BY <1>1 DEF LiveRefTrue, LivesTrue, Recorded, Place, Ref
<1>3. PendingBounded
  BY <1>1 DEF PendingBounded, Bounded, At, Place
<1>4. BoundNameHeld
  BY <1>1 DEF BoundNameHeld, Held
<1>5. RecordKept
  BY <1>1 DEF RecordKept, Kept, Open
<1>. QED  BY <1>2, <1>3, <1>4, <1>5 DEF SessionsBound

LEMMA SInvInit == SessionInit => SessionInv
<1>. SUFFICES ASSUME SessionInit  PROVE SessionInv
  OBVIOUS
<1>1. Reg(sock) = {}
  BY DEF SessionInit, Reg, Unmade
<1>2. sock \in [Sockets -> Socks]
  BY DEF SessionInit, Socks
<1>3. records \in [Names -> Records] /\ \A n \in Names : ~records[n].exists
  BY DEF SessionInit, Records, NoRecord
<1>. QED  BY <1>1, <1>2, <1>3 DEF SessionInit, SessionInv, SInv, Apart, LivesTrue, Bounded, Held, Armed, Kept

-----------------------------------------------------------------------------
(* Sockets leave *)

\* What is left of a socket that is registered is its record.
LEMMA RegTyped ==
    ASSUME NEW sk \in [Sockets -> Socks], NEW s \in Reg(sk)
    PROVE  s \in Sockets /\ sk[s] \in LiveSocks
BY DEF Reg, Socks, Unmade, Gone

LEMMA EvictedLeaves ==
    ASSUME sock \in [Sockets -> Socks], NEW gone
    PROVE  /\ evicted(gone) \in [Sockets -> Socks]
           /\ Reg(evicted(gone)) = Reg(sock) \ gone
           /\ \A s \in Sockets \ gone : evicted(gone)[s] = sock[s]
<1>1. \A s \in Sockets : evicted(gone)[s] = IF s \in gone THEN Gone ELSE sock[s]
  BY DEF evicted, Gone
<1>2. Gone \in Socks /\ Gone.state = "gone"
  BY DEF Socks, Gone
<1>3. evicted(gone) \in [Sockets -> Socks]
  BY <1>2 DEF evicted, Gone
<1>. QED  BY <1>1, <1>2, <1>3 DEF Reg

LEMMA ClearedLives ==
    ASSUME NEW rc \in [Names -> Records], NEW gone
    PROVE  /\ clearLive(rc, gone) \in [Names -> Records]
           /\ \A n \in Names : LET new == clearLive(rc, gone)[n] IN
                /\ new.exists = rc[n].exists
                /\ rc[n].exists => /\ new.token = rc[n].token /\ new.active = rc[n].active
                                   /\ new.moved = rc[n].moved /\ new.live \in {<<>>, rc[n].live}
                                   /\ \A s \in gone : rc[n].live = Ref(s) => new.live = <<>>
<1>1. ASSUME NEW n \in Names
      PROVE  /\ clearLive(rc, gone)[n] \in Records
             /\ clearLive(rc, gone)[n].exists = rc[n].exists
             /\ rc[n].exists => LET new == clearLive(rc, gone)[n] IN
                                   /\ new.token = rc[n].token /\ new.active = rc[n].active
                                   /\ new.moved = rc[n].moved /\ new.live \in {<<>>, rc[n].live}
                                   /\ \A s \in gone : rc[n].live = Ref(s) => new.live = <<>>
  <2>1. CASE rc[n].exists /\ \E s \in gone : rc[n].live = Ref(s)
    <3>1. clearLive(rc, gone)[n] = [rc[n] EXCEPT !.live = <<>>]
      BY <2>1 DEF clearLive
    <3>2. rc[n] \in SomeRecords
      BY <2>1 DEF Records, NoRecord
    <3> DEFINE e == [rc[n] EXCEPT !.live = <<>>]
    <3>3. e \in SomeRecords
      BY <3>2 DEF SomeRecords
    <3>4. /\ e.exists = rc[n].exists /\ e.token = rc[n].token /\ e.active = rc[n].active
          /\ e.moved = rc[n].moved /\ e.live = <<>>
      BY <3>2 DEF SomeRecords
    <3>5. clearLive(rc, gone)[n] = e
      BY <3>1
    <3> HIDE DEF e
    <3>. QED  BY <3>3, <3>4, <3>5, Zenon DEF Records
  <2>2. CASE ~(rc[n].exists /\ \E s \in gone : rc[n].live = Ref(s))
    <3>1. clearLive(rc, gone)[n] = rc[n]
      BY <2>2 DEF clearLive
    <3>. QED  BY <3>1, <2>2
  <2>. QED  BY <2>1, <2>2
<1>2. clearLive(rc, gone) = [n \in Names |-> clearLive(rc, gone)[n]]
  BY DEF clearLive
<1>. QED  BY <1>1, <1>2

\* Sockets that leave take their challenges and what is live at them along. The
\* records may have been armed before, if whoever did not present the token leaves.
LEMMA LeavingKeeps ==
    ASSUME SInv(sock, records, challenges, forgotten), NEW gone \in SUBSET Reg(sock),
           NEW rc \in [Names -> Records], Armed(rc), Held(evicted(gone), rc),
           \A n \in Names : /\ rc[n].exists = records[n].exists
                            /\ rc[n].exists => rc[n].live = records[n].live,
           NEW ch \in SUBSET challenges,
           \A p \in ch : p.by \notin gone
    PROVE  SInv(evicted(gone), clearLive(rc, gone), ch, forgotten)
<1>. DEFINE sk == evicted(gone)
            cl == clearLive(rc, gone)
<1>1. sock \in [Sockets -> Socks] /\ records \in [Names -> Records] /\ challenges \subseteq Challenges
  BY DEF SInv
<1>2. /\ sk \in [Sockets -> Socks]
      /\ Reg(sk) = Reg(sock) \ gone
      /\ \A s \in Sockets \ gone : sk[s] = sock[s]
  BY <1>1, EvictedLeaves
<1>3. /\ cl \in [Names -> Records]
      /\ \A n \in Names :
            /\ cl[n].exists = rc[n].exists
            /\ rc[n].exists => /\ cl[n].token = rc[n].token /\ cl[n].active = rc[n].active
                               /\ cl[n].moved = rc[n].moved /\ cl[n].live \in {<<>>, rc[n].live}
                               /\ \A s \in gone : rc[n].live = Ref(s) => cl[n].live = <<>>
  BY ClearedLives
<1>4. \A s \in Reg(sk) : s \in Sockets /\ s \notin gone /\ sk[s] = sock[s] /\ s \in Reg(sock)
  BY <1>2 DEF Reg
<1>5. \A s \in Reg(sk) : sk[s].name \in Names
  BY <1>1, <1>4, RegTyped DEF LiveSocks
<1>6. Held(sk, rc)
  OBVIOUS
<1>. HIDE DEF sk, cl
<1>7. Apart(sk)
  BY <1>4 DEF SInv, Apart, Place
<1>8. LivesTrue(sk, cl)
  <2>1. SUFFICES ASSUME NEW n \in Names, cl[n].exists, cl[n].live # <<>>
                 PROVE  \E s \in Reg(sk) : Place(sk, s) = cl[n].live /\ sk[s].confirmed
    BY DEF LivesTrue
  <2>2. records[n].exists /\ cl[n].live = records[n].live /\ rc[n].exists /\ rc[n].live = records[n].live
    BY <2>1, <1>3
  <2>3. PICK s \in Reg(sock) : Place(sock, s) = records[n].live /\ sock[s].confirmed
    BY <2>1, <2>2 DEF SInv, LivesTrue
  <2>4. s \notin gone
    BY <2>1, <2>2, <2>3, <1>3 DEF Place, Ref
  <2>5. s \in Reg(sk) /\ sk[s] = sock[s]
    BY <2>3, <2>4, <1>2, <1>4
  <2>. QED  BY <2>2, <2>3, <2>5 DEF Place
<1>9. Bounded(sk, ch)
  <2>1. SUFFICES ASSUME NEW p \in ch
                 PROVE  p.by \in Reg(sk) /\ Place(sk, p.by) = <<p.name, p.sub>> /\ ~sk[p.by].confirmed
    BY DEF Bounded
  <2>2. p.by \in Reg(sock) /\ Place(sock, p.by) = <<p.name, p.sub>> /\ ~sock[p.by].confirmed
    BY <2>1 DEF SInv, Bounded
  <2>3. p.by \in Reg(sk) /\ sk[p.by] = sock[p.by]
    BY <2>1, <2>2, <1>2, <1>4
  <2>. QED  BY <2>2, <2>3 DEF Place
<1>10. Held(sk, cl)
  BY <1>3, <1>5, <1>6 DEF Held
<1>11. Armed(cl)
  BY <1>3 DEF Armed
<1>12. Kept(sk, cl, forgotten)
  BY <1>3, <1>4, <1>5 DEF SInv, Kept
<1>13. ch \subseteq Challenges
  BY <1>1
<1>14. SInv(sk, cl, ch, forgotten)
  BY <1>2, <1>3, <1>7, <1>8, <1>9, <1>10, <1>11, <1>12, <1>13 DEF SInv
<1>. QED  BY <1>14 DEF sk, cl

-----------------------------------------------------------------------------
(* A socket comes, and a record is confirmed *)

\* A socket comes unconfirmed to a place nobody stands at, and its name's binding
\* is not armed with a token it does not hold.
LEMMA JoiningKeeps ==
    ASSUME NEW sk, NEW rc, NEW ch, NEW fg, SInv(sk, rc, ch, fg),
           NEW s \in Sockets, s \notin Reg(sk),
           NEW new \in LiveSocks, new.state = "open", ~new.confirmed,
           \A t \in Reg(sk) : Place(sk, t) # <<new.name, new.sub>>,
           LET rec == rc[new.name] IN rec.exists /\ rec.active /\ ~rec.moved => new.bound = rec.token,
           NEW more \in SUBSET {[by |-> s, name |-> new.name, sub |-> new.sub]}
    PROVE  SInv([sk EXCEPT ![s] = new], rc, ch \cup more, fg)
<1>. DEFINE sn == [sk EXCEPT ![s] = new]
<1>1. sk \in [Sockets -> Socks] /\ new \in Socks
  BY DEF SInv, Socks
<1>2. /\ sn \in [Sockets -> Socks]
      /\ sn[s] = new
      /\ \A t \in Sockets : t # s => sn[t] = sk[t]
  BY <1>1
<1>3. Reg(sn) = Reg(sk) \cup {s}
  BY <1>2 DEF Reg
<1>4. \A t \in Reg(sk) : t # s /\ sn[t] = sk[t]
  BY <1>2 DEF Reg
<1>. HIDE DEF sn
<1>5. Place(sn, s) = <<new.name, new.sub>> /\ \A t \in Reg(sk) : Place(sn, t) = Place(sk, t)
  BY <1>2, <1>4 DEF Place
<1>6. Apart(sn)
  BY <1>3, <1>5 DEF SInv, Apart
<1>7. LivesTrue(sn, rc)
  BY <1>3, <1>4, <1>5 DEF SInv, LivesTrue
<1>8. Bounded(sn, ch \cup more)
  BY <1>2, <1>3, <1>4, <1>5 DEF SInv, Bounded
<1>9. Held(sn, rc)
  BY <1>2, <1>3, <1>4 DEF SInv, Held
<1>10. Kept(sn, rc, fg)
  BY <1>2, <1>3, <1>4 DEF SInv, Kept
<1>11. ch \cup more \subseteq Challenges
  BY DEF SInv, Challenges, LiveSocks
<1>12. SInv(sn, rc, ch \cup more, fg)
  BY <1>2, <1>6, <1>7, <1>8, <1>9, <1>10, <1>11 DEF SInv
<1>. QED  BY <1>12 DEF sn

\* What the confirmation of the socket s, at ref under name, may do to a record: keep
\* it, take it from a name nobody else confirmed stands for, or have it live at ref
\* with a binding as before, of a record that moved, or inert.
Settles(rc, r, sk, s, name, ref, n) ==
    \/ r[n] = rc[n]
    \/ /\ r[n] = NoRecord /\ n # name
       /\ \A o \in Reg(sk) \ {s} : sk[o].state = "open" /\ sk[o].confirmed => sk[o].name # n
    \/ /\ r[n].exists /\ r[n].live = ref
       /\ r[n].active => r[n].token # None
       /\ \/ ~r[n].active \/ r[n].moved
          \/ /\ rc[n].exists /\ r[n].token = rc[n].token
             /\ r[n].active = rc[n].active /\ r[n].moved = rc[n].moved

\* A socket is confirmed, with a record as establishOnConfirm leaves it.
LEMMA ConfirmingKeeps ==
    ASSUME NEW sk, NEW rc, NEW ch, NEW fg, SInv(sk, rc, ch, fg),
           NEW s \in Reg(sk), NEW r \in [Names -> Records],
           \A n \in Names : Settles(rc, r, sk, s, sk[s].name, Place(sk, s), n),
           sk[s].name \notin ClashNames => r[sk[s].name].exists,
           NEW left \in SUBSET ch, \A p \in left : p.by # s
    PROVE  SInv([sk EXCEPT ![s].confirmed = TRUE], r, left, fg)
<1>. DEFINE sn == [sk EXCEPT ![s].confirmed = TRUE]
<1>1. sk \in [Sockets -> Socks] /\ s \in Sockets /\ sk[s] \in LiveSocks
  <2>1. sk \in [Sockets -> Socks]
    BY DEF SInv
  <2>. QED  BY <2>1, RegTyped
<1>2. /\ sn[s] = [sk[s] EXCEPT !.confirmed = TRUE]
      /\ \A t \in Sockets : t # s => sn[t] = sk[t]
  BY <1>1
<1>3. /\ sn[s] \in LiveSocks /\ sn[s].confirmed
      /\ sn[s].state = sk[s].state /\ sn[s].name = sk[s].name /\ sn[s].sub = sk[s].sub /\ sn[s].bound = sk[s].bound
  BY <1>1, <1>2 DEF LiveSocks
<1>4. sn \in [Sockets -> Socks]
  BY <1>1, <1>2, <1>3 DEF Socks
<1>. HIDE DEF sn
<1>5. \A t \in Sockets : /\ sn[t].state = sk[t].state
                         /\ t \in Reg(sk) => /\ sn[t].name = sk[t].name /\ sn[t].sub = sk[t].sub
                                             /\ sn[t].bound = sk[t].bound
  BY <1>2, <1>3
<1>6. Reg(sn) = Reg(sk)
  BY <1>5 DEF Reg
<1>7. \A t \in Reg(sk) : Place(sn, t) = Place(sk, t)
  BY <1>5 DEF Place, Reg
<1>8. Apart(sn)
  BY <1>6, <1>7 DEF SInv, Apart
<1>9. \A t \in Reg(sk) : t \in Sockets /\ sk[t].name \in Names
  <2>1. sk \in [Sockets -> Socks]
    BY <1>1
  <2>. QED  BY <2>1, RegTyped DEF LiveSocks
<1>10. LivesTrue(sn, r)
  <2>1. SUFFICES ASSUME NEW n \in Names, r[n].exists, r[n].live # <<>>
                 PROVE  \E t \in Reg(sn) : Place(sn, t) = r[n].live /\ sn[t].confirmed
    BY DEF LivesTrue
  <2>2. CASE r[n] = rc[n]
    <3>1. PICK t \in Reg(sk) : Place(sk, t) = rc[n].live /\ sk[t].confirmed
      BY <2>1, <2>2 DEF SInv, LivesTrue
    <3>2. sn[t].confirmed
      BY <3>1, <1>2, <1>3, <1>9
    <3>. QED  BY <2>2, <3>1, <3>2, <1>6, <1>7
  <2>3. CASE r[n].live = Place(sk, s)
    BY <2>3, <1>3, <1>6, <1>7
  <2>4. r[n] # NoRecord
    BY <2>1 DEF NoRecord
  <2>. QED  BY <2>2, <2>3, <2>4 DEF Settles
<1>11. Bounded(sn, left)
  <2>1. SUFFICES ASSUME NEW p \in left
                 PROVE  p.by \in Reg(sn) /\ Place(sn, p.by) = <<p.name, p.sub>> /\ ~sn[p.by].confirmed
    BY DEF Bounded
  <2>2. p.by \in Reg(sk) /\ Place(sk, p.by) = <<p.name, p.sub>> /\ ~sk[p.by].confirmed /\ p.by # s
    BY <2>1 DEF SInv, Bounded
  <2>. QED  BY <2>2, <1>2, <1>6, <1>7, <1>9
<1>12. Held(sn, r)
  <2>1. SUFFICES ASSUME NEW t \in Reg(sk), NEW n \in Names, n = sk[t].name, r[n].exists, r[n].active, ~r[n].moved
                 PROVE  sk[t].bound = r[n].token
    BY <1>5, <1>6, <1>9 DEF Held
  <2>2. rc[n].exists /\ r[n].token = rc[n].token /\ rc[n].active /\ ~rc[n].moved
    BY <2>1 DEF Settles, NoRecord
  <2>. QED  BY <2>1, <2>2 DEF SInv, Held
<1>13. Armed(r)
  <2>1. SUFFICES ASSUME NEW n \in Names, r[n].exists, r[n].active  PROVE r[n].token # None
    BY DEF Armed
  <2>. QED  BY <2>1 DEF SInv, Armed, Settles, NoRecord
<1>14. Kept(sn, r, fg)
  <2>1. SUFFICES ASSUME NEW t \in Reg(sk), sk[t].state = "open", sn[t].confirmed,
                        sk[t].name \notin fg \cup ClashNames
                 PROVE  r[sk[t].name].exists
    BY <1>5, <1>6, <1>9 DEF Kept
  <2>2. CASE t = s
    BY <2>1, <2>2
  <2>3. CASE t # s
    <3>1. sk[t].confirmed
      BY <2>1, <2>3, <1>2, <1>9
    <3>2. rc[sk[t].name].exists
      BY <2>1, <3>1 DEF SInv, Kept
    <3>. QED  BY <2>1, <2>3, <3>1, <3>2, <1>9 DEF Settles
  <2>. QED  BY <2>2, <2>3
<1>15. left \subseteq Challenges
  BY DEF SInv
<1>16. SInv(sn, r, left, fg)
  BY <1>4, <1>8, <1>10, <1>11, <1>12, <1>13, <1>14, <1>15 DEF SInv
<1>. QED  BY <1>16 DEF sn

\* The open, confirmed sockets of a name stand for it.
LEMMA StandsFor ==
    ASSUME NEW n \in Names, NEW o \in Open, sock[o].name = n, sock[o].confirmed
    PROVE  o \in resolveLiveIncarnation(n)
<1>. DEFINE here == {t \in Open : sock[t].name = n}
            confirmed == {t \in here : sock[t].confirmed}
<1>1. o \in confirmed
  OBVIOUS
<1>2. resolveLiveIncarnation(n) = confirmed
  BY <1>1 DEF resolveLiveIncarnation
<1>. QED  BY <1>1, <1>2

\* establishOnConfirm leaves the records so: for records rc that say of each name
\* what they said, except what is live of those that left.
LEMMA EstablishedSettles ==
    ASSUME records \in [Names -> Records], NEW rc \in [Names -> Records], Armed(rc),
           \A n \in Names : rc[n].exists = records[n].exists,
           NEW s \in Sockets, NEW name \in Names, NEW ref \in Names \X SubIds,
           NEW tr \in Transcripts \cup {None},
           NEW r \in established(rc, s, name, ref, tr),
           NEW sk, \A o \in Reg(sk) \ {s} : sk[o].state = "open" /\ sk[o].confirmed =>
                                            o \in Open /\ sock[o].name = sk[o].name /\ sock[o].confirmed
    PROVE  /\ r \in [Names -> Records]
           /\ \A n \in Names : Settles(rc, r, sk, s, name, ref, n)
           /\ name \notin ClashNames => r[name].exists
<1>. DEFINE confirmedAt(rec) == [rec EXCEPT !.confirmed = TRUE, !.live = ref,
                                            !.transcript = IF tr # None THEN tr ELSE rec.transcript]
<1>1. \A rec \in SomeRecords :
         /\ confirmedAt(rec) \in SomeRecords
         /\ confirmedAt(rec).exists /\ confirmedAt(rec).live = ref
         /\ confirmedAt(rec).token = rec.token /\ confirmedAt(rec).active = rec.active
         /\ confirmedAt(rec).moved = rec.moved
  BY DEF SomeRecords
<1>2. /\ \A n \in Names : rc[n].exists => rc[n] \in SomeRecords
      /\ SomeRecords \subseteq Records /\ NoRecord \in Records
      /\ \A rec \in SomeRecords : rec.exists
      /\ NewRecord(tr) \in SomeRecords /\ NewRecord(tr).active = FALSE
  <2>1. \A n \in Names : rc[n].exists => rc[n] \in SomeRecords
    BY DEF Records, NoRecord
  <2>2. SomeRecords \subseteq Records /\ NoRecord \in Records
    BY DEF Records
  <2>3. \A rec \in SomeRecords : rec.exists
    BY DEF SomeRecords
  <2>4. NewRecord(tr) \in SomeRecords
    BY DEF SomeRecords, NewRecord, None
  <2>5. NewRecord(tr).active = FALSE
    BY DEF NewRecord
  <2>. QED  BY <2>1, <2>2, <2>3, <2>4, <2>5
<1>. HIDE DEF confirmedAt
<1>3. ASSUME rc[name].exists, r = [rc EXCEPT ![name] = confirmedAt(rc[name])]
      PROVE  /\ r \in [Names -> Records]
             /\ \A n \in Names : Settles(rc, r, sk, s, name, ref, n)
             /\ r[name].exists
  <2>1. /\ r \in [Names -> Records]
        /\ r[name] = confirmedAt(rc[name])
        /\ \A n \in Names : n # name => r[n] = rc[n]
    BY <1>1, <1>2, <1>3
  <2>. QED  BY <2>1, <1>1, <1>2, <1>3 DEF Settles, Armed
<1>4. ASSUME NEW m \in Names, ~rc[m].exists, r = [rc EXCEPT ![m] = confirmedAt(NewRecord(tr))]
      PROVE  /\ r \in [Names -> Records]
             /\ \A n \in Names : Settles(rc, r, sk, s, name, ref, n)
             /\ r[m].exists
  <2>1. /\ r \in [Names -> Records]
        /\ r[m] = confirmedAt(NewRecord(tr))
        /\ \A n \in Names : n # m => r[n] = rc[n]
    BY <1>1, <1>2, <1>4
  <2>. QED  BY <2>1, <1>1, <1>2 DEF Settles
<1>5. ASSUME NEW h \in Names, rc[h].exists, ~rc[name].exists, mayTake(s, name, h),
             r = [rc EXCEPT ![name] = confirmedAt([rc[h] EXCEPT !.moved = TRUE]), ![h] = NoRecord]
      PROVE  /\ r \in [Names -> Records]
             /\ \A n \in Names : Settles(rc, r, sk, s, name, ref, n)
             /\ r[name].exists
  <2>1. h # name
    BY <1>5
  <2>. DEFINE took == [rc[h] EXCEPT !.moved = TRUE]
  <2>2. took \in SomeRecords /\ took.moved /\ took.token = rc[h].token /\ took.active = rc[h].active
    <3>1. rc[h] \in SomeRecords
      BY <1>2, <1>5
    <3>2. took \in SomeRecords
      BY <3>1 DEF SomeRecords
    <3>3. took.moved = TRUE /\ took.token = rc[h].token
      BY <3>1 DEF SomeRecords
    <3>4. took.active = rc[h].active
      BY <3>1 DEF SomeRecords
    <3>. QED  BY <3>2, <3>3, <3>4
  <2>3. r = [rc EXCEPT ![name] = confirmedAt(took), ![h] = NoRecord]
    BY <1>5
  <2>. HIDE DEF took
  <2>4. /\ r \in [Names -> Records]
        /\ r[name] = confirmedAt(took) /\ r[h] = NoRecord
        /\ \A n \in Names : n # name /\ n # h => r[n] = rc[n]
    BY <2>1, <2>2, <2>3, <1>1, <1>2
  <2>5. \A o \in Reg(sk) \ {s} : sk[o].state = "open" /\ sk[o].confirmed => sk[o].name # h
    <3>1. resolveLiveIncarnation(h) \subseteq {s}
      BY <1>5, <2>1 DEF mayTake
    <3>. QED  BY <3>1, StandsFor
  <2>6. took.active => took.token # None
    BY <2>2, <1>5 DEF Armed
  <2>. QED  BY <2>1, <2>2, <2>4, <2>5, <2>6, <1>1 DEF Settles
<1>6. CASE Holders(tr) # {}
  <2>1. PICK h \in Holders(tr) :
           /\ mayTake(s, name, h)
           /\ r = CASE rc[name].exists -> [rc EXCEPT ![name] = confirmedAt(rc[name])]
                    [] OTHER -> [rc EXCEPT ![name] = confirmedAt([rc[h] EXCEPT !.moved = TRUE]), ![h] = NoRecord]
    BY <1>6 DEF established, confirmedAt
  <2>2. h \in Names /\ rc[h].exists
    BY DEF Holders, Recorded
  <2>. QED  BY <2>1, <2>2, <1>3, <1>5
<1>7. CASE Holders(tr) = {} /\ rc[name].exists
  <2>1. r = [rc EXCEPT ![name] = confirmedAt(rc[name])]
    BY <1>7 DEF established, confirmedAt
  <2>. QED  BY <2>1, <1>3, <1>7
<1>8. CASE Holders(tr) = {} /\ ~rc[name].exists
  <2>1. r \in IF name \in ClashNames
              THEN {[rc EXCEPT ![n] = confirmedAt(NewRecord(tr))] :
                       n \in {n \in Names \ ClashNames : ~rc[n].exists /\ n # name}}
              ELSE {[rc EXCEPT ![name] = confirmedAt(NewRecord(tr))]}
    BY <1>8 DEF established, confirmedAt
  <2>. QED  BY <2>1, <1>4, <1>8
<1>. QED  BY <1>6, <1>7, <1>8

-----------------------------------------------------------------------------
(* Every step *)

LEMMA HeldByTheRest ==
    ASSUME SInv(sock, records, challenges, forgotten), NEW gone
    PROVE  Held(evicted(gone), records)
<1>1. sock \in [Sockets -> Socks]
  BY DEF SInv
<1>2. \A t \in Reg(evicted(gone)) : t \in Reg(sock) /\ evicted(gone)[t] = sock[t]
  BY <1>1, EvictedLeaves DEF Reg
<1>. QED  BY <1>2 DEF SInv, Held

\* The challenges of those that leave go with them.
LEMMA ChallengesGo ==
    ASSUME SInv(sock, records, challenges, forgotten), NEW gone
    PROVE  withoutPending(gone) \subseteq challenges /\ \A p \in withoutPending(gone) : p.by \notin gone
BY DEF SInv, Bounded, withoutPending, Place, Ref

LEMMA CloseKeeps ==
    ASSUME SessionInv, NEW s \in Sockets, close(s)
    PROVE  SessionInv'
<1>1. SInv(sock, records, challenges, forgotten)
  BY DEF SessionInv
<1>2. {s} \in SUBSET Reg(sock)
  BY DEF close, Registered, Reg
<1>3. records \in [Names -> Records] /\ Armed(records)
  BY <1>1 DEF SInv
<1>4. SInv(evicted({s}), clearLive(records, {s}), withoutPending({s}), forgotten)
  BY <1>1, <1>2, <1>3, HeldByTheRest, ChallengesGo, LeavingKeeps
<1>5. /\ sock' = evicted({s}) /\ records' = clearLive(records, {s}) /\ challenges' = withoutPending({s})
      /\ forgotten' = forgotten /\ tokens' = tokens
  BY DEF close
<1>. QED  BY <1>4, <1>5 DEF SessionInv

LEMMA HeartbeatKeeps ==
    ASSUME SessionInv, NEW s \in Sockets, heartbeatCloses(s)
    PROVE  SessionInv'
<1>1. SInv(sock, records, challenges, forgotten) /\ tokens \in Nat
  BY DEF SessionInv
<1>2. sock \in [Sockets -> Socks] /\ s \in Reg(sock)
  BY <1>1 DEF SInv, heartbeatCloses, Open, Registered, Reg
<1>3. sock[s] \in LiveSocks
  BY <1>2, RegTyped
<1>4. /\ sock' = [sock EXCEPT ![s].state = "closing"]
      /\ UNCHANGED <<records, challenges, tokens, forgotten>>
  BY DEF heartbeatCloses
<1>5. /\ sock'[s] \in LiveSocks /\ sock'[s].state = "closing"
      /\ sock'[s].name = sock[s].name /\ sock'[s].sub = sock[s].sub
      /\ sock'[s].bound = sock[s].bound /\ sock'[s].confirmed = sock[s].confirmed
      /\ \A t \in Sockets : t # s => sock'[t] = sock[t]
  BY <1>2, <1>3, <1>4 DEF LiveSocks
<1>6. sock' \in [Sockets -> Socks]
  BY <1>2, <1>4, <1>5 DEF Socks
<1>7. Reg(sock') = Reg(sock)
  BY <1>2, <1>5 DEF Reg
<1>8. \A t \in Reg(sock) : /\ Place(sock', t) = Place(sock, t)
                           /\ sock'[t].name = sock[t].name /\ sock'[t].bound = sock[t].bound
                           /\ sock'[t].confirmed = sock[t].confirmed
                           /\ sock'[t].state = "open" => sock[t].state = "open"
  BY <1>5 DEF Reg, Place
<1>9. Apart(sock') /\ LivesTrue(sock', records) /\ Bounded(sock', challenges)
  BY <1>1, <1>7, <1>8 DEF SInv, Apart, LivesTrue, Bounded
<1>10. Held(sock', records) /\ Kept(sock', records, forgotten)
  BY <1>1, <1>7, <1>8 DEF SInv, Held, Kept
<1>. QED  BY <1>1, <1>4, <1>6, <1>9, <1>10 DEF SessionInv, SInv

\* A challenge is its socket's only one: places are taken once.
LEMMA OneChallenge ==
    ASSUME SInv(sock, records, challenges, forgotten),
           NEW p \in challenges, NEW q \in challenges, Place(sock, q.by) = <<p.name, p.sub>>
    PROVE  q = p
<1>1. p \in Challenges /\ q \in Challenges
  BY DEF SInv
<1>2. /\ p.by \in Reg(sock) /\ Place(sock, p.by) = <<p.name, p.sub>>
      /\ q.by \in Reg(sock) /\ Place(sock, q.by) = <<q.name, q.sub>>
  BY DEF SInv, Bounded
<1>3. p.by = q.by
  BY <1>2 DEF SInv, Apart
<1>4. p.name = q.name /\ p.sub = q.sub
  BY <1>2
<1>. QED  BY <1>1, <1>3, <1>4 DEF Challenges

LEMMA ExpireKeeps ==
    ASSUME SessionInv, NEW p \in challenges, expirePending(p)
    PROVE  SessionInv'
<1>. DEFINE gone == {s \in At(p.name, p.sub) : ~sock[s].confirmed}
<1>1. SInv(sock, records, challenges, forgotten)
  BY DEF SessionInv
<1>2. gone \in SUBSET Reg(sock)
  BY DEF At, Registered, Reg
<1>3. records \in [Names -> Records] /\ Armed(records)
  BY <1>1 DEF SInv
<1>4. \A q \in challenges \ {p} : q.by \notin gone
  <2>1. \A s \in gone : Place(sock, s) = <<p.name, p.sub>>
    BY DEF At, Place
  <2>. QED  BY <1>1, <2>1, OneChallenge
<1>5. /\ sock' = evicted(gone) /\ records' = clearLive(records, gone) /\ challenges' = challenges \ {p}
      /\ forgotten' = forgotten /\ tokens' = tokens
  BY DEF expirePending
<1>. HIDE DEF gone
<1>6. SInv(evicted(gone), clearLive(records, gone), challenges \ {p}, forgotten)
  BY <1>1, <1>2, <1>3, <1>4, HeldByTheRest, LeavingKeeps
<1>. QED  BY <1>5, <1>6 DEF SessionInv

\* The answer of a handshake: nobody, a lead, or one that is turned away.
LEMMA ResolveKeeps ==
    ASSUME SessionInv, NEW p \in challenges, NEW tok, resolveHandshake(p, tok)
    PROVE  SessionInv'
<1>1. SInv(sock, records, challenges, forgotten) /\ tokens \in Nat
  BY DEF SessionInv
<1>2. forgotten' = forgotten /\ tokens' = tokens
  BY DEF resolveHandshake
<1>3. sock \in [Sockets -> Socks] /\ records \in [Names -> Records] /\ Armed(records) /\ p \in Challenges
  BY <1>1 DEF SInv
<1>4. CASE challenges' = challenges \ {p} /\ UNCHANGED <<sock, records>>
  BY <1>1, <1>2, <1>4 DEF SessionInv, SInv, Bounded
<1>5. ASSUME NEW s \in At(p.name, p.sub) \cap Open,
             records' \in established(records, s, p.name, Ref(s), sock[s].transcript),
             sock' = [sock EXCEPT ![s].confirmed = TRUE],
             challenges' = challenges \ {p}
      PROVE  SessionInv'
  <2>1. s \in Reg(sock) /\ s \in Sockets
    BY <1>5 DEF At, Registered, Reg
  <2>2. sock[s] \in LiveSocks /\ sock[s].name = p.name /\ sock[s].sub = p.sub
    BY <1>3, <1>5, <2>1, RegTyped DEF At
  <2>3. Ref(s) = Place(sock, s) /\ Ref(s) = <<p.name, p.sub>> /\ Ref(s) \in Names \X SubIds /\ p.name \in Names
        /\ sock[s].transcript \in Transcripts \cup {None}
    BY <2>2 DEF Ref, Place, LiveSocks
  <2>4. \A o \in Reg(sock) \ {s} : sock[o].state = "open" /\ sock[o].confirmed =>
                                   o \in Open /\ sock[o].name = sock[o].name /\ sock[o].confirmed
    BY DEF Open, Registered, Reg
  <2>5. /\ records' \in [Names -> Records]
        /\ \A n \in Names : Settles(records, records', sock, s, p.name, Ref(s), n)
        /\ p.name \notin ClashNames => records'[p.name].exists
    <3>. DEFINE r == records'
                ref == Ref(s)
                tr == sock[s].transcript
    <3>1. /\ r \in established(records, s, p.name, ref, tr)
          /\ ref \in Names \X SubIds /\ tr \in Transcripts \cup {None} /\ p.name \in Names
      BY <1>5, <2>3
    <3>. HIDE DEF r, ref, tr
    <3>2. /\ r \in [Names -> Records]
          /\ \A n \in Names : Settles(records, r, sock, s, p.name, ref, n)
          /\ p.name \notin ClashNames => r[p.name].exists
      BY <3>1, <1>3, <2>1, <2>4, EstablishedSettles
    <3>. QED  BY <3>2 DEF r, ref
  <2>6. challenges \ {p} \in SUBSET challenges /\ \A q \in challenges \ {p} : q.by # s
    BY <1>1, <2>3, OneChallenge
  <2>7. SInv([sock EXCEPT ![s].confirmed = TRUE], records', challenges \ {p}, forgotten)
    <3>. DEFINE r == records'
                left == challenges \ {p}
    <3>1. /\ r \in [Names -> Records]
          /\ \A n \in Names : Settles(records, r, sock, s, sock[s].name, Place(sock, s), n)
          /\ sock[s].name \notin ClashNames => r[sock[s].name].exists
      BY <2>2, <2>3, <2>5
    <3>2. left \in SUBSET challenges /\ \A q \in left : q.by # s
      BY <2>6
    <3>. HIDE DEF r, left
    <3>3. SInv([sock EXCEPT ![s].confirmed = TRUE], r, left, forgotten)
      BY <1>1, <2>1, <3>1, <3>2, ConfirmingKeeps
    <3>. QED  BY <3>3 DEF r, left
  <2>. QED  BY <1>1, <1>2, <1>5, <2>7 DEF SessionInv
<1>6. ASSUME NEW s \in At(p.name, p.sub) \cap Open,
             sock' = evicted({s}), records' = clearLive(records, {s}),
             challenges' = withoutPending({s}) \ {p}
      PROVE  SessionInv'
  <2>1. {s} \in SUBSET Reg(sock)
    BY DEF At, Registered, Reg
  <2>2. withoutPending({s}) \ {p} \in SUBSET challenges /\ \A q \in withoutPending({s}) \ {p} : q.by \notin {s}
    BY <1>1, ChallengesGo
  <2>3. SInv(evicted({s}), clearLive(records, {s}), withoutPending({s}) \ {p}, forgotten)
    BY <1>1, <1>3, <2>1, <2>2, HeldByTheRest, LeavingKeeps
  <2>. QED  BY <1>1, <1>2, <1>6, <2>3 DEF SessionInv
<1>. QED  BY <1>4, <1>5, <1>6 DEF resolveHandshake

\* A registration first arms the binding whose token it presents, and displaces
\* whoever stands at its place or claimed the name before (sessionAuthority.ts).
armedFor(name, tok) ==
    [records EXCEPT ![name] = IF holdsToken(name, tok) THEN [@ EXCEPT !.active = TRUE] ELSE @]

LEMMA DisplacingKeeps ==
    ASSUME SInv(sock, records, challenges, forgotten), NEW name \in Names, NEW sub, NEW tok \in Nat, NEW conv,
           NEW s \in Sockets, satisfies(toClaim(name), tok)
    PROVE  LET gone == displaced(s, name, sub, tok, conv)
               recs == clearLive(armedFor(name, tok), gone)
           IN /\ SInv(evicted(gone), recs, withoutPending(gone), forgotten)
              /\ recs \in [Names -> Records]
              /\ \A n \in Names : recs[n].exists = records[n].exists
              /\ \A t \in Reg(evicted(gone)) : /\ t \in Reg(sock) /\ evicted(gone)[t] = sock[t]
                                               /\ Place(evicted(gone), t) # <<name, sub>>
              /\ recs[name].exists /\ recs[name].active /\ ~recs[name].moved =>
                    (IF holdsToken(name, tok) THEN tok ELSE None) = recs[name].token
<1>. DEFINE gone == displaced(s, name, sub, tok, conv)
            rc == armedFor(name, tok)
            recs == clearLive(rc, gone)
<1>1. sock \in [Sockets -> Socks] /\ records \in [Names -> Records] /\ Armed(records)
  BY DEF SInv
<1>2. gone \in SUBSET Reg(sock) /\ At(name, sub) \subseteq gone
  BY DEF displaced, At, Open, Registered, Reg
<1>3. \A t \in Reg(sock) : /\ t \notin gone /\ sock[t].name = name
                           /\ holdsToken(name, tok) /\ ~records[name].active
                           => sock[t].bound = tok
  BY DEF displaced, Registered, Reg
<1>4. /\ rc \in [Names -> Records]
      /\ \A n \in Names : n # name \/ ~holdsToken(name, tok) => rc[n] = records[n]
      /\ holdsToken(name, tok) => /\ rc[name].exists = records[name].exists /\ rc[name].active /\ rc[name].token = records[name].token
                                  /\ rc[name].moved = records[name].moved /\ rc[name].live = records[name].live
  <2>1. CASE holdsToken(name, tok)
    <3>1. records[name] \in SomeRecords
      BY <1>1, <2>1 DEF holdsToken, Records, NoRecord
    <3>. DEFINE new == [records[name] EXCEPT !.active = TRUE]
    <3>2. /\ new \in SomeRecords /\ new.exists = records[name].exists /\ new.active = TRUE /\ new.token = records[name].token
          /\ new.moved = records[name].moved /\ new.live = records[name].live
      BY <3>1 DEF SomeRecords
    <3>3. rc = [records EXCEPT ![name] = new]
      BY <2>1 DEF armedFor
    <3>. HIDE DEF new, rc
    <3>4. new \in Records
      BY <3>2 DEF Records
    <3>. QED  BY <2>1, <3>2, <3>3, <3>4, <1>1
  <2>2. CASE ~holdsToken(name, tok)
    <3>1. rc = records
      BY <1>1, <2>2 DEF armedFor
    <3>. QED  BY <2>2, <3>1, <1>1
  <2>. QED  BY <2>1, <2>2
<1>5. holdsToken(name, tok) => records[name].exists /\ records[name].token = tok /\ tok # None
  BY DEF holdsToken
<1>6. \A t \in Reg(evicted(gone)) : t \in Reg(sock) /\ t \notin gone /\ evicted(gone)[t] = sock[t]
  <2>. HIDE DEF gone
  <2>. QED  BY <1>1, EvictedLeaves DEF Reg
<1>7. Armed(rc)
  BY <1>1, <1>4, <1>5 DEF Armed
<1>8. \A n \in Names : /\ rc[n].exists = records[n].exists
                       /\ rc[n].exists => rc[n].live = records[n].live
  BY <1>4, <1>5
<1>. HIDE DEF rc
<1>9. Held(evicted(gone), rc)
  <2>. DEFINE sk == evicted(gone)
  <2>1. \A t \in Reg(sk) : t \in Reg(sock) /\ t \notin gone /\ sk[t] = sock[t]
    BY <1>6
  <2>2. \A t \in Reg(sock) : sock[t].name \in Names
    BY <1>1, RegTyped DEF LiveSocks
  <2>. HIDE DEF sk, gone
  <2>3. SUFFICES ASSUME NEW t \in Reg(sk), NEW n \in Names, n = sock[t].name,
                        rc[n].exists, rc[n].active, ~rc[n].moved
                 PROVE  sock[t].bound = rc[n].token
    BY <2>1, <2>2 DEF Held, sk
  <2>4. t \in Reg(sock) /\ t \notin gone
    BY <2>1
  <2>5. CASE n # name \/ ~holdsToken(name, tok)
    BY <2>3, <2>4, <2>5, <1>4 DEF SInv, Held
  <2>6. CASE n = name /\ holdsToken(name, tok) /\ records[name].active
    BY <2>3, <2>4, <2>6, <1>4, <1>5 DEF SInv, Held
  <2>7. CASE n = name /\ holdsToken(name, tok) /\ ~records[name].active
    BY <2>3, <2>4, <2>7, <1>3, <1>4, <1>5 DEF gone
  <2>. QED  BY <2>5, <2>6, <2>7
<1>10. SInv(evicted(gone), recs, withoutPending(gone), forgotten)
  <2>. HIDE DEF gone
  <2>1. withoutPending(gone) \in SUBSET challenges /\ \A p \in withoutPending(gone) : p.by \notin gone
    BY ChallengesGo
  <2>. QED  BY <1>2, <1>4, <1>7, <1>8, <1>9, <2>1, LeavingKeeps
<1>11. /\ recs \in [Names -> Records]
       /\ \A n \in Names : /\ recs[n].exists = rc[n].exists
                           /\ rc[n].exists => /\ recs[n].token = rc[n].token /\ recs[n].active = rc[n].active
                                              /\ recs[n].moved = rc[n].moved
  <2>. HIDE DEF gone
  <2>. QED  BY <1>4, ClearedLives
<1>12. \A t \in Reg(evicted(gone)) : Place(evicted(gone), t) # <<name, sub>>
  <2>. HIDE DEF gone
  <2>1. SUFFICES ASSUME NEW t \in Reg(evicted(gone)), sock[t].name = name, sock[t].sub = sub  PROVE FALSE
    BY <1>6 DEF Place
  <2>. QED  BY <2>1, <1>2, <1>6 DEF At, Registered, Reg
<1>13. recs[name].exists /\ recs[name].active /\ ~recs[name].moved =>
          (IF holdsToken(name, tok) THEN tok ELSE None) = recs[name].token
  <2>1. CASE holdsToken(name, tok)
    BY <2>1, <1>4, <1>5, <1>11
  <2>2. CASE ~holdsToken(name, tok)
    <3>1. recs[name].exists /\ recs[name].active => records[name].exists /\ records[name].active
                                                     /\ recs[name].token = records[name].token
      BY <2>2, <1>4, <1>11
    <3>2. records[name].exists /\ records[name].active => FALSE
      <4>1. SUFFICES ASSUME records[name].exists, records[name].active  PROVE FALSE
        OBVIOUS
      <4>2. toClaim(name) = records[name].token /\ records[name].token # None
        BY <4>1, <1>1 DEF toClaim, Armed
      <4>. QED  BY <4>1, <4>2, <2>2 DEF satisfies, holdsToken
    <3>. QED  BY <3>1, <3>2
  <2>. QED  BY <2>1, <2>2
<1>14. \A n \in Names : recs[n].exists = records[n].exists
  BY <1>8, <1>11
<1>. HIDE DEF gone, recs
<1>15. /\ SInv(evicted(gone), recs, withoutPending(gone), forgotten)
       /\ recs \in [Names -> Records]
       /\ \A n \in Names : recs[n].exists = records[n].exists
       /\ \A t \in Reg(evicted(gone)) : /\ t \in Reg(sock) /\ evicted(gone)[t] = sock[t]
                                        /\ Place(evicted(gone), t) # <<name, sub>>
       /\ recs[name].exists /\ recs[name].active /\ ~recs[name].moved =>
             (IF holdsToken(name, tok) THEN tok ELSE None) = recs[name].token
  BY <1>6, <1>10, <1>11, <1>12, <1>13, <1>14
<1>. QED  BY <1>15 DEF gone, recs, rc

LEMMA RegisterKeeps ==
    ASSUME SessionInv, NEW s \in Sockets, NEW name \in Names, NEW sub \in SubIds, NEW tok \in Nat,
           NEW conv \in Conversations \cup {None}, NEW tr \in Transcripts \cup {None},
           register(s, name, sub, tok, conv, tr)
    PROVE  SessionInv'
<1>. DEFINE gone == displaced(s, name, sub, tok, conv)
            bound == IF holdsToken(name, tok) THEN tok ELSE None
            recs == clearLive(armedFor(name, tok), gone)
            sk == evicted(gone)
            ch == withoutPending(gone)
            new(c) == [state |-> "open", name |-> name, sub |-> sub, conv |-> claimed(name, conv),
                       bound |-> bound, transcript |-> tr, confirmed |-> c]
<1>1. SInv(sock, records, challenges, forgotten) /\ tokens \in Nat
  BY DEF SessionInv
<1>2. /\ forgotten' = forgotten /\ tokens' = tokens
      /\ sock[s].state = "new" /\ satisfies(toClaim(name), tok)
  BY DEF register
<1>3. /\ SInv(sk, recs, ch, forgotten)
      /\ recs \in [Names -> Records]
      /\ \A n \in Names : recs[n].exists = records[n].exists
      /\ \A t \in Reg(sk) : t \in Reg(sock) /\ sk[t] = sock[t] /\ Place(sk, t) # <<name, sub>>
      /\ recs[name].exists /\ recs[name].active /\ ~recs[name].moved => bound = recs[name].token
  BY <1>1, <1>2, DisplacingKeeps
<1>4. s \notin Reg(sk)
  BY <1>2, <1>3 DEF Reg
<1>5. new(FALSE) \in LiveSocks /\ new(TRUE) \in LiveSocks
  BY DEF LiveSocks, claimed, None
<1>6. \/ /\ sock' = [sk EXCEPT ![s] = new(FALSE)]
         /\ records' = recs
         /\ challenges' = ch \cup {[by |-> s, name |-> name, sub |-> sub]}
      \/ /\ sock' = [sk EXCEPT ![s] = new(TRUE)]
         /\ records' \in established(recs, s, name, <<name, sub>>, tr)
         /\ challenges' = ch
      \/ /\ sock' = [sk EXCEPT ![s] = Gone]
         /\ records' = recs
         /\ challenges' = ch
  <2>1. clearLive([records EXCEPT ![name] = IF bound # None THEN [@ EXCEPT !.active = TRUE] ELSE @], gone) = recs
    BY DEF armedFor, holdsToken
  <2>. HIDE DEF recs
  <2>. QED  BY <2>1 DEF register, Gone
<1>. DEFINE fresh1 == new(FALSE)
<1>7. /\ fresh1 \in LiveSocks /\ fresh1.state = "open" /\ ~fresh1.confirmed
      /\ fresh1.name = name /\ fresh1.sub = sub /\ fresh1.bound = bound
  BY <1>5
<1>8. \A t \in Reg(sk) : Place(sk, t) # <<fresh1.name, fresh1.sub>>
  BY <1>3, <1>7
<1>9. LET rec == recs[fresh1.name] IN rec.exists /\ rec.active /\ ~rec.moved => fresh1.bound = rec.token
  BY <1>3, <1>7
<1>10. CASE /\ sock' = [sk EXCEPT ![s] = new(FALSE)]
            /\ records' = recs
            /\ challenges' = ch \cup {[by |-> s, name |-> name, sub |-> sub]}
  <2>1. {[by |-> s, name |-> name, sub |-> sub]} \in SUBSET {[by |-> s, name |-> fresh1.name, sub |-> fresh1.sub]}
    BY <1>7
  <2>2. sock' = [sk EXCEPT ![s] = fresh1]
    BY <1>10
  <2>. HIDE DEF fresh1, sk, recs, ch
  <2>3. SInv([sk EXCEPT ![s] = fresh1], recs, ch \cup {[by |-> s, name |-> name, sub |-> sub]}, forgotten)
    BY <1>3, <1>4, <1>7, <1>8, <1>9, <2>1, JoiningKeeps
  <2>. QED  BY <1>1, <1>2, <1>10, <2>2, <2>3 DEF SessionInv
<1>11. CASE /\ sock' = [sk EXCEPT ![s] = new(TRUE)]
            /\ records' \in established(recs, s, name, <<name, sub>>, tr)
            /\ challenges' = ch
  <2>. DEFINE mid == [sk EXCEPT ![s] = fresh1]
              r == records'
              ref == <<name, sub>>
  <2>1. sk \in [Sockets -> Socks]
    BY <1>3 DEF SInv
  <2>2. new(TRUE) = [fresh1 EXCEPT !.confirmed = TRUE]
    <3>. DEFINE a == new(TRUE)
                b == [fresh1 EXCEPT !.confirmed = TRUE]
    <3>1. /\ a.state = "open" /\ a.name = name /\ a.sub = sub /\ a.conv = claimed(name, conv)
          /\ a.bound = bound /\ a.transcript = tr /\ a.confirmed = TRUE
      OBVIOUS
    <3>2. /\ fresh1.state = "open" /\ fresh1.name = name /\ fresh1.sub = sub /\ fresh1.conv = claimed(name, conv)
          /\ fresh1.bound = bound /\ fresh1.transcript = tr
      OBVIOUS
    <3>3. a \in LiveSocks
      BY <1>5
    <3>. HIDE DEF fresh1, a
    <3>4. b \in LiveSocks /\ b.confirmed = TRUE
      BY <1>7 DEF LiveSocks
    <3>5. /\ b.state = fresh1.state /\ b.name = fresh1.name /\ b.sub = fresh1.sub /\ b.conv = fresh1.conv
          /\ b.bound = fresh1.bound /\ b.transcript = fresh1.transcript
      BY <1>7 DEF LiveSocks
    <3>. HIDE DEF b
    <3>6. a = b
      BY <3>1, <3>2, <3>3, <3>4, <3>5 DEF LiveSocks
    <3>. QED  BY <3>6 DEF a, b
  <2>3. r \in established(recs, s, name, ref, tr) /\ ref \in Names \X SubIds
    BY <1>11
  <2>4. sock' = [sk EXCEPT ![s] = [fresh1 EXCEPT !.confirmed = TRUE]]
    BY <1>11, <2>2
  <2>. HIDE DEF fresh1, sk, recs, ch, r, ref
  <2>5. /\ mid[s] = fresh1
        /\ [mid EXCEPT ![s].confirmed = TRUE] = [sk EXCEPT ![s] = [fresh1 EXCEPT !.confirmed = TRUE]]
        /\ \A t \in Sockets : t # s => mid[t] = sk[t]
    BY <2>1
  <2>6. SInv(mid, recs, ch, forgotten)
    <3>1. {} \in SUBSET {[by |-> s, name |-> fresh1.name, sub |-> fresh1.sub]} /\ ch \cup {} = ch
      OBVIOUS
    <3>. HIDE DEF mid
    <3>2. SInv([sk EXCEPT ![s] = fresh1], recs, ch \cup {}, forgotten)
      BY <1>3, <1>4, <1>7, <1>8, <1>9, <3>1, JoiningKeeps
    <3>. QED  BY <3>1, <3>2 DEF mid
  <2>. HIDE DEF mid
  <2>7. s \in Reg(mid) /\ mid[s].name = name /\ Place(mid, s) = ref
    BY <2>5, <1>7 DEF Reg, Place, ref
  <2>8. \A o \in Reg(mid) \ {s} : mid[o].state = "open" /\ mid[o].confirmed =>
                                  o \in Open /\ sock[o].name = mid[o].name /\ sock[o].confirmed
    <3>1. \A o \in Reg(mid) \ {s} : o \in Reg(sk) /\ mid[o] = sk[o]
      BY <2>5 DEF Reg
    <3>. QED  BY <3>1, <1>3 DEF Open, Registered, Reg
  <2>9. records \in [Names -> Records] /\ Armed(recs)
    BY <1>1, <1>3 DEF SInv
  <2>10. /\ r \in [Names -> Records]
         /\ \A n \in Names : Settles(recs, r, mid, s, name, ref, n)
         /\ name \notin ClashNames => r[name].exists
    BY <1>3, <2>3, <2>8, <2>9, EstablishedSettles
  <2>11. ch \in SUBSET ch /\ \A p \in ch : p.by # s
    BY <1>3, <1>4 DEF SInv, Bounded
  <2>12. SInv([mid EXCEPT ![s].confirmed = TRUE], r, ch, forgotten)
    BY <2>6, <2>7, <2>10, <2>11, ConfirmingKeeps
  <2>. QED  BY <1>1, <1>2, <1>11, <2>4, <2>5, <2>12 DEF SessionInv, r
<1>12. CASE /\ sock' = [sk EXCEPT ![s] = Gone]
            /\ records' = recs
            /\ challenges' = ch
  <2>1. sk \in [Sockets -> Socks] /\ Gone \in Socks /\ Gone.state = "gone"
    BY <1>3 DEF SInv, Socks, Gone
  <2>. HIDE DEF sk, recs, ch
  <2>. DEFINE after == [sk EXCEPT ![s] = Gone]
  <2>2. after \in [Sockets -> Socks] /\ Reg(after) = Reg(sk) /\ \A t \in Reg(sk) : after[t] = sk[t]
    BY <2>1, <1>4 DEF Reg
  <2>. HIDE DEF after
  <2>3. \A t \in Reg(sk) : Place(after, t) = Place(sk, t)
    BY <2>2 DEF Place
  <2>4. Apart(after) /\ LivesTrue(after, recs) /\ Bounded(after, ch)
    BY <1>3, <2>2, <2>3 DEF SInv, Apart, LivesTrue, Bounded
  <2>5. Held(after, recs) /\ Kept(after, recs, forgotten)
    BY <1>3, <2>2 DEF SInv, Held, Kept
  <2>6. SInv(after, recs, ch, forgotten)
    BY <1>3, <2>2, <2>4, <2>5 DEF SInv
  <2>. QED  BY <1>1, <1>2, <1>12, <2>6 DEF SessionInv, after
<1>. QED  BY <1>6, <1>10, <1>11, <1>12

\* A record goes when nobody confirmed stands for its name, or the owner dropped it.
LEMMA DroppingKeeps ==
    ASSUME SInv(sock, records, challenges, forgotten), NEW name \in Names, NEW fg, forgotten \subseteq fg,
           name \in fg \/ resolveLiveIncarnation(name) = {}
    PROVE  SInv(sock, [records EXCEPT ![name] = NoRecord], challenges, fg)
<1>. DEFINE r == [records EXCEPT ![name] = NoRecord]
<1>1. records \in [Names -> Records] /\ NoRecord \in Records /\ ~NoRecord.exists
  BY DEF SInv, Records, NoRecord
<1>2. /\ r \in [Names -> Records] /\ ~r[name].exists
      /\ \A n \in Names : n # name => r[n] = records[n]
  BY <1>1
<1>3. \A n \in Names : r[n].exists => r[n] = records[n] /\ n # name
  BY <1>2
<1>4. \A s \in Reg(sock) : sock[s].name \in Names
  <2>1. sock \in [Sockets -> Socks]
    BY DEF SInv
  <2>. QED  BY <2>1, RegTyped DEF LiveSocks
<1>. HIDE DEF r
<1>5. LivesTrue(sock, r) /\ Armed(r)
  BY <1>3 DEF SInv, LivesTrue, Armed
<1>6. Held(sock, r)
  BY <1>3, <1>4 DEF SInv, Held
<1>7. Kept(sock, r, fg)
  <2>1. SUFFICES ASSUME NEW s \in Reg(sock), sock[s].state = "open", sock[s].confirmed,
                        sock[s].name \notin fg \cup ClashNames
                 PROVE  r[sock[s].name].exists
    BY DEF Kept
  <2>2. records[sock[s].name].exists
    BY <2>1 DEF SInv, Kept
  <2>3. sock[s].name # name
    <3>1. s \in Open
      BY <2>1 DEF Open, Registered, Reg
    <3>2. s \in resolveLiveIncarnation(sock[s].name)
      BY <2>1, <3>1, <1>4, StandsFor
    <3>. QED  BY <2>1, <3>2
  <2>. QED  BY <2>2, <2>3, <1>2, <1>4
<1>8. SInv(sock, r, challenges, fg)
  BY <1>2, <1>5, <1>6, <1>7 DEF SInv
<1>. QED  BY <1>8 DEF r

\* A record is given a token, minted now and inert, if it has none.
LEMMA TokeningKeeps ==
    ASSUME SessionInv, NEW name \in Names, NEW rec,
           rec = IF records[name].exists THEN records[name] ELSE NewRecord(None)
    PROVE  SInv(sock, [records EXCEPT ![name] = tokened(rec)], challenges, forgotten)
<1>. DEFINE r == [records EXCEPT ![name] = tokened(rec)]
<1>1. records \in [Names -> Records] /\ tokens \in Nat /\ Armed(records)
  BY DEF SessionInv, SInv
<1>2. NewRecord(None) \in SomeRecords /\ NewRecord(None).active = FALSE /\ NewRecord(None).live = <<>>
  BY DEF SomeRecords, NewRecord, None
<1>3. /\ rec \in SomeRecords
      /\ rec # records[name] => ~rec.active /\ rec.live = <<>>
      /\ rec = records[name] => records[name].exists
  <2>1. CASE records[name].exists
    BY <1>1, <2>1 DEF Records, NoRecord
  <2>2. CASE ~records[name].exists
    <3>1. rec = NewRecord(None)
      BY <2>2
    <3>2. rec # records[name]
      BY <2>2, <3>1, <1>2 DEF SomeRecords
    <3>. QED  BY <3>1, <3>2, <1>2
  <2>. QED  BY <2>1, <2>2
<1>4. /\ tokened(rec) \in SomeRecords
      /\ tokened(rec).active = rec.active /\ tokened(rec).live = rec.live /\ tokened(rec).moved = rec.moved
      /\ rec.token # None => tokened(rec).token = rec.token
  <2>1. CASE rec.token = None
    <3>1. tokened(rec) = [rec EXCEPT !.token = tokens + 1]
      BY <2>1 DEF tokened
    <3>2. tokens + 1 \in Nat
      BY <1>1
    <3>. DEFINE new == [rec EXCEPT !.token = tokens + 1]
    <3>3. rec \in SomeRecords
      BY <1>3
    <3>4. new \in SomeRecords
      BY <3>2, <3>3 DEF SomeRecords
    <3>5. new.active = rec.active
      BY <3>3 DEF SomeRecords
    <3>6. new.moved = rec.moved
      BY <3>3 DEF SomeRecords
    <3>7. new.live = rec.live
      BY <3>3 DEF SomeRecords
    <3>8. tokened(rec) = new
      BY <3>1
    <3>. QED  BY <2>1, <3>4, <3>5, <3>6, <3>7, <3>8
  <2>2. CASE rec.token # None
    BY <2>2, <1>3 DEF tokened
  <2>. QED  BY <2>1, <2>2
<1>5. rec.active => rec = records[name] /\ rec.token # None /\ records[name].exists
  BY <1>1, <1>3 DEF Armed
<1>6. /\ r \in [Names -> Records]
      /\ r[name] = tokened(rec) /\ r[name].exists
      /\ \A n \in Names : n # name => r[n] = records[n]
  BY <1>1, <1>4 DEF Records, SomeRecords
<1>7. \A s \in Reg(sock) : sock[s].name \in Names
  <2>1. sock \in [Sockets -> Socks]
    BY DEF SessionInv, SInv
  <2>. QED  BY <2>1, RegTyped DEF LiveSocks
<1>. HIDE DEF r
<1>8. LivesTrue(sock, r)
  <2>1. SUFFICES ASSUME NEW n \in Names, r[n].exists, r[n].live # <<>>
                 PROVE  \E s \in Reg(sock) : Place(sock, s) = r[n].live /\ sock[s].confirmed
    BY DEF LivesTrue
  <2>2. records[n].exists /\ r[n].live = records[n].live
    BY <2>1, <1>3, <1>4, <1>6
  <2>. QED  BY <2>1, <2>2 DEF SessionInv, SInv, LivesTrue
<1>9. Armed(r)
  BY <1>1, <1>4, <1>5, <1>6 DEF Armed
<1>10. Held(sock, r)
  <2>1. SUFFICES ASSUME NEW s \in Reg(sock), NEW n \in Names, n = sock[s].name,
                        r[n].exists, r[n].active, ~r[n].moved
                 PROVE  sock[s].bound = r[n].token
    BY <1>7 DEF Held
  <2>2. /\ records[n].exists /\ records[n].active /\ ~records[n].moved
        /\ r[n].token = records[n].token
    BY <2>1, <1>4, <1>5, <1>6
  <2>. QED  BY <2>1, <2>2 DEF SessionInv, SInv, Held
<1>11. Kept(sock, r, forgotten)
  BY <1>6, <1>7 DEF SessionInv, SInv, Kept
<1>12. SInv(sock, r, challenges, forgotten)
  BY <1>6, <1>8, <1>9, <1>10, <1>11 DEF SessionInv, SInv
<1>. QED  BY <1>12 DEF r

LEMMA WakeKeeps ==
    ASSUME SessionInv, NEW name \in Names, tryWakeTeam(name) \/ createSession(name)
    PROVE  SessionInv'
<1>. DEFINE rec == IF records[name].exists THEN records[name] ELSE NewRecord(None)
<1>1. /\ records' = [records EXCEPT ![name] = tokened(rec)]
      /\ tokens' \in {tokens, tokens + 1}
      /\ UNCHANGED <<sock, challenges, forgotten>>
  BY DEF tryWakeTeam, createSession
<1>2. tokens \in Nat
  BY DEF SessionInv
<1>3. rec = IF records[name].exists THEN records[name] ELSE NewRecord(None)
  OBVIOUS
<1>. HIDE DEF rec
<1>4. SInv(sock, [records EXCEPT ![name] = tokened(rec)], challenges, forgotten)
  BY <1>3, TokeningKeeps
<1>. QED  BY <1>1, <1>2, <1>4 DEF SessionInv

LEMMA WakeFailsKeeps ==
    ASSUME SessionInv, NEW name \in Names, wakeFails(name) \/ forget(name) \/ sweep(name)
    PROVE  SessionInv'
<1>1. SInv(sock, records, challenges, forgotten) /\ tokens \in Nat
  BY DEF SessionInv
<1>2. UNCHANGED <<sock, challenges, tokens>>
  BY DEF wakeFails, forget, sweep
<1>3. CASE records' = records /\ forgotten' = forgotten
  BY <1>1, <1>2, <1>3 DEF SessionInv
<1>4. CASE /\ records' = [records EXCEPT ![name] = NoRecord]
           /\ forgotten \subseteq forgotten'
           /\ name \in forgotten' \/ resolveLiveIncarnation(name) = {}
  <2>. DEFINE fg == forgotten'
  <2>1. forgotten \subseteq fg /\ (name \in fg \/ resolveLiveIncarnation(name) = {})
    BY <1>4
  <2>. HIDE DEF fg
  <2>2. SInv(sock, [records EXCEPT ![name] = NoRecord], challenges, fg)
    BY <1>1, <2>1, DroppingKeeps
  <2>. QED  BY <1>1, <1>2, <1>4, <2>2 DEF SessionInv, fg
<1>5. CASE wakeFails(name)
  BY <1>3, <1>4, <1>5 DEF wakeFails
<1>6. CASE forget(name)
  BY <1>4, <1>6 DEF forget
<1>7. CASE sweep(name)
  BY <1>4, <1>7 DEF sweep
<1>. QED  BY <1>5, <1>6, <1>7

\* A restart leaves no sockets, and of the records what was saved.
LEMMA RestoreKeeps == SessionInv /\ restore => SessionInv'
<1>. SUFFICES ASSUME SessionInv, restore  PROVE SessionInv'
  OBVIOUS
<1>1. sock \in [Sockets -> Socks] /\ records \in [Names -> Records] /\ Armed(records) /\ tokens \in Nat
  BY DEF SessionInv, SInv
<1>2. /\ sock' = evicted(Registered) /\ challenges' = {}
      /\ UNCHANGED <<tokens, forgotten>>
  BY DEF restore
<1>3. Registered = Reg(sock)
  BY DEF Registered, Reg
<1>4. sock' \in [Sockets -> Socks] /\ Reg(sock') = {}
  BY <1>1, <1>2, <1>3, EvictedLeaves
<1>5. PICK saved \in SUBSET Recorded :
         \E armed \in SUBSET {n \in saved : records[n].active} :
            records' = [n \in Names |-> IF n \in saved
                                        THEN [records[n] EXCEPT !.live = <<>>, !.active = n \in armed]
                                        ELSE NoRecord]
  BY DEF restore
<1>6. PICK armed \in SUBSET {n \in saved : records[n].active} :
         records' = [n \in Names |-> IF n \in saved
                                     THEN [records[n] EXCEPT !.live = <<>>, !.active = n \in armed]
                                     ELSE NoRecord]
  BY <1>5
<1>7. ASSUME NEW n \in Names
      PROVE  /\ records'[n] \in Records
             /\ records'[n].exists => /\ records'[n].live = <<>>
                                      /\ records'[n].active => records'[n].token # None
  <2>1. CASE n \in saved
    <3>. DEFINE kept == n \in armed
    <3>1. records[n] \in SomeRecords /\ (records[n].active => records[n].token # None)
      BY <1>1, <2>1 DEF Recorded, Records, NoRecord, Armed
    <3>2. records'[n] = [records[n] EXCEPT !.live = <<>>, !.active = kept]
      BY <1>6, <2>1
    <3>3. kept \in BOOLEAN /\ (kept => records[n].token # None)
      <4>1. kept \in BOOLEAN
        OBVIOUS
      <4>2. kept => records[n].active
        BY Zenon
      <4>. QED  BY <3>1, <4>1, <4>2
    <3>. HIDE DEF kept
    <3>4. /\ records'[n] \in SomeRecords /\ records'[n].live = <<>> /\ records'[n].active = kept
          /\ records'[n].token = records[n].token
      BY <3>1, <3>2, <3>3 DEF SomeRecords
    <3>. QED  BY <3>3, <3>4 DEF Records
  <2>2. CASE n \notin saved
    BY <1>6, <2>2 DEF Records, NoRecord
  <2>. QED  BY <2>1, <2>2
<1>8. records' \in [Names -> Records]
  <2>1. records' = [n \in Names |-> records'[n]]
    BY <1>6
  <2>. QED  BY <2>1, <1>7
<1>9. SInv(sock', records', {}, forgotten)
  BY <1>4, <1>7, <1>8 DEF SInv, Apart, LivesTrue, Bounded, Held, Armed, Kept
<1>. QED  BY <1>1, <1>2, <1>9 DEF SessionInv

LEMMA SessionInvNext == SessionInv /\ [SessionNext]_sessionVars => SessionInv'
<1>. SUFFICES ASSUME SessionInv, [SessionNext]_sessionVars  PROVE SessionInv'
  OBVIOUS
<1>1. Presentable \subseteq Nat
  BY DEF Presentable
<1>2. ASSUME NEW s \in Sockets, NEW name \in Names, NEW tok \in Presentable, registerRejected(s, name, tok)
      PROVE  SessionInv'
  <2>1. SInv(sock, records, challenges, forgotten) /\ tokens \in Nat
    BY DEF SessionInv
  <2>2. /\ sock' = [sock EXCEPT ![s] = Gone] /\ sock[s].state = "new"
        /\ UNCHANGED <<records, challenges, tokens, forgotten>>
    BY <1>2 DEF registerRejected, Gone
  <2>3. sock \in [Sockets -> Socks] /\ Gone \in Socks /\ Gone.state = "gone"
    BY <2>1 DEF SInv, Socks, Gone
  <2>4. sock' \in [Sockets -> Socks] /\ Reg(sock') = Reg(sock) /\ \A t \in Reg(sock) : sock'[t] = sock[t]
    BY <2>2, <2>3 DEF Reg
  <2>5. \A t \in Reg(sock) : Place(sock', t) = Place(sock, t)
    BY <2>4 DEF Place
  <2>6. Apart(sock') /\ LivesTrue(sock', records) /\ Bounded(sock', challenges)
    BY <2>1, <2>4, <2>5 DEF SInv, Apart, LivesTrue, Bounded
  <2>7. Held(sock', records) /\ Kept(sock', records, forgotten)
    BY <2>1, <2>4 DEF SInv, Held, Kept
  <2>. QED  BY <2>1, <2>2, <2>4, <2>6, <2>7 DEF SessionInv, SInv
<1>3. ASSUME NEW s \in Sockets, NEW name \in Names, NEW tok \in Presentable,
             NEW sub \in SubIds, NEW conv \in Conversations \cup {None}, NEW tr \in Transcripts \cup {None},
             register(s, name, sub, tok, conv, tr)
      PROVE  SessionInv'
  BY <1>1, <1>3, RegisterKeeps
<1>4. ASSUME NEW s \in Sockets, close(s)  PROVE SessionInv'
  BY <1>4, CloseKeeps
<1>5. ASSUME NEW s \in Sockets, heartbeatCloses(s)  PROVE SessionInv'
  BY <1>5, HeartbeatKeeps
<1>6. ASSUME NEW p \in challenges, expirePending(p)  PROVE SessionInv'
  BY <1>6, ExpireKeeps
<1>7. ASSUME NEW p \in challenges, NEW tok \in Presentable, resolveHandshake(p, tok)  PROVE SessionInv'
  BY <1>7, ResolveKeeps
<1>8. ASSUME NEW name \in Names, tryWakeTeam(name) \/ createSession(name)  PROVE SessionInv'
  BY <1>8, WakeKeeps
<1>9. ASSUME NEW name \in Names, wakeFails(name) \/ forget(name) \/ sweep(name)  PROVE SessionInv'
  BY <1>9, WakeFailsKeeps
<1>10. CASE restore
  BY <1>10, RestoreKeeps
<1>11. CASE UNCHANGED sessionVars
  BY <1>11 DEF sessionVars, SessionInv
<1>. QED  BY <1>2, <1>3, <1>4, <1>5, <1>6, <1>7, <1>8, <1>9, <1>10, <1>11 DEF SessionNext, Connecting

\* Sockets, challenges and records agree, for any number of connections, names and
\* tokens, in whatever order connections are made, replaced and closed and records
\* woken, taken, dropped and restored (sessionAuthority.ts, handshakeGate.ts,
\* session-store.ts).
THEOREM SessionsAgree == SessionSpec => []SessionsBound
<1>1. SessionSpec => []SessionInv
  BY SInvInit, SessionInvNext, PTL DEF SessionSpec
<1>. QED  BY <1>1, SInvSuffices, PTL

-----------------------------------------------------------------------------
(* The Router follows the records of the gateway *)

Upserting == [op : {"upsert"}, id : SessionIds, rec : Nat \ {0}, answer : {"out", "ok", "failed"}]
Forgetting == [op : {"forget"}, id : SessionIds, rec : Nat, answer : {"out", "ok", "failed"}]
RegistryCalls == Upserting \cup Forgetting

RegistryTypes ==
    /\ sessionRecord \in [SessionIds -> Nat] /\ known \subseteq SessionIds
    /\ pendingUpserts \in [SessionIds -> Nat] /\ pendingTombstones \subseteq SessionIds
    /\ retryTimer \in BOOLEAN /\ joined \in BOOLEAN /\ moved \in BOOLEAN
    /\ line \in Seq(RegistryCalls) /\ sessions \subseteq SessionIds /\ lost \subseteq SessionIds
    /\ made \in Nat /\ refused \subseteq SessionIds
    /\ strays \subseteq [op : {"upsert", "forget"}, id : SessionIds]

\* The calls that were answered come first.
AnsweredFirst(q) == \A k, h \in DOMAIN q : k < h /\ q[k].answer = "out" => q[h].answer = "out"

NoneAbout(q, i) == \A k \in DOMAIN q : q[k].id # i
LastAbout(q, k) == \A h \in DOMAIN q : h > k => q[h].id # q[k].id
ForgottenLater(q, k) == \E h \in DOMAIN q : h > k /\ q[h].op = "forget" /\ q[h].id = q[k].id

\* Who the Router knows, or would but for a change its store refused; and who it
\* knows for no such reason.
Shown == sessions \cup refused
KnownStill == sessions \ refused

\* Who may be known to the Router has not dropped out of the reporter's sight.
InSight == LiveIds \cup known \cup pendingTombstones \cup lost

\* What the calls out say of the ids they are about.
LineTells ==
    \A k \in DOMAIN line :
        LET c == line[k] IN
        /\ c.op = "upsert" => c.id \in InSight
        /\ c.op = "upsert" /\ ~ForgottenLater(line, k) => c.id \in known \cup lost
        /\ LastAbout(line, k) =>
             /\ c.op = "upsert" /\ c.answer = "ok" => c.id \in Shown
             /\ c.op = "forget" => c.id \in pendingTombstones \cup lost
             /\ c.op = "forget" /\ c.answer = "ok" => c.id \notin KnownStill

\* After a registration the reporter knows the records, and says the right thing
\* last; what nothing is out about is right at the Router or waits for the timer.
LineFollows ==
    joined /\ ~moved =>
        /\ known = LiveIds /\ pendingTombstones \cap LiveIds = {}
        /\ \A k \in DOMAIN line : line[k].id \in LiveIds /\ LastAbout(line, k) => line[k].op = "upsert"
        /\ \A i \in SessionIds : NoneAbout(line, i) =>
             /\ i \in LiveIds => i \in Shown \/ (retryTimer /\ pendingUpserts[i] # 0)
             /\ i \in KnownStill => i \in LiveIds \cup lost \/ (retryTimer /\ i \in pendingTombstones)

RegistryInv ==
    /\ RegistryTypes
    /\ AnsweredFirst(line)
    /\ ~joined => line = <<>>
    /\ \A i \in SessionIds : pendingUpserts[i] # 0 => i \in known \cup lost
    /\ KnownStill \subseteq InSight
    /\ LineTells
    /\ LineFollows

LEMMA CallTypes ==
    ASSUME NEW c \in RegistryCalls
    PROVE  /\ c.id \in SessionIds /\ c.op \in {"upsert", "forget"} /\ c.rec \in Nat
           /\ c.answer \in {"out", "ok", "failed"}
           /\ c.op = "upsert" => c.rec # 0
  BY DEF RegistryCalls, Upserting, Forgetting

\* What z says when it is q with s after it.
Continued(q, s, z) ==
    /\ z \in Seq(RegistryCalls)
    /\ AnsweredFirst(q) /\ (\A k \in DOMAIN s : s[k].answer = "out") => AnsweredFirst(z)
    /\ \A k \in DOMAIN z :
         \/ /\ k \in DOMAIN q /\ z[k] = q[k]
            /\ LastAbout(z, k) => LastAbout(q, k) /\ NoneAbout(s, q[k].id)
            /\ ~ForgottenLater(z, k) => ~ForgottenLater(q, k)
            /\ ~ForgottenLater(z, k) => \A h \in DOMAIN s : ~(s[h].op = "forget" /\ s[h].id = q[k].id)
         \/ \E h \in DOMAIN s : z[k] = s[h]
    /\ \A i \in SessionIds : NoneAbout(z, i) => NoneAbout(q, i) /\ NoneAbout(s, i)

LEMMA Concatenated ==
    ASSUME NEW q \in Seq(RegistryCalls), NEW s \in Seq(RegistryCalls), NEW z, z = q \o s
    PROVE  Continued(q, s, z)
<1>1. /\ z \in Seq(RegistryCalls) /\ Len(z) = Len(q) + Len(s)
      /\ DOMAIN z = 1 .. Len(q) + Len(s) /\ DOMAIN q = 1 .. Len(q) /\ DOMAIN s = 1 .. Len(s)
      /\ Len(q) \in Nat /\ Len(s) \in Nat
      /\ \A k \in 1 .. Len(q) + Len(s) : z[k] = IF k <= Len(q) THEN q[k] ELSE s[k - Len(q)]
  BY ConcatProperties
<1>2. \A k \in DOMAIN q : k \in DOMAIN z /\ z[k] = q[k]
  BY <1>1
<1>3. \A h \in DOMAIN s : h + Len(q) \in DOMAIN z /\ z[h + Len(q)] = s[h] /\ h + Len(q) > Len(q)
  BY <1>1
<1>4. \A k \in DOMAIN z : k \notin DOMAIN q => k - Len(q) \in DOMAIN s /\ z[k] = s[k - Len(q)]
  BY <1>1
<1>5. ASSUME AnsweredFirst(q), \A k \in DOMAIN s : s[k].answer = "out"  PROVE AnsweredFirst(z)
  <2>. SUFFICES ASSUME NEW k \in DOMAIN z, NEW h \in DOMAIN z, k < h, z[k].answer = "out"  PROVE z[h].answer = "out"
    BY DEF AnsweredFirst
  <2>1. CASE h \in DOMAIN q
    <3>1. k \in DOMAIN q
      BY <1>1, <2>1
    <3>. QED  BY <1>2, <1>5, <2>1, <3>1 DEF AnsweredFirst
  <2>2. CASE h \notin DOMAIN q
    BY <1>4, <1>5, <2>2
  <2>. QED  BY <2>1, <2>2
<1>6. ASSUME NEW k \in DOMAIN q, LastAbout(z, k)  PROVE LastAbout(q, k) /\ NoneAbout(s, q[k].id)
  <2>1. LastAbout(q, k)
    BY <1>2, <1>6 DEF LastAbout
  <2>2. \A h \in DOMAIN s : h + Len(q) > k
    BY <1>1
  <2>3. NoneAbout(s, q[k].id)
    BY <1>2, <1>3, <1>6, <2>2 DEF LastAbout, NoneAbout
  <2>. QED  BY <2>1, <2>3
<1>7. ASSUME NEW k \in DOMAIN q, ForgottenLater(q, k)  PROVE ForgottenLater(z, k)
  BY <1>2, <1>7 DEF ForgottenLater
<1>8. ASSUME NEW k \in DOMAIN q, NEW h \in DOMAIN s, s[h].op = "forget", s[h].id = q[k].id
      PROVE  ForgottenLater(z, k)
  <2>1. h + Len(q) > k
    BY <1>1
  <2>. QED  BY <1>2, <1>3, <1>8, <2>1 DEF ForgottenLater
<1>9. \A i : NoneAbout(z, i) => NoneAbout(q, i) /\ NoneAbout(s, i)
  BY <1>2, <1>3 DEF NoneAbout
<1>10. ASSUME NEW k \in DOMAIN z
       PROVE  \/ /\ k \in DOMAIN q /\ z[k] = q[k]
                 /\ LastAbout(z, k) => LastAbout(q, k) /\ NoneAbout(s, q[k].id)
                 /\ ~ForgottenLater(z, k) => ~ForgottenLater(q, k)
                 /\ ~ForgottenLater(z, k) => \A h \in DOMAIN s : ~(s[h].op = "forget" /\ s[h].id = q[k].id)
              \/ \E h \in DOMAIN s : z[k] = s[h]
  BY <1>2, <1>4, <1>6, <1>7, <1>8
<1>. QED  BY <1>1, <1>5, <1>9, <1>10 DEF Continued

LEMMA OneMore ==
    ASSUME NEW q \in Seq(RegistryCalls), NEW c \in RegistryCalls
    PROVE  /\ <<c>> \in Seq(RegistryCalls) /\ DOMAIN <<c>> = {1} /\ <<c>>[1] = c
           /\ Append(q, c) = q \o <<c>>
  OBVIOUS

\* What z says when it is q without its first call.
Rest(q, z) ==
    /\ z \in Seq(RegistryCalls)
    /\ 1 \in DOMAIN q
    /\ \A k \in DOMAIN z : /\ k + 1 \in DOMAIN q /\ z[k] = q[k + 1] /\ k + 1 \in 2 .. Len(q)
                           /\ LastAbout(z, k) => LastAbout(q, k + 1)
                           /\ ForgottenLater(q, k + 1) => ForgottenLater(z, k)
    /\ AnsweredFirst(q) => AnsweredFirst(z)
    /\ \A i \in SessionIds : NoneAbout(z, i) => NoneAbout(q, i) \/ (q[1].id = i /\ LastAbout(q, 1))

LEMMA Shifted ==
    ASSUME NEW q \in Seq(RegistryCalls), q # <<>>, NEW z, z = Tail(q)
    PROVE  Rest(q, z)
<1>1. /\ z \in Seq(RegistryCalls) /\ DOMAIN q = 1 .. Len(q) /\ Len(q) \in Nat /\ DOMAIN z = 1 .. Len(q) - 1
      /\ Len(q) # 0 /\ \A k \in DOMAIN z : z[k] = q[k + 1]
  <2>1. Len(z) = Len(q) - 1 /\ z \in Seq(RegistryCalls) /\ \A k \in 1 .. Len(z) : z[k] = q[k + 1]
    BY HeadTailProperties
  <2>2. DOMAIN z = 1 .. Len(z) /\ DOMAIN q = 1 .. Len(q) /\ Len(q) \in Nat
    BY <2>1
  <2>. QED  BY <2>1, <2>2
<1>2. 1 \in DOMAIN q
  BY <1>1
<1>3. \A k \in DOMAIN q : k # 1 => k - 1 \in DOMAIN z /\ z[k - 1] = q[k]
  BY <1>1
<1>4. \A k \in DOMAIN z : k \in Nat /\ k + 1 \in DOMAIN q /\ z[k] = q[k + 1] /\ k + 1 \in 2 .. Len(q)
  BY <1>1
<1>5. ASSUME NEW k \in DOMAIN z, LastAbout(z, k)  PROVE LastAbout(q, k + 1)
  <2>. SUFFICES ASSUME NEW h \in DOMAIN q, h > k + 1  PROVE q[h].id # q[k + 1].id
    BY DEF LastAbout
  <2>1. h # 1 /\ h - 1 > k
    BY <1>1
  <2>. QED  BY <1>3, <1>4, <1>5, <2>1 DEF LastAbout
<1>6. ASSUME NEW k \in DOMAIN z, ForgottenLater(q, k + 1)  PROVE ForgottenLater(z, k)
  <2>1. PICK h \in DOMAIN q : h > k + 1 /\ q[h].op = "forget" /\ q[h].id = q[k + 1].id
    BY <1>6 DEF ForgottenLater
  <2>2. h # 1 /\ h - 1 > k
    BY <1>1, <2>1
  <2>. QED  BY <1>3, <1>4, <2>1, <2>2 DEF ForgottenLater
<1>7. ASSUME AnsweredFirst(q)  PROVE AnsweredFirst(z)
  <2>. SUFFICES ASSUME NEW k \in DOMAIN z, NEW h \in DOMAIN z, k < h, z[k].answer = "out"  PROVE z[h].answer = "out"
    BY DEF AnsweredFirst
  <2>1. k + 1 < h + 1
    BY <1>4
  <2>. QED  BY <1>4, <1>7, <2>1 DEF AnsweredFirst
<1>8. ASSUME NEW i, NoneAbout(z, i), ~NoneAbout(q, i)  PROVE q[1].id = i /\ LastAbout(q, 1)
  <2>1. \A h \in DOMAIN q : h # 1 => q[h].id # i
    BY <1>3, <1>8 DEF NoneAbout
  <2>2. q[1].id = i
    BY <1>2, <1>8, <2>1 DEF NoneAbout
  <2>. QED  BY <2>1, <2>2 DEF LastAbout
<1>. QED  BY <1>1, <1>2, <1>4, <1>5, <1>6, <1>7, <1>8 DEF Rest

LEMMA OrdersGive ==
    ASSUME NEW A, A \subseteq SessionIds, NEW q \in Orders(A)
    PROVE  /\ DOMAIN q = 1 .. Cardinality(A) /\ Cardinality(A) \in Nat
           /\ \A k \in DOMAIN q : q[k] \in A
           /\ \A i \in A : \E k \in DOMAIN q : q[k] = i
<1>1. Cardinality(A) \in Nat
  BY SessionIdsAssumption, FS_Subset, FS_CardinalityType
<1>. QED  BY <1>1 DEF Orders

\* Calls that send everything of A and B once more.
LEMMA AllSent ==
    ASSUME NEW A, A \subseteq SessionIds, NEW B, B \subseteq SessionIds,
           NEW u \in Orders(A), NEW f \in Orders(B),
           pendingUpserts' \in [SessionIds -> Nat], \A i \in A : pendingUpserts'[i] # 0
    PROVE  LET s == Upserts(u) \o Forgets(f) IN
           /\ Upserts(u) \in Seq(RegistryCalls) /\ Forgets(f) \in Seq(RegistryCalls)
           /\ s \in Seq(RegistryCalls)
           /\ \A k \in DOMAIN s : /\ s[k].answer = "out"
                                  /\ \/ s[k].op = "upsert" /\ s[k].id \in A
                                     \/ s[k].op = "forget" /\ s[k].id \in B
           /\ \A i \in SessionIds : NoneAbout(s, i) => i \notin A \cup B
<1>. DEFINE U == Upserts(u)
            F == Forgets(f)
            s == U \o F
<1>1. U \in Seq(RegistryCalls) /\ DOMAIN U = DOMAIN u /\ Len(U) = Cardinality(A)
      /\ \A k \in DOMAIN U : U[k].answer = "out" /\ U[k].op = "upsert" /\ U[k].id = u[k]
  <2>1. DOMAIN u = 1 .. Cardinality(A) /\ Cardinality(A) \in Nat /\ \A k \in DOMAIN u : u[k] \in A
    BY OrdersGive
  <2>2. \A k \in DOMAIN u : Report("upsert", u[k], pendingUpserts'[u[k]]) \in RegistryCalls
    BY <2>1 DEF Report, RegistryCalls, Upserting
  <2>3. U = [k \in DOMAIN u |-> Report("upsert", u[k], pendingUpserts'[u[k]])]
    BY DEF Upserts
  <2>. HIDE DEF U
  <2>4. \A k \in DOMAIN U : U[k].answer = "out" /\ U[k].op = "upsert" /\ U[k].id = u[k]
    BY <2>3 DEF Report
  <2>5. U \in Seq(RegistryCalls) /\ Len(U) = Cardinality(A)
    BY <2>1, <2>2, <2>3
  <2>. QED  BY <2>3, <2>4, <2>5
<1>2. F \in Seq(RegistryCalls) /\ DOMAIN F = DOMAIN f /\ Len(F) = Cardinality(B)
      /\ \A k \in DOMAIN F : F[k].answer = "out" /\ F[k].op = "forget" /\ F[k].id = f[k]
  <2>1. DOMAIN f = 1 .. Cardinality(B) /\ Cardinality(B) \in Nat /\ \A k \in DOMAIN f : f[k] \in B
    BY OrdersGive
  <2>2. \A k \in DOMAIN f : Report("forget", f[k], 0) \in RegistryCalls
    BY <2>1 DEF Report, RegistryCalls, Forgetting
  <2>3. F = [k \in DOMAIN f |-> Report("forget", f[k], 0)]
    BY DEF Forgets
  <2>. HIDE DEF F
  <2>4. \A k \in DOMAIN F : F[k].answer = "out" /\ F[k].op = "forget" /\ F[k].id = f[k]
    BY <2>3 DEF Report
  <2>5. F \in Seq(RegistryCalls) /\ Len(F) = Cardinality(B)
    BY <2>1, <2>2, <2>3
  <2>. QED  BY <2>3, <2>4, <2>5
<1>3. /\ \A k \in DOMAIN u : u[k] \in A
      /\ \A i \in A : \E k \in DOMAIN u : u[k] = i
      /\ \A k \in DOMAIN f : f[k] \in B
      /\ \A i \in B : \E k \in DOMAIN f : f[k] = i
  BY OrdersGive
<1>. HIDE DEF U, F
<1>7. s = U \o F
  OBVIOUS
<1>. HIDE DEF s
<1>9. U \in Seq(RegistryCalls) /\ F \in Seq(RegistryCalls)
  BY <1>1, <1>2
<1>4. Continued(U, F, s)
  BY <1>7, <1>9, Concatenated
<1>5. ASSUME NEW k \in DOMAIN s
      PROVE  /\ s[k].answer = "out"
             /\ \/ s[k].op = "upsert" /\ s[k].id \in A
                \/ s[k].op = "forget" /\ s[k].id \in B
  <2>1. (\E h \in DOMAIN U : s[k] = U[h]) \/ \E h \in DOMAIN F : s[k] = F[h]
    BY <1>4 DEF Continued
  <2>. QED  BY <1>1, <1>2, <1>3, <2>1
<1>6. \A i \in SessionIds : NoneAbout(s, i) => i \notin A \cup B
  <2>1. \A i \in A : ~NoneAbout(U, i)
    BY <1>1, <1>3 DEF NoneAbout
  <2>2. \A i \in B : ~NoneAbout(F, i)
    BY <1>2, <1>3 DEF NoneAbout
  <2>. QED  BY <1>4, <2>1, <2>2 DEF Continued
<1>8. s \in Seq(RegistryCalls)
  BY <1>4 DEF Continued
<1>. QED  BY <1>8, <1>5, <1>6, <1>9 DEF s, U, F
LEMMA RegistryInvInit == RegistryInit => RegistryInv
<1>. SUFFICES ASSUME RegistryInit  PROVE RegistryInv
  OBVIOUS
<1>. USE DEF RegistryInit
<1>1. LiveIds = {}
  BY DEF LiveIds
<1>2. line = <<>> /\ DOMAIN line = {}
  OBVIOUS
<1>3. RegistryTypes
  <2>1. line \in Seq(RegistryCalls)
    BY EmptySeq
  <2>. QED  BY <2>1 DEF RegistryTypes
<1>4. AnsweredFirst(line) /\ LineTells
  BY <1>2 DEF AnsweredFirst, LineTells
<1>5. LineFollows
  BY DEF LineFollows
<1>. QED  BY <1>2, <1>3, <1>4, <1>5 DEF RegistryInv, InSight, KnownStill

\* What the calls out say stays said when calls are added that say the truth.
LEMMA AddedTells ==
    ASSUME RegistryInv, NEW s \in Seq(RegistryCalls), line' = line \o s,
           Shown' = Shown, KnownStill' = KnownStill, InSight \subseteq InSight',
           \A k \in DOMAIN s : /\ s[k].answer = "out"
                               /\ \/ s[k].op = "upsert" /\ s[k].id \in known' \cup lost'
                                  \/ s[k].op = "forget" /\ s[k].id \in pendingTombstones' \cup lost',
           \A i \in known \cup lost : i \in known' \cup lost' \/ \E k \in DOMAIN s : s[k].op = "forget" /\ s[k].id = i,
           \A i \in pendingTombstones \cup lost : i \in pendingTombstones' \cup lost' \/ ~NoneAbout(s, i)
    PROVE  AnsweredFirst(line') /\ LineTells' /\ line' \in Seq(RegistryCalls)
<1>. DEFINE z == line'
<1>1. line \in Seq(RegistryCalls) /\ AnsweredFirst(line) /\ LineTells
  BY DEF RegistryInv, RegistryTypes
<1>2. z = line \o s
  OBVIOUS
<1>. HIDE DEF z
<1>7. Continued(line, s, z)
  BY <1>1, <1>2, Concatenated
<1>3. z \in Seq(RegistryCalls)
  BY <1>7 DEF Continued
<1>4. AnsweredFirst(z)
  BY <1>1, <1>7 DEF Continued
<1>5. known' \cup lost' \subseteq InSight'
  BY DEF InSight
<1>6. ASSUME NEW k \in DOMAIN z
      PROVE  /\ z[k].op = "upsert" => z[k].id \in InSight'
             /\ z[k].op = "upsert" /\ ~ForgottenLater(z, k) => z[k].id \in known' \cup lost'
             /\ LastAbout(z, k) =>
                  /\ z[k].op = "upsert" /\ z[k].answer = "ok" => z[k].id \in Shown'
                  /\ z[k].op = "forget" => z[k].id \in pendingTombstones' \cup lost'
                  /\ z[k].op = "forget" /\ z[k].answer = "ok" => z[k].id \notin KnownStill'
  <2>1. \/ /\ k \in DOMAIN line /\ z[k] = line[k]
           /\ LastAbout(z, k) => LastAbout(line, k) /\ NoneAbout(s, line[k].id)
           /\ ~ForgottenLater(z, k) => ~ForgottenLater(line, k)
           /\ ~ForgottenLater(z, k) => \A h \in DOMAIN s : ~(s[h].op = "forget" /\ s[h].id = line[k].id)
        \/ \E h \in DOMAIN s : z[k] = s[h]
    BY <1>7 DEF Continued
  <2>2. CASE \E h \in DOMAIN s : z[k] = s[h]
    BY <1>5, <2>2
  <2>3. CASE /\ k \in DOMAIN line /\ z[k] = line[k]
             /\ LastAbout(z, k) => LastAbout(line, k) /\ NoneAbout(s, line[k].id)
             /\ ~ForgottenLater(z, k) => ~ForgottenLater(line, k)
             /\ ~ForgottenLater(z, k) => \A h \in DOMAIN s : ~(s[h].op = "forget" /\ s[h].id = line[k].id)
    <3>1. /\ line[k].op = "upsert" => line[k].id \in InSight
          /\ line[k].op = "upsert" /\ ~ForgottenLater(line, k) => line[k].id \in known \cup lost
          /\ LastAbout(line, k) =>
               /\ line[k].op = "upsert" /\ line[k].answer = "ok" => line[k].id \in Shown
               /\ line[k].op = "forget" => line[k].id \in pendingTombstones \cup lost
               /\ line[k].op = "forget" /\ line[k].answer = "ok" => line[k].id \notin KnownStill
      BY <1>1, <2>3 DEF LineTells
    <3>2. z[k].op = "upsert" => z[k].id \in InSight'
      BY <2>3, <3>1
    <3>3. z[k].op = "upsert" /\ ~ForgottenLater(z, k) => z[k].id \in known' \cup lost'
      BY <2>3, <3>1
    <3>4. LastAbout(z, k) =>
                  /\ z[k].op = "upsert" /\ z[k].answer = "ok" => z[k].id \in Shown'
                  /\ z[k].op = "forget" => z[k].id \in pendingTombstones' \cup lost'
                  /\ z[k].op = "forget" /\ z[k].answer = "ok" => z[k].id \notin KnownStill'
      BY <2>3, <3>1
    <3>. QED  BY <3>2, <3>3, <3>4
  <2>. QED  BY <2>1, <2>2, <2>3
<1>. QED  BY <1>3, <1>4, <1>6 DEF LineTells, z

LEMMA CreateFollows ==
    ASSUME RegistryInv, NEW i \in SessionIds, createRecord(i)
    PROVE  RegistryInv'
<1>. DEFINE c == Report("upsert", i, made + 1)
            s == IF joined THEN <<c>> ELSE <<>>
<1>1. /\ RegistryTypes /\ (~joined => line = <<>>) /\ line \in Seq(RegistryCalls) /\ LineFollows
      /\ \A j \in SessionIds : pendingUpserts[j] # 0 => j \in known \cup lost
      /\ KnownStill \subseteq InSight
  BY DEF RegistryInv, RegistryTypes
<1>2. /\ sessionRecord[i] = 0 /\ sessionRecord' = [sessionRecord EXCEPT ![i] = made + 1] /\ made' = made + 1
      /\ pendingTombstones' = pendingTombstones \ {i} /\ known' = known \cup {i}
      /\ pendingUpserts' = [pendingUpserts EXCEPT ![i] = made + 1]
      /\ line' = IF joined THEN Append(line, c) ELSE line
      /\ UNCHANGED <<retryTimer, joined, strays, sessions, registrations, moved, lost, refused>>
      /\ Shown' = Shown /\ KnownStill' = KnownStill
  BY DEF createRecord, upsert, Sent, Shown, KnownStill
<1>3. c \in RegistryCalls /\ c.op = "upsert" /\ c.id = i /\ c.answer = "out"
  BY <1>1 DEF RegistryTypes, Report, RegistryCalls, Upserting
<1>. HIDE DEF c
<1>4. s \in Seq(RegistryCalls) /\ line' = line \o s /\ (\A k \in DOMAIN s : joined /\ s[k] = c) /\ (joined => DOMAIN s = {1})
  <2>1. CASE joined
    BY <1>1, <1>2, <1>3, <2>1, OneMore
  <2>2. CASE ~joined
    <3>1. s = <<>> /\ line = <<>> /\ line' = <<>> /\ DOMAIN s = {}
      BY <1>1, <1>2, <2>2
    <3>. QED  BY <1>1, <2>2, <3>1
  <2>. QED  BY <2>1, <2>2
<1>. HIDE DEF s
<1>5. LiveIds' = LiveIds \cup {i}
  BY <1>1, <1>2 DEF RegistryTypes, LiveIds
<1>6. InSight \subseteq InSight'
  BY <1>2, <1>5 DEF InSight
<1>7. \A j \in pendingTombstones \cup lost : j \in pendingTombstones' \cup lost' \/ ~NoneAbout(s, j) \/ ~joined
  <2>. SUFFICES ASSUME joined  PROVE i \in pendingTombstones' \cup lost' \/ ~NoneAbout(s, i)
    BY <1>2
  <2>. QED  BY <1>3, <1>4 DEF NoneAbout
<1>8. AnsweredFirst(line') /\ LineTells' /\ line' \in Seq(RegistryCalls)
  <2>1. CASE joined
    BY <1>2, <1>3, <1>4, <1>6, <1>7, <2>1, AddedTells
  <2>2. CASE ~joined
    <3>1. line' = <<>> /\ DOMAIN line' = {}
      BY <1>1, <1>2, <2>2
    <3>. QED  BY <3>1 DEF AnsweredFirst, LineTells
  <2>. QED  BY <2>1, <2>2
<1>9. RegistryTypes'
  BY <1>1, <1>2, <1>8 DEF RegistryTypes
<1>10. LineFollows'
  <2>. SUFFICES ASSUME joined, ~moved
                PROVE  /\ known' = LiveIds' /\ pendingTombstones' \cap LiveIds' = {}
                       /\ \A k \in DOMAIN line' : line'[k].id \in LiveIds' /\ LastAbout(line', k) => line'[k].op = "upsert"
                       /\ \A j \in SessionIds : NoneAbout(line', j) =>
                            /\ j \in LiveIds' => j \in Shown' \/ (retryTimer' /\ pendingUpserts'[j] # 0)
                            /\ j \in KnownStill' => j \in LiveIds' \cup lost' \/ (retryTimer' /\ j \in pendingTombstones')
    BY <1>2 DEF LineFollows
  <2>1. /\ known = LiveIds /\ pendingTombstones \cap LiveIds = {}
        /\ \A k \in DOMAIN line : line[k].id \in LiveIds /\ LastAbout(line, k) => line[k].op = "upsert"
        /\ \A j \in SessionIds : NoneAbout(line, j) =>
             /\ j \in LiveIds => j \in Shown \/ (retryTimer /\ pendingUpserts[j] # 0)
             /\ j \in KnownStill => j \in LiveIds \cup lost \/ (retryTimer /\ j \in pendingTombstones)
    BY <1>1 DEF LineFollows
  <2>2. known' = LiveIds' /\ pendingTombstones' \cap LiveIds' = {}
    BY <1>2, <1>5, <2>1
  <2>. DEFINE z == line'
  <2>3. z = line \o s
    BY <1>4
  <2>. HIDE DEF z
  <2>6. Continued(line, s, z)
    BY <1>1, <1>4, <2>3, Concatenated
  <2>4. ASSUME NEW k \in DOMAIN z, z[k].id \in LiveIds', LastAbout(z, k)  PROVE z[k].op = "upsert"
    <3>1. \/ k \in DOMAIN line /\ z[k] = line[k] /\ LastAbout(line, k) /\ NoneAbout(s, line[k].id)
          \/ \E h \in DOMAIN s : z[k] = s[h]
      BY <2>4, <2>6 DEF Continued
    <3>2. CASE k \in DOMAIN line /\ z[k] = line[k] /\ LastAbout(line, k) /\ NoneAbout(s, line[k].id)
      <4>1. line[k].id # i
        BY <1>3, <1>4, <3>2 DEF NoneAbout
      <4>. QED  BY <1>5, <2>1, <2>4, <3>2, <4>1
    <3>. QED  BY <1>3, <1>4, <3>1, <3>2
  <2>5. ASSUME NEW j \in SessionIds, NoneAbout(z, j)
        PROVE  /\ j \in LiveIds' => j \in Shown' \/ (retryTimer' /\ pendingUpserts'[j] # 0)
               /\ j \in KnownStill' => j \in LiveIds' \cup lost' \/ (retryTimer' /\ j \in pendingTombstones')
    <3>1. NoneAbout(line, j) /\ NoneAbout(s, j)
      BY <2>5, <2>6 DEF Continued
    <3>2. j # i
      BY <1>3, <1>4, <3>1 DEF NoneAbout
    <3>. QED  BY <1>1, <1>2, <1>5, <2>1, <3>1, <3>2 DEF RegistryTypes
  <2>. QED  BY <2>2, <2>4, <2>5 DEF z
<1>11. \A j \in SessionIds : pendingUpserts'[j] # 0 => j \in known' \cup lost'
  BY <1>1, <1>2 DEF RegistryTypes
<1>12. ~joined' => line' = <<>>
  BY <1>1, <1>2
<1>. QED  BY <1>1, <1>2, <1>6, <1>8, <1>9, <1>10, <1>11, <1>12 DEF RegistryInv
LEMMA ForgetFollows ==
    ASSUME RegistryInv, NEW i \in SessionIds, forgetRecord(i)
    PROVE  RegistryInv'
<1>. DEFINE c == Report("forget", i, 0)
            s == IF joined THEN <<c>> ELSE <<>>
<1>1. /\ RegistryTypes /\ (~joined => line = <<>>) /\ line \in Seq(RegistryCalls) /\ LineFollows
      /\ \A j \in SessionIds : pendingUpserts[j] # 0 => j \in known \cup lost
      /\ KnownStill \subseteq InSight
  BY DEF RegistryInv, RegistryTypes
<1>2. /\ sessionRecord[i] # 0 /\ sessionRecord' = [sessionRecord EXCEPT ![i] = 0] /\ made' = made + 1
      /\ pendingTombstones' = pendingTombstones \cup {i} /\ known' = known \ {i}
      /\ pendingUpserts' = [pendingUpserts EXCEPT ![i] = 0]
      /\ line' = IF joined THEN Append(line, c) ELSE line
      /\ UNCHANGED <<retryTimer, joined, strays, sessions, registrations, moved, lost, refused>>
      /\ Shown' = Shown /\ KnownStill' = KnownStill
  BY DEF forgetRecord, Sent, Shown, KnownStill
<1>3. c \in RegistryCalls /\ c.op = "forget" /\ c.id = i /\ c.answer = "out"
  BY DEF Report, RegistryCalls, Forgetting
<1>. HIDE DEF c
<1>4. s \in Seq(RegistryCalls) /\ line' = line \o s /\ (\A k \in DOMAIN s : joined /\ s[k] = c) /\ (joined => DOMAIN s = {1})
  <2>1. CASE joined
    BY <1>1, <1>2, <1>3, <2>1, OneMore
  <2>2. CASE ~joined
    <3>1. s = <<>> /\ line = <<>> /\ line' = <<>> /\ DOMAIN s = {}
      BY <1>1, <1>2, <2>2
    <3>. QED  BY <1>1, <2>2, <3>1
  <2>. QED  BY <2>1, <2>2
<1>. HIDE DEF s
<1>5. LiveIds' = LiveIds \ {i}
  BY <1>1, <1>2 DEF RegistryTypes, LiveIds
<1>6. InSight \subseteq InSight'
  BY <1>2, <1>5 DEF InSight
<1>7. \A j \in known \cup lost : j \in known' \cup lost' \/ ~joined \/ \E k \in DOMAIN s : s[k].op = "forget" /\ s[k].id = j
  <2>. SUFFICES ASSUME joined  PROVE \E k \in DOMAIN s : s[k].op = "forget" /\ s[k].id = i
    BY <1>2
  <2>. QED  BY <1>3, <1>4
<1>8. AnsweredFirst(line') /\ LineTells' /\ line' \in Seq(RegistryCalls)
  <2>1. CASE joined
    BY <1>2, <1>3, <1>4, <1>6, <1>7, <2>1, AddedTells
  <2>2. CASE ~joined
    <3>1. line' = <<>> /\ DOMAIN line' = {}
      BY <1>1, <1>2, <2>2
    <3>. QED  BY <3>1 DEF AnsweredFirst, LineTells
  <2>. QED  BY <2>1, <2>2
<1>9. RegistryTypes'
  BY <1>1, <1>2, <1>8 DEF RegistryTypes
<1>10. LineFollows'
  <2>. SUFFICES ASSUME joined, ~moved
                PROVE  /\ known' = LiveIds' /\ pendingTombstones' \cap LiveIds' = {}
                       /\ \A k \in DOMAIN line' : line'[k].id \in LiveIds' /\ LastAbout(line', k) => line'[k].op = "upsert"
                       /\ \A j \in SessionIds : NoneAbout(line', j) =>
                            /\ j \in LiveIds' => j \in Shown' \/ (retryTimer' /\ pendingUpserts'[j] # 0)
                            /\ j \in KnownStill' => j \in LiveIds' \cup lost' \/ (retryTimer' /\ j \in pendingTombstones')
    BY <1>2 DEF LineFollows
  <2>1. /\ known = LiveIds /\ pendingTombstones \cap LiveIds = {}
        /\ \A k \in DOMAIN line : line[k].id \in LiveIds /\ LastAbout(line, k) => line[k].op = "upsert"
        /\ \A j \in SessionIds : NoneAbout(line, j) =>
             /\ j \in LiveIds => j \in Shown \/ (retryTimer /\ pendingUpserts[j] # 0)
             /\ j \in KnownStill => j \in LiveIds \cup lost \/ (retryTimer /\ j \in pendingTombstones)
    BY <1>1 DEF LineFollows
  <2>2. known' = LiveIds' /\ pendingTombstones' \cap LiveIds' = {}
    BY <1>2, <1>5, <2>1
  <2>. DEFINE z == line'
  <2>3. z = line \o s
    BY <1>4
  <2>. HIDE DEF z
  <2>6. Continued(line, s, z)
    BY <1>1, <1>4, <2>3, Concatenated
  <2>4. ASSUME NEW k \in DOMAIN z, z[k].id \in LiveIds', LastAbout(z, k)  PROVE z[k].op = "upsert"
    <3>1. \/ k \in DOMAIN line /\ z[k] = line[k] /\ LastAbout(line, k)
          \/ \E h \in DOMAIN s : z[k] = s[h]
      BY <2>4, <2>6 DEF Continued
    <3>2. ~ \E h \in DOMAIN s : z[k] = s[h]
      BY <1>3, <1>4, <1>5, <2>4
    <3>. QED  BY <1>5, <2>1, <2>4, <3>1, <3>2
  <2>5. ASSUME NEW j \in SessionIds, NoneAbout(z, j)
        PROVE  /\ j \in LiveIds' => j \in Shown' \/ (retryTimer' /\ pendingUpserts'[j] # 0)
               /\ j \in KnownStill' => j \in LiveIds' \cup lost' \/ (retryTimer' /\ j \in pendingTombstones')
    <3>1. NoneAbout(line, j) /\ NoneAbout(s, j)
      BY <2>5, <2>6 DEF Continued
    <3>2. j # i
      BY <1>3, <1>4, <3>1 DEF NoneAbout
    <3>. QED  BY <1>1, <1>2, <1>5, <2>1, <3>1, <3>2 DEF RegistryTypes
  <2>. QED  BY <2>2, <2>4, <2>5 DEF z
<1>11. \A j \in SessionIds : pendingUpserts'[j] # 0 => j \in known' \cup lost'
  BY <1>1, <1>2 DEF RegistryTypes
<1>12. ~joined' => line' = <<>>
  BY <1>1, <1>2
<1>. QED  BY <1>1, <1>2, <1>6, <1>8, <1>9, <1>10, <1>11, <1>12 DEF RegistryInv

LEMMA HandOverFollows ==
    ASSUME RegistryInv, NEW i \in SessionIds, NEW j \in SessionIds, handOver(i, j)
    PROVE  RegistryInv'
<1>1. /\ sessionRecord[i] # 0 /\ sessionRecord[j] = 0 /\ made' = made + 1 /\ moved' = TRUE
      /\ sessionRecord' = [sessionRecord EXCEPT ![i] = 0, ![j] = sessionRecord[i]]
      /\ lost' = IF i \in known THEN lost ELSE lost \cup {i}
      /\ UNCHANGED <<known, pendingUpserts, pendingTombstones, retryTimer, joined, line, strays, sessions, refused>>
      /\ Shown' = Shown /\ KnownStill' = KnownStill
  BY DEF handOver, Shown, KnownStill
<1>2. RegistryTypes
  BY DEF RegistryInv
<1>3. RegistryTypes'
  <2>1. sessionRecord' \in [SessionIds -> Nat] /\ made' \in Nat
    BY <1>1, <1>2 DEF RegistryTypes
  <2>2. lost' \subseteq SessionIds /\ moved' \in BOOLEAN
    BY <1>1, <1>2 DEF RegistryTypes
  <2>. QED  BY <1>1, <1>2, <2>1, <2>2 DEF RegistryTypes
<1>4. LiveIds \ {i} \subseteq LiveIds'
  BY <1>1, <1>2 DEF RegistryTypes, LiveIds
<1>5. InSight \subseteq InSight'
  BY <1>1, <1>4 DEF InSight
<1>6. LineTells'
  BY <1>1, <1>5 DEF RegistryInv, LineTells
<1>7. LineFollows'
  BY <1>1 DEF LineFollows
<1>. QED  BY <1>1, <1>3, <1>5, <1>6, <1>7 DEF RegistryInv

LEMMA FlushFollows ==
    ASSUME RegistryInv, flush
    PROVE  RegistryInv'
<1>. DEFINE A == {i \in SessionIds : pendingUpserts[i] # 0}
<1>1. /\ RegistryTypes /\ (~joined => line = <<>>) /\ line \in Seq(RegistryCalls) /\ LineFollows
      /\ \A j \in SessionIds : pendingUpserts[j] # 0 => j \in known \cup lost
      /\ KnownStill \subseteq InSight /\ AnsweredFirst(line) /\ LineTells
  BY DEF RegistryInv, RegistryTypes
<1>2. /\ retryTimer' = FALSE /\ pendingUpserts' = pendingUpserts
      /\ UNCHANGED <<sessionRecord, known, pendingTombstones, joined, strays, sessions, made, moved, lost, refused>>
      /\ Shown' = Shown /\ KnownStill' = KnownStill
      /\ \E u \in Orders(A), f \in Orders(pendingTombstones) :
            line' = IF joined THEN line \o Upserts(u) \o Forgets(f) ELSE line
  BY DEF flush, Shown, KnownStill
<1>3. LiveIds' = LiveIds /\ InSight' = InSight
  BY <1>2 DEF LiveIds, InSight
<1>4. CASE ~joined
  <2>1. line' = line
    BY <1>2, <1>4
  <2>2. RegistryTypes'
    BY <1>1, <1>2, <2>1 DEF RegistryTypes
  <2>3. LineTells'
    BY <1>1, <1>2, <1>3, <2>1 DEF LineTells
  <2>4. LineFollows'
    BY <1>2, <1>4 DEF LineFollows
  <2>. QED  BY <1>1, <1>2, <1>3, <2>1, <2>2, <2>3, <2>4 DEF RegistryInv
<1>5. CASE joined
  <2>1. PICK u \in Orders(A), f \in Orders(pendingTombstones) : line' = line \o Upserts(u) \o Forgets(f)
    BY <1>2, <1>5
  <2>. DEFINE s == Upserts(u) \o Forgets(f)
  <2>2. A \subseteq SessionIds /\ pendingTombstones \subseteq SessionIds /\ pendingUpserts' \in [SessionIds -> Nat]
        /\ \A i \in A : pendingUpserts'[i] # 0
    BY <1>1, <1>2 DEF RegistryTypes
  <2>. HIDE DEF A
  <2>3. /\ Upserts(u) \in Seq(RegistryCalls) /\ Forgets(f) \in Seq(RegistryCalls)
        /\ s \in Seq(RegistryCalls)
        /\ \A k \in DOMAIN s : /\ s[k].answer = "out"
                               /\ \/ s[k].op = "upsert" /\ s[k].id \in A
                                  \/ s[k].op = "forget" /\ s[k].id \in pendingTombstones
        /\ \A i \in SessionIds : NoneAbout(s, i) => i \notin A \cup pendingTombstones
    BY <2>2, AllSent
  <2>4. line' = line \o s
    BY <1>1, <2>1, <2>3, ConcatAssociative
  <2>. HIDE DEF s
  <2>5. A \subseteq known \cup lost
    BY <1>1 DEF A
  <2>6. AnsweredFirst(line') /\ LineTells' /\ line' \in Seq(RegistryCalls)
    BY <1>2, <1>3, <2>3, <2>4, <2>5, AddedTells
  <2>7. RegistryTypes'
    BY <1>1, <1>2, <2>6 DEF RegistryTypes
  <2>8. LineFollows'
    <3>. SUFFICES ASSUME ~moved
                  PROVE  /\ known' = LiveIds' /\ pendingTombstones' \cap LiveIds' = {}
                         /\ \A k \in DOMAIN line' : line'[k].id \in LiveIds' /\ LastAbout(line', k) => line'[k].op = "upsert"
                         /\ \A j \in SessionIds : NoneAbout(line', j) =>
                              /\ j \in LiveIds' => j \in Shown' \/ (retryTimer' /\ pendingUpserts'[j] # 0)
                              /\ j \in KnownStill' => j \in LiveIds' \cup lost' \/ (retryTimer' /\ j \in pendingTombstones')
      BY <1>2 DEF LineFollows
    <3>1. /\ known = LiveIds /\ pendingTombstones \cap LiveIds = {}
          /\ \A k \in DOMAIN line : line[k].id \in LiveIds /\ LastAbout(line, k) => line[k].op = "upsert"
          /\ \A j \in SessionIds : NoneAbout(line, j) =>
               /\ j \in LiveIds => j \in Shown \/ (retryTimer /\ pendingUpserts[j] # 0)
               /\ j \in KnownStill => j \in LiveIds \cup lost \/ (retryTimer /\ j \in pendingTombstones)
      BY <1>1, <1>5 DEF LineFollows
    <3>. DEFINE z == line'
    <3>2. z = line \o s
      BY <2>4
    <3>. HIDE DEF z
    <3>3. Continued(line, s, z)
      BY <1>1, <2>3, <3>2, Concatenated
    <3>4. ASSUME NEW k \in DOMAIN z, z[k].id \in LiveIds', LastAbout(z, k)  PROVE z[k].op = "upsert"
      <4>1. \/ k \in DOMAIN line /\ z[k] = line[k] /\ LastAbout(line, k)
            \/ \E h \in DOMAIN s : z[k] = s[h]
        BY <3>3, <3>4 DEF Continued
      <4>2. \A h \in DOMAIN s : z[k] = s[h] => z[k].op = "upsert"
        BY <1>3, <2>3, <3>1, <3>4
      <4>. QED  BY <1>3, <3>1, <3>4, <4>1, <4>2
    <3>5. ASSUME NEW j \in SessionIds, NoneAbout(z, j)
          PROVE  /\ j \in LiveIds' => j \in Shown' \/ (retryTimer' /\ pendingUpserts'[j] # 0)
                 /\ j \in KnownStill' => j \in LiveIds' \cup lost' \/ (retryTimer' /\ j \in pendingTombstones')
      <4>1. NoneAbout(line, j) /\ NoneAbout(s, j)
        BY <3>3, <3>5 DEF Continued
      <4>2. pendingUpserts[j] = 0 /\ j \notin pendingTombstones
        BY <2>3, <4>1 DEF A
      <4>. QED  BY <1>2, <1>3, <3>1, <4>1, <4>2
    <3>. QED  BY <1>2, <1>3, <3>1, <3>4, <3>5 DEF z
  <2>. QED  BY <1>1, <1>2, <1>3, <1>5, <2>6, <2>7, <2>8 DEF RegistryInv
<1>. QED  BY <1>4, <1>5
LEMMA ReconcileFollows ==
    ASSUME RegistryInv, reconcile
    PROVE  RegistryInv'
<1>. DEFINE A == LiveIds
            B == ToForget
<1>1. /\ RegistryTypes /\ line = <<>> /\ KnownStill \subseteq InSight
      /\ \A j \in SessionIds : pendingUpserts[j] # 0 => j \in known \cup lost
  BY DEF RegistryInv, reconcile
<1>2. /\ joined' = TRUE /\ moved' = FALSE
      /\ pendingUpserts' = [i \in SessionIds |-> IF i \in LiveIds THEN sessionRecord[i] ELSE pendingUpserts[i]]
      /\ pendingTombstones' = (pendingTombstones \ LiveIds) \cup (known \ LiveIds)
      /\ known' = LiveIds
      /\ lost' = lost \cup {i \in known \ LiveIds : pendingUpserts[i] # 0}
      /\ UNCHANGED <<sessionRecord, retryTimer, strays, sessions, made, refused>>
      /\ Shown' = Shown /\ KnownStill' = KnownStill
  BY DEF reconcile, Shown, KnownStill
<1>3. LiveIds' = LiveIds /\ LiveIds \subseteq SessionIds /\ ToForget \subseteq SessionIds
      /\ pendingTombstones' = ToForget /\ ToForget \cap LiveIds = {}
  BY <1>1, <1>2 DEF LiveIds, ToForget, RegistryTypes
<1>4. InSight \subseteq InSight'
  BY <1>2, <1>3 DEF InSight, ToForget
<1>5. pendingUpserts' \in [SessionIds -> Nat] /\ \A i \in A : pendingUpserts'[i] # 0
  BY <1>1, <1>2 DEF RegistryTypes, LiveIds
<1>6. PICK u \in Orders(A), f \in Orders(B) : line' = Upserts(u) \o Forgets(f)
  BY DEF reconcile
<1>. DEFINE s == Upserts(u) \o Forgets(f)
<1>. HIDE DEF A, B
<1>7. /\ s \in Seq(RegistryCalls)
      /\ \A k \in DOMAIN s : /\ s[k].answer = "out"
                             /\ \/ s[k].op = "upsert" /\ s[k].id \in A
                                \/ s[k].op = "forget" /\ s[k].id \in B
      /\ \A i \in SessionIds : NoneAbout(s, i) => i \notin A \cup B
  <2>1. A \subseteq SessionIds /\ B \subseteq SessionIds
    BY <1>3 DEF A, B
  <2>. QED  BY <1>5, <2>1, AllSent
<1>8. line' = s
  BY <1>6
<1>. HIDE DEF s
<1>9. AnsweredFirst(line')
  BY <1>7, <1>8 DEF AnsweredFirst
<1>10. known' = A /\ pendingTombstones' = B /\ A \subseteq InSight'
  BY <1>2, <1>3 DEF A, B, InSight
<1>11. LineTells'
  BY <1>7, <1>8, <1>10 DEF LineTells
<1>12. LineFollows'
  <2>1. known' = LiveIds' /\ pendingTombstones' \cap LiveIds' = {}
    BY <1>2, <1>3
  <2>2. \A k \in DOMAIN line' : line'[k].id \in LiveIds' => line'[k].op = "upsert"
    BY <1>3, <1>7, <1>8 DEF A, B
  <2>3. ASSUME NEW j \in SessionIds, NoneAbout(line', j)
        PROVE  j \notin LiveIds' /\ j \notin pendingTombstones'
    BY <1>3, <1>7, <1>8, <1>10, <2>3 DEF A
  <2>4. ASSUME NEW j \in SessionIds, NoneAbout(line', j), j \in KnownStill'
        PROVE  j \in lost'
    BY <1>1, <1>2, <1>4, <2>1, <2>3, <2>4 DEF InSight
  <2>. QED  BY <2>1, <2>2, <2>3, <2>4 DEF LineFollows
<1>13. RegistryTypes'
  BY <1>1, <1>2, <1>3, <1>5, <1>7, <1>8 DEF RegistryTypes
<1>14. \A j \in SessionIds : pendingUpserts'[j] # 0 => j \in known' \cup lost'
  BY <1>1, <1>2
<1>. QED  BY <1>1, <1>2, <1>4, <1>9, <1>11, <1>12, <1>13, <1>14 DEF RegistryInv

LEMMA DisconnectFollows ==
    ASSUME RegistryInv, Disconnected
    PROVE  RegistryInv'
<1>. DEFINE last(i) == {k \in DOMAIN line : /\ line[k].op = "upsert" /\ line[k].id = i
                                            /\ \A h \in k + 1 .. Len(line) : ~(line[h].op = "upsert" /\ line[h].id = i)}
            failed == {i \in known : last(i) # {}}
<1>1. /\ RegistryTypes /\ KnownStill \subseteq InSight /\ LineTells
      /\ \A j \in SessionIds : pendingUpserts[j] # 0 => j \in known \cup lost
  BY DEF RegistryInv
<1>2. /\ joined' = FALSE /\ line' = <<>>
      /\ \E taken, behind \in SUBSET {k \in DOMAIN line : line[k].answer = "out"} :
            /\ sessions' = {i \in SessionIds : KnownAfter(i, taken)}
            /\ refused' = refused \ {line[k].id : k \in taken}
            /\ strays' = strays \cup {[op |-> line[k].op, id |-> line[k].id] : k \in behind}
      /\ pendingUpserts' = [i \in SessionIds |-> IF i \in failed THEN line[CHOOSE k \in last(i) : TRUE].rec
                                                 ELSE pendingUpserts[i]]
      /\ retryTimer' = (retryTimer \/ failed # {} \/ \E k \in DOMAIN line :
                             line[k].op = "forget" /\ line[k].id \in pendingTombstones)
      /\ UNCHANGED <<sessionRecord, known, pendingTombstones, made, moved, lost>>
  BY DEF Disconnected
<1>3. InSight' = InSight
  BY <1>2 DEF InSight, LiveIds
<1>4. KnownStill' \subseteq InSight' /\ sessions' \subseteq SessionIds /\ refused' \subseteq SessionIds
  <2>1. PICK taken \in SUBSET {k \in DOMAIN line : line[k].answer = "out"} :
            /\ sessions' = {i \in SessionIds : KnownAfter(i, taken)}
            /\ refused' = refused \ {line[k].id : k \in taken}
    BY <1>2, Zenon
  <2>2. ASSUME NEW i \in KnownStill'  PROVE i \in InSight
    <3>1. KnownAfter(i, taken) /\ i \notin refused'
      BY <2>1, <2>2 DEF KnownStill
    <3>2. CASE {k \in taken : line[k].id = i} = {}
      <4>1. i \in sessions /\ i \notin {line[k].id : k \in taken}
        BY <3>1, <3>2 DEF KnownAfter
      <4>2. i \notin refused
        BY <2>1, <3>1, <4>1
      <4>. QED  BY <1>1, <4>1, <4>2 DEF KnownStill
    <3>3. CASE {k \in taken : line[k].id = i} # {}
      <4>1. \E k \in taken : line[k].id = i /\ line[k].op = "upsert"
        BY <3>1, <3>3 DEF KnownAfter
      <4>2. taken \subseteq DOMAIN line
        OBVIOUS
      <4>. QED  BY <1>1, <4>1, <4>2 DEF LineTells
    <3>. QED  BY <3>2, <3>3
  <2>. QED  BY <1>1, <1>3, <2>1, <2>2 DEF RegistryTypes
<1>5. \A i \in failed : line[CHOOSE k \in last(i) : TRUE].rec \in Nat
  <2>. SUFFICES ASSUME NEW i \in failed, NEW n, n = (CHOOSE k \in last(i) : TRUE)  PROVE line[n].rec \in Nat
    OBVIOUS
  <2>1. n \in last(i)
    OBVIOUS
  <2>2. n \in 1 .. Len(line)
    BY <1>1, <2>1 DEF RegistryTypes
  <2>3. line[n] \in RegistryCalls
    BY <1>1, <2>2, ElementOfSeq DEF RegistryTypes
  <2>. QED  BY <2>3, CallTypes
<1>6. failed \subseteq known
  OBVIOUS
<1>. HIDE DEF failed, last
<1>7. pendingUpserts' \in [SessionIds -> Nat] /\ \A j \in SessionIds : pendingUpserts'[j] # 0 => j \in known \cup lost
  BY <1>1, <1>2, <1>5, <1>6 DEF RegistryTypes
<1>8. retryTimer' \in BOOLEAN
  BY <1>2
<1>11. strays' \subseteq [op : {"upsert", "forget"}, id : SessionIds]
  <2>1. PICK behind \in SUBSET DOMAIN line :
            strays' = strays \cup {[op |-> line[k].op, id |-> line[k].id] : k \in behind}
    BY <1>2, Zenon
  <2>2. ASSUME NEW k \in behind
        PROVE  [op |-> line[k].op, id |-> line[k].id] \in [op : {"upsert", "forget"}, id : SessionIds]
    <3>1. line[k] \in RegistryCalls
      BY <1>1, ElementOfSeq DEF RegistryTypes
    <3>. QED  BY <3>1, CallTypes
  <2>. QED  BY <1>1, <2>1, <2>2 DEF RegistryTypes
<1>9. RegistryTypes'
  BY <1>1, <1>2, <1>4, <1>7, <1>8, <1>11, EmptySeq DEF RegistryTypes
<1>10. AnsweredFirst(line') /\ LineTells' /\ LineFollows'
  <2>1. DOMAIN line' = {}
    BY <1>2
  <2>. QED  BY <1>2, <2>1 DEF AnsweredFirst, LineTells, LineFollows
<1>. QED  BY <1>2, <1>4, <1>7, <1>9, <1>10 DEF RegistryInv

LEMMA RestartFollows ==
    ASSUME RegistryInv, GatewayRestarts
    PROVE  RegistryInv'
<1>1. /\ RegistryTypes /\ line = <<>> /\ KnownStill \subseteq InSight /\ ~joined
  BY DEF RegistryInv, GatewayRestarts
<1>2. /\ known' = {} /\ pendingUpserts' = [i \in SessionIds |-> 0] /\ pendingTombstones' = {}
      /\ retryTimer' = FALSE
      /\ lost' = lost \cup pendingTombstones \cup (known \ LiveIds)
      /\ UNCHANGED <<sessionRecord, joined, line, strays, sessions, made, moved, refused>>
      /\ Shown' = Shown /\ KnownStill' = KnownStill
  BY DEF GatewayRestarts, Shown, KnownStill
<1>3. LiveIds' = LiveIds
  BY <1>2 DEF LiveIds
<1>4. InSight \subseteq InSight'
  BY <1>2, <1>3 DEF InSight
<1>5. RegistryTypes'
  BY <1>1, <1>2 DEF RegistryTypes
<1>6. AnsweredFirst(line') /\ LineTells' /\ LineFollows'
  <2>1. DOMAIN line' = {}
    BY <1>1, <1>2
  <2>. QED  BY <1>1, <1>2, <2>1 DEF AnsweredFirst, LineTells, LineFollows
<1>. QED  BY <1>1, <1>2, <1>4, <1>5, <1>6 DEF RegistryInv

LEMMA StrayFollows ==
    ASSUME RegistryInv, StrayHandled
    PROVE  RegistryInv'
<1>1. /\ RegistryTypes /\ AnsweredFirst(line) /\ (~joined => line = <<>>)
      /\ KnownStill \subseteq InSight /\ LineTells /\ LineFollows
      /\ \A j \in SessionIds : pendingUpserts[j] # 0 => j \in known \cup lost
  BY DEF RegistryInv
<1>2. PICK c \in strays :
        /\ strays' = strays \ {c}
        /\ sessions' = Applied(sessions, c)
        /\ refused' = IF sessions' = sessions THEN refused ELSE refused \cup {c.id}
        /\ UNCHANGED <<sessionRecord, known, pendingUpserts, pendingTombstones, retryTimer, joined, line,
                       made, registrations, moved, lost>>
  BY DEF StrayHandled
<1>3. c.id \in SessionIds
  BY <1>1 DEF RegistryTypes
<1>4. RegistryTypes'
  <2>1. sessions' \subseteq SessionIds /\ refused' \subseteq SessionIds
    BY <1>1, <1>2, <1>3 DEF RegistryTypes, Applied
  <2>. QED  BY <1>1, <1>2, <2>1 DEF RegistryTypes
<1>5. Shown \subseteq Shown' /\ KnownStill' \subseteq KnownStill
  BY <1>2 DEF Shown, KnownStill, Applied
<1>6. LiveIds' = LiveIds /\ InSight' = InSight
  BY <1>2 DEF LiveIds, InSight
<1>7. KnownStill' \subseteq InSight'
  BY <1>1, <1>5, <1>6
<1>8. AnsweredFirst(line')
  BY <1>1, <1>2 DEF AnsweredFirst
<1>9. LineTells'
  BY <1>1, <1>2, <1>5, <1>6 DEF LineTells, LastAbout, ForgottenLater
<1>10. LineFollows'
  BY <1>1, <1>2, <1>5, <1>6 DEF LineFollows, LastAbout, NoneAbout
<1>. QED  BY <1>1, <1>2, <1>4, <1>7, <1>8, <1>9, <1>10 DEF RegistryInv

LEMMA HandleFollows ==
    ASSUME RegistryInv, RouterHandles
    PROVE  RegistryInv'
<1>1. /\ RegistryTypes /\ line \in Seq(RegistryCalls) /\ AnsweredFirst(line) /\ (~joined => line = <<>>)
      /\ KnownStill \subseteq InSight /\ LineTells /\ LineFollows
      /\ \A j \in SessionIds : pendingUpserts[j] # 0 => j \in known \cup lost
  BY DEF RegistryInv, RegistryTypes
<1>2. PICK k \in FirstOut :
        /\ \/ /\ sessions' = Applied(sessions, line[k])
              /\ \E a \in {"ok", "failed"} : line' = [line EXCEPT ![k].answer = a]
              /\ refused' = refused \ {line[k].id}
           \/ line' = [line EXCEPT ![k].answer = "failed"] /\ UNCHANGED <<sessions, refused>>
           \/ /\ line' = [line EXCEPT ![k].answer = "ok"]
              /\ refused' = refused \cup {line[k].id}
              /\ UNCHANGED sessions
        /\ UNCHANGED <<sessionRecord, known, pendingUpserts, pendingTombstones, retryTimer, joined, strays, made,
                       registrations, moved, lost>>
  BY DEF RouterHandles
<1>3. PICK a \in {"ok", "failed"} : /\ line' = [line EXCEPT ![k].answer = a]
                                    /\ \/ /\ sessions' = Applied(sessions, line[k])
                                          /\ refused' = refused \ {line[k].id}
                                       \/ a = "failed" /\ sessions' = sessions /\ refused' = refused
                                       \/ sessions' = sessions /\ refused' = refused \cup {line[k].id}
  BY <1>2
<1>. DEFINE c == line[k]
            z == line'
<1>4. /\ k \in DOMAIN line /\ DOMAIN line = 1 .. Len(line) /\ Len(line) \in Nat /\ c \in RegistryCalls
      /\ c.answer = "out" /\ \A h \in DOMAIN line : h < k => line[h].answer # "out"
  <2>1. DOMAIN line = 1 .. Len(line) /\ Len(line) \in Nat /\ k \in 1 .. Len(line)
    BY <1>1 DEF FirstOut
  <2>2. c \in RegistryCalls
    BY <1>1, <2>1, ElementOfSeq
  <2>. QED  BY <2>1, <2>2 DEF FirstOut
<1>5. [c EXCEPT !.answer = a] \in RegistryCalls /\ [c EXCEPT !.answer = a].op = c.op
      /\ [c EXCEPT !.answer = a].id = c.id /\ [c EXCEPT !.answer = a].answer = a
  BY <1>4 DEF RegistryCalls, Upserting, Forgetting
<1>6. z = [line EXCEPT ![k] = [c EXCEPT !.answer = a]]
  BY <1>3
<1>7. /\ z \in Seq(RegistryCalls) /\ DOMAIN z = DOMAIN line /\ z[k].answer = a
      /\ \A h \in DOMAIN line : h # k => z[h] = line[h]
      /\ \A h \in DOMAIN line : z[h].op = line[h].op /\ z[h].id = line[h].id
  <2>. DEFINE v == [c EXCEPT !.answer = a]
  <2>1. v \in RegistryCalls /\ v.op = c.op /\ v.id = c.id /\ v.answer = a /\ z = [line EXCEPT ![k] = v]
    BY <1>5, <1>6
  <2>. HIDE DEF v, z
  <2>2. z \in Seq(RegistryCalls) /\ DOMAIN z = DOMAIN line
    BY <1>1, <1>4, <2>1
  <2>3. z[k] = v /\ \A h \in DOMAIN line : h # k => z[h] = line[h]
    BY <1>4, <2>1
  <2>. QED  BY <2>1, <2>2, <2>3
<1>. HIDE DEF z
<1>8. /\ \A i : NoneAbout(z, i) <=> NoneAbout(line, i)
      /\ \A h \in DOMAIN line : LastAbout(z, h) <=> LastAbout(line, h)
      /\ \A h \in DOMAIN line : ForgottenLater(z, h) <=> ForgottenLater(line, h)
  BY <1>7 DEF NoneAbout, LastAbout, ForgottenLater
<1>9. AnsweredFirst(z)
  <2>. SUFFICES ASSUME NEW g \in DOMAIN z, NEW h \in DOMAIN z, g < h, z[g].answer = "out"  PROVE z[h].answer = "out"
    BY DEF AnsweredFirst
  <2>1. g # k /\ z[g] = line[g]
    BY <1>7
  <2>2. g > k /\ h > k
    BY <1>4, <1>7, <2>1
  <2>3. z[h] = line[h]
    BY <1>7, <2>2
  <2>. QED  BY <1>1, <1>7, <2>1, <2>3 DEF AnsweredFirst
<1>10. LiveIds' = LiveIds /\ InSight' = InSight
  BY <1>2 DEF LiveIds, InSight
<1>11. c.id \in SessionIds /\ c.op \in {"upsert", "forget"} /\ (c.op = "upsert" => c.id \in InSight)
  <2>1. c.id \in SessionIds /\ c.op \in {"upsert", "forget"}
    BY <1>4, CallTypes
  <2>. QED  BY <1>1, <1>4, <2>1 DEF LineTells
<1>. HIDE DEF c
<1>12. /\ KnownStill' \subseteq InSight' /\ sessions' \subseteq SessionIds /\ refused' \subseteq SessionIds
       /\ \A i : i # c.id => (i \in Shown' <=> i \in Shown) /\ (i \in KnownStill' <=> i \in KnownStill)
       /\ a = "ok" => (c.op = "upsert" => c.id \in Shown') /\ (c.op = "forget" => c.id \notin KnownStill')
  <2>1. sessions \subseteq SessionIds /\ refused \subseteq SessionIds
    BY <1>1 DEF RegistryTypes
  <2>2. \/ sessions' = Applied(sessions, c) /\ refused' = refused \ {c.id}
        \/ a = "failed" /\ sessions' = sessions /\ refused' = refused
        \/ sessions' = sessions /\ refused' = refused \cup {c.id}
    BY <1>3 DEF c
  <2>. QED  BY <1>1, <1>10, <1>11, <2>1, <2>2 DEF Applied, Shown, KnownStill
<1>13. ASSUME NEW h \in DOMAIN z
       PROVE  /\ z[h].op = "upsert" => z[h].id \in InSight'
              /\ z[h].op = "upsert" /\ ~ForgottenLater(z, h) => z[h].id \in known' \cup lost'
              /\ LastAbout(z, h) =>
                   /\ z[h].op = "upsert" /\ z[h].answer = "ok" => z[h].id \in Shown'
                   /\ z[h].op = "forget" => z[h].id \in pendingTombstones' \cup lost'
                   /\ z[h].op = "forget" /\ z[h].answer = "ok" => z[h].id \notin KnownStill'
  <2>1. h \in DOMAIN line /\ z[h].op = line[h].op /\ z[h].id = line[h].id
    BY <1>7
  <2>2. /\ line[h].op = "upsert" => line[h].id \in InSight
        /\ line[h].op = "upsert" /\ ~ForgottenLater(line, h) => line[h].id \in known \cup lost
        /\ LastAbout(line, h) =>
             /\ line[h].op = "upsert" /\ line[h].answer = "ok" => line[h].id \in Shown
             /\ line[h].op = "forget" => line[h].id \in pendingTombstones \cup lost
             /\ line[h].op = "forget" /\ line[h].answer = "ok" => line[h].id \notin KnownStill
    BY <1>1, <2>1 DEF LineTells
  <2>3. /\ z[h].op = "upsert" => z[h].id \in InSight'
        /\ z[h].op = "upsert" /\ ~ForgottenLater(z, h) => z[h].id \in known' \cup lost'
        /\ LastAbout(z, h) /\ z[h].op = "forget" => z[h].id \in pendingTombstones' \cup lost'
    BY <1>2, <1>8, <1>10, <2>1, <2>2
  <2>4. ASSUME LastAbout(z, h), z[h].answer = "ok"
        PROVE  /\ z[h].op = "upsert" => z[h].id \in Shown'
               /\ z[h].op = "forget" => z[h].id \notin KnownStill'
    <3>1. CASE h = k
      BY <1>7, <1>12, <2>1, <2>4, <3>1 DEF c
    <3>2. CASE h # k
      <4>1. z[h] = line[h] /\ LastAbout(line, h)
        BY <1>7, <1>8, <2>1, <2>4, <3>2
      <4>2. ~ (k < h)
        BY <1>1, <1>4, <2>1, <2>4, <4>1 DEF AnsweredFirst, c
      <4>3. h < k
        BY <1>4, <2>1, <3>2, <4>2
      <4>4. line[h].id # c.id
        BY <1>4, <4>1, <4>3 DEF LastAbout, c
      <4>. QED  BY <1>12, <2>2, <2>4, <4>1, <4>4
    <3>. QED  BY <3>1, <3>2
  <2>. QED  BY <2>3, <2>4
<1>14. LineTells'
  BY <1>13 DEF LineTells, z
<1>15. LineFollows'
  <2>. SUFFICES ASSUME joined, ~moved
                PROVE  /\ known' = LiveIds' /\ pendingTombstones' \cap LiveIds' = {}
                       /\ \A h \in DOMAIN z : z[h].id \in LiveIds' /\ LastAbout(z, h) => z[h].op = "upsert"
                       /\ \A j \in SessionIds : NoneAbout(z, j) =>
                            /\ j \in LiveIds' => j \in Shown' \/ (retryTimer' /\ pendingUpserts'[j] # 0)
                            /\ j \in KnownStill' => j \in LiveIds' \cup lost' \/ (retryTimer' /\ j \in pendingTombstones')
    BY <1>2 DEF LineFollows, z
  <2>1. /\ known = LiveIds /\ pendingTombstones \cap LiveIds = {}
        /\ \A h \in DOMAIN line : line[h].id \in LiveIds /\ LastAbout(line, h) => line[h].op = "upsert"
        /\ \A j \in SessionIds : NoneAbout(line, j) =>
             /\ j \in LiveIds => j \in Shown \/ (retryTimer /\ pendingUpserts[j] # 0)
             /\ j \in KnownStill => j \in LiveIds \cup lost \/ (retryTimer /\ j \in pendingTombstones)
    BY <1>1 DEF LineFollows
  <2>2. \A h \in DOMAIN z : z[h].id \in LiveIds' /\ LastAbout(z, h) => z[h].op = "upsert"
    BY <1>7, <1>8, <1>10, <2>1
  <2>3. ASSUME NEW j \in SessionIds, NoneAbout(z, j)
        PROVE  /\ j \in LiveIds' => j \in Shown' \/ (retryTimer' /\ pendingUpserts'[j] # 0)
               /\ j \in KnownStill' => j \in LiveIds' \cup lost' \/ (retryTimer' /\ j \in pendingTombstones')
    <3>1. NoneAbout(line, j)
      BY <1>8, <2>3
    <3>2. j # c.id
      BY <1>4, <3>1 DEF NoneAbout, c
    <3>. QED  BY <1>2, <1>10, <1>12, <2>1, <3>1, <3>2
  <2>. QED  BY <1>2, <1>10, <2>1, <2>2, <2>3
<1>16. RegistryTypes'
  BY <1>1, <1>2, <1>7, <1>12 DEF RegistryTypes, z
<1>17. AnsweredFirst(line') /\ (~joined' => line' = <<>>)
  <2>1. joined
    BY <1>1, <1>4
  <2>. QED  BY <1>2, <1>9, <2>1 DEF z
<1>. QED  BY <1>1, <1>2, <1>12, <1>14, <1>15, <1>16, <1>17 DEF RegistryInv
LEMMA AnswerFollows ==
    ASSUME RegistryInv, AnswerLands
    PROVE  RegistryInv'
<1>. DEFINE c == line[1]
            z == line'
<1>1. /\ RegistryTypes /\ line \in Seq(RegistryCalls) /\ AnsweredFirst(line) /\ (~joined => line = <<>>)
      /\ KnownStill \subseteq InSight /\ LineTells /\ LineFollows
      /\ \A j \in SessionIds : pendingUpserts[j] # 0 => j \in known \cup lost
  BY DEF RegistryInv, RegistryTypes
<1>2. /\ line # <<>> /\ c.answer # "out" /\ z = Tail(line)
      /\ sendUpsert(c) \/ sendForget(c)
      /\ UNCHANGED <<sessionRecord, known, joined, strays, sessions, made, registrations, moved, refused>>
      /\ Shown' = Shown /\ KnownStill' = KnownStill
  BY DEF AnswerLands, Shown, KnownStill
<1>. HIDE DEF z
<1>3. Rest(line, z)
  BY <1>1, <1>2, Shifted
<1>4. c \in RegistryCalls /\ 1 \in DOMAIN line /\ DOMAIN line = 1 .. Len(line) /\ Len(line) \in Nat
  <2>1. 1 \in DOMAIN line /\ DOMAIN line = 1 .. Len(line) /\ Len(line) \in Nat
    BY <1>1, <1>3 DEF Rest
  <2>. QED  BY <1>1, <2>1, ElementOfSeq
<1>5. /\ c.id \in SessionIds /\ c.op \in {"upsert", "forget"} /\ c.rec \in Nat
      /\ c.answer \in {"ok", "failed"}
      /\ c.op = "upsert" => c.rec # 0
  BY <1>2, <1>4, CallTypes
<1>6. /\ c.op = "upsert" => c.id \in InSight
      /\ c.op = "upsert" /\ ~ForgottenLater(line, 1) => c.id \in known \cup lost
      /\ LastAbout(line, 1) =>
           /\ c.op = "upsert" /\ c.answer = "ok" => c.id \in Shown
           /\ c.op = "forget" => c.id \in pendingTombstones \cup lost
           /\ c.op = "forget" /\ c.answer = "ok" => c.id \notin KnownStill
  BY <1>1, <1>4 DEF LineTells
<1>7. LastAbout(line, 1) => ~ForgottenLater(line, 1)
  BY DEF LastAbout, ForgottenLater
<1>. HIDE DEF c
<1>8. LiveIds' = LiveIds /\ lost \subseteq lost' /\ lost' \subseteq lost \cup {c.id}
  BY <1>2 DEF LiveIds, sendUpsert, sendForget, UpsertFails
\* Whose pending forget is settled was said again, or is known, or is gone from the Router.
<1>9. \A i : i # c.id => (i \in pendingTombstones' <=> i \in pendingTombstones)
  BY <1>2 DEF sendUpsert, sendForget, UpsertFails
<1>10. c.op = "forget" /\ c.answer = "ok" /\ LaterForgets(c.id) # {} => c.id \in lost'
  BY <1>2 DEF sendUpsert, sendForget
<1>11. ~(c.op = "forget" /\ c.answer = "ok") => pendingTombstones' = pendingTombstones
  BY <1>2, <1>5 DEF sendUpsert, sendForget
<1>12. \A k \in DOMAIN z : ForgottenLater(z, k) /\ z[k].id = c.id => LaterForgets(c.id) # {}
  <2>. SUFFICES ASSUME NEW h \in DOMAIN z, z[h].op = "forget", z[h].id = c.id
                PROVE  LaterForgets(c.id) # {}
    BY DEF ForgottenLater
  <2>1. z[h] = line[h + 1] /\ h + 1 \in 2 .. Len(line)
    BY <1>3 DEF Rest
  <2>. QED  BY <2>1 DEF LaterForgets
<1>13. ASSUME NEW i \in InSight  PROVE i \in InSight' \/ (i = c.id /\ c.op = "forget" /\ c.answer = "ok" /\ LaterForgets(c.id) = {})
  BY <1>2, <1>8, <1>9, <1>10, <1>11, <1>13 DEF InSight
<1>14. c.op = "forget" /\ c.answer = "ok" /\ LaterForgets(c.id) = {} /\ ~LastAbout(line, 1) => c.id \in known \cup lost
  <2>. SUFFICES ASSUME LaterForgets(c.id) = {}, ~LastAbout(line, 1)  PROVE c.id \in known \cup lost
    OBVIOUS
  <2>1. PICK h \in DOMAIN line : h > 1 /\ line[h].id = c.id
    BY DEF LastAbout, c
  <2>2. \A g \in DOMAIN line : g > 1 => ~(line[g].op = "forget" /\ line[g].id = c.id)
    BY <1>4 DEF LaterForgets
  <2>3. line[h].op = "upsert"
    <3>1. line[h] \in RegistryCalls
      BY <1>1, <1>4, ElementOfSeq
    <3>. QED  BY <2>1, <2>2, <3>1, CallTypes
  <2>4. ~ForgottenLater(line, h)
    <3>. SUFFICES ASSUME NEW g \in DOMAIN line, g > h, line[g].op = "forget", line[g].id = line[h].id
                  PROVE  FALSE
      BY DEF ForgottenLater
    <3>1. g > 1
      BY <1>4, <2>1
    <3>. QED  BY <2>1, <2>2, <3>1
  <2>. QED  BY <1>1, <2>1, <2>3, <2>4 DEF LineTells
<1>15. KnownStill' \subseteq InSight'
  <2>. SUFFICES ASSUME NEW i \in KnownStill  PROVE i \in InSight'
    BY <1>2
  <2>1. CASE i = c.id /\ c.op = "forget" /\ c.answer = "ok" /\ LaterForgets(c.id) = {}
    <3>1. ~LastAbout(line, 1)
      BY <1>6, <2>1
    <3>. QED  BY <1>2, <1>8, <1>14, <2>1, <3>1 DEF InSight
  <2>. QED  BY <1>1, <1>13, <2>1
<1>16. ASSUME NEW k \in DOMAIN z
       PROVE  /\ z[k].op = "upsert" => z[k].id \in InSight'
              /\ z[k].op = "upsert" /\ ~ForgottenLater(z, k) => z[k].id \in known' \cup lost'
              /\ LastAbout(z, k) =>
                   /\ z[k].op = "upsert" /\ z[k].answer = "ok" => z[k].id \in Shown'
                   /\ z[k].op = "forget" => z[k].id \in pendingTombstones' \cup lost'
                   /\ z[k].op = "forget" /\ z[k].answer = "ok" => z[k].id \notin KnownStill'
  <2>. DEFINE d == line[k + 1]
  <2>1. /\ k + 1 \in DOMAIN line /\ z[k] = d /\ k + 1 \in 2 .. Len(line)
        /\ LastAbout(z, k) => LastAbout(line, k + 1)
        /\ ForgottenLater(line, k + 1) => ForgottenLater(z, k)
    BY <1>3 DEF Rest
  <2>2. /\ d.op = "upsert" => d.id \in InSight
        /\ d.op = "upsert" /\ ~ForgottenLater(line, k + 1) => d.id \in known \cup lost
        /\ LastAbout(line, k + 1) =>
             /\ d.op = "upsert" /\ d.answer = "ok" => d.id \in Shown
             /\ d.op = "forget" => d.id \in pendingTombstones \cup lost
             /\ d.op = "forget" /\ d.answer = "ok" => d.id \notin KnownStill
    BY <1>1, <2>1 DEF LineTells
  <2>3. d.op = "forget" /\ d.id = c.id => LaterForgets(c.id) # {}
    BY <2>1 DEF LaterForgets
  <2>. HIDE DEF d
  <2>4. z[k].op = "upsert" /\ ~ForgottenLater(z, k) => z[k].id \in known' \cup lost'
    BY <1>2, <1>8, <2>1, <2>2
  <2>5. z[k].op = "upsert" => z[k].id \in InSight'
    <3>. SUFFICES ASSUME z[k].op = "upsert"  PROVE z[k].id \in InSight'
      OBVIOUS
    <3>1. CASE ForgottenLater(z, k)
      BY <1>12, <1>13, <2>1, <2>2, <3>1
    <3>2. CASE ~ForgottenLater(z, k)
      BY <2>4, <3>2 DEF InSight
    <3>. QED  BY <3>1, <3>2
  <2>6. LastAbout(z, k) /\ z[k].op = "forget" => z[k].id \in pendingTombstones' \cup lost'
    BY <1>8, <1>9, <1>10, <1>11, <2>1, <2>2, <2>3
  <2>7. LastAbout(z, k) =>
          /\ z[k].op = "upsert" /\ z[k].answer = "ok" => z[k].id \in Shown'
          /\ z[k].op = "forget" /\ z[k].answer = "ok" => z[k].id \notin KnownStill'
    BY <1>2, <2>1, <2>2
  <2>. QED  BY <2>4, <2>5, <2>6, <2>7
<1>17. LineTells'
  BY <1>16 DEF LineTells, z
<1>18. /\ pendingUpserts' \in [SessionIds -> Nat] /\ retryTimer' \in BOOLEAN
       /\ \A i \in SessionIds : i # c.id => pendingUpserts'[i] = pendingUpserts[i]
       /\ retryTimer => retryTimer'
       /\ c.op = "upsert" /\ c.answer = "failed" /\ c.id \in known => retryTimer' /\ pendingUpserts'[c.id] # 0
       /\ c.op = "forget" /\ c.answer = "failed" /\ c.id \in pendingTombstones => retryTimer'
       /\ pendingUpserts'[c.id] # 0 => pendingUpserts[c.id] # 0 \/ c.id \in known
       /\ pendingTombstones' \subseteq pendingTombstones
  <2>1. pendingUpserts \in [SessionIds -> Nat] /\ retryTimer \in BOOLEAN
    BY <1>1 DEF RegistryTypes
  <2>2. CASE sendUpsert(c)
    <3>1. CASE c.answer = "ok"
      <4>1. /\ pendingUpserts' = [pendingUpserts EXCEPT ![c.id] = IF pendingUpserts[c.id] = c.rec THEN 0 ELSE pendingUpserts[c.id]]
            /\ retryTimer' = retryTimer /\ pendingTombstones' = pendingTombstones
        BY <2>2, <3>1 DEF sendUpsert
      <4>. QED  BY <1>5, <2>1, <2>2, <3>1, <4>1 DEF sendUpsert
    <3>2. CASE c.answer = "failed"
      <4>1. /\ pendingUpserts' = IF c.id \in known THEN [pendingUpserts EXCEPT ![c.id] = c.rec] ELSE pendingUpserts
            /\ retryTimer' = (retryTimer \/ c.id \in known) /\ pendingTombstones' = pendingTombstones
        BY <2>2, <3>2 DEF sendUpsert, UpsertFails
      <4>2. pendingUpserts' \in [SessionIds -> Nat] /\ (c.id \in known => pendingUpserts'[c.id] # 0)
            /\ \A i \in SessionIds : i # c.id => pendingUpserts'[i] = pendingUpserts[i]
        BY <1>5, <2>1, <2>2, <4>1 DEF sendUpsert
      <4>3. retryTimer' \in BOOLEAN /\ (retryTimer => retryTimer') /\ (c.id \in known => retryTimer')
        BY <4>1
      <4>4. c.op = "upsert"
        BY <2>2 DEF sendUpsert
      <4>5. pendingUpserts'[c.id] # 0 => pendingUpserts[c.id] # 0 \/ c.id \in known
        BY <4>1
      <4>. QED  BY <4>1, <4>2, <4>3, <4>4, <4>5
    <3>. QED  BY <1>5, <3>1, <3>2
  <2>3. CASE sendForget(c)
    <3>1. /\ pendingUpserts' = pendingUpserts /\ c.op = "forget" /\ pendingTombstones' \subseteq pendingTombstones
      BY <2>3 DEF sendForget
    <3>2. c.answer = "ok" => retryTimer' = retryTimer
      BY <2>3 DEF sendForget
    <3>3. c.answer = "failed" => retryTimer' = (retryTimer \/ c.id \in pendingTombstones)
      BY <2>3 DEF sendForget
    <3>4. retryTimer' \in BOOLEAN /\ (retryTimer => retryTimer')
      BY <1>5, <2>1, <3>2, <3>3
    <3>5. c.answer = "failed" /\ c.id \in pendingTombstones => retryTimer'
      BY <3>3
    <3>. QED  BY <2>1, <3>1, <3>4, <3>5
  <2>. QED  BY <1>2, <2>2, <2>3
<1>19. LineFollows'
  <2>. SUFFICES ASSUME joined, ~moved
                PROVE  /\ known' = LiveIds' /\ pendingTombstones' \cap LiveIds' = {}
                       /\ \A h \in DOMAIN z : z[h].id \in LiveIds' /\ LastAbout(z, h) => z[h].op = "upsert"
                       /\ \A j \in SessionIds : NoneAbout(z, j) =>
                            /\ j \in LiveIds' => j \in Shown' \/ (retryTimer' /\ pendingUpserts'[j] # 0)
                            /\ j \in KnownStill' => j \in LiveIds' \cup lost' \/ (retryTimer' /\ j \in pendingTombstones')
    BY <1>2 DEF LineFollows, z
  <2>1. /\ known = LiveIds /\ pendingTombstones \cap LiveIds = {}
        /\ \A h \in DOMAIN line : line[h].id \in LiveIds /\ LastAbout(line, h) => line[h].op = "upsert"
        /\ \A j \in SessionIds : NoneAbout(line, j) =>
             /\ j \in LiveIds => j \in Shown \/ (retryTimer /\ pendingUpserts[j] # 0)
             /\ j \in KnownStill => j \in LiveIds \cup lost \/ (retryTimer /\ j \in pendingTombstones)
    BY <1>1 DEF LineFollows
  <2>2. \A h \in DOMAIN z : z[h].id \in LiveIds' /\ LastAbout(z, h) => z[h].op = "upsert"
    <3>. SUFFICES ASSUME NEW h \in DOMAIN z, z[h].id \in LiveIds, LastAbout(z, h)  PROVE z[h].op = "upsert"
      BY <1>8
    <3>1. h + 1 \in DOMAIN line /\ z[h] = line[h + 1] /\ LastAbout(line, h + 1)
      BY <1>3 DEF Rest
    <3>. QED  BY <2>1, <3>1
  <2>3. ASSUME NEW j \in SessionIds, NoneAbout(z, j)
        PROVE  /\ j \in LiveIds' => j \in Shown' \/ (retryTimer' /\ pendingUpserts'[j] # 0)
               /\ j \in KnownStill' => j \in LiveIds' \cup lost' \/ (retryTimer' /\ j \in pendingTombstones')
    <3>1. NoneAbout(line, j) \/ (c.id = j /\ LastAbout(line, 1))
      BY <1>3, <2>3 DEF Rest, c
    <3>2. CASE c.id = j /\ LastAbout(line, 1)
      <4>1. j \in LiveIds => c.op = "upsert"
        BY <1>4, <2>1, <3>2 DEF c
      <4>2. j \in LiveIds => j \in Shown \/ (retryTimer' /\ pendingUpserts'[j] # 0)
        BY <1>5, <1>6, <1>18, <2>1, <3>2, <4>1
      <4>3. c.op = "upsert" => j \in LiveIds \cup lost
        BY <1>6, <1>7, <2>1, <3>2
      <4>4. c.op = "forget" /\ j \in KnownStill => j \in lost \/ (retryTimer' /\ j \in pendingTombstones')
        BY <1>5, <1>6, <1>11, <1>18, <3>2
      <4>. QED  BY <1>2, <1>5, <1>8, <4>2, <4>3, <4>4
    <3>3. CASE NoneAbout(line, j)
      <4>1. j # c.id
        BY <1>4, <3>3 DEF NoneAbout, c
      <4>. QED  BY <1>2, <1>8, <1>9, <1>18, <2>1, <3>3, <4>1
    <3>. QED  BY <3>1, <3>2, <3>3
  <2>. QED  BY <1>2, <1>8, <1>18, <2>1, <2>2, <2>3
<1>20. RegistryTypes'
  BY <1>1, <1>2, <1>3, <1>5, <1>8, <1>18 DEF RegistryTypes, z, Rest
<1>21. \A j \in SessionIds : pendingUpserts'[j] # 0 => j \in known' \cup lost'
  <2>. SUFFICES ASSUME NEW j \in SessionIds, pendingUpserts'[j] # 0  PROVE j \in known \cup lost
    BY <1>2, <1>8
  <2>1. pendingUpserts[j] # 0 \/ j \in known
    BY <1>18
  <2>. QED  BY <1>1, <2>1
<1>22. AnsweredFirst(line') /\ (~joined' => line' = <<>>)
  <2>1. joined
    BY <1>1, <1>2
  <2>. QED  BY <1>1, <1>2, <1>3, <2>1 DEF z, Rest
<1>. QED  BY <1>15, <1>17, <1>19, <1>20, <1>21, <1>22 DEF RegistryInv

LEMMA RegistryInvNext == RegistryInv /\ [RegistryNext]_registryVars => RegistryInv'
<1>. SUFFICES ASSUME RegistryInv, [RegistryNext]_registryVars  PROVE RegistryInv'
  OBVIOUS
<1>1. ASSUME NEW i \in SessionIds, createRecord(i)  PROVE RegistryInv'
  BY <1>1, CreateFollows
<1>2. ASSUME NEW i \in SessionIds, forgetRecord(i)  PROVE RegistryInv'
  BY <1>2, ForgetFollows
<1>3. ASSUME NEW i \in SessionIds, NEW j \in SessionIds, handOver(i, j)  PROVE RegistryInv'
  BY <1>3, HandOverFollows
<1>4. CASE RouterHandles
  BY <1>4, HandleFollows
<1>5. CASE AnswerLands
  BY <1>5, AnswerFollows
<1>6. CASE flush
  BY <1>6, FlushFollows
<1>7. CASE reconcile
  BY <1>7, ReconcileFollows
<1>8. CASE Disconnected
  BY <1>8, DisconnectFollows
<1>9. CASE GatewayRestarts
  BY <1>9, RestartFollows
<1>11. CASE StrayHandled
  BY <1>11, StrayFollows
<1>10. CASE UNCHANGED registryVars
  BY <1>10 DEF registryVars, RegistryInv, RegistryTypes, LineTells, LineFollows, InSight, LiveIds, Shown, KnownStill
<1>. QED  BY <1>1, <1>2, <1>3, <1>4, <1>5, <1>6, <1>7, <1>8, <1>9, <1>10, <1>11 DEF RegistryNext

LEMMA RestsRight == RegistryInv => RegistryFollows
<1>. SUFFICES ASSUME RegistryInv, Quiet, ~moved  
              PROVE  LiveIds \subseteq Shown /\ KnownStill \subseteq LiveIds \cup lost
  BY DEF RegistryFollows, RecordsRegistered, ForgottenGone, Shown, KnownStill
<1>1. LineFollows /\ KnownStill \subseteq SessionIds /\ LiveIds \subseteq SessionIds
  BY DEF RegistryInv, RegistryTypes, LiveIds, KnownStill
<1>2. joined /\ ~retryTimer /\ line = <<>>
  BY DEF Quiet
<1>3. \A i \in SessionIds : NoneAbout(line, i)
  BY <1>2 DEF NoneAbout
<1>. QED  BY <1>1, <1>2, <1>3 DEF LineFollows

\* A reporter at rest has left the Router with the sessions the gateway records, for
\* any finite set of session ids, any number of records, calls out and registrations:
\* over refused calls, answers that come after the next report, lost connections and
\* restarts, but for the forgets the reporter itself loses (sessionRegistryReporter.ts)
\* and the changes the Router's store refused although they were answered ok
\* (inboxService.ts).
THEOREM RecordsFollowed == RegistrySpec => []RegistryFollows
<1>1. RegistrySpec => []RegistryInv
  BY RegistryInvInit, RegistryInvNext, PTL DEF RegistrySpec
<1>. QED  BY <1>1, RestsRight, PTL

=============================================================================
