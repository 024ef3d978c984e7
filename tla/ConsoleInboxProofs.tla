------------------------- MODULE ConsoleInboxProofs -------------------------
(***************************************************************************)
(* Proofs about ConsoleInbox, for any set of phones, any frame and page    *)
(* size, any number of rows and any number of months.                      *)
(***************************************************************************)
EXTENDS ConsoleInbox, WellFoundedInduction, FiniteSetTheorems, SequenceTheorems, TLAPS

----------------------------------------------------------------------------
(* The least and the greatest element *)

(* A non-empty set of naturals has a least element. *)
LEMMA Least ==
    ASSUME NEW T \in SUBSET Nat, T # {}
    PROVE  \E m \in T : \A k \in T : m <= k
<1> DEFINE R == OpToRel(<, Nat)
<1>1. \E x \in T : \A y \in T : ~ (<<y, x>> \in R)
  <2>1. IsWellFoundedOn(R, Nat)
    BY NatLessThanWellFounded
  <2> HIDE DEF R
  <2> QED
    BY <2>1, WFMin
<1>2. \A x, y \in Nat : ~ (<<y, x>> \in R) => x <= y
  BY DEF OpToRel
<1> HIDE DEF R
<1> QED
  BY <1>1, <1>2

(* A non-empty set of naturals below a bound has a greatest element. *)
LEMMA Greatest ==
    ASSUME NEW n \in Nat, NEW T \in SUBSET (0 .. n), T # {}
    PROVE  \E m \in T : \A k \in T : m >= k
<1> DEFINE U == {n - t : t \in T}
<1>1. U \in SUBSET Nat
  OBVIOUS
<1>2. U # {}
  <2>1. PICK t \in T : TRUE
    OBVIOUS
  <2>2. n - t \in U
    OBVIOUS
  <2> QED
    BY <2>2
<1>3. PICK u \in U : \A k \in U : u <= k
  <2> HIDE DEF U
  <2> QED
    BY <1>1, <1>2, Least
<1>4. PICK m \in T : u = n - m
  OBVIOUS
<1>5. \A k \in T : n - m <= n - k
  BY <1>3, <1>4
<1> QED
  BY <1>5

(* Min and Max of a set of sequence numbers or cursors. *)
LEMMA MinIs ==
    ASSUME NEW T \in SUBSET Nat, T # {}
    PROVE  Min(T) \in T /\ \A k \in T : Min(T) <= k
<1> QED
  BY Least, Zenon DEF Min

(* Max of a set of sequence numbers or cursors below a bound. *)
LEMMA MaxIs ==
    ASSUME NEW n \in Nat, NEW T \in SUBSET (0 .. n), T # {}
    PROVE  Max(T) \in T /\ \A k \in T : Max(T) >= k
<1> QED
  BY Greatest, Zenon DEF Max


(* Max of two numbers. *)
LEMMA MaxOfTwo ==
    ASSUME NEW a \in Nat, NEW b \in Nat
    PROVE  Max({a, b}) = IF a >= b THEN a ELSE b
<1>1. {a, b} \in SUBSET (0 .. a + b) /\ {a, b} # {} /\ a + b \in Nat
  OBVIOUS
<1>2. Max({a, b}) \in {a, b} /\ \A k \in {a, b} : Max({a, b}) >= k
  BY <1>1, MaxIs
<1> QED
  BY <1>2

----------------------------------------------------------------------------
(* Types *)

Epochs == {Unstored} \cup 0 .. MaxMonths + 1

(* Frames to a phone and to the Router. *)
Welcomes   == [type : {"welcome"}, cursor : 0 .. MaxRows, epoch : Epochs, floor : 1 .. MaxRows + 1]
RowFrames  == [type : {"rows"}, rows : SUBSET Seqs, cursor : Seqs]
StaleOnes  == [type : {"stale"}, floor : 1 .. MaxRows + 1]
Frames     == Welcomes \cup RowFrames \cup StaleOnes
Acks       == [type : {"ack"}, cursor : 0 .. MaxRows, epoch : Epochs]
Calls      == {Hello} \cup Acks

InboxTyped ==
    /\ rows \subseteq Seqs /\ next \in 1 .. MaxRows + 1 /\ floor \in 1 .. MaxRows + 1
    /\ \A s \in rows : s < next
    /\ consumer \in [Phones -> Positions]
    /\ minted \in [Phones -> 0 .. MaxMonths + 1]
    /\ old \subseteq rows /\ idle \subseteq Phones /\ months \in 0 .. MaxMonths

NetworkTyped ==
    /\ bound \subseteq Phones
    /\ toPhone \in [Phones -> Seq(Frames)]
    /\ toRouter \in [Phones -> Seq(Calls)]

CoordTyped ==
    /\ link \in [Phones -> {"poll", "opening", "socket"}]
    /\ cursor \in [Phones -> 0 .. MaxRows]
    /\ epoch \in [Phones -> Epochs]
    /\ advance \in [Phones -> Positions]

PhoneTyped ==
    /\ visible \in [Phones -> BOOLEAN]
    /\ tick \in [Phones -> [pc : {"idle", "read", "advance"}, at : Positions]]
    /\ jobs \in [Phones -> SUBSET Jobs]
    /\ seen \in [Phones -> SUBSET Seqs] /\ excused \in [Phones -> SUBSET Seqs]

(* A record carries an epoch minted for its phone, and a phone is given a  *)
(* new one only after a month made its record idle.                        *)
EpochsMinted ==
    \A p \in Phones :
        /\ consumer[p].epoch \in 0 .. minted[p]
        /\ consumer[p].epoch = 0 => consumer[p] = None
        /\ minted[p] <= months + 1
        /\ p \in idle \/ consumer[p] = None => minted[p] <= months

Typed == InboxTyped /\ NetworkTyped /\ CoordTyped /\ PhoneTyped /\ EpochsMinted

(* Typed says what TypeOK says. *)
LEMMA TypedIsTypeOK == Typed => TypeOK
<1> QED
  BY DEF Typed, InboxTyped, NetworkTyped, CoordTyped, PhoneTyped, TypeOK, Epochs

(* The frames the Router and the phone make. *)
LEMMA FrameTypes ==
    ASSUME Typed
    PROVE  /\ \A c \in 0 .. MaxRows, e \in Epochs : Welcome(c, e) \in Frames /\ Ack(c, e) \in Calls
           /\ \A set \in SUBSET Seqs, c \in Seqs : InboxRows(set, c) \in Frames
           /\ Stale(floor) \in Frames
           /\ Hello \in Calls
<1> QED
  BY DEF Typed, InboxTyped, Frames, Welcomes, RowFrames, StaleOnes, Calls, Acks,
         Welcome, InboxRows, Stale, Ack

(* Positions and their parts. *)
LEMMA PositionTypes ==
    /\ None \in Positions
    /\ \A c \in 0 .. MaxRows, e \in Epochs : Position(c, e) \in Positions
    /\ \A q \in Positions : /\ q.cursor \in 0 .. MaxRows /\ q.epoch \in Epochs
                             /\ q = Position(q.cursor, q.epoch)
<1> QED
  BY BoundsAssumption DEF None, Position, Positions, Epochs

(* A page holds rows of the inbox from its start on; its last is a row. *)
LEMMA PageTypes ==
    ASSUME Typed, NEW from \in Nat, NEW n \in Nat
    PROVE  /\ Page(from, n) \subseteq rows
           /\ \A s \in Page(from, n) : s >= from
           /\ Page(from, n) # {} => /\ Max(Page(from, n)) \in Page(from, n)
                                    /\ \A s \in Page(from, n) : s <= Max(Page(from, n))
<1>1. Page(from, n) \subseteq rows /\ \A s \in Page(from, n) : s >= from
  BY DEF Page
<1>2. rows \subseteq 0 .. MaxRows
  BY BoundsAssumption DEF Typed, InboxTyped, Seqs
<1>3. Page(from, n) # {} => /\ Max(Page(from, n)) \in Page(from, n)
                            /\ \A s \in Page(from, n) : Max(Page(from, n)) >= s
  BY <1>1, <1>2, BoundsAssumption, MaxIs
<1> QED
  BY <1>1, <1>2, <1>3

(* What a drain sends is a sequence of frames. *)
LEMMA DrainedTypes ==
    ASSUME Typed, NEW record \in Positions, NEW c \in 0 .. MaxRows, NEW e \in Epochs
    PROVE  Drained(record, c, e) \in Seq(Frames)
<1> DEFINE page == Page(c + 1, RowsPerFrame)
<1>1. page \subseteq Seqs /\ (page # {} => Max(page) \in Seqs)
  BY PageTypes, BoundsAssumption DEF Typed, InboxTyped
<1>2. Stale(floor) \in Frames /\ (page # {} => InboxRows(page, Max(page)) \in Frames)
  BY <1>1, FrameTypes
<1> HIDE DEF page
<1>3. <<Stale(floor)>> \in Seq(Frames) /\ <<>> \in Seq(Frames)
      /\ (page # {} => <<InboxRows(page, Max(page))>> \in Seq(Frames))
  BY <1>2
<1> QED
  BY <1>3 DEF Drained, page

(* What is sent to a phone keeps its queue one of frames. *)
LEMMA SentTypes ==
    ASSUME Typed, NEW p \in Phones, NEW frames \in Seq(Frames)
    PROVE  Sent(p, frames) \in Seq(Frames)
<1>1. toPhone[p] \in Seq(Frames)
  BY DEF Typed, NetworkTyped
<1> QED
  BY <1>1, ConcatProperties DEF Sent

(* The initial state is typed. *)
LEMMA InitTyped == Init => Typed
<1> SUFFICES ASSUME Init PROVE Typed
  OBVIOUS
<1> USE DEF Init
<1>1. InboxTyped
  BY BoundsAssumption, PositionTypes DEF InboxTyped
<1>2. NetworkTyped
  BY DEF NetworkTyped
<1>3. CoordTyped
  BY BoundsAssumption, PositionTypes DEF CoordTyped, Epochs
<1>4. PhoneTyped
  <2>1. Idle \in [pc : {"idle", "read", "advance"}, at : Positions]
    BY PositionTypes DEF Idle
  <2> QED
    BY <2>1 DEF PhoneTyped
<1>5. EpochsMinted
  BY BoundsAssumption DEF EpochsMinted, None, Position
<1> QED
  BY <1>1, <1>2, <1>3, <1>4, <1>5 DEF Typed

(* A row is appended. *)
LEMMA AppendTyped == ASSUME Typed, AppendRow PROVE Typed'
<1> USE DEF AppendRow, time, phone, coord
<1>1. next \in Seqs /\ {next} \subseteq Seqs
  BY BoundsAssumption DEF Typed, InboxTyped, Seqs
<1>2. InboxTyped'
  BY <1>1, BoundsAssumption DEF Typed, InboxTyped
<1>3. NetworkTyped'
  <2>1. <<InboxRows({next}, next)>> \in Seq(Frames)
    BY <1>1, FrameTypes
  <2>2. \A p \in Phones : Sent(p, <<InboxRows({next}, next)>>) \in Seq(Frames)
    BY <2>1, SentTypes
  <2> QED
    BY <2>2 DEF Typed, NetworkTyped
<1>4. CoordTyped' /\ PhoneTyped' /\ EpochsMinted'
  BY DEF Typed, CoordTyped, PhoneTyped, EpochsMinted
<1> QED
  BY <1>2, <1>3, <1>4 DEF Typed

(* A hello: the record it leaves, and the epoch it answers with. *)
LEMMA RegisteredTypes ==
    ASSUME Typed, NEW p \in Phones,
           NEW record \in {Registered(p), consumer[p]}
    PROVE  /\ record \in Positions /\ record.epoch \in Nat
           /\ Max({minted[p], record.epoch}) \in 0 .. MaxMonths + 1
           /\ record.epoch <= Max({minted[p], record.epoch})
           /\ record.epoch = 0 => record = None
           /\ (IF record = None THEN Unstored ELSE record.epoch) \in Epochs
<1>1. consumer[p] \in Positions /\ minted[p] \in 0 .. MaxMonths + 1 /\ consumer[p].epoch \in 0 .. minted[p]
  BY DEF Typed, InboxTyped, EpochsMinted
<1>2. consumer[p] = None => minted[p] + 1 \in 1 .. MaxMonths + 1
  BY <1>1, BoundsAssumption DEF Typed, InboxTyped, EpochsMinted
<1>3. record \in Positions /\ record.epoch \in 0 .. MaxMonths + 1
  BY <1>1, <1>2, PositionTypes, BoundsAssumption DEF Registered, Epochs, Position
<1>4. record.epoch = 0 => record = None
  BY <1>1, <1>2 DEF Registered, Position, Typed, EpochsMinted
<1>5. Max({minted[p], record.epoch}) = IF minted[p] >= record.epoch THEN minted[p] ELSE record.epoch
  BY <1>1, <1>3, MaxOfTwo
<1> QED
  BY <1>1, <1>3, <1>4, <1>5 DEF Epochs

(* A hello is handled. *)
LEMMA HelloTyped == ASSUME Typed, NEW p \in Phones, HandleHello(p) PROVE Typed'
<1>1. PICK stored \in Done({p}) :
         LET record  == IF p \in stored THEN Registered(p) ELSE consumer[p]
             given   == IF record = None THEN Unstored ELSE record.epoch
             drained == Drained(record, record.cursor, given)
         IN  /\ consumer' = [consumer EXCEPT ![p] = record]
             /\ minted' = [minted EXCEPT ![p] = Max({@, record.epoch})]
             /\ idle' = idle \ stored
             /\ toPhone' = [toPhone EXCEPT ![p] =
                    Sent(p, <<Welcome(record.cursor, given)>> \o drained)]
             /\ bound' = IF Refuses(drained) THEN bound \ {p} ELSE bound \cup {p}
  BY DEF HandleHello
<1>2. toRouter[p] # <<>> /\ toRouter' = [toRouter EXCEPT ![p] = Tail(@)]
      /\ UNCHANGED <<rows, next, floor, old, months, phone>>
  BY DEF HandleHello
<1> DEFINE record  == IF p \in stored THEN Registered(p) ELSE consumer[p]
           given   == IF record = None THEN Unstored ELSE record.epoch
           drained == Drained(record, record.cursor, given)
           m       == Max({minted[p], record.epoch})
<1>3. /\ record \in Positions /\ record.epoch \in Nat /\ given \in Epochs
      /\ m \in 0 .. MaxMonths + 1 /\ record.epoch <= m /\ (record.epoch = 0 => record = None)
  BY RegisteredTypes
<1>4. consumer[p] \in Positions /\ minted[p] \in 0 .. MaxMonths + 1 /\ consumer[p].epoch \in 0 .. minted[p]
  BY DEF Typed, InboxTyped, EpochsMinted
<1>5. \/ record = consumer[p] /\ m = minted[p] /\ (record = None => p \notin stored)
      \/ consumer[p] = None /\ record # None /\ m <= minted[p] + 1 /\ p \in stored
  <2>1. CASE record = consumer[p]
    <3>1. m = minted[p]
      BY <1>4, <2>1, MaxOfTwo
    <3>2. p \in stored => record # None
      BY <1>4 DEF Registered, None, Position
    <3> QED
      BY <2>1, <3>1, <3>2
  <2>2. CASE record # consumer[p]
    <3>1. p \in stored /\ consumer[p] = None /\ record = Position(0, minted[p] + 1)
      BY <2>2 DEF Registered
    <3>2. record # None
      BY <3>1, <1>4 DEF None, Position
    <3>3. m <= minted[p] + 1
      BY <1>3, <1>4, <3>1, MaxOfTwo DEF Position
    <3> QED
      BY <3>1, <3>2, <3>3
  <2> QED
    BY <2>1, <2>2
<1>6. record.cursor \in 0 .. MaxRows
  BY <1>3, PositionTypes
<1>7. drained \in Seq(Frames)
  BY <1>3, <1>6, DrainedTypes
<1>8. /\ consumer' = [consumer EXCEPT ![p] = record] /\ minted' = [minted EXCEPT ![p] = m]
      /\ idle' = idle \ stored
      /\ toPhone' = [toPhone EXCEPT ![p] = Sent(p, <<Welcome(record.cursor, given)>> \o drained)]
      /\ bound' \in {bound \ {p}, bound \cup {p}}
  BY <1>1
<1>s. stored \subseteq {p}
  BY DEF Done
<1> HIDE DEF record, given, drained, m
<1>9. Sent(p, <<Welcome(record.cursor, given)>> \o drained) \in Seq(Frames)
  <2>1. <<Welcome(record.cursor, given)>> \in Seq(Frames)
    BY <1>3, <1>6, FrameTypes
  <2> QED
    BY <2>1, <1>7, ConcatProperties, SentTypes
<1>10. InboxTyped'
  BY <1>2, <1>3, <1>8 DEF Typed, InboxTyped
<1>11. NetworkTyped'
  BY <1>2, <1>8, <1>9, HeadTailProperties DEF Typed, NetworkTyped
<1>12. CoordTyped' /\ PhoneTyped'
  BY <1>2 DEF Typed, CoordTyped, PhoneTyped, phone, coord
<1>13. EpochsMinted'
  <2> SUFFICES ASSUME NEW q \in Phones
               PROVE  /\ consumer'[q].epoch \in 0 .. minted'[q]
                      /\ consumer'[q].epoch = 0 => consumer'[q] = None
                      /\ minted'[q] <= months' + 1
                      /\ q \in idle' \/ consumer'[q] = None => minted'[q] <= months'
    BY DEF EpochsMinted
  <2>1. /\ consumer[q].epoch \in 0 .. minted[q]
        /\ consumer[q].epoch = 0 => consumer[q] = None
        /\ minted[q] <= months + 1
        /\ q \in idle \/ consumer[q] = None => minted[q] <= months
        /\ months \in Nat /\ months' = months /\ minted[q] \in Nat
    BY <1>2 DEF Typed, InboxTyped, EpochsMinted
  <2>2. CASE q # p
    <3>1. consumer'[q] = consumer[q] /\ minted'[q] = minted[q] /\ (q \in idle' => q \in idle)
      BY <1>8, <2>2 DEF Typed, InboxTyped
    <3> QED
      BY <2>1, <3>1
  <2>3. CASE q = p
    <3>1. consumer'[p] = record /\ minted'[p] = m /\ (p \in idle' => p \in idle /\ p \notin stored)
      BY <1>8 DEF Typed, InboxTyped
    <3>2. record.epoch \in 0 .. m
      BY <1>3
    <3> QED
      BY <1>3, <1>5, <2>1, <2>3, <3>1, <3>2
  <2> QED
    BY <2>2, <2>3
<1> QED
  BY <1>10, <1>11, <1>12, <1>13 DEF Typed

(* What the head of a queue is. *)
LEMMA HeadTypes ==
    ASSUME Typed, NEW p \in Phones
    PROVE  /\ toPhone[p] \in Seq(Frames) /\ toRouter[p] \in Seq(Calls)
           /\ toPhone[p] # <<>> => Head(toPhone[p]) \in Frames /\ Tail(toPhone[p]) \in Seq(Frames)
           /\ toRouter[p] # <<>> => Head(toRouter[p]) \in Calls /\ Tail(toRouter[p]) \in Seq(Calls)
<1> QED
  BY HeadTailProperties DEF Typed, NetworkTyped

(* A consumer's record is moved under the epoch it has. *)
LEMMA MovedTyped ==
    ASSUME Typed, NEW p \in Phones, NEW at \in Positions,
           ~ AdvanceStale(consumer[p], at.cursor, at.epoch),
           consumer' = [consumer EXCEPT ![p] = at], idle' = idle \ {p},
           UNCHANGED <<rows, next, floor, minted, old, months>>
    PROVE  InboxTyped' /\ EpochsMinted'
<1>1. at.epoch = consumer[p].epoch /\ at.epoch # 0
  BY DEF AdvanceStale
<1>2. consumer[p] # None
  BY <1>1 DEF None, Position
<1>3. InboxTyped'
  BY DEF Typed, InboxTyped
<1>4. EpochsMinted'
  <2> SUFFICES ASSUME NEW q \in Phones
               PROVE  /\ consumer'[q].epoch \in 0 .. minted'[q]
                      /\ consumer'[q].epoch = 0 => consumer'[q] = None
                      /\ minted'[q] <= months' + 1
                      /\ q \in idle' \/ consumer'[q] = None => minted'[q] <= months'
    BY DEF EpochsMinted
  <2>1. /\ consumer[q].epoch \in 0 .. minted[q]
        /\ consumer[q].epoch = 0 => consumer[q] = None
        /\ minted[q] <= months + 1
        /\ q \in idle \/ consumer[q] = None => minted[q] <= months
    BY DEF Typed, EpochsMinted
  <2>2. at # None
    BY <1>1 DEF None, Position
  <2>3. consumer'[q] = IF q = p THEN at ELSE consumer[q]
    BY DEF Typed, InboxTyped
  <2> QED
    BY <1>1, <2>1, <2>2, <2>3
<1> QED
  BY <1>3, <1>4

(* An ack is handled. *)
LEMMA AckTyped == ASSUME Typed, NEW p \in Phones, HandleAck(p) PROVE Typed'
<1> DEFINE c == Head(toRouter[p]).cursor
           e == Head(toRouter[p]).epoch
<1>1. /\ toRouter[p] # <<>> /\ Head(toRouter[p]).type = "ack"
      /\ toRouter' = [toRouter EXCEPT ![p] = Tail(@)]
      /\ \/ UNCHANGED <<consumer, idle, toPhone, bound>>
         \/ /\ toPhone' = [toPhone EXCEPT ![p] = Sent(p, <<Stale(floor)>>)]
            /\ bound' = bound \ {p}
            /\ UNCHANGED <<consumer, idle>>
         \/ /\ ~ AdvanceStale(consumer[p], c, e)
            /\ consumer' = [consumer EXCEPT ![p] = Position(c, e)]
            /\ toPhone' = [toPhone EXCEPT ![p] = Sent(p, Drained(Position(c, e), c, e))]
            /\ idle' = idle \ {p}
            /\ UNCHANGED bound
      /\ UNCHANGED <<rows, next, floor, minted, old, months, phone>>
  BY DEF HandleAck
<1>2. c \in 0 .. MaxRows /\ e \in Epochs
  BY <1>1, HeadTypes DEF Calls, Acks, Hello
<1>3. Position(c, e) \in Positions /\ Position(c, e).cursor = c /\ Position(c, e).epoch = e
  BY <1>2, PositionTypes DEF Position
<1>4. CoordTyped' /\ PhoneTyped'
  BY <1>1 DEF Typed, CoordTyped, PhoneTyped, phone, coord
<1>5. InboxTyped' /\ EpochsMinted'
  <2>1. CASE UNCHANGED <<consumer, idle>>
    BY <1>1, <2>1 DEF Typed, InboxTyped, EpochsMinted
  <2>2. CASE /\ ~ AdvanceStale(consumer[p], c, e)
             /\ consumer' = [consumer EXCEPT ![p] = Position(c, e)]
             /\ idle' = idle \ {p}
    BY <1>1, <1>3, <2>2, MovedTyped
  <2> HIDE DEF c, e
  <2> QED
    BY <1>1, <2>1, <2>2
<1>6. NetworkTyped'
  <2> HIDE DEF c, e
  <2>1. Sent(p, <<Stale(floor)>>) \in Seq(Frames)
    <3>1. <<Stale(floor)>> \in Seq(Frames)
      BY FrameTypes
    <3> QED
      BY <3>1, SentTypes
  <2>2. Sent(p, Drained(Position(c, e), c, e)) \in Seq(Frames)
    BY <1>2, <1>3, DrainedTypes, SentTypes
  <2>3. Tail(toRouter[p]) \in Seq(Calls)
    BY <1>1, HeadTypes
  <2>4. toRouter' \in [Phones -> Seq(Calls)] /\ bound' \subseteq Phones
    BY <1>1, <2>3 DEF Typed, NetworkTyped
  <2>5. toPhone' \in [Phones -> Seq(Frames)]
    BY <1>1, <2>1, <2>2 DEF Typed, NetworkTyped
  <2> QED
    BY <2>4, <2>5 DEF NetworkTyped
<1> QED
  BY <1>4, <1>5, <1>6 DEF Typed

(* The Router loses a socket, or all of them. *)
LEMMA DropTyped ==
    ASSUME Typed, RouterRestarts \/ \E p \in Phones : RouterDrops(p)
    PROVE  Typed'
<1>1. InboxTyped' /\ CoordTyped' /\ PhoneTyped' /\ EpochsMinted'
  BY DEF RouterRestarts, RouterDrops, Typed, InboxTyped, CoordTyped, PhoneTyped, EpochsMinted,
         inbox, time, phone, coord
<1>2. NetworkTyped'
  <2>1. <<>> \in Seq(Calls)
    OBVIOUS
  <2> QED
    BY <2>1 DEF RouterRestarts, RouterDrops, Typed, NetworkTyped
<1> QED
  BY <1>1, <1>2 DEF Typed

(* The lowest cursor is a cursor; the floor of expired rows is a floor. *)
LEMMA SweepTypes ==
    ASSUME Typed, NEW records \in [Phones -> Positions], NEW expired \in SUBSET Seqs
    PROVE  /\ LowestCursor(records) \in 0 .. MaxRows
           /\ \A p \in Phones : records[p] # None => LowestCursor(records) <= records[p].cursor
           /\ ExpiredFloor(expired) \in 1 .. MaxRows + 1
           /\ floor <= ExpiredFloor(expired)
           /\ \A s \in expired : s < ExpiredFloor(expired)
<1> DEFINE cursors == {records[p].cursor : p \in {q \in Phones : records[q] # None}}
           ends    == {floor} \cup {s + 1 : s \in expired}
<1>1. cursors \subseteq 0 .. MaxRows
  BY PositionTypes
<1>2. cursors # {} => Min(cursors) \in cursors /\ \A k \in cursors : Min(cursors) <= k
  <2> HIDE DEF cursors
  <2> QED
    BY <1>1, MinIs
<1>3. ends \in SUBSET (0 .. MaxRows + 1) /\ ends # {} /\ ends \subseteq 1 .. MaxRows + 1
  BY BoundsAssumption DEF Typed, InboxTyped, Seqs
<1>4. Max(ends) \in ends /\ \A k \in ends : Max(ends) >= k
  <2> HIDE DEF ends
  <2>1. MaxRows + 1 \in Nat
    BY BoundsAssumption
  <2> QED
    BY <1>3, <2>1, MaxIs
<1>5. LowestCursor(records) = IF cursors = {} THEN 0 ELSE Min(cursors)
  BY DEF LowestCursor
<1>6. \A p \in Phones : records[p] # None => records[p].cursor \in cursors
  OBVIOUS
<1>7. ExpiredFloor(expired) = Max(ends) /\ floor \in ends /\ \A s \in expired : s + 1 \in ends
  BY DEF ExpiredFloor
<1> HIDE DEF cursors, ends
<1>8. LowestCursor(records) \in 0 .. MaxRows
  <2>1. CASE cursors = {}
    BY <2>1, <1>5, BoundsAssumption
  <2>2. CASE cursors # {}
    BY <2>2, <1>1, <1>2, <1>5
  <2> QED
    BY <2>1, <2>2
<1>9. \A p \in Phones : records[p] # None => LowestCursor(records) <= records[p].cursor
  BY <1>2, <1>5, <1>6
<1>10. ExpiredFloor(expired) \in 1 .. MaxRows + 1 /\ floor <= ExpiredFloor(expired)
  BY <1>3, <1>4, <1>7
<1>11. \A s \in expired : s < ExpiredFloor(expired)
  <2> SUFFICES ASSUME NEW s \in expired PROVE s < ExpiredFloor(expired)
    OBVIOUS
  <2>1. s \in Int /\ ExpiredFloor(expired) \in Int /\ ExpiredFloor(expired) >= s + 1
    BY <1>4, <1>7, <1>10, BoundsAssumption DEF Seqs
  <2> QED
    BY <2>1
<1> QED
  BY <1>8, <1>9, <1>10, <1>11

(* What a sweep does, its choices named. *)
SweepsTo(forgotten, expired) ==
    LET records == [p \in Phones |-> IF p \in forgotten THEN None ELSE consumer[p]]
        left    == rows \ expired
        f       == ExpiredFloor(expired)
        low     == LowestCursor(records)
    IN  /\ consumer' = records
        /\ \/ /\ low + 1 <= f \/ "commit" \in Faults
              /\ rows' = left /\ floor' = f
           \/ /\ low + 1 > f
              /\ rows' = {s \in left : s > low}
              /\ \/ floor' = low + 1
                 \/ "split" \in Faults /\ floor' = f
        /\ old' = old \cap rows'
        /\ UNCHANGED <<next, minted, idle, months, network, phone>>

(* A sweep chooses among the idle and the old. *)
LEMMA SweepChooses ==
    ASSUME Typed, SweepInbox
    PROVE  \E forgotten \in SUBSET idle, expired \in SUBSET old : SweepsTo(forgotten, expired)
<1>1. Done(old) \subseteq SUBSET old
  BY DEF Done
<1>2. Done({p \in idle : consumer[p] # None}) \subseteq SUBSET idle
  BY DEF Done
<1> QED
  BY <1>1, <1>2 DEF SweepInbox, SweepsTo

(* The sweep runs. *)
LEMMA SweepTyped == ASSUME Typed, SweepInbox PROVE Typed'
<1>1. PICK forgotten \in SUBSET idle : \E expired \in SUBSET old : SweepsTo(forgotten, expired)
  BY SweepChooses
<1>2. PICK expired \in SUBSET old : SweepsTo(forgotten, expired)
  BY <1>1
<1> DEFINE records == [p \in Phones |-> IF p \in forgotten THEN None ELSE consumer[p]]
           f       == ExpiredFloor(expired)
           low     == LowestCursor(records)
<1>3. records \in [Phones -> Positions] /\ expired \subseteq Seqs
  BY PositionTypes DEF Typed, InboxTyped
<1>4. low \in 0 .. MaxRows /\ f \in 1 .. MaxRows + 1
  BY <1>3, SweepTypes
<1>5. /\ consumer' = records /\ rows' \subseteq rows /\ floor' \in {f, low + 1} /\ old' = old \cap rows'
      /\ UNCHANGED <<next, minted, idle, months, network, phone>>
  BY <1>2 DEF SweepsTo
<1>6. InboxTyped'
  <2>1. floor' \in 1 .. MaxRows + 1
    BY <1>4, <1>5, BoundsAssumption
  <2> HIDE DEF records
  <2> QED
    BY <1>3, <1>5, <2>1 DEF Typed, InboxTyped
<1>7. NetworkTyped' /\ CoordTyped' /\ PhoneTyped'
  BY <1>5 DEF Typed, NetworkTyped, CoordTyped, PhoneTyped, network, phone, coord
<1>8. EpochsMinted'
  BY <1>5, BoundsAssumption DEF Typed, InboxTyped, EpochsMinted, None, Position
<1> QED
  BY <1>6, <1>7, <1>8 DEF Typed

(* A month passes. *)
LEMMA MonthTyped == ASSUME Typed, MonthPasses PROVE Typed'
<1> USE DEF MonthPasses, inbox, network, phone, coord
<1>1. InboxTyped'
  BY BoundsAssumption DEF Typed, InboxTyped
<1>2. NetworkTyped' /\ CoordTyped' /\ PhoneTyped'
  BY DEF Typed, NetworkTyped, CoordTyped, PhoneTyped
<1>3. EpochsMinted'
  BY DEF Typed, InboxTyped, EpochsMinted
<1> QED
  BY <1>1, <1>2, <1>3 DEF Typed

(* The phone's end of a socket closes. *)
LEMMA ClosedTypes ==
    ASSUME Typed, NEW p \in Phones, Closed(p)
    PROVE  /\ link' \in [Phones -> {"poll", "opening", "socket"}]
           /\ toPhone' \in [Phones -> Seq(Frames)]
           /\ jobs' \in [Phones -> SUBSET Jobs]
<1>1. \A j \in Jobs : [j EXCEPT !.live = FALSE] \in Jobs
  BY DEF Jobs
<1>2. {[j EXCEPT !.live = FALSE] : j \in jobs[p]} \in SUBSET Jobs
  BY <1>1 DEF Typed, PhoneTyped
<1>3. <<>> \in Seq(Frames)
  OBVIOUS
<1> QED
  BY <1>2, <1>3 DEF Closed, Typed, CoordTyped, NetworkTyped, PhoneTyped

(* The socket is opened, lost or put away. *)
LEMMA SocketTyped ==
    ASSUME Typed, NEW p \in Phones,
           Connect(p) \/ PhoneDrops(p) \/ Background(p) \/ Foreground(p)
    PROVE  Typed'
<1>1. CASE Connect(p)
  <2> USE DEF Connect, inbox, time
  <2>1. <<Hello>> \in Seq(Calls)
    BY FrameTypes
  <2>2. NetworkTyped'
    BY <1>1, <2>1 DEF Typed, NetworkTyped
  <2>3. InboxTyped' /\ CoordTyped' /\ PhoneTyped' /\ EpochsMinted'
    BY <1>1 DEF Typed, InboxTyped, CoordTyped, PhoneTyped, EpochsMinted
  <2> QED
    BY <2>2, <2>3 DEF Typed
<1>2. CASE PhoneDrops(p)
  <2> USE DEF PhoneDrops, inbox, time
  <2>1. NetworkTyped' /\ CoordTyped' /\ PhoneTyped'
    BY <1>2, ClosedTypes DEF Typed, NetworkTyped, CoordTyped, PhoneTyped
  <2>2. InboxTyped' /\ EpochsMinted'
    BY <1>2 DEF Typed, InboxTyped, EpochsMinted
  <2> QED
    BY <2>1, <2>2 DEF Typed
<1>3. CASE Background(p)
  <2> USE DEF Background, inbox, time
  <2>1. NetworkTyped' /\ CoordTyped' /\ PhoneTyped'
    BY <1>3, ClosedTypes DEF Typed, NetworkTyped, CoordTyped, PhoneTyped
  <2>2. InboxTyped' /\ EpochsMinted'
    BY <1>3 DEF Typed, InboxTyped, EpochsMinted
  <2> QED
    BY <2>1, <2>2 DEF Typed
<1>4. CASE Foreground(p)
  BY <1>4 DEF Foreground, inbox, time, network, coord, Typed, InboxTyped, NetworkTyped, CoordTyped,
         PhoneTyped, EpochsMinted
<1> QED
  BY <1>1, <1>2, <1>3, <1>4

(* A frame is taken. *)
LEMMA DeliverTyped == ASSUME Typed, NEW p \in Phones, Deliver(p) PROVE Typed'
<1>1. /\ toPhone[p] # <<>>
      /\ UNCHANGED <<inbox, time, bound, toRouter, visible, advance, tick, seen>>
  BY DEF Deliver, OnWelcome, OnRows, OnStale, Receive
<1>2. InboxTyped' /\ EpochsMinted'
  BY <1>1 DEF inbox, time, Typed, InboxTyped, EpochsMinted
<1>3. Head(toPhone[p]) \in Frames /\ Tail(toPhone[p]) \in Seq(Frames)
  BY <1>1, HeadTypes
<1>4. CASE OnWelcome(p)
  <2>1. Head(toPhone[p]) \in Welcomes
    BY <1>3, <1>4 DEF OnWelcome, Receive, Frames, RowFrames, StaleOnes
  <2>2. Head(toPhone[p]).cursor + 1 .. Head(toPhone[p]).floor - 1 \in SUBSET Seqs
    BY <2>1, BoundsAssumption DEF Welcomes, Seqs
  <2>3. NetworkTyped'
    BY <1>1, <1>3, <1>4 DEF OnWelcome, Typed, NetworkTyped
  <2>4. CoordTyped'
    BY <1>1, <1>4, <2>1 DEF OnWelcome, Typed, CoordTyped, Welcomes
  <2>5. PhoneTyped'
    BY <1>1, <1>4, <2>2 DEF OnWelcome, Typed, PhoneTyped
  <2> QED
    BY <1>2, <2>3, <2>4, <2>5 DEF Typed
<1>5. CASE OnRows(p)
  <2>1. Head(toPhone[p]) \in RowFrames
    BY <1>3, <1>5 DEF OnRows, Receive, Frames, Welcomes, StaleOnes
  <2>2. [rows |-> Head(toPhone[p]).rows, cursor |-> Head(toPhone[p]).cursor, live |-> TRUE] \in Jobs
    BY <2>1 DEF RowFrames, Jobs
  <2>3. NetworkTyped' /\ CoordTyped'
    BY <1>1, <1>3, <1>5 DEF OnRows, Typed, NetworkTyped, CoordTyped
  <2>4. PhoneTyped'
    BY <1>1, <1>5, <2>2 DEF OnRows, Typed, PhoneTyped
  <2> QED
    BY <1>2, <2>3, <2>4 DEF Typed
<1>6. CASE OnStale(p)
  <2>1. Head(toPhone[p]) \in StaleOnes
    BY <1>3, <1>6 DEF OnStale, Receive, Frames, Welcomes, RowFrames
  <2>2. 1 .. Head(toPhone[p]).floor - 1 \in SUBSET Seqs /\ Head(toPhone[p]).floor - 1 \in 0 .. MaxRows
    BY <2>1, BoundsAssumption DEF StaleOnes, Seqs
  <2>3. NetworkTyped'
    BY <1>1, <1>6, ClosedTypes DEF OnStale, Typed, NetworkTyped
  <2>4. CoordTyped'
    BY <1>1, <1>6, <2>2, ClosedTypes DEF OnStale, Typed, CoordTyped
  <2>5. PhoneTyped'
    BY <1>1, <1>6, <2>2, ClosedTypes DEF OnStale, Typed, PhoneTyped
  <2> QED
    BY <1>2, <2>3, <2>4, <2>5 DEF Typed
<1> QED
  BY <1>4, <1>5, <1>6 DEF Deliver

(* A drain coroutine runs. *)
LEMMA DrainTyped == ASSUME Typed, NEW p \in Phones, DrainRows(p) PROVE Typed'
<1>1. PICK j \in jobs[p] :
         /\ jobs' = [jobs EXCEPT ![p] = @ \ {j}]
         /\ seen' = [seen EXCEPT ![p] = @ \cup j.rows]
         /\ IF j.live /\ j.cursor > cursor[p]
            THEN /\ cursor' = [cursor EXCEPT ![p] = j.cursor]
                 /\ toRouter' = [toRouter EXCEPT ![p] = Append(@, Ack(j.cursor, epoch[p]))]
            ELSE UNCHANGED <<cursor, toRouter>>
  BY DEF DrainRows
<1>2. UNCHANGED <<inbox, time, bound, toPhone, visible, link, epoch, advance, tick, excused>>
  BY DEF DrainRows
<1>3. j.rows \subseteq Seqs /\ j.cursor \in 0 .. MaxRows
  BY BoundsAssumption DEF Typed, PhoneTyped, Jobs, Seqs
<1>4. InboxTyped' /\ EpochsMinted'
  BY <1>2 DEF inbox, time, Typed, InboxTyped, EpochsMinted
<1>5. CoordTyped' /\ PhoneTyped'
  BY <1>1, <1>2, <1>3 DEF Typed, CoordTyped, PhoneTyped
<1>6. NetworkTyped'
  <2>1. toRouter[p] \in Seq(Calls) /\ Ack(j.cursor, epoch[p]) \in Calls
    BY <1>3, HeadTypes, FrameTypes DEF Typed, CoordTyped
  <2>2. Append(toRouter[p], Ack(j.cursor, epoch[p])) \in Seq(Calls)
    BY <2>1
  <2> QED
    BY <1>1, <1>2, <2>2 DEF Typed, NetworkTyped
<1> QED
  BY <1>4, <1>5, <1>6 DEF Typed

(* The phone's process ends. *)
LEMMA DeathTyped == ASSUME Typed, NEW p \in Phones, PhoneDies(p) PROVE Typed'
<1> USE DEF PhoneDies, inbox, time
<1>1. InboxTyped' /\ EpochsMinted'
  BY DEF Typed, InboxTyped, EpochsMinted
<1>2. NetworkTyped'
  <2>1. <<>> \in Seq(Frames)
    OBVIOUS
  <2> QED
    BY <2>1 DEF Typed, NetworkTyped
<1>3. CoordTyped'
  BY BoundsAssumption, PositionTypes DEF Typed, CoordTyped, Epochs
<1>4. PhoneTyped'
  <2>1. Idle \in [pc : {"idle", "read", "advance"}, at : Positions]
    BY PositionTypes DEF Idle
  <2> QED
    BY <2>1 DEF Typed, PhoneTyped
<1> QED
  BY <1>1, <1>2, <1>3, <1>4 DEF Typed

(* The phone adopts the floor. *)
LEMMA AdoptTypes ==
    ASSUME Typed, NEW p \in Phones, AdoptFloor(p)
    PROVE  /\ cursor' \in [Phones -> 0 .. MaxRows]
           /\ excused' \in [Phones -> SUBSET Seqs]
<1>1. floor - 1 \in 0 .. MaxRows /\ 1 .. floor - 1 \in SUBSET Seqs
  BY BoundsAssumption DEF Typed, InboxTyped, Seqs
<1> QED
  BY <1>1 DEF AdoptFloor, Typed, CoordTyped, PhoneTyped

(* The poll loop moves on. *)
LEMMA GoesTypes ==
    ASSUME Typed, NEW p \in Phones, NEW pc \in {"idle", "read", "advance"}, NEW at \in Positions,
           Goes(p, pc, at)
    PROVE  tick' \in [Phones -> [pc : {"idle", "read", "advance"}, at : Positions]]
<1> QED
  BY DEF Goes, Typed, PhoneTyped

(* An inbox_advance, whatever becomes of it. *)
LEMMA AdvanceTypes ==
    ASSUME Typed, NEW p \in Phones, NEW at \in Positions, NEW then \in {"idle", "read"},
           SendAdvance(p, at, then),
           UNCHANGED <<rows, next, floor, minted, old, months, network, visible, link, epoch,
                       jobs, seen>>
    PROVE  Typed'
<1>1. InboxTyped' /\ EpochsMinted'
  <2>1. CASE UNCHANGED <<consumer, idle>>
    BY <2>1 DEF Typed, InboxTyped, EpochsMinted
  <2>2. CASE ~ UNCHANGED <<consumer, idle>>
    <3>1. /\ ~ AdvanceStale(consumer[p], at.cursor, at.epoch)
          /\ consumer' = [consumer EXCEPT ![p] = at] /\ idle' = idle \ {p}
      BY <2>2 DEF SendAdvance
    <3> QED
      BY <3>1, MovedTyped
  <2> QED
    BY <2>1, <2>2
<1>2. NetworkTyped'
  BY DEF Typed, NetworkTyped, network
<1>3. /\ cursor' \in [Phones -> 0 .. MaxRows] /\ excused' \in [Phones -> SUBSET Seqs]
  BY AdoptTypes DEF SendAdvance, Typed, CoordTyped, PhoneTyped
<1>4. advance' \in [Phones -> Positions]
  BY PositionTypes DEF SendAdvance, Typed, CoordTyped
<1>5. tick' \in [Phones -> [pc : {"idle", "read", "advance"}, at : Positions]]
  BY GoesTypes, PositionTypes DEF SendAdvance
<1>6. CoordTyped' /\ PhoneTyped'
  BY <1>3, <1>4, <1>5 DEF Typed, CoordTyped, PhoneTyped
<1> QED
  BY <1>1, <1>2, <1>6 DEF Typed

(* The poll loop takes a step. *)
LEMMA PollTyped == ASSUME Typed, NEW p \in Phones, Poll(p) PROVE Typed'
<1>1. CASE PollStart(p)
  <2>1. UNCHANGED <<rows, next, floor, minted, old, months, network, visible, link, epoch, jobs, seen>>
    BY <1>1 DEF PollStart
  <2>2. CASE SendAdvance(p, advance[p], "read")
    BY <2>1, <2>2, AdvanceTypes DEF Typed, CoordTyped
  <2>3. CASE Goes(p, "read", None) /\ UNCHANGED <<consumer, idle, cursor, advance, excused>>
    <3>1. tick' \in [Phones -> [pc : {"idle", "read", "advance"}, at : Positions]]
      BY <2>3, GoesTypes, PositionTypes
    <3> QED
      BY <2>1, <2>3, <3>1 DEF Typed, InboxTyped, NetworkTyped, CoordTyped, PhoneTyped, EpochsMinted, network
  <2> QED
    BY <1>1, <2>2, <2>3 DEF PollStart
<1>2. CASE PollRead(p)
  <2> DEFINE page == Page(cursor[p] + 1, RowsPerPoll)
             last == Max(page)
  <2>1. /\ \/ /\ AdoptFloor(p) /\ Goes(p, "idle", None) /\ UNCHANGED <<idle, seen>>
           \/ /\ idle' = idle \ {p}
              /\ seen' = [seen EXCEPT ![p] = @ \cup page]
              /\ \/ /\ page # {} /\ cursor' = [cursor EXCEPT ![p] = last]
                    /\ Goes(p, "advance", Position(last, epoch[p]))
                 \/ Goes(p, "idle", None) /\ UNCHANGED cursor
              /\ UNCHANGED excused
           \/ Goes(p, "idle", None) /\ UNCHANGED <<idle, seen, cursor, excused>>
        /\ UNCHANGED <<inbox, old, months, network, visible, link, epoch, advance, jobs>>
    BY <1>2 DEF PollRead
  <2>2. page \subseteq Seqs /\ (page # {} => last \in 0 .. MaxRows)
    <3>1. cursor[p] + 1 \in Nat /\ RowsPerPoll \in Nat
      BY BoundsAssumption DEF Typed, CoordTyped
    <3>2. page \subseteq rows /\ (page # {} => last \in page)
      BY <3>1, PageTypes
    <3>3. rows \subseteq Seqs /\ \A s \in Seqs : s \in 0 .. MaxRows
      BY BoundsAssumption DEF Typed, InboxTyped, Seqs
    <3> HIDE DEF page, last
    <3> QED
      BY <3>2, <3>3
  <2>3. page # {} => Position(last, epoch[p]) \in Positions
    BY <2>2, PositionTypes DEF Typed, CoordTyped
  <2> HIDE DEF page, last
  <2>4. idle' \subseteq idle /\ InboxTyped' /\ NetworkTyped' /\ EpochsMinted'
    BY <2>1 DEF Typed, InboxTyped, NetworkTyped, EpochsMinted, inbox, network
  <2>5. /\ cursor' \in [Phones -> 0 .. MaxRows] /\ excused' \in [Phones -> SUBSET Seqs]
        /\ seen' \in [Phones -> SUBSET Seqs]
    <3>1. /\ cursor \in [Phones -> 0 .. MaxRows] /\ excused \in [Phones -> SUBSET Seqs]
          /\ seen \in [Phones -> SUBSET Seqs]
      BY DEF Typed, CoordTyped, PhoneTyped
    <3>2. CASE AdoptFloor(p) /\ UNCHANGED seen
      BY <3>1, <3>2, AdoptTypes
    <3>3. CASE /\ seen' = [seen EXCEPT ![p] = @ \cup page] /\ UNCHANGED excused
               /\ (page # {} /\ cursor' = [cursor EXCEPT ![p] = last]) \/ UNCHANGED cursor
      BY <3>1, <3>3, <2>2
    <3>4. CASE UNCHANGED <<seen, cursor, excused>>
      BY <3>1, <3>4
    <3> QED
      BY <2>1, <3>2, <3>3, <3>4
  <2>6. tick' \in [Phones -> [pc : {"idle", "read", "advance"}, at : Positions]]
    BY <2>1, <2>3, GoesTypes, PositionTypes
  <2> QED
    BY <2>1, <2>4, <2>5, <2>6 DEF Typed, CoordTyped, PhoneTyped
<1>3. CASE PollAdvance(p)
  <2>1. tick[p].at \in Positions
    BY DEF Typed, PhoneTyped
  <2> QED
    BY <1>3, <2>1, AdvanceTypes DEF PollAdvance
<1> QED
  BY <1>1, <1>2, <1>3 DEF Poll

(* Every step keeps the types. *)
LEMMA StepTyped == Typed /\ [Next]_vars => Typed'
<1> SUFFICES ASSUME Typed, [Next]_vars PROVE Typed'
  OBVIOUS
<1>1. CASE RouterStep
  BY <1>1, AppendTyped, HelloTyped, AckTyped, DropTyped, SweepTyped, MonthTyped DEF RouterStep, Reply
<1>2. ASSUME NEW p \in Phones, PhoneStep(p) PROVE Typed'
  BY <1>2, SocketTyped, DeliverTyped, DrainTyped, DeathTyped, PollTyped DEF PhoneStep
<1>3. CASE UNCHANGED vars
  BY <1>3 DEF vars, inbox, time, network, phone, coord, Typed, InboxTyped, NetworkTyped, CoordTyped,
         PhoneTyped, EpochsMinted
<1> QED
  BY <1>1, <1>2, <1>3 DEF Next

(* Cursors, epochs, frames and polls keep their types, and a record        *)
(* carries an epoch that was stored for its phone, whatever of the         *)
(* failures happens (inboxService.ts, consoleSockets.ts, drainTick).       *)
THEOREM TypeCorrect == Spec => []TypeOK
<1>1. Spec => []Typed
  BY InitTyped, StepTyped, PTL DEF Spec
<1> QED
  BY <1>1, TypedIsTypeOK, PTL

----------------------------------------------------------------------------
(* What the Router's cursor passes: the inductive invariant *)

(* Every row still held fits in one frame. *)
BacklogFits == Cardinality(rows) <= RowsPerFrame

(* A row is carried by one of the first n frames of a queue. *)
Carried(q, n, s) == \E k \in DOMAIN q : k <= n /\ q[k].type = "rows" /\ s \in q[k].rows

(* The cursors a phone's state holds or may come to hold at the Router. *)
AckedBy(q)  == {q[i].cursor : i \in {k \in DOMAIN q : q[k].type = "ack"}}
LiveOf(set) == {j.cursor : j \in {k \in set : k.live}}
CursorsOf(p) ==
    {consumer[p].cursor, cursor[p], advance[p].cursor, tick[p].at.cursor}
    \cup AckedBy(toRouter[p]) \cup LiveOf(jobs[p])

(* Below each of them everything is accounted for. *)
CursorsCovered(p) == \A c \in CursorsOf(p) : 1 .. c \subseteq Accounted(p)

(* A frame names a cursor only if what is below it is accounted for or     *)
(* carried by the frames up to it.                                         *)
QueueCovers(A, q) ==
    \A i \in DOMAIN q :
        /\ q[i].type = "welcome" => 1 .. q[i].cursor \subseteq A
        /\ q[i].type = "rows" => \A s \in 1 .. q[i].cursor : s \in A \/ Carried(q, i, s)

(* A bound console has been sent everything appended so far. *)
SentAll(A, q, m) == \A s \in 1 .. m : s \in A \/ Carried(q, Len(q), s)

FramesCovered(p) ==
    /\ QueueCovers(Accounted(p), toPhone[p])
    /\ p \in bound /\ link[p] # "poll" => SentAll(Accounted(p), toPhone[p], next - 1)
    /\ link[p] = "poll" => toPhone[p] = <<>>

Covered == \A p \in Phones : CursorsCovered(p) /\ FramesCovered(p)

KInv == Typed /\ NoHoleAboveFloor /\ Covered

(* Covered says what CursorCovered says. *)
LEMMA CoveredIsCursorCovered == Covered => CursorCovered
<1> QED
  BY DEF Covered, CursorsCovered, CursorsOf, CursorCovered

(* A page is an initial part of what is ahead: all of it when it fits. *)
LEMMA PagePrefix ==
    ASSUME Typed, NEW from \in Nat, NEW n \in Nat \ {0}
    PROVE  /\ \A s \in Page(from, n) : \A t \in rows : t >= from /\ t <= s => t \in Page(from, n)
           /\ Cardinality(rows) <= n => \A t \in rows : t >= from => t \in Page(from, n)
<1> DEFINE ahead    == {s \in rows : s >= from}
           below(t) == {u \in ahead : u < t}
<1>1. IsFiniteSet(rows) /\ rows \subseteq Int
  <2>1. MaxRows \in Int /\ rows \in SUBSET (1 .. MaxRows)
    BY BoundsAssumption DEF Typed, InboxTyped, Seqs
  <2>2. IsFiniteSet(1 .. MaxRows)
    BY <2>1, FS_Interval
  <2>3. IsFiniteSet(rows)
    BY <2>1, <2>2, FS_Subset, Zenon
  <2> QED
    BY <2>1, <2>3
<1>2. \A t \in ahead : /\ IsFiniteSet(below(t)) /\ below(t) \subseteq rows
                       /\ Cardinality(below(t)) \in Nat
  BY <1>1, FS_Subset, FS_CardinalityType
<1>3. \A s, t \in ahead : t <= s => below(t) \subseteq below(s)
  <2> SUFFICES ASSUME NEW s \in ahead, NEW t \in ahead, t <= s, NEW u \in below(t)
               PROVE  u \in below(s)
    OBVIOUS
  <2>1. s \in Int /\ t \in Int /\ u \in Int /\ u \in ahead /\ u < t
    BY <1>1
  <2>2. u < s
    BY <2>1
  <2> QED
    BY <2>1, <2>2
<1>4. \A s, t \in ahead : t <= s => Cardinality(below(t)) <= Cardinality(below(s))
  BY <1>2, <1>3, FS_Subset
<1>5. \A t \in ahead : Cardinality(below(t)) < Cardinality(rows)
  <2> SUFFICES ASSUME NEW t \in ahead PROVE Cardinality(below(t)) < Cardinality(rows)
    OBVIOUS
  <2>1. below(t) \subseteq rows /\ t \in rows /\ t \notin below(t)
    BY <1>1
  <2>2. below(t) # rows
    BY <2>1
  <2>3. Cardinality(below(t)) <= Cardinality(rows) /\ Cardinality(below(t)) # Cardinality(rows)
    BY <1>1, <2>1, <2>2, FS_Subset
  <2> QED
    BY <1>1, <1>2, <2>3, FS_CardinalityType
<1>6. Cardinality(rows) \in Nat
  BY <1>1, FS_CardinalityType
<1>7. Page(from, n) = {t \in ahead : Cardinality(below(t)) < n}
  BY DEF Page
<1> HIDE DEF below
<1>8. \A s \in Page(from, n) : \A t \in rows : t >= from /\ t <= s => t \in Page(from, n)
  BY <1>2, <1>4, <1>7
<1>9. Cardinality(rows) <= n => \A t \in rows : t >= from => t \in Page(from, n)
  BY <1>2, <1>5, <1>6, <1>7
<1> QED
  BY <1>8, <1>9

(* What the Router reads from a cursor on, when it does not refuse, leaves *)
(* no row out.                                                             *)
LEMMA ReadLeavesNone ==
    ASSUME Typed, NoHoleAboveFloor, NEW c \in 0 .. MaxRows, NEW n \in Nat \ {0}, c + 1 >= floor
    PROVE  /\ \A s \in Page(c + 1, n) : \A t \in c + 1 .. s : t \in Page(c + 1, n)
           /\ Cardinality(rows) <= n => \A t \in c + 1 .. next - 1 : t \in Page(c + 1, n)
<1>1. /\ c \in Nat /\ c + 1 \in Nat /\ next \in Nat /\ floor \in Nat
      /\ rows \subseteq Seqs /\ \A t \in Seqs : t \in Nat
  BY BoundsAssumption DEF Typed, InboxTyped, Seqs
<1>2. \A t \in c + 1 .. next - 1 : t \in rows
  BY <1>1 DEF NoHoleAboveFloor
<1>3. \A s \in Page(c + 1, n) : s \in rows /\ s >= c + 1
  BY <1>1, PageTypes
<1>4. \A s \in Page(c + 1, n) : \A t \in rows : t >= c + 1 /\ t <= s => t \in Page(c + 1, n)
  BY <1>1, PagePrefix
<1>5. \A s \in Page(c + 1, n) : \A t \in c + 1 .. s : t \in Page(c + 1, n)
  <2> SUFFICES ASSUME NEW s \in Page(c + 1, n), NEW t \in c + 1 .. s PROVE t \in Page(c + 1, n)
    OBVIOUS
  <2>1. s \in Nat /\ s < next
    BY <1>1, <1>3 DEF Typed, InboxTyped
  <2>2. t \in rows /\ t >= c + 1 /\ t <= s
    BY <1>1, <1>2, <2>1
  <2> QED
    BY <1>4, <2>2
<1>6. Cardinality(rows) <= n => \A t \in c + 1 .. next - 1 : t \in Page(c + 1, n)
  <2> SUFFICES ASSUME Cardinality(rows) <= n, NEW t \in c + 1 .. next - 1 PROVE t \in Page(c + 1, n)
    OBVIOUS
  <2>1. t \in rows /\ t >= c + 1
    BY <1>1, <1>2
  <2> QED
    BY <1>1, <2>1, PagePrefix
<1> QED
  BY <1>5, <1>6

----------------------------------------------------------------------------
(* Queues of frames *)

(* What covers a queue may grow. *)
LEMMA QueueGrows ==
    ASSUME NEW A, NEW B, A \subseteq B, NEW q, NEW m
    PROVE  /\ QueueCovers(A, q) => QueueCovers(B, q)
           /\ SentAll(A, q, m) => SentAll(B, q, m)
<1> QED
  BY DEF QueueCovers, SentAll

(* Frames join a queue. *)
LEMMA QueueJoined ==
    ASSUME NEW A, NEW q \in Seq(Frames), NEW r \in Seq(Frames), QueueCovers(A, q),
           \A i \in DOMAIN r :
               /\ r[i].type = "welcome" => 1 .. r[i].cursor \subseteq A
               /\ r[i].type = "rows" => \A s \in 1 .. r[i].cursor :
                      s \in A \/ s \in r[i].rows \/ Carried(q, Len(q), s)
    PROVE  /\ QueueCovers(A, q \o r)
           /\ \A s : Carried(q, Len(q), s) \/ Carried(r, Len(r), s)
                         => Carried(q \o r, Len(q \o r), s)
<1> DEFINE w == q \o r
<1>1. /\ w \in Seq(Frames) /\ Len(w) = Len(q) + Len(r) /\ Len(q) \in Nat /\ Len(r) \in Nat
      /\ DOMAIN w = 1 .. Len(q) + Len(r) /\ DOMAIN q = 1 .. Len(q) /\ DOMAIN r = 1 .. Len(r)
      /\ \A i \in 1 .. Len(q) + Len(r) : w[i] = IF i <= Len(q) THEN q[i] ELSE r[i - Len(q)]
  BY ConcatProperties
<1> HIDE DEF w
<1>2. \A s, n : Carried(q, n, s) => Carried(w, n, s)
  BY <1>1 DEF Carried
<1>3. \A s : Carried(q, Len(q), s) => \A i \in DOMAIN w : i > Len(q) => Carried(w, i, s)
  BY <1>1 DEF Carried
<1>4. QueueCovers(A, w)
  <2> SUFFICES ASSUME NEW i \in DOMAIN w
               PROVE  /\ w[i].type = "welcome" => 1 .. w[i].cursor \subseteq A
                      /\ w[i].type = "rows" => \A s \in 1 .. w[i].cursor : s \in A \/ Carried(w, i, s)
    BY DEF QueueCovers
  <2>1. CASE i <= Len(q)
    <3>1. i \in DOMAIN q /\ w[i] = q[i]
      BY <1>1, <2>1
    <3> QED
      BY <3>1, <1>2 DEF QueueCovers
  <2>2. CASE i > Len(q)
    <3>1. i - Len(q) \in DOMAIN r /\ w[i] = r[i - Len(q)]
      BY <1>1, <2>2
    <3>2. \A s : w[i].type = "rows" /\ s \in w[i].rows => Carried(w, i, s)
      BY <1>1 DEF Carried
    <3> QED
      BY <1>3, <2>2, <3>1, <3>2
  <2> QED
    BY <1>1, <2>1, <2>2
<1>5. \A s : Carried(q, Len(q), s) => Carried(w, Len(w), s)
  BY <1>1 DEF Carried
<1>6. \A s : Carried(r, Len(r), s) => Carried(w, Len(w), s)
  <2> SUFFICES ASSUME NEW s, Carried(r, Len(r), s) PROVE Carried(w, Len(w), s)
    OBVIOUS
  <2>1. PICK k \in DOMAIN r : r[k].type = "rows" /\ s \in r[k].rows
    BY DEF Carried
  <2>2. Len(q) + k \in DOMAIN w /\ w[Len(q) + k] = r[k] /\ Len(q) + k <= Len(w)
    BY <1>1, <2>1
  <2> QED
    BY <2>1, <2>2 DEF Carried
<1> QED
  BY <1>4, <1>5, <1>6 DEF w

(* The first frame is taken, its rows accounted for. *)
LEMMA QueueTaken ==
    ASSUME NEW A, NEW B, A \subseteq B, NEW q \in Seq(Frames), q # <<>>, QueueCovers(A, q),
           Head(q).type = "rows" => Head(q).rows \subseteq B
    PROVE  /\ QueueCovers(B, Tail(q))
           /\ \A m : SentAll(A, q, m) => SentAll(B, Tail(q), m)
<1> DEFINE w == Tail(q)
<1>1. /\ w \in Seq(Frames) /\ Len(w) = Len(q) - 1 /\ Len(q) \in Nat /\ Len(q) > 0
      /\ \A i \in 1 .. Len(w) : w[i] = q[i + 1]
      /\ DOMAIN q = 1 .. Len(q) /\ DOMAIN w = 1 .. Len(w) /\ Head(q) = q[1]
  BY HeadTailProperties
<1> HIDE DEF w
<1>2. \A s, n : n \in Nat /\ Carried(q, n + 1, s) => s \in B \/ Carried(w, n, s)
  <2> SUFFICES ASSUME NEW s, NEW n, n \in Nat, Carried(q, n + 1, s) PROVE s \in B \/ Carried(w, n, s)
    OBVIOUS
  <2>1. PICK k \in DOMAIN q : k <= n + 1 /\ q[k].type = "rows" /\ s \in q[k].rows
    BY DEF Carried
  <2>2. CASE k = 1
    BY <1>1, <2>1, <2>2
  <2>3. CASE k # 1
    <3>1. k - 1 \in DOMAIN w /\ w[k - 1] = q[k] /\ k - 1 <= n
      BY <1>1, <2>1, <2>3
    <3> QED
      BY <2>1, <3>1 DEF Carried
  <2> QED
    BY <2>2, <2>3
<1>3. QueueCovers(B, w)
  <2> SUFFICES ASSUME NEW i \in DOMAIN w
               PROVE  /\ w[i].type = "welcome" => 1 .. w[i].cursor \subseteq B
                      /\ w[i].type = "rows" => \A s \in 1 .. w[i].cursor : s \in B \/ Carried(w, i, s)
    BY DEF QueueCovers
  <2>1. i + 1 \in DOMAIN q /\ w[i] = q[i + 1] /\ i \in Nat
    BY <1>1
  <2> QED
    BY <1>2, <2>1 DEF QueueCovers
<1>4. \A m : SentAll(A, q, m) => SentAll(B, w, m)
  <2>1. Len(w) + 1 = Len(q) /\ Len(w) \in Nat
    BY <1>1
  <2> QED
    BY <1>2, <2>1 DEF SentAll
<1> QED
  BY <1>3, <1>4 DEF w

----------------------------------------------------------------------------
(* Steps that keep the cursors covered *)

(* A phone's cursors stay, or are joined by covered ones. *)
LEMMA CursorsStep ==
    ASSUME NEW p \in Phones, CursorsCovered(p), Accounted(p) \subseteq Accounted(p)',
           NEW New, \A c \in New : 1 .. c \subseteq Accounted(p)',
           CursorsOf(p)' \subseteq CursorsOf(p) \cup New
    PROVE  CursorsCovered(p)'
<1> QED
  BY DEF CursorsCovered

(* What a step leaves alone stays covered. *)
LEMMA Untouched ==
    ASSUME NEW p \in Phones, CursorsCovered(p), FramesCovered(p),
           consumer'[p] = consumer[p], cursor'[p] = cursor[p], advance'[p] = advance[p],
           tick'[p] = tick[p], toRouter'[p] = toRouter[p], jobs'[p] = jobs[p],
           seen'[p] = seen[p], excused'[p] = excused[p],
           toPhone'[p] = toPhone[p], link'[p] = link[p], p \in bound' => p \in bound, next' = next
    PROVE  CursorsCovered(p)' /\ FramesCovered(p)'
<1>1. Accounted(p)' = Accounted(p)
  BY DEF Accounted
<1>2. CursorsOf(p)' = CursorsOf(p)
  BY DEF CursorsOf
<1>3. CursorsCovered(p)'
  BY <1>1, <1>2 DEF CursorsCovered
<1>4. FramesCovered(p)'
  BY <1>1 DEF FramesCovered
<1> QED
  BY <1>3, <1>4

(* The acks of a queue that loses its head, is emptied or grows. *)
LEMMA AckedIs ==
    ASSUME NEW q \in Seq(Calls)
    PROVE  /\ q # <<>> => AckedBy(Tail(q)) \subseteq AckedBy(q)
           /\ \A c \in 0 .. MaxRows, e \in Epochs : AckedBy(Append(q, Ack(c, e))) \subseteq AckedBy(q) \cup {c}
           /\ AckedBy(<<>>) = {}
           /\ AckedBy(<<Hello>>) = {}
<1>1. ASSUME q # <<>> PROVE AckedBy(Tail(q)) \subseteq AckedBy(q)
  <2>1. /\ Len(Tail(q)) = Len(q) - 1 /\ \A i \in 1 .. Len(Tail(q)) : Tail(q)[i] = q[i + 1]
        /\ DOMAIN q = 1 .. Len(q) /\ DOMAIN Tail(q) = 1 .. Len(Tail(q)) /\ Len(q) \in Nat
    BY <1>1, HeadTailProperties
  <2>2. \A i \in DOMAIN Tail(q) : i + 1 \in DOMAIN q /\ Tail(q)[i] = q[i + 1]
    BY <2>1
  <2> QED
    BY <2>2 DEF AckedBy
<1>2. ASSUME NEW c \in 0 .. MaxRows, NEW e \in Epochs
      PROVE  AckedBy(Append(q, Ack(c, e))) \subseteq AckedBy(q) \cup {c}
  <2> DEFINE w == Append(q, Ack(c, e))
  <2>1. Ack(c, e) \in Calls /\ Ack(c, e).cursor = c
    BY DEF Calls, Acks, Ack
  <2>2. /\ Len(w) = Len(q) + 1 /\ \A i \in 1 .. Len(q) : w[i] = q[i]
        /\ w[Len(q) + 1] = Ack(c, e) /\ w \in Seq(Calls)
    BY <2>1, AppendProperties
  <2>3. DOMAIN q = 1 .. Len(q) /\ DOMAIN w = 1 .. Len(w) /\ Len(q) \in Nat
    BY <2>2
  <2> HIDE DEF w
  <2>4. \A i \in DOMAIN w : (i \in DOMAIN q /\ w[i] = q[i]) \/ w[i] = Ack(c, e)
    BY <2>2, <2>3
  <2>5. AckedBy(w) \subseteq AckedBy(q) \cup {c}
    BY <2>1, <2>4 DEF AckedBy
  <2> QED
    BY <2>5 DEF w
<1>3. AckedBy(<<>>) = {} /\ AckedBy(<<Hello>>) = {}
  BY DEF AckedBy, Hello
<1> QED
  BY <1>1, <1>2, <1>3

(* A closed socket ends the acks of the drains that still run. *)
LEMMA ClosedIs ==
    ASSUME Typed, NEW p \in Phones, Closed(p)
    PROVE  /\ LiveOf(jobs'[p]) = {}
           /\ UNION {j.rows : j \in jobs'[p]} = UNION {j.rows : j \in jobs[p]}
           /\ toPhone'[p] = <<>> /\ link'[p] = "poll"
           /\ \A q \in Phones \ {p} : /\ jobs'[q] = jobs[q] /\ toPhone'[q] = toPhone[q]
                                      /\ link'[q] = link[q]
<1>1. jobs'[p] = {[j EXCEPT !.live = FALSE] : j \in jobs[p]}
  BY DEF Closed, Typed, PhoneTyped
<1>2. \A j \in jobs[p] : /\ [j EXCEPT !.live = FALSE].rows = j.rows
                         /\ [j EXCEPT !.live = FALSE].live = FALSE
  BY DEF Typed, PhoneTyped, Jobs
<1>3. LiveOf(jobs'[p]) = {}
  BY <1>1, <1>2 DEF LiveOf
<1>4. UNION {j.rows : j \in jobs'[p]} = UNION {j.rows : j \in jobs[p]}
  <2>1. \A j \in jobs[p] : j.rows \in {k.rows : k \in jobs'[p]}
    <3> SUFFICES ASSUME NEW j \in jobs[p] PROVE j.rows \in {k.rows : k \in jobs'[p]}
      OBVIOUS
    <3>1. [j EXCEPT !.live = FALSE] \in jobs'[p]
      BY <1>1
    <3> QED
      BY <1>2, <3>1
  <2>2. \A k \in jobs'[p] : k.rows \in {j.rows : j \in jobs[p]}
    BY <1>1, <1>2
  <2>3. {j.rows : j \in jobs'[p]} = {j.rows : j \in jobs[p]}
    BY <2>1, <2>2
  <2> QED
    BY <2>3
<1>5. toPhone'[p] = <<>> /\ link'[p] = "poll"
  BY DEF Closed, Typed, NetworkTyped, CoordTyped
<1>6. \A q \in Phones \ {p} : jobs'[q] = jobs[q] /\ toPhone'[q] = toPhone[q] /\ link'[q] = link[q]
  BY DEF Closed, Typed, NetworkTyped, CoordTyped, PhoneTyped
<1> QED
  BY <1>3, <1>4, <1>5, <1>6

(* A row is appended and pushed. *)
LEMMA AppendCovers == ASSUME KInv, AppendRow PROVE NoHoleAboveFloor' /\ Covered'
<1> USE DEF AppendRow, time, phone, coord
<1>1. next \in Nat /\ floor \in Nat /\ next \in Seqs /\ next' = next + 1
  BY BoundsAssumption DEF KInv, Typed, InboxTyped, Seqs
<1>2. NoHoleAboveFloor'
  BY <1>1 DEF KInv, NoHoleAboveFloor
<1>3. ASSUME NEW p \in Phones PROVE CursorsCovered(p)' /\ FramesCovered(p)'
  <2>1. Accounted(p)' = Accounted(p) /\ CursorsOf(p)' = CursorsOf(p)
    BY DEF Accounted, CursorsOf
  <2>2. CursorsCovered(p)'
    BY <2>1 DEF KInv, Covered, CursorsCovered
  <2>3. FramesCovered(p)
    BY DEF KInv, Covered
  <2>4. CASE p \in bound /\ link[p] # "poll"
    <3> DEFINE r == <<InboxRows({next}, next)>>
    <3>1. toPhone'[p] = toPhone[p] \o r
      BY <2>4 DEF Sent
    <3>2. r \in Seq(Frames) /\ toPhone[p] \in Seq(Frames)
      BY <1>1, FrameTypes, HeadTypes DEF KInv
    <3>3. /\ DOMAIN r = {1} /\ Len(r) = 1
          /\ r[1].type = "rows" /\ r[1].rows = {next} /\ r[1].cursor = next
      BY DEF InboxRows
    <3>4. /\ QueueCovers(Accounted(p), toPhone[p])
          /\ \A s \in 1 .. next - 1 : s \in Accounted(p) \/ Carried(toPhone[p], Len(toPhone[p]), s)
      BY <2>3, <2>4 DEF FramesCovered, SentAll
    <3> HIDE DEF r
    <3>5. Carried(r, Len(r), next)
      BY <3>3 DEF Carried
    <3>6. \A s \in 1 .. next : s \in Accounted(p) \/ s = next \/ Carried(toPhone[p], Len(toPhone[p]), s)
      BY <1>1, <3>4
    <3>7. /\ QueueCovers(Accounted(p), toPhone[p] \o r)
          /\ \A s : Carried(toPhone[p], Len(toPhone[p]), s) \/ Carried(r, Len(r), s)
                        => Carried(toPhone[p] \o r, Len(toPhone[p] \o r), s)
      BY <3>2, <3>3, <3>4, <3>6, QueueJoined
    <3>8. SentAll(Accounted(p), toPhone'[p], next' - 1)
      <4>1. next' - 1 = next
        BY <1>1
      <4>2. \A s \in 1 .. next : s \in Accounted(p) \/ Carried(toPhone[p] \o r, Len(toPhone[p] \o r), s)
        BY <3>5, <3>6, <3>7
      <4> QED
        BY <3>1, <4>1, <4>2 DEF SentAll
    <3> QED
      BY <2>1, <2>2, <2>4, <3>1, <3>7, <3>8 DEF FramesCovered
  <2>5. CASE ~ (p \in bound /\ link[p] # "poll")
    <3>1. toPhone'[p] = toPhone[p]
      BY <2>5 DEF Sent
    <3> QED
      BY <2>1, <2>2, <2>3, <2>5, <3>1 DEF FramesCovered
  <2> QED
    BY <2>4, <2>5
<1> QED
  BY <1>2, <1>3 DEF Covered

(* What a drain answers from a covered cursor, to the end of the queue. *)
LEMMA DrainCovers ==
    ASSUME KInv, BacklogFits, NEW p \in Phones, NEW record \in Positions, NEW c \in 0 .. MaxRows,
           NEW e \in Epochs, NEW A, 1 .. c \subseteq A
    PROVE  LET r == Drained(record, c, e)
           IN  /\ \A i \in DOMAIN r :
                    /\ r[i].type # "welcome"
                    /\ r[i].type = "rows" => \A s \in 1 .. r[i].cursor : s \in A \/ s \in r[i].rows
               /\ ~ Refuses(r) => SentAll(A, r, next - 1)
<1> DEFINE page == Page(c + 1, RowsPerFrame)
           r    == Drained(record, c, e)
           Names(q) == \A i \in DOMAIN q :
               /\ q[i].type # "welcome"
               /\ q[i].type = "rows" => \A s \in 1 .. q[i].cursor : s \in A \/ s \in q[i].rows
<1>1. c \in Nat /\ floor \in Nat /\ next \in Nat /\ MaxRows \in Nat /\ RowsPerFrame \in Nat \ {0}
  BY BoundsAssumption DEF KInv, Typed, InboxTyped
<1>2. CASE ReadStale(record, c + 1, e)
  <2>1. r = <<Stale(floor)>>
    BY <1>2 DEF Drained
  <2>2. DOMAIN r = {1} /\ r[1].type = "stale"
    BY <2>1 DEF Stale
  <2>3. Refuses(r)
    BY <2>2 DEF Refuses
  <2> QED
    BY <2>2, <2>3, Zenon
<1>3. CASE ~ ReadStale(record, c + 1, e)
  <2>1. c + 1 >= floor
    BY <1>1, <1>3 DEF ReadStale
  <2>2. /\ \A s \in page : \A t \in c + 1 .. s : t \in page
        /\ \A t \in c + 1 .. next - 1 : t \in page
    BY <1>1, <2>1, ReadLeavesNone DEF KInv, BacklogFits
  <2>3. r = IF page = {} THEN <<>> ELSE <<InboxRows(page, Max(page))>>
    BY <1>3 DEF Drained
  <2>4. page # {} => Max(page) \in page /\ Max(page) \in Nat
    <3>1. page # {} => Max(page) \in page /\ page \subseteq rows
      BY <1>1, PageTypes DEF KInv
    <3>2. rows \subseteq Nat
      BY BoundsAssumption DEF KInv, Typed, InboxTyped, Seqs
    <3> HIDE DEF page
    <3> QED
      BY <3>1, <3>2
  <2> HIDE DEF page
  <2>5. CASE page = {}
    <3>1. r = <<>> /\ \A t : t \notin c + 1 .. next - 1
      BY <2>2, <2>3, <2>5
    <3>2. \A s \in 1 .. next - 1 : s \in A
      BY <1>1, <3>1
    <3>3. Names(r)
      BY <3>1
    <3> QED
      BY <3>2, <3>3 DEF SentAll
  <2>6. CASE page # {}
    <3>1. r = <<InboxRows(page, Max(page))>>
      BY <2>3, <2>6
    <3>2. DOMAIN r = {1} /\ Len(r) = 1 /\ r[1].type = "rows" /\ r[1].rows = page /\ r[1].cursor = Max(page)
      BY <3>1 DEF InboxRows
    <3>3. \A s \in 1 .. Max(page) : s \in A \/ s \in page
      BY <1>1, <2>2, <2>4, <2>6
    <3>4. \A s \in 1 .. next - 1 : s \in A \/ s \in page
      BY <1>1, <2>2
    <3>5. \A s \in page : Carried(r, Len(r), s)
      BY <3>2 DEF Carried
    <3> HIDE DEF r
    <3>6. Names(r)
      BY <3>2, <3>3
    <3>7. SentAll(A, r, next - 1)
      BY <3>4, <3>5 DEF SentAll
    <3> QED
      BY <3>6, <3>7 DEF r
  <2> QED
    BY <2>5, <2>6
<1> QED
  BY <1>2, <1>3

(* Frames sent to a phone keep its queue covered. *)
LEMMA SentCovers ==
    ASSUME Typed, NEW p \in Phones, FramesCovered(p), NEW r \in Seq(Frames),
           \A i \in DOMAIN r :
               /\ r[i].type = "welcome" => 1 .. r[i].cursor \subseteq Accounted(p)
               /\ r[i].type = "rows" =>
                      \A s \in 1 .. r[i].cursor : s \in Accounted(p) \/ s \in r[i].rows,
           toPhone'[p] = Sent(p, r), link'[p] = link[p], next' = next,
           Accounted(p)' = Accounted(p),
           p \in bound' => p \in bound \/ SentAll(Accounted(p), r, next - 1)
    PROVE  FramesCovered(p)'
<1>1. CASE link[p] = "poll"
  BY <1>1 DEF FramesCovered, Sent
<1>2. CASE link[p] # "poll"
  <2>1. toPhone[p] \in Seq(Frames) /\ toPhone'[p] = toPhone[p] \o r
    BY <1>2, HeadTypes DEF Sent
  <2>2. /\ QueueCovers(Accounted(p), toPhone[p] \o r)
        /\ \A s : Carried(toPhone[p], Len(toPhone[p]), s) \/ Carried(r, Len(r), s)
                      => Carried(toPhone[p] \o r, Len(toPhone[p] \o r), s)
    BY <2>1, QueueJoined DEF FramesCovered
  <2>3. p \in bound' => SentAll(Accounted(p), toPhone[p] \o r, next - 1)
    BY <1>2, <2>2 DEF FramesCovered, SentAll
  <2> QED
    BY <1>2, <2>1, <2>2, <2>3 DEF FramesCovered
<1> QED
  BY <1>1, <1>2

(* A hello: the record's cursor was covered, or is 0. *)
LEMMA HelloCovers ==
    ASSUME KInv, BacklogFits, NEW p \in Phones, HandleHello(p)
    PROVE  NoHoleAboveFloor' /\ Covered'
<1>1. PICK stored \in Done({p}) :
         LET record  == IF p \in stored THEN Registered(p) ELSE consumer[p]
             given   == IF record = None THEN Unstored ELSE record.epoch
             drained == Drained(record, record.cursor, given)
         IN  /\ consumer' = [consumer EXCEPT ![p] = record]
             /\ minted' = [minted EXCEPT ![p] = Max({@, record.epoch})]
             /\ idle' = idle \ stored
             /\ toPhone' = [toPhone EXCEPT ![p] =
                    Sent(p, <<Welcome(record.cursor, given)>> \o drained)]
             /\ bound' = IF Refuses(drained) THEN bound \ {p} ELSE bound \cup {p}
  BY DEF HandleHello
<1>2. /\ toRouter[p] # <<>> /\ toRouter' = [toRouter EXCEPT ![p] = Tail(@)]
      /\ UNCHANGED <<rows, next, floor, old, months, phone>>
  BY DEF HandleHello
<1> DEFINE record  == IF p \in stored THEN Registered(p) ELSE consumer[p]
           given   == IF record = None THEN Unstored ELSE record.epoch
           drained == Drained(record, record.cursor, given)
           hail    == <<Welcome(record.cursor, given)>>
<1>3. record \in Positions /\ given \in Epochs
  BY RegisteredTypes DEF KInv
<1>4. record.cursor \in 0 .. MaxRows /\ record.cursor \in {0, consumer[p].cursor}
  BY <1>3, PositionTypes DEF Registered, Position
<1>5. /\ consumer' = [consumer EXCEPT ![p] = record]
      /\ toPhone' = [toPhone EXCEPT ![p] = Sent(p, hail \o drained)]
      /\ bound' = IF Refuses(drained) THEN bound \ {p} ELSE bound \cup {p}
  BY <1>1
<1>6. CursorsCovered(p) /\ FramesCovered(p)
  BY DEF KInv, Covered
<1>7. 1 .. record.cursor \subseteq Accounted(p)
  <2>1. 1 .. consumer[p].cursor \subseteq Accounted(p) /\ 1 .. 0 = {}
    BY <1>6 DEF CursorsCovered, CursorsOf
  <2> QED
    BY <1>4, <2>1
<1>8. /\ drained \in Seq(Frames)
      /\ \A i \in DOMAIN drained :
            /\ drained[i].type # "welcome"
            /\ drained[i].type = "rows" =>
                   \A s \in 1 .. drained[i].cursor : s \in Accounted(p) \/ s \in drained[i].rows
      /\ ~ Refuses(drained) => SentAll(Accounted(p), drained, next - 1)
  BY <1>3, <1>4, <1>7, DrainCovers, DrainedTypes DEF KInv
<1>9. /\ hail \in Seq(Frames) /\ Len(hail) = 1 /\ DOMAIN hail = {1}
      /\ hail[1].type = "welcome" /\ hail[1].cursor = record.cursor
  <2>1. Welcome(record.cursor, given) \in Frames
    BY <1>3, <1>4, FrameTypes DEF KInv
  <2> QED
    BY <2>1 DEF Welcome
<1> HIDE DEF record, given, drained, hail
<1> DEFINE r == hail \o drained
<1>10. /\ r \in Seq(Frames) /\ Len(r) = 1 + Len(drained) /\ Len(drained) \in Nat
       /\ DOMAIN r = 1 .. 1 + Len(drained) /\ DOMAIN drained = 1 .. Len(drained)
       /\ \A i \in 1 .. 1 + Len(drained) : r[i] = IF i <= 1 THEN hail[i] ELSE drained[i - 1]
  <2>1. /\ r \in Seq(Frames) /\ Len(r) = Len(hail) + Len(drained)
        /\ \A i \in 1 .. Len(hail) + Len(drained) :
               r[i] = IF i <= Len(hail) THEN hail[i] ELSE drained[i - Len(hail)]
    BY <1>8, <1>9, ConcatProperties
  <2> HIDE DEF r
  <2> QED
    BY <1>8, <1>9, <2>1
<1> HIDE DEF r
<1>11. \A i \in DOMAIN r :
           /\ r[i].type = "welcome" => 1 .. r[i].cursor \subseteq Accounted(p)
           /\ r[i].type = "rows" =>
                  \A s \in 1 .. r[i].cursor : s \in Accounted(p) \/ s \in r[i].rows
  <2> SUFFICES ASSUME NEW i \in DOMAIN r
               PROVE  /\ r[i].type = "welcome" => 1 .. r[i].cursor \subseteq Accounted(p)
                      /\ r[i].type = "rows" =>
                             \A s \in 1 .. r[i].cursor : s \in Accounted(p) \/ s \in r[i].rows
    OBVIOUS
  <2>1. (i = 1 /\ r[i] = hail[1]) \/ (i - 1 \in DOMAIN drained /\ r[i] = drained[i - 1])
    BY <1>10
  <2> QED
    BY <1>7, <1>8, <1>9, <2>1
<1>12. ~ Refuses(drained) => SentAll(Accounted(p), r, next - 1)
  <2>1. \A s : Carried(drained, Len(drained), s) => Carried(r, Len(r), s)
    <3> SUFFICES ASSUME NEW s, Carried(drained, Len(drained), s) PROVE Carried(r, Len(r), s)
      OBVIOUS
    <3>1. PICK k \in DOMAIN drained : drained[k].type = "rows" /\ s \in drained[k].rows
      BY DEF Carried
    <3>2. k + 1 \in DOMAIN r /\ r[k + 1] = drained[k] /\ k + 1 <= Len(r)
      BY <1>10, <3>1
    <3> QED
      BY <3>1, <3>2 DEF Carried
  <2> QED
    BY <1>8, <2>1 DEF SentAll
<1>13. NoHoleAboveFloor'
  BY <1>2 DEF KInv, NoHoleAboveFloor
<1>14. ASSUME NEW q \in Phones, q # p PROVE CursorsCovered(q)' /\ FramesCovered(q)'
  <2>1. CursorsCovered(q) /\ FramesCovered(q)
    BY DEF KInv, Covered
  <2>2. /\ consumer'[q] = consumer[q] /\ toRouter'[q] = toRouter[q] /\ toPhone'[q] = toPhone[q]
        /\ q \in bound' => q \in bound
    BY <1>2, <1>5, <1>14 DEF KInv, Typed, InboxTyped, NetworkTyped
  <2> QED
    BY <1>2, <2>1, <2>2, Untouched DEF phone, coord
<1>15. CursorsCovered(p)'
  <2>1. Accounted(p)' = Accounted(p)
    BY <1>2 DEF Accounted, phone
  <2>2. consumer'[p] = record /\ toRouter'[p] = Tail(toRouter[p])
    BY <1>2, <1>5 DEF KInv, Typed, InboxTyped, NetworkTyped
  <2>3. AckedBy(toRouter'[p]) \subseteq AckedBy(toRouter[p])
    BY <1>2, <2>2, AckedIs, HeadTypes DEF KInv
  <2>4. CursorsOf(p)' \subseteq CursorsOf(p) \cup {record.cursor}
    BY <1>2, <2>2, <2>3 DEF CursorsOf, phone, coord
  <2>5. \A c \in {record.cursor} : 1 .. c \subseteq Accounted(p)'
    BY <1>7, <2>1
  <2> QED
    BY <1>6, <2>1, <2>4, <2>5, CursorsStep
<1>16. FramesCovered(p)'
  <2>1. /\ Accounted(p)' = Accounted(p) /\ link'[p] = link[p] /\ next' = next
        /\ toPhone'[p] = Sent(p, r)
        /\ p \in bound' => p \in bound \/ ~ Refuses(drained)
    BY <1>2, <1>5 DEF Accounted, phone, coord, KInv, Typed, NetworkTyped, r
  <2> QED
    BY <1>6, <1>10, <1>11, <1>12, <2>1, SentCovers DEF KInv
<1> QED
  BY <1>13, <1>14, <1>15, <1>16 DEF Covered

(* An ack: the cursor it names is covered already. *)
LEMMA AckCovers ==
    ASSUME KInv, BacklogFits, NEW p \in Phones, HandleAck(p)
    PROVE  NoHoleAboveFloor' /\ Covered'
<1> DEFINE c == Head(toRouter[p]).cursor
           e == Head(toRouter[p]).epoch
           drained == Drained(Position(c, e), c, e)
<1>1. /\ toRouter[p] # <<>> /\ Head(toRouter[p]).type = "ack"
      /\ toRouter' = [toRouter EXCEPT ![p] = Tail(@)]
      /\ \/ UNCHANGED <<consumer, toPhone, bound>>
         \/ /\ toPhone' = [toPhone EXCEPT ![p] = Sent(p, <<Stale(floor)>>)]
            /\ bound' = bound \ {p}
            /\ UNCHANGED consumer
         \/ /\ consumer' = [consumer EXCEPT ![p] = Position(c, e)]
            /\ toPhone' = [toPhone EXCEPT ![p] = Sent(p, drained)]
            /\ UNCHANGED bound
      /\ UNCHANGED <<rows, next, floor, phone>>
  BY DEF HandleAck
<1>2. c \in 0 .. MaxRows /\ e \in Epochs
  BY <1>1, HeadTypes DEF KInv, Calls, Acks, Hello
<1>3. Position(c, e) \in Positions /\ Position(c, e).cursor = c
  BY <1>2, PositionTypes DEF Position
<1>4. CursorsCovered(p) /\ FramesCovered(p)
  BY DEF KInv, Covered
<1>5. c \in AckedBy(toRouter[p])
  <2>1. 1 \in DOMAIN toRouter[p] /\ Head(toRouter[p]) = toRouter[p][1]
    BY <1>1, HeadTypes DEF KInv
  <2> QED
    BY <1>1, <2>1 DEF AckedBy
<1>6. 1 .. c \subseteq Accounted(p)
  BY <1>4, <1>5 DEF CursorsCovered, CursorsOf
<1>7. /\ drained \in Seq(Frames)
      /\ \A i \in DOMAIN drained :
            /\ drained[i].type # "welcome"
            /\ drained[i].type = "rows" =>
                   \A s \in 1 .. drained[i].cursor : s \in Accounted(p) \/ s \in drained[i].rows
  BY <1>2, <1>3, <1>6, DrainCovers, DrainedTypes DEF KInv
<1> HIDE DEF c, e, drained
<1>8. NoHoleAboveFloor'
  BY <1>1 DEF KInv, NoHoleAboveFloor
<1>9. ASSUME NEW q \in Phones, q # p PROVE CursorsCovered(q)' /\ FramesCovered(q)'
  <2>1. CursorsCovered(q) /\ FramesCovered(q)
    BY DEF KInv, Covered
  <2>2. /\ consumer'[q] = consumer[q] /\ toRouter'[q] = toRouter[q] /\ toPhone'[q] = toPhone[q]
        /\ q \in bound' => q \in bound
    BY <1>1, <1>9 DEF KInv, Typed, InboxTyped, NetworkTyped
  <2> QED
    BY <1>1, <2>1, <2>2, Untouched DEF phone, coord
<1>10. Accounted(p)' = Accounted(p) /\ link'[p] = link[p] /\ next' = next /\ (p \in bound' => p \in bound)
  BY <1>1 DEF Accounted, phone, coord
<1>11. CursorsCovered(p)'
  <2>1. consumer'[p].cursor \in {consumer[p].cursor, c}
    BY <1>1, <1>3 DEF KInv, Typed, InboxTyped
  <2>2. AckedBy(toRouter'[p]) \subseteq AckedBy(toRouter[p])
    BY <1>1, AckedIs, HeadTypes DEF KInv, Typed, NetworkTyped
  <2>3. CursorsOf(p)' \subseteq CursorsOf(p) \cup {c}
    BY <1>1, <2>1, <2>2 DEF CursorsOf, phone, coord
  <2>4. \A d \in {c} : 1 .. d \subseteq Accounted(p)'
    BY <1>6, <1>10
  <2> QED
    BY <1>4, <1>10, <2>3, <2>4, CursorsStep
<1>12. FramesCovered(p)'
  <2>1. CASE UNCHANGED toPhone
    BY <1>4, <1>10, <2>1 DEF FramesCovered
  <2>2. CASE toPhone' = [toPhone EXCEPT ![p] = Sent(p, <<Stale(floor)>>)]
    <3> DEFINE r == <<Stale(floor)>>
    <3>1. r \in Seq(Frames) /\ DOMAIN r = {1} /\ r[1].type = "stale"
      <4>1. Stale(floor) \in Frames
        BY FrameTypes DEF KInv
      <4> QED
        BY <4>1 DEF Stale
    <3>2. toPhone'[p] = Sent(p, r)
      BY <2>2 DEF KInv, Typed, NetworkTyped
    <3> HIDE DEF r
    <3> QED
      BY <1>4, <1>10, <3>1, <3>2, SentCovers DEF KInv
  <2>3. CASE toPhone' = [toPhone EXCEPT ![p] = Sent(p, drained)]
    <3>1. toPhone'[p] = Sent(p, drained)
      BY <2>3 DEF KInv, Typed, NetworkTyped
    <3> QED
      BY <1>4, <1>7, <1>10, <3>1, SentCovers DEF KInv
  <2> QED
    BY <1>1, <2>1, <2>2, <2>3
<1> QED
  BY <1>8, <1>9, <1>11, <1>12 DEF Covered

(* Sockets the Router loses, a month, a phone that comes to the front:     *)
(* nothing moves a cursor.                                                 *)
LEMMA QuietCovers ==
    ASSUME KInv, \/ RouterRestarts \/ MonthPasses
                 \/ \E p \in Phones : RouterDrops(p) \/ Foreground(p)
    PROVE  NoHoleAboveFloor' /\ Covered'
<1>1. UNCHANGED <<inbox, toPhone, coord, tick, jobs, seen, excused>> /\ bound' \subseteq bound
  BY DEF RouterRestarts, MonthPasses, RouterDrops, Foreground, network, phone, coord
<1>2. \A q \in Phones : toRouter'[q] \in {toRouter[q], <<>>}
  BY DEF RouterRestarts, MonthPasses, RouterDrops, Foreground, network, KInv, Typed, NetworkTyped
<1>3. NoHoleAboveFloor'
  BY <1>1 DEF KInv, NoHoleAboveFloor, inbox
<1>4. ASSUME NEW q \in Phones PROVE CursorsCovered(q)' /\ FramesCovered(q)'
  <2>1. CursorsCovered(q) /\ FramesCovered(q)
    BY DEF KInv, Covered
  <2>2. Accounted(q)' = Accounted(q)
    BY <1>1 DEF Accounted
  <2>3. AckedBy(toRouter'[q]) \subseteq AckedBy(toRouter[q])
    BY <1>2 DEF AckedBy
  <2>4. CursorsOf(q)' \subseteq CursorsOf(q)
    BY <1>1, <2>3 DEF CursorsOf, inbox, coord
  <2>5. CursorsCovered(q)'
    BY <2>1, <2>2, <2>4 DEF CursorsCovered
  <2>6. FramesCovered(q)'
    BY <1>1, <2>1, <2>2 DEF FramesCovered, inbox, coord
  <2> QED
    BY <2>5, <2>6
<1> QED
  BY <1>3, <1>4 DEF Covered

(* A sweep: a record is kept or forgotten, and no row is dropped from the  *)
(* new floor on.                                                           *)
LEMMA SweepCovers ==
    ASSUME KInv, "split" \notin Faults, SweepInbox
    PROVE  NoHoleAboveFloor' /\ Covered'
<1>1. PICK forgotten \in SUBSET idle : \E expired \in SUBSET old : SweepsTo(forgotten, expired)
  BY SweepChooses DEF KInv
<1>2. PICK expired \in SUBSET old : SweepsTo(forgotten, expired)
  BY <1>1
<1> DEFINE records == [p \in Phones |-> IF p \in forgotten THEN None ELSE consumer[p]]
           f       == ExpiredFloor(expired)
           low     == LowestCursor(records)
<1>3. records \in [Phones -> Positions] /\ expired \in SUBSET Seqs
  BY PositionTypes DEF KInv, Typed, InboxTyped
<1>4. /\ low \in 0 .. MaxRows /\ f \in 1 .. MaxRows + 1 /\ floor <= f
      /\ \A s \in expired : s < f
  BY <1>3, SweepTypes DEF KInv
<1>5. /\ consumer' = records
      /\ \/ rows' = rows \ expired /\ floor' = f
         \/ low + 1 > f /\ rows' = {s \in rows \ expired : s > low} /\ floor' = low + 1
      /\ UNCHANGED <<next, network, phone>>
  BY <1>2 DEF SweepsTo
<1>6. NoHoleAboveFloor'
  <2> SUFFICES ASSUME NEW s \in floor' .. next' - 1 PROVE s \in rows'
    BY DEF NoHoleAboveFloor
  <2> HIDE DEF records, f, low
  <2>1. /\ floor \in Nat /\ next \in Nat /\ MaxRows \in Nat
    BY BoundsAssumption DEF KInv, Typed, InboxTyped
  <2>2. floor' \in Nat /\ f <= floor' /\ next' = next
    BY <1>4, <1>5, <2>1
  <2>3. s \in floor .. next - 1 /\ s >= f
    BY <1>4, <2>1, <2>2
  <2>4. s \in rows /\ s \notin expired
    BY <1>4, <2>3 DEF KInv, NoHoleAboveFloor
  <2> QED
    BY <1>4, <1>5, <2>1, <2>3, <2>4
<1>7. ASSUME NEW q \in Phones PROVE CursorsCovered(q)' /\ FramesCovered(q)'
  <2>1. CursorsCovered(q) /\ FramesCovered(q)
    BY DEF KInv, Covered
  <2>2. Accounted(q)' = Accounted(q)
    BY <1>5 DEF Accounted, phone
  <2>3. consumer'[q].cursor \in {0, consumer[q].cursor}
    BY <1>5 DEF None, Position
  <2>4. CursorsOf(q)' \subseteq CursorsOf(q) \cup {0}
    BY <1>5, <2>3 DEF CursorsOf, network, phone, coord
  <2>5. \A d \in {0} : 1 .. d \subseteq Accounted(q)'
    OBVIOUS
  <2>6. CursorsCovered(q)'
    BY <2>1, <2>2, <2>4, <2>5, CursorsStep
  <2>7. FramesCovered(q)'
    BY <1>5, <2>1, <2>2 DEF FramesCovered, network, phone, coord
  <2> QED
    BY <2>6, <2>7
<1> QED
  BY <1>6, <1>7 DEF Covered

(* A connection is opened: nothing is on the old wire. *)
LEMMA ConnectCovers ==
    ASSUME KInv, NEW p \in Phones, Connect(p)
    PROVE  NoHoleAboveFloor' /\ Covered'
<1> USE DEF Connect, inbox, time
<1>1. NoHoleAboveFloor'
  BY DEF KInv, NoHoleAboveFloor
<1>2. ASSUME NEW q \in Phones, q # p PROVE CursorsCovered(q)' /\ FramesCovered(q)'
  <2>1. CursorsCovered(q) /\ FramesCovered(q)
    BY DEF KInv, Covered
  <2>2. /\ toRouter'[q] = toRouter[q] /\ link'[q] = link[q] /\ (q \in bound' => q \in bound)
    BY <1>2 DEF KInv, Typed, NetworkTyped, CoordTyped
  <2> QED
    BY <2>1, <2>2, Untouched
<1>3. CursorsCovered(p)' /\ FramesCovered(p)'
  <2>1. CursorsCovered(p) /\ FramesCovered(p)
    BY DEF KInv, Covered
  <2>2. Accounted(p)' = Accounted(p)
    BY DEF Accounted
  <2>3. AckedBy(toRouter'[p]) = {} /\ p \notin bound' /\ link'[p] # "poll" /\ toPhone'[p] = toPhone[p]
    BY AckedIs DEF KInv, Typed, NetworkTyped, CoordTyped
  <2>4. CursorsOf(p)' \subseteq CursorsOf(p)
    BY <2>3 DEF CursorsOf
  <2>5. CursorsCovered(p)'
    BY <2>1, <2>2, <2>4 DEF CursorsCovered
  <2>6. FramesCovered(p)'
    BY <2>1, <2>2, <2>3 DEF FramesCovered
  <2> QED
    BY <2>5, <2>6
<1> QED
  BY <1>1, <1>2, <1>3 DEF Covered

(* A socket closes at the phone; with a refusal, the phone adopts a floor. *)
LEMMA CloseCovers ==
    ASSUME KInv, NEW p \in Phones, PhoneDrops(p) \/ Background(p) \/ OnStale(p)
    PROVE  NoHoleAboveFloor' /\ Covered'
<1>1. /\ Closed(p)
      /\ UNCHANGED <<inbox, toRouter, epoch, advance, tick, seen, bound>>
  BY DEF PhoneDrops, Background, OnStale, Receive
<1>2. \/ UNCHANGED <<cursor, excused>>
      \/ \E f \in 1 .. MaxRows + 1 : /\ cursor' = [cursor EXCEPT ![p] = f - 1]
                                     /\ excused' = [excused EXCEPT ![p] = @ \cup 1 .. f - 1]
  <2>1. CASE OnStale(p)
    <3>1. Head(toPhone[p]).floor \in 1 .. MaxRows + 1
      BY <2>1, HeadTypes DEF KInv, OnStale, Receive, Frames, Welcomes, RowFrames, StaleOnes
    <3> QED
      BY <2>1, <3>1 DEF OnStale
  <2> QED
    BY <2>1 DEF PhoneDrops, Background
<1>3. NoHoleAboveFloor'
  BY <1>1 DEF KInv, NoHoleAboveFloor, inbox
<1>4. /\ LiveOf(jobs'[p]) = {}
      /\ UNION {j.rows : j \in jobs'[p]} = UNION {j.rows : j \in jobs[p]}
      /\ toPhone'[p] = <<>> /\ link'[p] = "poll"
      /\ \A q \in Phones \ {p} : jobs'[q] = jobs[q] /\ toPhone'[q] = toPhone[q] /\ link'[q] = link[q]
  BY <1>1, ClosedIs DEF KInv
<1>5. ASSUME NEW q \in Phones, q # p PROVE CursorsCovered(q)' /\ FramesCovered(q)'
  <2>1. CursorsCovered(q) /\ FramesCovered(q)
    BY DEF KInv, Covered
  <2>2. cursor'[q] = cursor[q] /\ excused'[q] = excused[q]
    BY <1>2, <1>5 DEF KInv, Typed, CoordTyped, PhoneTyped
  <2> QED
    BY <1>1, <1>4, <1>5, <2>1, <2>2, Untouched DEF inbox
<1>6. CursorsCovered(p)' /\ FramesCovered(p)'
  <2>1. CursorsCovered(p) /\ FramesCovered(p)
    BY DEF KInv, Covered
  <2>2. /\ excused[p] \subseteq excused'[p]
        /\ cursor'[p] = cursor[p] \/ 1 .. cursor'[p] \subseteq excused'[p]
    <3>1. cursor \in [Phones -> 0 .. MaxRows] /\ excused \in [Phones -> SUBSET Seqs]
      BY DEF KInv, Typed, CoordTyped, PhoneTyped
    <3>2. CASE UNCHANGED <<cursor, excused>>
      BY <3>2
    <3>3. ASSUME NEW f \in 1 .. MaxRows + 1,
                 cursor' = [cursor EXCEPT ![p] = f - 1],
                 excused' = [excused EXCEPT ![p] = @ \cup 1 .. f - 1]
          PROVE  excused[p] \subseteq excused'[p] /\ 1 .. cursor'[p] \subseteq excused'[p]
      BY <3>1, <3>3
    <3> QED
      BY <1>2, <3>2, <3>3
  <2>3. Accounted(p)' = seen[p] \cup excused'[p] \cup UNION {j.rows : j \in jobs'[p]}
    BY <1>1 DEF Accounted
  <2>4. Accounted(p) \subseteq Accounted(p)'
    BY <1>4, <2>2, <2>3 DEF Accounted
  <2>5. CursorsOf(p)' \subseteq CursorsOf(p) \cup {cursor'[p]}
    BY <1>1, <1>4 DEF CursorsOf, inbox
  <2>6. 1 .. cursor'[p] \subseteq Accounted(p)'
    <3>1. 1 .. cursor[p] \subseteq Accounted(p)
      BY <2>1 DEF CursorsCovered, CursorsOf
    <3> QED
      BY <2>2, <2>3, <2>4, <3>1
  <2>7. CursorsCovered(p)'
    <3>1. \A d \in {cursor'[p]} : 1 .. d \subseteq Accounted(p)'
      BY <2>6
    <3> QED
      BY <2>1, <2>4, <2>5, <3>1, CursorsStep
  <2>8. FramesCovered(p)'
    BY <1>4 DEF FramesCovered, QueueCovers
  <2> QED
    BY <2>7, <2>8
<1> QED
  BY <1>3, <1>5, <1>6 DEF Covered

(* A frame is taken from the head of a queue. *)
LEMMA TakenCovers ==
    ASSUME KInv, NEW p \in Phones, toPhone[p] # <<>>,
           toPhone' = [toPhone EXCEPT ![p] = Tail(@)],
           link[p] # "poll", link'[p] # "poll", next' = next, bound' = bound,
           Accounted(p) \subseteq Accounted(p)',
           Head(toPhone[p]).type = "rows" => Head(toPhone[p]).rows \subseteq Accounted(p)'
    PROVE  FramesCovered(p)'
<1>1. toPhone[p] \in Seq(Frames) /\ toPhone'[p] = Tail(toPhone[p])
  BY DEF KInv, Typed, NetworkTyped
<1>2. FramesCovered(p)
  BY DEF KInv, Covered
<1> DEFINE A == Accounted(p)
           B == Accounted(p)'
<1>3. A \subseteq B /\ QueueCovers(A, toPhone[p])
  BY <1>2 DEF FramesCovered
<1> HIDE DEF A, B
<1>4. /\ QueueCovers(B, Tail(toPhone[p]))
      /\ \A m : SentAll(A, toPhone[p], m) => SentAll(B, Tail(toPhone[p]), m)
  BY <1>1, <1>3, QueueTaken DEF B
<1> USE DEF A, B
<1>5. p \in bound' => SentAll(Accounted(p), toPhone[p], next - 1)
  BY <1>2 DEF FramesCovered
<1> QED
  BY <1>1, <1>4, <1>5 DEF FramesCovered

(* A welcome, or rows, arrive. *)
LEMMA ArriveCovers ==
    ASSUME KInv, NEW p \in Phones, OnWelcome(p) \/ OnRows(p)
    PROVE  NoHoleAboveFloor' /\ Covered'
<1>1. /\ toPhone[p] # <<>> /\ toPhone' = [toPhone EXCEPT ![p] = Tail(@)]
      /\ UNCHANGED <<inbox, bound, toRouter, advance, tick, seen>>
      /\ link[p] # "poll" /\ link'[p] # "poll"
  BY DEF OnWelcome, OnRows, Receive, KInv, Typed, CoordTyped
<1>2. NoHoleAboveFloor'
  BY <1>1 DEF KInv, NoHoleAboveFloor, inbox
<1>3. ASSUME NEW q \in Phones, q # p PROVE CursorsCovered(q)' /\ FramesCovered(q)'
  <2>1. CursorsCovered(q) /\ FramesCovered(q)
    BY DEF KInv, Covered
  <2>2. /\ cursor'[q] = cursor[q] /\ excused'[q] = excused[q] /\ jobs'[q] = jobs[q]
        /\ link'[q] = link[q] /\ toPhone'[q] = toPhone[q]
    BY <1>3 DEF OnWelcome, OnRows, KInv, Typed, CoordTyped, PhoneTyped, NetworkTyped
  <2> QED
    BY <1>1, <2>1, <2>2, Untouched DEF inbox
<1>4. CursorsCovered(p) /\ FramesCovered(p)
  BY DEF KInv, Covered
<1> DEFINE h == Head(toPhone[p])
<1>5. 1 \in DOMAIN toPhone[p] /\ h = toPhone[p][1] /\ h \in Frames
  BY <1>1, HeadTypes DEF KInv
<1>6. CASE OnWelcome(p)
  <2>1. /\ h.type = "welcome" /\ cursor'[p] = h.cursor /\ UNCHANGED jobs
        /\ excused[p] \subseteq excused'[p]
    BY <1>6 DEF OnWelcome, Receive, KInv, Typed, CoordTyped, PhoneTyped
  <2>2. 1 .. h.cursor \subseteq Accounted(p)
    BY <1>4, <1>5, <2>1 DEF FramesCovered, QueueCovers
  <2>3. Accounted(p) \subseteq Accounted(p)'
    BY <1>1, <2>1 DEF Accounted
  <2>4. CursorsOf(p)' \subseteq CursorsOf(p) \cup {h.cursor}
    BY <1>1, <2>1 DEF CursorsOf, inbox
  <2>5. \A d \in {h.cursor} : 1 .. d \subseteq Accounted(p)'
    BY <2>2, <2>3
  <2>6. CursorsCovered(p)'
    BY <1>4, <2>3, <2>4, <2>5 DEF CursorsCovered
  <2>7. FramesCovered(p)'
    BY <1>1, <2>1, <2>3, TakenCovers DEF inbox
  <2> QED
    BY <1>2, <1>3, <2>6, <2>7 DEF Covered
<1>7. CASE OnRows(p)
  <2> DEFINE j == [rows |-> h.rows, cursor |-> h.cursor, live |-> TRUE]
  <2>1. /\ h.type = "rows" /\ jobs'[p] = jobs[p] \cup {j} /\ UNCHANGED <<cursor, excused>>
    BY <1>7 DEF OnRows, Receive, KInv, Typed, PhoneTyped
  <2>2. j.rows = h.rows /\ j.cursor = h.cursor
    OBVIOUS
  <2> HIDE DEF j, h
  <2>3. Accounted(p) \subseteq Accounted(p)' /\ h.rows \subseteq Accounted(p)'
    BY <1>1, <2>1, <2>2 DEF Accounted
  <2>4. CursorsOf(p)' \subseteq CursorsOf(p) \cup {h.cursor}
    <3>1. LiveOf(jobs'[p]) \subseteq LiveOf(jobs[p]) \cup {h.cursor}
      BY <2>1, <2>2 DEF LiveOf
    <3> QED
      BY <1>1, <2>1, <3>1 DEF CursorsOf, inbox
  <2>5. \A s \in 1 .. h.cursor : s \in Accounted(p) \/ s \in h.rows
    <3>1. \A s \in 1 .. h.cursor : s \in Accounted(p) \/ Carried(toPhone[p], 1, s)
      BY <1>4, <1>5, <2>1 DEF FramesCovered, QueueCovers
    <3>2. \A k \in DOMAIN toPhone[p] : k <= 1 => k = 1
      BY HeadTypes DEF KInv
    <3>3. \A s : Carried(toPhone[p], 1, s) => s \in h.rows
      BY <1>5, <3>2 DEF Carried
    <3> QED
      BY <3>1, <3>3
  <2>6. \A d \in {h.cursor} : 1 .. d \subseteq Accounted(p)'
    BY <2>3, <2>5
  <2>7. CursorsCovered(p)'
    BY <1>4, <2>3, <2>4, <2>6 DEF CursorsCovered
  <2>8. FramesCovered(p)'
    BY <1>1, <2>1, <2>3, TakenCovers DEF inbox, h
  <2> QED
    BY <1>2, <1>3, <2>7, <2>8 DEF Covered
<1> QED
  BY <1>6, <1>7

(* A drain coroutine runs: its rows are seen, its cursor was covered. *)
LEMMA DrainRowsCovers ==
    ASSUME KInv, NEW p \in Phones, DrainRows(p)
    PROVE  NoHoleAboveFloor' /\ Covered'
<1>1. PICK j \in jobs[p] :
         /\ jobs' = [jobs EXCEPT ![p] = @ \ {j}]
         /\ seen' = [seen EXCEPT ![p] = @ \cup j.rows]
         /\ IF j.live /\ j.cursor > cursor[p]
            THEN /\ cursor' = [cursor EXCEPT ![p] = j.cursor]
                 /\ toRouter' = [toRouter EXCEPT ![p] = Append(@, Ack(j.cursor, epoch[p]))]
            ELSE UNCHANGED <<cursor, toRouter>>
  BY DEF DrainRows
<1>2. UNCHANGED <<inbox, bound, toPhone, link, advance, tick, excused>>
  BY DEF DrainRows
<1>3. NoHoleAboveFloor'
  BY <1>2 DEF KInv, NoHoleAboveFloor, inbox
<1>4. ASSUME NEW q \in Phones, q # p PROVE CursorsCovered(q)' /\ FramesCovered(q)'
  <2>1. CursorsCovered(q) /\ FramesCovered(q)
    BY DEF KInv, Covered
  <2>2. cursor'[q] = cursor[q] /\ toRouter'[q] = toRouter[q]
    BY <1>1, <1>4 DEF KInv, Typed, CoordTyped, NetworkTyped
  <2>3. seen'[q] = seen[q] /\ jobs'[q] = jobs[q]
    BY <1>1, <1>4 DEF KInv, Typed, PhoneTyped
  <2> QED
    BY <1>2, <2>1, <2>2, <2>3, Untouched DEF inbox
<1>5. CursorsCovered(p) /\ FramesCovered(p)
  BY DEF KInv, Covered
<1>6. jobs'[p] = jobs[p] \ {j} /\ seen'[p] = seen[p] \cup j.rows
  BY <1>1 DEF KInv, Typed, PhoneTyped
<1>7. Accounted(p) \subseteq Accounted(p)'
  <2>1. \A s : s \in UNION {k.rows : k \in jobs[p]} =>
                   s \in j.rows \/ s \in UNION {k.rows : k \in jobs[p] \ {j}}
    OBVIOUS
  <2> QED
    BY <1>2, <1>6, <2>1 DEF Accounted
<1>8. LiveOf(jobs'[p]) \subseteq LiveOf(jobs[p])
  BY <1>6 DEF LiveOf
<1>9. CursorsOf(p)' \subseteq CursorsOf(p)
  <2>1. CASE j.live /\ j.cursor > cursor[p]
    <3>1. j.cursor \in LiveOf(jobs[p])
      BY <2>1 DEF LiveOf
    <3>2. cursor'[p] = j.cursor /\ toRouter'[p] = Append(toRouter[p], Ack(j.cursor, epoch[p]))
      BY <1>1, <2>1 DEF KInv, Typed, CoordTyped, NetworkTyped
    <3>3. j.cursor \in 0 .. MaxRows /\ epoch[p] \in Epochs
      BY BoundsAssumption DEF KInv, Typed, PhoneTyped, CoordTyped, Jobs, Seqs
    <3>4. AckedBy(toRouter'[p]) \subseteq AckedBy(toRouter[p]) \cup {j.cursor}
      BY <3>2, <3>3, AckedIs, HeadTypes DEF KInv
    <3> QED
      BY <1>2, <1>8, <3>1, <3>2, <3>4 DEF CursorsOf, inbox
  <2>2. CASE ~ (j.live /\ j.cursor > cursor[p])
    BY <1>1, <1>2, <1>8, <2>2 DEF CursorsOf, inbox
  <2> QED
    BY <2>1, <2>2
<1>10. CursorsCovered(p)'
  BY <1>5, <1>7, <1>9 DEF CursorsCovered
<1>11. FramesCovered(p)'
  BY <1>2, <1>5, <1>7, QueueGrows DEF FramesCovered, inbox
<1> QED
  BY <1>3, <1>4, <1>10, <1>11 DEF Covered

(* A step of the poll loop: it moves cursors of its phone to where they    *)
(* were or into New, and rows seen or excused stay so.                     *)
PollStep(p, New) ==
    /\ UNCHANGED <<rows, next, floor, bound, toPhone, toRouter, link, jobs>>
    /\ \A q \in Phones \ {p} : /\ consumer'[q] = consumer[q] /\ cursor'[q] = cursor[q]
                               /\ advance'[q] = advance[q] /\ tick'[q] = tick[q]
                               /\ seen'[q] = seen[q] /\ excused'[q] = excused[q]
    /\ seen[p] \subseteq seen'[p] /\ excused[p] \subseteq excused'[p]
    /\ {consumer'[p].cursor, cursor'[p], advance'[p].cursor, tick'[p].at.cursor}
           \subseteq CursorsOf(p) \cup New

(* What it moves a cursor to is covered. *)
LEMMA PolledCovers ==
    ASSUME KInv, NEW p \in Phones, NEW New, PollStep(p, New),
           \A c \in New : 1 .. c \subseteq Accounted(p)'
    PROVE  NoHoleAboveFloor' /\ Covered'
<1> USE DEF PollStep
<1>1. NoHoleAboveFloor'
  BY DEF KInv, NoHoleAboveFloor
<1>2. ASSUME NEW q \in Phones, q # p PROVE CursorsCovered(q)' /\ FramesCovered(q)'
  <2>1. CursorsCovered(q) /\ FramesCovered(q)
    BY DEF KInv, Covered
  <2> QED
    BY <1>2, <2>1, Untouched
<1>3. CursorsCovered(p) /\ FramesCovered(p)
  BY DEF KInv, Covered
<1>4. Accounted(p) \subseteq Accounted(p)'
  BY DEF Accounted
<1>5. CursorsOf(p)' \subseteq CursorsOf(p) \cup New
  BY DEF CursorsOf
<1>6. CursorsCovered(p)'
  BY <1>3, <1>4, <1>5, CursorsStep
<1>7. FramesCovered(p)'
  BY <1>3, <1>4, QueueGrows DEF FramesCovered
<1> QED
  BY <1>1, <1>2, <1>6, <1>7 DEF Covered

(* The floor a phone adopts: what is below it is excused. *)
LEMMA AdoptedIs ==
    ASSUME Typed, NEW p \in Phones, AdoptFloor(p)
    PROVE  /\ cursor'[p] = floor - 1 /\ excused'[p] = excused[p] \cup 1 .. floor - 1
           /\ 1 .. floor - 1 \subseteq Accounted(p)'
           /\ \A q \in Phones \ {p} : cursor'[q] = cursor[q] /\ excused'[q] = excused[q]
<1>1. /\ cursor'[p] = floor - 1 /\ excused'[p] = excused[p] \cup 1 .. floor - 1
      /\ \A q \in Phones \ {p} : cursor'[q] = cursor[q] /\ excused'[q] = excused[q]
  BY DEF AdoptFloor, Typed, CoordTyped, PhoneTyped
<1> QED
  BY <1>1 DEF Accounted

(* An inbox_advance: it names a covered cursor. *)
LEMMA AdvanceCovers ==
    ASSUME KInv, NEW p \in Phones, NEW at \in Positions, at.cursor \in CursorsOf(p),
           NEW then, SendAdvance(p, at, then),
           UNCHANGED <<rows, next, floor, network, link, jobs, seen>>
    PROVE  NoHoleAboveFloor' /\ Covered'
<1>1. /\ consumer' \in {consumer, [consumer EXCEPT ![p] = at]}
      /\ advance' \in {[advance EXCEPT ![p] = None], [advance EXCEPT ![p] = at]}
      /\ \E pc : tick' = [tick EXCEPT ![p] = [pc |-> pc, at |-> None]]
      /\ AdoptFloor(p) \/ UNCHANGED <<cursor, excused>>
  BY DEF SendAdvance, Goes
<1>2. /\ consumer'[p].cursor \in {consumer[p].cursor, at.cursor}
      /\ advance'[p].cursor \in {0, at.cursor} /\ tick'[p].at.cursor = 0
      /\ \A q \in Phones \ {p} : /\ consumer'[q] = consumer[q] /\ advance'[q] = advance[q]
                                 /\ tick'[q] = tick[q]
  <2>1. None.cursor = 0
    BY DEF None, Position
  <2>2. /\ consumer'[p] \in {consumer[p], at} /\ advance'[p] \in {None, at} /\ tick'[p].at = None
        /\ \A q \in Phones \ {p} : /\ consumer'[q] = consumer[q] /\ advance'[q] = advance[q]
                                   /\ tick'[q] = tick[q]
    BY <1>1 DEF KInv, Typed, InboxTyped, CoordTyped, PhoneTyped
  <2> QED
    BY <2>1, <2>2
<1>3. 1 .. 0 = {} /\ consumer[p].cursor \in CursorsOf(p) /\ cursor[p] \in CursorsOf(p)
  BY DEF CursorsOf
<1>4. CASE AdoptFloor(p)
  <2>1. /\ cursor'[p] = floor - 1 /\ excused[p] \subseteq excused'[p]
        /\ 1 .. floor - 1 \subseteq Accounted(p)'
        /\ \A q \in Phones \ {p} : cursor'[q] = cursor[q] /\ excused'[q] = excused[q]
    BY <1>4, AdoptedIs DEF KInv
  <2>2. \A c \in {0, floor - 1} : 1 .. c \subseteq Accounted(p)'
    BY <1>3, <2>1
  <2>3. {consumer'[p].cursor, cursor'[p], advance'[p].cursor, tick'[p].at.cursor}
            \subseteq CursorsOf(p) \cup {0, floor - 1}
    BY <1>2, <1>3, <2>1
  <2>4. PollStep(p, {0, floor - 1})
    BY <1>2, <2>1, <2>3 DEF PollStep, network
  <2> QED
    BY <2>2, <2>4, PolledCovers
<1>5. CASE UNCHANGED <<cursor, excused>>
  <2>1. \A c \in {0} : 1 .. c \subseteq Accounted(p)'
    BY <1>3
  <2>2. {consumer'[p].cursor, cursor'[p], advance'[p].cursor, tick'[p].at.cursor}
            \subseteq CursorsOf(p) \cup {0}
    BY <1>2, <1>3, <1>5
  <2>3. PollStep(p, {0})
    BY <1>2, <1>5, <2>2 DEF PollStep, network
  <2> QED
    BY <2>1, <2>3, PolledCovers
<1> QED
  BY <1>1, <1>4, <1>5

(* The poll loop takes a step. *)
LEMMA PollCovers ==
    ASSUME KInv, NEW p \in Phones, Poll(p)
    PROVE  NoHoleAboveFloor' /\ Covered'
<1>1. /\ advance[p] \in Positions /\ tick[p].at \in Positions
      /\ advance[p].cursor \in CursorsOf(p) /\ tick[p].at.cursor \in CursorsOf(p)
      /\ consumer[p].cursor \in CursorsOf(p) /\ cursor[p] \in CursorsOf(p)
  BY DEF KInv, Typed, CoordTyped, PhoneTyped, CursorsOf
<1>2. None.cursor = 0 /\ 1 .. 0 = {}
  BY DEF None, Position
<1>3. CASE PollStart(p)
  <2>1. UNCHANGED <<rows, next, floor, network, link, jobs, seen>>
    BY <1>3 DEF PollStart
  <2>2. CASE SendAdvance(p, advance[p], "read")
    BY <1>1, <2>1, <2>2, AdvanceCovers
  <2>3. CASE Goes(p, "read", None) /\ UNCHANGED <<consumer, cursor, advance, excused>>
    <3>1. tick'[p].at = None /\ \A q \in Phones \ {p} : tick'[q] = tick[q]
      BY <2>3 DEF Goes, KInv, Typed, PhoneTyped
    <3>2. {consumer'[p].cursor, cursor'[p], advance'[p].cursor, tick'[p].at.cursor}
              \subseteq CursorsOf(p) \cup {0}
      BY <1>1, <1>2, <2>3, <3>1
    <3>3. \A c \in {0} : 1 .. c \subseteq Accounted(p)'
      BY <1>2
    <3>4. PollStep(p, {0})
      BY <2>1, <2>3, <3>1, <3>2 DEF PollStep, network
    <3> QED
      BY <3>3, <3>4, PolledCovers
  <2> QED
    BY <1>3, <2>2, <2>3 DEF PollStart
<1>4. CASE PollRead(p)
  <2> DEFINE page == Page(cursor[p] + 1, RowsPerPoll)
             last == Max(page)
  <2>1. UNCHANGED <<inbox, network, link, advance, jobs>>
    BY <1>4 DEF PollRead
  <2>2. \/ AdoptFloor(p) /\ Goes(p, "idle", None) /\ UNCHANGED seen
        \/ /\ ~ ReadStale(consumer[p], cursor[p] + 1, epoch[p])
           /\ seen' = [seen EXCEPT ![p] = @ \cup page]
           /\ \/ /\ page # {} /\ cursor' = [cursor EXCEPT ![p] = last]
                 /\ Goes(p, "advance", Position(last, epoch[p]))
              \/ Goes(p, "idle", None) /\ UNCHANGED cursor
           /\ UNCHANGED excused
        \/ Goes(p, "idle", None) /\ UNCHANGED <<seen, cursor, excused>>
    BY <1>4 DEF PollRead
  <2>3. ASSUME NEW pc, NEW at, Goes(p, pc, at)
        PROVE  tick'[p].at = at /\ \A q \in Phones \ {p} : tick'[q] = tick[q]
    BY <2>3 DEF Goes, KInv, Typed, PhoneTyped
  <2>4. CASE AdoptFloor(p) /\ Goes(p, "idle", None) /\ UNCHANGED seen
    <3>1. /\ cursor'[p] = floor - 1 /\ excused[p] \subseteq excused'[p]
          /\ 1 .. floor - 1 \subseteq Accounted(p)'
          /\ \A q \in Phones \ {p} : cursor'[q] = cursor[q] /\ excused'[q] = excused[q]
      BY <2>4, AdoptedIs DEF KInv
    <3>2. tick'[p].at = None /\ \A q \in Phones \ {p} : tick'[q] = tick[q]
      BY <2>3, <2>4
    <3>3. {consumer'[p].cursor, cursor'[p], advance'[p].cursor, tick'[p].at.cursor}
              \subseteq CursorsOf(p) \cup {0, floor - 1}
      BY <1>1, <1>2, <2>1, <3>1, <3>2 DEF inbox
    <3>4. \A c \in {0, floor - 1} : 1 .. c \subseteq Accounted(p)'
      BY <1>2, <3>1
    <3>5. PollStep(p, {0, floor - 1})
      BY <2>1, <2>4, <3>1, <3>2, <3>3 DEF PollStep, inbox, network
    <3> QED
      BY <3>4, <3>5, PolledCovers
  <2>5. CASE Goes(p, "idle", None) /\ UNCHANGED <<cursor, excused>>
             /\ seen' \in {seen, [seen EXCEPT ![p] = @ \cup page]}
    <3>1. seen[p] \subseteq seen'[p] /\ \A q \in Phones \ {p} : seen'[q] = seen[q]
      BY <2>5 DEF KInv, Typed, PhoneTyped
    <3>2. tick'[p].at = None /\ \A q \in Phones \ {p} : tick'[q] = tick[q]
      BY <2>3, <2>5
    <3>3. {consumer'[p].cursor, cursor'[p], advance'[p].cursor, tick'[p].at.cursor}
              \subseteq CursorsOf(p) \cup {0}
      BY <1>1, <1>2, <2>1, <2>5, <3>2 DEF inbox
    <3>4. \A c \in {0} : 1 .. c \subseteq Accounted(p)'
      BY <1>2
    <3>5. PollStep(p, {0})
      BY <2>1, <2>5, <3>1, <3>2, <3>3 DEF PollStep, inbox, network
    <3> QED
      BY <3>4, <3>5, PolledCovers
  <2>6. CASE /\ ~ ReadStale(consumer[p], cursor[p] + 1, epoch[p])
             /\ seen' = [seen EXCEPT ![p] = @ \cup page]
             /\ page # {} /\ cursor' = [cursor EXCEPT ![p] = last]
             /\ Goes(p, "advance", Position(last, epoch[p]))
             /\ UNCHANGED excused
    <3>1. cursor[p] \in 0 .. MaxRows /\ floor \in Nat /\ cursor[p] + 1 >= floor
      BY <2>6 DEF ReadStale, KInv, Typed, InboxTyped, CoordTyped
    <3>2. last \in page /\ \A s \in page : \A t \in cursor[p] + 1 .. s : t \in page
      <4>1. cursor[p] + 1 \in Nat /\ RowsPerPoll \in Nat \ {0}
        BY <3>1, BoundsAssumption
      <4> QED
        BY <2>6, <3>1, <4>1, PageTypes, ReadLeavesNone DEF KInv
    <3>3. last \in Nat
      <4>1. cursor[p] + 1 \in Nat /\ RowsPerPoll \in Nat
        BY <3>1, BoundsAssumption
      <4>2. page \subseteq rows
        BY <4>1, PageTypes DEF KInv
      <4>3. rows \subseteq Nat
        BY BoundsAssumption DEF KInv, Typed, InboxTyped, Seqs
      <4> HIDE DEF page, last
      <4> QED
        BY <3>2, <4>2, <4>3
    <3> HIDE DEF page, last
    <3>4. seen'[p] = seen[p] \cup page /\ \A q \in Phones \ {p} : seen'[q] = seen[q]
      BY <2>6 DEF KInv, Typed, PhoneTyped
    <3>5. cursor'[p] = last /\ \A q \in Phones \ {p} : cursor'[q] = cursor[q]
      BY <2>6 DEF KInv, Typed, CoordTyped
    <3>6. tick'[p].at.cursor = last /\ \A q \in Phones \ {p} : tick'[q] = tick[q]
      BY <2>3, <2>6 DEF Position
    <3>7. 1 .. last \subseteq Accounted(p)'
      <4>1. 1 .. cursor[p] \subseteq Accounted(p)
        BY <1>1 DEF KInv, Covered, CursorsCovered
      <4>2. Accounted(p) \subseteq Accounted(p)' /\ page \subseteq Accounted(p)'
        BY <2>1, <2>6, <3>4 DEF Accounted
      <4>3. \A t \in 1 .. last : t \in 1 .. cursor[p] \/ t \in cursor[p] + 1 .. last
        BY <3>1, <3>3
      <4> QED
        BY <3>2, <4>1, <4>2, <4>3
    <3>8. {consumer'[p].cursor, cursor'[p], advance'[p].cursor, tick'[p].at.cursor}
              \subseteq CursorsOf(p) \cup {last}
      BY <1>1, <2>1, <3>5, <3>6 DEF inbox
    <3>9. \A c \in {last} : 1 .. c \subseteq Accounted(p)'
      BY <3>7
    <3>10. PollStep(p, {last})
      BY <2>1, <2>6, <3>4, <3>5, <3>6, <3>8 DEF PollStep, inbox, network
    <3> QED
      BY <3>9, <3>10, PolledCovers
  <2> HIDE DEF page, last
  <2> QED
    BY <2>2, <2>4, <2>5, <2>6
<1>5. CASE PollAdvance(p)
  <2>1. UNCHANGED <<rows, next, floor, network, link, jobs, seen>>
    BY <1>5 DEF PollAdvance
  <2> QED
    BY <1>1, <1>5, <2>1, AdvanceCovers DEF PollAdvance
<1> QED
  BY <1>3, <1>4, <1>5 DEF Poll

----------------------------------------------------------------------------
(* The theorems about cursors and the floor *)

(* Nothing is appended, nothing read. *)
LEMMA InitKInv == Init => KInv
<1> SUFFICES ASSUME Init PROVE KInv
  OBVIOUS
<1>1. Typed
  BY InitTyped
<1>2. NoHoleAboveFloor
  BY DEF Init, NoHoleAboveFloor
<1>3. ASSUME NEW p \in Phones PROVE CursorsCovered(p) /\ FramesCovered(p)
  <2>1. CursorsOf(p) \subseteq {0}
    BY DEF Init, CursorsOf, AckedBy, LiveOf, None, Position, Idle
  <2>2. 1 .. 0 = {}
    OBVIOUS
  <2>3. CursorsCovered(p)
    BY <2>1, <2>2 DEF CursorsCovered
  <2>4. FramesCovered(p)
    BY DEF Init, FramesCovered, QueueCovers
  <2> QED
    BY <2>3, <2>4
<1> QED
  BY <1>1, <1>2, <1>3 DEF KInv, Covered

(* The failures under which a cursor never runs ahead: every one but the   *)
(* end of the phone's process, and a cut between compactInbox's writes.    *)
Survivable == "split" \notin Faults /\ "death" \notin Faults

(* Every step keeps the invariant while the backlog fits a frame. *)
LEMMA StepKInv ==
    ASSUME Survivable
    PROVE  KInv /\ BacklogFits /\ [Next]_vars => KInv'
<1> SUFFICES ASSUME KInv, BacklogFits, [Next]_vars PROVE KInv'
  OBVIOUS
<1>1. Typed'
  BY StepTyped DEF KInv
<1>2. CASE RouterStep
  BY <1>1, <1>2, AppendCovers, SweepCovers, QuietCovers, HelloCovers, AckCovers
     DEF RouterStep, Reply, KInv, Survivable
<1>3. ASSUME NEW p \in Phones, PhoneStep(p) PROVE KInv'
  <2>1. ~ PhoneDies(p)
    BY DEF PhoneDies, Survivable
  <2> QED
    BY <1>1, <1>3, <2>1, ConnectCovers, CloseCovers, ArriveCovers, DrainRowsCovers, QuietCovers,
       PollCovers DEF PhoneStep, Deliver, KInv
<1>4. CASE UNCHANGED vars
  <2>1. NoHoleAboveFloor'
    BY <1>4 DEF vars, inbox, KInv, NoHoleAboveFloor
  <2>2. ASSUME NEW q \in Phones PROVE CursorsCovered(q)' /\ FramesCovered(q)'
    <3>1. CursorsCovered(q) /\ FramesCovered(q)
      BY DEF KInv, Covered
    <3> QED
      BY <1>4, <3>1, Untouched DEF vars, inbox, time, network, phone, coord
  <2> QED
    BY <1>1, <2>1, <2>2 DEF KInv, Covered
<1> QED
  BY <1>2, <1>3, <1>4 DEF Next

(* "Cursor guarantees delivery" (consoleSockets.ts): as long as the held   *)
(* rows fit in one frame, no order of pushes, acks, polls, retried         *)
(* advances, refusals, sweeps, lost sockets and restarts moves the         *)
(* Router's cursor past a row that its console neither got nor was told it *)
(* lost, and from the floor on no row is missing.                          *)
THEOREM CursorKeepsRows ==
    ASSUME Survivable
    PROVE  Spec /\ []BacklogFits => []RowsKept
<1>1. Spec /\ []BacklogFits => []KInv
  BY InitKInv, StepKInv, PTL DEF Spec
<1>2. KInv => RowsKept
  BY CoveredIsCursorCovered DEF KInv, RowsKept
<1> QED
  BY <1>1, <1>2, PTL

(* A sweep drops what is past its TTL, or what lies below the cursor of    *)
(* every console it leaves registered, which is accounted for.             *)
LEMMA StepDrops ==
    ASSUME KInv, [Next]_vars, NEW s \in rows \ rows', NEW p \in Phones,
           s \notin old, consumer'[p] # None
    PROVE  s \in Accounted(p)
<1>1. SweepInbox
  <2>1. \/ SweepInbox \/ rows \subseteq rows'
    BY DEF Next, RouterStep, PhoneStep, Reply, Deliver, Poll, AppendRow, HandleHello, HandleAck,
           RouterDrops, RouterRestarts, MonthPasses, Connect, PhoneDrops, OnWelcome, OnRows, OnStale,
           Receive, DrainRows, Background, Foreground, PhoneDies, PollStart, PollRead, PollAdvance,
           vars, inbox
  <2> QED
    BY <2>1
<1>2. PICK forgotten \in SUBSET idle : \E expired \in SUBSET old : SweepsTo(forgotten, expired)
  BY <1>1, SweepChooses DEF KInv
<1>3. PICK expired \in SUBSET old : SweepsTo(forgotten, expired)
  BY <1>2
<1> DEFINE records == [q \in Phones |-> IF q \in forgotten THEN None ELSE consumer[q]]
           low     == LowestCursor(records)
<1>4. records \in [Phones -> Positions] /\ expired \in SUBSET Seqs
  BY PositionTypes DEF KInv, Typed, InboxTyped
<1>5. consumer' = records /\ (rows' = rows \ expired \/ rows' = {t \in rows \ expired : t > low})
  BY <1>3 DEF SweepsTo
<1>6. records[p] # None /\ records[p] = consumer[p]
  BY <1>5
<1>7. low \in 0 .. MaxRows /\ low <= consumer[p].cursor /\ consumer[p].cursor \in 0 .. MaxRows
  BY <1>4, <1>6, SweepTypes, PositionTypes DEF KInv
<1>8. s \in Seqs /\ s \notin expired
  BY DEF KInv, Typed, InboxTyped
<1> HIDE DEF low, records
<1>9. ~ (s > low)
  BY <1>5, <1>8
<1>10. s \in 1 .. consumer[p].cursor
  BY <1>7, <1>8, <1>9, BoundsAssumption DEF Seqs
<1> QED
  BY <1>10 DEF KInv, Covered, CursorsCovered, CursorsOf

(* Compaction drops no row that a console still registered has neither     *)
(* got nor been told about, unless the row's TTL is over (compactInbox).   *)
THEOREM SweepsDropAccounted ==
    ASSUME Survivable
    PROVE  Spec /\ []BacklogFits => DropsOnlyAccounted
<1>1. Spec /\ []BacklogFits => []KInv
  BY InitKInv, StepKInv, PTL DEF Spec
<1>2. KInv /\ [Next]_vars =>
          [\A s \in rows \ rows' :
              s \in old \/ \A p \in Phones : consumer'[p] # None => s \in Accounted(p)]_vars
  BY StepDrops
<1> QED
  BY <1>1, <1>2, PTL DEF Spec, DropsOnlyAccounted

=============================================================================
