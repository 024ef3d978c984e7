---------------------------- MODULE InboxProofs -----------------------------
(* Theorems about Inbox, for every value of its constants. *)
EXTENDS Inbox, FiniteSetTheorems, TLAPS

----------------------------------------------------------------------------
(* The inductive invariant *)

FiniteRows == \A a \in Addresses : IsFiniteSet(rows[a])

(* The pump handles console ops apart from the rest. *)
PumpRunsConsole == \A o \in Ops : pump[o] # "idle" => Kind[o] = "console_op"

(* A record is accepted once and never again, and has no result before. *)
Counted ==
    \A o \in Ops :
        /\ appended[o] \in {0, 1} /\ answered[o] \in {0, 1}
        /\ ledger[o].state = "none" => appended[o] = 0
        /\ ledger[o].state \in {"none", "accepted"} => answered[o] = 0

IInv == TypeOK /\ FiniteRows /\ PumpRunsConsole /\ OpenHasRow /\ Counted

(* What a step does to the rows and records, apart from the pump. *)
StoreInv ==
    /\ rows \in [Addresses -> SUBSET Rows] /\ next \in [Addresses -> Nat \ {0}]
    /\ ledger \in [Ops -> Records] /\ old \in [Addresses -> SUBSET (Nat \ {0})]
    /\ FiniteRows /\ OpenHasRow

(* No step that settles a record makes it new again. *)
Settles ==
    \A o \in Ops : ledger'[o] = ledger[o] \/ ledger'[o].state \notin {"none", "accepted"}

----------------------------------------------------------------------------
(* Lemmas about the operators *)

(* The image of a finite set under a function is finite. *)
LEMMA ImageFinite ==
    ASSUME NEW S, IsFiniteSet(S), NEW T, NEW f \in [S -> T]
    PROVE  IsFiniteSet({f[x] : x \in S})
<1> DEFINE R == {f[x] : x \in S}
<1>1. f \in Surjection(S, R)
  BY DEF Surjection
<1> QED
  BY <1>1, FS_Surjection

(* retireRow keeps the types and strands no open operation. *)
LEMMA RetiresKeeps ==
    ASSUME StoreInv, NEW a \in Addresses, NEW gone \in SUBSET rows[a],
           NEW outcome \in {"failed", "expired"}, Retires(a, gone, outcome)
    PROVE  StoreInv' /\ Settles
<1> DEFINE from(b)    == {r \in gone : r.origin = b}
           place(r)   == Cardinality({q \in from(r.origin) : q.seq < r.seq})
           results(b) == {Row(r.op, next[b] + place(r), "op_result", "router") : r \in from(b)}
           kept(b)    == IF b = a THEN rows[b] \ gone ELSE rows[b]
<1>1. /\ rows' = [b \in Addresses |-> kept(b) \cup results(b)]
      /\ next' = [b \in Addresses |-> next[b] + Cardinality(from(b))]
      /\ ledger' = [o \in Ops |-> IF \E r \in gone : r.op = o THEN Record(outcome, outcome) ELSE ledger[o]]
      /\ old' = [old EXCEPT ![a] = @ \ {r.seq : r \in gone}]
  BY DEF Retires
<1>2. IsFiniteSet(gone) /\ gone \subseteq Rows
  BY FS_Subset DEF StoreInv, FiniteRows
<1>3. \A b : IsFiniteSet(from(b)) /\ Cardinality(from(b)) \in Nat
  <2> SUFFICES ASSUME NEW b PROVE IsFiniteSet(from(b)) /\ Cardinality(from(b)) \in Nat
    OBVIOUS
  <2>1. from(b) \in SUBSET gone
    OBVIOUS
  <2> QED
    BY <1>2, <2>1, FS_Subset, FS_CardinalityType
<1>4. \A r \in gone : place(r) \in Nat
  <2> SUFFICES ASSUME NEW r \in gone PROVE place(r) \in Nat
    OBVIOUS
  <2>1. {q \in from(r.origin) : q.seq < r.seq} \in SUBSET gone
    OBVIOUS
  <2> QED
    BY <1>2, <2>1, FS_Subset, FS_CardinalityType
<1> HIDE DEF place
<1>5. \A b \in Addresses : results(b) \subseteq Rows /\ IsFiniteSet(results(b))
  <2> SUFFICES ASSUME NEW b \in Addresses PROVE results(b) \subseteq Rows /\ IsFiniteSet(results(b))
    OBVIOUS
  <2> DEFINE f == [r \in from(b) |-> Row(r.op, next[b] + place(r), "op_result", "router")]
  <2>1. \A r \in from(b) : r.op \in Ops /\ next[b] + place(r) \in Nat \ {0}
    BY <1>2, <1>4 DEF StoreInv, Rows
  <2>2. \A r \in from(b) : Row(r.op, next[b] + place(r), "op_result", "router") \in Rows
    BY <2>1 DEF Row, Rows, Kinds, Origins
  <2>3. results(b) \subseteq Rows
    BY <2>2
  <2>4. f \in [from(b) -> Rows]
    BY <2>2
  <2>5. results(b) = {f[r] : r \in from(b)}
    OBVIOUS
  <2>6. IsFiniteSet({f[r] : r \in from(b)})
    <3>1. IsFiniteSet(from(b))
      BY <1>3
    <3> HIDE DEF f, from
    <3> QED
      BY <2>4, <3>1, ImageFinite
  <2> QED
    BY <2>3, <2>5, <2>6
<1>6. \A b \in Addresses : kept(b) \subseteq Rows /\ IsFiniteSet(kept(b))
  <2> SUFFICES ASSUME NEW b \in Addresses PROVE kept(b) \subseteq Rows /\ IsFiniteSet(kept(b))
    OBVIOUS
  <2>1. kept(b) \in SUBSET rows[b]
    OBVIOUS
  <2> QED
    BY <2>1, FS_Subset DEF StoreInv, FiniteRows
<1> HIDE DEF results, kept, from
<1>7. rows' \in [Addresses -> SUBSET Rows] /\ FiniteRows'
  <2>1. \A b \in Addresses : rows'[b] = kept(b) \cup results(b)
    BY <1>1
  <2>2. \A b \in Addresses : IsFiniteSet(kept(b) \cup results(b))
    BY <1>5, <1>6, FS_Union
  <2>3. rows' \in [Addresses -> SUBSET Rows]
    BY <1>1, <1>5, <1>6
  <2> QED
    BY <2>1, <2>2, <2>3 DEF FiniteRows
<1>8. next' \in [Addresses -> Nat \ {0}]
  <2>1. \A b \in Addresses : next[b] + Cardinality(from(b)) \in Nat \ {0}
    BY <1>3 DEF StoreInv
  <2> QED
    BY <1>1, <2>1
<1>9. ledger' \in [Ops -> Records] /\ Settles
  <2>1. Record(outcome, outcome) \in Records
    BY DEF Record, Records, States, Results
  <2>2. Record(outcome, outcome).state \notin {"none", "accepted"}
    BY DEF Record
  <2> QED
    BY <1>1, <2>1, <2>2 DEF StoreInv, Settles
<1>10. old' \in [Addresses -> SUBSET (Nat \ {0})]
  BY <1>1 DEF StoreInv
<1>11. OpenHasRow'
  <2> SUFFICES ASSUME NEW o \in Ops, To[o] \in Sessions, ledger'[o].state \in Open
               PROVE  \E b \in Addresses \ {"owner"} : \E r \in rows'[b] : r.op = o
    BY DEF OpenHasRow
  <2>1. ~ \E r \in gone : r.op = o
    BY <1>1 DEF Record, Open
  <2>2. ledger'[o] = ledger[o]
    BY <1>1, <2>1
  <2>3. PICK b \in Addresses \ {"owner"} : \E r \in rows[b] : r.op = o
    BY <2>2 DEF StoreInv, OpenHasRow
  <2>4. PICK r \in rows[b] : r.op = o
    BY <2>3
  <2>5. r \in kept(b)
    BY <2>1, <2>4 DEF kept
  <2>6. r \in rows'[b]
    BY <1>1, <2>5
  <2> QED
    BY <2>4, <2>6
<1> QED
  BY <1>7, <1>8, <1>9, <1>10, <1>11 DEF StoreInv

(* An ack of a row that is not the owner's does the same. *)
LEMMA AckKeeps ==
    ASSUME StoreInv, NEW a \in Addresses \ {"owner"}, NEW r \in rows[a],
           NEW outcome \in {"delivered", "waking", "failed"}, Ack(a, r, outcome)
    PROVE  StoreInv' /\ Settles
<1>1. CASE outcome = "failed"
  BY <1>1, RetiresKeeps DEF Ack
<1>2. CASE outcome # "failed"
  <2>1. /\ IF outcome = "delivered" THEN Removes(a, {r}) ELSE UNCHANGED <<rows, old>>
        /\ ledger' = [ledger EXCEPT ![r.op] = Record(outcome, @.result)]
        /\ UNCHANGED next
    BY <1>2 DEF Ack
  <2>2. r.op \in Ops
    BY DEF StoreInv, Rows
  <2>3. ledger' \in [Ops -> Records]
    BY <1>2, <2>1, <2>2 DEF StoreInv, Records, Record, States
  <2>4. Settles
    BY <1>2, <2>1, <2>2 DEF StoreInv, Record, Settles
  <2>5. /\ rows' \in [Addresses -> SUBSET Rows]
        /\ old' \in [Addresses -> SUBSET (Nat \ {0})]
    BY <2>1 DEF StoreInv, Removes
  <2>6. FiniteRows'
    <3>1. \A b \in Addresses : rows'[b] \in SUBSET rows[b]
      BY <2>1 DEF StoreInv, Removes
    <3> QED
      BY <3>1, FS_Subset DEF StoreInv, FiniteRows
  <2>7. OpenHasRow'
    <3> SUFFICES ASSUME NEW o \in Ops, To[o] \in Sessions, ledger'[o].state \in Open
                 PROVE  \E b \in Addresses \ {"owner"} : \E q \in rows'[b] : q.op = o
      BY DEF OpenHasRow
    <3>1. CASE o = r.op
      <4>1. outcome = "waking"
        BY <1>2, <2>1, <3>1 DEF StoreInv, Record, Open
      <4>2. r \in rows'[a]
        BY <2>1, <4>1
      <4> QED
        BY <3>1, <4>2
    <3>2. CASE o # r.op
      <4>1. ledger'[o] = ledger[o]
        BY <2>1, <3>2 DEF StoreInv
      <4>2. PICK b \in Addresses \ {"owner"} : \E q \in rows[b] : q.op = o
        BY <4>1 DEF StoreInv, OpenHasRow
      <4>3. PICK q \in rows[b] : q.op = o
        BY <4>2
      <4>4. q \in rows'[b]
        BY <2>1, <3>2, <4>3 DEF StoreInv, Removes
      <4> QED
        BY <4>3, <4>4
    <3> QED
      BY <3>1, <3>2
  <2> QED
    BY <2>1, <2>3, <2>4, <2>5, <2>6, <2>7 DEF StoreInv
<1> QED
  BY <1>1, <1>2

(* A row appended for an address keeps the types and every other row. *)
LEMMA AppendsKeeps ==
    ASSUME StoreInv, NEW a \in Addresses, NEW o \in Ops, NEW kind \in Kinds,
           NEW origin \in Origins, Appends(a, o, kind, origin)
    PROVE  /\ rows' \in [Addresses -> SUBSET Rows] /\ next' \in [Addresses -> Nat \ {0}]
           /\ FiniteRows'
           /\ \A b \in Addresses : rows[b] \subseteq rows'[b]
           /\ \E r \in rows'[a] : r.op = o
<1> DEFINE new == Row(o, next[a], kind, origin)
<1>1. new \in Rows /\ new.op = o
  BY DEF StoreInv, Row, Rows
<1> HIDE DEF new
<1>2. /\ rows' = [rows EXCEPT ![a] = @ \cup {new}]
      /\ next' = [next EXCEPT ![a] = @ + 1]
  BY DEF Appends, new
<1>3. \A b \in Addresses : rows'[b] = IF b = a THEN rows[b] \cup {new} ELSE rows[b]
  BY <1>2 DEF StoreInv
<1>4. rows' \in [Addresses -> SUBSET Rows]
  BY <1>1, <1>2 DEF StoreInv
<1>5. next' \in [Addresses -> Nat \ {0}]
  BY <1>2 DEF StoreInv
<1>6. FiniteRows'
  <2> SUFFICES ASSUME NEW b \in Addresses PROVE IsFiniteSet(rows'[b])
    BY DEF FiniteRows
  <2>1. IsFiniteSet(rows[b]) /\ IsFiniteSet(rows[b] \cup {new})
    BY FS_AddElement DEF StoreInv, FiniteRows
  <2> QED
    BY <1>3, <2>1
<1> QED
  BY <1>1, <1>3, <1>4, <1>5, <1>6

(* A step that only settles records keeps the counts. *)
LEMMA SettlesCounted ==
    ASSUME Counted, Settles, UNCHANGED history
    PROVE  Counted'
BY DEF Counted, Settles, history

(* The part of IInv about the store, and what is left of it. *)
LEMMA IInvParts ==
    IInv <=> /\ StoreInv /\ Counted /\ PumpRunsConsole
             /\ months \in 0 .. MaxMonths
             /\ pump \in [Ops -> {"idle", "ran", "settled", "pending"}]
             /\ appended \in [Ops -> Nat] /\ answered \in [Ops -> Nat]
BY DEF IInv, TypeOK, StoreInv

(* A step that settles records, and touches neither clock nor history. *)
LEMMA SettlingStep ==
    ASSUME IInv, StoreInv', Settles, UNCHANGED <<months, history>>, PumpRunsConsole',
           pump' \in [Ops -> {"idle", "ran", "settled", "pending"}]
    PROVE  IInv'
<1>1. Counted'
  BY IInvParts, SettlesCounted
<1>2. /\ months' \in 0 .. MaxMonths
      /\ appended' \in [Ops -> Nat] /\ answered' \in [Ops -> Nat]
  BY IInvParts DEF history
<1> QED
  BY <1>1, <1>2 DEF IInv, TypeOK, StoreInv

----------------------------------------------------------------------------
(* The actions *)

(* appendInboxRow: the new record is open, and its row is there. *)
LEMMA AppendRowKeeps ==
    ASSUME IInv, NEW o \in Ops, AppendRow(o)
    PROVE  IInv'
<1>1. StoreInv /\ Counted /\ PumpRunsConsole
  BY IInvParts
<1>2. /\ To[o] \in Addresses /\ Kind[o] \in Kinds /\ From[o] \in Origins
      /\ Appends(To[o], o, Kind[o], From[o])
  BY ShapeAssumption DEF AppendRow, Kinds, Origins
<1>3. /\ rows' \in [Addresses -> SUBSET Rows] /\ next' \in [Addresses -> Nat \ {0}]
      /\ FiniteRows'
      /\ \A b \in Addresses : rows[b] \subseteq rows'[b]
      /\ \E r \in rows'[To[o]] : r.op = o
  BY <1>1, <1>2, AppendsKeeps
<1>4. PICK state \in {"accepted", "waking"} : ledger' = [ledger EXCEPT ![o] = Record(state, "accepted")]
  BY DEF AppendRow
<1>5. Record(state, "accepted") \in Records /\ Record(state, "accepted").state = state
  BY DEF Record, Records, States, Results
<1> HIDE DEF Record
<1>6. ledger' \in [Ops -> Records]
  BY <1>1, <1>4, <1>5 DEF StoreInv
<1>7. OpenHasRow'
  <2> SUFFICES ASSUME NEW p \in Ops, To[p] \in Sessions, ledger'[p].state \in Open
               PROVE  \E b \in Addresses \ {"owner"} : \E r \in rows'[b] : r.op = p
    BY DEF OpenHasRow
  <2>1. CASE p = o
    BY <1>2, <1>3, <2>1, SessionsAssumption
  <2>2. CASE p # o
    <3>1. ledger'[p] = ledger[p]
      BY <1>1, <1>4, <2>2 DEF StoreInv
    <3>2. PICK b \in Addresses \ {"owner"} : \E r \in rows[b] : r.op = p
      BY <1>1, <3>1 DEF StoreInv, OpenHasRow
    <3> QED
      BY <1>3, <3>2
  <2> QED
    BY <2>1, <2>2
<1>8. StoreInv'
  BY <1>1, <1>3, <1>6, <1>7 DEF StoreInv, AppendRow
<1>9. appended' = [appended EXCEPT ![o] = @ + 1] /\ answered' = answered /\ ledger[o].state = "none"
  BY DEF AppendRow
<1>10. appended' \in [Ops -> Nat] /\ answered' \in [Ops -> Nat]
  BY <1>9, IInvParts
<1>11. Counted'
  <2> SUFFICES ASSUME NEW p \in Ops
               PROVE  /\ appended'[p] \in {0, 1} /\ answered'[p] \in {0, 1}
                      /\ ledger'[p].state = "none" => appended'[p] = 0
                      /\ ledger'[p].state \in {"none", "accepted"} => answered'[p] = 0
    BY DEF Counted
  <2>1. CASE p = o
    <3>1. appended[o] = 0 /\ answered[o] = 0
      BY <1>1, <1>9 DEF Counted
    <3>2. ledger'[o].state = state
      BY <1>1, <1>4, <1>5 DEF StoreInv
    <3> QED
      BY <1>9, <2>1, <3>1, <3>2, IInvParts
  <2>2. CASE p # o
    <3>1. ledger'[p] = ledger[p]
      BY <1>1, <1>4, <2>2 DEF StoreInv
    <3> QED
      BY <1>1, <1>9, <2>2, <3>1, IInvParts DEF Counted
  <2> QED
    BY <2>1, <2>2
<1> QED
  BY <1>1, <1>8, <1>10, <1>11, IInvParts DEF AppendRow, IInv, TypeOK, StoreInv, PumpRunsConsole

(* appendResultRow: the record completes, and has its only result. *)
LEMMA AppendResultRowKeeps ==
    ASSUME IInv, NEW o \in Ops, AppendResultRow(o), UNCHANGED <<old, appended>>
    PROVE  StoreInv' /\ Counted' /\ answered' \in [Ops -> Nat]
<1>1. StoreInv /\ Counted
  BY IInvParts
<1>2. Appends("owner", o, "op_result", "gateway")
  BY DEF AppendResultRow
<1>3. /\ rows' \in [Addresses -> SUBSET Rows] /\ next' \in [Addresses -> Nat \ {0}]
      /\ FiniteRows'
      /\ \A b \in Addresses : rows[b] \subseteq rows'[b]
  <2>1. "owner" \in Addresses /\ "op_result" \in Kinds /\ "gateway" \in Origins
    BY DEF Addresses, Kinds, Origins
  <2> QED
    BY <1>1, <1>2, <2>1, AppendsKeeps
<1>4. /\ ledger' = [ledger EXCEPT ![o] = Record("complete", "answer")]
      /\ answered' = [answered EXCEPT ![o] = @ + 1]
      /\ ledger[o].state = "accepted"
  BY DEF AppendResultRow, ResultAccepted
<1>5. Record("complete", "answer") \in Records /\ Record("complete", "answer").state = "complete"
  BY DEF Record, Records, States, Results
<1> HIDE DEF Record
<1>6. ledger' \in [Ops -> Records]
  BY <1>1, <1>4, <1>5 DEF StoreInv
<1>7. \A p \in Ops : ledger'[p] = IF p = o THEN Record("complete", "answer") ELSE ledger[p]
  BY <1>1, <1>4 DEF StoreInv
<1>8. OpenHasRow'
  BY <1>1, <1>3, <1>5, <1>7 DEF StoreInv, OpenHasRow, Open
<1>9. answered' \in [Ops -> Nat]
  BY <1>4, IInvParts
<1>10. Counted'
  <2>1. answered[o] = 0
    BY <1>1, <1>4 DEF Counted
  <2>2. \A p \in Ops : answered'[p] = IF p = o THEN 1 ELSE answered[p]
    BY <1>4, <2>1, IInvParts
  <2> QED
    BY <1>1, <1>5, <1>7, <2>2 DEF Counted
<1> QED
  BY <1>1, <1>3, <1>6, <1>8, <1>9, <1>10 DEF StoreInv

(* A console_op lives at a session, so acking it is no ack of the owner's. *)
LEMMA ConsoleAck ==
    ASSUME IInv, NEW o \in Ops, Kind[o] = "console_op", NEW r \in HeldFor(o),
           NEW outcome \in {"delivered", "waking", "failed"}, Ack(To[o], r, outcome)
    PROVE  StoreInv' /\ Settles
<1>1. To[o] \in Addresses \ {"owner"} /\ r \in rows[To[o]]
  BY ShapeAssumption, SessionsAssumption DEF HeldFor, Addresses
<1> QED
  BY <1>1, IInvParts, AckKeeps

(* The pump's part of the invariant survives a move of one console op. *)
LEMMA PumpMoves ==
    ASSUME IInv, NEW o \in Ops, Kind[o] = "console_op",
           NEW at \in {"idle", "ran", "settled", "pending"}, pump' = [pump EXCEPT ![o] = at]
    PROVE  PumpRunsConsole' /\ pump' \in [Ops -> {"idle", "ran", "settled", "pending"}]
BY IInvParts DEF PumpRunsConsole

LEMMA AppendConsoleResultKeeps ==
    ASSUME IInv, NEW o \in Ops, AppendConsoleResult(o)
    PROVE  IInv'
<1>1. Kind[o] = "console_op"
  BY IInvParts DEF AppendConsoleResult, PumpRunsConsole
<1>2. \E at \in {"settled", "pending"} : pump' = [pump EXCEPT ![o] = at]
  BY DEF AppendConsoleResult
<1>3. PumpRunsConsole' /\ pump' \in [Ops -> {"idle", "ran", "settled", "pending"}]
  BY <1>1, <1>2, PumpMoves
<1>4. UNCHANGED <<old, months, appended>>
  BY DEF AppendConsoleResult
<1>5. CASE AppendResultRow(o)
  <2>1. StoreInv' /\ Counted' /\ answered' \in [Ops -> Nat]
    BY <1>4, <1>5, AppendResultRowKeeps
  <2> QED
    BY <1>3, <1>4, <2>1, IInvParts DEF IInv, TypeOK, StoreInv
<1>6. CASE UNCHANGED <<store, answered>>
  <2>1. StoreInv' /\ Settles
    BY <1>4, <1>6, IInvParts DEF StoreInv, FiniteRows, OpenHasRow, Settles, store
  <2> QED
    BY <1>3, <1>4, <1>6, <2>1, SettlingStep DEF history
<1> QED
  BY <1>5, <1>6 DEF AppendConsoleResult

(* Every step keeps the invariant. *)
LEMMA NextKeeps == IInv /\ [Next]_vars => IInv'
<1> SUFFICES ASSUME IInv, [Next]_vars PROVE IInv'
  OBVIOUS
<1>1. StoreInv /\ PumpRunsConsole /\ pump \in [Ops -> {"idle", "ran", "settled", "pending"}]
  BY IInvParts
<1>2. ASSUME NEW o \in Ops, AppendRow(o) PROVE IInv'
  BY <1>2, AppendRowKeeps
<1>3. ASSUME NEW o \in Ops, ConsoleOpWaits(o) PROVE IInv'
  <2>1. StoreInv' /\ Settles
    BY <1>3, ConsoleAck DEF ConsoleOpWaits
  <2> QED
    BY <1>1, <1>3, <2>1, SettlingStep DEF ConsoleOpWaits, PumpRunsConsole
<1>4. ASSUME NEW o \in Ops, ConsoleOpRuns(o) PROVE IInv'
  <2>1. StoreInv' /\ Settles
    BY <1>1, <1>4 DEF ConsoleOpRuns, StoreInv, FiniteRows, OpenHasRow, Settles, store
  <2>2. PumpRunsConsole' /\ pump' \in [Ops -> {"idle", "ran", "settled", "pending"}]
    BY <1>4, PumpMoves DEF ConsoleOpRuns
  <2> QED
    BY <1>4, <2>1, <2>2, SettlingStep DEF ConsoleOpRuns
<1>5. ASSUME NEW o \in Ops, ConsoleOpFails(o) PROVE IInv'
  <2>1. Kind[o] = "console_op"
    BY <1>1, <1>5 DEF ConsoleOpFails, PumpRunsConsole
  <2>2. StoreInv' /\ Settles
    BY <1>5, <2>1, ConsoleAck DEF ConsoleOpFails
  <2>3. PumpRunsConsole' /\ pump' \in [Ops -> {"idle", "ran", "settled", "pending"}]
    BY <1>5, <2>1, PumpMoves DEF ConsoleOpFails
  <2> QED
    BY <1>5, <2>2, <2>3, SettlingStep DEF ConsoleOpFails
<1>6. ASSUME NEW o \in Ops, AppendConsoleResult(o) PROVE IInv'
  BY <1>6, AppendConsoleResultKeeps
<1>7. ASSUME NEW o \in Ops, ConsoleOpAcks(o) PROVE IInv'
  <2>1. Kind[o] = "console_op"
    BY <1>1, <1>7 DEF ConsoleOpAcks, PumpRunsConsole
  <2>2. StoreInv' /\ Settles
    <3>1. CASE \E r \in HeldFor(o) : Ack(To[o], r, IF pump[o] = "settled" THEN "delivered" ELSE "waking")
      BY <2>1, <3>1, ConsoleAck
    <3>2. CASE UNCHANGED <<store, old>>
      BY <1>1, <3>2 DEF StoreInv, FiniteRows, OpenHasRow, Settles, store
    <3> QED
      BY <1>7, <3>1, <3>2 DEF ConsoleOpAcks
  <2>3. PumpRunsConsole' /\ pump' \in [Ops -> {"idle", "ran", "settled", "pending"}]
    BY <1>7, <2>1, PumpMoves DEF ConsoleOpAcks
  <2> QED
    BY <1>7, <2>2, <2>3, SettlingStep DEF ConsoleOpAcks
<1>8. ASSUME NEW a \in Addresses, GatewayAcks(a) PROVE IInv'
  <2>0. PICK r \in rows[a] : \E outcome \in AckOutcomes(a, r) :
          a # "owner" /\ Ack(a, r, outcome) /\ UNCHANGED <<months, pump, history>>
    BY <1>8 DEF GatewayAcks
  <2>1. PICK outcome \in AckOutcomes(a, r) :
          a # "owner" /\ Ack(a, r, outcome) /\ UNCHANGED <<months, pump, history>>
    BY <2>0
  <2>2. r.kind \in Kinds
    BY <1>1 DEF StoreInv, Rows
  <2>3. AckOutcomes(a, r) \subseteq {"delivered", "waking", "failed"}
    BY <2>2 DEF AckOutcomes, Kinds
  <2>4. StoreInv' /\ Settles
    BY <1>1, <2>1, <2>3, AckKeeps
  <2> QED
    BY <1>1, <2>1, <2>4, SettlingStep DEF PumpRunsConsole
<1>9. ASSUME NEW a \in Addresses, SweepExpired(a) PROVE IInv'
  <2>1. PICK gone \in SUBSET rows[a] : Retires(a, gone, "expired") /\ UNCHANGED <<months, pump, history>>
    BY <1>9 DEF SweepExpired
  <2>2. StoreInv' /\ Settles
    BY <1>1, <2>1, RetiresKeeps
  <2> QED
    BY <1>1, <2>1, <2>2, SettlingStep DEF PumpRunsConsole
<1>10. ASSUME NEW s \in Sessions, ForgetSession(s) PROVE IInv'
  <2>1. s \in Addresses /\ Retires(s, rows[s], "failed") /\ UNCHANGED <<months, pump, history>>
    BY <1>10 DEF ForgetSession, Addresses
  <2>2. StoreInv' /\ Settles
    BY <1>1, <2>1, RetiresKeeps
  <2> QED
    BY <1>1, <2>1, <2>2, SettlingStep DEF PumpRunsConsole
<1>11. ASSUME OwnerReads PROVE IInv'
  <2>1. PICK gone \in SUBSET rows["owner"] :
          Removes("owner", gone) /\ UNCHANGED <<next, ledger, months, pump, history>>
    BY <1>11 DEF OwnerReads
  <2>2. /\ rows' \in [Addresses -> SUBSET Rows] /\ old' \in [Addresses -> SUBSET (Nat \ {0})]
        /\ \A b \in Addresses : rows'[b] \in SUBSET rows[b]
        /\ \A b \in Addresses \ {"owner"} : rows'[b] = rows[b]
    BY <1>1, <2>1 DEF StoreInv, Removes
  <2>3. FiniteRows'
    BY <1>1, <2>2, FS_Subset DEF StoreInv, FiniteRows
  <2>4. OpenHasRow'
    BY <1>1, <2>1, <2>2 DEF StoreInv, OpenHasRow
  <2>5. StoreInv' /\ Settles
    BY <1>1, <2>1, <2>2, <2>3, <2>4 DEF StoreInv, Settles
  <2> QED
    BY <1>1, <2>1, <2>5, SettlingStep DEF PumpRunsConsole
<1>12. ASSUME MonthPasses PROVE IInv'
  <2>1. old' \in [Addresses -> SUBSET (Nat \ {0})]
    BY <1>1, <1>12 DEF MonthPasses, StoreInv, Rows
  <2>2. months' \in 0 .. MaxMonths
    BY <1>12, IInvParts, BoundsAssumption DEF MonthPasses
  <2> QED
    BY <1>12, <2>1, <2>2 DEF MonthPasses, IInv, TypeOK, FiniteRows, PumpRunsConsole, OpenHasRow,
       Counted, store, history
<1>13. CASE UNCHANGED vars
  BY <1>13 DEF vars, store, history, IInv, TypeOK, FiniteRows, PumpRunsConsole, OpenHasRow, Counted
<1> QED
  BY <1>2, <1>3, <1>4, <1>5, <1>6, <1>7, <1>8, <1>9, <1>10, <1>11, <1>12, <1>13 DEF Next

LEMMA InitHolds == Init => IInv
<1> SUFFICES ASSUME Init PROVE IInv
  OBVIOUS
<1>1. TypeOK
  BY BoundsAssumption DEF Init, TypeOK, Record, Records, States, Results
<1>2. FiniteRows
  BY FS_EmptySet DEF Init, FiniteRows
<1> QED
  BY <1>1, <1>2 DEF Init, IInv, PumpRunsConsole, OpenHasRow, Counted, Record, Open

LEMMA Inductive == Spec => []IInv
<1> QED
  BY InitHolds, NextKeeps, PTL DEF Spec

----------------------------------------------------------------------------
(* Which rows stand beside which record *)

(* A row that is no result is its operation's own, where it was sent to,   *)
(* and the only one; beside a result row the own row is gone, or is that   *)
(* of a console op that was answered.                                      *)
Shape ==
    /\ \A a \in Addresses : \A r \in rows[a] : r.kind # "op_result" =>
            a = To[r.op] /\ r.kind = Kind[r.op] /\ r.origin = From[r.op]
    /\ \A a \in Addresses : \A r \in rows[a] : r.kind = "op_result" =>
            r.origin \in {"gateway", "router"} /\ (HeldFor(r.op) = {} \/ answered[r.op] > 0)
    /\ \A o \in Ops : \A q, r \in HeldFor(o) : q = r
    /\ \A o \in Ops : ledger[o].state = "none" =>
            pump[o] = "idle" /\ \A a \in Addresses : \A r \in rows[a] : r.op # o

(* What a step that removes rows of an address does to all rows: those it  *)
(* adds are the Router's results for the removed.                          *)
Loses(a, gone) ==
    \A b \in Addresses : \A q \in rows'[b] :
        \/ q \in rows[b] /\ (b = a /\ q.kind # "op_result" => q \notin gone)
        \/ /\ q.kind = "op_result" /\ q.origin = "router"
           /\ \E r \in gone : q.op = r.op /\ b = r.origin

LEMMA RetiresLoses ==
    ASSUME StoreInv, NEW a \in Addresses, NEW gone \in SUBSET rows[a],
           NEW outcome \in {"failed", "expired"}, Retires(a, gone, outcome)
    PROVE  /\ Loses(a, gone)
           /\ \A o \in Ops : ledger'[o].state =
                  IF \E r \in gone : r.op = o THEN outcome ELSE ledger[o].state
<1> DEFINE from(b)    == {r \in gone : r.origin = b}
           place(r)   == Cardinality({q \in from(r.origin) : q.seq < r.seq})
           results(b) == {Row(r.op, next[b] + place(r), "op_result", "router") : r \in from(b)}
           kept(b)    == IF b = a THEN rows[b] \ gone ELSE rows[b]
<1>1. /\ rows' = [b \in Addresses |-> kept(b) \cup results(b)]
      /\ ledger' = [o \in Ops |-> IF \E r \in gone : r.op = o THEN Record(outcome, outcome) ELSE ledger[o]]
  BY DEF Retires
<1> HIDE DEF place
<1>2. ASSUME NEW b \in Addresses, NEW q \in rows'[b]
      PROVE  \/ q \in rows[b] /\ (b = a => q \notin gone)
             \/ /\ q.kind = "op_result" /\ q.origin = "router"
                /\ \E r \in gone : q.op = r.op /\ b = r.origin
  <2>1. q \in kept(b) \/ \E r \in from(b) : q = Row(r.op, next[b] + place(r), "op_result", "router")
    BY <1>1, <1>2
  <2> QED
    BY <2>1 DEF Row
<1> QED
  BY <1>1, <1>2 DEF Loses, Record

(* An ack, in the same terms: waking removes nothing. *)
LEMMA AckLoses ==
    ASSUME StoreInv, NEW a \in Addresses, NEW r \in rows[a],
           NEW outcome \in {"delivered", "waking", "failed"}, Ack(a, r, outcome)
    PROVE  /\ Loses(a, IF outcome = "waking" THEN {} ELSE {r})
           /\ \A o \in Ops : ledger'[o].state = IF o = r.op THEN outcome ELSE ledger[o].state
<1>1. CASE outcome = "failed"
  <2>1. Retires(a, {r}, "failed")
    BY <1>1 DEF Ack
  <2>2. /\ Loses(a, {r})
        /\ \A o \in Ops : ledger'[o].state = IF \E q \in {r} : q.op = o THEN "failed" ELSE ledger[o].state
    BY <2>1, RetiresLoses
  <2> QED
    BY <1>1, <2>2
<1>2. CASE outcome # "failed"
  <2>1. /\ IF outcome = "delivered" THEN Removes(a, {r}) ELSE UNCHANGED <<rows, old>>
        /\ ledger' = [ledger EXCEPT ![r.op] = Record(outcome, @.result)]
    BY <1>2 DEF Ack
  <2>2. \A o \in Ops : ledger'[o].state = IF o = r.op THEN outcome ELSE ledger[o].state
    BY <2>1 DEF StoreInv, Record
  <2>3. \A b \in Addresses : rows'[b] = IF b = a /\ outcome = "delivered" THEN rows[b] \ {r} ELSE rows[b]
    BY <2>1 DEF StoreInv, Removes
  <2> QED
    BY <1>2, <2>2, <2>3 DEF Loses
<1> QED
  BY <1>1, <1>2

(* A step that only loses rows keeps their shape; where an own row or a    *)
(* result of an operation is lost, the own row is gone or was answered.    *)
LEMMA LosesShape ==
    ASSUME IInv, Shape, NEW a \in Addresses, NEW gone \in SUBSET rows[a], Loses(a, gone),
           Settles, UNCHANGED answered, \A o \in Ops : pump'[o] = pump[o] \/ pump'[o] = "idle"
    PROVE  /\ Shape'
           /\ \A o \in Ops : HeldFor(o)' \subseteq HeldFor(o)
           /\ \A r \in gone : HeldFor(r.op)' = {} \/ answered[r.op] > 0
<1>1. /\ \A b \in Addresses : \A r \in rows[b] : r \in Rows
      /\ gone \subseteq Rows /\ \A o \in Ops : To[o] \in Addresses /\ Kind[o] # "op_result"
  BY ShapeAssumption DEF IInv, TypeOK
<1>2. \A o \in Ops : HeldFor(o)' \subseteq HeldFor(o)
  BY <1>1 DEF Loses, HeldFor
<1>3. ASSUME NEW r \in gone PROVE HeldFor(r.op)' = {} \/ answered[r.op] > 0
  <2>1. r.op \in Ops
    BY <1>1 DEF Rows
  <2>2. CASE r.kind = "op_result"
    BY <1>2, <2>1, <2>2 DEF Shape
  <2>3. CASE r.kind # "op_result"
    <3>1. r \in HeldFor(r.op) /\ a = To[r.op]
      BY <2>3 DEF Shape, HeldFor
    <3>2. ASSUME NEW q \in HeldFor(r.op)' PROVE FALSE
      <4>1. q \in rows'[a] /\ q.kind = Kind[r.op]
        BY <3>1, <3>2 DEF HeldFor
      <4>2. q \in rows[a] /\ q \notin gone
        BY <1>1, <2>1, <4>1 DEF Loses
      <4>3. q \in HeldFor(r.op)
        BY <1>2, <2>1, <3>2
      <4> QED
        BY <2>1, <3>1, <4>2, <4>3 DEF Shape
    <3> QED
      BY <3>2
  <2> QED
    BY <2>2, <2>3
<1>4. ASSUME NEW b \in Addresses, NEW q \in rows'[b]
      PROVE  /\ q.kind # "op_result" => b = To[q.op] /\ q.kind = Kind[q.op] /\ q.origin = From[q.op]
             /\ q.kind = "op_result" =>
                    q.origin \in {"gateway", "router"} /\ (HeldFor(q.op)' = {} \/ answered'[q.op] > 0)
  <2>1. CASE q \in rows[b]
    <3>1. q.op \in Ops
      BY <1>1, <2>1 DEF Rows
    <3> QED
      BY <1>2, <2>1, <3>1 DEF Shape
  <2>2. CASE q.kind = "op_result" /\ q.origin = "router" /\ \E r \in gone : q.op = r.op /\ b = r.origin
    BY <1>3, <2>2
  <2> QED
    BY <2>1, <2>2 DEF Loses
<1>5. ASSUME NEW o \in Ops, ledger'[o].state = "none"
      PROVE  pump'[o] = "idle" /\ \A b \in Addresses : \A q \in rows'[b] : q.op # o
  <2>1. ledger[o].state = "none"
    BY <1>5 DEF Settles
  <2>2. pump[o] = "idle" /\ \A c \in Addresses : \A r \in rows[c] : r.op # o
    BY <2>1 DEF Shape
  <2> QED
    BY <2>2 DEF Loses
<1>6. \A o \in Ops : \A q, r \in HeldFor(o)' : q = r
  BY <1>2 DEF Shape
<1> QED
  BY <1>2, <1>3, <1>4, <1>5, <1>6 DEF Shape

(* No step may have a console op delivered that has no answer (assuming    *)
(* that the store and the content keys do not fail).                       *)
Answered ==
    \A o \in Ops : Kind[o] = "console_op" =>
        /\ \A s \in Sessions : \A r \in rows[s] : r.op = o => r.kind = "console_op"
        /\ HeldFor(o) # {} /\ ledger[o].state # "accepted" => answered[o] > 0
        /\ pump[o] = "pending" => answered[o] > 0
        /\ pump[o] = "settled" /\ HeldFor(o) # {} => answered[o] > 0
        /\ ledger[o].state = "delivered" => answered[o] > 0

(* No row stands that an ack could reopen an ended operation by (assuming  *)
(* that results are acked where they are read, and no answer is lost).     *)
Ending ==
    /\ rows["gateway"] = {}
    /\ \A s \in Sessions : \A r \in rows[s] :
            r.origin # "gateway" /\ (r.kind = "op_result" => HeldFor(r.op) = {})
    /\ \A o \in Ops : HeldFor(o) # {} /\ pump[o] # "settled" => ledger[o].state \in Open
    /\ \A o \in Ops : pump[o] # "pending"

EndedStep == \A o \in Ops : ledger[o].state \in Ended => ledger'[o].state \in Ended

(* What the faults of a run allow for. *)
AnswersLand == Faults \cap {"store", "keys"} = {}
AcksInOrder ==
    /\ Faults \cap {"store", "reply", "unread"} = {}
    /\ \A o \in Ops : From[o] # "gateway"

Kept == Shape' /\ (AnswersLand /\ Answered => Answered')
               /\ (AcksInOrder /\ Ending => Ending' /\ EndedStep)

LEMMA Typed ==
    ASSUME IInv
    PROVE  /\ \A b \in Addresses : \A r \in rows[b] : r \in Rows /\ r.op \in Ops /\ r.kind \in Kinds
           /\ \A o \in Ops : /\ To[o] \in Addresses \ {"gateway"} /\ Kind[o] \in {"message", "console_op"}
                             /\ From[o] \in Addresses
                             /\ Kind[o] = "console_op" => From[o] = "owner" /\ To[o] \in Sessions
           /\ "owner" \in Addresses /\ "gateway" \in Addresses /\ "owner" # "gateway"
           /\ Sessions \subseteq Addresses /\ \A s \in Sessions : s \notin {"owner", "gateway", "router"}
           /\ \A a \in Addresses : a \in Sessions \/ a = "owner" \/ a = "gateway"
<1>1. \A b \in Addresses : \A r \in rows[b] : r \in Rows
  BY DEF IInv, TypeOK
<1> QED
  BY <1>1, ShapeAssumption, SessionsAssumption DEF Rows, Addresses

(* Rows are retired: by the host's, the session's or the sweep's failure.  *)
LEMMA RetireStep ==
    ASSUME IInv, Shape, NEW a \in Addresses, NEW gone \in SUBSET rows[a],
           NEW outcome \in {"failed", "expired"}, Retires(a, gone, outcome),
           UNCHANGED answered, AcksInOrder => a # "owner",
           \A o \in Ops : pump'[o] = pump[o] \/ (pump[o] = "ran" /\ pump'[o] = "idle")
    PROVE  Kept
<1>1. StoreInv /\ gone \subseteq Rows
  BY IInvParts DEF StoreInv
<1>2. /\ Loses(a, gone) /\ Settles
      /\ \A o \in Ops : ledger'[o].state = IF \E r \in gone : r.op = o THEN outcome ELSE ledger[o].state
  BY <1>1, RetiresLoses, RetiresKeeps
<1>3. /\ Shape'
      /\ \A o \in Ops : HeldFor(o)' \subseteq HeldFor(o)
      /\ \A r \in gone : HeldFor(r.op)' = {} \/ answered[r.op] > 0
  BY <1>2, LosesShape
<1>4. ASSUME AnswersLand, Answered, NEW o \in Ops, Kind[o] = "console_op"
      PROVE  /\ \A s \in Sessions : \A r \in rows'[s] : r.op = o => r.kind = "console_op"
             /\ HeldFor(o)' # {} /\ ledger'[o].state # "accepted" => answered'[o] > 0
             /\ pump'[o] = "pending" => answered'[o] > 0
             /\ pump'[o] = "settled" /\ HeldFor(o)' # {} => answered'[o] > 0
             /\ ledger'[o].state = "delivered" => answered'[o] > 0
  <2>1. ASSUME NEW s \in Sessions, NEW q \in rows'[s], q.op = o PROVE q.kind = "console_op"
    <3>1. CASE q \in rows[s]
      BY <1>4, <2>1, <3>1 DEF Answered
    <3>2. CASE \E r \in gone : q.op = r.op /\ s = r.origin
      <4>1. PICK r \in gone : r.op = o /\ r.origin = s
        BY <2>1, <3>2
      <4>2. r.origin \in {"owner", "gateway", "router"}
        BY <1>4, <4>1, Typed DEF Shape
      <4> QED
        BY <4>1, <4>2, Typed
    <3> QED
      BY <1>2, <2>1, <3>1, <3>2, Typed DEF Loses
  <2>2. HeldFor(o)' # {} /\ ledger'[o].state # "accepted" => answered'[o] > 0
    BY <1>2, <1>3, <1>4 DEF Answered
  <2>3. outcome # "delivered"
    OBVIOUS
  <2> QED
    BY <1>2, <1>3, <1>4, <2>1, <2>2, <2>3 DEF Answered
<1>5. ASSUME AcksInOrder, Ending PROVE Ending' /\ EndedStep
  <2>1. gone = {} \/ a \in Sessions
    BY <1>5, Typed DEF Ending
  <2>2. \A r \in gone : r.op \in Ops /\ r.origin # "gateway"
    BY <1>5, <2>1, Typed DEF Ending
  <2>3. rows'["gateway"] = {}
    BY <1>2, <1>5, <2>2, Typed DEF Loses, Ending
  <2>4. ASSUME NEW r \in gone PROVE HeldFor(r.op)' = {}
    <3>1. CASE r.kind = "op_result"
      BY <1>3, <1>5, <2>1, <2>2, <3>1 DEF Ending
    <3>2. CASE r.kind # "op_result"
      <4>1. r \in HeldFor(r.op) /\ a = To[r.op]
        BY <3>2 DEF Shape, HeldFor
      <4>2. ASSUME NEW q \in HeldFor(r.op)' PROVE FALSE
        <5>1. q \in rows'[a] /\ q.kind # "op_result"
          BY <2>2, <4>1, <4>2, Typed DEF HeldFor
        <5>2. q \notin gone
          BY <1>2, <5>1 DEF Loses
        <5> QED
          BY <1>3, <2>2, <4>1, <4>2, <5>2 DEF Shape
      <4> QED
        BY <4>2
    <3> QED
      BY <3>1, <3>2
  <2>5. ASSUME NEW s \in Sessions, NEW q \in rows'[s]
        PROVE  q.origin # "gateway" /\ (q.kind = "op_result" => HeldFor(q.op)' = {})
    <3>1. CASE q \in rows[s]
      BY <1>3, <1>5, <3>1, Typed DEF Ending
    <3>2. CASE q.kind = "op_result" /\ q.origin = "router" /\ \E r \in gone : q.op = r.op /\ s = r.origin
      BY <2>4, <3>2
    <3> QED
      BY <1>2, <3>1, <3>2, Typed DEF Loses
  <2>6. ASSUME NEW o \in Ops, HeldFor(o)' # {}, pump'[o] # "settled" PROVE ledger'[o].state \in Open
    <3>1. ~ \E r \in gone : r.op = o
      BY <2>4, <2>6
    <3> QED
      BY <1>2, <1>3, <1>5, <2>6, <3>1 DEF Ending
  <2>7. EndedStep
    BY <1>2 DEF EndedStep, Ended
  <2> QED
    BY <1>5, <2>3, <2>5, <2>6, <2>7 DEF Ending
<1> QED
  BY <1>3, <1>4, <1>5 DEF Kept, Answered

(* A row is acked as delivered or waiting, not by the pump of a console op. *)
LEMMA GatewayAckStep ==
    ASSUME IInv, Shape, NEW a \in Addresses, GatewayAcks(a)
    PROVE  Kept
<1>0. PICK r \in rows[a] : \E outcome \in AckOutcomes(a, r) :
        a # "owner" /\ Ack(a, r, outcome) /\ UNCHANGED <<months, pump, history>>
  BY DEF GatewayAcks
<1>1. PICK outcome \in AckOutcomes(a, r) :
        a # "owner" /\ Ack(a, r, outcome) /\ UNCHANGED <<months, pump, history>>
  BY <1>0
<1>2. r.kind \in Kinds /\ r.op \in Ops
  BY Typed
<1>3. /\ outcome \in {"delivered", "waking", "failed"}
      /\ r.kind # "console_op"
      /\ r.kind = "op_result" => outcome = IF a = "gateway" THEN "waking" ELSE "delivered"
  BY <1>1, <1>2 DEF AckOutcomes, Kinds
<1>4. UNCHANGED answered /\ UNCHANGED pump
  BY <1>1 DEF history
<1>5. CASE outcome = "failed"
  <2>1. Retires(a, {r}, "failed")
    BY <1>1, <1>5 DEF Ack
  <2> QED
    BY <1>1, <1>4, <2>1, RetireStep
<1>6. CASE outcome # "failed"
  <2> DEFINE gone == IF outcome = "waking" THEN {} ELSE {r}
  <2>1. /\ Loses(a, gone) /\ Settles
        /\ \A o \in Ops : ledger'[o].state = IF o = r.op THEN outcome ELSE ledger[o].state
    BY <1>1, <1>3, IInvParts, AckLoses, AckKeeps
  <2>2. gone \subseteq {r} /\ (outcome = "delivered" => r \in gone)
    OBVIOUS
  <2> HIDE DEF gone
  <2>3. /\ Shape'
        /\ \A o \in Ops : HeldFor(o)' \subseteq HeldFor(o)
        /\ \A q \in gone : HeldFor(q.op)' = {} \/ answered[q.op] > 0
    BY <1>4, <2>1, <2>2, LosesShape
  <2>4. \A b \in Addresses : \A q \in rows'[b] : q \in rows[b]
    BY <1>1, <1>3, <1>6 DEF Ack, Removes, IInv, TypeOK
  <2>5. ASSUME AnswersLand, Answered, NEW o \in Ops, Kind[o] = "console_op"
        PROVE  /\ \A s \in Sessions : \A q \in rows'[s] : q.op = o => q.kind = "console_op"
               /\ HeldFor(o)' # {} /\ ledger'[o].state # "accepted" => answered'[o] > 0
               /\ pump'[o] = "pending" => answered'[o] > 0
               /\ pump'[o] = "settled" /\ HeldFor(o)' # {} => answered'[o] > 0
               /\ ledger'[o].state = "delivered" => answered'[o] > 0
    <3>1. r.op = o => r.kind = "op_result" /\ a = "gateway" /\ outcome = "waking"
      BY <1>1, <1>2, <1>3, <2>5, Typed DEF Shape, Answered, Kinds
    <3>2. r.op = o => HeldFor(o) = {} \/ answered[o] > 0
      BY <3>1 DEF Shape
    <3> QED
      BY <1>4, <2>1, <2>3, <2>4, <2>5, <3>1, <3>2, Typed DEF Answered
  <2>6. ASSUME AcksInOrder, Ending PROVE Ending' /\ EndedStep
    <3>1. a \in Sessions
      BY <1>1, <2>6, Typed DEF Ending
    <3>2. CASE r.kind = "op_result"
      <4>1. outcome = "delivered" /\ HeldFor(r.op) = {}
        BY <1>3, <2>6, <3>1, <3>2, Typed DEF Ending
      <4> QED
        BY <1>4, <2>1, <2>3, <2>4, <2>6, <4>1, Typed DEF Ending, EndedStep, Ended
    <3>3. CASE r.kind = "message"
      <4>1. r \in HeldFor(r.op) /\ a = To[r.op] /\ Kind[r.op] = "message"
        BY <3>3 DEF Shape, HeldFor
      <4>2. pump[r.op] = "idle" /\ ledger[r.op].state \in Open
        BY <1>2, <2>6, <4>1, IInvParts DEF Ending, PumpRunsConsole
      <4>3. outcome = "delivered" => HeldFor(r.op)' = {}
        <5>1. outcome = "delivered" => r \in gone
          BY <2>2
        <5>2. r \in gone => \A q \in HeldFor(r.op)' : FALSE
          BY <1>2, <2>1, <2>3, <3>3, <4>1, Typed DEF Loses, Shape, HeldFor
        <5> QED
          BY <5>1, <5>2
      <4>4. \A o \in Ops : HeldFor(o)' # {} /\ pump'[o] # "settled" => ledger'[o].state \in Open
        BY <1>3, <1>4, <1>6, <2>1, <2>3, <2>6, <4>3 DEF Ending, Open
      <4>5. EndedStep
        BY <2>1, <4>2 DEF EndedStep, Open, Ended
      <4> QED
        BY <1>4, <2>3, <2>4, <2>6, <4>4, <4>5, Typed DEF Ending
    <3> QED
      BY <1>2, <1>3, <3>2, <3>3 DEF Kinds
  <2> QED
    BY <2>3, <2>5, <2>6 DEF Kept, Answered
<1> QED
  BY <1>5, <1>6

(* The own row of a console op is acked by the pump. *)
LEMMA PumpAckStep ==
    ASSUME IInv, Shape, NEW o \in Ops, Kind[o] = "console_op", NEW r \in HeldFor(o),
           NEW outcome \in {"delivered", "waking"}, Ack(To[o], r, outcome), UNCHANGED answered,
           pump' = [pump EXCEPT ![o] = "idle"],
           AnswersLand /\ Answered => answered[o] > 0,
           AcksInOrder /\ Ending /\ outcome = "waking" => pump[o] = "idle"
    PROVE  Kept
<1> DEFINE gone == IF outcome = "waking" THEN {} ELSE {r}
<1>1. r \in rows[To[o]] /\ r.op = o /\ r.kind = "console_op" /\ To[o] \in Sessions /\ To[o] \in Addresses
  BY Typed DEF HeldFor
<1>2. /\ Loses(To[o], gone) /\ Settles
      /\ \A p \in Ops : ledger'[p].state = IF p = o THEN outcome ELSE ledger[p].state
  BY <1>1, IInvParts, AckLoses, AckKeeps, Typed
<1>3. gone \subseteq {r} /\ (outcome = "delivered" => r \in gone)
  OBVIOUS
<1> HIDE DEF gone
<1>4. /\ Shape'
      /\ \A p \in Ops : HeldFor(p)' \subseteq HeldFor(p)
  <2>1. \A p \in Ops : pump'[p] = pump[p] \/ pump'[p] = "idle"
    BY IInvParts
  <2> QED
    BY <1>1, <1>2, <1>3, <2>1, LosesShape
<1>5. \A b \in Addresses : rows'[b] \subseteq rows[b]
  BY DEF Ack, Removes, IInv, TypeOK
<1>6. outcome = "delivered" => HeldFor(o)' = {}
  <2>1. r \in gone => \A q \in HeldFor(o)' : FALSE
    BY <1>1, <1>2, <1>4 DEF Loses, Shape, HeldFor
  <2> QED
    BY <1>3, <2>1
<1>7. \A p \in Ops : pump'[p] = IF p = o THEN "idle" ELSE pump[p]
  BY IInvParts
<1>8. AnswersLand /\ Answered => Answered'
  BY <1>2, <1>4, <1>5, <1>7, Typed DEF Answered
<1>9. ASSUME AcksInOrder, Ending PROVE Ending' /\ EndedStep
  <2>1. outcome = "waking" => ledger[o].state \in Open
    BY <1>9 DEF Ending
  <2>2. \A p \in Ops : HeldFor(p)' # {} /\ pump'[p] # "settled" => ledger'[p].state \in Open
    BY <1>2, <1>4, <1>6, <1>7, <1>9 DEF Ending, Open
  <2>3. EndedStep
    BY <1>2, <2>1 DEF EndedStep, Open, Ended
  <2> QED
    BY <1>4, <1>5, <1>7, <1>9, <2>2, <2>3, Typed DEF Ending
<1> QED
  BY <1>4, <1>8, <1>9 DEF Kept

(* A row at the end of an address, and nothing else. *)
LEMMA AppendsOne ==
    ASSUME IInv, NEW a \in Addresses, NEW o \in Ops, NEW kind, NEW origin, Appends(a, o, kind, origin)
    PROVE  \A b \in Addresses :
               rows'[b] = IF b = a THEN rows[b] \cup {Row(o, next[a], kind, origin)} ELSE rows[b]
BY DEF Appends, IInv, TypeOK

(* appendInboxRow: no row of the key stood before. *)
LEMMA AppendRowStep ==
    ASSUME IInv, Shape, NEW o \in Ops, AppendRow(o)
    PROVE  Kept
<1> DEFINE new == Row(o, next[To[o]], Kind[o], From[o])
<1>1. /\ new.op = o /\ new.kind = Kind[o] /\ new.origin = From[o]
      /\ \A b \in Addresses : rows'[b] = IF b = To[o] THEN rows[b] \cup {new} ELSE rows[b]
  <2>1. To[o] \in Addresses
    BY Typed
  <2>2. Appends(To[o], o, Kind[o], From[o])
    BY DEF AppendRow
  <2>3. \A b \in Addresses : rows'[b] = IF b = To[o] THEN rows[b] \cup {new} ELSE rows[b]
    BY <2>1, <2>2, AppendsOne
  <2> QED
    BY <2>3 DEF Row
<1> HIDE DEF new
<1>2. /\ ledger[o].state = "none" /\ UNCHANGED answered /\ UNCHANGED pump /\ pump[o] = "idle"
      /\ \A b \in Addresses : \A r \in rows[b] : r.op # o
  BY DEF AppendRow, Shape
<1>3. PICK state \in {"accepted", "waking"} :
        /\ ledger' = [ledger EXCEPT ![o] = Record(state, "accepted")]
        /\ Kind[o] = "console_op" => state = "accepted"
  BY DEF AppendRow
<1>4. \A p \in Ops : ledger'[p].state = IF p = o THEN state ELSE ledger[p].state
  BY <1>3 DEF IInv, TypeOK, Record
<1>5. \A p \in Ops : HeldFor(p)' = IF p = o THEN {new} ELSE HeldFor(p)
  <2> SUFFICES ASSUME NEW p \in Ops PROVE HeldFor(p)' = IF p = o THEN {new} ELSE HeldFor(p)
    OBVIOUS
  <2>1. To[p] \in Addresses
    BY Typed
  <2>2. HeldFor(p)' = {r \in rows'[To[p]] : r.op = p /\ r.kind = Kind[p]}
    BY DEF HeldFor
  <2>3. CASE p = o
    BY <1>1, <1>2, <2>1, <2>2, <2>3
  <2>4. CASE p # o
    BY <1>1, <2>1, <2>2, <2>4 DEF HeldFor
  <2> QED
    BY <2>3, <2>4
<1>6. Shape'
  <2>1. ASSUME NEW b \in Addresses, NEW q \in rows'[b]
        PROVE  /\ q.kind # "op_result" => b = To[q.op] /\ q.kind = Kind[q.op] /\ q.origin = From[q.op]
               /\ q.kind = "op_result" =>
                    q.origin \in {"gateway", "router"} /\ (HeldFor(q.op)' = {} \/ answered'[q.op] > 0)
    <3>1. CASE q \in rows[b]
      BY <1>2, <1>5, <3>1, Typed DEF Shape
    <3>2. CASE q = new /\ b = To[o]
      BY <1>1, <3>2, Typed
    <3> QED
      BY <1>1, <2>1, <3>1, <3>2
  <2>2. \A p \in Ops : \A q, r \in HeldFor(p)' : q = r
    BY <1>5 DEF Shape
  <2>3. \A p \in Ops : ledger'[p].state = "none" =>
            pump'[p] = "idle" /\ \A b \in Addresses : \A r \in rows'[b] : r.op # p
    <3> SUFFICES ASSUME NEW p \in Ops, ledger'[p].state = "none"
                 PROVE  pump'[p] = "idle" /\ \A b \in Addresses : \A r \in rows'[b] : r.op # p
      OBVIOUS
    <3>1. p # o /\ ledger[p].state = "none"
      BY <1>4
    <3>2. pump[p] = "idle" /\ \A b \in Addresses : \A r \in rows[b] : r.op # p
      BY <3>1 DEF Shape
    <3> QED
      BY <1>1, <1>2, <3>1, <3>2
  <2> QED
    BY <2>1, <2>2, <2>3 DEF Shape
<1>7. ASSUME AnswersLand, Answered PROVE Answered'
  <2>1. \A p \in Ops : Kind[p] = "console_op" =>
            \A s \in Sessions : \A r \in rows'[s] : r.op = p => r.kind = "console_op"
    <3> SUFFICES ASSUME NEW p \in Ops, Kind[p] = "console_op", NEW s \in Sessions,
                        NEW r \in rows'[s], r.op = p
                 PROVE  r.kind = "console_op"
      OBVIOUS
    <3>0. s \in Addresses
      BY Typed
    <3>1. r \in rows[s] \/ r = new
      BY <1>1, <3>0
    <3> QED
      BY <1>1, <1>7, <3>1 DEF Answered
  <2>2. \A p \in Ops : p # o => ledger'[p].state = ledger[p].state /\ HeldFor(p)' = HeldFor(p)
    BY <1>4, <1>5
  <2> QED
    BY <1>2, <1>3, <1>4, <1>7, <2>1, <2>2 DEF Answered
<1>8. ASSUME AcksInOrder, Ending PROVE Ending' /\ EndedStep
  <2>1. From[o] # "gateway" /\ To[o] # "gateway"
    BY <1>8, Typed DEF AcksInOrder
  <2>2. \A s \in Sessions : \A r \in rows'[s] :
            r.origin # "gateway" /\ (r.kind = "op_result" => HeldFor(r.op)' = {})
    <3> SUFFICES ASSUME NEW s \in Sessions, NEW r \in rows'[s]
                 PROVE  r.origin # "gateway" /\ (r.kind = "op_result" => HeldFor(r.op)' = {})
      OBVIOUS
    <3>1. CASE r \in rows[s]
      BY <1>2, <1>5, <1>8, <3>1, Typed DEF Ending
    <3>2. CASE r = new
      BY <1>1, <2>1, <3>2, Typed
    <3>3. s \in Addresses
      BY Typed
    <3> QED
      BY <1>1, <3>1, <3>2, <3>3
  <2>3. rows'["gateway"] = {}
    BY <1>1, <1>8, <2>1, Typed DEF Ending
  <2>4. \A p \in Ops : HeldFor(p)' # {} /\ pump'[p] # "settled" => ledger'[p].state \in Open
    BY <1>2, <1>4, <1>5, <1>8 DEF Ending, Open
  <2>5. EndedStep
    BY <1>2, <1>4 DEF EndedStep, Ended
  <2> QED
    BY <1>2, <1>8, <2>2, <2>3, <2>4, <2>5 DEF Ending
<1> QED
  BY <1>6, <1>7, <1>8 DEF Kept

(* appendConsoleResult: the answer is written, was, or cannot be. *)
LEMMA ConsoleResultStep ==
    ASSUME IInv, Shape, NEW o \in Ops, AppendConsoleResult(o)
    PROVE  Kept
<1>1. Kind[o] = "console_op" /\ pump[o] = "ran" /\ To[o] \in Sessions /\ To[o] # "owner"
  <2>1. Kind[o] = "console_op" /\ pump[o] = "ran"
    BY IInvParts DEF AppendConsoleResult, PumpRunsConsole
  <2> QED
    BY <2>1, Typed
<1>2. PICK at \in {"settled", "pending"} : pump' = [pump EXCEPT ![o] = at]
  BY DEF AppendConsoleResult
<1>3. \A p \in Ops : pump'[p] = IF p = o THEN at ELSE pump[p]
  BY <1>2, IInvParts
<1>4. CASE AppendResultRow(o)
  <2> DEFINE new == Row(o, next["owner"], "op_result", "gateway")
  <2>1. /\ new.op = o /\ new.kind = "op_result" /\ new.origin = "gateway"
        /\ \A b \in Addresses : rows'[b] = IF b = "owner" THEN rows[b] \cup {new} ELSE rows[b]
    <3>1. Appends("owner", o, "op_result", "gateway") /\ "owner" \in Addresses
      BY <1>4, Typed DEF AppendResultRow
    <3>2. \A b \in Addresses : rows'[b] = IF b = "owner" THEN rows[b] \cup {new} ELSE rows[b]
      BY <3>1, AppendsOne
    <3> QED
      BY <3>2 DEF Row
  <2> HIDE DEF new
  <2>2. /\ ledger[o].state = "accepted"
        /\ \A p \in Ops : ledger'[p].state = IF p = o THEN "complete" ELSE ledger[p].state
        /\ \A p \in Ops : answered'[p] >= answered[p] /\ answered[p] \in Nat /\ answered'[p] \in Nat
        /\ answered'[o] > 0
    BY <1>4 DEF AppendResultRow, ResultAccepted, Record, IInv, TypeOK
  <2>3. \A p \in Ops : HeldFor(p)' = HeldFor(p)
    <3> SUFFICES ASSUME NEW p \in Ops PROVE HeldFor(p)' = HeldFor(p)
      OBVIOUS
    <3>1. To[p] \in Addresses /\ Kind[p] # "op_result"
      BY Typed
    <3> QED
      BY <2>1, <3>1 DEF HeldFor
  <2>4. Shape'
    <3>1. ASSUME NEW b \in Addresses, NEW q \in rows'[b]
          PROVE  /\ q.kind # "op_result" => b = To[q.op] /\ q.kind = Kind[q.op] /\ q.origin = From[q.op]
                 /\ q.kind = "op_result" =>
                      q.origin \in {"gateway", "router"} /\ (HeldFor(q.op)' = {} \/ answered'[q.op] > 0)
      <4>1. CASE q \in rows[b]
        <5>1. q.op \in Ops
          BY <4>1, Typed
        <5>2. answered[q.op] > 0 => answered'[q.op] > 0
          BY <2>2, <5>1
        <5> QED
          BY <2>3, <4>1, <5>1, <5>2 DEF Shape
      <4>2. CASE q = new
        BY <2>1, <2>2, <4>2
      <4> QED
        BY <2>1, <3>1, <4>1, <4>2
    <3>2. \A p \in Ops : \A q, r \in HeldFor(p)' : q = r
      BY <2>3 DEF Shape
    <3>3. ASSUME NEW p \in Ops, ledger'[p].state = "none"
          PROVE  pump'[p] = "idle" /\ \A b \in Addresses : \A r \in rows'[b] : r.op # p
      <4>1. p # o /\ ledger[p].state = "none"
        BY <2>2, <3>3
      <4>2. pump[p] = "idle" /\ \A b \in Addresses : \A r \in rows[b] : r.op # p
        BY <4>1 DEF Shape
      <4> QED
        BY <1>3, <2>1, <4>1, <4>2
    <3> QED
      BY <3>1, <3>2, <3>3 DEF Shape
  <2>5. \A s \in Sessions : rows'[s] = rows[s]
    BY <2>1, Typed
  <2>6. ASSUME AnswersLand, Answered PROVE Answered'
    <3> SUFFICES ASSUME NEW p \in Ops, Kind[p] = "console_op"
                 PROVE  /\ \A s \in Sessions : \A r \in rows'[s] : r.op = p => r.kind = "console_op"
                        /\ HeldFor(p)' # {} /\ ledger'[p].state # "accepted" => answered'[p] > 0
                        /\ pump'[p] = "pending" => answered'[p] > 0
                        /\ pump'[p] = "settled" /\ HeldFor(p)' # {} => answered'[p] > 0
                        /\ ledger'[p].state = "delivered" => answered'[p] > 0
      BY DEF Answered
    <3>1. CASE p = o
      BY <2>2, <2>5, <2>6, <3>1 DEF Answered
    <3>2. CASE p # o
      BY <1>3, <2>2, <2>3, <2>5, <2>6, <3>2 DEF Answered
    <3> QED
      BY <3>1, <3>2
  <2>7. ASSUME AcksInOrder, Ending PROVE Ending' /\ EndedStep
    <3>1. at = "settled"
      <4>1. "store" \notin Faults /\ Faults \cap {"store", "reply"} = {}
        BY <2>7 DEF AcksInOrder
      <4>2. pump' = [pump EXCEPT ![o] = "settled"]
        BY <2>2, <4>1 DEF AppendConsoleResult, ResultAccepted
      <4> QED
        BY <1>3, <4>2, IInvParts
    <3>2. rows'["gateway"] = {}
      BY <2>1, <2>7, Typed DEF Ending
    <3>3. \A s \in Sessions : \A r \in rows'[s] :
              r.origin # "gateway" /\ (r.kind = "op_result" => HeldFor(r.op)' = {})
      BY <2>3, <2>5, <2>7, Typed DEF Ending
    <3> QED
      BY <1>3, <2>2, <2>3, <2>7, <3>1, <3>2, <3>3 DEF Ending, EndedStep, Ended, Open
  <2> QED
    BY <2>4, <2>6, <2>7 DEF Kept
<1>5. CASE UNCHANGED <<store, answered>>
  <2>1. UNCHANGED <<rows, ledger, answered>> /\ \A p \in Ops : HeldFor(p)' = HeldFor(p)
    BY <1>5 DEF store, HeldFor
  <2>2. ledger[o].state # "none"
    BY <1>1 DEF Shape
  <2>3. Shape'
    <3>1. \A a \in Addresses : \A r \in rows'[a] : r.op \in Ops /\ r \in rows[a]
      BY <2>1, Typed
    <3>2. \A p \in Ops : ledger'[p].state = "none" => pump'[p] = "idle"
      BY <1>3, <2>1, <2>2 DEF Shape
    <3> QED
      BY <2>1, <3>1, <3>2 DEF Shape
  <2>4. \/ ~ ResultAccepted(o) /\ at = "settled"
        \/ "store" \in Faults /\ at = "pending"
        \/ AppendResultRow(o)
    BY <1>2, <1>3, IInvParts DEF AppendConsoleResult
  <2>5. AppendResultRow(o) => FALSE
    BY <2>1, IInvParts DEF AppendResultRow
  <2>6. ASSUME AnswersLand, Answered PROVE Answered'
    <3>1. at = "settled" /\ ledger[o].state # "accepted"
      BY <2>4, <2>5, <2>6 DEF AnswersLand, ResultAccepted
    <3> QED
      BY <1>3, <2>1, <2>6, <3>1 DEF Answered
  <2>7. ASSUME AcksInOrder, Ending PROVE Ending' /\ EndedStep
    <3>1. at = "settled"
      BY <2>4, <2>5, <2>7 DEF AcksInOrder
    <3> QED
      BY <1>3, <2>1, <2>7, <3>1, Typed DEF Ending, EndedStep
  <2> QED
    BY <2>3, <2>6, <2>7 DEF Kept
<1> QED
  BY <1>4, <1>5 DEF AppendConsoleResult

(* The pump settles an op, or leaves it for the next delivery. *)
LEMMA ConsoleOpAcksStep ==
    ASSUME IInv, Shape, NEW o \in Ops, ConsoleOpAcks(o)
    PROVE  Kept
<1>1. /\ Kind[o] = "console_op" /\ pump[o] \in {"settled", "pending"} /\ UNCHANGED answered
      /\ pump' = [pump EXCEPT ![o] = "idle"]
  BY IInvParts DEF ConsoleOpAcks, PumpRunsConsole, history
<1>2. \A p \in Ops : pump'[p] = IF p = o THEN "idle" ELSE pump[p]
  BY <1>1, IInvParts
<1>3. CASE \E r \in HeldFor(o) : Ack(To[o], r, IF pump[o] = "settled" THEN "delivered" ELSE "waking")
  <2>1. PICK r \in HeldFor(o) : Ack(To[o], r, IF pump[o] = "settled" THEN "delivered" ELSE "waking")
    BY <1>3
  <2>2. AnswersLand /\ Answered => answered[o] > 0
    BY <1>1 DEF Answered
  <2>3. Ending => pump[o] = "settled"
    BY <1>1 DEF Ending
  <2>4. CASE pump[o] = "settled"
    <3>1. Ack(To[o], r, "delivered")
      BY <2>1, <2>4
    <3> QED
      BY <1>1, <2>2, <3>1, PumpAckStep
  <2>5. CASE pump[o] # "settled"
    <3>1. Ack(To[o], r, "waking")
      BY <2>1, <2>5
    <3> QED
      BY <1>1, <2>2, <2>3, <2>5, <3>1, PumpAckStep
  <2> QED
    BY <2>4, <2>5
<1>4. CASE (HeldFor(o) = {} \/ pump[o] = "pending") /\ UNCHANGED <<store, old>>
  <2>1. UNCHANGED <<rows, ledger, answered>> /\ \A p \in Ops : HeldFor(p)' = HeldFor(p)
    BY <1>1, <1>4 DEF store, HeldFor
  <2>2. Shape'
    BY <1>2, <2>1, Typed DEF Shape
  <2>3. Answered => Answered'
    BY <1>2, <2>1, Typed DEF Answered
  <2>4. ASSUME Ending PROVE Ending' /\ EndedStep
    <3>1. HeldFor(o) = {}
      BY <1>1, <1>4, <2>4 DEF Ending
    <3> QED
      BY <1>2, <2>1, <2>4, <3>1, Typed DEF Ending, EndedStep
  <2> QED
    BY <2>2, <2>3, <2>4 DEF Kept
<1> QED
  BY <1>3, <1>4 DEF ConsoleOpAcks

LEMMA ShapeInit == Init => Shape /\ Answered /\ Ending
<1> SUFFICES ASSUME Init PROVE Shape /\ Answered /\ Ending
  OBVIOUS
<1>1. \A a \in Addresses : rows[a] = {}
  BY DEF Init
<1>2. "gateway" \in Addresses /\ Sessions \subseteq Addresses /\ \A o \in Ops : To[o] \in Addresses
  BY ShapeAssumption DEF Addresses
<1>3. \A o \in Ops : HeldFor(o) = {} /\ pump[o] = "idle" /\ ledger[o].state = "none"
  BY <1>1, <1>2 DEF Init, HeldFor, Record
<1> QED
  BY <1>1, <1>2, <1>3 DEF Shape, Answered, Ending

(* Every step keeps the shape of the rows and, where the faults allow for  *)
(* it, what the two theorems below rest on.                                *)
LEMMA ShapeStep == IInv /\ Shape /\ [Next]_vars => Kept
<1> SUFFICES ASSUME IInv, Shape, [Next]_vars PROVE Kept
  OBVIOUS
<1>1. ASSUME NEW o \in Ops, ConsoleOpWaits(o) PROVE Kept
  <2>1. /\ Kind[o] = "console_op" /\ "keys" \in Faults /\ pump[o] = "idle"
        /\ UNCHANGED <<months, pump, history>>
    BY <1>1 DEF ConsoleOpWaits
  <2>2. PICK r \in HeldFor(o) : Ack(To[o], r, "waking")
    BY <1>1 DEF ConsoleOpWaits
  <2>3. pump' = [pump EXCEPT ![o] = "idle"] /\ ~ AnswersLand /\ UNCHANGED answered
    BY <2>1, IInvParts DEF AnswersLand, history
  <2> QED
    BY <2>1, <2>2, <2>3, PumpAckStep
<1>2. ASSUME NEW o \in Ops, ConsoleOpRuns(o) PROVE Kept
  <2>1. /\ UNCHANGED <<rows, ledger, answered>> /\ \A p \in Ops : HeldFor(p)' = HeldFor(p)
        /\ HeldFor(o) # {} /\ pump[o] = "idle"
        /\ \A p \in Ops : pump'[p] = IF p = o THEN "ran" ELSE pump[p]
    BY <1>2, IInvParts DEF ConsoleOpRuns, store, HeldFor, history
  <2>2. ledger[o].state # "none"
    <3>1. To[o] \in Addresses
      BY Typed
    <3> QED
      BY <2>1, <3>1 DEF Shape, HeldFor
  <2>3. Shape'
    <3>1. \A a \in Addresses : \A r \in rows'[a] : r.op \in Ops /\ r \in rows[a]
      BY <2>1, Typed
    <3>2. \A p \in Ops : ledger'[p].state = "none" => pump'[p] = "idle"
      BY <2>1, <2>2 DEF Shape
    <3> QED
      BY <2>1, <3>1, <3>2 DEF Shape
  <2>4. (Answered => Answered') /\ (Ending => Ending' /\ EndedStep)
    BY <2>1, Typed DEF Answered, Ending, EndedStep
  <2> QED
    BY <2>3, <2>4 DEF Kept
<1>3. ASSUME NEW o \in Ops, ConsoleOpFails(o) PROVE Kept
  <2>1. /\ Kind[o] = "console_op" /\ pump[o] = "ran" /\ UNCHANGED answered
        /\ pump' = [pump EXCEPT ![o] = "idle"]
    BY <1>3, IInvParts DEF ConsoleOpFails, PumpRunsConsole, history
  <2>2. PICK r \in HeldFor(o) : Ack(To[o], r, "failed")
    BY <1>3 DEF ConsoleOpFails
  <2>3. {r} \subseteq rows[To[o]] /\ To[o] \in Addresses /\ To[o] # "owner"
    BY <2>1, Typed DEF HeldFor
  <2>4. Retires(To[o], {r}, "failed")
    BY <2>2 DEF Ack
  <2>5. \A p \in Ops : pump'[p] = pump[p] \/ (pump[p] = "ran" /\ pump'[p] = "idle")
    BY <2>1, IInvParts
  <2> QED
    BY <2>1, <2>3, <2>4, <2>5, RetireStep
<1>4. ASSUME NEW a \in Addresses, SweepExpired(a) PROVE Kept
  <2>1. PICK gone \in SUBSET rows[a] : Retires(a, gone, "expired") /\ UNCHANGED <<months, pump, history>>
    BY <1>4 DEF SweepExpired
  <2>2. AcksInOrder => a # "owner"
    BY <1>4 DEF SweepExpired, AcksInOrder
  <2> QED
    BY <2>1, <2>2, RetireStep DEF history
<1>5. ASSUME NEW s \in Sessions, ForgetSession(s) PROVE Kept
  <2>1. /\ s \in Addresses /\ s # "owner" /\ rows[s] \in SUBSET rows[s]
        /\ Retires(s, rows[s], "failed") /\ UNCHANGED <<months, pump, history>>
    BY <1>5, Typed DEF ForgetSession
  <2> QED
    BY <2>1, RetireStep DEF history
<1>6. ASSUME OwnerReads PROVE Kept
  <2>1. PICK gone \in SUBSET rows["owner"] :
          Removes("owner", gone) /\ UNCHANGED <<next, ledger, months, pump, history>>
    BY <1>6 DEF OwnerReads
  <2>2. \A b \in Addresses : rows'[b] = IF b = "owner" THEN rows[b] \ gone ELSE rows[b]
    BY <2>1, IInvParts DEF StoreInv, Removes
  <2>3. Loses("owner", gone) /\ Settles /\ UNCHANGED <<ledger, pump, answered>> /\ "owner" \in Addresses
    BY <2>1, <2>2, Typed DEF Loses, Settles, history
  <2>4. /\ Shape'
        /\ \A o \in Ops : HeldFor(o)' \subseteq HeldFor(o)
    BY <2>3, LosesShape
  <2>5. \A s \in Sessions \cup {"gateway"} : rows'[s] = rows[s]
    BY <2>2, Typed
  <2>6. Answered => Answered'
    BY <2>3, <2>4, <2>5 DEF Answered
  <2>7. Ending => Ending' /\ EndedStep
    BY <2>3, <2>4, <2>5, Typed DEF Ending, EndedStep
  <2> QED
    BY <2>4, <2>6, <2>7 DEF Kept
<1>7. CASE MonthPasses \/ UNCHANGED vars
  <2>1. UNCHANGED <<rows, ledger, pump, answered>> /\ \A o \in Ops : HeldFor(o)' = HeldFor(o)
    BY <1>7 DEF MonthPasses, vars, store, history, HeldFor
  <2>2. \A a \in Addresses : \A r \in rows'[a] : r.op \in Ops /\ r \in rows[a]
    BY <2>1, Typed
  <2>3. Shape'
    BY <2>1, <2>2 DEF Shape
  <2>4. (Answered => Answered') /\ (Ending => Ending' /\ EndedStep)
    BY <2>1, Typed DEF Answered, Ending, EndedStep
  <2> QED
    BY <2>3, <2>4 DEF Kept
<1> QED
  BY <1>1, <1>2, <1>3, <1>4, <1>5, <1>6, <1>7, AppendRowStep, ConsoleResultStep, ConsoleOpAcksStep,
     GatewayAckStep DEF Next

----------------------------------------------------------------------------
(* The theorems *)

(* Every state of the ledger, the rows and the pump is well formed, for    *)
(* any number of operations, sessions and months.                          *)
THEOREM TypeCorrect == Spec => []TypeOK
<1>1. IInv => TypeOK
  BY DEF IInv
<1> QED
  BY <1>1, Inductive, PTL

(* No sequence of acks, retirements, expiries, forgotten sessions, failed  *)
(* commits and lost answers leaves an operation for a session open without *)
(* a row that can end it.                                                  *)
THEOREM OpenOpsHaveRows == Spec => []OpenHasRow
<1>1. IInv => OpenHasRow
  BY DEF IInv
<1> QED
  BY <1>1, Inductive, PTL

(* An operation is appended at most once and the gateway's result for it   *)
(* at most once, however often either is retried.                          *)
THEOREM OnlyOnce == Spec => []AppendedOnce
<1>1. IInv => AppendedOnce
  BY DEF IInv, Counted, AppendedOnce
<1> QED
  BY <1>1, Inductive, PTL

(* A console op goes as delivered only after its answer was written for    *)
(* the owner, whatever of replies is lost, expires, is retried or          *)
(* forgotten: where commits of the store do not fail and content keys are  *)
(* held.  (They are what has the pump settle an op without an answer.)     *)
THEOREM DeliveredWasAnswered ==
    ASSUME Faults \cap {"store", "keys"} = {}
    PROVE  Spec => []AnsweredBeforeDelivered
<1>1. Answered => AnsweredBeforeDelivered
  BY DEF Answered, AnsweredBeforeDelivered
<1>2. Init => Shape /\ Answered
  BY ShapeInit
<1>3. IInv /\ Shape /\ Answered /\ [Next]_vars => Shape' /\ Answered'
  BY ShapeStep DEF Kept, AnswersLand
<1> QED
  BY <1>1, <1>2, <1>3, Inductive, PTL DEF Spec

(* No ack, result, expiry or forgotten session reopens an operation that   *)
(* has ended, with content keys or without: where commits and replies are  *)
(* not lost, the owner's rows are read within their month and the gateway  *)
(* itself sends nothing.  (A result row kept for the gateway is acked as   *)
(* waking for ever, and a lost reply has an answered op acked as waking.)  *)
THEOREM NothingReopens ==
    ASSUME Faults \cap {"store", "reply", "unread"} = {}, \A o \in Ops : From[o] # "gateway"
    PROVE  Spec => EndedStays
<1>1. Init => Shape /\ Ending
  BY ShapeInit
<1>2. IInv /\ Shape /\ Ending /\ [Next]_vars => Shape' /\ Ending' /\ EndedStep
  BY ShapeStep DEF Kept, AcksInOrder
<1>3. EndedStep => [\A o \in Ops : ledger[o].state \in Ended => ledger'[o].state \in Ended]_vars
  BY DEF EndedStep
<1> QED
  BY <1>1, <1>2, <1>3, Inductive, PTL DEF Spec, EndedStays
=============================================================================
