-------------------------- MODULE ModelWriteProof --------------------------
(***************************************************************************)
(* Proofs about ModelWrite, for any clients, models, types of key and      *)
(* bounds.  Each part adds to the inductive invariant of the one before:   *)
(*   IInv  types and locks: LockedRowStands                                *)
(*   KInv  a model keeps the key of its row: ModelNamesItsRow              *)
(*   MInv  a model is stored as one row, and the key and the created time  *)
(*         it writes back are those of that row: OneRowPerModel,           *)
(*         UpdateOwnRowOnly and CreatedStands                              *)
(***************************************************************************)
EXTENDS ModelWrite, FiniteSetTheorems, TLAPS

USE ModelWriteAssumption

\* Ids come from the table or are chosen, so they are bounded as its rows are;
\* an Insert past its statement knows its first row.
IdInv ==
    /\ \A m \in Models : model[m].id <= MaxRows
    /\ nextId <= born + 1
    /\ \A c \in Clients : call[c].pc # "idle" => Len(call[c].ms) > 0
    /\ \A c \in Clients : call[c].pc \in {"affected", "fill"} => call[c].first \in Births

\* What a transaction was answered and what it wrote is locked, for it alone.
LockInv ==
    /\ \A c, d \in Clients : c # d => tx[c].held \cap tx[d].held = {}
    /\ \A c \in Clients :
         /\ Pending(c) \subseteq tx[c].held
         /\ \A s \in tx[c].seen : s.birth \in tx[c].held
         /\ ~tx[c].open => tx[c] = NoTx

\* LockedRowStands with what it takes to be inductive.
IInv == TypeInv /\ IdInv /\ LockInv /\ LockedRowStands

Transaction == [open : BOOLEAN, held : SUBSET Births, seen : SUBSET Seen, pend : SUBSET Seen]

LEMMA NowType ==
    ASSUME calls \in Nat
    PROVE  Now \in 0 .. MaxNow
BY DEF Now

LEMMA FillType ==
    ASSUME calls \in Nat,
           NEW m \in [id : 0 .. IdRange - 1, v : Values, at : 0 .. MaxNow]
    PROVE  /\ FilledForInsert(m) \in [id : 0 .. IdRange - 1, v : Values, at : 0 .. MaxNow]
           /\ FilledForUpdate(m) \in [id : 0 .. IdRange - 1, v : Values, at : 0 .. MaxNow]
           /\ FilledForInsert(m).id = m.id /\ FilledForUpdate(m).id = m.id
           /\ FilledForInsert(m).v = m.v /\ FilledForUpdate(m).v = m.v
BY NowType DEF FilledForInsert, FilledForUpdate, FillCurrentTime

\* What a client works on is a table.
LEMMA ViewType ==
    ASSUME TypeInv, NEW c \in Clients
    PROVE  View(c) \in [Births -> Row]
<1>1. ASSUME NEW b \in Births
      PROVE  (IF b \in Pending(c) THEN (CHOOSE s \in tx[c].pend : s.birth = b).row
              ELSE rows[b]) \in Row
  <2>1. CASE b \in Pending(c)
    <3>1. \E s \in tx[c].pend : s.birth = b
      BY <2>1 DEF Pending
    <3>2. (CHOOSE s \in tx[c].pend : s.birth = b) \in tx[c].pend
      BY <3>1
    <3>3. tx[c].pend \subseteq Seen
      BY DEF TypeInv
    <3> QED BY <2>1, <3>2, <3>3 DEF Seen
  <2>2. CASE b \notin Pending(c)
    BY <2>2 DEF TypeInv
  <2> QED BY <2>1, <2>2
<1> QED BY <1>1 DEF View, Over

\* A write keeps the types of the table and the transactions, and the locks.
LEMMA WriteKeeps ==
    ASSUME TypeInv, LockInv, LockedRowStands, NEW c \in Clients,
           NEW touched \in SUBSET Births, NEW table \in [Births -> Row],
           Write(c, touched, table)
    PROVE  /\ rows' \in [Births -> Row]
           /\ tx' \in [Clients -> Transaction]
           /\ LockInv' /\ LockedRowStands'
<1>1. Free(c, touched)
  BY DEF Write
<1>2. CASE tx[c].open
  <2> DEFINE new == {[birth |-> b, row |-> table[b]] : b \in touched}
             pend == {s \in tx[c].pend : s.birth \notin touched} \cup new
  <2>1. new \subseteq Seen
    BY DEF Seen
  <2>2. /\ rows' = rows
        /\ tx' = [tx EXCEPT ![c].held = @ \cup touched, ![c].pend = pend]
    BY <1>2 DEF Write
  <2>3. tx[c] \in Transaction /\ pend \subseteq Seen
    BY <2>1 DEF TypeInv, Transaction
  <2>4. tx' \in [Clients -> Transaction]
    BY <2>2, <2>3 DEF TypeInv, Transaction
  <2>5. /\ tx'[c].held = tx[c].held \cup touched /\ tx'[c].pend = pend
        /\ tx'[c].open /\ tx'[c].seen = tx[c].seen
        /\ \A d \in Clients \ {c} : tx'[d] = tx[d]
    BY <1>2, <2>2, <2>3 DEF TypeInv, Transaction
  <2> HIDE DEF pend
  <2>6. \A a, d \in Clients : a # d => tx'[a].held \cap tx'[d].held = {}
    BY <1>1, <2>5 DEF Free, LockInv
  <2>7. \A s \in pend : s.birth \in tx'[c].held
    BY <2>5 DEF pend, LockInv, Pending
  <2>8. Pending(c)' \subseteq tx'[c].held
    BY <2>5, <2>7 DEF Pending
  <2>9. ASSUME NEW d \in Clients
        PROVE  /\ Pending(d)' \subseteq tx'[d].held
               /\ \A s \in tx'[d].seen : s.birth \in tx'[d].held
               /\ ~tx'[d].open => tx'[d] = NoTx
    <3>1. CASE d = c
      BY <3>1, <2>5, <2>8 DEF LockInv
    <3>2. CASE d # c
      BY <3>2, <2>5 DEF LockInv, Pending
    <3> QED BY <3>1, <3>2
  <2>10. LockInv'
    BY <2>6, <2>9 DEF LockInv
  <2>11. \A d \in Clients : tx'[d].seen = tx[d].seen
    BY <2>5
  <2>12. LockedRowStands'
    BY <2>2, <2>11 DEF LockedRowStands
  <2> QED BY <2>2, <2>4, <2>10, <2>12 DEF TypeInv
<1>3. CASE ~tx[c].open
  <2>1. /\ rows' = [b \in Births |-> IF b \in touched THEN table[b] ELSE rows[b]]
        /\ tx' = tx
    BY <1>3 DEF Write
  <2>2. rows' \in [Births -> Row] /\ tx' \in [Clients -> Transaction]
    BY <2>1 DEF TypeInv, Transaction
  <2>3. LockInv'
    BY <2>1 DEF LockInv, Pending
  <2>4. ASSUME NEW d \in Clients, NEW s \in tx[d].seen
        PROVE  rows'[s.birth] = s.row
    <3>1. d # c
      BY <1>3 DEF LockInv, NoTx
    <3>2. s.birth \in tx[d].held /\ s.birth \in Births
      BY DEF LockInv, TypeInv, Seen
    <3>3. s.birth \notin touched
      BY <1>1, <3>1, <3>2 DEF Free
    <3> QED BY <2>1, <3>2, <3>3 DEF LockedRowStands
  <2>5. LockedRowStands'
    BY <2>1, <2>4 DEF LockedRowStands
  <2> QED BY <2>2, <2>3, <2>5
<1> QED BY <1>2, <1>3

-----------------------------------------------------------------------------
(* One lemma per action *)

\* What the actions that leave the rows and the transactions alone preserve.
LEMMA LocksStay ==
    ASSUME LockInv, LockedRowStands, UNCHANGED <<rows, tx>>
    PROVE  LockInv' /\ LockedRowStands'
BY DEF LockInv, LockedRowStands, Pending

LEMMA InitInv == Init => IInv
<1> SUFFICES ASSUME Init PROVE IInv
  OBVIOUS
<1>1. NoRow \in Row /\ FirstRow \in Row
  <2>1. NoRow.v \in Values
    BY DEF NoRow
  <2> QED BY <2>1 DEF NoRow, FirstRow, Row
<1>2. model \in [Models -> [id : 0 .. IdRange - 1, v : Values, at : 0 .. MaxNow]]
  BY <1>1 DEF Init, Row, NoRow
<1>3. rows \in [Births -> Row] /\ born \in 0 .. MaxRows /\ nextId \in 1 .. MaxRows + 1
  BY <1>1 DEF Init
<1>4. <<kind, database>> \in Cases
  BY DEF Init
<1>5. /\ call \in [Clients -> [pc : {"idle", "exec", "affected", "fill"},
                               ms : Seq(Models), first : 0 .. MaxRows]]
      /\ \A c \in Clients : call[c].pc # "fill"
      /\ stmt \in [Clients -> Seq(Models)]
      /\ tx \in [Clients -> Transaction]
  BY DEF Init, NoCall, NoTx, Transaction
<1>6. TypeInv
  BY <1>2, <1>3, <1>4, <1>5 DEF Init, TypeInv, Transaction
<1>7. IdInv
  BY DEF Init, IdInv, NoCall
<1>8. LockInv /\ LockedRowStands
  BY DEF Init, LockInv, LockedRowStands, NoTx, Pending
<1> QED BY <1>6, <1>7, <1>8 DEF IInv

LEMMA ChangeInv ==
    ASSUME IInv, NEW m \in Models, Change(m)
    PROVE  IInv'
<1>1. PICK v \in Values : model' = [model EXCEPT ![m].v = v]
  BY DEF Change
<1>2. /\ model' \in [Models -> [id : 0 .. IdRange - 1, v : Values, at : 0 .. MaxNow]]
      /\ \A n \in Models : model'[n].id = model[n].id
  <2> DEFINE Held == [id : 0 .. IdRange - 1, v : Values, at : 0 .. MaxNow]
  <2>1. model \in [Models -> Held]
    BY DEF IInv, TypeInv
  <2>2. [model[m] EXCEPT !.v = v] \in Held /\ [model[m] EXCEPT !.v = v].id = model[m].id
    BY <2>1
  <2> HIDE DEF Held
  <2>3. model' \in [Models -> Held] /\ \A n \in Models : model'[n].id = model[n].id
    BY <1>1, <2>1, <2>2
  <2> QED BY <2>3 DEF Held
<1>3. TypeInv' /\ IdInv'
  BY <1>2 DEF IInv, TypeInv, IdInv, Change
<1> QED BY <1>3, LocksStay DEF IInv, Change

LEMMA CountsType ==
    ASSUME IInv, Counts
    PROVE  calls \in Nat /\ calls' \in 0 .. MaxCalls
<1>1. calls \in 0 .. MaxCalls
  BY DEF IInv, TypeInv
<1>2. calls < MaxCalls /\ calls' = calls + 1
  BY DEF Counts
<1> QED BY <1>1, <1>2

LEMMA StartInsertInv ==
    ASSUME IInv, NEW c \in Clients, NEW ms \in Seq(Models), Len(ms) > 0, StartInsert(c, ms)
    PROVE  IInv'
<1>1. calls \in Nat /\ calls' \in 0 .. MaxCalls
  BY CountsType DEF StartInsert
<1>2. /\ model' \in [Models -> [id : 0 .. IdRange - 1, v : Values, at : 0 .. MaxNow]]
      /\ \A n \in Models : model'[n].id = model[n].id
  BY <1>1, FillType DEF IInv, TypeInv, StartInsert
<1>3. /\ call' \in [Clients -> [pc : {"idle", "exec", "affected", "fill"},
                                ms : Seq(Models), first : 0 .. MaxRows]]
      /\ call'[c].pc = "exec" /\ call'[c].ms = ms
      /\ \A d \in Clients \ {c} : call'[d] = call[d]
  BY DEF IInv, TypeInv, StartInsert
<1>4. TypeInv'
  <2>1. ASSUME NEW d \in Clients, call'[d].pc = "fill"
        PROVE  Len(call'[d].ms) = 1
    <3>1. d # c /\ call'[d] = call[d]
      BY <1>3, <2>1
    <3> QED BY <2>1, <3>1 DEF IInv, TypeInv
  <2> QED BY <1>1, <1>2, <1>3, <2>1 DEF IInv, TypeInv, StartInsert
<1>5. IdInv'
  BY <1>2, <1>3 DEF IInv, IdInv, StartInsert
<1> QED BY <1>4, <1>5, LocksStay DEF IInv, StartInsert

\* The ids a statement stores follow the table's counter.
LEMMA StoredIdType ==
    ASSUME IInv, NEW ms \in Seq(Models), born + Len(ms) <= MaxRows,
           NEW i \in DOMAIN ms
    PROVE  StoredId(ms, i) \in 0 .. MaxRows
<1>1. i \in 1 .. Len(ms) /\ Len(ms) \in Nat /\ ms[i] \in Models
  OBVIOUS
<1>2. born \in Nat /\ nextId \in Nat /\ nextId <= born + 1
  BY DEF IInv, TypeInv, IdInv
<1>3. model[ms[i]].id \in 0 .. MaxRows
  BY <1>1 DEF IInv, TypeInv, IdInv
<1> DEFINE none == {j \in 1 .. i - 1 : model[ms[j]].id = 0}
<1>4. Cardinality(none) \in Nat /\ Cardinality(none) <= i - 1
  <2>1. IsFiniteSet(1 .. i - 1) /\ Cardinality(1 .. i - 1) = i - 1
    <3>1. 1 \in Int /\ i - 1 \in Int /\ i - 1 >= 0
      BY <1>1
    <3>2. Cardinality(1 .. i - 1) = IF 1 > i - 1 THEN 0 ELSE i - 1 - 1 + 1
      BY <3>1, FS_Interval
    <3>3. IsFiniteSet(1 .. i - 1)
      BY <3>1, FS_Interval
    <3> QED BY <3>1, <3>2, <3>3
  <2>2. /\ IsFiniteSet(none) /\ Cardinality(none) <= Cardinality(1 .. i - 1)
    BY <2>1, FS_Subset
  <2> QED BY <2>1, <2>2, FS_CardinalityType
<1>5. nextId + Cardinality(none) \in 0 .. MaxRows
  BY <1>1, <1>2, <1>4
<1> QED BY <1>3, <1>5 DEF StoredId

LEMMA CounterType ==
    ASSUME IInv, NEW ms \in Seq(Models)
    PROVE  /\ Cardinality({i \in DOMAIN ms : model[ms[i]].id = 0}) \in Nat
           /\ Cardinality({i \in DOMAIN ms : model[ms[i]].id = 0}) <= Len(ms)
<1> DEFINE none == {i \in DOMAIN ms : model[ms[i]].id = 0}
<1>1. DOMAIN ms = 1 .. Len(ms) /\ Len(ms) \in Nat
  OBVIOUS
<1>2. IsFiniteSet(DOMAIN ms) /\ Cardinality(DOMAIN ms) = Len(ms)
  <2>1. /\ IsFiniteSet(1 .. Len(ms))
        /\ Cardinality(1 .. Len(ms)) = IF 1 > Len(ms) THEN 0 ELSE Len(ms) - 1 + 1
    BY <1>1, FS_Interval
  <2>2. Cardinality(1 .. Len(ms)) = Len(ms)
    BY <1>1, <2>1
  <2> QED BY <1>1, <2>1, <2>2
<1>3. IsFiniteSet(none) /\ Cardinality(none) <= Cardinality(DOMAIN ms)
  BY <1>2, FS_Subset
<1> QED BY <1>2, <1>3, FS_CardinalityType

LEMMA ExecInsertInv ==
    ASSUME IInv, NEW c \in Clients, ExecInsert(c)
    PROVE  IInv'
<1> DEFINE ms == call[c].ms
           new == born + 1 .. born + Len(ms)
           table == [b \in Births |-> IF b \in new THEN NewRow(ms, b - born) ELSE View(c)[b]]
<1>1. /\ ms \in Seq(Models) /\ Len(ms) \in Nat \ {0} /\ DOMAIN ms = 1 .. Len(ms)
      /\ born \in Nat /\ nextId \in Nat \ {0} /\ nextId <= born + 1
  <2>1. call[c].ms \in Seq(Models) /\ Len(call[c].ms) > 0
    BY DEF IInv, TypeInv, IdInv, ExecInsert
  <2>2. born \in Nat /\ nextId \in Nat \ {0} /\ nextId <= born + 1
    BY DEF IInv, TypeInv, IdInv
  <2> QED BY <2>1, <2>2
<1>2. born + Len(ms) <= MaxRows /\ born' = born + Len(ms) /\ Write(c, new, table)
  BY DEF ExecInsert
<1>3. new \in SUBSET Births
  BY <1>1, <1>2 DEF Births
<1>4. ASSUME NEW i \in DOMAIN ms
      PROVE  NewRow(ms, i) \in Row
  <2>1. ms[i] \in Models /\ model[ms[i]].v \in Values /\ model[ms[i]].at \in 0 .. MaxNow
    <3>1. ms[i] \in Models
      BY <1>1
    <3> QED BY <3>1 DEF IInv, TypeInv
  <2>2. StoredId(ms, i) \in 0 .. MaxRows
    BY <1>1, <1>2, StoredIdType
  <2> QED BY <2>1, <2>2 DEF NewRow, Row
<1>5. table \in [Births -> Row]
  <2>1. ASSUME NEW b \in Births
        PROVE  (IF b \in new THEN NewRow(ms, b - born) ELSE View(c)[b]) \in Row
    <3>1. CASE b \in new
      <4>1. b - born \in DOMAIN ms
        BY <3>1, <1>1
      <4> QED BY <3>1, <4>1, <1>4
    <3>2. CASE b \notin new
      BY <3>2, ViewType DEF IInv
    <3> QED BY <3>1, <3>2
  <2> QED BY <2>1
<1>6. /\ rows' \in [Births -> Row] /\ tx' \in [Clients -> Transaction]
      /\ LockInv' /\ LockedRowStands'
  <2> HIDE DEF new, table
  <2> QED BY <1>2, <1>3, <1>5, WriteKeeps DEF IInv
<1>7. nextId' \in 1 .. MaxRows + 1 /\ nextId' <= born' + 1
  <2> DEFINE none == Cardinality({i \in DOMAIN ms : model[ms[i]].id = 0})
  <2>1. none \in Nat /\ none <= Len(ms)
    BY <1>1, CounterType
  <2>2. nextId' = IF Generates THEN nextId + none ELSE nextId
    BY DEF ExecInsert
  <2> HIDE DEF none, ms
  <2>3. \E n \in 0 .. Len(ms) : nextId' = nextId + n
    <3>1. none \in 0 .. Len(ms) /\ 0 \in 0 .. Len(ms) /\ nextId = nextId + 0
      BY <1>1, <2>1
    <3> QED BY <3>1, <2>2
  <2> QED BY <1>1, <1>2, <2>3
<1>8. stands' \in [Models -> Births \cup {NoBirth}]
  <2>1. ASSUME NEW m \in Models, \E i \in DOMAIN ms : ms[i] = m
        PROVE  born + (CHOOSE i \in DOMAIN ms : ms[i] = m) \in Births
    <3>1. (CHOOSE i \in DOMAIN ms : ms[i] = m) \in DOMAIN ms
      BY <2>1
    <3> QED BY <3>1, <1>1, <1>2 DEF Births
  <2>2. ASSUME NEW m \in Models
        PROVE  (IF \E i \in DOMAIN ms : ms[i] = m /\ model[m].id # 0
                THEN born + CHOOSE i \in DOMAIN ms : ms[i] = m
                ELSE stands[m]) \in Births \cup {NoBirth}
    BY <2>1 DEF IInv, TypeInv
  <2> QED BY <2>2 DEF ExecInsert
<1>9. /\ call' \in [Clients -> [pc : {"idle", "exec", "affected", "fill"},
                                ms : Seq(Models), first : 0 .. MaxRows]]
      /\ \/ /\ call'[c].pc = "affected" /\ call'[c].ms = ms
            /\ call'[c].first \in Births
         \/ call'[c].pc = "idle"
      /\ \A d \in Clients \ {c} : call'[d] = call[d]
  <2>1. born + 1 \in Births /\ Births \subseteq 0 .. MaxRows
    BY <1>1, <1>2 DEF Births
  <2>2. call \in [Clients -> [pc : {"idle", "exec", "affected", "fill"},
                              ms : Seq(Models), first : 0 .. MaxRows]]
    BY DEF IInv, TypeInv
  <2>3. CASE call' = [call EXCEPT ![c].pc = "affected", ![c].first = born + 1]
    BY <2>1, <2>2, <2>3
  <2>4. CASE call' = [call EXCEPT ![c] = NoCall]
    BY <2>2, <2>4 DEF NoCall
  <2> QED BY <2>3, <2>4 DEF ExecInsert
<1>10. /\ UNCHANGED <<kind, database, model, calls, stmt, sure>>
       /\ born' \in 0 .. MaxRows
  BY <1>1, <1>2 DEF ExecInsert
<1> HIDE DEF table, new
<1>11. TypeInv'
  <2>1. ASSUME NEW d \in Clients, call'[d].pc = "fill"
        PROVE  Len(call'[d].ms) = 1
    <3>1. d # c /\ call'[d] = call[d]
      BY <1>9, <2>1
    <3> QED BY <2>1, <3>1 DEF IInv, TypeInv
  <2> QED BY <1>6, <1>7, <1>8, <1>9, <1>10, <2>1 DEF IInv, TypeInv, Transaction
<1>12. IdInv'
  <2>1. \A m \in Models : model'[m].id <= MaxRows
    BY <1>10 DEF IInv, IdInv
  <2>2. \A d \in Clients : call'[d].pc # "idle" => Len(call'[d].ms) > 0
    <3>1. ASSUME NEW d \in Clients, d # c, call'[d].pc # "idle"
          PROVE  Len(call'[d].ms) > 0
      <4>1. call'[d] = call[d]
        BY <3>1, <1>9
      <4> QED BY <3>1, <4>1 DEF IInv, IdInv
    <3>2. ASSUME call'[c].pc # "idle"
          PROVE  Len(call'[c].ms) > 0
      <4>1. call'[c].ms = ms
        BY <3>2, <1>9
      <4> QED BY <4>1, <1>1
    <3> QED BY <3>1, <3>2
  <2>3. \A d \in Clients : call'[d].pc \in {"affected", "fill"} => call'[d].first \in Births
    BY <1>9 DEF IInv, IdInv
  <2> QED BY <1>7, <2>1, <2>2, <2>3 DEF IdInv
<1> QED BY <1>6, <1>11, <1>12 DEF IInv

Calls == [pc : {"idle", "exec", "affected", "fill"}, ms : Seq(Models), first : 0 .. MaxRows]

\* A call goes on, or it ends, with the same models and the same first row.
LEMMA CallMoves ==
    ASSUME IInv, NEW c \in Clients,
           \/ /\ call[c].pc = "affected" /\ Len(call[c].ms) = 1
              /\ call' = [call EXCEPT ![c].pc = "fill"]
           \/ call' = [call EXCEPT ![c] = NoCall]
    PROVE  /\ call' \in [Clients -> Calls]
           /\ \A d \in Clients : call'[d].pc = "fill" => Len(call'[d].ms) = 1
           /\ \A d \in Clients : call'[d].pc # "idle" => Len(call'[d].ms) > 0
           /\ \A d \in Clients : call'[d].pc \in {"affected", "fill"} => call'[d].first \in Births
<1>1. call \in [Clients -> Calls]
  BY DEF IInv, TypeInv, Calls
<1>2. \A d \in Clients \ {c} : call'[d] = call[d]
  BY <1>1
<1>3. ASSUME NEW d \in Clients, d # c
      PROVE  /\ call'[d].pc # "idle" => Len(call'[d].ms) > 0
             /\ call'[d].pc = "fill" => Len(call'[d].ms) = 1
             /\ call'[d].pc \in {"affected", "fill"} => call'[d].first \in Births
  <2>1. call'[d] = call[d]
    BY <1>2, <1>3
  <2> QED BY <2>1 DEF IInv, TypeInv, IdInv
<1>4. CASE /\ call[c].pc = "affected" /\ Len(call[c].ms) = 1
           /\ call' = [call EXCEPT ![c].pc = "fill"]
  <2>1. call' \in [Clients -> Calls]
    <3>1. call[c] \in Calls
      BY <1>1
    <3>2. [call[c] EXCEPT !.pc = "fill"] \in Calls
      BY <3>1 DEF Calls
    <3> QED BY <1>1, <1>4, <3>2
  <2>2. call'[c].ms = call[c].ms /\ call'[c].first = call[c].first
    BY <1>1, <1>4 DEF Calls
  <2>3. Len(call[c].ms) > 0 /\ call[c].first \in Births
    BY <1>4 DEF IInv, IdInv
  <2>4. Len(call'[c].ms) > 0 /\ Len(call'[c].ms) = 1 /\ call'[c].first \in Births
    BY <1>4, <2>2, <2>3
  <2> QED BY <2>1, <2>4, <1>3
<1>5. CASE call' = [call EXCEPT ![c] = NoCall]
  <2>1. call' \in [Clients -> Calls]
    BY <1>1, <1>5 DEF Calls, NoCall
  <2>2. call'[c].pc = "idle"
    BY <1>1, <1>5 DEF NoCall
  <2> QED BY <2>1, <2>2, <1>3
<1> QED BY <1>4, <1>5

LEMMA SureType ==
    ASSUME IInv, NEW c \in Clients, call[c].pc # "idle", InsertDone(c)
    PROVE  sure' \in [Births -> SUBSET Models]
<1>1. call[c].ms \in Seq(Models) /\ Len(call[c].ms) > 0
  BY DEF IInv, TypeInv, IdInv
<1>2. call[c].ms[1] \in Models
  BY <1>1
<1> QED BY <1>2 DEF IInv, TypeInv, InsertDone

LEMMA ExecInsertFailsInv ==
    ASSUME IInv, NEW c \in Clients, ExecInsertFails(c)
    PROVE  IInv'
<1>1. /\ call' \in [Clients -> Calls]
      /\ \A d \in Clients : call'[d].pc # "idle" => Len(call'[d].ms) > 0
      /\ \A d \in Clients : call'[d].pc = "fill" => Len(call'[d].ms) = 1
      /\ \A d \in Clients : call'[d].pc \in {"affected", "fill"} => call'[d].first \in Births
  BY CallMoves DEF ExecInsertFails
<1>2. TypeInv'
  BY <1>1 DEF IInv, TypeInv, ExecInsertFails, Calls
<1>3. IdInv'
  BY <1>1 DEF IInv, IdInv, ExecInsertFails
<1> QED BY <1>2, <1>3, LocksStay DEF IInv, ExecInsertFails

LEMMA RowsAffectedInv ==
    ASSUME IInv, NEW c \in Clients, RowsAffected(c)
    PROVE  IInv'
<1>1. /\ call' \in [Clients -> Calls]
      /\ \A d \in Clients : call'[d].pc # "idle" => Len(call'[d].ms) > 0
      /\ \A d \in Clients : call'[d].pc = "fill" => Len(call'[d].ms) = 1
      /\ \A d \in Clients : call'[d].pc \in {"affected", "fill"} => call'[d].first \in Births
  BY CallMoves DEF RowsAffected, InsertDone
<1>2. sure' \in [Births -> SUBSET Models]
  BY SureType DEF RowsAffected, IInv, TypeInv
<1>3. TypeInv'
  BY <1>1, <1>2 DEF IInv, TypeInv, RowsAffected, Calls
<1>4. IdInv'
  BY <1>1 DEF IInv, IdInv, RowsAffected
<1> QED BY <1>3, <1>4, LocksStay DEF IInv, RowsAffected

\* The id of a row, narrowed, is an id of the key's type, and no larger.
LEMMA NarrowedType ==
    ASSUME NEW id \in 0 .. MaxRows
    PROVE  Narrowed(id) \in 0 .. IdRange - 1 /\ Narrowed(id) <= MaxRows
<1>1. id % IdRange \in 0 .. IdRange - 1
  OBVIOUS
<1>2. id < IdRange => id % IdRange = id
  OBVIOUS
<1> QED BY <1>1, <1>2 DEF Narrowed

LEMMA FillModelIDInv ==
    ASSUME IInv, NEW c \in Clients, FillModelID(c)
    PROVE  IInv'
<1> DEFINE m == call[c].ms[1]
           Held == [id : 0 .. IdRange - 1, v : Values, at : 0 .. MaxNow]
<1>1. /\ call' \in [Clients -> Calls]
      /\ \A d \in Clients : call'[d].pc # "idle" => Len(call'[d].ms) > 0
      /\ \A d \in Clients : call'[d].pc = "fill" => Len(call'[d].ms) = 1
      /\ \A d \in Clients : call'[d].pc \in {"affected", "fill"} => call'[d].first \in Births
  BY CallMoves DEF FillModelID, InsertDone
<1>2. sure' \in [Births -> SUBSET Models]
  BY SureType DEF FillModelID, IInv, TypeInv
<1>3. call[c].first \in Births /\ m \in Models
  <2>1. call[c].ms \in Seq(Models) /\ Len(call[c].ms) > 0 /\ call[c].first \in Births
    BY DEF IInv, TypeInv, IdInv, FillModelID
  <2> QED BY <2>1
<1>4. LastInsertId(c) \in 0 .. MaxRows
  BY <1>3, ViewType DEF IInv, LastInsertId, Row
<1>5. model \in [Models -> Held] /\ \A n \in Models : model[n].id <= MaxRows
  BY DEF IInv, TypeInv, IdInv
<1>6. model' \in [Models -> Held] /\ \A n \in Models : model'[n].id <= MaxRows
  <2> DEFINE id == Narrowed(LastInsertId(c))
  <2>1. id \in 0 .. IdRange - 1 /\ id <= MaxRows
    BY <1>4, NarrowedType
  <2>2. model' = model \/ model' = [model EXCEPT ![m].id = id]
    BY DEF FillModelID
  <2> HIDE DEF id
  <2>3. [model[m] EXCEPT !.id = id] \in Held /\ [model[m] EXCEPT !.id = id].id = id
    BY <2>1, <1>3, <1>5
  <2> HIDE DEF Held, m
  <2> QED BY <1>3, <1>5, <2>1, <2>2, <2>3
<1>7. stands' \in [Models -> Births \cup {NoBirth}]
  BY <1>3 DEF IInv, TypeInv, FillModelID
<1>8. UNCHANGED <<kind, database, rows, born, nextId, calls, stmt, tx>>
  BY DEF FillModelID
<1>9. TypeInv'
  BY <1>1, <1>2, <1>6, <1>7, <1>8 DEF IInv, TypeInv, Calls
<1>10. IdInv'
  BY <1>1, <1>6, <1>8 DEF IInv, IdInv
<1> QED BY <1>8, <1>9, <1>10, LocksStay DEF IInv

LEMMA SetModelInv ==
    ASSUME IInv, NEW c \in Clients, NEW m \in Models, SetModel(c, m)
    PROVE  IInv'
<1> DEFINE Held == [id : 0 .. IdRange - 1, v : Values, at : 0 .. MaxNow]
<1>1. calls \in Nat /\ calls' \in 0 .. MaxCalls
  BY CountsType DEF SetModel
<1>2. model \in [Models -> Held]
  BY DEF IInv, TypeInv
<1>3. FilledForUpdate(model[m]) \in Held /\ FilledForUpdate(model[m]).id = model[m].id
  BY <1>1, <1>2, FillType
<1>4. model' \in [Models -> Held] /\ \A n \in Models : model'[n].id = model[n].id
  <2> HIDE DEF Held
  <2> QED BY <1>2, <1>3 DEF SetModel
<1>5. stmt' \in [Clients -> Seq(Models)]
  <2>1. stmt \in [Clients -> Seq(Models)]
    BY DEF IInv, TypeInv
  <2>2. PICK given \in {<<>>, stmt[c]} : stmt' = [stmt EXCEPT ![c] = Append(given, m)]
    BY DEF SetModel
  <2>3. Append(given, m) \in Seq(Models)
    <3>1. <<>> \in Seq(Models) /\ stmt[c] \in Seq(Models)
      BY <2>1
    <3>2. given \in Seq(Models)
      BY <3>1
    <3> QED BY <3>2
  <2> QED BY <2>1, <2>2, <2>3
<1>6. UNCHANGED <<kind, database, rows, born, nextId, call, tx, stands, sure>>
  BY DEF SetModel
<1>7. TypeInv'
  BY <1>1, <1>4, <1>5, <1>6 DEF IInv, TypeInv
<1>8. IdInv'
  BY <1>4, <1>6 DEF IInv, IdInv
<1> QED BY <1>6, <1>7, <1>8, LocksStay DEF IInv

\* A call that writes and does nothing else.
LEMMA WriteInv ==
    ASSUME IInv, NEW c \in Clients,
           NEW touched \in SUBSET Births, NEW table \in [Births -> Row],
           Write(c, touched, table), Counts,
           UNCHANGED <<kind, database, model, born, nextId, call, stmt, stands, sure>>
    PROVE  IInv'
<1>1. /\ rows' \in [Births -> Row] /\ tx' \in [Clients -> Transaction]
      /\ LockInv' /\ LockedRowStands'
  BY WriteKeeps DEF IInv
<1>2. calls' \in 0 .. MaxCalls
  BY CountsType
<1>3. TypeInv'
  BY <1>1, <1>2 DEF IInv, TypeInv, Transaction
<1>4. IdInv'
  BY DEF IInv, IdInv
<1> QED BY <1>1, <1>3, <1>4 DEF IInv

LEMMA ExecUpdateInv ==
    ASSUME IInv, NEW c \in Clients, ExecUpdate(c)
    PROVE  IInv'
<1> DEFINE last == model[stmt[c][Len(stmt[c])]]
           row == [live |-> TRUE, id |-> last.id, v |-> last.v, at |-> last.at]
           table == [b \in Births |-> IF b \in Updated(c) THEN row ELSE View(c)[b]]
<1>1. Updated(c) \in SUBSET Births
  BY DEF Updated
<1>2. row \in Row
  <2>1. stmt[c] \in Seq(Models) /\ stmt[c] # <<>>
    BY DEF IInv, TypeInv, ExecUpdate
  <2>2. stmt[c][Len(stmt[c])] \in Models
    BY <2>1
  <2>3. \A m \in Models : /\ model[m].id \in Nat /\ model[m].id <= MaxRows
                          /\ model[m].v \in Values /\ model[m].at \in 0 .. MaxNow
    BY DEF IInv, TypeInv, IdInv
  <2>4. last.id \in 0 .. MaxRows /\ last.v \in Values /\ last.at \in 0 .. MaxNow
    BY <2>2, <2>3
  <2> QED BY <2>4 DEF Row
<1>3. table \in [Births -> Row]
  <2> HIDE DEF row
  <2> QED BY <1>2, ViewType DEF IInv
<1>4. Write(c, Updated(c), table)
  BY DEF ExecUpdate
<1> HIDE DEF table
<1> QED BY <1>1, <1>3, <1>4, WriteInv DEF ExecUpdate

LEMMA UpdateMapInv ==
    ASSUME IInv, NEW c \in Clients, NEW id \in 1 .. MaxRows, NEW v \in Values,
           UpdateMap(c, id, v)
    PROVE  IInv'
<1> DEFINE table == [b \in Births |-> IF b \in WithId(c, id) THEN [View(c)[b] EXCEPT !.v = v]
                                      ELSE View(c)[b]]
<1>1. WithId(c, id) \in SUBSET Births
  BY DEF WithId
<1>2. table \in [Births -> Row]
  <2>1. \A row \in Row : [row EXCEPT !.v = v] \in Row
    BY DEF Row
  <2>2. View(c) \in [Births -> Row]
    BY ViewType DEF IInv
  <2> QED BY <2>1, <2>2
<1>3. Write(c, WithId(c, id), table)
  BY DEF UpdateMap
<1> HIDE DEF table
<1> QED BY <1>1, <1>2, <1>3, WriteInv DEF UpdateMap

LEMMA DeleteInv ==
    ASSUME IInv, NEW c \in Clients, NEW id \in 1 .. MaxRows, Delete(c, id)
    PROVE  IInv'
<1> DEFINE table == [b \in Births |->
                       IF b \in WithId(c, id) THEN [View(c)[b] EXCEPT !.live = FALSE]
                       ELSE View(c)[b]]
<1>1. WithId(c, id) \in SUBSET Births
  BY DEF WithId
<1>2. table \in [Births -> Row]
  <2>1. \A row \in Row : [row EXCEPT !.live = FALSE] \in Row
    BY DEF Row
  <2>2. View(c) \in [Births -> Row]
    BY ViewType DEF IInv
  <2> QED BY <2>1, <2>2
<1>3. Write(c, WithId(c, id), table)
  BY DEF Delete
<1> HIDE DEF table
<1> QED BY <1>1, <1>2, <1>3, WriteInv DEF Delete

\* A row read into a variable.
LEMMA LoadType ==
    ASSUME IInv, NEW m \in Models, NEW b \in Births, NEW row \in Row, Load(m, b, row)
    PROVE  /\ model' \in [Models -> [id : 0 .. IdRange - 1, v : Values, at : 0 .. MaxNow]]
           /\ \A n \in Models : model'[n].id <= MaxRows
           /\ stands' \in [Models -> Births \cup {NoBirth}]
           /\ sure' \in [Births -> SUBSET Models]
           /\ stmt' \in [Clients -> Seq(Models)]
<1> DEFINE Held == [id : 0 .. IdRange - 1, v : Values, at : 0 .. MaxNow]
           new == [id |-> row.id, v |-> row.v, at |-> row.at]
<1>1. model \in [Models -> Held] /\ \A n \in Models : model[n].id <= MaxRows
  BY DEF IInv, TypeInv, IdInv
<1>2. new \in Held /\ new.id <= MaxRows
  BY DEF Load, Row
<1>3. model' = [model EXCEPT ![m] = new]
  BY DEF Load
<1>4. model' \in [Models -> Held] /\ \A n \in Models : model'[n].id <= MaxRows
  <2> HIDE DEF Held, new
  <2> QED BY <1>1, <1>2, <1>3
<1>5. stands' \in [Models -> Births \cup {NoBirth}] /\ sure' \in [Births -> SUBSET Models]
  BY DEF IInv, TypeInv, Load
<1>6. stmt' \in [Clients -> Seq(Models)]
  <2>1. stmt \in [Clients -> Seq(Models)] /\ <<>> \in Seq(Models) /\ Owner[m] \in Clients
    BY DEF IInv, TypeInv
  <2> QED BY <2>1 DEF Load
<1> QED BY <1>4, <1>5, <1>6

LEMMA GetInv ==
    ASSUME IInv, NEW c \in Clients, NEW m \in Models, NEW id \in 1 .. MaxRows, Get(c, m, id)
    PROVE  IInv'
<1>1. PICK b \in WithId(c, id) : Load(m, b, View(c)[b])
  BY DEF Get
<1>2. b \in Births /\ View(c)[b] \in Row
  BY ViewType DEF WithId, IInv
<1>3. calls' \in 0 .. MaxCalls /\ UNCHANGED <<kind, database, rows, born, nextId, call, tx>>
  BY CountsType DEF Get
<1>4. TypeInv' /\ IdInv'
  BY <1>1, <1>2, <1>3, LoadType DEF IInv, TypeInv, IdInv
<1> QED BY <1>3, <1>4, LocksStay DEF IInv

LEMMA LockActionInv ==
    ASSUME IInv, NEW c \in Clients, NEW m \in Models, NEW id \in 1 .. MaxRows, Lock(c, m, id)
    PROVE  IInv'
<1>1. PICK b \in WithId(c, id) :
        /\ Free(c, {b}) /\ Load(m, b, View(c)[b])
        /\ tx' = IF tx[c].open THEN Reads(ForUpdate(c, b), c, b) ELSE tx
  BY DEF Lock
<1>2. b \in Births /\ View(c)[b] \in Row
  BY ViewType DEF WithId, IInv
<1>3. calls' \in 0 .. MaxCalls /\ UNCHANGED <<kind, database, rows, born, nextId, call>>
  BY CountsType DEF Lock
<1>4. IdInv'
  BY <1>1, <1>2, <1>3, LoadType DEF IInv, IdInv
<1>5. /\ tx' \in [Clients -> Transaction]
      /\ LockInv' /\ LockedRowStands'
  <2>1. CASE ~tx[c].open
    BY <1>1, <1>3, <2>1, LocksStay DEF IInv, TypeInv, Transaction
  <2>2. CASE tx[c].open
    <3> DEFINE read == [birth |-> b, row |-> rows[b]]
    <3>1. tx \in [Clients -> Transaction] /\ tx[c] \in Transaction
      BY DEF IInv, TypeInv, Transaction
    <3>2. read \in Seen /\ read.birth = b /\ read.row = rows[b]
      BY <1>2 DEF IInv, TypeInv, Seen
    <3> HIDE DEF read
    <3>3. /\ tx' \in [Clients -> Transaction]
          /\ \A d \in Clients \ {c} : tx'[d] = tx[d]
          /\ tx'[c].open /\ tx'[c].pend = tx[c].pend /\ tx'[c].held = tx[c].held \cup {b}
          /\ tx'[c].seen \subseteq tx[c].seen \cup {read}
      <4> DEFINE locked == [tx[c] EXCEPT !.held = @ \cup {b}]
      <4>1. locked \in Transaction /\ locked.seen = tx[c].seen
        BY <1>2, <3>1 DEF Transaction
      <4>2. CASE \E s \in tx[c].seen : s.birth = b
        <5>1. tx' = [tx EXCEPT ![c] = locked]
          BY <1>1, <2>2, <3>1, <4>2 DEF Reads, ForUpdate, Transaction
        <5> QED BY <5>1, <4>1, <3>1, <2>2 DEF Transaction
      <4>3. CASE ~\E s \in tx[c].seen : s.birth = b
        <5> DEFINE known == [locked EXCEPT !.seen = @ \cup {read}]
        <5>1. known \in Transaction
          BY <4>1, <3>2 DEF Transaction
        <5>2. tx' = [tx EXCEPT ![c] = known]
          BY <1>1, <2>2, <3>1, <4>3 DEF Reads, ForUpdate, Transaction, read
        <5> QED BY <5>1, <5>2, <4>1, <3>1, <2>2 DEF Transaction
      <4> QED BY <4>2, <4>3
    <3>4. \A a, d \in Clients : a # d => tx'[a].held \cap tx'[d].held = {}
      BY <1>1, <3>3 DEF Free, IInv, LockInv
    <3>5. ASSUME NEW d \in Clients
          PROVE  /\ Pending(d)' \subseteq tx'[d].held
                 /\ \A s \in tx'[d].seen : s.birth \in tx'[d].held
                 /\ ~tx'[d].open => tx'[d] = NoTx
      <4>1. CASE d = c
        BY <4>1, <3>2, <3>3 DEF IInv, LockInv, Pending
      <4>2. CASE d # c
        BY <4>2, <3>3 DEF IInv, LockInv, Pending
      <4> QED BY <4>1, <4>2
    <3>6. LockInv'
      BY <3>4, <3>5 DEF LockInv
    <3>7. ASSUME NEW d \in Clients, NEW s \in tx'[d].seen
          PROVE  rows'[s.birth] = s.row
      BY <1>3, <3>2, <3>3 DEF IInv, LockedRowStands
    <3>8. LockedRowStands'
      BY <3>7 DEF LockedRowStands
    <3> QED BY <3>3, <3>6, <3>8
  <2> QED BY <2>1, <2>2
<1>6. TypeInv'
  BY <1>1, <1>2, <1>3, <1>5, LoadType DEF IInv, TypeInv, Transaction
<1> QED BY <1>4, <1>5, <1>6 DEF IInv

LEMMA BeginInv ==
    ASSUME IInv, NEW c \in Clients, Begin(c)
    PROVE  IInv'
<1> DEFINE opened == [tx[c] EXCEPT !.open = TRUE]
<1>1. tx \in [Clients -> Transaction] /\ tx[c] \in Transaction
  BY DEF IInv, TypeInv, Transaction
<1>2. opened \in Transaction /\ opened.open /\ opened.held = tx[c].held
      /\ opened.seen = tx[c].seen /\ opened.pend = tx[c].pend
  BY <1>1 DEF Transaction
<1>3. tx' = [tx EXCEPT ![c] = opened]
  BY DEF Begin
<1> HIDE DEF opened
<1>4. tx' \in [Clients -> Transaction]
  BY <1>1, <1>2, <1>3
<1>5. \A d \in Clients : /\ tx'[d].held = tx[d].held /\ tx'[d].seen = tx[d].seen
                         /\ tx'[d].pend = tx[d].pend
                         /\ ~tx'[d].open => tx'[d] = tx[d]
  BY <1>1, <1>2, <1>3
<1>6. UNCHANGED <<kind, database, model, rows, born, nextId, call, stmt, stands, sure>>
      /\ calls' \in 0 .. MaxCalls
  BY CountsType DEF Begin
<1>7. LockInv' /\ LockedRowStands'
  BY <1>5, <1>6 DEF IInv, LockInv, LockedRowStands, Pending
<1>8. TypeInv'
  BY <1>4, <1>6 DEF IInv, TypeInv, Transaction
<1>9. IdInv'
  BY <1>6 DEF IInv, IdInv
<1> QED BY <1>7, <1>8, <1>9 DEF IInv

\* The end of a transaction: what it held is free.
LEMMA EndKeeps ==
    ASSUME IInv, NEW c \in Clients, tx' = [tx EXCEPT ![c] = NoTx],
           \A b \in Births : b \notin tx[c].held => rows'[b] = rows[b]
    PROVE  tx' \in [Clients -> Transaction] /\ LockInv' /\ LockedRowStands'
<1>1. tx \in [Clients -> Transaction]
  BY DEF IInv, TypeInv, Transaction
<1>2. tx' \in [Clients -> Transaction]
  BY <1>1 DEF Transaction, NoTx
<1>3. tx'[c] = NoTx /\ \A d \in Clients \ {c} : tx'[d] = tx[d]
  BY <1>1
<1>4. LockInv'
  BY <1>3 DEF IInv, LockInv, Pending, NoTx
<1>5. ASSUME NEW d \in Clients, NEW s \in tx'[d].seen
      PROVE  rows'[s.birth] = s.row
  <2>1. d # c /\ s \in tx[d].seen
    BY <1>3, <1>5 DEF NoTx
  <2>2. s.birth \in tx[d].held /\ s.birth \in Births /\ rows[s.birth] = s.row
    BY <2>1 DEF IInv, LockInv, LockedRowStands, TypeInv, Seen
  <2>3. s.birth \notin tx[c].held
    BY <2>1, <2>2 DEF IInv, LockInv
  <2> QED BY <2>2, <2>3
<1>6. LockedRowStands'
  BY <1>5 DEF LockedRowStands
<1> QED BY <1>2, <1>4, <1>6

LEMMA CommitInv ==
    ASSUME IInv, NEW c \in Clients, Commit(c)
    PROVE  IInv'
<1>1. rows' = View(c) /\ tx' = [tx EXCEPT ![c] = NoTx]
      /\ UNCHANGED <<kind, database, model, born, nextId, calls, call, stmt, stands, sure>>
  BY DEF Commit
<1>2. View(c) \in [Births -> Row]
  BY ViewType DEF IInv
<1>3. \A b \in Births : b \notin tx[c].held => View(c)[b] = rows[b]
  BY DEF IInv, LockInv, View, Over
<1>4. tx' \in [Clients -> Transaction] /\ LockInv' /\ LockedRowStands'
  BY <1>1, <1>3, EndKeeps
<1>5. TypeInv'
  BY <1>1, <1>2, <1>4 DEF IInv, TypeInv, Transaction
<1>6. IdInv'
  BY <1>1 DEF IInv, IdInv
<1> QED BY <1>4, <1>5, <1>6 DEF IInv

LEMMA RollbackInv ==
    ASSUME IInv, NEW c \in Clients, Rollback(c)
    PROVE  IInv'
<1>1. /\ tx' = [tx EXCEPT ![c] = NoTx]
      /\ UNCHANGED <<kind, database, model, rows, born, nextId, calls, call, stmt, stands, sure>>
  BY DEF Rollback
<1>2. tx' \in [Clients -> Transaction] /\ LockInv' /\ LockedRowStands'
  BY <1>1, EndKeeps
<1>3. TypeInv'
  BY <1>1, <1>2 DEF IInv, TypeInv, Transaction
<1>4. IdInv'
  BY <1>1 DEF IInv, IdInv
<1> QED BY <1>2, <1>3, <1>4 DEF IInv

LEMMA NextInv ==
    ASSUME IInv, [Next]_vars
    PROVE  IInv'
<1>1. ASSUME NEW m \in Models, Change(m)
      PROVE  IInv'
  BY <1>1, ChangeInv
<1>2. ASSUME NEW c \in Clients, NEW m \in Models, Insert(c, m)
      PROVE  IInv'
  <2>1. <<m>> \in Seq(Models) /\ Len(<<m>>) > 0
    OBVIOUS
  <2> QED BY <1>2, <2>1, StartInsertInv DEF Insert
<1>3. ASSUME NEW c \in Clients, NEW m \in Models, NEW n \in Models, InsertAll(c, m, n)
      PROVE  IInv'
  <2>1. <<m, n>> \in Seq(Models) /\ Len(<<m, n>>) > 0
    OBVIOUS
  <2> QED BY <1>3, <2>1, StartInsertInv DEF InsertAll
<1>4. ASSUME NEW c \in Clients,
             \/ ExecInsert(c) \/ ExecInsertFails(c) \/ RowsAffected(c) \/ FillModelID(c)
             \/ ExecUpdate(c) \/ Begin(c) \/ Commit(c) \/ Rollback(c)
      PROVE  IInv'
  BY <1>4, ExecInsertInv, ExecInsertFailsInv, RowsAffectedInv, FillModelIDInv, ExecUpdateInv,
     BeginInv, CommitInv, RollbackInv
<1>5. ASSUME NEW c \in Clients, NEW id \in 1 .. MaxRows,
             \/ Delete(c, id)
             \/ \E v \in Values : UpdateMap(c, id, v)
             \/ \E m \in Models : Get(c, m, id) \/ Lock(c, m, id)
      PROVE  IInv'
  BY <1>5, DeleteInv, UpdateMapInv, GetInv, LockActionInv
<1>6. ASSUME NEW c \in Clients, NEW m \in Models, SetModel(c, m)
      PROVE  IInv'
  BY <1>6, SetModelInv
<1>7. CASE UNCHANGED vars
  BY <1>7, LocksStay DEF vars, IInv, TypeInv, IdInv
<1> QED BY <1>1, <1>2, <1>3, <1>4, <1>5, <1>6, <1>7 DEF Next

-----------------------------------------------------------------------------
\* Every state has its types: the ids stored and held included, which the
\* database counts and fillModelID narrows.
THEOREM ModelWriteTypes == Spec => []TypeInv
<1>1. IInv /\ [Next]_vars => IInv'
  BY NextInv
<1>2. IInv => TypeInv
  BY DEF IInv
<1> QED BY InitInv, <1>1, <1>2, PTL DEF Spec

\* A row answered by a read with the suffix FOR UPDATE in a transaction stays,
\* as others see it, the row that was answered until the transaction ends.
THEOREM LockedRowsStand == Spec => []LockedRowStands
<1>1. IInv /\ [Next]_vars => IInv'
  BY NextInv
<1>2. IInv => LockedRowStands
  BY DEF IInv
<1> QED BY InitInv, <1>1, <1>2, PTL DEF Spec

-----------------------------------------------------------------------------
(* Models and their keys *)

\* A row that is live and whose id fits the key's type has the id of m.
NamedBy(m, row) == row.live /\ row.id < IdRange => model[m].id = row.id

\* Rows are born in order, and nobody writes one that is not.
BirthInv ==
    /\ \A m \in Models : stands[m] <= born
    /\ \A b \in Births : born < b => ~rows[b].live
    /\ \A c \in Clients : \A s \in tx[c].pend : s.birth <= born
    /\ \A c \in Clients : call[c].pc \in {"affected", "fill"} => call[c].first <= born

\* What is pending replaces a row by one of the same id; the row an Insert
\* has stored and not yet told its model is replaced by none of another id.
PendInv ==
    /\ \A c \in Clients : \A s, t \in tx[c].pend : s.birth = t.birth => s = t
    /\ \A c \in Clients : \A s \in tx[c].pend :
         rows[s.birth].live => s.row.id = rows[s.birth].id
    /\ \A c, d \in Clients : \A s \in tx[d].pend :
         call[c].pc \in {"affected", "fill"} /\ s.birth = call[c].first
         /\ call[c].first \notin Pending(c)
         => s.row.id = rows[s.birth].id

NameInv ==
    /\ \A m \in Models : stands[m] # NoBirth => NamedBy(m, rows[stands[m]])
    /\ \A m \in Models, c \in Clients : \A s \in tx[c].pend :
         s.birth = stands[m] => NamedBy(m, s.row)

KInv == IInv /\ (Keys # {} => BirthInv /\ PendInv /\ NameInv)

\* Each descriptor with a primary key has the id in it.
LEMMA IdIsKey == ASSUME TypeInv, Keys # {} PROVE "id" \in Keys
<1>1. kind \in DOMAIN Flags
  <2>1. <<kind, database>> \in (DOMAIN Flags) \X {"mysql", "postgres", "sqlite"}
    BY DEF TypeInv
  <2> QED BY <2>1
<1>2. kind \in {"auto", "manual", "composite", "none"}
  BY <1>1 DEF Flags
<1>3. kind # "none"
  <2>1. kind = "none" => \A f \in Fields : "primary_key" \notin Flags[kind][f]
    BY DEF Flags, Fields
  <2> QED BY <2>1 DEF Keys, FlagFields
<1>4. "primary_key" \in Flags[kind]["id"]
  BY <1>2, <1>3 DEF Flags
<1> QED BY <1>4 DEF Keys, FlagFields, Fields

\* A client sees its own write of a row, or the row committed.
LEMMA ViewCases ==
    ASSUME TypeInv, NEW c \in Clients, NEW b \in Births
    PROVE  \/ b \notin Pending(c) /\ View(c)[b] = rows[b]
           \/ /\ b \in Pending(c)
              /\ \E s \in tx[c].pend : s.birth = b /\ View(c)[b] = s.row
<1>1. CASE b \notin Pending(c)
  BY <1>1 DEF View, Over
<1>2. CASE b \in Pending(c)
  <2>1. \E s \in tx[c].pend : s.birth = b
    BY <1>2 DEF Pending
  <2>2. PICK s : s = CHOOSE t \in tx[c].pend : t.birth = b
    OBVIOUS
  <2>3. s \in tx[c].pend /\ s.birth = b
    BY <2>1, <2>2
  <2>4. View(c)[b] = s.row
    BY <1>2, <2>2 DEF View, Over
  <2> QED BY <1>2, <2>3, <2>4
<1> QED BY <1>1, <1>2

\* The types of what the invariants compare.
LEMMA NameTypes ==
    ASSUME TypeInv
    PROVE  /\ born \in Nat
           /\ \A m \in Models : stands[m] \in 0 .. MaxRows
           /\ \A b \in Births : rows[b] \in Row /\ rows[b].id \in Nat
           /\ \A c \in Clients : \A s \in tx[c].pend :
                s.birth \in Births /\ s.row \in Row /\ s.row.id \in Nat
           /\ \A m \in Models : model[m].id \in Nat
<1>1. \A c \in Clients : tx[c].pend \subseteq Seen
  BY DEF TypeInv
<1>2. \A row \in Row : row.id \in Nat
  BY DEF Row
<1>3. \A m \in Models : stands[m] \in 0 .. MaxRows
  BY DEF TypeInv, Births, NoBirth
<1>4. \A s \in Seen : s.birth \in Births /\ s.row \in Row
  BY DEF Seen
<1> QED BY <1>1, <1>2, <1>3, <1>4 DEF TypeInv

\* What is seen of a row bears the id of the row committed.
LEMMA ViewNamed ==
    ASSUME TypeInv, LockInv, BirthInv, PendInv, NEW c \in Clients, NEW b \in Births
    PROVE  /\ rows[b].live => View(c)[b].id = rows[b].id
           /\ View(c)[b].live => b <= born
           /\ \A d \in Clients : \A s \in tx[d].pend :
                s.birth = b /\ (View(c)[b].live \/ b \in Pending(c)) => s.row.id = View(c)[b].id
           /\ \A m \in Models : NameInv /\ stands[m] = b => NamedBy(m, View(c)[b])
<1>1. CASE b \notin Pending(c) /\ View(c)[b] = rows[b]
  <2>1. View(c)[b].live => b <= born
    BY <1>1, NameTypes DEF BirthInv, Births
  <2>2. \A m \in Models : NameInv /\ stands[m] = b => NamedBy(m, View(c)[b])
    BY <1>1 DEF NameInv, Births, NoBirth
  <2>3. ASSUME NEW d \in Clients, NEW s \in tx[d].pend, s.birth = b, View(c)[b].live
        PROVE  s.row.id = View(c)[b].id
    BY <1>1, <2>3 DEF PendInv
  <2> QED BY <1>1, <2>1, <2>2, <2>3
<1>2. CASE b \in Pending(c) /\ \E s \in tx[c].pend : s.birth = b /\ View(c)[b] = s.row
  <2>1. PICK s \in tx[c].pend : s.birth = b /\ View(c)[b] = s.row
    BY <1>2
  <2>2. \A d \in Clients : \A t \in tx[d].pend : t.birth = b => d = c /\ t = s
    <3>1. ASSUME NEW d \in Clients, NEW t \in tx[d].pend, t.birth = b
          PROVE  d = c /\ t = s
      <4>1. b \in tx[c].held /\ b \in tx[d].held
        BY <1>2, <3>1 DEF LockInv, Pending
      <4>2. d = c
        BY <4>1 DEF LockInv
      <4> QED BY <4>2, <3>1, <2>1 DEF PendInv
    <3> QED BY <3>1
  <2>3. b <= born /\ (rows[b].live => View(c)[b].id = rows[b].id)
    BY <2>1 DEF BirthInv, PendInv
  <2>4. \A m \in Models : NameInv /\ stands[m] = b => NamedBy(m, View(c)[b])
    BY <2>1 DEF NameInv
  <2> QED BY <2>1, <2>2, <2>3, <2>4
<1> QED BY <1>1, <1>2, ViewCases

-----------------------------------------------------------------------------
(* Writes *)

\* A write to rows that are seen live, which leaves their ids.
LEMMA WriteNames ==
    ASSUME IInv, BirthInv, PendInv, NameInv, NEW c \in Clients,
           NEW touched \in SUBSET Births, NEW table \in [Births -> Row],
           \A b \in touched : View(c)[b].live /\ table[b].id = View(c)[b].id,
           Write(c, touched, table),
           UNCHANGED <<model, born, call, stands>>
    PROVE  BirthInv' /\ PendInv' /\ NameInv'
<1>1. TypeInv /\ LockInv /\ Free(c, touched)
  BY DEF IInv, Write
<1>2. \A b \in touched : b <= born
  BY <1>1, ViewNamed
<1>3. ASSUME NEW m \in Models, NEW row, stands[m] \in touched, row.id = table[stands[m]].id
      PROVE  NamedBy(m, row)'
  BY <1>1, <1>3, ViewNamed DEF NamedBy
<1>4. CASE tx[c].open
  <2> DEFINE new == {[birth |-> b, row |-> table[b]] : b \in touched}
  <2>1. rows' = rows
    BY <1>4 DEF Write
  <2>2. /\ tx'[c].pend = {s \in tx[c].pend : s.birth \notin touched} \cup new
        /\ \A d \in Clients \ {c} : tx'[d].pend = tx[d].pend
    <3>1. tx \in [Clients -> Transaction]
      BY <1>1 DEF TypeInv, Transaction
    <3>2. tx' = [tx EXCEPT ![c].held = @ \cup touched,
                           ![c].pend = {s \in @ : s.birth \notin touched} \cup new]
      BY <1>4 DEF Write
    <3> QED BY <3>1, <3>2 DEF Transaction
  <2>3. ASSUME NEW d \in Clients, NEW s \in tx'[d].pend
        PROVE  \/ s \in tx[d].pend /\ (d = c => s.birth \notin touched)
               \/ d = c /\ s.birth \in touched /\ s.row = table[s.birth] /\ s \in new
    BY <2>2
  <2>4. \A d \in Clients : \A b \in Pending(d) : b \in Pending(d)'
    <3>1. ASSUME NEW d \in Clients, NEW s \in tx[d].pend
          PROVE  s.birth \in Pending(d)'
      <4>1. CASE d = c /\ s.birth \in touched
        <5>1. [birth |-> s.birth, row |-> table[s.birth]] \in tx'[c].pend
          BY <2>2, <4>1
        <5> QED BY <5>1, <4>1 DEF Pending
      <4>2. CASE ~(d = c /\ s.birth \in touched)
        BY <2>2, <4>2 DEF Pending
      <4> QED BY <4>1, <4>2
    <3> QED BY <3>1 DEF Pending
  <2>5. BirthInv'
    <3>1. ASSUME NEW d \in Clients, NEW s \in tx'[d].pend
          PROVE  s.birth <= born
      BY <2>3, <1>2 DEF BirthInv
    <3> QED BY <2>1, <3>1 DEF BirthInv
  <2>6. ASSUME NEW d \in Clients, NEW s \in tx'[d].pend, NEW t \in tx'[d].pend,
               s.birth = t.birth
        PROVE  s = t
    <3>1. CASE s \in tx[d].pend /\ t \in tx[d].pend
      BY <3>1, <2>6 DEF PendInv
    <3>2. CASE s \in new /\ t \in new
      BY <3>2, <2>6
    <3> QED BY <2>3, <2>6, <3>1, <3>2
  <2> HIDE DEF new
  <2>7. ASSUME NEW d \in Clients, NEW s \in tx'[d].pend, rows[s.birth].live
        PROVE  s.row.id = rows[s.birth].id
    <3>1. CASE s \in tx[d].pend
      BY <3>1, <2>7 DEF PendInv
    <3>2. CASE s.birth \in touched /\ s.row = table[s.birth]
      BY <3>2, <2>7, <1>1, ViewNamed
    <3> QED BY <2>3, <3>1, <3>2
  <2>8. ASSUME NEW a \in Clients, NEW d \in Clients, NEW s \in tx'[d].pend,
               call[a].pc \in {"affected", "fill"}, s.birth = call[a].first,
               call[a].first \notin Pending(a)'
        PROVE  s.row.id = rows[s.birth].id
    <3>1. call[a].first \notin Pending(a)
      BY <2>4, <2>8
    <3>2. CASE s \in tx[d].pend
      BY <3>1, <3>2, <2>8 DEF PendInv
    <3>3. CASE d = c /\ s.birth \in touched /\ s.row = table[s.birth]
      <4>1. s.row.id = View(c)[s.birth].id
        BY <3>3
      <4>2. CASE s.birth \notin Pending(c) /\ View(c)[s.birth] = rows[s.birth]
        BY <4>1, <4>2
      <4>3. CASE \E t \in tx[c].pend : t.birth = s.birth /\ View(c)[s.birth] = t.row
        BY <3>1, <4>1, <4>3, <2>8 DEF PendInv
      <4> QED BY <1>1, <3>3, <4>2, <4>3, ViewCases
    <3> QED BY <2>3, <3>2, <3>3
  <2>9. PendInv'
    BY <2>1, <2>6, <2>7, <2>8 DEF PendInv
  <2>10. ASSUME NEW m \in Models, NEW d \in Clients, NEW s \in tx'[d].pend, s.birth = stands[m]
         PROVE  NamedBy(m, s.row)'
    <3>1. CASE s \in tx[d].pend
      BY <3>1, <2>10 DEF NameInv, NamedBy
    <3>2. CASE s.birth \in touched /\ s.row = table[s.birth]
      BY <3>2, <2>10, <1>3
    <3> QED BY <2>3, <3>1, <3>2
  <2>11. NameInv'
    BY <2>1, <2>10 DEF NameInv, NamedBy
  <2> QED BY <2>5, <2>9, <2>11
<1>5. CASE ~tx[c].open
  <2>1. /\ rows' = [b \in Births |-> IF b \in touched THEN table[b] ELSE rows[b]]
        /\ tx' = tx
    BY <1>5 DEF Write
  <2>2. Pending(c) = {}
    BY <1>1, <1>5 DEF LockInv, NoTx, Pending
  <2>3. \A b \in touched : View(c)[b] = rows[b]
    BY <1>1, <2>2, ViewCases
  <2>4. \A b \in Births : rows'[b].id = rows[b].id /\ (rows'[b].live => rows[b].live)
    BY <2>1, <2>3
  <2>5. BirthInv'
    BY <2>1, <2>4 DEF BirthInv
  <2>6. \A d \in Clients : \A s \in tx[d].pend : s.birth \in Births
    BY <1>1, NameTypes
  <2>7. PendInv'
    BY <2>1, <2>4, <2>6 DEF PendInv, Pending
  <2>8. \A m \in Models : stands[m] # NoBirth => stands[m] \in Births
    BY <1>1 DEF TypeInv
  <2>9. NameInv'
    BY <2>1, <2>4, <2>8 DEF NameInv, NamedBy
  <2> QED BY <2>5, <2>7, <2>9
<1> QED BY <1>4, <1>5

LEMMA ExecUpdateNames ==
    ASSUME IInv, BirthInv, PendInv, NameInv, Keys # {}, NEW c \in Clients, ExecUpdate(c)
    PROVE  BirthInv' /\ PendInv' /\ NameInv'
<1> DEFINE last == model[stmt[c][Len(stmt[c])]]
           row == [live |-> TRUE, id |-> last.id, v |-> last.v, at |-> last.at]
           table == [b \in Births |-> IF b \in Updated(c) THEN row ELSE View(c)[b]]
<1>1. TypeInv /\ View(c) \in [Births -> Row]
  BY ViewType DEF IInv
<1>2. stmt[c] \in Seq(Models) /\ stmt[c] # <<>>
  BY <1>1 DEF TypeInv, ExecUpdate
<1>3. Len(stmt[c]) \in DOMAIN stmt[c] /\ stmt[c][Len(stmt[c])] \in Models
  BY <1>2
<1>4. row \in Row
  BY <1>1, <1>3 DEF TypeInv, Row, IInv, IdInv
<1>5. ASSUME NEW b \in Updated(c)
      PROVE  View(c)[b].live /\ row.id = View(c)[b].id
  <2>1. View(c)[b].live /\ Meets(c, View(c)[b])
    BY DEF Updated
  <2>2. View(c)[b]["id"] = last["id"]
    BY <1>1, <1>3, <2>1, IdIsKey DEF Meets
  <2> QED BY <2>1, <2>2
<1>6. Updated(c) \in SUBSET Births
  BY DEF Updated
<1> HIDE DEF row
<1>7. table \in [Births -> Row]
      /\ \A b \in Updated(c) : View(c)[b].live /\ table[b].id = View(c)[b].id
  BY <1>1, <1>4, <1>5, <1>6
<1>8. Write(c, Updated(c), table) /\ UNCHANGED <<model, born, call, stands>>
  BY DEF ExecUpdate, row
<1> HIDE DEF table
<1> QED BY <1>6, <1>7, <1>8, WriteNames

LEMMA UpdateMapNames ==
    ASSUME IInv, BirthInv, PendInv, NameInv, NEW c \in Clients, NEW id \in 1 .. MaxRows,
           NEW v \in Values, UpdateMap(c, id, v)
    PROVE  BirthInv' /\ PendInv' /\ NameInv'
<1> DEFINE table == [b \in Births |-> IF b \in WithId(c, id) THEN [View(c)[b] EXCEPT !.v = v]
                                      ELSE View(c)[b]]
<1>1. WithId(c, id) \in SUBSET Births /\ \A b \in WithId(c, id) : View(c)[b].live
  BY DEF WithId
<1>2. View(c) \in [Births -> Row]
  BY ViewType DEF IInv
<1>3. table \in [Births -> Row] /\ \A b \in WithId(c, id) : table[b].id = View(c)[b].id
  BY <1>1, <1>2 DEF Row
<1>4. Write(c, WithId(c, id), table) /\ UNCHANGED <<model, born, call, stands>>
  BY DEF UpdateMap
<1> HIDE DEF table
<1> QED BY <1>1, <1>3, <1>4, WriteNames

LEMMA DeleteNames ==
    ASSUME IInv, BirthInv, PendInv, NameInv, NEW c \in Clients, NEW id \in 1 .. MaxRows,
           Delete(c, id)
    PROVE  BirthInv' /\ PendInv' /\ NameInv'
<1> DEFINE table == [b \in Births |->
                       IF b \in WithId(c, id) THEN [View(c)[b] EXCEPT !.live = FALSE]
                       ELSE View(c)[b]]
<1>1. WithId(c, id) \in SUBSET Births /\ \A b \in WithId(c, id) : View(c)[b].live
  BY DEF WithId
<1>2. View(c) \in [Births -> Row]
  BY ViewType DEF IInv
<1>3. table \in [Births -> Row] /\ \A b \in WithId(c, id) : table[b].id = View(c)[b].id
  BY <1>1, <1>2 DEF Row
<1>4. Write(c, WithId(c, id), table) /\ UNCHANGED <<model, born, call, stands>>
  BY DEF Delete
<1> HIDE DEF table
<1> QED BY <1>1, <1>3, <1>4, WriteNames

\* The rows of an Insert are new: no model and no transaction knows them.
LEMMA ExecInsertNames ==
    ASSUME IInv, BirthInv, PendInv, NameInv, NEW c \in Clients, ExecInsert(c)
    PROVE  BirthInv' /\ PendInv' /\ NameInv'
<1> DEFINE ms == call[c].ms
           new == born + 1 .. born + Len(ms)
           table == [b \in Births |-> IF b \in new THEN NewRow(ms, b - born) ELSE View(c)[b]]
           fresh == {[birth |-> b, row |-> table[b]] : b \in new}
<1>1. TypeInv /\ LockInv /\ ms \in Seq(Models) /\ Len(ms) \in Nat \ {0}
      /\ DOMAIN ms = 1 .. Len(ms) /\ born \in Nat
  <2>1. ms \in Seq(Models) /\ Len(ms) > 0
    BY DEF IInv, TypeInv, IdInv, ExecInsert
  <2>2. TypeInv /\ LockInv /\ born \in Nat
    BY DEF IInv, TypeInv
  <2> QED BY <2>1, <2>2
<1>2. /\ born + Len(ms) <= MaxRows /\ born' = born + Len(ms)
      /\ Write(c, new, table) /\ model' = model
  BY DEF ExecInsert
<1>3. new \subseteq Births /\ \A b \in new : born < b /\ b <= born'
  BY <1>1, <1>2 DEF Births
<1>4. \A m \in Models : \/ stands'[m] = stands[m]
                        \/ /\ stands'[m] \in new
                           /\ table[stands'[m]].id = model[m].id
  <2>1. ASSUME NEW m \in Models, NEW i \in DOMAIN ms, ms[i] = m, model[m].id # 0
        PROVE  LET j == CHOOSE h \in DOMAIN ms : ms[h] = m
               IN  born + j \in new /\ table[born + j].id = model[m].id
    <3> DEFINE j == CHOOSE h \in DOMAIN ms : ms[h] = m
    <3>1. j \in DOMAIN ms /\ ms[j] = m
      BY <2>1
    <3> HIDE DEF j
    <3>2. born + j \in new /\ (born + j) - born = j
      BY <1>1, <3>1
    <3>3. born + j \in Births
      BY <1>3, <3>2
    <3>4. NewRow(ms, j).id = model[m].id
      BY <3>1, <2>1 DEF NewRow, StoredId
    <3> HIDE DEF new
    <3> QED BY <3>2, <3>3, <3>4 DEF j
  <2>2. stands' = [m \in Models |->
                     IF \E i \in DOMAIN ms : ms[i] = m /\ model[m].id # 0
                     THEN born + CHOOSE i \in DOMAIN ms : ms[i] = m
                     ELSE stands[m]]
    BY DEF ExecInsert
  <2> HIDE DEF ms, new, table
  <2> QED BY <2>1, <2>2
<1>5. \A d \in Clients : call'[d].pc \in {"affected", "fill"} =>
        \/ d = c /\ call'[d].first = born + 1
        \/ d # c /\ call'[d] = call[d]
  <2>1. call \in [Clients -> Calls]
    BY <1>1 DEF TypeInv, Calls
  <2>2. \/ call' = [call EXCEPT ![c].pc = "affected", ![c].first = born + 1]
        \/ call' = [call EXCEPT ![c] = NoCall]
    BY DEF ExecInsert
  <2> QED BY <2>1, <2>2 DEF Calls, NoCall
<1>6. born + 1 \in new
  BY <1>1
<1>7. \A d \in Clients : \A s \in tx[d].pend : s.birth \notin new /\ s.birth \in Births
  BY <1>1, <1>3, NameTypes DEF BirthInv
<1>8. \A m \in Models : stands[m] \notin new /\ stands[m] \in Nat /\ stands[m] <= born
  BY <1>1, <1>3, NameTypes DEF BirthInv
<1>9. \A b \in new : ~rows[b].live
  BY <1>3 DEF BirthInv
<1> HIDE DEF ms, new, table
\* In a transaction the rows are pending, without one they are committed.
<1>10. \/ /\ rows' = rows
          /\ tx'[c].pend = tx[c].pend \cup fresh
          /\ \A d \in Clients \ {c} : tx'[d].pend = tx[d].pend
       \/ /\ \A b \in Births \ new : rows'[b] = rows[b]
          /\ \A b \in new : rows'[b] = table[b]
          /\ tx' = tx
  <2>1. CASE tx[c].open
    <3>1. tx \in [Clients -> Transaction]
      BY <1>1 DEF TypeInv, Transaction
    <3>2. /\ tx' = [tx EXCEPT ![c].held = @ \cup new,
                              ![c].pend = {s \in @ : s.birth \notin new} \cup fresh]
          /\ rows' = rows
      BY <1>2, <2>1 DEF Write
    <3>3. {s \in tx[c].pend : s.birth \notin new} = tx[c].pend
      BY <1>7
    <3> HIDE DEF fresh
    <3> QED BY <3>1, <3>2, <3>3 DEF Transaction
  <2>2. CASE ~tx[c].open
    BY <1>2, <1>3, <2>2 DEF Write
  <2> QED BY <2>1, <2>2
<1>11. \A d \in Clients : \A s \in tx'[d].pend :
         s \in tx[d].pend \/ (d = c /\ rows' = rows /\ s \in fresh)
  BY <1>10
<1>12. \A s \in fresh : s.birth \in new /\ s.row = table[s.birth]
  OBVIOUS
<1>13. \A d \in Clients : \A s \in tx[d].pend : rows'[s.birth] = rows[s.birth]
  BY <1>7, <1>10
<1>14. BirthInv'
  <2>1. \A m \in Models : stands'[m] <= born'
    BY <1>1, <1>2, <1>3, <1>4, <1>8
  <2>2. \A b \in Births : born' < b => ~rows'[b].live
    BY <1>1, <1>2, <1>3, <1>10 DEF BirthInv, Births
  <2>3. \A d \in Clients : \A s \in tx'[d].pend : s.birth <= born'
    <3>1. ASSUME NEW d \in Clients, NEW s \in tx[d].pend
          PROVE  s.birth <= born'
      BY <1>1, <1>2, <1>7 DEF BirthInv, Births
    <3> QED BY <3>1, <1>3, <1>11, <1>12
  <2>4. \A d \in Clients : call'[d].pc \in {"affected", "fill"} => call'[d].first <= born'
    <3>1. ASSUME NEW d \in Clients, d # c, call[d].pc \in {"affected", "fill"}
          PROVE  call[d].first <= born'
      <4>1. call[d].first \in Nat /\ call[d].first <= born
        BY <1>1, <3>1 DEF TypeInv, BirthInv
      <4> QED BY <4>1, <1>1, <1>2
    <3> QED BY <3>1, <1>3, <1>5, <1>6
  <2> QED BY <2>1, <2>2, <2>3, <2>4 DEF BirthInv
<1> HIDE DEF fresh
<1>15. PendInv'
  <2>1. ASSUME NEW d \in Clients, NEW s \in tx'[d].pend, NEW t \in tx'[d].pend,
               s.birth = t.birth
        PROVE  s = t
    <3>1. CASE s \in tx[d].pend /\ t \in tx[d].pend
      BY <3>1, <2>1 DEF PendInv
    <3>2. CASE s \in fresh /\ t \in fresh
      BY <3>2, <2>1 DEF fresh
    <3> QED BY <2>1, <3>1, <3>2, <1>7, <1>11, <1>12
  <2>2. ASSUME NEW d \in Clients, NEW s \in tx'[d].pend, rows'[s.birth].live
        PROVE  s.row.id = rows'[s.birth].id
    BY <2>2, <1>9, <1>11, <1>12, <1>13 DEF PendInv
  <2>3. ASSUME NEW a \in Clients, NEW d \in Clients, NEW s \in tx'[d].pend,
               call'[a].pc \in {"affected", "fill"}, s.birth = call'[a].first,
               call'[a].first \notin Pending(a)'
        PROVE  s.row.id = rows'[s.birth].id
    <3>1. CASE s \in tx[d].pend
      <4>1. a # c /\ call'[a] = call[a]
        BY <2>3, <3>1, <1>5, <1>6, <1>7
      <4>2. Pending(a) \subseteq Pending(a)'
        BY <1>10 DEF Pending
      <4> QED BY <2>3, <3>1, <4>1, <4>2, <1>13 DEF PendInv
    <3>2. CASE d = c /\ s \in fresh
      <4>1. a = c
        <5>1. CASE a # c
          <6>1. call'[a] = call[a] /\ call[a].first \notin new
            <7>1. call'[a] = call[a] /\ call[a].first <= born
              BY <2>3, <5>1, <1>5 DEF BirthInv
            <7>2. call[a].first \in Nat
              BY <1>1 DEF TypeInv
            <7>3. \A b \in new : b \in Nat /\ born < b
              BY <1>3 DEF Births
            <7> QED BY <7>1, <7>2, <7>3, <1>1
          <6> QED BY <6>1, <2>3, <3>2, <1>12
        <5> QED BY <5>1
      <4> QED BY <2>3, <3>2, <4>1 DEF Pending
    <3> QED BY <2>3, <3>1, <3>2, <1>11
  <2> QED BY <2>1, <2>2, <2>3 DEF PendInv
<1>16. NameInv'
  <2>1. ASSUME NEW m \in Models, stands'[m] # NoBirth
        PROVE  /\ rows'[stands'[m]].live /\ rows'[stands'[m]].id < IdRange
               => model'[m].id = rows'[stands'[m]].id
    <3>1. CASE stands'[m] = stands[m]
      <4>1. stands[m] \in Births \ new
        BY <1>1, <1>8, <2>1, <3>1 DEF TypeInv
      <4>2. rows'[stands[m]] = rows[stands[m]]
        BY <4>1, <1>10
      <4> QED BY <2>1, <3>1, <4>2, <1>2 DEF NameInv, NamedBy
    <3>2. CASE stands'[m] \in new /\ table[stands'[m]].id = model[m].id
      BY <3>2, <1>2, <1>9, <1>10 DEF NamedBy
    <3> QED BY <3>1, <3>2, <1>4
  <2>2. ASSUME NEW m \in Models, NEW d \in Clients, NEW s \in tx'[d].pend,
               s.birth = stands'[m]
        PROVE  s.row.live /\ s.row.id < IdRange => model'[m].id = s.row.id
    <3>1. CASE s \in tx[d].pend
      <4>1. stands'[m] = stands[m]
        BY <2>2, <3>1, <1>4, <1>7
      <4> QED BY <2>2, <3>1, <4>1, <1>2 DEF NameInv, NamedBy
    <3>2. CASE s \in fresh
      <4>1. table[stands'[m]].id = model[m].id /\ s.row = table[stands'[m]]
        BY <2>2, <3>2, <1>4, <1>8, <1>12
      <4> QED BY <4>1, <1>2 DEF NamedBy
    <3> QED BY <2>2, <3>1, <3>2, <1>11
  <2> QED BY <2>1, <2>2 DEF NameInv, NamedBy
<1> QED BY <1>14, <1>15, <1>16

-----------------------------------------------------------------------------
(* The other actions *)

\* Rows, ids, pending writes and calls past their statement are as they were.
LEMMA NamesStay ==
    ASSUME BirthInv, PendInv, NameInv, UNCHANGED <<rows, born, stands>>,
           \A m \in Models : model'[m].id = model[m].id,
           \A c \in Clients : tx'[c].pend = tx[c].pend,
           \A c \in Clients : call'[c].pc \in {"affected", "fill"} =>
             call[c].pc \in {"affected", "fill"} /\ call'[c].first = call[c].first
    PROVE  BirthInv' /\ PendInv' /\ NameInv'
<1>1. \A c \in Clients : Pending(c)' = Pending(c)
  BY DEF Pending
<1>2. BirthInv'
  BY DEF BirthInv
<1>3. PendInv'
  BY <1>1 DEF PendInv
<1>4. NameInv'
  BY DEF NameInv, NamedBy
<1> QED BY <1>2, <1>3, <1>4

LEMMA CallEnds ==
    ASSUME IInv, NEW c \in Clients,
           \/ call' = [call EXCEPT ![c] = NoCall]
           \/ call[c].pc = "affected" /\ call' = [call EXCEPT ![c].pc = "fill"]
           \/ \E ms : call' = [call EXCEPT ![c] = [pc |-> "exec", ms |-> ms, first |-> 0]]
    PROVE  \A d \in Clients : call'[d].pc \in {"affected", "fill"} =>
             call[d].pc \in {"affected", "fill"} /\ call'[d].first = call[d].first
<1>1. call \in [Clients -> Calls]
  BY DEF IInv, TypeInv, Calls
<1>2. \A d \in Clients \ {c} : call'[d] = call[d]
  BY <1>1
<1>3. CASE call' = [call EXCEPT ![c] = NoCall]
  BY <1>1, <1>2, <1>3 DEF NoCall
<1>4. CASE call[c].pc = "affected" /\ call' = [call EXCEPT ![c].pc = "fill"]
  <2>1. call'[c].first = call[c].first
    BY <1>1, <1>4 DEF Calls
  <2> QED BY <1>2, <1>4, <2>1
<1>5. ASSUME NEW ms, call' = [call EXCEPT ![c] = [pc |-> "exec", ms |-> ms, first |-> 0]]
      PROVE  call'[c].pc = "exec"
  BY <1>1, <1>5
<1> QED BY <1>2, <1>3, <1>4, <1>5

LEMMA QuietNames ==
    ASSUME IInv, BirthInv, PendInv, NameInv, NEW c \in Clients,
           \/ ExecInsertFails(c)
           \/ RowsAffected(c)
           \/ \E ms \in Seq(Models) : StartInsert(c, ms)
           \/ \E m \in Models : Change(m) \/ SetModel(c, m)
    PROVE  BirthInv' /\ PendInv' /\ NameInv'
<1>1. model \in [Models -> [id : 0 .. IdRange - 1, v : Values, at : 0 .. MaxNow]]
      /\ calls \in Nat
  BY DEF IInv, TypeInv
<1>2. CASE ExecInsertFails(c)
  BY <1>2, NamesStay, CallEnds DEF ExecInsertFails
<1>3. CASE RowsAffected(c)
  <2>1. \A d \in Clients : call'[d].pc \in {"affected", "fill"} =>
          call[d].pc \in {"affected", "fill"} /\ call'[d].first = call[d].first
    BY <1>3, CallEnds DEF RowsAffected, InsertDone
  <2> QED BY <1>3, <2>1, NamesStay DEF RowsAffected
<1>4. ASSUME NEW ms \in Seq(Models), StartInsert(c, ms)
      PROVE  BirthInv' /\ PendInv' /\ NameInv'
  <2>1. \A m \in Models : model'[m].id = model[m].id
    BY <1>1, <1>4, FillType DEF StartInsert
  <2>2. call' = [call EXCEPT ![c] = [pc |-> "exec", ms |-> ms, first |-> 0]]
    BY <1>4 DEF StartInsert
  <2>3. \A d \in Clients : call'[d].pc \in {"affected", "fill"} =>
          call[d].pc \in {"affected", "fill"} /\ call'[d].first = call[d].first
    BY <2>2, CallEnds
  <2> QED BY <1>4, <2>1, <2>3, NamesStay DEF StartInsert
<1>5. ASSUME NEW m \in Models, Change(m)
      PROVE  BirthInv' /\ PendInv' /\ NameInv'
  <2>1. \A n \in Models : model'[n].id = model[n].id
    BY <1>1, <1>5 DEF Change
  <2> QED BY <1>5, <2>1, NamesStay DEF Change
<1>6. ASSUME NEW m \in Models, SetModel(c, m)
      PROVE  BirthInv' /\ PendInv' /\ NameInv'
  <2>1. FilledForUpdate(model[m]).id = model[m].id
    BY <1>1, FillType
  <2>2. \A n \in Models : model'[n].id = model[n].id
    BY <1>1, <1>6, <2>1 DEF SetModel
  <2> QED BY <1>6, <2>2, NamesStay DEF SetModel
<1> QED BY <1>2, <1>3, <1>4, <1>5, <1>6

\* A row that a client sees live is given to a variable, with its id.
LEMMA LoadNames ==
    ASSUME IInv, BirthInv, PendInv, NameInv, NEW c \in Clients, NEW m \in Models,
           NEW b \in Births, View(c)[b].live, Load(m, b, View(c)[b]),
           \A d \in Clients : tx'[d].pend = tx[d].pend,
           UNCHANGED <<rows, born, call>>
    PROVE  BirthInv' /\ PendInv' /\ NameInv'
<1>1. TypeInv /\ LockInv
  BY DEF IInv
<1>2. stands'[m] = b /\ model'[m].id = View(c)[b].id
      /\ \A n \in Models \ {m} : stands'[n] = stands[n] /\ model'[n] = model[n]
  BY <1>1 DEF Load, TypeInv
<1>3. /\ b <= born
      /\ rows[b].live => rows[b].id = View(c)[b].id
      /\ \A d \in Clients : \A s \in tx[d].pend : s.birth = b => s.row.id = View(c)[b].id
  BY <1>1, ViewNamed
<1>4. \A d \in Clients : Pending(d)' = Pending(d)
  BY DEF Pending
<1>5. BirthInv'
  <2>1. \A n \in Models : stands'[n] <= born
    BY <1>2, <1>3 DEF BirthInv
  <2> QED BY <2>1 DEF BirthInv
<1>6. PendInv'
  BY <1>4 DEF PendInv
<1>7. NameInv'
  <2>1. ASSUME NEW n \in Models, stands'[n] # NoBirth
        PROVE  NamedBy(n, rows[stands[n]])'
    BY <2>1, <1>2, <1>3 DEF NameInv, NamedBy
  <2>2. ASSUME NEW n \in Models, NEW d \in Clients, NEW s \in tx'[d].pend,
               s.birth = stands'[n]
        PROVE  NamedBy(n, s.row)'
    BY <2>2, <1>2, <1>3 DEF NameInv, NamedBy
  <2> QED BY <2>1, <2>2 DEF NameInv
<1> QED BY <1>5, <1>6, <1>7

LEMMA GetNames ==
    ASSUME IInv, BirthInv, PendInv, NameInv, NEW c \in Clients, NEW m \in Models,
           NEW id \in 1 .. MaxRows, Get(c, m, id)
    PROVE  BirthInv' /\ PendInv' /\ NameInv'
<1>1. PICK b \in WithId(c, id) : Load(m, b, View(c)[b])
  BY DEF Get
<1>2. b \in Births /\ View(c)[b].live
  BY DEF WithId
<1> QED BY <1>1, <1>2, LoadNames DEF Get

LEMMA LockNames ==
    ASSUME IInv, BirthInv, PendInv, NameInv, NEW c \in Clients, NEW m \in Models,
           NEW id \in 1 .. MaxRows, Lock(c, m, id)
    PROVE  BirthInv' /\ PendInv' /\ NameInv'
<1>1. PICK b \in WithId(c, id) :
        /\ Load(m, b, View(c)[b])
        /\ tx' = IF tx[c].open THEN Reads(ForUpdate(c, b), c, b) ELSE tx
  BY DEF Lock
<1>2. b \in Births /\ View(c)[b].live
  BY DEF WithId
<1>3. tx \in [Clients -> Transaction]
  BY DEF IInv, TypeInv, Transaction
<1>4. \A d \in Clients : ForUpdate(c, b)[d].pend = tx[d].pend
      /\ ForUpdate(c, b) \in [Clients -> Transaction]
  BY <1>2, <1>3 DEF ForUpdate, Transaction
<1>5. \A d \in Clients : Reads(ForUpdate(c, b), c, b)[d].pend = ForUpdate(c, b)[d].pend
  <2> DEFINE t == ForUpdate(c, b)
  <2>1. t \in [Clients -> Transaction]
    BY <1>4
  <2> HIDE DEF t
  <2>2. \A d \in Clients : Reads(t, c, b)[d].pend = t[d].pend
    BY <2>1 DEF Reads, Transaction
  <2> QED BY <2>2 DEF t
<1>6. \A d \in Clients : tx'[d].pend = tx[d].pend
  BY <1>1, <1>4, <1>5
<1> QED BY <1>1, <1>2, <1>6, LoadNames DEF Lock

LEMMA BeginNames ==
    ASSUME IInv, BirthInv, PendInv, NameInv, NEW c \in Clients, Begin(c)
    PROVE  BirthInv' /\ PendInv' /\ NameInv'
<1>1. tx \in [Clients -> Transaction]
  BY DEF IInv, TypeInv, Transaction
<1>2. \A d \in Clients : tx'[d].pend = tx[d].pend
  BY <1>1 DEF Begin, Transaction
<1> QED BY <1>2, NamesStay DEF Begin

\* A transaction ends; what is committed of it bears the ids it had.
LEMMA EndNames ==
    ASSUME IInv, BirthInv, PendInv, NameInv, NEW c \in Clients, Idle(c),
           tx' = [tx EXCEPT ![c] = NoTx], rows' = rows \/ rows' = View(c),
           UNCHANGED <<model, born, call, stands>>
    PROVE  BirthInv' /\ PendInv' /\ NameInv'
<1>1. TypeInv /\ LockInv
  BY DEF IInv
<1>2. tx'[c].pend = {} /\ \A d \in Clients \ {c} : tx'[d].pend = tx[d].pend
  BY <1>1 DEF TypeInv, NoTx
<1>3. ASSUME NEW d \in Clients, NEW s \in tx'[d].pend
      PROVE  /\ d # c /\ s \in tx[d].pend /\ s.birth \in Births
             /\ rows'[s.birth] = rows[s.birth]
  <2>1. d # c /\ s \in tx[d].pend /\ s.birth \in Births
    BY <1>1, <1>2, <1>3, NameTypes
  <2>2. s.birth \notin Pending(c)
    <3>1. s.birth \in tx[d].held
      BY <1>1, <2>1 DEF LockInv, Pending
    <3> QED BY <1>1, <2>1, <3>1 DEF LockInv
  <2>3. View(c)[s.birth] = rows[s.birth]
    BY <2>1, <2>2 DEF View, Over
  <2> QED BY <2>1, <2>3
<1>4. BirthInv'
  <2>1. \A b \in Births : rows'[b].live => b <= born
    BY <1>1, ViewNamed, NameTypes DEF BirthInv, Births
  <2>2. \A b \in Births : born < b => ~rows'[b].live
    BY <1>1, <2>1, NameTypes DEF Births
  <2> QED BY <2>2, <1>3 DEF BirthInv
<1>5. PendInv'
  <2>1. ASSUME NEW a \in Clients, NEW d \in Clients, NEW s \in tx'[d].pend,
               call[a].pc \in {"affected", "fill"}, s.birth = call[a].first,
               call[a].first \notin Pending(a)'
        PROVE  s.row.id = rows'[s.birth].id
    <3>1. a # c
      BY <2>1 DEF Idle
    <3>2. Pending(a)' = Pending(a)
      BY <1>2, <3>1 DEF Pending
    <3> QED BY <1>3, <2>1, <3>2 DEF PendInv
  <2>2. \A d \in Clients : \A s, t \in tx'[d].pend : s.birth = t.birth => s = t
    BY <1>3 DEF PendInv
  <2>3. \A d \in Clients : \A s \in tx'[d].pend :
          rows'[s.birth].live => s.row.id = rows'[s.birth].id
    BY <1>3 DEF PendInv
  <2> QED BY <2>1, <2>2, <2>3 DEF PendInv
<1>6. NameInv'
  <2>1. ASSUME NEW m \in Models, stands[m] # NoBirth
        PROVE  NamedBy(m, rows'[stands[m]])
    <3>1. stands[m] \in Births
      BY <1>1, <2>1 DEF TypeInv
    <3>2. NamedBy(m, View(c)[stands[m]])
      BY <1>1, <3>1, ViewNamed
    <3> QED BY <2>1, <3>2 DEF NameInv
  <2> QED BY <1>3, <2>1 DEF NameInv, NamedBy
<1> QED BY <1>4, <1>5, <1>6

\* fillModelID: the id of the row stored, when it fits, is the model's.
LEMMA FillNames ==
    ASSUME IInv, BirthInv, PendInv, NameInv, NEW c \in Clients, FillModelID(c)
    PROVE  BirthInv' /\ PendInv' /\ NameInv'
<1> DEFINE m == call[c].ms[1]
           b == call[c].first
<1>1. TypeInv /\ LockInv /\ call[c].pc = "fill"
  BY DEF IInv, FillModelID
<1>2. call' = [call EXCEPT ![c] = NoCall] /\ UNCHANGED <<rows, born, tx>>
  BY DEF FillModelID, InsertDone
<1>3. \A d \in Clients : call'[d].pc \in {"affected", "fill"} =>
        call[d].pc \in {"affected", "fill"} /\ call'[d].first = call[d].first
  BY <1>2, CallEnds
<1>4. CASE UNCHANGED <<model, stands>>
  BY <1>2, <1>3, <1>4, NamesStay
<1>5. CASE /\ model' = [model EXCEPT ![m].id = Narrowed(LastInsertId(c))]
           /\ stands' = [stands EXCEPT ![m] = b]
  <2>1. b \in Births /\ m \in Models /\ b <= born
    <3>1. call[c].ms \in Seq(Models) /\ Len(call[c].ms) > 0
      BY <1>1 DEF TypeInv, IInv, IdInv
    <3> QED BY <1>1, <3>1 DEF IInv, IdInv, BirthInv
  <2> DEFINE id == View(c)[b].id
  <2>2. id \in 0 .. MaxRows /\ LastInsertId(c) = id
    BY <1>1, <2>1, ViewType DEF Row, LastInsertId
  <2>3. id < IdRange => Narrowed(id) = id
    BY <2>2 DEF Narrowed
  <2>4. model'[m].id = Narrowed(id) /\ stands'[m] = b
        /\ \A n \in Models \ {m} : model'[n] = model[n] /\ stands'[n] = stands[n]
    <3>1. model \in [Models -> [id : 0 .. IdRange - 1, v : Values, at : 0 .. MaxNow]]
          /\ DOMAIN stands = Models
      BY <1>1 DEF TypeInv
    <3>2. model'[m].id = Narrowed(LastInsertId(c))
      BY <1>5, <2>1, <3>1
    <3> HIDE DEF m, b
    <3>3. stands'[m] = b
          /\ \A n \in Models \ {m} : model'[n] = model[n] /\ stands'[n] = stands[n]
      BY <1>5, <2>1, <3>1
    <3> QED BY <2>2, <3>2, <3>3
  <2>5. rows[b].live => rows[b].id = id
    BY <1>1, <2>1, ViewNamed
  <2>6. ASSUME NEW d \in Clients, NEW s \in tx[d].pend, s.birth = b
        PROVE  s.row.id = id
    <3>1. CASE b \in Pending(c)
      BY <1>1, <2>1, <2>6, <3>1, ViewNamed
    <3>2. CASE b \notin Pending(c)
      <4>1. id = rows[b].id
        BY <2>1, <3>2 DEF View, Over
      <4> QED BY <1>1, <2>6, <3>2, <4>1 DEF PendInv
    <3> QED BY <3>1, <3>2
  <2> HIDE DEF id, m, b
  <2>7. BirthInv'
    <3>1. \A n \in Models : stands'[n] <= born
      BY <2>1, <2>4 DEF BirthInv
    <3> QED BY <1>2, <1>3, <3>1 DEF BirthInv
  <2>8. PendInv'
    BY <1>2, <1>3 DEF PendInv, Pending
  <2>9. ASSUME NEW n \in Models, stands'[n] # NoBirth
        PROVE  NamedBy(n, rows[stands[n]])'
    BY <1>2, <2>3, <2>4, <2>5, <2>9 DEF NameInv, NamedBy
  <2>10. ASSUME NEW n \in Models, NEW d \in Clients, NEW s \in tx'[d].pend,
                s.birth = stands'[n]
         PROVE  NamedBy(n, s.row)'
    BY <1>2, <2>3, <2>4, <2>6, <2>10 DEF NameInv, NamedBy
  <2>11. NameInv'
    BY <2>9, <2>10 DEF NameInv
  <2> QED BY <2>7, <2>8, <2>11
<1> QED BY <1>4, <1>5 DEF FillModelID

LEMMA InitNames == Init => BirthInv /\ PendInv /\ NameInv
<1> SUFFICES ASSUME Init PROVE BirthInv /\ PendInv /\ NameInv
  OBVIOUS
<1>1. /\ \A c \in Clients : tx[c].pend = {} /\ call[c].pc = "idle"
      /\ \A m \in Models : stands[m] = 0
  BY DEF Init, NoTx, NoCall, NoBirth
<1>2. \A b \in Births : born < b => ~rows[b].live
  BY DEF Init, NoRow, Births
<1>3. born \in {0, 1}
  BY DEF Init
<1> QED BY <1>1, <1>2, <1>3 DEF BirthInv, PendInv, NameInv, NoBirth

LEMMA NamesNext ==
    ASSUME IInv, BirthInv, PendInv, NameInv, Keys # {}, [Next]_vars
    PROVE  BirthInv' /\ PendInv' /\ NameInv'
<1>1. CASE UNCHANGED vars
  BY <1>1, NamesStay DEF vars
<1>2. ASSUME NEW m \in Models, Change(m)
      PROVE  BirthInv' /\ PendInv' /\ NameInv'
  <2>1. Owner[m] \in Clients
    OBVIOUS
  <2> QED BY <1>2, <2>1, QuietNames
<1>3. ASSUME NEW c \in Clients, NEW m \in Models,
             \/ Insert(c, m) \/ \E n \in Models : InsertAll(c, m, n)
             \/ SetModel(c, m)
      PROVE  BirthInv' /\ PendInv' /\ NameInv'
  <2>1. CASE Insert(c, m)
    <3>1. <<m>> \in Seq(Models)
      OBVIOUS
    <3> QED BY <2>1, <3>1, QuietNames DEF Insert
  <2>2. ASSUME NEW n \in Models, InsertAll(c, m, n)
        PROVE  BirthInv' /\ PendInv' /\ NameInv'
    <3>1. <<m, n>> \in Seq(Models)
      OBVIOUS
    <3> QED BY <2>2, <3>1, QuietNames DEF InsertAll
  <2>3. CASE SetModel(c, m)
    BY <2>3, QuietNames
  <2> QED BY <1>3, <2>1, <2>2, <2>3
<1>4. ASSUME NEW c \in Clients, ExecInsertFails(c) \/ RowsAffected(c)
      PROVE  BirthInv' /\ PendInv' /\ NameInv'
  BY <1>4, QuietNames
<1>5. ASSUME NEW c \in Clients,
             ExecInsert(c) \/ FillModelID(c) \/ ExecUpdate(c) \/ Begin(c)
      PROVE  BirthInv' /\ PendInv' /\ NameInv'
  BY <1>5, ExecInsertNames, FillNames, ExecUpdateNames, BeginNames
<1>6. ASSUME NEW c \in Clients, Commit(c) \/ Rollback(c)
      PROVE  BirthInv' /\ PendInv' /\ NameInv'
  BY <1>6, EndNames DEF Commit, Rollback
<1>7. ASSUME NEW c \in Clients, NEW id \in 1 .. MaxRows,
             \/ Delete(c, id)
             \/ \E v \in Values : UpdateMap(c, id, v)
             \/ \E m \in Models : Get(c, m, id) \/ Lock(c, m, id)
      PROVE  BirthInv' /\ PendInv' /\ NameInv'
  BY <1>7, DeleteNames, UpdateMapNames, GetNames, LockNames
<1> QED BY <1>1, <1>2, <1>3, <1>4, <1>5, <1>6, <1>7 DEF Next

LEMMA KindStays == ASSUME [Next]_vars PROVE Keys' = Keys
<1>1. CASE UNCHANGED vars
  BY <1>1 DEF vars, Keys, FlagFields
<1>2. ASSUME NEW m \in Models, Change(m)
      PROVE  kind' = kind
  BY <1>2 DEF Change
<1>3. ASSUME NEW c \in Clients, NEW m \in Models,
             \/ Insert(c, m) \/ SetModel(c, m)
             \/ \E n \in Models : InsertAll(c, m, n)
             \/ \E id \in 1 .. MaxRows : Get(c, m, id) \/ Lock(c, m, id)
      PROVE  kind' = kind
  BY <1>3 DEF Insert, InsertAll, StartInsert, SetModel, Get, Lock
<1>4. ASSUME NEW c \in Clients,
             \/ ExecInsert(c) \/ ExecInsertFails(c) \/ RowsAffected(c) \/ FillModelID(c)
             \/ ExecUpdate(c) \/ Begin(c) \/ Commit(c) \/ Rollback(c)
      PROVE  kind' = kind
  BY <1>4 DEF ExecInsert, ExecInsertFails, RowsAffected, FillModelID, ExecUpdate, Begin, Commit,
              Rollback
<1>5. ASSUME NEW c \in Clients, NEW id \in 1 .. MaxRows,
             Delete(c, id) \/ \E v \in Values : UpdateMap(c, id, v)
      PROVE  kind' = kind
  BY <1>5 DEF Delete, UpdateMap
<1>6. CASE Next
  <2>1. kind' = kind
    BY <1>6, <1>2, <1>3, <1>4, <1>5 DEF Next
  <2> QED BY <2>1 DEF Keys, FlagFields
<1> QED BY <1>1, <1>6

\* The key of a model that was loaded or inserted is that of its row, whatever
\* other clients insert, update, delete, commit or roll back meanwhile.
THEOREM ModelsNameTheirRows == Spec => []ModelNamesItsRow
<1>1. Init => KInv
  BY InitInv, InitNames DEF KInv
<1>2. KInv /\ [Next]_vars => KInv'
  BY NextInv, NamesNext, KindStays DEF KInv
<1>3. KInv => ModelNamesItsRow
  BY DEF KInv, NameInv, NamedBy, ModelNamesItsRow
<1> QED BY <1>1, <1>2, <1>3, PTL DEF Spec

-----------------------------------------------------------------------------
(* Models and their rows *)

Busy(c) == call[c].pc \in {"affected", "fill"}

\* No two rows of a table that are live have the same id, the pending ones of
\* all transactions included.
Clash(x, y) == x.live /\ y.live /\ x.id = y.id
UniqueInv ==
    /\ \A a, b \in Births : a # b => ~Clash(rows[a], rows[b])
    /\ \A c \in Clients : \A s \in tx[c].pend : \A b \in Births \ Pending(c) :
         ~Clash(s.row, rows[b])
    /\ \A c, d \in Clients : \A s \in tx[c].pend : \A t \in tx[d].pend :
         s.birth # t.birth => ~Clash(s.row, t.row)

\* Ids[b] is the id row b was stored with: no version of the row has another.
StoredInv(Ids) ==
    /\ \A b \in Births : rows[b].live => rows[b].id = Ids[b]
    /\ \A c \in Clients : \A s \in tx[c].pend : s.row.id = Ids[s.birth]
    /\ \A c \in Clients :
         Busy(c) => call[c].first \in Pending(c) \/ rows[call[c].first].id = Ids[call[c].first]
    /\ Generates => \A b \in Births : b <= born => Ids[b] > 0

\* A model that was reported as stored has the id of its row; of two rows it
\* was stored as the later one does not have an id out of the key's range
\* if the earlier one has not.
SureInv(Ids) ==
    /\ \A b \in Births : \A m \in sure[b] :
         b <= born /\ (Ids[b] < IdRange => model[m].id = Ids[b])
    /\ \A a, b \in Births : a < b =>
         \A m \in sure[a] \cap sure[b] : Ids[a] < IdRange => Ids[b] < IdRange
    /\ \A c \in Clients : call[c].pc # "idle" => \A i \in DOMAIN call[c].ms : Owner[call[c].ms[i]] = c
    /\ \A c \in Clients : Busy(c) =>
         /\ \A b \in Births : call[c].ms[1] \in sure[b] => b < call[c].first
         /\ ~Generates \/ model[call[c].ms[1]].id # 0
              => Ids[call[c].first] = model[call[c].ms[1]].id

\* Times[i] is the created time of all that has the id i.
TimeInv(Ids, Times) ==
    /\ \A m \in Models : model[m].id # 0 =>
         model[m].id < nextId /\ model[m].at = Times[model[m].id]
    /\ \A m \in Models : stands[m] = NoBirth => model[m].id = 0
    /\ \A b \in Births : b <= born => Ids[b] < nextId
    /\ \A b \in Births : rows[b].live => rows[b].at = Times[Ids[b]]
    /\ \A c \in Clients : \A s \in tx[c].pend : s.row.at = Times[Ids[s.birth]]
    /\ \A c \in Clients : Busy(c) /\ model[call[c].ms[1]].id = 0 =>
         model[call[c].ms[1]].at = Times[Ids[call[c].first]]
    /\ \A c \in Clients : call[c].pc = "exec" =>
         \A i \in DOMAIN call[c].ms : model[call[c].ms[i]].at # 0

RowIds == [Births -> 0 .. MaxRows]
IdTimes == [0 .. MaxRows -> 1 .. MaxNow]

\* Created times are kept by rows of generated ids that fit.
Timely == SingleGenerated /\ Generates /\ AllFit

OneInv ==
    Keys = {"id"} =>
      /\ UniqueInv
      /\ \E Ids \in RowIds :
           /\ StoredInv(Ids) /\ SureInv(Ids)
           /\ Timely => \E Times \in IdTimes : TimeInv(Ids, Times)
-----------------------------------------------------------------------------
(* Rows of one id *)

\* The unique index on the key.
LEMMA NoClash ==
    ASSUME Keys = {"id"}, NEW table, KeysUnique(table),
           NEW a \in Births, NEW b \in Births, a # b
    PROVE  ~Clash(table[a], table[b])
<1>1. a < b \/ b < a
  BY DEF Births
<1>2. \A x \in Births, y \in Births :
        x < y /\ table[x].live /\ table[y].live => table[x]["id"] # table[y]["id"]
  BY DEF KeysUnique
<1> QED BY <1>1, <1>2 DEF Clash

\* What c will see of the table.
LEMMA OverCases ==
    ASSUME TypeInv, PendInv, NEW c \in Clients, NEW table, NEW b \in Births
    PROVE  /\ b \notin Pending(c) => Over(c, table)[b] = table[b]
           /\ \A s \in tx[c].pend : s.birth = b => Over(c, table)[b] = s.row
<1>1. b \notin Pending(c) => Over(c, table)[b] = table[b]
  BY DEF Over
<1>2. ASSUME NEW s \in tx[c].pend, s.birth = b
      PROVE  Over(c, table)[b] = s.row
  <2>1. b \in Pending(c)
    BY <1>2 DEF Pending
  <2>2. PICK t : t = CHOOSE u \in tx[c].pend : u.birth = b
    OBVIOUS
  <2>3. t \in tx[c].pend /\ t.birth = b
    BY <1>2, <2>2
  <2>4. t = s
    BY <1>2, <2>3 DEF PendInv
  <2> QED BY <2>1, <2>2, <2>4 DEF Over
<1> QED BY <1>1, <1>2

\* A write that the index admits leaves no two live rows with one id, neither
\* among those committed nor among those that may be.
LEMMA WriteUnique ==
    ASSUME TypeInv, LockInv, PendInv, UniqueInv, Keys = {"id"}, NEW c \in Clients,
           NEW touched \in SUBSET Births, NEW table \in [Births -> Row],
           \A b \in Births \ touched : table[b] = View(c)[b],
           Write(c, touched, table)
    PROVE  UniqueInv'
<1>1. Free(c, touched) /\ \A d \in Clients : KeysUnique(IF d = c THEN table ELSE Over(d, table))
  BY DEF Write
<1>2. \A a, b \in Births : a # b => ~Clash(table[a], table[b])
  BY <1>1, NoClash
<1>3. \A d \in Clients \ {c} : \A a, b \in Births :
        a # b => ~Clash(Over(d, table)[a], Over(d, table)[b])
  <2>1. \A d \in Clients \ {c} : KeysUnique(Over(d, table))
    BY <1>1
  <2> QED BY <2>1, NoClash
<1>4. \A d \in Clients : \A s \in tx[d].pend : s.birth \in Births /\ s.birth \in tx[d].held
  BY NameTypes DEF LockInv, Pending
<1>5. ASSUME NEW d \in Clients \ {c}, NEW t \in tx[d].pend, NEW b \in Births \ Pending(d)
      PROVE  ~Clash(t.row, table[b])
  <2>1. t.birth \in Births /\ t.birth # b
    BY <1>4 DEF Pending
  <2>2. Over(d, table)[t.birth] = t.row /\ Over(d, table)[b] = table[b]
    BY <2>1, OverCases
  <2> QED BY <1>3, <2>1, <2>2
<1>6. CASE tx[c].open
  <2> DEFINE new == {[birth |-> b, row |-> table[b]] : b \in touched}
  <2>1. rows' = rows
    BY <1>6 DEF Write
  <2>2. /\ tx'[c].pend = {s \in tx[c].pend : s.birth \notin touched} \cup new
        /\ \A d \in Clients \ {c} : tx'[d].pend = tx[d].pend
    <3>1. tx \in [Clients -> Transaction]
      BY DEF TypeInv, Transaction
    <3>2. tx' = [tx EXCEPT ![c].held = @ \cup touched,
                           ![c].pend = {s \in @ : s.birth \notin touched} \cup new]
      BY <1>6 DEF Write
    <3> QED BY <3>1, <3>2 DEF Transaction
  <2>3. \A s \in tx'[c].pend : s.birth \in Births /\ s.row = table[s.birth]
    <3>1. ASSUME NEW s \in tx[c].pend, s.birth \notin touched
          PROVE  s.birth \in Births /\ s.row = table[s.birth]
      BY <1>4, <3>1, OverCases DEF View
    <3> QED BY <2>2, <3>1
  <2>4. touched \subseteq Pending(c)' /\ Pending(c) \subseteq Pending(c)'
    <3>1. ASSUME NEW b \in touched
          PROVE  b \in Pending(c)'
      <4>1. [birth |-> b, row |-> table[b]] \in tx'[c].pend
        BY <2>2
      <4> QED BY <4>1 DEF Pending
    <3>2. ASSUME NEW s \in tx[c].pend, s.birth \notin touched
          PROVE  s.birth \in Pending(c)'
      BY <2>2, <3>2 DEF Pending
    <3> QED BY <3>1, <3>2 DEF Pending
  <2>5. \A d \in Clients \ {c} : Pending(d)' = Pending(d)
    BY <2>2 DEF Pending
  <2>6. ASSUME NEW d \in Clients, NEW s \in tx'[d].pend, NEW b \in Births \ Pending(d)'
        PROVE  ~Clash(s.row, rows[b])
    <3>1. CASE d = c
      <4>1. b \notin touched /\ b \notin Pending(c)
        BY <2>4, <3>1
      <4>2. table[b] = rows[b]
        BY <4>1, OverCases DEF View
      <4>3. s.birth # b
        BY <2>6, <3>1 DEF Pending
      <4> QED BY <1>2, <2>3, <3>1, <4>2, <4>3
    <3>2. CASE d # c
      BY <2>2, <2>5, <3>2 DEF UniqueInv
    <3> QED BY <3>1, <3>2
  \* What d # c has pending is free of what c has pending now.
  <2>7. ASSUME NEW d \in Clients \ {c}, NEW t \in tx[d].pend, NEW s \in tx'[c].pend
        PROVE  ~Clash(s.row, t.row) /\ ~Clash(t.row, s.row)
    <3>1. CASE s.birth \in Pending(d)
      <4>1. s.birth \in tx[d].held
        BY <3>1 DEF LockInv
      <4>2. s.birth \notin touched
        BY <1>1, <4>1 DEF Free
      <4>3. s \in tx[c].pend
        BY <2>2, <4>2
      <4>4. s.birth \in tx[c].held
        BY <1>4, <4>3
      <4> QED BY <4>1, <4>4 DEF LockInv
    <3>2. CASE s.birth \notin Pending(d)
      <4>1. ~Clash(t.row, table[s.birth])
        BY <1>5, <2>3, <3>2
      <4> QED BY <2>3, <4>1 DEF Clash
    <3> QED BY <3>1, <3>2
  <2>8. ASSUME NEW a \in Clients, NEW d \in Clients, NEW s \in tx'[a].pend,
               NEW t \in tx'[d].pend, s.birth # t.birth
        PROVE  ~Clash(s.row, t.row)
    <3>1. CASE a = c /\ d = c
      BY <1>2, <2>3, <2>8, <3>1
    <3>2. CASE a = c /\ d # c
      BY <2>2, <2>7, <3>2
    <3>3. CASE a # c /\ d = c
      BY <2>2, <2>7, <3>3
    <3>4. CASE a # c /\ d # c
      BY <2>2, <2>8, <3>4 DEF UniqueInv
    <3> QED BY <3>1, <3>2, <3>3, <3>4
  <2>9. \A a, b \in Births : a # b => ~Clash(rows'[a], rows'[b])
    BY <2>1 DEF UniqueInv
  <2> QED BY <2>1, <2>6, <2>8, <2>9 DEF UniqueInv, Clash
<1>7. CASE ~tx[c].open
  <2>1. /\ rows' = [b \in Births |-> IF b \in touched THEN table[b] ELSE rows[b]]
        /\ tx' = tx
    BY <1>7 DEF Write
  <2>2. tx[c].pend = {} /\ Pending(c) = {}
    BY <1>7 DEF LockInv, NoTx, Pending
  <2>3. \A b \in Births : rows'[b] = table[b]
    BY <2>1, <2>2, OverCases DEF View
  <2>4. \A a, b \in Births : a # b => ~Clash(rows'[a], rows'[b])
    BY <1>2, <2>3
  <2>5. ASSUME NEW d \in Clients, NEW s \in tx[d].pend, NEW b \in Births \ Pending(d)
        PROVE  ~Clash(s.row, rows'[b])
    BY <1>5, <2>2, <2>3
  <2> QED BY <2>1, <2>4, <2>5 DEF UniqueInv, Pending, Clash
<1> QED BY <1>6, <1>7

\* A transaction ends: what was apart among all that may be committed is so
\* when it is.
LEMMA EndUnique ==
    ASSUME TypeInv, LockInv, UniqueInv, NEW c \in Clients,
           tx' = [tx EXCEPT ![c] = NoTx], rows' = rows \/ rows' = View(c)
    PROVE  UniqueInv'
<1>1. tx'[c].pend = {} /\ \A d \in Clients \ {c} : tx'[d].pend = tx[d].pend
  BY DEF TypeInv, NoTx
<1>2. \A d \in Clients \ {c} : Pending(d)' = Pending(d)
  BY <1>1 DEF Pending
<1>3. \A b \in Births : \/ b \notin Pending(c) /\ rows'[b] = rows[b]
                        \/ rows' = rows
                        \/ \E s \in tx[c].pend : s.birth = b /\ rows'[b] = s.row
  BY ViewCases
<1>4. ASSUME NEW a \in Births, NEW b \in Births, a # b
      PROVE  ~Clash(rows'[a], rows'[b])
  <2>1. \A x, y \in Births : \A s \in tx[c].pend :
          x # y /\ s.birth = x /\ y \notin Pending(c) => ~Clash(s.row, rows[y])
    BY DEF UniqueInv
  <2>2. \A x, y : Clash(x, y) = Clash(y, x)
    BY DEF Clash
  <2>3. CASE rows' = rows
    BY <1>4, <2>3 DEF UniqueInv
  <2>4. CASE (\E s \in tx[c].pend : s.birth = a /\ rows'[a] = s.row)
             /\ (\E s \in tx[c].pend : s.birth = b /\ rows'[b] = s.row)
    BY <1>4, <2>4 DEF UniqueInv
  <2>5. CASE (\E s \in tx[c].pend : s.birth = a /\ rows'[a] = s.row)
             /\ b \notin Pending(c) /\ rows'[b] = rows[b]
    BY <1>4, <2>1, <2>5
  <2>6. CASE (\E s \in tx[c].pend : s.birth = b /\ rows'[b] = s.row)
             /\ a \notin Pending(c) /\ rows'[a] = rows[a]
    BY <1>4, <2>1, <2>2, <2>6
  <2>7. CASE rows'[a] = rows[a] /\ rows'[b] = rows[b]
    BY <1>4, <2>7 DEF UniqueInv
  <2> QED BY <1>3, <2>3, <2>4, <2>5, <2>6, <2>7
<1>5. ASSUME NEW d \in Clients \ {c}, NEW s \in tx[d].pend, NEW b \in Births \ Pending(d)
      PROVE  ~Clash(s.row, rows'[b])
  <2>1. s.birth # b
    BY DEF Pending
  <2> QED BY <1>3, <2>1 DEF UniqueInv
<1>6. \A d, e \in Clients : \A s \in tx'[d].pend : \A t \in tx'[e].pend :
        s.birth # t.birth => ~Clash(s.row, t.row)
  BY <1>1 DEF UniqueInv
<1>7. \A d \in Clients : \A s \in tx'[d].pend : \A b \in Births \ Pending(d)' :
        ~Clash(s.row, rows'[b])
  BY <1>1, <1>2, <1>5
<1> QED BY <1>4, <1>6, <1>7 DEF UniqueInv, Clash

LEMMA UniqueStays ==
    ASSUME UniqueInv, UNCHANGED rows, \A c \in Clients : tx'[c].pend = tx[c].pend
    PROVE  UniqueInv'
BY DEF UniqueInv, Pending, Clash
-----------------------------------------------------------------------------
(* The id a row was stored with *)

\* What a client sees live has it.
LEMMA ViewStored ==
    ASSUME TypeInv, NEW Ids, StoredInv(Ids), NEW c \in Clients, NEW b \in Births
    PROVE  /\ View(c)[b].live => View(c)[b].id = Ids[b]
           /\ Busy(c) /\ b = call[c].first => View(c)[b].id = Ids[b]
<1>1. CASE b \notin Pending(c) /\ View(c)[b] = rows[b]
  BY <1>1 DEF StoredInv
<1>2. CASE \E s \in tx[c].pend : s.birth = b /\ View(c)[b] = s.row
  BY <1>2 DEF StoredInv
<1> QED BY <1>1, <1>2, ViewCases

\* A write to rows that are seen live leaves what is pending by others, and
\* makes of a row only what the table written has.
LEMMA WriteRows ==
    ASSUME TypeInv, LockInv, NEW c \in Clients,
           NEW touched \in SUBSET Births, NEW table \in [Births -> Row],
           Write(c, touched, table)
    PROVE  /\ \A d \in Clients : \A s \in tx'[d].pend :
                s \in tx[d].pend \/ (s.birth \in touched /\ s.row = table[s.birth])
           /\ \A b \in Births :
                rows'[b] = rows[b] \/ (b \in touched /\ rows'[b] = table[b] /\ View(c)[b] = rows[b])
           /\ \A d \in Clients : Pending(d) \subseteq Pending(d)'
<1>1. CASE tx[c].open
  <2> DEFINE new == {[birth |-> b, row |-> table[b]] : b \in touched}
  <2>1. rows' = rows
    BY <1>1 DEF Write
  <2>2. /\ tx'[c].pend = {s \in tx[c].pend : s.birth \notin touched} \cup new
        /\ \A d \in Clients \ {c} : tx'[d].pend = tx[d].pend
    <3>1. tx \in [Clients -> Transaction]
      BY DEF TypeInv, Transaction
    <3>2. tx' = [tx EXCEPT ![c].held = @ \cup touched,
                           ![c].pend = {s \in @ : s.birth \notin touched} \cup new]
      BY <1>1 DEF Write
    <3> QED BY <3>1, <3>2 DEF Transaction
  <2>3. ASSUME NEW d \in Clients, NEW s \in tx[d].pend
        PROVE  s.birth \in Pending(d)'
    <3>1. CASE d = c /\ s.birth \in touched
      <4>1. [birth |-> s.birth, row |-> table[s.birth]] \in tx'[c].pend
        BY <2>2, <3>1
      <4> QED BY <4>1, <3>1 DEF Pending
    <3>2. CASE ~(d = c /\ s.birth \in touched)
      BY <2>2, <3>2 DEF Pending
    <3> QED BY <3>1, <3>2
  <2>4. \A d \in Clients : Pending(d) \subseteq Pending(d)'
    BY <2>3 DEF Pending
  <2> QED BY <2>1, <2>2, <2>4
<1>2. CASE ~tx[c].open
  <2>1. /\ rows' = [b \in Births |-> IF b \in touched THEN table[b] ELSE rows[b]]
        /\ tx' = tx
    BY <1>2 DEF Write
  <2>2. Pending(c) = {}
    BY <1>2 DEF LockInv, NoTx, Pending
  <2>3. \A b \in Births : View(c)[b] = rows[b]
    BY <2>2, ViewCases
  <2> QED BY <2>1, <2>3 DEF Pending
<1> QED BY <1>1, <1>2

\* A write to rows that are seen live, which leaves their ids.
LEMMA WriteStored ==
    ASSUME TypeInv, LockInv, NEW Ids, StoredInv(Ids), NEW c \in Clients,
           NEW touched \in SUBSET Births, NEW table \in [Births -> Row],
           \A b \in touched : View(c)[b].live /\ table[b].id = View(c)[b].id,
           Write(c, touched, table),
           UNCHANGED <<kind, database, born, call>>,
           \A d \in Clients : Busy(d) => call[d].first \in Births
    PROVE  StoredInv(Ids)'
<1>1. \A b \in touched : table[b].id = Ids[b]
  BY ViewStored
<1>2. /\ \A d \in Clients : \A s \in tx'[d].pend :
           s \in tx[d].pend \/ (s.birth \in touched /\ s.row = table[s.birth])
      /\ \A b \in Births :
           rows'[b] = rows[b] \/ (b \in touched /\ rows'[b] = table[b] /\ View(c)[b] = rows[b])
      /\ \A d \in Clients : Pending(d) \subseteq Pending(d)'
  BY WriteRows
<1>3. \A b \in Births : rows'[b].live => rows'[b].id = Ids[b]
  BY <1>1, <1>2 DEF StoredInv
<1>4. \A d \in Clients : \A s \in tx'[d].pend : s.row.id = Ids[s.birth]
  BY <1>1, <1>2 DEF StoredInv
<1>5. ASSUME NEW d \in Clients, Busy(d)
      PROVE  call[d].first \in Pending(d)' \/ rows'[call[d].first].id = Ids[call[d].first]
  BY <1>1, <1>5, <1>2 DEF StoredInv
<1>6. Generates' = Generates /\ \A d \in Clients : Busy(d)' = Busy(d)
  BY DEF Generates, FlagFields, Busy
<1> QED BY <1>3, <1>4, <1>5, <1>6 DEF StoredInv

LEMMA EndStored ==
    ASSUME TypeInv, LockInv, NEW Ids, StoredInv(Ids), NEW c \in Clients, Idle(c),
           tx' = [tx EXCEPT ![c] = NoTx], rows' = rows \/ rows' = View(c),
           UNCHANGED <<kind, database, born, call>>,
           \A d \in Clients : Busy(d) => call[d].first \in Births
    PROVE  StoredInv(Ids)'
<1>1. tx'[c].pend = {} /\ \A d \in Clients \ {c} : tx'[d].pend = tx[d].pend
  BY DEF TypeInv, NoTx
<1>2. \A b \in Births : rows'[b].live => rows'[b].id = Ids[b]
  BY ViewStored DEF StoredInv
<1>3. \A d \in Clients : \A s \in tx'[d].pend : s.row.id = Ids[s.birth]
  BY <1>1 DEF StoredInv
<1>4. ASSUME NEW d \in Clients, Busy(d)
      PROVE  call[d].first \in Pending(d)' \/ rows'[call[d].first].id = Ids[call[d].first]
  <2>1. d # c /\ Pending(d)' = Pending(d)
    BY <1>1, <1>4 DEF Busy, Idle, Pending
  <2>2. CASE rows[call[d].first].id = Ids[call[d].first]
    BY <1>4, <2>2, ViewCases DEF StoredInv
  <2> QED BY <1>4, <2>1, <2>2 DEF StoredInv
<1>5. Generates' = Generates /\ \A d \in Clients : Busy(d)' = Busy(d)
  BY DEF Generates, FlagFields, Busy
<1> QED BY <1>2, <1>3, <1>4, <1>5 DEF StoredInv

LEMMA StoredStays ==
    ASSUME NEW Ids, StoredInv(Ids), UNCHANGED <<kind, database, rows, born>>,
           \A c \in Clients : tx'[c].pend = tx[c].pend,
           \A c \in Clients : Busy(c)' => Busy(c) /\ call'[c].first = call[c].first
    PROVE  StoredInv(Ids)'
<1>1. Generates' = Generates /\ \A c \in Clients : Pending(c)' = Pending(c)
  BY DEF Generates, FlagFields, Pending
<1> QED BY <1>1 DEF StoredInv

-----------------------------------------------------------------------------
(* Models that were reported as stored *)

\* The models of a call are the client's own: nobody else's reads touch them.
LEMMA CallsOwn ==
    ASSUME IInv, NEW Ids, SureInv(Ids), NEW d \in Clients, call[d].pc # "idle"
    PROVE  /\ call[d].ms \in Seq(Models) /\ 1 \in DOMAIN call[d].ms
           /\ \A i \in DOMAIN call[d].ms : call[d].ms[i] \in Models /\ Owner[call[d].ms[i]] = d
<1>1. call[d].ms \in Seq(Models) /\ Len(call[d].ms) > 0
  BY DEF IInv, TypeInv, IdInv
<1> QED BY <1>1 DEF SureInv

LEMMA SureStays ==
    ASSUME IInv, NEW Ids, SureInv(Ids), UNCHANGED <<kind, database, born, sure>>,
           \A m \in Models : model'[m].id = model[m].id,
           \A c \in Clients : call'[c].pc # "idle" =>
             \A i \in DOMAIN call'[c].ms : Owner[call'[c].ms[i]] = c,
           \A c \in Clients : Busy(c)' => /\ Busy(c) /\ call'[c].first = call[c].first
                                          /\ call'[c].ms = call[c].ms
    PROVE  SureInv(Ids)'
<1>1. Generates' = Generates
  BY DEF Generates, FlagFields
<1>2. \A b \in Births : \A m \in sure[b] :
        b <= born /\ (Ids[b] < IdRange => model'[m].id = Ids[b])
  <2>1. \A b \in Births : sure[b] \subseteq Models
    BY DEF IInv, TypeInv
  <2> QED BY <2>1 DEF SureInv
<1>3. \A a, b \in Births : a < b =>
        \A m \in sure[a] \cap sure[b] : Ids[a] < IdRange => Ids[b] < IdRange
  BY DEF SureInv
<1>4. ASSUME NEW c \in Clients, Busy(c)'
      PROVE  /\ \A b \in Births : call'[c].ms[1] \in sure[b] => b < call'[c].first
             /\ ~Generates \/ model'[call'[c].ms[1]].id # 0
                  => Ids[call'[c].first] = model'[call'[c].ms[1]].id
  <2>1. Busy(c) /\ call[c].ms[1] \in Models
    BY <1>4, CallsOwn DEF Busy
  <2> QED BY <1>4, <2>1 DEF SureInv
<1> QED BY <1>1, <1>2, <1>3, <1>4 DEF SureInv

\* A variable that another row is read into vouches for none.
LEMMA LoadSure ==
    ASSUME IInv, NEW Ids, SureInv(Ids), NEW m \in Models, Idle(Owner[m]),
           NEW b \in Births, NEW row, Load(m, b, row),
           UNCHANGED <<kind, database, born, call>>
    PROVE  SureInv(Ids)'
<1>1. /\ \A n \in Models \ {m} : model'[n] = model[n]
      /\ \A a \in Births : sure'[a] = sure[a] \ {m} /\ sure[a] \subseteq Models
  BY DEF Load, IInv, TypeInv
<1>2. Generates' = Generates
  BY DEF Generates, FlagFields
<1>3. ASSUME NEW c \in Clients, Busy(c)
      PROVE  call[c].ms[1] \in Models \ {m}
  <2>1. c # Owner[m] /\ call[c].pc # "idle"
    BY <1>3 DEF Busy, Idle
  <2> QED BY <2>1, CallsOwn
<1>4. \A a \in Births : \A n \in sure'[a] :
        a <= born /\ (Ids[a] < IdRange => model'[n].id = Ids[a])
  BY <1>1 DEF SureInv
<1>5. \A a, d \in Births : a < d =>
        \A n \in sure'[a] \cap sure'[d] : Ids[a] < IdRange => Ids[d] < IdRange
  BY <1>1 DEF SureInv
<1>6. ASSUME NEW c \in Clients, Busy(c)
      PROVE  /\ \A a \in Births : call[c].ms[1] \in sure'[a] => a < call[c].first
             /\ ~Generates \/ model'[call[c].ms[1]].id # 0
                  => Ids[call[c].first] = model'[call[c].ms[1]].id
  BY <1>1, <1>3, <1>6 DEF SureInv
<1>7. \A c \in Clients : Busy(c)' = Busy(c)
  BY DEF Busy
<1> QED BY <1>2, <1>4, <1>5, <1>6, <1>7 DEF SureInv

\* fillModelID: the model has the id of the row, or keeps it.
LEMMA FillSure ==
    ASSUME IInv, BirthInv, Keys = {"id"}, NEW Ids \in RowIds, StoredInv(Ids), SureInv(Ids),
           NEW c \in Clients, FillModelID(c)
    PROVE  SureInv(Ids)'
<1> DEFINE m == call[c].ms[1]
           f == call[c].first
<1>1. TypeInv /\ Busy(c) /\ call[c].pc # "idle"
  BY DEF IInv, FillModelID, Busy
<1>2. m \in Models /\ Owner[m] = c /\ f \in Births /\ f <= born
  BY <1>1, CallsOwn DEF IInv, IdInv, BirthInv, Busy
<1>3. call' = [call EXCEPT ![c] = NoCall] /\ UNCHANGED <<kind, database, rows, born, tx>>
  BY DEF FillModelID, InsertDone
<1>4. Generates' = Generates
  BY <1>3 DEF Generates, FlagFields
<1>5. \A d \in Clients : call'[d].pc # "idle" => d # c /\ call'[d] = call[d]
  BY <1>1, <1>3 DEF TypeInv, NoCall
<1>6. \A d \in Clients : Busy(d)' => d # c /\ Busy(d) /\ call'[d] = call[d]
  BY <1>5 DEF Busy
<1>7. ASSUME NEW d \in Clients, d # c, call[d].pc # "idle"
      PROVE  call[d].ms[1] \in Models \ {m}
  BY <1>2, <1>7, CallsOwn
<1>8. \A b \in Births : sure[b] \subseteq Models /\ Ids[b] \in 0 .. MaxRows /\ b \in Nat
  BY <1>1 DEF TypeInv, RowIds, Births
<1>9. born \in Nat /\ \A n \in Models : model[n].id \in Nat
  BY <1>1, NameTypes
<1>10. CASE UNCHANGED <<model, sure>>
  <2>1. \A d \in Clients : call'[d].pc # "idle" =>
          \A i \in DOMAIN call'[d].ms : Owner[call'[d].ms[i]] = d
    BY <1>5 DEF SureInv
  <2> QED BY <1>3, <1>6, <1>10, <2>1, SureStays
<1>11. CASE /\ InsertDone(c)
            /\ \/ /\ ~SingleGenerated \/ model[m].id # 0
                  /\ model' = model
               \/ /\ SingleGenerated /\ model[m].id = 0
                  /\ model' = [model EXCEPT ![m].id = Narrowed(LastInsertId(c))]
  <2>1. \A b \in Births : \/ sure'[b] = sure[b]
                          \/ b = f /\ sure'[b] = {m}
    BY <1>11 DEF InsertDone
  <2>2. LastInsertId(c) = Ids[f]
    BY <1>1, <1>2, ViewStored DEF LastInsertId
  <2>3. /\ ~Generates \/ model[m].id # 0 => Ids[f] = model[m].id
        /\ Generates => \A b \in Births : b <= born => Ids[b] > 0
        /\ \A b \in Births : m \in sure[b] => b < f
    BY <1>1 DEF SureInv, StoredInv
  <2>4. \A n \in Models \ {m} : model'[n].id = model[n].id
    <3>1. DOMAIN model = Models
      BY <1>1 DEF TypeInv
    <3> HIDE DEF m
    <3> QED BY <1>2, <1>11, <3>1
  <2>5. \/ Ids[f] = model[m].id /\ model'[m].id = model[m].id
        \/ model[m].id = 0 /\ model'[m].id = Narrowed(Ids[f])
    <3>1. CASE (~SingleGenerated \/ model[m].id # 0) /\ model' = model
      <4>1. ~SingleGenerated => ~Generates
        BY DEF SingleGenerated, Generates
      <4> QED BY <2>3, <3>1, <4>1
    <3>2. CASE /\ SingleGenerated /\ model[m].id = 0
               /\ model' = [model EXCEPT ![m].id = Narrowed(LastInsertId(c))]
      <4>1. model \in [Models -> [id : 0 .. IdRange - 1, v : Values, at : 0 .. MaxNow]]
        BY <1>1 DEF TypeInv
      <4>2. model'[m].id = Narrowed(LastInsertId(c))
        BY <1>2, <3>2, <4>1
      <4> QED BY <2>2, <3>2, <4>2
    <3> QED BY <1>11, <3>1, <3>2
  <2>6. Ids[f] < IdRange => Narrowed(Ids[f]) = Ids[f]
    BY <1>2, <1>8 DEF Narrowed
  <2> HIDE DEF m, f
  \* A row the model was stored as before had its id, and so has this one.
  <2>7. ASSUME NEW b \in Births, m \in sure[b], Ids[b] < IdRange
        PROVE  Ids[f] = Ids[b] /\ model'[m].id = Ids[b]
    <3>1. model[m].id = Ids[b] /\ b <= born
      BY <2>7 DEF SureInv
    <3>2. CASE model[m].id # 0
      BY <2>3, <2>5, <3>1, <3>2
    <3>3. CASE model[m].id = 0
      <4>1. Ids[b] = 0 /\ (Generates => Ids[b] > 0)
        BY <2>3, <3>1, <3>3
      <4>2. ~Generates
        BY <4>1
      <4>3. Ids[f] = 0
        BY <2>3, <3>3, <4>2
      <4>4. model'[m].id = 0
        BY <2>5, <2>6, <3>3, <4>3
      <4> QED BY <3>1, <3>3, <4>3, <4>4
    <3> QED BY <3>2, <3>3
  <2>8. ASSUME NEW b \in Births, NEW n \in sure'[b]
        PROVE  b <= born /\ (Ids[b] < IdRange => model'[n].id = Ids[b])
    <3>1. CASE n \in sure[b] /\ n # m
      BY <1>8, <2>4, <3>1 DEF SureInv
    <3>2. CASE n \in sure[b] /\ n = m
      BY <2>7, <3>2 DEF SureInv
    <3>3. CASE b = f /\ n = m
      BY <1>2, <2>5, <2>6, <3>3
    <3> QED BY <2>1, <2>8, <3>1, <3>2, <3>3
  <2>9. ASSUME NEW a \in Births, NEW b \in Births, a < b, NEW n \in sure'[a] \cap sure'[b],
               Ids[a] < IdRange
        PROVE  Ids[b] < IdRange
    <3>1. CASE n \in sure[a] /\ n \in sure[b]
      BY <2>9, <3>1 DEF SureInv
    <3>2. CASE n \in sure[a] /\ b = f /\ n = m
      BY <2>7, <2>9, <3>2
    <3>3. CASE a = f /\ n = m /\ n \in sure[b]
      BY <1>8, <2>3, <2>9, <3>3
    <3> QED BY <1>8, <2>1, <2>9, <3>1, <3>2, <3>3
  <2>10. ASSUME NEW d \in Clients, Busy(d)'
         PROVE  /\ \A b \in Births : call'[d].ms[1] \in sure'[b] => b < call'[d].first
                /\ ~Generates \/ model'[call'[d].ms[1]].id # 0
                     => Ids[call'[d].first] = model'[call'[d].ms[1]].id
    <3>1. d # c /\ Busy(d) /\ call'[d] = call[d] /\ call[d].ms[1] \in Models \ {m}
      BY <1>6, <1>7, <2>10 DEF Busy
    <3> QED BY <2>1, <2>4, <3>1 DEF SureInv
  <2>11. \A d \in Clients : call'[d].pc # "idle" =>
           \A i \in DOMAIN call'[d].ms : Owner[call'[d].ms[i]] = d
    BY <1>5 DEF SureInv
  <2> QED BY <1>3, <1>4, <2>8, <2>9, <2>10, <2>11 DEF SureInv
<1> QED BY <1>10, <1>11 DEF FillModelID
-----------------------------------------------------------------------------
(* Inserts *)

\* The rows c's Insert stores, and their ids.
New(c) == born + 1 .. born + Len(call[c].ms)
Inserted(c) == [b \in Births |-> IF b \in New(c) THEN NewRow(call[c].ms, b - born)
                                 ELSE View(c)[b]]
NewIds(Ids, c) == [b \in Births |-> IF b \in New(c) THEN StoredId(call[c].ms, b - born)
                                    ELSE Ids[b]]

LEMMA InsertedType ==
    ASSUME IInv, NEW c \in Clients, ExecInsert(c)
    PROVE  /\ call[c].ms \in Seq(Models) /\ 1 \in DOMAIN call[c].ms
           /\ \A i \in DOMAIN call[c].ms : call[c].ms[i] \in Models
           /\ born \in Nat /\ born' \in Nat /\ born < born'
           /\ New(c) \in SUBSET Births /\ born + 1 \in New(c)
           /\ \A b \in Births : b \in New(c) <=> born < b /\ b <= born'
           /\ \A b \in New(c) : b - born \in DOMAIN call[c].ms
                               /\ StoredId(call[c].ms, b - born) \in 0 .. MaxRows
           /\ Inserted(c) \in [Births -> Row]
           /\ Write(c, New(c), Inserted(c))
<1> DEFINE ms == call[c].ms
<1>1. /\ ms \in Seq(Models) /\ Len(ms) \in Nat \ {0} /\ DOMAIN ms = 1 .. Len(ms)
      /\ born \in Nat
  <2>1. call[c].ms \in Seq(Models) /\ Len(call[c].ms) > 0 /\ born \in Nat
    BY DEF IInv, TypeInv, IdInv, ExecInsert
  <2> QED BY <2>1
<1>2. /\ born + Len(ms) <= MaxRows /\ born' = born + Len(ms)
      /\ Write(c, New(c), Inserted(c))
  BY DEF ExecInsert, New, Inserted
<1>3. New(c) \in SUBSET Births /\ born + 1 \in New(c)
      /\ \A b \in Births : b \in New(c) <=> born < b /\ b <= born'
  BY <1>1, <1>2 DEF New, Births
<1>4. 1 \in DOMAIN ms /\ (\A i \in DOMAIN ms : ms[i] \in Models)
      /\ born' \in Nat /\ born < born'
      /\ \A b \in New(c) : b - born \in DOMAIN ms
  BY <1>1, <1>2 DEF New
<1>5. ASSUME NEW i \in DOMAIN ms
      PROVE  NewRow(ms, i) \in Row /\ StoredId(ms, i) \in 0 .. MaxRows
  <2>1. ms[i] \in Models
    BY <1>1
  <2>2. model[ms[i]].v \in Values /\ model[ms[i]].at \in 0 .. MaxNow
    BY <2>1 DEF IInv, TypeInv
  <2>3. StoredId(ms, i) \in 0 .. MaxRows
    BY <1>1, <1>2, StoredIdType
  <2> QED BY <2>2, <2>3 DEF NewRow, Row
<1>6. \A b \in New(c) : NewRow(ms, b - born) \in Row /\ StoredId(ms, b - born) \in 0 .. MaxRows
  BY <1>4, <1>5
<1>7. Inserted(c) \in [Births -> Row]
  BY <1>6, ViewType DEF Inserted, IInv
<1> QED BY <1>1, <1>2, <1>3, <1>4, <1>6, <1>7

\* What an Insert leaves of the rows, the transactions and the calls.
LEMMA InsertStep ==
    ASSUME IInv, BirthInv, NEW c \in Clients, ExecInsert(c)
    PROVE  /\ \A b \in Births \ New(c) : rows'[b] = rows[b]
           /\ \A b \in New(c) : \/ rows'[b] = NewRow(call[c].ms, b - born)
                               \/ ~rows'[b].live
           /\ \A d \in Clients : \A s \in tx'[d].pend :
                \/ s \in tx[d].pend /\ s.birth \in Births \ New(c)
                \/ s.birth \in New(c) /\ s.row = NewRow(call[c].ms, s.birth - born)
           /\ \A d \in Clients : Pending(d) \subseteq Pending(d)'
           /\ \A b \in New(c) :
                b \in Pending(c)' \/ rows'[b] = NewRow(call[c].ms, b - born)
           /\ \A d \in Clients \ {c} : call'[d] = call[d]
           /\ \/ call'[c].pc = "idle"
              \/ /\ call'[c].pc = "affected" /\ call'[c].ms = call[c].ms
                 /\ call'[c].first = born + 1
           /\ UNCHANGED <<kind, database, model, sure>>
<1> DEFINE ms == call[c].ms
           N == New(c)
           table == Inserted(c)
<1>1. /\ TypeInv /\ LockInv /\ born \in Nat /\ N \in SUBSET Births
      /\ \A b \in Births : b \in N <=> born < b /\ b <= born'
      /\ table \in [Births -> Row] /\ Write(c, N, table)
  BY InsertedType DEF IInv
<1>2. \A b \in N : table[b] = NewRow(ms, b - born)
  BY <1>1 DEF Inserted
<1>3. \A d \in Clients : \A s \in tx[d].pend : s.birth \in Births \ N
  <2>1. \A d \in Clients : \A s \in tx[d].pend : s.birth \in Births /\ s.birth <= born
    BY <1>1, NameTypes DEF BirthInv
  <2> QED BY <1>1, <2>1 DEF Births
<1>4. \A b \in N : ~rows[b].live
  BY <1>1 DEF BirthInv
<1> HIDE DEF N, table, ms
<1>5. /\ \A d \in Clients : \A s \in tx'[d].pend :
           s \in tx[d].pend \/ (s.birth \in N /\ s.row = table[s.birth])
      /\ \A b \in Births :
           rows'[b] = rows[b] \/ (b \in N /\ rows'[b] = table[b] /\ View(c)[b] = rows[b])
      /\ \A d \in Clients : Pending(d) \subseteq Pending(d)'
  BY <1>1, WriteRows
<1>6. ASSUME NEW b \in N
      PROVE  b \in Pending(c)' \/ rows'[b] = table[b]
  <2>1. CASE tx[c].open
    <3> DEFINE new == {[birth |-> a, row |-> table[a]] : a \in N}
    <3>1. tx \in [Clients -> Transaction]
      BY <1>1 DEF TypeInv, Transaction
    <3>2. tx' = [tx EXCEPT ![c].held = @ \cup N,
                           ![c].pend = {s \in @ : s.birth \notin N} \cup new]
      BY <1>1, <2>1 DEF Write
    <3>3. [birth |-> b, row |-> table[b]] \in tx'[c].pend
      BY <3>1, <3>2 DEF Transaction
    <3> QED BY <3>3 DEF Pending
  <2>2. CASE ~tx[c].open
    BY <1>1, <2>2 DEF Write
  <2> QED BY <2>1, <2>2
<1>7. /\ \A d \in Clients \ {c} : call'[d] = call[d]
      /\ \/ call'[c].pc = "idle"
         \/ /\ call'[c].pc = "affected" /\ call'[c].ms = call[c].ms
            /\ call'[c].first = born + 1
  <2>1. call \in [Clients -> Calls]
    BY <1>1 DEF TypeInv, Calls
  <2>2. \/ call' = [call EXCEPT ![c].pc = "affected", ![c].first = born + 1]
        \/ call' = [call EXCEPT ![c] = NoCall]
    BY DEF ExecInsert
  <2> QED BY <2>1, <2>2 DEF Calls, NoCall
<1>8. UNCHANGED <<kind, database, model, sure>>
  BY DEF ExecInsert
<1>9. \A b \in N : table[b] = NewRow(call[c].ms, b - born)
  BY <1>2 DEF ms
<1>10. \A b \in N : rows'[b] = NewRow(call[c].ms, b - born) \/ ~rows'[b].live
  BY <1>1, <1>4, <1>5, <1>9
<1>11. \A d \in Clients : \A s \in tx'[d].pend :
         \/ s \in tx[d].pend /\ s.birth \in Births \ N
         \/ s.birth \in N /\ s.row = NewRow(call[c].ms, s.birth - born)
  BY <1>3, <1>5, <1>9
<1>12. \A b \in N : b \in Pending(c)' \/ rows'[b] = NewRow(call[c].ms, b - born)
  BY <1>6, <1>9
<1>13. \A b \in Births \ N : rows'[b] = rows[b]
  BY <1>5
<1> QED BY <1>5, <1>7, <1>8, <1>10, <1>11, <1>12, <1>13 DEF N

LEMMA InsertRows ==
    ASSUME IInv, BirthInv, PendInv, UniqueInv, Keys = {"id"},
           NEW Ids \in RowIds, StoredInv(Ids), SureInv(Ids),
           NEW c \in Clients, ExecInsert(c)
    PROVE  /\ UniqueInv'
           /\ \E ids \in RowIds : ids = NewIds(Ids, c) /\ StoredInv(ids)' /\ SureInv(ids)'
<1> DEFINE ms == call[c].ms
           N == New(c)
<1>1. PICK ids : ids = NewIds(Ids, c)
  OBVIOUS
<1>2. /\ TypeInv /\ LockInv /\ call[c].pc = "exec"
      /\ ms \in Seq(Models) /\ 1 \in DOMAIN ms /\ \A i \in DOMAIN ms : ms[i] \in Models
      /\ born \in Nat /\ born' \in Nat /\ born < born'
      /\ N \in SUBSET Births /\ born + 1 \in N
      /\ \A b \in Births : b \in N <=> born < b /\ b <= born'
      /\ \A b \in N : b - born \in DOMAIN ms /\ StoredId(ms, b - born) \in 0 .. MaxRows
      /\ Inserted(c) \in [Births -> Row] /\ Write(c, N, Inserted(c))
  BY InsertedType DEF IInv, ExecInsert
<1>3. UniqueInv'
  <2>1. \A b \in Births \ N : Inserted(c)[b] = View(c)[b]
    BY DEF Inserted
  <2> HIDE DEF N
  <2> QED BY <1>2, <2>1, WriteUnique
<1>4. ids \in RowIds
  BY <1>1, <1>2 DEF RowIds, NewIds
<1>5. /\ \A b \in N : ids[b] = StoredId(ms, b - born)
      /\ \A b \in Births \ N : ids[b] = Ids[b]
  BY <1>1, <1>2 DEF NewIds
<1>6. /\ \A b \in Births : b <= born => b \notin N
      /\ \A b \in Births : b \in Nat
  BY <1>2 DEF Births
<1>7. \A d \in Clients : Busy(d) => call[d].first \in Births \ N
  BY <1>6 DEF IInv, IdInv, BirthInv, Busy
<1>8. \A i \in DOMAIN ms : NewRow(ms, i).id = StoredId(ms, i)
  BY DEF NewRow
<1> HIDE DEF ms, N
<1>9. \A b \in N : b - born \in DOMAIN ms /\ ms[b - born] \in Models
  <2>1. \A i \in DOMAIN ms : ms[i] \in Models
    BY <1>2
  <2>2. \A b \in N : b - born \in DOMAIN ms
    BY <1>2
  <2> QED BY <2>1, <2>2
<1>10. /\ \A b \in Births \ N : rows'[b] = rows[b]
       /\ \A b \in N : rows'[b] = NewRow(ms, b - born) \/ ~rows'[b].live
       /\ \A d \in Clients : \A s \in tx'[d].pend :
            \/ s \in tx[d].pend /\ s.birth \in Births \ N
            \/ s.birth \in N /\ s.row = NewRow(ms, s.birth - born)
       /\ \A d \in Clients : Pending(d) \subseteq Pending(d)'
       /\ \A b \in N : b \in Pending(c)' \/ rows'[b] = NewRow(ms, b - born)
       /\ \A d \in Clients \ {c} : call'[d] = call[d]
       /\ \/ call'[c].pc = "idle"
          \/ call'[c].pc = "affected" /\ call'[c].ms = ms /\ call'[c].first = born + 1
       /\ UNCHANGED <<kind, database, model, sure>>
  BY InsertStep DEF ms, N
<1>11. Generates' = Generates
  BY <1>10 DEF Generates, FlagFields
<1>12. \A d \in Clients : Busy(d)' =>
         \/ d = c /\ call'[d].ms = ms /\ call'[d].first = born + 1
         \/ d # c /\ Busy(d) /\ call'[d] = call[d]
  BY <1>10 DEF Busy
<1>13. StoredInv(ids)'
  <2>1. \A b \in Births : rows'[b].live => rows'[b].id = ids[b]
    BY <1>2, <1>5, <1>8, <1>10 DEF StoredInv
  <2>2. \A d \in Clients : \A s \in tx'[d].pend : s.row.id = ids[s.birth]
    BY <1>2, <1>5, <1>8, <1>10 DEF StoredInv
  <2>3. ASSUME NEW d \in Clients, Busy(d)'
        PROVE  \/ call'[d].first \in Pending(d)'
               \/ rows'[call'[d].first].id = ids[call'[d].first]
    <3>1. CASE d = c /\ call'[d].first = born + 1
      BY <1>2, <1>5, <1>8, <1>10, <3>1
    <3>2. CASE d # c /\ Busy(d) /\ call'[d] = call[d]
      BY <1>5, <1>7, <1>10, <3>2 DEF StoredInv
    <3> QED BY <1>12, <2>3, <3>1, <3>2
  <2>4. ASSUME Generates, NEW b \in Births, b <= born'
        PROVE  ids[b] > 0
    <3>1. CASE b \in N
      <4> DEFINE i == b - born
      <4>1. i \in DOMAIN ms /\ nextId \in Nat \ {0} /\ model[ms[i]].id \in Nat
        <5>1. i \in DOMAIN ms /\ ms[i] \in Models
          BY <1>9, <3>1
        <5>2. TypeInv
          BY <1>2
        <5>3. nextId \in Nat \ {0}
          BY <5>2 DEF TypeInv
        <5>4. \A m \in Models : model[m].id \in Nat
          BY <5>2, NameTypes
        <5> QED BY <5>1, <5>3, <5>4
      <4>2. Cardinality({j \in 1 .. i - 1 : model[ms[j]].id = 0}) \in Nat
        <5>1. i - 1 \in Int
          BY <1>2, <1>6, <3>1
        <5>2. IsFiniteSet(1 .. i - 1)
          BY <5>1, FS_Interval
        <5>3. IsFiniteSet({j \in 1 .. i - 1 : model[ms[j]].id = 0})
          BY <5>2, FS_Subset
        <5> QED BY <5>3, FS_CardinalityType
      <4>3. StoredId(ms, i) > 0
        BY <2>4, <4>1, <4>2 DEF StoredId
      <4> QED BY <1>5, <3>1, <4>3
    <3>2. CASE b \notin N
      <4>1. b <= born
        BY <1>2, <1>6, <2>4, <3>2
      <4> QED BY <1>5, <2>4, <3>2, <4>1 DEF StoredInv
    <3> QED BY <3>1, <3>2
  <2> QED BY <1>11, <2>1, <2>2, <2>3, <2>4 DEF StoredInv
<1>14. SureInv(ids)'
  <2>1. \A b \in Births : \A m \in sure[b] : b <= born /\ b \notin N
    BY <1>6 DEF SureInv
  <2>2. \A b \in Births : \A m \in sure[b] :
          b <= born' /\ (ids[b] < IdRange => model[m].id = ids[b])
    BY <1>2, <1>5, <1>6, <2>1 DEF SureInv
  <2>3. \A a, b \in Births : a < b =>
          \A m \in sure[a] \cap sure[b] : ids[a] < IdRange => ids[b] < IdRange
    BY <1>5, <2>1 DEF SureInv
  <2>4. ASSUME NEW d \in Clients, call'[d].pc # "idle"
        PROVE  \A i \in DOMAIN call'[d].ms : Owner[call'[d].ms[i]] = d
    BY <1>2, <1>10, <2>4 DEF SureInv, ms
  <2>5. ASSUME NEW d \in Clients, Busy(d)'
        PROVE  /\ \A b \in Births : call'[d].ms[1] \in sure[b] => b < call'[d].first
               /\ ~Generates \/ model[call'[d].ms[1]].id # 0
                    => ids[call'[d].first] = model[call'[d].ms[1]].id
    <3>1. CASE d = c /\ call'[d].ms = ms /\ call'[d].first = born + 1
      <4>1. ids[born + 1] = StoredId(ms, 1)
        <5>1. (born + 1) - born = 1
          BY <1>2
        <5> QED BY <1>2, <1>5, <5>1
      <4>2. ~Generates \/ model[ms[1]].id # 0 => ids[born + 1] = model[ms[1]].id
        BY <4>1 DEF StoredId
      <4>3. \A b \in Births : ms[1] \in sure[b] => b < born + 1
        BY <1>2, <1>6, <2>1
      <4> QED BY <3>1, <4>2, <4>3
    <3>2. CASE d # c /\ Busy(d) /\ call'[d] = call[d]
      BY <1>5, <1>7, <3>2 DEF SureInv
    <3> QED BY <1>12, <2>5, <3>1, <3>2
  <2> QED BY <1>10, <1>11, <2>2, <2>3, <2>4, <2>5 DEF SureInv
<1> QED BY <1>1, <1>3, <1>4, <1>13, <1>14
-----------------------------------------------------------------------------
(* Created times *)

LEMMA IsAuto == ASSUME TypeInv, SingleGenerated PROVE kind = "auto"
<1>1. kind \in DOMAIN Flags
  <2>1. <<kind, database>> \in (DOMAIN Flags) \X {"mysql", "postgres", "sqlite"}
    BY DEF TypeInv
  <2> QED BY <2>1
<1>2. kind \in {"auto", "manual", "composite", "none"}
  BY <1>1 DEF Flags
<1>3. Keys = {"id"} /\ "auto_increment" \in Flags[kind]["id"]
  BY DEF SingleGenerated, FlagFields
<1>4. kind # "manual" /\ kind # "none"
  BY <1>3 DEF Flags
<1>5. kind = "composite" => "v" \in Keys
  BY DEF Flags, Keys, FlagFields, Fields
<1> QED BY <1>2, <1>3, <1>4, <1>5

\* The time of such a model is filled when it is inserted, once.
LEMMA AutoFills ==
    ASSUME TypeInv, SingleGenerated, NEW m \in [id : 0 .. IdRange - 1, v : Values, at : 0 .. MaxNow]
    PROVE  /\ FilledForUpdate(m) = m
           /\ FilledForInsert(m).at # 0
           /\ m.at # 0 => FilledForInsert(m).at = m.at
<1>1. kind = "auto"
  BY IsAuto
<1>2. "at" \in FlagFields("created") /\ "at" \notin FlagFields("updated")
  BY <1>1 DEF FlagFields, Flags, Fields
<1>3. calls \in Nat
  BY DEF TypeInv
<1>4. Now # 0
  BY <1>3 DEF Now
<1>5. FilledForInsert(m) = FillCurrentTime(m) /\ FilledForUpdate(m) = m
  BY <1>2 DEF FilledForInsert, FilledForUpdate
<1> QED BY <1>4, <1>5 DEF FillCurrentTime

LEMMA TimesType ==
    ASSUME TypeInv, NEW Ids \in RowIds, NEW Times \in IdTimes
    PROVE  /\ \A m \in Models : model[m].id <= MaxRows => Times[model[m].id] # 0
           /\ \A b \in Births : Times[Ids[b]] # 0
BY NameTypes DEF RowIds, IdTimes

LEMMA ViewAt ==
    ASSUME TypeInv, NEW Ids, NEW Times, TimeInv(Ids, Times), NEW c \in Clients,
           NEW b \in Births, View(c)[b].live
    PROVE  View(c)[b].at = Times[Ids[b]]
<1>1. CASE b \notin Pending(c) /\ View(c)[b] = rows[b]
  BY <1>1 DEF TimeInv
<1>2. CASE \E s \in tx[c].pend : s.birth = b /\ View(c)[b] = s.row
  BY <1>2 DEF TimeInv
<1> QED BY <1>1, <1>2, ViewCases

\* A write of the created times the rows have.
LEMMA WriteTimes ==
    ASSUME TypeInv, LockInv, NEW Ids, NEW Times, TimeInv(Ids, Times), NEW c \in Clients,
           NEW touched \in SUBSET Births, NEW table \in [Births -> Row],
           \A b \in touched : View(c)[b].live /\ table[b].at = Times[Ids[b]],
           Write(c, touched, table),
           UNCHANGED <<model, born, nextId, call, stands>>
    PROVE  TimeInv(Ids, Times)'
<1>1. /\ \A d \in Clients : \A s \in tx'[d].pend :
           s \in tx[d].pend \/ (s.birth \in touched /\ s.row = table[s.birth])
      /\ \A b \in Births :
           rows'[b] = rows[b] \/ (b \in touched /\ rows'[b] = table[b] /\ View(c)[b] = rows[b])
      /\ \A d \in Clients : Pending(d) \subseteq Pending(d)'
  BY WriteRows
<1>2. \A b \in Births : rows'[b].live => rows'[b].at = Times[Ids[b]]
  BY <1>1 DEF TimeInv
<1>3. \A d \in Clients : \A s \in tx'[d].pend : s.row.at = Times[Ids[s.birth]]
  BY <1>1 DEF TimeInv
<1> QED BY <1>2, <1>3 DEF TimeInv, Busy

LEMMA EndTimes ==
    ASSUME TypeInv, NEW Ids, NEW Times, TimeInv(Ids, Times), NEW c \in Clients,
           tx' = [tx EXCEPT ![c] = NoTx], rows' = rows \/ rows' = View(c),
           UNCHANGED <<model, born, nextId, call, stands>>
    PROVE  TimeInv(Ids, Times)'
<1>1. tx'[c].pend = {} /\ \A d \in Clients \ {c} : tx'[d].pend = tx[d].pend
  BY DEF TypeInv, NoTx
<1>2. \A b \in Births : View(c)[b].live => View(c)[b].at = Times[Ids[b]]
  BY ViewAt
<1>3. \A b \in Births : rows'[b].live => rows'[b].at = Times[Ids[b]]
  BY <1>2 DEF TimeInv
<1>4. \A d \in Clients : \A s \in tx'[d].pend : s.row.at = Times[Ids[s.birth]]
  BY <1>1 DEF TimeInv
<1> QED BY <1>3, <1>4 DEF TimeInv, Busy

\* Times that are set stay, and those of an Insert are set before its statement.
LEMMA TimesStay ==
    ASSUME IInv, NEW Ids \in RowIds, NEW Times \in IdTimes, TimeInv(Ids, Times),
           UNCHANGED <<rows, born, nextId, stands>>,
           \A c \in Clients : tx'[c].pend = tx[c].pend,
           \A m \in Models : /\ model'[m].id = model[m].id
                             /\ model[m].at # 0 => model'[m].at = model[m].at,
           \A c \in Clients : Busy(c)' => /\ Busy(c) /\ call'[c].first = call[c].first
                                          /\ call'[c].ms = call[c].ms,
           \A c \in Clients : call'[c].pc = "exec" =>
             \A i \in DOMAIN call'[c].ms : model'[call'[c].ms[i]].at # 0
    PROVE  TimeInv(Ids, Times)'
<1>1. /\ \A m \in Models : model[m].id \in 0 .. MaxRows
      /\ \A c \in Clients : Busy(c) => call[c].ms[1] \in Models /\ call[c].first \in Births
  <2>1. ASSUME NEW c \in Clients, Busy(c)
        PROVE  call[c].ms[1] \in Models /\ call[c].first \in Births
    <3>1. call[c].ms \in Seq(Models) /\ Len(call[c].ms) > 0 /\ call[c].first \in Births
      BY <2>1 DEF IInv, TypeInv, IdInv, Busy
    <3> QED BY <3>1
  <2>2. \A m \in Models : model[m].id \in Nat
    BY NameTypes DEF IInv
  <2> QED BY <2>1, <2>2 DEF IInv, IdInv
<1>2. /\ \A m \in Models : Times[model[m].id] # 0
      /\ \A b \in Births : Times[Ids[b]] # 0
  BY <1>1 DEF RowIds, IdTimes
<1>3. \A m \in Models : model'[m].id # 0 =>
        model'[m].id < nextId /\ model'[m].at = Times[model'[m].id]
  BY <1>2 DEF TimeInv
<1>4. ASSUME NEW c \in Clients, Busy(c)', model'[call'[c].ms[1]].id = 0
      PROVE  model'[call'[c].ms[1]].at = Times[Ids[call'[c].first]]
  BY <1>1, <1>2, <1>4 DEF TimeInv
<1>5. \A c \in Clients : \A s \in tx'[c].pend : s.row.at = Times[Ids[s.birth]]
  BY DEF TimeInv
<1>6. /\ \A m \in Models : stands'[m] = NoBirth => model'[m].id = 0
      /\ \A b \in Births : b <= born' => Ids[b] < nextId'
      /\ \A b \in Births : rows'[b].live => rows'[b].at = Times[Ids[b]]
  BY DEF TimeInv
<1> QED BY <1>3, <1>4, <1>5, <1>6 DEF TimeInv

\* A model that is read has the id and the created time of its row.
LEMMA LoadTimes ==
    ASSUME IInv, LockInv, BirthInv, PendInv, NEW Ids \in RowIds, NEW Times \in IdTimes,
           StoredInv(Ids), SureInv(Ids), TimeInv(Ids, Times),
           NEW c \in Clients, NEW m \in Models, Owner[m] = c, Idle(c),
           NEW b \in Births, View(c)[b].live, Load(m, b, View(c)[b]),
           \A d \in Clients : tx'[d].pend = tx[d].pend,
           UNCHANGED <<rows, born, nextId, call>>
    PROVE  TimeInv(Ids, Times)'
<1>1. TypeInv
  BY DEF IInv
<1>2. /\ View(c)[b].id = Ids[b] /\ View(c)[b].at = Times[Ids[b]] /\ b <= born
  BY <1>1, ViewStored, ViewAt, ViewNamed
<1>3. /\ model'[m].id = Ids[b] /\ model'[m].at = Times[Ids[b]] /\ stands'[m] = b
      /\ \A n \in Models \ {m} : model'[n] = model[n] /\ stands'[n] = stands[n]
  BY <1>1, <1>2 DEF Load, TypeInv
<1>4. Ids[b] < nextId /\ b # NoBirth
  BY <1>2 DEF TimeInv, Births, NoBirth
<1>5. ASSUME NEW d \in Clients, call[d].pc # "idle"
      PROVE  \A i \in DOMAIN call[d].ms : call[d].ms[i] \in Models \ {m}
  <2>1. d # c
    BY <1>5 DEF Idle
  <2> QED BY <1>5, <2>1, CallsOwn
<1>6. \A n \in Models : model'[n].id # 0 =>
        model'[n].id < nextId /\ model'[n].at = Times[model'[n].id]
  BY <1>3, <1>4 DEF TimeInv
<1>7. \A n \in Models : stands'[n] = NoBirth => model'[n].id = 0
  BY <1>3, <1>4 DEF TimeInv
<1>8. ASSUME NEW d \in Clients, Busy(d), model'[call[d].ms[1]].id = 0
      PROVE  model'[call[d].ms[1]].at = Times[Ids[call[d].first]]
  <2>1. call[d].ms[1] \in Models \ {m}
    BY <1>5, <1>8, CallsOwn DEF Busy
  <2> QED BY <1>3, <1>8, <2>1 DEF TimeInv
<1>9. ASSUME NEW d \in Clients, call[d].pc = "exec", NEW i \in DOMAIN call[d].ms
      PROVE  model'[call[d].ms[i]].at # 0
  BY <1>3, <1>5, <1>9 DEF TimeInv
<1>10. /\ \A a \in Births : a <= born => Ids[a] < nextId
       /\ \A a \in Births : rows[a].live => rows[a].at = Times[Ids[a]]
       /\ \A d \in Clients : \A s \in tx[d].pend : s.row.at = Times[Ids[s.birth]]
  BY DEF TimeInv
<1>11. \A d \in Clients : Busy(d)' = Busy(d)
  BY DEF Busy
<1> QED BY <1>6, <1>7, <1>8, <1>9, <1>10, <1>11 DEF TimeInv

\* fillModelID: an id that fits the type arrives, with the time of its row.
LEMMA FillTimes ==
    ASSUME IInv, BirthInv, NEW Ids \in RowIds, NEW Times \in IdTimes,
           StoredInv(Ids), SureInv(Ids), TimeInv(Ids, Times), AllFit,
           NEW c \in Clients, FillModelID(c)
    PROVE  TimeInv(Ids, Times)'
<1> DEFINE m == call[c].ms[1]
           f == call[c].first
<1>1. TypeInv /\ Busy(c) /\ call[c].pc # "idle"
  BY DEF IInv, FillModelID, Busy
<1>2. m \in Models /\ Owner[m] = c /\ f \in Births /\ f <= born
  BY <1>1, CallsOwn DEF IInv, IdInv, BirthInv, Busy
<1>3. call' = [call EXCEPT ![c] = NoCall] /\ UNCHANGED <<rows, born, nextId, tx>>
  BY DEF FillModelID, InsertDone
<1>4. \A d \in Clients : call'[d].pc # "idle" => d # c /\ call'[d] = call[d]
  BY <1>1, <1>3 DEF TypeInv, NoCall
<1>5. \A d \in Clients : Busy(d)' => d # c /\ Busy(d) /\ call'[d] = call[d]
  BY <1>4 DEF Busy
<1>6. CASE UNCHANGED <<model, stands>>
  <2>1. \A d \in Clients : call'[d].pc = "exec" =>
          \A i \in DOMAIN call'[d].ms : model'[call'[d].ms[i]].at # 0
    BY <1>4, <1>6 DEF TimeInv
  <2> QED BY <1>3, <1>5, <1>6, <2>1, TimesStay
<1>7. CASE /\ model[m].id = 0
           /\ model' = [model EXCEPT ![m].id = Narrowed(LastInsertId(c))]
           /\ stands' = [stands EXCEPT ![m] = f]
  <2>1. LastInsertId(c) = Ids[f]
    BY <1>1, <1>2, ViewStored DEF LastInsertId
  <2>2. Ids[f] \in Nat /\ Ids[f] < nextId /\ nextId \in Nat
    <3>1. nextId \in Nat
      BY <1>1 DEF TypeInv
    <3>2. Ids[f] \in Nat
      BY <1>2 DEF RowIds
    <3>3. Ids[f] < nextId
      BY <1>2 DEF TimeInv
    <3> QED BY <3>1, <3>2, <3>3
  <2>3. Narrowed(Ids[f]) = Ids[f]
    BY <2>2 DEF Narrowed, AllFit
  <2>4. model[m].at = Times[Ids[f]]
    BY <1>1, <1>7 DEF TimeInv
  <2>5. /\ model'[m].id = Ids[f] /\ model'[m].at = Times[Ids[f]] /\ stands'[m] # NoBirth
        /\ \A n \in Models \ {m} : model'[n] = model[n] /\ stands'[n] = stands[n]
    <3>1. model \in [Models -> [id : 0 .. IdRange - 1, v : Values, at : 0 .. MaxNow]]
          /\ DOMAIN stands = Models
      BY <1>1 DEF TypeInv
    <3>2. model'[m].id = Ids[f] /\ model'[m].at = model[m].at
      BY <1>2, <1>7, <2>1, <2>3, <3>1
    <3> HIDE DEF m
    <3>3. /\ stands'[m] # NoBirth
          /\ \A n \in Models \ {m} : model'[n] = model[n] /\ stands'[n] = stands[n]
      BY <1>2, <1>7, <3>1 DEF Births, NoBirth
    <3> QED BY <2>4, <3>2, <3>3
  <2>6. ASSUME NEW d \in Clients, d # c, call[d].pc # "idle"
        PROVE  \A i \in DOMAIN call[d].ms : call[d].ms[i] \in Models \ {m}
    BY <1>2, <2>6, CallsOwn
  <2>7. \A n \in Models : model'[n].id # 0 =>
          model'[n].id < nextId /\ model'[n].at = Times[model'[n].id]
    BY <2>2, <2>5 DEF TimeInv
  <2>8. \A n \in Models : stands'[n] = NoBirth => model'[n].id = 0
    BY <2>5 DEF TimeInv
  <2>9. ASSUME NEW d \in Clients, Busy(d)', model'[call'[d].ms[1]].id = 0
        PROVE  model'[call'[d].ms[1]].at = Times[Ids[call'[d].first]]
    <3>1. d # c /\ Busy(d) /\ call'[d] = call[d] /\ call[d].ms[1] \in Models \ {m}
      BY <1>5, <2>6, <2>9, CallsOwn DEF Busy
    <3> QED BY <2>5, <2>9, <3>1 DEF TimeInv
  <2>10. ASSUME NEW d \in Clients, call'[d].pc = "exec", NEW i \in DOMAIN call'[d].ms
         PROVE  model'[call'[d].ms[i]].at # 0
    <3>1. call'[d] = call[d] /\ call[d].ms[i] \in Models \ {m}
      BY <1>4, <2>6, <2>10
    <3> QED BY <2>5, <2>10, <3>1 DEF TimeInv
  <2>11. /\ \A a \in Births : a <= born' => Ids[a] < nextId'
         /\ \A a \in Births : rows'[a].live => rows'[a].at = Times[Ids[a]]
         /\ \A d \in Clients : \A s \in tx'[d].pend : s.row.at = Times[Ids[s.birth]]
    BY <1>3 DEF TimeInv
  <2> QED BY <1>3, <2>7, <2>8, <2>9, <2>10, <2>11 DEF TimeInv
<1> QED BY <1>6, <1>7 DEF FillModelID

\* A statement's generated ids are above those of the table, below its counter
\* afterwards, and ascend.
LEMMA GeneratedIds ==
    ASSUME IInv, Generates, NEW ms \in Seq(Models), NEW i \in DOMAIN ms, model[ms[i]].id = 0
    PROVE  /\ StoredId(ms, i) \in Nat /\ nextId <= StoredId(ms, i)
           /\ StoredId(ms, i) < nextId + Cardinality({j \in DOMAIN ms : model[ms[j]].id = 0})
           /\ \A j \in DOMAIN ms :
                i < j /\ model[ms[j]].id = 0 => StoredId(ms, i) < StoredId(ms, j)
<1> DEFINE Before(k) == {j \in 1 .. k - 1 : model[ms[j]].id = 0}
           all == {j \in DOMAIN ms : model[ms[j]].id = 0}
<1>1. DOMAIN ms = 1 .. Len(ms) /\ Len(ms) \in Nat /\ nextId \in Nat
  BY DEF IInv, TypeInv
<1>2. \A k \in DOMAIN ms : k \in Int /\ k - 1 \in Int
  BY <1>1
<1>3. \A k \in DOMAIN ms : IsFiniteSet(Before(k)) /\ Cardinality(Before(k)) \in Nat
  <2>1. \A k \in DOMAIN ms : IsFiniteSet(1 .. k - 1)
    BY <1>2, FS_Interval
  <2>2. \A k \in DOMAIN ms : IsFiniteSet(Before(k))
    BY <2>1, FS_Subset
  <2> QED BY <2>2, FS_CardinalityType
<1>4. \A k \in DOMAIN ms : model[ms[k]].id = 0 => StoredId(ms, k) = nextId + Cardinality(Before(k))
  BY DEF StoredId
<1>5. IsFiniteSet(all)
  <2>1. IsFiniteSet(1 .. Len(ms))
    BY <1>1, FS_Interval
  <2> QED BY <1>1, <2>1, FS_Subset
\* One more is counted before whatever comes after i.
<1>6. ASSUME NEW S, IsFiniteSet(S), Before(i) \subseteq S, i \in S
      PROVE  Cardinality(Before(i)) < Cardinality(S)
  <2>1. i \notin Before(i)
    BY <1>2
  <2>2. IsFiniteSet(Before(i) \cup {i})
        /\ Cardinality(Before(i) \cup {i}) = Cardinality(Before(i)) + 1
    <3>1. IsFiniteSet(Before(i))
      BY <1>3
    <3> HIDE DEF Before
    <3> QED BY <2>1, <3>1, FS_AddElement
  <2>3. Cardinality(Before(i) \cup {i}) <= Cardinality(S)
    BY <1>6, FS_Subset
  <2>4. Cardinality(S) \in Nat /\ Cardinality(Before(i)) \in Nat
    BY <1>3, <1>6, FS_CardinalityType
  <2> HIDE DEF Before
  <2> QED BY <2>2, <2>3, <2>4
<1>7. Cardinality(Before(i)) < Cardinality(all) /\ Cardinality(all) \in Nat
  <2>1. Before(i) \subseteq all /\ i \in all
    BY <1>1
  <2> HIDE DEF Before, all
  <2> QED BY <1>5, <1>6, <2>1, FS_CardinalityType
<1>8. ASSUME NEW j \in DOMAIN ms, i < j, model[ms[j]].id = 0
      PROVE  StoredId(ms, i) < StoredId(ms, j)
  <2>1. Before(i) \subseteq Before(j) /\ i \in Before(j)
    BY <1>1, <1>8
  <2> HIDE DEF Before
  <2>2. Cardinality(Before(i)) < Cardinality(Before(j))
    BY <1>3, <1>6, <2>1
  <2>3. StoredId(ms, i) = nextId + Cardinality(Before(i))
        /\ StoredId(ms, j) = nextId + Cardinality(Before(j))
    BY <1>4, <1>8
  <2> QED BY <1>1, <1>3, <2>2, <2>3
<1> HIDE DEF Before
<1>9. StoredId(ms, i) = nextId + Cardinality(Before(i)) /\ Cardinality(Before(i)) \in Nat
  BY <1>3, <1>4
<1> QED BY <1>1, <1>7, <1>8, <1>9

\* The rows of an Insert have the times of its models: each generated id is
\* that of one model.
LEMMA InsertTimes ==
    ASSUME IInv, BirthInv, Generates, NEW Ids \in RowIds, NEW Times \in IdTimes,
           TimeInv(Ids, Times), NEW c \in Clients, ExecInsert(c), NEW ids, ids = NewIds(Ids, c)
    PROVE  \E times \in IdTimes : TimeInv(ids, times)'
<1> DEFINE ms == call[c].ms
           N == New(c)
           Has(k) == {i \in DOMAIN ms : model[ms[i]].id = 0 /\ StoredId(ms, i) = k}
           given == [k \in 0 .. MaxRows |->
                       IF Has(k) # {} THEN model[ms[CHOOSE i \in Has(k) : TRUE]].at ELSE Times[k]]
<1>1. /\ call[c].pc = "exec" /\ ms \in Seq(Models) /\ 1 \in DOMAIN ms
      /\ \A i \in DOMAIN ms : ms[i] \in Models
      /\ born \in Nat /\ born' \in Nat /\ born < born'
      /\ N \in SUBSET Births /\ born + 1 \in N
      /\ \A b \in Births : b \in N <=> born < b /\ b <= born'
      /\ \A b \in N : b - born \in DOMAIN ms /\ StoredId(ms, b - born) \in 0 .. MaxRows
  BY InsertedType DEF ExecInsert
<1>2. \A m \in Models : model[m].id \in 0 .. MaxRows /\ model[m].at \in 0 .. MaxNow
  <2>1. \A m \in Models : model[m].id \in Nat /\ model[m].id <= MaxRows
    BY NameTypes DEF IInv, IdInv
  <2>2. \A m \in Models : model[m].at \in 0 .. MaxNow
    BY DEF IInv, TypeInv
  <2> QED BY <2>1, <2>2
<1>3. \A i \in DOMAIN ms : model[ms[i]].at \in 1 .. MaxNow
  <2>1. \A i \in DOMAIN ms : model[ms[i]].at # 0
    BY <1>1 DEF TimeInv
  <2>2. \A i \in DOMAIN ms : model[ms[i]].at \in 0 .. MaxNow
    BY <1>1, <1>2
  <2> QED BY <2>1, <2>2
<1>4. nextId \in Nat /\ nextId' \in Nat /\ nextId <= nextId'
      /\ \A i \in DOMAIN ms : model[ms[i]].id = 0 =>
           StoredId(ms, i) \in Nat /\ nextId <= StoredId(ms, i) /\ StoredId(ms, i) < nextId'
  <2> DEFINE all == {j \in DOMAIN ms : model[ms[j]].id = 0}
  <2>1. nextId' = nextId + Cardinality(all)
    BY DEF ExecInsert
  <2>2. nextId \in Nat /\ Cardinality(all) \in Nat
    <3>1. Cardinality(all) \in Nat
      BY <1>1, CounterType
    <3>2. nextId \in Nat
      BY DEF IInv, TypeInv
    <3> QED BY <3>1, <3>2
  <2>3. \A i \in DOMAIN ms : model[ms[i]].id = 0 =>
          /\ StoredId(ms, i) \in Nat /\ nextId <= StoredId(ms, i)
          /\ StoredId(ms, i) < nextId + Cardinality(all)
    BY <1>1, GeneratedIds
  <2> HIDE DEF all
  <2> QED BY <2>1, <2>2, <2>3
<1>5. ASSUME NEW i \in DOMAIN ms, NEW j \in DOMAIN ms, model[ms[i]].id = 0,
             model[ms[j]].id = 0, StoredId(ms, i) = StoredId(ms, j)
      PROVE  i = j
  <2>1. \A h, k \in DOMAIN ms :
          h < k /\ model[ms[h]].id = 0 /\ model[ms[k]].id = 0 => StoredId(ms, h) < StoredId(ms, k)
    BY <1>1, GeneratedIds
  <2>2. DOMAIN ms \subseteq Int
    BY <1>1
  <2>3. StoredId(ms, i) \in Nat
    BY <1>4, <1>5
  <2> HIDE DEF ms
  <2> QED BY <1>5, <2>1, <2>2, <2>3
<1> HIDE DEF ms, N
<1>6. given \in IdTimes
  <2>1. ASSUME NEW k \in 0 .. MaxRows
        PROVE  (IF Has(k) # {} THEN model[ms[CHOOSE i \in Has(k) : TRUE]].at ELSE Times[k])
                 \in 1 .. MaxNow
    <3>1. CASE Has(k) # {}
      <4>1. (CHOOSE i \in Has(k) : TRUE) \in Has(k)
        BY <3>1
      <4>2. (CHOOSE i \in Has(k) : TRUE) \in DOMAIN ms
        BY <4>1
      <4> HIDE DEF Has
      <4> QED BY <1>3, <3>1, <4>2
    <3>2. CASE Has(k) = {}
      BY <3>2 DEF IdTimes
    <3> QED BY <3>1, <3>2
  <2> HIDE DEF Has
  <2> QED BY <2>1 DEF IdTimes
<1>7. ASSUME NEW k \in 0 .. MaxRows, k < nextId
      PROVE  given[k] = Times[k]
  <2>1. Has(k) = {}
    BY <1>4, <1>7
  <2> HIDE DEF Has
  <2> QED BY <2>1
<1>8. ASSUME NEW i \in DOMAIN ms, model[ms[i]].id = 0, StoredId(ms, i) \in 0 .. MaxRows
      PROVE  given[StoredId(ms, i)] = model[ms[i]].at
  <2>1. PICK k \in 0 .. MaxRows : k = StoredId(ms, i)
    BY <1>8
  <2>2. i \in Has(k)
    BY <1>8, <2>1
  <2>3. (CHOOSE j \in Has(k) : TRUE) \in Has(k)
    BY <2>2
  <2>4. (CHOOSE j \in Has(k) : TRUE) = i
    BY <1>5, <1>8, <2>1, <2>3
  <2>5. given[k] = model[ms[CHOOSE j \in Has(k) : TRUE]].at
    <3> HIDE DEF Has
    <3> QED BY <2>2
  <2> QED BY <2>1, <2>4, <2>5
<1> HIDE DEF given, Has
<1>9. PICK times : times = given
  OBVIOUS
<1>10. \A i \in DOMAIN ms : StoredId(ms, i) \in 0 .. MaxRows =>
        times[StoredId(ms, i)] = model[ms[i]].at /\ StoredId(ms, i) < nextId'
  <2>1. ASSUME NEW i \in DOMAIN ms, StoredId(ms, i) \in 0 .. MaxRows, model[ms[i]].id # 0
        PROVE  times[StoredId(ms, i)] = model[ms[i]].at /\ StoredId(ms, i) < nextId'
    <3>1. StoredId(ms, i) = model[ms[i]].id
      BY <2>1 DEF StoredId
    <3>2. ms[i] \in Models
      BY <1>1, <2>1
    <3>3. model[ms[i]].id < nextId /\ model[ms[i]].at = Times[model[ms[i]].id]
      BY <2>1, <3>2 DEF TimeInv
    <3>4. model[ms[i]].id \in Nat
      BY <2>1, <3>1
    <3> QED BY <1>4, <1>7, <1>9, <2>1, <3>1, <3>3, <3>4
  <2> QED BY <1>4, <1>8, <1>9, <2>1
<1>11. /\ \A b \in N : ids[b] = StoredId(ms, b - born)
       /\ \A b \in Births \ N : ids[b] = Ids[b]
  BY <1>1 DEF NewIds, ms, N
<1>12. /\ \A b \in Births : b <= born => b \notin N
       /\ \A b \in Births : b \in Nat
  BY <1>1 DEF Births
<1>13. \A d \in Clients : Busy(d) => call[d].first \in Births \ N /\ call[d].first <= born
  BY <1>12 DEF IInv, IdInv, BirthInv, Busy
<1>14. /\ \A b \in Births \ N : rows'[b] = rows[b]
       /\ \A b \in N : rows'[b] = NewRow(ms, b - born) \/ ~rows'[b].live
       /\ \A d \in Clients : \A s \in tx'[d].pend :
            \/ s \in tx[d].pend /\ s.birth \in Births \ N
            \/ s.birth \in N /\ s.row = NewRow(ms, s.birth - born)
       /\ \A d \in Clients : Pending(d) \subseteq Pending(d)'
       /\ \A b \in N : b \in Pending(c)' \/ rows'[b] = NewRow(ms, b - born)
       /\ \A d \in Clients \ {c} : call'[d] = call[d]
       /\ \/ call'[c].pc = "idle"
          \/ call'[c].pc = "affected" /\ call'[c].ms = ms /\ call'[c].first = born + 1
       /\ UNCHANGED <<kind, database, model, sure>>
  BY InsertStep DEF ms, N
\* The rows known before have ids below the counter, whose times stand.
<1>15. ASSUME NEW b \in Births \ N, b <= born
       PROVE  ids[b] = Ids[b] /\ Ids[b] < nextId /\ times[Ids[b]] = Times[Ids[b]]
  <2>1. Ids[b] < nextId /\ Ids[b] \in 0 .. MaxRows
    BY <1>15 DEF TimeInv, RowIds
  <2> QED BY <1>7, <1>9, <1>11, <2>1
<1>16. ASSUME NEW b \in N
       PROVE  /\ ids[b] < nextId' /\ times[ids[b]] = model[ms[b - born]].at
              /\ NewRow(ms, b - born).at = model[ms[b - born]].at
  BY <1>1, <1>10, <1>11 DEF NewRow
<1>17. \A m \in Models : model[m].id # 0 =>
         model[m].id < nextId' /\ model[m].at = times[model[m].id]
  <2>1. ASSUME NEW m \in Models, model[m].id # 0
        PROVE  model[m].id < nextId' /\ model[m].at = times[model[m].id]
    <3>1. model[m].id < nextId /\ model[m].at = Times[model[m].id] /\ model[m].id \in 0 .. MaxRows
      BY <1>2, <2>1 DEF TimeInv
    <3> QED BY <1>4, <1>7, <1>9, <3>1
  <2> QED BY <2>1
<1>18. ASSUME NEW m \in Models, stands'[m] = NoBirth
       PROVE  model[m].id = 0
  <2>1. ASSUME NEW i \in DOMAIN ms, ms[i] = m, model[m].id # 0
        PROVE  FALSE
    <3>1. stands'[m] = born + CHOOSE j \in DOMAIN ms : ms[j] = m
      BY <2>1 DEF ExecInsert, ms
    <3>2. (CHOOSE j \in DOMAIN ms : ms[j] = m) \in DOMAIN ms
      BY <2>1
    <3>3. DOMAIN ms \subseteq Nat \ {0}
      BY <1>1
    <3> QED BY <1>1, <1>18, <3>1, <3>2, <3>3 DEF NoBirth
  <2>2. CASE ~\E i \in DOMAIN ms : ms[i] = m /\ model[m].id # 0
    <3>1. stands'[m] = stands[m]
      BY <2>2 DEF ExecInsert, ms
    <3> QED BY <1>18, <3>1 DEF TimeInv
  <2> QED BY <2>1, <2>2
<1>19. \A b \in Births : b <= born' => ids[b] < nextId'
  <2>1. ASSUME NEW b \in Births \ N, b <= born'
        PROVE  ids[b] < nextId'
    <3>1. b <= born /\ Ids[b] \in Nat
      BY <1>1, <1>12, <2>1 DEF RowIds
    <3> QED BY <1>4, <1>15, <3>1
  <2> QED BY <1>16, <2>1
<1>20. \A b \in Births : rows'[b].live => rows'[b].at = times[ids[b]]
  <2>1. ASSUME NEW b \in Births \ N, rows'[b].live
        PROVE  rows'[b].at = times[ids[b]]
    <3>1. rows'[b] = rows[b] /\ rows[b].live /\ b <= born
      BY <1>1, <1>12, <1>14, <2>1 DEF BirthInv
    <3> QED BY <1>15, <2>1, <3>1 DEF TimeInv
  <2> QED BY <1>14, <1>16, <2>1
<1>21. ASSUME NEW d \in Clients, NEW s \in tx'[d].pend
       PROVE  s.row.at = times[ids[s.birth]]
  <2>1. CASE s \in tx[d].pend /\ s.birth \in Births \ N
    <3>1. s.birth <= born
      BY <2>1 DEF BirthInv
    <3> QED BY <1>15, <2>1, <3>1 DEF TimeInv
  <2>2. CASE s.birth \in N /\ s.row = NewRow(ms, s.birth - born)
    BY <1>16, <2>2
  <2> QED BY <1>14, <2>1, <2>2
<1>22. ASSUME NEW d \in Clients, Busy(d)', model[call'[d].ms[1]].id = 0
       PROVE  model[call'[d].ms[1]].at = times[ids[call'[d].first]]
  <2>1. CASE d = c
    <3>1. call'[c].ms = ms /\ call'[c].first = born + 1
      BY <1>14, <1>22, <2>1 DEF Busy
    <3>2. (born + 1) - born = 1
      BY <1>1
    <3>3. times[ids[born + 1]] = model[ms[1]].at
      BY <1>1, <1>16, <3>2
    <3> QED BY <2>1, <3>1, <3>3
  <2>2. CASE d # c
    <3>1. Busy(d) /\ call'[d] = call[d]
      BY <1>14, <1>22, <2>2 DEF Busy
    <3>2. call[d].first \in Births \ N /\ call[d].first <= born
      BY <1>13, <3>1
    <3> QED BY <1>15, <1>22, <3>1, <3>2 DEF TimeInv
  <2> QED BY <2>1, <2>2
<1>23. ASSUME NEW d \in Clients, call'[d].pc = "exec", NEW i \in DOMAIN call'[d].ms
       PROVE  model[call'[d].ms[i]].at # 0
  <2>1. d # c /\ call'[d] = call[d]
    BY <1>14, <1>23
  <2> QED BY <1>23, <2>1 DEF TimeInv
<1>24. TimeInv(ids, times)'
  BY <1>14, <1>17, <1>18, <1>19, <1>20, <1>21, <1>22, <1>23 DEF TimeInv
<1> QED BY <1>6, <1>9, <1>24
-----------------------------------------------------------------------------
(* One lemma per action *)

RowInv(Ids) == UniqueInv /\ StoredInv(Ids) /\ SureInv(Ids)
OneKey == IInv /\ BirthInv /\ PendInv /\ NameInv /\ Keys = {"id"}

\* A write to rows that are seen live, which leaves their ids.
LEMMA WriteOne ==
    ASSUME OneKey, NEW Ids \in RowIds, RowInv(Ids), NEW c \in Clients,
           NEW touched \in SUBSET Births, NEW table \in [Births -> Row],
           \A b \in touched : View(c)[b].live /\ table[b].id = View(c)[b].id,
           \A b \in Births \ touched : table[b] = View(c)[b],
           Write(c, touched, table),
           UNCHANGED <<kind, database, model, born, nextId, call, stands, sure>>
    PROVE  /\ RowInv(Ids)'
           /\ \A Times \in IdTimes :
                /\ TimeInv(Ids, Times)
                /\ \A b \in touched : table[b].at = Times[Ids[b]]
                => TimeInv(Ids, Times)'
<1>1. TypeInv /\ LockInv /\ \A d \in Clients : Busy(d) => call[d].first \in Births
  BY DEF OneKey, IInv, IdInv, Busy
<1>2. UniqueInv'
  BY <1>1, WriteUnique DEF OneKey, RowInv
<1>3. StoredInv(Ids)'
  BY <1>1, WriteStored DEF RowInv
<1>4. SureInv(Ids)'
  <2>1. IInv /\ SureInv(Ids)
    BY DEF OneKey, RowInv
  <2>2. /\ \A m \in Models : model'[m].id = model[m].id
        /\ \A d \in Clients : call'[d].pc # "idle" =>
             \A i \in DOMAIN call'[d].ms : Owner[call'[d].ms[i]] = d
        /\ \A d \in Clients : Busy(d)' => /\ Busy(d) /\ call'[d].first = call[d].first
                                         /\ call'[d].ms = call[d].ms
    BY <2>1 DEF SureInv, Busy
  <2> QED BY <2>1, <2>2, SureStays
<1>5. ASSUME NEW Times \in IdTimes, TimeInv(Ids, Times),
             \A b \in touched : table[b].at = Times[Ids[b]]
      PROVE  TimeInv(Ids, Times)'
  BY <1>1, <1>5, WriteTimes
<1> QED BY <1>2, <1>3, <1>4, <1>5 DEF RowInv

LEMMA ExecUpdateOne ==
    ASSUME OneKey, NEW Ids \in RowIds, RowInv(Ids), NEW c \in Clients, ExecUpdate(c)
    PROVE  /\ RowInv(Ids)'
           /\ \A Times \in IdTimes : Timely /\ TimeInv(Ids, Times) => TimeInv(Ids, Times)'
<1> DEFINE last == model[stmt[c][Len(stmt[c])]]
           row == [live |-> TRUE, id |-> last.id, v |-> last.v, at |-> last.at]
           table == [b \in Births |-> IF b \in Updated(c) THEN row ELSE View(c)[b]]
<1>1. TypeInv /\ LockInv /\ View(c) \in [Births -> Row]
  BY ViewType DEF OneKey, IInv
<1>2. stmt[c] \in Seq(Models) /\ stmt[c] # <<>>
  BY <1>1 DEF TypeInv, ExecUpdate
<1>3. Len(stmt[c]) \in DOMAIN stmt[c] /\ stmt[c][Len(stmt[c])] \in Models
  BY <1>2
<1>4. row \in Row
  BY <1>1, <1>3 DEF TypeInv, Row, OneKey, IInv, IdInv
<1>5. ASSUME NEW b \in Updated(c)
      PROVE  View(c)[b].live /\ row.id = View(c)[b].id
  <2>1. View(c)[b].live /\ Meets(c, View(c)[b])
    BY DEF Updated
  <2>2. View(c)[b]["id"] = last["id"]
    BY <1>3, <2>1 DEF Meets, OneKey
  <2> QED BY <2>1, <2>2
<1>6. Updated(c) \in SUBSET Births
  BY DEF Updated
<1>7. ASSUME Timely, NEW Times \in IdTimes, TimeInv(Ids, Times), NEW b \in Updated(c)
      PROVE  row.at = Times[Ids[b]]
  <2>1. b \in Births /\ View(c)[b].id = Ids[b] /\ b <= born
    BY <1>1, <1>5, <1>6, ViewStored, ViewNamed DEF RowInv, OneKey
  <2>2. Ids[b] > 0
    BY <1>7, <2>1 DEF RowInv, StoredInv, Timely
  <2>3. last.id = Ids[b] /\ last.id # 0
    BY <1>5, <2>1, <2>2
  <2>4. last.at = Times[last.id]
    BY <1>3, <1>7, <2>3 DEF TimeInv
  <2> QED BY <2>3, <2>4
<1> HIDE DEF row
<1>8. /\ table \in [Births -> Row]
      /\ \A b \in Updated(c) : View(c)[b].live /\ table[b].id = View(c)[b].id /\ table[b] = row
      /\ \A b \in Births \ Updated(c) : table[b] = View(c)[b]
  BY <1>1, <1>4, <1>5, <1>6
<1>9. Write(c, Updated(c), table)
      /\ UNCHANGED <<kind, database, model, born, nextId, call, stands, sure>>
  BY DEF ExecUpdate, row
<1> HIDE DEF table
<1>10. /\ RowInv(Ids)'
       /\ \A Times \in IdTimes :
            /\ TimeInv(Ids, Times)
            /\ \A b \in Updated(c) : table[b].at = Times[Ids[b]]
            => TimeInv(Ids, Times)'
  BY <1>6, <1>8, <1>9, WriteOne
<1> QED BY <1>7, <1>8, <1>10

\* A write that leaves the ids and the created times.
LEMMA WriteAts ==
    ASSUME OneKey, NEW Ids \in RowIds, RowInv(Ids), NEW c \in Clients,
           NEW touched \in SUBSET Births, NEW table \in [Births -> Row],
           \A b \in touched : /\ View(c)[b].live /\ table[b].id = View(c)[b].id
                             /\ table[b].at = View(c)[b].at,
           \A b \in Births \ touched : table[b] = View(c)[b],
           Write(c, touched, table),
           UNCHANGED <<kind, database, model, born, nextId, call, stands, sure>>
    PROVE  /\ RowInv(Ids)'
           /\ \A Times \in IdTimes : TimeInv(Ids, Times) => TimeInv(Ids, Times)'
<1>1. TypeInv
  BY DEF OneKey, IInv
<1>2. /\ RowInv(Ids)'
      /\ \A Times \in IdTimes :
           /\ TimeInv(Ids, Times)
           /\ \A b \in touched : table[b].at = Times[Ids[b]]
           => TimeInv(Ids, Times)'
  BY WriteOne
<1>3. ASSUME NEW Times \in IdTimes, TimeInv(Ids, Times), NEW b \in touched
      PROVE  table[b].at = Times[Ids[b]]
  <2>1. View(c)[b].at = Times[Ids[b]]
    BY <1>1, <1>3, ViewAt
  <2> QED BY <2>1
<1> QED BY <1>2, <1>3

LEMMA UpdateMapOne ==
    ASSUME OneKey, NEW Ids \in RowIds, RowInv(Ids), NEW c \in Clients,
           NEW id \in 1 .. MaxRows, NEW v \in Values, UpdateMap(c, id, v)
    PROVE  /\ RowInv(Ids)'
           /\ \A Times \in IdTimes : TimeInv(Ids, Times) => TimeInv(Ids, Times)'
<1> DEFINE table == [b \in Births |-> IF b \in WithId(c, id) THEN [View(c)[b] EXCEPT !.v = v]
                                      ELSE View(c)[b]]
<1>1. WithId(c, id) \in SUBSET Births /\ \A b \in WithId(c, id) : View(c)[b].live
  BY DEF WithId
<1>2. View(c) \in [Births -> Row]
  BY ViewType DEF OneKey, IInv
<1>3. /\ table \in [Births -> Row]
      /\ \A b \in WithId(c, id) : /\ table[b].id = View(c)[b].id
                                  /\ table[b].at = View(c)[b].at
      /\ \A b \in Births \ WithId(c, id) : table[b] = View(c)[b]
  BY <1>1, <1>2 DEF Row
<1>4. Write(c, WithId(c, id), table)
      /\ UNCHANGED <<kind, database, model, born, nextId, call, stands, sure>>
  BY DEF UpdateMap
<1> HIDE DEF table
<1> QED BY <1>1, <1>3, <1>4, WriteAts

LEMMA DeleteOne ==
    ASSUME OneKey, NEW Ids \in RowIds, RowInv(Ids), NEW c \in Clients,
           NEW id \in 1 .. MaxRows, Delete(c, id)
    PROVE  /\ RowInv(Ids)'
           /\ \A Times \in IdTimes : TimeInv(Ids, Times) => TimeInv(Ids, Times)'
<1> DEFINE table == [b \in Births |->
                       IF b \in WithId(c, id) THEN [View(c)[b] EXCEPT !.live = FALSE]
                       ELSE View(c)[b]]
<1>1. WithId(c, id) \in SUBSET Births /\ \A b \in WithId(c, id) : View(c)[b].live
  BY DEF WithId
<1>2. View(c) \in [Births -> Row]
  BY ViewType DEF OneKey, IInv
<1>3. /\ table \in [Births -> Row]
      /\ \A b \in WithId(c, id) : /\ table[b].id = View(c)[b].id
                                  /\ table[b].at = View(c)[b].at
      /\ \A b \in Births \ WithId(c, id) : table[b] = View(c)[b]
  BY <1>1, <1>2 DEF Row
<1>4. Write(c, WithId(c, id), table)
      /\ UNCHANGED <<kind, database, model, born, nextId, call, stands, sure>>
  BY DEF Delete
<1> HIDE DEF table
<1> QED BY <1>1, <1>3, <1>4, WriteAts
\* A lock writes nothing.
LEMMA LockPends ==
    ASSUME IInv, NEW c \in Clients, NEW b \in Births,
           tx' = IF tx[c].open THEN Reads(ForUpdate(c, b), c, b) ELSE tx
    PROVE  \A d \in Clients : tx'[d].pend = tx[d].pend
<1>1. tx \in [Clients -> Transaction]
  BY DEF IInv, TypeInv, Transaction
<1>2. PICK t : t = ForUpdate(c, b)
  OBVIOUS
<1>3. \A d \in Clients : t[d].pend = tx[d].pend /\ t \in [Clients -> Transaction]
  BY <1>1, <1>2 DEF ForUpdate, Transaction
<1>4. \A d \in Clients : Reads(t, c, b)[d].pend = t[d].pend
  BY <1>3 DEF Reads, Transaction
<1> QED BY <1>2, <1>3, <1>4

LEMMA LoadOne ==
    ASSUME OneKey, NEW Ids \in RowIds, RowInv(Ids), NEW c \in Clients, NEW m \in Models,
           Owner[m] = c, Idle(c), NEW b \in Births, View(c)[b].live, Load(m, b, View(c)[b]),
           \A d \in Clients : tx'[d].pend = tx[d].pend,
           UNCHANGED <<kind, database, rows, born, nextId, call>>
    PROVE  /\ RowInv(Ids)'
           /\ \A Times \in IdTimes : TimeInv(Ids, Times) => TimeInv(Ids, Times)'
<1>1. IInv /\ LockInv /\ BirthInv /\ PendInv /\ UniqueInv /\ StoredInv(Ids) /\ SureInv(Ids)
  BY DEF OneKey, IInv, RowInv
<1>2. UniqueInv'
  BY <1>1, UniqueStays
<1>3. StoredInv(Ids)'
  BY <1>1, StoredStays DEF Busy
<1>4. SureInv(Ids)'
  BY <1>1, LoadSure
<1>5. ASSUME NEW Times \in IdTimes, TimeInv(Ids, Times)
      PROVE  TimeInv(Ids, Times)'
  BY <1>1, <1>5, LoadTimes
<1> QED BY <1>2, <1>3, <1>4, <1>5 DEF RowInv

LEMMA ReadOne ==
    ASSUME OneKey, NEW Ids \in RowIds, RowInv(Ids), NEW c \in Clients, NEW m \in Models,
           NEW id \in 1 .. MaxRows, Get(c, m, id) \/ Lock(c, m, id)
    PROVE  /\ RowInv(Ids)'
           /\ \A Times \in IdTimes : TimeInv(Ids, Times) => TimeInv(Ids, Times)'
<1>1. PICK b \in WithId(c, id) : Load(m, b, View(c)[b])
  BY DEF Get, Lock
<1>2. b \in Births /\ View(c)[b].live
  BY DEF WithId
<1>3. Owner[m] = c /\ Idle(c) /\ UNCHANGED <<kind, database, rows, born, nextId, call>>
  BY DEF Get, Lock
<1>4. \A d \in Clients : tx'[d].pend = tx[d].pend
  <2>1. CASE Get(c, m, id)
    BY <2>1 DEF Get
  <2>2. CASE Lock(c, m, id)
    <3>1. PICK a \in WithId(c, id) :
            tx' = IF tx[c].open THEN Reads(ForUpdate(c, a), c, a) ELSE tx
      BY <2>2 DEF Lock
    <3> QED BY <3>1, LockPends DEF OneKey, WithId
  <2> QED BY <2>1, <2>2
<1> QED BY <1>1, <1>2, <1>3, <1>4, LoadOne

LEMMA EndOne ==
    ASSUME OneKey, NEW Ids \in RowIds, RowInv(Ids), NEW c \in Clients, Commit(c) \/ Rollback(c)
    PROVE  /\ RowInv(Ids)'
           /\ \A Times \in IdTimes : TimeInv(Ids, Times) => TimeInv(Ids, Times)'
<1>1. /\ TypeInv /\ LockInv /\ IInv /\ UniqueInv /\ StoredInv(Ids) /\ SureInv(Ids)
      /\ \A d \in Clients : Busy(d) => call[d].first \in Births
  BY DEF OneKey, IInv, IdInv, RowInv, Busy
<1>2. /\ Idle(c) /\ tx' = [tx EXCEPT ![c] = NoTx] /\ (rows' = rows \/ rows' = View(c))
      /\ UNCHANGED <<kind, database, model, born, nextId, call, stands, sure>>
  BY DEF Commit, Rollback
<1>3. UniqueInv'
  BY <1>1, <1>2, EndUnique
<1>4. StoredInv(Ids)'
  BY <1>1, <1>2, EndStored
<1>5. SureInv(Ids)'
  <2>1. /\ \A m \in Models : model'[m].id = model[m].id
        /\ \A d \in Clients : call'[d].pc # "idle" =>
             \A i \in DOMAIN call'[d].ms : Owner[call'[d].ms[i]] = d
        /\ \A d \in Clients : Busy(d)' => /\ Busy(d) /\ call'[d].first = call[d].first
                                         /\ call'[d].ms = call[d].ms
    BY <1>1, <1>2 DEF SureInv, Busy
  <2> QED BY <1>1, <1>2, <2>1, SureStays
<1>6. ASSUME NEW Times \in IdTimes, TimeInv(Ids, Times)
      PROVE  TimeInv(Ids, Times)'
  BY <1>1, <1>2, <1>6, EndTimes
<1> QED BY <1>3, <1>4, <1>5, <1>6 DEF RowInv

LEMMA FillOne ==
    ASSUME OneKey, NEW Ids \in RowIds, RowInv(Ids), NEW c \in Clients, FillModelID(c)
    PROVE  /\ RowInv(Ids)'
           /\ \A Times \in IdTimes : AllFit /\ TimeInv(Ids, Times) => TimeInv(Ids, Times)'
<1>1. TypeInv /\ IInv /\ BirthInv /\ Keys = {"id"} /\ UniqueInv /\ StoredInv(Ids) /\ SureInv(Ids)
  BY DEF OneKey, IInv, RowInv
<1>2. UNCHANGED <<kind, database, rows, born, tx>> /\ call' = [call EXCEPT ![c] = NoCall]
  BY DEF FillModelID, InsertDone
<1>3. UniqueInv'
  BY <1>1, <1>2, UniqueStays
<1>4. \A d \in Clients : Busy(d)' => Busy(d) /\ call'[d].first = call[d].first
  BY <1>1, <1>2 DEF TypeInv, NoCall, Busy
<1>5. StoredInv(Ids)'
  BY <1>1, <1>2, <1>4, StoredStays
<1>6. SureInv(Ids)'
  BY <1>1, FillSure
<1>7. ASSUME NEW Times \in IdTimes, AllFit, TimeInv(Ids, Times)
      PROVE  TimeInv(Ids, Times)'
  BY <1>1, <1>7, FillTimes
<1> QED BY <1>3, <1>5, <1>6, <1>7 DEF RowInv

\* Rows, ids and times as they were, and a call goes on, ends or begins.
LEMMA StayOne ==
    ASSUME OneKey, NEW Ids \in RowIds, RowInv(Ids), NEW c \in Clients,
           UNCHANGED <<kind, database, rows, born, nextId, stands, sure>>,
           \A d \in Clients : tx'[d].pend = tx[d].pend,
           \A m \in Models : model'[m].id = model[m].id,
           \A d \in Clients \ {c} : call'[d] = call[d],
           \/ call'[c].pc = "idle"
           \/ /\ Busy(c)' => Busy(c)
              /\ call[c].pc # "idle" /\ call'[c].ms = call[c].ms /\ call'[c].first = call[c].first
           \/ call'[c].pc = "exec" /\ \A i \in DOMAIN call'[c].ms : Owner[call'[c].ms[i]] = c
    PROVE  /\ RowInv(Ids)'
           /\ \A Times \in IdTimes :
                /\ TimeInv(Ids, Times)
                /\ \A m \in Models : model[m].at # 0 => model'[m].at = model[m].at
                /\ \A d \in Clients : call'[d].pc = "exec" =>
                     \A i \in DOMAIN call'[d].ms : model'[call'[d].ms[i]].at # 0
                => TimeInv(Ids, Times)'
<1>1. IInv /\ UniqueInv /\ StoredInv(Ids) /\ SureInv(Ids)
  BY DEF OneKey, RowInv
<1>2. \A d \in Clients : Busy(d)' => /\ Busy(d) /\ call'[d].first = call[d].first
                                   /\ call'[d].ms = call[d].ms
  BY DEF Busy
<1>3. \A d \in Clients : call'[d].pc # "idle" =>
        \A i \in DOMAIN call'[d].ms : Owner[call'[d].ms[i]] = d
  BY <1>1 DEF SureInv
<1>4. UniqueInv'
  BY <1>1, UniqueStays
<1>5. StoredInv(Ids)'
  BY <1>1, <1>2, StoredStays
<1>6. SureInv(Ids)'
  BY <1>1, <1>2, <1>3, SureStays
<1>7. ASSUME NEW Times \in IdTimes, TimeInv(Ids, Times),
             \A m \in Models : model[m].at # 0 => model'[m].at = model[m].at,
             \A d \in Clients : call'[d].pc = "exec" =>
               \A i \in DOMAIN call'[d].ms : model'[call'[d].ms[i]].at # 0
      PROVE  TimeInv(Ids, Times)'
  <2>1. \A m \in Models : /\ model'[m].id = model[m].id
                          /\ model[m].at # 0 => model'[m].at = model[m].at
    BY <1>7
  <2> QED BY <1>1, <1>2, <1>7, <2>1, TimesStay
<1> QED BY <1>4, <1>5, <1>6, <1>7 DEF RowInv
LEMMA ModelType ==
    ASSUME OneKey
    PROVE  /\ TypeInv /\ calls \in Nat
           /\ model \in [Models -> [id : 0 .. IdRange - 1, v : Values, at : 0 .. MaxNow]]
<1>1. TypeInv
  BY DEF OneKey, IInv
<1> QED BY <1>1 DEF TypeInv

LEMMA StartInsertOne ==
    ASSUME OneKey, NEW Ids \in RowIds, RowInv(Ids), NEW c \in Clients, NEW ms \in Seq(Models),
           \A i \in DOMAIN ms : Owner[ms[i]] = c, StartInsert(c, ms)
    PROVE  /\ RowInv(Ids)'
           /\ \A Times \in IdTimes : Timely /\ TimeInv(Ids, Times) => TimeInv(Ids, Times)'
<1>1. TypeInv /\ calls \in Nat
      /\ model \in [Models -> [id : 0 .. IdRange - 1, v : Values, at : 0 .. MaxNow]]
  BY ModelType
<1>2. /\ UNCHANGED <<kind, database, rows, born, nextId, tx, stands, sure>>
      /\ \A m \in Models : model'[m] = IF \E i \in DOMAIN ms : ms[i] = m
                                      THEN FilledForInsert(model[m]) ELSE model[m]
  BY DEF StartInsert
<1>3. \A m \in Models : model'[m].id = model[m].id
  BY <1>1, <1>2, FillType
<1>4. /\ \A d \in Clients \ {c} : call'[d] = call[d]
      /\ call'[c].pc = "exec" /\ call'[c].ms = ms
  BY <1>1 DEF StartInsert, TypeInv
<1>5. /\ RowInv(Ids)'
      /\ \A Times \in IdTimes :
           /\ TimeInv(Ids, Times)
           /\ \A m \in Models : model[m].at # 0 => model'[m].at = model[m].at
           /\ \A d \in Clients : call'[d].pc = "exec" =>
                \A i \in DOMAIN call'[d].ms : model'[call'[d].ms[i]].at # 0
           => TimeInv(Ids, Times)'
  BY <1>2, <1>3, <1>4, StayOne
<1>6. ASSUME Timely, NEW Times \in IdTimes, TimeInv(Ids, Times)
      PROVE  TimeInv(Ids, Times)'
  <2>1. \A m \in Models : /\ FilledForInsert(model[m]).at # 0
                          /\ model[m].at # 0 => FilledForInsert(model[m]).at = model[m].at
    BY <1>1, <1>6, AutoFills DEF Timely
  <2>2. \A m \in Models : model[m].at # 0 => model'[m].at = model[m].at
    BY <1>2, <2>1
  <2>3. \A i \in DOMAIN ms : model'[ms[i]].at # 0
    <3>1. \A i \in DOMAIN ms : ms[i] \in Models
      OBVIOUS
    <3> QED BY <1>2, <2>1, <3>1
  <2>4. ASSUME NEW d \in Clients, d # c, call[d].pc = "exec", NEW i \in DOMAIN call[d].ms
        PROVE  model'[call[d].ms[i]].at # 0
    <3>1. call[d].ms[i] \in Models
      BY <1>1, <2>4 DEF TypeInv
    <3>2. model[call[d].ms[i]].at # 0
      BY <1>6, <2>4 DEF TimeInv
    <3> QED BY <2>2, <3>1, <3>2
  <2>5. \A d \in Clients : call'[d].pc = "exec" =>
          \A i \in DOMAIN call'[d].ms : model'[call'[d].ms[i]].at # 0
    BY <1>4, <2>3, <2>4
  <2> QED BY <1>5, <1>6, <2>2, <2>5
<1> QED BY <1>5, <1>6

\* A change of the column v, and SetModel, leave the ids and the created times.
LEMMA ModelOne ==
    ASSUME OneKey, NEW Ids \in RowIds, RowInv(Ids), NEW c \in Clients, NEW m \in Models,
           (Change(m) /\ Owner[m] = c) \/ SetModel(c, m)
    PROVE  /\ RowInv(Ids)'
           /\ \A Times \in IdTimes : Timely /\ TimeInv(Ids, Times) => TimeInv(Ids, Times)'
<1>1. TypeInv /\ calls \in Nat
      /\ model \in [Models -> [id : 0 .. IdRange - 1, v : Values, at : 0 .. MaxNow]]
  BY ModelType
<1>2. UNCHANGED <<kind, database, rows, born, nextId, call, tx, stands, sure>>
      /\ call'[c].pc = "idle"
  BY DEF Change, SetModel, Idle
<1>3. /\ \A n \in Models : model'[n].id = model[n].id
      /\ Timely => \A n \in Models : model'[n].at = model[n].at
  <2>1. CASE Change(m)
    BY <1>1, <2>1 DEF Change
  <2>2. CASE SetModel(c, m)
    <3>1. model' = [model EXCEPT ![m] = FilledForUpdate(model[m])]
      BY <2>2 DEF SetModel
    <3>2. FilledForUpdate(model[m]).id = model[m].id
      BY <1>1, FillType
    <3>3. Timely => FilledForUpdate(model[m]) = model[m]
      BY <1>1, AutoFills DEF Timely
    <3> QED BY <1>1, <3>1, <3>2, <3>3
  <2> QED BY <2>1, <2>2
<1>4. /\ RowInv(Ids)'
      /\ \A Times \in IdTimes :
           /\ TimeInv(Ids, Times)
           /\ \A n \in Models : model[n].at # 0 => model'[n].at = model[n].at
           /\ \A d \in Clients : call'[d].pc = "exec" =>
                \A i \in DOMAIN call'[d].ms : model'[call'[d].ms[i]].at # 0
           => TimeInv(Ids, Times)'
  BY <1>2, <1>3, StayOne
<1>5. ASSUME Timely, NEW Times \in IdTimes, TimeInv(Ids, Times)
      PROVE  TimeInv(Ids, Times)'
  <2>1. \A d \in Clients : call[d].pc = "exec" =>
          \A i \in DOMAIN call[d].ms : call[d].ms[i] \in Models /\ model[call[d].ms[i]].at # 0
    BY <1>5, CallsOwn DEF OneKey, RowInv, TimeInv
  <2>2. \A d \in Clients : call'[d].pc = "exec" =>
          \A i \in DOMAIN call'[d].ms : model'[call'[d].ms[i]].at # 0
    BY <1>2, <1>3, <1>5, <2>1
  <2> QED BY <1>3, <1>4, <1>5, <2>2
<1> QED BY <1>4, <1>5

\* An Insert goes on after its statement or ends, a transaction begins.
LEMMA CallOne ==
    ASSUME OneKey, NEW Ids \in RowIds, RowInv(Ids), NEW c \in Clients,
           ExecInsertFails(c) \/ RowsAffected(c) \/ Begin(c)
    PROVE  /\ RowInv(Ids)'
           /\ \A Times \in IdTimes : TimeInv(Ids, Times) => TimeInv(Ids, Times)'
<1>1. TypeInv /\ call \in [Clients -> Calls] /\ tx \in [Clients -> Transaction]
  BY DEF OneKey, IInv, TypeInv, Calls, Transaction
<1>2. /\ UNCHANGED <<kind, database, model, rows, born, nextId, stands>>
      /\ \A d \in Clients : tx'[d].pend = tx[d].pend
  BY <1>1 DEF ExecInsertFails, RowsAffected, Begin, Transaction
<1>3. UNCHANGED sure
  <2>1. CASE RowsAffected(c) /\ Len(call[c].ms) > 1 /\ InsertDone(c)
    <3>1. sure \in [Births -> SUBSET Models]
      BY <1>1 DEF TypeInv
    <3>2. sure' = [b \in Births |-> IF b = call[c].first /\ Len(call[c].ms) = 1
                                   THEN {call[c].ms[1]} ELSE sure[b]]
      BY <2>1 DEF InsertDone
    <3>3. Len(call[c].ms) # 1
      <4>1. Len(call[c].ms) \in Nat
        <5>1. call[c].pc = "affected"
          BY <2>1 DEF RowsAffected
        <5>2. call[c].ms \in Seq(Models)
          BY <5>1, CallsOwn DEF OneKey, RowInv
        <5> QED BY <5>2
      <4>2. \A n \in Nat : n > 1 => n # 1
        OBVIOUS
      <4>3. Len(call[c].ms) > 1
        BY <2>1
      <4> QED BY <4>1, <4>2, <4>3
    <3>4. sure' = [b \in Births |-> sure[b]]
      BY <3>2, <3>3
    <3> QED BY <3>1, <3>4
  <2> QED BY <2>1 DEF ExecInsertFails, RowsAffected, Begin
<1>4. /\ \A d \in Clients \ {c} : call'[d] = call[d]
      /\ \/ call'[c].pc = "idle"
         \/ /\ call[c].pc = "affected" /\ call'[c].pc = "fill"
            /\ call'[c].ms = call[c].ms /\ call'[c].first = call[c].first
  <2>1. \/ call' = call /\ Idle(c)
        \/ call' = [call EXCEPT ![c] = NoCall]
        \/ call[c].pc = "affected" /\ call' = [call EXCEPT ![c].pc = "fill"]
    BY DEF ExecInsertFails, RowsAffected, Begin, InsertDone
  <2> QED BY <1>1, <2>1 DEF Calls, NoCall, Idle
<1>5. /\ RowInv(Ids)'
      /\ \A Times \in IdTimes :
           /\ TimeInv(Ids, Times)
           /\ \A m \in Models : model[m].at # 0 => model'[m].at = model[m].at
           /\ \A d \in Clients : call'[d].pc = "exec" =>
                \A i \in DOMAIN call'[d].ms : model'[call'[d].ms[i]].at # 0
           => TimeInv(Ids, Times)'
  <2>1. \/ call'[c].pc = "idle"
        \/ /\ Busy(c)' => Busy(c)
           /\ call[c].pc # "idle" /\ call'[c].ms = call[c].ms /\ call'[c].first = call[c].first
    BY <1>4 DEF Busy
  <2> QED BY <1>2, <1>3, <1>4, <2>1, StayOne
<1>6. ASSUME NEW Times \in IdTimes, TimeInv(Ids, Times)
      PROVE  TimeInv(Ids, Times)'
  <2>1. \A d \in Clients : call'[d].pc = "exec" =>
          \A i \in DOMAIN call'[d].ms : model'[call'[d].ms[i]].at # 0
    BY <1>2, <1>4, <1>6 DEF TimeInv
  <2> QED BY <1>2, <1>5, <1>6, <2>1
<1> QED BY <1>5, <1>6

-----------------------------------------------------------------------------
(* All steps *)

\* Every step but an Insert's statement keeps the ids and the times of the rows.
LEMMA NextOne ==
    ASSUME OneKey, NEW Ids \in RowIds, RowInv(Ids), [Next]_vars,
           \A c \in Clients : ~ExecInsert(c)
    PROVE  /\ RowInv(Ids)'
           /\ \A Times \in IdTimes : Timely /\ TimeInv(Ids, Times) => TimeInv(Ids, Times)'
<1> DEFINE Kept == /\ RowInv(Ids)'
                   /\ \A Times \in IdTimes :
                        Timely /\ TimeInv(Ids, Times) => TimeInv(Ids, Times)'
<1>1. CASE UNCHANGED vars
  BY <1>1 DEF vars, RowInv, UniqueInv, StoredInv, SureInv, TimeInv, Clash, Busy, Pending,
              Generates, FlagFields
<1>2. ASSUME NEW m \in Models, Change(m)
      PROVE  Kept
  <2>1. Owner[m] \in Clients
    OBVIOUS
  <2> QED BY <1>2, <2>1, ModelOne
<1>3. ASSUME NEW c \in Clients, NEW m \in Models,
             Insert(c, m) \/ SetModel(c, m) \/ \E n \in Models : InsertAll(c, m, n)
      PROVE  Kept
  <2>1. CASE Insert(c, m)
    <3>1. <<m>> \in Seq(Models) /\ \A i \in DOMAIN <<m>> : Owner[<<m>>[i]] = c
      BY <2>1 DEF Insert
    <3> QED BY <2>1, <3>1, StartInsertOne DEF Insert
  <2>2. ASSUME NEW n \in Models, InsertAll(c, m, n)
        PROVE  Kept
    <3>1. <<m, n>> \in Seq(Models) /\ \A i \in DOMAIN <<m, n>> : Owner[<<m, n>>[i]] = c
      BY <2>2 DEF InsertAll
    <3> QED BY <2>2, <3>1, StartInsertOne DEF InsertAll
  <2>3. CASE SetModel(c, m)
    BY <2>3, ModelOne
  <2> QED BY <1>3, <2>1, <2>2, <2>3
<1>4. ASSUME NEW c \in Clients, ExecInsertFails(c) \/ RowsAffected(c) \/ Begin(c)
      PROVE  Kept
  BY <1>4, CallOne
<1>5. ASSUME NEW c \in Clients, FillModelID(c)
      PROVE  Kept
  BY <1>5, FillOne DEF Timely
<1>6. ASSUME NEW c \in Clients, ExecUpdate(c)
      PROVE  Kept
  BY <1>6, ExecUpdateOne
<1>7. ASSUME NEW c \in Clients, Commit(c) \/ Rollback(c)
      PROVE  Kept
  BY <1>7, EndOne
<1>8. ASSUME NEW c \in Clients, NEW id \in 1 .. MaxRows, Delete(c, id)
      PROVE  Kept
  BY <1>8, DeleteOne
<1>9. ASSUME NEW c \in Clients, NEW id \in 1 .. MaxRows, NEW v \in Values, UpdateMap(c, id, v)
      PROVE  Kept
  BY <1>9, UpdateMapOne
<1>10. ASSUME NEW c \in Clients, NEW id \in 1 .. MaxRows, NEW m \in Models,
              Get(c, m, id) \/ Lock(c, m, id)
       PROVE  Kept
  BY <1>10, ReadOne
<1>11. ASSUME NEW c \in Clients,
              \/ \E m \in Models :
                   \/ Insert(c, m)
                   \/ \E n \in Models : InsertAll(c, m, n)
                   \/ SetModel(c, m)
                   \/ \E id \in 1 .. MaxRows : Get(c, m, id) \/ Lock(c, m, id)
              \/ \E id \in 1 .. MaxRows :
                   Delete(c, id) \/ \E v \in Values : UpdateMap(c, id, v)
       PROVE  Kept
  BY <1>3, <1>8, <1>9, <1>10, <1>11
<1>12. CASE Next
  BY <1>2, <1>4, <1>5, <1>6, <1>7, <1>11, <1>12 DEF Next
<1>13. Kept
  BY <1>1, <1>12
<1> QED BY <1>13 DEF Kept
LEMMA CounterGrows ==
    ASSUME IInv, [Next]_vars
    PROVE  nextId \in Nat /\ nextId' \in Nat /\ nextId <= nextId' /\ UNCHANGED <<kind, database>>
<1>1. nextId \in Nat
  BY DEF IInv, TypeInv
<1>2. CASE UNCHANGED vars
  BY <1>1, <1>2 DEF vars
<1>3. ASSUME NEW m \in Models, Change(m)
      PROVE  UNCHANGED <<nextId, kind, database>>
  BY <1>3 DEF Change
<1>4. ASSUME NEW c \in Clients, NEW m \in Models,
             \/ Insert(c, m) \/ SetModel(c, m)
             \/ \E n \in Models : InsertAll(c, m, n)
             \/ \E id \in 1 .. MaxRows : Get(c, m, id) \/ Lock(c, m, id)
      PROVE  UNCHANGED <<nextId, kind, database>>
  BY <1>4 DEF Insert, InsertAll, StartInsert, SetModel, Get, Lock
<1>5. ASSUME NEW c \in Clients,
             \/ ExecInsertFails(c) \/ RowsAffected(c) \/ FillModelID(c)
             \/ ExecUpdate(c) \/ Begin(c) \/ Commit(c) \/ Rollback(c)
      PROVE  UNCHANGED <<nextId, kind, database>>
  BY <1>5 DEF ExecInsertFails, RowsAffected, FillModelID, ExecUpdate, Begin, Commit, Rollback
<1>6. ASSUME NEW c \in Clients, NEW id \in 1 .. MaxRows,
             Delete(c, id) \/ \E v \in Values : UpdateMap(c, id, v)
      PROVE  UNCHANGED <<nextId, kind, database>>
  BY <1>6 DEF Delete, UpdateMap
<1>7. ASSUME NEW c \in Clients, ExecInsert(c)
      PROVE  nextId' \in Nat /\ nextId <= nextId' /\ UNCHANGED <<kind, database>>
  <2> DEFINE ms == call[c].ms
             all == {i \in DOMAIN ms : model[ms[i]].id = 0}
  <2>1. nextId' = IF Generates THEN nextId + Cardinality(all) ELSE nextId
    BY <1>7 DEF ExecInsert
  <2>2. Cardinality(all) \in Nat
    <3>1. ms \in Seq(Models)
      BY DEF IInv, TypeInv
    <3> QED BY <3>1, CounterType
  <2>3. UNCHANGED <<kind, database>>
    BY <1>7 DEF ExecInsert
  <2> HIDE DEF all
  <2>4. nextId' = nextId + Cardinality(all) \/ nextId' = nextId
    BY <2>1
  <2> QED BY <1>1, <2>2, <2>3, <2>4
<1>8. CASE Next
  <2>1. CASE \E c \in Clients : ExecInsert(c)
    BY <1>1, <1>7, <2>1
  <2>2. CASE ~\E c \in Clients : ExecInsert(c)
    <3>1. UNCHANGED <<nextId, kind, database>>
      BY <1>3, <1>4, <1>5, <1>6, <1>8, <2>2 DEF Next
    <3> QED BY <1>1, <3>1
  <2> QED BY <2>1, <2>2
<1> QED BY <1>2, <1>8

LEMMA TimelyBefore ==
    ASSUME IInv, [Next]_vars
    PROVE  Keys' = Keys /\ (Timely' => Timely) /\ Generates' = Generates
<1>1. nextId \in Nat /\ nextId' \in Nat /\ nextId <= nextId' /\ UNCHANGED <<kind, database>>
  BY CounterGrows
<1>2. Keys' = Keys /\ Generates' = Generates /\ SingleGenerated' = SingleGenerated
  BY <1>1 DEF Keys, Generates, SingleGenerated, FlagFields
<1>3. AllFit' => AllFit
  BY <1>1 DEF AllFit
<1> QED BY <1>2, <1>3 DEF Timely

LEMMA InitOne == ASSUME Init PROVE OneInv
<1> SUFFICES ASSUME Keys = {"id"}
             PROVE  /\ UniqueInv
                    /\ \E Ids \in RowIds :
                         /\ StoredInv(Ids) /\ SureInv(Ids)
                         /\ Timely => \E Times \in IdTimes : TimeInv(Ids, Times)
  BY DEF OneInv
<1> DEFINE Ids == [b \in Births |-> IF b <= born THEN 1 ELSE 0]
           Times == [k \in 0 .. MaxRows |-> 1]
<1>1. /\ born \in {0, 1} /\ nextId = born + 1
      /\ rows = [b \in Births |-> IF b <= born THEN FirstRow ELSE NoRow]
      /\ \A c \in Clients : tx[c].pend = {} /\ call[c].pc = "idle"
      /\ \A b \in Births : sure[b] = {}
      /\ \A m \in Models : model[m].id = IF kind = "manual" THEN ChosenId[m] ELSE 0
  BY DEF Init, NoTx, NoCall
<1>2. \A c \in Clients : ~Busy(c)
  BY <1>1 DEF Busy
<1>3. /\ \A b \in Births : b <= born => b = 1
      /\ \A b \in Births : rows[b].live => b <= born /\ rows[b].id = 1 /\ rows[b].at = 1
  BY <1>1 DEF FirstRow, NoRow, Births
<1>4. UniqueInv
  BY <1>1, <1>3 DEF UniqueInv, Clash
<1>5. Ids \in RowIds /\ Times \in IdTimes
  BY DEF RowIds, IdTimes
<1>6. StoredInv(Ids)
  BY <1>1, <1>2, <1>3 DEF StoredInv
<1>7. SureInv(Ids)
  BY <1>1, <1>2 DEF SureInv
<1>8. ASSUME Timely
      PROVE  TimeInv(Ids, Times)
  <2>1. kind = "auto"
    BY <1>8, InitInv, IsAuto DEF IInv, Timely
  <2>2. \A m \in Models : model[m].id = 0
    BY <1>1, <2>1
  <2>3. \A b \in Births : b <= born => Ids[b] < nextId
    BY <1>1, <1>3
  <2>4. \A b \in Births : rows[b].live => rows[b].at = Times[Ids[b]]
    BY <1>3
  <2> HIDE DEF Ids, Times
  <2> QED BY <1>1, <1>2, <2>2, <2>3, <2>4 DEF TimeInv
<1> HIDE DEF Ids, Times
<1> QED BY <1>4, <1>5, <1>6, <1>7, <1>8

LEMMA OneNext ==
    ASSUME OneKey, OneInv, [Next]_vars
    PROVE  OneInv'
<1>1. /\ IInv /\ BirthInv /\ PendInv /\ Keys = {"id"} /\ Keys' = Keys /\ (Timely' => Timely)
      /\ UniqueInv
  BY TimelyBefore DEF OneKey, OneInv
<1>2. PICK Ids \in RowIds :
        /\ StoredInv(Ids) /\ SureInv(Ids)
        /\ Timely => \E Times \in IdTimes : TimeInv(Ids, Times)
  BY <1>1 DEF OneInv
<1>3. ASSUME NEW c \in Clients, ExecInsert(c)
      PROVE  OneInv'
  <2>1. PICK ids \in RowIds : ids = NewIds(Ids, c) /\ StoredInv(ids)' /\ SureInv(ids)'
    BY <1>1, <1>2, <1>3, InsertRows
  <2>2. UniqueInv'
    BY <1>1, <1>2, <1>3, InsertRows
  <2>3. ASSUME Timely'
        PROVE  \E times \in IdTimes : TimeInv(ids, times)'
    <3>1. PICK Times \in IdTimes : TimeInv(Ids, Times)
      BY <1>1, <1>2, <2>3
    <3>2. Generates
      BY <1>1, <2>3 DEF Timely
    <3> QED BY <1>1, <1>3, <2>1, <3>1, <3>2, InsertTimes
  <2> QED BY <2>1, <2>2, <2>3 DEF OneInv
<1>4. CASE \A c \in Clients : ~ExecInsert(c)
  <2>1. RowInv(Ids)
    BY <1>1, <1>2 DEF RowInv
  <2>2. /\ RowInv(Ids)'
        /\ \A Times \in IdTimes : Timely /\ TimeInv(Ids, Times) => TimeInv(Ids, Times)'
    BY <1>4, <2>1, NextOne
  <2>3. UniqueInv' /\ StoredInv(Ids)' /\ SureInv(Ids)'
    BY <2>2 DEF RowInv
  <2>4. Timely' => \E Times \in IdTimes : TimeInv(Ids, Times)'
    BY <1>1, <1>2, <2>2
  <2> QED BY <2>3, <2>4 DEF OneInv
<1> QED BY <1>3, <1>4

-----------------------------------------------------------------------------
(* The theorems *)

MInv == KInv /\ OneInv

LEMMA MInvHolds == Spec => []MInv
<1>1. Init => MInv
  BY InitInv, InitNames, InitOne DEF MInv, KInv
<1>2. ASSUME MInv, [Next]_vars
      PROVE  MInv'
  <2>1. KInv'
    BY <1>2, NextInv, NamesNext, KindStays DEF MInv, KInv
  <2>2. OneInv'
    <3>1. CASE Keys = {"id"}
      BY <1>2, <3>1, OneNext DEF MInv, KInv, OneKey
    <3>2. CASE Keys # {"id"}
      BY <1>2, <3>2, KindStays DEF OneInv
    <3> QED BY <3>1, <3>2
  <2> QED BY <2>1, <2>2 DEF MInv
<1> QED BY <1>1, <1>2, PTL DEF Spec

\* However often a model is inserted, one of its rows at most was reported.
THEOREM ModelsHaveOneRow == Spec => []OneRowPerModel
<1>1. ASSUME MInv
      PROVE  OneRowPerModel
  <2> SUFFICES ASSUME Keys = {"id"}, NEW a \in Births, NEW b \in Births, a < b,
                      rows[a].live, rows[b].live, rows[a].id < IdRange,
                      NEW m \in sure[a] \cap sure[b]
               PROVE  FALSE
    BY DEF OneRowPerModel
  <2>1. PICK Ids \in RowIds : StoredInv(Ids) /\ SureInv(Ids)
    BY <1>1 DEF MInv, OneInv
  <2>2. rows[a].id = Ids[a] /\ rows[b].id = Ids[b]
    BY <2>1 DEF StoredInv
  <2>3. Ids[b] < IdRange
    BY <2>1, <2>2 DEF SureInv
  <2>4. model[m].id = Ids[a] /\ model[m].id = Ids[b]
    BY <2>1, <2>2, <2>3 DEF SureInv
  <2>5. ~Clash(rows[a], rows[b])
    <3>1. a # b
      BY DEF Births
    <3> QED BY <1>1, <3>1 DEF MInv, OneInv, UniqueInv
  <2> QED BY <2>2, <2>4, <2>5 DEF Clash
<1> QED BY <1>1, MInvHolds, PTL

\* The created time of a row never moves, whoever updates it through a model.
THEOREM CreatedTimesStand == Spec => CreatedStands
<1> DEFINE Stand == SingleGenerated /\ Generates /\ AllFit =>
                      \A b \in Births : rows[b].live /\ rows'[b].live => rows'[b].at = rows[b].at
<1>1. ASSUME MInv, [Next]_vars
      PROVE  Stand
  <2> SUFFICES ASSUME Timely, NEW b \in Births, rows[b].live, rows'[b].live
               PROVE  rows'[b].at = rows[b].at
    BY DEF Timely
  <2>1. OneKey
    BY <1>1, IdIsKey DEF MInv, KInv, OneKey, Timely, SingleGenerated
  <2>2. PICK Ids \in RowIds, Times \in IdTimes : RowInv(Ids) /\ TimeInv(Ids, Times)
    BY <1>1, <2>1 DEF MInv, OneInv, OneKey, RowInv
  <2>3. ASSUME NEW c \in Clients, ExecInsert(c)
        PROVE  rows'[b].at = rows[b].at
    <3>1. b \notin New(c)
      <4>1. \A a \in Births : a \in New(c) => born < a
        BY <2>1, <2>3, InsertedType DEF OneKey
      <4> QED BY <2>1, <4>1 DEF OneKey, BirthInv
    <3>2. \A a \in Births \ New(c) : rows'[a] = rows[a]
      BY <2>1, <2>3, InsertStep DEF OneKey
    <3> QED BY <3>1, <3>2
  <2>4. CASE \A c \in Clients : ~ExecInsert(c)
    <3>1. TimeInv(Ids, Times)'
      BY <1>1, <2>1, <2>2, <2>4, NextOne
    <3> QED BY <2>2, <3>1 DEF TimeInv
  <2> QED BY <2>3, <2>4
<1>2. MInv /\ [Next]_vars => [Stand]_vars
  BY <1>1
<1> QED BY <1>2, MInvHolds, PTL DEF Spec, CreatedStands

\* A client sees the rows it does not write as before.
LEMMA WriteSeen ==
    ASSUME TypeInv, LockInv, PendInv, NEW c \in Clients,
           NEW touched \in SUBSET Births, NEW table \in [Births -> Row],
           Write(c, touched, table), NEW b \in Births \ touched
    PROVE  View(c)'[b] = View(c)[b]
<1>1. \/ b \notin Pending(c) /\ View(c)[b] = rows[b]
      \/ \E s \in tx[c].pend : s.birth = b /\ View(c)[b] = s.row
  BY ViewCases
<1>2. rows'[b] = rows[b]
  BY DEF Write
<1>3. View(c)'[b] = IF \E s \in tx'[c].pend : s.birth = b
                    THEN (CHOOSE s \in tx'[c].pend : s.birth = b).row ELSE rows'[b]
  BY DEF View, Over, Pending
<1>4. CASE tx[c].open
  <2> DEFINE new == {[birth |-> a, row |-> table[a]] : a \in touched}
  <2>1. tx'[c].pend = {s \in tx[c].pend : s.birth \notin touched} \cup new
    <3>1. tx \in [Clients -> Transaction]
      BY DEF TypeInv, Transaction
    <3>2. tx' = [tx EXCEPT ![c].held = @ \cup touched,
                           ![c].pend = {s \in @ : s.birth \notin touched} \cup new]
      BY <1>4 DEF Write
    <3> QED BY <3>1, <3>2 DEF Transaction
  <2>2. \A s : s.birth = b => (s \in tx'[c].pend <=> s \in tx[c].pend)
    BY <2>1
  <2>3. CASE b \notin Pending(c) /\ View(c)[b] = rows[b]
    <3>1. ~\E s \in tx'[c].pend : s.birth = b
      BY <2>2, <2>3 DEF Pending
    <3> QED BY <1>2, <1>3, <2>3, <3>1
  <2>4. CASE \E s \in tx[c].pend : s.birth = b /\ View(c)[b] = s.row
    <3>1. PICK s \in tx[c].pend : s.birth = b /\ View(c)[b] = s.row
      BY <2>4
    <3>2. s \in tx'[c].pend
      BY <2>2, <3>1
    <3>3. PICK t : t = CHOOSE u \in tx'[c].pend : u.birth = b
      OBVIOUS
    <3>4. t \in tx'[c].pend /\ t.birth = b
      BY <3>1, <3>2, <3>3
    <3>5. t = s
      BY <2>2, <3>1, <3>4 DEF PendInv
    <3> QED BY <1>3, <3>1, <3>2, <3>3, <3>5
  <2> QED BY <1>1, <2>3, <2>4
<1>5. CASE ~tx[c].open
  <2>1. tx'[c].pend = {} /\ tx[c].pend = {}
    BY <1>5 DEF Write, LockInv, NoTx
  <2>2. View(c)[b] = rows[b]
    BY <1>1, <2>1
  <2> QED BY <1>2, <1>3, <2>1, <2>2
<1> QED BY <1>4, <1>5

\* An update through a model changes no row but the model's own.
THEOREM UpdatesOwnRowsOnly == Spec => UpdateOwnRowOnly
<1> DEFINE Own == \A c \in Clients :
                    ExecUpdate(c) /\ SingleGenerated /\ Generates /\ AllFit =>
                    \A b \in Changed(c) : \A i \in DOMAIN stmt[c] :
                      LET own == stands[stmt[c][i]]
                      IN  own # NoBirth /\ (View(c)[own].live => View(c)[own].id = View(c)[b].id)
<1>1. ASSUME MInv, [Next]_vars
      PROVE  Own
  <2> SUFFICES ASSUME NEW c \in Clients, ExecUpdate(c), Timely,
                      NEW b \in Changed(c), NEW i \in DOMAIN stmt[c]
               PROVE  LET own == stands[stmt[c][i]]
                      IN  own # NoBirth /\ (View(c)[own].live => View(c)[own].id = View(c)[b].id)
    BY DEF Timely
  <2>1. OneKey /\ Generates /\ nextId <= IdRange
    BY <1>1, IdIsKey DEF MInv, KInv, OneKey, Timely, SingleGenerated, AllFit
  <2>2. PICK Ids \in RowIds, Times \in IdTimes : RowInv(Ids) /\ TimeInv(Ids, Times)
    BY <1>1, <2>1 DEF MInv, OneInv, OneKey, RowInv
  <2>3. TypeInv /\ LockInv /\ PendInv /\ BirthInv /\ NameInv /\ StoredInv(Ids)
    BY <2>1, <2>2 DEF OneKey, IInv, RowInv
  <2>4. stmt[c] \in Seq(Models)
    BY <2>3 DEF TypeInv
  <2>5. PICK m \in Models : m = stmt[c][i]
    BY <2>4
  <2>6. b \in Updated(c)
    <3> DEFINE last == model[stmt[c][Len(stmt[c])]]
               row == [live |-> TRUE, id |-> last.id, v |-> last.v, at |-> last.at]
               table == [a \in Births |-> IF a \in Updated(c) THEN row ELSE View(c)[a]]
    <3>1. stmt[c][Len(stmt[c])] \in Models
      BY <2>4 DEF ExecUpdate
    <3>2. row \in Row
      <4> SUFFICES last \in [id : 0 .. IdRange - 1, v : Values, at : 0 .. MaxNow]
                   /\ last.id \in 0 .. MaxRows
        BY DEF Row
      <4>1. last \in [id : 0 .. IdRange - 1, v : Values, at : 0 .. MaxNow]
        BY <2>3, <3>1 DEF TypeInv
      <4>2. last.id \in 0 .. MaxRows
        <5>1. \A n \in Models : model[n].id \in Nat /\ model[n].id <= MaxRows
          BY <2>1, <2>3, NameTypes DEF OneKey, IInv, IdInv
        <5> QED BY <3>1, <5>1
      <4> QED BY <4>1, <4>2
    <3>3. table \in [Births -> Row]
      BY <2>3, <3>2, ViewType
    <3>4. Write(c, Updated(c), table)
      BY DEF ExecUpdate
    <3> HIDE DEF table
    <3>5. Updated(c) \in SUBSET Births
      BY DEF Updated
    <3>6. \A a \in Births \ Updated(c) : View(c)'[a] = View(c)[a]
      BY <2>3, <3>3, <3>4, <3>5, WriteSeen
    <3> QED BY <3>6 DEF Changed
  <2>7. b \in Births /\ View(c)[b].live /\ View(c)[b].id = model[m].id
    <3>1. b \in Births /\ View(c)[b].live /\ Meets(c, View(c)[b])
      BY <2>6 DEF Updated
    <3>2. View(c)[b]["id"] = model[stmt[c][i]]["id"]
      BY <2>1, <3>1 DEF Meets, OneKey
    <3> QED BY <2>5, <3>1, <3>2
  <2>8. model[m].id # 0
    <3>1. View(c)[b].id = Ids[b] /\ b <= born
      BY <2>3, <2>7, ViewStored, ViewNamed
    <3>2. Ids[b] > 0
      BY <2>1, <2>3, <2>7, <3>1 DEF StoredInv
    <3> QED BY <2>2, <2>7, <3>1, <3>2
  <2>9. stands[m] # NoBirth
    BY <2>2, <2>8 DEF TimeInv
  <2>10. PICK own \in Births : own = stands[m]
    BY <2>3, <2>9 DEF TypeInv
  <2>11. ASSUME View(c)[own].live
         PROVE  View(c)[own].id = View(c)[b].id
    <3>1. /\ NamedBy(m, View(c)[own])
          /\ own <= born /\ View(c)[own].id = Ids[own]
      BY <2>3, <2>10, <2>11, ViewNamed, ViewStored
    <3>2. Ids[own] < nextId
      BY <2>2, <3>1 DEF TimeInv
    <3>3. View(c)[own].id < IdRange
      <4>1. nextId \in Nat /\ Ids[own] \in Nat /\ IdRange \in Nat
        BY <2>2, <2>3, NameTypes DEF TypeInv, RowIds
      <4> QED BY <2>1, <3>1, <3>2, <4>1
    <3> QED BY <2>7, <2>11, <3>1, <3>3 DEF NamedBy
  <2> QED BY <2>5, <2>9, <2>10, <2>11
<1>2. MInv /\ [Next]_vars => [Own]_vars
  BY <1>1
<1> QED BY <1>2, MInvHolds, PTL DEF Spec, UpdateOwnRowOnly
=============================================================================
