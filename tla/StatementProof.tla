--------------------------- MODULE StatementProof ---------------------------
(* Proofs about Statement, for any goroutines, pool size and result sets. *)
EXTENDS Statement, FiniteSetTheorems, TLAPS

\* What IInv says of one goroutine.
Local(q) ==
    OpenInv(q) /\ ReadingInv(q) /\ ReadInv(q) /\ AnswerInv(q)

\* Nothing that Local(q) is about changes.
Untouched(q) ==
    /\ pc'[q] = pc[q] /\ op'[q] = op[q] /\ total'[q] = total[q] /\ left'[q] = left[q]
    /\ broken'[q] = broken[q] /\ got'[q] = got[q] /\ err'[q] = err[q]
    /\ answer'[q] = answer[q]
    /\ q \in rowsOpen' <=> q \in rowsOpen
    /\ q \in stmts' <=> q \in stmts

\* A goroutine none of whose state changes keeps its part of the invariant.
LEMMA OthersKeepTheirs ==
    ASSUME NEW q \in Procs, Local(q), Untouched(q)
    PROVE  Local(q)'
BY DEF Local, Untouched, OpenInv, ReadingInv, ReadInv, AnswerInv

\* When one goroutine steps, only its own part needs a look.
LEMMA OneSteps ==
    ASSUME IInv, NEW p \in Procs, TypeInv', Local(p)',
           \A q \in Procs \ {p} : Untouched(q)
    PROVE  IInv'
<1>1. ASSUME NEW q \in Procs PROVE Local(q)'
  <2>1. CASE q = p
    BY <2>1
  <2>2. CASE q # p
    BY <2>2, OthersKeepTheirs DEF IInv, Local
  <2> QED BY <2>1, <2>2
<1> QED BY <1>1 DEF IInv, Local

\* The types of one goroutine's state.
Typed(p) ==
    /\ op[p] \in {"Exec", "Exist", "Get", "Find", "GetCol", "FindCol"}
    /\ got[p] \in 0 .. MaxRows /\ left[p] \in 0 .. MaxRows /\ total[p] \in 0 .. MaxRows
    /\ MaxRows \in Nat

LEMMA LocalTypes ==
    ASSUME TypeOK, NEW p \in Procs
    PROVE  Typed(p)
BY StatementAssumption DEF Typed, TypeOK, AllOps

\* The connections of the pool: giving some back keeps the limit.
LEMMA FewerHeld ==
    ASSUME TypeInv, NEW S \in SUBSET held
    PROVE  MaxOpen # 0 => Cardinality(S) <= MaxOpen
<1>1. IsFiniteSet(held)
  BY StatementAssumption, FS_Subset DEF TypeInv, TypeOK
<1>2. Cardinality(S) <= Cardinality(held) /\ IsFiniteSet(S)
  BY <1>1, FS_Subset
<1>3. Cardinality(S) \in Nat /\ Cardinality(held) \in Nat /\ MaxOpen \in Nat
  BY <1>1, <1>2, FS_CardinalityType, StatementAssumption
<1> QED BY <1>2, <1>3 DEF TypeInv

\* Taking one when there is room keeps it as well.
LEMMA OneMoreHeld ==
    ASSUME TypeInv, NEW p, MaxOpen = 0 \/ Cardinality(held) < MaxOpen
    PROVE  MaxOpen # 0 => Cardinality(held \cup {p}) <= MaxOpen
<1>1. IsFiniteSet(held)
  BY StatementAssumption, FS_Subset DEF TypeInv, TypeOK
<1>2. /\ Cardinality(held \cup {p}) = Cardinality(held)
         \/ Cardinality(held \cup {p}) = Cardinality(held) + 1
      /\ Cardinality(held) \in Nat /\ MaxOpen \in Nat
  BY <1>1, FS_AddElement, FS_CardinalityType, StatementAssumption
<1> QED BY <1>2

\* Prepare keeps the invariant.
LEMMA PrepareInv ==
    ASSUME IInv, NEW p \in Procs, Prepare(p)
    PROVE  IInv'
<1> USE StatementAssumption DEF IInv, Prepare, CanUse, Goto, Errors, Typed
<1>0. Typed(p)
  BY LocalTypes DEF TypeInv
<1>1. TypeOK'
  BY <1>0 DEF TypeInv, TypeOK
<1>2. held' = {q \in rowsOpen' : ~inTx'[q]}
  BY DEF TypeInv, TypeOK, OpenInv
<1>3. held' \in SUBSET held
  OBVIOUS
<1>4. MaxOpen # 0 => Cardinality(held') <= MaxOpen
  BY <1>3, FewerHeld
<1>5. Local(p)'
  BY <1>0, <1>1 DEF TypeInv, TypeOK, Local, OpenInv, ReadingInv, ReadInv, AnswerInv, Single, AllOps
<1>6. \A q \in Procs \ {p} : Untouched(q)
  BY DEF TypeInv, TypeOK, Untouched
<1> QED BY ONLY IInv, p \in Procs, <1>1, <1>2, <1>4, <1>5, <1>6, OneSteps DEF TypeInv

\* PrepareFails keeps the invariant.
LEMMA PrepareFailsInv ==
    ASSUME IInv, NEW p \in Procs, PrepareFails(p)
    PROVE  IInv'
<1> USE StatementAssumption DEF IInv, PrepareFails, Goto, Fail, Errors, Typed
<1>0. Typed(p)
  BY LocalTypes DEF TypeInv
<1>1. TypeOK'
  BY <1>0 DEF TypeInv, TypeOK
<1>2. held' = {q \in rowsOpen' : ~inTx'[q]}
  BY DEF TypeInv, TypeOK, OpenInv
<1>3. held' \in SUBSET held
  OBVIOUS
<1>4. MaxOpen # 0 => Cardinality(held') <= MaxOpen
  BY <1>3, FewerHeld
<1>5. Local(p)'
  BY <1>0, <1>1 DEF TypeInv, TypeOK, Local, OpenInv, ReadingInv, ReadInv, AnswerInv, Single, AllOps
<1>6. \A q \in Procs \ {p} : Untouched(q)
  BY DEF TypeInv, TypeOK, Untouched
<1> QED BY ONLY IInv, p \in Procs, <1>1, <1>2, <1>4, <1>5, <1>6, OneSteps DEF TypeInv

\* RunExec keeps the invariant.
LEMMA RunExecInv ==
    ASSUME IInv, NEW p \in Procs, RunExec(p)
    PROVE  IInv'
<1> USE StatementAssumption DEF IInv, RunExec, Goto, Errors, Typed
<1>0. Typed(p)
  BY LocalTypes DEF TypeInv
<1>1. TypeOK'
  BY <1>0 DEF TypeInv, TypeOK
<1>2. held' = {q \in rowsOpen' : ~inTx'[q]}
  BY DEF TypeInv, TypeOK, OpenInv
<1>3. held' \in SUBSET held
  OBVIOUS
<1>4. MaxOpen # 0 => Cardinality(held') <= MaxOpen
  BY <1>3, FewerHeld
<1>5. Local(p)'
  BY <1>0, <1>1 DEF TypeInv, TypeOK, Local, OpenInv, ReadingInv, ReadInv, AnswerInv, Single, AllOps
<1>6. \A q \in Procs \ {p} : Untouched(q)
  BY DEF TypeInv, TypeOK, Untouched
<1> QED BY ONLY IInv, p \in Procs, <1>1, <1>2, <1>4, <1>5, <1>6, OneSteps DEF TypeInv

\* RunFails keeps the invariant.
LEMMA RunFailsInv ==
    ASSUME IInv, NEW p \in Procs, RunFails(p)
    PROVE  IInv'
<1> USE StatementAssumption DEF IInv, RunFails, Goto, Fail, Errors, Typed
<1>0. Typed(p)
  BY LocalTypes DEF TypeInv
<1>1. TypeOK'
  BY <1>0 DEF TypeInv, TypeOK
<1>2. held' = {q \in rowsOpen' : ~inTx'[q]}
  BY DEF TypeInv, TypeOK, OpenInv
<1>3. held' \in SUBSET held
  OBVIOUS
<1>4. MaxOpen # 0 => Cardinality(held') <= MaxOpen
  BY <1>3, FewerHeld
<1>5. Local(p)'
  BY <1>0, <1>1 DEF TypeInv, TypeOK, Local, OpenInv, ReadingInv, ReadInv, AnswerInv, Single, AllOps
<1>6. \A q \in Procs \ {p} : Untouched(q)
  BY DEF TypeInv, TypeOK, Untouched
<1> QED BY ONLY IInv, p \in Procs, <1>1, <1>2, <1>4, <1>5, <1>6, OneSteps DEF TypeInv

\* ColumnsFit keeps the invariant.
LEMMA ColumnsFitInv ==
    ASSUME IInv, NEW p \in Procs, ColumnsFit(p)
    PROVE  IInv'
<1> USE StatementAssumption DEF IInv, ColumnsFit, Goto, Errors, Typed
<1>0. Typed(p)
  BY LocalTypes DEF TypeInv
<1>1. TypeOK'
  BY <1>0 DEF TypeInv, TypeOK
<1>2. held' = {q \in rowsOpen' : ~inTx'[q]}
  BY DEF TypeInv, TypeOK, OpenInv
<1>3. held' \in SUBSET held
  OBVIOUS
<1>4. MaxOpen # 0 => Cardinality(held') <= MaxOpen
  BY <1>3, FewerHeld
<1>5. Local(p)'
  BY <1>0, <1>1 DEF TypeInv, TypeOK, Local, OpenInv, ReadingInv, ReadInv, AnswerInv, Single, AllOps
<1>6. \A q \in Procs \ {p} : Untouched(q)
  BY DEF TypeInv, TypeOK, Untouched
<1> QED BY ONLY IInv, p \in Procs, <1>1, <1>2, <1>4, <1>5, <1>6, OneSteps DEF TypeInv

\* ColumnsRefused keeps the invariant.
LEMMA ColumnsRefusedInv ==
    ASSUME IInv, NEW p \in Procs, ColumnsRefused(p)
    PROVE  IInv'
<1> USE StatementAssumption DEF IInv, ColumnsRefused, Goto, Fail, Errors, Typed
<1>0. Typed(p)
  BY LocalTypes DEF TypeInv
<1>1. TypeOK'
  BY <1>0 DEF TypeInv, TypeOK
<1>2. held' = {q \in rowsOpen' : ~inTx'[q]}
  BY DEF TypeInv, TypeOK, OpenInv
<1>3. held' \in SUBSET held
  OBVIOUS
<1>4. MaxOpen # 0 => Cardinality(held') <= MaxOpen
  BY <1>3, FewerHeld
<1>5. Local(p)'
  BY <1>0, <1>1 DEF TypeInv, TypeOK, Local, OpenInv, ReadingInv, ReadInv, AnswerInv, Single, AllOps
<1>6. \A q \in Procs \ {p} : Untouched(q)
  BY DEF TypeInv, TypeOK, Untouched
<1> QED BY ONLY IInv, p \in Procs, <1>1, <1>2, <1>4, <1>5, <1>6, OneSteps DEF TypeInv

\* NextRow keeps the invariant.
LEMMA NextRowInv ==
    ASSUME IInv, NEW p \in Procs, NextRow(p)
    PROVE  IInv'
<1> USE StatementAssumption DEF IInv, NextRow, Goto, Errors, Typed
<1>0. Typed(p)
  BY LocalTypes DEF TypeInv
<1>1. TypeOK'
  <2>1. got' \in [Procs -> 0 .. MaxRows]
    BY <1>0 DEF TypeInv, TypeOK, ReadingInv
  <2>2. left' \in [Procs -> 0 .. MaxRows]
    BY <1>0 DEF TypeInv, TypeOK
  <2> QED BY <2>1, <2>2 DEF TypeInv, TypeOK
<1>2. held' = {q \in rowsOpen' : ~inTx'[q]}
  BY DEF TypeInv, TypeOK, OpenInv
<1>3. held' \in SUBSET held
  OBVIOUS
<1>4. MaxOpen # 0 => Cardinality(held') <= MaxOpen
  BY <1>3, FewerHeld
<1>5. Local(p)'
  BY <1>0, <1>1 DEF TypeInv, TypeOK, Local, OpenInv, ReadingInv, ReadInv, AnswerInv, Single, AllOps
<1>6. \A q \in Procs \ {p} : Untouched(q)
  BY DEF TypeInv, TypeOK, Untouched
<1> QED BY ONLY IInv, p \in Procs, <1>1, <1>2, <1>4, <1>5, <1>6, OneSteps DEF TypeInv

\* NextEnds keeps the invariant.
LEMMA NextEndsInv ==
    ASSUME IInv, NEW p \in Procs, NextEnds(p)
    PROVE  IInv'
<1> USE StatementAssumption DEF IInv, NextEnds, EndError, Goto, Fail, Errors, Typed
<1>0. Typed(p)
  BY LocalTypes DEF TypeInv
<1>1. TypeOK'
  BY <1>0 DEF TypeInv, TypeOK
<1>2. held' = {q \in rowsOpen' : ~inTx'[q]}
  BY DEF TypeInv, TypeOK, OpenInv
<1>3. held' \in SUBSET held
  OBVIOUS
<1>4. MaxOpen # 0 => Cardinality(held') <= MaxOpen
  BY <1>3, FewerHeld
<1>5. Local(p)'
  BY <1>0, <1>1 DEF TypeInv, TypeOK, Local, OpenInv, ReadingInv, ReadInv, AnswerInv, Single, AllOps
<1>6. \A q \in Procs \ {p} : Untouched(q)
  BY DEF TypeInv, TypeOK, Untouched
<1> QED BY ONLY IInv, p \in Procs, <1>1, <1>2, <1>4, <1>5, <1>6, OneSteps DEF TypeInv

\* ScanRow keeps the invariant.
LEMMA ScanRowInv ==
    ASSUME IInv, NEW p \in Procs, ScanRow(p)
    PROVE  IInv'
<1> USE StatementAssumption DEF IInv, ScanRow, Goto, Errors, Typed
<1>0. Typed(p)
  BY LocalTypes DEF TypeInv
<1>1. TypeOK'
  <2>1. got[p] + 1 \in 0 .. MaxRows
    BY DEF TypeInv, TypeOK, ReadingInv
  <2> QED BY <2>1 DEF TypeInv, TypeOK
<1>2. held' = {q \in rowsOpen' : ~inTx'[q]}
  BY DEF TypeInv, TypeOK, OpenInv
<1>3. held' \in SUBSET held
  OBVIOUS
<1>4. MaxOpen # 0 => Cardinality(held') <= MaxOpen
  BY <1>3, FewerHeld
<1>5. Local(p)'
  <2>3. OpenInv(p)' /\ AnswerInv(p)'
    BY DEF TypeInv, TypeOK, OpenInv, AnswerInv, Single
  <2>4. ReadingInv(p)'
    BY <1>0 DEF TypeInv, TypeOK, ReadingInv, Single, AllOps
  <2>5. ReadInv(p)'
    BY <1>0 DEF TypeInv, TypeOK, ReadingInv, ReadInv, Single, AllOps
  <2> QED BY <2>3, <2>4, <2>5 DEF Local
<1>6. \A q \in Procs \ {p} : Untouched(q)
  BY DEF TypeInv, TypeOK, Untouched
<1> QED BY ONLY IInv, p \in Procs, <1>1, <1>2, <1>4, <1>5, <1>6, OneSteps DEF TypeInv

\* ScanFails keeps the invariant.
LEMMA ScanFailsInv ==
    ASSUME IInv, NEW p \in Procs, ScanFails(p)
    PROVE  IInv'
<1> USE StatementAssumption DEF IInv, ScanFails, Goto, Fail, Errors, Typed
<1>0. Typed(p)
  BY LocalTypes DEF TypeInv
<1>1. TypeOK'
  BY <1>0 DEF TypeInv, TypeOK
<1>2. held' = {q \in rowsOpen' : ~inTx'[q]}
  BY DEF TypeInv, TypeOK, OpenInv
<1>3. held' \in SUBSET held
  OBVIOUS
<1>4. MaxOpen # 0 => Cardinality(held') <= MaxOpen
  BY <1>3, FewerHeld
<1>5. Local(p)'
  BY <1>0, <1>1 DEF TypeInv, TypeOK, Local, OpenInv, ReadingInv, ReadInv, AnswerInv, Single, AllOps
<1>6. \A q \in Procs \ {p} : Untouched(q)
  BY DEF TypeInv, TypeOK, Untouched
<1> QED BY ONLY IInv, p \in Procs, <1>1, <1>2, <1>4, <1>5, <1>6, OneSteps DEF TypeInv

\* CloseRows keeps the invariant.
LEMMA CloseRowsInv ==
    ASSUME IInv, NEW p \in Procs, CloseRows(p)
    PROVE  IInv'
<1> USE StatementAssumption DEF IInv, CloseRows, Goto, Errors, Typed
<1>0. Typed(p)
  BY LocalTypes DEF TypeInv
<1>1. TypeOK'
  BY <1>0 DEF TypeInv, TypeOK
<1>2. held' = {q \in rowsOpen' : ~inTx'[q]}
  BY DEF TypeInv, TypeOK, OpenInv
<1>3. held' \in SUBSET held
  OBVIOUS
<1>4. MaxOpen # 0 => Cardinality(held') <= MaxOpen
  BY <1>3, FewerHeld
<1>5. Local(p)'
  BY <1>0, <1>1 DEF TypeInv, TypeOK, Local, OpenInv, ReadingInv, ReadInv, AnswerInv, Single, AllOps
<1>6. \A q \in Procs \ {p} : Untouched(q)
  BY DEF TypeInv, TypeOK, Untouched
<1> QED BY ONLY IInv, p \in Procs, <1>1, <1>2, <1>4, <1>5, <1>6, OneSteps DEF TypeInv

\* CloseStmt keeps the invariant.
LEMMA CloseStmtInv ==
    ASSUME IInv, NEW p \in Procs, CloseStmt(p)
    PROVE  IInv'
<1> USE StatementAssumption DEF IInv, CloseStmt, Goto, Errors, Typed
<1>0. Typed(p)
  BY LocalTypes DEF TypeInv
<1>1. TypeOK'
  BY <1>0 DEF TypeInv, TypeOK
<1>2. held' = {q \in rowsOpen' : ~inTx'[q]}
  BY DEF TypeInv, TypeOK, OpenInv
<1>3. held' \in SUBSET held
  OBVIOUS
<1>4. MaxOpen # 0 => Cardinality(held') <= MaxOpen
  BY <1>3, FewerHeld
<1>5. Local(p)'
  BY <1>0, <1>1 DEF TypeInv, TypeOK, Local, OpenInv, ReadingInv, ReadInv, AnswerInv, Single, AllOps
<1>6. \A q \in Procs \ {p} : Untouched(q)
  BY DEF TypeInv, TypeOK, Untouched
<1> QED BY ONLY IInv, p \in Procs, <1>1, <1>2, <1>4, <1>5, <1>6, OneSteps DEF TypeInv

\* Return keeps the invariant.
LEMMA ReturnInv ==
    ASSUME IInv, NEW p \in Procs, Return(p)
    PROVE  IInv'
<1> USE StatementAssumption DEF IInv, Return, Goto, Fail, Errors, Typed
<1>0. Typed(p)
  BY LocalTypes DEF TypeInv
<1>1. TypeOK'
  BY <1>0 DEF TypeInv, TypeOK
<1>2. held' = {q \in rowsOpen' : ~inTx'[q]}
  BY DEF TypeInv, TypeOK, OpenInv
<1>3. held' \in SUBSET held
  OBVIOUS
<1>4. MaxOpen # 0 => Cardinality(held') <= MaxOpen
  BY <1>3, FewerHeld
<1>5. Local(p)'
  BY <1>0, <1>1, ZenonT(40) DEF TypeInv, TypeOK, Local, OpenInv, ReadingInv, ReadInv, AnswerInv, Single, AllOps
<1>6. \A q \in Procs \ {p} : Untouched(q)
  BY DEF TypeInv, TypeOK, Untouched
<1> QED BY ONLY IInv, p \in Procs, <1>1, <1>2, <1>4, <1>5, <1>6, OneSteps DEF TypeInv

\* ContextDone keeps the invariant.
LEMMA ContextDoneInv ==
    ASSUME IInv, NEW p \in Procs, ContextDone(p)
    PROVE  IInv'
<1> USE StatementAssumption DEF IInv, ContextDone, Errors, Typed
<1>0. Typed(p)
  BY LocalTypes DEF TypeInv
<1>1. TypeOK'
  BY <1>0 DEF TypeInv, TypeOK
<1>2. held' = {q \in rowsOpen' : ~inTx'[q]}
  BY DEF TypeInv, TypeOK, OpenInv
<1>3. held' \in SUBSET held
  OBVIOUS
<1>4. MaxOpen # 0 => Cardinality(held') <= MaxOpen
  BY <1>3, FewerHeld
<1>5. Local(p)'
  BY <1>0, <1>1 DEF TypeInv, TypeOK, Local, OpenInv, ReadingInv, ReadInv, AnswerInv, Single, AllOps
<1>6. \A q \in Procs \ {p} : Untouched(q)
  BY DEF TypeInv, TypeOK, Untouched
<1> QED BY ONLY IInv, p \in Procs, <1>1, <1>2, <1>4, <1>5, <1>6, OneSteps DEF TypeInv

\* Call keeps the invariant.
LEMMA CallInv ==
    ASSUME IInv, NEW p \in Procs,
           NEW o \in Ops, NEW args \in BOOLEAN, NEW t \in BOOLEAN, Call(p, o, args, t)
    PROVE  IInv'
<1> USE StatementAssumption DEF IInv, Call, Goto, Errors, Typed
<1>0. Typed(p)
  BY LocalTypes DEF TypeInv
<1>1. TypeOK'
  <2>1. inTx' \in [Procs -> BOOLEAN] /\ broken' \in [Procs -> BOOLEAN]
    BY DEF TypeInv, TypeOK
  <2> QED BY <2>1 DEF TypeInv, TypeOK
<1>2. held' = {q \in rowsOpen' : ~inTx'[q]}
  BY DEF TypeInv, TypeOK, OpenInv
<1>3. MaxOpen # 0 => Cardinality(held') <= MaxOpen
  BY DEF TypeInv
<1>4. Local(p)'
  BY <1>0, <1>1 DEF TypeInv, TypeOK, Local, OpenInv, ReadingInv, ReadInv, AnswerInv, Single, AllOps
<1>5. \A q \in Procs \ {p} : Untouched(q)
  BY DEF TypeInv, TypeOK, Untouched
<1> QED BY ONLY IInv, p \in Procs, <1>1, <1>2, <1>3, <1>4, <1>5, OneSteps DEF TypeInv

\* RunQuery keeps the invariant: it takes a connection only when there is room.
LEMMA RunQueryInv ==
    ASSUME IInv, NEW p \in Procs, NEW n \in 0 .. MaxRows, NEW b \in BOOLEAN,
           RunQuery(p, n, b)
    PROVE  IInv'
<1> USE StatementAssumption DEF IInv, RunQuery, CanUse, Goto, Errors, Typed
<1>0. Typed(p)
  BY LocalTypes DEF TypeInv
<1>1. TypeOK'
  <2>1. broken' \in [Procs -> BOOLEAN]
    BY DEF TypeInv, TypeOK
  <2> QED BY <2>1 DEF TypeInv, TypeOK
<1>2. held' = {q \in rowsOpen' : ~inTx'[q]}
  BY DEF TypeInv, TypeOK, OpenInv
<1>3. MaxOpen # 0 => Cardinality(held') <= MaxOpen
  <2>1. CASE inTx[p]
    BY <2>1 DEF TypeInv
  <2>2. CASE ~inTx[p]
    BY <2>2, OneMoreHeld
  <2> QED BY <2>1, <2>2
<1>4. Local(p)'
  BY <1>0, <1>1 DEF TypeInv, TypeOK, Local, OpenInv, ReadingInv, ReadInv, AnswerInv, Single, AllOps
<1>5. \A q \in Procs \ {p} : Untouched(q)
  BY DEF TypeInv, TypeOK, Untouched
<1> QED BY ONLY IInv, p \in Procs, <1>1, <1>2, <1>3, <1>4, <1>5, OneSteps DEF TypeInv

\* The initial state satisfies the invariant.
LEMMA InitInv == Init => IInv
<1> SUFFICES ASSUME Init PROVE IInv
  OBVIOUS
<1>1. TypeOK
  BY StatementAssumption DEF Init, TypeOK, AllOps, Errors
<1>2. held = {q \in rowsOpen : ~inTx[q]}
  BY DEF Init
<1>3. MaxOpen # 0 => Cardinality(held) <= MaxOpen
  BY FS_EmptySet, StatementAssumption DEF Init
<1>4. ASSUME NEW p \in Procs PROVE Local(p)
  BY DEF Init, Local, OpenInv, ReadingInv, ReadInv, AnswerInv
<1> QED BY <1>1, <1>2, <1>3, <1>4 DEF IInv, TypeInv, Local

\* Every step keeps the invariant.
LEMMA NextInv == IInv /\ [Next]_vars => IInv'
<1> SUFFICES ASSUME IInv, [Next]_vars PROVE IInv'
  OBVIOUS
<1>1. ASSUME NEW p \in Procs, Begin(p) PROVE IInv'
  BY <1>1, CallInv DEF Begin
<1>2. ASSUME NEW p \in Procs, Proceed(p) PROVE IInv'
  BY <1>2, PrepareInv, RunExecInv, RunQueryInv, ColumnsFitInv, ColumnsRefusedInv,
     NextRowInv, NextEndsInv, ScanRowInv, ScanFailsInv, CloseRowsInv, CloseStmtInv,
     ReturnInv DEF Proceed
<1>3. ASSUME NEW p \in Procs, Interrupt(p) PROVE IInv'
  BY <1>3, PrepareFailsInv, RunFailsInv, ContextDoneInv DEF Interrupt
<1>4. CASE UNCHANGED vars
  BY <1>4 DEF vars, IInv, TypeInv, TypeOK, OpenInv, ReadingInv, ReadInv, AnswerInv
<1> QED BY <1>1, <1>2, <1>3, <1>4 DEF Next

\* The invariant holds in every behaviour.
THEOREM StatementInvariance == Spec => []IInv
BY InitInv, NextInv, PTL DEF Spec

\* session.Query and the deferred Close calls: the connections in use are those
\* of the open result sets, within the limit of the pool.
THEOREM StatementTypes == Spec => []TypeInv
<1>1. IInv => TypeInv
  BY DEF IInv
<1> QED BY <1>1, StatementInvariance, PTL

\* Whatever fails, rows, statement and connection are given back before the
\* caller goes on.
THEOREM StatementsLeaveNothingOpen == Spec => []NothingLeftOpen
<1>1. IInv => NothingLeftOpen
  BY DEF IInv, TypeInv, OpenInv, NothingLeftOpen
<1> QED BY <1>1, StatementInvariance, PTL

\* Without FindCol, whose scanner does not ask rows.Err, no result set cut
\* short passes for a whole one.
THEOREM AnswersComplete ==
    ASSUME "FindCol" \notin Ops
    PROVE  Spec => []CompleteOrError
<1>1. IInv => CompleteOrError
  BY DEF IInv, TypeInv, TypeOK, AnswerInv, CompleteOrError
<1> QED BY <1>1, StatementInvariance, PTL
=============================================================================
