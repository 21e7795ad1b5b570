----------------------------- MODULE Statement -----------------------------
(***************************************************************************)
(* One statement from the caller to the database and back: session.Exec,   *)
(* Query and Exist (session.go), the four scanners (scanner.go) and the    *)
(* Get and Find of the query statements (select.go), run by goroutines     *)
(* that share the connections of one pool.                                 *)
(*                                                                         *)
(* Exist is session.Exist; Get and Find read models, GetCol and FindCol a  *)
(* single column.  A result set is the number of rows the database would   *)
(* send; its iteration may break before they were all read, by an error of *)
(* the database or because the context is done.                            *)
(***************************************************************************)
EXTENDS Naturals, FiniteSets

CONSTANTS
    Procs,      \* goroutines
    Ops,        \* the operations they use
    MaxOpen,    \* WithMaxOpenConns; 0: no limit
    MaxRows     \* bounds a result set

AllOps == {"Exec", "Exist", "Get", "Find", "GetCol", "FindCol"}
Single == {"Get", "GetCol"}

ASSUME StatementAssumption ==
    /\ Ops \subseteq AllOps
    /\ IsFiniteSet(Procs)
    /\ MaxOpen \in Nat
    /\ MaxRows \in Nat

VARIABLES
    pc,
    op,         \* the operation a goroutine runs or ran last
    inTx,       \* the context carries a transaction: its connection is used
    total,      \* rows of the result set
    left,       \* rows not yet read
    broken,     \* the iteration ends with an error instead of its last row
    got,        \* rows scanned
    err,        \* the error on its way to the caller
    answer,     \* [rows, err]: what the caller was told
    held,       \* who holds a connection of the pool
    stmts,      \* who has a prepared statement open
    rowsOpen    \* who has a result set open

vars == <<pc, op, inTx, total, left, broken, got, err, answer, held, stmts, rowsOpen>>

Errors == {"none", "noRows", "failed"}

TypeOK ==
    /\ pc \in [Procs -> {"idle", "prepare", "run", "columns", "next", "row",
                         "closeRows", "closeStmt", "return"}]
    /\ op \in [Procs -> Ops \cup {"Exec"}]
    /\ inTx \in [Procs -> BOOLEAN]
    /\ total \in [Procs -> 0 .. MaxRows]
    /\ left \in [Procs -> 0 .. MaxRows]
    /\ broken \in [Procs -> BOOLEAN]
    /\ got \in [Procs -> 0 .. MaxRows]
    /\ err \in [Procs -> Errors]
    /\ answer \in [Procs -> [rows : 0 .. MaxRows, err : BOOLEAN]]
    /\ held \subseteq Procs
    /\ stmts \subseteq Procs
    /\ rowsOpen \subseteq Procs

Init ==
    /\ pc = [p \in Procs |-> "idle"]
    /\ op = [p \in Procs |-> "Exec"]
    /\ inTx = [p \in Procs |-> FALSE]
    /\ total = [p \in Procs |-> 0]
    /\ left = [p \in Procs |-> 0]
    /\ broken = [p \in Procs |-> FALSE]
    /\ got = [p \in Procs |-> 0]
    /\ err = [p \in Procs |-> "none"]
    /\ answer = [p \in Procs |-> [rows |-> 0, err |-> FALSE]]
    /\ held = {}
    /\ stmts = {}
    /\ rowsOpen = {}

Goto(p, l) == pc' = [pc EXCEPT ![p] = l]
Fail(p, e) == err' = [err EXCEPT ![p] = e]

\* A statement of a transaction runs on the transaction's own connection.
CanUse(p) == inTx[p] \/ MaxOpen = 0 \/ Cardinality(held) < MaxOpen

\* session.proxy; without args there is nothing to prepare.
Call(p, o, args, t) ==
    /\ pc[p] = "idle"
    /\ Goto(p, IF args THEN "prepare" ELSE "run")
    /\ op' = [op EXCEPT ![p] = o]
    /\ inTx' = [inTx EXCEPT ![p] = t]
    /\ total' = [total EXCEPT ![p] = 0]
    /\ broken' = [broken EXCEPT ![p] = FALSE]
    /\ answer' = [answer EXCEPT ![p] = [rows |-> 0, err |-> FALSE]]
    /\ UNCHANGED <<left, got, err, held, stmts, rowsOpen>>

\* PrepareContext takes a connection and gives it back; stmt.Close is deferred.
Prepare(p) ==
    /\ pc[p] = "prepare"
    /\ CanUse(p)
    /\ Goto(p, "run")
    /\ stmts' = stmts \cup {p}
    /\ UNCHANGED <<op, inTx, total, left, broken, got, err, answer, held, rowsOpen>>

\* ReplacePlaceholders or PrepareContext returns an error; nothing was opened.
PrepareFails(p) ==
    /\ pc[p] = "prepare"
    /\ Goto(p, "return")
    /\ Fail(p, "failed")
    /\ UNCHANGED <<op, inTx, total, left, broken, got, answer, held, stmts, rowsOpen>>

RunExec(p) ==
    /\ pc[p] = "run"
    /\ op[p] = "Exec"
    /\ CanUse(p)
    /\ Goto(p, "closeStmt")
    /\ UNCHANGED <<op, inTx, total, left, broken, got, err, answer, held, stmts, rowsOpen>>

\* QueryContext: the rows keep the connection; rows.Close is deferred.
RunQuery(p, n, b) ==
    /\ pc[p] = "run"
    /\ op[p] # "Exec"
    /\ CanUse(p)
    /\ Goto(p, IF op[p] = "Exist" THEN "next" ELSE "columns")
    /\ total' = [total EXCEPT ![p] = n]
    /\ left' = [left EXCEPT ![p] = n]
    /\ broken' = [broken EXCEPT ![p] = b]
    /\ held' = IF inTx[p] THEN held ELSE held \cup {p}
    /\ rowsOpen' = rowsOpen \cup {p}
    /\ UNCHANGED <<op, inTx, got, err, answer, stmts>>

RunFails(p) ==
    /\ pc[p] = "run"
    /\ Goto(p, "closeStmt")
    /\ Fail(p, "failed")
    /\ UNCHANGED <<op, inTx, total, left, broken, got, answer, held, stmts, rowsOpen>>

\* The scanner looks at the columns before it reads.
ColumnsFit(p) ==
    /\ pc[p] = "columns"
    /\ p \in rowsOpen
    /\ Goto(p, "next")
    /\ UNCHANGED <<op, inTx, total, left, broken, got, err, answer, held, stmts, rowsOpen>>

\* rows.Columns fails on closed rows; a column scanner wants exactly one
\* column, a model scanner one row of known columns (scanRow refuses RawBytes).
ColumnsRefused(p) ==
    /\ pc[p] = "columns"
    /\ op[p] \in {"Get", "GetCol", "FindCol"} \/ p \notin rowsOpen
    /\ Goto(p, "closeRows")
    /\ Fail(p, "failed")
    /\ UNCHANGED <<op, inTx, total, left, broken, got, answer, held, stmts, rowsOpen>>

\* rows.Next is true.
NextRow(p) ==
    /\ pc[p] = "next"
    /\ left[p] > 0
    /\ left' = [left EXCEPT ![p] = @ - 1]
    /\ IF op[p] = "Exist"
       THEN /\ Goto(p, "closeRows")
            /\ got' = [got EXCEPT ![p] = 1]
       ELSE /\ Goto(p, "row")
            /\ UNCHANGED got
    /\ UNCHANGED <<op, inTx, total, broken, err, answer, held, stmts, rowsOpen>>

\* Variant: nobody asks for the error that ended the iteration.
EndErrorUnchecked(p) == IF op[p] \in Single THEN "noRows" ELSE "none"

\* What a scanner makes of the end of the rows.  ColsScanner.Scan is the one
\* that does not ask rows.Err.
EndError(p) ==
    IF broken[p] /\ op[p] # "FindCol" THEN "failed"
    ELSE IF op[p] \in Single THEN "noRows" ELSE "none"

\* rows.Next is false; it has closed the rows, and with them the connection.
NextEnds(p) ==
    /\ pc[p] = "next"
    /\ left[p] = 0
    /\ Goto(p, "closeRows")
    /\ Fail(p, EndError(p))
    /\ held' = held \ {p}
    /\ rowsOpen' = rowsOpen \ {p}
    /\ UNCHANGED <<op, inTx, total, left, broken, got, answer, stmts>>

\* rows.Scan into the next model or value; the loops of ModelsScanner and
\* ColsScanner go on, scanRow is done.
ScanRow(p) ==
    /\ pc[p] = "row"
    /\ p \in rowsOpen
    /\ Goto(p, IF op[p] \in Single THEN "closeRows" ELSE "next")
    /\ got' = [got EXCEPT ![p] = @ + 1]
    /\ UNCHANGED <<op, inTx, total, left, broken, err, answer, held, stmts, rowsOpen>>

\* rows.Scan fails or panics (a conversion, a JSON field, rows closed meanwhile).
ScanFails(p) ==
    /\ pc[p] = "row"
    /\ Goto(p, "closeRows")
    /\ Fail(p, "failed")
    /\ UNCHANGED <<op, inTx, total, left, broken, got, answer, held, stmts, rowsOpen>>

\* The context is done while rows are open: database/sql closes them, the next
\* rows.Next is false and rows.Err tells why.
ContextDone(p) ==
    /\ pc[p] \in {"columns", "next", "row"}
    /\ p \in rowsOpen
    /\ left' = [left EXCEPT ![p] = 0]
    /\ broken' = [broken EXCEPT ![p] = TRUE]
    /\ held' = held \ {p}
    /\ rowsOpen' = rowsOpen \ {p}
    /\ UNCHANGED <<pc, op, inTx, total, got, err, answer, stmts>>

\* Variant: rows.Close is not deferred but follows a successful scan.
CloseRowsOnSuccess(p) ==
    /\ pc[p] = "closeRows"
    /\ Goto(p, "closeStmt")
    /\ held' = IF err[p] = "none" THEN held \ {p} ELSE held
    /\ rowsOpen' = IF err[p] = "none" THEN rowsOpen \ {p} ELSE rowsOpen
    /\ UNCHANGED <<op, inTx, total, left, broken, got, err, answer, stmts>>

CloseRows(p) ==
    /\ pc[p] = "closeRows"
    /\ Goto(p, "closeStmt")
    /\ held' = held \ {p}
    /\ rowsOpen' = rowsOpen \ {p}
    /\ UNCHANGED <<op, inTx, total, left, broken, got, err, answer, stmts>>

CloseStmt(p) ==
    /\ pc[p] = "closeStmt"
    /\ Goto(p, "return")
    /\ stmts' = stmts \ {p}
    /\ UNCHANGED <<op, inTx, total, left, broken, got, err, answer, held, rowsOpen>>

\* Get and Find turn ErrNoRows into no result, and any other error keeps them
\* from handing out what was scanned; the goroutine's locals are gone.
Return(p) ==
    /\ pc[p] = "return"
    /\ Goto(p, "idle")
    /\ answer' = [answer EXCEPT ![p] =
                    [rows |-> IF err[p] = "none" THEN got[p] ELSE 0,
                     err  |-> err[p] = "failed"]]
    /\ inTx' = [inTx EXCEPT ![p] = FALSE]
    /\ left' = [left EXCEPT ![p] = 0]
    /\ got' = [got EXCEPT ![p] = 0]
    /\ Fail(p, "none")
    /\ UNCHANGED <<op, total, broken, held, stmts, rowsOpen>>

Begin(p) == \E o \in Ops, args, t \in BOOLEAN : Call(p, o, args, t)

\* What the goroutine and the database do when nothing goes wrong before the
\* statement ran.
Proceed(p) ==
    \/ Prepare(p) \/ RunExec(p)
    \/ \E n \in 0 .. MaxRows, b \in BOOLEAN : RunQuery(p, n, b)
    \/ ColumnsFit(p) \/ ColumnsRefused(p)
    \/ NextRow(p) \/ NextEnds(p)
    \/ ScanRow(p) \/ ScanFails(p)
    \/ CloseRows(p) \/ CloseStmt(p) \/ Return(p)

Interrupt(p) == PrepareFails(p) \/ RunFails(p) \/ ContextDone(p)

Next == \E p \in Procs : Begin(p) \/ Proceed(p) \/ Interrupt(p)

Spec == Init /\ [][Next]_vars

\* A goroutine that can proceed does; database/sql serves those who wait for a
\* connection in their order, so one that is free again and again is got.  No
\* wait is assumed to end by an error: contexts need not have a deadline.
Fairness == \A p \in Procs : SF_vars(Proceed(p))

FairSpec == Spec /\ Fairness

-----------------------------------------------------------------------------
(* Properties *)

\* Types, and: the connections taken from the pool are those of the open result
\* sets outside transactions, never more than MaxOpen (session.Query).
TypeInv ==
    /\ TypeOK
    /\ held = {p \in rowsOpen : ~inTx[p]}
    /\ MaxOpen # 0 => Cardinality(held) <= MaxOpen

\* What an operation told its caller is all of the result set or an error:
\* Find and FindCol give every row, Get and GetCol the first, no row only when
\* there is none, and Exist is true exactly if there is a row.  A result set
\* cut short by the database or by the context never passes for a whole one
\* (scanner.go, the rows.Err checks; session.Exist).
CompleteOrError == \A p \in Procs :
    pc[p] = "idle" /\ op[p] # "Exec" /\ ~answer[p].err =>
        IF op[p] \in {"Find", "FindCol"}
        THEN answer[p].rows = total[p] /\ ~broken[p]
        ELSE IF total[p] = 0
        THEN answer[p].rows = 0 /\ ~broken[p]
        ELSE answer[p].rows = 1

\* On every path, failing prepares and failing or panicking scanners included,
\* the rows, the statement and the connection are given back before the caller
\* goes on (the deferred Close calls of session.go).
NothingLeftOpen == \A p \in Procs :
    pc[p] \in {"idle", "prepare", "return"} => p \notin held \cup stmts \cup rowsOpen

\* Every operation returns, though all of them share MaxOpen connections and
\* no context has a deadline: none waits for a connection while it holds one.
OperationsReturn == \A p \in Procs : pc[p] # "idle" ~> pc[p] = "idle"
-----------------------------------------------------------------------------
(* The inductive invariant behind them *)

\* Where nothing is open, and where nothing was read yet.
OpenInv(p) ==
    /\ pc[p] \in {"idle", "prepare", "run", "closeStmt", "return"} => p \notin rowsOpen
    /\ pc[p] \in {"idle", "prepare", "return"} => p \notin stmts

\* The rows read and to be read make up the result set, until it breaks.
ReadingInv(p) ==
    /\ pc[p] \in {"idle", "prepare", "run"} => got[p] = 0 /\ left[p] = 0
    /\ pc[p] \in {"idle", "prepare", "run", "columns", "next", "row"} => err[p] = "none"
    /\ pc[p] \in {"columns", "next", "row"} =>
        /\ op[p] # "Exec"
        /\ got[p] + left[p] <= total[p]
        /\ pc[p] = "columns" => got[p] = 0
        /\ pc[p] = "row" => op[p] # "Exist" /\ got[p] + left[p] < total[p]
        /\ op[p] \in Single \cup {"Exist"} => got[p] = 0
        /\ ~broken[p] =>
            got[p] + left[p] + (IF pc[p] = "row" THEN 1 ELSE 0) = total[p]

\* Once the reading is over without a failure, all of it was read (but for
\* ColsScanner, which does not ask).
ReadInv(p) ==
    pc[p] \in {"closeRows", "closeStmt", "return"} /\ op[p] \notin {"Exec", "FindCol"}
        /\ err[p] # "failed" =>
        IF op[p] = "Find"
        THEN got[p] = total[p] /\ ~broken[p] /\ err[p] = "none"
        ELSE IF total[p] = 0
        THEN got[p] = 0 /\ ~broken[p]
        ELSE got[p] = 1 /\ err[p] = "none"

AnswerInv(p) ==
    pc[p] = "idle" /\ op[p] \notin {"Exec", "FindCol"} /\ ~answer[p].err =>
        IF op[p] = "Find"
        THEN answer[p].rows = total[p] /\ ~broken[p]
        ELSE IF total[p] = 0
        THEN answer[p].rows = 0 /\ ~broken[p]
        ELSE answer[p].rows = 1

IInv ==
    /\ TypeInv
    /\ \A p \in Procs :
        OpenInv(p) /\ ReadingInv(p) /\ ReadInv(p) /\ AnswerInv(p)
=============================================================================
