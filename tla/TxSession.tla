----------------------------- MODULE TxSession -----------------------------
(***************************************************************************)
(* Engine.TX (lorm.go) and the session it puts into the context            *)
(* (session.go), called by concurrent goroutines over a database/sql pool. *)
(*                                                                         *)
(* A session is one call of TX that reached BeginTx.  It lives in phases:  *)
(*   fn          the callback runs                                         *)
(*   commit      the callback returned nil, s.commit() is next             *)
(*   committing  tx.Commit is waiting for the database                     *)
(*   close       TX is returning, the deferred s.close() is next           *)
(*   rollback    s.close() is inside tx.Rollback                           *)
(*   returned    TX has returned ret                                       *)
(* A context is the session whose callback received it (context.WithValue  *)
(* in TX), or a root: NoSession, which carries nothing, or Planted, which  *)
(* carries a session VALUE as lorm_tx_misc_test.go builds it.  What a      *)
(* session's context carries is env: for every engine, the session that    *)
(* ctx.Value(engine) yields.                                               *)
(*                                                                         *)
(* The pool, sql.Tx and the database are external; they are modelled from  *)
(* the calls lorm makes: BeginTx pins one connection until the transaction *)
(* ends, statements on an ended transaction fail, a transaction whose      *)
(* context is done is rolled back in the background (awaitDone).           *)
(***************************************************************************)
EXTENDS Naturals, FiniteSets

CONSTANTS
    Procs,       \* goroutines
    Engines,
    Sessions,    \* bounds the calls of TX
    EngineOf,    \* the engine whose TX a session is a call of
    Keys,        \* what a statement writes
    NoSession,
    Planted,
    Roots,       \* the contexts goroutines start from
    MaxOpen,     \* WithMaxOpenConns; 0: no limit
    Nesting,     \* callbacks may call TX
    Strict,      \* statements of a callback use its own ctx, as README.md asks
    Faults       \* what the environment may do: "cancel" contexts, "close" engines

ASSUME SessionAssumption ==
    /\ NoSession \notin Sessions
    /\ Planted \notin Sessions \cup {NoSession}
    /\ EngineOf \in [Sessions -> Engines]
ASSUME PoolAssumption == IsFiniteSet(Sessions) /\ MaxOpen \in Nat
ASSUME CallerAssumption ==
    /\ Roots \subseteq {NoSession, Planted}
    /\ Nesting \in BOOLEAN
    /\ Strict \in BOOLEAN
    /\ Faults \subseteq {"cancel", "close"}

VARIABLES
    call,       \* <<ctx, engine>> of the TX a goroutine is beginning, or <<>>
    top,        \* the innermost call of TX on a goroutine's stack
    up,         \* the call of TX a session's call is nested in
    phase,
    ret,        \* the value TX returns, once known
    isClosed,   \* session.isClosed
    env,        \* what a session's context carries
    anc,        \* the sessions whose contexts a session's context derives from
    tx,         \* the state of the session's sql.Tx
    pend,       \* the writes the transaction holds, as <<owner, key>>
    inUse,      \* the sessions that hold a connection of their engine's pool
    cancelled,  \* the sessions whose context is done
    shut,       \* engines that were closed
    durable,    \* <<owner, key>> pairs another client of the database reads
    issued      \* history: the keys written under a session without an error

goVars  == <<call, top, up, phase, ret, isClosed, env, anc>>
dbVars  == <<tx, pend, inUse, durable>>
vars    == <<call, top, up, phase, ret, isClosed, env, anc,
             tx, pend, inUse, cancelled, shut, durable, issued>>

Contexts == Sessions \cup {NoSession, Planted}
Owners   == Sessions \cup {NoSession}
Phases   == {"unused", "fn", "commit", "committing", "close", "rollback", "returned"}
Results  == {"nil", "fnErr", "panic", "commitErr"}
TxStates == {"none", "active", "committing", "rollingback", "committed", "rolledback"}

TypeOK ==
    /\ call \in [Procs -> {<<>>} \cup (Contexts \X Engines)]
    /\ top \in [Procs -> Owners]
    /\ up \in [Sessions -> Owners]
    /\ phase \in [Sessions -> Phases]
    /\ ret \in [Sessions -> Results \cup {"none"}]
    /\ isClosed \in [Sessions -> BOOLEAN]
    /\ env \in [Sessions -> [Engines -> Owners]]
    /\ anc \in [Sessions -> SUBSET Sessions]
    /\ tx \in [Sessions -> TxStates]
    /\ pend \in [Sessions -> SUBSET (Owners \X Keys)]
    /\ inUse \subseteq Sessions
    /\ cancelled \subseteq Sessions
    /\ shut \subseteq Engines
    /\ durable \subseteq Owners \X Keys
    /\ issued \in [Sessions -> SUBSET Keys]

Init ==
    /\ call = [p \in Procs |-> <<>>]
    /\ top = [p \in Procs |-> NoSession]
    /\ up = [s \in Sessions |-> NoSession]
    /\ phase = [s \in Sessions |-> "unused"]
    /\ ret = [s \in Sessions |-> "none"]
    /\ isClosed = [s \in Sessions |-> FALSE]
    /\ env = [s \in Sessions |-> [e \in Engines |-> NoSession]]
    /\ anc = [s \in Sessions |-> {}]
    /\ tx = [s \in Sessions |-> "none"]
    /\ pend = [s \in Sessions |-> {}]
    /\ inUse = {}
    /\ cancelled = {}
    /\ shut = {}
    /\ durable = {}
    /\ issued = [s \in Sessions |-> {}]

-----------------------------------------------------------------------------
(* Contexts *)

Env(c) == IF c \in Sessions THEN env[c] ELSE [e \in Engines |-> NoSession]
Anc(c) == IF c \in Sessions THEN anc[c] ELSE {}
Done(c) == c \in cancelled

\* The dynamic type of ctx.Value(e): TX stores a *session, never a session.
CtxKind(c, e) ==
    IF c = Planted THEN "value"
    ELSE IF Env(c)[e] # NoSession THEN "pointer" ELSE "nil"

\* The test at the head of TX asserts the type session.
Joins(c, e) == CtxKind(c, e) = "value"

\* Variants of Proxy: a session that was closed falls back to the pool; the
\* context key is not the engine.
ProxyOpenOnly(c, e) ==
    IF CtxKind(c, e) = "pointer" /\ ~isClosed[Env(c)[e]] THEN Env(c)[e] ELSE NoSession
ProxyAnyEngine(c, e) == IF c \in Sessions THEN c ELSE NoSession

\* Engine.session and session.proxy: the transaction a statement runs in, or
\* NoSession for the pool.  The assertion here is to *session.
Proxy(c, e) == IF CtxKind(c, e) = "pointer" THEN Env(c)[e] ELSE NoSession

\* The call of TX on engine e whose callback is the closest one around c.
\* Defined from how the calls are nested and not from what contexts carry.
Around(c, e) == {s \in Anc(c) : EngineOf[s] = e}
Owner(c, e) ==
    IF Around(c, e) = {} THEN NoSession
    ELSE CHOOSE s \in Around(c, e) : \A t \in Around(c, e) : t \in anc[s]

Running(p) ==
    /\ call[p] = <<>>
    /\ top[p] # NoSession => phase[top[p]] = "fn"

\* Without Strict a goroutine may use every context any callback was given:
\* an outer callback's, another goroutine's, that of a TX long returned.
Usable(p) ==
    IF Strict
    THEN IF top[p] = NoSession THEN Roots ELSE {top[p]}
    ELSE Roots \cup {s \in Sessions : phase[s] # "unused"}

-----------------------------------------------------------------------------
(* The pool *)

Unused(e) == {s \in Sessions : EngineOf[s] = e /\ phase[s] = "unused"}
Held(e)   == {s \in inUse : EngineOf[s] = e}
HasRoom(e) == MaxOpen = 0 \/ Cardinality(Held(e)) < MaxOpen

\* BOUND: no more calls of TX than there are sessions for.
WithinBudget(e) ==
    Cardinality({p \in Procs : call[p] # <<>> /\ call[p][2] = e}) < Cardinality(Unused(e))

-----------------------------------------------------------------------------
(* Engine.TX *)

\* TX is called and does not take the branch that runs fn on the caller's ctx.
CallTX(p, c, e) ==
    /\ Running(p)
    /\ c \in Usable(p)
    /\ Nesting \/ top[p] = NoSession
    /\ ~Joins(c, e)
    /\ WithinBudget(e)
    /\ call' = [call EXCEPT ![p] = <<c, e>>]
    /\ UNCHANGED <<top, up, phase, ret, isClosed, env, anc, cancelled, shut, issued>>
    /\ UNCHANGED dbVars

\* The branch: fn(ctx) is an ordinary call, nothing is begun.
JoinTX(p, c, e) ==
    /\ Running(p)
    /\ c \in Usable(p)
    /\ Joins(c, e)
    /\ UNCHANGED vars

\* beginTxSession succeeds, fn is called with the session in its ctx.
Begin(p, s) ==
    /\ call[p] # <<>>
    /\ LET c == call[p][1]
           e == call[p][2]
       IN /\ EngineOf[s] = e
          /\ phase[s] = "unused"
          /\ ~Done(c)
          /\ e \notin shut
          /\ HasRoom(e)
          /\ env' = [env EXCEPT ![s] = [Env(c) EXCEPT ![e] = s]]
          /\ anc' = [anc EXCEPT ![s] = Anc(c) \cup {s}]
    /\ call' = [call EXCEPT ![p] = <<>>]
    /\ up' = [up EXCEPT ![s] = top[p]]
    /\ top' = [top EXCEPT ![p] = s]
    /\ phase' = [phase EXCEPT ![s] = "fn"]
    /\ tx' = [tx EXCEPT ![s] = "active"]
    /\ inUse' = inUse \cup {s}
    /\ UNCHANGED <<ret, isClosed, pend, cancelled, shut, durable, issued>>

\* BeginTx gives up: the context is done or the engine was closed ...
BeginRefused(p) ==
    /\ call[p] # <<>>
    /\ Done(call[p][1]) \/ call[p][2] \in shut
    /\ call' = [call EXCEPT ![p] = <<>>]
    /\ UNCHANGED <<top, up, phase, ret, isClosed, env, anc, cancelled, shut, issued>>
    /\ UNCHANGED dbVars

\* ... or the database fails; the pool takes the connection back.
BeginFails(p) ==
    /\ call[p] # <<>>
    /\ call' = [call EXCEPT ![p] = <<>>]
    /\ UNCHANGED <<top, up, phase, ret, isClosed, env, anc, cancelled, shut, issued>>
    /\ UNCHANGED dbVars

FnReturnsNil(p) ==
    /\ Running(p)
    /\ top[p] # NoSession
    /\ phase' = [phase EXCEPT ![top[p]] = "commit"]
    /\ UNCHANGED <<call, top, up, ret, isClosed, env, anc, cancelled, shut, issued>>
    /\ UNCHANGED dbVars

\* Variant: the error of the callback is dropped.
FnFailsSilently(p, r) ==
    /\ Running(p)
    /\ top[p] # NoSession
    /\ phase' = [phase EXCEPT ![top[p]] = "close"]
    /\ UNCHANGED <<call, top, up, ret, isClosed, env, anc, cancelled, shut, issued>>
    /\ UNCHANGED dbVars

\* An error is returned, a panic unwinds: both reach the deferred close.
FnFails(p, r) ==
    /\ Running(p)
    /\ top[p] # NoSession
    /\ phase' = [phase EXCEPT ![top[p]] = "close"]
    /\ ret' = [ret EXCEPT ![top[p]] = r]
    /\ UNCHANGED <<call, top, up, isClosed, env, anc, cancelled, shut, issued>>
    /\ UNCHANGED dbVars

\* session.commit up to the point where tx.Commit talks to the database.
\* isClosed is set first, whatever tx.Commit then says.
Commit(p) ==
    LET s == top[p] IN
    /\ s # NoSession
    /\ phase[s] = "commit"
    /\ isClosed' = [isClosed EXCEPT ![s] = TRUE]
    /\ \/ /\ tx[s] = "active" /\ ~Done(s)
          /\ phase' = [phase EXCEPT ![s] = "committing"]
          /\ tx' = [tx EXCEPT ![s] = "committing"]
          /\ UNCHANGED ret
       \/ /\ tx[s] # "active" \/ Done(s)       \* ErrTxDone, ctx.Err()
          /\ phase' = [phase EXCEPT ![s] = "close"]
          /\ ret' = [ret EXCEPT ![s] = "commitErr"]
          /\ UNCHANGED tx
    /\ UNCHANGED <<call, top, up, env, anc, pend, inUse, cancelled, shut, durable, issued>>

\* Variant: the error of tx.Commit is not returned.
CommitEndsIgnored(p, applied, r) ==
    LET s == top[p] IN
    /\ s # NoSession
    /\ phase[s] = "committing"
    /\ r = "nil" => applied
    /\ phase' = [phase EXCEPT ![s] = "close"]
    /\ ret' = [ret EXCEPT ![s] = "nil"]
    /\ tx' = [tx EXCEPT ![s] = IF applied THEN "committed" ELSE "rolledback"]
    /\ durable' = IF applied THEN durable \cup pend[s] ELSE durable
    /\ inUse' = inUse \ {s}
    /\ UNCHANGED <<call, top, up, isClosed, env, anc, pend, cancelled, shut, issued>>

\* The database answers COMMIT.  applied: it took effect.  r: what the driver
\* says; an error can follow a commit whose acknowledgement was lost.
CommitEnds(p, applied, r) ==
    LET s == top[p] IN
    /\ s # NoSession
    /\ phase[s] = "committing"
    /\ r = "nil" => applied
    /\ phase' = [phase EXCEPT ![s] = "close"]
    /\ ret' = [ret EXCEPT ![s] = r]
    /\ tx' = [tx EXCEPT ![s] = IF applied THEN "committed" ELSE "rolledback"]
    /\ durable' = IF applied THEN durable \cup pend[s] ELSE durable
    /\ inUse' = inUse \ {s}
    /\ UNCHANGED <<call, top, up, isClosed, env, anc, pend, cancelled, shut, issued>>

Return(p) ==
    /\ phase' = [phase EXCEPT ![top[p]] = "returned"]
    /\ top' = [top EXCEPT ![p] = up[top[p]]]

\* Variant: the rollback is forgotten.
CloseWithoutRollback(p) ==
    LET s == top[p] IN
    /\ s # NoSession
    /\ phase[s] = "close"
    /\ isClosed' = [isClosed EXCEPT ![s] = TRUE]
    /\ Return(p)
    /\ UNCHANGED <<call, up, ret, env, anc, cancelled, shut, issued>>
    /\ UNCHANGED dbVars

\* The deferred session.close.
Close(p) ==
    LET s == top[p] IN
    /\ s # NoSession
    /\ phase[s] = "close"
    /\ isClosed' = [isClosed EXCEPT ![s] = TRUE]
    /\ \/ /\ ~isClosed[s] /\ tx[s] = "active"
          /\ phase' = [phase EXCEPT ![s] = "rollback"]
          /\ tx' = [tx EXCEPT ![s] = "rollingback"]
          /\ UNCHANGED top
       \/ /\ isClosed[s] \/ tx[s] # "active"   \* no-op, or ErrTxDone is logged
          /\ Return(p)
          /\ UNCHANGED tx
    /\ UNCHANGED <<call, up, ret, env, anc, pend, inUse, cancelled, shut, durable, issued>>

CloseEnds(p) ==
    LET s == top[p] IN
    /\ s # NoSession
    /\ phase[s] = "rollback"
    /\ tx[s] = "rolledback"
    /\ Return(p)
    /\ UNCHANGED <<call, up, ret, isClosed, env, anc, cancelled, shut, issued>>
    /\ UNCHANGED dbVars

-----------------------------------------------------------------------------
(* Statements: Engine.Exec with a ctx.  A statement that fails (ErrTxDone,   *)
(* a context that is done, a closed engine, an SQL error) changes nothing.   *)

Acknowledge(o, k) ==
    issued' = IF o = NoSession THEN issued ELSE [issued EXCEPT ![o] = @ \cup {k}]

StatementOnPool(p, c, e, k) ==
    /\ Running(p)
    /\ c \in Usable(p)
    /\ Proxy(c, e) = NoSession
    /\ ~Done(c)
    /\ e \notin shut
    /\ HasRoom(e)
    /\ durable' = durable \cup {<<Owner(c, e), k>>}
    /\ Acknowledge(Owner(c, e), k)
    /\ UNCHANGED goVars
    /\ UNCHANGED <<tx, pend, inUse, cancelled, shut>>

StatementInTx(p, c, e, k) ==
    LET s == Proxy(c, e) IN
    /\ Running(p)
    /\ c \in Usable(p)
    /\ s # NoSession
    /\ tx[s] = "active"
    /\ ~Done(c)
    /\ pend' = [pend EXCEPT ![s] = @ \cup {<<Owner(c, e), k>>}]
    /\ Acknowledge(Owner(c, e), k)
    /\ UNCHANGED goVars
    /\ UNCHANGED <<tx, inUse, cancelled, shut, durable>>

-----------------------------------------------------------------------------
(* The environment *)

\* The context TX was called with for s is cancelled or times out, and with it
\* every context derived from it.
Cancel(s) ==
    /\ "cancel" \in Faults
    /\ phase[s] \notin {"unused", "returned"}
    /\ s \notin cancelled
    /\ cancelled' = cancelled \cup {t \in Sessions : s \in anc[t]}
    /\ UNCHANGED goVars
    /\ UNCHANGED dbVars
    /\ UNCHANGED <<shut, issued>>

\* database/sql rolls a transaction back once its context is done.
AwaitDone(s) ==
    /\ s \in cancelled
    /\ tx[s] = "active"
    /\ tx' = [tx EXCEPT ![s] = "rollingback"]
    /\ UNCHANGED goVars
    /\ UNCHANGED <<pend, inUse, cancelled, shut, durable, issued>>

\* The rollback is through and the pool has the connection back.
RollbackEnds(s) ==
    /\ tx[s] = "rollingback"
    /\ tx' = [tx EXCEPT ![s] = "rolledback"]
    /\ inUse' = inUse \ {s}
    /\ UNCHANGED goVars
    /\ UNCHANGED <<pend, cancelled, shut, durable, issued>>

\* Engine.Close: no new work; transactions that were begun go on.
EngineClose(e) ==
    /\ "close" \in Faults
    /\ e \notin shut
    /\ shut' = shut \cup {e}
    /\ UNCHANGED goVars
    /\ UNCHANGED dbVars
    /\ UNCHANGED <<cancelled, issued>>

\* What a callback or any other caller does with a context ...
Caller(p) == \E c \in Contexts, e \in Engines :
    \/ CallTX(p, c, e)
    \/ JoinTX(p, c, e)
    \/ \E k \in Keys : StatementOnPool(p, c, e, k) \/ StatementInTx(p, c, e, k)

\* ... and the steps of a call of TX.
Transact(p) ==
    \/ \E s \in Sessions : Begin(p, s)
    \/ BeginRefused(p)
    \/ BeginFails(p)
    \/ FnReturnsNil(p)
    \/ \E r \in {"fnErr", "panic"} : FnFails(p, r)
    \/ Commit(p)
    \/ \E applied \in BOOLEAN, r \in {"nil", "commitErr"} : CommitEnds(p, applied, r)
    \/ Close(p)
    \/ CloseEnds(p)

Environment ==
    \/ \E s \in Sessions : Cancel(s) \/ AwaitDone(s) \/ RollbackEnds(s)
    \/ \E e \in Engines : EngineClose(e)

Next == (\E p \in Procs : Caller(p) \/ Transact(p)) \/ Environment

Spec == Init /\ [][Next]_vars

\* lorm's own steps and those of database/sql are taken when they can be; the
\* pool serves waiting requests first come first served; callbacks end.
Fairness ==
    /\ \A p \in Procs :
        /\ SF_vars(\E s \in Sessions : Begin(p, s))
        /\ WF_vars(BeginRefused(p))
        /\ WF_vars(FnReturnsNil(p) \/ \E r \in {"fnErr", "panic"} : FnFails(p, r))
        /\ WF_vars(Commit(p))
        /\ WF_vars(\E applied \in BOOLEAN, r \in {"nil", "commitErr"} : CommitEnds(p, applied, r))
        /\ WF_vars(Close(p))
        /\ WF_vars(CloseEnds(p))
    /\ \A s \in Sessions : WF_vars(AwaitDone(s)) /\ WF_vars(RollbackEnds(s))

FairSpec == Spec /\ Fairness

-----------------------------------------------------------------------------
(* Properties *)

Effects(s) == {k \in Keys : <<s, k>> \in durable}

\* The return value of TX is known from the moment its deferred close is due
\* and not earlier (lorm.go, TX).
ResultKnown == \A s \in Sessions :
    (ret[s] # "none") <=> phase[s] \in {"close", "rollback", "returned"}

TypeInv == TypeOK /\ ResultKnown

\* A statement issued under a callback, by whichever goroutine and through
\* whichever context carries the callback's session, is durable exactly when
\* that call's transaction committed: never before, never without the others.
Atomicity == \A s \in Sessions :
    Effects(s) = IF tx[s] = "committed" THEN issued[s] ELSE {}

\* What TX returned is true of the database: after nil everything the callback
\* wrote is there, after its error or panic nothing is.
VerdictHolds == \A s \in Sessions : phase[s] = "returned" =>
    /\ ret[s] = "nil" => Effects(s) = issued[s]
    /\ ret[s] \in {"fnErr", "panic"} => Effects(s) = {}

\* A TX that returned has given its connection back, on every path; only the
\* background rollback of a context that is done may still hold it.
Released == \A s \in Sessions :
    phase[s] = "returned" /\ s \notin cancelled => s \notin inUse

\* A context that outlives its TX cannot write any more: once TX returned,
\* what the call wrote is neither extended nor taken back.
NoLateEffect ==
    [][\A s \in Sessions : phase[s] = "returned" =>
          Effects(s)' = Effects(s) /\ issued'[s] = issued[s]]_vars

\* Engine.TX: "If a transaction is currently open, get the transaction session"
\* (lorm.go:76): a TX whose ctx carries an open transaction of the same engine
\* begins no other one beside it.
OpenTransactionJoined == \A s \in Sessions : tx[s] = "active" =>
    \A t \in anc[s] \ {s} : EngineOf[t] = EngineOf[s] => tx[t] # "active"

\* Every call of TX gets past BeginTx or fails, and every callback that was
\* started ends in a return of TX: no call waits for ever for a connection.
TXReturns ==
    /\ \A p \in Procs : call[p] # <<>> ~> call[p] = <<>>
    /\ \A s \in Sessions : phase[s] = "fn" ~> phase[s] = "returned"

\* Every connection a transaction takes goes back to the pool.
ConnectionsReturn == \A s \in Sessions : s \in inUse ~> s \notin inUse

-----------------------------------------------------------------------------
(* The inductive invariant behind these properties *)

\* The contexts of open calls: derivation is a partial order, and what a
\* context carries for an engine is the innermost session it derives from.
ContextInv == \A s \in Sessions :
    /\ phase[s] = "unused" => anc[s] = {}
    /\ phase[s] # "unused" => s \in anc[s]
    /\ \A t \in anc[s] : /\ phase[t] # "unused"
                         /\ anc[t] \subseteq anc[s]
                         /\ s \in anc[t] => s = t
    /\ \A e \in Engines :
        /\ env[s][e] = NoSession => Around(s, e) = {}
        /\ env[s][e] # NoSession => /\ env[s][e] \in Around(s, e)
                                    /\ Around(s, e) \subseteq anc[env[s][e]]

\* Cancellation reaches every context derived from the one cancelled.
CancelInv == \A s \in Sessions : \A t \in anc[s] : t \in cancelled => s \in cancelled

\* How far the call and its transaction are.
PhaseInv == \A s \in Sessions :
    /\ phase[s] = "unused" <=> tx[s] = "none"
    /\ phase[s] = "committing" <=> tx[s] = "committing"
    /\ phase[s] \in {"unused", "fn", "commit"} => ~isClosed[s]
    /\ phase[s] \in {"committing", "rollback", "returned"} => isClosed[s] \/ tx[s] = "none"
    /\ tx[s] = "committed" => ret[s] \in {"nil", "commitErr"}
    /\ phase[s] = "rollback" => ret[s] \in {"fnErr", "panic"}
    /\ tx[s] = "rollingback" => phase[s] = "rollback" \/ s \in cancelled
    /\ ret[s] = "nil" => tx[s] = "committed"
    /\ ret[s] = "commitErr" => isClosed[s] /\ (tx[s] = "active" => s \in cancelled)
    /\ ret[s] \in {"fnErr", "panic"} /\ phase[s] # "close" => tx[s] # "active"
    /\ ret[s] \in {"fnErr", "panic"} /\ phase[s] = "close" => ~isClosed[s]

\* A transaction holds its callback's writes and no others, and they are
\* durable once it is committed.
WriteInv == \A s \in Sessions :
    /\ phase[s] = "unused" => issued[s] = {}
    /\ pend[s] = {s} \X issued[s]
    /\ \A k \in Keys : <<s, k>> \in durable <=> tx[s] = "committed" /\ k \in issued[s]

\* A transaction holds its connection from BeginTx to the end of COMMIT or
\* ROLLBACK.
PoolInv == \A s \in Sessions :
    s \in inUse <=> tx[s] \in {"active", "committing", "rollingback"}

IInv == TypeInv /\ ContextInv /\ CancelInv /\ PhaseInv /\ WriteInv /\ PoolInv

\* Engine.TX implements what it promises.
Verdict(s) ==
    IF tx[s] = "none" THEN "none"
    ELSE IF tx[s] = "committed" THEN "applied"
    ELSE IF tx[s] \in {"active", "committing"} THEN "running" ELSE "discarded"

Promise == INSTANCE AtomicTx WITH
    verdict <- [s \in Sessions |-> Verdict(s)],
    answer  <- [s \in Sessions |-> IF phase[s] = "returned" THEN ret[s] ELSE "none"]

ImplementsAtomicTx == Promise!Spec
=============================================================================
