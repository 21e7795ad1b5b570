--------------------------- MODULE TxSessionProof ---------------------------
(***************************************************************************)
(* Theorems about TxSession, for any number of goroutines, engines, calls  *)
(* and keys, any limit of the pool, and callers that use contexts as they  *)
(* like.                                                                   *)
(***************************************************************************)
EXTENDS TxSession, TLAPS

USE SessionAssumption DEF Contexts, Owners, Phases, Results, TxStates, goVars, dbVars, vars

-----------------------------------------------------------------------------
(* Contexts *)

\* The session a statement runs in is the closest enclosing call of TX on its
\* engine: what contexts carry agrees with how the calls are nested.
LEMMA ProxyIsOwner ==
    ASSUME TypeOK, ContextInv, NEW c \in Contexts, NEW e \in Engines
    PROVE  /\ Proxy(c, e) = Owner(c, e)
           /\ Owner(c, e) \in Owners
           /\ Owner(c, e) # NoSession => /\ c \in Sessions
                                         /\ Owner(c, e) \in anc[c]
                                         /\ phase[Owner(c, e)] # "unused"
<1>1. CASE c \notin Sessions
  BY <1>1 DEF Proxy, CtxKind, Env, Owner, Around, Anc
<1>2. CASE c \in Sessions
  <2> DEFINE o == env[c][e]
  <2>1. Proxy(c, e) = o /\ Env(c)[e] = o /\ Anc(c) = anc[c] /\ o \in Owners
    BY <1>2 DEF Proxy, CtxKind, Env, Anc, TypeOK
  <2>2. CASE o = NoSession
    <3>1. Around(c, e) = {}
      <4>1. Around(c, e) \subseteq anc[c]
        BY <2>1 DEF Around
      <4>2. QED
        BY <1>2, <2>2 DEF ContextInv
    <3>2. QED
      BY <2>1, <2>2, <3>1 DEF Owner
  <2>3. CASE o # NoSession
    <3>1. o \in Around(c, e) /\ Around(c, e) \subseteq anc[o] /\ o \in Sessions
      BY <1>2, <2>1, <2>3 DEF ContextInv
    <3>2. \A s \in Around(c, e) : (\A t \in Around(c, e) : t \in anc[s]) => s = o
      <4> SUFFICES ASSUME NEW s \in Around(c, e), \A t \in Around(c, e) : t \in anc[s]
                   PROVE  s = o
        OBVIOUS
      <4>1. o \in anc[s] /\ s \in anc[o] /\ s \in Sessions
        BY <3>1, <1>2 DEF Around, TypeOK, Anc
      <4>2. QED
        BY <4>1, <3>1 DEF ContextInv
    <3>3. Owner(c, e) = o
      BY <3>1, <3>2, <2>3 DEF Owner
    <3>4. o \in anc[c] /\ phase[o] # "unused"
      BY <3>1, <2>1, <1>2 DEF Around, ContextInv
    <3>5. QED
      BY <3>3, <3>4, <2>1, <1>2
  <2>4. QED
    BY <2>2, <2>3
<1>3. QED
  BY <1>1, <1>2

-----------------------------------------------------------------------------
(* Type correctness *)

\* Variables keep their types, and the result of TX is known exactly from the
\* moment its deferred close is due.
LEMMA InitType == Init => TypeInv
BY DEF Init, TypeInv, TypeOK, ResultKnown

LEMMA NextType ==
    ASSUME TypeInv, ContextInv, [Next]_vars
    PROVE  TypeInv'
<1> USE DEF TypeInv, TypeOK, ResultKnown
<1>1. CASE UNCHANGED vars
  BY <1>1
<1>2. ASSUME NEW p \in Procs, NEW c \in Contexts, NEW e \in Engines,
             CallTX(p, c, e) \/ JoinTX(p, c, e)
      PROVE  TypeInv'
  <2>1. CASE CallTX(p, c, e)
    <3>1. <<c, e>> \in Contexts \X Engines
      OBVIOUS
    <3>2. call' \in [Procs -> {<<>>} \cup (Contexts \X Engines)]
      BY <2>1, <3>1 DEF CallTX
    <3>3. QED
      BY <2>1, <3>2 DEF CallTX
  <2>2. CASE JoinTX(p, c, e)
    BY <2>2 DEF JoinTX
  <2>3. QED
    BY <1>2, <2>1, <2>2
<1>3. ASSUME NEW p \in Procs, NEW c \in Contexts, NEW e \in Engines, NEW k \in Keys,
             StatementOnPool(p, c, e, k) \/ StatementInTx(p, c, e, k)
      PROVE  TypeInv'
  <2>1. Owner(c, e) \in Owners /\ Proxy(c, e) = Owner(c, e)
    BY ProxyIsOwner
  <2>2. issued' \in [Sessions -> SUBSET Keys]
    BY <1>3, <2>1 DEF StatementOnPool, StatementInTx, Acknowledge
  <2>3. CASE StatementOnPool(p, c, e, k)
    <3>1. durable' \subseteq Owners \X Keys
      <4>1. <<Owner(c, e), k>> \in Owners \X Keys
        BY <2>1
      <4>2. durable' = durable \cup {<<Owner(c, e), k>>}
        BY <2>3 DEF StatementOnPool
      <4>3. QED
        BY <4>1, <4>2
    <3>2. QED
      BY <2>2, <2>3, <3>1 DEF StatementOnPool
  <2>4. CASE StatementInTx(p, c, e, k)
    <3>1. pend' \in [Sessions -> SUBSET (Owners \X Keys)]
      BY <2>1, <2>4 DEF StatementInTx
    <3>2. QED
      BY <2>2, <2>4, <3>1 DEF StatementInTx
  <2>5. QED
    BY <1>3, <2>3, <2>4
<1>4. ASSUME NEW p \in Procs, NEW s \in Sessions, Begin(p, s)
      PROVE  TypeInv'
  <2> DEFINE c == call[p][1]
             e == call[p][2]
  <2>1. c \in Contexts /\ e \in Engines
    BY <1>4 DEF Begin
  <2>2. Env(c) \in [Engines -> Owners] /\ Anc(c) \subseteq Sessions
    BY <2>1 DEF Env, Anc
  <2>3. env' \in [Sessions -> [Engines -> Owners]] /\ anc' \in [Sessions -> SUBSET Sessions]
    BY <1>4, <2>1, <2>2 DEF Begin
  <2>4. QED
    BY <1>4, <2>3 DEF Begin
<1>5. ASSUME NEW p \in Procs, BeginRefused(p) \/ BeginFails(p) \/ FnReturnsNil(p)
      PROVE  TypeInv'
  BY <1>5, ZenonT(40) DEF BeginRefused, BeginFails, FnReturnsNil, Running
<1>6. ASSUME NEW p \in Procs, NEW r \in {"fnErr", "panic"}, FnFails(p, r)
      PROVE  TypeInv'
  BY <1>6 DEF FnFails, Running
<1>7. ASSUME NEW p \in Procs, Commit(p)
      PROVE  TypeInv'
  <2>1. top[p] \in Sessions /\ phase[top[p]] = "commit"
    BY <1>7 DEF Commit
  <2>2. isClosed' = [isClosed EXCEPT ![top[p]] = TRUE]
    BY <1>7 DEF Commit
  <2>3. isClosed' \in [Sessions -> BOOLEAN]
    BY <2>2
  <2>4. CASE tx[top[p]] = "active" /\ ~Done(top[p])
    BY <1>7, <2>1, <2>3, <2>4 DEF Commit
  <2>5. CASE ~(tx[top[p]] = "active" /\ ~Done(top[p]))
    BY <1>7, <2>1, <2>3, <2>5, ZenonT(40) DEF Commit, Done
  <2>6. QED
    BY <2>4, <2>5
<1>8. ASSUME NEW p \in Procs, NEW applied \in BOOLEAN, NEW r \in {"nil", "commitErr"},
             CommitEnds(p, applied, r)
      PROVE  TypeInv'
  <2>1. top[p] \in Sessions
    BY <1>8 DEF CommitEnds
  <2>2. durable' \subseteq Owners \X Keys
    BY <1>8, <2>1 DEF CommitEnds
  <2>3. QED
    BY <1>8, <2>1, <2>2 DEF CommitEnds
<1>9. ASSUME NEW p \in Procs, Close(p) \/ CloseEnds(p)
      PROVE  TypeInv'
  <2>1. top[p] \in Sessions
    BY <1>9 DEF Close, CloseEnds
  <2>2. CASE Close(p)
    <3>1. isClosed' = [isClosed EXCEPT ![top[p]] = TRUE]
      BY <2>2 DEF Close
    <3>2. isClosed' \in [Sessions -> BOOLEAN]
      BY <3>1
    <3>3. CASE ~isClosed[top[p]] /\ tx[top[p]] = "active"
      <4>1. /\ phase' = [phase EXCEPT ![top[p]] = "rollback"]
            /\ tx' = [tx EXCEPT ![top[p]] = "rollingback"]
            /\ UNCHANGED <<call, top, up, ret, env, anc, pend, inUse, cancelled, shut, durable, issued>>
        BY <2>2, <3>3 DEF Close
      <4>2. phase[top[p]] = "close"
        BY <2>2 DEF Close
      <4>3. QED
        BY <2>1, <3>2, <4>1, <4>2
    <3>4. CASE ~(~isClosed[top[p]] /\ tx[top[p]] = "active")
      <4>1. /\ phase' = [phase EXCEPT ![top[p]] = "returned"]
            /\ top' = [top EXCEPT ![p] = up[top[p]]]
            /\ UNCHANGED <<tx, call, up, ret, env, anc, pend, inUse, cancelled, shut, durable, issued>>
        BY <2>2, <3>4 DEF Close, Return
      <4>2. phase[top[p]] = "close"
        BY <2>2 DEF Close
      <4>3. QED
        BY <2>1, <3>2, <4>1, <4>2
    <3>5. QED
      BY <3>3, <3>4
  <2>3. CASE CloseEnds(p)
    BY <2>1, <2>3 DEF CloseEnds, Return
  <2>4. QED
    BY <1>9, <2>2, <2>3
<1>10. ASSUME NEW s \in Sessions, Cancel(s) \/ AwaitDone(s) \/ RollbackEnds(s)
       PROVE  TypeInv'
  <2>1. CASE Cancel(s)
    BY <2>1 DEF Cancel
  <2>2. CASE AwaitDone(s)
    BY <2>2 DEF AwaitDone
  <2>3. CASE RollbackEnds(s)
    BY <2>3 DEF RollbackEnds
  <2>4. QED
    BY <1>10, <2>1, <2>2, <2>3
<1>11. ASSUME NEW e \in Engines, EngineClose(e)
       PROVE  TypeInv'
  BY <1>11 DEF EngineClose
<1>12. QED
  BY <1>1, <1>2, <1>3, <1>4, <1>5, <1>6, <1>7, <1>8, <1>9, <1>10, <1>11 DEF Next, Caller, Transact, Environment

-----------------------------------------------------------------------------
(* The context invariant *)

\* Only a successful BeginTx makes a context.
LEMMA ContextFrame ==
    ASSUME TypeInv, [Next]_vars, ~(\E p \in Procs, s \in Sessions : Begin(p, s))
    PROVE  /\ UNCHANGED <<anc, env>>
           /\ \A s \in Sessions : phase'[s] = "unused" <=> phase[s] = "unused"
<1> USE DEF TypeInv, TypeOK
<1>1. CASE UNCHANGED vars
  BY <1>1
<1>2. ASSUME NEW p \in Procs, NEW c \in Contexts, NEW e \in Engines, NEW k \in Keys,
             StatementOnPool(p, c, e, k) \/ StatementInTx(p, c, e, k)
      PROVE  UNCHANGED <<anc, env, phase>>
  BY <1>2 DEF StatementOnPool, StatementInTx
<1>3. ASSUME NEW p \in Procs, NEW c \in Contexts, NEW e \in Engines,
             CallTX(p, c, e) \/ JoinTX(p, c, e)
      PROVE  UNCHANGED <<anc, env, phase>>
  BY <1>3 DEF CallTX, JoinTX
<1>4. ASSUME NEW s \in Sessions, Cancel(s) \/ AwaitDone(s) \/ RollbackEnds(s)
      PROVE  UNCHANGED <<anc, env, phase>>
  BY <1>4 DEF Cancel, AwaitDone, RollbackEnds
<1>5. ASSUME NEW e \in Engines, EngineClose(e)
      PROVE  UNCHANGED <<anc, env, phase>>
  BY <1>5 DEF EngineClose
<1>6. ASSUME NEW p \in Procs, BeginRefused(p) \/ BeginFails(p)
      PROVE  UNCHANGED <<anc, env, phase>>
  BY <1>6 DEF BeginRefused, BeginFails
<1>7. ASSUME NEW p \in Procs,
             \/ FnReturnsNil(p) \/ Commit(p) \/ Close(p) \/ CloseEnds(p)
             \/ \E r \in {"fnErr", "panic"} : FnFails(p, r)
             \/ \E applied \in BOOLEAN, r \in {"nil", "commitErr"} : CommitEnds(p, applied, r)
      PROVE  /\ UNCHANGED <<anc, env>>
             /\ phase[top[p]] # "unused" /\ top[p] \in Sessions
             /\ \E q \in Phases \ {"unused"} : phase' = [phase EXCEPT ![top[p]] = q]
  BY <1>7 DEF FnReturnsNil, Commit, Close, CloseEnds, FnFails, CommitEnds, Running, Return
<1>8. QED
  BY <1>1, <1>2, <1>3, <1>4, <1>5, <1>6, <1>7 DEF Next, Caller, Transact, Environment

\* Contexts stay a partial order in which a lookup finds the innermost session.
LEMMA NextContext ==
    ASSUME TypeInv, ContextInv, [Next]_vars
    PROVE  ContextInv'
<1> USE DEF TypeInv, TypeOK
<1>1. CASE ~(\E p \in Procs, s \in Sessions : Begin(p, s))
  <2>1. /\ UNCHANGED <<anc, env>>
        /\ \A s \in Sessions : phase'[s] = "unused" <=> phase[s] = "unused"
    BY <1>1, ContextFrame
  <2>2. \A s \in Sessions, e \in Engines : Around(s, e)' = Around(s, e)
    BY <2>1 DEF Around, Anc
  <2>3. QED
    BY <2>1, <2>2 DEF ContextInv
<1>2. ASSUME NEW p \in Procs, NEW n \in Sessions, Begin(p, n)
      PROVE  ContextInv'
  <2> DEFINE c == call[p][1]
             g == call[p][2]
  <2>1. /\ c \in Contexts /\ g \in Engines
        /\ EngineOf[n] = g /\ phase[n] = "unused"
        /\ anc' = [anc EXCEPT ![n] = Anc(c) \cup {n}]
        /\ env' = [env EXCEPT ![n] = [Env(c) EXCEPT ![g] = n]]
        /\ phase' = [phase EXCEPT ![n] = "fn"]
    BY <1>2 DEF Begin
  <2>2. Anc(c) \subseteq Sessions /\ Env(c) \in [Engines -> Owners]
    BY <2>1 DEF Anc, Env
  <2>3. \A t \in Sessions : n \notin anc[t]
    BY <2>1 DEF ContextInv
  <2>4. n \notin Anc(c) /\ \A t \in Anc(c) : phase[t] # "unused" /\ anc[t] \subseteq Anc(c)
    BY <2>1, <2>3 DEF Anc, ContextInv
  <2>5. anc'[n] = Anc(c) \cup {n} /\ \A s \in Sessions \ {n} : anc'[s] = anc[s]
    BY <2>1, <2>2
  <2>6. \A e \in Engines, s \in Sessions \ {n} :
           env'[s][e] = env[s][e] /\ Around(s, e)' = Around(s, e)
    BY <2>1, <2>5 DEF Around, Anc
  <2>7. \A e \in Engines : Around(n, e)' = Around(c, e) \cup (IF e = g THEN {n} ELSE {})
    BY <2>1, <2>5 DEF Around, Anc
  <2>8. \A e \in Engines : env'[n][e] = IF e = g THEN n ELSE Env(c)[e]
    BY <2>1, <2>2
  <2>9. ASSUME NEW s \in Sessions \ {n}
        PROVE  /\ phase'[s] = "unused" => anc'[s] = {}
               /\ phase'[s] # "unused" => s \in anc'[s]
               /\ \A t \in anc'[s] : /\ phase'[t] # "unused"
                                     /\ anc'[t] \subseteq anc'[s]
                                     /\ s \in anc'[t] => s = t
    BY <2>1, <2>3, <2>5 DEF ContextInv
  <2>10. /\ phase'[n] # "unused" /\ n \in anc'[n]
         /\ \A t \in anc'[n] : /\ phase'[t] # "unused"
                               /\ anc'[t] \subseteq anc'[n]
                               /\ n \in anc'[t] => n = t
    BY <2>1, <2>2, <2>3, <2>4, <2>5
  <2>11. ASSUME NEW s \in Sessions \ {n}, NEW e \in Engines
         PROVE  /\ env'[s][e] = NoSession => Around(s, e)' = {}
                /\ env'[s][e] # NoSession => /\ env'[s][e] \in Around(s, e)'
                                             /\ Around(s, e)' \subseteq anc'[env'[s][e]]
    <3>1. Around(s, e) \subseteq anc[s] /\ anc[s] \subseteq Sessions
      BY DEF Around, Anc
    <3>2. env[s][e] # NoSession => env[s][e] \in Sessions /\ env[s][e] # n
      BY <3>1, <2>3 DEF ContextInv
    <3>3. QED
      BY <2>5, <2>6, <3>2 DEF ContextInv
  <2>12. ASSUME NEW e \in Engines
         PROVE  /\ env'[n][e] = NoSession => Around(n, e)' = {}
                /\ env'[n][e] # NoSession => /\ env'[n][e] \in Around(n, e)'
                                             /\ Around(n, e)' \subseteq anc'[env'[n][e]]
    <3>1. CASE e = g
      <4>1. Around(n, e)' \subseteq anc'[n]
        BY <2>7, <2>5, <2>1 DEF Around
      <4>2. QED
        BY <3>1, <4>1, <2>7, <2>8
    <3>2. CASE e # g /\ c \notin Sessions
      <4>1. env'[n][e] = NoSession /\ Around(c, e) = {}
        BY <3>2, <2>8 DEF Env, Around, Anc
      <4>2. QED
        BY <4>1, <3>2, <2>7
    <3>3. CASE e # g /\ c \in Sessions
      <4>1. env'[n][e] = env[c][e] /\ Around(n, e)' = Around(c, e)
        BY <3>3, <2>7, <2>8, ZenonT(40) DEF Env
      <4>2. Around(c, e) \subseteq anc[c] /\ anc[c] \subseteq Sessions
        BY <3>3 DEF Around, Anc
      <4>3. env[c][e] # NoSession => env[c][e] \in Sessions /\ env[c][e] # n
        BY <4>2, <2>3, <3>3 DEF ContextInv
      <4>4. QED
        BY <4>1, <4>3, <3>3, <2>5 DEF ContextInv
    <3>4. QED
      BY <3>1, <3>2, <3>3
  <2>13. QED
    BY <2>9, <2>10, <2>11, <2>12 DEF ContextInv
<1>3. QED
  BY <1>1, <1>2

\* A context derived from one that is done is done.
LEMMA NextCancel ==
    ASSUME TypeInv, ContextInv, CancelInv, [Next]_vars
    PROVE  CancelInv'
<1> USE DEF TypeInv, TypeOK, CancelInv
<1>1. CASE UNCHANGED <<anc, cancelled>>
  BY <1>1
<1>2. ASSUME NEW p \in Procs, NEW n \in Sessions, Begin(p, n)
      PROVE  CancelInv'
  <2> DEFINE c == call[p][1]
  <2>1. /\ c \notin cancelled
        /\ anc' = [anc EXCEPT ![n] = Anc(c) \cup {n}]
        /\ phase[n] = "unused"
        /\ UNCHANGED cancelled
    BY <1>2 DEF Begin, Done
  <2>2. \A t \in Anc(c) : t \notin cancelled
    BY <2>1 DEF Anc
  <2>3. anc'[n] = Anc(c) \cup {n} /\ \A s \in Sessions \ {n} : anc'[s] = anc[s]
    BY <2>1
  <2>4. QED
    BY <2>1, <2>2, <2>3
<1>3. ASSUME NEW s \in Sessions, Cancel(s)
      PROVE  CancelInv'
  BY <1>3 DEF Cancel, ContextInv
<1>4. CASE ~(\E p \in Procs, s \in Sessions : Begin(p, s)) /\ ~(\E s \in Sessions : Cancel(s))
  <2>1. UNCHANGED anc
    BY <1>4, ContextFrame
  <2>2. UNCHANGED cancelled
    BY <1>4 DEF Next, Caller, Transact, Environment, CallTX, JoinTX, StatementOnPool, StatementInTx, BeginRefused, BeginFails,
                FnReturnsNil, FnFails, Commit, CommitEnds, Close, CloseEnds, AwaitDone,
                RollbackEnds, EngineClose
  <2>3. QED
    BY <1>1, <2>1, <2>2
<1>5. QED
  BY <1>2, <1>3, <1>4

-----------------------------------------------------------------------------
(* The phases of a call and the state of its transaction *)

LEMMA NextPhase ==
    ASSUME TypeInv, ContextInv, PhaseInv, [Next]_vars
    PROVE  PhaseInv'
<1> USE DEF TypeInv, TypeOK, ResultKnown, PhaseInv
<1>1. CASE UNCHANGED <<phase, tx, isClosed, ret, cancelled>>
  BY <1>1
<1>2. ASSUME NEW p \in Procs, NEW s \in Sessions, Begin(p, s)
      PROVE  PhaseInv'
  BY <1>2 DEF Begin
<1>3. ASSUME NEW p \in Procs, FnReturnsNil(p)
      PROVE  PhaseInv'
  BY <1>3 DEF FnReturnsNil, Running
<1>4. ASSUME NEW p \in Procs, NEW r \in {"fnErr", "panic"}, FnFails(p, r)
      PROVE  PhaseInv'
  BY <1>4 DEF FnFails, Running
<1>5. ASSUME NEW p \in Procs, Commit(p)
      PROVE  PhaseInv'
  <2> DEFINE s == top[p]
  <2>1. /\ s \in Sessions /\ phase[s] = "commit"
        /\ isClosed' = [isClosed EXCEPT ![s] = TRUE]
        /\ UNCHANGED cancelled
    BY <1>5 DEF Commit
  <2>2. isClosed'[s] /\ \A t \in Sessions \ {s} : isClosed'[t] = isClosed[t]
    BY <2>1
  <2>3. CASE tx[s] = "active" /\ ~Done(s)
    <3>1. /\ phase' = [phase EXCEPT ![s] = "committing"]
          /\ tx' = [tx EXCEPT ![s] = "committing"]
          /\ UNCHANGED ret
      BY <1>5, <2>3 DEF Commit
    <3>2. QED
      BY <2>1, <2>2, <2>3, <3>1
  <2>4. CASE ~(tx[s] = "active" /\ ~Done(s))
    <3>1. /\ phase' = [phase EXCEPT ![s] = "close"]
          /\ ret' = [ret EXCEPT ![s] = "commitErr"]
          /\ UNCHANGED tx
      BY <1>5, <2>4 DEF Commit
    <3>2. tx[s] = "active" => s \in cancelled
      BY <2>4 DEF Done
    <3>3. QED
      BY <2>1, <2>2, <3>1, <3>2
  <2>5. QED
    BY <2>3, <2>4
<1>6. ASSUME NEW p \in Procs, NEW applied \in BOOLEAN, NEW r \in {"nil", "commitErr"},
             CommitEnds(p, applied, r)
      PROVE  PhaseInv'
  BY <1>6 DEF CommitEnds
<1>7. ASSUME NEW p \in Procs, Close(p)
      PROVE  PhaseInv'
  <2> DEFINE s == top[p]
  <2>1. /\ s \in Sessions /\ phase[s] = "close"
        /\ isClosed' = [isClosed EXCEPT ![s] = TRUE]
        /\ UNCHANGED <<ret, cancelled>>
    BY <1>7 DEF Close
  <2>2. isClosed'[s] /\ \A t \in Sessions \ {s} : isClosed'[t] = isClosed[t]
    BY <2>1
  <2>3. CASE ~isClosed[s] /\ tx[s] = "active"
    <3>1. /\ phase' = [phase EXCEPT ![s] = "rollback"]
          /\ tx' = [tx EXCEPT ![s] = "rollingback"]
      BY <1>7, <2>3 DEF Close
    <3>2. QED
      BY <2>1, <2>2, <2>3, <3>1
  <2>4. CASE ~(~isClosed[s] /\ tx[s] = "active")
    <3>1. /\ phase' = [phase EXCEPT ![s] = "returned"]
          /\ UNCHANGED tx
      BY <1>7, <2>4 DEF Close, Return
    <3>2. QED
      BY <2>1, <2>2, <2>4, <3>1
  <2>5. QED
    BY <2>3, <2>4
<1>8. ASSUME NEW p \in Procs, CloseEnds(p)
      PROVE  PhaseInv'
  BY <1>8 DEF CloseEnds, Return
<1>9. ASSUME NEW s \in Sessions, Cancel(s)
      PROVE  PhaseInv'
  BY <1>9 DEF Cancel
<1>10. ASSUME NEW s \in Sessions, AwaitDone(s) \/ RollbackEnds(s)
       PROVE  PhaseInv'
  BY <1>10 DEF AwaitDone, RollbackEnds
<1>11. ASSUME NEW p \in Procs, BeginRefused(p) \/ BeginFails(p)
       PROVE  UNCHANGED <<phase, tx, isClosed, ret, cancelled>>
  BY <1>11 DEF BeginRefused, BeginFails
<1>12. ASSUME NEW p \in Procs, NEW c \in Contexts, NEW e \in Engines,
              \/ CallTX(p, c, e) \/ JoinTX(p, c, e)
              \/ \E k \in Keys : StatementOnPool(p, c, e, k) \/ StatementInTx(p, c, e, k)
       PROVE  UNCHANGED <<phase, tx, isClosed, ret, cancelled>>
  BY <1>12 DEF CallTX, JoinTX, StatementOnPool, StatementInTx
<1>13. QED
  BY <1>1, <1>2, <1>3, <1>4, <1>5, <1>6, <1>7, <1>8, <1>9, <1>10, <1>11, <1>12
  DEF Next, Caller, Transact, Environment, EngineClose

-----------------------------------------------------------------------------
(* Writes and connections *)

\* Which steps touch what a transaction has written.
LEMMA NextPool ==
    ASSUME TypeInv, PhaseInv, PoolInv, [Next]_vars
    PROVE  PoolInv'
<1> USE DEF TypeInv, TypeOK, PoolInv
<1>1. CASE UNCHANGED <<tx, inUse>>
  BY <1>1
<1>2. ASSUME NEW p \in Procs, NEW s \in Sessions, Begin(p, s)
      PROVE  PoolInv'
  BY <1>2 DEF Begin
<1>3. ASSUME NEW p \in Procs, Commit(p) \/ Close(p)
      PROVE  PoolInv'
  BY <1>3 DEF Commit, Close
<1>4. ASSUME NEW p \in Procs, NEW applied \in BOOLEAN, NEW r \in {"nil", "commitErr"},
             CommitEnds(p, applied, r)
      PROVE  PoolInv'
  BY <1>4 DEF CommitEnds
<1>5. ASSUME NEW s \in Sessions, AwaitDone(s) \/ RollbackEnds(s)
      PROVE  PoolInv'
  <2>1. CASE AwaitDone(s)
    BY <2>1 DEF AwaitDone
  <2>2. CASE RollbackEnds(s)
    BY <2>2 DEF RollbackEnds
  <2>3. QED
    BY <1>5, <2>1, <2>2
<1>6. ASSUME NEW p \in Procs,
             \/ BeginRefused(p) \/ BeginFails(p) \/ FnReturnsNil(p) \/ CloseEnds(p)
             \/ \E r \in {"fnErr", "panic"} : FnFails(p, r)
      PROVE  UNCHANGED <<tx, inUse>>
  BY <1>6 DEF BeginRefused, BeginFails, FnReturnsNil, FnFails, CloseEnds
<1>7. ASSUME NEW p \in Procs, NEW c \in Contexts, NEW e \in Engines,
             \/ CallTX(p, c, e) \/ JoinTX(p, c, e)
             \/ \E k \in Keys : StatementOnPool(p, c, e, k) \/ StatementInTx(p, c, e, k)
      PROVE  UNCHANGED <<tx, inUse>>
  BY <1>7 DEF CallTX, JoinTX, StatementOnPool, StatementInTx
<1>8. QED
  BY <1>1, <1>2, <1>3, <1>4, <1>5, <1>6, <1>7 DEF Next, Caller, Transact, Environment, EngineClose, Cancel

LEMMA NextWrite ==
    ASSUME TypeInv, ContextInv, PhaseInv, WriteInv, [Next]_vars
    PROVE  WriteInv'
<1> USE DEF TypeInv, TypeOK, WriteInv
<1>1. CASE UNCHANGED <<phase, tx, pend, durable, issued>>
  BY <1>1
<1>2. ASSUME NEW p \in Procs, NEW s \in Sessions, Begin(p, s)
      PROVE  WriteInv'
  BY <1>2 DEF Begin, PhaseInv
<1>3. ASSUME NEW p \in Procs,
             \/ Commit(p) \/ Close(p) \/ CloseEnds(p) \/ FnReturnsNil(p)
             \/ \E r \in {"fnErr", "panic"} : FnFails(p, r)
      PROVE  WriteInv'
  <2>1. /\ UNCHANGED <<pend, durable, issued>>
        /\ top[p] \in Sessions /\ phase[top[p]] # "unused" /\ tx[top[p]] # "none"
        /\ \E q \in Phases : phase' = [phase EXCEPT ![top[p]] = q]
    BY <1>3 DEF Commit, Close, CloseEnds, FnReturnsNil, FnFails, Running, Return, PhaseInv
  <2>2. \A s \in Sessions : tx'[s] = "committed" <=> tx[s] = "committed"
    BY <1>3, <2>1 DEF Commit, Close, CloseEnds, FnReturnsNil, FnFails
  <2>3. \A s \in Sessions : phase'[s] = "unused" => issued[s] = {}
    BY <1>3 DEF Commit, Close, CloseEnds, FnReturnsNil, FnFails, Running, Return
  <2>4. QED
    BY <2>1, <2>2, <2>3
<1>4. ASSUME NEW p \in Procs, NEW applied \in BOOLEAN, NEW r \in {"nil", "commitErr"},
             CommitEnds(p, applied, r)
      PROVE  WriteInv'
  <2> DEFINE s == top[p]
  <2>1. /\ s \in Sessions /\ phase[s] = "committing" /\ tx[s] = "committing"
        /\ phase' = [phase EXCEPT ![s] = "close"]
        /\ tx' = [tx EXCEPT ![s] = IF applied THEN "committed" ELSE "rolledback"]
        /\ durable' = IF applied THEN durable \cup pend[s] ELSE durable
        /\ UNCHANGED <<pend, issued>>
    BY <1>4 DEF CommitEnds, PhaseInv
  <2>2. \A t \in Sessions, k \in Keys :
           <<t, k>> \in pend[s] <=> t = s /\ k \in issued[s]
    <3>1. pend[s] = {s} \X issued[s]
      BY <2>1
    <3>2. QED
      BY <3>1
  <2>3. \A t \in Sessions, k \in Keys :
           <<t, k>> \in durable' <=> tx'[t] = "committed" /\ k \in issued[t]
    <3>1. CASE applied
      <4>1. durable' = durable \cup pend[s] /\ tx' = [tx EXCEPT ![s] = "committed"]
        BY <2>1, <3>1
      <4>2. \A t \in Sessions, k \in Keys :
               <<t, k>> \in durable' <=> <<t, k>> \in durable \/ (t = s /\ k \in issued[s])
        BY <2>2, <4>1
      <4>3. \A t \in Sessions, k \in Keys :
               <<t, k>> \in durable <=> tx[t] = "committed" /\ k \in issued[t]
        OBVIOUS
      <4>4. \A t \in Sessions : tx'[t] = IF t = s THEN "committed" ELSE tx[t]
        BY <4>1
      <4>5. QED
        BY <2>1, <4>2, <4>3, <4>4, ZenonT(40)
    <3>2. CASE ~applied
      <4>1. durable' = durable /\ tx' = [tx EXCEPT ![s] = "rolledback"]
        BY <2>1, <3>2
      <4>2. QED
        BY <2>1, <4>1
    <3>3. QED
      BY <3>1, <3>2
  <2>4. QED
    BY <2>1, <2>3
<1>5. ASSUME NEW s \in Sessions, AwaitDone(s) \/ RollbackEnds(s)
      PROVE  WriteInv'
  <2>1. UNCHANGED <<phase, pend, durable, issued>>
    BY <1>5 DEF AwaitDone, RollbackEnds
  <2>2. \A t \in Sessions : tx'[t] = "committed" <=> tx[t] = "committed"
    BY <1>5 DEF AwaitDone, RollbackEnds
  <2>3. QED
    BY <2>1, <2>2
<1>6. ASSUME NEW p \in Procs, NEW c \in Contexts, NEW e \in Engines, NEW k \in Keys,
             StatementOnPool(p, c, e, k)
      PROVE  WriteInv'
  <2>1. Owner(c, e) = NoSession
    BY <1>6, ProxyIsOwner DEF StatementOnPool
  <2>2. /\ durable' = durable \cup {<<NoSession, k>>}
        /\ UNCHANGED <<phase, tx, pend, issued>>
    BY <1>6, <2>1 DEF StatementOnPool, Acknowledge
  <2>3. QED
    BY <2>2
<1>7. ASSUME NEW p \in Procs, NEW c \in Contexts, NEW e \in Engines, NEW k \in Keys,
             StatementInTx(p, c, e, k)
      PROVE  WriteInv'
  <2> DEFINE s == Owner(c, e)
  <2>1. s \in Sessions /\ Proxy(c, e) = s /\ tx[s] = "active" /\ phase[s] # "unused"
    BY <1>7, ProxyIsOwner DEF StatementInTx
  <2>2. /\ pend' = [pend EXCEPT ![s] = @ \cup {<<s, k>>}]
        /\ issued' = [issued EXCEPT ![s] = @ \cup {k}]
        /\ UNCHANGED <<phase, tx, durable>>
    BY <1>7, <2>1 DEF StatementInTx, Acknowledge
  <2>3. pend'[s] = pend[s] \cup {<<s, k>>} /\ issued'[s] = issued[s] \cup {k}
    BY <2>1, <2>2
  <2>4. pend'[s] = {s} \X issued'[s]
    BY <2>1, <2>3
  <2>5. \A t \in Sessions \ {s} : pend'[t] = pend[t] /\ issued'[t] = issued[t]
    BY <2>2
  <2>6. QED
    BY <2>1, <2>2, <2>3, <2>4, <2>5
<1>8. ASSUME NEW p \in Procs, BeginRefused(p) \/ BeginFails(p)
      PROVE  UNCHANGED <<phase, tx, pend, durable, issued>>
  BY <1>8 DEF BeginRefused, BeginFails
<1>9. ASSUME NEW p \in Procs, NEW c \in Contexts, NEW e \in Engines,
             CallTX(p, c, e) \/ JoinTX(p, c, e)
      PROVE  UNCHANGED <<phase, tx, pend, durable, issued>>
  BY <1>9 DEF CallTX, JoinTX
<1>10. QED
  BY <1>1, <1>2, <1>3, <1>4, <1>5, <1>6, <1>7, <1>8, <1>9 DEF Next, Caller, Transact, Environment, EngineClose, Cancel

-----------------------------------------------------------------------------
(* Theorems *)

\* TX keeps its types and its inductive invariant.
THEOREM Invariance == Spec => []IInv
<1>1. Init => IInv
  <2> SUFFICES ASSUME Init PROVE IInv
    OBVIOUS
  <2>1. TypeInv
    BY InitType
  <2>2. ContextInv /\ CancelInv
    BY DEF Init, ContextInv, CancelInv, Around, Anc
  <2>3. PhaseInv /\ PoolInv
    BY DEF Init, PhaseInv, PoolInv
  <2>4. WriteInv
    BY DEF Init, WriteInv
  <2>5. QED
    BY <2>1, <2>2, <2>3, <2>4 DEF IInv
<1>2. IInv /\ [Next]_vars => IInv'
  BY NextType, NextContext, NextCancel, NextPhase, NextWrite, NextPool DEF IInv
<1>3. QED
  BY <1>1, <1>2, PTL DEF Spec

\* Variables keep their types and the result of TX is known exactly when its
\* deferred close is due (lorm.go, TX).
THEOREM TypeCorrectness == Spec => []TypeInv
<1>1. IInv => TypeInv
  BY DEF IInv
<1>2. QED
  BY <1>1, Invariance, PTL

\* What a callback writes is durable exactly when its transaction committed,
\* all of it, whatever contexts are shared, nested, leaked or cancelled.
THEOREM TransactionsAreAtomic == Spec => []Atomicity
<1>1. IInv => Atomicity
  <2> SUFFICES ASSUME IInv, NEW s \in Sessions
               PROVE  Effects(s) = IF tx[s] = "committed" THEN issued[s] ELSE {}
    BY DEF Atomicity
  <2>1. issued[s] \subseteq Keys
    BY DEF IInv, TypeInv, TypeOK
  <2>2. \A k \in Keys : <<s, k>> \in durable <=> tx[s] = "committed" /\ k \in issued[s]
    BY DEF IInv, WriteInv
  <2>3. QED
    BY <2>1, <2>2 DEF Effects
<1>2. QED
  BY <1>1, Invariance, PTL

\* After nil the callback's writes are in the database, after its error or its
\* panic none is.
THEOREM VerdictsHold == Spec => []VerdictHolds
<1>1. IInv /\ Atomicity => VerdictHolds
  BY DEF IInv, TypeInv, TypeOK, PhaseInv, Atomicity, VerdictHolds
<1>2. QED
  BY <1>1, Invariance, TransactionsAreAtomic, PTL

\* Every path out of TX gives its connection back; only the rollback that
\* database/sql makes of a context that is done may come later.
THEOREM ConnectionsReleased == Spec => []Released
<1>1. IInv => Released
  BY DEF IInv, TypeInv, TypeOK, ResultKnown, PhaseInv, PoolInv, Released
<1>2. QED
  BY <1>1, Invariance, PTL

\* Nothing a call wrote changes once TX returned: a context that outlives its
\* TX cannot write, and what was committed stays.
THEOREM NoEffectAfterReturn == Spec => NoLateEffect
<1>1. ASSUME IInv, IInv', [Next]_vars, NEW s \in Sessions, phase[s] = "returned"
      PROVE  Effects(s)' = Effects(s) /\ issued'[s] = issued[s]
  <2> USE DEF IInv, TypeInv, TypeOK
  <2>1. tx[s] \in {"committed", "rolledback", "rollingback", "active"}
        /\ (tx[s] = "active" => s \in cancelled)
    <3>1. tx[s] \in TxStates /\ ret[s] \in Results
      BY <1>1 DEF ResultKnown
    <3>2. PhaseInv
      BY <1>1
    <3>3. QED
      BY <1>1, <3>1, <3>2 DEF PhaseInv
  <2>2. tx'[s] = "committed" <=> tx[s] = "committed"
    BY <1>1, <2>1 DEF Next, Caller, Transact, Environment, CallTX, JoinTX, StatementOnPool, StatementInTx, BeginRefused,
                BeginFails, Begin, FnReturnsNil, FnFails, Commit, CommitEnds, Close, CloseEnds,
                Cancel, AwaitDone, RollbackEnds, EngineClose
  <2>3. issued'[s] = issued[s]
    <3>1. ASSUME NEW p \in Procs, NEW c \in Contexts, NEW e \in Engines, NEW k \in Keys,
                 StatementInTx(p, c, e, k)
          PROVE  issued'[s] = issued[s]
      <4>1. /\ Owner(c, e) \in Sessions /\ c \in Sessions /\ Owner(c, e) \in anc[c]
            /\ Proxy(c, e) = Owner(c, e)
        BY <1>1, <3>1, ProxyIsOwner DEF StatementInTx
      <4>2. tx[Owner(c, e)] = "active" /\ c \notin cancelled
        BY <3>1, <4>1 DEF StatementInTx, Done
      <4>3. Owner(c, e) # s
        BY <1>1, <2>1, <4>1, <4>2 DEF CancelInv
      <4>4. QED
        BY <1>1, <3>1, <4>1, <4>3 DEF StatementInTx, Acknowledge
    <3>2. ASSUME NEW p \in Procs, NEW c \in Contexts, NEW e \in Engines, NEW k \in Keys,
                 StatementOnPool(p, c, e, k)
          PROVE  issued'[s] = issued[s]
      <4>1. Owner(c, e) = NoSession
        BY <1>1, <3>2, ProxyIsOwner DEF StatementOnPool
      <4>2. QED
        BY <3>2, <4>1 DEF StatementOnPool, Acknowledge
    <3>3. CASE ~(\E p \in Procs, c \in Contexts, e \in Engines, k \in Keys :
                    StatementOnPool(p, c, e, k) \/ StatementInTx(p, c, e, k))
      BY <1>1, <3>3 DEF Next, Caller, Transact, Environment, CallTX, JoinTX, BeginRefused, BeginFails, Begin, FnReturnsNil,
                FnFails, Commit, CommitEnds, Close, CloseEnds, Cancel, AwaitDone, RollbackEnds,
                EngineClose
    <3>4. QED
      BY <3>1, <3>2, <3>3
  <2>4. \A k \in Keys : <<s, k>> \in durable' <=> <<s, k>> \in durable
    BY <1>1, <2>2, <2>3 DEF WriteInv
  <2>5. QED
    BY <2>3, <2>4 DEF Effects
<1>2. IInv /\ IInv' /\ [Next]_vars =>
        [\A s \in Sessions : phase[s] = "returned" =>
            Effects(s)' = Effects(s) /\ issued'[s] = issued[s]]_vars
  BY <1>1
<1>3. QED
  BY <1>2, Invariance, PTL DEF Spec, NoLateEffect

-----------------------------------------------------------------------------
(* Refinement *)

\* The state of AtomicTx that a state of TxSession stands for.
Verdicts == [s \in Sessions |-> Verdict(s)]
Answers  == [s \in Sessions |-> IF phase[s] = "returned" THEN ret[s] ELSE "none"]

\* Every step of TX is a step of AtomicTx or leaves what it promises alone.
LEMMA StepRefines ==
    ASSUME IInv, IInv', [Next]_vars
    PROVE  [Promise!Next]_(Promise!vars)
<1> DEFINE Abs == <<Verdicts, issued, durable, Answers>>
<1> USE DEF IInv, TypeInv, TypeOK
<1>0. Promise!vars = Abs /\ Promise!vars' = Abs'
  BY DEF Promise!vars, Verdicts, Answers
<1>1. ASSUME UNCHANGED <<tx, issued, durable>>,
             \A s \in Sessions : (phase'[s] = "returned" <=> phase[s] = "returned")
                                 /\ (phase[s] = "returned" => ret'[s] = ret[s])
      PROVE  UNCHANGED Abs
  <2>1. UNCHANGED Verdicts
    BY <1>1 DEF Verdicts, Verdict
  <2>2. UNCHANGED Answers
    BY <1>1 DEF Answers
  <2>3. QED
    BY <1>1, <2>1, <2>2
<1>2. ASSUME UNCHANGED vars
      PROVE  UNCHANGED Abs
  BY <1>1, <1>2
<1>3. ASSUME NEW p \in Procs,
             \/ BeginRefused(p) \/ BeginFails(p) \/ FnReturnsNil(p)
             \/ \E r \in {"fnErr", "panic"} : FnFails(p, r)
      PROVE  UNCHANGED Abs
  BY <1>1, <1>3 DEF BeginRefused, BeginFails, FnReturnsNil, FnFails, Running
<1>4. ASSUME NEW p \in Procs, NEW c \in Contexts, NEW e \in Engines,
             CallTX(p, c, e) \/ JoinTX(p, c, e)
      PROVE  UNCHANGED Abs
  BY <1>1, <1>4 DEF CallTX, JoinTX
<1>5. ASSUME NEW s \in Sessions, Cancel(s)
      PROVE  UNCHANGED Abs
  BY <1>1, <1>5 DEF Cancel
<1>6. ASSUME NEW e \in Engines, EngineClose(e)
      PROVE  UNCHANGED Abs
  BY <1>1, <1>6 DEF EngineClose
<1>7. ASSUME NEW p \in Procs, NEW s \in Sessions, Begin(p, s)
      PROVE  Promise!Next
  <2>1. /\ tx[s] = "none" /\ tx' = [tx EXCEPT ![s] = "active"]
        /\ phase[s] = "unused" /\ phase' = [phase EXCEPT ![s] = "fn"]
        /\ UNCHANGED <<issued, durable, ret>>
    BY <1>7 DEF Begin, PhaseInv
  <2>2. Verdicts[s] = "none" /\ Verdicts' = [Verdicts EXCEPT ![s] = "running"]
    <3>1. tx'[s] = "active" /\ \A t \in Sessions \ {s} : tx'[t] = tx[t]
      BY <2>1
    <3>2. Verdicts'[s] = "running" /\ \A t \in Sessions \ {s} : Verdicts'[t] = Verdicts[t]
      BY <3>1 DEF Verdicts, Verdict
    <3>3. Verdicts[s] = "none"
      BY <2>1 DEF Verdicts, Verdict
    <3>4. /\ Verdicts \in [Sessions -> Promise!Verdicts]
          /\ Verdicts' \in [Sessions -> Promise!Verdicts]
      BY DEF Verdicts, Verdict, Promise!Verdicts
    <3>5. QED
      BY <3>2, <3>3, <3>4
  <2>3. Answers' = Answers
    BY <2>1 DEF Answers
  <2>4. QED
    BY <2>1, <2>2, <2>3 DEF Promise!Next, Promise!Start, Verdicts, Answers
<1>8. ASSUME NEW p \in Procs, Commit(p)
      PROVE  UNCHANGED Abs
  <2> DEFINE s == top[p]
  <2>1. /\ s \in Sessions /\ phase[s] = "commit" /\ UNCHANGED <<issued, durable>>
        /\ \E q \in {"committing", "close"} : phase' = [phase EXCEPT ![s] = q]
        /\ \A t \in Sessions \ {s} : ret'[t] = ret[t]
    BY <1>8 DEF Commit
  <2>2. tx' = tx \/ (tx[s] = "active" /\ tx' = [tx EXCEPT ![s] = "committing"])
    BY <1>8 DEF Commit
  <2>3. UNCHANGED Verdicts
    BY <2>1, <2>2 DEF Verdicts, Verdict
  <2>4. UNCHANGED Answers
    BY <2>1 DEF Answers
  <2>5. QED
    BY <2>1, <2>3, <2>4
<1>9. ASSUME NEW p \in Procs, NEW applied \in BOOLEAN, NEW r \in {"nil", "commitErr"},
             CommitEnds(p, applied, r)
      PROVE  Promise!Next
  <2> DEFINE s == top[p]
  <2>1. /\ s \in Sessions /\ phase[s] = "committing" /\ tx[s] = "committing"
        /\ phase' = [phase EXCEPT ![s] = "close"] /\ ret' = [ret EXCEPT ![s] = r]
        /\ tx' = [tx EXCEPT ![s] = IF applied THEN "committed" ELSE "rolledback"]
        /\ durable' = IF applied THEN durable \cup pend[s] ELSE durable
        /\ pend[s] = {s} \X issued[s]
        /\ UNCHANGED issued
    BY <1>9 DEF CommitEnds, PhaseInv, WriteInv
  <2>2. UNCHANGED Answers
    BY <2>1 DEF Answers
  <2>3. Verdicts[s] = "running"
    BY <2>1 DEF Verdicts, Verdict
  <2>4. CASE applied
    <3>1. Verdicts' = [Verdicts EXCEPT ![s] = "applied"]
      <4>1. tx'[s] = "committed" /\ \A t \in Sessions \ {s} : tx'[t] = tx[t]
        BY <2>1, <2>4
      <4>2. Verdicts'[s] = "applied" /\ \A t \in Sessions \ {s} : Verdicts'[t] = Verdicts[t]
        BY <2>1, <4>1 DEF Verdicts, Verdict
      <4>3. /\ Verdicts \in [Sessions -> Promise!Verdicts]
            /\ Verdicts' \in [Sessions -> Promise!Verdicts]
        BY DEF Verdicts, Verdict, Promise!Verdicts
      <4> QED
        BY <4>2, <4>3
    <3>2. QED
      BY <2>1, <2>2, <2>3, <2>4, <3>1 DEF Promise!Next, Promise!Apply, Verdicts, Answers
  <2>5. CASE ~applied
    <3>1. Verdicts' = [Verdicts EXCEPT ![s] = "discarded"]
      <4>1. tx'[s] = "rolledback" /\ \A t \in Sessions \ {s} : tx'[t] = tx[t]
        BY <2>1, <2>5
      <4>2. Verdicts'[s] = "discarded" /\ \A t \in Sessions \ {s} : Verdicts'[t] = Verdicts[t]
        BY <2>1, <4>1 DEF Verdicts, Verdict
      <4>3. /\ Verdicts \in [Sessions -> Promise!Verdicts]
            /\ Verdicts' \in [Sessions -> Promise!Verdicts]
        BY DEF Verdicts, Verdict, Promise!Verdicts
      <4> QED
        BY <4>2, <4>3
    <3>2. QED
      BY <2>1, <2>2, <2>3, <2>5, <3>1 DEF Promise!Next, Promise!Discard, Verdicts, Answers
  <2>6. QED
    BY <2>4, <2>5
<1>10. ASSUME NEW s \in Sessions, tx[s] = "active", tx' = [tx EXCEPT ![s] = "rollingback"],
              UNCHANGED <<issued, durable, ret>>,
              \A t \in Sessions : phase'[t] = "returned" <=> phase[t] = "returned"
       PROVE  Promise!Discard(s)
  <2>1. UNCHANGED Answers
    BY <1>10 DEF Answers
  <2>2. Verdicts[s] = "running" /\ Verdicts' = [Verdicts EXCEPT ![s] = "discarded"]
    <3>1. tx'[s] = "rollingback" /\ \A t \in Sessions \ {s} : tx'[t] = tx[t]
      BY <1>10
    <3>2. Verdicts'[s] = "discarded" /\ \A t \in Sessions \ {s} : Verdicts'[t] = Verdicts[t]
      BY <3>1 DEF Verdicts, Verdict
    <3>3. Verdicts[s] = "running"
      BY <1>10 DEF Verdicts, Verdict
    <3>4. /\ Verdicts \in [Sessions -> Promise!Verdicts]
          /\ Verdicts' \in [Sessions -> Promise!Verdicts]
      BY DEF Verdicts, Verdict, Promise!Verdicts
    <3>5. QED
      BY <3>2, <3>3, <3>4
  <2>3. QED
    BY <1>10, <2>1, <2>2 DEF Promise!Discard, Verdicts, Answers
<1>11. ASSUME NEW s \in Sessions, phase[s] \in {"close", "rollback"},
              phase' = [phase EXCEPT ![s] = "returned"],
              UNCHANGED <<tx, issued, durable, ret>>
       PROVE  Promise!Next
  <2>1. ret[s] \in Results /\ tx[s] # "none"
    BY <1>11 DEF ResultKnown, PhaseInv
  <2>2. Answers[s] = "none" /\ Answers' = [Answers EXCEPT ![s] = ret[s]]
    BY <1>11, ZenonT(40) DEF Answers
  <2>3. UNCHANGED Verdicts /\ Verdicts[s] # "none"
    BY <1>11, <2>1 DEF Verdicts, Verdict
  <2>4. ret[s] = "nil" => Verdicts[s] = "applied"
    BY <1>11 DEF PhaseInv, Verdicts, Verdict
  <2>5. ret[s] \in {"fnErr", "panic"} => tx[s] \in {"rollingback", "rolledback"}
    <3>1. ret'[s] = ret[s] /\ phase'[s] = "returned" /\ tx'[s] = tx[s] /\ tx[s] \in TxStates
      BY <1>11
    <3>2. ret[s] \in {"fnErr", "panic"} => tx[s] # "active"
      BY <3>1 DEF PhaseInv
    <3>3. tx[s] # "committing" /\ (tx[s] = "committed" => ret[s] \in {"nil", "commitErr"})
      BY <1>11 DEF PhaseInv
    <3>4. QED
      BY <2>1, <3>1, <3>2, <3>3
  <2>6. ret[s] \in {"fnErr", "panic"} => Verdicts[s] = "discarded"
    BY <2>5 DEF Verdicts, Verdict
  <2>7. \A r \in Promise!Results : r = ret[s] => Promise!Answer(s, r)
    BY <1>11, <2>1, <2>2, <2>3, <2>4, <2>6
    DEF Promise!Answer, Promise!Results, Verdicts, Answers
  <2>8. QED
    BY <2>1, <2>7 DEF Promise!Next, Promise!Results
<1>12. ASSUME NEW p \in Procs, Close(p)
       PROVE  Promise!Next
  <2> DEFINE s == top[p]
  <2>1. s \in Sessions /\ phase[s] = "close" /\ UNCHANGED <<ret, issued, durable>>
    BY <1>12 DEF Close
  <2>2. CASE ~isClosed[s] /\ tx[s] = "active"
    <3>1. tx' = [tx EXCEPT ![s] = "rollingback"] /\ phase' = [phase EXCEPT ![s] = "rollback"]
      BY <1>12, <2>2 DEF Close
    <3>2. \A t \in Sessions : phase'[t] = "returned" <=> phase[t] = "returned"
      BY <2>1, <3>1
    <3>3. Promise!Discard(s)
      BY <1>10, <2>1, <2>2, <3>1, <3>2
    <3>4. QED
      BY <2>1, <3>3 DEF Promise!Next
  <2>3. CASE ~(~isClosed[s] /\ tx[s] = "active")
    <3>1. phase' = [phase EXCEPT ![s] = "returned"] /\ UNCHANGED tx
      BY <1>12, <2>3 DEF Close, Return
    <3>2. QED
      BY <1>11, <2>1, <3>1
  <2>4. QED
    BY <2>2, <2>3
<1>13. ASSUME NEW p \in Procs, CloseEnds(p)
       PROVE  Promise!Next
  <2>1. /\ top[p] \in Sessions /\ phase[top[p]] = "rollback"
        /\ phase' = [phase EXCEPT ![top[p]] = "returned"]
        /\ UNCHANGED <<tx, issued, durable, ret>>
    BY <1>13 DEF CloseEnds, Return
  <2>2. QED
    BY <1>11, <2>1
<1>14. ASSUME NEW s \in Sessions, AwaitDone(s)
       PROVE  Promise!Next
  BY <1>10, <1>14 DEF AwaitDone, Promise!Next
<1>15. ASSUME NEW s \in Sessions, RollbackEnds(s)
       PROVE  UNCHANGED Abs
  <2>1. /\ tx[s] = "rollingback" /\ tx' = [tx EXCEPT ![s] = "rolledback"]
        /\ UNCHANGED <<issued, durable, phase, ret>>
    BY <1>15 DEF RollbackEnds
  <2>2. UNCHANGED Verdicts
    BY <2>1 DEF Verdicts, Verdict
  <2>3. QED
    BY <2>1, <2>2 DEF Answers
<1>16. ASSUME NEW p \in Procs, NEW c \in Contexts, NEW e \in Engines, NEW k \in Keys,
              StatementOnPool(p, c, e, k)
       PROVE  Promise!Next
  <2>1. Owner(c, e) = NoSession
    BY <1>16, ProxyIsOwner DEF StatementOnPool
  <2>2. durable' = durable \cup {<<NoSession, k>>} /\ UNCHANGED <<tx, phase, ret, issued>>
    BY <1>16, <2>1 DEF StatementOnPool, Acknowledge
  <2>3. UNCHANGED <<Verdicts, Answers>>
    BY <2>2 DEF Verdicts, Answers, Verdict
  <2>4. QED
    BY <2>2, <2>3 DEF Promise!Next, Promise!Direct, Verdicts, Answers
<1>17. ASSUME NEW p \in Procs, NEW c \in Contexts, NEW e \in Engines, NEW k \in Keys,
              StatementInTx(p, c, e, k)
       PROVE  Promise!Next
  <2>1. Owner(c, e) \in Sessions /\ tx[Owner(c, e)] = "active"
    BY <1>17, ProxyIsOwner DEF StatementInTx
  <2>2. /\ issued' = [issued EXCEPT ![Owner(c, e)] = @ \cup {k}]
        /\ UNCHANGED <<tx, phase, ret, durable>>
    BY <1>17, <2>1 DEF StatementInTx, Acknowledge
  <2>3. UNCHANGED <<Verdicts, Answers>> /\ Verdicts[Owner(c, e)] = "running"
    BY <2>1, <2>2 DEF Verdicts, Answers, Verdict
  <2>4. Promise!Do(Owner(c, e), k)
    BY <2>2, <2>3 DEF Promise!Do, Verdicts, Answers
  <2>5. QED
    BY <2>1, <2>4 DEF Promise!Next
<1>18. QED
  <2>1. Promise!Next \/ UNCHANGED Abs
    <3>1. ASSUME NEW p \in Procs, Caller(p)
          PROVE  Promise!Next \/ UNCHANGED Abs
      BY <3>1, <1>4, <1>16, <1>17 DEF Caller
    <3>2. ASSUME NEW p \in Procs, Transact(p)
          PROVE  Promise!Next \/ UNCHANGED Abs
      BY <3>2, <1>3, <1>7, <1>8, <1>9, <1>12, <1>13 DEF Transact
    <3>3. CASE Environment
      BY <3>3, <1>5, <1>6, <1>14, <1>15 DEF Environment
    <3>4. QED
      BY <3>1, <3>2, <3>3, <1>2 DEF Next
  <2>2. QED
    BY <1>0, <2>1

\* Engine.TX implements what it promises: AtomicTx, in which a call's
\* statements are applied at once or discarded and the answer says which.
THEOREM Refinement == Spec => ImplementsAtomicTx
<1>1. Init => Promise!Init
  BY DEF Init, Promise!Init, Verdict
<1>2. IInv /\ IInv' /\ [Next]_vars => [Promise!Next]_(Promise!vars)
  BY StepRefines
<1>3. QED
  BY <1>1, <1>2, Invariance, PTL DEF Spec, ImplementsAtomicTx, Promise!Spec
=============================================================================
