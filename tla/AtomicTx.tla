------------------------------ MODULE AtomicTx ------------------------------
(***************************************************************************)
(* What Engine.TX promises its callers (README.md, "Transaction Support"): *)
(* the statements of a callback take effect all together or not at all,    *)
(* and the value TX returns tells which.  TxSession implements this        *)
(* specification; nothing here knows of sessions, pools or contexts.       *)
(***************************************************************************)
CONSTANTS
    Sessions,   \* the calls of TX
    Keys,       \* what a statement writes
    NoSession   \* the owner of a statement that belongs to no call of TX

VARIABLES
    verdict,    \* [Sessions -> Verdicts]
    issued,     \* the keys each callback has written without an error
    durable,    \* <<owner, key>> pairs another client of the database reads
    answer      \* what the call returned to its caller

vars == <<verdict, issued, durable, answer>>

Verdicts == {"none", "running", "applied", "discarded"}
Results  == {"nil", "fnErr", "panic", "commitErr"}

TypeOK ==
    /\ verdict \in [Sessions -> Verdicts]
    /\ issued \in [Sessions -> SUBSET Keys]
    /\ durable \subseteq (Sessions \cup {NoSession}) \X Keys
    /\ answer \in [Sessions -> Results \cup {"none"}]

Init ==
    /\ verdict = [s \in Sessions |-> "none"]
    /\ issued = [s \in Sessions |-> {}]
    /\ durable = {}
    /\ answer = [s \in Sessions |-> "none"]

Start(s) ==
    /\ verdict[s] = "none"
    /\ verdict' = [verdict EXCEPT ![s] = "running"]
    /\ UNCHANGED <<issued, durable, answer>>

\* A statement of the callback, or of code the callback handed its ctx to.
Do(s, k) ==
    /\ verdict[s] = "running"
    /\ issued' = [issued EXCEPT ![s] = @ \cup {k}]
    /\ UNCHANGED <<verdict, durable, answer>>

\* A statement of no transaction commits by itself.
Direct(k) ==
    /\ durable' = durable \cup {<<NoSession, k>>}
    /\ UNCHANGED <<verdict, issued, answer>>

Apply(s) ==
    /\ verdict[s] = "running"
    /\ verdict' = [verdict EXCEPT ![s] = "applied"]
    /\ durable' = durable \cup {s} \X issued[s]
    /\ UNCHANGED <<issued, answer>>

Discard(s) ==
    /\ verdict[s] = "running"
    /\ verdict' = [verdict EXCEPT ![s] = "discarded"]
    /\ UNCHANGED <<issued, durable, answer>>

\* nil means applied, an error or a panic of the callback means discarded;
\* after an error of COMMIT itself the caller cannot know.
Answer(s, r) ==
    /\ answer[s] = "none"
    /\ verdict[s] # "none"
    /\ r = "nil" => verdict[s] = "applied"
    /\ r \in {"fnErr", "panic"} => verdict[s] = "discarded"
    /\ answer' = [answer EXCEPT ![s] = r]
    /\ UNCHANGED <<verdict, issued, durable>>

Next ==
    \/ \E s \in Sessions :
        \/ Start(s) \/ Apply(s) \/ Discard(s)
        \/ \E k \in Keys : Do(s, k)
        \/ \E r \in Results : Answer(s, r)
    \/ \E k \in Keys : Direct(k)

Spec == Init /\ [][Next]_vars
=============================================================================
