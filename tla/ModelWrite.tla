----------------------------- MODULE ModelWrite -----------------------------
(***************************************************************************)
(* Models written to and read from one table: Insert and InsertAll         *)
(* (insert.go), UpdateStmt.SetModel (update.go), the descriptor that tells *)
(* a model's fields apart (descriptor.go, model.go) and the Repository     *)
(* over them (repository.go), by clients that share the table.             *)
(*                                                                         *)
(* A model has an id, a column v and a time column "at"; the flags of its  *)
(* fields are one of four descriptors.  A statement holds pointers into    *)
(* its models, so it writes what they hold when it is executed.  A row is  *)
(* known by its birth, its rank among all rows ever stored.                *)
(***************************************************************************)
EXTENDS Naturals, FiniteSets, Sequences

CONSTANTS
    Clients,
    Models,     \* the models the clients hold
    Owner,      \* Owner[m]: the client that holds m
    ChosenId,   \* the ids clients give to models whose key they choose
    Cases,      \* the descriptors and databases tried
    Values,     \* of the column v
    IdRange,    \* the Go type of the key holds 0 .. IdRange - 1
    MaxRows,    \* bounds the rows ever stored
    MaxNow,     \* bounds the clock
    MaxCalls    \* bounds the calls

Fields == {"id", "v", "at"}

\* The flags lormgen gives the fields: a key the database generates, one the
\* caller chooses, a generated one that is part of a composite key, none.
Flags ==
    [auto      |-> [id |-> {"primary_key", "auto_increment"}, v |-> {}, at |-> {"created"}],
     manual    |-> [id |-> {"primary_key"}, v |-> {}, at |-> {"updated"}],
     composite |-> [id |-> {"primary_key", "auto_increment"}, v |-> {"primary_key"},
                    at |-> {"updated"}],
     none      |-> [id |-> {}, v |-> {}, at |-> {"created"}]]

Births == 1 .. MaxRows
NoBirth == 0

ASSUME ModelWriteAssumption ==
    /\ Owner \in [Models -> Clients]
    /\ ChosenId \in [Models -> 1 .. 2]
    /\ Cases \subseteq (DOMAIN Flags) \X {"mysql", "postgres", "sqlite"}
    /\ IsFiniteSet(Models)
    /\ Values \subseteq Nat /\ Values # {}
    /\ IdRange \in Nat \ {0, 1, 2}
    /\ MaxRows \in Nat \ {0, 1} /\ MaxNow \in Nat \ {0} /\ MaxCalls \in Nat

VARIABLES
    kind, database,
    model,      \* what the models hold
    rows,       \* [Births -> Row], as committed
    born,       \* rows stored so far
    nextId,     \* the table's AUTO_INCREMENT
    calls,      \* calls so far; the clock moves with them
    call,       \* the Insert a client is in: [pc, ms, at: its first row]
    stmt,       \* the models SetModel gave the client's UpdateStmt
    tx,         \* the client's transaction
    stands,     \* the row a model was read from or inserted as
    sure        \* the models whose insertion as a row was reported

vars == <<kind, database, model, rows, born, nextId, calls, call, stmt, tx, stands, sure>>

Row == [live : BOOLEAN, id : 0 .. MaxRows, v : Values, at : 0 .. MaxNow]
NoRow == [live |-> FALSE, id |-> 0, v |-> CHOOSE x \in Values : TRUE, at |-> 0]
NoCall == [pc |-> "idle", ms |-> <<>>, first |-> 0]
\* A transaction: the rows it locked, the rows Lock answered, its writes.
NoTx == [open |-> FALSE, held |-> {}, seen |-> {}, pend |-> {}]
Seen == [birth : Births, row : Row]

\* Types; fillModelID is only reached with a single model.
TypeInv ==
    /\ <<kind, database>> \in Cases
    /\ model \in [Models -> [id : 0 .. IdRange - 1, v : Values, at : 0 .. MaxNow]]
    /\ rows \in [Births -> Row]
    /\ born \in 0 .. MaxRows /\ nextId \in 1 .. MaxRows + 1 /\ calls \in 0 .. MaxCalls
    /\ call \in [Clients -> [pc : {"idle", "exec", "affected", "fill"},
                             ms : Seq(Models), first : 0 .. MaxRows]]
    /\ \A c \in Clients : call[c].pc = "fill" => Len(call[c].ms) = 1
    /\ stmt \in [Clients -> Seq(Models)]
    /\ tx \in [Clients -> [open : BOOLEAN, held : SUBSET Births,
                           seen : SUBSET Seen, pend : SUBSET Seen]]
    /\ stands \in [Models -> Births \cup {NoBirth}]
    /\ sure \in [Births -> SUBSET Models]

(* ------------------------- descriptor and times ------------------------ *)
FlagFields(flag) == {f \in Fields : flag \in Flags[kind][f]}
Keys == FlagFields("primary_key")

\* Variant: the test of the number of keys is reversed.
SingleGeneratedReversed ==
    Cardinality(Keys) # 1 /\ "id" \in FlagFields("auto_increment")

\* fillModelID acts on a single, generated key.
SingleGenerated == Keys = {"id"} /\ "id" \in FlagFields("auto_increment")

Now == IF calls < MaxNow THEN calls + 1 ELSE MaxNow
\* Variant: a time that is set is set again.
FillCurrentTimeAgain(m) == [m EXCEPT !.at = Now]

FillCurrentTime(m) == [m EXCEPT !.at = IF @ = 0 THEN Now ELSE @]
FilledForInsert(m) ==
    IF "at" \in FlagFields("created") \cup FlagFields("updated")
    THEN FillCurrentTime(m) ELSE m
FilledForUpdate(m) == IF "at" \in FlagFields("updated") THEN FillCurrentTime(m) ELSE m

(* ----------------------------- the database ---------------------------- *)
Generates == database = "mysql" /\ "id" \in FlagFields("auto_increment")

\* The rows a client works on: those committed under its own writes.
Pending(c) == {s.birth : s \in tx[c].pend}
Over(c, table) ==
    [b \in Births |-> IF b \in Pending(c)
                      THEN (CHOOSE s \in tx[c].pend : s.birth = b).row
                      ELSE table[b]]
View(c) == Over(c, rows)
Free(c, touched) == \A d \in Clients \ {c} : tx[d].held \cap touched = {}
KeysUnique(table) ==
    ~\E a, b \in Births :
        /\ Keys # {} /\ a < b /\ table[a].live /\ table[b].live
        /\ \A f \in Keys : table[a][f] = table[b][f]

\* The rows "touched" become as in "table", at once or when c commits.
Write(c, touched, table) ==
    /\ \E b \in touched : table[b] # View(c)[b]     \* else nothing happens
    /\ Free(c, touched)
    /\ \A d \in Clients : KeysUnique(IF d = c THEN table ELSE Over(d, table))
    /\ IF tx[c].open
       THEN /\ tx' = [tx EXCEPT ![c].held = @ \cup touched,
                                ![c].pend = {s \in @ : s.birth \notin touched}
                                    \cup {[birth |-> b, row |-> table[b]] : b \in touched}]
            /\ rows' = rows
       ELSE /\ rows' = [b \in Births |-> IF b \in touched THEN table[b] ELSE rows[b]]
            /\ tx' = tx

\* Variant: the id the table generated last.
LastInsertIdOfTable(c) == nextId - 1

LastInsertId(c) == View(c)[call[c].first].id
-----------------------------------------------------------------------------
\* The table is empty or has one row.
FirstRow == [live |-> TRUE, id |-> 1, v |-> NoRow.v, at |-> 1]

Init ==
    /\ \E case \in Cases : kind = case[1] /\ database = case[2]
    /\ model = [m \in Models |-> [id |-> IF kind = "manual" THEN ChosenId[m] ELSE 0,
                                  v |-> NoRow.v, at |-> 0]]
    /\ born \in {0, 1}
    /\ rows = [b \in Births |-> IF b <= born THEN FirstRow ELSE NoRow]
    /\ nextId = born + 1 /\ calls = 0
    /\ call = [c \in Clients |-> NoCall]
    /\ stmt = [c \in Clients |-> <<>>]
    /\ tx = [c \in Clients |-> NoTx]
    /\ stands = [m \in Models |-> NoBirth]
    /\ sure = [b \in Births |-> {}]

Idle(c) == call[c].pc = "idle"
Counts == calls < MaxCalls /\ calls' = calls + 1

\* The client changes a field of its model, before or after SetModel.
Change(m) ==
    /\ Idle(Owner[m])
    /\ stands[m] # NoBirth \/ \E i \in DOMAIN stmt[Owner[m]] : stmt[Owner[m]][i] = m
    /\ \E v \in Values \ {model[m].v} : model' = [model EXCEPT ![m].v = v]
    /\ UNCHANGED <<kind, database, rows, born, nextId, calls, call, stmt, tx, stands, sure>>

(* ------------------------------- inserts ------------------------------- *)
\* Insert of one model, InsertAll of several: the statement is built from
\* the descriptor of the first, the times of all are filled.
StartInsert(c, ms) ==
    /\ Idle(c) /\ Counts
    /\ model' = [m \in Models |-> IF \E i \in DOMAIN ms : ms[i] = m
                                  THEN FilledForInsert(model[m]) ELSE model[m]]
    /\ call' = [call EXCEPT ![c] = [pc |-> "exec", ms |-> ms, first |-> 0]]
    /\ UNCHANGED <<kind, database, rows, born, nextId, stmt, tx, stands, sure>>

\* The id a database stores for the i-th model of the statement.
StoredId(ms, i) ==
    IF Generates /\ model[ms[i]].id = 0
    THEN nextId + Cardinality({j \in 1 .. i - 1 : model[ms[j]].id = 0})
    ELSE model[ms[i]].id
NewRow(ms, i) == [live |-> TRUE, id |-> StoredId(ms, i),
                  v |-> model[ms[i]].v, at |-> model[ms[i]].at]

\* The database stores the rows and answers, or its answer is lost.
ExecInsert(c) ==
    LET ms == call[c].ms
        new == born + 1 .. born + Len(ms)
    IN  /\ call[c].pc = "exec"
        /\ born + Len(ms) <= MaxRows
        /\ Write(c, new, [b \in Births |-> IF b \in new THEN NewRow(ms, b - born)
                                           ELSE View(c)[b]])
        /\ born' = born + Len(ms)
        /\ nextId' = IF Generates
                     THEN nextId + Cardinality({i \in DOMAIN ms : model[ms[i]].id = 0})
                     ELSE nextId
        /\ stands' = [m \in Models |->
                        IF \E i \in DOMAIN ms : ms[i] = m /\ model[m].id # 0
                        THEN born + CHOOSE i \in DOMAIN ms : ms[i] = m
                        ELSE stands[m]]
        /\ \/ call' = [call EXCEPT ![c].pc = "affected", ![c].first = born + 1]
           \/ call' = [call EXCEPT ![c] = NoCall]
    /\ UNCHANGED <<kind, database, model, calls, stmt, sure>>

ExecInsertFails(c) ==
    /\ call[c].pc = "exec"
    /\ call' = [call EXCEPT ![c] = NoCall]
    /\ UNCHANGED <<kind, database, model, rows, born, nextId, calls, stmt, tx, stands, sure>>

InsertDone(c) ==
    /\ call' = [call EXCEPT ![c] = NoCall]
    /\ sure' = [b \in Births |->
                  IF b = call[c].first /\ Len(call[c].ms) = 1
                  THEN {call[c].ms[1]} ELSE sure[b]]

\* Variant: the id of the first of several models is filled as well.
RowsAffectedFillsAll(c) ==
    /\ call[c].pc = "affected"
    /\ \/ call' = [call EXCEPT ![c].pc = "fill"]
       \/ call' = [call EXCEPT ![c] = NoCall]
    /\ UNCHANGED <<kind, database, model, rows, born, nextId, calls, stmt, tx, stands, sure>>

\* RowsAffected: its error is Insert's, the rows are stored all the same.
RowsAffected(c) ==
    /\ call[c].pc = "affected"
    /\ \/ /\ Len(call[c].ms) = 1
          /\ call' = [call EXCEPT ![c].pc = "fill"]
          /\ UNCHANGED sure
       \/ Len(call[c].ms) > 1 /\ InsertDone(c)
       \/ call' = [call EXCEPT ![c] = NoCall] /\ UNCHANGED sure
    /\ UNCHANGED <<kind, database, model, rows, born, nextId, calls, stmt, tx, stands>>

\* cast.ToUint8 and the others, for the Go type of the key.
Narrowed(id) == id % IdRange

\* fillModelID: Insert ends, with an error when the driver has no LastInsertId.
FillModelID(c) ==
    LET m == call[c].ms[1]
    IN  /\ call[c].pc = "fill"
        /\ \/ /\ ~SingleGenerated \/ model[m].id # 0
              /\ InsertDone(c)
              /\ UNCHANGED <<model, stands>>
           \/ /\ SingleGenerated /\ model[m].id = 0
              /\ database # "postgres"
              /\ model' = [model EXCEPT ![m].id = Narrowed(LastInsertId(c))]
              /\ stands' = [stands EXCEPT ![m] = call[c].first]
              /\ InsertDone(c)
           \/ /\ SingleGenerated /\ model[m].id = 0
              /\ database = "postgres"
              /\ call' = [call EXCEPT ![c] = NoCall]
              /\ UNCHANGED <<model, stands, sure>>
    /\ UNCHANGED <<kind, database, rows, born, nextId, calls, stmt, tx>>

(* ------------------------------- updates ------------------------------- *)
\* SetModel of a new UpdateStmt, or once more of the one the client has.
SetModel(c, m) ==
    /\ Idle(c) /\ Owner[m] = c /\ Counts
    /\ \E given \in {<<>>, stmt[c]} :
         Len(given) < 2 /\ stmt' = [stmt EXCEPT ![c] = Append(given, m)]
    /\ model' = [model EXCEPT ![m] = FilledForUpdate(@)]
    /\ UNCHANGED <<kind, database, rows, born, nextId, call, tx, stands, sure>>

\* Variant: the key is not put into WHERE.
MeetsAlways(c, row) == TRUE

\* The WHERE of the statement, one condition for every SetModel; without a
\* primary key there is none.
Meets(c, row) ==
    \A i \in DOMAIN stmt[c] : \A f \in Keys : row[f] = model[stmt[c][i]][f]
Updated(c) == {b \in Births : View(c)[b].live /\ Meets(c, View(c)[b])}

\* Every column is set, by the last SetModel; PostgreSQL refuses a column
\* that is set twice.
ExecUpdate(c) ==
    LET last == model[stmt[c][Len(stmt[c])]]
    IN  /\ Idle(c) /\ stmt[c] # <<>> /\ Counts
        /\ database = "postgres" => Len(stmt[c]) = 1
        /\ Write(c, Updated(c),
                 [b \in Births |->
                    IF b \in Updated(c)
                    THEN [live |-> TRUE, id |-> last.id, v |-> last.v, at |-> last.at]
                    ELSE View(c)[b]])
    /\ UNCHANGED <<kind, database, model, born, nextId, call, stmt, stands, sure>>

WithId(c, id) == {b \in Births : View(c)[b].live /\ View(c)[b].id = id}

UpdateMap(c, id, v) ==
    /\ Idle(c) /\ Counts
    /\ Write(c, WithId(c, id),
             [b \in Births |-> IF b \in WithId(c, id) THEN [View(c)[b] EXCEPT !.v = v]
                               ELSE View(c)[b]])
    /\ UNCHANGED <<kind, database, model, born, nextId, call, stmt, stands, sure>>

Delete(c, id) ==
    /\ Idle(c) /\ Counts
    /\ Write(c, WithId(c, id),
             [b \in Births |-> IF b \in WithId(c, id) THEN [View(c)[b] EXCEPT !.live = FALSE]
                               ELSE View(c)[b]])
    /\ UNCHANGED <<kind, database, model, born, nextId, call, stmt, stands, sure>>

(* -------------------------------- reads -------------------------------- *)
\* A row is scanned into a model of its own, which takes the place of m: one the
\* client gives up, together with a statement that points to it.  A client that
\* keeps its statement loads in the place of another model.  An id the type of
\* the key cannot hold is an error of Scan.
Load(m, b, row) ==
    /\ row.id < IdRange
    /\ model' = [model EXCEPT ![m] = [id |-> row.id, v |-> row.v, at |-> row.at]]
    /\ stands' = [stands EXCEPT ![m] = b]
    /\ sure' = [a \in Births |-> sure[a] \ {m}]
    /\ stmt' = [stmt EXCEPT ![Owner[m]] =
                  IF \E i \in DOMAIN @ : @[i] = m THEN <<>> ELSE @]

Get(c, m, id) ==
    /\ Idle(c) /\ Owner[m] = c /\ Counts
    /\ \E b \in WithId(c, id) : Load(m, b, View(c)[b])
    /\ UNCHANGED <<kind, database, rows, born, nextId, call, tx>>

\* Variant: the suffix is forgotten.
ForUpdateNot(c, b) == tx

\* Get with the suffix FOR UPDATE: the row answered is locked until the
\* client's transaction ends; without one, no longer than the statement.
ForUpdate(c, b) == [tx EXCEPT ![c].held = @ \cup {b}]
Reads(t, c, b) ==
    IF \E s \in t[c].seen : s.birth = b THEN t
    ELSE [t EXCEPT ![c].seen = @ \cup {[birth |-> b, row |-> rows[b]]}]
Lock(c, m, id) ==
    /\ Idle(c) /\ Owner[m] = c /\ Counts
    /\ database # "sqlite"
    /\ \E b \in WithId(c, id) :
         /\ Free(c, {b})
         /\ Load(m, b, View(c)[b])
         /\ tx' = IF tx[c].open THEN Reads(ForUpdate(c, b), c, b) ELSE tx
    /\ UNCHANGED <<kind, database, rows, born, nextId, call>>

(* ----------------------- the client's transaction ---------------------- *)
Begin(c) ==
    /\ Idle(c) /\ ~tx[c].open /\ Counts
    /\ tx' = [tx EXCEPT ![c].open = TRUE]
    /\ UNCHANGED <<kind, database, model, rows, born, nextId, call, stmt, stands, sure>>

Commit(c) ==
    /\ Idle(c) /\ tx[c].open
    /\ rows' = View(c)
    /\ tx' = [tx EXCEPT ![c] = NoTx]
    /\ UNCHANGED <<kind, database, model, born, nextId, calls, call, stmt, stands, sure>>

Rollback(c) ==
    /\ Idle(c) /\ tx[c].open
    /\ tx' = [tx EXCEPT ![c] = NoTx]
    /\ UNCHANGED <<kind, database, model, rows, born, nextId, calls, call, stmt, stands, sure>>

Insert(c, m) == Owner[m] = c /\ StartInsert(c, <<m>>)
InsertAll(c, m, n) == Owner[m] = c /\ Owner[n] = c /\ m # n /\ StartInsert(c, <<m, n>>)

Next ==
    \/ \E m \in Models : Change(m)
    \/ \E c \in Clients :
         \/ \E m \in Models :
              \/ Insert(c, m)
              \/ \E n \in Models : InsertAll(c, m, n)
              \/ SetModel(c, m)
              \/ \E id \in 1 .. MaxRows : Get(c, m, id) \/ Lock(c, m, id)
         \/ ExecInsert(c) \/ ExecInsertFails(c) \/ RowsAffected(c) \/ FillModelID(c)
         \/ ExecUpdate(c)
         \/ \E id \in 1 .. MaxRows :
              Delete(c, id) \/ \E v \in Values : UpdateMap(c, id, v)
         \/ Begin(c) \/ Commit(c) \/ Rollback(c)

Spec == Init /\ [][Next]_vars
-----------------------------------------------------------------------------
\* The model's type can hold the ids generated so far.
AllFit == nextId <= IdRange

\* However often a model is given to Insert, by a double submit or a retry
\* after an error, at most one of the rows it made was reported as inserted:
\* fillModelID gives it the key that makes the next attempt a duplicate.
OneRowPerModel ==
    Keys = {"id"} =>
    \A a, b \in Births :
      a < b /\ rows[a].live /\ rows[b].live /\ rows[a].id < IdRange
      => sure[a] \cap sure[b] = {}

\* The key of a model that was loaded or inserted is that of its row, other
\* inserts between the statement and fillModelID included.
ModelNamesItsRow ==
    Keys # {} =>
    \A m \in Models :
      LET b == stands[m]
      IN  b # NoBirth /\ rows[b].live /\ rows[b].id < IdRange => model[m].id = rows[b].id

\* A row that was answered by Lock in a transaction is, as others see it, the
\* row that was answered until the transaction ends: what is computed from it
\* and written back overwrites nobody's change.
LockedRowStands ==
    \A c \in Clients : \A s \in tx[c].seen : rows[s.birth] = s.row

\* An update through models whose rows are in the table changes no row but the
\* one they were all loaded from or inserted as; through a model that was
\* neither, nothing.
Changed(c) == {b \in Births : View(c)'[b] # View(c)[b]}
UpdateOwnRowOnly ==
    [][\A c \in Clients :
         ExecUpdate(c) /\ SingleGenerated /\ Generates /\ AllFit =>
         \A b \in Changed(c) : \A i \in DOMAIN stmt[c] :
           LET own == stands[stmt[c][i]]
           IN  own # NoBirth /\ (View(c)[own].live => View(c)[own].id = View(c)[b].id)]_vars

\* The created time of a row never moves, though every update through a model
\* writes the one the model holds.
CreatedStands ==
    [][SingleGenerated /\ Generates /\ AllFit =>
         \A b \in Births : rows[b].live /\ rows'[b].live => rows'[b].at = rows[b].at]_vars
=============================================================================
