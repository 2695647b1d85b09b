----------------------------- MODULE SqliteStmt -----------------------------
(***************************************************************************)
(* The statements of tools/sqlite.cpp: the calls of SQLite_ (exec, intv,    *)
(* floatv, stringv, blobv), which prepare, step and finalize a statement of *)
(* their own, and the STMT_ objects a program holds over many calls.  One   *)
(* process runs this code, in one thread; another shares the file.          *)
(*                                                                         *)
(* The table has one row or none, and the row one column: a blob, or NULL.  *)
(* A statement that stands on a row holds the file's SHARED lock.  Data     *)
(* bound to a statement is not copied; the program keeps it until the       *)
(* statement is gone.                                                      *)
(***************************************************************************)
CONSTANTS
  Blobs,      \* what a column may hold
  NulBlobs,   \* those with a zero byte in them
  Empty,      \* the blob of no bytes
  Null, NoRow,\* the column is NULL; the table is empty
  Cut,        \* what is left of a blob cut at its zero byte
  Numbers,    \* whole numbers
  Whole,      \* per column, the number it reads as, without its fraction
  Queries,    \* the STMT_ objects of select statements,
  Updates     \* and of statements that write the row

ASSUME StmtAssumption ==
  /\ NulBlobs \subseteq Blobs /\ Empty \in Blobs
  /\ Null \notin Blobs /\ NoRow \notin Blobs \cup {Null} /\ Cut \notin Blobs \cup {Null}
  /\ Queries \cap Updates = {}
  /\ Whole \in [Blobs \cup {Null} -> Numbers]

Stmts == Queries \cup Updates
Column == Blobs \cup {Null}
Table == Column \cup {NoRow}

VARIABLES
  table,  \* the row, or NoRow
  other,  \* the other process: "idle", "reading", "reserved" or "pending" to commit
  call,   \* the SQLite_ call under way: "none", "exec", "intv", "floatv",
          \*   "stringv", "blobv"; "dead": the process crashed
  tmp,    \* its statement: "none", "ready", on a "row", "done" or "failed"
  seen,   \* the column of the row it stands on
  took,   \* history: its write was committed
  told,   \* what the last call returned or threw
  stmt,   \* per STMT_: its handle, "none", "ready", on a "row" or "done"
  bound   \* per STMT_: the data bound to it

callVars == <<call, tmp, seen, took, told>>
stmtVars == <<stmt, bound>>
vars == <<table, other, callVars, stmtVars>>

Init ==
  /\ table = NoRow /\ other = "idle"
  /\ call = "none" /\ tmp = "none" /\ seen = Null /\ took = FALSE /\ told = "ok"
  /\ stmt = [s \in Stmts |-> "none"] /\ bound = [s \in Stmts |-> Null]

\* sqlite's locks, with a rollback journal and no busy handler.
Holding == tmp = "row" \/ \E s \in Stmts : stmt[s] = "row"
CanRead == Holding \/ other # "pending"
CanWrite == other = "idle"

-----------------------------------------------------------------------------
(* The calls of SQLite_ *)

\* vsprintf and sqlite3_prepare_v2, which may fail: the call throws.
Prepare(op) ==
  /\ call = "none"
  /\ \/ call' = op /\ tmp' = "ready" /\ UNCHANGED told
     \/ told' = "error" /\ UNCHANGED <<call, tmp>>
  /\ UNCHANGED <<table, other, seen, took, stmtVars>>

\* exec: an insert, update or delete; exec(blob) binds the blob before.
ExecStep ==
  /\ call = "exec" /\ tmp = "ready"
  /\ \/ CanWrite /\ table' \in Table /\ tmp' = "done" /\ took' = TRUE
     \/ tmp' = "failed" /\ took' = FALSE /\ UNCHANGED table
  /\ UNCHANGED <<other, call, seen, told, stmtVars>>

\* Mutant: what sqlite3_step returned is not looked at.
ExecReturnOk ==
  /\ call = "exec" /\ tmp \in {"done", "failed"}
  /\ tmp' = "none" /\ call' = "none" /\ told' = "ok"
  /\ UNCHANGED <<table, other, seen, took, stmtVars>>

\* sqlite3_finalize, then a throw unless the step was done.
ExecReturn ==
  /\ call = "exec" /\ tmp \in {"done", "failed"}
  /\ tmp' = "none" /\ call' = "none"
  /\ told' = IF tmp = "done" THEN "ok" ELSE "error"
  /\ UNCHANGED <<table, other, seen, took, stmtVars>>

QueryCalls == {"intv", "floatv", "stringv", "blobv"}

\* The query's one sqlite3_step.
QueryStep ==
  /\ call \in QueryCalls /\ tmp = "ready"
  /\ \/ CanRead /\ table # NoRow /\ tmp' = "row" /\ seen' = table
     \/ CanRead /\ table = NoRow /\ tmp' = "done" /\ UNCHANGED seen
     \/ tmp' = "failed" /\ UNCHANGED seen
  /\ UNCHANGED <<table, other, call, took, told, stmtVars>>

\* strlen ends a text at its zero byte; a blob has its length.
Text(v) == IF v \in NulBlobs THEN Cut ELSE v

\* Mutant: blobv makes no Data of NULL, as STMT_::blobv does.
AnswerNull(op, v) ==
  CASE op \in {"intv", "floatv"} -> Whole[v]
    [] op = "stringv"            -> Text(v)
    [] op = "blobv"              -> v

\* What a query makes of its column: floatv puts the double in an int, and
\* blobv builds a Data of no bytes from NULL.
Answer(op, v) ==
  CASE op \in {"intv", "floatv"} -> Whole[v]
    [] op = "stringv"            -> Text(v)
    [] op = "blobv"              -> IF v = Null THEN Empty ELSE v

\* Mutant: the value is returned, and the statement stays on its row.
QueryReturnUnfinalized ==
  /\ call \in QueryCalls /\ tmp \in {"row", "done", "failed"}
  /\ call = "stringv" /\ tmp = "row" => seen # Null
  /\ call' = "none" /\ tmp' = IF tmp = "row" THEN "row" ELSE "none"
  /\ told' = IF tmp = "row" THEN Answer(call, seen) ELSE "404"
  /\ UNCHANGED <<table, other, seen, took, stmtVars>>

\* Mutant: the column is read whatever the step returned.
QueryReturnUnchecked ==
  /\ call \in QueryCalls /\ tmp \in {"row", "done", "failed"}
  /\ call = "stringv" => tmp = "row" /\ seen # Null
  /\ call' = "none" /\ tmp' = "none"
  /\ told' = Answer(call, IF tmp = "row" THEN seen ELSE Null)
  /\ UNCHANGED <<table, other, seen, took, stmtVars>>

\* The column is copied, the statement finalized; 404 is thrown when the step
\* found no row, and as well when it failed.
QueryReturn ==
  /\ call \in QueryCalls /\ tmp \in {"row", "done", "failed"}
  /\ call = "stringv" /\ tmp = "row" => seen # Null
  /\ call' = "none" /\ tmp' = "none"
  /\ told' = IF tmp = "row" THEN Answer(call, seen) ELSE "404"
  /\ UNCHANGED <<table, other, seen, took, stmtVars>>

\* strlen(NULL): the process dies, and its locks with it.
Crash ==
  /\ call = "stringv" /\ tmp = "row" /\ seen = Null
  /\ call' = "dead" /\ tmp' = "none"
  /\ stmt' = [s \in Stmts |-> "none"]
  /\ UNCHANGED <<table, other, seen, took, told, bound>>

-----------------------------------------------------------------------------
(* STMT_; a call that throws changes nothing but what is said *)

\* SQLite_::prepare
New(s) ==
  /\ call = "none" /\ stmt[s] = "none"
  /\ stmt' = [stmt EXCEPT ![s] = "ready"] /\ bound' = [bound EXCEPT ![s] = Null]
  /\ UNCHANGED <<table, other, callVars>>

\* bind: text or blob, as iss says; a number or null alike.  After a step it
\* throws, for nothing resets the statement.
Bind(s, v) ==
  /\ call = "none" /\ stmt[s] = "ready"
  /\ bound' = [bound EXCEPT ![s] = v]
  /\ UNCHANGED <<table, other, callVars, stmt>>

\* step of a query: the row, then its end, then from the start again.  A step
\* that fails throws and ends the query.
StepQuery(s) ==
  /\ call = "none"
  /\ \/ /\ stmt[s] \in {"ready", "done"} /\ CanRead
        /\ stmt' = [stmt EXCEPT ![s] = IF table = NoRow THEN "done" ELSE "row"]
     \/ stmt[s] # "none" /\ stmt' = [stmt EXCEPT ![s] = "done"]
  /\ UNCHANGED <<table, other, callVars, bound>>

\* step of a write, which a second step does again; or it throws.
StepUpdate(s) ==
  /\ call = "none" /\ stmt[s] \in {"ready", "done"}
  /\ stmt' = [stmt EXCEPT ![s] = "done"]
  /\ \/ CanWrite /\ table' = bound[s]
     \/ UNCHANGED table
  /\ UNCHANGED <<other, callVars, bound>>

\* finalize, by itself or from ~STMT_.
Finalize(s) ==
  /\ call = "none" /\ stmt[s] # "none"
  /\ stmt' = [stmt EXCEPT ![s] = "none"]
  /\ UNCHANGED <<table, other, callVars, bound>>

-----------------------------------------------------------------------------
(* The other process *)

OtherReads ==
  /\ \/ other = "idle" /\ other' = "reading"
     \/ other = "reading" /\ other' = "idle"
  /\ UNCHANGED <<table, callVars, stmtVars>>

\* It begins to write, waits for the readers, or gives up.
OtherWrites ==
  /\ \/ other = "idle" /\ other' = "reserved"
     \/ other = "reserved" /\ other' = "pending"
     \/ other \in {"reserved", "pending"} /\ other' = "idle"
  /\ UNCHANGED <<table, callVars, stmtVars>>

\* It commits once nobody reads.
OtherCommits ==
  /\ other = "pending" /\ ~Holding
  /\ other' = "idle" /\ table' \in Table
  /\ UNCHANGED <<callVars, stmtVars>>

-----------------------------------------------------------------------------
Next ==
  \/ \E op \in QueryCalls \cup {"exec"} : Prepare(op)
  \/ ExecStep \/ ExecReturn \/ QueryStep \/ QueryReturn \/ Crash
  \/ \E s \in Stmts : New(s) \/ Finalize(s)
  \/ \E s \in Updates : StepUpdate(s) \/ \E v \in Column : Bind(s, v)
  \/ \E s \in Queries : StepQuery(s)
  \/ OtherReads \/ OtherWrites \/ OtherCommits

Spec == Init /\ [][Next]_vars

\* A call runs to its end.  The program, whatever it calls in between, steps a
\* query to its end, as the tests' while (stmt->step()) do, or drops it.  The
\* other process commits when it can.
Fairness ==
  /\ WF_vars(ExecStep \/ ExecReturn \/ QueryStep \/ QueryReturn \/ Crash)
  /\ \A s \in Queries : SF_vars(stmt[s] = "row" /\ (StepQuery(s) \/ Finalize(s)))
  /\ WF_vars(OtherCommits)

FairSpec == Spec /\ Fairness

-----------------------------------------------------------------------------
(* Properties *)

TypeOK ==
  /\ table \in Table
  /\ other \in {"idle", "reading", "reserved", "pending"}
  /\ call \in QueryCalls \cup {"none", "exec", "dead"}
  /\ tmp \in {"none", "ready", "row", "done", "failed"}
  /\ seen \in Column
  /\ took \in BOOLEAN
  /\ told \in Blobs \cup Numbers \cup {Cut, "ok", "error", "404"}
  /\ stmt \in [Stmts -> {"none", "ready", "row", "done"}]
  /\ \A s \in Updates : stmt[s] # "row"
  /\ bound \in [Stmts -> Column]

\* No call returns, by value or by a throw, with its statement still there: it
\* would hold the file's lock for the life of the connection.
NoStray == call \in {"none", "dead"} => tmp = "none"

\* What a call tells the program is so when it tells it: exec returns when, and
\* only when, its write was committed, and a query that does not throw answers from
\* a row that is still the one in the table, although another process writes.
\* The blob of a row that has one comes whole.
AnswersTrue ==
  [][/\ call = "exec" /\ call' = "none" => (told' = "ok" <=> took)
     /\ call \in QueryCalls /\ call' = "none" /\ told' # "404" =>
          /\ table # NoRow /\ told' = Answer(call, table)
          /\ call = "blobv" /\ table # Null => told' = table]_vars

\* Another process that waits to commit gets its turn, whatever this one queries
\* and however its queries end.
WriterGetsIn == other = "pending" ~> other # "pending"
=============================================================================
