-------------------------- MODULE SqliteStmtProof --------------------------
(***************************************************************************)
(* Proofs about SqliteStmt, for any blobs and any number of STMT_ objects   *)
(* of either kind.                                                         *)
(***************************************************************************)
EXTENDS SqliteStmt, TLAPS

\* A call under way stands where its kind can stand: only a query is on a row.
CallSteps ==
  /\ call \in {"none", "dead"} => tmp = "none"
  /\ call = "exec" => tmp \in {"ready", "done", "failed"}
  /\ call \in QueryCalls => tmp \in {"ready", "row", "done", "failed"}

\* What exec will say is what became of its write.
ExecKnows == call = "exec" => (tmp = "done" => took) /\ (tmp = "failed" => ~took)

\* Nobody commits while a call stands on a row: the table still has it.
RowCurrent == tmp = "row" => seen = table

StmtInv == TypeOK /\ CallSteps /\ ExecKnows /\ RowCurrent

LEMMA StmtSets ==
  /\ Updates \subseteq Stmts /\ Queries \subseteq Stmts /\ Queries \cap Updates = {}
  /\ Null \in Column /\ NoRow \in Table
BY StmtAssumption DEF Stmts, Column, Table

LEMMA StmtInit == Init => StmtInv
<1> SUFFICES ASSUME Init PROVE StmtInv
  OBVIOUS
<1>1. TypeOK
  BY StmtSets DEF Init, TypeOK
<1>2. CallSteps /\ ExecKnows /\ RowCurrent
  BY DEF Init, CallSteps, ExecKnows, RowCurrent, QueryCalls
<1> QED BY <1>1, <1>2 DEF StmtInv

\* What a query may be answered: a stringv of NULL is not.
LEMMA AnswerType ==
  ASSUME NEW v \in Column, NEW op \in QueryCalls, op = "stringv" => v # Null
  PROVE  Answer(op, v) \in Blobs \cup Numbers \cup {Cut}
BY StmtAssumption DEF Answer, QueryCalls, Text, Column

\* The calls of SQLite_.
LEMMA CallInv ==
  ASSUME StmtInv,
         \/ \E op \in QueryCalls \cup {"exec"} : Prepare(op)
         \/ ExecStep \/ ExecReturn \/ QueryStep \/ QueryReturn \/ Crash
  PROVE  StmtInv'
<1> USE DEF StmtInv, TypeOK, CallSteps, ExecKnows, RowCurrent, QueryCalls
<1>1. ASSUME NEW op \in QueryCalls \cup {"exec"}, Prepare(op) PROVE StmtInv'
  BY <1>1 DEF Prepare, stmtVars
<1>2. CASE ExecStep
  BY <1>2 DEF ExecStep, stmtVars
<1>3. CASE ExecReturn
  BY <1>3 DEF ExecReturn, stmtVars
<1>4. CASE QueryStep
  BY <1>4, StmtAssumption DEF QueryStep, stmtVars, Table, Column
<1>5. CASE QueryReturn
  <2>1. tmp = "row" => told' \in Blobs \cup Numbers \cup {Cut}
    BY <1>5, AnswerType DEF QueryReturn
  <2>2. tmp # "row" => told' = "404"
    BY <1>5 DEF QueryReturn
  <2> QED BY <1>5, <2>1, <2>2 DEF QueryReturn, stmtVars
<1>6. CASE Crash
  BY <1>6, StmtSets DEF Crash
<1> QED BY <1>1, <1>2, <1>3, <1>4, <1>5, <1>6

\* The STMT_ objects, whose methods run between the calls.
LEMMA ObjectInv ==
  ASSUME StmtInv,
         \/ \E s \in Stmts : New(s) \/ Finalize(s)
         \/ \E s \in Updates : StepUpdate(s) \/ \E v \in Column : Bind(s, v)
         \/ \E s \in Queries : StepQuery(s)
  PROVE  StmtInv'
<1> USE DEF StmtInv, TypeOK, CallSteps, ExecKnows, RowCurrent, callVars
<1>1. ASSUME NEW s \in Stmts, New(s) PROVE StmtInv'
  BY StmtSets, <1>1 DEF New
<1>2. ASSUME NEW s \in Stmts, Finalize(s) PROVE StmtInv'
  BY StmtSets, <1>2 DEF Finalize
<1>3. ASSUME NEW s \in Updates, StepUpdate(s) PROVE StmtInv'
  BY StmtSets, <1>3 DEF StepUpdate, Table
<1>4. ASSUME NEW s \in Updates, NEW v \in Column, Bind(s, v) PROVE StmtInv'
  BY StmtSets, <1>4 DEF Bind
<1>5. ASSUME NEW s \in Queries, StepQuery(s) PROVE StmtInv'
  BY StmtSets, <1>5 DEF StepQuery
<1> QED BY <1>1, <1>2, <1>3, <1>4, <1>5

\* The other process: it commits only when nobody here is on a row.
LEMMA OtherInv ==
  ASSUME StmtInv, OtherReads \/ OtherWrites \/ OtherCommits
  PROVE  StmtInv'
<1> USE DEF StmtInv, TypeOK, CallSteps, ExecKnows, RowCurrent, callVars, stmtVars
<1>1. CASE OtherReads
  BY <1>1 DEF OtherReads
<1>2. CASE OtherWrites
  BY <1>2 DEF OtherWrites
<1>3. CASE OtherCommits
  BY <1>3 DEF OtherCommits, Holding
<1> QED BY <1>1, <1>2, <1>3

LEMMA StmtStep == StmtInv /\ [Next]_vars => StmtInv'
<1> SUFFICES ASSUME StmtInv, [Next]_vars PROVE StmtInv'
  OBVIOUS
<1>1. CASE UNCHANGED vars
  BY <1>1 DEF vars, callVars, stmtVars, StmtInv, TypeOK, CallSteps, ExecKnows, RowCurrent
<1>2. CASE Next
  BY <1>2, CallInv, ObjectInv, OtherInv DEF Next
<1> QED BY <1>1, <1>2

LEMMA StmtInvariant == Spec => []StmtInv
BY StmtInit, StmtStep, PTL DEF Spec

\* Type correctness of the calls and statements; a statement that writes is never
\* on a row.
THEOREM StmtTypeCorrect == Spec => []TypeOK
<1>1. StmtInv => TypeOK
  BY DEF StmtInv
<1> QED BY <1>1, StmtInvariant, PTL

\* exec, intv, floatv, stringv and blobv finalize their statement on every way out,
\* the death of the process included.
THEOREM NoStrayAlways == Spec => []NoStray
<1>1. StmtInv => NoStray
  BY DEF StmtInv, CallSteps, NoStray
<1> QED BY <1>1, StmtInvariant, PTL

\* exec says what became of its write, and intv, floatv, stringv and blobv answer
\* from the row that is in the table when they return: the statement's lock keeps
\* the other process's commit away from the step to the return, and this process
\* is in the call.
THEOREM AnswersTrueAlways == Spec => AnswersTrue
<1> DEFINE True ==
      /\ call = "exec" /\ call' = "none" => (told' = "ok" <=> took)
      /\ call \in QueryCalls /\ call' = "none" /\ told' # "404" =>
           /\ table # NoRow /\ told' = Answer(call, table)
           /\ call = "blobv" /\ table # Null => told' = table
<1>1. ASSUME StmtInv, [Next]_vars PROVE True
  <2>1. CASE UNCHANGED call
    BY <2>1 DEF QueryCalls
  <2>2. CASE ExecReturn
    BY <1>1, <2>2 DEF ExecReturn, StmtInv, CallSteps, ExecKnows, QueryCalls
  <2>3. CASE QueryReturn
    <3>1. /\ call \in QueryCalls
          /\ told' # "404" => tmp = "row" /\ told' = Answer(call, seen)
      BY <2>3 DEF QueryReturn
    <3>2. tmp = "row" => seen = table /\ table # NoRow
      BY <1>1, StmtAssumption DEF StmtInv, TypeOK, RowCurrent, Column
    <3>3. call = "blobv" /\ table # Null => Answer(call, table) = table
      BY DEF Answer
    <3>4. told' # "404" => table # NoRow /\ told' = Answer(call, table)
      BY <3>1, <3>2
    <3>5. call # "exec"
      BY <3>1 DEF QueryCalls
    <3> HIDE DEF QueryCalls
    <3> QED BY <3>3, <3>4, <3>5
  <2>4. CASE call = "none" \/ call' = "dead"
    BY <2>4 DEF QueryCalls
  <2>5. UNCHANGED call \/ ExecReturn \/ QueryReturn \/ call = "none" \/ call' = "dead"
    BY <1>1 DEF Next, vars, callVars, Prepare, ExecStep, QueryStep, Crash, New, Finalize,
       StepUpdate, Bind, StepQuery, OtherReads, OtherWrites, OtherCommits
  <2> QED BY <2>1, <2>2, <2>3, <2>4, <2>5
<1> HIDE DEF True
<1>2. StmtInv /\ [Next]_vars => [True]_vars
  BY <1>1
<1>3. [][Next]_vars /\ []StmtInv => [][True]_vars
  BY <1>2, PTL
<1> QED BY <1>3, StmtInvariant, PTL DEF Spec, AnswersTrue, True
=============================================================================
