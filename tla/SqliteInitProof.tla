-------------------------- MODULE SqliteInitProof ---------------------------
(***************************************************************************)
(* Proofs about SqliteInit, for any number of processes, versions and       *)
(* statements.                                                             *)
(***************************************************************************)
EXTENDS SqliteInit, TLAPS

Running(p) == pc[p] \in {"insert", "script"}

\* Who has created _env_ is the only one between there and the script's end, and
\* no other process can take its place: the table, then a version, is there.
Elected ==
  /\ env = "none" => \A p \in Procs : ~Running(p)
  /\ env = "row" => ver # 0
  /\ OneScripter

InitInv == TypeOK /\ Elected

LEMMA ScriptType ==
  ASSUME TypeOK, NEW p \in Procs, Script(p)
  PROVE  TypeOK'
<1> USE DEF TypeOK
<1>1. stmt[p] \in 1..(Tables + 1) /\ Tables \in Nat
  BY SqliteAssumption
<1>2. pc' \in [Procs -> InInit \cup {"down", "done", "threw"}]
  <2>1. PICK to \in {"done", "threw", "script"} : pc' = [pc EXCEPT ![p] = to]
    BY DEF Script, Go
  <2>2. to \in InInit \cup {"down", "done", "threw"}
    BY DEF InInit
  <2> QED BY <2>1, <2>2
<1>3. \/ UNCHANGED <<tables, stmt>>
      \/ /\ stmt[p] \in 1..Tables
         /\ tables' = tables \cup {stmt[p]}
         /\ stmt' = [stmt EXCEPT ![p] = stmt[p] + 1]
  BY <1>1 DEF Script
<1>4. tables' \subseteq 1..Tables
  BY <1>3
<1>5. stmt' \in [Procs -> 1..(Tables + 1)]
  BY <1>1, <1>3
<1>6. UNCHANGED <<env, ver, cver>>
  BY DEF Script
<1> QED BY <1>2, <1>4, <1>5, <1>6

LEMMA InitType ==
  ASSUME TypeOK, [Next]_vars
  PROVE  TypeOK'
<1> USE DEF TypeOK, InInit, Go
<1>1. ASSUME NEW p \in Procs, Start(p) PROVE TypeOK'
  BY <1>1, SqliteAssumption DEF Start
<1>2. ASSUME NEW p \in Procs, Version(p) PROVE TypeOK'
  BY <1>2 DEF Version
<1>3. ASSUME NEW p \in Procs, CreateEnv(p) PROVE TypeOK'
  BY <1>3 DEF CreateEnv
<1>4. ASSUME NEW p \in Procs, InsertVersion(p) PROVE TypeOK'
  BY <1>4, SqliteAssumption DEF InsertVersion
<1>5. ASSUME NEW p \in Procs, Script(p) PROVE TypeOK'
  BY <1>5, ScriptType
<1>6. ASSUME NEW p \in Procs, Throw(p) PROVE TypeOK'
  BY <1>6 DEF Throw
<1>7. ASSUME NEW p \in Procs, Exit(p) PROVE TypeOK'
  BY <1>7 DEF Exit
<1>8. CASE UNCHANGED vars
  BY <1>8 DEF vars
<1> QED BY <1>1, <1>2, <1>3, <1>4, <1>5, <1>6, <1>7, <1>8 DEF Next, Step

\* Type correctness, with a script that is never run beyond its end.
THEOREM InitTypeCorrect == Spec => []TypeOK
<1>1. Init => TypeOK
  BY SqliteAssumption DEF Init, TypeOK
<1>2. TypeOK /\ [Next]_vars => TypeOK'
  BY InitType
<1> QED BY <1>1, <1>2, PTL DEF Spec

\* SQLite_::version of a database that has a version row.
VersionStays == [][env = "row" => env' = "row" /\ ver' = ver]_vars

\* The version row of a database, once it is there, is changed by no process of any
\* version, wherever it dies or fails.
THEOREM VersionWrittenOnce == Spec => VersionStays
<1>1. [Next]_vars => (env = "row" => env' = "row" /\ ver' = ver)
  <2> SUFFICES ASSUME [Next]_vars, env = "row" PROVE env' = "row" /\ ver' = ver
    OBVIOUS
  <2>1. ASSUME NEW p \in Procs, Start(p) \/ Step(p) \/ Throw(p) \/ Exit(p)
        PROVE  env' = "row" /\ ver' = ver
    BY <2>1 DEF Start, Step, Version, CreateEnv, InsertVersion, Script, Throw, Exit
  <2>2. CASE UNCHANGED vars
    BY <2>2 DEF vars
  <2> QED BY <2>1, <2>2 DEF Next
<1> QED BY <1>1, PTL DEF Spec, VersionStays, vars

LEMMA ElectedStep ==
  ASSUME 0 \notin Versions, InitInv, [Next]_vars
  PROVE  Elected'
<1> USE DEF InitInv, TypeOK, Elected, OneScripter, Running, Go
<1>1. ASSUME NEW p \in Procs, Start(p) PROVE Elected'
  BY <1>1 DEF Start
<1>2. ASSUME NEW p \in Procs, Version(p) PROVE Elected'
  BY <1>2 DEF Version
<1>3. ASSUME NEW p \in Procs, CreateEnv(p) PROVE Elected'
  BY <1>3 DEF CreateEnv
<1>4. ASSUME NEW p \in Procs, InsertVersion(p) PROVE Elected'
  BY <1>4 DEF InsertVersion
<1>5. ASSUME NEW p \in Procs, Script(p) PROVE Elected'
  BY <1>5 DEF Script
<1>6. ASSUME NEW p \in Procs, Throw(p) PROVE Elected'
  BY <1>6 DEF Throw
<1>7. ASSUME NEW p \in Procs, Exit(p) PROVE Elected'
  BY <1>7 DEF Exit
<1>8. CASE UNCHANGED vars
  BY <1>8 DEF vars
<1> QED BY <1>1, <1>2, <1>3, <1>4, <1>5, <1>6, <1>7, <1>8 DEF Next, Step

\* Of any number of processes that open one new file, and die or fail at any
\* statement, at most one at a time runs the rest of VER_SQL or the schema script,
\* as long as no build has version 0, which stands for a new file.
THEOREM ScriptedOnce ==
  ASSUME 0 \notin Versions
  PROVE  Spec => []OneScripter
<1>1. Init => InitInv
  BY SqliteAssumption DEF Init, InitInv, TypeOK, Elected, OneScripter, Running
<1>2. InitInv /\ [Next]_vars => InitInv'
  BY InitType, ElectedStep DEF InitInv
<1>3. InitInv => OneScripter
  BY DEF InitInv, Elected
<1> QED BY <1>1, <1>2, <1>3, PTL DEF Spec

\* Who runs the script starts at its first statement and finds its own behind it.
Behind ==
  \A p \in Procs :
    /\ pc[p] \in {"version", "create", "insert"} => stmt[p] = 1
    /\ pc[p] = "script" => 1..(stmt[p] - 1) \subseteq tables

LEMMA ScriptPrefixStep ==
  ASSUME TypeOK, Behind, TablesPrefix, NEW p \in Procs, Script(p)
  PROVE  Behind' /\ TablesPrefix'
<1> USE DEF TypeOK, Behind, TablesPrefix
<1>1. stmt[p] \in 1..(Tables + 1) /\ Tables \in Nat /\ 1..(stmt[p] - 1) \subseteq tables
  BY SqliteAssumption DEF Script, Go
<1>2. \A q \in Procs : q # p => pc'[q] = pc[q] /\ stmt'[q] = stmt[q]
  BY DEF Script, Go
<1>3. CASE UNCHANGED <<tables, stmt>>
  <2>1. pc'[p] \in {"done", "threw"}
    BY <1>1, <1>3 DEF Script, Go
  <2> QED BY <1>2, <1>3, <2>1
<1>4. CASE /\ tables' = tables \cup {stmt[p]} /\ pc'[p] = "script"
           /\ stmt'[p] = stmt[p] + 1
  <2>1. \A j \in 1..(stmt'[p] - 1) : j \in 1..(stmt[p] - 1) \/ j = stmt[p]
    BY <1>1, <1>4
  <2>2. TablesPrefix'
    BY <1>1, <1>4
  <2>3. Behind'
    BY <1>1, <1>2, <1>4, <2>1
  <2> QED BY <2>2, <2>3
<1> QED BY <1>3, <1>4 DEF Script, Go

LEMMA PrefixStep ==
  ASSUME TypeOK, Behind, TablesPrefix, [Next]_vars
  PROVE  Behind' /\ TablesPrefix'
<1> USE DEF TypeOK, Behind, TablesPrefix, Go
<1>1. ASSUME NEW p \in Procs, Start(p) PROVE Behind' /\ TablesPrefix'
  BY <1>1 DEF Start
<1>2. ASSUME NEW p \in Procs, Version(p) PROVE Behind' /\ TablesPrefix'
  BY <1>2 DEF Version
<1>3. ASSUME NEW p \in Procs, CreateEnv(p) PROVE Behind' /\ TablesPrefix'
  BY <1>3 DEF CreateEnv
<1>4. ASSUME NEW p \in Procs, InsertVersion(p) PROVE Behind' /\ TablesPrefix'
  BY <1>4 DEF InsertVersion
<1>5. ASSUME NEW p \in Procs, Script(p) PROVE Behind' /\ TablesPrefix'
  BY <1>5, ScriptPrefixStep
<1>6. ASSUME NEW p \in Procs, Throw(p) PROVE Behind' /\ TablesPrefix'
  BY <1>6 DEF Throw
<1>7. ASSUME NEW p \in Procs, Exit(p) PROVE Behind' /\ TablesPrefix'
  BY <1>7 DEF Exit
<1>8. CASE UNCHANGED vars
  BY <1>8 DEF vars
<1> QED BY <1>1, <1>2, <1>3, <1>4, <1>5, <1>6, <1>7, <1>8 DEF Next, Step

\* The schema script is cut at most at its end: whoever dies or fails in it,
\* however often it is run, no table is there without those before it.
THEOREM ScriptPrefix == Spec => []TablesPrefix
<1>1. Init => TypeOK /\ Behind /\ TablesPrefix
  BY SqliteAssumption DEF Init, TypeOK, Behind, TablesPrefix
<1>2. TypeOK /\ [Next]_vars => TypeOK'
  BY InitType
<1>3. TypeOK /\ Behind /\ TablesPrefix /\ [Next]_vars => Behind' /\ TablesPrefix'
  BY PrefixStep
<1> QED BY <1>1, <1>2, <1>3, PTL DEF Spec

\* An init() that ends in the script's loop leaves the whole schema, whatever was
\* there before it: SchemaReady fails only for who finds a version and runs none.
THEOREM ScripterReady ==
  Spec => [][\A p \in Procs : Script(p) /\ pc'[p] = "done" => tables' = 1..Tables]_vars
<1>1. Init => TypeOK /\ Behind /\ TablesPrefix
  BY SqliteAssumption DEF Init, TypeOK, Behind, TablesPrefix
<1>2. TypeOK /\ [Next]_vars => TypeOK'
  BY InitType
<1>3. TypeOK /\ Behind /\ TablesPrefix /\ [Next]_vars => Behind' /\ TablesPrefix'
  BY PrefixStep
<1>4. ASSUME TypeOK, Behind, NEW p \in Procs, Script(p), pc'[p] = "done"
      PROVE  tables' = 1..Tables
  <2>1. stmt[p] > Tables /\ UNCHANGED tables /\ pc[p] = "script"
    <3>1. pc[p] = "script" /\ p \in DOMAIN pc /\ "script" # "done" /\ "threw" # "done"
      BY <1>4 DEF Script, Go, TypeOK
    <3>2. ~(pc' = [pc EXCEPT ![p] = "threw"]) /\ ~(pc' = [pc EXCEPT ![p] = "script"])
      BY <1>4, <3>1
    <3> QED BY <1>4, <3>1, <3>2 DEF Script, Go
  <2>2. 1..(stmt[p] - 1) \subseteq tables /\ tables \subseteq 1..Tables
    BY <1>4, <2>1 DEF Behind, TypeOK
  <2>3. stmt[p] \in 1..(Tables + 1) /\ Tables \in Nat
    BY <1>4, SqliteAssumption DEF TypeOK
  <2>4. stmt[p] - 1 = Tables
    BY <2>1, <2>3
  <2> QED BY <2>1, <2>2, <2>4
<1>5. TypeOK /\ Behind /\ [Next]_vars =>
        [\A p \in Procs : Script(p) /\ pc'[p] = "done" => tables' = 1..Tables]_vars
  BY <1>4
<1> QED BY <1>1, <1>2, <1>3, <1>5, PTL DEF Spec

-----------------------------------------------------------------------------
(* The file as SchemaFile has it.  The tables are a prefix of the script, and   *)
(* they are there only when the version is.                                     *)

RowFirst ==
  /\ \A p \in Procs : pc[p] = "script" => env = "row"
  /\ tables # {} => env = "row"

FileInv == TypeOK /\ Behind /\ TablesPrefix /\ RowFirst

LEMMA RowFirstStep ==
  ASSUME TypeOK, RowFirst, [Next]_vars
  PROVE  RowFirst'
<1> USE DEF TypeOK, RowFirst, Go
<1>1. ASSUME NEW p \in Procs, Start(p) PROVE RowFirst'
  BY <1>1 DEF Start
<1>2. ASSUME NEW p \in Procs, Version(p) PROVE RowFirst'
  BY <1>2 DEF Version
<1>3. ASSUME NEW p \in Procs, CreateEnv(p) PROVE RowFirst'
  BY <1>3 DEF CreateEnv
<1>4. ASSUME NEW p \in Procs, InsertVersion(p) PROVE RowFirst'
  BY <1>4 DEF InsertVersion
<1>5. ASSUME NEW p \in Procs, Script(p) PROVE RowFirst'
  BY <1>5 DEF Script
<1>6. ASSUME NEW p \in Procs, Throw(p) PROVE RowFirst'
  BY <1>6 DEF Throw
<1>7. ASSUME NEW p \in Procs, Exit(p) PROVE RowFirst'
  BY <1>7 DEF Exit
<1>8. CASE UNCHANGED vars
  BY <1>8 DEF vars
<1> QED BY <1>1, <1>2, <1>3, <1>4, <1>5, <1>6, <1>7, <1>8 DEF Next, Step

\* A step that leaves the file alone.
LEMMA SameFile == UNCHANGED <<env, ver, tables>> => UNCHANGED File!fileVars
BY DEF File!fileVars, Effects

\* The effects of a script that stands before statement t of vsql[0].
LEMMA ScriptEffects ==
  ASSUME NEW t \in 1..(Tables + 1), env = "row", tables = 1..(t - 1)
  PROVE  Effects = 1..(t + 1)
<1>1. Tables \in Nat
  BY SqliteAssumption
<1>2. ASSUME NEW s \in 1..(Tables + 2) PROVE s \in Effects <=> s \in 1..(t + 1)
  <2>1. CASE s \in {1, 2}
    BY <1>1, <2>1 DEF Effects
  <2>2. CASE s \notin {1, 2}
    <3>1. s \in Effects <=> s - 2 \in 1..(t - 1)
      BY <2>2 DEF Effects
    <3> QED BY <1>1, <2>2, <3>1
  <2> QED BY <2>1, <2>2
<1>3. Effects \subseteq 1..(Tables + 2) /\ 1..(t + 1) \subseteq 1..(Tables + 2)
  BY <1>1 DEF Effects
<1> QED BY <1>2, <1>3

LEMMA FileStep ==
  ASSUME FileInv, [Next]_vars
  PROVE  [File!Statement]_(File!fileVars)
<1>1. ASSUME NEW p \in Procs, Start(p) \/ Version(p) \/ Throw(p) \/ Exit(p)
      PROVE  UNCHANGED <<env, ver, tables>>
  BY <1>1 DEF Start, Version, Throw, Exit
<1>2. ASSUME NEW p \in Procs, CreateEnv(p), env = "none" PROVE File!Statement
  <2>1. env' = "table" /\ UNCHANGED <<ver, tables>> /\ tables = {} /\ Tables \in Nat
    BY <1>2, SqliteAssumption DEF CreateEnv, FileInv, RowFirst
  <2>2. Effects = 1..0 /\ Effects' = 1..(0 + 1)
    BY <1>2, <2>1 DEF Effects
  <2>3. 0 \in 0..(Tables + 1)
    BY <2>1
  <2> QED BY <2>1, <2>2, <2>3 DEF File!Statement
<1>3. ASSUME NEW p \in Procs, InsertVersion(p), env = "table" PROVE File!Statement
  <2>1. env' = "row" /\ UNCHANGED tables /\ ver' \in Versions /\ tables = {} /\ Tables \in Nat
    BY <1>3, SqliteAssumption DEF InsertVersion, FileInv, RowFirst, TypeOK
  <2>2. Effects = 1..1 /\ Effects' = 1..(1 + 1)
    BY <1>3, <2>1 DEF Effects
  <2>3. 1 \in 0..(Tables + 1)
    BY <2>1
  <2> QED BY <2>1, <2>2, <2>3 DEF File!Statement
<1>4. ASSUME NEW p \in Procs, Script(p), tables' # tables PROVE File!Statement
  <2> DEFINE t == stmt[p]
  <2>1. /\ pc[p] = "script" /\ t \in 1..Tables /\ t \notin tables /\ tables' = tables \cup {t}
        /\ UNCHANGED <<env, ver>> /\ Tables \in Nat
    BY <1>4, SqliteAssumption DEF Script, Go, FileInv, TypeOK
  <2>2. env = "row" /\ 1..(t - 1) \subseteq tables /\ tables \subseteq 1..Tables
    BY <2>1 DEF FileInv, RowFirst, Behind, TypeOK
  <2>3. \A i \in tables : \A j \in 1..i : j \in tables
    BY DEF FileInv, TablesPrefix
  <2> HIDE DEF t
  <2>4. tables = 1..(t - 1)
    <3>1. ASSUME NEW i \in tables PROVE i \in 1..(t - 1)
      <4>1. ~(t \in 1..i)
        BY <2>1, <2>3
      <4> QED BY <2>1, <2>2, <4>1
    <3> QED BY <2>2, <3>1
  <2>5. Effects = 1..(t + 1)
    <3>1. t \in 1..(Tables + 1)
      BY <2>1
    <3> QED BY <2>2, <2>4, <3>1, ScriptEffects
  <2>6. Effects' = 1..(t + 1 + 1)
    <3>1. tables' = 1..t
      BY <2>1, <2>4
    <3>2. ASSUME NEW s \in 1..(Tables + 2) PROVE s \in Effects' <=> s \in 1..(t + 1 + 1)
      <4>1. CASE s \in {1, 2}
        BY <2>1, <2>2, <4>1 DEF Effects
      <4>2. CASE s \notin {1, 2}
        <5>1. s \in Effects' <=> s - 2 \in 1..t
          BY <3>1, <4>2 DEF Effects
        <5> QED BY <2>1, <4>2, <5>1
      <4> QED BY <4>1, <4>2
    <3>3. Effects' \subseteq 1..(Tables + 2) /\ 1..(t + 1 + 1) \subseteq 1..(Tables + 2)
      BY <2>1 DEF Effects
    <3> QED BY <3>2, <3>3
  <2>7. t + 1 \in 0..(Tables + 1) /\ t + 1 # 1
    BY <2>1
  <2> QED BY <2>1, <2>5, <2>6, <2>7 DEF File!Statement
<1>5. ASSUME NEW p \in Procs, CreateEnv(p) \/ InsertVersion(p) \/ Script(p)
      PROVE  File!Statement \/ UNCHANGED <<env, ver, tables>>
  BY <1>2, <1>3, <1>4, <1>5 DEF CreateEnv, InsertVersion, Script
<1>6. CASE UNCHANGED vars
  BY <1>6, SameFile DEF vars
<1> QED BY <1>1, <1>5, <1>6, SameFile DEF Next, Step

\* Any number of racing, failing and dying processes of any versions write the file
\* as one process of one version does that runs VER_SQL and the script once.
THEOREM ImplementsFile == Spec => FileSpec
<1>1. Init => FileInv
  BY SqliteAssumption DEF Init, FileInv, TypeOK, Behind, TablesPrefix, RowFirst
<1>2. FileInv /\ [Next]_vars => FileInv'
  BY InitType, PrefixStep, RowFirstStep DEF FileInv
<1>3. Init => File!Init
  BY DEF Init, File!Init, Effects
<1>4. FileInv /\ [Next]_vars => [File!Statement]_(File!fileVars)
  BY FileStep
<1> QED BY <1>1, <1>2, <1>3, <1>4, PTL DEF Spec, FileSpec, File!Spec

-----------------------------------------------------------------------------
(* Why init() ends, but for the fairness: what it may still do shrinks with each *)
(* of its steps, and nothing that other processes do adds to it.                 *)

StepsLeft(p) ==
  CASE pc[p] = "version" -> Tables + 5
    [] pc[p] = "create" -> Tables + 4
    [] pc[p] = "insert" -> Tables + 3
    [] pc[p] = "script" -> Tables + 2 - stmt[p]
    [] OTHER -> 0

\* init() takes at most Tables + 5 statements, whatever the version it finds and
\* whoever races it: no step of its own leaves as many to come, no other's step
\* more.
THEOREM InitDescends ==
  Spec => [][\A p \in Procs : pc[p] \in InInit =>
               /\ StepsLeft(p) \in Nat /\ StepsLeft(p)' \in Nat
               /\ StepsLeft(p)' <= StepsLeft(p)
               /\ Step(p) => StepsLeft(p)' < StepsLeft(p)]_vars
<1>1. ASSUME TypeOK, TypeOK', Behind, Next, NEW p \in Procs, pc[p] \in InInit
      PROVE  /\ StepsLeft(p) \in Nat /\ StepsLeft(p)' \in Nat
             /\ StepsLeft(p)' <= StepsLeft(p)
             /\ Step(p) => StepsLeft(p)' < StepsLeft(p)
  <2>1. /\ Tables \in Nat /\ stmt[p] \in 1..(Tables + 1) /\ stmt'[p] \in 1..(Tables + 1)
        /\ pc \in [Procs -> InInit \cup {"down", "done", "threw"}]
        /\ pc[p] \in {"version", "create", "insert"} => stmt[p] = 1
    BY <1>1, SqliteAssumption DEF TypeOK, Behind
  <2>2. StepsLeft(p) \in Nat \ {0} /\ StepsLeft(p)' \in Nat
    BY <1>1, <2>1 DEF StepsLeft, InInit
  <2>3. CASE Step(p)
    <3>1. CASE Version(p)
      BY <1>1, <2>1, <3>1 DEF Version, Go, StepsLeft
    <3>2. CASE CreateEnv(p)
      BY <1>1, <2>1, <3>2 DEF CreateEnv, Go, StepsLeft
    <3>3. CASE InsertVersion(p)
      BY <1>1, <2>1, <3>3 DEF InsertVersion, Go, StepsLeft
    <3>4. CASE Script(p)
      <4>1. \/ pc'[p] \in {"done", "threw"}
            \/ pc'[p] = "script" /\ stmt'[p] = stmt[p] + 1
        BY <1>1, <2>1, <3>4 DEF Script, Go, TypeOK
      <4>2. pc[p] = "script"
        BY <3>4 DEF Script, Go
      <4> QED BY <2>1, <4>1, <4>2 DEF StepsLeft
    <3>5. StepsLeft(p)' < StepsLeft(p)
      BY <2>3, <3>1, <3>2, <3>3, <3>4 DEF Step
    <3> QED BY <2>2, <3>5
  <2>4. CASE Throw(p) \/ Exit(p)
    <3>1. pc'[p] \in {"threw", "down"}
      BY <2>1, <2>4 DEF Throw, Exit
    <3>2. StepsLeft(p)' = 0
      BY <3>1 DEF StepsLeft
    <3> QED BY <2>2, <3>2
  <2>5. CASE pc'[p] = pc[p] /\ stmt'[p] = stmt[p]
    BY <2>2, <2>3, <2>5 DEF StepsLeft
  <2>6. ASSUME NEW q \in Procs, q # p, Start(q) \/ Step(q) \/ Throw(q) \/ Exit(q)
        PROVE  pc'[p] = pc[p] /\ stmt'[p] = stmt[p]
    BY <1>1, <2>6 DEF TypeOK, Start, Step, Version, CreateEnv, InsertVersion, Script, Throw, Exit, Go
  <2>7. ~Start(p)
    BY <1>1 DEF Start, Go, InInit
  <2> QED BY <1>1, <2>3, <2>4, <2>5, <2>6, <2>7 DEF Next
<1>2. Init => TypeOK /\ Behind /\ TablesPrefix
  BY SqliteAssumption DEF Init, TypeOK, Behind, TablesPrefix
<1>3. TypeOK /\ [Next]_vars => TypeOK'
  BY InitType
<1>4. TypeOK /\ Behind /\ TablesPrefix /\ [Next]_vars => Behind' /\ TablesPrefix'
  BY PrefixStep
<1>5. TypeOK /\ TypeOK' /\ Behind /\ [Next]_vars =>
        [\A p \in Procs : pc[p] \in InInit =>
               /\ StepsLeft(p) \in Nat /\ StepsLeft(p)' \in Nat
               /\ StepsLeft(p)' <= StepsLeft(p)
               /\ Step(p) => StepsLeft(p)' < StepsLeft(p)]_vars
  BY <1>1
<1> QED BY <1>2, <1>3, <1>4, <1>5, PTL DEF Spec
=============================================================================
