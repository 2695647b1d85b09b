---------------------------- MODULE SqliteInit ----------------------------
(***************************************************************************)
(* SQLite_::init of tools/sqlite.cpp, run by processes that share one       *)
(* database file.  Each statement is a transaction of its own, so a process *)
(* that dies or throws between two leaves those before in the file.         *)
(***************************************************************************)
EXTENDS Naturals

CONSTANTS
  Procs,     \* processes that open the file
  Versions,  \* values of cver
  Tables     \* number of statements of vsql[0], each a "create table"

ASSUME SqliteAssumption == Versions \subseteq Nat /\ Tables \in Nat

VARIABLES
  env,    \* in the file, _env_: "none", "table" (no version row), "row"
  ver,    \* the version row's value
  tables, \* the statements of vsql[0] whose table exists
  pc,     \* per process: "down", the step init() is at, "done" or "threw"
  cver,   \* per process: SQLite_::cver
  stmt    \* per process: the statement of vsql[0] that comes next

vars == <<env, ver, tables, pc, cver, stmt>>

Init ==
  /\ env = "none" /\ ver = 0 /\ tables = {}
  /\ pc = [p \in Procs |-> "down"]
  /\ cver \in [Procs -> Versions]
  /\ stmt = [p \in Procs |-> 1]

Go(p, from, to) == pc[p] = from /\ pc' = [pc EXCEPT ![p] = to]
InInit == {"version", "create", "insert", "script"}

\* A process starts, of this build or of another, and init() opens the file.
Start(p) ==
  /\ Go(p, "down", "version")
  /\ cver' \in {[cver EXCEPT ![p] = v] : v \in Versions}
  /\ stmt' = [stmt EXCEPT ![p] = 1]
  /\ UNCHANGED <<env, ver, tables>>

\* Mutant: a database without its version row is waited for.
VersionWaits(p) ==
  /\ \/ env = "none" /\ Go(p, "version", "create")
     \/ env = "table" /\ Go(p, "version", "version")
     \/ env = "row" /\ Go(p, "version", IF ver = 0 THEN "script" ELSE "done")
  /\ UNCHANGED <<env, ver, tables, cver, stmt>>

\* SQLite_::version, the query: no table _env_ leads to VER_SQL, a version other
\* than 0 is the end of init().
Version(p) ==
  /\ \/ env = "none" /\ Go(p, "version", "create")
     \/ env = "table" /\ Go(p, "version", "threw")
     \/ env = "row" /\ Go(p, "version", IF ver = 0 THEN "script" ELSE "done")
  /\ UNCHANGED <<env, ver, tables, cver, stmt>>

\* Mutant: create table if not exists _env_.
CreateEnvIfNotExists(p) ==
  /\ Go(p, "create", "insert")
  /\ env' = IF env = "none" THEN "table" ELSE env
  /\ UNCHANGED <<ver, tables, cver, stmt>>

\* Mutant: drop table if exists _env_, then create it.
CreateEnvAnew(p) ==
  /\ Go(p, "create", "insert")
  /\ env' = "table"
  /\ UNCHANGED <<ver, tables, cver, stmt>>

\* The two statements of VER_SQL, through execscript.
CreateEnv(p) ==
  /\ IF env = "none" THEN Go(p, "create", "insert") /\ env' = "table"
                     ELSE Go(p, "create", "threw") /\ UNCHANGED env
  /\ UNCHANGED <<ver, tables, cver, stmt>>

InsertVersion(p) ==
  /\ IF env = "table" THEN Go(p, "insert", "script") /\ env' = "row" /\ ver' = cver[p]
                      ELSE Go(p, "insert", "threw") /\ UNCHANGED <<env, ver>>
  /\ UNCHANGED <<tables, cver, stmt>>

\* Mutant: the loop over the script runs once too often.
ScriptOnceMore(p) ==
  /\ IF stmt[p] > Tables + 1 THEN Go(p, "script", "done") /\ UNCHANGED <<tables, stmt>>
     ELSE /\ Go(p, "script", "script")
          /\ tables' = tables \cup {stmt[p]}
          /\ stmt' = [stmt EXCEPT ![p] = @ + 1]
  /\ UNCHANGED <<env, ver, cver>>

\* Mutant: the script goes on after a statement that failed.
ScriptGoesOn(p) ==
  /\ IF stmt[p] > Tables THEN Go(p, "script", "done") /\ UNCHANGED <<tables, stmt>>
     ELSE /\ Go(p, "script", "script")
          /\ tables' \in {tables, tables \cup {stmt[p]}}
          /\ stmt' = [stmt EXCEPT ![p] = @ + 1]
  /\ UNCHANGED <<env, ver, cver>>

\* execscript(vsql[0]), a statement at a time.
Script(p) ==
  /\ IF stmt[p] > Tables
     THEN Go(p, "script", "done") /\ UNCHANGED <<tables, stmt>>
     ELSE IF stmt[p] \in tables
     THEN Go(p, "script", "threw") /\ UNCHANGED <<tables, stmt>>
     ELSE /\ Go(p, "script", "script")
          /\ tables' = tables \cup {stmt[p]}
          /\ stmt' = [stmt EXCEPT ![p] = @ + 1]
  /\ UNCHANGED <<env, ver, cver>>

\* Any statement may fail instead: SQLITE_BUSY for another process's
\* transaction, SQLITE_FULL, SQLITE_IOERR.  init() throws.
Throw(p) ==
  /\ pc[p] \in InInit
  /\ pc' = [pc EXCEPT ![p] = "threw"]
  /\ UNCHANGED <<env, ver, tables, cver, stmt>>

\* The process ends, at the latest point or at the worst.
Exit(p) ==
  /\ pc[p] # "down"
  /\ pc' = [pc EXCEPT ![p] = "down"]
  /\ UNCHANGED <<env, ver, tables, cver, stmt>>

Step(p) == Version(p) \/ CreateEnv(p) \/ InsertVersion(p) \/ Script(p)
Next == \E p \in Procs : Start(p) \/ Step(p) \/ Throw(p) \/ Exit(p)

Spec == Init /\ [][Next]_vars
FairSpec == Spec /\ \A p \in Procs : WF_vars(Step(p))

-----------------------------------------------------------------------------
TypeOK ==
  /\ env \in {"none", "table", "row"} /\ ver \in Nat /\ tables \subseteq 1..Tables
  /\ pc \in [Procs -> InInit \cup {"down", "done", "threw"}]
  /\ cver \in [Procs -> Versions] /\ stmt \in [Procs -> 1..(Tables + 1)]

\* "create table _env_" elects one process: two never run the schema script,
\* nor the rest of VER_SQL, against each other, however they raced to it.
OneScripter ==
  \A p, q \in Procs : pc[p] \in {"insert", "script"} /\ pc[q] \in {"insert", "script"} => p = q

\* The script's tables appear in its order, without a gap, whatever was cut.
TablesPrefix == \A i \in tables : \A j \in 1..i : j \in tables

\* What a process finds in the file.
Effects ==
  {s \in 1..(Tables + 2) : CASE s = 1 -> env # "none" [] s = 2 -> env = "row" [] OTHER -> s - 2 \in tables}

File == INSTANCE SchemaFile WITH effects <- Effects

\* Racing, failing and dying processes of several versions, init()'s whole
\* protocol, write the file as one process of one version does that runs the script
\* once: no statement is lost, done twice or out of order, and no version changes.
FileSpec == File!Spec

\* init() ends: it returns or throws.
InitEnds == \A p \in Procs : (pc[p] \in InInit) ~> (pc[p] \notin InInit)

\* "select count(*) from xxx" after init() (sqlite_test.hpp): the schema is
\* there when init() has returned.
SchemaReady == \A p \in Procs : pc[p] = "done" => tables = 1..Tables
=============================================================================
