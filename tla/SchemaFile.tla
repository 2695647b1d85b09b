---------------------------- MODULE SchemaFile ----------------------------
(***************************************************************************)
(* What the processes that open one database file promise of it together:   *)
(* it is, at every moment, as one process of one version leaves it that runs *)
(* VER_SQL and the schema script once, and may have stopped anywhere.        *)
(***************************************************************************)
EXTENDS Naturals

CONSTANTS Versions, Tables   \* as in SqliteInit

VARIABLES
  effects,  \* the statements whose effect is in the file: 1 and 2 are those of
            \* VER_SQL, the others vsql[0]'s
  ver       \* the version row's value, 0 when there is none

fileVars == <<effects, ver>>

Init == effects = {} /\ ver = 0

\* The next statement of the script, of which the second writes the version.
Statement ==
  \E n \in 0..(Tables + 1) :
    /\ effects = 1..n /\ effects' = 1..(n + 1)
    /\ IF n = 1 THEN ver' \in Versions ELSE UNCHANGED ver

Spec == Init /\ [][Statement]_fileVars
=============================================================================
