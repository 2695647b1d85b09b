--------------------------- MODULE MCSqliteStmt ---------------------------
(* The instance of SqliteStmt for TLC: an empty blob, and one that reads as *)
(* the number before its zero byte.                                       *)
EXTENDS SqliteStmt

CONSTANTS e, b, zero, one

MCWhole == [v \in {e, b, Null} |-> IF v = b THEN one ELSE zero]
=============================================================================
