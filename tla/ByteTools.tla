----------------------------- MODULE ByteTools -----------------------------
(***************************************************************************)
(* The algorithms of tools/data.cpp and log/log.c that keep no state: how   *)
(* Data_ objects compare, and how the format of a log line is laid out.      *)
(* A Data_ is the sequence of its chars, which are numbers, signed or not   *)
(* as the platform has it.                                                  *)
(***************************************************************************)
EXTENDS Integers, Sequences, FiniteSets

\* Where two sequences of one length differ.
Differ(a, b) == {i \in 1..Len(a) : a[i] # b[i]}

\* Mutant: one smaller char anywhere decides.
LessAnywhere(a, b) ==
  IF Len(a) # Len(b) THEN Len(a) < Len(b) ELSE \E i \in Differ(a, b) : a[i] < b[i]

\* DataComparer: the shorter first, then by the first char that differs.
Less(a, b) ==
  IF Len(a) # Len(b)
  THEN Len(a) < Len(b)
  ELSE \E i \in Differ(a, b) : (\A j \in Differ(a, b) : i <= j) /\ a[i] < b[i]

\* Data_::cmp of two Data_.  A b of no chars is taken for a C string: strlen() finds
\* the chars `beyond' before a zero, in whatever memory follows it; none when b was
\* built as a string.  Two of no chars are not equal.
Cmp(a, b, beyond) ==
  LET val == IF Len(b) = 0 THEN beyond ELSE b
  IN  Len(a) = Len(val) /\ Len(a) > 0 /\ Differ(a, val) = {}

-----------------------------------------------------------------------------
Prefix == 2   \* V_CWF_LOG_PREFIX

\* v_cwf_log_file, for a path of which only the separators matter: the offset of
\* the last-but-one, or 0 when there are fewer; char 0 is not looked at.
LogFile(separators, path) ==
  LET last(o) == {p \in separators : o <= p /\ p < path}
      S == {o \in separators : 0 < o /\ o < path /\ Cardinality(last(o)) = Prefix}
  IN  IF S = {} THEN 0 ELSE CHOOSE o \in S : TRUE

Digits(line) == 1 + Cardinality({d \in {10, 100, 1000, 10000, 100000} : d <= line})

\* v_cwf_log_print: the size of buf, for lengths of the file's tail and the format,
LogBuffer(tfile, fmt) == tfile + 30 + fmt

\* and what is written to it: "%Y/%m/%d %H:%M:%S " and "%s:%d D %s\n" with its zero.
LogWritten(tfile, line, fmt) == 20 + tfile + 1 + Digits(line) + 3 + fmt + 1 + 1
=============================================================================
