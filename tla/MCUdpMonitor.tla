--------------------------- MODULE MCUdpMonitor ---------------------------
(* Instances of UdpMonitor for TLC: a header of two bytes in a cbuf of four. *)
EXTENDS UdpMonitor

CONSTANTS p1, p2   \* two peers

\* What Monitor_::write sends: the header declares the payload's length.
Sound == {[from |-> p1, size |-> 3, len |-> 1], [from |-> p2, size |-> 4, len |-> 2]}

\* Also datagrams with an unknown magic, a length that is too small or too
\* large, and one too short to hold a header.
Any == Sound \cup {[from |-> p1, size |-> 4, len |-> 0], [from |-> p1, size |-> 4, len |-> 1],
                   [from |-> p2, size |-> 3, len |-> 2], [from |-> p2, size |-> 1, len |-> 0]}
=============================================================================
