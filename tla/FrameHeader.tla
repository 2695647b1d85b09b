---------------------------- MODULE FrameHeader ----------------------------
(***************************************************************************)
(* M1LX<T, bits> of netw/socket.hpp: the frame header is one magic byte and *)
(* the payload's length in `bits' bytes, in big or little endian.  A sender *)
(* fills headers with its own M1LX and a receiver parses them with its own, *)
(* whose magic slots the program may set at any time.                       *)
(***************************************************************************)
EXTENDS Naturals, Sequences, SequencesExt

CONSTANTS
  Base,    \* values of a byte
  Width,   \* the template argument `bits', which counts bytes
  Slots,   \* magic slots: 8 in the code
  Lens,    \* payload lengths handed to full()
  Magics   \* magic numbers the program uses

ASSUME HeaderAssumption ==
  /\ Base \in Nat \ {0} /\ Width \in Nat \ {0} /\ Slots \in Nat \ {0}
  /\ Lens \subseteq Nat
  /\ Magics \subseteq 0..(Base - 1) /\ Magics # {}

VARIABLES
  full,    \* the sender's M1LX: [magic, big]
  parse,   \* the receiver's
  len,     \* the length full() was given last
  idx,     \* and the magic slot
  buf      \* the header it wrote

vars == <<full, parse, len, idx, buf>>

\* M1LX() and M1LX(magic, big): memset clears every slot.
M1LX(magic, big) == [magic |-> [i \in 0..(Slots - 1) |-> IF i = 0 THEN magic ELSE 0],
                     big |-> big]

\* Base to the power of k: the weight of a length's byte k, counted from 0.
Weight[k \in 0..Width] == IF k = 0 THEN 1 ELSE Base * Weight[k - 1]

\* The Width low bytes of n, lowest first.
LowBytes(n) == [i \in 1..Width |-> (n \div Weight[i - 1]) % Base]

\* Mutant: big endian is for parse() only.
FullLittle(m, n, i) == <<m.magic[i]>> \o LowBytes(n)

\* M1LX::full: the length is cut to T.
Full(m, n, i) ==
  <<m.magic[i]>> \o (IF m.big THEN Reverse(LowBytes(n)) ELSE LowBytes(n))

\* M1LX::header
HeaderLength == Width + 1

\* The number whose bytes, lowest first, are s.
Number(s) ==
  LET sum[i \in 0..Width] == IF i = 0 THEN 0 ELSE sum[i - 1] + s[i] * Weight[i - 1]
  IN  sum[Width]

\* M1LX::parse: 0 when no slot holds the magic.
Parse(m, b) ==
  IF \E i \in 0..(Slots - 1) : m.magic[i] = b[1]
  THEN Number(IF m.big THEN Reverse(Tail(b)) ELSE Tail(b))
  ELSE 0

Init ==
  /\ \E a, b \in Magics, p, q \in BOOLEAN : full = M1LX(a, p) /\ parse = M1LX(b, q)
  /\ len = 0 /\ idx = 0
  /\ buf = Full(full, 0, 0)

\* full(buf, len, idx)
Fill ==
  /\ \E n \in Lens, i \in 0..(Slots - 1) :
       len' = n /\ idx' = i /\ buf' = Full(full, n, i)
  /\ UNCHANGED <<full, parse>>

\* The program sets a slot of `magic', which is public.
SetMagic ==
  /\ \E i \in 0..(Slots - 1), a \in Magics :
       \/ full' = [full EXCEPT !.magic[i] = a] /\ UNCHANGED parse
       \/ parse' = [parse EXCEPT !.magic[i] = a] /\ UNCHANGED full
  /\ UNCHANGED <<len, idx, buf>>

Next == Fill \/ SetMagic
Spec == Init /\ [][Next]_vars

-----------------------------------------------------------------------------
TypeOK ==
  /\ {full, parse} \subseteq [magic : [0..(Slots - 1) -> Magics \cup {0}], big : BOOLEAN]
  /\ len \in Lens \cup {0} /\ idx \in 0..(Slots - 1)
  /\ buf \in [1..HeaderLength -> 0..(Base - 1)]

\* A receiver of the same endianness that knows the magic reads the length back
\* up to the width of T, from whichever slot the magic came; a length that does
\* not fit loses its high bytes and nothing tells.
RoundTrip ==
  full.big = parse.big =>
    Parse(parse, buf) = IF buf[1] \in {parse.magic[i] : i \in 0..(Slots - 1)}
                        THEN len % Weight[Width] ELSE 0
=============================================================================
