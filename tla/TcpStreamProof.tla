-------------------------- MODULE TcpStreamProof --------------------------
(***************************************************************************)
(* Proofs about TcpStream for every value of its constants.                 *)
(***************************************************************************)
EXTENDS TcpStream, SequenceTheorems, TLAPS

-----------------------------------------------------------------------------
(* Bytes, and what is known of the layout *)

LEMMA BytesSeq ==
  ASSUME NEW p \in Nat, NEW n \in Nat
  PROVE  /\ Bytes(p, n) \in Seq(Nat)
         /\ Len(Bytes(p, n)) = n
         /\ \A i \in 1..n : Bytes(p, n)[i] = p + i
BY DEF Bytes

LEMMA AtMostNat ==
  ASSUME NEW a \in Nat, NEW b \in Nat
  PROVE  AtMost(a, b) \in Nat /\ AtMost(a, b) <= a /\ AtMost(a, b) <= b
BY DEF AtMost

\* A write under way is that of a message, with bytes left to send.
UnderWay ==
  \A w \in Writers : writing[w] # Idle =>
     writing[w][1] \in DOMAIN msgs /\ writing[w][2] < FrameLen(writing[w][1])

\* The bytes read never exceed those asked for.
CbufFits == rd = "reading" => Len(cbuf) <= want

TypeInv == TypeOK /\ UnderWay /\ CbufFits

LEMMA MsgFacts ==
  ASSUME TypeOK
  PROVE  /\ Len(msgs) \in Nat
         /\ DOMAIN msgs = 1..Len(msgs)
         /\ \A m \in 1..Len(msgs) : /\ msgs[m].at \in Nat /\ msgs[m].len \in Lens
                                    /\ msgs[m].len \in Nat /\ FrameLen(m) \in Nat
                                    /\ HeaderLen <= FrameLen(m)
         /\ msgs # <<>> => Len(msgs) \in 1..Len(msgs)
<1> DEFINE S == [at : Nat, len : Lens]
<1>1. msgs \in Seq(S)
  BY DEF TypeOK
<1>2. \A e \in S : e.at \in Nat /\ e.len \in Lens
  OBVIOUS
<1>3. Len(msgs) \in Nat /\ DOMAIN msgs = 1..Len(msgs) /\ (msgs # <<>> => Len(msgs) # 0)
  <2> HIDE DEF S
  <2> QED BY <1>1
<1>4. \A m \in 1..Len(msgs) : msgs[m] \in S
  <2> HIDE DEF S
  <2> QED BY <1>1
<1>5. \A m \in 1..Len(msgs) : msgs[m].at \in Nat /\ msgs[m].len \in Lens
  <2> HIDE DEF S
  <2> QED BY <1>2, <1>4
<1>6. \A m \in 1..Len(msgs) : /\ msgs[m].len \in Nat /\ FrameLen(m) \in Nat
                              /\ HeaderLen <= FrameLen(m)
  <2> SUFFICES ASSUME NEW m \in 1..Len(msgs)
               PROVE  /\ msgs[m].len \in Nat /\ FrameLen(m) \in Nat
                      /\ HeaderLen <= FrameLen(m)
    OBVIOUS
  <2>1. msgs[m].len \in Nat /\ HeaderLen \in Nat
    BY <1>5, StreamAssumption
  <2> QED BY <2>1 DEF FrameLen
<1> QED BY <1>3, <1>5, <1>6

LEMMA EndNat ==
  ASSUME TypeOK
  PROVE  End \in Nat
BY MsgFacts DEF End

LEMMA ParseNat ==
  ASSUME TypeOK, NEW buf
  PROVE  Parse(buf) \subseteq Nat
BY MsgFacts, StreamAssumption DEF Parse

LEMMA WriteType ==
  ASSUME TypeInv, NEW w \in Writers, Write(w)
  PROVE  TypeInv'
<1> USE DEF TypeInv
<1>1. PICK len \in Lens : msgs' = Append(msgs, [at |-> End, len |-> len])
  BY DEF Write
<1> DEFINE new == [at |-> End, len |-> len]
<1>2. new \in [at : Nat, len : Lens]
  BY EndNat
<1>3. /\ msgs' \in Seq([at : Nat, len : Lens])
      /\ Len(msgs') = Len(msgs) + 1
      /\ \A i \in 1..Len(msgs) : msgs'[i] = msgs[i]
      /\ msgs'[Len(msgs) + 1] = new
  BY <1>1, <1>2, AppendProperties DEF TypeOK
<1>4. DOMAIN msgs = 1..Len(msgs) /\ DOMAIN msgs' = 1..(Len(msgs) + 1) /\ Len(msgs) \in Nat
  BY <1>3 DEF TypeOK
<1>5. writing' = [writing EXCEPT ![w] = <<Len(msgs) + 1, 0>>] /\ Len(msgs) < MaxWrites
  BY DEF Write
<1>6. TypeOK'
  <2>1. writing' \in [Writers -> Nat \X Nat]
    BY <1>4, <1>5 DEF TypeOK
  <2>2. Len(msgs') <= MaxWrites
    BY <1>3, <1>4, <1>5, StreamAssumption
  <2> QED BY <1>3, <2>1, <2>2 DEF TypeOK, Write, recvVars
<1>7. UnderWay'
  <2> SUFFICES ASSUME NEW v \in Writers, writing'[v] # Idle
               PROVE  /\ writing'[v][1] \in DOMAIN msgs'
                      /\ writing'[v][2] < HeaderLen + msgs'[writing'[v][1]].len
    BY DEF UnderWay, FrameLen, Idle
  <2>1. CASE v = w
    <3>1. writing'[v] = <<Len(msgs) + 1, 0>>
      BY <2>1, <1>5 DEF TypeOK
    <3>2. 0 < HeaderLen + new.len
      BY StreamAssumption, <1>2
    <3>3. msgs'[Len(msgs) + 1].len = new.len /\ Len(msgs) + 1 \in DOMAIN msgs'
      BY <1>3, <1>4
    <3> HIDE DEF new
    <3> QED BY <3>1, <3>2, <3>3
  <2>2. CASE v # w
    <3>1. writing'[v] = writing[v]
      BY <2>2, <1>5 DEF TypeOK
    <3>2. writing[v][1] \in 1..Len(msgs) /\ writing[v][2] < HeaderLen + msgs[writing[v][1]].len
      BY <3>1, <1>4 DEF FrameLen, UnderWay
    <3> QED BY <3>1, <3>2, <1>3, <1>4
  <2> QED BY <2>1, <2>2
<1>8. CbufFits'
  BY DEF CbufFits, Write, recvVars
<1> QED BY <1>6, <1>7, <1>8

\* What one write_some does.
LEMMA WriteSomeFacts ==
  ASSUME TypeInv, NEW w \in Writers, WriteSome(w)
  PROVE  /\ writing[w][1] \in 1..Len(msgs) /\ writing[w][2] \in Nat
         /\ \E k \in Nat :
              /\ k > 0 /\ writing[w][2] + k <= FrameLen(writing[w][1])
              /\ stream' = stream \o Bytes(msgs[writing[w][1]].at + writing[w][2], k)
              /\ writing' = [writing EXCEPT ![w] =
                   IF writing[w][2] + k = FrameLen(writing[w][1]) THEN Idle
                   ELSE <<writing[w][1], writing[w][2] + k>>]
<1> USE DEF TypeInv
<1> DEFINE m == writing[w][1]
           n == writing[w][2]
           end == IF n < HeaderLen THEN HeaderLen ELSE FrameLen(m)
<1>1. PICK k \in 1..AtMost(end - n, Room - Len(stream)) :
        /\ stream' = stream \o Bytes(msgs[m].at + n, k)
        /\ writing' = [writing EXCEPT ![w] = IF n + k = FrameLen(m) THEN Idle ELSE <<m, n + k>>]
  BY DEF WriteSome
<1>2. /\ m \in 1..Len(msgs) /\ n \in Nat /\ n < FrameLen(m)
      /\ FrameLen(m) \in Nat /\ HeaderLen <= FrameLen(m)
  <2>1. m \in DOMAIN msgs /\ n < FrameLen(m)
    BY DEF UnderWay, WriteSome
  <2>2. writing[w] \in Nat \X Nat
    BY DEF TypeOK
  <2>3. n \in Nat /\ TypeOK
    BY <2>2
  <2> HIDE DEF m, n
  <2> QED BY <2>1, <2>3, MsgFacts
<1> DEFINE fl == FrameLen(m)
           room == Room - Len(stream)
<1>3. k \in Nat /\ k > 0 /\ n + k <= FrameLen(m)
  <2>1. room \in Int /\ fl \in Nat /\ HeaderLen \in Nat /\ HeaderLen <= fl /\ n \in Nat /\ n < fl
    BY <1>2, StreamAssumption DEF TypeOK
  <2>2. k \in 1..AtMost((IF n < HeaderLen THEN HeaderLen ELSE fl) - n, room)
    OBVIOUS
  <2> HIDE DEF fl, room, n, m
  <2>3. k \in Nat /\ k > 0 /\ n + k <= fl
    BY <2>1, <2>2 DEF AtMost
  <2> QED BY <2>3 DEF fl
<1> HIDE DEF end, fl, room
<1> QED BY <1>1, <1>2, <1>3

LEMMA WriteSomeType ==
  ASSUME TypeInv, NEW w \in Writers, WriteSome(w)
  PROVE  TypeInv'
<1> USE DEF TypeInv
<1> DEFINE m == writing[w][1]
           n == writing[w][2]
<1>1. PICK k \in Nat :
        /\ n + k <= FrameLen(m)
        /\ stream' = stream \o Bytes(msgs[m].at + n, k)
        /\ writing' = [writing EXCEPT ![w] = IF n + k = FrameLen(m) THEN Idle ELSE <<m, n + k>>]
  BY WriteSomeFacts
<1>2. /\ m \in DOMAIN msgs /\ n \in Nat /\ m \in Nat
      /\ msgs[m].at \in Nat /\ FrameLen(m) \in Nat
  <2>1. m \in 1..Len(msgs) /\ n \in Nat /\ TypeOK
    BY WriteSomeFacts
  <2> HIDE DEF m, n
  <2> QED BY <2>1, MsgFacts
<1>3. k \in Nat /\ n + k <= FrameLen(m)
  BY <1>1
<1>4. Bytes(msgs[m].at + n, k) \in Seq(Nat)
  <2> DEFINE p == msgs[m].at + n
  <2>1. p \in Nat
    BY <1>2
  <2> HIDE DEF p
  <2>2. Bytes(p, k) \in Seq(Nat)
    BY <2>1, <1>3, BytesSeq
  <2> QED BY <2>2 DEF p
<1>5. stream' \in Seq(Nat)
  BY <1>1, <1>4, ConcatProperties DEF TypeOK
<1>6. writing' \in [Writers -> Nat \X Nat]
  <2> DEFINE now == IF n + k = FrameLen(m) THEN Idle ELSE <<m, n + k>>
  <2>1. now \in Nat \X Nat
    <3>1. n + k \in Nat /\ m \in Nat
      BY <1>2, <1>3
    <3> HIDE DEF m, n
    <3> QED BY <3>1 DEF Idle
  <2>2. writing' = [writing EXCEPT ![w] = now] /\ writing \in [Writers -> Nat \X Nat]
    BY <1>1 DEF TypeOK
  <2> HIDE DEF now
  <2> QED BY <2>1, <2>2
<1>7. UNCHANGED <<msgs, link, rcv, recvVars>>
  BY DEF WriteSome
<1>8. TypeOK'
  BY <1>5, <1>6, <1>7 DEF TypeOK, recvVars
<1>9. UnderWay'
  <2> SUFFICES ASSUME NEW v \in Writers, writing'[v] # Idle
               PROVE  /\ writing'[v][1] \in DOMAIN msgs
                      /\ writing'[v][2] < FrameLen(writing'[v][1])
    BY <1>7 DEF UnderWay, FrameLen, Idle
  <2>1. CASE v = w
    <3>1. writing'[w] = IF n + k = FrameLen(m) THEN Idle ELSE <<m, n + k>>
      BY <1>1 DEF TypeOK
    <3>2. writing'[w] = <<m, n + k>> /\ n + k # FrameLen(m)
      BY <2>1, <3>1
    <3> HIDE DEF m, n
    <3> QED BY <2>1, <3>2, <1>2, <1>3
  <2>2. CASE v # w
    <3>1. writing'[v] = writing[v]
      BY <2>2, <1>1 DEF TypeOK
    <3> QED BY <3>1 DEF UnderWay
  <2> QED BY <2>1, <2>2
<1>10. CbufFits'
  BY <1>7 DEF CbufFits, recvVars
<1> QED BY <1>8, <1>9, <1>10

LEMMA ReadSomeType ==
  ASSUME TypeInv, ReadSome
  PROVE  TypeInv'
<1> USE DEF TypeInv
<1> DEFINE k == AtMost(Len(stream), want - Len(cbuf))
<1>1. k \in Nat /\ k <= Len(stream) /\ Len(stream) \in Nat /\ Len(cbuf) + k <= want
  BY DEF TypeOK, AtMost, CbufFits, ReadSome
<1>2. /\ SubSeq(stream, 1, k) \in Seq(Nat) /\ Len(SubSeq(stream, 1, k)) = k
      /\ SubSeq(stream, k + 1, Len(stream)) \in Seq(Nat)
  <2>1. /\ \A i \in 1..k : stream[i] \in Nat
        /\ \A i \in (k + 1)..Len(stream) : stream[i] \in Nat
    <3>1. stream \in Seq(Nat)
      BY DEF TypeOK
    <3> HIDE DEF k, TypeInv
    <3> QED BY <1>1, <3>1
  <2> HIDE DEF k
  <2>2. SubSeq(stream, 1, k) \in Seq(Nat) /\ Len(SubSeq(stream, 1, k)) = k
    BY <1>1, <2>1, SubSeqProperties
  <2>3. SubSeq(stream, k + 1, Len(stream)) \in Seq(Nat)
    BY <1>1, <2>1, SubSeqProperties
  <2> QED BY <2>2, <2>3
<1>3. /\ cbuf' = cbuf \o SubSeq(stream, 1, k)
      /\ stream' = SubSeq(stream, k + 1, Len(stream))
      /\ rd' \in {"ready", "reading"}
      /\ UNCHANGED <<sendVars, link, rcv, want, rerr, frame, header, delivered, closes>>
  BY DEF ReadSome
<1>4. cbuf' \in Seq(Nat) /\ Len(cbuf') = Len(cbuf) + k
  BY <1>2, <1>3, ConcatProperties DEF TypeOK
<1> HIDE DEF k
<1>5. TypeOK'
  BY <1>2, <1>3, <1>4 DEF TypeOK, sendVars
<1>6. UnderWay' /\ CbufFits'
  BY <1>1, <1>3, <1>4 DEF UnderWay, CbufFits, sendVars, FrameLen
<1> QED BY <1>5, <1>6

LEMMA ReadedType ==
  ASSUME TypeInv, Readed
  PROVE  TypeInv'
<1> USE DEF TypeInv
<1>1. UNCHANGED <<sendVars, stream, link, rerr>>
  BY DEF Readed
<1>2. UnderWay'
  BY <1>1 DEF UnderWay, sendVars, FrameLen
<1>3. ASSUME Drop
      PROVE  TypeOK' /\ CbufFits'
  BY <1>1, <1>3 DEF Drop, TypeOK, CbufFits, sendVars
<1>4. ASSUME NEW exp \in Nat, Read(exp)
      PROVE  /\ rd' = "reading" /\ want' \in 0..BufSize /\ cbuf' \in Seq(Nat)
             /\ CbufFits'
  <2>1. want' = AtMost(exp, BufSize) /\ rd' = "reading" /\ cbuf' = <<>>
    BY <1>4 DEF Read
  <2>2. want' \in Nat /\ want' <= BufSize /\ BufSize \in Nat
    BY <2>1, StreamAssumption, AtMostNat
  <2> QED BY <2>1, <2>2, EmptySeq DEF CbufFits
<1>5. ASSUME NEW f \in Parse(cbuf), Announce(f)
      PROVE  TypeOK' /\ CbufFits'
  <2>1. f \in Nat
    BY <1>5, ParseNat
  <2> QED BY <1>1, <1>4, <1>5, <2>1 DEF TypeOK, sendVars, Announce
<1>6. ASSUME delivered' = Append(delivered, Command),
             frame' = 0, Read(HeaderLen), UNCHANGED <<rcv, header, closes>>
      PROVE  TypeOK' /\ CbufFits'
  <2>1. Command \in [header : Seq(Nat), data : Seq(Nat)]
    BY DEF TypeOK, Command
  <2>2. delivered' \in Seq([header : Seq(Nat), data : Seq(Nat)])
    BY <1>6, <2>1, AppendProperties DEF TypeOK
  <2> QED BY <1>1, <1>4, <1>6, <2>2, StreamAssumption DEF TypeOK, sendVars
<1> QED BY <1>2, <1>3, <1>5, <1>6 DEF Readed, HeaderRead, PayloadRead

LEMMA TypeInit == Init => TypeInv
<1> SUFFICES ASSUME Init PROVE TypeInv
  OBVIOUS
<1>1. <<>> \in Seq([at : Nat, len : Lens]) /\ <<>> \in Seq(Nat) /\ Len(<<>>) = 0
        /\ <<>> \in Seq([header : Seq(Nat), data : Seq(Nat)])
  BY EmptySeq
<1>2. writing \in [Writers -> Nat \X Nat]
  BY DEF Init, Idle
<1>3. TypeOK
  <2>1. msgs \in Seq([at : Nat, len : Lens]) /\ Len(msgs) <= MaxWrites
    BY <1>1, StreamAssumption DEF Init
  <2>2. stream \in Seq(Nat) /\ cbuf \in Seq(Nat) /\ header \in Seq(Nat)
    BY <1>1 DEF Init
  <2>3. delivered \in Seq([header : Seq(Nat), data : Seq(Nat)])
    BY <1>1 DEF Init
  <2>4. /\ link \in {"up", "fin", "reset"} /\ rcv \in {"open", "closed"}
        /\ rd \in {"new", "reading", "ready", "stopped"} /\ want \in 0..BufSize
        /\ rerr \in BOOLEAN /\ frame \in Nat /\ closes \in Nat
    <3>1. FrameInit \subseteq Nat /\ BufSize \in Nat
      BY StreamAssumption
    <3>2. /\ link = "up" /\ rcv = "open" /\ rd = "new" /\ want = 0 /\ rerr = FALSE
          /\ frame \in FrameInit /\ closes = 0
      BY DEF Init
    <3>3. frame \in Nat
      BY <3>1, <3>2
    <3>4. want \in 0..BufSize
      BY <3>1, <3>2
    <3> QED BY <3>2, <3>3, <3>4
  <2> QED BY <1>2, <2>1, <2>2, <2>3, <2>4 DEF TypeOK
<1> QED BY <1>3 DEF Init, TypeInv, UnderWay, CbufFits, Idle

LEMMA TypeStep == TypeInv /\ [Next]_vars => TypeInv'
<1> SUFFICES ASSUME TypeInv, [Next]_vars PROVE TypeInv'
  OBVIOUS
<1> USE DEF TypeInv
<1>1. ASSUME NEW w \in Writers, Write(w) PROVE TypeInv'
  BY <1>1, WriteType
<1>2. ASSUME NEW w \in Writers, WriteSome(w) PROVE TypeInv'
  BY <1>2, WriteSomeType
<1>3. ASSUME NEW w \in Writers, WriteFail(w) PROVE TypeInv'
  BY <1>3 DEF WriteFail, TypeOK, UnderWay, CbufFits, Idle, recvVars, FrameLen
<1>4. CASE SenderClose
  BY <1>4 DEF SenderClose, TypeOK, UnderWay, CbufFits, sendVars, recvVars, FrameLen
<1>5. CASE Reset
  BY <1>5 DEF Reset, TypeOK, UnderWay, CbufFits, sendVars, recvVars, FrameLen
<1>6. CASE Start
  BY <1>6, StreamAssumption, AtMostNat
  DEF Start, Read, TypeOK, UnderWay, CbufFits, sendVars, FrameLen
<1>7. CASE ReadSome
  BY <1>7, ReadSomeType
<1>8. CASE ReadError
  BY <1>8 DEF ReadError, TypeOK, UnderWay, CbufFits, sendVars, FrameLen
<1>9. CASE Readed
  BY <1>9, ReadedType
<1>10. CASE ReceiverClose
  BY <1>10 DEF ReceiverClose, TypeOK, UnderWay, CbufFits, sendVars, recvVars, FrameLen
<1>11. CASE UNCHANGED vars
  BY <1>11 DEF vars, TypeOK, UnderWay, CbufFits, FrameLen
<1> QED
  BY <1>1, <1>2, <1>3, <1>4, <1>5, <1>6, <1>7, <1>8, <1>9, <1>10, <1>11
  DEF Next, WriterStep

\* Whatever the program writes, in whatever number of threads, and whatever the
\* uninitialised `frame' holds, the state stays well formed, and a write under
\* way is that of a known message with bytes left to send.
THEOREM TypeCorrect == Spec => []TypeOK
<1>1. TypeInv => TypeOK
  BY DEF TypeInv
<1> QED BY <1>1, TypeInit, TypeStep, PTL DEF Spec

\* After OnClose the chain of reads has ended for good.
CloseEnds == closes > 0 => rd = "stopped"

LEMMA CloseEndsStep == CloseEnds /\ [Next]_vars => CloseEnds'
BY DEF Next, WriterStep, Write, WriteSome, WriteFail, SenderClose, Reset, Start,
       Read, ReadSome, ReadError, Readed, HeaderRead, PayloadRead, Drop, Announce,
       ReceiverClose, recvVars, vars, CloseEnds

\* For every program: OnClose is called at most once, and nothing after it,
\* even if a close() finds a completion already queued.
THEOREM ClosedOnce == Spec => CloseIsLast
<1>1. Init => CloseEnds
  BY DEF Init, CloseEnds
<1>2. CloseEnds /\ [Next]_vars => [closes > 0 => UNCHANGED <<delivered, closes>>]_vars
  BY DEF Next, WriterStep, Write, WriteSome, WriteFail, SenderClose, Reset, Start,
         ReadSome, ReadError, Readed, ReceiverClose, recvVars, vars, CloseEnds
<1> QED BY <1>1, <1>2, CloseEndsStep, PTL DEF Spec, CloseIsLast
=============================================================================
