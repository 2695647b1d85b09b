------------------------ MODULE TcpStreamOrderProof ------------------------
(***************************************************************************)
(* The order of the commands of TcpStream, proved for one writer at a time, *)
(* lengths the header can hold, and a frame that starts at 0; and from it   *)
(* that TcpStream implements FrameChannel.                                 *)
(***************************************************************************)
EXTENDS TcpStreamProof

Sane ==
  /\ \A v, w \in Writers : v = w
  /\ \A len \in Lens : len < LenMod
  /\ \A f \in FrameInit : f = 0

\* Where the frame of the next message to deliver begins, and where the bytes in
\* cbuf begin: cbuf, then stream, hold the bytes from there on.
NextCut == IF Len(delivered) < Len(msgs) THEN msgs[Len(delivered) + 1].at ELSE End
From == IF frame = 0 THEN NextCut ELSE NextCut + HeaderLen
Upto == From + Len(cbuf) + Len(stream)

\* The messages lie one after the other.
Layout ==
  /\ msgs # <<>> => msgs[1].at = 0
  /\ \A m \in DOMAIN msgs : m + 1 \in DOMAIN msgs => msgs[m + 1].at = msgs[m].at + FrameLen(m)
  /\ \A l, m \in DOMAIN msgs : l < m => msgs[l].at + FrameLen(l) <= msgs[m].at

\* What is being written is the last message.
LastWritten ==
  \A w \in Writers : writing[w] # Idle => writing[w][1] = Len(msgs)

Live == rd # "stopped"

\* No byte is missing, doubled or out of place.
Contiguous ==
  Live => /\ \A i \in 1..Len(cbuf) : cbuf[i] = From + i
          /\ \A i \in 1..Len(stream) : stream[i] = From + Len(cbuf) + i
          /\ Upto <= End

\* The next byte written follows the last one on its way.
WrittenUpto ==
  Live /\ link = "up" /\ rcv = "open" =>
    \A w \in Writers :
      Upto = IF writing[w] = Idle THEN End ELSE msgs[Len(msgs)].at + writing[w][2]

\* readed() agrees with the framing.
Framed ==
  /\ Len(delivered) <= Len(msgs)
  /\ Live /\ frame # 0 => /\ Len(delivered) < Len(msgs)
                         /\ frame = msgs[Len(delivered) + 1].len
                         /\ header = Bytes(msgs[Len(delivered) + 1].at, HeaderLen)
  /\ rd = "new" => frame = 0 /\ cbuf = <<>>
  /\ rd \in {"reading", "ready"} => want = AtMost(IF frame = 0 THEN HeaderLen ELSE frame, BufSize)
  /\ rd = "ready" /\ ~rerr => Len(cbuf) = want
  /\ rd \in {"new", "reading"} => ~rerr
  /\ rd = "stopped" => rcv = "closed"
  /\ rd = "ready" /\ rerr => link # "up" \/ rcv = "closed"

OrderInv ==
  /\ Layout
  /\ LastWritten
  /\ Contiguous
  /\ WrittenUpto
  /\ Framed
  /\ InOrder

LEMMA SeqFacts ==
  ASSUME TypeOK
  PROVE  /\ Len(delivered) \in Nat /\ DOMAIN delivered = 1..Len(delivered)
         /\ Len(cbuf) \in Nat /\ DOMAIN cbuf = 1..Len(cbuf)
         /\ Len(stream) \in Nat /\ DOMAIN stream = 1..Len(stream)
         /\ frame \in Nat /\ want \in Nat /\ HeaderLen \in Nat /\ HeaderLen > 0
         /\ BufSize \in Nat /\ HeaderLen <= BufSize
<1> DEFINE C == [header : Seq(Nat), data : Seq(Nat)]
<1>1. delivered \in Seq(C) /\ cbuf \in Seq(Nat) /\ stream \in Seq(Nat)
  BY DEF TypeOK
<1>2. frame \in Nat /\ want \in Nat
  BY DEF TypeOK
<1> HIDE DEF C
<1>3. Len(delivered) \in Nat /\ DOMAIN delivered = 1..Len(delivered)
  BY <1>1, LenProperties
<1> QED BY <1>1, <1>2, <1>3, LenProperties, StreamAssumption

LEMMA CutFacts ==
  ASSUME TypeOK, Layout, Len(delivered) <= Len(msgs)
  PROVE  /\ NextCut \in Nat /\ End \in Nat /\ From \in Nat /\ Upto \in Nat
         /\ \A m \in 1..Len(msgs) : msgs[m].at + FrameLen(m) <= End
         /\ NextCut <= End
         /\ Len(delivered) < Len(msgs) =>
              /\ Len(delivered) + 1 \in 1..Len(msgs)
              /\ NextCut = msgs[Len(delivered) + 1].at
              /\ NextCut + FrameLen(Len(delivered) + 1) =
                   IF Len(delivered) + 1 < Len(msgs) THEN msgs[Len(delivered) + 2].at ELSE End
<1>1. End \in Nat
  BY EndNat
<1>2. \A m \in 1..Len(msgs) : msgs[m].at + FrameLen(m) <= End
  <2> SUFFICES ASSUME NEW m \in 1..Len(msgs) PROVE msgs[m].at + FrameLen(m) <= End
    OBVIOUS
  <2>1. End = msgs[Len(msgs)].at + FrameLen(Len(msgs)) /\ Len(msgs) \in 1..Len(msgs)
    BY MsgFacts DEF End
  <2>2. CASE m = Len(msgs)
    BY <2>1, <2>2, MsgFacts
  <2>3. CASE m < Len(msgs)
    <3>1. msgs[m].at + FrameLen(m) <= msgs[Len(msgs)].at
      BY <2>1, <2>3, MsgFacts DEF Layout
    <3>2. /\ msgs[m].at \in Nat /\ FrameLen(m) \in Nat /\ msgs[Len(msgs)].at \in Nat
          /\ FrameLen(Len(msgs)) \in Nat
      BY <2>1, MsgFacts
    <3> QED BY <2>1, <3>1, <3>2
  <2>4. m = Len(msgs) \/ m < Len(msgs)
    <3>1. Len(msgs) \in Nat
      BY MsgFacts
    <3> QED BY <3>1
  <2> QED BY <2>2, <2>3, <2>4
<1>3. Len(delivered) < Len(msgs) =>
              /\ Len(delivered) + 1 \in 1..Len(msgs)
              /\ NextCut = msgs[Len(delivered) + 1].at
              /\ NextCut \in Nat
  BY MsgFacts, SeqFacts DEF NextCut
<1>4. Len(delivered) < Len(msgs) =>
              NextCut + FrameLen(Len(delivered) + 1) =
                   IF Len(delivered) + 1 < Len(msgs) THEN msgs[Len(delivered) + 2].at ELSE End
  <2> SUFFICES ASSUME Len(delivered) < Len(msgs)
               PROVE  NextCut + FrameLen(Len(delivered) + 1) =
                   IF Len(delivered) + 1 < Len(msgs) THEN msgs[Len(delivered) + 2].at ELSE End
    OBVIOUS
  <2>1. CASE Len(delivered) + 1 < Len(msgs)
    <3>1. Len(delivered) + 1 \in DOMAIN msgs /\ (Len(delivered) + 1) + 1 \in DOMAIN msgs
      BY <1>3, <2>1, MsgFacts, SeqFacts
    <3>2. msgs[(Len(delivered) + 1) + 1].at
            = msgs[Len(delivered) + 1].at + FrameLen(Len(delivered) + 1)
      BY <3>1 DEF Layout
    <3>3. (Len(delivered) + 1) + 1 = Len(delivered) + 2
      BY SeqFacts
    <3> QED BY <1>3, <2>1, <3>2, <3>3
  <2>2. CASE ~(Len(delivered) + 1 < Len(msgs))
    <3>1. Len(delivered) + 1 = Len(msgs) /\ msgs # <<>>
      <4>1. Len(msgs) \in Nat /\ Len(delivered) \in Nat
        BY MsgFacts, SeqFacts
      <4>2. Len(delivered) + 1 = Len(msgs)
        BY <1>3, <2>2, <4>1
      <4>3. Len(msgs) # 0
        BY <4>1, <4>2
      <4>4. Len(<<>>) = 0
        BY EmptySeq
      <4> QED BY <4>2, <4>3, <4>4
    <3>2. End = msgs[Len(msgs)].at + FrameLen(Len(msgs))
      BY <3>1 DEF End
    <3>3. NextCut = msgs[Len(msgs)].at
      BY <1>3, <3>1
    <3>4. NextCut + FrameLen(Len(delivered) + 1) = End
      BY <3>1, <3>2, <3>3, Zenon
    <3> QED BY <2>2, <3>4
  <2> QED BY <2>1, <2>2
<1>5. NextCut \in Nat /\ NextCut <= End
  <2>1. CASE Len(delivered) < Len(msgs)
    <3>1. FrameLen(Len(delivered) + 1) \in Nat /\ NextCut + FrameLen(Len(delivered) + 1) <= End
      BY <1>2, <1>3, <2>1, MsgFacts
    <3> QED BY <1>1, <1>3, <2>1, <3>1
  <2>2. CASE ~(Len(delivered) < Len(msgs))
    BY <1>1, <2>2 DEF NextCut
  <2> QED BY <2>1, <2>2
<1>6. From \in Nat /\ Upto \in Nat
  BY <1>5, SeqFacts DEF From, Upto
<1> QED BY <1>1, <1>2, <1>3, <1>4, <1>5, <1>6

\* The bytes of a message's header belong to it alone, so parse() gives its
\* length.
LEMMA ParseOwn ==
  ASSUME Sane, TypeOK, Layout, NEW m \in 1..Len(msgs)
  PROVE  Parse(Bytes(msgs[m].at, HeaderLen)) = {msgs[m].len}
<1> DEFINE buf == Bytes(msgs[m].at, HeaderLen)
<1>1. \A l \in 1..Len(msgs) : buf = Bytes(msgs[l].at, HeaderLen) => l = m
  <2> SUFFICES ASSUME NEW l \in 1..Len(msgs), buf = Bytes(msgs[l].at, HeaderLen), l # m
               PROVE  FALSE
    OBVIOUS
  <2>1. msgs[l].at \in Nat /\ msgs[m].at \in Nat /\ 1 \in 1..HeaderLen /\ HeaderLen \in Nat
    BY MsgFacts, SeqFacts
  <2>2. msgs[m].at = msgs[l].at
    <3>1. buf[1] = msgs[m].at + 1 /\ Bytes(msgs[l].at, HeaderLen)[1] = msgs[l].at + 1
      BY <2>1 DEF Bytes
    <3> QED BY <2>1, <3>1
  <2>3. FrameLen(l) \in Nat /\ FrameLen(m) \in Nat /\ FrameLen(l) > 0 /\ FrameLen(m) > 0
    BY MsgFacts, SeqFacts
  <2>4. l \in DOMAIN msgs /\ m \in DOMAIN msgs /\ (l < m \/ m < l)
    BY MsgFacts
  <2> QED BY <2>1, <2>2, <2>3, <2>4 DEF Layout
<1>2. {l \in DOMAIN msgs : buf = Bytes(msgs[l].at, HeaderLen)} = {m}
  BY <1>1, MsgFacts
<1>3. msgs[m].len % LenMod = msgs[m].len
  <2>1. msgs[m].len \in Nat /\ msgs[m].len < LenMod /\ LenMod \in Nat \ {0}
    BY MsgFacts, StreamAssumption DEF Sane
  <2> QED BY <2>1
<1> HIDE DEF buf
<1>4. Parse(buf) = {msgs[l].len % LenMod : l \in {m}}
  BY <1>2 DEF Parse
<1> QED BY <1>3, <1>4 DEF buf

LEMMA OrderInit ==
  ASSUME Sane, Init
  PROVE  OrderInv
<1>1. /\ msgs = <<>> /\ stream = <<>> /\ cbuf = <<>> /\ delivered = <<>> /\ frame = 0
      /\ Len(<<>>) = 0 /\ DOMAIN <<>> = {}
  BY StreamAssumption DEF Init, Sane
<1>2. End = 0 /\ NextCut = 0 /\ From = 0 /\ Upto = 0
  BY <1>1 DEF End, NextCut, From, Upto
<1>3. \A w \in Writers : writing[w] = Idle
  BY DEF Init
<1>4. Layout /\ LastWritten /\ InOrder
  BY <1>1, <1>3 DEF Layout, LastWritten, InOrder
<1>5. Contiguous /\ WrittenUpto
  BY <1>1, <1>2, <1>3 DEF Contiguous, WrittenUpto
<1>6. Framed
  BY <1>1 DEF Framed, Init
<1> QED BY <1>4, <1>5, <1>6 DEF OrderInv

\* Steps that neither hand over nor deliver a message.
LEMMA Unmoved ==
  ASSUME UNCHANGED <<msgs, delivered>>
  PROVE  /\ End' = End /\ NextCut' = NextCut
         /\ Layout => Layout'
         /\ InOrder => InOrder'
BY DEF End, NextCut, Layout, InOrder, CmdOf, FrameLen

LEMMA WriteOrder ==
  ASSUME Sane, TypeInv, OrderInv, NEW w \in Writers, Write(w)
  PROVE  OrderInv'
<1> USE DEF OrderInv
<1>1. PICK len \in Lens : msgs' = Append(msgs, [at |-> End, len |-> len])
  BY DEF Write
<1> DEFINE L == Len(msgs)
<1>2. TypeOK /\ L \in Nat /\ DOMAIN msgs = 1..L /\ End \in Nat /\ len \in Nat
  BY MsgFacts, EndNat, StreamAssumption DEF TypeInv
<1>3. /\ Len(msgs') = L + 1 /\ DOMAIN msgs' = 1..(L + 1)
      /\ \A i \in 1..L : msgs'[i] = msgs[i]
      /\ msgs'[L + 1] = [at |-> End, len |-> len]
  <2> DEFINE S == [at : Nat, len : Lens]
             e == [at |-> End, len |-> len]
  <2>1. msgs \in Seq(S) /\ e \in S
    BY <1>2 DEF TypeOK
  <2>2. msgs' = Append(msgs, e)
    BY <1>1
  <2> HIDE DEF S, e
  <2>3. /\ msgs' \in Seq(S) /\ Len(msgs') = L + 1 /\ \A i \in 1..L : msgs'[i] = msgs[i]
        /\ msgs'[L + 1] = e
    BY <2>1, <2>2, AppendProperties
  <2> QED BY <2>3, LenProperties DEF e
<1>4. /\ UNCHANGED <<stream, link, rcv, rd, want, cbuf, rerr, frame, header, delivered>>
      /\ writing[w] = Idle
      /\ \A v \in Writers : v = w /\ writing'[v] = <<L + 1, 0>>
  BY DEF Write, recvVars, Sane, TypeInv, TypeOK
<1>5. End' = End + HeaderLen + len
  <2>1. msgs' # <<>>
    BY <1>2, <1>3, EmptySeq
  <2> QED BY <1>2, <1>3, <2>1, SeqFacts DEF End, FrameLen
<1>6. Len(delivered) <= L /\ Len(delivered) \in Nat
  BY <1>2, SeqFacts DEF Framed
<1>7. NextCut' = NextCut
  <2>1. CASE Len(delivered) < L
    BY <1>2, <1>3, <1>4, <1>6, <2>1 DEF NextCut
  <2>2. CASE ~(Len(delivered) < L)
    <3>1. Len(delivered) = L
      BY <1>2, <1>6, <2>2
    <3>2. msgs'[Len(delivered) + 1].at = End /\ Len(delivered') < Len(msgs')
      BY <1>2, <1>3, <1>4, <3>1
    <3> QED BY <1>4, <2>2, <3>2 DEF NextCut
  <2> QED BY <2>1, <2>2
<1>8. \A m \in 1..L : msgs[m].at + FrameLen(m) <= End
  BY <1>2, <1>6, CutFacts
<1>9. \A m \in 1..L : FrameLen(m)' = FrameLen(m)
  BY <1>3 DEF FrameLen
<1>10. Layout'
  <2>1. msgs'[1].at = 0
    <3>1. CASE L = 0
      <4>1. msgs = <<>>
        BY <3>1, EmptySeq, <1>2 DEF TypeOK
      <4> QED BY <3>1, <4>1, <1>3 DEF End
    <3>2. CASE L # 0
      <4>1. 1 \in 1..L /\ msgs # <<>>
        BY <3>2, <1>2, EmptySeq
      <4> QED BY <4>1, <1>3 DEF Layout
    <3> QED BY <3>1, <3>2
  <2>2. ASSUME NEW m \in DOMAIN msgs', m + 1 \in DOMAIN msgs'
        PROVE  msgs'[m + 1].at = msgs'[m].at + FrameLen(m)'
    <3>1. m \in 1..L
      BY <1>2, <1>3, <2>2
    <3>2. CASE m + 1 \in 1..L
      <4>1. msgs[m + 1].at = msgs[m].at + FrameLen(m)
        BY <1>2, <3>1, <3>2 DEF Layout
      <4> QED BY <1>3, <1>9, <3>1, <3>2, <4>1
    <3>3. CASE m + 1 = L + 1
      <4>1. m = L /\ L # 0
        BY <1>2, <3>1, <3>3
      <4>2. End = msgs[m].at + FrameLen(m)
        <5>1. Len(<<>>) = 0
          BY EmptySeq
        <5> QED BY <4>1, <5>1 DEF End
      <4> QED BY <1>3, <1>9, <3>1, <3>3, <4>2
    <3> QED BY <1>2, <1>3, <2>2, <3>1, <3>2, <3>3
  <2>3. ASSUME NEW l \in DOMAIN msgs', NEW m \in DOMAIN msgs', l < m
        PROVE  msgs'[l].at + FrameLen(l)' <= msgs'[m].at
    <3>1. l \in 1..L
      BY <1>2, <1>3, <2>3
    <3>2. CASE m \in 1..L
      <4>1. msgs[l].at + FrameLen(l) <= msgs[m].at
        BY <1>2, <2>3, <3>1, <3>2 DEF Layout
      <4> QED BY <1>3, <1>9, <3>1, <3>2, <4>1
    <3>3. CASE m = L + 1
      <4>1. msgs[l].at + FrameLen(l) <= End
        BY <1>8, <3>1
      <4>2. msgs'[m].at = End /\ msgs'[l].at = msgs[l].at
        BY <1>3, <3>1, <3>3
      <4> QED BY <1>9, <3>1, <4>1, <4>2
    <3> QED BY <1>2, <1>3, <3>2, <3>3
  <2> QED BY <2>1, <2>2, <2>3 DEF Layout, FrameLen
<1>11. LastWritten'
  BY <1>3, <1>4 DEF LastWritten
<1>12. From' = From /\ Upto' = Upto
  BY <1>4, <1>7 DEF From, Upto
<1>13. Contiguous'
  <2>1. Upto \in Nat
    BY <1>2, <1>6, CutFacts
  <2>2. Live => Upto' <= End'
    BY <1>2, <1>5, <1>12, <2>1, SeqFacts DEF Contiguous
  <2> QED BY <1>4, <1>12, <2>2 DEF Contiguous, Live
<1>14. WrittenUpto'
  <2>1. Live /\ link = "up" /\ rcv = "open" => Upto = End
    BY <1>4 DEF WrittenUpto
  <2>2. msgs'[L + 1].at + 0 = End /\ <<L + 1, 0>>[2] = 0 /\ <<L + 1, 0>> # Idle
    BY <1>2, <1>3 DEF Idle
  <2> QED BY <1>3, <1>4, <1>12, <2>1, <2>2 DEF WrittenUpto, Live, Idle
<1>15. InOrder'
  <2>1. \A k \in DOMAIN delivered : k \in 1..L /\ delivered[k] = CmdOf(k)
    BY <1>2 DEF InOrder
  <2>2. \A k \in 1..L : CmdOf(k)' = CmdOf(k)
    BY <1>3 DEF CmdOf
  <2> QED BY <1>2, <1>3, <1>4, <2>1, <2>2 DEF InOrder
<1>16. Framed'
  <2>1. Live /\ frame # 0 => Len(delivered) + 1 \in 1..L
    BY <1>2, <1>6 DEF Framed
  <2>2. Len(delivered) <= L + 1 /\ (Len(delivered) < L => Len(delivered) < L + 1)
    BY <1>2, <1>6
  <2> QED BY <1>3, <1>4, <2>1, <2>2 DEF Framed, Live
<1> QED BY <1>10, <1>11, <1>13, <1>14, <1>15, <1>16

\* Steps that neither write, read nor deliver.
LEMMA QuietOrder ==
  ASSUME OrderInv, UNCHANGED <<msgs, delivered, stream, cbuf, frame>>, Live' => Live,
         link' = "up" /\ rcv' = "open" => link = "up" /\ rcv = "open" /\ writing' = writing,
         LastWritten', Framed'
  PROVE  OrderInv'
<1> USE DEF OrderInv
<1>1. End' = End /\ From' = From /\ Upto' = Upto /\ Layout' /\ InOrder'
  BY Unmoved DEF From, Upto
<1>2. Contiguous'
  BY <1>1 DEF Contiguous
<1>3. WrittenUpto'
  BY <1>1 DEF WrittenUpto
<1> QED BY <1>1, <1>2, <1>3

LEMMA WriteFailOrder ==
  ASSUME TypeInv, OrderInv, NEW w \in Writers, WriteFail(w)
  PROVE  OrderInv'
<1>1. LastWritten'
  <2>1. writing' = [writing EXCEPT ![w] = Idle] /\ writing \in [Writers -> Nat \X Nat]
    BY DEF WriteFail, TypeInv, TypeOK
  <2>2. \A v \in Writers : writing'[v] # Idle => writing'[v] = writing[v]
    BY <2>1
  <2> QED BY <2>2 DEF LastWritten, OrderInv, WriteFail, Idle
<1>2. Framed'
  BY DEF Framed, OrderInv, WriteFail, recvVars, Live
<1> QED BY <1>1, <1>2, QuietOrder DEF WriteFail, recvVars, Live

LEMMA SenderCloseOrder ==
  ASSUME OrderInv, SenderClose
  PROVE  OrderInv'
<1>1. LastWritten'
  BY DEF LastWritten, OrderInv, SenderClose, sendVars, Idle
<1>2. Framed'
  BY DEF Framed, OrderInv, SenderClose, sendVars, recvVars, Live
<1> QED BY <1>1, <1>2, QuietOrder DEF SenderClose, sendVars, recvVars, Live

LEMMA ReceiverCloseOrder ==
  ASSUME OrderInv, ReceiverClose
  PROVE  OrderInv'
<1>1. LastWritten'
  BY DEF LastWritten, OrderInv, ReceiverClose, sendVars, Idle
<1>2. Framed'
  BY DEF Framed, OrderInv, ReceiverClose, sendVars, recvVars, Live
<1> QED BY <1>1, <1>2, QuietOrder DEF ReceiverClose, sendVars, recvVars, Live

LEMMA ReadErrorOrder ==
  ASSUME OrderInv, ReadError
  PROVE  OrderInv'
<1>1. LastWritten'
  BY DEF LastWritten, OrderInv, ReadError, sendVars, Idle
<1>2. Framed'
  BY DEF Framed, OrderInv, ReadError, sendVars, Live
<1> QED BY <1>1, <1>2, QuietOrder DEF ReadError, sendVars, Live

LEMMA StartOrder ==
  ASSUME OrderInv, Start
  PROVE  OrderInv'
<1>1. frame = 0 /\ cbuf = <<>> /\ ~rerr /\ rd = "new"
  BY DEF Framed, OrderInv, Start
<1>2. rd' = "reading" /\ want' = AtMost(HeaderLen, BufSize) /\ cbuf' = cbuf
  BY <1>1 DEF Start, Read
<1>3. UNCHANGED <<sendVars, stream, link, rcv, rerr, frame, header, delivered, closes>>
  BY DEF Start
<1>4. LastWritten'
  BY <1>3 DEF LastWritten, OrderInv, sendVars, Idle
<1>5. Framed'
  BY <1>1, <1>2, <1>3 DEF Framed, OrderInv, sendVars, Live
<1> QED BY <1>1, <1>2, <1>3, <1>4, <1>5, QuietOrder DEF sendVars, Live

LEMMA ResetOrder ==
  ASSUME TypeInv, OrderInv, Reset
  PROVE  OrderInv'
<1> USE DEF OrderInv
<1>1. UNCHANGED <<sendVars, rcv, recvVars>> /\ link' = "reset" /\ stream' = <<>>
  BY DEF Reset
<1>2. End' = End /\ NextCut' = NextCut /\ From' = From /\ Layout' /\ InOrder'
  BY <1>1, Unmoved DEF From, sendVars, recvVars
<1>3. Contiguous'
  <2>1. Upto' = From + Len(cbuf)
    <3>1. Len(<<>>) = 0 /\ From + Len(cbuf) + 0 = From + Len(cbuf)
      BY EmptySeq, CutFacts, SeqFacts DEF TypeInv, Framed
    <3> QED BY <1>1, <1>2, <3>1 DEF Upto, recvVars
  <2>2. From \in Nat /\ Len(cbuf) \in Nat /\ Len(stream) \in Nat /\ End \in Nat
    BY CutFacts, SeqFacts DEF TypeInv, Framed
  <2>3. Live => From + Len(cbuf) <= End
    BY <2>2 DEF Contiguous, Upto
  <2>4. Len(stream') = 0
    BY <1>1, EmptySeq
  <2> QED BY <1>1, <1>2, <2>1, <2>3, <2>4 DEF Contiguous, Live, recvVars
<1>4. LastWritten' /\ WrittenUpto'
  BY <1>1 DEF LastWritten, WrittenUpto, sendVars, Idle
<1>5. Framed'
  BY <1>1 DEF Framed, sendVars, recvVars, Live
<1> QED BY <1>2, <1>3, <1>4, <1>5

LEMMA WriteSomeOrder ==
  ASSUME Sane, TypeInv, OrderInv, NEW w \in Writers, WriteSome(w)
  PROVE  OrderInv'
<1> USE DEF OrderInv
<1> DEFINE L == Len(msgs)
           n == writing[w][2]
<1>1. /\ UNCHANGED <<msgs, link, rcv, recvVars>>
      /\ writing[w] # Idle /\ link = "up" /\ rcv = "open" /\ Live
  BY DEF WriteSome, Live, Framed
<1>2. writing[w][1] = L
  BY <1>1 DEF LastWritten
<1>3. /\ TypeOK /\ L \in 1..L /\ L \in Nat /\ n \in Nat
      /\ msgs[L].at \in Nat /\ FrameLen(L) \in Nat
  BY <1>2, WriteSomeFacts, MsgFacts DEF TypeInv
<1>4. PICK k \in Nat :
        /\ k > 0 /\ n + k <= FrameLen(L)
        /\ stream' = stream \o Bytes(msgs[L].at + n, k)
        /\ writing' = [writing EXCEPT ![w] = IF n + k = FrameLen(L) THEN Idle ELSE <<L, n + k>>]
  BY <1>2, WriteSomeFacts
<1>5. End = msgs[L].at + FrameLen(L) /\ End \in Nat
  <2>1. msgs # <<>>
    <3>1. Len(<<>>) = 0
      BY EmptySeq
    <3> QED BY <1>3, <3>1
  <2> QED BY <1>3, <2>1, EndNat DEF End
<1>6. Upto = msgs[L].at + n
  BY <1>1 DEF WrittenUpto
<1>7. /\ From \in Nat /\ Len(cbuf) \in Nat /\ Len(stream) \in Nat
      /\ Upto = From + Len(cbuf) + Len(stream)
  BY <1>3, CutFacts, SeqFacts DEF Framed, Upto
<1>8. /\ Len(stream') = Len(stream) + k
      /\ \A i \in 1..Len(stream') : stream'[i] = From + Len(cbuf) + i
  <2> DEFINE p == msgs[L].at + n
             b == Bytes(p, k)
  <2>1. b \in Seq(Nat) /\ Len(b) = k /\ \A i \in 1..k : b[i] = p + i
    <3>1. p \in Nat
      BY <1>3
    <3> HIDE DEF p
    <3> QED BY <3>1, BytesSeq
  <2>2. stream \in Seq(Nat) /\ stream' = stream \o b
    BY <1>3, <1>4 DEF TypeOK
  <2>3. p = From + Len(cbuf) + Len(stream)
    BY <1>6, <1>7
  <2>4. \A i \in 1..Len(stream) : stream[i] = From + Len(cbuf) + i
    BY <1>1 DEF Contiguous
  <2> HIDE DEF p, b
  <2>5. /\ Len(stream \o b) = Len(stream) + Len(b)
        /\ \A i \in 1..(Len(stream) + Len(b)) :
             (stream \o b)[i] = IF i <= Len(stream) THEN stream[i] ELSE b[i - Len(stream)]
    BY <2>1, <2>2, ConcatProperties
  <2>6. Len(stream') = Len(stream) + k
    BY <2>1, <2>2, <2>5
  <2>7. ASSUME NEW i \in 1..(Len(stream) + k)
        PROVE  stream'[i] = From + Len(cbuf) + i
    <3>1. stream'[i] = IF i <= Len(stream) THEN stream[i] ELSE b[i - Len(stream)]
      BY <2>1, <2>2, <2>5, Zenon
    <3>2. CASE i <= Len(stream)
      <4>1. i \in 1..Len(stream)
        BY <1>7, <3>2
      <4> QED BY <2>4, <3>1, <3>2, <4>1
    <3>3. CASE ~(i <= Len(stream))
      <4>1. i - Len(stream) \in 1..k
        BY <1>7, <3>3
      <4>2. stream'[i] = p + (i - Len(stream))
        BY <2>1, <3>1, <3>3, <4>1
      <4> QED BY <1>7, <2>3, <4>2
    <3> QED BY <3>2, <3>3
  <2> QED BY <2>6, <2>7
<1>9. End' = End /\ From' = From /\ Layout' /\ InOrder'
  BY <1>1, Unmoved DEF From, recvVars
<1>10. Upto' = Upto + k
  <2>1. Upto' = From' + Len(cbuf') + Len(stream')
    BY DEF Upto
  <2>2. cbuf' = cbuf
    BY <1>1 DEF recvVars
  <2> QED BY <1>7, <1>8, <1>9, <2>1, <2>2
<1>11. Contiguous'
  <2>1. (msgs[L].at + n) + k <= msgs[L].at + FrameLen(L)
    <3> DEFINE a == msgs[L].at
               f == FrameLen(L)
    <3>1. a \in Nat /\ f \in Nat /\ n \in Nat /\ n + k <= f
      BY <1>3, <1>4
    <3> HIDE DEF a, f, n
    <3>2. (a + n) + k <= a + f
      BY <3>1
    <3> QED BY <3>2 DEF a, f
  <2>2. Upto' <= End'
    <3>1. Upto' = (msgs[L].at + n) + k /\ End' = msgs[L].at + FrameLen(L)
      BY <1>5, <1>6, <1>9, <1>10
    <3> HIDE DEF L, n
    <3> QED BY <2>1, <3>1, Zenon
  <2> QED BY <1>1, <1>8, <1>9, <2>2 DEF Contiguous, recvVars
<1>12. writing'[w] = IF n + k = FrameLen(L) THEN Idle ELSE <<L, n + k>>
  BY <1>3, <1>4 DEF TypeOK
<1>13. LastWritten'
  <2>1. writing'[w] # Idle => writing'[w][1] = L
    BY <1>12
  <2> QED BY <1>1, <2>1 DEF Sane, LastWritten, Idle
<1>14. WrittenUpto'
  <2>1. CASE n + k = FrameLen(L)
    <3>1. writing'[w] = Idle /\ Upto' = End'
      BY <1>3, <1>5, <1>6, <1>9, <1>10, <1>12, <2>1
    <3> QED BY <3>1 DEF Sane, WrittenUpto, Idle
  <2>2. CASE n + k # FrameLen(L)
    <3>1. writing'[w] = <<L, n + k>>
      BY <1>12, <2>2
    <3>2. writing'[w] # Idle /\ writing'[w][2] = n + k
      <4> HIDE DEF n, L
      <4> QED BY <1>3, <3>1 DEF Idle
    <3>3. Upto' = msgs'[Len(msgs')].at + writing'[w][2]
      BY <1>1, <1>3, <1>6, <1>10, <3>2
    <3> QED BY <3>2, <3>3 DEF Sane, WrittenUpto, Idle
  <2> QED BY <2>1, <2>2
<1>15. Framed'
  BY <1>1 DEF Framed, recvVars, Live
<1> QED BY <1>9, <1>11, <1>13, <1>14, <1>15

LEMMA ReadSomeOrder ==
  ASSUME TypeInv, OrderInv, ReadSome
  PROVE  OrderInv'
<1> USE DEF OrderInv
<1> DEFINE k == AtMost(Len(stream), want - Len(cbuf))
<1>1. /\ UNCHANGED <<sendVars, link, rcv, want, rerr, frame, header, delivered, closes>>
      /\ cbuf' = cbuf \o SubSeq(stream, 1, k)
      /\ stream' = SubSeq(stream, k + 1, Len(stream))
      /\ rd = "reading" /\ rd' = IF Len(cbuf) + k = want THEN "ready" ELSE "reading"
  BY DEF ReadSome
<1>2. /\ TypeOK /\ k \in Nat /\ k <= Len(stream) /\ From \in Nat
      /\ Len(cbuf) \in Nat /\ Len(stream) \in Nat
      /\ stream \in Seq(Nat) /\ cbuf \in Seq(Nat)
  <2>1. k \in Nat /\ k <= Len(stream)
    BY <1>1 DEF TypeInv, TypeOK, AtMost, CbufFits
  <2>2. TypeOK /\ From \in Nat /\ Len(cbuf) \in Nat /\ Len(stream) \in Nat
    BY CutFacts, SeqFacts DEF TypeInv, Framed
  <2> QED BY <2>1, <2>2 DEF TypeOK
<1> HIDE DEF k
<1>3. /\ SubSeq(stream, 1, k) \in Seq(Nat) /\ Len(SubSeq(stream, 1, k)) = k
      /\ \A i \in 1..k : SubSeq(stream, 1, k)[i] = stream[i]
      /\ Len(stream') = Len(stream) - k
      /\ \A i \in 1..(Len(stream) - k) : stream'[i] = stream[k + i]
  <2>1. /\ \A i \in 1..k : stream[i] \in Nat
        /\ \A i \in (k + 1)..Len(stream) : stream[i] \in Nat
    BY <1>2
  <2>2. /\ SubSeq(stream, 1, k) \in Seq(Nat) /\ Len(SubSeq(stream, 1, k)) = k
        /\ \A i \in 1..k : SubSeq(stream, 1, k)[i] = stream[i]
    BY <1>2, <2>1, SubSeqProperties
  <2>3. /\ Len(SubSeq(stream, k + 1, Len(stream))) = Len(stream) - k
        /\ \A i \in 1..(Len(stream) - k) :
             SubSeq(stream, k + 1, Len(stream))[i] = stream[k + i]
    BY <1>2, <2>1, SubSeqProperties
  <2> QED BY <1>1, <2>2, <2>3
<1>4. /\ Len(cbuf') = Len(cbuf) + k
      /\ \A i \in 1..(Len(cbuf) + k) :
           cbuf'[i] = IF i <= Len(cbuf) THEN cbuf[i] ELSE stream[i - Len(cbuf)]
  <2>1. /\ Len(cbuf') = Len(cbuf) + k
        /\ \A i \in 1..(Len(cbuf) + k) :
           cbuf'[i] = IF i <= Len(cbuf) THEN cbuf[i] ELSE SubSeq(stream, 1, k)[i - Len(cbuf)]
    BY <1>1, <1>2, <1>3, ConcatProperties
  <2>2. ASSUME NEW i \in 1..(Len(cbuf) + k)
        PROVE  cbuf'[i] = IF i <= Len(cbuf) THEN cbuf[i] ELSE stream[i - Len(cbuf)]
    <3>1. CASE i <= Len(cbuf)
      BY <2>1, <3>1
    <3>2. CASE ~(i <= Len(cbuf))
      <4>1. i - Len(cbuf) \in 1..k
        BY <1>2, <3>2
      <4> QED BY <1>3, <2>1, <3>2, <4>1
    <3> QED BY <3>1, <3>2
  <2> QED BY <2>1, <2>2
<1>5. End' = End /\ From' = From /\ Layout' /\ InOrder'
  BY <1>1, Unmoved DEF From, sendVars
<1>6. Upto' = Upto
  <2>1. Upto' = From' + Len(cbuf') + Len(stream')
    BY DEF Upto
  <2> QED BY <1>2, <1>3, <1>4, <1>5, <2>1 DEF Upto
<1>7. Contiguous'
  <2>1. /\ \A i \in 1..Len(cbuf) : cbuf[i] = From + i
        /\ \A i \in 1..Len(stream) : stream[i] = From + Len(cbuf) + i
        /\ Upto <= End
    BY <1>1 DEF Contiguous, Live
  <2>2. ASSUME NEW i \in 1..(Len(cbuf) + k)
        PROVE  cbuf'[i] = From + i
    <3>1. CASE i <= Len(cbuf)
      <4>1. i \in 1..Len(cbuf)
        BY <1>2, <3>1
      <4> QED BY <1>4, <2>1, <3>1, <4>1
    <3>2. CASE ~(i <= Len(cbuf))
      <4>1. i - Len(cbuf) \in 1..Len(stream)
        BY <1>2, <3>2
      <4>2. cbuf'[i] = From + Len(cbuf) + (i - Len(cbuf))
        BY <1>4, <2>1, <3>2, <4>1
      <4> QED BY <1>2, <4>2
    <3> QED BY <3>1, <3>2
  <2>3. \A i \in 1..Len(stream') : stream'[i] = From + Len(cbuf') + i
    BY <1>2, <1>3, <1>4, <2>1
  <2> QED BY <1>4, <1>5, <1>6, <2>1, <2>2, <2>3 DEF Contiguous
<1>8. WrittenUpto' /\ LastWritten'
  BY <1>1, <1>5, <1>6 DEF WrittenUpto, LastWritten, sendVars, Live, Idle
<1>9. Framed'
  BY <1>1, <1>4 DEF Framed, sendVars, Live
<1> QED BY <1>5, <1>7, <1>8, <1>9

\* What readed() holds in cbuf when it expects a header: the next message's.
LEMMA HeaderHere ==
  ASSUME Sane, TypeInv, OrderInv, rd = "ready", ~rerr, frame < 1
  PROVE  /\ frame = 0 /\ Len(cbuf) = HeaderLen
         /\ Len(delivered) < Len(msgs) /\ Len(delivered) + 1 \in 1..Len(msgs)
         /\ NextCut = msgs[Len(delivered) + 1].at
         /\ cbuf = Bytes(NextCut, HeaderLen)
         /\ Parse(cbuf) = {msgs[Len(delivered) + 1].len}
<1> USE DEF OrderInv, TypeInv
<1>1. frame = 0 /\ HeaderLen \in Nat /\ HeaderLen > 0 /\ Len(cbuf) = HeaderLen
  <2>1. frame = 0 /\ HeaderLen \in Nat /\ HeaderLen > 0 /\ HeaderLen <= BufSize
    BY SeqFacts
  <2>2. Len(cbuf) = AtMost(HeaderLen, BufSize)
    BY <2>1 DEF Framed
  <2> QED BY <2>1, <2>2 DEF AtMost
<1>2. /\ NextCut \in Nat /\ End \in Nat /\ Len(stream) \in Nat /\ From = NextCut
      /\ Len(delivered) <= Len(msgs) /\ Len(delivered) \in Nat /\ Len(msgs) \in Nat
  BY <1>1, CutFacts, SeqFacts, MsgFacts DEF Framed, From
<1>3. NextCut + HeaderLen + Len(stream) <= End
  <2>1. Upto <= End /\ Upto = NextCut + HeaderLen + Len(stream)
    BY <1>1, <1>2 DEF Contiguous, Live, Upto
  <2> QED BY <2>1
<1>4. Len(delivered) < Len(msgs)
  <2>1. NextCut # End
    BY <1>1, <1>2, <1>3
  <2> QED BY <2>1 DEF NextCut
<1>5. Len(delivered) + 1 \in 1..Len(msgs) /\ NextCut = msgs[Len(delivered) + 1].at
  BY <1>2, <1>4, CutFacts
<1>6. cbuf = Bytes(NextCut, HeaderLen)
  <2>1. \A i \in 1..Len(cbuf) : cbuf[i] = NextCut + i
    BY <1>2 DEF Contiguous, Live
  <2>2. /\ Bytes(NextCut, HeaderLen) \in Seq(Nat) /\ Len(Bytes(NextCut, HeaderLen)) = HeaderLen
        /\ \A i \in 1..HeaderLen : Bytes(NextCut, HeaderLen)[i] = NextCut + i
    BY <1>1, <1>2, BytesSeq
  <2>3. cbuf \in Seq(Nat) /\ \A i \in 1..Len(cbuf) : cbuf[i] = Bytes(NextCut, HeaderLen)[i]
    BY <1>1, <2>1, <2>2 DEF TypeOK
  <2> QED BY <1>1, <2>2, <2>3, SeqEqual
<1>7. Parse(cbuf) = {msgs[Len(delivered) + 1].len}
  <2> DEFINE m == Len(delivered) + 1
  <2>1. m \in 1..Len(msgs) /\ cbuf = Bytes(msgs[m].at, HeaderLen)
    BY <1>5, <1>6
  <2> HIDE DEF m
  <2>2. Parse(Bytes(msgs[m].at, HeaderLen)) = {msgs[m].len}
    BY <2>1, ParseOwn
  <2>3. Parse(cbuf) = {msgs[m].len}
    BY <2>1, <2>2, Zenon
  <2> QED BY <2>3 DEF m
<1> QED BY <1>1, <1>4, <1>5, <1>6, <1>7

\* And when it expects a payload: the next message's, or as much of it as fits.
LEMMA PayloadHere ==
  ASSUME Sane, TypeInv, OrderInv, rd = "ready", ~rerr, frame >= 1
  PROVE  /\ Len(delivered) < Len(msgs) /\ Len(delivered) + 1 \in 1..Len(msgs)
         /\ frame = msgs[Len(delivered) + 1].len
         /\ Len(cbuf) = AtMost(frame, BufSize)
         /\ frame = Len(cbuf) => Command = CmdOf(Len(delivered) + 1)
<1> USE DEF OrderInv, TypeInv
<1> DEFINE m == Len(delivered) + 1
<1>1. /\ Len(delivered) < Len(msgs) /\ frame = msgs[m].len /\ frame # 0
      /\ header = Bytes(msgs[m].at, HeaderLen) /\ Len(cbuf) = AtMost(frame, BufSize)
  <2>1. frame # 0
    BY SeqFacts
  <2> QED BY <2>1 DEF Framed, Live
<1>2. m \in 1..Len(msgs) /\ NextCut = msgs[m].at /\ NextCut \in Nat
  BY <1>1, CutFacts DEF Framed
<1>3. ASSUME frame = Len(cbuf) PROVE Command = CmdOf(m)
  <2> DEFINE p == msgs[m].at + HeaderLen
             len == msgs[m].len
  <2>1. p \in Nat /\ len \in Nat /\ Len(cbuf) = len /\ From = p
    BY <1>1, <1>2, <1>3, SeqFacts DEF From
  <2>2. cbuf \in Seq(Nat) /\ \A i \in 1..Len(cbuf) : cbuf[i] = From + i
    BY DEF Contiguous, Live, TypeOK
  <2> HIDE DEF p, len
  <2>3. /\ Bytes(p, len) \in Seq(Nat) /\ Len(Bytes(p, len)) = len
        /\ \A i \in 1..len : Bytes(p, len)[i] = p + i
    BY <2>1, BytesSeq
  <2>4. \A i \in 1..Len(cbuf) : cbuf[i] = Bytes(p, len)[i]
    BY <2>1, <2>2, <2>3
  <2>5. cbuf = Bytes(p, len)
    BY <2>1, <2>2, <2>3, <2>4, SeqEqual
  <2>6. cbuf = Bytes(msgs[m].at + HeaderLen, msgs[m].len)
    BY <2>5 DEF p, len
  <2> HIDE DEF m
  <2> QED BY <1>1, <2>6 DEF Command, CmdOf
<1> QED BY <1>1, <1>2, <1>3

LEMMA DropOrder ==
  ASSUME OrderInv, Drop, UNCHANGED <<sendVars, stream, link, rerr>>
  PROVE  OrderInv'
<1> USE DEF OrderInv
<1>1. Layout' /\ InOrder'
  BY Unmoved DEF Drop, sendVars
<1>2. LastWritten'
  BY DEF LastWritten, sendVars, Idle
<1>3. Contiguous' /\ WrittenUpto'
  BY DEF Contiguous, WrittenUpto, Drop, Live
<1>4. Framed'
  BY DEF Framed, Drop, Live, sendVars
<1> QED BY <1>1, <1>2, <1>3, <1>4

LEMMA AnnounceOrder ==
  ASSUME Sane, TypeInv, OrderInv, rd = "ready", ~rerr, frame < 1,
         NEW f \in Parse(cbuf), Announce(f), UNCHANGED <<sendVars, stream, link, rerr>>
  PROVE  OrderInv'
<1> USE DEF OrderInv, TypeInv
<1>1. f = msgs[Len(delivered) + 1].len /\ f >= 1
  BY HeaderHere DEF Announce
<1>2. /\ frame' = f /\ header' = cbuf /\ rd' = "reading" /\ cbuf' = <<>>
      /\ want' = AtMost(f, BufSize) /\ UNCHANGED <<rcv, delivered, closes>>
      /\ UNCHANGED <<msgs, writing, stream, link, rerr>>
  BY DEF Announce, Read, sendVars
<1>3. End' = End /\ NextCut' = NextCut /\ Layout' /\ InOrder'
  BY <1>2, Unmoved
<1>4. f # 0 /\ f \in Nat
  <2>1. f \in Nat
    BY ParseNat
  <2> QED BY <1>1, <2>1
<1>5. From' = NextCut + HeaderLen /\ From = NextCut
  BY <1>2, <1>3, <1>4, HeaderHere DEF From
<1>6. /\ NextCut \in Nat /\ HeaderLen \in Nat /\ Len(stream) \in Nat /\ Len(<<>>) = 0
      /\ Len(cbuf) = HeaderLen
  BY CutFacts, SeqFacts, HeaderHere, EmptySeq DEF Framed
<1>7. Upto' = Upto
  <2>1. Upto' = From' + Len(cbuf') + Len(stream')
    BY DEF Upto
  <2>2. Upto' = NextCut + HeaderLen + 0 + Len(stream)
    BY <1>2, <1>5, <1>6, <2>1
  <2>3. Upto = NextCut + HeaderLen + Len(stream)
    BY <1>5, <1>6 DEF Upto
  <2> QED BY <1>6, <2>2, <2>3
<1>8. Contiguous'
  <2>1. /\ \A i \in 1..Len(stream) : stream[i] = From + Len(cbuf) + i
        /\ Upto <= End
    BY DEF Contiguous, Live
  <2>2. \A i \in 1..Len(stream) : stream[i] = From' + 0 + i
    BY <1>5, <1>6, <2>1
  <2>3. Len(cbuf') = 0
    BY <1>2, <1>6
  <2> QED BY <1>2, <1>3, <1>7, <2>1, <2>2, <2>3 DEF Contiguous
<1>9. LastWritten' /\ WrittenUpto'
  BY <1>2, <1>3, <1>7 DEF LastWritten, WrittenUpto, Idle, Live
<1>10. Framed'
  <2>1. header' = Bytes(msgs[Len(delivered) + 1].at, HeaderLen) /\ Len(delivered) < Len(msgs)
    BY <1>2, HeaderHere
  <2>2. Len(delivered) <= Len(msgs)
    BY DEF Framed
  <2> QED BY <1>1, <1>2, <1>4, <2>1, <2>2 DEF Framed, Live
<1> QED BY <1>3, <1>8, <1>9, <1>10

LEMMA DeliverOrder ==
  ASSUME Sane, TypeInv, OrderInv, rd = "ready", ~rerr, frame >= 1, frame = Len(cbuf),
         delivered' = Append(delivered, Command), frame' = 0, Read(HeaderLen),
         UNCHANGED <<rcv, header, closes>>, UNCHANGED <<sendVars, stream, link, rerr>>
  PROVE  OrderInv'
<1> USE DEF OrderInv, TypeInv
<1> DEFINE d == Len(delivered)
           m == d + 1
<1>1. /\ d < Len(msgs) /\ m \in 1..Len(msgs) /\ frame = msgs[m].len /\ Command = CmdOf(m)
      /\ d \in Nat /\ Len(msgs) \in Nat /\ DOMAIN msgs = 1..Len(msgs)
  BY PayloadHere, SeqFacts, MsgFacts
<1>2. /\ rd' = "reading" /\ cbuf' = <<>> /\ want' = AtMost(HeaderLen, BufSize)
      /\ UNCHANGED <<msgs, writing, stream, link, rerr, rcv, header, closes>>
  BY DEF Read, sendVars
<1>3. /\ Len(delivered') = m /\ DOMAIN delivered' = 1..m
      /\ \A i \in 1..d : delivered'[i] = delivered[i]
      /\ delivered'[m] = CmdOf(m)
  <2> DEFINE C == [header : Seq(Nat), data : Seq(Nat)]
  <2>1. delivered \in Seq(C) /\ Command \in C
    BY DEF TypeOK, Command
  <2> HIDE DEF C
  <2>2. /\ delivered' \in Seq(C) /\ Len(delivered') = m
        /\ \A i \in 1..d : delivered'[i] = delivered[i]
        /\ delivered'[m] = Command
    BY <2>1, AppendProperties
  <2>3. DOMAIN delivered' = 1..Len(delivered')
    BY <2>2, LenProperties
  <2> QED BY <1>1, <2>2, <2>3
<1>4. InOrder'
  <2>1. ASSUME NEW i \in DOMAIN delivered'
        PROVE  i \in DOMAIN msgs' /\ delivered'[i] = CmdOf(i)'
    <3>1. CmdOf(i)' = CmdOf(i) /\ msgs' = msgs
      BY <1>2 DEF CmdOf
    <3>2. CASE i = m
      BY <1>1, <1>3, <3>1, <3>2
    <3>3. CASE i \in 1..d
      <4>1. i \in DOMAIN msgs /\ delivered[i] = CmdOf(i)
        BY <3>3, SeqFacts DEF InOrder
      <4> QED BY <1>3, <3>1, <3>3, <4>1
    <3> QED BY <1>1, <1>3, <3>2, <3>3
  <2> QED BY <2>1 DEF InOrder
<1>5. Layout' /\ LastWritten'
  BY <1>2 DEF Layout, LastWritten, FrameLen, Idle
<1>6. End' = End
  BY <1>2 DEF End, FrameLen
<1>7. NextCut' = NextCut + FrameLen(m)
  <2>1. NextCut + FrameLen(m) = IF m < Len(msgs) THEN msgs[d + 2].at ELSE End
    BY <1>1, CutFacts DEF Framed
  <2>2. m + 1 = d + 2
    BY <1>1
  <2>3. NextCut' = IF Len(delivered') < Len(msgs') THEN msgs'[Len(delivered') + 1].at ELSE End'
    BY DEF NextCut
  <2> QED BY <1>2, <1>3, <1>6, <2>1, <2>2, <2>3
<1>8. /\ NextCut \in Nat /\ HeaderLen \in Nat /\ Len(stream) \in Nat /\ Len(<<>>) = 0
      /\ frame \in Nat /\ From = NextCut + HeaderLen /\ FrameLen(m) = HeaderLen + frame
      /\ From \in Nat
  <2>1. frame # 0
    BY SeqFacts
  <2> QED BY <1>1, <2>1, CutFacts, SeqFacts, EmptySeq DEF Framed, From, FrameLen
<1>9. From' = From + Len(cbuf)
  <2>1. From' = NextCut'
    BY DEF From
  <2> QED BY <1>7, <1>8, <2>1
<1>10. Upto' = Upto
  <2>1. Upto' = From' + Len(cbuf') + Len(stream')
    BY DEF Upto
  <2>2. Upto' = (From + Len(cbuf)) + 0 + Len(stream)
    BY <1>2, <1>8, <1>9, <2>1
  <2> QED BY <1>8, <2>2 DEF Upto
<1>11. Contiguous'
  <2>1. /\ \A i \in 1..Len(stream) : stream[i] = From + Len(cbuf) + i
        /\ Upto <= End
    BY DEF Contiguous, Live
  <2>2. \A i \in 1..Len(stream) : stream[i] = From' + 0 + i
    BY <1>8, <1>9, <2>1
  <2>3. Len(cbuf') = 0
    BY <1>2, <1>8
  <2> QED BY <1>2, <1>6, <1>10, <2>1, <2>2, <2>3 DEF Contiguous
<1>12. WrittenUpto'
  BY <1>2, <1>6, <1>10 DEF WrittenUpto, Idle, Live
<1>13. Framed'
  <2>1. Len(delivered') <= Len(msgs')
    BY <1>1, <1>2, <1>3
  <2> QED BY <1>2, <2>1 DEF Framed, Live
<1> QED BY <1>4, <1>5, <1>11, <1>12, <1>13

LEMMA ReadedOrder ==
  ASSUME Sane, TypeInv, OrderInv, Readed
  PROVE  OrderInv'
<1>1. rd = "ready" /\ UNCHANGED <<sendVars, stream, link, rerr>>
  BY DEF Readed
<1>2. CASE Drop
  BY <1>1, <1>2, DropOrder
<1>3. ASSUME ~rerr, frame < 1, NEW f \in Parse(cbuf), Announce(f) PROVE OrderInv'
  BY <1>1, <1>3, AnnounceOrder
<1>4. CASE /\ ~rerr /\ frame >= 1 /\ frame = Len(cbuf)
           /\ delivered' = Append(delivered, Command) /\ frame' = 0
           /\ Read(HeaderLen) /\ UNCHANGED <<rcv, header, closes>>
  BY <1>1, <1>4, DeliverOrder
<1> QED BY <1>2, <1>3, <1>4 DEF Readed, HeaderRead, PayloadRead

LEMMA OrderStep ==
  ASSUME Sane, TypeInv, OrderInv, [Next]_vars
  PROVE  OrderInv'
<1>1. ASSUME NEW w \in Writers, Write(w) PROVE OrderInv'
  BY <1>1, WriteOrder
<1>2. ASSUME NEW w \in Writers, WriteSome(w) PROVE OrderInv'
  BY <1>2, WriteSomeOrder
<1>3. ASSUME NEW w \in Writers, WriteFail(w) PROVE OrderInv'
  BY <1>3, WriteFailOrder
<1>4. CASE SenderClose
  BY <1>4, SenderCloseOrder
<1>5. CASE Reset
  BY <1>5, ResetOrder
<1>6. CASE Start
  BY <1>6, StartOrder
<1>7. CASE ReadSome
  BY <1>7, ReadSomeOrder
<1>8. CASE ReadError
  BY <1>8, ReadErrorOrder
<1>9. CASE Readed
  BY <1>9, ReadedOrder
<1>10. CASE ReceiverClose
  BY <1>10, ReceiverCloseOrder
<1>11. CASE UNCHANGED vars
  <2>1. LastWritten' /\ Framed'
    BY <1>11 DEF vars, OrderInv, LastWritten, Framed, Live, Idle
  <2> QED BY <1>11, <2>1, QuietOrder DEF vars, Live
<1> QED
  BY <1>1, <1>2, <1>3, <1>4, <1>5, <1>6, <1>7, <1>8, <1>9, <1>10, <1>11
  DEF Next, WriterStep

\* With one write() at a time, TCP_ is a FIFO of commands: however the kernel cuts
\* the bytes, OnCmd gets the messages whole, in order, none missing.
THEOREM CommandsInOrder ==
  ASSUME Sane
  PROVE  Spec => []InOrder
<1>1. Init => TypeInv /\ OrderInv
  BY TypeInit, OrderInit
<1>2. TypeInv /\ OrderInv /\ [Next]_vars => TypeInv' /\ OrderInv'
  BY TypeStep, OrderStep
<1>3. OrderInv => InOrder
  BY DEF OrderInv
<1> QED BY <1>1, <1>2, <1>3, PTL DEF Spec

Reason ==
  \/ link # "up"
  \/ rcv = "closed"
  \/ /\ Len(delivered) < Len(msgs)
     /\ msgs[Len(delivered) + 1].len \notin 1..BufSize

\* Each way into Drop has its reason.
LEMMA DropReason ==
  ASSUME Sane, TypeInv, OrderInv, [Next]_vars, closes' # closes
  PROVE  Reason
<1> USE DEF OrderInv, TypeInv
<1>1. Readed
  BY DEF Next, WriterStep, Write, WriteSome, WriteFail, SenderClose, Reset, Start,
         ReadSome, ReadError, ReceiverClose, recvVars, vars
<1>2. rd = "ready"
  BY <1>1 DEF Readed
<1>3. CASE rerr
  BY <1>2, <1>3 DEF Framed, Reason
<1>4. CASE ~rerr /\ frame < 1
  <2>1. /\ Len(cbuf) = HeaderLen /\ Len(delivered) < Len(msgs)
        /\ Parse(cbuf) = {msgs[Len(delivered) + 1].len} /\ HeaderLen \in Nat /\ frame = 0
    BY <1>2, <1>4, HeaderHere, SeqFacts
  <2>2. \A f \in Parse(cbuf) : ~Announce(f)
    BY DEF Announce
  <2>3. PICK f \in Parse(cbuf) : f < 1
    BY <1>1, <1>4, <2>1, <2>2 DEF Readed, HeaderRead, PayloadRead
  <2>4. msgs[Len(delivered) + 1].len < 1 /\ msgs[Len(delivered) + 1].len \in Nat
    BY <2>1, <2>3, ParseNat
  <2> QED BY <2>1, <2>4, StreamAssumption DEF Reason
<1>5. CASE ~rerr /\ frame >= 1
  <2>1. /\ Len(delivered) < Len(msgs) /\ frame = msgs[Len(delivered) + 1].len
        /\ Len(cbuf) = AtMost(frame, BufSize) /\ frame \in Nat
    BY <1>2, <1>5, PayloadHere, SeqFacts
  <2>2. frame # Len(cbuf)
    BY <1>1, <1>5 DEF Readed, HeaderRead, PayloadRead
  <2>3. frame \notin 1..BufSize
    BY <2>1, <2>2, StreamAssumption DEF AtMost
  <2> QED BY <2>1, <2>3 DEF Reason
<1>6. frame \in Nat
  BY SeqFacts
<1> QED BY <1>3, <1>4, <1>5, <1>6

\* readed() never gives up a connection that both ends keep open over a message
\* it could have delivered: no cut of the bytes looks like an error.
THEOREM DropsJustified ==
  ASSUME Sane
  PROVE  Spec => DropJustified
<1>1. Init => TypeInv /\ OrderInv
  BY TypeInit, OrderInit
<1>2. TypeInv /\ OrderInv /\ [Next]_vars => TypeInv' /\ OrderInv'
  BY TypeStep, OrderStep
<1>3. TypeInv /\ OrderInv /\ [Next]_vars => [closes' # closes => Reason]_vars
  BY DropReason
<1>4. [closes' # closes => Reason]_vars =>
      [closes' # closes =>
       \/ link # "up"
       \/ rcv = "closed"
       \/ /\ Len(delivered) < Len(msgs)
          /\ msgs[Len(delivered) + 1].len \notin 1..BufSize]_vars
  BY DEF Reason
<1> QED BY <1>1, <1>2, <1>3, <1>4, PTL DEF Spec, DropJustified

-----------------------------------------------------------------------------
(* TcpStream implements FrameChannel: each step of the byte level is a step of *)
(* the channel of commands, or none.                                          *)

\* The channel's view of the messages.
Sent == [m \in DOMAIN msgs |-> CmdOf(m)]

StreamInv == TypeInv /\ OrderInv /\ CloseEnds

LEMMA StreamInit ==
  ASSUME Sane, Init
  PROVE  StreamInv
<1>1. TypeInv /\ OrderInv
  BY TypeInit, OrderInit
<1> QED BY <1>1 DEF StreamInv, CloseEnds, Init

LEMMA StreamStep ==
  ASSUME Sane, StreamInv, [Next]_vars
  PROVE  StreamInv'
BY TypeStep, OrderStep, CloseEndsStep DEF StreamInv

LEMMA CmdOfType ==
  ASSUME TypeOK, NEW m \in DOMAIN msgs
  PROVE  CmdOf(m) \in [header : Seq(Nat), data : Seq(Nat)]
<1>1. msgs[m].at \in Nat /\ msgs[m].len \in Nat /\ HeaderLen \in Nat
  BY MsgFacts, StreamAssumption
<1>2. msgs[m].at + HeaderLen \in Nat
  BY <1>1
<1>3. Bytes(msgs[m].at, HeaderLen) \in Seq(Nat)
  BY <1>1, BytesSeq
<1>4. Bytes(msgs[m].at + HeaderLen, msgs[m].len) \in Seq(Nat)
  BY <1>1, <1>2, BytesSeq
<1> QED BY <1>3, <1>4 DEF CmdOf

LEMMA SentSeq ==
  ASSUME TypeOK
  PROVE  /\ Sent \in Seq([header : Seq(Nat), data : Seq(Nat)])
         /\ Len(Sent) = Len(msgs)
         /\ \A m \in 1..Len(msgs) : Sent[m] = CmdOf(m)
<1> DEFINE C == [header : Seq(Nat), data : Seq(Nat)]
<1>1. \A m \in DOMAIN msgs : CmdOf(m) \in C
  BY CmdOfType
<1>2. DOMAIN msgs = 1..Len(msgs) /\ Len(msgs) \in Nat
  BY MsgFacts
<1> HIDE DEF C
<1>3. /\ Sent \in [1..Len(msgs) -> C] /\ DOMAIN Sent = 1..Len(msgs)
      /\ \A m \in 1..Len(msgs) : Sent[m] = CmdOf(m)
  BY <1>1, <1>2 DEF Sent
<1>4. Sent \in Seq(C)
  BY <1>2, <1>3, SeqDef
<1>5. Len(Sent) = Len(msgs)
  BY <1>2, <1>3, <1>4, LenProperties
<1> QED BY <1>3, <1>4, <1>5 DEF C

-----------------------------------------------------------------------------
(* The steps *)

LEMMA ChannelInit ==
  ASSUME Init
  PROVE  Channel!Init
<1>1. msgs = <<>> /\ delivered = <<>> /\ closes = 0
  BY DEF Init
<1>2. Sent = <<>>
  BY <1>1 DEF Sent
<1> QED BY <1>1, <1>2 DEF Channel!Init, Sent

\* A call of write() is a Send.
LEMMA WriteSends ==
  ASSUME TypeOK, NEW w \in Writers, Write(w)
  PROVE  Channel!Send
<1> DEFINE C == [header : Seq(Nat), data : Seq(Nat)]
           L == Len(msgs)
<1>1. PICK len \in Lens : msgs' = Append(msgs, [at |-> End, len |-> len])
  BY DEF Write
<1> DEFINE e == [at |-> End, len |-> len]
           c == [header |-> Bytes(End, HeaderLen), data |-> Bytes(End + HeaderLen, len)]
<1>2. /\ L \in Nat /\ DOMAIN msgs = 1..L /\ End \in Nat /\ len \in Nat
      /\ HeaderLen \in Nat /\ End + HeaderLen \in Nat
      /\ UNCHANGED <<delivered, closes>>
  BY MsgFacts, EndNat, StreamAssumption DEF Write, recvVars
<1>3. /\ Len(msgs') = L + 1 /\ DOMAIN msgs' = 1..(L + 1)
      /\ \A i \in 1..L : msgs'[i] = msgs[i]
      /\ msgs'[L + 1] = e
  <2> DEFINE S == [at : Nat, len : Lens]
  <2>1. msgs \in Seq(S) /\ e \in S /\ msgs' = Append(msgs, e)
    BY <1>1, <1>2 DEF TypeOK
  <2> HIDE DEF S, e
  <2>2. /\ msgs' \in Seq(S) /\ Len(msgs') = L + 1 /\ \A i \in 1..L : msgs'[i] = msgs[i]
        /\ msgs'[L + 1] = e
    BY <2>1, AppendProperties
  <2> QED BY <2>2, LenProperties
<1>4. c \in C
  BY <1>2, BytesSeq
<1>5. /\ Sent \in Seq(C) /\ Len(Sent) = L
      /\ \A m \in 1..L : Sent[m] = CmdOf(m)
  BY SentSeq
<1>6. \A m \in 1..(L + 1) : CmdOf(m)' = IF m = L + 1 THEN c ELSE CmdOf(m)
  <2>1. ASSUME NEW m \in 1..L PROVE CmdOf(m)' = CmdOf(m)
    <3>1. msgs'[m] = msgs[m]
      BY <1>3
    <3> QED BY <3>1, Zenon DEF CmdOf
  <2>2. ASSUME NEW m, m = L + 1 PROVE CmdOf(m)' = c
    <3>1. msgs'[m].at = End /\ msgs'[m].len = len
      BY <1>3, <2>2
    <3> QED BY <3>1, Zenon DEF CmdOf
  <2> QED BY <1>2, <2>1, <2>2
<1> HIDE DEF C, c
<1>7. /\ DOMAIN Sent' = 1..(L + 1)
      /\ \A m \in 1..(L + 1) : Sent'[m] = IF m = L + 1 THEN c ELSE Sent[m]
  <2>1. /\ DOMAIN Sent' = 1..(L + 1)
        /\ \A m \in 1..(L + 1) : Sent'[m] = CmdOf(m)'
    BY <1>3 DEF Sent
  <2>2. \A m \in 1..(L + 1) : m = L + 1 \/ (m \in 1..L /\ m # L + 1)
    BY <1>2
  <2> QED BY <1>5, <1>6, <2>1, <2>2
<1>8. Sent' = Append(Sent, c)
  <2>1. /\ Append(Sent, c) \in Seq(C) /\ Len(Append(Sent, c)) = L + 1
        /\ \A m \in 1..L : Append(Sent, c)[m] = Sent[m]
        /\ Append(Sent, c)[L + 1] = c
    BY <1>4, <1>5, AppendProperties
  <2>2. Sent' \in Seq(C)
    <3>1. \A m \in 1..(L + 1) : Sent'[m] \in C
      <4>1. \A m \in 1..L : Sent[m] \in C
        BY <1>5, ElementOfSeq
      <4>2. \A m \in 1..(L + 1) : m = L + 1 \/ m \in 1..L
        BY <1>2
      <4> QED BY <1>4, <1>7, <4>1, <4>2
    <3>2. Sent' = [m \in 1..(L + 1) |-> Sent'[m]]
      BY <1>3, <1>7 DEF Sent
    <3>3. Sent' \in [1..(L + 1) -> C] /\ L + 1 \in Nat
      BY <1>2, <3>1, <3>2
    <3> QED BY <3>3, SeqDef
  <2>3. Len(Sent') = L + 1
    BY <1>2, <1>7, <2>2, LenProperties
  <2>4. \A m \in 1..Len(Sent') : Sent'[m] = Append(Sent, c)[m]
    <3>1. \A m \in 1..(L + 1) : m = L + 1 \/ (m \in 1..L /\ m # L + 1)
      BY <1>2
    <3> QED BY <1>7, <2>1, <2>3, <3>1
  <2> QED BY <2>1, <2>2, <2>3, <2>4, SeqEqual
<1>9. /\ Len(Sent') = Len(Sent) + 1
      /\ SubSeq(Sent', 1, Len(Sent)) = Sent
      /\ Sent'[Len(Sent) + 1] = c
  BY <1>4, <1>5, <1>8, AppendProperties
<1> QED BY <1>2, <1>4, <1>9 DEF Channel!Send, Sent, C

LEMMA Unseen ==
  ASSUME UNCHANGED <<msgs, delivered, closes>>
  PROVE  UNCHANGED Channel!chanVars
BY DEF Channel!chanVars, CmdOf

\* readed() is a Close, a Receive, or nothing the channel sees.
LEMMA ReadedMaps ==
  ASSUME Sane, StreamInv, Readed
  PROVE  [Channel!Next]_(Channel!chanVars)
<1> USE DEF StreamInv, TypeInv
<1>1. rd = "ready" /\ UNCHANGED <<msgs, stream, link, rerr>>
  BY DEF Readed, sendVars
<1>2. Sent' = Sent
  BY <1>1 DEF Sent, CmdOf
<1>3. closes = 0 /\ frame \in Nat
  BY <1>1, SeqFacts DEF CloseEnds, TypeOK
<1>4. CASE Drop
  <2>1. closes' # 0 /\ delivered' = delivered
    BY <1>3, <1>4 DEF Drop
  <2>2. Channel!Close
    BY <1>2, <1>3, <2>1 DEF Channel!Close, Sent
  <2> QED BY <2>2 DEF Channel!Next
<1>5. ASSUME NEW f \in Parse(cbuf), Announce(f)
      PROVE  [Channel!Next]_(Channel!chanVars)
  BY <1>1, <1>5, Unseen DEF Announce
<1>6. CASE /\ ~rerr /\ frame >= 1 /\ frame = Len(cbuf)
           /\ delivered' = Append(delivered, Command) /\ closes' = closes
  <2> DEFINE m == Len(delivered) + 1
  <2>1. /\ Len(delivered) < Len(msgs) /\ m \in 1..Len(msgs) /\ Command = CmdOf(m)
    BY <1>1, <1>6, PayloadHere
  <2>2. Len(Sent) = Len(msgs) /\ Sent[m] = CmdOf(m)
    BY <2>1, SentSeq
  <2>3. Len(delivered) < Len(Sent) /\ delivered' = Append(delivered, Sent[m])
    BY <1>6, <2>1, <2>2
  <2>4. Channel!Receive
    BY <1>2, <1>3, <1>6, <2>3 DEF Channel!Receive, Sent
  <2> QED BY <2>4 DEF Channel!Next
<1> QED BY <1>3, <1>4, <1>5, <1>6 DEF Readed, HeaderRead, PayloadRead

LEMMA StepMaps ==
  ASSUME Sane, StreamInv, [Next]_vars
  PROVE  [Channel!Next]_(Channel!chanVars)
<1>1. ASSUME NEW w \in Writers, Write(w) PROVE [Channel!Next]_(Channel!chanVars)
  BY <1>1, WriteSends DEF StreamInv, TypeInv, Channel!Next
<1>2. CASE Readed
  BY <1>2, ReadedMaps
<1>3. CASE UNCHANGED <<msgs, delivered, closes>>
  BY <1>3, Unseen
<1> QED
  BY <1>1, <1>2, <1>3
  DEF Next, WriterStep, WriteSome, WriteFail, SenderClose, Reset, Start, ReadSome,
      ReadError, ReceiverClose, sendVars, recvVars, vars

\* With one write() at a time, a TCP_ connection is the channel of commands that
\* CmdH_ and Writer_ assume: what the kernel does to the bytes is not seen.
THEOREM ImplementsChannel ==
  ASSUME Sane
  PROVE  Spec => ChannelSpec
<1>1. Init => StreamInv /\ Channel!Init
  BY StreamInit, ChannelInit
<1>2. StreamInv /\ [Next]_vars => StreamInv'
  BY StreamStep
<1>3. StreamInv /\ [Next]_vars => [Channel!Next]_(Channel!chanVars)
  BY StepMaps
<1> QED BY <1>1, <1>2, <1>3, PTL DEF Spec, ChannelSpec, Channel!Spec
=============================================================================
