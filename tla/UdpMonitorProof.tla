-------------------------- MODULE UdpMonitorProof --------------------------
(***************************************************************************)
(* Proofs about UdpMonitor, for any number of peers, datagrams and writers,  *)
(* any buffer and header, and as many receives sharing cbuf as there are.    *)
(***************************************************************************)
EXTENDS UdpMonitor, SequenceTheorems, FiniteSetTheorems, TLAPS

\* What Monitor_::write sends: a header that declares the length of what follows,
\* and fits cbuf.
SoundPeers ==
  /\ None \notin Datagrams
  /\ \A d \in Datagrams : d.len >= 1 /\ d.size = HeaderLen + d.len /\ d.size <= BufSize

\* cbuf starts with all of datagram d.
Holds(d) == \A i \in 1..d.size : cbuf[i] = Byte(d, i)

\* The datagram cbuf was filled with last; its first byte tells which.
Filled == cbuf[1].of \in Datagrams /\ Holds(cbuf[1].of)

\* The handler queued last is that of the datagram in cbuf.
LastFits == fired # <<>> /\ fired[Len(fired)] # -1 /\ fired[Len(fired)] = cbuf[1].of.size

\* Every handler of bytes finds a whole datagram, although not always its own,
\* and received() copies the one it parsed, unless cbuf was filled in between.
HandlersInv ==
  /\ fired \in Seq(-1..BufSize) /\ waits \in Nat /\ inbox \in Seq(Datagrams) /\ frame \in Nat
  /\ \A k \in 1..Len(fired) : fired[k] # -1 => Filled
  /\ frame # 0 /\ ~raced => Filled /\ frame = cbuf[1].of.len

\* Also on a socket that is open and not bound, on the way there.
ChainInv ==
  sock \in {"open", "bound"} /\ port # "0" => waits > 0 \/ frame # 0 \/ LastFits

\* A server's writers never come to the branch that receives and sets `remote', and
\* before start() there is nothing to receive.
ServerInv ==
  /\ sock = "new" => inbox = <<>>
  /\ port = "given" => /\ \A w \in Writers : pc[w] # "adopt"
                       /\ Filled => remote = cbuf[1].of.from
                       /\ ~raced

MonitorInv == HandlersInv /\ ChainInv /\ ServerInv /\ AnswersSender

LEMMA SizeFacts == BufSize \in Nat /\ HeaderLen \in Nat \ {0} /\ -1 \in -1..BufSize
BY MonitorAssumption

LEMMA MonitorInit ==
  ASSUME SoundPeers, Init
  PROVE  MonitorInv
<1>1. fired = <<>> /\ Len(fired) = 0 /\ fired \in Seq(-1..BufSize) /\ inbox \in Seq(Datagrams)
  BY EmptySeq DEF Init
<1>2. HandlersInv
  BY <1>1 DEF Init, HandlersInv
<1>3. sock = "new" /\ cmd = None /\ ~raced /\ inbox = <<>> /\ \A w \in Writers : pc[w] # "adopt"
  BY DEF Init
<1>4. ~Filled
  BY SizeFacts, MonitorAssumption DEF Init, SoundPeers, Filled, Junk, Byte
<1> QED BY <1>2, <1>3, <1>4 DEF MonitorInv, ChainInv, ServerInv, AnswersSender

\* A step that leaves what the chain reads alone.
LEMMA SameQueue ==
  ASSUME HandlersInv, UNCHANGED <<waits, fired, cbuf, inbox, frame, raced>>
  PROVE  HandlersInv' /\ (LastFits' = LastFits) /\ (Filled' = Filled)
<1>1. (Filled' = Filled) /\ (LastFits' = LastFits)
  BY DEF Filled, Holds, LastFits
<1> QED BY <1>1 DEF HandlersInv

\* receive() of a socket with no datagram at hand.
LEMMA ReceiveStep ==
  ASSUME HandlersInv, Receive, UNCHANGED <<cbuf, inbox>>,
         frame' = 0 \/ UNCHANGED <<frame, raced>>
  PROVE  HandlersInv' /\ ChainInv' /\ (Filled' = Filled)
<1>1. Filled' = Filled /\ frame' \in Nat
  BY DEF Filled, Holds, HandlersInv
<1>2. frame' # 0 /\ ~raced' => Filled' /\ frame' = cbuf'[1].of.len
  BY <1>1 DEF HandlersInv
<1>3. CASE sock' \in {"open", "bound"}
  <2>1. waits' \in Nat /\ waits' > 0 /\ fired' = fired
    BY <1>3 DEF Receive, HandlersInv
  <2> QED BY <1>1, <1>2, <2>1 DEF HandlersInv, ChainInv
<1>4. CASE sock' \notin {"open", "bound"}
  <2>1. fired' = Append(fired, -1) /\ waits' = waits
    BY <1>4 DEF Receive
  <2> DEFINE R == -1..BufSize
  <2>2. fired \in Seq(R) /\ -1 \in R
    BY SizeFacts DEF HandlersInv
  <2> HIDE DEF R
  <2>3. /\ Len(fired) \in Nat /\ fired' \in Seq(R) /\ Len(fired') = Len(fired) + 1
        /\ \A k \in 1..Len(fired) : fired'[k] = fired[k]
        /\ fired'[Len(fired) + 1] = -1
    BY <2>1, <2>2, AppendProperties, LenProperties
  <2>4. \A k \in 1..Len(fired') : fired'[k] # -1 => Filled
    BY <2>3 DEF HandlersInv
  <2>5. fired' \in Seq(-1..BufSize)
    BY <2>3 DEF R
  <2> QED BY <1>1, <1>2, <1>4, <2>1, <2>4, <2>5 DEF HandlersInv, ChainInv
<1> QED BY <1>1, <1>3, <1>4

\* A recvfrom(): cbuf starts with the datagram, whoever waited for it.
LEMMA RecvStep ==
  ASSUME SoundPeers, HandlersInv, Recv, waits' \in Nat, UNCHANGED frame, frame # 0 => raced'
  PROVE  HandlersInv' /\ ChainInv' /\ Filled' /\ remote' = cbuf'[1].of.from
<1> DEFINE d == Head(inbox)
           n == Least(d.size, BufSize)
<1>1. inbox # <<>> /\ inbox \in Seq(Datagrams) /\ fired \in Seq(-1..BufSize) /\ frame \in Nat
  BY DEF Recv, HandlersInv
<1>2. d \in Datagrams /\ Tail(inbox) \in Seq(Datagrams)
  BY <1>1, HeadTailProperties
<1>3. /\ cbuf' = [i \in 1..BufSize |-> IF i <= n THEN Byte(d, i) ELSE cbuf[i]]
      /\ remote' = d.from /\ fired' = Append(fired, n)
      /\ inbox' = Tail(inbox)
  BY DEF Recv
<1> HIDE DEF d
<1>4. /\ n = d.size /\ n \in 1..BufSize /\ BufSize \in Nat
  BY <1>2, SizeFacts, MonitorAssumption DEF SoundPeers, Least
<1> HIDE DEF n
<1>5. Filled' /\ cbuf'[1].of = d
  <2>1. \A i \in 1..n : cbuf'[i] = Byte(d, i)
    BY <1>3, <1>4
  <2>2. cbuf'[1].of = d
    <3>1. cbuf'[1] = Byte(d, 1)
      BY <1>4, <2>1
    <3>2. Byte(d, 1).of = d
      BY DEF Byte
    <3> QED BY <3>1, <3>2
  <2> QED BY <1>2, <1>4, <2>1, <2>2 DEF Filled, Holds
<1>6. /\ Len(fired) \in Nat /\ fired' \in Seq(-1..BufSize) /\ Len(fired') = Len(fired) + 1
      /\ fired'[Len(fired) + 1] = n
  <2> DEFINE R == -1..BufSize
  <2>1. fired \in Seq(R) /\ n \in R
    BY <1>1, <1>4
  <2> HIDE DEF R
  <2> QED BY <1>3, <2>1, AppendProperties, LenProperties DEF R
<1>7. HandlersInv'
  BY <1>1, <1>2, <1>3, <1>5, <1>6 DEF HandlersInv
<1>8. LastFits'
  <2>1. fired' # <<>>
    BY <1>6, EmptySeq
  <2> QED BY <1>4, <1>5, <1>6, <2>1 DEF LastFits
<1> QED BY <1>3, <1>5, <1>7, <1>8 DEF ChainInv

LEMMA ElsewhereStep ==
  ASSUME SoundPeers, HandlersInv, NEW r, ReceiveElsewhere(r), UNCHANGED frame
  PROVE  HandlersInv' /\ ChainInv'
<1>1. CASE Receive /\ UNCHANGED <<inbox, cbuf, raced>>
  BY <1>1, ReceiveStep
<1>2. CASE Recv /\ raced' = (frame # 0) /\ UNCHANGED waits
  <2>1. waits' \in Nat /\ (frame # 0 => raced')
    BY <1>2 DEF HandlersInv
  <2> QED BY <1>2, <2>1, RecvStep
<1> QED BY <1>1, <1>2 DEF ReceiveElsewhere

LEMMA StartInv == ASSUME SoundPeers, MonitorInv, Start PROVE MonitorInv'
<1> USE DEF MonitorInv
<1>1. UNCHANGED <<port, pc, frame, cmd>>
  BY DEF Start
<1>2. HandlersInv' /\ ChainInv'
  <2>1. CASE ReceiveElsewhere(remote)
    BY <1>1, <2>1, ElsewhereStep
  <2>2. CASE sock' = "failed" /\ UNCHANGED <<waits, fired, inbox, cbuf, remote, raced>>
    <3>1. HandlersInv'
      BY <1>1, <2>2, SameQueue
    <3> QED BY <2>2, <3>1 DEF ChainInv
  <2> QED BY <2>1, <2>2 DEF Start
<1>3. ServerInv'
  <2>1. CASE port = "0"
    <3>1. sock' = "new" => inbox' = <<>>
      BY <2>1 DEF Start, ServerInv, ReceiveElsewhere, Recv
    <3> QED BY <1>1, <2>1, <3>1 DEF ServerInv
  <2>2. CASE port # "0"
    <3>1. sock = "new" /\ inbox = <<>> /\ sock' # "new"
      BY <2>2 DEF Start, ServerInv
    <3>2. UNCHANGED <<inbox, cbuf, remote, raced>>
      BY <2>2, <3>1 DEF Start, ReceiveElsewhere, Recv
    <3>3. Filled' = Filled
      BY <3>2 DEF Filled, Holds
    <3> QED BY <1>1, <3>1, <3>2, <3>3 DEF ServerInv
  <2> QED BY <2>1, <2>2
<1>4. AnswersSender'
  BY <1>1 DEF AnswersSender
<1> QED BY <1>2, <1>3, <1>4

LEMMA CloseInv == MonitorInv /\ Close => MonitorInv'
<1> SUFFICES ASSUME MonitorInv, Close PROVE MonitorInv'
  OBVIOUS
<1>1. /\ UNCHANGED <<port, cbuf, remote, pc, frame, cmd, raced>> /\ waits' = 0 /\ inbox' = <<>>
      /\ sock' = "closed" /\ waits \in Nat /\ inbox' \in Seq(Datagrams)
  <2>1. <<>> \in Seq(Datagrams)
    BY EmptySeq
  <2> QED BY <2>1 DEF Close, MonitorInv, HandlersInv
<1> DEFINE aborted == [i \in 1..waits |-> -1]
<1>2. aborted \in Seq(-1..BufSize) /\ Len(aborted) = waits /\ \A k \in 1..waits : aborted[k] = -1
  BY <1>1, SizeFacts
<1>3. fired' = fired \o aborted /\ fired \in Seq(-1..BufSize)
  BY DEF Close, MonitorInv, HandlersInv
<1> HIDE DEF aborted
<1>4. /\ fired' \in Seq(-1..BufSize) /\ Len(fired') = Len(fired) + waits /\ Len(fired) \in Nat
      /\ \A k \in 1..(Len(fired) + waits) :
           fired'[k] = IF k <= Len(fired) THEN fired[k] ELSE aborted[k - Len(fired)]
  <2> DEFINE R == -1..BufSize
  <2>1. fired \in Seq(R) /\ aborted \in Seq(R) /\ fired' = fired \o aborted /\ Len(aborted) = waits
    BY <1>2, <1>3
  <2> HIDE DEF R
  <2>2. Len(fired) \in Nat
    BY <2>1, LenProperties
  <2>3. /\ fired' \in Seq(R) /\ Len(fired') = Len(fired) + Len(aborted)
        /\ \A k \in 1..(Len(fired) + Len(aborted)) :
             fired'[k] = IF k <= Len(fired) THEN fired[k] ELSE aborted[k - Len(fired)]
    BY <2>1, ConcatProperties
  <2> QED BY <2>1, <2>2, <2>3 DEF R
<1>5. Filled' = Filled
  BY <1>1 DEF Filled, Holds
<1>6. ASSUME NEW k \in 1..Len(fired'), fired'[k] # -1 PROVE Filled'
  <2>1. CASE k <= Len(fired)
    BY <1>4, <1>5, <1>6, <2>1 DEF MonitorInv, HandlersInv
  <2>2. CASE ~(k <= Len(fired))
    <3>1. k - Len(fired) \in 1..waits
      BY <1>1, <1>4, <2>2
    <3> QED BY <1>2, <1>4, <1>6, <2>2, <3>1
  <2> QED BY <2>1, <2>2
<1>7. HandlersInv'
  BY <1>1, <1>4, <1>5, <1>6 DEF MonitorInv, HandlersInv
<1> QED BY <1>1, <1>5, <1>7 DEF MonitorInv, ChainInv, ServerInv, AnswersSender

LEMMA FillInv ==
  ASSUME SoundPeers, MonitorInv, Fill
  PROVE  MonitorInv'
<1> USE DEF MonitorInv
<1>1. /\ waits' \in Nat /\ Recv /\ frame = 0 /\ UNCHANGED <<sock, port, pc, frame, cmd, raced>>
      /\ inbox # <<>>
  BY DEF Fill, HandlersInv, Recv
<1>2. HandlersInv' /\ ChainInv' /\ Filled' /\ remote' = cbuf'[1].of.from
  BY <1>1, RecvStep
<1>3. ServerInv'
  BY <1>1, <1>2 DEF ServerInv
<1>4. AnswersSender'
  BY <1>1 DEF AnswersSender
<1> QED BY <1>2, <1>3, <1>4

\* The length received() parses of a whole datagram.
LEMMA ParsedWhole ==
  ASSUME SoundPeers, Filled, NEW f \in Parse
  PROVE  f = cbuf[1].of.len /\ cbuf[1].of.len \in Nat \ {0}
<1> DEFINE d == cbuf[1].of
<1>1. /\ d \in Datagrams /\ d # None /\ HeaderLen \in Nat \ {0} /\ d.len \in Nat \ {0}
      /\ d.size = HeaderLen + d.len
  BY SizeFacts, MonitorAssumption DEF Filled, SoundPeers
<1>2. \A i \in 1..d.size : cbuf[i] = Byte(d, i)
  BY DEF Filled, Holds
<1> HIDE DEF d
<1>3. \A i \in 1..HeaderLen : cbuf[i] = Byte(d, i)
  BY <1>1, <1>2
<1>4. Parse = {d.len}
  BY <1>1, <1>3 DEF Parse, d
<1> QED BY <1>1, <1>4 DEF d

\* What it copies, when cbuf is still as it was parsed: the payload, whole.
LEMMA CopiedWhole ==
  ASSUME SoundPeers, Filled
  PROVE  LET d == cbuf[1].of
         IN  /\ d \in Datagrams /\ d # None /\ d.len \in Nat
             /\ Payload(cbuf, d.len) = [i \in 1..d.len |-> Byte(d, HeaderLen + i)]
<1> DEFINE d == cbuf[1].of
<1>1. /\ d \in Datagrams /\ d # None /\ HeaderLen \in Nat \ {0} /\ BufSize \in Nat /\ d.len \in Nat
      /\ d.size = HeaderLen + d.len /\ d.size <= BufSize
  BY SizeFacts, MonitorAssumption DEF Filled, SoundPeers
<1>2. \A i \in 1..d.size : cbuf[i] = Byte(d, i)
  BY DEF Filled, Holds
<1> HIDE DEF d
<1>3. \A i \in 1..d.len : HeaderLen + i <= BufSize /\ cbuf[HeaderLen + i] = Byte(d, HeaderLen + i)
  BY <1>1, <1>2
<1>4. Payload(cbuf, d.len) = [i \in 1..d.len |-> Byte(d, HeaderLen + i)]
  BY <1>3 DEF Payload
<1> QED BY <1>1, <1>4 DEF d

LEMMA RestOfWhole ==
  ASSUME SoundPeers, NEW d \in Datagrams
  PROVE  Rest(d.size) = d.len
<1>1. d.size - HeaderLen = d.len /\ d.len \in Nat /\ SizeMod \in Nat /\ d.len < SizeMod
  BY SizeFacts, MonitorAssumption DEF SoundPeers
<1> QED BY <1>1 DEF Rest

LEMMA ReceivedInv ==
  ASSUME SoundPeers, MonitorInv, Received
  PROVE  MonitorInv'
<1> USE DEF MonitorInv
<1>1. /\ fired # <<>> /\ fired \in Seq(-1..BufSize) /\ frame = 0
      /\ UNCHANGED <<sock, port, inbox, cbuf, remote, pc, cmd, raced>>
      /\ fired' = Tail(fired) /\ waits' = waits
  BY DEF Received, HandlersInv, Stop
<1>2. PICK q \in Seq(-1..BufSize) : q = Tail(fired)
  BY <1>1, HeadTailProperties
<1>3. /\ Len(fired) \in Nat \ {0} /\ Head(fired) = fired[1] /\ Len(q) = Len(fired) - 1
      /\ \A k \in 1..Len(q) : q[k] = fired[k + 1]
  BY <1>1, <1>2, HeadTailProperties, EmptySeq
<1>4. \A k \in 1..Len(q) : q[k] # -1 => Filled
  BY <1>3 DEF HandlersInv
<1>5. Filled' = Filled
  BY <1>1 DEF Filled, Holds
<1>6. ServerInv' /\ AnswersSender'
  BY <1>1, <1>5 DEF ServerInv, AnswersSender
<1>7. ASSUME UNCHANGED frame, Len(q) = 0 => ~LastFits PROVE MonitorInv'
  <2>1. HandlersInv'
    BY <1>1, <1>2, <1>4, <1>5, <1>7 DEF HandlersInv
  <2>2. LastFits => LastFits'
    <3>1. SUFFICES ASSUME LastFits PROVE LastFits'
      OBVIOUS
    <3>2. Len(q) \in 1..Len(q) /\ Len(q) + 1 = Len(fired)
      BY <1>3, <1>7, <3>1
    <3>3. q[Len(q)] = fired[Len(fired)] /\ q # <<>>
      BY <1>3, <3>2, EmptySeq
    <3> QED BY <1>1, <1>2, <3>1, <3>3 DEF LastFits
  <2>3. ChainInv'
    BY <1>1, <1>7, <2>2 DEF ChainInv
  <2> QED BY <1>6, <2>1, <2>3
<1>8. CASE Head(fired) = -1 /\ UNCHANGED frame
  BY <1>3, <1>7, <1>8 DEF LastFits
<1>9. ASSUME Head(fired) # -1, NEW f \in Parse
      PROVE  /\ (f < 1 \/ f < Rest(Head(fired))) /\ UNCHANGED frame => MonitorInv'
             /\ f >= 1 /\ frame' = f => MonitorInv'
  <2> DEFINE d == cbuf[1].of
  <2>1. Filled /\ d \in Datagrams
    BY <1>3, <1>9 DEF HandlersInv, Filled
  <2>2. f = d.len /\ d.len \in Nat \ {0}
    BY <2>1, ParsedWhole
  <2> HIDE DEF d
  <2>3. ASSUME f < 1 \/ f < Rest(Head(fired)), UNCHANGED frame PROVE MonitorInv'
    <3>1. ~(Len(q) = 0 /\ LastFits)
      <4>1. SUFFICES ASSUME Len(q) = 0, LastFits PROVE FALSE
        OBVIOUS
      <4>2. Head(fired) = d.size
        <5>1. Len(fired) = 1
          BY <1>3, <4>1
        <5> QED BY <1>3, <4>1, <5>1 DEF LastFits, d
      <4>3. Rest(Head(fired)) = d.len
        BY <2>1, <4>2, RestOfWhole
      <4> QED BY <2>2, <2>3, <4>3
    <3> QED BY <1>7, <2>3, <3>1
  <2>4. ASSUME f >= 1, frame' = f PROVE MonitorInv'
    <3>1. HandlersInv'
      BY <1>1, <1>2, <1>4, <1>5, <2>1, <2>2, <2>4 DEF HandlersInv, d
    <3>2. ChainInv'
      BY <2>4 DEF ChainInv
    <3> QED BY <1>6, <3>1, <3>2
  <2> QED BY <2>3, <2>4
<1>10. \/ Head(fired) = -1 /\ UNCHANGED frame
       \/ /\ Head(fired) # -1
          /\ \E f \in Parse : \/ (f < 1 \/ f < Rest(Head(fired))) /\ UNCHANGED frame
                              \/ ~(f < 1) /\ frame' = f
  BY DEF Received
<1>11. ASSUME Head(fired) # -1 PROVE \A f \in Parse : f \in Nat
  <2>1. Filled
    BY <1>3, <1>11 DEF HandlersInv
  <2> QED BY <2>1, ParsedWhole
<1>12. ASSUME Head(fired) # -1, NEW f \in Parse, ~(f < 1), frame' = f PROVE MonitorInv'
  <2>1. f >= 1
    BY <1>11, <1>12
  <2> QED BY <1>9, <1>12, <2>1
<1> QED BY <1>8, <1>9, <1>10, <1>12

LEMMA DeliverInv ==
  ASSUME SoundPeers, MonitorInv, Deliver
  PROVE  MonitorInv'
<1> USE DEF MonitorInv
<1>1. /\ frame # 0 /\ frame' = 0 /\ cmd' = Cmd(remote, cbuf, frame) /\ Receive /\ raced' = FALSE
      /\ UNCHANGED <<sock, port, inbox, cbuf, remote, pc>>
  BY DEF Deliver
<1>2. HandlersInv' /\ ChainInv' /\ (Filled' = Filled)
  BY <1>1, ReceiveStep
<1>3. ServerInv'
  BY <1>1, <1>2 DEF ServerInv
<1>4. AnswersSender'
  <2> SUFFICES ASSUME port = "given"
               PROVE  \A i \in DOMAIN cmd'.data : cmd'.data[i].of # None /\ cmd'.to = cmd'.data[i].of.from
    BY <1>1 DEF AnswersSender
  <2> DEFINE d == cbuf[1].of
  <2>1. Filled /\ frame = d.len /\ remote = d.from
    BY <1>1 DEF HandlersInv, ServerInv
  <2>2. d # None /\ Payload(cbuf, d.len) = [i \in 1..d.len |-> Byte(d, HeaderLen + i)]
    BY <2>1, CopiedWhole
  <2>3. cmd'.to = remote /\ cmd'.data = Payload(cbuf, frame)
    BY <1>1 DEF Cmd
  <2>4. remote = d.from /\ d # None /\ cmd'.data = [i \in 1..d.len |-> Byte(d, HeaderLen + i)]
    BY <2>1, <2>2, <2>3
  <2> HIDE DEF d
  <2>5. ASSUME NEW i \in DOMAIN cmd'.data PROVE cmd'.data[i].of = d
    BY <2>4 DEF Byte
  <2> QED BY <2>3, <2>4, <2>5
<1> QED BY <1>2, <1>3, <1>4

LEMMA WriteInv ==
  ASSUME SoundPeers, MonitorInv, NEW w \in Writers, WriteSend(w) \/ WriteAdopt(w)
  PROVE  MonitorInv'
<1> USE DEF MonitorInv
<1>1. CASE WriteSend(w)
  <2>1. UNCHANGED <<port, waits, fired, inbox, cbuf, remote, frame, cmd, raced>>
    BY <1>1 DEF WriteSend, ioVars
  <2>2. /\ sock' \in {"open", "bound"} => sock \in {"open", "bound"}
        /\ sock' = "new" => sock = "new"
    BY <1>1 DEF WriteSend
  <2>3. HandlersInv' /\ (LastFits' = LastFits) /\ (Filled' = Filled)
    BY <2>1, SameQueue
  <2>4. port = "given" => \A u \in Writers : pc'[u] # "adopt"
    BY <1>1 DEF WriteSend, ServerInv
  <2>5. ChainInv'
    BY <2>1, <2>2, <2>3 DEF ChainInv
  <2>6. ServerInv'
    BY <2>1, <2>2, <2>3, <2>4 DEF ServerInv
  <2>7. AnswersSender'
    BY <2>1 DEF AnswersSender
  <2> QED BY <2>3, <2>5, <2>6, <2>7
<1>2. CASE WriteAdopt(w)
  <2>1. UNCHANGED <<sock, frame, cmd>> /\ pc[w] = "adopt" /\ port # "given"
    BY <1>2 DEF WriteAdopt, ServerInv
  <2>2. CASE IsShut
    <3>1. UNCHANGED <<port, waits, fired, remote, inbox, cbuf, raced>>
      BY <1>2, <2>2 DEF WriteAdopt
    <3>2. HandlersInv'
      BY <2>1, <3>1, SameQueue
    <3>3. ChainInv' /\ ServerInv'
      BY <2>1, <2>2, <3>1 DEF ChainInv, ServerInv, IsShut
    <3>4. AnswersSender'
      BY <2>1, <3>1 DEF AnswersSender
    <3> QED BY <3>2, <3>3, <3>4
  <2>3. CASE ~IsShut
    <3>1. port' = "adopted" /\ ReceiveElsewhere(None) /\ sock' # "new"
      BY <1>2, <2>1, <2>3 DEF WriteAdopt, IsShut
    <3>2. HandlersInv' /\ ChainInv'
      BY <2>1, <3>1, ElsewhereStep
    <3>3. ServerInv' /\ AnswersSender'
      BY <3>1 DEF ServerInv, AnswersSender
    <3> QED BY <3>2, <3>3
  <2> QED BY <2>2, <2>3
<1> QED BY <1>1, <1>2

\* A step that changes nothing the invariant speaks of but the socket.
LEMMA SocketInv ==
  ASSUME MonitorInv, UNCHANGED <<port, waits, fired, cbuf, inbox, remote, pc, frame, cmd, raced>>,
         UNCHANGED sock \/ (port = "0" /\ sock' # "new")
  PROVE  MonitorInv'
<1>1. HandlersInv' /\ (LastFits' = LastFits) /\ (Filled' = Filled)
  BY SameQueue DEF MonitorInv
<1> QED BY <1>1 DEF MonitorInv, ChainInv, ServerInv, AnswersSender

LEMMA ArriveInv ==
  ASSUME MonitorInv, NEW d \in Datagrams, Arrive(d)
  PROVE  MonitorInv'
<1>1. /\ UNCHANGED <<sock, port, waits, fired, cbuf, remote, pc, frame, cmd, raced>>
      /\ sock = "bound" /\ inbox' = Append(inbox, d)
  BY DEF Arrive
<1>2. inbox' \in Seq(Datagrams)
  BY <1>1, AppendProperties DEF MonitorInv, HandlersInv
<1>3. (LastFits' = LastFits) /\ (Filled' = Filled)
  BY <1>1 DEF Filled, Holds, LastFits
<1>4. HandlersInv'
  BY <1>1, <1>2, <1>3 DEF MonitorInv, HandlersInv
<1> QED BY <1>1, <1>3, <1>4 DEF MonitorInv, ChainInv, ServerInv, AnswersSender

LEMMA MonitorStep == SoundPeers /\ MonitorInv /\ [Next]_vars => MonitorInv'
<1> SUFFICES ASSUME SoundPeers, MonitorInv, [Next]_vars PROVE MonitorInv'
  OBVIOUS
<1>1. CASE Start BY <1>1, StartInv
<1>2. CASE Open
  BY <1>2, SocketInv DEF Open, ioVars
<1>3. CASE Close BY <1>3, CloseInv
<1>4. ASSUME NEW d \in Datagrams, Arrive(d) PROVE MonitorInv'
  BY <1>4, ArriveInv
<1>5. CASE Fill BY <1>5, FillInv
<1>6. CASE Received BY <1>6, ReceivedInv
<1>7. CASE Deliver BY <1>7, DeliverInv
<1>8. ASSUME NEW w \in Writers, WriteSend(w) \/ WriteAdopt(w) PROVE MonitorInv'
  BY <1>8, WriteInv
<1>9. CASE UNCHANGED vars
  BY <1>9, SocketInv DEF vars, ioVars
<1> QED BY <1>1, <1>2, <1>3, <1>4, <1>5, <1>6, <1>7, <1>8, <1>9 DEF Next

THEOREM MonitorInvariant ==
  ASSUME SoundPeers
  PROVE  Spec => []MonitorInv
<1>1. Init => MonitorInv
  BY MonitorInit
<1>2. MonitorInv /\ [Next]_vars => MonitorInv'
  BY MonitorStep
<1> QED BY <1>1, <1>2, PTL DEF Spec

\* However many receives share cbuf, and whatever the network loses, repeats and
\* reorders, Monitor_::received gives OnCmd one datagram's whole payload, unless
\* another thread receives into cbuf between its parse and its copy.
THEOREM WholeDatagramAlways ==
  ASSUME SoundPeers
  PROVE  Spec => WholeDatagram
<1> DEFINE Whole == frame # 0 /\ frame' = 0 /\ ~raced =>
                      \E d \in Datagrams : cmd'.data = [i \in 1..d.len |-> Byte(d, HeaderLen + i)]
<1>1. MonitorInv /\ [Next]_vars => Whole
  <2> SUFFICES ASSUME MonitorInv, [Next]_vars, frame # 0, frame' = 0, ~raced
               PROVE  \E d \in Datagrams : cmd'.data = [i \in 1..d.len |-> Byte(d, HeaderLen + i)]
    OBVIOUS
  <2>1. Deliver
    BY DEF Next, vars, ioVars, Start, Open, Close, Arrive, Fill, Received, WriteSend, WriteAdopt
  <2>2. Filled /\ frame = cbuf[1].of.len
    BY DEF MonitorInv, HandlersInv
  <2>3. cmd'.data = Payload(cbuf, frame)
    BY <2>1 DEF Deliver, Cmd
  <2> QED BY <2>2, <2>3, CopiedWhole
<1>2. MonitorInv /\ [Next]_vars => [Whole]_vars
  BY <1>1
<1> QED BY <1>2, MonitorInvariant, PTL DEF Spec, WholeDatagram

\* A server's command answers the peer that sent it: between parse and copy, and
\* between the copy of `remote' and that of cbuf, nothing receives there.
THEOREM AnswersSenderAlways ==
  ASSUME SoundPeers
  PROVE  Spec => []AnswersSender
<1>1. MonitorInv => AnswersSender
  BY DEF MonitorInv
<1> QED BY <1>1, MonitorInvariant, PTL

\* The receive chain of an open monitor never breaks, although handlers that find
\* another datagram than their own end without a receive: the last one has its own.
THEOREM KeepsReceivingAlways ==
  ASSUME SoundPeers
  PROVE  Spec => []KeepsReceiving
<1>1. MonitorInv => KeepsReceiving
  BY DEF MonitorInv, HandlersInv, ChainInv, LastFits, KeepsReceiving
<1> QED BY <1>1, MonitorInvariant, PTL

-----------------------------------------------------------------------------
(* Types, for whatever the peers send.  The bound on the receives under way     *)
(* counts, with them, the handlers that may still begin one, the one under way  *)
(* and the writers on their way to the branch that begins one.                  *)

Chains == waits + Len(fired) + (IF frame = 0 THEN 0 ELSE 1)
Adopting == {w \in Writers : pc[w] = "adopt"}

ChainsBounded ==
  /\ port # "adopted" => Chains <= IF started THEN 1 ELSE 0
  /\ port = "given" => Adopting = {}
  /\ port = "adopted" => sock # "new" /\ Chains + Cardinality(Adopting) <= 1 + Cardinality(Writers)

\* TypeOK with any number of receives, and what cbuf can hold.
Typed ==
  /\ sock \in {"new", "open", "bound", "failed", "closed"}
  /\ port \in {"0", "given", "adopted"} /\ started \in BOOLEAN /\ wec \in BOOLEAN
  /\ raced \in BOOLEAN /\ frame \in 0..(LenMod - 1)
  /\ waits \in Nat
  /\ fired \in Seq(-1..BufSize)
  /\ inbox \in Seq(Datagrams)
  /\ cbuf \in [1..BufSize -> [of : Datagrams \cup {None}, at : 0..BufSize]]
  /\ \A i \in 1..BufSize : cbuf[i] = Junk \/ cbuf[i].of \in Datagrams
  /\ remote \in {d.from : d \in Datagrams} \cup {None}
  /\ pc \in [Writers -> {"idle", "adopt"}]
  /\ cmd # None => \A i \in DOMAIN cmd.data : cmd.data[i] = Junk \/ cmd.data[i].of \in Datagrams

TypeInv == Typed /\ ChainsBounded

LEMMA AdoptingSize ==
  /\ Cardinality(Writers) \in Nat
  /\ Cardinality(Adopting) \in Nat /\ Cardinality(Adopting) <= Cardinality(Writers)
<1>1. IsFiniteSet(Writers) /\ Adopting \in SUBSET Writers
  BY MonitorAssumption DEF Adopting
<1> HIDE DEF Adopting
<1>2. IsFiniteSet(Adopting) /\ Cardinality(Adopting) <= Cardinality(Writers)
  BY <1>1, FS_Subset
<1> QED BY <1>1, <1>2, FS_CardinalityType

LEMMA ChainsType == Typed => Chains \in Nat /\ Len(fired) \in Nat
<1> SUFFICES ASSUME Typed PROVE Chains \in Nat /\ Len(fired) \in Nat
  OBVIOUS
<1>1. Len(fired) \in Nat /\ waits \in Nat
  BY LenProperties DEF Typed
<1> QED BY <1>1 DEF Chains

\* receive() adds one, waiting or queued.
LEMMA ReceiveTypes ==
  ASSUME Typed, Receive
  PROVE  /\ waits' \in Nat /\ fired' \in Seq(-1..BufSize)
         /\ waits' + Len(fired') = waits + Len(fired) + 1 /\ Len(fired') \in Nat
<1> DEFINE R == -1..BufSize
<1>1. fired \in Seq(R) /\ -1 \in R /\ waits \in Nat
  BY SizeFacts DEF Typed
<1> HIDE DEF R
<1>2. Len(fired) \in Nat
  BY <1>1, LenProperties
<1>3. CASE sock' \in {"open", "bound"}
  <2>1. waits' = waits + 1 /\ fired' = fired
    BY <1>3 DEF Receive
  <2> QED BY <1>1, <1>2, <2>1 DEF R
<1>4. CASE sock' \notin {"open", "bound"}
  <2>1. waits' = waits /\ fired' = Append(fired, -1)
    BY <1>4 DEF Receive
  <2>2. fired' \in Seq(R) /\ Len(fired') = Len(fired) + 1
    BY <1>1, <2>1, AppendProperties
  <2>3. fired' \in Seq(-1..BufSize)
    BY <2>2 DEF R
  <2> QED BY <1>1, <1>2, <2>1, <2>2, <2>3
<1> QED BY <1>3, <1>4

\* What a recvfrom() leaves.
Filling ==
  /\ cbuf' \in [1..BufSize -> [of : Datagrams \cup {None}, at : 0..BufSize]]
  /\ \A i \in 1..BufSize : cbuf'[i] = Junk \/ cbuf'[i].of \in Datagrams
  /\ remote' \in {d.from : d \in Datagrams} \cup {None}
  /\ inbox' \in Seq(Datagrams) /\ fired' \in Seq(-1..BufSize)
  /\ Len(fired') = Len(fired) + 1

LEMMA RecvTypes == ASSUME Typed, Recv PROVE Filling
<1> DEFINE d == Head(inbox)
           n == Least(d.size, BufSize)
           R == -1..BufSize
<1>1. /\ cbuf' = [i \in 1..BufSize |-> IF i <= n THEN Byte(d, i) ELSE cbuf[i]]
      /\ remote' = d.from /\ fired' = Append(fired, n)
      /\ inbox' = Tail(inbox)
  BY DEF Recv
<1>2. d \in Datagrams /\ Tail(inbox) \in Seq(Datagrams)
  <2>1. inbox # <<>> /\ inbox \in Seq(Datagrams)
    BY DEF Recv, Typed
  <2> QED BY <2>1, HeadTailProperties
<1> HIDE DEF d
<1>3. n \in R /\ BufSize \in Nat /\ n <= BufSize
  BY <1>2, SizeFacts, MonitorAssumption DEF Least
<1> HIDE DEF n
<1>4. /\ cbuf' \in [1..BufSize -> [of : Datagrams \cup {None}, at : 0..BufSize]]
      /\ \A i \in 1..BufSize : cbuf'[i] = Junk \/ cbuf'[i].of \in Datagrams
  <2>1. /\ cbuf \in [1..BufSize -> [of : Datagrams \cup {None}, at : 0..BufSize]]
        /\ \A i \in 1..BufSize : cbuf[i] = Junk \/ cbuf[i].of \in Datagrams
    BY DEF Typed
  <2>2. \A i \in 1..BufSize : /\ Byte(d, i) \in [of : Datagrams \cup {None}, at : 0..BufSize]
                              /\ Byte(d, i).of \in Datagrams
    BY <1>2, <1>3 DEF Byte
  <2> HIDE DEF Byte
  <2> QED BY <1>1, <2>1, <2>2
<1>5. fired \in Seq(R)
  BY DEF Typed
<1> HIDE DEF R
<1>6. fired' \in Seq(R) /\ Len(fired') = Len(fired) + 1
  BY <1>1, <1>3, <1>5, AppendProperties
<1>7. fired' \in Seq(-1..BufSize)
  BY <1>6 DEF R
<1> QED BY <1>1, <1>2, <1>4, <1>6, <1>7 DEF Filling

\* In another thread, too, receive() adds one, waiting or received.
LEMMA ElsewhereTypes ==
  ASSUME Typed, NEW r \in {d.from : d \in Datagrams} \cup {None}, ReceiveElsewhere(r),
         UNCHANGED frame
  PROVE  /\ cbuf' \in [1..BufSize -> [of : Datagrams \cup {None}, at : 0..BufSize]]
         /\ \A i \in 1..BufSize : cbuf'[i] = Junk \/ cbuf'[i].of \in Datagrams
         /\ remote' \in {d.from : d \in Datagrams} \cup {None}
         /\ inbox' \in Seq(Datagrams) /\ fired' \in Seq(-1..BufSize)
         /\ waits' \in Nat /\ raced' \in BOOLEAN
         /\ Chains' = Chains + 1 /\ Chains' \in Nat
<1>1. waits \in Nat /\ Len(fired) \in Nat
  BY ChainsType DEF Typed
<1>2. CASE Receive /\ remote' = r /\ UNCHANGED <<inbox, cbuf, raced>>
  <2>1. /\ waits' \in Nat /\ fired' \in Seq(-1..BufSize) /\ Len(fired') \in Nat
        /\ waits' + Len(fired') = waits + Len(fired) + 1
    BY <1>2, ReceiveTypes
  <2>2. Chains' = Chains + 1 /\ Chains' \in Nat
    BY <1>1, <2>1 DEF Chains
  <2> QED BY <1>2, <2>1, <2>2 DEF Typed, Junk
<1>3. CASE Recv /\ raced' = (frame # 0) /\ UNCHANGED waits
  <2>1. Filling
    BY <1>3, RecvTypes
  <2>2. Chains' = Chains + 1 /\ Chains' \in Nat
    BY <1>1, <1>3, <2>1 DEF Chains, Filling
  <2> QED BY <1>1, <1>3, <2>1, <2>2 DEF Filling
<1> QED BY <1>2, <1>3 DEF ReceiveElsewhere

\* A step that begins no receive and leaves the writers alone.
LEMMA NoMoreChains ==
  ASSUME ChainsBounded, UNCHANGED <<port, pc>>, started => started',
         Chains \in Nat, Chains' \in Nat, Chains' <= Chains, sock' = "new" => sock = "new",
         started \in BOOLEAN, started' \in BOOLEAN
  PROVE  ChainsBounded'
<1>1. Adopting' = Adopting
  BY DEF Adopting
<1>2. Cardinality(Adopting) \in Nat /\ Cardinality(Writers) \in Nat
  BY AdoptingSize
<1> QED BY <1>1, <1>2 DEF ChainsBounded

LEMMA LengthFact == LenMod \in Nat \ {0}
BY MonitorAssumption

LEMMA TypeInit == Init => TypeInv
<1> SUFFICES ASSUME Init PROVE TypeInv
  OBVIOUS
<1>1. /\ sock = "new" /\ port \in {"given", "0"} /\ started = FALSE /\ wec = FALSE
      /\ waits = 0 /\ remote = None /\ cmd = None /\ fired = <<>>
      /\ Len(fired) = 0 /\ fired \in Seq(-1..BufSize) /\ inbox \in Seq(Datagrams)
      /\ frame = 0 /\ raced = FALSE
  BY MonitorAssumption, EmptySeq DEF Init
<1>2. /\ cbuf \in [1..BufSize -> [of : Datagrams \cup {None}, at : 0..BufSize]]
      /\ \A i \in 1..BufSize : cbuf[i] = Junk
  <2>1. Junk \in [of : Datagrams \cup {None}, at : 0..BufSize]
    BY SizeFacts DEF Junk, Byte
  <2>2. cbuf = [i \in 1..BufSize |-> Junk]
    BY DEF Init
  <2> HIDE DEF Junk
  <2> QED BY <2>1, <2>2
<1>3. pc \in [Writers -> {"idle", "adopt"}] /\ Adopting = {}
  BY DEF Init, Adopting
<1>4. frame \in 0..(LenMod - 1)
  BY <1>1, LengthFact
<1>5. Typed
  BY <1>1, <1>2, <1>3, <1>4 DEF Typed
<1>6. ChainsBounded
  BY <1>1, <1>3 DEF ChainsBounded, Chains
<1> QED BY <1>5, <1>6 DEF TypeInv

LEMMA StartTypes == TypeInv /\ Start => TypeInv'
<1> SUFFICES ASSUME TypeInv, Start PROVE TypeInv'
  OBVIOUS
<1>1. /\ ~started /\ started' = TRUE /\ UNCHANGED <<port, pc, frame, cmd, wec>>
      /\ port # "adopted"
  BY DEF Start, TypeInv, ChainsBounded
<1>2. Typed /\ Chains \in Nat /\ Chains <= 0 /\ remote \in {d.from : d \in Datagrams} \cup {None}
  BY <1>1, ChainsType DEF TypeInv, Typed, ChainsBounded
<1>3. Adopting' = Adopting
  BY <1>1 DEF Adopting
<1>4. sock' \in {"new", "open", "bound", "failed", "closed"}
  BY DEF Start, TypeInv, Typed
<1>5. Typed' /\ Chains' \in Nat /\ Chains' <= 1
  <2>1. CASE ReceiveElsewhere(remote)
    <3>1. Chains' = Chains + 1 /\ Chains' \in Nat
      BY <1>1, <1>2, <2>1, ElsewhereTypes
    <3>2. Typed'
      BY <1>1, <1>2, <1>4, <2>1, ElsewhereTypes DEF Typed, Junk
    <3> QED BY <1>2, <3>1, <3>2
  <2>2. CASE UNCHANGED <<waits, fired, inbox, cbuf, remote, raced>>
    <3>1. Chains' = Chains
      BY <1>1, <2>2 DEF Chains
    <3>2. Typed'
      BY <1>1, <1>2, <1>4, <2>2 DEF Typed, Junk
    <3> QED BY <1>2, <3>1, <3>2
  <2> QED BY <2>1, <2>2 DEF Start
<1>6. ChainsBounded'
  BY <1>1, <1>3, <1>5 DEF TypeInv, ChainsBounded
<1> QED BY <1>5, <1>6 DEF TypeInv

LEMMA CloseTypes == TypeInv /\ Close => TypeInv'
<1> SUFFICES ASSUME TypeInv, Close PROVE TypeInv'
  OBVIOUS
<1>1. /\ UNCHANGED <<port, started, cbuf, remote, pc, frame, cmd, wec, raced>> /\ waits' = 0 /\ inbox' = <<>>
      /\ sock' = "closed" /\ fired' = fired \o [i \in 1..waits |-> -1] /\ inbox' \in Seq(Datagrams)
  <2>1. <<>> \in Seq(Datagrams)
    BY EmptySeq
  <2> QED BY <2>1 DEF Close
<1>2. waits \in Nat /\ fired \in Seq(-1..BufSize) /\ started \in BOOLEAN /\ Len(fired) \in Nat
  BY ChainsType DEF TypeInv, Typed
<1> DEFINE R == -1..BufSize
           aborted == [i \in 1..waits |-> -1]
<1>3. aborted \in Seq(R) /\ Len(aborted) = waits /\ fired' = fired \o aborted /\ fired \in Seq(R)
  BY <1>1, <1>2, SizeFacts
<1> HIDE DEF R, aborted
<1>4. fired' \in Seq(R) /\ Len(fired') = Len(fired) + waits
  BY <1>3, ConcatProperties
<1>5. Chains' = Chains /\ Chains \in Nat
  BY <1>1, <1>2, <1>4 DEF Chains
<1>6. ChainsBounded'
  BY <1>1, <1>2, <1>5, NoMoreChains DEF TypeInv
<1>7. Typed'
  BY <1>1, <1>4 DEF TypeInv, Typed, Junk, R
<1> QED BY <1>6, <1>7 DEF TypeInv

LEMMA FillTypes == TypeInv /\ Fill => TypeInv'
<1> SUFFICES ASSUME TypeInv, Fill PROVE TypeInv'
  OBVIOUS
<1>1. /\ waits' = waits - 1 /\ waits > 0
      /\ UNCHANGED <<sock, port, started, pc, frame, cmd, wec, raced>>
  BY DEF Fill
<1>2. Filling
  BY RecvTypes DEF Fill, TypeInv
<1>3. waits \in Nat /\ started \in BOOLEAN /\ Len(fired) \in Nat
  BY ChainsType DEF TypeInv, Typed
<1>4. waits' \in Nat /\ Chains' = Chains /\ Chains \in Nat
  BY <1>1, <1>2, <1>3 DEF Chains, Filling
<1>5. ChainsBounded'
  BY <1>1, <1>3, <1>4, NoMoreChains DEF TypeInv
<1>6. Typed'
  BY <1>1, <1>2, <1>4 DEF TypeInv, Typed, Filling
<1> QED BY <1>5, <1>6 DEF TypeInv

LEMMA ParseTypes == ASSUME Typed, NEW f \in Parse PROVE f \in 0..(LenMod - 1)
<1>1. CASE Parse = 0..(LenMod - 1)
  BY <1>1
<1>2. CASE Parse = {cbuf[1].of.len} /\ cbuf[1].of # None
  <2>1. 1 \in 1..BufSize
    BY SizeFacts, MonitorAssumption
  <2>2. cbuf[1].of \in Datagrams
    BY <1>2, <2>1 DEF Typed, Junk, Byte
  <2>3. cbuf[1].of.len \in 0..(LenMod - 1)
    BY <2>2, MonitorAssumption
  <2> QED BY <1>2, <2>3
<1> QED BY <1>1, <1>2 DEF Parse

\* Whatever the header declared, OnCmd is given bytes of cbuf or beyond its end.
LEMMA PayloadTypes ==
  ASSUME Typed
  PROVE  \A i \in DOMAIN Payload(cbuf, frame) :
           \/ Payload(cbuf, frame)[i] = Junk
           \/ Payload(cbuf, frame)[i].of \in Datagrams
<1> DEFINE c == Payload(cbuf, frame)
<1>1. frame \in Nat
  BY LengthFact DEF Typed
<1>2. ASSUME NEW i \in DOMAIN c PROVE c[i] = Junk \/ c[i].of \in Datagrams
  <2>1. i \in 1..frame /\ c[i] = IF HeaderLen + i <= BufSize THEN cbuf[HeaderLen + i] ELSE Junk
    BY DEF Payload
  <2>2. HeaderLen + i <= BufSize => HeaderLen + i \in 1..BufSize
    BY <1>1, <2>1, SizeFacts
  <2> QED BY <2>1, <2>2 DEF Typed
<1> QED BY <1>2

\* received() up to its tests: the handler that was queued is under way or over.
LEMMA ReceivedTypes == TypeInv /\ Received => TypeInv'
<1> SUFFICES ASSUME TypeInv, Received PROVE TypeInv'
  OBVIOUS
<1>1. /\ UNCHANGED <<sock, port, started, inbox, cbuf, remote, pc, cmd, wec, raced>> /\ fired # <<>>
      /\ fired' = Tail(fired) /\ UNCHANGED waits /\ frame = 0
  BY DEF Received, Stop
<1>2. fired \in Seq(-1..BufSize) /\ waits \in Nat /\ started \in BOOLEAN /\ Len(fired) \in Nat
  BY ChainsType DEF TypeInv, Typed
<1>3. fired' \in Seq(-1..BufSize) /\ Len(fired') = Len(fired) - 1 /\ Len(fired') \in Nat
  BY <1>1, <1>2, HeadTailProperties, LenProperties
<1>4. frame' \in 0..(LenMod - 1)
  BY ParseTypes DEF Received, TypeInv, Typed
<1>5. Chains' <= Chains /\ Chains \in Nat /\ Chains' \in Nat
  BY <1>1, <1>2, <1>3 DEF Chains
<1>6. ChainsBounded'
  BY <1>1, <1>2, <1>5, NoMoreChains DEF TypeInv
<1>7. Typed'
  BY <1>1, <1>2, <1>3, <1>4 DEF TypeInv, Typed, Junk
<1> QED BY <1>6, <1>7 DEF TypeInv

\* Its end: the handler receives again and is over.
LEMMA DeliverTypes == TypeInv /\ Deliver => TypeInv'
<1> SUFFICES ASSUME TypeInv, Deliver PROVE TypeInv'
  OBVIOUS
<1>1. /\ UNCHANGED <<sock, port, started, inbox, cbuf, remote, pc, wec>> /\ raced' = FALSE
      /\ frame # 0 /\ frame' = 0 /\ cmd'.data = Payload(cbuf, frame) /\ Receive
  BY DEF Deliver, Cmd
<1>2. waits \in Nat /\ started \in BOOLEAN /\ Len(fired) \in Nat /\ frame' \in 0..(LenMod - 1)
  <2>1. frame \in 0..(LenMod - 1) /\ LenMod \in Nat
    BY LengthFact DEF TypeInv, Typed
  <2> QED BY <1>1, <2>1, ChainsType DEF TypeInv, Typed
<1>3. /\ waits' \in Nat /\ fired' \in Seq(-1..BufSize) /\ Len(fired') \in Nat
      /\ waits' + Len(fired') = waits + Len(fired) + 1
  BY <1>1, ReceiveTypes DEF TypeInv
<1>4. Chains' = Chains /\ Chains \in Nat
  BY <1>1, <1>2, <1>3 DEF Chains
<1>5. ChainsBounded'
  BY <1>1, <1>2, <1>4, NoMoreChains DEF TypeInv
<1>6. \A i \in DOMAIN cmd'.data : cmd'.data[i] = Junk \/ cmd'.data[i].of \in Datagrams
  BY <1>1, PayloadTypes DEF TypeInv
<1>7. Typed'
  BY <1>1, <1>2, <1>3, <1>6 DEF TypeInv, Typed, Junk
<1> QED BY <1>5, <1>7 DEF TypeInv

LEMMA WriteSendTypes ==
  ASSUME TypeInv, NEW w \in Writers, WriteSend(w)
  PROVE  TypeInv'
<1>1. /\ pc[w] = "idle" /\ pc' = [pc EXCEPT ![w] = IF port # "0" THEN "idle" ELSE "adopt"]
      /\ sock' = (IF sock = "open" THEN "bound" ELSE sock) /\ wec' = (wec \/ IsShut)
      /\ UNCHANGED <<port, started, waits, fired, inbox, cbuf, remote, frame, cmd, raced>>
  BY DEF WriteSend, ioVars
<1>2. pc \in [Writers -> {"idle", "adopt"}] /\ wec \in BOOLEAN
  BY DEF TypeInv, Typed
<1>3. Chains' = Chains
  BY <1>1 DEF Chains
<1>4. port # "0" => Adopting' = Adopting
  BY <1>1, <1>2 DEF Adopting
<1>5. ChainsBounded'
  BY <1>1, <1>3, <1>4 DEF TypeInv, ChainsBounded
<1>6. pc' \in [Writers -> {"idle", "adopt"}] /\ wec' \in BOOLEAN
  BY <1>1, <1>2
<1>7. sock' \in {"new", "open", "bound", "failed", "closed"}
  BY <1>1 DEF TypeInv, Typed
<1>8. Typed'
  BY <1>1, <1>6, <1>7 DEF TypeInv, Typed, Junk
<1> QED BY <1>5, <1>8 DEF TypeInv

LEMMA WriteAdoptTypes ==
  ASSUME TypeInv, NEW w \in Writers, WriteAdopt(w)
  PROVE  TypeInv'
<1>1. /\ pc[w] = "adopt" /\ pc' = [pc EXCEPT ![w] = "idle"]
      /\ UNCHANGED <<sock, started, frame, cmd>>
      /\ pc \in [Writers -> {"idle", "adopt"}] /\ started \in BOOLEAN
  BY DEF WriteAdopt, TypeInv, Typed
<1>2. pc' \in [Writers -> {"idle", "adopt"}]
  BY <1>1
<1>3. /\ Cardinality(Adopting) \in Nat /\ Cardinality(Adopting) <= Cardinality(Writers)
      /\ Cardinality(Adopting') = Cardinality(Adopting) - 1 /\ Cardinality(Writers) \in Nat
      /\ w \in Adopting
  <2>1. Adopting' = Adopting \ {w} /\ w \in Adopting
    BY <1>1 DEF Adopting
  <2>2. IsFiniteSet(Writers) /\ Adopting \in SUBSET Writers
    BY MonitorAssumption DEF Adopting
  <2> DEFINE S == Adopting
  <2>3. IsFiniteSet(S)
    <3> HIDE DEF S
    <3>1. S \in SUBSET Writers
      BY <2>2 DEF S
    <3> QED BY <2>2, <3>1, FS_Subset
  <2> HIDE DEF S
  <2>4. w \in S => Cardinality(S \ {w}) = Cardinality(S) - 1
    BY <2>3, FS_RemoveElement
  <2> QED BY <2>1, <2>4, AdoptingSize DEF S
<1>4. port # "given"
  BY <1>3 DEF TypeInv, ChainsBounded
<1>5. Chains \in Nat
  BY ChainsType DEF TypeInv
<1>6. CASE IsShut
  <2>1. UNCHANGED <<port, remote, waits, fired, inbox, cbuf, raced>> /\ wec' = TRUE
    BY <1>6 DEF WriteAdopt
  <2>2. Chains' = Chains
    BY <1>1, <2>1 DEF Chains
  <2>3. ChainsBounded'
    <3>1. port = "adopted" => Chains + Cardinality(Adopting') <= 1 + Cardinality(Writers)
      BY <1>3, <1>5 DEF TypeInv, ChainsBounded
    <3> QED BY <1>1, <1>4, <2>1, <2>2, <3>1 DEF TypeInv, ChainsBounded
  <2>4. Typed'
    BY <1>1, <1>2, <2>1 DEF TypeInv, Typed, Junk
  <2> QED BY <2>3, <2>4 DEF TypeInv
<1>7. CASE ~IsShut
  <2>1. port' = "adopted" /\ ReceiveElsewhere(None) /\ wec' = wec
    BY <1>7 DEF WriteAdopt
  <2>2. Chains' = Chains + 1 /\ Chains' \in Nat
    BY <1>1, <2>1, ElsewhereTypes DEF TypeInv
  <2>3. Chains + Cardinality(Adopting) <= 1 + Cardinality(Writers)
    <3>1. CASE port = "adopted"
      BY <3>1 DEF TypeInv, ChainsBounded
    <3>2. CASE port # "adopted"
      <4>1. Chains <= 1
        BY <1>5, <3>2 DEF TypeInv, ChainsBounded
      <4> QED BY <1>3, <1>5, <4>1
    <3> QED BY <3>1, <3>2
  <2>4. ChainsBounded'
    <3>1. Chains' + Cardinality(Adopting') <= 1 + Cardinality(Writers)
      BY <1>3, <1>5, <2>2, <2>3
    <3>2. sock' # "new"
      BY <1>1, <1>7 DEF IsShut
    <3> QED BY <2>1, <3>1, <3>2 DEF ChainsBounded
  <2>5. Typed'
    BY <1>1, <1>2, <2>1, ElsewhereTypes DEF TypeInv, Typed, Junk
  <2> QED BY <2>4, <2>5 DEF TypeInv
<1> QED BY <1>6, <1>7

\* A step of the socket alone, of the network, or none.
LEMMA OtherTypes ==
  ASSUME TypeInv, UNCHANGED <<port, started, waits, fired, cbuf, remote, pc, frame, cmd, wec, raced>>,
         sock' \in {"new", "open", "bound", "failed", "closed"}, sock' = "new" => sock = "new",
         inbox' \in Seq(Datagrams)
  PROVE  TypeInv'
<1>1. Chains' = Chains /\ Adopting' = Adopting
  BY DEF Chains, Adopting
<1> QED BY <1>1 DEF TypeInv, Typed, ChainsBounded, Junk

THEOREM MonitorTypeInvariant == Spec => []TypeInv
<1>1. TypeInv /\ [Next]_vars => TypeInv'
  <2> SUFFICES ASSUME TypeInv, [Next]_vars PROVE TypeInv'
    OBVIOUS
  <2>1. inbox \in Seq(Datagrams) /\ sock \in {"new", "open", "bound", "failed", "closed"}
    BY DEF TypeInv, Typed
  <2>2. CASE Start BY <2>2, StartTypes
  <2>3. CASE Open
    BY <2>1, <2>3, OtherTypes DEF Open, ioVars
  <2>4. CASE Close BY <2>4, CloseTypes
  <2>5. ASSUME NEW d \in Datagrams, Arrive(d) PROVE TypeInv'
    <3>1. inbox' \in Seq(Datagrams)
      BY <2>1, <2>5, AppendProperties DEF Arrive
    <3> QED BY <2>1, <2>5, <3>1, OtherTypes DEF Arrive
  <2>6. CASE Fill BY <2>6, FillTypes
  <2>7. CASE Received BY <2>7, ReceivedTypes
  <2>10. CASE Deliver BY <2>10, DeliverTypes
  <2>8. ASSUME NEW w \in Writers, WriteSend(w) \/ WriteAdopt(w) PROVE TypeInv'
    BY <2>8, WriteSendTypes, WriteAdoptTypes
  <2>9. CASE UNCHANGED vars
    BY <2>1, <2>9, OtherTypes DEF vars, ioVars
  <2> QED BY <2>2, <2>3, <2>4, <2>5, <2>6, <2>7, <2>10, <2>8, <2>9 DEF Next
<1> QED BY <1>1, TypeInit, PTL DEF Spec

\* Whatever peers send, at most one receive chain starts with start() and one more
\* with each thread that found port 0 in Monitor_::write; a transferred count never
\* exceeds cbuf, and what is handed to OnCmd are bytes of datagrams.
THEOREM MonitorTypeCorrect == Spec => []TypeOK
<1>1. TypeInv => TypeOK
  <2> SUFFICES ASSUME TypeInv PROVE TypeOK
    OBVIOUS
  <2>1. Chains \in Nat /\ Len(fired) \in Nat /\ waits \in Nat
    BY ChainsType DEF TypeInv, Typed
  <2>2. waits <= Chains
    BY <2>1 DEF Chains
  <2>4. Chains <= 1 + Cardinality(Writers)
    BY <2>1, AdoptingSize DEF TypeInv, ChainsBounded
  <2>3. waits \in 0..(1 + Cardinality(Writers))
    BY <2>1, <2>2, <2>4, AdoptingSize
  <2> QED BY <2>3 DEF TypeInv, Typed, TypeOK
<1> QED BY <1>1, MonitorTypeInvariant, PTL
=============================================================================
