----------------------------- MODULE TcpStream -----------------------------
(***************************************************************************)
(* One direction of a connected TCP_ pair (netw/socket.cpp): the threads    *)
(* that call write() on one end, the bytes the kernel holds, and the        *)
(* async_read / readed() loop of the other end, which cuts the byte stream  *)
(* back into frames and hands each one to CmdH_::OnCmd.                     *)
(*                                                                         *)
(* A byte is known by its number: the k-th message handed to write() owns   *)
(* the next HeaderLen + length numbers, header first.  Its content never    *)
(* matters to the code, except that a header tells the payload's length.    *)
(***************************************************************************)
EXTENDS Naturals, Sequences

CONSTANTS
  Writers,    \* the threads that call write() on the sending end
  Handlers,   \* those that call it in a handler of the one io_service thread
              \* which also runs the reader, as the tests' OnConn and OnCmd do
  Lens,       \* the payload lengths they write
  HeaderLen,  \* mod->header(): 3 for M1L2, 5 for M1L4
  LenMod,     \* 2^(8 * bits): how many lengths the header can tell apart
  BufSize,    \* sizeof(TCP_::cbuf)
  Room,       \* bytes the kernel buffers between the two ends hold
  FrameInit,  \* what TCP_::frame, which no constructor sets, may hold at first
  MaxWrites   \* bound: calls of write()

ASSUME StreamAssumption ==
  /\ Lens \subseteq Nat /\ Handlers \subseteq Writers
  /\ HeaderLen \in Nat \ {0}
  /\ LenMod \in Nat \ {0}
  /\ BufSize \in Nat /\ HeaderLen <= BufSize
  /\ Room \in Nat \ {0}
  /\ FrameInit \subseteq Nat
  /\ MaxWrites \in Nat

VARIABLES
  msgs,       \* [at, len] of every message handed to write(), in call order
  writing,    \* per thread <<m, n>>: n bytes of message m's frame are out
  stream,     \* bytes in the kernel buffers, oldest first
  link,       \* "up", "fin" (sender closed) or "reset" (connection lost)
  rcv,        \* receiving socket: "open" or "closed"
  rd,         \* receiver: "new", "reading", "ready" (readed queued), "stopped"
  want,       \* bytes the outstanding async_read asks for
  cbuf,       \* bytes it has read so far
  rerr,       \* the queued completion carries an error
  frame,      \* TCP_::frame, the length of the payload being read, 0 for none
  header,     \* TCP_::header, the bytes of the last header
  delivered,  \* history: the Cmd_ objects given to OnCmd
  closes      \* history: calls of ConH_::OnClose

sendVars == <<msgs, writing>>
recvVars == <<rd, want, cbuf, rerr, frame, header, delivered, closes>>
vars == <<msgs, writing, stream, link, rcv, rd, want, cbuf, rerr, frame,
          header, delivered, closes>>

Idle == <<0, 0>>
AtMost(a, b) == IF a <= b THEN a ELSE b

Bytes(p, n) == [i \in 1..n |-> p + i]
FrameLen(m) == HeaderLen + msgs[m].len
End == IF msgs = <<>> THEN 0 ELSE msgs[Len(msgs)].at + FrameLen(Len(msgs))

\* The Cmd_ that message m should become.
CmdOf(m) == [header |-> Bytes(msgs[m].at, HeaderLen),
             data   |-> Bytes(msgs[m].at + HeaderLen, msgs[m].len)]

\* mod->parse(buf): a header gives its length, cut to the width of T; bytes
\* that are not a header may hold anything, hence give any length.
Parse(buf) ==
  LET owner == {m \in DOMAIN msgs : buf = Bytes(msgs[m].at, HeaderLen)}
  IN  IF owner = {} THEN 0..(LenMod - 1) ELSE {msgs[m].len % LenMod : m \in owner}

Init ==
  /\ msgs = <<>>
  /\ writing = [w \in Writers |-> Idle]
  /\ stream = <<>>
  /\ link = "up"
  /\ rcv = "open"
  /\ rd = "new"
  /\ want = 0
  /\ cbuf = <<>>
  /\ rerr = FALSE
  /\ frame \in FrameInit
  /\ header = <<>>
  /\ delivered = <<>>
  /\ closes = 0

-----------------------------------------------------------------------------
(* The sending end *)

\* The io_service runs one handler at a time: while one stands in write(), no
\* other runs, and no async_read goes on.
IoFree == \A w \in Handlers : writing[w] = Idle

\* A thread enters TCP_::write.
Write(w) ==
  /\ writing[w] = Idle
  /\ w \in Handlers => IoFree
  /\ Len(msgs) < MaxWrites
  /\ \E len \in Lens : msgs' = Append(msgs, [at |-> End, len |-> len])
  /\ writing' = [writing EXCEPT ![w] = <<Len(msgs) + 1, 0>>]
  /\ UNCHANGED <<stream, link, rcv, recvVars>>

\* One write_some of the asio::write of the header, then of the payload's: the
\* kernel takes some of the bytes that are left, never more than it has room
\* for.  No lock is held from one write_some to the next.  (Bytes sent to an
\* end that is gone only put off the error WriteFail stands for.)
WriteSome(w) ==
  LET m == writing[w][1]
      n == writing[w][2]
      end == IF n < HeaderLen THEN HeaderLen ELSE FrameLen(m)
  IN  /\ writing[w] # Idle
      /\ link = "up" /\ rcv = "open"
      /\ \E k \in 1..AtMost(end - n, Room - Len(stream)) :
           /\ stream' = stream \o Bytes(msgs[m].at + n, k)
           /\ writing' = [writing EXCEPT ![w] =
                            IF n + k = FrameLen(m) THEN Idle ELSE <<m, n + k>>]
      /\ UNCHANGED <<msgs, link, rcv, recvVars>>

\* asio::write reports an error: write() returns, whatever part of the frame
\* is out.
WriteFail(w) ==
  /\ writing[w] # Idle
  /\ link # "up" \/ rcv = "closed"
  /\ writing' = [writing EXCEPT ![w] = Idle]
  /\ UNCHANGED <<msgs, stream, link, rcv, recvVars>>

\* close() on the sending end.
SenderClose ==
  /\ link = "up"
  /\ link' = "fin"
  /\ UNCHANGED <<sendVars, stream, rcv, recvVars>>

\* The connection is lost with what the kernel held.
Reset ==
  /\ link # "reset"
  /\ link' = "reset"
  /\ stream' = <<>>
  /\ UNCHANGED <<sendVars, rcv, recvVars>>

-----------------------------------------------------------------------------
(* The receiving end *)

\* Mutant: the read spans exp bytes, beyond cbuf.
ReadBeyond(exp) ==
  /\ rd' = "reading"
  /\ want' = exp
  /\ cbuf' = <<>>

\* TCP_::read(exp).  asio::buffer(cbuf, exp) never spans more than cbuf.
Read(exp) ==
  /\ rd' = "reading"
  /\ want' = AtMost(exp, BufSize)
  /\ cbuf' = <<>>

\* TCP_::start
Start ==
  /\ rd = "new" /\ IoFree
  /\ Read(HeaderLen)
  /\ UNCHANGED <<sendVars, stream, link, rcv, rerr, frame, header, delivered, closes>>

\* One read_some of the async_read; its last one queues readed().
ReadSome ==
  LET k == AtMost(Len(stream), want - Len(cbuf))
  IN  /\ rd = "reading" /\ IoFree
      /\ rcv = "open"
      /\ stream # <<>>
      /\ cbuf' = cbuf \o SubSeq(stream, 1, k)
      /\ stream' = SubSeq(stream, k + 1, Len(stream))
      /\ rd' = IF Len(cbuf) + k = want THEN "ready" ELSE "reading"
      /\ UNCHANGED <<sendVars, link, rcv, want, rerr, frame, header, delivered, closes>>

\* The async_read ends early: end of file, a lost connection or a local close.
ReadError ==
  /\ rd = "reading" /\ IoFree
  /\ \/ rcv = "closed"
     \/ link = "reset"
     \/ link = "fin" /\ stream = <<>>
  /\ rd' = "ready"
  /\ rerr' = TRUE
  /\ UNCHANGED <<sendVars, stream, link, rcv, want, cbuf, frame, header, delivered, closes>>

\* Mutant: OnClose and close(), without the return.
DropGoesOn ==
  /\ closes' = closes + 1
  /\ rcv' = "closed"
  /\ Read(HeaderLen)
  /\ UNCHANGED <<frame, header, delivered>>

\* Mutant: OnClose without close().
DropLeavesOpen ==
  /\ closes' = closes + 1
  /\ rd' = "stopped"
  /\ UNCHANGED <<rcv, want, cbuf, frame, header, delivered>>

\* Mutant: an operation that our own close() aborted is not reported.
DropQuiet ==
  /\ closes' = IF rcv = "closed" THEN closes ELSE closes + 1
  /\ rcv' = "closed"
  /\ rd' = "stopped"
  /\ UNCHANGED <<want, cbuf, frame, header, delivered>>

\* con->OnClose(bs, err); close(); return;
Drop ==
  /\ closes' = closes + 1
  /\ rcv' = "closed"
  /\ rd' = "stopped"
  /\ UNCHANGED <<want, cbuf, frame, header, delivered>>

\* A header of which parse() makes the length f, at least one, is read.
Announce(f) ==
  /\ f >= 1
  /\ frame' = f
  /\ header' = cbuf
  /\ Read(f)
  /\ UNCHANGED <<rcv, delivered, closes>>

\* Mutant: the guard is off by one.
HeaderReadOffByOne ==
  /\ frame < 1
  /\ \/ Len(cbuf) <= HeaderLen /\ Drop
     \/ /\ Len(cbuf) > HeaderLen
        /\ \E f \in Parse(cbuf) : (f < 1 /\ Drop) \/ Announce(f)

\* readed() with frame < 1: cbuf holds a header.
HeaderRead ==
  /\ frame < 1
  /\ \/ Len(cbuf) < HeaderLen /\ Drop
     \/ /\ Len(cbuf) >= HeaderLen
        /\ \E f \in Parse(cbuf) : (f < 1 /\ Drop) \/ Announce(f)

Command == [header |-> header, data |-> cbuf]

\* Mutant: frame is not set back to 0.
PayloadReadKeepsFrame ==
  /\ frame >= 1
  /\ \/ frame # Len(cbuf) /\ Drop
     \/ /\ frame = Len(cbuf)
        /\ delivered' = Append(delivered, Command)
        /\ Read(HeaderLen)
        /\ UNCHANGED <<rcv, frame, header, closes>>

\* Mutant: the next header is not read.
PayloadReadStops ==
  /\ frame >= 1
  /\ \/ frame # Len(cbuf) /\ Drop
     \/ /\ frame = Len(cbuf)
        /\ delivered' = Append(delivered, Command)
        /\ frame' = 0
        /\ rd' = "stopped"
        /\ UNCHANGED <<rcv, want, cbuf, header, closes>>

\* readed() with frame >= 1: cbuf holds a payload.
PayloadRead ==
  /\ frame >= 1
  /\ \/ frame # Len(cbuf) /\ Drop
     \/ /\ frame = Len(cbuf)
        /\ delivered' = Append(delivered, Command)
        /\ frame' = 0
        /\ Read(HeaderLen)
        /\ UNCHANGED <<rcv, header, closes>>

\* TCP_::readed(err, transferred), with transferred = Len(cbuf).
Readed ==
  /\ rd = "ready" /\ IoFree
  /\ \/ rerr /\ Drop
     \/ ~rerr /\ HeaderRead
     \/ ~rerr /\ PayloadRead
  /\ UNCHANGED <<sendVars, stream, link, rerr>>

\* close() on the receiving end by the program, from a callback or posted.
ReceiverClose ==
  /\ rcv = "open"
  /\ rcv' = "closed"
  /\ UNCHANGED <<sendVars, stream, link, recvVars>>

-----------------------------------------------------------------------------
WriterStep(w) == Write(w) \/ WriteSome(w) \/ WriteFail(w)

Next ==
  \/ \E w \in Writers : WriterStep(w)
  \/ SenderClose
  \/ Reset
  \/ Start
  \/ ReadSome
  \/ ReadError
  \/ Readed
  \/ ReceiverClose

Spec == Init /\ [][Next]_vars

\* io_service::run() runs every handler that is queued and asio completes
\* every operation that can complete; a blocking write goes on while the
\* kernel takes bytes.  Nothing makes the program write or close.
Fairness ==
  /\ WF_vars(Start)
  /\ WF_vars(ReadSome)
  /\ WF_vars(ReadError)
  /\ WF_vars(Readed)
  /\ \A w \in Writers : WF_vars(WriteSome(w)) /\ WF_vars(WriteFail(w))

FairSpec == Spec /\ Fairness

-----------------------------------------------------------------------------
(* Properties *)

TypeOK ==
  /\ msgs \in Seq([at : Nat, len : Lens])
  /\ Len(msgs) <= MaxWrites
  /\ writing \in [Writers -> Nat \X Nat]
  /\ stream \in Seq(Nat)
  /\ link \in {"up", "fin", "reset"}
  /\ rcv \in {"open", "closed"}
  /\ rd \in {"new", "reading", "ready", "stopped"}
  /\ want \in 0..BufSize
  /\ cbuf \in Seq(Nat)
  /\ rerr \in BOOLEAN
  /\ frame \in Nat
  /\ header \in Seq(Nat)
  /\ delivered \in Seq([header : Seq(Nat), data : Seq(Nat)])
  /\ closes \in Nat

\* The commands OnCmd gets are the messages write() was given, each whole, with
\* its own header, in the order of the calls, none missing in between.
InOrder ==
  \A k \in DOMAIN delivered : k \in DOMAIN msgs /\ delivered[k] = CmdOf(k)

\* readed() gives up a connection only for a reason: an end closed it, it was
\* lost, or the next message is one the receiver cannot take (empty, or longer
\* than cbuf).  A stale or uninitialised frame would drop well-formed streams.
DropJustified ==
  [][closes' # closes =>
       \/ link # "up"
       \/ rcv = "closed"
       \/ /\ Len(delivered) < Len(msgs)
          /\ msgs[Len(delivered) + 1].len \notin 1..BufSize]_vars

\* OnClose is called at most once and is the last callback of a connection, even
\* when a close races a completion already queued.
CloseIsLast == [][closes > 0 => UNCHANGED <<delivered, closes>>]_vars

\* A connection that either end closed, or that broke, is reported by OnClose.
CloseReported == (rcv = "closed" \/ link # "up") ~> closes = 1

\* A handler blocks in write() on full kernel buffers, which it would have to
\* leave for the reader to empty.
Stuck == Len(stream) = Room /\ ~IoFree

\* A write() returns, for the reader keeps emptying the kernel buffers, however
\* small they are next to a frame, or the writer learns the connection is gone.
\* The one way to wait for ever is a handler that fills the buffers itself, or
\* finds them full: a blocking write in TCP_::write, on the reader's thread.
WriteReturns == \A w \in Writers : (writing[w] # Idle) ~> (writing[w] = Idle \/ Stuck)

\* Every message handed to write() by threads other than the reader's reaches
\* OnCmd unless the connection ends.
Delivered ==
  \A m \in 1..MaxWrites : (Len(msgs) >= m) ~> (Len(delivered) >= m \/ closes > 0)

\* The connection implements a FIFO channel of commands.
Channel == INSTANCE FrameChannel WITH
  Message  <- [header : Seq(Nat), data : Seq(Nat)],
  sent     <- [m \in DOMAIN msgs |-> CmdOf(m)],
  received <- delivered,
  open     <- (closes = 0)

ChannelSpec == Channel!Spec
=============================================================================
