---------------------------- MODULE UdpMonitor ----------------------------
(***************************************************************************)
(* Monitor_, the datagram endpoint of netw/socket.cpp, on one io_service:   *)
(* its receive chain, the threads that call write() on it, and a network    *)
(* that loses, repeats and reorders datagrams.  Every async_receive_from    *)
(* fills the same cbuf and the same `remote'.  One thread runs the          *)
(* io_service; a receive() called in any other thread may fill cbuf while   *)
(* the handler reads it.                                                    *)
(***************************************************************************)
EXTENDS Integers, Sequences, FiniteSets

CONSTANTS
  Datagrams,  \* [from, size, len]: what peers send; `len' is what the header
              \* declares, 0 when parse() rejects the header
  None,       \* no datagram, no address
  Writers,    \* the threads that call write()
  Ports,      \* endpoint.port() of a new Monitor_: "given" (a server) or "0" (a client)
  HeaderLen,  \* mod->header()
  LenMod,     \* how many lengths a header tells apart
  BufSize,    \* sizeof(Monitor_::cbuf)
  SizeMod,    \* 2^w for the w bits of size_t
  MaxQueue    \* bound: datagrams the kernel holds for the socket

ASSUME MonitorAssumption ==
  /\ \A d \in Datagrams : d.size \in Nat /\ d.len \in 0..(LenMod - 1)
  /\ HeaderLen \in Nat \ {0} /\ BufSize \in Nat /\ HeaderLen <= BufSize
  /\ SizeMod \in Nat /\ LenMod \in Nat \ {0} /\ BufSize < SizeMod - HeaderLen /\ LenMod < SizeMod - HeaderLen
  /\ Ports \subseteq {"given", "0"} /\ IsFiniteSet(Writers)
  /\ MaxQueue \in Nat

VARIABLES
  sock,      \* "new" (never opened), "open", "bound" to a port, "failed" (to
             \* bind), "closed"
  port,      \* endpoint.port(): "0", "given", or "adopted" by write()
  started,   \* start() was called
  waits,     \* async_receive_from operations under way
  fired,     \* handlers queued: the transferred count of each, -1 for an error
  inbox,     \* datagrams the kernel holds for the socket
  cbuf,      \* per position, the byte: the datagram it is of, and where
  remote,    \* UDP_::remote
  pc,        \* per thread: "idle", or "adopt" in write() once it saw port 0
  frame,     \* what received() made of the header, 0 when it is not under way
  cmd,       \* the last Cmd_ given to OnCmd: its writer's address and bytes
  wec,       \* some write() reported an error or threw
  raced      \* history: cbuf was filled since received(), under way, parsed it

ioVars == <<waits, fired, inbox, cbuf, remote, frame, cmd, raced>>
vars == <<sock, port, started, waits, fired, inbox, cbuf, remote, pc, frame, cmd, wec, raced>>

Byte(d, i) == [of |-> d, at |-> i]
Junk == Byte(None, 0)
IsShut == sock \in {"new", "closed"}
Least(a, b) == IF a <= b THEN a ELSE b

Init ==
  /\ sock = "new"
  /\ port \in Ports
  /\ started = FALSE
  /\ waits = 0 /\ fired = <<>> /\ inbox = <<>>
  /\ cbuf = [i \in 1..BufSize |-> Junk]
  /\ remote = None
  /\ pc = [w \in Writers |-> "idle"]
  /\ frame = 0 /\ cmd = None
  /\ wec = FALSE /\ raced = FALSE

-----------------------------------------------------------------------------
(* start, open and close *)

\* recvfrom(): the datagram's bytes, as many as fit, go to cbuf, its sender to
\* `remote', and received() is queued.
Recv ==
  /\ inbox # <<>>
  /\ LET d == Head(inbox)
         n == Least(d.size, BufSize)
     IN  /\ cbuf' = [i \in 1..BufSize |-> IF i <= n THEN Byte(d, i) ELSE cbuf[i]]
         /\ remote' = d.from
         /\ fired' = Append(fired, n)
  /\ inbox' = Tail(inbox)

\* Mutant: a receive that a handler calls for starts nothing.
ReceiveOnce ==
  /\ UNCHANGED fired
  /\ waits' = IF frame = 0 THEN waits + 1 ELSE waits

\* Monitor_::receive: on a closed socket the operation fails at once.
Receive ==
  IF sock' \in {"open", "bound"} THEN waits' = waits + 1 /\ UNCHANGED fired
                                 ELSE fired' = Append(fired, -1) /\ UNCHANGED waits

\* receive() in a thread that does not run the handlers, `remote' being set to r
\* before.  When nothing else waits, asio tries recvfrom() at once.
ReceiveElsewhere(r) ==
  \/ Receive /\ remote' = r /\ UNCHANGED <<inbox, cbuf, raced>>
  \/ /\ sock' \in {"open", "bound"} /\ waits = 0
     /\ Recv
     /\ raced' = (frame # 0)
     /\ UNCHANGED waits

\* Monitor_::start: a server binds, which opens the socket; a client does not.
\* The bind may fail and then nothing is received.  (It throws on an open socket.)
Start ==
  /\ ~started
  /\ started' = TRUE
  /\ IF port # "0" THEN /\ sock = "new"
                        /\ \/ sock' = "bound" /\ ReceiveElsewhere(remote)
                           \/ sock' = "failed" /\ UNCHANGED <<waits, fired, inbox, cbuf, remote, raced>>
                   ELSE UNCHANGED sock /\ ReceiveElsewhere(remote)
  /\ UNCHANGED <<port, pc, frame, cmd, wec>>

\* A client's program opens the public member sck itself.
Open ==
  /\ port = "0" /\ IsShut /\ waits = 0
  /\ sock' = "open"
  /\ UNCHANGED <<port, started, ioVars, pc, wec>>

\* Monitor_::close cancels the operations under way.
Close ==
  /\ ~IsShut
  /\ sock' = "closed"
  /\ waits' = 0
  /\ fired' = fired \o [i \in 1..waits |-> -1]
  /\ inbox' = <<>>
  /\ UNCHANGED <<port, started, cbuf, remote, pc, frame, cmd, wec, raced>>

-----------------------------------------------------------------------------
(* The network and the kernel *)

\* A datagram gets here, for the first time or again, in whatever order.  Those
\* that do not, or that find the kernel's buffer full, are lost.
Arrive(d) ==
  /\ sock = "bound"
  /\ Len(inbox) < MaxQueue
  /\ inbox' = Append(inbox, d)
  /\ UNCHANGED <<sock, port, started, waits, fired, cbuf, remote, pc, frame, cmd, wec, raced>>

\* One operation that waits completes, in the thread that runs the handlers and
\* so between two of them.
Fill ==
  /\ waits > 0 /\ frame = 0
  /\ Recv
  /\ waits' = waits - 1
  /\ UNCHANGED <<sock, port, started, pc, frame, cmd, wec, raced>>

-----------------------------------------------------------------------------
(* Monitor_::received *)

\* mod->parse(cbuf): the length one datagram's header declares, or, of bytes
\* that are not one header, any.
Parse ==
  LET d == cbuf[1].of
  IN  IF d # None /\ \A i \in 1..HeaderLen : cbuf[i] = Byte(d, i) THEN {d.len}
                                                                 ELSE 0..(LenMod - 1)

\* The bytes [buf + hlen, buf + hlen + n), beyond the end of buf too.
Payload(buf, n) ==
  [i \in 1..n |-> IF HeaderLen + i <= BufSize THEN buf[HeaderLen + i] ELSE Junk]

\* transferred - hlen, as size_t has it.
Rest(transferred) == (transferred - HeaderLen) % SizeMod

\* The Cmd_ for OnCmd, of n bytes of buf, with the UDP_ that answers r.
Cmd(r, buf, n) == [to |-> r, data |-> Payload(buf, n)]

\* Mutant: the early returns receive again, after any error.
StopAndReceive ==
  IF IsShut THEN fired' = Append(Tail(fired), -1) /\ UNCHANGED waits
            ELSE fired' = Tail(fired) /\ waits' = waits + 1

\* return, without receive().
Stop == fired' = Tail(fired) /\ UNCHANGED waits

\* received() up to its tests of the header.
Received ==
  /\ frame = 0 /\ fired # <<>>
  /\ \/ Head(fired) = -1 /\ Stop /\ UNCHANGED frame
     \/ /\ Head(fired) # -1
        /\ \E f \in Parse :
             IF f < 1 \/ f < Rest(Head(fired)) THEN Stop /\ UNCHANGED frame
             ELSE frame' = f /\ fired' = Tail(fired) /\ UNCHANGED waits
  /\ UNCHANGED <<sock, port, started, inbox, cbuf, remote, pc, cmd, wec, raced>>

\* Mutant: receive() is called before the payload is copied.
DeliverLate ==
  /\ frame # 0 /\ frame' = 0
  /\ IF sock \in {"open", "bound"} /\ waits = 0 /\ inbox # <<>>
     THEN Recv /\ UNCHANGED <<sock, waits>>
     ELSE UNCHANGED <<sock, inbox, cbuf, remote>> /\ Receive
  /\ cmd' = Cmd(remote, cbuf', frame)
  /\ raced' = FALSE
  /\ UNCHANGED <<port, started, pc, wec>>

\* The rest of received(): OnCmd gets a copy of what cbuf and `remote' hold by now.
Deliver ==
  /\ frame # 0 /\ frame' = 0
  /\ cmd' = Cmd(remote, cbuf, frame)
  /\ UNCHANGED sock /\ Receive
  /\ raced' = FALSE
  /\ UNCHANGED <<port, started, inbox, cbuf, remote, pc, wec>>

-----------------------------------------------------------------------------
(* Monitor_::write *)

\* send_to(), which binds a client's open socket, then the test of
\* endpoint.port().  On a closed socket send_to() sets ec.
WriteSend(w) ==
  /\ pc[w] = "idle"
  /\ wec' = (wec \/ IsShut)
  /\ sock' = IF sock = "open" THEN "bound" ELSE sock
  /\ pc' = [pc EXCEPT ![w] = IF port # "0" THEN "idle" ELSE "adopt"]
  /\ UNCHANGED <<port, started, ioVars>>

\* Mutant: endpoint stays without a port.
WriteAdoptKeepsPort(w) ==
  /\ pc[w] = "adopt"
  /\ pc' = [pc EXCEPT ![w] = "idle"]
  /\ UNCHANGED sock
  /\ IF IsShut THEN wec' = TRUE /\ UNCHANGED <<port, remote, waits, fired, inbox, cbuf, raced>>
     ELSE /\ ReceiveElsewhere(None)
          /\ UNCHANGED <<wec, port>>
  /\ UNCHANGED <<started, frame, cmd>>

\* The branch a client's first write takes: endpoint gets the port send_to()
\* bound, `remote' is set to tremote, and receive() is called, whatever the
\* handlers are at.  local_endpoint() throws on a closed socket.
WriteAdopt(w) ==
  /\ pc[w] = "adopt"
  /\ pc' = [pc EXCEPT ![w] = "idle"]
  /\ UNCHANGED sock
  /\ IF IsShut THEN wec' = TRUE /\ UNCHANGED <<port, remote, waits, fired, inbox, cbuf, raced>>
     ELSE /\ port' = "adopted"
          /\ ReceiveElsewhere(None)
          /\ UNCHANGED wec
  /\ UNCHANGED <<started, frame, cmd>>

-----------------------------------------------------------------------------
Next ==
  \/ Start \/ Open \/ Close
  \/ \E d \in Datagrams : Arrive(d)
  \/ Fill \/ Received \/ Deliver
  \/ \E w \in Writers : WriteSend(w) \/ WriteAdopt(w)

Spec == Init /\ [][Next]_vars

\* io_service::run() runs the queued handlers, asio completes what it can, and a
\* thread in write() goes on.
FairSpec ==
  Spec /\ WF_vars(Fill) /\ WF_vars(Received) /\ WF_vars(Deliver) /\ \A w \in Writers : WF_vars(WriteAdopt(w))

-----------------------------------------------------------------------------
(* Properties *)

TypeOK ==
  /\ sock \in {"new", "open", "bound", "failed", "closed"}
  /\ port \in {"0", "given", "adopted"}
  /\ started \in BOOLEAN /\ wec \in BOOLEAN /\ raced \in BOOLEAN
  /\ frame \in 0..(LenMod - 1)
  /\ waits \in 0..(1 + Cardinality(Writers))
  /\ fired \in Seq(-1..BufSize)
  /\ inbox \in Seq(Datagrams)
  /\ cbuf \in [1..BufSize -> [of : Datagrams \cup {None}, at : 0..BufSize]]
  /\ remote \in {d.from : d \in Datagrams} \cup {None}
  /\ pc \in [Writers -> {"idle", "adopt"}]
  /\ cmd # None => \A i \in DOMAIN cmd.data : cmd.data[i] = Junk \/ cmd.data[i].of \in Datagrams

\* A command is a datagram's whole payload, never a mixture of two nor bytes
\* left over from an earlier one, although several receives may share cbuf and
\* received() parses it in one place and copies it in another.  Only a start() or a
\* first write() of a client that receives in another thread between the two can
\* mix them, and nothing in the code forbids it.
WholeDatagram ==
  [][frame # 0 /\ frame' = 0 /\ ~raced =>
       \E d \in Datagrams : cmd'.data = [i \in 1..d.len |-> Byte(d, HeaderLen + i)]]_vars

\* On a server the writer of a command, the UDP_ built from `remote', answers the
\* peer whose bytes the command holds, all of them.
AnswersSender ==
  cmd # None /\ port = "given" =>
    \A i \in DOMAIN cmd.data : cmd.data[i].of # None /\ cmd.to = cmd.data[i].of.from

\* A server that is open and was started, and a client that wrote, always have
\* a receive outstanding or a handler that will start the next one.
KeepsReceiving == sock = "bound" /\ port # "0" /\ waits = 0 => fired # <<>> \/ frame # 0

\* A datagram that waits makes a handler run, as long as the monitor is open:
\* what received() "dropped" does not stop those that follow.
Consumed == (inbox # <<>>) ~> (fired # <<>> \/ IsShut)

\* Once the monitor is closed nothing is left to run.
RunReturns == <>[]IsShut => <>[](waits = 0 /\ fired = <<>> /\ frame = 0)

\* "BOOST_CHECK(ec == 0)" after start() and write() on a client
\* (socket_test.hpp): a monitor that was started and not closed can send.
WriteSucceeds == [][started /\ sock # "closed" => wec' = wec]_vars
=============================================================================
