----------------------------- MODULE TcpServer -----------------------------
(***************************************************************************)
(* The life of the TCP objects of netw/socket.cpp on one asio::io_service:  *)
(* an Acceptor_ with its chain of async_accept, the TCP_ objects it makes,  *)
(* and the Connector_ objects that connect to it.  Handlers run one at a    *)
(* time, in any order; the kernel, the network and the program's other      *)
(* threads act between them.                                                *)
(*                                                                         *)
(* The bytes are those of TcpStream.  Here a read completes with a good or  *)
(* a bad header, or with a payload that fits or not, as the bytes may have  *)
(* it.  A callback of the program may close anything, its own socket and    *)
(* acceptor included.  The read or the accept its handler goes on with then *)
(* fails at once, which is what a close right after the handler makes of    *)
(* it: Close and CloseAcceptor stand for both.                              *)
(***************************************************************************)
EXTENDS Naturals, Sequences, Functions

CONSTANTS
  Conns,        \* the Connector_ objects
  MaxConnects,  \* bound: TCP connections the kernel ever makes
  MaxTries      \* bound: calls of connect(), of all connectors

Links == 1..MaxConnects
Socks == 1..(MaxConnects + 1)     \* the TCP_ objects accept() makes, in order
Ends == Conns \cup Socks
Side(x) == IF x \in Conns THEN "c" ELSE "s"

ASSUME ServerAssumption ==
  /\ Conns \cap Nat = {}
  /\ MaxConnects \in Nat /\ MaxTries \in Nat

VARIABLES
  act,        \* Acceptor_::act: "new", "unbound", "listening", "closed"
  aop,        \* its async_accept: "none", "accept", "accepted", "error"
  made,       \* TCP_ objects accept() made; the last is the one it waits with
  backlog,    \* links the kernel holds for the acceptor
  links,      \* links made so far
  shut,       \* per link: the sides that closed it, "lost" when it broke
  sck,        \* per end: "closed" (or never opened), "open", "connected"
  link,       \* per end: its link, 0 before the first
  connecting, \* per end: async_connect operations under way,
  connected,  \*   handlers of those that succeeded, queued,
  refused,    \*   and of those that failed
  reading,    \* per end: async_read operations under way,
  readed,     \*   handlers of those that got their bytes, queued,
  failed,     \*   and of those that failed
  local,      \* per connector: Connector_::local has a port
  tries,      \* calls of connect()
  conns,      \* history, per end: calls of OnConn without error
  declined,   \* history, per end: those whose false closed the socket
  closes      \* history, per end: calls of OnClose

actVars == <<act, aop, made, backlog>>
sckVars == <<sck, shut>>
dialVars == <<connecting, connected, refused>>
readVars == <<reading, readed, failed>>
progVars == <<conns, declined, closes>>
vars == <<actVars, links, sckVars, link, dialVars, readVars, local, tries, progVars>>

Init ==
  /\ act = "new" /\ aop = "none" /\ made = 0 /\ backlog = <<>>
  /\ links = 0 /\ shut = [k \in Links |-> {}]
  /\ sck = [x \in Ends |-> "closed"] /\ link = [x \in Ends |-> 0]
  /\ local = [c \in Conns |-> FALSE] /\ tries = 0
  /\ LET zero == [x \in Ends |-> 0]
     IN  /\ connecting = zero /\ connected = zero /\ refused = zero
         /\ reading = zero /\ readed = zero /\ failed = zero
         /\ conns = zero /\ declined = zero /\ closes = zero

Set(f, x, v) == f' = [f EXCEPT ![x] = v]
Add(f, x, n) == f' = [f EXCEPT ![x] = @ + n]
Take(f, x) == f[x] > 0 /\ f' = [f EXCEPT ![x] = @ - 1]

-----------------------------------------------------------------------------
(* What handlers do to their own socket *)

\* Mutant: sck.cancel() in place of sck.close().
CancelOwn(x) ==
  /\ Set(sck, x, "closed") /\ Set(connecting, x, 0) /\ Set(reading, x, 0)
  /\ UNCHANGED shut

\* sck.close(): the link is shut on this side and what is under way is over.
CloseOwn(x) ==
  /\ Set(sck, x, "closed") /\ Set(connecting, x, 0) /\ Set(reading, x, 0)
  /\ shut' = [k \in Links |-> IF k = link[x] THEN shut[k] \cup {Side(x)} ELSE shut[k]]

\* A read on a socket that is connected waits for bytes, and on one that is still
\* connecting for the connection; on any other it meets an error.
Readable(state, dials) == state = "connected" \/ (state = "open" /\ dials > 0)

\* TCP_::read, which may find the socket closed by a callback or connecting again.
Read(x) ==
  IF Readable(sck'[x], connecting'[x])
  THEN Add(reading, x, 1) /\ UNCHANGED failed
  ELSE Add(failed, x, 1) /\ UNCHANGED reading

-----------------------------------------------------------------------------
(* The connector *)

\* Connector_::connect.  The program calls it when sck is closed, for sck.open()
\* throws on an open one; handlers of the last connection may still be queued.
\* Once connected, a connector binds its old port again, which may fail and
\* leaves the socket open.
Connect(c) ==
  /\ sck[c] = "closed" /\ tries < MaxTries
  /\ tries' = tries + 1
  /\ Set(sck, c, "open") /\ Set(link, c, 0)
  /\ \/ Set(connecting, c, 1)
     \/ local[c] /\ UNCHANGED connecting
  /\ UNCHANGED <<actVars, links, shut, connected, refused, readVars, local, progVars>>

\* The kernel finishes the TCP handshake with the listening acceptor.
Establish(c) ==
  /\ act = "listening" /\ links < MaxConnects
  /\ Take(connecting, c) /\ Add(connected, c, 1)
  /\ links' = links + 1
  /\ backlog' = Append(backlog, links')
  /\ Set(link, c, links') /\ Set(sck, c, "connected")
  /\ UNCHANGED <<act, aop, made, shut, refused, readVars, local, tries, progVars>>

\* The connect fails: nobody listens, or the network does not answer.
Refuse(c) ==
  /\ Take(connecting, c) /\ Add(refused, c, 1)
  /\ UNCHANGED <<actVars, links, sckVars, link, connected, readVars, local, tries, progVars>>

\* Connector_::connected(err): OnConn(err) and nothing else.  local_endpoint()
\* of a closed socket is an error too.
ConnectFailed(c) ==
  /\ \/ Take(refused, c) /\ UNCHANGED connected
     \/ sck[c] = "closed" /\ Take(connected, c) /\ UNCHANGED refused
  /\ UNCHANGED <<actVars, links, sckVars, link, connecting, readVars, local, tries, progVars>>

\* Connector_::connected(ok), for this socket or one that was closed since: what
\* OnConn returns is not looked at.  A socket that could not be bound has no port.
Connected(c) ==
  /\ sck[c] # "closed"
  /\ Take(connected, c)
  /\ \E p \in BOOLEAN : (sck[c] = "connected" => p) /\ Set(local, c, p)
  /\ Add(conns, c, 1)
  /\ UNCHANGED <<sck, connecting>> /\ Read(c)
  /\ UNCHANGED <<actVars, links, shut, link, refused, readed, tries, declined, closes>>

-----------------------------------------------------------------------------
(* The acceptor *)

\* Mutant: only start() accepts.
AcceptOnce ==
  /\ made' = made + 1
  /\ aop' = CASE act' # "listening" -> "error" [] made = 0 -> "accept" [] OTHER -> "none"

\* Acceptor_::accept.  An async_accept on a closed acceptor fails at once.
Accept ==
  /\ made' = made + 1
  /\ aop' = IF act' = "listening" THEN "accept" ELSE "error"

\* act.close(): the kernel resets the links nobody took.
CloseAct ==
  /\ act' = "closed"
  /\ backlog' = <<>>
  /\ shut' = [k \in Links |-> IF k \in Range(backlog) THEN shut[k] \cup {"s"} ELSE shut[k]]

\* Acceptor_::start
StartAcceptor ==
  /\ act = "new"
  /\ \/ act' = "listening" /\ Accept
     \/ act' = "unbound" /\ UNCHANGED <<aop, made>>
  /\ UNCHANGED <<backlog, links, sckVars, link, dialVars, readVars, local, tries, progVars>>

\* The kernel hands the oldest link to the waiting TCP_.
TakeLink ==
  /\ aop = "accept" /\ backlog # <<>>
  /\ aop' = "accepted"
  /\ backlog' = Tail(backlog)
  /\ Set(link, made, Head(backlog)) /\ Set(sck, made, "connected")
  /\ UNCHANGED <<act, made, links, shut, dialVars, readVars, local, tries, progVars>>

\* accept() fails, for want of descriptors or memory.
AcceptError ==
  /\ aop = "accept"
  /\ aop' = "error"
  /\ UNCHANGED <<act, made, backlog, links, sckVars, link, dialVars, readVars, local,
                 tries, progVars>>

\* Mutant: accept() is called again, whatever the error was.
AcceptFailedRetries ==
  /\ aop = "error"
  /\ UNCHANGED <<act, backlog, shut>>
  /\ Accept
  /\ UNCHANGED <<links, sck, link, dialVars, readVars, local, tries, progVars>>

\* Acceptor_::accepted(s, err)
AcceptFailed ==
  /\ aop = "error"
  /\ aop' = "none"
  /\ CloseAct
  /\ UNCHANGED <<made, links, sck, link, dialVars, readVars, local, tries, progVars>>

\* Mutant: a socket OnConn refused is started all the same.
DeclineStarts(s) == Add(declined, s, 1) /\ CloseOwn(s) /\ Add(failed, s, 1)

\* s->close() when OnConn returned false: no OnClose.
DeclineSock(s) == Add(declined, s, 1) /\ CloseOwn(s) /\ UNCHANGED failed

\* Mutant: with the acceptor closed, the socket is closed without OnConn.
AcceptedQuiet ==
  /\ aop = "accepted"
  /\ IF act = "closed" THEN CloseOwn(made) /\ UNCHANGED <<conns, declined, failed>>
     ELSE /\ Add(conns, made, 1)
          /\ \/ UNCHANGED <<sckVars, connecting, declined>> /\ Read(made)
             \/ DeclineSock(made)
  /\ UNCHANGED act /\ Accept
  /\ UNCHANGED <<backlog, links, link, connected, refused, readed, local, tries, closes>>

\* Acceptor_::accepted(s, ok)
Accepted ==
  /\ aop = "accepted"
  /\ Add(conns, made, 1)
  /\ \/ UNCHANGED <<sckVars, connecting, declined>> /\ Read(made)
     \/ DeclineSock(made)
  /\ UNCHANGED act /\ Accept
  /\ UNCHANGED <<backlog, links, link, connected, refused, readed, local, tries, closes>>

-----------------------------------------------------------------------------
(* A connected end, of either kind *)

\* The async_read has all its bytes: the peer may have written them.
ReadDone(x) ==
  /\ sck[x] = "connected"
  /\ Take(reading, x) /\ Add(readed, x, 1)
  /\ UNCHANGED <<actVars, links, sckVars, link, dialVars, failed, local, tries, progVars>>

\* The async_read meets the end of the stream or a reset, or the connect it
\* waited for failed.
ReadFails(x) ==
  /\ \/ sck[x] = "connected" /\ shut[link[x]] \ {Side(x)} # {}
     \/ ~Readable(sck[x], connecting[x])
  /\ Take(reading, x) /\ Add(failed, x, 1)
  /\ UNCHANGED <<actVars, links, sckVars, link, dialVars, readed, local, tries, progVars>>

\* Mutant: OnClose without close().
DropLeavesOpen(x, rest) ==
  /\ Add(closes, x, 1)
  /\ UNCHANGED <<sckVars, connecting, refused, reading>>
  /\ Set(failed, x, rest)

\* Mutant: an operation that our own close() aborted is not reported.
DropQuiet(x, rest) ==
  /\ IF sck[x] = "closed" THEN UNCHANGED closes ELSE Add(closes, x, 1)
  /\ CloseOwn(x)
  /\ Add(refused, x, connecting[x])
  /\ Set(failed, x, rest + reading[x])

\* con->OnClose(bs, err); close(); return;  The close() aborts whatever else is
\* under way on the socket, which the program may have connected again; `rest'
\* counts the other failed reads that are queued.
Drop(x, rest) ==
  /\ Add(closes, x, 1)
  /\ CloseOwn(x)
  /\ Add(refused, x, connecting[x])
  /\ Set(failed, x, rest + reading[x])

\* TCP_::readed(err)
ReadedError(x) ==
  /\ failed[x] > 0 /\ Drop(x, failed[x] - 1)
  /\ UNCHANGED <<actVars, links, link, connected, readed, local, tries, conns, declined>>

\* TCP_::readed(ok), with bytes that are refused, or a header or a command, after
\* which it reads on.
Readed(x) ==
  /\ Take(readed, x)
  /\ \/ Drop(x, failed[x])
     \/ UNCHANGED <<sckVars, connecting, refused, closes>> /\ Read(x)
  /\ UNCHANGED <<actVars, links, link, connected, local, tries, conns, declined>>

-----------------------------------------------------------------------------
(* The program, and the network *)

\* TCP_::close: asio cancels what is under way, never a handler already queued.
Close(x) ==
  /\ sck[x] # "closed"
  /\ ~(x = made /\ aop = "accepted")      \* the program does not hold it yet
  /\ CloseOwn(x)
  /\ Add(refused, x, connecting[x])
  /\ Add(failed, x, reading[x])
  /\ UNCHANGED <<actVars, links, link, connected, readed, local, tries, progVars>>

\* Acceptor_::close
CloseAcceptor ==
  /\ act # "closed"
  /\ CloseAct
  /\ aop' = IF aop = "accept" THEN "error" ELSE aop
  /\ UNCHANGED <<made, links, sck, link, dialVars, readVars, local, tries, progVars>>

\* A link breaks.
Lose(k) ==
  /\ k <= links /\ "lost" \notin shut[k]
  /\ Set(shut, k, shut[k] \cup {"lost"})
  /\ UNCHANGED <<actVars, links, sck, link, dialVars, readVars, local, tries, progVars>>

-----------------------------------------------------------------------------
Next ==
  \/ StartAcceptor \/ TakeLink \/ AcceptError \/ AcceptFailed \/ Accepted
  \/ \E c \in Conns : \/ Connect(c) \/ Establish(c) \/ Refuse(c)
                      \/ ConnectFailed(c) \/ Connected(c)
  \/ \E x \in Ends : ReadDone(x) \/ ReadFails(x) \/ ReadedError(x) \/ Readed(x) \/ Close(x)
  \/ CloseAcceptor
  \/ \E k \in Links : Lose(k)

Spec == Init /\ [][Next]_vars

\* io_service::run() runs what is queued, asio and the kernel finish what can
\* be finished; a connect is answered or times out.  The bytes on their way when
\* a link is shut are finite: the reads come to its end.
Fairness ==
  /\ WF_vars(TakeLink) /\ WF_vars(AcceptFailed) /\ WF_vars(Accepted)
  /\ \A c \in Conns : /\ WF_vars(Establish(c) \/ Refuse(c))
                      /\ WF_vars(ConnectFailed(c)) /\ WF_vars(Connected(c))
  /\ \A x \in Ends : SF_vars(ReadFails(x)) /\ WF_vars(ReadedError(x)) /\ WF_vars(Readed(x))

FairSpec == Spec /\ Fairness

-----------------------------------------------------------------------------
(* Properties *)

TypeOK ==
  /\ act \in {"new", "unbound", "listening", "closed"}
  /\ aop \in {"none", "accept", "accepted", "error"}
  /\ made \in 0..(MaxConnects + 1)
  /\ backlog \in Seq(Links)
  /\ links \in 0..MaxConnects
  /\ shut \in [Links -> SUBSET {"c", "s", "lost"}]
  /\ sck \in [Ends -> {"closed", "open", "connected"}]
  /\ link \in [Ends -> 0..MaxConnects]
  /\ connecting \in [Ends -> Nat] /\ connected \in [Ends -> Nat] /\ refused \in [Ends -> Nat]
  /\ reading \in [Ends -> Nat] /\ readed \in [Ends -> Nat] /\ failed \in [Ends -> Nat]
  /\ local \in [Conns -> BOOLEAN]
  /\ tries \in 0..MaxTries
  /\ conns \in [Ends -> Nat] /\ declined \in [Ends -> Nat] /\ closes \in [Ends -> Nat]

\* Every OnConn that was not answered with a refusal starts one chain of reads,
\* and each chain ends in one OnClose: OnClose never comes twice for a connection,
\* before its OnConn, for a refused socket or for a connect that failed, and is
\* never forgotten, however closes race with completions that are queued and
\* although the program may connect again before the old handlers have run.
ChainsPaired ==
  \A x \in Ends : conns[x] = declined[x] + closes[x] + reading[x] + readed[x] + failed[x]

\* A connected socket always has an operation or a handler outstanding that
\* will notice its end; none is left open and unattended.
Attended ==
  \A x \in Ends : sck[x] = "connected" =>
    connected[x] + reading[x] + readed[x] + failed[x] > 0 \/ (x = made /\ aop = "accepted")

\* While the acceptor listens, the chain of async_accept is not broken,
\* whatever OnConn did with the sockets before.
KeepsAccepting == act = "listening" => aop # "none"

\* OnConn was called with the TCP_ of link k.
Announced(k) == \E s \in Socks : link[s] = k /\ conns[s] > 0

\* Each link the kernel holds for the acceptor is announced by OnConn; only those
\* that no TCP_ has yet when the acceptor is closed are not.
Served ==
  \A k \in Links : (k \in Range(backlog)) ~>
     (Announced(k) \/ (act = "closed" /\ \A s \in Socks : link[s] # k))

\* What the tests wait for with thrd.join(): once the program has closed the
\* acceptor and the connectors, without closing the accepted sockets, nothing
\* is left to run and io_service::run() returns.
Stopped == act = "closed" /\ \A c \in Conns : sck[c] = "closed"
Idle ==
  /\ aop = "none"
  /\ \A x \in Ends : connecting[x] + connected[x] + refused[x] + reading[x] + readed[x] + failed[x] = 0
RunReturns == <>[]Stopped => <>[]Idle

\* A connector that is closed for good, by either side, gets an OnClose for each
\* connection it was told of.
ConnectorToldOfClose ==
  \A c \in Conns : <>[](sck[c] = "closed") => <>[](conns[c] = closes[c])
=============================================================================
