--------------------------- MODULE TcpServerProof ---------------------------
(***************************************************************************)
(* Proofs about TcpServer, for any number of connectors, connections and    *)
(* calls of connect().                                                     *)
(***************************************************************************)
EXTENDS TcpServer, SequenceTheorems, TLAPS

\* accept() makes a TCP_ only for a link that left the backlog, and one more.
AcceptChain ==
  /\ act = "new" => made = 0 /\ aop = "none" /\ backlog = <<>>
  /\ made <= links + 1
  /\ aop = "accept" => made >= 1 /\ made + Len(backlog) <= links + 1
  /\ aop = "accepted" => made >= 1 /\ made + Len(backlog) <= links

\* The variables of the acceptor, which every other object leaves alone.
AcceptorType ==
  /\ act \in {"new", "unbound", "listening", "closed"}
  /\ aop \in {"none", "accept", "accepted", "error"}
  /\ made \in 0..(MaxConnects + 1)
  /\ backlog \in Seq(Links)
  /\ links \in 0..MaxConnects

LEMMA EndsFacts == /\ Conns \subseteq Ends /\ Socks \subseteq Ends
                   /\ 1..(MaxConnects + 1) = Socks
                   /\ MaxConnects \in Nat /\ MaxTries \in Nat
BY ServerAssumption DEF Ends, Socks

LEMMA AcceptorInit == Init => AcceptorType /\ AcceptChain /\ KeepsAccepting
<1> SUFFICES ASSUME Init PROVE AcceptorType /\ AcceptChain /\ KeepsAccepting
  OBVIOUS
<1>1. backlog = <<>> /\ made = 0 /\ links = 0 /\ act = "new" /\ aop = "none"
  BY DEF Init
<1>2. backlog \in Seq(Links)
  BY <1>1, EmptySeq
<1> QED BY <1>1, <1>2, EndsFacts DEF AcceptorType, AcceptChain, KeepsAccepting

\* What a step can do to the acceptor and the backlog.
LEMMA AcceptorStep ==
  ASSUME AcceptorType, AcceptChain, KeepsAccepting, [Next]_vars
  PROVE  AcceptorType' /\ AcceptChain' /\ KeepsAccepting'
<1> USE DEF AcceptorType, AcceptChain, KeepsAccepting
<1>1. MaxConnects \in Nat /\ made \in Nat /\ links \in Nat /\ Len(backlog) \in Nat
  BY EndsFacts, LenProperties
<1>2. CASE UNCHANGED <<act, aop, made, backlog, links>>
  BY <1>2
<1>3. CASE StartAcceptor
  BY <1>1, <1>3, EmptySeq DEF StartAcceptor, Accept
<1>4. CASE TakeLink
  <2>1. Tail(backlog) \in Seq(Links) /\ Len(Tail(backlog)) = Len(backlog) - 1
    BY <1>4, HeadTailProperties DEF TakeLink
  <2> QED BY <1>1, <1>4, <2>1 DEF TakeLink
<1>5. CASE AcceptError
  BY <1>1, <1>5 DEF AcceptError
<1>6. CASE AcceptFailed
  BY <1>1, <1>6, EmptySeq DEF AcceptFailed, CloseAct
<1>7. CASE Accepted
  BY <1>1, <1>7 DEF Accepted, Accept
<1>8. CASE CloseAcceptor
  BY <1>1, <1>8, EmptySeq DEF CloseAcceptor, CloseAct
<1>9. ASSUME NEW c \in Conns, Establish(c)
      PROVE  AcceptorType' /\ AcceptChain' /\ KeepsAccepting'
  <2>1. links + 1 \in Links
    BY <1>1, <1>9 DEF Establish, Links
  <2>2. /\ links' = links + 1 /\ backlog' = Append(backlog, links + 1)
        /\ act = "listening" /\ links < MaxConnects /\ UNCHANGED <<act, aop, made>>
    BY <1>9 DEF Establish
  <2>3. backlog' \in Seq(Links) /\ Len(backlog') = Len(backlog) + 1
    BY <2>1, <2>2, AppendProperties
  <2> QED BY <1>1, <2>2, <2>3
<1>10. ASSUME NEW c \in Conns, Connect(c) \/ Refuse(c) \/ ConnectFailed(c) \/ Connected(c)
       PROVE  UNCHANGED <<act, aop, made, backlog, links>>
  BY <1>10 DEF Connect, Refuse, ConnectFailed, Connected, actVars
<1>11. ASSUME NEW x \in Ends,
              ReadDone(x) \/ ReadFails(x) \/ ReadedError(x) \/ Readed(x) \/ Close(x)
       PROVE  UNCHANGED <<act, aop, made, backlog, links>>
  BY <1>11 DEF ReadDone, ReadFails, ReadedError, Readed, Close, actVars
<1>12. ASSUME NEW k \in Links, Lose(k) PROVE UNCHANGED <<act, aop, made, backlog, links>>
  BY <1>12 DEF Lose, actVars
<1>13. CASE UNCHANGED vars
  BY <1>2, <1>13 DEF vars, actVars
<1> QED BY <1>2, <1>3, <1>4, <1>5, <1>6, <1>7, <1>8, <1>9, <1>10, <1>11, <1>12, <1>13 DEF Next

-----------------------------------------------------------------------------
\* The variables of the ends.
EndsType ==
  /\ sck \in [Ends -> {"closed", "open", "connected"}]
  /\ connecting \in [Ends -> Nat] /\ connected \in [Ends -> Nat] /\ refused \in [Ends -> Nat]
  /\ reading \in [Ends -> Nat] /\ readed \in [Ends -> Nat] /\ failed \in [Ends -> Nat]
  /\ conns \in [Ends -> Nat] /\ declined \in [Ends -> Nat] /\ closes \in [Ends -> Nat]

\* Nothing is read from a closed socket.
ReadsOpen ==
  \A x \in Ends : sck[x] = "closed" => reading[x] = 0

\* A TCP_ that accept() has not handed over yet, and one that does not exist.
Unstarted(x) == x \in Socks /\ (x > made \/ (x = made /\ aop \in {"accept", "accepted"}))

\* Nothing is under way on it, and it is open only when it was just connected.
StartsFresh ==
  \A x \in Ends : Unstarted(x) =>
    /\ reading[x] = 0 /\ readed[x] = 0 /\ failed[x] = 0
    /\ sck[x] # "closed" => x = made /\ aop = "accepted"

EndsInv == EndsType /\ ReadsOpen /\ ChainsPaired /\ Attended /\ StartsFresh

LEMMA EndsInit == Init => EndsInv
BY DEF Init, EndsInv, EndsType, ReadsOpen, ChainsPaired, Attended, StartsFresh

\* A step that touches the end x alone, and leaves at x what the invariant says
\* of one end, keeps the invariant of all of them.
Others(x) ==
  /\ sck' = [sck EXCEPT ![x] = sck'[x]]
  /\ connecting' = [connecting EXCEPT ![x] = connecting'[x]]
  /\ connected' = [connected EXCEPT ![x] = connected'[x]]
  /\ refused' = [refused EXCEPT ![x] = refused'[x]]
  /\ reading' = [reading EXCEPT ![x] = reading'[x]]
  /\ readed' = [readed EXCEPT ![x] = readed'[x]]
  /\ failed' = [failed EXCEPT ![x] = failed'[x]]
  /\ conns' = [conns EXCEPT ![x] = conns'[x]]
  /\ declined' = [declined EXCEPT ![x] = declined'[x]]
  /\ closes' = [closes EXCEPT ![x] = closes'[x]]

EndType(x) ==
  /\ sck[x] \in {"closed", "open", "connected"}
  /\ connecting[x] \in Nat /\ connected[x] \in Nat /\ refused[x] \in Nat
  /\ reading[x] \in Nat /\ readed[x] \in Nat /\ failed[x] \in Nat
  /\ conns[x] \in Nat /\ declined[x] \in Nat /\ closes[x] \in Nat

EndInv(x) ==
  /\ sck[x] = "closed" => reading[x] = 0
  /\ conns[x] = declined[x] + closes[x] + reading[x] + readed[x] + failed[x]
  /\ sck[x] = "connected" =>
       connected[x] + reading[x] + readed[x] + failed[x] > 0 \/ (x = made /\ aop = "accepted")
  /\ Unstarted(x) =>
       /\ reading[x] = 0 /\ readed[x] = 0 /\ failed[x] = 0
       /\ sck[x] # "closed" => x = made /\ aop = "accepted"

LEMMA AtEnd == ASSUME EndsInv, NEW x \in Ends PROVE EndType(x) /\ EndInv(x)
BY DEF EndsInv, EndsType, ReadsOpen, ChainsPaired, Attended, StartsFresh, EndType, EndInv

LEMMA OneEnd ==
  ASSUME EndsInv, NEW x \in Ends, Others(x), EndType(x)', EndInv(x)',
         \A y \in Ends \ {x} : /\ y = made /\ aop = "accepted" => y = made' /\ aop' = "accepted"
                               /\ Unstarted(y)' => Unstarted(y)
  PROVE  EndsInv'
<1>1. EndsType'
  BY DEF EndsInv, EndsType, Others, EndType
<1>2. ASSUME NEW y \in Ends PROVE EndInv(y)'
  <2>1. CASE y = x
    BY <2>1
  <2>2. CASE y # x
    <3>1. EndInv(y)
      BY AtEnd
    <3>2. /\ sck'[y] = sck[y] /\ connected'[y] = connected[y] /\ reading'[y] = reading[y]
          /\ readed'[y] = readed[y] /\ failed'[y] = failed[y] /\ conns'[y] = conns[y]
          /\ declined'[y] = declined[y] /\ closes'[y] = closes[y]
      BY <2>2 DEF Others, EndsInv, EndsType
    <3>3. y = made /\ aop = "accepted" => y = made' /\ aop' = "accepted"
      BY <2>2
    <3>4. Unstarted(y)' => Unstarted(y)
      BY <2>2, Zenon
    <3> QED BY <3>1, <3>2, <3>3, <3>4 DEF EndInv
  <2> QED BY <2>1, <2>2
<1> QED BY <1>1, <1>2 DEF EndsInv, ReadsOpen, ChainsPaired, Attended, StartsFresh, EndInv

\* The steps of a connector.
LEMMA ConnectorStep ==
  ASSUME EndsInv, NEW c \in Conns,
         Connect(c) \/ Establish(c) \/ Refuse(c) \/ ConnectFailed(c) \/ Connected(c)
  PROVE  EndsInv'
<1>0. c \in Ends
  BY EndsFacts
<1>1. EndsType /\ EndType(c) /\ EndInv(c)
  BY <1>0, AtEnd DEF EndsInv
<1>2. c \notin Socks /\ UNCHANGED <<made, aop>> /\ Others(c) /\ EndType(c)' /\ EndInv(c)'
  <2>0. c \notin Socks
    BY ServerAssumption DEF Socks
  <2> USE <1>0, <1>1, <2>0 DEF Unstarted, EndsType, EndType, EndInv, Others, Set, Add, Take,
                         actVars, readVars, progVars, sckVars
  <2>1. CASE Connect(c)
    BY <2>1 DEF Connect
  <2>2. CASE Establish(c)
    <3>1. /\ connecting[c] > 0 /\ connecting' = [connecting EXCEPT ![c] = @ - 1]
          /\ connected' = [connected EXCEPT ![c] = @ + 1]
          /\ sck' = [sck EXCEPT ![c] = "connected"]
          /\ UNCHANGED <<made, aop, refused, reading, readed, failed, conns, declined, closes>>
      BY <2>2 DEF Establish
    <3> QED BY <3>1
  <2>3. CASE Refuse(c)
    BY <2>3 DEF Refuse
  <2>4. CASE ConnectFailed(c)
    BY <2>4 DEF ConnectFailed
  <2>5. CASE Connected(c)
    BY <2>5 DEF Connected, Read, Readable
  <2> QED BY <2>1, <2>2, <2>3, <2>4, <2>5
<1> QED BY <1>0, <1>2, OneEnd DEF Unstarted

\* The steps of an end that has a connection.
LEMMA EndStep ==
  ASSUME EndsInv, NEW x \in Ends,
         ReadDone(x) \/ ReadFails(x) \/ ReadedError(x) \/ Readed(x) \/ Close(x)
  PROVE  EndsInv'
<1>1. EndsType /\ EndType(x) /\ EndInv(x)
  BY AtEnd DEF EndsInv
<1>2. UNCHANGED <<made, aop>> /\ Others(x) /\ EndType(x)' /\ EndInv(x)'
  <2> USE <1>1 DEF Unstarted, EndsType, EndType, EndInv, Others, Set, Add, Take,
                   actVars, dialVars, readVars, progVars, sckVars
  <2>1. CASE ReadDone(x)
    BY <2>1 DEF ReadDone
  <2>2. CASE ReadFails(x)
    BY <2>2 DEF ReadFails
  <2>3. CASE ReadedError(x)
    BY <2>3 DEF ReadedError, Drop, CloseOwn
  <2>4. CASE Readed(x)
    BY <2>4 DEF Readed, Drop, CloseOwn, Read, Readable
  <2>5. CASE Close(x)
    BY <2>5 DEF Close, CloseOwn
  <2> QED BY <2>1, <2>2, <2>3, <2>4, <2>5
<1> QED BY <1>2, OneEnd DEF Unstarted

\* The steps of the acceptor: it touches the TCP_ it made last, if any.
LEMMA AcceptorEnds ==
  ASSUME EndsInv, AcceptorType, AcceptChain,
         StartAcceptor \/ TakeLink \/ AcceptError \/ AcceptFailed \/ Accepted \/ CloseAcceptor
  PROVE  EndsInv'
<1> DEFINE Quiet == UNCHANGED <<sck, connecting, connected, refused, reading, readed, failed,
                                conns, declined, closes>>
<1>1. ASSUME Quiet, aop # "accepted" \/ UNCHANGED <<made, aop>>,
              \A x \in Ends : Unstarted(x)' => Unstarted(x)
       PROVE EndsInv'
  <2>1. \A x \in Ends : x = made /\ aop = "accepted" => x = made' /\ aop' = "accepted"
    BY <1>1
  <2> QED BY <1>1, <2>1 DEF EndsInv, EndsType, ReadsOpen, ChainsPaired, Attended, StartsFresh
<1>2. made \in Nat
  BY EndsFacts DEF AcceptorType
<1>3. CASE StartAcceptor
  <2>1. Quiet /\ aop = "none" /\ (UNCHANGED <<made, aop>> \/ made' = made + 1)
    BY <1>3 DEF StartAcceptor, Accept, AcceptChain, sckVars, dialVars, readVars, progVars
  <2> QED BY <1>1, <1>2, <2>1, EndsFacts DEF Unstarted, Socks
<1>4. CASE AcceptError
  BY <1>1, <1>4 DEF AcceptError, Unstarted, sckVars, dialVars, readVars, progVars
<1>5. CASE AcceptFailed \/ CloseAcceptor
  <2>1. Quiet /\ made' = made
    BY <1>5 DEF AcceptFailed, CloseAcceptor, dialVars, readVars, progVars
  <2>2. aop' = aop \/ (aop' \in {"none", "error"} /\ aop # "accepted")
    BY <1>5 DEF AcceptFailed, CloseAcceptor
  <2> QED BY <1>1, <2>1, <2>2 DEF Unstarted
<1>6. ASSUME TakeLink \/ Accepted PROVE \E s \in Ends : s = made
  BY <1>6, EndsFacts DEF TakeLink, Accepted, AcceptorType, AcceptChain
<1>7. CASE TakeLink
  <2>1. PICK s \in Ends : s = made
    BY <1>6, <1>7
  <2>2. EndsType /\ EndType(s) /\ EndInv(s)
    BY AtEnd DEF EndsInv
  <2>3. /\ aop = "accept" /\ aop' = "accepted" /\ made' = s
        /\ sck' = [sck EXCEPT ![s] = "connected"]
        /\ UNCHANGED <<connecting, connected, refused, reading, readed, failed,
                       conns, declined, closes>>
    BY <1>7, <2>1 DEF TakeLink, Set, dialVars, readVars, progVars
  <2>4. Others(s) /\ EndType(s)' /\ EndInv(s)'
    BY <1>2, <2>1, <2>2, <2>3 DEF Unstarted, EndsType, EndType, EndInv, Others
  <2> QED BY <2>1, <2>3, <2>4, OneEnd DEF Unstarted
<1>8. CASE Accepted
  <2>1. PICK s \in Ends : s = made
    BY <1>6, <1>8
  <2>2. EndsType /\ EndType(s) /\ EndInv(s)
    BY AtEnd DEF EndsInv
  <2>3. /\ aop = "accepted" /\ made' = made + 1 /\ aop' \in {"accept", "error"}
        /\ conns' = [conns EXCEPT ![s] = @ + 1]
        /\ UNCHANGED <<connected, refused, readed, closes>>
        /\ \/ UNCHANGED <<sck, connecting, declined>> /\ Read(s)
           \/ DeclineSock(s)
    BY <1>8, <2>1 DEF Accepted, Accept, Add, sckVars
  <2>4. Others(s) /\ EndType(s)' /\ EndInv(s)'
    <3>1. s \in Socks /\ Unstarted(s) /\ ~Unstarted(s)'
      BY <1>2, <2>1, <2>3, <1>6, <1>8, EndsFacts DEF Unstarted, AcceptorType, AcceptChain
    <3> USE <2>2, <2>3, <3>1 DEF EndsType, EndType, EndInv, Others, Set, Add
    <3>2. CASE UNCHANGED <<sck, connecting, declined>> /\ Read(s)
      BY <3>2 DEF Read, Readable
    <3>3. CASE DeclineSock(s)
      BY <3>3 DEF DeclineSock, CloseOwn
    <3> QED BY <2>3, <3>2, <3>3
  <2>5. \A y \in Ends \ {s} : Unstarted(y)' => Unstarted(y)
    BY <1>2, <2>1, <2>3 DEF Unstarted, Socks
  <2> QED BY <2>1, <2>4, <2>5, OneEnd
<1> QED BY <1>3, <1>4, <1>5, <1>7, <1>8

-----------------------------------------------------------------------------
\* What is left of the state: the links, and what a connector remembers.
LinksType ==
  /\ shut \in [Links -> SUBSET {"c", "s", "lost"}]
  /\ link \in [Ends -> 0..MaxConnects]
  /\ local \in [Conns -> BOOLEAN]
  /\ tries \in 0..MaxTries

LEMMA LinksStep ==
  ASSUME AcceptorType, AcceptChain, EndsInv, LinksType, [Next]_vars
  PROVE  LinksType'
<1> DEFINE S == {"c", "s", "lost"}
<1>1. shut \in [Links -> SUBSET S] /\ \A x \in Ends : Side(x) \in S
  BY DEF LinksType, Side
<1> HIDE DEF S
<1>2. "s" \in S /\ "lost" \in S
  BY DEF S
<1>3. ASSUME shut' \in [Links -> SUBSET S], UNCHANGED <<link, local, tries>> PROVE LinksType'
  BY <1>3 DEF LinksType, S
<1>4. ASSUME UNCHANGED <<shut, link, local, tries>> PROVE LinksType'
  BY <1>4 DEF LinksType
<1>5. ASSUME NEW x \in Ends, CloseOwn(x) PROVE shut' \in [Links -> SUBSET S]
  BY <1>1, <1>5 DEF CloseOwn
<1>6. ASSUME NEW x \in Ends, NEW n \in Nat, Drop(x, n) PROVE shut' \in [Links -> SUBSET S]
  BY <1>5, <1>6 DEF Drop
<1>7. CASE StartAcceptor \/ AcceptError
  BY <1>4, <1>7 DEF StartAcceptor, AcceptError, sckVars
<1>8. CASE AcceptFailed \/ CloseAcceptor
  <2>1. shut' \in [Links -> SUBSET S]
    BY <1>1, <1>2, <1>8 DEF AcceptFailed, CloseAcceptor, CloseAct
  <2> QED BY <1>3, <1>8, <2>1 DEF AcceptFailed, CloseAcceptor
<1>9. CASE TakeLink
  <2>1. Head(backlog) \in Links
    BY <1>9, HeadTailProperties DEF TakeLink, AcceptorType
  <2>2. link' \in [Ends -> 0..MaxConnects] /\ UNCHANGED <<shut, local, tries>>
    <3>1. link' = [link EXCEPT ![made] = Head(backlog)] /\ UNCHANGED <<shut, local, tries>>
      BY <1>9 DEF TakeLink, Set
    <3>2. Head(backlog) \in 0..MaxConnects
      BY <2>1, EndsFacts DEF Links
    <3> QED BY <3>1, <3>2 DEF LinksType
  <2> QED BY <2>2 DEF LinksType
<1>10. CASE Accepted
  <2>1. made \in Ends
    BY <1>10, EndsFacts DEF Accepted, AcceptorType, AcceptChain
  <2>2. shut' = shut \/ CloseOwn(made)
    BY <1>10 DEF Accepted, DeclineSock, sckVars
  <2>3. shut' \in [Links -> SUBSET S]
    BY <1>1, <1>5, <2>1, <2>2
  <2> QED BY <1>3, <1>10, <2>3 DEF Accepted
<1>11. ASSUME NEW c \in Conns, Connect(c) PROVE LinksType'
  BY <1>11, EndsFacts DEF Connect, LinksType, Set
<1>12. ASSUME NEW c \in Conns, Establish(c) PROVE LinksType'
  <2>1. links + 1 \in 0..MaxConnects
    BY <1>12, EndsFacts DEF Establish, AcceptorType
  <2>2. link' = [link EXCEPT ![c] = links + 1] /\ UNCHANGED <<shut, local, tries>>
    BY <1>12 DEF Establish, Set
  <2> QED BY <2>1, <2>2 DEF LinksType
<1>13. ASSUME NEW c \in Conns, Refuse(c) \/ ConnectFailed(c) PROVE LinksType'
  BY <1>4, <1>13 DEF Refuse, ConnectFailed, sckVars
<1>14. ASSUME NEW c \in Conns, Connected(c) PROVE LinksType'
  <2>1. local' \in [Conns -> BOOLEAN] /\ UNCHANGED <<shut, link, tries>>
    BY <1>14 DEF Connected, Set, LinksType
  <2> QED BY <2>1 DEF LinksType
<1>15. ASSUME NEW x \in Ends, ReadDone(x) \/ ReadFails(x) PROVE LinksType'
  BY <1>4, <1>15 DEF ReadDone, ReadFails, sckVars
<1>16. ASSUME NEW x \in Ends, ReadedError(x) \/ Readed(x) \/ Close(x) PROVE LinksType'
  <2>1. UNCHANGED <<link, local, tries>>
    BY <1>16 DEF ReadedError, Readed, Close
  <2>2. shut' = shut \/ CloseOwn(x)
    BY <1>16 DEF ReadedError, Readed, Close, Drop, sckVars
  <2> QED BY <1>1, <1>3, <1>5, <2>1, <2>2
<1>17. ASSUME NEW k \in Links, Lose(k) PROVE LinksType'
  <2>1. shut' = [shut EXCEPT ![k] = shut[k] \cup {"lost"}]
    BY <1>17 DEF Lose, Set
  <2>2. shut' \in [Links -> SUBSET S]
    BY <1>1, <1>2, <2>1
  <2> QED BY <1>3, <1>17, <2>2 DEF Lose
<1>18. CASE UNCHANGED vars
  BY <1>4, <1>18 DEF vars, sckVars
<1> QED BY <1>7, <1>8, <1>9, <1>10, <1>11, <1>12, <1>13, <1>14, <1>15, <1>16, <1>17, <1>18
        DEF Next

LEMMA EndsStep ==
  ASSUME AcceptorType, AcceptChain, EndsInv, [Next]_vars
  PROVE  EndsInv'
<1>1. ASSUME UNCHANGED <<made, aop, sck, connecting, connected, refused, reading, readed,
                         failed, conns, declined, closes>>
      PROVE  EndsInv'
  BY <1>1 DEF EndsInv, EndsType, ReadsOpen, ChainsPaired, Attended, StartsFresh, Unstarted
<1>2. ASSUME NEW k \in Links, Lose(k) PROVE EndsInv'
  BY <1>1, <1>2 DEF Lose, actVars, dialVars, readVars, progVars
<1>3. CASE UNCHANGED vars
  BY <1>1, <1>3 DEF vars, actVars, sckVars, dialVars, readVars, progVars
<1> QED BY <1>2, <1>3, ConnectorStep, EndStep, AcceptorEnds DEF Next

\* The inductive invariant.
ServerInv == AcceptorType /\ AcceptChain /\ KeepsAccepting /\ EndsInv /\ LinksType

LEMMA ServerInvariant == Spec => []ServerInv
<1>1. Init => LinksType
  BY EndsFacts DEF Init, LinksType
<1>2. Init => ServerInv
  BY <1>1, AcceptorInit, EndsInit DEF ServerInv
<1>3. ServerInv /\ [Next]_vars => ServerInv'
  BY AcceptorStep, EndsStep, LinksStep DEF ServerInv
<1> QED BY <1>2, <1>3, PTL DEF Spec

-----------------------------------------------------------------------------
\* The state stays well formed; accept() never makes more TCP_ objects than one
\* for each connection and one to wait with.
THEOREM ServerTypeCorrect == Spec => []TypeOK
<1>1. ServerInv => TypeOK
  BY DEF ServerInv, AcceptorType, EndsInv, EndsType, LinksType, TypeOK
<1> QED BY <1>1, ServerInvariant, PTL

\* OnConn, refusals, OnClose and chains of reads balance, for any number of
\* connectors that connect, close and connect again.
THEOREM ChainsPairedAlways == Spec => []ChainsPaired
<1>1. ServerInv => ChainsPaired
  BY DEF ServerInv, EndsInv
<1> QED BY <1>1, ServerInvariant, PTL

\* No connected socket is ever left with nothing that watches it.
THEOREM AttendedAlways == Spec => []Attended
<1>1. ServerInv => Attended
  BY DEF ServerInv, EndsInv
<1> QED BY <1>1, ServerInvariant, PTL

\* A listening acceptor always has an accept under way or a handler to run.
THEOREM KeepsAcceptingAlways == Spec => []KeepsAccepting
<1>1. ServerInv => KeepsAccepting
  BY DEF ServerInv
<1> QED BY <1>1, ServerInvariant, PTL

-----------------------------------------------------------------------------
(* Why io_service::run() returns, but for the fairness: nothing but connect()   *)
(* gives a closed socket work, and each of its handlers leaves less.            *)

\* close() leaves no connect under way; a link that was taken is connected until
\* accepted() has run; a connector's OnConn refuses nothing.
Quiet ==
  /\ \A x \in Ends : sck[x] = "closed" => connecting[x] = 0
  /\ aop = "accepted" => sck[made] = "connected"
  /\ \A c \in Conns : declined[c] = 0

LEMMA QuietInit == Init => Quiet
BY EndsFacts DEF Init, Quiet

\* The TCP_ that waits for accepted() is none of a connector's, and has no handler.
LEMMA TakenFacts ==
  ASSUME ServerInv, aop = "accepted"
  PROVE  made \in Ends /\ made \notin Conns /\ readed[made] = 0 /\ failed[made] = 0
<1>1. made \in 1..(MaxConnects + 1)
  BY EndsFacts DEF ServerInv, AcceptorType, AcceptChain
<1>2. made \in Socks /\ made \in Ends /\ made \notin Conns
  BY <1>1, EndsFacts, ServerAssumption
<1> QED BY <1>2 DEF ServerInv, EndsInv, StartsFresh, Unstarted

LEMMA QuietConnector ==
  ASSUME ServerInv, Quiet, NEW c \in Conns,
         Connect(c) \/ Establish(c) \/ Refuse(c) \/ ConnectFailed(c) \/ Connected(c)
  PROVE  Quiet'
<1>1. c \in Ends /\ EndsType /\ (aop = "accepted" => made # c)
  BY EndsFacts, TakenFacts DEF ServerInv, EndsInv
<1> USE <1>1 DEF Quiet, EndsType, Set, Add, Take, actVars, sckVars, readVars, progVars
<1>2. CASE Connect(c)
  BY <1>2 DEF Connect
<1>3. CASE Establish(c)
  BY <1>3 DEF Establish
<1>4. CASE Refuse(c)
  BY <1>4 DEF Refuse
<1>5. CASE ConnectFailed(c)
  BY <1>5 DEF ConnectFailed
<1>6. CASE Connected(c)
  BY <1>6 DEF Connected
<1> QED BY <1>2, <1>3, <1>4, <1>5, <1>6

LEMMA QuietEnd ==
  ASSUME ServerInv, Quiet, NEW x \in Ends,
         ReadDone(x) \/ ReadFails(x) \/ ReadedError(x) \/ Readed(x) \/ Close(x)
  PROVE  Quiet'
<1>1. EndsType /\ (aop = "accepted" => readed[made] = 0 /\ failed[made] = 0)
  BY TakenFacts DEF ServerInv, EndsInv
<1> USE <1>1 DEF Quiet, EndsType, Set, Add, Take, actVars, sckVars, dialVars, progVars
<1>2. CASE ReadDone(x) \/ ReadFails(x)
  BY <1>2 DEF ReadDone, ReadFails
<1>3. CASE ReadedError(x)
  BY <1>3 DEF ReadedError, Drop, CloseOwn
<1>4. CASE Readed(x)
  <2>1. \/ sck' = [sck EXCEPT ![x] = "closed"] /\ connecting' = [connecting EXCEPT ![x] = 0]
        \/ UNCHANGED <<sck, connecting>>
    BY <1>4 DEF Readed, Drop, CloseOwn
  <2>2. UNCHANGED <<made, aop, declined>> /\ (aop = "accepted" => x # made)
    BY <1>4 DEF Readed
  <2>3. aop = "accepted" => made \in Ends
    BY TakenFacts
  <2> QED BY <2>1, <2>2, <2>3
<1>5. CASE Close(x)
  <2>1. /\ sck' = [sck EXCEPT ![x] = "closed"] /\ connecting' = [connecting EXCEPT ![x] = 0]
        /\ UNCHANGED <<made, aop, declined>> /\ (aop = "accepted" => x # made)
    BY <1>5 DEF Close, CloseOwn
  <2>2. aop = "accepted" => made \in Ends
    BY TakenFacts
  <2> QED BY <2>1, <2>2
<1> QED BY <1>2, <1>3, <1>4, <1>5

LEMMA QuietAcceptor ==
  ASSUME ServerInv, Quiet,
         StartAcceptor \/ TakeLink \/ AcceptError \/ AcceptFailed \/ Accepted \/ CloseAcceptor
  PROVE  Quiet'
<1>1. EndsType /\ AcceptorType /\ AcceptChain
  BY DEF ServerInv, EndsInv
<1> USE <1>1 DEF Quiet, EndsType, Set, Add, sckVars, dialVars, progVars
<1>2. CASE StartAcceptor
  BY <1>2 DEF StartAcceptor, Accept
<1>3. CASE TakeLink
  <2>1. made \in Ends
    BY <1>3, EndsFacts DEF TakeLink, AcceptorType, AcceptChain
  <2> QED BY <1>3, <2>1 DEF TakeLink
<1>4. CASE AcceptError
  BY <1>4 DEF AcceptError
<1>5. CASE AcceptFailed \/ CloseAcceptor
  BY <1>5 DEF AcceptFailed, CloseAcceptor
<1>6. CASE Accepted
  <2>1. made \in Ends /\ made \notin Conns
    BY <1>6, TakenFacts DEF Accepted
  <2>2. aop' # "accepted"
    BY <1>6 DEF Accepted, Accept
  <2>3. \/ UNCHANGED <<sck, connecting, declined>>
        \/ DeclineSock(made)
    BY <1>6 DEF Accepted
  <2>4. CASE DeclineSock(made)
    <3>1. /\ declined' = [declined EXCEPT ![made] = @ + 1]
          /\ connecting' = [connecting EXCEPT ![made] = 0]
          /\ sck' = [sck EXCEPT ![made] = "closed"]
      BY <2>4 DEF DeclineSock, CloseOwn
    <3> QED BY <2>1, <2>2, <3>1, EndsFacts
  <2> QED BY <2>2, <2>3, <2>4
<1> QED BY <1>2, <1>3, <1>4, <1>5, <1>6

LEMMA QuietInvariant == Spec => []Quiet
<1>1. ServerInv /\ Quiet /\ [Next]_vars => Quiet'
  <2> SUFFICES ASSUME ServerInv, Quiet, [Next]_vars PROVE Quiet'
    OBVIOUS
  <2>1. ASSUME NEW k \in Links, Lose(k) PROVE Quiet'
    BY <2>1 DEF Quiet, Lose, actVars, dialVars, progVars
  <2>2. CASE UNCHANGED vars
    BY <2>2 DEF Quiet, vars, actVars, sckVars, dialVars, progVars
  <2> QED BY <2>1, <2>2, QuietConnector, QuietEnd, QuietAcceptor DEF Next
<1> QED BY <1>1, QuietInit, ServerInvariant, PTL DEF Spec

\* What an end has under way or queued; readed() may leave a failed read behind.
Work(x) == connecting[x] + connected[x] + refused[x] + reading[x] + 2 * readed[x] + failed[x]
Handler(x) == ReadedError(x) \/ Readed(x) \/ (x \in Conns /\ (ConnectFailed(x) \/ Connected(x)))
WorkShrinks(x) ==
  sck[x] = "closed" /\ sck'[x] = "closed" =>
    Work(x)' \in Nat /\ Work(x)' <= Work(x) /\ (Handler(x) => Work(x)' < Work(x))

\* A step of an end x leaves the others' work alone.
LEMMA SameWork ==
  ASSUME EndsType, EndsType', NEW x \in Ends,
         /\ connecting'[x] = connecting[x] /\ connected'[x] = connected[x]
         /\ refused'[x] = refused[x] /\ reading'[x] = reading[x]
         /\ readed'[x] = readed[x] /\ failed'[x] = failed[x]
  PROVE  Work(x)' \in Nat /\ Work(x)' <= Work(x)
BY DEF Work, EndsType

\* The steps of end y, and what they do to the work of end x.
LEMMA ConnectorWork ==
  ASSUME ServerInv, EndsType', Quiet, NEW x \in Ends, NEW y \in Conns,
         Connect(y) \/ Establish(y) \/ Refuse(y) \/ ConnectFailed(y) \/ Connected(y),
         sck[x] = "closed", sck'[x] = "closed"
  PROVE  Work(x)' \in Nat /\ Work(x)' <= Work(x)
<1>1. y \in Ends /\ EndsType /\ connecting[x] = 0
  BY EndsFacts DEF ServerInv, EndsInv, Quiet
<1> USE <1>1 DEF EndsType, Set, Add, Take, actVars, sckVars, readVars, progVars
<1>2. CASE x # y
  <2>1. /\ connecting'[x] = connecting[x] /\ connected'[x] = connected[x]
        /\ refused'[x] = refused[x] /\ reading'[x] = reading[x]
        /\ readed'[x] = readed[x] /\ failed'[x] = failed[x]
    <3>1. CASE Connect(y) BY <1>2, <3>1 DEF Connect
    <3>2. CASE Establish(y) BY <1>2, <3>2 DEF Establish
    <3>3. CASE Refuse(y) BY <1>2, <3>3 DEF Refuse
    <3>4. CASE ConnectFailed(y) BY <1>2, <3>4 DEF ConnectFailed
    <3>5. CASE Connected(y) BY <1>2, <3>5 DEF Connected, Read, Readable
    <3> QED BY <3>1, <3>2, <3>3, <3>4, <3>5
  <2> QED BY <2>1, SameWork
<1>3. CASE x = y
  <2>1. ~Connect(y) /\ ~Establish(y) /\ ~Refuse(y) /\ ~Connected(y)
    BY <1>3 DEF Connect, Establish, Refuse, Connected
  <2>2. CASE ConnectFailed(y)
    BY <1>3, <2>2 DEF ConnectFailed, Work
  <2> QED BY <2>1, <2>2
<1> QED BY <1>2, <1>3

LEMMA EndWork ==
  ASSUME ServerInv, EndsType', Quiet, NEW x \in Ends, NEW y \in Ends,
         ReadDone(y) \/ ReadFails(y) \/ ReadedError(y) \/ Readed(y) \/ Close(y),
         sck[x] = "closed", sck'[x] = "closed"
  PROVE  Work(x)' \in Nat /\ Work(x)' <= Work(x)
<1>1. EndsType /\ connecting[x] = 0 /\ reading[x] = 0
  BY DEF ServerInv, EndsInv, ReadsOpen, Quiet
<1> USE <1>1 DEF EndsType, Set, Add, Take, actVars, sckVars, dialVars, progVars
<1>2. CASE x # y
  <2>1. /\ connecting'[x] = connecting[x] /\ connected'[x] = connected[x]
        /\ refused'[x] = refused[x] /\ reading'[x] = reading[x]
        /\ readed'[x] = readed[x] /\ failed'[x] = failed[x]
    <3>1. CASE ReadDone(y) BY <1>2, <3>1 DEF ReadDone
    <3>2. CASE ReadFails(y) BY <1>2, <3>2 DEF ReadFails
    <3>3. CASE ReadedError(y) BY <1>2, <3>3 DEF ReadedError, Drop, CloseOwn
    <3>4. CASE Readed(y) BY <1>2, <3>4 DEF Readed, Drop, CloseOwn, Read, Readable
    <3>5. CASE Close(y) BY <1>2, <3>5 DEF Close, CloseOwn
    <3> QED BY <3>1, <3>2, <3>3, <3>4, <3>5
  <2> QED BY <2>1, SameWork
<1>3. CASE x = y
  <2>1. ~ReadDone(y) /\ ~ReadFails(y) /\ ~Close(y)
    BY <1>3 DEF ReadDone, ReadFails, Close
  <2>2. CASE ReadedError(y)
    BY <1>3, <2>2 DEF ReadedError, Drop, CloseOwn, Work
  <2>3. CASE Readed(y)
    BY <1>3, <2>3 DEF Readed, Drop, CloseOwn, Read, Readable, Work
  <2> QED BY <2>1, <2>2, <2>3
<1> QED BY <1>2, <1>3

LEMMA AcceptorWork ==
  ASSUME ServerInv, EndsType', Quiet, NEW x \in Ends,
         StartAcceptor \/ TakeLink \/ AcceptError \/ AcceptFailed \/ Accepted \/ CloseAcceptor,
         sck[x] = "closed"
  PROVE  Work(x)' \in Nat /\ Work(x)' <= Work(x)
<1>1. EndsType /\ (aop = "accepted" => made # x)
  BY DEF ServerInv, EndsInv, Quiet
<1>2. /\ connecting'[x] = connecting[x] /\ connected'[x] = connected[x]
      /\ refused'[x] = refused[x] /\ reading'[x] = reading[x]
      /\ readed'[x] = readed[x] /\ failed'[x] = failed[x]
  <2> USE <1>1 DEF EndsType, Set, Add, dialVars, readVars, sckVars
  <2>1. CASE ~Accepted
    BY <2>1 DEF StartAcceptor, TakeLink, AcceptError, AcceptFailed, CloseAcceptor
  <2>2. CASE Accepted
    BY <2>2 DEF Accepted, DeclineSock, CloseOwn, Read, Readable
  <2> QED BY <2>1, <2>2
<1> QED BY <1>1, <1>2, SameWork

\* A handler of a closed end begins nothing that does not end sooner.
LEMMA HandlerWork ==
  ASSUME ServerInv, EndsType', Quiet, NEW x \in Ends, Handler(x), sck[x] = "closed"
  PROVE  Work(x)' < Work(x)
<1>1. EndsType /\ connecting[x] = 0 /\ reading[x] = 0
  BY DEF ServerInv, EndsInv, ReadsOpen, Quiet
<1> USE <1>1 DEF EndsType, Set, Add, Take, actVars, sckVars, dialVars, readVars, progVars, Work
<1>2. CASE ReadedError(x)
  BY <1>2 DEF ReadedError, Drop, CloseOwn
<1>3. CASE Readed(x)
  BY <1>3 DEF Readed, Drop, CloseOwn, Read, Readable
<1>4. CASE x \in Conns /\ ConnectFailed(x)
  BY <1>4 DEF ConnectFailed
<1>5. ~Connected(x)
  BY DEF Connected
<1> QED BY <1>2, <1>3, <1>4, <1>5 DEF Handler

\* A closed socket winds down: until the program connects it again nothing, neither
\* another end nor the acceptor, gives it anything to do, and each of its own handlers
\* leaves less, so that run() is done with it after a number of handlers known at the
\* close.
THEOREM ClosedWindsDown == Spec => [][\A x \in Ends : WorkShrinks(x)]_vars
<1>1. ASSUME ServerInv, ServerInv', Quiet, [Next]_vars, NEW x \in Ends PROVE WorkShrinks(x)
  <2> SUFFICES ASSUME sck[x] = "closed", sck'[x] = "closed"
               PROVE  Work(x)' \in Nat /\ Work(x)' <= Work(x) /\ (Handler(x) => Work(x)' < Work(x))
    BY DEF WorkShrinks
  <2>1. EndsType /\ EndsType'
    BY <1>1 DEF ServerInv, EndsInv
  <2>2. ASSUME UNCHANGED <<dialVars, readVars>>
        PROVE  Work(x)' \in Nat /\ Work(x)' <= Work(x)
    BY <2>1, <2>2, SameWork DEF dialVars, readVars
  <2>3. Work(x)' \in Nat /\ Work(x)' <= Work(x)
    <3>1. CASE UNCHANGED vars
      BY <2>2, <3>1 DEF vars
    <3>2. ASSUME NEW k \in Links, Lose(k) PROVE Work(x)' \in Nat /\ Work(x)' <= Work(x)
      BY <2>2, <3>2 DEF Lose
    <3> QED BY <1>1, <2>1, <3>1, <3>2, ConnectorWork, EndWork, AcceptorWork DEF Next
  <2> QED BY <1>1, <2>1, <2>3, HandlerWork
<1>2. ServerInv /\ ServerInv' /\ Quiet /\ [Next]_vars => [\A x \in Ends : WorkShrinks(x)]_vars
  BY <1>1
<1> QED BY <1>2, ServerInvariant, QuietInvariant, PTL DEF Spec

\* A connector with nothing under way or queued has had an OnClose for each OnConn:
\* what ConnectorToldOfClose leaves to fairness is that its handlers run.
THEOREM ToldWhenDone == Spec => [](\A c \in Conns : Work(c) = 0 => conns[c] = closes[c])
<1>1. ASSUME ServerInv, Quiet, NEW c \in Conns, Work(c) = 0 PROVE conns[c] = closes[c]
  <2>1. c \in Ends /\ EndsInv /\ declined[c] = 0
    BY <1>1, EndsFacts DEF ServerInv, Quiet
  <2>2. EndType(c) /\ EndInv(c)
    BY <2>1, AtEnd
  <2>3. reading[c] = 0 /\ readed[c] = 0 /\ failed[c] = 0
    <3>1. /\ connecting[c] \in Nat /\ connected[c] \in Nat /\ refused[c] \in Nat
          /\ reading[c] \in Nat /\ readed[c] \in Nat /\ failed[c] \in Nat
      BY <2>2 DEF EndType
    <3>2. connecting[c] + connected[c] + refused[c] + reading[c] + 2 * readed[c] + failed[c] = 0
      BY <1>1 DEF Work
    <3>3. PICK a \in Nat, b \in Nat, d \in Nat, r \in Nat, q \in Nat, f \in Nat :
            /\ a = connecting[c] /\ b = connected[c] /\ d = refused[c]
            /\ r = reading[c] /\ q = readed[c] /\ f = failed[c]
      BY <3>1
    <3>4. a + b + d + r + 2 * q + f = 0
      BY <3>2, <3>3
    <3>5. r = 0 /\ q = 0 /\ f = 0
      BY <3>4
    <3> QED BY <3>3, <3>5
  <2> QED BY <2>1, <2>2, <2>3 DEF EndInv, EndType
<1>2. ServerInv /\ Quiet => \A c \in Conns : Work(c) = 0 => conns[c] = closes[c]
  BY <1>1
<1> QED BY <1>2, ServerInvariant, QuietInvariant, PTL
=============================================================================
