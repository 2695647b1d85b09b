------------------------------ MODULE Payload ------------------------------
(***************************************************************************)
(* The payload of a frame: the Data_ of tools/data.cpp in the Cmd_ that     *)
(* readed() of netw/socket.cpp makes of as many bytes as the header says,   *)
(* and which the program may deflate and inflate from any offset.           *)
(*                                                                         *)
(* A char is the position at which it came, or Zipped in what deflate()     *)
(* wrote, or Junk: memory nobody wrote yet.  Bytes that nobody deflated are *)
(* no zlib stream, nor is a part of one, and memory is never short.         *)
(***************************************************************************)
EXTENDS FrameHeader, ByteTools

CONSTANTS
  Chars,    \* values of a char, for the comparison of Data_
  MaxPacks, \* bound: deflate() calls on top of each other
  MaxGrows  \* bound: times inflate() grows its buffer over bytes that are no stream

ASSUME PayloadAssumption ==
  Chars \subseteq Int /\ MaxPacks \in Nat /\ MaxGrows \in Nat

VARIABLES
  data,   \* Data_::data and len, empty before the first frame
  packs,  \* the deflates in force, last first: their offset, and the data before,
          \* whose rest is what the zlib stream there holds
  job,    \* where inflate() is: "none", "inflate" or "grow"
  off,    \* its offset
  ndata,  \* its ndata, of nlen chars
  out,    \* strm.total_out
  ret     \* what inflate or deflate returned

dataVars == <<data, packs>>
zVars == <<job, off, ndata, out, ret>>

Zipped == 0
Junk == -1

PayloadInit ==
  /\ Init
  /\ data = <<>> /\ packs = <<>>
  /\ job = "none" /\ off = 0 /\ ndata = <<>> /\ out = 0 /\ ret = 0

\* The payload of the frame whose header is in buf: Cmd_::Cmd_.  Bound: one frame;
\* what is not needed for it any more is forgotten.
Deliver ==
  /\ data = <<>> /\ Parse(parse, buf) \in Nat \ {0}
  /\ data' = [i \in 1..Parse(parse, buf) |-> i]
  /\ full' = M1LX(0, FALSE) /\ parse' = full' /\ len' = 0 /\ idx' = 0 /\ buf' = Full(full', 0, 0)
  /\ UNCHANGED <<packs, zVars>>

\* Data_::deflate: the stream must fit where the bytes were.
Deflate ==
  /\ data # <<>> /\ job = "none" /\ Len(packs) < MaxPacks
  /\ \E o \in 0..Len(data) :
       \/ /\ \E n \in 1..(Len(data) - o) :
               data' = [i \in 1..(o + n) |-> IF i <= o THEN data[i] ELSE Zipped]
          /\ packs' = <<[offset |-> o, was |-> data]>> \o packs
          /\ ret' = 0
       \/ ret' = -1 /\ UNCHANGED <<data, packs>>
  /\ UNCHANGED <<vars, job, off, ndata, out>>

\* Data_::inflate up to its loop; the memcpy is of the bytes before the offset.
Inflate ==
  /\ data # <<>> /\ job = "none"
  /\ \E o \in 0..Len(data) :
       /\ off' = o
       /\ ndata' = [i \in 1..(2 * Len(data)) |-> IF i <= o THEN data[i] ELSE Junk]
  /\ job' = "inflate" /\ out' = 0
  /\ UNCHANGED <<vars, dataVars, ret>>

Streams == packs # <<>> /\ Head(packs).offset = off

\* Mutant: avail_out does not count the bytes before the offset.
AvailOutWhole == Len(ndata) - out

\* The room ::inflate is given, and what is left of the stream for it.
AvailOut == Len(ndata) - off - out
Rest == Len(Head(packs).was) - off - out

\* ndata once ::inflate wrote n more chars at next_out.
Written(n) ==
  [i \in 1..Len(ndata) |->
     IF off + out < i /\ i <= off + out + n
     THEN IF Streams THEN Head(packs).was[i] ELSE Junk
     ELSE ndata[i]]

\* Z_OK.  In a stream ::inflate uses up its room, also when that was just enough:
\* the trailer may be unread.  Other bytes may give it anything before they end.
InflateSome ==
  /\ job = "inflate"
  /\ \E n \in 0..AvailOut :
       /\ IF Streams THEN n = AvailOut /\ n <= Rest ELSE Len(ndata) < 2 * Len(data) * MaxGrows
       /\ ndata' = Written(n) /\ out' = out + n
  /\ job' = "grow"
  /\ UNCHANGED <<vars, dataVars, off, ret>>

\* Mutant: the larger ndata is forgotten.
GrowNothing ==
  /\ job = "grow"
  /\ job' = "inflate"
  /\ UNCHANGED <<vars, dataVars, off, ndata, out, ret>>

\* Mutant: only the bytes before the offset are copied to it.
GrowUncopied ==
  /\ job = "grow"
  /\ job' = "inflate"
  /\ ndata' = [i \in 1..(Len(ndata) + 2 * Len(data)) |-> IF i <= off THEN ndata[i] ELSE Junk]
  /\ UNCHANGED <<vars, dataVars, off, out, ret>>

\* A larger ndata, with what the smaller one held, and the loop goes on.
Grow ==
  /\ job = "grow"
  /\ job' = "inflate"
  /\ ndata' = [i \in 1..(Len(ndata) + 2 * Len(data)) |-> IF i <= Len(ndata) THEN ndata[i] ELSE Junk]
  /\ UNCHANGED <<vars, dataVars, off, out, ret>>

\* Z_STREAM_END: ndata, up to total_out, is the data.
InflateEnd ==
  /\ job = "inflate" /\ Streams /\ Rest <= AvailOut
  /\ job' = "none" /\ ret' = 0
  /\ data' = [i \in 1..(off + out + Rest) |-> Written(Rest)[i]]
  /\ packs' = Tail(packs)
  /\ off' = 0 /\ ndata' = <<>> /\ out' = 0
  /\ UNCHANGED vars

\* Z_DATA_ERROR, or Z_BUF_ERROR when the input ends: nothing has changed.
InflateFails ==
  /\ job = "inflate" /\ ~Streams
  /\ job' = "none" /\ ret' = -1
  /\ off' = 0 /\ ndata' = <<>> /\ out' = 0
  /\ UNCHANGED <<vars, dataVars>>

PayloadNext ==
  \/ Next /\ data = <<>> /\ UNCHANGED <<dataVars, zVars>>
  \/ Deliver \/ Deflate \/ Inflate \/ InflateSome \/ Grow \/ InflateEnd \/ InflateFails

allVars == <<vars, dataVars, zVars>>
PayloadSpec == PayloadInit /\ [][PayloadNext]_allVars

\* A call of inflate() runs to its end.
FairPayloadSpec == PayloadSpec /\ WF_allVars(InflateSome \/ Grow \/ InflateEnd \/ InflateFails)

-----------------------------------------------------------------------------
(* Properties *)

\* ::inflate never writes beyond ndata, whose room, an unsigned difference, is
\* never negative.
DataTypeOK ==
  /\ data \in Seq(Int)
  /\ packs \in Seq([offset : Nat, was : Seq(Int)])
  /\ job \in {"none", "inflate", "grow"}
  /\ off \in Nat /\ ndata \in Seq(Int) /\ out \in Nat /\ ret \in {0, -1}
  /\ job # "none" => off + out <= Len(ndata)

PayloadTypeOK == TypeOK /\ DataTypeOK

\* inflate() at the offset of the last deflate() gives back, char for char, the data
\* there was before, however often it had to move what it had to a larger buffer;
\* any other inflate() says it failed, and the data is as it was.
InflateRestores ==
  [][job # "none" /\ job' = "none" =>
       IF Streams THEN ret' = 0 /\ data' = Head(packs).was
                  ELSE ret' = -1 /\ UNCHANGED dataVars]_allVars

\* inflate()'s loop ends, whether there is a stream at its offset or not: each turn
\* makes the room that the next one needs.
InflateEnds == job = "inflate" ~> job = "none"

OrdersStrictly(S) ==
  \A a, b \in S :
    /\ Less(a, b) => ~Less(b, a) /\ a # b
    /\ Less(a, b) \/ Less(b, a) \/ a = b
    /\ \A c \in S : Less(a, b) /\ Less(b, c) => Less(a, c)
    /\ Len(b) > 0 => \A beyond \in S : Cmp(a, b, beyond) <=> a = b

ShortDataOrdered == [n \in 0..3 |-> OrdersStrictly(UNION {[1..k -> Chars] : k \in 0..n})]

\* DataComparer orders the Data_ of the size that came (bound: 3 chars of it) and
\* all that are shorter strictly and totally, as the keys of std::map and std::set
\* need it, and cmp() with a Data_ that has chars agrees with it, whatever memory
\* follows them.
StrictOrder == ShortDataOrdered[Min({Len(data), 3})]
=============================================================================
