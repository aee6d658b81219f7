------------------------------ MODULE Framing ------------------------------
(***************************************************************************)
(* One reply on its way: the server's write cuts it into packets that a    *)
(* non-blocking socket may take in part, and the client's reads put it     *)
(* together again and take the messages in it apart.                       *)
(*                                                                         *)
(* A byte of the reply is its position in it, from 1; padding is 0.  The   *)
(* first Header bytes are the response header, the rest is the payload: a  *)
(* sequence of blocks, a message with its own header each, given by the    *)
(* payload offsets at which they end.                                      *)
(***************************************************************************)
EXTENDS Integers, Sequences

CONSTANTS
    Packet,       \* PACKET_SIZE, 1024 in both programs
    Header,       \* size of ResponseHeader, 7
    BlockHeader,  \* size of UnpackMessage, 25
    Capacity,     \* bytes the connection holds that were sent and not read
    Replies       \* the payloads the server may have to send

ASSUME SizesAssumption ==
    /\ Packet \in Nat /\ Header \in Nat /\ BlockHeader \in Nat
    /\ 0 < Header /\ Header < Packet /\ 0 < BlockHeader

\* A fresh connection takes a packet: send buffers are larger than that.
ASSUME CapacityAssumption == Capacity \in Nat /\ Packet <= Capacity

\* Every block has its header at least.
ASSUME RepliesAssumption ==
    \A r \in Replies :
        /\ r \in Seq(Nat)
        /\ \A j \in 1..Len(r) :
             /\ r[j] >= BlockHeader
             /\ \A i \in 1..(j - 1) : r[j] >= r[i] + BlockHeader

VARIABLES
    ends,     \* the reply: where its blocks end
    server,   \* "write" until the callback ends: "closed", or "raised"
    written,  \* bytes_sent: how far the server believes it is
    stream,   \* history: the bytes that the connection took, in order
    temp,     \* bytes of stream in the tempBuffer of SocketHandler::read
    taken,    \* bytes of stream that were read from the connection
    left,     \* bytesLeft of the read in progress
    buffer,   \* what the client has put together
    client,   \* "read", "parse", "done" or "refused"
    parsed,   \* bytesRead of handleGetUnreadMessages
    seen      \* history: the messages printed

vars == <<ends, server, written, stream, temp, taken, left, buffer, client,
          parsed, seen>>

Smaller(m, n) == IF m < n THEN m ELSE n
Larger(m, n)  == IF m < n THEN n ELSE m

Payload == IF ends = << >> THEN 0 ELSE ends[Len(ends)]
Total   == Header + Payload

\* A reply of less than a packet is padded to one.
Padded == Larger(Total, Packet)

At(i) == IF i <= Total THEN i ELSE 0

Init ==
    /\ ends \in Replies
    /\ server = "write"
    /\ written = 0
    /\ stream = << >>
    /\ temp = 0
    /\ taken = 0
    /\ left = Packet
    /\ buffer = << >>
    /\ client = "read"
    /\ parsed = 0
    /\ seen = {}

serverVars == <<server, written, stream>>
readVars   == <<temp, taken, left, buffer>>
parseVars  == <<parsed, seen>>

-----------------------------------------------------------------------------
(* Mutations of the operators below; nothing but the mutant runs uses them. *)

MutChunk  == Packet
MutWanted(n) == Total - n
MutTooLong(size) == parsed + BlockHeader + size >= Payload
MutAdvanceBreak(size) ==
    IF size = 0 THEN Payload - parsed ELSE BlockHeader + size
MutAdvanceStuck(size) == IF size = 0 THEN 0 ELSE BlockHeader + size

-----------------------------------------------------------------------------
(* The server: write. *)

Free == Capacity - (Len(stream) - taken)

\* What the next send is given: a packet, or what is left.
Chunk == Smaller(Packet, Padded - written)

\* send takes what fits, which nobody looks at; bytes_sent goes on by the
\* whole packet.
Send ==
    /\ server = "write"
    /\ written < Padded
    /\ Free > 0
    /\ stream' = stream \o [i \in 1..Smaller(Chunk, Free) |-> At(written + i)]
    /\ written' = written + Chunk
    /\ UNCHANGED <<ends, server, readVars, client, parseVars>>

\* With no room at all it raises.  The first send cannot; a later one is
\* outside the try, and the connection stays open.
SendRaises ==
    /\ server = "write"
    /\ written < Padded
    /\ Free = 0
    /\ server' = "raised"
    /\ UNCHANGED <<ends, written, stream, readVars, client, parseVars>>

Close ==
    /\ server = "write"
    /\ written >= Padded
    /\ server' = "closed"
    /\ UNCHANGED <<ends, written, stream, readVars, client, parseVars>>

-----------------------------------------------------------------------------
(* The client: SocketHandler::read. *)

\* The asio::read of one packet goes on until it has one or the server closes.
\* It takes what has arrived, some of what was sent.
Gather ==
    /\ client = "read"
    /\ \E n \in 1..Smaller(Len(stream) - taken, Packet - temp) :
         /\ temp' = temp + n
         /\ taken' = taken + n
    /\ UNCHANGED <<ends, serverVars, left, buffer, client, parseVars>>

Gathered ==
    /\ client = "read"
    /\ temp = Packet \/ (server = "closed" /\ taken = Len(stream))

\* Nothing more comes: read fails, and the handler with it.
Cut ==
    /\ Gathered
    /\ temp = 0
    /\ client' = "refused"
    /\ UNCHANGED <<ends, serverVars, readVars, parseVars>>

\* How much of the reply the next read of handelUnkownPayloadRequest is for,
\* when n bytes of it are there.
Wanted(n) == Smaller(Packet, Total - n)

MutCopy ==
    /\ Gathered
    /\ temp > 0
    /\ buffer' = buffer \o SubSeq(stream, taken - temp + 1, taken)
    /\ temp' = 0
    /\ left' = left - temp
    /\ client' = IF left' = 0 /\ Len(buffer') >= Total THEN "parse" ELSE "read"
    /\ UNCHANGED <<ends, serverVars, taken, parseVars>>

\* The bytes are copied, the surplus is dropped.  When the read has all it is
\* for, the next one begins, until the payload is whole.  The size of the
\* payload comes from the header, which is in the first packet.
Copy ==
    LET n == Smaller(temp, left)
        got == Len(buffer) + n IN
    /\ Gathered
    /\ temp > 0
    /\ buffer' = buffer \o SubSeq(stream, taken - temp + 1, taken - temp + n)
    /\ temp' = 0
    /\ \/ left > n /\ left' = left - n /\ UNCHANGED client
       \/ left = n /\ got < Total /\ left' = Wanted(got) /\ UNCHANGED client
       \/ left = n /\ got >= Total /\ left' = 0 /\ client' = "parse"
    /\ UNCHANGED <<ends, serverVars, taken, parseVars>>

-----------------------------------------------------------------------------
(* The client: handleGetUnreadMessages, on the payload put together. *)

\* Where the block i starts.
StartOf(i) == IF i = 1 THEN 0 ELSE ends[i - 1]
Starts     == {StartOf(i) : i \in 1..Len(ends)}

\* The msgSize in the header of the block at the offset n.
BlockSize(n) ==
    LET i == CHOOSE j \in 1..Len(ends) : n = StartOf(j) IN
    ends[i] - n - BlockHeader

\* The bound leaves the block's header out of the sum.
TooLong(size) == parsed + size > Payload

\* How far a block moves the pointer and the count.
Advance(size) == BlockHeader + size

\* A message without content is passed over.
Show ==
    LET size == BlockSize(parsed) IN
    /\ client = "parse"
    /\ parsed < Payload
    /\ \/ /\ size = 0
          /\ UNCHANGED <<seen, client>>
          /\ parsed' = parsed + Advance(size)
       \/ /\ size > 0 /\ ~TooLong(size)
          /\ seen' = seen \cup {parsed}
          /\ parsed' = parsed + Advance(size)
          /\ UNCHANGED client
       \/ /\ size > 0 /\ TooLong(size)
          /\ client' = "refused"
          /\ UNCHANGED <<parsed, seen>>
    /\ UNCHANGED <<ends, serverVars, readVars>>

Done ==
    /\ client = "parse"
    /\ parsed >= Payload
    /\ client' = "done"
    /\ UNCHANGED <<ends, serverVars, readVars, parseVars>>

-----------------------------------------------------------------------------

ServerStep == Send \/ SendRaises \/ Close
ClientStep == Gather \/ Cut \/ Copy \/ Show \/ Done
Next == ServerStep \/ ClientStep

Spec == Init /\ [][Next]_vars

\* The callback runs to its end, and so does the handler of the client.
FairSpec == Spec /\ WF_vars(ServerStep) /\ WF_vars(ClientStep)

-----------------------------------------------------------------------------
(* Properties. *)

\* The variables have their types.
TypeOK ==
    /\ ends \in Replies
    /\ server \in {"write", "closed", "raised"}
    /\ written \in Nat
    /\ stream \in Seq(0..Total)
    /\ temp \in 0..Packet
    /\ taken \in 0..Len(stream)
    /\ left \in Nat
    /\ buffer \in Seq(0..Total)
    /\ client \in {"read", "parse", "done", "refused"}
    /\ parsed \in Nat
    /\ seen \subseteq Nat

\* A read is never for nothing, which read refuses, nor for more than the
\* client's buffer of one packet, nor for more than the allocated payload has
\* room for (Client.cpp:384-403), however the packets arrive.
ReadFits ==
    client = "read" => left \in 1..Packet /\ Len(buffer) + left <= Padded

\* Although write ignores what send returns and goes on after a short send,
\* so that bytes are missing in the middle of the stream, and although read
\* drops what is left of a packet: a reply that the client takes for complete
\* is the server's, byte for byte.
AcceptedWhole ==
    client \in {"parse", "done"} =>
        /\ Len(buffer) >= Total
        /\ \A i \in 1..Total : buffer[i] = i

\* The client refuses no reply of which nothing was lost: none of less than,
\* exactly or a little more than a packet, and not for its last message.
RefusedOnlyCut == client = "refused" => Len(stream) < written

\* A payload that was parsed to its end had every message with a content
\* printed, the ones after an empty message too.
EveryBlockShown ==
    client = "done" =>
        seen = {n \in Starts : BlockSize(n) > 0}

\* Unless a send raised, which leaves the connection open, the client comes to
\* an end with every reply.
ReplyConcluded == <>(client \in {"done", "refused"} \/ server = "raised")

=============================================================================
