--------------------------- MODULE FramingProofs ---------------------------
(***************************************************************************)
(* What a client takes for a complete reply is complete, for every reply,  *)
(* every size of packet, headers and connection.                           *)
(*                                                                         *)
(* Why it holds although write may leave out bytes: a reply that is not    *)
(* padded has no byte to spare, so that whoever put it together had as     *)
(* many bytes as the server meant to send, and then none is missing.       *)
(***************************************************************************)
EXTENDS Framing, SequenceTheorems, TLAPS

USE SizesAssumption, CapacityAssumption

\* The server's half: it sends Padded bytes at most, and they are in their
\* places as long as none was left out.
WriteInv ==
    /\ written <= Padded
    /\ Len(stream) <= written
    /\ Len(stream) = written =>
         \A i \in 1..Len(stream) : stream[i] = At(i)

\* A read ends because it has all that is left of the reply, or a packet;
\* otherwise the server has closed and nothing more comes.
LastRead ==
    \/ left = Packet
    \/ Len(buffer) + left >= Total
    \/ server = "closed" /\ taken = Len(stream) /\ temp = 0

\* The client's half: what it has is what came first.
ReadInv ==
    /\ Len(buffer) <= Len(stream)
    /\ \A i \in 1..Len(buffer) : buffer[i] = stream[i]
    /\ client = "read" =>
         /\ taken = Len(buffer) + temp
         /\ Len(buffer) + left >= Packet
         /\ LastRead
    /\ client \in {"parse", "done"} => Len(buffer) >= Padded

\* The types that the argument needs.
Shape ==
    /\ ends \in Replies
    /\ server \in {"write", "closed", "raised"}
    /\ written \in Nat
    /\ stream \in Seq(0..Total)
    /\ temp \in 0..Packet
    /\ taken \in 0..Len(stream)
    /\ left \in 0..Packet
    /\ buffer \in Seq(0..Total)
    /\ client \in {"read", "parse", "done", "refused"}

IndInv == Shape /\ WriteInv /\ ReadInv

\* What \o makes of two sequences.
LEMMA Appended ==
    ASSUME NEW S, NEW s \in Seq(S), NEW t \in Seq(S)
    PROVE  /\ s \o t \in Seq(S)
           /\ Len(s \o t) = Len(s) + Len(t)
           /\ \A i \in 1..Len(s) : (s \o t)[i] = s[i]
           /\ \A i \in 1..Len(t) : (s \o t)[Len(s) + i] = t[i]
<1>1. Len(s) \in Nat /\ Len(t) \in Nat
  OBVIOUS
<1>2. \A i \in 1..Len(s) : (s \o t)[i] = s[i]
  BY <1>1, ConcatProperties
<1>3. ASSUME NEW i \in 1..Len(t)
      PROVE  (s \o t)[Len(s) + i] = t[i]
  <2>1. /\ Len(s) + i \in 1..Len(s) + Len(t)
        /\ ~(Len(s) + i <= Len(s)) /\ Len(s) + i - Len(s) = i
    BY <1>1
  <2> QED BY <2>1, ConcatProperties
<1> QED BY <1>2, <1>3, ConcatProperties

\* A stretch of a sequence.
LEMMA Taken ==
    ASSUME NEW S, NEW s \in Seq(S), NEW m \in Nat, NEW n \in Nat,
           m + n <= Len(s)
    PROVE  /\ SubSeq(s, m + 1, m + n) \in Seq(S)
           /\ Len(SubSeq(s, m + 1, m + n)) = n
           /\ \A i \in 1..n : SubSeq(s, m + 1, m + n)[i] = s[m + i]
<1>1. \A i \in (m + 1)..(m + n) : s[i] \in S
  OBVIOUS
<1>2. m + 1 \in Int /\ m + n \in Int /\ (m + n) - (m + 1) + 1 = n
  OBVIOUS
<1>3. \A i \in 1..n : (m + 1) + i - 1 = m + i
  OBVIOUS
<1> QED BY <1>1, <1>2, <1>3, SubSeqProperties

\* The payload ends where its last block does.
LEMMA TotalType ==
    ASSUME ends \in Replies
    PROVE  /\ Payload \in Nat /\ Total \in Nat /\ Padded \in Nat
           /\ Total <= Padded /\ Packet <= Padded /\ Header <= Total
<1>1. Payload \in Nat
  <2>1. ends \in Seq(Nat)
    BY RepliesAssumption
  <2>2. CASE ends = << >>
    BY <2>2 DEF Payload
  <2>3. CASE ends # << >>
    <3>1. Len(ends) \in 1..Len(ends)
      BY <2>1, <2>3
    <3> QED BY <2>1, <2>3, <3>1 DEF Payload
  <2> QED BY <2>2, <2>3
<1> QED BY <1>1 DEF Total, Padded, Larger

LEMMA InitInv == Init => IndInv
<1> SUFFICES ASSUME Init PROVE IndInv
  OBVIOUS
<1>1. /\ Payload \in Nat /\ Total \in Nat /\ Padded \in Nat
      /\ Total <= Padded /\ Packet <= Padded
  BY TotalType DEF Init
<1> QED BY <1>1 DEF Init, IndInv, Shape, WriteInv, ReadInv, LastRead

\* A send adds to the stream what the connection has room for.
LEMMA SendInv ==
    ASSUME IndInv, Send
    PROVE  IndInv'
<1> DEFINE n == Smaller(Chunk, Free)
           piece == [i \in 1..n |-> At(written + i)]
<1>1. /\ Payload \in Nat /\ Total \in Nat /\ Padded \in Nat
      /\ Total <= Padded /\ Packet <= Padded
  BY TotalType DEF IndInv, Shape
<1>2. Total' = Total /\ Padded' = Padded /\ \A i : At(i)' = At(i)
  BY DEF Send, Total, Padded, Payload, At, Larger
<1>3. n \in Nat /\ n <= Chunk /\ Chunk <= Padded - written /\ Chunk \in Nat
  BY <1>1 DEF IndInv, Shape, Send, Free, Chunk, Smaller
<1>4. piece \in Seq(0..Total) /\ Len(piece) = n
  <2>1. \A i \in 1..n : At(written + i) \in 0..Total
    BY <1>1, <1>3 DEF At, IndInv, Shape
  <2>2. n \in Nat
    BY <1>3
  <2> HIDE DEF n
  <2> QED BY <2>1, <2>2
<1>5. stream' = stream \o piece
  BY DEF Send
<1> HIDE DEF piece
<1>6. /\ stream' \in Seq(0..Total)
      /\ Len(stream') = Len(stream) + n
      /\ \A i \in 1..Len(stream) : stream'[i] = stream[i]
      /\ \A i \in 1..n : stream'[Len(stream) + i] = piece[i]
  <2> DEFINE S == 0..Total
  <2>1. stream \in Seq(S) /\ piece \in Seq(S) /\ Len(piece) = n
    BY <1>4 DEF IndInv, Shape
  <2> HIDE DEF S, n
  <2>2. /\ stream \o piece \in Seq(S)
        /\ Len(stream \o piece) = Len(stream) + Len(piece)
        /\ \A i \in 1..Len(stream) : (stream \o piece)[i] = stream[i]
        /\ \A i \in 1..Len(piece) :
             (stream \o piece)[Len(stream) + i] = piece[i]
    <3>1. stream \o piece \in Seq(S) /\ Len(stream \o piece) = Len(stream) + Len(piece)
      BY <2>1
    <3>2. \A i \in 1..Len(stream) : (stream \o piece)[i] = stream[i]
      BY <2>1, Appended
    <3>3. \A i \in 1..Len(piece) : (stream \o piece)[Len(stream) + i] = piece[i]
      BY <2>1, Appended
    <3> QED BY <3>1, <3>2, <3>3
  <2> QED BY <1>5, <2>1, <2>2, ZenonT(30) DEF S
<1>7. written' = written + Chunk /\ written \in Nat
  BY DEF Send, IndInv, Shape
<1>8. WriteInv'
  <2>1. ASSUME Len(stream') = written', NEW i \in 1..Len(stream')
        PROVE  stream'[i] = At(i)
    <3>1. Len(stream) = written /\ n = Chunk
      BY <1>3, <1>6, <1>7, <2>1 DEF IndInv, WriteInv, Shape
    <3>2. CASE i \in 1..Len(stream)
      BY <1>6, <3>1, <3>2 DEF IndInv, WriteInv
    <3>3. CASE i \notin 1..Len(stream)
      <4>1. i - Len(stream) \in 1..n /\ Len(stream) + (i - Len(stream)) = i
        BY <1>3, <1>6, <2>1, <3>3 DEF IndInv, Shape
      <4>2. piece[i - Len(stream)] = At(written + (i - Len(stream)))
        BY <4>1 DEF piece
      <4> QED BY <1>6, <3>1, <4>1, <4>2
    <3> QED BY <3>2, <3>3
  <2>2. written' <= Padded /\ Len(stream') <= written'
    BY <1>1, <1>3, <1>6, <1>7 DEF IndInv, WriteInv, Shape
  <2> QED BY <1>2, <2>1, <2>2 DEF WriteInv
<1>9. ReadInv'
  <2>1. Len(buffer) \in Nat /\ Len(stream) \in Nat
    BY DEF IndInv, Shape
  <2>2. UNCHANGED <<buffer, client, taken, temp, left>> /\ server = "write"
    BY DEF Send, readVars
  <2> QED
    BY <1>2, <1>3, <1>6, <2>1, <2>2 DEF IndInv, ReadInv, LastRead
<1>10. Shape'
  BY <1>2, <1>3, <1>6, <1>7 DEF IndInv, Shape, Send, readVars
<1> QED BY <1>8, <1>9, <1>10 DEF IndInv

\* The copy of a read appends to the buffer the bytes that follow in the
\* stream, all of those it read unless it is the last.
LEMMA CopyInv ==
    ASSUME IndInv, Copy
    PROVE  IndInv'
<1> DEFINE n == Smaller(temp, left)
           piece == SubSeq(stream, taken - temp + 1, taken - temp + n)
<1>1. /\ Payload \in Nat /\ Total \in Nat /\ Padded \in Nat
      /\ Total <= Padded /\ Packet <= Padded /\ Padded = Larger(Total, Packet)
  BY TotalType DEF IndInv, Shape, Padded
<1>2. Total' = Total /\ Padded' = Padded /\ \A i : At(i)' = At(i)
  BY DEF Copy, Total, Padded, Payload, At, Larger
<1>3. /\ client = "read" /\ temp > 0 /\ taken = Len(buffer) + temp
      /\ Len(buffer) + left >= Packet /\ LastRead
      /\ n \in Nat /\ n <= temp /\ n <= left /\ (n = temp \/ n = left)
      /\ Len(buffer) \in Nat /\ Len(stream) \in Nat
      /\ Len(buffer) + temp <= Len(stream)
      /\ temp \in Nat /\ left \in Nat /\ temp <= Packet /\ left <= Packet
  BY DEF IndInv, Shape, ReadInv, Copy, Gathered, Smaller
<1>4. /\ piece \in Seq(0..Total) /\ Len(piece) = n
      /\ \A i \in 1..n : piece[i] = stream[Len(buffer) + i]
  <2>1. stream \in Seq(0..Total) /\ Len(buffer) + n <= Len(stream)
    BY <1>3 DEF IndInv, Shape
  <2>2. /\ taken - temp + 1 = Len(buffer) + 1
        /\ taken - temp + n = Len(buffer) + n
    BY <1>3
  <2> DEFINE S == 0..Total
             m == Len(buffer)
  <2>3. stream \in Seq(S) /\ m \in Nat /\ n \in Nat /\ m + n <= Len(stream)
    BY <1>3, <2>1
  <2> HIDE DEF n, m, S
  <2>4. /\ SubSeq(stream, m + 1, m + n) \in Seq(S)
        /\ Len(SubSeq(stream, m + 1, m + n)) = n
        /\ \A i \in 1..n : SubSeq(stream, m + 1, m + n)[i] = stream[m + i]
    BY <2>3, Taken, ZenonT(30)
  <2> QED BY <2>2, <2>4, ZenonT(30) DEF S, m
<1>5. buffer' = buffer \o piece
  BY DEF Copy
<1> HIDE DEF piece
<1>6. /\ buffer' \in Seq(0..Total)
      /\ Len(buffer') = Len(buffer) + n
      /\ \A i \in 1..Len(buffer) : buffer'[i] = buffer[i]
      /\ \A i \in 1..n : buffer'[Len(buffer) + i] = stream[Len(buffer) + i]
  <2> DEFINE S == 0..Total
  <2>1. buffer \in Seq(S) /\ piece \in Seq(S) /\ Len(piece) = n
    BY <1>4 DEF IndInv, Shape
  <2> HIDE DEF S, n
  <2>2. /\ buffer \o piece \in Seq(S)
        /\ Len(buffer \o piece) = Len(buffer) + Len(piece)
        /\ \A i \in 1..Len(buffer) : (buffer \o piece)[i] = buffer[i]
        /\ \A i \in 1..Len(piece) :
             (buffer \o piece)[Len(buffer) + i] = piece[i]
    <3>1. buffer \o piece \in Seq(S) /\ Len(buffer \o piece) = Len(buffer) + Len(piece)
      BY <2>1
    <3>2. \A i \in 1..Len(buffer) : (buffer \o piece)[i] = buffer[i]
      BY <2>1, Appended
    <3>3. \A i \in 1..Len(piece) : (buffer \o piece)[Len(buffer) + i] = piece[i]
      BY <2>1, Appended
    <3> QED BY <3>1, <3>2, <3>3
  <2> QED BY <1>4, <1>5, <2>1, <2>2, ZenonT(30) DEF S
<1>7. UNCHANGED <<ends, server, written, stream, taken>> /\ temp' = 0
  BY DEF Copy, serverVars
<1>8. \A i \in 1..Len(buffer') : buffer'[i] = stream'[i]
  <2> SUFFICES ASSUME NEW i \in 1..Len(buffer')
               PROVE  buffer'[i] = stream[i]
    BY <1>7
  <2>1. CASE i \in 1..Len(buffer)
    BY <1>6, <2>1 DEF IndInv, ReadInv
  <2>2. CASE i \notin 1..Len(buffer)
    <3>1. i - Len(buffer) \in 1..n /\ Len(buffer) + (i - Len(buffer)) = i
      BY <1>3, <1>6, <2>2
    <3> QED BY <1>6, <3>1
  <2> QED BY <2>1, <2>2
<1>9. Len(buffer') <= Len(stream')
  BY <1>3, <1>6, <1>7
<1>10. CASE left > n /\ left' = left - n /\ UNCHANGED client
  <2>1. n = temp
    BY <1>3, <1>10
  <2>2. LastRead'
    <3>1. CASE left = Packet \/ temp = Packet
      <4>1. temp < Packet
        BY <1>3, <1>10, <2>1
      <4>2. server = "closed" /\ taken = Len(stream)
        BY <4>1 DEF Copy, Gathered
      <4> QED BY <1>7, <4>2 DEF LastRead
    <3>2. CASE Len(buffer) + left >= Total
      BY <1>2, <1>3, <1>6, <1>10, <3>2 DEF LastRead
    <3> QED BY <1>3, <3>1, <3>2 DEF LastRead
  <2>3. Shape'
    BY <1>2, <1>3, <1>6, <1>7, <1>10 DEF IndInv, Shape
  <2>4. ReadInv'
    BY <1>2, <1>3, <1>6, <1>7, <1>8, <1>9, <1>10, <2>1, <2>2 DEF ReadInv
  <2> QED BY <1>2, <1>7, <2>3, <2>4 DEF IndInv, WriteInv
<1>11. CASE /\ left = n
            /\ Len(buffer) + n < Total
            /\ left' = Wanted(Len(buffer) + n)
            /\ UNCHANGED client
  <2>1. /\ left' \in 0..Packet /\ left' > 0
        /\ (left' = Packet \/ left' = Total - (Len(buffer) + n))
    <3> HIDE DEF n
    <3> QED BY <1>1, <1>3, <1>11 DEF Wanted, Smaller
  <2>2. left = Packet
    BY <1>1, <1>3, <1>11 DEF LastRead
  <2>3. temp = n
    BY <1>3, <1>11, <2>2
  <2>4. Shape'
    BY <1>2, <1>3, <1>6, <1>7, <1>11, <2>1 DEF IndInv, Shape
  <2>5. ReadInv'
    <3> HIDE DEF n
    <3>1. client' = "read" /\ taken' = Len(buffer') + temp'
      BY <1>3, <1>6, <1>7, <1>11, <2>3
    <3>2. LastRead' /\ Len(buffer') + left' >= Packet
      BY <1>1, <1>2, <1>3, <1>6, <1>11, <2>1, <2>2, <2>3 DEF LastRead
    <3> QED BY <1>8, <1>9, <3>1, <3>2 DEF ReadInv
  <2> QED BY <1>2, <1>7, <2>4, <2>5 DEF IndInv, WriteInv
<1>12. CASE /\ left = n
            /\ Len(buffer) + n >= Total
            /\ left' = 0
            /\ client' = "parse"
  <2>1. Len(buffer') >= Padded'
    BY <1>1, <1>2, <1>3, <1>6, <1>12 DEF Larger
  <2>2. Shape'
    BY <1>2, <1>3, <1>6, <1>7, <1>12 DEF IndInv, Shape
  <2>3. ReadInv'
    BY <1>8, <1>9, <1>12, <2>1 DEF ReadInv
  <2> QED BY <1>2, <1>7, <2>2, <2>3 DEF IndInv, WriteInv
<1> QED BY <1>10, <1>11, <1>12 DEF Copy

\* Every other step changes one end of the exchange only.
LEMMA OtherInv ==
    ASSUME IndInv,
           SendRaises \/ Close \/ Gather \/ Cut \/ Show \/ Done \/ UNCHANGED vars
    PROVE  IndInv'
<1>1. /\ Payload \in Nat /\ Total \in Nat /\ Padded \in Nat
  BY TotalType DEF IndInv, Shape
<1>2. UNCHANGED ends
  BY DEF SendRaises, Close, Gather, Cut, Show, Done, vars
<1>3. Total' = Total /\ Padded' = Padded /\ \A i : At(i)' = At(i)
  BY <1>2 DEF Total, Padded, Payload, At, Larger
<1>4. Len(stream) \in Nat /\ Len(buffer) \in Nat
  BY DEF IndInv, Shape
<1>5. CASE SendRaises \/ Close
  <2>1. UNCHANGED <<stream, written, temp, taken, left, buffer, client>>
    BY <1>5 DEF SendRaises, Close, readVars
  <2>2. server' \in {"closed", "raised"} /\ server = "write"
    BY <1>5 DEF SendRaises, Close
  <2> QED
    BY <1>2, <1>3, <2>1, <2>2 DEF IndInv, Shape, WriteInv, ReadInv, LastRead
<1>6. CASE Gather
  <2>1. PICK n \in 1..Smaller(Len(stream) - taken, Packet - temp) :
          temp' = temp + n /\ taken' = taken + n
    BY <1>6 DEF Gather
  <2>2. UNCHANGED <<server, stream, written, left, buffer, client>>
    BY <1>6 DEF Gather, serverVars
  <2>3. n \in Nat /\ n <= Len(stream) - taken /\ n <= Packet - temp /\ n > 0
    BY <2>1 DEF Smaller, IndInv, Shape
  <2>4. client = "read"
    BY <1>6 DEF Gather
  <2>5. Shape'
    BY <1>2, <1>3, <1>4, <2>1, <2>2, <2>3 DEF IndInv, Shape
  <2>6. ReadInv'
    BY <1>3, <1>4, <2>1, <2>2, <2>3, <2>4
       DEF IndInv, Shape, ReadInv, LastRead
  <2> QED BY <1>3, <2>2, <2>5, <2>6 DEF IndInv, WriteInv
<1>7. CASE Cut
  <2>1. UNCHANGED <<server, stream, written, temp, taken, left, buffer>>
    BY <1>7 DEF Cut, serverVars, readVars
  <2>2. client' = "refused"
    BY <1>7 DEF Cut
  <2> QED BY <1>2, <1>3, <2>1, <2>2 DEF IndInv, Shape, WriteInv, ReadInv
<1>8. CASE Show \/ Done
  <2>1. UNCHANGED <<server, stream, written, temp, taken, left, buffer>>
    BY <1>8 DEF Show, Done, serverVars, readVars
  <2>2. client = "parse" /\ client' \in {"parse", "done", "refused"}
    BY <1>8 DEF Show, Done
  <2> QED BY <1>2, <1>3, <2>1, <2>2 DEF IndInv, Shape, WriteInv, ReadInv
<1>9. CASE UNCHANGED vars
  BY <1>3, <1>9 DEF vars, IndInv, Shape, WriteInv, ReadInv, LastRead
<1> QED BY <1>5, <1>6, <1>7, <1>8, <1>9

LEMMA StepInv == IndInv /\ [Next]_vars => IndInv'
<1> SUFFICES ASSUME IndInv, [Next]_vars PROVE IndInv'
  OBVIOUS
<1> QED
  BY SendInv, CopyInv, OtherInv DEF Next, ServerStep, ClientStep

\* Where the two halves meet: the buffer has as many bytes as were meant to be
\* sent, so that none is missing.
LEMMA WholeOnceTaken == IndInv => AcceptedWhole
<1> SUFFICES ASSUME IndInv, client \in {"parse", "done"}
             PROVE  /\ Len(buffer) >= Total
                    /\ \A i \in 1..Total : buffer[i] = i
  BY DEF AcceptedWhole
<1>1. /\ Total \in Nat /\ Padded \in Nat /\ Total <= Padded
      /\ Len(buffer) \in Nat /\ Len(stream) \in Nat /\ written \in Nat
  BY TotalType DEF IndInv, Shape
<1>2. Len(buffer) >= Padded /\ Len(stream) = written
  BY <1>1 DEF IndInv, ReadInv, WriteInv
<1>3. ASSUME NEW i \in 1..Total
      PROVE  buffer[i] = i
  <2>1. i \in 1..Len(buffer) /\ i \in 1..Len(stream)
    BY <1>1, <1>2, <1>3 DEF IndInv, ReadInv
  <2>2. buffer[i] = stream[i]
    BY <2>1 DEF IndInv, ReadInv
  <2>3. stream[i] = At(i)
    BY <1>2, <2>1 DEF IndInv, WriteInv
  <2> QED BY <1>1, <1>3, <2>2, <2>3 DEF At
<1> QED BY <1>1, <1>2, <1>3

\* A reply that the client takes for complete is the server's, byte for byte,
\* whatever part of a packet a send took.
THEOREM RepliesWhole == Spec => []AcceptedWhole
<1> QED BY InitInv, StepInv, WholeOnceTaken, PTL DEF Spec

-----------------------------------------------------------------------------
(* What is refused, and what is shown. *)

\* A read is always for something, and never for more than is sent.
WantedInv ==
    /\ server = "closed" => written = Padded
    /\ client = "read" => left > 0 /\ Len(buffer) + left <= Padded

\* The parse is at a block or at the end, and has shown what is behind it.
ParseInv ==
    /\ parsed \in Starts \cup {Payload}
    /\ seen = {n \in Starts : n < parsed /\ BlockSize(n) > 0}

Refusal == client = "refused" => server = "closed" /\ Len(stream) < written

FullInv == IndInv /\ WantedInv /\ ParseInv /\ Refusal
           /\ (client = "done" => parsed >= Payload)

\* The blocks follow each other, and each ends where the next one starts or
\* the payload ends.
LEMMA Blocks ==
    ASSUME ends \in Replies, NEW i \in 1..Len(ends)
    PROVE  /\ Payload \in Nat /\ StartOf(i) \in Nat /\ ends[i] \in Nat
           /\ StartOf(i) + BlockHeader <= ends[i] /\ ends[i] <= Payload
           /\ BlockSize(StartOf(i)) = ends[i] - StartOf(i) - BlockHeader
           /\ ends[i] \in Starts \cup {Payload}
           /\ \A j \in 1..Len(ends) :
                /\ j < i => StartOf(j) < StartOf(i)
                /\ j > i => ends[i] <= StartOf(j)
<1>1. /\ ends \in Seq(Nat) /\ Len(ends) \in Nat /\ i \in Nat /\ i >= 1
      /\ i <= Len(ends) /\ ends # << >>
  BY RepliesAssumption
<1>2. \A j \in 1..Len(ends) :
        /\ ends[j] \in Nat /\ ends[j] >= BlockHeader
        /\ \A k \in 1..Len(ends) : k < j => ends[j] >= ends[k] + BlockHeader
  BY <1>1, RepliesAssumption
<1>3. \A j \in 1..Len(ends) :
        /\ StartOf(j) \in Nat /\ StartOf(j) + BlockHeader <= ends[j]
        /\ \A k \in 1..Len(ends) : k < j => ends[k] <= StartOf(j)
  <2> SUFFICES ASSUME NEW j \in 1..Len(ends)
               PROVE  /\ StartOf(j) \in Nat
                      /\ StartOf(j) + BlockHeader <= ends[j]
                      /\ \A k \in 1..Len(ends) : k < j => ends[k] <= StartOf(j)
    OBVIOUS
  <2>1. CASE j = 1
    BY <1>1, <1>2, <2>1 DEF StartOf
  <2>2. CASE j # 1
    <3>1. j - 1 \in 1..Len(ends) /\ j - 1 < j
      BY <1>1, <2>2
    <3>2. StartOf(j) = ends[j - 1]
      BY <2>2 DEF StartOf
    <3>3. ASSUME NEW k \in 1..Len(ends), k < j
          PROVE  ends[k] <= ends[j - 1]
      <4>1. k = j - 1 \/ k < j - 1
        BY <1>1, <3>3
      <4>2. CASE k < j - 1
        <5>1. ends[j - 1] >= ends[k] + BlockHeader
          BY <1>2, <3>1, <4>2
        <5> QED BY <1>2, <3>1, <5>1
      <4>3. CASE k = j - 1
        BY <1>2, <3>1, <4>3
      <4> QED BY <4>1, <4>2, <4>3
    <3> QED BY <1>1, <1>2, <3>1, <3>2, <3>3
  <2> QED BY <2>1, <2>2
<1>4. \A j, k \in 1..Len(ends) : j < k => StartOf(j) < StartOf(k)
  <2> SUFFICES ASSUME NEW j \in 1..Len(ends), NEW k \in 1..Len(ends), j < k
               PROVE  StartOf(j) < StartOf(k)
    OBVIOUS
  <2>1. /\ StartOf(j) \in Nat /\ StartOf(k) \in Nat /\ ends[j] \in Nat
        /\ StartOf(j) + BlockHeader <= ends[j] /\ ends[j] <= StartOf(k)
    BY <1>2, <1>3
  <2> QED BY <2>1
<1>5. Payload = ends[Len(ends)] /\ Len(ends) \in 1..Len(ends)
  BY <1>1 DEF Payload
<1>6. ends[i] <= Payload
  BY <1>1, <1>2, <1>5
<1>7. BlockSize(StartOf(i)) = ends[i] - StartOf(i) - BlockHeader
  <2> DEFINE b == CHOOSE j \in 1..Len(ends) : StartOf(i) = StartOf(j)
  <2>1. b \in 1..Len(ends) /\ StartOf(i) = StartOf(b)
    OBVIOUS
  <2>2. b = i
    <3> HIDE DEF b
    <3>1. ~(b < i) /\ ~(i < b)
      BY <1>3, <1>4, <2>1
    <3> QED BY <1>1, <2>1, <3>1
  <2> QED BY <2>2 DEF BlockSize
<1>8. ends[i] \in Starts \cup {Payload}
  <2>1. CASE i = Len(ends)
    BY <1>5, <2>1
  <2>2. CASE i # Len(ends)
    <3>1. i + 1 \in 1..Len(ends) /\ i + 1 # 1 /\ i + 1 - 1 = i
      BY <1>1, <2>2
    <3>2. StartOf(i + 1) = ends[i]
      BY <3>1 DEF StartOf
    <3> QED BY <3>1, <3>2 DEF Starts
  <2> QED BY <2>1, <2>2
<1> QED BY <1>1, <1>2, <1>3, <1>4, <1>5, <1>6, <1>7, <1>8

LEMMA FullInit == Init => FullInv
<1> SUFFICES ASSUME Init PROVE FullInv
  OBVIOUS
<1>1. /\ Payload \in Nat /\ Total \in Nat /\ Padded \in Nat
      /\ Packet <= Padded
  BY TotalType DEF Init
<1>2. WantedInv /\ Refusal /\ (client = "done" => parsed >= Payload)
  BY <1>1 DEF Init, WantedInv, Refusal
<1>3. parsed \in Starts \cup {Payload}
  <2>1. CASE ends = << >>
    BY <2>1 DEF Init, Payload
  <2>2. CASE ends # << >>
    <3>1. ends \in Seq(Nat)
      BY RepliesAssumption DEF Init
    <3>2. 1 \in 1..Len(ends)
      BY <2>2, <3>1
    <3> QED BY <3>2 DEF Init, Starts, StartOf
  <2> QED BY <2>1, <2>2
<1>4. \A n \in Starts : ~(n < parsed)
  BY Blocks DEF Init, Starts
<1> QED BY <1>2, <1>3, <1>4, InitInv DEF FullInv, ParseInv, Init

\* A message is shown or passed over, and the next one is where it ends.
LEMMA ShowFull ==
    ASSUME FullInv, Show
    PROVE  ParseInv' /\ client' # "refused"
<1>1. PICK i \in 1..Len(ends) : parsed = StartOf(i)
  <2>1. Payload \in Nat
    BY TotalType DEF FullInv, IndInv, Shape
  <2>2. parsed \in Starts
    BY <2>1 DEF FullInv, ParseInv, Show
  <2> QED BY <2>2 DEF Starts
<1> DEFINE size == BlockSize(parsed)
<1>2. ends \in Replies
  BY DEF FullInv, IndInv, Shape
<1>3. /\ Payload \in Nat /\ parsed \in Nat /\ ends[i] \in Nat
      /\ size = ends[i] - parsed - BlockHeader /\ size \in Nat
      /\ ends[i] <= Payload /\ parsed < ends[i]
      /\ ends[i] \in Starts \cup {Payload}
  BY <1>1, <1>2, Blocks
<1>4. ~TooLong(size) /\ parsed + Advance(size) = ends[i]
  <2> HIDE DEF size
  <2> QED BY <1>3 DEF TooLong, Advance
<1>5. /\ parsed' = ends[i] /\ client' = client /\ ends' = ends
      /\ seen' = seen \cup {n \in {parsed} : size > 0}
  <2>1. size = 0 \/ size > 0
    BY <1>3
  <2> QED BY <1>4, <2>1 DEF Show
<1>6. /\ Starts' = Starts /\ Payload' = Payload
      /\ \A n : BlockSize(n)' = BlockSize(n)
  BY <1>5 DEF Starts, StartOf, Payload, BlockSize
<1>7. \A n \in Starts : n < ends[i] <=> n < parsed \/ n = parsed
  <2> SUFFICES ASSUME NEW j \in 1..Len(ends)
               PROVE  StartOf(j) < ends[i]
                        <=> (StartOf(j) < parsed \/ StartOf(j) = parsed)
    BY DEF Starts
  <2>1. j < i \/ j = i \/ j > i
    BY <1>2, RepliesAssumption
  <2>2. StartOf(j) \in Nat
    BY <1>2, Blocks
  <2>3. j < i => StartOf(j) < parsed
    BY <1>1, <1>2, Blocks
  <2>4. j > i => ends[i] <= StartOf(j)
    BY <1>2, Blocks
  <2> QED BY <1>1, <1>3, <2>1, <2>2, <2>3, <2>4
<1>8. parsed \in Starts
  BY <1>1 DEF Starts
<1>9. seen' = {n \in Starts : n < ends[i] /\ BlockSize(n) > 0}
  BY <1>5, <1>7, <1>8 DEF FullInv, ParseInv
<1>10. client' # "refused"
  BY <1>5 DEF Show
<1> QED BY <1>3, <1>5, <1>6, <1>9, <1>10 DEF ParseInv

LEMMA FullStep == FullInv /\ [Next]_vars => FullInv'
<1> SUFFICES ASSUME FullInv, [Next]_vars PROVE FullInv'
  OBVIOUS
<1>1. /\ Payload \in Nat /\ Total \in Nat /\ Padded \in Nat
      /\ Padded = Larger(Total, Packet)
      /\ Len(stream) \in Nat /\ Len(buffer) \in Nat
      /\ written \in Nat /\ left \in Nat /\ temp \in Nat /\ taken \in Nat
  BY TotalType DEF FullInv, IndInv, Shape, Padded
<1>2. UNCHANGED ends
  BY DEF Next, ServerStep, ClientStep, Send, SendRaises, Close, Gather, Cut,
         Copy, Show, Done, vars
<1>3. /\ Total' = Total /\ Padded' = Padded /\ Payload' = Payload
      /\ Starts' = Starts /\ \A n : BlockSize(n)' = BlockSize(n)
  BY <1>2 DEF Total, Padded, Payload, Larger, Starts, StartOf, BlockSize
<1>4. IndInv'
  BY StepInv DEF FullInv
<1>5. CASE Send \/ SendRaises \/ Close
  <2>1. UNCHANGED <<left, buffer, client, parsed, seen>>
    BY <1>5 DEF Send, SendRaises, Close, readVars, parseVars
  <2>2. server = "write" /\ (server' = "closed" => written' = Padded)
    BY <1>1, <1>5 DEF Send, SendRaises, Close, FullInv, IndInv, WriteInv
  <2> QED
    BY <1>3, <1>4, <2>1, <2>2 DEF FullInv, WantedInv, ParseInv, Refusal
<1>6. CASE Gather \/ Done \/ UNCHANGED vars
  <2>1. UNCHANGED <<server, written, stream, left, buffer, parsed, seen>>
    BY <1>6 DEF Gather, Done, serverVars, readVars, parseVars, vars
  <2>2. \/ client' = client
        \/ client' = "done" /\ parsed >= Payload
    BY <1>6 DEF Gather, Done, vars
  <2> QED
    BY <1>3, <1>4, <2>1, <2>2 DEF FullInv, WantedInv, ParseInv, Refusal
<1>7. CASE Cut
  <2>1. /\ UNCHANGED <<server, written, stream, left, buffer, parsed, seen>>
        /\ client' = "refused" /\ client = "read" /\ temp = 0
    BY <1>7 DEF Cut, Gathered, serverVars, readVars, parseVars
  <2>2. server = "closed" /\ taken = Len(stream)
    BY <1>7, <2>1 DEF Cut, Gathered
  <2>3. Len(stream) < Padded /\ written = Padded
    BY <1>1, <2>1, <2>2 DEF FullInv, IndInv, ReadInv, WantedInv
  <2> QED
    BY <1>3, <1>4, <2>1, <2>2, <2>3 DEF FullInv, WantedInv, ParseInv, Refusal
<1>8. CASE Copy
  <2>1. /\ UNCHANGED <<server, written, stream, parsed, seen>>
        /\ client = "read" /\ client' \in {"read", "parse"}
    BY <1>8 DEF Copy, Gathered, serverVars, parseVars
  <2>2. client' = "read" => left' > 0 /\ Len(buffer') + left' <= Padded
    <3> DEFINE n == Smaller(temp, left)
    <3>1. n \in Nat /\ n <= temp /\ n <= left
      BY <1>1 DEF Smaller
    <3>2. Len(buffer') = Len(buffer) + n
      <4>1. SubSeq(stream, taken - temp + 1, taken - temp + n) \in Seq(0..Total)
            /\ Len(SubSeq(stream, taken - temp + 1, taken - temp + n)) = n
        <5> DEFINE m == taken - temp
                   S == 0..Total
        <5>1. /\ m \in Nat /\ m + n <= Len(stream) /\ stream \in Seq(S)
          BY <1>1, <2>1, <3>1 DEF FullInv, IndInv, ReadInv, Shape
        <5> HIDE DEF n, m, S
        <5>2. /\ SubSeq(stream, m + 1, m + n) \in Seq(S)
              /\ Len(SubSeq(stream, m + 1, m + n)) = n
          BY <3>1, <5>1, Taken
        <5> QED BY <5>2 DEF S, m
      <4>2. buffer \in Seq(0..Total)
        BY DEF FullInv, IndInv, Shape
      <4> QED BY <1>8, <4>1, <4>2 DEF Copy
    <3>3. \/ left > n /\ left' = left - n
          \/ /\ left = n
             /\ Len(buffer) + n < Total
             /\ left' = Wanted(Len(buffer) + n)
          \/ client' = "parse"
      BY <1>8 DEF Copy
    <3>4. Len(buffer) + left <= Padded
      BY <2>1 DEF FullInv, WantedInv
    <3> HIDE DEF n
    <3> QED BY <1>1, <3>1, <3>2, <3>3, <3>4 DEF Wanted, Smaller, Larger
  <2> QED
    BY <1>3, <1>4, <2>1, <2>2 DEF FullInv, WantedInv, ParseInv, Refusal
<1>9. CASE Show
  <2>1. /\ UNCHANGED <<server, written, stream, left, buffer>>
        /\ client = "parse" /\ client' \in {"parse", "refused"}
    BY <1>9 DEF Show, serverVars, readVars
  <2> QED
    BY <1>3, <1>4, <1>9, <2>1, ShowFull DEF FullInv, WantedInv, Refusal
<1> QED BY <1>5, <1>6, <1>7, <1>8, <1>9 DEF Next, ServerStep, ClientStep

LEMMA FullInvariance == Spec => []FullInv
<1> QED BY FullInit, FullStep, PTL DEF Spec

\* The type invariant.
THEOREM TypeCorrect == Spec => []TypeOK
<1>1. FullInv => TypeOK
  <2> SUFFICES ASSUME FullInv PROVE TypeOK
    OBVIOUS
  <2>1. Payload \in Nat /\ \A n \in Starts : n \in Nat
    BY TotalType, Blocks DEF FullInv, IndInv, Shape, Starts
  <2> QED BY <2>1 DEF FullInv, ParseInv, IndInv, Shape, TypeOK
<1> QED BY <1>1, FullInvariance, PTL

\* No read overruns the client's buffer or the payload it puts together.
THEOREM ReadsFit == Spec => []ReadFits
<1>1. FullInv => ReadFits
  BY DEF FullInv, WantedInv, IndInv, Shape, ReadFits
<1> QED BY <1>1, FullInvariance, PTL

\* What the client refuses was not sent whole.
THEOREM RefusalsJustified == Spec => []RefusedOnlyCut
<1>1. FullInv => RefusedOnlyCut
  BY DEF FullInv, Refusal, RefusedOnlyCut
<1> QED BY <1>1, FullInvariance, PTL

\* A parse that comes to its end has shown every message with a content.
THEOREM BlocksShown == Spec => []EveryBlockShown
<1>1. FullInv => EveryBlockShown
  <2> SUFFICES ASSUME FullInv, client = "done"
               PROVE  seen = {n \in Starts : BlockSize(n) > 0}
    BY DEF EveryBlockShown
  <2>1. \A n \in Starts : n < parsed
    <3>1. Payload \in Nat /\ ends \in Replies
      BY TotalType DEF FullInv, IndInv, Shape
    <3>2. ASSUME NEW i \in 1..Len(ends)
          PROVE  StartOf(i) \in Nat /\ StartOf(i) < Payload
      <4>1. /\ StartOf(i) \in Nat /\ ends[i] \in Nat
            /\ StartOf(i) + BlockHeader <= ends[i] /\ ends[i] <= Payload
        BY <3>1, Blocks
      <4> QED BY <3>1, <4>1
    <3>3. \A n \in Starts : n \in Nat /\ n < Payload
      BY <3>2 DEF Starts
    <3>4. parsed = Payload
      BY <3>1, <3>3 DEF FullInv, ParseInv
    <3> QED BY <3>3, <3>4
  <2> QED BY <2>1 DEF FullInv, ParseInv
<1> QED BY <1>1, FullInvariance, PTL

=============================================================================
