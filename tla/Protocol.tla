------------------------------ MODULE Protocol ------------------------------
(***************************************************************************)
(* Requests on the wire: the packed structs a client writes (Protocol.h)   *)
(* and what the server unpacks from their bytes (protocol.py).             *)
(*                                                                         *)
(* A struct is the set of its fields, each with the offset that            *)
(* #pragma pack(1) gives it, its size and its value.  The server knows     *)
(* offsets only: a slice of the bytes has a value if it is a field.        *)
(***************************************************************************)
EXTENDS Integers

ClientIdSize  == 16
NameSize      == 255
PublicKeySize == 160
MessageIdSize == 4
PacketSize    == 1024

Field(at, size, value) == [at |-> at, size |-> size, value |-> value]

-----------------------------------------------------------------------------
(* Mutations of the operators below; nothing but the mutant runs uses them. *)

MutBytesToRead(contentSize, payloadSize) ==
    LET room == PacketSize - payloadSize - (ClientIdSize + 1 + 4) - 23 IN
    IF contentSize <= room THEN contentSize ELSE room

-----------------------------------------------------------------------------
(* What the client writes.  The version, always 1, is left out.             *)

RequestHeader(id, code, payloadSize) ==
    {Field(0, ClientIdSize, id),
     Field(ClientIdSize + 1, 2, code),
     Field(ClientIdSize + 3, 4, payloadSize)}

HeaderSize == ClientIdSize + 1 + 2 + 4

\* Whoever registers has no id: the 16 bytes are zero.
RegistrationRequest(name, key) ==
    RequestHeader("zeros", "REGISTER_CLIENT", NameSize + PublicKeySize)
      \cup {Field(HeaderSize, NameSize, name),
            Field(HeaderSize + NameSize, PublicKeySize, key)}

PublicKeyRequest(id, name) ==
    RequestHeader(id, "GET_PUBLIC_KEY", NameSize)
      \cup {Field(HeaderSize, NameSize, name)}

\* clientId, msgType and contentSize: payloadSizeWithoutMsg().
MessageHeaderSize == ClientIdSize + 1 + 4

\* The last field is msgContent itself, a pointer, and not what it points to.
\* It has 4 bytes: std::min over a size_t and a uint32_t (Client.cpp:389)
\* compiles only where the two are one type.
SendMessageRequest(id, to, type, contentSize, payloadSize) ==
    RequestHeader(id, "SEND_MESSAGE", payloadSize)
      \cup {Field(HeaderSize, ClientIdSize, to),
            Field(HeaderSize + ClientIdSize, 1, type),
            Field(HeaderSize + ClientIdSize + 1, 4, contentSize),
            Field(HeaderSize + MessageHeaderSize, 4, "pointer")}

\* AES in CBC mode pads to whole blocks of 16 bytes, by one byte at least.
CipherSize(length) == 16 * ((length \div 16) + 1)

-----------------------------------------------------------------------------
(* What the server reads.                                                   *)

Unpack(s, at, size) ==
    IF \E f \in s : f.at = at /\ f.size = size
    THEN (CHOOSE f \in s : f.at = at /\ f.size = size).value
    ELSE "garbage"

ClientIdOf(s)    == Unpack(s, 0, 16)
CodeOf(s)        == Unpack(s, 17, 2)
PayloadSizeOf(s) == Unpack(s, 19, 4)
NameOf(s)        == Unpack(s, 23, 255)
KeyOf(s)         == Unpack(s, 278, 160)
ToOf(s)          == Unpack(s, 23, 16)
TypeOf(s)        == Unpack(s, 39, 1)
ContentSizeOf(s) == Unpack(s, 40, 4)

\* bytes_to_read: what of the content is taken from the first packet.  The
\* payload size, from which the room is computed, includes the content.
BytesToRead(contentSize, payloadSize) ==
    LET room == PacketSize - payloadSize - MessageHeaderSize IN
    IF contentSize <= room THEN contentSize ELSE room

\* A content that is not in the first packet altogether is refused: the loop
\* for the rest takes the len() of an int, and a negative number of bytes to
\* unpack raises as well.
Unpacks(s) ==
    BytesToRead(ContentSizeOf(s), PayloadSizeOf(s)) = ContentSizeOf(s)

\* What the content consists of: the fields from offset 44 on, and the zeros
\* that fill the packet.
ContentOf(s) ==
    LET end == HeaderSize + MessageHeaderSize + ContentSizeOf(s)
        cut == {f \in s : f.at >= 44 /\ f.at < end} IN
    {f.value : f \in cut}
      \cup (IF \E f \in s : f.at + f.size >= end THEN {} ELSE {"zeros"})

=============================================================================
