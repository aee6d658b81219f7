--------------------------- MODULE SessionProofs ---------------------------
(***************************************************************************)
(* What holds between a handler, the request it has sent and the reply to  *)
(* it: only a long text is refused while nothing fails, an identity is the *)
(* one that was asked for, and mail is handed to whom it is for.           *)
(***************************************************************************)
EXTENDS ClientHandlerProofs

\* The requests that are sent at each point.
Belongs(code, point) ==
    /\ code = "REGISTER_CLIENT" <=> point = "register"
    /\ code = "GET_CLIENTS_LIST" <=> point \in {"list", "lookup"}
    /\ code = "GET_PUBLIC_KEY" <=> point \in {"menukey", "key"}
    /\ code = "GET_UNREAD_MESSAGE" <=> point = "fetch"
    /\ code = "SEND_MESSAGE" <=> point = "send"

\* A client that is registered has an id, and goes by its name.
Between(m) == {m.to, m.from} \subseteq {r.id : r \in clients}
MailInv    == /\ \A m \in messages : Between(m)
              /\ \A m, n \in messages : m.id = n.id => m = n
Passes(p)  == call[p].length >= 480 \/ Unpacks(req[p])

AskedInv(p) ==
    /\ Belongs(CodeOf(req[p]), pc[p])
    /\ me[p] # NoOne => Known(me[p])
    /\ pc[p] = "register" => me[p] = NoOne /\ NameOf(req[p]) = call[p].typed
    /\ pc[p] \in {"fetch", "send"} => ClientIdOf(req[p]) = me[p].id
    /\ pc[p] = "send" => Passes(p)

AnsweredInv(p) ==
    /\ pc[p] \notin Blocked => resp[p] = Nothing
    /\ resp[p].code = "REGISTER_SUCCESS" =>
         /\ pc[p] = "register"
         /\ Known([id |-> resp[p].id, name |-> call[p].typed])
    /\ resp[p].code = "GET_UNREAD_MESSAGES_SUCCESS" =>
         /\ pc[p] = "fetch"
         /\ \A m \in resp[p].rows : m.to = me[p].id /\ Between(m)
    /\ /\ p \in Process /\ faults = MaxFaults
       /\ pc[p] = "send" /\ resp[p] = Error
       => call[p].length >= 480

SessionInv == MailInv /\ \A p \in Peer : AskedInv(p) /\ AnsweredInv(p)

-----------------------------------------------------------------------------
(* Operators. *)

LEMMA NobodyHasNoId == NoOne \notin Identity
BY IdAssumption DEF NoOne, Identity

\* A text goes through if it has up to 479 characters, and not if it has more:
\* padded, it must fit twice with its two headers, because the room for it is
\* computed from a size that includes it already.
THEOREM TextPasses ==
    ASSUME NEW n \in Nat, NEW id, NEW to, NEW type
    PROVE  Unpacks(SendMessageRequest(id, to, type, CipherSize(n),
                                      MessageHeaderSize + CipherSize(n)))
             <=> n < 480
<1> DEFINE size == CipherSize(n)
           s == SendMessageRequest(id, to, type, size,
                                   MessageHeaderSize + size)
<1>1. size \in Nat /\ (size <= 491 <=> n < 480)
  <2>1. n \div 16 \in Nat /\ (n \div 16 < 30 <=> n < 480)
    OBVIOUS
  <2> QED BY <2>1 DEF CipherSize
<1> HIDE DEF size
<1>2. /\ ContentSizeOf(s) = size
      /\ PayloadSizeOf(s) = MessageHeaderSize + size
  BY SendRead
<1> HIDE DEF s
<1>3. Unpacks(s) <=> size <= 491
  BY <1>1, <1>2 DEF Unpacks, BytesToRead, PacketSize, MessageHeaderSize,
                    ClientIdSize
<1> QED BY <1>1, <1>3 DEF s, size

\* The messages about keys have none, or 25 bytes of content.
LEMMA KeyMessagePasses ==
    ASSUME NEW id, NEW to, NEW type, NEW m \in {0, 25}
    PROVE  Unpacks(SendMessageRequest(id, to, type, m, 0))
<1> DEFINE s == SendMessageRequest(id, to, type, m, 0)
<1>1. ContentSizeOf(s) = m /\ PayloadSizeOf(s) = 0
  BY SendRead
<1> HIDE DEF s
<1>2. Unpacks(s)
  BY <1>1 DEF Unpacks, BytesToRead, PacketSize, MessageHeaderSize,
              ClientIdSize
<1> QED BY <1>2 DEF s

-----------------------------------------------------------------------------
(* Steps of one process leave the others alone.                             *)

LEMMA OthersKept ==
    ASSUME SessionInv, NEW p \in Peer, clients \subseteq clients',
           faults' = faults \/ faults' # MaxFaults,
           \A q \in Peer \ {p} :
             /\ pc'[q] = pc[q] /\ me'[q] = me[q] /\ call'[q] = call[q]
             /\ req'[q] = req[q] /\ resp'[q] = resp[q],
           MailInv', AskedInv(p)', AnsweredInv(p)'
    PROVE  SessionInv'
<1> SUFFICES ASSUME NEW q \in Peer \ {p}
             PROVE  AskedInv(q)' /\ AnsweredInv(q)'
  BY DEF SessionInv
<1>1. AskedInv(q) /\ AnsweredInv(q)
  BY DEF SessionInv
<1>2. /\ \A e : Known(e) => Known(e)'
      /\ \A m : Between(m) => Between(m)'
  BY DEF Known, Between
<1>3. AskedInv(q)'
  BY <1>1, <1>2 DEF AskedInv, Passes
<1>4. AnsweredInv(q)'
  BY <1>1, <1>2 DEF AnsweredInv
<1> QED BY <1>3, <1>4

\* A handler that goes on waits for a reply, or is left.
LEMMA PostedOn ==
    ASSUME IndInv, SessionInv, NEW p \in Peer, NEW point, NEW s,
           NEW locals, Post(p, point, s, locals), UNCHANGED <<tables, faults>>,
           \A q \in Peer \ {p} : me'[q] = me[q],
           (pc'[p] = point /\ req'[p] = s /\ call'[p] = locals)
             => AskedInv(p)'
    PROVE  SessionInv'
<1>1. /\ pc'[p] = point /\ req'[p] = s /\ resp'[p] = Nothing
      /\ call'[p] = locals
      /\ \A q \in Peer \ {p} :
           /\ pc'[q] = pc[q] /\ req'[q] = req[q]
           /\ resp'[q] = resp[q] /\ call'[q] = call[q]
  BY DEF Post, IndInv, Maps, IsMap
<1>2. AnsweredInv(p)'
  BY <1>1 DEF AnsweredInv, Nothing, Error
<1>3. MailInv'
  BY DEF SessionInv, MailInv, Between, tables
<1> QED BY <1>1, <1>2, <1>3, OthersKept DEF tables

LEMMA LeftOn ==
    ASSUME IndInv, SessionInv, NEW p \in Peer,
           NEW point \in {"off", "menu", "crashed"},
           Leave(p, point), UNCHANGED <<tables, faults>>,
           \A q \in Peer \ {p} : me'[q] = me[q],
           me'[p] # NoOne => Known(me'[p])
    PROVE  SessionInv'
<1>1. Post(p, point, {}, NoCall)
  BY DEF Leave
<1>2. Known(me'[p]) => Known(me[p])'
  BY DEF Known, tables
<1>3. (pc'[p] = point /\ req'[p] = {} /\ call'[p] = NoCall) => AskedInv(p)'
  BY <1>2, NoRequest DEF AskedInv, Belongs
<1> HIDE DEF Leave
<1> QED BY <1>1, <1>3, PostedOn

LEMMA AloneOn ==
    ASSUME IndInv, SessionInv, NEW p \in Peer,
           Start(p) \/ Stop(p) \/ MenuKeyGot(p) \/ Fetched(p) \/ Listed(p)
             \/ MessageSent(p) \/ Failed(p)
    PROVE  SessionInv'
<1>1. /\ \E point \in {"off", "menu", "crashed"} : Leave(p, point)
      /\ UNCHANGED <<tables, me, faults>>
  BY DEF Start, Stop, MenuKeyGot, Fetched, Listed, MessageSent, Failed, Exit,
         local
<1>2. me'[p] # NoOne => Known(me'[p])
  BY <1>1 DEF SessionInv, AskedInv
<1> QED BY <1>1, <1>2, LeftOn

\* An orphan that is done with is nobody.
LEMMA ForgetOn ==
    ASSUME IndInv, SessionInv, NEW o \in Orphan, Forget(o)
    PROVE  SessionInv'
<1>1. /\ o \in Peer /\ Leave(o, "off") /\ UNCHANGED <<tables, faults>>
      /\ me' = [me EXCEPT ![o] = NoOne]
  BY DEF Forget, Peer
<1>2. me'[o] = NoOne /\ \A q \in Peer \ {o} : me'[q] = me[q]
  BY <1>1 DEF IndInv, Maps, IsMap
<1> QED BY <1>1, <1>2, LeftOn

\* What a process leaves in the socket is what it asked, for who it was.
LEMMA EndedOn ==
    ASSUME IndInv, SessionInv, NEW p \in Process, NEW o \in Orphan,
           Abandon(p, o) \/ Reset(p, o)
    PROVE  SessionInv'
<1>1. p \in Peer /\ o \in Peer /\ p # o /\ o \notin Process
  BY OrphanAssumption DEF Peer
<1>2. UNCHANGED <<clients, messages, faults>>
  BY DEF Abandon, Reset, tables, local
<1>3. /\ MailInv'
      /\ \A e : Known(e)' <=> Known(e)
      /\ \A m : Between(m)' <=> Between(m)
  BY <1>2 DEF SessionInv, MailInv, Between, Known
<1>4. /\ AskedInv(p) /\ AskedInv(o) /\ AnsweredInv(o)
      /\ pc[o] = "off" /\ resp[o] = Nothing
  <2>1. AskedInv(p) /\ AskedInv(o) /\ AnsweredInv(o)
    BY <1>1 DEF SessionInv
  <2>2. pc[o] = "off"
    BY DEF Abandon, Reset
  <2> QED BY <2>1, <2>2 DEF AnsweredInv, Blocked
<1>5. /\ pc'[p] = "off" /\ me'[p] = me[p] /\ call'[p] = NoCall
      /\ req'[p] = {} /\ resp'[p] = Nothing /\ resp'[o] = Nothing
  BY <1>1, <1>4 DEF Abandon, Reset, local, IndInv, Maps, IsMap
<1>6. AskedInv(p)' /\ AnsweredInv(p)'
  BY <1>3, <1>4, <1>5, NoRequest
     DEF AskedInv, Belongs, AnsweredInv, Nothing, Error
<1>7. AnsweredInv(o)'
  BY <1>5 DEF AnsweredInv, Nothing, Error
<1>8. AskedInv(o)'
  <2>1. CASE Abandon(p, o)
    <3>1. /\ pc'[o] = pc[p] /\ me'[o] = me[p] /\ call'[o] = call[p]
          /\ req'[o] = req[p]
      BY <1>1, <2>1 DEF Abandon, IndInv, Maps, IsMap
    <3> QED BY <1>3, <1>4, <3>1 DEF AskedInv, Passes
  <2>2. CASE Reset(p, o)
    <3>1. /\ pc'[o] = "reset" /\ me'[o] = me[o] /\ req'[o] = req[o]
      BY <1>1, <2>2 DEF Reset, local, IndInv, Maps, IsMap
    <3> QED BY <1>3, <1>4, <3>1 DEF AskedInv, Belongs
  <2> QED BY <2>1, <2>2
<1>9. ASSUME NEW q \in Peer \ {p, o} PROVE AskedInv(q)' /\ AnsweredInv(q)'
  <2>1. /\ pc'[q] = pc[q] /\ me'[q] = me[q] /\ call'[q] = call[q]
        /\ req'[q] = req[q] /\ resp'[q] = resp[q]
    BY DEF Abandon, Reset, local, IndInv, Maps, IsMap
  <2>2. AskedInv(q) /\ AnsweredInv(q)
    BY DEF SessionInv
  <2>3. AskedInv(q)'
    BY <1>3, <2>1, <2>2 DEF AskedInv, Passes
  <2>4. AnsweredInv(q)'
    BY <1>2, <1>3, <2>1, <2>2 DEF AnsweredInv
  <2> QED BY <2>3, <2>4
<1> QED BY <1>3, <1>6, <1>7, <1>8, <1>9 DEF SessionInv

\* The id is of the client that was registered with the name typed.
LEMMA RegisteredOn ==
    ASSUME IndInv, SessionInv, NEW p \in Peer, Registered(p)
    PROVE  SessionInv'
<1>1. /\ me' = [me EXCEPT ![p] = [id |-> resp[p].id, name |-> call[p].typed]]
      /\ Leave(p, "menu") /\ UNCHANGED <<tables, faults>>
  BY DEF Registered
<1>2. Known([id |-> resp[p].id, name |-> call[p].typed])
  BY DEF Registered, IsValidResponse, SessionInv, AnsweredInv
<1>3. /\ me'[p] = [id |-> resp[p].id, name |-> call[p].typed]
      /\ \A q \in Peer \ {p} : me'[q] = me[q]
  BY <1>1 DEF IndInv, Maps, IsMap
<1> QED BY <1>1, <1>2, <1>3, LeftOn

-----------------------------------------------------------------------------
(* Requests. *)

\* From the menu.
LEMMA ChooseOn ==
    ASSUME IndInv, SessionInv, NEW p \in Peer, Choose(p)
    PROVE  SessionInv'
<1>1. UNCHANGED <<tables, me, faults>> /\ (me[p] # NoOne => Known(me[p])')
  BY DEF Choose, Register, AskList, AskPublicKey, AskUnread, Compose, local,
         SessionInv, AskedInv, Known, tables
<1>2. CASE Register(p)
  <2>1. PICK n \in Name, k \in Key :
          Post(p, "register", RegistrationRequest(n, k),
               [NoCall EXCEPT !.typed = n])
    BY <1>2 DEF Register
  <2> DEFINE s == RegistrationRequest(n, k)
             locals == [NoCall EXCEPT !.typed = n]
  <2>2. /\ CodeOf(s) = "REGISTER_CLIENT" /\ NameOf(s) = n
        /\ locals.typed = n /\ me[p] = NoOne
    BY <1>2, RegistrationRead DEF NoCall, Register, Chosen
  <2>3. Post(p, "register", s, locals)
    BY <2>1
  <2> HIDE DEF s, locals
  <2>4. (pc'[p] = "register" /\ req'[p] = s /\ call'[p] = locals)
          => AskedInv(p)'
    BY <1>1, <2>2 DEF AskedInv, Belongs
  <2> QED BY <1>1, <2>3, <2>4, PostedOn
<1>3. ASSUME NEW point, NEW s, NEW locals, Post(p, point, s, locals),
             Belongs(CodeOf(s), point), point \notin {"register", "send"},
             point = "fetch" => ClientIdOf(s) = me[p].id
      PROVE  SessionInv'
  <2>1. (pc'[p] = point /\ req'[p] = s /\ call'[p] = locals) => AskedInv(p)'
    BY <1>1, <1>3 DEF AskedInv
  <2> QED BY <1>1, <1>3, <2>1, PostedOn
<1>4. ASSUME NEW code \in {"GET_CLIENTS_LIST", "GET_UNREAD_MESSAGE"},
             NEW point \in {"list", "lookup", "fetch"}, NEW locals,
             code = "GET_UNREAD_MESSAGE" <=> point = "fetch",
             Post(p, point, RequestHeader(me[p].id, code, 0), locals)
      PROVE  SessionInv'
  <2> DEFINE s == RequestHeader(me[p].id, code, 0)
  <2>1. CodeOf(s) = code /\ ClientIdOf(s) = me[p].id
    BY HeaderRead
  <2>2. Belongs(code, point)
    BY <1>4 DEF Belongs
  <2> HIDE DEF s
  <2> QED BY <1>3, <1>4, <2>1, <2>2 DEF s
<1>5. CASE AskList(p)
  BY <1>4, <1>5 DEF AskList
<1>6. CASE AskUnread(p)
  BY <1>4, <1>6 DEF AskUnread
<1>7. CASE Compose(p)
  BY <1>4, <1>7 DEF Compose
<1>8. CASE AskPublicKey(p)
  <2>1. PICK n \in Name :
          Post(p, "menukey", PublicKeyRequest(me[p].id, n), NoCall)
    BY <1>8 DEF AskPublicKey
  <2>2. CodeOf(PublicKeyRequest(me[p].id, n)) = "GET_PUBLIC_KEY"
    BY PublicKeyRead
  <2>3. Belongs("GET_PUBLIC_KEY", "menukey")
    BY DEF Belongs
  <2> QED BY <1>3, <2>1, <2>2, <2>3
<1> QED BY <1>2, <1>5, <1>6, <1>7, <1>8 DEF Choose

\* A message is posted in the name of its sender, and if it may be refused for
\* its length, its length is why.
LEMMA MessageOn ==
    ASSUME IndInv, SessionInv, NEW p \in Peer, NEW to, NEW type, NEW m,
           NEW n, NEW locals,
           Post(p, "send", SendMessageRequest(me[p].id, to, type, m, n),
                locals),
           UNCHANGED <<tables, me, faults>>,
           \/ locals.length >= 480
           \/ Unpacks(SendMessageRequest(me[p].id, to, type, m, n))
    PROVE  SessionInv'
<1> DEFINE s == SendMessageRequest(me[p].id, to, type, m, n)
<1>1. CodeOf(s) = "SEND_MESSAGE" /\ ClientIdOf(s) = me[p].id
  BY SendRead
<1>2. me[p] # NoOne => Known(me[p])'
  BY DEF SessionInv, AskedInv, Known, tables
<1>3. Post(p, "send", s, locals) /\ (locals.length >= 480 \/ Unpacks(s))
  OBVIOUS
<1> HIDE DEF s
<1>4. (pc'[p] = "send" /\ req'[p] = s /\ call'[p] = locals) => AskedInv(p)'
  BY <1>1, <1>2, <1>3 DEF AskedInv, Belongs, Passes
<1> QED BY <1>3, <1>4, PostedOn

LEMMA KeyGotOn ==
    ASSUME IndInv, SessionInv, NEW p \in Peer, KeyGot(p)
    PROVE  SessionInv'
<1>1. /\ Post(p, "send", SendMessageRequest(me[p].id, call[p].to.id,
                                            call[p].type, 0, 0), call[p])
      /\ UNCHANGED <<tables, me, faults>>
  BY DEF KeyGot, local
<1>2. Unpacks(SendMessageRequest(me[p].id, call[p].to.id, call[p].type, 0, 0))
  BY KeyMessagePasses
<1> QED BY <1>1, <1>2, MessageOn

LEMMA LookedUpOn ==
    ASSUME IndInv, SessionInv, NEW p \in Peer, LookedUp(p)
    PROVE  SessionInv'
<1>1. /\ UNCHANGED <<tables, me, faults>>
      /\ Leave(p, "menu") \/ \E e : SendTo(p, e)
  BY DEF LookedUp
<1>2. me[p] # NoOne => Known(me[p])'
  BY <1>1 DEF SessionInv, AskedInv, Known, tables
<1>3. CASE Leave(p, "menu")
  BY <1>1, <1>3, LeftOn DEF SessionInv, AskedInv
<1>4. ASSUME NEW e, SendTo(p, e)
      PROVE  SessionInv'
  <2> DEFINE c == [call[p] EXCEPT !.to = e]
             id == me[p].id
  <2> HIDE DEF c
  <2>1. CASE Post(p, "send", SendMessageRequest(id, e.id, c.type, 25, 0), c)
    BY <1>1, <2>1, KeyMessagePasses, MessageOn
  <2>2. CASE Post(p, "key", PublicKeyRequest(id, e.name),
                  [c EXCEPT !.to.sym = "generated"])
    <3> DEFINE s == PublicKeyRequest(id, e.name)
               locals == [c EXCEPT !.to.sym = "generated"]
    <3>1. CodeOf(s) = "GET_PUBLIC_KEY"
      BY PublicKeyRead
    <3>2. Post(p, "key", s, locals)
      BY <2>2
    <3> HIDE DEF s, locals
    <3>3. (pc'[p] = "key" /\ req'[p] = s /\ call'[p] = locals)
            => AskedInv(p)'
      BY <1>1, <1>2, <3>1 DEF AskedInv, Belongs
    <3> QED BY <1>1, <3>2, <3>3, PostedOn
  <2>3. ASSUME NEW n \in TextLength,
               Post(p, "send",
                    SendMessageRequest(id, e.id, c.type, CipherSize(n),
                                       MessageHeaderSize + CipherSize(n)),
                    [c EXCEPT !.length = n])
        PROVE  SessionInv'
    <3>1. call[p] \in CallType
      BY DEF IndInv, ProcessInv, MemoryInv
    <3>2. [c EXCEPT !.length = n].length = n
      BY <3>1 DEF CallType, c
    <3>3. \/ n >= 480
          \/ Unpacks(SendMessageRequest(id, e.id, c.type, CipherSize(n),
                                        MessageHeaderSize + CipherSize(n)))
      BY TextPasses, TextAssumption
    <3> HIDE DEF id
    <3> QED BY <1>1, <2>3, <3>2, <3>3, MessageOn DEF id
  <2> QED BY <1>4, <2>1, <2>2, <2>3 DEF SendTo, c
<1> QED BY <1>1, <1>3, <1>4

-----------------------------------------------------------------------------
(* Replies. *)

\* A reply that goes with the request.
LEMMA ServedOn ==
    ASSUME IndInv, SessionInv, NEW p \in Peer, NEW r,
           resp' = [resp EXCEPT ![p] = r],
           pc[p] \in Blocked, UNCHANGED <<pc, call, req, me>>,
           clients \subseteq clients', MailInv',
           faults' = faults \/ faults' # MaxFaults,
           r.code = "REGISTER_SUCCESS" =>
             /\ pc[p] = "register"
             /\ Known([id |-> r.id, name |-> call[p].typed])',
           r.code = "GET_UNREAD_MESSAGES_SUCCESS" =>
             /\ pc[p] = "fetch"
             /\ \A m \in r.rows : m.to = me[p].id /\ Between(m)',
           p \in Process /\ faults' = MaxFaults /\ pc[p] = "send"
             /\ r = Error => call[p].length >= 480
    PROVE  SessionInv'
<1>1. resp'[p] = r /\ \A q \in Peer \ {p} : resp'[q] = resp[q]
  BY DEF IndInv, Maps, IsMap
<1>2. AskedInv(p)'
  BY DEF SessionInv, AskedInv, Known, Passes
<1>3. AnsweredInv(p)'
  BY <1>1 DEF AnsweredInv
<1> QED BY <1>1, <1>2, <1>3, OthersKept

\* An error after a failure may always come.
LEMMA TroubleOn ==
    ASSUME IndInv, SessionInv, NEW p \in Peer, NEW e \in {Error, Silence},
           resp' = [resp EXCEPT ![p] = e],
           pc[p] \in Blocked, UNCHANGED <<pc, call, req, me>>,
           clients \subseteq clients', MailInv',
           faults > 0, faults' = faults - 1
    PROVE  SessionInv'
<1>1. faults' # MaxFaults
  BY BoundsAssumption DEF IndInv, TableInv
<1>2. e.code # "REGISTER_SUCCESS" /\ e.code # "GET_UNREAD_MESSAGES_SUCCESS"
  BY DEF Error, Silence
<1> QED BY <1>1, <1>2, ServedOn

LEMMA AnsweredOn ==
    ASSUME IndInv, SessionInv, NEW p \in Peer, NEW r, Answer(p, r),
           pc[p] \in Blocked,
           clients \subseteq clients', MailInv',
           r.code = "REGISTER_SUCCESS" =>
             /\ pc[p] = "register"
             /\ Known([id |-> r.id, name |-> call[p].typed])',
           r.code = "GET_UNREAD_MESSAGES_SUCCESS" =>
             /\ pc[p] = "fetch"
             /\ \A m \in r.rows : m.to = me[p].id /\ Between(m)',
           pc[p] = "send" /\ r = Error => call[p].length >= 480
    PROVE  SessionInv'
<1>1. UNCHANGED <<pc, call, req, me>>
  BY DEF Answer, local
<1>2. CASE /\ resp' = [resp EXCEPT ![p] = IF p \in Process THEN r ELSE Error]
           /\ UNCHANGED faults
  <2>1. CASE p \in Process
    BY <1>1, <1>2, <2>1, ServedOn
  <2>2. CASE p \notin Process
    BY <1>1, <1>2, <2>2, ServedOn DEF Error
  <2> QED BY <2>1, <2>2
<1>3. CASE /\ faults > 0 /\ faults' = faults - 1
           /\ resp' = [resp EXCEPT ![p] = Error]
  BY <1>1, <1>3, TroubleOn
<1> QED BY <1>2, <1>3 DEF Answer

LEMMA FailOn ==
    ASSUME IndInv, SessionInv, NEW p \in Peer, Fail(p)
    PROVE  SessionInv'
<1>1. MailInv'
  BY DEF Fail, tables, SessionInv, MailInv, Between
<1>2. clients \subseteq clients' /\ UNCHANGED <<pc, call, req, me>>
  BY DEF Fail, tables, local
<1> QED BY <1>1, <1>2, TroubleOn DEF Fail

\* A silence without a failure refuses nothing.
LEMMA StarveOn ==
    ASSUME IndInv, SessionInv, NEW p \in Peer, Starve(p)
    PROVE  SessionInv'
<1>1. MailInv'
  BY DEF Starve, tables, SessionInv, MailInv, Between
<1>2. /\ clients \subseteq clients' /\ UNCHANGED <<pc, call, req, me, faults>>
      /\ pc[p] \in Blocked /\ resp' = [resp EXCEPT ![p] = Silence]
  BY DEF Starve, tables, local
<1> QED BY <1>1, <1>2, ServedOn DEF Silence, Error

\* Rows stay between registered clients, since nobody is deregistered.
LEMMA MailKept ==
    ASSUME SessionInv, clients \subseteq clients', messages' \subseteq messages
    PROVE  MailInv'
BY DEF SessionInv, MailInv, Between

LEMMA ServeRegisterOn ==
    ASSUME IndInv, SessionInv, NEW p \in Peer, ServeRegister(p)
    PROVE  SessionInv'
<1> DEFINE n == NameOf(req[p])
           k == KeyOf(req[p])
<1>1. pc[p] = "register" /\ n = call[p].typed /\ pc[p] \in Blocked
  BY DEF ServeRegister, Asked, SessionInv, AskedInv, Belongs
<1>2. UNCHANGED messages
  BY DEF ServeRegister
<1> HIDE DEF n, k
<1>3. CASE Answer(p, Error) /\ UNCHANGED clients
  BY <1>1, <1>2, <1>3, MailKept, AnsweredOn DEF Error
<1>4. ASSUME NEW i \in Id, clients' = InsertClient(clients, i, n, k),
             Answer(p, [code |-> "REGISTER_SUCCESS", size |-> ClientIdSize,
                        id |-> i])
      PROVE  SessionInv'
  <2>1. /\ clients \subseteq clients'
        /\ Known([id |-> i, name |-> call[p].typed])'
    <3>1. [id |-> i, name |-> n, key |-> k] \in clients'
      BY <1>4 DEF InsertClient
    <3>2. call' = call
      BY <1>4 DEF Answer
    <3> QED BY <1>1, <1>4, <3>1, <3>2 DEF InsertClient, Known
  <2> DEFINE r == [code |-> "REGISTER_SUCCESS", size |-> ClientIdSize,
                   id |-> i]
  <2>2. /\ r.id = i /\ r.code # "GET_UNREAD_MESSAGES_SUCCESS"
        /\ Answer(p, r)
    BY <1>4
  <2> HIDE DEF r
  <2> QED BY <1>1, <1>2, <2>1, <2>2, MailKept, AnsweredOn
<1> QED BY <1>3, <1>4 DEF ServeRegister, n, k

LEMMA ServeReadOn ==
    ASSUME IndInv, SessionInv, NEW p \in Peer,
           ServeList(p) \/ ServePublicKey(p)
    PROVE  SessionInv'
<1>1. PICK r : /\ Answer(p, r)
               /\ r.code # "REGISTER_SUCCESS"
               /\ r.code # "GET_UNREAD_MESSAGES_SUCCESS"
  BY DEF ServeList, ServePublicKey, Error
<1>2. /\ pc[p] # "send" /\ pc[p] \in Blocked
      /\ UNCHANGED <<clients, messages>>
  BY DEF ServeList, ServePublicKey, Asked, SessionInv, AskedInv, Belongs,
         tables
<1> QED BY <1>1, <1>2, MailKept, AnsweredOn

\* A message is stored for a client that is registered from one that is; the
\* recipient was listed once, so that only a long text is refused.
LEMMA ServeSendOn ==
    ASSUME IndInv, SessionInv, NEW p \in Peer, ServeSend(p)
    PROVE  SessionInv'
<1> DEFINE s == req[p]
           to == ToOf(s)
           from == ClientIdOf(s)
<1>1. /\ pc[p] = "send" /\ pc[p] \in Blocked
      /\ me[p] \in Identity /\ from = me[p].id
  BY DEF ServeSend, Asked, SessionInv, AskedInv, Belongs, IndInv, ProcessInv,
         MemoryInv, Blocked
<1>2. Known(me[p]) /\ Passes(p)
  BY <1>1, NobodyHasNoId DEF SessionInv, AskedInv
<1>3. ClientIdExists(clients, to) /\ UNCHANGED clients
  BY <1>1 DEF ServeSend, Asked, IndInv, ProcessInv, MemoryInv, RequestInv,
              Known, ClientIdExists
<1>4. CASE /\ ~(Unpacks(s) /\ ClientIdExists(clients, to))
           /\ Answer(p, Error) /\ UNCHANGED messages
  BY <1>1, <1>2, <1>3, <1>4, MailKept, AnsweredOn DEF Error, Passes
<1>5. CASE /\ \E i \in RowId :
                /\ IsNextRowId(messages, i)
                /\ messages' = InsertMessage(messages, i, to, from)
           /\ Answer(p, [code |-> "MESSAGE_SENT_SUCCESS",
                         size |-> ClientIdSize + MessageIdSize])
  <2>1. MailInv'
    <3>1. PICK i \in RowId : /\ IsNextRowId(messages, i)
                             /\ messages' = InsertMessage(messages, i, to, from)
      BY <1>5
    <3>2. \A m \in messages : m.id \in Nat /\ m.id < i
      BY <3>1, RowIdAssumption DEF IsNextRowId, IndInv, TableInv, MessageRow
    <3>3. \A m \in messages : m.id # i
      BY <3>2
    <3>4. {to, from} \subseteq {r.id : r \in clients'}
      BY <1>1, <1>2, <1>3 DEF Known, ClientIdExists
    <3> QED
      BY <1>3, <3>1, <3>3, <3>4
         DEF InsertMessage, SessionInv, MailInv, Between
  <2> DEFINE r == [code |-> "MESSAGE_SENT_SUCCESS",
                   size |-> ClientIdSize + MessageIdSize]
  <2>2. /\ r.code # "REGISTER_SUCCESS" /\ r # Error
        /\ r.code # "GET_UNREAD_MESSAGES_SUCCESS"
        /\ Answer(p, r)
    BY <1>5 DEF Error
  <2> HIDE DEF r
  <2> QED BY <1>1, <1>3, <2>1, <2>2, AnsweredOn
<1> QED BY <1>4, <1>5 DEF ServeSend

\* The rows are those for the id of the process.
LEMMA ServeUnreadOn ==
    ASSUME IndInv, SessionInv, NEW p \in Peer, ServeUnread(p)
    PROVE  SessionInv'
<1> DEFINE rows == SelectUnread(messages, ClientIdOf(req[p]))
           reply(s) == [code |-> "GET_UNREAD_MESSAGES_SUCCESS", rows |-> s]
<1>1. pc[p] = "fetch" /\ pc[p] \in Blocked
  BY DEF ServeUnread, Asked, SessionInv, AskedInv, Belongs
<1>2. \A m \in rows : m.to = me[p].id /\ Between(m)
  BY <1>1 DEF SessionInv, AskedInv, MailInv, SelectUnread
<1>3. /\ UNCHANGED clients /\ messages' \subseteq messages
      /\ \/ /\ resp' = [resp EXCEPT ![p] = Silence]
            /\ UNCHANGED <<faults, pc, call, req, me>>
         \/ \E some \in SUBSET rows :
              Answer(p, reply(some)) \/ Unnoticed(p, reply(some))
  <2> HIDE DEF rows
  <2> QED BY DEF ServeUnread, rows, local
<1>4. MailInv'
  BY <1>3, MailKept
<1>5. CASE /\ resp' = [resp EXCEPT ![p] = Silence]
           /\ UNCHANGED <<faults, pc, call, req, me>>
  BY <1>1, <1>3, <1>4, <1>5, ServedOn DEF Silence, Error
<1>6. ASSUME NEW some \in SUBSET rows,
             Answer(p, reply(some)) \/ Unnoticed(p, reply(some))
      PROVE  SessionInv'
  <2> DEFINE r == reply(some)
  <2>1. /\ r.code # "REGISTER_SUCCESS" /\ r # Error
        /\ Answer(p, r) \/ Unnoticed(p, r)
    BY <1>6 DEF Error
  <2>2. \A m \in r.rows : m.to = me[p].id /\ Between(m)'
    BY <1>2, <1>3, <1>6 DEF Between
  <2> HIDE DEF r
  <2>3. CASE Answer(p, r)
    BY <1>1, <1>3, <1>4, <2>1, <2>2, <2>3, AnsweredOn
  <2>4. CASE Unnoticed(p, r)
    <3>1. faults' # MaxFaults
      BY <2>4, BoundsAssumption DEF Unnoticed, IndInv, TableInv
    <3> QED
      BY <1>1, <1>3, <1>4, <2>1, <2>2, <2>4, <3>1, ServedOn
         DEF Unnoticed, local, Blocked, Error
  <2> QED BY <2>1, <2>3, <2>4
<1> QED BY <1>3, <1>5, <1>6

-----------------------------------------------------------------------------
(* The theorems. *)

LEMMA SessionInit == Init => SessionInv
<1> SUFFICES ASSUME Init PROVE SessionInv
  OBVIOUS
<1>1. MailInv
  BY InitAssumption DEF Init, MailInv, Between
<1>2. ASSUME NEW p \in Peer
      PROVE  AskedInv(p) /\ AnsweredInv(p)
  <2>1. me[p] # NoOne => Known(me[p])
    <3>1. CASE p \in Process
      BY <3>1, InitAssumption DEF Init, Known, AsClient
    <3>2. CASE p \notin Process
      BY <3>2 DEF Init
    <3> QED BY <3>1, <3>2
  <2>2. AskedInv(p)
    BY <2>1, NoRequest DEF Init, AskedInv, Belongs
  <2>3. AnsweredInv(p)
    BY DEF Init, AnsweredInv, Nothing
  <2> QED BY <2>2, <2>3
<1> QED BY <1>1, <1>2 DEF SessionInv

LEMMA SessionStep == IndInv /\ SessionInv /\ [Next]_vars => SessionInv'
<1> SUFFICES ASSUME IndInv, SessionInv, [Next]_vars PROVE SessionInv'
  OBVIOUS
<1>1. CASE UNCHANGED vars
  BY <1>1 DEF vars, SessionInv, MailInv, Between, AskedInv, AnsweredInv,
              Known, Passes
<1>2. ASSUME NEW p \in Process,
             \/ Start(p) \/ Stop(p) \/ Choose(p) \/ Resume(p)
             \/ Fail(p) \/ Starve(p)
      PROVE  SessionInv'
  <2> p \in Peer
    BY DEF Peer
  <2>1. CASE Start(p) \/ Stop(p) \/ Choose(p) \/ Fail(p) \/ Starve(p)
    BY <2>1, AloneOn, ChooseOn, FailOn, StarveOn
  <2>2. CASE Resume(p)
    BY <2>2, AloneOn, RegisteredOn, LookedUpOn, KeyGotOn DEF Resume
  <2> QED BY <1>2, <2>1, <2>2
<1>3. ASSUME NEW p \in Process, NEW o \in Orphan, Abandon(p, o) \/ Reset(p, o)
      PROVE  SessionInv'
  BY <1>3, EndedOn
<1>4. ASSUME NEW o \in Orphan, Forget(o) PROVE SessionInv'
  BY <1>4, ForgetOn
<1>5. ASSUME NEW c \in Peer, Serve(c) PROVE SessionInv'
  BY <1>5, ServeRegisterOn, ServeReadOn, ServeSendOn, ServeUnreadOn DEF Serve
<1> QED BY <1>1, <1>2, <1>3, <1>4, <1>5 DEF Next

\* Every reply that a handler finds is one to the request it made, for the
\* client that it is.
THEOREM SessionInvariance == Spec => [](IndInv /\ SessionInv)
<1>1. Init => IndInv /\ SessionInv
  BY InitInv, SessionInit
<1>2. IndInv /\ SessionInv /\ [Next]_vars => (IndInv /\ SessionInv)'
  BY StepInv, SessionStep
<1> QED BY <1>1, <1>2, PTL DEF Spec

\* Until something fails, the server refuses a message only for its length:
\* its recipient is registered, and 479 characters fit.
THEOREM ShortAccepted == Spec => []RefusedOnlyLong
<1>1. SessionInv => RefusedOnlyLong
  BY DEF SessionInv, AnsweredInv, RefusedOnlyLong, Peer
<1> QED BY <1>1, SessionInvariance, PTL

\* A message goes only with a request of its recipient, and into the reply
\* that reaches it, unless that request fails or its process has ended.
THEOREM Collected == Spec => CollectedByRecipient
<1>1. ASSUME IndInv, SessionInv, [Next]_vars, NEW m \in messages \ messages'
      PROVE  \E c \in Peer :
               /\ me[c].id = m.to
               /\ pc[c] = "fetch" /\ resp[c] = Nothing
               /\ c \in Orphan \/ faults' < faults \/ IsHanded(c, m)'
  <2>1. PICK c \in Peer : ServeUnread(c)
    BY <1>1 DEF Next, vars, Start, Stop, Choose, Register, AskList,
       AskPublicKey, AskUnread, Compose, Resume, Registered, Listed,
       MenuKeyGot, Fetched, LookedUp, KeyGot, MessageSent, Failed, Exit,
       Serve, ServeRegister, ServeList, ServePublicKey, ServeSend, Fail,
       Starve, Abandon, Reset, Forget, InsertMessage, tables
  <2> DEFINE rows == SelectUnread(messages, ClientIdOf(req[c]))
             reply(s) == [code |-> "GET_UNREAD_MESSAGES_SUCCESS", rows |-> s]
  <2>2. faults \in Nat
    BY <1>1 DEF IndInv, TableInv
  <2>3. m \in rows /\ (faults' < faults \/ Answer(c, reply(rows)))
    <3> HIDE DEF rows
    <3> QED BY <1>1, <2>1, <2>2 DEF ServeUnread, Unnoticed, rows
  <2>4. pc[c] = "fetch" /\ resp[c] = Nothing /\ m.to = me[c].id
    BY <1>1, <2>1, <2>3 DEF SelectUnread, ServeUnread, Asked, SessionInv,
                            AskedInv, Belongs
  <2>5. ASSUME c \notin Orphan, ~(faults' < faults) PROVE IsHanded(c, m)'
    <3> DEFINE r == reply(rows)
    <3>1. /\ Answer(c, r) /\ r.rows = rows
          /\ r.code = "GET_UNREAD_MESSAGES_SUCCESS"
      BY <2>3, <2>5
    <3> HIDE DEF r, rows
    <3>2. resp' = [resp EXCEPT ![c] = r]
      BY <2>2, <2>5, <3>1 DEF Answer, Peer
    <3> QED BY <1>1, <2>3, <3>1, <3>2 DEF IsHanded, IndInv, Maps, IsMap
  <2> QED BY <2>4, <2>5
<1>2. IndInv /\ SessionInv /\ [Next]_vars =>
        [\A m \in messages \ messages' :
           \E c \in Peer :
             /\ me[c].id = m.to
             /\ pc[c] = "fetch" /\ resp[c] = Nothing
             /\ c \in Orphan \/ faults' < faults \/ IsHanded(c, m)']_vars
  BY <1>1
<1> QED BY <1>2, SessionInvariance, PTL DEF Spec, CollectedByRecipient

=============================================================================
