------------------------ MODULE ClientHandlerProofs ------------------------
(***************************************************************************)
(* A message goes to the client whose name was typed, and is shown under   *)
(* the name of the client who sent it, for every number of processes and   *)
(* clients and whatever fails.                                             *)
(*                                                                         *)
(* Why it holds although lists grow old: an id and its name never change   *)
(* and never part, so that whoever was once listed is so for ever.  What   *)
(* a handler carries from a list to a request is Known.                    *)
(***************************************************************************)
EXTENDS ClientHandler, TLAPS

\* A client as it is, or was once, listed.
Known(e) == \E r \in clients : r.id = e.id /\ r.name = e.name

TableInv ==
    /\ clients \subseteq ClientRow
    /\ messages \subseteq MessageRow
    /\ \A r, q \in clients : (r.name = q.name \/ r.id = q.id) => r = q
    /\ sends \in 0..MaxSends
    /\ faults \in 0..MaxFaults

LogInv == \A l \in log : Known([id |-> l.to, name |-> l.typed])

CallType == [typed: Name \cup {"none"}, type: Type \cup {"NONE_MESSAGE"},
             length: TextLength \cup {0}, to: Contact \cup {NoContact}]

\* What a process holds in memory.
MemoryInv(p) ==
    /\ pc[p] \in {"off", "menu", "crashed", "reset"} \cup Blocked
    /\ me[p] \in Identity \cup {NoOne}
    /\ cache[p] \subseteq Contact
    /\ \A e \in cache[p] : Known(e)
    /\ call[p] \in CallType
    /\ pc[p] \in Blocked \ {"register"} => me[p] \in Identity
    /\ pc[p] \in {"register", "lookup", "key", "send"} =>
         call[p].typed \in Name
    /\ pc[p] \in {"key", "send"} =>
         /\ call[p].to \in Contact
         /\ Known(call[p].to)
         /\ call[p].to.name = call[p].typed

\* What it has sent.
RequestInv(p) ==
    /\ req[p] # {} <=> pc[p] \in Blocked
    /\ CodeOf(req[p]) = "REGISTER_CLIENT" =>
         NameOf(req[p]) \in Name /\ KeyOf(req[p]) \in Key
    /\ CodeOf(req[p]) = "SEND_MESSAGE" =>
         /\ pc[p] = "send"
         /\ ClientIdOf(req[p]) \in Id
         /\ ToOf(req[p]) = call[p].to.id

\* What it was answered.
ReplyInv(p) ==
    /\ resp[p] \in Reply
    /\ resp[p].code = "GET_CLIENTS_LIST_SUCCESS" =>
         resp[p].contacts \subseteq Identity
           /\ \A c \in resp[p].contacts : Known(c)

ProcessInv(p) == MemoryInv(p) /\ RequestInv(p) /\ ReplyInv(p)

IsMap(f) == f = [p \in Peer |-> f[p]]
Maps     == /\ IsMap(pc) /\ IsMap(me) /\ IsMap(cache)
            /\ IsMap(call) /\ IsMap(req) /\ IsMap(resp)

IndInv == TableInv /\ LogInv /\ Maps /\ \A p \in Peer : ProcessInv(p)

-----------------------------------------------------------------------------
(* What the server reads of what a client writes.                           *)

\* A slice that is a field, and no other field's, is its value.
LEMMA Unpacked ==
    ASSUME NEW s, NEW f \in s,
           \A g \in s : g.at = f.at /\ g.size = f.size => g = f
    PROVE  Unpack(s, f.at, f.size) = f.value
BY DEF Unpack

LEMMA HeaderRead ==
    ASSUME NEW id, NEW code, NEW n
    PROVE  LET s == RequestHeader(id, code, n) IN
           CodeOf(s) = code /\ ClientIdOf(s) = id /\ s # {}
<1> DEFINE s == RequestHeader(id, code, n)
           f == Field(17, 2, code)
           g == Field(0, 16, id)
<1>1. s = {g, f, Field(19, 4, n)}
  BY DEF RequestHeader, ClientIdSize
<1>2. f \in s /\ \A e \in s : e.at = f.at /\ e.size = f.size => e = f
  BY <1>1 DEF Field
<1>3. g \in s /\ \A e \in s : e.at = g.at /\ e.size = g.size => e = g
  BY <1>1 DEF Field
<1>4. /\ Unpack(s, f.at, f.size) = f.value
      /\ Unpack(s, g.at, g.size) = g.value
  <2> HIDE DEF s, f, g
  <2> QED BY <1>2, <1>3, Unpacked
<1> QED BY <1>2, <1>4 DEF Field, CodeOf, ClientIdOf

LEMMA RegistrationRead ==
    ASSUME NEW n, NEW k
    PROVE  LET s == RegistrationRequest(n, k) IN
           /\ CodeOf(s) = "REGISTER_CLIENT" /\ s # {}
           /\ NameOf(s) = n /\ KeyOf(s) = k
<1> DEFINE s == RegistrationRequest(n, k)
           f == Field(17, 2, "REGISTER_CLIENT")
           g == Field(23, 255, n)
           h == Field(278, 160, k)
<1>1. s = {Field(0, 16, "zeros"), f, Field(19, 4, 415), g, h}
  BY DEF RegistrationRequest, RequestHeader, ClientIdSize, HeaderSize,
         NameSize, PublicKeySize
<1>2. f \in s /\ \A e \in s : e.at = f.at /\ e.size = f.size => e = f
  BY <1>1 DEF Field
<1>3. g \in s /\ \A e \in s : e.at = g.at /\ e.size = g.size => e = g
  BY <1>1 DEF Field
<1>4. h \in s /\ \A e \in s : e.at = h.at /\ e.size = h.size => e = h
  BY <1>1 DEF Field
<1>5. /\ Unpack(s, f.at, f.size) = f.value
      /\ Unpack(s, g.at, g.size) = g.value
      /\ Unpack(s, h.at, h.size) = h.value
  <2> HIDE DEF s, f, g, h
  <2> QED BY <1>2, <1>3, <1>4, Unpacked
<1> QED BY <1>2, <1>5 DEF Field, CodeOf, NameOf, KeyOf

LEMMA PublicKeyRead ==
    ASSUME NEW id, NEW n
    PROVE  LET s == PublicKeyRequest(id, n) IN
           CodeOf(s) = "GET_PUBLIC_KEY" /\ s # {}
<1> DEFINE s == PublicKeyRequest(id, n)
           f == Field(17, 2, "GET_PUBLIC_KEY")
<1>1. s = {Field(0, 16, id), f, Field(19, 4, 255), Field(23, 255, n)}
  BY DEF PublicKeyRequest, RequestHeader, ClientIdSize, HeaderSize, NameSize
<1>2. f \in s /\ \A e \in s : e.at = f.at /\ e.size = f.size => e = f
  BY <1>1 DEF Field
<1>3. Unpack(s, f.at, f.size) = f.value
  <2> HIDE DEF s, f
  <2> QED BY <1>2, Unpacked
<1> QED BY <1>2, <1>3 DEF Field, CodeOf

LEMMA SendRead ==
    ASSUME NEW id, NEW to, NEW type, NEW m, NEW n
    PROVE  LET s == SendMessageRequest(id, to, type, m, n) IN
           /\ CodeOf(s) = "SEND_MESSAGE" /\ s # {}
           /\ ClientIdOf(s) = id /\ ToOf(s) = to
           /\ ContentSizeOf(s) = m /\ PayloadSizeOf(s) = n
<1> DEFINE s == SendMessageRequest(id, to, type, m, n)
           f == Field(17, 2, "SEND_MESSAGE")
           g == Field(0, 16, id)
           h == Field(23, 16, to)
           u == Field(40, 4, m)
           v == Field(19, 4, n)
<1>1. s = {g, f, v, h, Field(39, 1, type), u, Field(44, 4, "pointer")}
  BY DEF SendMessageRequest, RequestHeader, ClientIdSize, HeaderSize,
         MessageHeaderSize
<1>2. f \in s /\ \A e \in s : e.at = f.at /\ e.size = f.size => e = f
  BY <1>1 DEF Field
<1>3. g \in s /\ \A e \in s : e.at = g.at /\ e.size = g.size => e = g
  BY <1>1 DEF Field
<1>4. h \in s /\ \A e \in s : e.at = h.at /\ e.size = h.size => e = h
  BY <1>1 DEF Field
<1>5. u \in s /\ \A e \in s : e.at = u.at /\ e.size = u.size => e = u
  BY <1>1 DEF Field
<1>6. v \in s /\ \A e \in s : e.at = v.at /\ e.size = v.size => e = v
  BY <1>1 DEF Field
<1>7. /\ Unpack(s, f.at, f.size) = f.value
      /\ Unpack(s, g.at, g.size) = g.value
      /\ Unpack(s, h.at, h.size) = h.value
      /\ Unpack(s, u.at, u.size) = u.value
      /\ Unpack(s, v.at, v.size) = v.value
  <2> HIDE DEF s, f, g, h, u, v
  <2> QED BY <1>2, <1>3, <1>4, <1>5, <1>6, Unpacked
<1> QED
  BY <1>2, <1>7
     DEF Field, CodeOf, ClientIdOf, ToOf, ContentSizeOf, PayloadSizeOf

\* No request at all has no code.
LEMMA NoRequest == CodeOf({}) = "garbage"
BY DEF CodeOf, Unpack

-----------------------------------------------------------------------------
(* Steps of one process leave the others alone.                             *)

\* What was once known stays so.
LEMMA Untouched ==
    ASSUME IndInv, NEW q \in Peer, clients \subseteq clients',
           pc'[q] = pc[q], me'[q] = me[q], cache'[q] = cache[q],
           call'[q] = call[q], req'[q] = req[q], resp'[q] = resp[q]
    PROVE  ProcessInv(q)'
<1>1. ProcessInv(q)
  BY DEF IndInv
<1>2. \A e : Known(e) => Known(e)'
  BY DEF Known
<1>3. MemoryInv(q)'
  BY <1>1, <1>2 DEF ProcessInv, MemoryInv
<1>4. RequestInv(q)'
  BY <1>1 DEF ProcessInv, RequestInv
<1>5. ReplyInv(q)'
  BY <1>1, <1>2 DEF ProcessInv, ReplyInv
<1> QED BY <1>3, <1>4, <1>5 DEF ProcessInv

\* The other processes stay as they are.
LEMMA Framed ==
    ASSUME IndInv, NEW p \in Peer, clients \subseteq clients',
           \A q \in Peer \ {p} :
             /\ pc'[q] = pc[q] /\ me'[q] = me[q] /\ cache'[q] = cache[q]
             /\ call'[q] = call[q] /\ req'[q] = req[q] /\ resp'[q] = resp[q],
           MemoryInv(p)', RequestInv(p)', ReplyInv(p)'
    PROVE  \A q \in Peer : ProcessInv(q)'
<1>1. \A q \in Peer \ {p} : ProcessInv(q)'
  BY Untouched
<1>2. ProcessInv(p)'
  BY DEF ProcessInv
<1> QED BY <1>1, <1>2

\* A handler that goes on posts a request, or is left.
LEMMA Posted ==
    ASSUME IndInv, NEW p \in Peer, NEW point, NEW s, NEW locals,
           Post(p, point, s, locals),
           UNCHANGED <<tables, faults>>, sends' \in 0..MaxSends,
           IsMap(me)', IsMap(cache)',
           \A q \in Peer \ {p} : me'[q] = me[q] /\ cache'[q] = cache[q],
           (pc'[p] = point /\ req'[p] = s /\ call'[p] = locals)
             => (MemoryInv(p)' /\ RequestInv(p)')
    PROVE  IndInv'
<1>1. /\ pc'[p] = point /\ req'[p] = s /\ resp'[p] = Nothing
      /\ call'[p] = locals
      /\ IsMap(pc)' /\ IsMap(req)' /\ IsMap(resp)' /\ IsMap(call)'
      /\ \A q \in Peer \ {p} :
           /\ pc'[q] = pc[q] /\ req'[q] = req[q]
           /\ resp'[q] = resp[q] /\ call'[q] = call[q]
  BY DEF Post, IndInv, Maps, IsMap
<1>2. ReplyInv(p)'
  BY <1>1 DEF ReplyInv, Reply, Nothing
<1>3. \A q \in Peer : ProcessInv(q)'
  BY <1>1, <1>2, Framed DEF tables
<1>4. TableInv' /\ LogInv'
  BY DEF IndInv, TableInv, LogInv, Known, tables
<1> QED BY <1>1, <1>3, <1>4 DEF IndInv, Maps

LEMMA LeftAlone ==
    ASSUME IndInv, NEW p \in Peer, NEW point \in {"off", "menu", "crashed"},
           Leave(p, point),
           UNCHANGED <<tables, sends, faults>>,
           IsMap(me)', IsMap(cache)',
           \A q \in Peer \ {p} : me'[q] = me[q] /\ cache'[q] = cache[q],
           me'[p] \in Identity \cup {NoOne},
           cache'[p] \subseteq Contact, \A e \in cache'[p] : Known(e)
    PROVE  IndInv'
<1>1. sends' \in 0..MaxSends
  BY DEF IndInv, TableInv
<1>2. \A e : Known(e)' <=> Known(e)
  BY DEF Known, tables
<1>3. Post(p, point, {}, NoCall)
  BY DEF Leave
<1>4. (pc'[p] = point /\ req'[p] = {} /\ call'[p] = NoCall)
        => (MemoryInv(p)' /\ RequestInv(p)')
  <2> SUFFICES ASSUME pc'[p] = point, req'[p] = {}, call'[p] = NoCall
               PROVE  MemoryInv(p)' /\ RequestInv(p)'
    OBVIOUS
  <2>1. NoCall \in CallType
    BY DEF NoCall, CallType
  <2>2. MemoryInv(p)'
    BY <1>2, <2>1 DEF MemoryInv, Blocked
  <2>3. RequestInv(p)'
    BY NoRequest DEF RequestInv, Blocked
  <2> QED BY <2>2, <2>3
<1> HIDE DEF Leave
<1> QED BY <1>1, <1>3, <1>4, Posted

\* The process ends: its memory goes, its file stays.
LEMMA Exited ==
    ASSUME IndInv, NEW p \in Peer, NEW point \in {"off", "menu", "crashed"},
           Exit(p, point)
    PROVE  IndInv'
<1>1. /\ Leave(p, point) /\ UNCHANGED <<tables, me, sends, faults>>
      /\ cache' = [cache EXCEPT ![p] = {}]
  BY DEF Exit, local
<1>2. /\ IsMap(me)' /\ IsMap(cache)' /\ cache'[p] = {}
      /\ \A q \in Peer \ {p} : me'[q] = me[q] /\ cache'[q] = cache[q]
  BY <1>1 DEF IndInv, Maps, IsMap
<1>3. me'[p] \in Identity \cup {NoOne}
  BY <1>1 DEF IndInv, ProcessInv, MemoryInv
<1> QED BY <1>1, <1>2, <1>3, LeftAlone

LEMMA AloneInv ==
    ASSUME IndInv, NEW p \in Peer,
           Start(p) \/ Stop(p) \/ MenuKeyGot(p) \/ Fetched(p)
             \/ MessageSent(p) \/ Failed(p)
    PROVE  IndInv'
<1>1. CASE Start(p) \/ Fetched(p) \/ MessageSent(p)
  <2>1. Leave(p, "menu") /\ UNCHANGED <<tables, me, sends, cache, faults>>
    BY <1>1 DEF Start, Fetched, MessageSent, local
  <2>2. /\ IsMap(me)' /\ IsMap(cache)'
        /\ me'[p] \in Identity \cup {NoOne}
        /\ cache'[p] \subseteq Contact /\ \A e \in cache'[p] : Known(e)
    BY <2>1 DEF IndInv, Maps, IsMap, ProcessInv, MemoryInv
  <2> QED BY <2>1, <2>2, LeftAlone
<1>2. CASE Stop(p) \/ Failed(p)
  BY <1>2, Exited DEF Stop, Failed
<1>3. CASE MenuKeyGot(p)
  BY <1>3, Exited DEF MenuKeyGot
<1> QED BY <1>1, <1>2, <1>3

\* The server is done with an orphan.
LEMMA ForgetInv ==
    ASSUME IndInv, NEW o \in Orphan, Forget(o)
    PROVE  IndInv'
<1>1. /\ Leave(o, "off") /\ UNCHANGED <<tables, cache, sends, faults>>
      /\ me' = [me EXCEPT ![o] = NoOne] /\ o \in Peer
  BY DEF Forget, Peer
<1>2. /\ IsMap(me)' /\ IsMap(cache)' /\ me'[o] \in Identity \cup {NoOne}
      /\ \A q \in Peer \ {o} : me'[q] = me[q] /\ cache'[q] = cache[q]
  BY <1>1 DEF IndInv, Maps, IsMap
<1>3. cache'[o] \subseteq Contact /\ \A e \in cache'[o] : Known(e)
  BY <1>1 DEF IndInv, ProcessInv, MemoryInv
<1> QED BY <1>1, <1>2, <1>3, LeftAlone

\* A process ends, and its connection with what it asked for is an orphan's.
LEMMA EndedInv ==
    ASSUME IndInv, NEW p \in Process, NEW o \in Orphan,
           Abandon(p, o) \/ Reset(p, o)
    PROVE  IndInv'
<1>1. p \in Peer /\ o \in Peer /\ p # o
  BY OrphanAssumption DEF Peer
<1>2. UNCHANGED <<clients, messages, log, sends, faults>>
  BY DEF Abandon, Reset, tables, local
<1>3. TableInv' /\ LogInv' /\ \A e : Known(e)' <=> Known(e)
  BY <1>2 DEF IndInv, TableInv, LogInv, Known
<1>4. Maps'
  BY DEF Abandon, Reset, local, IndInv, Maps, IsMap
<1>5. /\ pc'[p] = "off" /\ me'[p] = me[p] /\ cache'[p] = {}
      /\ call'[p] = NoCall /\ req'[p] = {}
      /\ resp'[p] \in {resp[p], Nothing}
  BY <1>1 DEF Abandon, Reset, local, IndInv, Maps, IsMap
<1>6. ProcessInv(p) /\ ProcessInv(o)
  BY <1>1 DEF IndInv
<1>7. ProcessInv(p)'
  <2>1. NoCall \in CallType
    BY DEF NoCall, CallType
  <2>2. MemoryInv(p)'
    BY <1>3, <1>5, <1>6, <2>1 DEF ProcessInv, MemoryInv, Blocked
  <2>3. RequestInv(p)'
    BY <1>5, NoRequest DEF RequestInv, Blocked
  <2>4. ReplyInv(p)'
    BY <1>3, <1>5, <1>6 DEF ProcessInv, ReplyInv, Reply, Nothing
  <2> QED BY <2>2, <2>3, <2>4 DEF ProcessInv
<1>8. ProcessInv(o)'
  <2>1. /\ cache'[o] = cache[o] /\ resp'[o] = resp[o]
    BY <1>1 DEF Abandon, Reset, local, IndInv, Maps, IsMap
  <2>2. ReplyInv(o)'
    BY <1>3, <1>6, <2>1 DEF ProcessInv, ReplyInv
  <2>3. CASE Abandon(p, o)
    <3>1. /\ pc'[o] = pc[p] /\ me'[o] = me[p] /\ call'[o] = call[p]
          /\ req'[o] = req[p]
      BY <1>1, <2>3 DEF Abandon, IndInv, Maps, IsMap
    <3>2. MemoryInv(o)'
      BY <1>3, <1>6, <2>1, <3>1 DEF ProcessInv, MemoryInv
    <3>3. RequestInv(o)'
      BY <1>6, <3>1 DEF ProcessInv, RequestInv
    <3> QED BY <2>2, <3>2, <3>3 DEF ProcessInv
  <2>4. CASE Reset(p, o)
    <3>1. /\ pc'[o] = "reset" /\ pc[o] = "off" /\ me'[o] = me[o]
          /\ call'[o] = call[o] /\ req'[o] = req[o]
      BY <1>1, <2>4 DEF Reset, local, IndInv, Maps, IsMap
    <3>2. MemoryInv(o)'
      BY <1>3, <1>6, <2>1, <3>1 DEF ProcessInv, MemoryInv, Blocked
    <3>3. RequestInv(o)'
      BY <1>6, <3>1 DEF ProcessInv, RequestInv, Blocked
    <3> QED BY <2>2, <3>2, <3>3 DEF ProcessInv
  <2> QED BY <2>3, <2>4
<1>9. ASSUME NEW q \in Peer \ {p, o} PROVE ProcessInv(q)'
  <2>1. /\ pc'[q] = pc[q] /\ me'[q] = me[q] /\ cache'[q] = cache[q]
        /\ call'[q] = call[q] /\ req'[q] = req[q] /\ resp'[q] = resp[q]
    BY DEF Abandon, Reset, local, IndInv, Maps, IsMap
  <2> QED BY <1>2, <2>1, Untouched
<1> QED BY <1>3, <1>4, <1>7, <1>8, <1>9 DEF IndInv

LEMMA RegisteredInv ==
    ASSUME IndInv, NEW p \in Peer, Registered(p)
    PROVE  IndInv'
<1>1. /\ resp[p] \in Reply /\ resp[p].code = "REGISTER_SUCCESS"
      /\ call[p].typed \in Name
  BY DEF Registered, IsValidResponse, IndInv, ProcessInv, MemoryInv, ReplyInv
<1>2. resp[p].id \in Id
  BY <1>1 DEF Reply, Nothing, Error, Silence
<1>3. /\ Leave(p, "menu") /\ UNCHANGED <<tables, sends, cache, faults>>
      /\ me' = [me EXCEPT ![p] = [id |-> resp[p].id, name |-> call[p].typed]]
  BY DEF Registered
<1>4. /\ IsMap(me)' /\ IsMap(cache)'
      /\ me'[p] \in Identity \cup {NoOne}
      /\ \A q \in Peer \ {p} : me'[q] = me[q] /\ cache'[q] = cache[q]
  BY <1>1, <1>2, <1>3 DEF IndInv, Maps, IsMap, Identity
<1>5. cache'[p] \subseteq Contact /\ \A e \in cache'[p] : Known(e)
  BY <1>3 DEF IndInv, ProcessInv, MemoryInv
<1> QED BY <1>3, <1>4, <1>5, LeftAlone

\* A list that was answered is of contacts that are known.
LEMMA ListKnown ==
    ASSUME IndInv, NEW p \in Peer,
           IsValidResponse(resp[p], "GET_CLIENTS_LIST_SUCCESS"),
           NEW e \in {NewContact(c) : c \in resp[p].contacts}
    PROVE  e \in Contact /\ Known(e)
<1>1. PICK c \in resp[p].contacts : e = NewContact(c)
  OBVIOUS
<1>2. c \in Identity /\ Known(c)
  BY DEF IndInv, ProcessInv, ReplyInv, IsValidResponse
<1> QED BY <1>1, <1>2 DEF NewContact, Identity, Contact, Known

LEMMA ListedInv ==
    ASSUME IndInv, NEW p \in Peer, Listed(p)
    PROVE  IndInv'
<1> DEFINE list == {NewContact(c) : c \in resp[p].contacts}
<1>1. \A e \in list : e \in Contact /\ Known(e)
  BY ListKnown DEF Listed
<1>2. /\ Leave(p, "menu") /\ UNCHANGED <<tables, me, sends, faults>>
      /\ cache' = [cache EXCEPT ![p] = list]
  BY DEF Listed
<1> HIDE DEF list
<1>3. /\ IsMap(me)' /\ IsMap(cache)' /\ cache'[p] = list
      /\ \A q \in Peer \ {p} : me'[q] = me[q] /\ cache'[q] = cache[q]
  BY <1>2 DEF IndInv, Maps, IsMap
<1>4. me'[p] \in Identity \cup {NoOne}
  BY <1>2 DEF IndInv, ProcessInv, MemoryInv
<1> QED BY <1>1, <1>2, <1>3, <1>4, LeftAlone

-----------------------------------------------------------------------------
(* Requests that are posted. *)

\* From the menu, with the name typed if there is one.
LEMMA ChoiceInv ==
    ASSUME IndInv, NEW p \in Peer, NEW s, NEW locals \in CallType,
           NEW point \in Blocked \ {"key", "send"},
           Post(p, point, s, locals),
           UNCHANGED <<tables, me, cache, faults>>, sends' \in 0..MaxSends,
           point # "register" => me[p] # NoOne,
           point \in {"register", "lookup"} => locals.typed \in Name,
           s # {}, CodeOf(s) # "SEND_MESSAGE",
           CodeOf(s) = "REGISTER_CLIENT" =>
             NameOf(s) \in Name /\ KeyOf(s) \in Key
    PROVE  IndInv'
<1>1. \A e : Known(e)' <=> Known(e)
  BY DEF Known, tables
<1>2. /\ me[p] \in Identity \cup {NoOne}
      /\ cache[p] \subseteq Contact /\ \A e \in cache[p] : Known(e)
  BY DEF IndInv, ProcessInv, MemoryInv
<1>3. (pc'[p] = point /\ req'[p] = s /\ call'[p] = locals)
        => (MemoryInv(p)' /\ RequestInv(p)')
  <2> SUFFICES ASSUME pc'[p] = point, req'[p] = s, call'[p] = locals
               PROVE  MemoryInv(p)' /\ RequestInv(p)'
    OBVIOUS
  <2>1. MemoryInv(p)'
    BY <1>1, <1>2 DEF MemoryInv
  <2>2. RequestInv(p)'
    BY DEF RequestInv
  <2> QED BY <2>1, <2>2
<1>4. IsMap(me)' /\ IsMap(cache)'
  BY DEF IndInv, Maps, IsMap
<1> QED BY <1>3, <1>4, Posted

LEMMA ChooseInv ==
    ASSUME IndInv, NEW p \in Peer, Choose(p)
    PROVE  IndInv'
<1>1. sends \in 0..MaxSends /\ MaxSends \in Nat
  BY BoundsAssumption DEF IndInv, TableInv
<1>2. NoCall \in CallType
  BY DEF NoCall, CallType
<1>3. CASE Register(p)
  <2>1. PICK n \in Name, k \in Key :
          Post(p, "register", RegistrationRequest(n, k),
               [NoCall EXCEPT !.typed = n])
    BY <1>3 DEF Register
  <2>2. UNCHANGED <<tables, me, sends, cache, faults>>
    BY <1>3 DEF Register, local
  <2> DEFINE s == RegistrationRequest(n, k)
             locals == [NoCall EXCEPT !.typed = n]
  <2>3. Post(p, "register", s, locals)
    BY <2>1
  <2>4. /\ s # {} /\ CodeOf(s) = "REGISTER_CLIENT"
        /\ NameOf(s) \in Name /\ KeyOf(s) \in Key
    BY RegistrationRead
  <2>5. locals \in CallType /\ locals.typed \in Name
    BY DEF NoCall, CallType
  <2>6. "register" \in Blocked \ {"key", "send"}
    BY DEF Blocked
  <2> HIDE DEF s, locals
  <2> QED BY <1>1, <2>2, <2>3, <2>4, <2>5, <2>6, ChoiceInv
<1>4. CASE AskList(p) \/ AskUnread(p)
  <2>1. PICK point \in {"list", "fetch"},
             code \in {"GET_CLIENTS_LIST", "GET_UNREAD_MESSAGE"} :
          Post(p, point, RequestHeader(me[p].id, code, 0), NoCall)
    BY <1>4 DEF AskList, AskUnread
  <2>2. UNCHANGED <<tables, me, sends, cache, faults>> /\ me[p] # NoOne
    BY <1>4 DEF AskList, AskUnread, local, Chosen
  <2> DEFINE s == RequestHeader(me[p].id, code, 0)
  <2>3. s # {} /\ CodeOf(s) = code
    BY HeaderRead
  <2>4. /\ Post(p, point, s, NoCall)
        /\ point \in Blocked \ {"key", "send"}
        /\ point # "register" /\ point # "lookup"
        /\ code # "SEND_MESSAGE" /\ code # "REGISTER_CLIENT"
    BY <2>1 DEF Blocked
  <2> HIDE DEF s
  <2> QED BY <1>1, <1>2, <2>2, <2>3, <2>4, ChoiceInv
<1>5. CASE AskPublicKey(p)
  <2>1. PICK n \in Name :
          Post(p, "menukey", PublicKeyRequest(me[p].id, n), NoCall)
    BY <1>5 DEF AskPublicKey
  <2>2. UNCHANGED <<tables, me, sends, cache, faults>> /\ me[p] # NoOne
    BY <1>5 DEF AskPublicKey, local, Chosen
  <2> DEFINE s == PublicKeyRequest(me[p].id, n)
  <2>3. s # {} /\ CodeOf(s) = "GET_PUBLIC_KEY"
    BY PublicKeyRead
  <2>4. /\ Post(p, "menukey", s, NoCall)
        /\ "menukey" \in Blocked \ {"key", "send"}
    BY <2>1 DEF Blocked
  <2> HIDE DEF s
  <2> QED BY <1>1, <1>2, <2>2, <2>3, <2>4, ChoiceInv
<1>6. CASE Compose(p)
  <2>1. PICK n \in Name, t \in Type :
          Post(p, "lookup", RequestHeader(me[p].id, "GET_CLIENTS_LIST", 0),
               [NoCall EXCEPT !.typed = n, !.type = t])
    BY <1>6 DEF Compose
  <2>2. /\ UNCHANGED <<tables, me, cache, faults>> /\ me[p] # NoOne
        /\ sends' \in 0..MaxSends
    BY <1>1, <1>6 DEF Compose, Chosen
  <2> DEFINE s == RequestHeader(me[p].id, "GET_CLIENTS_LIST", 0)
             locals == [NoCall EXCEPT !.typed = n, !.type = t]
  <2>3. s # {} /\ CodeOf(s) = "GET_CLIENTS_LIST"
    BY HeaderRead
  <2>4. Post(p, "lookup", s, locals)
    BY <2>1
  <2>5. /\ locals \in CallType /\ locals.typed \in Name
        /\ "lookup" \in Blocked \ {"key", "send"}
        /\ CodeOf(s) # "SEND_MESSAGE" /\ CodeOf(s) # "REGISTER_CLIENT"
    BY <2>3 DEF Blocked, NoCall, CallType
  <2> HIDE DEF s, locals
  <2> QED BY <2>2, <2>3, <2>4, <2>5, ChoiceInv
<1> QED BY <1>3, <1>4, <1>5, <1>6 DEF Choose

\* A message, or the request for its recipient's key: the recipient is known
\* under the name typed.
LEMMA ForRecipient ==
    ASSUME IndInv, NEW p \in Peer, NEW s, NEW locals \in CallType,
           NEW point \in {"key", "send"},
           Post(p, point, s, locals),
           UNCHANGED <<tables, me, sends, faults>>, IsMap(cache)',
           \A q \in Peer \ {p} : cache'[q] = cache[q],
           cache'[p] \subseteq Contact, \A e \in cache'[p] : Known(e),
           me[p] \in Identity,
           locals.typed \in Name, locals.to \in Contact, Known(locals.to),
           locals.to.name = locals.typed,
           s # {}, CodeOf(s) # "REGISTER_CLIENT",
           CodeOf(s) = "SEND_MESSAGE" =>
             /\ point = "send"
             /\ ClientIdOf(s) \in Id
             /\ ToOf(s) = locals.to.id
    PROVE  IndInv'
<1>1. \A e : Known(e)' <=> Known(e)
  BY DEF Known, tables
<1>2. (pc'[p] = point /\ req'[p] = s /\ call'[p] = locals)
        => (MemoryInv(p)' /\ RequestInv(p)')
  <2> SUFFICES ASSUME pc'[p] = point, req'[p] = s, call'[p] = locals
               PROVE  MemoryInv(p)' /\ RequestInv(p)'
    OBVIOUS
  <2>1. MemoryInv(p)'
    BY <1>1 DEF MemoryInv, Blocked
  <2>2. RequestInv(p)'
    BY DEF RequestInv, Blocked
  <2> QED BY <2>1, <2>2
<1>3. IsMap(me)' /\ sends' \in 0..MaxSends
  BY DEF IndInv, Maps, IsMap, TableInv
<1> QED BY <1>2, <1>3, Posted

LEMMA KeyGotInv ==
    ASSUME IndInv, NEW p \in Peer, KeyGot(p)
    PROVE  IndInv'
<1> DEFINE s == SendMessageRequest(me[p].id, call[p].to.id, call[p].type, 0, 0)
<1>1. /\ Post(p, "send", s, call[p])
      /\ UNCHANGED <<tables, me, sends, cache, faults>> /\ pc[p] = "key"
  BY DEF KeyGot, local
<1>2. /\ CodeOf(s) = "SEND_MESSAGE" /\ s # {}
      /\ ClientIdOf(s) = me[p].id /\ ToOf(s) = call[p].to.id
  BY SendRead
<1>3. MemoryInv(p) /\ IsMap(cache)'
  BY <1>1 DEF IndInv, ProcessInv, Maps, IsMap
<1>4. /\ call[p] \in CallType /\ call[p].typed \in Name
      /\ call[p].to \in Contact /\ Known(call[p].to)
      /\ call[p].to.name = call[p].typed
      /\ me[p] \in Identity /\ me[p].id \in Id
      /\ cache[p] \subseteq Contact /\ \A e \in cache[p] : Known(e)
  BY <1>1, <1>3 DEF MemoryInv, Identity, Blocked
<1> HIDE DEF s
<1> QED BY <1>1, <1>2, <1>3, <1>4, ForRecipient

\* The recipient is found in the list that came, or in an earlier one.
LEMMA LookedUpInv ==
    ASSUME IndInv, NEW p \in Peer, LookedUp(p)
    PROVE  IndInv'
<1> DEFINE list == IF IsValidResponse(resp[p], "GET_CLIENTS_LIST_SUCCESS")
                   THEN {NewContact(c) : c \in resp[p].contacts}
                   ELSE cache[p]
           others == {e \in Named(list, call[p].typed) : e.id # me[p].id}
<1>1. pc[p] = "lookup" /\ MemoryInv(p)
  BY DEF LookedUp, IndInv, ProcessInv
<1>2. \A e \in list : e \in Contact /\ Known(e)
  BY <1>1, ListKnown DEF MemoryInv
<1>3. /\ cache' = [cache EXCEPT ![p] = list]
      /\ UNCHANGED <<tables, me, sends, faults>>
      /\ Leave(p, "menu") \/ \E e \in others : SendTo(p, e)
  BY DEF LookedUp
<1>4. /\ me[p] \in Identity /\ me[p].id \in Id /\ call[p] \in CallType
      /\ call[p].typed \in Name
  BY <1>1 DEF MemoryInv, Identity, Blocked
<1>5. \A e \in others : e \in Contact /\ Known(e) /\ e.name = call[p].typed
  BY <1>2 DEF Named
<1> HIDE DEF list, others
<1>6. /\ IsMap(cache)' /\ IsMap(me)' /\ cache'[p] = list
      /\ \A q \in Peer \ {p} : cache'[q] = cache[q] /\ me'[q] = me[q]
  BY <1>3 DEF IndInv, Maps, IsMap
<1>7. CASE Leave(p, "menu")
  BY <1>2, <1>3, <1>4, <1>6, <1>7, LeftAlone
<1>8. ASSUME NEW e \in others, SendTo(p, e)
      PROVE  IndInv'
  <2> DEFINE c == [call[p] EXCEPT !.to = e]
             id == me[p].id
  <2>1. /\ c \in CallType /\ c.typed = call[p].typed /\ c.to = e
    BY <1>4, <1>5, <1>8 DEF CallType
  <2>2. /\ [e EXCEPT !.sym = "generated"] \in Contact
        /\ [e EXCEPT !.sym = "generated"].name = e.name
        /\ Known([e EXCEPT !.sym = "generated"])
    BY <1>5, <1>8 DEF Contact, Known
  <2>3. e \in Contact /\ Known(e) /\ e.name = call[p].typed
    BY <1>5, <1>8
  <2> HIDE DEF c
  <2>4. /\ [c EXCEPT !.to.sym = "generated"] \in CallType
        /\ [c EXCEPT !.to.sym = "generated"].typed = call[p].typed
        /\ [c EXCEPT !.to.sym = "generated"].to
             = [e EXCEPT !.sym = "generated"]
    BY <2>1, <2>2 DEF CallType
  <2>5. ASSUME NEW n \in TextLength
         PROVE  /\ [c EXCEPT !.length = n] \in CallType
                /\ [c EXCEPT !.length = n].typed = call[p].typed
                /\ [c EXCEPT !.length = n].to = e
    BY <2>1 DEF CallType
  <2>6. ASSUME NEW s, NEW locals \in CallType,
               Post(p, "send", s, locals),
               locals.typed = call[p].typed, locals.to = e,
               CodeOf(s) = "SEND_MESSAGE", s # {},
               ClientIdOf(s) = id, ToOf(s) = e.id
        PROVE  IndInv'
    BY <1>2, <1>3, <1>4, <1>6, <2>3, <2>6, ForRecipient
  <2>7. CASE Post(p, "send", SendMessageRequest(id, e.id, c.type, 25, 0), c)
    BY <2>1, <2>6, <2>7, SendRead
  <2>8. CASE Post(p, "key", PublicKeyRequest(id, e.name),
                  [c EXCEPT !.to.sym = "generated"])
    <3> DEFINE s == PublicKeyRequest(id, e.name)
               locals == [c EXCEPT !.to.sym = "generated"]
    <3>1. s # {} /\ CodeOf(s) = "GET_PUBLIC_KEY"
      BY PublicKeyRead
    <3>2. /\ locals \in CallType /\ locals.typed \in Name
          /\ locals.to \in Contact /\ Known(locals.to)
          /\ locals.to.name = locals.typed
      BY <1>4, <2>2, <2>3, <2>4
    <3>3. Post(p, "key", s, locals)
      BY <2>8
    <3> HIDE DEF s, locals
    <3> QED BY <1>2, <1>3, <1>4, <1>6, <3>1, <3>2, <3>3, ForRecipient
  <2>9. ASSUME NEW n \in TextLength,
               Post(p, "send",
                    SendMessageRequest(id, e.id, c.type, CipherSize(n),
                                       MessageHeaderSize + CipherSize(n)),
                    [c EXCEPT !.length = n])
        PROVE  IndInv'
    <3> DEFINE s == SendMessageRequest(id, e.id, c.type, CipherSize(n),
                                       MessageHeaderSize + CipherSize(n))
               locals == [c EXCEPT !.length = n]
    <3>1. /\ CodeOf(s) = "SEND_MESSAGE" /\ s # {}
          /\ ClientIdOf(s) = id /\ ToOf(s) = e.id
      BY SendRead
    <3>2. /\ locals \in CallType /\ locals.typed = call[p].typed
          /\ locals.to = e
      BY <2>5
    <3>3. Post(p, "send", s, locals)
      BY <2>9
    <3> HIDE DEF s, locals
    <3> QED BY <2>6, <3>1, <3>2, <3>3
  <2> QED BY <1>8, <2>7, <2>8, <2>9 DEF SendTo, c
<1> QED BY <1>3, <1>7, <1>8

-----------------------------------------------------------------------------
(* The server. *)

\* A reply that is true when it is given, whatever becomes of the tables.
LEMMA Served ==
    ASSUME IndInv, NEW p \in Peer, NEW r \in Reply,
           resp' = [resp EXCEPT ![p] = r],
           UNCHANGED <<pc, call, req, local, cache>>,
           r.code = "GET_CLIENTS_LIST_SUCCESS" =>
             r.contacts \subseteq Identity /\ \A c \in r.contacts : Known(c),
           clients \subseteq clients', TableInv', LogInv'
    PROVE  IndInv'
<1>1. /\ resp'[p] = r /\ IsMap(resp)'
      /\ \A q \in Peer \ {p} : resp'[q] = resp[q]
  BY DEF IndInv, Maps, IsMap
<1>2. \A e : Known(e) => Known(e)'
  BY DEF Known
<1>3. MemoryInv(p) /\ RequestInv(p)
  BY DEF IndInv, ProcessInv
<1>4. UNCHANGED <<pc, me, cache, call, req>>
  BY DEF local
<1>5. MemoryInv(p)'
  BY <1>2, <1>3, <1>4 DEF MemoryInv
<1>6. RequestInv(p)'
  BY <1>3, <1>4 DEF RequestInv
<1>7. ReplyInv(p)'
  BY <1>1, <1>2 DEF ReplyInv
<1>8. \A q \in Peer : ProcessInv(q)'
  BY <1>1, <1>4, <1>5, <1>6, <1>7, Framed
<1>9. Maps'
  BY <1>1, <1>4 DEF IndInv, Maps, IsMap
<1> QED BY <1>8, <1>9 DEF IndInv

\* An answer arrives, or an error does.
LEMMA Answered ==
    ASSUME IndInv, NEW p \in Peer, NEW r \in Reply, Answer(p, r),
           r.code = "GET_CLIENTS_LIST_SUCCESS" =>
             r.contacts \subseteq Identity /\ \A c \in r.contacts : Known(c),
           UNCHANGED sends, clients \subseteq clients',
           clients' \subseteq ClientRow, messages' \subseteq MessageRow,
           \A q, s \in clients' : (q.name = s.name \/ q.id = s.id) => q = s,
           LogInv'
    PROVE  IndInv'
<1>1. faults' \in 0..MaxFaults /\ sends' \in 0..MaxSends
  BY BoundsAssumption DEF Answer, IndInv, TableInv
<1>2. TableInv'
  BY <1>1 DEF TableInv
<1>3. Error \in Reply /\ Error.code # "GET_CLIENTS_LIST_SUCCESS"
  BY DEF Reply, Error
<1>4. UNCHANGED <<pc, call, req, local, cache>>
  BY DEF Answer
<1>5. CASE resp' = [resp EXCEPT ![p] = r]
  BY <1>2, <1>4, <1>5, Served
<1>6. CASE resp' = [resp EXCEPT ![p] = Error]
  BY <1>2, <1>3, <1>4, <1>6, Served
<1> QED BY <1>5, <1>6 DEF Answer

\* Nothing new in the log.
LEMMA LogKept ==
    ASSUME IndInv, clients \subseteq clients', UNCHANGED log
    PROVE  LogInv'
BY DEF IndInv, LogInv, Known

LEMMA FailInv ==
    ASSUME IndInv, NEW p \in Peer, Fail(p)
    PROVE  IndInv'
<1>1. PICK e \in {Error, Silence} : resp' = [resp EXCEPT ![p] = e]
  BY DEF Fail
<1>2. e \in Reply /\ e.code # "GET_CLIENTS_LIST_SUCCESS"
  BY DEF Reply, Error, Silence
<1>3. /\ UNCHANGED <<clients, messages, log, sends>>
      /\ UNCHANGED <<pc, call, req, local, cache>>
  BY DEF Fail, tables, local
<1>4. faults' \in 0..MaxFaults
  BY BoundsAssumption DEF Fail, IndInv, TableInv
<1>5. TableInv' /\ LogInv'
  BY <1>3, <1>4, LogKept DEF IndInv, TableInv
<1> QED BY <1>1, <1>2, <1>3, <1>5, Served

LEMMA StarveInv ==
    ASSUME IndInv, NEW p \in Peer, Starve(p)
    PROVE  IndInv'
<1>1. Silence \in Reply /\ Silence.code # "GET_CLIENTS_LIST_SUCCESS"
  BY DEF Reply, Silence
<1>2. /\ resp' = [resp EXCEPT ![p] = Silence]
      /\ UNCHANGED <<clients, messages, log, sends, faults>>
      /\ UNCHANGED <<pc, call, req, local, cache>>
  BY DEF Starve, tables, local
<1>3. TableInv' /\ LogInv'
  BY <1>2, LogKept DEF IndInv, TableInv
<1> QED BY <1>1, <1>2, <1>3, Served

LEMMA RegisterInv ==
    ASSUME IndInv, NEW p \in Peer, ServeRegister(p)
    PROVE  IndInv'
<1> DEFINE n == NameOf(req[p])
           k == KeyOf(req[p])
<1>1. n \in Name /\ k \in Key
  BY DEF ServeRegister, Asked, IndInv, ProcessInv, RequestInv
<1>2. UNCHANGED <<messages, log>>
  BY DEF ServeRegister
<1> HIDE DEF n, k
<1>3. CASE Answer(p, Error) /\ UNCHANGED clients
  <2>1. Error \in Reply /\ Error.code # "GET_CLIENTS_LIST_SUCCESS"
    BY DEF Reply, Error
  <2>2. UNCHANGED sends
    BY <1>3 DEF Answer, local
  <2> QED
    BY <1>2, <1>3, <2>1, <2>2, LogKept, Answered DEF IndInv, TableInv
<1>4. ASSUME NEW i \in Id, ~ClientIdExists(clients, i),
             ~ClientNameExists(clients, n),
             clients' = InsertClient(clients, i, n, k),
             Answer(p, [code |-> "REGISTER_SUCCESS", size |-> ClientIdSize,
                        id |-> i])
      PROVE  IndInv'
  <2> DEFINE r == [code |-> "REGISTER_SUCCESS", size |-> ClientIdSize,
                   id |-> i]
  <2>1. r \in Reply /\ r.code # "GET_CLIENTS_LIST_SUCCESS"
    BY DEF Reply, ClientIdSize
  <2>2. UNCHANGED sends
    BY <1>4 DEF Answer, local
  <2>3. clients \subseteq clients' /\ clients' \subseteq ClientRow
    BY <1>1, <1>4 DEF InsertClient, ClientRow, IndInv, TableInv
  <2>4. \A q, s \in clients' : (q.name = s.name \/ q.id = s.id) => q = s
    BY <1>4 DEF InsertClient, ClientIdExists, ClientNameExists, IndInv, TableInv
  <2>5. LogInv' /\ messages' \subseteq MessageRow
    BY <1>2, <2>3, LogKept DEF IndInv, TableInv
  <2> HIDE DEF r
  <2> QED BY <1>4, <2>1, <2>2, <2>3, <2>4, <2>5, Answered DEF r
<1> QED BY <1>3, <1>4 DEF ServeRegister, n, k

LEMMA ListInv ==
    ASSUME IndInv, NEW p \in Peer, ServeList(p)
    PROVE  IndInv'
<1> DEFINE contacts ==
             {AsClient(r) : r \in {q \in clients : q.id # ClientIdOf(req[p])}}
           list == [code |-> "GET_CLIENTS_LIST_SUCCESS",
                    contacts |-> contacts]
<1>1. contacts \subseteq Identity /\ \A c \in contacts : Known(c)
  BY DEF AsClient, Identity, ClientRow, Known, IndInv, TableInv
<1>2. /\ Answer(p, IF contacts = {} THEN Error ELSE list)
      /\ UNCHANGED <<clients, messages, log>>
  BY DEF ServeList, tables
<1> HIDE DEF contacts
<1>3. /\ list \in Reply /\ list.contacts = contacts
      /\ Error \in Reply /\ Error.code # "GET_CLIENTS_LIST_SUCCESS"
  BY <1>1 DEF Reply, Error
<1> HIDE DEF list
<1>4. /\ UNCHANGED sends /\ LogInv'
      /\ clients \subseteq clients' /\ clients' \subseteq ClientRow
      /\ messages' \subseteq MessageRow
      /\ \A q, s \in clients' : (q.name = s.name \/ q.id = s.id) => q = s
  BY <1>2, LogKept DEF Answer, local, IndInv, TableInv
<1>5. CASE Answer(p, list)
  BY <1>1, <1>3, <1>4, <1>5, Answered
<1>6. CASE Answer(p, Error)
  BY <1>3, <1>4, <1>6, Answered
<1> QED BY <1>2, <1>5, <1>6

LEMMA PublicKeyInv ==
    ASSUME IndInv, NEW p \in Peer, ServePublicKey(p)
    PROVE  IndInv'
<1> DEFINE key == [code |-> "GET_PUBLIC_KEY_SUCCESS",
                   size |-> ClientIdSize + PublicKeySize]
<1>1. /\ key \in Reply /\ key.code # "GET_CLIENTS_LIST_SUCCESS"
      /\ Error \in Reply /\ Error.code # "GET_CLIENTS_LIST_SUCCESS"
  BY DEF Reply, Error, ClientIdSize, PublicKeySize
<1>2. /\ Answer(p, key) \/ Answer(p, Error)
      /\ UNCHANGED <<clients, messages, log>>
  BY DEF ServePublicKey, tables
<1> HIDE DEF key
<1>3. /\ UNCHANGED sends /\ LogInv'
      /\ clients \subseteq clients' /\ clients' \subseteq ClientRow
      /\ messages' \subseteq MessageRow
      /\ \A q, s \in clients' : (q.name = s.name \/ q.id = s.id) => q = s
  BY <1>2, LogKept DEF Answer, local, IndInv, TableInv
<1> QED BY <1>1, <1>2, <1>3, Answered

\* The message that is logged is for the recipient its sender found, who is
\* known under the name typed.
LEMMA SendInv ==
    ASSUME IndInv, NEW p \in Peer, ServeSend(p)
    PROVE  IndInv'
<1> DEFINE s == req[p]
           to == ToOf(s)
           from == ClientIdOf(s)
<1>1. /\ from \in Id /\ to = call[p].to.id
      /\ Known(call[p].to) /\ call[p].to.name = call[p].typed
  BY DEF ServeSend, Asked, IndInv, ProcessInv, RequestInv, MemoryInv
<1>2. UNCHANGED clients
  BY DEF ServeSend
<1>3. /\ clients \subseteq clients' /\ clients' \subseteq ClientRow
      /\ \A q, r \in clients' : (q.name = r.name \/ q.id = r.id) => q = r
  BY <1>2 DEF IndInv, TableInv
<1>4. CASE Answer(p, Error) /\ UNCHANGED <<messages, log>>
  <2>1. Error \in Reply /\ Error.code # "GET_CLIENTS_LIST_SUCCESS"
    BY DEF Reply, Error
  <2>2. UNCHANGED sends /\ LogInv' /\ messages' \subseteq MessageRow
    BY <1>3, <1>4, LogKept DEF Answer, local, IndInv, TableInv
  <2> QED BY <1>3, <1>4, <2>1, <2>2, Answered
<1>5. ASSUME ClientIdExists(clients, to), NEW i \in RowId,
             messages' = InsertMessage(messages, i, to, from),
             NEW l, log' = log \cup {l}, l.to = to, l.typed = call[p].typed,
             Answer(p, [code |-> "MESSAGE_SENT_SUCCESS",
                        size |-> ClientIdSize + MessageIdSize])
      PROVE  IndInv'
  <2> DEFINE r == [code |-> "MESSAGE_SENT_SUCCESS",
                   size |-> ClientIdSize + MessageIdSize]
  <2>1. r \in Reply /\ r.code # "GET_CLIENTS_LIST_SUCCESS"
    BY DEF Reply, ClientIdSize, MessageIdSize
  <2>2. to \in Id
    BY <1>5 DEF ClientIdExists, ClientRow, IndInv, TableInv
  <2>3. messages' \subseteq MessageRow
    BY <1>1, <1>5, <2>2 DEF InsertMessage, MessageRow, IndInv, TableInv
  <2>4. LogInv'
    BY <1>1, <1>2, <1>5 DEF LogInv, Known, IndInv
  <2>5. UNCHANGED sends
    BY <1>5 DEF Answer, local
  <2> HIDE DEF r, s, to, from
  <2> QED BY <1>3, <1>5, <2>1, <2>3, <2>4, <2>5, Answered DEF r
<1>6. CASE /\ ClientIdExists(clients, to)
           /\ \E i \in RowId :
                /\ messages' = InsertMessage(messages, i, to, from)
                /\ log' = log \cup
                     {[from |-> from, to |-> to, typed |-> call[p].typed,
                       type |-> TypeOf(s), key |-> call[p].to.sym,
                       content |-> ContentOf(s)]}
                /\ Answer(p, [code |-> "MESSAGE_SENT_SUCCESS",
                              size |-> ClientIdSize + MessageIdSize])
  <2> DEFINE l == [from |-> from, to |-> to, typed |-> call[p].typed,
                   type |-> TypeOf(s), key |-> call[p].to.sym,
                   content |-> ContentOf(s)]
  <2>1. l.to = to /\ l.typed = call[p].typed
    OBVIOUS
  <2>2. PICK i \in RowId :
          /\ messages' = InsertMessage(messages, i, to, from)
          /\ log' = log \cup {l}
          /\ Answer(p, [code |-> "MESSAGE_SENT_SUCCESS",
                        size |-> ClientIdSize + MessageIdSize])
    BY <1>6
  <2> HIDE DEF l, s, to, from
  <2> QED BY <1>5, <1>6, <2>1, <2>2
<1> QED BY <1>4, <1>6 DEF ServeSend

\* Whatever is deleted, what is answered are rows.
LEMMA UnreadInv ==
    ASSUME IndInv, NEW p \in Peer, ServeUnread(p)
    PROVE  IndInv'
<1> DEFINE rows == SelectUnread(messages, ClientIdOf(req[p]))
           reply(s) == [code |-> "GET_UNREAD_MESSAGES_SUCCESS", rows |-> s]
<1>1. rows \subseteq MessageRow
  BY DEF SelectUnread, IndInv, TableInv
<1>2. UNCHANGED <<clients, log>>
  BY DEF ServeUnread
<1>3. /\ LogInv' /\ clients \subseteq clients' /\ clients' \subseteq ClientRow
      /\ \A q, s \in clients' : (q.name = s.name \/ q.id = s.id) => q = s
  BY <1>2, LogKept DEF IndInv, TableInv
<1>4. CASE /\ resp' = [resp EXCEPT ![p] = Silence]
           /\ UNCHANGED <<messages, pc, call, req, local, cache, faults>>
  <2>1. Silence \in Reply /\ Silence.code # "GET_CLIENTS_LIST_SUCCESS"
    BY DEF Reply, Silence
  <2>2. TableInv'
    BY <1>2, <1>4 DEF IndInv, TableInv, local
  <2> QED BY <1>3, <1>4, <2>1, <2>2, Served
<1>5. ASSUME NEW some \in SUBSET MessageRow, messages' \subseteq messages,
             Answer(p, reply(some)) \/ Unnoticed(p, reply(some))
      PROVE  IndInv'
  <2> DEFINE r == reply(some)
  <2>1. r \in Reply /\ r.code # "GET_CLIENTS_LIST_SUCCESS"
    BY DEF Reply
  <2>2. messages' \subseteq MessageRow /\ UNCHANGED sends
    BY <1>5 DEF IndInv, TableInv, Answer, Unnoticed, local
  <2>3. Answer(p, r) \/ Unnoticed(p, r)
    BY <1>5
  <2> HIDE DEF r
  <2>4. CASE Answer(p, r)
    BY <1>3, <2>1, <2>2, <2>4, Answered
  <2>5. CASE Unnoticed(p, r)
    <3>1. faults' \in 0..MaxFaults
      BY <2>5, BoundsAssumption DEF Unnoticed, IndInv, TableInv
    <3>2. TableInv'
      BY <1>3, <2>2, <3>1 DEF IndInv, TableInv
    <3>3. PICK e \in {r, Error} : resp' = [resp EXCEPT ![p] = e]
      BY <2>5 DEF Unnoticed
    <3>4. e \in Reply /\ e.code # "GET_CLIENTS_LIST_SUCCESS"
      BY <2>1, <3>3 DEF Reply, Error
    <3> QED BY <1>3, <2>5, <3>2, <3>3, <3>4, Served DEF Unnoticed
  <2> QED BY <2>3, <2>4, <2>5
<1>6. \/ /\ resp' = [resp EXCEPT ![p] = Silence]
         /\ UNCHANGED <<messages, pc, call, req, local, cache, faults>>
      \/ \E some \in {rows, {}} :
           /\ messages' \subseteq messages
           /\ Answer(p, reply(some)) \/ Unnoticed(p, reply(some))
  <2> HIDE DEF rows
  <2> QED BY DEF ServeUnread, rows
<1> QED BY <1>1, <1>4, <1>5, <1>6

-----------------------------------------------------------------------------
(* The theorems. *)

LEMMA InitInv == Init => IndInv
<1> SUFFICES ASSUME Init PROVE IndInv
  OBVIOUS
<1>1. TableInv
  BY InitAssumption, BoundsAssumption DEF Init, TableInv
<1>2. LogInv
  BY DEF Init, LogInv
<1>3. Maps
  BY InitAssumption DEF Init, Maps, IsMap
<1>4. ASSUME NEW p \in Peer
      PROVE  ProcessInv(p)
  <2>1. NoCall \in CallType
    BY DEF NoCall, CallType
  <2>2. me[p] \in Identity \cup {NoOne}
    BY InitAssumption DEF Init
  <2>3. MemoryInv(p)
    BY <2>1, <2>2 DEF Init, MemoryInv, Blocked
  <2>4. RequestInv(p)
    BY NoRequest DEF Init, RequestInv, Blocked
  <2>5. ReplyInv(p)
    BY DEF Init, ReplyInv, Reply, Nothing
  <2> QED BY <2>3, <2>4, <2>5 DEF ProcessInv
<1> QED BY <1>1, <1>2, <1>3, <1>4 DEF IndInv

LEMMA StepInv == IndInv /\ [Next]_vars => IndInv'
<1> SUFFICES ASSUME IndInv, [Next]_vars PROVE IndInv'
  OBVIOUS
<1>1. CASE UNCHANGED vars
  <2>1. UNCHANGED <<clients, messages, pc, me, cache, call, req, resp, log,
                    sends, faults>>
    BY <1>1 DEF vars
  <2>2. TableInv' /\ LogInv' /\ Maps'
    BY <2>1 DEF IndInv, TableInv, LogInv, Known, Maps, IsMap
  <2>3. \A p \in Peer : ProcessInv(p)'
    BY <2>1 DEF IndInv, ProcessInv, MemoryInv, RequestInv, ReplyInv, Known
  <2> QED BY <2>2, <2>3 DEF IndInv
<1>2. ASSUME NEW p \in Process,
             \/ Start(p) \/ Stop(p) \/ Choose(p) \/ Resume(p)
             \/ Fail(p) \/ Starve(p)
      PROVE  IndInv'
  <2> p \in Peer
    BY DEF Peer
  <2>1. CASE Start(p) \/ Stop(p)
    BY <2>1, AloneInv
  <2>2. CASE Choose(p)
    BY <2>2, ChooseInv
  <2>3. CASE Resume(p)
    BY <2>3, AloneInv, RegisteredInv, ListedInv, LookedUpInv, KeyGotInv
       DEF Resume
  <2>4. CASE Fail(p) \/ Starve(p)
    BY <2>4, FailInv, StarveInv
  <2> QED BY <1>2, <2>1, <2>2, <2>3, <2>4
<1>3. ASSUME NEW p \in Process, NEW o \in Orphan, Abandon(p, o) \/ Reset(p, o)
      PROVE  IndInv'
  BY <1>3, EndedInv
<1>4. ASSUME NEW o \in Orphan, Forget(o) PROVE IndInv'
  BY <1>4, ForgetInv
<1>5. ASSUME NEW c \in Peer, Serve(c) PROVE IndInv'
  BY <1>5, RegisterInv, ListInv, PublicKeyInv, SendInv, UnreadInv DEF Serve
<1> QED BY <1>1, <1>2, <1>3, <1>4, <1>5 DEF Next

\* What the handlers carry between requests is known, whatever fails.
THEOREM Invariance == Spec => []IndInv
<1> QED BY InitInv, StepInv, PTL DEF Spec

\* Whoever is known is the one client with that id, and with that name.
LEMMA KnownName ==
    ASSUME TableInv, NEW e, Known(e)
    PROVE  IsNameOf(e.name, e.id)
BY DEF TableInv, Known, IsNameOf, ClientIdExists

\* The type invariant, for every number of processes, clients and faults.
THEOREM TypeCorrect == Spec => []TypeOK
<1>1. IndInv => TypeOK
  <2> SUFFICES ASSUME IndInv PROVE TypeOK
    OBVIOUS
  <2>1. \A p \in Peer : MemoryInv(p) /\ RequestInv(p) /\ ReplyInv(p)
    BY DEF IndInv, ProcessInv
  <2>2. /\ pc \in [Peer -> {"off", "menu", "crashed", "reset"} \cup Blocked]
        /\ me \in [Peer -> Identity \cup {NoOne}]
    BY <2>1 DEF IndInv, Maps, IsMap, MemoryInv
  <2>3. cache \in [Peer -> SUBSET Contact] /\ call \in [Peer -> CallType]
    BY <2>1 DEF IndInv, Maps, IsMap, MemoryInv
  <2>4. resp \in [Peer -> Reply]
    BY <2>1 DEF IndInv, Maps, IsMap, ReplyInv
  <2>5. \A p \in Peer : req[p] # {} <=> pc[p] \in Blocked
    BY <2>1 DEF RequestInv
  <2> QED
    BY <2>2, <2>3, <2>4, <2>5 DEF IndInv, TableInv, TypeOK, CallType
<1> QED BY <1>1, Invariance, PTL

\* An accepted message is for the client registered under the name its sender
\* typed, although the id may come from an old list.
THEOREM AddressedRight == Spec => []AddressedToNamed
<1>1. IndInv => AddressedToNamed
  <2> SUFFICES ASSUME IndInv, NEW l \in log
               PROVE  IsNameOf(l.typed, l.to)
    BY DEF AddressedToNamed
  <2> DEFINE e == [id |-> l.to, name |-> l.typed]
  <2>1. Known(e) /\ TableInv
    BY DEF IndInv, LogInv
  <2>2. e.id = l.to /\ e.name = l.typed
    OBVIOUS
  <2>3. IsNameOf(e.name, e.id)
    <3> HIDE DEF e
    <3> QED BY <2>1, KnownName
  <2> QED BY <2>2, <2>3
<1> QED BY <1>1, Invariance, PTL

\* No message is shown under the name of a client that did not send it.
THEOREM SendersTrue == Spec => []SenderShownTrue
<1>1. IndInv => SenderShownTrue
  <2> SUFFICES ASSUME IndInv, NEW p \in Process, NEW i,
                      NEW label, label = Sender(cache[p], i)
               PROVE  label = "Unknown" \/ IsNameOf(label, i)
    BY DEF SenderShownTrue
  <2> p \in Peer
    BY DEF Peer
  <2>1. CASE \E e \in cache[p] : e.id = i
    <3> DEFINE e == CHOOSE f \in cache[p] : f.id = i
    <3>1. e \in cache[p] /\ e.id = i
      BY <2>1
    <3>2. label = e.name
      BY <2>1 DEF Sender
    <3> HIDE DEF e
    <3>3. Known(e) /\ TableInv
      BY <3>1 DEF IndInv, ProcessInv, MemoryInv
    <3> QED BY <3>1, <3>2, <3>3, KnownName
  <2>2. CASE ~\E e \in cache[p] : e.id = i
    BY <2>2 DEF Sender
  <2> QED BY <2>1, <2>2
<1> QED BY <1>1, Invariance, PTL

=============================================================================
