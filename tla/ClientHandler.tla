--------------------------- MODULE ClientHandler ---------------------------
(***************************************************************************)
(* Sessions of several client processes with the server.                   *)
(*                                                                         *)
(* A process is at its menu, or a handler of it is blocked in              *)
(* socketWrapper until the reply to its request is there.  Between the two *)
(* steps of a request the other processes and the server go on, so that    *)
(* what the handler knows (the cached list, the copy of the recipient it   *)
(* took from it) may be out of date.                                       *)
(*                                                                         *)
(* A process may end at any point.  What it has asked for stays in the     *)
(* socket and is served later, to nobody, unless the end of the connection *)
(* throws it away: such requests are kept with the connections in Orphan.  *)
(*                                                                         *)
(* The server is what Mailbox promises of it: a request has its effect in  *)
(* one step, or none, and is answered, refused, cut off or never answered. *)
(* me.info is kept whole: what can befall it is in Registration.           *)
(***************************************************************************)
EXTENDS DBHandler, Protocol, FiniteSets

CONSTANTS
    Process,       \* the client processes
    Orphan,        \* connections whose process has ended; bounds their number
    Type,          \* the message types that users choose
    TextLength,    \* lengths of the texts that users type
    InitClients, InitMessages,   \* server.db
    InitMe,        \* InitMe[p]: the identity in the me.info of p, or NoOne
    MaxSends,      \* bound on the messages that processes set out to send
    MaxFaults      \* bound on the failures of server and network

ASSUME BoundsAssumption == MaxSends \in Nat /\ MaxFaults \in Nat
ASSUME OrphanAssumption == Process \cap Orphan = {}
ASSUME IdAssumption     == "none" \notin Id  \* it stands for no id: see NoOne

\* getCleanInput asks again until it has a line (ClientUI.cpp:51-62), so that
\* handleSendMsgRequest never meets the empty text it provides for.
ASSUME TextAssumption   == TextLength \subseteq Nat \ {0}

\* Whoever the server has a connection with.
Peer == Process \cup Orphan

MessageType ==
    {"REQUEST_SYM_KEY", "SEND_SYM_KEY", "TEXT_MESSAGE", "FILE_MSG"}

ASSUME TypeAssumption == Type \subseteq MessageType

NoOne    == [id |-> "none", name |-> "none"]
Identity == [id: Id, name: Name]
AsClient(r) == [id |-> r.id, name |-> r.name]

ASSUME InitAssumption ==
    /\ InitClients \subseteq ClientRow
    /\ InitMessages \subseteq MessageRow
    /\ \A r, q \in InitClients : (r.name = q.name \/ r.id = q.id) => r = q
    /\ \A m \in InitMessages :
         {m.to, m.from} \subseteq {r.id : r \in InitClients}
    /\ \A m, n \in InitMessages : m.id = n.id => m = n
    /\ InitMe \in [Process -> Identity \cup {NoOne}]
    /\ \A p \in Process : InitMe[p] # NoOne =>
         \E r \in InitClients : AsClient(r) = InitMe[p]

VARIABLES
    clients, messages,  \* the server's tables
    pc,      \* pc[p]: "off", "menu", "crashed", or the request p is blocked
             \* in; of an orphan: the request left, or "reset"
    me,      \* me[p]: m_this, also in me.info
    cache,   \* cache[p]: m_clients
    call,    \* call[p]: locals of the handler p is in
    req,     \* req[p]: the request p has sent
    resp,    \* resp[p]: the reply to it, or what came instead
    log,     \* history: the messages the server accepted
    sends,   \* messages that processes may still set out to send
    faults   \* failures that may still happen

tables == <<clients, messages, log>>
local  == <<me, sends>>
vars   == <<clients, messages, pc, me, cache, call, req, resp, log, sends,
            faults>>

Nothing == [code |-> "NOTHING"]
Error   == [code |-> "GENERIC_ERROR"]  \* or a connection or read that fails
Silence == [code |-> "SILENCE"]        \* neither a reply nor an end

\* Client: what m_clients holds of a client, and what a handler copies.
Contact    == [id: Id, name: Name, sym: {"zeros", "generated"}]
NewContact(c) == [id |-> c.id, name |-> c.name, sym |-> "zeros"]
NoContact  == [id |-> "none", name |-> "none", sym |-> "none"]

\* Locals of a handler: the name typed, the type and the length of a message,
\* and the copy of its recipient.
NoCall == [typed |-> "none", type |-> "NONE_MESSAGE", length |-> 0,
           to |-> NoContact]

Blocked == {"register", "list", "menukey", "fetch", "lookup", "key", "send"}
Init ==
    /\ clients = InitClients
    /\ messages = InitMessages
    /\ pc = [p \in Peer |-> "off"]
    /\ me = [p \in Peer |-> IF p \in Process THEN InitMe[p] ELSE NoOne]
    /\ cache = [p \in Peer |-> {}]
    /\ call = [p \in Peer |-> NoCall]
    /\ req = [p \in Peer |-> {}]
    /\ resp = [p \in Peer |-> Nothing]
    /\ log = {}
    /\ sends = MaxSends
    /\ faults = MaxFaults

-----------------------------------------------------------------------------
(* How a handler goes on: it posts a request and blocks, or it is left.     *)

Post(p, point, s, locals) ==
    /\ pc' = [pc EXCEPT ![p] = point]
    /\ req' = [req EXCEPT ![p] = s]
    /\ resp' = [resp EXCEPT ![p] = Nothing]
    /\ call' = [call EXCEPT ![p] = locals]

MutLeave(p, point) == Post(p, point, req[p], NoCall)

Leave(p, point) == Post(p, point, {}, NoCall)

\* The process ends, and what it had in memory goes.
Exit(p, point) ==
    /\ Leave(p, point)
    /\ cache' = [cache EXCEPT ![p] = {}]
    /\ UNCHANGED <<tables, local, faults>>

\* An option is taken from the menu; only an unregistered client may register,
\* and it may do nothing else.
Chosen(p, registered) ==
    /\ pc[p] = "menu"
    /\ registered <=> me[p] # NoOne

-----------------------------------------------------------------------------
(* Mutations of the operators below; nothing but the mutant runs uses them. *)

MutNamed(list, n)  == list
MutSender(list, i) ==
    IF \E e \in list : e.id # i
    THEN (CHOOSE e \in list : e.id # i).name
    ELSE "Unknown"
MutFailed(p) ==
    /\ pc[p] \in Blocked \ {"lookup", "send"}
    /\ resp[p] = Error
    /\ Exit(p, "off")

-----------------------------------------------------------------------------
(* The process and its menu. *)

\* The constructor.  m_clients is empty; m_this is read from me.info.
Start(p) ==
    /\ pc[p] \in {"off", "crashed"}
    /\ Leave(p, "menu")
    /\ UNCHANGED <<tables, local, cache, faults>>

\* EXIT, or the end of the process at any point.  A request that is still in
\* the socket is thrown away with it, has no effect, or goes to Abandon.
Stop(p) ==
    /\ pc[p] \in Blocked \cup {"menu"}
    /\ Exit(p, "off")

\* The process ends while a request with an effect waits in the socket, where
\* the server will find it: data first, then the end (server.py:63-86).
Abandon(p, o) ==
    /\ pc[p] \in {"register", "fetch", "send"}
    /\ resp[p] = Nothing
    /\ pc[o] = "off"
    /\ pc' = [pc EXCEPT ![p] = "off", ![o] = pc[p]]
    /\ me' = [me EXCEPT ![o] = me[p]]
    /\ call' = [call EXCEPT ![p] = NoCall, ![o] = call[p]]
    /\ req' = [req EXCEPT ![p] = {}, ![o] = req[p]]
    /\ cache' = [cache EXCEPT ![p] = {}]
    /\ UNCHANGED <<tables, resp, sends, faults>>

\* The process ends while the server has its connection, which is reset: the
\* request is gone, and recv raises at every turn of the loop.
Reset(p, o) ==
    /\ pc[p] \in Blocked
    /\ resp[p] \in {Nothing, Silence}
    /\ pc[o] = "off"
    /\ pc' = [pc EXCEPT ![p] = "off", ![o] = "reset"]
    /\ call' = [call EXCEPT ![p] = NoCall]
    /\ req' = [req EXCEPT ![p] = {}]
    /\ resp' = [resp EXCEPT ![p] = Nothing]
    /\ cache' = [cache EXCEPT ![p] = {}]
    /\ UNCHANGED <<tables, local, faults>>

\* The server is done with the connection, or has lost it by a restart.
Forget(o) ==
    /\ pc[o] # "off"
    /\ Leave(o, "off")
    /\ me' = [me EXCEPT ![o] = NoOne]
    /\ UNCHANGED <<tables, cache, sends, faults>>

Register(p) ==
    /\ Chosen(p, FALSE)
    /\ \E n \in Name, k \in Key :
         Post(p, "register", RegistrationRequest(n, k),
              [NoCall EXCEPT !.typed = n])
    /\ UNCHANGED <<tables, local, cache, faults>>

AskList(p) ==
    /\ Chosen(p, TRUE)
    /\ Post(p, "list", RequestHeader(me[p].id, "GET_CLIENTS_LIST", 0), NoCall)
    /\ UNCHANGED <<tables, local, cache, faults>>

AskPublicKey(p) ==
    /\ Chosen(p, TRUE)
    /\ \E n \in Name :
         Post(p, "menukey", PublicKeyRequest(me[p].id, n), NoCall)
    /\ UNCHANGED <<tables, local, cache, faults>>

AskUnread(p) ==
    /\ Chosen(p, TRUE)
    /\ Post(p, "fetch", RequestHeader(me[p].id, "GET_UNREAD_MESSAGE", 0),
            NoCall)
    /\ UNCHANGED <<tables, local, cache, faults>>

\* handleSendMsgRequest up to its list request.
Compose(p) ==
    /\ Chosen(p, TRUE)
    /\ sends > 0
    /\ sends' = sends - 1
    /\ \E n \in Name, t \in Type :
         Post(p, "lookup", RequestHeader(me[p].id, "GET_CLIENTS_LIST", 0),
              [NoCall EXCEPT !.typed = n, !.type = t])
    /\ UNCHANGED <<tables, me, cache, faults>>

-----------------------------------------------------------------------------
(* What a handler does with a reply. *)

\* sizeof the response that belongs to a code, without the header; the other
\* two replies are of any size.
ExpectedSize ==
    [REGISTER_SUCCESS |-> ClientIdSize,
     GET_PUBLIC_KEY_SUCCESS |-> ClientIdSize + PublicKeySize,
     MESSAGE_SENT_SUCCESS |-> ClientIdSize + MessageIdSize]

IsValidResponse(r, code) ==
    /\ r.code = code
    /\ code \in DOMAIN ExpectedSize => r.size = ExpectedSize[code]

\* getClient by name and by id.
Named(list, n) == {e \in list : e.name = n}

\* The name printed for the sender i of a message.
Sender(list, i) ==
    IF \E e \in list : e.id = i
    THEN (CHOOSE e \in list : e.id = i).name
    ELSE "Unknown"

Registered(p) ==
    /\ pc[p] = "register"
    /\ IsValidResponse(resp[p], "REGISTER_SUCCESS")
    /\ me' = [me EXCEPT ![p] = [id |-> resp[p].id, name |-> call[p].typed]]
    /\ Leave(p, "menu")
    /\ UNCHANGED <<tables, cache, sends, faults>>

\* The list replaces the cached one; its contacts have no keys.
Listed(p) ==
    /\ pc[p] = "list"
    /\ IsValidResponse(resp[p], "GET_CLIENTS_LIST_SUCCESS")
    /\ cache' = [cache EXCEPT ![p] = {NewContact(c) : c \in resp[p].contacts}]
    /\ Leave(p, "menu")
    /\ UNCHANGED <<tables, me, sends, faults>>

\* From the menu there is no client to store the key in: client is NULL.
MenuKeyGot(p) ==
    /\ pc[p] = "menukey"
    /\ IsValidResponse(resp[p], "GET_PUBLIC_KEY_SUCCESS")
    /\ Exit(p, "crashed")

\* Each message is printed with its Sender.  None is decrypted, because no
\* contact has a key.
Fetched(p) ==
    /\ pc[p] = "fetch"
    /\ IsValidResponse(resp[p], "GET_UNREAD_MESSAGES_SUCCESS")
    /\ Leave(p, "menu")
    /\ UNCHANGED <<tables, local, cache, faults>>

\* The rest of handleSendMsgRequest, with what the switch does for each type.
\* The recipient is copied, and the key generated for it stays in the copy.
SendTo(p, e) ==
    LET c == [call[p] EXCEPT !.to = e]
        id == me[p].id IN
    \/ /\ c.type = "REQUEST_SYM_KEY"
       /\ Post(p, "send", SendMessageRequest(id, e.id, c.type, 25, 0), c)
    \/ /\ c.type = "SEND_SYM_KEY"
       /\ Post(p, "key", PublicKeyRequest(id, e.name),
               [c EXCEPT !.to.sym = "generated"])
    \/ /\ c.type \in {"TEXT_MESSAGE", "FILE_MSG"}
       /\ \E n \in TextLength :
            LET size == CipherSize(n) IN
            Post(p, "send", SendMessageRequest(id, e.id, c.type, size,
                                               MessageHeaderSize + size),
                 [c EXCEPT !.length = n])

\* The list request's result is ignored: after a failure the recipient is
\* looked up in the list of an earlier one.
LookedUp(p) ==
    /\ pc[p] = "lookup"
    /\ resp[p] \notin {Nothing, Silence}
    /\ LET list == IF IsValidResponse(resp[p], "GET_CLIENTS_LIST_SUCCESS")
                   THEN {NewContact(c) : c \in resp[p].contacts}
                   ELSE cache[p]
           others == {e \in Named(list, call[p].typed) : e.id # me[p].id} IN
       /\ cache' = [cache EXCEPT ![p] = list]
       /\ \/ others = {} /\ Leave(p, "menu")
          \/ \E e \in others : SendTo(p, e)
    /\ UNCHANGED <<tables, me, sends, faults>>

\* SEND_SYM_KEY: nothing is put in the content.
KeyGot(p) ==
    /\ pc[p] = "key"
    /\ IsValidResponse(resp[p], "GET_PUBLIC_KEY_SUCCESS")
    /\ Post(p, "send", SendMessageRequest(me[p].id, call[p].to.id,
                                          call[p].type, 0, 0), call[p])
    /\ UNCHANGED <<tables, local, cache, faults>>

MessageSent(p) ==
    /\ pc[p] = "send"
    /\ IsValidResponse(resp[p], "MESSAGE_SENT_SUCCESS")
    /\ Leave(p, "menu")
    /\ UNCHANGED <<tables, local, cache, faults>>

\* Any other handler returns false, and the menu loop ends.
Failed(p) ==
    /\ pc[p] \in Blocked \ {"lookup"}
    /\ resp[p] = Error
    /\ Exit(p, "off")

-----------------------------------------------------------------------------
(* The server: one step for each request, and what can befall it. *)

\* The server's checks of the sender and of the message type are left out
\* here, because these clients pass them: whoever has an id is registered and
\* stays so, and every MessageType is valid.
Asked(p, code) ==
    /\ pc[p] \in Blocked
    /\ resp[p] = Nothing
    /\ CodeOf(req[p]) = code

\* The reply is written and arrives, unless nobody is there any more; or the
\* effect is there and the reply is not.
Answer(p, r) ==
    /\ \/ /\ resp' = [resp EXCEPT ![p] = IF p \in Process THEN r ELSE Error]
          /\ UNCHANGED faults
       \/ /\ faults > 0
          /\ faults' = faults - 1
          /\ resp' = [resp EXCEPT ![p] = Error]
    /\ UNCHANGED <<pc, call, req, local, cache>>

\* Nothing is done: a database call failed, the handler raised, the server
\* crashed or could not be reached.  The end of the server also ends a silence.
Fail(p) ==
    /\ pc[p] \in Blocked
    /\ resp[p] \in {Nothing, Silence}
    /\ faults > 0
    /\ faults' = faults - 1
    /\ \E e \in {Error, Silence} : resp' = [resp EXCEPT ![p] = e]
    /\ UNCHANGED <<tables, pc, call, req, local, cache>>

\* A reset socket that stays registered aborts every turn of the loop before
\* it comes to this request (server.py:48-53).
Starve(p) ==
    /\ pc[p] \in Blocked
    /\ resp[p] = Nothing
    /\ \E o \in Orphan : pc[o] = "reset"
    /\ resp' = [resp EXCEPT ![p] = Silence]
    /\ UNCHANGED <<tables, pc, call, req, local, cache, faults>>

ServeRegister(p) ==
    LET n == NameOf(req[p]) IN
    /\ Asked(p, "REGISTER_CLIENT")
    /\ IF ClientNameExists(clients, n)
       THEN Answer(p, Error) /\ UNCHANGED clients
       ELSE \E i \in Id :
              /\ ~ClientIdExists(clients, i)
              /\ clients' = InsertClient(clients, i, n, KeyOf(req[p]))
              /\ Answer(p, [code |-> "REGISTER_SUCCESS",
                            size |-> ClientIdSize, id |-> i])
    /\ UNCHANGED <<messages, log>>

\* An empty list packs to an empty reply, which is taken for a failure.
ServeList(p) ==
    LET contacts ==
          {AsClient(r) : r \in {q \in clients : q.id # ClientIdOf(req[p])}} IN
    /\ Asked(p, "GET_CLIENTS_LIST")
    /\ Answer(p, IF contacts = {} THEN Error
                 ELSE [code |-> "GET_CLIENTS_LIST_SUCCESS",
                       contacts |-> contacts])
    /\ UNCHANGED tables

ServePublicKey(p) ==
    /\ Asked(p, "GET_PUBLIC_KEY")
    /\ Answer(p, IF ClientNameExists(clients, NameOf(req[p]))
                 THEN [code |-> "GET_PUBLIC_KEY_SUCCESS",
                       size |-> ClientIdSize + PublicKeySize]
                 ELSE Error)
    /\ UNCHANGED tables

\* The log keeps what the sender meant with what the server stored.
ServeSend(p) ==
    LET s == req[p]  to == ToOf(s)  from == ClientIdOf(s) IN
    /\ Asked(p, "SEND_MESSAGE")
    /\ IF Unpacks(s) /\ ClientIdExists(clients, to)
       THEN \E i \in RowId :
              /\ IsNextRowId(messages, i)
              /\ messages' = InsertMessage(messages, i, to, from)
              /\ log' = log \cup
                   {[from |-> from, to |-> to, typed |-> call[p].typed,
                     type |-> TypeOf(s), key |-> call[p].to.sym,
                     content |-> ContentOf(s)]}
              /\ Answer(p, [code |-> "MESSAGE_SENT_SUCCESS",
                            size |-> ClientIdSize + MessageIdSize])
       ELSE Answer(p, Error) /\ UNCHANGED <<messages, log>>
    /\ UNCHANGED clients

\* A failure that the reply does not show.
Unnoticed(p, r) ==
    /\ faults > 0
    /\ faults' = faults - 1
    /\ resp' = [resp EXCEPT ![p] = IF p \in Process THEN r ELSE Error]
    /\ UNCHANGED <<pc, call, req, local, cache>>

\* The handler raises over a content that is bytes; otherwise the rows are
\* deleted once they are written, unless a delete fails or the server ends
\* first.  When the query fails there seems to be nothing to fetch.
ServeUnread(p) ==
    LET rows == SelectUnread(messages, ClientIdOf(req[p]))
        readable == \A m \in rows : m.content # "bytes"
        reply(s) == [code |-> "GET_UNREAD_MESSAGES_SUCCESS", rows |-> s] IN
    /\ Asked(p, "GET_UNREAD_MESSAGE")
    /\ \/ /\ ~readable
          /\ resp' = [resp EXCEPT ![p] = Silence]
          /\ UNCHANGED <<messages, pc, call, req, local, cache, faults>>
       \/ /\ readable
          /\ messages' = messages \ rows
          /\ Answer(p, reply(rows))
       \/ /\ readable
          /\ \E gone \in SUBSET rows : messages' = messages \ gone
          /\ Unnoticed(p, reply(rows))
       \/ UNCHANGED messages /\ Unnoticed(p, reply({}))
    /\ UNCHANGED <<clients, log>>

-----------------------------------------------------------------------------

Choose(p) == \/ Register(p) \/ AskList(p) \/ AskPublicKey(p)
             \/ AskUnread(p) \/ Compose(p)

Resume(p) == \/ Registered(p) \/ Listed(p) \/ MenuKeyGot(p) \/ Fetched(p)
             \/ LookedUp(p) \/ KeyGot(p) \/ MessageSent(p) \/ Failed(p)

Serve(p) == \/ ServeRegister(p) \/ ServeList(p) \/ ServePublicKey(p)
            \/ ServeSend(p) \/ ServeUnread(p)

Next == \/ \E p \in Process :
             \/ Start(p) \/ Stop(p) \/ Choose(p) \/ Resume(p)
             \/ Fail(p) \/ Starve(p)
             \/ \E o \in Orphan : Abandon(p, o) \/ Reset(p, o)
        \/ \E o \in Orphan : Forget(o)
        \/ \E c \in Peer : Serve(c)

Spec == Init /\ [][Next]_vars

\* A process that is not blocked runs, and the server comes to each request
\* that waits: module Server shows it of requests that do not raise, unless a
\* reset socket stays for ever (QuietRequestsConcluded); ServeUnread says which
\* ones do, and Starve is the exception.
FairSpec == Spec /\ \A p \in Process : WF_vars(Resume(p)) /\ WF_vars(Serve(p))

-----------------------------------------------------------------------------
(* What a process and the server do together, told in names: Messenger.     *)

NameWithId(i) == (CHOOSE r \in clients : r.id = i).name
ByName(rows)  == {[id |-> m.id, to |-> NameWithId(m.to),
                   from |-> NameWithId(m.from)] : m \in rows}

Users     == {r.name : r \in clients}
GoesBy(p) == IF me[p] = NoOne THEN {} ELSE {me[p].name}
Given(p)  == IF resp[p].code = "REGISTER_SUCCESS" THEN {call[p].typed} ELSE {}
Handed(p) == IF resp[p].code = "GET_UNREAD_MESSAGES_SUCCESS"
             THEN {ByName(resp[p].rows)} ELSE {}

\* From the choice of the recipient until the server has the message or has
\* refused it.
WritesTo(p) ==
    IF pc[p] \in {"lookup", "key"} \/ (pc[p] = "send" /\ resp[p] = Nothing)
    THEN {call[p].typed} ELSE {}

\* What a process that has ended was at, while it waits to be served.
LeftBy(o) == IF pc[o] \in Blocked /\ resp[o] = Nothing
             THEN {[as |-> GoesBy(o), to |-> WritesTo(o)]} ELSE {}

Messenger == INSTANCE Messenger WITH
    Person <- Process,  Shadow <- Orphan,  MessageId <- RowId,
    InitUsers <- {r.name : r \in InitClients},
    InitMail <- {[id |-> m.id,
                  to |-> (CHOOSE r \in InitClients : r.id = m.to).name,
                  from |-> (CHOOSE r \in InitClients : r.id = m.from).name] :
                   m \in InitMessages},
    InitSession <- [p \in Process |-> IF InitMe[p] = NoOne THEN {}
                                      ELSE {InitMe[p].name}],
    MaxFailures <- MaxFaults,
    users <- Users,
    mail <- ByName(messages),
    session <- [p \in Process |-> GoesBy(p)],
    offer <- [p \in Process |-> Given(p)],
    draft <- [p \in Process |-> WritesTo(p)],
    left <- [o \in Orphan |-> LeftBy(o)],
    hand <- [p \in Process |-> Handed(p)],
    failures <- faults

-----------------------------------------------------------------------------
(* Properties. *)

Reply ==
    {Nothing, Error, Silence}
      \cup [code: {"REGISTER_SUCCESS"}, size: Nat, id: Id]
      \cup [code: {"GET_CLIENTS_LIST_SUCCESS"}, contacts: SUBSET Identity]
      \cup [code: {"GET_PUBLIC_KEY_SUCCESS", "MESSAGE_SENT_SUCCESS"},
            size: Nat]
      \cup [code: {"GET_UNREAD_MESSAGES_SUCCESS"}, rows: SUBSET MessageRow]

TypeOK ==
    /\ clients \subseteq ClientRow
    /\ messages \subseteq MessageRow
    /\ pc \in [Peer -> {"off", "menu", "crashed", "reset"} \cup Blocked]
    /\ me \in [Peer -> Identity \cup {NoOne}]
    /\ cache \in [Peer -> SUBSET Contact]
    /\ call \in [Peer ->
                  [typed: Name \cup {"none"}, type: Type \cup {"NONE_MESSAGE"},
                   length: TextLength \cup {0}, to: Contact \cup {NoContact}]]
    /\ \A p \in Peer : req[p] # {} <=> pc[p] \in Blocked
    /\ resp \in [Peer -> Reply]
    /\ sends \in 0..MaxSends
    /\ faults \in 0..MaxFaults

\* The client with the id i, and nobody else, is registered as n.
IsNameOf(n, i) == /\ ClientIdExists(clients, i)
                  /\ \A r \in clients : r.id = i <=> r.name = n

\* A message that the server accepted is for the client that is registered
\* under the name its sender typed, although the id comes from a list that may
\* be older, from an earlier request when the last one failed, and from a copy.
AddressedToNamed == \A l \in log : IsNameOf(l.typed, l.to)

\* Nobody's message is shown under the name of another, although the names
\* come from a list that may be older than the messages or was never asked
\* for.
SenderShownTrue ==
    \A p \in Process :
        resp[p].code = "GET_UNREAD_MESSAGES_SUCCESS" =>
            \A m \in resp[p].rows :
                LET label == Sender(cache[p], m.from) IN
                label = "Unknown" \/ IsNameOf(label, m.from)

\* A message leaves the server only when its recipient has asked for its
\* messages, and is then in the reply that reaches this process, unless that
\* request is the one that fails, or its process has ended: then the messages
\* go unseen.
IsHanded(p, m) ==
    resp[p].code = "GET_UNREAD_MESSAGES_SUCCESS" /\ m \in resp[p].rows
CollectedByRecipient ==
    [][\A m \in messages \ messages' :
         \E c \in Peer :
           /\ me[c].id = m.to
           /\ pc[c] = "fetch" /\ resp[c] = Nothing
           /\ c \in Orphan \/ faults' < faults \/ IsHanded(c, m)']_vars

\* Ids, lists, copies and replies come down to this: names are taken once,
\* and mail goes by them (see Messenger).
MessengerPromise == Messenger!Spec

\* Two processes are the same client, or are told that they are, only if their
\* me.info files said so from the start.
NamesOwned == Messenger!NamesOwned

\* While nothing has failed, a message is refused only for its length: a text
\* of up to 479 characters goes through.
RefusedOnlyLong ==
    faults = MaxFaults =>
        \A p \in Process :
            pc[p] = "send" /\ resp[p] = Error => call[p].length >= 480

\* An option once chosen comes to its end, whatever the other processes do and
\* leave behind, except that the process is blocked for ever when the server
\* is silent.
OptionConcluded ==
    \A p \in Process :
        pc[p] \in Blocked ~> (pc[p] \notin Blocked \/ resp[p] = Silence)

\* What an option is for does not end the process: "store the public key"
\* (Client.cpp:258), display it, and return to the menu.
KeyOptionReturns == \A p \in Process : pc[p] # "crashed"

\* What the server keeps of a text is the text, encrypted under a key that
\* was generated for its recipient.
TextsEncrypted ==
    \A l \in log :
        l.type = "TEXT_MESSAGE" =>
            l.content = {"ciphertext"} /\ l.key = "generated"

=============================================================================
