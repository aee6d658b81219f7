------------------------------- MODULE Server -------------------------------
(***************************************************************************)
(* The MessageU server: one thread that waits in select() and calls accept *)
(* or read for each ready socket (server.py:34-86), the five request       *)
(* handlers (server.py:119-253) and the database file (DBHandler).         *)
(*                                                                         *)
(* A connection carries one request and at most one reply.  The peer may   *)
(* close or reset it at any time, a database call may fail, and the        *)
(* process may crash and be started again on the same file.                *)
(*                                                                         *)
(* A callback of the loop is atomic, but for the two places where the      *)
(* world can get between its steps: before the reply is written (the       *)
(* tables are already changed) and around each delete of a fetched         *)
(* message, which commits on its own.                                      *)
(***************************************************************************)
EXTENDS DBHandler, Sequences, FiniteSets

CONSTANTS
    Conn,             \* client connections; a socket is never used twice
    Listener,         \* the listening socket, also "no connection"
    Inputs,           \* the requests clients send, a subset of Request
    InitClients,      \* the tables the server finds in server.db
    InitMessages,
    MaxConnections,   \* listen(5): connections waiting to be accepted
    ClientsPerPacket, \* what fits in one 1024-byte packet of a list reply
    RowsPerPacket,    \* and of a fetch reply
    MayTear,          \* TCP may deliver a request in more than one segment
    MaxFaults,        \* bound: failing database calls in a behaviour
    MaxCrashes        \* bound: crashes in a behaviour

Nothing == [code |-> "NOTHING"]

RegisterRequest  == [code: {"REGISTER_CLIENT"}, name: Name, key: Key]
ListRequest      == [code: {"GET_CLIENTS_LIST"}, client_id: Id]
PublicKeyRequest == [code: {"GET_PUBLIC_KEY"}, client_id: Id, name: Name]
SendRequest      == [code: {"SEND_MESSAGE"}, client_id: Id, to: Id,
                     type: {"valid", "invalid"}]   \* valid_msg
UnreadRequest    == [code: {"GET_UNREAD_MESSAGE"}, client_id: Id]

Request == RegisterRequest \cup ListRequest \cup PublicKeyRequest
             \cup SendRequest \cup UnreadRequest

Error == [code |-> "GENERIC_ERROR"]

RegisterReply  == [code: {"REGISTER_SUCCESS"}, id: Id]
ListReply      == [code: {"GET_CLIENTS_LIST_SUCCESS"}, ids: SUBSET Id]
PublicKeyReply == [code: {"GET_PUBLIC_KEY_SUCCESS"}, id: Id, key: Key]
SentReply      == [code: {"MESSAGE_SENT_SUCCESS"}, to: Id, msg_id: RowId]
UnreadReply    == [code: {"GET_UNREAD_MESSAGES_SUCCESS"},
                   rows: SUBSET MessageRow]

Reply == {Error} \cup RegisterReply \cup ListReply \cup PublicKeyReply
           \cup SentReply \cup UnreadReply

ASSUME ListenerAssumption == Listener \notin Conn
ASSUME InputsAssumption   == Inputs \subseteq Request
ASSUME BoundsAssumption   ==
    /\ MaxConnections \in Nat \ {0}
    /\ ClientsPerPacket \in Nat \ {0}
    /\ RowsPerPacket \in Nat \ {0}
    /\ MaxFaults \in Nat
    /\ MaxCrashes \in Nat
    /\ MayTear \in BOOLEAN
ASSUME InitClientsAssumption ==
    /\ InitClients \subseteq ClientRow
    /\ \A r, q \in InitClients :
         (r.name = q.name \/ r.id = q.id) => r = q
ASSUME InitMessagesAssumption ==
    /\ InitMessages \subseteq MessageRow
    /\ \A m, n \in InitMessages : m.id = n.id => m = n
    /\ \A m \in InitMessages : /\ ClientIdExists(InitClients, m.to)
                               /\ ClientIdExists(InitClients, m.from)

VARIABLES
    clients, messages,  \* the two tables, on disk
    srv,      \* the server's end: "idle", "queued", "open", "closed"
    peer,     \* the client's end: "up", "fin" (closed), "rst" (reset)
    req,      \* the request the client has sent, or Nothing
    pending,  \* the request is in the socket, not yet received
    backlog,  \* connections waiting to be accepted
    sent,     \* the reply written, and whether all its bytes were taken
    batch,    \* ready sockets of the current select() not yet called
    pc,       \* "loop", "reply" or "delete": where the thread is
    cur,      \* the connection of the callback in progress
    resp,     \* the reply about to be written
    doomed,   \* row ids of the messages the callback still has to delete
    faults, crashes     \* budgets left

db    == <<clients, messages>>
conns == <<srv, peer, req, pending, backlog, sent>>
task  == <<pc, cur, resp, doomed>>
vars  == <<db, conns, batch, task, faults, crashes>>

TypeOK ==
    /\ clients \subseteq ClientRow
    /\ messages \subseteq MessageRow
    /\ srv \in [Conn -> {"idle", "queued", "open", "closed"}]
    /\ peer \in [Conn -> {"up", "fin", "rst"}]
    /\ req \in [Conn -> Request \cup {Nothing}]
    /\ pending \in [Conn -> BOOLEAN]
    /\ backlog \in Seq(Conn)
    /\ sent \in [Conn -> [reply: Reply \cup {Nothing}, whole: BOOLEAN]]
    /\ batch \subseteq Conn \cup {Listener}
    /\ pc \in {"loop", "reply", "delete"}
    /\ cur \in Conn \cup {Listener}
    /\ resp \in Reply \cup {Nothing}
    /\ doomed \subseteq RowId
    /\ faults \in 0..MaxFaults
    /\ crashes \in 0..MaxCrashes

Idle == /\ pc = "loop"
        /\ cur = Listener
        /\ resp = Nothing
        /\ doomed = {}

Init == /\ clients = InitClients
        /\ messages = InitMessages
        /\ srv = [c \in Conn |-> "idle"]
        /\ peer = [c \in Conn |-> "up"]
        /\ req = [c \in Conn |-> Nothing]
        /\ pending = [c \in Conn |-> FALSE]
        /\ backlog = << >>
        /\ sent = [c \in Conn |-> [reply |-> Nothing, whole |-> FALSE]]
        /\ batch = {}
        /\ Idle
        /\ faults = MaxFaults
        /\ crashes = MaxCrashes

-----------------------------------------------------------------------------
(* The clients, as the server can see them. *)

\* The kernel completes a connection while the backlog has room.
Connect(c) ==
    /\ srv[c] = "idle"
    /\ Len(backlog) < MaxConnections
    /\ srv' = [srv EXCEPT ![c] = "queued"]
    /\ backlog' = Append(backlog, c)
    /\ UNCHANGED <<db, peer, req, pending, sent, batch, task, faults, crashes>>

Connected(c) == srv[c] \in {"queued", "open"} /\ peer[c] = "up"

\* A client writes its one request (SocketHandler.cpp, socketWrapper).
Ask(c) ==
    /\ Connected(c)
    /\ req[c] = Nothing
    /\ \E r \in Inputs : req' = [req EXCEPT ![c] = r]
    /\ pending' = [pending EXCEPT ![c] = TRUE]
    /\ UNCHANGED <<db, srv, peer, backlog, sent, batch, task, faults, crashes>>

\* A client closes its socket, or dies: the server will see end of file, or
\* a reset that also throws away what it has not yet received.
Leave(c) ==
    /\ Connected(c)
    /\ \/ /\ peer' = [peer EXCEPT ![c] = "fin"]
          /\ UNCHANGED pending
       \/ /\ peer' = [peer EXCEPT ![c] = "rst"]
          /\ pending' = [pending EXCEPT ![c] = FALSE]
    /\ UNCHANGED <<db, srv, req, backlog, sent, batch, task, faults, crashes>>

-----------------------------------------------------------------------------
(* The loop. *)

\* Level-triggered readiness: unread data, end of file or an error.
Ready(c) == srv[c] = "open" /\ (pending[c] \/ peer[c] # "up")

ReadySet == {c \in Conn : Ready(c)}
              \cup (IF backlog = << >> THEN {} ELSE {Listener})

Loop(s) == pc = "loop" /\ s \in batch

MutSelectNoListener ==
    /\ pc = "loop" /\ batch = {}
    /\ ReadySet \ {Listener} # {}
    /\ batch' = ReadySet \ {Listener}
    /\ UNCHANGED <<db, conns, task, faults, crashes>>

\* select() returns the ready sockets.
Select ==
    /\ pc = "loop"
    /\ batch = {}
    /\ ReadySet # {}
    /\ batch' = ReadySet
    /\ UNCHANGED <<db, conns, task, faults, crashes>>

Accept ==
    /\ Loop(Listener)
    /\ backlog # << >>
    /\ srv' = [srv EXCEPT ![Head(backlog)] = "open"]
    /\ backlog' = Tail(backlog)
    /\ batch' = batch \ {Listener}
    /\ UNCHANGED <<db, peer, req, pending, sent, task, faults, crashes>>

MutCloseKeepsBatch(c) ==
    /\ srv' = [srv EXCEPT ![c] = "closed"]
    /\ pc' = "loop" /\ cur' = Listener /\ resp' = Nothing /\ doomed' = {}
    /\ UNCHANGED batch

\* sel.unregister(conn) and conn.close(), the end of a callback for c.
Close(c) ==
    /\ srv' = [srv EXCEPT ![c] = "closed"]
    /\ batch' = batch \ {c}
    /\ pc' = "loop" /\ cur' = Listener /\ resp' = Nothing /\ doomed' = {}

\* An exception leaves the callback: the connection stays registered, and
\* the try around the whole for loop drops the rest of the batch.
Raise ==
    /\ batch' = {}
    /\ pc' = "loop" /\ cur' = Listener /\ resp' = Nothing /\ doomed' = {}
    /\ UNCHANGED srv

\* A handler hands a reply to write.
Answer(c, r) ==
    /\ batch' = batch \ {c}
    /\ pc' = "reply" /\ cur' = c /\ resp' = r /\ doomed' = {}
    /\ UNCHANGED srv

ReadNothing(c) ==
    /\ Loop(c)
    /\ ~pending[c] /\ peer[c] = "fin"
    /\ Close(c)
    /\ UNCHANGED <<db, peer, req, pending, backlog, sent, faults, crashes>>

\* recv raises.  The error may be reported once, after which the socket is at
\* its end, or at every recv, as Winsock does: which is left open.
ReadReset(c) ==
    /\ Loop(c)
    /\ peer[c] = "rst"
    /\ Raise
    /\ peer' \in {peer, [peer EXCEPT ![c] = "fin"]}
    /\ UNCHANGED <<db, req, pending, backlog, sent, faults, crashes>>

\* recv returned the request.
Receive(c) ==
    /\ Loop(c)
    /\ pending[c]
    /\ pending' = [pending EXCEPT ![c] = FALSE]
    /\ UNCHANGED <<peer, req, backlog, sent, crashes>>

Known(c) == req[c].code # "REGISTER_CLIENT" =>
              ClientIdExists(clients, req[c].client_id)

MutRejectKeepsOpen(c) ==
    /\ Receive(c)
    /\ MayTear \/ ~Known(c)
    /\ batch' = batch \ {c}
    /\ UNCHANGED <<db, srv, task, faults>>

\* A header that did not arrive in one segment, or an unknown client: the
\* connection is closed without a reply.
Reject(c) ==
    /\ Receive(c)
    /\ MayTear \/ ~Known(c)
    /\ Close(c)
    /\ UNCHANGED <<db, faults>>

\* The database call that fails in a callback, or "none".
Failing(calls) == {"none"} \cup (IF faults > 0 THEN calls ELSE {})

Spend(bad) == faults' = IF bad = "none" THEN faults ELSE faults - 1

\* The query for the client fails: len(False) raises TypeError.
CheckRaises(c) ==
    /\ Receive(c)
    /\ faults > 0
    /\ faults' = faults - 1
    /\ Raise
    /\ UNCHANGED db

\* The request passed read's checks, and its handler runs.
Dispatch(c, code) ==
    /\ Receive(c)
    /\ req[c].code = code
    /\ Known(c)

\* The body did not arrive with the header, or the message is longer than
\* one packet: unpack catches its exception and returns False.
TornBody(c) ==
    /\ MayTear
    /\ \/ Dispatch(c, "REGISTER_CLIENT")
       \/ Dispatch(c, "GET_PUBLIC_KEY")
       \/ Dispatch(c, "SEND_MESSAGE")
    /\ Answer(c, Error)
    /\ UNCHANGED <<db, faults>>

-----------------------------------------------------------------------------
(* The handlers. *)

HandleRegister(c) ==
    LET n == req[c].name IN
    /\ Dispatch(c, "REGISTER_CLIENT")
    /\ UNCHANGED messages
    /\ \E bad \in Failing({"name", "insert"}) :
         /\ Spend(bad)
         /\ \/ /\ bad = "name"
               /\ Raise
               /\ UNCHANGED clients
            \/ /\ bad # "name"
               /\ bad = "insert" \/ ClientNameExists(clients, n)
               /\ Answer(c, Error)
               /\ UNCHANGED clients
            \/ /\ bad = "none"
               /\ ~ClientNameExists(clients, n)
               /\ \E i \in Id :      \* uuid4 never repeats
                    /\ ~ClientIdExists(clients, i)
                    /\ clients' = InsertClient(clients, i, n, req[c].key)
                    /\ Answer(c, [code |-> "REGISTER_SUCCESS", id |-> i])

\* An empty payload packs to b"", which the handler takes for a failure;
\* with the table unread the for loop iterates False.
HandleClientsList(c) ==
    LET others == {r.id : r \in clients} \ {req[c].client_id} IN
    /\ Dispatch(c, "GET_CLIENTS_LIST")
    /\ UNCHANGED db
    /\ \E bad \in Failing({"list"}) :
         /\ Spend(bad)
         /\ \/ bad = "list" /\ Raise
            \/ /\ bad = "none" /\ others = {}
               /\ Answer(c, Error)
            \/ /\ bad = "none" /\ others # {}
               /\ Answer(c, [code |-> "GET_CLIENTS_LIST_SUCCESS",
                             ids |-> others])

\* Two statements look the name up, one for the key and one for the id, and
\* each takes its first row; SQL promises no order.
HandlePublicKey(c) ==
    LET named == ClientsNamed(clients, req[c].name) IN
    /\ Dispatch(c, "GET_PUBLIC_KEY")
    /\ UNCHANGED db
    /\ \E bad \in Failing({"name", "key", "id"}) :
         /\ Spend(bad)
         /\ \/ bad = "name" /\ Raise
            \/ /\ bad # "name"
               /\ bad # "none" \/ ~ClientNameExists(clients, req[c].name)
               /\ Answer(c, Error)
            \/ /\ bad = "none"
               /\ ClientNameExists(clients, req[c].name)
               /\ \E r, q \in named :
                    Answer(c, [code |-> "GET_PUBLIC_KEY_SUCCESS",
                               id |-> q.id, key |-> r.key])

\* The recipient is looked up first, then the type is checked; no type is
\* wrong in a request of this project's client.
HandleSend(c) ==
    LET to == req[c].to IN
    /\ Dispatch(c, "SEND_MESSAGE")
    /\ UNCHANGED clients
    /\ \E bad \in Failing({"recipient", "insert"}) :
         /\ Spend(bad)
         /\ \/ /\ bad = "recipient"
               /\ Raise
               /\ UNCHANGED messages
            \/ /\ bad # "recipient"
               /\ \/ bad = "insert"
                  \/ ~ClientIdExists(clients, to)
                  \/ req[c].type # "valid"
               /\ Answer(c, Error)
               /\ UNCHANGED messages
            \/ /\ bad = "none"
               /\ ClientIdExists(clients, to) /\ req[c].type = "valid"
               /\ \E i \in RowId :
                    /\ IsNextRowId(messages, i)
                    /\ messages' =
                         InsertMessage(messages, i, to, req[c].client_id)
                    /\ Answer(c, [code |-> "MESSAGE_SENT_SUCCESS",
                                  to |-> to, msg_id |-> i])

\* A failed query is read as "no messages".  Content stored by a client is
\* bytes, and bytes have no encode(): one such row and the handler raises.
HandleUnread(c) ==
    LET waiting == SelectUnread(messages, req[c].client_id) IN
    /\ Dispatch(c, "GET_UNREAD_MESSAGE")
    /\ UNCHANGED db
    /\ \E bad \in Failing({"unread"}) :
         /\ Spend(bad)
         /\ \/ /\ bad = "none"
               /\ \E m \in waiting : m.content = "bytes"
               /\ Raise
            \/ /\ bad = "none"
               /\ \A m \in waiting : m.content = "text"
               /\ Answer(c, [code |-> "GET_UNREAD_MESSAGES_SUCCESS",
                             rows |-> waiting])
            \/ /\ bad = "unread"
               /\ Answer(c, [code |-> "GET_UNREAD_MESSAGES_SUCCESS",
                             rows |-> {}])

-----------------------------------------------------------------------------
(* write, and what follows it in the callback. *)

Oversized(r) ==
    \/ /\ r.code = "GET_CLIENTS_LIST_SUCCESS"
       /\ Cardinality(r.ids) > ClientsPerPacket
    \/ /\ r.code = "GET_UNREAD_MESSAGES_SUCCESS"
       /\ Cardinality(r.rows) > RowsPerPacket

MutDoomedNone(r) == {}

MutDoomedMailbox(r) == IF r.code = "GET_UNREAD_MESSAGES_SUCCESS"
                       THEN {m.id : m \in SelectUnread(messages,
                                                       req[cur].client_id)}
                       ELSE {}

\* msg_ids of handle_get_unread_messages_request.
Doomed(r) == IF r.code = "GET_UNREAD_MESSAGES_SUCCESS"
             THEN {m.id : m \in r.rows} ELSE {}

Finish(r) == IF Doomed(r) = {}
             THEN Close(cur)
             ELSE /\ pc' = "delete"
                  /\ doomed' = Doomed(r)
                  /\ UNCHANGED <<srv, batch, cur, resp>>

\* The first send raises; the GENERIC_ERROR the caller then writes fails on
\* the same socket, and the connection is closed.
WriteFails ==
    /\ pc = "reply"
    /\ peer[cur] = "rst"
    /\ Close(cur)
    /\ UNCHANGED <<db, peer, req, pending, backlog, sent, faults, crashes>>

\* A reply of one packet is taken whole.  One of more packets may be taken
\* short, which nobody looks at, or stop at a later send, which is outside
\* the try: the exception leaves the callback.
WriteReply ==
    /\ pc = "reply"
    /\ peer[cur] # "rst"
    /\ \E whole \in BOOLEAN :
         /\ sent' = [sent EXCEPT ![cur] = [reply |-> resp, whole |-> whole]]
         /\ \/ Finish(resp)
            \/ ~whole /\ Raise
         /\ whole \/ Oversized(resp)
    /\ UNCHANGED <<db, peer, req, pending, backlog, faults, crashes>>

\* delete_msg for the next id; its result is ignored.  After the last one
\* the callback ends.
DeleteNext ==
    /\ pc = "delete"
    /\ \E i \in doomed :
         /\ \A j \in doomed : i <= j
         /\ \E bad \in Failing({"delete"}) :
              /\ Spend(bad)
              /\ messages' = IF bad = "none" THEN DeleteMsg(messages, i)
                                             ELSE messages
         /\ \/ doomed = {i} /\ Close(cur)
            \/ /\ doomed # {i}
               /\ doomed' = doomed \ {i}
               /\ UNCHANGED <<srv, batch, pc, cur, resp>>
    /\ UNCHANGED <<clients, peer, req, pending, backlog, sent, crashes>>

-----------------------------------------------------------------------------
(* The process dies and is started again: the kernel closes its sockets,    *)
(* and what is not in the file is gone.                                     *)
CrashRestart ==
    /\ crashes > 0
    /\ crashes' = crashes - 1
    /\ srv' = [c \in Conn |-> IF srv[c] = "idle" THEN "idle" ELSE "closed"]
    /\ backlog' = << >>
    /\ batch' = {}
    /\ pc' = "loop" /\ cur' = Listener /\ resp' = Nothing /\ doomed' = {}
    /\ UNCHANGED <<db, peer, req, pending, sent, faults>>

ClientStep == \E c \in Conn : Connect(c) \/ Ask(c) \/ Leave(c)

Callback(c) == \/ ReadNothing(c) \/ ReadReset(c) \/ Reject(c)
               \/ CheckRaises(c) \/ TornBody(c)
               \/ HandleRegister(c) \/ HandleClientsList(c)
               \/ HandlePublicKey(c) \/ HandleSend(c) \/ HandleUnread(c)

ServerStep == \/ Select \/ Accept \/ \E c \in Conn : Callback(c)
              \/ WriteFails \/ WriteReply \/ DeleteNext

Next == ClientStep \/ ServerStep \/ CrashRestart

Spec == Init /\ [][Next]_vars

\* The one thread keeps running.  Nothing is assumed of the clients.
FairSpec == Spec /\ WF_vars(ServerStep)

-----------------------------------------------------------------------------
(* What the tables hold. *)

\* Every stored message names two registered clients, although SQLite checks
\* no foreign key (db_handler.py:28-29): the handlers' own checks, made
\* before other statements, are all there is.
RefIntegrity ==
    \A m \in messages : {m.to, m.from} \subseteq {r.id : r \in clients}

\* No two clients share a name: the table does not forbid it (db_handler.py
\* :16), only the check before the insert stands in the way.
UniqueNames == \A r, q \in clients : r.name = q.name => r = q

-----------------------------------------------------------------------------
(* What a written reply promises. *)

Replied(c, code) == sent[c].reply.code = code

\* A client told that it is registered is in the table from then on, with
\* the name and the key it sent, also after failures and crashes.
RegistrationDurable ==
    \A c \in Conn : Replied(c, "REGISTER_SUCCESS") =>
        \E r \in clients : /\ r.id = sent[c].reply.id
                           /\ r.name = req[c].name
                           /\ r.key = req[c].key

\* A message acknowledged to its sender is in the table, or was part of a
\* fetch reply written to its recipient.
AckedMessageDurable ==
    \A c \in Conn : Replied(c, "MESSAGE_SENT_SUCCESS") =>
        LET acked == {m \in MessageRow : /\ m.id = sent[c].reply.msg_id
                                         /\ m.to = req[c].to
                                         /\ m.from = req[c].client_id}
        IN \/ acked \cap messages # {}
           \/ \E d \in Conn : /\ Replied(d, "GET_UNREAD_MESSAGES_SUCCESS")
                              /\ req[d].client_id = req[c].to
                              /\ acked \cap sent[d].reply.rows # {}

\* The key and the id of a public-key reply, which two statements read, are
\* of one client, and it has the name that was asked for.
DirectoryReplyConsistent ==
    \A c \in Conn : Replied(c, "GET_PUBLIC_KEY_SUCCESS") =>
        \E r \in clients : /\ r.name = req[c].name
                           /\ r.id = sent[c].reply.id
                           /\ r.key = sent[c].reply.key

\* While no delete has failed and the process has not crashed, no message is
\* in two fetch replies that were taken whole.
NoDuplicateDelivery ==
    (faults = MaxFaults /\ crashes = MaxCrashes) =>
        \A c, d \in Conn :
            /\ sent[c].whole /\ Replied(c, "GET_UNREAD_MESSAGES_SUCCESS")
            /\ sent[d].whole /\ Replied(d, "GET_UNREAD_MESSAGES_SUCCESS")
            /\ c # d
            => sent[c].reply.rows \cap sent[d].reply.rows = {}

\* A fetch reply holds all the messages waiting for the client when it is
\* written, or none after a database call has failed: select_unread_messages
\* makes "no messages" of a failure (db_handler.py:131-132), but never a part
\* of them.
FetchReturnsMailbox ==
    [][\A c \in Conn :
         /\ Replied(c, "NOTHING")
         /\ Replied(c, "GET_UNREAD_MESSAGES_SUCCESS")'
         => \/ sent'[c].reply.rows =
                 {m \in messages : m.to = req[c].client_id}
            \/ sent'[c].reply.rows = {} /\ faults < MaxFaults]_vars

\* A message leaves the table only when a fetch reply that holds it has been
\* written to its recipient (server.py:248-250).
DeletedOnlyAfterHanded ==
    [][\A m \in messages : m \notin messages' =>
         \E c \in Conn : /\ Replied(c, "GET_UNREAD_MESSAGES_SUCCESS")
                         /\ m \in sent[c].reply.rows
                         /\ req[c].client_id = m.to]_vars

-----------------------------------------------------------------------------
(* What the thread knows between the steps of a callback; together with the *)
(* facts above these are inductive.                                         *)

\* Row ids are a primary key.
UniqueRowIds == \A m, n \in messages : m.id = n.id => m = n

\* What was received was asked, and what was answered was received.
AskedFirst ==
    /\ \A c \in Conn : pending[c] \/ ~Replied(c, "NOTHING") => req[c] # Nothing
    /\ pc # "loop" => cur \in Conn /\ req[cur] # Nothing
    /\ pc = "reply" => resp # Nothing

\* The rows of a fetch reply are readable messages to the requester.
FetchRows(r, c) ==
    r.code = "GET_UNREAD_MESSAGES_SUCCESS" =>
        \A m \in r.rows : m.content = "text" /\ m.to = req[c].client_id

SentRowsReadable == \A c \in Conn : FetchRows(sent[c].reply, c)

\* The reply in hand is true of the tables, which nobody changes before it
\* is written.
ReplyInHand ==
    pc = "reply" =>
        /\ FetchRows(resp, cur)
        /\ resp.code = "REGISTER_SUCCESS" =>
             \E r \in clients : /\ r.id = resp.id
                                /\ r.name = req[cur].name
                                /\ r.key = req[cur].key
        /\ resp.code = "GET_PUBLIC_KEY_SUCCESS" =>
             \E r \in clients : /\ r.name = req[cur].name
                                /\ r.id = resp.id
                                /\ r.key = resp.key
        /\ resp.code = "MESSAGE_SENT_SUCCESS" =>
             \E m \in messages : /\ m.id = resp.msg_id
                                 /\ m.to = req[cur].to
                                 /\ m.from = req[cur].client_id
                                 /\ m.content = "bytes"
        /\ resp.code = "GET_UNREAD_MESSAGES_SUCCESS" =>
             /\ resp.rows \subseteq messages
             /\ \/ resp.rows = {m \in messages : m.to = req[cur].client_id}
                \/ resp.rows = {} /\ faults < MaxFaults

\* What is still to be deleted was in the reply just written and is still
\* in the table.
DoomedHanded ==
    pc = "delete" =>
        /\ Replied(cur, "GET_UNREAD_MESSAGES_SUCCESS")
        /\ \A i \in doomed :
             \E m \in messages : m.id = i /\ m \in sent[cur].reply.rows

\* An acknowledged message stays, because only readable ones are deleted.
AckedMessageStays ==
    \A c \in Conn : Replied(c, "MESSAGE_SENT_SUCCESS") =>
        \E m \in messages : /\ m.id = sent[c].reply.msg_id
                            /\ m.to = req[c].to
                            /\ m.from = req[c].client_id
                            /\ m.content = "bytes"

\* Without failures, a message in a reply that was taken whole is gone from
\* the table, or is about to be deleted.
HandedIsGone ==
    (faults = MaxFaults /\ crashes = MaxCrashes) =>
        \A c \in Conn :
            sent[c].whole /\ Replied(c, "GET_UNREAD_MESSAGES_SUCCESS") =>
                \A m \in sent[c].reply.rows \cap messages :
                    pc = "delete" /\ c = cur /\ m.id \in doomed

IndInv ==
    /\ TypeOK /\ RefIntegrity /\ UniqueNames /\ UniqueRowIds
    /\ AskedFirst /\ SentRowsReadable /\ ReplyInHand /\ DoomedHanded
    /\ RegistrationDurable /\ DirectoryReplyConsistent
    /\ AckedMessageStays /\ HandedIsGone /\ NoDuplicateDelivery

-----------------------------------------------------------------------------
(* The loop. *)

\* What the loop is about to call back is still worth it: a socket in the
\* batch is open and readable, so that recv cannot raise BlockingIOError nor
\* accept find nobody, and the connection being answered is open and is not
\* called again.
BatchLive ==
    /\ Listener \in batch => backlog # << >>
    /\ \A c \in batch \ {Listener} : Ready(c)
    /\ pc # "loop" => cur \in Conn \ batch /\ srv[cur] = "open"

\* A socket that was reset and is still registered: its recv raises.
ResetOpen == \E c \in Conn : srv[c] = "open" /\ peer[c] = "rst"

Waiting(c) == srv[c] = "queued" \/ Ready(c)

\* A client that waits to be accepted, or has sent a request, or has left,
\* is noticed, whatever callbacks raise in between; only a reset socket that
\* stays registered for ever, and may abort every batch before the others'
\* turn (server.py:48-53), can keep them waiting.
EveryWaitingServed ==
    \A c \in Conn : <>[]ResetOpen \/ (Waiting(c) ~> ~Waiting(c))


\* A reply of more than one packet was written in part only; when a later
\* send raised, the connection stays open (server.py:102).
CutOff(c) == sent[c].reply # Nothing /\ ~sent[c].whole

\* A request whose handler does not raise is concluded, however often others
\* raise and drop the batch it is in, whether it arrived in one segment or
\* not: the connection is closed, or the reply was cut off.  A reset socket
\* that stays registered for ever is excepted as above.
QuietRequestsConcluded ==
    \A c \in Conn :
        \/ <>[]ResetOpen
        \/ pending[c] /\ req[c].code # "GET_UNREAD_MESSAGE"
             ~> srv[c] = "closed" \/ CutOff(c)

\* A client that asks for the list of clients is given one, unless the
\* query for it has failed.
ListAnswered ==
    \A c \in Conn :
        /\ req[c].code = "GET_CLIENTS_LIST"
        /\ Replied(c, "GENERIC_ERROR")
        => faults < MaxFaults

-----------------------------------------------------------------------------
(* What the server promises its clients, as module Mailbox states it.  A    *)
(* request is taken when it has left the socket.                            *)

Promise == INSTANCE Mailbox WITH
    registry <- clients,
    mail     <- messages,
    request  <- req,
    taken    <- [c \in Conn |-> req[c] # Nothing /\ ~pending[c]],
    answer   <- [c \in Conn |-> sent[c].reply]

\* The loop, its handlers and the database keep that promise, whatever
\* fails, crashes or leaves in between.
MailboxPromise == Promise!Spec

\* A request is not read again once it is answered, nor answered twice.
AnsweredOnce ==
    /\ \A c \in Conn : ~Replied(c, "NOTHING") => ~pending[c]
    /\ pc = "reply" => Replied(cur, "NOTHING") /\ ~pending[cur]

\* The reply in hand may be given.
ReplyTrue == pc = "reply" => resp \in Promise!Truth(cur)

=============================================================================
