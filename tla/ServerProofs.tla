---------------------------- MODULE ServerProofs ----------------------------
(***************************************************************************)
(* Proofs about module Server, for every set of connections, clients,      *)
(* requests and rows, and every value of the bounds.                       *)
(***************************************************************************)
EXTENDS Server, SequenceTheorems, TLAPS

-----------------------------------------------------------------------------
(* Shapes of requests and replies. *)

\* A request has the fields its handler reads.
LEMMA RequestShape ==
    ASSUME NEW r \in Request
    PROVE  /\ r # Nothing
           /\ r.code = "REGISTER_CLIENT" => r.name \in Name /\ r.key \in Key
           /\ r.code # "REGISTER_CLIENT" => r.client_id \in Id
           /\ r.code = "GET_PUBLIC_KEY" => r.name \in Name
           /\ r.code = "SEND_MESSAGE" => r.to \in Id
  BY DEF Request, RegisterRequest, ListRequest, PublicKeyRequest,
         SendRequest, UnreadRequest, Nothing

\* A reply is never the null one, and fetched rows are rows.
LEMMA ReplyShape ==
    ASSUME NEW r \in Reply
    PROVE  /\ r # Nothing
           /\ r.code # "NOTHING"
           /\ r.code = "GET_UNREAD_MESSAGES_SUCCESS" =>
                r.rows \subseteq MessageRow
  BY DEF Reply, RegisterReply, ListReply, PublicKeyReply, SentReply,
         UnreadReply, Error, Nothing

\* A handler runs on a request of its own kind, by a known client.
LEMMA Dispatched ==
    ASSUME TypeOK, NEW c \in Conn, NEW code, Dispatch(c, code),
           code # "NOTHING"
    PROVE  /\ req[c] \in Request
           /\ req[c].code = code
           /\ code # "REGISTER_CLIENT" =>
                ClientIdExists(clients, req[c].client_id)
  BY DEF TypeOK, Dispatch, Receive, Known, Nothing

-----------------------------------------------------------------------------
(* What each handler can do, as a choice of outcomes. *)

\* A callback spends at most one fault, and only when a call failed.
LEMMA SpendBudget ==
    ASSUME TypeOK, NEW calls, NEW bad \in Failing(calls), Spend(bad)
    PROVE  /\ faults' \in 0..faults
           /\ bad # "none" => faults' < MaxFaults
<1>1. faults \in 0..MaxFaults /\ MaxFaults \in Nat
  BY BoundsAssumption DEF TypeOK
<1>2. CASE bad = "none"
  <2>1. faults' = faults
    BY <1>2 DEF Spend
  <2> QED BY <1>1, <1>2, <2>1
<1>3. CASE bad # "none"
  <2>1. faults > 0 /\ faults' = faults - 1
    BY <1>3 DEF Failing, Spend
  <2> QED BY <1>1, <1>3, <2>1
<1> QED BY <1>2, <1>3

\* HandleRegister changes nothing, or adds one client with a free name.
LEMMA RegisterOutcome ==
    ASSUME TypeOK, NEW c \in Conn, HandleRegister(c)
    PROVE  /\ Dispatch(c, "REGISTER_CLIENT")
           /\ messages' = messages
           /\ faults' \in 0..faults
           /\ \/ clients' = clients /\ (Raise \/ Answer(c, Error))
              \/ /\ ~ClientNameExists(clients, req[c].name)
                 /\ \E i \in Id :
                      /\ ~ClientIdExists(clients, i)
                      /\ clients' = InsertClient(clients, i, req[c].name,
                                                 req[c].key)
                      /\ Answer(c, [code |-> "REGISTER_SUCCESS", id |-> i])
<1>1. \A bad \in Failing({"name", "insert"}) :
        Spend(bad) => faults' \in 0..faults
  BY SpendBudget
<1> QED BY <1>1 DEF HandleRegister

\* HandleClientsList only reads.
LEMMA ListOutcome ==
    ASSUME TypeOK, NEW c \in Conn, HandleClientsList(c)
    PROVE  /\ Dispatch(c, "GET_CLIENTS_LIST")
           /\ clients' = clients /\ messages' = messages
           /\ faults' \in 0..faults
           /\ \/ Raise
              \/ Answer(c, Error)
              \/ \E ids \in SUBSET Id :
                   Answer(c, [code |-> "GET_CLIENTS_LIST_SUCCESS",
                              ids |-> ids])
<1>1. \A bad \in Failing({"list"}) : Spend(bad) => faults' \in 0..faults
  BY SpendBudget
<1>2. {r.id : r \in clients} \ {req[c].client_id} \in SUBSET Id
  BY DEF TypeOK, ClientRow
<1> QED BY <1>1, <1>2 DEF HandleClientsList, db

\* HandlePublicKey only reads; key and id are of clients with the name.
LEMMA PublicKeyOutcome ==
    ASSUME TypeOK, NEW c \in Conn, HandlePublicKey(c)
    PROVE  /\ Dispatch(c, "GET_PUBLIC_KEY")
           /\ clients' = clients /\ messages' = messages
           /\ faults' \in 0..faults
           /\ \/ Raise
              \/ Answer(c, Error)
              \/ \E r, q \in ClientsNamed(clients, req[c].name) :
                   Answer(c, [code |-> "GET_PUBLIC_KEY_SUCCESS",
                              id |-> q.id, key |-> r.key])
<1>1. \A bad \in Failing({"name", "key", "id"}) :
        Spend(bad) => faults' \in 0..faults
  BY SpendBudget
<1> QED BY <1>1 DEF HandlePublicKey, db

\* HandleSend changes nothing, or stores one message of a valid type under a
\* new row id.
LEMMA SendOutcome ==
    ASSUME TypeOK, NEW c \in Conn, HandleSend(c)
    PROVE  /\ Dispatch(c, "SEND_MESSAGE")
           /\ clients' = clients
           /\ faults' \in 0..faults
           /\ \/ messages' = messages /\ (Raise \/ Answer(c, Error))
              \/ /\ ClientIdExists(clients, req[c].to)
                 /\ req[c].type = "valid"
                 /\ \E i \in RowId :
                      /\ IsNextRowId(messages, i)
                      /\ messages' = InsertMessage(messages, i, req[c].to,
                                                   req[c].client_id)
                      /\ Answer(c, [code |-> "MESSAGE_SENT_SUCCESS",
                                    to |-> req[c].to, msg_id |-> i])
<1>1. \A bad \in Failing({"recipient", "insert"}) :
        Spend(bad) => faults' \in 0..faults
  BY SpendBudget
<1> QED BY <1>1 DEF HandleSend

\* HandleUnread only reads; it returns the mailbox, or after a failed query
\* nothing.
LEMMA UnreadOutcome ==
    ASSUME TypeOK, NEW c \in Conn, HandleUnread(c)
    PROVE  /\ Dispatch(c, "GET_UNREAD_MESSAGE")
           /\ clients' = clients /\ messages' = messages
           /\ faults' \in 0..faults
           /\ \/ Raise
              \/ \E rows \in SUBSET messages :
                   /\ Answer(c, [code |-> "GET_UNREAD_MESSAGES_SUCCESS",
                                 rows |-> rows])
                   /\ \A m \in rows : /\ m.content = "text"
                                      /\ m.to = req[c].client_id
                   /\ \/ rows = SelectUnread(messages, req[c].client_id)
                      \/ rows = {} /\ faults' < MaxFaults
<1>1. \A bad \in Failing({"unread"}) : Spend(bad) =>
        /\ faults' \in 0..faults
        /\ bad = "unread" => faults' < MaxFaults
  BY SpendBudget, BoundsAssumption DEF Spend, Failing, TypeOK
<1>2. SelectUnread(messages, req[c].client_id) \in SUBSET messages
  BY DEF SelectUnread
<1> QED BY <1>1, <1>2 DEF HandleUnread, db, SelectUnread

-----------------------------------------------------------------------------
(* Type correctness. *)

\* The tables found at the start have the types.
LEMMA TypeInit == ASSUME Init PROVE TypeOK
  BY InitClientsAssumption, InitMessagesAssumption, BoundsAssumption
     DEF Init, Idle, TypeOK

\* A callback that ends with a reply or an exception keeps the types, if
\* what it makes of the tables has theirs.
LEMMA TypeHandler ==
    ASSUME TypeOK, NEW c \in Conn, NEW code, Dispatch(c, code),
           clients' \subseteq ClientRow, messages' \subseteq MessageRow,
           faults' \in 0..faults,
           Raise \/ \E r \in Reply : Answer(c, r)
    PROVE  TypeOK'
<1>1. faults' \in 0..MaxFaults
  BY BoundsAssumption DEF TypeOK
<1> QED BY <1>1 DEF TypeOK, Dispatch, Receive, Raise, Answer

\* Every step keeps the types.
LEMMA TypeStep == ASSUME TypeOK, [Next]_vars PROVE TypeOK'
<1> USE DEF TypeOK, task, db, conns
<1> USE BoundsAssumption
<1>1. ASSUME NEW c \in Conn, Connect(c) PROVE TypeOK'
  BY <1>1 DEF Connect
<1>2. ASSUME NEW c \in Conn, Ask(c) PROVE TypeOK'
  BY <1>2, InputsAssumption DEF Ask
<1>3. ASSUME NEW c \in Conn, Leave(c) PROVE TypeOK'
  BY <1>3 DEF Leave
<1>4. CASE Select
  BY <1>4 DEF Select, ReadySet
<1>5. CASE Accept
  <2>1. Tail(backlog) \in Seq(Conn)
    BY <1>5, HeadTailProperties DEF Accept
  <2> QED BY <1>5, <2>1 DEF Accept
<1>6. ASSUME NEW c \in Conn, ReadNothing(c) PROVE TypeOK'
  BY <1>6 DEF ReadNothing, Close
<1>7. ASSUME NEW c \in Conn, ReadReset(c) PROVE TypeOK'
  BY <1>7 DEF ReadReset, Raise
<1>8. ASSUME NEW c \in Conn, Reject(c) PROVE TypeOK'
  BY <1>8 DEF Reject, Receive, Close
<1>9. ASSUME NEW c \in Conn, CheckRaises(c) PROVE TypeOK'
  BY <1>9 DEF CheckRaises, Receive, Raise
<1>10. ASSUME NEW c \in Conn, TornBody(c) PROVE TypeOK'
  BY <1>10 DEF TornBody, Dispatch, Receive, Answer, Reply
<1>11. ASSUME NEW c \in Conn, HandleRegister(c) PROVE TypeOK'
  <2>1. req[c].name \in Name /\ req[c].key \in Key
    BY <1>11, RegisterOutcome, Dispatched, RequestShape
  <2>2. \A i \in Id :
          /\ [code |-> "REGISTER_SUCCESS", id |-> i] \in Reply
          /\ InsertClient(clients, i, req[c].name, req[c].key)
               \subseteq ClientRow
    BY <2>1 DEF Reply, RegisterReply, InsertClient, ClientRow
  <2>3. Error \in Reply
    BY DEF Reply
  <2> QED BY <1>11, <2>2, <2>3, RegisterOutcome, TypeHandler
<1>12. ASSUME NEW c \in Conn, HandleClientsList(c) PROVE TypeOK'
  <2>1. /\ Error \in Reply
        /\ \A ids \in SUBSET Id :
             [code |-> "GET_CLIENTS_LIST_SUCCESS", ids |-> ids] \in Reply
    BY DEF Reply, ListReply
  <2>2. Raise \/ \E r \in Reply : Answer(c, r)
    BY <1>12, <2>1, ListOutcome
  <2> QED BY <1>12, <2>2, ListOutcome, TypeHandler
<1>13. ASSUME NEW c \in Conn, HandlePublicKey(c) PROVE TypeOK'
  <2>1. /\ Error \in Reply
        /\ \A r, q \in ClientsNamed(clients, req[c].name) :
             [code |-> "GET_PUBLIC_KEY_SUCCESS", id |-> q.id, key |-> r.key]
               \in Reply
    BY DEF ClientsNamed, ClientRow, Reply, PublicKeyReply
  <2> QED BY <1>13, <2>1, PublicKeyOutcome, TypeHandler
<1>14. ASSUME NEW c \in Conn, HandleSend(c) PROVE TypeOK'
  <2>1. req[c].to \in Id /\ req[c].client_id \in Id
    BY <1>14, SendOutcome, Dispatched, RequestShape
  <2>2. \A i \in RowId :
          /\ [code |-> "MESSAGE_SENT_SUCCESS", to |-> req[c].to,
              msg_id |-> i] \in Reply
          /\ InsertMessage(messages, i, req[c].to, req[c].client_id)
               \subseteq MessageRow
    BY <2>1 DEF Reply, SentReply, InsertMessage, MessageRow
  <2>3. Error \in Reply
    BY DEF Reply
  <2> QED BY <1>14, <2>2, <2>3, SendOutcome, TypeHandler
<1>15. ASSUME NEW c \in Conn, HandleUnread(c) PROVE TypeOK'
  <2>1. \A rows \in SUBSET messages :
          [code |-> "GET_UNREAD_MESSAGES_SUCCESS", rows |-> rows] \in Reply
    BY DEF Reply, UnreadReply
  <2> QED BY <1>15, <2>1, UnreadOutcome, TypeHandler
<1>16. CASE WriteFails
  BY <1>16 DEF WriteFails, Close
<1>17. CASE WriteReply
  <2>1. Doomed(resp) \subseteq RowId
    BY ReplyShape DEF Doomed, MessageRow, Nothing
  <2>2. PICK whole \in BOOLEAN :
          sent' = [sent EXCEPT ![cur] = [reply |-> resp, whole |-> whole]]
    BY <1>17 DEF WriteReply
  <2>3. sent' \in [Conn -> [reply: Reply \cup {Nothing}, whole: BOOLEAN]]
    BY <2>2
  <2>4. Finish(resp) \/ Raise
    BY <1>17 DEF WriteReply
  <2> QED BY <1>17, <2>1, <2>3, <2>4 DEF WriteReply, Finish, Close, Raise
<1>18. CASE DeleteNext
  BY <1>18 DEF DeleteNext, Close, Spend, Failing, DeleteMsg
<1>19. CASE CrashRestart
  BY <1>19, EmptySeq DEF CrashRestart
<1>20. CASE UNCHANGED vars
  BY <1>20 DEF vars
<1> QED
  BY <1>1, <1>2, <1>3, <1>4, <1>5, <1>6, <1>7, <1>8, <1>9, <1>10, <1>11,
     <1>12, <1>13, <1>14, <1>15, <1>16, <1>17, <1>18, <1>19, <1>20
     DEF Next, ClientStep, ServerStep, Callback

\* The state keeps the shapes the program relies on.
THEOREM TypeCorrect == Spec => []TypeOK
<1> QED BY TypeInit, TypeStep, PTL DEF Spec

-----------------------------------------------------------------------------
(* The steps, sorted by what they do to the tables and to the replies.      *)

\* A step of a client, or none.
Outside ==
    /\ UNCHANGED <<clients, messages, sent, pc, cur, resp, doomed, faults,
                   crashes>>
    /\ \A c \in Conn : req[c] # Nothing => req'[c] = req[c]
    /\ \A c \in Conn : pending'[c] => pending[c] \/ req'[c] # Nothing

\* What the steps of the loop that end in it or in a reply have in common.
Called ==
    /\ pc = "loop"
    /\ UNCHANGED <<req, sent, crashes>>
    /\ faults' \in 0..faults
    /\ \A c \in Conn : pending'[c] => pending[c]

Unanswered == Called /\ pc' = "loop" /\ UNCHANGED <<clients, messages>>

Answered(c, r) ==
    /\ Called
    /\ req[c] \in Request
    /\ pc' = "reply" /\ cur' = c /\ resp' = r

Refused(c) == Answered(c, Error) /\ UNCHANGED <<clients, messages>>

Registered(c) ==
    \E i \in Id :
        /\ req[c].code = "REGISTER_CLIENT"
        /\ ~ClientNameExists(clients, req[c].name)
        /\ ~ClientIdExists(clients, i)
        /\ clients' = InsertClient(clients, i, req[c].name, req[c].key)
        /\ messages' = messages
        /\ Answered(c, [code |-> "REGISTER_SUCCESS", id |-> i])

Listed(c) ==
    /\ UNCHANGED <<clients, messages>>
    /\ \E ids \in SUBSET Id :
         Answered(c, [code |-> "GET_CLIENTS_LIST_SUCCESS", ids |-> ids])

KeyFound(c) ==
    /\ UNCHANGED <<clients, messages>>
    /\ \E r, q \in ClientsNamed(clients, req[c].name) :
         Answered(c, [code |-> "GET_PUBLIC_KEY_SUCCESS",
                      id |-> q.id, key |-> r.key])

Stored(c) ==
    \E i \in RowId :
        /\ req[c].code = "SEND_MESSAGE"
        /\ ClientIdExists(clients, req[c].to)
        /\ ClientIdExists(clients, req[c].client_id)
        /\ req[c].type = "valid"
        /\ IsNextRowId(messages, i)
        /\ clients' = clients
        /\ messages' = InsertMessage(messages, i, req[c].to,
                                     req[c].client_id)
        /\ Answered(c, [code |-> "MESSAGE_SENT_SUCCESS",
                        to |-> req[c].to, msg_id |-> i])

Fetched(c) ==
    \E rows \in SUBSET messages :
        /\ UNCHANGED <<clients, messages>>
        /\ \A m \in rows : m.content = "text" /\ m.to = req[c].client_id
        /\ \/ rows = SelectUnread(messages, req[c].client_id)
           \/ rows = {} /\ faults' < MaxFaults
        /\ Answered(c, [code |-> "GET_UNREAD_MESSAGES_SUCCESS",
                        rows |-> rows])

Replying(c) == \/ Refused(c) \/ Registered(c) \/ Listed(c) \/ KeyFound(c)
               \/ Stored(c) \/ Fetched(c)

\* A callback that received a request ends in the loop or with a reply.
LEMMA ReceivedCalled ==
    ASSUME TypeOK, NEW c \in Conn, Receive(c), faults' \in 0..faults
    PROVE  Called
  BY DEF TypeOK, Receive, Loop, Called

\* A handler that ran ends in the loop or with a reply.
LEMMA HandlerReplies ==
    ASSUME TypeOK, NEW c \in Conn,
           \/ HandleRegister(c) \/ HandleClientsList(c)
           \/ HandlePublicKey(c) \/ HandleSend(c) \/ HandleUnread(c)
    PROVE  Unanswered \/ Replying(c)
<1>1. CASE HandleRegister(c)
  <2>1. Called /\ req[c] \in Request /\ req[c].code = "REGISTER_CLIENT"
    BY <1>1, RegisterOutcome, Dispatched, ReceivedCalled DEF Dispatch
  <2> QED BY <1>1, <2>1, RegisterOutcome
          DEF Raise, Answer, Unanswered, Answered, Replying, Refused,
              Registered
<1>2. CASE HandleClientsList(c)
  <2>1. Called /\ req[c] \in Request
    BY <1>2, ListOutcome, Dispatched, ReceivedCalled DEF Dispatch
  <2> QED BY <1>2, <2>1, ListOutcome
          DEF Raise, Answer, Unanswered, Answered, Replying, Refused, Listed
<1>3. CASE HandlePublicKey(c)
  <2>1. Called /\ req[c] \in Request
    BY <1>3, PublicKeyOutcome, Dispatched, ReceivedCalled DEF Dispatch
  <2> QED BY <1>3, <2>1, PublicKeyOutcome
          DEF Raise, Answer, Unanswered, Answered, Replying, Refused,
              KeyFound
<1>4. CASE HandleSend(c)
  <2>1. /\ Called /\ req[c] \in Request /\ req[c].code = "SEND_MESSAGE"
        /\ ClientIdExists(clients, req[c].client_id)
    BY <1>4, SendOutcome, Dispatched, ReceivedCalled DEF Dispatch
  <2> QED BY <1>4, <2>1, SendOutcome
          DEF Raise, Answer, Unanswered, Answered, Replying, Refused, Stored
<1>5. CASE HandleUnread(c)
  <2>1. Called /\ req[c] \in Request
    BY <1>5, UnreadOutcome, Dispatched, ReceivedCalled DEF Dispatch
  <2> QED BY <1>5, <2>1, UnreadOutcome
          DEF Raise, Answer, Unanswered, Answered, Replying, Fetched
<1> QED BY <1>1, <1>2, <1>3, <1>4, <1>5

\* Every step of the system is one of the outcomes named above.
LEMMA StepCases ==
    ASSUME TypeOK, [Next]_vars
    PROVE  \/ Outside \/ Unanswered
           \/ \E c \in Conn : Replying(c)
           \/ WriteFails \/ WriteReply \/ DeleteNext \/ CrashRestart
<1> USE DEF db, task, conns
<1>0. faults \in Nat /\ faults \in 0..faults
  BY BoundsAssumption DEF TypeOK
<1>1. ASSUME NEW c \in Conn, Connect(c) PROVE Outside
  BY <1>1 DEF Connect, Outside
<1>2. ASSUME NEW c \in Conn, Ask(c) PROVE Outside
  <2>1. /\ req[c] = Nothing /\ req'[c] # Nothing
        /\ \A d \in Conn \ {c} : req'[d] = req[d] /\ pending'[d] = pending[d]
    BY <1>2, InputsAssumption, RequestShape DEF Ask, TypeOK
  <2> QED BY <1>2, <2>1 DEF Ask, Outside
<1>3. ASSUME NEW c \in Conn, Leave(c) PROVE Outside
  BY <1>3 DEF Leave, Outside, TypeOK
<1>4. CASE Select
  BY <1>0, <1>4 DEF Select, Unanswered, Called
<1>5. CASE Accept
  BY <1>0, <1>5 DEF Accept, Loop, Unanswered, Called
<1>6. ASSUME NEW c \in Conn, ReadNothing(c) PROVE Unanswered
  BY <1>0, <1>6 DEF ReadNothing, Loop, Close, Unanswered, Called
<1>7. ASSUME NEW c \in Conn, ReadReset(c) PROVE Unanswered
  BY <1>0, <1>7 DEF ReadReset, Loop, Raise, Unanswered, Called
<1>8. ASSUME NEW c \in Conn, Reject(c) PROVE Unanswered
  BY <1>0, <1>8, ReceivedCalled DEF Reject, Close, Unanswered
<1>9. ASSUME NEW c \in Conn, CheckRaises(c) PROVE Unanswered
  <2>1. faults' \in 0..faults
    BY <1>0, <1>9 DEF CheckRaises
  <2> QED BY <1>9, <2>1, ReceivedCalled DEF CheckRaises, Raise, Unanswered
<1>10. ASSUME NEW c \in Conn, TornBody(c) PROVE Refused(c)
  <2>1. Called
    BY <1>0, <1>10, ReceivedCalled DEF TornBody, Dispatch
  <2>2. req[c] \in Request
    BY <1>10, Dispatched DEF TornBody
  <2> QED BY <1>10, <2>1, <2>2 DEF TornBody, Answer, Refused, Answered
<1>11. ASSUME NEW c \in Conn,
              \/ HandleRegister(c) \/ HandleClientsList(c)
              \/ HandlePublicKey(c) \/ HandleSend(c) \/ HandleUnread(c)
       PROVE  Unanswered \/ Replying(c)
  BY <1>11, HandlerReplies
<1>12. CASE UNCHANGED vars
  BY <1>12 DEF vars, Outside
<1> QED
  BY <1>1, <1>2, <1>3, <1>4, <1>5, <1>6, <1>7, <1>8, <1>9, <1>10, <1>11,
     <1>12
     DEF Next, ClientStep, ServerStep, Callback, Replying

-----------------------------------------------------------------------------
(* The tables. *)

TableInv == TypeOK /\ RefIntegrity /\ UniqueNames /\ UniqueRowIds

\* The assumptions on the file found give the facts about the tables.
LEMMA TableInit == ASSUME Init PROVE TableInv
<1>1. TypeOK
  BY TypeInit
<1>2. RefIntegrity
  BY InitMessagesAssumption DEF Init, RefIntegrity, ClientIdExists
<1>3. UniqueNames /\ UniqueRowIds
  BY InitClientsAssumption, InitMessagesAssumption
     DEF Init, UniqueNames, UniqueRowIds
<1> QED BY <1>1, <1>2, <1>3 DEF TableInv

\* No step breaks them: rows come from Registered and Stored, and leave in
\* DeleteNext.
LEMMA TableStep == ASSUME TableInv, [Next]_vars PROVE TableInv'
<1> USE DEF TableInv
<1>1. TypeOK'
  BY TypeStep
<1>2. CASE UNCHANGED <<clients, messages>>
  BY <1>1, <1>2 DEF RefIntegrity, UniqueNames, UniqueRowIds
<1>3. ASSUME NEW c \in Conn, Registered(c) PROVE TableInv'
  BY <1>1, <1>3
     DEF Registered, InsertClient, ClientNameExists, RefIntegrity,
         UniqueNames, UniqueRowIds
<1>4. ASSUME NEW c \in Conn, Stored(c) PROVE TableInv'
  <2>1. PICK i \in RowId :
          /\ ClientIdExists(clients, req[c].to)
          /\ ClientIdExists(clients, req[c].client_id)
          /\ \A m \in messages : m.id < i
          /\ clients' = clients
          /\ messages' = messages \cup
               {[id |-> i, to |-> req[c].to, from |-> req[c].client_id,
                 content |-> "bytes"]}
    BY <1>4 DEF Stored, IsNextRowId, InsertMessage
  <2>2. RefIntegrity'
    BY <2>1 DEF RefIntegrity, ClientIdExists
  <2>3. \A m \in messages : m.id # i
    BY <2>1, RowIdAssumption DEF TypeOK, MessageRow
  <2>4. UniqueRowIds'
    BY <2>1, <2>3 DEF UniqueRowIds
  <2> QED BY <1>1, <2>1, <2>2, <2>4 DEF UniqueNames
<1>5. CASE DeleteNext
  <2>1. clients' = clients /\ messages' \subseteq messages
    BY <1>5 DEF DeleteNext, DeleteMsg
  <2> QED BY <1>1, <2>1 DEF RefIntegrity, UniqueNames, UniqueRowIds
<1> QED
  BY <1>2, <1>3, <1>4, <1>5, StepCases
     DEF Outside, Unanswered, Replying, Refused, Listed, KeyFound, Fetched,
         WriteFails, WriteReply, CrashRestart, db

\* Every stored message is between two registered clients, and no two
\* clients have one name, in every state of every instance.
THEOREM TablesCorrect == Spec => [](RefIntegrity /\ UniqueNames)
<1>1. TableInv => RefIntegrity /\ UniqueNames
  BY DEF TableInv
<1> QED BY <1>1, TableInit, TableStep, PTL DEF Spec

\* No two clients have one name, although nothing but the check before the
\* insert keeps them apart.
THEOREM NamesUnique == Spec => []UniqueNames
<1> QED BY TablesCorrect, PTL

-----------------------------------------------------------------------------
(* The thread and the replies. *)

\* A connection is asked before it is answered.
LEMMA AskedFirstStep ==
    ASSUME TypeOK, AskedFirst, [Next]_vars
    PROVE  AskedFirst'
<1> USE DEF AskedFirst, Replied
<1>1. CASE Outside
  BY <1>1 DEF Outside
<1>2. CASE Unanswered
  BY <1>2 DEF Unanswered, Called
<1>3. ASSUME NEW c \in Conn, NEW r, r # Nothing, Answered(c, r)
      PROVE  AskedFirst'
  BY <1>3, RequestShape DEF Answered, Called
<1>4. ASSUME NEW c \in Conn, Replying(c) PROVE AskedFirst'
  <2>1. \E r : r # Nothing /\ Answered(c, r)
    BY <1>4 DEF Replying, Refused, Registered, Listed, KeyFound, Stored,
                Fetched, Nothing, Error
  <2> QED BY <1>3, <2>1
<1>5. CASE WriteFails
  BY <1>5 DEF WriteFails, Close
<1>6. CASE WriteReply
  <2>1. /\ UNCHANGED <<req, pending>>
        /\ pc' # "reply"
        /\ pc' = "loop" \/ cur' = cur
        /\ \A c \in Conn \ {cur} : sent'[c] = sent[c]
    BY <1>6 DEF WriteReply, Finish, Close, Raise, TypeOK
  <2> QED BY <1>6, <2>1 DEF WriteReply
<1>7. CASE DeleteNext
  BY <1>7 DEF DeleteNext, Close
<1>8. CASE CrashRestart
  BY <1>8 DEF CrashRestart
<1> QED BY <1>1, <1>2, <1>4, <1>5, <1>6, <1>7, <1>8, StepCases

\* What a reply being written does to the connections.
LEMMA Written ==
    ASSUME TypeOK, AskedFirst, WriteReply
    PROVE  /\ cur \in Conn
           /\ pc = "reply"
           /\ UNCHANGED <<clients, messages, req, faults, crashes>>
           /\ sent'[cur].reply = resp
           /\ \A c \in Conn \ {cur} : sent'[c] = sent[c]
           /\ \/ pc' = "loop" /\ (sent'[cur].whole => Doomed(resp) = {})
              \/ pc' = "delete" /\ cur' = cur /\ doomed' = Doomed(resp)
<1>1. cur \in Conn /\ pc = "reply"
  BY DEF AskedFirst, WriteReply
<1>2. PICK whole \in BOOLEAN :
        /\ sent' = [sent EXCEPT ![cur] = [reply |-> resp, whole |-> whole]]
        /\ Finish(resp) \/ (~whole /\ Raise)
  BY DEF WriteReply
<1>3. /\ sent'[cur] = [reply |-> resp, whole |-> whole]
      /\ \A c \in Conn \ {cur} : sent'[c] = sent[c]
  BY <1>1, <1>2 DEF TypeOK
<1>4. UNCHANGED <<clients, messages, req, faults, crashes>>
  BY DEF WriteReply, db
<1> QED BY <1>1, <1>2, <1>3, <1>4 DEF Finish, Close, Raise

\* What one delete does.
LEMMA Deleted ==
    ASSUME TypeOK, AskedFirst, DeleteNext
    PROVE  /\ cur \in Conn
           /\ pc = "delete"
           /\ UNCHANGED <<clients, req, sent, crashes>>
           /\ faults' \in 0..faults
           /\ \E i \in doomed :
                /\ \/ messages' = {m \in messages : m.id # i}
                   \/ messages' = messages /\ faults' < MaxFaults
                /\ \/ pc' = "loop" /\ doomed = {i}
                   \/ pc' = "delete" /\ cur' = cur /\ doomed' = doomed \ {i}
<1>1. PICK i \in doomed, bad \in Failing({"delete"}) :
        /\ Spend(bad)
        /\ messages' = IF bad = "none" THEN DeleteMsg(messages, i)
                                       ELSE messages
        /\ \/ doomed = {i} /\ Close(cur)
           \/ /\ doomed' = doomed \ {i}
              /\ UNCHANGED <<srv, batch, pc, cur, resp>>
  BY DEF DeleteNext
<1>2. faults' \in 0..faults /\ (bad # "none" => faults' < MaxFaults)
  BY <1>1, SpendBudget
<1>3. /\ cur \in Conn /\ pc = "delete"
      /\ UNCHANGED <<clients, req, sent, crashes>>
  BY DEF DeleteNext, AskedFirst
<1> QED BY <1>1, <1>2, <1>3 DEF Close, DeleteMsg

\* Budgets are only spent.
LEMMA BudgetsFall ==
    ASSUME TypeOK, AskedFirst, [Next]_vars
    PROVE  /\ faults' = MaxFaults => faults = MaxFaults
           /\ crashes' = MaxCrashes => crashes = MaxCrashes
<1>1. /\ faults \in 0..MaxFaults /\ crashes \in 0..MaxCrashes
      /\ MaxFaults \in Nat /\ MaxCrashes \in Nat
  BY BoundsAssumption DEF TypeOK
<1>2. faults' \in 0..faults
  BY <1>1, StepCases, Deleted, Written
     DEF Outside, Unanswered, Called, Replying, Answered, Refused,
         Registered, Listed, KeyFound, Stored, Fetched, WriteFails,
         CrashRestart
<1>3. crashes' = crashes \/ crashes' = crashes - 1
  BY <1>1, StepCases, Deleted, Written
     DEF Outside, Unanswered, Called, Replying, Answered, Refused,
         Registered, Listed, KeyFound, Stored, Fetched, WriteFails,
         CrashRestart
<1> QED BY <1>1, <1>2, <1>3

\* Rows of written fetch replies stay as they were fetched.
LEMMA SentRowsStep ==
    ASSUME TypeOK, AskedFirst, SentRowsReadable, ReplyInHand, [Next]_vars
    PROVE  SentRowsReadable'
<1> USE DEF SentRowsReadable, FetchRows
<1>1. CASE UNCHANGED <<req, sent>>
  BY <1>1
<1>2. CASE Outside
  BY <1>2 DEF Outside, AskedFirst, Replied
<1>3. CASE WriteReply
  <2>1. SUFFICES ASSUME NEW c \in Conn PROVE FetchRows(sent[c].reply, c)'
    OBVIOUS
  <2>2. CASE c = cur
    BY <1>3, <2>2, Written DEF ReplyInHand
  <2>3. CASE c # cur
    BY <1>3, <2>3, Written
  <2> QED BY <2>2, <2>3
<1> QED
  BY <1>1, <1>2, <1>3, StepCases, Deleted
     DEF Unanswered, Called, Replying, Answered, Refused, Registered,
         Listed, KeyFound, Stored, Fetched, WriteFails, CrashRestart

\* The handler makes the reply true, and no step changes the tables
\* before it is written.
LEMMA ReplyInHandStep ==
    ASSUME TypeOK, AskedFirst, ReplyInHand, UniqueNames, [Next]_vars
    PROVE  ReplyInHand'
<1> USE DEF ReplyInHand, FetchRows
<1>1. CASE pc' # "reply"
  BY <1>1
<1>2. CASE Outside
  <2>1. CASE pc = "reply"
    <3>1. /\ UNCHANGED <<clients, messages, resp, cur, faults>>
          /\ req'[cur] = req[cur]
      BY <1>2, <2>1 DEF Outside, AskedFirst
    <3> QED BY <2>1, <3>1
  <2> QED BY <1>2, <2>1 DEF Outside
<1>3. ASSUME NEW c \in Conn, Refused(c) \/ Listed(c) PROVE ReplyInHand'
  BY <1>3 DEF Refused, Listed, Answered, Error
<1>4. ASSUME NEW c \in Conn, Registered(c) PROVE ReplyInHand'
  <2>1. PICK i \in Id :
          /\ clients' = clients \cup {[id |-> i, name |-> req[c].name,
                                      key |-> req[c].key]}
          /\ req' = req /\ cur' = c
          /\ resp' = [code |-> "REGISTER_SUCCESS", id |-> i]
    BY <1>4 DEF Registered, Answered, Called, InsertClient
  <2>2. [id |-> i, name |-> req[c].name, key |-> req[c].key] \in clients'
    BY <2>1
  <2> QED BY <2>1, <2>2
<1>5. ASSUME NEW c \in Conn, KeyFound(c) PROVE ReplyInHand'
  BY <1>5 DEF KeyFound, Answered, Called, ClientsNamed, UniqueNames
<1>6. ASSUME NEW c \in Conn, Stored(c) PROVE ReplyInHand'
  <2>1. PICK i \in RowId :
          /\ messages' = messages \cup
               {[id |-> i, to |-> req[c].to, from |-> req[c].client_id,
                 content |-> "bytes"]}
          /\ req' = req /\ cur' = c
          /\ resp' = [code |-> "MESSAGE_SENT_SUCCESS", to |-> req[c].to,
                      msg_id |-> i]
    BY <1>6 DEF Stored, Answered, Called, InsertMessage
  <2>2. [id |-> i, to |-> req[c].to, from |-> req[c].client_id,
         content |-> "bytes"] \in messages'
    BY <2>1
  <2> QED BY <2>1, <2>2
<1>7. ASSUME NEW c \in Conn, Fetched(c) PROVE ReplyInHand'
  <2>1. PICK rows \in SUBSET messages :
          /\ UNCHANGED <<clients, messages>>
          /\ \A m \in rows : m.content = "text" /\ m.to = req[c].client_id
          /\ \/ rows = {m \in messages : m.to = req[c].client_id}
             \/ rows = {} /\ faults' < MaxFaults
          /\ req' = req /\ pc' = "reply" /\ cur' = c
          /\ resp' = [code |-> "GET_UNREAD_MESSAGES_SUCCESS",
                      rows |-> rows]
    BY <1>7 DEF Fetched, Answered, Called, SelectUnread
  <2> QED BY <2>1
<1> QED
  BY <1>1, <1>2, <1>3, <1>4, <1>5, <1>6, <1>7, StepCases, Written, Deleted
     DEF Unanswered, Replying, WriteFails, Close, CrashRestart

\* The ids to delete come from the reply just written, and each delete
\* takes one of them away.
LEMMA DoomedHandedStep ==
    ASSUME TypeOK, AskedFirst, ReplyInHand, DoomedHanded, [Next]_vars
    PROVE  DoomedHanded'
<1> USE DEF DoomedHanded, Replied
<1>1. CASE pc' # "delete"
  BY <1>1
<1>2. CASE Outside
  BY <1>2 DEF Outside
<1>3. CASE WriteReply /\ pc' = "delete"
  <2>1. /\ cur' = cur /\ messages' = messages
        /\ sent'[cur].reply = resp /\ doomed' = Doomed(resp)
    BY <1>3, Written
  <2>2. CASE resp.code = "GET_UNREAD_MESSAGES_SUCCESS"
    <3>1. resp.rows \subseteq messages /\ doomed' = {m.id : m \in resp.rows}
      BY <1>3, <2>1, <2>2 DEF ReplyInHand, WriteReply, Doomed
    <3> QED BY <2>1, <2>2, <3>1
  <2>3. CASE resp.code # "GET_UNREAD_MESSAGES_SUCCESS"
    <3>1. pc' = "loop"
      BY <1>3, <2>3 DEF WriteReply, Finish, Close, Raise, Doomed
    <3> QED BY <3>1
  <2> QED BY <2>2, <2>3
<1>4. CASE DeleteNext /\ pc' = "delete"
  <2>1. PICK i \in doomed :
          /\ messages' = {m \in messages : m.id # i} \/ messages' = messages
          /\ cur' = cur /\ doomed' = doomed \ {i}
    BY <1>4, Deleted
  <2> QED BY <1>4, <2>1, Deleted
<1> QED
  BY <1>1, <1>2, <1>3, <1>4, StepCases
     DEF Unanswered, Replying, Answered, Refused, Registered, Listed,
         KeyFound, Stored, Fetched, WriteFails, Close, CrashRestart

-----------------------------------------------------------------------------
(* What replies promise. *)

\* No statement of the program removes a client.
LEMMA ClientsGrow ==
    ASSUME TypeOK, AskedFirst, [Next]_vars
    PROVE  clients \subseteq clients'
<1>1. \A c \in Conn : Registered(c) => clients \subseteq clients'
  BY DEF Registered, InsertClient
<1> QED
  BY <1>1, StepCases, Written, Deleted
     DEF Outside, Unanswered, Replying, Refused, Listed, KeyFound, Stored,
         Fetched, WriteFails, CrashRestart, db

\* A reply that was written before the step, or is written by it.
LEMMA SentCases ==
    ASSUME TypeOK, AskedFirst, [Next]_vars, NEW c \in Conn,
           ~Replied(c, "NOTHING")'
    PROVE  /\ req'[c] = req[c]
           /\ \/ sent'[c] = sent[c] /\ ~Replied(c, "NOTHING")
              \/ /\ WriteReply /\ c = cur
                 /\ pc = "reply" /\ sent'[c].reply = resp
<1> USE DEF Replied
<1>1. CASE UNCHANGED <<req, sent>>
  BY <1>1
<1>2. CASE Outside
  BY <1>2 DEF Outside, AskedFirst
<1>3. CASE WriteReply
  BY <1>3, Written
<1> QED
  BY <1>1, <1>2, <1>3, StepCases, Deleted
     DEF Unanswered, Called, Replying, Answered, Refused, Registered,
         Listed, KeyFound, Stored, Fetched, WriteFails, CrashRestart

\* What was true when the reply was written stays true, as clients only grow.
LEMMA DirectoryStep ==
    ASSUME TypeOK, AskedFirst, ReplyInHand, RegistrationDurable,
           DirectoryReplyConsistent, [Next]_vars
    PROVE  RegistrationDurable' /\ DirectoryReplyConsistent'
<1> USE DEF Replied
<1>1. ASSUME NEW c \in Conn, Replied(c, "REGISTER_SUCCESS")'
      PROVE  \E r \in clients' : /\ r.id = sent'[c].reply.id
                                 /\ r.name = req'[c].name
                                 /\ r.key = req'[c].key
  BY <1>1, SentCases, ClientsGrow DEF RegistrationDurable, ReplyInHand
<1>2. ASSUME NEW c \in Conn, Replied(c, "GET_PUBLIC_KEY_SUCCESS")'
      PROVE  \E r \in clients' : /\ r.name = req'[c].name
                                 /\ r.id = sent'[c].reply.id
                                 /\ r.key = sent'[c].reply.key
  BY <1>2, SentCases, ClientsGrow DEF DirectoryReplyConsistent, ReplyInHand
<1> QED BY <1>1, <1>2 DEF RegistrationDurable, DirectoryReplyConsistent

\* Only readable messages are deleted.
LEMMA BytesStay ==
    ASSUME TypeOK, AskedFirst, UniqueRowIds, SentRowsReadable, DoomedHanded,
           [Next]_vars, NEW m \in messages, m.content = "bytes"
    PROVE  m \in messages'
<1>1. CASE messages' = messages
  BY <1>1
<1>2. ASSUME NEW c \in Conn, Stored(c) PROVE m \in messages'
  BY <1>2 DEF Stored, InsertMessage
<1>3. CASE DeleteNext
  <2>1. PICK i \in doomed : messages' = {n \in messages : n.id # i}
                              \/ messages' = messages
    BY <1>3, Deleted
  <2>2. m.id # i
    <3>1. PICK n \in messages : n.id = i /\ n \in sent[cur].reply.rows
      BY <1>3, Deleted DEF DoomedHanded
    <3>2. n.content = "text"
      BY <1>3, <3>1, Deleted DEF DoomedHanded, SentRowsReadable, FetchRows,
                                 Replied
    <3> QED BY <3>1, <3>2 DEF UniqueRowIds
  <2> QED BY <2>1, <2>2
<1> QED
  BY <1>1, <1>2, <1>3, StepCases, Written
     DEF Outside, Unanswered, Replying, Refused, Registered, Listed,
         KeyFound, Fetched, WriteFails, CrashRestart, db

\* An acknowledged message is stored as bytes, so it stays.
LEMMA AckedStep ==
    ASSUME TypeOK, AskedFirst, UniqueRowIds, SentRowsReadable, ReplyInHand,
           DoomedHanded, AckedMessageStays, [Next]_vars
    PROVE  AckedMessageStays'
<1> SUFFICES ASSUME NEW c \in Conn, Replied(c, "MESSAGE_SENT_SUCCESS")'
             PROVE  \E m \in messages' : /\ m.id = sent'[c].reply.msg_id
                                         /\ m.to = req'[c].to
                                         /\ m.from = req'[c].client_id
                                         /\ m.content = "bytes"
  BY DEF AckedMessageStays
<1>1. \E m \in messages : /\ m.id = sent'[c].reply.msg_id
                          /\ m.to = req[c].to
                          /\ m.from = req[c].client_id
                          /\ m.content = "bytes"
  BY SentCases DEF Replied, AckedMessageStays, ReplyInHand
<1>2. req'[c] = req[c]
  BY SentCases DEF Replied
<1> QED BY <1>1, <1>2, BytesStay

-----------------------------------------------------------------------------
(* Delivery without failures. *)

\* A fetch reply that was taken whole.
WholeFetch(c) ==
    sent[c].whole /\ Replied(c, "GET_UNREAD_MESSAGES_SUCCESS")

\* Deletes keep pace with deliveries.
LEMMA HandedStep ==
    ASSUME TypeOK, AskedFirst, SentRowsReadable, ReplyInHand, HandedIsGone,
           [Next]_vars
    PROVE  HandedIsGone'
<1> SUFFICES ASSUME faults' = MaxFaults, crashes' = MaxCrashes,
                    NEW c \in Conn, WholeFetch(c)',
                    NEW m \in sent'[c].reply.rows \cap messages'
             PROVE  pc' = "delete" /\ c = cur' /\ m.id \in doomed'
  BY DEF HandedIsGone, WholeFetch
<1> USE DEF WholeFetch, Replied
<1>0. faults = MaxFaults /\ crashes = MaxCrashes
  BY BudgetsFall
\* What the invariant says of a reply that is there before the step.
<1>1. ASSUME sent'[c] = sent[c], m \in messages
      PROVE  pc = "delete" /\ c = cur /\ m.id \in doomed
  BY <1>0, <1>1 DEF HandedIsGone
<1>2. CASE Outside
  BY <1>1, <1>2 DEF Outside
<1>3. CASE Unanswered
  BY <1>1, <1>3 DEF Unanswered, Called
<1>4. ASSUME NEW d \in Conn, Replying(d) PROVE FALSE
  <2>1. pc = "loop" /\ sent' = sent
    BY <1>4 DEF Replying, Answered, Called, Refused, Registered, Listed,
                KeyFound, Stored, Fetched
  <2>2. m \in messages
    <3>1. m.content = "text"
      BY <2>1 DEF SentRowsReadable, FetchRows
    <3>2. CASE Stored(d)
      <4>1. \A n \in messages' : n \in messages \/ n.content = "bytes"
        BY <3>2 DEF Stored, InsertMessage
      <4> QED BY <3>1, <4>1
    <3>3. CASE ~Stored(d)
      BY <1>4, <3>3 DEF Replying, Refused, Registered, Listed, KeyFound,
                        Fetched
    <3> QED BY <3>2, <3>3
  <2> QED BY <1>1, <2>1, <2>2
<1>5. CASE WriteFails
  BY <1>1, <1>5 DEF WriteFails, db
<1>6. CASE WriteReply
  <2>1. c = cur
    BY <1>1, <1>6, Written
  <2>2. m.id \in Doomed(resp)
    BY <1>6, <2>1, Written DEF Doomed
  <2> QED BY <1>6, <2>1, <2>2, Written
<1>7. CASE DeleteNext
  <2>1. faults' < MaxFaults => FALSE
    BY BoundsAssumption
  <2>2. PICK i \in doomed :
          /\ messages' = {n \in messages : n.id # i}
          /\ \/ pc' = "loop" /\ doomed = {i}
             \/ pc' = "delete" /\ cur' = cur /\ doomed' = doomed \ {i}
    BY <1>7, <2>1, Deleted
  <2>3. c = cur /\ m.id \in doomed
    BY <1>1, <1>7, <2>2, Deleted
  <2> QED BY <2>2, <2>3
<1>8. CASE CrashRestart
  BY <1>0, <1>8, BoundsAssumption DEF CrashRestart, TypeOK
<1> QED BY <1>2, <1>3, <1>4, <1>5, <1>6, <1>7, <1>8, StepCases

\* A new fetch reply holds nothing that an older whole one held.
LEMMA NoDuplicateStep ==
    ASSUME TypeOK, AskedFirst, ReplyInHand, HandedIsGone,
           NoDuplicateDelivery, [Next]_vars
    PROVE  NoDuplicateDelivery'
<1> SUFFICES ASSUME faults' = MaxFaults, crashes' = MaxCrashes,
                    NEW c \in Conn, NEW d \in Conn, c # d,
                    WholeFetch(c)', WholeFetch(d)'
             PROVE  sent'[c].reply.rows \cap sent'[d].reply.rows = {}
  BY DEF NoDuplicateDelivery, WholeFetch
<1> USE DEF WholeFetch, Replied
<1>0. faults = MaxFaults /\ crashes = MaxCrashes
  BY BudgetsFall
\* The reply in hand holds messages of the table, and no older one does.
<1>1. ASSUME NEW x \in Conn, NEW y \in Conn, x # y, WholeFetch(x)',
             WholeFetch(y)', WriteReply, x = cur
      PROVE  sent'[x].reply.rows \cap sent'[y].reply.rows = {}
  <2>1. sent'[x].reply.rows \subseteq messages
    BY <1>1, Written DEF ReplyInHand
  <2>2. sent'[y].reply.rows \cap messages = {}
    BY <1>0, <1>1, Written DEF HandedIsGone
  <2> QED BY <2>1, <2>2
<1>2. CASE sent'[c] = sent[c] /\ sent'[d] = sent[d]
  BY <1>0, <1>2 DEF NoDuplicateDelivery
<1> QED BY <1>1, <1>2, SentCases

-----------------------------------------------------------------------------
(* The inductive invariant, and the theorems it gives. *)

\* The invariant holds at the start.
LEMMA IndInit == ASSUME Init PROVE IndInv
<1>1. TypeOK /\ RefIntegrity /\ UniqueNames /\ UniqueRowIds
  BY TableInit DEF TableInv
<1>2. /\ pc = "loop"
      /\ \A c \in Conn : ~pending[c] /\ sent[c].reply.code = "NOTHING"
  BY DEF Init, Idle, Nothing
<1> QED
  BY <1>1, <1>2
     DEF IndInv, AskedFirst, SentRowsReadable, FetchRows, ReplyInHand,
         DoomedHanded, RegistrationDurable, DirectoryReplyConsistent,
         AckedMessageStays, HandedIsGone, NoDuplicateDelivery, Replied

\* Every step keeps the invariant.
LEMMA IndStep == ASSUME IndInv, [Next]_vars PROVE IndInv'
  BY TableStep, AskedFirstStep, SentRowsStep, ReplyInHandStep,
     DoomedHandedStep, DirectoryStep, AckedStep, HandedStep,
     NoDuplicateStep
     DEF IndInv, TableInv

\* The invariant from which the theorems below follow: what the tables hold,
\* what is true of the reply in hand and of the ids still to be deleted, and
\* what written replies promise.
THEOREM Invariance == Spec => []IndInv
<1> QED BY IndInit, IndStep, PTL DEF Spec

\* Whoever was told that it is registered is in the table for good.
THEOREM RegistrationsKept == Spec => []RegistrationDurable
<1>1. IndInv => RegistrationDurable
  BY DEF IndInv
<1> QED BY <1>1, Invariance, PTL

\* An acknowledged message is in the table, or was handed to its recipient.
THEOREM AcknowledgedKept == Spec => []AckedMessageDurable
<1>1. IndInv => AckedMessageDurable
  <2> SUFFICES ASSUME IndInv, NEW c \in Conn,
                      Replied(c, "MESSAGE_SENT_SUCCESS")
               PROVE  \E m \in messages : /\ m.id = sent[c].reply.msg_id
                                          /\ m.to = req[c].to
                                          /\ m.from = req[c].client_id
                                          /\ m \in MessageRow
    BY DEF AckedMessageDurable
  <2> QED BY DEF IndInv, AckedMessageStays, TypeOK
<1> QED BY <1>1, Invariance, PTL

\* The two lookups of a public-key reply found one client.
THEOREM DirectoryConsistent == Spec => []DirectoryReplyConsistent
<1>1. IndInv => DirectoryReplyConsistent
  BY DEF IndInv
<1> QED BY <1>1, Invariance, PTL

\* Without failed deletes and crashes no message is delivered twice.
THEOREM DeliveredOnce == Spec => []NoDuplicateDelivery
<1>1. IndInv => NoDuplicateDelivery
  BY DEF IndInv
<1> QED BY <1>1, Invariance, PTL

\* A message leaves the table only after it was in a reply to its recipient.
THEOREM DeletionsJustified == Spec => DeletedOnlyAfterHanded
<1>1. ASSUME IndInv, [Next]_vars, NEW m \in messages, m \notin messages'
      PROVE  \E c \in Conn : /\ Replied(c, "GET_UNREAD_MESSAGES_SUCCESS")
                             /\ m \in sent[c].reply.rows
                             /\ req[c].client_id = m.to
  <2> USE DEF IndInv
  <2>1. DeleteNext
    <3>1. \A c \in Conn : Stored(c) => messages \subseteq messages'
      BY DEF Stored, InsertMessage
    <3> QED
      BY <1>1, <3>1, StepCases, Written
         DEF Outside, Unanswered, Replying, Refused, Registered, Listed,
             KeyFound, Fetched, WriteFails, CrashRestart, db
  <2>2. PICK i \in doomed : messages' = {n \in messages : n.id # i}
    BY <1>1, <2>1, Deleted
  <2>3. PICK n \in messages : n.id = i /\ n \in sent[cur].reply.rows
    BY <1>1, <2>1, Deleted DEF DoomedHanded
  <2>4. m = n
    BY <1>1, <2>2, <2>3 DEF UniqueRowIds
  <2> QED BY <1>1, <2>1, <2>3, <2>4, Deleted
          DEF DoomedHanded, SentRowsReadable, FetchRows, Replied
<1>2. IndInv /\ [Next]_vars =>
        [\A m \in messages : m \notin messages' =>
           \E c \in Conn : /\ Replied(c, "GET_UNREAD_MESSAGES_SUCCESS")
                           /\ m \in sent[c].reply.rows
                           /\ req[c].client_id = m.to]_vars
  BY <1>1
<1> QED BY <1>2, Invariance, PTL DEF Spec, DeletedOnlyAfterHanded

\* A fetch reply is the whole mailbox or, once a database call has failed,
\* nothing; it is never a part.
THEOREM FetchesComplete == Spec => FetchReturnsMailbox
<1>1. ASSUME IndInv, [Next]_vars, NEW c \in Conn, Replied(c, "NOTHING"),
             Replied(c, "GET_UNREAD_MESSAGES_SUCCESS")'
      PROVE  \/ sent'[c].reply.rows =
                  {m \in messages : m.to = req[c].client_id}
             \/ sent'[c].reply.rows = {} /\ faults < MaxFaults
  BY <1>1, SentCases DEF IndInv, ReplyInHand, Replied
<1>2. IndInv /\ [Next]_vars =>
        [\A c \in Conn :
           /\ Replied(c, "NOTHING")
           /\ Replied(c, "GET_UNREAD_MESSAGES_SUCCESS")'
           => \/ sent'[c].reply.rows =
                   {m \in messages : m.to = req[c].client_id}
              \/ sent'[c].reply.rows = {} /\ faults < MaxFaults]_vars
  BY <1>1
<1> QED BY <1>2, Invariance, PTL DEF Spec, FetchReturnsMailbox

-----------------------------------------------------------------------------
(* The loop. *)

\* Every step keeps the batch worth calling.
LEMMA BatchStep ==
    ASSUME TypeOK, AskedFirst, BatchLive, [Next]_vars
    PROVE  BatchLive'
<1> USE DEF TypeOK, BatchLive, Ready, task, db, conns
<1> USE ListenerAssumption
<1>1. ASSUME NEW c \in Conn, Connect(c) PROVE BatchLive'
  <2>1. Append(backlog, c) # << >>
    BY AppendProperties
  <2> QED BY <1>1, <2>1 DEF Connect
<1>2. ASSUME NEW c \in Conn, Ask(c) PROVE BatchLive'
  BY <1>2 DEF Ask
<1>3. ASSUME NEW c \in Conn, Leave(c) PROVE BatchLive'
  BY <1>3 DEF Leave
<1>4. CASE Select
  BY <1>4 DEF Select, ReadySet
<1>5. CASE Accept
  BY <1>5 DEF Accept, Loop
<1>6. ASSUME NEW c \in Conn, ReadNothing(c) PROVE BatchLive'
  BY <1>6 DEF ReadNothing, Close
<1>7. ASSUME NEW c \in Conn, ReadReset(c) PROVE BatchLive'
  BY <1>7 DEF ReadReset, Raise
<1>8. ASSUME NEW c \in Conn, Reject(c) PROVE BatchLive'
  BY <1>8 DEF Reject, Receive, Close
<1>9. ASSUME NEW c \in Conn, CheckRaises(c) PROVE BatchLive'
  BY <1>9 DEF CheckRaises, Raise
\* A handler leaves the rest of the batch as it was, or drops all of it.
<1>10. ASSUME NEW c \in Conn, NEW code, Dispatch(c, code),
              Raise \/ \E r : Answer(c, r)
       PROVE  BatchLive'
  BY <1>10 DEF Dispatch, Receive, Loop, Raise, Answer
<1>11. ASSUME NEW c \in Conn,
              \/ TornBody(c) \/ HandleRegister(c) \/ HandleClientsList(c)
              \/ HandlePublicKey(c) \/ HandleSend(c) \/ HandleUnread(c)
       PROVE  BatchLive'
  <2>1. \E code : Dispatch(c, code) /\ (Raise \/ \E r : Answer(c, r))
    BY <1>11, RegisterOutcome, ListOutcome, PublicKeyOutcome, SendOutcome,
       UnreadOutcome DEF TornBody
  <2> QED BY <1>10, <2>1
<1>12. CASE WriteFails
  BY <1>12 DEF WriteFails, Close
<1>13. CASE WriteReply
  <2>1. Close(cur) \/ Raise \/ UNCHANGED <<srv, batch, cur>>
    BY <1>13 DEF WriteReply, Finish
  <2>2. UNCHANGED <<peer, pending, backlog>> /\ pc = "reply"
    BY <1>13 DEF WriteReply
  <2> QED BY <2>1, <2>2 DEF Close, Raise
<1>14. CASE DeleteNext
  BY <1>14 DEF DeleteNext, Close
<1>15. CASE CrashRestart
  BY <1>15 DEF CrashRestart
<1>16. CASE UNCHANGED vars
  BY <1>16 DEF vars
<1> QED
  BY <1>1, <1>2, <1>3, <1>4, <1>5, <1>6, <1>7, <1>8, <1>9, <1>11, <1>12,
     <1>13, <1>14, <1>15, <1>16
     DEF Next, ClientStep, ServerStep, Callback

\* No callback runs on a socket that is closed or has nothing to read.
THEOREM BatchesLive == Spec => []BatchLive
<1>1. Init => BatchLive
  BY DEF Init, Idle, BatchLive
<1>2. IndInv /\ BatchLive /\ [Next]_vars => BatchLive'
  BY BatchStep DEF IndInv
<1> QED BY <1>1, <1>2, Invariance, PTL DEF Spec
=============================================================================
