--------------------------- MODULE MailboxProofs ---------------------------
(***************************************************************************)
(* The server implements Mailbox: each of its steps is a step of the       *)
(* promise under the mapping in module Server, or changes nothing of it.   *)
(***************************************************************************)
EXTENDS ServerProofs

-----------------------------------------------------------------------------
(* The steps, sorted by what the promise sees of them.                      *)

\* Nothing of it.
Unseen ==
    /\ UNCHANGED <<clients, messages, req, pending, sent>>
    /\ pc' = "reply" => pc = "reply" /\ UNCHANGED <<cur, resp>>

\* A request leaves its socket.
Leaves(c) ==
    /\ pending[c]
    /\ pending' = [pending EXCEPT ![c] = FALSE]
    /\ UNCHANGED <<req, sent>>

\* It is thrown away by a reset.
Lost(c) == Leaves(c) /\ UNCHANGED <<clients, messages, pc, cur, resp>>

\* The reply that a callback for c has in hand may be given.
Told(c) == pc = "reply" => cur = c /\ resp \in Promise!Truth(c)

\* It is received, and its callback ends in the loop or with a reply.
Handled(c) ==
    /\ Leaves(c)
    /\ UNCHANGED <<clients, messages>> \/ Registered(c) \/ Stored(c)
    /\ Told(c)'

\* An error may always be given.
LEMMA ErrorTold ==
    ASSUME NEW c \in Conn, pc' = "reply" => cur' = c /\ resp' = Error
    PROVE  Told(c)'
  BY DEF Told, Promise!Truth, Error

\* What handlers make of a request they received.
LEMMA HandlerTells ==
    ASSUME TypeOK, UniqueNames, NEW c \in Conn,
           \/ HandleRegister(c) \/ HandleClientsList(c)
           \/ HandlePublicKey(c) \/ HandleSend(c) \/ HandleUnread(c)
    PROVE  Told(c)'
<1>1. CASE HandleRegister(c)
  <2>1. /\ req' = req /\ req[c].code = "REGISTER_CLIENT"
        /\ \/ Raise \/ Answer(c, Error)
           \/ \E i \in Id :
                /\ clients' = InsertClient(clients, i, req[c].name,
                                           req[c].key)
                /\ Answer(c, [code |-> "REGISTER_SUCCESS", id |-> i])
    BY <1>1, RegisterOutcome DEF Dispatch, Receive
  <2>2. CASE Raise \/ Answer(c, Error)
    BY <2>2, ErrorTold DEF Raise, Answer
  <2>3. ASSUME NEW i \in Id,
               clients' = InsertClient(clients, i, req[c].name, req[c].key),
               Answer(c, [code |-> "REGISTER_SUCCESS", id |-> i])
        PROVE  Told(c)'
    <3>1. \E r \in {s \in clients' : /\ s.name = req'[c].name
                                     /\ s.key = req'[c].key} : r.id = i
      <4>1. [id |-> i, name |-> req[c].name, key |-> req[c].key] \in clients'
        BY <2>3 DEF InsertClient
      <4> QED BY <2>1, <4>1
    <3>2. /\ cur' = c /\ req'[c].code = "REGISTER_CLIENT"
          /\ resp' = [code |-> "REGISTER_SUCCESS", id |-> i]
      BY <2>1, <2>3 DEF Answer
    <3> QED BY <3>1, <3>2 DEF Told, Promise!Truth
  <2> QED BY <2>1, <2>2, <2>3
<1>2. CASE HandleClientsList(c)
  <2> DEFINE others == {r.id : r \in clients} \ {req[c].client_id}
  <2>1. /\ req' = req /\ req[c].code = "GET_CLIENTS_LIST"
        /\ clients' = clients
        /\ \/ Raise \/ Answer(c, Error)
           \/ Answer(c, [code |-> "GET_CLIENTS_LIST_SUCCESS",
                         ids |-> others])
    BY <1>2 DEF HandleClientsList, Dispatch, Receive, db
  <2>2. CASE Raise \/ Answer(c, Error)
    BY <2>2, ErrorTold DEF Raise, Answer
  <2>3. CASE Answer(c, [code |-> "GET_CLIENTS_LIST_SUCCESS",
                        ids |-> others])
    BY <2>1, <2>3 DEF Answer, Told, Promise!Truth
  <2> QED BY <2>1, <2>2, <2>3
<1>3. CASE HandlePublicKey(c)
  <2>1. /\ req' = req /\ req[c].code = "GET_PUBLIC_KEY"
        /\ clients' = clients
        /\ \/ Raise \/ Answer(c, Error)
           \/ \E r \in clients :
                /\ r.name = req[c].name
                /\ Answer(c, [code |-> "GET_PUBLIC_KEY_SUCCESS",
                              id |-> r.id, key |-> r.key])
    <3>1. /\ Dispatch(c, "GET_PUBLIC_KEY")
          /\ clients' = clients
          /\ \/ Raise \/ Answer(c, Error)
             \/ \E r, q \in ClientsNamed(clients, req[c].name) :
                  Answer(c, [code |-> "GET_PUBLIC_KEY_SUCCESS",
                             id |-> q.id, key |-> r.key])
      BY <1>3, PublicKeyOutcome
    <3>2. \A r, q \in ClientsNamed(clients, req[c].name) : r = q
      BY DEF ClientsNamed, UniqueNames
    <3>3. \A r \in ClientsNamed(clients, req[c].name) :
            r \in clients /\ r.name = req[c].name
      BY DEF ClientsNamed
    <3> QED BY <3>1, <3>2, <3>3 DEF Dispatch, Receive
  <2>2. CASE Raise \/ Answer(c, Error)
    BY <2>2, ErrorTold DEF Raise, Answer
  <2>3. ASSUME NEW r \in clients, r.name = req[c].name,
               Answer(c, [code |-> "GET_PUBLIC_KEY_SUCCESS",
                          id |-> r.id, key |-> r.key])
        PROVE  Told(c)'
    BY <2>1, <2>3 DEF Answer, Told, Promise!Truth
  <2> QED BY <2>1, <2>2, <2>3
<1>4. CASE HandleSend(c)
  <2>1. /\ req' = req /\ req[c].code = "SEND_MESSAGE"
        /\ \/ Raise \/ Answer(c, Error)
           \/ \E i \in RowId :
                /\ messages' = InsertMessage(messages, i, req[c].to,
                                             req[c].client_id)
                /\ Answer(c, [code |-> "MESSAGE_SENT_SUCCESS",
                              to |-> req[c].to, msg_id |-> i])
    BY <1>4, SendOutcome DEF Dispatch, Receive
  <2>2. CASE Raise \/ Answer(c, Error)
    BY <2>2, ErrorTold DEF Raise, Answer
  <2>3. ASSUME NEW i \in RowId,
               messages' = InsertMessage(messages, i, req[c].to,
                                         req[c].client_id),
               Answer(c, [code |-> "MESSAGE_SENT_SUCCESS",
                          to |-> req[c].to, msg_id |-> i])
        PROVE  Told(c)'
    <3>1. \E m \in {n \in messages' : /\ n.to = req'[c].to
                                      /\ n.from = req'[c].client_id} :
            m.id = i
      <4>1. [id |-> i, to |-> req[c].to, from |-> req[c].client_id,
             content |-> "bytes"] \in messages'
        BY <2>3 DEF InsertMessage
      <4> QED BY <2>1, <4>1
    <3>2. /\ cur' = c /\ req'[c].code = "SEND_MESSAGE"
          /\ resp' = [code |-> "MESSAGE_SENT_SUCCESS",
                      to |-> req'[c].to, msg_id |-> i]
      BY <2>1, <2>3 DEF Answer
    <3> QED BY <3>1, <3>2 DEF Told, Promise!Truth
  <2> QED BY <2>1, <2>2, <2>3
<1>5. CASE HandleUnread(c)
  <2>1. /\ req' = req /\ req[c].code = "GET_UNREAD_MESSAGE"
        /\ messages' = messages
        /\ \/ Raise
           \/ \E rows \in {{}, {m \in messages : m.to = req[c].client_id}} :
                Answer(c, [code |-> "GET_UNREAD_MESSAGES_SUCCESS",
                           rows |-> rows])
    BY <1>5 DEF HandleUnread, SelectUnread, Dispatch, Receive, db
  <2>2. CASE Raise
    BY <2>2 DEF Raise, Told
  <2>3. ASSUME NEW rows \in {{}, {m \in messages : m.to = req[c].client_id}},
               Answer(c, [code |-> "GET_UNREAD_MESSAGES_SUCCESS",
                          rows |-> rows])
        PROVE  Told(c)'
    BY <2>1, <2>3 DEF Answer, Told, Promise!Truth
  <2> QED BY <2>1, <2>2, <2>3
<1> QED BY <1>1, <1>2, <1>3, <1>4, <1>5

\* Every step is one of these.
LEMMA PromiseCases ==
    ASSUME IndInv, [Next]_vars
    PROVE  \/ Unseen
           \/ \E c \in Conn : Ask(c) \/ Lost(c) \/ Handled(c)
           \/ WriteReply \/ DeleteNext
<1> USE DEF IndInv
<1>1. ASSUME NEW c \in Conn, Connect(c) PROVE Unseen
  BY <1>1 DEF Connect, Unseen, db, task
<1>2. ASSUME NEW c \in Conn, Leave(c) PROVE Unseen \/ Lost(c)
  <2>1. /\ UNCHANGED <<clients, messages, req, sent, pc, cur, resp>>
        /\ \/ pending' = pending
           \/ pending' = [pending EXCEPT ![c] = FALSE]
    BY <1>2 DEF Leave, db, task
  <2>2. CASE pending[c]
    BY <2>1, <2>2 DEF Unseen, Lost, Leaves
  <2>3. CASE ~pending[c]
    <3>1. [pending EXCEPT ![c] = FALSE] = pending
      <4>1. pending[c] = FALSE
        BY <2>3 DEF TypeOK
      <4> QED BY <4>1 DEF TypeOK
    <3> QED BY <2>1, <3>1 DEF Unseen
  <2> QED BY <2>2, <2>3
<1>3. CASE Select \/ Accept
  BY <1>3 DEF Select, Accept, Loop, Unseen, db, conns, task
<1>4. ASSUME NEW c \in Conn, ReadNothing(c) \/ ReadReset(c) PROVE Unseen
  BY <1>4 DEF ReadNothing, ReadReset, Close, Raise, Unseen, db
<1>5. ASSUME NEW c \in Conn, Reject(c) \/ CheckRaises(c) PROVE Handled(c)
  BY <1>5 DEF Reject, CheckRaises, Receive, Close, Raise, Handled, Leaves,
              Told, db
<1>6. ASSUME NEW c \in Conn, TornBody(c) PROVE Handled(c)
  <2>1. Told(c)'
    BY <1>6, ErrorTold DEF TornBody, Answer
  <2> QED BY <1>6, <2>1 DEF TornBody, Dispatch, Receive, Handled, Leaves, db
<1>7. ASSUME NEW c \in Conn,
             \/ HandleRegister(c) \/ HandleClientsList(c)
             \/ HandlePublicKey(c) \/ HandleSend(c) \/ HandleUnread(c)
      PROVE  Handled(c)
  <2>1. Told(c)'
    BY <1>7, HandlerTells
  <2>2. Leaves(c)
    BY <1>7 DEF HandleRegister, HandleClientsList, HandlePublicKey,
                HandleSend, HandleUnread, Dispatch, Receive, Leaves
  <2>3. UNCHANGED <<clients, messages>> \/ Registered(c) \/ Stored(c)
    <3>1. \A d \in Conn : Unanswered \/ Replying(d) =>
            UNCHANGED <<clients, messages>> \/ Registered(d) \/ Stored(d)
      BY DEF Unanswered, Replying, Refused, Listed, KeyFound, Fetched
    <3> QED BY <1>7, <3>1, HandlerReplies
  <2> QED BY <2>1, <2>2, <2>3 DEF Handled
<1>8. CASE WriteFails
  BY <1>8 DEF WriteFails, Close, Unseen, db
<1>9. CASE CrashRestart
  BY <1>9 DEF CrashRestart, Unseen, db
<1>10. CASE UNCHANGED vars
  BY <1>10 DEF vars, Unseen, db, conns, task
<1> QED
  BY <1>1, <1>2, <1>3, <1>4, <1>5, <1>6, <1>7, <1>8, <1>9, <1>10
     DEF Next, ClientStep, ServerStep, Callback

-----------------------------------------------------------------------------
(* The invariant. *)

MailInv == IndInv /\ AnsweredOnce /\ ReplyTrue

\* It holds at the start.
LEMMA MailInit == ASSUME Init PROVE MailInv
<1>1. IndInv
  BY IndInit
<1>2. pc = "loop" /\ \A c \in Conn : Replied(c, "NOTHING")
  BY DEF Init, Idle, Nothing, Replied
<1> QED BY <1>1, <1>2 DEF MailInv, AnsweredOnce, ReplyTrue

\* A request that leaves its socket has not been answered.
LEMMA AnsweredOnceStep ==
    ASSUME MailInv, [Next]_vars
    PROVE  AnsweredOnce'
<1> USE DEF MailInv, IndInv, AnsweredOnce, Replied
<1>1. CASE Unseen
  BY <1>1 DEF Unseen
<1>2. ASSUME NEW c \in Conn, Ask(c) PROVE AnsweredOnce'
  <2>1. /\ UNCHANGED <<sent, pc, cur>>
        /\ \A d \in Conn \ {c} : pending'[d] = pending[d]
        /\ req[c] = Nothing
    BY <1>2 DEF Ask, TypeOK, task
  <2> QED BY <2>1 DEF AskedFirst
<1>3. ASSUME NEW c \in Conn, Lost(c) \/ Handled(c) PROVE AnsweredOnce'
  <2>0. /\ Leaves(c)
        /\ pc' = "reply" => cur' = c \/ (pc = "reply" /\ cur' = cur)
    BY <1>3 DEF Lost, Handled, Told
  <2>1. /\ sent' = sent /\ pending[c]
        /\ ~pending'[c]
        /\ \A d \in Conn : pending'[d] => pending[d]
    BY <2>0 DEF Leaves, TypeOK
  <2> QED BY <2>0, <2>1 DEF AskedFirst
<1>4. CASE WriteReply
  <2>1. pending' = pending /\ pc' # "reply"
    BY <1>4, Written DEF WriteReply
  <2> QED BY <1>4, <2>1, Written
<1>5. CASE DeleteNext
  <2>1. pending' = pending /\ pc' # "reply" /\ sent' = sent
    BY <1>5, Deleted DEF DeleteNext
  <2> QED BY <2>1
<1> QED
  BY <1>1, <1>2, <1>3, <1>4, <1>5, PromiseCases

\* The tables a reply speaks of do not change while it is in hand.
LEMMA ReplyTrueStep ==
    ASSUME MailInv, [Next]_vars
    PROVE  ReplyTrue'
<1> USE DEF MailInv, IndInv, ReplyTrue
<1>1. CASE Unseen
  BY <1>1 DEF Unseen, Promise!Truth
<1>2. ASSUME NEW c \in Conn, Ask(c) PROVE ReplyTrue'
  <2>1. CASE pc = "reply"
    <3>1. /\ UNCHANGED <<clients, messages, pc, cur, resp>>
          /\ req'[cur] = req[cur]
      BY <1>2, <2>1 DEF Ask, TypeOK, task, db, AskedFirst
    <3> QED BY <2>1, <3>1 DEF Promise!Truth
  <2>2. CASE pc # "reply"
    BY <1>2, <2>2 DEF Ask, task
  <2> QED BY <2>1, <2>2
<1>3. ASSUME NEW c \in Conn, Lost(c) PROVE ReplyTrue'
  BY <1>3 DEF Lost, Leaves, Promise!Truth
<1>4. ASSUME NEW c \in Conn, Handled(c) PROVE ReplyTrue'
  BY <1>4 DEF Handled, Told
<1>5. CASE WriteReply
  BY <1>5, Written
<1>6. CASE DeleteNext
  BY <1>6, Deleted
<1> QED BY <1>1, <1>2, <1>3, <1>4, <1>5, <1>6, PromiseCases

\* Every step keeps it.
LEMMA MailStep == ASSUME MailInv, [Next]_vars PROVE MailInv'
  BY IndStep, AnsweredOnceStep, ReplyTrueStep DEF MailInv

-----------------------------------------------------------------------------
(* The refinement. *)

\* The file found is where the promise starts.
LEMMA PromiseInit == ASSUME Init PROVE Promise!Init
  BY DEF Init, Promise!Init

\* A request that leaves its socket has had its effect.
LEMMA Taking ==
    ASSUME IndInv, NEW c \in Conn, Leaves(c)
    PROVE  Promise!Take(c)
<1>1. req[c] # Nothing /\ pending[c] /\ req' = req /\ sent' = sent
  BY DEF IndInv, AskedFirst, Leaves
<1>2. pending' = [pending EXCEPT ![c] = FALSE]
  BY DEF Leaves
<1>3. \A d \in Conn : (req'[d] # Nothing /\ ~pending'[d]) =
                        (IF d = c THEN TRUE
                                  ELSE req[d] # Nothing /\ ~pending[d])
  BY <1>1, <1>2 DEF IndInv, TypeOK
<1> QED BY <1>1, <1>3 DEF Promise!Take

\* Every step is one of the promise, or leaves it alone.
LEMMA PromiseStep ==
    ASSUME MailInv, [Next]_vars
    PROVE  [Promise!Next]_(Promise!vars)
<1> USE DEF MailInv, IndInv
<1>1. CASE Unseen
  BY <1>1 DEF Unseen, Promise!vars
<1>2. ASSUME NEW c \in Conn, Ask(c) PROVE Promise!Ask(c)
  <2>1. /\ UNCHANGED <<clients, messages, sent>>
        /\ req[c] = Nothing
        /\ \E r \in Inputs : req' = [req EXCEPT ![c] = r]
        /\ pending' = [pending EXCEPT ![c] = TRUE]
    BY <1>2 DEF Ask, db
  <2>2. \A d \in Conn : (req'[d] # Nothing /\ ~pending'[d]) =
                          (req[d] # Nothing /\ ~pending[d])
    BY <2>1 DEF TypeOK
  <2> QED BY <2>1, <2>2 DEF Promise!Ask
<1>3. ASSUME NEW c \in Conn, Leaves(c), UNCHANGED <<clients, messages>>
      PROVE  Promise!Pass(c)
  BY <1>3, Taking DEF Promise!Pass
<1>4. ASSUME NEW c \in Conn, Leaves(c), Registered(c)
      PROVE  Promise!Register(c)
  BY <1>4, Taking
     DEF Promise!Register, Registered, InsertClient, ClientNameExists,
         ClientIdExists
<1>5. ASSUME NEW c \in Conn, Leaves(c), Stored(c) PROVE Promise!Send(c)
  <2>1. PICK i \in RowId :
          /\ req[c].code = "SEND_MESSAGE"
          /\ ClientIdExists(clients, req[c].to)
          /\ ClientIdExists(clients, req[c].client_id)
          /\ req[c].type = "valid"
          /\ \A m \in messages : m.id < i
          /\ clients' = clients
          /\ messages' = messages \cup
               {[id |-> i, to |-> req[c].to, from |-> req[c].client_id,
                 content |-> "bytes"]}
    BY <1>5 DEF Stored, IsNextRowId, InsertMessage
  <2>2. \A m \in messages : m.id # i
    BY <2>1, RowIdAssumption DEF TypeOK, MessageRow
  <2> QED BY <1>5, <2>1, <2>2, Taking DEF Promise!Send, ClientIdExists
<1>6. CASE WriteReply
  <2>1. /\ req[cur] # Nothing /\ ~pending[cur]
        /\ sent[cur].reply = Nothing
        /\ resp \in Promise!Truth(cur)
    <3>1. sent[cur].reply.code = "NOTHING"
      BY <1>6, Written DEF AnsweredOnce, Replied
    <3> QED BY <1>6, <3>1, Written, ReplyShape
            DEF AnsweredOnce, AskedFirst, ReplyTrue, TypeOK
  <2>2. [c \in Conn |-> sent'[c].reply] =
          [[c \in Conn |-> sent[c].reply] EXCEPT ![cur] = resp]
    BY <1>6, Written
  <2>3. UNCHANGED <<clients, messages, req, pending>> /\ cur \in Conn
    BY <1>6, Written DEF WriteReply
  <2>4. \E c \in Conn : Promise!Answer(c)
    <3>1. ASSUME NEW c \in Conn, c = cur PROVE Promise!Answer(c)
      BY <2>1, <2>2, <2>3, <3>1 DEF Promise!Answer
    <3> QED BY <2>3, <3>1
  <2> QED BY <2>3, <2>4 DEF Promise!Next
<1>7. CASE DeleteNext
  <2>1. UNCHANGED <<clients, req, pending, sent>> /\ cur \in Conn
    BY <1>7, Deleted DEF DeleteNext
  <2>2. PICK i \in doomed : \/ messages' = {m \in messages : m.id # i}
                            \/ messages' = messages
    BY <1>7, Deleted
  <2>3. PICK m \in messages : m.id = i /\ m \in sent[cur].reply.rows
    BY <1>7, <2>2, Deleted DEF DoomedHanded
  <2>4. CASE messages' = {n \in messages : n.id # i}
    <3>1. messages' = messages \ {m}
      BY <2>3, <2>4 DEF UniqueRowIds
    <3>2. /\ sent[cur].reply.code = "GET_UNREAD_MESSAGES_SUCCESS"
          /\ req[cur].client_id = m.to
      BY <1>7, <2>3, Deleted DEF DoomedHanded, SentRowsReadable, FetchRows,
                                 Replied
    <3>3. Promise!Clear(m)
      BY <2>1, <2>3, <3>1, <3>2 DEF Promise!Clear
    <3> QED BY <3>3 DEF Promise!Next
  <2>5. CASE messages' = messages
    BY <2>1, <2>5 DEF Promise!vars
  <2> QED BY <2>2, <2>4, <2>5
<1> QED
  BY <1>1, <1>2, <1>3, <1>4, <1>5, <1>6, <1>7, PromiseCases
     DEF Lost, Handled, Promise!Next, Leaves

\* The server keeps its promise: whatever the clients do, and whatever fails
\* or crashes, a request has its effect at most once and at one moment, is
\* answered at most once and with the truth, and a message stays until it
\* was handed to the client it is for.
THEOREM PromiseKept == Spec => MailboxPromise
<1> QED BY MailInit, MailStep, PromiseInit, PromiseStep, PTL
        DEF Spec, MailboxPromise, Promise!Spec
=============================================================================
