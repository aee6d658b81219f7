------------------------------ MODULE Mailbox ------------------------------
(***************************************************************************)
(* What the MessageU server promises its clients, without a loop, sockets, *)
(* failures or crashes: a request takes effect at most once and at one     *)
(* moment; it is answered at most once, with what is then true; a message  *)
(* stays until it has been handed to the client it is for.                 *)
(*                                                                         *)
(* What it does not promise: that a request takes effect at all, that an   *)
(* error means it did not, or that a message handed over is gone.          *)
(***************************************************************************)

CONSTANTS
    Conn,         \* names of requests: one for each connection
    Id, RowId,    \* ids of clients and of messages
    Inputs,       \* what may be asked
    Nothing,      \* no request, no answer
    InitClients, InitMessages

VARIABLES
    registry,  \* the registered clients
    mail,      \* the messages kept
    request,   \* what was asked
    taken,     \* the request has had its effect, or never will
    answer     \* what was answered

vars == <<registry, mail, request, taken, answer>>

Init == /\ registry = InitClients
        /\ mail = InitMessages
        /\ request = [c \in Conn |-> Nothing]
        /\ taken = [c \in Conn |-> FALSE]
        /\ answer = [c \in Conn |-> Nothing]

Ask(c) == /\ request[c] = Nothing
          /\ \E r \in Inputs : request' = [request EXCEPT ![c] = r]
          /\ UNCHANGED <<registry, mail, taken, answer>>

\* The one moment at which a request can have an effect.
Take(c) == /\ request[c] # Nothing
           /\ ~taken[c]
           /\ taken' = [taken EXCEPT ![c] = TRUE]
           /\ UNCHANGED <<request, answer>>

\* Names and ids are free before they are given.
Register(c) ==
    LET q == request[c] IN
    /\ Take(c)
    /\ q.code = "REGISTER_CLIENT"
    /\ \A r \in registry : r.name # q.name
    /\ \E i \in Id :
         /\ \A r \in registry : r.id # i
         /\ registry' = registry \cup
              {[id |-> i, name |-> q.name, key |-> q.key]}
    /\ UNCHANGED mail

\* Messages are between registered clients, and of a valid type.
Send(c) ==
    LET q == request[c] IN
    /\ Take(c)
    /\ q.code = "SEND_MESSAGE"
    /\ {q.to, q.client_id} \subseteq {r.id : r \in registry}
    /\ q.type = "valid"
    /\ \E i \in RowId :
         /\ \A m \in mail : m.id # i
         /\ mail' = mail \cup {[id |-> i, to |-> q.to, from |-> q.client_id,
                                content |-> "bytes"]}
    /\ UNCHANGED registry

\* The request only asks, is refused, or is lost.
Pass(c) == Take(c) /\ UNCHANGED <<registry, mail>>

\* What may be said in answer to c.  That no message waits is also said
\* when the server could not look.
Truth(c) ==
    LET q == request[c] IN
    {[code |-> "GENERIC_ERROR"]} \cup
    CASE q.code = "REGISTER_CLIENT" ->
           {[code |-> "REGISTER_SUCCESS", id |-> r.id] :
              r \in {s \in registry : s.name = q.name /\ s.key = q.key}}
      [] q.code = "GET_CLIENTS_LIST" ->
           {[code |-> "GET_CLIENTS_LIST_SUCCESS",
             ids |-> {r.id : r \in registry} \ {q.client_id}]}
      [] q.code = "GET_PUBLIC_KEY" ->
           {[code |-> "GET_PUBLIC_KEY_SUCCESS", id |-> r.id, key |-> r.key] :
              r \in {s \in registry : s.name = q.name}}
      [] q.code = "SEND_MESSAGE" ->
           {[code |-> "MESSAGE_SENT_SUCCESS", to |-> q.to, msg_id |-> m.id] :
              m \in {n \in mail : n.to = q.to /\ n.from = q.client_id}}
      [] q.code = "GET_UNREAD_MESSAGE" ->
           {[code |-> "GET_UNREAD_MESSAGES_SUCCESS", rows |-> s] :
              s \in {{}, {m \in mail : m.to = q.client_id}}}

Answer(c) == /\ request[c] # Nothing
             /\ taken[c]
             /\ answer[c] = Nothing
             /\ \E a \in Truth(c) : answer' = [answer EXCEPT ![c] = a]
             /\ UNCHANGED <<registry, mail, request, taken>>

\* A message that was handed to its recipient may go.
Clear(m) == /\ \E c \in Conn :
                 /\ answer[c].code = "GET_UNREAD_MESSAGES_SUCCESS"
                 /\ m \in answer[c].rows
                 /\ request[c].client_id = m.to
            /\ mail' = mail \ {m}
            /\ UNCHANGED <<registry, request, taken, answer>>

Next == \/ \E c \in Conn : \/ Ask(c) \/ Register(c) \/ Send(c) \/ Pass(c)
                           \/ Answer(c)
        \/ \E m \in mail : Clear(m)

Spec == Init /\ [][Next]_vars

=============================================================================
