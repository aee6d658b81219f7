----------------------------- MODULE DBHandler -----------------------------
(***************************************************************************)
(* The two tables of server.db and the queries of DB_Handler.              *)
(*                                                                         *)
(* A table is a set of rows.  Every method of DB_Handler opens the file,   *)
(* runs one statement, commits and closes (execute, db_handler.py:54-74),  *)
(* so a query is an operator on the tables and an update is one atomic     *)
(* change of them.  A call that raises inside execute has no effect and    *)
(* returns False; which call fails, and what its caller makes of the       *)
(* False, is in module Server.                                             *)
(*                                                                         *)
(* Left out: LastSeen, which nothing reads, and the message type, which    *)
(* the server checks when a message is sent (HandleSend) and otherwise     *)
(* only copies.  What the content column holds matters: a bytes value      *)
(* comes back from SQLite as bytes, and a str value as str.                *)
(***************************************************************************)
EXTENDS Naturals

CONSTANTS
    Id,      \* the 16-byte client ids, the results of uuid4
    Name,    \* client names
    Key,     \* RSA public keys
    RowId    \* values of the INTEGER PRIMARY KEY of Messages

ASSUME RowIdAssumption == RowId \subseteq Nat \ {0}

ClientRow  == [id: Id, name: Name, key: Key]
MessageRow == [id: RowId, to: Id, from: Id, content: {"bytes", "text"}]

-----------------------------------------------------------------------------
(* Mutations of the operators below; nothing but the mutant runs uses them. *)

MutIdExistsAlways(clients, i)   == TRUE
MutNameExistsTwice(clients, n)  ==
    \E r, q \in clients : r # q /\ r.name = n /\ q.name = n
MutClientsNamedAll(clients, n)  == clients
MutInsertClientLost(clients, i, n, k)    == clients
MutInsertClientSwapped(clients, i, n, k) ==
    clients \cup {[id |-> i, name |-> k, key |-> n]}
MutInsertMessageLost(messages, i, to, from) == messages
MutSelectUnreadSender(messages, i) == {m \in messages : m.from = i}
MutSelectUnreadAll(messages, i) == messages
MutDeleteUpTo(messages, i)      == {m \in messages : m.id > i}

-----------------------------------------------------------------------------
(* Queries. *)

\* check_client_exists(client_id)
ClientIdExists(clients, i) == \E r \in clients : r.id = i

\* check_client_exists(client_name=...)
ClientNameExists(clients, n) == \E r \in clients : r.name = n

\* The rows select_public_key and select_id_from_name take their first from.
ClientsNamed(clients, n) == {r \in clients : r.name = n}

\* select_unread_messages(to_id)
SelectUnread(messages, i) == {m \in messages : m.to = i}

-----------------------------------------------------------------------------
(* Updates. *)

\* insert_client; ID is a primary key and Name carries no UNIQUE.
InsertClient(clients, i, n, k) ==
    clients \cup {[id |-> i, name |-> n, key |-> k]}

\* The row id SQLite gives a row inserted into Messages.  The column has no
\* AUTOINCREMENT, so this is one more than the largest id now in the table,
\* and the id of a deleted row is given again.
IsNextRowId(messages, i) ==
    /\ \A m \in messages : m.id < i
    /\ i = 1 \/ \E m \in messages : m.id = i - 1

\* insert_message.  Its one caller passes the bytes it unpacked.
InsertMessage(messages, i, to, from) ==
    messages \cup {[id |-> i, to |-> to, from |-> from, content |-> "bytes"]}

\* delete_msg
DeleteMsg(messages, i) == {m \in messages : m.id # i}

=============================================================================
