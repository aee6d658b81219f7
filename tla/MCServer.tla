------------------------------ MODULE MCServer ------------------------------
(***************************************************************************)
(* Small instances of Server for TLC.                                      *)
(***************************************************************************)
EXTENDS Server, TLC

CONSTANTS c1, c2, c3, a, b, d, e, f, kA, kB

Row(i, n, k)     == [id |-> i, name |-> n, key |-> k]
Text(i, to, from) == [id |-> i, to |-> to, from |-> from, content |-> "text"]

\* server.db as a run finds it.  Alice alone, with Bob, or with Carol too; no
\* message, a message that a client sent (bytes), or readable ones (text), two
\* for Alice around one for Bob.
OneClient    == {Row(a, "alice", kA)}
TwoClients   == {Row(a, "alice", kA), Row(b, "bob", kB)}
ThreeClients == TwoClients \cup {Row(d, "carol", kB)}
SentRows    == {[id |-> 1, to |-> a, from |-> b, content |-> "bytes"]}
NoRows      == {}
ThreeTexts  == {Text(1, a, b), Text(2, b, a), Text(3, a, b)}

RowIds == 1..6
Names  == {"alice", "bob", "carol"}

Letter(from, to) == [code |-> "SEND_MESSAGE", client_id |-> from, to |-> to,
                     type |-> "valid"]

Symmetric == Permutations(Conn)

\* Every kind of request, of the two clients and of a stranger.
AllInputs ==
    {[code |-> "REGISTER_CLIENT", name |-> n, key |-> kA] :
        n \in {"alice", "carol"}}
      \cup {[code |-> "REGISTER_CLIENT", name |-> "carol", key |-> kB]}
      \cup {[code |-> "GET_CLIENTS_LIST", client_id |-> a]}
      \cup {[code |-> "GET_PUBLIC_KEY", client_id |-> a, name |-> n] :
              n \in {"bob", "carol"}}
      \cup {Letter(a, b), Letter(b, d), [Letter(a, b) EXCEPT !.type = "invalid"]}
      \cup {[code |-> "GET_UNREAD_MESSAGE", client_id |-> i] : i \in {a, b, d}}

\* The requests about the two-client registry, with a rival for one name.
RegistryInputs ==
    {[code |-> "REGISTER_CLIENT", name |-> "carol", key |-> k] :
        k \in {kA, kB}}
      \cup {[code |-> "GET_CLIENTS_LIST", client_id |-> a],
            [code |-> "GET_PUBLIC_KEY", client_id |-> b, name |-> "carol"]}

\* What makes Alice's fetch raise.
StallInputs ==
    {Letter(b, a),
     [code |-> "GET_UNREAD_MESSAGE", client_id |-> a]}

\* A fetch that raises when a sent message waits, and a request that never
\* does; with three clients its reply has two entries.
MixedInputs ==
    {[code |-> "GET_CLIENTS_LIST", client_id |-> a],
     [code |-> "GET_UNREAD_MESSAGE", client_id |-> a]}

=============================================================================
