--------------------------- MODULE MCClientHandler ---------------------------
(***************************************************************************)
(* Small instances of ClientHandler for TLC.                               *)
(***************************************************************************)
EXTENDS ClientHandler

CONSTANTS p, q, o, a, b, d, k

\* Alice and Bob are registered.  One process is Alice's; the other is Bob's,
\* or of somebody who has yet to register.
TwoClients == {[id |-> a, name |-> "alice", key |-> k],
               [id |-> b, name |-> "bob", key |-> k]}
AliceAndNewcomer ==
    [r \in Process |-> IF r = p THEN [id |-> a, name |-> "alice"] ELSE NoOne]

\* A readable message for Alice from Bob, and none.
OneText == {[id |-> 1, to |-> a, from |-> b, content |-> "text"]}
NoRows  == {}

\* The last length that goes through and the first that does not; a short one.
Lengths   == {479, 480}
OneLength == {20}
RowIds  == 1..4

=============================================================================
