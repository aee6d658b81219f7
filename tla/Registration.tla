---------------------------- MODULE Registration ----------------------------
(***************************************************************************)
(* How a client gets an identity and keeps it: the registration request,   *)
(* its handler on the server, and the file me.info in the directory of the *)
(* client, from which a client started later takes its identity.           *)
(*                                                                         *)
(* A process may stop anywhere: killed, on an error (every failed handler  *)
(* ends the menu loop, Client.cpp:30) or because its user leaves.  Several *)
(* processes may run in one directory.                                     *)
(*                                                                         *)
(* A line of me.info is the text of one field of a row of the server's     *)
(* table (a key is several lines of text in one write).  It is written     *)
(* whole or not at all: it fits the buffer of the stream, which close()    *)
(* hands to the system in one write.  A user name that is itself the 32    *)
(* hex digits of an id is left out: it would pass for one.                 *)
(***************************************************************************)
EXTENDS DBHandler, Sequences, FiniteSets

CONSTANTS
    Proc,        \* client processes; one may be started again
    Dir,         \* directories, each with at most one me.info
    Home,        \* the directory a process runs in
    Nobody,      \* the sender of a request that has since stopped
    InitClients, \* the clients the server knows at the start
    MaxFaults    \* bound: writes to me.info that are lost

ASSUME HomeAssumption   == Home \in [Proc -> Dir]
ASSUME NobodyAssumption == Nobody \notin Proc
ASSUME FaultsAssumption == MaxFaults \in Nat
ASSUME InitClientsAssumption ==
    /\ InitClients \subseteq ClientRow
    /\ \A r, q \in InitClients :
         (r.name = q.name \/ r.id = q.id) => r = q

VARIABLES
    clients,  \* the server's table
    inbox,    \* registration requests the server has not handled
    exists,   \* me.info is there
    lines,    \* what it holds
    pc,       \* where a process is; "name", "id", "key": the line it writes
    given,    \* the row the server made for a process that registers
    me,       \* the identity a process acts under (m_this), or NoOne
    faults    \* budget left

vars == <<clients, inbox, exists, lines, pc, given, me, faults>>

Line     == [kind: {"name", "id", "key"}, of: ClientRow]
Identity == [id: Id, name: Name \cup Id, key: Key]
NoOne    == [nobody |-> TRUE]

TypeOK ==
    /\ clients \subseteq ClientRow
    /\ inbox \subseteq [from: Proc \cup {Nobody}, name: Name, key: Key]
    /\ exists \in [Dir -> BOOLEAN]
    /\ lines \in [Dir -> Seq(Line)]
    /\ pc \in [Proc -> {"off", "menu", "asked", "answered",
                        "name", "id", "key"}]
    /\ given \in [Proc -> ClientRow \cup {NoOne}]
    /\ me \in [Proc -> Identity \cup {NoOne}]
    /\ faults \in 0..MaxFaults

Init == /\ clients = InitClients
        /\ inbox = {}
        /\ exists = [d \in Dir |-> FALSE]
        /\ lines = [d \in Dir |-> << >>]
        /\ pc = [p \in Proc |-> "off"]
        /\ given = [p \in Proc |-> NoOne]
        /\ me = [p \in Proc |-> NoOne]
        /\ faults = MaxFaults

-----------------------------------------------------------------------------
(* Starting: the constructor of ClientHandler. *)

\* What getClientInfo accepts.  The hex digits of an id are a valid name.
\* What follows the third line ends up behind the private key, which is
\* decoded from the front.
Loads(s) == /\ Len(s) >= 3
            /\ s[1].kind # "key"
            /\ s[2].kind = "id"
            /\ s[3].kind = "key"

MutLoadedSwapped(s) ==
    [id |-> s[1].of.name, name |-> s[2].of.id, key |-> s[3].of.key]

Loaded(s) == [id   |-> s[2].of.id,
              name |-> IF s[1].kind = "name" THEN s[1].of.name
                                             ELSE s[1].of.id,
              key  |-> s[3].of.key]

\* With a me.info that does not load, the process exits at once.
Start(p) ==
    LET d == Home[p] IN
    /\ pc[p] = "off"
    /\ pc' = [pc EXCEPT ![p] = "menu"]
    /\ \/ /\ ~exists[d]
          /\ UNCHANGED me
       \/ /\ exists[d]
          /\ Loads(lines[d])
          /\ me' = [me EXCEPT ![p] = Loaded(lines[d])]
    /\ UNCHANGED <<clients, inbox, exists, lines, given, faults>>

MutRegisterAgain(p) ==
    /\ pc[p] = "menu"
    /\ \E n \in Name, k \in Key :
         inbox' = inbox \cup {[from |-> p, name |-> n, key |-> k]}
    /\ pc' = [pc EXCEPT ![p] = "asked"]
    /\ UNCHANGED <<clients, exists, lines, given, me, faults>>

\* handleRegistrationRequest, up to the request: a client that has an
\* identity is told so; otherwise it makes a key and asks.
Register(p) ==
    /\ pc[p] = "menu"
    /\ me[p] = NoOne
    /\ \E n \in Name, k \in Key :
         inbox' = inbox \cup {[from |-> p, name |-> n, key |-> k]}
    /\ pc' = [pc EXCEPT ![p] = "asked"]
    /\ UNCHANGED <<clients, exists, lines, given, me, faults>>

-----------------------------------------------------------------------------
(* The server. *)

\* handle_register_request: the row is committed, then the reply is sent to
\* whoever still waits for it.
ServerRegisters(r) ==
    /\ ~ClientNameExists(clients, r.name)
    /\ \E i \in Id :       \* uuid4 never repeats
         /\ ~ClientIdExists(clients, i)
         /\ clients' = InsertClient(clients, i, r.name, r.key)
         /\ IF r.from = Nobody
            THEN UNCHANGED <<pc, given>>
            ELSE /\ pc' = [pc EXCEPT ![r.from] = "answered"]
                 /\ given' = [given EXCEPT ![r.from] =
                                [id |-> i, name |-> r.name, key |-> r.key]]
    /\ inbox' = inbox \ {r}
    /\ UNCHANGED <<exists, lines, me, faults>>

\* The name is taken, a database call fails, the server crashes or the
\* request is torn: an error or a closed connection, after which the process
\* that asked stops.
ServerRefuses(r) ==
    /\ inbox' = inbox \ {r}
    /\ UNCHANGED <<clients, exists, lines, pc, given, me, faults>>

-----------------------------------------------------------------------------
(* Saving: setClientInfo, three calls of FileHandler::write. *)

MutOpenTruncates(p) ==
    /\ pc[p] = "answered"
    /\ pc' = [pc EXCEPT ![p] = "name"]
    /\ exists' = [exists EXCEPT ![Home[p]] = TRUE]
    /\ lines' = [lines EXCEPT ![Home[p]] = << >>]
    /\ UNCHANGED <<clients, inbox, given, me, faults>>

\* The reply arrives and the first write opens the file to append, which
\* creates it if it is not there.
OpenFile(p) ==
    /\ pc[p] = "answered"
    /\ pc' = [pc EXCEPT ![p] = "name"]
    /\ exists' = [exists EXCEPT ![Home[p]] = TRUE]
    /\ UNCHANGED <<clients, inbox, lines, given, me, faults>>

MutAfterNoKey == [name |-> "id", id |-> "menu", key |-> "menu"]

\* The order of the writes.
After == [name |-> "id", id |-> "key", key |-> "menu"]

\* One write.  A stream reports an error in its state and does not throw, so
\* a line that could not be written counts as a success.  After the last the
\* process is registered.
WriteLine(p) ==
    LET d == Home[p] IN
    /\ pc[p] \in DOMAIN After
    /\ \/ /\ lines' = [lines EXCEPT ![d] =
                         Append(@, [kind |-> pc[p], of |-> given[p]])]
          /\ UNCHANGED faults
       \/ /\ faults > 0
          /\ faults' = faults - 1
          /\ UNCHANGED lines
    /\ pc' = [pc EXCEPT ![p] = After[pc[p]]]
    /\ me' = IF After[pc[p]] = "menu" THEN [me EXCEPT ![p] = given[p]]
                                      ELSE me
    /\ UNCHANGED <<clients, inbox, exists, given>>

\* The process ends: it is killed, its request fails, an open fails, or the
\* user chooses to exit.  A request that is on its way stays there.
Stop(p) ==
    /\ pc[p] # "off"
    /\ pc' = [pc EXCEPT ![p] = "off"]
    /\ given' = [given EXCEPT ![p] = NoOne]
    /\ me' = [me EXCEPT ![p] = NoOne]
    /\ inbox' = {IF r.from = p THEN [r EXCEPT !.from = Nobody] ELSE r :
                   r \in inbox}
    /\ UNCHANGED <<clients, exists, lines, faults>>

ClientStep(p) == \/ Start(p) \/ Register(p) \/ OpenFile(p)
                 \/ WriteLine(p) \/ Stop(p)

ServerStep == \E r \in inbox : ServerRegisters(r) \/ ServerRefuses(r)

Next == ServerStep \/ \E p \in Proc : ClientStep(p)

Spec == Init /\ [][Next]_vars

-----------------------------------------------------------------------------
(* Properties. *)

\* The process that runs in its directory alone: no other can share its file.
Alone(p) == \A q \in Proc : Home[q] = Home[p] => q = p

\* While no write is lost, a me.info that a client would load is of a client
\* the server knows, with its name, id and key together, whatever processes
\* of one directory wrote between each other's lines.
SavedIdentityKnown ==
    faults = MaxFaults =>
        \A d \in Dir : Loads(lines[d]) => Loaded(lines[d]) \in clients

\* The same of the identity under which a process runs.
RunningIdentityKnown ==
    faults = MaxFaults =>
        \A p \in Proc : me[p] # NoOne => me[p] \in clients

\* While no write is lost, clients of two directories never have one name.
NamesNotShared ==
    faults = MaxFaults =>
        \A p, q \in Proc :
            /\ me[p] # NoOne /\ me[q] # NoOne
            /\ Home[p] # Home[q]
            => me[p].name # me[q].name

\* A process alone in its directory that is registered has saved it: after a
\* restart it is the same client.  (Unless a write was lost.)
RegistrationSaved ==
    faults = MaxFaults =>
        \A p \in Proc :
            me[p] # NoOne /\ Alone(p) =>
                /\ Loads(lines[Home[p]])
                /\ Loaded(lines[Home[p]]) = me[p]

\* A process alone in its directory registers once: a second identity is
\* never appended to its file (Client.cpp:77), lost writes or not.
RegisteredOnce ==
    \A p \in Proc : Alone(p) => Len(lines[Home[p]]) <= 3

\* A directory that has an identity keeps it, whatever is appended later.
IdentityKept ==
    [][\A d \in Dir : Loads(lines[d]) =>
         Loads(lines'[d]) /\ Loaded(lines'[d]) = Loaded(lines[d])]_vars

\* A process in a directory that has a me.info does not ask to register.
NoRegistrationOverFile ==
    [][\A p \in Proc : pc[p] = "menu" /\ pc'[p] = "asked" =>
         ~exists[Home[p]]]_vars

\* What the code says of a registered client (Client.cpp:116-121), also when
\* a write fails: its details were saved.
RegisteredIsSaved ==
    \A p \in Proc :
        me[p] # NoOne => /\ Loads(lines[Home[p]])
                         /\ Loaded(lines[Home[p]]) = me[p]

-----------------------------------------------------------------------------
(* The inductive invariant.                                                 *)

\* The server's table: a name and an id each name one row.
RowsUnique ==
    \A r, q \in clients : (r.name = q.name \/ r.id = q.id) => r = q

\* A request in the inbox that has a sender is the one its sender waits for.
Asking ==
    \A r \in inbox : r.from # Nobody =>
        /\ pc[r.from] = "asked"
        /\ \A q \in inbox : q.from = r.from => q = r

\* Rows were made by the server before anyone was given them or wrote them,
\* and whoever writes has one.
RowsMade ==
    /\ \A p \in Proc : given[p] \in clients \cup {NoOne}
    /\ \A p \in Proc :
         pc[p] \in {"answered", "name", "id", "key"} => given[p] # NoOne
    /\ \A d \in Dir : \A j \in 1..Len(lines[d]) : lines[d][j].of \in clients

Has(d, n, k, r) == \E i \in 1..n : lines[d][i] = [kind |-> k, of |-> r]

\* While no write is lost, the id of a row comes after its name in a file,
\* and the key after the id.
LinesFollow ==
    faults = MaxFaults =>
        /\ \A d \in Dir : \A j \in 1..Len(lines[d]) :
             LET l == lines[d][j] IN
             /\ l.kind = "id" => Has(d, j - 1, "name", l.of)
             /\ l.kind = "key" => Has(d, j - 1, "id", l.of)
        /\ \A p \in Proc :
             LET d == Home[p] IN
             /\ pc[p] = "id" => Has(d, Len(lines[d]), "name", given[p])
             /\ pc[p] = "key" => Has(d, Len(lines[d]), "id", given[p])

\* A row belongs to a directory if a line of its file, or a process that
\* runs there, has it.  No row belongs to two.
Belongs(r, d) ==
    \/ \E j \in 1..Len(lines[d]) : lines[d][j].of = r
    \/ \E p \in Proc : Home[p] = d /\ (given[p] = r \/ me[p] = r)

OneHome ==
    faults = MaxFaults =>
        \A r \in clients : \A d, e \in Dir :
            Belongs(r, d) /\ Belongs(r, e) => d = e

\* The file of a process that is alone, by where the process is.
AloneFile ==
    \A p \in Proc : Alone(p) =>
        LET s == lines[Home[p]] IN
        /\ ~exists[Home[p]] \/ pc[p] = "name" => s = << >>
        /\ pc[p] \in {"asked", "answered"} => ~exists[Home[p]]
        /\ pc[p] \in {"name", "id", "key"} => exists[Home[p]]
        /\ pc[p] = "menu" /\ me[p] = NoOne => ~exists[Home[p]]
        /\ me[p] # NoOne => pc[p] = "menu"
        /\ pc[p] = "id" => Len(s) <= 1
        /\ pc[p] = "key" => Len(s) <= 2
        /\ Len(s) <= 3

\* And what it holds, while no write is lost.
AloneLines ==
    faults = MaxFaults =>
        \A p \in Proc : Alone(p) =>
            LET s == lines[Home[p]] IN
            /\ pc[p] = "id" => s = << [kind |-> "name", of |-> given[p]] >>
            /\ pc[p] = "key" => s = << [kind |-> "name", of |-> given[p]],
                                       [kind |-> "id", of |-> given[p]] >>

IndInv ==
    /\ TypeOK /\ RowsUnique /\ Asking /\ RowsMade
    /\ LinesFollow /\ RunningIdentityKnown /\ OneHome
    /\ AloneFile /\ AloneLines /\ RegistrationSaved

=============================================================================
