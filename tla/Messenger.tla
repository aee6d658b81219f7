----------------------------- MODULE Messenger -----------------------------
(***************************************************************************)
(* What client and server together do for the people who use them, told in *)
(* names alone: no ids, no requests and replies, no lists that grow old.   *)
(*                                                                         *)
(* A name is taken once, by the one person it is offered to.  A message    *)
(* goes from the name its writer goes by to the name he wrote on it, and   *)
(* stays until whoever goes by that name has collected it.  Two things may *)
(* come between: a failure, by which an offer is lost, or messages are     *)
(* shown and not gone, or gone and not shown; and an end in the middle: of *)
(* whoever leaves while at something, the one thing may still be done      *)
(* later, and he does not learn of it.                                     *)
(***************************************************************************)
EXTENDS Naturals, TLAPS

CONSTANTS
    Person,       \* those who use a client
    Shadow,       \* those who have left while they were at something
    Name,
    MessageId,
    InitUsers, InitMail, InitSession, MaxFailures

VARIABLES
    users,     \* the names that are taken
    mail,      \* the messages that are kept
    session,   \* session[p]: the name p goes by, a set of one or none
    offer,     \* offer[p]: the name p was given and does not yet go by
    draft,     \* draft[p]: the name on the message that p is writing
    left,      \* left[s]: what s was at, in a set of one or none: the names
               \* it went by and the names on its message
    hand,      \* hand[p]: a set of the messages p was handed, in a set
    failures   \* those that may still happen

vars == <<users, mail, session, offer, draft, left, hand, failures>>

Init == /\ users = InitUsers
        /\ mail = InitMail
        /\ session = InitSession
        /\ offer = [p \in Person |-> {}]
        /\ draft = [p \in Person |-> {}]
        /\ left = [s \in Shadow |-> {}]
        /\ hand = [p \in Person |-> {}]
        /\ failures = MaxFailures

Works == UNCHANGED failures
Fails == failures > 0 /\ failures' = failures - 1

\* p takes a name that nobody has; unless something fails, p is told so.
SignUp(p) ==
    /\ session[p] = {}
    /\ \E n \in Name \ users :
         /\ users' = users \cup {n}
         /\ \/ Works /\ offer' = [offer EXCEPT ![p] = {n}]
            \/ Fails /\ UNCHANGED offer
    /\ UNCHANGED <<mail, session, draft, left, hand>>

Enter(p) ==
    /\ offer[p] # {}
    /\ session' = [session EXCEPT ![p] = offer[p]]
    /\ offer' = [offer EXCEPT ![p] = {}]
    /\ UNCHANGED <<users, mail, draft, left, hand, failures>>

Compose(p) ==
    /\ session[p] # {}
    /\ \E n \in Name : draft' = [draft EXCEPT ![p] = {n}]
    /\ UNCHANGED <<users, mail, session, offer, left, hand, failures>>

\* A message from a sender to a name on it that is taken.
Post(senders, names) ==
    \E n \in names \cap users, from \in senders, i \in MessageId :
        /\ \A m \in mail : m.id # i
        /\ mail' = mail \cup {[id |-> i, to |-> n, from |-> from]}

\* Only once; p need not learn of it.
Send(p) ==
    /\ Post(session[p], draft[p])
    /\ draft' = [draft EXCEPT ![p] = {}]
    /\ Works \/ Fails
    /\ UNCHANGED <<users, session, offer, left, hand>>

MailFor(names) == {m \in mail : m.to \in names}

\* p is handed what is kept for it, and no more is kept of that; or something
\* fails, and then p may have nothing in hand, or a set without messages, and
\* any of them may be gone.
Collect(p) ==
    LET mine == MailFor(session[p]) IN
    /\ \/ /\ Works
          /\ mail' = mail \ mine
          /\ hand' = [hand EXCEPT ![p] = {mine}]
       \/ /\ Fails
          /\ \E gone \in SUBSET mine : mail' = mail \ gone
          /\ \E seen \in {{mine}, {{}}, {}} : hand' = [hand EXCEPT ![p] = seen]
    /\ UNCHANGED <<users, session, offer, draft, left>>

\* p is done with what it was at, or gives it up.
Drop(p) ==
    /\ offer' = [offer EXCEPT ![p] = {}]
    /\ draft' = [draft EXCEPT ![p] = {}]
    /\ hand' = [hand EXCEPT ![p] = {}]
    /\ UNCHANGED <<users, mail, session>>

Close(p) == Drop(p) /\ (Works \/ Fails) /\ UNCHANGED left

\* p leaves, and what it was at stays behind.
Part(p, s) ==
    /\ left[s] = {}
    /\ left' = [left EXCEPT ![s] = {[as |-> session[p], to |-> draft[p]]}]
    /\ Drop(p)
    /\ Works

\* What was left behind is done, once: a name is taken and nobody goes by it,
\* a message is posted, or messages are gone that nobody saw; or it is not.
SignUpLate == \E n \in Name \ users : users' = users \cup {n} /\ UNCHANGED mail

CollectLate(names) ==
    /\ \/ Works /\ mail' = mail \ MailFor(names)
       \/ Fails /\ \E gone \in SUBSET MailFor(names) : mail' = mail \ gone
    /\ UNCHANGED users

Late(s) ==
    /\ \E e \in left[s] :
         \/ e.as = {} /\ SignUpLate /\ (Works \/ Fails)
         \/ Post(e.as, e.to) /\ UNCHANGED users /\ (Works \/ Fails)
         \/ e.to = {} /\ CollectLate(e.as)
         \/ UNCHANGED <<users, mail>> /\ (Works \/ Fails)
    /\ left' = [left EXCEPT ![s] = {}]
    /\ UNCHANGED <<session, offer, draft, hand>>

\* A failure that does no harm.
Trouble ==
    Fails /\ UNCHANGED <<users, mail, session, offer, draft, left, hand>>

Next == \/ \E p \in Person : \/ SignUp(p) \/ Enter(p) \/ Compose(p) \/ Send(p)
                             \/ Collect(p) \/ Close(p)
                             \/ \E s \in Shadow : Part(p, s)
        \/ \E s \in Shadow : Late(s)
        \/ Trouble

Spec == Init /\ [][Next]_vars

-----------------------------------------------------------------------------

\* Two people go by the same name, or were given it, only if they did so from
\* the start.
Held(p) == session[p] \cup offer[p]
NamesOwned ==
    \A p, r \in Person :
        p # r =>
          Held(p) \cap Held(r) \subseteq InitSession[p] \cap InitSession[r]

\* Whoever holds a name holds one that is taken.
OwnInv == /\ NamesOwned
          /\ \A p \in Person : Held(p) \subseteq users
          /\ session = [p \in Person |-> session[p]]
          /\ offer = [p \in Person |-> offer[p]]

LEMMA InitOwn ==
    ASSUME InitSession = [p \in Person |-> InitSession[p]],
           \A p \in Person : InitSession[p] \subseteq InitUsers
    PROVE  Init => OwnInv
BY DEF Init, OwnInv, NamesOwned, Held

LEMMA StepOwn == OwnInv /\ [Next]_vars => OwnInv'
<1> SUFFICES ASSUME OwnInv, [Next]_vars PROVE OwnInv'
  OBVIOUS
<1>1. CASE UNCHANGED <<users, session, offer>>
  BY <1>1 DEF OwnInv, NamesOwned, Held
<1>2. ASSUME NEW p \in Person,
             \/ SignUp(p) \/ Enter(p) \/ Compose(p) \/ Send(p)
             \/ Collect(p) \/ Close(p) \/ \E s \in Shadow : Part(p, s)
      PROVE  OwnInv'
  <2>1. CASE SignUp(p)
    BY <2>1 DEF OwnInv, NamesOwned, Held, SignUp
  <2>2. CASE Enter(p) \/ Close(p) \/ \E s \in Shadow : Part(p, s)
    BY <2>2 DEF OwnInv, NamesOwned, Held, Enter, Close, Part, Drop
  <2>3. CASE Compose(p) \/ Send(p) \/ Collect(p)
    BY <1>1, <2>3 DEF Compose, Send, Collect
  <2> QED BY <1>2, <2>1, <2>2, <2>3
\* What happens late gives no name to anyone.
<1>3. ASSUME NEW s \in Shadow, Late(s) PROVE OwnInv'
  <2>1. users \subseteq users' /\ UNCHANGED <<session, offer>>
    BY <1>3 DEF Late, SignUpLate, CollectLate
  <2> QED BY <2>1 DEF OwnInv, NamesOwned, Held
<1> QED BY <1>1, <1>2, <1>3 DEF Next, Trouble, vars

\* Only those who started with a name share it.
THEOREM OwnNames ==
    ASSUME InitSession = [p \in Person |-> InitSession[p]],
           \A p \in Person : InitSession[p] \subseteq InitUsers
    PROVE  Spec => []NamesOwned
<1>1. OwnInv => NamesOwned
  BY DEF OwnInv
<1> QED BY <1>1, InitOwn, StepOwn, PTL DEF Spec

=============================================================================
