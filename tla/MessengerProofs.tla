-------------------------- MODULE MessengerProofs --------------------------
(***************************************************************************)
(* The client sessions implement Messenger: each step of a process or of   *)
(* the server is a step of it, in names, or changes nothing of it.         *)
(***************************************************************************)
EXTENDS SessionProofs

-----------------------------------------------------------------------------
(* Names for ids.                                                           *)

LEMMA NameFound ==
    ASSUME TableInv, NEW r \in clients
    PROVE  NameWithId(r.id) = r.name
BY DEF TableInv, NameWithId

\* The clients are as they were, and maybe more.
Grown == IndInv /\ SessionInv /\ TableInv' /\ clients \subseteq clients'

\* Whoever is registered keeps the name.
LEMMA NameKept ==
    ASSUME Grown, NEW i \in {r.id : r \in clients}
    PROVE  NameWithId(i)' = NameWithId(i)
<1>1. PICK r \in clients : r.id = i
  OBVIOUS
<1>2. NameWithId(i) = r.name
  BY <1>1 DEF Grown, IndInv, TableInv, NameWithId
<1>3. NameWithId(i)' = r.name
  BY <1>1 DEF Grown, TableInv, NameWithId
<1> QED BY <1>2, <1>3

\* Named messages: one for each row, from one name to another.
ForName(m) == [id |-> m.id, to |-> NameWithId(m.to),
               from |-> NameWithId(m.from)]

LEMMA ByNameKept ==
    ASSUME Grown, NEW rows, \A m \in rows : Between(m)
    PROVE  ByName(rows)' = ByName(rows)
<1>1. \A m \in rows : /\ NameWithId(m.to)' = NameWithId(m.to)
                      /\ NameWithId(m.from)' = NameWithId(m.from)
  BY NameKept DEF Between
<1> QED BY <1>1 DEF ByName

-----------------------------------------------------------------------------
(* What Messenger sees of a step of p.                                      *)

Others(p) ==
    \A q \in Process \ {p} :
        /\ GoesBy(q)' = GoesBy(q) /\ Given(q)' = Given(q)
        /\ WritesTo(q)' = WritesTo(q) /\ Handed(q)' = Handed(q)

Alone(p) == Others(p) /\ \A o \in Orphan : LeftBy(o)' = LeftBy(o)

LEMMA Views ==
    ASSUME NEW p \in Process, Others(p)
    PROVE  /\ [q \in Process |-> GoesBy(q)]'
                = [[q \in Process |-> GoesBy(q)] EXCEPT ![p] = GoesBy(p)']
           /\ [q \in Process |-> Given(q)]'
                = [[q \in Process |-> Given(q)] EXCEPT ![p] = Given(p)']
           /\ [q \in Process |-> WritesTo(q)]'
                = [[q \in Process |-> WritesTo(q)] EXCEPT ![p] = WritesTo(p)']
           /\ [q \in Process |-> Handed(q)]'
                = [[q \in Process |-> Handed(q)] EXCEPT ![p] = Handed(p)']
BY DEF Others

Same == Users' = Users /\ ByName(messages)' = ByName(messages)

Counted == faults' = faults \/ (faults > 0 /\ faults' = faults - 1)

LEMMA Stutters ==
    ASSUME NEW p \in Process, Alone(p), Same, UNCHANGED faults,
           GoesBy(p)' = GoesBy(p), Given(p)' = Given(p),
           WritesTo(p)' = WritesTo(p), Handed(p)' = Handed(p)
    PROVE  UNCHANGED Messenger!vars
BY DEF Messenger!vars, Alone, Others, Same

LEMMA Troubles ==
    ASSUME NEW p \in Process, Alone(p), Same, Counted,
           GoesBy(p)' = GoesBy(p), Given(p)' = Given(p),
           WritesTo(p)' = WritesTo(p), Handed(p)' = Handed(p)
    PROVE  Messenger!Trouble \/ UNCHANGED Messenger!vars
BY Stutters DEF Messenger!Trouble, Messenger!Fails, Alone, Others, Same,
                 Counted

LEMMA Closes ==
    ASSUME NEW p \in Process, Alone(p), Same, Counted,
           GoesBy(p)' = GoesBy(p),
           Given(p)' = {}, WritesTo(p)' = {}, Handed(p)' = {}
    PROVE  Messenger!Close(p)
BY Views
   DEF Messenger!Close, Messenger!Drop, Alone, Same, Counted,
       Messenger!Works, Messenger!Fails

LEMMA Enters ==
    ASSUME NEW p \in Process, Alone(p), Same, UNCHANGED faults,
           Given(p) # {}, GoesBy(p)' = Given(p), Given(p)' = {},
           WritesTo(p)' = WritesTo(p), Handed(p)' = Handed(p)
    PROVE  Messenger!Enter(p)
BY Views DEF Messenger!Enter, Alone, Same

LEMMA Composes ==
    ASSUME NEW p \in Process, Alone(p), Same, UNCHANGED faults,
           GoesBy(p) # {}, GoesBy(p)' = GoesBy(p), Given(p)' = Given(p),
           NEW n \in Name, WritesTo(p)' = {n}, Handed(p)' = Handed(p)
    PROVE  Messenger!Compose(p)
BY Views DEF Messenger!Compose, Alone, Same

LEMMA SignsUp ==
    ASSUME NEW p \in Process, Alone(p), ByName(messages)' = ByName(messages),
           NEW n \in Name \ Users, Users' = Users \cup {n}, GoesBy(p) = {},
           \/ Given(p)' = {n} /\ UNCHANGED faults
           \/ Given(p)' = Given(p) /\ faults > 0 /\ faults' = faults - 1,
           GoesBy(p)' = GoesBy(p),
           WritesTo(p)' = WritesTo(p), Handed(p)' = Handed(p)
    PROVE  Messenger!SignUp(p)
BY Views DEF Messenger!SignUp, Alone, Messenger!Works, Messenger!Fails

LEMMA Sends ==
    ASSUME NEW p \in Process, Alone(p), Users' = Users, Counted,
           Messenger!Post(GoesBy(p), WritesTo(p)),
           GoesBy(p)' = GoesBy(p), Given(p)' = Given(p),
           WritesTo(p)' = {}, Handed(p)' = Handed(p)
    PROVE  Messenger!Send(p)
BY Views
   DEF Messenger!Send, Alone, Counted, Messenger!Works, Messenger!Fails

MailFor(p) == {m \in ByName(messages) : m.to \in GoesBy(p)}

LEMMA NamesMail ==
    ASSUME NEW p
    PROVE  Messenger!MailFor(GoesBy(p)) = MailFor(p)
BY DEF Messenger!MailFor, MailFor

LEMMA Collects ==
    ASSUME NEW p \in Process, Alone(p), Users' = Users,
           \/ /\ UNCHANGED faults
              /\ ByName(messages)' = ByName(messages) \ MailFor(p)
              /\ Handed(p)' = {MailFor(p)}
           \/ /\ faults > 0 /\ faults' = faults - 1
              /\ \E gone \in SUBSET MailFor(p) :
                   ByName(messages)' = ByName(messages) \ gone
              /\ Handed(p)' \in {{MailFor(p)}, {{}}, {}},
           GoesBy(p)' = GoesBy(p), Given(p)' = Given(p),
           WritesTo(p)' = WritesTo(p)
    PROVE  Messenger!Collect(p)
BY Views, NamesMail
   DEF Messenger!Collect, Alone, Messenger!Works, Messenger!Fails

-----------------------------------------------------------------------------
(* What Messenger sees of a step of an orphan. *)

\* Of all others it sees nothing.
Aside(o) == /\ \A q \in Process :
                 /\ GoesBy(q)' = GoesBy(q) /\ Given(q)' = Given(q)
                 /\ WritesTo(q)' = WritesTo(q) /\ Handed(q)' = Handed(q)
            /\ \A s \in Orphan \ {o} : LeftBy(s)' = LeftBy(s)

LEMMA ViewOfLeft ==
    ASSUME NEW o \in Orphan, \A s \in Orphan \ {o} : LeftBy(s)' = LeftBy(s)
    PROVE  [s \in Orphan |-> LeftBy(s)]'
             = [[s \in Orphan |-> LeftBy(s)] EXCEPT ![o] = LeftBy(o)']
OBVIOUS

\* What an orphan left is done: see Messenger!Late.
Done(as, to) ==
    \/ as = {} /\ Messenger!SignUpLate /\ Counted
    \/ Messenger!Post(as, to) /\ Users' = Users /\ Counted
    \/ to = {} /\ Messenger!CollectLate(as)
    \/ Same /\ Counted

LEMMA DoneLate ==
    ASSUME NEW o \in Orphan, Aside(o), LeftBy(o)' = {},
           LeftBy(o) = {[as |-> GoesBy(o), to |-> WritesTo(o)]},
           Done(GoesBy(o), WritesTo(o))
    PROVE  Messenger!Late(o)
<1> DEFINE e == [as |-> GoesBy(o), to |-> WritesTo(o)]
           left == [s \in Orphan |-> LeftBy(s)]
<1>1. e \in left[o] /\ e.as = GoesBy(o) /\ e.to = WritesTo(o)
  OBVIOUS
<1>2. left' = [left EXCEPT ![o] = {}]
  BY ViewOfLeft DEF Aside
<1>3. /\ UNCHANGED [q \in Process |-> GoesBy(q)]
      /\ UNCHANGED [q \in Process |-> Given(q)]
      /\ UNCHANGED [q \in Process |-> WritesTo(q)]
      /\ UNCHANGED [q \in Process |-> Handed(q)]
  BY DEF Aside
<1>4. Counted => Messenger!Works \/ Messenger!Fails
  BY DEF Counted, Messenger!Works, Messenger!Fails
<1>5. \/ e.as = {} /\ Messenger!SignUpLate
           /\ (Messenger!Works \/ Messenger!Fails)
      \/ Messenger!Post(e.as, e.to) /\ UNCHANGED Users
           /\ (Messenger!Works \/ Messenger!Fails)
      \/ e.to = {} /\ Messenger!CollectLate(e.as)
      \/ UNCHANGED <<Users, ByName(messages)>>
           /\ (Messenger!Works \/ Messenger!Fails)
  <2> HIDE DEF e
  <2> QED BY <1>1, <1>4 DEF Done, Same
<1> HIDE DEF e
<1> QED BY <1>1, <1>2, <1>3, <1>5 DEF Messenger!Late

-----------------------------------------------------------------------------
(* What is seen of a step of a process. *)

Seen == Messenger!Next \/ UNCHANGED Messenger!vars

LEMMA ViewKept ==
    ASSUME Grown, NEW q \in Peer, pc'[q] = pc[q], me'[q] = me[q],
           call'[q] = call[q], resp'[q] = resp[q]
    PROVE  /\ GoesBy(q)' = GoesBy(q) /\ Given(q)' = Given(q)
           /\ WritesTo(q)' = WritesTo(q) /\ Handed(q)' = Handed(q)
           /\ LeftBy(q)' = LeftBy(q)
<1>1. resp[q].code = "GET_UNREAD_MESSAGES_SUCCESS" =>
        ByName(resp[q].rows)' = ByName(resp[q].rows)
  <2> SUFFICES ASSUME resp[q].code = "GET_UNREAD_MESSAGES_SUCCESS"
               PROVE  ByName(resp[q].rows)' = ByName(resp[q].rows)
    OBVIOUS
  <2>1. \A m \in resp[q].rows : Between(m)
    BY DEF Grown, SessionInv, AnsweredInv
  <2>2. \A rows : (\A m \in rows : Between(m)) => ByName(rows)' = ByName(rows)
    BY ByNameKept
  <2> QED BY <2>1, <2>2
<1>2. GoesBy(q)' = GoesBy(q) /\ WritesTo(q)' = WritesTo(q)
  BY DEF GoesBy, WritesTo
<1> QED BY <1>1, <1>2 DEF Given, Handed, LeftBy

LEMMA OthersSeen ==
    ASSUME Grown, NEW p \in Process,
           \A q \in Peer \ {p} :
             /\ pc'[q] = pc[q] /\ me'[q] = me[q]
             /\ call'[q] = call[q] /\ resp'[q] = resp[q]
    PROVE  Alone(p)
<1>1. /\ \A q \in Process \ {p} : q \in Peer \ {p}
      /\ \A o \in Orphan : o \in Peer \ {p}
  BY OrphanAssumption DEF Peer
<1> QED BY <1>1, ViewKept DEF Alone, Others

LEMMA AsideSeen ==
    ASSUME Grown, NEW o \in Orphan,
           \A q \in Peer \ {o} :
             /\ pc'[q] = pc[q] /\ me'[q] = me[q]
             /\ call'[q] = call[q] /\ resp'[q] = resp[q]
    PROVE  Aside(o)
<1>1. /\ \A q \in Process : q \in Peer \ {o}
      /\ \A s \in Orphan \ {o} : s \in Peer \ {o}
  BY OrphanAssumption DEF Peer
<1> QED BY <1>1, ViewKept DEF Aside

LEMMA TablesSame ==
    ASSUME UNCHANGED <<clients, messages>>
    PROVE  Same
BY DEF Same, Users, ByName, NameWithId

\* A process that waits for nothing, or for nothing yet, has nothing.
LEMMA NothingYet ==
    ASSUME SessionInv, NEW p \in Process,
           \/ resp[p] = Nothing \/ resp[p] = Silence
           \/ pc[p] \notin {"register", "fetch"}
    PROVE  Given(p) = {} /\ Handed(p) = {}
<1>1. AnsweredInv(p)
  BY DEF SessionInv, Peer
<1>2. /\ resp[p].code # "REGISTER_SUCCESS"
      /\ resp[p].code # "GET_UNREAD_MESSAGES_SUCCESS"
  BY <1>1 DEF AnsweredInv, Nothing, Silence
<1> QED BY <1>2 DEF Given, Handed

LEMMA PostSeen ==
    ASSUME IndInv, IndInv', SessionInv, NEW p \in Process, NEW point, NEW s,
           NEW locals, Post(p, point, s, locals), UNCHANGED <<tables, faults>>,
           \A q \in Peer \ {p} : me'[q] = me[q]
    PROVE  /\ Alone(p) /\ Same /\ Given(p)' = {} /\ Handed(p)' = {}
           /\ WritesTo(p)' = IF point \in {"lookup", "key", "send"}
                             THEN {locals.typed} ELSE {}
<1>1. /\ pc'[p] = point /\ resp'[p] = Nothing /\ call'[p] = locals
      /\ \A q \in Peer \ {p} :
           pc'[q] = pc[q] /\ resp'[q] = resp[q] /\ call'[q] = call[q]
  BY DEF Post, IndInv, Maps, IsMap, Peer
<1>2. Grown
  BY DEF Grown, IndInv, tables
<1>3. Alone(p) /\ Same
  BY <1>1, <1>2, OthersSeen, TablesSame DEF tables
<1> QED BY <1>1, <1>3 DEF Given, Handed, WritesTo, Nothing

\* A process that comes to its menu, or ends, is done with what it was at.
LEMMA LeaveSeen ==
    ASSUME IndInv, IndInv', SessionInv, NEW p \in Process,
           NEW point \in {"off", "menu", "crashed"},
           Leave(p, point), UNCHANGED <<tables, me, faults>>
    PROVE  Messenger!Close(p)
<1>1. Post(p, point, {}, NoCall)
  BY DEF Leave
<1> HIDE DEF Leave
<1>2. /\ Alone(p) /\ Same /\ Given(p)' = {} /\ Handed(p)' = {}
      /\ WritesTo(p)' = {}
  BY <1>1, PostSeen
<1>3. GoesBy(p)' = GoesBy(p) /\ Counted
  BY DEF GoesBy, Counted
<1> QED BY <1>2, <1>3, Closes

LEMMA AloneSeen ==
    ASSUME IndInv, IndInv', SessionInv, NEW p \in Process,
           Start(p) \/ Stop(p) \/ MenuKeyGot(p) \/ Fetched(p) \/ Listed(p)
             \/ MessageSent(p) \/ Failed(p)
    PROVE  Messenger!Close(p)
<1>1. /\ \E point \in {"off", "menu", "crashed"} : Leave(p, point)
      /\ UNCHANGED <<tables, me, faults>>
  BY DEF Start, Stop, MenuKeyGot, Fetched, Listed, MessageSent, Failed, Exit,
         local
<1> QED BY <1>1, LeaveSeen

LEMMA RegisteredSeen ==
    ASSUME IndInv, IndInv', SessionInv, NEW p \in Process, Registered(p)
    PROVE  Messenger!Enter(p)
<1> DEFINE i == resp[p].id
           n == call[p].typed
<1>1. /\ me' = [me EXCEPT ![p] = [id |-> i, name |-> n]]
      /\ Post(p, "menu", {}, NoCall) /\ UNCHANGED <<tables, faults>>
      /\ pc[p] = "register" /\ resp[p].code = "REGISTER_SUCCESS"
  BY DEF Registered, Leave, IsValidResponse
<1>2. /\ me'[p] = [id |-> i, name |-> n]
      /\ \A q \in Peer \ {p} : me'[q] = me[q]
  BY <1>1 DEF IndInv, Maps, IsMap, Peer
<1>3. i \in Id
  BY <1>1 DEF IndInv, ProcessInv, ReplyInv, Reply, Nothing, Error, Silence,
              Peer
<1>4. GoesBy(p)' = {n} /\ Given(p) = {n}
  BY <1>1, <1>2, <1>3, IdAssumption DEF GoesBy, Given, NoOne
<1>5. Handed(p) = {} /\ WritesTo(p) = {}
  BY <1>1 DEF Handed, WritesTo
<1> HIDE DEF i, n
<1>6. /\ Alone(p) /\ Same /\ Given(p)' = {} /\ Handed(p)' = {}
      /\ WritesTo(p)' = {}
  BY <1>1, <1>2, PostSeen
<1> QED BY <1>1, <1>4, <1>5, <1>6, Enters

\* Only the choice to send something is seen, with the name typed for it.
LEMMA ChooseSeen ==
    ASSUME IndInv, IndInv', SessionInv, NEW p \in Process, Choose(p)
    PROVE  Seen
<1>1. pc[p] = "menu" /\ UNCHANGED <<tables, me, faults>>
  BY DEF Choose, Register, AskList, AskPublicKey, AskUnread, Compose, Chosen,
         local
<1>2. Given(p) = {} /\ Handed(p) = {} /\ WritesTo(p) = {}
  BY <1>1, NothingYet DEF WritesTo
<1>3. GoesBy(p)' = GoesBy(p)
  BY <1>1 DEF GoesBy
<1>4. ASSUME NEW point \in {"register", "list", "menukey", "fetch"}, NEW s,
             NEW locals, Post(p, point, s, locals)
      PROVE  Seen
  <2>1. /\ Alone(p) /\ Same /\ Given(p)' = {} /\ Handed(p)' = {}
        /\ WritesTo(p)' = {}
    BY <1>1, <1>4, PostSeen
  <2> QED BY <1>1, <1>2, <1>3, <2>1, Stutters DEF Seen
<1>5. CASE Compose(p)
  <2>1. PICK n \in Name, t \in Type :
          Post(p, "lookup", RequestHeader(me[p].id, "GET_CLIENTS_LIST", 0),
               [NoCall EXCEPT !.typed = n, !.type = t])
    BY <1>5 DEF Compose
  <2> DEFINE s == RequestHeader(me[p].id, "GET_CLIENTS_LIST", 0)
             locals == [NoCall EXCEPT !.typed = n, !.type = t]
  <2>2. Post(p, "lookup", s, locals) /\ locals.typed = n
    BY <2>1 DEF NoCall
  <2> HIDE DEF s, locals
  <2>3. /\ Alone(p) /\ Same /\ Given(p)' = {} /\ Handed(p)' = {}
        /\ WritesTo(p)' = {n}
    BY <1>1, <2>2, PostSeen
  <2>4. GoesBy(p) # {}
    BY <1>5 DEF Compose, Chosen, GoesBy
  <2>5. Messenger!Compose(p)
    BY <1>1, <1>2, <1>3, <2>3, <2>4, Composes
  <2> QED BY <2>5 DEF Seen, Messenger!Next
<1> QED BY <1>4, <1>5 DEF Choose, Register, AskList, AskPublicKey, AskUnread

\* The recipient is found, its key is fetched: the name stays as it is.
LEMMA WritingSeen ==
    ASSUME IndInv, IndInv', SessionInv, NEW p \in Process,
           NEW point \in {"key", "send"}, NEW s, NEW locals,
           pc[p] \in {"lookup", "key"}, Post(p, point, s, locals),
           locals.typed = call[p].typed, UNCHANGED <<tables, me, faults>>
    PROVE  Seen
<1>1. /\ Alone(p) /\ Same /\ Given(p)' = {} /\ Handed(p)' = {}
      /\ WritesTo(p)' = {call[p].typed}
  BY PostSeen
<1>2. /\ Given(p) = {} /\ Handed(p) = {} /\ WritesTo(p) = {call[p].typed}
      /\ GoesBy(p)' = GoesBy(p)
  BY NothingYet DEF WritesTo, GoesBy
<1> QED BY <1>1, <1>2, Stutters DEF Seen

LEMMA LookedUpSeen ==
    ASSUME IndInv, IndInv', SessionInv, NEW p \in Process,
           LookedUp(p) \/ KeyGot(p)
    PROVE  Seen
<1>1. UNCHANGED <<tables, me, faults>> /\ pc[p] \in {"lookup", "key"}
  BY DEF LookedUp, KeyGot, local
<1>2. CASE Leave(p, "menu")
  BY <1>1, <1>2, LeaveSeen DEF Seen, Messenger!Next
<1>3. CASE KeyGot(p)
  BY <1>1, <1>3, WritingSeen DEF KeyGot
<1>4. ASSUME NEW e, SendTo(p, e)
      PROVE  Seen
  <2> DEFINE c == [call[p] EXCEPT !.to = e]
  <2>1. call[p] \in CallType
    BY DEF IndInv, ProcessInv, MemoryInv, Peer
  <2>2. /\ c.typed = call[p].typed
        /\ [c EXCEPT !.to.sym = "generated"].typed = call[p].typed
        /\ \A n \in TextLength : [c EXCEPT !.length = n].typed = call[p].typed
    BY <2>1 DEF CallType
  <2>3. \E point \in {"key", "send"} : \E s, locals :
          Post(p, point, s, locals) /\ locals.typed = call[p].typed
    BY <1>4, <2>2 DEF SendTo
  <2> QED BY <1>1, <2>3, WritingSeen
<1> QED BY <1>2, <1>3, <1>4 DEF LookedUp

\* A process that ends leaves what it was at, as whom and for whom.
LEMMA AbandonSeen ==
    ASSUME IndInv, IndInv', SessionInv, NEW p \in Process, NEW o \in Orphan,
           Abandon(p, o)
    PROVE  Messenger!Part(p, o)
<1>1. p \in Peer /\ o \in Peer /\ p # o
  BY OrphanAssumption DEF Peer
<1>2. UNCHANGED <<clients, messages, resp, faults>>
  BY DEF Abandon, tables
<1>3. /\ pc[p] \in {"register", "fetch", "send"} /\ resp[p] = Nothing
      /\ pc[o] = "off" /\ resp[o] = Nothing
  <2>1. AnsweredInv(o) /\ pc[o] = "off"
    BY <1>1 DEF SessionInv, Abandon
  <2> QED BY <2>1 DEF Abandon, AnsweredInv, Blocked
<1>4. /\ pc'[p] = "off" /\ me'[p] = me[p]
      /\ pc'[o] = pc[p] /\ me'[o] = me[p] /\ call'[o] = call[p]
  BY <1>1 DEF Abandon, IndInv, Maps, IsMap
<1>5. Grown
  BY <1>2 DEF Grown, IndInv
<1>6. \A q \in Peer \ {p, o} :
        /\ pc'[q] = pc[q] /\ me'[q] = me[q]
        /\ call'[q] = call[q] /\ resp'[q] = resp[q]
  BY DEF Abandon, IndInv, Maps, IsMap
<1>7. Others(p) /\ \A s \in Orphan \ {o} : LeftBy(s)' = LeftBy(s)
  <2>1. /\ \A q \in Process \ {p} : q \in Peer \ {p, o}
        /\ \A s \in Orphan \ {o} : s \in Peer \ {p, o}
    BY OrphanAssumption DEF Peer
  <2> QED BY <1>5, <1>6, <2>1, ViewKept DEF Others
<1>8. Same
  BY <1>2, TablesSame
<1>9. /\ GoesBy(p)' = GoesBy(p) /\ Given(p)' = {}
      /\ WritesTo(p)' = {} /\ Handed(p)' = {}
  BY <1>2, <1>3, <1>4 DEF GoesBy, Given, WritesTo, Handed, Nothing
<1>10. LeftBy(o) = {} /\ LeftBy(o)' = {[as |-> GoesBy(p), to |-> WritesTo(p)]}
  <2>1. GoesBy(o)' = GoesBy(p) /\ WritesTo(o)' = WritesTo(p)
    BY <1>2, <1>3, <1>4 DEF GoesBy, WritesTo
  <2> QED BY <1>2, <1>3, <1>4, <2>1 DEF LeftBy, Blocked
<1>11. [s \in Orphan |-> LeftBy(s)]'
         = [[s \in Orphan |-> LeftBy(s)] EXCEPT ![o] = LeftBy(o)']
  BY <1>7, ViewOfLeft
<1> QED
  BY <1>2, <1>7, <1>8, <1>9, <1>10, <1>11, Views
     DEF Messenger!Part, Messenger!Drop, Messenger!Works, Same

\* With its connection reset, nothing is left of it.
LEMMA ResetSeen ==
    ASSUME IndInv, IndInv', SessionInv, NEW p \in Process, NEW o \in Orphan,
           Reset(p, o)
    PROVE  Messenger!Close(p)
<1>1. p \in Peer /\ o \in Peer /\ p # o
  BY OrphanAssumption DEF Peer
<1>2. UNCHANGED <<clients, messages, me, faults>>
  BY DEF Reset, tables, local
<1>3. pc'[p] = "off" /\ resp'[p] = Nothing
  BY <1>1 DEF Reset, IndInv, Maps, IsMap
<1>4. pc[o] = "off" /\ pc'[o] = "reset"
  BY <1>1 DEF Reset, IndInv, Maps, IsMap
<1>5. Grown
  BY <1>2 DEF Grown, IndInv
<1>6. \A q \in Peer \ {p, o} :
        /\ pc'[q] = pc[q] /\ me'[q] = me[q]
        /\ call'[q] = call[q] /\ resp'[q] = resp[q]
  BY <1>2 DEF Reset, IndInv, Maps, IsMap
<1>7. LeftBy(o)' = LeftBy(o)
  BY <1>4 DEF LeftBy, Blocked
<1>8. Alone(p)
  <2>1. /\ \A q \in Process \ {p} : q \in Peer \ {p, o}
        /\ \A s \in Orphan \ {o} : s \in Peer \ {p, o}
    BY OrphanAssumption DEF Peer
  <2> QED BY <1>5, <1>6, <1>7, <2>1, ViewKept DEF Alone, Others
<1>9. Same /\ Counted
  BY <1>2, TablesSame DEF Counted
<1>10. /\ GoesBy(p)' = GoesBy(p) /\ Given(p)' = {}
       /\ WritesTo(p)' = {} /\ Handed(p)' = {}
  BY <1>2, <1>3 DEF GoesBy, Given, WritesTo, Handed, Nothing
<1> QED BY <1>8, <1>9, <1>10, Closes

\* The server never comes to it.
LEMMA ForgetSeen ==
    ASSUME IndInv, IndInv', SessionInv, NEW o \in Orphan, Forget(o)
    PROVE  Seen
<1>1. o \in Peer /\ UNCHANGED <<clients, messages, faults>>
  BY DEF Forget, Peer, tables
<1>2. pc'[o] = "off"
  BY <1>1 DEF Forget, Leave, Post, IndInv, Maps, IsMap
<1>3. \A q \in Peer \ {o} :
        /\ pc'[q] = pc[q] /\ me'[q] = me[q]
        /\ call'[q] = call[q] /\ resp'[q] = resp[q]
  BY DEF Forget, Leave, Post, IndInv, Maps, IsMap
<1>4. Aside(o)
  BY <1>1, <1>3, AsideSeen DEF Grown, IndInv
<1>5. Same /\ Counted
  BY <1>1, TablesSame DEF Counted
<1>6. LeftBy(o)' = {}
  BY <1>2 DEF LeftBy, Blocked
<1>7. CASE LeftBy(o) = {}
  BY <1>1, <1>4, <1>5, <1>6, <1>7 DEF Seen, Messenger!vars, Aside, Same
<1>8. CASE LeftBy(o) = {[as |-> GoesBy(o), to |-> WritesTo(o)]}
  BY <1>4, <1>5, <1>6, <1>8, DoneLate DEF Done, Seen, Messenger!Next
<1> QED BY <1>7, <1>8 DEF LeftBy

-----------------------------------------------------------------------------
(* What is seen of a step of the server. *)

LEMMA ReplySeen ==
    ASSUME Grown, NEW p \in Process, NEW r,
           resp[p] = Nothing \/ resp[p] = Silence,
           resp' = [resp EXCEPT ![p] = r], UNCHANGED <<pc, call, req, me>>
    PROVE  /\ Alone(p) /\ resp'[p] = r /\ GoesBy(p)' = GoesBy(p)
           /\ Given(p) = {} /\ Handed(p) = {}
           /\ pc[p] # "send" => WritesTo(p)' = WritesTo(p)
           /\ pc[p] = "send" /\ r # Nothing => WritesTo(p)' = {}
<1>1. resp'[p] = r /\ \A q \in Peer \ {p} : resp'[q] = resp[q]
  BY DEF Grown, IndInv, Maps, IsMap, Peer
<1>2. Alone(p)
  BY <1>1, OthersSeen
<1>3. Given(p) = {} /\ Handed(p) = {}
  BY NothingYet DEF Grown
<1> QED BY <1>1, <1>2, <1>3 DEF GoesBy, WritesTo

\* An orphan is answered once, and nothing is left of it then.
LEMMA OrphanServed ==
    ASSUME Grown, NEW o \in Orphan, NEW code, Asked(o, code),
           NEW r, r # Nothing, resp' = [resp EXCEPT ![o] = r],
           UNCHANGED <<pc, call, req, me>>, Done(GoesBy(o), WritesTo(o))
    PROVE  Seen
<1>1. resp'[o] = r /\ \A q \in Peer \ {o} : resp'[q] = resp[q]
  BY DEF Grown, IndInv, Maps, IsMap, Peer
<1>2. Aside(o)
  BY <1>1, AsideSeen
<1>3. /\ LeftBy(o) = {[as |-> GoesBy(o), to |-> WritesTo(o)]}
      /\ LeftBy(o)' = {}
  BY <1>1 DEF LeftBy, Asked
<1>4. Messenger!Late(o)
  BY <1>2, <1>3, DoneLate
<1> QED BY <1>4 DEF Seen, Messenger!Next

\* What an orphan's request has done is seen, and not the reply to it.
LEMMA OrphanAnswered ==
    ASSUME Grown, NEW o \in Orphan, NEW code, Asked(o, code), NEW r,
           Answer(o, r), Counted => Done(GoesBy(o), WritesTo(o))
    PROVE  Seen
<1>1. o \notin Process /\ Error # Nothing
  BY OrphanAssumption DEF Error, Nothing
<1>2. Counted /\ UNCHANGED <<pc, call, req, me>>
  BY DEF Answer, Counted, local
<1>3. resp' = [resp EXCEPT ![o] = Error]
  BY <1>1 DEF Answer
<1> QED BY <1>1, <1>2, <1>3, OrphanServed

\* A reply with nothing to take from it: at most it ends an attempt to send.
LEMMA PlainSeen ==
    ASSUME Grown, NEW p \in Process, NEW r,
           resp[p] = Nothing \/ resp[p] = Silence,
           resp' = [resp EXCEPT ![p] = r], UNCHANGED <<pc, call, req, me>>,
           UNCHANGED <<clients, messages>>, Counted,
           r.code # "REGISTER_SUCCESS", r # Nothing,
           r.code # "GET_UNREAD_MESSAGES_SUCCESS"
    PROVE  Seen
<1>1. /\ Alone(p) /\ Same /\ resp'[p] = r /\ GoesBy(p)' = GoesBy(p)
      /\ Given(p) = {} /\ Handed(p) = {}
      /\ pc[p] # "send" => WritesTo(p)' = WritesTo(p)
      /\ pc[p] = "send" => WritesTo(p)' = {}
  BY ReplySeen, TablesSame
<1>2. Given(p)' = {} /\ Handed(p)' = {}
  BY <1>1 DEF Given, Handed
<1>3. CASE pc[p] = "send"
  BY <1>1, <1>2, <1>3, Closes DEF Seen, Messenger!Next
<1>4. CASE pc[p] # "send"
  BY <1>1, <1>2, <1>4, Troubles DEF Seen, Messenger!Next
<1> QED BY <1>3, <1>4

LEMMA PlainAnswerSeen ==
    ASSUME Grown, NEW c \in Peer, NEW code, Asked(c, code), NEW r,
           Answer(c, r), UNCHANGED <<clients, messages>>,
           r.code # "REGISTER_SUCCESS", r # Nothing,
           r.code # "GET_UNREAD_MESSAGES_SUCCESS"
    PROVE  Seen
<1>1. UNCHANGED <<pc, call, req, me>> /\ Counted /\ resp[c] = Nothing
  BY DEF Answer, local, Counted, Asked
<1>2. /\ Error # Nothing /\ Error.code # "REGISTER_SUCCESS"
      /\ Error.code # "GET_UNREAD_MESSAGES_SUCCESS"
  BY DEF Error, Nothing
<1>3. CASE c \in Process
  <2>1. PICK e \in {r, Error} : resp' = [resp EXCEPT ![c] = e]
    BY <1>3 DEF Answer
  <2> QED BY <1>1, <1>2, <1>3, <2>1, PlainSeen
<1>4. CASE c \in Orphan
  BY <1>1, <1>4, TablesSame, OrphanAnswered DEF Done
<1> QED BY <1>3, <1>4 DEF Peer

LEMMA FailSeen ==
    ASSUME Grown, NEW p \in Process, Fail(p) \/ Starve(p)
    PROVE  Seen
<1>1. /\ UNCHANGED <<pc, call, req, me>> /\ UNCHANGED <<clients, messages>>
      /\ Counted /\ (resp[p] = Nothing \/ resp[p] = Silence)
  BY DEF Fail, Starve, tables, local, Counted
<1>2. PICK e \in {Error, Silence} : resp' = [resp EXCEPT ![p] = e]
  BY DEF Fail, Starve
<1>3. /\ e # Nothing /\ e.code # "REGISTER_SUCCESS"
      /\ e.code # "GET_UNREAD_MESSAGES_SUCCESS"
  BY DEF Error, Silence, Nothing
<1> QED BY <1>1, <1>2, <1>3, PlainSeen

LEMMA ServeReadSeen ==
    ASSUME Grown, NEW c \in Peer, ServeList(c) \/ ServePublicKey(c)
    PROVE  Seen
<1>1. PICK r : /\ Answer(c, r) /\ r # Nothing
               /\ r.code # "REGISTER_SUCCESS"
               /\ r.code # "GET_UNREAD_MESSAGES_SUCCESS"
  BY DEF ServeList, ServePublicKey, Error, Nothing
<1>2. PICK code : Asked(c, code) /\ UNCHANGED <<clients, messages>>
  BY DEF ServeList, ServePublicKey, tables
<1> QED BY <1>1, <1>2, PlainAnswerSeen

\* The name is free, and is taken.
LEMMA NameTaken ==
    ASSUME Grown, NEW n \in Name, NEW i \in Id, NEW k,
           ~ClientNameExists(clients, n),
           clients' = InsertClient(clients, i, n, k), UNCHANGED messages
    PROVE  /\ n \in Name \ Users /\ Users' = Users \cup {n}
           /\ ByName(messages)' = ByName(messages)
<1> DEFINE row == [id |-> i, name |-> n, key |-> k]
<1>1. clients' = clients \cup {row} /\ row.name = n
  BY DEF InsertClient
<1> HIDE DEF row
<1>2. Users' = Users \cup {n}
  BY <1>1 DEF Users
<1>3. n \notin Users
  BY DEF Users, ClientNameExists
<1>4. \A m \in messages : Between(m)
  BY DEF Grown, SessionInv, MailInv
<1>5. \A rows : (\A m \in rows : Between(m)) => ByName(rows)' = ByName(rows)
  BY ByNameKept
<1> QED BY <1>2, <1>3, <1>4, <1>5

\* Who asked for the name is told so, unless it fails, or he has left.
LEMMA ServeRegisterSeen ==
    ASSUME Grown, NEW p \in Peer, ServeRegister(p)
    PROVE  Seen
<1> DEFINE n == NameOf(req[p])
           k == KeyOf(req[p])
<1>1. /\ pc[p] = "register" /\ n = call[p].typed /\ me[p] = NoOne
      /\ resp[p] = Nothing /\ n \in Name
  BY DEF ServeRegister, Asked, Grown, SessionInv, AskedInv, Belongs, IndInv,
         ProcessInv, RequestInv
<1>2. Asked(p, "REGISTER_CLIENT") /\ UNCHANGED messages
  BY DEF ServeRegister
<1> HIDE DEF n, k
<1>3. CASE Answer(p, Error) /\ UNCHANGED clients
  BY <1>2, <1>3, PlainAnswerSeen DEF Error, Nothing
<1>4. ASSUME NEW i \in Id, clients' = InsertClient(clients, i, n, k),
             ~ClientNameExists(clients, n), NEW r,
             r = [code |-> "REGISTER_SUCCESS", size |-> ClientIdSize,
                  id |-> i],
             Answer(p, r)
      PROVE  Seen
  <2>1. /\ n \in Name \ Users /\ Users' = Users \cup {n}
        /\ ByName(messages)' = ByName(messages)
    BY <1>1, <1>2, <1>4, NameTaken
  <2>2. UNCHANGED <<pc, call, req, me>> /\ GoesBy(p) = {}
    BY <1>1, <1>4 DEF Answer, local, GoesBy
  <2>3. CASE p \in Orphan
    <3>1. Counted => Done(GoesBy(p), WritesTo(p))
      BY <2>1, <2>2 DEF Done, Messenger!SignUpLate
    <3> QED BY <1>2, <1>4, <2>3, <3>1, OrphanAnswered
  <2>4. CASE /\ p \in Process /\ UNCHANGED faults
             /\ resp' = [resp EXCEPT ![p] = r]
    <3>1. /\ Alone(p) /\ resp'[p] = r /\ GoesBy(p)' = GoesBy(p)
          /\ Handed(p) = {} /\ WritesTo(p)' = WritesTo(p)
      BY <1>1, <2>2, <2>4, ReplySeen
    <3>2. Given(p)' = {n} /\ Handed(p)' = {}
      BY <1>1, <1>4, <2>2, <3>1 DEF Given, Handed
    <3>3. Messenger!SignUp(p)
      BY <2>1, <2>2, <2>4, <3>1, <3>2, SignsUp
    <3> QED BY <2>4, <3>3 DEF Seen, Messenger!Next
  <2>5. CASE /\ p \in Process /\ faults > 0 /\ faults' = faults - 1
             /\ resp' = [resp EXCEPT ![p] = Error]
    <3>1. /\ Alone(p) /\ resp'[p] = Error /\ GoesBy(p)' = GoesBy(p)
          /\ Given(p) = {} /\ Handed(p) = {} /\ WritesTo(p)' = WritesTo(p)
      BY <1>1, <2>2, <2>5, ReplySeen
    <3>2. Given(p)' = {} /\ Handed(p)' = {}
      BY <3>1 DEF Given, Handed, Error
    <3>3. Messenger!SignUp(p)
      BY <2>1, <2>2, <2>5, <3>1, <3>2, SignsUp
    <3> QED BY <2>5, <3>3 DEF Seen, Messenger!Next
  <2> QED BY <1>4, <2>3, <2>4, <2>5 DEF Answer, Peer
<1> QED BY <1>3, <1>4 DEF ServeRegister, n, k

\* The message goes from the name of the process to the name typed.
LEMMA MessagePosted ==
    ASSUME Grown, NEW p \in Peer, Asked(p, "SEND_MESSAGE"), UNCHANGED clients,
           NEW i \in RowId, IsNextRowId(messages, i),
           messages' = InsertMessage(messages, i, ToOf(req[p]),
                                     ClientIdOf(req[p]))
    PROVE  Messenger!Post(GoesBy(p), WritesTo(p)) /\ Users' = Users
<1> DEFINE s == req[p]
           to == ToOf(s)
           from == ClientIdOf(s)
           n == call[p].typed
<1>1. /\ pc[p] = "send" /\ resp[p] = Nothing
      /\ me[p] \in Identity /\ from = me[p].id
      /\ to = call[p].to.id
      /\ Known(call[p].to) /\ call[p].to.name = n
  BY DEF Asked, Grown, SessionInv, AskedInv, Belongs, IndInv, ProcessInv,
         MemoryInv, RequestInv, Blocked
<1>2. me[p] # NoOne /\ Known(me[p])
  BY <1>1, NobodyHasNoId DEF Grown, SessionInv, AskedInv
<1>3. NameWithId(to) = n /\ n \in Users
  <2>1. PICK c \in clients : c.id = call[p].to.id /\ c.name = call[p].to.name
    BY <1>1 DEF Known
  <2> QED BY <1>1, <2>1, NameFound DEF Users, Grown, IndInv
<1>4. NameWithId(from) = me[p].name /\ GoesBy(p) = {me[p].name}
  <2>1. PICK c \in clients : c.id = me[p].id /\ c.name = me[p].name
    BY <1>2 DEF Known
  <2> QED BY <1>1, <1>2, <2>1, NameFound DEF GoesBy, Grown, IndInv
<1>5. n \in WritesTo(p)
  BY <1>1 DEF WritesTo
<1>6. \A m \in ByName(messages) : m.id # i
  <2>1. \A m \in messages : m.id \in Nat /\ m.id < i
    BY RowIdAssumption DEF IsNextRowId, Grown, IndInv, TableInv, MessageRow
  <2> QED BY <2>1 DEF ByName
<1>7. ByName(messages)'
        = ByName(messages) \cup {[id |-> i, to |-> n, from |-> me[p].name]}
  <2> DEFINE row == [id |-> i, to |-> to, from |-> from, content |-> "bytes"]
  <2>1. messages' = messages \cup {row}
    BY DEF InsertMessage
  <2>2. ForName(row) = [id |-> i, to |-> n, from |-> me[p].name]
    BY <1>3, <1>4 DEF ForName
  <2> HIDE DEF row
  <2>3. /\ ByName(messages) = {ForName(m) : m \in messages}
        /\ ByName(messages)' = {ForName(m) : m \in messages'}
    BY DEF ByName, ForName, NameWithId
  <2> HIDE DEF ForName
  <2>4. {ForName(m) : m \in messages'}
          = {ForName(m) : m \in messages} \cup {ForName(row)}
    BY <2>1
  <2> QED BY <2>2, <2>3, <2>4
<1> DEFINE name == me[p].name
<1>8. /\ name \in GoesBy(p)
      /\ ByName(messages)'
           = ByName(messages) \cup {[id |-> i, to |-> n, from |-> name]}
  BY <1>4, <1>7
<1> HIDE DEF name, n
<1> QED BY <1>3, <1>5, <1>6, <1>8 DEF Messenger!Post, Users

LEMMA ServeSendSeen ==
    ASSUME Grown, NEW p \in Peer, ServeSend(p)
    PROVE  Seen
<1> DEFINE s == req[p]
           to == ToOf(s)
           from == ClientIdOf(s)
<1>1. /\ Asked(p, "SEND_MESSAGE") /\ UNCHANGED clients
      /\ pc[p] = "send" /\ resp[p] = Nothing
  BY DEF ServeSend, Asked, Grown, SessionInv, AskedInv, Belongs
<1>2. CASE Answer(p, Error) /\ UNCHANGED messages
  BY <1>1, <1>2, PlainAnswerSeen DEF Error, Nothing
<1>3. ASSUME NEW i \in RowId, IsNextRowId(messages, i),
             messages' = InsertMessage(messages, i, to, from),
             NEW r, Answer(p, r),
             r = [code |-> "MESSAGE_SENT_SUCCESS",
                  size |-> ClientIdSize + MessageIdSize]
      PROVE  Seen
  <2>1. Messenger!Post(GoesBy(p), WritesTo(p)) /\ Users' = Users
    BY <1>1, <1>3, MessagePosted
  <2>2. UNCHANGED <<pc, call, req, me>> /\ Counted
    BY <1>3 DEF Answer, local, Counted
  <2>3. CASE p \in Orphan
    BY <1>1, <1>3, <2>1, <2>3, OrphanAnswered DEF Done
  <2>4. CASE p \in Process
    <3>1. PICK e \in {r, Error} : resp' = [resp EXCEPT ![p] = e]
      BY <1>3, <2>4 DEF Answer
    <3>2. /\ e # Nothing /\ e.code # "REGISTER_SUCCESS"
          /\ e.code # "GET_UNREAD_MESSAGES_SUCCESS"
      BY <1>3 DEF Error, Nothing
    <3>3. /\ Alone(p) /\ resp'[p] = e /\ GoesBy(p)' = GoesBy(p)
          /\ Given(p) = {} /\ Handed(p) = {} /\ WritesTo(p)' = {}
      BY <1>1, <2>2, <2>4, <3>1, <3>2, ReplySeen
    <3>4. Given(p)' = {} /\ Handed(p)' = {}
      BY <3>2, <3>3 DEF Given, Handed
    <3>5. Messenger!Send(p)
      BY <2>1, <2>2, <2>4, <3>3, <3>4, Sends
    <3> QED BY <2>4, <3>5 DEF Seen, Messenger!Next
  <2> QED BY <2>3, <2>4 DEF Peer
<1> HIDE DEF s, to, from
<1> QED BY <1>2, <1>3 DEF ServeSend, s, to, from

\* The rows with the id of a process are, by name, the mail for it.
LEMMA RowsForName ==
    ASSUME IndInv, SessionInv, NEW p \in Peer, me[p] \in Identity
    PROVE  ByName(SelectUnread(messages, me[p].id)) = MailFor(p)
<1>1. me[p] # NoOne
  BY NobodyHasNoId
<1>2. PICK c \in clients : c.id = me[p].id /\ c.name = me[p].name
  BY <1>1 DEF SessionInv, AskedInv, Known
<1>3. GoesBy(p) = {c.name}
  BY <1>1, <1>2 DEF GoesBy
<1>4. \A m \in messages : m.to = c.id <=> NameWithId(m.to) = c.name
  <2> SUFFICES ASSUME NEW m \in messages
               PROVE  m.to = c.id <=> NameWithId(m.to) = c.name
    OBVIOUS
  <2>1. PICK d \in clients : d.id = m.to
    BY DEF SessionInv, MailInv, Between
  <2>2. NameWithId(d.id) = d.name
    BY NameFound DEF IndInv
  <2> QED BY <2>1, <2>2 DEF IndInv, TableInv
<1>5. /\ ByName(messages) = {ForName(m) : m \in messages}
      /\ \A rows : ByName(rows) = {ForName(m) : m \in rows}
      /\ \A m \in messages : ForName(m).to = NameWithId(m.to)
  BY DEF ByName, ForName
<1> HIDE DEF ForName
<1>6. MailFor(p) = {ForName(m) : m \in {x \in messages : x.to = c.id}}
  BY <1>3, <1>4, <1>5 DEF MailFor
<1> QED BY <1>2, <1>5, <1>6 DEF SelectUnread

\* Rows that go from the table go from the mail, and no others.
LEMMA RowsGone ==
    ASSUME SessionInv, UNCHANGED clients, NEW gone \in SUBSET messages,
           messages' = messages \ gone
    PROVE  ByName(messages)' = ByName(messages) \ ByName(gone)
<1>1. /\ ByName(messages) = {ForName(m) : m \in messages}
      /\ ByName(gone) = {ForName(m) : m \in gone}
      /\ ByName(messages)' = {ForName(m) : m \in messages'}
  BY DEF ByName, ForName, NameWithId
<1>2. \A m, n \in messages : ForName(m) = ForName(n) => m = n
  BY DEF ForName, SessionInv, MailInv
<1> HIDE DEF ForName
<1> QED BY <1>1, <1>2

\* A process is handed the mail for its name, and what goes of it was for it;
\* a failure may part the two, and so does the end of the process.
LEMMA ServeUnreadSeen ==
    ASSUME Grown, NEW p \in Peer, ServeUnread(p)
    PROVE  Seen
<1> DEFINE rows == SelectUnread(messages, ClientIdOf(req[p]))
           reply(s) == [code |-> "GET_UNREAD_MESSAGES_SUCCESS", rows |-> s]
<1>1. /\ Asked(p, "GET_UNREAD_MESSAGE") /\ WritesTo(p) = {}
      /\ pc[p] = "fetch" /\ resp[p] = Nothing /\ UNCHANGED clients
      /\ me[p] \in Identity /\ ClientIdOf(req[p]) = me[p].id
  BY DEF ServeUnread, Asked, Grown, SessionInv, AskedInv, Belongs, IndInv,
         ProcessInv, MemoryInv, Blocked, WritesTo
<1>2. rows \subseteq messages /\ ByName(rows) = MailFor(p)
  BY <1>1, RowsForName DEF SelectUnread, Grown
<1>3. ASSUME NEW gone \in SUBSET rows, messages' = messages \ gone
      PROVE  /\ ByName(messages)' = ByName(messages) \ ByName(gone)
             /\ ByName(gone) \subseteq MailFor(p)
  <2>1. ByName(gone) \subseteq ByName(rows)
    BY DEF ByName
  <2> QED BY <1>1, <1>2, <1>3, <2>1, RowsGone DEF Grown
<1>4. Users' = Users
  BY <1>1 DEF Users
<1>5. \A s : ByName(s)' = ByName(s)
  BY <1>1 DEF ByName, NameWithId
<1>6. ByName({}) = {}
  BY DEF ByName
<1>7. CASE /\ resp' = [resp EXCEPT ![p] = Silence]
           /\ UNCHANGED <<messages, pc, call, req, local, cache, faults>>
  <2>5. Same
    BY <1>1, <1>7, TablesSame
  <2>1. /\ Silence # Nothing /\ Silence.code # "REGISTER_SUCCESS"
        /\ Silence.code # "GET_UNREAD_MESSAGES_SUCCESS"
    BY DEF Silence, Nothing
  <2>2. UNCHANGED me /\ Counted
    BY <1>7 DEF local, Counted
  <2>3. CASE p \in Process
    BY <1>1, <1>7, <2>1, <2>2, <2>3, PlainSeen
  <2>4. CASE p \in Orphan
    BY <1>1, <1>7, <2>5, <2>1, <2>2, <2>4, OrphanServed DEF Done
  <2> QED BY <2>3, <2>4 DEF Peer
<1>8. ASSUME p \in Process, NEW r, resp' = [resp EXCEPT ![p] = r],
             UNCHANGED <<pc, call, req, me>>
      PROVE  /\ Alone(p) /\ resp'[p] = r /\ GoesBy(p)' = GoesBy(p)
             /\ Given(p) = {} /\ WritesTo(p)' = WritesTo(p)
  BY <1>1, <1>8, ReplySeen
<1>9. ASSUME p \in Process, NEW some, resp' = [resp EXCEPT ![p] = reply(some)],
             UNCHANGED <<pc, call, req, me>>
      PROVE  /\ Alone(p) /\ GoesBy(p)' = GoesBy(p)
             /\ Given(p)' = Given(p) /\ WritesTo(p)' = WritesTo(p)
             /\ Handed(p)' = {ByName(some)}
  <2> DEFINE r == reply(some)
  <2>1. /\ r.code = "GET_UNREAD_MESSAGES_SUCCESS" /\ r.rows = some
        /\ resp' = [resp EXCEPT ![p] = r]
    BY <1>9
  <2> HIDE DEF r
  <2>2. /\ Alone(p) /\ resp'[p] = r /\ GoesBy(p)' = GoesBy(p)
        /\ Given(p) = {} /\ WritesTo(p)' = WritesTo(p)
    BY <1>8, <1>9, <2>1
  <2>3. Given(p)' = {}
    BY <2>1, <2>2 DEF Given
  <2>4. Handed(p)' = {ByName(some)}
    BY <1>5, <2>1, <2>2 DEF Handed
  <2> QED BY <2>2, <2>3, <2>4
<1>10. CASE messages' = messages \ rows /\ Answer(p, reply(rows))
  <2>1. UNCHANGED <<pc, call, req, me>>
    BY <1>10 DEF Answer, local
  <2>2. /\ ByName(messages)' = ByName(messages) \ MailFor(p)
        /\ MailFor(p) \in SUBSET MailFor(p)
    BY <1>2, <1>3, <1>10
  <2>3. CASE /\ p \in Process /\ UNCHANGED faults
             /\ resp' = [resp EXCEPT ![p] = reply(rows)]
    <3>1. /\ Alone(p) /\ GoesBy(p)' = GoesBy(p)
          /\ Given(p)' = Given(p) /\ WritesTo(p)' = WritesTo(p)
          /\ Handed(p)' = {MailFor(p)}
      BY <1>2, <1>9, <2>1, <2>3
    <3>2. Messenger!Collect(p)
      BY <1>4, <2>2, <2>3, <3>1, Collects
    <3> QED BY <2>3, <3>2 DEF Seen, Messenger!Next
  <2>4. CASE /\ p \in Process /\ faults > 0 /\ faults' = faults - 1
             /\ resp' = [resp EXCEPT ![p] = Error]
    <3>1. /\ Alone(p) /\ resp'[p] = Error /\ GoesBy(p)' = GoesBy(p)
          /\ Given(p) = {} /\ WritesTo(p)' = WritesTo(p)
      BY <1>8, <2>1, <2>4
    <3>2. Given(p)' = {} /\ Handed(p)' = {}
      BY <3>1 DEF Given, Handed, Error
    <3>3. Messenger!Collect(p)
      BY <1>4, <2>2, <2>4, <3>1, <3>2, Collects
    <3> QED BY <2>4, <3>3 DEF Seen, Messenger!Next
  <2>5. CASE p \in Orphan
    <3>1. Counted => Messenger!CollectLate(GoesBy(p))
      BY <1>4, <2>2, NamesMail
         DEF Messenger!CollectLate, Messenger!Works, Messenger!Fails, Counted
    <3>2. Counted => Done(GoesBy(p), WritesTo(p))
      BY <1>1, <3>1 DEF Done
    <3> DEFINE r == reply(rows)
    <3>3. Answer(p, r)
      BY <1>10
    <3> HIDE DEF r
    <3> QED BY <1>1, <2>5, <3>2, <3>3, OrphanAnswered
  <2> QED BY <1>10, <2>3, <2>4, <2>5 DEF Answer, Peer
<1>11. ASSUME NEW gone \in SUBSET rows, messages' = messages \ gone,
              NEW some \in {rows, {}}, Unnoticed(p, reply(some))
       PROVE  Seen
  <2>1. /\ UNCHANGED <<pc, call, req, me>>
        /\ p \in Process => resp' = [resp EXCEPT ![p] = reply(some)]
        /\ p \notin Process => resp' = [resp EXCEPT ![p] = Error]
        /\ faults > 0 /\ faults' = faults - 1
    BY <1>11 DEF Unnoticed, local
  <2>2. \E mail \in SUBSET MailFor(p) :
          ByName(messages)' = ByName(messages) \ mail
    BY <1>3, <1>11
  <2>3. CASE p \in Process
    <3>1. /\ Alone(p) /\ GoesBy(p)' = GoesBy(p)
          /\ Given(p)' = Given(p) /\ WritesTo(p)' = WritesTo(p)
          /\ Handed(p)' = {ByName(some)}
      BY <1>9, <2>1, <2>3
    <3>2. ByName(some) \in {MailFor(p), {}}
      BY <1>2, <1>6
    <3>3. Messenger!Collect(p)
      BY <1>4, <2>1, <2>2, <2>3, <3>1, <3>2, Collects
    <3> QED BY <2>3, <3>3 DEF Seen, Messenger!Next
  <2>4. CASE p \in Orphan
    <3>1. Messenger!CollectLate(GoesBy(p))
      BY <1>4, <2>1, <2>2, NamesMail
         DEF Messenger!CollectLate, Messenger!Fails
    <3>2. Done(GoesBy(p), WritesTo(p))
      BY <1>1, <3>1 DEF Done
    <3>3. Error # Nothing /\ p \notin Process
      BY <2>4, OrphanAssumption DEF Error, Nothing
    <3> QED BY <1>1, <2>1, <2>4, <3>2, <3>3, OrphanServed
  <2> QED BY <2>3, <2>4 DEF Peer
<1>12. CASE UNCHANGED messages /\ Unnoticed(p, reply({}))
  <2>1. messages' = messages \ {} /\ {} \in SUBSET rows
    BY <1>12
  <2> QED BY <1>11, <1>12, <2>1
<1> QED BY <1>7, <1>10, <1>11, <1>12 DEF ServeUnread

-----------------------------------------------------------------------------
(* The theorems. *)

LEMMA MessengerInit == Init => Messenger!Init
<1> SUFFICES ASSUME Init PROVE Messenger!Init
  OBVIOUS
<1>1. Users = {r.name : r \in InitClients}
  BY DEF Init, Users
<1>2. ByName(messages)
        = {[id |-> m.id,
            to |-> (CHOOSE r \in InitClients : r.id = m.to).name,
            from |-> (CHOOSE r \in InitClients : r.id = m.from).name] :
             m \in InitMessages}
  BY DEF Init, ByName, NameWithId
<1>3. \A p \in Process :
        /\ p \in Peer
        /\ GoesBy(p) = IF InitMe[p] = NoOne THEN {} ELSE {InitMe[p].name}
        /\ Given(p) = {} /\ WritesTo(p) = {} /\ Handed(p) = {}
  BY DEF Init, GoesBy, Given, WritesTo, Handed, Nothing, Peer
<1>4. \A o \in Orphan : LeftBy(o) = {}
  BY DEF Init, LeftBy, Blocked, Peer
<1> QED BY <1>1, <1>2, <1>3, <1>4 DEF Init, Messenger!Init

LEMMA MessengerStep ==
    IndInv /\ IndInv' /\ SessionInv /\ [Next]_vars
      => [Messenger!Next]_(Messenger!vars)
<1> SUFFICES ASSUME IndInv, IndInv', SessionInv, [Next]_vars
             PROVE  Seen
  BY DEF Seen
<1>1. CASE UNCHANGED vars
  BY <1>1 DEF vars, Seen, Messenger!vars, Users, ByName, NameWithId, GoesBy,
              Given, WritesTo, Handed, LeftBy
<1>2. ASSUME NEW p \in Process,
             \/ Start(p) \/ Stop(p) \/ Choose(p) \/ Resume(p)
             \/ Fail(p) \/ Starve(p)
      PROVE  Seen
  <2>1. CASE Start(p) \/ Stop(p)
    BY <2>1, AloneSeen DEF Seen, Messenger!Next
  <2>2. CASE Choose(p)
    BY <2>2, ChooseSeen
  <2>3. CASE Resume(p)
    BY <2>3, AloneSeen, RegisteredSeen, LookedUpSeen
       DEF Resume, Seen, Messenger!Next
  <2>4. CASE Fail(p) \/ Starve(p)
    <3>1. Grown
      BY <2>4 DEF Grown, IndInv, Fail, Starve, tables
    <3> QED BY <2>4, <3>1, FailSeen
  <2> QED BY <1>2, <2>1, <2>2, <2>3, <2>4
<1>3. ASSUME NEW p \in Process, NEW o \in Orphan, Abandon(p, o) \/ Reset(p, o)
      PROVE  Seen
  BY <1>3, AbandonSeen, ResetSeen DEF Seen, Messenger!Next
<1>4. ASSUME NEW o \in Orphan, Forget(o) PROVE Seen
  BY <1>4, ForgetSeen
<1>5. ASSUME NEW c \in Peer, Serve(c) PROVE Seen
  <2>1. clients \subseteq clients'
    BY <1>5 DEF Serve, ServeRegister, ServeList, ServePublicKey, ServeSend,
                ServeUnread, InsertClient, tables
  <2>2. Grown
    BY <2>1 DEF Grown, IndInv
  <2> QED
    BY <1>5, <2>2, ServeRegisterSeen, ServeReadSeen, ServeSendSeen,
       ServeUnreadSeen
       DEF Serve
<1> QED BY <1>1, <1>2, <1>3, <1>4, <1>5 DEF Next

\* Client and server keep what Messenger promises: names are taken once, mail
\* goes from name to name, and is kept until whoever goes by its name has it.
THEOREM PromiseKept == Spec => MessengerPromise
<1>1. IndInv /\ SessionInv /\ (IndInv /\ SessionInv)' /\ [Next]_vars
        => [Messenger!Next]_(Messenger!vars)
  BY MessengerStep
<1> QED
  BY <1>1, MessengerInit, SessionInvariance, PTL
     DEF Spec, MessengerPromise, Messenger!Spec

\* What Messenger gives, the processes have: two of them are one client only
\* if their me.info files made them so before.
THEOREM NamesApart == Spec => []NamesOwned
<1>1. Messenger!Spec => []Messenger!NamesOwned
  BY Messenger!OwnNames, InitAssumption DEF AsClient
<1> QED BY <1>1, PromiseKept, PTL DEF NamesOwned, MessengerPromise

=============================================================================
