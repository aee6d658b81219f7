------------------------- MODULE RegistrationProofs -------------------------
(***************************************************************************)
(* Proofs about module Registration, for every set of processes and        *)
(* directories, every placing of the ones in the others, and every number  *)
(* of lost writes.                                                         *)
(***************************************************************************)
EXTENDS Registration, SequenceTheorems, TLAPS

-----------------------------------------------------------------------------
(* Rows, lines and files. *)

\* Nobody is not a row, nor an identity.
LEMMA NoOneIsNone == NoOne \notin ClientRow /\ NoOne \notin Identity
<1>1. "id" \notin DOMAIN NoOne
  BY DEF NoOne
<1>2. \A r \in ClientRow \cup Identity : "id" \in DOMAIN r
  BY DEF ClientRow, Identity
<1> QED BY <1>1, <1>2

\* What appending a line does to a file.
LEMMA Appended ==
    ASSUME NEW s \in Seq(Line), NEW l \in Line
    PROVE  /\ Append(s, l) \in Seq(Line)
           /\ Len(Append(s, l)) = Len(s) + 1
           /\ Append(s, l)[Len(s) + 1] = l
           /\ \A j \in 1..Len(s) : Append(s, l)[j] = s[j]
  BY AppendProperties

\* A file that loads gives an identity.
LEMMA LoadedIdentity ==
    ASSUME NEW s \in Seq(Line), Loads(s)
    PROVE  Loaded(s) \in Identity
<1>1. s[1] \in Line /\ s[2] \in Line /\ s[3] \in Line
  BY ElementOfSeq DEF Loads
<1> QED BY <1>1 DEF Line, ClientRow, Loaded, Identity

\* What a write does: it appends the next line of the row that was given, or
\* is lost.
LEMMA WriteCases ==
    ASSUME TypeOK, RowsMade, NEW p \in Proc, WriteLine(p),
           NEW l, l = [kind |-> pc[p], of |-> given[p]]
    PROVE  /\ Home[p] \in Dir
           /\ l \in Line
           /\ given[p] \in clients
           /\ \/ /\ lines' = [lines EXCEPT ![Home[p]] =
                                Append(lines[Home[p]], l)]
                 /\ faults' = faults
              \/ /\ lines' = lines
                 /\ faults' \in 0..MaxFaults
                 /\ faults' # MaxFaults
           /\ \/ pc[p] = "name" /\ pc' = [pc EXCEPT ![p] = "id"] /\ me' = me
              \/ pc[p] = "id" /\ pc' = [pc EXCEPT ![p] = "key"] /\ me' = me
              \/ /\ pc[p] = "key"
                 /\ pc' = [pc EXCEPT ![p] = "menu"]
                 /\ me' = [me EXCEPT ![p] = given[p]]
           /\ UNCHANGED <<clients, inbox, exists, given>>
<1>1. pc[p] \in {"name", "id", "key"}
  <2>1. DOMAIN After = {"name", "id", "key"}
    BY DEF After
  <2> QED BY <2>1 DEF WriteLine
<1>2. given[p] \in clients /\ given[p] \in ClientRow
  BY <1>1 DEF RowsMade, TypeOK
<1>3. l \in Line
  BY <1>1, <1>2 DEF Line
<1>4. \/ /\ lines' = [lines EXCEPT ![Home[p]] = Append(lines[Home[p]], l)]
         /\ faults' = faults
      \/ /\ lines' = lines
         /\ faults' \in 0..MaxFaults
         /\ faults' # MaxFaults
  BY FaultsAssumption DEF WriteLine, TypeOK
<1>5. \/ pc[p] = "name" /\ pc' = [pc EXCEPT ![p] = "id"] /\ me' = me
      \/ pc[p] = "id" /\ pc' = [pc EXCEPT ![p] = "key"] /\ me' = me
      \/ /\ pc[p] = "key"
         /\ pc' = [pc EXCEPT ![p] = "menu"]
         /\ me' = [me EXCEPT ![p] = given[p]]
  <2>1. /\ DOMAIN After = {"name", "id", "key"}
        /\ After["name"] = "id"
        /\ After["id"] = "key"
        /\ After["key"] = "menu"
    BY DEF After
  <2>2. /\ pc' = [pc EXCEPT ![p] = After[pc[p]]]
        /\ me' = IF After[pc[p]] = "menu" THEN [me EXCEPT ![p] = given[p]]
                                          ELSE me
    BY DEF WriteLine
  <2> QED BY <1>1, <2>1, <2>2
<1> QED BY <1>2, <1>3, <1>4, <1>5, HomeAssumption DEF WriteLine

-----------------------------------------------------------------------------
(* Types, the table, and who has which row. *)

MadeInv == TypeOK /\ RowsUnique /\ Asking /\ RowsMade

\* Nothing is made at the start.
LEMMA MadeInit == ASSUME Init PROVE MadeInv
  BY InitClientsAssumption, FaultsAssumption
     DEF Init, MadeInv, TypeOK, RowsUnique, Asking, RowsMade

\* The server makes a row with a new name and a new id, for the process that
\* asked for it.
LEMMA ServerMakes ==
    ASSUME MadeInv, NEW r \in inbox, ServerRegisters(r)
    PROVE  \E row \in ClientRow :
             /\ row \notin clients
             /\ clients' = clients \cup {row}
             /\ \A q \in clients : q.name # row.name /\ q.id # row.id
             /\ \/ UNCHANGED <<pc, given>>
                \/ \E p \in Proc :
                     /\ pc[p] = "asked"
                     /\ r.from = p
                     /\ pc' = [pc EXCEPT ![p] = "answered"]
                     /\ given' = [given EXCEPT ![p] = row]
             /\ inbox' = inbox \ {r}
             /\ UNCHANGED <<exists, lines, me, faults>>
<1> USE DEF MadeInv
<1>1. r \in [from: Proc \cup {Nobody}, name: Name, key: Key]
  BY DEF TypeOK
<1>2. PICK i \in Id :
        /\ ~ClientIdExists(clients, i)
        /\ clients' = InsertClient(clients, i, r.name, r.key)
        /\ IF r.from = Nobody
           THEN UNCHANGED <<pc, given>>
           ELSE /\ pc' = [pc EXCEPT ![r.from] = "answered"]
                /\ given' = [given EXCEPT ![r.from] =
                               [id |-> i, name |-> r.name, key |-> r.key]]
  BY DEF ServerRegisters
<1> DEFINE row == [id |-> i, name |-> r.name, key |-> r.key]
<1>3. row \in ClientRow /\ clients' = clients \cup {row}
  BY <1>1, <1>2 DEF ClientRow, InsertClient
<1>4. \A q \in clients : q.name # row.name /\ q.id # row.id
  BY <1>2 DEF ServerRegisters, ClientIdExists, ClientNameExists
<1>5. row \notin clients
  BY <1>4
<1>6. \/ UNCHANGED <<pc, given>>
      \/ \E p \in Proc : /\ pc[p] = "asked"
                         /\ r.from = p
                         /\ pc' = [pc EXCEPT ![p] = "answered"]
                         /\ given' = [given EXCEPT ![p] = row]
  <2>1. CASE r.from = Nobody
    BY <1>2, <2>1
  <2>2. CASE r.from # Nobody
    <3>1. r.from \in Proc /\ pc[r.from] = "asked"
      BY <1>1, <2>2 DEF Asking
    <3> QED BY <1>2, <2>2, <3>1
  <2> QED BY <2>1, <2>2
<1> QED BY <1>3, <1>4, <1>5, <1>6 DEF ServerRegisters

\* Every step keeps what was made.
LEMMA MadeStep == ASSUME MadeInv, [Next]_vars PROVE MadeInv'
<1> USE DEF MadeInv
<1>1. ASSUME NEW r \in inbox, ServerRegisters(r) PROVE MadeInv'
  <2>1. PICK row \in ClientRow :
          /\ row \notin clients
          /\ clients' = clients \cup {row}
          /\ \A q \in clients : q.name # row.name /\ q.id # row.id
          /\ \/ UNCHANGED <<pc, given>>
             \/ \E p \in Proc :
                  /\ pc[p] = "asked"
                  /\ r.from = p
                  /\ pc' = [pc EXCEPT ![p] = "answered"]
                  /\ given' = [given EXCEPT ![p] = row]
          /\ inbox' = inbox \ {r}
          /\ UNCHANGED <<exists, lines, me, faults>>
    BY <1>1, ServerMakes
  <2>2. TypeOK'
    BY <2>1 DEF TypeOK
  <2>3. RowsUnique'
    BY <2>1 DEF RowsUnique
  <2>4. RowsMade'
    BY <2>1, NoOneIsNone DEF RowsMade, TypeOK
  <2>5. Asking'
    <3> SUFFICES ASSUME NEW s \in inbox', s.from # Nobody
                 PROVE  /\ pc'[s.from] = "asked"
                        /\ \A q \in inbox' : q.from = s.from => q = s
      BY DEF Asking
    <3>1. /\ s \in inbox /\ s # r
          /\ s.from \in Proc
          /\ pc[s.from] = "asked"
          /\ \A q \in inbox : q.from = s.from => q = s
      BY <2>1 DEF Asking, TypeOK
    <3>2. r.from # s.from
      BY <3>1
    <3> QED BY <2>1, <3>1, <3>2 DEF TypeOK
  <2> QED BY <2>2, <2>3, <2>4, <2>5
<1>2. ASSUME NEW r \in inbox, ServerRefuses(r) PROVE MadeInv'
  BY <1>2 DEF ServerRefuses, TypeOK, RowsUnique, Asking, RowsMade
<1>3. ASSUME NEW p \in Proc, Start(p) PROVE MadeInv'
  <2>1. /\ pc' = [pc EXCEPT ![p] = "menu"]
        /\ pc[p] = "off"
        /\ UNCHANGED <<clients, inbox, exists, lines, given, faults>>
    BY <1>3 DEF Start
  <2>2. me' \in [Proc -> Identity \cup {NoOne}]
    <3>1. CASE me' = me
      BY <3>1 DEF TypeOK
    <3>2. CASE /\ Loads(lines[Home[p]])
               /\ me' = [me EXCEPT ![p] = Loaded(lines[Home[p]])]
      <4>1. lines[Home[p]] \in Seq(Line)
        BY HomeAssumption DEF TypeOK
      <4> QED BY <3>2, <4>1, LoadedIdentity DEF TypeOK
    <3> QED BY <1>3, <3>1, <3>2 DEF Start
  <2> QED BY <2>1, <2>2 DEF TypeOK, RowsUnique, Asking, RowsMade
<1>4. ASSUME NEW p \in Proc, Register(p) PROVE MadeInv'
  <2>1. PICK n \in Name, k \in Key :
          inbox' = inbox \cup {[from |-> p, name |-> n, key |-> k]}
    BY <1>4 DEF Register
  <2>2. /\ pc[p] = "menu" /\ pc' = [pc EXCEPT ![p] = "asked"]
        /\ UNCHANGED <<clients, exists, lines, given, me, faults>>
    BY <1>4 DEF Register
  <2>3. \A r \in inbox : r.from # p
    BY <2>2, NobodyAssumption DEF Asking
  <2>4. TypeOK' /\ RowsUnique' /\ RowsMade'
    BY <2>1, <2>2 DEF TypeOK, RowsUnique, RowsMade
  <2>5. Asking'
    <3> SUFFICES ASSUME NEW r \in inbox', r.from # Nobody
                 PROVE  /\ pc'[r.from] = "asked"
                        /\ \A q \in inbox' : q.from = r.from => q = r
      BY DEF Asking
    <3>1. CASE r.from = p
      BY <2>1, <2>2, <2>3, <3>1 DEF TypeOK
    <3>2. CASE r.from # p
      <4>1. r \in inbox /\ r.from \in Proc
        BY <2>1, <3>2 DEF TypeOK
      <4> QED BY <2>1, <2>2, <3>2, <4>1 DEF TypeOK, Asking
    <3> QED BY <3>1, <3>2
  <2> QED BY <2>4, <2>5
<1>5. ASSUME NEW p \in Proc, OpenFile(p) PROVE MadeInv'
  BY <1>5, HomeAssumption
     DEF OpenFile, TypeOK, RowsUnique, Asking, RowsMade
<1>6. ASSUME NEW p \in Proc, WriteLine(p) PROVE MadeInv'
  <2> DEFINE d == Home[p]
             l == [kind |-> pc[p], of |-> given[p]]
  <2>1. /\ d \in Dir /\ l \in Line /\ given[p] \in clients
        /\ \/ /\ lines' = [lines EXCEPT ![d] = Append(lines[d], l)]
              /\ faults' = faults
           \/ /\ lines' = lines
              /\ faults' \in 0..MaxFaults
        /\ \/ /\ pc[p] = "name" /\ pc' = [pc EXCEPT ![p] = "id"]
              /\ me' = me
           \/ /\ pc[p] = "id" /\ pc' = [pc EXCEPT ![p] = "key"]
              /\ me' = me
           \/ /\ pc[p] = "key"
              /\ pc' = [pc EXCEPT ![p] = "menu"]
              /\ me' = [me EXCEPT ![p] = given[p]]
        /\ UNCHANGED <<clients, inbox, exists, given>>
    BY <1>6, WriteCases
  <2>2. lines[d] \in Seq(Line)
    BY <2>1 DEF TypeOK
  <2>3. /\ Append(lines[d], l) \in Seq(Line)
        /\ Len(Append(lines[d], l)) = Len(lines[d]) + 1
        /\ Append(lines[d], l)[Len(lines[d]) + 1] = l
        /\ \A j \in 1..Len(lines[d]) : Append(lines[d], l)[j] = lines[d][j]
    BY <2>1, <2>2, Appended
  <2>4. given[p] \in Identity
    BY <2>1 DEF TypeOK, ClientRow, Identity
  <2>5. TypeOK'
    <3>1. lines' \in [Dir -> Seq(Line)]
      BY <2>1, <2>3 DEF TypeOK
    <3>2. pc' \in [Proc -> {"off", "menu", "asked", "answered",
                            "name", "id", "key"}]
      BY <2>1 DEF TypeOK
    <3>3. me' \in [Proc -> Identity \cup {NoOne}]
      BY <2>1, <2>4 DEF TypeOK
    <3>4. faults' \in 0..MaxFaults
      BY <2>1 DEF TypeOK
    <3> QED BY <2>1, <3>1, <3>2, <3>3, <3>4 DEF TypeOK
  <2>6. RowsUnique' /\ Asking'
    BY <2>1 DEF RowsUnique, Asking, TypeOK
  <2>7. RowsMade'
    <3>1. \A e \in Dir : \A j \in 1..Len(lines'[e]) :
            lines'[e][j].of \in clients
      <4> SUFFICES ASSUME NEW e \in Dir, NEW j \in 1..Len(lines'[e])
                   PROVE  lines'[e][j].of \in clients
        OBVIOUS
      <4>1. CASE lines'[e] = lines[e]
        BY <4>1 DEF RowsMade
      <4>2. CASE e = d /\ lines'[e] = Append(lines[d], l)
        <5>1. Len(lines[d]) \in Nat
          BY <2>2, LenProperties
        <5>2. j \in 1..Len(lines[d]) \/ j = Len(lines[d]) + 1
          BY <2>3, <4>2, <5>1
        <5> QED BY <2>1, <2>3, <4>2, <5>2 DEF RowsMade
      <4> QED BY <2>1, <4>1, <4>2 DEF TypeOK
    <3>2. \A q \in Proc : pc'[q] \in {"answered", "name", "id", "key"} =>
            given[q] # NoOne
      BY <2>1 DEF RowsMade, TypeOK
    <3> QED BY <2>1, <3>1, <3>2 DEF RowsMade
  <2> QED BY <2>5, <2>6, <2>7
<1>7. ASSUME NEW p \in Proc, Stop(p) PROVE MadeInv'
  <2>1. /\ pc' = [pc EXCEPT ![p] = "off"]
        /\ given' = [given EXCEPT ![p] = NoOne]
        /\ me' = [me EXCEPT ![p] = NoOne]
        /\ inbox' = {IF r.from = p THEN [r EXCEPT !.from = Nobody] ELSE r :
                       r \in inbox}
        /\ UNCHANGED <<clients, exists, lines, faults>>
    BY <1>7 DEF Stop
  <2>2. \A r \in inbox : [r EXCEPT !.from = Nobody] \in
                           [from: Proc \cup {Nobody}, name: Name, key: Key]
    BY DEF TypeOK
  <2>3. TypeOK'
    BY <2>1, <2>2 DEF TypeOK
  <2>4. RowsUnique' /\ RowsMade'
    BY <2>1 DEF RowsUnique, RowsMade, TypeOK
  <2>5. Asking'
    <3>1. \A s \in inbox' : s.from # Nobody => s \in inbox /\ s.from # p
      <4> SUFFICES ASSUME NEW r \in inbox, r.from = p
                   PROVE  [r EXCEPT !.from = Nobody].from = Nobody
        BY <2>1
      <4> QED BY DEF TypeOK
    <3> QED BY <2>1, <3>1 DEF Asking, TypeOK
  <2> QED BY <2>3, <2>4, <2>5
<1>8. CASE UNCHANGED vars
  BY <1>8 DEF vars, TypeOK, RowsUnique, Asking, RowsMade
<1> QED
  BY <1>1, <1>2, <1>3, <1>4, <1>5, <1>6, <1>7, <1>8
     DEF Next, ServerStep, ClientStep

-----------------------------------------------------------------------------
(* Files, while no write is lost.                                           *)

\* The budget of lost writes is only spent.
LEMMA FaultsFall ==
    ASSUME TypeOK, [Next]_vars, faults' = MaxFaults
    PROVE  faults = MaxFaults
<1>1. ASSUME NEW p \in Proc, WriteLine(p)
      PROVE  faults' = faults \/ (faults > 0 /\ faults' = faults - 1)
  BY <1>1 DEF WriteLine
<1>2. \/ faults' = faults
      \/ faults > 0 /\ faults' = faults - 1
  BY <1>1 DEF Next, ServerStep, ClientStep, ServerRegisters, ServerRefuses,
              Start, Register, OpenFile, Stop, vars
<1> QED BY <1>2, FaultsAssumption DEF TypeOK

\* A file that loads holds the three lines of one row, in order.
LEMMA LoadedRow ==
    ASSUME TypeOK, RowsMade, LinesFollow, faults = MaxFaults,
           NEW d \in Dir, Loads(lines[d])
    PROVE  Loaded(lines[d]) = lines[d][2].of /\ lines[d][2].of \in clients
<1> DEFINE s == lines[d]
<1>1. /\ s \in Seq(Line)
      /\ Len(s) \in Nat
      /\ 1 \in 1..Len(s) /\ 2 \in 1..Len(s) /\ 3 \in 1..Len(s)
  BY LenProperties DEF TypeOK, Loads
<1>2. s[1] = [kind |-> "name", of |-> s[2].of]
  <2>1. Has(d, 2 - 1, "name", s[2].of)
    BY <1>1 DEF LinesFollow, Loads
  <2> QED BY <2>1 DEF Has
<1>3. s[2] = [kind |-> "id", of |-> s[3].of]
  <2>1. Has(d, 3 - 1, "id", s[3].of)
    BY <1>1 DEF LinesFollow, Loads
  <2>2. PICK i \in 1..2 : s[i] = [kind |-> "id", of |-> s[3].of]
    BY <2>1 DEF Has
  <2>3. i = 2
    <3>1. s[1].kind # "id"
      BY <1>2
    <3>2. s[i].kind = "id"
      BY <2>2
    <3> QED BY <2>2, <3>1, <3>2
  <2> QED BY <2>2, <2>3
<1>4. s[2].of \in clients /\ s[2].of \in ClientRow
  BY <1>1 DEF RowsMade, TypeOK
<1>5. s[1].of = s[2].of /\ s[3].of = s[2].of /\ s[1].kind = "name"
  BY <1>2, <1>3
<1>6. Loaded(s) = [id |-> s[2].of.id, name |-> s[2].of.name,
                   key |-> s[2].of.key]
  BY <1>5 DEF Loaded
<1> QED BY <1>4, <1>6 DEF ClientRow

\* In each file an id follows its name and a key its id.
LEMMA LinesStep ==
    ASSUME MadeInv, LinesFollow, [Next]_vars
    PROVE  LinesFollow'
<1> USE DEF MadeInv
<1> SUFFICES ASSUME faults' = MaxFaults PROVE LinesFollow'
  BY DEF LinesFollow
<1>0. faults = MaxFaults
  BY FaultsFall
<1>1. ASSUME lines' = lines,
             \A q \in Proc : pc'[q] \in {"id", "key"} =>
               pc'[q] = pc[q] /\ given'[q] = given[q]
      PROVE  LinesFollow'
  BY <1>0, <1>1 DEF LinesFollow, Has
<1>2. ASSUME NEW p \in Proc, WriteLine(p) PROVE LinesFollow'
  <2> DEFINE d == Home[p]
             n == Len(lines[d])
             l == [kind |-> pc[p], of |-> given[p]]
  <2>1. /\ d \in Dir /\ l \in Line
        /\ lines' = [lines EXCEPT ![d] = Append(lines[d], l)]
        /\ \/ pc[p] = "name" /\ pc' = [pc EXCEPT ![p] = "id"]
           \/ pc[p] = "id" /\ pc' = [pc EXCEPT ![p] = "key"]
           \/ pc[p] = "key" /\ pc' = [pc EXCEPT ![p] = "menu"]
        /\ given' = given
    BY <1>2, WriteCases
  <2>2. lines[d] \in Seq(Line) /\ n \in Nat
    BY <2>1, LenProperties DEF TypeOK
  <2>3. /\ Len(lines'[d]) = n + 1
        /\ lines'[d][n + 1] = l
        /\ \A j \in 1..n : lines'[d][j] = lines[d][j]
        /\ \A e \in Dir : e # d => lines'[e] = lines[e]
    BY <2>1, <2>2, Appended DEF TypeOK
  <2> DEFINE Had(e, m, k, r) ==
               \E i \in 1..m : lines[e][i] = [kind |-> k, of |-> r]
             Gets(e, m, k, r) ==
               \E i \in 1..m : lines'[e][i] = [kind |-> k, of |-> r]
  \* What a file has, it still has.
  <2>4. ASSUME NEW e \in Dir
        PROVE  /\ lines[e] \in Seq(Line) /\ Len(lines[e]) \in Nat
               /\ Len(lines'[e]) \in Nat /\ Len(lines[e]) <= Len(lines'[e])
               /\ \A i \in 1..Len(lines[e]) : lines'[e][i] = lines[e][i]
    <3>1. lines[e] \in Seq(Line) /\ Len(lines[e]) \in Nat
      BY LenProperties DEF TypeOK
    <3>2. CASE e = d
      BY <2>2, <2>3, <3>1, <3>2
    <3>3. CASE e # d
      BY <2>3, <3>1, <3>3
    <3> QED BY <3>1, <3>2, <3>3
  <2>5. ASSUME NEW e \in Dir, NEW j \in 1..Len(lines'[e])
        PROVE  /\ lines'[e][j].kind = "id" =>
                    Gets(e, j - 1, "name", lines'[e][j].of)
               /\ lines'[e][j].kind = "key" =>
                    Gets(e, j - 1, "id", lines'[e][j].of)
    <3>1. lines[e] \in Seq(Line) /\ Len(lines[e]) \in Nat
      BY <2>4
    <3>2. CASE j \in 1..Len(lines[e])
      <4>1. lines'[e][j] = lines[e][j]
        BY <2>3, <3>2
      <4>2. j - 1 \in 0..Len(lines[e]) /\ j - 1 \in Nat /\ j - 1 <= j - 1
        BY <3>1, <3>2
      <4>3. /\ lines[e][j].kind = "id" =>
                 Had(e, j - 1, "name", lines[e][j].of)
            /\ lines[e][j].kind = "key" =>
                 Had(e, j - 1, "id", lines[e][j].of)
        BY <1>0, <3>2 DEF LinesFollow, Has
      <4>4. \A i \in 1..(j - 1) : lines'[e][i] = lines[e][i]
        BY <2>4, <3>1, <3>2
      <4> HIDE DEF d, n, l
      <4> QED BY <4>1, <4>3, <4>4
    <3>3. CASE e = d /\ j = n + 1
      <4>1. lines'[e][j] = l /\ l.kind = pc[p] /\ l.of = given[p]
        BY <2>3, <3>3
      <4>2. /\ pc[p] = "id" => Had(d, n, "name", given[p])
            /\ pc[p] = "key" => Had(d, n, "id", given[p])
        BY <1>0, <2>1 DEF LinesFollow, Has
      <4>3. j - 1 = n /\ \A i \in 1..n : lines'[d][i] = lines[d][i]
        BY <2>2, <2>3, <3>3
      <4> HIDE DEF d, n, l
      <4> QED BY <3>3, <4>1, <4>2, <4>3
    <3> QED BY <2>2, <2>3, <3>1, <3>2, <3>3
  <2>6. ASSUME NEW q \in Proc
        PROVE  /\ pc'[q] = "id" =>
                    Gets(Home[q], Len(lines'[Home[q]]), "name", given'[q])
               /\ pc'[q] = "key" =>
                    Gets(Home[q], Len(lines'[Home[q]]), "id", given'[q])
    <3> DEFINE e == Home[q]
    <3>1. /\ e \in Dir /\ lines[e] \in Seq(Line) /\ Len(lines[e]) \in Nat
          /\ Len(lines'[e]) \in Nat /\ Len(lines[e]) <= Len(lines'[e])
      BY <2>4, HomeAssumption
    <3>2. CASE q # p
      <4>1. pc'[q] = pc[q] /\ given'[q] = given[q]
        BY <2>1, <3>2 DEF TypeOK
      <4>2. /\ pc[q] = "id" => Had(e, Len(lines[e]), "name", given[q])
            /\ pc[q] = "key" => Had(e, Len(lines[e]), "id", given[q])
        BY <1>0 DEF LinesFollow, Has
      <4>3. \A i \in 1..Len(lines[e]) :
              i \in 1..Len(lines'[e]) /\ lines'[e][i] = lines[e][i]
        BY <2>4, <3>1
      <4> HIDE DEF d, n, l, e
      <4>4. pc'[q] = "id" => Gets(e, Len(lines'[e]), "name", given'[q])
        BY <4>1, <4>2, <4>3
      <4>5. pc'[q] = "key" => Gets(e, Len(lines'[e]), "id", given'[q])
        BY <4>1, <4>2, <4>3
      <4> QED BY <4>4, <4>5 DEF e
    <3>3. CASE q = p
      <4>1. n + 1 \in 1..Len(lines'[d]) /\ lines'[d][n + 1] = l
        BY <2>2, <2>3
      <4>2. pc'[p] = "id" => pc[p] = "name"
        BY <2>1 DEF TypeOK
      <4>3. pc'[p] = "key" => pc[p] = "id"
        BY <2>1 DEF TypeOK
      <4>4. l = [kind |-> pc[p], of |-> given'[p]] /\ e = d
        BY <2>1, <3>3
      <4> HIDE DEF d, n, l, e
      <4>5. pc'[p] = "id" => Gets(e, Len(lines'[e]), "name", given'[p])
        BY <4>1, <4>2, <4>4
      <4>6. pc'[p] = "key" => Gets(e, Len(lines'[e]), "id", given'[p])
        BY <4>1, <4>3, <4>4
      <4> QED BY <3>3, <4>5, <4>6 DEF e
    <3> QED BY <3>2, <3>3
  <2> QED BY <2>5, <2>6 DEF LinesFollow, Has
<1>3. ASSUME NEW r \in inbox, ServerRegisters(r) PROVE LinesFollow'
  <2>1. /\ lines' = lines
        /\ \/ UNCHANGED <<pc, given>>
           \/ \E p \in Proc, row \in ClientRow :
                /\ pc' = [pc EXCEPT ![p] = "answered"]
                /\ given' = [given EXCEPT ![p] = row]
    BY <1>3, ServerMakes
  <2> QED BY <1>1, <2>1 DEF TypeOK
<1>4. ASSUME NEW p \in Proc,
             Start(p) \/ Register(p) \/ OpenFile(p) \/ Stop(p)
      PROVE  LinesFollow'
  <2>1. /\ lines' = lines
        /\ \E w \in {"menu", "asked", "name", "off"} :
             pc' = [pc EXCEPT ![p] = w]
        /\ given' = given \/ given' = [given EXCEPT ![p] = NoOne]
    BY <1>4 DEF Start, Register, OpenFile, Stop
  <2> QED BY <1>1, <2>1 DEF TypeOK
<1>5. ASSUME UNCHANGED <<lines, pc, given>> PROVE LinesFollow'
  BY <1>1, <1>5
<1> QED
  BY <1>2, <1>3, <1>4, <1>5
     DEF Next, ServerStep, ClientStep, ServerRefuses, vars

-----------------------------------------------------------------------------
(* Identities. *)

\* A process acts under an identity it loaded or was given.
LEMMA IdentityKnownStep ==
    ASSUME MadeInv, LinesFollow, RunningIdentityKnown, [Next]_vars
    PROVE  RunningIdentityKnown'
<1> USE DEF MadeInv
<1> SUFFICES ASSUME faults' = MaxFaults, NEW q \in Proc, me'[q] # NoOne
             PROVE  me'[q] \in clients'
  BY DEF RunningIdentityKnown
<1>1. faults = MaxFaults /\ (me[q] # NoOne => me[q] \in clients)
  BY FaultsFall DEF RunningIdentityKnown
<1>2. ASSUME NEW r \in inbox, ServerRegisters(r)
      PROVE  clients \subseteq clients' /\ me' = me
  BY <1>2, ServerMakes
<1>3. ASSUME NEW p \in Proc, Start(p) PROVE me'[q] \in clients'
  <2>1. CASE me' = me
    BY <1>1, <1>3, <2>1 DEF Start
  <2>2. CASE /\ Loads(lines[Home[p]])
             /\ me' = [me EXCEPT ![p] = Loaded(lines[Home[p]])]
    <3>1. Loaded(lines[Home[p]]) \in clients
      BY <1>1, <2>2, LoadedRow, HomeAssumption
    <3> QED BY <1>1, <1>3, <2>2, <3>1 DEF Start, TypeOK
  <2> QED BY <1>3, <2>1, <2>2 DEF Start
<1>4. ASSUME NEW p \in Proc, WriteLine(p) PROVE me'[q] \in clients'
  <2>1. /\ me' = me \/ me' = [me EXCEPT ![p] = given[p]]
        /\ given[p] \in clients
        /\ clients' = clients
    BY <1>4, WriteCases
  <2> QED BY <1>1, <2>1 DEF TypeOK
<1>5. ASSUME NEW p \in Proc, Stop(p) PROVE me'[q] \in clients'
  BY <1>1, <1>5 DEF Stop, TypeOK
<1> QED
  BY <1>1, <1>2, <1>3, <1>4, <1>5
     DEF Next, ServerStep, ClientStep, ServerRefuses, Register, OpenFile, vars

\* A row comes to a directory only from the server, for a process there; from
\* then on it moves between a process and the file of one directory.
LEMMA OneHomeStep ==
    ASSUME MadeInv, LinesFollow, RunningIdentityKnown, OneHome, [Next]_vars
    PROVE  OneHome'
<1> USE DEF MadeInv
<1> SUFFICES ASSUME faults' = MaxFaults PROVE OneHome'
  BY DEF OneHome
<1>0. faults = MaxFaults
  BY FaultsFall
<1>1. ASSUME clients' = clients,
             \A r \in clients : \A d \in Dir :
               Belongs(r, d)' => Belongs(r, d)
      PROVE  OneHome'
  BY <1>0, <1>1 DEF OneHome
<1>2. ASSUME UNCHANGED <<clients, lines, given, me>> PROVE OneHome'
  BY <1>0, <1>2 DEF OneHome, Belongs
<1>3. ASSUME NEW r \in inbox, ServerRegisters(r) PROVE OneHome'
  <2>1. PICK row \in ClientRow :
          /\ row \notin clients
          /\ clients' = clients \cup {row}
          /\ \/ UNCHANGED <<pc, given>>
             \/ \E p \in Proc : given' = [given EXCEPT ![p] = row]
          /\ UNCHANGED <<lines, me>>
    BY <1>3, ServerMakes
  <2>2. row # NoOne
    BY NoOneIsNone
  <2>3. PICK home \in Dir \cup {NoOne} :
          \A p \in Proc : given'[p] = row => Home[p] = home
    <3>1. \A p \in Proc : given[p] # row
      BY <2>1, <2>2 DEF RowsMade
    <3>2. CASE given' = given
      BY <3>1, <3>2
    <3>3. ASSUME NEW p \in Proc, given' = [given EXCEPT ![p] = row]
          PROVE  \A q \in Proc : given'[q] = row => Home[q] = Home[p]
      BY <3>1, <3>3 DEF TypeOK
    <3> QED BY <2>1, <3>2, <3>3, HomeAssumption
  <2>4. \A d \in Dir : Belongs(row, d)' => d = home
    <3>1. \A p \in Proc : me[p] # row
      BY <1>0, <2>1, <2>2 DEF RunningIdentityKnown
    <3>2. \A d \in Dir : \A j \in 1..Len(lines[d]) : lines[d][j].of # row
      BY <2>1 DEF RowsMade
    <3> QED BY <2>1, <2>3, <3>1, <3>2 DEF Belongs
  <2>5. \A q \in clients : \A d \in Dir : Belongs(q, d)' => Belongs(q, d)
    <3>1. \A q \in clients : \A p \in Proc : given'[p] = q => given[p] = q
      BY <2>1 DEF TypeOK
    <3> QED BY <2>1, <3>1 DEF Belongs
  <2> QED BY <1>0, <2>1, <2>4, <2>5 DEF OneHome
<1>4. ASSUME NEW p \in Proc, Start(p) PROVE OneHome'
  <2>1. CASE me' = me
    BY <1>2, <1>4, <2>1 DEF Start
  <2>2. CASE /\ Loads(lines[Home[p]])
             /\ me' = [me EXCEPT ![p] = Loaded(lines[Home[p]])]
    <3>1. /\ Home[p] \in Dir
          /\ Loaded(lines[Home[p]]) = lines[Home[p]][2].of
          /\ 2 \in 1..Len(lines[Home[p]])
      <4>1. Home[p] \in Dir
        BY HomeAssumption
      <4>2. Len(lines[Home[p]]) \in Nat
        BY <4>1, LenProperties DEF TypeOK
      <4>3. Loaded(lines[Home[p]]) = lines[Home[p]][2].of
        BY <1>0, <2>2, <4>1, LoadedRow
      <4> QED BY <2>2, <4>1, <4>2, <4>3 DEF Loads
    <3>2. /\ me'[p] = lines[Home[p]][2].of
          /\ \A q \in Proc : q # p => me'[q] = me[q]
          /\ UNCHANGED <<clients, lines, given>>
      BY <1>4, <2>2, <3>1 DEF Start, TypeOK
    <3>3. ASSUME NEW r \in clients, NEW d \in Dir, Belongs(r, d)'
          PROVE  Belongs(r, d)
      <4>1. CASE \E q \in Proc : Home[q] = d /\ me'[q] = r
        BY <3>1, <3>2, <4>1 DEF Belongs
      <4>2. CASE \/ \E j \in 1..Len(lines[d]) : lines[d][j].of = r
                 \/ \E q \in Proc : Home[q] = d /\ given[q] = r
        BY <4>2 DEF Belongs
      <4> QED BY <3>2, <3>3, <4>1, <4>2 DEF Belongs
    <3> QED BY <1>1, <3>2, <3>3
  <2> QED BY <1>4, <2>1, <2>2 DEF Start
<1>5. ASSUME NEW p \in Proc, WriteLine(p) PROVE OneHome'
  <2> DEFINE d == Home[p]
             l == [kind |-> pc[p], of |-> given[p]]
  <2>1. /\ d \in Dir /\ l \in Line
        /\ lines' = [lines EXCEPT ![d] = Append(lines[d], l)]
        /\ me' = me \/ me' = [me EXCEPT ![p] = given[p]]
        /\ UNCHANGED <<clients, given>>
    BY <1>5, WriteCases
  <2>2. /\ Len(lines[d]) \in Nat
        /\ Len(lines'[d]) = Len(lines[d]) + 1
        /\ lines'[d][Len(lines[d]) + 1] = l
        /\ \A j \in 1..Len(lines[d]) : lines'[d][j] = lines[d][j]
        /\ \A e \in Dir : e # d => lines'[e] = lines[e]
    <3>1. lines[d] \in Seq(Line)
      BY <2>1 DEF TypeOK
    <3> QED BY <2>1, <3>1, Appended, LenProperties DEF TypeOK
  <2>3. \A e \in Dir : \A j \in 1..Len(lines'[e]) :
          \/ j \in 1..Len(lines[e]) /\ lines'[e][j] = lines[e][j]
          \/ e = d /\ lines'[e][j].of = given[p]
    <3>1. ASSUME NEW j \in 1..Len(lines'[d])
          PROVE  \/ j \in 1..Len(lines[d]) /\ lines'[d][j] = lines[d][j]
                 \/ lines'[d][j].of = given[p]
      <4>1. CASE j = Len(lines[d]) + 1
        BY <2>2, <4>1
      <4>2. CASE j # Len(lines[d]) + 1
        <5> HIDE DEF d, l
        <5>1. j \in 1..Len(lines[d])
          BY <2>2, <4>2
        <5> QED BY <2>2, <5>1
      <4> QED BY <4>1, <4>2
    <3>2. \A e \in Dir : e # d => lines'[e] = lines[e]
      BY <2>2
    <3> HIDE DEF d, l
    <3> QED BY <3>1, <3>2
  <2>4. \A q \in Proc : me'[q] = me[q] \/ (q = p /\ me'[q] = given[p])
    <3>1. me' = me \/ me' = [me EXCEPT ![p] = given[p]]
      BY <2>1
    <3>2. me \in [Proc -> Identity \cup {NoOne}]
      BY DEF TypeOK
    <3> QED BY <3>1, <3>2
  <2>5. ASSUME NEW r \in clients, NEW e \in Dir, Belongs(r, e)'
        PROVE  Belongs(r, e)
    <3>1. CASE \E j \in 1..Len(lines'[e]) : lines'[e][j].of = r
      BY <2>3, <3>1 DEF Belongs
    <3>2. CASE \E q \in Proc : Home[q] = e /\ (given[q] = r \/ me'[q] = r)
      BY <2>4, <3>2 DEF Belongs
    <3>3. given' = given
      BY <2>1
    <3> QED BY <2>5, <3>1, <3>2, <3>3 DEF Belongs
  <2> QED BY <1>1, <2>1, <2>5
<1>6. ASSUME NEW p \in Proc, Stop(p) PROVE OneHome'
  <2>1. /\ given' = [given EXCEPT ![p] = NoOne]
        /\ me' = [me EXCEPT ![p] = NoOne]
        /\ UNCHANGED <<clients, lines>>
    BY <1>6 DEF Stop
  <2>2. NoOne \notin clients
    BY NoOneIsNone DEF TypeOK
  <2>3. \A r \in clients : \A q \in Proc :
          (given'[q] = r => given[q] = r) /\ (me'[q] = r => me[q] = r)
    BY <2>1, <2>2 DEF TypeOK
  <2>4. ASSUME NEW r \in clients, NEW e \in Dir, Belongs(r, e)'
        PROVE  Belongs(r, e)
    BY <2>1, <2>3, <2>4 DEF Belongs
  <2> QED BY <1>1, <2>1, <2>4
<1> QED
  BY <1>2, <1>3, <1>4, <1>5, <1>6
     DEF Next, ServerStep, ClientStep, ServerRefuses, Register, OpenFile, vars

-----------------------------------------------------------------------------
(* A process that is alone in its directory. *)

\* No other process touches it or its file.
LEMMA OthersLeave ==
    ASSUME MadeInv, NEW p \in Proc, Alone(p),
           NEW q \in Proc, q # p, ClientStep(q)
    PROVE  /\ lines'[Home[p]] = lines[Home[p]]
           /\ exists'[Home[p]] = exists[Home[p]]
           /\ pc'[p] = pc[p]
           /\ given'[p] = given[p]
           /\ me'[p] = me[p]
<1> USE DEF MadeInv
<1>1. Home[p] \in Dir /\ Home[q] # Home[p]
  BY HomeAssumption DEF Alone
<1>2. CASE Start(q)
  BY <1>1, <1>2 DEF Start, TypeOK
<1>3. CASE Register(q)
  BY <1>1, <1>3 DEF Register, TypeOK
<1>4. CASE OpenFile(q)
  BY <1>1, <1>4 DEF OpenFile, TypeOK
<1>5. CASE WriteLine(q)
  <2>1. /\ lines' = lines \/ \E s : lines' = [lines EXCEPT ![Home[q]] = s]
        /\ \E w : pc' = [pc EXCEPT ![q] = w]
        /\ me' = me \/ me' = [me EXCEPT ![q] = given[q]]
        /\ UNCHANGED <<exists, given>>
    BY <1>5, WriteCases
  <2> QED BY <1>1, <2>1 DEF TypeOK
<1>6. CASE Stop(q)
  BY <1>1, <1>6 DEF Stop, TypeOK
<1> QED BY <1>2, <1>3, <1>4, <1>5, <1>6 DEF ClientStep

\* The server gives a row only to a process that asked for one.
LEMMA ServerAnswers ==
    ASSUME MadeInv, NEW p \in Proc, NEW r \in inbox,
           ServerRegisters(r) \/ ServerRefuses(r)
    PROVE  /\ UNCHANGED <<lines, exists, me, faults>>
           /\ \/ pc'[p] = pc[p] /\ given'[p] = given[p]
              \/ pc[p] = "asked" /\ pc'[p] = "answered"
<1>1. CASE ServerRegisters(r)
  <2>1. /\ \/ UNCHANGED <<pc, given>>
           \/ \E q \in Proc, row \in ClientRow :
                /\ pc[q] = "asked"
                /\ pc' = [pc EXCEPT ![q] = "answered"]
                /\ given' = [given EXCEPT ![q] = row]
        /\ UNCHANGED <<exists, lines, me, faults>>
    BY <1>1, ServerMakes
  <2>2. pc \in [Proc -> {"off", "menu", "asked", "answered",
                         "name", "id", "key"}]
        /\ given \in [Proc -> ClientRow \cup {NoOne}]
    BY DEF MadeInv, TypeOK
  <2> QED BY <2>1, <2>2
<1>2. CASE ServerRefuses(r)
  BY <1>2 DEF ServerRefuses
<1> QED BY <1>1, <1>2

\* The conjuncts of AloneFile, AloneLines and RegistrationSaved for one
\* process.
FileBy(p) ==
    LET s == lines[Home[p]] IN
    /\ ~exists[Home[p]] \/ pc[p] = "name" => s = << >>
    /\ pc[p] \in {"asked", "answered"} => ~exists[Home[p]]
    /\ pc[p] \in {"name", "id", "key"} => exists[Home[p]]
    /\ pc[p] = "menu" /\ me[p] = NoOne => ~exists[Home[p]]
    /\ me[p] # NoOne => pc[p] = "menu"
    /\ pc[p] = "id" => Len(s) <= 1
    /\ pc[p] = "key" => Len(s) <= 2
    /\ Len(s) <= 3

SavedBy(p) ==
    LET s == lines[Home[p]] IN
    /\ pc[p] = "id" => s = << [kind |-> "name", of |-> given[p]] >>
    /\ pc[p] = "key" => s = << [kind |-> "name", of |-> given[p]],
                               [kind |-> "id", of |-> given[p]] >>
    /\ me[p] # NoOne => Loads(s) /\ Loaded(s) = me[p]

\* Registration starts with no file, writes three lines and ends, whatever
\* is lost.
LEMMA AloneFileStep ==
    ASSUME MadeInv, AloneFile, [Next]_vars
    PROVE  AloneFile'
<1> USE DEF MadeInv
<1> SUFFICES ASSUME NEW p \in Proc, Alone(p) PROVE FileBy(p)'
  BY DEF AloneFile, FileBy, Alone
<1>0. /\ FileBy(p)
      /\ Home[p] \in Dir
      /\ lines[Home[p]] \in Seq(Line)
      /\ Len(lines[Home[p]]) \in Nat
  BY HomeAssumption, LenProperties DEF AloneFile, FileBy, TypeOK
<1>1. ASSUME /\ lines'[Home[p]] = lines[Home[p]]
             /\ exists'[Home[p]] = exists[Home[p]]
             /\ me'[p] = me[p]
             /\ \/ pc'[p] = pc[p]
                \/ pc[p] = "asked" /\ pc'[p] = "answered"
      PROVE  FileBy(p)'
  BY <1>0, <1>1 DEF FileBy
<1>2. ASSUME NEW r \in inbox, ServerRegisters(r) \/ ServerRefuses(r)
      PROVE  FileBy(p)'
  BY <1>1, <1>2, ServerAnswers
<1>3. ASSUME NEW q \in Proc, q # p, ClientStep(q) PROVE FileBy(p)'
  BY <1>1, <1>3, OthersLeave
<1>4. CASE Start(p)
  <2>1. /\ pc[p] = "off" /\ pc' = [pc EXCEPT ![p] = "menu"]
        /\ UNCHANGED <<exists, lines>>
    BY <1>4 DEF Start
  <2>2. me'[p] = NoOne => ~exists[Home[p]]
    <3>1. CASE Loads(lines[Home[p]])
               /\ me' = [me EXCEPT ![p] = Loaded(lines[Home[p]])]
      <4>1. me'[p] \in Identity
        BY <1>0, <3>1, LoadedIdentity DEF TypeOK
      <4> QED BY <4>1, NoOneIsNone
    <3> QED BY <1>4, <3>1 DEF Start
  <2> QED BY <1>0, <2>1, <2>2 DEF FileBy, TypeOK
<1>5. CASE Register(p)
  <2>1. /\ pc[p] = "menu" /\ me[p] = NoOne
        /\ pc' = [pc EXCEPT ![p] = "asked"]
        /\ UNCHANGED <<exists, lines, me>>
    BY <1>5 DEF Register
  <2> QED BY <1>0, <2>1 DEF FileBy, TypeOK
<1>6. CASE OpenFile(p)
  BY <1>0, <1>6 DEF OpenFile, FileBy, TypeOK
<1>7. CASE WriteLine(p)
  <2> DEFINE s == lines[Home[p]]
  <2>1. /\ \/ lines' = lines
           \/ \E l \in Line : lines' = [lines EXCEPT ![Home[p]] = Append(s, l)]
        /\ \/ pc[p] = "name" /\ pc'[p] = "id" /\ me'[p] = me[p]
           \/ pc[p] = "id" /\ pc'[p] = "key" /\ me'[p] = me[p]
           \/ pc[p] = "key" /\ pc'[p] = "menu" /\ me'[p] # NoOne
        /\ exists' = exists
    BY <1>7, WriteCases, NoOneIsNone DEF TypeOK
  <2>2. Len(lines'[Home[p]]) \in {Len(s), Len(s) + 1}
    BY <1>0, <2>1, Appended DEF TypeOK
  <2>3. Len(s) = 0 \/ pc[p] # "name"
    BY <1>0 DEF FileBy
  <2>4. exists[Home[p]]
    BY <1>0, <2>1 DEF FileBy
  <2> HIDE DEF s
  <2> QED BY <1>0, <2>1, <2>2, <2>3, <2>4 DEF FileBy, s
<1>8. CASE Stop(p)
  BY <1>0, <1>8 DEF Stop, FileBy, TypeOK
<1>9. CASE UNCHANGED vars
  BY <1>1, <1>9 DEF vars
<1> QED
  BY <1>2, <1>3, <1>4, <1>5, <1>6, <1>7, <1>8, <1>9
     DEF Next, ServerStep, ClientStep

\* Three lines, one after the other.
LEMMA ThreeLines ==
    ASSUME NEW a \in Line, NEW b \in Line, NEW c \in Line
    PROVE  /\ Append(<< a >>, b) = << a, b >>
           /\ Append(<< a, b >>, c) = << a, b, c >>
<1> DEFINE s == Append(<< a >>, b)
           t == Append(<< a, b >>, c)
<1>1. s = << a, b >>
  <2>1. << a >> \in Seq(Line) /\ << a, b >> \in Seq(Line)
    OBVIOUS
  <2>2. s \in Seq(Line) /\ Len(s) = 2 /\ s[1] = a /\ s[2] = b
    BY <2>1, Appended
  <2> HIDE DEF s
  <2>3. \A i \in 1..Len(s) : s[i] = << a, b >>[i]
    BY <2>2
  <2> QED BY <2>1, <2>2, <2>3, SeqEqual
<1>2. t = << a, b, c >>
  <2>1. << a, b >> \in Seq(Line) /\ << a, b, c >> \in Seq(Line)
    OBVIOUS
  <2>2. t \in Seq(Line) /\ Len(t) = 3 /\ t[1] = a /\ t[2] = b /\ t[3] = c
    BY <2>1, Appended
  <2> HIDE DEF t
  <2>3. \A i \in 1..Len(t) : t[i] = << a, b, c >>[i]
    BY <2>2
  <2> QED BY <2>1, <2>2, <2>3, SeqEqual
<1> QED BY <1>1, <1>2

\* While no write is lost, the three lines are those of the row it was given.
LEMMA AloneSavedStep ==
    ASSUME MadeInv, AloneFile, AloneLines, RegistrationSaved, [Next]_vars
    PROVE  AloneLines' /\ RegistrationSaved'
<1> USE DEF MadeInv
<1> SUFFICES ASSUME faults' = MaxFaults, NEW p \in Proc, Alone(p)
             PROVE  SavedBy(p)'
  BY DEF AloneLines, RegistrationSaved, SavedBy, Alone
<1>0. /\ faults = MaxFaults
      /\ FileBy(p) /\ SavedBy(p)
      /\ Home[p] \in Dir
      /\ lines[Home[p]] \in Seq(Line)
  BY FaultsFall, HomeAssumption
     DEF AloneFile, AloneLines, RegistrationSaved, FileBy, SavedBy, TypeOK
<1>1. ASSUME /\ lines'[Home[p]] = lines[Home[p]]
             /\ me'[p] = me[p] \/ me'[p] = NoOne
             /\ \/ pc'[p] = pc[p] /\ given'[p] = given[p]
                \/ pc'[p] \in {"off", "menu", "asked", "answered", "name"}
      PROVE  SavedBy(p)'
  BY <1>0, <1>1 DEF SavedBy
<1>2. ASSUME NEW r \in inbox, ServerRegisters(r) \/ ServerRefuses(r)
      PROVE  SavedBy(p)'
  BY <1>1, <1>2, ServerAnswers
<1>3. ASSUME NEW q \in Proc, q # p, ClientStep(q) PROVE SavedBy(p)'
  BY <1>1, <1>3, OthersLeave
<1>4. CASE Start(p)
  <2>1. /\ pc' = [pc EXCEPT ![p] = "menu"]
        /\ lines' = lines
        /\ \/ me' = me
           \/ /\ Loads(lines[Home[p]])
              /\ me' = [me EXCEPT ![p] = Loaded(lines[Home[p]])]
    BY <1>4 DEF Start
  <2> QED BY <1>0, <2>1 DEF SavedBy, TypeOK
<1>5. CASE Register(p) \/ OpenFile(p)
  BY <1>1, <1>5 DEF Register, OpenFile, TypeOK
<1>6. CASE WriteLine(p)
  <2> DEFINE s == lines[Home[p]]
             l(k) == [kind |-> k, of |-> given[p]]
  <2>1. /\ lines'[Home[p]] = Append(s, l(pc[p]))
        /\ \/ pc[p] = "name" /\ pc'[p] = "id" /\ me'[p] = me[p]
           \/ pc[p] = "id" /\ pc'[p] = "key" /\ me'[p] = me[p]
           \/ pc[p] = "key" /\ pc'[p] = "menu" /\ me'[p] = given[p]
        /\ given' = given
        /\ given[p] \in ClientRow
    BY <1>0, <1>6, WriteCases DEF TypeOK
  <2>2. CASE pc[p] = "name"
    <3>1. s = << >> /\ me[p] = NoOne
      BY <1>0, <2>2 DEF FileBy
    <3>2. lines'[Home[p]] = << l("name") >>
      BY <2>1, <2>2, <3>1
    <3> QED BY <2>1, <2>2, <3>1, <3>2 DEF SavedBy
  <2>3. CASE pc[p] = "id"
    <3>1. s = << l("name") >> /\ me[p] = NoOne
      BY <1>0, <2>3 DEF SavedBy, FileBy
    <3>2. lines'[Home[p]] = << l("name"), l("id") >>
      <4>1. lines'[Home[p]] = Append(s, l("id")) /\ s = << l("name") >>
        BY <2>1, <2>3, <3>1
      <4>2. l("name") \in Line /\ l("id") \in Line /\ l("key") \in Line
        BY <2>1 DEF Line
      <4> HIDE DEF l, s
      <4> QED BY <4>1, <4>2, ThreeLines
    <3> QED BY <2>1, <2>3, <3>1, <3>2 DEF SavedBy
  <2>4. CASE pc[p] = "key"
    <3>1. s = << l("name"), l("id") >>
      BY <1>0, <2>4 DEF SavedBy
    <3>2. lines'[Home[p]] = << l("name"), l("id"), l("key") >>
      <4>1. lines'[Home[p]] = Append(s, l("key")) /\ s = << l("name"), l("id") >>
        BY <2>1, <2>4, <3>1
      <4>2. l("name") \in Line /\ l("id") \in Line /\ l("key") \in Line
        BY <2>1 DEF Line
      <4> HIDE DEF l, s
      <4> QED BY <4>1, <4>2, ThreeLines
    <3> DEFINE t == << l("name"), l("id"), l("key") >>
    <3>3. Loads(t)
      BY DEF Loads
    <3>4. Loaded(t) = [id |-> given[p].id, name |-> given[p].name,
                       key |-> given[p].key]
      BY DEF Loaded
    <3>5. Loaded(t) = given[p]
      BY <2>1, <3>4 DEF ClientRow
    <3> HIDE DEF t
    <3>6. lines'[Home[p]] = t
      BY <3>2 DEF t
    <3> QED BY <2>1, <2>4, <3>3, <3>5, <3>6 DEF SavedBy
  <2> QED BY <2>1, <2>2, <2>3, <2>4
<1>7. CASE Stop(p)
  BY <1>1, <1>7 DEF Stop, TypeOK
<1>8. CASE UNCHANGED vars
  BY <1>1, <1>8 DEF vars
<1> QED
  BY <1>2, <1>3, <1>4, <1>5, <1>6, <1>7, <1>8
     DEF Next, ServerStep, ClientStep

-----------------------------------------------------------------------------
(* The theorems. *)

\* The invariant holds at the start,
LEMMA InitInd == Init => IndInv
<1> SUFFICES ASSUME Init PROVE IndInv
  OBVIOUS
<1>1. MadeInv
  BY MadeInit
<1>2. /\ \A d \in Dir : lines[d] = << >> /\ ~exists[d]
      /\ \A p \in Proc : /\ pc[p] = "off" /\ Home[p] \in Dir
                         /\ given[p] = NoOne /\ me[p] = NoOne
  BY HomeAssumption DEF Init
<1>3. LinesFollow /\ RunningIdentityKnown
  BY <1>2 DEF LinesFollow, RunningIdentityKnown
<1>4. OneHome
  <2>1. \A r \in clients : r # NoOne
    BY <1>1, NoOneIsNone DEF MadeInv, TypeOK
  <2>2. \A r \in clients : \A d \in Dir : ~Belongs(r, d)
    BY <1>2, <2>1 DEF Belongs
  <2> QED BY <2>2 DEF OneHome
<1>5. AloneFile /\ AloneLines /\ RegistrationSaved
  BY <1>2 DEF AloneFile, AloneLines, RegistrationSaved
<1> QED BY <1>1, <1>3, <1>4, <1>5 DEF IndInv, MadeInv

\* and every step keeps it.
LEMMA StepInd == IndInv /\ [Next]_vars => IndInv'
<1> SUFFICES ASSUME IndInv, [Next]_vars PROVE IndInv'
  OBVIOUS
<1>1. MadeInv
  BY DEF IndInv, MadeInv
<1> QED
  BY <1>1, MadeStep, LinesStep, IdentityKnownStep, OneHomeStep,
     AloneFileStep, AloneSavedStep DEF IndInv, MadeInv

\* Every state that can be reached satisfies the inductive invariant.
THEOREM Invariance == Spec => []IndInv
  BY InitInd, StepInd, PTL DEF Spec

\* Every state of the program is one the model describes.
THEOREM TypeCorrect == Spec => []TypeOK
<1>1. IndInv => TypeOK
  BY DEF IndInv
<1> QED BY <1>1, Invariance, PTL

\* Whatever processes wrote between each other's lines, what me.info says is
\* a client of the server.
THEOREM SavedKnown == Spec => []SavedIdentityKnown
<1>1. IndInv => SavedIdentityKnown
  BY LoadedRow DEF IndInv, SavedIdentityKnown
<1> QED BY <1>1, Invariance, PTL

\* So is who a process says it is.
THEOREM RunningKnown == Spec => []RunningIdentityKnown
<1>1. IndInv => RunningIdentityKnown
  BY DEF IndInv
<1> QED BY <1>1, Invariance, PTL

\* Two directories never share a name.
THEOREM NamesApart == Spec => []NamesNotShared
<1>1. IndInv => NamesNotShared
  <2> SUFFICES ASSUME IndInv, faults = MaxFaults,
                      NEW p \in Proc, NEW q \in Proc,
                      me[p] # NoOne, me[q] # NoOne,
                      me[p].name = me[q].name
               PROVE  Home[p] = Home[q]
    BY DEF NamesNotShared
  <2>1. me[p] \in clients /\ me[q] \in clients
    BY DEF IndInv, RunningIdentityKnown
  <2>2. me[p] = me[q]
    BY <2>1 DEF IndInv, RowsUnique
  <2>3. Belongs(me[p], Home[p]) /\ Belongs(me[p], Home[q])
    BY <2>2 DEF Belongs
  <2> QED BY <2>1, <2>3, HomeAssumption DEF IndInv, OneHome
<1> QED BY <1>1, Invariance, PTL

\* A registered process finds itself again after a restart.
THEOREM Saved == Spec => []RegistrationSaved
<1>1. IndInv => RegistrationSaved
  BY DEF IndInv
<1> QED BY <1>1, Invariance, PTL

\* Registration is not repeated over a file.
THEOREM Once == Spec => []RegisteredOnce
<1>1. IndInv => RegisteredOnce
  BY DEF IndInv, AloneFile, RegisteredOnce
<1> QED BY <1>1, Invariance, PTL

\* Files only grow, so the identity at their front stays.
THEOREM Kept == Spec => IdentityKept
<1>1. IndInv /\ [Next]_vars =>
        [\A d \in Dir : Loads(lines[d]) =>
           Loads(lines'[d]) /\ Loaded(lines'[d]) = Loaded(lines[d])]_vars
  <2> SUFFICES ASSUME IndInv, Next, NEW d \in Dir, Loads(lines[d])
               PROVE  /\ Loads(lines'[d])
                      /\ Loaded(lines'[d]) = Loaded(lines[d])
    BY DEF vars
  <2>1. CASE lines'[d] = lines[d]
    BY <2>1
  <2>2. ASSUME NEW l \in Line, lines'[d] = Append(lines[d], l)
        PROVE  /\ Loads(lines'[d])
               /\ Loaded(lines'[d]) = Loaded(lines[d])
    <3> DEFINE s == lines[d]
    <3>1. s \in Seq(Line) /\ Len(s) \in Nat
      BY LenProperties DEF IndInv, TypeOK
    <3>2. /\ Len(lines'[d]) = Len(s) + 1
          /\ \A j \in 1..3 : lines'[d][j] = s[j]
      BY <2>2, <3>1, Appended DEF Loads
    <3> HIDE DEF s
    <3> QED BY <3>1, <3>2 DEF Loads, Loaded, s
  <2>3. ASSUME NEW p \in Proc, WriteLine(p)
        PROVE  \/ lines'[d] = lines[d]
               \/ \E l \in Line : lines'[d] = Append(lines[d], l)
    <3>1. \/ lines' = lines
          \/ \E l \in Line :
               lines' = [lines EXCEPT ![Home[p]] = Append(lines[Home[p]], l)]
      BY <2>3, WriteCases DEF IndInv
    <3> QED BY <3>1 DEF IndInv, TypeOK
  <2>4. \/ lines' = lines
        \/ \E p \in Proc : WriteLine(p)
    BY DEF Next, ServerStep, ClientStep, ServerRegisters, ServerRefuses,
           Start, Register, OpenFile, Stop
  <2> QED BY <2>1, <2>2, <2>3, <2>4
<1> QED BY <1>1, Invariance, PTL DEF Spec, IdentityKept
=============================================================================
