-------------------------- MODULE AccountIds_proofs --------------------------
(***************************************************************************)
(* Account numbers, for any number of accounts, old or new, and of         *)
(* references to them.                                                     *)
(*                                                                         *)
(* The argument: renumbering an old database is one-to-one, and the loop   *)
(* over the references, although it reads what it wrote, moves those that  *)
(* are not entangled once only; after that no number changes, and no       *)
(* number that is still to be given out has a reference.                   *)
(***************************************************************************)
EXTENDS AccountIds, FiniteSetTheorems, TLAPS

USE NumberAssumption, NoneAssumption

\* A set of natural numbers has a least one.
LEMMA LeastNumber ==
    ASSUME NEW S \in SUBSET Nat, S # {}
    PROVE  \E m \in S : \A k \in S : m <= k
  <1> DEFINE Below(k) == {x \in S : x < k}
             Family == {Below(k) : k \in S}
  <1>1. ASSUME NEW k \in S PROVE IsFiniteSet(Below(k)) /\ Below(k) \in SUBSET Nat
    BY FS_BoundedSetOfNaturals, \A s \in Below(k) : s <= k, k \in Nat, Below(k) \in SUBSET Nat
  <1>2. Family \subseteq FiniteSubsetsOf(Nat) /\ Family # {}
    BY <1>1 DEF FiniteSubsetsOf
  <1>3. PICK U \in Family : \A V \in Family : <<V, U>> \notin StrictSubsetOrdering(Nat)
    BY <1>2, FS_StrictSubsetOrderingWellFounded, WFMin
  <1>4. PICK m \in S : U = Below(m)
    BY <1>3
  <1>5. ASSUME NEW k \in S, k < m PROVE FALSE
    <2>1. Below(k) \subseteq Below(m) /\ k \in Below(m) /\ k \notin Below(k)
      <3>1. k \in Nat /\ m \in Nat /\ k < m
        BY <1>5
      <3>2. ASSUME NEW x \in S, x < k PROVE x < m
        BY <3>1, <3>2
      <3>3. \A x \in Below(k) : x \in Below(m)
        BY <3>2
      <3>4. k \in Below(m)
        BY <3>1
      <3>5. k \notin Below(k)
        BY <3>1
      <3> QED BY <3>3, <3>4, <3>5
    <2>2. <<Below(k), Below(m)>> \in StrictSubsetOrdering(Nat)
      BY <2>1 DEF StrictSubsetOrdering
    <2> QED BY <1>3, <1>4, <2>2
  <1> QED BY <1>5

\* The largest number in use.
LEMMA TopIsLargest ==
    ASSUME rows \in [Id -> Person \cup {Nobody}]
    PROVE  Top \in Used \cup {0} /\ \A j \in Used : j <= Top
  <1> DEFINE S == Used \cup {0}
             Bound == {n \in Nat : \A j \in Used : j <= n}
  <1>1. MaxId \in Bound /\ Used \subseteq Nat
    BY DEF Used, Id
  <1>2. PICK m \in Bound : \A k \in Bound : m <= k
    BY <1>1, LeastNumber
  <1>3. m \in S
    <2> SUFFICES ASSUME m \notin S PROVE FALSE
      OBVIOUS
    <2>1. m - 1 \in Nat
      BY <1>2
    <2>2. \A j \in Used : j <= m - 1
      BY <1>1, <1>2
    <2> QED BY <1>2, <2>1, <2>2
  <1>4. \E i \in S : \A j \in Used : j <= i
    BY <1>2, <1>3
  <1> HIDE DEF S
  <1>5. Top = CHOOSE i \in S : \A j \in Used : j <= i
    BY DEF Top, S
  <1> QED BY <1>4, <1>5 DEF S

-----------------------------------------------------------------------------
(* Renumbering *)

\* Finitely many numbers are in use.
LEMMA UsedIsFinite ==
    IsFiniteSet(Used) /\ Used \subseteq 1 .. MaxId
  <1>1. IsFiniteSet(1 .. MaxId)
    BY FS_Interval
  <1> QED BY <1>1, FS_Subset DEF Used, Id

\* A proper part of a finite set is smaller.
LEMMA FewerElements ==
    ASSUME NEW S, IsFiniteSet(S), NEW T \in SUBSET S, S # T
    PROVE  Cardinality(T) < Cardinality(S)
  <1>1. Cardinality(T) <= Cardinality(S) /\ Cardinality(T) # Cardinality(S) /\ IsFiniteSet(T)
    BY FS_Subset
  <1>2. Cardinality(T) \in Nat /\ Cardinality(S) \in Nat
    BY <1>1, FS_CardinalityType
  <1> QED BY <1>1, <1>2

\* The new numbers of the accounts are distinct.
LEMMA NewNumbers ==
           /\ Cardinality(Used) \in Nat
           /\ \A i \in Used : NewId(i) \in First .. First - 1 + Cardinality(Used)
           /\ \A i, j \in Used : NewId(i) = NewId(j) => i = j
  <1> DEFINE Below(i) == {j \in Used : j < i}
  <1>1. IsFiniteSet(Used) /\ Used \subseteq 1 .. MaxId /\ Cardinality(Used) \in Nat
    BY UsedIsFinite, FS_CardinalityType
  <1>3. ASSUME NEW i \in Used
        PROVE  /\ IsFiniteSet(Below(i)) /\ Cardinality(Below(i)) \in Nat
               /\ Cardinality(Below(i)) < Cardinality(Used)
    <2>1. Below(i) \in SUBSET Used /\ i \notin Below(i)
      BY <1>1
    <2>2. IsFiniteSet(Below(i)) /\ Cardinality(Below(i)) <= Cardinality(Used)
          /\ Cardinality(Below(i)) # Cardinality(Used)
      BY <1>1, <2>1, FS_Subset
    <2>3. Cardinality(Below(i)) \in Nat
      BY <2>2, FS_CardinalityType
    <2> QED BY <1>1, <2>2, <2>3
  <1>4. ASSUME NEW i \in Used, NEW j \in Used, i < j
        PROVE  Cardinality(Below(i)) < Cardinality(Below(j))
    <2>1. Below(i) \in SUBSET Below(j) /\ i \in Below(j) /\ i \notin Below(i)
      <3>1. i \in Nat /\ j \in Nat /\ i < j
        BY <1>1, <1>4
      <3>2. ASSUME NEW x \in Used, x < i PROVE x < j
        BY <1>1, <3>1, <3>2
      <3>3. \A x \in Below(i) : x \in Below(j)
        BY <3>2
      <3>4. i \in Below(j)
        BY <3>1
      <3>5. i \notin Below(i)
        BY <3>1
      <3> QED BY <3>3, <3>4, <3>5
    <2>2. Below(i) # Below(j)
      BY <2>1
    <2> HIDE DEF Below
    <2> QED BY <1>3, <2>1, <2>2, FewerElements
  <1>5. \A i \in Used : NewId(i) = First + Cardinality(Below(i))
    BY DEF NewId
  <1> HIDE DEF Below
  <1>6. ASSUME NEW i \in Used, NEW j \in Used, NewId(i) = NewId(j) PROVE i = j
    <2>1. Cardinality(Below(i)) = Cardinality(Below(j))
      BY <1>3, <1>5, <1>6
    <2>2. i \in Nat /\ j \in Nat
      BY <1>1
    <2> QED BY <1>3, <1>4, <2>1, <2>2
  <1> QED BY <1>1, <1>3, <1>5, <1>6

\* A reference of an account gets its account's new number, and no other one:
\* what i turns of the loop make of a reference that is not entangled.
Renumbered(i, t) ==
    IF tickets[t] # NoTicket /\ tickets[t].id \in Used /\ tickets[t].id <= i
    THEN [tickets[t] EXCEPT !.id = NewId(tickets[t].id)]
    ELSE tickets[t]

\* The references after i turns.
AfterTurn(i, was) ==
    /\ was \in [Ticket -> TicketRow \cup {NoTicket}]
    /\ \A t \in Ticket : was[t] = NoTicket <=> tickets[t] = NoTicket
    /\ \A t \in Ticket \ Entangled : was[t] = Renumbered(i, t)

\* What Moved's recursion demands of a function, up to turn n.
IsLoop(g, n) == g = [i \in 0 .. n |-> IF i = 0 THEN tickets ELSE MoveOne(g[i - 1], i)]

\* There is room to renumber all accounts.
Room == First - 1 + Cardinality(Used) <= MaxId

\* A function that satisfies the recursion exists: a least turn up to which
\* there is none could be added to a function for the turns before it.
LEMMA LoopExists == \E g : IsLoop(g, MaxId)
  <1> DEFINE Lacking == {n \in Nat : ~ \E g : IsLoop(g, n)}
  <1>1. ASSUME Lacking # {} PROVE FALSE
    <2>1. PICK n \in Lacking : \A k \in Lacking : n <= k
      <3>1. Lacking \in SUBSET Nat
        OBVIOUS
      <3> HIDE DEF Lacking
      <3> QED BY <1>1, <3>1, LeastNumber
    <2>2. n \in Nat /\ ~ \E g : IsLoop(g, n)
      BY <2>1
    <2>3. CASE n = 0
      <3> DEFINE first == [i \in 0 .. 0 |-> tickets]
      <3>1. IsLoop(first, 0)
        BY DEF IsLoop
      <3> HIDE DEF first
      <3> QED BY <2>2, <2>3, <3>1
    <2>4. CASE n # 0
      <3>1. n - 1 \in Nat /\ n - 1 \notin Lacking
        BY <2>1, <2>4
      <3>2. PICK g : IsLoop(g, n - 1)
        BY <3>1
      <3> DEFINE longer == [i \in 0 .. n |->
                              IF i = n THEN MoveOne(g[n - 1], n) ELSE g[i]]
      <3>3. \A i \in 0 .. n - 1 : g[i] = IF i = 0 THEN tickets ELSE MoveOne(g[i - 1], i)
        BY <3>2 DEF IsLoop
      <3>4. ASSUME NEW i \in 0 .. n
            PROVE  longer[i] = IF i = 0 THEN tickets ELSE MoveOne(longer[i - 1], i)
        <4>1. CASE i = n
          <5>1. n - 1 \in 0 .. n /\ n - 1 # n
            BY <3>1
          <5>2. longer[n] = MoveOne(g[n - 1], n) /\ longer[n - 1] = g[n - 1]
            BY <4>1, <5>1
          <5> HIDE DEF longer
          <5> QED BY <2>4, <4>1, <5>2
        <4>2. CASE i # n
          <5>1. i \in 0 .. n - 1 /\ longer[i] = g[i]
            BY <2>2, <4>2
          <5>2. i # 0 => i - 1 \in 0 .. n /\ i - 1 # n
            BY <2>2, <5>1
          <5>3. i # 0 => longer[i - 1] = g[i - 1]
            BY <5>2
          <5> HIDE DEF longer
          <5> QED BY <3>3, <5>1, <5>3
        <4> QED BY <4>1, <4>2
      <3>5. longer = [i \in 0 .. n |-> longer[i]]
        OBVIOUS
      <3> HIDE DEF longer
      <3>6. IsLoop(longer, n)
        BY <3>4, <3>5 DEF IsLoop
      <3> QED BY <2>2, <3>6
    <2> QED BY <2>3, <2>4
  <1> QED BY <1>1

\* One turn.  The only reference it could move a second time is one that an
\* earlier turn gave its number, and that is entangled.
LEMMA OneTurn ==
    ASSUME tickets \in [Ticket -> TicketRow \cup {NoTicket}], Room, ~Unified,
           NEW i \in 1 .. MaxId, NEW was, AfterTurn(i - 1, was)
    PROVE  AfterTurn(i, MoveOne(was, i))
  <1> DEFINE now == MoveOne(was, i)
  <1>1. \A k \in Used : k \in 1 .. MaxId /\ NewId(k) \in Id /\ NewId(k) \in Nat
    BY NewNumbers, UsedIsFinite DEF Room, Id
  <1>2. ASSUME NEW t \in Ticket
        PROVE  /\ now[t] = IF i \in Used /\ was[t] # NoTicket /\ was[t].id = i
                           THEN [was[t] EXCEPT !.id = NewId(i)] ELSE was[t]
               /\ now[t] \in TicketRow \cup {NoTicket}
               /\ now[t] = NoTicket <=> tickets[t] = NoTicket
    <2>1. now[t] = IF i \in Used /\ was[t] # NoTicket /\ was[t].id = i
                   THEN [was[t] EXCEPT !.id = NewId(i)] ELSE was[t]
      BY DEF MoveOne
    <2>2. was[t] \in TicketRow \cup {NoTicket} /\ (was[t] = NoTicket <=> tickets[t] = NoTicket)
      BY DEF AfterTurn
    <2>3. CASE i \in Used /\ was[t] # NoTicket /\ was[t].id = i
      <3>1. now[t] = [was[t] EXCEPT !.id = NewId(i)]
        BY <2>1, <2>3
      <3>2. now[t] \in TicketRow
        BY <1>1, <2>2, <2>3, <3>1 DEF TicketRow
      <3>3. now[t] \in [kind : {"auth", "comet"}, id : Int, owner : Person]
        BY <3>2 DEF TicketRow, Id
      <3> QED BY <2>1, <2>2, <2>3, <3>2, <3>3
    <2>4. CASE ~(i \in Used /\ was[t] # NoTicket /\ was[t].id = i)
      BY <2>1, <2>2, <2>4
    <2> QED BY <2>3, <2>4
  <1>3. ASSUME NEW t \in Ticket \ Entangled
        PROVE  now[t] = Renumbered(i, t)
    <2>1. was[t] = Renumbered(i - 1, t)
      BY DEF AfterTurn
    <2>2. CASE tickets[t] = NoTicket
      BY <1>2, <2>1, <2>2 DEF Renumbered
    <2>3. CASE tickets[t] # NoTicket
      <3>1. tickets[t] \in TicketRow /\ tickets[t].id \in 1 .. MaxId /\ was[t] # NoTicket
        BY <1>2, <2>3 DEF TicketRow, Id, AfterTurn
      <3>2. CASE tickets[t].id \in Used /\ tickets[t].id <= i - 1
        <4>1. was[t] = [tickets[t] EXCEPT !.id = NewId(tickets[t].id)]
              /\ was[t].id = NewId(tickets[t].id)
          BY <2>1, <2>3, <3>1, <3>2 DEF Renumbered, TicketRow
        <4>2. ~(NewId(tickets[t].id) \in Used /\ tickets[t].id < NewId(tickets[t].id))
          BY <2>3, <3>2 DEF Entangled
        <4>3. ~(i \in Used /\ was[t].id = i)
          BY <1>1, <3>1, <3>2, <4>1, <4>2
        <4>4. tickets[t].id <= i
          BY <3>1, <3>2
        <4> QED BY <1>2, <2>3, <3>2, <4>1, <4>3, <4>4 DEF Renumbered
      <3>3. CASE ~(tickets[t].id \in Used /\ tickets[t].id <= i - 1)
        <4>1. was[t] = tickets[t]
          BY <2>1, <3>3 DEF Renumbered
        <4>2. tickets[t].id \in Used => (tickets[t].id <= i <=> tickets[t].id = i)
          BY <3>1, <3>3
        <4> QED BY <1>2, <2>3, <4>1, <4>2 DEF Renumbered
      <3> QED BY <3>2, <3>3
    <2> QED BY <2>2, <2>3
  <1>4. now = [t \in Ticket |-> now[t]]
    BY DEF MoveOne
  <1> HIDE DEF now
  <1>5. now \in [Ticket -> TicketRow \cup {NoTicket}]
    BY <1>2, <1>4
  <1>6. AfterTurn(i, now)
    BY <1>2, <1>3, <1>5 DEF AfterTurn
  <1> QED BY <1>6 DEF now

\* The whole loop: consider the first turn after which it would not be so.
LEMMA MovedIsRenumbered ==
    ASSUME tickets \in [Ticket -> TicketRow \cup {NoTicket}], Room, ~Unified
    PROVE  AfterTurn(MaxId, Moved)
  <1> DEFINE loop == CHOOSE g : IsLoop(g, MaxId)
  <1>1. IsLoop(loop, MaxId)
    BY LoopExists
  <1>2. Moved = loop[MaxId]
    BY DEF Moved, IsLoop
  <1> HIDE DEF loop
  <1>3. \A i \in 0 .. MaxId : loop[i] = IF i = 0 THEN tickets ELSE MoveOne(loop[i - 1], i)
    BY <1>1 DEF IsLoop
  <1> DEFINE Wrong == {i \in 0 .. MaxId : ~ AfterTurn(i, loop[i])}
  <1>4. ASSUME Wrong # {} PROVE FALSE
    <2>1. Wrong \in SUBSET Nat
      OBVIOUS
    <2>2. PICK m \in Wrong : \A k \in Wrong : m <= k
      <3> HIDE DEF Wrong
      <3> QED BY <1>4, <2>1, LeastNumber
    <2>3. m \in 0 .. MaxId /\ ~ AfterTurn(m, loop[m])
      BY <2>2
    <2>4. CASE m = 0
      <3>1. loop[0] = tickets
        BY <1>3, <2>3, <2>4
      <3>2. \A k \in Used : k > 0
        BY UsedIsFinite
      <3>3. ASSUME NEW t \in Ticket PROVE Renumbered(0, t) = tickets[t]
        BY <3>2, UsedIsFinite DEF Renumbered
      <3>4. AfterTurn(0, tickets)
        BY <3>3 DEF AfterTurn
      <3> QED BY <2>3, <2>4, <3>1, <3>4
    <2>5. CASE m # 0
      <3>1. m - 1 \in 0 .. MaxId /\ m - 1 \notin Wrong /\ m \in 1 .. MaxId
        BY <2>2, <2>3, <2>5
      <3>2. AfterTurn(m - 1, loop[m - 1])
        BY <3>1
      <3>3. AfterTurn(m, MoveOne(loop[m - 1], m))
        BY <3>1, <3>2, OneTurn
      <3> QED BY <1>3, <2>3, <2>5, <3>3
    <2> QED BY <2>4, <2>5
  <1>5. MaxId \in 0 .. MaxId
    OBVIOUS
  <1> QED BY <1>2, <1>4, <1>5

-----------------------------------------------------------------------------
(* The inductive invariant *)

Typed ==
    /\ phase \in {"down", "number", "comet", "auth", "serving"}
    /\ columns \in BOOLEAN
    /\ rows \in [Id -> Person \cup {Nobody}]
    /\ seq \in 0 .. MaxId
    /\ tickets \in [Ticket -> TicketRow \cup {NoTicket}]
    /\ comet \in [id : Id, owner : Person] \cup {NoId}
    /\ known \in [Person -> Id \cup {NoId}]

\* The sequence is past every number in use; an owner has one account.
RowsOK ==
    \A i \in Used : i <= seq /\ \A j \in Used : rows[i] = rows[j] => i = j

\* A database nobody has upgraded: no number of it was told.
Old ==
    /\ phase \in {"down", "number"}
    /\ Room
    /\ \A p \in Person : known[p] = NoId

AgeOK ==
    /\ Old \/ Unified
    /\ phase \in {"comet", "auth", "serving"} => Unified /\ seq >= First - 1

KnownOK ==
    \A i \in Used : /\ known[rows[i]] \in {NoId, i}
                    /\ phase = "serving" => known[rows[i]] = i

\* A number that is still to be given out has no reference waiting for it.
TicketsOK ==
    \A t \in Ticket : tickets[t] # NoTicket =>
        /\ phase = "auth" /\ tickets[t].kind = "comet" => rows[tickets[t].id] # Nobody
        /\ phase = "serving" => tickets[t].id <= seq

CometOK ==
    comet # NoId =>
        /\ phase = "serving"
        /\ comet.id <= seq
        /\ rows[comet.id] \in {comet.owner, Nobody}

IInv == Typed /\ RowsOK /\ AgeOK /\ KnownOK /\ TicketsOK /\ CometOK

-----------------------------------------------------------------------------
(* Every step keeps it *)

LEMMA InitInv == Init => IInv
  <1> SUFFICES ASSUME Init PROVE IInv
    OBVIOUS
  <1>0. /\ Top \in 0 .. MaxId /\ \A j \in Used : j \in Id /\ j <= Top
        /\ seq = Top \/ seq = Max2(Top, First - 1)
    <2>1. Used \subseteq 1 .. MaxId
      BY UsedIsFinite
    <2>2. Top \in Used \cup {0} /\ \A j \in Used : j <= Top
      BY TopIsLargest DEF Init
    <2>3. Top \in 0 .. MaxId
      BY <2>1, <2>2
    <2> QED BY <2>1, <2>2, <2>3 DEF Init, Id
  <1>1. \A i \in Used : i \in Id /\ i <= seq
    BY <1>0 DEF Max2, Id
  <1>2. seq \in 0 .. MaxId
    BY <1>0 DEF Max2
  <1>3. Typed
    BY <1>2 DEF Typed, Init
  <1>4. RowsOK /\ KnownOK
    BY <1>1, <1>3 DEF Init, RowsOK, KnownOK, Used, Typed
  <1>5. AgeOK
    BY <1>1, <1>3 DEF Init, AgeOK, Old, Room
  <1>6. TicketsOK /\ CometOK
    BY DEF Init, TicketsOK, CometOK
  <1> QED BY <1>3, <1>4, <1>5, <1>6 DEF IInv

LEMMA StartStep == IInv /\ Start => IInv'
  BY DEF IInv, Start, Typed, RowsOK, AgeOK, Old, Room, KnownOK, TicketsOK, CometOK, Used, Unified

LEMMA StopStep == IInv /\ Stop => IInv'
  BY DEF IInv, Stop, Typed, RowsOK, AgeOK, Old, Room, KnownOK, TicketsOK, CometOK, Used, Unified

LEMMA KeepStep == IInv /\ KeepNumbers => IInv'
  <1> SUFFICES ASSUME IInv, KeepNumbers PROVE IInv'
    OBVIOUS
  <1>1. Used' = Used /\ Unified' /\ (\A i \in Used : i \in Nat /\ i >= First)
    BY UsedIsFinite DEF KeepNumbers, Used, Unified
  <1>2. seq' \in 0 .. MaxId /\ seq' >= First - 1 /\ \A i \in Used : i <= seq'
    BY <1>1 DEF IInv, KeepNumbers, Typed, RowsOK
  <1> QED BY <1>1, <1>2 DEF IInv, KeepNumbers, Typed, RowsOK, AgeOK, KnownOK, TicketsOK, CometOK

\* An old database, and where its accounts go.
LEMMA RenumberFacts ==
    ASSUME IInv, Renumber
    PROVE  /\ Old /\ comet = NoId
           /\ \A i \in Used : /\ i \in Id /\ NewId(i) \in Id
                              /\ First <= NewId(i) /\ NewId(i) <= seq'
                              /\ rows'[NewId(i)] = rows[i]
           /\ \A k \in Id : rows'[k] # Nobody => \E i \in Used : NewId(i) = k
           /\ seq' \in First - 1 .. MaxId
           /\ tickets' \in [Ticket -> TicketRow \cup {NoTicket}]
           /\ \A t \in Ticket : tickets'[t] = NoTicket <=> tickets[t] = NoTicket
           /\ \A t \in Ticket \ Entangled :
                 tickets'[t] = IF tickets[t] # NoTicket /\ tickets[t].id \in Used
                               THEN [tickets[t] EXCEPT !.id = NewId(tickets[t].id)]
                               ELSE tickets[t]
  <1>1. Old /\ comet = NoId /\ Room /\ ~Unified
    BY DEF Renumber, IInv, AgeOK, CometOK, Old
  <1>2. /\ Cardinality(Used) \in Nat
        /\ \A i \in Used : NewId(i) \in First .. First - 1 + Cardinality(Used)
        /\ \A i, j \in Used : NewId(i) = NewId(j) => i = j
    BY NewNumbers
  <1>3. seq' = First - 1 + Cardinality(Used) /\ seq' \in First - 1 .. MaxId
    BY <1>1, <1>2 DEF Renumber, Room
  <1>4. \A i \in Used : i \in Id /\ NewId(i) \in Id
    BY <1>1, <1>2, UsedIsFinite DEF Id, Room
  <1>5. \A k \in Id : rows'[k] = IF \E i \in Used : NewId(i) = k
                                THEN rows[CHOOSE i \in Used : NewId(i) = k] ELSE Nobody
    BY DEF Renumber
  <1>6. ASSUME NEW i \in Used PROVE rows'[NewId(i)] = rows[i]
    <2>1. (CHOOSE j \in Used : NewId(j) = NewId(i)) = i
      BY <1>2
    <2> QED BY <1>4, <1>5, <2>1
  <1>7. AfterTurn(MaxId, tickets')
    BY <1>1, MovedIsRenumbered DEF Renumber, IInv, Typed
  <1>8. ASSUME NEW t \in Ticket \ Entangled
        PROVE  tickets'[t] = IF tickets[t] # NoTicket /\ tickets[t].id \in Used
                             THEN [tickets[t] EXCEPT !.id = NewId(tickets[t].id)]
                             ELSE tickets[t]
    <2>1. tickets'[t] = Renumbered(MaxId, t)
      BY <1>7 DEF AfterTurn
    <2>2. \A i \in Used : i <= MaxId
      BY <1>4 DEF Id
    <2> QED BY <2>1, <2>2 DEF Renumbered
  <1>9. /\ tickets' \in [Ticket -> TicketRow \cup {NoTicket}]
        /\ \A t \in Ticket : tickets'[t] = NoTicket <=> tickets[t] = NoTicket
    BY <1>7 DEF AfterTurn
  <1> QED BY <1>1, <1>2, <1>3, <1>4, <1>5, <1>6, <1>8, <1>9

LEMMA RenumberStep == IInv /\ Renumber => IInv'
  <1> SUFFICES ASSUME IInv, Renumber PROVE IInv'
    OBVIOUS
  <1>1. ASSUME NEW k \in Used'
        PROVE  k \in Id /\ \E i \in Used : NewId(i) = k /\ rows'[k] = rows[i]
    BY <1>1, RenumberFacts DEF Used
  <1>2. rows' \in [Id -> Person \cup {Nobody}]
    <2>1. rows' = [k \in Id |-> rows'[k]]
      BY DEF Renumber
    <2>2. ASSUME NEW k \in Id PROVE rows'[k] \in Person \cup {Nobody}
      <3>1. CASE rows'[k] = Nobody
        BY <3>1
      <3>2. CASE rows'[k] # Nobody
        <4>1. k \in Used'
          BY <3>2 DEF Used
        <4>2. PICK i \in Used : rows'[k] = rows[i]
          BY <1>1, <4>1
        <4> QED BY <4>2 DEF IInv, Typed, Used
      <3> QED BY <3>1, <3>2
    <2> QED BY <2>1, <2>2
  <1>3. tickets' \in [Ticket -> TicketRow \cup {NoTicket}]
    BY RenumberFacts
  <1>4. Typed'
    <2>1. seq' \in 0 .. MaxId
      BY RenumberFacts
    <2>2. columns' = FALSE /\ phase' = "comet" /\ comet' = comet /\ known' = known
      BY DEF Renumber
    <2> QED BY <1>2, <1>3, <2>1, <2>2 DEF IInv, Typed
  <1>5. RowsOK'
    BY <1>1, RenumberFacts DEF RowsOK, IInv
  <1>6. AgeOK'
    <2>1. columns' = FALSE /\ phase' = "comet"
      BY DEF Renumber
    <2>2. seq' >= First - 1
      BY RenumberFacts
    <2>3. ASSUME NEW k \in Used' PROVE k >= First
      BY <1>1, <2>3, RenumberFacts
    <2> QED BY <2>1, <2>2, <2>3 DEF AgeOK, Unified
  <1>7. KnownOK'
    <2>1. ASSUME NEW k \in Used' PROVE known'[rows'[k]] = NoId
      <3>1. rows'[k] \in Person
        BY <1>2 DEF Used
      <3> QED BY <3>1, RenumberFacts DEF Renumber, Old
    <2> QED BY <2>1 DEF KnownOK, Renumber
  <1>8. TicketsOK'
    BY DEF TicketsOK, Renumber
  <1>9. CometOK'
    BY RenumberFacts DEF CometOK, Renumber
  <1> QED BY <1>4, <1>5, <1>6, <1>7, <1>8, <1>9 DEF IInv

\* After the orphans are gone every reference has an account.
LEMMA OrphansStep ==
    ASSUME IInv, NEW kind \in {"comet", "auth"}, DropOrphans(kind)
    PROVE  IInv'
  <1>1. /\ phase = kind /\ phase' = IF kind = "comet" THEN "auth" ELSE "serving"
        /\ UNCHANGED <<columns, rows, seq, comet>> /\ comet = NoId
        /\ Used' = Used /\ Unified' = Unified /\ Unified /\ seq >= First - 1
    BY DEF DropOrphans, IInv, AgeOK, CometOK, Used, Unified
  <1>2. ASSUME NEW t \in Ticket
        PROVE  /\ tickets'[t] \in {tickets[t], NoTicket}
               /\ tickets'[t] # NoTicket /\ tickets[t].kind = kind => rows[tickets[t].id] # Nobody
    BY DEF DropOrphans, Without
  <1>3. tickets' \in [Ticket -> TicketRow \cup {NoTicket}]
    <2>1. tickets' = [t \in Ticket |-> tickets'[t]]
      BY DEF DropOrphans, Without
    <2> QED BY <1>2, <2>1 DEF IInv, Typed
  <1>4. ASSUME NEW i \in Used
        PROVE  /\ rows[i] \in Person /\ i \in Id /\ NumberOf(rows[i]) = i
    <2>1. rows[i] \in Person /\ i \in Id /\ i \in Int
      BY UsedIsFinite DEF IInv, Typed, Used
    <2>2. \A j \in Id : rows[j] = rows[i] => j = i
      BY <2>1 DEF IInv, RowsOK, Used
    <2> QED BY <2>1, <2>2 DEF NumberOf
  <1>5. \A p \in Person : NumberOf(p) \in Id \cup {NoId}
    BY DEF NumberOf
  <1>6. known' \in [Person -> Id \cup {NoId}]
    BY <1>5 DEF DropOrphans, IInv, Typed
  <1>7. KnownOK'
    <2>1. CASE kind = "comet"
      BY <1>1, <2>1 DEF DropOrphans, IInv, KnownOK
    <2>2. CASE kind = "auth"
      <3>1. ASSUME NEW i \in Used PROVE known'[rows[i]] = i
        <4>1. i # NoId
          BY <1>4 DEF Id
        <4> QED BY <1>4, <2>2, <4>1 DEF DropOrphans
      <3> QED BY <1>1, <3>1 DEF KnownOK
    <2> QED BY <2>1, <2>2
  <1>8. TicketsOK'
    <2> SUFFICES ASSUME NEW t \in Ticket, tickets'[t] # NoTicket
                 PROVE  /\ kind = "comet" /\ tickets[t].kind = "comet"
                             => rows[tickets[t].id] # Nobody
                        /\ kind = "auth" => tickets[t].id <= seq
      BY <1>1, <1>2 DEF TicketsOK
    <2>1. tickets[t] # NoTicket /\ tickets[t] \in TicketRow
      BY <1>2 DEF IInv, Typed
    <2>2. kind = "auth" => rows[tickets[t].id] # Nobody
      BY <1>1, <1>2, <2>1 DEF IInv, TicketsOK, TicketRow
    <2>3. kind = "auth" => tickets[t].id <= seq
      BY <2>1, <2>2 DEF IInv, RowsOK, Used, TicketRow
    <2> QED BY <1>2, <2>1, <2>3 DEF IInv, TicketsOK
  <1>9. Typed' /\ RowsOK' /\ AgeOK' /\ CometOK'
    BY <1>1, <1>3, <1>6 DEF IInv, Typed, RowsOK, AgeOK, CometOK
  <1> QED BY <1>7, <1>8, <1>9 DEF IInv

\* The sequence alone decides the next number.
LEMMA NextIdIsFresh == IInv => NextId = seq + 1
  <1> SUFFICES ASSUME IInv PROVE NextId = seq + 1
    OBVIOUS
  <1>1. Top \in Used \cup {0} /\ seq \in Nat
    BY TopIsLargest DEF IInv, Typed
  <1>2. Top \in Nat /\ Top <= seq
    BY <1>1, UsedIsFinite DEF IInv, RowsOK
  <1> QED BY <1>1, <1>2 DEF NextId, Max2

LEMMA RegisterStep ==
    ASSUME IInv, NEW p \in Person, Register(p)
    PROVE  IInv'
  <1> DEFINE n == seq + 1
  <1>1. /\ phase = "serving" /\ known[p] = NoId /\ n \in Id /\ seq' = n
        /\ rows' = [rows EXCEPT ![n] = p] /\ known' = [known EXCEPT ![p] = n]
        /\ UNCHANGED <<phase, columns, tickets, comet>> /\ seq \in Nat
    <2>1. NextId = n /\ seq \in Nat
      BY NextIdIsFresh DEF IInv, Typed
    <2>2. n \in Id
      BY <2>1 DEF Register, Id
    <2> HIDE DEF n
    <2> QED BY <2>1, <2>2 DEF Register
  <1>2. Typed'
    BY <1>1 DEF IInv, Typed, Id
  <1>3. \A i \in Used : rows[i] # p /\ i <= seq /\ i \in Id /\ known[rows[i]] = i
    BY <1>1 DEF IInv, KnownOK, RowsOK, Used, Id
  <1>4. /\ rows'[n] = p
        /\ \A i \in Id : i # n => rows'[i] = rows[i]
    BY <1>1 DEF IInv, Typed
  <1>5. n \notin Used /\ Used' = Used \cup {n}
    BY <1>1, <1>3, <1>4 DEF Used
  <1> HIDE DEF n
  <1>6. \A i \in Used : i # n /\ i <= n
    BY <1>1, <1>3 DEF n, Id
  <1>7. RowsOK'
    BY <1>1, <1>3, <1>4, <1>5, <1>6 DEF IInv, RowsOK, Id
  <1>8. AgeOK'
    <2>1. Unified /\ n >= First
      BY <1>1 DEF IInv, AgeOK, n
    <2>2. Unified'
      BY <1>1, <1>5, <2>1 DEF Unified
    <2> QED BY <1>1, <2>1, <2>2 DEF AgeOK, Id
  <1>9. KnownOK'
    <2>1. ASSUME NEW i \in Used PROVE known'[rows'[i]] = i
      BY <1>1, <1>3, <1>4, <1>6 DEF IInv, Typed, Used
    <2>2. known'[rows'[n]] = n
      BY <1>1, <1>4 DEF IInv, Typed
    <2> QED BY <1>5, <2>1, <2>2 DEF KnownOK
  <1>10. TicketsOK'
    <2>1. ASSUME NEW t \in Ticket, tickets[t] # NoTicket
          PROVE  tickets[t].id \in Id /\ tickets[t].id # n /\ tickets[t].id <= n
      <3>1. tickets[t].id \in Id /\ tickets[t].id <= seq
        BY <1>1, <2>1 DEF IInv, Typed, TicketsOK, TicketRow
      <3> QED BY <1>1, <3>1 DEF n, Id
    <2> QED BY <1>1, <1>4, <2>1 DEF IInv, TicketsOK
  <1>11. CometOK'
    <2>1. ASSUME comet # NoId
          PROVE  comet.id \in Id /\ comet.id # n /\ comet.id <= n
      <3>1. comet.id \in Id /\ comet.id <= seq
        BY <2>1 DEF IInv, Typed, CometOK
      <3> QED BY <1>1, <3>1 DEF n, Id
    <2> QED BY <1>1, <1>4, <2>1 DEF IInv, CometOK
  <1> QED BY <1>2, <1>7, <1>8, <1>9, <1>10, <1>11 DEF IInv

LEMMA LoginStep ==
    ASSUME IInv, NEW i \in Id, NEW t \in Ticket, Login(i, t)
    PROVE  IInv'
  <1> DEFINE new == [kind |-> "auth", id |-> i, owner |-> rows[i]]
  <1>1. /\ phase = "serving" /\ i \in Used /\ tickets' = [tickets EXCEPT ![t] = new]
        /\ UNCHANGED <<phase, columns, rows, seq, comet, known>>
    BY DEF Login, Used
  <1>2. new \in TicketRow /\ new.id = i /\ new.owner = rows[i] /\ i <= seq
    BY <1>1 DEF IInv, Typed, RowsOK, TicketRow, Used
  <1> HIDE DEF new
  <1>3. Typed'
    BY <1>1, <1>2 DEF IInv, Typed
  <1>4. TicketsOK'
    BY <1>1, <1>2 DEF IInv, Typed, TicketsOK
  <1> QED BY <1>1, <1>3, <1>4 DEF IInv, RowsOK, AgeOK, Old, Room, Unified, KnownOK, CometOK, Used

LEMMA BeginCometStep ==
    ASSUME IInv, NEW i \in Id, BeginComet(i)
    PROVE  IInv'
  <1>1. /\ phase = "serving" /\ i \in Used /\ comet' = [id |-> i, owner |-> rows[i]]
        /\ UNCHANGED <<phase, columns, rows, seq, tickets, known>>
    BY DEF BeginComet, Used
  <1>2. comet' \in [id : Id, owner : Person] /\ comet'.id = i /\ comet'.owner = rows[i] /\ i <= seq
    BY <1>1 DEF IInv, Typed, RowsOK, Used
  <1>3. Typed' /\ CometOK'
    BY <1>1, <1>2 DEF IInv, Typed, CometOK
  <1> QED BY <1>1, <1>3 DEF IInv, RowsOK, AgeOK, Old, Room, Unified, KnownOK, TicketsOK, Used

LEMMA CreateCometStep ==
    ASSUME IInv, NEW t \in Ticket, CreateCometSession(t)
    PROVE  IInv'
  <1> DEFINE new == [kind |-> "comet", id |-> comet.id, owner |-> comet.owner]
  <1>1. /\ comet # NoId /\ comet' = NoId /\ tickets' = [tickets EXCEPT ![t] = new]
        /\ UNCHANGED <<phase, columns, rows, seq, known>>
    BY DEF CreateCometSession
  <1>2. comet \in [id : Id, owner : Person] /\ phase = "serving" /\ comet.id <= seq
        /\ rows[comet.id] \in {comet.owner, Nobody}
    BY <1>1 DEF IInv, Typed, CometOK
  <1>3. new \in TicketRow /\ new.id = comet.id /\ new.owner = comet.owner
    BY <1>2 DEF TicketRow
  <1> HIDE DEF new
  <1>4. Typed'
    BY <1>1, <1>3 DEF IInv, Typed
  <1>5. TicketsOK'
    BY <1>1, <1>2, <1>3 DEF IInv, Typed, TicketsOK
  <1>6. CometOK'
    BY <1>1 DEF CometOK
  <1>7. RowsOK' /\ KnownOK'
    BY <1>1 DEF IInv, RowsOK, KnownOK, Used
  <1>8. AgeOK'
    BY <1>1, <1>2 DEF IInv, AgeOK, Unified, Used
  <1> QED BY <1>4, <1>5, <1>6, <1>7, <1>8 DEF IInv

LEMMA HardDeleteStep ==
    ASSUME IInv, NEW i \in Id, HardDeleteUser(i)
    PROVE  IInv'
  <1>1. /\ phase = "serving" /\ rows' = [rows EXCEPT ![i] = Nobody]
        /\ UNCHANGED <<phase, columns, seq, comet, known>>
        /\ \A t \in Ticket : tickets'[t] \in {tickets[t], NoTicket}
        /\ tickets' = [t \in Ticket |-> tickets'[t]]
    BY DEF HardDeleteUser
  <1>2. rows'[i] = Nobody /\ \A j \in Id : j # i => rows'[j] = rows[j]
    BY <1>1 DEF IInv, Typed
  <1>3. Used' \subseteq Used /\ \A j \in Used' : rows'[j] = rows[j]
    BY <1>2 DEF Used
  <1>4. Typed'
    BY <1>1 DEF IInv, Typed
  <1>5. RowsOK' /\ KnownOK'
    BY <1>1, <1>3 DEF IInv, RowsOK, KnownOK
  <1>6. AgeOK'
    BY <1>1, <1>3 DEF IInv, AgeOK, Old, Room, Unified
  <1>7. TicketsOK'
    <2>1. ASSUME NEW t \in Ticket, tickets'[t] # NoTicket
          PROVE  /\ tickets'[t] = tickets[t] /\ tickets[t] # NoTicket /\ tickets[t].id \in Id
      BY <1>1, <2>1 DEF IInv, Typed, TicketRow
    <2> QED BY <1>1, <1>2, <2>1 DEF IInv, TicketsOK
  <1>8. CometOK'
    BY <1>1, <1>2 DEF IInv, Typed, CometOK
  <1> QED BY <1>4, <1>5, <1>6, <1>7, <1>8 DEF IInv

\* Renumbering takes a reference along with its account, and gives no account
\* the number of a reference left over, unless they are entangled.
LEMMA RenumberBelongs ==
    ASSUME IInv, Renumber, NEW t \in Ticket \ Entangled, Belongs(t)
    PROVE  Belongs(t)'
  <1> SUFFICES ASSUME tickets'[t] # NoTicket
               PROVE  rows'[tickets'[t].id] \in {tickets'[t].owner, Nobody}
    BY DEF Belongs
  <1>1. tickets[t] # NoTicket /\ tickets[t] \in TicketRow /\ tickets[t].id \in Id
    BY RenumberFacts DEF IInv, Typed, TicketRow
  <1>2. rows[tickets[t].id] \in {tickets[t].owner, Nobody}
    BY <1>1 DEF Belongs
  <1>3. CASE tickets[t].id \in Used
    <2>1. tickets'[t] = [tickets[t] EXCEPT !.id = NewId(tickets[t].id)]
      BY <1>1, <1>3, RenumberFacts
    <2>2. tickets'[t].id = NewId(tickets[t].id) /\ tickets'[t].owner = tickets[t].owner
      BY <1>1, <2>1 DEF TicketRow
    <2> QED BY <1>2, <1>3, <2>2, RenumberFacts
  <1>4. CASE tickets[t].id \notin Used
    <2>1. tickets'[t] = tickets[t]
      BY <1>1, <1>4, RenumberFacts
    <2>2. \A i \in Used : NewId(i) # tickets[t].id
      BY <1>1, <1>4 DEF Entangled, Renumber
    <2>3. rows'[tickets[t].id] = Nobody
      BY <1>1, <2>2, RenumberFacts
    <2> QED BY <2>1, <2>3
  <1> QED BY <1>3, <1>4

-----------------------------------------------------------------------------
(* Theorems *)

\* The invariant holds in every state.
THEOREM Invariance == Spec => []IInv
  <1>1. IInv /\ [Next]_vars => IInv'
    <2> SUFFICES ASSUME IInv, [Next]_vars PROVE IInv'
      OBVIOUS
    <2>1. CASE Next
      BY <2>1, StartStep, KeepStep, RenumberStep, OrphansStep, RegisterStep, BeginCometStep,
         HardDeleteStep, LoginStep, CreateCometStep, StopStep DEF Next
    <2>2. CASE UNCHANGED vars
      BY <2>2 DEF vars, IInv, Typed, RowsOK, AgeOK, Old, Room, Unified, KnownOK, TicketsOK, CometOK, Used
    <2> QED BY <2>1, <2>2
  <1> QED BY InitInv, <1>1, PTL DEF Spec

\* Every variable keeps to its set of values, and the next number is free.
THEOREM IdsTyped == Spec => []TypeOK
  <1>1. IInv => TypeOK
    BY DEF IInv, Typed, RowsOK, TypeOK
  <1> QED BY <1>1, Invariance, PTL

\* A number a person was told stays that person's, whatever is deleted around
\* it, restarted or upgraded.
THEOREM NumbersStay == Spec => []IdsPermanent
  <1>1. IInv => IdsPermanent
    <2> SUFFICES ASSUME IInv, NEW p \in Person, known[p] # NoId
                 PROVE  NumberOf(p) \in {known[p], NoId}
      BY DEF IdsPermanent
    <2>1. \A i \in Id : rows[i] = p => known[p] = i
      BY DEF IInv, KnownOK, Used
    <2> QED BY <2>1 DEF NumberOf
  <1> QED BY <1>1, Invariance, PTL

\* Every account that is served has a new number, and an owner one account.
THEOREM ServedUnified == Spec => []UnifiedWhileServing
  <1>1. IInv => UnifiedWhileServing
    BY DEF IInv, AgeOK, Unified, RowsOK, UnifiedWhileServing
  <1> QED BY <1>1, Invariance, PTL

\* No step gives a log-in or a long connection to another person's account,
\* except the renumbering of entangled ones.
THEOREM ReferencesFollow == Spec => TicketsFollow
  <1> DEFINE Followed == \A t \in Ticket \ Entangled : Belongs(t) => Belongs(t)'
  <1>1. IInv /\ [Next]_vars => Followed
    <2> SUFFICES ASSUME IInv, [Next]_vars, NEW t \in Ticket \ Entangled, Belongs(t)
                 PROVE  Belongs(t)'
      OBVIOUS
    <2>0. tickets[t] # NoTicket => tickets[t] \in TicketRow /\ tickets[t].id \in Id
      BY DEF IInv, Typed, TicketRow
    <2>1. CASE UNCHANGED <<rows, tickets>>
      BY <2>1 DEF Belongs
    <2>2. CASE Renumber
      BY <2>2, RenumberBelongs
    <2>3. CASE DropOrphans("comet") \/ DropOrphans("auth")
      BY <2>3 DEF DropOrphans, Without, Belongs
    <2>4. ASSUME NEW p \in Person, Register(p) PROVE Belongs(t)'
      <3>1. /\ tickets' = tickets /\ rows' = [rows EXCEPT ![seq + 1] = p]
            /\ phase = "serving" /\ seq \in Nat
        <4>1. NextId = seq + 1 /\ seq \in Nat
          BY NextIdIsFresh DEF IInv, Typed
        <4> QED BY <2>4, <4>1 DEF Register
      <3>2. tickets[t] # NoTicket => tickets[t].id # seq + 1
        BY <2>0, <3>1 DEF IInv, TicketsOK, Id
      <3> QED BY <2>0, <3>1, <3>2 DEF Belongs, IInv, Typed
    <2>5. ASSUME NEW i \in Id, NEW u \in Ticket, Login(i, u) PROVE Belongs(t)'
      BY <2>5 DEF Belongs, Login, IInv, Typed
    <2>6. ASSUME NEW u \in Ticket, CreateCometSession(u) PROVE Belongs(t)'
      BY <2>6 DEF Belongs, CreateCometSession, IInv, Typed, CometOK
    <2>7. ASSUME NEW i \in Id, HardDeleteUser(i) PROVE Belongs(t)'
      BY <2>0, <2>7 DEF Belongs, HardDeleteUser, IInv, Typed
    <2> QED BY <2>1, <2>2, <2>3, <2>4, <2>5, <2>6, <2>7
            DEF Next, vars, Start, KeepNumbers, BeginComet, Stop
  <1> QED BY <1>1, Invariance, PTL DEF Spec, TicketsFollow

\* Every statement of Open leaves every device that is not entangled with its
\* account.
THEOREM DevicesKept == Spec => OpenKeepsTickets
  <1> DEFINE Kept ==
        phase # "serving" => \A t \in Ticket \ Entangled :
          tickets[t] # NoTicket /\ rows[tickets[t].id] # Nobody =>
              /\ tickets'[t] # NoTicket
              /\ rows'[tickets'[t].id] = rows[tickets[t].id]
  <1>1. IInv /\ [Next]_vars => Kept
    <2> SUFFICES ASSUME IInv, [Next]_vars, phase # "serving", NEW t \in Ticket \ Entangled,
                        tickets[t] # NoTicket, rows[tickets[t].id] # Nobody
                 PROVE  tickets'[t] # NoTicket /\ rows'[tickets'[t].id] = rows[tickets[t].id]
      OBVIOUS
    <2>1. CASE Renumber
      <3>1. tickets[t] \in TicketRow /\ tickets[t].id \in Used
        BY DEF IInv, Typed, TicketRow, Used
      <3>2. tickets'[t] = [tickets[t] EXCEPT !.id = NewId(tickets[t].id)]
            /\ rows'[NewId(tickets[t].id)] = rows[tickets[t].id] /\ NewId(tickets[t].id) \in Id
        BY <2>1, <3>1, RenumberFacts
      <3>3. tickets'[t] \in TicketRow /\ tickets'[t].id = NewId(tickets[t].id)
        BY <3>1, <3>2 DEF TicketRow
      <3>4. tickets'[t] \in [kind : {"auth", "comet"}, id : Int, owner : Person]
        BY <3>3 DEF TicketRow, Id
      <3> QED BY <3>2, <3>3, <3>4
    <2>2. CASE DropOrphans("comet") \/ DropOrphans("auth")
      BY <2>2 DEF DropOrphans, Without
    <2>3. CASE UNCHANGED <<rows, tickets>>
      BY <2>3
    <2>4. comet = NoId
      BY DEF IInv, CometOK
    <2> QED BY <2>1, <2>2, <2>3, <2>4 DEF Next, vars, Start, KeepNumbers, Register, BeginComet,
               HardDeleteUser, Login, CreateCometSession, Stop
  <1> QED BY <1>1, Invariance, PTL DEF Spec, OpenKeepsTickets
=============================================================================
