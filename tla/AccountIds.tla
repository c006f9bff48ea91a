----------------------------- MODULE AccountIds -----------------------------
(***************************************************************************)
(* The account number, which is also the OpenID and NID the game knows:    *)
(* migrateUnifiedUserIDs and its helpers (internal/store/store.go), run by *)
(* every Open, and the operations that use up numbers.                     *)
(*                                                                         *)
(* Older databases had columns of their own for OpenID and NID and other   *)
(* numbers, below firstUserID, from it on or both; Open renumbers those    *)
(* once and for all.  A process that is opening serves no request.  SQLite *)
(* only: initBindings refuses to open a MySQL database.                    *)
(***************************************************************************)
EXTENDS Integers, FiniteSets

CONSTANTS
    Person,    \* owners of accounts; each registers at most once
    Ticket,    \* rows of auth_sessions and of comet_sessions
    First,     \* firstUserID
    MaxId,     \* bound of the numbers, given out or found, for TLC only
    Nobody,    \* an account number without a row
    NoTicket,  \* an unused ticket
    NoId       \* a person without an account, an idle request

ASSUME NumberAssumption ==
    /\ First \in Nat /\ First > 1
    /\ MaxId \in Nat /\ MaxId >= First
ASSUME NoneAssumption ==
    /\ Nobody \notin Person
    /\ NoId \notin Int
    /\ NoTicket \notin [kind : {"auth", "comet"}, id : Int, owner : Person]

VARIABLES
    phase,    \* "down", the next statement of Open, or "serving"
    columns,  \* users still has the columns openid or nid
    rows,     \* the users table: whose account a number is
    seq,      \* sqlite_sequence: the last number given out
    tickets,  \* auth_sessions and comet_sessions
    comet,    \* a cometAcquire request between its lookup and its insert
    known     \* history: the number each person was told while serving

vars == <<phase, columns, rows, seq, tickets, comet, known>>

Id == 1..MaxId
TicketRow == [kind : {"auth", "comet"}, id : Id, owner : Person]
Used == { i \in Id : rows[i] # Nobody }
Top == CHOOSE i \in Used \cup {0} : \A j \in Used : j <= i
NumberOf(p) == IF \E i \in Id : rows[i] = p
               THEN CHOOSE i \in Id : rows[i] = p ELSE NoId

Max2(a, b) == IF a > b THEN a ELSE b

(* A reference to an account of its owner, or to one deleted for good.     *)
Belongs(t) ==
    tickets[t] # NoTicket => rows[tickets[t].id] \in {tickets[t].owner, Nobody}

(* A database of any release, or none: accounts under any numbers, with    *)
(* or without the old columns, and tickets of accounts that exist or were  *)
(* deleted.  MaxId leaves room for renumbering all of them.                *)
Init ==
    /\ phase = "down"
    /\ columns \in BOOLEAN
    /\ rows \in [Id -> Person \cup {Nobody}]
    /\ \A i, j \in Used : rows[i] = rows[j] => i = j
    /\ First - 1 + Cardinality(Used) <= MaxId
    /\ seq \in {Top, Max2(Top, First - 1)}
    /\ tickets \in [Ticket -> TicketRow \cup {NoTicket}]
    /\ \A t \in Ticket : Belongs(t)
    /\ comet = NoId
    /\ known = [p \in Person |-> NoId]

-----------------------------------------------------------------------------
(* Open *)

Start ==
    /\ phase = "down"
    /\ phase' = "number"
    /\ UNCHANGED <<columns, rows, seq, tickets, comet, known>>

\* mutant: numbers count as unified only when they have no gap
Gapless == ~columns /\ \A i \in Id : rows[i] # Nobody =>
              i >= First /\ \A j \in First..i : rows[j] # Nobody

\* mutant: the absence of the old columns is taken for unified numbers
ColumnsOnly == ~columns

(* Numbers are unified once the old columns are gone and none is below     *)
(* firstUserID; a gap left by a deletion does not matter.                  *)
Unified == ~columns /\ \A i \in Used : i >= First

\* mutant: the sequence is set back whether or not accounts are left
KeepNumbersReset ==
    /\ phase = "number" /\ Unified
    /\ seq' = First - 1
    /\ phase' = "comet"
    /\ UNCHANGED <<columns, rows, tickets, comet, known>>

(* Nothing to renumber; the sequence is set back when the table is empty.  *)
KeepNumbers ==
    /\ phase = "number" /\ Unified
    /\ seq' = IF Used = {} THEN First - 1 ELSE seq
    /\ phase' = "comet"
    /\ UNCHANGED <<columns, rows, tickets, comet, known>>

(* newID: accounts in the order of their numbers, from firstUserID up.     *)
NewId(i) == First + Cardinality({ j \in Used : j < i })

(* The updates of account i, over references as the turns before left them. *)
MoveOne(was, i) ==
    [t \in Ticket |->
        IF i \in Used /\ was[t] # NoTicket /\ was[t].id = i
        THEN [was[t] EXCEPT !.id = NewId(i)]
        ELSE was[t]]

\* mutant: the accounts are taken in descending order
MovedDown ==
    LET after[i \in 0..MaxId] ==
          IF i = 0 THEN tickets ELSE MoveOne(after[i - 1], MaxId + 1 - i)
    IN after[MaxId]

(* The references follow account by account, in ascending order.           *)
Moved ==
    LET after[i \in 0..MaxId] ==
          IF i = 0 THEN tickets ELSE MoveOne(after[i - 1], i)
    IN after[MaxId]

(* rebuildSQLiteUsers, one transaction that also drops the old columns.    *)
(* The branch between the two, without columns and nothing to renumber, is *)
(* never taken: a number below firstUserID always differs from its newID.  *)
Renumber ==
    /\ phase = "number" /\ ~Unified
    /\ rows' = [k \in Id |-> IF \E i \in Used : NewId(i) = k
                             THEN rows[CHOOSE i \in Used : NewId(i) = k]
                             ELSE Nobody]
    /\ tickets' = Moved
    /\ seq' = First - 1 + Cardinality(Used)
    /\ columns' = FALSE
    /\ phase' = "comet"
    /\ UNCHANGED <<comet, known>>

\* mutant: rows without an account are left in place
Orphaned(kind) == tickets

Without(kind) ==
    [t \in Ticket |->
        IF tickets[t] # NoTicket /\ tickets[t].kind = kind /\ rows[tickets[t].id] = Nobody
        THEN NoTicket ELSE tickets[t]]

(* deleteOrphanCometSessions, two statements; then the server starts.      *)
DropOrphans(kind) ==
    /\ phase = kind
    /\ tickets' = Without(kind)
    /\ IF kind = "comet"
       THEN phase' = "auth" /\ UNCHANGED known
       ELSE phase' = "serving" /\ known' = [p \in Person |->
                IF NumberOf(p) = NoId THEN known[p] ELSE NumberOf(p)]
    /\ UNCHANGED <<columns, rows, seq, comet>>

-----------------------------------------------------------------------------
(* Serving *)

NextId == Max2(seq, Top) + 1

Register(p) ==
    /\ phase = "serving"
    /\ known[p] = NoId
    /\ NextId <= MaxId
    /\ rows' = [rows EXCEPT ![NextId] = p]
    /\ seq' = NextId
    /\ known' = [known EXCEPT ![p] = NextId]
    /\ UNCHANGED <<phase, columns, tickets, comet>>

(* issueAuthSession: one transaction that requires the account.            *)
Login(i, t) ==
    /\ phase = "serving"
    /\ rows[i] # Nobody /\ tickets[t] = NoTicket
    /\ tickets' = [tickets EXCEPT ![t] = [kind |-> "auth", id |-> i, owner |-> rows[i]]]
    /\ UNCHANGED <<phase, columns, rows, seq, comet, known>>

(* cometAcquire: the account is looked up, the row inserted later.         *)
BeginComet(i) ==
    /\ phase = "serving" /\ comet = NoId
    /\ rows[i] # Nobody
    /\ comet' = [id |-> i, owner |-> rows[i]]
    /\ UNCHANGED <<phase, columns, rows, seq, tickets, known>>

CreateCometSession(t) ==
    /\ comet # NoId /\ tickets[t] = NoTicket
    /\ tickets' = [tickets EXCEPT ![t] =
                      [kind |-> "comet", id |-> comet.id, owner |-> comet.owner]]
    /\ comet' = NoId
    /\ UNCHANGED <<phase, columns, rows, seq, known>>

(* One transaction over the three tables.                                  *)
HardDeleteUser(i) ==
    /\ phase = "serving" /\ rows[i] # Nobody
    /\ rows' = [rows EXCEPT ![i] = Nobody]
    /\ tickets' = [t \in Ticket |->
          IF tickets[t] # NoTicket /\ tickets[t].id = i THEN NoTicket ELSE tickets[t]]
    /\ UNCHANGED <<phase, columns, seq, comet, known>>

(* The process stops, at any point of Open too.                            *)
Stop ==
    /\ phase # "down"
    /\ phase' = "down" /\ comet' = NoId
    /\ UNCHANGED <<columns, rows, seq, tickets, known>>

Next ==
    \/ Start
    \/ KeepNumbers
    \/ Renumber
    \/ DropOrphans("comet")
    \/ DropOrphans("auth")
    \/ \E p \in Person : Register(p)
    \/ \E i \in Id : BeginComet(i) \/ HardDeleteUser(i) \/ \E t \in Ticket : Login(i, t)
    \/ \E t \in Ticket : CreateCometSession(t)
    \/ Stop

Spec == Init /\ [][Next]_vars

-----------------------------------------------------------------------------
(* Every variable keeps to its set of values, and the next number is free. *)
TypeOK ==
    /\ phase \in {"down", "number", "comet", "auth", "serving"}
    /\ columns \in BOOLEAN
    /\ rows \in [Id -> Person \cup {Nobody}]
    /\ seq \in 0..MaxId
    /\ tickets \in [Ticket -> TicketRow \cup {NoTicket}]
    /\ comet \in [id : Id, owner : Person] \cup {NoId}
    /\ known \in [Person -> Id \cup {NoId}]
    /\ phase = "serving" => \A i \in Used : i <= seq

(* store.go:403: unified numbers are permanent.  Once a person was told a  *)
(* number, the account has that number after every restart and upgrade,    *)
(* whatever accounts were deleted around it.                               *)
IdsPermanent ==
    \A p \in Person : known[p] # NoId => NumberOf(p) \in {known[p], NoId}

(* README.md:201: every account that is served has a number from           *)
(* firstUserID on, and no two accounts have the same owner.                *)
UnifiedWhileServing ==
    phase = "serving" =>
        /\ ~columns
        /\ \A i \in Used : i >= First /\ \A j \in Used : rows[i] = rows[j] => i = j

(* What the renumbering of an old database cannot keep apart, as its       *)
(* updates go by number alone: a reference whose account is given the old  *)
(* number of a later account, with which it is moved on; and a reference   *)
(* left by a deleted account, whose number another account is given.       *)
Entangled ==
    { t \in Ticket :
        /\ ~Unified /\ tickets[t] # NoTicket
        /\ LET i == tickets[t].id IN
             \/ i \in Used /\ NewId(i) \in Used /\ i < NewId(i)
             \/ i \notin Used /\ \E j \in Used : NewId(j) = i }

(* No log-in and no long connection ever comes to belong to the account of *)
(* another person: not by a row inserted after its account was deleted,    *)
(* not by a number given out twice, and not by renumbering, for all        *)
(* references but the entangled ones of an old database.                   *)
TicketsFollow ==
    [][\A t \in Ticket \ Entangled : Belongs(t) => Belongs(t)']_vars

(* An Open keeps the devices of every account it finds: each statement of  *)
(* the upgrade leaves them with their account, under whatever number,      *)
(* although an account may be given a number that was an earlier one's     *)
(* until then.  Only what is entangled with a later account is excepted.   *)
OpenKeepsTickets ==
    [][phase # "serving" => \A t \in Ticket \ Entangled :
          tickets[t] # NoTicket /\ rows[tickets[t].id] # Nobody =>
              /\ tickets'[t] # NoTicket
              /\ rows'[tickets'[t].id] = rows[tickets[t].id]]_vars

(* store.go:403, read strictly: a number never comes to mean another       *)
(* person's account.                                                       *)
IdNeverReused ==
    \A p, q \in Person : known[p] # NoId /\ known[p] = known[q] => p = q
=============================================================================
