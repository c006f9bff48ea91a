---------------------------- MODULE CallContract ----------------------------
(***************************************************************************)
(* What the user centre's pages may expect of one call of the passport     *)
(* client, with no network, secure tokens or risk challenges: the server   *)
(* carries the operation out at most once, the call succeeds only if it    *)
(* did, and it fails or succeeds once.  A call that failed may have been   *)
(* carried out all the same.                                               *)
(***************************************************************************)
EXTENDS Naturals

CONSTANT Caller

VARIABLES phase, count

cvars == <<phase, count>>

CInit ==
    /\ phase = [h \in Caller |-> "idle"]
    /\ count = [h \in Caller |-> 0]

\* A first call, or the next one of a handler whose last call has ended.
Begin(h) ==
    /\ phase[h] # "pending"
    /\ phase' = [phase EXCEPT ![h] = "pending"]
    /\ count' = [count EXCEPT ![h] = 0]

CarryOut(h) ==
    /\ phase[h] = "pending" /\ count[h] = 0
    /\ count' = [count EXCEPT ![h] = 1]
    /\ UNCHANGED phase

Succeed(h) ==
    /\ phase[h] = "pending" /\ count[h] = 1
    /\ phase' = [phase EXCEPT ![h] = "resolved"]
    /\ UNCHANGED count

Fail(S) ==
    /\ S # {} /\ \A h \in S : phase[h] = "pending"
    /\ phase' = [h \in Caller |-> IF h \in S THEN "rejected" ELSE phase[h]]
    /\ UNCHANGED count

\* The caller goes on, or the document that held the callers is gone.
Forget(S) ==
    /\ S # {}
    /\ phase' = [h \in Caller |-> IF h \in S THEN "idle" ELSE phase[h]]
    /\ count' = [h \in Caller |-> IF h \in S THEN 0 ELSE count[h]]

CNext ==
    \/ \E h \in Caller : Begin(h) \/ CarryOut(h) \/ Succeed(h)
    \/ \E S \in SUBSET Caller : Fail(S) \/ Forget(S)

Contract == CInit /\ [][CNext]_cvars
=============================================================================
