------------------------- MODULE UserCenter_proofs -------------------------
(***************************************************************************)
(* What the passport client promises, for any number of handlers, any      *)
(* operations and any number of challenged, refused and lost answers; that *)
(* the wizard on top of it says only what is true; and that the appeal     *)
(* page draws a symbol that spells its address, whatever the address, and  *)
(* no larger than the plain way of writing it.                             *)
(***************************************************************************)
EXTENDS UserCenter, AppealQr, FiniteSetTheorems, SequenceTheorems, WellFoundedInduction, TLAPS

-----------------------------------------------------------------------------
(* The client *)

\* How far a call is tells what the server did for it and what it still asks.
CallOK(c, o, n) ==
    /\ c.pc = "idle" => c = NoCall
    /\ c.pc \in {"acquire", "sent"} => o = {}
    /\ c.pc \in Waiting \ {"answered"} => n = 0
    /\ c.pc = "answered" =>
           /\ c.answer \in Answer
           /\ n = IF c.answer \in {"ok", "lost"} THEN 1 ELSE 0
           /\ o = {c.answer} \cap {Captcha, Phone}
    /\ c.pc = "resolved" => n = 1

CallsOK == \A h \in Caller : CallOK(call[h], owed[h], count[h])

ClientInv == ClientTypeOK /\ CallsOK

LEMMA InitClientInv == ClientInit => ClientInv
  BY DEF ClientInit, ClientInv, ClientTypeOK, CallsOK, CallOK, NoCall, Call, Waiting, Settled,
         Rounds, Answer, RiskCode

\* A call that moves on to any state but an answer keeps its type.
LEMMA MovedToType ==
    ASSUME NEW c \in Call, NEW pc \in Waiting \cup Settled, NEW n \in {0, 1},
           c.round + n <= Rounds
    PROVE  /\ MovedTo(c, pc, n) \in Call
           /\ MovedTo(c, pc, n).pc = pc
           /\ MovedTo(c, pc, n).op = c.op
           /\ MovedTo(c, pc, n).answer = "none"
  <1>1. c.round \in 0 .. 3 /\ c.round + n \in 0 .. 3
    BY DEF Call, Rounds
  <1>2. (IF pc \in Settled THEN 0 ELSE c.round + n) \in 0 .. 3
    BY <1>1
  <1>3. QED BY <1>2 DEF MovedTo, Call, Rounds

\* Every action of one call but a first request: it moves call h only.
LEMMA MoveClientInv ==
    ASSUME ClientInv, NEW h \in Caller, NEW pc \in Waiting \cup Settled, NEW n \in {0, 1},
           call[h].round + n <= Rounds,
           call' = [call EXCEPT ![h] = MovedTo(@, pc, n)],
           UNCHANGED count,
           owed' = owed \/ owed' = [owed EXCEPT ![h] = {}],
           token' \in {"none", "held"}, script' \in {"none", "loading", "loaded", "failed"},
           trouble' \in Nat,
           pc # "answered",
           pc \in {"acquire", "sent"} => owed'[h] = {},
           pc \in Waiting => count[h] = 0,
           pc = "resolved" => count[h] = 1
    PROVE  ClientInv'
  <1>1. /\ MovedTo(call[h], pc, n) \in Call
        /\ MovedTo(call[h], pc, n).pc = pc
    BY MovedToType DEF ClientInv, ClientTypeOK
  <1>2. ClientTypeOK'
    BY <1>1 DEF ClientInv, ClientTypeOK
  <1>3. ASSUME NEW g \in Caller PROVE CallOK(call'[g], owed'[g], count'[g])
    <2>1. CASE g = h
      BY <1>1, <2>1 DEF CallOK, ClientInv, ClientTypeOK, Waiting, Settled
    <2>2. CASE g # h
      <3>1. call'[g] = call[g] /\ owed'[g] = owed[g] /\ count'[g] = count[g]
        BY <2>2 DEF ClientInv, ClientTypeOK
      <3>2. QED BY <3>1 DEF ClientInv, CallsOK
    <2>3. QED BY <2>1, <2>2
  <1>4. QED BY <1>2, <1>3 DEF ClientInv, CallsOK

\* What the counts of a call that is still waiting are.
LEMMA WaitingCall ==
    ASSUME ClientInv, NEW h \in Caller
    PROVE  /\ call[h] \in Call /\ call[h].round \in 0 .. Rounds
           /\ call[h].op \in Operation \cup {"none"}
           /\ CallOK(call[h], owed[h], count[h])
           /\ owed[h] \in SUBSET {Captcha, Phone} /\ count[h] \in Nat
  BY DEF ClientInv, ClientTypeOK, CallsOK, Call

LEMMA StartClientInv ==
    ASSUME ClientInv, NEW h \in Caller, NEW op \in Operation, Start(h, op)
    PROVE  ClientInv'
  <1> DEFINE c == [NoCall EXCEPT !.op = op, !.pc = FirstPc(op)]
  <1>1. c \in Call /\ c.pc \in {"acquire", "sent"}
    <2>1. FirstPc(op) \in {"acquire", "sent"}
      BY DEF FirstPc
    <2>2. NoCall \in Call
      BY DEF NoCall, Call, Rounds
    <2>3. c \in Call
      BY <2>1, <2>2 DEF Call, Waiting
    <2>4. c.pc = FirstPc(op)
      BY <2>2 DEF Call
    <2>5. QED BY <2>1, <2>3, <2>4
  <1>2. /\ call' = [call EXCEPT ![h] = c]
        /\ owed' = [g \in Caller |-> IF g = h THEN {} ELSE owed[g]]
        /\ count' = [g \in Caller |-> IF g = h THEN 0 ELSE count[g]]
        /\ UNCHANGED <<token, script, trouble>>
    BY DEF Start, ForgetCalls
  <1> HIDE DEF c
  <1>3. ClientTypeOK'
    BY <1>1, <1>2 DEF ClientInv, ClientTypeOK
  <1>4. ASSUME NEW g \in Caller PROVE CallOK(call'[g], owed'[g], count'[g])
    <2>1. CASE g = h
      <3>1. call'[g] = c /\ owed'[g] = {} /\ count'[g] = 0
        BY <1>2, <2>1 DEF ClientInv, ClientTypeOK
      <3>2. QED BY <3>1, <1>1 DEF CallOK
    <2>2. CASE g # h
      <3>1. call'[g] = call[g] /\ owed'[g] = owed[g] /\ count'[g] = count[g]
        BY <1>2, <2>2 DEF ClientInv, ClientTypeOK
      <3>2. QED BY <3>1 DEF ClientInv, CallsOK
    <2>3. QED BY <2>1, <2>2
  <1>5. QED BY <1>3, <1>4 DEF ClientInv, CallsOK

LEMMA ServeClientInv ==
    ASSUME ClientInv, NEW h \in Caller, NEW a \in Answer, NEW free \in BOOLEAN,
           Serve(h, a, free)
    PROVE  ClientInv'
  <1> DEFINE c == [call[h] EXCEPT !.pc = "answered", !.answer = a]
  <1>1. /\ call[h].pc = "sent" /\ owed[h] = {} /\ count[h] = 0
    BY WaitingCall DEF Serve, CallOK, Waiting
  <1>2. c \in Call /\ c.pc = "answered" /\ c.answer = a
    BY WaitingCall DEF Call, Waiting
  <1>3. /\ call' = [call EXCEPT ![h] = c]
        /\ count' = [count EXCEPT ![h] = IF a \in {"ok", "lost"} THEN 1 ELSE 0]
        /\ owed' = [owed EXCEPT ![h] = {a} \cap {Captcha, Phone}]
        /\ UNCHANGED <<token, script>>
        /\ trouble' \in Nat
    <2>1. call' = [call EXCEPT ![h] = c]
      BY DEF Serve, ClientInv, ClientTypeOK
    <2>2. count' = [count EXCEPT ![h] = IF a \in {"ok", "lost"} THEN 1 ELSE 0]
      <3>1. CASE a \in {"ok", "lost"}
        BY <1>1, <3>1 DEF Serve, ClientInv, ClientTypeOK
      <3>2. CASE a \notin {"ok", "lost"}
        <4>1. count' = count
          BY <3>2 DEF Serve
        <4>2. count = [count EXCEPT ![h] = count[h]]
          BY DEF ClientInv, ClientTypeOK
        <4>3. QED BY <1>1, <3>2, <4>1, <4>2
      <3>3. QED BY <3>1, <3>2
    <2>3. owed' = [owed EXCEPT ![h] = {a} \cap {Captcha, Phone}]
      <3>1. CASE a \in {Captcha, Phone}
        <4>1. owed[h] \cup {a} = {a} \cap {Captcha, Phone}
          BY <1>1, <3>1
        <4>2. owed' = [owed EXCEPT ![h] = owed[h] \cup {a}]
          BY <3>1 DEF Serve, ClientInv, ClientTypeOK
        <4>3. QED BY <4>1, <4>2
      <3>2. CASE a \notin {Captcha, Phone}
        <4>1. owed[h] = {a} \cap {Captcha, Phone}
          BY <1>1, <3>2
        <4>2. owed' = owed
          BY <3>2 DEF Serve
        <4>3. owed = [owed EXCEPT ![h] = owed[h]]
          BY DEF ClientInv, ClientTypeOK
        <4>4. QED BY <4>1, <4>2, <4>3
      <3>3. QED BY <3>1, <3>2
    <2>4. UNCHANGED <<token, script>> /\ trouble' \in Nat
      BY TroubleAssumption DEF Serve, Spend, ClientInv, ClientTypeOK
    <2>5. QED BY <2>1, <2>2, <2>3, <2>4
  <1> HIDE DEF c
  <1>4. ClientTypeOK'
    BY <1>2, <1>3 DEF ClientInv, ClientTypeOK
  <1>5. ASSUME NEW g \in Caller PROVE CallOK(call'[g], owed'[g], count'[g])
    <2>1. CASE g = h
      <3>1. /\ call'[g] = c /\ owed'[g] = {a} \cap {Captcha, Phone}
            /\ count'[g] = IF a \in {"ok", "lost"} THEN 1 ELSE 0
        BY <1>3, <2>1 DEF ClientInv, ClientTypeOK
      <3>2. QED BY <3>1, <1>2 DEF CallOK, Waiting
    <2>2. CASE g # h
      <3>1. call'[g] = call[g] /\ owed'[g] = owed[g] /\ count'[g] = count[g]
        BY <1>3, <2>2 DEF ClientInv, ClientTypeOK
      <3>2. QED BY <3>1 DEF ClientInv, CallsOK
    <2>3. QED BY <2>1, <2>2
  <1>6. QED BY <1>4, <1>5 DEF ClientInv, CallsOK

\* The ends: some calls are forgotten together.
LEMMA ForgetClientInv ==
    ASSUME ClientInv, NEW S \in SUBSET Caller,
           call' = [h \in Caller |-> IF h \in S THEN NoCall ELSE call[h]],
           ForgetCalls(S),
           token' \in {"none", "held"}, script' \in {"none", "loading", "loaded", "failed"},
           trouble' = trouble
    PROVE  ClientInv'
  <1>1. NoCall \in Call /\ NoCall.pc = "idle"
    BY DEF NoCall, Call, Rounds
  <1>2. ClientTypeOK'
    BY <1>1 DEF ClientInv, ClientTypeOK, ForgetCalls
  <1>3. ASSUME NEW g \in Caller PROVE CallOK(call'[g], owed'[g], count'[g])
    <2>1. CASE g \in S
      <3>1. call'[g] = NoCall
        BY <2>1
      <3>2. QED BY <1>1, <3>1 DEF CallOK, Waiting
    <2>2. CASE g \notin S
      <3>1. call'[g] = call[g] /\ owed'[g] = owed[g] /\ count'[g] = count[g]
        BY <2>2 DEF ForgetCalls
      <3>2. QED BY <3>1 DEF ClientInv, CallsOK
    <2>3. QED BY <2>1, <2>2
  <1>4. QED BY <1>2, <1>3 DEF ClientInv, CallsOK

\* A script that arrives moves every call that waits for it.
LEMMA ScriptClientInv ==
    ASSUME ClientInv, NEW ok \in BOOLEAN, ScriptArrives(ok)
    PROVE  ClientInv'
  <1>1. ASSUME NEW g \in Caller, call[g].pc = "script"
        PROVE  /\ MovedTo(call[g], Woken(ok), 0) \in Call
               /\ MovedTo(call[g], Woken(ok), 0).pc \in {"captcha", "rejected"}
    <2>1. Woken(ok) \in Waiting \cup Settled /\ Woken(ok) \in {"captcha", "rejected"}
      BY DEF Woken, Waiting, Settled
    <2>2. call[g].round + 0 <= Rounds
      BY WaitingCall DEF Rounds
    <2>3. QED BY <2>1, <2>2, MovedToType, WaitingCall
  <1>2. ClientTypeOK'
    BY <1>1 DEF ScriptArrives, ClientInv, ClientTypeOK
  <1>3. ASSUME NEW g \in Caller PROVE CallOK(call'[g], owed'[g], count'[g])
    <2>1. CASE call[g].pc = "script"
      <3>1. count[g] = 0
        BY <2>1, WaitingCall DEF CallOK, Waiting
      <3>2. call'[g].pc \in {"captcha", "rejected"} /\ count'[g] = count[g]
        BY <1>1, <2>1 DEF ScriptArrives
      <3>3. QED BY <3>1, <3>2 DEF CallOK
    <2>2. CASE call[g].pc # "script"
      <3>1. call'[g] = call[g] /\ owed'[g] = owed[g] /\ count'[g] = count[g]
        BY <2>2 DEF ScriptArrives
      <3>2. QED BY <3>1 DEF ClientInv, CallsOK
    <2>3. QED BY <2>1, <2>2
  <1>4. QED BY <1>2, <1>3 DEF ClientInv, CallsOK

\* A call that ends with nothing else changed.
LEMMA EndClientInv ==
    ASSUME ClientInv, NEW h \in Caller, NEW pc \in Settled, Move(h, pc),
           UNCHANGED <<token, script, trouble, owed, count>>,
           pc = "resolved" => count[h] = 1
    PROVE  ClientInv'
  <1>1. /\ pc \in Waiting \cup Settled /\ pc \notin {"answered", "acquire", "sent"}
        /\ pc \notin Waiting
    BY DEF Waiting, Settled
  <1>2. call[h].round + 0 <= Rounds /\ 0 \in {0, 1}
    BY WaitingCall DEF Rounds
  <1>3. /\ token' \in {"none", "held"} /\ script' \in {"none", "loading", "loaded", "failed"}
        /\ trouble' \in Nat /\ count' = count /\ owed' = owed
    BY DEF ClientInv, ClientTypeOK
  <1>4. call' = [call EXCEPT ![h] = MovedTo(@, pc, 0)]
    BY DEF Move
  <1>5. QED BY <1>1, <1>2, <1>3, <1>4, MoveClientInv

LEMMA ProceedClientInv ==
    ASSUME ClientInv, NEW h \in Caller, Proceed(h)
    PROVE  ClientInv'
  <1> USE DEF Move, Waiting, Settled
  <1>1. /\ call[h] \in Call /\ call[h].round \in 0 .. Rounds
        /\ CallOK(call[h], owed[h], count[h])
        /\ token \in {"none", "held"} /\ trouble \in Nat
        /\ script \in {"none", "loading", "loaded", "failed"}
        /\ call[h].round + 0 <= Rounds
    BY WaitingCall DEF ClientInv, ClientTypeOK, Rounds
  <1>2. ASSUME NEW got \in {"token", "nothing", "failed"}, Acquire(h, got) PROVE ClientInv'
    <2>1. (IF got = "failed" THEN "rejected" ELSE "sent") \in {"rejected", "sent"}
      OBVIOUS
    <2>2. trouble' \in Nat
      BY <1>1, <1>2 DEF Acquire, Spend
    <2>3. owed[h] = {} /\ count[h] = 0
      BY <1>1, <1>2 DEF Acquire, CallOK
    <2>4. QED BY <1>1, <1>2, <2>1, <2>2, <2>3, MoveClientInv DEF Acquire
  <1>3. CASE Resolve(h)
    <2>1. count[h] = 1
      BY <1>1, <1>3 DEF Resolve, CallOK, Succeeds
    <2>2. QED BY <1>3, <2>1, EndClientInv DEF Resolve
  <1>4. CASE Reject(h)
    BY <1>4, EndClientInv DEF Reject
  <1>5. CASE Challenge(h)
    <2> DEFINE a == call[h].answer
    <2>1. a \in RiskCode /\ call[h].round < Rounds /\ call[h].round + 1 <= Rounds
      BY <1>1, <1>5 DEF Challenge, Repeats, Rounds
    <2>2. count[h] = 0 /\ owed[h] = {a} \cap {Captcha, Phone}
      BY <1>1, <1>5, <2>1 DEF Challenge, CallOK, RiskCode, Captcha, Phone, Notice, StaleToken
    <2>3. NextPc(a) \in {"phone", "notice", "captcha", "rejected", "script", "acquire"}
      BY <2>1 DEF NextPc, RiskCode
    <2>4. NextPc(a) = "acquire" => owed[h] = {}
      BY <2>1, <2>2 DEF NextPc, RiskCode, Captcha, Phone, Notice, StaleToken
    <2>5. /\ call' = [call EXCEPT ![h] = MovedTo(@, NextPc(a), 1)]
          /\ UNCHANGED <<token, trouble, owed, count>>
          /\ script' \in {"none", "loading", "loaded", "failed"}
      BY <1>1, <1>5 DEF Challenge
    <2> HIDE DEF a
    <2>6. QED BY <1>1, <2>1, <2>2, <2>3, <2>4, <2>5, MoveClientInv
  <1>6. CASE ImportFails(h)
    BY <1>6, EndClientInv DEF ImportFails
  <1>7. ASSUME NEW ok \in BOOLEAN, Check(h, ok) PROVE ClientInv'
    <2> DEFINE pc == IF ok THEN "sent" ELSE call[h].pc
    <2>1. pc \in {"sent", "captcha", "phone"} /\ count[h] = 0
      BY <1>1, <1>7 DEF Check, Dialog, CallOK
    <2>2. trouble' \in Nat
      BY <1>1, <1>7 DEF Check, Spend
    <2>3. /\ call' = [call EXCEPT ![h] = MovedTo(@, pc, 0)]
          /\ UNCHANGED <<token, script, count>>
          /\ owed' = owed \/ owed' = [owed EXCEPT ![h] = {}]
          /\ ok => owed' = [owed EXCEPT ![h] = {}]
          /\ ~ok => pc \in {"captcha", "phone"}
      BY <1>7 DEF Check, Dialog
    <2>4. pc = "sent" => owed'[h] = {}
      BY <2>3 DEF ClientInv, ClientTypeOK
    <2>5. pc # "acquire" /\ pc # "answered" /\ pc # "resolved"
      BY <2>1
    <2> HIDE DEF pc
    <2>6. QED BY <1>1, <2>1, <2>2, <2>3, <2>4, <2>5, MoveClientInv
  <1>8. CASE Close(h)
    BY <1>8, EndClientInv DEF Close, AfterClose
  <1>9. QED BY <1>2, <1>3, <1>4, <1>5, <1>6, <1>7, <1>8 DEF Proceed

LEMMA NextClientInv == ClientInv /\ [ClientNext]_clientVars => ClientInv'
  <1> SUFFICES ASSUME ClientInv, [ClientNext]_clientVars PROVE ClientInv'
    OBVIOUS
  <1>1. ASSUME NEW h \in Caller, Proceed(h) PROVE ClientInv'
    BY <1>1, ProceedClientInv
  <1>2. ASSUME NEW h \in Caller, Return(h) PROVE ClientInv'
    <2>1. call' = [g \in Caller |-> IF g \in {h} THEN NoCall ELSE call[g]]
      BY <1>2 DEF Return, ClientInv, ClientTypeOK
    <2>2. QED BY <1>2, <2>1, ForgetClientInv DEF Return, ClientInv, ClientTypeOK
  <1>3. ASSUME NEW h \in Caller, NEW op \in Operation, Start(h, op) PROVE ClientInv'
    BY <1>3, StartClientInv
  <1>4. ASSUME NEW h \in Caller, NEW a \in Answer, NEW free \in BOOLEAN, Serve(h, a, free)
        PROVE  ClientInv'
    BY <1>4, ServeClientInv
  <1>5. ASSUME NEW ok \in BOOLEAN, ScriptArrives(ok) PROVE ClientInv'
    BY <1>5, ScriptClientInv
  <1>6. CASE TokenExpires
    BY <1>6 DEF TokenExpires, ClientInv, ClientTypeOK, CallsOK
  <1>7. CASE OtherTrouble
    BY <1>7, TroubleAssumption DEF OtherTrouble, Spend, ClientInv, ClientTypeOK, CallsOK
  <1>8. CASE Reload
    <2>1. call' = [g \in Caller |-> IF g \in Caller THEN NoCall ELSE call[g]]
      BY <1>8 DEF Reload
    <2>2. QED BY <1>8, <2>1, ForgetClientInv DEF Reload
  <1>9. CASE UNCHANGED clientVars
    BY <1>9 DEF clientVars, ClientInv, ClientTypeOK, CallsOK
  <1>10. QED
    BY <1>1, <1>2, <1>3, <1>4, <1>5, <1>6, <1>7, <1>8, <1>9 DEF ClientNext, Ambient

LEMMA ClientInvariant == ClientSpec => []ClientInv
  <1>1. QED BY InitClientInv, NextClientInv, PTL DEF ClientSpec

\* The client's state keeps its shape, and no call is answered more often than
\* its loop allows (`request` and `send` of the bundle).
THEOREM ClientTyped == ClientSpec => []ClientTypeOK
  <1>1. ClientInv => ClientTypeOK
    BY DEF ClientInv
  <1>2. QED BY <1>1, ClientInvariant, PTL

\* Whatever the server demands, a request goes out (again) only when the
\* captcha or the phone code it demanded was accepted.
THEOREM ChallengesHeeded == ClientSpec => []ChallengeHeeded
  <1>1. ClientInv => ChallengeHeeded
    BY DEF ClientInv, CallsOK, CallOK, ChallengeHeeded
  <1>2. QED BY <1>1, ClientInvariant, PTL

-----------------------------------------------------------------------------
(* The contract of a call *)

phases == [h \in Caller |-> Phase(call[h])]

LEMMA InitContract == ClientInit => Calls!CInit
  BY DEF ClientInit, Calls!CInit, Phase, NoCall, Waiting

\* A call that moves shows its caller the phase it moves to.
LEMMA MovePhase ==
    ASSUME ClientInv, NEW h \in Caller, NEW pc \in Waiting \cup Settled, NEW n \in {0, 1},
           call' = [call EXCEPT ![h] = MovedTo(@, pc, n)]
    PROVE  phases' = [phases EXCEPT ![h] = IF pc \in Waiting THEN "pending" ELSE pc]
  <1>1. \A c \in Call : MovedTo(c, pc, n).pc = pc
    BY DEF MovedTo, Call
  <1>2. ASSUME NEW g \in Caller
        PROVE  phases'[g] = IF g = h THEN (IF pc \in Waiting THEN "pending" ELSE pc) ELSE phases[g]
    BY <1>1 DEF phases, Phase, ClientInv, ClientTypeOK
  <1>3. QED BY <1>2 DEF phases

\* A call that is still waiting when it moves stutters or fails.
LEMMA MoveContract ==
    ASSUME ClientInv, NEW h \in Caller, NEW pc \in Waiting \cup {"rejected"}, NEW n \in {0, 1},
           call' = [call EXCEPT ![h] = MovedTo(@, pc, n)],
           call[h].pc \in Waiting, UNCHANGED count
    PROVE  [Calls!CNext]_(Calls!cvars)
  <1>1. phases[h] = "pending"
    BY DEF phases, Phase
  <1>2. phases' = [phases EXCEPT ![h] = IF pc \in Waiting THEN "pending" ELSE pc]
    BY MovePhase DEF Settled
  <1>3. CASE pc \in Waiting
    <2>1. phases' = phases
      BY <1>1, <1>2, <1>3 DEF phases
    <2>2. QED BY <2>1 DEF Calls!cvars, phases
  <1>4. CASE pc \notin Waiting
    <2>1. phases' = [g \in Caller |-> IF g \in {h} THEN "rejected" ELSE phases[g]]
      BY <1>2, <1>4 DEF phases
    <2>2. Calls!Fail({h})
      BY <1>1, <2>1 DEF Calls!Fail, phases
    <2>3. QED BY <2>2 DEF Calls!CNext
  <1>5. QED BY <1>3, <1>4

LEMMA ProceedContract ==
    ASSUME ClientInv, NEW h \in Caller, Proceed(h)
    PROVE  [Calls!CNext]_(Calls!cvars)
  <1>1. ASSUME NEW pc \in Waiting \cup {"rejected"}, NEW n \in {0, 1},
               call' = [call EXCEPT ![h] = MovedTo(@, pc, n)],
               call[h].pc \in Waiting, UNCHANGED count
        PROVE  [Calls!CNext]_(Calls!cvars)
    BY <1>1, MoveContract
  <1>2. ASSUME NEW got \in {"token", "nothing", "failed"}, Acquire(h, got)
        PROVE  [Calls!CNext]_(Calls!cvars)
    <2>1. (IF got = "failed" THEN "rejected" ELSE "sent") \in Waiting \cup {"rejected"}
      BY DEF Waiting
    <2>2. QED BY <1>1, <1>2, <2>1 DEF Acquire, Move, Waiting
  <1>3. CASE Resolve(h)
    <2>1. count[h] = 1
      BY <1>3, WaitingCall DEF Resolve, CallOK, Succeeds
    <2>2. phases' = [phases EXCEPT ![h] = "resolved"]
      BY <1>3, MovePhase DEF Resolve, Move, Waiting, Settled
    <2>3. phases[h] = "pending"
      BY <1>3 DEF Resolve, phases, Phase, Waiting
    <2>4. Calls!Succeed(h)
      BY <1>3, <2>1, <2>2, <2>3 DEF Calls!Succeed, Resolve, phases
    <2>5. QED BY <2>4 DEF Calls!CNext
  <1>4. CASE Reject(h)
    BY <1>1, <1>4 DEF Reject, Move, Waiting
  <1>5. CASE Challenge(h)
    <2>1. call[h].answer \in RiskCode
      BY <1>5 DEF Challenge, Repeats
    <2>2. NextPc(call[h].answer) \in Waiting \cup {"rejected"}
      BY <2>1 DEF NextPc, Waiting
    <2>3. QED BY <1>1, <1>5, <2>2 DEF Challenge, Waiting
  <1>6. CASE ImportFails(h)
    BY <1>1, <1>6 DEF ImportFails, Move, Waiting
  <1>7. ASSUME NEW ok \in BOOLEAN, Check(h, ok) PROVE [Calls!CNext]_(Calls!cvars)
    <2>1. (IF ok THEN "sent" ELSE call[h].pc) \in Waiting \cup {"rejected"}
      BY <1>7 DEF Check, Dialog, Waiting
    <2>2. QED BY <1>1, <1>7, <2>1 DEF Check, Dialog, Move, Waiting
  <1>8. CASE Close(h)
    BY <1>1, <1>8 DEF Close, Dialog, AfterClose, Move, Waiting
  <1>9. QED BY <1>2, <1>3, <1>4, <1>5, <1>6, <1>7, <1>8 DEF Proceed

\* One step for each action of the client.
LEMMA StepContract == ClientInv /\ [ClientNext]_clientVars => [Calls!CNext]_(Calls!cvars)
  <1> SUFFICES ASSUME ClientInv, [ClientNext]_clientVars PROVE [Calls!CNext]_(Calls!cvars)
    OBVIOUS
  <1>1. ASSUME NEW h \in Caller, Proceed(h) PROVE [Calls!CNext]_(Calls!cvars)
    BY <1>1, ProceedContract
  <1>2. ASSUME NEW S \in SUBSET Caller, S # {}, ForgetCalls(S),
               call' = [g \in Caller |-> IF g \in S THEN NoCall ELSE call[g]]
        PROVE  [Calls!CNext]_(Calls!cvars)
    <2>1. phases' = [g \in Caller |-> IF g \in S THEN "idle" ELSE phases[g]]
      BY <1>2 DEF phases, Phase, NoCall, Waiting
    <2>2. Calls!Forget(S)
      BY <1>2, <2>1 DEF Calls!Forget, ForgetCalls, phases
    <2>3. QED BY <2>2 DEF Calls!CNext
  <1>3. ASSUME NEW h \in Caller, Return(h) PROVE [Calls!CNext]_(Calls!cvars)
    <2>1. call' = [g \in Caller |-> IF g \in {h} THEN NoCall ELSE call[g]]
      BY <1>3 DEF Return, ClientInv, ClientTypeOK
    <2>2. QED BY <1>2, <1>3, <2>1 DEF Return
  <1>4. ASSUME NEW h \in Caller, NEW op \in Operation, Start(h, op)
        PROVE  [Calls!CNext]_(Calls!cvars)
    <2>1. phases[h] # "pending"
      BY <1>4, WaitingCall DEF Start, phases, Phase, Call, Waiting, Settled
    <2>2. [NoCall EXCEPT !.op = op, !.pc = FirstPc(op)].pc \in Waiting
      BY DEF NoCall, FirstPc, Waiting
    <2>3. \A g \in Caller : phases'[g] = IF g = h THEN "pending" ELSE phases[g]
      BY <1>4, <2>2 DEF Start, phases, Phase, ClientInv, ClientTypeOK
    <2>4. phases' = [phases EXCEPT ![h] = "pending"]
      BY <2>3 DEF phases
    <2>5. count' = [count EXCEPT ![h] = 0]
      BY <1>4 DEF Start, ForgetCalls, ClientInv, ClientTypeOK
    <2>6. Calls!Begin(h)
      BY <2>1, <2>4, <2>5 DEF Calls!Begin, phases
    <2>7. QED BY <2>6 DEF Calls!CNext
  <1>5. ASSUME NEW h \in Caller, NEW a \in Answer, NEW free \in BOOLEAN, Serve(h, a, free)
        PROVE  [Calls!CNext]_(Calls!cvars)
    <2>1. phases[h] = "pending" /\ count[h] = 0
      BY <1>5, WaitingCall DEF Serve, CallOK, phases, Phase, Waiting
    <2>2. \A g \in Caller : phases'[g] = phases[g]
      BY <1>5 DEF Serve, phases, Phase, Waiting, ClientInv, ClientTypeOK, Call
    <2>3. phases' = phases
      BY <2>2 DEF phases
    <2>4. CASE a \in {"ok", "lost"}
      <3>1. count' = [count EXCEPT ![h] = 1]
        BY <1>5, <2>1, <2>4 DEF Serve, ClientInv, ClientTypeOK
      <3>2. Calls!CarryOut(h)
        BY <2>1, <2>3, <3>1 DEF Calls!CarryOut, phases
      <3>3. QED BY <3>2 DEF Calls!CNext
    <2>5. CASE a \notin {"ok", "lost"}
      <3>1. count' = count
        BY <1>5, <2>5 DEF Serve
      <3>2. QED BY <2>3, <3>1 DEF Calls!cvars, phases
    <2>6. QED BY <2>4, <2>5
  <1>6. ASSUME NEW ok \in BOOLEAN, ScriptArrives(ok) PROVE [Calls!CNext]_(Calls!cvars)
    <2> DEFINE S == { g \in Caller : call[g].pc = "script" }
    <2>1. \A c \in Call : MovedTo(c, Woken(ok), 0).pc = Woken(ok)
      BY DEF MovedTo, Call
    <2>2. \A g \in Caller : phases'[g] = IF g \in S /\ ~ok THEN "rejected" ELSE phases[g]
      BY <1>6, <2>1, WaitingCall DEF ScriptArrives, phases, Phase, Woken, Waiting
    <2>3. \A g \in S : phases[g] = "pending"
      BY DEF phases, Phase, Waiting
    <2>4. count' = count
      BY <1>6 DEF ScriptArrives
    <2>5. CASE ok \/ S = {}
      <3>1. phases' = phases
        BY <2>2, <2>5 DEF phases
      <3>2. QED BY <2>4, <3>1 DEF Calls!cvars, phases
    <2>6. CASE ~ok /\ S # {}
      <3>1. phases' = [g \in Caller |-> IF g \in S THEN "rejected" ELSE phases[g]]
        BY <2>2, <2>6 DEF phases
      <3>2. S \in SUBSET Caller
        OBVIOUS
      <3> HIDE DEF S
      <3>3. Calls!Fail(S)
        BY <2>3, <2>4, <2>6, <3>1, <3>2 DEF Calls!Fail, phases
      <3>4. QED BY <3>2, <3>3 DEF Calls!CNext
    <2>7. QED BY <2>5, <2>6
  <1>7. CASE TokenExpires \/ OtherTrouble \/ UNCHANGED clientVars
    BY <1>7 DEF TokenExpires, OtherTrouble, clientVars, Calls!cvars
  <1>8. CASE Reload
    <2>1. CASE Caller = {}
      <3>1. call' = call /\ count' = count
        BY <1>8, <2>1 DEF Reload, ForgetCalls, ClientInv, ClientTypeOK
      <3>2. QED BY <3>1 DEF Calls!cvars
    <2>2. CASE Caller # {}
      <3>1. call' = [g \in Caller |-> IF g \in Caller THEN NoCall ELSE call[g]]
        BY <1>8 DEF Reload
      <3>2. QED BY <1>2, <1>8, <2>2, <3>1 DEF Reload
    <2>3. QED BY <2>1, <2>2
  <1>9. QED
    BY <1>1, <1>3, <1>4, <1>5, <1>6, <1>7, <1>8 DEF ClientNext, Ambient

\* The loops, tokens and challenges of `request` keep the contract of a single
\* call: carried out at most once, and a success only when it was.
THEOREM ContractKept == ClientSpec => KeepsContract
  <1>1. QED
    BY InitContract, StepContract, ClientInvariant, PTL DEF ClientSpec, KeepsContract, Calls!Contract

-----------------------------------------------------------------------------
(* The wizard *)

\* The server has carried the call out, and its answer says so.
Done(c) == c.pc = "resolved" \/ (c.pc = "answered" /\ c.answer = "ok")

\* What a job stands for: the request it waits for, the page it belongs to, and
\* what the server has accepted for that page by now.
JobOK(j, c, p, v) ==
    /\ j = NoJob <=> c.pc = "idle"
    /\ j # NoJob => j.flow # "none" /\ (j.flow = "login" <=> p \in {"login", "held"})
    /\ j.flow = "login" => c.op = "login"
    /\ j.flow = "verify" => j.act = Secure /\ c.op = "verify"
    /\ j.flow = "handle" => j.act \in 1 .. 5 /\ c.op = WizardAction[j.act]
    /\ j.flow = "status" => j.act = Submit
    /\ j.here /\ j.flow # "login" => p = "wizard"
    /\ j.here /\ j.flow = "verify" /\ Done(c) => v.verified
    /\ j.here /\ j.flow \in {"handle", "status"} /\ j.act >= Secure => v.verified
    /\ j.here /\ j.flow = "handle" /\ j.act = Submit /\ Done(c) => v.applied
    /\ j.here /\ j.flow = "status" => v.applied

PageOK ==
    /\ status \in {Normal, InCoolingOff}
    /\ page \in {"login", "held", "selfService", "wizard"}
    /\ view \in View
    /\ job \in [Caller -> Job]
    /\ page # "wizard" => view = FreshView

Truthful == VerifiedFirst /\ SuccessIsTrue

JobsOK == \A h \in Caller : JobOK(job[h], call[h], page, view)

Inv == ClientInv /\ PageOK /\ JobsOK /\ Truthful

LEMMA Names ==
    /\ Accept = 1 /\ Secure = 4 /\ Submit = 5 /\ Normal = 1 /\ InCoolingOff = 2 /\ Unknown = 0
    /\ WizardAction[4] = "secure" /\ WizardAction[5] = "submit" /\ WizardAction[1] = "accept"
    /\ WizardAction[2] = "confirm" /\ WizardAction[3] = "reason"
  BY DEF Accept, Secure, Submit, Normal, InCoolingOff, Unknown, WizardAction

LEMMA FreshTypes == NoJob \in Job /\ FreshView \in View /\ ~NoJob.here /\ NoJob.flow = "none"
  BY Names DEF NoJob, Job, FreshView, View

LEMMA InitInv == Init => Inv
  <1> SUFFICES ASSUME Init PROVE Inv
    OBVIOUS
  <1>1. ClientInv
    BY InitClientInv DEF Init
  <1>2. PageOK
    BY FreshTypes DEF Init, PageOK
  <1>3. JobsOK
    BY FreshTypes DEF Init, ClientInit, NoCall, JobsOK, JobOK
  <1>4. Truthful
    BY Names DEF Init, Truthful, VerifiedFirst, SuccessIsTrue, FreshView
  <1>5. QED BY <1>1, <1>2, <1>3, <1>4 DEF Inv

\* The operations of the pages are operations of the client.
LEMMA PageOperations ==
    /\ {"login", "status", "roles", "verify", "revoke"} \subseteq Operation
    /\ \A i \in 1 .. 5 : WizardAction[i] \in Operation
  BY OperationAssumption DEF PageOperation

\* A job whose page goes keeps only its request.
LEMMA JobUnmounted ==
    ASSUME NEW j \in Job, NEW c, NEW p, NEW v, NEW q, NEW w, JobOK(j, c, p, v),
           p \in {"login", "held"} <=> q \in {"login", "held"}
    PROVE  /\ JobOK([j EXCEPT !.here = FALSE], c, q, w)
           /\ [j EXCEPT !.here = FALSE] \in Job
  <1> DEFINE k == [j EXCEPT !.here = FALSE]
  <1>1. k \in Job /\ ~k.here /\ k.flow = j.flow /\ k.act = j.act
    BY DEF Job
  <1>2. k = NoJob <=> j = NoJob
    <2>1. CASE j = NoJob
      <3>1. \A r \in Job : r.here = FALSE => [r EXCEPT !.here = FALSE] = r
        BY DEF Job
      <3>2. NoJob.here = FALSE
        BY DEF NoJob
      <3>3. QED BY <2>1, <3>1, <3>2
    <2>2. CASE j # NoJob
      BY <1>1, <2>2, FreshTypes DEF JobOK
    <2>3. QED BY <2>1, <2>2
  <1> HIDE DEF k
  <1>3. JobOK(k, c, q, w)
    BY <1>1, <1>2 DEF JobOK
  <1>4. QED BY <1>1, <1>3 DEF k

\* A first request: the new job has no answer yet.
LEMMA StartedCall ==
    ASSUME ClientInv, NEW h \in Caller, NEW op \in Operation, Start(h, op)
    PROVE  /\ call'[h].pc \in {"acquire", "sent"} /\ call'[h].op = op /\ ~Done(call'[h])
           /\ \A g \in Caller \ {h} : call'[g] = call[g]
  <1>1. [NoCall EXCEPT !.op = op, !.pc = FirstPc(op)].pc \in {"acquire", "sent"}
        /\ [NoCall EXCEPT !.op = op, !.pc = FirstPc(op)].op = op
    BY DEF NoCall, FirstPc
  <1>2. /\ call'[h] = [NoCall EXCEPT !.op = op, !.pc = FirstPc(op)]
        /\ \A g \in Caller \ {h} : call'[g] = call[g]
    BY DEF Start, ClientInv, ClientTypeOK
  <1>3. QED BY <1>1, <1>2 DEF Done

\* The invariant after a first request: what is left to show of each action.
LEMMA StartInv ==
    ASSUME Inv, NEW h \in Caller, NEW op \in Operation, NEW j \in Job, Start(h, op),
           job' = [job EXCEPT ![h] = j], PageOK', Truthful',
           \A g \in Caller \ {h} : JobOK(job[g], call[g], page', view'),
           JobOK(j, call'[h], page', view')
    PROVE  Inv'
  <1>1. ClientInv'
    BY StartClientInv DEF Inv
  <1>2. ASSUME NEW g \in Caller PROVE JobOK(job'[g], call'[g], page', view')
    <2>1. CASE g = h
      BY <2>1 DEF Inv, PageOK
    <2>2. CASE g # h
      <3>1. call'[g] = call[g] /\ job'[g] = job[g]
        BY <2>2, StartedCall DEF Inv, PageOK
      <3>2. QED BY <2>2, <3>1
    <2>3. QED BY <2>1, <2>2
  <1>3. QED BY <1>1, <1>2 DEF Inv, JobsOK

Flow == {"login", "load", "verify", "handle", "roles", "status", "revoke"}

LEMMA NewJob ==
    ASSUME NEW flow \in Flow, NEW act \in 0 .. 5
    PROVE  LET j == [NoJob EXCEPT !.flow = flow, !.act = act, !.here = TRUE]
           IN  j \in Job /\ j.flow = flow /\ j.act = act /\ j.here /\ j # NoJob
  <1> DEFINE j == [NoJob EXCEPT !.flow = flow, !.act = act, !.here = TRUE]
  <1>1. j \in Job /\ j.flow = flow /\ j.act = act /\ j.here
    BY FreshTypes DEF Job, Flow
  <1>2. j # NoJob
    BY <1>1, FreshTypes
  <1>3. QED BY <1>1, <1>2

\* A click: the job it starts, and the page that may change with it.
LEMMA RequestInv ==
    ASSUME Inv, NEW h \in Caller, NEW flow \in Flow, NEW act \in 0 .. 5, NEW op \in Operation,
           Request(h, flow, act, op), PageOK', Truthful',
           \A g \in Caller : JobOK(job[g], call[g], page', view'),
           flow = "login" => op = "login",
           flow = "verify" => act = Secure /\ op = "verify",
           flow = "handle" => act \in 1 .. 5 /\ op = WizardAction[act],
           flow \in {"login", "load", "verify", "handle", "revoke"},
           flow # "login" => page' = "wizard",
           flow = "login" => page' \in {"login", "held"},
           flow = "handle" /\ act >= Secure => view'.verified
    PROVE  Inv'
  <1> DEFINE j == [NoJob EXCEPT !.flow = flow, !.act = act, !.here = TRUE]
  <1>1. j \in Job /\ j.flow = flow /\ j.act = act /\ j.here /\ j # NoJob
    BY NewJob
  <1>2. Start(h, op) /\ job' = [job EXCEPT ![h] = j]
    BY DEF Request
  <1> HIDE DEF j
  <1>3. /\ call'[h].pc \in {"acquire", "sent"} /\ call'[h].op = op /\ ~Done(call'[h])
    BY <1>2, StartedCall DEF Inv
  <1>4. JobOK(j, call'[h], page', view')
    BY <1>1, <1>3 DEF JobOK, Flow
  <1>5. QED BY <1>1, <1>2, <1>4, StartInv

LEMMA ClickInv ==
    ASSUME Inv, NEW h \in Caller, Click(h)
    PROVE  Inv'
  <1> USE Names DEF Flow
  <1>1. CASE ClickLogin(h)
    <2>1. PageOK' /\ Truthful'
      <3>1. job' \in [Caller -> Job]
        BY <1>1, NewJob DEF ClickLogin, Request, Inv, PageOK
      <3>2. QED BY <1>1, <3>1 DEF ClickLogin, Inv, PageOK, Truthful, VerifiedFirst, SuccessIsTrue
    <2>2. \A g \in Caller : JobOK(job[g], call[g], page', view')
      BY <1>1 DEF ClickLogin, Inv, JobsOK
    <2>3. page' \in {"login", "held"} /\ Request(h, "login", 0, "login")
      BY <1>1 DEF ClickLogin
    <2>4. QED BY <2>1, <2>2, <2>3, RequestInv, PageOperations
  <1>2. CASE OpenWizard(h)
    <2>1. PageOK' /\ Truthful'
      <3>1. job' \in [Caller -> Job]
        BY <1>2, NewJob DEF OpenWizard, Request, Inv, PageOK
      <3>2. QED
        BY <1>2, <3>1, FreshTypes
        DEF OpenWizard, Inv, PageOK, Truthful, VerifiedFirst, SuccessIsTrue, FreshView
    <2>2. ASSUME NEW g \in Caller PROVE JobOK(job[g], call[g], page', view')
      <3>1. JobOK(job[g], call[g], page, view) /\ page = "selfService"
        BY <1>2 DEF OpenWizard, Inv, JobsOK
      <3>2. job[g].here => job[g].flow = "login"
        BY <3>1 DEF JobOK
      <3>3. page' = "wizard"
        BY <1>2 DEF OpenWizard
      <3>4. QED BY <3>1, <3>2, <3>3 DEF JobOK
    <2>3. page' = "wizard" /\ Request(h, "load", 0, "status")
      BY <1>2 DEF OpenWizard
    <2>4. QED BY <2>1, <2>2, <2>3, RequestInv, PageOperations
  <1>3. CASE ClickNext(h)
    <2> DEFINE act == view.step + 1
    <2>1. act \in 0 .. 5 /\ act \in 1 .. 5 /\ UNCHANGED <<status, page, view>> /\ page = "wizard"
      BY <1>3 DEF ClickNext, Inv, PageOK, View
    <2>2. \A g \in Caller : JobOK(job[g], call[g], page', view')
      BY <2>1 DEF Inv, JobsOK
    <2>3. ASSUME job' \in [Caller -> Job] PROVE PageOK' /\ Truthful'
      BY <2>1, <2>3 DEF Inv, PageOK, Truthful, VerifiedFirst, SuccessIsTrue
    <2>4. CASE act = Secure
      <3>1. Request(h, "verify", act, "verify")
        BY <1>3, <2>4 DEF ClickNext
      <3> HIDE DEF act
      <3>2. job' \in [Caller -> Job]
        BY <2>1, <3>1, NewJob DEF Request, Inv, PageOK
      <3>3. QED BY <2>1, <2>2, <2>3, <2>4, <3>1, <3>2, RequestInv, PageOperations
    <2>5. CASE act # Secure
      <3>1. Request(h, "handle", act, WizardAction[act])
        BY <1>3, <2>5 DEF ClickNext
      <3>2. act >= Secure => view.verified
        BY <2>1, <2>5 DEF Inv, Truthful, VerifiedFirst, PageOK, View
      <3> HIDE DEF act
      <3>3. job' \in [Caller -> Job]
        BY <2>1, <3>1, NewJob DEF Request, Inv, PageOK
      <3>4. WizardAction[act] \in Operation
        BY <2>1, PageOperations
      <3>5. QED BY <2>1, <2>2, <2>3, <3>1, <3>2, <3>3, <3>4, RequestInv
    <2>6. QED BY <2>4, <2>5
  <1>4. CASE ClickRevoke(h)
    <2>1. PageOK' /\ Truthful'
      <3>1. job' \in [Caller -> Job]
        BY <1>4, NewJob DEF ClickRevoke, Request, Inv, PageOK
      <3>2. QED BY <1>4, <3>1 DEF ClickRevoke, Inv, PageOK, Truthful, VerifiedFirst, SuccessIsTrue
    <2>2. \A g \in Caller : JobOK(job[g], call[g], page', view')
      BY <1>4 DEF ClickRevoke, Inv, JobsOK
    <2>3. page' = "wizard" /\ Request(h, "revoke", 0, "revoke")
      BY <1>4 DEF ClickRevoke
    <2>4. QED BY <2>1, <2>2, <2>3, RequestInv, PageOperations
  <1>5. QED BY <1>1, <1>2, <1>3, <1>4 DEF Click

\* Steps of the client alone change neither what a call asks for nor, but for
\* the answer it has, whether it was carried out.
SameCall(c, d) ==
    /\ d.op = c.op
    /\ d.pc = "idle" <=> c.pc = "idle"
    /\ Done(d) => Done(c)

LEMMA MovedSame ==
    ASSUME NEW c \in Call, NEW pc \in Waiting \cup Settled, NEW n \in {0, 1},
           c.round + n <= Rounds, c.pc # "idle", pc # "answered",
           pc = "resolved" => Done(c)
    PROVE  SameCall(c, MovedTo(c, pc, n))
  BY MovedToType DEF SameCall, Done, Waiting, Settled

LEMMA ProceedSame ==
    ASSUME ClientInv, NEW h \in Caller, Proceed(h)
    PROVE  \A g \in Caller : SameCall(call[g], call'[g])
  <1>1. ASSUME NEW pc \in Waiting \cup Settled, NEW n \in {0, 1},
               call[h].round + n <= Rounds, call[h].pc # "idle", pc # "answered",
               pc = "resolved" => Done(call[h]),
               call' = [call EXCEPT ![h] = MovedTo(@, pc, n)]
        PROVE  \A g \in Caller : SameCall(call[g], call'[g])
    <2>1. SameCall(call[h], MovedTo(call[h], pc, n))
      BY <1>1, MovedSame, WaitingCall
    <2>2. \A g \in Caller : call'[g] = IF g = h THEN MovedTo(call[h], pc, n) ELSE call[g]
      BY <1>1 DEF ClientInv, ClientTypeOK
    <2>3. QED BY <2>1, <2>2 DEF SameCall
  <1>2. call[h].round + 0 <= Rounds
    BY WaitingCall DEF Rounds
  <1>3. ASSUME NEW got \in {"token", "nothing", "failed"}, Acquire(h, got)
        PROVE  \A g \in Caller : SameCall(call[g], call'[g])
    <2>1. (IF got = "failed" THEN "rejected" ELSE "sent") \in {"rejected", "sent"}
      OBVIOUS
    <2>2. QED BY <1>1, <1>2, <1>3, <2>1 DEF Acquire, Move, Waiting, Settled
  <1>4. CASE Resolve(h)
    BY <1>1, <1>2, <1>4 DEF Resolve, Move, Waiting, Settled, Succeeds, Done
  <1>5. CASE Reject(h)
    BY <1>1, <1>2, <1>5 DEF Reject, Move, Waiting, Settled
  <1>6. CASE Challenge(h)
    <2>1. call[h].answer \in RiskCode /\ call[h].round + 1 <= Rounds
      BY <1>6, WaitingCall DEF Challenge, Repeats, Rounds
    <2>2. NextPc(call[h].answer)
             \in {"phone", "notice", "captcha", "rejected", "script", "acquire"}
      BY <2>1 DEF NextPc, RiskCode
    <2>3. QED BY <1>1, <1>6, <2>1, <2>2 DEF Challenge, Waiting, Settled
  <1>7. CASE ImportFails(h)
    BY <1>1, <1>2, <1>7 DEF ImportFails, Move, Waiting, Settled
  <1>8. ASSUME NEW ok \in BOOLEAN, Check(h, ok)
        PROVE  \A g \in Caller : SameCall(call[g], call'[g])
    <2>1. (IF ok THEN "sent" ELSE call[h].pc) \in {"sent", "captcha", "phone"}
      BY <1>8 DEF Check, Dialog
    <2>2. QED BY <1>1, <1>2, <1>8, <2>1 DEF Check, Dialog, Move, Waiting, Settled
  <1>9. CASE Close(h)
    BY <1>1, <1>2, <1>9 DEF Close, Dialog, AfterClose, Move, Waiting, Settled
  <1>10. QED BY <1>3, <1>4, <1>5, <1>6, <1>7, <1>8, <1>9 DEF Proceed

LEMMA AmbientSame ==
    ASSUME ClientInv, Ambient
    PROVE  \A g \in Caller : SameCall(call[g], call'[g])
  <1>1. CASE TokenExpires
    BY <1>1 DEF TokenExpires, SameCall
  <1>2. ASSUME NEW ok \in BOOLEAN, ScriptArrives(ok), NEW g \in Caller
        PROVE  SameCall(call[g], call'[g])
    <2>1. CASE call[g].pc = "script"
      <3>1. Woken(ok) \in {"captcha", "rejected"} /\ call[g].round + 0 <= Rounds
        BY WaitingCall DEF Woken, Rounds
      <3>2. SameCall(call[g], MovedTo(call[g], Woken(ok), 0))
        BY <2>1, <3>1, MovedSame, WaitingCall DEF Waiting, Settled
      <3>3. QED BY <1>2, <2>1, <3>2 DEF ScriptArrives
    <2>2. CASE call[g].pc # "script"
      BY <1>2, <2>2 DEF ScriptArrives, SameCall
    <2>3. QED BY <2>1, <2>2
  <1>3. QED BY <1>1, <1>2 DEF Ambient

LEMMA ClientStepInv ==
    ASSUME Inv, [ClientNext]_clientVars, UNCHANGED pageVars,
           \A g \in Caller : SameCall(call[g], call'[g])
    PROVE  Inv'
  <1>1. ClientInv'
    BY NextClientInv DEF Inv
  <1>2. PageOK' /\ Truthful'
    BY DEF pageVars, Inv, PageOK, Truthful, VerifiedFirst, SuccessIsTrue
  <1>3. ASSUME NEW g \in Caller PROVE JobOK(job[g], call'[g], page, view)
    BY DEF Inv, JobsOK, JobOK, SameCall
  <1>4. QED BY <1>1, <1>2, <1>3 DEF Inv, JobsOK, pageVars

\* The server's end of a request: what it accepts is written down for the
\* wizard that asked, while that is open.
LEMMA HandleInv ==
    ASSUME Inv, NEW h \in Caller, NEW a \in Answer, Handle(h, a)
    PROVE  Inv'
  <1> DEFINE op == call[h].op
             done == a \in {"ok", "lost"}
  <1> USE Names
  <1>1. /\ Serve(h, a, a = "refused" /\ Refuses(op))
        /\ status' = IF done THEN Effect(op) ELSE status
        /\ job' = [job EXCEPT ![h].told = IF done /\ op = "status" THEN status ELSE @]
        /\ view' = IF done /\ job[h].here
                   THEN [view EXCEPT !.verified = @ \/ op = "verify", !.applied = @ \/ op = "submit"]
                   ELSE view
        /\ UNCHANGED page
    BY DEF Handle
  <1>2. ClientInv'
    BY <1>1, ServeClientInv DEF Inv
  <1>3. /\ call[h].pc = "sent" /\ call'[h].pc = "answered" /\ call'[h].answer = a
        /\ call'[h].op = op
        /\ \A g \in Caller \ {h} : call'[g] = call[g]
    BY <1>1, WaitingCall DEF Serve, Inv, ClientInv, ClientTypeOK, Call
  <1>4. JobOK(job[h], call[h], page, view) /\ job[h] # NoJob /\ job[h] \in Job
    BY <1>3 DEF Inv, JobsOK, JobOK, PageOK
  <1>5. /\ job' \in [Caller -> Job]
        /\ job'[h].flow = job[h].flow /\ job'[h].act = job[h].act /\ job'[h].here = job[h].here
        /\ \A g \in Caller \ {h} : job'[g] = job[g]
    <2>1. (IF done /\ op = "status" THEN status ELSE job[h].told) \in {Unknown, Normal, InCoolingOff}
      BY <1>4 DEF Inv, PageOK, Job
    <2>2. QED BY <1>1, <1>4, <2>1 DEF Inv, PageOK, Job
  <1>6. /\ view' \in View /\ view'.step = view.step
        /\ view.verified => view'.verified
        /\ view.applied => view'.applied
        /\ done /\ job[h].here /\ op = "verify" => view'.verified
        /\ done /\ job[h].here /\ op = "submit" => view'.applied
    BY <1>1 DEF Inv, PageOK, View
  <1>7. page # "wizard" => view' = FreshView
    <2>1. CASE done /\ job[h].here /\ page # "wizard"
      <3>1. job[h].flow = "login" /\ view = FreshView
        BY <1>4, <2>1 DEF JobOK, Inv, PageOK
      <3>2. op \notin {"verify", "submit"}
        BY <1>4, <3>1 DEF JobOK
      <3>3. \A v \in View, w \in View :
               v.status = w.status /\ v.step = w.step /\ v.verified = w.verified
                 /\ v.applied = w.applied => v = w
        BY DEF View
      <3>4. /\ view' \in View /\ view \in View /\ view'.status = view.status
            /\ view'.step = view.step
            /\ view'.verified = view.verified /\ view'.applied = view.applied
        BY <1>1, <3>2 DEF Inv, PageOK, View
      <3>5. QED BY <3>1, <3>3, <3>4
    <2>2. CASE ~(done /\ job[h].here)
      BY <1>1, <2>2 DEF Inv, PageOK
    <2>3. QED BY <2>1, <2>2
  <1>8. PageOK' /\ Truthful'
    <2>1. status' \in {Normal, InCoolingOff}
      BY <1>1 DEF Effect, Inv, PageOK
    <2>2. PageOK'
      BY <1>1, <1>5, <1>6, <1>7, <2>1 DEF Inv, PageOK
    <2>3. QED BY <1>6, <2>2 DEF Inv, Truthful, VerifiedFirst, SuccessIsTrue
  <1>9. ASSUME NEW g \in Caller PROVE JobOK(job'[g], call'[g], page', view')
    <2>1. CASE g # h
      <3>1. JobOK(job[g], call[g], page, view)
        BY DEF Inv, JobsOK
      <3>2. JobOK(job[g], call[g], page, view')
        BY <1>6, <3>1 DEF JobOK
      <3>3. QED BY <1>1, <1>3, <1>5, <2>1, <3>2
    <2>2. CASE g = h
      <3>1. Done(call'[h]) => a = "ok"
        BY <1>3 DEF Done
      <3>2. /\ a = "ok" /\ job[h].here /\ job[h].flow = "verify" => view'.verified
            /\ a = "ok" /\ job[h].here /\ job[h].flow = "handle" /\ job[h].act = Submit => view'.applied
        BY <1>4, <1>6 DEF JobOK
      <3>3. job'[h] # NoJob
        BY <1>4, <1>5, FreshTypes DEF JobOK
      <3>4. JobOK(job'[h], call'[h], page', view')
        BY <1>1, <1>3, <1>4, <1>5, <1>6, <3>1, <3>2, <3>3 DEF JobOK
      <3>5. QED BY <2>2, <3>4
    <2>3. QED BY <2>1, <2>2
  <1>10. QED BY <1>2, <1>8, <1>9 DEF Inv, JobsOK

\* A new document: no job and no wizard is left.
LEMMA NewDocumentInv ==
    ASSUME Inv, NewDocument, page' \in {"login", "held", "selfService"}
    PROVE  Inv'
  <1>1. Reload /\ job' = [g \in Caller |-> NoJob] /\ view' = FreshView /\ status' = status
    BY DEF NewDocument
  <1>2. ClientInv'
    BY <1>1, NextClientInv DEF Inv, ClientNext
  <1>3. PageOK' /\ Truthful'
    BY <1>1, FreshTypes, Names
    DEF Inv, PageOK, Truthful, VerifiedFirst, SuccessIsTrue, FreshView
  <1>4. ASSUME NEW g \in Caller PROVE JobOK(job'[g], call'[g], page', view')
    <2>1. job'[g] = NoJob /\ call'[g].pc = "idle"
      BY <1>1 DEF Reload, NoCall
    <2>2. QED BY <2>1, FreshTypes DEF JobOK
  <1>5. QED BY <1>2, <1>3, <1>4 DEF Inv, JobsOK

LEMMA LeaveInv == ASSUME Inv, Leave PROVE Inv'
  <1>1. /\ page = "wizard" /\ page' = "selfService" /\ view' = FreshView /\ status' = status
        /\ job' = [g \in Caller |-> [job[g] EXCEPT !.here = FALSE]] /\ UNCHANGED clientVars
    BY DEF Leave, Unmounted
  <1>2. ClientInv'
    BY <1>1, NextClientInv DEF Inv
  <1>3. ASSUME NEW g \in Caller
        PROVE  JobOK(job'[g], call'[g], page', view') /\ job'[g] \in Job
    <2>1. JobOK(job[g], call[g], page, view) /\ job[g] \in Job
      BY DEF Inv, JobsOK, PageOK
    <2>2. QED BY <1>1, <2>1, JobUnmounted DEF clientVars
  <1>4. PageOK' /\ Truthful'
    BY <1>1, <1>3, FreshTypes, Names
    DEF Inv, PageOK, Truthful, VerifiedFirst, SuccessIsTrue, FreshView
  <1>5. QED BY <1>2, <1>3, <1>4 DEF Inv, JobsOK

LEMMA ClickBackInv == ASSUME Inv, ClickBack PROVE Inv'
  <1>1. /\ UNCHANGED <<clientVars, status, page, job>> /\ page = "wizard"
        /\ view' = [view EXCEPT !.step = @ - 1] /\ view.step \in {1, 2, 3}
    BY DEF ClickBack
  <1>2. ClientInv'
    BY <1>1, NextClientInv DEF Inv
  <1>3. /\ view' \in View /\ view'.step \in {0, 1, 2}
        /\ view'.verified = view.verified /\ view'.applied = view.applied
    BY <1>1, Names DEF Inv, PageOK, View
  <1>4. PageOK' /\ Truthful'
    BY <1>1, <1>3, Names DEF Inv, PageOK, Truthful, VerifiedFirst, SuccessIsTrue
  <1>5. ASSUME NEW g \in Caller PROVE JobOK(job[g], call[g], page, view')
    BY <1>3 DEF Inv, JobsOK, JobOK
  <1>6. QED BY <1>1, <1>2, <1>4, <1>5 DEF Inv, JobsOK, clientVars

LEMMA ElsewhereInv == ASSUME Inv, Elsewhere PROVE Inv'
  <1>1. OtherTrouble /\ call' = call /\ UNCHANGED <<page, view, job>>
        /\ status' \in {Normal, InCoolingOff}
    BY DEF Elsewhere, OtherTrouble
  <1>2. ClientInv'
    BY <1>1, NextClientInv DEF Inv, ClientNext
  <1>3. QED
    BY <1>1, <1>2 DEF Inv, PageOK, JobsOK, Truthful, VerifiedFirst, SuccessIsTrue

\* The end of a job: what is left to show is what the wizard now holds.
LEMMA EndJobInv ==
    ASSUME Inv, NEW h \in Caller, EndJob(h),
           page' = page \/ (page \in {"login", "held"} /\ page' = "held"),
           view' \in View, Truthful',
           view.verified => view'.verified, view.applied => view'.applied,
           page # "wizard" => view' = view
    PROVE  Inv'
  <1>1. /\ Return(h) /\ job' = [job EXCEPT ![h] = NoJob] /\ status' = status
    BY DEF EndJob
  <1>2. ClientInv'
    BY <1>1, NextClientInv DEF Inv, ClientNext
  <1>3. /\ call'[h].pc = "idle" /\ job'[h] = NoJob
        /\ \A g \in Caller \ {h} : call'[g] = call[g] /\ job'[g] = job[g]
    BY <1>1 DEF Return, NoCall, Inv, ClientInv, ClientTypeOK, PageOK
  <1>4. PageOK'
    BY <1>1, FreshTypes DEF Inv, PageOK
  <1>5. ASSUME NEW g \in Caller PROVE JobOK(job'[g], call'[g], page', view')
    <2>1. CASE g = h
      BY <1>3, <2>1, FreshTypes DEF JobOK
    <2>2. CASE g # h
      <3>1. JobOK(job[g], call[g], page, view)
        BY DEF Inv, JobsOK
      <3>2. JobOK(job[g], call[g], page', view')
        BY <3>1 DEF JobOK
      <3>3. QED BY <1>3, <2>2, <3>2
    <2>3. QED BY <2>1, <2>2
  <1>6. QED BY <1>2, <1>4, <1>5 DEF Inv, JobsOK

\* The next request of a job: it is the same job, at its next question.
LEMMA FollowInv ==
    ASSUME Inv, NEW h \in Caller, NEW flow \in Flow, NEW op \in Operation, Follow(h, flow, op),
           flow = "handle" => job[h].act \in 1 .. 5 /\ op = WizardAction[job[h].act],
           flow = "status" => job[h].act = Submit /\ (job[h].here => view.applied),
           flow \in {"handle", "roles", "status"}, job[h] # NoJob, job[h].flow # "login",
           job[h].here /\ flow \in {"handle", "status"} /\ job[h].act >= Secure => view.verified
    PROVE  Inv'
  <1> DEFINE j == [job[h] EXCEPT !.flow = flow]
  <1>1. Start(h, op) /\ job' = [job EXCEPT ![h] = j] /\ UNCHANGED <<status, page, view>>
    BY DEF Follow, Inv, PageOK
  <1>2. j \in Job /\ j.flow = flow /\ j.act = job[h].act /\ j.here = job[h].here
    BY DEF Inv, PageOK, Job, Flow
  <1> HIDE DEF j
  <1>3. PageOK' /\ Truthful'
    BY <1>1, <1>2 DEF Inv, PageOK, Truthful, VerifiedFirst, SuccessIsTrue
  <1>4. \A g \in Caller \ {h} : JobOK(job[g], call[g], page', view')
    BY <1>1 DEF Inv, JobsOK
  <1>5. /\ call'[h].pc \in {"acquire", "sent"} /\ call'[h].op = op /\ ~Done(call'[h])
    BY <1>1, StartedCall DEF Inv
  <1>6. JobOK(j, call'[h], page', view')
    <2>1. JobOK(job[h], call[h], page, view)
      BY DEF Inv, JobsOK
    <2>2. j # NoJob
      BY <1>2, FreshTypes
    <2>3. page' \notin {"login", "held"} /\ (j.here => page' = "wizard")
      BY <1>1, <1>2, <2>1 DEF JobOK
    <2>4. QED BY <1>1, <1>2, <1>5, <2>2, <2>3 DEF JobOK
  <1>7. QED BY <1>1, <1>2, <1>3, <1>4, <1>6, StartInv

\* What the action of a job follows from: its call was carried out.
LEMMA SucceededJob ==
    ASSUME Inv, NEW h \in Caller, NEW flow \in Flow, Succeeded(h, flow)
    PROVE  /\ JobOK(job[h], call[h], page, view)
           /\ job[h] \in Job /\ job[h] # NoJob /\ job[h].flow = flow /\ Done(call[h])
  BY FreshTypes DEF Succeeded, Inv, JobsOK, PageOK, Flow, Done

LEMMA FollowsInv == ASSUME Inv, NEW h \in Caller, Follows(h) PROVE Inv'
  <1> USE Names
  <1>1. CASE AfterLogin(h)
    <2>1. JobOK(job[h], call[h], page, view) /\ job[h] # NoJob /\ job[h].flow = "login"
      BY <1>1, SucceededJob DEF AfterLogin, Flow
    <2>2. page \in {"login", "held"}
      BY <2>1 DEF JobOK
    <2>3. CASE page' = "selfService" /\ NewDocument
      BY <2>3, NewDocumentInv
    <2>4. CASE page' = "held" /\ EndJob(h) /\ UNCHANGED view
      <3>1. view' \in View /\ Truthful'
        BY <2>4 DEF Inv, PageOK, Truthful, VerifiedFirst, SuccessIsTrue
      <3>2. QED BY <2>2, <2>4, <3>1, EndJobInv
    <2>5. QED BY <1>1, <2>3, <2>4 DEF AfterLogin
  <1>2. CASE AfterLoad(h)
    <2>1. JobOK(job[h], call[h], page, view) /\ job[h] \in Job /\ job[h] # NoJob /\ job[h].flow = "load"
      BY <1>2, SucceededJob DEF AfterLoad, Flow
    <2>2. /\ EndJob(h) /\ page' = page
          /\ view' = IF job[h].here THEN [view EXCEPT !.status = job[h].told] ELSE view
      BY <1>2 DEF AfterLoad, Shows
    <2>3. /\ view' \in View /\ view'.step = view.step
          /\ view'.verified = view.verified /\ view'.applied = view.applied
      BY <2>1, <2>2 DEF Inv, PageOK, View, Job
    <2>4. page # "wizard" => view' = view
      BY <2>1, <2>2 DEF JobOK
    <2>5. Truthful'
      BY <2>3 DEF Inv, Truthful, VerifiedFirst, SuccessIsTrue
    <2>6. QED BY <2>2, <2>3, <2>4, <2>5, EndJobInv
  <1>3. CASE AfterVerify(h)
    <2>1. /\ JobOK(job[h], call[h], page, view) /\ job[h] # NoJob /\ job[h].flow = "verify"
          /\ Done(call[h]) /\ Follow(h, "handle", WizardAction[Secure])
      BY <1>3, SucceededJob DEF AfterVerify, Flow
    <2>2. job[h].act = Secure /\ (job[h].here => view.verified)
      BY <2>1 DEF JobOK
    <2>3. WizardAction[Secure] \in Operation
      BY PageOperations
    <2>4. QED BY <2>1, <2>2, <2>3, FollowInv DEF Flow
  <1>4. CASE AfterHandle(h)
    <2>1. /\ JobOK(job[h], call[h], page, view) /\ job[h] \in Job /\ job[h] # NoJob
          /\ job[h].flow = "handle" /\ Done(call[h])
      BY <1>4, SucceededJob DEF AfterHandle, Flow
    <2>2. /\ job[h].act \in 1 .. 5
          /\ job[h].here => page = "wizard"
          /\ job[h].here /\ job[h].act >= Secure => view.verified
          /\ job[h].here /\ job[h].act = Submit => view.applied
      BY <2>1 DEF JobOK
    <2>3. CASE job[h].act = Accept /\ Follow(h, "roles", "roles")
      BY <2>1, <2>2, <2>3, FollowInv, PageOperations DEF Flow
    <2>4. CASE job[h].act = Submit /\ Follow(h, "status", "status")
      BY <2>1, <2>2, <2>4, FollowInv, PageOperations DEF Flow
    <2>5. CASE /\ job[h].act \notin {Accept, Submit}
               /\ view' = IF Shows(job[h]) THEN [view EXCEPT !.step = job[h].act] ELSE view
               /\ EndJob(h)
               /\ UNCHANGED page
      <3>1. /\ view' \in View
            /\ view'.verified = view.verified /\ view'.applied = view.applied
            /\ view'.step = IF job[h].here THEN job[h].act ELSE view.step
        BY <2>2, <2>5 DEF Shows, Inv, PageOK, View
      <3>2. page # "wizard" => view' = view
        BY <2>2, <2>5 DEF Shows
      <3>3. Truthful'
        BY <2>2, <2>5, <3>1 DEF Inv, Truthful, VerifiedFirst, SuccessIsTrue
      <3>4. QED BY <2>5, <3>1, <3>2, <3>3, EndJobInv
    <2>6. QED BY <1>4, <2>3, <2>4, <2>5 DEF AfterHandle
  <1>5. CASE AfterAction(h)
    <2>1. /\ JobOK(job[h], call[h], page, view) /\ job[h] \in Job /\ job[h] # NoJob
          /\ job[h].flow \in {"roles", "status"}
      <3>1. CASE Succeeded(h, "roles")
        BY <3>1, SucceededJob DEF Flow
      <3>2. CASE Succeeded(h, "status")
        BY <3>2, SucceededJob DEF Flow
      <3>3. QED BY <1>5, <3>1, <3>2 DEF AfterAction
    <2>2. /\ job[h].here => page = "wizard"
          /\ job[h].here /\ job[h].flow = "status" => view.verified /\ view.applied
      BY <2>1 DEF JobOK
    <2>3. EndJob(h) /\ page' = page
      BY <1>5 DEF AfterAction
    <2>4. CASE ~job[h].here
      <3>1. view' = view
        BY <1>5, <2>4 DEF AfterAction, Shows
      <3>2. view' \in View /\ Truthful'
        BY <3>1 DEF Inv, PageOK, Truthful, VerifiedFirst, SuccessIsTrue
      <3>3. QED BY <2>3, <3>1, <3>2, EndJobInv
    <2>5. CASE job[h].here /\ job[h].flow = "roles"
      <3>1. view' = [view EXCEPT !.step = Accept]
        BY <1>5, <2>5 DEF AfterAction, Shows
      <3>2. /\ view' \in View /\ view'.step = 1
            /\ view'.verified = view.verified /\ view'.applied = view.applied
        BY <3>1 DEF Inv, PageOK, View
      <3>3. Truthful'
        BY <3>2 DEF Truthful, VerifiedFirst, SuccessIsTrue
      <3>4. QED BY <2>2, <2>3, <2>5, <3>2, <3>3, EndJobInv
    <2>6. CASE job[h].here /\ job[h].flow = "status"
      <3>1. view' = [view EXCEPT !.status = job[h].told, !.step = Submit]
        BY <1>5, <2>6 DEF AfterAction, Shows
      <3>2. job[h].told \in {Unknown, Normal, InCoolingOff}
        BY <2>1 DEF Job
      <3>3. /\ view' \in View
            /\ view'.verified = view.verified /\ view'.applied = view.applied
        <4>1. Submit \in 0 .. Submit
          OBVIOUS
        <4>2. \A v \in View, t \in {Unknown, Normal, InCoolingOff} :
                 LET w == [v EXCEPT !.status = t, !.step = Submit]
                 IN  w \in View /\ w.verified = v.verified /\ w.applied = v.applied
          BY <4>1 DEF View
        <4>3. QED BY <3>1, <3>2, <4>2 DEF Inv, PageOK
      <3>4. Truthful'
        BY <2>2, <2>6, <3>3 DEF Truthful, VerifiedFirst, SuccessIsTrue
      <3>5. QED BY <2>2, <2>3, <2>6, <3>3, <3>4, EndJobInv
    <2>7. QED BY <2>1, <2>4, <2>5, <2>6
  <1>6. CASE AfterRevoke(h)
    <2>1. JobOK(job[h], call[h], page, view) /\ job[h] # NoJob /\ job[h].flow = "revoke"
      BY <1>6, SucceededJob DEF AfterRevoke, Flow
    <2>2. page \notin {"login", "held"}
      BY <2>1 DEF JobOK
    <2>3. /\ page' = "selfService" /\ view' = FreshView /\ status' = status /\ Return(h)
          /\ \A g \in Caller : job'[g] = IF g = h THEN NoJob ELSE [job[g] EXCEPT !.here = FALSE]
          /\ job' = [g \in Caller |-> job'[g]]
      BY <1>6 DEF AfterRevoke, Unmounted
    <2>4. ClientInv'
      BY <2>3, NextClientInv DEF Inv, ClientNext
    <2>5. /\ call'[h].pc = "idle"
          /\ \A g \in Caller \ {h} : call'[g] = call[g]
      BY <2>3 DEF Return, NoCall, Inv, ClientInv, ClientTypeOK
    <2>6. ASSUME NEW g \in Caller
          PROVE  JobOK(job'[g], call'[g], page', view') /\ job'[g] \in Job
      <3>1. CASE g = h
        <4>1. job'[g] = NoJob
          BY <2>3, <3>1
        <4>2. QED BY <2>5, <3>1, <4>1, FreshTypes DEF JobOK
      <3>2. CASE g # h
        <4>1. JobOK(job[g], call[g], page, view) /\ job[g] \in Job
          BY DEF Inv, JobsOK, PageOK
        <4>2. job'[g] = [job[g] EXCEPT !.here = FALSE] /\ call'[g] = call[g]
          BY <2>3, <2>5, <3>2
        <4>3. page' \notin {"login", "held"}
          BY <2>3
        <4>4. QED BY <2>2, <4>1, <4>2, <4>3, JobUnmounted
      <3>3. QED BY <3>1, <3>2
    <2>7. job' \in [Caller -> Job]
      BY <2>3, <2>6
    <2>8. PageOK' /\ Truthful'
      BY <2>3, <2>7, FreshTypes
      DEF Inv, PageOK, Truthful, VerifiedFirst, SuccessIsTrue, FreshView
    <2>9. QED BY <2>4, <2>6, <2>8 DEF Inv, JobsOK
  <1>7. CASE AfterError(h)
    <2>1. EndJob(h) /\ page' = page /\ view' = view
      BY <1>7 DEF AfterError
    <2>2. view' \in View /\ Truthful' /\ (view.verified => view'.verified)
          /\ (view.applied => view'.applied)
      BY <2>1 DEF Inv, PageOK, Truthful, VerifiedFirst, SuccessIsTrue
    <2>3. QED BY <2>1, <2>2, EndJobInv
  <1>8. QED
    BY <1>1, <1>2, <1>3, <1>4, <1>5, <1>6, <1>7 DEF Follows

LEMMA NextInv == Inv /\ [Next]_vars => Inv'
  <1> SUFFICES ASSUME Inv, [Next]_vars PROVE Inv'
    OBVIOUS
  <1>1. CASE \E h \in Caller : Click(h)
    BY <1>1, ClickInv
  <1>2. CASE ClickBack \/ Leave \/ Elsewhere
    BY <1>2, ClickBackInv, LeaveInv, ElsewhereInv
  <1>3. CASE Logout
    BY <1>3, NewDocumentInv DEF Logout
  <1>4. CASE Refresh
    BY <1>4, NewDocumentInv DEF Refresh
  <1>5. ASSUME NEW h \in Caller, Proceed(h) /\ UNCHANGED pageVars PROVE Inv'
    BY <1>5, ProceedSame, ClientStepInv DEF ClientNext, Inv
  <1>6. CASE Ambient /\ UNCHANGED pageVars
    BY <1>6, AmbientSame, ClientStepInv DEF ClientNext, Inv
  <1>7. CASE \E h \in Caller, a \in Answer : Handle(h, a)
    BY <1>7, HandleInv
  <1>8. CASE \E h \in Caller : Follows(h)
    BY <1>8, FollowsInv
  <1>9. CASE UNCHANGED vars
    <2>1. \A g \in Caller : SameCall(call[g], call'[g])
      BY <1>9 DEF vars, clientVars, SameCall
    <2>2. QED BY <1>9, <2>1, ClientStepInv DEF vars
  <1>10. QED
    BY <1>1, <1>2, <1>3, <1>4, <1>5, <1>6, <1>7, <1>8, <1>9 DEF Next

LEMMA Invariant == Spec => []Inv
  BY InitInv, NextInv, PTL DEF Spec

\* Types, and a job for exactly the calls that are waited for.
THEOREM PageTyped == Spec => []TypeOK
  <1>1. Inv => TypeOK
    <2> SUFFICES ASSUME Inv PROVE TypeOK
      OBVIOUS
    <2>1. ASSUME NEW h \in Caller PROVE job[h] = NoJob <=> call[h] = NoCall
      BY DEF Inv, JobsOK, JobOK, ClientInv, CallsOK, CallOK, NoCall
    <2>2. QED BY <2>1 DEF Inv, PageOK, ClientInv, TypeOK
  <1>2. QED BY <1>1, Invariant, PTL

\* The wizard offers to submit only after this wizard's security check, for
\* every interleaving of clicks, answers, reloads and jobs of pages long gone.
THEOREM SubmitVerified == Spec => []VerifiedFirst
  <1>1. Inv => VerifiedFirst
    BY DEF Inv, Truthful
  <1>2. QED BY <1>1, Invariant, PTL

\* It reports an application only if the server accepted one from it.
THEOREM SubmitTruthful == Spec => []SuccessIsTrue
  <1>1. Inv => SuccessIsTrue
    BY DEF Inv, Truthful
  <1>2. QED BY <1>1, Invariant, PTL

\* Every step of the pages is a step the client's theorems speak of.
LEMMA PagesUseClient == Inv /\ [Next]_vars => [ClientNext]_clientVars
  <1> SUFFICES ASSUME Inv, [Next]_vars PROVE [ClientNext]_clientVars
    OBVIOUS
  <1>1. ASSUME NEW h \in Caller, Click(h) PROVE ClientNext
    <2>1. ASSUME NEW flow, NEW act, NEW op \in Operation, Request(h, flow, act, op)
          PROVE  ClientNext
      BY <2>1 DEF Request, ClientNext
    <2>2. CASE ClickNext(h)
      <3>1. view.step + 1 \in 1 .. 5
        BY <2>2, Names DEF ClickNext, Inv, PageOK, View
      <3>2. QED BY <2>1, <2>2, <3>1, PageOperations DEF ClickNext
    <2>3. QED
      BY <1>1, <2>1, <2>2, PageOperations DEF Click, ClickLogin, OpenWizard, ClickRevoke
  <1>2. CASE ClickBack \/ Leave \/ UNCHANGED vars
    BY <1>2 DEF ClickBack, Leave, vars
  <1>3. CASE Elsewhere
    BY <1>3 DEF Elsewhere, ClientNext
  <1>4. CASE Logout \/ Refresh
    BY <1>4 DEF Logout, Refresh, NewDocument, ClientNext
  <1>5. ASSUME NEW h \in Caller, NEW a \in Answer, Handle(h, a) PROVE ClientNext
    BY <1>5 DEF Handle, ClientNext
  <1>6. ASSUME NEW h \in Caller, Follows(h) PROVE ClientNext
    <2>1. ASSUME Return(h) PROVE ClientNext
      BY <2>1 DEF ClientNext
    <2>2. ASSUME NEW flow, NEW op \in Operation, Follow(h, flow, op) PROVE ClientNext
      BY <2>2 DEF Follow, ClientNext
    <2>3. ASSUME NewDocument PROVE ClientNext
      BY <2>3 DEF NewDocument, ClientNext
    <2>4. WizardAction[Secure] \in Operation
      BY Names, PageOperations
    <2>5. QED
      BY <1>6, <2>1, <2>2, <2>3, <2>4, PageOperations
      DEF Follows, AfterLogin, AfterLoad, AfterVerify, AfterHandle, AfterAction, AfterRevoke,
          AfterError, EndJob
  <1>7. CASE Ambient \/ \E h \in Caller : Proceed(h)
    BY <1>7 DEF ClientNext
  <1>8. QED
    BY <1>1, <1>2, <1>3, <1>4, <1>5, <1>6, <1>7 DEF Next

THEOREM PagesImplementClient == Spec => ClientSpec
  <1>1. Init => ClientInit
    BY DEF Init
  <1>2. QED BY <1>1, PagesUseClient, Invariant, PTL DEF Spec, ClientSpec

\* The pages keep what the client promises: no request with a challenge unmet,
\* and the contract of a single call.
THEOREM PagesHeedAndKeep == Spec => []ChallengeHeeded /\ KeepsContract
  BY PagesImplementClient, ChallengesHeeded, ContractKept

-----------------------------------------------------------------------------
(* Encoding an address: numbers, bounded induction and folds *)

\* A set of numbers has a least one.
LEMMA LeastNumber ==
    ASSUME NEW S \in SUBSET Nat, S # {}
    PROVE  \E m \in S : \A k \in S : m <= k
  <1> DEFINE Below(k) == {x \in S : x < k}
             Family == {Below(k) : k \in S}
  <1>1. ASSUME NEW k \in S PROVE IsFiniteSet(Below(k)) /\ Below(k) \in SUBSET Nat
    BY FS_BoundedSetOfNaturals, \A s \in Below(k) : s <= k, k \in Nat, Below(k) \in SUBSET Nat
  <1>2. Family \subseteq FiniteSubsetsOf(Nat) /\ Family # {}
    BY <1>1 DEF FiniteSubsetsOf
  <1>3. PICK U \in Family : \A V \in Family : <<V, U>> \notin StrictSubsetOrdering(Nat)
    BY <1>2, FS_StrictSubsetOrderingWellFounded, WFMin
  <1>4. PICK m \in S : U = Below(m)
    BY <1>3
  <1>5. ASSUME NEW k \in S, k < m PROVE FALSE
    <2>1. Below(k) \subseteq Below(m) /\ k \in Below(m) /\ k \notin Below(k)
      <3>1. k \in Nat /\ m \in Nat /\ k < m
        BY <1>5
      <3>2. ASSUME NEW x \in S, x < k PROVE x < m
        BY <3>1, <3>2
      <3>3. \A x \in Below(k) : x \in Below(m)
        BY <3>2
      <3>4. k \in Below(m)
        BY <3>1
      <3>5. k \notin Below(k)
        BY <3>1
      <3> QED BY <3>3, <3>4, <3>5
    <2>2. Below(k) \in SUBSET Nat /\ Below(m) \in SUBSET Nat
      OBVIOUS
    <2>3. <<Below(k), Below(m)>> \in StrictSubsetOrdering(Nat)
      <3> HIDE DEF Below
      <3> QED BY <2>1, <2>2 DEF StrictSubsetOrdering
    <2>4. Below(k) \in Family
      OBVIOUS
    <2> QED BY <1>3, <1>4, <2>3, <2>4
  <1> QED BY <1>5

\* Induction up to a bound, about the numbers of a set.
LEMMA UpTo ==
    ASSUME NEW n \in Nat, NEW S, 0 \in S,
           \A k \in 1 .. n : k - 1 \in S => k \in S
    PROVE  \A k \in 0 .. n : k \in S
  <1> DEFINE Missing == {k \in 0 .. n : k \notin S}
  <1> SUFFICES ASSUME Missing # {} PROVE FALSE
    OBVIOUS
  <1>1. Missing \in SUBSET Nat
    OBVIOUS
  <1>2. PICK m \in Missing : \A k \in Missing : m <= k
    <2> HIDE DEF Missing
    <2> QED BY <1>1, LeastNumber
  <1>3. m \in 0 .. n /\ m \notin S /\ m # 0
    BY <1>2
  <1>4. m \in 1 .. n /\ m - 1 \in 0 .. n /\ m - 1 \notin Missing
    BY <1>2, <1>3
  <1> QED BY <1>3, <1>4

\* Max, of numbers up to n.
LEMMA MaxIs ==
    ASSUME NEW s, s \subseteq Int, NEW m \in s, \A y \in s : y <= m
    PROVE  Max(s) = m
  <1>1. \A x \in s : (\A y \in s : x >= y) <=> x = m
    OBVIOUS
  <1>2. \E x \in s : \A y \in s : x >= y
    BY <1>1
  <1>3. Max(s) \in s /\ \A y \in s : Max(s) >= y
    BY <1>2 DEF Max
  <1> QED BY <1>1, <1>3

LEMMA MaxBelow ==
    ASSUME NEW n \in Nat, NEW s \in SUBSET (1 .. n), s # {}
    PROVE  Max(s) \in s /\ \A y \in s : y <= Max(s)
  <1> DEFINE Over == {n - y : y \in s}
  <1>1. Over \in SUBSET Nat /\ Over # {}
    <2>1. \A y \in s : n - y \in Nat
      OBVIOUS
    <2> QED BY <2>1
  <1>2. PICK d \in Over : \A k \in Over : d <= k
    <2> HIDE DEF Over
    <2> QED BY <1>1, LeastNumber
  <1>3. PICK m \in s : d = n - m
    BY <1>2
  <1>4. \A y \in s : y <= m
    <2>1. \A y \in s : n - y \in Over
      OBVIOUS
    <2>2. \A y \in s : n - m <= n - y
      BY <2>1, <1>2, <1>3
    <2> QED BY <2>2
  <1>5. s \subseteq Int
    OBVIOUS
  <1>6. Max(s) = m
    BY <1>4, <1>5, MaxIs
  <1> QED BY <1>4, <1>6

LEMMA MaxUpTo ==
    ASSUME NEW k \in Nat, k # 0
    PROVE  /\ Max(1 .. k) = k
           /\ (1 .. k) \ {k} = 1 .. (k - 1)
           /\ 1 .. k # {}
  <1>1. 1 .. k \subseteq Int /\ k \in 1 .. k /\ \A y \in 1 .. k : y <= k
    OBVIOUS
  <1>2. Max(1 .. k) = k
    BY <1>1, MaxIs
  <1>3. \A y : y \in (1 .. k) \ {k} <=> y \in 1 .. (k - 1)
    OBVIOUS
  <1> QED BY <1>1, <1>2, <1>3

\* f is the function that a fold along 1..n is defined by.
IsFold(f, n, base, step) ==
    \A s \in SUBSET (1 .. n) :
        f[s] = IF s = {} THEN base ELSE step[<<f[s \ {Max(s)}], Max(s)>>]

\* The function that a fold along 1..n is defined by exists.
LEMMA FoldExists ==
    ASSUME NEW n \in Nat, NEW T, NEW base \in T, NEW step \in [T \X (1 .. n) -> T]
    PROVE  \E f \in [SUBSET (1 .. n) -> T] : IsFold(f, n, base, step)
  <1> DEFINE Folds(f, k) == IsFold(f, k, base, step)
             Good == {k \in 0 .. n : \E f \in [SUBSET (1 .. k) -> T] : Folds(f, k)}
  <1>1. 0 \in Good
    <2> DEFINE f == [s \in SUBSET (1 .. 0) |-> base]
    <2>1. f \in [SUBSET (1 .. 0) -> T] /\ \A s \in SUBSET (1 .. 0) : s = {} /\ f[s] = base
      OBVIOUS
    <2>2. Folds(f, 0)
      BY <2>1 DEF IsFold
    <2>3. \E h \in [SUBSET (1 .. 0) -> T] : Folds(h, 0)
      <3> HIDE DEF f, Folds
      <3> QED BY <2>1, <2>2
    <2>4. 0 \in 0 .. n
      OBVIOUS
    <2> HIDE DEF f, Folds
    <2> QED BY <2>3, <2>4, Zenon
  <1>2. ASSUME NEW k \in 1 .. n, k - 1 \in Good PROVE k \in Good
    <2>1. PICK f \in [SUBSET (1 .. (k - 1)) -> T] : Folds(f, k - 1)
      BY <1>2
    <2> DEFINE g == [s \in SUBSET (1 .. k) |->
                        IF k \in s THEN step[<<f[s \ {k}], k>>] ELSE f[s]]
    <2>2. ASSUME NEW s \in SUBSET (1 .. k), k \in s
          PROVE  /\ s \ {k} \in SUBSET (1 .. (k - 1))
                 /\ g[s] = step[<<f[s \ {k}], k>>]
                 /\ g[s \ {k}] = f[s \ {k}]
                 /\ g[s] \in T
                 /\ Max(s) = k /\ s # {}
      <3>1. s \ {k} \in SUBSET (1 .. (k - 1)) /\ s \ {k} \in SUBSET (1 .. k) /\ k \notin s \ {k}
        OBVIOUS
      <3>2. Max(s) = k
        <4>1. s \subseteq Int /\ \A y \in s : y <= k
          OBVIOUS
        <4> QED BY <4>1, <2>2, MaxIs
      <3>3. f[s \ {k}] \in T /\ <<f[s \ {k}], k>> \in T \X (1 .. n)
        BY <2>1, <3>1
      <3>4. g[s] = step[<<f[s \ {k}], k>>] /\ g[s \ {k}] = f[s \ {k}]
        BY <2>2, <3>1
      <3> QED BY <2>2, <3>1, <3>2, <3>3, <3>4
    <2>3. ASSUME NEW s \in SUBSET (1 .. k), k \notin s
          PROVE  /\ s \in SUBSET (1 .. (k - 1))
                 /\ g[s] = f[s] /\ g[s] \in T
                 /\ s # {} => g[s \ {Max(s)}] = f[s \ {Max(s)}]
      <3>1. s \in SUBSET (1 .. (k - 1)) /\ k - 1 \in Nat
        BY <2>3
      <3>2. g[s] = f[s] /\ f[s] \in T
        BY <2>3, <3>1, <2>1
      <3>3. s \ {Max(s)} \in SUBSET (1 .. k) /\ k \notin s \ {Max(s)}
        BY <2>3
      <3> QED BY <3>1, <3>2, <3>3
    <2>4. g \in [SUBSET (1 .. k) -> T]
      BY <2>2, <2>3
    <2>5. ASSUME NEW s \in SUBSET (1 .. k)
          PROVE  g[s] = IF s = {} THEN base ELSE step[<<g[s \ {Max(s)}], Max(s)>>]
      <3>1. CASE k \in s
        <4> HIDE DEF g
        <4> QED BY <3>1, <2>2
      <3>2. CASE k \notin s
        <4>1. s \in SUBSET (1 .. (k - 1)) /\ g[s] = f[s]
          BY <3>2, <2>3
        <4>2. f[s] = IF s = {} THEN base ELSE step[<<f[s \ {Max(s)}], Max(s)>>]
          BY <4>1, <2>1 DEF IsFold
        <4> HIDE DEF g
        <4> QED BY <3>2, <4>1, <4>2, <2>3
      <3> QED BY <3>1, <3>2
    <2>6. Folds(g, k)
      <3> HIDE DEF g
      <3> QED BY <2>5 DEF IsFold
    <2> HIDE DEF g, Folds
    <2> QED BY <2>4, <2>6
  <1>3. n \in Good
    <2> HIDE DEF Good
    <2> QED BY <1>1, <1>2, UpTo
  <1> QED BY <1>3

\* Two functions that go along 1..n the same way arrive at the same value.
LEMMA FoldsAgree ==
    ASSUME NEW n \in Nat, NEW f, NEW g, f[{}] = g[{}],
           \A k \in 1 .. n : f[1 .. (k - 1)] = g[1 .. (k - 1)] => f[1 .. k] = g[1 .. k]
    PROVE  f[1 .. n] = g[1 .. n]
  <1> DEFINE Same == {k \in 0 .. n : f[1 .. k] = g[1 .. k]}
  <1>1. 0 \in Same
    BY 1 .. 0 = {}
  <1>2. \A k \in 1 .. n : k - 1 \in Same => k \in Same
    OBVIOUS
  <1>3. n \in Same
    <2> HIDE DEF Same
    <2> QED BY <1>1, <1>2, UpTo
  <1> QED BY <1>3

-----------------------------------------------------------------------------
(* The folds of the encoder, one more segment at a time *)

\* The fold that Total is, as a function on the beginnings of the sequence.
LEMMA TotalFold ==
    ASSUME NEW s \in Seq(Nat)
    PROVE  \E c : /\ Total(s) = c[1 .. Len(s)]
                  /\ c[{}] = 0
                  /\ \A k \in 1 .. Len(s) : c[1 .. k] = c[1 .. (k - 1)] + s[k]
                  /\ \A k \in 0 .. Len(s) : c[1 .. k] \in Nat
  <1> DEFINE n == Len(s)
             Is(f) == f = [x \in SUBSET DOMAIN s |->
                              IF x = {} THEN 0 ELSE f[x \ {Max(x)}] + s[Max(x)]]
             c == CHOOSE f : Is(f)
             step == [p \in Nat \X (1 .. n) |-> p[1] + s[p[2]]]
  <1>1. /\ n \in Nat /\ DOMAIN s = 1 .. n
        /\ \A k \in 1 .. n : s[k] \in Nat
    BY LenProperties
  <1>2. step \in [Nat \X (1 .. n) -> Nat]
    BY <1>1
  <1>3. Total(s) = c[DOMAIN s]
    BY DEF Total, FoldLeft, MapThenFoldSet
  <1>4. PICK f \in [SUBSET (1 .. n) -> Nat] : IsFold(f, n, 0, step)
    <2>1. n \in Nat /\ 0 \in Nat
      BY <1>1
    <2> HIDE DEF n, step
    <2> QED BY <2>1, <1>2, FoldExists
  <1>5. ASSUME NEW x \in SUBSET (1 .. n), x # {}
        PROVE  f[x] = f[x \ {Max(x)}] + s[Max(x)]
    <2>1. Max(x) \in x
      BY <1>1, <1>5, MaxBelow
    <2>2. Max(x) \in 1 .. n /\ x \ {Max(x)} \in SUBSET (1 .. n)
      BY <2>1
    <2>3. f[x \ {Max(x)}] \in Nat
      BY <2>2
    <2>4. f[x] = step[<<f[x \ {Max(x)}], Max(x)>>]
      <3> HIDE DEF step
      <3> QED BY <1>4, <1>5 DEF IsFold
    <2> QED BY <2>2, <2>3, <2>4
  <1>6. Is(f)
    <2>1. \A x \in SUBSET (1 .. n) :
              f[x] = IF x = {} THEN 0 ELSE f[x \ {Max(x)}] + s[Max(x)]
      BY <1>4, <1>5 DEF IsFold
    <2> QED BY <2>1, <1>1
  <1>7. Is(c)
    <2> HIDE DEF Is
    <2> QED BY <1>6
  <1>8. \A x \in SUBSET (1 .. n) :
            c[x] = IF x = {} THEN 0 ELSE c[x \ {Max(x)}] + s[Max(x)]
    <2> HIDE DEF c
    <2> QED BY <1>1, <1>7
  <1> HIDE DEF c
  <1>9. c[{}] = 0
    BY <1>8
  <1>10. ASSUME NEW k \in 1 .. n
         PROVE  c[1 .. k] = c[1 .. (k - 1)] + s[k]
    <2>1. k \in Nat /\ k # 0 /\ 1 .. k \in SUBSET (1 .. n)
      BY <1>1
    <2> QED BY <2>1, <1>8, MaxUpTo
  <1>11. \A k \in 0 .. n : c[1 .. k] \in Nat
    <2> DEFINE Good == {k \in 0 .. n : c[1 .. k] \in Nat}
    <2>1. 0 \in Good
      BY <1>1, <1>9, 1 .. 0 = {}
    <2>2. \A k \in 1 .. n : k - 1 \in Good => k \in Good
      BY <1>1, <1>10
    <2>3. \A k \in 0 .. n : k \in Good
      <3> HIDE DEF Good
      <3> QED BY <1>1, <2>1, <2>2, UpTo
    <2> QED BY <2>3
  <1> QED BY <1>1, <1>3, <1>9, <1>10, <1>11

LEMMA TotalEmpty == Total(<<>>) = 0
  <1>1. <<>> \in Seq(Nat) /\ Len(<<>>) = 0
    BY EmptySeq
  <1> QED BY <1>1, TotalFold, 1 .. 0 = {}

\* One number more.
LEMMA TotalAppend ==
    ASSUME NEW s \in Seq(Nat), NEW x \in Nat
    PROVE  /\ Total(Append(s, x)) = Total(s) + x
           /\ Total(s) \in Nat
  <1> DEFINE t == Append(s, x)
             n == Len(s)
  <1>1. /\ t \in Seq(Nat) /\ Len(t) = n + 1 /\ n \in Nat /\ (n + 1) - 1 = n
        /\ \A k \in 1 .. n : t[k] = s[k]
        /\ t[n + 1] = x
    BY AppendProperties, LenProperties
  <1> HIDE DEF t
  <1>2. PICK c : /\ Total(s) = c[1 .. Len(s)]
                 /\ c[{}] = 0
                 /\ \A k \in 1 .. Len(s) : c[1 .. k] = c[1 .. (k - 1)] + s[k]
                 /\ \A k \in 0 .. Len(s) : c[1 .. k] \in Nat
    BY TotalFold
  <1>3. PICK d : /\ Total(t) = d[1 .. Len(t)]
                 /\ d[{}] = 0
                 /\ \A k \in 1 .. Len(t) : d[1 .. k] = d[1 .. (k - 1)] + t[k]
                 /\ \A k \in 0 .. Len(t) : d[1 .. k] \in Nat
    BY <1>1, TotalFold
  <1>4. \A k \in 1 .. n : c[1 .. (k - 1)] = d[1 .. (k - 1)] => c[1 .. k] = d[1 .. k]
    <2> SUFFICES ASSUME NEW k \in 1 .. n, c[1 .. (k - 1)] = d[1 .. (k - 1)]
                 PROVE  c[1 .. k] = d[1 .. k]
      OBVIOUS
    <2>1. k \in 1 .. Len(t) /\ t[k] = s[k]
      BY <1>1
    <2>2. c[1 .. k] = c[1 .. (k - 1)] + s[k]
      BY <1>2
    <2>3. d[1 .. k] = d[1 .. (k - 1)] + t[k]
      BY <1>3, <2>1
    <2> QED BY <2>1, <2>2, <2>3
  <1>5. c[1 .. n] = d[1 .. n]
    <2>1. c[{}] = d[{}]
      BY <1>2, <1>3
    <2> HIDE DEF n
    <2> QED BY <1>1, <1>4, <2>1, FoldsAgree
  <1>6. d[1 .. (n + 1)] = d[1 .. n] + x
    <2>1. n + 1 \in 1 .. Len(t)
      BY <1>1
    <2>2. d[1 .. (n + 1)] = d[1 .. ((n + 1) - 1)] + t[n + 1]
      BY <1>3, <2>1
    <2> QED BY <1>1, <2>2
  <1>7. c[1 .. n] \in Nat
    BY <1>1, <1>2
  <1> QED BY <1>1, <1>2, <1>3, <1>5, <1>6, <1>7 DEF t

-----------------------------------------------------------------------------
(* Bits and characters of segments *)

\* What getBitsLength and the headers count.
LEMMA BitsTyped ==
    ASSUME NEW mode \in Mode, NEW n \in Nat, NEW v \in Version
    PROVE  /\ BitsLength(mode, n) \in Nat
           /\ ReservedBits(mode, v) \in 1 .. 20
           /\ SegmentBits(mode, n, v) \in Nat
           /\ SegmentBits(mode, n, v) = BitsLength(mode, n) + ReservedBits(mode, v)
  <1>1. BitsLength(mode, n) \in Nat
    BY DEF BitsLength, Mode, Numeric, Alphanumeric, Byte
  <1>2. CharCountIndicator(mode, v) \in 8 .. 16
    BY DEF CharCountIndicator, Mode, Numeric, Alphanumeric, Byte, Version
  <1>3. ReservedBits(mode, v) \in 1 .. 20
    BY <1>2 DEF ReservedBits
  <1> QED BY <1>1, <1>3 DEF SegmentBits

\* The characters of one segment more.
LEMMA CharactersLaws ==
    /\ Characters(<<>>) = 0
    /\ \A s \in Seq(Segment), x \in Segment :
           /\ Characters(s) \in Nat
           /\ Characters(Append(s, x)) = Characters(s) + x.length
  <1>1. Characters(<<>>) = 0
    <2>1. [k \in DOMAIN <<>> |-> (<<>>)[k].length] = <<>>
      OBVIOUS
    <2> QED BY <2>1, TotalEmpty DEF Characters
  <1>2. ASSUME NEW s \in Seq(Segment), NEW x \in Segment
        PROVE  /\ Characters(s) \in Nat
               /\ Characters(Append(s, x)) = Characters(s) + x.length
    <2> DEFINE f == [k \in DOMAIN s |-> s[k].length]
               t == Append(s, x)
               g == [k \in DOMAIN t |-> t[k].length]
    <2>1. /\ t \in Seq(Segment) /\ Len(t) = Len(s) + 1 /\ Len(s) \in Nat
          /\ DOMAIN t = 1 .. Len(s) + 1 /\ DOMAIN s = 1 .. Len(s)
          /\ \A k \in 1 .. Len(s) : t[k] = s[k] /\ s[k] \in Segment
          /\ t[Len(s) + 1] = x
      BY AppendProperties, LenProperties
    <2> HIDE DEF t
    <2>2. f \in [1 .. Len(s) -> Nat] /\ x.length \in Nat
      BY <2>1 DEF Segment
    <2>3. f \in Seq(Nat) /\ Len(f) = Len(s)
      BY <2>1, <2>2, SeqDef
    <2>4. g = Append(f, x.length)
      <3>1. /\ Append(f, x.length) \in Seq(Nat)
            /\ DOMAIN Append(f, x.length) = 1 .. Len(s) + 1
            /\ \A k \in 1 .. Len(s) : Append(f, x.length)[k] = s[k].length
            /\ Append(f, x.length)[Len(s) + 1] = x.length
        <4> HIDE DEF f
        <4>1. \A k \in 1 .. Len(s) : f[k] = s[k].length
          BY <2>1 DEF f
        <4> QED BY <2>2, <2>3, <4>1, AppendProperties, LenProperties
      <3> QED BY <2>1, <2>2, <3>1
    <2> HIDE DEF f, g
    <2>5. Total(g) = Total(f) + x.length /\ Total(f) \in Nat
      BY <2>2, <2>3, <2>4, TotalAppend
    <2> QED BY <2>5 DEF Characters, f, g, t
  <1> QED BY <1>1, <1>2

-----------------------------------------------------------------------------
(* Merging *)

\* A sequence taken apart at its end.
LEMMA FrontLast ==
    ASSUME NEW S, NEW h \in Seq(S), NEW e \in S
    PROVE  Front(Append(h, e)) = h /\ Last(Append(h, e)) = e
  <1> DEFINE t == Append(h, e)
  <1>1. /\ t \in Seq(S) /\ Len(t) = Len(h) + 1 /\ Len(h) \in Nat
        /\ \A k \in 1 .. Len(h) : t[k] = h[k] /\ h[k] \in S
        /\ t[Len(h) + 1] = e
    BY AppendProperties, LenProperties
  <1> HIDE DEF t
  <1>2. Last(t) = e
    BY <1>1 DEF Last
  <1>3. /\ SubSeq(t, 1, Len(h)) \in Seq(S) /\ Len(SubSeq(t, 1, Len(h))) = Len(h)
        /\ \A k \in 1 .. Len(h) : SubSeq(t, 1, Len(h))[k] = h[k]
    <2>1. \A i \in 1 .. Len(h) : t[i] \in S
      BY <1>1
    <2>2. /\ SubSeq(t, 1, Len(h)) \in Seq(S)
          /\ Len(SubSeq(t, 1, Len(h))) = IF 1 <= Len(h) THEN Len(h) - 1 + 1 ELSE 0
          /\ \A i \in 1 .. Len(h) - 1 + 1 : SubSeq(t, 1, Len(h))[i] = t[1 + i - 1]
      BY <1>1, <2>1, SubSeqProperties
    <2> QED BY <1>1, <2>2
  <1>4. SubSeq(t, 1, Len(h)) = h
    BY <1>3, SeqEqual
  <1>5. Front(t) = h
    <2>1. Len(t) - 1 = Len(h)
      BY <1>1
    <2> QED BY <1>4, <2>1 DEF Front
  <1> QED BY <1>2, <1>5 DEF t

\* What one more segment does to segments that are merged.
LEMMA JoinedIs ==
    ASSUME NEW x \in Segment
    PROVE  /\ Joined(<<>>, x) = Append(<<>>, x)
           /\ \A h \in Seq(Segment), e \in Segment :
                  /\ Append(h, e) \in Seq(Segment)
                  /\ e.mode # x.mode => Joined(Append(h, e), x) = Append(Append(h, e), x)
                  /\ e.mode = x.mode =>
                         Joined(Append(h, e), x)
                         = Append(h, [mode |-> x.mode, length |-> x.length + e.length])
  <1>1. Joined(<<>>, x) = Append(<<>>, x)
    BY DEF Joined
  <1>2. ASSUME NEW h \in Seq(Segment), NEW e \in Segment
        PROVE  /\ Append(h, e) \in Seq(Segment)
               /\ e.mode # x.mode => Joined(Append(h, e), x) = Append(Append(h, e), x)
               /\ e.mode = x.mode =>
                      Joined(Append(h, e), x)
                      = Append(h, [mode |-> x.mode, length |-> x.length + e.length])
    <2> DEFINE t == Append(h, e)
    <2>1. t # <<>> /\ t \in Seq(Segment)
      BY AppendProperties
    <2>2. Front(t) = h /\ Last(t) = e
      BY FrontLast
    <2>3. [x EXCEPT !.length = @ + e.length]
          = [mode |-> x.mode, length |-> x.length + e.length]
      BY DEF Segment
    <2> HIDE DEF t
    <2>4. e.mode # x.mode => Joined(t, x) = Append(t, x)
      BY <2>1, <2>2 DEF Joined
    <2>5. e.mode = x.mode => Joined(t, x) = Append(h, [x EXCEPT !.length = @ + e.length])
      BY <2>1, <2>2 DEF Joined
    <2> QED BY <2>1, <2>3, <2>4, <2>5 DEF t
  <1> QED BY <1>1, <1>2

LEMMA JoinedTyped ==
    ASSUME NEW done \in Seq(Segment), NEW x \in Segment
    PROVE  Joined(done, x) \in Seq(Segment) /\ Joined(done, x) # <<>>
  <1>1. CASE done = <<>>
    <2>1. <<>> \in Seq(Segment)
      BY EmptySeq
    <2>2. Append(<<>>, x) \in Seq(Segment) /\ Append(<<>>, x) # <<>>
      BY <2>1, AppendProperties
    <2>3. Joined(<<>>, x) = Append(<<>>, x)
      BY JoinedIs
    <2> QED BY <1>1, <2>2, <2>3
  <1>2. CASE done # <<>>
    <2>1. PICK h \in Seq(Segment), e \in Segment : done = Append(h, e)
      BY <1>2, SequenceEmptyOrAppend
    <2>2. [mode |-> x.mode, length |-> x.length + e.length] \in Segment
      BY DEF Segment
    <2>3. CASE e.mode # x.mode
      <3>1. Joined(done, x) = Append(done, x)
        BY <2>1, <2>3, JoinedIs
      <3> QED BY <3>1, AppendProperties
    <2>4. CASE e.mode = x.mode
      <3>1. Joined(done, x) = Append(h, [mode |-> x.mode, length |-> x.length + e.length])
        BY <2>1, <2>4, JoinedIs
      <3> QED BY <3>1, <2>2, AppendProperties
    <2> QED BY <2>3, <2>4
  <1> QED BY <1>1, <1>2

\* The fold that Merge is, as a function on the beginnings of the sequence.
LEMMA MergeFold ==
    ASSUME NEW s \in Seq(Segment)
    PROVE  \E c : /\ Merge(s) = c[1 .. Len(s)]
                  /\ c[{}] = <<>>
                  /\ \A k \in 1 .. Len(s) : c[1 .. k] = Joined(c[1 .. (k - 1)], s[k])
                  /\ \A k \in 0 .. Len(s) : c[1 .. k] \in Seq(Segment)
  <1> DEFINE n == Len(s)
             Is(f) == f = [x \in SUBSET DOMAIN s |->
                              IF x = {} THEN <<>> ELSE Joined(f[x \ {Max(x)}], s[Max(x)])]
             c == CHOOSE f : Is(f)
             step == [p \in Seq(Segment) \X (1 .. n) |-> Joined(p[1], s[p[2]])]
  <1>1. /\ n \in Nat /\ DOMAIN s = 1 .. n
        /\ \A k \in 1 .. n : s[k] \in Segment
    BY LenProperties
  <1>2. step \in [Seq(Segment) \X (1 .. n) -> Seq(Segment)]
    <2>1. \A done \in Seq(Segment), k \in 1 .. n : Joined(done, s[k]) \in Seq(Segment)
      BY <1>1, JoinedTyped
    <2> QED BY <2>1
  <1>3. Merge(s) = c[DOMAIN s]
    BY DEF Merge, FoldLeft, MapThenFoldSet
  <1>4. PICK f \in [SUBSET (1 .. n) -> Seq(Segment)] : IsFold(f, n, <<>>, step)
    <2>1. n \in Nat /\ <<>> \in Seq(Segment)
      BY <1>1, EmptySeq
    <2> HIDE DEF n, step
    <2> QED BY <2>1, <1>2, FoldExists
  <1>5. ASSUME NEW x \in SUBSET (1 .. n), x # {}
        PROVE  f[x] = Joined(f[x \ {Max(x)}], s[Max(x)])
    <2>1. Max(x) \in x
      BY <1>1, <1>5, MaxBelow
    <2>2. Max(x) \in 1 .. n /\ x \ {Max(x)} \in SUBSET (1 .. n)
      BY <2>1
    <2>3. f[x \ {Max(x)}] \in Seq(Segment)
      BY <2>2
    <2>4. f[x] = step[<<f[x \ {Max(x)}], Max(x)>>]
      <3> HIDE DEF step
      <3> QED BY <1>4, <1>5 DEF IsFold
    <2> QED BY <2>2, <2>3, <2>4
  <1>6. Is(f)
    <2>1. \A x \in SUBSET (1 .. n) :
              f[x] = IF x = {} THEN <<>> ELSE Joined(f[x \ {Max(x)}], s[Max(x)])
      BY <1>4, <1>5 DEF IsFold
    <2> QED BY <2>1, <1>1
  <1>7. Is(c)
    <2> HIDE DEF Is
    <2> QED BY <1>6
  <1>8. \A x \in SUBSET (1 .. n) :
            c[x] = IF x = {} THEN <<>> ELSE Joined(c[x \ {Max(x)}], s[Max(x)])
    <2> HIDE DEF c
    <2> QED BY <1>1, <1>7
  <1> HIDE DEF c
  <1>9. c[{}] = <<>>
    BY <1>8
  <1>10. ASSUME NEW k \in 1 .. n
         PROVE  c[1 .. k] = Joined(c[1 .. (k - 1)], s[k])
    <2>1. k \in Nat /\ k # 0 /\ 1 .. k \in SUBSET (1 .. n)
      BY <1>1
    <2> QED BY <2>1, <1>8, MaxUpTo
  <1>11. \A k \in 0 .. n : c[1 .. k] \in Seq(Segment)
    <2> DEFINE Good == {k \in 0 .. n : c[1 .. k] \in Seq(Segment)}
    <2>1. 0 \in Good
      <3>1. <<>> \in Seq(Segment) /\ 1 .. 0 = {} /\ 0 \in 0 .. n
        BY <1>1, EmptySeq
      <3> QED BY <1>9, <3>1
    <2>2. \A k \in 1 .. n : k - 1 \in Good => k \in Good
      <3> SUFFICES ASSUME NEW k \in 1 .. n, c[1 .. (k - 1)] \in Seq(Segment)
                   PROVE  k \in Good
        OBVIOUS
      <3>1. s[k] \in Segment /\ k \in 0 .. n
        BY <1>1
      <3>2. Joined(c[1 .. (k - 1)], s[k]) \in Seq(Segment)
        BY <3>1, JoinedTyped
      <3> QED BY <1>10, <3>1, <3>2
    <2>3. \A k \in 0 .. n : k \in Good
      <3> HIDE DEF Good
      <3> QED BY <1>1, <2>1, <2>2, UpTo
    <2> QED BY <2>3
  <1> QED BY <1>1, <1>3, <1>9, <1>10, <1>11

\* One segment more is joined to the merged segments before it.
LEMMA MergeAppend ==
    ASSUME NEW s \in Seq(Segment), NEW x \in Segment
    PROVE  /\ Merge(Append(s, x)) = Joined(Merge(s), x)
           /\ Merge(s) \in Seq(Segment)
  <1> DEFINE t == Append(s, x)
             n == Len(s)
  <1>1. /\ t \in Seq(Segment) /\ Len(t) = n + 1 /\ n \in Nat /\ (n + 1) - 1 = n
        /\ \A k \in 1 .. n : t[k] = s[k]
        /\ t[n + 1] = x
    BY AppendProperties, LenProperties
  <1> HIDE DEF t
  <1>2. PICK c : /\ Merge(s) = c[1 .. Len(s)]
                 /\ c[{}] = <<>>
                 /\ \A k \in 1 .. Len(s) : c[1 .. k] = Joined(c[1 .. (k - 1)], s[k])
                 /\ \A k \in 0 .. Len(s) : c[1 .. k] \in Seq(Segment)
    BY MergeFold
  <1>3. PICK d : /\ Merge(t) = d[1 .. Len(t)]
                 /\ d[{}] = <<>>
                 /\ \A k \in 1 .. Len(t) : d[1 .. k] = Joined(d[1 .. (k - 1)], t[k])
                 /\ \A k \in 0 .. Len(t) : d[1 .. k] \in Seq(Segment)
    BY <1>1, MergeFold
  <1>4. \A k \in 1 .. n : c[1 .. (k - 1)] = d[1 .. (k - 1)] => c[1 .. k] = d[1 .. k]
    <2> SUFFICES ASSUME NEW k \in 1 .. n, c[1 .. (k - 1)] = d[1 .. (k - 1)]
                 PROVE  c[1 .. k] = d[1 .. k]
      OBVIOUS
    <2>1. k \in 1 .. Len(t) /\ t[k] = s[k]
      BY <1>1
    <2>2. c[1 .. k] = Joined(c[1 .. (k - 1)], s[k])
      BY <1>2
    <2>3. d[1 .. k] = Joined(d[1 .. (k - 1)], t[k])
      BY <1>3, <2>1
    <2> QED BY <2>1, <2>2, <2>3
  <1>5. c[1 .. n] = d[1 .. n]
    <2>1. c[{}] = d[{}]
      BY <1>2, <1>3
    <2> HIDE DEF n
    <2> QED BY <1>1, <1>4, <2>1, FoldsAgree
  <1>6. d[1 .. (n + 1)] = Joined(d[1 .. n], x)
    <2>1. n + 1 \in 1 .. Len(t)
      BY <1>1
    <2>2. d[1 .. (n + 1)] = Joined(d[1 .. ((n + 1) - 1)], t[n + 1])
      BY <1>3, <2>1
    <2> QED BY <1>1, <2>2
  <1>7. c[1 .. n] \in Seq(Segment)
    BY <1>1, <1>2
  <1> QED BY <1>1, <1>2, <1>3, <1>5, <1>6, <1>7 DEF t

LEMMA MergeEmpty == Merge(<<>>) = <<>>
  <1>1. <<>> \in Seq(Segment) /\ Len(<<>>) = 0
    BY EmptySeq
  <1> QED BY <1>1, MergeFold, 1 .. 0 = {}

\* The bits of one segment more.
LEMMA TotalBitsLaws ==
    ASSUME NEW v \in Version
    PROVE  /\ TotalBits(<<>>, v) = 0
           /\ \A s \in Seq(Segment), x \in Segment :
                  /\ TotalBits(s, v) \in Nat
                  /\ TotalBits(Append(s, x), v) = TotalBits(s, v) + SegmentBits(x.mode, x.length, v)
  <1>1. TotalBits(<<>>, v) = 0
    <2>1. [k \in DOMAIN <<>> |-> SegmentBits((<<>>)[k].mode, (<<>>)[k].length, v)] = <<>>
      OBVIOUS
    <2> QED BY <2>1, TotalEmpty DEF TotalBits
  <1>2. ASSUME NEW s \in Seq(Segment), NEW x \in Segment
        PROVE  /\ TotalBits(s, v) \in Nat
               /\ TotalBits(Append(s, x), v) = TotalBits(s, v) + SegmentBits(x.mode, x.length, v)
    <2> DEFINE f == [k \in DOMAIN s |-> SegmentBits(s[k].mode, s[k].length, v)]
               t == Append(s, x)
               g == [k \in DOMAIN t |-> SegmentBits(t[k].mode, t[k].length, v)]
    <2>1. /\ t \in Seq(Segment) /\ Len(t) = Len(s) + 1 /\ Len(s) \in Nat
          /\ DOMAIN t = 1 .. Len(s) + 1 /\ DOMAIN s = 1 .. Len(s)
          /\ \A k \in 1 .. Len(s) : t[k] = s[k] /\ s[k] \in Segment
          /\ t[Len(s) + 1] = x
      BY AppendProperties, LenProperties
    <2> HIDE DEF t
    <2>2. f \in [1 .. Len(s) -> Nat] /\ SegmentBits(x.mode, x.length, v) \in Nat
      BY <2>1, BitsTyped DEF Segment
    <2>3. f \in Seq(Nat) /\ Len(f) = Len(s)
      BY <2>1, <2>2, SeqDef
    <2>4. g = Append(f, SegmentBits(x.mode, x.length, v))
      <3>1. /\ Append(f, SegmentBits(x.mode, x.length, v)) \in Seq(Nat)
            /\ DOMAIN Append(f, SegmentBits(x.mode, x.length, v)) = 1 .. Len(s) + 1
            /\ \A k \in 1 .. Len(s) :
                   Append(f, SegmentBits(x.mode, x.length, v))[k]
                   = SegmentBits(s[k].mode, s[k].length, v)
            /\ Append(f, SegmentBits(x.mode, x.length, v))[Len(s) + 1]
               = SegmentBits(x.mode, x.length, v)
        <4> HIDE DEF f
        <4>1. \A k \in 1 .. Len(s) : f[k] = SegmentBits(s[k].mode, s[k].length, v)
          BY <2>1 DEF f
        <4> QED BY <2>2, <2>3, <4>1, AppendProperties, LenProperties
      <3> QED BY <2>1, <2>2, <3>1
    <2> HIDE DEF f, g
    <2>5. Total(g) = Total(f) + SegmentBits(x.mode, x.length, v) /\ Total(f) \in Nat
      BY <2>2, <2>3, <2>4, TotalAppend
    <2> QED BY <2>5 DEF TotalBits, f, g, t
  <1> QED BY <1>1, <1>2

-----------------------------------------------------------------------------
(* Prefixes *)

LEMMA PrefixTyped ==
    ASSUME NEW S, NEW s \in Seq(S), NEW k \in 0 .. Len(s)
    PROVE  /\ SubSeq(s, 1, k) \in Seq(S) /\ Len(SubSeq(s, 1, k)) = k
           /\ \A j \in 1 .. k : SubSeq(s, 1, k)[j] = s[j]
  <1>1. Len(s) \in Nat /\ \A i \in 1 .. Len(s) : s[i] \in S
    BY LenProperties
  <1>2. \A i \in 1 .. k : s[i] \in S
    BY <1>1
  <1>3. /\ SubSeq(s, 1, k) \in Seq(S)
        /\ Len(SubSeq(s, 1, k)) = IF 1 <= k THEN k - 1 + 1 ELSE 0
        /\ \A i \in 1 .. k - 1 + 1 : SubSeq(s, 1, k)[i] = s[1 + i - 1]
    BY <1>1, <1>2, SubSeqProperties
  <1> QED BY <1>1, <1>3

LEMMA PrefixEnds ==
    ASSUME NEW S, NEW s \in Seq(S)
    PROVE  SubSeq(s, 1, 0) = <<>> /\ SubSeq(s, 1, Len(s)) = s
  <1>1. SubSeq(s, 1, 0) = <<>>
    BY SubSeqEmpty
  <1>2. Len(s) \in Nat /\ Len(s) \in 0 .. Len(s)
    BY LenProperties
  <1>3. /\ SubSeq(s, 1, Len(s)) \in Seq(S) /\ Len(SubSeq(s, 1, Len(s))) = Len(s)
        /\ \A j \in 1 .. Len(s) : SubSeq(s, 1, Len(s))[j] = s[j]
    BY <1>2, PrefixTyped
  <1>4. SubSeq(s, 1, Len(s)) = s
    BY <1>3, SeqEqual
  <1> QED BY <1>1, <1>4

LEMMA PrefixGrows ==
    ASSUME NEW S, NEW s \in Seq(S), NEW k \in 1 .. Len(s)
    PROVE  s[k] \in S /\ SubSeq(s, 1, k) = Append(SubSeq(s, 1, k - 1), s[k])
  <1> DEFINE a == SubSeq(s, 1, k)
             b == SubSeq(s, 1, k - 1)
  <1>1. Len(s) \in Nat /\ s[k] \in S
    BY LenProperties
  <1>2. k \in 0 .. Len(s) /\ k - 1 \in 0 .. Len(s) /\ (k - 1) + 1 = k
    BY <1>1
  <1>3. a \in Seq(S) /\ Len(a) = k /\ \A j \in 1 .. k : a[j] = s[j]
    BY <1>2, PrefixTyped
  <1>4. b \in Seq(S) /\ Len(b) = k - 1 /\ \A j \in 1 .. k - 1 : b[j] = s[j]
    BY <1>2, PrefixTyped
  <1> HIDE DEF a, b
  <1>5. /\ Append(b, s[k]) \in Seq(S) /\ Len(Append(b, s[k])) = k
        /\ \A j \in 1 .. k - 1 : Append(b, s[k])[j] = s[j]
        /\ Append(b, s[k])[k] = s[k]
    BY <1>1, <1>2, <1>4, AppendProperties
  <1>6. \A j \in 1 .. k : a[j] = Append(b, s[k])[j]
    BY <1>2, <1>3, <1>5
  <1>7. a = Append(b, s[k])
    BY <1>3, <1>5, <1>6, SeqEqual
  <1> QED BY <1>1, <1>7 DEF a, b

LEMMA PrefixOfAppend ==
    ASSUME NEW S, NEW s \in Seq(S), NEW x \in S, NEW k \in 0 .. Len(s)
    PROVE  SubSeq(Append(s, x), 1, k) = SubSeq(s, 1, k)
  <1> DEFINE t == Append(s, x)
  <1>1. /\ t \in Seq(S) /\ Len(t) = Len(s) + 1 /\ Len(s) \in Nat
        /\ \A j \in 1 .. Len(s) : t[j] = s[j]
    BY AppendProperties, LenProperties
  <1> HIDE DEF t
  <1>2. k \in 0 .. Len(t)
    BY <1>1
  <1>3. /\ SubSeq(s, 1, k) \in Seq(S) /\ Len(SubSeq(s, 1, k)) = k
        /\ \A j \in 1 .. k : SubSeq(s, 1, k)[j] = s[j]
    BY PrefixTyped
  <1>4. /\ SubSeq(t, 1, k) \in Seq(S) /\ Len(SubSeq(t, 1, k)) = k
        /\ \A j \in 1 .. k : SubSeq(t, 1, k)[j] = t[j]
    BY <1>1, <1>2, PrefixTyped
  <1>5. \A j \in 1 .. k : SubSeq(t, 1, k)[j] = SubSeq(s, 1, k)[j]
    BY <1>1, <1>3, <1>4
  <1>6. SubSeq(t, 1, k) = SubSeq(s, 1, k)
    BY <1>3, <1>4, <1>5, SeqEqual
  <1> QED BY <1>6 DEF t

-----------------------------------------------------------------------------
(* What segments stand for *)

\* One after the other, the segments stand for the beginning of the text, each
\* for characters of the classes that table W allows to its mode.
Covers(s, text, W) ==
    /\ Characters(s) <= Len(text)
    /\ \A k \in 1 .. Len(s) :
           \A i \in Characters(SubSeq(s, 1, k - 1)) + 1
                    .. Characters(SubSeq(s, 1, k - 1)) + s[k].length :
               text[i] \in W[s[k].mode]

LEMMA CoversEmpty ==
    ASSUME NEW text \in Seq(Mode), NEW W
    PROVE  Covers(<<>>, text, W)
  <1>1. Len(text) \in Nat
    BY LenProperties
  <1>2. Len(<<>>) = 0
    OBVIOUS
  <1> QED BY <1>1, <1>2, CharactersLaws DEF Covers

\* One segment more stands for the characters that follow.
LEMMA CoversAppend ==
    ASSUME NEW text \in Seq(Mode), NEW W, NEW s \in Seq(Segment), NEW x \in Segment
    PROVE  Covers(Append(s, x), text, W)
           <=> /\ Covers(s, text, W)
               /\ Characters(s) + x.length <= Len(text)
               /\ \A i \in Characters(s) + 1 .. Characters(s) + x.length : text[i] \in W[x.mode]
  <1> DEFINE t == Append(s, x)
             n == Len(s)
             At(r, k) == \A i \in Characters(SubSeq(r, 1, k - 1)) + 1
                                  .. Characters(SubSeq(r, 1, k - 1)) + r[k].length :
                             text[i] \in W[r[k].mode]
  <1>1. /\ t \in Seq(Segment) /\ Len(t) = n + 1 /\ n \in Nat /\ Len(text) \in Nat
        /\ \A k \in 1 .. n : t[k] = s[k]
        /\ t[n + 1] = x
    BY AppendProperties, LenProperties
  <1>2. \A k \in 0 .. n : SubSeq(t, 1, k) = SubSeq(s, 1, k)
    BY PrefixOfAppend
  <1>3. SubSeq(t, 1, n) = s
    BY <1>1, <1>2, PrefixEnds
  <1>4. Characters(t) = Characters(s) + x.length /\ Characters(s) \in Nat /\ x.length \in Nat
    BY CharactersLaws DEF Segment
  <1> HIDE DEF t
  <1>5. ASSUME NEW k \in 1 .. n PROVE At(t, k) <=> At(s, k)
    <2>1. k - 1 \in 0 .. n /\ t[k] = s[k]
      BY <1>1
    <2>2. SubSeq(t, 1, k - 1) = SubSeq(s, 1, k - 1)
      BY <1>2, <2>1
    <2> QED BY <2>1, <2>2
  <1>6. At(t, n + 1)
        <=> \A i \in Characters(s) + 1 .. Characters(s) + x.length : text[i] \in W[x.mode]
    <2>1. (n + 1) - 1 = n
      BY <1>1
    <2> HIDE DEF n
    <2> QED BY <1>1, <1>3, <2>1
  <1> HIDE DEF At, n
  <1>7. (\A k \in 1 .. n + 1 : At(t, k)) <=> (\A k \in 1 .. n : At(s, k)) /\ At(t, n + 1)
    BY <1>1, <1>5
  <1>8. Covers(t, text, W) <=> Characters(t) <= Len(text) /\ \A k \in 1 .. n + 1 : At(t, k)
    BY <1>1 DEF Covers, At
  <1>9. Covers(s, text, W) <=> Characters(s) <= Len(text) /\ \A k \in 1 .. n : At(s, k)
    BY DEF Covers, At, n
  <1>10. Characters(s) + x.length <= Len(text) => Characters(s) <= Len(text)
    BY <1>1, <1>4
  <1> QED BY <1>4, <1>6, <1>7, <1>8, <1>9, <1>10 DEF t

\* A segment that is joined to the last one stands for what it stood for alone.
LEMMA CoversJoined ==
    ASSUME NEW text \in Seq(Mode), NEW W, NEW s \in Seq(Segment), NEW x \in Segment,
           Covers(Append(s, x), text, W)
    PROVE  /\ Covers(Joined(s, x), text, W)
           /\ Characters(Joined(s, x)) = Characters(s) + x.length
  <1>1. CASE Joined(s, x) = Append(s, x)
    BY <1>1, CharactersLaws
  <1>2. CASE Joined(s, x) # Append(s, x)
    <2>1. s # <<>>
      BY <1>2, JoinedIs
    <2>2. PICK h \in Seq(Segment), e \in Segment : s = Append(h, e)
      BY <2>1, SequenceEmptyOrAppend
    <2> DEFINE y == [mode |-> x.mode, length |-> x.length + e.length]
    <2>3. e.mode = x.mode /\ Joined(s, x) = Append(h, y)
      BY <1>2, <2>2, JoinedIs
    <2>4. /\ y \in Segment /\ y.mode = e.mode /\ y.length = x.length + e.length
          /\ x.length \in Nat /\ e.length \in Nat
      BY <2>3 DEF Segment
    <2>5. /\ Covers(h, text, W)
          /\ \A i \in Characters(h) + 1 .. Characters(h) + e.length : text[i] \in W[e.mode]
          /\ Characters(s) + x.length <= Len(text)
          /\ \A i \in Characters(s) + 1 .. Characters(s) + x.length : text[i] \in W[e.mode]
      <3>1. Covers(s, text, W) /\ Characters(s) + x.length <= Len(text)
            /\ \A i \in Characters(s) + 1 .. Characters(s) + x.length : text[i] \in W[x.mode]
        BY CoversAppend
      <3>2. Covers(Append(h, e), text, W)
        BY <2>2, <3>1
      <3>3. Covers(h, text, W)
            /\ \A i \in Characters(h) + 1 .. Characters(h) + e.length : text[i] \in W[e.mode]
        BY <3>2, CoversAppend
      <3> QED BY <2>3, <3>1, <3>3
    <2>6. Characters(s) = Characters(h) + e.length /\ Characters(h) \in Nat
      BY <2>2, CharactersLaws
    <2>7. Characters(Append(h, y)) = Characters(h) + y.length
      BY <2>4, CharactersLaws
    <2> HIDE DEF y
    <2>8. Characters(h) + y.length = Characters(s) + x.length
      BY <2>4, <2>6
    <2>9. \A i \in Characters(h) + 1 .. Characters(h) + y.length : text[i] \in W[y.mode]
      <3> SUFFICES ASSUME NEW i \in Characters(h) + 1 .. Characters(h) + y.length
                   PROVE  text[i] \in W[e.mode]
        BY <2>4
      <3>1. \/ i \in Characters(h) + 1 .. Characters(h) + e.length
            \/ i \in Characters(s) + 1 .. Characters(s) + x.length
        BY <2>4, <2>6
      <3> QED BY <2>5, <3>1
    <2>10. Covers(Append(h, y), text, W)
      BY <2>4, <2>5, <2>8, <2>9, CoversAppend
    <2> QED BY <2>3, <2>7, <2>8, <2>10
  <1> QED BY <1>1, <1>2

\* What stands for the text, so do its beginnings.
LEMMA CoversPrefix ==
    ASSUME NEW text \in Seq(Mode), NEW W, NEW s \in Seq(Segment), Covers(s, text, W)
    PROVE  \A k \in 0 .. Len(s) : Covers(SubSeq(s, 1, k), text, W)
  <1> DEFINE P(k) == SubSeq(s, 1, k)
             n == Len(s)
             Good == {j \in 0 .. n : Covers(P(n - j), text, W)}
  <1>1. n \in Nat
    BY LenProperties
  <1>2. 0 \in Good
    <2>1. n - 0 = n /\ 0 \in 0 .. n
      BY <1>1
    <2>2. P(n) = s
      BY PrefixEnds
    <2> HIDE DEF P, n
    <2> QED BY <2>1, <2>2
  <1>3. ASSUME NEW j \in 1 .. n, j - 1 \in Good PROVE j \in Good
    <2> DEFINE k == n - (j - 1)
    <2>1. j \in 0 .. n /\ k \in 1 .. n /\ k - 1 = n - j /\ k - 1 \in 0 .. n
      BY <1>1
    <2>2. Covers(P(k), text, W)
      BY <1>3
    <2> HIDE DEF k
    <2>3. P(k - 1) \in Seq(Segment) /\ s[k] \in Segment /\ P(k) = Append(P(k - 1), s[k])
      BY <2>1, PrefixTyped, PrefixGrows
    <2> HIDE DEF P
    <2>4. Covers(P(k - 1), text, W)
      BY <2>2, <2>3, CoversAppend
    <2> HIDE DEF n
    <2> QED BY <2>1, <2>4
  <1>4. \A j \in 0 .. n : j \in Good
    <2> HIDE DEF Good, n
    <2> QED BY <1>1, <1>2, <1>3, UpTo
  <1>5. ASSUME NEW k \in 0 .. n PROVE Covers(P(k), text, W)
    <2>1. n - k \in 0 .. n /\ n - (n - k) = k
      BY <1>1
    <2>2. Covers(P(n - (n - k)), text, W)
      BY <1>4, <2>1
    <2> HIDE DEF P, n
    <2> QED BY <2>1, <2>2
  <1> QED BY <1>5

\* Merging changes what stands for the text, not the text.
LEMMA CoversMerge ==
    ASSUME NEW text \in Seq(Mode), NEW W, NEW s \in Seq(Segment), Covers(s, text, W)
    PROVE  Covers(Merge(s), text, W) /\ Characters(Merge(s)) = Characters(s)
  <1> DEFINE P(k) == SubSeq(s, 1, k)
             n == Len(s)
             Merged(k) == /\ Covers(Merge(P(k)), text, W)
                          /\ Characters(Merge(P(k))) = Characters(P(k))
             Good == {k \in 0 .. n : Merged(k)}
  <1>1. n \in Nat
    BY LenProperties
  <1>2. \A k \in 0 .. n : P(k) \in Seq(Segment) /\ Covers(P(k), text, W)
    BY PrefixTyped, CoversPrefix
  <1>3. 0 \in Good
    <2>1. P(0) = <<>> /\ 0 \in 0 .. n
      BY <1>1, PrefixEnds
    <2> QED BY <2>1, MergeEmpty, CoversEmpty
  <1>4. ASSUME NEW k \in 1 .. n, k - 1 \in Good PROVE k \in Good
    <2> DEFINE p == P(k - 1)
               m == Merge(p)
               x == s[k]
    <2>1. k \in 0 .. n /\ k - 1 \in 0 .. n
      BY <1>1
    <2>2. /\ p \in Seq(Segment) /\ x \in Segment /\ P(k) = Append(p, x)
          /\ Covers(Append(p, x), text, W)
      <3>1. x \in Segment /\ P(k) = Append(p, x)
        BY PrefixGrows
      <3>2. p \in Seq(Segment) /\ Covers(P(k), text, W)
        BY <1>2, <2>1
      <3> QED BY <3>1, <3>2
    <2>3. Covers(m, text, W) /\ Characters(m) = Characters(p)
      BY <1>4
    <2> HIDE DEF p, x
    <2>4. m \in Seq(Segment) /\ Merge(P(k)) = Joined(m, x)
      BY <2>2, MergeAppend
    <2>5. /\ Characters(p) + x.length <= Len(text)
          /\ \A i \in Characters(p) + 1 .. Characters(p) + x.length : text[i] \in W[x.mode]
      BY <2>2, CoversAppend
    <2> HIDE DEF m
    <2>6. Covers(Append(m, x), text, W)
      BY <2>2, <2>3, <2>4, <2>5, CoversAppend
    <2>7. Covers(Joined(m, x), text, W) /\ Characters(Joined(m, x)) = Characters(m) + x.length
      BY <2>2, <2>4, <2>6, CoversJoined
    <2>8. Characters(P(k)) = Characters(p) + x.length
      BY <2>2, CharactersLaws
    <2> HIDE DEF P
    <2>9. Merged(k)
      BY <2>3, <2>4, <2>7, <2>8
    <2> QED BY <2>1, <2>9
  <1>5. n \in Good
    <2>1. n \in 0 .. n
      BY <1>1
    <2> HIDE DEF Good, n
    <2> QED BY <1>1, <1>3, <1>4, <2>1, UpTo
  <1>6. P(n) = s
    BY PrefixEnds
  <1> HIDE DEF P, n
  <1> QED BY <1>5, <1>6

-----------------------------------------------------------------------------
(* The plain split *)

\* Neighbours differ in mode.
Apart(s) == \A k \in 1 .. Len(s) - 1 : s[k].mode # s[k + 1].mode

\* Joining a segment leaves no neighbours of one mode.
LEMMA JoinedApart ==
    ASSUME NEW s \in Seq(Segment), NEW x \in Segment, Apart(s)
    PROVE  Apart(Joined(s, x))
  <1>1. CASE s = <<>>
    <2>1. <<>> \in Seq(Segment) /\ Len(<<>>) = 0
      BY EmptySeq
    <2>2. Len(Append(<<>>, x)) = 1
      BY <2>1, AppendProperties
    <2>3. Joined(s, x) = Append(<<>>, x)
      BY <1>1, JoinedIs
    <2> QED BY <2>2, <2>3 DEF Apart
  <1>2. CASE s # <<>>
    <2>1. PICK h \in Seq(Segment), e \in Segment : s = Append(h, e)
      BY <1>2, SequenceEmptyOrAppend
    <2>2. /\ Len(s) = Len(h) + 1 /\ Len(h) \in Nat
          /\ \A k \in 1 .. Len(h) : s[k] = h[k]
          /\ s[Len(h) + 1] = e
      BY <2>1, AppendProperties, LenProperties
    <2>3. ASSUME NEW y \in Segment, NEW r \in Seq(Segment), y.mode = e.mode, r = Append(h, y)
          PROVE  Apart(r)
      <3>1. /\ Len(r) = Len(h) + 1
            /\ \A k \in 1 .. Len(h) : r[k] = h[k]
            /\ r[Len(h) + 1] = y
        BY <2>3, AppendProperties
      <3>2. \A k \in 1 .. Len(h) + 1 : r[k].mode = s[k].mode
        BY <2>2, <2>3, <3>1
      <3> QED BY <2>2, <3>1, <3>2 DEF Apart
    <2>4. CASE e.mode = x.mode
      <3> DEFINE y == [mode |-> x.mode, length |-> x.length + e.length]
      <3>1. y \in Segment /\ y.mode = e.mode
        BY <2>4 DEF Segment
      <3>2. Joined(s, x) = Append(h, y)
        BY <2>1, <2>4, JoinedIs
      <3> HIDE DEF y
      <3>3. Append(h, y) \in Seq(Segment)
        BY <3>1, AppendProperties
      <3> QED BY <2>3, <3>1, <3>2, <3>3
    <2>5. CASE e.mode # x.mode
      <3> DEFINE r == Append(s, x)
      <3>1. Joined(s, x) = r
        BY <2>1, <2>5, JoinedIs
      <3>2. /\ Len(r) = Len(s) + 1 /\ Len(s) \in Nat
            /\ \A k \in 1 .. Len(s) : r[k] = s[k]
            /\ r[Len(s) + 1] = x
        BY AppendProperties, LenProperties
      <3> HIDE DEF r
      <3>3. \A k \in 1 .. Len(s) : r[k].mode # r[k + 1].mode
        <4> SUFFICES ASSUME NEW k \in 1 .. Len(s) PROVE r[k].mode # r[k + 1].mode
          OBVIOUS
        <4>1. CASE k = Len(s)
          BY <2>2, <2>5, <3>2, <4>1
        <4>2. CASE k # Len(s)
          BY <3>2, <4>2 DEF Apart
        <4> QED BY <4>1, <4>2
      <3>4. Apart(r)
        BY <3>2, <3>3 DEF Apart
      <3> QED BY <3>1, <3>4
    <2> QED BY <2>4, <2>5
  <1> QED BY <1>1, <1>2

\* After merging no neighbours have the same mode.
LEMMA MergeApart ==
    ASSUME NEW s \in Seq(Segment)
    PROVE  Apart(Merge(s)) /\ (s # <<>> => Merge(s) # <<>>)
  <1> DEFINE P(k) == SubSeq(s, 1, k)
             n == Len(s)
             Good == {k \in 0 .. n : Apart(Merge(P(k)))}
  <1>1. n \in Nat
    BY LenProperties
  <1>2. ASSUME NEW k \in 1 .. n
        PROVE  /\ k \in 0 .. n /\ k - 1 \in 0 .. n
               /\ s[k] \in Segment
               /\ Merge(P(k - 1)) \in Seq(Segment)
               /\ Merge(P(k)) = Joined(Merge(P(k - 1)), s[k])
    <2>1. k \in 0 .. n /\ k - 1 \in 0 .. n
      BY <1>1
    <2>2. P(k - 1) \in Seq(Segment)
      BY <2>1, PrefixTyped
    <2>3. s[k] \in Segment /\ P(k) = Append(P(k - 1), s[k])
      BY PrefixGrows
    <2> HIDE DEF P
    <2> QED BY <2>1, <2>2, <2>3, MergeAppend
  <1>3. P(0) = <<>> /\ P(n) = s
    BY PrefixEnds
  <1>4. s # <<>> => n \in 1 .. n
    BY <1>1, EmptySeq
  <1> HIDE DEF P, n
  <1>5. s # <<>> => Merge(s) # <<>>
    BY <1>2, <1>3, <1>4, JoinedTyped
  <1>6. 0 \in Good
    <2>1. Apart(<<>>)
      BY DEF Apart
    <2> QED BY <1>1, <1>3, <2>1, MergeEmpty
  <1>7. \A k \in 1 .. n : k - 1 \in Good => k \in Good
    BY <1>2, JoinedApart
  <1>8. n \in Good
    <2>1. n \in 0 .. n
      BY <1>1
    <2> HIDE DEF Good
    <2> QED BY <1>1, <1>6, <1>7, <2>1, UpTo
  <1> QED BY <1>3, <1>5, <1>8

\* Each class for itself: the table of the plain split.
Itself == [mode \in Mode |-> {mode}]

\* The plain split stands for the whole text, each run for characters of its
\* own class, and neighbours differ.
LEMMA RawSplitIs ==
    ASSUME NEW text \in Seq(Mode) \ {<<>>}
    PROVE  /\ RawSplit(text) \in Seq(Segment) \ {<<>>}
           /\ Covers(RawSplit(text), text, Itself)
           /\ Characters(RawSplit(text)) = Len(text)
           /\ Apart(RawSplit(text))
  <1> DEFINE n == Len(text)
             units == [i \in DOMAIN text |-> [mode |-> text[i], length |-> 1]]
             P(k) == SubSeq(units, 1, k)
             Good == {k \in 0 .. n : Characters(P(k)) = k}
  <1>1. /\ n \in Nat /\ n # 0 /\ DOMAIN text = 1 .. n
        /\ \A i \in 1 .. n : text[i] \in Mode
    BY LenProperties, EmptySeq
  <1>2. units \in [1 .. n -> Segment]
    BY <1>1 DEF Segment
  <1>3. units \in Seq(Segment) /\ Len(units) = n /\ units # <<>>
    BY <1>1, <1>2, SeqDef
  <1>4. \A k \in 1 .. n : units[k].mode = text[k] /\ units[k].length = 1
    BY <1>1
  <1> HIDE DEF units
  <1>5. \A k \in 0 .. n : Characters(P(k)) = k
    <2>1. 0 \in Good
      <3>1. P(0) = <<>> /\ 0 \in 0 .. n
        BY <1>1, <1>3, PrefixEnds
      <3> HIDE DEF P
      <3> QED BY <3>1, CharactersLaws
    <2>2. ASSUME NEW k \in 1 .. n, k - 1 \in Good PROVE k \in Good
      <3>1. k \in 0 .. n /\ k - 1 \in 0 .. n /\ (k - 1) + 1 = k
        BY <1>1
      <3>2. P(k - 1) \in Seq(Segment)
        BY <1>3, <3>1, PrefixTyped
      <3>3. units[k] \in Segment /\ P(k) = Append(P(k - 1), units[k])
        BY <1>3, PrefixGrows
      <3>4. Characters(P(k)) = Characters(P(k - 1)) + units[k].length
        BY <3>2, <3>3, CharactersLaws
      <3>5. Characters(P(k - 1)) = k - 1
        BY <2>2
      <3> HIDE DEF P
      <3> QED BY <1>4, <3>1, <3>4, <3>5
    <2> HIDE DEF Good
    <2>3. \A k \in 0 .. n : k \in Good
      BY <1>1, <2>1, <2>2, UpTo
    <2> QED BY <2>3 DEF Good
  <1>6. Characters(units) = n
    <2>1. n \in 0 .. n /\ P(n) = units
      BY <1>1, <1>3, PrefixEnds
    <2> HIDE DEF P
    <2> QED BY <1>5, <2>1
  <1>7. Covers(units, text, Itself)
    <2> SUFFICES ASSUME NEW k \in 1 .. n,
                        NEW i \in Characters(P(k - 1)) + 1 .. Characters(P(k - 1)) + units[k].length
                 PROVE  text[i] \in Itself[units[k].mode]
      BY <1>1, <1>3, <1>6 DEF Covers
    <2>1. Characters(P(k - 1)) = k - 1 /\ units[k].length = 1
      <3>1. k - 1 \in 0 .. n
        BY <1>1
      <3> QED BY <1>4, <1>5, <3>1
    <2> HIDE DEF P
    <2>2. i = k
      BY <2>1
    <2> QED BY <1>1, <1>4, <2>2 DEF Itself
  <1>8. RawSplit(text) = Merge(units)
    BY DEF RawSplit, units
  <1>9. Merge(units) \in Seq(Segment)
    BY <1>3, MergeAppend
  <1> QED BY <1>3, <1>6, <1>7, <1>8, <1>9, CoversMerge, MergeApart

-----------------------------------------------------------------------------
(* The graph *)

\* The modes of a run are different ones, its own first, and each can write it.
LEMMA OptionsAre ==
    ASSUME NEW mode \in Mode
    PROVE  /\ Len(Options(mode)) \in 1 .. 3
           /\ DOMAIN Options(mode) = 1 .. Len(Options(mode))
           /\ Options(mode)[1] = mode
           /\ \A i \in 1 .. Len(Options(mode)) :
                  Options(mode)[i] \in Mode /\ mode \in Writes(Options(mode)[i])
           /\ \A i, j \in 1 .. Len(Options(mode)) : Options(mode)[i] = Options(mode)[j] => i = j
  <1>1. CASE mode = Numeric
    <2>1. Options(mode) = <<Numeric, Alphanumeric, Byte>>
      BY <1>1 DEF Options, Numeric, Alphanumeric, Byte
    <2> QED BY <1>1, <2>1 DEF Writes, Mode, Numeric, Alphanumeric, Byte
  <1>2. CASE mode = Alphanumeric
    <2>1. Options(mode) = <<Alphanumeric, Byte>>
      BY <1>2 DEF Options, Numeric, Alphanumeric, Byte
    <2> QED BY <1>2, <2>1 DEF Writes, Mode, Numeric, Alphanumeric, Byte
  <1>3. CASE mode = Byte
    <2>1. Options(mode) = <<Byte>>
      BY <1>3 DEF Options, Numeric, Alphanumeric, Byte
    <2> QED BY <1>3, <2>1 DEF Writes, Mode, Numeric, Alphanumeric, Byte
  <1> QED BY <1>1, <1>2, <1>3 DEF Mode

\* The nodes of the graph, and its layers.
Node == [path : Seq(Segment) \ {<<>>}, cost : Int, from : 0 .. 3, option : 1 .. 3]

Layer == UNION { [1 .. n -> Node] : n \in 1 .. 3 }

\* The order of the queue decides between any two nodes of a layer.
LEMMA EarlierOrders ==
    /\ \A a, b \in Node : a.option # b.option => Earlier(a, b) \/ Earlier(b, a)
    /\ \A a \in Node : ~ Earlier(a, a)
    /\ \A a, b, c \in Node : Earlier(a, b) /\ Earlier(b, c) => Earlier(a, c)
  BY DEF Earlier, Node

\* The queue gives out every node of a layer, in its order.
LEMMA InOrderIs ==
    ASSUME NEW n \in 1 .. 3, NEW f \in [1 .. n -> Node], \A i \in 1 .. n : f[i].option = i
    PROVE  /\ InOrder(f) \in [1 .. n -> Node]
           /\ \A i, j \in 1 .. n : i < j => Earlier(InOrder(f)[i], InOrder(f)[j])
           /\ \A k \in 1 .. n : \E i \in 1 .. n : InOrder(f)[k] = f[i]
           /\ \A i \in 1 .. n : \E k \in 1 .. n : InOrder(f)[k] = f[i]
  <1> DEFINE E(i, j) == Earlier(f[i], f[j])
             Nodes == { f[i] : i \in 1 .. n }
             Sorted(q) == \A i, j \in 1 .. n : i < j => Earlier(q[i], q[j])
             queue == InOrder(f)
  <1>1. /\ \A i, j \in 1 .. n : i # j => E(i, j) \/ E(j, i)
        /\ \A i, j, k \in 1 .. n : E(i, j) /\ E(j, k) => E(i, k)
        /\ \A i \in 1 .. n : ~ E(i, i)
    BY EarlierOrders
  <1>2. \E q \in [1 .. n -> Nodes] : Sorted(q)
    <2> HIDE DEF E
    <2>1. CASE n = 1
      <3>1. f \in [1 .. n -> Nodes]
        OBVIOUS
      <3>2. Sorted(f)
        BY <2>1
      <3> HIDE DEF Nodes, Sorted
      <3> QED BY <3>1, <3>2
    <2>2. CASE n = 2
      <3>1. PICK a \in 1 .. n, b \in 1 .. n : E(a, b)
        BY <1>1, <2>2, 1 \in 1 .. n, 2 \in 1 .. n
      <3> DEFINE q == [k \in 1 .. n |-> IF k = 1 THEN f[a] ELSE f[b]]
      <3>2. q \in [1 .. n -> Nodes]
        OBVIOUS
      <3>3. Sorted(q)
        BY <2>2, <3>1 DEF E
      <3> HIDE DEF q, Nodes, Sorted
      <3> QED BY <3>2, <3>3
    <2>3. CASE n = 3
      <3>1. PICK a \in 1 .. n, b \in 1 .. n, c \in 1 .. n : E(a, b) /\ E(b, c)
        BY <1>1, <2>3, 1 \in 1 .. n, 2 \in 1 .. n, 3 \in 1 .. n
      <3>2. E(a, c)
        BY <1>1, <3>1
      <3> DEFINE q == [k \in 1 .. n |-> IF k = 1 THEN f[a] ELSE IF k = 2 THEN f[b] ELSE f[c]]
      <3>3. q \in [1 .. n -> Nodes]
        OBVIOUS
      <3>4. Sorted(q)
        BY <2>3, <3>1, <3>2 DEF E
      <3> HIDE DEF q, Nodes, Sorted
      <3> QED BY <3>3, <3>4
    <2> HIDE DEF Nodes, Sorted
    <2> QED BY <2>1, <2>2, <2>3
  <1>3. queue \in [1 .. n -> Nodes] /\ Sorted(queue)
    <2>1. DOMAIN f = 1 .. n
      OBVIOUS
    <2>2. queue = CHOOSE q \in [1 .. n -> Nodes] : Sorted(q)
      BY <2>1 DEF InOrder
    <2> HIDE DEF queue, Nodes, Sorted
    <2> QED BY <1>2, <2>2
  <1> HIDE DEF queue
  <1>4. \A k \in 1 .. n : \E i \in 1 .. n : queue[k] = f[i]
    BY <1>3
  <1>5. \A i, j \in 1 .. n : queue[i] = queue[j] => i = j
    <2>1. \A k \in 1 .. n : queue[k] \in Node
      BY <1>4
    <2> QED BY <1>3, <2>1, EarlierOrders
  <1>6. \A i \in 1 .. n : \E k \in 1 .. n : queue[k] = f[i]
    <2> HIDE DEF Nodes, Sorted, E
    <2>1. CASE n = 1
      BY <1>4, <2>1
    <2>2. CASE n = 2
      BY <1>4, <1>5, <2>2, 1 \in 1 .. n, 2 \in 1 .. n
    <2>3. CASE n = 3
      BY <1>4, <1>5, <2>3, 1 \in 1 .. n, 2 \in 1 .. n, 3 \in 1 .. n
    <2> QED BY <2>1, <2>2, <2>3
  <1> QED BY <1>3, <1>4, <1>6 DEF queue

\* Best is the first of the cheapest ways to a node.
LEMMA BestIs ==
    ASSUME NEW layer \in Layer, NEW run, NEW i, NEW v,
           \A k \in DOMAIN layer : CostBy(layer[k], run, i, v) \in Int
    PROVE  /\ Best(layer, run, i, v) \in DOMAIN layer
           /\ \A l \in DOMAIN layer :
                  LET k == Best(layer, run, i, v)
                  IN  \/ CostBy(layer[k], run, i, v) < CostBy(layer[l], run, i, v)
                      \/ CostBy(layer[k], run, i, v) = CostBy(layer[l], run, i, v) /\ k <= l
  <1> DEFINE C(k) == CostBy(layer[k], run, i, v)
             Least(k) == \A l \in DOMAIN layer : C(k) < C(l) \/ (C(k) = C(l) /\ k <= l)
  <1>1. PICK n \in 1 .. 3 : DOMAIN layer = 1 .. n
    BY DEF Layer
  <1>2. \A k \in 1 .. n : C(k) \in Int
    BY <1>1
  <1>3. \E k \in 1 .. n : Least(k)
    <2> HIDE DEF C
    <2>1. CASE n = 1
      BY <1>1, <1>2, <2>1
    <2>2. CASE n = 2
      BY <1>1, <1>2, <2>2
    <2>3. CASE n = 3
      BY <1>1, <1>2, <2>3
    <2> QED BY <2>1, <2>2, <2>3
  <1>4. Best(layer, run, i, v) = CHOOSE k \in DOMAIN layer : Least(k)
    BY DEF Best
  <1>5. Best(layer, run, i, v) \in DOMAIN layer /\ Least(Best(layer, run, i, v))
    <2> HIDE DEF Least
    <2> QED BY <1>1, <1>3, <1>4
  <1> QED BY <1>5

LEMMA WeightTyped ==
    ASSUME NEW run \in Segment, NEW i \in 1 .. Len(Options(run.mode)), NEW v \in Version, NEW from
    PROVE  EdgeWeight(from, run, i, v) \in Int
  <1>1. run.mode \in Mode /\ run.length \in Nat
    BY DEF Segment
  <1> DEFINE mode == Options(run.mode)[i]
             n == run.length
             m == LastCount(i, n)
  <1>2. mode \in Mode
    BY <1>1, OptionsAre
  <1>3. n \in Nat /\ m \in Nat /\ m + n \in Nat
    BY <1>1 DEF LastCount
  <1> HIDE DEF mode, n, m
  <1>4. BitsLength(mode, m + n) - BitsLength(mode, m) \in Int
    <2>1. BitsLength(mode, m + n) \in Nat
      BY <1>2, <1>3, BitsTyped
    <2>2. BitsLength(mode, m) \in Nat
      BY <1>2, <1>3, BitsTyped
    <2> QED BY <2>1, <2>2
  <1>5. SegmentBits(mode, n, v) \in Int
    <2>1. SegmentBits(mode, n, v) \in Nat
      BY <1>2, <1>3, BitsTyped
    <2> QED BY <2>1
  <1> QED BY <1>4, <1>5 DEF EdgeWeight, mode, n, m

\* A node for option i of a run is reached from a layer by the cheapest way, of
\* several the first.
Extends(node, layer, run, i, v) ==
    /\ node.option = i
    /\ node.from \in DOMAIN layer
    /\ node.cost = CostBy(layer[node.from], run, i, v)
    /\ node.path = Append(layer[node.from].path,
                          [mode |-> Options(run.mode)[i], length |-> run.length])
    /\ \A l \in DOMAIN layer :
           \/ node.cost < CostBy(layer[l], run, i, v)
           \/ node.cost = CostBy(layer[l], run, i, v) /\ node.from <= l

\* The node that buildGraph and find_path make for an option of a run.
LEMMA ReachedIs ==
    ASSUME NEW layer \in Layer, NEW run \in Segment, NEW v \in Version,
           NEW i \in 1 .. Len(Options(run.mode))
    PROVE  /\ Reached(layer, run, i, v) \in Node
           /\ Extends(Reached(layer, run, i, v), layer, run, i, v)
  <1> DEFINE node == Reached(layer, run, i, v)
             best == Best(layer, run, i, v)
             last == [mode |-> Options(run.mode)[i], length |-> run.length]
  <1>1. DOMAIN layer \subseteq 1 .. 3 /\ \A k \in DOMAIN layer : layer[k] \in Node
    BY DEF Layer
  <1>2. \A k \in DOMAIN layer : CostBy(layer[k], run, i, v) \in Int
    <2> SUFFICES ASSUME NEW k \in DOMAIN layer PROVE CostBy(layer[k], run, i, v) \in Int
      OBVIOUS
    <2>1. layer[k].cost \in Int
      BY <1>1 DEF Node
    <2>2. EdgeWeight(Last(layer[k].path).mode, run, i, v) \in Int
      BY WeightTyped
    <2> QED BY <2>1, <2>2 DEF CostBy
  <1>3. /\ best \in DOMAIN layer
        /\ \A l \in DOMAIN layer :
               \/ CostBy(layer[best], run, i, v) < CostBy(layer[l], run, i, v)
               \/ CostBy(layer[best], run, i, v) = CostBy(layer[l], run, i, v) /\ best <= l
    BY <1>2, BestIs
  <1>4. last \in Segment /\ i \in 1 .. 3
    BY OptionsAre DEF Segment
  <1> HIDE DEF best, last
  <1>5. Append(layer[best].path, last) \in Seq(Segment) \ {<<>>}
    <2>1. layer[best].path \in Seq(Segment)
      BY <1>1, <1>3 DEF Node
    <2> QED BY <1>4, <2>1, AppendProperties
  <1>6. node = [path |-> Append(layer[best].path, last), cost |-> CostBy(layer[best], run, i, v),
                from |-> best, option |-> i]
    BY DEF Reached, best, last
  <1> HIDE DEF node
  <1>7. node \in Node
    BY <1>1, <1>2, <1>3, <1>4, <1>5, <1>6 DEF Node
  <1>8. /\ node.option = i /\ node.from = best
        /\ node.cost = CostBy(layer[best], run, i, v)
        /\ node.path = Append(layer[best].path, last)
    BY <1>6
  <1>9. \A l \in DOMAIN layer :
            \/ node.cost < CostBy(layer[l], run, i, v)
            \/ node.cost = CostBy(layer[l], run, i, v) /\ best <= l
    BY <1>3, <1>8
  <1>10. Extends(node, layer, run, i, v)
    BY <1>3, <1>8, <1>9 DEF Extends, last
  <1> QED BY <1>7, <1>10 DEF node

\* A layer lists the nodes of f, one for each option, as the queue has them.
Lists(layer, n, f) ==
    /\ layer \in Layer
    /\ DOMAIN layer = 1 .. n
    /\ \A i, j \in 1 .. n : i < j => Earlier(layer[i], layer[j])
    /\ \A k \in 1 .. n : \E i \in 1 .. n : layer[k] = f[i]
    /\ \A i \in 1 .. n : \E k \in 1 .. n : layer[k] = f[i]

LEMMA InOrderLists ==
    ASSUME NEW n \in 1 .. 3, NEW f \in [1 .. n -> Node], \A i \in 1 .. n : f[i].option = i
    PROVE  Lists(InOrder(f), n, f)
  <1>1. /\ InOrder(f) \in [1 .. n -> Node]
        /\ \A i, j \in 1 .. n : i < j => Earlier(InOrder(f)[i], InOrder(f)[j])
        /\ \A k \in 1 .. n : \E i \in 1 .. n : InOrder(f)[k] = f[i]
        /\ \A i \in 1 .. n : \E k \in 1 .. n : InOrder(f)[k] = f[i]
    BY InOrderIs
  <1>2. InOrder(f) \in Layer /\ DOMAIN InOrder(f) = 1 .. n
    BY <1>1 DEF Layer
  <1> QED BY <1>1, <1>2 DEF Lists

\* The first layer: one segment for each option of the first run.
LEMMA FirstLayerIs ==
    ASSUME NEW run \in Segment, NEW v \in Version
    PROVE  /\ Lists(InOrder(FirstLayer(run, v)), Len(Options(run.mode)), FirstLayer(run, v))
           /\ \A i \in 1 .. Len(Options(run.mode)) :
                  FirstLayer(run, v)[i]
                  = [path |-> <<[mode |-> Options(run.mode)[i], length |-> run.length]>>,
                     cost |-> SegmentBits(Options(run.mode)[i], run.length, v),
                     from |-> 0, option |-> i]
  <1> DEFINE n == Len(Options(run.mode))
             f == FirstLayer(run, v)
             mode(i) == Options(run.mode)[i]
             node(i) == [path |-> <<[mode |-> mode(i), length |-> run.length]>>,
                         cost |-> SegmentBits(mode(i), run.length, v), from |-> 0, option |-> i]
  <1>1. run.mode \in Mode /\ run.length \in Nat
    BY DEF Segment
  <1>2. n \in 1 .. 3 /\ DOMAIN Options(run.mode) = 1 .. n /\ \A i \in 1 .. n : mode(i) \in Mode
    BY <1>1, OptionsAre
  <1>3. f = [i \in 1 .. n |-> node(i)]
    BY <1>2 DEF FirstLayer
  <1>4. ASSUME NEW i \in 1 .. n PROVE node(i) \in Node /\ node(i).option = i
    <2>0. mode(i) \in Mode
      BY <1>2
    <2>1. SegmentBits(mode(i), run.length, v) \in Int
      <3> HIDE DEF mode
      <3>1. SegmentBits(mode(i), run.length, v) \in Nat
        BY <1>1, <2>0, BitsTyped
      <3> QED BY <3>1
    <2>2. [mode |-> mode(i), length |-> run.length] \in Segment
      BY <1>1, <1>2 DEF Segment
    <2>3. <<[mode |-> mode(i), length |-> run.length]>> \in Seq(Segment) \ {<<>>}
      BY <2>2
    <2>4. i \in 1 .. 3
      BY <1>2
    <2> DEFINE path == <<[mode |-> mode(i), length |-> run.length]>>
               cost == SegmentBits(mode(i), run.length, v)
    <2>5. node(i) = [path |-> path, cost |-> cost, from |-> 0, option |-> i]
      OBVIOUS
    <2>6. path \in Seq(Segment) \ {<<>>} /\ cost \in Int
      BY <2>1, <2>3
    <2> HIDE DEF mode, path, cost, node
    <2> QED BY <2>4, <2>5, <2>6 DEF Node
  <1> HIDE DEF node, n, f
  <1>5. f \in [1 .. n -> Node] /\ \A i \in 1 .. n : f[i] = node(i) /\ f[i].option = i
    BY <1>3, <1>4
  <1>6. Lists(InOrder(f), n, f)
    BY <1>2, <1>5, InOrderLists
  <1> QED BY <1>5, <1>6 DEF f, n, node

\* A later layer: the nodes reached from the one before.
LEMMA NextLayerIs ==
    ASSUME NEW layer \in Layer, NEW run \in Segment, NEW v \in Version
    PROVE  Lists(NextLayer(layer, run, v), Len(Options(run.mode)),
                 [i \in 1 .. Len(Options(run.mode)) |-> Reached(layer, run, i, v)])
  <1> DEFINE n == Len(Options(run.mode))
             f == [i \in 1 .. n |-> Reached(layer, run, i, v)]
  <1>1. run.mode \in Mode
    BY DEF Segment
  <1>2. n \in 1 .. 3 /\ DOMAIN Options(run.mode) = 1 .. n
    BY <1>1, OptionsAre
  <1>3. \A i \in 1 .. n : Reached(layer, run, i, v) \in Node /\ Reached(layer, run, i, v).option = i
    <2> SUFFICES ASSUME NEW i \in 1 .. n
                 PROVE  Reached(layer, run, i, v) \in Node /\ Reached(layer, run, i, v).option = i
      OBVIOUS
    <2> DEFINE node == Reached(layer, run, i, v)
    <2>1. node \in Node /\ Extends(node, layer, run, i, v)
      BY ReachedIs
    <2> HIDE DEF node
    <2>2. node.option = i
      BY <2>1 DEF Extends
    <2> QED BY <2>1, <2>2 DEF node
  <1>4. f \in [1 .. n -> Node] /\ \A i \in 1 .. n : f[i].option = i
    BY <1>3
  <1>5. NextLayer(layer, run, v) = InOrder(f)
    BY <1>2 DEF NextLayer
  <1> HIDE DEF f, n
  <1>6. Lists(InOrder(f), n, f)
    BY <1>2, <1>4, InOrderLists
  <1> QED BY <1>5, <1>6 DEF f, n

-----------------------------------------------------------------------------
(* The layers of nodes, and the path they lead to *)

\* The layers, one after the other.
LEMMA LayersOf ==
    ASSUME NEW runs \in Seq(Segment) \ {<<>>}, NEW v \in Version
    PROVE  \E L : /\ \A k \in 1 .. Len(runs) : L[k] \in Layer
                  /\ L[1] = InOrder(FirstLayer(runs[1], v))
                  /\ \A k \in 2 .. Len(runs) : L[k] = NextLayer(L[k - 1], runs[k], v)
                  /\ LastLayer(runs, v) = L[Len(runs)]
  <1> DEFINE s == Tail(runs)
             n == Len(s)
             first == InOrder(FirstLayer(Head(runs), v))
             Is(f) == f = [x \in SUBSET DOMAIN s |->
                              IF x = {} THEN first ELSE NextLayer(f[x \ {Max(x)}], s[Max(x)], v)]
             c == CHOOSE f : Is(f)
             step == [p \in Layer \X (1 .. n) |-> NextLayer(p[1], s[p[2]], v)]
             L == [k \in 1 .. Len(runs) |-> c[1 .. (k - 1)]]
  <1>1. /\ n \in Nat /\ DOMAIN s = 1 .. n /\ Len(runs) = n + 1
        /\ \A k \in 1 .. n : s[k] \in Segment /\ s[k] = runs[k + 1]
        /\ Head(runs) = runs[1] /\ runs[1] \in Segment
    <2>1. s \in Seq(Segment) /\ n = Len(runs) - 1 /\ \A k \in 1 .. n : s[k] = runs[k + 1]
      BY HeadTailProperties
    <2>2. n \in Nat /\ DOMAIN s = 1 .. n /\ \A k \in 1 .. n : s[k] \in Segment
      BY <2>1, LenProperties
    <2>3. Len(runs) \in Nat
      BY LenProperties
    <2>4. Head(runs) = runs[1] /\ Head(runs) \in Segment
      BY HeadTailProperties
    <2> QED BY <2>1, <2>2, <2>3, <2>4
  <1>2. first \in Layer
    BY <1>1, FirstLayerIs DEF Lists
  <1>3. \A layer \in Layer, k \in 1 .. n : NextLayer(layer, s[k], v) \in Layer
    BY <1>1, NextLayerIs DEF Lists
  <1>4. step \in [Layer \X (1 .. n) -> Layer]
    BY <1>3
  <1>5. LastLayer(runs, v) = c[DOMAIN s]
    BY DEF LastLayer, FoldLeft, MapThenFoldSet
  <1>6. PICK f \in [SUBSET (1 .. n) -> Layer] : IsFold(f, n, first, step)
    <2> HIDE DEF n, step, first
    <2> QED BY <1>1, <1>2, <1>4, FoldExists
  <1> HIDE DEF s, first
  <1>7. ASSUME NEW x \in SUBSET (1 .. n), x # {}
        PROVE  f[x] = NextLayer(f[x \ {Max(x)}], s[Max(x)], v)
    <2>1. Max(x) \in x
      BY <1>1, <1>7, MaxBelow
    <2>2. Max(x) \in 1 .. n /\ x \ {Max(x)} \in SUBSET (1 .. n)
      BY <2>1
    <2>3. f[x \ {Max(x)}] \in Layer
      BY <2>2
    <2>4. f[x] = step[<<f[x \ {Max(x)}], Max(x)>>]
      <3> HIDE DEF step
      <3> QED BY <1>6, <1>7 DEF IsFold
    <2> QED BY <2>2, <2>3, <2>4
  <1>8. Is(f)
    <2>1. \A x \in SUBSET (1 .. n) :
              f[x] = IF x = {} THEN first ELSE NextLayer(f[x \ {Max(x)}], s[Max(x)], v)
      BY <1>6, <1>7 DEF IsFold
    <2> QED BY <2>1, <1>1
  <1>9. Is(c)
    <2> HIDE DEF Is
    <2> QED BY <1>8
  <1>10. \A x \in SUBSET (1 .. n) :
             c[x] = IF x = {} THEN first ELSE NextLayer(c[x \ {Max(x)}], s[Max(x)], v)
    <2> HIDE DEF c
    <2> QED BY <1>1, <1>9
  <1> HIDE DEF c
  <1>11. c[{}] = first
    BY <1>10
  <1>12. ASSUME NEW k \in 1 .. n
         PROVE  c[1 .. k] = NextLayer(c[1 .. (k - 1)], s[k], v)
    <2>1. k \in Nat /\ k # 0 /\ 1 .. k \in SUBSET (1 .. n)
      BY <1>1
    <2> QED BY <2>1, <1>10, MaxUpTo
  <1>13. \A k \in 0 .. n : c[1 .. k] \in Layer
    <2> DEFINE Good == {k \in 0 .. n : c[1 .. k] \in Layer}
    <2>1. 0 \in Good
      <3>1. 1 .. 0 = {} /\ 0 \in 0 .. n
        BY <1>1
      <3> QED BY <1>2, <1>11, <3>1
    <2>2. \A k \in 1 .. n : k - 1 \in Good => k \in Good
      <3> SUFFICES ASSUME NEW k \in 1 .. n, c[1 .. (k - 1)] \in Layer
                   PROVE  k \in Good
        OBVIOUS
      <3>1. k \in 0 .. n
        BY <1>1
      <3> QED BY <1>3, <1>12, <3>1
    <2>3. \A k \in 0 .. n : k \in Good
      <3> HIDE DEF Good
      <3> QED BY <1>1, <2>1, <2>2, UpTo
    <2> QED BY <2>3
  <1>14. \A k \in 1 .. Len(runs) : L[k] = c[1 .. (k - 1)] /\ L[k] \in Layer
    <2>1. \A k \in 1 .. Len(runs) : k - 1 \in 0 .. n
      BY <1>1
    <2> QED BY <1>13, <2>1
  <1> HIDE DEF L
  <1>15. L[1] = InOrder(FirstLayer(runs[1], v))
    <2>1. 1 \in 1 .. Len(runs) /\ 1 .. (1 - 1) = {}
      BY <1>1
    <2> QED BY <1>1, <1>11, <1>14, <2>1 DEF first
  <1>16. ASSUME NEW k \in 2 .. Len(runs) PROVE L[k] = NextLayer(L[k - 1], runs[k], v)
    <2> DEFINE j == k - 1
    <2>1. /\ j \in 1 .. n /\ k \in 1 .. Len(runs) /\ j \in 1 .. Len(runs) /\ j + 1 = k
      BY <1>1
    <2>2. L[k] = c[1 .. j] /\ L[j] = c[1 .. (j - 1)]
      BY <1>14, <2>1
    <2> HIDE DEF j
    <2>3. c[1 .. j] = NextLayer(c[1 .. (j - 1)], s[j], v) /\ s[j] = runs[k]
      BY <1>1, <1>12, <2>1
    <2> QED BY <2>2, <2>3 DEF j
  <1>17. LastLayer(runs, v) = L[Len(runs)]
    <2>1. Len(runs) \in 1 .. Len(runs) /\ Len(runs) - 1 = n
      BY <1>1
    <2> QED BY <1>1, <1>5, <1>14, <2>1
  <1> QED BY <1>14, <1>15, <1>16, <1>17

\* A node after k runs writes each of them in a mode that can.
NodeOK(node, runs, k) ==
    /\ Len(node.path) = k
    /\ \A j \in 1 .. k : /\ node.path[j].length = runs[j].length
                         /\ runs[j].mode \in Writes(node.path[j].mode)
    /\ node.option \in 1 .. Len(Options(runs[k].mode))
    /\ Last(node.path).mode = Options(runs[k].mode)[node.option]

\* The nodes of a layer stand for the runs so far, if those before them do.
LEMMA NextNodeOK ==
    ASSUME NEW runs \in Seq(Segment), NEW k \in 2 .. Len(runs), NEW v \in Version,
           NEW layer \in Layer, \A i \in DOMAIN layer : NodeOK(layer[i], runs, k - 1)
    PROVE  \A i \in DOMAIN NextLayer(layer, runs[k], v) :
               NodeOK(NextLayer(layer, runs[k], v)[i], runs, k)
  <1> DEFINE run == runs[k]
             n == Len(Options(run.mode))
             next == NextLayer(layer, run, v)
  <1>1. run \in Segment /\ run.mode \in Mode /\ run.length \in Nat /\ Len(runs) \in Nat
    <2>1. run \in Segment /\ Len(runs) \in Nat
      BY LenProperties
    <2> QED BY <2>1 DEF Segment
  <1> HIDE DEF run
  <1>2. /\ DOMAIN next = 1 .. n
        /\ \A j \in 1 .. n : \E i \in 1 .. n : next[j] = Reached(layer, run, i, v)
    BY <1>1, NextLayerIs DEF Lists
  <1> HIDE DEF next
  <1> SUFFICES ASSUME NEW j \in 1 .. n PROVE NodeOK(next[j], runs, k)
    BY <1>2 DEF run, next
  <1>3. PICK i \in 1 .. n : next[j] = Reached(layer, run, i, v)
    BY <1>2
  <1> DEFINE node == next[j]
             last == [mode |-> Options(run.mode)[i], length |-> run.length]
             path == layer[node.from].path
  <1>4. /\ node \in Node /\ node.option = i /\ node.from \in DOMAIN layer
        /\ node.path = Append(path, last)
    <2>1. /\ Reached(layer, run, i, v) \in Node
          /\ Extends(Reached(layer, run, i, v), layer, run, i, v)
      BY <1>1, ReachedIs
    <2>2. node \in Node /\ Extends(node, layer, run, i, v)
      BY <1>3, <2>1
    <2> HIDE DEF node
    <2> QED BY <2>2 DEF Extends
  <1>5. last \in Segment /\ run.mode \in Writes(last.mode) /\ last.length = run.length
    BY <1>1, OptionsAre DEF Segment
  <1>6. last.mode = Options(run.mode)[i]
    OBVIOUS
  <1>7. NodeOK(layer[node.from], runs, k - 1) /\ path \in Seq(Segment)
    BY <1>4 DEF Layer, Node
  <1> HIDE DEF node, last, path
  <1>8. /\ Len(node.path) = k
        /\ \A l \in 1 .. k - 1 : node.path[l] = path[l]
        /\ node.path[k] = last
        /\ Last(node.path) = last
    <2>1. Len(path) = k - 1 /\ (k - 1) + 1 = k
      BY <1>1, <1>7 DEF NodeOK, path
    <2>2. /\ Len(node.path) = k /\ node.path[k] = last
          /\ \A l \in 1 .. k - 1 : node.path[l] = path[l]
      BY <1>4, <1>5, <1>7, <2>1, AppendProperties
    <2>3. Last(node.path) = last
      BY <1>4, <1>5, <1>7, FrontLast
    <2> QED BY <2>2, <2>3
  <1>9. ASSUME NEW l \in 1 .. k
        PROVE  /\ node.path[l].length = runs[l].length
               /\ runs[l].mode \in Writes(node.path[l].mode)
    <2>1. CASE l = k
      BY <1>5, <1>8, <2>1 DEF run
    <2>2. CASE l # k
      <3>1. l \in 1 .. k - 1
        BY <1>1, <2>2
      <3> QED BY <1>7, <1>8, <3>1 DEF NodeOK, path
    <2> QED BY <2>1, <2>2
  <1>10. NodeOK(node, runs, k)
    BY <1>4, <1>6, <1>8, <1>9 DEF NodeOK, run
  <1> QED BY <1>10 DEF node

\* The nodes of the first layer stand for the first run.
LEMMA FirstNodeOK ==
    ASSUME NEW runs \in Seq(Segment) \ {<<>>}, NEW v \in Version
    PROVE  \A i \in DOMAIN InOrder(FirstLayer(runs[1], v)) :
               NodeOK(InOrder(FirstLayer(runs[1], v))[i], runs, 1)
  <1> DEFINE run == runs[1]
             n == Len(Options(run.mode))
             first == InOrder(FirstLayer(run, v))
  <1>1. run \in Segment /\ run.mode \in Mode /\ run.length \in Nat
    <2>1. run \in Segment
      BY LenProperties, EmptySeq
    <2> QED BY <2>1 DEF Segment
  <1> HIDE DEF run
  <1>2. /\ DOMAIN first = 1 .. n
        /\ \A j \in 1 .. n : \E i \in 1 .. n : first[j] = FirstLayer(run, v)[i]
    BY <1>1, FirstLayerIs DEF Lists
  <1> HIDE DEF first
  <1> SUFFICES ASSUME NEW j \in 1 .. n PROVE NodeOK(first[j], runs, 1)
    BY <1>2 DEF run, first
  <1>3. PICK i \in 1 .. n : first[j] = FirstLayer(run, v)[i]
    BY <1>2
  <1> DEFINE node == first[j]
             last == [mode |-> Options(run.mode)[i], length |-> run.length]
  <1>4. node = [path |-> <<last>>, cost |-> SegmentBits(Options(run.mode)[i], run.length, v),
                from |-> 0, option |-> i]
    BY <1>1, <1>3, FirstLayerIs
  <1>5. run.mode \in Writes(last.mode) /\ last.length = run.length
        /\ last.mode = Options(run.mode)[i]
    BY <1>1, OptionsAre
  <1> HIDE DEF node, last
  <1>6. node.path = <<last>> /\ node.option = i
    BY <1>4
  <1>7. Len(node.path) = 1 /\ node.path[1] = last /\ Last(node.path) = last
    BY <1>6 DEF Last
  <1>8. NodeOK(node, runs, 1)
    BY <1>5, <1>6, <1>7 DEF NodeOK, run
  <1> QED BY <1>8 DEF node

\* The table of the modes that can write a class.
WrittenBy == [mode \in Mode |-> Writes(mode)]

\* What stands for the same numbers of characters.
LEMMA CharactersSame ==
    ASSUME NEW s \in Seq(Segment), NEW t \in Seq(Segment), Len(s) = Len(t),
           \A j \in 1 .. Len(s) : s[j].length = t[j].length
    PROVE  Characters(s) = Characters(t)
  <1>1. DOMAIN s = 1 .. Len(s) /\ DOMAIN t = 1 .. Len(s)
    BY LenProperties
  <1>2. [j \in DOMAIN s |-> s[j].length] = [j \in DOMAIN t |-> t[j].length]
    BY <1>1
  <1> QED BY <1>2 DEF Characters

\* A path that stands for runs stands for their text.
LEMMA PathCovers ==
    ASSUME NEW text \in Seq(Mode), NEW runs \in Seq(Segment), NEW path \in Seq(Segment),
           Covers(runs, text, Itself), Len(path) = Len(runs),
           \A j \in 1 .. Len(runs) : /\ path[j].length = runs[j].length
                                     /\ runs[j].mode \in Writes(path[j].mode)
    PROVE  Covers(path, text, WrittenBy) /\ Characters(path) = Characters(runs)
  <1>1. Characters(path) = Characters(runs)
    BY CharactersSame
  <1>2. /\ Len(runs) \in Nat
        /\ \A k \in 1 .. Len(runs) : /\ runs[k] \in Segment /\ path[k] \in Segment
                                     /\ runs[k].mode \in Mode /\ path[k].mode \in Mode
    <2>1. Len(runs) \in Nat /\ \A k \in 1 .. Len(runs) : runs[k] \in Segment /\ path[k] \in Segment
      BY LenProperties
    <2> QED BY <2>1 DEF Segment
  <1>3. ASSUME NEW k \in 0 .. Len(runs)
        PROVE  Characters(SubSeq(path, 1, k)) = Characters(SubSeq(runs, 1, k))
    <2> DEFINE p == SubSeq(path, 1, k)
               r == SubSeq(runs, 1, k)
    <2>1. p \in Seq(Segment) /\ Len(p) = k /\ \A j \in 1 .. k : p[j] = path[j]
      BY PrefixTyped
    <2>2. r \in Seq(Segment) /\ Len(r) = k /\ \A j \in 1 .. k : r[j] = runs[j]
      BY PrefixTyped
    <2>3. \A j \in 1 .. k : p[j].length = r[j].length
      BY <1>2, <2>1, <2>2
    <2> HIDE DEF p, r
    <2>4. Characters(p) = Characters(r)
      BY <2>1, <2>2, <2>3, CharactersSame
    <2> QED BY <2>4 DEF p, r
  <1>4. ASSUME NEW k \in 1 .. Len(path),
               NEW i \in Characters(SubSeq(path, 1, k - 1)) + 1
                         .. Characters(SubSeq(path, 1, k - 1)) + path[k].length
        PROVE  text[i] \in WrittenBy[path[k].mode]
    <2>1. Characters(SubSeq(path, 1, k - 1)) = Characters(SubSeq(runs, 1, k - 1))
      BY <1>2, <1>3, k - 1 \in 0 .. Len(runs)
    <2>2. text[i] \in Itself[runs[k].mode]
      BY <2>1 DEF Covers
    <2>3. text[i] = runs[k].mode
      BY <1>2, <2>2 DEF Itself
    <2> QED BY <1>2, <2>3 DEF WrittenBy
  <1> QED BY <1>1, <1>4 DEF Covers

-----------------------------------------------------------------------------
(* Versions *)

\* The data part is whole bytes, by the tables of codewords.
LEMMA DataBitsTyped ==
    ASSUME NEW v \in Version
    PROVE  DataBits(v) \in Int /\ \E words \in Int : DataBits(v) = words * 8
  <1> DEFINE t == TotalCodewords[v]
             c == CorrectionCodewords[v]
  <1>1. TotalCodewords \in Seq(Int) /\ Len(TotalCodewords) = 40
    BY DEF TotalCodewords
  <1>2. CorrectionCodewords \in Seq(Int) /\ Len(CorrectionCodewords) = 40
    BY DEF CorrectionCodewords
  <1>3. t \in Int /\ c \in Int
    <2>1. v \in 1 .. 40
      BY DEF Version
    <2>2. \A s \in Seq(Int) : Len(s) = 40 => s[v] \in Int
      BY <2>1, ElementOfSeq
    <2> QED BY <1>1, <1>2, <2>2
  <1> HIDE DEF t, c
  <1> DEFINE words == t - c
  <1>4. DataBits(v) = words * 8
    BY DEF DataBits, t, c
  <1>5. words \in Int
    BY <1>3
  <1> HIDE DEF words
  <1> QED BY <1>4, <1>5

\* A symbol holds segments exactly if their bits fit: getCapacity counts the
\* characters of a single segment so that it comes to the same.
LEMMA HoldsIs ==
    ASSUME NEW s \in Seq(Segment), NEW v \in Version
    PROVE  Holds(s, v) <=> TotalBits(s, v) <= DataBits(v)
  <1>1. CASE Len(s) # 1
    BY <1>1 DEF Holds
  <1>2. CASE Len(s) = 1
    <2> DEFINE x == s[1]
               n == x.length
               bits == DataBits(v) - ReservedBits(x.mode, v)
    <2>1. x \in Segment /\ s = Append(<<>>, x)
      <3>1. x \in Segment
        BY <1>2, LenProperties
      <3>2. <<>> \in Seq(Segment) /\ Len(<<>>) = 0
        BY EmptySeq
      <3>3. /\ Append(<<>>, x) \in Seq(Segment) /\ Len(Append(<<>>, x)) = 1
            /\ Append(<<>>, x)[1] = x
        BY <3>1, <3>2, AppendProperties
      <3>4. \A j \in 1 .. 1 : s[j] = Append(<<>>, x)[j]
        BY <3>3
      <3>5. s = Append(<<>>, x)
        BY <1>2, <3>3, <3>4, SeqEqual
      <3> QED BY <3>1, <3>5
    <2>2. x.mode \in Mode /\ n \in Nat
      BY <2>1 DEF Segment
    <2>3. TotalBits(s, v) = BitsLength(x.mode, n) + ReservedBits(x.mode, v)
      <3>1. <<>> \in Seq(Segment)
        BY EmptySeq
      <3>2. TotalBits(Append(<<>>, x), v) = TotalBits(<<>>, v) + SegmentBits(x.mode, n, v)
        BY <2>1, <3>1, TotalBitsLaws
      <3>3. TotalBits(<<>>, v) = 0
        BY TotalBitsLaws
      <3>4. SegmentBits(x.mode, n, v) \in Nat
            /\ SegmentBits(x.mode, n, v) = BitsLength(x.mode, n) + ReservedBits(x.mode, v)
        BY <2>2, BitsTyped
      <3> HIDE DEF x
      <3> QED BY <2>1, <3>2, <3>3, <3>4
    <2>4. Holds(s, v) <=> n <= Capacity(v, x.mode)
      BY <1>2 DEF Holds
    <2>5. DataBits(v) \in Int /\ ReservedBits(x.mode, v) \in Int
      <3>1. ReservedBits(x.mode, v) \in 1 .. 20
        BY <2>2, BitsTyped
      <3>2. DataBits(v) \in Int
        BY DataBitsTyped
      <3> QED BY <3>1, <3>2
    <2>6. bits \in Int
      BY <2>5
    <2>7. n <= Capacity(v, x.mode) <=> BitsLength(x.mode, n) <= bits
      <3> DEFINE mode == x.mode
                 cap == CASE mode = Numeric      -> (bits * 3) \div 10
                          [] mode = Alphanumeric -> (bits * 2) \div 11
                          [] mode = Byte         -> bits \div 8
      <3>1. Capacity(v, mode) = cap
        BY DEF Capacity
      <3> HIDE DEF bits, n, mode
      <3>2. CASE mode = Numeric
        <4>1. cap = (bits * 3) \div 10
              /\ BitsLength(mode, n) = 10 * (n \div 3) + (IF n % 3 = 0 THEN 0 ELSE (n % 3) * 3 + 1)
          BY <3>2 DEF BitsLength, Numeric, Alphanumeric, Byte
        <4>2. n <= (bits * 3) \div 10
              <=> 10 * (n \div 3) + (IF n % 3 = 0 THEN 0 ELSE (n % 3) * 3 + 1) <= bits
          BY <2>2, <2>6
        <4> QED BY <3>1, <4>1, <4>2 DEF mode
      <3>3. CASE mode = Alphanumeric
        <4>1. cap = (bits * 2) \div 11 /\ BitsLength(mode, n) = 11 * (n \div 2) + (n % 2) * 6
          BY <3>3 DEF BitsLength, Numeric, Alphanumeric, Byte
        <4>2. n <= (bits * 2) \div 11 <=> 11 * (n \div 2) + (n % 2) * 6 <= bits
          BY <2>2, <2>6
        <4> QED BY <3>1, <4>1, <4>2 DEF mode
      <3>4. CASE mode = Byte
        <4>1. cap = bits \div 8 /\ BitsLength(mode, n) = 8 * n
          BY <3>4 DEF BitsLength, Numeric, Alphanumeric, Byte
        <4>2. n <= bits \div 8 <=> 8 * n <= bits
          BY <2>2, <2>6
        <4> QED BY <3>1, <4>1, <4>2 DEF mode
      <3> QED BY <2>2, <3>2, <3>3, <3>4 DEF Mode, mode
    <2>8. BitsLength(x.mode, n) \in Int
      <3> HIDE DEF x, n
      <3>1. BitsLength(x.mode, n) \in Nat
        BY <2>2, BitsTyped
      <3> QED BY <3>1
    <2> HIDE DEF x, n
    <2> QED BY <2>3, <2>4, <2>5, <2>7, <2>8
  <1> QED BY <1>1, <1>2

\* The version chosen holds the segments, and no smaller one does.
LEMMA BestVersionIs ==
    ASSUME NEW s \in Seq(Segment)
    PROVE  /\ BestVersion(s) \in Version \cup {TooBig}
           /\ BestVersion(s) # TooBig =>
                  /\ BestVersion(s) \in Version
                  /\ TotalBits(s, BestVersion(s)) <= DataBits(BestVersion(s))
           /\ \A v \in Version : TotalBits(s, v) <= DataBits(v) =>
                  BestVersion(s) # TooBig /\ BestVersion(s) <= v
  <1> DEFINE enough == { v \in Version : Holds(s, v) }
  <1>1. CASE enough = {}
    <2>1. BestVersion(s) = TooBig
      BY <1>1 DEF BestVersion
    <2>2. \A v \in Version : ~ (TotalBits(s, v) <= DataBits(v))
      BY <1>1, HoldsIs
    <2> QED BY <2>1, <2>2
  <1>2. CASE enough # {}
    <2>1. \E v \in enough : \A w \in enough : v <= w
      <3>1. enough \in SUBSET Nat
        <4>1. Version \subseteq Nat
          BY DEF Version
        <4> QED BY <4>1
      <3> HIDE DEF enough
      <3> QED BY <1>2, <3>1, LeastNumber
    <2>2. BestVersion(s) = CHOOSE v \in enough : \A w \in enough : v <= w
      BY <1>2 DEF BestVersion
    <2>3. BestVersion(s) \in enough /\ \A w \in enough : BestVersion(s) <= w
      <3> HIDE DEF enough
      <3> QED BY <2>1, <2>2
    <2>4. BestVersion(s) \in Version /\ BestVersion(s) # TooBig /\ Holds(s, BestVersion(s))
      <3>1. BestVersion(s) \in Version /\ Holds(s, BestVersion(s))
        BY <2>3
      <3>2. \A v \in Version : v # TooBig
        BY DEF Version, TooBig
      <3> QED BY <3>1, <3>2
    <2>5. TotalBits(s, BestVersion(s)) <= DataBits(BestVersion(s))
      BY <2>4, HoldsIs
    <2>6. \A v \in Version : TotalBits(s, v) <= DataBits(v) => BestVersion(s) <= v
      BY <2>3, HoldsIs
    <2> QED BY <2>4, <2>5, <2>6
  <1> QED BY <1>1, <1>2

\* The data part is filled up with whole bytes.
LEMMA WrittenFits ==
    ASSUME NEW s \in Seq(Segment), NEW v \in Version, TotalBits(s, v) <= DataBits(v)
    PROVE  Written(s, v) <= DataBits(v)
  <1> DEFINE bits == TotalBits(s, v)
             data == DataBits(v)
             ended == IF bits + 4 <= data THEN bits + 4 ELSE bits
  <1>1. bits \in Nat /\ bits <= data
    BY TotalBitsLaws
  <1>2. PICK words \in Int : data = words * 8
    BY DataBitsTyped
  <1>3. Written(s, v) = ((ended + 7) \div 8) * 8
    BY DEF Written
  <1> HIDE DEF bits, data
  <1>4. ended \in Int /\ ended <= words * 8
    BY <1>1, <1>2
  <1> HIDE DEF ended
  <1>5. ((ended + 7) \div 8) * 8 <= words * 8
    BY <1>4
  <1> QED BY <1>2, <1>3, <1>5 DEF data

-----------------------------------------------------------------------------
(* The symbol spells the address *)

LEMMA EstimateTyped ==
    ASSUME NEW text \in Seq(Mode) \ {<<>>}
    PROVE  Estimate(text) \in Version
  <1>1. RawSplit(text) \in Seq(Segment)
    BY RawSplitIs
  <1>2. BestVersion(RawSplit(text)) # TooBig => BestVersion(RawSplit(text)) \in Version
    BY <1>1, BestVersionIs
  <1>3. 40 \in Version
    BY DEF Version
  <1> QED BY <1>2, <1>3 DEF Estimate

\* The path the encoder chooses stands for the runs it was asked to write.
LEMMA CheapestPathOK ==
    ASSUME NEW runs \in Seq(Segment) \ {<<>>}, NEW v \in Version
    PROVE  /\ CheapestPath(runs, v) \in Seq(Segment)
           /\ Len(CheapestPath(runs, v)) = Len(runs)
           /\ \A j \in 1 .. Len(runs) :
                  /\ CheapestPath(runs, v)[j].length = runs[j].length
                  /\ runs[j].mode \in Writes(CheapestPath(runs, v)[j].mode)
  <1> DEFINE n == Len(runs)
             OK(layer, k) == \A i \in DOMAIN layer : NodeOK(layer[i], runs, k)
  <1>1. PICK L : /\ \A k \in 1 .. Len(runs) : L[k] \in Layer
                 /\ L[1] = InOrder(FirstLayer(runs[1], v))
                 /\ \A k \in 2 .. Len(runs) : L[k] = NextLayer(L[k - 1], runs[k], v)
                 /\ LastLayer(runs, v) = L[Len(runs)]
    BY LayersOf
  <1>2. n \in Nat /\ n # 0
    BY EmptySeq, LenProperties
  <1> DEFINE Good == {k \in 0 .. n : k = 0 \/ OK(L[k], k)}
  <1>3. 0 \in Good
    BY <1>2
  <1>4. ASSUME NEW k \in 1 .. n, k - 1 \in Good PROVE k \in Good
    <2>1. CASE k = 1
      <3>1. OK(L[1], 1)
        BY <1>1, FirstNodeOK
      <3> QED BY <2>1, <3>1, <1>2
    <2>2. CASE k # 1
      <3>1. k \in 2 .. n /\ k - 1 # 0 /\ k - 1 \in 1 .. n
        BY <2>2, <1>2
      <3>2. L[k - 1] \in Layer /\ OK(L[k - 1], k - 1) /\ L[k] = NextLayer(L[k - 1], runs[k], v)
        BY <1>1, <1>4, <3>1
      <3>3. OK(NextLayer(L[k - 1], runs[k], v), k)
        BY <3>1, <3>2, NextNodeOK
      <3>4. OK(L[k], k)
        BY <3>2, <3>3
      <3> QED BY <3>4, <1>2
    <2> QED BY <2>1, <2>2
  <1>5. \A k \in 0 .. n : k \in Good
    <2> HIDE DEF Good
    <2> QED BY <1>2, <1>3, <1>4, UpTo
  <1>6. n \in 0 .. n /\ n \in 1 .. n
    BY <1>2
  <1>7. OK(L[n], n) /\ L[n] \in Layer
    BY <1>1, <1>2, <1>5, <1>6
  <1>8. 1 \in DOMAIN L[n] /\ L[n][1] \in Node
    BY <1>7 DEF Layer
  <1>9. CheapestPath(runs, v) = L[n][1].path
    BY <1>1 DEF CheapestPath
  <1>10. NodeOK(L[n][1], runs, n)
    BY <1>7, <1>8
  <1>11. L[n][1].path \in Seq(Segment)
    BY <1>8 DEF Node
  <1> QED BY <1>9, <1>10, <1>11 DEF NodeOK

\* The segments of a text spell it, whatever version weighs the edges.
LEMMA FromStringSpells ==
    ASSUME NEW text \in Seq(Mode) \ {<<>>}, NEW v \in Version
    PROVE  FromString(text, v) \in Seq(Segment) /\ Spells(FromString(text, v), text)
  <1> DEFINE runs == RawSplit(text)
             path == CheapestPath(runs, v)
             segments == Merge(path)
  <1>1. /\ runs \in Seq(Segment) \ {<<>>} /\ Covers(runs, text, Itself)
        /\ Characters(runs) = Len(text)
    BY RawSplitIs
  <1> HIDE DEF runs
  <1>2. /\ path \in Seq(Segment) /\ Len(path) = Len(runs)
        /\ \A j \in 1 .. Len(runs) : /\ path[j].length = runs[j].length
                                     /\ runs[j].mode \in Writes(path[j].mode)
    BY <1>1, CheapestPathOK
  <1> HIDE DEF path
  <1>3. Covers(path, text, WrittenBy) /\ Characters(path) = Len(text)
    BY <1>1, <1>2, PathCovers
  <1>4. Covers(segments, text, WrittenBy) /\ Characters(segments) = Len(text)
    BY <1>2, <1>3, CoversMerge
  <1>5. segments \in Seq(Segment)
    <2>1. [mode |-> Byte, length |-> 0] \in Segment
      BY DEF Segment, Mode
    <2> QED BY <1>2, <2>1, MergeAppend
  <1>6. FromString(text, v) = segments
    BY DEF FromString, path, runs
  <1> HIDE DEF segments
  <1>7. /\ DOMAIN segments = 1 .. Len(segments)
        /\ \A k \in DOMAIN segments : segments[k].mode \in Mode
    <2>1. DOMAIN segments = 1 .. Len(segments) /\ \A k \in DOMAIN segments : segments[k] \in Segment
      BY <1>5, LenProperties
    <2> QED BY <2>1 DEF Segment
  <1>8. \A k \in DOMAIN segments : WrittenBy[segments[k].mode] = Writes(segments[k].mode)
    BY <1>7 DEF WrittenBy
  <1>9. Spells(segments, text)
    BY <1>4, <1>7, <1>8 DEF Spells, Covers
  <1> QED BY <1>5, <1>6, <1>9

\* What the page shows was drawn for one of the addresses.
Drawn(text) == [text |-> text, segments |-> FromString(text, Estimate(text)),
                version |-> BestVersion(FromString(text, Estimate(text)))]

SymbolIsDrawn == symbol = NoSymbol \/ \E text \in Address : symbol = Drawn(text)

\* The page keeps that.
LEMMA SymbolIsDrawnAlways == QrSpec => []SymbolIsDrawn
  <1>1. QrInit => SymbolIsDrawn
    BY DEF QrInit, SymbolIsDrawn
  <1>2. SymbolIsDrawn /\ [QrNext]_symbol => SymbolIsDrawn'
    BY DEF SymbolIsDrawn, QrNext, DrawSymbol, LeaveAppeal, Drawn
  <1> QED BY <1>1, <1>2, PTL DEF QrSpec

\* Every symbol the page draws spells the whole address and fits into
\* its version, for every set of addresses.
THEOREM SymbolSpellsAddressAlways == QrSpec => []SymbolSpellsAddress
  <1>1. SymbolIsDrawn => SymbolSpellsAddress
    <2> SUFFICES ASSUME SymbolIsDrawn, symbol.version # TooBig
                 PROVE  /\ Spells(symbol.segments, symbol.text)
                        /\ TotalBits(symbol.segments, symbol.version) <= DataBits(symbol.version)
                        /\ Written(symbol.segments, symbol.version) <= DataBits(symbol.version)
      BY DEF SymbolSpellsAddress
    <2>1. symbol # NoSymbol
      BY DEF NoSymbol
    <2>2. PICK text \in Address : symbol = Drawn(text)
      BY <2>1 DEF SymbolIsDrawn
    <2>3. text \in Seq(Mode) \ {<<>>}
      BY AddressAssumption
    <2> DEFINE v == Estimate(text)
               segments == FromString(text, v)
               best == BestVersion(segments)
    <2>4. symbol.text = text /\ symbol.segments = segments /\ symbol.version = best
      BY <2>2 DEF Drawn
    <2>5. v \in Version
      BY <2>3, EstimateTyped
    <2> HIDE DEF v
    <2>6. segments \in Seq(Segment) /\ Spells(segments, text)
      BY <2>3, <2>5, FromStringSpells
    <2> HIDE DEF segments
    <2>7. best \in Version /\ TotalBits(segments, best) <= DataBits(best)
      BY <2>4, <2>6, BestVersionIs
    <2> HIDE DEF best
    <2>8. Written(segments, best) <= DataBits(best)
      BY <2>6, <2>7, WrittenFits
    <2> QED BY <2>4, <2>6, <2>7, <2>8
  <1> QED BY <1>1, SymbolIsDrawnAlways, PTL

-----------------------------------------------------------------------------
(* What a path costs, and what its segments take once they are merged *)

\* A sequence that is not empty ends with its last element.
LEMMA LastOf ==
    ASSUME NEW S, NEW s \in Seq(S) \ {<<>>}
    PROVE  \E h \in Seq(S), e \in S : s = Append(h, e) /\ e = Last(s)
  <1> DEFINE n == Len(s)
             h == SubSeq(s, 1, n - 1)
  <1>1. n \in Nat /\ n # 0
    BY EmptySeq, LenProperties
  <1>2. n \in 1 .. n /\ n - 1 \in 0 .. n
    BY <1>1
  <1>3. h \in Seq(S)
    BY <1>2, PrefixTyped
  <1>4. s[n] \in S /\ SubSeq(s, 1, n) = Append(h, s[n])
    BY <1>2, PrefixGrows
  <1>5. SubSeq(s, 1, n) = s
    BY PrefixEnds
  <1>6. s[n] = Last(s)
    BY DEF Last
  <1> HIDE DEF h, n
  <1> QED BY <1>3, <1>4, <1>5, <1>6

\* Merged segments end in the mode of the last one.
LEMMA MergeLast ==
    ASSUME NEW s \in Seq(Segment) \ {<<>>}
    PROVE  \E h \in Seq(Segment), e \in Segment :
               Merge(s) = Append(h, e) /\ e.mode = Last(s).mode
  <1>1. PICK p \in Seq(Segment), x \in Segment : s = Append(p, x) /\ x = Last(s)
    BY LastOf
  <1> DEFINE done == Merge(p)
  <1>2. Merge(s) = Joined(done, x) /\ done \in Seq(Segment)
    BY <1>1, MergeAppend
  <1> HIDE DEF done
  <1>3. CASE done = <<>>
    <2>1. Merge(s) = Append(<<>>, x)
      BY <1>2, <1>3, JoinedIs
    <2>2. <<>> \in Seq(Segment)
      BY EmptySeq
    <2> QED BY <1>1, <2>1, <2>2
  <1>4. CASE done # <<>>
    <2>1. PICK h \in Seq(Segment), e \in Segment : done = Append(h, e)
      <3>1. done \in Seq(Segment) \ {<<>>}
        BY <1>2, <1>4
      <3>2. \E h \in Seq(Segment), e \in Segment : done = Append(h, e) /\ e = Last(done)
        BY <3>1, LastOf
      <3> QED BY <3>2
    <2>2. CASE e.mode # x.mode
      <3>1. Merge(s) = Append(done, x)
        BY <1>2, <2>1, <2>2, JoinedIs
      <3> QED BY <1>1, <1>2, <3>1
    <2>3. CASE e.mode = x.mode
      <3> DEFINE y == [mode |-> x.mode, length |-> x.length + e.length]
      <3>1. Merge(s) = Append(h, y)
        BY <1>2, <2>1, <2>3, JoinedIs
      <3>2. y \in Segment /\ y.mode = x.mode
        BY DEF Segment
      <3> HIDE DEF y
      <3> QED BY <1>1, <2>1, <3>1, <3>2
    <2> QED BY <2>2, <2>3
  <1> QED BY <1>3, <1>4

\* What one more segment on a path adds to the bits of its merged segments.
LEMMA MergedBits ==
    ASSUME NEW path \in Seq(Segment) \ {<<>>}, NEW x \in Segment, NEW v \in Version
    PROVE  /\ Last(path).mode # x.mode =>
                  TotalBits(Merge(Append(path, x)), v)
                  = TotalBits(Merge(path), v) + SegmentBits(x.mode, x.length, v)
           /\ Last(path).mode = x.mode =>
                  \E l \in Nat :
                      TotalBits(Merge(Append(path, x)), v)
                      = TotalBits(Merge(path), v)
                        + (BitsLength(x.mode, l + x.length) - BitsLength(x.mode, l))
  <1>1. PICK h \in Seq(Segment), e \in Segment :
            Merge(path) = Append(h, e) /\ e.mode = Last(path).mode
    BY MergeLast
  <1>2. Merge(Append(path, x)) = Joined(Append(h, e), x) /\ Append(h, e) \in Seq(Segment)
    <2>1. path \in Seq(Segment)
      OBVIOUS
    <2>2. Merge(Append(path, x)) = Joined(Merge(path), x)
      BY <2>1, MergeAppend
    <2>3. Append(h, e) \in Seq(Segment)
      BY JoinedIs
    <2> QED BY <1>1, <2>2, <2>3
  <1>3. CASE Last(path).mode # x.mode
    <2>1. Merge(Append(path, x)) = Append(Append(h, e), x)
      BY <1>1, <1>2, <1>3, JoinedIs
    <2>2. TotalBits(Append(Append(h, e), x), v)
          = TotalBits(Append(h, e), v) + SegmentBits(x.mode, x.length, v)
      BY <1>2, TotalBitsLaws
    <2> QED BY <1>1, <1>3, <2>1, <2>2
  <1>4. CASE Last(path).mode = x.mode
    <2> DEFINE m == x.mode
               n == x.length
               l == e.length
               y == [mode |-> m, length |-> n + l]
    <2>1. m \in Mode /\ n \in Nat /\ l \in Nat /\ e.mode = m /\ y \in Segment
      BY <1>1, <1>4 DEF Segment
    <2>2. y.mode = m /\ y.length = l + n
      BY <2>1
    <2>3. Merge(Append(path, x)) = Append(h, y)
      BY <1>1, <1>2, <1>4, JoinedIs
    <2> HIDE DEF y
    <2>4. /\ TotalBits(Append(h, y), v) = TotalBits(h, v) + SegmentBits(m, l + n, v)
          /\ TotalBits(Append(h, e), v) = TotalBits(h, v) + SegmentBits(m, l, v)
          /\ TotalBits(h, v) \in Nat
      BY <2>1, <2>2, TotalBitsLaws
    <2> HIDE DEF m, n, l
    <2> DEFINE header == ReservedBits(m, v)
               before == BitsLength(m, l)
               after == BitsLength(m, l + n)
               rest == TotalBits(h, v)
    <2>5. SegmentBits(m, l + n, v) = after + header /\ after \in Nat
      BY <2>1, BitsTyped, l + n \in Nat
    <2>6. SegmentBits(m, l, v) = before + header /\ before \in Nat
      BY <2>1, BitsTyped
    <2>7. header \in Nat
      <3>1. header \in 1 .. 20
        BY <2>1, BitsTyped
      <3> HIDE DEF header
      <3> QED BY <3>1
    <2>8. TotalBits(Append(h, y), v) = TotalBits(Append(h, e), v) + (after - before)
      <3>1. /\ TotalBits(Append(h, y), v) = rest + (after + header)
            /\ TotalBits(Append(h, e), v) = rest + (before + header)
            /\ rest \in Nat
        BY <2>4, <2>5, <2>6
      <3> HIDE DEF header, before, after, rest
      <3> QED BY <2>5, <2>6, <2>7, <3>1
    <2>9. TotalBits(Merge(Append(path, x)), v)
          = TotalBits(Merge(path), v) + (BitsLength(m, l + n) - BitsLength(m, l))
      BY <1>1, <2>3, <2>8
    <2> QED BY <1>4, <2>1, <2>9 DEF m, n, l
  <1> QED BY <1>3, <1>4

\* The lengths that decide what a segment of bytes or letters grows by.
LEMMA Growth ==
    ASSUME NEW n \in Nat, NEW l \in Nat
    PROVE  /\ BitsLength(Byte, l + n) - BitsLength(Byte, l) = 8 * n
           /\ BitsLength(Byte, n) = 8 * n
           /\ BitsLength(Alphanumeric, l + n) - BitsLength(Alphanumeric, l)
              <= BitsLength(Alphanumeric, n)
           /\ BitsLength(Alphanumeric, l + n) - BitsLength(Alphanumeric, l)
              <= BitsLength(Alphanumeric, n + n) - BitsLength(Alphanumeric, n) + 1
           /\ BitsLength(Alphanumeric, 0) = 0
           /\ BitsLength(Numeric, 0) = 0
  <1>1. \A k \in Nat : BitsLength(Byte, k) = 8 * k
    BY DEF BitsLength, Numeric, Alphanumeric, Byte
  <1>2. \A k \in Nat : BitsLength(Alphanumeric, k) = 11 * (k \div 2) + (k % 2) * 6
    BY DEF BitsLength, Numeric, Alphanumeric, Byte
  <1>3. BitsLength(Numeric, 0) = 0
    BY DEF BitsLength, Numeric, Alphanumeric, Byte
  <1> DEFINE A(k) == 11 * (k \div 2) + (k % 2) * 6
  <1>4. l + n \in Nat /\ n + n \in Nat /\ 0 \in Nat
    OBVIOUS
  <1>5. A(l + n) - A(l) <= A(n)
    OBVIOUS
  <1>6. A(l + n) - A(l) <= A(n + n) - A(n) + 1
    OBVIOUS
  <1>7. A(0) = 0
    OBVIOUS
  <1>8. /\ BitsLength(Alphanumeric, l + n) = A(l + n) /\ BitsLength(Alphanumeric, l) = A(l)
        /\ BitsLength(Alphanumeric, n + n) = A(n + n) /\ BitsLength(Alphanumeric, n) = A(n)
        /\ BitsLength(Alphanumeric, 0) = A(0)
    BY <1>2, <1>4
  <1>9. /\ BitsLength(Byte, l + n) - BitsLength(Byte, l) = 8 * n
        /\ BitsLength(Byte, n) = 8 * n
    <2>1. 8 * (l + n) - 8 * l = 8 * n
      OBVIOUS
    <2> QED BY <1>1, <1>4, <2>1
  <1> HIDE DEF A
  <1> QED BY <1>3, <1>5, <1>6, <1>7, <1>8, <1>9

\* An edge to the same mode weighs less than a new segment, one to another
\* mode as much.  The letters are the only ones it can weigh too little, by one
\* bit, and only where a run of digits joins them.
LEMMA Weights ==
    ASSUME NEW run \in Segment, NEW i \in 1 .. Len(Options(run.mode)), NEW v \in Version, NEW from
    PROVE  LET mode == Options(run.mode)[i]
               bits == SegmentBits(mode, run.length, v)
               weight == EdgeWeight(from, run, i, v)
           IN  /\ bits \in Nat /\ weight \in Int
               /\ from # mode => weight = bits
               /\ from = mode => weight < bits
               /\ from = mode /\ mode # Numeric => \A l \in Nat :
                      BitsLength(mode, l + run.length) - BitsLength(mode, l)
                      <= weight + (IF run.mode = Numeric /\ i = 2 THEN 1 ELSE 0)
  <1> DEFINE mode == Options(run.mode)[i]
             n == run.length
             bits == SegmentBits(mode, n, v)
             weight == EdgeWeight(from, run, i, v)
             last == LastCount(i, n)
             extra == IF run.mode = Numeric /\ i = 2 THEN 1 ELSE 0
  <1>1. run.mode \in Mode /\ n \in Nat /\ last \in Nat
    BY DEF Segment, LastCount
  <1>2. mode \in Mode
    BY <1>1, OptionsAre
  <1>3. weight = IF from = mode THEN BitsLength(mode, last + n) - BitsLength(mode, last) ELSE bits
    BY DEF EdgeWeight
  <1>4. weight \in Int
    BY WeightTyped
  <1>5. mode = Numeric => i = 1
    BY <1>1 DEF Options, Mode, Numeric, Alphanumeric, Byte
  <1>6. mode = Alphanumeric /\ i # 1 => run.mode = Numeric /\ i = 2
    BY <1>1 DEF Options, Mode, Numeric, Alphanumeric, Byte
  <1>7. (i = 1 => last = 0) /\ (i # 1 => last = n)
    BY DEF LastCount
  <1>a. extra \in {0, 1} /\ (mode = Alphanumeric /\ i # 1 => extra = 1)
    BY <1>6
  <1> HIDE DEF mode, n, last, weight, extra
  <1>8. bits \in Nat /\ BitsLength(mode, n) \in Nat /\ BitsLength(mode, n) < bits
    <2>1. /\ bits = BitsLength(mode, n) + ReservedBits(mode, v)
          /\ BitsLength(mode, n) \in Nat /\ ReservedBits(mode, v) \in 1 .. 20
      BY <1>1, <1>2, BitsTyped
    <2> DEFINE header == ReservedBits(mode, v)
               data == BitsLength(mode, n)
    <2>2. bits = data + header /\ data \in Nat /\ header \in 1 .. 20
      BY <2>1
    <2> HIDE DEF bits, header, data
    <2>3. bits \in Nat /\ data < bits
      BY <2>2
    <2> QED BY <2>2, <2>3 DEF data
  <1> HIDE DEF bits
  <1>9. ASSUME from = mode PROVE weight <= BitsLength(mode, n)
    <2>1. weight = BitsLength(mode, last + n) - BitsLength(mode, last)
      BY <1>3, <1>9
    <2>2. CASE mode = Numeric
      <3>1. last = 0 /\ 0 + n = n
        BY <1>1, <1>5, <1>7, <2>2
      <3>2. BitsLength(mode, 0) = 0
        BY <2>2, Growth
      <3> QED BY <1>8, <2>1, <3>1, <3>2
    <2>3. CASE mode = Alphanumeric
      <3>1. BitsLength(mode, last + n) - BitsLength(mode, last) <= BitsLength(mode, n)
        BY <1>1, <2>3, Growth
      <3> QED BY <2>1, <3>1
    <2>4. CASE mode = Byte
      <3>1. BitsLength(mode, last + n) - BitsLength(mode, last) = 8 * n
            /\ BitsLength(mode, n) = 8 * n
        BY <1>1, <2>4, Growth
      <3> QED BY <1>1, <2>1, <3>1
    <2> QED BY <1>2, <2>2, <2>3, <2>4 DEF Mode
  <1>10. ASSUME from = mode, mode # Numeric, NEW l \in Nat
         PROVE  BitsLength(mode, l + n) - BitsLength(mode, l) <= weight + extra
    <2>1. weight = BitsLength(mode, last + n) - BitsLength(mode, last)
      BY <1>3, <1>10
    <2> DEFINE grown == BitsLength(mode, l + n) - BitsLength(mode, l)
    <2> SUFFICES grown <= weight + extra
      OBVIOUS
    <2>2. grown \in Int
      <3>1. BitsLength(mode, l + n) \in Nat
        BY <1>1, <1>2, BitsTyped, l + n \in Nat
      <3>2. BitsLength(mode, l) \in Nat
        BY <1>2, BitsTyped
      <3> QED BY <3>1, <3>2
    <2>3. CASE mode = Alphanumeric /\ i = 1
      <3>1. last = 0 /\ 0 + n = n
        BY <1>1, <1>7, <2>3
      <3>2. BitsLength(mode, 0) = 0 /\ grown <= BitsLength(mode, n)
        BY <1>1, <2>3, Growth
      <3> HIDE DEF grown
      <3>3. weight = BitsLength(mode, n)
        BY <1>8, <2>1, <3>1, <3>2
      <3> QED BY <1>4, <1>a, <2>2, <3>2, <3>3
    <2>4. CASE mode = Alphanumeric /\ i # 1
      <3>1. last = n
        BY <1>7, <2>4
      <3>2. grown <= BitsLength(mode, n + n) - BitsLength(mode, n) + 1
        BY <1>1, <2>4, Growth
      <3>3. extra = 1
        BY <1>a, <2>4
      <3>4. weight = BitsLength(mode, n + n) - BitsLength(mode, n)
        BY <2>1, <3>1
      <3> HIDE DEF grown
      <3> QED BY <3>2, <3>3, <3>4
    <2>5. CASE mode = Byte
      <3>1. grown = 8 * n /\ BitsLength(mode, last + n) - BitsLength(mode, last) = 8 * n
        BY <1>1, <2>5, Growth
      <3> HIDE DEF grown
      <3> QED BY <1>4, <1>a, <2>1, <2>2, <3>1
    <2> HIDE DEF grown
    <2> QED BY <1>2, <1>10, <2>3, <2>4, <2>5 DEF Mode
  <1>11. from # mode => weight = bits
    BY <1>3
  <1>12. from = mode => weight < bits
    BY <1>4, <1>8, <1>9
  <1> QED BY <1>4, <1>8, <1>10, <1>11, <1>12 DEF mode, n, bits, weight, extra

\* Where a run may be written in a mode that is not its own.
LEMMA OptionsOfOthers ==
    ASSUME NEW mode \in Mode, NEW i \in 1 .. Len(Options(mode))
    PROVE  /\ Options(mode)[i] = Numeric => mode = Numeric
           /\ mode # Numeric /\ i # 1 => Options(mode)[i] = Byte
           /\ mode = Numeric /\ i = 2 => Options(mode)[i] # Byte
  BY DEF Options, Mode, Numeric, Alphanumeric, Byte

-----------------------------------------------------------------------------
(* The symbol is no larger than for the plain split *)

\* How far the weights of a path fall short of the bits it takes.
Slack(node, v) == TotalBits(Merge(node.path), v) - node.cost

\* A node reached from a layer: by a switch of mode only from the first node,
\* and then at its full price; without a switch for less than that.
LEMMA NodeReached ==
    ASSUME NEW run \in Segment, NEW i \in 1 .. Len(Options(run.mode)), NEW v \in Version,
           NEW layer \in Layer, \A l \in DOMAIN layer : layer[1].cost <= layer[l].cost,
           NEW y \in Node, Extends(y, layer, run, i, v)
    PROVE  LET mode == Options(run.mode)[i]
               x    == layer[y.from]
               from == Last(x.path).mode
               full == layer[1].cost + SegmentBits(mode, run.length, v)
           IN  /\ y.cost \in Int /\ full \in Int /\ Slack(x, v) \in Int /\ Slack(y, v) \in Int
               /\ from # mode => y.from = 1 /\ y.cost = full /\ Slack(y, v) = Slack(x, v)
               /\ from = mode => y.cost < full
               /\ from = mode /\ mode # Numeric =>
                      Slack(y, v) <= Slack(x, v)
                                     + (IF run.mode = Numeric /\ i = 2 THEN 1 ELSE 0)
  <1> DEFINE mode == Options(run.mode)[i]
             n == run.length
             x == layer[y.from]
             from == Last(x.path).mode
             bits == SegmentBits(mode, n, v)
             weight == EdgeWeight(from, run, i, v)
             weight1 == EdgeWeight(Last(layer[1].path).mode, run, i, v)
             cost1 == layer[1].cost
             full == cost1 + bits
             extra == IF run.mode = Numeric /\ i = 2 THEN 1 ELSE 0
             last == [mode |-> mode, length |-> n]
             R(node) == TotalBits(Merge(node.path), v)
  <1>1. /\ DOMAIN layer \subseteq 1 .. 3 /\ 1 \in DOMAIN layer
        /\ \A l \in DOMAIN layer : layer[l] \in Node
    BY DEF Layer
  <1>2. /\ y.option = i /\ y.from \in DOMAIN layer /\ y.cost = CostBy(x, run, i, v)
        /\ y.path = Append(x.path, last)
        /\ \/ y.cost < CostBy(layer[1], run, i, v)
           \/ y.cost = CostBy(layer[1], run, i, v) /\ y.from <= 1
    BY <1>1 DEF Extends
  <1>3. CostBy(x, run, i, v) = x.cost + weight /\ CostBy(layer[1], run, i, v) = cost1 + weight1
    BY DEF CostBy
  <1>4. x \in Node /\ layer[1] \in Node /\ cost1 <= x.cost
    BY <1>1, <1>2
  <1>5. x.cost \in Int /\ cost1 \in Int /\ x.path \in Seq(Segment) \ {<<>>} /\ y.cost \in Int
    BY <1>4 DEF Node
  <1>6. /\ bits \in Nat /\ weight \in Int
        /\ from # mode => weight = bits
        /\ from = mode => weight < bits
        /\ from = mode /\ mode # Numeric => \A l \in Nat :
               BitsLength(mode, l + n) - BitsLength(mode, l) <= weight + extra
    <2> HIDE DEF from
    <2> QED BY Weights
  <1>7. weight1 \in Int /\ weight1 <= bits
    <2> DEFINE from1 == Last(layer[1].path).mode
    <2>1. /\ bits \in Nat
          /\ EdgeWeight(from1, run, i, v) \in Int
          /\ from1 # mode => EdgeWeight(from1, run, i, v) = bits
          /\ from1 = mode => EdgeWeight(from1, run, i, v) < bits
      <3> HIDE DEF from1
      <3> QED BY Weights
    <2>2. weight1 = EdgeWeight(from1, run, i, v)
      OBVIOUS
    <2> HIDE DEF from1, bits, weight1, mode
    <2> QED BY <2>1, <2>2
  <1>8. last \in Segment /\ last.mode = mode /\ last.length = n /\ mode \in Mode
    <2>1. run.mode \in Mode /\ n \in Nat
      BY DEF Segment
    <2>2. mode \in Mode
      BY <2>1, OptionsAre
    <2> HIDE DEF mode, n
    <2> QED BY <2>1, <2>2 DEF Segment
  <1> HIDE DEF last
  <1>9. /\ from # mode => R(y) = R(x) + bits
        /\ from = mode =>
               \E l \in Nat : R(y) = R(x) + (BitsLength(mode, l + n) - BitsLength(mode, l))
    <2>1. /\ Last(x.path).mode # last.mode =>
                 TotalBits(Merge(Append(x.path, last)), v)
                 = TotalBits(Merge(x.path), v) + SegmentBits(last.mode, last.length, v)
          /\ Last(x.path).mode = last.mode =>
                 \E l \in Nat :
                     TotalBits(Merge(Append(x.path, last)), v)
                     = TotalBits(Merge(x.path), v)
                       + (BitsLength(last.mode, l + last.length) - BitsLength(last.mode, l))
      BY <1>5, <1>8, MergedBits
    <2> HIDE DEF mode, n, x
    <2> QED BY <1>2, <1>8, <2>1
  <1>10. R(x) \in Nat /\ R(y) \in Nat
    <2>1. \A s \in Seq(Segment) : Merge(s) \in Seq(Segment)
      BY <1>8, MergeAppend
    <2>2. x.path \in Seq(Segment) /\ y.path \in Seq(Segment)
      BY <1>5 DEF Node
    <2> QED BY <1>8, <2>1, <2>2, TotalBitsLaws
  <1>11. Slack(x, v) = R(x) - x.cost /\ Slack(y, v) = R(y) - y.cost
    BY DEF Slack
  <1>12. y.from \in Nat
    BY <1>1, <1>2
  <1>13. extra \in {0, 1}
    OBVIOUS
  <1> HIDE DEF R, extra, from, weight, weight1, bits, cost1, x
  <1>14. Slack(x, v) \in Int /\ Slack(y, v) \in Int
    BY <1>5, <1>10, <1>11
  <1>15. full \in Int
    BY <1>5, <1>6
  <1>16. ASSUME from # mode
         PROVE  y.from = 1 /\ y.cost = full /\ Slack(y, v) = Slack(x, v)
    <2>1. weight = bits /\ R(y) = R(x) + bits
      BY <1>6, <1>9, <1>16
    <2>2. y.cost = x.cost + bits
      BY <1>2, <1>3, <2>1
    <2>3. \/ y.cost < cost1 + weight1
          \/ y.cost = cost1 + weight1 /\ y.from <= 1
      BY <1>2, <1>3
    <2>4. y.cost = full /\ y.from <= 1
      BY <1>4, <1>5, <1>6, <1>7, <2>2, <2>3
    <2>5. y.from = 1
      <3>1. y.from # 0
        BY <1>1, <1>2
      <3> QED BY <1>12, <2>4, <3>1
    <2> QED BY <1>5, <1>6, <1>10, <1>11, <2>1, <2>2, <2>4, <2>5
  <1>17. ASSUME from = mode PROVE y.cost < full
    <2>1. weight < bits /\ y.cost = x.cost + weight
      BY <1>2, <1>3, <1>6, <1>17
    <2>2. \/ y.cost < cost1 + weight1
          \/ y.cost = cost1 + weight1 /\ y.from <= 1
      BY <1>2, <1>3
    <2>3. CASE y.from = 1
      <3>1. x.cost = cost1
        BY <2>3 DEF x, cost1
      <3> QED BY <1>5, <1>6, <2>1, <3>1
    <2>4. CASE y.from # 1
      <3>1. y.cost < cost1 + weight1
        <4>1. y.from # 0
          BY <1>1, <1>2
        <4> QED BY <1>12, <2>2, <2>4, <4>1
      <3> QED BY <1>5, <1>6, <1>7, <3>1
    <2> QED BY <2>3, <2>4
  <1>18. ASSUME from = mode, mode # Numeric PROVE Slack(y, v) <= Slack(x, v) + extra
    <2>1. PICK l \in Nat : R(y) = R(x) + (BitsLength(mode, l + n) - BitsLength(mode, l))
      BY <1>9, <1>18
    <2> DEFINE grown == BitsLength(mode, l + n) - BitsLength(mode, l)
    <2>2. grown <= weight + extra /\ y.cost = x.cost + weight /\ R(y) = R(x) + grown
      BY <1>2, <1>3, <1>6, <1>18, <2>1
    <2>3. grown \in Int
      <3>1. n \in Nat /\ l + n \in Nat
        BY <1>8 DEF Segment
      <3>2. BitsLength(mode, l + n) \in Nat
        BY <1>8, <3>1, BitsTyped
      <3>3. BitsLength(mode, l) \in Nat
        BY <1>8, BitsTyped
      <3> QED BY <3>2, <3>3
    <2> HIDE DEF grown
    <2> QED BY <1>5, <1>6, <1>10, <1>11, <1>13, <2>2, <2>3
  <1> HIDE DEF full
  <1> QED BY <1>5, <1>14, <1>15, <1>16, <1>17, <1>18
          DEF full, extra, from, bits, cost1, x

\* The bit that the letters of a run of digits may take beyond their weight.
Spare(layer, j, run) == IF run.mode = Numeric /\ j # 1 /\ layer[j].option = 2 THEN 1 ELSE 0

\* The bits of the first k runs of the plain split.
PlainBits(runs, k, v) == TotalBits(SubSeq(runs, 1, k), v)

\* The layers of the graph: whatever a path's weights fall short of its bits is
\* made up by what the first path of the layer saves on the plain split.
LayerOK(layer, runs, k, v) ==
    /\ layer \in Layer
    /\ \A j \in DOMAIN layer : NodeOK(layer[j], runs, k)
    /\ \A j \in DOMAIN layer : layer[1].cost <= layer[j].cost
    /\ \A j \in DOMAIN layer :
           Slack(layer[j], v) + layer[1].cost <= PlainBits(runs, k, v) + Spare(layer, j, runs[k])

\* The first node of a layer is the cheapest.
LEMMA ListsCheapest ==
    ASSUME NEW layer, NEW n \in 1 .. 3, NEW f, Lists(layer, n, f)
    PROVE  \A j \in DOMAIN layer : layer[1].cost <= layer[j].cost
  <1> SUFFICES ASSUME NEW j \in 1 .. n PROVE layer[1].cost <= layer[j].cost
    BY DEF Lists
  <1>1. 1 \in 1 .. n /\ layer[1] \in Node /\ layer[j] \in Node
    <2>1. layer \in Layer /\ DOMAIN layer = 1 .. n
      BY DEF Lists
    <2>2. \A i \in DOMAIN layer : layer[i] \in Node
      BY <2>1 DEF Layer
    <2> QED BY <2>1, <2>2
  <1>2. layer[1].cost \in Int /\ layer[j].cost \in Int
    BY <1>1 DEF Node
  <1>3. CASE j = 1
    BY <1>2, <1>3
  <1>4. CASE j # 1
    <2>1. Earlier(layer[1], layer[j])
      BY <1>1, <1>4 DEF Lists
    <2> QED BY <1>2, <2>1 DEF Earlier
  <1> QED BY <1>3, <1>4

\* The first layer falls short of nothing: its weights are the bits.
LEMMA FirstLayerOK ==
    ASSUME NEW runs \in Seq(Segment) \ {<<>>}, NEW v \in Version
    PROVE  LayerOK(InOrder(FirstLayer(runs[1], v)), runs, 1, v)
  <1> DEFINE run == runs[1]
             n == Len(Options(run.mode))
             f == FirstLayer(run, v)
             layer == InOrder(f)
             bits == SegmentBits(run.mode, run.length, v)
  <1>1. run \in Segment /\ run.mode \in Mode /\ run.length \in Nat /\ Len(runs) \in Nat
        /\ 1 \in 1 .. Len(runs)
    <2>1. run \in Segment /\ Len(runs) \in Nat /\ Len(runs) # 0
      BY LenProperties, EmptySeq
    <2> QED BY <2>1 DEF Segment
  <1>2. n \in 1 .. 3 /\ Options(run.mode)[1] = run.mode
        /\ \A i \in 1 .. n : Options(run.mode)[i] \in Mode
    BY <1>1, OptionsAre
  <1>3. \A j \in DOMAIN layer : NodeOK(layer[j], runs, 1)
    BY FirstNodeOK
  <1>4. PlainBits(runs, 1, v) = bits
    <2>1. SubSeq(runs, 1, 1) = Append(SubSeq(runs, 1, 1 - 1), run)
      BY <1>1, PrefixGrows
    <2>2. SubSeq(runs, 1, 1 - 1) = <<>>
      BY PrefixEnds
    <2>3. <<>> \in Seq(Segment)
      BY EmptySeq
    <2>4. TotalBits(Append(<<>>, run), v) = TotalBits(<<>>, v) + bits /\ TotalBits(<<>>, v) = 0
      BY <1>1, <2>3, TotalBitsLaws
    <2>5. bits \in Nat
      BY <1>1, BitsTyped
    <2> HIDE DEF bits, run
    <2>6. SubSeq(runs, 1, 1) = Append(<<>>, run)
      BY <2>1, <2>2
    <2>7. TotalBits(SubSeq(runs, 1, 1), v) = bits
      <3> DEFINE one == Append(<<>>, run)
                 none == TotalBits(<<>>, v)
                 all == TotalBits(one, v)
      <3>1. all = none + bits /\ none = 0
        BY <2>4
      <3>2. all = bits
        <4> HIDE DEF all, none
        <4> QED BY <2>5, <3>1
      <3> HIDE DEF one
      <3>3. SubSeq(runs, 1, 1) = one
        BY <2>6 DEF one
      <3> QED BY <3>2, <3>3
    <2> QED BY <2>7 DEF PlainBits
  <1>5. /\ Lists(layer, n, f)
        /\ \A i \in 1 .. n :
               f[i] = [path |-> <<[mode |-> Options(run.mode)[i], length |-> run.length]>>,
                       cost |-> SegmentBits(Options(run.mode)[i], run.length, v),
                       from |-> 0, option |-> i]
    <2> HIDE DEF run
    <2> QED BY <1>1, FirstLayerIs
  <1> HIDE DEF layer, f, n
  <1>6. layer \in Layer /\ DOMAIN layer = 1 .. n
        /\ (\A j \in 1 .. n : \E i \in 1 .. n : layer[j] = f[i])
        /\ (\A i \in 1 .. n : \E j \in 1 .. n : layer[j] = f[i])
    BY <1>5 DEF Lists
  <1>7. \A j \in DOMAIN layer : layer[1].cost <= layer[j].cost
    BY <1>2, <1>5, ListsCheapest
  <1>8. layer[1].cost \in Int
    BY <1>6 DEF Layer, Node
  <1>9. layer[1].cost <= bits
    <2>1. 1 \in 1 .. n /\ f[1].cost = bits
      <3> DEFINE path == <<[mode |-> Options(run.mode)[1], length |-> run.length]>>
                 cost == SegmentBits(Options(run.mode)[1], run.length, v)
      <3>1. 1 \in 1 .. n
        BY <1>2
      <3>2. f[1] = [path |-> path, cost |-> cost, from |-> 0, option |-> 1]
        BY <1>5, <3>1
      <3>3. cost = bits
        BY <1>2
      <3> HIDE DEF path, cost, bits
      <3> QED BY <3>1, <3>2, <3>3
    <2> HIDE DEF bits
    <2> QED BY <1>6, <1>7, <2>1
  <1>10. ASSUME NEW j \in 1 .. n PROVE Slack(layer[j], v) = 0
    <2>1. PICK i \in 1 .. n : layer[j] = f[i]
      BY <1>6
    <2> DEFINE mode == Options(run.mode)[i]
               x == [mode |-> mode, length |-> run.length]
               cost == SegmentBits(mode, run.length, v)
    <2>2. f[i].path = <<x>> /\ f[i].cost = cost
      <3>1. f[i] = [path |-> <<x>>, cost |-> cost, from |-> 0, option |-> i]
        BY <1>5
      <3> HIDE DEF x, cost
      <3> QED BY <3>1
    <2>3. x \in Segment /\ x.mode = mode /\ x.length = run.length /\ mode \in Mode
      BY <1>1, <1>2 DEF Segment
    <2> HIDE DEF x, mode
    <2>4. <<x>> = Append(<<>>, x)
      OBVIOUS
    <2>5. <<>> \in Seq(Segment)
      BY EmptySeq
    <2>6. Merge(<<x>>) = Append(<<>>, x)
      BY <2>3, <2>4, <2>5, MergeAppend, MergeEmpty, JoinedIs
    <2>7. TotalBits(Append(<<>>, x), v) = TotalBits(<<>>, v) + cost /\ TotalBits(<<>>, v) = 0
      BY <2>3, <2>5, TotalBitsLaws
    <2>8. cost \in Nat
      BY <1>1, <2>3, BitsTyped
    <2> HIDE DEF cost
    <2> QED BY <2>1, <2>2, <2>6, <2>7, <2>8 DEF Slack
  <1>11. ASSUME NEW j \in DOMAIN layer
         PROVE  Slack(layer[j], v) + layer[1].cost
                <= PlainBits(runs, 1, v) + Spare(layer, j, runs[1])
    <2>1. bits \in Nat
      BY <1>1, BitsTyped
    <2>2. Spare(layer, j, runs[1]) \in {0, 1}
      BY DEF Spare
    <2>3. Slack(layer[j], v) = 0 /\ PlainBits(runs, 1, v) = bits /\ layer[1].cost <= bits
          /\ layer[1].cost \in Int
      BY <1>4, <1>6, <1>8, <1>9, <1>10
    <2> DEFINE slack == Slack(layer[j], v)
               first == layer[1].cost
               plain == PlainBits(runs, 1, v)
               spare == Spare(layer, j, runs[1])
    <2> HIDE DEF bits, slack, first, plain, spare
    <2>4. slack + first <= plain + spare
      BY <2>1, <2>2, <2>3 DEF slack, first, plain, spare
    <2> QED BY <2>4 DEF slack, first, plain, spare
  <1> QED BY <1>3, <1>6, <1>7, <1>11 DEF LayerOK, layer, f

\* The weights of a layer fall short by no more than its first node saves, if
\* those of the layer before do.  The one bit that letters joined to the letters
\* of a run of digits may take beyond their weight is spare, unless the queue
\* gives them out first: then they are cheaper than the digits themselves.
LEMMA NextLayerOK ==
    ASSUME NEW runs \in Seq(Segment), NEW k \in 2 .. Len(runs), NEW v \in Version,
           Apart(runs), NEW layer, LayerOK(layer, runs, k - 1, v)
    PROVE  LayerOK(NextLayer(layer, runs[k], v), runs, k, v)
  <1> DEFINE run == runs[k]
             before == runs[k - 1]
             n == Len(Options(run.mode))
             next == NextLayer(layer, run, v)
             f == [i \in 1 .. n |-> Reached(layer, run, i, v)]
             mode(i) == Options(run.mode)[i]
             cost1 == layer[1].cost
             bits == SegmentBits(run.mode, run.length, v)
             plain == PlainBits(runs, k - 1, v)
             from(y) == Last(layer[y.from].path).mode
  <1>1. /\ run \in Segment /\ run.mode \in Mode /\ run.length \in Nat
        /\ before \in Segment /\ before.mode \in Mode /\ before.mode # run.mode
        /\ Len(runs) \in Nat /\ k \in 1 .. Len(runs) /\ k - 1 \in 0 .. Len(runs)
    <2>1. Len(runs) \in Nat
      BY LenProperties
    <2>2. k \in 1 .. Len(runs) /\ k - 1 \in 1 .. Len(runs) - 1 /\ k - 1 \in 1 .. Len(runs)
          /\ (k - 1) + 1 = k
      BY <2>1
    <2>3. run \in Segment /\ before \in Segment
      BY <2>2, ElementOfSeq
    <2>4. before.mode # run.mode
      BY <2>2 DEF Apart
    <2> QED BY <2>1, <2>2, <2>3, <2>4 DEF Segment
  <1>2. /\ layer \in Layer /\ 1 \in DOMAIN layer /\ DOMAIN layer \subseteq 1 .. 3
        /\ \A j \in DOMAIN layer : layer[j] \in Node /\ NodeOK(layer[j], runs, k - 1)
        /\ \A j \in DOMAIN layer : cost1 <= layer[j].cost
        /\ \A j \in DOMAIN layer :
               Slack(layer[j], v) + cost1 <= plain + Spare(layer, j, before)
    BY DEF LayerOK, Layer
  <1>3. \A j \in DOMAIN next : NodeOK(next[j], runs, k)
    BY <1>2, NextNodeOK
  <1>4. /\ n \in 1 .. 3 /\ mode(1) = run.mode
    BY <1>1, OptionsAre
  <1>5. Lists(next, n, f)
    <2> HIDE DEF run
    <2> QED BY <1>1, <1>2, NextLayerIs
  <1>6. /\ next \in Layer /\ DOMAIN next = 1 .. n
        /\ \A j \in 1 .. n : \E i \in 1 .. n : next[j] = f[i]
        /\ \A i \in 1 .. n : \E j \in 1 .. n : next[j] = f[i]
        /\ \A i, j \in 1 .. n : i < j => Earlier(next[i], next[j])
    <2> HIDE DEF next, n, f
    <2> QED BY <1>5 DEF Lists
  <1>7. \A j \in DOMAIN next : next[1].cost <= next[j].cost
    <2> HIDE DEF next, n, f
    <2> QED BY <1>4, <1>5, ListsCheapest
  <1>8. bits \in Nat /\ plain \in Nat /\ PlainBits(runs, k, v) = plain + bits
    <2>1. SubSeq(runs, 1, k) = Append(SubSeq(runs, 1, k - 1), run)
      BY <1>1, PrefixGrows
    <2>2. SubSeq(runs, 1, k - 1) \in Seq(Segment)
      BY <1>1, PrefixTyped
    <2> HIDE DEF run
    <2>3. /\ TotalBits(SubSeq(runs, 1, k - 1), v) \in Nat
          /\ TotalBits(Append(SubSeq(runs, 1, k - 1), run), v)
             = TotalBits(SubSeq(runs, 1, k - 1), v) + bits
      BY <1>1, <2>2, TotalBitsLaws
    <2>4. bits \in Nat
      BY <1>1, BitsTyped
    <2> HIDE DEF bits
    <2> QED BY <2>1, <2>3, <2>4 DEF PlainBits
  \* The node for option i.
  <1>9. ASSUME NEW i \in 1 .. n, NEW y, y = f[i]
        PROVE  /\ y \in Node /\ y.option = i /\ y.from \in DOMAIN layer
               /\ Extends(y, layer, run, i, v)
    <2> HIDE DEF run
    <2>1. Reached(layer, run, i, v) \in Node /\ Extends(Reached(layer, run, i, v), layer, run, i, v)
      BY <1>1, <1>2, ReachedIs
    <2>2. y \in Node /\ Extends(y, layer, run, i, v)
      BY <1>9, <2>1
    <2> QED BY <2>2 DEF Extends
  <1>10. ASSUME NEW i \in 1 .. n, NEW y, y = f[i]
         PROVE  LET full == cost1 + SegmentBits(mode(i), run.length, v)
                    x == layer[y.from]
                IN  /\ y.cost \in Int /\ full \in Int /\ Slack(x, v) \in Int /\ Slack(y, v) \in Int
                    /\ from(y) # mode(i) =>
                           y.from = 1 /\ y.cost = full /\ Slack(y, v) = Slack(x, v)
                    /\ from(y) = mode(i) => y.cost < full
                    /\ from(y) = mode(i) /\ mode(i) # Numeric =>
                           Slack(y, v) <= Slack(x, v)
                                          + (IF run.mode = Numeric /\ i = 2 THEN 1 ELSE 0)
    <2>1. y \in Node /\ Extends(y, layer, run, i, v)
      BY <1>9, <1>10
    <2> HIDE DEF run
    <2> QED BY <1>1, <1>2, <2>1, NodeReached
  \* A mode the run before may be written in.
  <1>11. ASSUME NEW x, x \in { layer[j] : j \in DOMAIN layer }
         PROVE  /\ x.option \in 1 .. Len(Options(before.mode))
                /\ Last(x.path).mode = Options(before.mode)[x.option]
    <2>1. NodeOK(x, runs, k - 1)
      BY <1>2, <1>11
    <2> QED BY <2>1 DEF NodeOK
  <1> DEFINE z == f[1]
  <1>12. 1 \in 1 .. n /\ z = f[1]
    BY <1>4
  <1>13. /\ z.cost \in Int /\ z.cost <= cost1 + bits
         /\ from(z) # run.mode => z.from = 1 /\ z.cost = cost1 + bits
         /\ from(z) = run.mode => z.cost < cost1 + bits
         /\ cost1 \in Int
    <2>1. /\ z.cost \in Int /\ cost1 + SegmentBits(mode(1), run.length, v) \in Int
          /\ from(z) # mode(1) =>
                 z.from = 1 /\ z.cost = cost1 + SegmentBits(mode(1), run.length, v)
          /\ from(z) = mode(1) => z.cost < cost1 + SegmentBits(mode(1), run.length, v)
      <3> HIDE DEF f, n, from, mode, cost1
      <3> QED BY <1>10, <1>12
    <2>2. cost1 \in Int
      BY <1>2 DEF Node
    <2> HIDE DEF z, from, mode, cost1
    <2> QED BY <1>4, <1>8, <2>1, <2>2
  <1>14. next[1].cost \in Int /\ next[1].cost <= z.cost
    <2>1. PICK j \in 1 .. n : next[j] = z
      BY <1>6, <1>12
    <2>2. next[1] \in Node
      BY <1>6 DEF Layer
    <2> HIDE DEF next, z
    <2> QED BY <1>6, <1>7, <2>1, <2>2 DEF Node
  <1>15. ASSUME NEW j \in 1 .. n
         PROVE  Slack(next[j], v) + next[1].cost <= plain + bits + Spare(next, j, run)
    <2>1. PICK i \in 1 .. n : next[j] = f[i]
      BY <1>6
    <2> DEFINE y == f[i]
               x == layer[y.from]
               spare == Spare(layer, y.from, before)
               slack == Slack(x, v)
               own == Slack(y, v)
               first == next[1].cost
               spare2 == Spare(next, j, run)
               full == cost1 + SegmentBits(mode(i), run.length, v)
    <2>2. y \in Node /\ y.option = i /\ y.from \in DOMAIN layer /\ next[j] = y
      BY <1>9, <2>1
    <2>3. /\ y.cost \in Int /\ full \in Int /\ slack \in Int /\ own \in Int
          /\ from(y) # mode(i) => y.from = 1 /\ own = slack
          /\ from(y) = mode(i) => y.cost < full
          /\ from(y) = mode(i) /\ mode(i) # Numeric =>
                 own <= slack + (IF run.mode = Numeric /\ i = 2 THEN 1 ELSE 0)
      <3> HIDE DEF f, n, from, mode, cost1
      <3> QED BY <1>10
    <2>4. slack + cost1 <= plain + spare /\ spare \in {0, 1} /\ spare2 \in {0, 1}
      BY <1>2, <2>2 DEF Spare
    <2>5. /\ x.option \in 1 .. Len(Options(before.mode))
          /\ from(y) = Options(before.mode)[x.option]
      BY <1>11, <2>2
    <2>6. spare = 1 => before.mode = Numeric /\ x.option = 2
      BY DEF Spare
    <2>7. y.from = 1 => spare = 0
      BY DEF Spare
    <2>8. first <= cost1 + bits /\ first \in Int
      BY <1>8, <1>13, <1>14
    <2>9. /\ mode(i) = Numeric => run.mode = Numeric
          /\ run.mode # Numeric /\ i # 1 => mode(i) = Byte
          /\ before.mode = Numeric /\ x.option = 2 => from(y) # Byte
          /\ from(y) = Numeric => before.mode = Numeric
      BY <1>1, <2>5, OptionsOfOthers
    <2>10. first <= y.cost
      BY <1>6, <1>7, <2>2
    <2>11. i = 1 => full = cost1 + bits
      BY <1>4
    <2>12. run.mode = Numeric /\ i = 2 /\ j # 1 => spare2 = 1
      BY <2>2 DEF Spare
    <2>13. own + first <= plain + bits + spare2
      <3>1. CASE from(y) # mode(i)
        <4>1. spare = 0 /\ own = slack
          BY <2>3, <2>7, <3>1
        <4> HIDE DEF spare, own, slack, first, spare2, plain, cost1, bits, z, next
        <4> QED BY <1>8, <1>13, <2>3, <2>4, <2>8, <4>1
      <3>2. CASE from(y) = mode(i) /\ before.mode = Numeric
        <4>1. run.mode # Numeric /\ mode(i) # Numeric
          BY <1>1, <2>9, <3>2
        <4>2. own <= slack
          <5>1. own <= slack + 0
            BY <2>3, <3>2, <4>1
          <5> HIDE DEF own, slack
          <5> QED BY <2>3, <5>1
        <4>3. CASE i = 1
          <5>1. y.cost < cost1 + bits
            BY <2>3, <2>11, <3>2, <4>3
          <5>2. y.cost \in Int /\ slack \in Int /\ own \in Int
            BY <2>3
          <5>3. cost1 \in Int /\ bits \in Nat /\ plain \in Nat
            BY <1>8, <1>13
          <5> HIDE DEF spare, own, slack, first, spare2, plain, cost1, bits, z, next, y
          <5>4. own + first <= slack + y.cost
            BY <2>8, <2>10, <4>2, <5>2
          <5>5. slack + y.cost <= plain + bits
            BY <2>4, <5>1, <5>2, <5>3
          <5> QED BY <2>4, <2>8, <5>2, <5>3, <5>4, <5>5
        <4>4. CASE i # 1
          <5>1. spare = 0
            <6>1. from(y) = Byte
              BY <2>9, <3>2, <4>1, <4>4
            <6> HIDE DEF spare
            <6> QED BY <2>4, <2>6, <2>9, <6>1
          <5> HIDE DEF spare, own, slack, first, spare2, plain, cost1, bits, z, next, y
          <5> QED BY <1>8, <1>13, <2>3, <2>4, <2>8, <4>2, <5>1
        <4> QED BY <4>3, <4>4
      <3>3. CASE from(y) = mode(i) /\ before.mode # Numeric
        <4>1. spare = 0
          <5> HIDE DEF spare
          <5> QED BY <2>4, <2>6, <3>3
        <4>2. mode(i) # Numeric
          BY <2>9, <3>3
        <4>3. CASE ~ (run.mode = Numeric /\ i = 2)
          <5>1. own <= slack + 0
            BY <2>3, <3>3, <4>2, <4>3
          <5> HIDE DEF spare, own, slack, first, spare2, plain, cost1, bits, z, next, y
          <5> QED BY <1>8, <1>13, <2>3, <2>4, <2>8, <4>1, <5>1
        <4>4. CASE run.mode = Numeric /\ i = 2
          <5>1. own <= slack + 1
            BY <2>3, <3>3, <4>2, <4>4
          <5>2. CASE j # 1
            <6>1. spare2 = 1
              BY <2>12, <4>4, <5>2
            <6> HIDE DEF spare, own, slack, first, spare2, plain, cost1, bits, z, next, y
            <6> QED BY <1>8, <1>13, <2>3, <2>4, <2>8, <4>1, <5>1, <6>1
          <5>3. CASE j = 1
            <6>1. z \in Node /\ z.option = 1 /\ z.from \in DOMAIN layer
              BY <1>9, <1>12
            <6>2. from(z) # run.mode
              <7>1. /\ layer[z.from].option \in 1 .. Len(Options(before.mode))
                    /\ from(z) = Options(before.mode)[layer[z.from].option]
                BY <1>11, <6>1
              <7>2. from(z) = Numeric => before.mode = Numeric
                BY <1>1, <7>1, OptionsOfOthers
              <7> QED BY <3>3, <4>4, <7>2
            <6>3. z.from = 1 /\ z.cost = cost1 + bits
              BY <1>13, <6>2
            <6>4. Earlier(y, z)
              <7>1. PICK l \in 1 .. n : next[l] = z
                BY <1>6, <1>12
              <7>2. l # 1
                <8>1. y.option # z.option
                  BY <2>2, <4>4, <6>1
                <8> QED BY <2>2, <5>3, <7>1, <8>1
              <7>3. 1 < l
                BY <7>2
              <7> HIDE DEF next, z, y
              <7> QED BY <1>6, <2>2, <5>3, <7>1, <7>3
            <6>5. y.cost < z.cost
              <7>1. y.from # 0 /\ y.from \in Nat
                BY <1>2, <2>2
              <7> HIDE DEF y, z
              <7> QED BY <1>13, <2>2, <2>3, <4>4, <6>1, <6>3, <6>4, <7>1 DEF Earlier
            <6> HIDE DEF spare, own, slack, first, spare2, plain, cost1, bits, z, next, y
            <6> QED BY <1>8, <1>13, <2>3, <2>4, <2>8, <2>10, <4>1, <5>1, <6>3, <6>5
          <5> QED BY <5>2, <5>3
        <4> QED BY <4>3, <4>4
      <3> QED BY <3>1, <3>2, <3>3
    <2> HIDE DEF y, next, f
    <2> QED BY <2>2, <2>13
  <1> HIDE DEF next, plain, bits, n, f, run
  <1>16. \A j \in DOMAIN next :
             Slack(next[j], v) + next[1].cost <= PlainBits(runs, k, v) + Spare(next, j, run)
    BY <1>6, <1>8, <1>15
  <1> QED BY <1>3, <1>6, <1>7, <1>16 DEF LayerOK, next, run

\* The merged segments of the path the encoder chooses take no more bits than
\* the runs they stand for.
LEMMA CheapestPathBits ==
    ASSUME NEW runs \in Seq(Segment) \ {<<>>}, NEW v \in Version, Apart(runs)
    PROVE  TotalBits(Merge(CheapestPath(runs, v)), v) <= TotalBits(runs, v)
  <1> DEFINE n == Len(runs)
  <1>1. PICK L : /\ \A k \in 1 .. Len(runs) : L[k] \in Layer
                 /\ L[1] = InOrder(FirstLayer(runs[1], v))
                 /\ \A k \in 2 .. Len(runs) : L[k] = NextLayer(L[k - 1], runs[k], v)
                 /\ LastLayer(runs, v) = L[Len(runs)]
    BY LayersOf
  <1>2. n \in Nat /\ n # 0
    BY EmptySeq, LenProperties
  <1> DEFINE Good == {k \in 0 .. n : k = 0 \/ LayerOK(L[k], runs, k, v)}
  <1>3. 0 \in Good
    BY <1>2
  <1>4. ASSUME NEW k \in 1 .. n, k - 1 \in Good PROVE k \in Good
    <2>1. CASE k = 1
      <3>1. LayerOK(L[1], runs, 1, v)
        BY <1>1, FirstLayerOK
      <3> QED BY <2>1, <3>1, <1>2
    <2>2. CASE k # 1
      <3>1. k \in 2 .. n /\ k - 1 # 0
        BY <2>2, <1>2
      <3>2. LayerOK(L[k - 1], runs, k - 1, v) /\ L[k] = NextLayer(L[k - 1], runs[k], v)
        BY <1>1, <1>4, <3>1
      <3>3. LayerOK(NextLayer(L[k - 1], runs[k], v), runs, k, v)
        BY <3>1, <3>2, NextLayerOK
      <3>4. LayerOK(L[k], runs, k, v)
        BY <3>2, <3>3
      <3> QED BY <3>4, <1>2
    <2> QED BY <2>1, <2>2
  <1>5. \A k \in 0 .. n : k \in Good
    <2> HIDE DEF Good
    <2> QED BY <1>2, <1>3, <1>4, UpTo
  <1>6. LayerOK(L[n], runs, n, v)
    <2>1. n \in 0 .. n
      BY <1>2
    <2> QED BY <1>2, <1>5, <2>1
  <1> DEFINE first == L[n][1]
             bits == TotalBits(Merge(first.path), v)
             cost == first.cost
  <1>7. 1 \in DOMAIN L[n] /\ first \in Node
    BY <1>6 DEF LayerOK, Layer
  <1>8. Slack(first, v) + cost <= PlainBits(runs, n, v) + Spare(L[n], 1, runs[n])
    BY <1>6, <1>7 DEF LayerOK
  <1>9. Slack(first, v) = bits - cost /\ Spare(L[n], 1, runs[n]) = 0
    BY DEF Slack, Spare
  <1>10. PlainBits(runs, n, v) = TotalBits(runs, v)
    <2>1. SubSeq(runs, 1, n) = runs
      BY PrefixEnds
    <2> QED BY <2>1 DEF PlainBits
  <1>11. cost \in Int /\ first.path \in Seq(Segment)
    BY <1>7 DEF Node
  <1>12. bits \in Nat /\ TotalBits(runs, v) \in Nat
    <2>1. [mode |-> Byte, length |-> 0] \in Segment
      BY DEF Segment, Mode
    <2>2. Merge(first.path) \in Seq(Segment)
      BY <1>11, <2>1, MergeAppend
    <2>3. runs \in Seq(Segment)
      OBVIOUS
    <2> HIDE DEF first
    <2> QED BY <2>1, <2>2, <2>3, TotalBitsLaws
  <1>13. CheapestPath(runs, v) = first.path
    BY <1>1 DEF CheapestPath
  <1>14. bits <= TotalBits(runs, v)
    <2> HIDE DEF bits, cost, first
    <2> QED BY <1>8, <1>9, <1>10, <1>11, <1>12
  <1> QED BY <1>13, <1>14

\* For every set of addresses, the segments the encoder chooses take no
\* more bits than the plain split of the address, in the version that weighed
\* them, and the symbol is no larger.
THEOREM NoLargerThanPlainAlways == QrSpec => []NoLargerThanPlain
  <1>1. SymbolIsDrawn => NoLargerThanPlain
    <2> DEFINE text == symbol.text
               plain == RawSplit(text)
               v == Estimate(text)
               segments == symbol.segments
    <2> SUFFICES ASSUME SymbolIsDrawn, symbol # NoSymbol
                 PROVE  /\ TotalBits(segments, v) <= TotalBits(plain, v)
                        /\ Size(symbol.version) <= Size(BestVersion(plain))
      BY DEF NoLargerThanPlain
    <2>1. PICK address \in Address : symbol = Drawn(address)
      BY DEF SymbolIsDrawn
    <2>2. address \in Seq(Mode) \ {<<>>}
      BY AddressAssumption
    <2>3. /\ text = address /\ segments = FromString(address, Estimate(address))
          /\ symbol.version = BestVersion(segments)
      BY <2>1 DEF Drawn
    <2>4. v \in Version
      BY <2>2, <2>3, EstimateTyped
    <2>5. plain \in Seq(Segment) \ {<<>>} /\ Apart(plain)
      BY <2>2, <2>3, RawSplitIs
    <2>6. segments = Merge(CheapestPath(plain, v))
      BY <2>3 DEF FromString
    <2>7. segments \in Seq(Segment)
      BY <2>2, <2>3, <2>4, FromStringSpells
    <2>8. v = IF BestVersion(plain) = TooBig THEN 40 ELSE BestVersion(plain)
      BY DEF Estimate
    <2> HIDE DEF text, plain, v, segments
    <2>9. TotalBits(segments, v) <= TotalBits(plain, v)
      BY <2>4, <2>5, <2>6, CheapestPathBits
    <2>10. /\ BestVersion(plain) \in Version \cup {TooBig}
           /\ BestVersion(plain) # TooBig =>
                  TotalBits(plain, BestVersion(plain)) <= DataBits(BestVersion(plain))
      BY <2>5, BestVersionIs
    <2>11. /\ symbol.version \in Version \cup {TooBig}
           /\ TotalBits(segments, v) <= DataBits(v) =>
                  symbol.version # TooBig /\ symbol.version <= v
      BY <2>3, <2>4, <2>7, BestVersionIs
    <2>12. Size(symbol.version) <= Size(BestVersion(plain))
      <3>1. CASE BestVersion(plain) = TooBig
        <4>1. Size(symbol.version) <= 41
          BY <2>11 DEF Size, Version
        <4> QED BY <3>1, <4>1 DEF Size
      <3>2. CASE BestVersion(plain) # TooBig
        <4>1. v = BestVersion(plain) /\ TotalBits(plain, v) <= DataBits(v)
          BY <2>8, <2>10, <3>2
        <4>2. TotalBits(segments, v) \in Nat /\ TotalBits(plain, v) \in Nat /\ DataBits(v) \in Int
          <5>1. [mode |-> Byte, length |-> 0] \in Segment /\ plain \in Seq(Segment)
            BY <2>5 DEF Segment, Mode
          <5> QED BY <2>4, <2>7, <5>1, TotalBitsLaws, DataBitsTyped
        <4>3. TotalBits(segments, v) <= DataBits(v)
          BY <2>9, <4>1, <4>2
        <4>4. symbol.version # TooBig /\ symbol.version <= v
          BY <2>11, <4>3
        <4> QED BY <3>2, <4>1, <4>4 DEF Size
      <3> QED BY <3>1, <3>2
    <2> QED BY <2>9, <2>12
  <1> QED BY <1>1, SymbolIsDrawnAlways, PTL
=============================================================================
