-------------------------- MODULE SignAndSendProofs --------------------------
(***************************************************************************)
(* Proofs about SignAndSend, for any number of calls and of attempts.      *)
(***************************************************************************)
EXTENDS SignAndSend, TLAPS

(* What is in the pool belongs to a call that is still at it, or has failed;  *)
(* a call has been told only of what is in a block and no more in the pool.   *)
IInv ==
    /\ TypeOK
    /\ \A c \in Calls :
        /\ stage[c] = "idle" => attempt[c] = 0 /\ notice[c] = "none"
        /\ stage[c] = "sending" => attempt[c] < MaxRetries
        /\ stage[c] \in {"ok", "hung"} \/ notice[c] # "none" => c \in included
        /\ stage[c] \in {"idle", "ok", "hung"} \/ notice[c] # "none" => pool.call # c

-----------------------------------------------------------------------------
(* The next pass of the loop is one, and the answer after the last is none. *)
LEMMA NextStageBounded ==
    ASSUME NEW c \in Calls, TypeOK
    PROVE  /\ NextStage(c) \in {"sending", "failed"}
           /\ NextStage(c) = "sending" => attempt[c] < MaxRetries
BY DEF NextStage

LEMMA InitIInv == Init => IInv
<1> SUFFICES ASSUME Init PROVE IInv
  OBVIOUS
<1>1. TypeOK
  BY SendAssumption DEF Init, TypeOK
<1>2. \A c \in Calls : pool.call # c
  BY SendAssumption DEF Init, Empty
<1> QED BY <1>1, <1>2 DEF Init, IInv

LEMMA BeginKeepsIInv ==
    ASSUME IInv, NEW c \in Calls, Begin(c)
    PROVE  IInv'
<1>1. TypeOK'
  BY DEF IInv, TypeOK, Begin
<1> QED BY <1>1, SendAssumption DEF IInv, TypeOK, Begin

LEMMA SendKeepsIInv ==
    ASSUME IInv, NEW c \in Calls, Send(c)
    PROVE  IInv'
<1>1. attempt[c] \in 0..MaxRetries /\ attempt[c] < MaxRetries /\ MaxRetries \in Nat
  BY SendAssumption DEF IInv, TypeOK, Send
<1>2. attempt[c] + 1 \in 1..MaxRetries
  BY <1>1
<1>3. attempt' \in [Calls -> 0..MaxRetries]
  BY <1>1 DEF IInv, TypeOK, Send
<1>4. pool' \in [call : Calls, tip : 1..MaxRetries] /\ pool'.call = c
  BY <1>2 DEF Send
<1>5. TypeOK'
  BY <1>3, <1>4 DEF IInv, TypeOK, Send
<1>6. stage'[c] = "watching" /\ notice'[c] = "none" /\ included' = included
  BY DEF IInv, TypeOK, Send
<1>7. \A d \in Calls \ {c} :
        stage'[d] = stage[d] /\ notice'[d] = notice[d] /\ attempt'[d] = attempt[d]
  BY DEF IInv, TypeOK, Send
<1> QED BY <1>4, <1>5, <1>6, <1>7 DEF IInv

LEMMA SendRefusedKeepsIInv ==
    ASSUME IInv, NEW c \in Calls, SendRefused(c)
    PROVE  IInv'
<1>1. attempt[c] \in 0..MaxRetries /\ attempt[c] < MaxRetries /\ MaxRetries \in Nat
  BY SendAssumption DEF IInv, TypeOK, SendRefused
<1>2. TypeOK'
  BY <1>1 DEF IInv, TypeOK, SendRefused
<1>3. /\ stage'[c] \in {"sending", "failed"}
      /\ stage'[c] = "sending" => attempt'[c] < MaxRetries
  BY <1>1 DEF IInv, TypeOK, SendRefused
<1>4. \A d \in Calls \ {c} : stage'[d] = stage[d] /\ attempt'[d] = attempt[d]
  BY DEF IInv, TypeOK, SendRefused
<1>5. pool' = pool /\ notice' = notice /\ included' = included
  BY DEF SendRefused
<1> QED BY <1>2, <1>3, <1>4, <1>5 DEF IInv

LEMMA NotifyKeepsIInv ==
    ASSUME IInv, NEW c \in Calls, Notify(c)
    PROVE  IInv'
<1>1. notice[c] # "none" /\ notice[c] \in {"none", "inBlock", "inBlockError", "finalized"}
  BY DEF IInv, TypeOK, Notify
<1>2. Verdict(notice[c]) \in {"ok", "hung"}
  BY <1>1 DEF Verdict
<1>3. TypeOK'
  BY <1>2 DEF IInv, TypeOK, Notify
<1>4. \A d \in Calls : stage'[d] = IF d = c THEN Verdict(notice[c]) ELSE stage[d]
  BY DEF IInv, TypeOK, Notify
<1>5. pool' = pool /\ notice' = notice /\ included' = included /\ attempt' = attempt
  BY DEF Notify
<1> QED BY <1>1, <1>2, <1>3, <1>4, <1>5 DEF IInv

LEMMA FinalizeKeepsIInv ==
    ASSUME IInv, NEW c \in Calls, Finalize(c)
    PROVE  IInv'
<1>1. TypeOK'
  BY DEF IInv, TypeOK, Finalize
<1>2. \A d \in Calls : notice'[d] # "none" => notice[d] # "none"
  BY DEF IInv, TypeOK, Finalize
<1>3. notice'[c] # "none" /\ stage[c] = "watching"
  BY DEF IInv, TypeOK, Finalize
<1>4. pool' = pool /\ stage' = stage /\ included' = included /\ attempt' = attempt
  BY DEF Finalize
<1> QED BY <1>1, <1>2, <1>3, <1>4 DEF IInv

LEMMA TimeoutKeepsIInv ==
    ASSUME IInv, NEW c \in Calls, Timeout(c)
    PROVE  IInv'
<1>1. /\ NextStage(c) \in {"sending", "failed"}
      /\ NextStage(c) = "sending" => attempt[c] < MaxRetries
  BY NextStageBounded DEF IInv
<1>2. TypeOK'
  BY <1>1 DEF IInv, TypeOK, Timeout
<1>3. \A d \in Calls : stage'[d] = IF d = c THEN NextStage(c) ELSE stage[d]
  BY DEF IInv, TypeOK, Timeout
<1>4. pool' = pool /\ notice' = notice /\ included' = included /\ attempt' = attempt
  BY DEF Timeout
<1> QED BY <1>1, <1>2, <1>3, <1>4 DEF IInv

LEMMA MakeBlockKeepsIInv ==
    ASSUME IInv, MakeBlock
    PROVE  IInv'
<1> DEFINE c == pool.call
<1>1. c \in Calls /\ pool' = Empty /\ included' = included \cup {c}
  BY DEF IInv, TypeOK, MakeBlock
<1>2. \A d \in Calls : pool'.call # d
  BY <1>1, SendAssumption DEF Empty
<1>3. notice' \in [Calls -> {"none", "inBlock", "inBlockError", "finalized"}]
  BY DEF IInv, TypeOK, MakeBlock
<1>4. \A d \in Calls : notice'[d] # notice[d] => d = c /\ stage[d] = "watching"
  BY <1>1 DEF IInv, TypeOK, MakeBlock, Watched
<1>5. stage' = stage /\ attempt' = attempt
  BY DEF MakeBlock
<1>6. TypeOK'
  BY <1>1, <1>3, <1>5 DEF IInv, TypeOK
<1> QED BY <1>1, <1>2, <1>4, <1>5, <1>6 DEF IInv

LEMMA StepKeepsIInv == IInv /\ [Next]_vars => IInv'
<1> SUFFICES ASSUME IInv, [Next]_vars PROVE IInv'
  OBVIOUS
<1>1. ASSUME NEW c \in Calls,
             \/ Begin(c) \/ Send(c) \/ SendRefused(c)
             \/ Finalize(c) \/ Notify(c) \/ Timeout(c)
      PROVE  IInv'
  BY <1>1, BeginKeepsIInv, SendKeepsIInv, SendRefusedKeepsIInv, FinalizeKeepsIInv,
     NotifyKeepsIInv, TimeoutKeepsIInv
<1>2. CASE MakeBlock
  BY <1>2, MakeBlockKeepsIInv
<1>3. CASE DropFromPool
  <2>1. pool' = Empty /\ UNCHANGED <<stage, attempt, notice, included>>
    BY <1>3 DEF DropFromPool
  <2>2. \A c \in Calls : pool'.call # c
    BY <2>1, SendAssumption DEF Empty
  <2> QED BY <2>1, <2>2 DEF IInv, TypeOK
<1>4. CASE UNCHANGED vars
  BY <1>4 DEF vars, IInv, TypeOK
<1> QED BY <1>1, <1>2, <1>3, <1>4 DEF Next

(* The invariant holds in every reachable state. *)
THEOREM InvariantHolds == Spec => []IInv
<1>1. IInv /\ [Next]_vars => IInv'
  BY StepKeepsIInv
<1> QED BY <1>1, InitIInv, PTL DEF Spec

(* No call starts more than MaxRetries attempts, and the rest has its type. *)
THEOREM TypeCorrect == Spec => []TypeOK
<1>1. IInv => TypeOK
  BY DEF IInv
<1> QED BY <1>1, InvariantHolds, PTL

(* Nothing of a call is left in the pool once it has answered with success. *)
THEOREM SuccessLeavesNothing == Spec => []NothingPooledAfterSuccess
<1>1. IInv => NothingPooledAfterSuccess
  BY DEF IInv, NothingPooledAfterSuccess
<1> QED BY <1>1, InvariantHolds, PTL

-----------------------------------------------------------------------------
(* What a caller sees of a call. *)
Answer(s) ==
    CASE s = "idle" -> "idle"
      [] s \in {"sending", "watching", "hung"} -> "pending"
      [] OTHER -> s

LEMMA ResultOf ==
    /\ result = [c \in Calls |-> Answer(stage[c])]
    /\ result' = [c \in Calls |-> Answer(stage'[c])]
BY DEF result, Answer

(* A step that moves one call changes the result of that call alone. *)
LEMMA ResultMoves ==
    ASSUME TypeOK, NEW c \in Calls, NEW s, stage' = [stage EXCEPT ![c] = s]
    PROVE  result' = [result EXCEPT ![c] = Answer(s)]
<1>1. \A d \in Calls : stage'[d] = IF d = c THEN s ELSE stage[d]
  BY DEF TypeOK
<1> QED BY <1>1, ResultOf

(* Every step of the retry loop, the pool and the chain is a step of the      *)
(* promise, or changes nothing of what the caller and the chain see.          *)
LEMMA StepKeepsPromise ==
    ASSUME IInv, [Next]_vars
    PROVE  [Promise!Next]_(Promise!absVars)
<1> USE DEF Promise!absVars
<1>1. ASSUME NEW c \in Calls, Begin(c)
      PROVE  Promise!Begin(c)
  <2>1. result[c] = "idle" /\ included' = included
    BY <1>1, ResultOf DEF Begin, Answer
  <2>2. result' = [result EXCEPT ![c] = "pending"]
    BY <1>1, ResultMoves DEF Begin, IInv, Answer
  <2> QED BY <2>1, <2>2 DEF Promise!Begin
<1>2. ASSUME NEW c \in Calls, stage[c] \in {"sending", "watching"},
             NEW s \in {"sending", "watching", "hung"}, stage' = [stage EXCEPT ![c] = s],
             included' = included
      PROVE  UNCHANGED <<result, included>>
  <2>1. \A d \in Calls : stage'[d] = IF d = c THEN s ELSE stage[d]
    BY <1>2 DEF IInv, TypeOK
  <2> QED BY <1>2, <2>1, ResultOf DEF Answer
<1>3. ASSUME NEW c \in Calls, stage[c] \in {"sending", "watching"},
             NEW s \in {"ok", "failed"}, stage' = [stage EXCEPT ![c] = s],
             s = "ok" => c \in included, included' = included
      PROVE  Promise!Report(c)
  <2>1. result[c] = "pending"
    BY <1>3, ResultOf DEF Answer
  <2>2. result' = [result EXCEPT ![c] = s]
    BY <1>3, ResultMoves DEF IInv, Answer
  <2> QED BY <1>3, <2>1, <2>2 DEF Promise!Report
<1>4. ASSUME NEW c \in Calls, Send(c) \/ SendRefused(c) \/ Timeout(c) \/ Notify(c)
      PROVE  UNCHANGED <<result, included>> \/ Promise!Report(c)
  <2>1. included' = included
    BY <1>4 DEF Send, SendRefused, Timeout, Notify
  <2>2. CASE Send(c)
    BY <2>1, <2>2, <1>2 DEF Send
  <2>3. CASE SendRefused(c)
    BY <2>1, <2>3, <1>2, <1>3 DEF SendRefused
  <2>4. CASE Timeout(c)
    BY <2>1, <2>4, <1>2, <1>3 DEF Timeout, NextStage
  <2>5. CASE Notify(c)
    <3>1. c \in included /\ notice[c] \in {"inBlock", "inBlockError", "finalized"}
      BY <2>5 DEF Notify, IInv, TypeOK
    <3>2. CASE notice[c] = "finalized"
      <4>1. stage' = [stage EXCEPT ![c] = "hung"]
        BY <2>5, <3>2 DEF Notify, Verdict
      <4> QED BY <2>1, <2>5, <4>1, <1>2 DEF Notify
    <3>3. CASE notice[c] \in {"inBlock", "inBlockError"}
      <4>1. stage' = [stage EXCEPT ![c] = "ok"]
        BY <2>5, <3>3 DEF Notify, Verdict
      <4> QED BY <2>1, <2>5, <3>1, <4>1, <1>3 DEF Notify
    <3> QED BY <3>1, <3>2, <3>3
  <2> QED BY <1>4, <2>2, <2>3, <2>4, <2>5
<1>5. CASE MakeBlock
  <2> DEFINE c == pool.call
  <2>1. c \in Calls /\ included' = included \cup {c} /\ stage' = stage
    BY <1>5 DEF MakeBlock, IInv, TypeOK
  <2>2. stage[c] \in {"sending", "watching", "failed"}
    BY <2>1 DEF IInv, TypeOK
  <2>3. result[c] \in {"pending", "failed"} /\ result' = result
    BY <2>1, <2>2, ResultOf DEF Answer
  <2>4. Promise!Include(c)
    BY <2>1, <2>3 DEF Promise!Include
  <2> QED BY <2>1, <2>4 DEF Promise!Next
<1>6. CASE DropFromPool \/ UNCHANGED vars
  BY <1>6, ResultOf DEF DropFromPool, vars
<1>7. ASSUME NEW c \in Calls, Finalize(c)
      PROVE  UNCHANGED <<result, included>>
  BY <1>7, ResultOf DEF Finalize
<1> QED BY <1>1, <1>4, <1>5, <1>6, <1>7 DEF Next, Promise!Next

(* Retries, tips, replacement in the pool and timeouts implement the promise: *)
(* success is told only of what is in a block, and nothing of the call gets   *)
(* into a block after it.                                                     *)
THEOREM RetriesKeepPromise == Spec => KeepsPromise
<1>1. Init => Promise!Init
  BY ResultOf DEF Init, Promise!Init, Answer
<1>2. IInv /\ [Next]_vars => [Promise!Next]_(Promise!absVars)
  BY StepKeepsPromise
<1> QED BY <1>1, <1>2, InvariantHolds, PTL DEF Spec, KeepsPromise, Promise!Spec
=============================================================================
