----------------------------- MODULE SignAndSend -----------------------------
(***************************************************************************)
(* signAndSendExtrinsic and sendWithTimeout                                *)
(* (sdk/src/chains/intentsCoprocessor.ts): an extrinsic is signed with the *)
(* account's nonce on chain and a tip that doubles at every attempt, sent, *)
(* and watched until it is in a block or 30 seconds have passed.           *)
(*                                                                         *)
(* The chain queues and the retraction queue of the filler call this for   *)
(* one account at the same time. They all sign with the same nonce until a *)
(* block is made, so at most one of their extrinsics is in the transaction *)
(* pool: a later one replaces it or is refused for its priority.           *)
(***************************************************************************)
EXTENDS Naturals

CONSTANTS
    Calls,       \* the concurrent calls of one account
    MaxRetries   \* attempts of a call

ASSUME SendAssumption ==
    /\ MaxRetries \in Nat \ {0}
    /\ "none" \notin Calls

VARIABLES
    stage,      \* "idle", "sending", "watching", "ok", "failed", or "hung":
                \* resolved without an answer, its timer cleared
    attempt,    \* attempts started by each call
    pool,       \* the extrinsic in the pool under the account's nonce, or Empty
    notice,     \* what the chain has said of the watched extrinsic: "none",
                \* "inBlock", "inBlockError" (included, but its dispatch failed),
                \* "finalized" (the first status there is tells of finality)
    included    \* calls whose extrinsic has been in a block

vars == <<stage, attempt, pool, notice, included>>

Empty == [call |-> "none", tip |-> 0]

Init ==
    /\ stage = [c \in Calls |-> "idle"]
    /\ attempt = [c \in Calls |-> 0]
    /\ pool = Empty
    /\ notice = [c \in Calls |-> "none"]
    /\ included = {}

(* signAndSendExtrinsic is entered. *)
Begin(c) ==
    /\ stage[c] = "idle"
    /\ stage' = [stage EXCEPT ![c] = "sending"]
    /\ UNCHANGED <<attempt, pool, notice, included>>

(* Faults: one attempt too many; running out of attempts counts as success. *)
OneMoreStage(c) == IF attempt[c] <= MaxRetries THEN "sending" ELSE "failed"
ExhaustedIsOk(c) == IF attempt[c] < MaxRetries THEN "sending" ELSE "ok"

(* The next pass of the retry loop, or the answer after the last attempt. *)
NextStage(c) == IF attempt[c] < MaxRetries THEN "sending" ELSE "failed"

(* The node takes the extrinsic: the pool was empty, or the tip is higher, or *)
(* the two extrinsics are different ones whose weights decide the priority.   *)
Accepted(c, tip) ==
    \/ pool = Empty
    \/ tip > pool.tip
    \/ pool.call # c

(* Fault: what was seen of an earlier attempt is kept for the next. *)
SendKeepsNotice(c) ==
    /\ stage[c] = "sending"
    /\ Accepted(c, attempt[c] + 1)
    /\ attempt' = [attempt EXCEPT ![c] = @ + 1]
    /\ pool' = [call |-> c, tip |-> attempt[c] + 1]
    /\ stage' = [stage EXCEPT ![c] = "watching"]
    /\ UNCHANGED <<notice, included>>

(* An attempt whose extrinsic enters the pool and is watched from now on. *)
Send(c) ==
    /\ stage[c] = "sending"
    /\ Accepted(c, attempt[c] + 1)
    /\ attempt' = [attempt EXCEPT ![c] = @ + 1]
    /\ pool' = [call |-> c, tip |-> attempt[c] + 1]
    /\ notice' = [notice EXCEPT ![c] = "none"]
    /\ stage' = [stage EXCEPT ![c] = "watching"]
    /\ UNCHANGED included

(* signAndSend rejects (priority too low, stale nonce, no connection): the   *)
(* attempt fails at once.                                                    *)
SendRefused(c) ==
    /\ stage[c] = "sending"
    /\ attempt' = [attempt EXCEPT ![c] = @ + 1]
    /\ stage' = [stage EXCEPT ![c] = IF attempt[c] + 1 < MaxRetries
                                     THEN "sending" ELSE "failed"]
    /\ UNCHANGED <<pool, notice, included>>

(* The caller is told what was watched only if that very attempt is watched. *)
Watched(c, tip) == stage[c] = "watching" /\ attempt[c] = tip

(* A block includes the pooled extrinsic; its dispatch may fail. *)
MakeBlock ==
    /\ pool # Empty
    /\ LET c == pool.call IN
        /\ included' = included \cup {c}
        /\ \E dispatchOk \in BOOLEAN :
            notice' = IF Watched(c, pool.tip)
                         THEN [notice EXCEPT ![c] = IF dispatchOk THEN "inBlock"
                                                    ELSE "inBlockError"]
                         ELSE notice
    /\ pool' = Empty
    /\ UNCHANGED <<stage, attempt>>

(* The block is final before the call has been told that there is one: the    *)
(* status that reaches the callback first is Finalized.                       *)
Finalize(c) ==
    /\ stage[c] = "watching"
    /\ notice[c] \in {"inBlock", "inBlockError"}
    /\ notice' = [notice EXCEPT ![c] = "finalized"]
    /\ UNCHANGED <<stage, attempt, pool, included>>

(* The node drops the extrinsic; no branch of the callback handles it. *)
DropFromPool ==
    /\ pool # Empty
    /\ pool' = Empty
    /\ UNCHANGED <<stage, attempt, notice, included>>

(* The callback: being in a block is success whatever the dispatch did. The   *)
(* dispatch error of a result only exists once it is in a block, so the else  *)
(* branch that would report it is never taken. A first status of Finalized    *)
(* passes the same test, but has no asInBlock: the callback throws when it    *)
(* has already set resolved and cleared the timer.                            *)
Verdict(seen) ==
    CASE seen = "none" -> "watching"
      [] seen \in {"inBlock", "inBlockError"} -> "ok"
      [] seen = "finalized" -> "hung"

Notify(c) ==
    /\ stage[c] = "watching" /\ notice[c] # "none"
    /\ stage' = [stage EXCEPT ![c] = Verdict(notice[c])]
    /\ UNCHANGED <<attempt, pool, notice, included>>

(* Fault: the last attempt has no timer. *)
TimeoutButLast(c) ==
    /\ stage[c] = "watching" /\ attempt[c] < MaxRetries
    /\ stage' = [stage EXCEPT ![c] = NextStage(c)]
    /\ UNCHANGED <<attempt, pool, notice, included>>

(* The timeout fires first: the attempt has failed, its extrinsic stays where *)
(* it is.                                                                     *)
Timeout(c) ==
    /\ stage[c] = "watching"
    /\ stage' = [stage EXCEPT ![c] = NextStage(c)]
    /\ UNCHANGED <<attempt, pool, notice, included>>

Next ==
    \/ \E c \in Calls :
        \/ Begin(c)
        \/ Send(c)
        \/ SendRefused(c)
        \/ Finalize(c)
        \/ Notify(c)
        \/ Timeout(c)
    \/ MakeBlock
    \/ DropFromPool

(* The event loop runs every started call: it sends, and its timer fires. *)
Fairness ==
    \A c \in Calls :
        /\ WF_vars(Send(c) \/ SendRefused(c))
        /\ WF_vars(Timeout(c))

Spec == Init /\ [][Next]_vars /\ Fairness

-----------------------------------------------------------------------------
TypeOK ==
    /\ stage \in [Calls -> {"idle", "sending", "watching", "ok", "failed", "hung"}]
    /\ attempt \in [Calls -> 0..MaxRetries]
    /\ pool \in [call : Calls, tip : 1..MaxRetries] \cup {Empty}
    /\ notice \in [Calls -> {"none", "inBlock", "inBlockError", "finalized"}]
    /\ included \subseteq Calls

(* The retries of a call never leave two extrinsics that can both still be    *)
(* included after it has answered: once success is reported nothing of the    *)
(* call is in the pool (a late duplicate would place a second deposit).       *)
NothingPooledAfterSuccess ==
    \A c \in Calls : stage[c] = "ok" => pool.call # c

(* Retries, tips and replacement keep the promise of ExtrinsicSubmission. *)
result == [c \in Calls |->
            CASE stage[c] = "idle" -> "idle"
              [] stage[c] \in {"sending", "watching", "hung"} -> "pending"
              [] OTHER -> stage[c]]

Promise == INSTANCE ExtrinsicSubmission WITH
    Calls <- Calls, result <- result, included <- included

KeepsPromise == Promise!Spec

(* intentsCoprocessor.ts:231 "Sends an extrinsic with a timeout": a call of    *)
(* which the first status was never Finalized answers, whatever becomes of    *)
(* its extrinsics and of the other calls, one that never answers included.    *)
AnswersUnlessOvertaken ==
    \A c \in Calls :
        [](notice[c] # "finalized")
            => (stage[c] = "sending" ~> stage[c] \in {"ok", "failed"})
=============================================================================
