---------------------------- MODULE BusinessCall ----------------------------
(***************************************************************************)
(* What the business API adapters promise for one idempotency key: however *)
(* often it is asked, lost, answered late or retried, the operation takes   *)
(* effect at most once, and it is called a success only when it has.       *)
(***************************************************************************)
EXTENDS Naturals

VARIABLES
  asked,      \* the operation was asked for
  effects,    \* how often it took effect
  verdict     \* how the call was recorded: "none" while it runs

promiseVars == <<asked, effects, verdict>>

PromiseInit == asked = FALSE /\ effects = 0 /\ verdict = "none"

Ask == asked' = TRUE /\ verdict' = "none" /\ UNCHANGED effects

\* At any time after it was asked for, also when nobody waits any more.
TakeEffect == asked /\ effects = 0 /\ effects' = 1 /\ UNCHANGED <<asked, verdict>>

Conclude ==
  /\ asked /\ verdict = "none" /\ verdict' \in {"succeeded", "failed", "unknown"}
  /\ effects' \in {effects, 1}
  /\ verdict' = "succeeded" => effects' = 1
  /\ UNCHANGED asked

PromiseSpec == PromiseInit /\ [][Ask \/ TakeEffect \/ Conclude]_promiseVars
=============================================================================
