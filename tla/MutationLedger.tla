--------------------------- MODULE MutationLedger ---------------------------
(***************************************************************************)
(* What the executions table promises of the business API: the abstract    *)
(* specification that workflow/execution_service.py implements.  A         *)
(* mutation has a key; it is recorded before it is sent, sent at most      *)
(* once, and its record is closed once, as "succeeded" only if the         *)
(* mutation took effect.  Nothing is said of who sends it or when.         *)
(***************************************************************************)
EXTENDS Naturals

CONSTANT Keys       \* idempotency keys

VARIABLES
  record,   \* the execution record of a key, or "none"
  calls,    \* how often the key was sent
  applied   \* keys whose mutation took effect

vars == <<record, calls, applied>>

Init ==
  /\ record = [k \in Keys |-> "none"]
  /\ calls = [k \in Keys |-> 0]
  /\ applied = {}

\* The intent is committed.
Open(k) ==
  /\ record[k] = "none"
  /\ record' = [record EXCEPT ![k] = "pending"]
  /\ UNCHANGED <<calls, applied>>

\* A payload that may not be sent is recorded as failed at once.
Refuse(k) ==
  /\ record[k] = "none"
  /\ record' = [record EXCEPT ![k] = "failed"]
  /\ UNCHANGED <<calls, applied>>

\* The mutation is sent; it may take effect whether or not an answer comes.
Send(k) ==
  /\ record[k] = "pending" /\ calls[k] = 0
  /\ calls' = [calls EXCEPT ![k] = 1]
  /\ applied' \in {applied, applied \cup {k}}
  /\ UNCHANGED record

\* The outcome is stored.
Close(k, outcome) ==
  /\ record[k] = "pending" /\ calls[k] = 1
  /\ outcome = "succeeded" => k \in applied
  /\ record' = [record EXCEPT ![k] = outcome]
  /\ UNCHANGED <<calls, applied>>

Next ==
  \E k \in Keys :
    \/ Open(k) \/ Refuse(k) \/ Send(k)
    \/ \E outcome \in {"succeeded", "failed", "unknown"} : Close(k, outcome)

Spec == Init /\ [][Next]_vars
=============================================================================
