---------------------------- MODULE DomainRules ----------------------------
(***************************************************************************)
(* The operation and request life cycles of domain/state_machine.py: which *)
(* status may follow which, and the request status that the statuses of    *)
(* its operations add up to.  A transition that is not in these tables     *)
(* raises InvalidStateTransition in the program; the modules that use the  *)
(* tables model what the caller does with that exception.                  *)
(***************************************************************************)

OperationStatus ==
  {"NEW", "NEEDS_INFORMATION", "READY_FOR_VALIDATION", "ESCALATED",
   "EXECUTING", "COMPLETED", "FAILED", "CANCELLED"}

RequestStatus ==
  {"NEW", "ANALYZING", "ACTIVE", "PARTIALLY_COMPLETED", "NEEDS_INFORMATION",
   "READY_FOR_VALIDATION", "ESCALATED", "COMPLETED", "FAILED", "CANCELLED",
   "EXPIRED"}

\* OPERATION_TRANSITIONS: the statuses an operation may move to.
OperationTransitions(current) ==
  CASE current = "NEW" ->
         {"NEEDS_INFORMATION", "READY_FOR_VALIDATION", "ESCALATED", "CANCELLED"}
    [] current = "NEEDS_INFORMATION" ->
         {"READY_FOR_VALIDATION", "ESCALATED", "CANCELLED"}
    [] current = "READY_FOR_VALIDATION" ->
         {"EXECUTING", "NEEDS_INFORMATION", "ESCALATED", "CANCELLED"}
    [] current = "EXECUTING" -> {"COMPLETED", "FAILED", "ESCALATED"}
    [] current = "ESCALATED" -> {"CANCELLED"}
    [] OTHER -> {}

\* REQUEST_TRANSITIONS: the statuses a request may move to.
RequestTransitions(current) ==
  CASE current = "NEW" -> {"ANALYZING", "CANCELLED"}
    [] current = "ANALYZING" ->
         {"ACTIVE", "READY_FOR_VALIDATION", "NEEDS_INFORMATION",
          "PARTIALLY_COMPLETED", "ESCALATED", "COMPLETED", "FAILED"}
    [] current = "ACTIVE" ->
         {"READY_FOR_VALIDATION", "NEEDS_INFORMATION", "PARTIALLY_COMPLETED",
          "ESCALATED", "COMPLETED", "FAILED", "CANCELLED", "EXPIRED"}
    [] current = "READY_FOR_VALIDATION" ->
         {"ACTIVE", "NEEDS_INFORMATION", "PARTIALLY_COMPLETED", "ESCALATED",
          "COMPLETED", "FAILED"}
    [] current = "NEEDS_INFORMATION" ->
         {"READY_FOR_VALIDATION", "PARTIALLY_COMPLETED", "ESCALATED",
          "COMPLETED", "CANCELLED", "EXPIRED"}
    [] current = "PARTIALLY_COMPLETED" ->
         {"READY_FOR_VALIDATION", "NEEDS_INFORMATION", "ESCALATED",
          "COMPLETED", "FAILED"}
    [] current = "ESCALATED" -> {"CANCELLED", "COMPLETED"}
    [] OTHER -> {}

\* assert_operation_transition does not raise.
OperationMayBecome(current, target) ==
  target = current \/ target \in OperationTransitions(current)

\* assert_request_transition does not raise.
RequestMayBecome(current, target) ==
  target = current \/ target \in RequestTransitions(current)

\* derive_request_status, of the set of statuses the operations have: every
\* test of the function is an "all" or an "any", so multiplicity is immaterial.
DeriveRequestStatus(statuses) ==
  CASE statuses = {} -> "ACTIVE"
    [] statuses = {"COMPLETED"} -> "COMPLETED"
    [] "NEEDS_INFORMATION" \in statuses ->
         IF "COMPLETED" \in statuses THEN "PARTIALLY_COMPLETED"
                                     ELSE "NEEDS_INFORMATION"
    [] "NEEDS_INFORMATION" \notin statuses /\ "EXECUTING" \in statuses -> "ACTIVE"
    [] {"NEEDS_INFORMATION", "EXECUTING"} \cap statuses = {}
         /\ "READY_FOR_VALIDATION" \in statuses -> "READY_FOR_VALIDATION"
    [] {"NEEDS_INFORMATION", "EXECUTING", "READY_FOR_VALIDATION"} \cap statuses = {}
         /\ "ESCALATED" \in statuses ->
         IF "COMPLETED" \in statuses THEN "PARTIALLY_COMPLETED" ELSE "ESCALATED"
    [] {"NEEDS_INFORMATION", "EXECUTING", "READY_FOR_VALIDATION", "ESCALATED"}
         \cap statuses = {} /\ "FAILED" \in statuses -> "FAILED"
    [] OTHER -> "ACTIVE"
============================================================================
