--------------------------- MODULE BusinessClient ---------------------------
(***************************************************************************)
(* The adapters of the business API for one idempotency key:               *)
(* HttpBusinessAPI with its bounded retries, and MockBusinessAPI, which    *)
(* takes its place in a dry run; and how ExecutionService.execute records  *)
(* what they answer.                                                       *)
(*                                                                         *)
(* The service behind the endpoint and the network are the environment: a  *)
(* request may arrive after the client gave it up, or never, and an answer *)
(* may be lost although the operation took effect.                         *)
(***************************************************************************)
EXTENDS Naturals, FiniteSets

CONSTANTS
  MaxRetries,        \* bound on business_api_max_retries
  MaxAsks            \* bound on how often the key is used

\* What a deployment says of itself, and what its service really does with a key.
Deployment ==
  {d \in [dry : BOOLEAN, guaranteed : BOOLEAN, honours : BOOLEAN, retries : 0..MaxRetries] :
     d.guaranteed => d.honours}

\* The commands, as far as the schemas tell them apart.
Command ==
  [action : {"vpn_access", "otp_number_change", "account_unblock", "password_reset"},
   pdv : {"eight_digits", "other_pattern"}, phone : {"usable", "control_character"},
   extra : {"none", "own_field", "reserved_field"}]

VARIABLES
  deployment, command,
  asks,              \* how often the key was used
  stage,             \* "idle" "begun" "waiting" "answered" "concluded" "crashed"
  attempt,           \* the attempt of this call
  flying,            \* requests that have not arrived, by their number
  posted,            \* requests that were sent
  reply,             \* what came back to the attempt
  served,            \* how often the service carried the operation out
  mocked,            \* the commands that the mock has recorded
  verdict            \* the status of the execution record

clientVars == <<deployment, command, asks, stage, attempt, flying, posted, reply,
                served, mocked, verdict>>

ClientInit ==
  /\ deployment \in Deployment /\ command \in Command
  /\ asks = 0 /\ stage = "idle" /\ attempt = 0 /\ flying = {} /\ posted = 0
  /\ reply = "none" /\ served = 0 /\ mocked = {} /\ verdict = "none"
-----------------------------------------------------------------------------
\* The command schemas.  The PDV and phone patterns of the decision engine are
\* configured; the adapter has its own.
Valid(c) ==
  /\ c.pdv = "eight_digits"
  /\ c.action \in {"vpn_access", "otp_number_change"} => c.phone = "usable"
  /\ c.action = "vpn_access" => c.extra # "reserved_field"

\* Slip of AllowedAttempts: a retry needs no guarantee.
AlwaysRetries == deployment.retries + 1

AllowedAttempts == IF deployment.guaranteed THEN deployment.retries + 1 ELSE 1

\* What execute records: an answer the adapter has no doubt about is a failure,
\* anything else that is raised leaves the outcome unknown.
Recorded(result) ==
  CASE result = "success" -> "succeeded"
    [] result \in {"transport", "invalid_command"} -> "unknown"
    [] OTHER -> "failed"

End(result) == stage' = "concluded" /\ verdict' = Recorded(result)

\* build_runtime chooses the adapter; the command is validated before it is sent.
Call ==
  /\ stage = "begun"
  /\ IF Valid(command) THEN stage' = "sending" /\ verdict' = verdict
     ELSE End("invalid_command")
  /\ UNCHANGED <<deployment, command, asks, attempt, flying, posted, reply, served, mocked>>

\* MockBusinessAPI._record: one result for a key; another command is a conflict.
Mock ==
  /\ stage = "sending" /\ deployment.dry
  /\ IF mocked = {} THEN mocked' = {command} ELSE mocked' = mocked
  /\ End(IF mocked' = {command} THEN "success" ELSE "conflict")
  /\ UNCHANGED <<deployment, command, asks, attempt, flying, posted, reply, served>>

\* One attempt of HttpBusinessAPI._post.
Post ==
  /\ stage = "sending" /\ ~deployment.dry
  /\ attempt' = attempt + 1 /\ posted' = posted + 1 /\ flying' = flying \cup {posted'}
  /\ stage' = "waiting" /\ reply' = "none"
  /\ UNCHANGED <<deployment, command, asks, served, mocked, verdict>>

\* The service takes a request up, perhaps long after.  One that honours the key
\* carries it out once; a gateway may hide that behind an error.
Arrive ==
  \E r \in flying, carriedOut \in BOOLEAN,
     answer \in {"success", "declined", "retryable", "unusable"} :
    /\ carriedOut => ~(deployment.honours /\ served > 0)
    /\ answer = "success" => carriedOut \/ (deployment.honours /\ served > 0)
    /\ answer = "declined" => ~carriedOut
    /\ served' = served + (IF carriedOut THEN 1 ELSE 0)
    /\ flying' = flying \ {r}
    /\ IF stage = "waiting" /\ r = posted
         THEN stage' = "answered" /\ reply' = answer
         ELSE UNCHANGED <<stage, reply>>
    /\ UNCHANGED <<deployment, command, asks, attempt, posted, mocked, verdict>>

\* A timeout or a broken connection: the request may still arrive.
TransportFails ==
  /\ stage = "waiting" /\ stage' = "answered" /\ reply' = "transport"
  /\ UNCHANGED <<deployment, command, asks, attempt, flying, posted, served, mocked,
                 verdict>>

\* _post after an attempt: transport failures and the retryable statuses are tried
\* again, anything else is final.
HandleReply ==
  /\ stage = "answered"
  /\ IF reply \in {"transport", "retryable"} /\ attempt < AllowedAttempts
       THEN stage' = "sending" /\ verdict' = verdict
       ELSE End(reply)
  /\ UNCHANGED <<deployment, command, asks, attempt, flying, posted, reply, served, mocked>>

\* execute begins: its record is pending.  The same key is used again only where
\* that is safe; the mock also meets it with another command.
Use ==
  /\ asks < MaxAsks /\ asks' = asks + 1
  /\ \/ stage = "idle" /\ command' = command
     \/ /\ stage = "concluded"
        /\ deployment.dry \/ deployment.guaranteed
        /\ command' \in {command} \cup
                        (IF deployment.dry THEN {[command EXCEPT !.extra = "own_field"]} ELSE {})
  /\ stage' = "begun" /\ attempt' = 0 /\ verdict' = "none"
  /\ UNCHANGED <<deployment, flying, posted, reply, served, mocked>>

\* The process dies: the record stays pending.
ClientCrashes ==
  /\ stage \in {"begun", "sending", "waiting", "answered"}
  /\ stage' = "crashed"
  /\ UNCHANGED <<deployment, command, asks, attempt, flying, posted, reply, served, mocked,
                 verdict>>

ClientNext ==
  \/ Use \/ Call \/ Mock \/ Post \/ Arrive \/ TransportFails \/ HandleReply
  \/ ClientCrashes

ClientSpec == ClientInit /\ [][ClientNext]_clientVars
-----------------------------------------------------------------------------
\* The adapters keep the promise of BusinessCall: a call takes effect (or is
\* recorded by the mock) at most once for its key, whatever is lost, late, retried
\* or repeated, and an execution is recorded as succeeded only when it has.
Promise == INSTANCE BusinessCall WITH
  asked <- asks > 0, effects <- served + Cardinality(mocked), verdict <- verdict

CallKeepsItsPromise == Promise!PromiseSpec
=============================================================================
