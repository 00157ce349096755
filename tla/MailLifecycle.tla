---------------------------- MODULE MailLifecycle ----------------------------
(***************************************************************************)
(* What the email table promises of the mailbox: the abstract              *)
(* specification that InboundProcessor implements under the legacy engine. *)
(* The row of a mail is opened once and closed; what it closed as stays,   *)
(* unless it failed and a person asks for it again.  Only an open row may  *)
(* get a request, one for the mail and one for each retry, and only the    *)
(* newest request of an open row is released.  Nothing is said of who      *)
(* handles a mail, of the stages, of duplicates or of what an exception    *)
(* or a crash interrupts.                                                  *)
(***************************************************************************)
EXTENDS Naturals

CONSTANT Copies     \* messages of the mailbox

VARIABLES
  inbox,     \* "coming", "unread" or "seen"
  row,       \* "none", "open", "failed" or "settled"
  requests,  \* requests created for a mail
  released,  \* <<mail, n>>: the operations of its n-th request were released
  retries    \* retries a person asked for

vars == <<inbox, row, requests, released, retries>>

Init ==
  /\ inbox = [c \in Copies |-> "coming"]
  /\ row = [c \in Copies |-> "none"]
  /\ requests = [c \in Copies |-> 0]
  /\ released = {}
  /\ retries = [c \in Copies |-> 0]

Arrive(c) ==
  /\ inbox[c] = "coming"
  /\ inbox' = [inbox EXCEPT ![c] = "unread"]
  /\ UNCHANGED <<row, requests, released, retries>>

\* The raw bytes are stored, of a duplicate too.
Store(c) ==
  /\ inbox[c] # "coming" /\ row[c] = "none"
  /\ \E next \in {"open", "settled"} : row' = [row EXCEPT ![c] = next]
  /\ UNCHANGED <<inbox, requests, released, retries>>

\* A request is created; with nothing to decide in it, it settles the mail.
Request(c) ==
  /\ row[c] = "open" /\ requests[c] <= retries[c]
  /\ requests' = [requests EXCEPT ![c] = @ + 1]
  /\ \E next \in {"open", "settled"} : row' = [row EXCEPT ![c] = next]
  /\ UNCHANGED <<inbox, released, retries>>

Release(c) ==
  /\ row[c] = "open" /\ requests[c] > 0
  /\ released' = released \cup {<<c, requests[c]>>}
  /\ UNCHANGED <<inbox, row, requests, retries>>

Close(c) ==
  /\ row[c] = "open"
  /\ \E next \in {"failed", "settled"} : row' = [row EXCEPT ![c] = next]
  /\ UNCHANGED <<inbox, requests, released, retries>>

Retry(c) ==
  /\ row[c] = "failed"
  /\ row' = [row EXCEPT ![c] = "open"]
  /\ retries' = [retries EXCEPT ![c] = @ + 1]
  /\ UNCHANGED <<inbox, requests, released>>

\* Only what is stored is acknowledged.
Acknowledge(c) ==
  /\ inbox[c] = "unread" /\ row[c] # "none"
  /\ inbox' = [inbox EXCEPT ![c] = "seen"]
  /\ UNCHANGED <<row, requests, released, retries>>

Next ==
  \E c \in Copies :
    \/ Arrive(c) \/ Store(c) \/ Request(c) \/ Release(c) \/ Close(c) \/ Retry(c)
    \/ Acknowledge(c)

Spec == Init /\ [][Next]_vars
=============================================================================
