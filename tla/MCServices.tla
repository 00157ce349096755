----------------------------- MODULE MCServices -----------------------------
(***************************************************************************)
(* The parts around the mail and execution cores that share no state: the  *)
(* business API client, the correlation of mails, the bounding of a model's*)
(* context, the mailbox, and the outbox with a single sender.  A behaviour *)
(* runs one of them, its subject, and leaves the others in an initial      *)
(* state.                                                                  *)
(***************************************************************************)
EXTENDS BusinessClient, Threads, ContextBounds, Mailbox, Outbox, TLC

VARIABLE subject

vars == <<subject, clientVars, threadVars, contextVars, mailboxVars, outboxVars>>

ClientRests ==
  /\ deployment = CHOOSE d \in Deployment : TRUE
  /\ command = CHOOSE c \in Command : TRUE
  /\ ClientInit

ContextRests ==
  /\ cap = CHOOSE c \in Caps : TRUE
  /\ built = [s \in Sections |-> IF s = "frame" THEN 1 ELSE 0]
  /\ mime = Extracted(<<>>)
  /\ automatic = TRUE /\ ContextInit

Init ==
  /\ subject \in {"client", "threads", "context", "mailbox", "outbox"}
  /\ ThreadInit /\ MailboxInit /\ OutboxInit
  /\ IF subject = "client" THEN ClientInit ELSE ClientRests
  /\ IF subject = "context" THEN ContextInit ELSE ContextRests

Next ==
  /\ UNCHANGED subject
  /\ \/ /\ subject = "client" /\ ClientNext
        /\ UNCHANGED <<threadVars, contextVars, mailboxVars, outboxVars>>
     \/ /\ subject = "threads" /\ ThreadNext
        /\ UNCHANGED <<clientVars, contextVars, mailboxVars, outboxVars>>
     \/ /\ subject = "context" /\ ContextNext
        /\ UNCHANGED <<clientVars, threadVars, mailboxVars, outboxVars>>
     \/ /\ subject = "mailbox" /\ MailboxNext
        /\ UNCHANGED <<clientVars, threadVars, contextVars, outboxVars>>
     \/ /\ subject = "outbox" /\ OutboxNext
        /\ UNCHANGED <<clientVars, threadVars, contextVars, mailboxVars>>

Spec == Init /\ [][Next]_vars

\* Customers, workers and letters are alike.
Alike == Permutations(Customers) \cup Permutations(Workers) \cup Permutations(Letters)
=============================================================================
