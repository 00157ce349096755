------------------------------ MODULE Mailbox ------------------------------
(***************************************************************************)
(* mail/imap_client.py under workflow/orchestrator.py: the mailbox the     *)
(* agent polls, whose uids mean something only under one UIDVALIDITY.      *)
(* Fetching and marking are sessions of their own, and between them mail   *)
(* arrives, is expunged, or the mailbox is rebuilt under a new UIDVALIDITY *)
(* with other uids.                                                        *)
(*                                                                         *)
(* MailPipeline has what processing a message does; here it is only stored.*)
(***************************************************************************)
EXTENDS Naturals, FiniteSets

LOCAL INSTANCE Functions

CONSTANTS
  Letters,     \* raw bytes of the messages
  MaxUid,      \* bound: messages under one UIDVALIDITY
  MaxRebuilds  \* bound: times the mailbox is rebuilt

ASSUME MaxUidAssumption == MaxUid \in Nat

VARIABLES
  uidvalidity, uidnext,
  box,         \* box[uid]: the letter of a message that is there
  fetched,     \* messages fetch_candidates returned that poll_once has not come to
  acknowledged,\* the message poll_once is to mark as seen
  emails,      \* email_messages, by locator; a duplicate is not an original
  flagged      \* letters the agent marked as seen

mailboxVars == <<uidvalidity, uidnext, box, fetched, acknowledged, emails, flagged>>

MailboxInit ==
  /\ uidvalidity = 0 /\ uidnext = 1 /\ box = <<>>
  /\ fetched = {} /\ acknowledged = {} /\ emails = {} /\ flagged = {}
-----------------------------------------------------------------------------
(* The mail server. *)

Deliver ==
  /\ uidnext <= MaxUid
  /\ \E letter \in Letters :
       box' = [uid \in DOMAIN box \cup {uidnext} |-> IF uid = uidnext THEN letter ELSE box[uid]]
  /\ uidnext' = uidnext + 1
  /\ UNCHANGED <<uidvalidity, fetched, acknowledged, emails, flagged>>

Expunge ==
  /\ \E uid \in DOMAIN box : box' = [u \in DOMAIN box \ {uid} |-> box[u]]
  /\ UNCHANGED <<uidvalidity, uidnext, fetched, acknowledged, emails, flagged>>

Rebuild ==
  /\ uidvalidity < MaxRebuilds
  /\ uidvalidity' = uidvalidity + 1
  /\ \E last \in 0..MaxUid : \E old \in Bijection(1..last, DOMAIN box) :
       /\ box' = [uid \in 1..last |-> box[old[uid]]]
       /\ uidnext' = last + 1
  /\ UNCHANGED <<fetched, acknowledged, emails, flagged>>
-----------------------------------------------------------------------------
(* The agent. *)

\* A search criterion leaves some messages out, and a UID whose FETCH fails is passed
\* over.
FetchCandidates ==
  /\ fetched = {} /\ acknowledged = {}
  /\ \E uids \in SUBSET DOMAIN box \ {{}} :
       fetched' = {[uidvalidity |-> uidvalidity, uid |-> uid, letter |-> box[uid]] : uid \in uids}
  /\ UNCHANGED <<uidvalidity, uidnext, box, acknowledged, emails, flagged>>

\* Slip of SameLocator: a uid is taken to name a message for good.
SameUid(row, message) == row.uid = message.uid

SameLocator(row, message) ==
  row.uidvalidity = message.uidvalidity /\ row.uid = message.uid

ByPhysicalLocator(message) == {row \in emails : SameLocator(row, message)}
ByRawSha256(letter) == {row \in emails : row.letter = letter /\ row.original}

\* Whatever comes of a stored message, its result is acknowledged unless its status is
\* not final or an exception is raised.
ProcessRaw ==
  /\ acknowledged = {}
  /\ \E message \in fetched :
       /\ fetched' = fetched \ {message}
       /\ emails' = IF ByPhysicalLocator(message) # {} THEN emails
                    ELSE emails \cup {[uidvalidity |-> message.uidvalidity, uid |-> message.uid,
                                       letter |-> message.letter,
                                       original |-> ByRawSha256(message.letter) = {}]}
       /\ acknowledged' \in {{}, {message}}
  /\ UNCHANGED <<uidvalidity, uidnext, box, flagged>>

StoreRaises ==
  /\ acknowledged = {}
  /\ \E message \in fetched : fetched' = fetched \ {message}
  /\ UNCHANGED <<uidvalidity, uidnext, box, acknowledged, emails, flagged>>

\* Slip of Acknowledgeable: the message is looked up by its uid alone.
AnyUid(message) == TRUE

Acknowledgeable(message) == message.uidvalidity = uidvalidity

\* Marks whatever the uid names by now, if anything, or raises.
MarkSeen ==
  /\ \E message \in acknowledged :
       flagged' \in {flagged, flagged \cup {box[uid] : uid \in
                       {u \in DOMAIN box : u = message.uid /\ Acknowledgeable(message)}}}
  /\ acknowledged' = {}
  /\ UNCHANGED <<uidvalidity, uidnext, box, fetched, emails>>

PollerCrashes ==
  /\ fetched' = {} /\ acknowledged' = {}
  /\ UNCHANGED <<uidvalidity, uidnext, box, emails, flagged>>

MailboxNext ==
  \/ Deliver \/ Expunge \/ Rebuild
  \/ FetchCandidates \/ ProcessRaw \/ StoreRaises \/ MarkSeen \/ PollerCrashes

MailboxSpec == MailboxInit /\ [][MailboxNext]_mailboxVars
-----------------------------------------------------------------------------
\* A message the agent marks as seen is stored, whatever was rebuilt, expunged or lost
\* in between, and a message that comes up again under another locator is not handled
\* as a new one.
SeenIsKept ==
  /\ \A letter \in flagged : \E row \in emails : row.letter = letter
  /\ \A row, other \in emails :
       row.original /\ other.original /\ row.letter = other.letter => row = other
=============================================================================
