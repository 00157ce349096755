--------------------------- MODULE ContextBounds ---------------------------
(***************************************************************************)
(* ai/context_builder.py: the context of a mail for the models, and how    *)
(* finalize_context brings it under the configured length, section by      *)
(* section, until it fits; before it the limits of mail/mime.py on the     *)
(* parts of the mail, which _prepare adds to what became of the context.   *)
(*                                                                         *)
(* A context gives each section its length, in units; lists count entries, *)
(* which are kept or dropped whole.                                        *)
(***************************************************************************)
EXTENDS Naturals, Sequences, FiniteSets, Functions

CONSTANTS
  Caps,              \* values of max_context_characters
  MaxLatest,         \* max_latest_characters
  MaxThread,         \* max_relevant_thread_characters
  MaxPart,           \* max_text_part_bytes, max_html_part_bytes, max_attachment_bytes
  MaxAttachments,    \* max_attachment_count
  MaxParts,          \* bound on the parts of a mail
  Longest            \* bound on what a mail brings of anything

\* The minimal envelope: mode, flags and the two essential warnings.
Envelope == 2

\* MIN_CONTEXT_CHARACTERS holds the envelope.
ASSUME CapsAssumption == \A c \in Caps : c \in Nat /\ c >= Envelope

ASSUME LimitsAssumption ==
  /\ MaxLatest \in Nat /\ MaxThread \in Nat /\ MaxPart \in Nat /\ MaxAttachments \in Nat
  /\ MaxParts \in Nat /\ Longest \in Nat

\* Sections that are emptied, those that keep as much as fits, and those that stay.
Emptied == {"thread", "notes", "since", "snippets"}
Shortened ==
  {"subject", "question", "latest", "candidates", "open_requests", "targets", "stored"}
Sections == Emptied \cup Shortened \cup {"frame", "reference", "audit", "essential"}

\* What is done to the context, in this order, until it fits.
Reductions ==
  <<"check", "thread", "notes", "since", "snippets", "subject", "question", "latest",
    "candidates", "open_requests", "targets", "stored", "minimal">>

VARIABLES
  cap,
  built,             \* the context before it is bounded, as the mail has it
  context,           \* the context as it is
  mime,              \* what extract_content made of the mail's parts
  automatic,         \* automatic_execution_allowed
  step,              \* the reduction that comes next, 0 when finalized; past the last
                     \* one it raises
  prepared           \* _prepare is done with the context

contextVars == <<cap, built, context, mime, automatic, step, prepared>>

Size(c) == SumFunction(c)
Fits(c) == Size(c) <= cap
-----------------------------------------------------------------------------
Parts == [kind : {"plain", "html", "attachment"}, length : 1..Longest]

\* The text is that of the plain parts, or of the HTML ones when there is no other; each
\* part is cut to its limit on its own.  It is whole when none of its parts is cut, and
\* a limit is exceeded by any part, used or not.
Extracted(parts) ==
  LET Kind(kind) == {n \in DOMAIN parts : parts[n].kind = kind}
      Long(ns) == \E n \in ns : parts[n].length > MaxPart
      body == IF Kind("plain") # {} THEN Kind("plain") ELSE Kind("html")
  IN [whole |-> ~Long(body),
      limited |-> Long(DOMAIN parts) \/ Cardinality(Kind("attachment")) > MaxAttachments]

\* What a mail of each mode brings: a text, the thread when its segmentation is
\* uncertain, numbers with a snippet of text each, and what is stored.
Raw(mode) ==
  LET upTo(present) == IF present THEN 0..Longest ELSE {0}
  IN {[s \in Sections |->
         CASE s = "frame" -> 1
           [] s = "reference" -> IF mode \in {"clarification", "correlated"} THEN 1 ELSE 0
           [] s = "latest" -> latest
           [] s = "since" -> IF mode = "new_request" THEN latest ELSE 0
           [] s = "thread" -> thread
           [] s = "notes" -> notes
           [] s = "candidates" -> candidates
           [] s = "snippets" -> candidates
           [] s = "subject" -> IF mode \in {"new_request", "correlated"} THEN notes ELSE 0
           [] s = "question" -> IF mode = "clarification" THEN 1 ELSE 0
           [] s = "targets" -> IF mode = "clarification" THEN stored ELSE 0
           [] s = "stored" -> IF mode = "correlated" THEN stored ELSE 0
           [] s = "open_requests" -> IF mode = "follow_up" THEN stored ELSE 0
           [] OTHER -> 0] :
        latest \in 0..Longest, thread \in 0..Longest, notes \in 0..1, candidates \in 0..2,
        stored \in upTo(mode # "new_request")}

Modes == {"new_request", "clarification", "follow_up", "correlated"}

AtMost(x, y) == IF x <= y THEN x ELSE y

\* bound_latest_text, _uncertain_thread_context: the texts are cut to their own limits
\* first, with a warning each.
Bounded(raw) ==
  LET Cut(length, limit) == IF length > limit THEN 1 ELSE 0
  IN [s \in Sections |->
        CASE s \in {"latest", "since"} -> AtMost(raw[s], MaxLatest)
          [] s = "thread" -> AtMost(raw[s], MaxThread)
          [] s = "audit" -> Cut(raw.latest, MaxLatest) + Cut(raw.thread, MaxThread)
          [] OTHER -> raw[s]]

\* new_request, clarification_reply, possible_follow_up, correlated_request_reply
ContextInit ==
  /\ cap \in Caps
  /\ \E mode \in Modes :
       /\ built \in Raw(mode)
       /\ context = Bounded(built)
       /\ automatic = (mode # "follow_up" /\ context.audit = 0)
  /\ mime \in {Extracted(parts) : parts \in UNION {[1..n -> Parts] : n \in 0..MaxParts}}
  /\ step = 1 /\ prepared = FALSE
-----------------------------------------------------------------------------
\* The most a section may keep of what it has.
Shrunk(c, s) ==
  LET without == Size([c EXCEPT ![s] = 0])
  IN [c EXCEPT ![s] = IF without > cap THEN 0 ELSE AtMost(@, cap - without)]

\* The envelope, with whatever of the warnings, the reference, the candidates and the
\* text fits, in this order.
Minimal(c) ==
  LET empty == [s \in Sections |-> IF s = "essential" THEN Envelope ELSE 0]
      audited == Shrunk([empty EXCEPT !.audit = c.audit], "audit")
      named == Shrunk([audited EXCEPT !.reference = built.reference], "reference")
      numbered == Shrunk([named EXCEPT !.candidates = built.candidates], "candidates")
  IN Shrunk([numbered EXCEPT !.latest = AtMost(built.latest, MaxLatest)], "latest")

\* One attempt of finalize_context to make the context fit.
Reduced(c, reduction) ==
  CASE reduction = "check" -> c
    [] reduction = "minimal" -> Minimal(c)
    [] reduction \in Shortened -> Shrunk(c, reduction)
    [] reduction \in Emptied -> [c EXCEPT ![reduction] = 0]

\* Slip of Warned: only what is left out of the message itself is worth a warning.
WarnedLate(c, n) == Reductions[n] = "since"

\* The warnings are applied as soon as the context does not fit, before anything is
\* left out.
Warned(c, n) == n = 1

\* The next attempt; it is the last when the context fits.
Reduce ==
  /\ step \in 1..Len(Reductions)
  /\ LET c == Reduced(context, Reductions[step])
         overflows == ~Fits(c)
     IN /\ context' = IF overflows /\ Warned(c, step) THEN [c EXCEPT !.essential = 1] ELSE c
        /\ automatic' = (automatic /\ ~(overflows /\ Warned(c, step)))
        /\ step' = IF overflows THEN step + 1 ELSE 0
  /\ UNCHANGED <<cap, built, mime, prepared>>

\* _prepare: limits met while parsing refuse automatic execution as well.
Prepare ==
  /\ step = 0 /\ ~prepared /\ prepared' = TRUE
  /\ automatic' = (automatic /\ ~mime.limited)
  /\ UNCHANGED <<cap, built, context, mime, step>>

ContextNext == Reduce \/ Prepare

ContextSpec == ContextInit /\ [][ContextNext]_contextVars
-----------------------------------------------------------------------------
\* A finalized context is never longer than the configured limit, finalize_context
\* always finds one, and when anything at all of the mail or of the stored state had
\* to be left out of it, nothing is executed automatically.
ContextFailsClosed ==
  /\ step = 0 => Fits(context)
  /\ prepared /\ automatic => mime.whole /\ \A s \in Sections : context[s] = built[s]
  /\ step <= Len(Reductions)
=============================================================================
