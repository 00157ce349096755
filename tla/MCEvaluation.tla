---------------------------- MODULE MCEvaluation ----------------------------
(* The evaluations explored: each stresses one part of the matrix runner.  *)
EXTENDS MatrixEvaluation

Asks(text) == [text |-> text, reply |-> FALSE, expects |-> TRUE,
               scored |-> TRUE, contradiction |-> FALSE]
Silent(text) == [Asks(text) EXCEPT !.expects = FALSE]
Reply(text) == [Asks(text) EXCEPT !.reply = TRUE]
Contradicting(text) == [Asks(text) EXCEPT !.contradiction = TRUE]

Base == [examples |-> <<Asks("m1")>>, analyzers |-> 2, cache |-> "use", provider |-> "vllm",
         strict |-> FALSE, stop |-> 100, svm |-> FALSE, doubts |-> 2, starts |-> 1]

\* Two analyzers compete on two examples.
Competing ==
    {[Base EXCEPT !.examples = e, !.doubts = 3] : e \in {<<Asks("m1"), Silent("m2")>>,
                                           <<Asks("m1"), Contradicting("m2")>>}}

\* One question, killed and resumed twice.
Resumed ==
    {[Base EXCEPT !.cache = c, !.starts = 3, !.stop = s] :
        c \in {"use", "no_cache"}, s \in {2, 100}}

\* The same text twice, with every cache mode.
Shared ==
    {[Base EXCEPT !.examples = <<Asks("m1"), Asks("m1")>>, !.cache = c,
                  !.analyzers = 1, !.starts = 2] : c \in {"use", "no_cache", "refresh"}}

\* One analyzer at its worst, under either budget policy.
Stubborn ==
    {[Base EXCEPT !.analyzers = 1, !.doubts = 5, !.stop = s, !.strict = u] :
        s \in {2, 100}, u \in BOOLEAN}

\* The classifier in front of the models.
Classified ==
    {[Base EXCEPT !.examples = <<e>>, !.svm = TRUE, !.starts = 2, !.doubts = 1] :
        e \in {Asks("m1"), Reply("m1")}}

\* An endpoint without budget and without weaker modes.
Plain == {[Base EXCEPT !.provider = "openai_compatible", !.starts = 2]}

ThePlans == Plain \cup Competing \cup Resumed \cup Shared \cup Stubborn \cup Classified
=============================================================================
