---------------------------- MODULE MCMailPipeline ----------------------------
(***************************************************************************)
(* Small instances of MailPipeline: copies m1 and m2 are one logical       *)
(* message sent twice, and m1 and m3 have the same bytes too.              *)
(***************************************************************************)
EXTENDS MailPipelineInvariant

CONSTANTS m1, m2, m3

Both(pair) == {pair, <<pair[2], pair[1]>>}
MCTwins == UNION {Both(t) : t \in {<<m1, m2>>, <<m1, m3>>, <<m2, m3>>}} \cap (Copies \X Copies)
MCSameBytes == Both(<<m1, m3>>) \cap (Copies \X Copies)
NoTwins == {}
=============================================================================
