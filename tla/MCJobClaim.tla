----------------------------- MODULE MCJobClaim -----------------------------
(***************************************************************************)
(* Instances of JobClaim for TLC.                                          *)
(***************************************************************************)
EXTENDS JobClaim

CONSTANTS p1, s1

Asr == [type |-> "asr", worker |-> NoName, group |-> NoName]
ForW1 == [type |-> "llm", worker |-> "w1", group |-> NoName]
W1 == [types |-> {}, worker |-> "w1", group |-> NoName]
AsrOnly == [types |-> {"asr"}, worker |-> "w1", group |-> NoName]

MCRequests == {Asr, ForW1}
MCClaimers == {W1, AsrOnly}

\* One worker: its stream takes every job, its polls only those of one type.
MCOffer == (p1 :> AsrOnly) @@ (s1 :> W1)
=============================================================================
