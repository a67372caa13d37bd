---------------------------- MODULE MCJobRegistry ----------------------------
(***************************************************************************)
(* Instances of JobRegistry for TLC.                                       *)
(***************************************************************************)
EXTENDS JobRegistry

\* Jobs of two types, one of them bound to a worker.
MCRequests == {[type |-> "asr", worker |-> NoName, group |-> NoName],
               [type |-> "asr", worker |-> "w1", group |-> NoName]}

\* A worker that takes anything and is w1, and one that takes only "asr" and
\* is somebody else.
MCClaimers == {[types |-> {}, worker |-> "w1", group |-> NoName],
               [types |-> {"asr"}, worker |-> "w2", group |-> "g"]}

\* Where only the timers matter, it does not matter who claims what.
MCOneRequest == {[type |-> "asr", worker |-> NoName, group |-> NoName]}
MCOneClaimer == {[types |-> {}, worker |-> NoName, group |-> NoName]}

\* What a worker may post: states that end the job, that do not, and "queued",
\* which the protocol lists and which does not queue the job.
MCReported == {"running", "queued", "completed", "canceled"}
MCProtocol == {"running", "completed"}
=============================================================================
