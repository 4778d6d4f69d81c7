--------------------------- MODULE MCQaModeration ---------------------------
(* Three open questions; the host may merge twice, nothing else is asked.      *)
EXTENDS QaModeration, TLC

CONSTANTS a, b, c

ThreeQuestions == {a, b, c}
Votes == (a :> 1 @@ b :> 2 @@ c :> 4)
OneCluster ==
    {[start |-> [q \in ThreeQuestions |-> "approved"],
      into  |-> [q \in ThreeQuestions |-> NoQuestion],
      spare |-> [clicks |-> 0, replies |-> 0, merges |-> 2, rivals |-> 0, votes |-> 0,
                 faults |-> 0]]}
=============================================================================
