------------------------- MODULE MCParticipantPages --------------------------
(* Small instances of the participant's side: the run follows every part.         *)
EXTENDS ParticipantPages

CONSTANTS h1, h2  \* two requests of hosts

(* The room page: overlapping requests, a lost socket, a submission.               *)
PageBounds(h, m, l, k) == [hosts |-> h, moves |-> m, losses |-> l, answers |-> k]
PageCases == {PageBounds({h1, h2}, 2, 0, 0), PageBounds({h1}, 1, 1, 0),
              PageBounds({h1}, 1, 0, 1)}

(* The Q&A panel: votes, votes of others, moves of the host, a question, faults.   *)
VoteBounds(v, o, m, k, f) == [votes |-> v, others |-> o, moves |-> m, asks |-> k, faults |-> f]
VoteCases == {VoteBounds(2, 0, 0, 0, 0), VoteBounds(1, 1, 0, 0, 0), VoteBounds(1, 0, 1, 0, 0),
              VoteBounds(1, 0, 0, 0, 1),
              VoteBounds(0, 0, 1, 1, 1), VoteBounds(0, 1, 0, 0, 1)}

SurveyBounds(m, k, t, f, open) ==
    [moves |-> m, adds |-> k, tabs |-> t, faults |-> f, open |-> open]
SurveyCases == {SurveyBounds(2, 0, 0, 0, {}), SurveyBounds(1, 1, 0, 0, {}),
                SurveyBounds(0, 0, 1, 1, {}), SurveyBounds(0, 1, 0, 1, {"questions"}),
                SurveyBounds(0, 0, 0, 1, {"results"})}

QuizBounds(p, k, f, open) == [presses |-> p, answers |-> k, faults |-> f, open |-> open]
QuizCases == {QuizBounds(3, 0, 0, {}), QuizBounds(1, 0, 1, {"screen"}),
              QuizBounds(1, 1, 1, {"join"})}

(* Forms: pairs of polls, of one kind or of two that share a form; a cloud that is    *)
(* answered until it is full.                                                    *)
KindOf  == [p \in FormPolls |-> CASE p = "rated" -> "rating" [] p = "ranked" -> "ranking"
                                    [] p = "cloud" -> "words" [] OTHER -> p]
WidthOf == [p \in FormPolls |-> IF p = "ranking" THEN 3 ELSE 2]
FormBounds(p, m, k, n, f) ==
    [polls |-> p, moves |-> m, marks |-> k, submits |-> n, faults |-> f]
FormCases == {FormBounds(pair, 3, 2, 2, 1) :
    pair \in {{"single", "multi"}, {"rating", "rated"}, {"ranking", "ranked"},
              {"words", "cloud"}, {"text", "words"}}} \cup {FormBounds({"words"}, 1, 3, 3, 0)}
=============================================================================
