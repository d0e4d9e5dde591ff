----------------------------- MODULE AutoReview -----------------------------
(***************************************************************************)
(* Gate 3: factory/qc/auto_reviewer.py turns what the model answers - or   *)
(* fails to answer - into an automated review, and factory/qc/engine.py    *)
(* routes the submission by it.  Workflow takes the reviews that may come  *)
(* back as the set Controls!AutoReviews; here that set is checked against  *)
(* the code that computes them.                                            *)
(***************************************************************************)
EXTENDS Controls

CONSTANTS
    Levels,         \* bound: the scores the model gives
    NoReview        \* gate 3 has no review yet

ASSUME ReviewAssumption ==
    /\ Levels \subseteq 0 .. 5
    /\ Unit % 1000 = 0      \* scores are rounded to three decimals

VARIABLES
    request,    \* what gate 3 starts from
    review,     \* the automated review, or NoReview
    status      \* the submission's

vars == <<request, review, status>>

-----------------------------------------------------------------------------
(* rubrics.py *)

Common == {"technical_accuracy", "standards_grounding", "completeness",
           "reasoning_quality", "clarity_style"}

(* The criteria of each rubric; a project of any task type may name any. *)
Rubrics == {Common, Common \cup {"pair_contrast"}, Common \cup {"gradeability"}}

(* Twice the weights. *)
Weight == [technical_accuracy |-> 6, standards_grounding |-> 4, completeness |-> 3,
           reasoning_quality |-> 3, clarity_style |-> 2, pair_contrast |-> 4, gradeability |-> 4]

(* The gate criteria. *)
Critical == {"technical_accuracy", "standards_grounding", "pair_contrast", "gradeability"}

(***************************************************************************)
(* The model scores some of the rubric's criteria (nothing makes the list  *)
(* complete), raises flags - all that matters is whether one is critical - *)
(* and may call its evidence insufficient.                                 *)
(***************************************************************************)
Answers ==
    [kind : {"answer"}, scores : UNION {[D -> Levels] : D \in UNION {SUBSET R : R \in Rubrics}},
     critical : BOOLEAN, insufficient : BOOLEAN]

(***************************************************************************)
(* The model declines; or there is no key, the call fails, the JSON is     *)
(* bad.  Then the heuristic looks at the content that passed the checks:   *)
(* whether the main text is long, whether there are citations (a value     *)
(* that is empty but not a list, as {}, passes check_schema), and the      *)
(* warnings about the text: check_pii raises two kinds.                    *)
(***************************************************************************)
Refusals == [kind : {"refusal"}]
Failures == [kind : {"failure"}, text : [long : BOOLEAN, cites : BOOLEAN, piiWarnings : 0 .. 2]]

Requests == [answer : Answers \cup Refusals \cup Failures, sampled : BOOLEAN]

-----------------------------------------------------------------------------
(* _weighted_overall and _critical_gate_failed. *)

At(f, c) == IF c \in DOMAIN f THEN f[c] ELSE 0

(* The loop over the criteria that were scored, of the seven there are. *)
Total(f) ==
    At(f, "technical_accuracy") + At(f, "standards_grounding") + At(f, "completeness")
    + At(f, "reasoning_quality") + At(f, "clarity_style")
    + At(f, "pair_contrast") + At(f, "gradeability")

(* The weighted mean of the given scores, in units, to three decimals. *)
WeightedOverall(scores) ==
    IF DOMAIN scores = {} THEN {0}
    ELSE {q * (Unit \div 1000) :
            q \in RoundDiv(1000 * Total([c \in DOMAIN scores |-> Weight[c] * scores[c]]),
                           Total([c \in DOMAIN scores |-> Weight[c]]))}

(* Faulty variant: the gate criteria are like the others. *)
CriticalGateFailed_Ignored(scores) == FALSE

CriticalGateFailed(scores) == \E c \in DOMAIN scores \cap Critical : scores[c] < 3

(* _review_with_claude. *)
ReviewsOf(a) ==
    {[by |-> "claude", score |-> overall, critical |-> a.critical,
      passed |-> /\ overall >= PassThreshold
                 /\ ~a.critical
                 /\ ~a.insufficient
                 /\ ~CriticalGateFailed(a.scores)] : overall \in WeightedOverall(a.scores)}

(* A refusal: the flag that stands for it is a critical one. *)
RefusalReview == [by |-> "claude", score |-> 0, critical |-> TRUE, passed |-> FALSE]

(* Faulty variant: a warning costs half a point. *)
HeuristicQuarters_Doubled(text) ==
    12 + (IF text.long THEN 2 ELSE 0) + (IF text.cites THEN 2 ELSE -2) - 2 * text.piiWarnings

(* The score in quarters of a point; no citations is a warning too. *)
HeuristicQuarters(text) ==
    12 + (IF text.long THEN 2 ELSE 0) + (IF text.cites THEN 2 ELSE -1) - text.piiWarnings

(* Faulty variant: the heuristic passes what scores high. *)
HeuristicReview_MayPass(text) ==
    LET score == (HeuristicQuarters(text) * Unit) \div 4
    IN  [by |-> "heuristic", score |-> score, critical |-> FALSE, passed |-> score >= PassThreshold]

(* _review_heuristic *)
HeuristicReview(text) ==
    [by |-> "heuristic", score |-> (HeuristicQuarters(text) * Unit) \div 4, critical |-> FALSE,
     passed |-> FALSE]

Init ==
    /\ request \in Requests
    /\ review = NoReview
    /\ status = "auto_qc_pending"

(* auto_reviewer.review *)
Review ==
    /\ review = NoReview
    /\ CASE request.answer.kind = "answer" -> review' \in ReviewsOf(request.answer)
         [] request.answer.kind = "refusal" -> review' = RefusalReview
         [] request.answer.kind = "failure" -> review' = HeuristicReview(request.answer.text)
    /\ UNCHANGED <<request, status>>

(* engine.process *)
RouteSubmission ==
    /\ review # NoReview
    /\ status = "auto_qc_pending"
    /\ status' = Route(review, request.sampled)
    /\ UNCHANGED <<request, review>>

Next == Review \/ RouteSubmission

Spec == Init /\ [][Next]_vars

-----------------------------------------------------------------------------
(* What must hold. *)

(***************************************************************************)
(* What the rest of the model takes for granted: every review gate 3 gets, *)
(* whatever was scored, left out, flagged or refused, is an AutoReviews.   *)
(***************************************************************************)
ReviewIsExpected == review = NoReview \/ review \in AutoReviews

(***************************************************************************)
(* The engine's docstring: auto-approval needs a clean answer of the model *)
(* on an unsampled submission.  No scored gate criterion is below 3 and    *)
(* the scores given average 4.0 to three decimals.                         *)
(***************************************************************************)
ApprovalIsEarned ==
    status = "approved" =>
        LET a == request.answer
            given == DOMAIN a.scores
        IN  /\ a.kind = "answer" /\ ~request.sampled
            /\ ~a.critical /\ ~a.insufficient
            /\ \A c \in given \cap Critical : a.scores[c] >= 3
            /\ 1000 * Total([c \in given |-> Weight[c] * (a.scores[c] - 4)]) * 2
                 >= -Total([c \in given |-> Weight[c]])

(***************************************************************************)
(* README, QM 5: an API failure neither stalls gate 3 nor approves; the    *)
(* fallback takes the submission to a person.  Its score alone may stop it *)
(* on the way, but never for a content with citations, whatever else the   *)
(* checks warned about.                                                    *)
(***************************************************************************)
FallbackReachesPerson ==
    request.answer.kind = "failure" /\ status # "auto_qc_pending" =>
        /\ review.by = "heuristic"
        /\ status \in {"human_review", "needs_revision"}
        /\ request.answer.text.cites => status = "human_review"

(***************************************************************************)
(* rubrics.py, README, QM 4: a score below 3 on a gate criterion forces    *)
(* revision regardless of the overall score.                               *)
(***************************************************************************)
CriticalForcesRevision ==
    status # "auto_qc_pending" /\ request.answer.kind = "answer" =>
        (CriticalGateFailed(request.answer.scores) => status = "needs_revision")
=============================================================================
