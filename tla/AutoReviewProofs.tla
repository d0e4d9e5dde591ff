-------------------------- MODULE AutoReviewProofs --------------------------
(***************************************************************************)
(* Theorems about AutoReview: whatever integers from 0 to 5 the model      *)
(* scores, whichever criteria it leaves out, in any unit of thousandths.   *)
(***************************************************************************)
EXTENDS AutoReview, ControlsProofs

-----------------------------------------------------------------------------
(* The weighted mean. *)

Criteria == DOMAIN Weight

(* What the scores of some criteria sum up to, against the sum of weights.  *)
LEMMA Totals ==
    ASSUME NEW D \in SUBSET Criteria, NEW s \in [D -> 0 .. 5],
           NEW w, w = [c \in D |-> Weight[c]],
           NEW v, v = [c \in D |-> Weight[c] * s[c]],
           NEW r, r = [c \in D |-> Weight[c] * (s[c] - 4)]
    PROVE  /\ Total(w) \in Nat /\ Total(v) \in Nat
           /\ Total(v) <= 5 * Total(w)
           /\ Total(r) = Total(v) - 4 * Total(w)
           /\ D # {} => Total(w) > 0
<1>1. Criteria = {"technical_accuracy", "standards_grounding", "completeness",
                  "reasoning_quality", "clarity_style", "pair_contrast", "gradeability"}
  BY DEF Criteria, Weight
<1>2. \A c \in Criteria : Weight[c] \in {2, 3, 4, 6}
  BY DEF Criteria, Weight
<1>3. ASSUME NEW c \in Criteria
      PROVE  /\ At(w, c) \in Nat /\ At(v, c) \in Nat
             /\ At(v, c) <= 5 * At(w, c)
             /\ At(r, c) = At(v, c) - 4 * At(w, c)
             /\ c \in D => At(w, c) > 0
  <2>1. CASE c \in D
    <3>1. At(w, c) = Weight[c] /\ At(v, c) = Weight[c] * s[c] /\ At(r, c) = Weight[c] * (s[c] - 4)
      BY <2>1 DEF At
    <3>2. PICK k, n : k = Weight[c] /\ n = s[c]
      OBVIOUS
    <3>3. k \in {2, 3, 4, 6} /\ n \in 0 .. 5
      BY <1>2, <2>1, <3>2
    <3>4. /\ k * n \in Nat /\ k * n <= 5 * k /\ k * (n - 4) = k * n - 4 * k /\ k > 0
      BY <3>3
    <3> QED
      BY <3>1, <3>2, <3>3, <3>4
  <2>2. CASE c \notin D
    BY <2>2 DEF At
  <2> QED
    BY <2>1, <2>2
<1>4. D # {} => \E c \in Criteria : At(w, c) > 0
  BY <1>3
<1>5. Total(w) \in Nat /\ Total(v) \in Nat /\ Total(v) <= 5 * Total(w)
  BY <1>1, <1>3 DEF Total
<1>6. Total(r) = Total(v) - 4 * Total(w)
  BY <1>1, <1>3 DEF Total
<1>7. ASSUME NEW c \in Criteria, At(w, c) > 0 PROVE Total(w) > 0
  <2>1. \A d \in Criteria : At(w, d) \in Nat
    BY <1>3
  <2>2. /\ At(w, "technical_accuracy") <= Total(w) /\ At(w, "standards_grounding") <= Total(w)
        /\ At(w, "completeness") <= Total(w) /\ At(w, "reasoning_quality") <= Total(w)
        /\ At(w, "clarity_style") <= Total(w) /\ At(w, "pair_contrast") <= Total(w)
        /\ At(w, "gradeability") <= Total(w)
    BY <1>1, <2>1 DEF Total
  <2>3. At(w, c) <= Total(w)
    BY <1>1, <2>2
  <2> QED
    BY <1>5, <1>7, <2>1, <2>3
<1> QED
  BY <1>4, <1>5, <1>6, <1>7

(* A thousandth of a point is a whole number of units. *)
LEMMA Thousandths == Unit \div 1000 \in Nat \ {0} /\ Unit = 1000 * (Unit \div 1000)
<1>1. Unit \in Nat \ {0} /\ Unit % 1000 = 0
  BY ThresholdsAssumption, ReviewAssumption
<1>2. ASSUME NEW n \in Nat \ {0}, n % 1000 = 0
      PROVE  n \div 1000 \in Nat \ {0} /\ n = 1000 * (n \div 1000)
  BY <1>2, SMT
<1> QED
  BY <1>1, <1>2

(* The mean is 4.0 to three decimals. *)
MeansFour(D, s) ==
    1000 * Total([c \in D |-> Weight[c] * (s[c] - 4)]) * 2 >= -Total([c \in D |-> Weight[c]])

(* The mean is on the scale; one that passes had 4.0 to three decimals.     *)
LEMMA WeightedMean ==
    ASSUME NEW D \in SUBSET Criteria, NEW s \in [D -> 0 .. 5], NEW overall \in WeightedOverall(s)
    PROVE  /\ overall \in 0 .. MaxScore
           /\ overall >= PassThreshold => MeansFour(D, s)
<1>1. CASE D = {}
  <2>1. overall = 0
    BY <1>1 DEF WeightedOverall
  <2> QED
    BY <2>1, ThresholdsAssumption DEF MaxScore, PassThreshold
<1>2. CASE D # {}
  <2>1. PICK wf, vf, rf : /\ wf = [c \in D |-> Weight[c]]
                          /\ vf = [c \in D |-> Weight[c] * s[c]]
                          /\ rf = [c \in D |-> Weight[c] * (s[c] - 4)]
    OBVIOUS
  <2>2. PICK w, v, r : w = Total(wf) /\ v = Total(vf) /\ r = Total(rf)
    OBVIOUS
  <2>3. /\ w \in Nat \ {0} /\ v \in Nat /\ v <= 5 * w
        /\ r = v - 4 * w
    BY <1>2, <2>1, <2>2, Totals
  <2>4. PICK u : u = Unit \div 1000
    OBVIOUS
  <2>5. PICK q \in RoundDiv(1000 * v, w) : overall = q * u
    BY <1>2, <2>1, <2>2, <2>4 DEF WeightedOverall
  <2>6. /\ q \in Nat
        /\ 2 * (w * q) <= 2 * (1000 * v) + w
        /\ 2 * (1000 * v) <= 2 * (w * q) + w
    BY <2>3, RoundDivBounds
  <2>7. u \in Nat \ {0} /\ Unit = 1000 * u
    BY <2>4, Thousandths
  <2>8. q <= 5000
    <3>1. SUFFICES ASSUME q >= 5001 PROVE FALSE
      BY <2>6
    <3>2. w * 5001 <= w * q
      BY <2>3, <2>6, <3>1, Multiples
    <3> QED
      BY <2>3, <2>6, <3>2
  <2>9. overall \in 0 .. MaxScore
    <3>1. u * q <= u * 5000 /\ u * q \in Nat /\ u * q = q * u
      BY <2>6, <2>7, <2>8, Multiples
    <3> QED
      BY <2>5, <2>7, <3>1 DEF MaxScore
  <2>10. ASSUME overall >= PassThreshold PROVE 1000 * r * 2 >= -w
    <3>1. q >= 4000
      <4>1. SUFFICES ASSUME q <= 3999 PROVE FALSE
        BY <2>6
      <4>2. u * q <= u * 3999 /\ u * q \in Nat /\ u * q = q * u
        BY <2>6, <2>7, <4>1, Multiples
      <4> QED
        BY <2>5, <2>7, <2>10, <4>2 DEF PassThreshold
    <3>2. w * 4000 <= w * q /\ w * q \in Nat
      BY <2>3, <2>6, <3>1, Multiples
    <3> QED
      BY <2>3, <2>6, <3>2
  <2> QED
    BY <2>1, <2>2, <2>9, <2>10 DEF MeansFour
<1> QED
  BY <1>1, <1>2

-----------------------------------------------------------------------------
(* The reviews. *)

(* What the model's answer may score. *)
LEMMA AnswerScores ==
    ASSUME NEW a \in Answers
    PROVE  /\ a.critical \in BOOLEAN /\ a.insufficient \in BOOLEAN
           /\ \E D \in SUBSET Criteria : a.scores \in [D -> 0 .. 5]
<1>1. PICK R \in Rubrics : \E D \in SUBSET R : a.scores \in [D -> Levels]
  BY DEF Answers
<1>2. R \subseteq Criteria
  BY DEF Rubrics, Common, Criteria, Weight
<1>3. PICK D \in SUBSET R : a.scores \in [D -> Levels]
  BY <1>1
<1>4. D \in SUBSET Criteria /\ a.scores \in [D -> 0 .. 5]
  BY <1>2, <1>3, ReviewAssumption
<1> QED
  BY <1>4 DEF Answers

LEMMA ReviewsExpected ==
    ASSUME NEW a \in Answers, NEW r \in ReviewsOf(a)
    PROVE  r \in AutoReviews
<1>1. PICK overall \in WeightedOverall(a.scores) :
        r = [by |-> "claude", score |-> overall, critical |-> a.critical,
             passed |-> /\ overall >= PassThreshold
                        /\ ~a.critical
                        /\ ~a.insufficient
                        /\ ~CriticalGateFailed(a.scores)]
  BY DEF ReviewsOf
<1>2. overall \in 0 .. MaxScore
  <2>1. PICK s : s = a.scores
    OBVIOUS
  <2>2. PICK D \in SUBSET Criteria : s \in [D -> 0 .. 5]
    BY <2>1, AnswerScores
  <2>3. overall \in WeightedOverall(s)
    BY <2>1
  <2> QED
    BY <2>2, <2>3, WeightedMean
<1>3. a.critical \in BOOLEAN
  BY AnswerScores
<1>4. /\ r.by = "claude" /\ r.score = overall /\ r.critical = a.critical
      /\ r.passed => overall >= PassThreshold /\ ~a.critical
      /\ r \in [by : {"claude", "heuristic"}, score : 0 .. MaxScore,
                critical : BOOLEAN, passed : BOOLEAN]
  BY <1>1, <1>2, <1>3
<1> QED
  BY <1>4 DEF AutoReviews

(* The offline score is at most 4.0; citations make it 3.0 or more, the     *)
(* least that does not force a revision.                                    *)
LEMMA HeuristicScores ==
    ASSUME NEW f \in Failures
    PROVE  LET r == HeuristicReview(f.text)
           IN  /\ r.by = "heuristic" /\ ~r.critical /\ ~r.passed
               /\ r \in AutoReviews
               /\ f.text.cites => r.score >= GrayThreshold
<1>1. PICK text : text = f.text
  OBVIOUS
<1>2. text.long \in BOOLEAN /\ text.cites \in BOOLEAN /\ text.piiWarnings \in 0 .. 2
  BY <1>1 DEF Failures
<1>3. PICK n : n = HeuristicQuarters(text)
  OBVIOUS
<1>4. n \in 9 .. 16 /\ (text.cites => n >= 12)
  BY <1>2, <1>3 DEF HeuristicQuarters
<1>5. PICK u : u = Unit \div 1000
  OBVIOUS
<1>6. u \in Nat \ {0} /\ Unit = 1000 * u
  BY <1>5, Thousandths
<1>7. PICK score : score = (n * Unit) \div 4
  OBVIOUS
<1>8. score = 250 * (n * u)
  <2>1. n * u \in Nat /\ n * Unit = 4 * (250 * (n * u))
    BY <1>4, <1>6
  <2>2. ASSUME NEW m \in Nat PROVE (4 * m) \div 4 = m
    OBVIOUS
  <2>3. 250 * (n * u) \in Nat
    BY <2>1
  <2> QED
    BY <1>7, <2>1, <2>2, <2>3
<1>9. score \in 0 .. MaxScore /\ (n >= 12 => score >= GrayThreshold)
  <2>1. u * 9 <= u * n /\ u * n <= u * 16 /\ u * n = n * u /\ n * u \in Nat
        /\ (n >= 12 => u * 12 <= u * n)
    BY <1>4, <1>6, Multiples
  <2> QED
    BY <1>6, <1>8, <2>1 DEF MaxScore, GrayThreshold
<1>10. HeuristicReview(text) =
          [by |-> "heuristic", score |-> score, critical |-> FALSE, passed |-> FALSE]
  BY <1>3, <1>7 DEF HeuristicReview
<1> QED
  BY <1>1, <1>4, <1>9, <1>10 DEF AutoReviews

-----------------------------------------------------------------------------
(* The inductive invariant: the review is what the answer makes of it, and  *)
(* the status what the review makes of that.                                *)

Explained ==
    \/ request.answer.kind = "answer" /\ review \in ReviewsOf(request.answer)
    \/ request.answer.kind = "refusal" /\ review = RefusalReview
    \/ request.answer.kind = "failure" /\ review = HeuristicReview(request.answer.text)

IInv ==
    /\ request \in Requests
    /\ review # NoReview => Explained
    /\ status # "auto_qc_pending" => review # NoReview /\ status = Route(review, request.sampled)

LEMMA Start == Init => IInv
BY DEF Init, IInv

LEMMA Step == IInv /\ [Next]_vars => IInv'
<1> SUFFICES ASSUME IInv, [Next]_vars PROVE IInv'
  OBVIOUS
<1>1. request.answer.kind \in {"answer", "refusal", "failure"}
  BY DEF IInv, Requests, Answers, Refusals, Failures
<1>2. CASE Review
  <2>1. Explained'
    BY <1>1, <1>2 DEF Review, Explained
  <2> QED
    BY <1>2, <2>1 DEF IInv, Review
<1>3. CASE RouteSubmission
  BY <1>3 DEF IInv, RouteSubmission, Explained
<1>4. CASE UNCHANGED vars
  BY <1>4 DEF IInv, vars, Explained
<1> QED
  BY <1>2, <1>3, <1>4 DEF Next

THEOREM GateInvariant == Spec => []IInv
BY Start, Step, PTL DEF Spec

(* What the request is, by its kind. *)
LEMMA Kinds ==
    ASSUME IInv
    PROVE  /\ request.sampled \in BOOLEAN
           /\ request.answer.kind = "answer" => request.answer \in Answers
           /\ request.answer.kind = "failure" => request.answer \in Failures
BY DEF IInv, Requests, Answers, Refusals, Failures

LEMMA ExpectedHere ==
    ASSUME IInv, review # NoReview PROVE review \in AutoReviews
<1>1. CASE request.answer.kind = "answer" /\ review \in ReviewsOf(request.answer)
  BY <1>1, Kinds, ReviewsExpected
<1>2. CASE review = RefusalReview
  BY <1>2, ThresholdsAssumption DEF RefusalReview, AutoReviews, MaxScore
<1>3. CASE request.answer.kind = "failure" /\ review = HeuristicReview(request.answer.text)
  BY <1>3, Kinds, HeuristicScores
<1> QED
  BY <1>1, <1>2, <1>3 DEF IInv, Explained

(***************************************************************************)
(* ReviewIsExpected: what gate 3 makes of any answer, refusal or failure   *)
(* is an automated review as Workflow and Sessions take it for granted.    *)
(***************************************************************************)
THEOREM ReviewsAreExpected == Spec => []ReviewIsExpected
<1>1. IInv => ReviewIsExpected
  BY ExpectedHere DEF ReviewIsExpected
<1> QED
  BY <1>1, GateInvariant, PTL

(***************************************************************************)
(* ApprovalIsEarned: an approval without a person comes from a clean       *)
(* answer on an unsampled submission, whose scored gate criteria are 3 or  *)
(* more and whose scores average 4.0 to three decimals.                    *)
(***************************************************************************)
THEOREM ApprovalsAreEarned == Spec => []ApprovalIsEarned
<1>1. ASSUME IInv, status = "approved" PROVE ApprovalIsEarned
  <2>1. review # NoReview /\ review \in AutoReviews /\ "approved" = Route(review, request.sampled)
    BY <1>1, ExpectedHere DEF IInv
  <2>2. review.passed /\ ~request.sampled
    <3>1. PICK sampled \in BOOLEAN : sampled = request.sampled
      BY <1>1, Kinds
    <3> QED
      BY <2>1, <3>1, RouteCases
  <2>3. request.answer.kind = "answer" /\ review \in ReviewsOf(request.answer)
    <3>1. review # RefusalReview
      BY <2>2 DEF RefusalReview
    <3>2. ~(request.answer.kind = "failure" /\ review = HeuristicReview(request.answer.text))
      BY <2>2 DEF HeuristicReview
    <3> QED
      BY <1>1, <2>1, <3>1, <3>2 DEF IInv, Explained
  <2>4. PICK a : a = request.answer
    OBVIOUS
  <2>5. a \in Answers /\ a.kind = "answer"
    BY <1>1, <2>3, <2>4, Kinds
  <2>6. PICK overall \in WeightedOverall(a.scores) :
          review = [by |-> "claude", score |-> overall, critical |-> a.critical,
                    passed |-> /\ overall >= PassThreshold
                               /\ ~a.critical
                               /\ ~a.insufficient
                               /\ ~CriticalGateFailed(a.scores)]
    BY <2>3, <2>4 DEF ReviewsOf
  <2>7. overall >= PassThreshold /\ ~a.critical /\ ~a.insufficient /\ ~CriticalGateFailed(a.scores)
    BY <2>2, <2>6
  <2>8. PICK D \in SUBSET Criteria : a.scores \in [D -> 0 .. 5]
    BY <2>5, AnswerScores
  <2>9. 1000 * Total([c \in D |-> Weight[c] * (a.scores[c] - 4)]) * 2
          >= -Total([c \in D |-> Weight[c]])
    <3>1. PICK s : s = a.scores
      OBVIOUS
    <3>2. s \in [D -> 0 .. 5] /\ overall \in WeightedOverall(s)
      BY <2>6, <2>8, <3>1
    <3>3. 1000 * Total([c \in D |-> Weight[c] * (s[c] - 4)]) * 2
            >= -Total([c \in D |-> Weight[c]])
      BY <2>7, <3>2, WeightedMean DEF MeansFour
    <3> QED
      BY <3>1, <3>3
  <2>10. DOMAIN a.scores = D
    BY <2>8
  <2>11. \A c \in D \cap Critical : a.scores[c] >= 3
    BY <2>7, <2>8, <2>10 DEF CriticalGateFailed
  <2> QED
    BY <2>2, <2>4, <2>5, <2>7, <2>9, <2>10, <2>11 DEF ApprovalIsEarned
<1>2. IInv => ApprovalIsEarned
  BY <1>1 DEF ApprovalIsEarned
<1> QED
  BY <1>2, GateInvariant, PTL

(***************************************************************************)
(* FallbackReachesPerson: a failure of the model approves nothing, and     *)
(* takes a content with citations to a person.                             *)
(***************************************************************************)
THEOREM FallbacksReachPerson == Spec => []FallbackReachesPerson
<1>1. ASSUME IInv, request.answer.kind = "failure", status # "auto_qc_pending"
      PROVE  FallbackReachesPerson
  <2>1. request.answer \in Failures /\ review = HeuristicReview(request.answer.text)
    BY <1>1, Kinds DEF IInv, Explained
  <2>2. status = Route(review, request.sampled)
    BY <1>1 DEF IInv
  <2>3. /\ review.by = "heuristic" /\ ~review.critical /\ ~review.passed
        /\ request.answer.text.cites => review.score >= GrayThreshold
        /\ review \in AutoReviews
    BY <2>1, HeuristicScores
  <2>4. status \in {"needs_revision", "human_review"}
    BY <2>2, <2>3 DEF Route
  <2>5. review.score >= GrayThreshold => status = "human_review"
    <3>1. review.score \in Int /\ GrayThreshold \in Int
      BY <2>3, ThresholdsAssumption DEF AutoReviews, GrayThreshold, MaxScore
    <3> QED
      BY <2>2, <2>3, <3>1 DEF Route
  <2> QED
    BY <2>3, <2>4, <2>5 DEF FallbackReachesPerson
<1>2. IInv => FallbackReachesPerson
  BY <1>1 DEF FallbackReachesPerson
<1> QED
  BY <1>2, GateInvariant, PTL
=============================================================================
