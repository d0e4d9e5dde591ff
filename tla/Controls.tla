------------------------------ MODULE Controls ------------------------------
(***************************************************************************)
(* The control policies of factory/controls.py and the routing rule of     *)
(* gate 3 in factory/qc/engine.py, as operators over one expert's row and  *)
(* one automated review.                                                   *)
(*                                                                         *)
(* Scores are the code's floats counted in units: Unit = 10^4 of them make *)
(* 1.0, because the code rounds a quality score to four decimals.          *)
(***************************************************************************)
EXTENDS Integers

CONSTANTS
    Unit,               \* score units in 1.0
    GoldSuspendFails,   \* GOLD_SUSPEND_FAILS: missed gold tasks that suspend
    NewBelow,           \* approvals below which a contributor counts as new
    TrustedMin          \* settings.trusted_min_approved

ASSUME ThresholdsAssumption ==
    /\ Unit \in Nat \ {0}
    /\ GoldSuspendFails \in Nat \ {0}
    /\ NewBelow \in Nat
    /\ TrustedMin \in Nat

MaxScore == 5*Unit
InitialQuality == (7*Unit) \div 2    \* models.Expert.quality_score's default, 3.5
SuspendBelow == 2*Unit               \* SUSPEND_BELOW
PassThreshold == 4*Unit              \* settings.qc_pass_threshold
GrayThreshold == 3*Unit              \* settings.qc_gray_threshold
TrustedScore == (42*Unit) \div 10    \* settings.trusted_score, 4.2

ExpertStatuses == {"absent", "pending", "qualified", "suspended"}

(* A row of the experts table; "absent" is an id no row has yet. *)
ExpertRows ==
    [status : ExpertStatuses, quality : 0 .. MaxScore,
     approved : Nat, goldPass : Nat, goldFail : Nat]

NewExpertRow ==
    [status |-> "pending", quality |-> InitialQuality,
     approved |-> 0, goldPass |-> 0, goldFail |-> 0]

(***************************************************************************)
(* Python's round(x/d) of a non-negative quotient.  On a tie the binary    *)
(* representation of the float decides, so both neighbours are possible.   *)
(***************************************************************************)
RoundDiv(x, d) == {(2*x + d) \div (2*d), (2*x + d - 1) \div (2*d)}

(* Faulty variant: a suspension rule that forgets the gold misses. *)
MaybeSuspend_ScoreOnly(row) ==
    IF row.quality < SuspendBelow THEN [row EXCEPT !.status = "suspended"] ELSE row

MaybeSuspend(row) ==
    IF row.quality < SuspendBelow \/ row.goldFail >= GoldSuspendFails
    THEN [row EXCEPT !.status = "suspended"]
    ELSE row

(* Faulty variant: the old score keeps its full weight. *)
UpdateQualityScore_NotWeighted(row, score) ==
    {MaybeSuspend([row EXCEPT !.quality = q]) : q \in RoundDiv(3*score + 10*row.quality, 10)}

(* The rows update_quality_score may leave: an EWMA with weight 0.3. *)
UpdateQualityScore(row, score) ==
    {MaybeSuspend([row EXCEPT !.quality = q]) : q \in RoundDiv(3*score + 7*row.quality, 10)}

(* The rows register_gold_result may leave: a miss multiplies by 0.75. *)
RegisterGoldResult(row, passed) ==
    IF passed
    THEN {MaybeSuspend([row EXCEPT !.goldPass = @ + 1])}
    ELSE {MaybeSuspend([row EXCEPT !.goldFail = @ + 1, !.quality = q]) :
              q \in RoundDiv(3*row.quality, 4)}

(***************************************************************************)
(* Sampling.  The hash of a submission id falls into bucket 0 ([0,0.10)),  *)
(* 1 ([0.10,0.35)), 2 ([0.35,1)) or 3 (exactly 1: the hash prefix is       *)
(* FFFFFFFF, which the code divides by 0xFFFFFFFF and not by 2^32).  A     *)
(* tier's rate covers the buckets below its rank.                          *)
(***************************************************************************)
Buckets == 0 .. 3

(* Faulty variant: nobody is in the new tier. *)
SamplingRank_NoNewTier(row) ==
    IF row.quality >= TrustedScore /\ row.approved >= TrustedMin THEN 1 ELSE 2

SamplingRank(row) ==
    IF row.approved < NewBelow THEN 3
    ELSE IF row.quality >= TrustedScore /\ row.approved >= TrustedMin THEN 1
    ELSE 2

IsSampled(bucket, row) == bucket < SamplingRank(row)

(***************************************************************************)
(* What gate 3 knows of an automated review: who gave it, the weighted     *)
(* score, whether a critical flag is among its flags, and its own verdict. *)
(* The heuristic never passes and raises only OFFLINE_FALLBACK; a pass     *)
(* from the model needs the threshold and no critical flag.                *)
(***************************************************************************)
AutoReviews ==
    {r \in [by : {"claude", "heuristic"}, score : 0 .. MaxScore,
            critical : BOOLEAN, passed : BOOLEAN] :
        /\ r.passed => r.by = "claude" /\ ~r.critical /\ r.score >= PassThreshold
        /\ r.by = "heuristic" => ~r.critical}

(* Faulty variant: the verdict is not asked, only the flags and sampling. *)
Route_IgnoresVerdict(r, sampled) ==
    CASE r.critical \/ r.score < GrayThreshold -> "needs_revision"
      [] ~(r.critical \/ r.score < GrayThreshold) /\ sampled -> "human_review"
      [] OTHER -> "approved"

(* The status gate 3 gives the submission. *)
Route(r, sampled) ==
    LET blocked == r.critical \/ r.score < GrayThreshold
        undecided == r.by = "heuristic" \/ sampled \/ ~r.passed
    IN  CASE blocked -> "needs_revision"
          [] ~blocked /\ undecided -> "human_review"
          [] OTHER -> "approved"
=============================================================================
