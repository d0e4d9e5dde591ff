--------------------------- MODULE ControlsProofs ---------------------------
(***************************************************************************)
(* What the operators of Controls return, for every value of the           *)
(* thresholds: facts that the proofs about Workflow, its Calibration and   *)
(* Sessions rest on.                                                       *)
(***************************************************************************)
EXTENDS Controls, TLAPS

-----------------------------------------------------------------------------
(* The arithmetic of the scores. *)

(* The scale has no gaps that the proofs below could fall into. *)
LEMMA UnitScale ==
    /\ MaxScore \in Nat /\ SuspendBelow \in Nat /\ InitialQuality \in Nat
    /\ SuspendBelow <= InitialQuality /\ InitialQuality <= MaxScore
    /\ Unit \in 0 .. MaxScore /\ 4*Unit \in 0 .. MaxScore
<1>1. (7*Unit) \div 2 \in Int /\ 2*Unit <= (7*Unit) \div 2 /\ (7*Unit) \div 2 <= 5*Unit
  <2> DEFINE n == 7*Unit
  <2>1. n \in Nat
    BY ThresholdsAssumption
  <2>2. ASSUME NEW m \in Nat PROVE m \div 2 \in Int /\ 2*(m \div 2) <= m /\ m <= 2*(m \div 2) + 1
    BY SMT
  <2>3. n \div 2 \in Int /\ 2*(n \div 2) <= n /\ n <= 2*(n \div 2) + 1
    BY <2>1, <2>2
  <2> QED
    BY <2>3, ThresholdsAssumption
<1> QED
  BY <1>1, ThresholdsAssumption DEF MaxScore, SuspendBelow, InitialQuality

(* The quotient by 20 of what the EWMA divides stays on the score scale. *)
LEMMA Quotient20 ==
    ASSUME NEW n \in Int, 0 <= n, n <= 20*MaxScore + 19
    PROVE  n \div 20 \in 0 .. MaxScore
<1>1. MaxScore \in Int
  BY UnitScale
<1> HIDE DEF MaxScore
<1>2. n \div 20 \in Int /\ n \div 20 >= 0 /\ n \div 20 <= MaxScore
  BY <1>1, SMT
<1> QED
  BY <1>1, <1>2

(* The quotient by 8 of what the gold penalty divides does too. *)
LEMMA Quotient8 ==
    ASSUME NEW n \in Int, 0 <= n, n <= 8*MaxScore + 7
    PROVE  n \div 8 \in 0 .. MaxScore
<1>1. MaxScore \in Int
  BY UnitScale
<1> HIDE DEF MaxScore
<1>2. n \div 8 \in Int /\ n \div 8 >= 0 /\ n \div 8 <= MaxScore
  BY <1>1, SMT
<1> QED
  BY <1>1, <1>2

(* The EWMA of two scores on the 0-5 scale stays on it. *)
LEMMA EwmaRange ==
    ASSUME NEW score \in 0 .. MaxScore, NEW old \in 0 .. MaxScore
    PROVE  RoundDiv(3*score + 7*old, 10) \subseteq 0 .. MaxScore
<1> DEFINE x == 3*score + 7*old
<1> DEFINE up == 2*x + 10
<1> DEFINE down == 2*x + 9
<1>1. x \in Int /\ 0 <= x /\ x <= 10*MaxScore
  BY UnitScale
<1>2. RoundDiv(x, 10) = {up \div 20, down \div 20}
  <2> HIDE DEF x
  <2> QED
    BY <1>1 DEF RoundDiv
<1>3. /\ up \in Int /\ 0 <= up /\ up <= 20*MaxScore + 19
      /\ down \in Int /\ 0 <= down /\ down <= 20*MaxScore + 19
  <2> HIDE DEF x
  <2> QED
    BY <1>1, UnitScale
<1> HIDE DEF up, down
<1>4. up \div 20 \in 0 .. MaxScore /\ down \div 20 \in 0 .. MaxScore
  BY <1>3, Quotient20
<1> HIDE DEF x
<1>5. RoundDiv(x, 10) \subseteq 0 .. MaxScore
  BY <1>2, <1>4
<1> QED
  BY <1>5 DEF x

(* The penalty for a missed gold task stays on the scale too. *)
LEMMA PenaltyRange ==
    ASSUME NEW old \in 0 .. MaxScore
    PROVE  RoundDiv(3*old, 4) \subseteq 0 .. MaxScore
<1> DEFINE x == 3*old
<1> DEFINE up == 2*x + 4
<1> DEFINE down == 2*x + 3
<1>1. x \in Int /\ 0 <= x /\ x <= 3*MaxScore
  BY UnitScale
<1>2. RoundDiv(x, 4) = {up \div 8, down \div 8}
  <2> HIDE DEF x
  <2> QED
    BY <1>1 DEF RoundDiv
<1>3. /\ up \in Int /\ 0 <= up /\ up <= 8*MaxScore + 7
      /\ down \in Int /\ 0 <= down /\ down <= 8*MaxScore + 7
  <2> HIDE DEF x
  <2> QED
    BY <1>1, UnitScale
<1> HIDE DEF up, down
<1>4. up \div 8 \in 0 .. MaxScore /\ down \div 8 \in 0 .. MaxScore
  BY <1>3, Quotient8
<1> HIDE DEF x
<1>5. RoundDiv(x, 4) \subseteq 0 .. MaxScore
  BY <1>2, <1>4
<1> QED
  BY <1>5 DEF x

-----------------------------------------------------------------------------
(* What the handlers may do to an expert's row. *)

(* A row whose contributor is not suspended may keep working. *)
InGoodStanding(row) ==
    row.status # "suspended" => row.quality >= SuspendBelow /\ row.goldFail < GoldSuspendFails

(* _maybe_suspend keeps the row's type and leaves nobody who is not
   suspended in bad standing. *)
LEMMA MaybeSuspendRow ==
    ASSUME NEW row \in ExpertRows
    PROVE  /\ MaybeSuspend(row) \in ExpertRows
           /\ MaybeSuspend(row).status \in {row.status, "suspended"}
           /\ MaybeSuspend(row).approved = row.approved
           /\ InGoodStanding(MaybeSuspend(row))
<1> USE DEF InGoodStanding
<1>1. CASE row.quality < SuspendBelow \/ row.goldFail >= GoldSuspendFails
  <2>1. MaybeSuspend(row) = [row EXCEPT !.status = "suspended"]
    BY <1>1 DEF MaybeSuspend
  <2>2. /\ [row EXCEPT !.status = "suspended"] \in ExpertRows
        /\ [row EXCEPT !.status = "suspended"].status = "suspended"
        /\ [row EXCEPT !.status = "suspended"].approved = row.approved
    BY DEF ExpertRows, ExpertStatuses
  <2> QED
    BY <2>1, <2>2
<1>2. CASE ~(row.quality < SuspendBelow \/ row.goldFail >= GoldSuspendFails)
  <2>1. MaybeSuspend(row) = row
    BY <1>2 DEF MaybeSuspend
  <2>2. row.quality \in Int /\ row.goldFail \in Int
    BY DEF ExpertRows
  <2> QED
    BY <1>2, <2>1, <2>2, ThresholdsAssumption, UnitScale
<1> QED
  BY <1>1, <1>2

(* update_quality_score gives rows of the table, in good standing. *)
LEMMA UpdateQualityScoreRow ==
    ASSUME NEW row \in ExpertRows, NEW score \in 0 .. MaxScore,
           NEW new \in UpdateQualityScore(row, score)
    PROVE  /\ new \in ExpertRows
           /\ new.status \in {row.status, "suspended"}
           /\ new.approved = row.approved
           /\ InGoodStanding(new)
<1>1. row.quality \in 0 .. MaxScore
  BY DEF ExpertRows
<1>2. PICK q \in RoundDiv(3*score + 7*row.quality, 10) :
          new = MaybeSuspend([row EXCEPT !.quality = q])
  BY DEF UpdateQualityScore
<1>3. q \in 0 .. MaxScore
  BY <1>1, <1>2, EwmaRange
<1>4. /\ [row EXCEPT !.quality = q] \in ExpertRows
      /\ [row EXCEPT !.quality = q].status = row.status
      /\ [row EXCEPT !.quality = q].approved = row.approved
  BY <1>3 DEF ExpertRows
<1> QED
  BY <1>2, <1>4, MaybeSuspendRow

(* register_gold_result gives rows of the table, in good standing. *)
LEMMA RegisterGoldResultRow ==
    ASSUME NEW row \in ExpertRows, NEW passed \in BOOLEAN,
           NEW new \in RegisterGoldResult(row, passed)
    PROVE  /\ new \in ExpertRows
           /\ new.status \in {row.status, "suspended"}
           /\ new.approved = row.approved
           /\ InGoodStanding(new)
<1>1. CASE passed
  <2>1. /\ [row EXCEPT !.goldPass = @ + 1] \in ExpertRows
        /\ [row EXCEPT !.goldPass = @ + 1].status = row.status
        /\ [row EXCEPT !.goldPass = @ + 1].approved = row.approved
    BY DEF ExpertRows
  <2>2. new = MaybeSuspend([row EXCEPT !.goldPass = @ + 1])
    BY <1>1 DEF RegisterGoldResult
  <2> QED
    BY <2>1, <2>2, MaybeSuspendRow
<1>2. CASE ~passed
  <2>1. PICK q \in RoundDiv(3*row.quality, 4) :
            new = MaybeSuspend([row EXCEPT !.goldFail = @ + 1, !.quality = q])
    BY <1>2 DEF RegisterGoldResult
  <2>2. q \in 0 .. MaxScore
    <3>1. row.quality \in 0 .. MaxScore
      BY DEF ExpertRows
    <3>2. RoundDiv(3*row.quality, 4) \subseteq 0 .. MaxScore
      BY <3>1, PenaltyRange, Zenon
    <3> QED
      BY <2>1, <3>2
  <2> DEFINE missed == [row EXCEPT !.goldFail = @ + 1, !.quality = q]
  <2>3. missed \in ExpertRows /\ missed.status = row.status /\ missed.approved = row.approved
    <3>1. row.goldFail + 1 \in Nat
      BY DEF ExpertRows
    <3>2. ASSUME NEW n \in Nat
          PROVE  /\ [row EXCEPT !.goldFail = n, !.quality = q] \in ExpertRows
                 /\ [row EXCEPT !.goldFail = n, !.quality = q].status = row.status
                 /\ [row EXCEPT !.goldFail = n, !.quality = q].approved = row.approved
      BY <2>2 DEF ExpertRows
    <3> QED
      BY <3>1, <3>2
  <2>4. new = MaybeSuspend(missed)
    BY <2>1
  <2> HIDE DEF missed
  <2> QED
    BY <2>3, <2>4, MaybeSuspendRow
<1> QED
  BY <1>1, <1>2

(* A new contributor starts in good standing. *)
LEMMA NewExpertRowStanding ==
    NewExpertRow \in ExpertRows /\ InGoodStanding(NewExpertRow)
BY ThresholdsAssumption, UnitScale DEF NewExpertRow, ExpertRows, ExpertStatuses, InGoodStanding

(* Gate 3 routes to one of three statuses, and approves only a pass of the
   model on an unsampled submission. *)
LEMMA RouteCases ==
    ASSUME NEW r \in AutoReviews, NEW sampled \in BOOLEAN
    PROVE  /\ Route(r, sampled) \in {"needs_revision", "human_review", "approved"}
           /\ Route(r, sampled) = "approved" => r.passed /\ r.by = "claude" /\ ~sampled
           /\ Route(r, sampled) = "human_review" /\ r.passed => sampled
BY DEF Route, AutoReviews

-----------------------------------------------------------------------------
(* Rounding. *)

(* Division with remainder by any positive number. *)
LEMMA Division ==
    ASSUME NEW x \in Nat, NEW d \in Nat \ {0}
    PROVE  /\ x \div d \in Nat
           /\ d * (x \div d) <= x
           /\ x < d * (x \div d) + d
BY SMT

(* Multiples of a positive number keep the order of the factors. *)
LEMMA Multiples ==
    ASSUME NEW n \in Nat, NEW p \in Nat, NEW q \in Nat, p <= q
    PROVE  n * p <= n * q
BY SMT

(* A rounded quotient is off by one half at most. *)
LEMMA RoundDivBounds ==
    ASSUME NEW x \in Nat, NEW d \in Nat \ {0}, NEW q \in RoundDiv(x, d)
    PROVE  /\ q \in Nat
           /\ 2 * (d * q) <= 2 * x + d
           /\ 2 * x <= 2 * (d * q) + d
<1> DEFINE y == 2*x + d
<1> DEFINE e == 2*d
<1>1. y \in Nat /\ y - 1 \in Nat /\ e \in Nat \ {0}
  OBVIOUS
<1>2. q = y \div e \/ q = (y - 1) \div e
  BY DEF RoundDiv
<1>3. q \in Nat /\ e * q <= y /\ y <= e * q + e
  <2> HIDE DEF y, e
  <2>1. y \div e \in Nat /\ e * (y \div e) <= y /\ y < e * (y \div e) + e
    BY <1>1, Division
  <2>2. /\ (y - 1) \div e \in Nat /\ e * ((y - 1) \div e) <= y - 1
        /\ y - 1 < e * ((y - 1) \div e) + e
    BY <1>1, Division
  <2>3. CASE q = y \div e
    <3>1. e * q \in Int /\ e * q = e * (y \div e)
      BY <1>1, <2>1, <2>3
    <3> QED
      BY <1>1, <2>1, <2>3, <3>1
  <2>4. CASE q = (y - 1) \div e
    <3>1. e * q \in Int /\ e * q = e * ((y - 1) \div e)
      BY <1>1, <2>2, <2>4
    <3> QED
      BY <1>1, <2>2, <2>4, <3>1
  <2> QED
    BY <1>2, <2>3, <2>4
<1>4. e * q = 2 * (d * q)
  BY <1>3
<1> QED
  BY <1>3, <1>4
=============================================================================
