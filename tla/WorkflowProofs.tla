--------------------------- MODULE WorkflowProofs ---------------------------
(***************************************************************************)
(* Theorems about Workflow and, in the last part, about the Calibration    *)
(* report over its submissions, for every value of the constants.          *)
(***************************************************************************)
EXTENDS Calibration, ControlsProofs, FiniteSetTheorems

-----------------------------------------------------------------------------
(* What the handlers may do to an expert's row. *)

(* An exam leaves the scores alone; it neither lifts nor causes a suspension. *)
LEMMA AfterExamRow ==
    ASSUME NEW row \in ExpertRows
    PROVE  /\ AfterExam(row) \in ExpertRows
           /\ AfterExam(row).quality = row.quality
           /\ AfterExam(row).goldFail = row.goldFail
           /\ AfterExam(row).status = "suspended" <=> row.status = "suspended"
BY DEF AfterExam, ExpertRows, ExpertStatuses

(* The score a human review counts is on the scale, given or default. *)
LEMMA DefaultScores ==
    ASSUME NEW scores \in OptionalScores
    PROVE  ScoreOr(scores, 4*Unit) \in 0 .. MaxScore /\ ScoreOr(scores, Unit) \in 0 .. MaxScore
BY UnitScale, WorkflowAssumption DEF ScoreOr, OptionalScores

(* Every id in use numbers a well-typed row of the submissions. *)
LEMMA SubmissionRow ==
    ASSUME TypeOK, NEW i \in DOMAIN subs
    PROVE  /\ i \in 1 .. Len(subs) /\ i \in Nat
           /\ subs[i] \in SubRows
           /\ subs[i].author \in Experts /\ subs[i].task \in Tasks /\ subs[i].version \in Nat
<1>1. subs \in Seq(SubRows) /\ Len(subs) \in Nat /\ DOMAIN subs = 1 .. Len(subs)
  BY DEF TypeOK
<1>2. i \in 1 .. Len(subs) /\ subs[i] \in SubRows
  BY <1>1
<1> QED
  BY <1>1, <1>2 DEF SubRows

(* The next version is a natural number. *)
LEMMA VersionsAreNumbers ==
    ASSUME TypeOK, NEW t \in Tasks, NEW e \in Experts
    PROVE  NextVersions(t, e) \subseteq Nat
<1>1. PriorVersions(t, e) \subseteq Nat
  BY SubmissionRow DEF PriorVersions
<1>2. \A v \in Nat : v + 1 \in Nat
  OBVIOUS
<1> QED
  BY <1>1, <1>2 DEF NextVersions

(* What Approve leaves alone and what it may do to the author's row. *)
LEMMA ApproveRows ==
    ASSUME TypeOK, NEW i \in Nat, NEW t \in Tasks, NEW e \in Experts,
           NEW score \in 0 .. MaxScore, Approve(i, t, e, score)
    PROVE  /\ \E row \in ExpertRows : /\ expert' = [expert EXCEPT ![e] = row]
                                      /\ row.status \in {expert[e].status, "suspended"}
                                      /\ InGoodStanding(row)
           /\ task' \in [Tasks -> TaskRows]
           /\ usage' \in [Tasks -> Seq(Nat)]
<1> DEFINE counted == [expert[e] EXCEPT !.approved = @ + 1]
<1>1. counted \in ExpertRows /\ counted.status = expert[e].status
  <2>1. expert[e] \in ExpertRows
    BY DEF TypeOK
  <2>2. ASSUME NEW row \in ExpertRows
        PROVE  /\ [row EXCEPT !.approved = @ + 1] \in ExpertRows
               /\ [row EXCEPT !.approved = @ + 1].status = row.status
    BY DEF ExpertRows
  <2> QED
    BY <2>1, <2>2
<1>2. PICK row \in UpdateQualityScore(counted, score) : expert' = [expert EXCEPT ![e] = row]
  BY DEF Approve
<1>3. row \in ExpertRows /\ row.status \in {counted.status, "suspended"} /\ InGoodStanding(row)
  <2> HIDE DEF counted
  <2> QED
    BY <1>1, <1>2, UpdateQualityScoreRow
<1>4. task' \in [Tasks -> TaskRows]
  BY DEF TypeOK, TaskRows, Approve
<1>5. usage' \in [Tasks -> Seq(Nat)]
  BY DEF TypeOK, Approve, RecordApprovedRecord
<1> QED
  BY <1>1, <1>2, <1>3, <1>4, <1>5

-----------------------------------------------------------------------------
(* The rows of experts. *)

(* Every step leaves each expert's row well-formed, never lifts a           *)
(* suspension, and keeps unsuspended rows in good standing.                 *)
RowsKept ==
    \E e \in Experts, row \in ExpertRows :
        /\ expert' = [expert EXCEPT ![e] = row]
        /\ expert[e].status = "suspended" => row.status = "suspended"
        /\ InGoodStanding(expert[e]) => InGoodStanding(row)

(* A step leaves a contributor's row alone or replaces it by a row of the
   table that keeps good standing and any suspension. *)
LEMMA ExpertStep ==
    ASSUME TypeOK, Next
    PROVE  UNCHANGED expert \/ RowsKept
<1>1. ASSUME NEW e \in Experts, CreateExpert(e) PROVE RowsKept
  BY <1>1, NewExpertRowStanding DEF CreateExpert, RowsKept, TypeOK
<1>2. ASSUME NEW e \in Experts, NEW k \in Tracks, NEW passed \in BOOLEAN, RecordExam(e, k, passed)
      PROVE  UNCHANGED expert \/ RowsKept
  <2>1. expert[e] \in ExpertRows
    BY DEF TypeOK
  <2>2. CASE passed
    <3>1. expert' = [expert EXCEPT ![e] = AfterExam(expert[e])]
      BY <1>2, <2>2 DEF RecordExam
    <3>2. InGoodStanding(expert[e]) => InGoodStanding(AfterExam(expert[e]))
      BY <2>1, AfterExamRow DEF InGoodStanding
    <3> QED
      BY <2>1, <3>1, <3>2, AfterExamRow DEF RowsKept
  <2>3. CASE ~passed
    BY <1>2, <2>3 DEF RecordExam
  <2> QED
    BY <2>2, <2>3
<1>3. ASSUME NEW t \in Tasks, CreateTask(t) PROVE UNCHANGED expert
  BY <1>3 DEF CreateTask
<1>4. ASSUME NEW t \in Tasks, NEW e \in Experts, AssignTask(t, e) PROVE UNCHANGED expert
  BY <1>4 DEF AssignTask
<1>5. ASSUME NEW e \in Experts, NEW t \in Tasks, NEW c \in Contents, NEW ok \in BOOLEAN,
             SubmitFailsChecks(e, t, c, ok)
      PROVE  UNCHANGED expert
  BY <1>5 DEF SubmitFailsChecks
<1>6. ASSUME NEW e \in Experts, NEW t \in Tasks, NEW c \in Contents, NEW ok \in BOOLEAN,
             SubmitGold(e, t, c, ok)
      PROVE  RowsKept
  <2>1. expert[e] \in ExpertRows
    BY DEF TypeOK
  <2>2. PICK row \in RegisterGoldResult(expert[e], ok) : expert' = [expert EXCEPT ![e] = row]
    BY <1>6 DEF SubmitGold
  <2>3. /\ row \in ExpertRows /\ row.status \in {expert[e].status, "suspended"}
        /\ InGoodStanding(row)
    BY <2>1, <2>2, RegisterGoldResultRow
  <2> QED
    BY <2>2, <2>3 DEF RowsKept
<1>7. ASSUME NEW e \in Experts, NEW t \in Tasks, NEW c \in Contents, NEW b \in Buckets,
             NEW r \in AutoResults, SubmitReviewed(e, t, c, b, r)
      PROVE  UNCHANGED expert \/ RowsKept
  <2>1. r.score \in 0 .. MaxScore
    BY WorkflowAssumption DEF AutoReviews
  <2>2. Len(subs) + 1 \in Nat
    BY DEF TypeOK
  <2>3. UNCHANGED expert \/ Approve(Len(subs) + 1, t, e, r.score)
    BY <1>7 DEF SubmitReviewed
  <2> QED
    BY <2>1, <2>2, <2>3, ApproveRows DEF RowsKept
<1>8. ASSUME NEW i \in DOMAIN subs, NEW v \in Experts, NEW verdict \in {"pass", "revise", "fail"},
             NEW scores \in OptionalScores, HumanReview(i, v, verdict, scores)
      PROVE  UNCHANGED expert \/ RowsKept
  <2> DEFINE e == subs[i].author
  <2>1. /\ e \in Experts /\ subs[i].task \in Tasks /\ i \in Nat
        /\ expert[e] \in ExpertRows
    BY SubmissionRow DEF TypeOK
  <2>2. CASE verdict = "pass"
    <3>1. Approve(i, subs[i].task, e, ScoreOr(scores, 4*Unit))
      BY <1>8, <2>2 DEF HumanReview
    <3> QED
      BY <2>1, <3>1, DefaultScores, ApproveRows DEF RowsKept
  <2>3. CASE verdict = "revise"
    BY <1>8, <2>3 DEF HumanReview
  <2>4. CASE verdict = "fail"
    <3>1. PICK row \in UpdateQualityScore(expert[e], ScoreOr(scores, Unit)) :
              expert' = [expert EXCEPT ![e] = row]
      BY <1>8, <2>4 DEF HumanReview
    <3> HIDE DEF e
    <3> QED
      BY <2>1, <3>1, DefaultScores, UpdateQualityScoreRow DEF RowsKept
  <2> QED
    BY <2>2, <2>3, <2>4
<1> QED
  BY <1>1, <1>2, <1>3, <1>4, <1>5, <1>6, <1>7, <1>8 DEF Next

-----------------------------------------------------------------------------
(* The rows of submissions, and what is billed for them. *)

(* No person has seen the row; if it waits for one, a model's pass was       *)
(* sampled.                                                                  *)
Unseen(row) ==
    /\ \A r \in row.reviews : r.kind # "human"
    /\ row.status = "human_review" =>
         /\ \E r \in row.reviews : r.kind = "auto_llm"
         /\ (\E r \in row.reviews : r.kind = "auto_llm" /\ r.verdict = "pass") => row.sampled

(* A step creates the submission row. *)
Submitted(row) ==
    /\ Len(subs) < MaxSubs
    /\ subs' = Append(subs, row)
    /\ row.status # "auto_check_failed" =>
           row.content \notin ProjectFingerprints(ProjectOf[row.task])
    /\ Vouched(row) /\ Unseen(row)
    /\ usage' = IF row.status = "approved" THEN RecordApprovedRecord(row.task, Len(subs) + 1)
                ELSE usage

HumanRecord(v, verdict) == [kind |-> "human", by |-> v, verdict |-> verdict]

(* A step records a human verdict on submission i. *)
ReviewedBy(i, v, verdict) ==
    /\ subs[i].status = "human_review"
    /\ v # subs[i].author /\ v \in Reviewers
    /\ subs' = [subs EXCEPT ![i].status = VerdictStatus(verdict),
                            ![i].reviews = @ \cup {HumanRecord(v, verdict)}]
    /\ usage' = IF verdict = "pass" THEN RecordApprovedRecord(subs[i].task, i) ELSE usage

Verdicts == {"pass", "revise", "fail"}

SubmissionStep ==
    \/ UNCHANGED <<subs, usage>>
    \/ \E row \in SubRows : Submitted(row)
    \/ \E i \in DOMAIN subs, v \in Experts, verdict \in Verdicts : ReviewedBy(i, v, verdict)

(* A step leaves the submissions alone, appends one, or records a person's
   verdict on one that waits. *)
LEMMA SubsStep ==
    ASSUME TypeOK, Next
    PROVE  SubmissionStep
<1> USE DEF SubmissionStep
<1>1. ASSUME NEW e \in Experts, CreateExpert(e) PROVE UNCHANGED <<subs, usage>>
  BY <1>1 DEF CreateExpert
<1>2. ASSUME NEW e \in Experts, NEW k \in Tracks, NEW passed \in BOOLEAN, RecordExam(e, k, passed)
      PROVE  UNCHANGED <<subs, usage>>
  BY <1>2 DEF RecordExam
<1>3. ASSUME NEW t \in Tasks, CreateTask(t) PROVE UNCHANGED <<subs, usage>>
  BY <1>3 DEF CreateTask
<1>4. ASSUME NEW t \in Tasks, NEW e \in Experts, AssignTask(t, e) PROVE UNCHANGED <<subs, usage>>
  BY <1>4 DEF AssignTask
<1>5. ASSUME NEW e \in Experts, NEW t \in Tasks, NEW c \in Contents, NEW ok \in BOOLEAN,
             SubmitFailsChecks(e, t, c, ok)
      PROVE  \E row \in SubRows : Submitted(row)
  <2>1. PICK n \in NextVersions(t, e) :
            subs' = Append(subs,
                [task |-> t, author |-> e, version |-> n, content |-> c, sampled |-> FALSE,
                 unsampleable |-> FALSE, status |-> "auto_check_failed", reviews |-> {}])
    BY <1>5 DEF SubmitFailsChecks, AddSubmission
  <2> DEFINE row == [task |-> t, author |-> e, version |-> n, content |-> c, sampled |-> FALSE,
                     unsampleable |-> FALSE, status |-> "auto_check_failed", reviews |-> {}]
  <2>2. row \in SubRows
    BY <2>1, VersionsAreNumbers DEF SubRows, SubStatuses
  <2>3. Submitted(row)
    BY <1>5, <2>1 DEF Submitted, SubmitFailsChecks, MaySubmit, Vouched, Unseen
  <2> QED
    BY <2>2, <2>3
<1>6. ASSUME NEW e \in Experts, NEW t \in Tasks, NEW c \in Contents, NEW ok \in BOOLEAN,
             SubmitGold(e, t, c, ok)
      PROVE  \E row \in SubRows : Submitted(row)
  <2> DEFINE st == IF ok THEN "approved" ELSE "rejected"
  <2> DEFINE rv == [kind |-> "gold_check", by |-> "qc-engine", verdict |-> IF ok THEN "pass" ELSE "fail"]
  <2>1. PICK n \in NextVersions(t, e) :
            subs' = Append(subs,
                [task |-> t, author |-> e, version |-> n, content |-> c, sampled |-> FALSE,
                 unsampleable |-> FALSE, status |-> st, reviews |-> {rv}])
    BY <1>6 DEF SubmitGold, AddSubmission
  <2>2. /\ st \in SubStatuses /\ rv \in Reviews
        /\ st # "human_review" /\ rv.kind = "gold_check"
    BY DEF SubStatuses, Reviews
  <2> HIDE DEF st, rv
  <2> DEFINE row == [task |-> t, author |-> e, version |-> n, content |-> c, sampled |-> FALSE,
                     unsampleable |-> FALSE, status |-> st, reviews |-> {rv}]
  <2>3. row \in SubRows
    BY <2>1, <2>2, VersionsAreNumbers DEF SubRows
  <2>4. Submitted(row)
    BY <1>6, <2>1, <2>2
    DEF Submitted, SubmitGold, PassesChecks, FailsChecks, MaySubmit, Vouched, Unseen, RecordApprovedRecord
  <2> QED
    BY <2>3, <2>4
<1>7. ASSUME NEW e \in Experts, NEW t \in Tasks, NEW c \in Contents, NEW b \in Buckets,
             NEW r \in AutoResults, SubmitReviewed(e, t, c, b, r)
      PROVE  \E row \in SubRows : Submitted(row)
  <2> DEFINE sampled == IsSampled(b, expert[e])
  <2> DEFINE st == Route(r, sampled)
  <2> DEFINE top == b = 3
  <2> DEFINE rv == [kind |-> "auto_llm", by |-> r.by, verdict |-> IF r.passed THEN "pass" ELSE "revise"]
  <2>1. PICK n \in NextVersions(t, e) :
            subs' = Append(subs,
                [task |-> t, author |-> e, version |-> n, content |-> c, sampled |-> sampled,
                 unsampleable |-> top, status |-> st, reviews |-> {rv}])
    BY <1>7 DEF SubmitReviewed, AddSubmission
  <2>2. r \in AutoReviews /\ sampled \in BOOLEAN /\ top \in BOOLEAN
    BY WorkflowAssumption DEF IsSampled
  <2>3. /\ st \in SubStatuses
        /\ st = "approved" => r.passed /\ r.by = "claude" /\ ~sampled
        /\ st = "human_review" /\ r.passed => sampled
    BY <2>2, RouteCases DEF SubStatuses
  <2>4. rv \in Reviews
    BY <2>2 DEF Reviews, AutoReviews
  <2>5. rv.kind = "auto_llm" /\ rv.by = r.by /\ (r.passed <=> rv.verdict = "pass")
    BY <2>2 DEF AutoReviews
  <2>6. usage' = IF st = "approved" THEN RecordApprovedRecord(t, Len(subs) + 1) ELSE usage
    BY <1>7 DEF SubmitReviewed, Approve
  <2>7. Len(subs) < MaxSubs /\ c \notin ProjectFingerprints(ProjectOf[t])
    BY <1>7 DEF SubmitReviewed, PassesChecks, FailsChecks, MaySubmit
  <2> HIDE DEF st, rv, sampled, top
  <2> DEFINE row == [task |-> t, author |-> e, version |-> n, content |-> c, sampled |-> sampled,
                     unsampleable |-> top, status |-> st, reviews |-> {rv}]
  <2>8. row \in SubRows
    BY <2>1, <2>2, <2>3, <2>4, VersionsAreNumbers DEF SubRows
  <2>9. Vouched(row) /\ Unseen(row)
    BY <2>3, <2>5 DEF Vouched, PassedByModel, Unseen
  <2>10. Submitted(row)
    BY <2>1, <2>6, <2>7, <2>9 DEF Submitted
  <2> QED
    BY <2>8, <2>10
<1>8. ASSUME NEW i \in DOMAIN subs, NEW v \in Experts, NEW verdict \in Verdicts,
             NEW scores \in OptionalScores, HumanReview(i, v, verdict, scores)
      PROVE  ReviewedBy(i, v, verdict)
  <2>1. /\ subs[i].status = "human_review"
        /\ v # subs[i].author /\ v \in Reviewers
        /\ subs' = [subs EXCEPT ![i].status = VerdictStatus(verdict),
                                ![i].reviews = @ \cup {HumanRecord(v, verdict)}]
    BY <1>8 DEF HumanReview, AwaitsReview, AssertReviewerIndependent, HumanRecord
  <2>2. usage' = IF verdict = "pass" THEN RecordApprovedRecord(subs[i].task, i) ELSE usage
    BY <1>8 DEF HumanReview, Approve, Verdicts
  <2> QED
    BY <2>1, <2>2 DEF ReviewedBy
<1> QED
  BY <1>1, <1>2, <1>3, <1>4, <1>5, <1>6, <1>7, <1>8 DEF Next, Verdicts

(* A submission with another status and one more review. *)
Judged(s, st, rv) == [s EXCEPT !.status = st, !.reviews = @ \cup {rv}]

(* A judged row is a row of the submissions table. *)
LEMMA JudgedRow ==
    ASSUME NEW s \in SubRows, NEW st \in SubStatuses, NEW rv \in Reviews
    PROVE  /\ Judged(s, st, rv) \in SubRows
           /\ Judged(s, st, rv).status = st
           /\ Judged(s, st, rv).reviews = s.reviews \cup {rv}
           /\ Judged(s, st, rv).task = s.task /\ Judged(s, st, rv).author = s.author
           /\ Judged(s, st, rv).content = s.content /\ Judged(s, st, rv).sampled = s.sampled
BY DEF Judged, SubRows

(* A human verdict changes the status and the reviews of one row.           *)
LEMMA ReviewedRow ==
    ASSUME TypeOK, NEW i \in DOMAIN subs, NEW v \in Experts, NEW verdict \in Verdicts,
           ReviewedBy(i, v, verdict)
    PROVE  /\ subs' \in Seq(SubRows) /\ Len(subs') = Len(subs) /\ DOMAIN subs' = DOMAIN subs
           /\ \A j \in DOMAIN subs : j # i => subs'[j] = subs[j]
           /\ subs'[i].status = VerdictStatus(verdict)
           /\ subs'[i].reviews = subs[i].reviews \cup {HumanRecord(v, verdict)}
           /\ subs'[i].task = subs[i].task /\ subs'[i].author = subs[i].author
           /\ subs'[i].content = subs[i].content /\ subs'[i].sampled = subs[i].sampled
<1> DEFINE new == Judged(subs[i], VerdictStatus(verdict), HumanRecord(v, verdict))
<1>1. subs \in Seq(SubRows) /\ subs[i] \in SubRows
  BY SubmissionRow DEF TypeOK
<1>2. VerdictStatus(verdict) \in SubStatuses
  BY DEF VerdictStatus, Verdicts, SubStatuses
<1>3. HumanRecord(v, verdict) \in Reviews
  BY DEF HumanRecord, Reviews, Verdicts
<1>4. /\ new \in SubRows
      /\ new.status = VerdictStatus(verdict)
      /\ new.reviews = subs[i].reviews \cup {HumanRecord(v, verdict)}
      /\ new.task = subs[i].task /\ new.author = subs[i].author
      /\ new.content = subs[i].content /\ new.sampled = subs[i].sampled
  BY <1>1, <1>2, <1>3, JudgedRow
<1>5. subs' = [subs EXCEPT ![i] = new]
  BY DEF ReviewedBy, Judged
<1> HIDE DEF new
<1> QED
  BY <1>1, <1>4, <1>5

(* Metering keeps the type of the usage table. *)
LEMMA MeteringTyped ==
    ASSUME TypeOK, NEW t \in Tasks, NEW i \in Nat
    PROVE  RecordApprovedRecord(t, i) \in [Tasks -> Seq(Nat)]
<1>1. usage \in [Tasks -> Seq(Nat)] /\ Append(usage[t], i) \in Seq(Nat)
  BY DEF TypeOK
<1> QED
  BY <1>1 DEF RecordApprovedRecord

(* Every step keeps the types. *)
LEMMA TypeStep == TypeOK /\ [Next]_vars => TypeOK'
<1> SUFFICES ASSUME TypeOK, [Next]_vars PROVE TypeOK'
  OBVIOUS
<1>1. CASE UNCHANGED vars
  BY <1>1 DEF TypeOK, vars
<1>2. CASE Next
  <2>1. (expert \in [Experts -> ExpertRows])'
    BY <1>2, ExpertStep DEF TypeOK, RowsKept
  <2>2. (subs \in Seq(SubRows) /\ Len(subs) <= MaxSubs /\ usage \in [Tasks -> Seq(Nat)])'
    <3>1. CASE UNCHANGED <<subs, usage>>
      BY <3>1 DEF TypeOK
    <3>2. ASSUME NEW row \in SubRows, Submitted(row)
          PROVE  (subs \in Seq(SubRows) /\ Len(subs) <= MaxSubs /\ usage \in [Tasks -> Seq(Nat)])'
      <4>1. Len(subs) + 1 \in Nat /\ row.task \in Tasks
        BY DEF TypeOK, SubRows
      <4>2. usage' \in [Tasks -> Seq(Nat)]
        BY <3>2, <4>1, MeteringTyped DEF Submitted, TypeOK
      <4>3. subs' \in Seq(SubRows) /\ Len(subs') <= MaxSubs
        BY <3>2, WorkflowAssumption DEF Submitted, TypeOK
      <4> QED
        BY <4>2, <4>3
    <3>3. ASSUME NEW i \in DOMAIN subs, NEW v \in Experts, NEW verdict \in Verdicts,
                 ReviewedBy(i, v, verdict)
          PROVE  (subs \in Seq(SubRows) /\ Len(subs) <= MaxSubs /\ usage \in [Tasks -> Seq(Nat)])'
      <4>1. usage' \in [Tasks -> Seq(Nat)]
        BY <3>3, MeteringTyped, SubmissionRow DEF ReviewedBy, TypeOK
      <4>2. subs' \in Seq(SubRows) /\ Len(subs') <= MaxSubs
        BY <3>3, ReviewedRow DEF TypeOK
      <4> QED
        BY <4>1, <4>2
    <3> QED
      BY <1>2, <3>1, <3>2, <3>3, SubsStep DEF SubmissionStep
  <2>3. (exams \in [Experts -> [Tracks -> Nat]])'
    <3>1. UNCHANGED exams \/ \E e \in Experts, k \in Tracks : exams' = [exams EXCEPT ![e][k] = @ + 1]
      <4>1. ASSUME NEW e \in Experts, NEW k \in Tracks, NEW passed \in BOOLEAN,
                   RecordExam(e, k, passed)
            PROVE  UNCHANGED exams \/ exams' = [exams EXCEPT ![e][k] = @ + 1]
        BY <4>1 DEF RecordExam
      <4>2. \A e \in Experts : CreateExpert(e) => UNCHANGED exams
        BY DEF CreateExpert
      <4>3. \A t \in Tasks : CreateTask(t) => UNCHANGED exams
        BY DEF CreateTask
      <4>4. \A t \in Tasks, e \in Experts : AssignTask(t, e) => UNCHANGED exams
        BY DEF AssignTask
      <4>5. \A e \in Experts, t \in Tasks, c \in Contents, ok \in BOOLEAN :
              SubmitFailsChecks(e, t, c, ok) \/ SubmitGold(e, t, c, ok) => UNCHANGED exams
        BY DEF SubmitFailsChecks, SubmitGold
      <4>6. \A e \in Experts, t \in Tasks, c \in Contents, b \in Buckets, r \in AutoResults :
              SubmitReviewed(e, t, c, b, r) => UNCHANGED exams
        BY DEF SubmitReviewed
      <4>7. \A i \in DOMAIN subs, v \in Experts, verdict \in {"pass", "revise", "fail"},
               scores \in OptionalScores : HumanReview(i, v, verdict, scores) => UNCHANGED exams
        BY DEF HumanReview
      <4> QED
        BY <1>2, <4>1, <4>2, <4>3, <4>4, <4>5, <4>6, <4>7 DEF Next
    <3>2. CASE UNCHANGED exams
      BY <3>2 DEF TypeOK
    <3>3. ASSUME NEW e \in Experts, NEW k \in Tracks, exams' = [exams EXCEPT ![e][k] = @ + 1]
          PROVE  exams' \in [Experts -> [Tracks -> Nat]]
      <4>1. exams[e] \in [Tracks -> Nat] /\ exams[e][k] + 1 \in Nat
        BY DEF TypeOK
      <4>2. [exams[e] EXCEPT ![k] = @ + 1] \in [Tracks -> Nat]
        BY <4>1
      <4>3. exams' = [exams EXCEPT ![e] = [exams[e] EXCEPT ![k] = @ + 1]]
        BY <3>3
      <4> QED
        BY <4>2, <4>3 DEF TypeOK
    <3> QED
      BY <3>1, <3>2, <3>3
  <2>4. (task \in [Tasks -> TaskRows])'
    <3>1. ASSUME NEW t \in Tasks, CreateTask(t) PROVE task' \in [Tasks -> TaskRows]
      BY <3>1 DEF CreateTask, TypeOK, TaskRows
    <3>2. ASSUME NEW t \in Tasks, NEW e \in Experts, AssignTask(t, e)
          PROVE  task' \in [Tasks -> TaskRows]
      BY <3>2 DEF AssignTask, TypeOK, TaskRows
    <3>3. ASSUME NEW t \in Tasks, task' = [task EXCEPT ![t].status = "completed"]
          PROVE  task' \in [Tasks -> TaskRows]
      BY <3>3 DEF TypeOK, TaskRows
    <3>4. ASSUME NEW e \in Experts, NEW t \in Tasks, NEW c \in Contents, NEW b \in Buckets,
                 NEW r \in AutoResults, SubmitReviewed(e, t, c, b, r)
          PROVE  task' \in [Tasks -> TaskRows]
      <4>1. UNCHANGED task \/ task' = [task EXCEPT ![t].status = "completed"]
        BY <3>4 DEF SubmitReviewed, Approve
      <4> QED
        BY <3>3, <4>1 DEF TypeOK
    <3>5. ASSUME NEW i \in DOMAIN subs, NEW v \in Experts, NEW verdict \in Verdicts,
                 NEW scores \in OptionalScores, HumanReview(i, v, verdict, scores)
          PROVE  task' \in [Tasks -> TaskRows]
      <4>1. UNCHANGED task \/ task' = [task EXCEPT ![subs[i].task].status = "completed"]
        BY <3>5 DEF HumanReview, Approve, Verdicts
      <4>2. subs[i].task \in Tasks
        BY SubmissionRow
      <4> QED
        BY <3>3, <4>1, <4>2 DEF TypeOK
    <3>6. CASE UNCHANGED task
      BY <3>6 DEF TypeOK
    <3>7. ASSUME NEW e \in Experts, NEW t \in Tasks, NEW c \in Contents, NEW ok \in BOOLEAN,
                 SubmitGold(e, t, c, ok)
          PROVE  task' \in [Tasks -> TaskRows]
      BY <3>3, <3>7 DEF SubmitGold
    <3>8. ASSUME NEW e \in Experts, CreateExpert(e) PROVE UNCHANGED task
      BY <3>8 DEF CreateExpert
    <3>9. ASSUME NEW e \in Experts, NEW k \in Tracks, NEW passed \in BOOLEAN,
                 RecordExam(e, k, passed)
          PROVE  UNCHANGED task
      BY <3>9 DEF RecordExam
    <3>10. ASSUME NEW e \in Experts, NEW t \in Tasks, NEW c \in Contents, NEW ok \in BOOLEAN,
                  SubmitFailsChecks(e, t, c, ok)
           PROVE  UNCHANGED task
      BY <3>10 DEF SubmitFailsChecks
    <3> QED
      BY <1>2, <3>1, <3>2, <3>4, <3>5, <3>6, <3>7, <3>8, <3>9, <3>10 DEF Next, Verdicts
  <2> QED
    BY <2>1, <2>2, <2>3, <2>4 DEF TypeOK
<1> QED
  BY <1>1, <1>2 DEF vars

(* The first state has the types. *)
LEMMA TypeInit == Init => TypeOK
<1> SUFFICES ASSUME Init PROVE TypeOK
  OBVIOUS
<1>1. [NewExpertRow EXCEPT !.status = "absent"] \in ExpertRows
  BY NewExpertRowStanding DEF ExpertRows, ExpertStatuses
<1>2. subs \in Seq(SubRows) /\ Len(subs) <= MaxSubs
  BY WorkflowAssumption DEF Init
<1>3. task \in [Tasks -> TaskRows]
  BY DEF Init, TaskRows
<1>4. usage \in [Tasks -> Seq(Nat)] /\ exams \in [Experts -> [Tracks -> Nat]]
  BY DEF Init
<1>5. expert \in [Experts -> ExpertRows]
  BY <1>1 DEF Init
<1> QED
  BY <1>2, <1>3, <1>4, <1>5 DEF TypeOK

(* Every table keeps its types, and scores stay between 0 and 5.            *)
THEOREM TypeCorrect == Spec => []TypeOK
<1> QED
  BY TypeInit, TypeStep, PTL DEF Spec

-----------------------------------------------------------------------------
(* Contributors. *)

AllInGoodStanding == \A e \in Experts : InGoodStanding(expert[e])

(* C4, C5: nobody who may work has a score below 2.0 or as many missed gold *)
(* tasks as suspend.  Inductive for every row that is not suspended.        *)
THEOREM GoodStanding == Spec => []QualifiedInGoodStanding
<1>1. Init => AllInGoodStanding
  <2>1. InGoodStanding([NewExpertRow EXCEPT !.status = "absent"])
    BY NewExpertRowStanding DEF InGoodStanding, NewExpertRow
  <2> QED
    BY <2>1 DEF Init, AllInGoodStanding
<1>2. TypeOK /\ AllInGoodStanding /\ [Next]_vars => AllInGoodStanding'
  <2> SUFFICES ASSUME TypeOK, AllInGoodStanding, [Next]_vars PROVE AllInGoodStanding'
    OBVIOUS
  <2>1. CASE UNCHANGED expert
    BY <2>1 DEF AllInGoodStanding, InGoodStanding
  <2>2. CASE RowsKept
    <3>1. PICK e \in Experts, row \in ExpertRows :
              /\ expert' = [expert EXCEPT ![e] = row]
              /\ InGoodStanding(expert[e]) => InGoodStanding(row)
      BY <2>2 DEF RowsKept
    <3>2. ASSUME NEW x \in Experts PROVE InGoodStanding(expert'[x])
      <4>1. expert'[x] = IF x = e THEN row ELSE expert[x]
        BY <3>1 DEF TypeOK
      <4> QED
        BY <3>1, <4>1 DEF AllInGoodStanding
    <3> QED
      BY <3>2 DEF AllInGoodStanding, InGoodStanding
  <2> QED
    BY <2>1, <2>2, ExpertStep DEF vars
<1>3. AllInGoodStanding => QualifiedInGoodStanding
  BY DEF AllInGoodStanding, InGoodStanding, QualifiedInGoodStanding
<1> QED
  BY <1>1, <1>2, <1>3, TypeCorrect, PTL DEF Spec

(* No handler lifts a suspension. *)
THEOREM SuspensionNeverLifted == Spec => SuspensionIsFinal
<1> DEFINE Kept == \A e \in Experts : expert[e].status = "suspended" => expert'[e].status = "suspended"
<1>1. TypeOK /\ [Next]_vars => [Kept]_vars
  <2> SUFFICES ASSUME TypeOK, Next PROVE Kept
    OBVIOUS
  <2>1. CASE UNCHANGED expert
    BY <2>1
  <2>2. CASE RowsKept
    BY <2>2 DEF RowsKept, TypeOK
  <2> QED
    BY <2>1, <2>2, ExpertStep
<1> QED
  BY <1>1, TypeCorrect, PTL DEF Spec, SuspensionIsFinal

-----------------------------------------------------------------------------
(* Submissions. *)

(* What appending a row does to the sequence of submissions. *)
LEMMA SubmittedRow ==
    ASSUME TypeOK, NEW row \in SubRows, Submitted(row)
    PROVE  /\ Len(subs) \in Nat /\ DOMAIN subs = 1 .. Len(subs)
           /\ DOMAIN subs' = 1 .. (Len(subs) + 1) /\ Len(subs') = Len(subs) + 1
           /\ \A j \in DOMAIN subs : subs'[j] = subs[j]
           /\ subs'[Len(subs) + 1] = row
BY DEF Submitted, TypeOK

(* C2, C3: the evidence behind every approved record of the dataset. *)
THEOREM ApprovalsVouched == Spec => []ApprovedIsVouched
<1>1. Init => ApprovedIsVouched
  BY DEF Init, ApprovedIsVouched
<1>2. TypeOK /\ ApprovedIsVouched /\ [Next]_vars => ApprovedIsVouched'
  <2> SUFFICES ASSUME TypeOK, ApprovedIsVouched, [Next]_vars,
                      NEW j \in DOMAIN subs'
               PROVE  Vouched(subs'[j])
    BY DEF ApprovedIsVouched, Vouched, PassedByHuman, PassedByModel
  <2>1. CASE UNCHANGED subs
    BY <2>1 DEF ApprovedIsVouched
  <2>2. ASSUME NEW row \in SubRows, Submitted(row) PROVE Vouched(subs'[j])
    <3>1. Vouched(row)
      BY <2>2 DEF Submitted
    <3>2. j \in DOMAIN subs \/ j = Len(subs) + 1
      BY <2>2, SubmittedRow
    <3> QED
      BY <2>2, <3>1, <3>2, SubmittedRow DEF ApprovedIsVouched
  <2>3. ASSUME NEW i \in DOMAIN subs, NEW v \in Experts, NEW verdict \in Verdicts,
               ReviewedBy(i, v, verdict)
        PROVE  Vouched(subs'[j])
    <3>1. CASE j # i
      BY <2>3, <3>1, ReviewedRow DEF ApprovedIsVouched
    <3>2. CASE j = i
      <4>1. subs'[i].status = "approved" => verdict = "pass"
        BY <2>3, ReviewedRow DEF VerdictStatus, Verdicts
      <4>2. /\ HumanRecord(v, verdict) \in subs'[i].reviews
            /\ HumanRecord(v, verdict).kind = "human" /\ HumanRecord(v, verdict).by = v
            /\ HumanRecord(v, verdict).verdict = verdict
        BY <2>3, ReviewedRow DEF HumanRecord
      <4>3. v \in Reviewers /\ v # subs'[i].author
        BY <2>3, ReviewedRow DEF ReviewedBy
      <4> QED
        BY <3>2, <4>1, <4>2, <4>3 DEF Vouched, PassedByHuman
    <3> QED
      BY <3>1, <3>2
  <2> QED
    BY <2>1, <2>2, <2>3, SubsStep DEF SubmissionStep, vars
<1> QED
  BY <1>1, <1>2, TypeCorrect, PTL DEF Spec

(* Gate 1: a content gets past the checks of a project at most once. *)
THEOREM ContentOnce == Spec => []ContentAdvancesOnce
<1>1. Init => ContentAdvancesOnce
  BY DEF Init, ContentAdvancesOnce
<1>2. TypeOK /\ ContentAdvancesOnce /\ [Next]_vars => ContentAdvancesOnce'
  <2> SUFFICES ASSUME TypeOK, ContentAdvancesOnce, [Next]_vars,
                      NEW k \in DOMAIN subs', NEW j \in DOMAIN subs', k < j,
                      ProjectOf[subs'[k].task] = ProjectOf[subs'[j].task],
                      subs'[k].content = subs'[j].content
               PROVE  subs'[j].status = "auto_check_failed"
    BY DEF ContentAdvancesOnce
  <2>1. CASE UNCHANGED subs
    BY <2>1 DEF ContentAdvancesOnce
  <2>2. ASSUME NEW row \in SubRows, Submitted(row)
        PROVE  subs'[j].status = "auto_check_failed"
    <3>1. CASE j \in DOMAIN subs
      <4>1. k \in DOMAIN subs
        BY <2>2, <3>1, SubmittedRow
      <4> QED
        BY <2>2, <3>1, <4>1, SubmittedRow DEF ContentAdvancesOnce
    <3>2. CASE j = Len(subs) + 1
      <4>1. k \in DOMAIN subs /\ subs'[k] = subs[k] /\ subs'[j] = row
        BY <2>2, <3>2, SubmittedRow
      <4>2. row.content \in ProjectFingerprints(ProjectOf[row.task])
        BY <4>1 DEF ProjectFingerprints
      <4> QED
        BY <2>2, <4>1, <4>2 DEF Submitted
    <3> QED
      BY <2>2, <3>1, <3>2, SubmittedRow
  <2>3. ASSUME NEW i \in DOMAIN subs, NEW v \in Experts, NEW verdict \in Verdicts,
               ReviewedBy(i, v, verdict)
        PROVE  subs'[j].status = "auto_check_failed"
    <3>1. k \in DOMAIN subs /\ j \in DOMAIN subs
      BY <2>3, ReviewedRow
    <3>2. \A n \in DOMAIN subs : /\ subs'[n].task = subs[n].task
                                 /\ subs'[n].content = subs[n].content
      BY <2>3, ReviewedRow
    <3>3. subs[j].status = "auto_check_failed"
      BY <3>1, <3>2 DEF ContentAdvancesOnce
    <3>4. j # i
      BY <2>3, <3>3 DEF ReviewedBy
    <3> QED
      BY <2>3, <3>1, <3>3, <3>4, ReviewedRow
  <2> QED
    BY <2>1, <2>2, <2>3, SubsStep DEF SubmissionStep, vars
<1> QED
  BY <1>1, <1>2, TypeCorrect, PTL DEF Spec

-----------------------------------------------------------------------------
(* Metering. *)

(* One more approval on task t, offered to metering.                        *)
LEMMA ApprovalMetered ==
    ASSUME TypeOK, MeteredOnce, NEW t \in Tasks, NEW i \in Nat,
           usage' = RecordApprovedRecord(t, i),
           ApprovedOn(t)' = ApprovedOn(t) \cup {i},
           \A u \in Tasks : u # t => ApprovedOn(u)' = ApprovedOn(u)
    PROVE  MeteredOnce'
<1> SUFFICES ASSUME NEW u \in Tasks
             PROVE  /\ Len(usage'[u]) = IF u \notin GoldTasks /\ ApprovedOn(u)' # {} THEN 1 ELSE 0
                    /\ \A n \in DOMAIN usage'[u] : usage'[u][n] \in ApprovedOn(u)'
  BY DEF MeteredOnce
<1>1. /\ usage \in [Tasks -> Seq(Nat)] /\ usage[t] \in Seq(Nat) /\ usage[u] \in Seq(Nat)
      /\ Len(usage[u]) = IF u \notin GoldTasks /\ ApprovedOn(u) # {} THEN 1 ELSE 0
      /\ \A n \in DOMAIN usage[u] : usage[u][n] \in ApprovedOn(u)
  BY DEF TypeOK, MeteredOnce
<1>2. CASE u # t
  <2>1. usage'[u] = usage[u]
    BY <1>1, <1>2 DEF RecordApprovedRecord
  <2> QED
    BY <1>1, <1>2, <2>1
<1>3. CASE u = t /\ t \in GoldTasks
  <2>1. usage'[u] = usage[u]
    BY <1>1, <1>3 DEF RecordApprovedRecord
  <2> QED
    BY <1>1, <1>3, <2>1
<1>4. CASE u = t /\ t \notin GoldTasks /\ usage[t] # <<>>
  <2>1. usage'[u] = usage[u]
    BY <1>1, <1>4 DEF RecordApprovedRecord
  <2>2. Len(usage[u]) # 0
    BY <1>1, <1>4
  <2>3. Len(usage[u]) = 1
    BY <1>1, <2>2
  <2> QED
    BY <1>1, <1>4, <2>1, <2>3
<1>5. CASE u = t /\ t \notin GoldTasks /\ usage[t] = <<>>
  <2>1. usage'[u] = <<i>>
    BY <1>1, <1>5 DEF RecordApprovedRecord
  <2> QED
    BY <1>5, <2>1
<1> QED
  BY <1>2, <1>3, <1>4, <1>5

(* Nothing approved, nothing billed. *)
LEMMA NothingMetered ==
    ASSUME MeteredOnce, usage' = usage, \A u \in Tasks : ApprovedOn(u)' = ApprovedOn(u)
    PROVE  MeteredOnce'
BY DEF MeteredOnce

(* A task of the dataset is billed once, exactly when it has an approved    *)
(* submission, and for one that is approved.                                *)
THEOREM BilledOnce == Spec => []MeteredOnce
<1>1. Init => MeteredOnce
  BY DEF Init, MeteredOnce, ApprovedOn
<1>2. TypeOK /\ MeteredOnce /\ [Next]_vars => MeteredOnce'
  <2> SUFFICES ASSUME TypeOK, MeteredOnce, [Next]_vars PROVE MeteredOnce'
    OBVIOUS
  <2>1. CASE UNCHANGED <<subs, usage>>
    BY <2>1, NothingMetered DEF ApprovedOn
  <2>2. ASSUME NEW row \in SubRows, Submitted(row) PROVE MeteredOnce'
    <3> DEFINE new == Len(subs) + 1
    <3>1. /\ row.task \in Tasks /\ new \in Nat
          /\ DOMAIN subs' = DOMAIN subs \cup {new} /\ new \notin DOMAIN subs
          /\ subs'[new] = row
          /\ \A j \in DOMAIN subs : subs'[j] = subs[j]
      <4>1. row.task \in Tasks
        BY DEF SubRows
      <4>2. /\ Len(subs) \in Nat /\ DOMAIN subs = 1 .. Len(subs)
            /\ DOMAIN subs' = 1 .. new /\ subs'[new] = row
            /\ \A j \in DOMAIN subs : subs'[j] = subs[j]
        BY <2>2, SubmittedRow
      <4> QED
        BY <4>1, <4>2
    <3> HIDE DEF new
    <3>2. \A u \in Tasks : ApprovedOn(u)' =
              ApprovedOn(u) \cup {j \in {new} : row.task = u /\ row.status = "approved"}
      <4>1. ASSUME NEW u \in Tasks, NEW j
            PROVE  j \in ApprovedOn(u)' <=>
                     \/ j \in ApprovedOn(u)
                     \/ j = new /\ row.task = u /\ row.status = "approved"
        BY <3>1 DEF ApprovedOn
      <4> QED
        BY <4>1
    <3>3. CASE row.status = "approved"
      <4>1. usage' = RecordApprovedRecord(row.task, new)
        BY <2>2, <3>3 DEF Submitted, new
      <4>2. /\ ApprovedOn(row.task)' = ApprovedOn(row.task) \cup {new}
            /\ \A u \in Tasks : u # row.task => ApprovedOn(u)' = ApprovedOn(u)
        BY <3>1, <3>2, <3>3
      <4> QED
        BY <3>1, <4>1, <4>2, ApprovalMetered
    <3>4. CASE row.status # "approved"
      <4>1. usage' = usage
        BY <2>2, <3>4 DEF Submitted
      <4>2. \A u \in Tasks : ApprovedOn(u)' = ApprovedOn(u)
        BY <3>2, <3>4
      <4> QED
        BY <4>1, <4>2, NothingMetered
    <3> QED
      BY <3>3, <3>4
  <2>3. ASSUME NEW i \in DOMAIN subs, NEW v \in Experts, NEW verdict \in Verdicts,
               ReviewedBy(i, v, verdict)
        PROVE  MeteredOnce'
    <3>1. i \in Nat /\ subs[i].task \in Tasks
      BY SubmissionRow
    <3>2. PICK t \in Tasks : t = subs[i].task
      BY <3>1
    <3>3. /\ DOMAIN subs' = DOMAIN subs
          /\ \A j \in DOMAIN subs : j # i => subs'[j] = subs[j]
          /\ subs'[i].task = t /\ subs'[i].status = VerdictStatus(verdict)
      BY <2>3, <3>2, ReviewedRow
    <3>4. subs[i].status = "human_review" /\ i \in DOMAIN subs
      BY <2>3 DEF ReviewedBy
    <3>5. CASE verdict = "pass"
      <4>1. VerdictStatus(verdict) = "approved"
        BY <3>5 DEF VerdictStatus
      <4>2. ASSUME NEW u \in Tasks, NEW j
            PROVE  j \in ApprovedOn(u)' <=> j \in ApprovedOn(u) \/ (j = i /\ u = t)
        <5>1. CASE j = i
          BY <3>3, <3>4, <3>2, <4>1, <5>1 DEF ApprovedOn
        <5>2. CASE j # i
          BY <3>3, <5>2 DEF ApprovedOn
        <5> QED
          BY <5>1, <5>2
      <4>3. /\ ApprovedOn(t)' = ApprovedOn(t) \cup {i}
            /\ \A u \in Tasks : u # t => ApprovedOn(u)' = ApprovedOn(u)
        BY <4>2
      <4>4. usage' = RecordApprovedRecord(t, i)
        BY <2>3, <3>5, <3>2 DEF ReviewedBy
      <4> QED
        BY <3>1, <4>3, <4>4, ApprovalMetered
    <3>6. CASE verdict # "pass"
      <4>1. VerdictStatus(verdict) # "approved"
        BY <3>6 DEF VerdictStatus, Verdicts
      <4>2. \A u \in Tasks : ApprovedOn(u)' = ApprovedOn(u)
        BY <3>3, <3>4, <3>2, <4>1 DEF ApprovedOn
      <4>3. usage' = usage
        BY <2>3, <3>6 DEF ReviewedBy
      <4> QED
        BY <4>2, <4>3, NothingMetered
    <3> QED
      BY <3>5, <3>6
  <2> QED
    BY <2>1, <2>2, <2>3, SubsStep DEF SubmissionStep, vars
<1> QED
  BY <1>1, <1>2, TypeCorrect, PTL DEF Spec

-----------------------------------------------------------------------------
(* The abstract lifecycle. *)

Phase == [i \in 1 .. MaxSubs |-> IF i \in DOMAIN subs THEN subs[i].status ELSE "none"]

(* The workflow implements the lifecycle the engine's docstring draws.      *)
THEOREM ImplementsLifecycle == Spec => RefinesLifecycle
<1>1. Init => Lifecycle!Init
  BY DEF Init, Lifecycle!Init
<1>2. TypeOK /\ [Next]_vars => [Lifecycle!Next]_Phase
  <2> SUFFICES ASSUME TypeOK, [Next]_vars PROVE Lifecycle!Next \/ UNCHANGED Phase
    OBVIOUS
  <2>1. CASE UNCHANGED subs
    BY <2>1 DEF Phase
  <2>2. ASSUME NEW row \in SubRows, Submitted(row) PROVE Lifecycle!Next
    <3> DEFINE new == Len(subs) + 1
    <3>1. new \in 1 .. MaxSubs
      BY <2>2, WorkflowAssumption, SubmittedRow DEF Submitted
    <3>2. /\ DOMAIN subs' = DOMAIN subs \cup {new} /\ new \notin DOMAIN subs
          /\ subs'[new] = row
          /\ \A j \in DOMAIN subs : subs'[j] = subs[j]
      BY <2>2, SubmittedRow
    <3>3. row.status \in Lifecycle!Phases \ {"none"} /\ row.status \in Lifecycle!Phases
      BY DEF SubRows, SubStatuses, Lifecycle!Phases, Lifecycle!Decided
    <3> HIDE DEF new
    <3>4. Lifecycle!Gate(new, row.status)
      BY <3>1, <3>2, <3>3 DEF Lifecycle!Gate
    <3> QED
      BY <3>1, <3>3, <3>4 DEF Lifecycle!Next
  <2>3. ASSUME NEW i \in DOMAIN subs, NEW v \in Experts, NEW verdict \in Verdicts,
               ReviewedBy(i, v, verdict)
        PROVE  Lifecycle!Next
    <3>1. i \in 1 .. MaxSubs
      BY SubmissionRow, WorkflowAssumption DEF TypeOK
    <3>2. /\ DOMAIN subs' = DOMAIN subs
          /\ \A j \in DOMAIN subs : j # i => subs'[j] = subs[j]
          /\ subs'[i].status = VerdictStatus(verdict)
      BY <2>3, ReviewedRow
    <3>3. VerdictStatus(verdict) \in Lifecycle!Decided
      BY DEF VerdictStatus, Verdicts, Lifecycle!Decided
    <3>4. subs[i].status = "human_review"
      BY <2>3 DEF ReviewedBy
    <3>5. Lifecycle!Decide(i, VerdictStatus(verdict))
      BY <3>1, <3>2, <3>3, <3>4 DEF Lifecycle!Decide
    <3> QED
      BY <3>1, <3>3, <3>5 DEF Lifecycle!Next, Lifecycle!Phases
  <2> QED
    BY <2>1, <2>2, <2>3, SubsStep DEF SubmissionStep, vars
<1> QED
  BY <1>1, <1>2, TypeCorrect, PTL DEF Spec, RefinesLifecycle, Lifecycle!Spec, Phase

-----------------------------------------------------------------------------
(* Trust. *)

Checked(s) == PassedByHuman(s) \/ s.unsampleable
CheckedBy(e) == {i \in ApprovedBy(e) : Checked(subs[i])}

(* Who has a submission has a row, and no gold task waits for a person.     *)
KnownWork ==
    \A i \in DOMAIN subs :
        /\ expert[subs[i].author].status # "absent"
        /\ subs[i].status = "human_review" => subs[i].task \notin GoldTasks

(* The counter that sets the sampling rate counts the approved records, and *)
(* by the first of them that no person has passed it had reached NewBelow.  *)
Trusted(e) ==
    /\ Cardinality(ApprovedBy(e)) = expert[e].approved
    /\ ApprovedBy(e) # CheckedBy(e) => Cardinality(CheckedBy(e)) >= NewBelow

Trust == KnownWork /\ \A e \in Experts : Trusted(e)

(* One approval more. *)
LEMMA OneMore ==
    ASSUME NEW A, IsFiniteSet(A), NEW C \in SUBSET A, NEW i, i \notin A,
           NEW D, D = C \/ D = C \cup {i},
           A # C => Cardinality(C) >= NewBelow, D = C => Cardinality(A) >= NewBelow
    PROVE  /\ Cardinality(A \cup {i}) = Cardinality(A) + 1
           /\ A \cup {i} # D => Cardinality(D) >= NewBelow
<1>1. Cardinality(A \cup {i}) = Cardinality(A) + 1
  BY FS_AddElement
<1>2. CASE D = C
  BY <1>1, <1>2
<1>3. CASE D = C \cup {i} /\ A # C
  <2>1. IsFiniteSet(C) /\ i \notin C
    BY FS_Subset
  <2>2. Cardinality(D) = Cardinality(C) + 1 /\ Cardinality(C) \in Nat
    BY <1>3, <2>1, FS_AddElement, FS_CardinalityType
  <2> QED
    BY <1>1, <1>3, <2>2, ThresholdsAssumption
<1>4. CASE D = C \cup {i} /\ A = C
  BY <1>1, <1>4
<1> QED
  BY <1>2, <1>3, <1>4

LEMMA ApprovedFinite ==
    ASSUME TypeOK, NEW e \in Experts
    PROVE  IsFiniteSet(ApprovedBy(e)) /\ ApprovedBy(e) \subseteq DOMAIN subs
<1>1. IsFiniteSet(1 .. Len(subs)) /\ DOMAIN subs = 1 .. Len(subs) /\ Len(subs) \in Nat
  BY FS_Interval DEF TypeOK
<1>2. ApprovedBy(e) \subseteq DOMAIN subs
  BY DEF ApprovedBy
<1> QED
  BY <1>1, <1>2, FS_Subset

(* Expert e has n approved records from now on, and whoever has a row keeps *)
(* it.                                                                      *)
RowChange(e, n) ==
    \E row \in ExpertRows :
        /\ expert' = [expert EXCEPT ![e] = row]
        /\ row.approved = n
        /\ row.status = "absent" => expert[e].status = "absent"

LEMMA NoChange ==
    ASSUME TypeOK, NEW e \in Experts, UNCHANGED expert
    PROVE  RowChange(e, expert[e].approved)
<1>1. expert[e] \in ExpertRows /\ expert' = [expert EXCEPT ![e] = expert[e]]
  BY DEF TypeOK
<1> QED
  BY <1>1 DEF RowChange

LEMMA ChangedRow ==
    ASSUME TypeOK, NEW e \in Experts, NEW n, RowChange(e, n)
    PROVE  /\ expert'[e].approved = n
           /\ \A x \in Experts : x # e => expert'[x] = expert[x]
           /\ \A x \in Experts : expert'[x].status = "absent" => expert[x].status = "absent"
<1>1. PICK row \in ExpertRows : /\ expert' = [expert EXCEPT ![e] = row]
                                /\ row.approved = n
                                /\ row.status = "absent" => expert[e].status = "absent"
  BY DEF RowChange
<1>2. DOMAIN expert = Experts
  BY DEF TypeOK
<1>3. expert'[e] = row /\ \A x \in Experts : x # e => expert'[x] = expert[x]
  BY <1>1, <1>2
<1> QED
  BY <1>1, <1>3

(* A submission of somebody who may work: what gate 3 approves at once is   *)
(* counted, and beyond the sampling of newcomers.                           *)
NewWork(row) ==
    LET e == row.author
        counted == row.status = "approved" /\ row.task \notin GoldTasks
    IN  /\ expert[e].status # "absent"
        /\ row.status = "human_review" => row.task \notin GoldTasks
        /\ counted => row.unsampleable \/ expert[e].approved >= NewBelow
        /\ RowChange(e, IF counted THEN expert[e].approved + 1 ELSE expert[e].approved)

Judgement(i, verdict) ==
    LET e == subs[i].author
    IN  RowChange(e, IF verdict = "pass" THEN expert[e].approved + 1 ELSE expert[e].approved)

TrustStep ==
    \/ /\ UNCHANGED subs
       /\ \/ UNCHANGED expert
          \/ \E e \in Experts :
                RowChange(e, IF expert[e].status = "absent" THEN 0 ELSE expert[e].approved)
    \/ \E row \in SubRows : Submitted(row) /\ NewWork(row)
    \/ \E i \in DOMAIN subs, v \in Experts, verdict \in Verdicts :
          ReviewedBy(i, v, verdict) /\ Judgement(i, verdict)

(* The row a submission appends is the one it has submitted. *)
LEMMA WhichRow ==
    ASSUME TypeOK, Next, NEW row, subs' = Append(subs, row)
    PROVE  row \in SubRows /\ Submitted(row)
<1>1. Len(subs) \in Nat /\ subs \in Seq(SubRows) /\ DOMAIN subs = 1 .. Len(subs)
  BY DEF TypeOK
<1>2. /\ Len(subs') = Len(subs) + 1 /\ subs'[Len(subs) + 1] = row
  <2>1. PICK S : S = SubRows \cup {row}
    OBVIOUS
  <2>2. subs \in Seq(S) /\ row \in S
    BY <1>1, <2>1
  <2>3. Append(subs, row) \in Seq(S) /\ Len(Append(subs, row)) = Len(subs) + 1
        /\ Append(subs, row)[Len(subs) + 1] = row
    BY <1>1, <2>2
  <2> QED
    BY <2>3
<1>3. Len(subs') # Len(subs)
  <2>1. PICK n, m : n = Len(subs) /\ m = Len(subs')
    OBVIOUS
  <2>2. n \in Nat /\ m = n + 1
    BY <1>1, <1>2, <2>1
  <2>3. m # n
    BY <2>2
  <2> QED
    BY <2>1, <2>3
<1>4. PICK new \in SubRows : Submitted(new)
  <2>1. SubmissionStep
    BY SubsStep
  <2>2. subs' # subs
    BY <1>3
  <2> QED
    BY <1>3, <2>1, <2>2, ReviewedRow DEF SubmissionStep
<1>5. new = row
  BY <1>2, <1>4, SubmittedRow
<1> QED
  BY <1>4, <1>5

LEMMA Approving ==
    ASSUME TypeOK, NEW i \in Nat, NEW t \in Tasks, NEW e \in Experts,
           NEW score \in 0 .. MaxScore, Approve(i, t, e, score)
    PROVE  RowChange(e, expert[e].approved + 1)
<1>1. PICK counted : counted = [expert[e] EXCEPT !.approved = @ + 1]
  OBVIOUS
<1>2. /\ counted \in ExpertRows /\ counted.status = expert[e].status
      /\ counted.approved = expert[e].approved + 1
  <2>1. expert[e] \in ExpertRows
    BY DEF TypeOK
  <2>2. ASSUME NEW row \in ExpertRows
        PROVE  /\ [row EXCEPT !.approved = @ + 1] \in ExpertRows
               /\ [row EXCEPT !.approved = @ + 1].status = row.status
               /\ [row EXCEPT !.approved = @ + 1].approved = row.approved + 1
    BY DEF ExpertRows
  <2> QED
    BY <1>1, <2>1, <2>2
<1>3. PICK row \in UpdateQualityScore(counted, score) : expert' = [expert EXCEPT ![e] = row]
  BY <1>1 DEF Approve
<1>4. /\ row \in ExpertRows /\ row.status \in {counted.status, "suspended"}
      /\ row.approved = counted.approved
  BY <1>2, <1>3, UpdateQualityScoreRow
<1> QED
  BY <1>2, <1>3, <1>4 DEF RowChange

LEMMA Trusting == ASSUME TypeOK, Next PROVE TrustStep
<1>1. ASSUME NEW e \in Experts, CreateExpert(e) PROVE TrustStep
  <2>1. expert[e].status = "absent" /\ expert' = [expert EXCEPT ![e] = NewExpertRow] /\ UNCHANGED subs
    BY <1>1 DEF CreateExpert
  <2>2. NewExpertRow \in ExpertRows /\ NewExpertRow.approved = 0
    BY NewExpertRowStanding DEF NewExpertRow
  <2> QED
    BY <2>1, <2>2 DEF TrustStep, RowChange
<1>2. ASSUME NEW e \in Experts, NEW k \in Tracks, NEW passed \in BOOLEAN, RecordExam(e, k, passed)
      PROVE  TrustStep
  <2>1. expert[e] \in ExpertRows /\ expert[e].status # "absent" /\ UNCHANGED subs
    BY <1>2 DEF TypeOK, RecordExam
  <2>2. CASE passed
    <3>1. expert' = [expert EXCEPT ![e] = AfterExam(expert[e])]
      BY <1>2, <2>2 DEF RecordExam
    <3>2. ASSUME NEW row \in ExpertRows, row.status # "absent"
          PROVE  AfterExam(row).approved = row.approved /\ AfterExam(row).status # "absent"
      BY <3>2 DEF AfterExam, ExpertRows
    <3>3. RowChange(e, expert[e].approved)
      BY <2>1, <3>1, <3>2, AfterExamRow DEF RowChange
    <3> QED
      BY <2>1, <3>3 DEF TrustStep
  <2>3. CASE ~passed
    BY <1>2, <2>3 DEF RecordExam, TrustStep
  <2> QED
    BY <2>2, <2>3
<1>3. ASSUME NEW t \in Tasks, CreateTask(t) PROVE TrustStep
  BY <1>3 DEF CreateTask, TrustStep
<1>4. ASSUME NEW t \in Tasks, NEW e \in Experts, AssignTask(t, e) PROVE TrustStep
  BY <1>4 DEF AssignTask, TrustStep
<1>5. ASSUME NEW e \in Experts, NEW t \in Tasks, NEW c \in Contents, NEW ok \in BOOLEAN,
             SubmitFailsChecks(e, t, c, ok)
      PROVE  TrustStep
  <2>1. PICK n \in NextVersions(t, e) :
            subs' = Append(subs,
                [task |-> t, author |-> e, version |-> n, content |-> c, sampled |-> FALSE,
                 unsampleable |-> FALSE, status |-> "auto_check_failed", reviews |-> {}])
    BY <1>5 DEF SubmitFailsChecks, AddSubmission
  <2>2. PICK row : /\ subs' = Append(subs, row)
                   /\ row.task = t /\ row.author = e /\ row.status = "auto_check_failed"
    BY <2>1
  <2>3. row \in SubRows /\ Submitted(row)
    BY <2>2, WhichRow
  <2>4. expert[e].status # "absent" /\ RowChange(e, expert[e].approved)
    BY <1>5, NoChange DEF SubmitFailsChecks, MaySubmit, AssertQualified
  <2>5. NewWork(row)
    BY <2>2, <2>4 DEF NewWork
  <2> QED
    BY <2>3, <2>5 DEF TrustStep
<1>6. ASSUME NEW e \in Experts, NEW t \in Tasks, NEW c \in Contents, NEW ok \in BOOLEAN,
             SubmitGold(e, t, c, ok)
      PROVE  TrustStep
  <2> DEFINE st == IF ok THEN "approved" ELSE "rejected"
  <2> DEFINE rv == [kind |-> "gold_check", by |-> "qc-engine", verdict |-> IF ok THEN "pass" ELSE "fail"]
  <2>1. PICK n \in NextVersions(t, e) :
            subs' = Append(subs,
                [task |-> t, author |-> e, version |-> n, content |-> c, sampled |-> FALSE,
                 unsampleable |-> FALSE, status |-> st, reviews |-> {rv}])
    BY <1>6 DEF SubmitGold, AddSubmission
  <2>2. st # "human_review" /\ t \in GoldTasks
    BY <1>6 DEF SubmitGold
  <2> HIDE DEF st, rv
  <2>3. PICK row : subs' = Append(subs, row) /\ row.task = t /\ row.author = e /\ row.status = st
    BY <2>1
  <2>4. row \in SubRows /\ Submitted(row)
    BY <2>3, WhichRow
  <2>5. expert[e].status # "absent" /\ expert[e] \in ExpertRows
    BY <1>6 DEF SubmitGold, PassesChecks, MaySubmit, AssertQualified, TypeOK
  <2>6. PICK new \in RegisterGoldResult(expert[e], ok) : expert' = [expert EXCEPT ![e] = new]
    BY <1>6 DEF SubmitGold
  <2>7. RowChange(e, expert[e].approved)
    <3>1. /\ new \in ExpertRows /\ new.status \in {expert[e].status, "suspended"}
          /\ new.approved = expert[e].approved
      BY <2>5, <2>6, RegisterGoldResultRow
    <3> QED
      BY <2>5, <2>6, <3>1 DEF RowChange
  <2>8. NewWork(row)
    BY <2>2, <2>3, <2>5, <2>7 DEF NewWork
  <2> QED
    BY <2>4, <2>8 DEF TrustStep
<1>7. ASSUME NEW e \in Experts, NEW t \in Tasks, NEW c \in Contents, NEW b \in Buckets,
             NEW r \in AutoResults, SubmitReviewed(e, t, c, b, r)
      PROVE  TrustStep
  <2> DEFINE sampled == IsSampled(b, expert[e])
  <2> DEFINE st == Route(r, sampled)
  <2> DEFINE top == b = 3
  <2> DEFINE rv == [kind |-> "auto_llm", by |-> r.by, verdict |-> IF r.passed THEN "pass" ELSE "revise"]
  <2>1. PICK n \in NextVersions(t, e) :
            subs' = Append(subs,
                [task |-> t, author |-> e, version |-> n, content |-> c, sampled |-> sampled,
                 unsampleable |-> top, status |-> st, reviews |-> {rv}])
    BY <1>7 DEF SubmitReviewed, AddSubmission
  <2>2. r \in AutoReviews /\ sampled \in BOOLEAN /\ r.score \in 0 .. MaxScore
    BY WorkflowAssumption DEF IsSampled, AutoReviews
  <2>3. st = "approved" => ~sampled
    BY <2>2, RouteCases
  <2>4. ~sampled => top \/ expert[e].approved >= NewBelow
    <3>1. expert[e].approved \in Nat /\ NewBelow \in Nat /\ b \in 0 .. 3
      BY ThresholdsAssumption DEF TypeOK, ExpertRows, Buckets
    <3> QED
      BY <3>1 DEF IsSampled, SamplingRank
  <2>5. t \notin GoldTasks /\ expert[e].status # "absent"
    BY <1>7 DEF SubmitReviewed, PassesChecks, MaySubmit, AssertQualified
  <2>6. RowChange(e, IF st = "approved" THEN expert[e].approved + 1 ELSE expert[e].approved)
    <3>1. IF st = "approved" THEN Approve(Len(subs) + 1, t, e, r.score) ELSE UNCHANGED expert
      BY <1>7 DEF SubmitReviewed
    <3>2. Len(subs) + 1 \in Nat
      BY DEF TypeOK
    <3> QED
      BY <2>2, <3>1, <3>2, Approving, NoChange
  <2> HIDE DEF st, rv, sampled, top
  <2>7. PICK row : /\ subs' = Append(subs, row) /\ row.task = t /\ row.author = e
                   /\ row.status = st /\ row.unsampleable = top
    BY <2>1
  <2>8. row \in SubRows /\ Submitted(row)
    BY <2>7, WhichRow
  <2>9. NewWork(row)
    BY <2>3, <2>4, <2>5, <2>6, <2>7 DEF NewWork
  <2> QED
    BY <2>8, <2>9 DEF TrustStep
<1>8. ASSUME NEW i \in DOMAIN subs, NEW v \in Experts, NEW verdict \in Verdicts,
             NEW scores \in OptionalScores, HumanReview(i, v, verdict, scores)
      PROVE  TrustStep
  <2>1. PICK e : e = subs[i].author
    OBVIOUS
  <2>2. e \in Experts /\ subs[i].task \in Tasks /\ i \in Nat /\ expert[e] \in ExpertRows
    BY <2>1, SubmissionRow DEF TypeOK
  <2>3. ReviewedBy(i, v, verdict)
    <3>1. /\ subs[i].status = "human_review"
          /\ v # subs[i].author /\ v \in Reviewers
          /\ subs' = [subs EXCEPT ![i].status = VerdictStatus(verdict),
                                  ![i].reviews = @ \cup {HumanRecord(v, verdict)}]
      BY <1>8 DEF HumanReview, AwaitsReview, AssertReviewerIndependent, HumanRecord
    <3>2. usage' = IF verdict = "pass" THEN RecordApprovedRecord(subs[i].task, i) ELSE usage
      BY <1>8 DEF HumanReview, Approve, Verdicts
    <3> QED
      BY <3>1, <3>2 DEF ReviewedBy
  <2>4. RowChange(e, IF verdict = "pass" THEN expert[e].approved + 1 ELSE expert[e].approved)
    <3>1. CASE verdict = "pass"
      <4>1. Approve(i, subs[i].task, e, ScoreOr(scores, 4*Unit))
        BY <1>8, <2>1, <3>1 DEF HumanReview
      <4> QED
        BY <2>2, <3>1, <4>1, DefaultScores, Approving
    <3>2. CASE verdict = "revise"
      <4>1. UNCHANGED expert
        BY <1>8, <3>2 DEF HumanReview
      <4> QED
        BY <2>2, <3>2, <4>1, NoChange
    <3>3. CASE verdict = "fail"
      <4>1. PICK row \in UpdateQualityScore(expert[e], ScoreOr(scores, Unit)) :
                expert' = [expert EXCEPT ![e] = row]
        BY <1>8, <2>1, <3>3 DEF HumanReview
      <4>2. /\ row \in ExpertRows /\ row.status \in {expert[e].status, "suspended"}
            /\ row.approved = expert[e].approved
        BY <2>2, <4>1, DefaultScores, UpdateQualityScoreRow
      <4>3. RowChange(e, expert[e].approved)
        BY <4>1, <4>2 DEF RowChange
      <4> QED
        BY <3>3, <4>3
    <3> QED
      BY <3>1, <3>2, <3>3 DEF Verdicts
  <2> QED
    BY <2>1, <2>3, <2>4 DEF TrustStep, Judgement
<1> QED
  BY <1>1, <1>2, <1>3, <1>4, <1>5, <1>6, <1>7, <1>8 DEF Next, Verdicts

(* Whoever has no row has no approved records. *)
LEMMA NoRowNoRecords ==
    ASSUME KnownWork, NEW e \in Experts, expert[e].status = "absent", Trusted(e)
    PROVE  expert[e].approved = 0 /\ ApprovedBy(e) = {}
<1>1. ApprovedBy(e) = {}
  BY DEF KnownWork, ApprovedBy
<1> QED
  BY <1>1, FS_EmptySet DEF Trusted

(* Nothing approved, nothing counted. *)
LEMMA SameTrust ==
    ASSUME NEW e \in Experts, Trusted(e), ApprovedBy(e)' = ApprovedBy(e),
           \A j \in ApprovedBy(e) : subs'[j] = subs[j], expert'[e].approved = expert[e].approved
    PROVE  Trusted(e)'
<1>1. CheckedBy(e)' = CheckedBy(e)
  BY DEF CheckedBy, Checked, PassedByHuman
<1> QED
  BY <1>1 DEF Trusted

(* Record i of expert e is approved: a person passed it, or e is beyond the *)
(* sampling of newcomers.                                                   *)
LEMMA MoreTrust ==
    ASSUME TypeOK, NEW e \in Experts, Trusted(e), NEW i, i \notin ApprovedBy(e),
           ApprovedBy(e)' = ApprovedBy(e) \cup {i},
           \A j \in ApprovedBy(e) : subs'[j] = subs[j],
           expert'[e].approved = expert[e].approved + 1,
           Checked(subs[i])' \/ expert[e].approved >= NewBelow
    PROVE  Trusted(e)'
<1>1. PICK A, C, D : A = ApprovedBy(e) /\ C = CheckedBy(e) /\ D = CheckedBy(e)'
  OBVIOUS
<1>2. IsFiniteSet(A) /\ C \subseteq A /\ i \notin A /\ ApprovedBy(e)' = A \cup {i}
  BY <1>1, ApprovedFinite DEF CheckedBy
<1>3. D = C \/ D = C \cup {i}
  BY <1>1 DEF CheckedBy, Checked, PassedByHuman
<1>4. Checked(subs[i])' => i \in D
  BY <1>1 DEF CheckedBy, Checked, PassedByHuman
<1>5. D = C => Cardinality(A) >= NewBelow
  BY <1>1, <1>2, <1>4 DEF Trusted
<1>6. A # C => Cardinality(C) >= NewBelow
  BY <1>1 DEF Trusted
<1>7. Cardinality(A \cup {i}) = Cardinality(A) + 1 /\ (A \cup {i} # D => Cardinality(D) >= NewBelow)
  BY <1>2, <1>3, <1>5, <1>6, OneMore
<1> QED
  BY <1>1, <1>2, <1>7 DEF Trusted

LEMMA SubmissionTrust ==
    ASSUME TypeOK, Trust, NEW row \in SubRows, Submitted(row), NewWork(row)
    PROVE  Trust'
<1>1. PICK e, n : e = row.author /\ n = Len(subs) + 1
  OBVIOUS
<1>2. e \in Experts /\ row.task \in Tasks
  BY <1>1 DEF SubRows
<1>3. /\ DOMAIN subs' = DOMAIN subs \cup {n} /\ n \notin DOMAIN subs
      /\ subs'[n] = row /\ \A j \in DOMAIN subs : subs'[j] = subs[j]
  <2>1. /\ Len(subs) \in Nat /\ DOMAIN subs = 1 .. Len(subs) /\ DOMAIN subs' = 1 .. n
        /\ subs'[n] = row /\ \A j \in DOMAIN subs : subs'[j] = subs[j]
    BY <1>1, SubmittedRow
  <2> QED
    BY <1>1, <2>1
<1>4. PICK counted : counted = (row.status = "approved" /\ row.task \notin GoldTasks)
  OBVIOUS
<1>5. /\ RowChange(e, IF counted THEN expert[e].approved + 1 ELSE expert[e].approved)
      /\ counted => row.unsampleable \/ expert[e].approved >= NewBelow
  BY <1>1, <1>4 DEF NewWork
<1>6. /\ expert'[e].approved = IF counted THEN expert[e].approved + 1 ELSE expert[e].approved
      /\ \A x \in Experts : x # e => expert'[x] = expert[x]
      /\ \A x \in Experts : expert'[x].status = "absent" => expert[x].status = "absent"
  BY <1>2, <1>5, ChangedRow
<1>7. KnownWork'
  <2> SUFFICES ASSUME NEW i \in DOMAIN subs'
               PROVE  /\ expert'[subs'[i].author].status # "absent"
                      /\ subs'[i].status = "human_review" => subs'[i].task \notin GoldTasks
    BY DEF KnownWork
  <2>1. CASE i = n
    BY <1>1, <1>2, <1>3, <1>6, <2>1 DEF NewWork
  <2>2. CASE i \in DOMAIN subs
    <3>1. subs'[i] = subs[i] /\ subs[i].author \in Experts
      BY <1>3, <2>2, SubmissionRow
    <3> QED
      BY <1>6, <2>2, <3>1 DEF Trust, KnownWork
  <2> QED
    BY <1>3, <2>1, <2>2
<1>8. ASSUME NEW x \in Experts PROVE Trusted(x)'
  <2>1. Trusted(x) /\ n \notin ApprovedBy(x) /\ \A j \in ApprovedBy(x) : subs'[j] = subs[j]
    BY <1>3 DEF Trust, ApprovedBy
  <2>2. CASE counted /\ x = e
    <3>1. ApprovedBy(x)' = ApprovedBy(x) \cup {n}
      BY <1>1, <1>3, <1>4, <2>2 DEF ApprovedBy
    <3>2. row.unsampleable => Checked(subs[n])'
      BY <1>3 DEF Checked
    <3> QED
      BY <1>2, <1>5, <1>6, <2>1, <2>2, <3>1, <3>2, MoreTrust
  <2>3. CASE ~(counted /\ x = e)
    <3>1. ApprovedBy(x)' = ApprovedBy(x)
      BY <1>1, <1>3, <1>4, <2>3 DEF ApprovedBy
    <3>2. expert'[x].approved = expert[x].approved
      BY <1>6, <2>3
    <3> QED
      BY <2>1, <3>1, <3>2, SameTrust
  <2> QED
    BY <2>2, <2>3
<1> QED
  BY <1>7, <1>8 DEF Trust

LEMMA JudgementTrust ==
    ASSUME TypeOK, Trust, NEW i \in DOMAIN subs, NEW v \in Experts, NEW verdict \in Verdicts,
           ReviewedBy(i, v, verdict), Judgement(i, verdict)
    PROVE  Trust'
<1>1. PICK e : e = subs[i].author
  OBVIOUS
<1>2. e \in Experts /\ RowChange(e, IF verdict = "pass" THEN expert[e].approved + 1 ELSE expert[e].approved)
  BY <1>1, SubmissionRow DEF Judgement
<1>3. /\ expert'[e].approved = IF verdict = "pass" THEN expert[e].approved + 1 ELSE expert[e].approved
      /\ \A x \in Experts : x # e => expert'[x] = expert[x]
      /\ \A x \in Experts : expert'[x].status = "absent" => expert[x].status = "absent"
  BY <1>2, ChangedRow
<1>4. /\ DOMAIN subs' = DOMAIN subs
      /\ \A j \in DOMAIN subs : j # i => subs'[j] = subs[j]
      /\ subs'[i].status = VerdictStatus(verdict)
      /\ subs'[i].task = subs[i].task /\ subs'[i].author = e
      /\ subs'[i].reviews = subs[i].reviews \cup {HumanRecord(v, verdict)}
  BY <1>1, ReviewedRow
<1>5. /\ subs[i].status = "human_review" /\ subs[i].task \notin GoldTasks
      /\ v \in Reviewers /\ v # e
  BY <1>1 DEF ReviewedBy, Trust, KnownWork
<1>6. verdict = "pass" <=> VerdictStatus(verdict) = "approved"
  BY DEF VerdictStatus, Verdicts
<1>7. VerdictStatus(verdict) # "human_review"
  BY DEF VerdictStatus, Verdicts
<1>8. KnownWork'
  <2> SUFFICES ASSUME NEW j \in DOMAIN subs
               PROVE  /\ expert'[subs'[j].author].status # "absent"
                      /\ subs'[j].status = "human_review" => subs'[j].task \notin GoldTasks
    BY <1>4 DEF KnownWork
  <2>1. subs'[j].author = subs[j].author /\ subs[j].author \in Experts
    BY <1>1, <1>4, SubmissionRow
  <2>2. expert[subs[j].author].status # "absent"
    BY DEF Trust, KnownWork
  <2> QED
    BY <1>3, <1>4, <1>7, <2>1, <2>2 DEF Trust, KnownWork
<1>9. ASSUME NEW x \in Experts PROVE Trusted(x)'
  <2>1. Trusted(x) /\ i \notin ApprovedBy(x) /\ \A j \in ApprovedBy(x) : subs'[j] = subs[j]
    BY <1>4, <1>5 DEF Trust, ApprovedBy
  <2>2. CASE verdict = "pass" /\ x = e
    <3>1. ApprovedBy(x)' = ApprovedBy(x) \cup {i}
      BY <1>1, <1>4, <1>5, <1>6, <2>2 DEF ApprovedBy
    <3>2. Checked(subs[i])'
      <4>1. /\ HumanRecord(v, verdict) \in subs'[i].reviews
            /\ HumanRecord(v, verdict).kind = "human" /\ HumanRecord(v, verdict).by = v
            /\ HumanRecord(v, verdict).verdict = "pass"
        BY <1>4, <2>2 DEF HumanRecord
      <4> QED
        BY <1>4, <1>5, <4>1 DEF Checked, PassedByHuman
    <3> QED
      BY <1>3, <2>1, <2>2, <3>1, <3>2, MoreTrust
  <2>3. CASE ~(verdict = "pass" /\ x = e)
    <3>1. ApprovedBy(x)' = ApprovedBy(x)
      BY <1>1, <1>4, <1>5, <1>6, <2>3 DEF ApprovedBy
    <3>2. expert'[x].approved = expert[x].approved
      BY <1>3, <2>3
    <3> QED
      BY <2>1, <3>1, <3>2, SameTrust
  <2> QED
    BY <2>2, <2>3
<1> QED
  BY <1>8, <1>9 DEF Trust

LEMMA TrustKept == TypeOK /\ Trust /\ [Next]_vars => Trust'
<1> SUFFICES ASSUME TypeOK, Trust, [Next]_vars PROVE Trust'
  OBVIOUS
<1>1. ASSUME UNCHANGED subs,
             \/ UNCHANGED expert
             \/ \E e \in Experts :
                   RowChange(e, IF expert[e].status = "absent" THEN 0 ELSE expert[e].approved)
      PROVE  Trust'
  <2>1. /\ \A x \in Experts : expert'[x].approved = expert[x].approved
        /\ \A x \in Experts : expert'[x].status = "absent" => expert[x].status = "absent"
    <3>1. CASE UNCHANGED expert
      BY <3>1
    <3>2. ASSUME NEW e \in Experts, NEW n, RowChange(e, n),
                 n = IF expert[e].status = "absent" THEN 0 ELSE expert[e].approved
          PROVE  /\ \A x \in Experts : expert'[x].approved = expert[x].approved
                 /\ \A x \in Experts : expert'[x].status = "absent" => expert[x].status = "absent"
      <4>1. n = expert[e].approved
        BY <3>2, NoRowNoRecords DEF Trust
      <4> QED
        BY <3>2, <4>1, ChangedRow
    <3> QED
      BY <1>1, <3>1, <3>2
  <2>2. \A x \in Experts : Trusted(x)'
    <3> SUFFICES ASSUME NEW x \in Experts PROVE Trusted(x)'
      OBVIOUS
    <3>1. ApprovedBy(x)' = ApprovedBy(x) /\ \A j \in ApprovedBy(x) : subs'[j] = subs[j]
      BY <1>1 DEF ApprovedBy
    <3> QED
      BY <2>1, <3>1, SameTrust DEF Trust
  <2>3. KnownWork'
    <3>1. \A i \in DOMAIN subs : subs[i].author \in Experts
      BY SubmissionRow
    <3> QED
      BY <1>1, <2>1, <3>1 DEF Trust, KnownWork
  <2> QED
    BY <2>2, <2>3 DEF Trust
<1>2. CASE UNCHANGED vars
  BY <1>1, <1>2 DEF vars
<1>3. CASE Next
  BY <1>1, <1>3, Trusting, SubmissionTrust, JudgementTrust DEF TrustStep
<1> QED
  BY <1>2, <1>3

(***************************************************************************)
(* C3, TrustIsEarned: whatever the thresholds, nobody's records ship       *)
(* unseen before people have passed the first NewBelow of them.            *)
(***************************************************************************)
THEOREM EarnedTrust == Spec => []TrustIsEarned
<1>1. Init => Trust
  <2> SUFFICES ASSUME Init PROVE Trust
    OBVIOUS
  <2>1. \A e \in Experts : ApprovedBy(e) = {} /\ expert[e].approved = 0
    BY DEF Init, ApprovedBy, NewExpertRow
  <2>2. \A e \in Experts : CheckedBy(e) = {}
    BY <2>1 DEF CheckedBy
  <2>3. \A e \in Experts : Trusted(e)
    BY <2>1, <2>2, FS_EmptySet DEF Trusted
  <2>4. KnownWork
    BY DEF Init, KnownWork
  <2> QED
    BY <2>3, <2>4 DEF Trust
<1>2. TypeOK /\ Trust => TrustIsEarned
  <2> SUFFICES ASSUME TypeOK, Trust, NEW e \in Experts, Cardinality(ApprovedBy(e)) > NewBelow
               PROVE  Cardinality(CheckedBy(e)) >= NewBelow
    BY DEF TrustIsEarned, CheckedBy, Checked
  <2>1. Cardinality(ApprovedBy(e)) \in Nat
    BY ApprovedFinite, FS_CardinalityType
  <2>2. CASE ApprovedBy(e) = CheckedBy(e)
    BY <2>1, <2>2, ThresholdsAssumption
  <2>3. CASE ApprovedBy(e) # CheckedBy(e)
    BY <2>3 DEF Trust, Trusted
  <2> QED
    BY <2>2, <2>3
<1> QED
  BY <1>1, <1>2, TrustKept, TypeCorrect, PTL DEF Spec

-----------------------------------------------------------------------------
(* What the advice of Calibration promises, on any number of pairs. *)

(* A rate in thousandths is off by half a thousandth at most. *)
LEMMA RateBounds ==
    ASSUME NEW count \in Nat, NEW n \in Nat \ {0}, NEW q \in Rates(count, n)
    PROVE  /\ q \in Nat
           /\ 2 * (n * q) <= 2000 * count + n
           /\ 2000 * count <= 2 * (n * q) + n
BY RoundDivBounds DEF Rates

(* Whatever the counts, the advice is earned by them. *)
LEMMA AdviceIsEarned ==
    ASSUME NEW t \in Tallies
    PROVE  Earned(t)
<1> DEFINE n == t.pairs
<1>1. n \in Nat /\ t.agree \in Nat /\ t.falsePass \in Nat
  BY DEF Tallies
<1>2. CASE n = 0
  BY <1>1, <1>2 DEF Earned, Recommendations, Tallies
<1>3. CASE n # 0
  <2>1. ASSUME NEW a \in Rates(t.agree, n), NEW f \in Rates(t.falsePass, n)
        PROVE  /\ 2000 * t.falsePass > 101 * n => Advice(n, a, f) = "raise_sampling"
               /\ Advice(n, a, f) = "raise_sampling" => 2000 * t.falsePass >= 101 * n
               /\ Advice(n, a, f) = "consider_lower" =>
                    /\ n >= MinPairsForConfidence
                    /\ 2000 * t.agree >= 1799 * n
                    /\ 2000 * t.falsePass <= 101 * n
    <3>1. a \in Nat /\ 2 * (n * a) <= 2000 * t.agree + n
      BY <1>1, <1>3, <2>1, RateBounds
    <3>2. f \in Nat /\ 2 * (n * f) <= 2000 * t.falsePass + n /\ 2000 * t.falsePass <= 2 * (n * f) + n
      BY <1>1, <1>3, <2>1, RateBounds
    <3>3. f <= 50 => 2000 * t.falsePass <= 101 * n
      <4>1. f <= 50 => n * f <= n * 50
        BY <1>1, <3>2, Multiples
      <4> QED
        BY <1>1, <3>2, <4>1
    <3>4. f > 50 => 2000 * t.falsePass >= 101 * n
      <4>1. f > 50 => n * 51 <= n * f
        BY <1>1, <3>2, Multiples
      <4> QED
        BY <1>1, <3>2, <4>1
    <3>5. a >= 900 => 2000 * t.agree >= 1799 * n
      <4>1. a >= 900 => n * 900 <= n * a
        BY <1>1, <3>1, Multiples
      <4> QED
        BY <1>1, <3>1, <4>1
    <3> HIDE DEF n
    <3> QED
      BY <1>1, <3>1, <3>2, <3>3, <3>4, <3>5
      DEF Advice, FalsePassTolerance, MinPairsForConfidence, StrongAgreement
  <2>2. Rates(t.agree, n) # {} /\ Rates(t.falsePass, n) # {}
    BY DEF Rates, RoundDiv
  <2> QED
    BY <1>3, <2>1, <2>2 DEF Earned, Recommendations
<1> QED
  BY <1>2, <1>3

-----------------------------------------------------------------------------
(* The counts the report adds up are numbers. *)
LEMMA OverallIsTally ==
    ASSUME CalibrationTypeOK
    PROVE  Overall \in Tallies
<1>1. IsFiniteSet(1 .. Len(subs)) /\ DOMAIN subs = 1 .. Len(subs)
  BY FS_Interval DEF CalibrationTypeOK, TypeOK
<1>2. Pairs \subseteq DOMAIN subs /\ Agreements \subseteq DOMAIN subs /\ FalsePasses \subseteq DOMAIN subs
  BY DEF Pairs, Agreements, FalsePasses
<1>3. /\ Cardinality(Pairs) \in Nat /\ Cardinality(Agreements) \in Nat
      /\ Cardinality(FalsePasses) \in Nat
      /\ Cardinality(Agreements) <= Cardinality(Pairs)
      /\ Cardinality(FalsePasses) <= Cardinality(Pairs)
  BY <1>1, <1>2, FS_Subset, FS_CardinalityType DEF Agreements, FalsePasses
<1> QED
  BY <1>3 DEF CalibrationTypeOK, Tallies, Overall

LEMMA CalibrationTyped == CalibrationSpec => []CalibrationTypeOK
<1>1. CalibrationInit => CalibrationTypeOK
  BY TypeInit DEF CalibrationInit, CalibrationTypeOK, Tallies
<1>2. CalibrationTypeOK /\ [CalibrationNext]_<<vars, elsewhere>> => CalibrationTypeOK'
  <2> SUFFICES ASSUME CalibrationTypeOK, [CalibrationNext]_<<vars, elsewhere>>
               PROVE  CalibrationTypeOK'
    OBVIOUS
  <2>1. [Next]_vars
    BY DEF CalibrationNext, PairElsewhere
  <2>2. TypeOK'
    BY <2>1, TypeStep DEF CalibrationTypeOK
  <2>3. CASE UNCHANGED elsewhere
    BY <2>2, <2>3 DEF CalibrationTypeOK
  <2>4. ASSUME NEW auto \in BOOLEAN, NEW human \in BOOLEAN, PairElsewhere(auto, human)
        PROVE  CalibrationTypeOK'
    BY <2>2, <2>4 DEF CalibrationTypeOK, PairElsewhere, Tallies
  <2> QED
    BY <2>3, <2>4 DEF CalibrationNext
<1> QED
  BY <1>1, <1>2, PTL DEF CalibrationSpec

(* What a submission tells about its verdicts. *)
Measured(s) ==
    /\ s.status = "human_review" =>
         Has(s, "auto_llm") /\ ~Has(s, "human") /\ (Passed(s, "auto_llm") => s.sampled)
    /\ Has(s, "human") =>
         /\ Has(s, "auto_llm")
         /\ Passed(s, "auto_llm") => s.sampled
         /\ s.status \in {"needs_revision", "rejected"}
            \/ (s.status = "approved" /\ Passed(s, "human"))

AllMeasured == \A i \in DOMAIN subs : Measured(subs[i])

(* A verdict on a submission that waits leaves it measured. *)
LEMMA VerdictMeasured ==
    ASSUME TypeOK, AllMeasured, NEW i \in DOMAIN subs, NEW v \in Experts,
           NEW verdict \in Verdicts, ReviewedBy(i, v, verdict)
    PROVE  Measured(subs'[i])
<1>1. /\ subs[i].status = "human_review" /\ Measured(subs[i])
      /\ subs'[i].status = VerdictStatus(verdict)
      /\ subs'[i].reviews = subs[i].reviews \cup {HumanRecord(v, verdict)}
      /\ subs'[i].sampled = subs[i].sampled
  <2>1. subs[i].status = "human_review"
    BY DEF ReviewedBy
  <2>2. Measured(subs[i])
    BY DEF AllMeasured
  <2> QED
    BY <2>1, <2>2, ReviewedRow
<1>2. /\ HumanRecord(v, verdict).kind = "human" /\ HumanRecord(v, verdict).verdict = verdict
  BY DEF HumanRecord
<1>3. /\ Has(subs'[i], "auto_llm") <=> Has(subs[i], "auto_llm")
      /\ Passed(subs'[i], "auto_llm") <=> Passed(subs[i], "auto_llm")
      /\ verdict = "pass" => Passed(subs'[i], "human")
  BY <1>1, <1>2 DEF Has, Passed
<1>4. /\ subs'[i].status \in {"approved", "needs_revision", "rejected"}
      /\ subs'[i].status = "approved" => verdict = "pass"
  BY <1>1 DEF VerdictStatus, Verdicts
<1> QED
  BY <1>1, <1>3, <1>4 DEF Measured

(* Every submission stays measured. *)
LEMMA MeasuredStep == TypeOK /\ AllMeasured /\ [Next]_vars => AllMeasured'
<1> SUFFICES ASSUME TypeOK, AllMeasured, [Next]_vars, NEW j \in DOMAIN subs'
             PROVE  Measured(subs'[j])
  BY DEF AllMeasured, Measured, Has, Passed
<1>1. CASE UNCHANGED subs
  BY <1>1 DEF AllMeasured
<1>2. ASSUME NEW row \in SubRows, Submitted(row) PROVE Measured(subs'[j])
  <2>1. Measured(row)
    BY <1>2 DEF Submitted, Unseen, Measured, Has, Passed
  <2>2. j \in DOMAIN subs \/ j = Len(subs) + 1
    BY <1>2, SubmittedRow
  <2> QED
    BY <1>2, <2>1, <2>2, SubmittedRow DEF AllMeasured
<1>3. ASSUME NEW i \in DOMAIN subs, NEW v \in Experts, NEW verdict \in Verdicts,
             ReviewedBy(i, v, verdict)
      PROVE  Measured(subs'[j])
  <2>1. CASE j # i
    BY <1>3, <2>1, ReviewedRow DEF AllMeasured
  <2>2. CASE j = i
    BY <1>3, <2>2, VerdictMeasured
  <2> QED
    BY <2>1, <2>2
<1> QED
  BY <1>1, <1>2, <1>3, SubsStep DEF SubmissionStep, vars

(* calibration.py: a false pass is a record that only sampling kept from    *)
(* shipping, and no person's verdict is missing from the pairs.             *)
THEOREM FalsePassesSampled == CalibrationSpec => []FalsePassWouldShip
<1>1. CalibrationInit => AllMeasured
  BY DEF CalibrationInit, Init, AllMeasured
<1>2. /\ CalibrationTypeOK => TypeOK
      /\ [CalibrationNext]_<<vars, elsewhere>> => [Next]_vars
  BY DEF CalibrationTypeOK, CalibrationNext, PairElsewhere
<1>3. AllMeasured => FalsePassWouldShip
  <2> SUFFICES ASSUME AllMeasured, NEW i \in DOMAIN subs, Has(subs[i], "human")
               PROVE  /\ i \in Pairs
                      /\ i \in FalsePasses =>
                           subs[i].sampled /\ subs[i].status \in {"needs_revision", "rejected"}
    BY DEF FalsePassWouldShip, FalsePasses, Pairs
  <2>1. Measured(subs[i])
    BY DEF AllMeasured
  <2> QED
    BY <2>1 DEF Measured, Pairs, FalsePasses
<1>4. AllMeasured /\ CalibrationTypeOK /\ [CalibrationNext]_<<vars, elsewhere>> => AllMeasured'
  BY <1>2, MeasuredStep
<1> QED
  BY <1>1, <1>3, <1>4, CalibrationTyped, PTL DEF CalibrationSpec

(* QM C8, for every number of pairs here and elsewhere: a false-pass rate   *)
(* above 5.05% raises sampling, and lowering it takes 50 pairs, 89.95%      *)
(* agreement and at most 5.05% false passes.                                *)
THEOREM AdviceEarned == CalibrationSpec => []RecommendationIsEarned
<1>1. CalibrationTypeOK => RecommendationIsEarned
  BY OverallIsTally, AdviceIsEarned DEF RecommendationIsEarned
<1> QED
  BY <1>1, CalibrationTyped, PTL
=============================================================================
