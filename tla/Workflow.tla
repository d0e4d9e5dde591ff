------------------------------ MODULE Workflow ------------------------------
(***************************************************************************)
(* The production workflow: contributors are registered, pass exams, are   *)
(* assigned tasks and submit; the QC gates of factory/qc/engine.py decide  *)
(* each submission or hand it to a human reviewer; an approved record is   *)
(* metered.  One action is one request handler of factory/api/main.py, and *)
(* handlers run one at a time: this is the system with a single session.   *)
(* Sessions.tla splits the handlers and lets them overlap.                 *)
(*                                                                         *)
(* What an id is created with is fixed by constants: a task id belongs to  *)
(* a project and is a gold task or not, an expert id is a reviewer or not. *)
(* Ids are opaque to the code, so this loses no behaviour.                 *)
(***************************************************************************)
EXTENDS Controls, Sequences, FiniteSets

CONSTANTS
    Experts, Reviewers,     \* expert ids, and those created with is_reviewer
    Tasks, GoldTasks,       \* task ids, and those created with is_gold
    Projects, ProjectOf,    \* Task.project_id
    Tracks, TrackOf,        \* Project.track
    Contents,               \* content fingerprints
    AutoResults,            \* automated reviews that may come back
    HumanScores,            \* scores a human review may give
    MaxSubs, MaxExams,      \* bounds: submissions, passed exams per track
    NoOne                   \* Task.assigned_to IS NULL

ASSUME WorkflowAssumption ==
    /\ Reviewers \subseteq Experts
    /\ GoldTasks \subseteq Tasks
    /\ ProjectOf \in [Tasks -> Projects]
    /\ TrackOf \in [Projects -> Tracks]
    /\ AutoResults \subseteq AutoReviews
    /\ HumanScores \subseteq 0 .. MaxScore
    /\ MaxSubs \in Nat
    /\ MaxExams \in Nat
    /\ NoOne \notin Experts

VARIABLES
    expert,     \* experts, by id
    exams,      \* passed rows of qualifications, by expert and track
    task,       \* tasks, by id
    subs,       \* submissions with their reviews, in order of creation
    usage       \* usage_events: the submissions billed, by task

vars == <<expert, exams, task, subs, usage>>

TaskRows == [status : {"absent", "open", "assigned", "completed"},
             assigned : Experts \cup {NoOne}]

SubStatuses == {"auto_check_failed", "human_review", "needs_revision", "approved", "rejected"}

Reviews == [kind : {"auto_llm", "human", "gold_check"},
            by : Experts \cup {"claude", "heuristic", "qc-engine"},
            verdict : {"pass", "fail", "revise"}]

SubRows == [task : Tasks, author : Experts, version : Nat, content : Contents,
            sampled : BOOLEAN, unsampleable : BOOLEAN, status : SubStatuses,
            reviews : SUBSET Reviews]

TypeOK ==
    /\ expert \in [Experts -> ExpertRows]
    /\ exams \in [Experts -> [Tracks -> Nat]]
    /\ task \in [Tasks -> TaskRows]
    /\ subs \in Seq(SubRows)
    /\ Len(subs) <= MaxSubs
    /\ usage \in [Tasks -> Seq(Nat)]

(* The database after init_db. *)
Init ==
    /\ expert = [e \in Experts |-> [NewExpertRow EXCEPT !.status = "absent"]]
    /\ exams = [e \in Experts |-> [k \in Tracks |-> 0]]
    /\ task = [t \in Tasks |-> [status |-> "absent", assigned |-> NoOne]]
    /\ subs = <<>>
    /\ usage = [t \in Tasks |-> <<>>]

-----------------------------------------------------------------------------
(* Registration, exams, tasks. *)

CreateExpert(e) ==
    /\ expert[e].status = "absent"
    /\ expert' = [expert EXCEPT ![e] = NewExpertRow]
    /\ UNCHANGED <<exams, task, subs, usage>>

(* Faulty variant: every passed exam (re)qualifies. *)
AfterExam_AlwaysQualifies(row) == [row EXCEPT !.status = "qualified"]

(* Only a pending contributor becomes qualified by passing. *)
AfterExam(row) ==
    IF row.status = "pending" THEN [row EXCEPT !.status = "qualified"] ELSE row

(* A failed exam adds a row that no control reads. *)
RecordExam(e, track, passed) ==
    /\ expert[e].status # "absent"
    /\ IF passed
       THEN /\ exams[e][track] < MaxExams
            /\ exams' = [exams EXCEPT ![e][track] = @ + 1]
            /\ expert' = [expert EXCEPT ![e] = AfterExam(@)]
       ELSE UNCHANGED <<exams, expert>>
    /\ UNCHANGED <<task, subs, usage>>

CreateTask(t) ==
    /\ task[t].status = "absent"
    /\ task' = [task EXCEPT ![t].status = "open"]
    /\ UNCHANGED <<expert, exams, subs, usage>>

(* assert_qualified: scalar_one_or_none raises on a second passed exam. *)
AssertQualified(e, track) ==
    /\ expert[e].status = "qualified"
    /\ exams[e][track] = 1

TaskTrack(t) == TrackOf[ProjectOf[t]]

(* Nothing asks the task's status: a completed task can be assigned again. *)
AssignTask(t, e) ==
    /\ task[t].status # "absent"
    /\ AssertQualified(e, TaskTrack(t))
    /\ task' = [task EXCEPT ![t] = [status |-> "assigned", assigned |-> e]]
    /\ UNCHANGED <<expert, exams, subs, usage>>

-----------------------------------------------------------------------------
(* Approval and metering, shared by gate 3 and the human review. *)

(* Faulty variant: every approval is metered. *)
RecordApprovedRecord_EveryTime(t, i) ==
    IF t \in GoldTasks THEN usage ELSE [usage EXCEPT ![t] = Append(@, i)]

(* At most one usage event per task; gold tasks are free. *)
RecordApprovedRecord(t, i) ==
    IF t \in GoldTasks \/ usage[t] # <<>>
    THEN usage
    ELSE [usage EXCEPT ![t] = Append(@, i)]

(* Submission i of expert e on task t is approved with this score. *)
Approve(i, t, e, score) ==
    /\ \E row \in UpdateQualityScore([expert[e] EXCEPT !.approved = @ + 1], score) :
           expert' = [expert EXCEPT ![e] = row]
    /\ task' = [task EXCEPT ![t].status = "completed"]
    /\ usage' = RecordApprovedRecord(t, i)

-----------------------------------------------------------------------------
(* POST /tasks/{id}/submissions: engine.submit and engine.process. *)

(* Faulty variant: only approved records count as existing content. *)
ProjectFingerprints_ApprovedOnly(p) ==
    {subs[i].content : i \in {j \in DOMAIN subs :
        ProjectOf[subs[j].task] = p /\ subs[j].status = "approved"}}

(* Contents already submitted to the project, whatever became of them. *)
ProjectFingerprints(p) ==
    {subs[i].content : i \in {j \in DOMAIN subs : ProjectOf[subs[j].task] = p}}

PriorVersions(t, e) ==
    {subs[i].version : i \in {j \in DOMAIN subs : subs[j].task = t /\ subs[j].author = e}}

(* One more than the highest version of the same expert on the task, as a   *)
(* set of one.                                                              *)
NextVersions(t, e) ==
    IF PriorVersions(t, e) = {} THEN {1}
    ELSE {v + 1 : v \in {w \in PriorVersions(t, e) : \A u \in PriorVersions(t, e) : u <= w}}

MaySubmit(e, t) ==
    /\ Len(subs) < MaxSubs
    /\ task[t].status # "absent"
    /\ AssertQualified(e, TaskTrack(t))
    /\ task[t].assigned \in {NoOne, e}

(* unsampleable: gate 3 asked for a sampling decision and the id's hash is  *)
(* the one that no rate covers (bucket 3 of Controls).                      *)
AddSubmission(e, t, c, sampled, unsampleable, status, reviews) ==
    \E v \in NextVersions(t, e) :
        subs' = Append(subs,
            [task |-> t, author |-> e, version |-> v, content |-> c, sampled |-> sampled,
             unsampleable |-> unsampleable, status |-> status, reviews |-> reviews])

(* validators.run_all finds an error: one in the content itself, unless it  *)
(* is well formed, or that the project already has it.                      *)
FailsChecks(t, c, wellFormed) == wellFormed => c \in ProjectFingerprints(ProjectOf[t])

(* Gate 1 fails. *)
SubmitFailsChecks(e, t, c, wellFormed) ==
    /\ MaySubmit(e, t)
    /\ FailsChecks(t, c, wellFormed)
    /\ AddSubmission(e, t, c, FALSE, FALSE, "auto_check_failed", {})
    /\ UNCHANGED <<expert, exams, task, usage>>

PassesChecks(e, t, c) ==
    /\ MaySubmit(e, t)
    /\ ~FailsChecks(t, c, TRUE)

(* Gate 2: a gold task scores the contributor and goes no further. *)
SubmitGold(e, t, c, matches) ==
    /\ PassesChecks(e, t, c)
    /\ t \in GoldTasks
    /\ \E row \in RegisterGoldResult(expert[e], matches) : expert' = [expert EXCEPT ![e] = row]
    /\ AddSubmission(e, t, c, FALSE, FALSE, IF matches THEN "approved" ELSE "rejected",
           {[kind |-> "gold_check", by |-> "qc-engine",
             verdict |-> IF matches THEN "pass" ELSE "fail"]})
    /\ task' = [task EXCEPT ![t].status = "completed"]
    /\ UNCHANGED <<exams, usage>>

(* Gate 3: the automated review r routes the submission. *)
SubmitReviewed(e, t, c, bucket, r) ==
    LET sampled == IsSampled(bucket, expert[e])
        status == Route(r, sampled)
    IN  /\ PassesChecks(e, t, c)
        /\ t \notin GoldTasks
        /\ AddSubmission(e, t, c, sampled, bucket = 3, status,
               {[kind |-> "auto_llm", by |-> r.by,
                 verdict |-> IF r.passed THEN "pass" ELSE "revise"]})
        /\ IF status = "approved"
           THEN Approve(Len(subs) + 1, t, e, r.score)
           ELSE UNCHANGED <<expert, task, usage>>
        /\ UNCHANGED exams

-----------------------------------------------------------------------------
(* POST /submissions/{id}/human-review: engine.human_review. *)

AssertReviewerIndependent(i, v) ==
    /\ v # subs[i].author
    /\ v \in Reviewers
    /\ expert[v].status = "qualified"

(* Faulty variant: a submission waits only if it was sampled. *)
AwaitsReview_Sampled(i) == subs[i].sampled

AwaitsReview(i) == subs[i].status = "human_review"

VerdictStatus(verdict) ==
    CASE verdict = "pass" -> "approved"
      [] verdict = "revise" -> "needs_revision"
      [] verdict = "fail" -> "rejected"

(* The reviewer's scores are optional: a pass then counts 4.0, a fail 1.0. *)
ScoreOr(scores, default) == IF scores = {} THEN default ELSE CHOOSE s \in scores : TRUE

(* scores is the reviewer's overall score as a set of at most one. *)
HumanReview(i, v, verdict, scores) ==
    LET e == subs[i].author
        t == subs[i].task
    IN  /\ AwaitsReview(i)
        /\ AssertReviewerIndependent(i, v)
        /\ subs' = [subs EXCEPT
               ![i].status = VerdictStatus(verdict),
               ![i].reviews = @ \cup {[kind |-> "human", by |-> v, verdict |-> verdict]}]
        /\ CASE verdict = "pass" -> Approve(i, t, e, ScoreOr(scores, 4*Unit))
             [] verdict = "revise" -> UNCHANGED <<expert, task, usage>>
             [] verdict = "fail" ->
                  /\ \E row \in UpdateQualityScore(expert[e], ScoreOr(scores, Unit)) :
                         expert' = [expert EXCEPT ![e] = row]
                  /\ UNCHANGED <<task, usage>>
        /\ UNCHANGED exams

-----------------------------------------------------------------------------
OptionalScores == {{}} \cup {{s} : s \in HumanScores}

Next ==
    \/ \E e \in Experts : CreateExpert(e)
    \/ \E e \in Experts, k \in Tracks, passed \in BOOLEAN : RecordExam(e, k, passed)
    \/ \E t \in Tasks : CreateTask(t)
    \/ \E t \in Tasks, e \in Experts : AssignTask(t, e)
    \/ \E e \in Experts, t \in Tasks, c \in Contents, ok \in BOOLEAN :
           SubmitFailsChecks(e, t, c, ok)
    \/ \E e \in Experts, t \in Tasks, c \in Contents, ok \in BOOLEAN :
           SubmitGold(e, t, c, ok)
    \/ \E e \in Experts, t \in Tasks, c \in Contents, b \in Buckets, r \in AutoResults :
           SubmitReviewed(e, t, c, b, r)
    \/ \E i \in DOMAIN subs, v \in Experts, verdict \in {"pass", "revise", "fail"},
          scores \in OptionalScores :
           HumanReview(i, v, verdict, scores)

Spec == Init /\ [][Next]_vars

-----------------------------------------------------------------------------
(* What must hold. *)

(***************************************************************************)
(* The committed statuses follow the lifecycle the engine's docstring      *)
(* draws: decided once by the gates, once more by a person if they wait.   *)
(***************************************************************************)
Lifecycle == INSTANCE SubmissionLifecycle WITH
    Ids <- 1 .. MaxSubs,
    phase <- [i \in 1 .. MaxSubs |-> IF i \in DOMAIN subs THEN subs[i].status ELSE "none"]

RefinesLifecycle == Lifecycle!Spec

(***************************************************************************)
(* C4, C5: whoever is still qualified has a score of at least 2.0 and      *)
(* fewer missed gold tasks than suspend.  Every handler that lowers a      *)
(* score or counts a miss has to suspend in the same step, and a human     *)
(* review can lower the score of somebody long after the submission.       *)
(***************************************************************************)
QualifiedInGoodStanding ==
    \A e \in Experts : expert[e].status = "qualified" =>
        /\ expert[e].quality >= SuspendBelow
        /\ expert[e].goldFail < GoldSuspendFails

(***************************************************************************)
(* No handler lifts a suspension: not a passed exam, not the approval of   *)
(* work submitted before it.                                               *)
(***************************************************************************)
SuspensionIsFinal ==
    [][\A e \in Experts : expert[e].status = "suspended" => expert'[e].status = "suspended"]_vars

(* The review evidence of one submission. *)
PassedByHuman(s) ==
    \E r \in s.reviews : /\ r.kind = "human" /\ r.verdict = "pass"
                         /\ r.by \in Reviewers /\ r.by # s.author

PassedByModel(s) ==
    \E r \in s.reviews : r.kind = "auto_llm" /\ r.verdict = "pass" /\ r.by = "claude"

Vouched(s) ==
    s.status = "approved" /\ s.task \notin GoldTasks =>
        PassedByHuman(s) \/ (PassedByModel(s) /\ ~s.sampled)

(***************************************************************************)
(* C2, C3: an approved record of the dataset carries a pass of a reviewer  *)
(* who is not its author, or a pass of the model on an unsampled           *)
(* submission.  The offline heuristic alone never approves.                *)
(***************************************************************************)
ApprovedIsVouched == \A i \in DOMAIN subs : Vouched(subs[i])

(***************************************************************************)
(* Metering: a task of the dataset is billed exactly when a submission on  *)
(* it was approved, never twice however often it is reopened and approved  *)
(* again, and for a submission that is approved; gold tasks are free.      *)
(***************************************************************************)
ApprovedOn(t) == {i \in DOMAIN subs : subs[i].task = t /\ subs[i].status = "approved"}

MeteredOnce ==
    \A t \in Tasks :
        /\ Len(usage[t]) = IF t \notin GoldTasks /\ ApprovedOn(t) # {} THEN 1 ELSE 0
        /\ \A n \in DOMAIN usage[t] : usage[t][n] \in ApprovedOn(t)

(***************************************************************************)
(* Gate 1: in a project only the first submission of a content can get     *)
(* past the checks, so no two approved records share it - and a rejected   *)
(* or unfinished submission blocks its content for good.                   *)
(***************************************************************************)
ContentAdvancesOnce ==
    \A i, j \in DOMAIN subs :
        /\ i < j
        /\ ProjectOf[subs[i].task] = ProjectOf[subs[j].task]
        /\ subs[i].content = subs[j].content
        => subs[j].status = "auto_check_failed"

(* The contributor's approved records of the dataset. *)
ApprovedBy(e) ==
    {i \in DOMAIN subs : /\ subs[i].author = e /\ subs[i].status = "approved"
                         /\ subs[i].task \notin GoldTasks}

(***************************************************************************)
(* C3: nobody reaches lighter sampling without people having passed their  *)
(* first NewBelow records.  The one exception the code leaves is an id     *)
(* whose hash is exactly 1, which no rate samples.                         *)
(***************************************************************************)
TrustIsEarned ==
    \A e \in Experts :
        LET seen == {i \in ApprovedBy(e) : PassedByHuman(subs[i]) \/ subs[i].unsampleable}
        IN  Cardinality(ApprovedBy(e)) > NewBelow => Cardinality(seen) >= NewBelow

(***************************************************************************)
(* QM C1: a qualified contributor who has passed the exam of a track may   *)
(* work in it.                                                             *)
(***************************************************************************)
PassedExamCounts ==
    \A e \in Experts, k \in Tracks :
        expert[e].status = "qualified" /\ exams[e][k] > 0 => AssertQualified(e, k)
=============================================================================
