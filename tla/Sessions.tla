------------------------------ MODULE Sessions ------------------------------
(***************************************************************************)
(* The request handlers of the workflow when they overlap.  A handler is   *)
(* one transaction of factory/db.py at PostgreSQL's READ COMMITTED level:  *)
(*                                                                         *)
(*   Begin...  the handler's SELECTs: rows go into the session's identity  *)
(*             map, the controls and gates are decided on these copies and *)
(*             what the handler assigns becomes pending UPDATEs;           *)
(*   Flush     one pending UPDATE: waits for the row's lock and holds it   *)
(*             until the end; it writes the changed columns, as computed   *)
(*             from the copy;                                              *)
(*   Meter     record_approved_record's SELECT and INSERT;                 *)
(*   Commit    everything becomes visible, the locks are released;         *)
(*   Rollback  an error, or the worker is gone: nothing happened.          *)
(*                                                                         *)
(* The SELECTs of one handler are one step: they run back to back, while a *)
(* model call or a lock wait separates them from the writes.  One project  *)
(* with one track, after the exams.                                        *)
(*                                                                         *)
(* A worker serves one caller: requests with the same API key write the    *)
(* key's last_used_at first, and so wait for each other.                   *)
(***************************************************************************)
EXTENDS Controls, FiniteSets

CONSTANTS
    Experts, Reviewers,     \* qualified experts, and those who are reviewers
    Examined,               \* experts with a passed exam in the project's track
    Tasks, GoldTasks,       \* tasks of one project
    Contents,               \* content fingerprints
    AutoResults,            \* automated reviews that may come back
    MaxSubs,                \* bound: submissions
    Workers,                \* threads that serve requests, one caller each
    NoOne                   \* no expert, no worker

SubIds == 1 .. MaxSubs

ASSUME SessionsAssumption ==
    /\ Reviewers \cup Examined \subseteq Experts
    /\ GoldTasks \subseteq Tasks
    /\ AutoResults \subseteq AutoReviews
    /\ MaxSubs \in Nat
    /\ NoOne \notin Experts \cup Workers
    /\ Experts \cap Tasks = {} /\ (Experts \cup Tasks) \cap SubIds = {}  \* tables

VARIABLES
    expert, task, sub,  \* committed rows, by id
    reviews,            \* committed reviews
    usage,              \* committed usage events
    lock,               \* the worker that has written a row and not ended
    tx                  \* the open transaction of each worker

vars == <<expert, task, sub, reviews, usage, lock, tx>>

Rows == Experts \cup Tasks \cup SubIds

TaskRows == [status : {"open", "assigned", "completed"}, assigned : Experts \cup {NoOne}]

SubStatuses == {"absent", "auto_check_failed", "human_review", "needs_revision",
                "approved", "rejected"}

SubRows == [task : Tasks \cup {NoOne}, author : Experts \cup {NoOne},
            content : Contents \cup {NoOne}, sampled : BOOLEAN, status : SubStatuses]

NoSub == [task |-> NoOne, author |-> NoOne, content |-> NoOne, sampled |-> FALSE,
          status |-> "absent"]

Reviews == [sub : SubIds, kind : {"auto_llm", "human", "gold_check"},
            by : Experts \cup {"claude", "heuristic", "qc-engine"},
            verdict : {"pass", "fail", "revise"}]

UsageEvents == [task : Tasks, sub : SubIds]

(* No transaction is open. *)
NoTx == [open |-> FALSE, todo |-> {}, done |-> {}, reviews |-> {}, bill |-> {}, usage |-> {}]

TypeOK ==
    /\ expert \in [Experts -> ExpertRows]
    /\ task \in [Tasks -> TaskRows]
    /\ sub \in [SubIds -> SubRows]
    /\ reviews \subseteq Reviews
    /\ usage \subseteq UsageEvents
    /\ lock \in [Rows -> Workers \cup {NoOne}]
    /\ DOMAIN tx = Workers
    /\ \A w \in Workers :
        /\ DOMAIN tx[w] = DOMAIN NoTx
        /\ tx[w].reviews \subseteq Reviews
        /\ tx[w].bill \cup tx[w].usage \subseteq UsageEvents
        /\ ~tx[w].open => tx[w] = NoTx /\ \A r \in Rows : lock[r] # w
        /\ \A u \in tx[w].done : lock[u.row] = w

Init ==
    /\ expert = [e \in Experts |-> [NewExpertRow EXCEPT !.status = "qualified"]]
    /\ task = [t \in Tasks |-> [status |-> "open", assigned |-> NoOne]]
    /\ sub = [i \in SubIds |-> NoSub]
    /\ reviews = {}
    /\ usage = {}
    /\ lock = [r \in Rows |-> NoOne]
    /\ tx = [w \in Workers |-> NoTx]

-----------------------------------------------------------------------------
(* Writes. *)

(* Faulty variant: every column of the copy is written back. *)
Update_AllColumns(row, old, new) == [row |-> row, cols |-> new]

(* The ORM writes the columns whose value differs from the loaded one. *)
Update(row, old, new) ==
    [row |-> row, cols |-> [c \in {k \in DOMAIN old : old[k] # new[k]} |-> new[c]]]

(* A row none of whose columns changed is not written. *)
Updates(us) == {u \in us : DOMAIN u.cols # {}}

(* Faulty variant: rows are written in whatever order. *)
Before_Any(u, v) == TRUE

(* The unit of work flushes experts, then tasks, then submissions. *)
Before(u, v) ==
    \/ u.row \in Experts
    \/ u.row \in Tasks /\ v.row \notin Experts
    \/ v.row \in SubIds

(* The rows of a table after the writes us. *)
Written(table, us) ==
    [r \in DOMAIN table |->
        [c \in DOMAIN table[r] |->
            IF \E u \in us : u.row = r /\ c \in DOMAIN u.cols
            THEN (CHOOSE u \in us : u.row = r).cols[c]
            ELSE table[r][c]]]

(* Worker w has read what it needs and goes on to write. *)
Begin(w, todo, done, newReviews, bill) ==
    /\ ~tx[w].open
    /\ tx' = [tx EXCEPT ![w] = [open |-> TRUE, todo |-> Updates(todo), done |-> done,
                                reviews |-> newReviews, bill |-> bill, usage |-> {}]]
    /\ UNCHANGED <<expert, task, sub, reviews, usage>>

(* The row of e after an approval with this score. *)
Credited(e, score) == UpdateQualityScore([expert[e] EXCEPT !.approved = @ + 1], score)

Completed(t) == Update(t, task[t], [task[t] EXCEPT !.status = "completed"])

Billable(t, i) == IF t \in GoldTasks THEN {} ELSE {[task |-> t, sub |-> i]}

-----------------------------------------------------------------------------
(* POST /tasks/{id}/assign. *)

AssertQualified(e) == expert[e].status = "qualified" /\ e \in Examined

BeginAssign(w, t, e) ==
    /\ AssertQualified(e)
    /\ Begin(w, {Update(t, task[t], [status |-> "assigned", assigned |-> e])}, {}, {}, {})
    /\ UNCHANGED lock

-----------------------------------------------------------------------------
(* POST /tasks/{id}/submissions: engine.submit and engine.process. *)

(* Others' submissions that are not committed are not seen. *)
KnownContents == {sub[i].content : i \in {j \in SubIds : sub[j].status # "absent"}}

(* The INSERT of a submission; the new row's id is w's until it commits. *)
BeginSubmit(w, e, t, c, sampled, status, todo, review) ==
    /\ AssertQualified(e)
    /\ task[t].assigned \in {NoOne, e}
    /\ LET fresh == {i \in SubIds : sub[i].status = "absent" /\ lock[i] = NoOne}
       IN  \E i \in fresh :
            /\ \A j \in fresh : i <= j
            /\ lock' = [lock EXCEPT ![i] = w]
            /\ Begin(w, todo,
                   {[row |-> i, cols |-> [task |-> t, author |-> e, content |-> c,
                                          sampled |-> sampled, status |-> status]]},
                   {[sub |-> i, kind |-> r.kind, by |-> r.by, verdict |-> r.verdict] : r \in review},
                   IF status = "approved" THEN Billable(t, i) ELSE {})

SubmitFailsChecks(w, e, t, c) ==
    /\ c \in KnownContents
    /\ BeginSubmit(w, e, t, c, FALSE, "auto_check_failed", {}, {})

SubmitGold(w, e, t, c, matches) ==
    /\ c \notin KnownContents
    /\ t \in GoldTasks
    /\ \E row \in RegisterGoldResult(expert[e], matches) :
        BeginSubmit(w, e, t, c, FALSE, IF matches THEN "approved" ELSE "rejected",
            {Update(e, expert[e], row), Completed(t)},
            {[kind |-> "gold_check", by |-> "qc-engine",
              verdict |-> IF matches THEN "pass" ELSE "fail"]})

SubmitReviewed(w, e, t, c, bucket, r) ==
    LET sampled == IsSampled(bucket, expert[e])
        status == Route(r, sampled)
        review == {[kind |-> "auto_llm", by |-> r.by,
                    verdict |-> IF r.passed THEN "pass" ELSE "revise"]}
    IN  /\ c \notin KnownContents
        /\ t \notin GoldTasks
        /\ \/ /\ status # "approved"
              /\ BeginSubmit(w, e, t, c, sampled, status, {}, review)
           \/ /\ status = "approved"
              /\ \E row \in Credited(e, r.score) :
                  BeginSubmit(w, e, t, c, sampled, status,
                      {Update(e, expert[e], row), Completed(t)}, review)

-----------------------------------------------------------------------------
(* POST /submissions/{id}/human-review: engine.human_review. *)

(* Faulty variant: anybody with the role, the author included. *)
MayReview_NotIndependent(i, v) ==
    sub[i].status = "human_review" /\ v \in Reviewers /\ expert[v].status = "qualified"

MayReview(i, v) ==
    /\ sub[i].status = "human_review"
    /\ v # sub[i].author /\ v \in Reviewers /\ expert[v].status = "qualified"

BeginReview(w, i, v, todo, verdict, bill) ==
    /\ MayReview(i, v)
    /\ Begin(w, todo, {}, {[sub |-> i, kind |-> "human", by |-> v, verdict |-> verdict]}, bill)
    /\ UNCHANGED lock

Decided(i, status) == Update(i, sub[i], [sub[i] EXCEPT !.status = status])

(* The reviewer's scores are left out: the defaults 4.0 and 1.0 count. *)
ReviewPass(w, i, v) ==
    LET e == sub[i].author
        t == sub[i].task
    IN  /\ sub[i].status # "absent"
        /\ \E row \in Credited(e, 4*Unit) :
            BeginReview(w, i, v,
                {Update(e, expert[e], row), Completed(t), Decided(i, "approved")},
                "pass", Billable(t, i))

ReviewRevise(w, i, v) == BeginReview(w, i, v, {Decided(i, "needs_revision")}, "revise", {})

(* Faulty variant: a failed record is counted like an approved one. *)
ReviewFail_Counted(w, i, v) ==
    LET e == sub[i].author
    IN  /\ sub[i].status # "absent"
        /\ \E row \in Credited(e, Unit) :
            BeginReview(w, i, v, {Update(e, expert[e], row), Decided(i, "rejected")}, "fail", {})

ReviewFail(w, i, v) ==
    LET e == sub[i].author
    IN  /\ sub[i].status # "absent"
        /\ \E row \in UpdateQualityScore(expert[e], Unit) :
            BeginReview(w, i, v, {Update(e, expert[e], row), Decided(i, "rejected")}, "fail", {})

-----------------------------------------------------------------------------
(* What every transaction goes through. *)

Flush(w) ==
    \E u \in tx[w].todo :
        /\ \A v \in tx[w].todo : Before(u, v)
        /\ lock[u.row] \in {NoOne, w}
        /\ lock' = [lock EXCEPT ![u.row] = w]
        /\ tx' = [tx EXCEPT ![w].todo = @ \ {u}, ![w].done = @ \cup {u}]
        /\ UNCHANGED <<expert, task, sub, reviews, usage>>

(* Faulty variant: metering looks before the UPDATEs have their locks. *)
MayMeter_AnyTime(w) == tx[w].bill # {}

MayMeter(w) == tx[w].bill # {} /\ tx[w].todo = {}

(* At most one usage event per task, as far as committed ones show. *)
Meter(w) ==
    /\ MayMeter(w)
    /\ tx' = [tx EXCEPT ![w].bill = {},
                        ![w].usage = {u \in tx[w].bill : \A v \in usage : v.task # u.task}]
    /\ UNCHANGED <<expert, task, sub, reviews, usage, lock>>

(* Faulty variant: the status is committed before the metering. *)
MayCommit_Unmetered(w) == tx[w].open /\ tx[w].todo = {}

MayCommit(w) == tx[w].open /\ tx[w].todo = {} /\ tx[w].bill = {}

(* Faulty variant: the locks outlive the transaction. *)
Release_KeepsLocks(w) ==
    /\ tx' = [tx EXCEPT ![w] = NoTx]
    /\ UNCHANGED lock

Release(w) ==
    /\ lock' = [r \in Rows |-> IF lock[r] = w THEN NoOne ELSE lock[r]]
    /\ tx' = [tx EXCEPT ![w] = NoTx]

Commit(w) ==
    /\ MayCommit(w)
    /\ expert' = Written(expert, tx[w].done)
    /\ task' = Written(task, tx[w].done)
    /\ sub' = Written(sub, tx[w].done)
    /\ reviews' = reviews \cup tx[w].reviews
    /\ usage' = usage \cup tx[w].usage
    /\ Release(w)

Rollback(w) ==
    /\ tx[w].open
    /\ Release(w)
    /\ UNCHANGED <<expert, task, sub, reviews, usage>>

-----------------------------------------------------------------------------
Request(w) ==
    \/ \E t \in Tasks, e \in Experts : BeginAssign(w, t, e)
    \/ \E e \in Experts, t \in Tasks, c \in Contents : SubmitFailsChecks(w, e, t, c)
    \/ \E e \in Experts, t \in Tasks, c \in Contents, ok \in BOOLEAN :
           SubmitGold(w, e, t, c, ok)
    \/ \E e \in Experts, t \in Tasks, c \in Contents, b \in Buckets, r \in AutoResults :
           SubmitReviewed(w, e, t, c, b, r)
    \/ \E i \in SubIds, v \in Experts :
           ReviewPass(w, i, v) \/ ReviewRevise(w, i, v) \/ ReviewFail(w, i, v)

Next ==
    \E w \in Workers : Request(w) \/ Flush(w) \/ Meter(w) \/ Commit(w) \/ Rollback(w)

(* A worker that runs goes on; the server queues those who wait for a row.  *)
Fairness ==
    \A w \in Workers :
        /\ SF_vars(Flush(w))
        /\ WF_vars(Meter(w))
        /\ WF_vars(Commit(w))

Spec == Init /\ [][Next]_vars /\ Fairness

-----------------------------------------------------------------------------
(* What must hold. *)

(***************************************************************************)
(* Metering: however approvals overlap, a task is billed at most once.     *)
(* Nothing in the database says so; it rests on the UPDATE of the task     *)
(* row being flushed before record_approved_record looks.                  *)
(***************************************************************************)
BilledAtMostOnce == \A u, v \in usage : u.task = v.task => u = v

(***************************************************************************)
(* An approval and its bill are one transaction: no approved record of the *)
(* dataset is ever visible on a task that is not billed, whatever was      *)
(* rolled back.                                                            *)
(***************************************************************************)
ApprovalIsBilled ==
    \A i \in SubIds : sub[i].status = "approved" /\ sub[i].task \notin GoldTasks =>
        \E u \in usage : u.task = sub[i].task

Passes(i, kind) == {r \in reviews : r.sub = i /\ r.kind = kind /\ r.verdict = "pass"}

(***************************************************************************)
(* C2, C3: overlapping verdicts and stale copies never leave an approved   *)
(* record of the dataset without a pass by somebody other than its author, *)
(* or of the model on an unsampled submission.                             *)
(***************************************************************************)
ApprovedIsVouched ==
    \A i \in SubIds : sub[i].status = "approved" /\ sub[i].task \notin GoldTasks =>
        \/ \E r \in Passes(i, "human") : r.by # sub[i].author
        \/ ~sub[i].sampled /\ \E r \in Passes(i, "auto_llm") : r.by = "claude"

(***************************************************************************)
(* C3, C5: lost updates only delay trust.  The counter that grants lighter *)
(* sampling is never ahead of the passes the contributor was given.        *)
(***************************************************************************)
Credits(e) ==
    {i \in SubIds : /\ sub[i].author = e /\ sub[i].task \notin GoldTasks
                    /\ \/ Passes(i, "human") # {}
                       \/ sub[i].status = "approved"}

CountNeverAhead == \A e \in Experts : expert[e].approved <= Cardinality(Credits(e))

(***************************************************************************)
(* C4, C5: rows are written column by column, from copies that may be      *)
(* stale; still nobody is left qualified whose own row says otherwise.     *)
(***************************************************************************)
QualifiedInGoodStanding ==
    \A e \in Experts : expert[e].status = "qualified" =>
        /\ expert[e].quality >= SuspendBelow
        /\ expert[e].goldFail < GoldSuspendFails

(***************************************************************************)
(* A handler that read the contributor before the suspension does not undo *)
(* it when it commits after.                                               *)
(***************************************************************************)
SuspensionIsFinal ==
    [][\A e \in Experts : expert[e].status = "suspended" => expert'[e].status = "suspended"]_vars

(***************************************************************************)
(* No deadlock on row locks: every request that begins ends.               *)
(***************************************************************************)
RequestsEnd == \A w \in Workers : tx[w].open ~> ~tx[w].open

(***************************************************************************)
(* What the engine's docstring draws: one verdict decides a submission, so *)
(* what was billed is an approved record.                                  *)
(***************************************************************************)
BilledIsApproved == \A u \in usage : sub[u.sub].status = "approved"
=============================================================================
