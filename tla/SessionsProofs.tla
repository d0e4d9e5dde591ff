--------------------------- MODULE SessionsProofs ---------------------------
(***************************************************************************)
(* Theorems about Sessions, for any number of workers, contributors, tasks *)
(* and submissions.                                                        *)
(*                                                                         *)
(* The inductive invariant says of the committed rows what the properties  *)
(* say and a little more (RowsInv), and of every open transaction what its *)
(* writes may do to rows that others have changed since they were read     *)
(* (TxInv).  Two facts carry it: a written row stays locked to the end,    *)
(* and a write has only the columns that the handler changed.              *)
(***************************************************************************)
EXTENDS Sessions, ControlsProofs, FiniteSetTheorems

-----------------------------------------------------------------------------
(* The inductive invariant. *)

(* What worker w has written or is going to write. *)
Pending(w) == tx[w].todo \cup tx[w].done

(* The usage of task t is recorded, or will be when w commits. *)
Paying(w, t) == \E x \in tx[w].bill \cup tx[w].usage \cup usage : x.task = t

(* When w commits, submission i counts for e. *)
Earning(w, e, i) ==
    \/ /\ sub[i].author = e /\ sub[i].task \notin GoldTasks
       /\ \E r \in tx[w].reviews : r.sub = i /\ r.kind = "human" /\ r.verdict = "pass"
    \/ \E u \in tx[w].done :
           /\ u.row = i /\ "author" \in DOMAIN u.cols
           /\ u.cols.author = e /\ u.cols.task \notin GoldTasks /\ u.cols.status = "approved"

(* A write of a contributor's row can suspend, and counts only what is      *)
(* earned; what it takes below a threshold it suspends, if that is not done *)
(* already.                                                                 *)
ExpertWrite(w, u) ==
    LET new == u.cols
    IN  /\ DOMAIN new \subseteq {"status", "quality", "approved", "goldPass", "goldFail"}
        /\ "status" \in DOMAIN new => new.status = "suspended"
        /\ "quality" \in DOMAIN new =>
             /\ new.quality \in 0 .. MaxScore
             /\ \/ new.quality >= SuspendBelow
                \/ "status" \in DOMAIN new
                \/ expert[u.row].status # "qualified"
        /\ "goldFail" \in DOMAIN new =>
             /\ new.goldFail \in Nat
             /\ \/ new.goldFail < GoldSuspendFails
                \/ "status" \in DOMAIN new
                \/ expert[u.row].status # "qualified"
        /\ "goldPass" \in DOMAIN new => new.goldPass \in Nat
        /\ "approved" \in DOMAIN new =>
             /\ new.approved \in Nat
             /\ \E i \in SubIds :
                  /\ Earning(w, u.row, i)
                  /\ new.approved <= Cardinality(Credits(u.row) \cup {i})

(* A write of a task's row assigns it, or completes it and pays for it. *)
TaskWrite(w, u) ==
    LET new == u.cols
    IN  /\ DOMAIN new \subseteq {"status", "assigned"}
        /\ "assigned" \in DOMAIN new => new.assigned \in Experts \cup {NoOne}
        /\ "status" \in DOMAIN new => new.status \in {"assigned", "completed"}
        /\ "status" \in DOMAIN new /\ new.status = "completed" /\ u.row \notin GoldTasks =>
             Paying(w, u.row)

(* The INSERT of a submission that w has numbered. *)
NewSub(w, u) ==
    /\ u \in tx[w].done
    /\ sub[u.row] = NoSub
    /\ u.cols \in SubRows
    /\ u.cols.author \in Experts /\ u.cols.task \in Tasks /\ u.cols.status # "absent"
    /\ u.cols.status = "human_review" => u.cols.task \notin GoldTasks
    /\ u.cols.status = "approved" /\ u.cols.task \notin GoldTasks =>
         /\ Paying(w, u.cols.task)
         /\ ~u.cols.sampled
         /\ \E r \in tx[w].reviews :
                r.sub = u.row /\ r.kind = "auto_llm" /\ r.verdict = "pass" /\ r.by = "claude"

(* The UPDATE of a submission's status after a person's verdict. *)
Verdict(w, u) ==
    /\ DOMAIN u.cols = {"status"}
    /\ u.cols.status \in {"approved", "needs_revision", "rejected"}
    /\ sub[u.row].status # "absent"
    /\ sub[u.row].status = "approved" => Passes(u.row, "human") # {}
    /\ u.cols.status = "approved" =>
         /\ \E r \in tx[w].reviews : /\ r.sub = u.row /\ r.kind = "human" /\ r.verdict = "pass"
                                     /\ r.by # sub[u.row].author
         /\ sub[u.row].task \notin GoldTasks => Paying(w, sub[u.row].task)

WriteOK(w, u) ==
    /\ u.row \in Rows
    /\ u.row \in Experts => ExpertWrite(w, u)
    /\ u.row \in Tasks => TaskWrite(w, u)
    /\ u.row \in SubIds => NewSub(w, u) \/ Verdict(w, u)

TxShape(w) ==
    /\ DOMAIN tx[w] = DOMAIN NoTx
    /\ tx[w].open \in BOOLEAN
    /\ tx[w].reviews \subseteq Reviews
    /\ tx[w].bill \cup tx[w].usage \subseteq UsageEvents
    /\ ~tx[w].open => tx[w] = NoTx /\ \A r \in Rows : lock[r] # w

(* One write per row; what is written is locked. *)
TxWrites(w) ==
    /\ \A u \in Pending(w) : WriteOK(w, u)
    /\ \A u, v \in Pending(w) : u.row = v.row => u = v
    /\ \A u \in tx[w].done : lock[u.row] = w

(* One usage event per transaction; to bill a task one must have its row,   *)
(* and what w has found unbilled stays so until w ends.                     *)
TxBills(w) ==
    /\ \A x, y \in tx[w].bill \cup tx[w].usage : x = y
    /\ tx[w].bill = {} \/ tx[w].usage = {}
    /\ \A x \in tx[w].bill :
         (\E y \in usage : y.task = x.task) \/ (\E u \in Pending(w) : u.row = x.task)
    /\ \A x \in tx[w].usage : lock[x.task] = w /\ \A y \in usage : y.task # x.task

(* A review comes with a write of its submission: the verdict of a person,  *)
(* or the INSERT.                                                           *)
TxReviews(w) ==
    \A r \in tx[w].reviews : \E u \in Pending(w) :
        u.row = r.sub /\ (r.kind = "human" <=> "author" \notin DOMAIN u.cols)

TxInv(w) == TxShape(w) /\ TxWrites(w) /\ TxBills(w) /\ TxReviews(w)

(* A submission that waits for a person is one of the dataset and has no    *)
(* person's review; an id in use has an author and a task.                  *)
SubInv(i) ==
    /\ sub[i].status = "absent" => sub[i] = NoSub /\ \A r \in reviews : r.sub # i
    /\ sub[i].status # "absent" => sub[i].author \in Experts /\ sub[i].task \in Tasks
    /\ sub[i].status = "human_review" =>
         sub[i].task \notin GoldTasks /\ \A r \in reviews : r.sub = i => r.kind # "human"

CompletedIsBilled ==
    \A t \in Tasks \ GoldTasks : task[t].status = "completed" => \E u \in usage : u.task = t

RowTypes ==
    /\ expert \in [Experts -> ExpertRows]
    /\ task \in [Tasks -> TaskRows]
    /\ sub \in [SubIds -> SubRows]
    /\ reviews \subseteq Reviews
    /\ usage \subseteq UsageEvents
    /\ lock \in [Rows -> Workers \cup {NoOne}]
    /\ DOMAIN tx = Workers

RowsInv ==
    /\ \A i \in SubIds : SubInv(i)
    /\ CompletedIsBilled
    /\ BilledAtMostOnce
    /\ ApprovalIsBilled
    /\ ApprovedIsVouched
    /\ CountNeverAhead
    /\ QualifiedInGoodStanding

IInv == RowTypes /\ RowsInv /\ \A w \in Workers : TxInv(w)

-----------------------------------------------------------------------------
(* Writes and the rows they leave. *)

(* The ORM's UPDATE has the columns that differ, with their new values. *)
LEMMA UpdateCols ==
    ASSUME NEW row, NEW old, NEW new
    PROVE  /\ Update(row, old, new).row = row
           /\ DOMAIN Update(row, old, new).cols = {c \in DOMAIN old : old[c] # new[c]}
           /\ \A c \in DOMAIN Update(row, old, new).cols :
                  Update(row, old, new).cols[c] = new[c]
BY DEF Update

(* The only write of a row decides the columns it has. *)
LEMMA WrittenRow ==
    ASSUME NEW table, NEW us, NEW u \in us, u.row \in DOMAIN table,
           \A v \in us : v.row = u.row => v = u
    PROVE  Written(table, us)[u.row] =
               [c \in DOMAIN table[u.row] |->
                   IF c \in DOMAIN u.cols THEN u.cols[c] ELSE table[u.row][c]]
<1>1. (CHOOSE v \in us : v.row = u.row) = u
  OBVIOUS
<1>2. \A c : (\E v \in us : v.row = u.row /\ c \in DOMAIN v.cols) <=> c \in DOMAIN u.cols
  OBVIOUS
<1> QED
  BY <1>1, <1>2 DEF Written

(* A row that nothing writes keeps its columns. *)
LEMMA OtherRow ==
    ASSUME NEW table, NEW us, NEW r \in DOMAIN table, \A u \in us : u.row # r
    PROVE  Written(table, us)[r] = [c \in DOMAIN table[r] |-> table[r][c]]
BY DEF Written

(* The rows of the three tables have the ids they had. *)
LEMMA WrittenDomain ==
    ASSUME NEW table, NEW us
    PROVE  Written(table, us) = [r \in DOMAIN table |-> Written(table, us)[r]]
BY DEF Written

(* What a commit leaves of a contributor's row. *)
LEMMA CommittedExpert ==
    ASSUME IInv, NEW w \in Workers, Commit(w), NEW e \in Experts
    PROVE  /\ expert'[e] \in ExpertRows
           /\ \/ expert'[e] = expert[e]
              \/ \E u \in tx[w].done :
                   /\ u.row = e /\ ExpertWrite(w, u)
                   /\ \A c \in {"status", "quality", "approved", "goldPass", "goldFail"} :
                          expert'[e][c] = IF c \in DOMAIN u.cols THEN u.cols[c] ELSE expert[e][c]
<1> DEFINE cs == {"status", "quality", "approved", "goldPass", "goldFail"}
<1>1. /\ expert' = Written(expert, tx[w].done)
      /\ DOMAIN expert = Experts /\ expert[e] \in ExpertRows
      /\ \A u \in tx[w].done : WriteOK(w, u)
      /\ \A u, v \in tx[w].done : u.row = v.row => u = v
  BY DEF Commit, IInv, RowTypes, TxInv, TxWrites, Pending
<1>2. DOMAIN expert[e] = cs
  BY <1>1 DEF ExpertRows
<1>3. CASE \E u \in tx[w].done : u.row = e
  <2>1. PICK u \in tx[w].done : u.row = e
    BY <1>3
  <2>2. expert'[e] = [c \in cs |-> IF c \in DOMAIN u.cols THEN u.cols[c] ELSE expert[e][c]]
    <3>1. Written(expert, tx[w].done)[e] =
            [c \in DOMAIN expert[e] |-> IF c \in DOMAIN u.cols THEN u.cols[c] ELSE expert[e][c]]
      BY <1>1, <2>1, WrittenRow
    <3> QED
      BY <1>1, <1>2, <3>1
  <2>3. ExpertWrite(w, u)
    BY <1>1, <2>1 DEF WriteOK
  <2>4. /\ expert'[e].status \in ExpertStatuses
        /\ expert'[e].quality \in 0 .. MaxScore
        /\ expert'[e].approved \in Nat
        /\ expert'[e].goldPass \in Nat
        /\ expert'[e].goldFail \in Nat
    BY <1>1, <2>2, <2>3 DEF ExpertWrite, ExpertRows, ExpertStatuses
  <2>5. expert'[e] = [status |-> expert'[e].status, quality |-> expert'[e].quality,
                      approved |-> expert'[e].approved, goldPass |-> expert'[e].goldPass,
                      goldFail |-> expert'[e].goldFail]
    BY <2>2
  <2>6. expert'[e] \in ExpertRows
    BY <2>4, <2>5 DEF ExpertRows
  <2> QED
    BY <2>1, <2>2, <2>3, <2>6
<1>4. CASE \A u \in tx[w].done : u.row # e
  <2>1. expert'[e] = [c \in cs |-> expert[e][c]]
    <3>1. Written(expert, tx[w].done)[e] = [c \in DOMAIN expert[e] |-> expert[e][c]]
      BY <1>1, <1>4, OtherRow
    <3> QED
      BY <1>1, <1>2, <3>1
  <2>2. expert'[e] = expert[e]
    BY <1>1, <1>2, <2>1 DEF ExpertRows
  <2> QED
    BY <1>1, <2>2
<1> QED
  BY <1>3, <1>4

(* What a commit leaves of a task's row. *)
LEMMA CommittedTask ==
    ASSUME IInv, NEW w \in Workers, Commit(w), NEW t \in Tasks
    PROVE  /\ task'[t] \in TaskRows
           /\ \/ task'[t] = task[t]
              \/ \E u \in tx[w].done :
                   /\ u.row = t /\ TaskWrite(w, u)
                   /\ \A c \in {"status", "assigned"} :
                          task'[t][c] = IF c \in DOMAIN u.cols THEN u.cols[c] ELSE task[t][c]
<1> DEFINE cs == {"status", "assigned"}
<1>1. /\ task' = Written(task, tx[w].done)
      /\ DOMAIN task = Tasks /\ task[t] \in TaskRows
      /\ \A u \in tx[w].done : WriteOK(w, u)
      /\ \A u, v \in tx[w].done : u.row = v.row => u = v
  BY DEF Commit, IInv, RowTypes, TxInv, TxWrites, Pending
<1>2. DOMAIN task[t] = cs
  BY <1>1 DEF TaskRows
<1>3. CASE \E u \in tx[w].done : u.row = t
  <2>1. PICK u \in tx[w].done : u.row = t
    BY <1>3
  <2>2. task'[t] = [c \in cs |-> IF c \in DOMAIN u.cols THEN u.cols[c] ELSE task[t][c]]
    <3>1. Written(task, tx[w].done)[t] =
            [c \in DOMAIN task[t] |-> IF c \in DOMAIN u.cols THEN u.cols[c] ELSE task[t][c]]
      BY <1>1, <2>1, WrittenRow
    <3> QED
      BY <1>1, <1>2, <3>1
  <2>3. TaskWrite(w, u)
    BY <1>1, <2>1 DEF WriteOK
  <2>4. /\ task'[t].status \in {"open", "assigned", "completed"}
        /\ task'[t].assigned \in Experts \cup {NoOne}
    BY <1>1, <2>2, <2>3 DEF TaskWrite, TaskRows
  <2>5. task'[t] = [status |-> task'[t].status, assigned |-> task'[t].assigned]
    BY <2>2
  <2>6. task'[t] \in TaskRows
    BY <2>4, <2>5 DEF TaskRows
  <2> QED
    BY <2>1, <2>2, <2>3, <2>6
<1>4. CASE \A u \in tx[w].done : u.row # t
  <2>1. task'[t] = [c \in cs |-> task[t][c]]
    <3>1. Written(task, tx[w].done)[t] = [c \in DOMAIN task[t] |-> task[t][c]]
      BY <1>1, <1>4, OtherRow
    <3> QED
      BY <1>1, <1>2, <3>1
  <2>2. task'[t] = task[t]
    BY <1>1, <1>2, <2>1 DEF TaskRows
  <2> QED
    BY <1>1, <2>2
<1> QED
  BY <1>3, <1>4

(* What a commit leaves of a submission's row: what it was, the INSERT, or a *)
(* new status.                                                               *)
LEMMA CommittedSub ==
    ASSUME IInv, NEW w \in Workers, Commit(w), NEW i \in SubIds
    PROVE  /\ sub'[i] \in SubRows
           /\ \/ sub'[i] = sub[i] /\ \A u \in tx[w].done : u.row # i
              \/ \E u \in tx[w].done : u.row = i /\ NewSub(w, u) /\ sub'[i] = u.cols
              \/ \E u \in tx[w].done :
                   /\ u.row = i /\ Verdict(w, u)
                   /\ sub'[i].task = sub[i].task /\ sub'[i].author = sub[i].author
                   /\ sub'[i].sampled = sub[i].sampled
                   /\ sub'[i].status = u.cols.status
<1> DEFINE cs == {"task", "author", "content", "sampled", "status"}
<1>1. /\ sub' = Written(sub, tx[w].done)
      /\ DOMAIN sub = SubIds /\ sub[i] \in SubRows
      /\ \A u \in tx[w].done : WriteOK(w, u)
      /\ \A u, v \in tx[w].done : u.row = v.row => u = v
  BY DEF Commit, IInv, RowTypes, TxInv, TxWrites, Pending
<1>2. DOMAIN sub[i] = cs
  BY <1>1 DEF SubRows
<1>3. CASE \E u \in tx[w].done : u.row = i
  <2>1. PICK u \in tx[w].done : u.row = i
    BY <1>3
  <2>2. sub'[i] = [c \in cs |-> IF c \in DOMAIN u.cols THEN u.cols[c] ELSE sub[i][c]]
    <3>1. Written(sub, tx[w].done)[i] =
            [c \in DOMAIN sub[i] |-> IF c \in DOMAIN u.cols THEN u.cols[c] ELSE sub[i][c]]
      BY <1>1, <2>1, WrittenRow
    <3> QED
      BY <1>1, <1>2, <3>1
  <2>3. NewSub(w, u) \/ Verdict(w, u)
    BY <1>1, <2>1 DEF WriteOK
  <2>4. CASE NewSub(w, u)
    <3>1. u.cols \in SubRows /\ DOMAIN u.cols = cs
      BY <2>4 DEF NewSub, SubRows
    <3>2. sub'[i] = [c \in cs |-> u.cols[c]]
      BY <2>2, <3>1
    <3>3. sub'[i] = u.cols
      BY <3>1, <3>2 DEF SubRows
    <3> QED
      BY <2>1, <2>4, <3>1, <3>3
  <2>5. CASE Verdict(w, u)
    <3>1. DOMAIN u.cols = {"status"} /\ u.cols.status \in SubStatuses
      BY <2>5 DEF Verdict, SubStatuses
    <3>2. sub'[i] = [sub[i] EXCEPT !.status = u.cols.status]
      <4>1. sub'[i] = [task |-> sub[i].task, author |-> sub[i].author, content |-> sub[i].content,
                       sampled |-> sub[i].sampled, status |-> u.cols.status]
        BY <2>2, <3>1
      <4> QED
        BY <1>1, <4>1 DEF SubRows
    <3> QED
      BY <1>1, <2>1, <2>5, <3>1, <3>2 DEF SubRows
  <2> QED
    BY <2>3, <2>4, <2>5
<1>4. CASE \A u \in tx[w].done : u.row # i
  <2>1. sub'[i] = [c \in cs |-> sub[i][c]]
    <3>1. Written(sub, tx[w].done)[i] = [c \in DOMAIN sub[i] |-> sub[i][c]]
      BY <1>1, <1>4, OtherRow
    <3> QED
      BY <1>1, <1>2, <3>1
  <2>2. sub'[i] = sub[i]
    BY <1>1, <1>2, <2>1 DEF SubRows
  <2> QED
    BY <1>1, <1>4, <2>2
<1> QED
  BY <1>3, <1>4

-----------------------------------------------------------------------------
(* What a commit does to what is counted. *)

(* The reviews and usage of the transaction become visible, and its bill is *)
(* settled.                                                                 *)
LEMMA CommitAdds ==
    ASSUME IInv, NEW w \in Workers, Commit(w)
    PROVE  /\ reviews' = reviews \cup tx[w].reviews
           /\ usage' = usage \cup tx[w].usage
           /\ tx[w].bill = {} /\ tx[w].todo = {} /\ Pending(w) = tx[w].done
           /\ \A t : Paying(w, t) => \E x \in usage' : x.task = t
BY DEF Commit, MayCommit, Paying, Pending

(* A submission in use stays whose it is, and comes to wait for nobody. *)
LEMMA SubKept ==
    ASSUME IInv, NEW w \in Workers, Commit(w), NEW i \in SubIds, sub[i].status # "absent"
    PROVE  /\ sub'[i].task = sub[i].task /\ sub'[i].author = sub[i].author
           /\ sub'[i].sampled = sub[i].sampled
           /\ \/ sub'[i] = sub[i]
              \/ \E u \in tx[w].done : u.row = i /\ Verdict(w, u) /\ sub'[i].status = u.cols.status
<1>1. ~(sub[i] = NoSub)
  BY DEF NoSub
<1> QED
  BY <1>1, CommittedSub DEF NewSub

(* The row of a contributor's submission is in use. *)
LEMMA AuthorKnown ==
    ASSUME IInv, NEW i \in SubIds, sub[i].author \in Experts
    PROVE  sub[i].status # "absent"
BY SessionsAssumption DEF IInv, RowsInv, SubInv, NoSub

(* No commit takes a credit away. *)
LEMMA CreditsGrow ==
    ASSUME IInv, NEW w \in Workers, Commit(w), NEW e \in Experts
    PROVE  Credits(e) \subseteq Credits(e)'
<1> SUFFICES ASSUME NEW i \in Credits(e) PROVE i \in Credits(e)'
  OBVIOUS
<1>1. /\ i \in SubIds /\ sub[i].author = e /\ sub[i].task \notin GoldTasks
      /\ Passes(i, "human") # {} \/ sub[i].status = "approved"
  BY DEF Credits
<1>2. sub'[i].author = e /\ sub'[i].task \notin GoldTasks
  BY <1>1, AuthorKnown, SubKept
<1>3. CASE Passes(i, "human") # {}
  <2>1. Passes(i, "human")' # {}
    BY <1>3, CommitAdds DEF Passes
  <2> QED
    BY <1>1, <1>2, <2>1 DEF Credits
<1>4. CASE Passes(i, "human") = {}
  <2>1. sub'[i] = sub[i]
    BY <1>1, <1>4, AuthorKnown, SubKept DEF Verdict
  <2> QED
    BY <1>1, <1>2, <1>4, <2>1 DEF Credits
<1> QED
  BY <1>3, <1>4

(* What a transaction was to earn counts when it has committed. *)
LEMMA EarningCounts ==
    ASSUME IInv, NEW w \in Workers, Commit(w), NEW e \in Experts, NEW i \in SubIds,
           Earning(w, e, i)
    PROVE  i \in Credits(e)'
<1>1. CASE /\ sub[i].author = e /\ sub[i].task \notin GoldTasks
           /\ \E r \in tx[w].reviews : r.sub = i /\ r.kind = "human" /\ r.verdict = "pass"
  <2>1. sub'[i].author = e /\ sub'[i].task \notin GoldTasks
    BY <1>1, AuthorKnown, SubKept
  <2>2. Passes(i, "human")' # {}
    BY <1>1, CommitAdds DEF Passes
  <2> QED
    BY <2>1, <2>2 DEF Credits
<1>2. ASSUME NEW u \in tx[w].done,
             /\ u.row = i /\ "author" \in DOMAIN u.cols
             /\ u.cols.author = e /\ u.cols.task \notin GoldTasks /\ u.cols.status = "approved"
      PROVE  i \in Credits(e)'
  <2>1. \A v \in tx[w].done : v.row = i => v = u
    BY <1>2 DEF IInv, TxInv, TxWrites, Pending
  <2>2. ~Verdict(w, u)
    BY <1>2 DEF Verdict
  <2>3. sub'[i] = u.cols
    BY <1>2, <2>1, <2>2, CommittedSub
  <2> QED
    BY <1>2, <2>3 DEF Credits
<1> QED
  BY <1>1, <1>2 DEF Earning

(* Credits are a finite set of submissions. *)
LEMMA CreditsFinite ==
    ASSUME NEW e
    PROVE  IsFiniteSet(SubIds) /\ Credits(e) \subseteq SubIds
BY SessionsAssumption, FS_Interval DEF Credits, SubIds

(* A commit that may count a submission lets the count be that high. *)
LEMMA CountCovered ==
    ASSUME IInv, NEW w \in Workers, Commit(w), NEW e \in Experts, NEW extra \in SUBSET SubIds,
           extra \subseteq Credits(e)'
    PROVE  /\ Cardinality(Credits(e) \cup extra) \in Nat
           /\ Cardinality(Credits(e)') \in Nat
           /\ Cardinality(Credits(e) \cup extra) <= Cardinality(Credits(e)')
<1> DEFINE before == Credits(e) \cup extra
<1>1. PICK after : after = Credits(e)'
  OBVIOUS
<1>2. after \subseteq SubIds /\ before \subseteq after /\ before \subseteq SubIds
  BY <1>1, CreditsGrow, CreditsFinite DEF Credits
<1>3. IsFiniteSet(SubIds)
  BY CreditsFinite
<1> HIDE DEF before
<1>4. IsFiniteSet(after) /\ IsFiniteSet(before)
  BY <1>2, <1>3, FS_Subset
<1>5. Cardinality(after) \in Nat /\ Cardinality(before) \in Nat
      /\ Cardinality(before) <= Cardinality(after)
  BY <1>2, <1>4, FS_Subset, FS_CardinalityType
<1> QED
  BY <1>1, <1>5 DEF before

-----------------------------------------------------------------------------
(* A commit keeps what is said of the committed rows. *)

LEMMA CommitKeepsSubs ==
    ASSUME IInv, NEW w \in Workers, Commit(w), NEW i \in SubIds
    PROVE  SubInv(i)'
<1>1. SubInv(i) /\ TxInv(w)
  BY DEF IInv, RowsInv
<1>2. CASE sub'[i] = sub[i] /\ \A u \in tx[w].done : u.row # i
  <2>1. \A r \in tx[w].reviews : r.sub # i
    BY <1>1, <1>2, CommitAdds DEF TxInv, TxReviews
  <2>2. \A r \in reviews' : r.sub = i => r \in reviews
    BY <2>1, CommitAdds
  <2> QED
    BY <1>1, <1>2, <2>2 DEF SubInv
<1>3. ASSUME NEW u \in tx[w].done, u.row = i, NewSub(w, u), sub'[i] = u.cols
      PROVE  SubInv(i)'
  <2>1. \A r \in reviews : r.sub # i
    BY <1>1, <1>3 DEF SubInv, NewSub, NoSub
  <2>2. \A v \in Pending(w) : v.row = i => v = u
    BY <1>1, <1>3 DEF TxInv, TxWrites, Pending
  <2>3. "author" \in DOMAIN u.cols
    BY <1>3 DEF NewSub, SubRows
  <2>4. \A r \in reviews' : r.sub = i => r.kind # "human"
    BY <1>1, <2>1, <2>2, <2>3, CommitAdds DEF TxInv, TxReviews
  <2> QED
    BY <1>3, <2>4 DEF SubInv, NewSub
<1>4. ASSUME NEW u \in tx[w].done, u.row = i, Verdict(w, u), sub'[i].task = sub[i].task,
             sub'[i].author = sub[i].author, sub'[i].status = u.cols.status
      PROVE  SubInv(i)'
  BY <1>1, <1>4 DEF SubInv, Verdict
<1> QED
  BY <1>2, <1>3, <1>4, CommittedSub

LEMMA CommitKeepsCompleted ==
    ASSUME IInv, NEW w \in Workers, Commit(w)
    PROVE  CompletedIsBilled'
<1> SUFFICES ASSUME NEW t \in Tasks \ GoldTasks, task'[t].status = "completed"
             PROVE  \E x \in usage' : x.task = t
  BY DEF CompletedIsBilled
<1>1. CASE task[t].status = "completed"
  BY <1>1, CommitAdds DEF IInv, RowsInv, CompletedIsBilled
<1>2. CASE task[t].status # "completed"
  <2>1. Paying(w, t)
    BY <1>2, CommittedTask DEF TaskWrite
  <2> QED
    BY <2>1, CommitAdds
<1> QED
  BY <1>1, <1>2

LEMMA CommitBillsOnce ==
    ASSUME IInv, NEW w \in Workers, Commit(w)
    PROVE  BilledAtMostOnce'
BY CommitAdds DEF IInv, RowsInv, TxInv, TxBills, BilledAtMostOnce

LEMMA CommitBillsApproval ==
    ASSUME IInv, NEW w \in Workers, Commit(w)
    PROVE  ApprovalIsBilled'
<1> SUFFICES ASSUME NEW i \in SubIds, sub'[i].status = "approved", sub'[i].task \notin GoldTasks
             PROVE  \E x \in usage' : x.task = sub'[i].task
  BY DEF ApprovalIsBilled
<1>1. CASE sub'[i] = sub[i]
  BY <1>1, CommitAdds DEF IInv, RowsInv, ApprovalIsBilled
<1>2. CASE sub'[i] # sub[i]
  <2>1. Paying(w, sub'[i].task)
    BY <1>2, CommittedSub DEF NewSub, Verdict
  <2> QED
    BY <2>1, CommitAdds
<1> QED
  BY <1>1, <1>2

LEMMA CommitVouches ==
    ASSUME IInv, NEW w \in Workers, Commit(w)
    PROVE  ApprovedIsVouched'
<1> SUFFICES ASSUME NEW i \in SubIds, sub'[i].status = "approved", sub'[i].task \notin GoldTasks
             PROVE  \/ \E r \in reviews' : /\ r.sub = i /\ r.kind = "human" /\ r.verdict = "pass"
                                           /\ r.by # sub'[i].author
                    \/ ~sub'[i].sampled /\ \E r \in reviews' :
                           r.sub = i /\ r.kind = "auto_llm" /\ r.verdict = "pass" /\ r.by = "claude"
  BY DEF ApprovedIsVouched, Passes
<1>1. CASE sub'[i] = sub[i]
  BY <1>1, CommitAdds DEF IInv, RowsInv, ApprovedIsVouched, Passes
<1>2. CASE sub'[i] # sub[i]
  BY <1>2, CommittedSub, CommitAdds DEF NewSub, Verdict
<1> QED
  BY <1>1, <1>2

LEMMA CommitCounts ==
    ASSUME IInv, NEW w \in Workers, Commit(w)
    PROVE  CountNeverAhead'
<1> SUFFICES ASSUME NEW e \in Experts
             PROVE  expert'[e].approved <= Cardinality(Credits(e)')
  BY DEF CountNeverAhead
<1>1. /\ expert[e].approved \in Nat /\ expert[e].approved <= Cardinality(Credits(e))
      /\ expert'[e].approved \in Nat
  BY CommittedExpert DEF IInv, RowTypes, ExpertRows, RowsInv, CountNeverAhead
<1>2. CASE expert'[e].approved = expert[e].approved
  <2>1. {} \in SUBSET SubIds /\ {} \subseteq Credits(e)' /\ Credits(e) \cup {} = Credits(e)
    OBVIOUS
  <2>2. /\ Cardinality(Credits(e) \cup {}) \in Nat /\ Cardinality(Credits(e)') \in Nat
        /\ Cardinality(Credits(e) \cup {}) <= Cardinality(Credits(e)')
    BY <2>1, CountCovered
  <2>3. /\ Cardinality(Credits(e)) \in Nat
        /\ Cardinality(Credits(e)) <= Cardinality(Credits(e)')
    BY <2>1, <2>2
  <2> QED
    BY <1>1, <1>2, <2>2, <2>3
<1>3. CASE expert'[e].approved # expert[e].approved
  <2>1. PICK i \in SubIds : /\ Earning(w, e, i)
                            /\ expert'[e].approved <= Cardinality(Credits(e) \cup {i})
    BY <1>3, CommittedExpert DEF ExpertWrite
  <2>2. {i} \in SUBSET SubIds /\ {i} \subseteq Credits(e)'
    BY <2>1, EarningCounts
  <2>3. /\ Cardinality(Credits(e) \cup {i}) \in Nat /\ Cardinality(Credits(e)') \in Nat
        /\ Cardinality(Credits(e) \cup {i}) <= Cardinality(Credits(e)')
    BY <2>2, CountCovered
  <2> QED
    BY <1>1, <2>1, <2>3
<1> QED
  BY <1>2, <1>3

LEMMA CommitKeepsStanding ==
    ASSUME IInv, NEW w \in Workers, Commit(w), NEW e \in Experts
    PROVE  /\ expert'[e].status = "qualified" =>
                /\ expert[e].status = "qualified"
                /\ expert'[e].quality >= SuspendBelow
                /\ expert'[e].goldFail < GoldSuspendFails
           /\ expert[e].status = "suspended" => expert'[e].status = "suspended"
<1>1. expert[e].status = "qualified" =>
          expert[e].quality >= SuspendBelow /\ expert[e].goldFail < GoldSuspendFails
  BY DEF IInv, RowsInv, QualifiedInGoodStanding
<1> QED
  BY <1>1, CommittedExpert DEF ExpertWrite

-----------------------------------------------------------------------------
(* The transactions that stay open while another one commits. *)

(* A row that v has written is v's: the commit of w leaves it alone. *)
LEMMA LockedKept ==
    ASSUME IInv, NEW w \in Workers, Commit(w), NEW v \in Workers \ {w}, NEW u \in tx[v].done,
           u.row \in SubIds
    PROVE  sub'[u.row] = sub[u.row]
<1>1. \A x \in tx[w].done : x.row # u.row
  BY DEF IInv, TxInv, TxWrites
<1> QED
  BY <1>1, CommittedSub

LEMMA PayingStays ==
    ASSUME IInv, NEW w \in Workers, Commit(w), NEW v \in Workers \ {w}, tx'[v] = tx[v],
           NEW t, Paying(v, t)
    PROVE  Paying(v, t)'
BY CommitAdds DEF Paying

LEMMA EarningStays ==
    ASSUME IInv, NEW w \in Workers, Commit(w), NEW v \in Workers \ {w}, tx'[v] = tx[v],
           NEW e \in Experts, NEW i \in SubIds, Earning(v, e, i)
    PROVE  Earning(v, e, i)'
<1>1. CASE /\ sub[i].author = e /\ sub[i].task \notin GoldTasks
           /\ \E r \in tx[v].reviews : r.sub = i /\ r.kind = "human" /\ r.verdict = "pass"
  BY <1>1, AuthorKnown, SubKept DEF Earning
<1>2. CASE \E u \in tx[v].done :
             /\ u.row = i /\ "author" \in DOMAIN u.cols
             /\ u.cols.author = e /\ u.cols.task \notin GoldTasks /\ u.cols.status = "approved"
  BY <1>2 DEF Earning
<1> QED
  BY <1>1, <1>2 DEF Earning

LEMMA ExpertWriteStays ==
    ASSUME IInv, NEW w \in Workers, Commit(w), NEW v \in Workers \ {w}, tx'[v] = tx[v],
           NEW u, u.row \in Experts, ExpertWrite(v, u)
    PROVE  ExpertWrite(v, u)'
<1> DEFINE e == u.row
<1>1. expert[e].status # "qualified" => expert'[e].status # "qualified"
  BY CommitKeepsStanding
<1>2. ASSUME "approved" \in DOMAIN u.cols
      PROVE  \E i \in SubIds : /\ Earning(v, e, i)'
                               /\ u.cols.approved <= Cardinality(Credits(e)' \cup {i})
  <2>1. PICK i \in SubIds : /\ Earning(v, e, i)
                            /\ u.cols.approved <= Cardinality(Credits(e) \cup {i})
                            /\ u.cols.approved \in Nat
    BY <1>2 DEF ExpertWrite
  <2>2. Earning(v, e, i)'
    BY <2>1, EarningStays
  <2>3. PICK after : after = Credits(e)'
    OBVIOUS
  <2>4. after \cup {i} \subseteq SubIds /\ Credits(e) \cup {i} \subseteq after \cup {i}
    BY <2>3, CreditsGrow DEF Credits
  <2>5. /\ IsFiniteSet(after \cup {i}) /\ IsFiniteSet(Credits(e) \cup {i})
        /\ Cardinality(Credits(e) \cup {i}) <= Cardinality(after \cup {i})
    <3>1. IsFiniteSet(after \cup {i})
      BY <2>4, CreditsFinite, FS_Subset
    <3> QED
      BY <2>4, <3>1, FS_Subset
  <2>6. Cardinality(after \cup {i}) \in Nat /\ Cardinality(Credits(e) \cup {i}) \in Nat
    BY <2>5, FS_CardinalityType
  <2>7. u.cols.approved <= Cardinality(after \cup {i})
    BY <2>1, <2>5, <2>6
  <2> QED
    BY <2>2, <2>3, <2>7
<1> QED
  BY <1>1, <1>2 DEF ExpertWrite

LEMMA TaskWriteStays ==
    ASSUME IInv, NEW w \in Workers, Commit(w), NEW v \in Workers \ {w}, tx'[v] = tx[v],
           NEW u, TaskWrite(v, u)
    PROVE  TaskWrite(v, u)'
BY PayingStays DEF TaskWrite

LEMMA NewSubStays ==
    ASSUME IInv, NEW w \in Workers, Commit(w), NEW v \in Workers \ {w}, tx'[v] = tx[v],
           NEW u, u.row \in SubIds, NewSub(v, u)
    PROVE  NewSub(v, u)'
<1>1. u \in tx[v].done /\ sub'[u.row] = sub[u.row]
  BY LockedKept DEF NewSub
<1>2. \A t : Paying(v, t) => Paying(v, t)'
  BY PayingStays
<1> QED
  BY <1>1, <1>2 DEF NewSub

LEMMA VerdictStays ==
    ASSUME IInv, NEW w \in Workers, Commit(w), NEW v \in Workers \ {w}, tx'[v] = tx[v],
           NEW u, u.row \in SubIds, Verdict(v, u)
    PROVE  Verdict(v, u)'
<1> DEFINE i == u.row
<1>1. sub[i].status # "absent" /\ (sub[i].status = "approved" => Passes(i, "human") # {})
  BY DEF Verdict
<1>2. /\ sub'[i].task = sub[i].task /\ sub'[i].author = sub[i].author
      /\ sub'[i].status # "absent"
      /\ sub'[i].status = "approved" => Passes(i, "human")' # {}
  <2>1. CASE sub'[i] = sub[i]
    BY <1>1, <2>1, CommitAdds DEF Passes
  <2>2. CASE sub'[i] # sub[i]
    BY <1>1, <2>2, SubKept, CommitAdds DEF Verdict, Passes
  <2> QED
    BY <2>1, <2>2
<1>3. \A t : Paying(v, t) => Paying(v, t)'
  BY PayingStays
<1> QED
  BY <1>1, <1>2, <1>3 DEF Verdict

LEMMA CommitKeepsOthers ==
    ASSUME IInv, NEW w \in Workers, Commit(w), NEW v \in Workers \ {w}
    PROVE  TxInv(v)'
<1>1. /\ tx'[v] = tx[v]
      /\ \A r \in Rows : lock'[r] = v <=> lock[r] = v
  BY SessionsAssumption DEF Commit, Release, IInv, RowTypes
<1>2. TxInv(v) /\ TxInv(w)
  BY DEF IInv
<1>3. TxShape(v)'
  BY <1>1, <1>2 DEF TxInv, TxShape
<1>4. Pending(v)' = Pending(v)
  BY <1>1 DEF Pending
<1>5. TxWrites(v)'
  <2>1. ASSUME NEW u \in Pending(v) PROVE WriteOK(v, u)'
    <3>1. WriteOK(v, u)
      BY <1>2 DEF TxInv, TxWrites
    <3> QED
      BY <1>1, <3>1, ExpertWriteStays, TaskWriteStays, NewSubStays, VerdictStays DEF WriteOK
  <2>2. \A u \in tx[v].done : u.row \in Rows
    BY <1>2 DEF TxInv, TxWrites, WriteOK, Pending
  <2> QED
    BY <1>1, <1>2, <1>4, <2>1, <2>2 DEF TxInv, TxWrites
<1>6. TxBills(v)'
  <2>1. \A x \in tx[v].usage : x.task \in Rows
    BY <1>2 DEF TxInv, TxShape, UsageEvents, Rows
  <2>2. \A x \in tx[v].usage : \A y \in usage' : y.task # x.task
    BY <1>2, CommitAdds DEF TxInv, TxBills
  <2> QED
    BY <1>1, <1>2, <1>4, <2>1, <2>2, CommitAdds DEF TxInv, TxBills
<1>7. TxReviews(v)'
  BY <1>1, <1>2, <1>4 DEF TxInv, TxReviews
<1> QED
  BY <1>3, <1>5, <1>6, <1>7 DEF TxInv

-----------------------------------------------------------------------------
(* Steps that commit nothing. *)

Tables == <<expert, task, sub, reviews, usage>>

(* They leave alone the transactions of other workers, *)
LEMMA OthersStay ==
    ASSUME IInv, NEW v \in Workers, UNCHANGED Tables, tx'[v] = tx[v],
           \A r \in Rows : lock'[r] = v <=> lock[r] = v
    PROVE  TxInv(v)'
<1>1. TxInv(v)
  BY DEF IInv
<1>2. Pending(v)' = Pending(v)
  BY DEF Pending
<1>3. ASSUME NEW u PROVE WriteOK(v, u) => WriteOK(v, u)'
  <2>1. ExpertWrite(v, u) => ExpertWrite(v, u)'
    BY DEF Tables, ExpertWrite, Earning, Credits, Passes
  <2>2. TaskWrite(v, u) => TaskWrite(v, u)'
    BY DEF Tables, TaskWrite, Paying
  <2>3. NewSub(v, u) => NewSub(v, u)'
    BY DEF Tables, NewSub, Paying
  <2>4. Verdict(v, u) => Verdict(v, u)'
    BY DEF Tables, Verdict, Paying, Passes
  <2> QED
    BY <2>1, <2>2, <2>3, <2>4 DEF WriteOK
<1>4. TxShape(v)'
  BY <1>1 DEF TxInv, TxShape
<1>5. TxWrites(v)'
  <2>1. \A u \in tx[v].done : u.row \in Rows
    BY <1>1 DEF TxInv, TxWrites, WriteOK, Pending
  <2> QED
    BY <1>1, <1>2, <1>3, <2>1 DEF TxInv, TxWrites
<1>6. TxBills(v)'
  <2>1. \A x \in tx[v].usage : x.task \in Rows
    BY <1>1 DEF TxInv, TxShape, UsageEvents, Rows
  <2> QED
    BY <1>1, <1>2, <2>1 DEF TxInv, TxBills, Tables
<1>7. TxReviews(v)'
  BY <1>1, <1>2 DEF TxInv, TxReviews
<1> QED
  BY <1>4, <1>5, <1>6, <1>7 DEF TxInv

(* and what is said of the rows, *)
LEMMA TablesStay ==
    ASSUME IInv, UNCHANGED Tables
    PROVE  RowsInv'
<1>1. \A i \in SubIds : SubInv(i)'
  BY DEF IInv, RowsInv, SubInv, Tables
<1>2. CountNeverAhead'
  BY DEF IInv, RowsInv, CountNeverAhead, Credits, Passes, Tables
<1>3. ApprovedIsVouched'
  BY DEF IInv, RowsInv, ApprovedIsVouched, Passes, Tables
<1>4. CompletedIsBilled' /\ BilledAtMostOnce' /\ ApprovalIsBilled' /\ QualifiedInGoodStanding'
  BY DEF IInv, RowsInv, CompletedIsBilled, BilledAtMostOnce, ApprovalIsBilled,
         QualifiedInGoodStanding, Tables
<1> QED
  BY <1>1, <1>2, <1>3, <1>4 DEF RowsInv

(* so that only the worker's own transaction is left to look at. *)
LEMMA OwnStep ==
    ASSUME IInv, NEW w \in Workers, UNCHANGED Tables, TxInv(w)', DOMAIN tx' = Workers,
           \A v \in Workers \ {w} : tx'[v] = tx[v] /\ \A r \in Rows : lock'[r] = v <=> lock[r] = v,
           lock' \in [Rows -> Workers \cup {NoOne}]
    PROVE  IInv'
<1>1. \A v \in Workers : TxInv(v)'
  BY OthersStay
<1>2. RowTypes'
  BY DEF IInv, RowTypes, Tables
<1> QED
  BY <1>1, <1>2, TablesStay DEF IInv

(* The UPDATE after a handler has regraded contributor e: it may suspend,   *)
(* and credits one record if gain is 1.                                     *)
Regraded(e, gain, u) ==
    \E new \in ExpertRows :
        /\ u = Update(e, expert[e], new)
        /\ new.status \in {expert[e].status, "suspended"}
        /\ InGoodStanding(new)
        /\ new.approved = expert[e].approved + gain

LEMMA RegradedWrite ==
    ASSUME IInv, NEW w \in Workers, NEW e \in Experts, NEW i \in SubIds, NEW gain \in {0, 1},
           NEW u, Regraded(e, gain, u), UNCHANGED Tables,
           gain = 1 => Earning(w, e, i)' /\ i \notin Credits(e)
    PROVE  u.row = e /\ ExpertWrite(w, u)'
<1>1. PICK new \in ExpertRows :
          /\ u = Update(e, expert[e], new)
          /\ new.status \in {expert[e].status, "suspended"}
          /\ InGoodStanding(new)
          /\ new.approved = expert[e].approved + gain
  BY DEF Regraded
<1>2. /\ expert[e] \in ExpertRows /\ expert' = expert
      /\ expert[e].approved \in Nat /\ expert[e].approved <= Cardinality(Credits(e))
  BY DEF IInv, RowTypes, RowsInv, CountNeverAhead, ExpertRows, Tables
<1>3. /\ u.row = e
      /\ DOMAIN u.cols = {c \in DOMAIN expert[e] : expert[e][c] # new[c]}
      /\ \A c \in DOMAIN u.cols : u.cols[c] = new[c]
  BY <1>1, UpdateCols
<1>4. DOMAIN expert[e] = {"status", "quality", "approved", "goldPass", "goldFail"}
  BY <1>2 DEF ExpertRows
<1>5. /\ new.quality \in 0 .. MaxScore /\ new.goldFail \in Nat /\ new.goldPass \in Nat
      /\ new.approved \in Nat
  BY DEF ExpertRows
<1>6. "status" \in DOMAIN u.cols => u.cols.status = "suspended"
  BY <1>1, <1>3, <1>4
<1>7. \/ new.quality >= SuspendBelow /\ new.goldFail < GoldSuspendFails
      \/ "status" \in DOMAIN u.cols
      \/ expert[e].status # "qualified"
  BY <1>1, <1>3, <1>4 DEF InGoodStanding
<1>8. ASSUME "approved" \in DOMAIN u.cols
      PROVE  Earning(w, e, i)' /\ new.approved <= Cardinality((Credits(e) \cup {i})')
  <2>1. gain = 1
    BY <1>1, <1>2, <1>3, <1>8
  <2>2. IsFiniteSet(Credits(e))
    BY CreditsFinite, FS_Subset
  <2>3. Cardinality(Credits(e) \cup {i}) = Cardinality(Credits(e)) + 1 /\ Cardinality(Credits(e)) \in Nat
    BY <2>1, <2>2, FS_AddElement, FS_CardinalityType
  <2>4. Credits(e)' = Credits(e)
    BY DEF Credits, Passes, Tables
  <2>5. new.approved <= Cardinality(Credits(e) \cup {i})
    BY <1>1, <1>2, <2>1, <2>3
  <2>6. (Credits(e) \cup {i})' = Credits(e) \cup {i}
    BY <2>4
  <2> QED
    BY <2>1, <2>5, <2>6
<1>9. "approved" \in DOMAIN u.cols =>
          u.cols.approved \in Nat /\ \E j \in SubIds :
              Earning(w, u.row, j)' /\ u.cols.approved <= Cardinality((Credits(u.row) \cup {j})')
  BY <1>3, <1>5, <1>8
<1> QED
  BY <1>2, <1>3, <1>4, <1>5, <1>6, <1>7, <1>9 DEF ExpertWrite

(* update_quality_score regrades, after an approval with a credit. *)
LEMMA ScoredRow ==
    ASSUME IInv, NEW e \in Experts, NEW score \in 0 .. MaxScore
    PROVE  /\ \A new \in UpdateQualityScore(expert[e], score) :
                  Regraded(e, 0, Update(e, expert[e], new))
           /\ \A new \in Credited(e, score) : Regraded(e, 1, Update(e, expert[e], new))
<1>1. expert[e] \in ExpertRows /\ expert[e].approved \in Nat
  BY DEF IInv, RowTypes, ExpertRows
<1>2. ASSUME NEW new \in UpdateQualityScore(expert[e], score)
      PROVE  Regraded(e, 0, Update(e, expert[e], new))
  <2>1. /\ new \in ExpertRows /\ new.status \in {expert[e].status, "suspended"}
        /\ InGoodStanding(new) /\ new.approved = expert[e].approved
    BY <1>1, <1>2, UpdateQualityScoreRow
  <2>2. new.approved = expert[e].approved + 0
    BY <1>1, <2>1
  <2> QED
    BY <2>1, <2>2 DEF Regraded
<1>3. ASSUME NEW new \in Credited(e, score)
      PROVE  Regraded(e, 1, Update(e, expert[e], new))
  <2>1. PICK row : row = [expert[e] EXCEPT !.approved = @ + 1]
    OBVIOUS
  <2>2. /\ row \in ExpertRows /\ row.status = expert[e].status
        /\ row.approved = expert[e].approved + 1
    BY <1>1, <2>1 DEF ExpertRows
  <2>3. new \in UpdateQualityScore(row, score)
    BY <1>3, <2>1 DEF Credited
  <2>4. /\ new \in ExpertRows /\ new.status \in {expert[e].status, "suspended"}
        /\ InGoodStanding(new) /\ new.approved = expert[e].approved + 1
    BY <2>2, <2>3, UpdateQualityScoreRow
  <2> QED
    BY <2>4 DEF Regraded
<1> QED
  BY <1>2, <1>3

(* register_gold_result regrades, and credits nothing. *)
LEMMA GoldRow ==
    ASSUME IInv, NEW e \in Experts, NEW passed \in BOOLEAN
    PROVE  \A new \in RegisterGoldResult(expert[e], passed) :
               Regraded(e, 0, Update(e, expert[e], new))
<1>1. expert[e] \in ExpertRows /\ expert[e].approved \in Nat
  BY DEF IInv, RowTypes, ExpertRows
<1>2. ASSUME NEW new \in RegisterGoldResult(expert[e], passed)
      PROVE  Regraded(e, 0, Update(e, expert[e], new))
  <2>1. /\ new \in ExpertRows /\ new.status \in {expert[e].status, "suspended"}
        /\ InGoodStanding(new) /\ new.approved = expert[e].approved
    BY <1>1, <1>2, RegisterGoldResultRow
  <2>2. new.approved = expert[e].approved + 0
    BY <1>1, <2>1
  <2> QED
    BY <2>1, <2>2 DEF Regraded
<1> QED
  BY <1>2

-----------------------------------------------------------------------------
(* The handlers' reads. *)

(* Worker w alone has begun, with these writes, reviews and bill. *)
Opened(w, todo, done, revs, bill) ==
    /\ UNCHANGED Tables
    /\ DOMAIN tx' = Workers /\ \A v \in Workers \ {w} : tx'[v] = tx[v]
    /\ DOMAIN tx'[w] = DOMAIN NoTx /\ tx'[w].open = TRUE
    /\ tx'[w].todo = Updates(todo) /\ tx'[w].done = done /\ tx'[w].reviews = revs
    /\ tx'[w].bill = bill /\ tx'[w].usage = {}
    /\ \A r \in Rows : lock[r] # w

(* A worker that begins was idle, and is the only one to change. *)
LEMMA Begun ==
    ASSUME IInv, NEW w \in Workers, NEW todo, NEW done, NEW revs, NEW bill,
           Begin(w, todo, done, revs, bill)
    PROVE  Opened(w, todo, done, revs, bill)
<1>1. ~tx[w].open /\ DOMAIN tx = Workers /\ TxShape(w)
  BY DEF Begin, IInv, RowTypes, TxInv
<1>2. tx' = [tx EXCEPT ![w] = [open |-> TRUE, todo |-> Updates(todo), done |-> done,
                               reviews |-> revs, bill |-> bill, usage |-> {}]]
  BY DEF Begin
<1>3. UNCHANGED Tables
  BY DEF Begin, Tables
<1> QED
  BY <1>1, <1>2, <1>3 DEF TxShape, NoTx, Opened

(* The UPDATE that completes a task. *)
LEMMA CompletedCols ==
    ASSUME IInv, NEW t \in Tasks
    PROVE  /\ Completed(t).row = t
           /\ DOMAIN Completed(t).cols = {c \in {"status"} : task[t].status # "completed"}
           /\ "status" \in DOMAIN Completed(t).cols => Completed(t).cols.status = "completed"
<1>1. task[t] \in TaskRows /\ DOMAIN task[t] = {"status", "assigned"}
  BY DEF IInv, RowTypes, TaskRows
<1>2. PICK new : new = [task[t] EXCEPT !.status = "completed"]
  OBVIOUS
<1>3. new.status = "completed" /\ new.assigned = task[t].assigned
  BY <1>1, <1>2
<1>4. Completed(t) = Update(t, task[t], new)
  BY <1>2 DEF Completed
<1> QED
  BY <1>1, <1>3, <1>4, UpdateCols

(* The UPDATE of a submission that waits for a person. *)
LEMMA DecidedCols ==
    ASSUME IInv, NEW i \in SubIds, sub[i].status = "human_review",
           NEW status \in {"approved", "needs_revision", "rejected"}
    PROVE  /\ Decided(i, status).row = i
           /\ DOMAIN Decided(i, status).cols = {"status"}
           /\ Decided(i, status).cols.status = status
<1>1. /\ sub[i] \in SubRows
      /\ DOMAIN sub[i] = {"task", "author", "content", "sampled", "status"}
  BY DEF IInv, RowTypes, SubRows
<1>2. PICK new : new = [sub[i] EXCEPT !.status = status]
  OBVIOUS
<1>3. /\ new.status = status /\ new.task = sub[i].task /\ new.author = sub[i].author
      /\ new.content = sub[i].content /\ new.sampled = sub[i].sampled
  BY <1>1, <1>2
<1>4. Decided(i, status) = Update(i, sub[i], new)
  BY <1>2 DEF Decided
<1> QED
  BY <1>1, <1>3, <1>4, UpdateCols

(* The tables' ids are told apart. *)
LEMMA RowsDiffer ==
    /\ \A e \in Experts : e \in Rows /\ e \notin Tasks /\ e \notin SubIds
    /\ \A t \in Tasks : t \in Rows /\ t \notin Experts /\ t \notin SubIds
    /\ \A i \in SubIds : i \in Rows /\ i \notin Experts /\ i \notin Tasks
BY SessionsAssumption DEF Rows

(* POST /tasks/{id}/assign keeps the invariant. *)
LEMMA AssignStep ==
    ASSUME IInv, NEW w \in Workers, NEW t \in Tasks, NEW e \in Experts, BeginAssign(w, t, e)
    PROVE  IInv'
<1> DEFINE new == [status |-> "assigned", assigned |-> e]
<1>1. PICK u : u = Update(t, task[t], new)
  OBVIOUS
<1>2. Begin(w, {u}, {}, {}, {}) /\ lock' = lock
  BY <1>1 DEF BeginAssign
<1>3. task[t] \in TaskRows /\ DOMAIN task[t] = {"status", "assigned"}
  BY DEF IInv, RowTypes, TaskRows
<1>4. /\ u.row = t /\ DOMAIN u.cols \subseteq {"status", "assigned"}
      /\ "status" \in DOMAIN u.cols => u.cols.status = "assigned"
      /\ "assigned" \in DOMAIN u.cols => u.cols.assigned = e
  BY <1>1, <1>3, UpdateCols
<1>5. /\ UNCHANGED Tables
      /\ DOMAIN tx' = Workers /\ \A v \in Workers \ {w} : tx'[v] = tx[v]
      /\ DOMAIN tx'[w] = DOMAIN NoTx /\ tx'[w].open = TRUE
      /\ tx'[w].todo = Updates({u}) /\ tx'[w].done = {} /\ tx'[w].reviews = {}
      /\ tx'[w].bill = {} /\ tx'[w].usage = {}
  <2>1. Opened(w, {u}, {}, {}, {})
    BY <1>2, Begun
  <2> QED
    BY <2>1 DEF Opened
<1>6. WriteOK(w, u)'
  <2>1. TaskWrite(w, u)'
    BY <1>4 DEF TaskWrite
  <2> QED
    BY <1>4, <2>1, RowsDiffer DEF WriteOK
<1>7. TxInv(w)'
  BY <1>5, <1>6 DEF TxInv, TxShape, TxWrites, TxBills, TxReviews, Pending, Updates
<1> QED
  BY <1>2, <1>5, <1>7, OwnStep DEF IInv, RowTypes

(* So does every POST /tasks/{id}/submissions, whatever gate decides it. *)
LEMMA SubmitStep ==
    ASSUME IInv, NEW w \in Workers, NEW e \in Experts, NEW t \in Tasks, NEW c \in Contents,
           NEW sampled \in BOOLEAN, NEW status \in SubStatuses \ {"absent"},
           NEW todo, NEW review,
           BeginSubmit(w, e, t, c, sampled, status, todo, review),
           status = "human_review" => t \notin GoldTasks,
           \A r \in review : /\ r.kind \in {"auto_llm", "gold_check"}
                             /\ r.by \in {"claude", "heuristic", "qc-engine"}
                             /\ r.verdict \in {"pass", "fail", "revise"},
           status = "approved" /\ t \notin GoldTasks =>
               ~sampled /\ \E r \in review :
                              r.kind = "auto_llm" /\ r.verdict = "pass" /\ r.by = "claude",
           status = "approved" => Completed(t) \in todo,
           \A u \in todo :
               \/ u = Completed(t) /\ (status = "approved" \/ t \in GoldTasks)
               \/ \E gain \in {0, 1} : /\ Regraded(e, gain, u)
                                       /\ gain = 1 => status = "approved" /\ t \notin GoldTasks,
           \A u, v \in todo : u.row = v.row => u = v
    PROVE  IInv'
<1>1. PICK i \in SubIds : /\ sub[i].status = "absent" /\ lock[i] = NoOne
                          /\ lock' = [lock EXCEPT ![i] = w]
                          /\ Begin(w, todo,
                               {[row |-> i, cols |-> [task |-> t, author |-> e, content |-> c,
                                                      sampled |-> sampled, status |-> status]]},
                               {[sub |-> i, kind |-> r.kind, by |-> r.by, verdict |-> r.verdict] :
                                    r \in review},
                               IF status = "approved" THEN Billable(t, i) ELSE {})
  BY DEF BeginSubmit
<1>2. PICK ins : ins = [row |-> i, cols |-> [task |-> t, author |-> e, content |-> c,
                                             sampled |-> sampled, status |-> status]]
  OBVIOUS
<1>3. PICK revs : revs = {[sub |-> i, kind |-> r.kind, by |-> r.by, verdict |-> r.verdict] :
                              r \in review}
  OBVIOUS
<1>4. PICK bill : bill = IF status = "approved" THEN Billable(t, i) ELSE {}
  OBVIOUS
<1>5. Begin(w, todo, {ins}, revs, bill)
  BY <1>1, <1>2, <1>3, <1>4
<1>6. /\ UNCHANGED Tables
      /\ DOMAIN tx' = Workers /\ \A v \in Workers \ {w} : tx'[v] = tx[v]
      /\ DOMAIN tx'[w] = DOMAIN NoTx /\ tx'[w].open = TRUE
      /\ tx'[w].todo = Updates(todo) /\ tx'[w].done = {ins} /\ tx'[w].reviews = revs
      /\ tx'[w].bill = bill /\ tx'[w].usage = {}
  <2>1. Opened(w, todo, {ins}, revs, bill)
    BY <1>5, Begun
  <2> QED
    BY <2>1 DEF Opened
<1>7. /\ lock \in [Rows -> Workers \cup {NoOne}] /\ i \in Rows
      /\ lock'[i] = w /\ lock' \in [Rows -> Workers \cup {NoOne}]
      /\ \A v \in Workers \ {w} : \A r \in Rows : lock'[r] = v <=> lock[r] = v
  BY <1>1, RowsDiffer, SessionsAssumption DEF IInv, RowTypes
<1>8. sub[i] = NoSub /\ i \notin Credits(e)
  <2>1. sub[i] = NoSub
    BY <1>1 DEF IInv, RowsInv, SubInv
  <2>2. sub[i].author # e
    BY <2>1, SessionsAssumption DEF NoSub
  <2> QED
    BY <2>1, <2>2 DEF Credits
<1>9. /\ bill \subseteq {[task |-> t, sub |-> i]} /\ [task |-> t, sub |-> i] \in UsageEvents
      /\ bill # {} => status = "approved" /\ t \notin GoldTasks
      /\ status = "approved" /\ t \notin GoldTasks => bill = {[task |-> t, sub |-> i]}
  BY <1>4 DEF Billable, UsageEvents
<1>10. status = "approved" /\ t \notin GoldTasks => Paying(w, t)'
  BY <1>6, <1>9 DEF Paying
<1>11. ASSUME NEW u \in todo PROVE WriteOK(w, u)' /\ u.row \in {e, t}
  <2>1. CASE u = Completed(t) /\ (status = "approved" \/ t \in GoldTasks)
    <3>1. TaskWrite(w, u)' /\ u.row = t
      BY <1>10, <2>1, CompletedCols DEF TaskWrite
    <3> QED
      BY <3>1, RowsDiffer DEF WriteOK
  <2>2. ASSUME NEW gain \in {0, 1}, Regraded(e, gain, u),
               gain = 1 => status = "approved" /\ t \notin GoldTasks
        PROVE  WriteOK(w, u)' /\ u.row \in {e, t}
    <3>1. gain = 1 => Earning(w, e, i)'
      BY <1>2, <1>6, <2>2 DEF Earning
    <3>2. u.row = e /\ ExpertWrite(w, u)'
      BY <1>6, <1>8, <2>2, <3>1, RegradedWrite
    <3> QED
      BY <3>2, RowsDiffer DEF WriteOK
  <2> QED
    BY <2>1, <2>2
<1>12. WriteOK(w, ins)' /\ ins.row = i /\ "author" \in DOMAIN ins.cols
  <2>1. /\ ins.row = i /\ ins.cols.task = t /\ ins.cols.author = e /\ ins.cols.status = status
        /\ ins.cols.sampled = sampled /\ "author" \in DOMAIN ins.cols
        /\ ins.cols \in SubRows
    BY <1>2 DEF SubRows
  <2>2. status = "approved" /\ t \notin GoldTasks =>
            \E r \in revs : r.sub = i /\ r.kind = "auto_llm" /\ r.verdict = "pass" /\ r.by = "claude"
    <3>1. \A r \in review : [sub |-> i, kind |-> r.kind, by |-> r.by, verdict |-> r.verdict] \in revs
      BY <1>3
    <3>2. ASSUME NEW r \in review, r.kind = "auto_llm", r.verdict = "pass", r.by = "claude"
          PROVE  \E x \in revs : x.sub = i /\ x.kind = "auto_llm" /\ x.verdict = "pass"
                                 /\ x.by = "claude"
      <4>1. PICK x : x = [sub |-> i, kind |-> r.kind, by |-> r.by, verdict |-> r.verdict]
        OBVIOUS
      <4>2. x \in revs /\ x.sub = i /\ x.kind = "auto_llm" /\ x.verdict = "pass" /\ x.by = "claude"
        BY <3>1, <3>2, <4>1
      <4> QED
        BY <4>2
    <3> QED
      BY <3>2
  <2>3. sub'[i] = NoSub
    BY <1>6, <1>8 DEF Tables
  <2>4. NewSub(w, ins)'
    BY <1>6, <1>10, <2>1, <2>2, <2>3 DEF NewSub
  <2> QED
    BY <2>1, <2>4, RowsDiffer DEF WriteOK
<1>13. Pending(w)' = Updates(todo) \cup {ins} /\ Updates(todo) \subseteq todo
  BY <1>6 DEF Pending, Updates
<1>14. TxShape(w)'
  <2>1. revs \subseteq Reviews
    BY <1>3 DEF Reviews
  <2> QED
    BY <1>6, <1>9, <2>1 DEF TxShape
<1>15. TxWrites(w)'
  <2>1. \A u \in todo : u.row # i
    BY <1>11, RowsDiffer
  <2> QED
    BY <1>6, <1>7, <1>11, <1>12, <1>13, <2>1 DEF TxWrites
<1>16. TxBills(w)'
  <2>1. ASSUME NEW x \in bill
        PROVE  (\E y \in usage : y.task = x.task) \/ (\E u \in Updates(todo) : u.row = x.task)
    <3>1. x.task = t /\ t \notin GoldTasks /\ Completed(t) \in todo
      BY <1>9
    <3>2. CASE task[t].status = "completed"
      BY <3>1, <3>2 DEF IInv, RowsInv, CompletedIsBilled
    <3>3. CASE task[t].status # "completed"
      BY <3>1, <3>3, CompletedCols DEF Updates
    <3> QED
      BY <3>2, <3>3
  <2>2. usage' = usage
    BY <1>6 DEF Tables
  <2> QED
    BY <1>6, <1>9, <1>13, <2>1, <2>2 DEF TxBills
<1>17. TxReviews(w)'
  <2>1. \A r \in revs : r.sub = i /\ r.kind # "human"
    BY <1>3
  <2> QED
    BY <1>6, <1>12, <1>13, <2>1 DEF TxReviews
<1> QED
  BY <1>6, <1>7, <1>14, <1>15, <1>16, <1>17, OwnStep DEF TxInv

LEMMA FailedChecksStep ==
    ASSUME IInv, NEW w \in Workers, NEW e \in Experts, NEW t \in Tasks, NEW c \in Contents,
           SubmitFailsChecks(w, e, t, c)
    PROVE  IInv'
<1> DEFINE status == "auto_check_failed"
<1>1. PICK sampled \in BOOLEAN : ~sampled /\ BeginSubmit(w, e, t, c, sampled, status, {}, {})
  BY DEF SubmitFailsChecks
<1>2. status \in SubStatuses \ {"absent"} /\ status # "human_review" /\ status # "approved"
  BY DEF SubStatuses
<1> HIDE DEF status
<1> QED
  BY <1>1, <1>2, SubmitStep

(* The writes of a submission that regrades its author and closes its task. *)
LEMMA TwoWrites ==
    ASSUME IInv, NEW e \in Experts, NEW t \in Tasks, NEW gain \in {0, 1},
           NEW u, Regraded(e, gain, u)
    PROVE  u.row = e /\ \A x, y \in {u, Completed(t)} : x.row = y.row => x = y
<1>1. u.row = e
  BY UpdateCols DEF Regraded
<1>2. Completed(t).row = t
  BY CompletedCols
<1> QED
  BY <1>1, <1>2, RowsDiffer

LEMMA GoldStep ==
    ASSUME IInv, NEW w \in Workers, NEW e \in Experts, NEW t \in Tasks, NEW c \in Contents,
           NEW ok \in BOOLEAN, SubmitGold(w, e, t, c, ok)
    PROVE  IInv'
<1>1. PICK row \in RegisterGoldResult(expert[e], ok) :
          BeginSubmit(w, e, t, c, FALSE, IF ok THEN "approved" ELSE "rejected",
              {Update(e, expert[e], row), Completed(t)},
              {[kind |-> "gold_check", by |-> "qc-engine",
                verdict |-> IF ok THEN "pass" ELSE "fail"]})
  BY DEF SubmitGold
<1>2. t \in GoldTasks
  BY DEF SubmitGold
<1>3. PICK u : u = Update(e, expert[e], row)
  OBVIOUS
<1>4. PICK todo : todo = {u, Completed(t)}
  OBVIOUS
<1>5. PICK status : status = IF ok THEN "approved" ELSE "rejected"
  OBVIOUS
<1>6. PICK review : review = {[kind |-> "gold_check", by |-> "qc-engine",
                               verdict |-> IF ok THEN "pass" ELSE "fail"]}
  OBVIOUS
<1>7. PICK sampled \in BOOLEAN : BeginSubmit(w, e, t, c, sampled, status, todo, review)
  BY <1>1, <1>3, <1>4, <1>5, <1>6
<1>8. status \in SubStatuses \ {"absent"} /\ status # "human_review"
  BY <1>5 DEF SubStatuses
<1>9. \A r \in review : /\ r.kind \in {"auto_llm", "gold_check"}
                        /\ r.by \in {"claude", "heuristic", "qc-engine"}
                        /\ r.verdict \in {"pass", "fail", "revise"}
  BY <1>6
<1>10. Regraded(e, 0, u)
  BY <1>1, <1>3, GoldRow
<1>11. \A x, y \in todo : x.row = y.row => x = y
  BY <1>4, <1>10, TwoWrites
<1>12. \A x \in todo :
           \/ x = Completed(t) /\ (status = "approved" \/ t \in GoldTasks)
           \/ \E gain \in {0, 1} : /\ Regraded(e, gain, x)
                                   /\ gain = 1 => status = "approved" /\ t \notin GoldTasks
  BY <1>2, <1>4, <1>10
<1> QED
  BY <1>2, <1>4, <1>7, <1>8, <1>9, <1>11, <1>12, SubmitStep

LEMMA ReviewedStep ==
    ASSUME IInv, NEW w \in Workers, NEW e \in Experts, NEW t \in Tasks, NEW c \in Contents,
           NEW bucket \in Buckets, NEW r \in AutoResults, SubmitReviewed(w, e, t, c, bucket, r)
    PROVE  IInv'
<1>1. r \in AutoReviews /\ r.by \in {"claude", "heuristic"} /\ r.score \in 0 .. MaxScore
  BY SessionsAssumption DEF AutoReviews
<1>2. PICK sampled : sampled = IsSampled(bucket, expert[e])
  OBVIOUS
<1>3. sampled \in BOOLEAN
  BY <1>2 DEF IsSampled
<1>4. PICK status : status = Route(r, sampled)
  OBVIOUS
<1>5. /\ status \in SubStatuses \ {"absent"}
      /\ status = "approved" => r.passed /\ r.by = "claude" /\ ~sampled
  BY <1>1, <1>3, <1>4, RouteCases DEF SubStatuses
<1>6. PICK review : review = {[kind |-> "auto_llm", by |-> r.by,
                               verdict |-> IF r.passed THEN "pass" ELSE "revise"]}
  OBVIOUS
<1>7. /\ \A x \in review : /\ x.kind \in {"auto_llm", "gold_check"}
                           /\ x.by \in {"claude", "heuristic", "qc-engine"}
                           /\ x.verdict \in {"pass", "fail", "revise"}
      /\ status = "approved" => \E x \in review :
             x.kind = "auto_llm" /\ x.verdict = "pass" /\ x.by = "claude"
  BY <1>1, <1>5, <1>6
<1>8. /\ t \notin GoldTasks
      /\ \/ /\ status # "approved"
            /\ BeginSubmit(w, e, t, c, sampled, status, {}, review)
         \/ /\ status = "approved"
            /\ \E row \in Credited(e, r.score) :
                   BeginSubmit(w, e, t, c, sampled, status,
                       {Update(e, expert[e], row), Completed(t)}, review)
  BY <1>2, <1>4, <1>6 DEF SubmitReviewed
<1>9. CASE status # "approved" /\ BeginSubmit(w, e, t, c, sampled, status, {}, review)
  BY <1>3, <1>5, <1>7, <1>8, <1>9, SubmitStep
<1>10. CASE status = "approved" /\ ~(status # "approved")
  <2>1. PICK row \in Credited(e, r.score) :
            BeginSubmit(w, e, t, c, sampled, status,
                {Update(e, expert[e], row), Completed(t)}, review)
    BY <1>8, <1>10
  <2>2. PICK u : u = Update(e, expert[e], row)
    OBVIOUS
  <2>3. PICK todo : todo = {u, Completed(t)}
    OBVIOUS
  <2>4. BeginSubmit(w, e, t, c, sampled, status, todo, review)
    BY <2>1, <2>2, <2>3
  <2>5. Regraded(e, 1, u)
    BY <1>1, <2>1, <2>2, ScoredRow
  <2>6. \A x, y \in todo : x.row = y.row => x = y
    BY <2>3, <2>5, TwoWrites
  <2>7. \A x \in todo :
            \/ x = Completed(t) /\ (status = "approved" \/ t \in GoldTasks)
            \/ \E gain \in {0, 1} : /\ Regraded(e, gain, x)
                                    /\ gain = 1 => status = "approved" /\ t \notin GoldTasks
    BY <1>8, <1>10, <2>3, <2>5
  <2> QED
    BY <1>3, <1>5, <1>7, <1>8, <1>10, <2>3, <2>4, <2>6, <2>7, SubmitStep
<1> QED
  BY <1>8, <1>9, <1>10

(* And so does POST /submissions/{id}/human-review, whatever the verdict.   *)
LEMMA ReviewStep ==
    ASSUME IInv, NEW w \in Workers, NEW i \in SubIds, NEW v \in Experts,
           NEW verdict \in {"pass", "fail", "revise"},
           NEW status \in {"approved", "needs_revision", "rejected"}, NEW todo, NEW bill,
           BeginReview(w, i, v, todo, verdict, bill),
           Decided(i, status) \in todo,
           status = "approved" => /\ verdict = "pass" /\ bill = Billable(sub[i].task, i)
                                  /\ Completed(sub[i].task) \in todo,
           status # "approved" => bill = {},
           \A u \in todo :
               \/ u = Decided(i, status)
               \/ u = Completed(sub[i].task) /\ status = "approved"
               \/ \E gain \in {0, 1} : /\ Regraded(sub[i].author, gain, u)
                                       /\ gain = 1 => status = "approved",
           \A x, y \in todo : x.row = y.row => x = y
    PROVE  IInv'
<1>1. PICK t : t = sub[i].task
  OBVIOUS
<1>2. PICK e : e = sub[i].author
  OBVIOUS
<1>3. PICK r : r = [sub |-> i, kind |-> "human", by |-> v, verdict |-> verdict]
  OBVIOUS
<1>4. /\ sub[i].status = "human_review" /\ v # e
      /\ Begin(w, todo, {}, {r}, bill) /\ lock' = lock
  BY <1>2, <1>3 DEF BeginReview, MayReview
<1>5. /\ UNCHANGED Tables
      /\ DOMAIN tx' = Workers /\ \A x \in Workers \ {w} : tx'[x] = tx[x]
      /\ DOMAIN tx'[w] = DOMAIN NoTx /\ tx'[w].open = TRUE
      /\ tx'[w].todo = Updates(todo) /\ tx'[w].done = {} /\ tx'[w].reviews = {r}
      /\ tx'[w].bill = bill /\ tx'[w].usage = {}
  <2>1. Opened(w, todo, {}, {r}, bill)
    BY <1>4, Begun
  <2> QED
    BY <2>1 DEF Opened
<1>6. /\ t \in Tasks /\ e \in Experts /\ t \notin GoldTasks
      /\ \A x \in reviews : x.sub = i => x.kind # "human"
  BY <1>1, <1>2, <1>4 DEF IInv, RowsInv, SubInv
<1>7. r \in Reviews /\ r.sub = i /\ r.kind = "human" /\ r.by = v /\ r.verdict = verdict
  BY <1>3 DEF Reviews
<1>8. /\ bill \subseteq {[task |-> t, sub |-> i]} /\ [task |-> t, sub |-> i] \in UsageEvents
      /\ bill # {} => status = "approved" /\ Completed(t) \in todo
      /\ status = "approved" => bill = {[task |-> t, sub |-> i]}
  BY <1>1, <1>6 DEF Billable, UsageEvents
<1>9. status = "approved" => Paying(w, t)'
  BY <1>5, <1>8 DEF Paying
<1>10. i \notin Credits(e)
  BY <1>4, <1>6 DEF Credits, Passes
<1>11. sub' = sub /\ reviews' = reviews
  BY <1>5 DEF Tables
<1>12. PICK d : d = Decided(i, status)
  OBVIOUS
<1>13. /\ d \in Updates(todo) /\ d.row = i /\ DOMAIN d.cols = {"status"} /\ d.cols.status = status
       /\ WriteOK(w, d)'
  <2>1. d.row = i /\ DOMAIN d.cols = {"status"} /\ d.cols.status = status
    BY <1>4, <1>12, DecidedCols
  <2>2. Verdict(w, d)'
    BY <1>1, <1>2, <1>4, <1>5, <1>7, <1>9, <1>11, <2>1 DEF Verdict
  <2> QED
    BY <1>12, <2>1, <2>2, RowsDiffer DEF WriteOK, Updates
<1>14. ASSUME NEW u \in todo PROVE WriteOK(w, u)'
  <2>1. CASE u = Decided(i, status)
    BY <1>12, <1>13, <2>1
  <2>2. CASE u = Completed(t) /\ status = "approved"
    <3>1. TaskWrite(w, u)' /\ u.row = t
      BY <1>6, <1>9, <2>2, CompletedCols DEF TaskWrite
    <3> QED
      BY <1>6, <3>1, RowsDiffer DEF WriteOK
  <2>3. ASSUME NEW gain \in {0, 1}, Regraded(e, gain, u), gain = 1 => status = "approved"
        PROVE  WriteOK(w, u)'
    <3>1. gain = 1 => Earning(w, e, i)'
      BY <1>1, <1>2, <1>5, <1>6, <1>7, <1>11, <2>3 DEF Earning
    <3>2. u.row = e /\ ExpertWrite(w, u)'
      BY <1>5, <1>6, <1>10, <2>3, <3>1, RegradedWrite
    <3> QED
      BY <1>6, <3>2, RowsDiffer DEF WriteOK
  <2> QED
    BY <1>1, <1>2, <2>1, <2>2, <2>3
<1>15. Pending(w)' = Updates(todo) /\ Updates(todo) \subseteq todo
  BY <1>5 DEF Pending, Updates
<1>16. TxShape(w)'
  BY <1>5, <1>7, <1>8 DEF TxShape
<1>17. TxWrites(w)'
  BY <1>5, <1>14, <1>15 DEF TxWrites
<1>18. TxBills(w)'
  <2>1. ASSUME NEW x \in bill
        PROVE  (\E y \in usage : y.task = x.task) \/ (\E u \in Updates(todo) : u.row = x.task)
    <3>1. x.task = t /\ Completed(t) \in todo
      BY <1>8
    <3>2. CASE task[t].status = "completed"
      BY <1>6, <3>1, <3>2 DEF IInv, RowsInv, CompletedIsBilled
    <3>3. CASE task[t].status # "completed"
      BY <1>6, <3>1, <3>3, CompletedCols DEF Updates
    <3> QED
      BY <3>2, <3>3
  <2>2. usage' = usage
    BY <1>5 DEF Tables
  <2> QED
    BY <1>5, <1>8, <1>15, <2>1, <2>2 DEF TxBills
<1>19. TxReviews(w)'
  BY <1>5, <1>7, <1>13, <1>15 DEF TxReviews
<1> QED
  BY <1>4, <1>5, <1>16, <1>17, <1>18, <1>19, OwnStep DEF TxInv, IInv, RowTypes

LEMMA ReviewsStep ==
    ASSUME IInv, NEW w \in Workers, NEW i \in SubIds, NEW v \in Experts,
           ReviewPass(w, i, v) \/ ReviewRevise(w, i, v) \/ ReviewFail(w, i, v)
    PROVE  IInv'
<1>1. PICK t : t = sub[i].task
  OBVIOUS
<1>2. PICK e : e = sub[i].author
  OBVIOUS
<1>3. /\ sub[i].status = "human_review" /\ e \in Experts /\ t \in Tasks
  BY <1>1, <1>2 DEF ReviewPass, ReviewRevise, ReviewFail, BeginReview, MayReview, IInv, RowsInv, SubInv
<1>4. \A status \in {"approved", "needs_revision", "rejected"} : Decided(i, status).row = i
  BY <1>3, DecidedCols
<1>5. Completed(t).row = t
  BY <1>3, CompletedCols
<1>6. 4*Unit \in 0 .. MaxScore /\ Unit \in 0 .. MaxScore
  BY UnitScale
<1>7. CASE ReviewPass(w, i, v)
  <2>1. PICK row \in Credited(e, 4*Unit) :
            BeginReview(w, i, v,
                {Update(e, expert[e], row), Completed(t), Decided(i, "approved")},
                "pass", Billable(t, i))
    BY <1>1, <1>2, <1>7 DEF ReviewPass
  <2>2. PICK u : u = Update(e, expert[e], row)
    OBVIOUS
  <2>3. PICK todo : todo = {u, Completed(t), Decided(i, "approved")}
    OBVIOUS
  <2>4. PICK bill : bill = Billable(t, i)
    OBVIOUS
  <2>5. BeginReview(w, i, v, todo, "pass", bill)
    BY <2>1, <2>2, <2>3, <2>4
  <2>6. Regraded(e, 1, u) /\ u.row = e
    BY <1>3, <1>6, <2>1, <2>2, ScoredRow, UpdateCols
  <2>7. \A x, y \in todo : x.row = y.row => x = y
    BY <1>3, <1>4, <1>5, <2>3, <2>6, RowsDiffer
  <2>8. \A x \in todo :
            \/ x = Decided(i, "approved")
            \/ x = Completed(sub[i].task)
            \/ Regraded(sub[i].author, 1, x)
    BY <1>1, <1>2, <2>3, <2>6
  <2> QED
    BY <1>1, <2>3, <2>4, <2>5, <2>7, <2>8, ReviewStep
<1>8. CASE ReviewRevise(w, i, v)
  <2>1. PICK todo : todo = {Decided(i, "needs_revision")}
    OBVIOUS
  <2>2. BeginReview(w, i, v, todo, "revise", {})
    BY <1>8, <2>1 DEF ReviewRevise
  <2> QED
    BY <2>1, <2>2, ReviewStep
<1>9. CASE ReviewFail(w, i, v)
  <2>1. PICK row \in UpdateQualityScore(expert[e], Unit) :
            BeginReview(w, i, v,
                {Update(e, expert[e], row), Decided(i, "rejected")}, "fail", {})
    BY <1>2, <1>9 DEF ReviewFail
  <2>2. PICK u : u = Update(e, expert[e], row)
    OBVIOUS
  <2>3. PICK todo : todo = {u, Decided(i, "rejected")}
    OBVIOUS
  <2>4. BeginReview(w, i, v, todo, "fail", {})
    BY <2>1, <2>2, <2>3
  <2>5. Regraded(e, 0, u) /\ u.row = e
    BY <1>3, <1>6, <2>1, <2>2, ScoredRow, UpdateCols
  <2>6. \A x, y \in todo : x.row = y.row => x = y
    BY <1>3, <1>4, <2>3, <2>5, RowsDiffer
  <2>7. \A x \in todo : x = Decided(i, "rejected") \/ Regraded(sub[i].author, 0, x)
    BY <1>2, <2>3, <2>5
  <2> QED
    BY <2>3, <2>4, <2>6, <2>7, ReviewStep
<1> QED
  BY <1>7, <1>8, <1>9

-----------------------------------------------------------------------------
(* The writes, and the end. *)

LEMMA FlushStep ==
    ASSUME IInv, NEW w \in Workers, Flush(w)
    PROVE  IInv'
<1>1. PICK u \in tx[w].todo :
          /\ lock[u.row] \in {NoOne, w}
          /\ lock' = [lock EXCEPT ![u.row] = w]
          /\ tx' = [tx EXCEPT ![w].todo = @ \ {u}, ![w].done = @ \cup {u}]
          /\ UNCHANGED <<expert, task, sub, reviews, usage>>
  BY DEF Flush
<1>2. TxInv(w) /\ DOMAIN tx = Workers /\ lock \in [Rows -> Workers \cup {NoOne}]
  BY DEF IInv, RowTypes
<1>3. u \in Pending(w) /\ u.row \in Rows
  BY <1>2 DEF TxInv, TxWrites, Pending, WriteOK
<1>4. DOMAIN tx[w] = DOMAIN NoTx /\ tx[w].open = TRUE
  <2>1. DOMAIN tx[w] = DOMAIN NoTx /\ tx[w].open \in BOOLEAN
    BY <1>2 DEF TxInv, TxShape
  <2>2. tx[w].todo # {} /\ NoTx.todo = {}
    BY DEF NoTx
  <2>3. tx[w] # NoTx
    BY <2>2
  <2> QED
    BY <1>2, <2>1, <2>3 DEF TxInv, TxShape
<1>5. /\ DOMAIN tx' = Workers /\ \A v \in Workers \ {w} : tx'[v] = tx[v]
      /\ DOMAIN tx'[w] = DOMAIN NoTx /\ tx'[w].open = tx[w].open
      /\ tx'[w].todo = tx[w].todo \ {u} /\ tx'[w].done = tx[w].done \cup {u}
      /\ tx'[w].reviews = tx[w].reviews /\ tx'[w].bill = tx[w].bill
      /\ tx'[w].usage = tx[w].usage
  BY <1>1, <1>2, <1>4 DEF NoTx
<1>6. UNCHANGED Tables
  BY <1>1 DEF Tables
<1>7. /\ lock' \in [Rows -> Workers \cup {NoOne}]
      /\ \A r \in Rows : lock'[r] = IF r = u.row THEN w ELSE lock[r]
      /\ \A v \in Workers \ {w} : \A r \in Rows : lock'[r] = v <=> lock[r] = v
  BY <1>1, <1>2, <1>3, SessionsAssumption
<1>8. Pending(w)' = Pending(w)
  BY <1>5 DEF Pending
<1>9. ASSUME NEW x, WriteOK(w, x) PROVE WriteOK(w, x)'
  <2>1. ExpertWrite(w, x) => ExpertWrite(w, x)'
    <3>1. \A e, i : Earning(w, e, i) => Earning(w, e, i)'
      BY <1>5, <1>6 DEF Tables, Earning
    <3>2. \A e : Credits(e)' = Credits(e)
      BY <1>6 DEF Tables, Credits, Passes
    <3> QED
      BY <1>6, <3>1, <3>2 DEF Tables, ExpertWrite
  <2>2. TaskWrite(w, x) => TaskWrite(w, x)'
    BY <1>5, <1>6 DEF Tables, TaskWrite, Paying
  <2>3. NewSub(w, x) => NewSub(w, x)'
    BY <1>5, <1>6 DEF Tables, NewSub, Paying
  <2>4. Verdict(w, x) => Verdict(w, x)'
    BY <1>5, <1>6 DEF Tables, Verdict, Paying, Passes
  <2> QED
    BY <1>9, <2>1, <2>2, <2>3, <2>4 DEF WriteOK
<1>10. TxShape(w)'
  BY <1>2, <1>4, <1>5 DEF TxInv, TxShape
<1>11. TxWrites(w)'
  <2>1. \A x \in tx'[w].done : x.row \in Rows /\ lock'[x.row] = w
    <3>1. \A x \in tx[w].done : x.row \in Rows /\ lock[x.row] = w
      BY <1>2 DEF TxInv, TxWrites, Pending, WriteOK
    <3> QED
      BY <1>3, <1>5, <1>7, <3>1
  <2> QED
    BY <1>2, <1>8, <1>9, <2>1 DEF TxInv, TxWrites
<1>12. TxBills(w)'
  <2>1. \A x \in tx[w].usage : x.task \in Rows
    BY <1>2 DEF TxInv, TxShape, UsageEvents, Rows
  <2> QED
    BY <1>2, <1>5, <1>6, <1>7, <1>8, <2>1 DEF TxInv, TxBills, Tables
<1>13. TxReviews(w)'
  BY <1>2, <1>5, <1>8 DEF TxInv, TxReviews
<1> QED
  BY <1>5, <1>6, <1>7, <1>10, <1>11, <1>12, <1>13, OwnStep DEF TxInv

LEMMA MeterStep ==
    ASSUME IInv, NEW w \in Workers, Meter(w)
    PROVE  IInv'
<1> DEFINE found == {x \in tx[w].bill : \A y \in usage : y.task # x.task}
<1>1. /\ tx' = [tx EXCEPT ![w].bill = {}, ![w].usage = found]
      /\ lock' = lock /\ tx[w].bill # {} /\ tx[w].todo = {}
  BY DEF Meter, MayMeter
<1>2. TxInv(w) /\ DOMAIN tx = Workers
  BY DEF IInv, RowTypes
<1>3. DOMAIN tx[w] = DOMAIN NoTx /\ tx[w].open = TRUE
  <2>1. DOMAIN tx[w] = DOMAIN NoTx /\ tx[w].open \in BOOLEAN
    BY <1>2 DEF TxInv, TxShape
  <2>2. tx[w].bill # {} /\ NoTx.bill = {}
    BY <1>1 DEF NoTx
  <2>3. tx[w] # NoTx
    BY <2>2
  <2> QED
    BY <1>2, <2>1, <2>3 DEF TxInv, TxShape
<1>4. /\ DOMAIN tx' = Workers /\ \A v \in Workers \ {w} : tx'[v] = tx[v]
      /\ DOMAIN tx'[w] = DOMAIN NoTx /\ tx'[w].open = tx[w].open
      /\ tx'[w].todo = tx[w].todo /\ tx'[w].done = tx[w].done
      /\ tx'[w].reviews = tx[w].reviews /\ tx'[w].bill = {} /\ tx'[w].usage = found
  BY <1>1, <1>2, <1>3 DEF NoTx
<1>5. UNCHANGED Tables
  BY DEF Tables, Meter
<1>6. Pending(w)' = Pending(w) /\ Pending(w) = tx[w].done
  BY <1>1, <1>4 DEF Pending
<1>7. tx[w].usage = {}
  BY <1>1, <1>2 DEF TxInv, TxBills
<1>8. \A t : Paying(w, t) => Paying(w, t)'
  <2> SUFFICES ASSUME NEW t, Paying(w, t) PROVE Paying(w, t)'
    OBVIOUS
  <2>1. PICK x \in tx[w].bill \cup usage : x.task = t
    BY <1>7 DEF Paying
  <2>2. x \in found \/ \E y \in usage : y.task = t
    BY <2>1
  <2> QED
    BY <1>4, <1>5, <2>1, <2>2 DEF Paying, Tables
<1>9. ASSUME NEW x, WriteOK(w, x) PROVE WriteOK(w, x)'
  <2>1. ExpertWrite(w, x) => ExpertWrite(w, x)'
    <3>1. \A e, i : Earning(w, e, i) => Earning(w, e, i)'
      BY <1>4, <1>5 DEF Tables, Earning
    <3>2. \A e : Credits(e)' = Credits(e)
      BY <1>5 DEF Tables, Credits, Passes
    <3> QED
      BY <1>5, <3>1, <3>2 DEF Tables, ExpertWrite
  <2>2. TaskWrite(w, x) => TaskWrite(w, x)'
    BY <1>8 DEF TaskWrite
  <2>3. NewSub(w, x) => NewSub(w, x)'
    BY <1>4, <1>5, <1>8 DEF Tables, NewSub
  <2>4. Verdict(w, x) => Verdict(w, x)'
    BY <1>4, <1>5, <1>8 DEF Tables, Verdict, Passes
  <2> QED
    BY <1>9, <2>1, <2>2, <2>3, <2>4 DEF WriteOK
<1>10. TxShape(w)'
  BY <1>2, <1>3, <1>4 DEF TxInv, TxShape
<1>11. TxWrites(w)'
  BY <1>1, <1>2, <1>4, <1>6, <1>9 DEF TxInv, TxWrites
<1>12. TxBills(w)'
  <2>1. \A x \in found : lock[x.task] = w
    BY <1>2, <1>6 DEF TxInv, TxBills, TxWrites
  <2>2. \A x, y \in found : x = y
    BY <1>2 DEF TxInv, TxBills
  <2>3. usage' = usage
    BY <1>5 DEF Tables
  <2> QED
    BY <1>1, <1>4, <2>1, <2>2, <2>3 DEF TxBills
<1>13. TxReviews(w)'
  BY <1>2, <1>4, <1>6 DEF TxInv, TxReviews
<1> QED
  BY <1>1, <1>4, <1>5, <1>10, <1>11, <1>12, <1>13, OwnStep DEF TxInv, IInv, RowTypes

(* A worker whose transaction has ended holds nothing. *)
LEMMA Ended ==
    ASSUME IInv, NEW w \in Workers, Release(w)
    PROVE  /\ DOMAIN tx' = Workers /\ \A v \in Workers \ {w} : tx'[v] = tx[v]
           /\ lock' \in [Rows -> Workers \cup {NoOne}]
           /\ \A v \in Workers \ {w} : \A r \in Rows : lock'[r] = v <=> lock[r] = v
           /\ TxInv(w)'
<1>1. /\ DOMAIN tx' = Workers /\ \A v \in Workers \ {w} : tx'[v] = tx[v]
      /\ tx'[w] = NoTx
  BY DEF Release, IInv, RowTypes
<1>2. /\ lock' \in [Rows -> Workers \cup {NoOne}]
      /\ \A v \in Workers \ {w} : \A r \in Rows : lock'[r] = v <=> lock[r] = v
      /\ \A r \in Rows : lock'[r] # w
  BY SessionsAssumption DEF Release, IInv, RowTypes
<1>3. TxInv(w)'
  BY <1>1, <1>2 DEF TxInv, TxShape, TxWrites, TxBills, TxReviews, Pending, NoTx
<1> QED
  BY <1>1, <1>2, <1>3

LEMMA CommitStep ==
    ASSUME IInv, NEW w \in Workers, Commit(w)
    PROVE  IInv'
<1>1. Release(w)
  BY DEF Commit
<1>2. \A v \in Workers : TxInv(v)'
  BY <1>1, Ended, CommitKeepsOthers
<1>3. RowsInv'
  <2>1. QualifiedInGoodStanding'
    BY CommitKeepsStanding DEF QualifiedInGoodStanding
  <2>2. \A i \in SubIds : SubInv(i)'
    BY CommitKeepsSubs
  <2> QED
    BY <2>1, <2>2, CommitKeepsCompleted, CommitBillsOnce, CommitBillsApproval, CommitVouches,
       CommitCounts DEF RowsInv
<1>4. RowTypes'
  <2>1. expert' \in [Experts -> ExpertRows]
    <3>1. DOMAIN expert = Experts
      BY DEF IInv, RowTypes
    <3>2. expert' = [r \in Experts |-> expert'[r]]
      BY <3>1, WrittenDomain DEF Commit
    <3> QED
      BY <3>2, CommittedExpert
  <2>2. task' \in [Tasks -> TaskRows]
    <3>1. DOMAIN task = Tasks
      BY DEF IInv, RowTypes
    <3>2. task' = [r \in Tasks |-> task'[r]]
      BY <3>1, WrittenDomain DEF Commit
    <3> QED
      BY <3>2, CommittedTask
  <2>3. sub' \in [SubIds -> SubRows]
    <3>1. DOMAIN sub = SubIds
      BY DEF IInv, RowTypes
    <3>2. sub' = [r \in SubIds |-> sub'[r]]
      BY <3>1, WrittenDomain DEF Commit
    <3> QED
      BY <3>2, CommittedSub
  <2>4. reviews' \subseteq Reviews /\ usage' \subseteq UsageEvents
    BY CommitAdds DEF IInv, RowTypes, TxInv, TxShape
  <2> QED
    BY <1>1, <2>1, <2>2, <2>3, <2>4, Ended DEF RowTypes
<1> QED
  BY <1>2, <1>3, <1>4 DEF IInv

LEMMA RollbackStep ==
    ASSUME IInv, NEW w \in Workers, Rollback(w)
    PROVE  IInv'
<1>1. Release(w) /\ UNCHANGED Tables
  BY DEF Rollback, Tables
<1> QED
  BY <1>1, Ended, OwnStep

LEMMA StepKeeps == IInv /\ [Next]_vars => IInv'
<1> SUFFICES ASSUME IInv, [Next]_vars PROVE IInv'
  OBVIOUS
<1>1. ASSUME NEW w \in Workers, Request(w) PROVE IInv'
  BY <1>1, AssignStep, FailedChecksStep, GoldStep, ReviewedStep, ReviewsStep DEF Request
<1>2. CASE UNCHANGED vars
  <2>1. UNCHANGED Tables /\ tx' = tx /\ lock' = lock
    BY <1>2 DEF vars, Tables
  <2>2. \A w \in Workers : TxInv(w)'
    BY <2>1, OthersStay
  <2> QED
    BY <2>1, <2>2, TablesStay DEF IInv, RowTypes, Tables
<1> QED
  BY <1>1, <1>2, FlushStep, MeterStep, CommitStep, RollbackStep DEF Next

LEMMA StartKeeps == Init => IInv
<1> SUFFICES ASSUME Init PROVE IInv
  OBVIOUS
<1>1. \A e \in Experts : /\ expert[e] \in ExpertRows /\ expert[e].approved = 0
                         /\ expert[e].quality >= SuspendBelow
                         /\ expert[e].goldFail < GoldSuspendFails
  BY NewExpertRowStanding, UnitScale, ThresholdsAssumption
  DEF Init, NewExpertRow, ExpertRows, ExpertStatuses
<1>2. \A i \in SubIds : sub[i] = NoSub /\ sub[i].status = "absent"
  BY DEF Init, NoSub
<1>3. NoSub \in SubRows
  BY DEF NoSub, SubRows, SubStatuses
<1>4. reviews = {} /\ usage = {} /\ \A t \in Tasks : task[t].status = "open"
  BY DEF Init
<1>5. RowTypes
  BY <1>1, <1>2, <1>3 DEF Init, RowTypes, TaskRows
<1>6. CountNeverAhead
  <2>1. \A e \in Experts : Credits(e) = {}
    BY <1>2, <1>4 DEF Credits, Passes
  <2> QED
    BY <1>1, <2>1, FS_EmptySet DEF CountNeverAhead
<1>7. RowsInv
  BY <1>1, <1>2, <1>4, <1>6
  DEF RowsInv, SubInv, CompletedIsBilled, BilledAtMostOnce, ApprovalIsBilled, ApprovedIsVouched,
      QualifiedInGoodStanding
<1>8. \A w \in Workers : TxInv(w)
  BY SessionsAssumption
  DEF Init, NoTx, TxInv, TxShape, TxWrites, TxBills, TxReviews, Pending
<1> QED
  BY <1>5, <1>7, <1>8 DEF IInv

-----------------------------------------------------------------------------
(* The theorems. *)

THEOREM SessionsInvariant == Spec => []IInv
BY StartKeeps, StepKeeps, PTL DEF Spec

(***************************************************************************)
(* Type correctness: what a transaction has written it has locked, and a   *)
(* worker without one holds no lock.                                       *)
(***************************************************************************)
THEOREM SessionsTypes == Spec => []TypeOK
<1>1. IInv => TypeOK
  BY DEF IInv, RowTypes, TxInv, TxShape, TxWrites, TypeOK
<1> QED
  BY <1>1, SessionsInvariant, PTL

(***************************************************************************)
(* BilledAtMostOnce (QM B1): any number of approvals of one task, however  *)
(* they overlap, wait or fail, bill it once at most.                       *)
(***************************************************************************)
THEOREM OverlapsBillOnce == Spec => []BilledAtMostOnce
<1>1. IInv => BilledAtMostOnce
  BY DEF IInv, RowsInv
<1> QED
  BY <1>1, SessionsInvariant, PTL

(***************************************************************************)
(* ApprovalIsBilled: an approved record of the dataset that others can see *)
(* is on a task that is billed.                                            *)
(***************************************************************************)
THEOREM VisibleApprovalBilled == Spec => []ApprovalIsBilled
<1>1. IInv => ApprovalIsBilled
  BY DEF IInv, RowsInv
<1> QED
  BY <1>1, SessionsInvariant, PTL

(***************************************************************************)
(* ApprovedIsVouched (C2, C3): verdicts on stale copies never leave an     *)
(* approved record that nobody but its author, or no model on an unsampled *)
(* one, has passed.                                                        *)
(***************************************************************************)
THEOREM OverlapsVouched == Spec => []ApprovedIsVouched
<1>1. IInv => ApprovedIsVouched
  BY DEF IInv, RowsInv
<1> QED
  BY <1>1, SessionsInvariant, PTL

(***************************************************************************)
(* CountNeverAhead (C3, C5): lost updates only delay trust.                *)
(***************************************************************************)
THEOREM TrustOnlyLags == Spec => []CountNeverAhead
<1>1. IInv => CountNeverAhead
  BY DEF IInv, RowsInv
<1> QED
  BY <1>1, SessionsInvariant, PTL

(***************************************************************************)
(* QualifiedInGoodStanding (C4, C5): columns written from copies of        *)
(* different ages leave nobody qualified whose row says otherwise.         *)
(***************************************************************************)
THEOREM OverlapsKeepStanding == Spec => []QualifiedInGoodStanding
<1>1. IInv => QualifiedInGoodStanding
  BY DEF IInv, RowsInv
<1> QED
  BY <1>1, SessionsInvariant, PTL

(***************************************************************************)
(* SuspensionIsFinal: no handler that read a contributor before the        *)
(* suspension undoes it by committing after.                               *)
(***************************************************************************)
THEOREM StaleCopiesKeepSuspension == Spec => SuspensionIsFinal
<1>1. IInv /\ [Next]_vars =>
          \A e \in Experts : expert[e].status = "suspended" => expert'[e].status = "suspended"
  <2> SUFFICES ASSUME IInv, [Next]_vars
               PROVE  \A e \in Experts :
                          expert[e].status = "suspended" => expert'[e].status = "suspended"
    OBVIOUS
  <2>1. ASSUME NEW w \in Workers, Request(w) PROVE expert' = expert
    <3>1. ASSUME NEW t, NEW e, BeginAssign(w, t, e) PROVE expert' = expert
      BY <3>1 DEF BeginAssign, Begin
    <3>2. ASSUME NEW e, NEW t, NEW c, NEW sampled, NEW status, NEW todo, NEW review,
                 BeginSubmit(w, e, t, c, sampled, status, todo, review)
          PROVE  expert' = expert
      BY <3>2 DEF BeginSubmit, Begin
    <3>3. ASSUME NEW e, NEW t, NEW c,
                 \/ SubmitFailsChecks(w, e, t, c)
                 \/ \E ok \in BOOLEAN : SubmitGold(w, e, t, c, ok)
                 \/ \E b \in Buckets, r \in AutoResults : SubmitReviewed(w, e, t, c, b, r)
          PROVE  expert' = expert
      BY <3>2, <3>3, Zenon DEF SubmitFailsChecks, SubmitGold, SubmitReviewed
    <3>4. ASSUME NEW i, NEW v, NEW todo, NEW verdict, NEW bill,
                 BeginReview(w, i, v, todo, verdict, bill)
          PROVE  expert' = expert
      BY <3>4 DEF BeginReview, Begin
    <3>5. ASSUME NEW i, NEW v, ReviewPass(w, i, v) \/ ReviewRevise(w, i, v) \/ ReviewFail(w, i, v)
          PROVE  expert' = expert
      BY <3>4, <3>5, Zenon DEF ReviewPass, ReviewRevise, ReviewFail
    <3> QED
      BY <2>1, <3>1, <3>3, <3>5 DEF Request
  <2>2. ASSUME NEW w \in Workers, Flush(w) \/ Meter(w) \/ Rollback(w) PROVE expert' = expert
    BY <2>2 DEF Flush, Meter, Rollback
  <2>3. ASSUME NEW w \in Workers, Commit(w), NEW e \in Experts, expert[e].status = "suspended"
        PROVE  expert'[e].status = "suspended"
    BY <2>3, CommitKeepsStanding
  <2>4. CASE UNCHANGED vars
    BY <2>4 DEF vars
  <2> QED
    BY <2>1, <2>2, <2>3, <2>4 DEF Next
<1> QED
  BY <1>1, SessionsInvariant, PTL DEF Spec, SuspensionIsFinal
=============================================================================
