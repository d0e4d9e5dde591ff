------------------------- MODULE SubmissionLifecycle -------------------------
(***************************************************************************)
(* What the docstring of factory/qc/engine.py promises of one submission's *)
(* committed status: the automated gates decide it once, at creation; only *)
(* a submission that waits for a person is decided again, and once; every  *)
(* other status is final (a revision is a new submission).                 *)
(***************************************************************************)
CONSTANT Ids            \* submission ids

VARIABLE phase          \* the committed status of each id

Decided == {"approved", "rejected", "needs_revision"}
Phases == Decided \cup {"none", "auto_check_failed", "human_review"}

TypeOK == phase \in [Ids -> Phases]

Init == phase = [i \in Ids |-> "none"]

(* The gates run and the first status is committed. *)
Gate(i, s) ==
    /\ phase[i] = "none"
    /\ s \in Phases \ {"none"}
    /\ phase' = [phase EXCEPT ![i] = s]

(* A person decides. *)
Decide(i, s) ==
    /\ phase[i] = "human_review"
    /\ s \in Decided
    /\ phase' = [phase EXCEPT ![i] = s]

Next == \E i \in Ids, s \in Phases : Gate(i, s) \/ Decide(i, s)

Spec == Init /\ [][Next]_phase
=============================================================================
