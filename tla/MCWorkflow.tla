----------------------------- MODULE MCWorkflow -----------------------------
(***************************************************************************)
(* Values for TLC: one project with a task of the dataset and a gold task, *)
(* an author, and a second reviewer who qualifies in another track.        *)
(***************************************************************************)
EXTENDS Calibration, TLC

CONSTANTS ann, rob, t1, t2, p1, gaap, tax, c1, c2, c3, none,
          MaxPairs    \* bound: pairs decided elsewhere

MCProjectOf == [t \in Tasks |-> p1]
MCTrackOf == [p \in Projects |-> gaap]
(* A clear pass, a critical flag, the offline heuristic. *)
MCAutoResults ==
    {[by |-> "claude", score |-> 45000, critical |-> FALSE, passed |-> TRUE],
     [by |-> "claude", score |-> 45000, critical |-> TRUE, passed |-> FALSE],
     [by |-> "heuristic", score |-> 35000, critical |-> FALSE, passed |-> FALSE]}
MCHumanScores == {0}

(* The database when the author has passed the exam and t1 is created. *)
MCStart ==
    /\ expert = [e \in Experts |->
           [NewExpertRow EXCEPT !.status = IF e = ann THEN "qualified" ELSE "absent"]]
    /\ exams = [e \in Experts |-> [k \in Tracks |-> IF e = ann /\ k = gaap THEN 1 ELSE 0]]
    /\ task = [t \in Tasks |->
           [status |-> IF t = t1 THEN "open" ELSE "absent", assigned |-> NoOne]]
    /\ subs = <<>>
    /\ usage = [t \in Tasks |-> <<>>]

MCInit ==
    /\ MCStart
    /\ elsewhere = [pairs |-> 0, agree |-> 0, falsePass |-> 0]

(* Bounds: either nothing is decided elsewhere, or MaxPairs pairs and then  *)
(* one step here.                                                           *)
MCNext ==
    \/ elsewhere.pairs \in {0, MaxPairs} /\ Next /\ UNCHANGED elsewhere
    \/ /\ MCStart /\ elsewhere.pairs < MaxPairs
       /\ \E auto, human \in BOOLEAN : PairElsewhere(auto, human)

PairsBound == elsewhere.pairs = 0 \/ MCStart

MCSpec == MCInit /\ [][MCNext]_<<vars, elsewhere>>

(* Bounds: the reviewer never qualifies in the project's track, and the     *)
(* author sits another exam only once suspended.                            *)
ExamBound ==
    /\ exams[rob][gaap] = 0
    /\ exams[ann][tax] = 1 => expert[ann].status = "suspended"

Symmetry == Permutations(Contents)
=============================================================================
