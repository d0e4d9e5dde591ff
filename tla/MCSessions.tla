----------------------------- MODULE MCSessions -----------------------------
(***************************************************************************)
(* Values for TLC: two workers, an author who is also a reviewer, a second *)
(* reviewer of another track, a task of the dataset and a gold task.       *)
(***************************************************************************)
EXTENDS Sessions

CONSTANTS ann, rob, t1, g1, c1, c2, w1, w2, none

(* A clear pass and the offline heuristic. *)
MCAutoResults ==
    {[by |-> "claude", score |-> 40000, critical |-> FALSE, passed |-> TRUE],
     [by |-> "heuristic", score |-> 35000, critical |-> FALSE, passed |-> FALSE]}

(* The database when a first submission of ann's waits for a reviewer. *)
MCInit ==
    /\ expert = [e \in Experts |-> [NewExpertRow EXCEPT !.status = "qualified"]]
    /\ task = [t \in Tasks |->
           [status |-> IF t = t1 THEN "assigned" ELSE "open",
            assigned |-> IF t = t1 THEN ann ELSE none]]
    /\ sub = [[i \in SubIds |-> NoSub] EXCEPT ![1] =
           [task |-> t1, author |-> ann, content |-> c1, sampled |-> TRUE,
            status |-> "human_review"]]
    /\ reviews = {[sub |-> 1, kind |-> "auto_llm", by |-> "claude", verdict |-> "pass"]}
    /\ usage = {}
    /\ lock = [r \in Rows |-> NoOne]
    /\ tx = [w \in Workers |-> NoTx]

MCSpec == MCInit /\ [][Next]_vars /\ Fairness
=============================================================================
