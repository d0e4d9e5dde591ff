------------------------------ MODULE MCRelease ------------------------------
(***************************************************************************)
(* Values for TLC: an sft project, whose directory sorts as below, and the *)
(* rate limiter in front of its requests.  They share no state, so it      *)
(* loses nothing that one moves only while the other is at its start.      *)
(***************************************************************************)
EXTENDS Release, RateLimit, TLC

CONSTANTS ann, bob, cat, eve, joe, b1, t1, t2, h1, h2, none, i1, i2, i3

(* Two contributors on one task, one of them twice; and another task. *)
MCRecords ==
    {[task |-> t1, author |-> eve, version |-> 1], [task |-> t1, author |-> eve, version |-> 2],
     [task |-> t1, author |-> joe, version |-> 1], [task |-> t2, author |-> joe, version |-> 1]}

MCListing == <<"chat", "manifest", "sft">>

(* Both keep their types: in particular a batch is released with its        *)
(* manifest, and no count exceeds what was answered.                        *)
MCTypeOK == TypeOK /\ LimiterTypeOK

MCInit == Init /\ LimiterInit

MCNext ==
    \/ LimiterInit /\ Next /\ UNCHANGED limiterVars
    \/ Init /\ LimiterNext /\ UNCHANGED vars

MCSpec == MCInit /\ [][MCNext]_<<vars, limiterVars>>

Symmetry == Permutations(Users) \cup Permutations(Handlers) \cup Permutations(Identities)
=============================================================================
