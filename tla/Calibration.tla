----------------------------- MODULE Calibration -----------------------------
(***************************************************************************)
(* GET /qc/calibration, factory/qc/calibration.py: how far the automated   *)
(* verdicts agree with those of people, and the advice on sampling drawn   *)
(* from that.  The report reads every project: the submissions of Workflow *)
(* and the pairs of verdicts decided elsewhere, of which only the counts   *)
(* matter.  Workflow records at most one automated and one human review of *)
(* a submission, so the latest of a kind is the only one.  The agreement   *)
(* of scores and the slices by track and grader, none of which the advice  *)
(* reads, are left out.                                                    *)
(***************************************************************************)
EXTENDS Workflow

VARIABLE elsewhere      \* the counts of other projects

Tallies ==
    {t \in [pairs : Nat, agree : Nat, falsePass : Nat] :
        t.agree <= t.pairs /\ t.falsePass <= t.pairs}

CalibrationTypeOK == TypeOK /\ elsewhere \in Tallies

-----------------------------------------------------------------------------
(* The pairs. *)

Has(s, kind) == \E r \in s.reviews : r.kind = kind
Passed(s, kind) == \E r \in s.reviews : r.kind = kind /\ r.verdict = "pass"

(* Submissions with verdicts of both kinds. *)
Pairs == {i \in DOMAIN subs : Has(subs[i], "auto_llm") /\ Has(subs[i], "human")}

Agreements == {i \in Pairs : Passed(subs[i], "auto_llm") <=> Passed(subs[i], "human")}

(* Faulty variant: the other way of disagreeing. *)
FalsePasses_Swapped == {i \in Pairs : ~Passed(subs[i], "auto_llm") /\ Passed(subs[i], "human")}

FalsePasses == {i \in Pairs : Passed(subs[i], "auto_llm") /\ ~Passed(subs[i], "human")}

(* The overall bucket. *)
Overall == [pairs |-> Cardinality(Pairs) + elsewhere.pairs,
            agree |-> Cardinality(Agreements) + elsewhere.agree,
            falsePass |-> Cardinality(FalsePasses) + elsewhere.falsePass]

(* Both verdicts on a submission of another project. *)
PairElsewhere(auto, human) ==
    /\ elsewhere' = [pairs |-> elsewhere.pairs + 1,
                     agree |-> elsewhere.agree + IF auto = human THEN 1 ELSE 0,
                     falsePass |-> elsewhere.falsePass + IF auto /\ ~human THEN 1 ELSE 0]
    /\ UNCHANGED vars

-----------------------------------------------------------------------------
(* The advice.  Rates are in thousandths. *)

FalsePassTolerance == 50
MinPairsForConfidence == 50
StrongAgreement == 900

Rates(count, n) == RoundDiv(1000 * count, n)

(* Faulty variant: a small sample is never enough to widen sampling. *)
Advice_SizeFirst(n, agree, falsePass) ==
    IF n < MinPairsForConfidence THEN "hold"
    ELSE IF falsePass > FalsePassTolerance THEN "raise_sampling"
    ELSE IF agree >= StrongAgreement THEN "consider_lower"
    ELSE "hold"

(* The advice on n pairs with these rates. *)
Advice(n, agree, falsePass) ==
    IF falsePass > FalsePassTolerance THEN "raise_sampling"
    ELSE IF n >= MinPairsForConfidence /\ agree >= StrongAgreement THEN "consider_lower"
    ELSE "hold"

(* What may be recommended on a tally. *)
Recommendations(t) ==
    IF t.pairs = 0 THEN {"hold"}
    ELSE {Advice(t.pairs, a, f) : a \in Rates(t.agree, t.pairs), f \in Rates(t.falsePass, t.pairs)}

-----------------------------------------------------------------------------
CalibrationInit == Init /\ elsewhere = [pairs |-> 0, agree |-> 0, falsePass |-> 0]

CalibrationNext ==
    \/ Next /\ UNCHANGED elsewhere
    \/ \E auto, human \in BOOLEAN : PairElsewhere(auto, human)

CalibrationSpec == CalibrationInit /\ [][CalibrationNext]_<<vars, elsewhere>>

-----------------------------------------------------------------------------
(* What must hold. *)

(***************************************************************************)
(* calibration.py, QM C8: the report measures what sampling is for.  Every *)
(* verdict of a person counts, and a false pass is a record only sampling  *)
(* kept from shipping: gate 3 sent it to a person for no other reason, and *)
(* the person's verdict stands.                                            *)
(***************************************************************************)
FalsePassWouldShip ==
    /\ \A i \in DOMAIN subs : Has(subs[i], "human") => i \in Pairs
    /\ \A i \in FalsePasses :
           subs[i].sampled /\ subs[i].status \in {"needs_revision", "rejected"}

(***************************************************************************)
(* QM C8: a false-pass rate above 5% raises sampling, and sampling may     *)
(* only be lowered on 50 pairs with an agreement of 90% - up to what       *)
(* rounding the rates to three decimals forgives, half a thousandth.  No   *)
(* other rounding, and no order of the tests, may stretch that.            *)
(***************************************************************************)
Earned(t) ==
    LET advice == Recommendations(t)
    IN  /\ 2000 * t.falsePass > 101 * t.pairs => advice = {"raise_sampling"}
        /\ "raise_sampling" \in advice => 2000 * t.falsePass >= 101 * t.pairs
        /\ "consider_lower" \in advice =>
             /\ t.pairs >= MinPairsForConfidence
             /\ 2000 * t.agree >= 1799 * t.pairs
             /\ 2000 * t.falsePass <= 101 * t.pairs

RecommendationIsEarned == Earned(Overall)
=============================================================================
