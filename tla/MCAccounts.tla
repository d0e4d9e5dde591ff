----------------------------- MODULE MCAccounts -----------------------------
(* Values for TLC: interchangeable writers, users and events of others. *)
EXTENDS Accounts, TLC

CONSTANTS w1, w2, ann, bob, cat, b1, b2, none

MCBodies == AccountEvents \cup {b1, b2}

(* Bounds: five events if all are of other handlers; four if none is and    *)
(* nobody tampers; three otherwise, one of them of another handler.         *)
TrailBound ==
    LET others == {k \in DOMAIN rows : rows[k].body \in OtherBodies}
        mixed == others # {} \/ damaged
    IN  (\E w \in Writers : tx[w] # NoOne) \/ others # DOMAIN rows =>
            /\ Cardinality(others) <= 1
            /\ nextSeq <= IF mixed THEN 4 ELSE 5

Symmetry == Permutations(Writers) \cup Permutations(Users) \cup Permutations({b1, b2})
=============================================================================
