----------------------------- MODULE AuditChain -----------------------------
(***************************************************************************)
(* The audit trail of factory/audit.py: rows whose hash covers the hash of *)
(* the row before.  A handler records one event or more in its own         *)
(* transaction; record() SELECTs the last row it can see (READ COMMITTED:  *)
(* committed rows and its own) and INSERTs the next one, whose seq the     *)
(* database hands out at that moment and never takes back.                 *)
(*                                                                         *)
(* SHA-256 is taken as a constructor: equal hashes come from equal inputs. *)
(***************************************************************************)
EXTENDS Integers, FiniteSets

CONSTANTS
    Writers,    \* request handlers
    Bodies,     \* what an event says: actor, action, entity, payload
    MaxSeq,     \* bound: rows ever inserted
    NoOne       \* neither a writer, nor a hash

ASSUME AuditAssumption ==
    /\ MaxSeq \in Nat
    /\ NoOne \notin Writers

VARIABLES
    rows,       \* rows inserted and not rolled back, by seq
    nextSeq,    \* the next value of the sequence
    seen,       \* the hash each writer's record() has read, or NoOne
    overlapped, \* two transactions were open at once
    damaged     \* somebody changed the table of an intact trail

vars == <<rows, nextSeq, seen, overlapped, damaged>>

GENESIS == <<>>
EventHash(prev, body) == <<prev, body>>

(* A row carries the writer whose transaction it belongs to until commit.   *)
Committed == {k \in DOMAIN rows : rows[k].owner = NoOne}
OwnedBy(w) == {k \in DOMAIN rows : rows[k].owner = w}
Open(w) == seen[w] # NoOne \/ OwnedBy(w) # {}

(* The hash of the last of the rows ks that precede k. *)
HashBefore(ks, k) ==
    IF \A j \in ks : j >= k THEN GENESIS
    ELSE rows[CHOOSE j \in ks : j < k /\ \A i \in ks : i < k => i <= j].hash

TypeOK ==
    /\ nextSeq \in 1 .. MaxSeq + 1
    /\ DOMAIN rows \subseteq 1 .. nextSeq - 1
    /\ \A k \in DOMAIN rows : /\ DOMAIN rows[k] = {"owner", "body", "prev", "hash"}
                              /\ rows[k].owner \in Writers \cup {NoOne}
                              /\ rows[k].body \in Bodies
    /\ DOMAIN seen = Writers
    /\ overlapped \in BOOLEAN
    /\ damaged \in BOOLEAN

Init ==
    /\ rows = [k \in {} |-> NoOne]
    /\ nextSeq = 1
    /\ seen = [w \in Writers |-> NoOne]
    /\ overlapped = FALSE
    /\ damaged = FALSE

-----------------------------------------------------------------------------
(* record(): the SELECT, then the INSERT. *)

(* Faulty variant: the rows of other open transactions are seen too. *)
Visible_Dirty(w) == DOMAIN rows

Visible(w) == Committed \cup OwnedBy(w)

ReadLast(w) ==
    /\ seen[w] = NoOne
    /\ nextSeq <= MaxSeq
    /\ seen' = [seen EXCEPT ![w] = HashBefore(Visible(w), MaxSeq + 1)]
    /\ overlapped' = (overlapped \/ \E x \in Writers \ {w} : Open(x))
    /\ UNCHANGED <<rows, nextSeq, damaged>>

(* Faulty variant: the hash covers the event but not its predecessor. *)
NewRow_Unchained(w, body) ==
    [owner |-> w, body |-> body, prev |-> seen[w], hash |-> EventHash(GENESIS, body)]

NewRow(w, body) ==
    [owner |-> w, body |-> body, prev |-> seen[w], hash |-> EventHash(seen[w], body)]

(* Faulty variant: the sequence does not move on. *)
Insert_SeqReused(w, body) ==
    /\ seen[w] # NoOne
    /\ nextSeq <= MaxSeq
    /\ rows' = [k \in DOMAIN rows \cup {nextSeq} |->
                   IF k = nextSeq THEN NewRow(w, body) ELSE rows[k]]
    /\ seen' = [seen EXCEPT ![w] = NoOne]
    /\ UNCHANGED <<nextSeq, overlapped, damaged>>

Insert(w, body) ==
    /\ seen[w] # NoOne
    /\ nextSeq <= MaxSeq
    /\ rows' = [k \in DOMAIN rows \cup {nextSeq} |->
                   IF k = nextSeq THEN NewRow(w, body) ELSE rows[k]]
    /\ nextSeq' = nextSeq + 1
    /\ seen' = [seen EXCEPT ![w] = NoOne]
    /\ UNCHANGED <<overlapped, damaged>>

(* The end of the handler's transaction. *)
Commit(w) ==
    /\ seen[w] = NoOne
    /\ OwnedBy(w) # {}
    /\ rows' = [k \in DOMAIN rows |->
                   IF k \in OwnedBy(w) THEN [rows[k] EXCEPT !.owner = NoOne] ELSE rows[k]]
    /\ UNCHANGED <<nextSeq, seen, overlapped, damaged>>

Rollback(w) ==
    /\ Open(w)
    /\ rows' = [k \in DOMAIN rows \ OwnedBy(w) |-> rows[k]]
    /\ seen' = [seen EXCEPT ![w] = NoOne]
    /\ UNCHANGED <<nextSeq, overlapped, damaged>>

-----------------------------------------------------------------------------
(* verify_chain() walks the committed rows in order of seq. *)

(* Faulty variant: the stored hashes are compared, never recomputed. *)
RowVerifies_LinkOnly(k) == rows[k].prev = HashBefore(Committed, k)

RowVerifies(k) ==
    LET prev == HashBefore(Committed, k)
    IN  rows[k].prev = prev /\ rows[k].hash = EventHash(prev, rows[k].body)

VerifyChain == \A k \in Committed : RowVerifies(k)

(***************************************************************************)
(* Somebody edits the stored event of a trail that verifies, or removes a  *)
(* row other than the last (a trail cut at its end still verifies), behind *)
(* the program's back.                                                     *)
(***************************************************************************)
Edit(k, body) ==
    /\ VerifyChain
    /\ k \in Committed /\ rows[k].body # body
    /\ rows' = [rows EXCEPT ![k].body = body]
    /\ damaged' = TRUE
    /\ UNCHANGED <<nextSeq, seen, overlapped>>

Remove(k) ==
    /\ VerifyChain
    /\ k \in Committed /\ \E j \in Committed : j > k
    /\ rows' = [j \in DOMAIN rows \ {k} |-> rows[j]]
    /\ damaged' = TRUE
    /\ UNCHANGED <<nextSeq, seen, overlapped>>

Next ==
    \/ \E w \in Writers : ReadLast(w) \/ Commit(w) \/ Rollback(w)
    \/ \E w \in Writers, body \in Bodies : Insert(w, body)
    \/ \E k \in 1 .. MaxSeq, body \in Bodies : Edit(k, body)
    \/ \E k \in 1 .. MaxSeq : Remove(k)

Spec == Init /\ [][Next]_vars

-----------------------------------------------------------------------------
(* What must hold. *)

(***************************************************************************)
(* C7: as long as handlers ran one at a time and nobody touched the table, *)
(* the trail verifies - with several events in a transaction, and with the *)
(* gaps that rolled back ones leave in seq.                                *)
(***************************************************************************)
SerialTrailVerifies == ~overlapped /\ ~damaged => VerifyChain

(***************************************************************************)
(* C7: a change behind the program's back is visible from then on,         *)
(* whatever is recorded, committed or rolled back after it.  Only for      *)
(* handlers that do not overlap: of two rows that grew on the same         *)
(* predecessor one can be removed and the other still verifies.            *)
(***************************************************************************)
DamageIsDetected == damaged /\ ~overlapped => ~VerifyChain

(***************************************************************************)
(* A trail the program itself forked never verifies again: no event it     *)
(* records later repairs it, so no control report is clean any more.       *)
(***************************************************************************)
BrokenStaysBroken == [][~VerifyChain /\ ~damaged => ~VerifyChain']_vars

(***************************************************************************)
(* C7, README: every event's hash covers its predecessor, so without a     *)
(* change behind the program's back the trail verifies.                    *)
(***************************************************************************)
TrailVerifies == ~damaged => VerifyChain
=============================================================================
