----------------------------- MODULE AuditProofs -----------------------------
(***************************************************************************)
(* Theorems about AuditChain, for any number of writers, events and rows.  *)
(***************************************************************************)
EXTENDS AuditChain, WellFoundedInduction, TLAPS

-----------------------------------------------------------------------------
(* The row before. *)

(* m is the last of the rows ks that precede k. *)
Latest(m, ks, k) == m \in ks /\ m < k /\ \A i \in ks : i < k => i <= m

(* HashBefore, of any table. *)
LastHash(rs, ks, k) ==
    IF \A j \in ks : j >= k THEN GENESIS
    ELSE rs[CHOOSE j \in ks : j < k /\ \A i \in ks : i < k => i <= j].hash

Below == {p \in Nat \X Nat : p[1] < p[2]}

(* The numbers are well-ordered: the library's fact without its operator.   *)
LEMMA BelowWellFounded == IsWellFoundedOn(Below, Nat)
BY NatLessThanWellFounded DEF OpToRel, Below

(* A set of numbers that is not empty has a least one. *)
LEMMA LeastNumber ==
    ASSUME NEW S \in SUBSET Nat, S # {}
    PROVE  \E m \in S : \A i \in S : m <= i
<1>1. S \subseteq Nat
  OBVIOUS
<1>2. PICK m \in S : \A i \in S : ~(<<i, m>> \in Below)
  BY <1>1, BelowWellFounded, WFMin
<1>3. ASSUME NEW i \in S PROVE m <= i
  <2>1. ~(<<i, m>> \in Below) /\ i \in Nat /\ m \in Nat
    BY <1>1, <1>2
  <2> QED
    BY <2>1 DEF Below
<1> QED
  BY <1>3

LEMMA LatestExists ==
    ASSUME NEW ks \in SUBSET Nat, NEW k \in Nat, NEW j \in ks, j < k
    PROVE  \E m : Latest(m, ks, k)
<1> DEFINE S == {k - i : i \in {i \in ks : i < k}}
<1>1. S \in SUBSET Nat /\ k - j \in S
  OBVIOUS
<1>2. PICK d \in S : \A e \in S : d <= e
  <2> HIDE DEF S
  <2> QED
    BY <1>1, LeastNumber
<1>3. PICK m \in ks : m < k /\ d = k - m
  OBVIOUS
<1>4. ASSUME NEW i \in ks, i < k PROVE i <= m
  <2>1. k - i \in S
    BY <1>4
  <2>2. d <= k - i
    BY <1>2, <2>1
  <2> QED
    BY <1>3, <2>2
<1> QED
  BY <1>3, <1>4 DEF Latest

LEMMA LatestHash ==
    ASSUME NEW rs, NEW ks \in SUBSET Nat, NEW k \in Nat, NEW m, Latest(m, ks, k)
    PROVE  LastHash(rs, ks, k) = rs[m].hash
<1> DEFINE Last(j) == j < k /\ \A i \in ks : i < k => i <= j
<1>1. m \in ks /\ Last(m) /\ ~(\A j \in ks : j >= k)
  BY DEF Latest
<1>2. (CHOOSE j \in ks : Last(j)) \in ks /\ Last(CHOOSE j \in ks : Last(j))
  BY <1>1
<1>3. (CHOOSE j \in ks : Last(j)) = m
  <2>1. PICK c : c = CHOOSE j \in ks : Last(j)
    OBVIOUS
  <2>2. c \in ks /\ Last(c)
    BY <1>2, <2>1
  <2>3. c <= m /\ m <= c
    BY <1>1, <2>2
  <2> QED
    BY <1>1, <2>1, <2>2, <2>3
<1> QED
  BY <1>1, <1>3 DEF LastHash

LEMMA NoneBefore ==
    ASSUME NEW rs, NEW ks \in SUBSET Nat, NEW k \in Nat, ~(\E m : Latest(m, ks, k))
    PROVE  LastHash(rs, ks, k) = GENESIS /\ \A j \in ks : j >= k
<1>1. \A j \in ks : j >= k
  BY LatestExists
<1> QED
  BY <1>1 DEF LastHash

(* The hash depends on the rows before alone. *)
LEMMA SameLastHash ==
    ASSUME NEW rs, NEW ss, NEW ks \in SUBSET Nat, NEW ls \in SUBSET Nat,
           NEW k \in Nat, NEW l \in Nat,
           \A j \in Nat : j \in ks /\ j < k <=> j \in ls /\ j < l,
           \A j \in ks : j < k => rs[j].hash = ss[j].hash
    PROVE  LastHash(rs, ks, k) = LastHash(ss, ls, l)
<1>1. CASE \E m : Latest(m, ks, k)
  <2>1. PICK m : Latest(m, ks, k)
    BY <1>1
  <2>2. Latest(m, ls, l) /\ rs[m].hash = ss[m].hash
    BY <2>1 DEF Latest
  <2> QED
    BY <2>1, <2>2, LatestHash
<1>2. CASE ~(\E m : Latest(m, ks, k))
  <2>1. ~(\E m : Latest(m, ls, l))
    BY <1>2 DEF Latest
  <2> QED
    BY <1>2, <2>1, NoneBefore
<1> QED
  BY <1>1, <1>2

-----------------------------------------------------------------------------
(* Verification, of any table rs whose committed rows are cs. *)

Verifies(rs, cs, k) ==
    LET prev == LastHash(rs, cs, k)
    IN  rs[k].prev = prev /\ rs[k].hash = EventHash(prev, rs[k].body)

LEMMA VerifyChainIs ==
    /\ VerifyChain <=> \A k \in Committed : Verifies(rows, Committed, k)
    /\ VerifyChain' <=> \A k \in Committed' : Verifies(rows', Committed', k)
BY DEF VerifyChain, RowVerifies, HashBefore, Verifies, LastHash

(* No two rows of a trail that verifies have the same hash: it covers all   *)
(* that came before, back to the first row.                                 *)
LEMMA HashesDiffer ==
    ASSUME NEW rs, NEW cs \in SUBSET Nat, \A k \in cs : Verifies(rs, cs, k),
           NEW i \in cs, NEW j \in cs, i < j
    PROVE  rs[i].hash # rs[j].hash
<1> DEFINE S == {y \in cs : \E x \in cs : x < y /\ rs[x].hash = rs[y].hash}
<1> SUFFICES ASSUME S # {} PROVE FALSE
  BY DEF S
<1>1. PICK y \in S : \A z \in S : y <= z
  BY LeastNumber
<1>2. PICK x \in cs : x < y /\ rs[x].hash = rs[y].hash
  OBVIOUS
<1>3. y \in cs /\ y \in Nat /\ x \in Nat
  OBVIOUS
<1> HIDE DEF S
<1>4. LastHash(rs, cs, x) = LastHash(rs, cs, y)
  BY <1>2, <1>3 DEF Verifies, EventHash
<1>5. PICK y1 : Latest(y1, cs, y)
  BY <1>2, <1>3, LatestExists
<1>6. y1 \in cs /\ x <= y1 /\ y1 < y /\ LastHash(rs, cs, y) = rs[y1].hash
  BY <1>2, <1>3, <1>5, LatestHash DEF Latest
<1>7. rs[y1].hash # GENESIS
  <2>1. PICK p, b : rs[y1].hash = <<p, b>>
    BY <1>6 DEF Verifies, EventHash
  <2> QED
    BY <2>1 DEF GENESIS
<1>8. PICK x1 : Latest(x1, cs, x)
  BY <1>3, <1>4, <1>6, <1>7, NoneBefore
<1>9. x1 \in cs /\ x1 < x /\ LastHash(rs, cs, x) = rs[x1].hash
  BY <1>3, <1>8, LatestHash DEF Latest
<1>10. x1 < y1 /\ rs[x1].hash = rs[y1].hash
  BY <1>3, <1>4, <1>6, <1>9
<1>11. y1 \in S
  BY <1>6, <1>9, <1>10 DEF S
<1> QED
  BY <1>1, <1>3, <1>6, <1>11

-----------------------------------------------------------------------------
(* The inductive invariant. *)

(* What a writer takes for the hash of the last row is the hash of a row    *)
(* that it could see: one committed, or one of its own.                     *)
Known(rs, hash, k, writer) ==
    \/ hash = GENESIS
    \/ \E r \in DOMAIN rs : r < k /\ rs[r].hash = hash /\ rs[r].owner \in {NoOne, writer}

Chained ==
    /\ \A k \in DOMAIN rows : /\ Known(rows, rows[k].prev, k, rows[k].owner)
                              /\ rows[k].hash = EventHash(rows[k].prev, rows[k].body)
    /\ \A w \in Writers : seen[w] # NoOne => Known(rows, seen[w], nextSeq, w)

(* Handlers that run one at a time: one transaction is open, and its rows   *)
(* come last.                                                               *)
OneOpen ==
    /\ \A w, x \in Writers : Open(w) /\ Open(x) => w = x
    /\ \A j \in Committed, k \in DOMAIN rows \ Committed : j < k

(* And nobody touched the table: every row names the one before it.         *)
Linked ==
    /\ \A k \in DOMAIN rows : rows[k].prev = LastHash(rows, DOMAIN rows, k)
    /\ \A w \in Writers : seen[w] # NoOne => seen[w] = LastHash(rows, DOMAIN rows, MaxSeq + 1)

IInv ==
    /\ TypeOK
    /\ ~damaged => Chained
    /\ ~overlapped => OneOpen
    /\ ~overlapped /\ ~damaged => Linked
    /\ ~overlapped /\ damaged => ~VerifyChain

-----------------------------------------------------------------------------
(* Every step keeps it. *)

LEMMA RowNumbers ==
    ASSUME TypeOK
    PROVE  /\ DOMAIN rows \in SUBSET Nat /\ Committed \in SUBSET Nat
           /\ Committed \subseteq DOMAIN rows
           /\ MaxSeq + 1 \in Nat /\ nextSeq \in Nat
           /\ \A k \in DOMAIN rows : k < nextSeq /\ k < MaxSeq + 1
BY AuditAssumption DEF TypeOK, Committed

(* The committed rows are the same, but for who owned them. *)
LEMMA SameTrail ==
    ASSUME TypeOK, Committed' = Committed,
           \A k \in Committed : /\ rows'[k].prev = rows[k].prev
                                /\ rows'[k].hash = rows[k].hash
                                /\ rows'[k].body = rows[k].body
    PROVE  VerifyChain' <=> VerifyChain
<1>1. \A k \in Committed : LastHash(rows', Committed', k) = LastHash(rows, Committed, k)
  <2> SUFFICES ASSUME NEW k \in Committed
               PROVE  LastHash(rows', Committed, k) = LastHash(rows, Committed, k)
    OBVIOUS
  <2>1. Committed \in SUBSET Nat /\ k \in Nat
    BY RowNumbers
  <2> HIDE DEF Committed
  <2> QED
    BY <2>1, SameLastHash
<1>2. \A k \in Committed : Verifies(rows', Committed', k) <=> Verifies(rows, Committed, k)
  BY <1>1 DEF Verifies
<1> QED
  BY <1>2, VerifyChainIs

(* A trail that does not verify does not verify when rows follow it. *)
LEMMA LongerTrail ==
    ASSUME TypeOK, TypeOK', ~VerifyChain, Committed \subseteq Committed',
           \A j \in Committed, k \in Committed' \ Committed : j < k,
           \A k \in Committed : /\ rows'[k].prev = rows[k].prev
                                /\ rows'[k].hash = rows[k].hash
                                /\ rows'[k].body = rows[k].body
    PROVE  ~VerifyChain'
<1>1. PICK k \in Committed : ~Verifies(rows, Committed, k)
  BY VerifyChainIs
<1>2. PICK cs, ds : cs = Committed /\ ds = Committed'
  OBVIOUS
<1>3. cs \in SUBSET Nat /\ k \in cs /\ k \in Nat
  BY <1>2, RowNumbers
<1>4. ds \in SUBSET Nat
  BY <1>2, AuditAssumption DEF TypeOK, Committed
<1>5. \A j \in Nat : j \in cs /\ j < k <=> j \in ds /\ j < k
  BY <1>2, <1>3
<1>6. LastHash(rows, cs, k) = LastHash(rows', ds, k)
  <2>1. \A j \in cs : j < k => rows[j].hash = rows'[j].hash
    BY <1>2
  <2> QED
    BY <1>3, <1>4, <1>5, <2>1, SameLastHash
<1>7. ~Verifies(rows', ds, k)
  BY <1>1, <1>2, <1>3, <1>6 DEF Verifies
<1> QED
  BY <1>2, <1>3, <1>7, VerifyChainIs

LEMMA IStart == Init => IInv
<1> SUFFICES ASSUME Init PROVE IInv
  OBVIOUS
<1>1. DOMAIN rows = {} /\ ~damaged /\ \A w \in Writers : seen[w] = NoOne
  BY DEF Init
<1>2. TypeOK
  <2>1. nextSeq \in 1 .. MaxSeq + 1 /\ DOMAIN seen = Writers
    BY AuditAssumption DEF Init
  <2>2. overlapped \in BOOLEAN /\ damaged \in BOOLEAN
    BY DEF Init
  <2> QED
    BY <1>1, <2>1, <2>2 DEF TypeOK
<1>3. Committed = {} /\ \A w : OwnedBy(w) = {}
  BY <1>1 DEF Committed, OwnedBy
<1>4. Chained /\ OneOpen /\ Linked
  BY <1>1, <1>3 DEF Chained, OneOpen, Linked, Open
<1> QED
  BY <1>1, <1>2, <1>4 DEF IInv

LEMMA ReadKeeps ==
    ASSUME IInv, NEW w \in Writers, ReadLast(w) PROVE IInv'
<1>1. TypeOK /\ seen[w] = NoOne /\ UNCHANGED <<rows, nextSeq, damaged>>
      /\ seen' = [seen EXCEPT ![w] = HashBefore(Visible(w), MaxSeq + 1)]
      /\ overlapped' = (overlapped \/ \E x \in Writers \ {w} : Open(x))
  BY DEF IInv, ReadLast
<1>2. PICK hash : hash = HashBefore(Visible(w), MaxSeq + 1)
  OBVIOUS
<1>3. seen'[w] = hash /\ \A x \in Writers \ {w} : seen'[x] = seen[x]
  BY <1>1, <1>2 DEF TypeOK
<1>4. TypeOK'
  BY <1>1 DEF TypeOK
<1>5. Visible(w) \in SUBSET Nat /\ Visible(w) \subseteq DOMAIN rows
  BY <1>1, RowNumbers DEF Visible, OwnedBy
<1>6. hash = LastHash(rows, Visible(w), MaxSeq + 1)
  BY <1>2 DEF HashBefore, LastHash
<1>7. ASSUME ~damaged' PROVE Chained'
  <2>1. Chained
    BY <1>1, <1>7 DEF IInv
  <2>2. Known(rows, hash, nextSeq, w)
    <3>1. CASE \E m : Latest(m, Visible(w), MaxSeq + 1)
      <4>1. PICK m : Latest(m, Visible(w), MaxSeq + 1)
        BY <3>1
      <4>2. m \in Visible(w) /\ hash = rows[m].hash
        BY <1>1, <1>5, <1>6, <4>1, LatestHash, RowNumbers DEF Latest
      <4>3. m \in DOMAIN rows /\ m < nextSeq /\ rows[m].owner \in {NoOne, w}
        BY <1>1, <4>2, RowNumbers DEF Visible, Committed, OwnedBy
      <4> QED
        BY <4>2, <4>3 DEF Known
    <3>2. CASE ~(\E m : Latest(m, Visible(w), MaxSeq + 1))
      <4>1. hash = GENESIS
        BY <1>1, <1>5, <1>6, <3>2, NoneBefore, RowNumbers
      <4> QED
        BY <4>1 DEF Known
    <3> QED
      BY <3>1, <3>2
  <2>3. \A x \in Writers : seen'[x] # NoOne => Known(rows, seen'[x], nextSeq, x)
    BY <1>3, <2>1, <2>2 DEF Chained
  <2> QED
    BY <1>1, <2>1, <2>3 DEF Chained, Known
<1>8. ASSUME ~overlapped' PROVE OneOpen'
  <2>1. OneOpen /\ \A x \in Writers \ {w} : ~Open(x)
    BY <1>1, <1>8 DEF IInv
  <2>2. Committed' = Committed /\ \A x \in Writers : OwnedBy(x)' = OwnedBy(x)
    BY <1>1 DEF Committed, OwnedBy
  <2>3. \A x \in Writers \ {w} : ~Open(x)'
    BY <1>3, <2>1, <2>2 DEF Open
  <2> QED
    BY <1>1, <2>1, <2>2, <2>3 DEF OneOpen
<1>9. ASSUME ~overlapped', ~damaged' PROVE Linked'
  <2>1. OneOpen /\ Linked /\ \A x \in Writers \ {w} : ~Open(x)
    BY <1>1, <1>9 DEF IInv
  <2>2. Visible(w) = DOMAIN rows
    BY <1>1, <2>1 DEF Visible, Committed, OwnedBy, Open, TypeOK
  <2>3. \A x \in Writers : seen'[x] # NoOne => seen'[x] = LastHash(rows, DOMAIN rows, MaxSeq + 1)
    BY <1>3, <1>6, <2>1, <2>2 DEF Linked
  <2> QED
    BY <1>1, <2>1, <2>3 DEF Linked
<1>10. ~overlapped' /\ damaged' => ~VerifyChain'
  <2>1. Committed' = Committed
    BY <1>1 DEF Committed
  <2>2. VerifyChain' <=> VerifyChain
    BY <1>1, <2>1, SameTrail
  <2> QED
    BY <1>1, <2>2 DEF IInv
<1> QED
  BY <1>4, <1>7, <1>8, <1>9, <1>10 DEF IInv

LEMMA InsertKeeps ==
    ASSUME IInv, NEW w \in Writers, NEW body \in Bodies, Insert(w, body) PROVE IInv'
<1>1. PICK n, row : n = nextSeq /\ row = NewRow(w, body)
  OBVIOUS
<1>2. /\ TypeOK /\ seen[w] # NoOne /\ n <= MaxSeq /\ UNCHANGED <<overlapped, damaged>>
      /\ seen' = [seen EXCEPT ![w] = NoOne] /\ nextSeq' = n + 1
  BY <1>1 DEF IInv, Insert
<1>3. /\ DOMAIN rows' = DOMAIN rows \cup {n} /\ n \in Nat /\ n \notin DOMAIN rows
      /\ rows'[n] = row /\ \A k \in DOMAIN rows : k < n /\ rows'[k] = rows[k]
  BY <1>1, <1>2, RowNumbers DEF Insert
<1>4. /\ DOMAIN row = {"owner", "body", "prev", "hash"} /\ row.owner = w /\ row.body = body
      /\ row.prev = seen[w] /\ row.hash = EventHash(row.prev, row.body)
  BY <1>1 DEF NewRow
<1>5. seen'[w] = NoOne /\ \A x \in Writers \ {w} : seen'[x] = seen[x]
  BY <1>2 DEF TypeOK
<1>6. TypeOK'
  <2>1. nextSeq' \in 1 .. MaxSeq + 1 /\ DOMAIN rows' \subseteq 1 .. nextSeq' - 1
    BY <1>1, <1>2, <1>3, AuditAssumption DEF TypeOK
  <2>2. \A k \in DOMAIN rows' : /\ DOMAIN rows'[k] = {"owner", "body", "prev", "hash"}
                               /\ rows'[k].owner \in Writers \cup {NoOne}
                               /\ rows'[k].body \in Bodies
    BY <1>2, <1>3, <1>4 DEF TypeOK
  <2>3. DOMAIN seen' = Writers /\ overlapped' \in BOOLEAN /\ damaged' \in BOOLEAN
    BY <1>2 DEF TypeOK
  <2> QED
    BY <2>1, <2>2, <2>3 DEF TypeOK
<1>7. Committed' = Committed
  BY <1>3, <1>4, AuditAssumption DEF Committed
<1>8. ASSUME ~damaged' PROVE Chained'
  <2>1. Chained
    BY <1>2, <1>8 DEF IInv
  <2>2. \A hash, x : \A k \in Nat : Known(rows, hash, k, x) => Known(rows', hash, k, x)
    BY <1>3 DEF Known
  <2>3. \A k \in DOMAIN rows' : /\ Known(rows', rows'[k].prev, k, rows'[k].owner)
                               /\ rows'[k].hash = EventHash(rows'[k].prev, rows'[k].body)
    <3> SUFFICES ASSUME NEW k \in DOMAIN rows'
                 PROVE  /\ Known(rows', rows'[k].prev, k, rows'[k].owner)
                        /\ rows'[k].hash = EventHash(rows'[k].prev, rows'[k].body)
      OBVIOUS
    <3>1. CASE k = n
      <4>1. Known(rows, seen[w], n, w)
        BY <1>1, <1>2, <2>1 DEF Chained
      <4> QED
        BY <1>3, <1>4, <2>2, <3>1, <4>1
    <3>2. CASE k \in DOMAIN rows
      <4>1. k \in Nat /\ rows'[k] = rows[k]
        BY <1>2, <1>3, <3>2, RowNumbers
      <4>2. Known(rows, rows[k].prev, k, rows[k].owner) /\ rows[k].hash = EventHash(rows[k].prev, rows[k].body)
        BY <2>1, <3>2 DEF Chained
      <4> QED
        BY <2>2, <4>1, <4>2
    <3> QED
      BY <1>3, <3>1, <3>2
  <2>4. ASSUME NEW x \in Writers, seen'[x] # NoOne PROVE Known(rows', seen'[x], n + 1, x)
    <3>1. x # w /\ seen'[x] = seen[x]
      BY <1>5, <2>4
    <3>2. Known(rows, seen[x], n, x)
      BY <1>1, <2>1, <2>4, <3>1 DEF Chained
    <3>3. Known(rows, seen[x], n + 1, x)
      BY <1>2, <1>3, <3>2, RowNumbers DEF Known
    <3> QED
      BY <1>3, <2>2, <3>1, <3>3
  <2> QED
    BY <1>2, <2>3, <2>4 DEF Chained
<1>9. ASSUME ~overlapped' PROVE OneOpen'
  <2>1. OneOpen
    BY <1>2, <1>9 DEF IInv
  <2>2. \A x \in Writers : Open(x)' => Open(x)
    <3>1. \A x \in Writers \ {w} : OwnedBy(x)' = OwnedBy(x)
      BY <1>3, <1>4 DEF OwnedBy
    <3> QED
      BY <1>2, <1>5, <3>1 DEF Open
  <2>3. \A j \in Committed, k \in DOMAIN rows' \ Committed : j < k
    BY <1>3, <2>1 DEF OneOpen, Committed
  <2> QED
    BY <1>7, <2>1, <2>2, <2>3 DEF OneOpen
<1>10. ASSUME ~overlapped', ~damaged' PROVE Linked'
  <2>1. OneOpen /\ Linked
    BY <1>2, <1>10 DEF IInv
  <2>2. \A x \in Writers : seen'[x] = NoOne
    BY <1>2, <1>5, <2>1 DEF OneOpen, Open
  <2>3. PICK ks : ks = DOMAIN rows /\ ks \in SUBSET Nat
    BY <1>2, RowNumbers
  <2>4. PICK ls : ls = DOMAIN rows' /\ ls = ks \cup {n} /\ ls \in SUBSET Nat
    BY <1>3, <2>3
  <2>5. ASSUME NEW k \in ks PROVE LastHash(rows, ks, k) = LastHash(rows', ls, k)
    BY <1>3, <2>3, <2>4, SameLastHash
  <2>6. LastHash(rows, ks, MaxSeq + 1) = LastHash(rows', ls, n)
    BY <1>2, <1>3, <2>3, <2>4, SameLastHash, RowNumbers
  <2>7. seen[w] = LastHash(rows, ks, MaxSeq + 1)
    BY <1>2, <2>1, <2>3 DEF Linked
  <2>8. \A k \in ls : rows'[k].prev = LastHash(rows', ls, k)
    BY <1>3, <1>4, <2>1, <2>3, <2>4, <2>5, <2>6, <2>7 DEF Linked
  <2> QED
    BY <2>2, <2>4, <2>8 DEF Linked
<1>11. VerifyChain' <=> VerifyChain
  BY <1>2, <1>3, <1>7, SameTrail, RowNumbers
<1> QED
  BY <1>2, <1>6, <1>8, <1>9, <1>10, <1>11 DEF IInv

LEMMA CommitKeeps ==
    ASSUME IInv, NEW w \in Writers, Commit(w) PROVE IInv'
<1>1. /\ TypeOK /\ seen[w] = NoOne /\ OwnedBy(w) # {}
      /\ UNCHANGED <<nextSeq, seen, overlapped, damaged>>
  BY DEF IInv, Commit
<1>2. /\ DOMAIN rows' = DOMAIN rows
      /\ \A k \in DOMAIN rows :
            /\ DOMAIN rows'[k] = {"owner", "body", "prev", "hash"}
            /\ rows'[k].body = rows[k].body /\ rows'[k].prev = rows[k].prev
            /\ rows'[k].hash = rows[k].hash
            /\ rows'[k].owner = IF rows[k].owner = w THEN NoOne ELSE rows[k].owner
  BY <1>1 DEF Commit, OwnedBy, TypeOK
<1>3. /\ Committed' = Committed \cup OwnedBy(w)
      /\ OwnedBy(w)' = {} /\ \A x \in Writers \ {w} : OwnedBy(x)' = OwnedBy(x)
  BY <1>2, AuditAssumption DEF Committed, OwnedBy
<1>4. TypeOK'
  BY <1>1, <1>2 DEF TypeOK
<1>5. ASSUME ~damaged' PROVE Chained'
  <2>1. Chained
    BY <1>1, <1>5 DEF IInv
  <2>2. ASSUME NEW hash, NEW k, NEW x, Known(rows, hash, k, x)
        PROVE  Known(rows', hash, k, IF x = w THEN NoOne ELSE x)
    BY <1>2, <2>2 DEF Known
  <2>3. ASSUME NEW k \in DOMAIN rows
        PROVE  /\ Known(rows', rows'[k].prev, k, rows'[k].owner)
               /\ rows'[k].hash = EventHash(rows'[k].prev, rows'[k].body)
    <3>1. Known(rows, rows[k].prev, k, rows[k].owner) /\ rows[k].hash = EventHash(rows[k].prev, rows[k].body)
      BY <2>1 DEF Chained
    <3> QED
      BY <1>2, <2>2, <3>1
  <2>4. ASSUME NEW x \in Writers, seen[x] # NoOne PROVE Known(rows', seen[x], nextSeq, x)
    <3>1. x # w /\ Known(rows, seen[x], nextSeq, x)
      BY <1>1, <2>1, <2>4 DEF Chained
    <3> QED
      BY <2>2, <3>1
  <2> QED
    BY <1>1, <1>2, <2>3, <2>4 DEF Chained
<1>6. ASSUME ~overlapped' PROVE OneOpen'
  <2>1. OneOpen /\ Open(w)
    BY <1>1, <1>6 DEF IInv, Open
  <2>2. \A x \in Writers : Open(x)' => Open(x) /\ x # w
    BY <1>1, <1>3 DEF Open
  <2>3. \A x \in Writers \ {w} : OwnedBy(x) = {}
    BY <2>1 DEF OneOpen, Open
  <2>4. Committed' = DOMAIN rows'
    BY <1>1, <1>2, <1>3, <2>3 DEF Committed, OwnedBy, TypeOK
  <2> QED
    BY <2>1, <2>2, <2>4 DEF OneOpen
<1>7. ASSUME ~overlapped', ~damaged' PROVE Linked'
  <2>1. OneOpen /\ Linked /\ Open(w)
    BY <1>1, <1>7 DEF IInv, Open
  <2>2. \A x \in Writers : seen[x] = NoOne
    BY <1>1, <2>1 DEF OneOpen, Open
  <2>3. PICK ks : ks = DOMAIN rows /\ ks \in SUBSET Nat
    BY <1>1, RowNumbers
  <2>4. ASSUME NEW k \in ks PROVE LastHash(rows, ks, k) = LastHash(rows', ks, k)
    <3>1. \A j \in ks : rows[j].hash = rows'[j].hash
      BY <1>2, <2>3
    <3> QED
      BY <2>3, <3>1, SameLastHash
  <2>5. \A k \in ks : rows'[k].prev = LastHash(rows', ks, k)
    BY <1>2, <2>1, <2>3, <2>4 DEF Linked
  <2> QED
    BY <1>1, <1>2, <2>2, <2>3, <2>5 DEF Linked
<1>8. ASSUME ~overlapped', damaged' PROVE ~VerifyChain'
  <2>1. ~VerifyChain /\ OneOpen
    BY <1>1, <1>8 DEF IInv
  <2>2. \A j \in Committed, k \in Committed' \ Committed : j < k
    BY <1>3, <2>1 DEF OneOpen, OwnedBy
  <2>3. \A k \in Committed : k \in DOMAIN rows
    BY DEF Committed
  <2> QED
    BY <1>1, <1>2, <1>3, <1>4, <2>1, <2>2, <2>3, LongerTrail
<1> QED
  BY <1>4, <1>5, <1>6, <1>7, <1>8 DEF IInv

LEMMA RollbackKeeps ==
    ASSUME IInv, NEW w \in Writers, Rollback(w) PROVE IInv'
<1>1. /\ TypeOK /\ Open(w) /\ UNCHANGED <<nextSeq, overlapped, damaged>>
      /\ seen' = [seen EXCEPT ![w] = NoOne]
  BY DEF IInv, Rollback
<1>2. /\ DOMAIN rows' = DOMAIN rows \ OwnedBy(w)
      /\ \A k \in DOMAIN rows' : rows'[k] = rows[k]
  BY DEF Rollback
<1>3. Committed' = Committed /\ OwnedBy(w)' = {} /\ \A x \in Writers \ {w} : OwnedBy(x)' = OwnedBy(x)
  BY <1>2, AuditAssumption DEF Committed, OwnedBy
<1>4. seen'[w] = NoOne /\ \A x \in Writers \ {w} : seen'[x] = seen[x]
  BY <1>1 DEF TypeOK
<1>5. TypeOK'
  BY <1>1, <1>2 DEF TypeOK
<1>6. ASSUME ~damaged' PROVE Chained'
  <2>1. Chained
    BY <1>1, <1>6 DEF IInv
  <2>2. ASSUME NEW hash, NEW k, NEW x, x # w, Known(rows, hash, k, x)
        PROVE  Known(rows', hash, k, x)
    BY <1>2, <2>2, AuditAssumption DEF Known, OwnedBy
  <2>3. ASSUME NEW k \in DOMAIN rows'
        PROVE  /\ Known(rows', rows'[k].prev, k, rows'[k].owner)
               /\ rows'[k].hash = EventHash(rows'[k].prev, rows'[k].body)
    <3>1. k \in DOMAIN rows /\ rows[k].owner # w /\ rows'[k] = rows[k]
      BY <1>2 DEF OwnedBy
    <3>2. Known(rows, rows[k].prev, k, rows[k].owner) /\ rows[k].hash = EventHash(rows[k].prev, rows[k].body)
      BY <2>1, <3>1 DEF Chained
    <3> QED
      BY <2>2, <3>1, <3>2
  <2>4. ASSUME NEW x \in Writers, seen'[x] # NoOne PROVE Known(rows', seen'[x], nextSeq, x)
    <3>1. x # w /\ seen'[x] = seen[x] /\ Known(rows, seen[x], nextSeq, x)
      BY <1>4, <2>1, <2>4 DEF Chained
    <3> QED
      BY <2>2, <3>1
  <2> QED
    BY <1>1, <2>3, <2>4 DEF Chained
<1>7. \A x \in Writers : Open(x)' => Open(x) /\ x # w
  BY <1>3, <1>4 DEF Open
<1>8. ASSUME ~overlapped' PROVE OneOpen'
  BY <1>1, <1>2, <1>3, <1>7, <1>8 DEF IInv, OneOpen
<1>9. ASSUME ~overlapped', ~damaged' PROVE Linked'
  <2>1. OneOpen /\ Linked
    BY <1>1, <1>9 DEF IInv
  <2>2. \A x \in Writers : seen'[x] = NoOne
    BY <1>1, <1>7, <2>1 DEF OneOpen, Open
  <2>3. PICK ks : ks = DOMAIN rows /\ ks \in SUBSET Nat
    BY <1>1, RowNumbers
  <2>4. PICK cs : cs = Committed /\ cs \subseteq ks /\ cs \in SUBSET Nat
    BY <1>1, <2>3, RowNumbers
  <2>5. DOMAIN rows' = cs
    <3>1. \A x \in Writers \ {w} : OwnedBy(x) = {}
      BY <1>1, <2>1 DEF OneOpen, Open
    <3> QED
      BY <1>1, <1>2, <2>4, <3>1, AuditAssumption DEF Committed, OwnedBy, TypeOK
  <2>6. \A j \in cs, k \in ks \ cs : j < k
    BY <2>1, <2>3, <2>4 DEF OneOpen
  <2>7. ASSUME NEW k \in cs PROVE LastHash(rows, ks, k) = LastHash(rows', cs, k)
    <3>1. k \in Nat /\ \A j \in cs : rows[j].hash = rows'[j].hash
      BY <1>2, <2>4, <2>5
    <3>2. \A j \in Nat : j \in cs /\ j < k <=> j \in ks /\ j < k
      BY <2>4, <2>6, <3>1
    <3> QED
      BY <2>3, <2>4, <3>1, <3>2, SameLastHash
  <2>8. \A k \in cs : rows'[k].prev = LastHash(rows', cs, k)
    BY <1>2, <2>1, <2>3, <2>4, <2>5, <2>7 DEF Linked
  <2> QED
    BY <2>2, <2>5, <2>8 DEF Linked
<1>10. VerifyChain' <=> VerifyChain
  <2>1. \A k \in Committed : rows'[k] = rows[k]
    BY <1>2, AuditAssumption DEF Committed, OwnedBy
  <2> QED
    BY <1>1, <1>3, <2>1, SameTrail
<1> QED
  BY <1>1, <1>5, <1>6, <1>8, <1>9, <1>10 DEF IInv

(* Behind the program's back: what matters is that it shows. *)
LEMMA EditShows ==
    ASSUME TypeOK, NEW k \in 1 .. MaxSeq, NEW body \in Bodies, Edit(k, body)
    PROVE  TypeOK' /\ Committed' = Committed /\ ~VerifyChain'
<1>1. VerifyChain /\ k \in Committed /\ k \in DOMAIN rows /\ rows[k].body # body
  BY DEF Edit, Committed
<1>2. /\ DOMAIN rows' = DOMAIN rows
      /\ \A j \in DOMAIN rows \ {k} : rows'[j] = rows[j]
      /\ rows'[k] = [rows[k] EXCEPT !.body = body]
      /\ UNCHANGED <<nextSeq, seen, overlapped>> /\ damaged' = TRUE
  BY <1>1 DEF Edit
<1>3. /\ DOMAIN rows'[k] = {"owner", "body", "prev", "hash"}
      /\ rows'[k].body = body /\ rows'[k].owner = rows[k].owner
      /\ rows'[k].hash = rows[k].hash /\ rows'[k].prev = rows[k].prev
  BY <1>1, <1>2 DEF TypeOK
<1>4. TypeOK'
  BY <1>2, <1>3 DEF TypeOK
<1>5. PICK cs : cs = Committed /\ cs \in SUBSET Nat
  BY RowNumbers
<1>6. Committed' = cs
  BY <1>2, <1>3, <1>5 DEF Committed
<1>7. LastHash(rows, cs, k) = LastHash(rows', cs, k)
  <2>1. \A j \in cs : j < k => rows[j].hash = rows'[j].hash
    BY <1>2, <1>5 DEF Committed
  <2> QED
    BY <1>1, <1>5, <2>1, SameLastHash
<1>8. Verifies(rows, cs, k)
  BY <1>1, <1>5, VerifyChainIs
<1>9. ~Verifies(rows', cs, k)
  BY <1>1, <1>3, <1>7, <1>8 DEF Verifies, EventHash
<1> QED
  BY <1>1, <1>4, <1>5, <1>6, <1>9, VerifyChainIs

LEMMA RemoveShows ==
    ASSUME TypeOK, NEW k \in 1 .. MaxSeq, Remove(k)
    PROVE  TypeOK' /\ Committed' = Committed \ {k} /\ ~VerifyChain'
<1>1. VerifyChain /\ k \in Committed /\ k \in DOMAIN rows
  BY DEF Remove, Committed
<1>2. /\ DOMAIN rows' = DOMAIN rows \ {k}
      /\ \A j \in DOMAIN rows \ {k} : rows'[j] = rows[j]
      /\ UNCHANGED <<nextSeq, seen, overlapped>> /\ damaged' = TRUE
  BY DEF Remove
<1>3. TypeOK'
  BY <1>2 DEF TypeOK
<1>4. PICK cs : cs = Committed /\ cs \in SUBSET Nat
  BY RowNumbers
<1>5. Committed' = cs \ {k}
  BY <1>2, <1>4 DEF Committed
<1>6. \A j \in cs : Verifies(rows, cs, j)
  BY <1>1, <1>4, VerifyChainIs
<1>7. k \in cs /\ k \in Nat
  BY <1>1, <1>4
<1>8. PICK n \in cs : k < n /\ \A j \in cs : k < j => n <= j
  <2>1. PICK S : S = {j \in cs : k < j}
    OBVIOUS
  <2>2. S \in SUBSET Nat /\ S # {}
    BY <1>4, <2>1 DEF Remove
  <2> QED
    BY <2>1, <2>2, LeastNumber
<1>9. n \in Nat /\ n # k
  BY <1>4, <1>7, <1>8
<1>10. rows[n].prev = rows[k].hash
  <2>1. Latest(k, cs, n)
    BY <1>4, <1>7, <1>8, <1>9 DEF Latest
  <2> QED
    BY <1>4, <1>6, <1>8, <1>9, <2>1, LatestHash DEF Verifies
<1>11. LastHash(rows', cs \ {k}, n) # rows[k].hash
  <2>1. CASE \E m : Latest(m, cs \ {k}, n)
    <3>1. PICK m : Latest(m, cs \ {k}, n)
      BY <2>1
    <3>2. m \in cs /\ m # k /\ m < n /\ m \in Nat
      BY <1>4, <3>1 DEF Latest
    <3>3. m < k
      BY <1>7, <1>8, <1>9, <3>2
    <3>4. rows'[m].hash = rows[m].hash
      BY <1>2, <1>4, <3>2 DEF Committed
    <3>5. rows[m].hash # rows[k].hash
      BY <1>4, <1>6, <1>7, <3>2, <3>3, HashesDiffer
    <3>6. LastHash(rows', cs \ {k}, n) = rows'[m].hash
      BY <1>4, <1>9, <3>1, LatestHash
    <3> QED
      BY <3>4, <3>5, <3>6
  <2>2. CASE ~(\E m : Latest(m, cs \ {k}, n))
    <3>1. LastHash(rows', cs \ {k}, n) = GENESIS
      BY <1>4, <1>9, <2>2, NoneBefore
    <3>2. PICK p, b : rows[k].hash = <<p, b>>
      BY <1>6, <1>7 DEF Verifies, EventHash
    <3> QED
      BY <3>1, <3>2 DEF GENESIS
  <2> QED
    BY <2>1, <2>2
<1>12. rows'[n] = rows[n]
  BY <1>2, <1>4, <1>8, <1>9 DEF Committed
<1>13. ~Verifies(rows', cs \ {k}, n)
  BY <1>10, <1>11, <1>12 DEF Verifies
<1> QED
  BY <1>3, <1>4, <1>5, <1>8, <1>9, <1>13, VerifyChainIs

(* The owners of the rows that stay, and what writers have seen, are the same. *)
LEMMA DamageKeeps ==
    ASSUME IInv, NEW k \in 1 .. MaxSeq,
           Remove(k) \/ \E body \in Bodies : Edit(k, body)
    PROVE  IInv'
<1>1. TypeOK' /\ ~VerifyChain' /\ Committed' \subseteq Committed
  BY EditShows, RemoveShows DEF IInv
<1>2. UNCHANGED <<seen, overlapped>> /\ damaged' = TRUE /\ k \in Committed
  BY DEF Edit, Remove
<1>3. /\ DOMAIN rows' \subseteq DOMAIN rows
      /\ \A j \in DOMAIN rows' : rows'[j].owner = rows[j].owner
      /\ DOMAIN rows \ DOMAIN rows' \subseteq {k}
  <2>1. CASE Remove(k)
    BY <2>1 DEF Remove
  <2>2. ASSUME NEW body \in Bodies, Edit(k, body)
        PROVE  /\ DOMAIN rows' = DOMAIN rows
               /\ \A j \in DOMAIN rows' : rows'[j].owner = rows[j].owner
    <3>1. DOMAIN rows' = DOMAIN rows /\ \A j \in DOMAIN rows \ {k} : rows'[j] = rows[j]
      BY <2>2 DEF Edit
    <3>2. k \in DOMAIN rows /\ rows'[k] = [rows[k] EXCEPT !.body = body]
      BY <2>2 DEF Edit, Committed
    <3>3. rows'[k].owner = rows[k].owner
      BY <3>2 DEF IInv, TypeOK
    <3> QED
      BY <3>1, <3>3
  <2> QED
    BY <2>1, <2>2
<1>4. \A x \in Writers : OwnedBy(x)' = OwnedBy(x)
  BY <1>2, <1>3, AuditAssumption DEF Committed, OwnedBy
<1>5. ASSUME ~overlapped' PROVE OneOpen'
  <2>1. OneOpen
    BY <1>2, <1>5 DEF IInv
  <2>2. \A x \in Writers : Open(x)' => Open(x)
    BY <1>2, <1>4 DEF Open
  <2>3. \A j \in DOMAIN rows' : j \in Committed' <=> j \in Committed
    BY <1>3 DEF Committed
  <2> QED
    BY <1>1, <1>3, <2>1, <2>2, <2>3 DEF OneOpen
<1> QED
  BY <1>1, <1>2, <1>5 DEF IInv

LEMMA StutterKeeps == ASSUME IInv, UNCHANGED vars PROVE IInv'
<1>1. UNCHANGED <<rows, nextSeq, seen, overlapped, damaged>>
  BY DEF vars
<1>2. Committed' = Committed /\ \A x \in Writers : OwnedBy(x)' = OwnedBy(x)
  BY <1>1 DEF Committed, OwnedBy
<1>3. VerifyChain' <=> VerifyChain
  BY <1>1, <1>2, SameTrail DEF IInv
<1>4. TypeOK' /\ (Chained' <=> Chained) /\ (Linked' <=> Linked)
  BY <1>1 DEF IInv, TypeOK, Chained, Linked
<1>5. OneOpen' <=> OneOpen
  BY <1>1, <1>2 DEF OneOpen, Open
<1> QED
  BY <1>1, <1>3, <1>4, <1>5 DEF IInv

LEMMA NextKeeps == IInv /\ [Next]_vars => IInv'
BY ReadKeeps, InsertKeeps, CommitKeeps, RollbackKeeps, DamageKeeps, StutterKeeps DEF Next

-----------------------------------------------------------------------------
(* What the invariant says of a trail. *)

LEMMA LinkedVerifies ==
    ASSUME IInv, ~overlapped, ~damaged PROVE VerifyChain
<1>1. OneOpen /\ Linked /\ Chained /\ TypeOK
  BY DEF IInv
<1>2. PICK ks, cs : ks = DOMAIN rows /\ cs = Committed
  OBVIOUS
<1>3. ks \in SUBSET Nat /\ cs \in SUBSET Nat /\ cs \subseteq ks
  BY <1>1, <1>2, RowNumbers
<1>4. \A j \in cs, k \in ks \ cs : j < k
  BY <1>1, <1>2 DEF OneOpen
<1>5. ASSUME NEW k \in cs PROVE Verifies(rows, cs, k)
  <2>1. k \in Nat /\ \A j \in Nat : j \in ks /\ j < k <=> j \in cs /\ j < k
    BY <1>3, <1>4
  <2>2. LastHash(rows, ks, k) = LastHash(rows, cs, k)
    BY <1>3, <2>1, SameLastHash
  <2>3. rows[k].prev = LastHash(rows, ks, k) /\ rows[k].hash = EventHash(rows[k].prev, rows[k].body)
    BY <1>1, <1>2, <1>3 DEF Linked, Chained
  <2> QED
    BY <2>2, <2>3 DEF Verifies
<1> QED
  BY <1>2, <1>5, VerifyChainIs

(* If a trail verifies after a transaction has added its rows, it did       *)
(* before: were one of these rows the predecessor of an older row, the      *)
(* writer of that had seen another row with the same hash.                  *)
LEMMA CommitMendsNothing ==
    ASSUME IInv, ~damaged, NEW w \in Writers, Commit(w), VerifyChain'
    PROVE  VerifyChain
<1>1. TypeOK /\ Chained
  BY DEF IInv
<1>2. /\ DOMAIN rows' = DOMAIN rows
      /\ \A k \in DOMAIN rows :
            /\ rows'[k].body = rows[k].body /\ rows'[k].prev = rows[k].prev
            /\ rows'[k].hash = rows[k].hash
            /\ rows'[k].owner = IF rows[k].owner = w THEN NoOne ELSE rows[k].owner
  BY <1>1 DEF Commit, OwnedBy, TypeOK
<1>3. PICK cs, ds : cs = Committed /\ ds = Committed'
  OBVIOUS
<1>4. cs \subseteq ds /\ ds \subseteq DOMAIN rows /\ cs \in SUBSET Nat /\ ds \in SUBSET Nat
  BY <1>1, <1>2, <1>3, RowNumbers DEF Committed
<1>5. \A k \in ds : Verifies(rows', ds, k)
  BY <1>3, VerifyChainIs
<1>6. ASSUME NEW k \in cs PROVE Verifies(rows, cs, k)
  <2>1. k \in ds /\ k \in Nat /\ k \in DOMAIN rows /\ rows[k].owner = NoOne
    BY <1>3, <1>4 DEF Committed
  <2>2. CASE \E m : Latest(m, ds, k)
    <3>1. PICK m : Latest(m, ds, k)
      BY <2>2
    <3>2. m \in ds /\ m < k /\ LastHash(rows', ds, k) = rows[m].hash
      BY <1>2, <1>4, <2>1, <3>1, LatestHash DEF Latest
    <3>3. rows[k].prev = rows[m].hash
      BY <1>2, <1>5, <2>1, <3>2 DEF Verifies
    <3>4. rows[m].hash # GENESIS
      <4>1. PICK p, b : rows[m].hash = <<p, b>>
        BY <1>1, <1>4, <3>2 DEF Chained, EventHash
      <4> QED
        BY <4>1 DEF GENESIS
    <3>5. Known(rows, rows[m].hash, k, NoOne)
      BY <1>1, <2>1, <3>3 DEF Chained
    <3>6. PICK r \in DOMAIN rows : r < k /\ rows[r].hash = rows[m].hash /\ rows[r].owner = NoOne
      BY <3>4, <3>5 DEF Known
    <3>7. r \in cs /\ r \in ds /\ r \in Nat /\ m \in Nat
      BY <1>3, <1>4, <3>2, <3>6 DEF Committed
    <3>8. r = m
      <4>1. r <= m
        BY <3>1, <3>6, <3>7 DEF Latest
      <4>2. ~(r < m)
        BY <1>2, <1>4, <1>5, <3>2, <3>6, <3>7, HashesDiffer
      <4> QED
        BY <3>7, <4>1, <4>2
    <3>9. Latest(m, cs, k)
      BY <1>4, <3>1, <3>7, <3>8 DEF Latest
    <3>10. LastHash(rows, cs, k) = rows[m].hash
      BY <1>4, <2>1, <3>9, LatestHash
    <3> QED
      BY <1>1, <2>1, <3>3, <3>10 DEF Verifies, Chained
  <2>3. CASE ~(\E m : Latest(m, ds, k))
    <3>1. ~(\E m : Latest(m, cs, k))
      <4>1. \A j \in ds : j >= k
        BY <1>4, <2>1, <2>3, NoneBefore
      <4>2. ASSUME NEW m, Latest(m, cs, k) PROVE FALSE
        <5>1. m \in ds /\ m \in Nat /\ m < k
          BY <1>4, <4>2 DEF Latest
        <5>2. m >= k
          BY <4>1, <5>1
        <5> QED
          BY <2>1, <5>1, <5>2
      <4> QED
        BY <4>2
    <3>2. LastHash(rows, cs, k) = LastHash(rows', ds, k)
      BY <1>4, <2>1, <2>3, <3>1, NoneBefore
    <3> QED
      BY <1>2, <1>5, <2>1, <3>2 DEF Verifies
  <2> QED
    BY <2>2, <2>3
<1> QED
  BY <1>3, <1>6, VerifyChainIs

LEMMA NothingMends ==
    ASSUME IInv, ~VerifyChain, ~damaged, [Next]_vars PROVE ~VerifyChain'
<1>1. ASSUME NEW w \in Writers, Commit(w) PROVE ~VerifyChain'
  BY <1>1, CommitMendsNothing
<1>2. ASSUME UNCHANGED rows PROVE VerifyChain' <=> VerifyChain
  <2>1. Committed' = Committed
    BY <1>2 DEF Committed
  <2> QED
    BY <1>2, <2>1, SameTrail DEF IInv
<1>3. ASSUME NEW w \in Writers, Rollback(w) PROVE VerifyChain' <=> VerifyChain
  <2>1. Committed' = Committed /\ \A k \in Committed : rows'[k] = rows[k]
    BY <1>3, AuditAssumption DEF Rollback, Committed, OwnedBy
  <2> QED
    BY <2>1, SameTrail DEF IInv
<1>4. ASSUME NEW w \in Writers, NEW body \in Bodies, Insert(w, body)
      PROVE  VerifyChain' <=> VerifyChain
  <2>1. nextSeq \notin DOMAIN rows /\ NewRow(w, body).owner = w
    BY RowNumbers DEF IInv, NewRow
  <2>2. /\ DOMAIN rows' = DOMAIN rows \cup {nextSeq} /\ rows'[nextSeq].owner = w
        /\ \A k \in DOMAIN rows : rows'[k] = rows[k]
    BY <1>4, <2>1 DEF Insert
  <2>3. Committed' = Committed /\ \A k \in Committed : rows'[k] = rows[k]
    BY <2>2, AuditAssumption DEF Committed
  <2> QED
    BY <2>3, SameTrail DEF IInv
<1>5. \A k, body : ~Edit(k, body) /\ ~Remove(k)
  BY DEF Edit, Remove
<1> QED
  BY <1>1, <1>2, <1>3, <1>4, <1>5 DEF Next, ReadLast, vars

-----------------------------------------------------------------------------
(* The theorems. *)

THEOREM AuditInvariant == Spec => []IInv
BY IStart, NextKeeps, PTL DEF Spec

(***************************************************************************)
(* SerialTrailVerifies (C7): handlers that run one at a time, with several *)
(* events each and with the gaps of those that fail, leave a trail that    *)
(* verifies.                                                               *)
(***************************************************************************)
THEOREM SerialVerifies == Spec => []SerialTrailVerifies
<1>1. IInv => SerialTrailVerifies
  BY LinkedVerifies DEF SerialTrailVerifies
<1> QED
  BY <1>1, AuditInvariant, PTL

(***************************************************************************)
(* DamageIsDetected (C7): an event edited or removed behind the program's  *)
(* back shows from then on, whatever handlers do that do not overlap.      *)
(***************************************************************************)
THEOREM DamageShows == Spec => []DamageIsDetected
<1>1. IInv => DamageIsDetected
  BY DEF IInv, DamageIsDetected
<1> QED
  BY <1>1, AuditInvariant, PTL

(***************************************************************************)
(* BrokenStaysBroken: a trail that overlapping handlers have forked never  *)
(* verifies again, whatever is recorded after.                             *)
(***************************************************************************)
THEOREM ForksStay == Spec => BrokenStaysBroken
<1>1. IInv /\ [Next]_vars => (~VerifyChain /\ ~damaged => ~VerifyChain')
  BY NothingMends
<1> QED
  BY <1>1, AuditInvariant, PTL DEF Spec, BrokenStaysBroken
=============================================================================
