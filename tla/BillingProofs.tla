---------------------------- MODULE BillingProofs ----------------------------
(***************************************************************************)
(* Theorems about Billing, for every value of its constants: any number of *)
(* firms, usage events, Checkout sessions and pushes, and - but for those  *)
(* under OneRequest - any number of requests at once.  Then about          *)
(* RateCards: any number of overlapping requests, scopes, prices, cards.   *)
(***************************************************************************)
EXTENDS MCBilling, FiniteSetTheorems, WellFoundedInduction, TLAPS

-----------------------------------------------------------------------------
(* The inductive invariant. *)

PaidBySession(i) == \E s \in DOMAIN sessions : sessions[s].invoice = i /\ sessions[s].done
PaidAtStripe(i) == invoices[i].stripe # 0 /\ stripeInvoices[invoices[i].stripe] = "paid"
IsApReference(i, reference) == ModeOf(i) = "external" /\ reference = <<"ap">>

(* A transaction that will mark an invoice paid, or write how it was paid,  *)
(* has seen the evidence.                                                   *)
SettlesOnEvidence(j) ==
    /\ j.invoice \in DOMAIN invoices
    /\ j.reference # NoReference => PaidBySession(j.invoice) \/ IsApReference(j.invoice, j.reference)
    /\ j.status = "paid" => \/ PaidBySession(j.invoice) \/ PaidAtStripe(j.invoice)
                            \/ IsApReference(j.invoice, j.reference)

(* What a transaction has read or was given still means something.  The     *)
(* number that an INSERT holds is the next one.                             *)
JobHolds(j) ==
    /\ j.at \in {"swept", "numbered", "inserted", "pushed"} =>
          j.stripe \in 0 .. Len(stripeInvoices)
    /\ j.at = "numbered" => j.number \in 1 .. Len(invoices) + 1
    /\ j.at \in {"inserted", "pushed"} => j.number = Len(invoices) + 1
    /\ j.at = "linking" => j.invoice \in DOMAIN invoices
    /\ j.at = "settling" => SettlesOnEvidence(j)

StripeKnown == \A i \in DOMAIN invoices : invoices[i].stripe \in 0 .. Len(stripeInvoices)

JobsHold == \A h \in Handlers : JobHolds(job[h])

(* One transaction holds the next number. *)
OneInserts == \A g, h \in Handlers : HasInserted(g) /\ HasInserted(h) => g = h

IInv ==
    /\ TypeOK
    /\ JobsHold
    /\ OneInserts
    /\ StripeKnown
    /\ PaidOnEvidence

-----------------------------------------------------------------------------
(* Evidence does not go away. *)

Jobs == {Idle} \cup Generating \cup Settling \cup Linking

(* A transaction's record tells by its step which kind it is of.            *)
LEMMA JobKinds ==
    ASSUME NEW j \in Jobs
    PROVE  /\ j.at \in {"swept", "numbered", "inserted", "pushed"} <=> j \in Generating
           /\ j.at = "settling" <=> j \in Settling
           /\ j.at = "linking" <=> j \in Linking
           /\ j.at = "idle" <=> j = Idle
BY DEF Jobs, Idle, Generating, Settling, Linking

SessionStays(s) ==
    /\ s \in DOMAIN sessions'
    /\ sessions'[s].invoice = sessions[s].invoice
    /\ sessions[s].done => sessions'[s].done

(* What is in the tables stays: rows keep firm and Stripe invoice, sessions *)
(* stay completed, and what Stripe was paid stays paid.                     *)
Grows ==
    /\ Len(invoices) <= Len(invoices') /\ Len(stripeInvoices) <= Len(stripeInvoices')
    /\ \A i \in DOMAIN invoices : /\ i \in DOMAIN invoices'
                                  /\ invoices'[i].firm = invoices[i].firm
                                  /\ invoices'[i].stripe = invoices[i].stripe
    /\ \A s \in DOMAIN sessions : SessionStays(s)
    /\ \A k \in DOMAIN stripeInvoices : stripeInvoices[k] = "paid" => stripeInvoices'[k] = "paid"

LEMMA EvidenceStays ==
    ASSUME TypeOK, StripeKnown, Grows, NEW i \in DOMAIN invoices
    PROVE  /\ PaidBySession(i) => PaidBySession(i)'
           /\ PaidAtStripe(i) => PaidAtStripe(i)'
           /\ ModeOf(i)' = ModeOf(i)
<1>1. PaidBySession(i) => PaidBySession(i)'
  BY DEF Grows, SessionStays, PaidBySession
<1>2. ModeOf(i)' = ModeOf(i)
  BY DEF Grows, ModeOf
<1>3. ASSUME PaidAtStripe(i) PROVE PaidAtStripe(i)'
  <2>1. stripeInvoices \in Seq({"open", "paid", "void"})
    BY DEF TypeOK
  <2>2. invoices[i].stripe \in DOMAIN stripeInvoices
    BY <1>3, <2>1 DEF StripeKnown, PaidAtStripe
  <2> QED
    BY <1>3, <2>2 DEF Grows, PaidAtStripe
<1> QED
  BY <1>1, <1>2, <1>3

(* So a transaction that meant something still does, as long as no invoice  *)
(* was added while it held a number.                                        *)
LEMMA JobHoldsStays ==
    ASSUME TypeOK, StripeKnown, Grows, NEW j \in Jobs, JobHolds(j),
           j.at \in {"inserted", "pushed"} => Len(invoices') = Len(invoices)
    PROVE  JobHolds(j)'
<1>1. /\ Len(invoices) \in Nat /\ Len(stripeInvoices) \in Nat
      /\ Len(invoices) <= Len(invoices') /\ Len(stripeInvoices) <= Len(stripeInvoices')
  BY DEF Grows, TypeOK
<1>2. ASSUME j.at \in {"swept", "numbered", "inserted", "pushed"}
      PROVE  j.stripe \in 0 .. Len(stripeInvoices')
  BY <1>1, <1>2 DEF JobHolds
<1>3. ASSUME j.at = "numbered" PROVE j.number \in 1 .. Len(invoices') + 1
  BY <1>1, <1>3 DEF JobHolds
<1>4. ASSUME j.at \in {"inserted", "pushed"} PROVE j.number = Len(invoices') + 1
  BY <1>4 DEF JobHolds
<1>5. ASSUME j.at = "linking" PROVE j.invoice \in DOMAIN invoices'
  BY <1>5 DEF JobHolds, Grows
<1>6. ASSUME j.at = "settling" PROVE SettlesOnEvidence(j)'
  <2>1. SettlesOnEvidence(j) /\ j.invoice \in DOMAIN invoices
    BY <1>6 DEF JobHolds, SettlesOnEvidence
  <2>2. /\ PaidBySession(j.invoice) => PaidBySession(j.invoice)'
        /\ PaidAtStripe(j.invoice) => PaidAtStripe(j.invoice)'
        /\ ModeOf(j.invoice)' = ModeOf(j.invoice)
    BY <2>1, EvidenceStays
  <2>3. IsApReference(j.invoice, j.reference) => IsApReference(j.invoice, j.reference)'
    BY <2>2 DEF IsApReference
  <2>4. (j.invoice \in DOMAIN invoices)'
    BY <2>1 DEF Grows
  <2> QED
    BY <2>1, <2>2, <2>3, <2>4 DEF SettlesOnEvidence
<1> QED
  BY <1>2, <1>3, <1>4, <1>5, <1>6 DEF JobHolds

(* An invoice that was settled on evidence stays so, while its reference is *)
(* left alone.                                                              *)
LEMMA SettledStays ==
    ASSUME TypeOK, StripeKnown, Grows, NEW i \in DOMAIN invoices,
           invoices'[i].reference = invoices[i].reference, Settled(i)
    PROVE  Settled(i)'
<1>1. /\ PaidBySession(i) => PaidBySession(i)'
      /\ PaidAtStripe(i) => PaidAtStripe(i)'
      /\ ModeOf(i)' = ModeOf(i)
  BY EvidenceStays
<1>2. CASE ModeOf(i) = "external" /\ invoices[i].reference = <<"ap">>
  BY <1>1, <1>2 DEF Settled
<1>3. CASE PaidBySession(i)
  BY <1>1, <1>3 DEF Settled, PaidBySession
<1>4. CASE PaidAtStripe(i)
  BY <1>1, <1>4 DEF Settled, PaidAtStripe
<1> QED
  BY <1>2, <1>3, <1>4 DEF Settled, PaidBySession, PaidAtStripe

-----------------------------------------------------------------------------
(* What each step does to the transactions. *)

(* One transaction moves on to j, and the tables only grow.  An invoice is  *)
(* added only by the one that holds the number.                             *)
LEMMA OneMoves ==
    ASSUME IInv, Grows, NEW h \in Handlers, NEW j \in Jobs,
           job' = [job EXCEPT ![h] = j], JobHolds(j)',
           j.at \in {"inserted", "pushed"} => \A g \in Handlers : HasInserted(g) => g = h,
           Len(invoices') # Len(invoices) => HasInserted(h)
    PROVE  (job \in [Handlers -> Jobs])' /\ JobsHold' /\ OneInserts'
<1>1. job \in [Handlers -> Jobs] /\ DOMAIN job = Handlers
  BY DEF IInv, TypeOK, Jobs
<1>2. job'[h] = j /\ \A g \in Handlers \ {h} : job'[g] = job[g]
  BY <1>1
<1>3. job' \in [Handlers -> Jobs]
  BY <1>1
<1>4. JobsHold'
  <2> SUFFICES ASSUME NEW g \in Handlers PROVE JobHolds(job[g])'
    BY DEF JobsHold
  <2>1. CASE g = h
    BY <2>1, <1>2 DEF JobHolds, SettlesOnEvidence, PaidBySession, PaidAtStripe, IsApReference, ModeOf
  <2>2. CASE g # h
    <3>1. PICK k \in Jobs : k = job[g]
      BY <1>1
    <3>2. JobHolds(k)
      BY <3>1 DEF IInv, JobsHold
    <3>3. k.at \in {"inserted", "pushed"} => Len(invoices') = Len(invoices)
      BY <3>1, <2>2 DEF IInv, OneInserts, HasInserted
    <3>4. JobHolds(k)'
      BY <3>2, <3>3, JobHoldsStays DEF IInv
    <3>5. job'[g] = k
      BY <3>1, <1>2, <2>2
    <3> QED
      BY <3>4, <3>5 DEF JobHolds, SettlesOnEvidence, PaidBySession, PaidAtStripe, IsApReference, ModeOf
  <2> QED
    BY <2>1, <2>2
<1>5. OneInserts'
  BY <1>2 DEF IInv, OneInserts, HasInserted
<1> QED
  BY <1>3, <1>4, <1>5

(* No transaction moves, and no invoice is added. *)
LEMMA NoneMoves ==
    ASSUME IInv, Grows, UNCHANGED job, Len(invoices') = Len(invoices)
    PROVE  (job \in [Handlers -> Jobs])' /\ JobsHold' /\ OneInserts'
<1>1. job \in [Handlers -> Jobs]
  BY DEF IInv, TypeOK, Jobs
<1>2. JobsHold'
  <2> SUFFICES ASSUME NEW g \in Handlers PROVE JobHolds(job[g])'
    BY DEF JobsHold
  <2>1. PICK k \in Jobs : k = job[g]
    BY <1>1
  <2>2. JobHolds(k)'
    BY <2>1, JobHoldsStays DEF IInv, JobsHold
  <2>3. job'[g] = k
    BY <2>1
  <2> QED
    BY <2>2, <2>3 DEF JobHolds, SettlesOnEvidence, PaidBySession, PaidAtStripe, IsApReference, ModeOf
<1> QED
  BY <1>1, <1>2 DEF IInv, OneInserts, HasInserted

(* The tables stay as they are: all that is left to show is the             *)
(* transaction.                                                             *)
LEMMA OnlyOneMoves ==
    ASSUME IInv, NEW h \in Handlers, NEW j \in Jobs,
           job' = [job EXCEPT ![h] = j], JobHolds(j),
           j.at \in {"inserted", "pushed"} => \A g \in Handlers : HasInserted(g) => g = h,
           UNCHANGED <<usage, invoices, stripeInvoices, sessions>>
    PROVE  IInv'
<1>1. Grows
  BY DEF Grows, SessionStays, IInv, TypeOK
<1>2. JobHolds(j)'
  BY <1>1, JobHoldsStays DEF IInv
<1>3. (job \in [Handlers -> Jobs])' /\ JobsHold' /\ OneInserts'
  BY <1>1, <1>2, OneMoves
<1>4. TypeOK'
  BY <1>3 DEF IInv, TypeOK, Jobs
<1>5. StripeKnown' /\ PaidOnEvidence'
  BY DEF IInv, StripeKnown, PaidOnEvidence, Settled, ModeOf
<1> QED
  BY <1>3, <1>4, <1>5 DEF IInv

-----------------------------------------------------------------------------
(* The generation of an invoice. *)

LEMMA TypeStart == Init => IInv
BY BillingAssumption DEF Init, IInv, TypeOK, JobsHold, JobHolds, OneInserts, HasInserted,
   StripeKnown, PaidOnEvidence, Idle, MaxUsage

LEMMA MeterStep == ASSUME IInv, Meter PROVE IInv'
<1>1. Len(usage) \in Nat /\ MaxUsage \in Nat
  BY BillingAssumption DEF IInv, TypeOK, MaxUsage
<1>2. Grows
  BY DEF Meter, Grows, SessionStays, IInv, TypeOK
<1>3. (job \in [Handlers -> Jobs])' /\ JobsHold' /\ OneInserts'
  BY <1>2, NoneMoves DEF Meter
<1>4. usage' \in Seq(0 .. MaxUsage) /\ Len(usage') <= MaxUsage
  BY <1>1 DEF Meter, IInv, TypeOK
<1>5. (\A e \in DOMAIN usage : usage[e] \in {0} \cup DOMAIN invoices)'
  BY <1>1 DEF Meter, IInv, TypeOK
<1>6. TypeOK'
  BY <1>3, <1>4, <1>5 DEF Meter, IInv, TypeOK, Jobs
<1>7. StripeKnown' /\ PaidOnEvidence'
  BY DEF Meter, IInv, StripeKnown, PaidOnEvidence, Settled, ModeOf
<1> QED
  BY <1>3, <1>6, <1>7 DEF IInv

LEMMA SweepStep ==
    ASSUME IInv, NEW h \in Handlers, NEW f \in Firms, NEW from, NEW to, Sweep(h, f, from, to)
    PROVE  IInv'
<1> DEFINE events == Uninvoiced(f, from .. to)
           j == [at |-> "swept", firm |-> f, events |-> events, number |-> 0, stripe |-> 0]
<1>1. MaxUsage \in Nat /\ MaxPushes \in Nat /\ Len(stripeInvoices) \in Nat
  BY BillingAssumption DEF IInv, TypeOK, MaxUsage
<1>2. events \in SUBSET (1 .. MaxUsage)
  BY <1>1 DEF Uninvoiced, IInv, TypeOK
<1>3. job' = [job EXCEPT ![h] = j]
  BY DEF Sweep
<1> HIDE DEF events
<1>4. j \in Jobs
  BY <1>1, <1>2 DEF Jobs, Generating
<1>5. JobHolds(j)
  BY <1>1 DEF JobHolds
<1>6. j.at = "swept"
  OBVIOUS
<1> HIDE DEF j
<1> QED
  BY <1>3, <1>4, <1>5, <1>6, OnlyOneMoves DEF Sweep

(* An element of a sequence over a set is in the set. *)
LEMMA SeqElement ==
    ASSUME NEW S, NEW q \in Seq(S), NEW k \in DOMAIN q
    PROVE  q[k] \in S
OBVIOUS

(* A sequence over a set is one over a larger set. *)
LEMMA SeqSubset ==
    ASSUME NEW S, NEW T, S \subseteq T, NEW q \in Seq(S)
    PROVE  q \in Seq(T)
<1>1. Len(q) \in Nat /\ \A k \in 1 .. Len(q) : q[k] \in T
  OBVIOUS
<1>2. q = [k \in 1 .. Len(q) |-> q[k]]
  OBVIOUS
<1> QED
  BY <1>1, <1>2

(* A transaction in the generation of an invoice has all the fields of one. *)
LEMMA GeneratingJob ==
    ASSUME IInv, NEW h \in Handlers, job[h].at \in {"swept", "numbered", "inserted", "pushed"}
    PROVE  job[h] \in Generating /\ JobHolds(job[h]) /\ job[h] \in Jobs
<1>1. job[h] \in Jobs
  BY DEF IInv, TypeOK, Jobs
<1> QED
  BY <1>1, JobKinds DEF IInv, JobsHold

LEMMA NumberStep ==
    ASSUME IInv, NEW h \in Handlers, NextInvoiceNumber(h) PROVE IInv'
<1> DEFINE j == [job[h] EXCEPT !.at = "numbered", !.number = Len(invoices) + 1]
<1>1. MaxUsage \in Nat /\ Len(invoices) \in Nat /\ Len(invoices) < MaxUsage
  BY BillingAssumption DEF IInv, TypeOK, MaxUsage, NextInvoiceNumber
<1>2. job[h] \in Generating /\ JobHolds(job[h])
  BY GeneratingJob DEF NextInvoiceNumber
<1>3. job' = [job EXCEPT ![h] = j]
  BY DEF NextInvoiceNumber
<1>4. j \in Jobs /\ j.at = "numbered"
  <2>1. Len(invoices) + 1 \in 0 .. MaxUsage
    BY <1>1
  <2>2. j \in Generating
    BY <1>2, <2>1 DEF Generating
  <2> QED
    BY <1>2, <2>2 DEF Jobs, Generating
<1>5. j.stripe = job[h].stripe /\ j.number = Len(invoices) + 1
  BY <1>2 DEF Generating
<1>6. job[h].stripe \in 0 .. Len(stripeInvoices)
  BY <1>2 DEF JobHolds, NextInvoiceNumber
<1> HIDE DEF j
<1>7. JobHolds(j)
  BY <1>1, <1>4, <1>5, <1>6 DEF JobHolds
<1> QED
  BY <1>3, <1>4, <1>7, OnlyOneMoves DEF NextInvoiceNumber

LEMMA InsertStep ==
    ASSUME IInv, NEW h \in Handlers, InsertInvoice(h) PROVE IInv'
<1> DEFINE j == [job[h] EXCEPT !.at = "inserted"]
<1>1. Len(invoices) \in Nat /\ DOMAIN invoices = 1 .. Len(invoices)
  BY DEF IInv, TypeOK
<1>2. job[h] \in Generating /\ JobHolds(job[h])
  BY GeneratingJob DEF InsertInvoice
<1>3. job' = [job EXCEPT ![h] = j]
  BY DEF InsertInvoice
<1>4. j \in Jobs /\ j.at = "inserted"
  BY <1>2 DEF Jobs, Generating
<1>5. j.stripe = job[h].stripe /\ j.number = job[h].number
  BY <1>2 DEF Generating
<1>6. job[h].stripe \in 0 .. Len(stripeInvoices) /\ job[h].number = Len(invoices) + 1
  BY <1>1, <1>2 DEF JobHolds, InsertInvoice
<1>7. \A g \in Handlers : HasInserted(g) => job[g].number = Len(invoices) + 1
  BY GeneratingJob DEF HasInserted, JobHolds
<1> HIDE DEF j
<1>8. JobHolds(j)
  BY <1>1, <1>4, <1>5, <1>6 DEF JobHolds
<1>9. \A g \in Handlers : ~HasInserted(g)
  BY <1>6, <1>7 DEF InsertInvoice
<1> QED
  BY <1>3, <1>4, <1>8, <1>9, OnlyOneMoves DEF InsertInvoice

LEMMA PushStep ==
    ASSUME IInv, NEW h \in Handlers, PushInvoice(h) PROVE IInv'
<1>0. PICK j : j = [job[h] EXCEPT !.at = "pushed", !.stripe = Len(stripeInvoices) + 1]
  OBVIOUS
<1>1. /\ Len(stripeInvoices) \in Nat /\ MaxPushes \in Nat /\ Len(stripeInvoices) < MaxPushes
      /\ Len(stripeInvoices') = Len(stripeInvoices) + 1
      /\ stripeInvoices' \in Seq({"open", "paid", "void"})
      /\ \A k \in DOMAIN stripeInvoices : stripeInvoices'[k] = stripeInvoices[k]
  BY BillingAssumption DEF IInv, TypeOK, PushInvoice
<1>2. job[h] \in Generating /\ JobHolds(job[h])
  BY GeneratingJob DEF PushInvoice
<1>3. job' = [job EXCEPT ![h] = j]
  BY <1>0 DEF PushInvoice
<1>4. j \in Jobs /\ j.at = "pushed"
  <2>1. Len(stripeInvoices) + 1 \in 0 .. MaxPushes
    BY <1>1
  <2>2. j \in Generating
    BY <1>0, <1>2, <2>1 DEF Generating
  <2> QED
    BY <1>0, <1>2, <2>2 DEF Jobs, Generating
<1>5. j.stripe = Len(stripeInvoices) + 1 /\ j.number = job[h].number
  BY <1>0, <1>2 DEF Generating
<1>6. job[h].number = Len(invoices) + 1
  BY <1>2 DEF JobHolds, PushInvoice
<1>7. Grows
  BY <1>1 DEF Grows, SessionStays, PushInvoice, IInv, TypeOK
<1>8. JobHolds(j)'
  BY <1>1, <1>4, <1>5, <1>6 DEF JobHolds, PushInvoice
<1>9. \A g \in Handlers : HasInserted(g) => g = h
  BY DEF IInv, OneInserts, HasInserted, PushInvoice
<1>10. (job \in [Handlers -> Jobs])' /\ JobsHold' /\ OneInserts'
  BY <1>3, <1>4, <1>7, <1>8, <1>9, OneMoves DEF PushInvoice
<1>11. TypeOK'
  <2>1. UNCHANGED <<usage, invoices, sessions>>
    BY DEF PushInvoice
  <2>2. Len(stripeInvoices') <= MaxPushes
    BY <1>1
  <2> QED
    BY <1>1, <1>10, <2>1, <2>2 DEF IInv, TypeOK, Jobs
<1>12. StripeKnown'
  BY <1>1 DEF IInv, StripeKnown, PushInvoice
<1>13. PaidOnEvidence'
  BY <1>7, SettledStays DEF PushInvoice, IInv, PaidOnEvidence
<1> QED
  BY <1>10, <1>11, <1>12, <1>13 DEF IInv

LEMMA CommitInvoiceStep ==
    ASSUME IInv, NEW h \in Handlers, CommitInvoice(h) PROVE IInv'
<1> DEFINE j == job[h]
           row == [firm |-> j.firm, lines |-> j.events,
                   status |-> IF Mode[j.firm] = "stripe" THEN "open" ELSE "issued_external",
                   stripe |-> j.stripe, session |-> 0, reference |-> NoReference]
<1>1. j \in Generating /\ JobHolds(j) /\ j.at \in {"inserted", "pushed"}
  BY GeneratingJob DEF CommitInvoice, HasInserted
<1>2. /\ MaxUsage \in Nat /\ MaxPushes \in Nat /\ MaxSessions \in Nat
      /\ invoices \in Seq(InvoiceRows) /\ Len(invoices) \in Nat
  BY BillingAssumption DEF IInv, TypeOK, MaxUsage
<1>3. j.number = Len(invoices) + 1 /\ j.number <= MaxUsage /\ j.stripe \in 0 .. Len(stripeInvoices)
  BY <1>1, <1>2 DEF JobHolds, Generating
<1>4. row \in InvoiceRows
  BY <1>1, <1>2 DEF InvoiceRows, Generating, References, InvoiceStatuses
<1>5. row.stripe = j.stripe /\ row.status # "paid"
  OBVIOUS
<1>6. invoices' = Append(invoices, row)
  BY DEF CommitInvoice
<1> HIDE DEF row
<1>7. /\ invoices' \in Seq(InvoiceRows) /\ Len(invoices') = Len(invoices) + 1
      /\ DOMAIN invoices' = DOMAIN invoices \cup {Len(invoices) + 1}
      /\ \A i \in DOMAIN invoices : i # Len(invoices) + 1 /\ invoices'[i] = invoices[i]
      /\ invoices'[Len(invoices) + 1] = row
  BY <1>2, <1>4, <1>6
<1>8. Grows
  BY <1>2, <1>7 DEF Grows, SessionStays, CommitInvoice, IInv, TypeOK
<1>9. Idle \in Jobs /\ JobHolds(Idle)' /\ Idle.at = "idle"
  BY DEF Jobs, JobHolds, Idle
<1>10. (job \in [Handlers -> Jobs])' /\ JobsHold' /\ OneInserts'
  BY <1>8, <1>9, OneMoves DEF CommitInvoice
<1>11. /\ usage' \in Seq(0 .. MaxUsage) /\ Len(usage') = Len(usage)
       /\ \A e \in DOMAIN usage' : usage'[e] \in {0} \cup DOMAIN invoices'
  <2>1. usage \in Seq(0 .. MaxUsage) /\ DOMAIN usage = 1 .. Len(usage) /\ Len(usage) \in Nat
    BY DEF IInv, TypeOK
  <2>2. usage' = [e \in 1 .. Len(usage) |-> IF e \in j.events THEN j.number ELSE usage[e]]
    BY <2>1 DEF CommitInvoice, Attached
  <2>3. \A e \in 1 .. Len(usage) : usage'[e] \in 0 .. MaxUsage /\ usage'[e] \in {0} \cup DOMAIN invoices'
    <3> SUFFICES ASSUME NEW e \in 1 .. Len(usage)
                 PROVE  usage'[e] \in 0 .. MaxUsage /\ usage'[e] \in {0} \cup DOMAIN invoices'
      OBVIOUS
    <3>1. usage'[e] = j.number \/ usage'[e] = usage[e]
      BY <2>2
    <3>2. usage[e] \in 0 .. MaxUsage /\ usage[e] \in {0} \cup DOMAIN invoices
      BY <2>1, SeqElement DEF IInv, TypeOK
    <3> QED
      BY <1>2, <1>3, <1>7, <3>1, <3>2
  <2> QED
    BY <2>1, <2>2, <2>3
<1>12. sessions \in Seq([invoice : DOMAIN invoices', done : BOOLEAN])
  <2>1. [invoice : DOMAIN invoices, done : BOOLEAN] \subseteq [invoice : DOMAIN invoices', done : BOOLEAN]
    BY <1>7
  <2>2. sessions \in Seq([invoice : DOMAIN invoices, done : BOOLEAN])
    BY DEF IInv, TypeOK
  <2> QED
    BY <2>1, <2>2, SeqSubset
<1>13. TypeOK'
  BY <1>2, <1>3, <1>7, <1>10, <1>11, <1>12 DEF IInv, TypeOK, Jobs, CommitInvoice
<1>14. StripeKnown'
  BY <1>3, <1>5, <1>7 DEF IInv, StripeKnown, CommitInvoice
<1>15. PaidOnEvidence'
  BY <1>5, <1>7, <1>8, SettledStays DEF IInv, PaidOnEvidence
<1> QED
  BY <1>10, <1>13, <1>14, <1>15 DEF IInv

LEMMA FailStep ==
    ASSUME IInv, NEW h \in Handlers, Fail(h) PROVE IInv'
<1>1. Idle \in Jobs /\ JobHolds(Idle) /\ Idle.at = "idle"
  BY DEF Jobs, JobHolds, Idle
<1> QED
  BY <1>1, OnlyOneMoves DEF Fail

-----------------------------------------------------------------------------
(* Payment. *)

(* A request that read an invoice, and the evidence for what it will write. *)
LEMMA SettleStep ==
    ASSUME IInv, NEW h \in Handlers, NEW i \in DOMAIN invoices,
           NEW status \in {"paid", "void"}, NEW reference \in References,
           Settle(h, i, status, reference),
           reference # NoReference => PaidBySession(i) \/ IsApReference(i, reference),
           status = "paid" => PaidBySession(i) \/ PaidAtStripe(i) \/ IsApReference(i, reference)
    PROVE  IInv'
<1> DEFINE j == [at |-> "settling", invoice |-> i, reference |-> reference,
                 status |-> IF status = invoices[i].status THEN "unchanged" ELSE status]
<1>1. i \in 1 .. MaxUsage
  BY BillingAssumption DEF IInv, TypeOK, MaxUsage
<1>2. job' = [job EXCEPT ![h] = j]
  BY DEF Settle
<1>3. j \in Jobs /\ j.at = "settling"
  BY <1>1 DEF Jobs, Settling
<1>4. j.invoice = i /\ j.reference = reference /\ j.status \in {"unchanged", status}
  OBVIOUS
<1> HIDE DEF j
<1>5. JobHolds(j)
  BY <1>3, <1>4 DEF JobHolds, SettlesOnEvidence
<1> QED
  BY <1>2, <1>3, <1>5, OnlyOneMoves DEF Settle

LEMMA ExternalPaymentStep ==
    ASSUME IInv, NEW h \in Handlers, NEW i \in DOMAIN invoices, RecordExternalPayment(h, i)
    PROVE  IInv'
BY SettleStep DEF RecordExternalPayment, References, IsApReference

LEMMA CheckoutCompletedStep ==
    ASSUME IInv, NEW h \in Handlers, NEW s \in DOMAIN sessions, CheckoutCompleted(h, s)
    PROVE  IInv'
<1> DEFINE i == sessions[s].invoice
<1>1. sessions \in Seq([invoice : DOMAIN invoices, done : BOOLEAN]) /\ Len(sessions) <= MaxSessions
  BY DEF IInv, TypeOK
<1>2. i \in DOMAIN invoices /\ s \in 1 .. MaxSessions
  <2>1. Len(sessions) \in Nat /\ DOMAIN sessions = 1 .. Len(sessions) /\ MaxSessions \in Nat
    BY <1>1, BillingAssumption
  <2>2. sessions[s] \in [invoice : DOMAIN invoices, done : BOOLEAN]
    BY <1>1, SeqElement
  <2> QED
    BY <1>1, <2>1, <2>2
<1>3. CheckoutReference(i, s) \in References
  BY <1>2 DEF CheckoutReference, References
<1>4. PaidBySession(i)
  BY DEF CheckoutCompleted, PaidBySession
<1>5. Settle(h, i, "paid", CheckoutReference(i, s))
  BY DEF CheckoutCompleted, SessionInvoice
<1> HIDE DEF i
<1> QED
  BY <1>2, <1>3, <1>4, <1>5, SettleStep

LEMMA InvoicePaidStep ==
    ASSUME IInv, NEW h \in Handlers, NEW i \in DOMAIN invoices, InvoicePaid(h, i)
    PROVE  IInv'
BY SettleStep DEF InvoicePaid, References, PaidAtStripe

LEMMA InvoiceVoidedStep ==
    ASSUME IInv, NEW h \in Handlers, NEW i \in DOMAIN invoices, InvoiceVoided(h, i)
    PROVE  IInv'
BY SettleStep DEF InvoiceVoided, References

(* What the steps that change rows of invoices leave alone. *)
LEMMA RowsStay ==
    ASSUME IInv, NEW i \in DOMAIN invoices, NEW row \in InvoiceRows,
           row.firm = invoices[i].firm, row.stripe = invoices[i].stripe,
           invoices' = [invoices EXCEPT ![i] = row],
           UNCHANGED <<stripeInvoices, sessions, usage>>
    PROVE  /\ invoices' \in Seq(InvoiceRows) /\ Len(invoices') = Len(invoices)
           /\ DOMAIN invoices' = DOMAIN invoices
           /\ invoices'[i] = row /\ \A k \in DOMAIN invoices \ {i} : invoices'[k] = invoices[k]
           /\ Grows /\ StripeKnown'
           /\ (job \in [Handlers -> Jobs])' => TypeOK'
<1>1. invoices \in Seq(InvoiceRows)
  BY DEF IInv, TypeOK
<1>2. /\ invoices' \in Seq(InvoiceRows) /\ Len(invoices') = Len(invoices)
      /\ DOMAIN invoices' = DOMAIN invoices
      /\ invoices'[i] = row /\ \A k \in DOMAIN invoices \ {i} : invoices'[k] = invoices[k]
  BY <1>1
<1>3. Grows
  BY <1>2 DEF Grows, SessionStays, IInv, TypeOK
<1>4. StripeKnown'
  BY <1>2 DEF IInv, StripeKnown
<1>5. (job \in [Handlers -> Jobs])' => TypeOK'
  BY <1>2 DEF IInv, TypeOK, Jobs
<1> QED
  BY <1>2, <1>3, <1>4, <1>5

(* The transaction of a handler ends. *)
LEMMA IdleMoves ==
    ASSUME IInv, Grows, NEW h \in Handlers, job' = [job EXCEPT ![h] = Idle],
           Len(invoices') = Len(invoices)
    PROVE  (job \in [Handlers -> Jobs])' /\ JobsHold' /\ OneInserts'
<1>1. Idle \in Jobs /\ JobHolds(Idle)' /\ Idle.at = "idle"
  BY DEF Jobs, JobHolds, Idle
<1> QED
  BY <1>1, OneMoves

LEMMA CommitStatusStep ==
    ASSUME IInv, NEW h \in Handlers, CommitStatus(h) PROVE IInv'
<1>0. PICK j : j = job[h]
  OBVIOUS
<1>1. j \in Settling /\ SettlesOnEvidence(j) /\ j.invoice \in DOMAIN invoices
  <2>1. j \in Jobs /\ j.at = "settling"
    BY <1>0 DEF IInv, TypeOK, Jobs, CommitStatus
  <2> QED
    BY <1>0, <2>1, JobKinds DEF IInv, JobsHold, JobHolds, SettlesOnEvidence
<1>2. PICK i \in DOMAIN invoices : i = j.invoice
  BY <1>1
<1>3. invoices \in Seq(InvoiceRows) /\ invoices[i] \in InvoiceRows
  BY SeqElement DEF IInv, TypeOK
<1>4. PICK row :
        row = [invoices[i] EXCEPT
                  !.status = IF j.status = "unchanged" THEN @ ELSE j.status,
                  !.reference = IF j.reference = NoReference THEN @ ELSE j.reference]
  OBVIOUS
<1>5. /\ row \in InvoiceRows
      /\ row.firm = invoices[i].firm /\ row.stripe = invoices[i].stripe
      /\ row.status = IF j.status = "unchanged" THEN invoices[i].status ELSE j.status
      /\ row.reference = IF j.reference = NoReference THEN invoices[i].reference ELSE j.reference
  BY <1>1, <1>3, <1>4 DEF InvoiceRows, Settling, InvoiceStatuses
<1>6. invoices' = [invoices EXCEPT ![i] = row]
  BY <1>0, <1>2, <1>3, <1>4 DEF CommitStatus, InvoiceRows
<1>7. UNCHANGED <<usage, stripeInvoices, sessions>> /\ job' = [job EXCEPT ![h] = Idle]
  BY DEF CommitStatus
<1>8. /\ Len(invoices') = Len(invoices) /\ DOMAIN invoices' = DOMAIN invoices
      /\ invoices'[i] = row /\ \A k \in DOMAIN invoices \ {i} : invoices'[k] = invoices[k]
      /\ Grows /\ StripeKnown' /\ ((job \in [Handlers -> Jobs])' => TypeOK')
  BY <1>5, <1>6, <1>7, RowsStay
<1>9. (job \in [Handlers -> Jobs])' /\ JobsHold' /\ OneInserts'
  BY <1>7, <1>8, IdleMoves
<1>10. PaidOnEvidence'
  <2> SUFFICES ASSUME NEW k \in DOMAIN invoices, invoices'[k].status = "paid"
               PROVE  Settled(k)'
    BY <1>8 DEF PaidOnEvidence
  <2>1. CASE k # i
    BY <2>1, <1>8, SettledStays DEF IInv, PaidOnEvidence
  <2>2. CASE k = i
    <3>1. /\ PaidBySession(i) => PaidBySession(i)'
          /\ PaidAtStripe(i) => PaidAtStripe(i)'
          /\ ModeOf(i)' = ModeOf(i)
      BY <1>8, EvidenceStays DEF IInv
    <3>2. PaidBySession(i) \/ PaidAtStripe(i) => Settled(i)'
      BY <3>1 DEF Settled, PaidBySession, PaidAtStripe
    <3>3. IsApReference(i, j.reference) => Settled(i)'
      BY <3>1, <1>5, <1>8 DEF Settled, IsApReference, NoReference
    <3>4. CASE j.reference # NoReference
      BY <1>1, <1>2, <2>2, <3>2, <3>3, <3>4 DEF SettlesOnEvidence
    <3>5. CASE j.status = "paid"
      BY <1>1, <1>2, <2>2, <3>2, <3>3, <3>5 DEF SettlesOnEvidence
    <3>6. CASE j.reference = NoReference /\ j.status # "paid"
      <4>1. invoices[i].status = "paid" /\ invoices'[i].reference = invoices[i].reference
        BY <1>1, <1>5, <1>8, <2>2, <3>6
      <4> QED
        BY <4>1, <1>8, <2>2, SettledStays DEF IInv, PaidOnEvidence
    <3> QED
      BY <3>4, <3>5, <3>6
  <2> QED
    BY <2>1, <2>2
<1> QED
  BY <1>8, <1>9, <1>10 DEF IInv

LEMMA CommitCheckoutStep ==
    ASSUME IInv, NEW h \in Handlers, CommitCheckout(h) PROVE IInv'
<1>0. PICK j : j = job[h]
  OBVIOUS
<1>1. j \in Linking /\ j.invoice \in DOMAIN invoices
  <2>1. j \in Jobs /\ j.at = "linking"
    BY <1>0 DEF IInv, TypeOK, Jobs, CommitCheckout
  <2> QED
    BY <1>0, <2>1, JobKinds DEF IInv, JobsHold, JobHolds
<1>2. PICK i \in DOMAIN invoices : i = j.invoice
  BY <1>1
<1>3. invoices \in Seq(InvoiceRows) /\ invoices[i] \in InvoiceRows
  BY SeqElement DEF IInv, TypeOK
<1>4. PICK row : row = [invoices[i] EXCEPT !.session = j.session]
  OBVIOUS
<1>5. /\ row \in InvoiceRows
      /\ row.firm = invoices[i].firm /\ row.stripe = invoices[i].stripe
      /\ row.status = invoices[i].status /\ row.reference = invoices[i].reference
  <2>1. j.session \in 0 .. MaxSessions
    BY <1>1, BillingAssumption DEF Linking
  <2> QED
    BY <2>1, <1>3, <1>4 DEF InvoiceRows
<1>6. invoices' = [invoices EXCEPT ![i] = row]
  BY <1>0, <1>2, <1>4 DEF CommitCheckout
<1>7. UNCHANGED <<usage, stripeInvoices, sessions>> /\ job' = [job EXCEPT ![h] = Idle]
  BY DEF CommitCheckout
<1>8. /\ Len(invoices') = Len(invoices) /\ DOMAIN invoices' = DOMAIN invoices
      /\ invoices'[i] = row /\ \A k \in DOMAIN invoices \ {i} : invoices'[k] = invoices[k]
      /\ Grows /\ StripeKnown' /\ ((job \in [Handlers -> Jobs])' => TypeOK')
  BY <1>5, <1>6, <1>7, RowsStay
<1>9. (job \in [Handlers -> Jobs])' /\ JobsHold' /\ OneInserts'
  BY <1>7, <1>8, IdleMoves
<1>10. PaidOnEvidence'
  <2> SUFFICES ASSUME NEW k \in DOMAIN invoices, invoices'[k].status = "paid"
               PROVE  Settled(k)'
    BY <1>8 DEF PaidOnEvidence
  <2>1. invoices'[k].status = invoices[k].status /\ invoices'[k].reference = invoices[k].reference
    BY <1>5, <1>8
  <2> QED
    BY <2>1, <1>8, SettledStays DEF IInv, PaidOnEvidence
<1> QED
  BY <1>8, <1>9, <1>10 DEF IInv

(* Rows of invoices are left alone, what is at Stripe grows. *)
LEMMA PaidStays ==
    ASSUME IInv, Grows, UNCHANGED invoices
    PROVE  StripeKnown' /\ PaidOnEvidence'
<1>1. StripeKnown'
  <2>1. /\ Len(stripeInvoices) \in Nat /\ Len(stripeInvoices) <= Len(stripeInvoices')
    BY DEF Grows, SessionStays, IInv, TypeOK
  <2> QED
    BY <2>1 DEF IInv, StripeKnown
<1>2. PaidOnEvidence'
  BY SettledStays DEF IInv, PaidOnEvidence
<1> QED
  BY <1>1, <1>2

LEMMA CreateCheckoutStep ==
    ASSUME IInv, NEW h \in Handlers, NEW i \in DOMAIN invoices, CreateCheckout(h, i)
    PROVE  IInv'
<1>1. PICK j : j = [at |-> "linking", invoice |-> i, session |-> Len(sessions) + 1]
  OBVIOUS
<1>2. /\ invoices \in Seq(InvoiceRows) /\ Len(invoices) <= MaxUsage
      /\ sessions \in Seq([invoice : DOMAIN invoices, done : BOOLEAN])
      /\ Len(sessions) < MaxSessions /\ MaxUsage \in Nat /\ MaxSessions \in Nat
  BY BillingAssumption DEF IInv, TypeOK, MaxUsage, CreateCheckout
<1>3. i \in 1 .. MaxUsage /\ Len(sessions) + 1 \in 1 .. MaxSessions
  BY <1>2
<1>4. j \in Jobs /\ j.at = "linking" /\ j.invoice = i
  BY <1>1, <1>3 DEF Jobs, Linking
<1>5. /\ sessions' = Append(sessions, [invoice |-> i, done |-> FALSE])
      /\ UNCHANGED <<usage, invoices, stripeInvoices>> /\ job' = [job EXCEPT ![h] = j]
  BY <1>1 DEF CreateCheckout
<1>6. /\ sessions' \in Seq([invoice : DOMAIN invoices, done : BOOLEAN])
      /\ Len(sessions') <= MaxSessions
      /\ \A s \in DOMAIN sessions : s \in DOMAIN sessions' /\ sessions'[s] = sessions[s]
  BY <1>2, <1>5
<1>7. Grows
  BY <1>5, <1>6 DEF Grows, SessionStays, IInv, TypeOK
<1>8. JobHolds(j)'
  BY <1>4, <1>5 DEF JobHolds
<1>9. (job \in [Handlers -> Jobs])' /\ JobsHold' /\ OneInserts'
  BY <1>4, <1>5, <1>7, <1>8, OneMoves
<1>10. TypeOK'
  BY <1>5, <1>6, <1>9 DEF IInv, TypeOK, Jobs
<1>11. StripeKnown' /\ PaidOnEvidence'
  BY <1>5, <1>7, PaidStays
<1> QED
  BY <1>9, <1>10, <1>11 DEF IInv

LEMMA CompleteSessionStep ==
    ASSUME IInv, NEW s \in DOMAIN sessions, CompleteSession(s) PROVE IInv'
<1>1. sessions \in Seq([invoice : DOMAIN invoices, done : BOOLEAN])
  BY DEF IInv, TypeOK
<1>2. sessions[s] \in [invoice : DOMAIN invoices, done : BOOLEAN]
  BY <1>1, SeqElement
<1>3. UNCHANGED <<usage, invoices, stripeInvoices, job>>
  BY DEF CompleteSession
<1>4. PICK row : row = [sessions[s] EXCEPT !.done = TRUE]
  OBVIOUS
<1>5. /\ row \in [invoice : DOMAIN invoices, done : BOOLEAN]
      /\ row.invoice = sessions[s].invoice /\ row.done
  BY <1>2, <1>4
<1>6. sessions' = [sessions EXCEPT ![s] = row]
  BY <1>4 DEF CompleteSession
<1>7. /\ sessions' \in Seq([invoice : DOMAIN invoices, done : BOOLEAN])
      /\ Len(sessions') = Len(sessions) /\ DOMAIN sessions' = DOMAIN sessions
      /\ sessions'[s] = row /\ \A k \in DOMAIN sessions \ {s} : sessions'[k] = sessions[k]
  BY <1>1, <1>5, <1>6
<1>8. Grows
  <2>1. ASSUME NEW k \in DOMAIN sessions PROVE SessionStays(k)
    <3>1. CASE k = s
      BY <3>1, <1>5, <1>7 DEF SessionStays
    <3>2. CASE k # s
      BY <3>2, <1>7 DEF SessionStays
    <3> QED
      BY <3>1, <3>2
  <2>2. Len(invoices) <= Len(invoices') /\ Len(stripeInvoices) <= Len(stripeInvoices')
    BY <1>3 DEF IInv, TypeOK
  <2> QED
    BY <2>1, <2>2, <1>3 DEF Grows
<1>9. (job \in [Handlers -> Jobs])' /\ JobsHold' /\ OneInserts'
  BY <1>3, <1>8, NoneMoves
<1>10. TypeOK'
  BY <1>3, <1>7, <1>9 DEF IInv, TypeOK, Jobs
<1>11. StripeKnown' /\ PaidOnEvidence'
  BY <1>3, <1>8, PaidStays
<1> QED
  BY <1>9, <1>10, <1>11 DEF IInv

LEMMA CloseStripeStep ==
    ASSUME IInv, NEW k \in DOMAIN stripeInvoices, NEW status \in {"paid", "void"},
           CloseStripeInvoice(k, status)
    PROVE  IInv'
<1>1. stripeInvoices \in Seq({"open", "paid", "void"})
  BY DEF IInv, TypeOK
<1>2. stripeInvoices[k] = "open" /\ UNCHANGED <<usage, invoices, sessions, job>>
  BY DEF CloseStripeInvoice
<1>3. /\ stripeInvoices' \in Seq({"open", "paid", "void"})
      /\ Len(stripeInvoices') = Len(stripeInvoices)
      /\ \A m \in DOMAIN stripeInvoices \ {k} : stripeInvoices'[m] = stripeInvoices[m]
  BY <1>1 DEF CloseStripeInvoice
<1>4. Grows
  BY <1>1, <1>2, <1>3 DEF Grows, SessionStays, IInv, TypeOK
<1>5. (job \in [Handlers -> Jobs])' /\ JobsHold' /\ OneInserts'
  BY <1>2, <1>4, NoneMoves
<1>6. TypeOK'
  BY <1>2, <1>3, <1>5 DEF IInv, TypeOK, Jobs
<1>7. StripeKnown' /\ PaidOnEvidence'
  BY <1>2, <1>4, PaidStays
<1> QED
  BY <1>5, <1>6, <1>7 DEF IInv

LEMMA IdleStep == ASSUME IInv, UNCHANGED vars PROVE IInv'
BY DEF IInv, TypeOK, JobsHold, JobHolds, SettlesOnEvidence, PaidBySession, PaidAtStripe,
   IsApReference, ModeOf, OneInserts, HasInserted, StripeKnown, PaidOnEvidence, Settled, vars

(* Every step of the system keeps the invariant, however many requests      *)
(* overlap.                                                                 *)
LEMMA NextStep == ASSUME IInv, Next PROVE IInv'
<1>1. CASE Meter
  BY <1>1, MeterStep
<1>2. ASSUME NEW h \in Handlers, NEW f \in Firms, NEW from \in 1 .. MaxUsage,
             NEW to \in 1 .. MaxUsage, Sweep(h, f, from, to)
      PROVE  IInv'
  BY <1>2, SweepStep
<1>3. ASSUME NEW h \in Handlers, Proceed(h) PROVE IInv'
  BY <1>3, NumberStep, InsertStep, PushStep, CommitInvoiceStep, CommitStatusStep,
     CommitCheckoutStep, FailStep DEF Proceed
<1>4. ASSUME NEW h \in Handlers, NEW i \in DOMAIN invoices,
             \/ RecordExternalPayment(h, i) \/ CreateCheckout(h, i)
             \/ InvoicePaid(h, i) \/ InvoiceVoided(h, i)
      PROVE  IInv'
  BY <1>4, ExternalPaymentStep, CreateCheckoutStep, InvoicePaidStep, InvoiceVoidedStep
<1>5. ASSUME NEW h \in Handlers, NEW s \in DOMAIN sessions, CheckoutCompleted(h, s) PROVE IInv'
  BY <1>5, CheckoutCompletedStep
<1>6. ASSUME NEW s \in DOMAIN sessions, CompleteSession(s) PROVE IInv'
  BY <1>6, CompleteSessionStep
<1>7. ASSUME NEW k \in DOMAIN stripeInvoices, NEW status \in {"paid", "void"},
             CloseStripeInvoice(k, status)
      PROVE  IInv'
  BY <1>7, CloseStripeStep
<1> QED
  BY <1>1, <1>2, <1>3, <1>4, <1>5, <1>6, <1>7 DEF Next

THEOREM BillingInvariant == Spec => []IInv
<1>1. IInv /\ [Next]_vars => IInv'
  BY NextStep, IdleStep
<1> QED
  BY <1>1, TypeStart, PTL DEF Spec

(***************************************************************************)
(* Type correctness, whatever fails between Stripe and the commit: an      *)
(* invoice_id names a committed invoice, and no invoice is numbered above  *)
(* the usage there is.                                                     *)
(***************************************************************************)
THEOREM BillingTypes == Spec => []TypeOK
<1>1. IInv => TypeOK
  BY DEF IInv
<1> QED
  BY <1>1, BillingInvariant, PTL

(***************************************************************************)
(* PaidOnEvidence, with any number of overlapping requests, late and       *)
(* replayed events: an invoice is paid only when its own money has moved.  *)
(***************************************************************************)
THEOREM PaidOnItsOwnMoney == Spec => []PaidOnEvidence
<1>1. IInv => PaidOnEvidence
  BY DEF IInv
<1> QED
  BY <1>1, BillingInvariant, PTL

-----------------------------------------------------------------------------
(* What holds only of requests that do not overlap: one handler, or none.   *)
(* MCBillingOverlap shows that two sweeps bill the same usage twice.        *)

OneRequest == \A g, h \in Handlers : g = h

(* What a request has read is still so when it commits: the usage it swept  *)
(* is free and its firm's, and an external invoice it settles is not paid.  *)
StillSo(j) ==
    /\ j.at \in {"swept", "numbered", "inserted", "pushed"} =>
          \A e \in j.events : e \in DOMAIN usage /\ usage[e] = 0 /\ FirmOf[e] = j.firm
    /\ j.at \in {"swept", "numbered", "inserted"} => j.stripe = 0
    /\ j.at = "pushed" => Mode[j.firm] = "stripe"
    /\ j.at = "settling" /\ ModeOf(j.invoice) = "external" => invoices[j.invoice].status # "paid"

(* Stripe knows no invoice of a firm that is billed outside. *)
OutsideStripe == \A i \in DOMAIN invoices : ModeOf(i) = "external" => invoices[i].stripe = 0

SerialInv ==
    /\ \A h \in Handlers : StillSo(job[h])
    /\ InvoiceMatchesUsage
    /\ OutsideStripe

PaidReferenceStays ==
    \A i \in DOMAIN invoices :
        ModeOf(i) = "external" /\ invoices[i].status = "paid" =>
            invoices'[i].status = "paid" /\ invoices'[i].reference = invoices[i].reference

LEMMA SerialStart == Init => SerialInv
BY DEF Init, SerialInv, StillSo, InvoiceMatchesUsage, OutsideStripe, Idle

LEMMA RequestMoves ==
    ASSUME OneRequest, IInv, SerialInv, NEW h \in Handlers, NEW j,
           job' = [job EXCEPT ![h] = j], StillSo(j), UNCHANGED <<usage, invoices>>
    PROVE  SerialInv' /\ PaidReferenceStays
<1>1. \A g \in Handlers : job'[g] = j
  BY DEF OneRequest, IInv, TypeOK
<1>2. StillSo(j)'
  BY DEF StillSo, ModeOf
<1>3. (\A g \in Handlers : StillSo(job[g]))'
  BY <1>1, <1>2 DEF StillSo, ModeOf
<1>4. InvoiceMatchesUsage' /\ OutsideStripe'
  BY DEF SerialInv, InvoiceMatchesUsage, OutsideStripe, ModeOf
<1>5. PaidReferenceStays
  BY DEF PaidReferenceStays
<1> QED
  BY <1>3, <1>4, <1>5 DEF SerialInv

LEMMA SerialMeter ==
    ASSUME IInv, SerialInv, Meter PROVE SerialInv' /\ PaidReferenceStays
<1>1. /\ usage \in Seq(0 .. MaxUsage) /\ usage' = Append(usage, 0) /\ UNCHANGED <<invoices, job>>
  BY DEF IInv, TypeOK, Meter
<1>2. /\ Len(usage) \in Nat /\ DOMAIN usage' = DOMAIN usage \cup {Len(usage) + 1}
      /\ usage'[Len(usage) + 1] = 0
      /\ \A e \in DOMAIN usage : usage'[e] = usage[e]
  BY <1>1
<1>3. (\A h \in Handlers : StillSo(job[h]))'
  <2> SUFFICES ASSUME NEW h \in Handlers PROVE StillSo(job[h])'
    OBVIOUS
  <2>1. StillSo(job[h])
    BY DEF SerialInv
  <2> QED
    BY <1>1, <1>2, <2>1 DEF StillSo, ModeOf
<1>4. InvoiceMatchesUsage'
  <2> SUFFICES ASSUME NEW i \in DOMAIN invoices
               PROVE  /\ invoices[i].lines = {e \in DOMAIN usage' : usage'[e] = i}
                      /\ \A e \in invoices[i].lines : FirmOf[e] = invoices[i].firm
    BY <1>1 DEF InvoiceMatchesUsage
  <2>1. i # 0
    BY DEF IInv, TypeOK
  <2>2. {e \in DOMAIN usage' : usage'[e] = i} = {e \in DOMAIN usage : usage[e] = i}
    BY <1>2, <2>1
  <2> QED
    BY <2>2 DEF SerialInv, InvoiceMatchesUsage
<1>5. OutsideStripe' /\ PaidReferenceStays
  BY <1>1 DEF SerialInv, OutsideStripe, ModeOf, PaidReferenceStays
<1> QED
  BY <1>3, <1>4, <1>5 DEF SerialInv

LEMMA SerialSweep ==
    ASSUME OneRequest, IInv, SerialInv, NEW h \in Handlers, NEW f \in Firms, NEW from, NEW to,
           Sweep(h, f, from, to)
    PROVE  SerialInv' /\ PaidReferenceStays
<1>1. PICK j : j = [at |-> "swept", firm |-> f, events |-> Uninvoiced(f, from .. to),
                    number |-> 0, stripe |-> 0]
  OBVIOUS
<1>2. \A e \in Uninvoiced(f, from .. to) : e \in DOMAIN usage /\ usage[e] = 0 /\ FirmOf[e] = f
  BY DEF Uninvoiced
<1>3. StillSo(j)
  BY <1>1, <1>2 DEF StillSo
<1> QED
  BY <1>1, <1>3, RequestMoves DEF Sweep

LEMMA SerialNumber ==
    ASSUME OneRequest, IInv, SerialInv, NEW h \in Handlers, NextInvoiceNumber(h)
    PROVE  SerialInv' /\ PaidReferenceStays
<1>1. job[h] \in Generating /\ StillSo(job[h])
  BY GeneratingJob DEF SerialInv, NextInvoiceNumber
<1>2. PICK j : j = [job[h] EXCEPT !.at = "numbered", !.number = Len(invoices) + 1]
  OBVIOUS
<1>3. StillSo(j)
  BY <1>1, <1>2 DEF StillSo, Generating, NextInvoiceNumber
<1> QED
  BY <1>2, <1>3, RequestMoves DEF NextInvoiceNumber

LEMMA SerialInsert ==
    ASSUME OneRequest, IInv, SerialInv, NEW h \in Handlers, InsertInvoice(h)
    PROVE  SerialInv' /\ PaidReferenceStays
<1>1. job[h] \in Generating /\ StillSo(job[h])
  BY GeneratingJob DEF SerialInv, InsertInvoice
<1>2. PICK j : j = [job[h] EXCEPT !.at = "inserted"]
  OBVIOUS
<1>3. StillSo(j)
  BY <1>1, <1>2 DEF StillSo, Generating, InsertInvoice
<1> QED
  BY <1>2, <1>3, RequestMoves DEF InsertInvoice

LEMMA SerialPush ==
    ASSUME OneRequest, IInv, SerialInv, NEW h \in Handlers, PushInvoice(h)
    PROVE  SerialInv' /\ PaidReferenceStays
<1>1. job[h] \in Generating /\ StillSo(job[h])
  BY GeneratingJob DEF SerialInv, PushInvoice
<1>2. PICK j : j = [job[h] EXCEPT !.at = "pushed", !.stripe = Len(stripeInvoices) + 1]
  OBVIOUS
<1>3. StillSo(j)
  BY <1>1, <1>2 DEF StillSo, Generating, PushInvoice
<1> QED
  BY <1>2, <1>3, RequestMoves DEF PushInvoice

LEMMA SerialFail ==
    ASSUME OneRequest, IInv, SerialInv, NEW h \in Handlers, Fail(h)
    PROVE  SerialInv' /\ PaidReferenceStays
<1>1. StillSo(Idle)
  BY DEF StillSo, Idle
<1> QED
  BY <1>1, RequestMoves DEF Fail, Idle

LEMMA SerialCommit ==
    ASSUME OneRequest, IInv, SerialInv, NEW h \in Handlers, CommitInvoice(h)
    PROVE  SerialInv' /\ PaidReferenceStays
<1>0. PICK j : j = job[h]
  OBVIOUS
<1>1. PICK row :
        row = [firm |-> j.firm, lines |-> j.events,
               status |-> IF Mode[j.firm] = "stripe" THEN "open" ELSE "issued_external",
               stripe |-> j.stripe, session |-> 0, reference |-> NoReference]
  OBVIOUS
<1>2. PICK n : n = Len(invoices) + 1
  OBVIOUS
<1>3. j \in Generating /\ j.number = n /\ j.at \in {"inserted", "pushed"} /\ StillSo(j)
  BY <1>0, <1>2, GeneratingJob DEF SerialInv, CommitInvoice, HasInserted, JobHolds
<1>4. /\ invoices' = Append(invoices, row) /\ usage' = Attached(j.events, n)
      /\ job' = [job EXCEPT ![h] = Idle] /\ (Mode[j.firm] = "stripe" <=> j.at = "pushed")
  BY <1>0, <1>1, <1>3 DEF CommitInvoice
<1>5. /\ DOMAIN invoices' = DOMAIN invoices \cup {n} /\ n \notin DOMAIN invoices /\ n # 0
      /\ invoices'[n] = row /\ \A i \in DOMAIN invoices : invoices'[i] = invoices[i]
  BY <1>2, <1>4 DEF IInv, TypeOK
<1>6. /\ DOMAIN usage' = DOMAIN usage
      /\ \A e \in DOMAIN usage : usage'[e] = IF e \in j.events THEN n ELSE usage[e]
  BY <1>4 DEF Attached
<1>7. \A e \in j.events : e \in DOMAIN usage /\ usage[e] = 0 /\ FirmOf[e] = j.firm
  BY <1>3 DEF StillSo
<1>8. InvoiceMatchesUsage'
  <2> SUFFICES ASSUME NEW i \in DOMAIN invoices \cup {n}
               PROVE  /\ invoices'[i].lines = {e \in DOMAIN usage : usage'[e] = i}
                      /\ \A e \in invoices'[i].lines : FirmOf[e] = invoices'[i].firm
    BY <1>5, <1>6 DEF InvoiceMatchesUsage
  <2>1. CASE i = n
    <3>1. \A e \in DOMAIN usage : usage[e] # n
      BY <1>5 DEF IInv, TypeOK
    <3>2. {e \in DOMAIN usage : usage'[e] = n} = j.events
      BY <1>6, <1>7, <3>1
    <3> QED
      BY <1>1, <1>5, <1>7, <2>1, <3>2
  <2>2. CASE i \in DOMAIN invoices
    <3>1. i # n /\ i # 0 /\ invoices'[i] = invoices[i]
      BY <1>5, <2>2 DEF IInv, TypeOK
    <3>2. {e \in DOMAIN usage : usage'[e] = i} = {e \in DOMAIN usage : usage[e] = i}
      BY <1>6, <1>7, <3>1
    <3> QED
      BY <2>2, <3>1, <3>2 DEF SerialInv, InvoiceMatchesUsage
  <2> QED
    BY <2>1, <2>2
<1>9. OutsideStripe'
  <2>1. row.firm = j.firm /\ row.stripe = j.stripe
    BY <1>1
  <2>2. Mode[j.firm] = "external" => j.stripe = 0
    BY <1>3, <1>4 DEF StillSo
  <2> QED
    BY <1>5, <2>1, <2>2 DEF SerialInv, OutsideStripe, ModeOf
<1>10. (\A g \in Handlers : StillSo(job[g]))'
  <2>1. \A g \in Handlers : job'[g] = Idle
    BY <1>4 DEF OneRequest, IInv, TypeOK
  <2> QED
    BY <2>1 DEF StillSo, Idle
<1>11. PaidReferenceStays
  BY <1>5 DEF PaidReferenceStays
<1> QED
  BY <1>8, <1>9, <1>10, <1>11 DEF SerialInv

(* A request that read an invoice which, if it is external, is not paid. *)
LEMMA SerialSettle ==
    ASSUME OneRequest, IInv, SerialInv, NEW h \in Handlers, NEW i \in DOMAIN invoices,
           NEW status, NEW reference, Settle(h, i, status, reference),
           ModeOf(i) = "external" => invoices[i].status # "paid"
    PROVE  SerialInv' /\ PaidReferenceStays
<1>1. PICK j : j = [at |-> "settling", invoice |-> i, reference |-> reference,
                    status |-> IF status = invoices[i].status THEN "unchanged" ELSE status]
  OBVIOUS
<1>2. StillSo(j)
  BY <1>1 DEF StillSo
<1> QED
  BY <1>1, <1>2, RequestMoves DEF Settle

LEMMA SerialReads ==
    ASSUME OneRequest, IInv, SerialInv, NEW h \in Handlers, NEW i \in DOMAIN invoices,
           RecordExternalPayment(h, i) \/ InvoicePaid(h, i) \/ InvoiceVoided(h, i)
    PROVE  SerialInv' /\ PaidReferenceStays
<1>1. CASE RecordExternalPayment(h, i)
  BY <1>1, SerialSettle DEF RecordExternalPayment
<1>2. CASE InvoicePaid(h, i)
  BY <1>2, SerialSettle DEF InvoicePaid, SerialInv, OutsideStripe
<1>3. CASE InvoiceVoided(h, i)
  BY <1>3, SerialSettle DEF InvoiceVoided, SerialInv, OutsideStripe
<1> QED
  BY <1>1, <1>2, <1>3

LEMMA SerialCheckout ==
    ASSUME OneRequest, IInv, SerialInv, NEW h \in Handlers
    PROVE  /\ \A s \in DOMAIN sessions :
                 CheckoutCompleted(h, s) => SerialInv' /\ PaidReferenceStays
           /\ \A i \in DOMAIN invoices :
                 CreateCheckout(h, i) => SerialInv' /\ PaidReferenceStays
<1>1. ASSUME NEW s \in DOMAIN sessions, CheckoutCompleted(h, s)
      PROVE  SerialInv' /\ PaidReferenceStays
  <2>1. PICK i : i = sessions[s].invoice
    OBVIOUS
  <2>2. sessions[s] \in [invoice : DOMAIN invoices, done : BOOLEAN]
    BY SeqElement DEF IInv, TypeOK
  <2>3. i \in DOMAIN invoices
    BY <2>1, <2>2
  <2> QED
    BY <1>1, <2>1, <2>3, SerialSettle DEF CheckoutCompleted, SessionInvoice
<1>2. ASSUME NEW i \in DOMAIN invoices, CreateCheckout(h, i)
      PROVE  SerialInv' /\ PaidReferenceStays
  <2>1. PICK j : j = [at |-> "linking", invoice |-> i, session |-> Len(sessions) + 1]
    OBVIOUS
  <2>2. StillSo(j)
    BY <2>1 DEF StillSo
  <2> QED
    BY <1>2, <2>1, <2>2, RequestMoves DEF CreateCheckout
<1> QED
  BY <1>1, <1>2

(* What a row says of its usage and its firm is left alone, and a paid      *)
(* external row altogether.                                                 *)
LEMMA SerialRow ==
    ASSUME OneRequest, IInv, SerialInv, NEW h \in Handlers, job' = [job EXCEPT ![h] = Idle],
           UNCHANGED usage, DOMAIN invoices' = DOMAIN invoices, PaidReferenceStays,
           \A i \in DOMAIN invoices : /\ invoices'[i].firm = invoices[i].firm
                                      /\ invoices'[i].lines = invoices[i].lines
                                      /\ invoices'[i].stripe = invoices[i].stripe
    PROVE  SerialInv'
<1>1. \A g \in Handlers : job'[g] = Idle
  BY DEF OneRequest, IInv, TypeOK
<1>2. (\A g \in Handlers : StillSo(job[g]))'
  BY <1>1 DEF StillSo, Idle
<1>3. InvoiceMatchesUsage' /\ OutsideStripe'
  BY DEF SerialInv, InvoiceMatchesUsage, OutsideStripe, ModeOf
<1> QED
  BY <1>2, <1>3 DEF SerialInv

LEMMA SerialStatus ==
    ASSUME OneRequest, IInv, SerialInv, NEW h \in Handlers, CommitStatus(h)
    PROVE  SerialInv' /\ PaidReferenceStays
<1>0. PICK j : j = job[h]
  OBVIOUS
<1>1. j.at = "settling" /\ StillSo(j) /\ UNCHANGED usage /\ job' = [job EXCEPT ![h] = Idle]
  BY <1>0 DEF SerialInv, CommitStatus
<1>2. invoices \in Seq(InvoiceRows) /\ \A i \in DOMAIN invoices : invoices[i] \in InvoiceRows
  BY SeqElement DEF IInv, TypeOK
<1>3. /\ DOMAIN invoices' = DOMAIN invoices
      /\ \A i \in DOMAIN invoices : i # j.invoice => invoices'[i] = invoices[i]
      /\ \A i \in DOMAIN invoices : /\ invoices'[i].firm = invoices[i].firm
                                    /\ invoices'[i].lines = invoices[i].lines
                                    /\ invoices'[i].stripe = invoices[i].stripe
  BY <1>0, <1>2 DEF CommitStatus, InvoiceRows
<1>4. PaidReferenceStays
  BY <1>1, <1>3 DEF StillSo, PaidReferenceStays
<1> QED
  BY <1>1, <1>3, <1>4, SerialRow

LEMMA SerialLink ==
    ASSUME OneRequest, IInv, SerialInv, NEW h \in Handlers, CommitCheckout(h)
    PROVE  SerialInv' /\ PaidReferenceStays
<1>1. invoices \in Seq(InvoiceRows) /\ \A i \in DOMAIN invoices : invoices[i] \in InvoiceRows
  BY SeqElement DEF IInv, TypeOK
<1>2. UNCHANGED usage /\ job' = [job EXCEPT ![h] = Idle]
  BY DEF CommitCheckout
<1>3. /\ DOMAIN invoices' = DOMAIN invoices
      /\ \A i \in DOMAIN invoices : /\ invoices'[i].firm = invoices[i].firm
                                    /\ invoices'[i].lines = invoices[i].lines
                                    /\ invoices'[i].stripe = invoices[i].stripe
                                    /\ invoices'[i].status = invoices[i].status
                                    /\ invoices'[i].reference = invoices[i].reference
  BY <1>1 DEF CommitCheckout, InvoiceRows
<1>4. PaidReferenceStays
  BY <1>3 DEF PaidReferenceStays
<1> QED
  BY <1>2, <1>3, <1>4, SerialRow

LEMMA SerialAside ==
    ASSUME IInv, SerialInv, UNCHANGED <<usage, invoices, job>>
    PROVE  SerialInv' /\ PaidReferenceStays
BY DEF SerialInv, StillSo, InvoiceMatchesUsage, OutsideStripe, ModeOf, PaidReferenceStays

LEMMA SerialStep ==
    ASSUME OneRequest, IInv, SerialInv, [Next]_vars
    PROVE  SerialInv' /\ PaidReferenceStays
<1>1. CASE Meter
  BY <1>1, SerialMeter
<1>2. ASSUME NEW h \in Handlers, NEW f \in Firms, NEW from \in 1 .. MaxUsage,
             NEW to \in 1 .. MaxUsage, Sweep(h, f, from, to)
      PROVE  SerialInv' /\ PaidReferenceStays
  BY <1>2, SerialSweep
<1>3. ASSUME NEW h \in Handlers, Proceed(h) PROVE SerialInv' /\ PaidReferenceStays
  BY <1>3, SerialNumber, SerialInsert, SerialPush, SerialCommit, SerialStatus, SerialLink,
     SerialFail DEF Proceed
<1>4. ASSUME NEW h \in Handlers, NEW i \in DOMAIN invoices,
             \/ RecordExternalPayment(h, i) \/ CreateCheckout(h, i)
             \/ InvoicePaid(h, i) \/ InvoiceVoided(h, i)
      PROVE  SerialInv' /\ PaidReferenceStays
  BY <1>4, SerialReads, SerialCheckout
<1>5. ASSUME NEW h \in Handlers, NEW s \in DOMAIN sessions, CheckoutCompleted(h, s)
      PROVE  SerialInv' /\ PaidReferenceStays
  BY <1>5, SerialCheckout
<1>6. ASSUME NEW s \in DOMAIN sessions, CompleteSession(s) PROVE SerialInv' /\ PaidReferenceStays
  BY <1>6, SerialAside DEF CompleteSession
<1>7. ASSUME NEW k \in DOMAIN stripeInvoices, NEW status \in {"paid", "void"},
             CloseStripeInvoice(k, status)
      PROVE  SerialInv' /\ PaidReferenceStays
  BY <1>7, SerialAside DEF CloseStripeInvoice
<1>8. CASE UNCHANGED vars
  BY <1>8, SerialAside DEF vars
<1> QED
  BY <1>1, <1>2, <1>3, <1>4, <1>5, <1>6, <1>7, <1>8 DEF Next

(***************************************************************************)
(* InvoiceMatchesUsage, for any number of generations one after another,   *)
(* failed and retried: an invoice charges the usage attached to it.        *)
(***************************************************************************)
THEOREM ChargesItsUsage == ASSUME OneRequest PROVE Spec => []InvoiceMatchesUsage
<1>1. IInv /\ SerialInv /\ [Next]_vars => SerialInv'
  BY SerialStep
<1>2. SerialInv => InvoiceMatchesUsage
  BY DEF SerialInv
<1> QED
  BY <1>1, <1>2, SerialStart, BillingInvariant, PTL DEF Spec

(***************************************************************************)
(* UsageOnOneInvoice: generations bill no usage twice unless they overlap, *)
(* as in MCBillingOverlap.                                                 *)
(***************************************************************************)
THEOREM BillsOnce == ASSUME OneRequest PROVE Spec => []UsageOnOneInvoice
<1>1. InvoiceMatchesUsage => UsageOnOneInvoice
  BY DEF InvoiceMatchesUsage, UsageOnOneInvoice
<1> QED
  BY <1>1, ChargesItsUsage, PTL

(***************************************************************************)
(* PaidReferenceIsFinal: once a firm billed outside has paid, how it paid  *)
(* is final, whatever event arrives late or twice.                         *)
(***************************************************************************)
THEOREM PaidReferenceKept == ASSUME OneRequest PROVE Spec => PaidReferenceIsFinal
<1>1. IInv /\ SerialInv /\ [Next]_vars => SerialInv' /\ PaidReferenceStays
  BY SerialStep
<1>2. PaidReferenceStays =>
        \A i \in DOMAIN invoices :
          ModeOf(i) = "external" /\ invoices[i].status = "paid" =>
              /\ invoices'[i].status = "paid"
              /\ invoices'[i].reference = invoices[i].reference
  BY DEF PaidReferenceStays
<1> QED
  BY <1>1, <1>2, SerialStart, BillingInvariant, PTL DEF Spec, PaidReferenceIsFinal

-----------------------------------------------------------------------------
(* Sums over finite sets, for the ledger.  A fold is a table of partial      *)
(* sums; that it exists and what it holds follows from a smallest           *)
(* counterexample, without an induction theorem over an operator.           *)

Pick(S) == CHOOSE x \in S : TRUE

(* The table of partial sums that MapThenSumSet builds, for a function f.   *)
PartialSums(f, sums, S) ==
    [s \in SUBSET S |-> IF s = {} THEN 0 ELSE f[Pick(s)] + sums[s \ {Pick(s)}]]

Table(f, S) == CHOOSE sums : sums = PartialSums(f, sums, S)

Total(f, S) == Table(f, S)[S]

LEMMA Picked == ASSUME NEW S, S # {} PROVE Pick(S) \in S
BY DEF Pick

(* Of some subsets of a finite set one contains none of the others.         *)
LEMMA Smallest ==
    ASSUME NEW S, IsFiniteSet(S), NEW B \in SUBSET SUBSET S, B # {}
    PROVE  \E s \in B : \A t \in SUBSET s : t # s => t \notin B
<1>1. IsWellFoundedOn(StrictSubsetOrdering(S), SUBSET S)
  BY FS_StrictSubsetOrderingWellFounded, FS_FiniteSubsetsOfFinite
<1>2. PICK s \in B : \A t \in B : ~ (<<t, s>> \in StrictSubsetOrdering(S))
  BY <1>1, WFMin
<1>3. ASSUME NEW t \in SUBSET s, t # s, t \in B PROVE FALSE
  <2>1. <<t, s>> \in (SUBSET S) \X (SUBSET S)
    BY <1>3
  <2> QED
    BY <1>2, <1>3, <2>1 DEF StrictSubsetOrdering
<1> QED
  BY <1>2, <1>3

(* The table exists, and agrees with those of its subsets. *)
Tabulated(f, S) ==
    /\ Table(f, S) = PartialSums(f, Table(f, S), S)
    /\ \A s \in SUBSET S : Table(f, S)[s] = Total(f, s)

LEMMA TotalOf ==
    ASSUME NEW f, NEW S, Tabulated(f, S)
    PROVE  Total(f, S) = IF S = {} THEN 0 ELSE f[Pick(S)] + Total(f, S \ {Pick(S)})
<1>1. PICK T : T = Table(f, S)
  OBVIOUS
<1>2. T = [s \in SUBSET S |-> IF s = {} THEN 0 ELSE f[Pick(s)] + T[s \ {Pick(s)}]]
  BY <1>1 DEF Tabulated, PartialSums
<1>3. T[S] = IF S = {} THEN 0 ELSE f[Pick(S)] + T[S \ {Pick(S)}]
  BY <1>2
<1>4. T[S] = Total(f, S) /\ T[S \ {Pick(S)}] = Total(f, S \ {Pick(S)})
  BY <1>1 DEF Tabulated
<1> QED
  BY <1>3, <1>4

LEMMA TabulatedStep ==
    ASSUME NEW f, NEW S, IsFiniteSet(S), \A s \in SUBSET S : s # S => Tabulated(f, s)
    PROVE  Tabulated(f, S)
<1>1. PICK T : T = [s \in SUBSET S |->
                      IF s = {} THEN 0 ELSE f[Pick(s)] + Total(f, s \ {Pick(s)})]
  OBVIOUS
<1>2. ASSUME NEW s \in SUBSET S, s # S PROVE T[s] = Total(f, s)
  BY <1>1, <1>2, TotalOf
<1>3. ASSUME NEW s \in SUBSET S
      PROVE  T[s] = IF s = {} THEN 0 ELSE f[Pick(s)] + T[s \ {Pick(s)}]
  <2>1. CASE s = {}
    BY <1>1, <2>1
  <2>2. CASE s # {}
    <3>1. Pick(s) \in s
      BY <2>2, Picked
    <3>2. s \ {Pick(s)} \in SUBSET S /\ s \ {Pick(s)} # S
      BY <3>1
    <3>3. T[s \ {Pick(s)}] = Total(f, s \ {Pick(s)})
      BY <1>2, <3>2
    <3> QED
      BY <1>1, <2>2, <3>3
  <2> QED
    BY <2>1, <2>2
<1>4. T = PartialSums(f, T, S)
  <2>1. T = [s \in SUBSET S |-> T[s]]
    BY <1>1
  <2> QED
    BY <1>3, <2>1 DEF PartialSums
<1>5. Table(f, S) = PartialSums(f, Table(f, S), S)
  BY <1>4 DEF Table
<1>6. PICK H : H = Table(f, S)
  OBVIOUS
<1>7. ASSUME NEW s \in SUBSET S
      PROVE  H[s] = IF s = {} THEN 0 ELSE f[Pick(s)] + H[s \ {Pick(s)}]
  <2>1. H = [t \in SUBSET S |-> IF t = {} THEN 0 ELSE f[Pick(t)] + H[t \ {Pick(t)}]]
    BY <1>5, <1>6 DEF PartialSums
  <2> QED
    BY <2>1
<1>8. PICK B : B = {s \in SUBSET S : H[s] # Total(f, s)}
  OBVIOUS
<1>9. B \in SUBSET SUBSET S
  BY <1>8
<1>10. ASSUME B # {} PROVE FALSE
  <2>1. PICK s \in B : \A t \in SUBSET s : t # s => t \notin B
    BY <1>9, <1>10, Smallest
  <2>2. s \in SUBSET S /\ H[s] # Total(f, s)
    BY <1>8
  <2>3. s # S
    BY <1>6, <2>2 DEF Total
  <2>4. Total(f, s) = IF s = {} THEN 0 ELSE f[Pick(s)] + Total(f, s \ {Pick(s)})
    BY <2>2, <2>3, TotalOf
  <2>5. CASE s = {}
    BY <1>7, <2>2, <2>4, <2>5
  <2>6. CASE s # {}
    <3>1. Pick(s) \in s
      BY <2>6, Picked
    <3>2. s \ {Pick(s)} \in SUBSET s /\ s \ {Pick(s)} # s /\ s \ {Pick(s)} \in SUBSET S
      BY <2>2, <3>1
    <3>3. H[s \ {Pick(s)}] = Total(f, s \ {Pick(s)})
      BY <1>8, <2>1, <3>2
    <3> QED
      BY <1>7, <2>2, <2>4, <2>6, <3>3
  <2> QED
    BY <2>5, <2>6
<1> QED
  BY <1>5, <1>6, <1>8, <1>10 DEF Tabulated

LEMMA TablesExist ==
    ASSUME NEW f, NEW S, IsFiniteSet(S)
    PROVE  \A s \in SUBSET S : Tabulated(f, s)
<1>1. PICK B : B = {s \in SUBSET S : ~Tabulated(f, s)}
  OBVIOUS
<1>2. B \in SUBSET SUBSET S
  BY <1>1
<1>3. ASSUME B # {} PROVE FALSE
  <2>1. PICK s \in B : \A t \in SUBSET s : t # s => t \notin B
    BY <1>2, <1>3, Smallest
  <2>2. s \in SUBSET S /\ ~Tabulated(f, s)
    BY <1>1
  <2>3. \A t \in SUBSET s : t # s => Tabulated(f, t)
    BY <1>1, <2>1, <2>2
  <2>4. IsFiniteSet(s)
    BY <2>2, FS_Subset
  <2> QED
    BY <2>2, <2>3, <2>4, TabulatedStep
<1> QED
  BY <1>1, <1>3

LEMMA TotalIs ==
    ASSUME NEW f, NEW S, IsFiniteSet(S)
    PROVE  /\ S = {} => Total(f, S) = 0
           /\ S # {} => Pick(S) \in S /\ Total(f, S) = f[Pick(S)] + Total(f, S \ {Pick(S)})
<1>1. Tabulated(f, S)
  BY TablesExist
<1> QED
  BY <1>1, TotalOf, Picked

(* A sum of numbers is one, and positive when its terms are.                *)
LEMMA TotalNat ==
    ASSUME NEW f, NEW S, IsFiniteSet(S), \A x \in S : f[x] \in Nat
    PROVE  \A s \in SUBSET S : Total(f, s) \in Nat
<1>1. PICK B : B = {s \in SUBSET S : Total(f, s) \notin Nat}
  OBVIOUS
<1>2. B \in SUBSET SUBSET S
  BY <1>1
<1>3. ASSUME B # {} PROVE FALSE
  <2>1. PICK s \in B : \A t \in SUBSET s : t # s => t \notin B
    BY <1>2, <1>3, Smallest
  <2>2. s \in SUBSET S /\ Total(f, s) \notin Nat /\ IsFiniteSet(s)
    BY <1>1, FS_Subset
  <2>3. s # {}
    <3>1. s = {} => Total(f, s) = 0
      BY <2>2, TotalIs
    <3> QED
      BY <2>2, <3>1
  <2>4. Pick(s) \in s /\ Total(f, s) = f[Pick(s)] + Total(f, s \ {Pick(s)})
    BY <2>2, <2>3, TotalIs
  <2>5. s \ {Pick(s)} \in SUBSET s /\ s \ {Pick(s)} # s /\ s \ {Pick(s)} \in SUBSET S
    BY <2>2, <2>4
  <2>6. Total(f, s \ {Pick(s)}) \in Nat /\ f[Pick(s)] \in Nat
    BY <1>1, <2>1, <2>2, <2>4, <2>5
  <2> QED
    BY <2>2, <2>4, <2>6
<1> QED
  BY <1>1, <1>3

(* Any element may be taken out of a sum first. *)
LEMMA TotalWithout ==
    ASSUME NEW f, NEW S, IsFiniteSet(S), \A x \in S : f[x] \in Nat
    PROVE  \A s \in SUBSET S : \A x \in s : Total(f, s) = f[x] + Total(f, s \ {x})
<1>1. PICK B : B = {s \in SUBSET S : \E x \in s : Total(f, s) # f[x] + Total(f, s \ {x})}
  OBVIOUS
<1>2. B \in SUBSET SUBSET S
  BY <1>1
<1>3. ASSUME B # {} PROVE FALSE
  <2>1. PICK s \in B : \A t \in SUBSET s : t # s => t \notin B
    BY <1>2, <1>3, Smallest
  <2>2. s \in SUBSET S /\ IsFiniteSet(s)
    BY <1>1, FS_Subset
  <2>3. PICK x \in s : Total(f, s) # f[x] + Total(f, s \ {x})
    BY <1>1
  <2>4. PICK y : y = Pick(s)
    OBVIOUS
  <2>5. y \in s /\ Total(f, s) = f[y] + Total(f, s \ {y})
    BY <2>2, <2>3, <2>4, TotalIs
  <2>6. x # y
    BY <2>3, <2>5
  <2>7. PICK t, u, v : t = s \ {x} /\ u = s \ {y} /\ v = s \ {x, y}
    OBVIOUS
  <2>8. /\ t \in SUBSET s /\ t # s /\ u \in SUBSET s /\ u # s /\ v \in SUBSET S
        /\ t \in SUBSET S /\ u \in SUBSET S
        /\ y \in t /\ x \in u /\ v = t \ {y} /\ v = u \ {x}
    BY <2>2, <2>3, <2>5, <2>6, <2>7
  <2>9. Total(f, t) = f[y] + Total(f, v) /\ Total(f, u) = f[x] + Total(f, v)
    <3>1. t \notin B /\ u \notin B
      BY <2>1, <2>8
    <3>2. Total(f, t) = f[y] + Total(f, t \ {y}) /\ Total(f, u) = f[x] + Total(f, u \ {x})
      BY <1>1, <2>8, <3>1
    <3> QED
      BY <2>8, <3>2
  <2>10. f[x] \in Nat /\ f[y] \in Nat /\ Total(f, v) \in Nat
    BY <2>2, <2>3, <2>5, <2>8, TotalNat
  <2> QED
    BY <2>3, <2>5, <2>7, <2>9, <2>10
<1> QED
  BY <1>1, <1>3

LEMMA TotalSplit ==
    ASSUME NEW f, NEW S, IsFiniteSet(S), \A x \in S : f[x] \in Nat,
           NEW A \in SUBSET S, NEW C \in SUBSET S, A \cap C = {}
    PROVE  Total(f, A \cup C) = Total(f, A) + Total(f, C)
<1>1. PICK B : B = {s \in SUBSET S : A \cap s = {} /\ Total(f, A \cup s) # Total(f, A) + Total(f, s)}
  OBVIOUS
<1>2. B \in SUBSET SUBSET S
  BY <1>1
<1>3. ASSUME B # {} PROVE FALSE
  <2>1. PICK s \in B : \A t \in SUBSET s : t # s => t \notin B
    BY <1>2, <1>3, Smallest
  <2>2. s \in SUBSET S /\ A \cap s = {} /\ Total(f, A \cup s) # Total(f, A) + Total(f, s)
    BY <1>1
  <2>3. Total(f, A) \in Nat
    BY TotalNat
  <2>4. CASE s = {}
    <3>1. A \cup s = A /\ Total(f, s) = 0
      BY <2>4, TotalIs, FS_EmptySet
    <3>2. Total(f, A \cup s) = Total(f, A)
      BY <3>1
    <3> QED
      BY <2>2, <2>3, <3>1, <3>2
  <2>5. CASE s # {}
    <3>1. PICK x : x \in s
      BY <2>5
    <3>2. PICK t, u : t = s \ {x} /\ u = A \cup t
      OBVIOUS
    <3>3. /\ t \in SUBSET s /\ t # s /\ t \in SUBSET S /\ A \cap t = {} /\ x \in S
          /\ (A \cup s) \in SUBSET S /\ u = (A \cup s) \ {x} /\ x \in A \cup s
      BY <2>2, <3>1, <3>2
    <3>4. Total(f, u) = Total(f, A) + Total(f, t)
      BY <1>1, <2>1, <3>2, <3>3
    <3>5. Total(f, s) = f[x] + Total(f, t) /\ Total(f, A \cup s) = f[x] + Total(f, u)
      BY <2>2, <3>1, <3>2, <3>3, TotalWithout
    <3>6. f[x] \in Nat /\ Total(f, t) \in Nat
      BY <3>3, TotalNat
    <3> QED
      BY <2>2, <2>3, <3>4, <3>5, <3>6
  <2> QED
    BY <2>4, <2>5
<1> QED
  BY <1>1, <1>3

(* What costs nothing is nothing. *)
LEMMA TotalZero ==
    ASSUME NEW f, NEW S, IsFiniteSet(S), \A x \in S : f[x] \in Nat \ {0}, Total(f, S) = 0
    PROVE  S = {}
<1> SUFFICES ASSUME S # {} PROVE FALSE
  OBVIOUS
<1>1. Pick(S) \in S /\ Total(f, S) = f[Pick(S)] + Total(f, S \ {Pick(S)})
  BY TotalIs
<1>2. Total(f, S \ {Pick(S)}) \in Nat
  BY TotalNat
<1>3. f[Pick(S)] \in Nat \ {0}
  BY <1>1
<1> QED
  BY <1>1, <1>2, <1>3

(* Parts that share nothing add up to the whole. *)
LEMMA TotalOfParts ==
    ASSUME NEW f, NEW S, IsFiniteSet(S), \A x \in S : f[x] \in Nat,
           NEW I, IsFiniteSet(I), NEW L \in [I -> SUBSET S],
           \A i, k \in I : i # k => L[i] \cap L[k] = {},
           NEW g, \A i \in I : g[i] = Total(f, L[i])
    PROVE  Total(g, I) = Total(f, UNION {L[i] : i \in I})
<1> DEFINE Parts(s) == UNION {L[i] : i \in s}
<1>1. PICK B : B = {s \in SUBSET I : Total(g, s) # Total(f, Parts(s))}
  OBVIOUS
<1>2. B \in SUBSET SUBSET I
  BY <1>1
<1>3. ASSUME B # {} PROVE FALSE
  <2>1. PICK s \in B : \A t \in SUBSET s : t # s => t \notin B
    BY <1>2, <1>3, Smallest
  <2>2. s \in SUBSET I /\ Total(g, s) # Total(f, Parts(s)) /\ IsFiniteSet(s)
    BY <1>1, FS_Subset
  <2>3. CASE s = {}
    <3>1. Parts(s) = {}
      BY <2>3
    <3> QED
      BY <2>2, <2>3, <3>1, TotalIs, FS_EmptySet
  <2>4. CASE s # {}
    <3>1. PICK x, t : x = Pick(s) /\ t = s \ {x}
      OBVIOUS
    <3>2. x \in s /\ Total(g, s) = g[x] + Total(g, t)
      BY <2>2, <2>4, <3>1, TotalIs
    <3>3. t \in SUBSET s /\ t # s /\ t \in SUBSET I /\ x \in I
      BY <2>2, <3>1, <3>2
    <3>4. Total(g, t) = Total(f, Parts(t))
      BY <1>1, <2>1, <3>3
    <3>5. Parts(s) = L[x] \cup Parts(t)
      BY <3>1, <3>2
    <3>6. L[x] \in SUBSET S /\ Parts(t) \in SUBSET S /\ L[x] \cap Parts(t) = {}
      BY <3>1, <3>3
    <3>7. Total(f, L[x] \cup Parts(t)) = Total(f, L[x]) + Total(f, Parts(t))
      <4> HIDE DEF Parts
      <4> QED
        BY <3>6, TotalSplit
    <3>8. g[x] = Total(f, L[x])
      BY <3>3
    <3> HIDE DEF Parts
    <3> QED
      BY <2>2, <3>2, <3>4, <3>5, <3>7, <3>8
  <2> QED
    BY <2>3, <2>4
<1> QED
  BY <1>1, <1>3

LEMMA CentsTotal == ASSUME NEW S PROVE Cents(S) = Total(Amount, S)
BY DEF Cents, Total, Table, PartialSums, Pick, MapThenSumSet, MapThenFoldSet

LEMMA SubtotalsTotal ==
    ASSUME NEW X
    PROVE  MapThenSumSet(Subtotal, X) = Total([i \in X |-> Subtotal(i)], X)
<1>1. PICK g : g = [i \in X |-> Subtotal(i)]
  OBVIOUS
<1>2. ASSUME NEW s \in SUBSET X, s # {} PROVE g[Pick(s)] = Subtotal(Pick(s))
  BY <1>1, <1>2, Picked
<1>3. ASSUME NEW sums
      PROVE  PartialSums(g, sums, X) =
               [s \in SUBSET X |->
                   IF s = {} THEN 0 ELSE Subtotal(Pick(s)) + sums[s \ {Pick(s)}]]
  BY <1>2 DEF PartialSums
<1>4. Table(g, X) =
        CHOOSE sums : sums = [s \in SUBSET X |->
                   IF s = {} THEN 0 ELSE Subtotal(Pick(s)) + sums[s \ {Pick(s)}]]
  BY <1>3 DEF Table
<1>5. MapThenSumSet(Subtotal, X) =
        (CHOOSE sums : sums = [s \in SUBSET X |->
                   IF s = {} THEN 0 ELSE Subtotal(Pick(s)) + sums[s \ {Pick(s)}]])[X]
  BY DEF MapThenSumSet, MapThenFoldSet, Pick
<1> QED
  BY <1>1, <1>4, <1>5 DEF Total

(* What has a price is a finite number of events, with prices above 0. *)
LEMMA PricesKnown ==
    ASSUME TypeOK
    PROVE  \A S \in SUBSET DOMAIN usage :
             IsFiniteSet(S) /\ \A e \in S : Amount[e] \in Nat \ {0}
<1>1. DOMAIN usage = 1 .. Len(usage) /\ Len(usage) \in Nat /\ Len(usage) <= MaxUsage
  BY DEF TypeOK
<1>2. MaxUsage \in Nat
  BY BillingAssumption DEF MaxUsage
<1>3. \A e \in 1 .. MaxUsage : Amount[e] \in Nat \ {0}
  BY BillingAssumption
<1>4. IsFiniteSet(DOMAIN usage)
  BY <1>1, FS_Interval
<1>5. \A e \in DOMAIN usage : e \in 1 .. MaxUsage
  BY <1>1, <1>2
<1> QED
  BY <1>3, <1>4, <1>5, FS_Subset

LEMMA TiedLedger ==
    ASSUME TypeOK, InvoiceMatchesUsage, NEW f \in Firms
    PROVE  Clean(f) <=>
             \A e \in UsageOf(f) : usage[e] # 0 /\ invoices[usage[e]].status # "void"
<1>1. PICK U : U = UsageOf(f)
  OBVIOUS
<1>2. PICK N : N = {e \in U : usage[e] # 0}
  OBVIOUS
<1>3. PICK V : V = {e \in N : invoices[usage[e]].status # "void"}
  OBVIOUS
<1>4. PICK X : X = {i \in InvoicesOf(f) : invoices[i].status # "void"}
  OBVIOUS
<1>5. PICK L : L = [i \in X |-> invoices[i].lines]
  OBVIOUS
<1>6. PICK g : g = [i \in X |-> Subtotal(i)]
  OBVIOUS
<1>7. N \in SUBSET U /\ V \in SUBSET N /\ U \in SUBSET DOMAIN usage
  BY <1>1, <1>2, <1>3 DEF UsageOf
<1>8. /\ IsFiniteSet(U) /\ IsFiniteSet(U \ N) /\ IsFiniteSet(N \ V)
      /\ \A e \in U : Amount[e] \in Nat \ {0}
  BY <1>7, PricesKnown, FS_Subset
<1>9. IsFiniteSet(X)
  <2>1. X \in SUBSET DOMAIN invoices
    BY <1>4 DEF InvoicesOf
  <2>2. DOMAIN invoices = 1 .. Len(invoices) /\ Len(invoices) \in Nat
    BY DEF TypeOK
  <2>3. IsFiniteSet(DOMAIN invoices)
    BY <2>2, FS_Interval
  <2> QED
    BY <2>1, <2>3, FS_Subset
<1>10. ASSUME NEW i \in X
       PROVE  L[i] = {e \in U : usage[e] = i} /\ invoices[i].status # "void"
  <2>1. i \in DOMAIN invoices /\ invoices[i].firm = f /\ invoices[i].status # "void"
    BY <1>4 DEF InvoicesOf
  <2>2. /\ invoices[i].lines = {e \in DOMAIN usage : usage[e] = i}
        /\ \A e \in invoices[i].lines : FirmOf[e] = f
    BY <2>1 DEF InvoiceMatchesUsage
  <2> QED
    BY <1>1, <1>5, <2>1, <2>2 DEF UsageOf
<1>11. L \in [X -> SUBSET U] /\ \A i, k \in X : i # k => L[i] \cap L[k] = {}
  BY <1>5, <1>10
<1>12. UNION {L[i] : i \in X} = V
  <2>1. ASSUME NEW e \in V PROVE usage[e] \in X /\ e \in L[usage[e]]
    <3>1. e \in DOMAIN usage /\ e \in U /\ usage[e] # 0 /\ FirmOf[e] = f
          /\ invoices[usage[e]].status # "void"
      BY <1>1, <1>2, <1>3 DEF UsageOf
    <3>2. usage[e] \in DOMAIN invoices
      BY <3>1 DEF TypeOK
    <3>3. e \in invoices[usage[e]].lines
      BY <3>1, <3>2 DEF InvoiceMatchesUsage
    <3>4. invoices[usage[e]].firm = f
      BY <3>1, <3>2, <3>3 DEF InvoiceMatchesUsage
    <3> QED
      BY <1>4, <1>10, <3>1, <3>2, <3>4 DEF InvoicesOf
  <2>2. ASSUME NEW i \in X, NEW e \in L[i] PROVE e \in V
    <3>1. i # 0
      BY <1>4 DEF InvoicesOf, TypeOK
    <3> QED
      BY <1>2, <1>3, <1>10, <3>1
  <2> QED
    BY <2>1, <2>2
<1>13. \A i \in X : g[i] = Total(Amount, L[i])
  BY <1>5, <1>6, CentsTotal DEF Subtotal
<1>14. Issued(f) = Total(Amount, V)
  <2>1. Issued(f) = Total(g, X)
    BY <1>4, <1>6, SubtotalsTotal DEF Issued
  <2>2. \A e \in U : Amount[e] \in Nat
    BY <1>8
  <2>3. Total(g, X) = Total(Amount, UNION {L[i] : i \in X})
    BY <1>8, <1>9, <1>11, <1>13, <2>2, TotalOfParts
  <2> QED
    BY <1>12, <2>1, <2>3
<1>15. MeteredInvoiced(f) = Total(Amount, N)
  BY <1>1, <1>2, CentsTotal DEF MeteredInvoiced
<1>16. MeteredUninvoiced(f) = Total(Amount, U) - Total(Amount, N)
  BY <1>1, <1>15, CentsTotal DEF MeteredUninvoiced
<1>17. /\ Total(Amount, U) = Total(Amount, N) + Total(Amount, U \ N)
       /\ Total(Amount, N) = Total(Amount, V) + Total(Amount, N \ V)
  <2>1. \A e \in U : Amount[e] \in Nat
    BY <1>8
  <2>2. U = N \cup (U \ N) /\ N = V \cup (N \ V) /\ (U \ N) \in SUBSET U
        /\ V \in SUBSET U /\ (N \ V) \in SUBSET U
    BY <1>7
  <2>3. Total(Amount, N \cup (U \ N)) = Total(Amount, N) + Total(Amount, U \ N)
    BY <1>7, <1>8, <2>1, <2>2, TotalSplit
  <2>4. Total(Amount, V \cup (N \ V)) = Total(Amount, V) + Total(Amount, N \ V)
    BY <1>7, <1>8, <2>1, <2>2, TotalSplit
  <2> QED
    BY <2>2, <2>3, <2>4
<1>18. /\ Total(Amount, N) \in Nat /\ Total(Amount, V) \in Nat
       /\ Total(Amount, U \ N) \in Nat /\ Total(Amount, N \ V) \in Nat
  <2>1. \A e \in U : Amount[e] \in Nat
    BY <1>8
  <2> QED
    BY <1>7, <1>8, <2>1, TotalNat
<1>19. Clean(f) <=> Total(Amount, U \ N) = 0 /\ Total(Amount, N \ V) = 0
  BY <1>14, <1>15, <1>16, <1>17, <1>18 DEF Clean
<1>20. Total(Amount, U \ N) = 0 <=> U \ N = {}
  BY <1>8, TotalZero, TotalIs
<1>21. Total(Amount, N \ V) = 0 <=> N \ V = {}
  BY <1>7, <1>8, TotalZero, TotalIs
<1>22. U \ N = {} /\ N \ V = {} <=> \A e \in U : usage[e] # 0 /\ invoices[usage[e]].status # "void"
  BY <1>2, <1>3
<1> QED
  BY <1>1, <1>19, <1>20, <1>21, <1>22

(***************************************************************************)
(* CleanMeansTied: a firm's ledger is clean exactly when all its usage is  *)
(* on invoices that are not void, for any prices and any number of events: *)
(* no two errors of the sums cancel out.                                   *)
(***************************************************************************)
THEOREM CleanIsTied == ASSUME OneRequest PROVE Spec => []CleanMeansTied
<1>1. IInv /\ InvoiceMatchesUsage => CleanMeansTied
  BY TiedLedger DEF IInv, CleanMeansTied
<1> QED
  BY <1>1, BillingInvariant, ChargesItsUsage, PTL

-----------------------------------------------------------------------------
(* Numbers. *)

Below == {p \in Nat \X Nat : p[1] < p[2]}

(* The numbers are well-ordered: the library's fact without its operator.   *)
LEMMA BelowWellFounded == IsWellFoundedOn(Below, Nat)
BY NatLessThanWellFounded DEF OpToRel, Below

(* A set of numbers up to n that is not empty has a greatest one, and this  *)
(* is what Max gives.                                                       *)
LEMMA MaxOfNumbers ==
    ASSUME NEW n \in Nat, NEW S \in SUBSET (0 .. n), S # {}
    PROVE  Max(S) \in S /\ \A x \in S : x <= Max(S)
<1> DEFINE T == {n - x : x \in S}
<1>1. T \subseteq Nat
  OBVIOUS
<1>2. T # {}
  <2> PICK x \in S : TRUE
    OBVIOUS
  <2> QED
    BY n - x \in T
<1>3. PICK d \in T : \A e \in T : ~(<<e, d>> \in Below)
  <2> HIDE DEF T
  <2> QED
    BY <1>1, <1>2, BelowWellFounded, WFMin
<1>4. PICK m \in S : d = n - m
  OBVIOUS
<1>5. ASSUME NEW x \in S PROVE m >= x
  <2>1. n - x \in T /\ ~(<<n - x, n - m>> \in Below)
    BY <1>3, <1>4
  <2> QED
    BY <2>1 DEF Below
<1>6. \A x \in S : Max(S) >= x
  BY <1>5 DEF Max
<1>7. Max(S) \in S
  BY <1>5 DEF Max
<1> QED
  BY <1>6, <1>7

(* The greatest number of S is the greatest of a part of S that has it.     *)
LEMMA MaxOfPart ==
    ASSUME NEW n \in Nat, NEW S \in SUBSET (0 .. n), NEW T \in SUBSET S, S # {}, Max(S) \in T
    PROVE  Max(T) = Max(S)
<1>1. Max(S) \in S /\ \A x \in S : x <= Max(S)
  BY MaxOfNumbers
<1>2. T \in SUBSET (0 .. n) /\ T # {}
  OBVIOUS
<1>3. Max(T) \in T /\ \A x \in T : x <= Max(T)
  BY <1>2, MaxOfNumbers
<1>4. Max(T) <= Max(S) /\ Max(S) <= Max(T)
  BY <1>1, <1>3
<1>5. Max(S) \in Int /\ Max(T) \in Int
  <2>1. Max(S) \in 0 .. n /\ Max(T) \in 0 .. n
    BY <1>1, <1>3
  <2> QED
    BY <2>1
<1> QED
  BY <1>4, <1>5

-----------------------------------------------------------------------------
(* The inductive invariant. *)

OwnedBy(o) == {c \in DOMAIN cards : cards[c].owner = o}

(* A request owns a card between its flush and its end only: one, newer     *)
(* than all it has found, which are committed cards of its scope.           *)
RequestsOwn ==
    \A o \in Operators :
        /\ pricing[o] = NoRequest \/ ~pricing[o].flushed => OwnedBy(o) = {}
        /\ pricing[o] # NoRequest =>
              /\ pricing[o].found \subseteq Priced(pricing[o].scope)
              /\ pricing[o].flushed => \E own \in DOMAIN cards :
                    /\ OwnedBy(o) = {own}
                    /\ cards[own].scope = pricing[o].scope
                    /\ cards[own].active
                    /\ \A c \in pricing[o].found : c < own

(* The newest committed card of a scope is active.                          *)
NewestIsActive ==
    \A s \in Scopes : \A c \in Priced(s) : (\A d \in Priced(s) : d <= c) => cards[c].active

(* Apart from overlap the one request there is deactivates all there is,    *)
(* which is one card at most.                                               *)
OneAtATime ==
    ~crossed =>
        /\ \A o, x \in Operators : pricing[o] # NoRequest /\ pricing[x] # NoRequest => o = x
        /\ \A o \in Operators : pricing[o] # NoRequest =>
              Current(pricing[o].scope) = pricing[o].found
        /\ \A s \in Scopes : \A c, d \in Current(s) : c = d

RatesInv ==
    /\ RatesTypeOK
    /\ RequestsOwn
    /\ NewestIsActive
    /\ OneAtATime

-----------------------------------------------------------------------------
(* Every step keeps it. *)

(* The numbers of the cards are small enough, in every part of the table.   *)
LEMMA CardNumbers ==
    ASSUME RatesTypeOK
    PROVE  /\ DOMAIN cards \subseteq 1 .. MaxCards /\ DOMAIN cards \in SUBSET (0 .. MaxCards)
           /\ \A c \in DOMAIN cards : c \in Nat /\ c <= inserted /\ c # inserted + 1
BY RateCardsAssumption DEF RatesTypeOK

(* create_rate_card's SELECT.                                               *)
LEMMA FindCardsStep ==
    ASSUME RatesInv, NEW o \in Operators, NEW s \in Scopes, NEW p \in Prices, FindCards(o, s, p)
    PROVE  RatesInv'
<1> DEFINE r == [scope |-> s, price |-> p, found |-> Current(s), flushed |-> FALSE]
<1>1. r \in Pricings /\ r # NoRequest
  <2>1. Current(s) \subseteq 1 .. MaxCards
    BY CardNumbers DEF RatesInv, Current, Priced
  <2>2. r \in Pricings
    BY <2>1 DEF Pricings
  <2> QED
    BY <2>2, RateCardsAssumption
<1>2. /\ pricing[o] = NoRequest
      /\ \A x \in Operators : pricing'[x] = IF x = o THEN r ELSE pricing[x]
      /\ cards' = cards /\ platform' = platform /\ inserted' = inserted
      /\ pricing' \in [Operators -> Pricings \cup {NoRequest}]
  BY <1>1 DEF FindCards, RatesInv, RatesTypeOK
<1>3. r.scope = s /\ r.found = Current(s) /\ r.flushed = FALSE
  OBVIOUS
<1>4. crossed' = (crossed \/ \E x \in Operators : pricing[x] # NoRequest)
  BY DEF FindCards
<1> HIDE DEF r
<1>5. \A t : Priced(t)' = Priced(t) /\ Current(t)' = Current(t)
  BY <1>2 DEF Priced, Current
<1>6. \A x : OwnedBy(x)' = OwnedBy(x)
  BY <1>2 DEF OwnedBy
<1>7. RatesTypeOK'
  BY <1>2, <1>4 DEF RatesInv, RatesTypeOK
<1>8. RequestsOwn'
  <2> SUFFICES ASSUME NEW x \in Operators
               PROVE  /\ pricing'[x] = NoRequest \/ ~pricing'[x].flushed => OwnedBy(x) = {}
                      /\ pricing'[x] # NoRequest =>
                          /\ pricing'[x].found \subseteq Priced(pricing'[x].scope)
                          /\ pricing'[x].flushed => \E own \in DOMAIN cards :
                                /\ OwnedBy(x) = {own}
                                /\ cards[own].scope = pricing'[x].scope
                                /\ cards[own].active
                                /\ \A c \in pricing'[x].found : c < own
    BY <1>2, <1>5, <1>6 DEF RequestsOwn
  <2>1. CASE x = o
    BY <1>2, <1>3, <2>1 DEF RatesInv, RequestsOwn, Current
  <2>2. CASE x # o
    BY <1>2, <2>2 DEF RatesInv, RequestsOwn
  <2> QED
    BY <2>1, <2>2
<1>9. NewestIsActive'
  BY <1>2, <1>5 DEF RatesInv, NewestIsActive
<1>10. OneAtATime'
  BY <1>2, <1>3, <1>4, <1>5 DEF RatesInv, OneAtATime
<1> QED
  BY <1>7, <1>8, <1>9, <1>10 DEF RatesInv

(* The flush of its INSERT.                                                 *)
LEMMA FlushCardStep ==
    ASSUME RatesInv, NEW o \in Operators, FlushCard(o)
    PROVE  RatesInv'
<1> DEFINE r == pricing[o]
<1> DEFINE own == inserted + 1
<1> DEFINE row == [scope |-> r.scope, price |-> r.price, active |-> TRUE, owner |-> o]
<1>1. r \in Pricings /\ r # NoRequest /\ ~r.flushed /\ own \in 1 .. MaxCards
  BY RateCardsAssumption DEF FlushCard, RatesInv, RatesTypeOK
<1>2. /\ inserted' = own /\ platform' = platform /\ crossed' = crossed
      /\ DOMAIN cards' = DOMAIN cards \cup {own} /\ own \notin DOMAIN cards
      /\ cards'[own] = row /\ \A c \in DOMAIN cards : cards'[c] = cards[c]
  BY CardNumbers DEF FlushCard, RatesInv
<1>3. row \in CardRows /\ row.scope = r.scope /\ row.active /\ row.owner = o /\ o # NoRequest
  BY <1>1, RateCardsAssumption DEF CardRows, Pricings
<1>4. /\ pricing' = [pricing EXCEPT ![o].flushed = TRUE]
      /\ [r EXCEPT !.flushed = TRUE] \in Pricings
      /\ \A x \in Operators \ {o} : pricing'[x] = pricing[x]
      /\ pricing'[o] \in Pricings /\ pricing'[o].flushed
      /\ pricing'[o].found = r.found /\ pricing'[o].scope = r.scope
      /\ pricing' \in [Operators -> Pricings \cup {NoRequest}]
  BY <1>1 DEF FlushCard, RatesInv, RatesTypeOK, Pricings
<1>5. \A x \in Operators : pricing'[x] # NoRequest <=> pricing[x] # NoRequest
  BY <1>1, <1>4, RateCardsAssumption
<1> HIDE DEF row, own, r
<1>6. \A t : Priced(t)' = Priced(t) /\ Current(t)' = Current(t)
  BY <1>2, <1>3 DEF Priced, Current
<1>7. OwnedBy(o)' = OwnedBy(o) \cup {own} /\ \A x \in Operators \ {o} : OwnedBy(x)' = OwnedBy(x)
  BY <1>2, <1>3 DEF OwnedBy
<1>8. RatesTypeOK'
  <2>1. inserted' \in 0 .. MaxCards /\ DOMAIN cards' \subseteq 1 .. inserted'
    BY <1>1, <1>2, CardNumbers DEF own, RatesInv, RatesTypeOK
  <2> QED
    BY <1>2, <1>3, <1>4, <2>1 DEF RatesInv, RatesTypeOK
<1>9. RequestsOwn'
  <2> SUFFICES ASSUME NEW x \in Operators
               PROVE  (/\ pricing[x] = NoRequest \/ ~pricing[x].flushed => OwnedBy(x) = {}
                       /\ pricing[x] # NoRequest =>
                          /\ pricing[x].found \subseteq Priced(pricing[x].scope)
                          /\ pricing[x].flushed => \E card \in DOMAIN cards :
                                /\ OwnedBy(x) = {card}
                                /\ cards[card].scope = pricing[x].scope
                                /\ cards[card].active
                                /\ \A c \in pricing[x].found : c < card)'
    BY DEF RequestsOwn
  <2>1. CASE x = o
    <3>1. OwnedBy(o) = {} /\ r.found \subseteq Priced(r.scope)
      BY <1>1 DEF RatesInv, RequestsOwn, r
    <3>2. \A c \in r.found : c < own
      BY <3>1, CardNumbers DEF RatesInv, Priced, own, RatesTypeOK
    <3>3. own \in DOMAIN cards' /\ OwnedBy(o)' = {own} /\ cards'[own].scope = r.scope
          /\ cards'[own].active
      BY <1>2, <1>3, <1>7, <3>1
    <3> QED
      BY <1>4, <1>5, <1>6, <2>1, <3>1, <3>2, <3>3, RateCardsAssumption
  <2>2. CASE x # o
    <3>1. pricing'[x] = pricing[x] /\ OwnedBy(x)' = OwnedBy(x)
      BY <1>4, <1>7, <2>2
    <3> QED
      BY <1>2, <1>6, <3>1 DEF RatesInv, RequestsOwn
  <2> QED
    BY <2>1, <2>2
<1>10. NewestIsActive'
  BY <1>2, <1>6 DEF RatesInv, NewestIsActive, Priced
<1>11. OneAtATime'
  <2>1. \A x \in Operators : pricing'[x] # NoRequest =>
          pricing'[x].scope = pricing[x].scope /\ pricing'[x].found = pricing[x].found
    BY <1>4 DEF r
  <2> QED
    BY <1>2, <1>5, <1>6, <2>1 DEF RatesInv, OneAtATime
<1> QED
  BY <1>8, <1>9, <1>10, <1>11 DEF RatesInv

(* Its commit: the own card takes the place of those found.                 *)
LEMMA CommitCardStep ==
    ASSUME RatesInv, NEW o \in Operators, CommitCard(o)
    PROVE  RatesInv'
<1> PICK r : r = pricing[o]
  OBVIOUS
<1>1. /\ r \in Pricings /\ r # NoRequest /\ r.flushed /\ r.scope \in Scopes
      /\ r.found \subseteq Priced(r.scope)
  BY DEF CommitCard, RatesInv, RatesTypeOK, RequestsOwn, Pricings
<1>2. PICK own \in DOMAIN cards :
          /\ OwnedBy(o) = {own} /\ cards[own].scope = r.scope /\ cards[own].active
          /\ \A c \in r.found : c < own
  BY <1>1 DEF RatesInv, RequestsOwn
<1>3. /\ platform' = platform /\ inserted' = inserted /\ crossed' = crossed
      /\ pricing' = [pricing EXCEPT ![o] = NoRequest]
  BY DEF CommitCard
<1>4. /\ DOMAIN cards' = DOMAIN cards
      /\ \A c \in DOMAIN cards : cards'[c] =
            IF c \in r.found THEN [cards[c] EXCEPT !.active = FALSE]
            ELSE IF cards[c].owner = o THEN [cards[c] EXCEPT !.owner = NoRequest]
            ELSE cards[c]
  BY DEF CommitCard, Deactivated
<1>5. \A x \in Operators : pricing'[x] = IF x = o THEN NoRequest ELSE pricing[x]
  BY <1>3 DEF RatesInv, RatesTypeOK
<1>6. \A c \in DOMAIN cards : cards[c] \in CardRows
  BY DEF RatesInv, RatesTypeOK
(* What becomes of the rows. *)
<1>7. own \notin r.found /\ o # NoRequest
  BY <1>1, <1>2, CardNumbers, RateCardsAssumption DEF Priced, RatesInv
<1>8. \A c \in DOMAIN cards : cards'[c] \in CardRows /\ cards'[c].scope = cards[c].scope
  <2>1. \A row \in CardRows :
           /\ [row EXCEPT !.active = FALSE] \in CardRows
           /\ [row EXCEPT !.active = FALSE].scope = row.scope
           /\ [row EXCEPT !.owner = NoRequest] \in CardRows
           /\ [row EXCEPT !.owner = NoRequest].scope = row.scope
    BY DEF CardRows
  <2> QED
    BY <1>4, <1>6, <2>1
<1>9. cards'[own].owner = NoRequest /\ cards'[own].active /\ cards'[own].scope = r.scope
  BY <1>2, <1>4, <1>6, <1>7 DEF CardRows, OwnedBy
<1>10. \A c \in r.found : c \in DOMAIN cards /\ cards'[c].owner = NoRequest /\ ~cards'[c].active
                        /\ cards[c].owner = NoRequest /\ cards[c].scope = r.scope
  <2> SUFFICES ASSUME NEW c \in r.found
               PROVE  /\ c \in DOMAIN cards /\ cards'[c].owner = NoRequest /\ ~cards'[c].active
                      /\ cards[c].owner = NoRequest /\ cards[c].scope = r.scope
    OBVIOUS
  <2>1. c \in DOMAIN cards /\ cards[c].owner = NoRequest /\ cards[c].scope = r.scope
    BY <1>1 DEF Priced
  <2>2. cards[c] \in CardRows /\ cards'[c] = [cards[c] EXCEPT !.active = FALSE]
    BY <1>4, <1>6, <2>1
  <2> QED
    BY <2>1, <2>2 DEF CardRows
<1>11. \A c \in DOMAIN cards \ (r.found \cup {own}) : cards'[c] = cards[c] /\ cards[c].owner # o
  BY <1>2, <1>4 DEF OwnedBy
<1>12. \A t : Priced(t)' = IF t = r.scope THEN Priced(t) \cup {own} ELSE Priced(t)
  BY <1>2, <1>4, <1>7, <1>8, <1>9, <1>10, <1>11 DEF Priced
<1>13. /\ Current(r.scope)' = (Current(r.scope) \ r.found) \cup {own}
       /\ \A t : t # r.scope => Current(t)' = Current(t)
  BY <1>2, <1>8, <1>9, <1>10, <1>11, <1>12 DEF Current, Priced
<1>14. OwnedBy(o)' = {} /\ \A x \in Operators \ {o} : OwnedBy(x)' = OwnedBy(x)
  BY <1>2, <1>4, <1>7, <1>9, <1>10, <1>11, RateCardsAssumption DEF OwnedBy
(* What becomes of the invariant. *)
<1>15. RatesTypeOK'
  <2>1. pricing' \in [Operators -> Pricings \cup {NoRequest}]
    BY <1>3 DEF RatesInv, RatesTypeOK
  <2> QED
    BY <1>3, <1>4, <1>8, <2>1 DEF RatesInv, RatesTypeOK
<1>16. RequestsOwn'
  <2>1. ASSUME NEW x \in Operators \ {o}, pricing[x] # NoRequest, pricing[x].flushed
        PROVE  \E card \in DOMAIN cards' :
                  /\ OwnedBy(x)' = {card}
                  /\ cards'[card].scope = pricing[x].scope
                  /\ cards'[card].active
                  /\ \A c \in pricing[x].found : c < card
    <3>1. PICK card \in DOMAIN cards :
              /\ OwnedBy(x) = {card} /\ cards[card].scope = pricing[x].scope
              /\ cards[card].active /\ \A c \in pricing[x].found : c < card
      BY <2>1 DEF RatesInv, RequestsOwn
    <3>2. card \notin r.found \cup {own}
      BY <1>2, <1>10, <3>1, RateCardsAssumption DEF OwnedBy
    <3> QED
      BY <1>4, <1>11, <1>14, <3>1, <3>2
  <2>2. ASSUME NEW x \in Operators \ {o}, pricing[x] # NoRequest
        PROVE  pricing[x].found \subseteq Priced(pricing[x].scope)'
    BY <1>5, <1>12, <2>2 DEF RatesInv, RequestsOwn
  <2>3. ASSUME NEW x \in Operators \ {o}, pricing[x] = NoRequest \/ ~pricing[x].flushed
        PROVE  OwnedBy(x)' = {}
    BY <1>14, <2>3 DEF RatesInv, RequestsOwn
  <2> QED
    BY <1>5, <1>14, <2>1, <2>2, <2>3 DEF RequestsOwn
<1>17. NewestIsActive'
  <2> SUFFICES ASSUME NEW t \in Scopes, NEW c \in Priced(t)', \A d \in Priced(t)' : d <= c
               PROVE  cards'[c].active
    BY DEF NewestIsActive
  <2>1. CASE c = own
    BY <1>9, <2>1
  <2>2. CASE c # own
    <3>1. c \in Priced(t) /\ \A d \in Priced(t) : d <= c
      BY <1>12, <2>2
    <3>2. cards[c].active
      BY <3>1 DEF RatesInv, NewestIsActive
    <3>3. c \notin r.found
      <4>1. CASE t = r.scope
        <5>1. own <= c
          BY <1>12, <4>1
        <5>2. own \in Nat /\ c \in Nat
          BY <3>1, CardNumbers DEF Priced, RatesInv
        <5> QED
          BY <1>2, <5>1, <5>2
      <4>2. CASE t # r.scope
        BY <1>10, <3>1, <4>2 DEF Priced
      <4> QED
        BY <4>1, <4>2
    <3> QED
      BY <1>11, <2>2, <3>1, <3>2, <3>3 DEF Priced
  <2> QED
    BY <2>1, <2>2
<1>18. OneAtATime'
  <2> SUFFICES ASSUME ~crossed
               PROVE  /\ \A x \in Operators : pricing'[x] = NoRequest
                      /\ \A t \in Scopes : \A c, d \in Current(t)' : c = d
    BY <1>3 DEF OneAtATime
  <2>1. \A x \in Operators : pricing[x] # NoRequest => x = o
    BY <1>1 DEF RatesInv, OneAtATime
  <2>2. Current(r.scope) = r.found
    BY <1>1 DEF RatesInv, OneAtATime
  <2> QED
    BY <1>5, <1>13, <2>1, <2>2 DEF RatesInv, OneAtATime
<1> QED
  BY <1>15, <1>16, <1>17, <1>18 DEF RatesInv

(* Its failure: its card is gone, and nothing else has changed.             *)
LEMMA AbandonCardStep ==
    ASSUME RatesInv, NEW o \in Operators, AbandonCard(o)
    PROVE  RatesInv'
<1>1. /\ platform' = platform /\ inserted' = inserted /\ crossed' = crossed
      /\ pricing' = [pricing EXCEPT ![o] = NoRequest]
      /\ DOMAIN cards' = {c \in DOMAIN cards : cards[c].owner # o}
      /\ \A c \in DOMAIN cards' : cards'[c] = cards[c]
      /\ o # NoRequest
  BY RateCardsAssumption DEF AbandonCard
<1>2. \A x \in Operators : pricing'[x] = IF x = o THEN NoRequest ELSE pricing[x]
  BY <1>1 DEF RatesInv, RatesTypeOK
<1>3. \A t : Priced(t)' = Priced(t) /\ Current(t)' = Current(t)
  BY <1>1 DEF Priced, Current
<1>4. OwnedBy(o)' = {} /\ \A x \in Operators \ {o} : OwnedBy(x)' = OwnedBy(x)
  BY <1>1 DEF OwnedBy
<1>5. RatesTypeOK'
  <2>1. pricing' \in [Operators -> Pricings \cup {NoRequest}]
    BY <1>1 DEF RatesInv, RatesTypeOK
  <2> QED
    BY <1>1, <2>1 DEF RatesInv, RatesTypeOK
<1>6. RequestsOwn'
  <2> SUFFICES ASSUME NEW x \in Operators \ {o}
               PROVE  (/\ pricing[x] = NoRequest \/ ~pricing[x].flushed => OwnedBy(x) = {}
                       /\ pricing[x] # NoRequest =>
                          /\ pricing[x].found \subseteq Priced(pricing[x].scope)
                          /\ pricing[x].flushed => \E card \in DOMAIN cards :
                                /\ OwnedBy(x) = {card}
                                /\ cards[card].scope = pricing[x].scope
                                /\ cards[card].active
                                /\ \A c \in pricing[x].found : c < card)'
    BY <1>2, <1>4 DEF RequestsOwn
  <2>1. pricing'[x] = pricing[x] /\ OwnedBy(x)' = OwnedBy(x)
    BY <1>2, <1>4
  <2>2. ASSUME NEW card \in DOMAIN cards, OwnedBy(x) = {card}
        PROVE  card \in DOMAIN cards' /\ cards'[card] = cards[card]
    BY <1>1, <2>2 DEF OwnedBy
  <2> QED
    BY <1>3, <2>1, <2>2 DEF RatesInv, RequestsOwn
<1>7. NewestIsActive'
  BY <1>1, <1>3 DEF RatesInv, NewestIsActive, Priced
<1>8. OneAtATime'
  BY <1>1, <1>2, <1>3 DEF RatesInv, OneAtATime
<1> QED
  BY <1>5, <1>6, <1>7, <1>8 DEF RatesInv

(* The inductive invariant holds of every reachable state.                  *)
THEOREM RatesInvariant == RatesSpec => []RatesInv
<1>1. RatesInit => RatesInv
  <2> SUFFICES ASSUME RatesInit PROVE RatesInv
    OBVIOUS
  <2>1. DOMAIN cards = {} /\ \A o \in Operators : pricing[o] = NoRequest
    BY DEF RatesInit
  <2>2. RatesTypeOK
    <3>1. inserted = 0 /\ MaxCards \in Nat
      BY RateCardsAssumption DEF RatesInit
    <3>2. pricing \in [Operators -> Pricings \cup {NoRequest}]
      BY DEF RatesInit
    <3>3. platform \in PlatformPrices \cup {NoRequest} /\ crossed \in BOOLEAN
      BY DEF RatesInit
    <3> QED
      BY <2>1, <3>1, <3>2, <3>3 DEF RatesTypeOK
  <2>3. \A t : Priced(t) = {} /\ Current(t) = {} /\ OwnedBy(t) = {}
    BY <2>1 DEF Priced, Current, OwnedBy
  <2> QED
    BY <2>1, <2>2, <2>3 DEF RatesInv, RequestsOwn, NewestIsActive, OneAtATime
<1>2. RatesInv /\ [RatesNext]_rateVars => RatesInv'
  <2> SUFFICES ASSUME RatesInv, [RatesNext]_rateVars PROVE RatesInv'
    OBVIOUS
  <2>1. CASE RatesNext
    BY <2>1, FindCardsStep, FlushCardStep, CommitCardStep, AbandonCardStep DEF RatesNext
  <2>2. CASE UNCHANGED rateVars
    BY <2>2 DEF rateVars, RatesInv, RatesTypeOK, RequestsOwn, NewestIsActive, OneAtATime, Priced,
        Current, OwnedBy
  <2> QED
    BY <2>1, <2>2
<1> QED
  BY <1>1, <1>2, PTL DEF RatesSpec

(* Every reachable state of RateCards is well typed.                        *)
THEOREM RatesTypes == RatesSpec => []RatesTypeOK
<1>1. RatesInv => RatesTypeOK
  BY DEF RatesInv
<1> QED
  BY <1>1, RatesInvariant, PTL

(* QM B1: however requests to price a task type overlap, wait, fail or      *)
(* commit in another order than they inserted, a record is priced by the    *)
(* newest committed card of its scope; and apart from overlap there is no   *)
(* other active one.                                                        *)
THEOREM NewestCardPrices == RatesSpec => []NewestCardWins
<1>1. ASSUME RatesInv, NEW s \in Scopes, Priced(s) # {}
      PROVE  UnitPrice(s) = cards[Max(Priced(s))].price
  <2>1. Priced(s) \in SUBSET (0 .. MaxCards)
    BY <1>1, CardNumbers DEF RatesInv, Priced
  <2>2. MaxCards \in Nat
    BY RateCardsAssumption
  <2>3. Max(Priced(s)) \in Priced(s) /\ \A c \in Priced(s) : c <= Max(Priced(s))
    BY <1>1, <2>1, <2>2, MaxOfNumbers
  <2>4. Max(Priced(s)) \in Current(s)
    BY <1>1, <2>3 DEF RatesInv, NewestIsActive, Current
  <2>5. Current(s) \in SUBSET Priced(s)
    BY DEF Current
  <2>6. Max(Current(s)) = Max(Priced(s))
    BY <1>1, <2>1, <2>2, <2>4, <2>5, MaxOfPart
  <2> QED
    BY <2>4, <2>6 DEF UnitPrice
<1>2. ASSUME RatesInv, NEW s \in Scopes, Priced(s) = {}
      PROVE  UnitPrice(s) \in PlatformPrices \cup {DefaultPrice}
  BY <1>2 DEF UnitPrice, Current, RatesInv, RatesTypeOK
<1>3. ASSUME RatesInv, NEW s \in Scopes, ~crossed
      PROVE  Cardinality(Current(s)) <= 1
  <2>1. \A c, d \in Current(s) : c = d
    BY <1>3 DEF RatesInv, OneAtATime
  <2>2. CASE Current(s) = {}
    BY <2>2, FS_EmptySet
  <2>3. CASE Current(s) # {}
    <3> PICK c : Current(s) = {c}
      BY <2>1, <2>3
    <3> QED
      BY FS_Singleton
  <2> QED
    BY <2>2, <2>3
<1>4. RatesInv => NewestCardWins
  BY <1>1, <1>2, <1>3 DEF NewestCardWins
<1> QED
  BY <1>4, RatesInvariant, PTL

-----------------------------------------------------------------------------
(* The two together, as MCBilling runs them. *)

(***************************************************************************)
(* What the run explores is a behaviour of Billing and one of RateCards,   *)
(* so the theorems about both hold of it.                                  *)
(***************************************************************************)
THEOREM Together == MCSpec => Spec /\ RatesSpec
<1>1. MCInit => Init /\ RatesInit
  BY DEF MCInit
<1>2. [MCNext]_<<vars, rateVars>> => [Next]_vars /\ [RatesNext]_rateVars
  BY DEF MCNext
<1> QED
  BY <1>1, <1>2, PTL DEF MCSpec, Spec, RatesSpec

(***************************************************************************)
(* MCTypeOK: an invoice_id names a committed invoice, and every rate card  *)
(* has a number of its own, given once.                                    *)
(***************************************************************************)
THEOREM TogetherTypes == MCSpec => []MCTypeOK
<1>1. TypeOK /\ RatesTypeOK => MCTypeOK
  BY DEF MCTypeOK
<1> QED
  BY <1>1, Together, BillingTypes, RatesTypes, PTL
=============================================================================
