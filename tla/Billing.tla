------------------------------- MODULE Billing -------------------------------
(***************************************************************************)
(* Invoicing, payment and reconciliation: billing/service.py on top of     *)
(* billing/stripe_gateway.py.  Workflow and Sessions meter the usage; here *)
(* an operator rolls it into invoices, and payment arrives by the firm's   *)
(* own process, by a Checkout session or by a Stripe invoice.              *)
(*                                                                         *)
(* A handler reads, calls Stripe and writes in one transaction (READ       *)
(* COMMITTED), without a lock before its first write; what Stripe was told *)
(* stays told when the transaction fails.  An event is delivered any       *)
(* number of times, in any order.  Invoice numbers keep their count and    *)
(* drop the month; a committed invoice is known by its number.             *)
(***************************************************************************)
EXTENDS Integers, Sequences, FiniteSetsExt

CONSTANTS
    Firms,
    Mode,           \* billing mode of each firm, chosen when it is created
    FirmOf,         \* whose usage each usage event is, in order of creation
    Amount,         \* its price in cents
    Handlers,       \* requests that can be served at once
    MaxPushes,      \* bound: invoices created at Stripe
    MaxSessions     \* bound: Checkout sessions created

MaxUsage == Len(FirmOf)     \* bound: usage events, and so invoices

ASSUME BillingAssumption ==
    /\ Mode \in [Firms -> {"external", "stripe"}]
    /\ FirmOf \in Seq(Firms)
    /\ Amount \in [1 .. MaxUsage -> Nat \ {0}]
    /\ MaxPushes \in Nat
    /\ MaxSessions \in Nat

VARIABLES
    usage,          \* invoice_id of each usage event: a number, 0 for NULL
    invoices,       \* committed invoices, by number
    stripeInvoices, \* Stripe's own invoices: their status
    sessions,       \* Stripe's Checkout sessions
    job             \* the transaction of each handler

vars == <<usage, invoices, stripeInvoices, sessions, job>>

NoReference == <<>>
References == {NoReference, <<"ap">>} \cup ({"checkout"} \X (1 .. MaxSessions))
InvoiceStatuses == {"draft", "issued_external", "open", "paid", "void"}

(* stripe and session are 0 for NULL. *)
InvoiceRows ==
    [firm : Firms, lines : SUBSET (1 .. MaxUsage), status : InvoiceStatuses,
     stripe : 0 .. MaxPushes, session : 0 .. MaxSessions, reference : References]

Idle == [at |-> "idle"]
Generating ==
    [at : {"swept", "numbered", "inserted", "pushed"}, firm : Firms,
     events : SUBSET (1 .. MaxUsage), number : 0 .. MaxUsage, stripe : 0 .. MaxPushes]
Settling ==
    [at : {"settling"}, invoice : 1 .. MaxUsage, status : {"paid", "void", "unchanged"},
     reference : References]
Linking == [at : {"linking"}, invoice : 1 .. MaxUsage, session : 1 .. MaxSessions]

(* In particular an invoice_id names a committed invoice. *)
TypeOK ==
    /\ usage \in Seq(0 .. MaxUsage) /\ Len(usage) <= MaxUsage
    /\ invoices \in Seq(InvoiceRows) /\ Len(invoices) <= MaxUsage
    /\ \A e \in DOMAIN usage : usage[e] \in {0} \cup DOMAIN invoices
    /\ stripeInvoices \in Seq({"open", "paid", "void"}) /\ Len(stripeInvoices) <= MaxPushes
    /\ sessions \in Seq([invoice : DOMAIN invoices, done : BOOLEAN])
    /\ Len(sessions) <= MaxSessions
    /\ job \in [Handlers -> {Idle} \cup Generating \cup Settling \cup Linking]

Init ==
    /\ usage = <<>>
    /\ invoices = <<>>
    /\ stripeInvoices = <<>>
    /\ sessions = <<>>
    /\ job = [h \in Handlers |-> Idle]

(* record_approved_record, for the next task approved. *)
Meter ==
    /\ Len(usage) < MaxUsage
    /\ usage' = Append(usage, 0)
    /\ UNCHANGED <<invoices, stripeInvoices, sessions, job>>

-----------------------------------------------------------------------------
(* POST /firms/{id}/invoices: generate_invoice. *)

(* The uninvoiced usage of firm f created in a period. *)
Uninvoiced(f, period) ==
    {e \in DOMAIN usage : FirmOf[e] = f /\ usage[e] = 0 /\ e \in period}

Sweep(h, f, from, to) ==
    LET events == Uninvoiced(f, from .. to)
    IN  /\ job[h] = Idle
        /\ events # {}
        /\ job' = [job EXCEPT ![h] = [at |-> "swept", firm |-> f, events |-> events,
                                      number |-> 0, stripe |-> 0]]
        /\ UNCHANGED <<usage, invoices, stripeInvoices, sessions>>

NextInvoiceNumber(h) ==
    /\ job[h].at = "swept"
    /\ Len(invoices) < MaxUsage
    /\ job' = [job EXCEPT ![h].at = "numbered", ![h].number = Len(invoices) + 1]
    /\ UNCHANGED <<usage, invoices, stripeInvoices, sessions>>

HasInserted(h) == job[h].at \in {"inserted", "pushed"}

(* The number is unique: the INSERT fails (Fail) if it is committed, and    *)
(* waits while another transaction holds it.                                *)
InsertInvoice(h) ==
    /\ job[h].at = "numbered"
    /\ job[h].number \notin DOMAIN invoices
    /\ \A g \in Handlers : HasInserted(g) => job[g].number # job[h].number
    /\ job' = [job EXCEPT ![h].at = "inserted"]
    /\ UNCHANGED <<usage, invoices, stripeInvoices, sessions>>

PushInvoice(h) ==
    /\ job[h].at = "inserted"
    /\ Mode[job[h].firm] = "stripe"
    /\ Len(stripeInvoices) < MaxPushes
    /\ stripeInvoices' = Append(stripeInvoices, "open")
    /\ job' = [job EXCEPT ![h].at = "pushed", ![h].stripe = Len(stripeInvoices) + 1]
    /\ UNCHANGED <<usage, invoices, sessions>>

(* Faulty variant: one UPDATE for the firm's usage WHERE invoice_id IS NULL. *)
Attached_WhateverIsFree(events, number) ==
    [e \in DOMAIN usage |->
        IF usage[e] = 0 /\ FirmOf[e] \in {FirmOf[x] : x \in events} THEN number ELSE usage[e]]

(* The UPDATE of an event names its id alone: it overwrites an invoice_id   *)
(* committed since the sweep.                                               *)
Attached(events, number) ==
    [e \in DOMAIN usage |-> IF e \in events THEN number ELSE usage[e]]

CommitInvoice(h) ==
    LET j == job[h]
        stripe == Mode[j.firm] = "stripe"
    IN  /\ HasInserted(h)
        /\ stripe <=> j.at = "pushed"
        /\ usage' = Attached(j.events, j.number)
        /\ invoices' = Append(invoices,
               [firm |-> j.firm, lines |-> j.events,
                status |-> IF stripe THEN "open" ELSE "issued_external",
                stripe |-> j.stripe, session |-> 0, reference |-> NoReference])
        /\ job' = [job EXCEPT ![h] = Idle]
        /\ UNCHANGED <<stripeInvoices, sessions>>

(* Faulty variant: the usage is attached in a transaction of its own. *)
Fail_KeepsAttachment(h) ==
    /\ job[h] # Idle
    /\ usage' = IF HasInserted(h) THEN Attached(job[h].events, job[h].number) ELSE usage
    /\ job' = [job EXCEPT ![h] = Idle]
    /\ UNCHANGED <<invoices, stripeInvoices, sessions>>

(* A refused INSERT, an error of Stripe, a lost connection, a crash. *)
Fail(h) ==
    /\ job[h] # Idle
    /\ job' = [job EXCEPT ![h] = Idle]
    /\ UNCHANGED <<usage, invoices, stripeInvoices, sessions>>

-----------------------------------------------------------------------------
(* What changes the status of an invoice: it is read, then written.  The    *)
(* UPDATE writes the columns alone whose value differs from the one read.   *)

Settle(h, i, status, reference) ==
    /\ job[h] = Idle
    /\ job' = [job EXCEPT ![h] =
           [at |-> "settling", invoice |-> i, reference |-> reference,
            status |-> IF status = invoices[i].status THEN "unchanged" ELSE status]]
    /\ UNCHANGED <<usage, invoices, stripeInvoices, sessions>>

CommitStatus(h) ==
    LET j == job[h]
    IN  /\ j.at = "settling"
        /\ invoices' = [invoices EXCEPT
               ![j.invoice].status = IF j.status = "unchanged" THEN @ ELSE j.status,
               ![j.invoice].reference = IF j.reference = NoReference THEN @ ELSE j.reference]
        /\ job' = [job EXCEPT ![h] = Idle]
        /\ UNCHANGED <<usage, stripeInvoices, sessions>>

ModeOf(i) == Mode[invoices[i].firm]

PayableStatuses == {"issued_external", "open"}

(* Faulty variant: any payable invoice, the firm's mode is not asked. *)
RecordExternalPayment_AnyMode(h, i) ==
    /\ invoices[i].status \in PayableStatuses
    /\ Settle(h, i, "paid", <<"ap">>)

(* POST /invoices/{id}/external-payment: record_external_payment. *)
RecordExternalPayment(h, i) ==
    /\ ModeOf(i) = "external"
    /\ invoices[i].status \in {"issued_external", "draft"}
    /\ Settle(h, i, "paid", <<"ap">>)

(* POST /billing/stripe/webhook: handle_stripe_event.  The invoice of a     *)
(* completed session is the one its metadata names.                         *)
SessionInvoice(s) == sessions[s].invoice

CheckoutReference(i, s) ==
    IF ModeOf(i) = "external" THEN <<"checkout", s>> ELSE NoReference

(* Faulty variant: a replayed completion is applied again. *)
CheckoutCompleted_Replayed(h, s) ==
    LET i == SessionInvoice(s)
    IN  /\ sessions[s].done
        /\ Settle(h, i, "paid", CheckoutReference(i, s))

(* Faulty variant: the invoice is found by the session id in its row. *)
CheckoutCompleted_BySessionId(h, s) ==
    LET i == SessionInvoice(s)
    IN  /\ sessions[s].done
        /\ invoices[i].session = s
        /\ invoices[i].status # "paid"
        /\ Settle(h, i, "paid", CheckoutReference(i, s))

CheckoutCompleted(h, s) ==
    LET i == SessionInvoice(s)
    IN  /\ sessions[s].done
        /\ invoices[i].status # "paid"
        /\ Settle(h, i, "paid", CheckoutReference(i, s))

(* Events of an unknown Stripe invoice, and of other types, are ignored. *)
InvoicePaid(h, i) ==
    /\ invoices[i].stripe # 0
    /\ stripeInvoices[invoices[i].stripe] = "paid"
    /\ Settle(h, i, "paid", NoReference)

InvoiceVoided(h, i) ==
    /\ invoices[i].stripe # 0
    /\ stripeInvoices[invoices[i].stripe] = "void"
    /\ Settle(h, i, "void", NoReference)

-----------------------------------------------------------------------------
(* POST /invoices/{id}/checkout: create_checkout.  The session exists at    *)
(* Stripe before the row names it.                                          *)

CreateCheckout(h, i) ==
    /\ job[h] = Idle
    /\ invoices[i].status \in PayableStatuses
    /\ Len(sessions) < MaxSessions
    /\ sessions' = Append(sessions, [invoice |-> i, done |-> FALSE])
    /\ job' = [job EXCEPT ![h] = [at |-> "linking", invoice |-> i,
                                  session |-> Len(sessions) + 1]]
    /\ UNCHANGED <<usage, invoices, stripeInvoices>>

CommitCheckout(h) ==
    /\ job[h].at = "linking"
    /\ invoices' = [invoices EXCEPT ![job[h].invoice].session = job[h].session]
    /\ job' = [job EXCEPT ![h] = Idle]
    /\ UNCHANGED <<usage, stripeInvoices, sessions>>

-----------------------------------------------------------------------------
(* The customer pays at Stripe; a Stripe invoice is paid or voided once. *)

CompleteSession(s) ==
    /\ ~sessions[s].done
    /\ sessions' = [sessions EXCEPT ![s].done = TRUE]
    /\ UNCHANGED <<usage, invoices, stripeInvoices, job>>

CloseStripeInvoice(k, status) ==
    /\ stripeInvoices[k] = "open"
    /\ stripeInvoices' = [stripeInvoices EXCEPT ![k] = status]
    /\ UNCHANGED <<usage, invoices, sessions, job>>

Proceed(h) ==
    \/ NextInvoiceNumber(h) \/ InsertInvoice(h) \/ PushInvoice(h) \/ CommitInvoice(h)
    \/ CommitStatus(h) \/ CommitCheckout(h) \/ Fail(h)

Next ==
    \/ Meter
    \/ \E h \in Handlers :
        \/ \E f \in Firms : \E from, to \in 1 .. MaxUsage : Sweep(h, f, from, to)
        \/ Proceed(h)
        \/ \E i \in DOMAIN invoices :
            \/ RecordExternalPayment(h, i)
            \/ CreateCheckout(h, i)
            \/ InvoicePaid(h, i)
            \/ InvoiceVoided(h, i)
        \/ \E s \in DOMAIN sessions : CheckoutCompleted(h, s)
    \/ \E s \in DOMAIN sessions : CompleteSession(s)
    \/ \E k \in DOMAIN stripeInvoices, status \in {"paid", "void"} :
        CloseStripeInvoice(k, status)

Spec == Init /\ [][Next]_vars

(* A request ends.  Stripe delivers a completed session again until it is   *)
(* answered, and not every transaction that would mark an invoice paid      *)
(* fails.                                                                   *)
CommitPaid(h, i) ==
    /\ job[h].at = "settling" /\ job[h].invoice = i /\ job[h].status = "paid"
    /\ CommitStatus(h)

Deliver(s) == \E h \in Handlers : s \in DOMAIN sessions /\ CheckoutCompleted(h, s)

Fairness ==
    /\ \A h \in Handlers : WF_vars(Proceed(h))
    /\ \A i \in 1 .. MaxUsage : SF_vars(\E h \in Handlers : CommitPaid(h, i))
    /\ \A s \in 1 .. MaxSessions : SF_vars(Deliver(s))

LiveSpec == Spec /\ Fairness

-----------------------------------------------------------------------------
(* GET /firms/{id}/reconciliation: reconciliation_report, without a window. *)

Cents(events) == MapThenSumSet(LAMBDA e : Amount[e], events)
UsageOf(f) == {e \in DOMAIN usage : FirmOf[e] = f}
InvoicesOf(f) == {i \in DOMAIN invoices : invoices[i].firm = f}
Subtotal(i) == Cents(invoices[i].lines)

MeteredInvoiced(f) == Cents({e \in UsageOf(f) : usage[e] # 0})
MeteredUninvoiced(f) == Cents(UsageOf(f)) - MeteredInvoiced(f)
(* Faulty variant: what was voided counts as issued. *)
Issued_WithVoid(f) == MapThenSumSet(Subtotal, InvoicesOf(f))

Issued(f) == MapThenSumSet(Subtotal, {i \in InvoicesOf(f) : invoices[i].status # "void"})

Clean(f) == MeteredUninvoiced(f) = 0 /\ MeteredInvoiced(f) = Issued(f)

-----------------------------------------------------------------------------
(* What must hold. *)

(***************************************************************************)
(* QM B2: what an invoice charges is the usage attached to it, all of it   *)
(* and nothing else.  As its lines never change, no usage ever leaves an   *)
(* invoice again, whatever fails, is voided or is retried.  For            *)
(* generations that do not overlap.                                        *)
(***************************************************************************)
InvoiceMatchesUsage ==
    \A i \in DOMAIN invoices :
        /\ invoices[i].lines = {e \in DOMAIN usage : usage[e] = i}
        /\ \A e \in invoices[i].lines : FirmOf[e] = invoices[i].firm

(***************************************************************************)
(* QM B6: leakage surfaces as `clean` FALSE.  The sums never cancel out: a *)
(* firm's ledger is clean exactly when all its usage is on invoices that   *)
(* are not void.  For generations that do not overlap.                     *)
(***************************************************************************)
CleanMeansTied ==
    \A f \in Firms :
        Clean(f) <=> \A e \in UsageOf(f) : usage[e] # 0 /\ invoices[usage[e]].status # "void"

Settled(i) ==
    \/ ModeOf(i) = "external" /\ invoices[i].reference = <<"ap">>
    \/ \E s \in DOMAIN sessions : sessions[s].invoice = i /\ sessions[s].done
    \/ invoices[i].stripe # 0 /\ stripeInvoices[invoices[i].stripe] = "paid"

(***************************************************************************)
(* QM B3, B5: an invoice is paid only when its own money is known to have  *)
(* moved: at Stripe, or - for a firm billed outside - by a recorded        *)
(* reference.  An orphaned Stripe invoice pays for nothing.                *)
(***************************************************************************)
PaidOnEvidence == \A i \in DOMAIN invoices : invoices[i].status = "paid" => Settled(i)

(***************************************************************************)
(* QM B5, idempotent under replay: the record of how a firm billed outside *)
(* has paid is final; neither a second payment nor a repeated or late      *)
(* event changes it.  For requests that do not overlap.                    *)
(***************************************************************************)
PaidReferenceIsFinal ==
    [][\A i \in DOMAIN invoices :
          ModeOf(i) = "external" /\ invoices[i].status = "paid" =>
              /\ invoices'[i].status = "paid"
              /\ invoices'[i].reference = invoices[i].reference]_vars

(***************************************************************************)
(* A completed Checkout session ends in a paid invoice, also when the      *)
(* handler that created it failed and the row names another session.       *)
(***************************************************************************)
PaymentArrives ==
    \A s \in 1 .. MaxSessions :
        (s \in DOMAIN sessions /\ sessions[s].done)
            ~> (s \in DOMAIN sessions /\ invoices[SessionInvoice(s)].status = "paid")

(***************************************************************************)
(* QM B2: the same usage cannot appear on two invoices.  Two generations   *)
(* that overlap bill it twice, each with a number of its own.              *)
(***************************************************************************)
UsageOnOneInvoice ==
    \A i, k \in DOMAIN invoices : i # k => invoices[i].lines \cap invoices[k].lines = {}
=============================================================================
