# human-data: TLA+ models, model checking and proofs

This directory specifies the behaviour of the *human-data factory* (`src/src/factory`), a
FastAPI/SQLAlchemy service that produces finance and accounting datasets: experts submit
records, automated and human gates judge them, approved records are metered and invoiced, and
releases go out under dual control. The modules are translated from the code; every definition
that stands for code is listed in `PROJECT.json` with the lines it stands for.

## The system

| Component | Code | State | Operations |
|---|---|---|---|
| Control policies C1-C5 | `controls.py`, `config.py` | columns of `experts`, `qualifications` | qualification check, reviewer independence, sampling, gold result, score, suspension |
| QC engine and workflow | `qc/engine.py`, `api/main.py` | `tasks`, `submissions`, `reviews` | create expert/task, record exam, assign, submit (gates 1-3), human review (gate 4) |
| Validators | `validators.py` | none | schema, PII, citations, tie-outs, duplicate content |
| Autonomous reviewer, rubrics | `qc/auto_reviewer.py`, `rubrics.py` | none | ask the model, fall back to a heuristic, weigh the scores |
| Audit trail | `audit.py` | `audit_events` | record, verify_chain, chain_head |
| Release (gate 5) | `export.py`, `storage.py` | `export_batches`, files on disk, objects in a bucket | control report, request, approve and materialize |
| Metering and billing | `billing/`, `api/main.py` | `rate_cards`, `usage_events`, `invoices`, Stripe | price and meter a record, invoice, external payment, checkout, webhooks, reconciliation |
| Sessions | `db.py` | one transaction per request | begin, flush, commit, rollback |
| Calibration | `qc/calibration.py` | none | agreement of auto and human verdicts, recommendation |
| Accounts | `auth.py`, `api/main.py` | `users`, `api_keys` | bootstrap, create, revoke, resolve a key, roles |
| Rate limiter | `ratelimit.py` | counters in memory | count a request of an identity in a window |

A request handler is a synchronous function in the server's thread pool with one session, and
so one transaction, of its own. It calls the engine; the engine calls the validators, the
controls, the automated reviewer (an HTTP call that may take minutes), the metering and, for
every step, `audit.record`; it commits at its end. The export reads what the engine approved
and what the audit trail verifies to. Nothing but the database connects two handlers.

What is hard here:

- **overlap**: production runs PostgreSQL at its default READ COMMITTED level (`db.py` sets
  none). A handler decides on rows it has loaded; rows already in the session's identity map
  are not refreshed; UPDATEs write the changed columns only and hold row locks to the end.
- **order**: a submission may be reviewed long after its author was suspended; a completed
  task may be reassigned, resubmitted and approved again.
- **failure**: a handler may fail after any statement (the database rolls back) or after any
  file operation or external call (nothing rolls back), and may be called again.
- **numbers**: scores are floats rounded to three or four decimals before they meet
  thresholds; one hash bucket falls outside every sampling rate.

The properties each component needs, and the lines where it could lose them, are the
`hazards` of `PROJECT.json`.

## Modules

| Module | Models | Composes / used by |
|---|---|---|
| `Controls` | `controls.py` and gate 3's routing, as operators over an expert's row and an automated review | `Workflow`, `Sessions`, `AutoReview` |
| `SubmissionLifecycle` | abstract: what the engine promises of one submission's committed status | refined by `Workflow` |
| `Workflow` | the handlers from registration to verdict and metering, one action each, one at a time | extends `Controls` |
| `Calibration` | the report on automated and human verdicts, over the submissions of `Workflow` and tallies of other projects | extends `Workflow` |
| `Sessions` | the same handlers split into reads, flushes, metering and commit, overlapping | extends `Controls` |
| `AutoReview` | what gate 3 makes of the model's answer, refusal or failure, under the rubrics of `rubrics.py` | extends `Controls` |
| `AuditChain` | record, verify_chain, overlapping transactions, changes behind the program's back | `Accounts` |
| `Accounts` | bootstrap, users, revocation and keys, as transactions that record their events in the trail | extends `AuditChain` |
| `Release` | control report, request, approval with its file operations, failure, retry and overlap | |
| `RateLimit` | the fixed-window limiter of one process | checked beside `Release` |
| `Billing` | invoice generation, external payment, checkout, Stripe's events, reconciliation | |
| `RateCards` | rate cards created by overlapping requests, and the price of a record | checked beside `Billing` |
| `MC*` | values of the constants for TLC; `MCRelease` and `MCBilling` put two modules that share no state into one run | one per module above, or per composition |
| `ControlsProofs` | lemmas about rounding, scores, suspension and routing | extends `Controls`; used by the next three |
| `WorkflowProofs` | theorems about `Workflow` and `Calibration` | extends `Calibration`, `ControlsProofs` |
| `SessionsProofs` | theorems about `Sessions` | extends `Sessions`, `ControlsProofs` |
| `AutoReviewProofs` | theorems about `AutoReview` | extends `AutoReview`, `ControlsProofs` |
| `AuditProofs`, `AccountsProofs` | theorems about `AuditChain`; about `Accounts`, and that it implements `AuditChain` | the second extends the first |
| `ReleaseProofs` | theorems about `Release` and `RateLimit` | extends `MCRelease`, and so both |
| `BillingProofs` | theorems about `Billing` and `RateCards` | extends `MCBilling`, and so both |

How state corresponds to code:

- **Workflow.** `expert`, `task`, `usage` are the tables by id (`"absent"` is an id without a
  row); `exams` counts the passed `qualifications` per expert and track; `subs` is the
  `submissions` table in order of creation, each row with its `reviews`. Whether a task is gold
  and whether an expert is a reviewer are constants, because no handler changes them.
  `SubmitFailsChecks`, `SubmitGold` and `SubmitReviewed` are the three ends of
  `engine.submit`; `HumanReview` is `engine.human_review` with its three verdicts. The passing
  or failing of the text validators, the keyword match of a gold answer, the hash bucket of an
  id and the automated review are inputs.
- **Sessions.** `expert`, `task`, `sub`, `reviews`, `usage` are committed rows; `lock` says
  which transaction has written a row and not ended; `tx` is a handler's open transaction: the
  set of UPDATEs still to flush, those flushed, the reviews and usage events it will commit.
  A handler's SELECTs are one step (`Begin...`), followed by one step per flushed row, one for
  the metering and one for the commit; `Rollback` may come at any point. The order of the
  flushes is the unit of work's (experts, tasks, submissions; `Before`), and that order is what rules out
  deadlock and double metering. Requests of one API key serialise on the key's `last_used_at`,
  so a worker stands for a caller. SQLite, which serialises writers, is not modelled.
- **AuditChain.** `rows` maps `seq` to a row with the transaction it belongs to; `seen` is the
  hash a `record()` call has read and not yet used. A hash is the pair it was computed from.
- **Calibration.** `elsewhere` counts the pairs of other projects; the report's overall bucket
  adds those of `subs`. Rates are rounded to thousandths as the code rounds them to three
  decimals, with both neighbours on a tie.
- **Accounts.** A user is known by the email address and has one key; `account` holds the
  committed rows of both tables. `tx` is the request a writer serves: authenticated (its key
  has been resolved, nothing is locked), then writing, until the event is recorded with
  `AuditChain`'s `ReadLast`, `Insert` and `Commit`. `Locks` are the rows that a writing request
  holds: the unique email, the user's row, the keys it deactivates and, once flushed, the key
  it was called with (`last_used_at`). `raced` remembers that two of these requests were under
  way at once.
- **RateLimit.** `counts` is `_counts`; `hits` records what was answered, which the code does
  not keep and the property needs. `Restart` is a new process.
- **RateCards.** A card carries the transaction it belongs to until commit; its number is the
  order of `created_at`. `FindCards` is the SELECT, `FlushCard` the UPDATEs and the INSERT,
  which wait for a card that another transaction deactivates, `CommitCard` the commit. A firm
  and a task type are one scope.
- **Release.** `disk` and `store` hold the batch's files; a data file's content is the set of
  records in it, which also stands for its digest. `job` is the approval a handler is working
  on and the set of files it has left to upload, of which `Upload` takes the next in
  the order of the directory's listing (`IsNext`). Records carry the contributor, because versions are
  counted per contributor; `clashed` remembers batches whose approvals overlapped.
- **Billing.** `usage` is the `invoice_id` of each usage event in order of creation; `invoices`
  the committed rows by number; `stripeInvoices` and `sessions` are what exists at Stripe,
  whether or not a row names it. `job` is a handler's transaction: what it has read and where
  it stands. `generate_invoice` is a step per statement that another transaction or a failure
  can fall before: `Sweep`, `NextInvoiceNumber`, `InsertInvoice`, `PushInvoice`,
  `CommitInvoice`. Every handler that changes a status reads and checks (`RecordExternalPayment`,
  `CheckoutCompleted`, `InvoicePaid`, `InvoiceVoided`) and writes in `CommitStatus`. `Fail` ends
  any transaction; what Stripe was told stays. Invoice numbers keep the count and drop the
  month, so two generations that overlap exactly when a month ends are not told apart.
- **AutoReview.** One submission: `request` (what the model will do, the content as the
  heuristic sees it, the sampling), `review`, `status`. Rubrics, weights and gate criteria are
  those of `rubrics.py`; weights are doubled to stay whole.

Scores are integers in units of 1/10000 (the code rounds to four decimals). On a tie of
Python's `round` the float's representation decides, so both neighbours are allowed
(`RoundDiv`).

## Runs

Bounds are the smallest at which the interesting cases occur; thresholds that count events are
lowered so that a handful of requests reaches them (the code's 3 gold misses, 5 and 20
approvals become 2, 1 and 2, or 1 in Sessions), because nothing depends on their size. The
theorems below need no bound.

| Run | Question | Bounds | Result |
|---|---|---|---|
| `workflow` | Do the controls, the metering and the lifecycle hold in every order of requests? Is the advice on sampling earned? | 2 experts (both reviewers), a task and a gold task, 3 contents, 3 submissions, 3 kinds of automated review, the lowest human score; the author starts qualified; up to 52 pairs of verdicts, most of them of other projects | holds (385 842 states) |
| `requalify` | May a contributor with a passed exam work? | as above, two exams per track, no other projects | violated: the second passed exam locks them out |
| `sessions` | What survives overlap and rollback? Does every request end? | 2 callers, 2 experts, a task and a gold task, 2 submissions of which one waits for review | holds (254 189) |
| `verdicts` | Is what was billed approved? | as above | violated: two overlapping verdicts |
| `audit` | Does the chain verify, detect changes, stay broken? Do the users match the trail, does a revocation bite? | 2 writers, 3 users, 2 bodies of other handlers; 5 events if all are of other handlers, 4 if none is, 3 mixed | holds (539 728) |
| `audit_overlap` | Does an untouched trail verify? | 2 writers, 2 bodies, 5 events | violated: two writers fork it |
| `release` | Is what is released stored, complete and final? Does the limiter let the first requests of a window through and no more? | 3 users, 1 batch, 4 records of 2 contributors on 2 tasks, 2 approvals that may overlap; 3 identities, a limit and a window of 2, a table of 2 entries, 6 requests | holds (225 974) |
| `release_retry` | Can a partial upload look complete? | as above, 3 attempts | violated on the second attempt |
| `autoreview` | What does it take to be auto-approved? Where does a fallback go? | the 3 rubrics, every subset of their criteria scored 0, 2, 3, 4 or 5 | holds (2 115 342) |
| `critical_gate` | Does a sub-3 gate criterion force revision? | as above, scored 2-5 | violated: human review instead |
| `billing` | Does the ledger tie out, do payments rest on evidence and arrive? Which card prices a record? | an external and a Stripe firm, 3 usage events, 1 push to Stripe, 2 checkout sessions, 1 request at a time; 2 operators, 2 scopes, 3 cards | holds (198 161) |
| `billing_overlap` | Is usage on one invoice at most? | 2 handlers, 2 events of one firm | violated: two overlapping generations |

Why the bounds are enough: three submissions are a first one, a duplicate or revision, and one
by the other contributor, which is what versions, duplicates and double metering need; two gold
misses or one human fail at score 0 suspend. Two overlapping transactions suffice for a lost
update, a stale status and a lock cycle. Five rows leave room for two transactions of two
events with a gap; an account needs three events to be created, act and be revoked. Two
approvals overlap, or the first fails and leaves a manifest behind that the second must not
release; four records are two versions by one contributor, a competing one by another, and
one on a second task. Fifty-two pairs are two more than the report wants for confidence: with
fewer no advice to lower sampling could be wrong. Three identities fill a table of two entries,
and six ticks are three windows. Three cards are one to replace and two that overlap on it.
Score 1 of the model is left out: it lies between two others on the same side of every
threshold.

Three usage events are two of one firm, so that sums could cancel out and a period can leave
one behind, and one of the other; two sessions for one invoice are what the overwritten
`checkout_session_id` and a second payment need. One push keeps the liveness check short: a
failure after it leaves an orphan at Stripe that may be paid, but the same firm's next push is
out of the run's reach (with two pushes every property but `PaymentArrives` was also checked to
hold, and with one session all of them).

What the runs show beyond "it holds":

- `sessions`: nothing in the schema makes a usage event unique per task although the model's
  docstring (`models.py:275`) says so. `BilledAtMostOnce` holds because
  `update_quality_score` flushes the author's and the task's row before
  `record_approved_record` looks; the mutant that looks earlier is caught. Lost updates only
  ever make a contributor look less trusted than they are (`CountNeverAhead`), and partial
  UPDATEs keep a suspension (`SuspensionIsFinal`).
- `billing`: a session that completed is found by the invoice id in its metadata, so it counts
  also when the row names a later session or none (`PaymentArrives`; the mutant that looks for
  the session id is caught). The model admits what no text of the repository rules out: a
  customer who pays an invoice twice, an invoice paid by checkout that a later
  `invoice.voided` makes void, and an orphaned Stripe invoice whose payment is answered as
  unknown. `InvoiceMatchesUsage`, `CleanMeansTied` and
  `PaidReferenceIsFinal` are about requests that do not overlap; `billing_overlap` shows why.
- `workflow`: the report's false passes are exactly what sampling is for
  (`FalsePassWouldShip`), and rounding forgives half a thousandth and no more
  (`RecommendationIsEarned`): 6 overturned passes of 119 count as 5.0%. The rate is a share of
  all pairs, so records the reviewer held dilute it; no text says of what it is a share.
- `release`: overlapping approvals of one batch lose `ReleasedIsStored` and `ReleaseIsFinal`
  (they are excepted, by `clashed`), but no record (`NothingDropped`). The highest version wins
  across contributors, so an earlier record may ship instead of the last one approved. The
  purge of the limiter's table is harmless only because it keeps the current window
  (`LimitHolds`; the mutant that empties the table is caught).
- `billing`, rate cards: two operators who price the same task type at once leave two active
  cards; the newest wins all the same, whatever order they commit in, because a card is
  deactivated only by one created later (`NewestCardWins`; the mutant that deactivates what is
  active at the end is caught).
- `autoreview`: `ReviewIsExpected` checks the assumption under which `Workflow` takes automated
  reviews as inputs. An answer that leaves a gate criterion out is not held against it: the
  schema asks for a list of scores, not for all of them.
- `audit`: `DamageIsDetected` is limited to trails without forks, and to changes other than
  cutting the tail, which `verify_chain` cannot see. `UsersMatchTrail` holds under any overlap:
  the row, the key and the event are one transaction. `RevocationBites` and `BootstrapOnce` say
  how far an overlap can stretch them: a request whose key was resolved before the revocation
  committed still acts, and two bootstraps can both find no users. An admin may revoke the last
  admin, after which nobody can create users; no text excludes it.

Two more divergences were met while reading and are listed as hazards without a run: a model's
refusal carries a critical flag and goes to revision although the comment
(`auto_reviewer.py:195`) says human review, and an offline review can score below 3.0 and go
to revision although the manual (C3, §5) and the README (64-66) send every fallback to a person:
with citations that are empty but not a list, a short text scores 2.75 or less, and so does a
long one with both warnings. `FallbackReachesPerson` says that this cannot happen to a content
with citations.

**Fairness.** Only `Sessions` and `Billing` assume any. A worker that can take its next step
does (WF on `Meter`, `Commit`; threads are not stopped forever), and one that waits for a row
again and again gets it (SF on `Flush`: PostgreSQL queues waiters of a row lock). Nobody has to
begin a request, and rollbacks are never forced. In `Billing` a request ends (WF on
`Proceed`, which contains its failure), Stripe delivers a completed session again until it is
answered (SF on `Deliver`: it retries), and not every transaction that would mark the invoice
paid fails (SF on `CommitPaid`). Invoice events get no fairness: an event that arrives before
the row is committed is answered as unknown and not sent again.

## Proofs

TLAPS proves every safety invariant and every action property that a passing run checks, for
every value of the constants that the modules' assumptions admit: any number of experts,
tasks, submissions, requests at once, events, files, prices and identities, any thresholds,
any bound. Every proof is checked to its last leaf.

| Module | Theorem | States |
|---|---|---|
| `WorkflowProofs` | `TypeCorrect`, `GoodStanding`, `ApprovalsVouched`, `ContentOnce`, `BilledOnce`, `EarnedTrust` | `Spec => []` of `TypeOK`, `QualifiedInGoodStanding`, `ApprovedIsVouched`, `ContentAdvancesOnce`, `MeteredOnce`, `TrustIsEarned` |
| | `SuspensionNeverLifted` | `Spec => SuspensionIsFinal` |
| | `ImplementsLifecycle` | `Spec => RefinesLifecycle`, the refinement of `SubmissionLifecycle` |
| | `FalsePassesSampled`, `AdviceEarned` | `CalibrationSpec => []` of `FalsePassWouldShip`, `RecommendationIsEarned` |
| `SessionsProofs` | `SessionsTypes`, `OverlapsBillOnce`, `VisibleApprovalBilled`, `OverlapsVouched`, `TrustOnlyLags`, `OverlapsKeepStanding` | `Spec => []` of `TypeOK`, `BilledAtMostOnce`, `ApprovalIsBilled`, `ApprovedIsVouched`, `CountNeverAhead`, `QualifiedInGoodStanding` |
| | `StaleCopiesKeepSuspension` | `Spec => SuspensionIsFinal` |
| `AuditProofs` | `SerialVerifies`, `DamageShows` | `Spec => []` of `SerialTrailVerifies`, `DamageIsDetected` |
| | `ForksStay` | `Spec => BrokenStaysBroken` |
| `AccountsProofs` | `AccountsTypes`, `UsersAreOnTrail` | `AccountsSpec => []` of `AccountsTypeOK`, `UsersMatchTrail` |
| | `BootstrapsOnce`, `RevocationsBite` | for a finite set of writers, `AccountsSpec => []` of `BootstrapOnce`, `RevocationBites` |
| | `AccountsKeepTrail` | `AccountsSpec => Spec`: the handlers of accounts implement the trail, so the theorems of `AuditProofs` hold of it |
| `ReleaseProofs` | `ReleaseTypes`, `ReportShips`, `ReleaseStored` | `Spec => []` of `TypeOK`, `NothingDropped`, `ReleasedIsStored` |
| | `ReleaseKept` | `Spec => ReleaseIsFinal` |
| | `LimiterTypes`, `LimitKept` | `LimiterSpec => []` of `LimiterTypeOK`, `LimitHolds` |
| | `Together`, `TogetherTypes` | `MCSpec => Spec /\ LimiterSpec`, `MCSpec => []MCTypeOK` |
| `AutoReviewProofs` | `ReviewsAreExpected`, `ApprovalsAreEarned`, `FallbacksReachPerson` | `Spec => []` of `ReviewIsExpected`, `ApprovalIsEarned`, `FallbackReachesPerson` |
| `BillingProofs` | `BillingTypes`, `PaidOnItsOwnMoney` | `Spec => []` of `TypeOK`, `PaidOnEvidence` |
| | `ChargesItsUsage`, `BillsOnce`, `CleanIsTied` | under `OneRequest`, `Spec => []` of `InvoiceMatchesUsage`, `UsageOnOneInvoice`, `CleanMeansTied` |
| | `PaidReferenceKept` | under `OneRequest`, `Spec => PaidReferenceIsFinal` |
| | `RatesTypes`, `NewestCardPrices` | `RatesSpec => []` of `RatesTypeOK`, `NewestCardWins` |
| | `Together`, `TogetherTypes` | `MCSpec => Spec /\ RatesSpec`, `MCSpec => []MCTypeOK` |

The theorems are about each module's own `Spec`. Two runs start elsewhere: `MCWorkflow` from an
author who is qualified already and `MCSessions` from a first submission that waits, states that
the module's `Init` leads to in steps the bounds have no room for. `MCRelease` and `MCBilling`
interleave two modules that share no state; `Together`, in both proof modules, shows that what
they explore is a behaviour of either, so the theorems hold of it.

### The arguments

**Workflow.** Two lemmas reduce every action to what it does to the data: `ExpertStep` (a step
leaves an expert's row alone or replaces it by one that is typed, keeps good standing and any
suspension) and `SubsStep` (a step leaves the submissions alone, appends one that is vouched
for and metered, or records one person's verdict on one that waits). The range of the scores is
arithmetic about `RoundDiv` (`EwmaRange`, `PenaltyRange`). `QualifiedInGoodStanding` is not
inductive on its own: a pending contributor in bad standing would become qualified by an exam;
the strengthening says it of every row that is not suspended. `MeteredOnce` needs that an id is
billed only once it exists, which the type invariant and the two lemmas give. The refinement
maps a row that does not exist yet to the phase `"none"`.

`TrustIsEarned` compares two counts, but the code looks at a third, the counter in the expert's
row. The inductive `Trust` ties them: the counter is the number of approved records
of the dataset, and as soon as one of these was seen by nobody, `NewBelow` others had been.
For what is approved later the first count grows with or without the second, and only the
counter, read by the sampling rule when the record came in, says which is allowed. It also
needs that no gold task waits for a person and that an author has a row (`KnownWork`).

**Calibration.** `AdviceEarned` is arithmetic: `RateBounds` turns a rate rounded to thousandths into bounds on the
counts (`RoundDivBounds`), `AdviceIsEarned` goes through the cases of the advice, and the
invariant that every tally has at most as many agreements and false passes as pairs comes from
`CalibrationTyped`, with the cardinalities of subsets of `Pairs`. `FalsePassesSampled` rests on
an invariant about single submissions (`AllMeasured`): one that a person judged has an
automated review, and if that passed, it was sampled and the person's verdict is its status.

**Sessions.** The invariant is `RowsInv` (what the properties say of committed rows, and that a
completed task is billed) with `TxInv` of every open transaction: what each of its writes may do
to a row that others have changed since it was read. Only a commit changes a table, and two
facts carry every commit: a written row stays locked to the end, so no other transaction's
copy of it is committed in between; and an UPDATE has only the columns the handler changed, so
a stale copy can suspend but never re-qualify (`ExpertWrite`), complete a task only if it pays
for it (`TaskWrite`), and count at most the passes there are and its own (`CountNeverAhead`).
`BilledAtMostOnce` follows from the lock on the task's row, held from before the look at
`usage_events` to the commit.

**AuditChain.** The invariant has a part for each condition of the properties: apart from damage
every hash that a row or a `record()` call names is that of an earlier row it could see
(`Chained`); apart from overlap one transaction is open and its rows come last (`OneOpen`);
apart from both every row names the one before (`Linked`), where a gap of the sequence after a
rollback is what makes "the one before" a choice; and damage without overlap shows
already. `ForksStay` is about `VerifyChain` alone: what is appended comes after the row
that fails.

**Accounts.** Every step of a handler is a step of `AuditChain` on the variables of the trail, or
leaves them alone (`AccountsKeepTrail`), so the trail's invariant is a hypothesis here.
`UsersMatchTrail` is inductive together with what an open transaction has recorded and
checked (`RecordsItsEvent`, `ChecksHold`) and the unique email address (`OneCreates`).
`BootstrapOnce` and `RevocationBites` count events; their strengthening (`BootsCounted`,
`Bites`) counts the requests under way that may yet record one too, which makes an event leave
one count as it enters the other. A revocation that is not committed has the user's key
locked, which keeps later events of that user out (`RevocationHolds`), and no two
transactions hold one row (`LocksApart`).

**Release.** What a report named stays approved, and so do the rows an approval has read
(`ReportHolds`). For a batch whose approvals did not clash, one handler works on it at most, and
`JobProgress` says which file is where at each step: a file is in the bucket or still to be
uploaded, and the manifest is written last; a released batch has nobody working on it (`Alone`).

**RateLimit.** The table is a cache of `hits`: an entry of the current window counts that
window's hits of the identity, one of an older window is never read again (`CountsHold`), which
is why the purge may drop it. A span as long as a window meets two windows (`SpanGrants`).

**AutoReview.** The weighted mean is linear in the scores of seven criteria (`Totals`), so a
mean that rounds to 4.0 or more, and a review that passes, are inequalities between sums
(`RoundDivBounds`); the inductive invariant says the review in the state is one that the
request leads to (`Explained`).

**Billing.** `PaidOnEvidence` needs to know of every transaction that will write `paid` that it
has seen the evidence (`SettlesOnEvidence`), and that evidence stays when others commit
(`EvidenceStays`); the unique number makes the next invoice one transaction's
(`OneInserts`). This holds for any number of requests at once. That an invoice charges its
usage holds only apart from overlap: `OneRequest` (at most one handler) is a hypothesis of
these theorems, and `billing_overlap` shows that it is needed. Under it what a request swept
or checked is still so when it commits (`StillSo`).

`CleanMeansTied` is about sums. `Cents` and `Issued` are folds of the community modules, which
are defined by a table of partial sums over subsets, chosen by the equation it satisfies. The
section "Sums over finite sets" proves without an induction theorem that the table exists
(`TablesExist`) and what it holds: of the sets for which a law of sums failed, one would contain
no other (`Smallest`), and that one it cannot fail for. From `TotalSplit` (a sum over two parts),
`TotalOfParts` (over disjoint invoices) and `TotalZero` (positive prices) a difference of 0
means that the usage left out is empty.

**RateCards.** The newest committed card of a scope is active (`NewestIsActive`), because a
request owns at most one card, newer than all it has found (`RequestsOwn`); apart from overlap
what it found is all there is (`OneAtATime`).

### Assumptions

- A human review's overall score is on the 0-5 scale (`HumanScores`); the endpoint accepts any
  number.
- `OneRequest`, in four theorems of `BillingProofs`, as said; the properties themselves are
  about such requests.
- `BootstrapsOnce` and `RevocationsBite` count requests, so they ask for a finite number.
- The other assumptions only give constants their types: a content is not the absence of one, a
  price is positive, a window is not empty.

### Only model-checked

- Liveness (`RequestsEnd`, `PaymentArrives`) and with it the fairness: the prover does neither
  ENABLED nor fairness.
- The properties of the runs that are violated, of course; `UsageOnOneInvoice` is proved under
  `OneRequest`.

## Not modelled

- The window of the reconciliation: it compares dates of usage and of invoices, which `Billing`
  does not keep.
- The scoping of clients to their firm (`assert_firm_access`): a test of two fields that no
  handler changes; the roles other than admin, which are guards of the workflow's handlers; the
  development mode.
- The calibration report's agreement of scores and its slices by track and grader version: no
  advice reads them.
- The release without a bucket, and the formatting of rows.
- The regular expressions of the validators, prompts, formatting, listings, the landing page, the
  CLI, migrations and the Vercel entry point have no state of their own; the creation of firms
  and projects makes rows that never change.

## Plan

1. done: `Controls`, `SubmissionLifecycle`, `Workflow` and its proofs.
2. done: `Sessions`, `AuditChain`, `Release`, `AutoReview`, `Billing`, model-checked.
3. done: `Calibration` with its proofs; `Accounts`, `RateLimit`, `RateCards`; `Release` with
   overlapping approvals and contributors.
4. done: proofs of all safety properties of the passing runs, and of two refinements.
5. An abstract ledger (every metered cent on at most one invoice; an invoice settled once)
   refined by `Billing`; an abstract release refined by `Release`; `Sessions` without overlap
   against `SubmissionLifecycle`.
6. The reconciliation's window, with dates; versions in `Sessions`.
