------------------------------- MODULE Release -------------------------------
(***************************************************************************)
(* Gate 5, factory/export.py and factory/storage.py: one user requests an  *)
(* export of a project against a clean control report, another approves    *)
(* it, and the approving handler writes the data files and the manifest to *)
(* disk and to the object store before its transaction commits.  It may    *)
(* fail after any file operation; the batch is then still pending and may  *)
(* be approved again.  Nothing keeps two approvals of a batch apart.       *)
(*                                                                         *)
(* A file's content stands for its SHA-256.  A bucket is configured.  The  *)
(* data files are written in one step: what two approvals do to each other *)
(* in the middle of it is not told apart.                                  *)
(***************************************************************************)
EXTENDS Integers, Sequences, FiniteSets

CONSTANTS
    Users,          \* identities that request and approve
    Batches,        \* export batch ids
    Records,        \* submissions on the project's tasks that are not gold
    Handlers,       \* requests that can be served at once
    Listing,        \* the names of a batch's files, sorted
    MaxAttempts,    \* bound: approvals begun per batch
    Nothing         \* no file, no user, no batch

Manifests == [rows : SUBSET Records, approvedBy : Users]

ASSUME ReleaseAssumption ==
    /\ \A r \in Records : {"task", "author", "version"} \subseteq DOMAIN r /\ r.version \in Nat
    /\ MaxAttempts \in Nat
    /\ Nothing \notin Users \cup Batches
    /\ \A content \in Manifests \cup (SUBSET Records) : content # Nothing

FileNames == {Listing[n] : n \in DOMAIN Listing}
DataFiles == FileNames \ {"manifest"}

ASSUME ListingAssumption == "manifest" \in FileNames /\ DataFiles # {}

VARIABLES
    approved,   \* approved submissions
    trail,      \* whether the audit trail verifies
    batch,      \* rows of export_batches, by id
    disk,       \* the batch's directory under exports_dir
    store,      \* the batch's objects in the bucket
    job,        \* the approval each handler is working on
    attempts,   \* approvals begun per batch
    clashed     \* batches on which two approvals were under way at once

vars == <<approved, trail, batch, disk, store, job, attempts, clashed>>

TasksOf(rows) == {r.task : r \in rows}

NoFiles == [f \in FileNames |-> Nothing]
NoBatch == [status |-> "absent", requestedBy |-> Nothing, approvedBy |-> Nothing,
            report |-> {}, manifest |-> Nothing]
NoJob == [batch |-> Nothing, approver |-> Nothing, rows |-> {}, at |-> "idle", queue |-> {}]

Init ==
    /\ approved = {}
    /\ trail = TRUE
    /\ batch = [b \in Batches |-> NoBatch]
    /\ disk = [b \in Batches |-> NoFiles]
    /\ store = [b \in Batches |-> NoFiles]
    /\ job = [h \in Handlers |-> NoJob]
    /\ attempts = [b \in Batches |-> 0]
    /\ clashed = {}

BatchRows ==
    [status : {"absent", "pending_approval", "released"},
     requestedBy : Users \cup {Nothing}, approvedBy : Users \cup {Nothing},
     report : SUBSET TasksOf(Records), manifest : Manifests \cup {Nothing}]

Jobs ==
    [batch : Batches, approver : Users, rows : SUBSET Records,
     at : {"writing", "uploading", "closing"}, queue : SUBSET FileNames]

(* In particular a released batch has its manifest. *)
TypeOK ==
    /\ approved \subseteq Records
    /\ trail \in BOOLEAN
    /\ batch \in [Batches -> BatchRows]
    /\ DOMAIN disk = Batches /\ DOMAIN store = Batches
    /\ job \in [Handlers -> Jobs \cup {NoJob}]
    /\ attempts \in [Batches -> 0 .. MaxAttempts]
    /\ clashed \subseteq Batches
    /\ \A b \in Batches :
        /\ batch[b].status = "released" <=> batch[b].manifest # Nothing
        /\ \A files \in {disk[b], store[b]} :
            /\ DOMAIN files = FileNames
            /\ files["manifest"] \in Manifests \cup {Nothing}
            /\ \A f \in DataFiles : files[f] \in {Nothing} \cup SUBSET Records

-----------------------------------------------------------------------------
(* What goes on meanwhile: Workflow approves, AuditChain may fork. *)

(* In any order: a version may wait for a person longer than the next one. *)
Approve(r) ==
    /\ r \notin approved
    /\ approved' = approved \cup {r}
    /\ UNCHANGED <<trail, batch, disk, store, job, attempts, clashed>>

BreakTrail ==
    /\ trail
    /\ trail' = FALSE
    /\ UNCHANGED <<approved, batch, disk, store, job, attempts, clashed>>

-----------------------------------------------------------------------------
(* POST /projects/{id}/exports: request_export. *)

(* Faulty variant: only the newest submissions of the whole project. *)
ApprovedRows_NewestOnly(rows) == {{r \in rows : \A s \in rows : s.version <= r.version}}

(***************************************************************************)
(* One row per task, of its highest version.  Contributors of a task count *)
(* their versions separately; on a tie the row the database returns first  *)
(* is kept, which no ORDER BY decides.                                     *)
(***************************************************************************)
ApprovedRows(rows) ==
    {R \in SUBSET {r \in rows : \A s \in rows : s.task = r.task => s.version <= r.version} :
        \A t \in TasksOf(rows) : Cardinality({r \in R : r.task = t}) = 1}

(* Every approved submission has the automated review gate 3 added, so the *)
(* report's list of unreviewed ones is empty.                              *)
Clean == trail /\ approved # {}

RequestExport(b, u) ==
    /\ Clean
    /\ batch[b].status = "absent"
    /\ batch' = [batch EXCEPT ![b] = [NoBatch EXCEPT
           !.status = "pending_approval", !.requestedBy = u,
           !.report = TasksOf(approved)]]
    /\ UNCHANGED <<approved, trail, disk, store, job, attempts, clashed>>

-----------------------------------------------------------------------------
(* POST /exports/{id}/approve: approve_and_materialize. *)

(* Faulty variant: a batch may be approved whatever its status. *)
MayApprove_AnyStatus(b, u) == batch[b].status # "absent" /\ u # batch[b].requestedBy

MayApprove(b, u) == batch[b].status = "pending_approval" /\ u # batch[b].requestedBy

BeginApproval(h, b, u) ==
    /\ job[h] = NoJob
    /\ attempts[b] < MaxAttempts
    /\ MayApprove(b, u)
    /\ \E rows \in ApprovedRows(approved) :
        job' = [job EXCEPT ![h] = [batch |-> b, approver |-> u, rows |-> rows,
                                   at |-> "writing", queue |-> {}]]
    /\ attempts' = [attempts EXCEPT ![b] = @ + 1]
    /\ clashed' = clashed \cup IF \E g \in Handlers : job[g].batch = b THEN {b} ELSE {}
    /\ UNCHANGED <<approved, trail, batch, disk, store>>

(* upload_batch sends what is in the directory, in the order of the names. *)
WriteData(h) ==
    LET b == job[h].batch
        files == [f \in FileNames |-> IF f \in DataFiles THEN job[h].rows ELSE disk[b][f]]
    IN  /\ job[h].at = "writing"
        /\ disk' = [disk EXCEPT ![b] = files]
        /\ job' = [job EXCEPT ![h].at = "uploading",
                              ![h].queue = {f \in FileNames : files[f] # Nothing}]
        /\ UNCHANGED <<approved, trail, batch, store, attempts, clashed>>

IsNext(f, queue) ==
    \E n \in DOMAIN Listing : Listing[n] = f /\ \A m \in 1 .. n - 1 : Listing[m] \notin queue

Upload(h) ==
    \E f \in job[h].queue :
        /\ IsNext(f, job[h].queue)
        /\ store' = [store EXCEPT ![job[h].batch][f] = disk[job[h].batch][f]]
        /\ job' = [job EXCEPT ![h].queue = @ \ {f}]
        /\ UNCHANGED <<approved, trail, batch, disk, attempts, clashed>>

ManifestOf(h) == [rows |-> job[h].rows, approvedBy |-> job[h].approver]

WriteManifest(h) ==
    /\ job[h].at = "uploading"
    /\ job[h].queue = {}
    /\ disk' = [disk EXCEPT ![job[h].batch]["manifest"] = ManifestOf(h)]
    /\ job' = [job EXCEPT ![h].at = "closing", ![h].queue = {"manifest"}]
    /\ UNCHANGED <<approved, trail, batch, store, attempts, clashed>>

(* Faulty variant: the release is recorded before the manifest is up. *)
MayClose_Early(h) == job[h].at = "closing"

MayClose(h) == job[h].at = "closing" /\ job[h].queue = {}

(* Faulty variant: the manifest is not kept in the row. *)
Close_NoManifest(h) ==
    /\ MayClose(h)
    /\ batch' = [batch EXCEPT ![job[h].batch].status = "released",
                              ![job[h].batch].approvedBy = job[h].approver]
    /\ job' = [job EXCEPT ![h] = NoJob]
    /\ UNCHANGED <<approved, trail, disk, store, attempts, clashed>>

Close(h) ==
    /\ MayClose(h)
    /\ batch' = [batch EXCEPT ![job[h].batch].status = "released",
                              ![job[h].batch].approvedBy = job[h].approver,
                              ![job[h].batch].manifest = ManifestOf(h)]
    /\ job' = [job EXCEPT ![h] = NoJob]
    /\ UNCHANGED <<approved, trail, disk, store, attempts, clashed>>

(* A file operation or the commit fails, or the process is gone. *)
Fail(h) ==
    /\ job[h] # NoJob
    /\ job' = [job EXCEPT ![h] = NoJob]
    /\ UNCHANGED <<approved, trail, batch, disk, store, attempts, clashed>>

(* The next request may land on an instance with an empty /tmp. *)
LoseDisk(b) ==
    /\ \A h \in Handlers : job[h].batch # b
    /\ disk[b] # NoFiles
    /\ disk' = [disk EXCEPT ![b] = NoFiles]
    /\ UNCHANGED <<approved, trail, batch, store, job, attempts, clashed>>

-----------------------------------------------------------------------------
Next ==
    \/ \E r \in Records : Approve(r)
    \/ BreakTrail
    \/ \E b \in Batches, u \in Users : RequestExport(b, u)
    \/ \E h \in Handlers, b \in Batches, u \in Users : BeginApproval(h, b, u)
    \/ \E h \in Handlers : \/ WriteData(h) \/ Upload(h) \/ WriteManifest(h)
                           \/ Close(h) \/ Fail(h)
    \/ \E b \in Batches : LoseDisk(b)

Spec == Init /\ [][Next]_vars

-----------------------------------------------------------------------------
(* What must hold. *)

(* The files are those the manifest lists, with the digests it lists. *)
Matches(files, manifest) == \A f \in DataFiles : files[f] = manifest.rows

(***************************************************************************)
(* C6: when the database says released, the bucket holds that release and  *)
(* no other - after any number of failed attempts, with records approved   *)
(* between them, and for good.  Two approvals that overlap mix their files.*)
(***************************************************************************)
ReleasedIsStored ==
    \A b \in Batches \ clashed : batch[b].status = "released" =>
        /\ store[b]["manifest"] = batch[b].manifest
        /\ Matches(store[b], batch[b].manifest)

(***************************************************************************)
(* C6: no record is silently dropped between the control report and the    *)
(* release, however long the approval takes and however often it is tried: *)
(* every task of the report ships, as one record.                          *)
(***************************************************************************)
NothingDropped ==
    \A b \in Batches : batch[b].status = "released" =>
        \A t \in batch[b].report : Cardinality({r \in batch[b].manifest.rows : r.task = t}) = 1

LooksComplete(b) == store[b]["manifest"] # Nothing

(***************************************************************************)
(* C6: a release is never changed: not its files, not who approved it -    *)
(* unless an approval that overlapped the one that released it goes on.    *)
(***************************************************************************)
ReleaseIsFinal ==
    [][\A b \in Batches \ clashed : batch[b].status = "released" =>
          batch'[b] = batch[b] /\ store'[b] = store[b]]_vars

(***************************************************************************)
(* export.py:142-143: a partially failed upload can never look like a      *)
(* complete release.                                                       *)
(***************************************************************************)
PartialNeverLooksComplete ==
    \A b \in Batches : LooksComplete(b) => Matches(store[b], store[b]["manifest"])
=============================================================================
