---------------------------- MODULE ReleaseProofs ----------------------------
(***************************************************************************)
(* Theorems about Release, for every value of its constants: any number of *)
(* batches, records, files, handlers and attempts.  Then about RateLimit:  *)
(* any number of identities, any limit, window, cap and run of hits.       *)
(***************************************************************************)
EXTENDS MCRelease, FiniteSetTheorems, TLAPS

-----------------------------------------------------------------------------
(* The inductive invariant. *)

(* rows has one record for every task that the control report of b named. *)
Ships(rows, b) == \A t \in batch[b].report : Cardinality({r \in rows : r.task = t}) = 1

(* What was reported stays approved, and every approval under way has read  *)
(* rows that ship all of it: what is approved only grows.                   *)
ReportHolds ==
    /\ \A b \in Batches : batch[b].report \subseteq TasksOf(approved)
    /\ \A h \in Handlers : job[h] # NoJob =>
          batch[job[h].batch].status # "absent" /\ Ships(job[h].rows, job[h].batch)

(* Which files an approval has put where, by the step it is at. *)
JobProgress(h) ==
    LET b == job[h].batch
        rows == job[h].rows
    IN  /\ job[h].at = "writing" => job[h].queue = {}
        /\ job[h].at = "uploading" => \A f \in DataFiles :
              disk[b][f] = rows /\ (f \in job[h].queue \/ store[b][f] = rows)
        /\ job[h].at = "closing" =>
              /\ \A f \in DataFiles : store[b][f] = rows
              /\ job[h].queue \subseteq {"manifest"}
              /\ disk[b]["manifest"] = ManifestOf(h)
              /\ "manifest" \in job[h].queue \/ store[b]["manifest"] = ManifestOf(h)

(* A batch on which no two approvals met has one at most, and none once it  *)
(* is released and its files are in the bucket.                             *)
Alone(b) ==
    /\ \A g, h \in Handlers : job[g].batch = b /\ job[h].batch = b => g = h
    /\ batch[b].status = "released" =>
          /\ \A h \in Handlers : job[h].batch # b
          /\ store[b]["manifest"] = batch[b].manifest
          /\ Matches(store[b], batch[b].manifest)
    /\ \A h \in Handlers : job[h].batch = b => JobProgress(h)

IInv ==
    /\ TypeOK
    /\ ReportHolds
    /\ NothingDropped
    /\ \A b \in Batches \ clashed : Alone(b)

-----------------------------------------------------------------------------
(* Types. *)

(* A handler that is not idle works on a batch, and only such a one has     *)
(* files to upload.                                                         *)
LEMMA BusyJob ==
    ASSUME TypeOK, NEW h \in Handlers
    PROVE  /\ job[h] # NoJob <=> job[h] \in Jobs
           /\ job[h] # NoJob <=> job[h].batch \in Batches
           /\ job[h].batch # Nothing => job[h] \in Jobs
           /\ job[h].at # "idle" \/ job[h].queue # {} => job[h] \in Jobs
BY ReleaseAssumption DEF TypeOK, Jobs, NoJob

(* What handler h writes into a manifest is one, and there is something in  *)
(* every file it writes.                                                    *)
LEMMA WrittenContents ==
    ASSUME TypeOK, NEW h \in Handlers, job[h] \in Jobs
    PROVE  /\ ManifestOf(h) \in Manifests /\ ManifestOf(h) # Nothing
           /\ job[h].rows \in SUBSET Records /\ job[h].rows # Nothing
<1>1. ManifestOf(h) \in Manifests /\ job[h].rows \in SUBSET Records
  BY DEF ManifestOf, Manifests, Jobs
<1> QED
  BY <1>1, ReleaseAssumption

(* The initial state has its types. *)
LEMMA TypeInit == Init => TypeOK
<1> SUFFICES ASSUME Init PROVE TypeOK
  OBVIOUS
<1>1. NoBatch \in BatchRows /\ NoBatch.manifest = Nothing /\ NoBatch.status # "released"
  BY DEF NoBatch, BatchRows
<1>2. "manifest" \in FileNames /\ DataFiles \subseteq FileNames
  BY ListingAssumption DEF DataFiles
<1> QED
  BY <1>1, <1>2, ReleaseAssumption DEF Init, TypeOK, NoFiles

(* Every step keeps them. *)
LEMMA TypeStep == TypeOK /\ [Next]_vars => TypeOK'
<1> SUFFICES ASSUME TypeOK, [Next]_vars PROVE TypeOK'
  OBVIOUS
<1> USE DEF TypeOK
<1>0. "manifest" \in FileNames /\ DataFiles \subseteq FileNames /\ "manifest" \notin DataFiles
  BY ListingAssumption DEF DataFiles
<1>1. CASE \E r \in Records : Approve(r)
  BY <1>1 DEF Approve
<1>2. CASE BreakTrail
  BY <1>2 DEF BreakTrail
<1>3. CASE \E b \in Batches, u \in Users : RequestExport(b, u)
  <2> PICK b \in Batches, u \in Users : RequestExport(b, u)
    BY <1>3
  <2> DEFINE row == [NoBatch EXCEPT !.status = "pending_approval", !.requestedBy = u,
                                    !.report = TasksOf(approved)]
  <2>1. batch' = [batch EXCEPT ![b] = row]
    BY DEF RequestExport
  <2>2. row \in BatchRows /\ row.manifest = Nothing /\ row.status # "released"
    BY DEF NoBatch, BatchRows, TasksOf
  <2> HIDE DEF row
  <2>3. batch' \in [Batches -> BatchRows]
    BY <2>1, <2>2
  <2>4. \A c \in Batches : batch'[c].status = "released" <=> batch'[c].manifest # Nothing
    BY <2>1, <2>2
  <2> QED
    BY <2>3, <2>4 DEF RequestExport
<1>4. CASE \E h \in Handlers, b \in Batches, u \in Users : BeginApproval(h, b, u)
  <2> PICK h \in Handlers, b \in Batches, u \in Users : BeginApproval(h, b, u)
    BY <1>4
  <2>1. PICK rows \in ApprovedRows(approved) :
            job' = [job EXCEPT ![h] = [batch |-> b, approver |-> u, rows |-> rows,
                                       at |-> "writing", queue |-> {}]]
    BY DEF BeginApproval
  <2>2. rows \in SUBSET Records
    BY DEF ApprovedRows
  <2>3. job' \in [Handlers -> Jobs \cup {NoJob}]
    BY <2>1, <2>2 DEF Jobs
  <2>4. attempts' \in [Batches -> 0 .. MaxAttempts] /\ clashed' \subseteq Batches
    BY ReleaseAssumption DEF BeginApproval
  <2> QED
    BY <2>3, <2>4 DEF BeginApproval
<1>5. ASSUME NEW h \in Handlers, WriteData(h) PROVE TypeOK'
  <2> DEFINE b == job[h].batch
  <2> DEFINE files == [f \in FileNames |-> IF f \in DataFiles THEN job[h].rows ELSE disk[b][f]]
  <2>1. job[h] \in Jobs /\ b \in Batches
    BY <1>5, BusyJob DEF WriteData, Jobs
  <2>2. disk' = [disk EXCEPT ![b] = files]
    BY <1>5 DEF WriteData
  <2>3. /\ DOMAIN files = FileNames
        /\ files["manifest"] \in Manifests \cup {Nothing}
        /\ \A f \in DataFiles : files[f] \in {Nothing} \cup SUBSET Records
    BY <1>0, <2>1, WrittenContents
  <2>4. job' \in [Handlers -> Jobs \cup {NoJob}]
    BY <1>5, <2>1 DEF WriteData, Jobs
  <2> HIDE DEF files
  <2>5. /\ DOMAIN disk' = Batches
        /\ \A c \in Batches :
            /\ DOMAIN disk'[c] = FileNames
            /\ disk'[c]["manifest"] \in Manifests \cup {Nothing}
            /\ \A f \in DataFiles : disk'[c][f] \in {Nothing} \cup SUBSET Records
    BY <2>1, <2>2, <2>3
  <2> QED
    BY <1>5, <2>4, <2>5 DEF WriteData
<1>6. ASSUME NEW h \in Handlers, Upload(h) PROVE TypeOK'
  <2> DEFINE b == job[h].batch
  <2>1. PICK f \in job[h].queue :
            /\ store' = [store EXCEPT ![b][f] = disk[b][f]]
            /\ job' = [job EXCEPT ![h].queue = @ \ {f}]
    BY <1>6 DEF Upload
  <2>2. job[h] \in Jobs /\ b \in Batches /\ f \in FileNames
    BY <2>1, BusyJob DEF Jobs
  <2>3. job' \in [Handlers -> Jobs \cup {NoJob}]
    BY <2>1, <2>2 DEF Jobs
  <2>4. f = "manifest" \/ f \in DataFiles
    BY <2>2 DEF DataFiles
  <2> QED
    BY <1>0, <1>6, <2>1, <2>2, <2>3, <2>4 DEF Upload
<1>7. ASSUME NEW h \in Handlers, WriteManifest(h) PROVE TypeOK'
  <2> DEFINE b == job[h].batch
  <2>1. job[h] \in Jobs /\ b \in Batches
    BY <1>7, BusyJob DEF WriteManifest, Jobs
  <2>2. job' \in [Handlers -> Jobs \cup {NoJob}]
    BY <1>0, <1>7, <2>1 DEF WriteManifest, Jobs
  <2>3. ManifestOf(h) \in Manifests
    BY <2>1, WrittenContents
  <2> QED
    BY <1>0, <1>7, <2>1, <2>2, <2>3 DEF WriteManifest
<1>8. ASSUME NEW h \in Handlers, Close(h) PROVE TypeOK'
  <2> DEFINE b == job[h].batch
  <2>1. job[h] \in Jobs /\ b \in Batches
    BY <1>8, BusyJob DEF Close, MayClose, Jobs
  <2> DEFINE row == [batch[b] EXCEPT !.status = "released", !.approvedBy = job[h].approver,
                                     !.manifest = ManifestOf(h)]
  <2>2. batch' = [batch EXCEPT ![b] = row]
    BY <1>8, <2>1 DEF Close
  <2>3. row \in BatchRows /\ row.manifest # Nothing /\ row.status = "released"
    <3>1. batch[b] \in BatchRows /\ job[h].approver \in Users
      BY <2>1 DEF Jobs
    <3>2. ManifestOf(h) \in Manifests /\ ManifestOf(h) # Nothing
      BY <2>1, WrittenContents
    <3> QED
      BY <3>1, <3>2 DEF BatchRows
  <2>4. job' \in [Handlers -> Jobs \cup {NoJob}]
    BY <1>8 DEF Close
  <2> HIDE DEF row
  <2>5. batch' \in [Batches -> BatchRows]
    BY <2>1, <2>2, <2>3
  <2>6. \A c \in Batches : batch'[c].status = "released" <=> batch'[c].manifest # Nothing
    BY <2>1, <2>2, <2>3
  <2> QED
    BY <1>8, <2>4, <2>5, <2>6 DEF Close
<1>9. ASSUME NEW h \in Handlers, Fail(h) PROVE TypeOK'
  BY <1>9 DEF Fail
<1>10. CASE \E b \in Batches : LoseDisk(b)
  <2> PICK b \in Batches : LoseDisk(b)
    BY <1>10
  <2>1. disk' = [disk EXCEPT ![b] = NoFiles]
    BY DEF LoseDisk
  <2>2. DOMAIN NoFiles = FileNames /\ \A f \in FileNames : NoFiles[f] = Nothing
    BY DEF NoFiles
  <2>3. /\ DOMAIN disk' = Batches
        /\ \A c \in Batches :
            /\ DOMAIN disk'[c] = FileNames
            /\ disk'[c]["manifest"] \in Manifests \cup {Nothing}
            /\ \A f \in DataFiles : disk'[c][f] \in {Nothing} \cup SUBSET Records
    BY <1>0, <2>1, <2>2
  <2> QED
    BY <2>3 DEF LoseDisk
<1>11. CASE UNCHANGED vars
  BY <1>11 DEF vars
<1> QED
  BY <1>1, <1>2, <1>3, <1>4, <1>5, <1>6, <1>7, <1>8, <1>9, <1>10, <1>11 DEF Next

(* Every reachable state of Release is well typed; in particular a batch is *)
(* released with its manifest.                                              *)
THEOREM ReleaseTypes == Spec => []TypeOK
<1> QED
  BY TypeInit, TypeStep, PTL DEF Spec

-----------------------------------------------------------------------------
(* What was reported ships. *)

(* The rows a handler reads ship every report made before.                  *)
LEMMA ApprovedRowsShip ==
    ASSUME NEW b \in Batches, batch[b].report \subseteq TasksOf(approved),
           NEW rows \in ApprovedRows(approved)
    PROVE  Ships(rows, b)
BY DEF ApprovedRows, Ships

(* No step takes a reported task out of a release or of one under way.      *)
LEMMA ReportStep ==
    TypeOK /\ ReportHolds /\ NothingDropped /\ [Next]_vars => ReportHolds' /\ NothingDropped'
<1> SUFFICES ASSUME TypeOK, ReportHolds, NothingDropped, [Next]_vars
             PROVE  ReportHolds' /\ NothingDropped'
  OBVIOUS
<1> USE DEF ReportHolds
(* Steps that leave the rows of batches alone and begin no approval. *)
<1>0. ASSUME UNCHANGED batch, approved \subseteq approved',
             \A h \in Handlers : job'[h] # NoJob =>
                 job[h] # NoJob /\ job'[h].rows = job[h].rows /\ job'[h].batch = job[h].batch
      PROVE  ReportHolds' /\ NothingDropped'
  <2>1. TasksOf(approved) \subseteq TasksOf(approved')
    BY <1>0 DEF TasksOf
  <2> QED
    BY <1>0, <2>1 DEF Ships, NothingDropped
<1>1. CASE \E r \in Records : Approve(r)
  BY <1>0, <1>1 DEF Approve
<1>2. CASE BreakTrail
  BY <1>0, <1>2 DEF BreakTrail
<1>3. CASE \E b \in Batches, u \in Users : RequestExport(b, u)
  <2> PICK b \in Batches, u \in Users : RequestExport(b, u)
    BY <1>3
  <2>1. /\ batch'[b].report = TasksOf(approved) /\ batch'[b].status = "pending_approval"
        /\ batch[b].status = "absent" /\ \A c \in Batches \ {b} : batch'[c] = batch[c]
    BY DEF RequestExport, NoBatch, TypeOK
  <2>2. UNCHANGED <<approved, job>>
    BY DEF RequestExport
  <2>3. \A c \in Batches : batch'[c].report \subseteq TasksOf(approved')
    BY <2>1, <2>2
  <2>4. ASSUME NEW h \in Handlers, job'[h] # NoJob
        PROVE  (batch[job[h].batch].status # "absent" /\ Ships(job[h].rows, job[h].batch))'
    <3>1. /\ job[h] # NoJob /\ job[h].batch \in Batches
          /\ batch[job[h].batch].status # "absent" /\ Ships(job[h].rows, job[h].batch)
      BY <2>2, <2>4, BusyJob
    <3>2. job[h].batch # b
      BY <2>1, <3>1
    <3> QED
      BY <2>1, <2>2, <3>1, <3>2 DEF Ships
  <2> QED
    BY <2>1, <2>3, <2>4 DEF NothingDropped
<1>4. CASE \E h \in Handlers, b \in Batches, u \in Users : BeginApproval(h, b, u)
  <2> PICK h \in Handlers, b \in Batches, u \in Users : BeginApproval(h, b, u)
    BY <1>4
  <2>1. PICK rows \in ApprovedRows(approved) :
            job' = [job EXCEPT ![h] = [batch |-> b, approver |-> u, rows |-> rows,
                                       at |-> "writing", queue |-> {}]]
    BY DEF BeginApproval
  <2>2. Ships(rows, b)
    BY ApprovedRowsShip
  <2>3. /\ job'[h].rows = rows /\ job'[h].batch = b
        /\ \A g \in Handlers \ {h} : job'[g] = job[g]
    <3>1. DOMAIN job = Handlers
      BY DEF TypeOK
    <3> QED
      BY <2>1, <3>1
  <2>4. ASSUME NEW g \in Handlers, job'[g] # NoJob
        PROVE  (batch[job[g].batch].status # "absent" /\ Ships(job[g].rows, job[g].batch))'
    <3>1. batch' = batch /\ batch[b].status = "pending_approval"
      BY DEF BeginApproval, MayApprove
    <3>2. CASE g = h
      BY <2>2, <2>3, <3>1, <3>2 DEF Ships
    <3>3. CASE g # h
      BY <2>3, <2>4, <3>1, <3>3 DEF Ships
    <3> QED
      BY <3>2, <3>3
  <2> QED
    BY <2>4 DEF BeginApproval, NothingDropped
<1>5. ASSUME NEW h \in Handlers, WriteData(h) PROVE ReportHolds' /\ NothingDropped'
  <2>1. job[h] # NoJob
    BY <1>5 DEF WriteData, NoJob
  <2> QED
    <3>1. DOMAIN job = Handlers
      BY DEF TypeOK
    <3>2. /\ \A g \in Handlers \ {h} : job'[g] = job[g]
          /\ job'[h].rows = job[h].rows /\ job'[h].batch = job[h].batch
      BY <1>5, <3>1 DEF WriteData
    <3> QED
      BY <1>0, <1>5, <2>1, <3>2 DEF WriteData
<1>6. ASSUME NEW h \in Handlers, Upload(h) PROVE ReportHolds' /\ NothingDropped'
  <2>1. job[h] # NoJob
    BY <1>6 DEF Upload, NoJob
  <2> QED
    BY <1>0, <1>6, <2>1 DEF Upload, TypeOK
<1>7. ASSUME NEW h \in Handlers, WriteManifest(h) PROVE ReportHolds' /\ NothingDropped'
  <2>1. job[h] # NoJob
    BY <1>7 DEF WriteManifest, NoJob
  <2> QED
    BY <1>0, <1>7, <2>1 DEF WriteManifest, TypeOK
<1>8. ASSUME NEW h \in Handlers, Close(h) PROVE ReportHolds' /\ NothingDropped'
  <2> DEFINE b == job[h].batch
  <2>1. job[h] # NoJob /\ b \in Batches
    BY <1>8, BusyJob DEF Close, MayClose, NoJob
  <2>2. /\ batch'[b].report = batch[b].report /\ batch'[b].manifest.rows = job[h].rows
        /\ \A c \in Batches \ {b} : batch'[c] = batch[c]
        /\ \A c \in Batches : batch'[c].report = batch[c].report
    BY <1>8, <2>1 DEF Close, ManifestOf, TypeOK, BatchRows
  <2>3. \A g \in Handlers : job'[g] = IF g = h THEN NoJob ELSE job[g]
    BY <1>8 DEF Close, TypeOK
  <2>4. Ships(job[h].rows, b)
    BY <2>1
  <2>5. ReportHolds'
    <3>1. ASSUME NEW g \in Handlers, job'[g] # NoJob
          PROVE  (batch[job[g].batch].status # "absent" /\ Ships(job[g].rows, job[g].batch))'
      <4>1. g # h /\ job'[g] = job[g] /\ job[g].batch \in Batches
        BY <2>3, <3>1, BusyJob
      <4>2. batch'[b].status = "released"
        BY <1>8, <2>1 DEF Close, TypeOK, BatchRows
      <4> QED
        BY <2>2, <3>1, <4>1, <4>2 DEF Ships
    <3> QED
      BY <1>8, <2>2, <3>1 DEF Close
  <2>6. NothingDropped'
    BY <2>2, <2>4 DEF Ships, NothingDropped
  <2> QED
    BY <2>5, <2>6
<1>9. ASSUME NEW h \in Handlers, Fail(h) PROVE ReportHolds' /\ NothingDropped'
  BY <1>0, <1>9 DEF Fail, TypeOK
<1>10. CASE \E b \in Batches : LoseDisk(b)
  BY <1>0, <1>10 DEF LoseDisk
<1>11. CASE UNCHANGED vars
  BY <1>0, <1>11 DEF vars
<1> QED
  BY <1>1, <1>2, <1>3, <1>4, <1>5, <1>6, <1>7, <1>8, <1>9, <1>10, <1>11 DEF Next

(* C6: every task of the control report ships as one record, whatever is    *)
(* approved meanwhile and however approvals fail, are repeated or overlap.  *)
THEOREM ReportShips == Spec => []NothingDropped
<1>1. Init => ReportHolds /\ NothingDropped
  <2> SUFFICES ASSUME Init PROVE ReportHolds /\ NothingDropped
    OBVIOUS
  <2>1. \A b \in Batches : batch[b].report = {} /\ batch[b].status # "released"
    BY DEF Init, NoBatch
  <2>2. \A h \in Handlers : job[h] = NoJob
    BY DEF Init
  <2> QED
    BY <2>1, <2>2 DEF ReportHolds, NothingDropped
<1> QED
  BY <1>1, ReportStep, ReleaseTypes, PTL DEF Spec

-----------------------------------------------------------------------------
(* What is released is stored. *)

(* A step that leaves the files and the row of b alone, and the approvals   *)
(* on b but those it ends, keeps Alone(b).                                  *)
LEMMA AloneFrame ==
    ASSUME NEW b, Alone(b),
           batch'[b] = batch[b], disk'[b] = disk[b], store'[b] = store[b],
           \A h \in Handlers : job'[h].batch = b => job'[h] = job[h]
    PROVE  Alone(b)'
<1>1. ASSUME NEW h \in Handlers, job'[h].batch = b PROVE JobProgress(h)'
  BY <1>1 DEF Alone, JobProgress, ManifestOf
<1> QED
  BY <1>1 DEF Alone

(* One step of a handler: where its files are, when it works on b alone.    *)
LEMMA AloneProgress ==
    ASSUME TypeOK, NEW b \in Batches, Alone(b), NEW h \in Handlers, job[h].batch = b,
           WriteData(h) \/ Upload(h) \/ WriteManifest(h)
    PROVE  Alone(b)'
<1>1. /\ DOMAIN job = Handlers /\ DOMAIN disk = Batches /\ DOMAIN store = Batches
      /\ DOMAIN disk[b] = FileNames /\ DOMAIN store[b] = FileNames
  BY DEF TypeOK
<1>2. /\ batch'[b] = batch[b] /\ batch[b].status # "released"
      /\ \A g \in Handlers \ {h} : job'[g] = job[g] /\ job[g].batch # b
      /\ job'[h].batch = b /\ job'[h].rows = job[h].rows /\ ManifestOf(h)' = ManifestOf(h)
  <2>1. batch'[b] = batch[b] /\ batch[b].status # "released"
    BY DEF Alone, WriteData, Upload, WriteManifest
  <2>2. \A g \in Handlers \ {h} : job[g].batch # b
    BY DEF Alone
  <2>3. PICK at, queue : job' = [job EXCEPT ![h].at = at, ![h].queue = queue]
                      \/ job' = [job EXCEPT ![h].queue = queue]
    BY DEF WriteData, Upload, WriteManifest
  <2>4. /\ \A g \in Handlers \ {h} : job'[g] = job[g]
        /\ job'[h].batch = job[h].batch /\ job'[h].rows = job[h].rows
        /\ job'[h].approver = job[h].approver
    <3>1. job[h] \in Jobs
      BY BusyJob, ReleaseAssumption
    <3> QED
      BY <1>1, <2>3, <3>1 DEF Jobs
  <2> QED
    BY <2>1, <2>2, <2>3, <2>4 DEF ManifestOf
<1>3. JobProgress(h)
  BY DEF Alone
<1>4. DataFiles \subseteq FileNames /\ "manifest" \in FileNames \ DataFiles
  BY ListingAssumption DEF DataFiles
<1>5. CASE WriteData(h)
  <2>1. job[h] \in Jobs /\ job[h].rows # Nothing
    BY <1>5, BusyJob, WrittenContents DEF WriteData
  <2>2. /\ job'[h].at = "uploading"
        /\ \A f \in DataFiles : disk'[b][f] = job[h].rows /\ f \in job'[h].queue
    BY <1>1, <1>4, <1>5, <2>1 DEF WriteData
  <2>3. JobProgress(h)'
    BY <1>2, <2>2 DEF JobProgress
  <2> QED
    BY <1>2, <2>3 DEF Alone
<1>6. CASE Upload(h)
  <2>1. PICK f \in job[h].queue :
            /\ store' = [store EXCEPT ![b][f] = disk[b][f]]
            /\ job' = [job EXCEPT ![h].queue = @ \ {f}]
            /\ disk' = disk
    BY <1>6 DEF Upload
  <2>2. job[h] \in Jobs /\ f \in FileNames
    BY <2>1, BusyJob DEF Jobs
  <2>3. /\ job'[h].at = job[h].at /\ job'[h].queue = job[h].queue \ {f}
        /\ \A g \in FileNames : store'[b][g] = IF g = f THEN disk[b][f] ELSE store[b][g]
    BY <1>1, <2>1, <2>2
  <2>4. job[h].at # "writing"
    BY <1>3, <2>1 DEF JobProgress
  <2>5. CASE job[h].at = "uploading"
    <3>1. \A g \in DataFiles : disk'[b][g] = job'[h].rows
                               /\ (g \in job'[h].queue \/ store'[b][g] = job'[h].rows)
      BY <1>2, <1>3, <1>4, <2>1, <2>3, <2>5 DEF JobProgress
    <3>2. JobProgress(h)'
      BY <1>2, <2>3, <2>5, <3>1 DEF JobProgress
    <3> QED
      BY <1>2, <3>2 DEF Alone
  <2>6. CASE job[h].at = "closing"
    <3>1. f = "manifest" /\ job'[h].queue \subseteq {"manifest"}
      BY <1>3, <2>1, <2>3, <2>6 DEF JobProgress
    <3>2. store'[b]["manifest"] = ManifestOf(h) /\ disk'[b]["manifest"] = ManifestOf(h)
      BY <1>3, <2>1, <2>2, <2>3, <2>6, <3>1 DEF JobProgress
    <3>3. \A g \in DataFiles : store'[b][g] = job[h].rows
      BY <1>3, <1>4, <2>3, <2>6, <3>1 DEF JobProgress
    <3>4. JobProgress(h)'
      BY <1>2, <2>3, <2>6, <3>1, <3>2, <3>3 DEF JobProgress
    <3> QED
      BY <1>2, <3>4 DEF Alone
  <2> QED
    BY <2>2, <2>4, <2>5, <2>6 DEF Jobs
<1>7. CASE WriteManifest(h)
  <2>1. \A f \in DataFiles : store[b][f] = job[h].rows
    BY <1>3, <1>7 DEF WriteManifest, JobProgress
  <2>2. /\ job'[h].at = "closing" /\ job'[h].queue = {"manifest"} /\ store' = store
        /\ disk'[b]["manifest"] = ManifestOf(h)
    BY <1>1, <1>4, <1>7 DEF WriteManifest
  <2>3. JobProgress(h)'
    BY <1>2, <2>1, <2>2 DEF JobProgress
  <2> QED
    BY <1>2, <2>3 DEF Alone
<1> QED
  BY <1>5, <1>6, <1>7

(* The end of the approval that works on b alone: b is released with what   *)
(* is in the bucket, and nobody works on it any more.                       *)
LEMMA AloneClose ==
    ASSUME TypeOK, NEW b \in Batches, Alone(b), NEW h \in Handlers, job[h].batch = b, Close(h)
    PROVE  Alone(b)'
<1>1. /\ batch'[b].manifest = ManifestOf(h) /\ store' = store /\ disk' = disk
      /\ \A g \in Handlers : job'[g] = IF g = h THEN NoJob ELSE job[g]
  BY DEF Close, TypeOK, BatchRows
<1>2. \A g \in Handlers : job'[g].batch # b
  BY <1>1, ReleaseAssumption DEF Alone, NoJob
<1>3. store[b]["manifest"] = ManifestOf(h) /\ Matches(store[b], ManifestOf(h))
  BY DEF Close, MayClose, Alone, JobProgress, Matches, ManifestOf
<1> QED
  BY <1>1, <1>2, <1>3 DEF Alone, Matches

(* A batch on which approvals have not met keeps Alone.                     *)
LEMMA AloneStep ==
    ASSUME TypeOK, [Next]_vars, NEW b \in Batches \ clashed', b \notin clashed => Alone(b)
    PROVE  Alone(b)'
<1>0. DOMAIN job = Handlers /\ DOMAIN batch = Batches
      /\ DOMAIN disk = Batches /\ DOMAIN store = Batches
  BY DEF TypeOK
<1>00. b \notin clashed /\ Alone(b)
  BY DEF Next, vars, Approve, BreakTrail, RequestExport, BeginApproval, WriteData, Upload,
         WriteManifest, Close, Fail, LoseDisk
<1>1. CASE \E r \in Records : Approve(r)
  BY <1>00, <1>1, AloneFrame DEF Approve
<1>2. CASE BreakTrail
  BY <1>00, <1>2, AloneFrame DEF BreakTrail
<1>3. CASE \E c \in Batches, u \in Users : RequestExport(c, u)
  <2> PICK c \in Batches, u \in Users : RequestExport(c, u)
    BY <1>3
  <2>1. UNCHANGED <<disk, store, job>>
    BY DEF RequestExport
  <2>2. CASE c = b
    <3>1. batch'[b].status = "pending_approval"
      BY <1>0, <2>2 DEF RequestExport, NoBatch
    <3> QED
      BY <1>00, <2>1, <3>1 DEF Alone, JobProgress, ManifestOf
  <2>3. CASE c # b
    <3>1. batch'[b] = batch[b]
      BY <2>3 DEF RequestExport
    <3> QED
      BY <1>00, <2>1, <3>1, AloneFrame
  <2> QED
    BY <2>2, <2>3
<1>4. CASE \E h \in Handlers, c \in Batches, u \in Users : BeginApproval(h, c, u)
  <2> PICK h \in Handlers, c \in Batches, u \in Users : BeginApproval(h, c, u)
    BY <1>4
  <2>1. PICK rows : job' = [job EXCEPT ![h] = [batch |-> c, approver |-> u, rows |-> rows,
                                               at |-> "writing", queue |-> {}]]
    BY DEF BeginApproval
  <2>2. /\ job'[h].batch = c /\ job'[h].at = "writing" /\ job'[h].queue = {}
        /\ \A g \in Handlers \ {h} : job'[g] = job[g]
        /\ UNCHANGED <<batch, disk, store>>
    BY <1>0, <2>1 DEF BeginApproval
  <2>3. CASE c = b
    <3>1. batch[b].status # "released" /\ \A g \in Handlers : job[g].batch # b
      BY <2>3 DEF BeginApproval, MayApprove
    <3>2. JobProgress(h)'
      BY <2>2 DEF JobProgress
    <3> QED
      BY <2>2, <3>1, <3>2 DEF Alone
  <2>4. CASE c # b
    <3>1. \A g \in Handlers : job'[g].batch = b => job'[g] = job[g]
      BY <2>2, <2>4
    <3> QED
      BY <1>00, <2>2, <3>1, AloneFrame
  <2> QED
    BY <2>3, <2>4
<1>5. ASSUME NEW h \in Handlers, WriteData(h) \/ Upload(h) \/ WriteManifest(h)
      PROVE  Alone(b)'
  <2>1. CASE job[h].batch = b
    BY <1>00, <1>5, <2>1, AloneProgress
  <2>2. CASE job[h].batch # b
    <3>1. batch'[b] = batch[b] /\ disk'[b] = disk[b] /\ store'[b] = store[b]
      BY <1>0, <1>5, <2>2 DEF WriteData, Upload, WriteManifest
    <3>2. \A g \in Handlers \ {h} : job'[g] = job[g]
      BY <1>0, <1>5 DEF WriteData, Upload, WriteManifest
    <3>3. job[h] \in Jobs
      BY <1>5, BusyJob DEF WriteData, Upload, WriteManifest
    <3>4. PICK at, queue : job' = [job EXCEPT ![h].at = at, ![h].queue = queue]
                        \/ job' = [job EXCEPT ![h].queue = queue]
      BY <1>5 DEF WriteData, Upload, WriteManifest
    <3>5. job'[h].batch # b
      BY <1>0, <2>2, <3>3, <3>4 DEF Jobs
    <3>6. \A g \in Handlers : job'[g].batch = b => job'[g] = job[g]
      BY <3>2, <3>5
    <3> QED
      BY <1>00, <3>1, <3>6, AloneFrame
  <2> QED
    BY <2>1, <2>2
<1>6. ASSUME NEW h \in Handlers, Close(h) PROVE Alone(b)'
  <2>1. CASE job[h].batch = b
    BY <1>00, <1>6, <2>1, AloneClose
  <2>2. CASE job[h].batch # b
    <3>1. batch'[b] = batch[b] /\ UNCHANGED <<disk, store>>
      BY <1>0, <1>6, <2>2 DEF Close
    <3>2. \A g \in Handlers : job'[g] = IF g = h THEN NoJob ELSE job[g]
      BY <1>0, <1>6 DEF Close
    <3>3. \A g \in Handlers : job'[g].batch = b => job'[g] = job[g]
      BY <3>2, ReleaseAssumption DEF NoJob
    <3> QED
      BY <1>00, <3>1, <3>3, AloneFrame
  <2> QED
    BY <2>1, <2>2
<1>7. ASSUME NEW h \in Handlers, Fail(h) PROVE Alone(b)'
  <2>1. \A g \in Handlers : job'[g] = IF g = h THEN NoJob ELSE job[g]
    BY <1>0, <1>7 DEF Fail
  <2> QED
    BY <1>00, <1>7, <2>1, AloneFrame, ReleaseAssumption DEF Fail, NoJob
<1>8. CASE \E c \in Batches : LoseDisk(c)
  <2> PICK c \in Batches : LoseDisk(c)
    BY <1>8
  <2>1. CASE c = b
    BY <1>00, <2>1 DEF LoseDisk, Alone
  <2>2. CASE c # b
    BY <1>00, <2>2, AloneFrame DEF LoseDisk
  <2> QED
    BY <2>1, <2>2
<1>9. CASE UNCHANGED vars
  BY <1>00, <1>9, AloneFrame DEF vars
<1> QED
  BY <1>1, <1>2, <1>3, <1>4, <1>5, <1>6, <1>7, <1>8, <1>9 DEF Next

(* The inductive invariant holds of every reachable state.                  *)
THEOREM ReleaseInvariant == Spec => []IInv
<1>1. Init => IInv
  <2> SUFFICES ASSUME Init PROVE IInv
    OBVIOUS
  <2>1. \A b \in Batches : batch[b].report = {} /\ batch[b].status # "released"
    BY DEF Init, NoBatch
  <2>2. \A h \in Handlers : job[h] = NoJob
    BY DEF Init
  <2>3. \A b \in Batches : Alone(b)
    BY <2>1, <2>2, ReleaseAssumption DEF Alone, NoJob
  <2> QED
    BY <2>1, <2>2, <2>3, TypeInit DEF IInv, ReportHolds, NothingDropped
<1>2. IInv /\ [Next]_vars => IInv'
  <2> SUFFICES ASSUME IInv, [Next]_vars PROVE IInv'
    OBVIOUS
  <2>1. \A b \in Batches \ clashed' : Alone(b)'
    BY AloneStep DEF IInv
  <2> QED
    BY <2>1, TypeStep, ReportStep DEF IInv
<1> QED
  BY <1>1, <1>2, PTL DEF Spec

(* C6: whenever the database says released, the bucket holds that release,  *)
(* whole, after any attempts that failed - where approvals did not overlap. *)
THEOREM ReleaseStored == Spec => []ReleasedIsStored
<1>1. IInv => ReleasedIsStored
  BY DEF IInv, Alone, ReleasedIsStored
<1> QED
  BY <1>1, ReleaseInvariant, PTL

(* C6: and no step changes the row or a file of a release, under the same   *)
(* proviso.                                                                 *)
THEOREM ReleaseKept == Spec => ReleaseIsFinal
<1>1. ASSUME IInv, [Next]_vars, NEW b \in Batches \ clashed, batch[b].status = "released"
      PROVE  batch'[b] = batch[b] /\ store'[b] = store[b]
  <2>1. /\ \A h \in Handlers : job[h].batch # b
        /\ DOMAIN batch = Batches /\ DOMAIN store = Batches
    BY <1>1 DEF IInv, Alone, TypeOK
  <2>2. CASE \E c \in Batches, u \in Users : RequestExport(c, u)
    BY <1>1, <2>1, <2>2 DEF RequestExport
  <2>3. CASE \E h \in Handlers : Upload(h)
    BY <2>1, <2>3 DEF Upload
  <2>4. CASE \E h \in Handlers : Close(h)
    BY <2>1, <2>4 DEF Close
  <2>5. CASE UNCHANGED <<batch, store>>
    BY <2>5
  <2> QED
    BY <1>1, <2>2, <2>3, <2>4, <2>5 DEF Next, vars, Approve, BreakTrail, BeginApproval, WriteData,
        WriteManifest, Fail, LoseDisk
<1>2. IInv /\ [Next]_vars => [\A b \in Batches \ clashed : batch[b].status = "released" =>
          batch'[b] = batch[b] /\ store'[b] = store[b]]_vars
  BY <1>1
<1> QED
  BY <1>2, ReleaseInvariant, PTL DEF Spec, ReleaseIsFinal

-----------------------------------------------------------------------------
(* The rate limiter.  Windows of the clock. *)

LEMMA Windows ==
    ASSUME NEW s \in Nat, NEW t \in Nat, s <= t
    PROVE  /\ WindowAt(s) \in 0 .. s
           /\ WindowAt(s) <= WindowAt(t)
           /\ t <= s + Window - 1 => WindowAt(t) \in {WindowAt(s), WindowAt(s) + 1}
<1>1. Window \in Nat \ {0}
  BY RateLimitAssumption
<1>2. ASSUME NEW x \in Nat, NEW d \in Nat \ {0}
      PROVE  /\ x \div d \in Nat /\ d * (x \div d) <= x
             /\ x < d * (x \div d) + d
  BY SMT
<1>3. PICK p, q : p = WindowAt(s) /\ q = WindowAt(t)
  OBVIOUS
<1>4. /\ p \in Nat /\ q \in Nat
      /\ Window * p <= s /\ s < Window * p + Window
      /\ Window * q <= t /\ t < Window * q + Window
  <2>1. /\ s \div Window \in Nat /\ Window * (s \div Window) <= s
        /\ s < Window * (s \div Window) + Window
    BY <1>1, <1>2
  <2>2. /\ t \div Window \in Nat /\ Window * (t \div Window) <= t
        /\ t < Window * (t \div Window) + Window
    BY <1>1, <1>2
  <2> QED
    BY <1>3, <2>1, <2>2 DEF WindowAt
<1>5. ASSUME NEW n \in Nat \ {0}, NEW k \in Nat, NEW l \in Nat, k <= l PROVE n * k <= n * l
  BY <1>5, SMT
<1>6. p <= s
  <2>1. ASSUME NEW n \in Nat \ {0}, NEW k \in Nat PROVE k <= n * k
    BY SMT
  <2> QED
    BY <1>1, <1>4, <2>1
<1>7. p <= q
  <2>1. SUFFICES ASSUME q + 1 <= p PROVE FALSE
    BY <1>4
  <2>2. Window * (q + 1) <= Window * p /\ Window * (q + 1) = Window * q + Window
    BY <1>1, <1>4, <1>5, <2>1
  <2> QED
    BY <1>1, <1>4, <2>2
<1>8. ASSUME t <= s + Window - 1 PROVE q <= p + 1
  <2>1. SUFFICES ASSUME p + 2 <= q PROVE FALSE
    BY <1>4
  <2>2. Window * (p + 2) <= Window * q /\ Window * (p + 2) = Window * p + 2 * Window
    BY <1>1, <1>4, <1>5, <2>1
  <2> QED
    BY <1>1, <1>4, <1>8, <2>2
<1> QED
  BY <1>3, <1>4, <1>6, <1>7, <1>8

-----------------------------------------------------------------------------
(* The inductive invariant: what the table counts, as long as it counts it, *)
(* is what was asked in the current window.                                 *)

WindowHits(i, m) == {k \in DOMAIN hits : hits[k].who = i /\ WindowAt(hits[k].at) = m}
Granted(i, m) == {k \in WindowHits(i, m) : hits[k].allowed}
UpTo(k) == {j \in WindowHits(hits[k].who, WindowAt(hits[k].at)) : j <= k}

Counted(i) == IF counts[i].window = WindowAt(now) THEN counts[i].count ELSE 0

(* Every entry is of this window or an earlier one, and none is forgotten.  *)
CountsHold ==
    \A i \in Identities :
        /\ counts[i].window <= WindowAt(now)
        /\ Counted(i) = Cardinality(WindowHits(i, WindowAt(now)))

FirstLimitGranted ==
    /\ \A k \in DOMAIN hits : hits[k].allowed <=> Cardinality(UpTo(k)) <= Limit
    /\ \A i \in Identities, m \in Nat : Cardinality(Granted(i, m)) <= Limit

TableBounded ==
    Cardinality(Tracked(counts)) > Cap =>
        \A i, j \in Tracked(counts) : counts[i].window = counts[j].window

LimitInv ==
    /\ LimiterTypeOK
    /\ Len(hits) <= MaxHits
    /\ \A k \in DOMAIN hits : hits[k].at <= now
    /\ CountsHold /\ FirstLimitGranted /\ TableBounded

(* Hits are numbered from 1 to Len(hits); sets of them are finite.          *)
LEMMA HitSets ==
    ASSUME LimiterTypeOK, NEW S \in SUBSET DOMAIN hits
    PROVE  /\ IsFiniteSet(S) /\ Cardinality(S) \in Nat /\ Cardinality(S) <= Len(hits)
           /\ S \subseteq 1 .. Len(hits)
<1>1. Len(hits) \in Nat /\ DOMAIN hits = 1 .. Len(hits)
  BY DEF LimiterTypeOK
<1>2. IsFiniteSet(1 .. Len(hits)) /\ Cardinality(1 .. Len(hits)) <= Len(hits)
  BY <1>1, FS_Interval
<1>3. IsFiniteSet(S) /\ Cardinality(S) <= Cardinality(1 .. Len(hits))
  BY <1>1, <1>2, FS_Subset
<1>4. Cardinality(S) \in Nat /\ Cardinality(1 .. Len(hits)) \in Nat
  BY <1>2, <1>3, FS_CardinalityType
<1> QED
  BY <1>1, <1>2, <1>3, <1>4

LEMMA HitTypes ==
    ASSUME LimitInv, NEW k \in DOMAIN hits
    PROVE  /\ hits[k].who \in Identities /\ hits[k].at \in 0 .. MaxTime
           /\ hits[k].allowed \in BOOLEAN /\ hits[k].at <= now
<1>1. hits[k] \in Answers
  BY DEF LimitInv, LimiterTypeOK
<1> QED
  BY <1>1 DEF LimitInv, Answers

(* A process that has answered nothing. *)
LEMMA EmptyTable ==
    ASSUME now \in 0 .. MaxTime, counts = NoCounts, hits = <<>>
    PROVE  LimitInv
<1>1. DOMAIN hits = {} /\ Len(hits) = 0 /\ hits \in Seq(Answers)
  OBVIOUS
<1>2. {MaxTime, MaxHits, Limit} \subseteq Nat
  BY RateLimitAssumption
<1>3. NoEntry \in [window : -1 .. MaxTime, count : 0 .. MaxHits] /\ NoEntry.window = -1
  BY <1>2 DEF NoEntry
<1>4. LimiterTypeOK
  BY <1>1, <1>3 DEF LimiterTypeOK, NoCounts
<1>5. WindowAt(now) \in Nat
  BY <1>2, Windows
<1>6. \A i, m : WindowHits(i, m) = {} /\ Granted(i, m) = {}
  BY <1>1 DEF WindowHits, Granted
<1>7. CountsHold
  <2>1. ASSUME NEW i \in Identities PROVE counts[i].window = -1 /\ Counted(i) = 0
    BY <1>3, <1>5 DEF NoCounts, Counted
  <2>2. \A i \in Identities : Cardinality(WindowHits(i, WindowAt(now))) = 0
    BY <1>6, FS_EmptySet
  <2>3. -1 <= WindowAt(now)
    BY <1>5
  <2> QED
    BY <2>1, <2>2, <2>3 DEF CountsHold
<1>8. FirstLimitGranted
  BY <1>1, <1>2, <1>6, FS_EmptySet DEF FirstLimitGranted
<1>9. TableBounded
  <2>1. Tracked(counts) = {}
    BY DEF Tracked, NoCounts
  <2> QED
    BY <2>1 DEF TableBounded
<1> QED
  BY <1>1, <1>2, <1>4, <1>7, <1>8, <1>9 DEF LimitInv

LEMMA TickKeeps == ASSUME LimitInv, Tick PROVE LimitInv'
<1>1. /\ now \in 0 .. MaxTime /\ now' = now + 1 /\ now' \in 0 .. MaxTime
      /\ counts' = counts /\ hits' = hits
  BY RateLimitAssumption DEF LimitInv, LimiterTypeOK, Tick
<1>2. PICK m, n : m = WindowAt(now) /\ n = WindowAt(now + 1)
  OBVIOUS
<1>3. m \in Nat /\ n \in Nat /\ m <= n /\ n = WindowAt(now')
  BY <1>1, <1>2, Windows
<1>4. \A i, l : WindowHits(i, l)' = WindowHits(i, l) /\ Granted(i, l)' = Granted(i, l)
  BY <1>1 DEF WindowHits, Granted, WindowAt
<1>5. \A k : UpTo(k)' = UpTo(k)
  BY <1>1 DEF UpTo, WindowHits, WindowAt
<1>6. LimiterTypeOK'
  BY <1>1 DEF LimitInv, LimiterTypeOK
<1>7. CountsHold'
  <2>1. ASSUME NEW i \in Identities
        PROVE  counts'[i].window <= n /\ Counted(i)' = Cardinality(WindowHits(i, n))
    <3>1. counts[i].window \in Int /\ counts[i].window <= m
      BY <1>2 DEF LimitInv, LimiterTypeOK, CountsHold
    <3>2. Counted(i)' = IF counts[i].window = n THEN counts[i].count ELSE 0
      BY <1>1, <1>3 DEF Counted
    <3>3. CASE m = n
      BY <1>1, <1>2, <3>1, <3>2, <3>3 DEF LimitInv, CountsHold, Counted
    <3>4. CASE m < n
      <4>1. ASSUME NEW k \in DOMAIN hits PROVE WindowAt(hits[k].at) <= m
        BY <1>1, <1>2, HitTypes, Windows
      <4>2. ASSUME NEW k \in WindowHits(i, n) PROVE FALSE
        <5>1. WindowAt(hits[k].at) = n /\ k \in DOMAIN hits
          BY DEF WindowHits
        <5> QED
          BY <1>3, <3>4, <4>1, <5>1
      <4>3. WindowHits(i, n) = {}
        BY <4>2
      <4>4. counts[i].window # n
        BY <1>3, <3>1, <3>4
      <4>5. Counted(i)' = 0
        BY <3>2, <4>4
      <4>6. Cardinality(WindowHits(i, n)) = 0
        BY <4>3, FS_EmptySet
      <4>7. counts[i].window <= n
        BY <1>3, <3>1, <3>4
      <4> QED
        BY <1>1, <4>5, <4>6, <4>7
    <3> QED
      BY <1>3, <3>3, <3>4
  <2> QED
    BY <1>3, <1>4, <2>1 DEF CountsHold
<1>8. FirstLimitGranted'
  BY <1>1, <1>4, <1>5 DEF LimitInv, FirstLimitGranted
<1>9. TableBounded'
  BY <1>1 DEF LimitInv, TableBounded, Tracked
<1>10. \A k \in DOMAIN hits' : hits'[k].at <= now'
  BY <1>1, HitTypes
<1> QED
  BY <1>1, <1>6, <1>7, <1>8, <1>9, <1>10 DEF LimitInv

(* What a hit leaves of the table. *)
LEMMA HitTable ==
    ASSUME LimitInv, NEW i \in Identities, Hit(i)
    PROVE  /\ DOMAIN counts' = Identities
           /\ \A j \in Identities :
                /\ counts'[j] \in [window : -1 .. MaxTime, count : 0 .. MaxHits]
                /\ counts'[j].window <= WindowAt(now)
                /\ Counted(j)' = IF j = i THEN Counted(i) + 1 ELSE Counted(j)
           /\ TableBounded'
<1>1. PICK m, p : m = WindowAt(now) /\ p = Counted(i)
  OBVIOUS
<1>2. /\ now \in 0 .. MaxTime /\ DOMAIN counts = Identities
      /\ \A j \in Identities : counts[j] \in [window : -1 .. MaxTime, count : 0 .. MaxHits]
      /\ Len(hits) \in Nat
  BY DEF LimitInv, LimiterTypeOK
<1>3. m \in Nat /\ m <= MaxTime
  BY <1>1, <1>2, RateLimitAssumption, Windows
<1>4. p \in Nat /\ p + 1 <= MaxHits
  <2>1. p = Cardinality(WindowHits(i, m))
    BY <1>1 DEF LimitInv, CountsHold
  <2>2. WindowHits(i, m) \subseteq DOMAIN hits
    BY DEF WindowHits
  <2>3. p \in Nat /\ p <= Len(hits)
    BY <2>1, <2>2, HitSets DEF LimitInv
  <2> QED
    BY <1>2, <2>3, RateLimitAssumption DEF Hit
<1>5. PICK entry : entry = [window |-> m, count |-> p + 1]
  OBVIOUS
<1>6. entry \in [window : -1 .. MaxTime, count : 0 .. MaxHits] /\ entry.window = m /\ entry.count = p + 1
  BY <1>3, <1>4, <1>5, RateLimitAssumption
<1>7. PICK table : table = [counts EXCEPT ![i] = entry]
  OBVIOUS
<1>8. /\ DOMAIN table = Identities /\ table[i] = entry
      /\ \A j \in Identities \ {i} : table[j] = counts[j]
  BY <1>2, <1>7
<1>9. counts' = Purge(table) /\ now' = now /\ WindowAt(now') = m
  BY <1>1, <1>5, <1>7 DEF Hit, Counted
<1>10. /\ DOMAIN counts' = Identities
       /\ \A j \in Identities :
            counts'[j] = table[j] \/ (counts'[j] = NoEntry /\ table[j].window # m)
  BY <1>1, <1>8, <1>9 DEF Purge
<1>11. /\ NoEntry \in [window : -1 .. MaxTime, count : 0 .. MaxHits]
       /\ NoEntry.window = -1 /\ NoEntry.count = 0
  BY RateLimitAssumption DEF NoEntry
<1>12. ASSUME NEW j \in Identities
       PROVE  /\ counts'[j] \in [window : -1 .. MaxTime, count : 0 .. MaxHits]
              /\ counts'[j].window <= m
              /\ Counted(j)' = IF j = i THEN p + 1 ELSE Counted(j)
  <2>1. /\ table[j] \in [window : -1 .. MaxTime, count : 0 .. MaxHits]
        /\ table[j].window <= m
    BY <1>1, <1>2, <1>3, <1>6, <1>8 DEF LimitInv, CountsHold
  <2>2. Counted(j)' = IF counts'[j].window = m THEN counts'[j].count ELSE 0
    BY <1>9 DEF Counted
  <2>3. Counted(j)' = IF table[j].window = m THEN table[j].count ELSE 0
    <3>1. CASE counts'[j] = table[j]
      BY <2>2, <3>1
    <3>2. CASE counts'[j] = NoEntry /\ table[j].window # m
      <4>1. counts'[j].window # m
        BY <1>3, <1>11, <3>2
      <4> QED
        BY <2>2, <3>2, <4>1
    <3> QED
      BY <1>10, <3>1, <3>2
  <2>4. Counted(j)' = IF j = i THEN p + 1 ELSE Counted(j)
    BY <1>1, <1>6, <1>8, <2>3 DEF Counted
  <2>5. /\ counts'[j] \in [window : -1 .. MaxTime, count : 0 .. MaxHits]
        /\ counts'[j].window <= m
    BY <1>3, <1>10, <1>11, <2>1
  <2> QED
    BY <2>4, <2>5
<1>13. TableBounded'
  <2>1. CASE Cardinality(Tracked(table)) > Cap
    <3>1. \A j \in Identities :
            counts'[j] = IF table[j].window = m THEN table[j] ELSE NoEntry
      BY <1>1, <1>9, <2>1 DEF Purge
    <3>2. \A j \in Tracked(counts') : counts'[j].window = m
      BY <3>1 DEF Tracked
    <3> QED
      BY <3>2 DEF TableBounded
  <2>2. CASE ~(Cardinality(Tracked(table)) > Cap)
    <3>1. counts' = table
      BY <1>9, <2>2 DEF Purge
    <3> QED
      BY <2>2, <3>1 DEF TableBounded
  <2> QED
    BY <2>1, <2>2
<1> QED
  BY <1>1, <1>10, <1>12, <1>13

(* What a hit adds to what was answered. *)
Answered(i, n, m) ==
    /\ hits' \in Seq(Answers) /\ Len(hits') = n /\ n <= MaxHits
    /\ DOMAIN hits' = DOMAIN hits \cup {n} /\ n \notin DOMAIN hits
    /\ \A k \in DOMAIN hits : hits'[k] = hits[k] /\ k < n
    /\ hits'[n].who = i /\ hits'[n].at = now
    /\ hits'[n].allowed <=> Counted(i) + 1 <= Limit
    /\ \A j, l : WindowHits(j, l)' =
           WindowHits(j, l) \cup (IF j = i /\ l = m THEN {n} ELSE {})

LEMMA HitAnswers ==
    ASSUME LimitInv, NEW i \in Identities, Hit(i),
           NEW n, n = Len(hits) + 1, NEW m, m = WindowAt(now)
    PROVE  Answered(i, n, m)
<1>0. \E ok \in BOOLEAN : ok = (Counted(i) + 1 <= Limit)
  <2>1. CASE Counted(i) + 1 <= Limit
    <3>1. TRUE = (Counted(i) + 1 <= Limit)
      BY <2>1
    <3> QED
      BY <3>1
  <2>2. CASE ~(Counted(i) + 1 <= Limit)
    <3>1. FALSE = (Counted(i) + 1 <= Limit)
      BY <2>2
    <3> QED
      BY <3>1
  <2> QED
    BY <2>1, <2>2
<1> PICK ok \in BOOLEAN : ok = (Counted(i) + 1 <= Limit)
  BY <1>0
<1>1. PICK answer : answer = [who |-> i, at |-> now, allowed |-> ok]
  OBVIOUS
<1>2. hits' = Append(hits, answer)
  BY <1>0, <1>1 DEF Hit, Counted
<1>3. hits \in Seq(Answers) /\ now \in 0 .. MaxTime /\ answer \in Answers
  BY <1>1 DEF LimitInv, LimiterTypeOK, Answers
<1>4. /\ hits' \in Seq(Answers) /\ Len(hits') = n /\ n \in Nat
      /\ DOMAIN hits = 1 .. n - 1 /\ DOMAIN hits' = 1 .. n
      /\ hits'[n] = answer /\ \A k \in 1 .. n - 1 : hits'[k] = hits[k]
  BY <1>2, <1>3
<1>5. n <= MaxHits
  BY <1>4, RateLimitAssumption DEF Hit
<1>6. /\ DOMAIN hits' = DOMAIN hits \cup {n} /\ n \notin DOMAIN hits
      /\ \A k \in DOMAIN hits : hits'[k] = hits[k] /\ k < n
  BY <1>4
<1>7. ASSUME NEW j, NEW l
      PROVE  WindowHits(j, l)' = WindowHits(j, l) \cup (IF j = i /\ l = m THEN {n} ELSE {})
  <2>1. WindowHits(j, l)' = {k \in DOMAIN hits' : hits'[k].who = j /\ WindowAt(hits'[k].at) = l}
    BY DEF WindowHits, WindowAt
  <2>2. hits'[n].who = i /\ WindowAt(hits'[n].at) = m
    BY <1>1, <1>4
  <2> QED
    BY <1>6, <2>1, <2>2 DEF WindowHits
<1>8. hits'[n].who = i /\ hits'[n].at = now /\ (hits'[n].allowed <=> Counted(i) + 1 <= Limit)
  <2>1. hits'[n].who = i /\ hits'[n].at = now /\ hits'[n].allowed = ok
    BY <1>1, <1>4
  <2> QED
    BY <1>0, <2>1
<1> QED
  BY <1>4, <1>5, <1>6, <1>7, <1>8, Zenon DEF Answered

LEMMA HitKeeps == ASSUME LimitInv, NEW i \in Identities, Hit(i) PROVE LimitInv'
<1>1. PICK n, m : n = Len(hits) + 1 /\ m = WindowAt(now)
  OBVIOUS
<1>2. /\ hits' \in Seq(Answers) /\ Len(hits') = n /\ n <= MaxHits
      /\ DOMAIN hits' = DOMAIN hits \cup {n} /\ n \notin DOMAIN hits
      /\ \A k \in DOMAIN hits : hits'[k] = hits[k] /\ k < n
      /\ hits'[n].who = i /\ hits'[n].at = now
      /\ hits'[n].allowed <=> Counted(i) + 1 <= Limit
      /\ \A j, l : WindowHits(j, l)' =
             WindowHits(j, l) \cup (IF j = i /\ l = m THEN {n} ELSE {})
  <2>1. Answered(i, n, m)
    BY <1>1, HitAnswers
  <2> QED
    BY <2>1 DEF Answered
<1>3. /\ DOMAIN counts' = Identities
      /\ \A j \in Identities :
            /\ counts'[j] \in [window : -1 .. MaxTime, count : 0 .. MaxHits]
            /\ counts'[j].window <= m
            /\ Counted(j)' = IF j = i THEN Counted(i) + 1 ELSE Counted(j)
      /\ TableBounded'
  BY <1>1, HitTable
<1>4. now' = now /\ WindowAt(now)' = m /\ now \in 0 .. MaxTime /\ LimiterTypeOK
  BY <1>1 DEF Hit, WindowAt, LimitInv, LimiterTypeOK
<1>5. LimiterTypeOK'
  <2>1. counts' = [j \in Identities |-> counts'[j]]
    <3>1. \E f : counts' = [j \in Identities |-> f[j]]
      <4>1. DOMAIN counts = Identities /\ counts = [j \in Identities |-> counts[j]]
        BY DEF LimitInv, LimiterTypeOK
      <4>2. PICK table : table = [counts EXCEPT ![i] = [window |-> m, count |-> Counted(i) + 1]]
        OBVIOUS
      <4>3. table = [j \in Identities |-> table[j]]
        BY <4>1, <4>2
      <4>4. counts' = Purge(table)
        BY <1>1, <4>2 DEF Hit, Counted
      <4>5. CASE Cardinality(Tracked(table)) > Cap
        <5>1. PICK f : f = [j \in Identities |-> IF table[j].window = WindowAt(now) THEN table[j] ELSE NoEntry]
          OBVIOUS
        <5> QED
          BY <4>4, <4>5, <5>1 DEF Purge
      <4>6. CASE ~(Cardinality(Tracked(table)) > Cap)
        BY <4>3, <4>4, <4>6 DEF Purge
      <4> QED
        BY <4>5, <4>6
    <3> QED
      BY <3>1
  <2> QED
    BY <1>2, <1>3, <1>4, <2>1 DEF LimiterTypeOK
<1>6. \A k \in DOMAIN hits' : hits'[k].at <= now'
  <2>1. now <= now
    BY <1>4, RateLimitAssumption
  <2> QED
    BY <1>2, <1>4, <2>1, HitTypes
<1>7. PICK p : p = Counted(i)
  OBVIOUS
<1>8. m \in Nat /\ Limit \in Nat
  BY <1>1, <1>4, RateLimitAssumption, Windows
<1>9. /\ WindowHits(i, m) \subseteq DOMAIN hits /\ IsFiniteSet(WindowHits(i, m))
      /\ p = Cardinality(WindowHits(i, m)) /\ p \in Nat
  <2>1. WindowHits(i, m) \subseteq DOMAIN hits
    BY DEF WindowHits
  <2> QED
    BY <1>1, <1>4, <1>7, <2>1, HitSets DEF LimitInv, CountsHold
<1>10. /\ IsFiniteSet(WindowHits(i, m) \cup {n})
       /\ Cardinality(WindowHits(i, m) \cup {n}) = p + 1
  BY <1>2, <1>9, FS_AddElement
<1>11. CountsHold'
  <2>1. ASSUME NEW j \in Identities
        PROVE  Counted(j)' = Cardinality(WindowHits(j, m)')
    <3>1. CASE j = i
      BY <1>2, <1>3, <1>7, <1>10, <3>1
    <3>2. CASE j # i
      <4>1. WindowHits(j, m)' = WindowHits(j, m)
        BY <1>2, <3>2
      <4> QED
        BY <1>1, <1>3, <3>2, <4>1 DEF LimitInv, CountsHold
    <3> QED
      BY <3>1, <3>2
  <2> QED
    BY <1>3, <1>4, <2>1 DEF CountsHold
<1>12. ASSUME NEW k \in DOMAIN hits'
       PROVE  hits'[k].allowed <=> Cardinality(UpTo(k)') <= Limit
  <2>1. PICK who, w : who = hits'[k].who /\ w = WindowAt(hits'[k].at)
    OBVIOUS
  <2>2. UpTo(k)' = {j \in WindowHits(who, w)' : j <= k}
    BY <2>1 DEF UpTo, WindowAt
  <2>3. CASE k = n
    <3>1. who = i /\ w = m
      BY <1>1, <1>2, <2>1, <2>3
    <3>2. \A j \in WindowHits(i, m) \cup {n} : j <= n
      BY <1>1, <1>2, <1>9, HitSets DEF LimitInv, LimiterTypeOK
    <3>3. UpTo(k)' = WindowHits(i, m) \cup {n}
      BY <1>2, <2>2, <2>3, <3>1, <3>2
    <3> QED
      BY <1>2, <1>7, <1>10, <2>3, <3>3
  <2>4. CASE k \in DOMAIN hits
    <3>1. hits'[k] = hits[k] /\ k < n /\ k \in Nat /\ n \in Nat
      BY <1>1, <1>2, <1>4, <2>4 DEF LimiterTypeOK
    <3>2. UpTo(k) = {j \in WindowHits(who, w) : j <= k}
      BY <2>1, <3>1 DEF UpTo
    <3>3. ~(n <= k)
      BY <3>1
    <3>4. UpTo(k)' = UpTo(k)
      BY <1>2, <2>2, <3>2, <3>3
    <3> QED
      BY <2>4, <3>1, <3>4 DEF LimitInv, FirstLimitGranted
  <2> QED
    BY <1>2, <2>3, <2>4
<1>13. ASSUME NEW j \in Identities, NEW l \in Nat
       PROVE  Cardinality(Granted(j, l)') <= Limit
  <2>1. Granted(j, l)' = {k \in WindowHits(j, l)' : hits'[k].allowed}
    BY DEF Granted
  <2>2. /\ Granted(j, l) \subseteq WindowHits(j, l) /\ WindowHits(j, l) \subseteq DOMAIN hits
        /\ Granted(j, l) = {k \in WindowHits(j, l) : hits[k].allowed}
    BY DEF Granted, WindowHits
  <2>3. CASE j = i /\ l = m /\ hits'[n].allowed
    <3>1. Granted(j, l)' \subseteq WindowHits(i, m) \cup {n}
      BY <1>2, <2>1, <2>3
    <3>2. Cardinality(Granted(j, l)') <= p + 1 /\ IsFiniteSet(Granted(j, l)')
      BY <1>10, <3>1, FS_Subset
    <3>3. p + 1 <= Limit
      BY <1>2, <1>7, <2>3
    <3>4. Cardinality(Granted(j, l)') \in Nat
      BY <3>2, FS_CardinalityType
    <3> QED
      BY <1>8, <1>9, <3>2, <3>3, <3>4
  <2>4. CASE ~(j = i /\ l = m /\ hits'[n].allowed)
    <3>1. Granted(j, l)' = Granted(j, l)
      <4>1. CASE j = i /\ l = m
        <5>1. WindowHits(j, l)' = WindowHits(j, l) \cup {n} /\ ~hits'[n].allowed
          BY <1>2, <2>4, <4>1
        <5> QED
          BY <1>2, <2>1, <2>2, <5>1
      <4>2. CASE ~(j = i /\ l = m)
        <5>1. WindowHits(j, l)' = WindowHits(j, l)
          BY <1>2, <4>2
        <5> QED
          BY <1>2, <2>1, <2>2, <5>1
      <4> QED
        BY <4>1, <4>2
    <3> QED
      BY <3>1 DEF LimitInv, FirstLimitGranted
  <2> QED
    BY <2>3, <2>4
<1>14. FirstLimitGranted'
  BY <1>12, <1>13 DEF FirstLimitGranted
<1> QED
  BY <1>2, <1>3, <1>5, <1>6, <1>11, <1>14 DEF LimitInv

LEMMA LimiterStart == LimiterInit => LimitInv
<1> SUFFICES ASSUME LimiterInit PROVE LimitInv
  OBVIOUS
<1>1. now \in 0 .. MaxTime /\ counts = NoCounts /\ hits = <<>>
  BY RateLimitAssumption DEF LimiterInit
<1> QED
  BY <1>1, EmptyTable

LEMMA LimiterStep == LimitInv /\ [LimiterNext]_limiterVars => LimitInv'
<1> SUFFICES ASSUME LimitInv, [LimiterNext]_limiterVars PROVE LimitInv'
  OBVIOUS
<1>1. ASSUME Restart PROVE LimitInv'
  <2>1. (now \in 0 .. MaxTime /\ counts = NoCounts /\ hits = <<>>)'
    BY <1>1 DEF Restart, LimitInv, LimiterTypeOK, NoCounts, NoEntry
  <2>2. (now \in 0 .. MaxTime /\ counts = NoCounts /\ hits = <<>> => LimitInv)'
    BY EmptyTable, PTL
  <2> QED
    BY <2>1, <2>2
<1>2. ASSUME UNCHANGED limiterVars PROVE LimitInv'
  <2>1. UNCHANGED <<now, counts, hits>>
    BY <1>2 DEF limiterVars
  <2>2. LimiterTypeOK' /\ (Len(hits) <= MaxHits /\ \A k \in DOMAIN hits : hits[k].at <= now)'
    BY <2>1 DEF LimitInv, LimiterTypeOK
  <2>3. CountsHold'
    BY <2>1 DEF LimitInv, CountsHold, Counted, WindowHits, WindowAt
  <2>4. FirstLimitGranted'
    BY <2>1 DEF LimitInv, FirstLimitGranted, Granted, UpTo, WindowHits, WindowAt
  <2>5. TableBounded'
    BY <2>1 DEF LimitInv, TableBounded, Tracked
  <2> QED
    BY <2>2, <2>3, <2>4, <2>5 DEF LimitInv
<1> QED
  BY <1>1, <1>2, HitKeeps, TickKeeps DEF LimiterNext

THEOREM LimitInvariant == LimiterSpec => []LimitInv
BY LimiterStart, LimiterStep, PTL DEF LimiterSpec

(***************************************************************************)
(* LimiterTypeOK: no count exceeds the requests this process can answer,   *)
(* through every purge and restart.                                        *)
(***************************************************************************)
THEOREM LimiterTypes == LimiterSpec => []LimiterTypeOK
<1>1. LimitInv => LimiterTypeOK
  BY DEF LimitInv
<1> QED
  BY <1>1, LimitInvariant, PTL

(* A span as long as a window lies in two of them.                          *)
LEMMA SpanGrants ==
    ASSUME LimitInv, NEW i \in Identities, NEW t \in 0 .. MaxTime
    PROVE  Cardinality({k \in HitsOf(i, t .. t + Window - 1) : hits[k].allowed}) <= 2 * Limit
<1>1. PICK w : w = WindowAt(t)
  OBVIOUS
<1>2. PICK S, A, B : /\ S = {k \in HitsOf(i, t .. t + Window - 1) : hits[k].allowed}
                     /\ A = Granted(i, w) /\ B = Granted(i, w + 1)
  OBVIOUS
<1>3. w \in Nat /\ t \in Nat /\ Window \in Nat /\ Limit \in Nat
  BY <1>1, RateLimitAssumption, Windows
<1>4. ASSUME NEW k \in S PROVE k \in A \cup B
  <2>1. /\ k \in DOMAIN hits /\ hits[k].who = i /\ hits[k].allowed
        /\ hits[k].at \in t .. t + Window - 1
    BY <1>2 DEF HitsOf
  <2>2. WindowAt(hits[k].at) \in {w, w + 1}
    BY <1>1, <1>3, <2>1, Windows
  <2> QED
    BY <1>2, <2>1, <2>2 DEF Granted, WindowHits
<1>5. A \subseteq DOMAIN hits /\ B \subseteq DOMAIN hits
  BY <1>2 DEF Granted, WindowHits
<1>6. IsFiniteSet(A) /\ IsFiniteSet(B)
  BY <1>5, HitSets DEF LimitInv
<1>7. Cardinality(A) <= Limit /\ Cardinality(B) <= Limit
  BY <1>2, <1>3 DEF LimitInv, FirstLimitGranted
<1>8. IsFiniteSet(A \cup B)
      /\ Cardinality(A \cup B) = Cardinality(A) + Cardinality(B) - Cardinality(A \cap B)
  BY <1>6, FS_Union
<1>9. IsFiniteSet(A \cap B)
  BY <1>6, FS_Subset
<1>10. Cardinality(A) \in Nat /\ Cardinality(B) \in Nat /\ Cardinality(A \cap B) \in Nat
  BY <1>6, <1>9, FS_CardinalityType
<1>11. S \subseteq A \cup B
  BY <1>4
<1>12. IsFiniteSet(S) /\ Cardinality(S) <= Cardinality(A \cup B)
  BY <1>8, <1>11, FS_Subset
<1>13. Cardinality(S) \in Nat
  BY <1>12, FS_CardinalityType
<1>14. Cardinality(S) <= 2 * Limit
  BY <1>3, <1>7, <1>8, <1>10, <1>12, <1>13
<1> QED
  BY <1>2, <1>14

(***************************************************************************)
(* LimitHolds: however the clock, the identities, the purges of the table  *)
(* and the restarts mix, exactly the first requests of a window are let    *)
(* through, and the table outgrows its cap with one window's only.         *)
(***************************************************************************)
THEOREM LimitKept == LimiterSpec => []LimitHolds
<1>1. ASSUME LimitInv PROVE LimitHolds
  <2>1. ASSUME NEW k \in DOMAIN hits, NEW times,
               times = {t \in 0 .. MaxTime : WindowAt(t) = WindowAt(hits[k].at)}
        PROVE  {j \in HitsOf(hits[k].who, times) : j <= k} = UpTo(k)
    BY <1>1, <2>1, HitTypes DEF HitsOf, UpTo, WindowHits
  <2>2. ASSUME NEW k \in DOMAIN hits
        PROVE  hits[k].allowed <=> Cardinality(UpTo(k)) <= Limit
    BY <1>1 DEF LimitInv, FirstLimitGranted
  <2>3. TableBounded
    BY <1>1 DEF LimitInv
  <2> QED
    BY <1>1, <2>1, <2>2, <2>3, SpanGrants DEF LimitHolds, TableBounded
<1>2. LimitInv => LimitHolds
  BY <1>1
<1> QED
  BY <1>2, LimitInvariant, PTL

-----------------------------------------------------------------------------
(* The two together, as MCRelease runs them. *)

(***************************************************************************)
(* What the run explores is a behaviour of Release and one of RateLimit,   *)
(* so the theorems about both hold of it.                                  *)
(***************************************************************************)
THEOREM Together == MCSpec => Spec /\ LimiterSpec
<1>1. MCInit => Init /\ LimiterInit
  BY DEF MCInit
<1>2. [MCNext]_<<vars, limiterVars>> => [Next]_vars /\ [LimiterNext]_limiterVars
  BY DEF MCNext
<1> QED
  BY <1>1, <1>2, PTL DEF MCSpec, Spec, LimiterSpec

(***************************************************************************)
(* MCTypeOK: a batch is released exactly when it has a manifest, and no    *)
(* count of the limiter exceeds the requests it can answer.                *)
(***************************************************************************)
THEOREM TogetherTypes == MCSpec => []MCTypeOK
<1>1. TypeOK /\ LimiterTypeOK => MCTypeOK
  BY DEF MCTypeOK
<1> QED
  BY <1>1, Together, ReleaseTypes, LimiterTypes, PTL
=============================================================================
