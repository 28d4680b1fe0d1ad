------------------------------- MODULE Knowledge -------------------------------
(***************************************************************************)
(* One document of the knowledge base, its versions and the queue of        *)
(* processing jobs (app/services/knowledge_service.py and                   *)
(* app/repositories/knowledge_repository.py).  People edit the document and *)
(* scan the watched folder; questions to the assistant work the queue off.  *)
(* All of them run at the same time; each action is one transaction with    *)
(* the computation around it.                                               *)
(***************************************************************************)
EXTENDS Integers, FiniteSets, Sequences

CONSTANTS
  Workers,      \* questions that process pending jobs
  Editors,      \* requests that change the document
  Files,        \* contents a file can have; also their hash
  Binary,       \* the files no text can be extracted from
  FolderKey,    \* storage key of the file in the watched folder
  NoStatus,     \* NULL in a column of business statuses
  NoJob,
  Choices,      \* business statuses a person sets by hand that are tried
  MaxParts,     \* texts a content is composed of (bound)
  MaxVersions, MaxJobs, MaxEdits   \* bounds

Text(f) == IF f \in Binary THEN <<>> ELSE <<f>>
\* The description stored with a file that has no text.
Description(f) == <<f>>
Contents == UNION {[1..n -> Files] : n \in 0..MaxParts}

\* An uploaded file keeps its digest in its key, the folder's file does not.
Keys == Files \cup {FolderKey}

Business == {"roboczy", "do_sprawdzenia", "do_akceptacji", "obowiazujacy", "archiwalny"}
Lifecycles == {"active", "archived", "deleted"}

ASSUME KnowledgeAssumption ==
  /\ {MaxVersions, MaxJobs, MaxEdits, MaxParts} \subseteq Nat \ {0}
  /\ Files # {} /\ Binary \subseteq Files /\ FolderKey \notin Files /\ NoStatus \notin Business
  /\ NoJob \notin Nat /\ Choices \subseteq Business

VARIABLES
  doc,       \* the row of knowledge_documents
  versions,  \* knowledge_document_versions of the document, a set of rows
  jobs,      \* knowledge_processing_jobs, in the order of their ids
  folder,    \* the file in the watched folder
  foreign,   \* another document holds the folder's storage key
  worker,    \* what each question knows between two transactions
  editor,    \* what each request knows between two transactions
  edits,     \* requests so far
  together,  \* history: two workers have processed jobs at the same time
  died       \* history: a worker or a request ended between two transactions (once)

vars == <<doc, versions, jobs, folder, foreign, worker, editor, edits, together, died>>

DocumentRows ==
  [stored : BOOLEAN, lifecycle : Lifecycles, status : {"queued", "processing", "ready", "error"},
   business : Business, before : Business \cup {NoStatus},
   content : Contents, hash : Files, key : Keys,
   current : 0..MaxVersions, official : 0..MaxVersions]

VersionRows == [number : 1..MaxVersions, content : Contents, hash : Files, key : Keys]

JobRows == [status : {"pending", "processing", "completed", "failed"},
            key : Keys, hash : Files, extra : Contents]

ASSUME NoJobAssumption == NoJob \notin JobRows

NewDocument(content, file, key) ==
  [stored |-> TRUE, lifecycle |-> "active", status |-> "queued", business |-> "roboczy",
   before |-> NoStatus, content |-> content, hash |-> file, key |-> key,
   current |-> 0, official |-> 0]

SomeFile == CHOOSE f \in Files : TRUE
NoDocument == [NewDocument(<<>>, SomeFile, FolderKey) EXCEPT !.stored = FALSE]

\* number and new: the number the job gives the document, and whether it is a new
\* version's; archived: the document was archived when it was read.
IdleWorker == [pc |-> "idle", job |-> NoJob, text |-> <<>>, number |-> 0, new |-> FALSE,
               archived |-> FALSE]
\* to: the lifecycle, and business, before: the statuses the request will write,
\* as it made them from the row it read.
IdleEditor == [pc |-> "idle", op |-> NoStatus, number |-> 0, to |-> NoStatus,
               business |-> NoStatus, before |-> NoStatus, job |-> NoJob]

Init ==
  /\ doc = NoDocument /\ versions = {} /\ jobs = <<>>
  /\ folder = SomeFile /\ foreign = FALSE
  /\ worker = [w \in Workers |-> IdleWorker]
  /\ editor = [e \in Editors |-> IdleEditor]
  /\ edits = 0 /\ together = FALSE /\ died = FALSE

-----------------------------------------------------------------------------
(* Contents, statuses and versions *)

FileAt(key) == IF key = FolderKey THEN folder ELSE key

Compose(extra, text) ==
  LET whole == extra \o text
  IN IF Len(whole) <= MaxParts THEN whole ELSE SubSeq(whole, 1, MaxParts)

Version(n) == CHOOSE v \in versions : v.number = n
HasVersion(n) == \E v \in versions : v.number = n

AfterNewVersion(row) ==
  IF row.lifecycle = "archived" THEN "archiwalny"
  ELSE IF row.official > 0 THEN "do_sprawdzenia" ELSE "roboczy"

AfterMarkingOfficial(row) == IF row.lifecycle = "archived" THEN "archiwalny" ELSE "obowiazujacy"

\* _derive_business_status_from_document of the document made active
Derived(row) ==
  IF row.current = 0 THEN "roboczy"
  ELSE IF row.official = 0 THEN "do_akceptacji"
  ELSE IF row.official < row.current THEN "do_sprawdzenia" ELSE "obowiazujacy"

Restored(row) ==
  IF row.before # NoStatus THEN row.before
  ELSE IF row.business # "archiwalny" THEN row.business ELSE Derived(row)

FaultyCompare(row, content, hash) == row.current = 0 \/ row.hash # hash

NewVersionNeeded(row, content, hash) ==
  row.current = 0 \/ row.content # content \/ row.hash # hash

FaultyNextNumber(row, new) == row.current + 1

NextNumber(row, new) == row.current + IF new THEN 1 ELSE 0

NewJob(key, hash, extra) == [status |-> "pending", key |-> key, hash |-> hash, extra |-> extra]

Busy(w) == worker[w].pc \notin {"idle", "dead"}
Working(e) == editor[e].pc \notin {"idle", "dead"}

-----------------------------------------------------------------------------
(* Questions process pending jobs *)

Pending == {j \in DOMAIN jobs : jobs[j].status = "pending"}

FaultyNextPending == IF Pending = {} THEN NoJob ELSE CHOOSE j \in Pending : \A k \in Pending : j >= k

NextPending == IF Pending = {} THEN NoJob ELSE CHOOSE j \in Pending : \A k \in Pending : j <= k

\* get_next_pending_job, of a question about any organization whose documents
\* for the assistant are all still queued, or of one whose loop goes on after a job:
\* between two jobs a question knows nothing.
TakeJob(w) ==
  /\ worker[w].pc = "idle" /\ NextPending # NoJob
  /\ worker' = [worker EXCEPT ![w] = [IdleWorker EXCEPT !.pc = "mark", !.job = NextPending]]
  /\ together' = (together \/ \E x \in Workers \ {w} : Busy(x))
  /\ UNCHANGED <<doc, versions, jobs, folder, foreign, editor, edits, died>>

\* mark_job_processing: no guard on the status of the job
MarkJob(w) ==
  /\ worker[w].pc = "mark"
  /\ jobs' = [jobs EXCEPT ![worker[w].job].status = "processing"]
  /\ worker' = [worker EXCEPT ![w].pc = "markDoc"]
  /\ UNCHANGED <<doc, versions, folder, foreign, editor, edits, together, died>>

MarkDocument(w) ==
  /\ worker[w].pc = "markDoc"
  /\ doc' = [doc EXCEPT !.status = "processing"]
  /\ worker' = [worker EXCEPT ![w].pc = "read"]
  /\ UNCHANGED <<versions, jobs, folder, foreign, editor, edits, together, died>>

\* _process_job reads the document and the file; the file may be gone or unreadable.
\* The number of a new version follows the row that was read.
ReadSource(w) ==
  LET job     == jobs[worker[w].job]
      content == Compose(job.extra, Text(FileAt(job.key)))
      new     == NewVersionNeeded(doc, content, job.hash)
  IN /\ worker[w].pc = "read"
     /\ \/ /\ content # <<>>
           /\ worker' = [worker EXCEPT ![w] = [@ EXCEPT
                !.pc = "store", !.text = content, !.archived = doc.lifecycle = "archived",
                !.new = new, !.number = NextNumber(doc, new)]]
        \/ worker' = [worker EXCEPT ![w].pc = "failJob"]
     /\ UNCHANGED <<doc, versions, jobs, folder, foreign, editor, edits, together, died>>

\* The document's update fails on the unique storage key when another document holds it.
Store(w) ==
  LET job == jobs[worker[w].job]
  IN /\ worker[w].pc = "store" /\ worker[w].number <= MaxVersions
     /\ IF job.key = FolderKey /\ foreign
        THEN worker' = [worker EXCEPT ![w].pc = "failJob"] /\ UNCHANGED doc
        ELSE /\ doc' = [doc EXCEPT
                  !.content = worker[w].text, !.hash = job.hash, !.key = job.key,
                  !.status = "ready", !.current = worker[w].number,
                  !.business = IF worker[w].archived THEN "archiwalny" ELSE @]
             /\ worker' = [worker EXCEPT ![w].pc = IF worker[w].new THEN "version" ELSE "complete"]
     /\ UNCHANGED <<versions, jobs, folder, foreign, editor, edits, together, died>>

\* create_version: (document, number) is unique.
CreateVersion(w) ==
  LET job    == jobs[worker[w].job]
      number == worker[w].number
  IN /\ worker[w].pc = "version"
     /\ IF HasVersion(number)
        THEN worker' = [worker EXCEPT ![w].pc = "failJob"] /\ UNCHANGED versions
        ELSE /\ versions' = versions \cup
                  {[number |-> number, content |-> worker[w].text, hash |-> job.hash, key |-> job.key]}
             /\ worker' = [worker EXCEPT ![w].pc = "complete"]
     /\ UNCHANGED <<doc, jobs, folder, foreign, editor, edits, together, died>>

\* The event and the document's relations are written after the mark; when one of them
\* fails, the job that was completed has failed after all.
CompleteJob(w) ==
  /\ worker[w].pc = "complete"
  /\ jobs' = [jobs EXCEPT ![worker[w].job].status = "completed"]
  /\ \/ worker' = [worker EXCEPT ![w] = IdleWorker]
     \/ worker' = [worker EXCEPT ![w].pc = "failJob"]
  /\ UNCHANGED <<doc, versions, folder, foreign, editor, edits, together, died>>

FailJob(w) ==
  /\ worker[w].pc = "failJob"
  /\ jobs' = [jobs EXCEPT ![worker[w].job].status = "failed"]
  /\ worker' = [worker EXCEPT ![w] = [IdleWorker EXCEPT !.pc = "failDoc"]]
  /\ UNCHANGED <<doc, versions, folder, foreign, editor, edits, together, died>>

FailDocument(w) ==
  /\ worker[w].pc = "failDoc"
  /\ doc' = [doc EXCEPT !.status = "error"]
  /\ worker' = [worker EXCEPT ![w] = IdleWorker]
  /\ UNCHANGED <<versions, jobs, folder, foreign, editor, edits, together, died>>

\* The process stops; the job and the document stay in processing.  One death (bound).
WorkerDies(w) ==
  /\ Busy(w) /\ ~died
  /\ worker' = [worker EXCEPT ![w] = [IdleWorker EXCEPT !.pc = "dead"]]
  /\ died' = TRUE
  /\ UNCHANGED <<doc, versions, jobs, folder, foreign, editor, edits, together>>

-----------------------------------------------------------------------------
(* Requests *)

Begun(e) ==
  /\ editor[e].pc = "idle" /\ edits < MaxEdits
  /\ edits' = edits + 1
  /\ UNCHANGED <<versions, folder, worker, together, died>>

\* add_document: the row is inserted, the job follows in its own transaction.  A
\* document typed by hand has its text as content and again beside its file.
Add(e) ==
  /\ Begun(e) /\ ~doc.stored
  /\ \E f \in Files, typed \in BOOLEAN :
       LET extra == IF f \in Binary THEN Description(f) ELSE IF typed THEN Text(f) ELSE <<>>
       IN /\ doc' = NewDocument(extra, f, f)
          /\ editor' = [editor EXCEPT ![e].pc = "job", ![e].job = NewJob(f, f, extra)]
  /\ UNCHANGED <<jobs, foreign>>

\* sync_folder looks the file up by its key.  A file without a document, or one
\* whose document now holds an uploaded file, becomes a document of its own.
ScanFolder(e) ==
  LET found == doc.stored /\ doc.key = FolderKey
      extra == IF folder \in Binary THEN Description(folder) ELSE <<>>
      job   == NewJob(FolderKey, folder, extra)
  IN /\ Begun(e)
     /\ \/ /\ ~doc.stored /\ ~foreign
           /\ doc' = NewDocument(extra, folder, FolderKey)
           /\ editor' = [editor EXCEPT ![e].pc = "job", ![e].job = job]
           /\ UNCHANGED foreign
        \/ /\ doc.stored /\ ~found /\ ~foreign
           /\ foreign' = TRUE /\ UNCHANGED <<doc, editor>>
        \/ /\ found
           /\ ~(doc.hash = folder /\ doc.status # "error" /\ doc.lifecycle # "deleted")
           /\ editor' = [editor EXCEPT ![e].pc = "write", ![e].op = "sync",
                               ![e].business = AfterNewVersion(doc), ![e].job = job]
           /\ UNCHANGED <<doc, foreign>>
     /\ UNCHANGED jobs

\* Every other request reads the document first, refuses by what it reads, and
\* makes what it will write from it.
ReadDocument(e, op, business, job) ==
  /\ Begun(e) /\ doc.stored
  /\ editor' = [editor EXCEPT ![e] = [IdleEditor EXCEPT
       !.pc = "write", !.op = op, !.business = business, !.job = job]]
  /\ UNCHANGED <<doc, jobs, foreign>>

Replace(e, f) ==
  /\ doc.lifecycle # "deleted"
  /\ ReadDocument(e, "replace", AfterNewVersion(doc),
                  NewJob(f, f, IF f \in Binary THEN Description(f) ELSE <<>>))

RestoreVersion(e, n) ==
  /\ HasVersion(n)
  /\ ReadDocument(e, "restoreVersion", AfterNewVersion(doc),
                  NewJob(Version(n).key, Version(n).hash, Version(n).content))

Reprocess(e) ==
  /\ doc.lifecycle # "deleted"
  /\ ReadDocument(e, "reprocess", NoStatus, NewJob(doc.key, doc.hash, <<>>))

\* _set_document_lifecycle: archiving keeps the status the document had.
SetLifecycle(e, to) ==
  /\ Begun(e) /\ doc.stored
  /\ editor' = [editor EXCEPT ![e] = [IdleEditor EXCEPT
       !.pc = "write", !.op = "lifecycle", !.to = to,
       !.business = CASE to = "archived" -> "archiwalny"
                      [] to = "active"   -> Restored(doc)
                      [] to = "deleted"  -> NoStatus,
       !.before = IF to = "archived" /\ doc.business # "archiwalny" THEN doc.business ELSE NoStatus]]
  /\ UNCHANGED <<doc, jobs, foreign>>

MarkFrom(e, n) ==
  /\ Begun(e) /\ doc.stored
  /\ editor' = [editor EXCEPT ![e] = [IdleEditor EXCEPT
       !.pc = "write", !.op = "official", !.number = n, !.business = AfterMarkingOfficial(doc)]]
  /\ UNCHANGED <<doc, jobs, foreign>>

FaultyMarkOfficial(e, n) ==
  /\ doc.lifecycle # "deleted" /\ doc.official # n
  /\ n <= doc.current + 1
  /\ MarkFrom(e, n)

\* mark_document_official_version, and the approval of decide_document_workflow
MarkOfficial(e, n) ==
  /\ doc.lifecycle # "deleted" /\ doc.official # n
  /\ HasVersion(n)
  /\ MarkFrom(e, n)

\* update_document_metadata
SetBusiness(e, to) ==
  /\ doc.lifecycle # "deleted"
  /\ doc.lifecycle = "archived" <=> to = "archiwalny"
  /\ to # doc.business
  /\ ReadDocument(e, "business", to, NoJob)

\* decide_document_workflow: an active document, with a version unless it is sent
\* back; what follows reads the document again.
Decide(e) ==
  /\ Begun(e) /\ doc.stored /\ doc.lifecycle = "active"
  /\ \E to \in Choices \ {"archiwalny"} :
       /\ to # "roboczy" => doc.current > 0
       /\ editor' = [editor EXCEPT ![e] = [IdleEditor EXCEPT
            !.pc = "decided", !.op = "business", !.business = to, !.number = doc.current]]
  /\ UNCHANGED <<doc, jobs, foreign>>

\* The second read, with the checks of update_document_metadata or of
\* mark_document_official_version.
ReadDecided(e) ==
  LET to == editor[e].business
      n  == editor[e].number
  IN /\ editor[e].pc = "decided"
     /\ editor' = [editor EXCEPT ![e] =
          IF to = "obowiazujacy"
          THEN IF doc.lifecycle # "deleted" /\ doc.official # n /\ HasVersion(n)
               THEN [@ EXCEPT !.pc = "write", !.op = "official", !.business = AfterMarkingOfficial(doc)]
               ELSE IdleEditor
          ELSE IF doc.lifecycle = "active" /\ doc.business # to
               THEN [@ EXCEPT !.pc = "write", !.number = 0]
               ELSE IdleEditor]
     /\ UNCHANGED <<doc, versions, jobs, folder, foreign, worker, edits, together, died>>

Moved(r) ==
  CASE r.to = "archived" -> [doc EXCEPT !.lifecycle = r.to, !.business = r.business, !.before = r.before]
    [] r.to = "deleted"  -> [doc EXCEPT !.lifecycle = r.to, !.status = "ready"]
    [] r.to = "active"   -> [doc EXCEPT !.lifecycle = r.to, !.business = r.business, !.before = NoStatus]

\* What each request writes; the other columns keep the value they have by now.  A
\* scan brings a deleted or archived document back.
Written(r) ==
  CASE r.op = "sync" -> [doc EXCEPT !.lifecycle = "active", !.status = "queued", !.hash = r.job.hash,
                                    !.key = FolderKey, !.business = r.business]
    [] r.op = "replace" -> [doc EXCEPT !.status = "queued", !.hash = r.job.hash, !.key = r.job.key,
                                       !.business = r.business]
    [] r.op = "restoreVersion" -> [doc EXCEPT !.status = "queued", !.business = r.business]
    [] r.op = "reprocess" -> [doc EXCEPT !.status = "queued"]
    [] r.op = "lifecycle" -> Moved(r)
    [] r.op = "official" -> [doc EXCEPT !.official = r.number, !.business = r.business]
    [] r.op = "business" -> [doc EXCEPT !.business = r.business]

Write(e) ==
  LET r == editor[e]
  IN /\ r.pc = "write"
     /\ IF r.op = "sync" /\ foreign
        THEN editor' = [editor EXCEPT ![e] = IdleEditor] /\ UNCHANGED doc
        ELSE /\ doc' = Written(r)
             /\ editor' = [editor EXCEPT ![e] =
                  IF r.job = NoJob THEN IdleEditor ELSE [IdleEditor EXCEPT !.pc = "job", !.job = r.job]]
     /\ UNCHANGED <<versions, jobs, folder, foreign, worker, edits, together, died>>

CreateJob(e) ==
  /\ editor[e].pc = "job" /\ Len(jobs) < MaxJobs
  /\ jobs' = Append(jobs, editor[e].job)
  /\ editor' = [editor EXCEPT ![e] = IdleEditor]
  /\ UNCHANGED <<doc, versions, folder, foreign, worker, edits, together, died>>

EditorDies(e) ==
  /\ Working(e) /\ ~died
  /\ editor' = [editor EXCEPT ![e] = [IdleEditor EXCEPT !.pc = "dead"]]
  /\ died' = TRUE
  /\ UNCHANGED <<doc, versions, jobs, folder, foreign, worker, edits, together>>

\* Someone saves another file in the watched folder (counted as a request).
FolderChanges ==
  /\ edits < MaxEdits /\ edits' = edits + 1
  /\ \E f \in Files \ {folder} : folder' = f
  /\ UNCHANGED <<doc, versions, jobs, foreign, worker, editor, together, died>>

-----------------------------------------------------------------------------
WorkerStep(w) ==
  \/ TakeJob(w) \/ MarkJob(w) \/ MarkDocument(w) \/ ReadSource(w) \/ Store(w)
  \/ CreateVersion(w) \/ CompleteJob(w) \/ FailJob(w) \/ FailDocument(w) \/ WorkerDies(w)

EditorStep(e) ==
  \/ Add(e) \/ ScanFolder(e) \/ Reprocess(e) \/ Decide(e) \/ ReadDecided(e)
  \/ \E f \in Files : Replace(e, f)
  \/ \E n \in 1..MaxVersions : RestoreVersion(e, n) \/ MarkOfficial(e, n)
  \/ \E to \in Lifecycles : SetLifecycle(e, to)
  \/ \E to \in Choices : SetBusiness(e, to)
  \/ Write(e) \/ CreateJob(e) \/ EditorDies(e)

Next ==
  \/ \E w \in Workers : WorkerStep(w)
  \/ \E e \in Editors : EditorStep(e)
  \/ FolderChanges

Spec == Init /\ [][Next]_vars

-----------------------------------------------------------------------------
WorkerPcs == {"idle", "mark", "markDoc", "read", "store", "version", "complete",
              "failJob", "failDoc", "dead"}

\* Every table, question and request holds values of its type.
TypeOK ==
  /\ doc \in DocumentRows /\ versions \subseteq VersionRows
  /\ \A j \in DOMAIN jobs : jobs[j] \in JobRows
  /\ folder \in Files /\ foreign \in BOOLEAN /\ edits \in 0..MaxEdits
  /\ \A w \in Workers : /\ worker[w].pc \in WorkerPcs /\ worker[w].text \in Contents
                        /\ worker[w].job \in (DOMAIN jobs) \cup {NoJob}
  /\ \A e \in Editors : /\ editor[e].pc \in {"idle", "write", "job", "decided", "dead"}
                        /\ {editor[e].business, editor[e].before} \subseteq Business \cup {NoStatus}
  /\ {together, died} \subseteq BOOLEAN

\* As long as no process dies, the versions are numbered without a gap and the
\* document's number is one of theirs: whatever jobs overlapped, a version that was
\* counted was stored (_process_job updates the document before it creates the version).
VersionsComplete ==
  ~died /\ (\A w \in Workers : worker[w].pc # "version") =>
    /\ {v.number : v \in versions} = 1..Cardinality(versions)
    /\ doc.current = 0 \/ HasVersion(doc.current)

\* Jobs done one at a time leave the document's text equal to that of its current
\* version, through replacements, restored versions, scans and lifecycle changes.
ContentIsCurrentVersion ==
  ~together /\ ~died /\ doc.current > 0 /\ (\A w \in Workers : worker[w].pc # "version")
    => doc.content = Version(doc.current).content

\* Jobs done one at a time are done in the order of their creation: once the queue is
\* empty the document holds the file of the last job, unless that one failed.
LastJobWins ==
  (/\ ~together /\ ~died /\ jobs # <<>> /\ Pending = {}
   /\ \A w \in Workers : ~Busy(w)
   /\ \A e \in Editors : editor[e].pc # "job"
   /\ jobs[Len(jobs)].status = "completed")
    => doc.hash = jobs[Len(jobs)].hash

\* The versions and the official number are a history: whatever jobs and requests
\* overlap or die, a stored version never changes, no number is stored twice, and the
\* official version is one that was stored.
History == INSTANCE VersionHistory WITH
  Numbers <- 1..MaxVersions, Rows <- VersionRows, published <- versions, official <- doc.official

ImplementsHistory == History!Spec

=============================================================================
