---------------------------- MODULE KnowledgeProofs ----------------------------
(***************************************************************************)
(* What holds of Knowledge for any number of questions, requests, files,    *)
(* versions and jobs: its types, that its versions and official number are  *)
(* a VersionHistory, that versions are numbered without a gap, and that     *)
(* jobs one after another leave the text and the file they should.          *)
(***************************************************************************)
EXTENDS Knowledge, FiniteSetTheorems, TLAPS

-----------------------------------------------------------------------------
(* Contents are short sequences of files.  After these lemmas sequences are  *)
(* never computed again.                                                     *)

LEMMA ContentsLemma == \A s : s \in Contents <=> s \in Seq(Files) /\ Len(s) <= MaxParts
<1>1. ASSUME NEW s \in Contents
      PROVE  s \in Seq(Files) /\ Len(s) <= MaxParts
  <2>1. PICK n \in 0..MaxParts : s \in [1..n -> Files]
    BY DEF Contents
  <2>2. s \in Seq(Files) /\ Len(s) = n
    BY <2>1, KnowledgeAssumption
  <2>3. QED
    BY <2>1, <2>2, KnowledgeAssumption
<1>2. ASSUME NEW s \in Seq(Files), Len(s) <= MaxParts
      PROVE  s \in Contents
  <2>1. Len(s) \in 0..MaxParts /\ s \in [1..Len(s) -> Files]
    BY <1>2, KnowledgeAssumption
  <2>2. QED
    BY <2>1 DEF Contents
<1>3. QED
  BY <1>1, <1>2

\* The texts of files, and what a job composes of them, are contents.
LEMMA TextLemma ==
  /\ <<>> \in Contents
  /\ \A f \in Files : Text(f) \in Contents /\ Description(f) \in Contents
<1>1. <<>> \in Seq(Files) /\ Len(<<>>) = 0
  OBVIOUS
<1>2. \A f \in Files : <<f>> \in Seq(Files) /\ Len(<<f>>) = 1
  OBVIOUS
<1>3. 0 <= MaxParts /\ 1 <= MaxParts
  BY KnowledgeAssumption
<1>4. <<>> \in Contents
  BY <1>1, <1>3, ContentsLemma
<1>5. ASSUME NEW f \in Files PROVE <<f>> \in Contents
  BY <1>2, <1>3, ContentsLemma
<1>6. QED
  BY <1>4, <1>5 DEF Text, Description

LEMMA ComposeLemma ==
  ASSUME NEW extra \in Contents, NEW text \in Contents
  PROVE  Compose(extra, text) \in Contents
<1>1. extra \in Seq(Files) /\ text \in Seq(Files)
  BY ContentsLemma
<1>2. extra \o text \in Seq(Files)
  BY <1>1
<1>3. CASE Len(extra \o text) <= MaxParts
  BY <1>2, <1>3, ContentsLemma DEF Compose
<1>4. CASE ~(Len(extra \o text) <= MaxParts)
  <2>1. MaxParts \in 0..Len(extra \o text)
    BY <1>2, <1>4, KnowledgeAssumption
  <2>2. SubSeq(extra \o text, 1, MaxParts) \in Seq(Files) /\ Len(SubSeq(extra \o text, 1, MaxParts)) <= MaxParts
    BY <1>2, <1>4, <2>1, KnowledgeAssumption
  <2>3. QED
    BY <1>4, <2>2, ContentsLemma DEF Compose
<1>5. QED
  BY <1>3, <1>4

\* A version that exists is found by its number.
LEMMA VersionLemma ==
  ASSUME versions \subseteq VersionRows, NEW n, HasVersion(n)
  PROVE  Version(n) \in VersionRows /\ n \in 1..MaxVersions
<1>1. PICK v \in versions : v.number = n
  BY DEF HasVersion
<1>2. Version(n) \in versions
  BY <1>1 DEF Version
<1>3. QED
  BY <1>1, <1>2 DEF VersionRows

-----------------------------------------------------------------------------
(* The inductive invariant.                                                  *)

Maybe == Business \cup {NoStatus}

WorkerRows ==
  [pc : WorkerPcs, job : Nat \cup {NoJob}, text : Contents, number : Nat,
   new : BOOLEAN, archived : BOOLEAN]

Operations ==
  {"sync", "replace", "restoreVersion", "reprocess", "lifecycle", "official", "business"}

EditorRows ==
  [pc : {"idle", "write", "job", "decided", "dead"},
   op : Operations \cup {NoStatus},
   number : 0..MaxVersions, to : Lifecycles \cup {NoStatus}, business : Maybe, before : Maybe,
   job : JobRows \cup {NoJob}]

\* The tables and what the processes know have their types.
Tables ==
  /\ doc \in DocumentRows /\ versions \subseteq VersionRows /\ jobs \in Seq(JobRows)
  /\ folder \in Files /\ foreign \in BOOLEAN /\ edits \in 0..MaxEdits
  /\ together \in BOOLEAN /\ died \in BOOLEAN

Processes == worker \in [Workers -> WorkerRows] /\ editor \in [Editors -> EditorRows]

\* A question at work has a job that exists, and a version it is about to insert a number.
WorkerInv ==
  \A w \in Workers :
    /\ worker[w].job \in (DOMAIN jobs) \cup {NoJob}
    /\ worker[w].pc \in {"mark", "markDoc", "read", "store", "version", "complete", "failJob"}
         => worker[w].job \in DOMAIN jobs
    /\ worker[w].pc = "store" /\ worker[w].new => worker[w].number >= 1
    /\ worker[w].pc = "version" => worker[w].number \in 1..MaxVersions

\* What a request is about to write: all of them but deletion and reprocessing have a status,
\* those that bring another text have a job, and an official number is that of a version.
Prepared(r) ==
  /\ r.op \in Operations
  /\ r.op \in {"sync", "replace"} => r.job \in JobRows
  /\ r.op \in {"sync", "replace", "restoreVersion", "official", "business"} => r.business \in Business
  /\ r.op = "lifecycle" => r.to \in Lifecycles /\ (r.to # "deleted" => r.business \in Business)
  /\ r.op = "official" => HasVersion(r.number)

EditorInv ==
  \A e \in Editors :
    /\ editor[e].pc \in {"write", "decided"} => doc.stored
    /\ editor[e].pc = "decided" => editor[e].op = "business" /\ editor[e].business \in Business
    /\ editor[e].pc = "write" => Prepared(editor[e])
    /\ editor[e].pc = "job" => editor[e].job \in JobRows

\* A document that does not exist yet has no official version.
UnstoredInv == ~doc.stored => doc.official = 0

IInv == Tables /\ Processes /\ WorkerInv /\ EditorInv /\ UnstoredInv

LEMMA SomeFileLemma == SomeFile \in Files
BY KnowledgeAssumption DEF SomeFile

LEMMA NewDocumentLemma ==
  ASSUME NEW content \in Contents, NEW file \in Files, NEW key \in Keys
  PROVE  NewDocument(content, file, key) \in DocumentRows
BY KnowledgeAssumption DEF NewDocument, DocumentRows, Lifecycles, Business

LEMMA InitIInv == Init => IInv
<1> SUFFICES ASSUME Init PROVE IInv
  OBVIOUS
<1>1. NoDocument \in DocumentRows /\ NoDocument.official = 0
  <2>1. NewDocument(<<>>, SomeFile, FolderKey) \in DocumentRows
    BY SomeFileLemma, TextLemma, NewDocumentLemma DEF Keys
  <2>2. NewDocument(<<>>, SomeFile, FolderKey).official = 0
    BY DEF NewDocument
  <2>3. QED
    BY <2>1, <2>2 DEF NoDocument, DocumentRows
<1>2. Tables
  <2>1. <<>> \in Seq(JobRows) /\ 0 \in 0..MaxEdits
    BY KnowledgeAssumption
  <2>2. QED
    BY <1>1, <2>1, SomeFileLemma DEF Init, Tables
<1>3. Processes
  <2>1. IdleWorker \in WorkerRows
    BY TextLemma DEF IdleWorker, WorkerRows, WorkerPcs
  <2>2. IdleEditor \in EditorRows
    BY KnowledgeAssumption DEF IdleEditor, EditorRows, Maybe
  <2>3. QED
    BY <2>1, <2>2 DEF Init, Processes
<1>4. WorkerInv /\ EditorInv /\ UnstoredInv
  BY <1>1 DEF Init, WorkerInv, EditorInv, UnstoredInv, IdleWorker, IdleEditor
<1>5. QED
  BY <1>2, <1>3, <1>4 DEF IInv

-----------------------------------------------------------------------------
(* Questions keep the invariant.                                             *)

LEMMA WorkerRowLemma ==
  ASSUME NEW r \in WorkerRows, NEW pc \in WorkerPcs
  PROVE  /\ [r EXCEPT !.pc = pc] \in WorkerRows
         /\ [IdleWorker EXCEPT !.pc = pc] \in WorkerRows
         /\ \A j \in Nat : [IdleWorker EXCEPT !.pc = pc, !.job = j] \in WorkerRows
BY TextLemma DEF WorkerRows, IdleWorker

LEMMA FileLemma ==
  ASSUME Tables, NEW key \in Keys
  PROVE  Text(FileAt(key)) \in Contents
<1>1. FileAt(key) \in Files
  BY DEF FileAt, Keys, Tables
<1>2. QED
  BY <1>1, TextLemma

LEMMA LeastLemma ==
  ASSUME NEW T \in SUBSET Nat, T # {}
  PROVE  \E n \in T : \A m \in T : n <= m
<1>1. OpToRel(<, Nat) = {ss \in Nat \X Nat : ss[1] < ss[2]}
  BY DEF OpToRel
<1>2. PICK n \in T : \A m \in T : ~(<<m, n>> \in OpToRel(<, Nat))
  BY NatLessThanWellFounded, WFMin
<1>3. ASSUME NEW m \in T PROVE n <= m
  <2>1. m \in Nat /\ n \in Nat
    OBVIOUS
  <2>2. ~(<<m, n>> \in {ss \in Nat \X Nat : ss[1] < ss[2]})
    BY <1>1, <1>2
  <2>3. QED
    BY <2>1, <2>2
<1>4. QED
  BY <1>3

\* The first pending job is a job.
LEMMA NextPendingLemma ==
  ASSUME Tables, NextPending # NoJob
  PROVE  NextPending \in DOMAIN jobs /\ NextPending \in Nat
<1>1. DOMAIN jobs \subseteq Nat
  BY DEF Tables
<1>2. Pending # {} /\ Pending \subseteq DOMAIN jobs
  BY DEF NextPending, Pending
<1>3. \E j \in Pending : \A k \in Pending : j <= k
  BY <1>1, <1>2, LeastLemma
<1>4. QED
  BY <1>1, <1>2, <1>3 DEF NextPending

\* A step of one question leaves the others and every request as they are.
LEMMA WorkerFrame ==
  ASSUME IInv, NEW w \in Workers, NEW r \in WorkerRows, worker' = [worker EXCEPT ![w] = r],
         UNCHANGED editor, DOMAIN jobs' = DOMAIN jobs, r.job \in (DOMAIN jobs) \cup {NoJob},
         r.pc \in {"mark", "markDoc", "read", "store", "version", "complete", "failJob"}
           => r.job \in DOMAIN jobs,
         r.pc = "store" /\ r.new => r.number >= 1,
         r.pc = "version" => r.number \in 1..MaxVersions
  PROVE  Processes' /\ WorkerInv'
<1>1. Processes'
  BY DEF IInv, Processes
<1>2. \A x \in Workers : worker'[x] = IF x = w THEN r ELSE worker[x]
  BY DEF IInv, Processes
<1>3. QED
  BY <1>1, <1>2 DEF IInv, WorkerInv

\* What requests know stays true while the document keeps its place and versions are only added.
LEMMA EditorFrame ==
  ASSUME IInv, UNCHANGED editor, doc'.stored = doc.stored, doc'.official = doc.official,
         versions \subseteq versions'
  PROVE  EditorInv' /\ UnstoredInv'
<1>1. \A n : HasVersion(n) => HasVersion(n)'
  BY DEF HasVersion
<1>2. EditorInv'
  <2> SUFFICES ASSUME NEW e \in Editors
               PROVE  /\ editor[e].pc \in {"write", "decided"} => doc'.stored
                      /\ editor[e].pc = "decided" => editor[e].op = "business" /\ editor[e].business \in Business
                      /\ editor[e].pc = "write" => Prepared(editor[e])'
                      /\ editor[e].pc = "job" => editor[e].job \in JobRows
    BY DEF EditorInv
  <2>1. Prepared(editor[e]) => Prepared(editor[e])'
    BY <1>1 DEF Prepared
  <2>2. QED
    BY <2>1 DEF IInv, EditorInv
<1>3. UnstoredInv'
  BY DEF IInv, UnstoredInv
<1>4. QED
  BY <1>2, <1>3

\* A job keeps its place in the queue when its status changes.
LEMMA JobLemma ==
  ASSUME Tables, NEW j \in DOMAIN jobs, NEW status \in {"processing", "completed", "failed"}
  PROVE  /\ [jobs EXCEPT ![j].status = status] \in Seq(JobRows)
         /\ DOMAIN [jobs EXCEPT ![j].status = status] = DOMAIN jobs
<1>1. jobs \in Seq(JobRows) /\ j \in 1..Len(jobs) /\ jobs[j] \in JobRows
  BY DEF Tables
<1>2. [jobs[j] EXCEPT !.status = status] \in JobRows
  BY <1>1 DEF JobRows
<1>3. [jobs EXCEPT ![j].status = status] = [jobs EXCEPT ![j] = [jobs[j] EXCEPT !.status = status]]
  BY <1>1
<1>4. QED
  BY <1>1, <1>2, <1>3

LEMMA TakeJobInv ==
  ASSUME IInv, NEW w \in Workers, TakeJob(w)
  PROVE  IInv'
<1> DEFINE r == [IdleWorker EXCEPT !.pc = "mark", !.job = NextPending]
<1>1. NextPending \in DOMAIN jobs /\ NextPending \in Nat
  BY NextPendingLemma DEF IInv, TakeJob
<1>2. r \in WorkerRows /\ r.pc = "mark" /\ r.job = NextPending
  <2>1. "mark" \in WorkerPcs
    BY DEF WorkerPcs
  <2>2. IdleWorker \in WorkerRows
    BY TextLemma DEF WorkerRows, WorkerPcs, IdleWorker
  <2>3. r \in WorkerRows
    BY <1>1, <2>1, <2>2, WorkerRowLemma
  <2>4. QED
    BY <2>3 DEF IdleWorker
<1>3. Processes' /\ WorkerInv'
  BY <1>1, <1>2, WorkerFrame DEF TakeJob
<1>4. EditorInv' /\ UnstoredInv'
  BY EditorFrame DEF TakeJob
<1>5. Tables'
  BY DEF IInv, Tables, TakeJob
<1>6. QED
  BY <1>3, <1>4, <1>5 DEF IInv

\* Marking a job or the document moves the question on, with the same knowledge.
LEMMA MoveLemma ==
  ASSUME IInv, NEW w \in Workers, NEW pc \in WorkerPcs \ {"store", "version"},
         worker[w].pc \in {"mark", "markDoc", "read", "store", "version", "complete", "failJob"},
         worker' = [worker EXCEPT ![w].pc = pc], UNCHANGED editor, DOMAIN jobs' = DOMAIN jobs
  PROVE  Processes' /\ WorkerInv'
<1> DEFINE r == [worker[w] EXCEPT !.pc = pc]
<1>1. worker[w] \in WorkerRows /\ worker[w].job \in DOMAIN jobs
  BY DEF IInv, Processes, WorkerInv
<1>2. r \in WorkerRows /\ r.pc = pc /\ r.job = worker[w].job
  BY <1>1, WorkerRowLemma DEF WorkerRows
<1>3. worker' = [worker EXCEPT ![w] = r]
  BY DEF IInv, Processes
<1>4. QED
  BY <1>1, <1>2, <1>3, WorkerFrame

LEMMA MarkJobInv ==
  ASSUME IInv, NEW w \in Workers, MarkJob(w)
  PROVE  IInv'
<1>1. worker[w].job \in DOMAIN jobs
  BY DEF IInv, WorkerInv, MarkJob
<1>2. jobs' \in Seq(JobRows) /\ DOMAIN jobs' = DOMAIN jobs
  BY <1>1, JobLemma DEF IInv, MarkJob
<1>3. Processes' /\ WorkerInv'
  BY <1>2, MoveLemma DEF MarkJob, WorkerPcs
<1>4. EditorInv' /\ UnstoredInv'
  BY EditorFrame DEF MarkJob
<1>5. Tables'
  BY <1>2 DEF IInv, Tables, MarkJob
<1>6. QED
  BY <1>3, <1>4, <1>5 DEF IInv

LEMMA MarkDocumentInv ==
  ASSUME IInv, NEW w \in Workers, MarkDocument(w)
  PROVE  IInv'
<1>1. doc \in DocumentRows /\ doc' = [doc EXCEPT !.status = "processing"]
  BY DEF IInv, Tables, MarkDocument
<1>2. doc' \in DocumentRows /\ doc'.stored = doc.stored /\ doc'.official = doc.official
  BY <1>1 DEF DocumentRows
<1>3. Processes' /\ WorkerInv'
  BY MoveLemma DEF MarkDocument, WorkerPcs
<1>4. EditorInv' /\ UnstoredInv'
  BY <1>2, EditorFrame DEF MarkDocument
<1>5. Tables'
  BY <1>2 DEF IInv, Tables, MarkDocument
<1>6. QED
  BY <1>3, <1>4, <1>5 DEF IInv

LEMMA ReadSourceInv ==
  ASSUME IInv, NEW w \in Workers, ReadSource(w)
  PROVE  IInv'
<1> DEFINE job == jobs[worker[w].job]
           content == Compose(job.extra, Text(FileAt(job.key)))
           new == NewVersionNeeded(doc, content, job.hash)
           r == [worker[w] EXCEPT !.pc = "store", !.text = content,
                   !.archived = doc.lifecycle = "archived",
                   !.new = new, !.number = NextNumber(doc, new)]
<1>1. worker[w] \in WorkerRows /\ worker[w].job \in DOMAIN jobs /\ job \in JobRows /\ worker[w].pc = "read"
  BY DEF IInv, Processes, WorkerInv, Tables, ReadSource
<1>2. content \in Contents
  BY <1>1, FileLemma, ComposeLemma DEF IInv, JobRows
<1>3. new \in BOOLEAN /\ NextNumber(doc, new) \in Nat /\ (new => NextNumber(doc, new) >= 1)
  BY DEF NewVersionNeeded, NextNumber, IInv, Tables, DocumentRows
<1>4. r \in WorkerRows /\ r.pc = "store" /\ r.job = worker[w].job /\ r.new = new /\ r.number = NextNumber(doc, new)
  BY <1>1, <1>2, <1>3 DEF WorkerRows, WorkerPcs
<1>5. Processes' /\ WorkerInv'
  <2>1. CASE worker' = [worker EXCEPT ![w] = r]
    <3> HIDE DEF r, new, content, job
    <3>1. UNCHANGED <<jobs, editor>>
      BY DEF ReadSource
    <3>2. QED
      BY <1>1, <1>3, <1>4, <2>1, <3>1, WorkerFrame
  <2>2. CASE worker' = [worker EXCEPT ![w].pc = "failJob"]
    BY <1>1, <2>2, MoveLemma DEF ReadSource, WorkerPcs
  <2>3. QED
    BY <2>1, <2>2 DEF ReadSource
<1>6. EditorInv' /\ UnstoredInv'
  BY EditorFrame DEF ReadSource
<1>7. Tables'
  BY DEF IInv, Tables, ReadSource
<1>8. QED
  BY <1>5, <1>6, <1>7 DEF IInv

\* What a job stores keeps the document a document.
LEMMA StoreLemma ==
  ASSUME IInv, NEW w \in Workers, Store(w), ~(jobs[worker[w].job].key = FolderKey /\ foreign)
  PROVE  doc' \in DocumentRows /\ doc'.stored = doc.stored /\ doc'.official = doc.official
<1> DEFINE job == jobs[worker[w].job]
           business == IF worker[w].archived THEN "archiwalny" ELSE doc.business
<1>1. worker[w] \in WorkerRows /\ job \in JobRows
  BY DEF IInv, Processes, WorkerInv, Tables, Store
<1>2. worker[w].number \in 0..MaxVersions /\ worker[w].text \in Contents
  BY <1>1 DEF WorkerRows, Store
<1>3. job.hash \in Files /\ job.key \in Keys
  BY <1>1 DEF JobRows
<1>4. doc \in DocumentRows
  BY DEF IInv, Tables
<1>5. business \in Business
  BY <1>4 DEF DocumentRows, Business
<1>6. doc' = [doc EXCEPT !.content = worker[w].text, !.hash = job.hash, !.key = job.key,
                         !.status = "ready", !.current = worker[w].number, !.business = business]
  BY <1>4 DEF Store, DocumentRows
<1> HIDE DEF job, business
<1>7. QED
  BY <1>2, <1>3, <1>4, <1>5, <1>6 DEF DocumentRows

LEMMA StoreInv ==
  ASSUME IInv, NEW w \in Workers, Store(w)
  PROVE  IInv'
<1> DEFINE lost == jobs[worker[w].job].key = FolderKey /\ foreign
           r == [worker[w] EXCEPT !.pc = IF worker[w].new THEN "version" ELSE "complete"]
<1>1. /\ worker[w].pc = "store" /\ worker[w] \in WorkerRows /\ worker[w].job \in DOMAIN jobs
      /\ worker[w].new => worker[w].number \in 1..MaxVersions
  BY DEF IInv, Processes, WorkerInv, WorkerRows, Store
<1>2. UNCHANGED <<jobs, editor, versions>>
  BY DEF Store
<1>3. CASE lost
  <2>1. Processes' /\ WorkerInv'
    BY <1>1, <1>2, <1>3, MoveLemma DEF Store, WorkerPcs
  <2>2. EditorInv' /\ UnstoredInv'
    BY <1>2, <1>3, EditorFrame DEF Store
  <2>3. Tables'
    BY <1>3 DEF IInv, Tables, Store
  <2>4. QED
    BY <2>1, <2>2, <2>3 DEF IInv
<1>4. CASE ~lost
  <2>1. doc' \in DocumentRows /\ doc'.stored = doc.stored /\ doc'.official = doc.official
    BY <1>4, StoreLemma
  <2>2. r \in WorkerRows /\ r.job = worker[w].job /\ r.number = worker[w].number /\ r.new = worker[w].new
        /\ r.pc \in {"version", "complete"} /\ (r.pc = "version" => worker[w].new)
    BY <1>1 DEF WorkerRows, WorkerPcs
  <2>3. worker' = [worker EXCEPT ![w] = r]
    BY <1>4 DEF Store, IInv, Processes
  <2>4. Processes' /\ WorkerInv'
    <3> HIDE DEF r, lost
    <3>1. QED
      BY <1>1, <1>2, <2>2, <2>3, WorkerFrame
  <2>5. EditorInv' /\ UnstoredInv'
    BY <1>2, <2>1, EditorFrame
  <2>6. Tables'
    BY <2>1 DEF IInv, Tables, Store
  <2>7. QED
    BY <2>4, <2>5, <2>6 DEF IInv
<1>5. QED
  BY <1>3, <1>4

LEMMA CreateVersionInv ==
  ASSUME IInv, NEW w \in Workers, CreateVersion(w)
  PROVE  IInv'
<1> DEFINE job == jobs[worker[w].job]
           row == [number |-> worker[w].number, content |-> worker[w].text,
                   hash |-> job.hash, key |-> job.key]
<1>1. /\ worker[w] \in WorkerRows /\ job \in JobRows /\ worker[w].pc = "version"
      /\ worker[w].number \in 1..MaxVersions
  BY DEF IInv, Processes, WorkerInv, Tables, CreateVersion
<1>2. row \in VersionRows
  BY <1>1 DEF WorkerRows, JobRows, VersionRows
<1>3. versions' \subseteq VersionRows /\ versions \subseteq versions'
  BY <1>2 DEF IInv, Tables, CreateVersion
<1>4. Processes' /\ WorkerInv'
  BY <1>1, MoveLemma DEF CreateVersion, WorkerPcs
<1>5. EditorInv' /\ UnstoredInv'
  BY <1>3, EditorFrame DEF CreateVersion
<1>6. Tables'
  BY <1>3 DEF IInv, Tables, CreateVersion
<1>7. QED
  BY <1>4, <1>5, <1>6 DEF IInv

LEMMA CompleteJobInv ==
  ASSUME IInv, NEW w \in Workers, CompleteJob(w)
  PROVE  IInv'
<1>1. worker[w].job \in DOMAIN jobs
  BY DEF IInv, WorkerInv, CompleteJob
<1>2. jobs' \in Seq(JobRows) /\ DOMAIN jobs' = DOMAIN jobs
  BY <1>1, JobLemma DEF IInv, CompleteJob
<1>3. Processes' /\ WorkerInv'
  <2>1. IdleWorker \in WorkerRows /\ IdleWorker.pc = "idle" /\ IdleWorker.job = NoJob
    BY TextLemma DEF WorkerRows, WorkerPcs, IdleWorker
  <2>2. QED
    BY <1>1, <1>2, <2>1, WorkerFrame, MoveLemma DEF CompleteJob, WorkerPcs
<1>4. EditorInv' /\ UnstoredInv'
  BY EditorFrame DEF CompleteJob
<1>5. Tables'
  BY <1>2 DEF IInv, Tables, CompleteJob
<1>6. QED
  BY <1>3, <1>4, <1>5 DEF IInv

\* A question that gives up its job knows nothing any more.
LEMMA ForgetLemma ==
  ASSUME IInv, NEW w \in Workers, NEW pc \in {"idle", "failDoc", "dead"},
         worker' = [worker EXCEPT ![w] = [IdleWorker EXCEPT !.pc = pc]],
         UNCHANGED editor, DOMAIN jobs' = DOMAIN jobs
  PROVE  Processes' /\ WorkerInv'
<1> DEFINE r == [IdleWorker EXCEPT !.pc = pc]
<1>1. pc \in WorkerPcs /\ IdleWorker \in WorkerRows
  BY TextLemma DEF WorkerRows, WorkerPcs, IdleWorker
<1>2. r \in WorkerRows /\ r.pc = pc /\ r.job = NoJob
  BY <1>1, WorkerRowLemma DEF IdleWorker
<1> HIDE DEF r
<1>3. QED
  BY <1>2, WorkerFrame DEF r

LEMMA FailJobInv ==
  ASSUME IInv, NEW w \in Workers, FailJob(w)
  PROVE  IInv'
<1>1. worker[w].job \in DOMAIN jobs
  BY DEF IInv, WorkerInv, FailJob
<1>2. jobs' \in Seq(JobRows) /\ DOMAIN jobs' = DOMAIN jobs
  BY <1>1, JobLemma DEF IInv, FailJob
<1>3. Processes' /\ WorkerInv'
  BY <1>2, ForgetLemma DEF FailJob
<1>4. EditorInv' /\ UnstoredInv'
  BY EditorFrame DEF FailJob
<1>5. Tables'
  BY <1>2 DEF IInv, Tables, FailJob
<1>6. QED
  BY <1>3, <1>4, <1>5 DEF IInv

LEMMA FailDocumentInv ==
  ASSUME IInv, NEW w \in Workers, FailDocument(w)
  PROVE  IInv'
<1>1. doc \in DocumentRows /\ doc' = [doc EXCEPT !.status = "error"]
  BY DEF IInv, Tables, FailDocument
<1>2. doc' \in DocumentRows /\ doc'.stored = doc.stored /\ doc'.official = doc.official
  BY <1>1 DEF DocumentRows
<1>3. Processes' /\ WorkerInv'
  <2>1. IdleWorker \in WorkerRows /\ IdleWorker.pc = "idle" /\ IdleWorker.job = NoJob
    BY TextLemma DEF WorkerRows, WorkerPcs, IdleWorker
  <2>2. QED
    BY <2>1, WorkerFrame DEF FailDocument
<1>4. EditorInv' /\ UnstoredInv'
  BY <1>2, EditorFrame DEF FailDocument
<1>5. Tables'
  BY <1>2 DEF IInv, Tables, FailDocument
<1>6. QED
  BY <1>3, <1>4, <1>5 DEF IInv

LEMMA WorkerDiesInv ==
  ASSUME IInv, NEW w \in Workers, WorkerDies(w)
  PROVE  IInv'
<1>1. Processes' /\ WorkerInv'
  BY ForgetLemma DEF WorkerDies
<1>2. EditorInv' /\ UnstoredInv'
  BY EditorFrame DEF WorkerDies
<1>3. Tables'
  BY DEF IInv, Tables, WorkerDies
<1>4. QED
  BY <1>1, <1>2, <1>3 DEF IInv

LEMMA WorkerStepInv ==
  ASSUME IInv, NEW w \in Workers, WorkerStep(w)
  PROVE  IInv'
BY TakeJobInv, MarkJobInv, MarkDocumentInv, ReadSourceInv, StoreInv, CreateVersionInv,
   CompleteJobInv, FailJobInv, FailDocumentInv, WorkerDiesInv DEF WorkerStep

-----------------------------------------------------------------------------
(* Requests keep the invariant.                                              *)

\* A step of one request leaves the others and every question as they are.
LEMMA RequestFrame ==
  ASSUME IInv, NEW e \in Editors, NEW r \in EditorRows, editor' = [editor EXCEPT ![e] = r],
         UNCHANGED <<worker, versions>>, DOMAIN jobs \subseteq DOMAIN jobs',
         doc.stored => doc'.stored,
         r.pc \in {"write", "decided"} => doc'.stored,
         r.pc = "decided" => r.op = "business" /\ r.business \in Business,
         r.pc = "write" => Prepared(r),
         r.pc = "job" => r.job \in JobRows
  PROVE  Processes' /\ WorkerInv' /\ EditorInv'
<1>1. Processes'
  BY DEF IInv, Processes
<1>2. WorkerInv'
  BY DEF IInv, WorkerInv
<1>3. \A x \in Editors : editor'[x] = IF x = e THEN r ELSE editor[x]
  BY DEF IInv, Processes
<1>4. EditorInv'
  <2> SUFFICES ASSUME NEW x \in Editors
               PROVE  /\ editor'[x].pc \in {"write", "decided"} => doc'.stored
                      /\ editor'[x].pc = "decided" => editor'[x].op = "business" /\ editor'[x].business \in Business
                      /\ editor'[x].pc = "write" => Prepared(editor[x])'
                      /\ editor'[x].pc = "job" => editor'[x].job \in JobRows
    BY DEF EditorInv
  <2>1. CASE x = e
    <3>1. editor'[x] = r
      BY <1>3, <2>1
    <3>2. Prepared(r) => Prepared(editor[x])'
      BY <3>1 DEF Prepared, HasVersion
    <3>3. QED
      BY <3>1, <3>2
  <2>2. CASE x # e
    <3>1. editor'[x] = editor[x]
      BY <1>3, <2>2
    <3>2. Prepared(editor[x]) => Prepared(editor[x])'
      BY <3>1 DEF Prepared, HasVersion
    <3>3. QED
      BY <3>1, <3>2 DEF IInv, EditorInv
  <2>3. QED
    BY <2>1, <2>2
<1>5. QED
  BY <1>1, <1>2, <1>4

LEMMA NewJobLemma ==
  ASSUME NEW key \in Keys, NEW hash \in Files, NEW extra \in Contents
  PROVE  NewJob(key, hash, extra) \in JobRows
BY DEF NewJob, JobRows

LEMMA IdleEditorLemma ==
  /\ IdleEditor \in EditorRows /\ IdleEditor.pc = "idle"
  /\ \A pc \in {"job", "dead"}, job \in JobRows :
       /\ [IdleEditor EXCEPT !.pc = pc] \in EditorRows
       /\ [IdleEditor EXCEPT !.pc = pc, !.job = job] \in EditorRows
<1>1. IdleEditor \in EditorRows
  BY KnowledgeAssumption DEF IdleEditor, EditorRows, Maybe
<1>2. IdleEditor.pc = "idle"
  BY DEF IdleEditor
<1>3. ASSUME NEW pc \in {"job", "dead"}, NEW job \in JobRows
      PROVE  /\ [IdleEditor EXCEPT !.pc = pc] \in EditorRows
             /\ [IdleEditor EXCEPT !.pc = pc, !.job = job] \in EditorRows
  BY <1>1 DEF EditorRows, Operations
<1>4. QED
  BY <1>1, <1>2, <1>3

\* A request that does not write the document now: the tables keep their types.
LEMMA ReadFrame ==
  ASSUME IInv, NEW e \in Editors, Begun(e), UNCHANGED <<doc, jobs, foreign>>
  PROVE  Tables' /\ UnstoredInv'
<1>1. edits' \in 0..MaxEdits
  BY KnowledgeAssumption DEF IInv, Tables, Begun
<1>2. QED
  BY <1>1 DEF IInv, Tables, UnstoredInv, Begun

\* A new document has its row, then its job.
LEMMA AddedInv ==
  ASSUME IInv, NEW e \in Editors, Begun(e), ~doc.stored, UNCHANGED <<jobs, foreign>>,
         NEW extra \in Contents, NEW file \in Files, NEW key \in Keys,
         doc' = NewDocument(extra, file, key),
         editor' = [editor EXCEPT ![e].pc = "job", ![e].job = NewJob(key, file, extra)]
  PROVE  IInv'
<1> DEFINE r == [editor[e] EXCEPT !.pc = "job", !.job = NewJob(key, file, extra)]
<1>1. editor[e] \in EditorRows /\ NewJob(key, file, extra) \in JobRows
  BY NewJobLemma DEF IInv, Processes
<1>2. r \in EditorRows /\ r.pc = "job" /\ r.job = NewJob(key, file, extra)
  BY <1>1 DEF EditorRows, Operations
<1>3. editor' = [editor EXCEPT ![e] = r]
  BY DEF IInv, Processes
<1>4. doc' \in DocumentRows /\ doc'.stored
  BY NewDocumentLemma DEF NewDocument
<1>5. Processes' /\ WorkerInv' /\ EditorInv'
  <2>1. UNCHANGED <<worker, versions, jobs>>
    BY DEF Begun
  <2> HIDE DEF r
  <2>2. QED
    BY <1>1, <1>2, <1>3, <1>4, <2>1, RequestFrame
<1>6. Tables'
  <2>1. edits' \in 0..MaxEdits
    BY KnowledgeAssumption DEF IInv, Tables, Begun
  <2>2. QED
    BY <1>4, <2>1 DEF IInv, Tables, Begun
<1>7. QED
  BY <1>4, <1>5, <1>6 DEF IInv, UnstoredInv

LEMMA AddInv ==
  ASSUME IInv, NEW e \in Editors, Add(e)
  PROVE  IInv'
<1>1. PICK f \in Files, typed \in BOOLEAN :
        LET extra == IF f \in Binary THEN Description(f) ELSE IF typed THEN Text(f) ELSE <<>>
        IN /\ doc' = NewDocument(extra, f, f)
           /\ editor' = [editor EXCEPT ![e].pc = "job", ![e].job = NewJob(f, f, extra)]
  BY DEF Add
<1> DEFINE extra == IF f \in Binary THEN Description(f) ELSE IF typed THEN Text(f) ELSE <<>>
<1>2. extra \in Contents /\ f \in Keys
  BY TextLemma DEF Keys
<1> HIDE DEF extra
<1>3. QED
  BY <1>1, <1>2, AddedInv DEF Add, extra

\* A request that has read the document, and what it prepared.
LEMMA PreparedInv ==
  ASSUME IInv, NEW e \in Editors, Begun(e), doc.stored, UNCHANGED <<doc, jobs, foreign>>,
         NEW r \in EditorRows, editor' = [editor EXCEPT ![e] = r],
         r.pc \in {"write", "decided"}, r.pc = "write" => Prepared(r),
         r.pc = "decided" => r.op = "business" /\ r.business \in Business
  PROVE  IInv'
<1>1. Processes' /\ WorkerInv' /\ EditorInv'
  <2>1. UNCHANGED <<worker, versions, jobs, doc>>
    BY DEF Begun
  <2>2. QED
    BY <2>1, RequestFrame
<1>2. QED
  BY <1>1, ReadFrame DEF IInv

\* Statuses made from a document are statuses.
LEMMA StatusLemma ==
  ASSUME doc \in DocumentRows
  PROVE  {AfterNewVersion(doc), AfterMarkingOfficial(doc), Restored(doc)} \subseteq Business
<1>1. AfterNewVersion(doc) \in Business /\ AfterMarkingOfficial(doc) \in Business
  BY DEF AfterNewVersion, AfterMarkingOfficial, Business
<1>2. Derived(doc) \in Business
  BY DEF Derived, Business
<1>3. Restored(doc) \in Business
  BY <1>2 DEF Restored, DocumentRows
<1>4. QED
  BY <1>1, <1>3

\* What ReadDocument prepares: a status, unless it reprocesses, and a job or none.
LEMMA ReadDocumentInv ==
  ASSUME IInv, NEW e \in Editors,
         NEW op \in {"replace", "restoreVersion", "reprocess", "business"},
         NEW business \in Maybe, NEW job \in JobRows \cup {NoJob},
         op # "reprocess" => business \in Business,
         op = "replace" => job \in JobRows,
         ReadDocument(e, op, business, job)
  PROVE  IInv'
<1> DEFINE r == [IdleEditor EXCEPT !.pc = "write", !.op = op, !.business = business, !.job = job]
<1>1. r \in EditorRows
  BY IdleEditorLemma DEF EditorRows, Operations
<1>2. r.pc = "write" /\ r.op = op /\ r.business = business /\ r.job = job
  BY DEF IdleEditor
<1> HIDE DEF r
<1>4. Prepared(r)
  BY <1>2 DEF Prepared, Operations
<1>5. QED
  BY <1>1, <1>2, <1>4, PreparedInv DEF ReadDocument, r

LEMMA ReplaceInv ==
  ASSUME IInv, NEW e \in Editors, NEW f \in Files, Replace(e, f)
  PROVE  IInv'
<1> DEFINE extra == IF f \in Binary THEN Description(f) ELSE <<>>
<1>1. extra \in Contents /\ f \in Keys
  BY TextLemma DEF Keys
<1> HIDE DEF extra
<1>2. NewJob(f, f, extra) \in JobRows
  BY <1>1, NewJobLemma
<1>3. AfterNewVersion(doc) \in Business
  BY StatusLemma DEF IInv, Tables
<1>4. QED
  BY <1>2, <1>3, ReadDocumentInv DEF Replace, Maybe, extra

LEMMA RestoreVersionInv ==
  ASSUME IInv, NEW e \in Editors, NEW n \in 1..MaxVersions, RestoreVersion(e, n)
  PROVE  IInv'
<1>1. Version(n) \in VersionRows
  BY VersionLemma DEF IInv, Tables, RestoreVersion
<1>2. NewJob(Version(n).key, Version(n).hash, Version(n).content) \in JobRows
  BY <1>1, NewJobLemma DEF VersionRows
<1>3. AfterNewVersion(doc) \in Business
  BY StatusLemma DEF IInv, Tables
<1>4. QED
  BY <1>2, <1>3, ReadDocumentInv DEF RestoreVersion, Maybe

LEMMA ReprocessInv ==
  ASSUME IInv, NEW e \in Editors, Reprocess(e)
  PROVE  IInv'
<1>1. NewJob(doc.key, doc.hash, <<>>) \in JobRows
  BY TextLemma, NewJobLemma DEF IInv, Tables, DocumentRows
<1>2. QED
  BY <1>1, ReadDocumentInv DEF Reprocess, Maybe

LEMMA SetBusinessInv ==
  ASSUME IInv, NEW e \in Editors, NEW to \in Choices, SetBusiness(e, to)
  PROVE  IInv'
<1>1. to \in Business
  BY KnowledgeAssumption
<1>2. QED
  BY <1>1, ReadDocumentInv DEF SetBusiness, Maybe

LEMMA ScanFolderInv ==
  ASSUME IInv, NEW e \in Editors, ScanFolder(e)
  PROVE  IInv'
<1> DEFINE extra == IF folder \in Binary THEN Description(folder) ELSE <<>>
           job == NewJob(FolderKey, folder, extra)
           found == doc.stored /\ doc.key = FolderKey
<1>1. extra \in Contents /\ folder \in Files /\ FolderKey \in Keys
  BY TextLemma DEF Keys, IInv, Tables
<1>2. Begun(e) /\ UNCHANGED jobs
  BY DEF ScanFolder
<1>3. CASE /\ ~doc.stored /\ UNCHANGED foreign
           /\ doc' = NewDocument(extra, folder, FolderKey)
           /\ editor' = [editor EXCEPT ![e].pc = "job", ![e].job = job]
  <2> HIDE DEF extra
  <2>1. QED
    BY <1>1, <1>2, <1>3, AddedInv
<1>4. CASE foreign' = TRUE /\ UNCHANGED <<doc, editor>>
  <2>1. Processes' /\ WorkerInv' /\ EditorInv' /\ UnstoredInv'
    BY <1>2, <1>4 DEF Begun, IInv, Processes, WorkerInv, EditorInv, UnstoredInv, Prepared, HasVersion
  <2>2. edits' \in 0..MaxEdits
    BY <1>2, KnowledgeAssumption DEF IInv, Tables, Begun
  <2>3. Tables'
    BY <1>2, <1>4, <2>2 DEF IInv, Tables, Begun
  <2>4. QED
    BY <2>1, <2>3 DEF IInv
<1>5. CASE /\ found /\ UNCHANGED <<doc, foreign>>
           /\ editor' = [editor EXCEPT ![e].pc = "write", ![e].op = "sync",
                               ![e].business = AfterNewVersion(doc), ![e].job = job]
  <2> DEFINE r == [editor[e] EXCEPT !.pc = "write", !.op = "sync",
                     !.business = AfterNewVersion(doc), !.job = job]
  <2>1. job \in JobRows /\ AfterNewVersion(doc) \in Business
    <3> HIDE DEF extra
    <3>1. QED
      BY <1>1, NewJobLemma, StatusLemma DEF IInv, Tables
  <2>2. editor[e] \in EditorRows
    BY DEF IInv, Processes
  <2> HIDE DEF job
  <2>3. r \in EditorRows
    BY <2>1, <2>2 DEF EditorRows, Operations, Maybe
  <2>4. r.pc = "write" /\ r.op = "sync" /\ r.business = AfterNewVersion(doc) /\ r.job = job
    BY <2>2 DEF EditorRows, Operations
  <2>5. editor' = [editor EXCEPT ![e] = r]
    BY <1>5 DEF IInv, Processes
  <2> HIDE DEF r
  <2>6. Prepared(r)
    BY <2>1, <2>3, <2>4 DEF Prepared, Operations
  <2>7. QED
    BY <1>2, <1>5, <2>3, <2>4, <2>5, <2>6, PreparedInv
<1>6. QED
  BY <1>3, <1>4, <1>5 DEF ScanFolder

LEMMA SetLifecycleInv ==
  ASSUME IInv, NEW e \in Editors, NEW to \in Lifecycles, SetLifecycle(e, to)
  PROVE  IInv'
<1> DEFINE business == CASE to = "archived" -> "archiwalny"
                         [] to = "active"   -> Restored(doc)
                         [] to = "deleted"  -> NoStatus
           before == IF to = "archived" /\ doc.business # "archiwalny" THEN doc.business ELSE NoStatus
           r == [IdleEditor EXCEPT !.pc = "write", !.op = "lifecycle", !.to = to,
                   !.business = business, !.before = before]
<1>1. business \in Maybe /\ (to # "deleted" => business \in Business) /\ before \in Maybe
  BY StatusLemma DEF IInv, Tables, DocumentRows, Lifecycles, Maybe, Business
<1>2. editor' = [editor EXCEPT ![e] = r]
  BY DEF SetLifecycle
<1> HIDE DEF business, before
<1>3. r \in EditorRows
  BY <1>1, IdleEditorLemma DEF EditorRows, Operations
<1>4. r.pc = "write" /\ r.op = "lifecycle" /\ r.to = to /\ r.business = business
  BY DEF IdleEditor
<1> HIDE DEF r
<1>5. Prepared(r)
  BY <1>1, <1>4 DEF Prepared, Operations
<1>6. QED
  BY <1>2, <1>3, <1>4, <1>5, PreparedInv DEF SetLifecycle

LEMMA MarkOfficialInv ==
  ASSUME IInv, NEW e \in Editors, NEW n \in 1..MaxVersions, MarkOfficial(e, n)
  PROVE  IInv'
<1> DEFINE r == [IdleEditor EXCEPT !.pc = "write", !.op = "official", !.number = n,
                   !.business = AfterMarkingOfficial(doc)]
<1>1. AfterMarkingOfficial(doc) \in Business
  BY StatusLemma DEF IInv, Tables
<1>2. r \in EditorRows
  <2>1. n \in 0..MaxVersions
    BY KnowledgeAssumption
  <2>2. QED
    BY <1>1, <2>1, IdleEditorLemma DEF EditorRows, Operations, Maybe
<1>3. r.pc = "write" /\ r.op = "official" /\ r.number = n /\ r.business = AfterMarkingOfficial(doc)
  BY DEF IdleEditor
<1>4. editor' = [editor EXCEPT ![e] = r] /\ HasVersion(n)
  BY DEF MarkOfficial, MarkFrom
<1> HIDE DEF r
<1>5. Prepared(r)
  BY <1>1, <1>3, <1>4 DEF Prepared, Operations
<1>6. QED
  BY <1>2, <1>3, <1>4, <1>5, PreparedInv DEF MarkOfficial, MarkFrom

LEMMA DecideInv ==
  ASSUME IInv, NEW e \in Editors, Decide(e)
  PROVE  IInv'
<1>1. PICK to \in Choices :
        editor' = [editor EXCEPT ![e] = [IdleEditor EXCEPT
          !.pc = "decided", !.op = "business", !.business = to, !.number = doc.current]]
  BY DEF Decide
<1> DEFINE r == [IdleEditor EXCEPT !.pc = "decided", !.op = "business", !.business = to,
                                   !.number = doc.current]
<1>2. to \in Business /\ doc.current \in 0..MaxVersions
  BY KnowledgeAssumption DEF IInv, Tables, DocumentRows
<1>3. r \in EditorRows
  BY <1>2, IdleEditorLemma DEF EditorRows, Operations, Maybe
<1>4. r.pc = "decided" /\ r.op = "business" /\ r.business = to
  BY DEF IdleEditor
<1>5. editor' = [editor EXCEPT ![e] = r]
  BY <1>1
<1> HIDE DEF r
<1>6. QED
  BY <1>2, <1>3, <1>4, <1>5, PreparedInv DEF Decide

\* The official version of an approved document is the one that was current when it was decided.
LEMMA ReadDecidedInv ==
  ASSUME IInv, NEW e \in Editors, ReadDecided(e)
  PROVE  IInv'
<1>1. /\ editor[e] \in EditorRows /\ editor[e].op = "business" /\ editor[e].business \in Business
      /\ doc.stored /\ AfterMarkingOfficial(doc) \in Business
  BY StatusLemma DEF IInv, Processes, EditorInv, Tables, ReadDecided
<1>2. UNCHANGED <<doc, versions, jobs, worker>>
  BY DEF ReadDecided
<1>3. ASSUME NEW r \in EditorRows, editor' = [editor EXCEPT ![e] = r], r.pc \in {"idle", "write"},
             r.pc = "write" => Prepared(r)
      PROVE  Processes' /\ WorkerInv' /\ EditorInv'
  BY <1>1, <1>2, <1>3, RequestFrame
<1>4. Processes' /\ WorkerInv' /\ EditorInv'
  <2> DEFINE n == editor[e].number
             r == [editor[e] EXCEPT !.pc = "write", !.op = "official",
                                    !.business = AfterMarkingOfficial(doc)]
             q == [editor[e] EXCEPT !.pc = "write", !.number = 0]
  <2>1. CASE HasVersion(n) /\ editor' = [editor EXCEPT ![e] = r]
    <3>1. r \in EditorRows /\ r.pc = "write" /\ r.op = "official" /\ r.number = n
          /\ r.business = AfterMarkingOfficial(doc)
      BY <1>1 DEF EditorRows, Operations, Maybe
    <3> HIDE DEF r
    <3>2. Prepared(r)
      BY <1>1, <2>1, <3>1 DEF Prepared, Operations
    <3>3. QED
      BY <1>3, <2>1, <3>1, <3>2
  <2>2. CASE editor' = [editor EXCEPT ![e] = q]
    <3>1. 0 \in 0..MaxVersions
      BY KnowledgeAssumption
    <3>2. q \in EditorRows /\ q.pc = "write" /\ q.op = "business" /\ q.business = editor[e].business
      BY <1>1, <3>1 DEF EditorRows, Operations
    <3> HIDE DEF q
    <3>3. Prepared(q)
      BY <1>1, <3>2 DEF Prepared, Operations
    <3>4. QED
      BY <1>3, <2>2, <3>2, <3>3
  <2>3. CASE editor' = [editor EXCEPT ![e] = IdleEditor]
    BY <1>3, <2>3, IdleEditorLemma
  <2>4. \/ HasVersion(n) /\ editor' = [editor EXCEPT ![e] = r]
        \/ editor' = [editor EXCEPT ![e] = q]
        \/ editor' = [editor EXCEPT ![e] = IdleEditor]
    BY DEF ReadDecided, IInv, Processes
  <2>5. QED
    BY <2>1, <2>2, <2>3, <2>4
<1>5. Tables' /\ UnstoredInv'
  BY DEF IInv, Tables, UnstoredInv, ReadDecided
<1>6. QED
  BY <1>4, <1>5 DEF IInv

\* What a request writes is a document, and its official version is one that exists.
LEMMA WrittenLemma ==
  ASSUME IInv, NEW r \in EditorRows, Prepared(r)
  PROVE  /\ Written(r) \in DocumentRows /\ Written(r).stored = doc.stored
         /\ Written(r).current = doc.current
         /\ r.op # "official" => Written(r).official = doc.official
         /\ r.op = "official" => Written(r).official = r.number
<1>1. doc \in DocumentRows
  BY DEF IInv, Tables
<1>2. CASE r.op = "sync"
  BY <1>1, <1>2 DEF Prepared, Written, DocumentRows, JobRows, Lifecycles, Keys
<1>3. CASE r.op = "replace"
  BY <1>1, <1>3 DEF Prepared, Written, DocumentRows, JobRows
<1>4. CASE r.op = "restoreVersion"
  BY <1>1, <1>4 DEF Prepared, Written, DocumentRows
<1>5. CASE r.op = "reprocess"
  BY <1>1, <1>5 DEF Prepared, Written, DocumentRows
<1>6. CASE r.op = "lifecycle"
  <2>1. Written(r) = Moved(r) /\ r.to \in Lifecycles
    BY <1>6 DEF Written, Prepared
  <2>2. CASE r.to = "archived"
    <3>1. r.business \in Business /\ r.before \in Maybe
      BY <1>6, <2>2 DEF Prepared, EditorRows
    <3>2. Moved(r) = [doc EXCEPT !.lifecycle = "archived", !.business = r.business, !.before = r.before]
      BY <2>2 DEF Moved
    <3>3. /\ "archived" \in Lifecycles /\ r.before \in Business \cup {NoStatus}
      BY <3>1 DEF Lifecycles, Maybe
    <3>4. Moved(r) \in DocumentRows /\ Moved(r).stored = doc.stored /\ Moved(r).official = doc.official
          /\ Moved(r).current = doc.current
      BY <1>1, <3>1, <3>2, <3>3 DEF DocumentRows
    <3>5. QED
      BY <1>6, <2>1, <3>4
  <2>3. CASE r.to = "deleted"
    BY <1>1, <1>6, <2>1, <2>3 DEF Moved, Prepared, DocumentRows, Lifecycles
  <2>4. CASE r.to = "active"
    <3>1. r.business \in Business
      BY <1>6, <2>4 DEF Prepared
    <3>2. Moved(r) = [doc EXCEPT !.lifecycle = "active", !.business = r.business, !.before = NoStatus]
      BY <2>4 DEF Moved
    <3>3. /\ "active" \in Lifecycles /\ NoStatus \in Business \cup {NoStatus}
      BY <3>1 DEF Lifecycles, Maybe
    <3>4. Moved(r) \in DocumentRows /\ Moved(r).stored = doc.stored /\ Moved(r).official = doc.official
          /\ Moved(r).current = doc.current
      BY <1>1, <3>1, <3>2, <3>3 DEF DocumentRows
    <3>5. QED
      BY <1>6, <2>1, <3>4
  <2>5. QED
    BY <2>1, <2>2, <2>3, <2>4 DEF Lifecycles
<1>7. CASE r.op = "official"
  BY <1>1, <1>7 DEF Prepared, Written, DocumentRows, EditorRows
<1>8. CASE r.op = "business"
  BY <1>1, <1>8 DEF Prepared, Written, DocumentRows
<1>9. QED
  BY <1>2, <1>3, <1>4, <1>5, <1>6, <1>7, <1>8 DEF Prepared, Operations

LEMMA WriteInv ==
  ASSUME IInv, NEW e \in Editors, Write(e)
  PROVE  IInv'
<1> DEFINE r == editor[e]
           q == IF r.job = NoJob THEN IdleEditor ELSE [IdleEditor EXCEPT !.pc = "job", !.job = r.job]
<1>1. r \in EditorRows /\ r.pc = "write" /\ Prepared(r) /\ doc.stored
  BY DEF IInv, Processes, EditorInv, Write
<1>2. UNCHANGED <<versions, jobs, worker>>
  BY DEF Write
<1>3. ASSUME NEW p \in EditorRows, editor' = [editor EXCEPT ![e] = p], doc'.stored,
             p.pc \in {"idle", "job"}, p.pc = "job" => p.job \in JobRows
      PROVE  Processes' /\ WorkerInv' /\ EditorInv'
  BY <1>2, <1>3, RequestFrame
<1>4. CASE UNCHANGED doc /\ editor' = [editor EXCEPT ![e] = IdleEditor]
  <2>1. Processes' /\ WorkerInv' /\ EditorInv'
    BY <1>1, <1>3, <1>4, IdleEditorLemma
  <2>2. QED
    BY <1>4, <2>1 DEF IInv, Tables, UnstoredInv, Write
<1>5. CASE doc' = Written(r) /\ editor' = [editor EXCEPT ![e] = q]
  <2>1. doc' \in DocumentRows /\ doc'.stored
    BY <1>1, <1>5, WrittenLemma
  <2>2. q \in EditorRows /\ q.pc \in {"idle", "job"} /\ (q.pc = "job" => q.job \in JobRows)
    <3>1. CASE r.job = NoJob
      BY <3>1, IdleEditorLemma
    <3>2. CASE r.job # NoJob
      <4>1. r.job \in JobRows
        BY <1>1, <3>2 DEF EditorRows
      <4>2. [IdleEditor EXCEPT !.pc = "job", !.job = r.job] \in EditorRows
        BY <4>1, IdleEditorLemma
      <4>3. QED
        BY <3>2, <4>1, <4>2 DEF IdleEditor
    <3>3. QED
      BY <3>1, <3>2
  <2>3. Processes' /\ WorkerInv' /\ EditorInv'
    <3> HIDE DEF q
    <3>1. QED
      BY <1>3, <1>5, <2>1, <2>2
  <2>4. QED
    BY <2>1, <2>3 DEF IInv, Tables, UnstoredInv, Write
<1>6. QED
  BY <1>4, <1>5 DEF Write

LEMMA CreateJobInv ==
  ASSUME IInv, NEW e \in Editors, CreateJob(e)
  PROVE  IInv'
<1>1. editor[e].job \in JobRows /\ jobs \in Seq(JobRows)
  BY DEF IInv, EditorInv, Tables, CreateJob
<1>2. jobs' \in Seq(JobRows) /\ DOMAIN jobs \subseteq DOMAIN jobs'
  BY <1>1 DEF CreateJob
<1>3. Processes' /\ WorkerInv' /\ EditorInv'
  <2>1. UNCHANGED <<doc, versions, worker>> /\ editor' = [editor EXCEPT ![e] = IdleEditor]
    BY DEF CreateJob
  <2>2. QED
    BY <1>2, <2>1, IdleEditorLemma, RequestFrame
<1>4. Tables' /\ UnstoredInv'
  BY <1>2 DEF IInv, Tables, UnstoredInv, CreateJob
<1>5. QED
  BY <1>3, <1>4 DEF IInv

LEMMA EditorDiesInv ==
  ASSUME IInv, NEW e \in Editors, EditorDies(e)
  PROVE  IInv'
<1> DEFINE r == [IdleEditor EXCEPT !.pc = "dead"]
<1>1. r \in EditorRows /\ r.pc = "dead"
  BY IdleEditorLemma DEF EditorRows
<1>2. UNCHANGED <<doc, versions, jobs, worker>> /\ editor' = [editor EXCEPT ![e] = r]
  BY DEF EditorDies
<1> HIDE DEF r
<1>3. Processes' /\ WorkerInv' /\ EditorInv'
  BY <1>1, <1>2, RequestFrame
<1>4. Tables' /\ UnstoredInv'
  BY DEF IInv, Tables, UnstoredInv, EditorDies
<1>5. QED
  BY <1>3, <1>4 DEF IInv

LEMMA EditorStepInv ==
  ASSUME IInv, NEW e \in Editors, EditorStep(e)
  PROVE  IInv'
BY AddInv, ScanFolderInv, ReprocessInv, DecideInv, ReadDecidedInv, ReplaceInv, RestoreVersionInv,
   MarkOfficialInv, SetLifecycleInv, SetBusinessInv, WriteInv, CreateJobInv, EditorDiesInv DEF EditorStep

\* Everything a process knows is about documents, versions and jobs only.
LEMMA UnchangedInv ==
  ASSUME IInv, UNCHANGED <<doc, versions, jobs, foreign, worker, editor, together, died>>,
         folder' \in Files, edits' \in 0..MaxEdits
  PROVE  IInv'
<1>1. Tables' /\ UnstoredInv' /\ Processes' /\ WorkerInv'
  BY DEF IInv, Tables, UnstoredInv, Processes, WorkerInv
<1>2. EditorInv'
  BY DEF IInv, EditorInv, Prepared, HasVersion
<1>3. QED
  BY <1>1, <1>2 DEF IInv

LEMMA NextIInv == IInv /\ [Next]_vars => IInv'
<1> SUFFICES ASSUME IInv, [Next]_vars PROVE IInv'
  OBVIOUS
<1>1. ASSUME NEW w \in Workers, WorkerStep(w) PROVE IInv'
  BY <1>1, WorkerStepInv
<1>2. ASSUME NEW e \in Editors, EditorStep(e) PROVE IInv'
  BY <1>2, EditorStepInv
<1>3. CASE FolderChanges
  <2>1. edits' \in 0..MaxEdits
    BY <1>3, KnowledgeAssumption DEF IInv, Tables, FolderChanges
  <2>2. QED
    BY <1>3, <2>1, UnchangedInv DEF FolderChanges
<1>4. CASE UNCHANGED vars
  BY <1>4, UnchangedInv DEF vars, IInv, Tables
<1>5. QED
  BY <1>1, <1>2, <1>3, <1>4 DEF Next

\* The inductive invariant holds of every behaviour.
THEOREM Inductive == Spec => []IInv
<1>1. Init => IInv
  BY InitIInv
<1>2. IInv /\ [Next]_vars => IInv'
  BY NextIInv
<1>3. QED
  BY <1>1, <1>2, PTL DEF Spec

-----------------------------------------------------------------------------
(* The theorems.                                                             *)

\* The tables and what questions and requests know hold values of their types, for any number of
\* them, of files, versions and jobs.
THEOREM TypeCorrect == Spec => []TypeOK
<1>1. IInv => TypeOK
  <2> SUFFICES ASSUME IInv PROVE TypeOK
    OBVIOUS
  <2>1. \A j \in DOMAIN jobs : jobs[j] \in JobRows
    BY DEF IInv, Tables
  <2>2. ASSUME NEW w \in Workers
        PROVE  /\ worker[w].pc \in WorkerPcs /\ worker[w].text \in Contents
               /\ worker[w].job \in (DOMAIN jobs) \cup {NoJob}
    BY DEF IInv, Processes, WorkerRows, WorkerInv
  <2>3. ASSUME NEW e \in Editors
        PROVE  /\ editor[e].pc \in {"idle", "write", "job", "decided", "dead"}
               /\ {editor[e].business, editor[e].before} \subseteq Business \cup {NoStatus}
    BY DEF IInv, Processes, EditorRows, Maybe
  <2>4. QED
    BY <2>1, <2>2, <2>3 DEF IInv, Tables, TypeOK
<1>2. QED
  BY <1>1, Inductive, PTL

\* The official number moves only when a request writes one, and then to a version that exists.
LEMMA OfficialLemma ==
  ASSUME IInv, Next, doc'.official # doc.official
  PROVE  UNCHANGED versions /\ \E n \in 1..MaxVersions : HasVersion(n) /\ doc'.official = n
<1>0. doc \in DocumentRows /\ versions \subseteq VersionRows
  BY DEF IInv, Tables
<1>1. ASSUME NEW w \in Workers, WorkerStep(w)
      PROVE  doc'.official = doc.official
  <2>1. CASE MarkDocument(w)
    BY <1>0, <2>1 DEF MarkDocument, DocumentRows
  <2>2. CASE FailDocument(w)
    BY <1>0, <2>2 DEF FailDocument, DocumentRows
  <2>3. CASE Store(w)
    <3>1. CASE jobs[worker[w].job].key = FolderKey /\ foreign
      BY <2>3, <3>1 DEF Store
    <3>2. CASE ~(jobs[worker[w].job].key = FolderKey /\ foreign)
      BY <2>3, <3>2, StoreLemma
    <3>3. QED
      BY <3>1, <3>2
  <2>4. CASE UNCHANGED doc
    BY <2>4
  <2>5. QED
    BY <1>1, <2>1, <2>2, <2>3, <2>4
    DEF WorkerStep, TakeJob, MarkJob, ReadSource, CreateVersion, CompleteJob, FailJob, WorkerDies
<1>2. ASSUME NEW e \in Editors, EditorStep(e), ~Write(e)
      PROVE  doc'.official = doc.official
  <2>1. CASE ~doc.stored /\ (Add(e) \/ ScanFolder(e))
    <3>1. doc.official = 0
      BY <2>1 DEF IInv, UnstoredInv
    <3>2. doc'.official = 0
      <4>1. ASSUME NEW content, NEW file, NEW key PROVE NewDocument(content, file, key).official = 0
        BY DEF NewDocument
      <4>2. QED
        BY <2>1, <3>1, <4>1 DEF Add, ScanFolder
    <3>3. QED
      BY <3>1, <3>2
  <2>2. CASE UNCHANGED doc
    BY <2>2
  <2>3. QED
    BY <1>2, <2>1, <2>2
    DEF EditorStep, Add, ScanFolder, Reprocess, Decide, ReadDecided, Replace, RestoreVersion, MarkOfficial,
        MarkFrom, SetLifecycle, SetBusiness, ReadDocument, CreateJob, EditorDies
<1>3. ASSUME NEW e \in Editors, Write(e), doc'.official # doc.official
      PROVE  UNCHANGED versions /\ \E n \in 1..MaxVersions : HasVersion(n) /\ doc'.official = n
  <2>1. editor[e] \in EditorRows /\ Prepared(editor[e])
    BY <1>3 DEF IInv, Processes, EditorInv, Write
  <2>2. UNCHANGED versions /\ doc' = Written(editor[e])
    BY <1>3 DEF Write
  <2>3. editor[e].op = "official" /\ doc'.official = editor[e].number
    BY <1>3, <2>1, <2>2, WrittenLemma
  <2>4. HasVersion(editor[e].number)
    BY <2>1, <2>3 DEF Prepared
  <2>5. editor[e].number \in 1..MaxVersions
    BY <1>0, <2>4, VersionLemma
  <2>6. QED
    BY <2>2, <2>3, <2>4, <2>5
<1>4. CASE FolderChanges
  BY <1>4 DEF FolderChanges
<1>5. QED
  BY <1>1, <1>2, <1>3, <1>4 DEF Next

\* Versions are only added, one at a time and with a number of its own.
LEMMA VersionsLemma ==
  ASSUME IInv, Next, versions' # versions
  PROVE  /\ doc' = doc
         /\ \E r \in VersionRows : ~HasVersion(r.number) /\ versions' = versions \cup {r}
<1>1. PICK w \in Workers : CreateVersion(w)
  BY DEF Next, WorkerStep, TakeJob, MarkJob, MarkDocument, ReadSource, Store, CompleteJob, FailJob,
         FailDocument, WorkerDies, EditorStep, Add, ScanFolder, Reprocess, Decide, ReadDecided, Replace,
         RestoreVersion, MarkOfficial, MarkFrom, SetLifecycle, SetBusiness, ReadDocument, Write,
         CreateJob, EditorDies, FolderChanges, Begun
<1> DEFINE job == jobs[worker[w].job]
           row == [number |-> worker[w].number, content |-> worker[w].text,
                   hash |-> job.hash, key |-> job.key]
<1>2. worker[w] \in WorkerRows /\ job \in JobRows /\ worker[w].number \in 1..MaxVersions
  BY <1>1 DEF IInv, Processes, WorkerInv, Tables, CreateVersion
<1>3. row \in VersionRows /\ row.number = worker[w].number
  BY <1>2 DEF WorkerRows, JobRows, VersionRows
<1>4. doc' = doc /\ ~HasVersion(worker[w].number) /\ versions' = versions \cup {row}
  BY <1>1 DEF CreateVersion
<1> HIDE DEF row
<1>5. QED
  BY <1>3, <1>4

\* The detailed queue, with its overlaps and deaths, implements the history its readers rely on:
\* no stored version changes or goes, no number is given twice (create_version's unique index), and
\* only a version that exists becomes official.
THEOREM ImplementsVersionHistory == Spec => ImplementsHistory
<1>1. Init => History!Init
  <2> SUFFICES ASSUME Init PROVE versions = {} /\ doc.official = 0
    BY DEF History!Init
  <2>1. QED
    BY DEF Init, NoDocument, NewDocument
<1>2. IInv /\ [Next]_vars => [History!Publish \/ History!Appoint]_<<versions, doc.official>>
  <2> SUFFICES ASSUME IInv, [Next]_vars
               PROVE  [History!Publish \/ History!Appoint]_<<versions, doc.official>>
    OBVIOUS
  <2>1. CASE UNCHANGED vars
    BY <2>1 DEF vars
  <2>2. CASE Next /\ versions' # versions
    <3>1. PICK r \in VersionRows : ~HasVersion(r.number) /\ versions' = versions \cup {r}
      BY <2>2, VersionsLemma
    <3>2. doc' = doc
      BY <2>2, VersionsLemma
    <3>3. r \in versions' \ versions /\ ~History!Numbered(r.number)
      BY <3>1 DEF HasVersion, History!Numbered
    <3>4. History!Publish
      BY <3>1, <3>2, <3>3 DEF History!Publish
    <3>5. QED
      BY <3>4
  <2>3. CASE Next /\ versions' = versions /\ doc'.official # doc.official
    <3>1. PICK n \in 1..MaxVersions : HasVersion(n) /\ doc'.official = n
      BY <2>3, OfficialLemma
    <3>2. History!Appoint
      BY <2>3, <3>1 DEF History!Appoint, History!Numbered, HasVersion
    <3>3. QED
      BY <3>2
  <2>4. QED
    BY <2>1, <2>2, <2>3
<1>3. QED
  BY <1>1, <1>2, Inductive, PTL DEF Spec, ImplementsHistory, History!Spec

-----------------------------------------------------------------------------
(* Versions have no gaps.  A number is taken when the document counts it     *)
(* and given when its version is inserted.  While nobody dies the numbers    *)
(* taken or given are 1..k, and a job that has read the document will take   *)
(* one of them, or the next.                                                 *)

Given == {v.number : v \in versions}
Taken == {worker[w].number : w \in {x \in Workers : worker[x].pc = "version"}}

GapInv(k) ==
  /\ Given \cup Taken = 1..k
  /\ doc.current \in 0..k
  /\ \A w \in Workers : worker[w].pc = "store" =>
       worker[w].number \in 1..(IF worker[w].new THEN k + 1 ELSE k)

Distinct == \A u, v \in versions : u.number = v.number => u = v

\* What a question that moves on takes, and what it no longer takes.
LEMMA TakenLemma ==
  ASSUME IInv, NEW w \in Workers, NEW r, worker' = [worker EXCEPT ![w] = r]
  PROVE  /\ worker[w].pc # "version" => Taken \subseteq Taken'
         /\ r.pc # "version" => Taken' \subseteq Taken
         /\ Taken' \subseteq Taken \cup {r.number}
         /\ Taken \subseteq Taken' \cup {worker[w].number}
         /\ r.pc = "version" => r.number \in Taken'
<1>1. \A x \in Workers : worker'[x] = IF x = w THEN r ELSE worker[x]
  BY DEF IInv, Processes
<1>2. QED
  BY <1>1 DEF Taken

\* A question that moves on without a number of its own.
LEMMA GapMove ==
  ASSUME IInv, NEW k \in Nat, GapInv(k), NEW w \in Workers, NEW r, worker' = [worker EXCEPT ![w] = r],
         worker[w].pc # "version", r.pc # "version", UNCHANGED versions, doc'.current \in 0..k,
         r.pc = "store" => r.number \in 1..(IF r.new THEN k + 1 ELSE k)
  PROVE  GapInv(k)'
<1>1. \A x \in Workers : worker'[x] = IF x = w THEN r ELSE worker[x]
  BY DEF IInv, Processes
<1>2. Given' = Given /\ Taken' = Taken
  BY TakenLemma DEF Given
<1>3. QED
  BY <1>1, <1>2 DEF GapInv

LEMMA GapRead ==
  ASSUME IInv, NEW k \in Nat, GapInv(k), NEW w \in Workers, ReadSource(w)
  PROVE  GapInv(k)'
<1> DEFINE job == jobs[worker[w].job]
           content == Compose(job.extra, Text(FileAt(job.key)))
           new == NewVersionNeeded(doc, content, job.hash)
           r == [worker[w] EXCEPT !.pc = "store", !.text = content,
                   !.archived = doc.lifecycle = "archived",
                   !.new = new, !.number = NextNumber(doc, new)]
           q == [worker[w] EXCEPT !.pc = "failJob"]
<1>1. worker[w] \in WorkerRows /\ worker[w].pc = "read" /\ doc.current \in 0..k
  BY DEF IInv, Processes, ReadSource, GapInv
<1>2. NextNumber(doc, new) \in 1..(IF new THEN k + 1 ELSE k) /\ new \in BOOLEAN
  BY <1>1 DEF NewVersionNeeded, NextNumber
<1>3. r.pc = "store" /\ r.new = new /\ r.number = NextNumber(doc, new) /\ q.pc = "failJob"
  BY <1>1 DEF WorkerRows
<1>4. worker' = [worker EXCEPT ![w] = r] \/ worker' = [worker EXCEPT ![w] = q]
  BY DEF ReadSource, IInv, Processes
<1>5. UNCHANGED <<doc, versions>>
  BY DEF ReadSource
<1> HIDE DEF r, q, new
<1>6. QED
  BY <1>1, <1>2, <1>3, <1>4, <1>5, GapMove

LEMMA GapStore ==
  ASSUME IInv, NEW k \in Nat, GapInv(k), NEW w \in Workers, Store(w)
  PROVE  \E m \in Nat : GapInv(m)'
<1> DEFINE lost == jobs[worker[w].job].key = FolderKey /\ foreign
           n == worker[w].number
           r == [worker[w] EXCEPT !.pc = IF worker[w].new THEN "version" ELSE "complete"]
           q == [worker[w] EXCEPT !.pc = "failJob"]
<1>1. /\ worker[w] \in WorkerRows /\ worker[w].pc = "store" /\ doc.current \in 0..k
      /\ n \in 1..(IF worker[w].new THEN k + 1 ELSE k) /\ UNCHANGED versions
  BY DEF IInv, Processes, Store, GapInv
<1>2. q.pc = "failJob" /\ r.number = n
      /\ r.pc = IF worker[w].new THEN "version" ELSE "complete"
  BY <1>1 DEF WorkerRows
<1>3. CASE lost
  <2>1. UNCHANGED doc /\ worker' = [worker EXCEPT ![w] = q]
    BY <1>3 DEF Store, IInv, Processes
  <2> HIDE DEF q, lost
  <2>2. GapInv(k)'
    BY <1>1, <1>2, <2>1, GapMove
  <2>3. QED
    BY <2>2
<1>4. CASE ~lost
  <2>1. worker' = [worker EXCEPT ![w] = r]
    BY <1>4 DEF Store, IInv, Processes
  <2>2. doc'.current = n
    BY <1>4 DEF Store, IInv, Tables, DocumentRows
  <2> HIDE DEF r, lost, n
  <2>3. CASE ~worker[w].new
    <3>1. doc'.current \in 0..k /\ r.pc = "complete"
      BY <1>1, <1>2, <2>2, <2>3
    <3>2. GapInv(k)'
      BY <1>1, <2>1, <3>1, GapMove
    <3>3. QED
      BY <3>2
  <2>4. CASE worker[w].new
    <3>0. PICK m \in Nat : m = IF n = k + 1 THEN k + 1 ELSE k
      OBVIOUS
    <3>1. r.pc = "version" /\ n \in 1..(k + 1) /\ k <= m /\ n \in 1..m
      BY <1>1, <1>2, <2>4, <3>0
    <3>2. Taken \subseteq Taken' /\ Taken' \subseteq Taken \cup {n} /\ n \in Taken'
      BY <1>1, <1>2, <2>1, <3>1, TakenLemma
    <3>3. (Given \cup Taken)' = 1..m
      <4>1. Given' = Given /\ Given \cup Taken = 1..k
        BY <1>1 DEF GapInv, Given
      <4>2. (Given \cup Taken)' = (1..k) \cup {n}
        BY <3>2, <4>1
      <4>3. (1..k) \cup {n} = 1..m
        BY <3>0, <3>1
      <4>4. QED
        BY <4>2, <4>3
    <3>4. ASSUME NEW x \in Workers, worker'[x].pc = "store"
          PROVE  worker'[x].number \in 1..(IF worker'[x].new THEN m + 1 ELSE m)
      <4>1. worker'[x] = worker[x]
        BY <2>1, <3>1, <3>4 DEF IInv, Processes
      <4>2. worker[x].number \in 1..(IF worker[x].new THEN k + 1 ELSE k)
        BY <3>4, <4>1 DEF GapInv
      <4>3. QED
        BY <3>1, <4>1, <4>2
    <3>5. GapInv(m)'
      BY <2>2, <3>1, <3>3, <3>4 DEF GapInv
    <3>6. QED
      BY <3>1, <3>5
  <2>5. QED
    BY <2>3, <2>4
<1>5. QED
  BY <1>3, <1>4

LEMMA GapCreate ==
  ASSUME IInv, NEW k \in Nat, GapInv(k), NEW w \in Workers, CreateVersion(w)
  PROVE  GapInv(k)'
<1> DEFINE n == worker[w].number
           q == [worker[w] EXCEPT !.pc = "failJob"]
           c == [worker[w] EXCEPT !.pc = "complete"]
<1>1. worker[w] \in WorkerRows /\ worker[w].pc = "version" /\ UNCHANGED doc /\ n \in Taken
  BY DEF IInv, Processes, CreateVersion, Taken
<1>2. q.pc = "failJob" /\ c.pc = "complete"
  BY <1>1 DEF WorkerRows
<1>3. PICK r \in {q, c} : worker' = [worker EXCEPT ![w] = r]
  BY DEF CreateVersion, IInv, Processes
<1>4. r.pc \notin {"version", "store"}
  BY <1>2
<1> HIDE DEF q, c
<1>5. Taken' \subseteq Taken /\ Taken \subseteq Taken' \cup {n}
  BY <1>3, <1>4, TakenLemma
<1>6. Given' = Given \cup {n}
  <2>1. CASE HasVersion(n)
    BY <2>1 DEF CreateVersion, HasVersion, Given
  <2>2. CASE ~HasVersion(n)
    <3>1. PICK v : v.number = n /\ versions' = versions \cup {v}
      BY <2>2 DEF CreateVersion
    <3>2. QED
      BY <3>1 DEF Given
  <2>3. QED
    BY <2>1, <2>2
<1>7. (Given \cup Taken)' = 1..k
  BY <1>1, <1>5, <1>6 DEF GapInv
<1>8. \A x \in Workers : worker'[x].pc = "store" => worker'[x] = worker[x]
  BY <1>3, <1>4 DEF IInv, Processes
<1>9. QED
  BY <1>1, <1>7, <1>8 DEF GapInv

\* Every step keeps the numbers without a gap, as long as nobody has died.
LEMMA GapStep ==
  ASSUME IInv, Next, ~died', NEW k \in Nat, GapInv(k)
  PROVE  \E m \in Nat : GapInv(m)'
<1>1. doc \in DocumentRows /\ doc.current \in 0..k
  BY DEF IInv, Tables, GapInv
<1>2. ASSUME UNCHANGED <<versions, worker>>, doc'.current \in 0..k PROVE GapInv(k)'
  BY <1>2 DEF GapInv, Given, Taken
<1>3. ASSUME NEW e \in Editors, EditorStep(e)
      PROVE  GapInv(k)'
  <2>1. UNCHANGED <<versions, worker>>
    BY <1>3
    DEF EditorStep, Add, ScanFolder, Reprocess, Decide, ReadDecided, Replace, RestoreVersion, MarkOfficial,
        MarkFrom, SetLifecycle, SetBusiness, ReadDocument, Write, CreateJob, EditorDies, Begun
  <2>2. doc'.current \in 0..k
    <3>1. CASE Write(e)
      <4>1. editor[e] \in EditorRows /\ Prepared(editor[e])
        BY <3>1 DEF IInv, Processes, EditorInv, Write
      <4>2. UNCHANGED doc \/ doc' = Written(editor[e])
        BY <3>1 DEF Write
      <4>3. QED
        BY <1>1, <4>1, <4>2, WrittenLemma
    <3>2. CASE \E content, file, key : doc' = NewDocument(content, file, key)
      BY <1>1, <3>2 DEF NewDocument
    <3>3. CASE UNCHANGED doc
      BY <1>1, <3>3
    <3>4. QED
      BY <1>3, <3>1, <3>2, <3>3
      DEF EditorStep, Add, ScanFolder, Reprocess, Decide, ReadDecided, Replace, RestoreVersion, MarkOfficial,
          MarkFrom, SetLifecycle, SetBusiness, ReadDocument, CreateJob, EditorDies
  <2>3. QED
    BY <1>2, <2>1, <2>2
<1>4. ASSUME NEW w \in Workers, WorkerStep(w)
      PROVE  \E m \in Nat : GapInv(m)'
  <2>1. CASE ReadSource(w)
    BY <2>1, GapRead
  <2>2. CASE Store(w)
    BY <2>2, GapStore
  <2>3. CASE CreateVersion(w)
    BY <2>3, GapCreate
  <2>4. CASE WorkerDies(w)
    BY <2>4 DEF WorkerDies
  <2>5. CASE \/ TakeJob(w) \/ MarkJob(w) \/ MarkDocument(w)
             \/ CompleteJob(w) \/ FailJob(w) \/ FailDocument(w)
    <3>1. UNCHANGED versions /\ doc'.current = doc.current
      BY <1>1, <2>5 DEF TakeJob, MarkJob, MarkDocument, CompleteJob, FailJob, FailDocument, DocumentRows
    <3>2. worker[w].pc \notin {"store", "version"}
      BY <2>5 DEF TakeJob, MarkJob, MarkDocument, CompleteJob, FailJob, FailDocument
    <3>3. PICK r : worker' = [worker EXCEPT ![w] = r] /\ r.pc \notin {"store", "version"}
      <4>1. worker[w] \in WorkerRows /\ worker \in [Workers -> WorkerRows]
        BY DEF IInv, Processes
      <4>2. ASSUME NEW pc \in {"mark", "markDoc", "read", "failJob"}, worker' = [worker EXCEPT ![w].pc = pc]
            PROVE  \E r : worker' = [worker EXCEPT ![w] = r] /\ r.pc \notin {"store", "version"}
        <5> DEFINE r == [worker[w] EXCEPT !.pc = pc]
        <5>1. worker' = [worker EXCEPT ![w] = r] /\ r.pc = pc
          BY <4>1, <4>2 DEF WorkerRows
        <5>2. QED
          BY <5>1
      <4>3. CASE TakeJob(w)
        <5> DEFINE r == [IdleWorker EXCEPT !.pc = "mark", !.job = NextPending]
        <5>1. worker' = [worker EXCEPT ![w] = r] /\ r.pc = "mark"
          BY <4>3 DEF TakeJob, IdleWorker
        <5>2. QED
          BY <5>1
      <4>4. CASE MarkJob(w) \/ MarkDocument(w)
        BY <4>2, <4>4 DEF MarkJob, MarkDocument
      <4>5. CASE CompleteJob(w) \/ FailDocument(w)
        BY <4>2, <4>5 DEF CompleteJob, FailDocument, IdleWorker
      <4>6. CASE FailJob(w)
        <5> DEFINE r == [IdleWorker EXCEPT !.pc = "failDoc"]
        <5>1. worker' = [worker EXCEPT ![w] = r] /\ r.pc = "failDoc"
          BY <4>6 DEF FailJob, IdleWorker
        <5>2. QED
          BY <5>1
      <4>7. QED
        BY <2>5, <4>3, <4>4, <4>5, <4>6
    <3>4. GapInv(k)'
      BY <1>1, <3>1, <3>2, <3>3, GapMove
    <3>5. QED
      BY <3>4
  <2>6. QED
    BY <1>4, <2>1, <2>2, <2>3, <2>4, <2>5 DEF WorkerStep
<1>5. CASE FolderChanges
  BY <1>1, <1>2, <1>5 DEF FolderChanges
<1>6. QED
  BY <1>3, <1>4, <1>5 DEF Next

NoGaps == Distinct /\ (~died => \E k \in Nat : GapInv(k))

LEMMA NoGapsStep == IInv /\ NoGaps /\ [Next]_vars => NoGaps'
<1> SUFFICES ASSUME IInv, NoGaps, [Next]_vars PROVE NoGaps'
  OBVIOUS
<1>1. CASE UNCHANGED vars
  <2>1. \A k : GapInv(k) => GapInv(k)'
    BY <1>1 DEF vars, GapInv, Given, Taken
  <2>2. QED
    BY <1>1, <2>1 DEF vars, NoGaps, Distinct
<1>2. CASE Next
  <2>1. Distinct'
    <3>1. CASE versions' = versions
      BY <3>1 DEF NoGaps, Distinct
    <3>2. CASE versions' # versions
      BY <1>2, <3>2, VersionsLemma DEF NoGaps, Distinct, HasVersion
    <3>3. QED
      BY <3>1, <3>2
  <2>2. died => died'
    BY <1>2
    DEF Next, WorkerStep, TakeJob, MarkJob, MarkDocument, ReadSource, Store, CreateVersion, CompleteJob,
        FailJob, FailDocument, WorkerDies, EditorStep, Add, ScanFolder, Reprocess, Decide, ReadDecided,
        Replace, RestoreVersion, MarkOfficial, MarkFrom, SetLifecycle, SetBusiness, ReadDocument, Write,
        CreateJob, EditorDies, FolderChanges, Begun
  <2>3. ~died' => \E m \in Nat : GapInv(m)'
    BY <1>2, <2>2, GapStep DEF NoGaps
  <2>4. QED
    BY <2>1, <2>3 DEF NoGaps
<1>3. QED
  BY <1>1, <1>2

\* As many versions as numbers.
LEMMA CountLemma ==
  ASSUME Distinct, NEW k \in Nat, Given = 1..k
  PROVE  Cardinality(versions) = k
<1> DEFINE f == [n \in 1..k |-> Version(n)]
<1>1. \A n \in 1..k : Version(n) \in versions /\ Version(n).number = n
  BY DEF Given, Version
<1>2. f \in [1..k -> versions]
  BY <1>1
<1>3. \A m, n \in 1..k : f[m] = f[n] => m = n
  BY <1>1
<1>4. \A v \in versions : \E n \in 1..k : f[n] = v
  BY <1>1 DEF Given, Distinct
<1>5. f \in Bijection(1..k, versions)
  <2> HIDE DEF f
  <2>1. QED
    BY <1>2, <1>3, <1>4 DEF Bijection, Injection, Surjection, IsInjective
<1>6. IsFiniteSet(1..k) /\ Cardinality(1..k) = k
  BY FS_Interval
<1>7. QED
  BY <1>5, <1>6, FS_Bijection DEF ExistsBijection

LEMMA NoGapsInit == Init => NoGaps
<1> SUFFICES ASSUME Init PROVE NoGaps
  OBVIOUS
<1>1. versions = {} /\ doc.current = 0 /\ \A w \in Workers : worker[w].pc = "idle"
  BY DEF Init, NoDocument, NewDocument, IdleWorker
<1>2. GapInv(0)
  BY <1>1 DEF GapInv, Given, Taken
<1>3. QED
  BY <1>1, <1>2 DEF NoGaps, Distinct

\* As long as no process dies, versions are numbered from one without a gap and the document's number
\* is one of theirs, for any number of questions that overlap: _process_job counts a version before
\* it creates it, and a job that lost the race for a number has lost it to a version that exists.
THEOREM NumberedWithoutGap == Spec => []VersionsComplete
<1>1. Init => NoGaps
  BY NoGapsInit
<1>2. NoGaps => VersionsComplete
  <2> SUFFICES ASSUME NoGaps, ~died, \A w \in Workers : worker[w].pc # "version"
               PROVE  /\ Given = 1..Cardinality(versions)
                      /\ doc.current = 0 \/ HasVersion(doc.current)
    BY DEF VersionsComplete, Given
  <2>1. PICK k \in Nat : GapInv(k)
    BY DEF NoGaps
  <2>2. Taken = {}
    BY DEF Taken
  <2>3. Given = 1..k /\ doc.current \in 0..k
    BY <2>1, <2>2 DEF GapInv
  <2>4. Cardinality(versions) = k
    BY <2>3, CountLemma DEF NoGaps
  <2>5. doc.current = 0 \/ doc.current \in Given
    BY <2>3
  <2>6. QED
    BY <2>3, <2>4, <2>5 DEF Given, HasVersion
<1>3. QED
  BY <1>1, <1>2, NoGapsStep, Inductive, PTL DEF Spec

-----------------------------------------------------------------------------
(* Jobs one after another: the queue is worked off in order, and the text of  *)
(* the document is that of its current version.                              *)

Numbered == {"mark", "markDoc", "read", "store", "version", "complete", "failJob"}
Unstored == \A w \in Workers : worker[w].pc # "version"
Announced == \E e \in Editors : editor[e].pc = "job"

\* Before the document is stored nobody works, and there is no job and no version.
QuietInv ==
  ~doc.stored => /\ doc.current = 0 /\ versions = {} /\ jobs = <<>>
                 /\ \A w \in Workers : ~Busy(w)
                 /\ \A e \in Editors : ~Working(e)

\* At most one question is at work.
Alone == \A v, w \in Workers : Busy(v) /\ Busy(w) => v = w

\* What the question at work is about to store follows the document as it is now.
StoresNext(w) ==
  worker[w].pc = "store" =>
    IF worker[w].new THEN worker[w].number = doc.current + 1
    ELSE worker[w].number = doc.current /\ doc.current > 0 /\ worker[w].text = doc.content

\* A number that is counted and not yet stored is above those of all versions.
CountsNext(w) ==
  worker[w].pc = "version" =>
    /\ worker[w].number = doc.current /\ worker[w].text = doc.content
    /\ \A v \in versions : v.number < doc.current

\* Otherwise the document's number is the last one and its text is that of its version.
CurrentHeld ==
  Unstored => /\ \A v \in versions : v.number <= doc.current
              /\ doc.current > 0 => \E v \in versions : v.number = doc.current /\ v.content = doc.content

TextInv == (\A w \in Workers : StoresNext(w) /\ CountsNext(w)) /\ CurrentHeld

\* The queue: jobs that were done, then the one at hand, then pending ones.
AtHand(w) ==
  worker[w].pc \in Numbered =>
    \A k \in DOMAIN jobs :
      /\ k < worker[w].job => jobs[k].status # "pending"
      /\ k = worker[w].job =>
           jobs[k].status \in IF worker[w].pc = "mark" THEN {"pending"}
                              ELSE IF worker[w].pc = "failJob" THEN {"processing", "completed"}
                              ELSE {"processing"}
      /\ k > worker[w].job => jobs[k].status = "pending"

InOrder ==
  \A j, k \in DOMAIN jobs : j < k /\ jobs[j].status = "pending" => jobs[k].status = "pending"

\* An empty queue has left the hash of the last job, unless a request is about to create another.
HashHeld ==
  ~Announced =>
    /\ jobs # <<>> /\ Pending = {} /\ jobs[Len(jobs)].status = "completed" => doc.hash = jobs[Len(jobs)].hash
    /\ \A w \in Workers : worker[w].pc \in {"version", "complete"} /\ worker[w].job = Len(jobs)
                            => doc.hash = jobs[worker[w].job].hash

QueueInv == (\A w \in Workers : AtHand(w)) /\ InOrder /\ HashHeld


\* A question changes what it knows itself.
Others(w) == \A x \in Workers \ {w} : worker'[x] = worker[x]

LEMMA MovesLemma ==
  ASSUME IInv, NEW w \in Workers, NEW r, worker' = [worker EXCEPT ![w] = r]
  PROVE  worker'[w] = r /\ Others(w)
BY DEF IInv, Processes, Others

LEMMA PcLemma ==
  ASSUME IInv, NEW w \in Workers, NEW pc \in WorkerPcs, worker' = [worker EXCEPT ![w].pc = pc]
  PROVE  /\ Others(w) /\ worker'[w].pc = pc /\ worker'[w].job = worker[w].job
         /\ worker'[w].new = worker[w].new /\ worker'[w].number = worker[w].number
         /\ worker'[w].text = worker[w].text
<1>1. worker[w] \in WorkerRows
  BY DEF IInv, Processes
<1>2. PICK r : r = [worker[w] EXCEPT !.pc = pc]
  OBVIOUS
<1>3. worker' = [worker EXCEPT ![w] = r]
  BY <1>2 DEF IInv, Processes
<1>4. r.pc = pc /\ r.job = worker[w].job /\ r.new = worker[w].new /\ r.number = worker[w].number
      /\ r.text = worker[w].text
  BY <1>1, <1>2 DEF WorkerRows
<1>5. QED
  BY <1>3, <1>4, MovesLemma

LEMMA IdlePcLemma ==
  ASSUME IInv, NEW w \in Workers, NEW pc \in WorkerPcs,
         worker' = [worker EXCEPT ![w] = [IdleWorker EXCEPT !.pc = pc]]
  PROVE  Others(w) /\ worker'[w].pc = pc
<1>1. [IdleWorker EXCEPT !.pc = pc].pc = pc
  BY DEF IdleWorker
<1>2. QED
  BY <1>1, MovesLemma

LEMMA IdleLemma ==
  ASSUME IInv, NEW w \in Workers, worker' = [worker EXCEPT ![w] = IdleWorker]
  PROVE  Others(w) /\ worker'[w].pc = "idle"
<1>1. IdleWorker.pc = "idle"
  BY DEF IdleWorker
<1>2. QED
  BY <1>1, MovesLemma

\* The other questions rest.
LEMMA RestLemma ==
  ASSUME NEW w \in Workers, Others(w), \A x \in Workers \ {w} : ~Busy(x)
  PROVE  \A x \in Workers : x # w => worker'[x].pc \in {"idle", "dead"}
BY DEF Others, Busy

\* The status of one job changes.
LEMMA StatusOfJob ==
  ASSUME Tables, NEW j \in DOMAIN jobs, NEW status \in {"processing", "completed", "failed"},
         jobs' = [jobs EXCEPT ![j].status = status]
  PROVE  /\ DOMAIN jobs' = DOMAIN jobs /\ Len(jobs') = Len(jobs) /\ Len(jobs) \in DOMAIN jobs
         /\ \A k \in DOMAIN jobs :
              /\ jobs'[k].status = IF k = j THEN status ELSE jobs[k].status
              /\ jobs'[k].hash = jobs[k].hash
<1>1. jobs \in Seq(JobRows) /\ j \in 1..Len(jobs) /\ DOMAIN jobs = 1..Len(jobs) /\ Len(jobs) \in Nat
  BY DEF Tables
<1>2. \A k \in DOMAIN jobs : jobs[k] \in JobRows
  BY <1>1
<1>3. PICK r : r = [jobs[j] EXCEPT !.status = status]
  OBVIOUS
<1>4. jobs' = [jobs EXCEPT ![j] = r]
  BY <1>1, <1>3
<1>5. r.status = status /\ r.hash = jobs[j].hash
  BY <1>2, <1>3 DEF JobRows
<1>6. DOMAIN jobs' = DOMAIN jobs /\ Len(jobs') = Len(jobs)
  <2>1. jobs' \in Seq(JobRows)
    BY JobLemma
  <2>2. DOMAIN jobs' = 1..Len(jobs') /\ Len(jobs') \in Nat
    BY <2>1
  <2>3. DOMAIN jobs' = DOMAIN jobs
    BY <1>4
  <2>4. 1..Len(jobs') = 1..Len(jobs)
    BY <1>1, <2>2, <2>3
  <2>5. Len(jobs') = Len(jobs)
    BY <1>1, <2>2, <2>4
  <2>6. QED
    BY <2>3, <2>5
<1>7. \A k \in DOMAIN jobs : jobs'[k] = IF k = j THEN r ELSE jobs[k]
  BY <1>1, <1>4
<1>8. Len(jobs) \in DOMAIN jobs
  BY <1>1
<1>9. QED
  BY <1>5, <1>6, <1>7, <1>8

\* While one question works, only what it knows matters.
LEMMA OneAtWork ==
  ASSUME NEW w \in Workers, Others(w), \A x \in Workers \ {w} : ~Busy(x),
         StoresNext(w)', CountsNext(w)', AtHand(w)', CurrentHeld', InOrder', HashHeld'
  PROVE  TextInv' /\ QueueInv'
<1>1. ASSUME NEW x \in Workers PROVE StoresNext(x)' /\ CountsNext(x)' /\ AtHand(x)'
  <2>1. CASE x = w
    BY <2>1
  <2>2. CASE x # w
    <3>1. worker'[x].pc \in {"idle", "dead"}
      BY <2>2 DEF Others, Busy
    <3>2. QED
      BY <3>1 DEF StoresNext, CountsNext, AtHand, Numbered
  <2>3. QED
    BY <2>1, <2>2
<1>2. QED
  BY <1>1 DEF TextInv, QueueInv

LEMMA LengthLemma ==
  ASSUME Tables
  PROVE  /\ DOMAIN jobs \subseteq Nat /\ \A k \in DOMAIN jobs : k <= Len(jobs) /\ Len(jobs) \in DOMAIN jobs
         /\ jobs # <<>> => Len(jobs) \in DOMAIN jobs
         /\ DOMAIN jobs = 1..Len(jobs) /\ Len(jobs) \in Nat
<1>1. jobs \in Seq(JobRows)
  BY DEF Tables
<1>2. DOMAIN jobs = 1..Len(jobs) /\ Len(jobs) \in Nat
  BY <1>1
<1>3. jobs # <<>> => Len(jobs) > 0
  BY <1>1
<1>4. QED
  BY <1>2, <1>3

LEMMA TakeJobSerial ==
  ASSUME IInv, TextInv, QueueInv, NEW w \in Workers, TakeJob(w), ~together'
  PROVE  TextInv' /\ QueueInv'
<1>1. \A x \in Workers \ {w} : ~Busy(x)
  BY DEF TakeJob
<1>2. worker'[w].pc = "mark" /\ worker'[w].job = NextPending /\ Others(w)
  <2>1. PICK r : r = [IdleWorker EXCEPT !.pc = "mark", !.job = NextPending]
    OBVIOUS
  <2>2. r.pc = "mark" /\ r.job = NextPending
    BY <2>1 DEF IdleWorker
  <2>3. QED
    BY <2>1, <2>2, MovesLemma DEF TakeJob
<1>3. UNCHANGED <<doc, versions, jobs, editor>> /\ worker[w].pc = "idle"
  BY DEF TakeJob
<1>4. Unstored /\ Unstored'
  BY <1>1, <1>2, <1>3 DEF Unstored, Busy, Others
<1>5. NextPending \in Pending /\ \A k \in Pending : NextPending <= k
  <2>1. Pending # {} /\ Pending \subseteq Nat
    BY LengthLemma DEF IInv, TakeJob, NextPending, Pending
  <2>2. \E j \in Pending : \A k \in Pending : j <= k
    BY <2>1, LeastLemma
  <2>3. QED
    BY <2>1, <2>2 DEF NextPending
<1>6. AtHand(w)'
  <2> SUFFICES ASSUME NEW k \in DOMAIN jobs
               PROVE  /\ k < NextPending => jobs[k].status # "pending"
                      /\ k = NextPending => jobs[k].status = "pending"
                      /\ k > NextPending => jobs[k].status = "pending"
    BY <1>2, <1>3 DEF AtHand
  <2>1. DOMAIN jobs \subseteq Nat /\ NextPending \in DOMAIN jobs
    BY <1>5, LengthLemma DEF IInv, Pending
  <2>2. k < NextPending => jobs[k].status # "pending"
    BY <1>5, <2>1 DEF Pending
  <2>3. k > NextPending => jobs[k].status = "pending"
    BY <1>5, <2>1 DEF Pending, QueueInv, InOrder
  <2>4. QED
    BY <1>5, <2>2, <2>3 DEF Pending
<1>7. StoresNext(w)' /\ CountsNext(w)'
  BY <1>2 DEF StoresNext, CountsNext
<1>8. CurrentHeld'
  BY <1>3, <1>4 DEF TextInv, CurrentHeld
<1>9. InOrder'
  BY <1>3 DEF QueueInv, InOrder
<1>10. HashHeld'
  <2>1. \A x \in Workers : worker'[x].pc \notin {"version", "complete"}
    BY <1>1, <1>2 DEF Others, Busy
  <2>2. QED
    BY <1>3, <2>1 DEF QueueInv, HashHeld, Announced, Pending
<1>11. QED
  BY <1>1, <1>2, <1>6, <1>7, <1>8, <1>9, <1>10, OneAtWork

\* The question at hand changes the status of its job.
LEMMA JobMoves ==
  ASSUME IInv, TextInv, QueueInv, NEW w \in Workers, worker[w].pc \in Numbered,
         NEW status \in {"processing", "completed", "failed"},
         jobs' = [jobs EXCEPT ![worker[w].job].status = status]
  PROVE  /\ InOrder'
         /\ Pending' = {} => worker[w].job = Len(jobs)
         /\ jobs' # <<>> => jobs # <<>>
         /\ DOMAIN jobs' = DOMAIN jobs /\ Len(jobs') = Len(jobs) /\ Len(jobs) \in DOMAIN jobs
         /\ \A k \in DOMAIN jobs :
              /\ jobs'[k].hash = jobs[k].hash
              /\ k < worker[w].job => jobs'[k].status # "pending"
              /\ k = worker[w].job => jobs'[k].status = status
              /\ k > worker[w].job => jobs'[k].status = "pending"
<1>1. PICK j : j = worker[w].job
  OBVIOUS
<1>2. j \in DOMAIN jobs /\ Tables
  BY <1>1 DEF IInv, WorkerInv, Numbered
<1>3. /\ DOMAIN jobs' = DOMAIN jobs /\ Len(jobs') = Len(jobs) /\ Len(jobs) \in DOMAIN jobs
      /\ \A k \in DOMAIN jobs :
           /\ jobs'[k].status = IF k = j THEN status ELSE jobs[k].status
           /\ jobs'[k].hash = jobs[k].hash
  BY <1>1, <1>2, StatusOfJob
<1>4. DOMAIN jobs \subseteq Nat /\ \A k \in DOMAIN jobs : k <= Len(jobs)
  BY <1>2, LengthLemma
<1>5. \A k \in DOMAIN jobs : /\ k < j => jobs[k].status # "pending"
                             /\ k > j => jobs[k].status = "pending"
  BY <1>1 DEF QueueInv, AtHand
<1>6. \A k \in DOMAIN jobs : /\ k < j => jobs'[k].status # "pending"
                             /\ k = j => jobs'[k].status = status
                             /\ k > j => jobs'[k].status = "pending"
  BY <1>3, <1>4, <1>5
<1>7. InOrder'
  <2> SUFFICES ASSUME NEW a \in DOMAIN jobs, NEW b \in DOMAIN jobs, a < b, jobs'[a].status = "pending"
               PROVE  jobs'[b].status = "pending"
    BY <1>3 DEF InOrder
  <2>1. a \in Nat /\ b \in Nat /\ j \in Nat
    BY <1>2, <1>4
  <2>2. ~(a < j) /\ a # j
    BY <1>6
  <2>3. b > j
    BY <2>1, <2>2
  <2>4. QED
    BY <1>6, <2>3
<1>8. ASSUME Pending' = {} PROVE j = Len(jobs)
  <2>1. ~(Len(jobs) > j)
    BY <1>3, <1>6, <1>8 DEF Pending
  <2>2. QED
    BY <1>2, <1>3, <1>4, <2>1
<1>9. jobs # <<>>
  BY <1>2
<1>10. QED
  BY <1>1, <1>3, <1>6, <1>7, <1>8, <1>9

LEMMA AloneLemma ==
  ASSUME Alone, NEW w \in Workers, Busy(w)
  PROVE  \A x \in Workers \ {w} : ~Busy(x)
BY DEF Alone
LEMMA MarkJobSerial ==
  ASSUME IInv, Alone, TextInv, QueueInv, NEW w \in Workers, MarkJob(w)
  PROVE  TextInv' /\ QueueInv'
<1>1. \A x \in Workers \ {w} : ~Busy(x)
  BY AloneLemma DEF MarkJob, Busy
<1>2. worker'[w].pc = "markDoc" /\ worker'[w].job = worker[w].job /\ Others(w)
  BY PcLemma DEF MarkJob, WorkerPcs
<1>3. UNCHANGED <<doc, versions, editor>> /\ worker[w].pc = "mark"
  BY DEF MarkJob
<1>4. worker[w].pc \in Numbered /\ jobs' = [jobs EXCEPT ![worker[w].job].status = "processing"]
  BY <1>3 DEF Numbered, MarkJob
<1>5. /\ InOrder' /\ DOMAIN jobs' = DOMAIN jobs /\ Len(jobs') = Len(jobs) /\ Len(jobs) \in DOMAIN jobs
      /\ Pending' = {} => worker[w].job = Len(jobs)
      /\ \A k \in DOMAIN jobs :
           /\ k < worker[w].job => jobs'[k].status # "pending"
           /\ k = worker[w].job => jobs'[k].status = "processing"
           /\ k > worker[w].job => jobs'[k].status = "pending"
  BY <1>4, JobMoves
<1>6. AtHand(w)'
  BY <1>2, <1>5 DEF AtHand
<1>7. StoresNext(w)' /\ CountsNext(w)'
  BY <1>2 DEF StoresNext, CountsNext
<1>8. CurrentHeld'
  <2>1. Unstored
    BY <1>1, <1>3 DEF Unstored, Busy
  <2>2. QED
    BY <1>3, <2>1 DEF TextInv, CurrentHeld
<1>9. HashHeld'
  <2>1. \A x \in Workers : worker'[x].pc \notin {"version", "complete"}
    BY <1>1, <1>2 DEF Others, Busy
  <2>2. ~(Pending' = {} /\ jobs'[Len(jobs')].status = "completed")
    BY <1>5
  <2>3. QED
    BY <2>1, <2>2 DEF HashHeld
<1>10. QED
  BY <1>1, <1>2, <1>5, <1>6, <1>7, <1>8, <1>9, OneAtWork

\* A question moves on, and neither text, number and hash of the document nor the jobs change.
LEMMA RestSerial ==
  ASSUME IInv, Alone, TextInv, QueueInv, NEW w \in Workers, Busy(w), Others(w), UNCHANGED <<versions, jobs, editor>>,
         doc'.current = doc.current, doc'.content = doc.content, doc'.hash = doc.hash,
         worker[w].pc \notin {"version", "mark", "failJob"}, worker'[w].pc \notin {"version", "mark"},
         worker'[w].pc = "complete" => worker[w].pc = "complete",
         worker'[w].pc \in Numbered => worker[w].pc \in Numbered /\ worker'[w].job = worker[w].job,
         StoresNext(w)'
  PROVE  TextInv' /\ QueueInv'
<1>1. \A x \in Workers \ {w} : ~Busy(x)
  BY AloneLemma
<1>2. AtHand(w)'
  BY DEF QueueInv, AtHand
<1>3. CountsNext(w)'
  BY DEF CountsNext
<1>4. CurrentHeld'
  <2>1. Unstored
    BY <1>1 DEF Unstored, Busy
  <2>2. QED
    BY <2>1 DEF TextInv, CurrentHeld
<1>5. InOrder'
  BY DEF QueueInv, InOrder
<1>6. HashHeld'
  <2>1. \A x \in Workers : worker'[x].pc \in {"version", "complete"} =>
          x = w /\ worker[w].pc = "complete" /\ worker'[w].job = worker[w].job
    BY <1>1 DEF Others, Busy, Numbered
  <2>2. Announced' <=> Announced
    BY DEF Announced
  <2>3. Pending' = Pending
    BY DEF Pending
  <2>4. QED
    BY <2>1, <2>2, <2>3 DEF QueueInv, HashHeld
<1>7. QED
  BY <1>1, <1>2, <1>3, <1>4, <1>5, <1>6, OneAtWork

LEMMA MarkDocumentSerial ==
  ASSUME IInv, Alone, TextInv, QueueInv, NEW w \in Workers, MarkDocument(w) \/ FailDocument(w)
  PROVE  TextInv' /\ QueueInv'
<1>1. doc'.current = doc.current /\ doc'.content = doc.content /\ doc'.hash = doc.hash
  BY DEF IInv, Tables, DocumentRows, MarkDocument, FailDocument
<1>2. CASE MarkDocument(w)
  <2>1. Others(w) /\ worker'[w].pc = "read" /\ worker'[w].job = worker[w].job
    BY <1>2, PcLemma DEF MarkDocument, WorkerPcs
  <2>2. worker[w].pc = "markDoc" /\ UNCHANGED <<versions, jobs, editor>> /\ Busy(w)
    BY <1>2 DEF MarkDocument, Busy
  <2>3. StoresNext(w)'
    BY <2>1 DEF StoresNext
  <2>4. QED
    BY <1>1, <2>1, <2>2, <2>3, RestSerial DEF Numbered
<1>3. CASE FailDocument(w)
  <2>1. Others(w) /\ worker'[w].pc = "idle"
    BY <1>3, IdleLemma DEF FailDocument
  <2>2. worker[w].pc = "failDoc" /\ UNCHANGED <<versions, jobs, editor>> /\ Busy(w)
    BY <1>3 DEF FailDocument, Busy
  <2>3. StoresNext(w)'
    BY <2>1 DEF StoresNext
  <2>4. QED
    BY <1>1, <2>1, <2>2, <2>3, RestSerial DEF Numbered
<1>4. QED
  BY <1>2, <1>3

LEMMA ReadSourceSerial ==
  ASSUME IInv, Alone, TextInv, QueueInv, NEW w \in Workers, ReadSource(w)
  PROVE  TextInv' /\ QueueInv'
<1>1. worker[w].pc = "read" /\ UNCHANGED <<doc, versions, jobs, editor>> /\ Busy(w)
  BY DEF ReadSource, Busy
<1>2. CASE worker' = [worker EXCEPT ![w].pc = "failJob"]
  <2>1. Others(w) /\ worker'[w].pc = "failJob" /\ worker'[w].job = worker[w].job
    BY <1>2, PcLemma DEF WorkerPcs
  <2>2. StoresNext(w)'
    BY <2>1 DEF StoresNext
  <2>3. QED
    BY <1>1, <2>1, <2>2, RestSerial DEF Numbered
<1>3. CASE worker' # [worker EXCEPT ![w].pc = "failJob"]
  <2>9. PICK job : job = jobs[worker[w].job]
    OBVIOUS
  <2>10. PICK content : content = Compose(job.extra, Text(FileAt(job.key)))
    OBVIOUS
  <2>11. PICK new : new = NewVersionNeeded(doc, content, job.hash)
    OBVIOUS
  <2>1. worker' = [worker EXCEPT ![w] = [worker[w] EXCEPT
                !.pc = "store", !.text = content, !.archived = doc.lifecycle = "archived",
                !.new = new, !.number = NextNumber(doc, new)]]
    BY <1>3, <2>9, <2>10, <2>11 DEF ReadSource, IInv, Processes
  <2>2. PICK r : r = [worker[w] EXCEPT
                !.pc = "store", !.text = content, !.archived = doc.lifecycle = "archived",
                !.new = new, !.number = NextNumber(doc, new)]
    OBVIOUS
  <2>3. worker'[w] = r /\ Others(w)
    BY <2>1, <2>2, MovesLemma
  <2>4. r.pc = "store" /\ r.job = worker[w].job /\ r.text = content /\ r.new = new /\ r.number = NextNumber(doc, new)
    BY <2>2 DEF IInv, Processes, WorkerRows
  <2>5. doc.current \in Nat
    BY DEF IInv, Tables, DocumentRows
  <2>6. IF new THEN NextNumber(doc, new) = doc.current + 1
        ELSE NextNumber(doc, new) = doc.current /\ doc.current > 0 /\ doc.content = content
    <3>1. CASE new
      BY <2>5, <3>1 DEF NextNumber
    <3>2. CASE ~new
      <4>1. doc.current # 0 /\ doc.content = content
        BY <2>11, <3>2 DEF NewVersionNeeded
      <4>2. NextNumber(doc, new) = doc.current
        BY <2>5, <3>2 DEF NextNumber
      <4>3. QED
        BY <2>5, <3>2, <4>1, <4>2
    <3>3. QED
      BY <3>1, <3>2
  <2>7. StoresNext(w)'
    BY <1>1, <2>3, <2>4, <2>6 DEF StoresNext
  <2>8. QED
    BY <1>1, <2>3, <2>4, <2>7, RestSerial DEF Numbered
<1>4. QED
  BY <1>2, <1>3

LEMMA StoreSerial ==
  ASSUME IInv, Alone, TextInv, QueueInv, NEW w \in Workers, Store(w)
  PROVE  TextInv' /\ QueueInv'
<1>0. PICK lost : lost = (jobs[worker[w].job].key = FolderKey /\ foreign)
  OBVIOUS
<1>1. worker[w].pc = "store" /\ UNCHANGED <<versions, jobs, editor>> /\ Busy(w)
  BY DEF Store, Busy
<1>2. CASE lost
  <2>1. worker' = [worker EXCEPT ![w].pc = "failJob"] /\ doc' = doc
    BY <1>0, <1>2 DEF Store
  <2>2. Others(w) /\ worker'[w].pc = "failJob" /\ worker'[w].job = worker[w].job
    BY <2>1, PcLemma DEF WorkerPcs
  <2>3. StoresNext(w)'
    BY <2>2 DEF StoresNext
  <2>4. QED
    BY <1>1, <2>1, <2>2, <2>3, RestSerial DEF Numbered
<1>3. CASE ~lost
  <2>1. PICK pc \in {"version", "complete"} : pc = (IF worker[w].new THEN "version" ELSE "complete")
    OBVIOUS
  <2>2. worker' = [worker EXCEPT ![w].pc = pc]
    BY <1>0, <1>3, <2>1 DEF Store
  <2>3. /\ Others(w) /\ worker'[w].pc = pc /\ worker'[w].job = worker[w].job
        /\ worker'[w].new = worker[w].new /\ worker'[w].number = worker[w].number
        /\ worker'[w].text = worker[w].text
    BY <2>2, PcLemma DEF WorkerPcs
  <2>4. /\ doc'.current = worker[w].number /\ doc'.content = worker[w].text
        /\ doc'.hash = jobs[worker[w].job].hash
    <3>1. doc \in DocumentRows
      BY DEF IInv, Tables
    <3>2. PICK business : doc' = [doc EXCEPT !.content = worker[w].text,
            !.hash = jobs[worker[w].job].hash, !.key = jobs[worker[w].job].key, !.status = "ready",
            !.current = worker[w].number, !.business = business]
      BY <1>0, <1>3 DEF Store
    <3>3. QED
      BY <3>1, <3>2 DEF DocumentRows
  <2>5. \A x \in Workers \ {w} : ~Busy(x)
    BY <1>1, AloneLemma
  <2>6. Unstored
    BY <1>1, <2>5 DEF Unstored, Busy
  <2>7. /\ doc.current \in Nat /\ \A v \in versions : v.number \in Nat /\ v.number <= doc.current
        /\ doc.current > 0 => \E v \in versions : v.number = doc.current /\ v.content = doc.content
    BY <2>6 DEF TextInv, CurrentHeld, IInv, Tables, DocumentRows, VersionRows
  <2>8. IF worker[w].new THEN worker[w].number = doc.current + 1
        ELSE worker[w].number = doc.current /\ doc.current > 0 /\ worker[w].text = doc.content
    BY <1>1 DEF TextInv, StoresNext
  <2>9. CountsNext(w)'
    <3>1. CASE pc = "version"
      <4>1. worker[w].new
        BY <2>1, <3>1
      <4>2. worker[w].number = doc.current + 1
        BY <2>8, <4>1
      <4>3. \A v \in versions : v.number < worker[w].number
        BY <2>7, <4>2
      <4>4. QED
        BY <1>1, <2>3, <2>4, <4>3 DEF CountsNext
    <3>2. CASE pc # "version"
      BY <2>3, <3>2 DEF CountsNext
    <3>3. QED
      BY <3>1, <3>2
  <2>10. CurrentHeld'
    <3>1. SUFFICES ASSUME Unstored' PROVE CurrentHeld'
      BY DEF CurrentHeld
    <3>2. pc = "complete"
      BY <2>3, <3>1 DEF Unstored
    <3>3. doc'.current = doc.current /\ doc'.content = doc.content
      BY <2>1, <2>4, <2>8, <3>2
    <3>4. QED
      BY <1>1, <2>7, <3>3 DEF CurrentHeld
  <2>11. AtHand(w)'
    BY <1>1, <2>3 DEF QueueInv, AtHand, Numbered
  <2>12. StoresNext(w)'
    BY <2>3 DEF StoresNext
  <2>13. InOrder'
    BY <1>1 DEF QueueInv, InOrder
  <2>14. HashHeld'
    <3>1. ~(jobs # <<>> /\ Pending = {} /\ jobs[Len(jobs)].status = "completed")
      <4> SUFFICES ASSUME jobs # <<>>, Pending = {}, jobs[Len(jobs)].status = "completed" PROVE FALSE
        OBVIOUS
      <4>1. Len(jobs) \in DOMAIN jobs /\ worker[w].job \in DOMAIN jobs
        BY <1>1, LengthLemma DEF IInv, WorkerInv
      <4>2. worker[w].job <= Len(jobs) /\ worker[w].job \in Nat /\ Len(jobs) \in Nat
        BY <4>1, LengthLemma DEF IInv
      <4>3. jobs[Len(jobs)].status \in {"pending", "processing"}
        BY <1>1, <4>1, <4>2 DEF QueueInv, AtHand, Numbered
      <4>4. QED
        BY <4>3
    <3>2. \A x \in Workers : worker'[x].pc \in {"version", "complete"} => x = w
      BY <2>3, <2>5, RestLemma
    <3>3. Pending' = Pending
      BY <1>1 DEF Pending
    <3>4. QED
      BY <1>1, <2>3, <2>4, <3>1, <3>2, <3>3 DEF HashHeld
  <2>15. QED
    BY <2>3, <2>5, <2>9, <2>10, <2>11, <2>12, <2>13, <2>14, OneAtWork
<1>4. QED
  BY <1>2, <1>3

LEMMA CreateVersionSerial ==
  ASSUME IInv, Alone, TextInv, QueueInv, NEW w \in Workers, CreateVersion(w)
  PROVE  TextInv' /\ QueueInv'
<1>1. worker[w].pc = "version" /\ UNCHANGED <<doc, jobs, editor>> /\ Busy(w)
  BY DEF CreateVersion, Busy
<1>2. /\ worker[w].number = doc.current /\ worker[w].text = doc.content
      /\ \A v \in versions : v.number < doc.current
  BY <1>1 DEF TextInv, CountsNext
<1>3. doc.current \in Nat /\ \A v \in versions : v.number \in Nat
  BY DEF IInv, Tables, DocumentRows, VersionRows
<1>4. ~HasVersion(worker[w].number)
  BY <1>2, <1>3 DEF HasVersion
<1>5. worker' = [worker EXCEPT ![w].pc = "complete"]
  BY <1>4 DEF CreateVersion
<1>15. PICK job : job = jobs[worker[w].job]
  OBVIOUS
<1>16. PICK row : row = [number |-> worker[w].number, content |-> worker[w].text,
                        hash |-> job.hash, key |-> job.key]
  OBVIOUS
<1>6. versions' = versions \cup {row} /\ row.number = worker[w].number /\ row.content = worker[w].text
  BY <1>15, <1>16, <1>4 DEF CreateVersion
<1>7. Others(w) /\ worker'[w].pc = "complete" /\ worker'[w].job = worker[w].job
  BY <1>5, PcLemma DEF WorkerPcs
<1>8. \A x \in Workers \ {w} : ~Busy(x)
  BY <1>1, AloneLemma
<1>9. CurrentHeld'
  <2>1. \A v \in versions' : v.number <= doc.current
    BY <1>2, <1>3, <1>6
  <2>2. row \in versions' /\ row.number = doc.current /\ row.content = doc.content
    BY <1>2, <1>6
  <2>3. QED
    BY <1>1, <2>1, <2>2 DEF CurrentHeld
<1>10. StoresNext(w)' /\ CountsNext(w)'
  BY <1>7 DEF StoresNext, CountsNext
<1>11. AtHand(w)'
  BY <1>1, <1>7 DEF QueueInv, AtHand, Numbered
<1>12. InOrder'
  BY <1>1 DEF QueueInv, InOrder
<1>13. HashHeld'
  <2>1. \A x \in Workers : worker'[x].pc \in {"version", "complete"} => x = w
    BY <1>7, <1>8, RestLemma
  <2>2. Announced' <=> Announced
    BY <1>1 DEF Announced
  <2>3. Pending' = Pending
    BY <1>1 DEF Pending
  <2>4. QED
    BY <1>1, <1>7, <2>1, <2>2, <2>3 DEF QueueInv, HashHeld
<1>14. QED
  BY <1>7, <1>8, <1>9, <1>10, <1>11, <1>12, <1>13, OneAtWork

LEMMA EndJobSerial ==
  ASSUME IInv, Alone, TextInv, QueueInv, NEW w \in Workers, CompleteJob(w) \/ FailJob(w)
  PROVE  TextInv' /\ QueueInv'
<1>1. PICK status \in {"completed", "failed"} : jobs' = [jobs EXCEPT ![worker[w].job].status = status]
        /\ (status = "completed" <=> worker[w].pc = "complete")
  BY DEF CompleteJob, FailJob
<1>2. /\ UNCHANGED <<doc, versions, editor>> /\ worker[w].pc \in {"complete", "failJob"}
      /\ Busy(w) /\ worker[w].pc \in Numbered
  BY DEF CompleteJob, FailJob, Busy, Numbered
<1>3. \A x \in Workers \ {w} : ~Busy(x)
  BY <1>2, AloneLemma
<1>4. /\ Others(w) /\ worker'[w].pc \in {"idle", "failJob", "failDoc"}
      /\ worker'[w].pc = "failJob" => worker'[w].job = worker[w].job /\ worker[w].pc = "complete"
  <2>1. CASE CompleteJob(w)
    BY <2>1, IdleLemma, PcLemma DEF CompleteJob, WorkerPcs
  <2>2. CASE FailJob(w)
    BY <2>2, IdlePcLemma DEF FailJob, WorkerPcs
  <2>3. QED
    BY <2>1, <2>2
<1>5. /\ InOrder' /\ DOMAIN jobs' = DOMAIN jobs /\ Len(jobs') = Len(jobs) /\ Len(jobs) \in DOMAIN jobs
      /\ Pending' = {} => worker[w].job = Len(jobs)
      /\ jobs' # <<>> => jobs # <<>>
      /\ \A k \in DOMAIN jobs : /\ jobs'[k].hash = jobs[k].hash
                                /\ k = worker[w].job => jobs'[k].status = status
  BY <1>1, <1>2, JobMoves
<1>6. AtHand(w)' /\ StoresNext(w)' /\ CountsNext(w)'
  <2>1. CASE worker'[w].pc = "failJob"
    <3>1. status = "completed" /\ worker'[w].job = worker[w].job
      BY <1>1, <1>4, <2>1
    <3>2. \A k \in DOMAIN jobs : /\ k < worker[w].job => jobs'[k].status # "pending"
                                 /\ k = worker[w].job => jobs'[k].status = "completed"
                                 /\ k > worker[w].job => jobs'[k].status = "pending"
      BY <1>1, <1>2, <3>1, JobMoves
    <3>3. QED
      BY <1>5, <2>1, <3>1, <3>2 DEF AtHand, StoresNext, CountsNext
  <2>2. CASE worker'[w].pc # "failJob"
    BY <1>4, <2>2 DEF AtHand, StoresNext, CountsNext, Numbered
  <2>3. QED
    BY <2>1, <2>2
<1>7. CurrentHeld'
  <2>1. Unstored
    BY <1>2, <1>3 DEF Unstored, Busy
  <2>2. QED
    BY <1>2, <2>1 DEF TextInv, CurrentHeld
<1>8. HashHeld'
  <2>1. \A x \in Workers : worker'[x].pc \notin {"version", "complete"}
    BY <1>3, <1>4 DEF Others, Busy
  <2>2. Announced' <=> Announced
    BY <1>2 DEF Announced
  <2>3. ASSUME ~Announced, Pending' = {}, jobs'[Len(jobs')].status = "completed"
        PROVE  doc.hash = jobs'[Len(jobs')].hash
    <3>1. worker[w].job = Len(jobs) /\ status = "completed"
      BY <1>1, <1>5, <2>3
    <3>2. doc.hash = jobs[worker[w].job].hash
      BY <1>1, <2>3, <3>1 DEF QueueInv, HashHeld
    <3>3. QED
      BY <1>5, <3>1, <3>2
  <2>4. QED
    BY <1>2, <2>1, <2>2, <2>3 DEF HashHeld
<1>9. QED
  BY <1>3, <1>4, <1>5, <1>6, <1>7, <1>8, OneAtWork
LEMMA WrittenText ==
  ASSUME IInv, NEW r \in EditorRows, Prepared(r)
  PROVE  /\ Written(r).content = doc.content
         /\ r.op \notin {"sync", "replace"} => Written(r).hash = doc.hash
<1>1. doc \in DocumentRows
  BY DEF IInv, Tables
<1>2. CASE r.op \in {"sync", "replace"}
  BY <1>1, <1>2 DEF Written, DocumentRows
<1>3. CASE r.op \in {"restoreVersion", "reprocess", "official", "business"}
  BY <1>1, <1>3 DEF Written, DocumentRows
<1>4. CASE r.op = "lifecycle"
  <2>1. Written(r) = Moved(r) /\ r.to \in {"active", "archived", "deleted"}
    BY <1>4 DEF Written, Prepared, Lifecycles
  <2>2. CASE r.to = "archived"
    BY <1>1, <1>4, <2>1, <2>2 DEF Moved, DocumentRows
  <2>3. CASE r.to = "deleted"
    BY <1>1, <1>4, <2>1, <2>3 DEF Moved, DocumentRows
  <2>4. CASE r.to = "active"
    BY <1>1, <1>4, <2>1, <2>4 DEF Moved, DocumentRows
  <2>5. QED
    BY <2>1, <2>2, <2>3, <2>4
<1>5. QED
  BY <1>2, <1>3, <1>4 DEF Prepared, Operations

\* A request keeps a stored document's text and number, and changes its hash only before it creates a job.
LEMMA RequestText ==
  ASSUME IInv, doc.stored, NEW e \in Editors, EditorStep(e), ~died'
  PROVE  /\ doc'.stored /\ UNCHANGED <<versions, worker, together>>
         /\ doc'.current = doc.current /\ doc'.content = doc.content
         /\ doc'.hash # doc.hash => Announced'
         /\ ~CreateJob(e) => UNCHANGED jobs /\ (Announced => Announced')
<1>1. UNCHANGED <<versions, worker, together>> /\ (~CreateJob(e) => UNCHANGED jobs)
  BY DEF EditorStep, Add, ScanFolder, Reprocess, Decide, ReadDecided, Replace, RestoreVersion, MarkOfficial,
         MarkFrom, SetLifecycle, SetBusiness, ReadDocument, Write, CreateJob, EditorDies, Begun
<1>2. \A x \in Editors \ {e} : editor'[x] = editor[x]
  BY DEF EditorStep, Add, ScanFolder, Reprocess, Decide, ReadDecided, Replace, RestoreVersion, MarkOfficial,
         MarkFrom, SetLifecycle, SetBusiness, ReadDocument, Write, CreateJob, EditorDies, IInv, Processes
<1>3. ~CreateJob(e) => editor[e].pc # "job"
  BY DEF EditorStep, Add, ScanFolder, Reprocess, Decide, ReadDecided, Replace, RestoreVersion, MarkOfficial,
         MarkFrom, SetLifecycle, SetBusiness, ReadDocument, Write, EditorDies, Begun
<1>4. ~CreateJob(e) /\ Announced => Announced'
  BY <1>2, <1>3 DEF Announced
<1>5. CASE Write(e)
  <2>1. editor[e] \in EditorRows /\ Prepared(editor[e])
    BY <1>5 DEF IInv, Processes, EditorInv, Write
  <2>2. CASE UNCHANGED doc
    BY <1>1, <1>4, <2>2
  <2>3. CASE ~UNCHANGED doc
    <3>1. doc' = Written(editor[e])
      BY <1>5, <2>3 DEF Write
    <3>2. doc'.stored /\ doc'.current = doc.current /\ doc'.content = doc.content
      BY <2>1, <3>1, WrittenLemma, WrittenText
    <3>3. ASSUME doc'.hash # doc.hash PROVE Announced'
      <4>1. editor[e].op \in {"sync", "replace"}
        BY <2>1, <3>1, <3>3, WrittenText
      <4>2. editor[e].job \in JobRows /\ editor[e].job # NoJob
        BY <2>1, <4>1, NoJobAssumption DEF Prepared
      <4>3. PICK r : r = [IdleEditor EXCEPT !.pc = "job", !.job = editor[e].job]
        OBVIOUS
      <4>4. editor' = [editor EXCEPT ![e] = r]
        BY <1>5, <2>3, <4>2, <4>3 DEF Write
      <4>5. editor'[e].pc = "job"
        BY <4>3, <4>4 DEF IInv, Processes, IdleEditor
      <4>6. QED
        BY <4>5 DEF Announced
    <3>4. QED
      BY <1>1, <1>4, <3>2, <3>3
  <2>4. QED
    BY <2>2, <2>3
<1>6. CASE UNCHANGED doc
  BY <1>1, <1>4, <1>6
<1>7. CASE ~Write(e)
  <2>1. UNCHANGED doc
    BY <1>7 DEF EditorStep, Add, ScanFolder, Reprocess, Decide, ReadDecided, Replace, RestoreVersion, MarkOfficial,
           MarkFrom, SetLifecycle, SetBusiness, ReadDocument, CreateJob, EditorDies
  <2>2. QED
    BY <1>6, <2>1
<1>8. QED
  BY <1>5, <1>7

LEMMA AppendLemma ==
  ASSUME Tables, NEW row \in JobRows, jobs' = Append(jobs, row)
  PROVE  /\ Len(jobs') = Len(jobs) + 1 /\ DOMAIN jobs' = (DOMAIN jobs) \cup {Len(jobs) + 1}
         /\ \A k \in DOMAIN jobs : jobs'[k] = jobs[k]
         /\ jobs'[Len(jobs) + 1] = row
<1>1. jobs \in Seq(JobRows) /\ DOMAIN jobs = 1..Len(jobs) /\ Len(jobs) \in Nat
  BY DEF Tables
<1>2. jobs' \in Seq(JobRows) /\ Len(jobs') = Len(jobs) + 1
  BY <1>1
<1>3. DOMAIN jobs' = 1..Len(jobs')
  BY <1>2
<1>4. DOMAIN jobs' = (DOMAIN jobs) \cup {Len(jobs) + 1}
  BY <1>1, <1>2, <1>3
<1>5. QED
  BY <1>1, <1>2, <1>4

\* A job is created pending.
NewJobsInv == \A e \in Editors : editor[e].job # NoJob => editor[e].job.status = "pending"

LEMMA NewJobsStep == ASSUME IInv, NewJobsInv, [Next]_vars PROVE NewJobsInv'
<1>1. ASSUME NEW e \in Editors, EditorStep(e)
      PROVE  NewJobsInv'
  <2>1. editor[e] \in EditorRows /\ editor \in [Editors -> EditorRows]
    BY DEF IInv, Processes
  <2>2. /\ \A x \in Editors \ {e} : editor'[x] = editor[x]
        /\ \/ editor'[e].job \in {NoJob, editor[e].job}
           \/ \E key, hash, extra : editor'[e].job = NewJob(key, hash, extra)
    <3>1. CASE Add(e)
      BY <2>1, <3>1 DEF Add, EditorRows
    <3>2. CASE ScanFolder(e)
      BY <2>1, <3>2 DEF ScanFolder, EditorRows
    <3>0. ASSUME NEW r, editor' = [editor EXCEPT ![e] = r]
          PROVE  editor'[e] = r /\ \A x \in Editors \ {e} : editor'[x] = editor[x]
      BY <2>1, <3>0
    <3>3. IdleEditor.job = NoJob
      BY DEF IdleEditor
    <3>4. CASE ReadDecided(e)
      <4>1. PICK business : business = AfterMarkingOfficial(doc)
        OBVIOUS
      <4>2. \/ editor' = [editor EXCEPT ![e] = IdleEditor]
            \/ editor' = [editor EXCEPT ![e] =
                  [editor[e] EXCEPT !.pc = "write", !.op = "official", !.business = business]]
            \/ editor' = [editor EXCEPT ![e] = [editor[e] EXCEPT !.pc = "write", !.number = 0]]
        BY <2>1, <3>4, <4>1 DEF ReadDecided
      <4>3. [editor[e] EXCEPT !.pc = "write", !.op = "official", !.business = business].job = editor[e].job
        BY <2>1 DEF EditorRows
      <4>4. [editor[e] EXCEPT !.pc = "write", !.number = 0].job = editor[e].job
        BY <2>1 DEF EditorRows
      <4>5. QED
        BY <3>0, <3>3, <4>2, <4>3, <4>4
    <3>11. CASE Decide(e)
      <4>1. PICK to \in Choices : editor' = [editor EXCEPT ![e] = [IdleEditor EXCEPT
              !.pc = "decided", !.op = "business", !.business = to, !.number = doc.current]]
        BY <3>11 DEF Decide
      <4>2. [IdleEditor EXCEPT !.pc = "decided", !.op = "business", !.business = to,
                               !.number = doc.current].job = NoJob
        BY DEF IdleEditor
      <4>3. QED
        BY <3>0, <4>1, <4>2
    <3>12. CASE EditorDies(e) \/ CreateJob(e)
      <4>1. \/ editor' = [editor EXCEPT ![e] = IdleEditor]
            \/ editor' = [editor EXCEPT ![e] = [IdleEditor EXCEPT !.pc = "dead"]]
        BY <3>12 DEF EditorDies, CreateJob
      <4>2. [IdleEditor EXCEPT !.pc = "dead"].job = NoJob
        BY DEF IdleEditor
      <4>3. QED
        BY <3>0, <3>3, <4>1, <4>2
    <3>13. CASE Write(e)
      <4>1. PICK job : job = editor[e].job
        OBVIOUS
      <4>2. \/ editor' = [editor EXCEPT ![e] = IdleEditor]
            \/ editor' = [editor EXCEPT ![e] = [IdleEditor EXCEPT !.pc = "job", !.job = job]]
        BY <3>13, <4>1 DEF Write
      <4>3. [IdleEditor EXCEPT !.pc = "job", !.job = job].job = job
        BY DEF IdleEditor
      <4>4. QED
        BY <3>0, <3>3, <4>1, <4>2, <4>3
    <3>5. CASE \/ \E to \in Lifecycles : SetLifecycle(e, to)
               \/ \E n \in 1..MaxVersions : MarkOfficial(e, n)
      BY <2>1, <3>5 DEF SetLifecycle, MarkOfficial, MarkFrom, IdleEditor
    <3>6. ASSUME NEW op, NEW business, NEW job, ReadDocument(e, op, business, job)
          PROVE  editor'[e].job = job /\ \A x \in Editors \ {e} : editor'[x] = editor[x]
      BY <2>1, <3>6 DEF ReadDocument, IdleEditor
    <3>7. CASE Reprocess(e) \/ \E f \in Files : Replace(e, f)
      BY <3>6, <3>7 DEF Reprocess, Replace
    <3>8. CASE \E to \in Choices : SetBusiness(e, to)
      BY <3>6, <3>8 DEF SetBusiness
    <3>9. CASE \E n \in 1..MaxVersions : RestoreVersion(e, n)
      BY <3>6, <3>9 DEF RestoreVersion
    <3>10. QED
      BY <1>1, <3>1, <3>2, <3>4, <3>5, <3>7, <3>8, <3>9, <3>11, <3>12, <3>13 DEF EditorStep
  <2>3. \A key, hash, extra : NewJob(key, hash, extra).status = "pending"
    BY DEF NewJob
  <2>4. QED
    BY <2>2, <2>3 DEF NewJobsInv
<1>2. CASE UNCHANGED editor
  BY <1>2 DEF NewJobsInv
<1>3. QED
  BY <1>1, <1>2 DEF Next, vars, WorkerStep, TakeJob, MarkJob, MarkDocument, ReadSource, Store, CreateVersion,
     CompleteJob, FailJob, FailDocument, WorkerDies, FolderChanges

LEMMA CreateJobSerial ==
  ASSUME IInv, NewJobsInv, TextInv, QueueInv, NEW e \in Editors, CreateJob(e)
  PROVE  TextInv' /\ QueueInv'
<1>0. PICK row : row = editor[e].job
  OBVIOUS
<1>1. row \in JobRows /\ row.status = "pending" /\ jobs' = Append(jobs, row) /\ UNCHANGED <<doc, versions, worker>>
  BY <1>0, NoJobAssumption DEF CreateJob, IInv, EditorInv, NewJobsInv
<1>2. /\ Len(jobs') = Len(jobs) + 1 /\ DOMAIN jobs' = (DOMAIN jobs) \cup {Len(jobs) + 1}
      /\ \A k \in DOMAIN jobs : jobs'[k] = jobs[k]
      /\ jobs'[Len(jobs) + 1].status = "pending"
  BY <1>1, AppendLemma DEF IInv
<1>3. DOMAIN jobs = 1..Len(jobs) /\ Len(jobs) \in Nat
  BY LengthLemma DEF IInv
<1>4. TextInv'
  BY <1>1 DEF TextInv, StoresNext, CountsNext, CurrentHeld, Unstored
<1>5. ASSUME NEW w \in Workers PROVE AtHand(w)'
  <2>1. CASE worker[w].pc \in Numbered
    <3>1. worker[w].job \in 1..Len(jobs)
      BY <1>3, <2>1 DEF IInv, WorkerInv, Numbered
    <3>2. \A k \in DOMAIN jobs' : k \in DOMAIN jobs \/ (k > worker[w].job /\ jobs'[k].status = "pending" /\ ~(k < worker[w].job) /\ k # worker[w].job)
      BY <1>2, <1>3, <3>1
    <3>3. QED
      BY <1>1, <1>2, <2>1, <3>2 DEF QueueInv, AtHand
  <2>2. CASE worker[w].pc \notin Numbered
    BY <1>1, <2>2 DEF AtHand
  <2>3. QED
    BY <2>1, <2>2
<1>6. InOrder'
  <2> SUFFICES ASSUME NEW a \in DOMAIN jobs', NEW b \in DOMAIN jobs', a < b, jobs'[a].status = "pending"
               PROVE  jobs'[b].status = "pending"
    BY DEF InOrder
  <2>1. CASE b = Len(jobs) + 1
    BY <1>2, <2>1
  <2>2. CASE b # Len(jobs) + 1
    <3>1. a \in DOMAIN jobs /\ b \in DOMAIN jobs
      BY <1>2, <1>3, <2>2
    <3>2. QED
      BY <1>2, <3>1 DEF QueueInv, InOrder
  <2>3. QED
    BY <2>1, <2>2
<1>7. HashHeld'
  <2>1. Pending' # {}
    BY <1>2 DEF Pending
  <2>2. \A w \in Workers : worker'[w].pc \in {"version", "complete"} => worker'[w].job # Len(jobs')
    BY <1>1, <1>2, <1>3 DEF IInv, WorkerInv
  <2>3. QED
    BY <2>1, <2>2 DEF HashHeld
<1>8. QED
  BY <1>4, <1>5, <1>6, <1>7 DEF QueueInv

\* A request that leaves the queue alone.
LEMMA RequestSerial ==
  ASSUME IInv, TextInv, QueueInv, UNCHANGED <<versions, worker, jobs>>,
         doc'.current = doc.current, doc'.content = doc.content,
         doc'.hash # doc.hash => Announced', Announced => Announced'
  PROVE  TextInv' /\ QueueInv'
<1>1. TextInv'
  BY DEF TextInv, StoresNext, CountsNext, CurrentHeld, Unstored
<1>2. InOrder' /\ \A w \in Workers : AtHand(w)'
  BY DEF QueueInv, InOrder, AtHand
<1>3. HashHeld'
  <2>1. Pending' = Pending
    BY DEF Pending
  <2>2. QED
    BY <2>1 DEF QueueInv, HashHeld
<1>4. QED
  BY <1>1, <1>2, <1>3 DEF QueueInv

\* Nothing is there before the document: any step over it creates the document or changes nothing.
LEMMA QuietMove ==
  ASSUME IInv, QuietInv, ~doc.stored, Next
  PROVE  /\ UNCHANGED <<versions, jobs, worker, together>>
         /\ (doc' = doc /\ editor' = editor) \/ (doc'.stored /\ doc'.current = 0)
<1>1. /\ \A w \in Workers : worker[w].pc \in {"idle", "dead"}
      /\ \A e \in Editors : editor[e].pc \in {"idle", "dead"}
      /\ NextPending = NoJob
  <2>1. DOMAIN jobs = {}
    BY DEF QuietInv
  <2>2. Pending = {}
    BY <2>1 DEF Pending
  <2>3. QED
    BY <2>2 DEF QuietInv, Busy, Working, NextPending
<1>2. ASSUME NEW w \in Workers, WorkerStep(w) PROVE FALSE
  BY <1>1, <1>2 DEF WorkerStep, TakeJob, MarkJob, MarkDocument, ReadSource, Store, CreateVersion,
     CompleteJob, FailJob, FailDocument, WorkerDies, Busy
<1>3. ASSUME NEW e \in Editors, EditorStep(e)
      PROVE  /\ UNCHANGED <<versions, jobs, worker, together>>
             /\ doc'.stored /\ doc'.current = 0
  <2>1. ASSUME NEW content, NEW file, NEW key
        PROVE  NewDocument(content, file, key).stored /\ NewDocument(content, file, key).current = 0
    BY DEF NewDocument
  <2>2. \/ Add(e) /\ UNCHANGED <<versions, jobs, worker, together>>
        \/ ScanFolder(e) /\ UNCHANGED <<versions, jobs, worker, together>>
    BY <1>1, <1>3 DEF EditorStep, Add, ScanFolder, Reprocess, Decide, ReadDecided, Replace, RestoreVersion, MarkOfficial,
       MarkFrom, SetLifecycle, SetBusiness, ReadDocument, Write, CreateJob, EditorDies, Begun, Working
  <2>3. QED
    BY <2>1, <2>2 DEF Add, ScanFolder
<1>4. CASE FolderChanges
  BY <1>4 DEF FolderChanges
<1>5. QED
  BY <1>2, <1>3, <1>4 DEF Next

\* Requests create the document and never take it back.
LEMMA StoredStays == ASSUME IInv, doc.stored, Next PROVE doc'.stored
<1>1. ASSUME NEW w \in Workers, WorkerStep(w)
      PROVE  doc'.stored
  <2>1. CASE MarkDocument(w) \/ FailDocument(w)
    BY <2>1 DEF MarkDocument, FailDocument, IInv, Tables, DocumentRows
  <2>2. CASE Store(w)
    <3>1. CASE jobs[worker[w].job].key = FolderKey /\ foreign
      BY <2>2, <3>1 DEF Store
    <3>2. CASE ~(jobs[worker[w].job].key = FolderKey /\ foreign)
      BY <2>2, <3>2, StoreLemma
    <3>3. QED
      BY <3>1, <3>2
  <2>3. CASE UNCHANGED doc
    BY <2>3
  <2>4. QED
    BY <1>1, <2>1, <2>2, <2>3
    DEF WorkerStep, TakeJob, MarkJob, ReadSource, CreateVersion, CompleteJob, FailJob, WorkerDies
<1>2. ASSUME NEW e \in Editors, EditorStep(e)
      PROVE  doc'.stored
  <2>1. CASE Write(e)
    <3>1. editor[e] \in EditorRows /\ Prepared(editor[e])
      BY <2>1 DEF IInv, Processes, EditorInv, Write
    <3>2. UNCHANGED doc \/ doc' = Written(editor[e])
      BY <2>1 DEF Write
    <3>3. QED
      BY <3>1, <3>2, WrittenLemma
  <2>2. CASE ~Write(e)
    <3>1. UNCHANGED doc
      BY <1>2, <2>2 DEF EditorStep, Add, ScanFolder, Reprocess, Decide, ReadDecided, Replace, RestoreVersion,
         MarkOfficial, MarkFrom, SetLifecycle, SetBusiness, ReadDocument, CreateJob, EditorDies
    <3>2. QED
      BY <3>1
  <2>3. QED
    BY <2>1, <2>2
<1>3. CASE FolderChanges
  BY <1>3 DEF FolderChanges
<1>4. QED
  BY <1>1, <1>2, <1>3 DEF Next

LEMMA QuietStep == ASSUME IInv, QuietInv, [Next]_vars PROVE QuietInv'
<1>1. CASE UNCHANGED vars
  BY <1>1 DEF vars, QuietInv, Busy, Working
<1>2. CASE Next
  <2>1. CASE doc.stored
    BY <1>2, <2>1, StoredStays DEF QuietInv
  <2>2. CASE ~doc.stored
    BY <1>2, <2>2, QuietMove DEF QuietInv, Busy, Working
  <2>3. QED
    BY <2>1, <2>2
<1>3. QED
  BY <1>1, <1>2

\* A second question at work is recorded when it takes its job.
LEMMA AloneStep ==
  ASSUME IInv, ~together => Alone, [Next]_vars
  PROVE  /\ ~together' => Alone'
         /\ together => together'
<1>1. CASE UNCHANGED <<worker, together>>
  BY <1>1 DEF Alone, Busy
<1>2. ASSUME NEW w \in Workers, WorkerStep(w)
      PROVE  (~together' => Alone') /\ (together => together')
  <2>1. CASE TakeJob(w)
    <3>1. \A x \in Workers \ {w} : worker'[x] = worker[x]
      BY <2>1 DEF TakeJob, IInv, Processes
    <3>2. ~together' => \A x \in Workers \ {w} : ~Busy(x)'
      BY <2>1, <3>1 DEF TakeJob, Busy
    <3>3. together => together'
      BY <2>1 DEF TakeJob, IInv, Tables
    <3>4. QED
      BY <3>2, <3>3 DEF Alone
  <2>2. CASE ~TakeJob(w)
    <3>1. together' = together /\ Busy(w)
      BY <1>2, <2>2 DEF WorkerStep, MarkJob, MarkDocument, ReadSource, Store, CreateVersion,
         CompleteJob, FailJob, FailDocument, WorkerDies, Busy
    <3>2. \A x \in Workers \ {w} : worker'[x] = worker[x]
      BY <1>2, <2>2 DEF WorkerStep, MarkJob, MarkDocument, ReadSource, Store, CreateVersion,
         CompleteJob, FailJob, FailDocument, WorkerDies, IInv, Processes
    <3>3. \A x \in Workers : Busy(x)' => Busy(x)
      BY <3>1, <3>2 DEF Busy
    <3>4. QED
      BY <3>1, <3>3 DEF Alone
  <2>3. QED
    BY <2>1, <2>2
<1>3. ASSUME NEW e \in Editors, EditorStep(e)
      PROVE  UNCHANGED <<worker, together>>
  BY <1>3 DEF EditorStep, Add, ScanFolder, Reprocess, Decide, ReadDecided, Replace, RestoreVersion, MarkOfficial,
     MarkFrom, SetLifecycle, SetBusiness, ReadDocument, Write, CreateJob, EditorDies, Begun
<1>4. CASE FolderChanges
  BY <1>1, <1>4 DEF FolderChanges
<1>5. QED
  BY <1>1, <1>2, <1>3, <1>4 DEF Next, vars

\* What jobs one after another keep, as long as nobody died.
SerialInv == NewJobsInv /\ QuietInv /\ (~together => Alone /\ (~died => TextInv /\ QueueInv))

LEMMA SerialStep == IInv /\ SerialInv /\ [Next]_vars => SerialInv'
<1> SUFFICES ASSUME IInv, SerialInv, [Next]_vars PROVE SerialInv'
  OBVIOUS
<1>1. NewJobsInv' /\ QuietInv' /\ (~together' => Alone')
  BY NewJobsStep, QuietStep, AloneStep DEF SerialInv
<1>2. ASSUME ~together', ~died' PROVE TextInv' /\ QueueInv'
  <2>1. died => died'
    BY DEF Next, vars, WorkerStep, TakeJob, MarkJob, MarkDocument, ReadSource, Store, CreateVersion, CompleteJob,
        FailJob, FailDocument, WorkerDies, EditorStep, Add, ScanFolder, Reprocess, Decide, ReadDecided,
        Replace, RestoreVersion, MarkOfficial, MarkFrom, SetLifecycle, SetBusiness, ReadDocument, Write,
        CreateJob, EditorDies, FolderChanges, Begun
  <2>2. ~together
    BY <1>2, AloneStep DEF SerialInv
  <2>3. Alone /\ TextInv /\ QueueInv /\ QuietInv /\ NewJobsInv
    BY <1>2, <2>1, <2>2 DEF SerialInv
  <2>4. ASSUME NEW w \in Workers, WorkerStep(w)
        PROVE  TextInv' /\ QueueInv'
    <3>1. ~WorkerDies(w)
      BY <1>2 DEF WorkerDies
    <3>2. QED
      BY <1>2, <2>3, <2>4, <3>1, TakeJobSerial, MarkJobSerial, MarkDocumentSerial, ReadSourceSerial, StoreSerial,
         CreateVersionSerial, EndJobSerial DEF WorkerStep
  <2>5. ASSUME UNCHANGED <<doc, versions, worker, jobs, editor>>
        PROVE  TextInv' /\ QueueInv'
    <3>1. Announced' <=> Announced
      BY <2>5 DEF Announced
    <3>2. QED
      BY <2>3, <2>5, <3>1, RequestSerial
  <2>6. ASSUME NEW e \in Editors, EditorStep(e)
        PROVE  TextInv' /\ QueueInv'
    <3>1. CASE ~doc.stored
      <4>1. Next
        BY <2>6 DEF Next
      <4>2. /\ UNCHANGED <<versions, jobs, worker>>
            /\ (doc' = doc /\ editor' = editor) \/ (doc'.stored /\ doc'.current = 0)
        BY <2>3, <3>1, <4>1, QuietMove
      <4>3. CASE doc' = doc /\ editor' = editor
        BY <2>5, <4>2, <4>3
      <4>4. CASE doc'.current = 0
        <5>1. versions' = {} /\ jobs' = <<>> /\ DOMAIN jobs' = {} /\ \A w \in Workers : worker'[w].pc \in {"idle", "dead"}
          BY <2>3, <3>1, <4>2 DEF QuietInv, Busy
        <5>2. TextInv'
          BY <4>4, <5>1 DEF TextInv, StoresNext, CountsNext, CurrentHeld
        <5>3. QueueInv'
          BY <5>1 DEF QueueInv, AtHand, InOrder, HashHeld, Numbered
        <5>4. QED
          BY <5>2, <5>3
      <4>5. QED
        BY <4>2, <4>3, <4>4
    <3>2. CASE doc.stored
      <4>1. CASE CreateJob(e)
        BY <2>3, <4>1, CreateJobSerial
      <4>2. CASE ~CreateJob(e)
        BY <1>2, <2>3, <2>6, <3>2, <4>2, RequestText, RequestSerial
      <4>3. QED
        BY <4>1, <4>2
    <3>3. QED
      BY <3>1, <3>2
  <2>7. CASE FolderChanges \/ UNCHANGED vars
    BY <2>5, <2>7 DEF FolderChanges, vars
  <2>8. QED
    BY <2>4, <2>6, <2>7 DEF Next
<1>3. QED
  BY <1>1, <1>2 DEF SerialInv

LEMMA SerialInit == Init => SerialInv
<1> SUFFICES ASSUME Init PROVE SerialInv
  OBVIOUS
<1>1. /\ doc.current = 0 /\ versions = {} /\ jobs = <<>> /\ DOMAIN jobs = {}
      /\ \A w \in Workers : worker[w].pc = "idle"
      /\ \A e \in Editors : editor[e].pc = "idle" /\ editor[e].job = NoJob
  BY DEF Init, NoDocument, NewDocument, IdleWorker, IdleEditor
<1>2. NewJobsInv /\ QuietInv /\ Alone
  BY <1>1 DEF NewJobsInv, QuietInv, Alone, Busy, Working
<1>3. TextInv
  BY <1>1 DEF TextInv, StoresNext, CountsNext, CurrentHeld
<1>4. QueueInv
  BY <1>1 DEF QueueInv, AtHand, InOrder, HashHeld, Numbered
<1>5. QED
  BY <1>2, <1>3, <1>4 DEF SerialInv

\* Jobs done one at a time, by any number of questions, leave the document's text equal to that of its
\* current version: _process_job decides from the text it compares whether a version is needed, and
\* nothing but a job writes the text or gives a number.
THEOREM TextOfCurrentVersion == Spec => []ContentIsCurrentVersion
<1>1. SerialInv /\ NoGaps => ContentIsCurrentVersion
  <2> SUFFICES ASSUME SerialInv, NoGaps, ~together, ~died, doc.current > 0, Unstored
               PROVE  doc.content = Version(doc.current).content
    BY DEF ContentIsCurrentVersion, Unstored
  <2>1. PICK v \in versions : v.number = doc.current /\ v.content = doc.content
    BY DEF SerialInv, TextInv, CurrentHeld
  <2>2. Version(doc.current) \in versions /\ Version(doc.current).number = doc.current
    BY <2>1 DEF Version
  <2>3. Version(doc.current) = v
    BY <2>1, <2>2 DEF NoGaps, Distinct
  <2>4. QED
    BY <2>1, <2>3
<1>2. QED
  BY <1>1, NoGapsInit, NoGapsStep, SerialInit, SerialStep, Inductive, PTL DEF Spec

\* Jobs done one at a time are done in the order of their ids, so that the last one leaves its file in
\* the document unless it failed; a request that announces another file has its job created later.
THEOREM LastJobIsHeld == Spec => []LastJobWins
<1>1. SerialInv => LastJobWins
  <2> SUFFICES ASSUME SerialInv, ~together, ~died, jobs # <<>>, Pending = {},
                      \A e \in Editors : editor[e].pc # "job",
                      jobs[Len(jobs)].status = "completed"
               PROVE  doc.hash = jobs[Len(jobs)].hash
    BY DEF LastJobWins
  <2>1. HashHeld /\ ~Announced
    BY DEF SerialInv, QueueInv, Announced
  <2>2. QED
    BY <2>1 DEF HashHeld
<1>2. QED
  BY <1>1, SerialInit, SerialStep, Inductive, PTL DEF Spec
=============================================================================
