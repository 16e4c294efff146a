--------------------------- MODULE DocumentIngestion ---------------------------
(***************************************************************************)
(* The knowledge ingestion pipeline: uploads register a version of a       *)
(* document and queue its job (knowledge/ingestion/orchestrator.py),       *)
(* workers claim jobs in batches and index them (jobs/ingestion_worker.py, *)
(* knowledge/ingestion/persist.py), administrators retry failed jobs and   *)
(* delete documents.  Transactions interleave statement by statement under *)
(* READ COMMITTED.                                                         *)
(*                                                                         *)
(* Upload i, the version it registers and the job of that version share    *)
(* the number i: uploads begin in this order, which is the order of the    *)
(* jobs' created_at.  A document is known by the upload that created it.   *)
(***************************************************************************)
EXTENDS Integers, FiniteSets

LOCAL INSTANCE FiniteSetsExt

CONSTANTS
  TitleOf,      (* the name of the file of each upload, without extension  *)
  BytesOf,      (* its contents, told apart by their checksums             *)
  Worker,       (* ingestion workers                                       *)
  Admin,        (* requests of administrators that retry a job             *)
  Limit,        (* max_jobs_per_pass                                       *)
  MaxUploads    (* bound on uploads                                        *)

ASSUME IngestionAssumption ==
  /\ Worker \cap Admin = {}
  /\ Limit \in Nat \ {0}
  /\ MaxUploads \in Nat
  /\ DOMAIN TitleOf = 1 .. MaxUploads /\ DOMAIN BytesOf = 1 .. MaxUploads

Version == 1 .. MaxUploads

Process == Worker \cup Admin

VARIABLES
  upload,     (* what each upload asks for and has computed                 *)
  status,     (* of each version's job, "none" before it is committed       *)
  versionStatus, (* of the version's own row                                *)
  current,    (* the versions with is_current                               *)
  deleted,    (* the documents with deleted_at                              *)
  objects,    (* the object keys that MinIO holds                           *)
  doomed,     (* the object keys that a deletion is about to remove         *)
  pc,         (* where each process stands                                  *)
  batch,      (* the jobs in a process's hands; the oldest is at work       *)
  flipped,    (* the other versions whose rows a process has updated        *)
  kept,       (* the columns a process will not write: it loaded the value  *)
              (* it is going to set                                         *)
  twice       (* history: the versions that two requests retried at a time  *)

vars == <<upload, status, versionStatus, current, deleted, objects, doomed, pc, batch, flipped, kept, twice>>

rows == <<status, versionStatus, current, deleted>>

queue == <<pc, batch, flipped, kept, twice>>

-----------------------------------------------------------------------------
Registered == {v \in Version : status[v] # "none"}

DocOf(v) == upload[v].doc

\* documents/<document>/<version number>/<file name>
Key(v) == <<upload[v].doc, upload[v].number>>

Siblings(v) == {o \in Registered \ {v} : DocOf(o) = DocOf(v)}

\* find_indexed_version_by_checksum
Indexed(bytes) == {v \in Registered : versionStatus[v] = "INDEXED" /\ BytesOf[v] = bytes}

Duplicates(v) == Indexed(BytesOf[v]) \ {v}

-----------------------------------------------------------------------------
(***************************************************************************)
(* register_document.                                                      *)
(***************************************************************************)
NoUpload == [at |-> "none", doc |-> 0, number |-> 0]

UploadAt(i, point) == upload' = [upload EXCEPT ![i].at = point]

Documents(t) ==
  {DocOf(v) : v \in {o \in Registered : TitleOf[o] = t}} \ deleted

\* The bytes are not indexed yet; the document of that title is looked up.
Lookup(i) ==
  /\ upload[i].at = "none" /\ \A j \in 1 .. i - 1 : upload[j].at # "none"
  /\ Indexed(BytesOf[i]) = {}
  /\ \E d \in IF Documents(TitleOf[i]) = {} THEN {i} ELSE Documents(TitleOf[i]) :
       upload' = [upload EXCEPT ![i].at = "number", ![i].doc = d]
  /\ UNCHANGED <<rows, objects, doomed, queue>>

\* The next version number of the document, from the committed ones.
Number(i) ==
  /\ upload[i].at = "number"
  /\ LET numbers == {upload[v].number : v \in {o \in Registered : DocOf(o) = DocOf(i)}} IN
       upload' = [upload EXCEPT ![i].at = "insert", ![i].number = Max(numbers \cup {0}) + 1]
  /\ UNCHANGED <<rows, objects, doomed, queue>>

SameKey(i) == {j \in Version \ {i} : Key(j) = Key(i)}

\* The version row; its object key is unique.
Insert(i) ==
  /\ upload[i].at = "insert"
  /\ \A j \in SameKey(i) : upload[j].at \notin {"put", "commit"}
  /\ UploadAt(i, IF SameKey(i) \cap Registered = {} THEN "put" ELSE "ended")
  /\ UNCHANGED <<rows, objects, doomed, queue>>

\* A mutant: an upload goes on when the store fails.
PutIgnored(i) ==
  /\ upload[i].at = "put"
  /\ UploadAt(i, "commit")
  /\ objects' = objects \cup {Key(i)} \/ UNCHANGED objects
  /\ UNCHANGED <<rows, doomed, queue>>

Put(i) ==
  /\ upload[i].at = "put"
  /\ UploadAt(i, "commit")
  /\ objects' = objects \cup {Key(i)}
  /\ UNCHANGED <<rows, doomed, queue>>

\* The job row, and the commit.
Register(i) ==
  /\ upload[i].at = "commit"
  /\ UploadAt(i, "ended")
  /\ status' = [status EXCEPT ![i] = "PENDING"]
  /\ versionStatus' = [versionStatus EXCEPT ![i] = "PENDING"]
  /\ UNCHANGED <<current, deleted, objects, doomed, queue>>

\* The store or the database fails, or the client disconnects.
AbortUpload(i) ==
  /\ upload[i].at \notin {"none", "ended"}
  /\ UploadAt(i, "ended")
  /\ UNCHANGED <<rows, objects, doomed, queue>>

-----------------------------------------------------------------------------
(***************************************************************************)
(* Processes at work on a job, and the locks of their transactions.        *)
(***************************************************************************)
Job(p) == CHOOSE v \in batch[p] : \A u \in batch[p] : v <= u

Busy(p) == batch[p] # {}

Goto(p, point) == pc' = [pc EXCEPT ![p] = point]

Step(p, from, to) == pc[p] = from /\ Goto(p, to) /\ UNCHANGED <<batch, flipped, kept, twice>>

Forget(p) ==
  /\ flipped' = [flipped EXCEPT ![p] = {}]
  /\ kept' = [kept EXCEPT ![p] = {}]

\* The transaction ends and with it the work on the job.
NextJob(p) ==
  /\ batch' = [batch EXCEPT ![p] = @ \ {Job(p)}]
  /\ Goto(p, IF batch[p] = {Job(p)} THEN "idle" ELSE "load")
  /\ Forget(p)
  /\ UNCHANGED twice

\* The whole batch is dropped.
Drop(p) ==
  /\ batch' = [batch EXCEPT ![p] = {}]
  /\ Goto(p, "idle")
  /\ Forget(p)
  /\ UNCHANGED twice

\* The transaction is rolled back.  What was loaded is void, so every column
\* that is set from here on is written.
Rollback(p, from, to) == pc[p] = from /\ Goto(p, to) /\ Forget(p) /\ UNCHANGED <<batch, twice>>

\* The flush of persist_indexed has updated the job and perhaps its version.
Written(p) == pc[p] \in {"flip", "document", "commit"}

WritesVersion(p) == ~({"version", "current"} \subseteq kept[p])

\* Row locks, from an UPDATE to the commit.
JobLocks(p) == IF Written(p) THEN {Job(p)} ELSE {}

VersionLocks(p) == (IF Written(p) /\ WritesVersion(p) THEN {Job(p)} ELSE {}) \cup flipped[p]

\* The row lock of a document whose versions a process goes on to update.
LocksDocument(p) ==
  IF pc[p] \in {"fail row", "duplicate row", "retry row"} THEN {DocOf(Job(p))} ELSE {}

\* p is at a statement that waits for the transaction of o: for a job's or a
\* version's row, for an entry of the unique index on the bytes that are
\* INDEXED, or for a document's row.
WaitsFor(p, o) ==
  /\ p # o
  /\ \/ /\ pc[p] \in {"write", "fail row", "duplicate row", "retry row", "retry alone"}
        /\ Job(p) \in JobLocks(o) \/ (WritesVersion(p) /\ Job(p) \in VersionLocks(o))
     \/ /\ pc[p] \in {"write", "duplicate row"} /\ Written(o)
        /\ "version" \notin kept[p] \cup kept[o]
        /\ BytesOf[Job(o)] = BytesOf[Job(p)]
     \/ pc[p] = "flip" /\ Siblings(Job(p)) \cap VersionLocks(o) # {}
     \/ pc[p] \in {"document", "fail", "duplicate", "retry"} /\ DocOf(Job(p)) \in LocksDocument(o)

Granted(p) == \A o \in Process : ~WaitsFor(p, o)

-----------------------------------------------------------------------------
(***************************************************************************)
(* The worker.                                                             *)
(***************************************************************************)
Locked == UNION {JobLocks(p) : p \in Process}

\* A mutant: jobs left PROCESSING are claimed as well.
PendingOrLeft == {v \in Registered \ Locked : status[v] \in {"PENDING", "PROCESSING"}}

Pending == {v \in Registered \ Locked : status[v] = "PENDING"}

\* claim_next_jobs: the oldest PENDING jobs that nobody has locked, locked
\* from the SELECT to the commit of PROCESSING.
Claim(w) ==
  /\ pc[w] = "idle" /\ Pending # {}
  /\ LET claimed == {v \in Pending : Cardinality({u \in Pending : u < v}) < Limit} IN
       /\ batch' = [batch EXCEPT ![w] = claimed]
       /\ status' = [v \in Version |-> IF v \in claimed THEN "PROCESSING" ELSE status[v]]
  /\ Goto(w, "load")
  /\ UNCHANGED <<upload, versionStatus, current, deleted, objects, doomed, flipped, kept, twice>>

Keep(p, columns) == kept' = [kept EXCEPT ![p] = @ \cup columns]

\* process_job reads the job again, then its version.
LoadJob(w) ==
  /\ pc[w] = "load"
  /\ Goto(w, "load version")
  /\ Keep(w, IF status[Job(w)] = "INDEXED" THEN {"job"} ELSE {})
  /\ UNCHANGED <<upload, rows, objects, doomed, batch, flipped, twice>>

LoadVersion(w) ==
  /\ pc[w] = "load version"
  /\ Goto(w, "fetch")
  /\ Keep(w, (IF versionStatus[Job(w)] = "INDEXED" THEN {"version"} ELSE {})
             \cup (IF Job(w) \in current THEN {"current"} ELSE {}))
  /\ UNCHANGED <<upload, rows, objects, doomed, batch, flipped, twice>>

\* The source is read and its bytes are looked up among the indexed ones.
Fetch(w) ==
  /\ \/ Rollback(w, "fetch", "fail")
     \/ /\ pc[w] = "fetch" /\ Key(Job(w)) \in objects
        /\ IF Duplicates(Job(w)) = {} THEN Step(w, "fetch", "parse")
                                      ELSE Rollback(w, "fetch", "duplicate")
  /\ UNCHANGED <<upload, rows, objects, doomed>>

\* The skipped job is marked INDEXED: its document, then its version, ...
DuplicateDocument(w) ==
  /\ pc[w] = "duplicate" /\ Granted(w)
  /\ Step(w, "duplicate", "duplicate row")
  /\ UNCHANGED <<upload, rows, objects, doomed>>

\* ... which the unique index refuses while the other version is INDEXED.
\* Either way an error escapes to the loop, which forgets the rest of its
\* batch: after a commit the log line reads the other version, which the
\* rollback has expired.
Duplicate(w) ==
  /\ pc[w] = "duplicate row" /\ Granted(w)
  /\ LET mark(column) ==
           IF Duplicates(Job(w)) = {} THEN [column EXCEPT ![Job(w)] = "INDEXED"] ELSE column IN
       status' = mark(status) /\ versionStatus' = mark(versionStatus)
  /\ Drop(w)
  /\ UNCHANGED <<upload, current, deleted, objects, doomed>>

\* Parsing, chunking, embedding.
Parse(w) ==
  /\ Step(w, "parse", "write") \/ Rollback(w, "parse", "fail")
  /\ UNCHANGED <<upload, rows, objects, doomed>>

\* persist_indexed flushes the chunks, the version's row and the job's.
Write(w) ==
  /\ pc[w] = "write" /\ Granted(w)
  /\ IF "version" \in kept[w] \/ Duplicates(Job(w)) = {}
     THEN Step(w, "write", "flip") ELSE Rollback(w, "write", "fail")
  /\ UNCHANGED <<upload, rows, objects, doomed>>

\* It takes is_current from the document's other versions.  The document's
\* row is updated if its status changes.
Flip(w) ==
  /\ pc[w] = "flip" /\ Granted(w)
  /\ Goto(w, "document") \/ Goto(w, "commit")
  /\ flipped' = [flipped EXCEPT ![w] = Siblings(Job(w))]
  /\ UNCHANGED <<upload, rows, objects, doomed, batch, kept, twice>>

\* A mutant: the other versions stay current.
CurrentKept(w) == current \cup {Job(w)}

CurrentAfter(w) == (current \ flipped[w]) \cup (IF "current" \in kept[w] THEN {} ELSE {Job(w)})

Commit(w) ==
  /\ pc[w] \in {"document", "commit"} /\ Granted(w)
  /\ status' = IF "job" \in kept[w] THEN status ELSE [status EXCEPT ![Job(w)] = "INDEXED"]
  /\ versionStatus' = IF "version" \in kept[w] THEN versionStatus
                      ELSE [versionStatus EXCEPT ![Job(w)] = "INDEXED"]
  /\ current' = CurrentAfter(w)
  /\ NextJob(w)
  /\ UNCHANGED <<upload, deleted, objects, doomed>>

\* mark_failed updates the document, then the version and the job.
FailDocument(w) ==
  /\ pc[w] = "fail" /\ Granted(w)
  /\ Step(w, "fail", "fail row")
  /\ UNCHANGED <<upload, rows, objects, doomed>>

\* A mutant: the flip of a failed persist is not rolled back.
FailUnrolled(w) ==
  /\ pc[w] = "fail row" /\ Granted(w)
  /\ status' = [status EXCEPT ![Job(w)] = "FAILED"]
  /\ versionStatus' = [versionStatus EXCEPT ![Job(w)] = "FAILED"]
  /\ current' = current \ Siblings(Job(w))
  /\ NextJob(w)
  /\ UNCHANGED <<upload, deleted, objects, doomed>>

Fail(w) ==
  /\ pc[w] = "fail row" /\ Granted(w)
  /\ status' = [status EXCEPT ![Job(w)] = "FAILED"]
  /\ versionStatus' = [versionStatus EXCEPT ![Job(w)] = "FAILED"]
  /\ NextJob(w)
  /\ UNCHANGED <<upload, current, deleted, objects, doomed>>

-----------------------------------------------------------------------------
(***************************************************************************)
(* retry_job.                                                              *)
(***************************************************************************)
InRetry(v) == {a \in Admin : v \in batch[a]}

\* The job is FAILED when it is read; no lock keeps it so.
RetryRead(a, v) ==
  /\ pc[a] = "idle"
  /\ v \in Registered /\ status[v] = "FAILED"
  /\ batch' = [batch EXCEPT ![a] = {v}]
  /\ Goto(a, "retry version")
  /\ twice' = IF InRetry(v) = {} THEN twice ELSE twice \cup {v}
  /\ UNCHANGED <<upload, rows, objects, doomed, flipped, kept>>

\* The version and the document are read.  The document's row is updated if
\* its status changes.
RetryReadVersion(a) ==
  /\ pc[a] = "retry version"
  /\ Goto(a, "retry") \/ Goto(a, "retry alone")
  /\ Keep(a, IF versionStatus[Job(a)] = "PENDING" THEN {"version", "current"} ELSE {})
  /\ UNCHANGED <<upload, rows, objects, doomed, batch, flipped, twice>>

RetryDocument(a) ==
  /\ pc[a] = "retry" /\ Granted(a)
  /\ Step(a, "retry", "retry row")
  /\ UNCHANGED <<upload, rows, objects, doomed>>

\* The status is overwritten, whatever it has become.
Retry(a) ==
  /\ pc[a] \in {"retry row", "retry alone"} /\ Granted(a)
  /\ status' = [status EXCEPT ![Job(a)] = "PENDING"]
  /\ versionStatus' = IF "version" \in kept[a] THEN versionStatus
                      ELSE [versionStatus EXCEPT ![Job(a)] = "PENDING"]
  /\ Drop(a)
  /\ UNCHANGED <<upload, current, deleted, objects, doomed>>

-----------------------------------------------------------------------------
(***************************************************************************)
(* Errors and deletions.                                                   *)
(***************************************************************************)
Persisting == {"write", "flip", "document", "commit"}

Marking == {"fail", "fail row", "duplicate", "duplicate row",
            "retry version", "retry", "retry row", "retry alone"}

\* A statement fails, perhaps because PostgreSQL broke a circle of waiting
\* processes.  An error of persist_indexed is recorded as FAILED, any other
\* ends the work on the batch.
Raise(p) ==
  /\ \/ \E point \in Persisting : Rollback(p, point, "fail")
     \/ pc[p] \in Marking /\ Drop(p)
  /\ UNCHANGED <<upload, rows, objects, doomed>>

\* The process dies.
Crash(w) ==
  /\ Busy(w)
  /\ Drop(w)
  /\ UNCHANGED <<upload, rows, objects, doomed>>

\* soft_delete_document up to its commit.
Delete(d) ==
  /\ d \in {DocOf(v) : v \in Registered} \ deleted
  /\ \A p \in Process : d \notin LocksDocument(p)
  /\ deleted' = deleted \cup {d}
  /\ doomed' = doomed \cup {Key(v) : v \in {o \in Registered : DocOf(o) = d}}
  /\ UNCHANGED <<upload, status, versionStatus, current, objects, queue>>

\* The store removes the objects, all but those it fails on.
RemoveObjects ==
  /\ doomed # {}
  /\ doomed' = {}
  /\ \E removed \in SUBSET doomed : objects' = objects \ removed
  /\ UNCHANGED <<upload, rows, queue>>

-----------------------------------------------------------------------------
Init ==
  /\ upload = [i \in Version |-> NoUpload]
  /\ status = [v \in Version |-> "none"] /\ versionStatus = [v \in Version |-> "none"]
  /\ current = {} /\ deleted = {} /\ objects = {} /\ doomed = {}
  /\ pc = [p \in Process |-> "idle"]
  /\ batch = [p \in Process |-> {}]
  /\ flipped = [p \in Process |-> {}] /\ kept = [p \in Process |-> {}]
  /\ twice = {}

Work(w) ==
  \/ Claim(w) \/ LoadJob(w) \/ LoadVersion(w) \/ Fetch(w) \/ DuplicateDocument(w) \/ Duplicate(w)
  \/ Parse(w) \/ Write(w) \/ Flip(w) \/ Commit(w) \/ FailDocument(w) \/ Fail(w)

RetryStep(a) ==
  \/ \E v \in Version : RetryRead(a, v)
  \/ RetryReadVersion(a) \/ RetryDocument(a) \/ Retry(a)

Next ==
  \/ \E i \in Version :
       \/ Lookup(i) \/ Number(i) \/ Insert(i) \/ Put(i) \/ Register(i) \/ AbortUpload(i)
  \/ \E w \in Worker : Work(w) \/ Crash(w)
  \/ \E a \in Admin : RetryStep(a)
  \/ \E p \in Process : Raise(p)
  \/ \E d \in Version : Delete(d)
  \/ RemoveObjects

Spec == Init /\ [][Next]_vars

-----------------------------------------------------------------------------
Points ==
  {"idle", "load", "load version", "fetch", "parse"} \cup Persisting \cup Marking

Statuses == {"none", "PENDING", "PROCESSING", "INDEXED", "FAILED"}

UploadType ==
  [at : {"none", "number", "insert", "put", "commit", "ended"},
   doc : Version \cup {0}, number : Nat]

\* The statuses of a job and of its version's row that go together.
Agree(v) == versionStatus[v] = IF status[v] = "PROCESSING" THEN "PENDING" ELSE status[v]

\* Type invariant.  Unless two requests retried a version at a time, one
\* process has it in hand, PROCESSING for a worker and FAILED for a request,
\* and its row agrees with its job.
TypeOK ==
  /\ upload \in [Version -> UploadType]
  /\ status \in [Version -> Statuses]
  /\ versionStatus \in [Version -> Statuses \ {"PROCESSING"}]
  /\ current \subseteq Registered /\ deleted \subseteq Version /\ twice \subseteq Registered
  /\ pc \in [Process -> Points]
  /\ kept \in [Process -> SUBSET {"job", "version", "current"}]
  /\ \A p \in Process : pc[p] = "idle" <=> ~Busy(p)
  /\ \A v \in Version \ twice :
       /\ Agree(v)
       /\ \A p, q \in Process : p # q => v \notin batch[p] \cap batch[q]
       /\ \A w \in Worker : v \in batch[w] => status[v] = "PROCESSING"
       /\ \A a \in Admin : v \in batch[a] => status[v] = "FAILED"

\* The versions retrieval finds (knowledge/repository.py).
Served ==
  {v \in Registered : /\ status[v] = "INDEXED" /\ versionStatus[v] = "INDEXED"
                      /\ v \in current /\ DocOf(v) \notin deleted}

\* Whatever workers race, deadlock or die and retries overlap, retrieval
\* serves at most one version of a document and the same bytes at most once
\* ("identical bytes are never indexed twice", persist.py:67-68).
ServedOnce ==
  \A u, v \in Served :
    u # v => DocOf(u) # DocOf(v) /\ BytesOf[u] # BytesOf[v]

\* A document that is served goes on being served until it is deleted, also
\* while a later version is processed, fails or is retried ("a previously
\* INDEXED version of the document remains servable", persist.py:219-221).
\* Excepted are documents one of whose versions was retried by two requests
\* at a time: the later one may reset what was indexed in between.
KeepsServing ==
  [][\A v \in Served :
       DocOf(v) \notin deleted' \cup {DocOf(u) : u \in twice'} =>
         \E u \in Served' : DocOf(u) = DocOf(v)]_vars

\* "Only FAILED jobs can be retried" (ingestion_worker.py:234): no indexed
\* job is queued again.
OnlyFailedRetried ==
  [][\A v \in Version : status[v] = "INDEXED" => status'[v] # "PENDING"]_vars

\* The bytes of every version that can still be processed are in the store
\* ("so the worker never claims a job whose source is missing",
\* orchestrator.py:11-13), and no two versions share them.
SourceStored ==
  /\ \A v \in Registered : DocOf(v) \notin deleted => Key(v) \in objects
  /\ \A u, v \in Registered : u # v => Key(u) # Key(v)
=============================================================================
