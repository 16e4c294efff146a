------------------------ MODULE DocumentIngestionProofs ------------------------
(***************************************************************************)
(* Proofs about the ingestion of documents, for any number of uploads,     *)
(* workers and retrying administrators and any batches.                    *)
(***************************************************************************)
EXTENDS DocumentIngestion, FiniteSetTheorems, TLAPS

LOCAL INSTANCE FiniteSetsExt

-----------------------------------------------------------------------------
(* The oldest of some jobs, and the largest of some numbers.               *)

\* A family of finite sets has a smallest member, so of finitely many numbers
\* one has the fewest on the other side.
LEMMA SmallestSet ==
  ASSUME NEW S, IsFiniteSet(S), S # {}, NEW D \in [S -> SUBSET S]
  PROVE  \E x \in S : \A y \in S : ~(D[y] \subseteq D[x] /\ D[y] # D[x])
<1> DEFINE F == {D[x] : x \in S}
           R == StrictSubsetOrdering(S)
<1>1. IsWellFoundedOn(R, FiniteSubsetsOf(S))
  BY FS_StrictSubsetOrderingWellFounded
<1>2. F # {} /\ F \subseteq FiniteSubsetsOf(S)
  BY FS_Subset DEF FiniteSubsetsOf
<1> HIDE DEF R
<1>3. PICK m \in F : \A n \in F : <<n, m>> \notin R
  BY <1>1, <1>2, WFMin
<1>4. \A n \in F : ~(n \subseteq m /\ n # m)
  BY <1>2, <1>3 DEF R, StrictSubsetOrdering, FiniteSubsetsOf
<1>5. PICK x \in S : m = D[x]
  OBVIOUS
<1>6. \A y \in S : D[y] \in F
  OBVIOUS
<1> HIDE DEF F
<1> QED BY <1>4, <1>5, <1>6

\* Sets of versions are finite sets of numbers.
LEMMA VersionsFinite ==
  ASSUME NEW S, S \subseteq Version
  PROVE  IsFiniteSet(S) /\ S \subseteq Nat
<1>1. MaxUploads \in Int /\ 1 \in Int
  BY IngestionAssumption
<1>2. IsFiniteSet(1 .. MaxUploads)
  BY <1>1, FS_Interval
<1>3. S \in SUBSET (1 .. MaxUploads)
  BY DEF Version
<1>4. IsFiniteSet(S)
  BY <1>2, <1>3, FS_Subset
<1> QED BY <1>3, <1>4

\* Among some versions one is the oldest.
LEMMA Oldest ==
  ASSUME NEW S, S \subseteq Version, S # {}
  PROVE  \E v \in S : \A u \in S : v <= u
<1> DEFINE D == [x \in S |-> {y \in S : y < x}]
<1>1. IsFiniteSet(S)
  BY VersionsFinite
<1>2. \A x \in S : x \in Nat
  BY VersionsFinite
<1>3. D \in [S -> SUBSET S]
  OBVIOUS
<1>4. \A x, y \in S : y \in D[x] <=> y < x
  OBVIOUS
<1> HIDE DEF D
<1>5. PICK x \in S : \A y \in S : ~(D[y] \subseteq D[x] /\ D[y] # D[x])
  BY <1>1, <1>3, SmallestSet
<1>6. ASSUME NEW y \in S, y < x PROVE FALSE
  <2>1. ASSUME NEW z \in S, z < y PROVE z < x
    BY <1>2, <1>6, <2>1
  <2>2. ~(y < y)
    BY <1>2
  <2>3. D[y] \subseteq S
    BY <1>3
  <2>4. D[y] \subseteq D[x] /\ y \in D[x] /\ y \notin D[y]
    BY <1>4, <1>6, <2>1, <2>2, <2>3
  <2> QED BY <1>5, <2>4
<1>7. \A u \in S : x <= u
  BY <1>2, <1>6
<1> QED BY <1>7

\* The largest version number of a document, 0 without versions.
LEMMA Largest ==
  ASSUME NEW S, S \subseteq Version, NEW f \in [Version -> Nat]
  PROVE  Max({f[v] : v \in S} \cup {0}) \in Nat
<1> DEFINE N == {f[v] : v \in S} \cup {0}
<1>1. \E m \in N : \A n \in N : m >= n
  <2> DEFINE D == [x \in S |-> {y \in S : f[y] > f[x]}]
  <2>1. IsFiniteSet(S)
    BY VersionsFinite
  <2>2. CASE S = {}
    BY <2>2
  <2>3. CASE S # {}
    <3>1. D \in [S -> SUBSET S]
      OBVIOUS
    <3> HIDE DEF D
    <3>2. PICK x \in S : \A y \in S : ~(D[y] \subseteq D[x] /\ D[y] # D[x])
      BY <2>1, <2>3, <3>1, SmallestSet
    <3>3. ASSUME NEW y \in S, f[y] > f[x] PROVE FALSE
      <4>1. D[y] \subseteq D[x]
        BY <3>3 DEF D
      <4>2. y \in D[x] /\ y \notin D[y]
        BY <3>3 DEF D
      <4> QED BY <3>2, <4>1, <4>2
    <3>4. \A y \in S : f[x] >= f[y]
      BY <3>3
    <3> QED BY <3>4
  <2> QED BY <2>2, <2>3
<1>2. N \subseteq Nat
  OBVIOUS
<1> QED BY <1>1, <1>2 DEF Max

\* The job a process works on is the first of its batch.
LEMMA JobAtWork ==
  ASSUME NEW p, batch[p] \subseteq Version, Busy(p)
  PROVE  Job(p) \in batch[p] /\ \A u \in batch[p] : Job(p) <= u
  BY Oldest DEF Job, Busy

-----------------------------------------------------------------------------
(* Who has which jobs in hand.                                             *)

RetryPoints == {"retry version", "retry", "retry row", "retry alone"}

\* Where a process knows what it has loaded.
KeepPoints == {"load version", "fetch", "parse", "retry", "retry row", "retry alone"} \cup Persisting

Swept(p) == pc[p] \in {"document", "commit"}

RowInv ==
  /\ status \in [Version -> Statuses]
  /\ versionStatus \in [Version -> Statuses \ {"PROCESSING"}]
  /\ current \subseteq Registered /\ deleted \subseteq Version /\ twice \subseteq Registered

HandType ==
  /\ pc \in [Process -> Points]
  /\ batch \in [Process -> SUBSET Version]
  /\ flipped \in [Process -> SUBSET Version]
  /\ kept \in [Process -> SUBSET {"job", "version", "current"}]

\* What a process holds at each point.
HandInv(p) ==
  /\ pc[p] = "idle" <=> batch[p] = {}
  /\ pc[p] \in RetryPoints => p \in Admin
  /\ p \in Admin => pc[p] \in RetryPoints \cup {"idle"}
  /\ ~Swept(p) => flipped[p] = {}
  /\ pc[p] \notin KeepPoints => kept[p] = {}
  /\ batch[p] \subseteq Registered

Hands == HandType /\ \A p \in Process : HandInv(p)

\* A version that was never in two retries at a time: at most one process has
\* it in hand, and what that process loaded it goes on to write.
AloneInv(v) ==
  /\ Agree(v)
  /\ v \in current => status[v] = "INDEXED"
  /\ \A p \in Process : v \in batch[p] => status[v] = IF p \in Admin THEN "FAILED" ELSE "PROCESSING"
  /\ \A p, q \in Process : p # q => v \notin batch[p] \cap batch[q]
  /\ \A p \in Process : batch[p] # {} /\ Job(p) = v => kept[p] = {}

Alone == \A v \in Version \ twice : AloneInv(v)

\* A version is registered at the end of its upload.
UploadInv ==
  /\ upload \in [Version -> UploadType]
  /\ \A v \in Registered : upload[v].at = "ended"

TypeInv == RowInv /\ Hands /\ Alone /\ UploadInv

\* A job at work is registered.
LEMMA JobInHand ==
  ASSUME TypeInv, NEW p \in Process, pc[p] # "idle"
  PROVE  /\ Job(p) \in batch[p] /\ Job(p) \in Registered /\ Job(p) \in Version
         /\ p \in Admin <=> pc[p] \in RetryPoints
<1>1. HandInv(p) /\ batch[p] \subseteq Version
  BY DEF TypeInv, Hands, HandType
<1>2. Job(p) \in batch[p]
  BY <1>1, JobAtWork DEF Busy, HandInv
<1> QED BY <1>1, <1>2 DEF HandInv

\* Workers and requests are different.
LEMMA WorkerOrAdmin ==
  /\ \A w \in Worker : w \in Process /\ w \notin Admin
  /\ \A a \in Admin : a \in Process /\ a \notin Worker
  BY IngestionAssumption DEF Process

\* A process with the same batch works on the same job.
LEMMA SameJob ==
  ASSUME NEW p, batch'[p] = batch[p]
  PROVE  Job(p)' = Job(p)
  BY DEF Job

\* A step of one process.
LEMMA HandStep ==
  ASSUME TypeInv, NEW p \in Process, Registered \subseteq Registered',
         NEW point \in Points, pc' = [pc EXCEPT ![p] = point],
         NEW b \in SUBSET Version, batch' = [batch EXCEPT ![p] = b],
         NEW f \in SUBSET Version, flipped' = [flipped EXCEPT ![p] = f],
         NEW k \in SUBSET {"job", "version", "current"}, kept' = [kept EXCEPT ![p] = k],
         HandInv(p)'
  PROVE  Hands'
<1>1. /\ HandType'
      /\ \A q \in Process \ {p} : /\ pc'[q] = pc[q] /\ batch'[q] = batch[q]
                                  /\ flipped'[q] = flipped[q] /\ kept'[q] = kept[q]
  BY DEF TypeInv, Hands, HandType
<1>2. ASSUME NEW q \in Process \ {p} PROVE HandInv(q)'
  <2>1. HandInv(q)
    BY DEF TypeInv, Hands
  <2> QED BY <1>1, <2>1 DEF HandInv, Swept
<1> QED BY <1>1, <1>2 DEF Hands

\* Uploads that do not move keep their invariant.
LEMMA SameUploads ==
  ASSUME TypeInv, UNCHANGED upload, Registered' = Registered
  PROVE  UploadInv'
  BY DEF TypeInv, UploadInv

\* So do rows.
LEMMA SameRows ==
  ASSUME TypeInv, UNCHANGED rows, UNCHANGED twice
  PROVE  RowInv' /\ Registered' = Registered
  BY DEF TypeInv, RowInv, rows, Registered

\* Whoever was alone with a version still is, when the rows stay and one
\* process keeps some of its jobs.
LEMMA AloneSame ==
  ASSUME TypeInv, UNCHANGED rows, twice \subseteq twice', NEW p \in Process,
         NEW b \in SUBSET batch[p], batch' = [batch EXCEPT ![p] = b],
         NEW k, kept' = [kept EXCEPT ![p] = k],
         b # {} /\ Job(p)' \notin twice => k = {}
  PROVE  Alone'
<1>1. /\ batch'[p] = b /\ kept'[p] = k
      /\ \A q \in Process \ {p} : batch'[q] = batch[q] /\ kept'[q] = kept[q] /\ Job(q)' = Job(q)
  BY SameJob DEF TypeInv, Hands, HandType
<1>2. ASSUME NEW v \in Version \ twice' PROVE AloneInv(v)'
  <2>1. AloneInv(v) /\ v \notin twice
    BY DEF TypeInv, Alone
  <2>2. Agree(v)' /\ (v \in current' => status'[v] = "INDEXED")
    BY <2>1 DEF AloneInv, Agree, rows
  <2>3. \A q \in Process : batch'[q] \subseteq batch[q]
    BY <1>1
  <2>4. /\ \A q \in Process : v \in batch'[q] => status'[v] = IF q \in Admin THEN "FAILED" ELSE "PROCESSING"
        /\ \A q, r \in Process : q # r => v \notin batch'[q] \cap batch'[r]
    BY <2>1, <2>3 DEF AloneInv, rows
  <2>5. \A q \in Process : batch'[q] # {} /\ Job(q)' = v => kept'[q] = {}
    BY <1>1, <2>1 DEF AloneInv
  <2> QED BY <2>2, <2>4, <2>5 DEF AloneInv
<1> QED BY <1>2 DEF Alone

\* A step between two statements of one process.
LEMMA MoveStep ==
  ASSUME TypeInv, UNCHANGED rows, UNCHANGED <<upload, twice>>, NEW p \in Process,
         NEW point \in Points, pc' = [pc EXCEPT ![p] = point], UNCHANGED batch,
         NEW f \in SUBSET Version, flipped' = [flipped EXCEPT ![p] = f],
         NEW k \in SUBSET {"job", "version", "current"}, kept' = [kept EXCEPT ![p] = k],
         point # "idle", pc[p] # "idle",
         point \in {"document", "commit"} \/ f = {},
         point \in KeepPoints \/ k = {},
         k \subseteq kept[p] \/ Job(p) \in twice \/ k = {},
         point \in RetryPoints <=> pc[p] \in RetryPoints
  PROVE  TypeInv'
<1>1. HandInv(p) /\ HandType
  BY DEF TypeInv, Hands
<1>2. pc'[p] = point /\ batch'[p] = batch[p] /\ flipped'[p] = f /\ kept'[p] = k
  BY <1>1 DEF HandType
<1>3. RowInv' /\ Registered' = Registered
  BY SameRows
<1>4. HandInv(p)'
  BY <1>1, <1>2, <1>3 DEF HandInv, Swept
<1>5. batch[p] \in SUBSET Version /\ batch' = [batch EXCEPT ![p] = batch[p]]
  BY <1>1 DEF HandType
<1>6. Hands'
  BY <1>3, <1>4, <1>5, HandStep
<1>7. Job(p)' = Job(p) /\ Job(p) \in Version
  BY <1>2, SameJob, JobInHand
<1>8. batch[p] # {} /\ Job(p) \notin twice => k = {}
  BY <1>7 DEF TypeInv, Alone, AloneInv
<1>9. Alone'
  BY <1>5, <1>7, <1>8, AloneSame
<1> QED BY <1>3, <1>6, <1>9, SameUploads DEF TypeInv

\* The hands of a process are empty.
LEMMA DropHands ==
  ASSUME TypeInv, NEW p \in Process, Drop(p), Registered' = Registered
  PROVE  Hands'
<1>1. /\ pc' = [pc EXCEPT ![p] = "idle"] /\ batch' = [batch EXCEPT ![p] = {}]
      /\ flipped' = [flipped EXCEPT ![p] = {}] /\ kept' = [kept EXCEPT ![p] = {}]
  BY DEF Drop, Goto, Forget
<1>2. pc'[p] = "idle" /\ batch'[p] = {} /\ flipped'[p] = {} /\ kept'[p] = {}
  BY <1>1 DEF TypeInv, Hands, HandType
<1>3. HandInv(p)'
  BY <1>2 DEF HandInv, RetryPoints
<1>4. {} \in SUBSET Version /\ "idle" \in Points /\ {} \in SUBSET {"job", "version", "current"}
  BY DEF Points
<1> QED BY <1>1, <1>3, <1>4, HandStep

\* A worker is done with its job.
LEMMA NextJobHands ==
  ASSUME TypeInv, NEW w \in Worker, pc[w] # "idle", NextJob(w), Registered' = Registered
  PROVE  Hands'
<1> DEFINE b == batch[w] \ {Job(w)}
           point == IF batch[w] = {Job(w)} THEN "idle" ELSE "load"
<1>1. w \in Process /\ w \notin Admin
  BY WorkerOrAdmin
<1>2. HandInv(w) /\ Job(w) \in batch[w] /\ batch[w] \in SUBSET Version /\ HandType
  BY <1>1, JobInHand DEF TypeInv, Hands, HandType
<1>3. /\ batch' = [batch EXCEPT ![w] = b] /\ pc' = [pc EXCEPT ![w] = point]
      /\ flipped' = [flipped EXCEPT ![w] = {}] /\ kept' = [kept EXCEPT ![w] = {}]
      /\ point \in {"idle", "load"} /\ point \in Points /\ b \in SUBSET Version /\ b \subseteq batch[w]
      /\ point = "idle" <=> b = {}
  BY <1>2 DEF NextJob, Goto, Points, Forget
<1> HIDE DEF point, b
<1>4. pc'[w] = point /\ batch'[w] = b /\ flipped'[w] = {} /\ kept'[w] = {}
  BY <1>1, <1>2, <1>3 DEF HandType
<1>5. HandInv(w)'
  BY <1>1, <1>2, <1>3, <1>4 DEF HandInv, RetryPoints
<1>6. {} \in SUBSET Version /\ {} \in SUBSET {"job", "version", "current"}
  OBVIOUS
<1> QED BY <1>1, <1>3, <1>5, <1>6, HandStep

\* The rows of one job change as its process is done with it.
LEMMA EndStep ==
  ASSUME TypeInv, NEW p \in Process, pc[p] # "idle", UNCHANGED <<upload, deleted, twice>>,
         NEW j, j = Job(p), NEW b \in SUBSET (batch[p] \ {j}), batch' = [batch EXCEPT ![p] = b],
         kept' = [kept EXCEPT ![p] = {}], Hands',
         NEW s \in {"PENDING", "INDEXED", "FAILED"},
         status' = [status EXCEPT ![j] = s] \/ status' = status,
         versionStatus' = [versionStatus EXCEPT ![j] = s] \/ versionStatus' = versionStatus,
         current' \subseteq current \cup {j},
         j \notin twice => Agree(j)' /\ (j \in current' => status'[j] = "INDEXED")
  PROVE  TypeInv' /\ Registered' = Registered
<1>1. j \in Registered /\ j \in Version /\ j \in batch[p] /\ RowInv /\ HandType
  BY JobInHand DEF TypeInv, Hands
<1>2. Registered' = Registered
  BY <1>1 DEF Registered, RowInv
<1>3. RowInv'
  BY <1>1, <1>2 DEF RowInv, Statuses
<1>4. /\ batch'[p] = b /\ kept'[p] = {}
      /\ \A q \in Process \ {p} : batch'[q] = batch[q] /\ kept'[q] = kept[q] /\ Job(q)' = Job(q)
  BY <1>1, SameJob DEF HandType
<1>5. \A v \in Version \ {j} : status'[v] = status[v] /\ versionStatus'[v] = versionStatus[v]
  BY <1>1 DEF RowInv
<1>6. ASSUME NEW v \in Version \ twice' PROVE AloneInv(v)'
  <2>1. AloneInv(v) /\ v \notin twice
    BY DEF TypeInv, Alone
  <2>2. Agree(v)' /\ (v \in current' => status'[v] = "INDEXED")
    BY <1>5, <2>1 DEF AloneInv, Agree
  <2>3. \A q \in Process : v \in batch'[q] => v \in batch[q] /\ v # j
    BY <1>1, <1>4, <2>1 DEF AloneInv
  <2>4. /\ \A q \in Process : v \in batch'[q] => status'[v] = IF q \in Admin THEN "FAILED" ELSE "PROCESSING"
        /\ \A q, r \in Process : q # r => v \notin batch'[q] \cap batch'[r]
    BY <1>5, <2>1, <2>3 DEF AloneInv
  <2>5. \A q \in Process : batch'[q] # {} /\ Job(q)' = v => kept'[q] = {}
    BY <1>4, <2>1 DEF AloneInv
  <2> QED BY <2>2, <2>4, <2>5 DEF AloneInv
<1> QED BY <1>2, <1>3, <1>6, SameUploads DEF TypeInv, Alone

\* What is known of the job of a process that is alone with it.
LEMMA AloneJob ==
  ASSUME TypeInv, NEW p \in Process, pc[p] # "idle", Job(p) \notin twice
  PROVE  /\ kept[p] = {} /\ Job(p) \notin current /\ Agree(Job(p))
         /\ status[Job(p)] = IF p \in Admin THEN "FAILED" ELSE "PROCESSING"
<1>1. Job(p) \in Version /\ Job(p) \in batch[p]
  BY JobInHand
<1>2. AloneInv(Job(p))
  BY <1>1 DEF TypeInv, Alone
<1> QED BY <1>1, <1>2 DEF AloneInv

-----------------------------------------------------------------------------
(* Uploads.                                                                *)

\* Hands do not depend on anything else.
LEMMA SameHands ==
  ASSUME TypeInv, UNCHANGED <<status, versionStatus, current, queue>>
  PROVE  Hands' /\ Alone'
<1>1. \A p \in Process : Job(p)' = Job(p)
  BY SameJob DEF queue
<1> QED BY <1>1 DEF TypeInv, Hands, HandType, HandInv, Alone, AloneInv, Agree, Swept, Registered, queue

\* An upload that is under way moves on.
LEMMA UploadStep ==
  ASSUME TypeInv, NEW i \in Version, upload[i].at # "ended",
         NEW r \in UploadType, upload' = [upload EXCEPT ![i] = r],
         UNCHANGED <<rows, queue>>
  PROVE  TypeInv'
<1>1. RowInv' /\ Registered' = Registered /\ UNCHANGED <<status, versionStatus, current, queue>>
  BY SameRows DEF rows, queue
<1>2. UploadInv'
  BY <1>1 DEF TypeInv, UploadInv
<1>3. Hands' /\ Alone'
  BY <1>1, SameHands
<1> QED BY <1>1, <1>2, <1>3 DEF TypeInv

\* The upload looks for its bytes and its document.
LEMMA LookupTyped ==
  ASSUME TypeInv, NEW i \in Version, Lookup(i)
  PROVE  TypeInv'
<1>1. PICK d \in IF Documents(TitleOf[i]) = {} THEN {i} ELSE Documents(TitleOf[i]) :
        upload' = [upload EXCEPT ![i].at = "number", ![i].doc = d]
  BY DEF Lookup
<1>2. upload[i] \in UploadType /\ \A v \in Registered : DocOf(v) \in Version \cup {0}
  BY DEF TypeInv, UploadInv, UploadType, DocOf, Registered
<1>3. d \in Version \cup {0}
  BY <1>1, <1>2 DEF Documents
<1> DEFINE r == [upload[i] EXCEPT !.at = "number", !.doc = d]
<1>4. r \in UploadType
  BY <1>2, <1>3 DEF UploadType
<1>5. upload' = [upload EXCEPT ![i] = r]
  BY <1>1
<1> HIDE DEF r
<1>6. upload[i].at # "ended" /\ UNCHANGED <<rows, queue>>
  BY DEF Lookup
<1> QED BY <1>4, <1>5, <1>6, UploadStep

\* The upload reads the number for its version.
LEMMA NumberTyped ==
  ASSUME TypeInv, NEW i \in Version, Number(i)
  PROVE  TypeInv'
<1> DEFINE S == {v \in Registered : DocOf(v) = DocOf(i)}
           f == [v \in Version |-> upload[v].number]
           n == Max({upload[v].number : v \in S} \cup {0}) + 1
<1>1. upload[i] \in UploadType /\ f \in [Version -> Nat]
  BY DEF TypeInv, UploadInv, UploadType
<1>2. S \subseteq Version /\ {upload[v].number : v \in S} = {f[v] : v \in S}
  BY DEF Registered
<1> HIDE DEF f, S
<1>3. n \in Nat
  <2>1. Max({f[v] : v \in S} \cup {0}) \in Nat
    BY <1>1, <1>2, Largest
  <2>2. n = Max({f[v] : v \in S} \cup {0}) + 1
    BY <1>2, Zenon
  <2> HIDE DEF n
  <2> QED BY <2>1, <2>2
<1>4. upload' = [upload EXCEPT ![i].at = "insert", ![i].number = n]
  BY DEF Number, S
<1> HIDE DEF n
<1> DEFINE r == [upload[i] EXCEPT !.at = "insert", !.number = n]
<1>5. r \in UploadType /\ upload' = [upload EXCEPT ![i] = r]
  BY <1>1, <1>3, <1>4 DEF UploadType
<1> HIDE DEF r
<1>6. upload[i].at # "ended" /\ UNCHANGED <<rows, queue>>
  BY DEF Number
<1> QED BY <1>5, <1>6, UploadStep

\* An upload that goes on to a point keeps what it knows.
LEMMA PointTyped ==
  ASSUME TypeInv, NEW i \in Version, NEW point \in {"put", "commit", "ended"}, UploadAt(i, point)
  PROVE  /\ [upload[i] EXCEPT !.at = point] \in UploadType
         /\ upload' = [upload EXCEPT ![i] = [upload[i] EXCEPT !.at = point]]
  BY DEF TypeInv, UploadInv, UploadType, UploadAt

\* All steps of an upload before its COMMIT.
LEMMA UploadTyped ==
  ASSUME TypeInv, NEW i \in Version,
         Lookup(i) \/ Number(i) \/ Insert(i) \/ Put(i) \/ AbortUpload(i)
  PROVE  TypeInv'
<1>1. CASE Insert(i) \/ Put(i) \/ AbortUpload(i)
  <2>1. \E point \in {"put", "commit", "ended"} : UploadAt(i, point)
    BY <1>1 DEF Insert, Put, AbortUpload
  <2>2. upload[i].at # "ended" /\ UNCHANGED <<rows, queue>>
    BY <1>1 DEF Insert, Put, AbortUpload
  <2> QED BY <2>1, <2>2, PointTyped, UploadStep, ZenonT(60)
<1> QED BY <1>1, LookupTyped, NumberTyped

\* The COMMIT of an upload: a new job that nobody has in hand.
LEMMA RegisterTyped ==
  ASSUME TypeInv, NEW i \in Version, Register(i)
  PROVE  TypeInv'
<1>1. /\ upload[i].at = "commit" /\ UploadAt(i, "ended")
      /\ status' = [status EXCEPT ![i] = "PENDING"]
      /\ versionStatus' = [versionStatus EXCEPT ![i] = "PENDING"]
      /\ UNCHANGED <<current, deleted, pc, batch, flipped, kept, twice>>
  BY DEF Register, queue
<1>2. i \notin Registered /\ status[i] = "none" /\ \A p \in Process : i \notin batch[p]
  BY <1>1 DEF TypeInv, UploadInv, Registered, Hands, HandInv
<1>3. Registered' = Registered \cup {i} /\ RowInv'
  BY <1>1, <1>2 DEF TypeInv, RowInv, Registered, Statuses
<1>4. UploadInv'
  <2> DEFINE r == [upload[i] EXCEPT !.at = "ended"]
  <2>1. r \in UploadType /\ upload' = [upload EXCEPT ![i] = r] /\ r.at = "ended"
    BY <1>1, PointTyped DEF TypeInv, UploadInv, UploadType
  <2> HIDE DEF r
  <2>2. \A v \in Registered : upload[v].at = "ended" /\ v \in Version
    BY DEF TypeInv, UploadInv, Registered
  <2> QED BY <1>3, <2>1, <2>2 DEF TypeInv, UploadInv
<1>5. Hands'
  BY <1>1, <1>3 DEF TypeInv, Hands, HandType, HandInv, Swept
<1>6. ASSUME NEW v \in Version \ twice' PROVE AloneInv(v)'
  <2>1. AloneInv(v) /\ \A p \in Process : Job(p)' = Job(p)
    BY <1>1, SameJob DEF TypeInv, Alone
  <2>2. CASE v = i
    <3>1. Agree(v)' /\ v \notin current
      BY <1>1, <1>2, <2>2 DEF Agree, TypeInv, RowInv
    <3> QED BY <1>1, <1>2, <2>1, <2>2, <3>1 DEF AloneInv
  <2>3. CASE v # i
    <3>1. status'[v] = status[v] /\ versionStatus'[v] = versionStatus[v]
      BY <1>1, <2>3 DEF TypeInv, RowInv
    <3> QED BY <1>1, <2>1, <3>1 DEF AloneInv, Agree
  <2> QED BY <2>2, <2>3
<1> QED BY <1>3, <1>4, <1>5, <1>6 DEF TypeInv, Alone

-----------------------------------------------------------------------------
(* Jobs.                                                                   *)

\* A worker claims pending jobs, which nobody is alone with.
LEMMA ClaimTyped ==
  ASSUME TypeInv, NEW w \in Worker, Claim(w)
  PROVE  TypeInv' /\ Registered' = Registered
<1> DEFINE claimed == {v \in Pending : Cardinality({u \in Pending : u < v}) < Limit}
<1>1. /\ w \in Process /\ w \notin Admin /\ pc[w] = "idle" /\ Pending # {}
      /\ UNCHANGED <<current, upload, deleted, versionStatus, flipped, kept, twice>>
      /\ batch' = [batch EXCEPT ![w] = claimed]
      /\ status' = [v \in Version |-> IF v \in claimed THEN "PROCESSING" ELSE status[v]]
      /\ pc' = [pc EXCEPT ![w] = "load"]
  BY WorkerOrAdmin DEF Claim, Goto
<1>2. Pending \subseteq Version /\ claimed \subseteq Pending /\ Pending \subseteq Registered
  BY DEF Pending, Registered
<1>3. claimed # {}
  <2>1. PICK v \in Pending : \A u \in Pending : v <= u
    BY <1>1, <1>2, Oldest
  <2>2. \A u \in Pending : u \in Nat
    BY <1>2, VersionsFinite
  <2>3. {u \in Pending : u < v} = {}
    BY <2>1, <2>2
  <2>4. Cardinality({u \in Pending : u < v}) = 0
    BY <2>3, FS_EmptySet
  <2>5. 0 < Limit
    BY IngestionAssumption
  <2> QED BY <2>1, <2>4, <2>5
<1>4. \A v \in claimed : status[v] = "PENDING"
  BY DEF Pending
<1> HIDE DEF claimed
<1>5. Registered' = Registered
  BY <1>1, <1>2, <1>4 DEF Registered
<1>6. RowInv'
  BY <1>1, <1>5 DEF TypeInv, RowInv, Statuses
<1>7. HandInv(w) /\ HandType
  BY <1>1 DEF TypeInv, Hands
<1>8. /\ pc'[w] = "load" /\ batch'[w] = claimed /\ flipped'[w] = {} /\ kept'[w] = {}
      /\ flipped[w] = {} /\ kept[w] = {}
  BY <1>1, <1>7 DEF HandType, HandInv, Swept, KeepPoints, Persisting
<1>9. HandInv(w)'
  BY <1>1, <1>2, <1>3, <1>5, <1>8 DEF HandInv, RetryPoints, Swept
<1>10. /\ "load" \in Points /\ claimed \in SUBSET Version
       /\ flipped' = [flipped EXCEPT ![w] = {}] /\ {} \in SUBSET Version
       /\ kept' = [kept EXCEPT ![w] = {}] /\ {} \in SUBSET {"job", "version", "current"}
  BY <1>1, <1>2, <1>7, <1>8 DEF Points, HandType
<1>11. Hands'
  BY <1>1, <1>5, <1>9, <1>10, HandStep
<1>12. \A q \in Process \ {w} : batch'[q] = batch[q] /\ Job(q)' = Job(q)
  BY <1>1, <1>7, SameJob DEF HandType
<1>13. ASSUME NEW v \in Version \ twice' PROVE AloneInv(v)'
  <2>1. AloneInv(v)
    BY <1>1 DEF TypeInv, Alone
  <2>2. \A q \in Process : batch'[q] # {} /\ Job(q)' = v => kept'[q] = {}
    BY <1>1, <1>8, <1>12, <2>1 DEF AloneInv
  <2>3. CASE v \in claimed
    <3>1. \A q \in Process : v \notin batch[q]
      BY <1>4, <2>1, <2>3 DEF AloneInv
    <3>2. status'[v] = "PROCESSING" /\ Agree(v)' /\ v \notin current
      BY <1>1, <1>4, <2>1, <2>3 DEF AloneInv, Agree
    <3> QED BY <1>1, <1>8, <1>12, <2>2, <3>1, <3>2 DEF AloneInv
  <2>4. CASE v \notin claimed
    <3>1. status'[v] = status[v] /\ Agree(v)'
      BY <1>1, <2>1, <2>4 DEF AloneInv, Agree
    <3>2. \A q \in Process : v \in batch'[q] => v \in batch[q]
      BY <1>8, <1>12, <2>4
    <3> QED BY <1>1, <2>1, <2>2, <3>1, <3>2 DEF AloneInv
  <2> QED BY <2>3, <2>4
<1> QED BY <1>1, <1>5, <1>6, <1>11, <1>13, SameUploads DEF TypeInv, Alone

\* A step of a process to its next statement.
LEMMA PlainStep ==
  ASSUME TypeInv, NEW p \in Process, NEW from \in Points, NEW to \in Points, Step(p, from, to),
         to # "idle", from \notin {"idle", "document", "commit"},
         to \in KeepPoints \/ from \notin KeepPoints,
         to \in RetryPoints <=> from \in RetryPoints, UNCHANGED <<upload, rows>>
  PROVE  TypeInv'
<1>1. /\ pc' = [pc EXCEPT ![p] = to] /\ pc[p] = from /\ UNCHANGED <<batch, flipped, kept, twice>>
      /\ UNCHANGED rows /\ UNCHANGED upload
  BY DEF Step, Goto
<1>2. HandInv(p) /\ HandType
  BY DEF TypeInv, Hands
<1>3. /\ flipped' = [flipped EXCEPT ![p] = {}] /\ {} \in SUBSET Version
      /\ kept' = [kept EXCEPT ![p] = kept[p]] /\ kept[p] \in SUBSET {"job", "version", "current"}
      /\ to \in KeepPoints \/ kept[p] = {}
  BY <1>1, <1>2 DEF HandType, HandInv, Swept
<1> QED BY <1>1, <1>3, MoveStep

\* A rollback.
LEMMA RollbackStep ==
  ASSUME TypeInv, NEW p \in Process, NEW from \in Points, NEW to \in Points, Rollback(p, from, to),
         to # "idle", from # "idle",
         to \in RetryPoints <=> from \in RetryPoints, UNCHANGED <<upload, rows>>
  PROVE  TypeInv'
<1>1. /\ pc' = [pc EXCEPT ![p] = to] /\ pc[p] = from /\ UNCHANGED <<batch, twice>>
      /\ flipped' = [flipped EXCEPT ![p] = {}] /\ kept' = [kept EXCEPT ![p] = {}]
      /\ UNCHANGED rows /\ UNCHANGED upload
      /\ {} \in SUBSET Version /\ {} \in SUBSET {"job", "version", "current"}
  BY DEF Rollback, Goto, Forget
<1> QED BY <1>1, MoveStep

\* The statements on one job.
LEMMA WorkTyped ==
  ASSUME TypeInv, NEW w \in Worker,
         \/ Fetch(w) \/ Parse(w) \/ Write(w) \/ FailDocument(w) \/ DuplicateDocument(w)
  PROVE  TypeInv'
<1>1. w \in Process /\ UNCHANGED <<upload, rows>>
  BY DEF Process, Fetch, Parse, Write, FailDocument, DuplicateDocument
<1>2. \/ \E from \in {"fetch", "parse", "write"}, to \in {"parse", "write", "flip"} : Step(w, from, to)
      \/ \E from \in {"fail", "duplicate"}, to \in {"fail row", "duplicate row"} : Step(w, from, to)
      \/ \E from \in {"fetch", "parse", "write"}, to \in {"fail", "duplicate"} : Rollback(w, from, to)
  BY DEF Fetch, Parse, Write, FailDocument, DuplicateDocument
<1>3. /\ {"fetch", "parse", "write", "fail", "duplicate", "flip", "fail row", "duplicate row"} \subseteq Points
      /\ {"parse", "write", "flip"} \subseteq KeepPoints
      /\ {"fail", "duplicate"} \cap KeepPoints = {}
      /\ {"fetch", "parse", "write", "fail", "duplicate", "flip", "fail row", "duplicate row"} \cap RetryPoints = {}
  BY DEF Points, Persisting, Marking, KeepPoints, RetryPoints
<1>4. CASE \/ \E from \in {"fetch", "parse", "write"}, to \in {"parse", "write", "flip"} : Step(w, from, to)
           \/ \E from \in {"fail", "duplicate"}, to \in {"fail row", "duplicate row"} : Step(w, from, to)
  BY <1>1, <1>3, <1>4, PlainStep
<1>5. CASE \E from \in {"fetch", "parse", "write"}, to \in {"fail", "duplicate"} : Rollback(w, from, to)
  BY <1>1, <1>3, <1>5, RollbackStep
<1> QED BY <1>2, <1>4, <1>5

\* What a worker loads of a job it is alone with is what it goes on to write.
LEMMA LoadTyped ==
  ASSUME TypeInv, NEW w \in Worker, LoadJob(w) \/ LoadVersion(w)
  PROVE  TypeInv'
<1>1. /\ w \in Process /\ w \notin Admin /\ UNCHANGED rows /\ UNCHANGED upload
      /\ UNCHANGED <<batch, flipped, twice>> /\ pc[w] \in {"load", "load version"}
  BY WorkerOrAdmin DEF LoadJob, LoadVersion
<1>2. PICK to \in {"load version", "fetch"} : pc' = [pc EXCEPT ![w] = to]
  BY DEF LoadJob, LoadVersion, Goto
<1>3. PICK k \in SUBSET {"job", "version", "current"} :
        /\ kept' = [kept EXCEPT ![w] = kept[w] \cup k]
        /\ \/ k \subseteq {"job"} /\ (status[Job(w)] # "INDEXED" => k = {})
           \/ /\ k \subseteq {"version", "current"}
              /\ versionStatus[Job(w)] # "INDEXED" /\ Job(w) \notin current => k = {}
  <2>1. CASE LoadJob(w)
    <3> DEFINE k == IF status[Job(w)] = "INDEXED" THEN {"job"} ELSE {}
    <3>1. kept' = [kept EXCEPT ![w] = kept[w] \cup k] /\ k \subseteq {"job"}
      BY <2>1 DEF LoadJob, Keep
    <3> QED BY <3>1
  <2>2. CASE LoadVersion(w)
    <3> DEFINE k == (IF versionStatus[Job(w)] = "INDEXED" THEN {"version"} ELSE {})
                    \cup (IF Job(w) \in current THEN {"current"} ELSE {})
    <3>1. kept' = [kept EXCEPT ![w] = kept[w] \cup k] /\ k \subseteq {"version", "current"}
      BY <2>2 DEF LoadVersion, Keep
    <3> QED BY <3>1
  <2>3. LoadJob(w) \/ LoadVersion(w)
    OBVIOUS
  <2> QED BY <2>1, <2>2, <2>3, Zenon
<1>4. HandInv(w) /\ HandType /\ kept[w] \cup k \in SUBSET {"job", "version", "current"}
  BY <1>1 DEF TypeInv, Hands, HandType
<1>5. flipped' = [flipped EXCEPT ![w] = {}] /\ {} \in SUBSET Version
  BY <1>1, <1>4 DEF HandInv, Swept, HandType
<1>6. Job(w) \notin twice => kept[w] \cup k = {}
  <2> SUFFICES ASSUME Job(w) \notin twice PROVE kept[w] \cup k = {}
    OBVIOUS
  <2>1. /\ kept[w] = {} /\ Job(w) \notin current /\ Agree(Job(w)) /\ status[Job(w)] = "PROCESSING"
    BY <1>1, AloneJob
  <2> QED BY <1>3, <2>1 DEF Agree
<1>7. to \in Points /\ to \in KeepPoints /\ {to, "load", "load version"} \cap RetryPoints = {} /\ to # "idle"
  BY DEF Points, KeepPoints, RetryPoints
<1> QED BY <1>1, <1>2, <1>3, <1>4, <1>5, <1>6, <1>7, MoveStep

\* The other versions of the document are retired.
LEMMA FlipTyped ==
  ASSUME TypeInv, NEW w \in Worker, Flip(w)
  PROVE  TypeInv'
<1>1. /\ w \in Process /\ UNCHANGED rows /\ UNCHANGED <<upload, twice>> /\ UNCHANGED batch /\ pc[w] = "flip"
      /\ flipped' = [flipped EXCEPT ![w] = Siblings(Job(w))] /\ UNCHANGED kept
  BY DEF Process, Flip
<1>2. PICK point \in {"document", "commit"} : pc' = [pc EXCEPT ![w] = point]
  BY DEF Flip, Goto
<1>3. /\ Siblings(Job(w)) \in SUBSET Version /\ point \in Points /\ point \in KeepPoints
      /\ kept' = [kept EXCEPT ![w] = kept[w]] /\ kept[w] \in SUBSET {"job", "version", "current"}
  BY <1>1 DEF Siblings, Registered, Points, KeepPoints, Persisting, TypeInv, Hands, HandType
<1> QED BY <1>1, <1>2, <1>3, MoveStep DEF RetryPoints

\* A process that gives up has no job in hand.
LEMMA DropTyped ==
  ASSUME TypeInv, NEW p \in Process, Drop(p), UNCHANGED <<upload, rows>>
  PROVE  TypeInv'
<1>1. RowInv' /\ Registered' = Registered /\ UNCHANGED rows
  BY SameRows DEF Drop
<1>2. Hands'
  BY <1>1, DropHands
<1>3. batch' = [batch EXCEPT ![p] = {}] /\ kept' = [kept EXCEPT ![p] = {}] /\ UNCHANGED twice
  BY DEF Drop, Forget
<1>4. Alone'
  BY <1>1, <1>3, AloneSame
<1> QED BY <1>1, <1>2, <1>4, SameUploads DEF TypeInv

\* Only the rows of the job at work change when the work on it ends.
LEMMA EndRegistered ==
  ASSUME TypeInv, NEW p \in Process, pc[p] # "idle", NEW s \in {"PENDING", "INDEXED", "FAILED"},
         status' = [status EXCEPT ![Job(p)] = s] \/ status' = status
  PROVE  Registered' = Registered
<1>1. Job(p) \in Registered /\ status \in [Version -> Statuses]
  BY JobInHand DEF TypeInv, RowInv
<1> QED BY <1>1 DEF Registered

\* The end of a job: its row leaves PROCESSING with the worker.
LEMMA EndTyped ==
  ASSUME TypeInv, NEW w \in Worker, Commit(w) \/ Fail(w)
  PROVE  TypeInv' /\ Registered' = Registered
<1>1. /\ w \in Process /\ w \notin Admin /\ pc[w] # "idle" /\ NextJob(w) /\ UNCHANGED <<upload, deleted, twice>>
  BY WorkerOrAdmin DEF Commit, Fail, NextJob
<1>2. PICK j : j = Job(w)
  OBVIOUS
<1>3. j \in Version /\ RowInv
  BY <1>1, <1>2, JobInHand DEF TypeInv
<1>4. PICK s \in {"INDEXED", "FAILED"} :
        /\ status' = [status EXCEPT ![j] = s] \/ status' = status
        /\ versionStatus' = [versionStatus EXCEPT ![j] = s] \/ versionStatus' = versionStatus
        /\ current' \subseteq current \cup {j}
        /\ j \notin twice => Agree(j)' /\ (j \in current' => status'[j] = "INDEXED")
  <2>1. CASE Commit(w)
    <3>1. /\ status' = IF "job" \in kept[w] THEN status ELSE [status EXCEPT ![j] = "INDEXED"]
          /\ versionStatus' = IF "version" \in kept[w] THEN versionStatus
                              ELSE [versionStatus EXCEPT ![j] = "INDEXED"]
          /\ current' \subseteq current \cup {j}
      BY <1>2, <2>1 DEF Commit, CurrentAfter
    <3>2. j \notin twice => kept[w] = {}
      BY <1>1, <1>2, AloneJob
    <3>3. j \notin twice => status'[j] = "INDEXED" /\ versionStatus'[j] = "INDEXED"
      BY <1>3, <3>1, <3>2 DEF RowInv
    <3> QED BY <3>1, <3>3 DEF Agree
  <2>2. CASE Fail(w)
    <3>1. /\ status' = [status EXCEPT ![j] = "FAILED"] /\ current' = current
          /\ versionStatus' = [versionStatus EXCEPT ![j] = "FAILED"]
      BY <1>2, <2>2 DEF Fail
    <3>2. status'[j] = "FAILED" /\ versionStatus'[j] = "FAILED" /\ (j \notin twice => j \notin current)
      BY <1>1, <1>2, <1>3, <3>1, AloneJob DEF RowInv
    <3> QED BY <3>1, <3>2 DEF Agree
  <2> QED BY <2>1, <2>2
<1>5. /\ batch' = [batch EXCEPT ![w] = batch[w] \ {j}] /\ kept' = [kept EXCEPT ![w] = {}]
      /\ batch[w] \ {j} \in SUBSET (batch[w] \ {j})
  BY <1>1, <1>2 DEF NextJob, Forget
<1>6. Hands'
  BY <1>1, <1>2, <1>4, EndRegistered, NextJobHands
<1> QED BY <1>1, <1>2, <1>4, <1>5, <1>6, EndStep

\* A skipped job and a retried one leave the hands of their process.
LEMMA LeaveTyped ==
  ASSUME TypeInv, NEW p \in Process, NEW s \in {"PENDING", "INDEXED"}, pc[p] # "idle", Drop(p),
         NEW j, j = Job(p), UNCHANGED <<upload, current, deleted>>,
         status' = [status EXCEPT ![j] = s] \/ status' = status,
         versionStatus' = [versionStatus EXCEPT ![j] = s] \/ versionStatus' = versionStatus,
         j \notin twice => Agree(j)'
  PROVE  TypeInv' /\ Registered' = Registered
<1>1. /\ batch' = [batch EXCEPT ![p] = {}] /\ kept' = [kept EXCEPT ![p] = {}]
      /\ {} \in SUBSET (batch[p] \ {j}) /\ UNCHANGED twice
  BY DEF Drop, Forget
<1>2. Hands'
  BY EndRegistered, DropHands
<1>3. /\ current' \subseteq current \cup {j}
      /\ j \notin twice => j \notin current'
  BY AloneJob
<1> QED BY <1>1, <1>2, <1>3, EndStep

\* A duplicate is marked INDEXED, or not at all.
LEMMA DuplicateTyped ==
  ASSUME TypeInv, NEW w \in Worker, Duplicate(w)
  PROVE  TypeInv' /\ Registered' = Registered
<1>1. PICK j : j = Job(w)
  OBVIOUS
<1>2. w \in Process /\ pc[w] = "duplicate row" /\ Drop(w) /\ UNCHANGED <<upload, current, deleted>>
  BY DEF Process, Duplicate
<1>3. \/ /\ status' = [status EXCEPT ![j] = "INDEXED"]
         /\ versionStatus' = [versionStatus EXCEPT ![j] = "INDEXED"]
      \/ status' = status /\ versionStatus' = versionStatus
  BY <1>1 DEF Duplicate
<1>4. RowInv /\ j \in Version
  BY <1>1, <1>2, JobInHand DEF TypeInv
<1>5. j \notin twice => Agree(j)
  BY <1>1, <1>2, AloneJob
<1>6. j \notin twice => Agree(j)'
  BY <1>3, <1>4, <1>5 DEF RowInv, Agree
<1> QED BY <1>1, <1>2, <1>3, <1>6, LeaveTyped

\* The COMMIT of a retry makes the job PENDING.
LEMMA RetryTyped ==
  ASSUME TypeInv, NEW a \in Admin, Retry(a)
  PROVE  TypeInv' /\ Registered' = Registered
<1>1. PICK j : j = Job(a)
  OBVIOUS
<1>2. /\ a \in Process /\ pc[a] # "idle" /\ Drop(a) /\ UNCHANGED <<upload, current, deleted>>
      /\ status' = [status EXCEPT ![j] = "PENDING"]
      /\ versionStatus' = IF "version" \in kept[a] THEN versionStatus
                          ELSE [versionStatus EXCEPT ![j] = "PENDING"]
  BY <1>1, WorkerOrAdmin DEF Retry
<1>3. RowInv /\ j \in Version
  BY <1>1, <1>2, JobInHand DEF TypeInv
<1>4. j \notin twice => kept[a] = {}
  BY <1>1, <1>2, AloneJob
<1>5. j \notin twice => status'[j] = "PENDING" /\ versionStatus'[j] = "PENDING"
  BY <1>2, <1>3, <1>4 DEF RowInv
<1>6. j \notin twice => Agree(j)'
  BY <1>5 DEF Agree
<1> QED BY <1>1, <1>2, <1>6, LeaveTyped

\* A request takes a FAILED job; the first to do so is alone with it.
LEMMA RetryReadTyped ==
  ASSUME TypeInv, NEW a \in Admin, NEW v \in Version, RetryRead(a, v)
  PROVE  TypeInv'
<1>1. /\ a \in Process /\ status[v] = "FAILED" /\ pc[a] = "idle" /\ v \in Registered
      /\ batch' = [batch EXCEPT ![a] = {v}] /\ pc' = [pc EXCEPT ![a] = "retry version"]
      /\ UNCHANGED <<flipped, kept>> /\ UNCHANGED rows /\ UNCHANGED upload
      /\ twice' = IF InRetry(v) = {} THEN twice ELSE twice \cup {v}
  BY WorkerOrAdmin DEF RetryRead, Goto
<1>2. HandInv(a) /\ HandType
  BY <1>1 DEF TypeInv, Hands
<1>3. Registered' = Registered /\ UNCHANGED <<status, versionStatus, current, deleted>>
  BY <1>1 DEF Registered, rows
<1>4. RowInv'
  BY <1>1, <1>3 DEF TypeInv, RowInv
<1>5. /\ pc'[a] = "retry version" /\ batch'[a] = {v} /\ flipped'[a] = {} /\ kept'[a] = {}
      /\ flipped[a] = {} /\ kept[a] = {}
  BY <1>1, <1>2 DEF HandType, HandInv, Swept, KeepPoints, Persisting
<1>6. HandInv(a)'
  BY <1>1, <1>3, <1>5 DEF HandInv, Swept, RetryPoints
<1>7. /\ {v} \in SUBSET Version /\ "retry version" \in Points
      /\ {} \in SUBSET Version /\ {} \in SUBSET {"job", "version", "current"}
      /\ flipped' = [flipped EXCEPT ![a] = {}] /\ kept' = [kept EXCEPT ![a] = {}]
  BY <1>1, <1>2, <1>5 DEF Points, Marking, HandType
<1>8. Hands'
  BY <1>1, <1>3, <1>6, <1>7, HandStep
<1>9. \A q \in Process \ {a} : batch'[q] = batch[q] /\ Job(q)' = Job(q)
  BY <1>1, <1>2, SameJob DEF HandType
<1>10. ASSUME NEW u \in Version \ twice' PROVE AloneInv(u)'
  <2>1. AloneInv(u) /\ u \notin twice
    BY <1>1 DEF TypeInv, Alone
  <2>2. Agree(u)' /\ (u \in current' => status'[u] = "INDEXED")
    BY <1>3, <2>1 DEF AloneInv, Agree
  <2>3. \A q \in Process : batch'[q] # {} /\ Job(q)' = u => kept'[q] = {}
    BY <1>1, <1>5, <1>9, <2>1 DEF AloneInv
  <2>4. CASE u = v
    <3>1. InRetry(v) = {}
      BY <1>1, <2>4
    <3>2. \A q \in Process : v \notin batch[q]
      BY <1>1, <2>1, <2>4, <3>1 DEF InRetry, AloneInv
    <3> QED BY <1>1, <1>3, <1>5, <1>9, <2>2, <2>3, <2>4, <3>2 DEF AloneInv
  <2>5. CASE u # v
    <3>1. \A q \in Process : u \in batch'[q] => u \in batch[q]
      BY <1>5, <1>9, <2>5
    <3> QED BY <1>3, <2>1, <2>2, <2>3, <3>1 DEF AloneInv
  <2> QED BY <2>4, <2>5
<1> QED BY <1>1, <1>3, <1>4, <1>8, <1>10, SameUploads DEF TypeInv, Alone

\* The request reads the version.
LEMMA RetryVersionTyped ==
  ASSUME TypeInv, NEW a \in Admin, RetryReadVersion(a)
  PROVE  TypeInv'
<1>1. /\ a \in Process /\ pc[a] = "retry version" /\ UNCHANGED rows /\ UNCHANGED <<upload, twice>>
      /\ UNCHANGED <<batch, flipped>>
  BY WorkerOrAdmin DEF RetryReadVersion
<1>2. PICK to \in {"retry", "retry alone"} : pc' = [pc EXCEPT ![a] = to]
  BY DEF RetryReadVersion, Goto
<1>3. HandInv(a) /\ HandType
  BY <1>1 DEF TypeInv, Hands
<1>4. kept[a] = {} /\ flipped[a] = {}
  BY <1>1, <1>3 DEF HandInv, KeepPoints, Persisting, Swept
<1> DEFINE k == IF versionStatus[Job(a)] = "PENDING" THEN {"version", "current"} ELSE {}
<1>5. /\ kept' = [kept EXCEPT ![a] = k] /\ k \in SUBSET {"job", "version", "current"}
      /\ flipped' = [flipped EXCEPT ![a] = {}] /\ {} \in SUBSET Version
  BY <1>1, <1>3, <1>4 DEF RetryReadVersion, Keep, HandType
<1>6. Job(a) \notin twice => k = {}
  BY <1>1, AloneJob DEF Agree
<1> HIDE DEF k
<1>7. to \in Points /\ to \in KeepPoints /\ to \in RetryPoints /\ "retry version" \in RetryPoints /\ to # "idle"
  BY DEF Points, Marking, KeepPoints, RetryPoints
<1> QED BY <1>1, <1>2, <1>5, <1>6, <1>7, MoveStep

\* An error sends a worker to fail its job, or ends the batch.
LEMMA RaiseTyped ==
  ASSUME TypeInv, NEW p \in Process, Raise(p)
  PROVE  TypeInv'
<1>1. UNCHANGED <<upload, rows>>
  BY DEF Raise
<1>2. CASE \E point \in Persisting : Rollback(p, point, "fail")
  <2>1. PICK point \in Persisting : Rollback(p, point, "fail")
    BY <1>2
  <2>2. "fail" \in Points /\ point \in Points /\ point # "idle" /\ {"fail", point} \cap RetryPoints = {}
    BY DEF Points, Marking, Persisting, RetryPoints
  <2> QED BY <1>1, <2>1, <2>2, RollbackStep
<1>3. CASE Drop(p)
  BY <1>1, <1>3, DropTyped
<1> QED BY <1>2, <1>3 DEF Raise

\* Every step, and stuttering.
LEMMA TypeKept == TypeInv /\ [Next]_vars => TypeInv'
<1> SUFFICES ASSUME TypeInv, [Next]_vars PROVE TypeInv'
  OBVIOUS
<1>1. ASSUME NEW i \in Version,
             Lookup(i) \/ Number(i) \/ Insert(i) \/ Put(i) \/ Register(i) \/ AbortUpload(i)
      PROVE  TypeInv'
  BY <1>1, UploadTyped, RegisterTyped
<1>2. ASSUME NEW w \in Worker, Work(w) \/ Crash(w) PROVE TypeInv'
  <2>1. CASE Crash(w)
    BY <2>1, DropTyped DEF Crash, Process
  <2> QED BY <1>2, <2>1, ClaimTyped, LoadTyped, WorkTyped, FlipTyped, EndTyped, DuplicateTyped DEF Work
<1>3. ASSUME NEW a \in Admin, RetryStep(a) PROVE TypeInv'
  <2>1. CASE RetryDocument(a)
    <3>1. /\ a \in Process /\ Step(a, "retry", "retry row") /\ UNCHANGED <<upload, rows>>
          /\ {"retry", "retry row"} \subseteq Points /\ {"retry", "retry row"} \subseteq RetryPoints
          /\ "retry row" \in KeepPoints
      BY <2>1, WorkerOrAdmin DEF RetryDocument, Points, Marking, RetryPoints, KeepPoints
    <3> QED BY <3>1, PlainStep
  <2> QED BY <1>3, <2>1, RetryReadTyped, RetryVersionTyped, RetryTyped DEF RetryStep
<1>4. ASSUME UNCHANGED <<upload, status, versionStatus, current, queue>>, deleted' \subseteq Version
      PROVE  TypeInv'
  <2>1. Hands' /\ Alone'
    BY <1>4, SameHands
  <2>2. Registered' = Registered /\ RowInv'
    BY <1>4 DEF Registered, TypeInv, RowInv, queue
  <2> QED BY <1>4, <2>1, <2>2, SameUploads DEF TypeInv
<1>5. ASSUME NEW d \in Version, Delete(d) PROVE TypeInv'
  BY <1>4, <1>5 DEF Delete, TypeInv, RowInv
<1>6. CASE RemoveObjects \/ UNCHANGED vars
  BY <1>4, <1>6 DEF RemoveObjects, vars, rows, queue, TypeInv, RowInv
<1> QED BY <1>1, <1>2, <1>3, <1>5, <1>6, RaiseTyped DEF Next

\* At first nothing is registered.
LEMMA TypeInitially == Init => TypeInv
<1> SUFFICES ASSUME Init PROVE TypeInv
  OBVIOUS
<1>1. Registered = {}
  BY DEF Init, Registered
<1>2. RowInv /\ UploadInv
  BY <1>1 DEF Init, RowInv, UploadInv, UploadType, NoUpload, Statuses
<1>3. HandType
  BY DEF Init, HandType, Points
<1>4. ASSUME NEW p \in Process PROVE HandInv(p)
  BY DEF Init, HandInv, Swept, RetryPoints
<1>5. Alone
  BY DEF Init, Alone, AloneInv, Agree
<1> QED BY <1>2, <1>3, <1>4, <1>5 DEF TypeInv, Hands

\* Types and batches are right throughout.
LEMMA TypeAlways == Spec => []TypeInv
  BY TypeInitially, TypeKept, PTL DEF Spec

\* Unless two requests retried a version at a time, no two processes ever have
\* its job in hand; a worker's jobs are PROCESSING and a request's is FAILED.
THEOREM IngestionTypesCorrect == Spec => []TypeOK
<1>1. TypeInv => TypeOK
  <2> SUFFICES ASSUME TypeInv PROVE TypeOK
    OBVIOUS
  <2>1. /\ upload \in [Version -> UploadType] /\ RowInv /\ HandType
        /\ \A p \in Process : pc[p] = "idle" <=> ~Busy(p)
    BY DEF TypeInv, UploadInv, Hands, HandInv, Busy
  <2>2. ASSUME NEW v \in Version \ twice
        PROVE  /\ Agree(v)
               /\ \A p, q \in Process : p # q => v \notin batch[p] \cap batch[q]
               /\ \A w \in Worker : v \in batch[w] => status[v] = "PROCESSING"
               /\ \A a \in Admin : v \in batch[a] => status[v] = "FAILED"
    BY WorkerOrAdmin DEF TypeInv, Alone, AloneInv
  <2> QED BY <2>1, <2>2 DEF TypeOK, RowInv, HandType
<1> QED BY <1>1, TypeAlways, PTL

-----------------------------------------------------------------------------
(* The store.                                                              *)

\* Uploads past the INSERT of their version.
Keyed(v) == upload[v].at \in {"put", "commit"} \/ v \in Registered

SourceInv ==
  /\ \A k \in doomed : k[1] \in deleted
  /\ \A v \in Version : upload[v].at = "commit" \/ v \in Registered =>
       Key(v) \in objects \/ DocOf(v) \in deleted
  /\ \A u, v \in Version : u # v /\ Keyed(u) /\ Keyed(v) => Key(u) # Key(v)

\* One upload moves; what the others have is as before.
LEMMA SourceUpload ==
  ASSUME TypeInv, SourceInv, NEW i \in Version,
         NEW r \in UploadType, upload' = [upload EXCEPT ![i] = r],
         UNCHANGED <<deleted, doomed>>, objects \subseteq objects', Registered' \subseteq Registered \cup {i},
         Keyed(i)' => \A v \in Version \ {i} : Keyed(v) => <<r.doc, r.number>> # Key(v),
         r.at = "commit" \/ i \in Registered' => <<r.doc, r.number>> \in objects' \/ r.doc \in deleted
  PROVE  SourceInv'
<1>1. /\ upload'[i] = r /\ \A v \in Version \ {i} : upload'[v] = upload[v]
  BY DEF TypeInv, UploadInv
<1>2. /\ Key(i)' = <<r.doc, r.number>> /\ DocOf(i)' = r.doc
      /\ \A v \in Version \ {i} : Key(v)' = Key(v) /\ DocOf(v)' = DocOf(v) /\ (Keyed(v)' => Keyed(v))
  BY <1>1 DEF Key, DocOf, Keyed
<1> QED BY <1>1, <1>2 DEF SourceInv

\* Where nothing about objects and deletions changes.
LEMMA SourceSame ==
  ASSUME SourceInv, UNCHANGED <<upload, deleted, objects, doomed>>, Registered' = Registered
  PROVE  SourceInv'
  BY DEF SourceInv, Keyed, Key, DocOf

\* Only the COMMIT of an upload registers a version.
LEMMA RegisteredKept ==
  ASSUME TypeInv, [Next]_vars, ~(\E i \in Version : Register(i))
  PROVE  Registered' = Registered
<1>1. \/ status' = status \/ (\E a \in Admin : Retry(a))
      \/ \E w \in Worker : Claim(w) \/ Commit(w) \/ Fail(w) \/ Duplicate(w)
  BY DEF Next, vars, rows, Work, Lookup, Number, Insert, Put, AbortUpload, LoadJob, LoadVersion, Fetch,
         DuplicateDocument, Parse, Write, Flip, FailDocument, RetryStep, RetryRead, RetryReadVersion,
         RetryDocument, Raise, Crash, Delete, RemoveObjects
<1>2. CASE status' = status
  BY <1>2 DEF Registered
<1> QED BY <1>1, <1>2, ClaimTyped, EndTyped, DuplicateTyped, RetryTyped

\* What the upload steps do to one record.
LEMMA UploadRecord ==
  ASSUME TypeInv, NEW i \in Version, NEW point \in {"put", "commit", "ended"}, UploadAt(i, point)
  PROVE  \E r \in UploadType : /\ upload' = [upload EXCEPT ![i] = r]
                               /\ r.at = point /\ r.doc = DocOf(i) /\ <<r.doc, r.number>> = Key(i)
<1> DEFINE r == [upload[i] EXCEPT !.at = point]
<1>1. r \in UploadType /\ upload' = [upload EXCEPT ![i] = r]
  BY PointTyped
<1>2. r.at = point /\ r.doc = upload[i].doc /\ r.number = upload[i].number
  BY DEF TypeInv, UploadInv, UploadType
<1> QED BY <1>1, <1>2 DEF DocOf, Key

\* Every step keeps the sources that jobs need.
LEMMA SourceKept == TypeInv /\ SourceInv /\ [Next]_vars => SourceInv'
<1> SUFFICES ASSUME TypeInv, SourceInv, [Next]_vars PROVE SourceInv'
  OBVIOUS
<1>1. ASSUME NEW i \in Version, Lookup(i) \/ Number(i) PROVE SourceInv'
  <2>1. /\ upload[i].at \in {"none", "number"}
        /\ UNCHANGED <<status, deleted, objects, doomed>>
    BY <1>1 DEF Lookup, Number, rows
  <2>2. PICK at \in {"number", "insert"} : upload'[i].at = at
    BY <1>1 DEF Lookup, Number, TypeInv, UploadInv, UploadType
  <2>3. /\ Registered' = Registered /\ i \notin Registered
        /\ \A v \in Version \ {i} : upload'[v] = upload[v]
    BY <1>1, <2>1 DEF Lookup, Number, TypeInv, UploadInv, Registered
  <2>4. /\ ~Keyed(i)'
        /\ \A v \in Version \ {i} : Key(v)' = Key(v) /\ DocOf(v)' = DocOf(v) /\ (Keyed(v)' <=> Keyed(v))
    BY <2>2, <2>3 DEF Keyed, Key, DocOf
  <2> QED BY <2>1, <2>2, <2>3, <2>4 DEF SourceInv
<1>2. ASSUME NEW i \in Version, Insert(i) PROVE SourceInv'
  <2>1. /\ upload[i].at = "insert" /\ \A j \in SameKey(i) : upload[j].at \notin {"put", "commit"}
        /\ UNCHANGED <<status, deleted, objects, doomed>> /\ Registered' = Registered /\ i \notin Registered
    BY <1>2 DEF Insert, rows, Registered, TypeInv, UploadInv
  <2>2. PICK point \in {"put", "ended"} : UploadAt(i, point) /\ (point = "put" => SameKey(i) \cap Registered = {})
    BY <1>2 DEF Insert
  <2>3. PICK r \in UploadType : /\ upload' = [upload EXCEPT ![i] = r]
                                /\ r.at = point /\ <<r.doc, r.number>> = Key(i)
    BY <2>2, UploadRecord
  <2>4. Keyed(i)' => point = "put"
    BY <2>1, <2>2, <2>3 DEF Keyed, TypeInv, UploadInv
  <2>5. \A v \in Version \ {i} : Keyed(v) /\ point = "put" => Key(i) # Key(v)
    BY <2>1, <2>2 DEF SameKey, Keyed
  <2> QED BY <2>1, <2>2, <2>3, <2>4, <2>5, SourceUpload
<1>3. ASSUME NEW i \in Version, Put(i) PROVE SourceInv'
  <2>1. /\ upload[i].at = "put" /\ UploadAt(i, "commit") /\ objects' = objects \cup {Key(i)}
        /\ UNCHANGED <<status, deleted, doomed>> /\ Registered' = Registered
    BY <1>3 DEF Put, rows, Registered
  <2>2. PICK r \in UploadType : upload' = [upload EXCEPT ![i] = r] /\ <<r.doc, r.number>> = Key(i)
    BY <2>1, UploadRecord
  <2>3. \A v \in Version \ {i} : Keyed(v) => Key(i) # Key(v)
    BY <2>1 DEF SourceInv, Keyed
  <2> QED BY <2>1, <2>2, <2>3, SourceUpload
<1>4. ASSUME NEW i \in Version, Register(i) PROVE SourceInv'
  <2>1. /\ upload[i].at = "commit" /\ UploadAt(i, "ended") /\ UNCHANGED <<deleted, objects, doomed>>
        /\ Registered' \subseteq Registered \cup {i}
    BY <1>4 DEF Register, Registered, TypeInv, RowInv
  <2>2. PICK r \in UploadType : /\ upload' = [upload EXCEPT ![i] = r]
                                /\ r.doc = DocOf(i) /\ <<r.doc, r.number>> = Key(i)
    BY <2>1, UploadRecord
  <2>3. \A v \in Version \ {i} : Keyed(v) => Key(i) # Key(v)
    BY <2>1 DEF SourceInv, Keyed
  <2>4. Key(i) \in objects \/ DocOf(i) \in deleted
    BY <2>1 DEF SourceInv
  <2> QED BY <2>1, <2>2, <2>3, <2>4, SourceUpload
<1>5. ASSUME NEW i \in Version, AbortUpload(i) PROVE SourceInv'
  <2>1. /\ upload[i].at \notin {"none", "ended"} /\ UploadAt(i, "ended")
        /\ UNCHANGED <<status, deleted, objects, doomed>> /\ Registered' = Registered /\ i \notin Registered
    BY <1>5 DEF AbortUpload, rows, Registered, TypeInv, UploadInv
  <2>2. PICK r \in UploadType : upload' = [upload EXCEPT ![i] = r] /\ r.at = "ended"
    BY <2>1, UploadRecord
  <2>3. ~Keyed(i)'
    BY <2>1, <2>2 DEF Keyed, TypeInv, UploadInv
  <2> QED BY <2>1, <2>2, <2>3, SourceUpload
<1>6. ASSUME NEW d \in Version, Delete(d) PROVE SourceInv'
  <2>1. /\ deleted' = deleted \cup {d}
        /\ doomed' = doomed \cup {Key(v) : v \in {o \in Registered : DocOf(o) = d}}
        /\ UNCHANGED <<upload, status, objects>> /\ Registered' = Registered
    BY <1>6 DEF Delete, Registered
  <2>2. \A k \in doomed' : k[1] \in deleted'
    BY <2>1 DEF SourceInv, Key, DocOf
  <2> QED BY <2>1, <2>2 DEF SourceInv, Keyed, Key, DocOf
<1>7. ASSUME RemoveObjects PROVE SourceInv'
  <2>1. PICK removed \in SUBSET doomed : objects' = objects \ removed
    BY <1>7 DEF RemoveObjects
  <2>2. /\ doomed' = {} /\ UNCHANGED <<upload, status, deleted>> /\ Registered' = Registered
    BY <1>7 DEF RemoveObjects, rows, Registered
  <2>3. \A v \in Version : Key(v) \in removed => DocOf(v) \in deleted
    BY DEF SourceInv, Key, DocOf
  <2> QED BY <2>1, <2>2, <2>3 DEF SourceInv, Keyed, Key, DocOf
<1>8. CASE UNCHANGED <<upload, deleted, objects, doomed>> /\ ~(\E i \in Version : Register(i))
  BY <1>8, RegisteredKept, SourceSame
<1>9. \/ UNCHANGED <<upload, deleted, objects, doomed>>
      \/ RemoveObjects \/ (\E d \in Version : Delete(d))
      \/ \E i \in Version : \/ Lookup(i) \/ Number(i) \/ Insert(i) \/ Put(i) \/ Register(i)
                            \/ AbortUpload(i)
  BY DEF Next, vars, rows, Work, Claim, LoadJob, LoadVersion, Fetch, DuplicateDocument, Duplicate, Parse,
         Write, Flip, Commit, FailDocument, Fail, RetryStep, RetryRead, RetryReadVersion, RetryDocument,
         Retry, Raise, Crash
<1> QED BY <1>1, <1>2, <1>3, <1>4, <1>5, <1>6, <1>7, <1>8, <1>9

\* At first no job needs a source.
LEMMA SourceInitially == Init => SourceInv
<1> SUFFICES ASSUME Init PROVE SourceInv
  OBVIOUS
<1>1. \A v \in Version : ~Keyed(v) /\ upload[v].at = "none" /\ v \notin Registered
  BY DEF Init, Keyed, Registered, NoUpload
<1> QED BY <1>1 DEF SourceInv, Init

\* Whatever fails, and whatever is deleted meanwhile: no job is ever queued
\* whose bytes are not in the store, and no two versions share an object.
THEOREM SourcesAreStored == Spec => []SourceStored
<1>1. TypeInv /\ SourceInv => SourceStored
  BY DEF SourceInv, SourceStored, Keyed, Registered
<1> QED BY <1>1, TypeAlways, SourceInitially, SourceKept, TypeInitially, TypeKept, PTL DEF Spec

-----------------------------------------------------------------------------
(* Who moves.                                                              *)

Still(p) ==
  /\ pc'[p] = pc[p] /\ batch'[p] = batch[p]
  /\ flipped'[p] = flipped[p] /\ kept'[p] = kept[p]

\* The steps of one process are those of no other.
LEMMA OthersStill ==
  ASSUME TypeInv, NEW p \in Process,
         \E point : pc' = [pc EXCEPT ![p] = point],
         batch' = batch \/ \E b : batch' = [batch EXCEPT ![p] = b],
         flipped' = flipped \/ \E f : flipped' = [flipped EXCEPT ![p] = f],
         kept' = kept \/ \E k : kept' = [kept EXCEPT ![p] = k]
  PROVE  \A q \in Process \ {p} : Still(q)
  BY DEF TypeInv, Hands, HandType, Still

\* A process gives up, or goes on to its next job.
LEMMA EndStill ==
  ASSUME TypeInv, NEW p \in Process, Drop(p) \/ NextJob(p)
  PROVE  pc'[p] \in {"idle", "load"} /\ \A q \in Process \ {p} : Still(q)
<1>1. PICK point \in {"idle", "load"} : pc' = [pc EXCEPT ![p] = point]
  BY DEF Drop, NextJob, Goto
<1>2. /\ \E b : batch' = [batch EXCEPT ![p] = b]
      /\ \E f : flipped' = [flipped EXCEPT ![p] = f]
      /\ \E k : kept' = [kept EXCEPT ![p] = k]
  BY DEF Drop, NextJob, Forget
<1>3. \A q \in Process \ {p} : Still(q)
  BY <1>1, <1>2, OthersStill
<1>4. pc'[p] = point
  BY <1>1 DEF TypeInv, Hands, HandType
<1> QED BY <1>3, <1>4

\* A process goes to its next statement.
LEMMA StepStill ==
  ASSUME TypeInv, NEW p \in Process, NEW from, NEW to, Step(p, from, to) \/ Rollback(p, from, to)
  PROVE  pc'[p] = to /\ \A q \in Process \ {p} : Still(q)
<1>1. /\ pc' = [pc EXCEPT ![p] = to] /\ batch' = batch
      /\ flipped' = flipped \/ \E f : flipped' = [flipped EXCEPT ![p] = f]
      /\ kept' = kept \/ \E k : kept' = [kept EXCEPT ![p] = k]
  BY DEF Step, Rollback, Goto, Forget
<1>2. \A q \in Process \ {p} : Still(q)
  BY <1>1, OthersStill
<1> QED BY <1>1, <1>2 DEF TypeInv, Hands, HandType

\* A worker starts, loads, or sweeps.
LEMMA WorkerStill ==
  ASSUME TypeInv, NEW w \in Worker, Claim(w) \/ LoadJob(w) \/ LoadVersion(w) \/ Flip(w)
  PROVE  /\ pc'[w] \in {"load", "load version", "fetch", "document", "commit"}
         /\ pc'[w] \in {"document", "commit"} => Flip(w)
         /\ \A q \in Process \ {w} : Still(q)
<1>1. w \in Process
  BY WorkerOrAdmin
<1>2. PICK point \in {"load", "load version", "fetch", "document", "commit"} :
        pc' = [pc EXCEPT ![w] = point] /\ (point \in {"document", "commit"} => Flip(w))
  BY DEF Claim, LoadJob, LoadVersion, Flip, Goto
<1>3. /\ batch' = batch \/ \E b : batch' = [batch EXCEPT ![w] = b]
      /\ flipped' = flipped \/ \E f : flipped' = [flipped EXCEPT ![w] = f]
      /\ kept' = kept \/ \E k : kept' = [kept EXCEPT ![w] = k]
  BY DEF Claim, LoadJob, LoadVersion, Flip, Keep
<1>4. \A q \in Process \ {w} : Still(q)
  BY <1>1, <1>2, <1>3, OthersStill
<1>5. pc'[w] = point
  BY <1>1, <1>2 DEF TypeInv, Hands, HandType
<1> QED BY <1>2, <1>4, <1>5

\* A request reads.
LEMMA RequestStill ==
  ASSUME TypeInv, NEW a \in Admin, (\E v \in Version : RetryRead(a, v)) \/ RetryReadVersion(a)
  PROVE  pc'[a] \in RetryPoints /\ \A q \in Process \ {a} : Still(q)
<1>1. a \in Process
  BY WorkerOrAdmin
<1>2. PICK point \in {"retry version", "retry", "retry alone"} : pc' = [pc EXCEPT ![a] = point]
  BY DEF RetryRead, RetryReadVersion, Goto
<1>3. /\ batch' = batch \/ \E b : batch' = [batch EXCEPT ![a] = b]
      /\ flipped' = flipped
      /\ kept' = kept \/ \E k : kept' = [kept EXCEPT ![a] = k]
  BY DEF RetryRead, RetryReadVersion, Keep
<1>4. \A q \in Process \ {a} : Still(q)
  BY <1>1, <1>2, <1>3, OthersStill
<1>5. pc'[a] = point
  BY <1>1, <1>2 DEF TypeInv, Hands, HandType
<1> QED BY <1>4, <1>5 DEF RetryPoints

\* Nobody reaches the points past the write of the version's row by another
\* step than these.
LEMMA OnlyWriteAndFlipAdvance ==
  ASSUME TypeInv, [Next]_vars, NEW p \in Process, Written(p)'
  PROVE  Still(p) \/ (p \in Worker /\ (Write(p) \/ Flip(p)))
<1>1. CASE UNCHANGED queue
  BY <1>1 DEF queue, Still
<1>2. ASSUME NEW q \in Process, NEW S, pc'[q] \in S, S \cap {"flip", "document", "commit"} = {},
             \A o \in Process \ {q} : Still(o)
      PROVE  Still(p)
  BY <1>2 DEF Written
<1>3. ASSUME NEW w \in Worker, Work(w) \/ Crash(w)
      PROVE  Still(p) \/ (p \in Worker /\ (Write(p) \/ Flip(p)))
  <2>0. w \in Process
    BY WorkerOrAdmin
  <2>1. CASE Claim(w) \/ LoadJob(w) \/ LoadVersion(w) \/ Flip(w)
    BY <2>0, <2>1, WorkerStill DEF Written
  <2>2. CASE Fetch(w) \/ Parse(w) \/ FailDocument(w) \/ DuplicateDocument(w)
    <3>1. \E from, to : (Step(w, from, to) \/ Rollback(w, from, to))
                        /\ to \in {"fail", "parse", "duplicate", "write", "fail row", "duplicate row"}
      BY <2>2 DEF Fetch, Parse, FailDocument, DuplicateDocument
    <3>2. /\ pc'[w] \in {"fail", "parse", "duplicate", "write", "fail row", "duplicate row"}
          /\ \A q \in Process \ {w} : Still(q)
      BY <2>0, <3>1, StepStill
    <3> QED BY <1>2, <2>0, <3>2
  <2>3. CASE Write(w)
    <3>1. \E from, to : Step(w, from, to) \/ Rollback(w, from, to)
      BY <2>3 DEF Write
    <3>2. \A q \in Process \ {w} : Still(q)
      BY <2>0, <3>1, StepStill
    <3> QED BY <2>3, <3>2
  <2>4. CASE Commit(w) \/ Fail(w) \/ Duplicate(w) \/ Crash(w)
    <3>1. pc'[w] \in {"idle", "load"} /\ \A q \in Process \ {w} : Still(q)
      BY <2>0, <2>4, EndStill DEF Commit, Fail, Duplicate, Crash
    <3> QED BY <1>2, <2>0, <3>1
  <2> QED BY <1>3, <2>1, <2>2, <2>3, <2>4 DEF Work
<1>4. ASSUME NEW a \in Admin, RetryStep(a) PROVE Still(p)
  <2>0. a \in Process
    BY WorkerOrAdmin
  <2>1. CASE (\E v \in Version : RetryRead(a, v)) \/ RetryReadVersion(a)
    <3>1. RetryPoints \cap {"flip", "document", "commit"} = {}
      BY DEF RetryPoints
    <3> QED BY <1>2, <2>0, <2>1, <3>1, RequestStill
  <2>2. CASE RetryDocument(a)
    <3>1. pc'[a] \in {"retry row"} /\ \A q \in Process \ {a} : Still(q)
      BY <2>0, <2>2, StepStill DEF RetryDocument
    <3> QED BY <1>2, <2>0, <3>1
  <2>3. CASE Retry(a)
    <3>1. pc'[a] \in {"idle", "load"} /\ \A q \in Process \ {a} : Still(q)
      BY <2>0, <2>3, EndStill DEF Retry
    <3> QED BY <1>2, <2>0, <3>1
  <2> QED BY <1>4, <2>1, <2>2, <2>3 DEF RetryStep
<1>5. ASSUME NEW q \in Process, Raise(q) PROVE Still(p)
  <2>1. CASE Drop(q)
    <3>1. pc'[q] \in {"idle", "load"} /\ \A o \in Process \ {q} : Still(o)
      BY <2>1, EndStill
    <3> QED BY <1>2, <3>1
  <2>2. CASE \E point \in Persisting : Rollback(q, point, "fail")
    <3>1. pc'[q] \in {"fail"} /\ \A o \in Process \ {q} : Still(o)
      BY <2>2, StepStill
    <3> QED BY <1>2, <3>1
  <2> QED BY <1>5, <2>1, <2>2 DEF Raise
<1>6. \/ UNCHANGED queue \/ (\E a \in Admin : RetryStep(a))
      \/ (\E w \in Worker : Work(w) \/ Crash(w)) \/ (\E q \in Process : Raise(q))
  BY DEF Next, vars, queue, Lookup, Number, Insert, Put, Register, AbortUpload, Delete, RemoveObjects
<1> QED BY <1>1, <1>3, <1>4, <1>5, <1>6

-----------------------------------------------------------------------------
(* What is served.                                                         *)

\* A process that goes on to mark its version INDEXED, or current.
WritesStatus(p) == Written(p) /\ "version" \notin kept[p]

WritesCurrent(p) == Swept(p) /\ "current" \notin kept[p]

\* No other version with these bytes is INDEXED.
Single(v) ==
  \A u \in Version : u # v /\ versionStatus[u] = "INDEXED" => BytesOf[u] # BytesOf[v]

\* The unique index at work: the versions that are INDEXED or about to be
\* have different bytes.
BytesInv ==
  /\ \A v \in Version : versionStatus[v] = "INDEXED" => Single(v)
  /\ \A p \in Process : WritesStatus(p) => Single(Job(p))
  /\ \A p, q \in Process :
       p # q /\ WritesStatus(p) /\ WritesStatus(q) => BytesOf[Job(p)] # BytesOf[Job(q)]

\* The row locks at work: the versions that are current or about to be belong
\* to different documents.
DocumentInv ==
  /\ \A u, v \in current : u # v => DocOf(u) # DocOf(v)
  /\ \A p, q \in Process : p # q /\ Written(p) /\ Written(q) => Job(p) # Job(q)
  /\ \A p \in Process : Swept(p) => flipped[p] \subseteq Siblings(Job(p))
  /\ \A p \in Process : WritesCurrent(p) => Siblings(Job(p)) \cap current \subseteq flipped[p]
  /\ \A p, q \in Process :
       p # q /\ WritesCurrent(p) /\ WritesCurrent(q) => DocOf(Job(p)) # DocOf(Job(q))

ServeInv == BytesInv /\ DocumentInv

\* An INDEXED version is registered.
LEMMA IndexedRegistered ==
  ASSUME TypeInv, NEW v \in Version, versionStatus[v] = "INDEXED"
  PROVE  v \in Registered
<1>1. CASE v \in twice
  BY <1>1 DEF TypeInv, RowInv
<1>2. CASE v \notin twice
  BY <1>2 DEF TypeInv, Alone, AloneInv, Agree, Registered
<1> QED BY <1>1, <1>2

\* What the code looks up.
LEMMA SingleIsLookedUp ==
  ASSUME TypeInv, NEW v \in Version
  PROVE  Duplicates(v) = {} <=> Single(v)
<1>1. Duplicates(v) = {} => Single(v)
  BY IndexedRegistered DEF Duplicates, Indexed, Single
<1>2. Single(v) => Duplicates(v) = {}
  BY DEF Duplicates, Indexed, Single, Registered
<1> QED BY <1>1, <1>2

\* A process that has flushed is a worker with a registered job.
LEMMA WrittenJob ==
  ASSUME TypeInv, NEW p \in Process, Written(p)
  PROVE  p \in Worker /\ Job(p) \in batch[p] /\ Job(p) \in Registered /\ Job(p) \in Version
<1>1. pc[p] # "idle" /\ pc[p] \notin RetryPoints
  BY DEF Written, RetryPoints
<1> QED BY <1>1, JobInHand DEF Process

\* Registered versions keep their uploads, and their rows get INDEXED by
\* Commit and Duplicate alone.
LEMMA RowsAhead ==
  ASSUME TypeInv, [Next]_vars
  PROVE  /\ Registered \subseteq Registered' /\ twice \subseteq twice'
         /\ \A v \in Registered : upload'[v] = upload[v]
         /\ (\E w \in Worker : Commit(w) \/ Duplicate(w)) \/
              /\ current' = current
              /\ \A v \in Version : versionStatus'[v] = "INDEXED" => versionStatus[v] = "INDEXED"
<1>0. \A v \in Registered : upload[v].at = "ended" /\ v \in Version
  BY DEF TypeInv, UploadInv, Registered
<1>1. ASSUME NEW i \in Version, Lookup(i) \/ Number(i) \/ Insert(i) \/ Put(i) \/ AbortUpload(i)
      PROVE  UNCHANGED <<rows, queue>> /\ \A v \in Registered : upload'[v] = upload[v]
  <2>1. i \notin Registered
    BY <1>0, <1>1 DEF Lookup, Number, Insert, Put, AbortUpload
  <2>2. \A v \in Version \ {i} : upload'[v] = upload[v]
    BY <1>1 DEF Lookup, Number, Insert, Put, AbortUpload, UploadAt, TypeInv, UploadInv
  <2> QED BY <1>0, <1>1, <2>1, <2>2 DEF Lookup, Number, Insert, Put, AbortUpload
<1>2. ASSUME NEW i \in Version, Register(i)
      PROVE  /\ Registered \subseteq Registered' /\ UNCHANGED <<current, queue>>
             /\ \A v \in Registered : upload'[v] = upload[v]
             /\ \A v \in Version : versionStatus'[v] = "INDEXED" => versionStatus[v] = "INDEXED"
  <2>1. i \notin Registered /\ \A v \in Version \ {i} : upload'[v] = upload[v]
    BY <1>0, <1>2 DEF Register, UploadAt, TypeInv, UploadInv
  <2> QED BY <1>0, <1>2, <2>1 DEF Register, Registered, TypeInv, RowInv
<1>3. ASSUME NEW p \in Process, NEW s \in {"PENDING", "FAILED"}, pc[p] # "idle",
             versionStatus' = [versionStatus EXCEPT ![Job(p)] = s] \/ versionStatus' = versionStatus
      PROVE  \A v \in Version : versionStatus'[v] = "INDEXED" => versionStatus[v] = "INDEXED"
  BY <1>3, JobInHand DEF TypeInv, RowInv
<1>4. CASE \E w \in Worker : Fail(w)
  <2>1. PICK w \in Worker : Fail(w)
    BY <1>4
  <2>2. w \in Process /\ pc[w] # "idle" /\ UNCHANGED <<upload, current>> /\ UNCHANGED twice
    BY <2>1, WorkerOrAdmin DEF Fail, NextJob
  <2> QED BY <1>3, <2>1, <2>2, EndTyped DEF Fail
<1>5. CASE \E a \in Admin : Retry(a)
  <2>1. PICK a \in Admin : Retry(a)
    BY <1>5
  <2>2. a \in Process /\ pc[a] # "idle" /\ UNCHANGED <<upload, current>> /\ UNCHANGED twice
    BY <2>1, WorkerOrAdmin DEF Retry, Drop
  <2> QED BY <1>3, <2>1, <2>2, RetryTyped DEF Retry
<1>6. CASE \E w \in Worker : Claim(w)
  BY <1>6, ClaimTyped DEF Claim
<1>7. CASE \E w \in Worker : Commit(w)
  BY <1>7, EndTyped DEF Commit, NextJob
<1>8. CASE \E w \in Worker : Duplicate(w)
  BY <1>8, DuplicateTyped DEF Duplicate, Drop
<1>9. CASE UNCHANGED <<rows, upload>> /\ twice \subseteq twice'
  BY <1>9 DEF rows, Registered
<1>10. \/ UNCHANGED <<rows, upload>> /\ twice \subseteq twice'
       \/ (\E a \in Admin : Retry(a))
       \/ UNCHANGED <<status, versionStatus, current, upload, twice>>
       \/ \E w \in Worker : Claim(w) \/ Fail(w) \/ Commit(w) \/ Duplicate(w)
       \/ \E i \in Version : \/ Lookup(i) \/ Number(i) \/ Insert(i) \/ Put(i) \/ Register(i)
                             \/ AbortUpload(i)
  BY DEF Next, vars, queue, Work, LoadJob, LoadVersion, Fetch, Step, Rollback, Drop, DuplicateDocument, Parse,
         Write, Flip, FailDocument, RetryStep, RetryRead, RetryReadVersion, RetryDocument, Raise, Crash,
         Delete, RemoveObjects
<1>11. CASE UNCHANGED <<status, versionStatus, current, upload, twice>>
  BY <1>11 DEF Registered
<1>12. CASE \E i \in Version : Lookup(i) \/ Number(i) \/ Insert(i) \/ Put(i) \/ AbortUpload(i)
  BY <1>1, <1>12 DEF rows, queue, Registered
<1>13. CASE \E i \in Version : Register(i)
  BY <1>2, <1>13 DEF queue
<1> QED BY <1>4, <1>5, <1>6, <1>7, <1>8, <1>9, <1>10, <1>11, <1>12, <1>13

\* At most one version (J) gets INDEXED; a process about to mark its version
\* was so before, or has just found itself alone.
LEMMA BytesStep ==
  ASSUME TypeInv, BytesInv, NEW J \in SUBSET Version,
         \A v \in Version : versionStatus'[v] = "INDEXED" => versionStatus[v] = "INDEXED" \/ v \in J,
         \A i, j \in J : i = j,
         \A j \in J : Single(j) /\ \A q \in Process : WritesStatus(q)' => BytesOf[Job(q)] # BytesOf[j],
         \A p \in Process : WritesStatus(p)' =>
           /\ Job(p)' = Job(p) /\ Job(p) \in Version
           /\ \/ WritesStatus(p)
              \/ /\ Single(Job(p))
                 /\ \A q \in Process \ {p} : WritesStatus(q)' => BytesOf[Job(p)] # BytesOf[Job(q)]
  PROVE  BytesInv'
<1>1. ASSUME NEW v \in Version, versionStatus'[v] = "INDEXED", NEW u \in Version, u # v, versionStatus'[u] = "INDEXED"
      PROVE  BytesOf[u] # BytesOf[v]
  <2>1. CASE v \in J
    BY <1>1, <2>1 DEF Single
  <2>2. CASE u \in J
    BY <1>1, <2>2 DEF Single
  <2>3. CASE u \notin J /\ v \notin J
    BY <1>1, <2>3 DEF BytesInv, Single
  <2> QED BY <2>1, <2>2, <2>3
<1>2. ASSUME NEW p \in Process, WritesStatus(p)'
      PROVE  \E k \in Version : Job(p)' = k /\ Job(p) = k /\ Single(k) /\ \A j \in J : BytesOf[k] # BytesOf[j]
  <2>1. Job(p) \in Version /\ Job(p)' = Job(p) /\ Single(Job(p))
    BY <1>2 DEF BytesInv
  <2> QED BY <1>2, <2>1
<1>3. ASSUME NEW p \in Process, WritesStatus(p)' PROVE Single(Job(p))'
  <2>1. PICK k \in Version : Job(p)' = k /\ Single(k) /\ \A j \in J : BytesOf[k] # BytesOf[j]
    BY <1>2, <1>3
  <2>2. Single(k)'
    BY <2>1 DEF Single
  <2> QED BY <2>1, <2>2 DEF Single
<1>4. ASSUME NEW p \in Process, NEW q \in Process, p # q, WritesStatus(p)', WritesStatus(q)'
      PROVE  BytesOf[Job(p)'] # BytesOf[Job(q)']
  <2>1. BytesOf[Job(p)] # BytesOf[Job(q)]
    BY <1>4 DEF BytesInv
  <2> QED BY <1>4, <2>1
<1>5. \A v \in Version : versionStatus'[v] = "INDEXED" => Single(v)'
  BY <1>1 DEF Single
<1> QED BY <1>3, <1>4, <1>5 DEF BytesInv

\* Documents keep their versions, and gain only new ones.
LEMMA SameDoc ==
  ASSUME TypeInv, \A v \in Registered : upload'[v] = upload[v], Registered \subseteq Registered'
  PROVE  /\ \A v \in Registered : DocOf(v)' = DocOf(v)
         /\ \A v \in Registered : Siblings(v) \subseteq Siblings(v)'
         /\ \A v \in Registered : Siblings(v)' \cap Registered \subseteq Siblings(v)
  BY DEF DocOf, Siblings

\* At most one version (J) becomes current; a process past its flush was so
\* before, or has just found itself alone.
LEMMA DocumentStep ==
  ASSUME TypeInv, DocumentInv, NEW J \in SUBSET Registered,
         Registered \subseteq Registered', \A v \in Registered : upload'[v] = upload[v],
         \A v \in current' : v \in current \/ v \in J,
         \A i, j \in J : i = j,
         \A j \in J : /\ \A v \in current' : v # j => DocOf(v) # DocOf(j)
                      /\ \A q \in Process : WritesCurrent(q)' => DocOf(Job(q)) # DocOf(j),
         \A p \in Process : Written(p)' =>
           /\ Job(p)' = Job(p) /\ Job(p) \in Registered
           /\ Written(p) \/ \A q \in Process \ {p} : Written(q)' => Job(p) # Job(q),
         \A p \in Process : Swept(p)' =>
           \/ Swept(p) /\ flipped'[p] = flipped[p] /\ kept'[p] = kept[p]
           \/ /\ flipped'[p] = Siblings(Job(p))
              /\ \A q \in Process \ {p} : WritesCurrent(p)' /\ WritesCurrent(q)' => DocOf(Job(p)) # DocOf(Job(q))
  PROVE  DocumentInv'
<1>1. /\ \A v \in Registered : DocOf(v)' = DocOf(v)
      /\ \A v \in Registered : Siblings(v) \subseteq Siblings(v)'
      /\ \A v \in Registered : Siblings(v)' \cap Registered \subseteq Siblings(v)
  BY SameDoc
<1>2. \A v \in current' : v \in Registered
  BY DEF TypeInv, RowInv
<1>3. \A u, v \in current' : u # v => DocOf(u)' # DocOf(v)'
  <2> SUFFICES ASSUME NEW u \in current', NEW v \in current', u # v PROVE DocOf(u)' # DocOf(v)'
    OBVIOUS
  <2>1. DocOf(u) # DocOf(v)
    BY DEF DocumentInv
  <2> QED BY <1>1, <1>2, <2>1
<1>4. \A p \in Process : Swept(p)' => Written(p)'
  BY DEF Swept, Written
<1>5. ASSUME NEW p \in Process, NEW q \in Process, p # q, Written(p)', Written(q)'
      PROVE  Job(p)' # Job(q)'
  BY <1>5 DEF DocumentInv
<1>6. ASSUME NEW p \in Process, Swept(p)'
      PROVE  /\ flipped'[p] \subseteq Siblings(Job(p))'
             /\ WritesCurrent(p)' => Siblings(Job(p))' \cap current' \subseteq flipped'[p]
  <2>1. PICK k \in Registered : Job(p) = k /\ Job(p)' = k
    BY <1>4, <1>6
  <2>2. flipped'[p] \subseteq Siblings(k)
    BY <1>6, <2>1 DEF DocumentInv
  <2>3. ASSUME WritesCurrent(p)', NEW v \in Siblings(k), v \in current' PROVE v \in flipped'[p]
    <3>1. CASE flipped'[p] = Siblings(Job(p))
      BY <2>1, <2>3, <3>1
    <3>2. CASE Swept(p) /\ flipped'[p] = flipped[p] /\ kept'[p] = kept[p]
      <4>1. WritesCurrent(p)
        BY <2>3, <3>2 DEF WritesCurrent
      <4>2. v \notin J
        BY <2>1, <2>3 DEF Siblings
      <4> QED BY <2>1, <2>3, <3>2, <4>1, <4>2 DEF DocumentInv
    <3> QED BY <1>6, <3>1, <3>2
  <2>4. /\ flipped'[p] \subseteq Siblings(k)'
        /\ WritesCurrent(p)' => Siblings(k)' \cap current' \subseteq flipped'[p]
    BY <1>1, <1>2, <2>2, <2>3
  <2> QED BY <2>1, <2>4 DEF Siblings, DocOf
<1>7. ASSUME NEW p \in Process, NEW q \in Process, p # q, WritesCurrent(p)', WritesCurrent(q)'
      PROVE  DocOf(Job(p))' # DocOf(Job(q))'
  <2>1. Swept(p)' /\ Swept(q)'
    BY <1>7 DEF WritesCurrent
  <2>2. PICK k \in Registered, l \in Registered : Job(p) = k /\ Job(q) = l /\ Job(p)' = k /\ Job(q)' = l
    BY <1>4, <2>1
  <2>3. DocOf(Job(p)) # DocOf(Job(q))
    <3>1. CASE /\ Swept(p) /\ flipped'[p] = flipped[p] /\ kept'[p] = kept[p]
               /\ Swept(q) /\ flipped'[q] = flipped[q] /\ kept'[q] = kept[q]
      BY <1>7, <3>1 DEF WritesCurrent, DocumentInv
    <3> QED BY <1>7, <2>1, <3>1
  <2>4. DocOf(k)' # DocOf(l)'
    BY <1>1, <2>2, <2>3
  <2> QED BY <2>2, <2>4 DEF DocOf
<1>8. \A p \in Process : WritesCurrent(p)' => Swept(p)'
  BY DEF WritesCurrent
<1> QED BY <1>3, <1>5, <1>6, <1>7, <1>8 DEF DocumentInv

-----------------------------------------------------------------------------
\* A process that does not move writes what it was about to write.
LEMMA StillWrites ==
  ASSUME TypeInv, NEW p \in Process, Still(p)
  PROVE  /\ Written(p)' <=> Written(p)
         /\ Swept(p)' <=> Swept(p)
         /\ WritesStatus(p)' <=> WritesStatus(p)
         /\ WritesCurrent(p)' <=> WritesCurrent(p)
         /\ Job(p)' = Job(p)
         /\ Written(p) => Job(p) \in Registered /\ Job(p) \in Version
<1>1. pc'[p] = pc[p] /\ batch'[p] = batch[p] /\ kept'[p] = kept[p]
  BY DEF Still
<1>2. (Written(p)' <=> Written(p)) /\ (Swept(p)' <=> Swept(p))
  BY <1>1 DEF Written, Swept
<1>3. (WritesStatus(p)' <=> WritesStatus(p)) /\ (WritesCurrent(p)' <=> WritesCurrent(p))
  BY <1>1, <1>2 DEF WritesStatus, WritesCurrent
<1> QED BY <1>1, <1>2, <1>3, SameJob, WrittenJob

\* Who is past the flush of its job.
LEMMA WritesAreWritten ==
  ASSUME NEW p
  PROVE  /\ WritesStatus(p) => Written(p)
         /\ Swept(p) => Written(p)
         /\ WritesCurrent(p) => Swept(p) /\ Written(p)
  BY DEF WritesStatus, WritesCurrent, Swept, Written

\* A statement that waits for none of the other processes.
LEMMA GrantedRows ==
  ASSUME NEW p \in Process, Granted(p), NEW q \in Process, q # p, Written(q)
  PROVE  /\ pc[p] = "write" => Job(p) # Job(q)
         /\ pc[p] \in {"write", "duplicate row"} /\ "version" \notin kept[p] \cup kept[q] =>
              BytesOf[Job(p)] # BytesOf[Job(q)]
         /\ pc[p] = "flip" /\ "current" \notin kept[q] => Job(q) \notin Siblings(Job(p))
<1>1. ~WaitsFor(p, q)
  BY DEF Granted
<1> QED BY <1>1 DEF WaitsFor, JobLocks, VersionLocks, WritesVersion

\* Where no version gets INDEXED or current and nobody advances.
LEMMA ServeOther ==
  ASSUME TypeInv, ServeInv, [Next]_vars,
         ~(\E w \in Worker : Write(w) \/ Flip(w) \/ Commit(w) \/ Duplicate(w))
  PROVE  ServeInv'
<1>1. \A p \in Process : Written(p)' => Still(p)
  BY OnlyWriteAndFlipAdvance
<1>2. /\ Registered \subseteq Registered' /\ \A v \in Registered : upload'[v] = upload[v]
      /\ current' = current
      /\ \A v \in Version : versionStatus'[v] = "INDEXED" => versionStatus[v] = "INDEXED"
  BY RowsAhead
<1>3. \A p \in Process : (WritesStatus(p) => Written(p))' /\ (Swept(p) => Written(p))'
  BY WritesAreWritten DEF WritesStatus, Swept, Written
<1>4. \A p \in Process : Written(p)' =>
        /\ Job(p)' = Job(p) /\ Job(p) \in Registered /\ Job(p) \in Version /\ Written(p)
        /\ (WritesStatus(p)' => WritesStatus(p)) /\ (Swept(p)' => Swept(p))
        /\ flipped'[p] = flipped[p] /\ kept'[p] = kept[p]
  BY <1>1, StillWrites DEF Still
<1> DEFINE J == {}
<1>5. J \in SUBSET Version /\ J \in SUBSET Registered
  OBVIOUS
<1>6. BytesInv'
  BY <1>2, <1>3, <1>4, <1>5, BytesStep DEF ServeInv
<1>7. DocumentInv'
  BY <1>2, <1>3, <1>4, <1>5, DocumentStep DEF ServeInv
<1> QED BY <1>6, <1>7 DEF ServeInv

\* The flush waits for the processes that have updated its job's row, or an
\* entry for the same bytes.
LEMMA ServeWrite ==
  ASSUME TypeInv, ServeInv, NEW w \in Worker, Write(w)
  PROVE  ServeInv'
<1>1. /\ w \in Process /\ pc[w] = "write" /\ Granted(w)
      /\ UNCHANGED <<upload, status, versionStatus, current>> /\ Registered' = Registered
  BY WorkerOrAdmin DEF Write, rows, Registered
<1>2. /\ Job(w) \in Registered /\ Job(w) \in Version /\ ~Written(w)
  BY <1>1, JobInHand DEF Written
<1>3. \/ /\ Step(w, "write", "flip")
         /\ "version" \in kept[w] \/ Duplicates(Job(w)) = {}
      \/ Rollback(w, "write", "fail")
  BY DEF Write
<1>4. pc'[w] \in {"flip", "fail"} /\ \A q \in Process \ {w} : Still(q)
  BY <1>1, <1>3, StepStill
<1>5. ~Swept(w)'
  BY <1>4 DEF Swept
<1>6. Written(w)' => /\ Job(w)' = Job(w) /\ kept'[w] = kept[w]
                     /\ "version" \notin kept[w] => Single(Job(w))
  <2>1. Rollback(w, "write", "fail") => pc'[w] = "fail"
    BY <1>1, StepStill
  <2>2. Written(w)' => /\ batch' = batch /\ kept' = kept
                       /\ "version" \in kept[w] \/ Duplicates(Job(w)) = {}
    BY <1>3, <2>1 DEF Written, Step
  <2> QED BY <1>2, <2>2, SameJob, SingleIsLookedUp
<1>7. \A p \in Process : (WritesStatus(p) => Written(p))' /\ (Swept(p) => Written(p))'
  BY DEF WritesStatus, Swept, Written
<1>8. \A q \in Process \ {w} : Written(q)' =>
        /\ Job(q)' = Job(q) /\ Job(q) \in Registered /\ Job(q) \in Version /\ Written(q)
        /\ (WritesStatus(q)' => WritesStatus(q)) /\ (Swept(q)' => Swept(q))
        /\ flipped'[q] = flipped[q] /\ kept'[q] = kept[q]
  BY <1>4, StillWrites DEF Still
<1>9. \A q \in Process \ {w} : Written(q)' => Job(w) # Job(q)
  BY <1>1, <1>8, GrantedRows
<1>10. \A q \in Process \ {w} : WritesStatus(w)' /\ WritesStatus(q)' => BytesOf[Job(w)] # BytesOf[Job(q)]
  <2> SUFFICES ASSUME NEW q \in Process \ {w}, WritesStatus(w)', WritesStatus(q)'
               PROVE  BytesOf[Job(w)] # BytesOf[Job(q)]
    OBVIOUS
  <2>1. Written(q) /\ "version" \notin kept[w] \cup kept[q]
    BY <1>6, <1>7, <1>8 DEF WritesStatus
  <2> QED BY <1>1, <2>1, GrantedRows
<1>11. WritesStatus(w)' => Job(w)' = Job(w) /\ Single(Job(w))
  BY <1>6, <1>7 DEF WritesStatus
<1> DEFINE J == {}
<1>12. J \in SUBSET Version /\ J \in SUBSET Registered
  OBVIOUS
<1>13. \A p \in Process : WritesStatus(p)' =>
         /\ Job(p)' = Job(p) /\ Job(p) \in Version
         /\ \/ WritesStatus(p)
            \/ /\ Single(Job(p))
               /\ \A q \in Process \ {p} : WritesStatus(q)' => BytesOf[Job(p)] # BytesOf[Job(q)]
  BY <1>2, <1>7, <1>8, <1>10, <1>11
<1>14. BytesInv'
  BY <1>1, <1>12, <1>13, BytesStep DEF ServeInv
<1>15. \A p \in Process : Written(p)' =>
         /\ Job(p)' = Job(p) /\ Job(p) \in Registered
         /\ Written(p) \/ \A q \in Process \ {p} : Written(q)' => Job(p) # Job(q)
  BY <1>2, <1>6, <1>8, <1>9
<1>16. \A p \in Process : Swept(p)' => Swept(p) /\ flipped'[p] = flipped[p] /\ kept'[p] = kept[p]
  BY <1>5, <1>7, <1>8
<1>17. DocumentInv'
  BY <1>1, <1>12, <1>15, <1>16, DocumentStep DEF ServeInv
<1> QED BY <1>14, <1>17 DEF ServeInv

\* Taking is_current away waits for the processes that make another version
\* of the document current.
LEMMA ServeFlip ==
  ASSUME TypeInv, ServeInv, NEW w \in Worker, Flip(w)
  PROVE  ServeInv'
<1>1. /\ w \in Process /\ pc[w] = "flip" /\ Granted(w) /\ Written(w)
      /\ UNCHANGED <<upload, status, versionStatus, current, batch, kept>> /\ Registered' = Registered
      /\ flipped'[w] = Siblings(Job(w))
  BY WorkerOrAdmin DEF Flip, rows, Registered, Written, TypeInv, Hands, HandType
<1>2. \A q \in Process \ {w} : Still(q)
  BY WorkerStill
<1>3. \A p \in Process : Written(p)' => Written(p) /\ Job(p)' = Job(p) /\ Job(p) \in Registered /\ Job(p) \in Version
  <2>1. Job(w)' = Job(w) /\ Job(w) \in Registered /\ Job(w) \in Version
    BY <1>1, SameJob, WrittenJob
  <2> QED BY <1>1, <1>2, <2>1, StillWrites
<1>4. \A p \in Process : (WritesStatus(p) => Written(p))' /\ (Swept(p) => Written(p))'
  BY DEF WritesStatus, Swept, Written
<1>5. \A p \in Process : WritesStatus(p)' => WritesStatus(p)
  BY <1>1, <1>3, <1>4 DEF WritesStatus
<1>6. \A q \in Process \ {w} :
        /\ Swept(q)' => Swept(q) /\ flipped'[q] = flipped[q] /\ kept'[q] = kept[q]
        /\ WritesCurrent(q)' => WritesCurrent(q)
  BY <1>2, StillWrites DEF Still
<1>7. ASSUME NEW q \in Process \ {w}, WritesCurrent(q)' PROVE DocOf(Job(w)) # DocOf(Job(q))
  <2>1. Written(q) /\ "current" \notin kept[q] /\ Job(q) \in Registered
    BY <1>6, <1>7, WritesAreWritten, WrittenJob DEF WritesCurrent
  <2>2. Job(q) # Job(w) /\ Job(q) \notin Siblings(Job(w))
    BY <1>1, <2>1, GrantedRows DEF ServeInv, DocumentInv
  <2> QED BY <2>1, <2>2 DEF Siblings
<1> DEFINE J == {}
<1>8. J \in SUBSET Version /\ J \in SUBSET Registered
  OBVIOUS
<1>9. BytesInv'
  BY <1>1, <1>3, <1>4, <1>5, <1>8, BytesStep DEF ServeInv
<1>10. \A p \in Process : Swept(p)' =>
         \/ Swept(p) /\ flipped'[p] = flipped[p] /\ kept'[p] = kept[p]
         \/ /\ flipped'[p] = Siblings(Job(p))
            /\ \A q \in Process \ {p} : WritesCurrent(p)' /\ WritesCurrent(q)' => DocOf(Job(p)) # DocOf(Job(q))
  BY <1>1, <1>6, <1>7
<1>11. DocumentInv'
  BY <1>1, <1>3, <1>8, <1>10, DocumentStep DEF ServeInv
<1> QED BY <1>9, <1>11 DEF ServeInv

\* The COMMIT of persist_indexed: its version is the only one with its bytes
\* that is INDEXED, and the only one of its document that is current.
LEMMA ServeCommit ==
  ASSUME TypeInv, ServeInv, NEW w \in Worker, Commit(w)
  PROVE  ServeInv'
<1>1. PICK j : Job(w) = j
  OBVIOUS
<1>2. /\ w \in Process /\ Swept(w) /\ Written(w) /\ UNCHANGED upload /\ NextJob(w)
      /\ versionStatus' = IF "version" \in kept[w] THEN versionStatus
                          ELSE [versionStatus EXCEPT ![j] = "INDEXED"]
      /\ current' = (current \ flipped[w]) \cup (IF "current" \in kept[w] THEN {} ELSE {j})
  BY <1>1, WorkerOrAdmin DEF Commit, Swept, Written, CurrentAfter
<1>3. j \in Registered /\ j \in Version
  BY <1>1, <1>2, WrittenJob
<1>4. Registered' = Registered
  BY EndTyped
<1>5. pc'[w] \in {"idle", "load"} /\ \A q \in Process \ {w} : Still(q)
  BY <1>2, EndStill
<1>6. ~Written(w)' /\ ~WritesStatus(w)' /\ ~Swept(w)' /\ ~WritesCurrent(w)'
  BY <1>5 DEF WritesStatus, WritesCurrent, Swept, Written
<1>7. \A p \in Process : Written(p)' =>
        /\ p # w /\ Job(p)' = Job(p) /\ Job(p) \in Registered /\ Job(p) \in Version /\ Written(p)
        /\ (WritesStatus(p)' => WritesStatus(p)) /\ (WritesCurrent(p)' => WritesCurrent(p))
        /\ (Swept(p)' => Swept(p)) /\ flipped'[p] = flipped[p] /\ kept'[p] = kept[p]
  BY <1>5, <1>6, StillWrites DEF Still
<1>8. \A p \in Process : /\ (WritesStatus(p) => Written(p))' /\ (Swept(p) => Written(p))'
                         /\ (WritesCurrent(p) => Written(p))'
  BY DEF WritesStatus, WritesCurrent, Swept, Written
<1>9. BytesInv'
  <2> DEFINE J == IF "version" \in kept[w] THEN {} ELSE {j}
  <2>1. J \in SUBSET Version /\ \A i, k \in J : i = k
    BY <1>3
  <2>2. \A v \in Version : versionStatus'[v] = "INDEXED" => versionStatus[v] = "INDEXED" \/ v \in J
    BY <1>2, <1>3 DEF TypeInv, RowInv
  <2>3. ASSUME NEW k \in J PROVE Single(k) /\ \A q \in Process : WritesStatus(q)' => BytesOf[Job(q)] # BytesOf[k]
    <3>1. WritesStatus(w) /\ k = j
      BY <1>2, <2>3 DEF WritesStatus
    <3> QED BY <1>1, <1>2, <1>7, <1>8, <3>1 DEF ServeInv, BytesInv
  <2> HIDE DEF J
  <2>4. \A p \in Process : WritesStatus(p)' => Job(p)' = Job(p) /\ Job(p) \in Version /\ WritesStatus(p)
    BY <1>7, <1>8
  <2> QED BY <2>1, <2>2, <2>3, <2>4, BytesStep DEF ServeInv
<1>10. DocumentInv'
  <2> DEFINE J == IF "current" \in kept[w] THEN {} ELSE {j}
  <2>1. J \in SUBSET Registered /\ \A i, k \in J : i = k
    BY <1>3
  <2>2. \A v \in current' : v \in current \/ v \in J
    BY <1>2
  <2>3. ASSUME NEW k \in J
        PROVE  /\ \A v \in current' : v # k => DocOf(v) # DocOf(k)
               /\ \A q \in Process : WritesCurrent(q)' => DocOf(Job(q)) # DocOf(k)
    <3>1. WritesCurrent(w) /\ k = j
      BY <1>2, <2>3 DEF WritesCurrent
    <3>2. Siblings(j) \cap current \subseteq flipped[w] /\ current \subseteq Registered
      BY <1>1, <1>2, <3>1 DEF ServeInv, DocumentInv, TypeInv, RowInv
    <3>3. \A v \in current' : v # k => DocOf(v) # DocOf(k)
      BY <1>2, <3>1, <3>2 DEF Siblings
    <3>4. \A q \in Process : WritesCurrent(q)' => DocOf(Job(q)) # DocOf(k)
      BY <1>1, <1>2, <1>7, <1>8, <3>1 DEF ServeInv, DocumentInv
    <3> QED BY <3>3, <3>4
  <2> HIDE DEF J
  <2>4. \A p \in Process : Written(p)' => Job(p)' = Job(p) /\ Job(p) \in Registered /\ Written(p)
    BY <1>7
  <2>5. \A p \in Process : Swept(p)' => Swept(p) /\ flipped'[p] = flipped[p] /\ kept'[p] = kept[p]
    BY <1>7, <1>8
  <2>6. Registered \subseteq Registered' /\ \A v \in Registered : upload'[v] = upload[v]
    BY <1>2, <1>4
  <2> QED BY <2>1, <2>2, <2>3, <2>4, <2>5, <2>6, DocumentStep DEF ServeInv
<1> QED BY <1>9, <1>10 DEF ServeInv

\* The COMMIT of a skipped duplicate, if the unique index lets it through.
LEMMA ServeDuplicate ==
  ASSUME TypeInv, ServeInv, NEW w \in Worker, Duplicate(w)
  PROVE  ServeInv'
<1>1. PICK j : Job(w) = j
  OBVIOUS
<1>2. /\ w \in Process /\ pc[w] = "duplicate row" /\ Granted(w) /\ Drop(w)
      /\ UNCHANGED upload /\ UNCHANGED current
      /\ versionStatus' = IF Duplicates(j) = {} THEN [versionStatus EXCEPT ![j] = "INDEXED"]
                          ELSE versionStatus
  BY <1>1, WorkerOrAdmin DEF Duplicate
<1>3. j \in Registered /\ j \in Version /\ kept[w] = {}
  <2>1. pc[w] # "idle" /\ pc[w] \notin KeepPoints /\ HandInv(w)
    BY <1>2 DEF KeepPoints, Persisting, TypeInv, Hands
  <2> QED BY <1>1, <1>2, <2>1, JobInHand DEF HandInv
<1>4. Registered' = Registered
  BY DuplicateTyped
<1>5. pc'[w] \in {"idle", "load"} /\ \A q \in Process \ {w} : Still(q)
  BY <1>2, EndStill
<1>6. ~Written(w)'
  BY <1>5 DEF Written
<1>7. \A p \in Process : Written(p)' =>
        /\ p # w /\ Job(p)' = Job(p) /\ Job(p) \in Registered /\ Job(p) \in Version /\ Written(p)
        /\ (WritesStatus(p)' => WritesStatus(p)) /\ (Swept(p)' => Swept(p))
        /\ flipped'[p] = flipped[p] /\ kept'[p] = kept[p]
  BY <1>5, <1>6, StillWrites DEF Still
<1>8. \A p \in Process : (WritesStatus(p) => Written(p))' /\ (Swept(p) => Written(p))'
  BY DEF WritesStatus, Swept, Written
<1>9. BytesInv'
  <2> DEFINE J == IF Duplicates(j) = {} THEN {j} ELSE {}
  <2>1. J \in SUBSET Version /\ \A i, k \in J : i = k
    BY <1>3
  <2>2. \A v \in Version : versionStatus'[v] = "INDEXED" => versionStatus[v] = "INDEXED" \/ v \in J
    BY <1>2, <1>3 DEF TypeInv, RowInv
  <2>3. ASSUME NEW k \in J PROVE Single(k) /\ \A q \in Process : WritesStatus(q)' => BytesOf[Job(q)] # BytesOf[k]
    <3>1. k = j /\ Single(k)
      BY <1>3, <2>3, SingleIsLookedUp
    <3>2. ASSUME NEW q \in Process, WritesStatus(q)' PROVE BytesOf[Job(q)] # BytesOf[k]
      <4>1. q # w /\ Written(q) /\ "version" \notin kept[w] \cup kept[q]
        BY <1>3, <1>7, <1>8, <3>2 DEF WritesStatus
      <4> QED BY <1>1, <1>2, <3>1, <4>1, GrantedRows
    <3> QED BY <3>1, <3>2
  <2> HIDE DEF J
  <2>4. \A p \in Process : WritesStatus(p)' => Job(p)' = Job(p) /\ Job(p) \in Version /\ WritesStatus(p)
    BY <1>7, <1>8
  <2> QED BY <2>1, <2>2, <2>3, <2>4, BytesStep DEF ServeInv
<1>10. DocumentInv'
  <2> DEFINE J == {}
  <2>1. J \in SUBSET Registered
    OBVIOUS
  <2>2. \A p \in Process : Swept(p)' => Swept(p) /\ flipped'[p] = flipped[p] /\ kept'[p] = kept[p]
    BY <1>7, <1>8
  <2> QED BY <1>2, <1>4, <1>7, <2>1, <2>2, DocumentStep DEF ServeInv
<1> QED BY <1>9, <1>10 DEF ServeInv

\* Every step keeps at most one served version.
LEMMA ServeKept == TypeInv /\ ServeInv /\ [Next]_vars => ServeInv'
  BY ServeOther, ServeWrite, ServeFlip, ServeCommit, ServeDuplicate

\* At first nothing is served.
LEMMA ServeInitially == Init => ServeInv
<1> SUFFICES ASSUME Init PROVE ServeInv
  OBVIOUS
<1>1. current = {} /\ \A v \in Version : versionStatus[v] # "INDEXED"
  BY DEF Init
<1>2. \A p \in Process : ~Written(p) /\ ~Swept(p)
  BY DEF Init, Written, Swept
<1> QED BY <1>1, <1>2 DEF ServeInv, BytesInv, DocumentInv, WritesStatus, WritesCurrent

\* Types and served versions are right throughout.
LEMMA ServeAlways == Spec => [](TypeInv /\ ServeInv)
  BY TypeInitially, TypeKept, ServeInitially, ServeKept, PTL DEF Spec

\* However workers race, fail, deadlock or die and retries overlap: never two
\* served versions of one document, and never the same bytes twice.  A worker
\* that makes its version current has taken the column from the others and
\* keeps their rows locked, and one that marks its version INDEXED holds the
\* entry of the unique index.
THEOREM ServedAtMostOnce == Spec => []ServedOnce
<1>1. TypeInv /\ ServeInv => ServedOnce
  BY DEF ServeInv, BytesInv, DocumentInv, Single, ServedOnce, Served, Registered
<1> QED BY <1>1, ServeAlways, PTL

\* The rows of an indexed job that nobody has in hand stay as they are.
LEMMA RowsOfOthers ==
  ASSUME TypeInv, [Next]_vars, NEW v \in Registered, status[v] # "PENDING",
         \A p \in Process : v \notin batch[p]
  PROVE  status'[v] = status[v] /\ versionStatus'[v] = versionStatus[v]
<1>1. v \in Version /\ status \in [Version -> Statuses] /\ DOMAIN versionStatus = Version
  BY DEF Registered, TypeInv, RowInv
<1>2. ASSUME NEW i \in Version, Register(i) PROVE status'[v] = status[v] /\ versionStatus'[v] = versionStatus[v]
  <2>1. i # v
    BY <1>2 DEF Register, TypeInv, UploadInv
  <2> QED BY <1>1, <1>2, <2>1 DEF Register
<1>3. ASSUME NEW w \in Worker, Claim(w) PROVE status'[v] = status[v] /\ versionStatus'[v] = versionStatus[v]
  BY <1>1, <1>3 DEF Claim, Pending
<1>4. ASSUME NEW p \in Process, pc[p] # "idle", NEW s,
             status' = status \/ status' = [status EXCEPT ![Job(p)] = s],
             versionStatus' = versionStatus \/ versionStatus' = [versionStatus EXCEPT ![Job(p)] = s]
      PROVE  status'[v] = status[v] /\ versionStatus'[v] = versionStatus[v]
  <2>1. Job(p) # v
    BY <1>4, JobInHand
  <2> QED BY <1>1, <1>4, <2>1
<1>5. ASSUME NEW w \in Worker, Commit(w) \/ Fail(w) \/ Duplicate(w)
      PROVE  status'[v] = status[v] /\ versionStatus'[v] = versionStatus[v]
  <2>1. w \in Process /\ pc[w] # "idle"
    BY <1>5, WorkerOrAdmin DEF Commit, Fail, Duplicate
  <2>2. \E s : /\ status' = status \/ status' = [status EXCEPT ![Job(w)] = s]
               /\ versionStatus' = versionStatus \/ versionStatus' = [versionStatus EXCEPT ![Job(w)] = s]
    BY <1>5 DEF Commit, Fail, Duplicate
  <2> QED BY <1>4, <2>1, <2>2
<1>6. ASSUME NEW a \in Admin, Retry(a) PROVE status'[v] = status[v] /\ versionStatus'[v] = versionStatus[v]
  <2>1. a \in Process /\ pc[a] # "idle"
    BY <1>6, WorkerOrAdmin DEF Retry
  <2> QED BY <1>4, <1>6, <2>1 DEF Retry
<1>7. \/ UNCHANGED <<status, versionStatus>> \/ (\E a \in Admin : Retry(a)) \/ (\E i \in Version : Register(i))
      \/ \E w \in Worker : Claim(w) \/ Commit(w) \/ Fail(w) \/ Duplicate(w)
  BY DEF Next, vars, rows, Work, Lookup, Number, Insert, Put, AbortUpload, LoadJob, LoadVersion, Fetch,
         DuplicateDocument, Parse, Write, Flip, FailDocument, RetryStep, RetryRead, RetryReadVersion,
         RetryDocument, Raise, Crash, Delete, RemoveObjects
<1> QED BY <1>2, <1>3, <1>5, <1>6, <1>7

\* No step takes a document out of service but its deletion, unless one of
\* its versions was in two retries at a time.
LEMMA ServiceStep ==
  ASSUME TypeInv, ServeInv, [Next]_vars, NEW v \in Served,
         DocOf(v) \notin deleted' \cup {DocOf(u) : u \in twice'}
  PROVE  \E u \in Served' : DocOf(u) = DocOf(v)
<1>1. v \in Registered /\ v \in Version /\ status[v] = "INDEXED" /\ versionStatus[v] = "INDEXED" /\ v \in current
  BY DEF Served, Registered
<1>2. /\ Registered \subseteq Registered' /\ twice \subseteq twice' /\ upload'[v] = upload[v]
      /\ current' = current \/ \E w \in Worker : Commit(w) \/ Duplicate(w)
  BY <1>1, RowsAhead
<1>3. v \notin twice
  BY <1>2
<1>4. \A p \in Process : v \notin batch[p]
  BY <1>1, <1>3 DEF TypeInv, Alone, AloneInv
<1>5. status'[v] = "INDEXED" /\ versionStatus'[v] = "INDEXED" /\ DocOf(v)' = DocOf(v)
  BY <1>1, <1>2, <1>4, RowsOfOthers DEF DocOf
<1>6. CASE v \in current'
  <2>1. v \in Served'
    BY <1>1, <1>2, <1>5, <1>6 DEF Served
  <2> QED BY <2>1
<1>7. CASE v \notin current'
  <2>1. PICK w \in Worker : Commit(w)
    BY <1>1, <1>2, <1>7 DEF Duplicate
  <2>2. PICK j : Job(w) = j
    OBVIOUS
  <2>3. /\ w \in Process /\ pc[w] # "idle" /\ Swept(w) /\ Written(w) /\ UNCHANGED <<upload, deleted>>
        /\ v \in flipped[w]
    BY <1>1, <1>7, <2>1, WorkerOrAdmin DEF Commit, CurrentAfter, Swept, Written
  <2>4. j \in Registered /\ j \in Version
    BY <2>2, <2>3, WrittenJob
  <2>5. DocOf(j) = DocOf(v)
    BY <2>2, <2>3 DEF ServeInv, DocumentInv, Siblings
  <2>6. j \notin twice
    BY <1>2, <2>5
  <2>7. kept[w] = {}
    BY <2>2, <2>3, <2>6, AloneJob
  <2>8. status'[j] = "INDEXED" /\ versionStatus'[j] = "INDEXED" /\ j \in current'
    BY <2>1, <2>2, <2>4, <2>7 DEF Commit, CurrentAfter, TypeInv, RowInv
  <2>9. j \in Served'
    BY <1>2, <2>3, <2>4, <2>5, <2>8 DEF Served, DocOf
  <2> QED BY <2>5, <2>9
<1> QED BY <1>6, <1>7

\* A document that is served goes on being served, whatever happens to its
\* later versions, until it is deleted; only versions of the document itself
\* that two requests retried at a time may end this.
THEOREM ServiceIsNotInterrupted == Spec => KeepsServing
<1>1. TypeInv /\ ServeInv /\ [Next]_vars =>
        [\A v \in Served :
           DocOf(v) \notin deleted' \cup {DocOf(u) : u \in twice'} =>
             \E u \in Served' : DocOf(u) = DocOf(v)]_vars
  BY ServiceStep
<1> QED BY <1>1, ServeAlways, PTL DEF Spec, KeepsServing
=============================================================================
