----------------------------- MODULE OutboxWorker -----------------------------
(***************************************************************************)
(* The transactional outbox (repositories/outbox.py) and the workers that  *)
(* drain it (jobs/worker.py).  Business transactions commit PENDING jobs;  *)
(* each worker claims the oldest one it can lock, runs its handler and     *)
(* records the outcome in a second transaction.  A worker that dies, or    *)
(* whose second transaction fails, leaves its job RUNNING.                 *)
(***************************************************************************)
EXTENDS Integers

CONSTANTS
  Jobs,          (* number of jobs; job i has the i-th oldest created_at      *)
  KindOf,        (* what a job's handler does                                 *)
  Replica,       (* worker processes                                          *)
  MaxAttempts    (* max_attempts of every job                                 *)

Job == 1 .. Jobs

\* An e-mail, an e-mail whose payload has no recipient, a resume screening.
Kinds == {"mail", "no recipient", "evaluation"}

ASSUME OutboxAssumption ==
  /\ Jobs \in Nat
  /\ KindOf \in [Job -> Kinds]
  /\ MaxAttempts \in Nat \ {0}

VARIABLES
  status,     (* of each job row; "unborn" before its row is committed        *)
  attempts,   (* attempt_count                                                *)
  effects,    (* e-mails the server took, or evaluation rows committed        *)
  phase,      (* where each worker stands                                     *)
  at          (* the job a worker holds, 0 when it holds none                 *)

outboxVars == <<status, attempts, effects, phase, at>>

-----------------------------------------------------------------------------
Advance(w, point) == phase' = [phase EXCEPT ![w] = point]

\* A mutant: the worker keeps the job it is done with.
PollHolding(w) == Advance(w, "poll") /\ UNCHANGED at

\* The worker goes back to polling.
Poll(w) == Advance(w, "poll") /\ at' = [at EXCEPT ![w] = 0]

\* A business transaction commits its job.
Enqueue(j) ==
  /\ status[j] = "unborn"
  /\ status' = [status EXCEPT ![j] = "PENDING"]
  /\ UNCHANGED <<attempts, effects, phase, at>>

Locked == {at[w] : w \in {v \in Replica : phase[v] = "claim"}}

\* A mutant: the rows that other workers have locked are not skipped.
ClaimableUnlocked == {j \in Job : status[j] = "PENDING"}

\* A mutant: only jobs that were never tried are looked at.
ClaimableOnce == {j \in Job \ Locked : status[j] = "PENDING" /\ attempts[j] = 0}

\* FOR UPDATE SKIP LOCKED.  available_at is the time of creation, so every
\* PENDING job is due.
Claimable == {j \in Job \ Locked : status[j] = "PENDING"}

Select(w) ==
  /\ phase[w] = "poll"
  /\ \E j \in Claimable :
       /\ \A k \in Claimable : j <= k
       /\ at' = [at EXCEPT ![w] = j]
  /\ Advance(w, "claim")
  /\ UNCHANGED <<status, attempts, effects>>

\* The claim commits.
ClaimJob(w) ==
  /\ phase[w] = "claim"
  /\ status' = [status EXCEPT ![at[w]] = "RUNNING"]
  /\ attempts' = [attempts EXCEPT ![at[w]] = @ + 1]
  /\ Advance(w, "handle")
  /\ UNCHANGED <<effects, at>>

-----------------------------------------------------------------------------
(***************************************************************************)
(* The handlers.                                                           *)
(***************************************************************************)
Effect(w) == effects' = [effects EXCEPT ![at[w]] = @ + 1]

\* _send_email.  A send that raises may still have reached the recipient.
SendMail(w) ==
  /\ phase[w] = "handle"
  /\ \/ KindOf[at[w]] = "mail" /\ Effect(w) /\ Advance(w, "handled")
     \/ KindOf[at[w]] = "mail" /\ Effect(w) /\ Advance(w, "raised")
     \/ KindOf[at[w]] # "evaluation" /\ Advance(w, "raised") /\ UNCHANGED effects
  /\ UNCHANGED <<status, attempts, at>>

\* _evaluate_application up to its first query, which opens a transaction.
Extract(w) ==
  /\ phase[w] = "handle"
  /\ KindOf[at[w]] = "evaluation"
  /\ Advance(w, "raised") \/ Advance(w, "screen")
  /\ UNCHANGED <<status, attempts, effects, at>>

\* It commits an evaluation row, also one that says the screening failed.
Screen(w) ==
  /\ phase[w] = "screen"
  /\ Effect(w)
  /\ Advance(w, "handled")
  /\ UNCHANGED <<status, attempts, at>>

-----------------------------------------------------------------------------
MarkSucceeded(w) ==
  /\ phase[w] = "handled"
  /\ status' = [status EXCEPT ![at[w]] = "SUCCEEDED"]
  /\ Poll(w)
  /\ UNCHANGED <<attempts, effects>>

\* A mutant: a job that has used its attempts is queued once more.
MarkFailedLate(w) ==
  /\ phase[w] = "raised"
  /\ status' = [status EXCEPT ![at[w]] =
                  IF attempts[at[w]] <= MaxAttempts THEN "PENDING" ELSE "FAILED"]
  /\ Poll(w)
  /\ UNCHANGED <<attempts, effects>>

MarkFailed(w) ==
  /\ phase[w] = "raised"
  /\ status' = [status EXCEPT ![at[w]] =
                  IF attempts[at[w]] < MaxAttempts THEN "PENDING" ELSE "FAILED"]
  /\ Poll(w)
  /\ UNCHANGED <<attempts, effects>>

(***************************************************************************)
(* The worker's step fails outside the retry path: its process dies, or a  *)
(* transaction does.  The rollback of an open transaction expires the job  *)
(* object, so the handler of worker.py:181-186 raises again when it reads  *)
(* job.job_id, and the loop only logs.  A claim not yet committed is       *)
(* undone; after that the row stays as it is.                              *)
(***************************************************************************)
Lose(w) ==
  /\ phase[w] # "poll"
  /\ Poll(w)
  /\ UNCHANGED <<status, attempts, effects>>

-----------------------------------------------------------------------------
InitOutbox ==
  /\ status = [j \in Job |-> "unborn"]
  /\ attempts = [j \in Job |-> 0]
  /\ effects = [j \in Job |-> 0]
  /\ phase = [w \in Replica |-> "poll"]
  /\ at = [w \in Replica |-> 0]

WorkerStep(w) ==
  \/ Select(w) \/ ClaimJob(w)
  \/ SendMail(w) \/ Extract(w) \/ Screen(w)
  \/ MarkSucceeded(w) \/ MarkFailed(w)

NextOutbox ==
  \/ \E j \in Job : Enqueue(j)
  \/ \E w \in Replica : WorkerStep(w) \/ Lose(w)

OutboxSpec == InitOutbox /\ [][NextOutbox]_outboxVars

\* The workers are restarted when they die and poll for ever, and a claim
\* that is tried again and again is committed once.
WorkersRun == \A w \in Replica : WF_outboxVars(WorkerStep(w)) /\ SF_outboxVars(ClaimJob(w))

FairOutboxSpec == OutboxSpec /\ WorkersRun

-----------------------------------------------------------------------------
Phases == {"poll", "claim", "handle", "screen", "raised", "handled"}

Holders(j) == {w \in Replica : at[w] = j}

Settled(j) == status[j] \in {"SUCCEEDED", "FAILED"}

\* RUNNING, and no worker is on it.
Stranded(j) == status[j] = "RUNNING" /\ Holders(j) = {}

\* Type invariant.  A worker that polls holds no job.
OutboxTypeOK ==
  /\ status \in [Job -> {"unborn", "PENDING", "RUNNING", "SUCCEEDED", "FAILED"}]
  /\ attempts \in [Job -> Nat]
  /\ effects \in [Job -> Nat]
  /\ phase \in [Replica -> Phases]
  /\ at \in [Replica -> Job \cup {0}]
  /\ \A w \in Replica : phase[w] = "poll" <=> at[w] = 0

\* Workers never share a job, and the row of a job being handled says so,
\* whatever workers died before ("concurrent worker replicas never process
\* the same job twice", domain/outbox.py:18).
ExclusiveJobs ==
  /\ \A v, w \in Replica : v # w /\ at[v] # 0 => at[v] # at[w]
  /\ \A w \in Replica : phase[w] \notin {"poll", "claim"} => status[at[w]] = "RUNNING"

\* A recipient gets at most one copy per attempt and a job at most
\* MaxAttempts attempts; SUCCEEDED says that something was delivered, FAILED
\* that every attempt was used.
AttemptsAccounted ==
  \A j \in Job :
    /\ effects[j] <= attempts[j]
    /\ attempts[j] <= MaxAttempts
    /\ status[j] = "SUCCEEDED" => effects[j] > 0
    /\ status[j] = "FAILED" => attempts[j] = MaxAttempts

\* A settled or stranded job stays as it is: nobody handles it again.
Final ==
  [][\A j \in Job :
       Settled(j) \/ Stranded(j) => status'[j] = status[j] /\ effects'[j] = effects[j]]_outboxVars

\* Retries end: every queued job is settled, or its worker lost it.
QueueDrains == \A j \in Job : status[j] = "PENDING" ~> Settled(j) \/ Stranded(j)

\* Every queued job is delivered or reported as FAILED ("Guaranteed
\* Notifications ... bulletproof email delivery", README.md:51).
EveryJobSettles == \A j \in Job : status[j] = "PENDING" ~> Settled(j)
=============================================================================
