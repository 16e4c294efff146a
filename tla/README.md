# Formal models of the AI HR assistant

This directory holds TLA+ models of the HR assistant's backend
(`src/backend/src/app`), the TLC configurations that check them, and proofs of
their central invariants that TLAPS checks. Paths below are relative to
`src/backend/src/app` unless they start with `src/` or name a file of the
repository's root.

## 1. The system

The backend is a FastAPI application over PostgreSQL, with two worker processes
and an optional Redis. Every HTTP request has one database session
(`db/session.py`), committed by the service it calls or rolled back; a worker
opens a session per step of its loop. Services read with plain `SELECT`s, check,
write and commit, under PostgreSQL's READ COMMITTED; only the two job queues lock
rows (`FOR UPDATE SKIP LOCKED`). Uniqueness is left to the schema's constraints.

| Component | State | Operations | Talks to |
|---|---|---|---|
| Leave service (`capabilities/leave.py`) | leave_request, leave_balance, leave_type rows | submit, decide, cancel, check conflicts, price a span | enqueues outbox jobs and audit records in its own transaction |
| Company holidays (same file) | company_holiday rows | create, delete, list | read by every submission |
| Leave assistant (`agents/leave_agent`) | session (draft, staged write), execution claim, workflow row | chat turn: answer, draft, stage, confirm, cancel | calls the leave service; session store in memory or in Redis; workflow row in PostgreSQL |
| Recruitment and people (`capabilities/recruitment.py`, `people.py`) | vacancy, application, candidate, person, employee, user rows | register, apply, withdraw, decide, hire, create, update and deactivate employees | outbox, audit |
| Recruitment assistant (`agents/recruitment_agent`) | none of its own | list, tell a status, withdraw what a message names | calls recruitment |
| Resume evaluation (`evaluation`) | evaluation rows | suggest keywords, structure a resume, score it | a model; run by the outbox worker |
| Outbox and its worker (`repositories/outbox.py`, `jobs/worker.py`) | outbox_job rows | enqueue, claim, run, record, retry | filled by leave, recruitment and people; sends mail, runs resume screening |
| Document ingestion (`knowledge/ingestion`, `jobs/ingestion_worker.py`) | document, version, chunk, job rows; objects in MinIO | upload, claim, persist, fail, retry, delete, clear | read by retrieval |
| Document parsing and chunking (`knowledge/ingestion/normalize.py`, `chunk.py`) | none | mark boilerplate, build sections, group blocks into leaves | called by the ingestion worker |
| Retrieval and answering (`knowledge/service.py`, `agents/knowledge_agent`) | none of its own | search, fuse, rerank, threshold, draft, repair, cite | chunks, the safety guards, a model |
| Answer safety (`safety`) | none | a verdict on a text, redaction | called for every answer |
| Chat routes and supervisor (`api/routes/chat.py`, `agents/supervisor`) | conversation and message rows | post a message, route it, stream the reply, delete | the agents |
| Settings (`capabilities/settings.py`, `repositories/env_settings.py`) | the `.env` file | save and reset prompts and the model's connection | read by the evaluation worker |
| Authentication, model gateway, frontend | little or none | tokens, adapters, pages | external services |

What makes each hard, and what makes it correct:

- **Leave service.** Two handlers may read one PENDING request and both decide
  it; a balance is written as *value read + days*; request numbers come from a
  count; row locks are taken one after the other. Correct when: a request is
  decided once and announced once, the ledger equals the approved days, no
  employee is away twice in a half day, the run limit holds, numbers are unique
  and gapless, sessions neither deadlock nor hang.
- **Company holidays.** Recurring rows are projected onto the years of a span.
  Correct when the price of a span depends only on which of its days are open.
- **Leave assistant.** Several turns of one conversation may run at once, on one
  process or several, on one shared session object or on copies; a process may
  die between the write and the bookkeeping. Over several turns a draft is filled,
  dropped, replaced, staged and confirmed by more than a dozen handlers that are
  tried in order. Correct when a staged write is performed at most once, a dead
  worker's claim does not block the conversation for ever, and what is executed
  is what the user was last shown.
- **Recruitment and people.** Decisions, withdrawals, hires and edits of one
  person race, with unlocked check and update; the order of their locks differs.
  Correct when candidates are told what happened to them, nobody is hired twice,
  a login matches the employment, and only what may deadlock does.
- **Recruitment assistant.** A withdrawal is matched from free text, character by
  character, is final and is not confirmed. Correct when it never withdraws
  anything but what was named.
- **Outbox.** Workers race for jobs, die while holding one, and retry an e-mail
  that may already have arrived. Correct when a job has one worker at a time,
  attempts are bounded and accounted for, and every job ends.
- **Document ingestion.** Two versions of a document may be indexed in either
  order, identical bytes may be queued twice, a worker may die with a batch, and
  a failed job may be retried by two requests at a time.
  Correct when a document once served is served in exactly one version until it is
  deleted, and no queued job lacks its source.
- **Chunking.** Repetitions, page numbers and headings of any rank interact.
  Correct when no text is lost or doubled and each leaf is under its headings.
- **Retrieval and answering.** Four queries see four states of the index; an
  answer is drafted, guarded, repaired and renumbered. Correct when it cites what
  the requester may read and the markers count the citations.
- **Chat.** Two messages of one conversation take their numbers from a maximum
  they read; a deletion overtakes a turn. Correct when transcripts stay in order,
  histories leave out the question, and nothing comes back after a deletion.
- **Supervisor.** Overlapping word lists, a model and a fallback decide. Correct
  when they agree wherever the wording is clear.
- **Settings.** The file is read, truncated and rewritten whole, by several
  requests and readers at once, with quoting. Correct when what is read is what
  somebody submitted, and, undisturbed, what was submitted last.
- **Resume evaluation.** Much of a model's reply is recomputed. Correct when the
  model's mistakes do not matter where the code can tell.

The hazards this code is exposed to, with the line where each bites and the
property that covers it, are in `PROJECT.json`.

## 2. The modules

```
LeaveCalendar      dates, spans, holidays, clashes, runs   (pure operators)
  |-- CompanyHolidays          the holiday table and what it implies
  `-- LeaveTerms               asks, balances, conflict rules, numbers
        |-- LeaveBook          what the leave service promises, atomically
        `-- LeaveRequests      the service, statement by statement
              |-- LeaveRequestsProofs         (with FiniteLemmas)
              `-- MCLeaveRequests
ConfirmationGate   turns of one conversation, store, workflow row, claim
  |-- ConfirmationGateProofs
  `-- MCConfirmationGate
LeaveDates         what messages say about dates           (pure operators)
  `-- LeaveDialogue            the handlers of one conversation, in order
        `-- MCLeaveDialogue
OutboxWorker       jobs and the workers that drain them
  `-- MCOutboxWorker
MCLeaveAndOutbox   extends MCLeaveRequests and MCOutboxWorker
DocumentIngestion  uploads, versions, jobs, the workers that index them
  |-- DocumentIngestionProofs
  `-- MCDocumentIngestion
Hiring             applications, logins and employees, statement by statement
  |-- HiringProofs
  |     `-- ApplicationProofs     what candidates are told, and how often they are decided
  `-- MCHiring
Conversations      stored chat turns, statement by statement
  |-- ConversationsProofs         (with FiniteLemmas)
  `-- MCConversations
FiniteLemmas       sums and extrema of finite sets, for the proofs
Routing            which agent answers a message
Lists              what is picked out of a list, in its order (pure operators)
  `-- Answering, Settings, Screening
RecruitmentAssistant, Chunking
ComponentProofs    extends Routing, LeaveDialogue, CompanyHolidays, OutboxWorker,
                   Answering, RecruitmentAssistant, Settings and Screening
Answering, Chunking, Settings, Screening, RecruitmentAssistant
  `-- MCAnswering, MCChunking, MCSettings, MCScreening, MCRecruitmentAssistant
MCComponents       extends the MC modules of the parts that share no state
```

`MCComponents` puts the small machines side by side: `part` names the one that
moves, the others stay as they begin; `MCLeaveAndOutbox` does so with the leave
service and the outbox. It is a way to check several instances in one run, not a claim that they interact; where parts do interact (a service below its
assistant, the index below retrieval) the calling module has the callee's
operations as actions or outcomes of its own.

### LeaveRequests

A session's transaction is a program counter `pc[s]` and what it holds in memory
`tx[s]`; the committed tables are `requests`, `balances`, `outbox` and `trail`
(the audit records). Each action is one statement of the code, because under READ
COMMITTED that is where transactions interleave:

| Action | Code (`capabilities/leave.py`) |
|---|---|
| `SubmitCheck` | `request_leave` up to the balance: dates, working days, `check_request_conflicts` |
| `SubmitBalance`, `SubmitCreate` | `_get_or_create_balance` and the balance check |
| `SubmitCount`, `SubmitInsert` | `count_for_year` and the flushed INSERT of the request |
| `SubmitCommit` | the outbox jobs, the audit record, the commit |
| `DecideRead`, `CancelRead` | the SELECT of the request and the PENDING check |
| `RuleUpdate` | the flushed UPDATE of the request row |
| `ApproveTally`, `ApproveBook` | an approval's read of the balance and its flushed UPDATE |
| `RuleCommit` | the decision mail, the audit record, the commit |
| `Abort` | a rollback at any point: disconnect, database error, crash |

PostgreSQL is external and modelled from how the code uses it: `WaitsFor(s, o)`
says which statement of `s` waits for which open transaction `o` (a row lock, or
a unique key that `o` inserted). An UPDATE that was waiting overwrites, an INSERT
whose key has been committed fails. Writes become visible with the commit.

Abstractions. Leave is counted in half-day units (`Decimal("0.5")` is 1). Dates
are day numbers and all years have `YearLength` days, so the code's skipping of a
recurring 29 February in other years is not represented. A submission whose checks
fail changes nothing and is no step. The queries of one check phase are one step:
they read only, and no other statement depends on where between them a commit
falls except the phase as a whole. Holidays are constant here and change in
`CompanyHolidays`. The approval does not check the balance again, as in the code.

### CompanyHolidays

`CreateHoliday` refuses a date that has a row, `DeleteHoliday` removes one. The
state is small; the module exists to check `calculate_working_days`
(`WorkingUnits`) against a definition of an open day that does not mention the
code's loading and projecting of rows.

### ConfirmationGate

One conversation whose turns run concurrently. `heap` holds the Python session
objects and the value under the Redis key; `cached` says what the store has, `row`
is the ACTIVE `conversation_workflow_state` row, `claim` and `held` are the
execution claim and the tokens each process remembers. With the in-memory store
all turns share one object; with Redis each works on its own copy. A session is
abstracted to `pending` (the staged confirmation, 0 for none) and `draft`.

| Action | Code (`agents/leave_agent`) |
|---|---|
| `Receive`, `Restore` | `node.py` `_restore_or_create`, `SessionStore.get` / `RedisSessionStore.get` |
| `Answer` | `agent.py` `handle_turn`: what the message turns out to ask (reply, read, draft, pivot, stage, blocked call) |
| `Stage` | `_handle_stage` after its preflight |
| `Confirm`, `Perform`, `Conclude` | `_handle_confirmed_write`: the claim, the service's commit, the clearing and release |
| `Persist`, `Put` | `_persist_workflow`, the store's `put` |
| `Fail` | an exception: the turn ends before it persists |
| `Crash`, `ConfirmationExpires`, `SessionExpires`, `ClaimExpires` | the environment |

Steps end where the code awaits something that lets another turn run. What the
user's words mean is a choice; the draft's fields are not kept.

Abstractions. The read and the write of the workflow row are one step. The
service refuses a staged write it performed before (a second submission overlaps
the first, a second decision finds the request no longer PENDING); that is the
leave service's own check, and the unlocked race inside it is the subject of
`LeaveRequests`. Session and confirmation lifetimes are events without a clock,
with the order the code's numbers imply: a session (30 minutes) outlives its
confirmations (5 minutes), and a claim (10 seconds) outlives a handler that is
not slow. `SlowHandlers = TRUE` drops the last assumption: then two turns may
execute one write at once, and what refuses the second effect is the service,
whose check can race. The runs set it FALSE and the theorem about the gate names
`~SlowHandlers` as its hypothesis.
`Deployments` is the set of ways in which the server may be run (the store, the
process of each turn, bounds); a behaviour picks one at its start.

### OutboxWorker

`status` and `attempts` are the rows, `effects` counts what the outside world saw
(mails accepted, evaluations committed). `Select` is `claim_next`'s locking
SELECT, `ClaimJob` the commit of the claim, `SendMail`, `Extract` and `Screen` the
handlers, `MarkSucceeded` and `MarkFailed` the second transaction. A send that
raises may have delivered. `Lose` is every way in which a worker's step ends
without the retry path: death of the process, a failing transaction, and the
rollback of `jobs/worker.py:182`, which expires the job object when a transaction
is open, so that reading `job.job_id` on the next line raises.

Abstractions. Job *i* has the *i*-th oldest `created_at`, whatever the order of
commits; `available_at` is the time of creation and always due. The two mails,
the missing recipient and the screening stand for all job types.

### DocumentIngestion

Upload *i*, the version it registers and the job of that version share the number
*i*, and a document is known by the upload that created it. `upload` is what the
upload's transaction has computed, `status` the job's status and `versionStatus`
the one of the version's row (`none` before the commit), `current` and `deleted`
are the columns `is_current` and `deleted_at`, `objects` is what MinIO holds and
`doomed` what a committed deletion has yet to remove. A worker, or a request of an
administrator that retries a job, has `pc`, `batch` (the jobs it holds), `flipped`
(the other versions whose rows its open transaction has updated) and `kept`: a
column that was loaded with the value it is going to be set to is not written by
SQLAlchemy, so it keeps what others make of it meanwhile. `twice` is history: the
versions that two requests retried at a time.

| Action | Code |
|---|---|
| `Lookup`, `Number`, `Insert`, `Put`, `Register`, `AbortUpload` | `orchestrator.py` `register_document`, statement by statement |
| `Claim` | `ingestion_worker.py` `claim_next_jobs` |
| `LoadJob`, `LoadVersion`, `Fetch`, `DuplicateDocument`, `Duplicate`, `Parse` | `process_job` up to `persist_indexed` |
| `Write`, `Flip`, `Commit` | `persist.py` `persist_indexed`: the job's and the version's row, the other versions' rows, the document's row and the commit |
| `FailDocument`, `Fail` | `_fail` and `mark_failed` |
| `RetryRead`, `RetryReadVersion`, `RetryDocument`, `Retry` | `retry_job`: the job's status is read without a lock, the version and the document are read, and PENDING is written whatever the status has become |
| `Raise` | an error of a statement, also PostgreSQL breaking a deadlock |
| `Crash` | the death of a worker |
| `Delete`, `RemoveObjects` | `soft_delete_document` |

Any number of requests (`Admin`) retry at the same time, the same job too. Two that
both read FAILED both reset it; between their commits a worker may have claimed
the job, another worker may claim it again, and the two then index one version
side by side, or it is indexed already and put back to PENDING. `TypeOK` and
`KeepsServing` except the versions in `twice` for that reason; `ServedOnce` and
`SourceStored` hold of them too, and `OnlyFailedRetried` is the finding.

`WaitsFor` again is PostgreSQL: a job's row, a version's row, a document's row, and
the partial unique index `uq_version_checksum_indexed`, which makes the second of
two identical contents wait for the first and then fail. Unlike in the leave
service, circles of waiting do occur here (two versions of one document, each
holding its own row and updating the other's); `Raise` breaks them.

Abstractions. Files of one title have one name. `document.status` is only what
decides whether a statement touches the document's row, so it is a choice
(`Flip`, `RetryReadVersion`); after a rollback every column is written
(`Rollback`). The duplicate branch of `process_job` sets a second row to INDEXED
with the same checksum, which the index refuses unless the other version has left
INDEXED meanwhile; and where the commit succeeds, the log line of line 160 reads
the other version, which the rollback of line 154 has expired, and raises. So the
error always escapes to the loop, which forgets the rest of its batch
(`Duplicate`). The removal of a deleted document's objects is one step that may
miss any of them. Artifacts and chunks belong to their version and are written in
its transaction.

### LeaveDialogue and LeaveDates

One conversation with the leave assistant, one turn after the other, with the
contents that `ConfirmationGate` leaves out. A message is the set of the handlers'
words in it, the type and the number it mentions, the half of a day and what it
says about dates; `Turn` tries the handlers in the code's order
(`agents/leave_agent/agent.py` `handle_turn`):

| Operator | Code |
|---|---|
| `Listing`, `Drops`, `Answers` | the interceptors that list, drop a draft, or answer and touch nothing |
| `GrowDraft` (`Grown`, `Halved`, `DatesGiven`) | `_intercept_draft_turn` and the draft's merging of dates, type and half day |
| `Pivots`, `Pivot` | `_intercept_employee_cancel`, `_intercept_hr_reference_write` |
| `Reply`, `Read`, `ModelStage`, `Confirm` | the model's tool call: none, a read, `_handle_stage`, `_handle_confirmed_write` |
| `Expire`, `Restore`, `Midnight` | the confirmation's lifetime, a session that is loaded again, the clock |
| `ResolveStart`, `ResolveEnd` and the rest of `LeaveDates` | `agents/leave_agent/dates.py` |

Whatever the model may answer is a choice (`Writes` are all calls with any
arguments), and so is the service's refusal in `Preflight` beyond what role and
dates decide. `shown` and `executed` are history variables: the last summary that
asked for a confirmation, and what the last turn executed. Widgets, wording and the
read-only tools are left out.

### Hiring

Requests of candidates and of HR, each a transaction with `stage`, `tx` (its
memory) and `held` (the rows it locked). `mails` is the outbox per application, in
the order of `created_at`, which is not the order of commits.

| Action | Code |
|---|---|
| `Advertise`, `Archive` | `create_vacancy`, `archive_vacancy`, reopening |
| `Apply`, `Register`, `CreateEmployee`, `Insert` | `apply`, registration of a candidate, `create_employee`: the checks, then the INSERT that a unique key may refuse |
| `Withdraw`, `Decide`, `Write` | `withdraw_application`, `decide_application`: the check, the flushed UPDATE and the mail |
| `Hire`, `InsertEmployee`, `Notify`, `WithdrawOther` | `hire_candidate`: the checks, the employee's row, then mail and UPDATE of each other open application |
| `Update`, `Deactivate`, `ReadLogin`, `Flush` | `update_employee`, `deactivate_employee` with `_sync_login_status`: the order in which the SELECTs make SQLAlchemy flush person, employee and user |
| `Commit`, `Abort` | the commit with its audit, a rollback |

`contended` and `blind` are history variables that say for whom the stronger
properties cannot hold: persons about whom two transactions overlapped, and
persons whose login was last set by a request that restated their employment.
Departments, reporting lines and the stored resume are left out; the resume's job
is in `OutboxWorker`, its review in `Screening`.

### Conversations

The stored chat of `api/routes/chat.py`. `phase` and `tx` are those of each request:

| Action | Code |
|---|---|
| `FirstMessage`, `NextMessage`, `ReadNumber`, `StoreQuestion` | `_prepare_turn`: the conversation, the maximum of its numbers, the question's row and the commit |
| `Recall` | the history window within `_HISTORY_TOKEN_BUDGET` |
| `Think` | routing and agents; the outcome decides about the audit of a bad answer |
| `StoreReply`, `Tell` | the reply's row and the audit in one commit, then the answer to the client |
| `PublicTurn` | an anonymous turn, which stores nothing but may audit |
| `DeleteRequest`, `Delete`, `Forget`, `ForgetNothing` | the deletion and, after its commit, the leave session |
| `Abort`, `SessionExpires` | a failing or disconnected request, the session's lifetime |

### Routing

Pure operators on one message, the set of the words of the code's lists in it:
`RouteHistoryQuestion`, `RouteIntent` (the model's route and the two overrides),
`HeuristicRoute` (the keyword fallback) and `Clarification`. `Send` chooses a
message. One or two words stand for each list and for each overlap of two lists.

### Answering

One question at a time over an index that changes meanwhile (`Publish`,
`SoftDelete`, `SetRoles`): `Ask`, `Probe`/`ProbeEmpty`/`EmbeddingFails`,
`LexicalLeg`, `VectorLeg` (with `Finals`: reciprocal rank fusion, reranking,
`IsLow`: the confidence), `RestrictedMatches`, `Refuse` and `Write` (draft, guards,
one repair, renumbered citations). A query is the scores it gives each chunk; a
text is its markers, whether it shows a value that redaction would remove, and
whether it declines. The guards are the order of their verdicts (`Verdict`,
`Guarded`). Layout (`genui`) is left out.

### Chunking

`ReadBlock` delivers the parsed blocks one by one; everything else is operators:
`IsBoilerplate` (`normalize.py` `detect_boilerplate`), `Tree`, `Leaves`, `Emit`,
`Rows` (`chunk.py`: the section tree, `_split_leaves`, `emit_section`) and
`ReadingSection` (the artifact's reading sequence). `Ancestors` walks the rows'
parents. Formats, tables, the overlap of leaves and the flat chunker are left out.

### Settings

`file` is the lines of `.env`. A request of the settings page (`SavePrompt`,
`ResetPrompt`, `SaveConnection`, `ResetConnection`) does, setting by setting,
`ReadLines`, `Truncate` and `WriteLines`; two requests that write at once leave
the tail of the longer text. `Restart` is the death of the server between two
steps; `StartReading` and `ReadSetting` are the worker, which reads one setting
after the other. `Stored` is what a text becomes that is quoted, written, read and
unquoted, character by character as far as quoting tells characters apart.

### Screening

`SuggestKeywords` and `CreateVacancy` (what the model proposes, deduplicated,
and what the manager keeps), `StructureResume` and `ScoreResume` (the two model
calls, with what the code recomputes: known skills, years, requirements, matched
and missing terms, the score), `FailEvaluation`, `ReEvaluate`.

### RecruitmentAssistant

A message and a title are sequences of words. The code searches characters
(`t in normalized`), so `PartOf`, `StartOf` and `EndOf` say which words are found
inside, at the beginning or at the end of which longer ones: "it" is part of
"withdraw". `Occurs` and `TokensOccur` are the two searches of
`find_matched_vacancy` (`tools.py:356` and `362`), `Akin` the search in either
direction of `withdraw_application_tool` (`tools.py:119-120`).

One turn: `AskAssistant` takes the branch of `handle_turn` (`Path`), which ends in
`RefuseOthers`, `ReviewApplications`, `TellStatus`, `ApplyHelp` or `Inform`, or goes
through `FindVacancy`, `ListApplications` and `WithdrawNamed` or `AskWhich`. The model
may call the tool itself (`ModelWithdraws`, `ModelWithdrawsById`). Managers change
vacancies and applications between the queries (`ToggleVacancy`,
`DecideApplication`).

## 3. The runs

Passing runs:

| Run | Bounds | What it shows |
|---|---|---|
| `leave_and_outbox` | 2 sessions, 2 requests ever, 1 employee of each kind the asks need, asks that compete for one balance row; beside them 3 jobs (one of each kind), 2 workers, 2 attempts | In every interleaving: numbers gapless, no circular wait, a decision finds its balance, rows agree with audit and mails, used days do not exceed what approvals granted, nothing reopens, every transaction ends. Jobs exclusive, attempts accounted for, outcomes final, the queue drains |
| `leave_serial` | 1 session, 3 requests, half and full days, two leave types, a holiday, a span over the turn of the year | One transaction at a time: no double booking, exact ledger, neighbouring requests respect the run limit, and the service implements `LeaveBook` |
| `chat_turns` | 2 turns on one process with the in-memory store or on two with Redis, 1 staged write, 1 crash | A staged write is performed at most once, and claims are freed |
| `hiring` | 2 sessions, 1 candidate, 2 vacancies, 2 edits | The last mail tells the status, one hire and one employee, one outcome without contention, logins match employment, only edits deadlock |
| `ingestion_two_workers` | Batches of 2, and one of three loads: 2 workers, 1 administrator and 3 uploads (two versions of one title, a copy of the first under another); 1 worker, 2 administrators and the first 2 uploads; 2 workers, 2 administrators and 1 upload | A document is served in one version, bytes once, a served document stays served until it is deleted or two retries of one job overlap, and whatever is queued has its source |
| `components` | see below | One question for each of the parts that share no state |

The parts of `components`, with their properties:

| Part | Bounds | Property |
|---|---|---|
| conversations | 2 requests, 1 conversation, 3 turns, a budget that the third exceeds | `Transcript`, `PriorTurnsOnly`, `Accounted` |
| answering | 2 documents of up to 2 versions, 4 chunks, 2 queries | `ServedFromIndex`, `CitesWhatItSays` |
| chunking | documents of up to 5 blocks | `Chunked` |
| dialogue | 22 messages, both roles, 2 days | `ConfirmedAsShown` |
| routing | messages of up to 4 words | `BoundaryAgrees` |
| holidays | 6 possible dates in 3 years of 10 days, the spans between 5 days, within a year and across one turn of the year or two | `ChargeIsOpenDays` |
| settings | 2 managers, 2 saves, texts that need every kind of quoting | `SavedIsUsed` |
| screening | samples of proposals, resumes, careers and replies with each defect the code corrects | `Screened` |
| assistant | 4 vacancies, two with overlapping titles and one found inside other words, of which 1 or 2 are open at first; no application or one that is APPLIED to each; 11 messages, 4 kinds of users, 1 change meanwhile | `WithdrawsWhatIsNamed` |

Runs that find a disagreement between the code and what the repository says of
it (section 5): `leave_decided_twice`, `leave_run_limit`, `chat_confirmed_twice`,
`outbox_guarantee`, `answers_repaired`, `ingestion_retried_twice`.

Why the bounds are enough for what is asked. The leave races are between two
transactions about one request, one balance row or one number; two sessions and
two requests contain each such pair, with an approval already booked. The run
rules need a new span and two old ones: three requests. The gate's races are
between two turns about one write, and one crash is enough to lose the bookkeeping
between two steps; a stale confirmation that meets a newer staged write needs
two writes, which `chat_confirmed_twice` has and the theorem covers for any number.
The outbox needs two workers for its races, a job more than
workers so that one waits, and two attempts for a retry and a last failure. The
ingestion needs two versions of a document for the flip, and two identical
contents for the index; three uploads hold both, and a batch of two holds a job
back while another is at work. Two retries that overlap need a worker between
their commits and, for two workers on one job, a second one; all three at once is
too large, hence the three loads. Hiring needs a hire from one vacancy while the
other's application is decided, withdrawn or made; an edit that restates the
employment and one that ends it with a change of name reach the rows in both
orders. A chat needs two requests at once and a third turn that forgets the first.
A repeated header needs three repetitions, which leaves two blocks for a
heading and a text. Sessions, vacancies and workers are interchangeable, so
these runs use them as symmetry sets; none of them checks liveness. Named bounds:
`MaxRequests`, `MaxUploads`, `MaxSaves`, `MaxBlocks`, `MaxWords`, `MaxChanges`,
`LastDay`, `Doubtful`, `Jobs`, and `maxStages` and `maxCrashes` of a deployment;
`MaxAttempts`, `Limit` (`max_jobs_per_pass`), `Budget`, `TopK`, `TopN`,
`MinRepeats` and `MaxTokens` are the code's own parameters, scaled down.
`CHECK_DEADLOCK FALSE` is used where the bound, or the end of all work, stops the
system.

The type invariants carry one statement each that is not about types: an idle
session keeps nothing of its last transaction, a turn past its loading works on a
live object, a worker that polls holds no job, an ingestion job in a worker's hands
is PROCESSING and in nobody else's unless two requests retried it at a time. Those of the leave service, the outbox and
hiring are proved and not run.

### Fairness

- `LeaveRequests`: weak fairness for statements that need no lock and strong
  fairness for those that do. A handler runs once it is scheduled, and PostgreSQL
  serves lock waiters in order, so a statement that is free again and again is
  served. Nothing forces anyone to submit or decide.
- `ConfirmationGate`: a handler that runs comes back (`Conclude`), and Redis
  expires keys (`ClaimExpires`). Turns need not come.
- `OutboxWorker`: workers are restarted when they die and poll for ever, and a
  claim that is tried again and again commits once (strong fairness on `ClaimJob`),
  since otherwise a database that fails for ever would empty every promise. `Lose`
  has no fairness: it may always happen.
- The other modules assume none and promise nothing about progress. For the
  ingestion little could be claimed: a job left PROCESSING is never taken up again,
  and jobs that are retried again and again keep their place at the head of the
  queue.

## 4. What is proved

TLAPS checks, for every value of the constants that satisfies the named
assumptions (`YearLengthAssumption`, `TermsAssumption`, `SessionAssumption`,
`OutboxAssumption`, `GateAssumption`, `ObjectAssumption`, `IngestionAssumption`, `HiringAssumption`,
`ConversationAssumption`, `DialogueAssumption`, `RoutingAssumption`, `WindowAssumption`,
`AnsweringAssumption`, `AssistantAssumption`, `SettingsAssumption`, `ScreeningAssumption`; TLC
evaluates them in the runs, and those of the modules without proofs):

| Module | `Spec` implies |
|---|---|
| `LeaveRequestsProofs` | `[]TypeOK`, `[]NumbersContiguous`, `[]EveryRequestHasBalance`, `[]RecordsAgree`, `[]NoWaitCycle`, `NeverReopened`, `[]UsedBackedByApprovals`, for any number of sessions, employees, types and requests; and where transactions do not overlap (`[]OneOpen`): `[]LedgerExact`, `[]NoDoubleBooking`, `[]NeighbourRunLimited` and the refinement `ImplementsBook` |
| `ConfirmationGateProofs` | `[]TypeOK`, and `[]PerformedOnce` if no handler outlives its claim, for any number of turns, processes, staged writes and crashes |
| `DocumentIngestionProofs` | `[]TypeOK`, `[]SourceStored`, `[]ServedOnce`, `KeepsServing`, for any number of uploads, workers and retrying requests |
| `HiringProofs` | `[]TypeOK`, `[]OnlyEditsCollide`, `[]HiredOnce`, `[]LoginMatches`, for any number of sessions, persons and vacancies |
| `ApplicationProofs` | `[]Announced`, `[]OneOutcome`, likewise |
| `ConversationsProofs` | `[]ConversationTypeOK`, `[]Transcript`, `[]PriorTurnsOnly`, `[]Accounted`, for any number of requests, users, conversations and turns, and any message sizes and budget |
| `FiniteLemmas` | lemmas only: sums over finite sets, greatest and least members |
| `ComponentProofs` | outbox: `[]OutboxTypeOK`, `[]ExclusiveJobs`, `[]AttemptsAccounted`, `Final`, for any number of workers, jobs and attempts; dialogue: `[]ConfirmedAsShown`, for any messages and any answers of the model; routing: `[]BoundaryAgrees`, for messages of any number of words; holidays: `[]ChargeIsOpenDays`, for any table of holidays and any span |
| `ComponentProofs` | answers: `[]ServedFromIndex`, `[]CitesWhatItSays`, for any documents, roles, scores and texts; recruitment assistant: `[]WithdrawsWhatIsNamed`, for any titles and messages; settings: `[]SavedIsUsed`, for any texts, any file and any number of managers; screening: `[]Screened`, for any taxonomy, careers and replies; and the type invariants of these four and of the dialogue |

The arguments:

- *Numbers.* `NumbersContiguous` is not inductive: a session that has counted
  carries a number into a later step. `NumberInv` adds that the number of a
  session at `insert` or `inserted` is at most one more than the committed count
  of its year (counts only grow), and that the number of a session at `inserted`
  is not committed and no other session's (`SubmitInsert` waits for such a session
  and fails on a committed number).
- *Balances.* `BalanceInv` adds that a submission past its balance check either
  carries the new row in its own transaction (`fresh`) or found it committed, so
  the row is there when the request becomes visible.
- *Records.* `RecordInv` adds that version 1 is exactly an undecided request and
  that a ruling transaction read a version of at least 1. Any later commit writes
  a version of at least 2, even when it overwrites a decision.
- *Sums.* What the folds of the community modules compute is a recursive function
  over the subsets of a set. Induction over it is replaced by the smallest subset of
  which a claim fails, which exists because proper inclusion is well-founded on
  finite sets. `TotalRemove`, `TotalCompare`, `TotalGrows` and `TotalAt` follow, and are
  all that the rest uses of sums.
- *Used days.* `UsedBackedByApprovals` is not inductive: a session that approves has
  counted the approvals before it books, and another may commit between. `BackedInv`
  says of each such session that what it read is backed by what is committed.
- *One transaction at a time.* `OneOpen` (at most one session is not idle) is the
  hypothesis of the serial theorems, and holds by itself with one session
  (`OneSessionSuffices`). `SerialInv` says that what the open transaction read is
  still what is committed, so that its checks hold of the rows it inserts. Under the
  same invariant each commit is an operation of `LeaveBook` and everything else a
  stutter. For the run limit the merge loop (`Coalesce`) is shown to be defined on all
  finite sets of runs, by the number of runs, and to merge two runs that touch the new
  one into one run of at least their common length.
- *No circular wait.* Every transaction takes its locks in one order: request
  row, balance row, request number. A waiting session therefore waits for one that
  is further along that order, so in any group of sessions some session waits for
  nobody in the group. This is a fact about the wait relation itself and needs no
  invariant; it is what one statement in another order would break.
- *Outbox.* `JobRowInv` relates the row to its counters (PENDING jobs have attempts
  left), `HoldInv` does so for a job in a worker's hands: a locked row is PENDING,
  a handled one RUNNING, `raised` and `handled` know what was tried and delivered.
- *Gate.* `GateInv` says that the claim and a process's token belong to the one
  turn that executes, and that a write this turn found unperformed stays
  unperformed until it performs it. Only the claim's expiry could break this,
  which waits for the handler unless handlers are slow. Type correctness is about
  objects: `HeapInv` says that of the live objects each is a turn's or the store's, but
  for one at most, so that there is always a fresh one if objects outnumber the turns
  (`ObjectAssumption`); and all that is pending or executed is at most `staged`.
- *Ingestion.* Three invariants, each on top of the last. `TypeInv` says what a
  process holds at each point, and of a version that was never in two retries at a
  time that at most one process has it in hand and writes all of its columns
  (`AloneInv`). `SourceInv`: object keys are unique among the uploads past their
  INSERT, and a key that is to be removed belongs to a deleted document.
  `ServeInv` must also hold where retries overlapped: the versions that are INDEXED,
  or whose writer holds the entry of the unique index, have different bytes
  (`BytesInv`); the versions that are current, or whose writer has swept the others,
  belong to different documents, because whoever sweeps waits for the rows of the
  rest (`DocumentInv`). `KeepsServing` follows step by step: only a commit changes
  what is current, and only a retry or a failure takes INDEXED from a row, which by
  `AloneInv` it does not find in that state unless two retries overlapped.
- *Hiring.* `LockInv` says what rows a transaction holds at each stage and that
  nobody else holds them; circles are then impossible for transactions whose
  statements follow one order. `PersonInv` says which facts about a person a
  transaction may still rely on when it commits (a candidate whose employee row it
  has inserted is not employed, whoever is hired has a row).
- *Logins.* `LoginInv` adds what an update has ahead of it: a change of employment
  is flushed before the login is read, the employee row is held before the login is
  written, and a login read under that row is still what it was, since any other
  transaction that would set it needs the row. Where a statement stands in the
  concatenation that orders an update is a lemma of its own (`UpdateOrder`).
- *Announcements.* `MailInv` relates the order of the mails to the locks: a transaction
  that has written a row holds its lock until it ends, its mail is the newest about
  the application, and the mails of those that ended before are already in order.
  Only a hire enqueues before it locks, hence the weaker statement for the hired.
  Removing the mail of a transaction that fails keeps the order of the others
  (`RemoveKeeps`).
- *One outcome.* `OutcomeInv` is about candidates no two transactions are at work on:
  what the one transaction read when it began still holds when it commits
  (`StandsStill`), so each application is decided from an open status (`OutcomeOf`)
  and at most once. A second transaction about the candidate makes it contended in
  the step in which it begins, whatever it is going to do.
- *Chat.* `ChatInv` says what each request knows at each point: its conversation is
  drawn, its number was a maximum at some time and still is if nobody else used the
  conversation, its question is stored or the conversation gone. An uncontended
  conversation has at most one request at work.
- *Histories.* `TurnsInv` adds the order of turns: in a conversation that a turn has for
  itself every other row is of an earlier turn, and its own question is the row with
  the largest number. Numbers are then `1 .. count`, so "the newest messages" is a
  unique set, dropping the question from the window leaves the newest earlier ones,
  and one more of them would exceed the budget by the sums of `FiniteLemmas`.
- *Dialogue.* `StagedIsShown`: a staged write that has not expired is the last
  summary shown, and role and dates allowed it when it was shown.
- *Holidays.* A day is open if no row falls on it; the query the code makes selects the
  rows of the span and the yearly rows of any year, and projecting those onto the
  years of the span gives the same days, by division with remainder.
- *Lists.* What is left out of a list leaves the rest in its order: `Ascending` is
  shown to exist for every finite set of numbers (the largest set of which it would not
  is impossible), and `PickedIs` says at which places the rest then stands. Citations,
  lines of the settings file, suggested keywords and the parts of a reply are all
  picked in this way.
- *Answers.* `AnsweringInv` adds `SeesTheIndex`: as long as the index does not change
  between the statements of one turn, the passages that the first query found and
  those the model is shown are still ones the reader may read. How the passages are
  sorted does not matter to that, only that a sorted list is a list of the same
  members. That the markers count the citations is a fact about renumbering.
- *Recruitment assistant.* `AlongTheTurn`: nothing is withdrawn before the step that
  ends the turn, and the title that is looked up later is of a vacancy that one of
  the two searches finds in the message (`FoundIn`, `MatchedFacts`). If an application
  can be meant, its title is akin to every title found, so it is among those that
  are matched with it, and where one is chosen it is the only one of these
  (`ChoiceFacts`).
- *Settings.* First the text: every character function of the quoting is a run over
  the text from left to right, and where no backslash stands before an `n` the text
  that is read back is the one that was written (`RoundTripSurvives`), shown of the
  shortest text of which it would not hold. Then the file: `NothingElse` says that
  whatever is written, however requests overlap, was submitted for that setting;
  `OneAfterTheOther` says what a request that nobody overlaps still has to write, and
  that all else is as it was saved; `ReadsWhatIsSaved` says the same of a reading.
- *Screening.* The invariant is only that a review is what the code computes of what
  is stored. The rest is about the computation: sorting by tier and keeping the first
  of each spelling keeps the highest tier (`SuggestedHolds`); correcting a reply before
  it is reviewed changes nothing, because the code makes the same corrections
  (`SameRequirements`, `SameVerdicts`, `SameKeywords`); rounding to percent is monotonic
  (`PercentFacts`), and sums of weights grow with the keywords found (`ScoreFacts`).
- *Routing.* The overrides and the fallback are unfolded where the wording decides;
  finiteness of messages is all that is needed of them.

Only model-checked, and why:

- `TransactionsEnd`, `QueueDrains`, `ClaimFreed`: liveness and ENABLED are beyond the
  prover.
- `Chunked`: the tree of sections and its rows are RECURSIVE operators, and what they
  compute for every document is an induction over trees.
- `TypeOK` of `components` is the type invariant of whichever part moves. Those of the
  chat, the answers, the dialogue, the settings, the screening and the assistant are
  theorems of the parts' own specifications; the other three are sets or a sequence
  that one action makes grow.

The runs look at small texts, tables and messages and at all their orders; the
theorems say that neither the texts nor the numbers matter. What the proofs assume
of texts is what the code's own tables satisfy: that a skill is spelled in lower
case and that no spelling belongs to two skills (`ScreeningAssumption`, true of the
79 skills of `skills_taxonomy.py`), that a word without its punctuation has none left
and that what begins or ends a word is part of it (`AssistantAssumption`).

## 5. Findings

1. **A request can be decided twice** (`leave_decided_twice`). `capabilities/leave.py:24-27`
   says a decision can never be replayed into a second mail or overwrite an
   outcome. Both `_decide_request` and `_cancel_request` check a row they did not
   lock and then update it unconditionally. What survives the race is stated by
   `RecordsAgree`, `UsedBackedByApprovals` and `NeverReopened`.
2. **The run limit can be exceeded** (`leave_run_limit`). `_consecutive_run_days`
   promises the contiguous run the request joins and merges only requests that
   touch the new one. What does hold is `NeighbourRunLimited`.
3. **A confirmation can run its handler twice** (`chat_confirmed_twice`) although
   the execution claim is described as what prevents it: a turn may hold a copy of
   the session from before another turn concluded. With the in-memory store the
   same can happen to a turn that restores its session slowly. The service refuses
   the second effect, which is what `PerformedOnce` relies on.
4. **A job can be neither delivered nor reported** (`outbox_guarantee`). Nothing
   ever resets a RUNNING job. `QueueDrains` states what does hold.
5. **A repaired answer is served unredacted** (`answers_repaired`). The guards see
   the repaired text and report REDACTED, but the text that is served is the one the
   model wrote (`agents/knowledge_agent/agent.py:310-322`). `CitesWhatItSays` states
   that this is the only way.
6. **A retry can queue an indexed job again** (`ingestion_retried_twice`).
   "Only FAILED jobs can be retried" (`jobs/ingestion_worker.py:233`), but `retry_job`
   checks a row it did not lock and overwrites whatever it has become. A second
   request that read FAILED too resets the job after a worker has indexed it, and a
   document that was served is not found until it has been indexed again. Without
   such an overlap `KeepsServing` holds; `ServedOnce` holds in any case.

What the models also show of the code. No run is about these; where a line of the
repository promises otherwise it is named:

- A decision about an application can be replayed like one about leave, although
  `capabilities/recruitment.py:18-20` says of `DECIDABLE_STATUSES` that "a decision
  can never be replayed into a second candidate-facing email": two managers both
  read APPLIED, both mails go out and the later UPDATE stays. `Announced` states what
  survives; `OneOutcome` excepts the candidates concerned.
- An approval that overwrites another's booking loses its days: `used_days` is then
  lower than what is approved. `UsedBackedByApprovals` is a bound from above and
  allows it, and `LedgerExact` is about transactions that do not overlap.
- Two managers who save settings at once can lose one save, or leave a connection
  of two halves; `SavedIsUsed` says of overlapping saves only that no value is there
  that nobody submitted.
- An answer may cite a passage that is superseded or deleted while the answer is
  written; `ServedFromIndex` excepts the documents that changed meanwhile.

- In the leave dialogue a write that the model stages and the service refuses
  leaves an earlier staged write pending; a plain reply never clears a declined
  write; an administrator who asks about "pending … LR-2026-001" stages a
  rejection; the half day of a draft and its type cannot be taken back, and a
  single later date becomes its end.
- A leave question in an anonymous chat always fails (`uuid.UUID("public")`).
- A question that asks for a definition and for a transaction goes to the agent
  that the model did not name: the model path and the fallback differ there, although
  `agents/supervisor/route_intent.py:8-9` says that they "agree on the
  knowledge-vs-leave boundary". `BoundaryAgrees` is about messages whose wording
  decides.
- Answers that the guards flag for review are served as they are; "restricted" is
  said only to a requester who can read no match at all.
- The repeat count of boilerplate counts headings too; a document of headings
  only is refused as `NO_INDEXABLE_CONTENT`.
- For an absent connection setting the settings page shows the code's default
  while the worker uses what its process was started with; a backslash followed by
  `n` in a quoted setting comes back as a line break, although `_unquote` says that it
  reverses `_quote` (`repositories/env_settings.py:39`). `SavedIsUsed` excepts such texts.
- The recruitment assistant finds short titles inside other words. With a vacancy
  "IT" open and "Data Analyst" archived, a candidate for both who writes "withdraw my
  application for data analyst", as the help text suggests
  (`agents/recruitment_agent/tools.py:335`), has the IT application withdrawn: "it" is in
  "withdraw" (`tools.py:356`). `WithdrawsWhatIsNamed` excepts messages in which an
  unrelated title is found; the instance has this one.
- It lists closed vacancies to employees as open; a withdrawal that names a vacancy
  that is not open, or an application that cannot be withdrawn, withdraws the only
  other one that can; "data analyst" is ambiguous as soon as "analyst" exists; titles
  with punctuation are never matched.
- Deduplication keeps a deleted document from being uploaded again; the duplicate
  branch of `process_job` always fails, at its commit or on the line after it, and the
  rest of the worker's batch stays PROCESSING.

## 6. Not modelled

- The frontend, the model gateway's adapters, tracing, password hashing and the
  signing of tokens, seed data: interfaces to the outside or without state.
- The file formats (`parse.py`: PDF, DOCX, OCR), tables, the overlap of leaves and
  the older flat chunker; the layout of answers (`genui.py`); prompts and wording.
  These are functions on text, which unit tests reach.
- In the leave service: creating leave types, permissions, the listings and the
  balance rows those create. In people: departments, designations, reporting
  lines. In chat: renaming and listing.
- In the ingestion: `clear_all_documents`, the roles a
  document is for (these are in `Answering`) and the normalized artifacts.

`PROJECT.json` gives the status of each part.

## 7. Plan

Done: every module of section 2, and the proofs of section 4. Left, in this order:

1. `DocumentIngestion` with `clear_all_documents`, and a liveness run on two uploads
   (jobs end, or the worker that held them was lost, or the duplicate branch
   dropped them).
2. `ConfirmationGate` with the row's read and write apart, and composed with a
   service whose check can race (`SlowHandlers`).
