--------------------------- MODULE ConfirmationGate ---------------------------
(***************************************************************************)
(* The confirmation gate of the leave assistant (agents/leave_agent): a    *)
(* chat turn may stage a write, and a later turn of the conversation may   *)
(* confirm it.  One conversation is modelled; its turns run concurrently,  *)
(* on one process with the in-memory SessionStore or on several workers    *)
(* with the RedisSessionStore.                                             *)
(*                                                                         *)
(* A turn loads the session (store, else the durable row), answers the     *)
(* message, persists the row and puts the session back.  Steps end where   *)
(* the code awaits.  With the in-memory store the turns share one Python   *)
(* object; with Redis each works on a copy of its own.                     *)
(***************************************************************************)
EXTENDS Naturals

CONSTANTS
  Turn,           (* slots for chat requests of the conversation in flight *)
  Worker,         (* server processes                                      *)
  Deployments,    (* how the server may be run: the store, the process each *)
                  (* turn runs on, and bounds on the writes ever staged    *)
                  (* and on process crashes                                *)
  SlowHandlers,   (* a confirmed write may outlive its claim's TTL         *)
  Object,         (* Python session objects                                *)
  Key,            (* the Redis value, kept among the session objects       *)
  None

ASSUME GateAssumption ==
  /\ \A d \in Deployments :
       /\ d.workerOf \in [Turn -> Worker] /\ d.redis \in BOOLEAN /\ {d.maxStages, d.maxCrashes} \subseteq Nat
       /\ d.redis \/ \A s, t \in Turn : d.workerOf[s] = d.workerOf[t]
  /\ SlowHandlers \in BOOLEAN
  /\ Key \notin Object /\ None \notin Object \cup Turn \cup {Key}

\* There is always a further object: objects outnumber the turns.
ASSUME ObjectAssumption ==
  \A used \in [Turn -> Object \cup {None}] : \E o \in Object : \A t \in Turn : used[t] # o

VARIABLES
  deployment, (* one of the Deployments                                     *)
  heap,       (* live session objects                                       *)
  cached,     (* the session in the store: an object, the Redis key or None *)
  row,        (* the ACTIVE conversation_workflow_state row, or None        *)
  ref,        (* the session object each turn works on                      *)
  pc,
  claim,      (* the execution claim: the turn whose token it holds, or None *)
  held,       (* _held_tokens of each process                               *)
  staged,     (* number of writes staged so far; write i is confirmation i  *)
  expired,    (* confirmations past expires_at                              *)
  performed,  (* how often the service performed each staged write          *)
  concluded,  (* the performed writes whose turn went on to clear them      *)
  doing,      (* the write a turn executes, and how far that write was when *)
              (* the turn began                                             *)
  crashes

vars == <<deployment, heap, cached, row, ref, pc, claim, held, staged, expired, performed, concluded, doing, crashes>>

ledger == <<staged, expired, performed, concluded, doing, crashes>>
-----------------------------------------------------------------------------
Redis == deployment.redis

WorkerOf == deployment.workerOf

MaxStages == deployment.maxStages

MaxCrashes == deployment.maxCrashes

\* pending is the staged confirmation, 0 when there is none; draft tells
\* whether a request is being drafted.
Slice == [pending : 0 .. MaxStages, draft : BOOLEAN]

Empty == [pending |-> 0, draft |-> FALSE]

Session(t) == heap[ref[t]]

\* Only objects some turn or the store refers to exist.
Live(h, r, c) == [o \in DOMAIN h \cap ({r[t] : t \in Turn} \cup {c}) |-> h[o]]

\* The heap h, where o holds slice.
With(h, o, slice) == [x \in DOMAIN h \cup {o} |-> IF x = o THEN slice ELSE h[x]]

Fresh == CHOOSE o \in Object : o \notin DOMAIN heap

Goto(t, point) == pc' = [pc EXCEPT ![t] = point]

Work(t, slice, point) ==
  /\ heap' = [heap EXCEPT ![ref[t]] = slice]
  /\ Goto(t, point)

Cleared(t) == [Session(t) EXCEPT !.pending = 0]

\* The turn works on an object of its own that holds slice.
Own(t, slice) ==
  /\ ref' = [ref EXCEPT ![t] = Fresh]
  /\ heap' = With(heap, Fresh, slice)

\* SessionStore.get on a hit.
Hit(t) ==
  /\ cached # None
  /\ IF Redis THEN Own(t, heap[cached])
              ELSE ref' = [ref EXCEPT ![t] = cached] /\ UNCHANGED heap
  /\ Goto(t, "live")
  /\ UNCHANGED cached

\* The turn starts.  A Redis error is a miss as well.
Receive(t) ==
  /\ pc[t] = "idle"
  /\ \/ Hit(t)
     \/ (cached = None \/ Redis) /\ Goto(t, "restore") /\ UNCHANGED <<heap, cached, ref>>
  /\ UNCHANGED <<row, claim, held, ledger>>

\* apply_workflow_snapshot drops an expired confirmation.
Restored == IF row.pending \in expired THEN [row EXCEPT !.pending = 0] ELSE row

\* Rebuilding the session, and storing it: the object itself, or its value
\* under the key unless Redis fails.
Create(t, slice) ==
  /\ \/ /\ ref' = [ref EXCEPT ![t] = Fresh]
        /\ cached' = IF Redis THEN Key ELSE Fresh
        /\ heap' = With(With(heap, cached', slice), Fresh, slice)
     \/ Redis /\ Own(t, slice) /\ UNCHANGED cached
  /\ Goto(t, "live")

\* _restore_or_create
Restore(t) ==
  /\ pc[t] = "restore"
  /\ \/ row # None /\ Create(t, Restored)
     \/ row = None /\ Hit(t)
     \/ row = None /\ (cached = None \/ Redis) /\ Create(t, Empty)
  /\ UNCHANGED <<row, claim, held, ledger>>

-----------------------------------------------------------------------------
(***************************************************************************)
(* handle_turn: what the message turns out to ask.                         *)
(***************************************************************************)

\* A question, a listing, a recap, or no usable answer of the model.
Reply(t) == Work(t, Session(t), "persist")

\* _handle_read: the answer to a balance or type question may open a draft.
Read(t) == Work(t, [Session(t) EXCEPT !.draft = TRUE], "persist")

\* _intercept_draft_turn: the draft grows or is dropped; either way a staged
\* write is no longer meant.
Draft(t) ==
  \/ Work(t, [pending |-> 0, draft |-> TRUE], "persist")
  \/ Work(t, [pending |-> 0, draft |-> TRUE], "stage_draft")
  \/ Session(t).draft /\ Work(t, Empty, "persist")

\* A cancel or decide intent supersedes draft and staged write; with a
\* reference the new write is checked and staged.
Pivot(t) == Work(t, Empty, "persist") \/ Work(t, Empty, "stage")

\* The model stages a write, perhaps the one its complete draft describes.
ModelStage(t) ==
  \/ Work(t, Session(t), "stage")
  \/ Session(t).draft /\ Work(t, [Session(t) EXCEPT !.draft = FALSE], "stage")

\* The model calls a write that is not the staged one, or whose confirmation
\* expired.
CallBlocked(t) == Work(t, Cleared(t), "persist")

Answer(t) ==
  /\ pc[t] = "live"
  /\ Reply(t) \/ Read(t) \/ Draft(t) \/ Pivot(t) \/ ModelStage(t) \/ CallBlocked(t)
  /\ UNCHANGED <<cached, row, ref, claim, held, ledger>>

\* The preflight is back: the write is staged, or refused.
Stage(t) ==
  /\ pc[t] \in {"stage", "stage_draft"}
  /\ \/ /\ staged < MaxStages
        /\ staged' = staged + 1
        /\ Work(t, [pending |-> staged + 1, draft |-> Session(t).draft /\ pc[t] = "stage"], "persist")
     \/ Reply(t) /\ UNCHANGED staged
  /\ UNCHANGED <<cached, row, ref, claim, held, expired, performed, concluded, doing, crashes>>

-----------------------------------------------------------------------------
(***************************************************************************)
(* _handle_confirmed_write.                                                *)
(***************************************************************************)

\* A mutant: the claim is not looked at.
ClaimAlways(t) ==
  /\ claim' = t
  /\ held' = [held EXCEPT ![WorkerOf[t]] = t]

\* begin_execution: SET NX EX, or the set of executing conversations.
Claim(t) ==
  /\ claim = None
  /\ claim' = t
  /\ held' = [held EXCEPT ![WorkerOf[t]] = t]

\* end_execution: compare-and-delete by the process's token, or discard.
Release(t) ==
  /\ claim' = IF Redis /\ claim # held[WorkerOf[t]] THEN claim ELSE None
  /\ held' = [held EXCEPT ![WorkerOf[t]] = None]

Progress(write) ==
  IF write \in concluded THEN "concluded" ELSE IF performed[write] > 0 THEN "performed" ELSE "staged"

Idle == [write |-> 0, was |-> "staged"]

\* The call matches the staged, unexpired write.  A Redis error refuses the
\* claim; a refused claim leaves the write staged.
Confirm(t) ==
  LET write == Session(t).pending IN
  /\ pc[t] = "live"
  /\ write \notin {0} \cup expired
  /\ \/ /\ Claim(t)
        /\ doing' = [doing EXCEPT ![t] = [write |-> write, was |-> Progress(write)]]
        /\ Goto(t, "execute")
     \/ (claim # None \/ Redis) /\ Goto(t, "persist") /\ UNCHANGED <<claim, held, doing>>
  /\ UNCHANGED <<heap, cached, row, ref, staged, expired, performed, concluded, crashes>>

\* The leave service commits.  It refuses what it performed before: the new
\* request overlaps the first one, the request is no longer PENDING.
Perform(t) ==
  /\ pc[t] = "execute"
  /\ doing[t].was = "staged"
  /\ performed' = [performed EXCEPT ![doing[t].write] = @ + 1]
  /\ Goto(t, "performed")
  /\ UNCHANGED <<heap, cached, row, ref, claim, held, staged, expired, concluded, doing, crashes>>

\* The handler returned or raised a ToolError.
Conclude(t) ==
  /\ pc[t] \in {"execute", "performed"}
  /\ Work(t, Cleared(t), "persist")
  /\ doing' = [doing EXCEPT ![t] = Idle]
  /\ concluded' = IF pc[t] = "performed" THEN concluded \cup {doing[t].write} ELSE concluded
  /\ Release(t)
  /\ UNCHANGED <<cached, row, ref, staged, expired, performed, crashes>>

-----------------------------------------------------------------------------
(***************************************************************************)
(* The end of a turn.                                                      *)
(***************************************************************************)

\* _persist_workflow, its read and write of the row in one step.
Persist(t) ==
  /\ pc[t] = "persist"
  /\ row' = IF Session(t) = Empty THEN None ELSE Session(t)
  /\ Goto(t, "put")
  /\ UNCHANGED <<heap, cached, ref, claim, held, ledger>>

\* A mutant: the turn's session object is kept after the turn.
LeaveHolding(t, h, c) ==
  /\ cached' = c
  /\ heap' = Live(h, ref, c)
  /\ Goto(t, "idle")
  /\ UNCHANGED ref

\* The turn is over; its session object lives on only in the store.
Leave(t, h, c) ==
  /\ ref' = [ref EXCEPT ![t] = None]
  /\ cached' = c
  /\ heap' = Live(h, ref', c)
  /\ Goto(t, "idle")

\* SessionStore.put; a Redis error leaves the old value.
Put(t) ==
  /\ pc[t] = "put"
  /\ \/ ~Redis /\ Leave(t, heap, ref[t])
     \/ Redis /\ Leave(t, With(heap, Key, Session(t)), Key)
     \/ Redis /\ Leave(t, heap, cached)
  /\ UNCHANGED <<row, claim, held, ledger>>

\* Any other exception ends the turn before it persists; the finally of an
\* execution releases the claim.
Fail(t) ==
  /\ pc[t] # "idle"
  /\ Leave(t, heap, cached)
  /\ doing' = [doing EXCEPT ![t] = Idle]
  /\ IF pc[t] \in {"execute", "performed"} THEN Release(t) ELSE UNCHANGED <<claim, held>>
  /\ UNCHANGED <<row, staged, expired, performed, concluded, crashes>>

-----------------------------------------------------------------------------
(***************************************************************************)
(* The environment.                                                        *)
(***************************************************************************)
On(w) == {t \in Turn : WorkerOf[t] = w}

\* A process dies with its turns; with the in-memory store, so do session
\* and claims.
Crash(w) ==
  /\ On(w) # {}
  /\ crashes < MaxCrashes
  /\ crashes' = crashes + 1
  /\ pc' = [t \in Turn |-> IF t \in On(w) THEN "idle" ELSE pc[t]]
  /\ ref' = [t \in Turn |-> IF t \in On(w) THEN None ELSE ref[t]]
  /\ doing' = [t \in Turn |-> IF t \in On(w) THEN Idle ELSE doing[t]]
  /\ held' = [held EXCEPT ![w] = None]
  /\ cached' = IF Redis THEN cached ELSE None
  /\ claim' = IF Redis THEN claim ELSE None
  /\ heap' = Live(heap, ref', cached')
  /\ UNCHANGED <<row, staged, expired, performed, concluded>>

\* Five minutes after it was staged.
ConfirmationExpires(c) ==
  /\ c \in (1 .. staged) \ expired
  /\ expired' = expired \cup {c}
  /\ UNCHANGED <<heap, cached, row, ref, pc, claim, held, staged, performed, concluded, doing, crashes>>

\* Half an hour after its last update, when every confirmation is long over.
SessionExpires ==
  /\ cached # None
  /\ 1 .. staged \subseteq expired
  /\ cached' = None
  /\ heap' = Live(heap, ref, None)
  /\ UNCHANGED <<row, ref, pc, claim, held, ledger>>

Executing == {t \in Turn : pc[t] \in {"execute", "performed"}}

\* A mutant: the claim is set without a TTL.
ClaimNeverExpires == FALSE /\ UNCHANGED vars

\* The claim's TTL.  Unless handlers are slow, only a crash leaves a claim
\* that long.
ClaimExpires ==
  /\ Redis /\ claim # None
  /\ SlowHandlers \/ claim \notin Executing
  /\ claim' = None
  /\ UNCHANGED <<heap, cached, row, ref, pc, held, ledger>>

-----------------------------------------------------------------------------
Init ==
  /\ deployment \in Deployments
  /\ heap = [o \in {} |-> Empty]
  /\ cached = None /\ row = None
  /\ ref = [t \in Turn |-> None]
  /\ pc = [t \in Turn |-> "idle"]
  /\ claim = None
  /\ held = [w \in Worker |-> None]
  /\ staged = 0 /\ expired = {} /\ crashes = 0
  /\ performed = [c \in 1 .. MaxStages |-> 0] /\ concluded = {}
  /\ doing = [t \in Turn |-> Idle]

Finishing(t) == Conclude(t) \/ Persist(t) \/ Put(t)

TurnStep(t) ==
  \/ Receive(t) \/ Restore(t) \/ Answer(t) \/ Stage(t) \/ Confirm(t) \/ Perform(t)
  \/ Finishing(t) \/ Fail(t)

Next ==
  /\ \/ \E t \in Turn : TurnStep(t)
     \/ \E w \in Worker : Crash(w)
     \/ \E c \in 1 .. MaxStages : ConfirmationExpires(c)
     \/ SessionExpires
     \/ ClaimExpires
  /\ UNCHANGED deployment

Spec == Init /\ [][Next]_vars

\* A handler that runs comes back, and Redis expires keys.
FairSpec ==
  /\ Spec
  /\ \A t \in Turn : WF_vars(Conclude(t) /\ UNCHANGED deployment)
  /\ WF_vars(ClaimExpires /\ UNCHANGED deployment)

-----------------------------------------------------------------------------
Objects == Object \cup {Key}

Points == {"idle", "restore", "live", "stage", "stage_draft", "execute", "performed",
           "persist", "put"}

\* Type invariant.  A turn past its loading works on a live session object.
TypeOK ==
  /\ deployment \in Deployments
  /\ DOMAIN heap \subseteq Objects /\ heap \in [DOMAIN heap -> Slice]
  /\ cached \in DOMAIN heap \cup {None}
  /\ row \in Slice \cup {None}
  /\ pc \in [Turn -> Points]
  /\ \A t \in Turn : IF pc[t] \in {"idle", "restore"} THEN ref[t] = None
                                                      ELSE ref[t] \in DOMAIN heap \ {Key}
  /\ claim \in Turn \cup {None} /\ held \in [Worker -> Turn \cup {None}]
  /\ staged \in 0 .. MaxStages /\ expired \subseteq 1 .. staged
  /\ performed \in [1 .. MaxStages -> Nat]
  /\ concluded \subseteq 1 .. staged
  /\ doing \in [Turn -> [write : 0 .. MaxStages, was : {"staged", "performed", "concluded"}]]
  /\ crashes \in 0 .. MaxCrashes

\* No staged write is ever performed twice, whatever turns race to confirm
\* it, crash half-way or confirm a stale copy of it again.
PerformedOnce == \A c \in 1 .. MaxStages : performed[c] <= 1

\* A confirmation is not executed again: once a turn performed and cleared
\* it, no turn starts its handler ("multi-worker deployments can't
\* double-execute a confirmation", api/routes/chat.py:123).
NeverExecutedAgain == \A t \in Turn : doing[t].was # "concluded"

\* The conversation never stays locked: a claim is released or expires.
ClaimFreed == claim # None ~> claim = None
=============================================================================
