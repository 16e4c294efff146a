------------------------ MODULE ConfirmationGateProofs ------------------------
(***************************************************************************)
(* Proofs about the confirmation gate, for any number of turns, processes, *)
(* staged writes and crashes, with either store.                           *)
(*                                                                         *)
(* No staged write is performed twice, as long as a handler is done before *)
(* its claim runs out (~SlowHandlers).                                     *)
(*                                                                         *)
(* What the sessions, the store and the workflow row contain does not      *)
(* matter to the proof: a turn may come to confirm anything.  What counts  *)
(* is that the claim and the token that its process remembers are those of *)
(* the one turn that executes, and that a write which a turn found         *)
(* unperformed when it took the claim stays so until that turn performs it. *)
(*                                                                         *)
(* Second, type correctness, which is about the session objects: a turn    *)
(* past its loading works on a live one, and no write is pending anywhere  *)
(* that was not staged.                                                    *)
(***************************************************************************)
EXTENDS ConfirmationGate, TLAPS

\* The types that the argument needs; doing is a function of the turns.
GateType ==
  /\ deployment \in Deployments
  /\ pc \in [Turn -> Points]
  /\ claim \in Turn \cup {None}
  /\ held \in [Worker -> Turn \cup {None}]
  /\ doing = [t \in Turn |-> doing[t]]
  /\ performed \in [1 .. MaxStages -> Nat]

\* The turn that executes has the claim, and its process knows.
Claimed(t) ==
  pc[t] \in {"execute", "performed"} => claim = t /\ held[WorkerOf[t]] = t

\* What the turn found unperformed is unperformed.
Unperformed(t) ==
  /\ pc[t] = "execute" /\ doing[t].was = "staged" /\ doing[t].write \in 1 .. MaxStages
  => performed[doing[t].write] = 0

GateInv ==
  /\ GateType
  /\ \A t \in Turn : Claimed(t) /\ Unperformed(t)
  /\ PerformedOnce

-----------------------------------------------------------------------------
\* What the assumptions say of the deployment at hand.
LEMMA DeploymentFacts ==
  ASSUME GateType
  PROVE  /\ MaxStages \in Nat
         /\ \A t \in Turn : WorkerOf[t] \in Worker /\ t # None
         /\ Redis \/ \A s, t \in Turn : WorkerOf[s] = WorkerOf[t]
BY GateAssumption DEF GateType, MaxStages, WorkerOf, Redis

\* Two turns never execute at once.
LEMMA OneExecutes ==
  ASSUME GateInv, NEW s \in Turn, NEW t \in Turn,
         pc[s] \in {"execute", "performed"}, pc[t] \in {"execute", "performed"}
  PROVE  s = t
BY DEF GateInv, Claimed

\* At first nobody executes and nothing is performed.
LEMMA GateInit == Init => GateInv
BY GateAssumption
DEF Init, GateInv, GateType, Claimed, Unperformed, PerformedOnce, Points, MaxStages, Idle

\* The steps of a turn that is not executing and does not begin to.
LEMMA QuietStep ==
  ASSUME GateInv, NEW t \in Turn, UNCHANGED deployment,
         pc[t] \notin {"execute", "performed"},
         \E point \in Points \ {"execute", "performed"} : pc' = [pc EXCEPT ![t] = point],
         UNCHANGED <<claim, held, performed>>,
         doing' = doing \/ doing' = [doing EXCEPT ![t] = Idle]
  PROVE  GateInv'
<1>1. \A s \in Turn : s # t => pc'[s] = pc[s] /\ doing'[s] = doing[s]
  BY DEF GateInv, GateType
<1>2. pc'[t] \notin {"execute", "performed"}
  BY DEF GateInv, GateType
<1>3. GateType'
  BY DEF GateInv, GateType, MaxStages
<1>4. \A s \in Turn : Claimed(s)' /\ Unperformed(s)'
  BY <1>1, <1>2 DEF GateInv, Claimed, Unperformed, WorkerOf, MaxStages
<1>5. PerformedOnce'
  BY DEF GateInv, PerformedOnce, MaxStages
<1> QED BY <1>3, <1>4, <1>5 DEF GateInv

\* The claim is taken when nobody executes.
LEMMA ConfirmInv ==
  ASSUME GateInv, NEW t \in Turn, UNCHANGED deployment, Confirm(t)
  PROVE  GateInv'
<1> DEFINE write == Session(t).pending
<1>1. CASE UNCHANGED <<claim, held, doing>> /\ Goto(t, "persist")
  BY <1>1, QuietStep DEF Confirm, Goto, Points
<1>2. CASE /\ Claim(t)
           /\ doing' = [doing EXCEPT ![t] = [write |-> write, was |-> Progress(write)]]
           /\ Goto(t, "execute")
  <2>1. \A s \in Turn : pc[s] \notin {"execute", "performed"}
    BY <1>2, DeploymentFacts DEF GateInv, Claim, Claimed
  <2>2. \A s \in Turn : s # t => pc'[s] \notin {"execute", "performed"}
    BY <1>2, <2>1 DEF GateInv, GateType, Goto
  <2>3. GateType'
    BY <1>2, DeploymentFacts DEF GateInv, GateType, Confirm, Claim, Goto, Points, MaxStages
  <2>4. Claimed(t)'
    BY <1>2, DeploymentFacts DEF GateInv, GateType, Claim, Claimed, WorkerOf
  <2>5. Unperformed(t)'
    <3>1. doing'[t] = [write |-> write, was |-> Progress(write)]
      BY <1>2 DEF GateInv, GateType
    <3>2. ASSUME write \in 1 .. MaxStages, Progress(write) = "staged"
          PROVE  performed[write] = 0
      BY <3>2, DeploymentFacts DEF GateInv, GateType, Progress
    <3>3. performed' = performed /\ MaxStages' = MaxStages
      BY DEF Confirm, MaxStages
    <3> HIDE DEF write
    <3> QED BY <3>1, <3>2, <3>3 DEF Unperformed
  <2>6. PerformedOnce'
    BY DEF GateInv, PerformedOnce, Confirm, MaxStages
  <2> QED BY <2>2, <2>3, <2>4, <2>5, <2>6 DEF GateInv, Claimed, Unperformed
<1> QED BY <1>1, <1>2 DEF Confirm

\* The one step that performs a write finds it unperformed.
LEMMA PerformInv ==
  ASSUME GateInv, NEW t \in Turn, UNCHANGED deployment, Perform(t)
  PROVE  GateInv'
<1> DEFINE write == doing[t].write
<1>1. pc[t] = "execute" /\ pc'[t] = "performed" /\ \A s \in Turn : s # t => pc'[s] = pc[s]
  BY DEF GateInv, GateType, Perform, Goto
<1>2. \A s \in Turn : s # t => pc'[s] \notin {"execute", "performed"}
  BY <1>1, OneExecutes
<1>3. GateType'
  <2>1. performed' \in [1 .. MaxStages -> Nat]
    <3>1. performed \in [1 .. MaxStages -> Nat]
      BY DEF GateInv, GateType
    <3>2. performed' = [performed EXCEPT ![write] = performed[write] + 1]
      BY DEF Perform
    <3> HIDE DEF write
    <3>3. CASE write \in 1 .. MaxStages
      <4>1. performed[write] + 1 \in Nat
        BY <3>1, <3>3
      <4> QED BY <3>1, <3>2, <4>1
    <3>4. CASE write \notin 1 .. MaxStages
      <4>1. performed' = performed
        BY <3>1, <3>2, <3>4
      <4> QED BY <3>1, <4>1
    <3> QED BY <3>3, <3>4
  <2>2. MaxStages' = MaxStages
    BY DEF MaxStages
  <2>3. pc' \in [Turn -> Points]
    BY DEF GateInv, GateType, Perform, Goto, Points
  <2> QED BY <2>1, <2>2, <2>3 DEF GateInv, GateType, Perform
<1>4. \A s \in Turn : Claimed(s)' /\ Unperformed(s)'
  BY <1>1, <1>2 DEF GateInv, Claimed, Unperformed, Perform, WorkerOf
<1>5. PerformedOnce'
  <2>1. \A c \in 1 .. MaxStages : performed'[c] = IF c = write THEN performed[c] + 1 ELSE performed[c]
    BY DEF GateInv, GateType, Perform
  <2>2. write \in 1 .. MaxStages => performed[write] = 0
    BY <1>1 DEF GateInv, Unperformed, Perform
  <2> HIDE DEF write
  <2> QED BY <2>1, <2>2 DEF GateInv, GateType, PerformedOnce, MaxStages
<1> QED BY <1>3, <1>4, <1>5 DEF GateInv

\* A turn that stops executing, by Conclude or Fail: nobody else executes.
LEMMA StopInv ==
  ASSUME GateInv, NEW t \in Turn, UNCHANGED deployment,
         pc[t] \in {"execute", "performed"},
         \E point \in {"persist", "idle"} : pc' = [pc EXCEPT ![t] = point],
         Release(t), doing' = [doing EXCEPT ![t] = Idle], UNCHANGED performed
  PROVE  GateInv'
<1>1. \A s \in Turn : pc'[s] \notin {"execute", "performed"}
  BY OneExecutes DEF GateInv, GateType
<1>2. GateType'
  BY DeploymentFacts DEF GateInv, GateType, Release, Points, MaxStages
<1>3. PerformedOnce'
  BY DEF GateInv, PerformedOnce, MaxStages
<1> QED BY <1>1, <1>2, <1>3 DEF GateInv, Claimed, Unperformed

\* Each step of a turn is one of the kinds above.
LEMMA TurnInv ==
  ASSUME GateInv, NEW t \in Turn, UNCHANGED deployment, TurnStep(t)
  PROVE  GateInv'
<1>1. CASE Receive(t)
  BY <1>1, QuietStep DEF Receive, Hit, Goto, Points, ledger
<1>2. CASE Restore(t)
  BY <1>2, QuietStep DEF Restore, Hit, Create, Goto, Points, ledger
<1>3. CASE Answer(t)
  BY <1>3, QuietStep
  DEF Answer, Reply, Read, Draft, Pivot, ModelStage, CallBlocked, Work, Goto, Points, ledger
<1>4. CASE Stage(t)
  BY <1>4, QuietStep DEF Stage, Reply, Work, Goto, Points
<1>5. CASE Confirm(t)
  BY <1>5, ConfirmInv
<1>6. CASE Perform(t)
  BY <1>6, PerformInv
<1>7. CASE Conclude(t)
  BY <1>7, StopInv DEF Conclude, Work, Goto
<1>8. CASE Persist(t)
  BY <1>8, QuietStep DEF Persist, Goto, Points, ledger
<1>9. CASE Put(t)
  BY <1>9, QuietStep DEF Put, Leave, Goto, Points, ledger
<1>10. CASE Fail(t)
  <2>1. CASE pc[t] \in {"execute", "performed"}
    BY <1>10, <2>1, StopInv DEF Fail, Leave, Goto
  <2>2. CASE pc[t] \notin {"execute", "performed"}
    BY <1>10, <2>2, QuietStep DEF Fail, Leave, Goto, Points
  <2> QED BY <2>1, <2>2
<1> QED BY <1>1, <1>2, <1>3, <1>4, <1>5, <1>6, <1>7, <1>8, <1>9, <1>10 DEF TurnStep, Finishing

\* A turn that survives the death of a process runs on another one; so the
\* store is Redis, and the turn's claim and token are untouched.
LEMMA CrashInv ==
  ASSUME GateInv, NEW w \in Worker, UNCHANGED deployment, Crash(w)
  PROVE  GateInv'
<1>1. \A t \in Turn : pc'[t] = IF t \in On(w) THEN "idle" ELSE pc[t]
  BY DEF Crash
<1>2. \A t \in Turn \ On(w) : doing'[t] = doing[t] /\ held'[WorkerOf[t]] = held[WorkerOf[t]]
                              /\ claim' = claim
  <2>1. ASSUME NEW t \in Turn \ On(w)
        PROVE  WorkerOf[t] # w /\ Redis
    BY DeploymentFacts DEF GateInv, On, Crash
  <2> QED BY <2>1, DeploymentFacts DEF GateInv, GateType, Crash
<1>3. GateType'
  BY DEF GateInv, GateType, Crash, Points, MaxStages, On
<1>4. \A t \in Turn : Claimed(t)' /\ Unperformed(t)'
  BY <1>1, <1>2 DEF GateInv, Claimed, Unperformed, Crash, WorkerOf, MaxStages
<1>5. PerformedOnce'
  BY DEF GateInv, PerformedOnce, Crash, MaxStages
<1> QED BY <1>3, <1>4, <1>5 DEF GateInv

\* The claim of a turn that executes does not run out.
LEMMA ExpiryInv ==
  ASSUME GateInv, ~SlowHandlers, UNCHANGED deployment, ClaimExpires
  PROVE  GateInv'
<1>1. \A t \in Turn : pc[t] \notin {"execute", "performed"}
  BY DEF GateInv, Claimed, ClaimExpires, Executing
<1>2. GateType'
  BY DEF GateInv, GateType, ClaimExpires, ledger, MaxStages
<1> QED BY <1>1, <1>2 DEF GateInv, Claimed, Unperformed, PerformedOnce, ClaimExpires, ledger, MaxStages

\* Every step, while handlers are not slow.
LEMMA GateStep == ASSUME GateInv, ~SlowHandlers, [Next]_vars PROVE GateInv'
<1> DEFINE Same == UNCHANGED <<deployment, pc, claim, held, doing, performed>>
<1>1. ASSUME Same PROVE GateInv'
  BY <1>1 DEF GateInv, GateType, Claimed, Unperformed, PerformedOnce, WorkerOf, MaxStages
<1>2. CASE UNCHANGED vars
  BY <1>1, <1>2 DEF vars
<1>3. CASE SessionExpires /\ UNCHANGED deployment
  BY <1>1, <1>3 DEF SessionExpires, ledger
<1>4. CASE (\E c \in 1 .. MaxStages : ConfirmationExpires(c)) /\ UNCHANGED deployment
  BY <1>1, <1>4 DEF ConfirmationExpires
<1> HIDE DEF Same
<1> QED BY <1>2, <1>3, <1>4, TurnInv, CrashInv, ExpiryInv DEF Next

-----------------------------------------------------------------------------
\* Whatever turns race to confirm a staged write, die half-way or confirm a
\* stale copy of it, the leave service performs it at most once
\* (_handle_confirmed_write, begin_execution and end_execution).
THEOREM WritesArePerformedOnce == ~SlowHandlers => (Spec => []PerformedOnce)
<1> SUFFICES ASSUME ~SlowHandlers PROVE Spec => []PerformedOnce
  OBVIOUS
<1>1. Init => GateInv
  BY GateInit
<1>2. GateInv /\ [Next]_vars => GateInv'
  BY GateStep
<1>3. GateInv => PerformedOnce
  BY DEF GateInv
<1> QED BY <1>1, <1>2, <1>3, PTL DEF Spec

-----------------------------------------------------------------------------
(* Type correctness.                                                       *)

\* What is staged so far.
Staged == [pending : 0 .. staged, draft : BOOLEAN]

\* The live session objects: each turn that is past its loading works on one,
\* the store has one or the key, and at most one other is waiting to be dropped.
HeapInv ==
  /\ heap \in [DOMAIN heap -> Staged] /\ DOMAIN heap \subseteq Objects
  /\ cached \in DOMAIN heap \cup {None}
  /\ IF Redis THEN cached \in {Key, None} ELSE cached # Key
  /\ \A t \in Turn : IF pc[t] \in {"idle", "restore"} THEN ref[t] = None
                                                      ELSE ref[t] \in DOMAIN heap \ {Key}
  /\ ref = [t \in Turn |-> ref[t]]
  /\ \E g : DOMAIN heap \subseteq {ref[t] : t \in Turn} \cup {Key, g}

\* The rest of TypeOK, where nothing is about writes not yet staged.
BookInv ==
  /\ deployment \in Deployments
  /\ pc \in [Turn -> Points]
  /\ row \in Staged \cup {None}
  /\ claim \in Turn \cup {None} /\ held \in [Worker -> Turn \cup {None}]
  /\ staged \in 0 .. MaxStages /\ expired \subseteq 1 .. staged
  /\ performed \in [1 .. MaxStages -> Nat]
  /\ concluded \subseteq 1 .. staged
  /\ doing \in [Turn -> [write : 0 .. staged, was : {"staged", "performed", "concluded"}]]
  /\ \A t \in Turn : pc[t] \in {"execute", "performed"} => doing[t].write # 0
  /\ crashes \in 0 .. MaxCrashes

TypeInv == HeapInv /\ BookInv

\* What is staged so far is within the bound.
LEMMA TypeSuffices == TypeInv => TypeOK
<1> SUFFICES ASSUME TypeInv PROVE TypeOK
  OBVIOUS
<1>1. MaxStages \in Nat /\ staged \in Nat /\ staged <= MaxStages
  BY GateAssumption DEF TypeInv, BookInv, MaxStages
<1>2. 0 .. staged \subseteq 0 .. MaxStages
  BY <1>1
<1>3. Staged \subseteq Slice
  BY <1>2 DEF Staged, Slice
<1>4. heap \in [DOMAIN heap -> Slice] /\ row \in Slice \cup {None}
  BY <1>3 DEF TypeInv, HeapInv, BookInv
<1>5. doing \in [Turn -> [write : 0 .. MaxStages, was : {"staged", "performed", "concluded"}]]
  BY <1>2 DEF TypeInv, BookInv
<1> QED BY <1>4, <1>5 DEF TypeInv, HeapInv, BookInv, TypeOK

\* No session, no claim, nothing staged.
LEMMA TypeInit == Init => TypeInv
<1> SUFFICES ASSUME Init PROVE TypeInv
  OBVIOUS
<1>1. MaxStages \in Nat /\ MaxCrashes \in Nat
  BY GateAssumption DEF Init, MaxStages, MaxCrashes
<1>2. HeapInv
  BY GateAssumption DEF Init, HeapInv, Staged
<1>3. BookInv
  BY <1>1 DEF Init, BookInv, Points, Idle
<1> QED BY <1>2, <1>3 DEF TypeInv

\* There is an object for a turn that has none.
LEMMA FreshIs ==
  ASSUME HeapInv, NEW t \in Turn, ref[t] = None
  PROVE  Fresh \in Object /\ Fresh \notin DOMAIN heap /\ Fresh # Key /\ Fresh # None
<1>1. PICK g : DOMAIN heap \subseteq {ref[s] : s \in Turn} \cup {Key, g}
  BY DEF HeapInv
<1> DEFINE used == [s \in Turn |-> IF s = t THEN IF g \in Object THEN g ELSE None
                                   ELSE IF ref[s] \in Object THEN ref[s] ELSE None]
<1>2. used \in [Turn -> Object \cup {None}]
  OBVIOUS
<1>3. PICK o \in Object : \A s \in Turn : used[s] # o
  <2> HIDE DEF used
  <2> QED BY <1>2, ObjectAssumption
<1>4. o # Key /\ o # None
  BY GateAssumption
<1>5. o # g
  BY <1>3
<1>6. \A s \in Turn : ref[s] # o
  BY <1>3, <1>4
<1>7. o \notin DOMAIN heap
  BY <1>1, <1>4, <1>5, <1>6
<1>8. Fresh \in Object /\ Fresh \notin DOMAIN heap
  BY <1>7 DEF Fresh
<1> QED BY <1>8, GateAssumption

\* A turn writes to its object.
LEMMA WorkHeap ==
  ASSUME TypeInv, NEW t \in Turn, pc[t] \notin {"idle", "restore"},
         NEW point \in Points \ {"idle", "restore"},
         NEW slice, slice \in Staged',
         Work(t, slice, point), staged' \in Nat, staged <= staged',
         UNCHANGED <<deployment, ref, cached>>
  PROVE  HeapInv'
<1>1. ref[t] \in DOMAIN heap
  BY DEF TypeInv, HeapInv
<1>2. staged \in Nat /\ Staged \subseteq Staged'
  BY DEF TypeInv, BookInv, Staged
<1>3. heap' \in [DOMAIN heap -> Staged'] /\ DOMAIN heap' = DOMAIN heap
  BY <1>1, <1>2 DEF TypeInv, HeapInv, Work
<1>4. \A s \in Turn : pc'[s] = IF s = t THEN point ELSE pc[s]
  BY DEF TypeInv, BookInv, Work, Goto
<1> HIDE DEF Staged
<1>5. heap' \in [DOMAIN heap' -> Staged'] /\ Redis' = Redis
  BY <1>3 DEF Redis
<1>6. \A s \in Turn : IF pc'[s] \in {"idle", "restore"} THEN ref'[s] = None
                                                      ELSE ref'[s] \in DOMAIN heap' \ {Key}
  BY <1>3, <1>4 DEF TypeInv, HeapInv
<1> QED BY <1>3, <1>5, <1>6 DEF TypeInv, HeapInv

\* A session of a turn holds staged writes.
LEMMA SessionIs ==
  ASSUME TypeInv, NEW t \in Turn, pc[t] \notin {"idle", "restore"}
  PROVE  /\ ref[t] \in DOMAIN heap /\ Session(t) \in Staged
         /\ Cleared(t) \in Staged /\ [Session(t) EXCEPT !.draft = TRUE] \in Staged
         /\ [Session(t) EXCEPT !.draft = FALSE] \in Staged /\ Empty \in Staged
         /\ [pending |-> 0, draft |-> TRUE] \in Staged
<1>1. ref[t] \in DOMAIN heap /\ Session(t) \in Staged
  BY DEF TypeInv, HeapInv, Session
<1>2. 0 \in 0 .. staged
  BY DEF TypeInv, BookInv
<1> QED BY <1>1, <1>2 DEF Staged, Cleared, Empty

\* A turn gets an object of its own.
LEMMA NewHeap ==
  ASSUME TypeInv, NEW t \in Turn, pc[t] \in {"idle", "restore"},
         NEW slice \in Staged,
         ref' = [ref EXCEPT ![t] = Fresh], Goto(t, "live"),
         \/ heap' = With(heap, Fresh, slice) /\ cached' = cached
         \/ cached' = (IF Redis THEN Key ELSE Fresh) /\ heap' = With(With(heap, cached', slice), Fresh, slice),
         UNCHANGED <<deployment, staged>>
  PROVE  HeapInv'
<1>1. ref[t] = None
  BY DEF TypeInv, HeapInv
<1>2. Fresh \in Object /\ Fresh \notin DOMAIN heap /\ Fresh # Key /\ Fresh # None
  BY <1>1, FreshIs DEF TypeInv
<1> DEFINE new == Fresh
<1> HIDE DEF new
<1>3. /\ \A s \in Turn : ref'[s] = IF s = t THEN new ELSE ref[s]
      /\ \A s \in Turn : pc'[s] = IF s = t THEN "live" ELSE pc[s]
      /\ ref' = [s \in Turn |-> ref'[s]]
  BY DEF TypeInv, HeapInv, BookInv, Goto, new
<1>4. /\ DOMAIN heap \cup {new} \subseteq DOMAIN heap' /\ DOMAIN heap' \subseteq DOMAIN heap \cup {new, Key}
      /\ heap' = [o \in DOMAIN heap' |-> heap'[o]]
      /\ \A o \in DOMAIN heap' : heap'[o] = slice \/ (o \in DOMAIN heap /\ heap'[o] = heap[o])
      /\ cached' = cached \/ (cached' = (IF Redis THEN Key ELSE new) /\ cached' \in DOMAIN heap')
  <2>1. CASE heap' = With(heap, Fresh, slice) /\ cached' = cached
    BY <2>1 DEF new, With
  <2>2. CASE cached' = (IF Redis THEN Key ELSE Fresh) /\ heap' = With(With(heap, cached', slice), Fresh, slice)
    BY <2>2 DEF new, With
  <2> QED BY <2>1, <2>2
<1>5. heap \in [DOMAIN heap -> Staged] /\ Staged' = Staged /\ Redis' = Redis
  BY DEF TypeInv, HeapInv, Staged, Redis
<1>6. heap' \in [DOMAIN heap' -> Staged']
  <2>1. \A o \in DOMAIN heap' : heap'[o] \in Staged'
    BY <1>4, <1>5
  <2> HIDE DEF Staged
  <2> QED BY <1>4, <2>1
<1>7. DOMAIN heap' \subseteq Objects
  BY <1>2, <1>4 DEF TypeInv, HeapInv, Objects, new
<1>8. cached' \in DOMAIN heap' \cup {None} /\ IF Redis' THEN cached' \in {Key, None} ELSE cached' # Key
  BY <1>2, <1>4, <1>5 DEF TypeInv, HeapInv, new
<1>9. \A s \in Turn : IF pc'[s] \in {"idle", "restore"} THEN ref'[s] = None
                                                      ELSE ref'[s] \in DOMAIN heap' \ {Key}
  BY <1>2, <1>3, <1>4 DEF TypeInv, HeapInv, new
<1>10. \E g : DOMAIN heap' \subseteq {ref'[s] : s \in Turn} \cup {Key, g}
  <2>1. PICK g : DOMAIN heap \subseteq {ref[s] : s \in Turn} \cup {Key, g}
    BY DEF TypeInv, HeapInv
  <2>2. ASSUME NEW o \in DOMAIN heap' PROVE o \in {ref'[s] : s \in Turn} \cup {Key, g}
    <3>1. CASE o = new
      BY <1>3, <3>1
    <3>2. CASE o \in DOMAIN heap
      <4>1. CASE o = g \/ o = Key
        BY <4>1
      <4>2. CASE o \notin {g, Key}
        <5>1. PICK s \in Turn : o = ref[s]
          BY <2>1, <3>2, <4>2
        <5>2. o # None
          BY <3>2, GateAssumption DEF TypeInv, HeapInv, Objects
        <5> QED BY <1>1, <1>3, <5>1, <5>2
      <4> QED BY <4>1, <4>2
    <3> QED BY <1>4, <2>2, <3>1, <3>2
  <2> QED BY <2>2
<1> HIDE DEF Staged
<1> QED BY <1>3, <1>6, <1>7, <1>8, <1>9, <1>10 DEF HeapInv

\* The heap grows to h, the store gets one of its objects or nothing, and what
\* nobody refers to is dropped.
Dropped(h) ==
  /\ h \in [DOMAIN h -> Staged] /\ DOMAIN h \subseteq Objects /\ DOMAIN heap \subseteq DOMAIN h
  /\ cached' \in DOMAIN h \cup {None}
  /\ (Redis => cached' \in {Key, None}) /\ (~Redis => cached' # Key)
  /\ heap' = Live(h, ref', cached')

\* A turn ends, or its process dies.
LEMMA LiveHeap ==
  ASSUME TypeInv, NEW gone \in SUBSET Turn, NEW h, Dropped(h),
         \A t \in Turn : /\ ref'[t] = IF t \in gone THEN None ELSE ref[t]
                       /\ pc'[t] = IF t \in gone THEN "idle" ELSE pc[t],
         ref' = [t \in Turn |-> ref'[t]],
         UNCHANGED <<deployment, staged>>
  PROVE  HeapInv'
<1>1. Staged' = Staged /\ Redis' = Redis
  BY DEF Staged, Redis
<1> HIDE DEF Staged
<1>2. /\ DOMAIN heap' = DOMAIN h \cap ({ref'[t] : t \in Turn} \cup {cached'})
      /\ heap' = [o \in DOMAIN heap' |-> h[o]]
  BY DEF Dropped, Live
<1>3. heap' \in [DOMAIN heap' -> Staged'] /\ DOMAIN heap' \subseteq Objects
  BY <1>1, <1>2 DEF Dropped
<1>4. cached' \in DOMAIN heap' \cup {None} /\ IF Redis' THEN cached' \in {Key, None} ELSE cached' # Key
  BY <1>1, <1>2 DEF Dropped
<1>5. \A t \in Turn : IF pc'[t] \in {"idle", "restore"} THEN ref'[t] = None
                                                      ELSE ref'[t] \in DOMAIN heap' \ {Key}
  <2> SUFFICES ASSUME NEW t \in Turn
               PROVE  IF pc'[t] \in {"idle", "restore"} THEN ref'[t] = None
                                                       ELSE ref'[t] \in DOMAIN heap' \ {Key}
    OBVIOUS
  <2>1. IF pc[t] \in {"idle", "restore"} THEN ref[t] = None ELSE ref[t] \in DOMAIN heap \ {Key}
    BY DEF TypeInv, HeapInv
  <2>2. ref'[t] \in DOMAIN h => ref'[t] \in DOMAIN heap'
    BY <1>2
  <2> QED BY <2>1, <2>2 DEF Dropped
<1>6. \E g : DOMAIN heap' \subseteq {ref'[t] : t \in Turn} \cup {Key, g}
  BY <1>2
<1> QED BY <1>3, <1>4, <1>5, <1>6 DEF HeapInv

\* The heap stays.
LEMMA SameHeap ==
  ASSUME TypeInv, UNCHANGED <<deployment, heap, cached, ref, staged>>,
         \A t \in Turn : pc'[t] \in {"idle", "restore"} <=> pc[t] \in {"idle", "restore"}
  PROVE  HeapInv'
<1>1. Staged' = Staged /\ Redis' = Redis
  BY DEF Staged, Redis
<1> HIDE DEF Staged
<1> QED BY <1>1 DEF TypeInv, HeapInv

\* A hit: the store's object itself, or a copy of the key's value.
LEMMA HitHeap ==
  ASSUME TypeInv, NEW t \in Turn, pc[t] \in {"idle", "restore"}, Hit(t),
         UNCHANGED <<deployment, staged>>
  PROVE  HeapInv'
<1>1. CASE Redis
  <2>1. heap[cached] \in Staged
    BY <1>1 DEF TypeInv, HeapInv, Hit
  <2> QED BY <1>1, <2>1, NewHeap DEF Hit, Own
<1>2. CASE ~Redis
  <2>1. Staged' = Staged /\ Redis' = Redis
    BY DEF Staged, Redis
  <2> HIDE DEF Staged
  <2>2. /\ cached \in DOMAIN heap \ {Key} /\ UNCHANGED <<heap, cached>>
        /\ ref' = [ref EXCEPT ![t] = cached] /\ Goto(t, "live") /\ ref[t] = None
    BY <1>2 DEF TypeInv, HeapInv, Hit
  <2>3. \A s \in Turn : /\ ref'[s] = IF s = t THEN cached ELSE ref[s]
                       /\ pc'[s] = IF s = t THEN "live" ELSE pc[s]
    BY <2>2 DEF TypeInv, HeapInv, BookInv, Goto
  <2>4. \A s \in Turn : IF pc'[s] \in {"idle", "restore"} THEN ref'[s] = None
                                                        ELSE ref'[s] \in DOMAIN heap' \ {Key}
    BY <2>2, <2>3 DEF TypeInv, HeapInv
  <2>5. \E g : DOMAIN heap' \subseteq {ref'[s] : s \in Turn} \cup {Key, g}
    <3>1. PICK g : DOMAIN heap \subseteq {ref[s] : s \in Turn} \cup {Key, g}
      BY DEF TypeInv, HeapInv
    <3>2. \A s \in Turn : ref[s] = None \/ ref[s] = ref'[s]
      BY <2>2, <2>3
    <3>3. None \notin DOMAIN heap
      BY GateAssumption DEF TypeInv, HeapInv, Objects
    <3>4. DOMAIN heap \subseteq {ref'[s] : s \in Turn} \cup {Key, g}
      BY <3>1, <3>2, <3>3
    <3> QED BY <2>2, <3>4
  <2>6. ref' = [s \in Turn |-> ref'[s]]
    BY <2>2 DEF TypeInv, HeapInv
  <2> QED BY <2>1, <2>2, <2>4, <2>5, <2>6 DEF TypeInv, HeapInv
<1> QED BY <1>1, <1>2

\* The turns' steps that touch no write.
LEMMA PlainBook ==
  ASSUME TypeInv, UNCHANGED <<deployment, row, claim, held, ledger>>,
         pc' \in [Turn -> Points],
         \A t \in Turn : pc'[t] \in {"execute", "performed"} => pc[t] \in {"execute", "performed"}
  PROVE  BookInv'
<1>1. Staged' = Staged /\ MaxStages' = MaxStages /\ MaxCrashes' = MaxCrashes
  BY DEF Staged, MaxStages, MaxCrashes, ledger
<1> QED BY <1>1 DEF TypeInv, BookInv, ledger

\* A turn loads its session, or finds that it has to restore it.
LEMMA LoadType ==
  ASSUME TypeInv, NEW t \in Turn, UNCHANGED deployment, Receive(t) \/ Restore(t)
  PROVE  TypeInv'
<1>1. BookInv'
  <2>1. \E point \in {"live", "restore"} : Goto(t, point)
    BY DEF Receive, Restore, Hit, Create
  <2>2. UNCHANGED <<row, claim, held, ledger>>
    BY DEF Receive, Restore
  <2> QED BY <2>1, <2>2, PlainBook DEF TypeInv, BookInv, Goto, Points
<1>2. pc[t] \in {"idle", "restore"} /\ UNCHANGED staged
  BY DEF Receive, Restore, ledger
<1>3. CASE Hit(t)
  BY <1>2, <1>3, HitHeap, <1>1 DEF TypeInv
<1>4. ASSUME NEW slice \in Staged, Create(t, slice)
      PROVE  HeapInv'
  BY <1>2, <1>4, NewHeap DEF Create, Own
<1>5. CASE Goto(t, "restore") /\ UNCHANGED <<heap, cached, ref>> /\ pc[t] = "idle"
  <2>1. \A s \in Turn : pc'[s] = IF s = t THEN "restore" ELSE pc[s]
    BY <1>5 DEF TypeInv, BookInv, Goto
  <2>2. \A s \in Turn : pc'[s] \in {"idle", "restore"} <=> pc[s] \in {"idle", "restore"}
    BY <1>5, <2>1
  <2>3. UNCHANGED <<deployment, heap, cached, ref, staged>>
    BY <1>2, <1>5
  <2> QED BY <1>1, <2>2, <2>3, SameHeap DEF TypeInv
<1>6. ASSUME row # None PROVE Restored \in Staged
  BY <1>6 DEF TypeInv, BookInv, Restored, Staged
<1>7. Empty \in Staged
  BY DEF TypeInv, BookInv, Staged, Empty
<1> QED BY <1>1, <1>3, <1>4, <1>5, <1>6, <1>7 DEF Receive, Restore, TypeInv

\* Whatever the message asks, pending is cleared or stays.
LEMMA AnswerType ==
  ASSUME TypeInv, NEW t \in Turn, UNCHANGED deployment, Answer(t)
  PROVE  TypeInv'
<1>1. pc[t] = "live" /\ UNCHANGED <<cached, row, ref, claim, held, ledger>> /\ staged' = staged
      /\ Staged' = Staged /\ staged \in Nat
  BY DEF Answer, ledger, Staged, TypeInv, BookInv
<1>2. PICK point \in {"persist", "stage", "stage_draft"} :
        \E slice \in Staged : Work(t, slice, point)
  BY <1>1, SessionIs DEF Answer, Reply, Read, Draft, Pivot, ModelStage, CallBlocked
<1>3. HeapInv'
  <2> HIDE DEF Staged
  <2>1. point \in Points \ {"idle", "restore"}
    BY DEF Points
  <2>2. PICK slice \in Staged' : Work(t, slice, point)
    BY <1>1, <1>2
  <2>3. staged' \in Nat /\ staged <= staged' /\ pc[t] \notin {"idle", "restore"}
    <3>1. staged' = staged /\ staged \in Nat
      BY <1>1
    <3> QED BY <1>1, <3>1
  <2> QED BY <1>1, <2>1, <2>2, <2>3, WorkHeap
<1>4. BookInv'
  BY <1>1, <1>2, PlainBook DEF TypeInv, BookInv, Work, Goto, Points
<1> QED BY <1>3, <1>4 DEF TypeInv

\* A staged write has the next number.
LEMMA StageType ==
  ASSUME TypeInv, NEW t \in Turn, UNCHANGED deployment, Stage(t)
  PROVE  TypeInv'
<1>1. pc[t] \in {"stage", "stage_draft"} /\ UNCHANGED <<cached, row, ref, claim, held, expired, performed, concluded, doing, crashes>>
      /\ MaxStages' = MaxStages /\ MaxCrashes' = MaxCrashes
  BY DEF Stage, MaxStages, MaxCrashes
<1>0. staged \in Nat /\ MaxStages \in Nat
  BY GateAssumption DEF TypeInv, BookInv, MaxStages
<1>2. Session(t) \in Staged
  BY <1>1, SessionIs
<1>3. PICK slice : Work(t, slice, "persist") /\ slice \in Staged' /\ staged' \in {staged, staged + 1}
                   /\ staged' <= MaxStages
  <2>1. CASE Reply(t) /\ UNCHANGED staged
    <3>1. Staged' = Staged /\ staged <= MaxStages
      BY <2>1 DEF Staged, TypeInv, BookInv
    <3> QED BY <1>2, <2>1, <3>1 DEF Reply
  <2>2. CASE /\ staged < MaxStages
             /\ staged' = staged + 1
             /\ Work(t, [pending |-> staged + 1, draft |-> Session(t).draft /\ pc[t] = "stage"], "persist")
    <3>1. [pending |-> staged + 1, draft |-> Session(t).draft /\ pc[t] = "stage"] \in Staged'
      BY <1>0, <1>2, <2>2 DEF Staged
    <3>2. staged' <= MaxStages
      BY <1>0, <2>2
    <3> QED BY <2>2, <3>1, <3>2
  <2> QED BY <2>1, <2>2 DEF Stage
<1>4. HeapInv'
  <2>1. "persist" \in Points \ {"idle", "restore"} /\ staged' \in Nat /\ staged <= staged'
    BY <1>0, <1>3 DEF Points
  <2> HIDE DEF Staged
  <2> QED BY <1>1, <1>3, <2>1, WorkHeap
<1>5. BookInv'
  <2>1. /\ 0 .. staged \subseteq 0 .. staged' /\ 1 .. staged \subseteq 1 .. staged'
        /\ staged' \in 0 .. MaxStages
    BY <1>0, <1>3
  <2>2. Staged \subseteq Staged'
    BY <2>1 DEF Staged
  <2>3. pc' = [pc EXCEPT ![t] = "persist"]
    BY <1>3 DEF Work, Goto
  <2>4. pc' \in [Turn -> Points] /\ row' \in Staged' \cup {None}
    BY <1>1, <2>2, <2>3 DEF TypeInv, BookInv, Points, Stage
  <2>5. /\ expired' \subseteq 1 .. staged' /\ concluded' \subseteq 1 .. staged'
        /\ doing' \in [Turn -> [write : 0 .. staged', was : {"staged", "performed", "concluded"}]]
    BY <1>1, <2>1 DEF TypeInv, BookInv
  <2>6. \A s \in Turn : pc'[s] \in {"execute", "performed"} => doing'[s].write # 0
    BY <1>1, <2>3 DEF TypeInv, BookInv
  <2> HIDE DEF Staged
  <2> QED BY <1>1, <2>1, <2>4, <2>5, <2>6 DEF TypeInv, BookInv, Stage
<1> QED BY <1>4, <1>5 DEF TypeInv

\* A write that a turn sets out to execute is staged.
LEMMA ConfirmType ==
  ASSUME TypeInv, NEW t \in Turn, UNCHANGED deployment, Confirm(t)
  PROVE  TypeInv'
<1> DEFINE write == Session(t).pending
<1>1. /\ pc[t] = "live" /\ write \notin {0} \cup expired
      /\ UNCHANGED <<heap, cached, row, ref, staged, expired, performed, concluded, crashes>>
  BY DEF Confirm
<1>2. Session(t) \in Staged
  BY <1>1, SessionIs
<1>3. write \in 0 .. staged /\ write # 0
  BY <1>1, <1>2 DEF Staged
<1>4. Progress(write) \in {"staged", "performed", "concluded"}
  BY DEF Progress
<1>5. /\ Staged' = Staged /\ MaxStages' = MaxStages /\ MaxCrashes' = MaxCrashes
      /\ WorkerOf = WorkerOf'
  BY <1>1 DEF Staged, MaxStages, MaxCrashes, WorkerOf
<1>6. \/ /\ Claim(t)
         /\ doing' = [doing EXCEPT ![t] = [write |-> write, was |-> Progress(write)]]
         /\ Goto(t, "execute")
      \/ Goto(t, "persist") /\ UNCHANGED <<claim, held, doing>>
  BY DEF Confirm
<1> HIDE DEF write, Staged
<1>7. pc' \in [Turn -> Points] /\ \A s \in Turn : s # t => pc'[s] = pc[s]
  BY <1>6 DEF TypeInv, BookInv, Goto, Points
<1>8. pc'[t] \in {"execute", "persist"}
  BY <1>6 DEF TypeInv, BookInv, Goto
<1>9. HeapInv'
  <2>1. \A s \in Turn : pc'[s] \in {"idle", "restore"} <=> pc[s] \in {"idle", "restore"}
    BY <1>1, <1>7, <1>8
  <2> QED BY <1>1, <2>1, SameHeap
<1>10. BookInv'
  <2>1. CASE Goto(t, "persist") /\ UNCHANGED <<claim, held, doing>>
    <3>1. \A s \in Turn : pc'[s] \in {"execute", "performed"} => pc[s] \in {"execute", "performed"}
      BY <2>1 DEF TypeInv, BookInv, Goto
    <3> QED BY <1>1, <1>7, <2>1, <3>1, PlainBook DEF ledger
  <2>2. CASE /\ Claim(t)
             /\ doing' = [doing EXCEPT ![t] = [write |-> write, was |-> Progress(write)]]
    <3>1. claim' \in Turn \cup {None} /\ held' \in [Worker -> Turn \cup {None}]
      BY <2>2 DEF TypeInv, BookInv, Claim
    <3>2. doing' \in [Turn -> [write : 0 .. staged, was : {"staged", "performed", "concluded"}]]
      BY <1>3, <1>4, <2>2 DEF TypeInv, BookInv
    <3>3. doing'[t].write = write /\ \A s \in Turn : s # t => doing'[s] = doing[s]
      BY <2>2 DEF TypeInv, BookInv
    <3>4. \A s \in Turn : pc'[s] \in {"execute", "performed"} => doing'[s].write # 0
      BY <1>3, <1>7, <3>3 DEF TypeInv, BookInv
    <3> QED BY <1>1, <1>5, <1>7, <3>1, <3>2, <3>4 DEF TypeInv, BookInv
  <2> QED BY <1>6, <2>1, <2>2
<1> QED BY <1>9, <1>10 DEF TypeInv

\* Counting a performance.
LEMMA PerformType ==
  ASSUME TypeInv, NEW t \in Turn, UNCHANGED deployment, Perform(t)
  PROVE  TypeInv'
<1>1. /\ pc[t] = "execute" /\ \A s \in Turn : pc'[s] = IF s = t THEN "performed" ELSE pc[s]
      /\ pc' \in [Turn -> Points]
      /\ UNCHANGED <<heap, cached, row, ref, claim, held, staged, expired, concluded, doing, crashes>>
  BY DEF Perform, Goto, TypeInv, BookInv, Points
<1>2. HeapInv'
  <2>1. \A s \in Turn : pc'[s] \in {"idle", "restore"} <=> pc[s] \in {"idle", "restore"}
    BY <1>1
  <2> QED BY <1>1, <2>1, SameHeap
<1>3. performed' \in [1 .. MaxStages -> Nat]
  <2> DEFINE write == doing[t].write
  <2>1. performed \in [1 .. MaxStages -> Nat]
    BY DEF TypeInv, BookInv
  <2>2. performed' = [performed EXCEPT ![write] = performed[write] + 1]
    BY DEF Perform
  <2> HIDE DEF write
  <2>3. write \in 1 .. MaxStages => performed[write] + 1 \in Nat
    BY <2>1
  <2> QED BY <2>1, <2>2, <2>3
<1>4. Staged' = Staged /\ MaxStages' = MaxStages /\ MaxCrashes' = MaxCrashes
  BY <1>1 DEF Staged, MaxStages, MaxCrashes
<1>5. \A s \in Turn : pc'[s] \in {"execute", "performed"} => doing'[s].write # 0
  BY <1>1 DEF TypeInv, BookInv
<1> QED BY <1>1, <1>2, <1>3, <1>4, <1>5 DEF TypeInv, BookInv

\* An execution is over: the claim goes, and with it what the turn was doing.
LEMMA StopType ==
  ASSUME TypeInv, NEW t \in Turn, pc' \in [Turn -> Points],
         pc'[t] \notin {"execute", "performed"},
         \A s \in Turn : s # t => pc'[s] = pc[s],
         doing' = [doing EXCEPT ![t] = Idle],
         Release(t) \/ UNCHANGED <<claim, held>>,
         concluded' \subseteq concluded \cup (IF pc[t] = "performed" THEN {doing[t].write} ELSE {}),
         UNCHANGED <<deployment, row, staged, expired, performed, crashes>>
  PROVE  BookInv'
<1>1. Staged' = Staged /\ MaxStages' = MaxStages /\ MaxCrashes' = MaxCrashes
  BY DEF Staged, MaxStages, MaxCrashes
<1>2. staged \in Nat
  BY DEF TypeInv, BookInv
<1>3. doing' \in [Turn -> [write : 0 .. staged, was : {"staged", "performed", "concluded"}]]
  <2>1. Idle \in [write : 0 .. staged, was : {"staged", "performed", "concluded"}]
    BY <1>2 DEF Idle
  <2> QED BY <2>1 DEF TypeInv, BookInv
<1>4. \A s \in Turn : s # t => doing'[s] = doing[s]
  BY DEF TypeInv, BookInv
<1>5. \A s \in Turn : pc'[s] \in {"execute", "performed"} => doing'[s].write # 0
  BY <1>4 DEF TypeInv, BookInv
<1>6. pc[t] = "performed" => doing[t].write \in 1 .. staged
  <2>1. doing[t].write \in 0 .. staged /\ (pc[t] = "performed" => doing[t].write # 0)
    BY DEF TypeInv, BookInv
  <2> QED BY <1>2, <2>1
<1>7. concluded' \subseteq 1 .. staged
  BY <1>6 DEF TypeInv, BookInv
<1>8. claim' \in Turn \cup {None} /\ held' \in [Worker -> Turn \cup {None}]
  BY DEF TypeInv, BookInv, Release
<1> HIDE DEF Staged
<1> QED BY <1>1, <1>3, <1>5, <1>7, <1>8 DEF TypeInv, BookInv

\* The end of a turn.
LEMMA FinishType ==
  ASSUME TypeInv, NEW t \in Turn, UNCHANGED deployment, Finishing(t)
  PROVE  TypeInv'
<1>1. CASE Conclude(t)
  <2>1. /\ pc[t] \in {"execute", "performed"} /\ Work(t, Cleared(t), "persist")
        /\ UNCHANGED <<cached, row, ref, staged, expired, performed, crashes>>
        /\ doing' = [doing EXCEPT ![t] = Idle] /\ Release(t)
    BY <1>1 DEF Conclude
  <2>0. Cleared(t) \in Staged
    BY <2>1, SessionIs
  <2>2. Cleared(t) \in Staged /\ Staged' = Staged /\ staged \in Nat
    BY <2>0, <2>1 DEF Staged, TypeInv, BookInv
  <2>3. pc' \in [Turn -> Points] /\ \A s \in Turn : pc'[s] = IF s = t THEN "persist" ELSE pc[s]
    BY <2>1 DEF TypeInv, BookInv, Work, Goto, Points
  <2>4. HeapInv'
    <3>1. "persist" \in Points \ {"idle", "restore"} /\ staged' \in Nat /\ staged <= staged'
      BY <2>1, <2>2 DEF Points
    <3> HIDE DEF Staged
    <3> QED BY <2>1, <2>2, <3>1, WorkHeap
  <2>5. concluded' \subseteq concluded \cup (IF pc[t] = "performed" THEN {doing[t].write} ELSE {})
    BY <1>1 DEF Conclude
  <2> QED BY <2>1, <2>3, <2>4, <2>5, StopType DEF TypeInv
<1>2. CASE Persist(t)
  <2>1. /\ pc[t] = "persist" /\ \A s \in Turn : pc'[s] = IF s = t THEN "put" ELSE pc[s]
        /\ pc' \in [Turn -> Points]
        /\ UNCHANGED <<heap, cached, ref, claim, held, ledger>>
    BY <1>2 DEF Persist, Goto, TypeInv, BookInv, Points
  <2>2. \A s \in Turn : pc'[s] \in {"idle", "restore"} <=> pc[s] \in {"idle", "restore"}
    BY <2>1
  <2>3. HeapInv'
    BY <2>1, <2>2, SameHeap DEF ledger
  <2>4. row' \in Staged \cup {None}
    BY <1>2, <2>1, SessionIs DEF Persist
  <2>5. Staged' = Staged /\ MaxStages' = MaxStages /\ MaxCrashes' = MaxCrashes
    BY <2>1 DEF Staged, MaxStages, MaxCrashes, ledger
  <2>6. \A s \in Turn : pc'[s] \in {"execute", "performed"} => doing'[s].write # 0
    BY <2>1 DEF TypeInv, BookInv, ledger
  <2> HIDE DEF Staged
  <2> QED BY <2>1, <2>3, <2>4, <2>5, <2>6 DEF TypeInv, BookInv, ledger
<1>3. CASE Put(t)
  <2>1. /\ pc[t] = "put" /\ UNCHANGED <<row, claim, held, ledger>>
        /\ ref' = [ref EXCEPT ![t] = None] /\ pc' = [pc EXCEPT ![t] = "idle"]
    BY <1>3 DEF Put, Leave, Goto
  <2>2. \A s \in Turn : /\ ref'[s] = IF s \in {t} THEN None ELSE ref[s]
                       /\ pc'[s] = IF s \in {t} THEN "idle" ELSE pc[s]
    BY <2>1 DEF TypeInv, HeapInv, BookInv
  <2>3. ref' = [s \in Turn |-> ref'[s]]
    BY <2>1 DEF TypeInv, HeapInv
  <2>4. BookInv'
    <3>1. pc' \in [Turn -> Points]
      BY <2>1 DEF TypeInv, BookInv, Points
    <3> QED BY <2>1, <2>2, <3>1, PlainBook
  <2>5. \E h : Dropped(h)
    <3>1. /\ heap \in [DOMAIN heap -> Staged] /\ DOMAIN heap \subseteq Objects
          /\ ref[t] \in DOMAIN heap \ {Key} /\ cached \in DOMAIN heap \cup {None}
          /\ IF Redis THEN cached \in {Key, None} ELSE cached # Key
      BY <2>1 DEF TypeInv, HeapInv
    <3>2. Session(t) \in Staged
      BY <2>1, SessionIs
    <3> HIDE DEF Staged
    <3>3. CASE ~Redis /\ Leave(t, heap, ref[t])
      BY <3>1, <3>3 DEF Leave, Dropped
    <3>4. CASE Redis /\ Leave(t, heap, cached)
      BY <3>1, <3>4 DEF Leave, Dropped
    <3>5. CASE Redis /\ Leave(t, With(heap, Key, Session(t)), Key)
      <4> DEFINE h == With(heap, Key, Session(t))
      <4>1. DOMAIN h = DOMAIN heap \cup {Key} /\ h \in [DOMAIN h -> Staged]
        BY <3>1, <3>2 DEF With
      <4>2. DOMAIN h \subseteq Objects
        BY <3>1, <4>1 DEF Objects
      <4>3. cached' = Key /\ heap' = Live(h, ref', cached')
        BY <3>5 DEF Leave
      <4> HIDE DEF h
      <4> QED BY <3>5, <4>1, <4>2, <4>3 DEF Dropped
    <3> QED BY <1>3, <3>3, <3>4, <3>5 DEF Put
  <2>6. UNCHANGED <<deployment, staged>>
    BY <2>1 DEF ledger
  <2>7. HeapInv'
    <3> DEFINE gone == {t}
    <3>1. \A s \in Turn : /\ ref'[s] = IF s \in gone THEN None ELSE ref[s]
                         /\ pc'[s] = IF s \in gone THEN "idle" ELSE pc[s]
      BY <2>2
    <3>2. gone \in SUBSET Turn
      OBVIOUS
    <3> HIDE DEF gone
    <3> QED BY <2>3, <2>5, <2>6, <3>1, <3>2, LiveHeap
  <2> QED BY <2>4, <2>7 DEF TypeInv
<1> QED BY <1>1, <1>2, <1>3 DEF Finishing

\* Any other exception.
LEMMA FailType ==
  ASSUME TypeInv, NEW t \in Turn, UNCHANGED deployment, Fail(t)
  PROVE  TypeInv'
<1>1. /\ UNCHANGED <<deployment, row, staged, expired, performed, concluded, crashes>>
      /\ ref' = [ref EXCEPT ![t] = None] /\ pc' = [pc EXCEPT ![t] = "idle"]
      /\ cached' = cached /\ heap' = Live(heap, ref', cached)
      /\ doing' = [doing EXCEPT ![t] = Idle] /\ (Release(t) \/ UNCHANGED <<claim, held>>)
  BY DEF Fail, Leave, Goto
<1> DEFINE gone == {t}
<1>2. \A s \in Turn : /\ ref'[s] = IF s \in gone THEN None ELSE ref[s]
                     /\ pc'[s] = IF s \in gone THEN "idle" ELSE pc[s]
  BY <1>1 DEF TypeInv, HeapInv, BookInv
<1>3. ref' = [s \in Turn |-> ref'[s]] /\ pc' \in [Turn -> Points]
  BY <1>1 DEF TypeInv, HeapInv, BookInv, Points
<1>4. Dropped(heap)
  BY <1>1 DEF TypeInv, HeapInv, Dropped
<1>5. BookInv'
  <2>1. pc'[t] \notin {"execute", "performed"} /\ \A s \in Turn : s # t => pc'[s] = pc[s]
    BY <1>2
  <2> QED BY <1>1, <1>3, <2>1, StopType
<1>6. gone \in SUBSET Turn
  OBVIOUS
<1> HIDE DEF gone
<1>7. HeapInv'
  BY <1>1, <1>2, <1>3, <1>4, <1>6, LiveHeap
<1> QED BY <1>5, <1>7 DEF TypeInv

\* With the in-memory store a crash takes every turn along; with Redis the key
\* survives it.
LEMMA CrashType ==
  ASSUME TypeInv, NEW w \in Worker, UNCHANGED deployment, Crash(w)
  PROVE  TypeInv'
<1> DEFINE gone == On(w)
<1>1. gone \in SUBSET Turn
  BY DEF On
<1> HIDE DEF gone
<1>2. /\ \A s \in Turn : /\ ref'[s] = IF s \in gone THEN None ELSE ref[s]
                        /\ pc'[s] = IF s \in gone THEN "idle" ELSE pc[s]
      /\ ref' = [s \in Turn |-> ref'[s]]
      /\ pc' = [s \in Turn |-> IF s \in gone THEN "idle" ELSE pc[s]]
      /\ doing' = [s \in Turn |-> IF s \in gone THEN Idle ELSE doing[s]]
      /\ UNCHANGED <<row, staged, expired, performed, concluded>>
      /\ held' = [held EXCEPT ![w] = None] /\ claim' \in {claim, None}
      /\ crashes < MaxCrashes /\ crashes' = crashes + 1
      /\ cached' = (IF Redis THEN cached ELSE None) /\ heap' = Live(heap, ref', cached')
  BY DEF Crash, gone
<1>3. HeapInv'
  <2>1. Dropped(heap)
    BY <1>2, GateAssumption DEF TypeInv, HeapInv, Dropped
  <2> QED BY <1>1, <1>2, <2>1, LiveHeap
<1>4. BookInv'
  <2>1. Staged' = Staged /\ MaxStages' = MaxStages /\ MaxCrashes' = MaxCrashes
    BY <1>2 DEF Staged, MaxStages, MaxCrashes
  <2>2. pc' \in [Turn -> Points]
    BY <1>2 DEF TypeInv, BookInv, Points
  <2>3. Idle \in [write : 0 .. staged, was : {"staged", "performed", "concluded"}]
    BY DEF Idle, TypeInv, BookInv
  <2>4. doing' \in [Turn -> [write : 0 .. staged, was : {"staged", "performed", "concluded"}]]
    BY <1>2, <2>3 DEF TypeInv, BookInv
  <2>5. \A s \in Turn : pc'[s] \in {"execute", "performed"} => doing'[s].write # 0
    BY <1>2 DEF TypeInv, BookInv
  <2>6. crashes' \in 0 .. MaxCrashes
    <3>1. MaxCrashes \in Nat
      BY GateAssumption DEF TypeInv, BookInv, MaxCrashes
    <3> QED BY <1>2, <3>1 DEF TypeInv, BookInv
  <2>7. claim' \in Turn \cup {None} /\ held' \in [Worker -> Turn \cup {None}]
    BY <1>2 DEF TypeInv, BookInv
  <2> HIDE DEF Staged
  <2> QED BY <1>2, <2>1, <2>2, <2>4, <2>5, <2>6, <2>7 DEF TypeInv, BookInv
<1> QED BY <1>3, <1>4 DEF TypeInv

\* Confirmations, the session and the claim run out.
LEMMA ExpiryType ==
  ASSUME TypeInv, UNCHANGED deployment,
         (\E c \in 1 .. MaxStages : ConfirmationExpires(c)) \/ SessionExpires \/ ClaimExpires
  PROVE  TypeInv'
<1>1. Staged' = Staged /\ MaxStages' = MaxStages /\ MaxCrashes' = MaxCrashes
      /\ UNCHANGED <<row, ref, pc, held, staged, performed, concluded, doing, crashes>>
      /\ expired' \subseteq 1 .. staged /\ claim' \in {claim, None}
  BY DEF Staged, MaxStages, MaxCrashes, ConfirmationExpires, SessionExpires, ClaimExpires, ledger,
     TypeInv, BookInv
<1> HIDE DEF Staged
<1>2. BookInv'
  BY <1>1 DEF TypeInv, BookInv
<1>3. CASE SessionExpires
  <2> DEFINE gone == {}
  <2>1. Dropped(heap)
    <3>1. cached' = None /\ heap' = Live(heap, ref', cached') /\ None # Key
      BY <1>1, <1>3, GateAssumption DEF SessionExpires
    <3> QED BY <3>1 DEF Dropped, TypeInv, HeapInv
  <2>2. \A s \in Turn : /\ ref'[s] = IF s \in gone THEN None ELSE ref[s]
                       /\ pc'[s] = IF s \in gone THEN "idle" ELSE pc[s]
    BY <1>1
  <2>3. ref' = [s \in Turn |-> ref'[s]] /\ gone \in SUBSET Turn
    BY <1>1 DEF TypeInv, HeapInv
  <2> HIDE DEF gone
  <2>4. HeapInv'
    BY <1>1, <2>1, <2>2, <2>3, LiveHeap
  <2> QED BY <1>2, <2>4 DEF TypeInv
<1>4. CASE (\E c \in 1 .. MaxStages : ConfirmationExpires(c)) \/ ClaimExpires
  <2>1. UNCHANGED <<heap, cached>>
    BY <1>4 DEF ConfirmationExpires, ClaimExpires
  <2> QED BY <1>1, <1>2, <2>1, SameHeap DEF TypeInv
<1> QED BY <1>3, <1>4

\* Every step, and stuttering.
LEMMA TypeStep == ASSUME TypeInv, [Next]_vars PROVE TypeInv'
<1>1. CASE UNCHANGED vars
  <2>1. BookInv'
    BY <1>1, PlainBook DEF vars, ledger, TypeInv, BookInv
  <2>2. HeapInv'
    BY <1>1, SameHeap DEF vars
  <2> QED BY <2>1, <2>2 DEF TypeInv
<1>2. ASSUME NEW t \in Turn, TurnStep(t), UNCHANGED deployment
      PROVE  TypeInv'
  BY <1>2, LoadType, AnswerType, StageType, ConfirmType, PerformType, FinishType, FailType
  DEF TurnStep
<1> QED BY <1>1, <1>2, CrashType, ExpiryType DEF Next

\* A turn past its loading always works on a live session object, what any
\* session or row has pending was staged before, and what a turn executes too.
THEOREM GateTypesCorrect == Spec => []TypeOK
<1> QED BY TypeInit, TypeStep, TypeSuffices, PTL DEF Spec
=============================================================================
