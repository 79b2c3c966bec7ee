------------------------- MODULE AgentGaugesProofs -------------------------
(***************************************************************************)
(* Proofs about the tracker and the gauges while the callers of the        *)
(* manager and its workers refresh them, for any collectors.  That the     *)
(* gauges converge is a liveness property and is model-checked only.       *)
(***************************************************************************)
EXTENDS AgentGauges, MetricsTrackerProofs

CountRecords == [pods : Nat, endpoints : Nat, metrics : Nat]

\* The states of a thread.
ThreadStates ==
    [pc : {"idle"}]
    \cup [pc : {"purge", "add", "count", "pods", "endpoints", "metrics"},
          op : {"start", "stop", "stopAll", "not", "collect"},
          cid : Collectors, counts : CountRecords]

\* The inductive invariant: each thread is in one of its states, and what is
\* tracked can be counted.
IInv ==
    /\ caller \in ThreadStates
    /\ worker \in [Collectors -> ThreadStates]
    /\ TrackerTypeOK /\ IsFiniteSet(DOMAIN allMetrics)
-----------------------------------------------------------------------------
\* The tracker sees operations of its own only, with arguments of their types.
LEMMA TrackerSteps ==
    ASSUME IInv, [Next]_vars
    PROVE  [TrackerNext]_allMetrics
<1>1. Collectors \subseteq CollectorID
  BY GaugesConstants
<1>2. ASSUME caller.pc # "idle"
      PROVE  caller.cid \in CollectorID
  BY <1>1, <1>2 DEF IInv, ThreadStates
<1>3. CASE CallerStep
  BY NothingIsFinite, <1>2, <1>3 DEF CallerStep, Purge, PurgeAll, Add, RefreshByCaller, TrackerNext
<1>4. ASSUME NEW cid \in Collectors, WorkerStep(cid) \/ CollectFails(cid)
      PROVE  [TrackerNext]_allMetrics
  BY <1>1, <1>4 DEF WorkerStep, CollectFails, Tick, Collect, RefreshByWorker, TrackerNext
<1> QED BY <1>3, <1>4 DEF Next, Invoke, vars

\* A refresh keeps its thread within its states.
LEMMA RefreshTyped ==
    ASSUME IInv, NEW t \in ThreadStates, Refreshes(t)
    PROVE  Refreshed(t) \in ThreadStates
<1>1. Counts \in CountRecords
  BY CountsAreNumbers DEF IInv, CountRecords
<1>2. t \in [pc : {"count", "pods", "endpoints", "metrics"},
             op : {"start", "stop", "stopAll", "not", "collect"},
             cid : Collectors, counts : CountRecords]
  BY DEF ThreadStates, Refreshes
<1>3. Refreshed(t) \in ThreadStates
  <2>1. CASE t.pc = "count"
    <3>1. [t EXCEPT !.pc = "pods", !.counts = Counts] \in ThreadStates
      BY <1>1, <1>2 DEF ThreadStates
    <3> QED BY <2>1, <3>1 DEF Refreshed
  <2>2. CASE t.pc \in {"pods", "endpoints"}
    <3>1. [t EXCEPT !.pc = Following[@]] \in ThreadStates
      BY <1>2, <2>2 DEF ThreadStates, Following
    <3> QED BY <2>2, <3>1 DEF Refreshed
  <2>3. CASE t.pc = "metrics"
    <3>1. Idle \in ThreadStates /\ [t EXCEPT !.pc = "add"] \in ThreadStates
      BY <1>2 DEF ThreadStates, Idle
    <3> QED BY <2>3, <3>1 DEF Refreshed
  <2> QED BY <1>2, <2>1, <2>2, <2>3
<1> QED BY <1>3

\* No thread leaves its states.
LEMMA StepHolds == IInv /\ [Next]_vars => IInv'
<1> SUFFICES ASSUME IInv, [Next]_vars PROVE IInv'
  OBVIOUS
<1>1. TrackerTypeOK' /\ IsFiniteSet(DOMAIN allMetrics)'
  BY TrackerSteps, TypeStep, PodsStayFinite DEF IInv
<1>2. ASSUME NEW op \in {"start", "stop", "stopAll", "not", "collect"}, NEW pc \in {"purge", "add"},
             NEW cid \in Collectors
      PROVE  At(pc, op, cid) \in ThreadStates
  BY DEF At, Zero, ThreadStates, CountRecords
<1>3. Idle \in ThreadStates
  BY DEF Idle, ThreadStates
<1>4. ASSUME NEW t \in ThreadStates, t.pc # "idle"
      PROVE  [t EXCEPT !.pc = "count"] \in ThreadStates /\ [t EXCEPT !.pc = "pods"] \in ThreadStates
  BY <1>4 DEF ThreadStates
<1> USE DEF IInv
<1>5. CASE Invoke
  BY <1>1, <1>2, <1>5 DEF Invoke
<1>6. CASE CallerStep
  BY <1>1, <1>3, <1>4, <1>6, RefreshTyped DEF CallerStep, Purge, PurgeAll, Add, RefreshByCaller
<1>7. ASSUME NEW cid \in Collectors, WorkerStep(cid) \/ CollectFails(cid)
      PROVE  IInv'
  <2>1. CASE Tick(cid)
    BY <1>1, <1>2, <2>1 DEF Tick
  <2>2. CASE Collect(cid)
    BY <1>1, <1>4, <2>2 DEF Collect
  <2>3. CASE RefreshByWorker(cid)
    BY <1>1, <2>3, RefreshTyped DEF RefreshByWorker
  <2>4. CASE CollectFails(cid)
    BY <1>1, <1>3, <2>4 DEF CollectFails
  <2> QED BY <1>7, <2>1, <2>2, <2>3, <2>4 DEF WorkerStep
<1>8. CASE UNCHANGED vars
  BY <1>1, <1>8 DEF vars
<1> QED BY <1>5, <1>6, <1>7, <1>8 DEF Next

\* The invariant holds of the gauges' specification.
LEMMA Invariant == Spec => []IInv
<1>1. Init => IInv
  BY TypeInit, FS_EmptySet DEF Init, TrackerInit, IInv, Idle, Zero, ThreadStates, CountRecords
<1> QED BY <1>1, StepHolds, PTL DEF Spec

\* However the refreshes of the gauges race, they only read the tracker: its
\* operations are those of its specification.
THEOREM GaugesUseTracker == Spec => TrackerSpec
<1>1. Init => TrackerInit
  BY DEF Init
<1>2. IInv /\ [Next]_vars => [TrackerNext]_allMetrics
  BY TrackerSteps
<1> QED BY <1>1, <1>2, Invariant, PTL DEF Spec, TrackerSpec

\* What the runs check of the tracker under the gauges' specification holds for
\* every node: the map's type, the limit of a pod, no empty pod, no eviction.
THEOREM TrackerUnderGauges == Spec => [](TrackerTypeOK /\ PodLimit /\ NoEmptyPod) /\ NoEviction
BY GaugesUseTracker, TrackerTypeCorrect, PodLimitHolds, NoEmptyPodHolds, NoEvictionHolds, PTL
=============================================================================
