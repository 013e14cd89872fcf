--------------------------- MODULE WorkerLease_proofs ---------------------------
(***************************************************************************)
(* Proofs about WorkerLease for every set of processes and every Ttl.      *)
(* RetainedAuthority is not inductive: it says nothing of the heartbeat,   *)
(* whose age is what a takeover looks at.  The strengthening is that the   *)
(* heartbeat is never older than a proof that is still good.               *)
(***************************************************************************)
EXTENDS WorkerLease, TLAPS

\* A proof of authority no older than Ttl covers its holder: it owns the lease
\* and the heartbeat is at least as recent as the proof.
Covered(w, t) ==
    effect[w][t] # None /\ effect[w][t] <= Ttl => owner = w /\ hbAge <= effect[w][t]

LeaseInv == TypeOK /\ \A w \in Workers, t \in Tasks : Covered(w, t)

USE LeaseAssumption

\* No process has proved anything at the start.
LEMMA InitLeaseInv == Init => LeaseInv
BY DEF Init, LeaseInv, TypeOK, Covered, Ages, Tasks

\* Every step keeps the variables in their types.
LEMMA LeaseTypeStep == TypeOK /\ [Next]_vars => TypeOK'
<1> SUFFICES ASSUME TypeOK, [Next]_vars PROVE TypeOK'
  OBVIOUS
<1> USE DEF TypeOK, Ages
<1>1. CASE UNCHANGED vars
  BY <1>1 DEF vars
<1>2. CASE Tick
  BY <1>2 DEF Tick, Older
<1>3. ASSUME NEW w \in Workers, ProcessStep(w) PROVE TypeOK'
  <2>1. CASE acquire_worker_lease(w)
    BY <2>1 DEF acquire_worker_lease, AcquiredHeartbeat
  <2>2. CASE refresh_worker_lease(w)
    <3>1. CASE owner = w
      BY <2>2, <3>1 DEF refresh_worker_lease
    <3>2. CASE owner # w
      BY <2>2, <3>2 DEF refresh_worker_lease, AfterLost
    <3> QED
      BY <3>1, <3>2
  <2>3. ASSUME NEW t \in Tasks, verify_execution_authority(w, t) PROVE TypeOK'
    BY <2>3 DEF verify_execution_authority, ProofHeartbeat
  <2>4. ASSUME NEW t \in Tasks, ExternalEffect(w, t) PROVE TypeOK'
    BY <2>4 DEF ExternalEffect
  <2>5. CASE InitialReconcileReturns(w)
    BY <2>5 DEF InitialReconcileReturns
  <2>6. CASE MaintainerReconcileReturns(w)
    BY <2>6 DEF MaintainerReconcileReturns
  <2>7. CASE ReconcileRaises(w)
    BY <2>7 DEF ReconcileRaises
  <2>8. CASE StopRequested(w)
    BY <2>8 DEF StopRequested
  <2>9. CASE Exit(w)
    BY <2>9 DEF Exit
  <2>10. CASE Crash(w)
    BY <2>10 DEF Crash
  <2> QED
    BY <1>3, <2>1, <2>2, <2>3, <2>4, <2>5, <2>6, <2>7, <2>8, <2>9, <2>10
    DEF ProcessStep
<1> QED
  BY <1>1, <1>2, <1>3 DEF Next

\* Every step keeps every good proof covered: a takeover needs a heartbeat
\* older than Ttl, hence older than every good proof, hence there is none.
LEMMA CoveredStep ==
    ASSUME LeaseInv, [Next]_vars, NEW v \in Workers, NEW u \in Tasks
    PROVE  Covered(v, u)'
<1> USE DEF Covered, Ages
<1>t. TypeOK /\ Covered(v, u)
  BY DEF LeaseInv
<1>1. CASE UNCHANGED vars
  BY <1>1, <1>t DEF vars
<1>2. CASE Tick
  BY <1>2, <1>t DEF Tick, Older, TypeOK
<1>3. ASSUME NEW w \in Workers, ProcessStep(w) PROVE Covered(v, u)'
  <2>1. CASE acquire_worker_lease(w)
    <3>1. effect' = effect /\ owner' = w /\ hbAge' = 0
      BY <2>1 DEF acquire_worker_lease, AcquiredHeartbeat
    <3>2. effect[v][u] # None /\ effect[v][u] <= Ttl => w = v
      BY <2>1, <1>t DEF acquire_worker_lease, HeartbeatStale, TypeOK
    <3>3. effect[v][u] # None => 0 <= effect[v][u]
      BY <1>t DEF TypeOK
    <3> QED
      BY <3>1, <3>2, <3>3
  <2>2. CASE refresh_worker_lease(w)
    BY <2>2, <1>t DEF refresh_worker_lease, TypeOK
  <2>3. ASSUME NEW t \in Tasks, verify_execution_authority(w, t)
        PROVE Covered(v, u)'
    BY <2>3, <1>t DEF verify_execution_authority, ProofHeartbeat, TypeOK
  <2>4. ASSUME NEW t \in Tasks, ExternalEffect(w, t) PROVE Covered(v, u)'
    BY <2>4, <1>t DEF ExternalEffect, TypeOK
  <2>5. CASE \/ InitialReconcileReturns(w) \/ MaintainerReconcileReturns(w)
             \/ ReconcileRaises(w) \/ StopRequested(w)
    BY <2>5, <1>t DEF InitialReconcileReturns, MaintainerReconcileReturns,
                      ReconcileRaises, StopRequested
  <2>6. CASE Exit(w) \/ Crash(w)
    BY <2>6, <1>t DEF Exit, Crash, TypeOK
  <2> QED
    BY <1>3, <2>1, <2>2, <2>3, <2>4, <2>5, <2>6 DEF ProcessStep
<1> QED
  BY <1>1, <1>2, <1>3 DEF Next

\* The inductive invariant holds of every reachable state.
THEOREM LeaseInvariant == Spec => []LeaseInv
<1>1. LeaseInv /\ [Next]_vars => LeaseInv'
  BY LeaseTypeStep, CoveredStep DEF LeaseInv
<1> QED
  BY InitLeaseInv, <1>1, PTL DEF Spec

\* The lease row and the process states are always well formed.
THEOREM LeaseTypeCorrect == Spec => []TypeOK
<1>1. LeaseInv => TypeOK
  BY DEF LeaseInv
<1> QED
  BY LeaseInvariant, <1>1, PTL

\* Whoever proved authority at most Ttl ago is still the owner, so an
\* external effect made within Ttl of the proof is the owner's.
THEOREM AuthorityIsRetained == Spec => []RetainedAuthority
<1>1. LeaseInv => RetainedAuthority
  BY DEF LeaseInv, Covered, RetainedAuthority
<1> QED
  BY LeaseInvariant, <1>1, PTL

\* Losing the lease is final: no step makes a deauthorised process the owner.
THEOREM NoWorkerResurrects == Spec => NoResurrection
<1> SUFFICES ASSUME NEW w \in Workers
             PROVE  Spec => [](Deauthorised(w) => []Deauthorised(w))
  BY DEF NoResurrection
<1>1. TypeOK /\ Deauthorised(w) /\ [Next]_vars => Deauthorised(w)'
  <2> SUFFICES ASSUME TypeOK, Deauthorised(w), [Next]_vars PROVE Deauthorised(w)'
    OBVIOUS
  <2> USE DEF Deauthorised, TypeOK
  <2>1. CASE UNCHANGED vars
    BY <2>1 DEF vars
  <2>2. CASE Tick
    BY <2>2 DEF Tick
  <2>3. ASSUME NEW v \in Workers, ProcessStep(v) PROVE Deauthorised(w)'
    BY <2>3 DEF ProcessStep, acquire_worker_lease, refresh_worker_lease, AfterLost,
        verify_execution_authority, ExternalEffect, InitialReconcileReturns,
        MaintainerReconcileReturns, ReconcileRaises, StopRequested, Exit, Crash
  <2> QED
    BY <2>1, <2>2, <2>3 DEF Next
<1> QED
  BY LeaseTypeCorrect, <1>1, PTL DEF Spec
=============================================================================
