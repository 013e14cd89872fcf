------------------------------ MODULE WorkerLease ------------------------------
(***************************************************************************)
(* The singleton generation-worker lease (worker/ownership.py) and the     *)
(* worker process that lives under it (worker/runtime.py).                 *)
(*                                                                         *)
(* One row of table worker_leases names the worker process that may mutate *)
(* generations.  Every operation on the row is one BEGIN IMMEDIATE         *)
(* transaction, hence one atomic action.  A process acquires the lease,    *)
(* reconciles the generations its predecessors left, then runs two         *)
(* asyncio tasks: the maintainer, which refreshes the lease and drives     *)
(* stale generations INLINE between two refreshes, and the work loop.      *)
(* Either task may ask for proof of current authority and then perform an  *)
(* external effect (POST a prompt, cancel a prompt) some time later.       *)
(*                                                                         *)
(* Worker ids are fresh uuids, so a restarted process is another element   *)
(* of Workers.  Time is kept as ages: `hbAge` is how long ago the owner    *)
(* last refreshed, saturated at Ttl + 1 because the code only ever         *)
(* compares an age with Ttl.                                               *)
(***************************************************************************)
EXTENDS Integers

CONSTANTS
    Workers,   \* worker process incarnations, each with its own uuid4
    None,      \* no owner, no pending effect
    Ttl        \* settings.worker_lease_ttl_seconds

ASSUME LeaseAssumption ==
    /\ Ttl \in Nat
    /\ None \notin Workers
    /\ None \notin Nat

VARIABLES
    owner,   \* worker_leases.worker_id, None while the row does not exist
    hbAge,   \* age of worker_leases.heartbeat_at
    proc,    \* what run_worker of each process is doing
    maint,   \* what its maintainer task is doing
    effect   \* age of the authority proof behind a pending external effect

vars == <<owner, hbAge, proc, maint, effect>>

Tasks == {"work", "maint"}
Ages == 0 .. Ttl + 1
Older(a) == IF a <= Ttl THEN a + 1 ELSE a

\* Both tasks exist; a stop request does not interrupt the drive either is in.
Running(w) == proc[w] \in {"leading", "stopping"}

\* Which tasks of a process execute generations in each of its phases.
Executing(w, t) ==
    \/ Running(w) /\ t = "work"
    \/ Running(w) /\ t = "maint" /\ maint[w] = "driving"
    \/ proc[w] = "reconciling" /\ t = "maint"

TypeOK ==
    /\ owner \in Workers \cup {None}
    /\ hbAge \in Ages
    /\ proc \in [Workers -> {"standby", "reconciling", "leading",
                             "stopping", "stopped"}]
    /\ maint \in [Workers -> {"cycle", "driving", "died"}]
    /\ effect \in [Workers -> [Tasks -> Ages \cup {None}]]

Init ==
    /\ owner = None
    /\ hbAge = 0
    /\ proc = [w \in Workers |-> "standby"]
    /\ maint = [w \in Workers |-> "cycle"]
    /\ effect = [w \in Workers |-> [t \in Tasks |-> None]]

-----------------------------------------------------------------------------
(* Lease transactions. *)

\* Mutants: takeover never allowed; a row written without a heartbeat; a proof
\* that only reads the owner; LOST answered by standing by again, or ignored.
NeverStale == FALSE
NoHeartbeat == None
ReadOnlyProof == hbAge
BackToStandby == "standby"
CarryOn == "leading"

\* heartbeat_at < now - ttl, compared strictly in database time.
HeartbeatStale == hbAge > Ttl

\* Age of the heartbeat an acquisition writes, and of the one the authority
\* proof leaves behind; what the maintainer makes of a LOST refresh.
AcquiredHeartbeat == 0
ProofHeartbeat == 0
AfterLost == "stopping"

\* ACQUIRED_NEW, REFRESHED_SELF or TAKEN_OVER; HELD_BY_OTHER leaves the
\* process in standby.  Authority is followed by the initial reconciliation.
acquire_worker_lease(w) ==
    /\ proc[w] = "standby"
    /\ owner \in {None, w} \/ HeartbeatStale
    /\ owner' = w
    /\ hbAge' = AcquiredHeartbeat
    /\ proc' = [proc EXCEPT ![w] = "reconciling"]
    /\ UNCHANGED <<maint, effect>>

\* The maintainer's conditional refresh: RETAINED goes on to the inline
\* reconciliation, LOST sets stop_event so that the work loop winds down.
refresh_worker_lease(w) ==
    /\ proc[w] = "leading"
    /\ maint[w] = "cycle"
    /\ IF owner = w
         THEN /\ hbAge' = 0
              /\ maint' = [maint EXCEPT ![w] = "driving"]
              /\ UNCHANGED proc
         ELSE /\ proc' = [proc EXCEPT ![w] = AfterLost]
              /\ UNCHANGED <<hbAge, maint>>
    /\ UNCHANGED <<owner, effect>>

\* The retaining authority proof taken immediately before an external effect.
\* A worker that no longer owns the lease gets LEASE_LOST; one that does has
\* its heartbeat renewed also when the generation row then refuses the effect
\* (not owned, terminal: see GenerationStore).
verify_execution_authority(w, t) ==
    /\ Executing(w, t)
    /\ effect[w][t] = None
    /\ owner = w
    /\ hbAge' = ProofHeartbeat
    /\ effect' = [effect EXCEPT ![w][t] = 0] \/ UNCHANGED effect
    /\ UNCHANGED <<owner, proc, maint>>

-----------------------------------------------------------------------------
(* The process around the lease. *)

\* The external call is made (or the frame gave up): the proof is spent.
ExternalEffect(w, t) ==
    /\ Executing(w, t)
    /\ effect[w][t] # None
    /\ effect' = [effect EXCEPT ![w][t] = None]
    /\ UNCHANGED <<owner, hbAge, proc, maint>>

\* The initial reconciliation of run_worker ends: the two tasks start.
InitialReconcileReturns(w) ==
    /\ proc[w] = "reconciling"
    /\ effect[w]["maint"] = None
    /\ proc' = [proc EXCEPT ![w] = "leading"]
    /\ UNCHANGED <<owner, hbAge, maint, effect>>

\* An inline reconciliation of the maintainer returns: next cycle.
MaintainerReconcileReturns(w) ==
    /\ Running(w)
    /\ maint[w] = "driving"
    /\ effect[w]["maint"] = None
    /\ maint' = [maint EXCEPT ![w] = "cycle"]
    /\ UNCHANGED <<owner, hbAge, proc, effect>>

\* A drive raises.  In the initial reconciliation that ends the process
\* (exit code FATAL); in the maintainer it ends the maintainer TASK only:
\* nobody awaits it before the work loop returns, and stop_event is not set.
ReconcileRaises(w) ==
    /\ effect[w]["maint"] = None
    /\ \/ /\ proc[w] = "reconciling"
          /\ proc' = [proc EXCEPT ![w] = "stopped"]
          /\ UNCHANGED maint
       \/ /\ Running(w)
          /\ maint[w] = "driving"
          /\ maint' = [maint EXCEPT ![w] = "died"]
          /\ UNCHANGED proc
    /\ UNCHANGED <<owner, hbAge, effect>>

\* SIGINT / SIGTERM set stop_event: a standby process leaves its loop, a
\* leading one finishes the drive its work loop is in.  A signal that falls
\* into the initial reconciliation is seen when that ends.  The row is kept.
StopRequested(w) ==
    /\ proc[w] \in {"standby", "leading"}
    /\ proc' = [proc EXCEPT ![w] = IF @ = "leading" THEN "stopping" ELSE "stopped"]
    /\ UNCHANGED <<owner, hbAge, maint, effect>>

\* The work loop has returned; the maintainer is cancelled and run_worker ends.
Exit(w) ==
    /\ proc[w] = "stopping"
    /\ effect[w]["work"] = None
    /\ proc' = [proc EXCEPT ![w] = "stopped"]
    /\ effect' = [effect EXCEPT ![w] = [t \in Tasks |-> None]]
    /\ UNCHANGED <<owner, hbAge, maint>>

\* Kill -9, power loss.
Crash(w) ==
    /\ proc[w] # "stopped"
    /\ proc' = [proc EXCEPT ![w] = "stopped"]
    /\ effect' = [effect EXCEPT ![w] = [t \in Tasks |-> None]]
    /\ UNCHANGED <<owner, hbAge, maint>>

\* Database time moves on.
Tick ==
    /\ hbAge' = Older(hbAge)
    /\ effect' = [w \in Workers |-> [t \in Tasks |->
                    IF effect[w][t] = None THEN None ELSE Older(effect[w][t])]]
    /\ UNCHANGED <<owner, proc, maint>>

ProcessStep(w) ==
    \/ acquire_worker_lease(w)
    \/ refresh_worker_lease(w)
    \/ \E t \in Tasks : verify_execution_authority(w, t) \/ ExternalEffect(w, t)
    \/ InitialReconcileReturns(w)
    \/ MaintainerReconcileReturns(w)
    \/ ReconcileRaises(w)
    \/ StopRequested(w)
    \/ Exit(w)
    \/ Crash(w)

Next == Tick \/ \E w \in Workers : ProcessStep(w)

\* A running process keeps taking the steps that end what it is doing: a
\* standby process polls, a maintainer cycles, an external call returns or
\* times out (httpx timeout), a drive returns or raises.  Signals and crashes
\* are never owed.
Fairness ==
    /\ WF_vars(Tick)
    /\ \A w \in Workers :
         /\ WF_vars(acquire_worker_lease(w))
         /\ WF_vars(refresh_worker_lease(w))
         /\ \A t \in Tasks : WF_vars(ExternalEffect(w, t))
         /\ SF_vars(InitialReconcileReturns(w) \/ MaintainerReconcileReturns(w)
                      \/ ReconcileRaises(w))
         /\ SF_vars(Exit(w))

Spec == Init /\ [][Next]_vars
FairSpec == Spec /\ Fairness

-----------------------------------------------------------------------------
(* Properties. *)

\* The claim of verify_execution_authority: while its proof is at most Ttl
\* old, whatever any other process does, the caller still owns the lease when
\* its external effect lands.
RetainedAuthority ==
    \A w \in Workers, t \in Tasks :
        effect[w][t] # None /\ effect[w][t] <= Ttl => owner = w

\* A process that was deauthorised never becomes the authority again: it
\* acquires once, and a lost lease leads to exit, never back to standby.
Deauthorised(w) == proc[w] # "standby" /\ owner # w
NoResurrection == \A w \in Workers : [](Deauthorised(w) => []Deauthorised(w))

\* The lease never blocks the system on a corpse: once the owner's process
\* is gone, a process that keeps standing by sees a live owner.
LiveOwner == owner # None /\ proc[owner] # "stopped"
SuccessorTakesOver ==
    \A w \in Workers : proc[w] = "standby" ~> LiveOwner \/ proc[w] # "standby"

\* A process that lost the lease winds down, unless its maintainer died.
LoserStops ==
    \A w \in Workers :
        proc[w] = "leading" /\ owner # w
          ~> proc[w] = "stopped" \/ maint[w] = "died"
=============================================================================
