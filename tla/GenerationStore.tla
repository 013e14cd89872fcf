---------------------------- MODULE GenerationStore ----------------------------
(***************************************************************************)
(* The durable generation rows and every transaction on them: creation and *)
(* exact rerun (generation/), the fenced worker mutations                  *)
(* (worker/ownership.py), the one-shot submission authority                *)
(* (worker/submission_state.py), output publication (generation/importer)  *)
(* and the cancellation endpoint (api/generations.py).                     *)
(*                                                                         *)
(* Each operation is one BEGIN IMMEDIATE transaction of the code, hence    *)
(* one action; a refused transaction changes nothing.  Next is the most    *)
(* general client: any worker may call any operation at any moment, so     *)
(* what holds here holds for every worker program, however it interleaves. *)
(* The lease changes hands at arbitrary moments; WorkerLease says when.    *)
(***************************************************************************)
EXTENDS Integers

CONSTANTS
    Workers,   \* worker process incarnations
    Gens,      \* generation rows, numbered in queued_at order
    Jobs,      \* executor job ids (fake job ids, Comfy prompt ids)
    Keys,      \* output keys the captured contract declares
    Legacy,    \* rows written before attempts existed
    None

ASSUME StoreAssumption ==
    /\ Gens \subseteq Nat
    /\ Legacy \subseteq Gens
    /\ None \notin Workers \cup Jobs
    /\ None \notin Nat

VARIABLES
    lease,     \* worker_leases.worker_id
    gen,       \* the generations table
    takes,     \* takes[g]: output keys of the Takes of g
    minted,    \* attempt ids handed out so far (uuid4: never repeated)
    permits,   \* auxiliary: MAY_POST answers given for g
    unsent     \* auxiliary: rows the API cancelled as never submitted

storeVars == <<lease, gen, takes, minted, permits, unsent>>

Terminal == {"succeeded", "failed", "interrupted", "cancelled"}
InFlight == {"preparing", "submitted", "running", "importing"}
Statuses == {"absent", "queued"} \cup InFlight \cup Terminal
SubmissionStates == {"not_started", "submission_possible", "confirmed", "uncertain"}
Executors == {"fake", "comfy"}
Column == {"null", "set"}   \* a nullable column whose value does not matter

Row == [status    : Statuses,
        executor  : Executors,
        worker    : Workers \cup {None},
        attempt   : Nat \cup {None},
        sub       : SubmissionStates,   \* executor_submission_state
        artifact  : Column,             \* executor_submission_json
        job       : Jobs \cup {None},   \* executor_job_id and handle, set together
        cancel    : Column,             \* cancel_requested_at
        soft      : Column]             \* soft_cancel_selected_at

\* Mutant: the insert leaves executor_submission_state NULL.
RowWithoutState(s, e) ==
    [status |-> s, executor |-> e, worker |-> None, attempt |-> None,
     sub |-> None, artifact |-> "null", job |-> None,
     cancel |-> "null", soft |-> "null"]

\* The total fresh initialisation of execute_fresh_generation_insert.
FreshRow(s, e) ==
    [status |-> s, executor |-> e, worker |-> None, attempt |-> None,
     sub |-> "not_started", artifact |-> "null", job |-> None,
     cancel |-> "null", soft |-> "null"]

TypeOK ==
    /\ lease \in Workers \cup {None}
    /\ gen \in [Gens -> Row]
    /\ takes \in [Gens -> SUBSET Keys]
    /\ minted \in Nat
    /\ permits \in [Gens -> Nat]
    /\ unsent \in SUBSET Gens

\* A row of a release that had no attempt ids, left in flight by a worker that
\* is gone: preparing before its handle was persisted, any status after.
LegacyRow(s, j) == [FreshRow(s, "fake") EXCEPT !.job = j]

Init ==
    /\ lease = None
    /\ \E s \in InFlight, j \in Jobs \cup {None} :
         /\ j = None => s = "preparing"
         /\ gen = [g \in Gens |-> IF g \in Legacy THEN LegacyRow(s, j)
                                  ELSE FreshRow("absent", "fake")]
    /\ takes = [g \in Gens |-> {}]
    /\ minted = 0
    /\ permits = [g \in Gens |-> 0]
    /\ unsent = {}

-----------------------------------------------------------------------------
(* Mutants of the checks below: a fence that forgets terminal rows; a      *)
(* permit for any attempt not yet confirmed; a requeue, and a cancellation *)
(* that look at the handle only; a confirmation that replaces a handle; an *)
(* insert without a submission state.                                      *)

FenceWithoutTerminal(w, g) == lease = w /\ gen[g].worker = w
PermitUntilConfirmed(g) == gen[g].sub \in {"not_started", "submission_possible"}
ByHandleOnly(g) == gen[g].status = "preparing" /\ gen[g].job = None
ConfirmAnyState(g) == gen[g].sub # "not_started"

\* _fenced_generation_mutation with require_active: lease held, row owned and
\* not terminal, all inside the transaction of the mutation.
Fenced(w, g) ==
    /\ lease = w
    /\ gen[g].worker = w
    /\ gen[g].status \in {"queued"} \cup InFlight

\* The submission transactions also compare the attempt.
FencedAttempt(w, g, a) == Fenced(w, g) /\ gen[g].attempt = a

\* mark_submission_possible answers MAY_POST only to a not_started attempt
\* and REDISCOVER_ONLY to every other.
PermitAvailable(g) == gen[g].sub = "not_started"

\* confirm_owned_submission and mark_submission_uncertain: one way out.
SubmissionOpen(g) == gen[g].sub = "submission_possible"

\* select_owned_soft_cancel raises without the persisted intent.
SoftCancelAllowed(g) == gen[g].cancel = "set"

\* requeue_stale_preparing_generation: no attempt and no handle.
Requeueable(g) ==
    gen[g].status = "preparing" /\ gen[g].attempt = None /\ gen[g].job = None

\* cancel_generation: nothing can have reached an executor.
DefinitelyUnsubmitted(g) ==
    gen[g].status = "preparing" /\ gen[g].job = None /\ gen[g].sub = "not_started"

-----------------------------------------------------------------------------
(* Creation. *)

Oldest(g, S) == g \in S /\ \A h \in S : g <= h
Absent == {g \in Gens : gen[g].status = "absent"}

NewRow(g, e) ==
    /\ Oldest(g, Absent)
    /\ gen' = [gen EXCEPT ![g] = FreshRow("queued", e)]
    /\ UNCHANGED <<lease, takes, minted, permits, unsent>>

create_generation(g, e) == NewRow(g, e)

\* An exact rerun copies the captured specification of a terminal source,
\* its executor included, and none of its execution state.
create_rerun(src, g) == gen[src].status \in Terminal /\ NewRow(g, gen[src].executor)

-----------------------------------------------------------------------------
(* Worker transactions. *)

\* The outcome of acquire_worker_lease seen from the rows.
acquire_worker_lease(w) ==
    /\ lease' = w
    /\ UNCHANGED <<gen, takes, minted, permits, unsent>>

Claimable == {g \in Gens : gen[g].status = "queued" /\ gen[g].sub = "not_started"}

claim_next_generation(w, g) ==
    /\ lease = w
    /\ Oldest(g, Claimable)
    /\ minted' = minted + 1
    /\ gen' = [gen EXCEPT ![g] = [@ EXCEPT !.status = "preparing", !.worker = w,
                                           !.attempt = minted + 1]]
    /\ UNCHANGED <<lease, takes, permits, unsent>>

\* Lifecycle transitions name a target only; the source status is whatever
\* the row holds.
transition_owned_generation(w, g, s) ==
    /\ Fenced(w, g)
    /\ gen' = [gen EXCEPT ![g].status = s]
    /\ UNCHANGED <<lease, takes, minted, permits, unsent>>

persist_owned_executor_handle(w, g, j) ==
    /\ Fenced(w, g)
    /\ gen' = [gen EXCEPT ![g].job = j]
    /\ UNCHANGED <<lease, takes, minted, permits, unsent>>

requeue_stale_preparing_generation(w, g) ==
    /\ lease = w
    /\ Requeueable(g)
    /\ gen' = [gen EXCEPT ![g] = [@ EXCEPT !.status = "queued", !.worker = None,
                                           !.sub = "not_started"]]
    /\ UNCHANGED <<lease, takes, minted, permits, unsent>>

\* Rows come from the scan of find_stale_active_generations, hence in flight;
\* staleness is not rechecked and a row already owned is left alone.
adopt_stale_generation(w, g) ==
    /\ lease = w
    /\ gen[g].status \in InFlight
    /\ gen' = [gen EXCEPT ![g].worker = w]
    /\ UNCHANGED <<lease, takes, minted, permits, unsent>>

persist_owned_executor_submission(w, g, a) ==
    /\ FencedAttempt(w, g, a)
    /\ gen[g].sub = "not_started"
    /\ gen[g].job = None
    /\ gen' = [gen EXCEPT ![g].artifact = "set"]
    /\ UNCHANGED <<lease, takes, minted, permits, unsent>>

mark_submission_possible(w, g, a) ==
    /\ FencedAttempt(w, g, a)
    /\ PermitAvailable(g)
    /\ gen[g].artifact = "set"
    /\ gen' = [gen EXCEPT ![g].sub = "submission_possible"]
    /\ permits' = [permits EXCEPT ![g] = @ + 1]
    /\ UNCHANGED <<lease, takes, minted, unsent>>

confirm_owned_submission(w, g, a, j) ==
    /\ FencedAttempt(w, g, a)
    /\ SubmissionOpen(g)
    /\ gen' = [gen EXCEPT ![g] = [@ EXCEPT !.sub = "confirmed", !.job = j]]
    /\ UNCHANGED <<lease, takes, minted, permits, unsent>>

mark_submission_uncertain(w, g, a) ==
    /\ FencedAttempt(w, g, a)
    /\ SubmissionOpen(g)
    /\ gen' = [gen EXCEPT ![g].sub = "uncertain"]
    /\ UNCHANGED <<lease, takes, minted, permits, unsent>>

\* Re-selection is idempotent.
select_owned_soft_cancel(w, g) ==
    /\ Fenced(w, g)
    /\ SoftCancelAllowed(g)
    /\ gen' = [gen EXCEPT ![g].soft = "set"]
    /\ UNCHANGED <<lease, takes, minted, permits, unsent>>

\* One publication transaction of import_staged_outputs: the full fence of
\* _verify_publication_fenced, then Blob row, Take and Asset together; a
\* (generation, output_key) that exists is left as it is.
publish_output(w, g, a, k) ==
    /\ FencedAttempt(w, g, a)
    /\ gen[g].status = "importing"
    /\ takes' = [takes EXCEPT ![g] = @ \cup {k}]
    /\ UNCHANGED <<lease, gen, minted, permits, unsent>>

-----------------------------------------------------------------------------
(* The cancellation endpoint. *)

\* queued, or preparing and definitely unsubmitted: cancelled on the spot.
cancel_unsubmitted(g) ==
    /\ gen[g].status = "queued" \/ DefinitelyUnsubmitted(g)
    /\ gen' = [gen EXCEPT ![g].status = "cancelled"]
    /\ unsent' = unsent \cup {g}
    /\ UNCHANGED <<lease, takes, minted, permits>>

\* Otherwise the intent is persisted for the owner; importing and terminal
\* rows answer 409.
request_cancel(g) ==
    /\ gen[g].status \in {"preparing", "submitted", "running"}
    /\ ~DefinitelyUnsubmitted(g)
    /\ gen' = [gen EXCEPT ![g].cancel = "set"]
    /\ UNCHANGED <<lease, takes, minted, permits, unsent>>

cancel_generation(g) == cancel_unsubmitted(g) \/ request_cancel(g)

-----------------------------------------------------------------------------
(* The most general client.  The fake drive persists handles, the Comfy    *)
(* drive runs the submission protocol; both make lifecycle transitions,    *)
(* whose targets are never queued or preparing.                            *)

FakeCall(w, g) ==
    /\ gen[g].executor = "fake"
    /\ \E j \in Jobs : persist_owned_executor_handle(w, g, j)

ComfyCall(w, g) ==
    /\ gen[g].executor = "comfy"
    /\ \/ select_owned_soft_cancel(w, g)
       \/ \E a \in 1 .. minted :
            \/ persist_owned_executor_submission(w, g, a)
            \/ mark_submission_possible(w, g, a)
            \/ \E j \in Jobs : confirm_owned_submission(w, g, a, j)
            \/ mark_submission_uncertain(w, g, a)

WorkerCall(w, g) ==
    \/ claim_next_generation(w, g)
    \/ \E s \in (InFlight \ {"preparing"}) \cup Terminal :
         transition_owned_generation(w, g, s)
    \/ requeue_stale_preparing_generation(w, g)
    \/ adopt_stale_generation(w, g)
    \/ \E a \in 1 .. minted, k \in Keys : publish_output(w, g, a, k)
    \/ FakeCall(w, g)
    \/ ComfyCall(w, g)

ApiCall(g) ==
    \/ \E e \in Executors : create_generation(g, e)
    \/ \E src \in Gens : create_rerun(src, g)
    \/ cancel_generation(g)

Next ==
    \/ \E w \in Workers : acquire_worker_lease(w)
    \/ \E w \in Workers, g \in Gens : WorkerCall(w, g)
    \/ \E g \in Gens : ApiCall(g)

Spec == Init /\ [][Next]_storeVars

-----------------------------------------------------------------------------
(* Properties. *)

\* At most one frame ever holds permission to POST a generation, whatever
\* workers adopt it: the permit is the not_started -> submission_possible
\* commit, and nothing brings a row that had one back to not_started.
OneShotPermit ==
    \A g \in Gens :
        /\ permits[g] <= 1
        /\ permits[g] = 0 <=> gen[g].sub = "not_started"

\* A queued row is always claimable: claim_next_generation never has a
\* corrupt row to skip, because requeue refuses rows with an attempt.
QueuedIsFresh ==
    \A g \in Gens : gen[g].status = "queued" =>
        gen[g].sub = "not_started" /\ gen[g].job = None /\ permits[g] = 0

\* What the API cancelled on the spot was never allowed to be submitted, and
\* stays so: no permit for it, now or later, no job handle, no Take.
CancelledUnsubmitted ==
    \A g \in unsent :
        gen[g].status = "cancelled" /\ permits[g] = 0 /\ gen[g].job = None

\* The CHECK constraints of table generations never have to fire.
ChecksHold ==
    \A g \in Gens :
        /\ gen[g].sub = "submission_possible" => gen[g].attempt # None
        /\ gen[g].sub = "confirmed" => gen[g].job # None
        /\ gen[g].soft = "set" => gen[g].cancel = "set"

\* A terminal generation is history: no operation of any worker, late or
\* current, and no API call changes its row or adds a Take to it.
TerminalIsFinal ==
    [][\A g \in Gens : gen[g].status \in Terminal =>
         gen'[g] = gen[g] /\ takes'[g] = takes[g] /\ permits'[g] = permits[g]]_storeVars

\* A confirmed Comfy handle is never replaced, and an uncertain attempt is
\* never submitted or confirmed later.
SubmissionResolvedOnce ==
    [][\A g \in Gens : gen[g].sub \in {"confirmed", "uncertain"} =>
         gen'[g].sub = gen[g].sub /\ gen'[g].job = gen[g].job]_storeVars
=============================================================================
