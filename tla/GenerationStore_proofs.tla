------------------------ MODULE GenerationStore_proofs ------------------------
(***************************************************************************)
(* Proofs about GenerationStore for every set of workers, rows, jobs and   *)
(* output keys.  The inductive invariant ties the submission state of a    *)
(* row to the permits given for it, to its attempt and to its executor.    *)
(***************************************************************************)
EXTENDS GenerationStore, TLAPS

\* One row's part of the inductive invariant: a row that never had an attempt
\* or that the fake executor runs never left not_started; a row in the queue
\* has no owner, no attempt and no handle; the CHECK constraints hold; an
\* attempt was minted, and a Comfy row in flight has one; a Comfy row has a
\* handle only from its confirmation.
RowOK(g) ==
    /\ permits[g] <= 1
    /\ permits[g] = 0 <=> gen[g].sub = "not_started"
    /\ gen[g].attempt = None => gen[g].sub = "not_started"
    /\ gen[g].executor = "fake" => gen[g].sub = "not_started"
    /\ gen[g].status \in {"absent", "queued"} =>
         gen[g].worker = None /\ gen[g].attempt = None /\ gen[g].job = None
    /\ gen[g].sub = "confirmed" => gen[g].job # None
    /\ gen[g].soft = "set" => gen[g].cancel = "set"
    /\ g \in unsent =>
         gen[g].status = "cancelled" /\ permits[g] = 0 /\ gen[g].job = None
    /\ gen[g].attempt # None => gen[g].attempt \in 1 .. minted
    /\ gen[g].executor = "comfy" =>
         /\ gen[g].status \in InFlight => gen[g].attempt # None
         /\ gen[g].job # None => gen[g].sub = "confirmed"

StoreInv == TypeOK /\ \A g \in Gens : RowOK(g)

USE StoreAssumption

\* The initial database satisfies the invariant.
LEMMA InitStoreInv == Init => StoreInv
<1> SUFFICES ASSUME Init PROVE StoreInv
  OBVIOUS
<1>1. PICK s \in InFlight, j \in Jobs \cup {None} :
        gen = [g \in Gens |-> IF g \in Legacy THEN LegacyRow(s, j)
                             ELSE FreshRow("absent", "fake")]
  BY DEF Init
<1> USE DEF Init, LegacyRow, FreshRow, InFlight
<1>2. TypeOK
  BY <1>1 DEF TypeOK, Row, Statuses, Terminal, SubmissionStates, Executors, Column
<1>3. ASSUME NEW g \in Gens PROVE RowOK(g)
  BY <1>1 DEF RowOK
<1> QED
  BY <1>2, <1>3 DEF StoreInv

\* Replacing one row by a well-formed row keeps the table well formed.
LEMMA TableUpdate ==
    ASSUME gen \in [Gens -> Row], NEW g \in Gens, NEW r \in Row,
           gen' = [gen EXCEPT ![g] = r]
    PROVE  gen' \in [Gens -> Row]
OBVIOUS

\* The updates that write several columns at once: a claimed row is a row.
LEMMA ClaimedRow ==
    ASSUME NEW r \in Row, NEW s \in Statuses, NEW w \in Workers \cup {None},
           NEW a \in Nat
    PROVE  [r EXCEPT !.status = s, !.worker = w, !.attempt = a] \in Row
BY DEF Row

\* A requeued row is a row.
LEMMA RequeuedRow ==
    ASSUME NEW r \in Row, NEW s \in Statuses, NEW t \in SubmissionStates
    PROVE  [r EXCEPT !.status = s, !.worker = None, !.sub = t] \in Row
BY DEF Row

\* A confirmed row is a row.
LEMMA ConfirmedRow ==
    ASSUME NEW r \in Row, NEW t \in SubmissionStates, NEW j \in Jobs
    PROVE  [r EXCEPT !.sub = t, !.job = j] \in Row
BY DEF Row

\* Every operation, whoever calls it, preserves the type of the tables.
LEMMA NextTypeOK == TypeOK /\ [Next]_storeVars => TypeOK'
<1> SUFFICES ASSUME TypeOK, [Next]_storeVars PROVE TypeOK'
  OBVIOUS
<1> USE DEF TypeOK, Row, Statuses, InFlight, Terminal, SubmissionStates, Executors,
           Column
<1>1. CASE UNCHANGED storeVars
  BY <1>1 DEF storeVars
<1>2. ASSUME NEW w \in Workers, acquire_worker_lease(w) PROVE TypeOK'
  BY <1>2 DEF acquire_worker_lease
<1>3. ASSUME NEW w \in Workers, NEW g \in Gens, WorkerCall(w, g) PROVE TypeOK'
  <2>1. CASE claim_next_generation(w, g)
    <3>1. gen[g] \in Row /\ minted + 1 \in Nat
      OBVIOUS
    <3>2. [gen[g] EXCEPT !.status = "preparing", !.worker = w,
                         !.attempt = minted + 1] \in Row
      BY <3>1, ClaimedRow, ZenonT(40)
    <3>3. gen' \in [Gens -> Row]
      BY <2>1, <3>2, TableUpdate DEF claim_next_generation
    <3> QED
      BY <2>1, <3>1, <3>3 DEF claim_next_generation
  <2>2. ASSUME NEW s \in (InFlight \ {"preparing"}) \cup Terminal,
               transition_owned_generation(w, g, s)
        PROVE TypeOK'
    BY <2>2 DEF transition_owned_generation
  <2>3. CASE requeue_stale_preparing_generation(w, g)
    <3> HIDE DEF Row
    <3>1. gen[g] \in Row /\ "queued" \in Statuses /\ "not_started" \in SubmissionStates
      OBVIOUS
    <3>2. [gen[g] EXCEPT !.status = "queued", !.worker = None,
                         !.sub = "not_started"] \in Row
      BY <3>1, RequeuedRow
    <3>3. gen' \in [Gens -> Row]
      BY <2>3, <3>2, TableUpdate DEF requeue_stale_preparing_generation
    <3> QED
      BY <2>3, <3>3 DEF requeue_stale_preparing_generation
  <2>4. CASE adopt_stale_generation(w, g)
    BY <2>4, SMTT(30) DEF adopt_stale_generation
  <2>5. ASSUME NEW a \in 1 .. minted, NEW k \in Keys, publish_output(w, g, a, k)
        PROVE TypeOK'
    BY <2>5 DEF publish_output
  <2>6. CASE FakeCall(w, g)
    BY <2>6 DEF FakeCall, persist_owned_executor_handle
  <2>7. CASE ComfyCall(w, g)
    <3>1. CASE select_owned_soft_cancel(w, g)
      BY <3>1 DEF select_owned_soft_cancel
    <3>2. ASSUME NEW a \in 1 .. minted, persist_owned_executor_submission(w, g, a)
          PROVE TypeOK'
      BY <3>2, SMTT(30) DEF persist_owned_executor_submission
    <3>3. ASSUME NEW a \in 1 .. minted, mark_submission_possible(w, g, a)
          PROVE TypeOK'
      <4>1. gen' \in [Gens -> Row]
        BY <3>3, SMTT(30) DEF mark_submission_possible
      <4>2. permits' \in [Gens -> Nat]
        BY <3>3 DEF mark_submission_possible
      <4> QED
        BY <3>3, <4>1, <4>2 DEF mark_submission_possible
    <3>4. ASSUME NEW a \in 1 .. minted, NEW j \in Jobs,
                 confirm_owned_submission(w, g, a, j)
          PROVE TypeOK'
      <4> HIDE DEF Row
      <4>1. gen[g] \in Row /\ "confirmed" \in SubmissionStates
        OBVIOUS
      <4>2. [gen[g] EXCEPT !.sub = "confirmed", !.job = j] \in Row
        BY <4>1, ConfirmedRow
      <4>3. gen' \in [Gens -> Row]
        BY <3>4, <4>2, TableUpdate DEF confirm_owned_submission
      <4> QED
        BY <3>4, <4>3 DEF confirm_owned_submission
    <3>5. ASSUME NEW a \in 1 .. minted, mark_submission_uncertain(w, g, a)
          PROVE TypeOK'
      BY <3>5 DEF mark_submission_uncertain
    <3> QED
      BY <2>7, <3>1, <3>2, <3>3, <3>4, <3>5 DEF ComfyCall
  <2> QED
    BY <1>3, <2>1, <2>2, <2>3, <2>4, <2>5, <2>6, <2>7 DEF WorkerCall
<1>4. ASSUME NEW g \in Gens, ApiCall(g) PROVE TypeOK'
  <2>1. ASSUME NEW e \in Executors, NewRow(g, e) PROVE TypeOK'
    BY <2>1 DEF NewRow, FreshRow
  <2>2. ASSUME NEW src \in Gens, create_rerun(src, g) PROVE TypeOK'
    BY <2>1, <2>2 DEF create_rerun
  <2>3. CASE cancel_generation(g)
    BY <2>3 DEF cancel_generation, cancel_unsubmitted, request_cancel
  <2> QED
    BY <1>4, <2>1, <2>2, <2>3 DEF ApiCall, create_generation
<1> QED
  BY <1>1, <1>2, <1>3, <1>4 DEF Next

\* Every operation preserves the inductive invariant of every row.
LEMMA NextRowOK ==
    ASSUME StoreInv, [Next]_storeVars, NEW h \in Gens
    PROVE  RowOK(h)'
<1> USE DEF StoreInv, RowOK
<1>1. TypeOK /\ RowOK(h)
  OBVIOUS
<1>t. gen \in [Gens -> Row] /\ permits \in [Gens -> Nat] /\ minted \in Nat
  BY <1>1 DEF TypeOK
<1>2. CASE UNCHANGED storeVars
  BY <1>1, <1>2 DEF storeVars
<1>3. ASSUME NEW w \in Workers, acquire_worker_lease(w) PROVE RowOK(h)'
  BY <1>1, <1>3 DEF acquire_worker_lease
<1>4. ASSUME NEW w \in Workers, NEW g \in Gens, WorkerCall(w, g) PROVE RowOK(h)'
  <2>t. gen[g] \in Row /\ RowOK(g)
    BY <1>t
  <2>1. CASE claim_next_generation(w, g)
    <3>1. minted + 1 # None /\ minted + 1 \in 1 .. minted + 1
      BY <1>t
    <3>2. CASE h = g
      <4>1. /\ gen'[h] = [gen[h] EXCEPT !.status = "preparing", !.worker = w,
                                        !.attempt = minted + 1]
            /\ minted' = minted + 1 /\ permits' = permits /\ unsent' = unsent
            /\ gen[h].status = "queued" /\ gen[h].sub = "not_started"
        BY <1>t, <2>1, <3>2 DEF claim_next_generation, Oldest, Claimable
      <4> QED
        BY <1>1, <1>t, <3>1, <4>1 DEF Row, InFlight
    <3>3. CASE h # g
      <4>1. /\ gen'[h] = gen[h] /\ minted' = minted + 1
            /\ permits' = permits /\ unsent' = unsent
        BY <1>t, <2>1, <3>3 DEF claim_next_generation
      <4> QED
        BY <1>1, <1>t, <4>1
    <3> QED
      BY <3>2, <3>3
  <2>2. ASSUME NEW s \in (InFlight \ {"preparing"}) \cup Terminal,
               transition_owned_generation(w, g, s)
        PROVE RowOK(h)'
    BY <1>1, <1>t, <2>t, <2>2
    DEF transition_owned_generation, Fenced, InFlight, Terminal, Row
  <2>3. CASE requeue_stale_preparing_generation(w, g)
    BY <1>1, <1>t, <2>t, <2>3 
    DEF requeue_stale_preparing_generation, Requeueable, InFlight, Row
  <2>4. CASE adopt_stale_generation(w, g)
    BY <1>1, <1>t, <2>t, <2>4 DEF adopt_stale_generation, InFlight, Row
  <2>5. ASSUME NEW a \in 1 .. minted, NEW k \in Keys, publish_output(w, g, a, k)
        PROVE RowOK(h)'
    BY <1>1, <2>5 DEF publish_output
  <2>6. ASSUME NEW j \in Jobs, gen[g].executor = "fake",
               persist_owned_executor_handle(w, g, j)
        PROVE RowOK(h)'
    BY <1>1, <1>t, <2>t, <2>6 DEF persist_owned_executor_handle, Fenced, InFlight, Row
  <2>7. CASE ComfyCall(w, g)
    <3>1. CASE select_owned_soft_cancel(w, g)
      BY <1>1, <1>t, <2>t, <3>1 DEF select_owned_soft_cancel, SoftCancelAllowed, Row
    <3>2. ASSUME NEW a \in 1 .. minted, persist_owned_executor_submission(w, g, a)
          PROVE RowOK(h)'
      BY <1>1, <1>t, <2>t, <3>2 DEF persist_owned_executor_submission, Row
    <3>3. ASSUME gen[g].executor = "comfy", NEW a \in 1 .. minted,
                 mark_submission_possible(w, g, a)
          PROVE RowOK(h)'
      BY <1>1, <1>t, <2>t, <3>3
      DEF mark_submission_possible, FencedAttempt, Fenced, PermitAvailable, InFlight, Row
    <3>4. ASSUME gen[g].executor = "comfy", NEW a \in 1 .. minted, NEW j \in Jobs,
                 confirm_owned_submission(w, g, a, j)
          PROVE RowOK(h)'
      BY <1>1, <1>t, <2>t, <3>4
      DEF confirm_owned_submission, FencedAttempt, Fenced, SubmissionOpen, InFlight, Row
    <3>5. ASSUME gen[g].executor = "comfy", NEW a \in 1 .. minted,
                 mark_submission_uncertain(w, g, a)
          PROVE RowOK(h)'
      BY <1>1, <1>t, <2>t, <3>5
      DEF mark_submission_uncertain, FencedAttempt, Fenced, SubmissionOpen, InFlight, Row
    <3> QED
      BY <2>7, <3>1, <3>2, <3>3, <3>4, <3>5 DEF ComfyCall
  <2> QED
    BY <1>4, <2>1, <2>2, <2>3, <2>4, <2>5, <2>6, <2>7 DEF WorkerCall, FakeCall
<1>5. ASSUME NEW g \in Gens, ApiCall(g) PROVE RowOK(h)'
  <2>t. gen[g] \in Row /\ RowOK(g)
    BY <1>t
  <2>1. ASSUME NEW e \in Executors, NewRow(g, e) PROVE RowOK(h)'
    BY <1>1, <1>t, <2>t, <2>1 DEF NewRow, FreshRow, Oldest, Absent, InFlight
  <2>2. ASSUME NEW src \in Gens, create_rerun(src, g) PROVE RowOK(h)'
    <3>1. gen[src].executor \in Executors
      BY <1>t DEF Row
    <3> QED
      BY <2>1, <2>2, <3>1 DEF create_rerun
  <2>3. CASE cancel_unsubmitted(g)
    BY <1>1, <1>t, <2>t, <2>3
    DEF cancel_unsubmitted, DefinitelyUnsubmitted, InFlight, Row
  <2>4. CASE request_cancel(g)
    BY <1>1, <1>t, <2>t, <2>4 DEF request_cancel, Row
  <2> QED
    BY <1>5, <2>1, <2>2, <2>3, <2>4 DEF ApiCall, create_generation, cancel_generation
<1> QED
  BY <1>2, <1>3, <1>4, <1>5 DEF Next

-----------------------------------------------------------------------------

\* The inductive invariant holds of every reachable database.
THEOREM StoreInvariant == Spec => []StoreInv
<1>1. StoreInv /\ [Next]_storeVars => StoreInv'
  <2> SUFFICES ASSUME StoreInv, [Next]_storeVars PROVE StoreInv'
    OBVIOUS
  <2>1. TypeOK'
    BY NextTypeOK DEF StoreInv
  <2>2. \A h \in Gens : RowOK(h)'
    BY NextRowOK
  <2> QED
    BY <2>1, <2>2 DEF StoreInv
<1> QED
  BY InitStoreInv, <1>1, PTL DEF Spec

\* The tables always hold well-formed rows.
THEOREM StoreTypeCorrect == Spec => []TypeOK
<1>1. StoreInv => TypeOK
  BY DEF StoreInv
<1> QED
  BY StoreInvariant, <1>1, PTL

\* mark_submission_possible gives at most one MAY_POST per generation,
\* whichever workers adopt it.
THEOREM PermitIsOneShot == Spec => []OneShotPermit
<1>1. StoreInv => OneShotPermit
  BY DEF StoreInv, RowOK, OneShotPermit
<1> QED
  BY StoreInvariant, <1>1, PTL

\* requeue and creation only ever put claimable rows in the queue.
THEOREM QueueHoldsFreshRows == Spec => []QueuedIsFresh
<1>1. StoreInv => QueuedIsFresh
  BY DEF StoreInv, RowOK, QueuedIsFresh
<1> QED
  BY StoreInvariant, <1>1, PTL

\* cancel_generation cancels on the spot only what no one may ever submit.
THEOREM ApiCancelIsSafe == Spec => []CancelledUnsubmitted
<1>1. StoreInv => CancelledUnsubmitted
  BY DEF StoreInv, TypeOK, RowOK, CancelledUnsubmitted
<1> QED
  BY StoreInvariant, <1>1, PTL

\* No operation ever runs into a CHECK constraint of table generations.
THEOREM ConstraintsHold == Spec => []ChecksHold
<1>1. StoreInv => ChecksHold
  BY DEF StoreInv, RowOK, ChecksHold
<1> QED
  BY StoreInvariant, <1>1, PTL

\* No operation touches a row once it is terminal.
LEMMA TerminalStep ==
    ASSUME StoreInv, [Next]_storeVars, NEW h \in Gens, gen[h].status \in Terminal
    PROVE  gen'[h] = gen[h] /\ takes'[h] = takes[h] /\ permits'[h] = permits[h]
<1> DEFINE Kept == gen'[h] = gen[h] /\ takes'[h] = takes[h] /\ permits'[h] = permits[h]
<1>t. /\ gen \in [Gens -> Row] /\ takes \in [Gens -> SUBSET Keys]
      /\ permits \in [Gens -> Nat]
  BY DEF StoreInv, TypeOK
<1>1. CASE UNCHANGED storeVars
  BY <1>1 DEF storeVars
<1>2. ASSUME NEW w \in Workers, acquire_worker_lease(w) PROVE Kept
  BY <1>2 DEF acquire_worker_lease
<1>3. ASSUME NEW w \in Workers, NEW g \in Gens, WorkerCall(w, g) PROVE Kept
  <2>1. g # h \/ gen[g].status \notin {"queued"} \cup InFlight
    BY DEF InFlight, Terminal
  <2>2. CASE claim_next_generation(w, g)
    BY <1>t, <2>1, <2>2 DEF claim_next_generation, Oldest, Claimable
  <2>3. ASSUME NEW s \in (InFlight \ {"preparing"}) \cup Terminal,
               transition_owned_generation(w, g, s)
        PROVE Kept
    BY <1>t, <2>1, <2>3 DEF transition_owned_generation, Fenced
  <2>4. CASE requeue_stale_preparing_generation(w, g)
    BY <1>t, <2>1, <2>4
    DEF requeue_stale_preparing_generation, Requeueable, InFlight
  <2>5. CASE adopt_stale_generation(w, g)
    BY <1>t, <2>1, <2>5 DEF adopt_stale_generation
  <2>6. ASSUME NEW a \in 1 .. minted, NEW k \in Keys, publish_output(w, g, a, k)
        PROVE Kept
    BY <1>t, <2>1, <2>6 DEF publish_output, FencedAttempt, Fenced
  <2>7. CASE FakeCall(w, g)
    BY <1>t, <2>1, <2>7 DEF FakeCall, persist_owned_executor_handle, Fenced
  <2>8. CASE ComfyCall(w, g)
    BY <1>t, <2>1, <2>8
    DEF ComfyCall, select_owned_soft_cancel, persist_owned_executor_submission,
        mark_submission_possible, confirm_owned_submission,
        mark_submission_uncertain, FencedAttempt, Fenced
  <2> QED
    BY <1>3, <2>2, <2>3, <2>4, <2>5, <2>6, <2>7, <2>8 DEF WorkerCall
<1>4. ASSUME NEW g \in Gens, ApiCall(g) PROVE Kept
  <2>1. ASSUME NEW e, NewRow(g, e) PROVE Kept
    BY <1>t, <2>1 DEF NewRow, Oldest, Absent, Terminal
  <2>2. CASE cancel_generation(g)
    BY <1>t, <2>2 DEF cancel_generation, cancel_unsubmitted, request_cancel,
                      DefinitelyUnsubmitted, Terminal
  <2> QED
    BY <1>4, <2>1, <2>2 DEF ApiCall, create_generation, create_rerun
<1> QED
  BY <1>1, <1>2, <1>3, <1>4 DEF Next

\* A resolved submission keeps its resolution and its handle.
LEMMA ResolvedStep ==
    ASSUME StoreInv, [Next]_storeVars, NEW h \in Gens,
           gen[h].sub \in {"confirmed", "uncertain"}
    PROVE  gen'[h].sub = gen[h].sub /\ gen'[h].job = gen[h].job
<1> DEFINE Kept == gen'[h].sub = gen[h].sub /\ gen'[h].job = gen[h].job
<1>t. gen \in [Gens -> Row] /\ gen[h] \in Row /\ RowOK(h)
  BY DEF StoreInv, TypeOK
<1>a. /\ gen[h].sub # "not_started" /\ gen[h].sub # "submission_possible"
      /\ gen[h].attempt # None /\ gen[h].executor # "fake"
      /\ gen[h].status \notin {"absent", "queued"}
  BY <1>t DEF RowOK
<1>1. CASE UNCHANGED storeVars
  BY <1>1 DEF storeVars
<1>2. ASSUME NEW w \in Workers, acquire_worker_lease(w) PROVE Kept
  BY <1>2 DEF acquire_worker_lease
<1>3. ASSUME NEW w \in Workers, NEW g \in Gens, WorkerCall(w, g) PROVE Kept
  <2>1. CASE claim_next_generation(w, g)
    BY <1>t, <1>a, <2>1 DEF claim_next_generation, Oldest, Claimable
  <2>2. ASSUME NEW s \in (InFlight \ {"preparing"}) \cup Terminal,
               transition_owned_generation(w, g, s)
        PROVE Kept
    BY <1>t, <2>2 DEF transition_owned_generation, Row
  <2>3. CASE requeue_stale_preparing_generation(w, g)
    BY <1>t, <1>a, <2>3 DEF requeue_stale_preparing_generation, Requeueable
  <2>4. CASE adopt_stale_generation(w, g)
    BY <1>t, <2>4 DEF adopt_stale_generation, Row
  <2>5. ASSUME NEW a \in 1 .. minted, NEW k \in Keys, publish_output(w, g, a, k)
        PROVE Kept
    BY <2>5 DEF publish_output
  <2>6. CASE FakeCall(w, g)
    BY <1>t, <1>a, <2>6 DEF FakeCall, persist_owned_executor_handle
  <2>7. CASE ComfyCall(w, g)
    <3>1. CASE select_owned_soft_cancel(w, g)
      BY <1>t, <3>1 DEF select_owned_soft_cancel, Row
    <3>2. ASSUME NEW a \in 1 .. minted, persist_owned_executor_submission(w, g, a)
          PROVE Kept
      BY <1>t, <1>a, <3>2 DEF persist_owned_executor_submission
    <3>3. ASSUME NEW a \in 1 .. minted, mark_submission_possible(w, g, a)
          PROVE Kept
      BY <1>t, <1>a, <3>3 DEF mark_submission_possible, PermitAvailable
    <3>4. ASSUME NEW a \in 1 .. minted, NEW j \in Jobs,
                 confirm_owned_submission(w, g, a, j)
          PROVE Kept
      BY <1>t, <1>a, <3>4 DEF confirm_owned_submission, SubmissionOpen
    <3>5. ASSUME NEW a \in 1 .. minted, mark_submission_uncertain(w, g, a)
          PROVE Kept
      BY <1>t, <1>a, <3>5 DEF mark_submission_uncertain, SubmissionOpen
    <3> QED
      BY <2>7, <3>1, <3>2, <3>3, <3>4, <3>5 DEF ComfyCall
  <2> QED
    BY <1>3, <2>1, <2>2, <2>3, <2>4, <2>5, <2>6, <2>7 DEF WorkerCall
<1>4. ASSUME NEW g \in Gens, ApiCall(g) PROVE Kept
  <2>1. ASSUME NEW e, NewRow(g, e) PROVE Kept
    BY <1>t, <1>a, <2>1 DEF NewRow, Oldest, Absent
  <2>2. CASE cancel_generation(g)
    BY <1>t, <2>2 DEF cancel_generation, cancel_unsubmitted, request_cancel, Row
  <2> QED
    BY <1>4, <2>1, <2>2 DEF ApiCall, create_generation, create_rerun
<1> QED
  BY <1>1, <1>2, <1>3, <1>4 DEF Next

\* An attempt id, once minted for a row, stays with it, and so does its
\* executor; a submission state that has left not_started never returns to it.
LEMMA AttemptStep ==
    ASSUME StoreInv, [Next]_storeVars, NEW h \in Gens, gen[h].attempt # None
    PROVE  /\ gen'[h].attempt = gen[h].attempt
           /\ gen'[h].executor = gen[h].executor
           /\ gen[h].sub # "not_started" => gen'[h].sub # "not_started"
<1> DEFINE Kept == /\ gen'[h].attempt = gen[h].attempt
                   /\ gen'[h].executor = gen[h].executor
                   /\ gen[h].sub # "not_started" => gen'[h].sub # "not_started"
<1>t. gen \in [Gens -> Row] /\ gen[h] \in Row /\ RowOK(h)
  BY DEF StoreInv, TypeOK
<1>a. gen[h].status \notin {"absent", "queued"}
  BY <1>t DEF RowOK
<1>1. CASE UNCHANGED storeVars
  BY <1>1 DEF storeVars
<1>2. ASSUME NEW w \in Workers, acquire_worker_lease(w) PROVE Kept
  BY <1>2 DEF acquire_worker_lease
<1>3. ASSUME NEW w \in Workers, NEW g \in Gens, WorkerCall(w, g) PROVE Kept
  <2>1. CASE claim_next_generation(w, g)
    BY <1>t, <1>a, <2>1 DEF claim_next_generation, Oldest, Claimable
  <2>2. ASSUME NEW s \in (InFlight \ {"preparing"}) \cup Terminal,
               transition_owned_generation(w, g, s)
        PROVE Kept
    BY <1>t, <2>2 DEF transition_owned_generation, Row
  <2>3. CASE requeue_stale_preparing_generation(w, g)
    BY <1>t, <2>3 DEF requeue_stale_preparing_generation, Requeueable
  <2>4. CASE adopt_stale_generation(w, g)
    BY <1>t, <2>4 DEF adopt_stale_generation, Row
  <2>5. ASSUME NEW a \in 1 .. minted, NEW k \in Keys, publish_output(w, g, a, k)
        PROVE Kept
    BY <2>5 DEF publish_output
  <2>6. CASE FakeCall(w, g)
    BY <1>t, <2>6 DEF FakeCall, persist_owned_executor_handle, Row
  <2>7. CASE ComfyCall(w, g)
    <3>1. CASE select_owned_soft_cancel(w, g)
      BY <1>t, <3>1 DEF select_owned_soft_cancel, Row
    <3>2. ASSUME NEW a \in 1 .. minted, persist_owned_executor_submission(w, g, a)
          PROVE Kept
      BY <1>t, <3>2 DEF persist_owned_executor_submission, Row
    <3>3. ASSUME NEW a \in 1 .. minted, mark_submission_possible(w, g, a)
          PROVE Kept
      BY <1>t, <3>3 DEF mark_submission_possible, Row
    <3>4. ASSUME NEW a \in 1 .. minted, NEW j \in Jobs,
                 confirm_owned_submission(w, g, a, j)
          PROVE Kept
      BY <1>t, <3>4 DEF confirm_owned_submission, Row
    <3>5. ASSUME NEW a \in 1 .. minted, mark_submission_uncertain(w, g, a)
          PROVE Kept
      BY <1>t, <3>5 DEF mark_submission_uncertain, Row
    <3> QED
      BY <2>7, <3>1, <3>2, <3>3, <3>4, <3>5 DEF ComfyCall
  <2> QED
    BY <1>3, <2>1, <2>2, <2>3, <2>4, <2>5, <2>6, <2>7 DEF WorkerCall
<1>4. ASSUME NEW g \in Gens, ApiCall(g) PROVE Kept
  <2>1. ASSUME NEW e, NewRow(g, e) PROVE Kept
    BY <1>t, <1>a, <2>1 DEF NewRow, Oldest, Absent
  <2>2. CASE cancel_generation(g)
    BY <1>t, <2>2 DEF cancel_generation, cancel_unsubmitted, request_cancel, Row
  <2> QED
    BY <1>4, <2>1, <2>2 DEF ApiCall, create_generation, create_rerun
<1> QED
  BY <1>1, <1>2, <1>3, <1>4 DEF Next

\* A row without an attempt that has a handle, one of an older release, never
\* gets an attempt and never loses its handle.
LEMMA HandleStep ==
    ASSUME StoreInv, [Next]_storeVars, NEW h \in Gens,
           gen[h].attempt = None, gen[h].job # None
    PROVE  gen'[h].attempt = None /\ gen'[h].job # None
<1> DEFINE Kept == gen'[h].attempt = None /\ gen'[h].job # None
<1>t. gen \in [Gens -> Row] /\ gen[h] \in Row /\ RowOK(h) /\ minted \in Nat
  BY DEF StoreInv, TypeOK
<1>a. gen[h].status \notin {"absent", "queued"}
  BY <1>t DEF RowOK
<1>1. CASE UNCHANGED storeVars
  BY <1>1 DEF storeVars
<1>2. ASSUME NEW w \in Workers, acquire_worker_lease(w) PROVE Kept
  BY <1>2 DEF acquire_worker_lease
<1>3. ASSUME NEW w \in Workers, NEW g \in Gens, WorkerCall(w, g) PROVE Kept
  <2>1. CASE claim_next_generation(w, g)
    BY <1>t, <1>a, <2>1 DEF claim_next_generation, Oldest, Claimable
  <2>2. ASSUME NEW s \in (InFlight \ {"preparing"}) \cup Terminal,
               transition_owned_generation(w, g, s)
        PROVE Kept
    BY <1>t, <2>2 DEF transition_owned_generation, Row
  <2>3. CASE requeue_stale_preparing_generation(w, g)
    BY <1>t, <2>3 DEF requeue_stale_preparing_generation, Requeueable
  <2>4. CASE adopt_stale_generation(w, g)
    BY <1>t, <2>4 DEF adopt_stale_generation, Row
  <2>5. ASSUME NEW a \in 1 .. minted, NEW k \in Keys, publish_output(w, g, a, k)
        PROVE Kept
    BY <2>5 DEF publish_output
  <2>6. CASE FakeCall(w, g)
    BY <1>t, <2>6 DEF FakeCall, persist_owned_executor_handle, Row
  <2>7. CASE ComfyCall(w, g)
    <3>1. CASE select_owned_soft_cancel(w, g)
      BY <1>t, <3>1 DEF select_owned_soft_cancel, Row
    <3>2. ASSUME NEW a \in 1 .. minted,
                 \/ persist_owned_executor_submission(w, g, a)
                 \/ mark_submission_possible(w, g, a)
                 \/ mark_submission_uncertain(w, g, a)
                 \/ \E j \in Jobs : confirm_owned_submission(w, g, a, j)
          PROVE Kept
      <4>0. gen[g].attempt = a
        BY <3>2 DEF persist_owned_executor_submission, mark_submission_possible,
                    mark_submission_uncertain, confirm_owned_submission, FencedAttempt
      <4>1. gen[g].attempt = a /\ a # None
        BY <1>t, <4>0, StoreAssumption
      <4>2. g # h
        BY <4>1
      <4> QED
        BY <1>t, <3>2, <4>2
        DEF persist_owned_executor_submission, mark_submission_possible,
            mark_submission_uncertain, confirm_owned_submission
    <3> QED
      BY <2>7, <3>1, <3>2 DEF ComfyCall
  <2> QED
    BY <1>3, <2>1, <2>2, <2>3, <2>4, <2>5, <2>6, <2>7 DEF WorkerCall
<1>4. ASSUME NEW g \in Gens, ApiCall(g) PROVE Kept
  <2>1. ASSUME NEW e, NewRow(g, e) PROVE Kept
    BY <1>t, <1>a, <2>1 DEF NewRow, Oldest, Absent
  <2>2. CASE cancel_generation(g)
    BY <1>t, <2>2 DEF cancel_generation, cancel_unsubmitted, request_cancel, Row
  <2> QED
    BY <1>4, <2>1, <2>2 DEF ApiCall, create_generation, create_rerun
<1> QED
  BY <1>1, <1>2, <1>3, <1>4 DEF Next

\* A terminal generation and its Takes never change again.
THEOREM TerminalRowsAreFinal == Spec => TerminalIsFinal
<1>1. StoreInv /\ [Next]_storeVars =>
        [\A g \in Gens : gen[g].status \in Terminal =>
           gen'[g] = gen[g] /\ takes'[g] = takes[g] /\ permits'[g] = permits[g]]_storeVars
  BY TerminalStep
<1> QED
  BY StoreInvariant, <1>1, PTL DEF Spec, TerminalIsFinal

\* A confirmed handle is never replaced and an uncertain attempt never
\* becomes anything else.
THEOREM ResolutionIsFinal == Spec => SubmissionResolvedOnce
<1>1. StoreInv /\ [Next]_storeVars =>
        [\A g \in Gens : gen[g].sub \in {"confirmed", "uncertain"} =>
           gen'[g].sub = gen[g].sub /\ gen'[g].job = gen[g].job]_storeVars
  BY ResolvedStep
<1> QED
  BY StoreInvariant, <1>1, PTL DEF Spec, SubmissionResolvedOnce
=============================================================================
