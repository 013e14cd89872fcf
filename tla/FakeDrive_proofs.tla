---------------------------- MODULE FakeDrive_proofs ----------------------------
(***************************************************************************)
(* Proofs about FakeDrive for every set of processes, generations and      *)
(* output keys, every number of steps and every fault it allows: it        *)
(* implements GenerationStore, and every generation has one external job   *)
(* and succeeds only when wholly published.                                *)
(*                                                                         *)
(* The inductive invariant says that the identity of a job is a function   *)
(* of the row, RecoveryAttempt: it is fixed once the row has an attempt or *)
(* a handle, so whatever any frame of any process, current or stale, holds *)
(* in its locals is the job of its row.                                    *)
(***************************************************************************)
EXTENDS FakeDrive, GenerationStore_proofs, FiniteSetTheorems

USE StoreAssumption, FakeAssumption

Pcs == Steps \cup {"idle"}
Frames ==
    [pc : Pcs, task : {"none", "work", "recovery"}, attempt : Nat \cup {None},
     job : Jobs \cup {None}, copy : FileType, obs : Observations,
     step : 0 .. TotalSteps, last : 0 .. TotalSteps]

\* The rows that have been claimed under an attempt.
Claimed == {g \in Gens : gen[g].attempt # None}

\* The row has an identity for its executor: an attempt, or the handle that an
\* older release left.
Identified(g) == gen[g].attempt # None \/ gen[g].job # None

FakeRowOK(g) ==
    /\ gen[g].executor = "fake"
    /\ gen[g].job # None => gen[g].job = JobOf(g, RecoveryAttempt(g))
    /\ gen[g].status \in InFlight /\ ~ Identified(g) => gen[g].status = "preparing"
    /\ gen[g].status = "succeeded" => takes[g] = Keys

\* A job file is the job of an identified row.
FileOK(j) ==
    file[j] # NoFile => Identified(j[1]) /\ j = JobOf(j[1], RecoveryAttempt(j[1]))

\* What a frame of g holds in its locals, whether or not its process still owns
\* the row.
Fits(g, f) ==
    f.pc # "idle" =>
      /\ Identified(g)
      /\ f.attempt = RecoveryAttempt(g)
      /\ f.pc # "submit" => f.job \in Jobs /\ f.job = JobOf(g, f.attempt)
      /\ f.pc = "cancel_write" => f.copy # NoFile
      /\ f.pc = "advance_write" => f.copy # NoFile /\ f.copy.steps < TotalSteps

FrameOK(w, g) == Fits(g, frame[w][g])

FakeInv ==
    /\ StoreInv /\ FakeTypeOK
    /\ minted = Cardinality(Claimed)
    /\ \A g \in Gens : FakeRowOK(g)
    /\ \A j \in Jobs : FileOK(j)
    /\ \A w \in Workers, g \in Gens : FrameOK(w, g)

\* The types the steps below rely on.
LEMMA FakeTypes ==
    ASSUME FakeInv
    PROVE  /\ gen \in [Gens -> Row] /\ takes \in [Gens -> SUBSET Keys]
           /\ minted \in Nat
           /\ life \in [Workers -> {"standby", "up", "lame", "dead"}]
           /\ frame \in [Workers -> [Gens -> Frames]]
           /\ file \in [Jobs -> FileType]
           /\ \A g \in Gens : gen[g] \in Row /\ RowOK(g) /\ FakeRowOK(g)
           /\ \A w \in Workers, g \in Gens : frame[w][g] \in Frames /\ FrameOK(w, g)
BY DEF FakeInv, FakeTypeOK, StoreInv, TypeOK, Frames, Pcs

\* Attempts number the claims, so no more are minted than there are rows, and
\* every row has its job among the executor's.
LEMMA RowHasJob ==
    ASSUME FakeInv, NEW g \in Gens
    PROVE  RecoveryAttempt(g) \in Nat /\ JobOf(g, RecoveryAttempt(g)) \in Jobs
<1>1. Claimed \in SUBSET Gens
  BY DEF Claimed
<1>2. Cardinality(Claimed) \leq Cardinality(Gens) /\ Cardinality(Gens) \in Nat
  BY <1>1, FS_Subset, FS_CardinalityType
<1>3. RowOK(g) /\ minted \in Nat /\ gen[g] \in Row
  BY FakeTypes
<1>4. RecoveryAttempt(g) \in 0 .. Cardinality(Gens)
  BY <1>2, <1>3 DEF FakeInv, RecoveryAttempt, RowOK
<1>5. <<g, RecoveryAttempt(g)>> \in Gens \X (0 .. Cardinality(Gens))
  BY <1>4
<1> QED
  BY <1>2, <1>4, <1>5 DEF JobOf

\* No transaction changes the identity of a row that has one.
LEMMA IdentityStep ==
    ASSUME StoreInv, [Next]_storeVars, NEW g \in Gens, Identified(g)
    PROVE  Identified(g)' /\ RecoveryAttempt(g)' = RecoveryAttempt(g)
<1>1. CASE gen[g].attempt # None
  BY <1>1, AttemptStep DEF Identified, RecoveryAttempt
<1>2. CASE gen[g].attempt = None
  BY <1>2, HandleStep DEF Identified, RecoveryAttempt
<1> QED
  BY <1>1, <1>2

-----------------------------------------------------------------------------
(* The transactions that the drive, its recovery and the API commit.       *)

DriveCall(w, g) ==
    \/ UNCHANGED storeVars
    \/ acquire_worker_lease(w)
    \/ gen[g].executor = "fake" /\ claim_next_generation(w, g)
    \/ requeue_stale_preparing_generation(w, g)
    \/ adopt_stale_generation(w, g)
    \/ \E s \in (InFlight \ {"preparing"}) \cup Terminal :
         /\ transition_owned_generation(w, g, s)
         /\ Identified(g)
         /\ s = "succeeded" => AllPublished(g)
    \/ Identified(g) /\ persist_owned_executor_handle(w, g, JobOf(g, RecoveryAttempt(g)))
    \/ \E k \in Keys : publish_output(w, g, RecoveryAttempt(g), k)
    \/ create_generation(g, "fake")
    \/ cancel_generation(g)

\* They are transactions of the store.
LEMMA DriveCallIsNext ==
    ASSUME FakeInv, NEW w \in Workers, NEW g \in Gens, DriveCall(w, g)
    PROVE  [Next]_storeVars
<1>t. gen[g] \in Row /\ RowOK(g) /\ FakeRowOK(g) /\ "fake" \in Executors
  BY FakeTypes DEF Executors
<1>1. CASE \/ claim_next_generation(w, g) \/ requeue_stale_preparing_generation(w, g)
           \/ adopt_stale_generation(w, g)
           \/ \E s \in (InFlight \ {"preparing"}) \cup Terminal :
                transition_owned_generation(w, g, s)
  BY <1>1 DEF Next, WorkerCall
<1>2. CASE persist_owned_executor_handle(w, g, JobOf(g, RecoveryAttempt(g)))
  <2>1. JobOf(g, RecoveryAttempt(g)) \in Jobs
    BY RowHasJob
  <2> QED
    BY <1>2, <1>t, <2>1 DEF Next, WorkerCall, FakeCall, FakeRowOK
<1>3. ASSUME NEW k \in Keys, publish_output(w, g, RecoveryAttempt(g), k)
      PROVE  Next
  <2>1. gen[g].attempt # None
    BY <1>3, RowHasJob DEF publish_output, FencedAttempt
  <2>2. RecoveryAttempt(g) \in 1 .. minted
    BY <1>t, <2>1 DEF RecoveryAttempt, RowOK
  <2> QED
    BY <1>3, <2>2 DEF Next, WorkerCall
<1>4. CASE create_generation(g, "fake") \/ cancel_generation(g)
  BY <1>t, <1>4 DEF Next, ApiCall
<1>5. CASE acquire_worker_lease(w)
  BY <1>5 DEF Next
<1> QED
  BY <1>1, <1>2, <1>3, <1>4, <1>5 DEF DriveCall

\* Every row but g stays as it is.
LEMMA OtherRows ==
    ASSUME FakeInv, NEW w, NEW g \in Gens, DriveCall(w, g),
           NEW h \in Gens, h # g
    PROVE  gen'[h] = gen[h] /\ takes'[h] = takes[h]
<1>1. gen \in [Gens -> Row] /\ takes \in [Gens -> SUBSET Keys]
  BY FakeTypes
<1>2. CASE cancel_generation(g)
  BY <1>1, <1>2 DEF cancel_generation, cancel_unsubmitted, request_cancel
<1>3. CASE create_generation(g, "fake")
  BY <1>1, <1>3 DEF create_generation, NewRow
<1> QED
  BY <1>1, <1>2, <1>3
  DEF DriveCall, storeVars, acquire_worker_lease, claim_next_generation,
      requeue_stale_preparing_generation, adopt_stale_generation,
      transition_owned_generation, persist_owned_executor_handle, publish_output

\* What a transaction does to the columns of its own row that matter here.
LEMMA OwnRow ==
    ASSUME FakeInv, NEW w, NEW g \in Gens, DriveCall(w, g)
    PROVE  /\ FakeRowOK(g)'
           /\ \/ gen'[g].attempt = gen[g].attempt /\ minted' = minted
              \/ /\ gen[g].attempt = None /\ gen'[g].attempt # None
                 /\ minted' = minted + 1
<1>t. /\ gen \in [Gens -> Row] /\ takes \in [Gens -> SUBSET Keys] /\ minted \in Nat
      /\ gen[g] \in Row /\ RowOK(g) /\ FakeRowOK(g) /\ takes[g] \in SUBSET Keys
  BY FakeTypes
<1> DEFINE Same == gen'[g].attempt = gen[g].attempt /\ minted' = minted
<1>1. CASE UNCHANGED storeVars \/ acquire_worker_lease(w)
  BY <1>1, <1>t
  DEF storeVars, acquire_worker_lease, FakeRowOK, Identified, RecoveryAttempt, JobOf
<1>2. CASE claim_next_generation(w, g)
  <2>1. /\ gen'[g] = [gen[g] EXCEPT !.status = "preparing", !.worker = w,
                                    !.attempt = minted + 1]
        /\ minted' = minted + 1
        /\ gen[g].status = "queued" /\ minted + 1 # None
    BY <1>t, <1>2 DEF claim_next_generation, Oldest, Claimable
  <2>2. gen[g].attempt = None /\ gen[g].job = None
    BY <1>t, <2>1 DEF RowOK
  <2>3. gen'[g].attempt = minted + 1 /\ gen'[g].job = None
        /\ gen'[g].status = "preparing" /\ gen'[g].executor = gen[g].executor
    BY <1>t, <2>1, <2>2 DEF Row
  <2> QED
    BY <1>t, <2>1, <2>2, <2>3 DEF FakeRowOK
<1>3. CASE requeue_stale_preparing_generation(w, g)
  <2>1. /\ gen'[g] = [gen[g] EXCEPT !.status = "queued", !.worker = None,
                                    !.sub = "not_started"]
        /\ minted' = minted /\ Requeueable(g)
    BY <1>t, <1>3 DEF requeue_stale_preparing_generation
  <2>2. gen'[g].attempt = gen[g].attempt /\ gen'[g].job = None
        /\ gen'[g].status = "queued" /\ gen'[g].executor = gen[g].executor
    BY <1>t, <2>1 DEF Row, Requeueable
  <2> QED
    BY <1>t, <2>1, <2>2 DEF FakeRowOK, InFlight
<1>4. CASE adopt_stale_generation(w, g)
  <2>1. gen'[g] = [gen[g] EXCEPT !.worker = w] /\ minted' = minted /\ takes' = takes
    BY <1>t, <1>4 DEF adopt_stale_generation
  <2>2. gen'[g].attempt = gen[g].attempt /\ gen'[g].job = gen[g].job
        /\ gen'[g].status = gen[g].status /\ gen'[g].executor = gen[g].executor
    BY <1>t, <2>1 DEF Row
  <2> QED
    BY <1>t, <2>1, <2>2 DEF FakeRowOK, Identified, RecoveryAttempt, JobOf
<1>5. ASSUME NEW s \in (InFlight \ {"preparing"}) \cup Terminal,
             transition_owned_generation(w, g, s), Identified(g),
             s = "succeeded" => AllPublished(g)
      PROVE  FakeRowOK(g)' /\ Same
  <2>1. gen'[g] = [gen[g] EXCEPT !.status = s] /\ minted' = minted /\ takes' = takes
    BY <1>t, <1>5 DEF transition_owned_generation
  <2>2. gen'[g].attempt = gen[g].attempt /\ gen'[g].job = gen[g].job
        /\ gen'[g].status = s /\ gen'[g].executor = gen[g].executor
    BY <1>t, <2>1 DEF Row
  <2> QED
    BY <1>t, <1>5, <2>1, <2>2
    DEF FakeRowOK, Identified, RecoveryAttempt, JobOf, AllPublished
<1>6. CASE Identified(g) /\ persist_owned_executor_handle(w, g, JobOf(g, RecoveryAttempt(g)))
  <2>1. /\ gen'[g] = [gen[g] EXCEPT !.job = JobOf(g, RecoveryAttempt(g))]
        /\ minted' = minted /\ takes' = takes
        /\ gen[g].status \in {"queued"} \cup InFlight
    BY <1>t, <1>6 DEF persist_owned_executor_handle, Fenced
  <2>2. gen'[g].attempt = gen[g].attempt /\ gen'[g].job = JobOf(g, RecoveryAttempt(g))
        /\ gen'[g].status = gen[g].status /\ gen'[g].executor = gen[g].executor
    BY <1>t, <2>1 DEF Row
  <2>3. Identified(g)'
    BY <1>6, <2>2, RowHasJob DEF Identified
  <2>4. RecoveryAttempt(g)' = RecoveryAttempt(g)
    BY <2>2 DEF RecoveryAttempt
  <2> QED
    BY <1>t, <2>1, <2>2, <2>3, <2>4 DEF FakeRowOK, JobOf
<1>7. ASSUME NEW k \in Keys, NEW a, publish_output(w, g, a, k)
      PROVE  FakeRowOK(g)' /\ Same
  <2>1. gen' = gen /\ minted' = minted /\ gen[g].status = "importing"
    BY <1>7 DEF publish_output
  <2> QED
    BY <1>t, <2>1 DEF FakeRowOK, Identified, RecoveryAttempt, JobOf
<1>8. CASE create_generation(g, "fake")
  <2>1. gen'[g] = FreshRow("queued", "fake") /\ minted' = minted /\ gen[g].status = "absent"
    BY <1>t, <1>8 DEF create_generation, NewRow, Oldest, Absent
  <2>2. gen[g].attempt = None
    BY <1>t, <2>1 DEF RowOK
  <2> QED
    BY <2>1, <2>2 DEF FakeRowOK, FreshRow, InFlight
<1>9. CASE cancel_generation(g)
  <2>1. /\ minted' = minted /\ takes' = takes
        /\ gen'[g] = [gen[g] EXCEPT !.status = "cancelled"]
             \/ gen'[g] = [gen[g] EXCEPT !.cancel = "set"]
    BY <1>t, <1>9 DEF cancel_generation, cancel_unsubmitted, request_cancel
  <2>2. gen'[g].attempt = gen[g].attempt /\ gen'[g].job = gen[g].job
        /\ gen'[g].status \in {gen[g].status, "cancelled"}
        /\ gen'[g].executor = gen[g].executor
    BY <1>t, <2>1 DEF Row
  <2> QED
    BY <1>t, <2>1, <2>2 DEF FakeRowOK, Identified, RecoveryAttempt, JobOf, InFlight
<1> QED
  BY <1>1, <1>2, <1>3, <1>4, <1>5, <1>6, <1>7, <1>8, <1>9 DEF DriveCall

\* The attempts minted are as many as the rows that have one.
LEMMA MintedStep ==
    ASSUME FakeInv, NEW w, NEW g \in Gens, DriveCall(w, g)
    PROVE  (minted = Cardinality(Claimed))'
<1>g. \A h \in Gens : h # g => gen'[h] = gen[h]
  BY OtherRows
<1>f. Claimed \in SUBSET Gens /\ IsFiniteSet(Claimed)
  BY FS_Subset DEF Claimed
<1>m. minted = Cardinality(Claimed)
  BY DEF FakeInv
<1>1. CASE gen'[g].attempt = gen[g].attempt /\ minted' = minted
  <2>1. \A h \in Gens : gen'[h].attempt = gen[h].attempt
    BY <1>1, <1>g
  <2>2. Claimed' = Claimed
    BY <2>1 DEF Claimed
  <2> QED
    BY <1>1, <1>m, <2>2
<1>2. CASE /\ gen[g].attempt = None /\ gen'[g].attempt # None
           /\ minted' = minted + 1
  <2>1. Claimed' = Claimed \cup {g} /\ g \notin Claimed
    <3>1. \A h \in Gens : h # g => gen'[h].attempt = gen[h].attempt
      BY <1>g
    <3>2. \A h \in Gens : gen'[h].attempt # None <=> gen[h].attempt # None \/ h = g
      BY <1>2, <3>1
    <3>3. Claimed' = {h \in Gens : gen'[h].attempt # None}
      BY DEF Claimed
    <3>4. g \notin Claimed
      BY <1>2 DEF Claimed
    <3>5. Claimed' = Claimed \cup {g}
      BY <3>2, <3>3, Zenon DEF Claimed
    <3> QED
      BY <3>4, <3>5
  <2>2. Cardinality(Claimed \cup {g}) = Cardinality(Claimed) + 1
    BY <1>f, <2>1, FS_AddElement
  <2> QED
    BY <1>2, <1>m, <2>1, <2>2
<1> QED
  BY <1>1, <1>2, OwnRow

\* What a step may do to frames and files beside its transaction: each frame
\* stays, is dropped or becomes one that fits its row; each file stays, goes,
\* or is the job of an identified row.
LocalsOK ==
    /\ FakeTypeOK'
    /\ \A v \in Workers, h \in Gens :
         \/ frame'[v][h] = frame[v][h]
         \/ frame'[v][h] = NoFrame
         \/ Fits(h, frame'[v][h])
         \/ FrameOK(v, h)'
    /\ \A j \in Jobs :
         \/ file'[j] # NoFile => file[j] # NoFile
         \/ Identified(j[1]) /\ j = JobOf(j[1], RecoveryAttempt(j[1]))

\* Whatever fits a row still fits it after any transaction.
LEMMA LocalsInv ==
    ASSUME FakeInv, [Next]_storeVars, LocalsOK, (minted = Cardinality(Claimed))',
           \A h \in Gens : FakeRowOK(h)'
    PROVE  FakeInv'
<1>s. StoreInv /\ StoreInv' /\ FakeTypeOK'
  BY NextTypeOK, NextRowOK DEF FakeInv, StoreInv, LocalsOK
<1>i. \A h \in Gens : Identified(h) =>
        Identified(h)' /\ RecoveryAttempt(h)' = RecoveryAttempt(h)
  BY <1>s, IdentityStep
<1>1. ASSUME NEW j \in Jobs PROVE FileOK(j)'
  <2> SUFFICES ASSUME file'[j] # NoFile
               PROVE  Identified(j[1])' /\ j = JobOf(j[1], RecoveryAttempt(j[1])')
    BY DEF FileOK, JobOf
  <2>1. Identified(j[1]) /\ j = JobOf(j[1], RecoveryAttempt(j[1])) /\ j \in Gens \X Nat
    BY FakeAssumption DEF LocalsOK, FakeInv, FileOK
  <2>2. j[1] \in Gens
    BY <2>1
  <2> QED
    BY <1>i, <2>1, <2>2
<1>2. ASSUME NEW v \in Workers, NEW h \in Gens PROVE FrameOK(v, h)'
  <2>1. CASE Fits(h, frame'[v][h])
    BY <1>i, <2>1 DEF FrameOK, Fits, JobOf
  <2>2. CASE frame'[v][h] = frame[v][h]
    <3>1. Fits(h, frame[v][h])
      BY DEF FakeInv, FrameOK
    <3> QED
      BY <2>1, <2>2, <3>1
  <2>3. CASE frame'[v][h] = NoFrame
    BY <2>3 DEF FrameOK, Fits, NoFrame
  <2>4. CASE FrameOK(v, h)'
    BY <2>4
  <2> QED
    BY <2>1, <2>2, <2>3, <2>4 DEF LocalsOK
<1> QED
  BY <1>s, <1>1, <1>2 DEF FakeInv

\* A step that commits a transaction of the drive of g keeps the invariant and
\* is a step of the store.
LEMMA DriveStepInv ==
    ASSUME FakeInv, LocalsOK, NEW w, NEW g \in Gens, DriveCall(w, g),
           w \in Workers \/ [Next]_storeVars
    PROVE  FakeInv' /\ [Next]_storeVars
<1>1. ASSUME NEW h \in Gens PROVE FakeRowOK(h)'
  <2>1. CASE h = g
    BY <2>1, OwnRow
  <2>2. CASE h # g
    <3>1. gen'[h] = gen[h] /\ takes'[h] = takes[h] /\ FakeRowOK(h)
      BY <2>2, OtherRows DEF FakeInv
    <3> QED
      BY <3>1 DEF FakeRowOK, Identified, RecoveryAttempt, JobOf
  <2> QED
    BY <2>1, <2>2
<1>2. [Next]_storeVars /\ (minted = Cardinality(Claimed))'
  BY DriveCallIsNext, MintedStep
<1> QED
  BY <1>1, <1>2, LocalsInv

\* So does a step that leaves the tables but the lease alone.
LEMMA QuietStepInv ==
    ASSUME FakeInv, LocalsOK, NEW w \in Workers,
           UNCHANGED storeVars \/ acquire_worker_lease(w)
    PROVE  FakeInv' /\ [Next]_storeVars
<1>1. [Next]_storeVars /\ gen' = gen /\ takes' = takes /\ minted' = minted
  BY DEF Next, storeVars, acquire_worker_lease
<1>2. (minted = Cardinality(Claimed))'
  BY <1>1 DEF FakeInv, Claimed
<1>3. ASSUME NEW h \in Gens PROVE FakeRowOK(h)'
  BY <1>1 DEF FakeInv, FakeRowOK, Identified, RecoveryAttempt, JobOf
<1> QED
  BY <1>1, <1>2, <1>3, LocalsInv

-----------------------------------------------------------------------------
(* The shapes in which the steps change frames and files.                  *)

Becomes(w, g, f) == frame' = [frame EXCEPT ![w][g] = f]

\* A frame with some of its fields set is a frame.
LEMMA FrameFields ==
    /\ NoFrame \in Frames
    /\ \A p \in Pcs, t \in {"none", "work", "recovery"}, a \in Nat \cup {None},
          j \in Jobs \cup {None} :
         [NoFrame EXCEPT !.pc = p, !.task = t, !.attempt = a, !.job = j] \in Frames
    /\ \A p \in Pcs, t \in {"none", "work", "recovery"}, a \in Nat \cup {None} :
         [NoFrame EXCEPT !.pc = p, !.task = t, !.attempt = a] \in Frames
<1>1. NoFile \in FileType /\ 0 \in 0 .. TotalSteps /\ "none" \in Observations
      /\ "idle" \in Pcs
  BY FakeAssumption DEF FileType, Observations, Pcs
<1> QED
  BY <1>1 DEF NoFrame, Frames

\* One frame becomes f, which fits its row now or after the transaction.
LEMMA FrameStep ==
    ASSUME FakeInv, NEW w \in Workers, NEW g \in Gens, NEW f \in Frames,
           Becomes(w, g, f), UNCHANGED <<life, file>>,
           f = NoFrame \/ Fits(g, f) \/ Fits(g, f)'
    PROVE  LocalsOK
<1>t. /\ frame \in [Workers -> [Gens -> Frames]] /\ file \in [Jobs -> FileType]
      /\ life \in [Workers -> {"standby", "up", "lame", "dead"}]
  BY FakeTypes
<1>1. /\ frame' \in [Workers -> [Gens -> Frames]]
      /\ \A v \in Workers, h \in Gens :
           frame'[v][h] = IF v = w /\ h = g THEN f ELSE frame[v][h]
  BY <1>t DEF Becomes
<1>2. FakeTypeOK'
  BY <1>t, <1>1 DEF FakeTypeOK, Frames, Pcs
<1>3. f' = f
  BY <1>1
<1> QED
  BY <1>1, <1>2, <1>3 DEF LocalsOK, FrameOK

\* A drive that is dropped.
LEMMA ReturnStep ==
    ASSUME FakeInv, NEW w \in Workers, NEW g \in Gens, Return(w, g),
           UNCHANGED <<life, file>>
    PROVE  LocalsOK
<1>1. NoFrame \in Frames
  BY FakeAssumption DEF NoFrame, Frames, Pcs, Observations, FileType
<1> QED
  BY <1>1, FrameStep DEF Return, Becomes

\* A drive that goes on with the locals it has.
LEMMA GotoStep ==
    ASSUME FakeInv, NEW w \in Workers, NEW g \in Gens,
           NEW s \in Steps \ {"submit", "cancel_write", "advance_write"}, Goto(w, g, s),
           frame[w][g].pc \notin {"idle", "submit"}, UNCHANGED <<life, file>>
    PROVE  LocalsOK
<1> DEFINE f == [frame[w][g] EXCEPT !.pc = s]
<1>t. frame \in [Workers -> [Gens -> Frames]] /\ frame[w][g] \in Frames
      /\ Fits(g, frame[w][g]) /\ s \in Pcs /\ s # "idle"
  BY FakeTypes DEF FrameOK, Pcs, Steps
<1>1. f \in Frames /\ f.pc = s /\ f.attempt = frame[w][g].attempt
      /\ f.job = frame[w][g].job
  BY <1>t DEF Frames
<1>2. Becomes(w, g, f)
  BY <1>t DEF Goto, Becomes
<1>3. Fits(g, f)
  BY <1>t, <1>1 DEF Fits
<1> HIDE DEF f
<1> QED
  BY <1>1, <1>2, <1>3, FrameStep

\* A step that changes only frames, one of which becomes f.
LEMMA LocalStep ==
    ASSUME FakeInv, LocalsOK, NEW w \in Workers, UNCHANGED storeVars
    PROVE  FakeInv' /\ [Next]_storeVars
BY QuietStepInv

\* One job file becomes the job of g that a frame of g holds.
LEMMA FileStep ==
    ASSUME FakeInv, NEW w \in Workers, NEW g \in Gens, NEW f \in Frames,
           NEW c \in FileType, frame[w][g].pc \notin {"idle", "submit"},
           file' = [file EXCEPT ![frame[w][g].job] = c], Becomes(w, g, f),
           life' = life, Fits(g, f)
    PROVE  LocalsOK
<1>t. /\ frame \in [Workers -> [Gens -> Frames]] /\ file \in [Jobs -> FileType]
      /\ life \in [Workers -> {"standby", "up", "lame", "dead"}]
      /\ Fits(g, frame[w][g])
  BY FakeTypes DEF FrameOK
<1>j. /\ frame[w][g].job \in Jobs /\ Identified(g)
      /\ frame[w][g].job = JobOf(g, RecoveryAttempt(g))
  BY <1>t DEF Fits
<1>1. /\ frame' \in [Workers -> [Gens -> Frames]]
      /\ \A v \in Workers, h \in Gens :
           frame'[v][h] = IF v = w /\ h = g THEN f ELSE frame[v][h]
  BY <1>t DEF Becomes
<1>2. file' \in [Jobs -> FileType]
      /\ \A j \in Jobs : j # frame[w][g].job => file'[j] = file[j]
  BY <1>t
<1>3. FakeTypeOK'
  BY <1>t, <1>1, <1>2 DEF FakeTypeOK, Frames, Pcs
<1>4. ASSUME NEW j \in Jobs, file'[j] # NoFile, file[j] = NoFile
      PROVE  Identified(j[1]) /\ j = JobOf(j[1], RecoveryAttempt(j[1]))
  <2>1. j = JobOf(g, RecoveryAttempt(g))
    BY <1>2, <1>4, <1>j
  <2>2. j[1] = g
    BY <2>1 DEF JobOf
  <2> QED
    BY <1>j, <2>1, <2>2
<1> QED
  BY <1>1, <1>3, <1>4 DEF LocalsOK

\* A process that stops, in recovery or altogether, drops its frames.
LEMMA DropStep ==
    ASSUME FakeInv, NEW w \in Workers,
           NEW l \in {"standby", "up", "lame", "dead"}, life' = [life EXCEPT ![w] = l],
           \/ frame' = [frame EXCEPT ![w] = [h \in Gens |-> NoFrame]]
           \/ \E g \in Gens : Return(w, g)
           \/ frame' = frame,
           file' = file
    PROVE  LocalsOK
<1>t. /\ frame \in [Workers -> [Gens -> Frames]] /\ file \in [Jobs -> FileType]
      /\ life \in [Workers -> {"standby", "up", "lame", "dead"}]
  BY FakeTypes
<1>n. NoFrame \in Frames
  BY FakeAssumption DEF NoFrame, Frames, Pcs, Observations, FileType
<1>1. CASE frame' = [frame EXCEPT ![w] = [h \in Gens |-> NoFrame]]
  <2>1. /\ frame' \in [Workers -> [Gens -> Frames]]
        /\ \A v \in Workers, h \in Gens :
             frame'[v][h] = IF v = w THEN NoFrame ELSE frame[v][h]
    BY <1>t, <1>n, <1>1
  <2>2. FakeTypeOK'
    BY <1>t, <2>1 DEF FakeTypeOK, Frames, Pcs
  <2> QED
    BY <2>1, <2>2 DEF LocalsOK
<1>2. ASSUME NEW g \in Gens, Return(w, g) PROVE LocalsOK
  <2>1. /\ frame' \in [Workers -> [Gens -> Frames]]
        /\ \A v \in Workers, h \in Gens :
             frame'[v][h] = IF v = w /\ h = g THEN NoFrame ELSE frame[v][h]
    BY <1>t, <1>n, <1>2 DEF Return
  <2>2. FakeTypeOK'
    BY <1>t, <2>1 DEF FakeTypeOK, Frames, Pcs
  <2> QED
    BY <2>1, <2>2 DEF LocalsOK
<1>3. CASE frame' = frame
  <2>1. FakeTypeOK'
    BY <1>t, <1>3 DEF FakeTypeOK, Frames, Pcs
  <2> QED
    BY <1>3, <2>1 DEF LocalsOK
<1> QED
  BY <1>1, <1>2, <1>3

-----------------------------------------------------------------------------
(* One lemma per action: it keeps the invariant and is a step of the store. *)

StepOK == FakeInv' /\ [Next]_storeVars

\* A process takes the lease, or ends.
LEMMA ProcessOK ==
    ASSUME FakeInv, NEW w \in Workers, Takeover(w) \/ Crash(w) PROVE StepOK
<1>1. LocalsOK
  BY DropStep DEF Takeover, Crash
<1> QED
  BY <1>1, QuietStepInv DEF Takeover, Crash, StepOK

\* An exception drops the frame, or the process.
LEMMA RaisesOK ==
    ASSUME FakeInv, NEW w \in Workers, NEW g \in Gens, Raises(w, g) PROVE StepOK
<1>1. LocalsOK
  <2>1. CASE UNCHANGED life /\ Return(w, g)
    BY <2>1, ReturnStep DEF Raises
  <2>2. CASE life' = [life EXCEPT ![w] = "lame"] /\ Return(w, g)
    BY <2>2, DropStep DEF Raises
  <2>3. CASE /\ life' = [life EXCEPT ![w] = "dead"]
             /\ frame' = [frame EXCEPT ![w] = [h \in Gens |-> NoFrame]]
    BY <2>3, DropStep DEF Raises
  <2> QED
    BY <2>1, <2>2, <2>3 DEF Raises
<1> QED
  BY <1>1, LocalStep DEF Raises, StepOK

\* A claim starts the drive of a row under a new attempt.
LEMMA ClaimOK ==
    ASSUME FakeInv, NEW w \in Workers, NEW g \in Gens, Claim(w, g) PROVE StepOK
<1>t. gen \in [Gens -> Row] /\ gen[g] \in Row /\ minted \in Nat /\ minted + 1 \in Nat
  BY FakeTypes
<1>f. PICK f : f = [NoFrame EXCEPT !.pc = "submit", !.task = "work",
                                   !.attempt = minted + 1]
  OBVIOUS
<1>1. f \in Frames
  <2>1. "submit" \in Pcs
    BY DEF Pcs, Steps
  <2> QED
    BY <1>t, <1>f, <2>1, FrameFields
<1>2. f.pc = "submit" /\ f.attempt = minted + 1
  BY <1>f DEF NoFrame
<1>3. gen'[g].attempt = minted + 1 /\ minted + 1 # None
  BY <1>t DEF Claim, claim_next_generation, Row
<1>4. Fits(g, f)'
  BY <1>2, <1>3 DEF Fits, Identified, RecoveryAttempt
<1>5. Becomes(w, g, f) /\ UNCHANGED <<life, file>>
  BY <1>f DEF Claim, Becomes, Rest
<1>6. LocalsOK
  BY <1>1, <1>4, <1>5, FrameStep
<1> QED
  BY <1>6, DriveStepInv DEF Claim, DriveCall, StepOK

\* A requeue leaves frames and files alone.
LEMMA RequeueOK ==
    ASSUME FakeInv, NEW w \in Workers, NEW g \in Gens, Requeue(w, g)
    PROVE  StepOK
<1>1. LocalsOK
  BY DEF Requeue, LocalsOK, fakeVars, FakeInv, FakeTypeOK
<1> QED
  BY <1>1, DriveStepInv DEF Requeue, DriveCall, StepOK

\* And so do the requests of the API.
LEMMA ApiOK ==
    ASSUME FakeInv, NEW g \in Gens, Api(g) PROVE StepOK
<1>1. LocalsOK
  BY DEF Api, LocalsOK, fakeVars, FakeInv, FakeTypeOK
<1>2. [Next]_storeVars
  BY DEF Api, Next, ApiCall, Executors
<1>3. DriveCall(None, g)
  BY DEF Api, DriveCall
<1> QED
  BY <1>1, <1>2, <1>3, DriveStepInv DEF StepOK

\* Recovery re-enters the drive with the handle of the row, or under its
\* attempt: a row with neither is preparing, and is requeued instead.
LEMMA AdoptOK ==
    ASSUME FakeInv, NEW w \in Workers, NEW g \in Gens, Adopt(w, g) PROVE StepOK
<1>t. gen \in [Gens -> Row] /\ gen[g] \in Row /\ FakeRowOK(g) /\ RowOK(g)
      /\ gen[g].job \in Jobs \cup {None}
  BY FakeTypes DEF Row
<1>r. RecoveryAttempt(g) \in Nat /\ JobOf(g, RecoveryAttempt(g)) \in Jobs
  BY RowHasJob
<1>p. PICK p \in {"submit", "resume"} : p = IF gen[g].job = None THEN "submit" ELSE "resume"
  OBVIOUS
<1>f. PICK f : f = [NoFrame EXCEPT !.pc = p, !.task = "recovery",
                       !.attempt = RecoveryAttempt(g), !.job = gen[g].job]
  OBVIOUS
<1>1. f \in Frames
  <2>1. p \in Pcs
    BY DEF Pcs, Steps
  <2> QED
    BY <1>t, <1>r, <1>f, <2>1, FrameFields
<1>2. f.pc = p /\ f.attempt = RecoveryAttempt(g) /\ f.job = gen[g].job
  BY <1>f DEF NoFrame
<1>3. Identified(g)
  BY <1>t DEF Adopt, adopt_stale_generation, Recovering, Requeueable, FakeRowOK, Identified
<1>4. Fits(g, f)
  BY <1>2, <1>3, <1>p, <1>t, <1>r DEF Fits, FakeRowOK
<1>5. Becomes(w, g, f) /\ UNCHANGED <<life, file>>
  BY <1>f, <1>p DEF Adopt, Becomes, Rest
<1>6. LocalsOK
  BY <1>1, <1>4, <1>5, FrameStep
<1> QED
  BY <1>6, DriveStepInv DEF Adopt, DriveCall, StepOK

\* Looking for the job of the attempt settles the job the drive works for.
LEMMA SubmitOK ==
    ASSUME FakeInv, NEW w \in Workers, NEW g \in Gens, Submit(w, g) PROVE StepOK
<1>t. frame[w][g] \in Frames /\ Fits(g, frame[w][g]) /\ frame[w][g].pc = "submit"
  BY FakeTypes DEF FrameOK, Submit, At
<1>r. /\ frame[w][g].attempt = RecoveryAttempt(g) /\ Identified(g)
      /\ JobOf(g, RecoveryAttempt(g)) \in Jobs
  BY <1>t, RowHasJob DEF Fits
<1>j. PICK j \in Jobs : j = JobOf(g, frame[w][g].attempt)
  BY <1>r
<1>p. PICK p \in {"create", "persist"} : p = IF file[j] = NoFile THEN "create" ELSE "persist"
  OBVIOUS
<1>f. PICK f : f = [frame[w][g] EXCEPT !.job = j, !.pc = p]
  OBVIOUS
<1>1. /\ f \in Frames /\ f.pc = p /\ f.job = j /\ f.attempt = frame[w][g].attempt
  BY <1>t, <1>f DEF Frames, Pcs, Steps
<1>2. Becomes(w, g, f) /\ UNCHANGED <<storeVars, life, file>>
  <2>1. frame \in [Workers -> [Gens -> Frames]]
    BY FakeTypes
  <2> QED
    BY <1>j, <1>p, <1>f, <2>1 DEF Submit, Local, Becomes
<1>3. Fits(g, f)
  BY <1>1, <1>r, <1>j DEF Fits
<1>4. LocalsOK
  BY <1>1, <1>2, <1>3, FrameStep
<1> QED
  BY <1>2, <1>4, LocalStep DEF StepOK

\* The job file of an absent job is created.
LEMMA CreateOK ==
    ASSUME FakeInv, NEW w \in Workers, NEW g \in Gens, Create(w, g) PROVE StepOK
<1>t. frame[w][g] \in Frames /\ Fits(g, frame[w][g]) /\ frame[w][g].pc = "create"
      /\ frame \in [Workers -> [Gens -> Frames]]
  BY FakeTypes DEF FrameOK, Create, At
<1>f. PICK f : f = [frame[w][g] EXCEPT !.pc = "persist"]
  OBVIOUS
<1>1. f \in Frames /\ f.pc = "persist" /\ f.job = frame[w][g].job
      /\ f.attempt = frame[w][g].attempt
  BY <1>t, <1>f DEF Frames, Pcs, Steps
<1>2. Fits(g, f)
  BY <1>t, <1>1 DEF Fits
<1>3. NewFile \in FileType
  BY FakeAssumption DEF NewFile, FileType
<1>4. Becomes(w, g, f) /\ file' = [file EXCEPT ![frame[w][g].job] = NewFile]
      /\ life' = life /\ UNCHANGED storeVars
  BY <1>t, <1>f DEF Create, Goto, Becomes
<1>5. LocalsOK
  BY <1>t, <1>1, <1>2, <1>3, <1>4, FileStep
<1> QED
  BY <1>4, <1>5, LocalStep DEF StepOK

\* The handle that is persisted is the job of the row.
LEMMA PersistOK ==
    ASSUME FakeInv, NEW w \in Workers, NEW g \in Gens, Persist(w, g) PROVE StepOK
<1>t. Fits(g, frame[w][g]) /\ frame[w][g].pc = "persist" /\ UNCHANGED <<life, file>>
  BY FakeTypes DEF FrameOK, Persist, At, Rest
<1>1. CASE persist_owned_executor_handle(w, g, frame[w][g].job) /\ Goto(w, g, "submitted")
  <2>1. LocalsOK
    BY <1>t, <1>1, GotoStep DEF Steps
  <2>2. Identified(g) /\ frame[w][g].job = JobOf(g, RecoveryAttempt(g))
    BY <1>t DEF Fits
  <2> QED
    BY <1>1, <2>1, <2>2, DriveStepInv DEF DriveCall, StepOK
<1>2. CASE UNCHANGED storeVars /\ Return(w, g)
  BY <1>t, <1>2, ReturnStep, LocalStep DEF StepOK
<1> QED
  BY <1>1, <1>2 DEF Persist

\* A transition whose refusal ends the drive.
LEMMA TransitionOK ==
    ASSUME FakeInv, NEW w \in Workers, NEW g \in Gens,
           Submitted(w, g) \/ Resume(w, g) \/ BeginImport(w, g)
    PROVE  StepOK
<1>1. ASSUME NEW step \in {"submitted", "resume", "import"},
             NEW s \in {"submitted", "running", "importing"},
             NEW next \in {"poll", "publish"}, Transition(w, g, step, s, next)
      PROVE  StepOK
  <2>t. Fits(g, frame[w][g]) /\ frame[w][g].pc = step /\ UNCHANGED <<life, file>>
    BY <1>1, FakeTypes DEF FrameOK, Transition, At, Rest
  <2>1. CASE transition_owned_generation(w, g, s) /\ Goto(w, g, next)
    <3>1. next \in Steps \ {"submit", "cancel_write", "advance_write"}
      BY DEF Steps
    <3>2. LocalsOK
      BY <2>t, <2>1, <3>1, GotoStep
    <3>3. Identified(g) /\ s \in (InFlight \ {"preparing"}) \cup Terminal /\ s # "succeeded"
      BY <2>t DEF Fits, InFlight
    <3>4. DriveCall(w, g)
      BY <2>1, <3>3 DEF DriveCall
    <3> QED
      BY <3>2, <3>4, DriveStepInv DEF StepOK
  <2>2. CASE UNCHANGED storeVars /\ Return(w, g)
    BY <2>t, <2>2, ReturnStep, LocalStep DEF StepOK
  <2> QED
    BY <1>1, <2>1, <2>2 DEF Transition
<1> QED
  BY <1>1 DEF Submitted, Resume, BeginImport

\* The end of a drive: success only with every output published.
LEMMA EndOK ==
    ASSUME FakeInv, NEW w \in Workers, NEW g \in Gens, NEW s \in Terminal,
           EndWith(w, g, s), Rest, frame[w][g].pc # "idle",
           s = "succeeded" => AllPublished(g)
    PROVE  StepOK
<1>1. LocalsOK
  BY ReturnStep DEF EndWith, Rest
<1>2. Identified(g)
  BY FakeTypes DEF FrameOK, Fits
<1>3. DriveCall(w, g)
  BY <1>2 DEF EndWith, DriveCall
<1> QED
  BY <1>1, <1>3, DriveStepInv DEF StepOK

\* Steps that only move a drive on, or drop it.
LEMMA MovesOK ==
    ASSUME FakeInv, NEW w \in Workers, NEW g \in Gens,
           Poll(w, g) \/ Authority(w, g) \/ Report(w, g)
    PROVE  StepOK
<1>0. UNCHANGED storeVars /\ UNCHANGED <<life, file>>
      /\ frame[w][g].pc \notin {"idle", "submit"}
  BY DEF Poll, Authority, Report, Local, At
<1>1. \/ Return(w, g)
      \/ \E s \in {"authority", "inspect", "cancel", "outcome", "running"} : Goto(w, g, s)
  BY DEF Poll, Authority, Report
<1>2. LocalsOK
  BY <1>0, <1>1, ReturnStep, GotoStep DEF Steps
<1> QED
  BY <1>0, <1>2, LocalStep DEF StepOK

\* Both two-step updates load the job file if there is something to update.
LEMMA LoadOK ==
    ASSUME FakeInv, NEW w \in Workers, NEW g \in Gens,
           CancelLoad(w, g) \/ AdvanceLoad(w, g)
    PROVE  StepOK
<1>t. /\ frame[w][g] \in Frames /\ Fits(g, frame[w][g])
      /\ frame \in [Workers -> [Gens -> Frames]] /\ file \in [Jobs -> FileType]
      /\ UNCHANGED storeVars /\ UNCHANGED <<life, file>>
      /\ frame[w][g].pc \in {"cancel", "advance"}
  BY FakeTypes DEF FrameOK, CancelLoad, AdvanceLoad, At, Local
<1>1. CASE Goto(w, g, "inspect") \/ Goto(w, g, "report")
  <2>1. LocalsOK
    BY <1>t, <1>1, GotoStep DEF Steps
  <2> QED
    BY <1>t, <2>1, LocalStep DEF StepOK
<1>2. CASE /\ ~ (Goto(w, g, "inspect") \/ Goto(w, g, "report"))
  <2>c. PICK c \in FileType : c = file[frame[w][g].job]
    BY <1>t DEF Fits
  <2>1. c # NoFile /\ ~ c.steps >= TotalSteps
    BY <1>2, <2>c DEF CancelLoad, AdvanceLoad
  <2>2. c.steps < TotalSteps
    BY <2>1, FakeAssumption DEF FileType
  <2>p. PICK p \in {"cancel_write", "advance_write"} :
          frame' = [frame EXCEPT ![w][g] = [@ EXCEPT !.pc = p, !.copy = c]]
    BY <1>2, <2>c DEF CancelLoad, AdvanceLoad
  <2>f. PICK f : f = [frame[w][g] EXCEPT !.pc = p, !.copy = c]
    OBVIOUS
  <2>3. f \in Frames /\ f.pc = p /\ f.copy = c /\ f.job = frame[w][g].job
        /\ f.attempt = frame[w][g].attempt
    BY <1>t, <2>f DEF Frames, Pcs, Steps
  <2>4. Becomes(w, g, f)
    BY <1>t, <2>p, <2>f DEF Becomes
  <2>5. Fits(g, f)
    BY <1>t, <2>1, <2>2, <2>3 DEF Fits
  <2>6. LocalsOK
    BY <1>t, <2>3, <2>4, <2>5, FrameStep
  <2> QED
    BY <1>t, <2>6, LocalStep DEF StepOK
<1> QED
  BY <1>1, <1>2

\* A loaded job is written back cancelled, whatever the file says by now.
LEMMA CancelWriteOK ==
    ASSUME FakeInv, NEW w \in Workers, NEW g \in Gens, CancelWrite(w, g) PROVE StepOK
<1>t. frame[w][g] \in Frames /\ Fits(g, frame[w][g]) /\ frame[w][g].pc = "cancel_write"
      /\ frame \in [Workers -> [Gens -> Frames]]
  BY FakeTypes DEF FrameOK, CancelWrite, At
<1>f. PICK f : f = [frame[w][g] EXCEPT !.pc = "cancelled"]
  OBVIOUS
<1>1. f \in Frames /\ f.pc = "cancelled" /\ f.job = frame[w][g].job
      /\ f.attempt = frame[w][g].attempt
  BY <1>t, <1>f DEF Frames, Pcs, Steps
<1>2. Fits(g, f)
  BY <1>t, <1>1 DEF Fits
<1>c. frame[w][g].copy \in FileType \ {NoFile}
  BY <1>t DEF Frames, Fits
<1>3. PICK c \in FileType : c = [frame[w][g].copy EXCEPT !.cancelled = "yes"]
  BY <1>c DEF FileType
<1>4. Becomes(w, g, f) /\ file' = [file EXCEPT ![frame[w][g].job] = c]
      /\ life' = life /\ UNCHANGED storeVars
  BY <1>t, <1>f, <1>3 DEF CancelWrite, Goto, Becomes
<1>5. LocalsOK
  BY <1>t, <1>1, <1>2, <1>4, FileStep
<1> QED
  BY <1>4, <1>5, LocalStep DEF StepOK

\* A loaded job is written back one step further.
LEMMA AdvanceWriteOK ==
    ASSUME FakeInv, NEW w \in Workers, NEW g \in Gens, AdvanceWrite(w, g) PROVE StepOK
<1>t. frame[w][g] \in Frames /\ Fits(g, frame[w][g]) /\ frame[w][g].pc = "advance_write"
      /\ frame \in [Workers -> [Gens -> Frames]]
  BY FakeTypes DEF FrameOK, AdvanceWrite, At
<1>n. NoFile \in FileType
  BY DEF FileType
<1>f. PICK f : f = [frame[w][g] EXCEPT !.pc = "report", !.copy = NoFile]
  OBVIOUS
<1>1. f \in Frames /\ f.pc = "report" /\ f.job = frame[w][g].job
      /\ f.attempt = frame[w][g].attempt
  BY <1>t, <1>n, <1>f DEF Frames, Pcs, Steps
<1>2. Fits(g, f)
  BY <1>t, <1>1 DEF Fits
<1>c. frame[w][g].copy \in FileType \ {NoFile} /\ frame[w][g].copy.steps < TotalSteps
  BY <1>t DEF Frames, Fits
<1>3. PICK c \in FileType : c = Advanced(frame[w][g].copy)
  <2>1. frame[w][g].copy \in [steps : 0 .. TotalSteps, cancelled : {"yes", "no"}]
    BY <1>c DEF FileType
  <2>2. frame[w][g].copy.steps + 1 \in 0 .. TotalSteps
    BY <1>c, <2>1, FakeAssumption
  <2> QED
    BY <2>1, <2>2 DEF Advanced, FileType
<1>4. Becomes(w, g, f) /\ file' = [file EXCEPT ![frame[w][g].job] = c]
      /\ life' = life /\ UNCHANGED storeVars
  BY <1>t, <1>f, <1>3 DEF AdvanceWrite, Becomes
<1>5. LocalsOK
  BY <1>t, <1>1, <1>2, <1>4, FileStep
<1> QED
  BY <1>4, <1>5, LocalStep DEF StepOK

\* An inspection notes what it saw.
LEMMA InspectOK ==
    ASSUME FakeInv, NEW w \in Workers, NEW g \in Gens, Inspect(w, g) PROVE StepOK
<1>t. /\ frame[w][g] \in Frames /\ Fits(g, frame[w][g])
      /\ frame \in [Workers -> [Gens -> Frames]] /\ file \in [Jobs -> FileType]
      /\ UNCHANGED storeVars /\ UNCHANGED <<life, file>>
      /\ frame[w][g].pc = "inspect"
  BY FakeTypes DEF FrameOK, Inspect, At, Local
<1>c. PICK c \in FileType : c = file[frame[w][g].job]
  BY <1>t DEF Fits
<1>o. PICK o \in Observations :
        o = CASE c = NoFile -> "lost"
              [] c # NoFile /\ c.cancelled = "yes" -> "cancelled"
              [] c # NoFile /\ c.cancelled = "no" /\ c.steps \in 0 .. TotalSteps - 1 -> "running"
              [] OTHER -> "succeeded"
  BY DEF Observations
<1>n. PICK n \in 0 .. TotalSteps : n = IF o = "running" THEN c.steps + 1 ELSE 0
  <2>1. o = "running" => c.steps \in 0 .. TotalSteps - 1
    BY <1>o
  <2> QED
    BY <2>1, FakeAssumption
<1>f. PICK f : f = [frame[w][g] EXCEPT !.pc = "advance", !.obs = o, !.step = n]
  OBVIOUS
<1>1. f \in Frames /\ f.pc = "advance" /\ f.job = frame[w][g].job
      /\ f.attempt = frame[w][g].attempt
  BY <1>t, <1>f DEF Frames, Pcs, Steps
<1>2. Becomes(w, g, f)
  BY <1>t, <1>c, <1>o, <1>n, <1>f DEF Inspect, Becomes
<1>3. Fits(g, f)
  BY <1>t, <1>1 DEF Fits
<1>4. LocalsOK
  BY <1>t, <1>1, <1>2, <1>3, FrameStep
<1> QED
  BY <1>t, <1>4, LocalStep DEF StepOK

\* Reported progress makes the row running, unless it has ended.
LEMMA NowRunningOK ==
    ASSUME FakeInv, NEW w \in Workers, NEW g \in Gens, NowRunning(w, g) PROVE StepOK
<1>t. /\ frame[w][g] \in Frames /\ Fits(g, frame[w][g])
      /\ frame \in [Workers -> [Gens -> Frames]] /\ UNCHANGED <<life, file>>
      /\ frame[w][g].pc = "running"
  BY FakeTypes DEF FrameOK, NowRunning, At, Rest
<1>1. CASE /\ transition_owned_generation(w, g, "running") \/ UNCHANGED storeVars
           /\ frame' = [frame EXCEPT ![w][g] = [@ EXCEPT !.pc = "outcome",
                                             !.last = frame[w][g].step]]
  <2>f. PICK f : f = [frame[w][g] EXCEPT !.pc = "outcome", !.last = frame[w][g].step]
    OBVIOUS
  <2>1. f \in Frames /\ f.pc = "outcome" /\ f.job = frame[w][g].job
        /\ f.attempt = frame[w][g].attempt
    BY <1>t, <2>f DEF Frames, Pcs, Steps
  <2>2. Becomes(w, g, f)
    BY <1>t, <1>1, <2>f DEF Becomes
  <2>3. Fits(g, f) /\ Identified(g)
    BY <1>t, <2>1 DEF Fits
  <2>4. LocalsOK
    BY <1>t, <2>1, <2>2, <2>3, FrameStep
  <2>5. "running" \in (InFlight \ {"preparing"}) \cup Terminal
    BY DEF InFlight
  <2>6. DriveCall(w, g)
    BY <1>1, <2>3, <2>5 DEF DriveCall
  <2> QED
    BY <2>4, <2>6, DriveStepInv DEF StepOK
<1>2. CASE UNCHANGED storeVars /\ Return(w, g)
  BY <1>t, <1>2, ReturnStep, LocalStep DEF StepOK
<1> QED
  BY <1>1, <1>2 DEF NowRunning

\* An observation continues the drive or ends it.
LEMMA OutcomeOK ==
    ASSUME FakeInv, NEW w \in Workers, NEW g \in Gens, Outcome(w, g) PROVE StepOK
<1>t. frame[w][g].pc = "outcome" /\ Rest
  BY DEF Outcome, At
<1>1. CASE UNCHANGED storeVars /\ (Goto(w, g, "poll") \/ Goto(w, g, "fetch"))
  <2>1. LocalsOK
    BY <1>t, <1>1, GotoStep DEF Steps, Rest
  <2> QED
    BY <1>1, <2>1, LocalStep DEF StepOK
<1>2. CASE EndWith(w, g, "cancelled") \/ EndWith(w, g, "interrupted")
  BY <1>t, <1>2, EndOK DEF Terminal
<1> QED
  BY <1>1, <1>2 DEF Outcome

\* Outputs are staged from the job file, or the drive raises.
LEMMA FetchOK ==
    ASSUME FakeInv, NEW w \in Workers, NEW g \in Gens, Fetch(w, g) PROVE StepOK
<1>1. CASE Goto(w, g, "import") /\ Local
  <2>1. frame[w][g].pc = "fetch"
    BY DEF Fetch, At
  <2>2. LocalsOK
    BY <1>1, <2>1, GotoStep DEF Steps, Local
  <2> QED
    BY <1>1, <2>2, LocalStep DEF Local, StepOK
<1>2. CASE Raises(w, g)
  BY <1>2, RaisesOK
<1> QED
  BY <1>1, <1>2 DEF Fetch

\* One output is published under the attempt of the row, or the drive raises.
LEMMA PublishOK ==
    ASSUME FakeInv, NEW w \in Workers, NEW g \in Gens, Publish(w, g) PROVE StepOK
<1>1. ASSUME NEW k \in Keys, publish_output(w, g, frame[w][g].attempt, k),
             UNCHANGED fakeVars
      PROVE  StepOK
  <2>1. LocalsOK
    BY <1>1 DEF LocalsOK, fakeVars, FakeInv, FakeTypeOK
  <2>2. frame[w][g].attempt = RecoveryAttempt(g)
    BY FakeTypes DEF FrameOK, Fits, Publish, At
  <2> QED
    BY <1>1, <2>1, <2>2, DriveStepInv DEF DriveCall, StepOK
<1>2. CASE Raises(w, g)
  BY <1>2, RaisesOK
<1> QED
  BY <1>1, <1>2 DEF Publish

\* The job store may lose a file.
LEMMA FileVanishesOK ==
    ASSUME FakeInv, NEW j \in Jobs, FileVanishes(j)
    PROVE  FakeInv' /\ UNCHANGED storeVars
<1>t. file \in [Jobs -> FileType] /\ NoFile \in FileType
  BY FakeTypes DEF FileType
<1>1. file' \in [Jobs -> FileType] /\ \A k \in Jobs : file'[k] # NoFile => file[k] # NoFile
  BY <1>t DEF FileVanishes
<1>2. UNCHANGED <<storeVars, life, frame>>
  BY DEF FileVanishes
<1>3. FakeTypeOK'
  BY <1>1, <1>2 DEF FakeInv, FakeTypeOK
<1>4. LocalsOK
  BY <1>1, <1>2, <1>3 DEF LocalsOK
<1>5. [Next]_storeVars
  BY <1>2
<1>6. (minted = Cardinality(Claimed))' /\ \A h \in Gens : FakeRowOK(h)'
  BY <1>2 DEF storeVars, FakeInv, Claimed, FakeRowOK, Identified, RecoveryAttempt, JobOf
<1> QED
  BY <1>2, <1>4, <1>5, <1>6, LocalsInv

\* Every step of the system keeps the invariant and is a step of the store.
LEMMA FakeNextOK ==
    ASSUME FakeInv, [FakeNext]_allVars PROVE StepOK
<1>1. CASE UNCHANGED allVars
  <2>1. UNCHANGED storeVars /\ UNCHANGED <<life, frame, file>>
    BY <1>1 DEF allVars, fakeVars
  <2>2. LocalsOK
    BY <2>1 DEF LocalsOK, FakeInv, FakeTypeOK
  <2>3. (minted = Cardinality(Claimed))' /\ \A h \in Gens : FakeRowOK(h)'
    BY <2>1 DEF storeVars, FakeInv, Claimed, FakeRowOK, Identified, RecoveryAttempt, JobOf
  <2> QED
    BY <2>1, <2>2, <2>3, LocalsInv DEF StepOK
<1>2. ASSUME NEW w \in Workers, ProcessStep(w) PROVE StepOK
  BY <1>2, ProcessOK, ClaimOK, RequeueOK, AdoptOK DEF ProcessStep
<1>3. ASSUME NEW w \in Workers, NEW g \in Gens, DriveStep(w, g) PROVE StepOK
  <2>1. CASE Cancelled(w, g)
    BY <2>1, EndOK DEF Cancelled, At, Terminal
  <2>2. CASE Finish(w, g)
    BY <2>2, EndOK DEF Finish, At, Terminal
  <2> QED
    BY <1>3, <2>1, <2>2, SubmitOK, CreateOK, PersistOK, TransitionOK, MovesOK, LoadOK,
       CancelWriteOK, InspectOK, AdvanceWriteOK, NowRunningOK, OutcomeOK, FetchOK,
       PublishOK
    DEF DriveStep
<1>4. ASSUME NEW j \in Jobs, FileVanishes(j) PROVE StepOK
  BY <1>4, FileVanishesOK DEF StepOK
<1>5. ASSUME NEW g \in Gens, Api(g) PROVE StepOK
  BY <1>5, ApiOK
<1> QED
  BY <1>1, <1>2, <1>3, <1>4, <1>5 DEF FakeNext

-----------------------------------------------------------------------------
(* The theorems. *)

\* The initial rows, those of an older release included, satisfy the invariant.
LEMMA InitFakeInv == FakeInit => FakeInv
<1> SUFFICES ASSUME FakeInit PROVE FakeInv
  OBVIOUS
<1>1. StoreInv
  BY InitStoreInv DEF FakeInit
<1>p. PICK s \in InFlight, i \in Jobs \cup {None} :
        /\ i = None => s = "preparing"
        /\ gen = [g \in Gens |-> IF g \in Legacy THEN LegacyRow(s, i)
                                 ELSE FreshRow("absent", "fake")]
  BY DEF FakeInit, Init
<1>2. ASSUME NEW g \in Gens
      PROVE  /\ gen[g].attempt = None /\ gen[g].executor = "fake"
             /\ gen[g].status \in InFlight => gen[g].status = "preparing" \/ gen[g].job # None
             /\ gen[g].status # "succeeded"
             /\ gen[g].job \in {None, JobOf(g, 0)}
             /\ gen[g].job # None => g \in Legacy
  <2>1. CASE g \in Legacy
    <3>1. gen[g] = LegacyRow(s, i)
      BY <1>p, <2>1
    <3>2. gen[g].job \in {None, JobOf(g, 0)}
      BY <2>1 DEF FakeInit
    <3> QED
      BY <1>p, <2>1, <3>1, <3>2 DEF LegacyRow, FreshRow, InFlight
  <2>2. CASE g \notin Legacy
    <3>1. gen[g] = FreshRow("absent", "fake")
      BY <1>p, <2>2
    <3> QED
      BY <3>1 DEF FreshRow, InFlight
  <2> QED
    BY <2>1, <2>2
<1>m. minted = 0
  BY DEF FakeInit, Init
<1>3. Claimed = {}
  BY <1>2 DEF Claimed
<1>4. minted = Cardinality(Claimed)
  BY <1>m, <1>3, FS_EmptySet
<1>5. \A g \in Gens : FakeRowOK(g)
  BY <1>2 DEF FakeRowOK, Identified, RecoveryAttempt, JobOf
<1>6. PICK n \in 0 .. TotalSteps :
        file = [j \in Jobs |-> IF \E g \in Legacy : gen[g].job = j
                               THEN [NewFile EXCEPT !.steps = n] ELSE NoFile]
  BY DEF FakeInit
<1>7. FakeTypeOK
  <2>1. [NewFile EXCEPT !.steps = n] \in FileType /\ NoFile \in FileType
    BY DEF NewFile, FileType
  <2>2. file \in [Jobs -> FileType]
    BY <1>6, <2>1
  <2>3. frame \in [Workers -> [Gens -> Frames]]
    BY FrameFields DEF FakeInit
  <2>4. life \in [Workers -> {"standby", "up", "lame", "dead"}]
    BY DEF FakeInit
  <2> QED
    BY <2>2, <2>3, <2>4 DEF FakeTypeOK, Frames, Pcs
<1>8. ASSUME NEW j \in Jobs PROVE FileOK(j)
  <2> SUFFICES ASSUME file[j] # NoFile
               PROVE  Identified(j[1]) /\ j = JobOf(j[1], RecoveryAttempt(j[1]))
    BY DEF FileOK
  <2>1. PICK g \in Legacy : gen[g].job = j
    BY <1>6
  <2>2. g \in Gens /\ j # None
    BY StoreAssumption
  <2>3. j = JobOf(g, 0) /\ gen[g].attempt = None
    BY <1>2, <2>1, <2>2
  <2>4. j[1] = g
    BY <2>3 DEF JobOf
  <2> QED
    BY <2>1, <2>2, <2>3, <2>4 DEF Identified, RecoveryAttempt
<1>9. \A w \in Workers, g \in Gens : FrameOK(w, g)
  BY DEF FakeInit, FrameOK, Fits, NoFrame
<1> QED
  BY <1>1, <1>4, <1>5, <1>7, <1>8, <1>9 DEF FakeInv

\* Every state of the drive satisfies the inductive invariant.
THEOREM FakeInvariant == FakeSpec => []FakeInv
<1>1. FakeInv /\ [FakeNext]_allVars => FakeInv'
  BY FakeNextOK DEF StepOK
<1> QED
  BY InitFakeInv, <1>1, PTL DEF FakeSpec

\* Whatever the drive, its recovery, its crashes and the API do to a database,
\* they do in transactions of the store.
THEOREM FakeImplementsStore == FakeSpec => FakeStoreRefined
<1>1. FakeInit => Init
  BY DEF FakeInit
<1>2. FakeInv /\ [FakeNext]_allVars => [Next]_storeVars
  BY FakeNextOK DEF StepOK
<1> QED
  BY FakeInvariant, <1>1, <1>2, PTL DEF FakeSpec, FakeStoreRefined, Spec

\* One job per generation, wholly imported: however often a generation is
\* requeued, adopted and resubmitted, and however stale the process that does
\* it, all of its submissions find one job file; it succeeds only with every
\* declared output published.
THEOREM OneJobWhollyImported == FakeSpec => []FakeJobsSound
<1>1. FakeInv => FakeJobsSound
  <2> SUFFICES ASSUME FakeInv PROVE FakeJobsSound
    OBVIOUS
  <2>1. OneJobPerGeneration
    BY DEF FakeInv, FileOK, OneJobPerGeneration
  <2>2. FakeSucceededIsComplete
    BY DEF FakeInv, FakeRowOK, FakeSucceededIsComplete
  <2> QED
    BY <2>1, <2>2 DEF FakeInv, FakeJobsSound
<1> QED
  BY FakeInvariant, <1>1, PTL

\* With the store it implements, the drive inherits what holds of every
\* database: ended rows are final, and the CHECK constraints hold.
THEOREM FakeKeepsStorePromises == FakeSpec => TerminalIsFinal /\ []ChecksHold
<1> QED
  BY FakeImplementsStore, TerminalRowsAreFinal, ConstraintsHold, PTL DEF FakeStoreRefined
=============================================================================
