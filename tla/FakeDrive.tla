------------------------------- MODULE FakeDrive -------------------------------
(***************************************************************************)
(* The fake-executor drive (worker/execution.py) with its durable scripted *)
(* executor (executors/fake.py), the recovery of stale rows that re-enters *)
(* it (worker/recovery.py) and the transactions of GenerationStore.        *)
(*                                                                         *)
(* A fake job is a JSON file shared by all processes.  Its content is      *)
(* loaded and written back in two file operations, so those are two        *)
(* actions: a process that stalls between them writes what it read before. *)
(* A drive has no error envelope: an exception leaves it as it is.         *)
(***************************************************************************)
EXTENDS GenerationStore, FiniteSets

CONSTANTS
    TotalSteps,   \* TOTAL_STEPS: inspections until a job has succeeded
    Faults        \* "vanish": job files disappear; "raise": staging or blob I/O fails

ASSUME FakeAssumption ==
    /\ TotalSteps \in Nat \ {0}
    /\ IsFiniteSet(Gens)
    /\ Gens \X (0 .. Cardinality(Gens)) \subseteq Jobs   \* one attempt per row
    /\ \A j \in Jobs : j \in Gens \X Nat
    /\ Faults \subseteq {"vanish", "raise"}

VARIABLES
    life,      \* life[w]: standby, up, maintainer dead (lame), gone
    frame,     \* frame[w][g]: the drive of g in process w
    file       \* file[j]: the job file of j, NoFile when there is none

fakeVars == <<life, frame, file>>
allVars == <<storeVars, fakeVars>>

NoFile == [steps |-> -1, cancelled |-> "no"]
NewFile == [steps |-> 0, cancelled |-> "no"]
FileType == [steps : 0 .. TotalSteps, cancelled : {"yes", "no"}] \cup {NoFile}

Steps == {"submit", "create", "persist", "submitted", "resume", "poll", "authority",
          "cancel", "cancel_write", "cancelled", "inspect", "advance", "advance_write",
          "report", "running", "outcome", "fetch", "import", "publish"}
Observations == {"none", "running", "succeeded", "cancelled", "lost"}

NoFrame == [pc |-> "idle", task |-> "none", attempt |-> None, job |-> None,
            copy |-> NoFile, obs |-> "none", step |-> 0, last |-> 0]

FakeTypeOK ==
    /\ life \in [Workers -> {"standby", "up", "lame", "dead"}]
    /\ frame \in [Workers -> [Gens ->
         [pc : Steps \cup {"idle"}, task : {"none", "work", "recovery"},
          attempt : Nat \cup {None}, job : Jobs \cup {None}, copy : FileType,
          obs : Observations, step : 0 .. TotalSteps, last : 0 .. TotalSteps]]]
    /\ file \in [Jobs -> FileType]

\* Job identity is derived from generation and attempt.
JobOf(g, a) == <<g, a>>

\* The job of a row of an older release has got somewhere; one whose row is
\* importing has succeeded.
FakeInit ==
    /\ Init
    /\ \A g \in Legacy : gen[g].job \in {None, JobOf(g, 0)}
    /\ life = [w \in Workers |-> "standby"]
    /\ frame = [w \in Workers |-> [g \in Gens |-> NoFrame]]
    /\ \E n \in 0 .. TotalSteps :
         /\ \A g \in Legacy : gen[g].status = "importing" => n = TotalSteps
         /\ file = [j \in Jobs |-> IF \E g \in Legacy : gen[g].job = j
                                   THEN [NewFile EXCEPT !.steps = n] ELSE NoFile]

At(w, g, step) == frame[w][g].pc = step
Goto(w, g, step) == frame' = [frame EXCEPT ![w][g].pc = step]
Return(w, g) == frame' = [frame EXCEPT ![w][g] = NoFrame]
Local == UNCHANGED <<storeVars, life, file>>
Rest == UNCHANGED <<life, file>>

-----------------------------------------------------------------------------
(* Mutants: recovery mints an attempt of its own; a job that never         *)
(* advances; a drive that writes its end unfenced.                         *)

OwnAttempt(g) == minted + 1
NeverAdvances(f) == f
UnfencedEnd(w, g, s) ==
    /\ gen' = [gen EXCEPT ![g].status = s]
    /\ UNCHANGED <<lease, takes, minted, permits, unsent>>
    /\ Return(w, g)

\* The attempt a recovered drive works under: the persisted one, or a fresh id
\* that no row holds (0), which is not persisted.
RecoveryAttempt(g) == IF gen[g].attempt = None THEN 0 ELSE gen[g].attempt

\* A drive ends by a lifecycle transition whose answer it ignores.
EndWith(w, g, s) ==
    /\ \/ transition_owned_generation(w, g, s)
       \/ ~ Fenced(w, g) /\ UNCHANGED storeVars
    /\ Return(w, g)

Advanced(f) == [f EXCEPT !.steps = @ + 1]
AllPublished(g) == takes[g] = Keys

\* What an exception does to the process: the work loop logs it and goes on;
\* in recovery it ends the process (initial cycle) or the maintainer task.
Raises(w, g) ==
    /\ \/ /\ frame[w][g].task = "work"
          /\ UNCHANGED life
          /\ Return(w, g)
       \/ /\ frame[w][g].task = "recovery"
          /\ life' = [life EXCEPT ![w] = "lame"]
          /\ Return(w, g)
       \/ /\ frame[w][g].task = "recovery"
          /\ life' = [life EXCEPT ![w] = "dead"]
          /\ frame' = [frame EXCEPT ![w] = [h \in Gens |-> NoFrame]]
    /\ UNCHANGED <<storeVars, file>>

-----------------------------------------------------------------------------
(* Processes and recovery. *)

Takeover(w) ==
    /\ life[w] = "standby"
    /\ acquire_worker_lease(w)
    /\ life' = [life EXCEPT ![w] = "up"]
    /\ UNCHANGED <<frame, file>>

Crash(w) ==
    /\ life[w] # "dead"
    /\ life' = [life EXCEPT ![w] = "dead"]
    /\ frame' = [frame EXCEPT ![w] = [g \in Gens |-> NoFrame]]
    /\ UNCHANGED <<storeVars, file>>

\* The work loop drives one generation at a time.
Claim(w, g) ==
    /\ life[w] \in {"up", "lame"}
    /\ \A h \in Gens : frame[w][h].task # "work"
    /\ gen[g].executor = "fake"
    /\ claim_next_generation(w, g)
    /\ frame' = [frame EXCEPT ![w][g] = [NoFrame EXCEPT !.pc = "submit",
                    !.task = "work", !.attempt = minted + 1]]
    /\ Rest

\* So does recovery.  A row this process owns is not a candidate, and a
\* preparing row without attempt is requeued if it has no handle.
Recovering(w, g) ==
    /\ life[w] = "up"
    /\ \A h \in Gens : frame[w][h].task # "recovery"
    /\ gen[g].executor = "fake"
    /\ gen[g].worker # w

Requeue(w, g) ==
    /\ Recovering(w, g)
    /\ requeue_stale_preparing_generation(w, g)
    /\ UNCHANGED fakeVars

Adopt(w, g) ==
    /\ Recovering(w, g)
    /\ ~ Requeueable(g)
    /\ adopt_stale_generation(w, g)
    /\ frame' = [frame EXCEPT ![w][g] = [NoFrame EXCEPT
                    !.pc = IF gen[g].job = None THEN "submit" ELSE "resume",
                    !.task = "recovery", !.attempt = RecoveryAttempt(g),
                    !.job = gen[g].job]]
    /\ Rest

-----------------------------------------------------------------------------
(* The drive. *)

\* executor.submit: look for the job of this identity, create it if absent.
Submit(w, g) ==
    /\ At(w, g, "submit")
    /\ LET j == JobOf(g, frame[w][g].attempt) IN
       frame' = [frame EXCEPT ![w][g] = [@ EXCEPT !.job = j,
                   !.pc = IF file[j] = NoFile THEN "create" ELSE "persist"]]
    /\ Local

Create(w, g) ==
    /\ At(w, g, "create")
    /\ file' = [file EXCEPT ![frame[w][g].job] = NewFile]
    /\ Goto(w, g, "persist")
    /\ UNCHANGED <<storeVars, life>>

\* A refused handle ends the drive; the attempt to fail the row is refused by
\* the same fence.
Persist(w, g) ==
    /\ At(w, g, "persist")
    /\ \/ persist_owned_executor_handle(w, g, frame[w][g].job) /\ Goto(w, g, "submitted")
       \/ ~ Fenced(w, g) /\ UNCHANGED storeVars /\ Return(w, g)
    /\ Rest

\* The transitions whose refusal ends the drive: submitted after a fresh
\* submission, running after an adoption, importing before publication.
Transition(w, g, step, s, next) ==
    /\ At(w, g, step)
    /\ \/ transition_owned_generation(w, g, s) /\ Goto(w, g, next)
       \/ ~ Fenced(w, g) /\ UNCHANGED storeVars /\ Return(w, g)
    /\ Rest

Submitted(w, g) == Transition(w, g, "submitted", "submitted", "poll")
Resume(w, g) == Transition(w, g, "resume", "running", "poll")
BeginImport(w, g) == Transition(w, g, "import", "importing", "publish")

\* _cancel_if_requested: intent, authority, executor.cancel, transition.
Poll(w, g) ==
    /\ At(w, g, "poll")
    /\ Goto(w, g, IF gen[g].cancel = "set" THEN "authority" ELSE "inspect")
    /\ Local

Authority(w, g) ==
    /\ At(w, g, "authority")
    /\ IF Fenced(w, g) THEN Goto(w, g, "cancel") ELSE Return(w, g)
    /\ Local

\* NOT_FOUND and TOO_LATE are left to the observation.
CancelLoad(w, g) ==
    /\ At(w, g, "cancel")
    /\ LET f == file[frame[w][g].job] IN
       IF f = NoFile \/ f.steps >= TotalSteps THEN Goto(w, g, "inspect")
       ELSE frame' = [frame EXCEPT ![w][g] = [@ EXCEPT !.pc = "cancel_write", !.copy = f]]
    /\ Local

CancelWrite(w, g) ==
    /\ At(w, g, "cancel_write")
    /\ file' = [file EXCEPT ![frame[w][g].job] =
                  [frame[w][g].copy EXCEPT !.cancelled = "yes"]]
    /\ Goto(w, g, "cancelled")
    /\ UNCHANGED <<storeVars, life>>

Cancelled(w, g) == At(w, g, "cancelled") /\ EndWith(w, g, "cancelled") /\ Rest

\* executor.inspect; progress is one ahead of the steps done.
Inspect(w, g) ==
    /\ At(w, g, "inspect")
    /\ LET f == file[frame[w][g].job]
           obs == CASE f = NoFile -> "lost"
                    [] f # NoFile /\ f.cancelled = "yes" -> "cancelled"
                    [] f # NoFile /\ f.cancelled = "no" /\ f.steps \in 0 .. TotalSteps - 1 -> "running"
                    [] OTHER -> "succeeded" IN
       frame' = [frame EXCEPT ![w][g] = [@ EXCEPT !.pc = "advance", !.obs = obs,
                   !.step = IF obs = "running" THEN f.steps + 1 ELSE 0]]
    /\ Local

\* executor.advance, a cancelled job included.
AdvanceLoad(w, g) ==
    /\ At(w, g, "advance")
    /\ LET f == file[frame[w][g].job] IN
       IF f = NoFile \/ f.steps >= TotalSteps THEN Goto(w, g, "report")
       ELSE frame' = [frame EXCEPT ![w][g] = [@ EXCEPT !.pc = "advance_write", !.copy = f]]
    /\ Local

AdvanceWrite(w, g) ==
    /\ At(w, g, "advance_write")
    /\ file' = [file EXCEPT ![frame[w][g].job] = Advanced(frame[w][g].copy)]
    /\ frame' = [frame EXCEPT ![w][g] = [@ EXCEPT !.pc = "report", !.copy = NoFile]]
    /\ UNCHANGED <<storeVars, life>>

\* New progress is written, then the row is running; a lost lease or row ends
\* the drive, a terminal row does not.
Report(w, g) ==
    /\ At(w, g, "report")
    /\ IF frame[w][g].step \in {0, frame[w][g].last} THEN Goto(w, g, "outcome")
       ELSE IF lease = w /\ gen[g].worker = w THEN Goto(w, g, "running")
       ELSE Return(w, g)
    /\ Local

NowRunning(w, g) ==
    /\ At(w, g, "running")
    /\ \/ /\ lease = w /\ gen[g].worker = w
          /\ IF Fenced(w, g) THEN transition_owned_generation(w, g, "running")
                             ELSE UNCHANGED storeVars
          /\ frame' = [frame EXCEPT ![w][g] = [@ EXCEPT !.pc = "outcome",
                                           !.last = frame[w][g].step]]
       \/ ~ (lease = w /\ gen[g].worker = w) /\ UNCHANGED storeVars /\ Return(w, g)
    /\ Rest

Outcome(w, g) ==
    /\ At(w, g, "outcome")
    /\ LET obs == frame[w][g].obs IN
       \/ obs = "running" /\ Goto(w, g, "poll") /\ UNCHANGED storeVars
       \/ obs = "succeeded" /\ Goto(w, g, "fetch") /\ UNCHANGED storeVars
       \/ obs = "cancelled" /\ EndWith(w, g, "cancelled")
       \/ obs = "lost" /\ EndWith(w, g, "interrupted")
    /\ Rest

\* Staging the outputs: the job file is read once more.
Fetch(w, g) ==
    /\ At(w, g, "fetch")
    /\ \/ file[frame[w][g].job] # NoFile /\ Goto(w, g, "import") /\ Local
       \/ file[frame[w][g].job] = NoFile /\ Raises(w, g)
       \/ "raise" \in Faults /\ Raises(w, g)

\* import_staged_outputs: one fenced transaction per output; a refusal, like
\* a failed preflight, is an exception.
Publish(w, g) ==
    /\ At(w, g, "publish")
    /\ ~ AllPublished(g)
    /\ \/ /\ \E k \in Keys \ takes[g] : publish_output(w, g, frame[w][g].attempt, k)
          /\ UNCHANGED fakeVars
       \/ /\ ~ (FencedAttempt(w, g, frame[w][g].attempt) /\ gen[g].status = "importing")
          /\ Raises(w, g)
       \/ "raise" \in Faults /\ Raises(w, g)

Finish(w, g) ==
    /\ At(w, g, "publish")
    /\ AllPublished(g)
    /\ EndWith(w, g, "succeeded")
    /\ Rest

DriveStep(w, g) ==
    \/ Submit(w, g) \/ Create(w, g) \/ Persist(w, g) \/ Submitted(w, g) \/ Resume(w, g)
    \/ Poll(w, g) \/ Authority(w, g) \/ CancelLoad(w, g) \/ CancelWrite(w, g)
    \/ Cancelled(w, g) \/ Inspect(w, g) \/ AdvanceLoad(w, g) \/ AdvanceWrite(w, g)
    \/ Report(w, g) \/ NowRunning(w, g) \/ Outcome(w, g) \/ Fetch(w, g)
    \/ BeginImport(w, g) \/ Publish(w, g) \/ Finish(w, g)

-----------------------------------------------------------------------------

\* The job store lies under the temporary directory and may be cleaned.
FileVanishes(j) ==
    /\ "vanish" \in Faults
    /\ file[j] # NoFile
    /\ file' = [file EXCEPT ![j] = NoFile]
    /\ UNCHANGED <<storeVars, life, frame>>

\* A rerun of a fake generation is, for its drive, one more creation.
Api(g) ==
    /\ create_generation(g, "fake") \/ cancel_generation(g)
    /\ UNCHANGED fakeVars

ProcessStep(w) ==
    \/ Takeover(w) \/ Crash(w)
    \/ \E g \in Gens : Claim(w, g) \/ Requeue(w, g) \/ Adopt(w, g)

FakeNext ==
    \/ \E w \in Workers : ProcessStep(w)
    \/ \E w \in Workers, g \in Gens : DriveStep(w, g)
    \/ \E j \in Jobs : FileVanishes(j)
    \/ \E g \in Gens : Api(g)

FakeSpec == FakeInit /\ [][FakeNext]_allVars

\* Drives go on, the leader claims and recovers, a standby process takes over
\* from a dead owner.
FakeFairness ==
    \A w \in Workers :
      /\ WF_allVars(Takeover(w) /\ (lease = None \/ life[lease] = "dead"))
      /\ \A g \in Gens :
           /\ WF_allVars(DriveStep(w, g))
           /\ WF_allVars(Claim(w, g) \/ Requeue(w, g) \/ Adopt(w, g))

FairFakeSpec == FakeSpec /\ FakeFairness

-----------------------------------------------------------------------------
(* Properties. *)

\* The fake drive only ever commits transactions of the store.
FakeStoreRefined == Spec

\* Submission identity is the durable (generation, attempt) pair: however
\* often a generation is adopted and resubmitted, it has one external job.
OneJobPerGeneration ==
    \A j, k \in {j \in Jobs : file[j] # NoFile} : j[1] = k[1] => j = k

\* A generation succeeds only with every declared output published, also when
\* its import was replayed by another owner from `running`.
FakeSucceededIsComplete ==
    \A g \in Gens : gen[g].status = "succeeded" => takes[g] = Keys

\* A generation in flight ends, cancel request or not, while a process that
\* leads with its maintainer alive, or may still take over, exists.
FakeTerminates ==
    \A g \in Gens :
        gen[g].status \in InFlight ~>
          \/ gen[g].status \in Terminal
          \/ ~ \E w \in Workers : life[w] = "standby" \/ (life[w] = "up" /\ lease = w)

\* One job, wholly imported: however often a fake generation is requeued,
\* adopted and resubmitted over its two-step file updates.
FakeJobsSound == FakeTypeOK /\ OneJobPerGeneration /\ FakeSucceededIsComplete
=============================================================================
