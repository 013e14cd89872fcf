------------------------------- MODULE ComfyDrive -------------------------------
(***************************************************************************)
(* The Comfy drive from a confirmed prompt to a terminal generation:       *)
(* observation, cancellation and import (_drive of comfy_pipeline.py,      *)
(* comfy_cancellation.py, executors/comfy/observe.py and cancel.py,        *)
(* generation/importer.py), composed with the submission protocol.         *)
(*                                                                         *)
(* Jobs read from /queue carry no progress (wire.py), so the progress      *)
(* write and the running transition of the loop never happen and the row   *)
(* stays `submitted` until it is importing.                                *)
(***************************************************************************)
EXTENDS ComfySubmission

CONSTANT Targeted    \* processes whose probe proved targeted, retry-safe cancel

ASSUME TargetedAssumption == Targeted \subseteq Workers

VARIABLE watch       \* watch[w][g]: locals of the observation loop

allVars == <<storeVars, driveVars, watch>>

DriveSteps == SubmissionSteps \cup
    {"poll", "look_history", "look_queue", "seen", "before_delete", "delete",
     "before_hard", "hard", "cancelled", "outcome", "outputs", "import", "fetch",
     "publish", "finish"}
Modes == {"none", "watch", "cancel", "after"}   \* who called observe_prompt
Observations == {"none", "unknown", "lost", "unreachable"} \cup Queue \cup Done

\* absent: DisappearanceTracker deadline set; outage: outage_deadline set, or
\* known to have passed.
NoWatch == [mode |-> "none", obs |-> "none", absent |-> "no", outage |-> "no"]

DriveTypeOK ==
    /\ TypeOK
    /\ life \in [Workers -> {"standby", "up", "dead"}]
    /\ frame \in [Workers -> [Gens -> FrameType(DriveSteps)]]
    /\ \A w \in Workers, g \in Gens :
         frame[w][g].pc # "idle" => life[w] = "up" /\ frame[w][g].attempt # None
    /\ RemoteTypeOK
    /\ watch \in [Workers -> [Gens ->
         [mode : Modes, obs : Observations, absent : {"no", "counting"},
          outage : {"no", "counting", "over"}]]]
    /\ \A w \in Workers, g \in Gens :
         frame[w][g].pc = "seen" => watch[w][g].obs \notin {"none", "unreachable"}

DriveInit == SubmissionInit /\ watch = [w \in Workers |-> [g \in Gens |-> NoWatch]]

Watching(w, g, v) == watch' = [watch EXCEPT ![w][g] = v]
Forget(w, g) == Watching(w, g, NoWatch)
Remote(j, s, v) == prompt' = [prompt EXCEPT ![j] = [@ EXCEPT !.state = s, !.visible = v]]
Calm == UNCHANGED <<life, wire, posts>>
Still == UNCHANGED <<prompt, watch>>

-----------------------------------------------------------------------------
(* Mutants: a soft cancel that is selected and never read back; success    *)
(* after the first output; an end that is written unfenced; a lost job     *)
(* that is waited for for ever.                                            *)

SoftNeverRead(g) == FALSE
OneOutputIsEnough(g) == takes[g] # {}
UnfencedEnd(w, g, s) ==
    /\ gen' = [gen EXCEPT ![g].status = s]
    /\ UNCHANGED <<lease, takes, minted, permits, unsent>>
    /\ EndFrame(w, g) /\ Forget(w, g)
NeverLost(v) == FALSE

\* Every fenced terminal transition of the drive, and what _require_ok makes
\* of a refused one.
End(w, g, s) ==
    \/ transition_owned_generation(w, g, s) /\ EndFrame(w, g) /\ Forget(w, g)
    \/ ~ Fenced(w, g) /\ Goto(w, g, "raise_failed") /\ UNCHANGED <<storeVars, watch>>

\* _read_soft_cancel of a row this worker owns.
SoftSelected(g) == gen[g].soft = "set"
AllPublished(g) == takes[g] = Keys
Importable == {"succeeded"}

\* The disappearance grace has run out: only after an earlier absence.
AbsenceExpired(v) == v.absent = "counting"

\* What one observe_prompt may report after the queue read of the frame.
QueueShows(w, g) ==
    LET j == frame[w][g].job IN
    IF j \in InQueue THEN {prompt[j].state}
    ELSE {"unknown"} \cup IF AbsenceExpired(watch[w][g]) THEN {"lost"} ELSE {}

\* decide_cancellation.
Decide(w, obs) ==
    CASE obs = "pending" -> "before_delete"
      [] obs = "running" /\ w \in Targeted -> "before_hard"
      [] OTHER -> "soft"

-----------------------------------------------------------------------------
(* Observation. *)

\* preparing becomes submitted; an adopted row keeps its status.
Submitted(w, g) ==
    /\ At(w, g, "confirmed")
    /\ \/ /\ gen[g].status = "preparing"
          /\ \/ transition_owned_generation(w, g, "submitted") /\ Goto(w, g, "poll")
             \/ ~ Fenced(w, g) /\ Goto(w, g, "raise_failed") /\ UNCHANGED storeVars
       \/ /\ gen[g].status # "preparing"
          /\ Goto(w, g, "poll") /\ UNCHANGED storeVars
    /\ Calm /\ Still

\* The cancellation intent is read before each observation.
Poll(w, g) ==
    /\ At(w, g, "poll")
    /\ Goto(w, g, "look_history")
    /\ Watching(w, g, [watch[w][g] EXCEPT
         !.mode = IF gen[g].cancel = "set" THEN "cancel" ELSE "watch"])
    /\ UNCHANGED <<storeVars, prompt>> /\ Calm

\* A completed observation; only the watching branch closes the outage window.
Observed(w, g, obs, absent) ==
    /\ Goto(w, g, "seen")
    /\ Watching(w, g, [watch[w][g] EXCEPT !.obs = obs, !.absent = absent,
         !.outage = IF watch[w][g].mode = "watch" THEN "no" ELSE @])

\* Targeted history first: a terminal record is final.
LookHistory(w, g) ==
    /\ At(w, g, "look_history")
    /\ IF frame[w][g].job \in InHistory
         THEN Observed(w, g, prompt[frame[w][g].job].state, "no")
         ELSE Goto(w, g, "look_queue") /\ UNCHANGED watch
    /\ UNCHANGED <<storeVars, prompt>> /\ Calm

\* Then the queue; absence from both starts or spends the disappearance grace.
LookQueue(w, g) ==
    /\ At(w, g, "look_queue")
    /\ \E obs \in QueueShows(w, g) :
         Observed(w, g, obs, IF obs \in Queue THEN "no" ELSE "counting")
    /\ UNCHANGED <<storeVars, prompt>> /\ Calm

\* Either read fails.  While watching, the outage window opens and only its
\* end interrupts; during cancellation the error leaves the loop.
ReadFails(w, g) ==
    /\ frame[w][g].pc \in {"look_history", "look_queue"}
    /\ LET v == [watch[w][g] EXCEPT !.obs = "unreachable"] IN
       \/ /\ v.mode = "watch"
          /\ Watching(w, g, [v EXCEPT !.outage = "counting"])
          /\ Goto(w, g, "poll")
       \/ /\ v.mode = "watch" /\ v.outage = "counting"
          /\ Watching(w, g, [v EXCEPT !.outage = "over"])
          /\ Goto(w, g, "interrupt")
       \/ /\ v.mode \in {"cancel", "after"}
          /\ Watching(w, g, v)
          /\ Goto(w, g, "raise_interrupted")
    /\ UNCHANGED <<storeVars, prompt>> /\ Calm

WatchSeen(w, g) ==
    /\ At(w, g, "seen") /\ watch[w][g].mode = "watch"
    /\ LET obs == watch[w][g].obs IN
       \/ obs \in Done /\ Goto(w, g, "outcome") /\ UNCHANGED <<storeVars, watch>>
       \/ obs = "lost" /\ End(w, g, "interrupted")
       \/ obs \in Queue \cup {"unknown"} /\ Goto(w, g, "poll")
            /\ UNCHANGED <<storeVars, watch>>
    /\ UNCHANGED prompt /\ Calm

-----------------------------------------------------------------------------
(* Cancellation. *)

\* A terminal prompt while cancelling: discarded if soft cancel was selected,
\* else completion wins.  A prompt that ended cancelled is reported as
\* "cancelled" and the drive returns without a transition of its own.
TerminalWhileCancelling(w, g) ==
    \/ /\ gen[g].worker # w
       /\ Goto(w, g, "raise_failed") /\ UNCHANGED <<storeVars, watch>>
    \/ /\ gen[g].worker = w
       /\ \/ SoftSelected(g) /\ End(w, g, "cancelled")
          \/ /\ ~ SoftSelected(g)
             /\ IF watch[w][g].obs = "cancelled"
                  THEN EndFrame(w, g) /\ Forget(w, g)
                  ELSE Goto(w, g, "outcome") /\ UNCHANGED watch
             /\ UNCHANGED storeVars

CancelSeen(w, g) ==
    /\ At(w, g, "seen") /\ watch[w][g].mode = "cancel"
    /\ LET obs == watch[w][g].obs IN
       \/ obs \in Done /\ TerminalWhileCancelling(w, g)
       \/ obs = "lost" /\ End(w, g, "interrupted")
       \/ /\ obs \in Queue \cup {"unknown"} /\ Decide(w, obs) = "soft"
          /\ \/ select_owned_soft_cancel(w, g) /\ Goto(w, g, "poll")
             \/ ~ Fenced(w, g) /\ Goto(w, g, "raise_failed") /\ UNCHANGED storeVars
          /\ UNCHANGED watch
       \/ /\ obs \in Queue /\ Decide(w, obs) # "soft"
          /\ Goto(w, g, Decide(w, obs)) /\ UNCHANGED <<storeVars, watch>>
    /\ UNCHANGED prompt /\ Calm

\* _require_authority_for_remote_effect.
CancelAuthority(w, g) ==
    /\ \/ At(w, g, "before_delete") /\ Authorised(w, g) /\ Goto(w, g, "delete")
       \/ At(w, g, "before_hard") /\ Authorised(w, g) /\ Goto(w, g, "hard")
       \/ /\ frame[w][g].pc \in {"before_delete", "before_hard"}
          /\ ~ Authorised(w, g)
          /\ Goto(w, g, "raise_failed")
    /\ UNCHANGED storeVars /\ Calm /\ Still

\* TOO_LATE observes once more, on behalf of _after_remote_cancel.
TooLate(w, g) ==
    /\ Goto(w, g, "look_history")
    /\ Watching(w, g, [watch[w][g] EXCEPT !.mode = "after"])

\* Queue deletion: acts on a pending prompt, is refused for any other, and
\* the transport may lose the answer either way.
DeletePending(w, g) ==
    /\ At(w, g, "delete")
    /\ LET j == frame[w][g].job IN
       \/ /\ prompt[j].state = "pending"
          /\ Remote(j, "deleted", "no")
          /\ Goto(w, g, "cancelled") \/ Goto(w, g, "poll")
          /\ UNCHANGED watch
       \/ prompt[j].state # "pending" /\ TooLate(w, g) /\ UNCHANGED prompt
       \/ Goto(w, g, "poll") /\ Still
    /\ UNCHANGED storeVars /\ Calm

\* The atomic per-job cancel: acts on a queued or running prompt, is a no-op
\* otherwise.
CancelJob(w, g) ==
    /\ At(w, g, "hard")
    /\ LET j == frame[w][g].job IN
       \/ /\ prompt[j].state = "running"
          /\ Remote(j, "cancelled", "yes")
          /\ Goto(w, g, "cancelled") \/ Goto(w, g, "poll")
          /\ UNCHANGED watch
       \/ prompt[j].state # "running" /\ TooLate(w, g) /\ UNCHANGED prompt
       \/ Goto(w, g, "poll") /\ Still
    /\ UNCHANGED storeVars /\ Calm

\* The remote operation was accepted.
RemoteCancelled(w, g) ==
    /\ At(w, g, "cancelled")
    /\ End(w, g, "cancelled")
    /\ UNCHANGED prompt /\ Calm

\* After TOO_LATE: a terminal record wins, anything else counts as absent.
AfterSeen(w, g) ==
    /\ At(w, g, "seen") /\ watch[w][g].mode = "after"
    /\ \/ watch[w][g].obs \in Done /\ TerminalWhileCancelling(w, g)
       \/ watch[w][g].obs \notin Done /\ End(w, g, "cancelled")
    /\ UNCHANGED prompt /\ Calm

-----------------------------------------------------------------------------
(* The end of the prompt and the import of its outputs. *)

Outcome(w, g) ==
    /\ At(w, g, "outcome")
    /\ LET obs == watch[w][g].obs IN
       \/ obs \in Importable /\ Goto(w, g, "outputs") /\ UNCHANGED <<storeVars, watch>>
       \/ obs \notin Importable /\ End(w, g, obs)
    /\ UNCHANGED prompt /\ Calm

\* History is read again for the outputs: vanished, unreadable, or resolved
\* against the captured contract, which may fail.
ReadOutputs(w, g) ==
    /\ At(w, g, "outputs")
    /\ \/ frame[w][g].job \notin InHistory /\ End(w, g, "interrupted")
       \/ /\ \/ Goto(w, g, "raise_interrupted")
             \/ /\ frame[w][g].job \in InHistory
                /\ Goto(w, g, "import") \/ Goto(w, g, "raise_failed")
          /\ UNCHANGED <<storeVars, watch>>
    /\ UNCHANGED prompt /\ Calm

BeginImport(w, g) ==
    /\ At(w, g, "import")
    /\ \/ transition_owned_generation(w, g, "importing") /\ Goto(w, g, "fetch")
       \/ ~ Fenced(w, g) /\ Goto(w, g, "raise_failed") /\ UNCHANGED storeVars
    /\ Calm /\ Still

\* Streaming every output to staging, then the preflight of the whole set:
\* nothing durable but blobs, and any failure leaves through the envelope.
Fetch(w, g) ==
    /\ At(w, g, "fetch")
    /\ \E step \in {"publish"} \cup Raising : Goto(w, g, step)
    /\ UNCHANGED storeVars /\ Calm /\ Still

\* One fenced transaction per output.
Publish(w, g) ==
    /\ At(w, g, "publish")
    /\ ~ AllPublished(g)
    /\ \/ /\ \E k \in Keys \ takes[g] : publish_output(w, g, frame[w][g].attempt, k)
          /\ UNCHANGED frame
       \/ /\ ~ (FencedAttempt(w, g, frame[w][g].attempt) /\ gen[g].status = "importing")
          /\ Goto(w, g, "raise_failed")
          /\ UNCHANGED storeVars
    /\ Calm /\ Still

Finish(w, g) ==
    /\ At(w, g, "publish")
    /\ AllPublished(g)
    /\ End(w, g, "succeeded")
    /\ UNCHANGED prompt /\ Calm

DriveStep(w, g) ==
    \/ Submitted(w, g) \/ Poll(w, g) \/ LookHistory(w, g) \/ LookQueue(w, g)
    \/ ReadFails(w, g) \/ WatchSeen(w, g) \/ CancelSeen(w, g) \/ CancelAuthority(w, g)
    \/ DeletePending(w, g) \/ CancelJob(w, g) \/ RemoteCancelled(w, g)
    \/ AfterSeen(w, g) \/ Outcome(w, g) \/ ReadOutputs(w, g) \/ BeginImport(w, g)
    \/ Fetch(w, g) \/ Publish(w, g) \/ Finish(w, g)

\* A frame that ended, by the envelope or with its process, has no locals.
ForgetEnded ==
    watch' = [w \in Workers |-> [g \in Gens |->
                IF frame'[w][g].pc = "idle" THEN NoWatch ELSE watch[w][g]]]

DriveNext ==
    \/ SubmissionNext /\ ForgetEnded
    \/ \E w \in Workers, g \in Gens : DriveStep(w, g)

DriveSpec == DriveInit /\ [][DriveNext]_allVars

\* A deadline of the frame has passed when it is looked at: rediscovery grace,
\* disappearance grace or outage window.
DeadlinePasses(w, g) ==
    \/ GiveUp(w, g) /\ ForgetEnded
    \/ LookQueue(w, g) /\ watch'[w][g].obs = "lost"
    \/ ReadFails(w, g) /\ watch'[w][g].outage = "over"

FrameStep(w, g) ==
    \/ (SubmissionStep(w, g) \/ Adopt(w, g)) /\ ForgetEnded
    \/ DriveStep(w, g)

\* Frames make progress and the leader adopts; a deadline passes however often
\* the poll is repeated; ComfyUI runs what it has queued; a standby process
\* takes over from a dead owner.
DriveFairness ==
    /\ \A j \in Jobs : WF_allVars((RemoteStarts(j) \/ RemoteFinishes(j)) /\ ForgetEnded)
    /\ \A w \in Workers :
         /\ WF_allVars(Takeover(w) /\ (lease = None \/ life[lease] = "dead") /\ ForgetEnded)
         /\ \A g \in Gens : WF_allVars(FrameStep(w, g)) /\ SF_allVars(DeadlinePasses(w, g))

FairDriveSpec == DriveSpec /\ DriveFairness

-----------------------------------------------------------------------------
(* Properties. *)

\* Everything the drive does to the database is a transaction of the store:
\* this specification implements GenerationStore.
StoreRefined == Spec

\* A generation succeeds only with every output of its captured contract
\* published, whatever crashes and adoptions its import went through.
SucceededIsComplete ==
    \A g \in Gens : gen[g].status = "succeeded" => takes[g] = Keys

\* A Take exists only if the prompt confirmed for this generation ran to
\* success: no failed, cancelled, lost or foreign prompt is ever imported.
PublishedWasRun ==
    \A g \in Gens : takes[g] # {} =>
        gen[g].job # None /\ prompt[gen[g].job].state = "succeeded"
          /\ prompt[gen[g].job].g = g

\* Soft cancel, once durably selected, publishes nothing: no Take is added to
\* the generation by this or any later owner, even if the prompt succeeds.
SoftNeverPublishes ==
    [][\A g \in Gens : gen[g].soft = "set" => takes'[g] = takes[g]]_allVars

\* A cancelled generation has no Takes.
CancelledHasNoTakes == \A g \in Gens : gen[g].status = "cancelled" => takes[g] = {}

\* "Drive one claimed/adopted comfy Generation to a terminal status": recovery
\* skips the rows of its own process, so a row that the leader owns and that
\* is not terminal must have a frame, or nobody will ever finish it.
OwnedRowIsDriven ==
    \A w \in Workers, g \in Gens :
        life[w] = "up" /\ lease = w /\ gen[g].worker = w /\ gen[g].status \in InFlight
          => frame[w][g].pc # "idle"

\* A process that leads or may still take over.
Successor(w) == life[w] = "standby" \/ (life[w] = "up" /\ lease = w)

\* A claimed generation ends, cancel request or not, while a successor lives.
DriveTerminates ==
    \A g \in Gens :
        gen[g].status \in InFlight ~>
          gen[g].status \in Terminal \/ ~ \E w \in Workers : Successor(w)

\* A Take is the outcome of a run: complete when the generation succeeded, none
\* when it was cancelled, and only ever from the prompt that is its own.
TakesAreEarned ==
    DriveTypeOK /\ SucceededIsComplete /\ PublishedWasRun /\ CancelledHasNoTakes
=============================================================================
