---------------------------- MODULE ComfySubmission ----------------------------
(***************************************************************************)
(* The durable Comfy submission protocol: drive_comfy_generation up to the *)
(* prompt identity (worker/comfy_pipeline.py), run_comfy_submission with   *)
(* its rediscovery (worker/comfy_submission.py, executors/comfy/) and the  *)
(* recovery that re-enters it (worker/recovery.py).                        *)
(*                                                                         *)
(* A frame is one activation of the drive in one worker process; every     *)
(* await of the code ends an action, so a crash, a takeover, a cancel      *)
(* request or a step of the executor can fall between any two.  The        *)
(* executor is external: a POST travels on `wire`, may be enqueued long    *)
(* after its sender stopped waiting, and prompts can be lost.  Other       *)
(* clients of the same ComfyUI have prompts of their own.                  *)
(***************************************************************************)
EXTENDS GenerationStore, FiniteSets

CONSTANT Foreign   \* prompt ids of other clients, without our marker

ASSUME ForeignAssumption == Foreign \subseteq Jobs

VARIABLES
    life,      \* life[w]: has the process acquired the lease, is it gone
    frame,     \* frame[w][g]: the drive of g in process w
    wire,      \* POST /prompt requests that have not been handled
    prompt,    \* prompt[j]: what ComfyUI knows of prompt id j
    posts      \* auxiliary: POSTs sent for g

driveVars == <<life, frame, wire, prompt, posts>>

Done == {"succeeded", "failed", "cancelled"}   \* terminal states in history
Queue == {"pending", "running"}
SubmissionSteps == {"entry", "prework", "resolve", "artifact", "permit", "authority",
                    "post", "posting", "queue", "history", "absent", "confirm",
                    "uncertain", "interrupt", "confirmed"}
Raising == {"raise_failed", "raise_interrupted"}

NoPrompt == [state |-> "none", visible |-> "no", g |-> None, attempt |-> None, by |-> None]
NoFrame == [pc |-> "idle", attempt |-> None, job |-> None, seen |-> {}]

FrameType(Steps) ==
    [pc : {"idle"} \cup Steps \cup Raising, attempt : Nat \cup {None},
     job : Jobs \cup {None}, seen : SUBSET Jobs]

RemoteTypeOK ==
    /\ wire \subseteq [g : Gens, attempt : Nat, by : Workers]
    /\ prompt \in [Jobs -> [state : {"none", "lost", "deleted"} \cup Queue \cup Done,
                            visible : {"yes", "no"},
                            g : Gens \cup {None}, attempt : Nat \cup {None},
                            by : Workers \cup {None}]]

SubmissionInit ==
    /\ Init
    /\ life = [w \in Workers |-> "standby"]
    /\ frame = [w \in Workers |-> [g \in Gens |-> NoFrame]]
    /\ wire = {}
    /\ prompt = [j \in Jobs |-> [NoPrompt EXCEPT
                   !.state = IF j \in Foreign THEN "pending" ELSE "none"]]
    /\ posts = [g \in Gens |-> 0]

At(w, g, step) == frame[w][g].pc = step
Goto(w, g, step) == frame' = [frame EXCEPT ![w][g].pc = step]
Holding(w, g, j, step) == frame' = [frame EXCEPT ![w][g] = [@ EXCEPT !.pc = step, !.job = j]]
EndFrame(w, g) == frame' = [frame EXCEPT ![w][g] = NoFrame]
Quiet == UNCHANGED <<life, wire, prompt, posts>>

-----------------------------------------------------------------------------
(* Mutants: a refused permission that posts all the same; evidence matched *)
(* by nothing.                                                             *)

PostWhenRefused(w, g) ==
    /\ ~ (FencedAttempt(w, g, frame[w][g].attempt) /\ PermitAvailable(g))
    /\ Goto(w, g, "post")
    /\ UNCHANGED storeVars
MatchAnyMarker(w, g) == {j \in Jobs : prompt[j].state # "none"}

\* Only a not_started row does the prework; every other state is resolved
\* without ever posting.
MayPrepare(sub) == sub = "not_started"

\* Prompts that carry the marker of the frame's generation and attempt.
Marked(w, g) ==
    {j \in Jobs : prompt[j].g = g /\ prompt[j].attempt = frame[w][g].attempt}
InQueue == {j \in Jobs : prompt[j].state \in Queue}
InHistory == {j \in Jobs : prompt[j].state \in Done /\ prompt[j].visible = "yes"}

\* The monotonic rediscovery deadline may have passed.
GraceExpired(w, g) == TRUE

NewFrame(a) == [NoFrame EXCEPT !.pc = "entry", !.attempt = a]

-----------------------------------------------------------------------------
(* Processes and recovery. *)

\* A process acquires once; whether the previous owner is dead, stalled or
\* merely late is the business of WorkerLease.
Takeover(w) ==
    /\ life[w] = "standby"
    /\ acquire_worker_lease(w)
    /\ life' = [life EXCEPT ![w] = "up"]
    /\ UNCHANGED <<frame, wire, prompt, posts>>

\* The process dies with every frame it has; requests on the wire survive.
Crash(w) ==
    /\ life[w] # "dead"
    /\ life' = [life EXCEPT ![w] = "dead"]
    /\ frame' = [frame EXCEPT ![w] = [g \in Gens |-> NoFrame]]
    /\ UNCHANGED <<storeVars, wire, prompt, posts>>

\* process_next_generation, dispatched by the persisted executor.
Claim(w, g) ==
    /\ life[w] = "up"
    /\ gen[g].executor = "comfy"
    /\ At(w, g, "idle")
    /\ claim_next_generation(w, g)
    /\ frame' = [frame EXCEPT ![w][g] = NewFrame(minted + 1)]
    /\ Quiet

\* reconcile_stale_generations and _continue: the persisted attempt is reused,
\* and rows this process owns are skipped.
Adopt(w, g) ==
    /\ life[w] = "up"
    /\ gen[g].executor = "comfy"
    /\ gen[g].worker # w
    /\ At(w, g, "idle")
    /\ adopt_stale_generation(w, g)
    /\ frame' = [frame EXCEPT ![w][g] = NewFrame(gen[g].attempt)]
    /\ Quiet

-----------------------------------------------------------------------------
(* The frame. *)

\* The durable submission state decides what the frame may do at all.
Entry(w, g) ==
    /\ At(w, g, "entry")
    /\ \/ gen[g].worker # w /\ Goto(w, g, "raise_failed")
       \/ /\ gen[g].worker = w
          /\ \/ gen[g].sub = "uncertain" /\ Goto(w, g, "interrupt")
             \/ gen[g].sub = "confirmed" /\ Holding(w, g, gen[g].job, "confirmed")
             \/ MayPrepare(gen[g].sub) /\ Goto(w, g, "prework")
             \/ gen[g].sub = "submission_possible" /\ Goto(w, g, "resolve")
    /\ UNCHANGED storeVars /\ Quiet

\* Artifacts, blob verification, uploads and translation: succeed, fail on
\* the request, or lose the executor.
Prework(w, g) ==
    /\ At(w, g, "prework")
    /\ \E step \in {"resolve"} \cup Raising : Goto(w, g, step)
    /\ UNCHANGED storeVars /\ Quiet

\* run_comfy_submission reads the state again after the prework.
Resolve(w, g) ==
    /\ At(w, g, "resolve")
    /\ Goto(w, g, IF gen[g].worker # w THEN "raise_failed"
                  ELSE IF MayPrepare(gen[g].sub) THEN "artifact"
                  ELSE IF gen[g].sub = "uncertain" THEN "interrupt"
                  ELSE "queue")
    /\ UNCHANGED storeVars /\ Quiet

\* The canonical payload is persisted before the permit is asked for.
Artifact(w, g) ==
    /\ At(w, g, "artifact")
    /\ \/ /\ persist_owned_executor_submission(w, g, frame[w][g].attempt)
          /\ Goto(w, g, "permit")
       \/ /\ ~ (FencedAttempt(w, g, frame[w][g].attempt) /\ gen[g].sub = "not_started"
                  /\ gen[g].job = None)
          /\ Goto(w, g, "raise_failed")
          /\ UNCHANGED storeVars
    /\ Quiet

\* The answers of mark_submission_possible that are not MAY_POST: authority
\* lost, another attempt or a missing artifact raises; a consumed permit
\* rediscovers, and so does a row that has become terminal.
PermitRefused(w, g) ==
    LET ours == gen[g].attempt = frame[w][g].attempt IN
    /\ ~ (Fenced(w, g) /\ ours /\ PermitAvailable(g) /\ gen[g].artifact = "set")
    /\ Goto(w, g, IF /\ lease = w /\ gen[g].worker = w
                     /\ gen[g].status \in Terminal \/ (ours /\ ~PermitAvailable(g))
                  THEN "queue" ELSE "raise_failed")
    /\ UNCHANGED storeVars

Permit(w, g) ==
    /\ At(w, g, "permit")
    /\ \/ /\ mark_submission_possible(w, g, frame[w][g].attempt)
          /\ Goto(w, g, "authority")
       \/ PermitRefused(w, g)
    /\ Quiet

\* refresh_worker_lease and verify_execution_authority before the effect.
Authorised(w, g) == Fenced(w, g)
Authority(w, g) ==
    /\ At(w, g, "authority")
    /\ Goto(w, g, IF Authorised(w, g) THEN "post" ELSE "raise_failed")
    /\ UNCHANGED storeVars /\ Quiet

\* submit_prompt: the one request leaves, whatever happened since the check.
Post(w, g) ==
    /\ At(w, g, "post")
    /\ wire' = wire \cup {[g |-> g, attempt |-> frame[w][g].attempt, by |-> w]}
    /\ posts' = [posts EXCEPT ![g] = @ + 1]
    /\ Goto(w, g, "posting")
    /\ UNCHANGED <<storeVars, life, prompt>>

\* 200 with a prompt id; a validation error, which proves nothing was
\* enqueued; or anything else, ambiguous whether or not it was handled.
PostReturns(w, g) ==
    /\ At(w, g, "posting")
    /\ \/ \E j \in Jobs :
            /\ prompt[j].g = g /\ prompt[j].by = w
            /\ Holding(w, g, j, "confirm")
            /\ UNCHANGED wire
       \/ \E m \in wire :
            /\ m.g = g /\ m.by = w
            /\ wire' = wire \ {m}
            /\ Goto(w, g, "raise_failed")
       \/ Goto(w, g, "queue") /\ UNCHANGED wire
    /\ UNCHANGED <<storeVars, life, prompt, posts>>

\* find_attempt reads /queue, then /history, and merges what it saw.
ReadQueue(w, g) ==
    /\ At(w, g, "queue")
    /\ \/ frame' = [frame EXCEPT ![w][g] = [@ EXCEPT !.pc = "history",
                                            !.seen = Marked(w, g) \cap InQueue]]
       \/ Goto(w, g, "absent")
    /\ UNCHANGED storeVars /\ Quiet

ReadHistory(w, g) ==
    /\ At(w, g, "history")
    /\ LET found == frame[w][g].seen \cup (Marked(w, g) \cap InHistory) IN
       \/ /\ Cardinality(found) = 1
          /\ \E j \in found : frame' = [frame EXCEPT ![w][g] =
               [@ EXCEPT !.pc = "confirm", !.job = j, !.seen = {}]]
       \/ Cardinality(found) > 1 /\ Goto(w, g, "raise_failed")
       \/ found = {} /\ Goto(w, g, "absent")
       \/ Goto(w, g, "absent")
    /\ UNCHANGED storeVars /\ Quiet

\* Absent, or unreadable: poll again until the deadline, which never resets.
PollAgain(w, g) ==
    /\ At(w, g, "absent")
    /\ frame' = [frame EXCEPT ![w][g] = [@ EXCEPT !.pc = "queue", !.seen = {}]]
    /\ UNCHANGED storeVars /\ Quiet

GiveUp(w, g) ==
    /\ At(w, g, "absent")
    /\ GraceExpired(w, g)
    /\ \/ /\ mark_submission_uncertain(w, g, frame[w][g].attempt)
          /\ Goto(w, g, "interrupt")
       \/ /\ ~ (FencedAttempt(w, g, frame[w][g].attempt) /\ SubmissionOpen(g))
          /\ Goto(w, g, "raise_failed")
          /\ UNCHANGED storeVars
    /\ Quiet

\* _confirm_or_conflict: idempotent for the same prompt, conflict for another.
Confirm(w, g) ==
    /\ At(w, g, "confirm")
    /\ LET a == frame[w][g].attempt
           j == frame[w][g].job IN
       \/ /\ confirm_owned_submission(w, g, a, j)
          /\ Goto(w, g, "confirmed")
       \/ /\ ~ (FencedAttempt(w, g, a) /\ SubmissionOpen(g))
          /\ Goto(w, g, IF Fenced(w, g) /\ gen[g].job = j
                          THEN "confirmed" ELSE "raise_failed")
          /\ UNCHANGED storeVars
    /\ Quiet

\* A fenced terminal transition that ends the drive, or the exception a
\* refused one raises (_require_ok).
Terminalize(w, g, s) ==
    \/ transition_owned_generation(w, g, s) /\ EndFrame(w, g)
    \/ ~ Fenced(w, g) /\ Goto(w, g, "raise_failed") /\ UNCHANGED storeVars

\* An attempt that stayed ambiguous ends the generation.
Interrupt(w, g) ==
    /\ At(w, g, "interrupt")
    /\ Terminalize(w, g, "interrupted")
    /\ Quiet

\* The envelope of drive_comfy_generation: a fenced terminal transition, or,
\* when authority is gone, the exception leaves the drive.
Envelope(w, g) ==
    /\ \/ /\ At(w, g, "raise_failed")
          /\ transition_owned_generation(w, g, "failed")
       \/ /\ At(w, g, "raise_interrupted")
          /\ transition_owned_generation(w, g, "interrupted")
       \/ /\ frame[w][g].pc \in Raising
          /\ ~ Fenced(w, g)
          /\ UNCHANGED storeVars
    /\ EndFrame(w, g)
    /\ Quiet

SubmissionStep(w, g) ==
    \/ Entry(w, g) \/ Prework(w, g) \/ Resolve(w, g) \/ Artifact(w, g)
    \/ Permit(w, g) \/ Authority(w, g) \/ Post(w, g) \/ PostReturns(w, g)
    \/ ReadQueue(w, g) \/ ReadHistory(w, g) \/ PollAgain(w, g) \/ GiveUp(w, g)
    \/ Confirm(w, g) \/ Interrupt(w, g) \/ Envelope(w, g)

-----------------------------------------------------------------------------
(* ComfyUI, as far as the client can tell. *)

RemoteEnqueues(m, j) ==
    /\ m \in wire
    /\ prompt[j].state = "none"
    /\ prompt' = [prompt EXCEPT ![j] = [state |-> "pending", visible |-> "no",
                                        g |-> m.g, attempt |-> m.attempt, by |-> m.by]]
    /\ wire' = wire \ {m}
    /\ UNCHANGED <<storeVars, life, frame, posts>>

\* A request that never arrives.
RequestLost(m) ==
    /\ wire' = wire \ {m}
    /\ UNCHANGED <<storeVars, life, frame, prompt, posts>>

Becomes(j, s, v) ==
    /\ prompt' = [prompt EXCEPT ![j] = [@ EXCEPT !.state = s, !.visible = v]]
    /\ UNCHANGED <<storeVars, life, frame, wire, posts>>

RemoteStarts(j) == prompt[j].state = "pending" /\ Becomes(j, "running", "no")
RemoteFinishes(j) ==
    prompt[j].state = "running" /\ \E s \in {"succeeded", "failed"} : Becomes(j, s, "yes")

\* History is trimmed; a restart of ComfyUI drops its queue.
RemoteForgets(j) ==
    \/ prompt[j].state \in Done /\ prompt[j].visible = "yes"
         /\ Becomes(j, prompt[j].state, "no")
    \/ prompt[j].state \in Queue /\ Becomes(j, "lost", "no")

RemoteStep ==
    \/ \E m \in wire, j \in Jobs : RemoteEnqueues(m, j)
    \/ \E m \in wire : RequestLost(m)
    \/ \E j \in Jobs : RemoteStarts(j) \/ RemoteFinishes(j) \/ RemoteForgets(j)

-----------------------------------------------------------------------------

\* The API creates Comfy generations and cancels them.  A rerun of one is,
\* for its drive, one more creation.
Api(g) ==
    /\ create_generation(g, "comfy") \/ cancel_generation(g)
    /\ UNCHANGED driveVars

ProcessStep(w) == Takeover(w) \/ Crash(w) \/ \E g \in Gens : Claim(w, g) \/ Adopt(w, g)

SubmissionNext ==
    \/ \E w \in Workers : ProcessStep(w)
    \/ \E w \in Workers, g \in Gens : SubmissionStep(w, g)
    \/ RemoteStep
    \/ \E g \in Gens : Api(g)

-----------------------------------------------------------------------------
(* Properties. *)

\* "client.submit_prompt() EXACTLY ONCE": however often a generation changes
\* hands, crashes or times out, at most one POST ever leaves for it.
AtMostOnePost == \A g \in Gens : posts[g] <= 1

\* A confirmed handle is a prompt of this very generation and attempt, also
\* when it was rediscovered among the prompts of others.
ConfirmedIsOurs ==
    \A g \in Gens : gen[g].sub = "confirmed" =>
        /\ prompt[gen[g].job].g = g
        /\ prompt[gen[g].job].attempt = gen[g].attempt

\* What the API cancelled on the spot never reaches the executor: no POST
\* for it is ever sent, not even by a frame that was already past its checks.
CancelledNeverPosted == \A g \in unsent : posts[g] = 0
=============================================================================
