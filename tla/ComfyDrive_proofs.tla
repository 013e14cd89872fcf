--------------------------- MODULE ComfyDrive_proofs ---------------------------
(***************************************************************************)
(* Proofs about ComfyDrive, the submission protocol included, for every    *)
(* set of processes, generations, prompts and output keys: it implements   *)
(* GenerationStore, posts a generation at most once and never one that was *)
(* cancelled unsubmitted, confirms only its own prompts and earns its      *)
(* Takes.                                                                  *)
(*                                                                         *)
(* The inductive invariant speaks of every frame, also of those whose      *)
(* process has lost the lease or the row: the clauses of FrameOK hold of   *)
(* all frames, those of OwnerOK only while the frame is the current one.   *)
(* A frame that stopped being current never becomes current again.         *)
(***************************************************************************)
EXTENDS ComfyDrive, GenerationStore_proofs

USE StoreAssumption

\* The frame may still send the one POST of its generation.
Armed(w, g) == frame[w][g].pc \in {"authority", "post"}

\* From here on the frame works on the confirmed prompt of its row.
Bound == {"confirmed", "poll", "look_history", "look_queue", "seen", "before_delete",
          "delete", "before_hard", "hard", "cancelled", "outcome", "outputs", "import",
          "fetch", "publish"}
Looking == {"look_history", "look_queue", "seen"}
Importing == {"outputs", "import", "fetch", "publish"}

\* An armed frame holds the only permit, and nothing has been posted yet.
PostsOK(g) ==
    /\ posts[g] <= 1
    /\ posts[g] > 0 => gen[g].sub # "not_started"
    /\ \A w \in Workers : Armed(w, g) =>
         /\ gen[g].sub # "not_started" /\ posts[g] = 0
         /\ \A v \in Workers : Armed(v, g) => v = w

\* A marker, on the wire or on a prompt, names the attempt of its generation.
MarkerOK(j) ==
    /\ prompt[j].state = "none" => prompt[j].g = None
    /\ prompt[j].g # None =>
         prompt[j].attempt # None /\ gen[prompt[j].g].attempt = prompt[j].attempt
WireOK(m) == gen[m.g].attempt = m.attempt

\* What every frame knows of its row and of its prompt.
FrameOK(w, g) ==
    LET f == frame[w][g]
        obs == watch[w][g].obs IN
    /\ f.pc # "idle" => gen[g].executor = "comfy" /\ gen[g].attempt = f.attempt
    /\ f.pc = "confirm" =>
         f.job \in Jobs /\ prompt[f.job].g = g /\ prompt[f.job].attempt = f.attempt
    /\ \A j \in f.seen : prompt[j].g = g /\ prompt[j].attempt = f.attempt
    /\ f.pc \in Bound => gen[g].sub = "confirmed" /\ f.job = gen[g].job
    /\ f.pc \in {"seen", "outcome"} /\ obs \in Done => prompt[f.job].state = obs
    /\ f.pc = "outcome" => obs \in Done
    /\ f.pc \in Importing => prompt[f.job].state = "succeeded"
    /\ f.pc = "cancelled" => prompt[f.job].state \in {"deleted", "cancelled"}

Current(w, g) == lease = w /\ gen[g].worker = w

\* What the current frame knows of the Takes and of the cancellation.
OwnerOK(w, g) ==
    LET f == frame[w][g]
        v == watch[w][g] IN
    Current(w, g) =>
      /\ f.pc \in Looking => v.mode # "none"
      /\ f.pc \in Looking /\ v.mode = "watch" => gen[g].soft # "set"
      /\ f.pc \in {"outcome"} \cup Importing => gen[g].soft # "set"
      /\ f.pc = "seen" /\ v.obs \in Done => gen[g].soft # "set" \/ takes[g] = {}
      /\ \/ f.pc = "seen" /\ v.obs \in Queue
         \/ f.pc \in {"before_delete", "delete", "before_hard", "hard"}
         \/ f.pc \in Looking /\ v.mode = "after"
         => takes[g] = {}
      /\ \/ f.pc = "look_queue"
         \/ f.pc = "seen" /\ v.obs \in {"unknown", "lost"}
         => takes[g] = {} \/ prompt[f.job].visible = "no"

\* What the Takes of a row say about its prompt and about its end.
TakesOK(g) ==
    /\ takes[g] # {} =>
         /\ gen[g].executor = "comfy" /\ gen[g].sub = "confirmed"
         /\ prompt[gen[g].job].state = "succeeded"
    /\ gen[g].soft = "set" /\ takes[g] # {} => prompt[gen[g].job].visible = "no"
    /\ gen[g].status = "succeeded" => takes[g] = Keys
    /\ gen[g].status = "cancelled" => takes[g] = {}

DriveInv ==
    /\ StoreInv /\ DriveTypeOK /\ posts \in [Gens -> Nat]
    /\ \A g \in Gens : PostsOK(g) /\ TakesOK(g)
    /\ \A j \in Jobs : MarkerOK(j)
    /\ \A m \in wire : WireOK(m)
    /\ \A w \in Workers, g \in Gens : FrameOK(w, g) /\ OwnerOK(w, g)
    /\ ConfirmedIsOurs

-----------------------------------------------------------------------------
(* What a step may do to the variables that frames share.                  *)

\* Markers never change, and neither does the end of a prompt; a record that
\* left history does not come back.
PromptsKept ==
    \A j \in Jobs :
      /\ prompt[j].g # None =>
           prompt'[j].g = prompt[j].g /\ prompt'[j].attempt = prompt[j].attempt
      /\ prompt[j].state \in Done \cup {"deleted"} => prompt'[j].state = prompt[j].state
      /\ prompt[j].state \in Done /\ prompt[j].visible = "no" =>
           prompt'[j].visible = "no"

\* Everything frame (v, h) sees of a step that is not its own.
Undisturbed(v, h) ==
    /\ frame'[v][h] = frame[v][h]
    /\ frame[v][h].pc # "idle" =>
         /\ watch'[v][h] = watch[v][h]
         /\ Current(v, h)' =>
              Current(v, h) /\ takes'[h] = takes[h] /\ gen'[h].soft = gen[h].soft

\* What frame (w, g) may do to everybody else: it changes its own row only, and
\* only while it holds the lease.
OwnStep(w, g) ==
    /\ lease' = lease /\ life' = life
    /\ \A h \in Gens \ {g} :
         gen'[h] = gen[h] /\ takes'[h] = takes[h] /\ posts'[h] = posts[h]
    /\ (gen' = gen /\ takes' = takes) \/ lease = w
    /\ \A v \in Workers, h \in Gens : v # w \/ h # g =>
         /\ frame'[v][h] = frame[v][h]
         /\ frame[v][h].pc # "idle" => watch'[v][h] = watch[v][h]

-----------------------------------------------------------------------------
Pcs == {"idle"} \cup DriveSteps \cup Raising
Frames == FrameType(DriveSteps)
Watches == [mode : Modes, obs : Observations, absent : {"no", "counting"},
            outage : {"no", "counting", "over"}]

\* Moving one frame leaves every other where it is.
LEMMA FrameUpdate ==
    ASSUME frame \in [Workers -> [Gens -> Frames]], NEW w \in Workers, NEW g \in Gens,
           NEW f \in Frames, frame' = [frame EXCEPT ![w][g] = f]
    PROVE  /\ frame' \in [Workers -> [Gens -> Frames]]
           /\ frame'[w][g] = f
           /\ \A v \in Workers, h \in Gens :
                v # w \/ h # g => frame'[v][h] = frame[v][h]
OBVIOUS

\* The fields of a frame have their types.
LEMMA FrameFields ==
    ASSUME NEW f \in Frames
    PROVE  /\ f.pc \in Pcs /\ f.attempt \in Nat \cup {None}
           /\ f.job \in Jobs \cup {None} /\ f.seen \in SUBSET Jobs
BY DEF Frames, FrameType, Pcs

\* A frame whose step changes is a frame.
LEMMA FrameAtStep ==
    ASSUME NEW f \in Frames, NEW s \in Pcs
    PROVE  /\ [f EXCEPT !.pc = s] \in Frames
           /\ [f EXCEPT !.pc = s].pc = s
           /\ [f EXCEPT !.pc = s].attempt = f.attempt
           /\ [f EXCEPT !.pc = s].job = f.job
           /\ [f EXCEPT !.pc = s].seen = f.seen
BY DEF Frames, FrameType, Pcs

\* Goto moves the program counter of its frame and nothing else.
LEMMA GotoFrame ==
    ASSUME frame \in [Workers -> [Gens -> Frames]], NEW w \in Workers, NEW g \in Gens,
           NEW s \in Pcs, Goto(w, g, s)
    PROVE  /\ frame' \in [Workers -> [Gens -> Frames]]
           /\ frame'[w][g].pc = s
           /\ frame'[w][g].attempt = frame[w][g].attempt
           /\ frame'[w][g].job = frame[w][g].job
           /\ frame'[w][g].seen = frame[w][g].seen
           /\ \A v \in Workers, h \in Gens :
                v # w \/ h # g => frame'[v][h] = frame[v][h]
<1> DEFINE f == [frame[w][g] EXCEPT !.pc = s]
<1>1. frame[w][g] \in Frames
  OBVIOUS
<1>2. f \in Frames /\ f.pc = s /\ f.attempt = frame[w][g].attempt
        /\ f.job = frame[w][g].job /\ f.seen = frame[w][g].seen
  BY <1>1, FrameAtStep
<1>3. frame' = [frame EXCEPT ![w][g] = f]
  BY DEF Goto
<1> HIDE DEF f
<1> QED
  BY <1>2, <1>3, FrameUpdate

-----------------------------------------------------------------------------
(* What the invariant says of one frame, and what survives every step.     *)

\* The types the steps below rely on.
LEMMA DriveTypes ==
    ASSUME DriveInv
    PROVE  /\ gen \in [Gens -> Row] /\ takes \in [Gens -> SUBSET Keys]
           /\ permits \in [Gens -> Nat] /\ posts \in [Gens -> Nat]
           /\ life \in [Workers -> {"standby", "up", "dead"}]
           /\ frame \in [Workers -> [Gens -> Frames]]
           /\ watch \in [Workers -> [Gens -> Watches]]
           /\ wire \subseteq [g : Gens, attempt : Nat, by : Workers]
           /\ RemoteTypeOK
           /\ \A g \in Gens : RowOK(g)
BY DEF DriveInv, DriveTypeOK, RemoteTypeOK, StoreInv, TypeOK, Frames, Watches

\* The invariant of one row.
LEMMA RowState ==
    ASSUME DriveInv, NEW g \in Gens
    PROVE  /\ gen[g] \in Row /\ gen[g].job \in Jobs \cup {None}
           /\ gen[g].worker \in Workers \cup {None}
           /\ posts[g] \in Nat /\ permits[g] \in Nat /\ takes[g] \in SUBSET Keys
           /\ RowOK(g) /\ PostsOK(g) /\ TakesOK(g)
<1>1. gen[g] \in Row
  BY DriveTypes
<1> QED
  BY <1>1, DriveTypes DEF DriveInv, Row

\* The invariant of one frame.
LEMMA FrameState ==
    ASSUME DriveInv, NEW w \in Workers, NEW g \in Gens
    PROVE  /\ frame[w][g] \in Frames /\ frame[w][g].pc \in Pcs
           /\ frame[w][g].job \in Jobs \cup {None} /\ frame[w][g].seen \in SUBSET Jobs
           /\ watch[w][g] \in Watches
           /\ FrameOK(w, g) /\ OwnerOK(w, g)
<1>1. frame[w][g] \in Frames /\ watch[w][g] \in Watches
  BY DriveTypes
<1>2. FrameOK(w, g) /\ OwnerOK(w, g)
  BY DEF DriveInv
<1> QED
  BY <1>1, <1>2, FrameFields

\* A frame that is not idle runs in a live process and drives the attempt that
\* its Comfy row holds.
LEMMA LiveFrame ==
    ASSUME DriveInv, NEW w \in Workers, NEW g \in Gens, frame[w][g].pc # "idle"
    PROVE  /\ life[w] = "up"
           /\ frame[w][g].attempt # None
           /\ gen[g].executor = "comfy"
           /\ gen[g].attempt = frame[w][g].attempt
           /\ gen[g].attempt \in 1 .. minted
           /\ gen[g].status \notin {"absent", "queued"}
           /\ frame[w][g].pc = "seen" => watch[w][g].obs \notin {"none", "unreachable"}
BY DEF DriveInv, DriveTypeOK, FrameOK, StoreInv, RowOK

\* A frame that a step does not disturb keeps what it knows.
LEMMA UndisturbedFrame ==
    ASSUME DriveInv, [Next]_storeVars, PromptsKept,
           NEW v \in Workers, NEW h \in Gens, Undisturbed(v, h)
    PROVE  FrameOK(v, h)'
<1> DEFINE f == frame[v][h]
<1>t. /\ f.job \in Jobs \cup {None} /\ f.seen \in SUBSET Jobs
      /\ FrameOK(v, h) /\ RowOK(h) /\ gen[h].job \in Jobs \cup {None}
  BY RowState, FrameState
<1>1. frame'[v][h] = f
  BY DEF Undisturbed
<1>2. CASE f.pc = "idle"
  BY <1>t, <1>1, <1>2, ZenonT(40) DEF FrameOK, Bound, Importing, PromptsKept
<1>3. CASE f.pc # "idle"
  <2>1. /\ f.attempt # None /\ gen[h].executor = "comfy" /\ gen[h].attempt = f.attempt
        /\ watch'[v][h] = watch[v][h]
    BY <1>3, LiveFrame DEF Undisturbed
  <2>2. gen'[h].attempt = f.attempt /\ gen'[h].executor = "comfy"
    BY <2>1, AttemptStep DEF DriveInv
  <2>3. f.pc \in Bound =>
          /\ gen'[h].sub = "confirmed" /\ f.job = gen'[h].job
          /\ f.job \in Jobs
    BY <1>t, ResolvedStep DEF DriveInv, FrameOK, RowOK
  <2>4. f.pc = "confirm" =>
          f.job \in Jobs /\ prompt'[f.job].g = h /\ prompt'[f.job].attempt = f.attempt
    BY <1>t DEF FrameOK, PromptsKept
  <2>5. \A j \in f.seen : prompt'[j].g = h /\ prompt'[j].attempt = f.attempt
    BY <1>t DEF FrameOK, PromptsKept
  <2>6. f.pc \in {"seen", "outcome"} /\ watch[v][h].obs \in Done =>
          prompt'[f.job].state = watch[v][h].obs
    BY <1>t, <2>3 DEF FrameOK, PromptsKept, Bound
  <2>7. f.pc \in Importing => prompt'[f.job].state = "succeeded"
    BY <1>t, <2>3 DEF FrameOK, PromptsKept, Bound, Importing, Done
  <2>8. f.pc = "cancelled" => prompt'[f.job].state \in {"deleted", "cancelled"}
    BY <1>t, <2>3 DEF FrameOK, PromptsKept, Bound, Done
  <2> QED
    BY <1>t, <1>1, <2>1, <2>2, <2>3, <2>4, <2>5, <2>6, <2>7, <2>8 DEF FrameOK
<1> QED
  BY <1>2, <1>3

\* So does the current one about Takes and cancellation.
LEMMA UndisturbedOwner ==
    ASSUME DriveInv, [Next]_storeVars, PromptsKept,
           NEW v \in Workers, NEW h \in Gens, Undisturbed(v, h)
    PROVE  OwnerOK(v, h)'
<1> DEFINE f == frame[v][h]
<1>t. /\ FrameOK(v, h) /\ OwnerOK(v, h) /\ RowOK(h) /\ TakesOK(h)
      /\ gen[h].job \in Jobs \cup {None}
  BY RowState, FrameState
<1>1. frame'[v][h] = f
  BY DEF Undisturbed
<1>2. CASE f.pc = "idle"
  BY <1>1, <1>2 DEF OwnerOK, Looking, Importing
<1>3. CASE f.pc # "idle" /\ Current(v, h)'
  <2>1. /\ watch'[v][h] = watch[v][h] /\ Current(v, h)
        /\ takes'[h] = takes[h] /\ gen'[h].soft = gen[h].soft
    BY <1>3 DEF Undisturbed
  <2>2. f.pc \in {"look_queue", "seen"} /\ takes[h] # {} =>
          f.job \in Jobs /\ prompt[f.job].state = "succeeded"
    BY <1>t DEF FrameOK, RowOK, TakesOK, Bound
  <2>3. f.pc \in {"look_queue", "seen"} /\ takes[h] # {} /\ prompt[f.job].visible = "no"
          => prompt'[f.job].visible = "no"
    BY <2>2 DEF PromptsKept, Done
  <2> QED
    BY <1>t, <1>1, <1>3, <2>1, <2>3 DEF OwnerOK
<1>4. CASE ~ Current(v, h)'
  BY <1>4 DEF OwnerOK
<1> QED
  BY <1>2, <1>3, <1>4

-----------------------------------------------------------------------------
(* The parts of the invariant that a step keeps for reasons that do not    *)
(* depend on which step it is.                                             *)

\* A step of one frame does not disturb the others.
LEMMA OwnStepUndisturbed ==
    ASSUME NEW w \in Workers, NEW g \in Gens, OwnStep(w, g),
           NEW v \in Workers, NEW h \in Gens, v # w \/ h # g
    PROVE  Undisturbed(v, h)
<1>1. CASE h # g
  BY <1>1 DEF OwnStep, Undisturbed, Current
<1>2. CASE v # w
  BY <1>2 DEF OwnStep, Undisturbed, Current
<1> QED
  BY <1>1, <1>2

\* What is known of the Takes of a row survives while its Takes and its soft
\* cancellation stay, unless the row ends in one of the two ways that say
\* something about its Takes.
LEMMA TakesKept ==
    ASSUME DriveInv, [Next]_storeVars, PromptsKept, NEW h \in Gens,
           takes'[h] = takes[h],
           gen'[h].soft = gen[h].soft,
           gen'[h].status \in {gen[h].status} \cup InFlight \cup {"failed", "interrupted"}
    PROVE  TakesOK(h)'
<1>1. TakesOK(h) /\ RowOK(h) /\ gen[h].job \in Jobs \cup {None}
  BY RowState
<1>2. CASE takes[h] = {}
  BY <1>1, <1>2 DEF TakesOK, InFlight
<1>3. CASE takes[h] # {}
  <2>1. /\ gen[h].executor = "comfy" /\ gen[h].sub = "confirmed"
        /\ gen[h].job \in Jobs /\ prompt[gen[h].job].state = "succeeded"
        /\ gen[h].attempt # None
    BY <1>1, <1>3 DEF TakesOK, RowOK
  <2>2. gen'[h].executor = "comfy" /\ gen'[h].sub = "confirmed" /\ gen'[h].job = gen[h].job
    BY <2>1, AttemptStep, ResolvedStep DEF DriveInv
  <2>3. prompt'[gen[h].job].state = "succeeded"
    BY <2>1 DEF PromptsKept, Done
  <2>4. prompt[gen[h].job].visible = "no" => prompt'[gen[h].job].visible = "no"
    BY <2>1 DEF PromptsKept, Done
  <2> QED
    BY <1>1, <1>3, <2>1, <2>2, <2>3, <2>4 DEF TakesOK, InFlight
<1> QED
  BY <1>2, <1>3

\* Nothing arms a frame or posts behind the permit.
LEMMA PostsKept ==
    ASSUME DriveInv, [Next]_storeVars, NEW h \in Gens, posts'[h] = posts[h],
           \A v \in Workers : Armed(v, h)' => Armed(v, h)
    PROVE  PostsOK(h)'
<1>1. PostsOK(h) /\ RowOK(h) /\ posts[h] \in Nat
  BY RowState
<1>2. gen[h].sub # "not_started" => gen'[h].sub # "not_started"
  BY <1>1, AttemptStep DEF DriveInv, RowOK
<1> QED
  BY <1>1, <1>2 DEF PostsOK

\* Markers stay true: the attempt of a row, once there, does not change.
LEMMA MarkersKept ==
    ASSUME DriveInv, [Next]_storeVars, NEW j \in Jobs,
           prompt'[j].g = prompt[j].g, prompt'[j].attempt = prompt[j].attempt,
           prompt'[j].state = "none" => prompt[j].state = "none"
    PROVE  MarkerOK(j)'
<1>1. MarkerOK(j) /\ prompt[j].g \in Gens \cup {None}
  BY DriveTypes DEF DriveInv, RemoteTypeOK
<1>2. prompt[j].g # None => gen'[prompt[j].g].attempt = gen[prompt[j].g].attempt
  BY <1>1, AttemptStep DEF DriveInv, MarkerOK
<1> QED
  BY <1>1, <1>2 DEF MarkerOK

\* So do the markers of requests under way.
LEMMA WireKept ==
    ASSUME DriveInv, [Next]_storeVars, NEW m \in wire
    PROVE  WireOK(m)'
<1>1. m.g \in Gens /\ m.attempt \in Nat /\ gen[m.g].attempt = m.attempt
  BY DriveTypes DEF DriveInv, WireOK
<1>2. gen'[m.g].attempt = gen[m.g].attempt
  BY <1>1, AttemptStep DEF DriveInv
<1> QED
  BY <1>1, <1>2 DEF WireOK

\* A confirmed handle stays ours.
LEMMA ConfirmedKept ==
    ASSUME DriveInv, [Next]_storeVars, PromptsKept, NEW h \in Gens,
           gen[h].sub = "confirmed"
    PROVE  prompt'[gen'[h].job].g = h /\ prompt'[gen'[h].job].attempt = gen'[h].attempt
<1>1. RowOK(h) /\ gen[h].job \in Jobs \cup {None}
  BY RowState
<1>2. gen[h].job \in Jobs /\ gen[h].attempt # None
  BY <1>1 DEF RowOK
<1>3. gen'[h].job = gen[h].job /\ gen'[h].attempt = gen[h].attempt
  BY <1>2, ResolvedStep, AttemptStep DEF DriveInv
<1>4. prompt[gen[h].job].g = h /\ prompt[gen[h].job].attempt = gen[h].attempt
  BY DEF DriveInv, ConfirmedIsOurs
<1> QED
  BY <1>2, <1>3, <1>4 DEF PromptsKept

\* What remains to be shown of a step of frame (w, g): types, the frame, its
\* row, the markers, and that a fresh confirmation is ours.
OwnPart(w, g) ==
    /\ frame' \in [Workers -> [Gens -> Frames]]
    /\ watch' \in [Workers -> [Gens -> Watches]]
    /\ posts' \in [Gens -> Nat]
    /\ RemoteTypeOK'
    /\ frame'[w][g].pc # "idle" => life[w] = "up" /\ frame'[w][g].attempt # None
    /\ frame'[w][g].pc = "seen" => watch'[w][g].obs \notin {"none", "unreachable"}
    /\ FrameOK(w, g)' /\ OwnerOK(w, g)' /\ PostsOK(g)' /\ TakesOK(g)'
    /\ \A j \in Jobs : MarkerOK(j)'
    /\ \A m \in wire' : WireOK(m)'
    /\ gen'[g].sub = "confirmed" /\ gen[g].sub # "confirmed" =>
         prompt'[gen'[g].job].g = g /\ prompt'[gen'[g].job].attempt = gen'[g].attempt

\* A step of one frame keeps the invariant if it keeps that part of it.
LEMMA FrameStepInv ==
    ASSUME DriveInv, [Next]_storeVars, PromptsKept,
           NEW w \in Workers, NEW g \in Gens, OwnStep(w, g), OwnPart(w, g)
    PROVE  DriveInv'
<1>1. StoreInv'
  BY NextTypeOK, NextRowOK DEF DriveInv, StoreInv
<1>2. DriveTypeOK'
  <2>1. life' \in [Workers -> {"standby", "up", "dead"}] /\ life' = life
    BY DriveTypes DEF OwnStep
  <2>2. ASSUME NEW v \in Workers, NEW h \in Gens
        PROVE  /\ frame'[v][h].pc # "idle" =>
                    life'[v] = "up" /\ frame'[v][h].attempt # None
               /\ frame'[v][h].pc = "seen" =>
                    watch'[v][h].obs \notin {"none", "unreachable"}
    <3>1. CASE v = w /\ h = g
      BY <2>1, <3>1 DEF OwnPart
    <3>2. CASE v # w \/ h # g
      <4>1. Undisturbed(v, h)
        BY <3>2, OwnStepUndisturbed
      <4> QED
        BY <2>1, <4>1, LiveFrame DEF Undisturbed
    <3> QED
      BY <3>1, <3>2
  <2> QED
    BY <1>1, <2>1, <2>2 DEF DriveTypeOK, StoreInv, Frames, Watches, OwnPart
<1>3. ASSUME NEW v \in Workers, NEW h \in Gens PROVE FrameOK(v, h)' /\ OwnerOK(v, h)'
  <2>1. CASE v = w /\ h = g
    BY <2>1 DEF OwnPart
  <2>2. CASE v # w \/ h # g
    BY <2>2, OwnStepUndisturbed, UndisturbedFrame, UndisturbedOwner
  <2> QED
    BY <2>1, <2>2
<1>4. ASSUME NEW h \in Gens PROVE PostsOK(h)' /\ TakesOK(h)'
  <2>1. CASE h # g
    <3>1. /\ posts'[h] = posts[h] /\ gen'[h] = gen[h] /\ takes'[h] = takes[h]
          /\ \A v \in Workers : Armed(v, h)' => Armed(v, h)
      BY <2>1 DEF OwnStep, Armed
    <3> QED
      BY <3>1, PostsKept, TakesKept
  <2> QED
    BY <2>1 DEF OwnPart
<1>5. ConfirmedIsOurs'
  <2>1. ASSUME NEW h \in Gens, gen'[h].sub = "confirmed"
        PROVE  prompt'[gen'[h].job].g = h /\ prompt'[gen'[h].job].attempt = gen'[h].attempt
    <3>1. CASE gen[h].sub = "confirmed"
      BY <3>1, ConfirmedKept
    <3>2. CASE gen[h].sub # "confirmed"
      BY <2>1, <3>2 DEF OwnStep, OwnPart
    <3> QED
      BY <3>1, <3>2
  <2> QED
    BY <2>1 DEF ConfirmedIsOurs
<1> QED
  BY <1>1, <1>2, <1>3, <1>4, <1>5 DEF DriveInv, OwnPart

\* The frame (w, g) and nothing else of the frames has moved.
Moved(w, g) ==
    /\ frame' \in [Workers -> [Gens -> Frames]]
    /\ watch' \in [Workers -> [Gens -> Watches]]
    /\ \A v \in Workers, h \in Gens : v # w \/ h # g =>
         /\ frame'[v][h] = frame[v][h]
         /\ frame[v][h].pc # "idle" => watch'[v][h] = watch[v][h]
    /\ frame'[w][g].pc # "idle" => frame'[w][g].attempt = frame[w][g].attempt
    /\ frame'[w][g].pc = "seen" => watch'[w][g].obs \notin {"none", "unreachable"}

\* A step that only moves a frame, and may take a request off the wire.
LEMMA LocalStepInv ==
    ASSUME DriveInv, NEW w \in Workers, NEW g \in Gens, frame[w][g].pc # "idle",
           UNCHANGED <<storeVars, life, prompt, posts>>, wire' \subseteq wire,
           Moved(w, g), Armed(w, g)' => Armed(w, g),
           FrameOK(w, g)', OwnerOK(w, g)'
    PROVE  DriveInv'
<1>1. [Next]_storeVars /\ PromptsKept
  BY DEF PromptsKept
<1>2. OwnStep(w, g)
  BY DEF OwnStep, Moved, storeVars
<1>3. RemoteTypeOK' /\ posts' \in [Gens -> Nat]
  BY DriveTypes DEF RemoteTypeOK
<1>4. frame'[w][g].pc # "idle" => life[w] = "up" /\ frame'[w][g].attempt # None
  BY LiveFrame DEF Moved
<1>5. PostsOK(g)'
  <2>1. \A v \in Workers : Armed(v, g)' => Armed(v, g)
    BY DEF Armed, Moved
  <2> QED
    BY <1>1, <2>1, PostsKept
<1>6. TakesOK(g)'
  BY <1>1, TakesKept DEF storeVars
<1>7. \A j \in Jobs : MarkerOK(j)'
  BY <1>1, MarkersKept
<1>8. \A m \in wire' : WireOK(m)'
  BY <1>1, WireKept
<1>9. gen' = gen
  BY DEF storeVars
<1> QED
  BY <1>1, <1>2, <1>3, <1>4, <1>5, <1>6, <1>7, <1>8, <1>9, FrameStepInv DEF Moved, OwnPart

\* A step that moves a frame and does one transaction on its row, under the
\* lease, other than a confirmation or a permit.
LEMMA RowStepInv ==
    ASSUME DriveInv, [Next]_storeVars, NEW w \in Workers, NEW g \in Gens,
           frame[w][g].pc # "idle",
           UNCHANGED <<life, prompt, wire, posts>>, lease' = lease, lease = w,
           \A h \in Gens \ {g} : gen'[h] = gen[h] /\ takes'[h] = takes[h],
           gen'[g].sub = "confirmed" => gen[g].sub = "confirmed",
           Moved(w, g), Armed(w, g)' => Armed(w, g),
           FrameOK(w, g)', OwnerOK(w, g)', TakesOK(g)'
    PROVE  DriveInv'
<1>1. PromptsKept
  BY DEF PromptsKept
<1>2. OwnStep(w, g)
  BY DEF OwnStep, Moved
<1>3. RemoteTypeOK' /\ posts' \in [Gens -> Nat]
  BY DriveTypes DEF RemoteTypeOK
<1>4. frame'[w][g].pc # "idle" => life[w] = "up" /\ frame'[w][g].attempt # None
  BY LiveFrame DEF Moved
<1>5. PostsOK(g)'
  <2>1. \A v \in Workers : Armed(v, g)' => Armed(v, g)
    BY DEF Armed, Moved
  <2> QED
    BY <2>1, PostsKept
<1>6. \A j \in Jobs : MarkerOK(j)'
  BY MarkersKept
<1>7. \A m \in wire' : WireOK(m)'
  BY WireKept
<1> QED
  BY <1>1, <1>2, <1>3, <1>4, <1>5, <1>6, <1>7, FrameStepInv DEF Moved, OwnPart

-----------------------------------------------------------------------------
(* How frames move.                                                        *)

\* The steps at which a frame knows nothing of its prompt.
PlainSteps == Pcs \ (Bound \cup {"confirm", "idle"})

\* The locals of the other frames stay.
WatchMoved(w, g) ==
    /\ watch' \in [Workers -> [Gens -> Watches]]
    /\ \A v \in Workers, h \in Gens :
         (v # w \/ h # g) /\ frame[v][h].pc # "idle" => watch'[v][h] = watch[v][h]

\* No locals are locals.
LEMMA NoWatchIsWatch == NoWatch \in Watches
BY DEF NoWatch, Watches, Modes, Observations

\* The idle frame is a frame.
LEMMA NoFrameIsFrame ==
    /\ NoFrame \in Frames /\ NoFrame.pc = "idle" /\ NoFrame.attempt = None
    /\ NoFrame.job = None /\ NoFrame.seen = {}
BY DEF NoFrame, Frames, FrameType

\* Dropping the locals of ended frames.
LEMMA ForgetEndedWatch ==
    ASSUME DriveInv, NEW w \in Workers, NEW g \in Gens, ForgetEnded,
           \A v \in Workers, h \in Gens : v # w \/ h # g => frame'[v][h] = frame[v][h]
    PROVE  WatchMoved(w, g)
BY DriveTypes, NoWatchIsWatch DEF ForgetEnded, WatchMoved

\* Writing the locals of one frame.
LEMMA WatchingWatch ==
    ASSUME DriveInv, NEW w \in Workers, NEW g \in Gens, NEW o \in Watches,
           Watching(w, g, o)
    PROVE  WatchMoved(w, g) /\ watch'[w][g] = o
BY DriveTypes DEF Watching, WatchMoved

\* Locals that stay.
LEMMA StillWatch ==
    ASSUME DriveInv, NEW w \in Workers, NEW g \in Gens, watch' = watch
    PROVE  WatchMoved(w, g)
BY DriveTypes DEF WatchMoved

\* A frame that goes to another step.
LEMMA GotoMoved ==
    ASSUME DriveInv, NEW w \in Workers, NEW g \in Gens, NEW s \in Pcs,
           Goto(w, g, s), WatchMoved(w, g),
           s = "seen" => watch'[w][g].obs \notin {"none", "unreachable"}
    PROVE  /\ Moved(w, g)
           /\ frame'[w][g].pc = s
           /\ frame'[w][g].attempt = frame[w][g].attempt
           /\ frame'[w][g].job = frame[w][g].job
           /\ frame'[w][g].seen = frame[w][g].seen
<1>1. frame \in [Workers -> [Gens -> Frames]]
  BY DriveTypes
<1> QED
  BY <1>1, GotoFrame DEF Moved, WatchMoved

\* A frame that ends.
LEMMA EndFrameMoved ==
    ASSUME DriveInv, NEW w \in Workers, NEW g \in Gens, EndFrame(w, g), WatchMoved(w, g)
    PROVE  /\ Moved(w, g) /\ frame'[w][g].pc = "idle"
           /\ FrameOK(w, g)' /\ OwnerOK(w, g)' /\ ~ Armed(w, g)'
<1>1. frame \in [Workers -> [Gens -> Frames]] /\ frame' = [frame EXCEPT ![w][g] = NoFrame]
  BY DriveTypes DEF EndFrame
<1>2. frame'[w][g] = NoFrame /\ frame' \in [Workers -> [Gens -> Frames]]
      /\ \A v \in Workers, h \in Gens : v # w \/ h # g => frame'[v][h] = frame[v][h]
  BY <1>1, NoFrameIsFrame, FrameUpdate
<1>3. Moved(w, g)
  BY <1>2, NoFrameIsFrame DEF Moved, WatchMoved
<1> QED
  BY <1>2, <1>3, NoFrameIsFrame
  DEF FrameOK, OwnerOK, Armed, Bound, Looking, Importing

\* A frame at a plain step knows only its attempt and what it has seen.
LEMMA PlainFrame ==
    ASSUME DriveInv, [Next]_storeVars, PromptsKept, NEW w \in Workers, NEW g \in Gens,
           frame[w][g].pc # "idle", frame'[w][g].pc \in PlainSteps,
           frame'[w][g].attempt = frame[w][g].attempt,
           \A j \in frame'[w][g].seen :
             j \in Jobs /\ prompt[j].g = g /\ prompt[j].attempt = frame[w][g].attempt
    PROVE  FrameOK(w, g)' /\ OwnerOK(w, g)'
<1>1. /\ gen[g].attempt = frame[w][g].attempt /\ gen[g].attempt # None
      /\ gen[g].executor = "comfy"
  BY LiveFrame
<1>2. gen'[g].attempt = gen[g].attempt /\ gen'[g].executor = gen[g].executor
  BY <1>1, AttemptStep DEF DriveInv
<1>3. \A j \in frame'[w][g].seen : prompt'[j].g = g /\ prompt'[j].attempt = frame[w][g].attempt
  BY DEF PromptsKept
<1>4. FrameOK(w, g)'
  BY <1>1, <1>2, <1>3 DEF FrameOK, PlainSteps, Bound, Importing
<1>5. OwnerOK(w, g)'
  BY DEF OwnerOK, PlainSteps, Bound, Looking, Importing
<1> QED
  BY <1>4, <1>5

\* Going to a plain step.
LEMMA PlainGoto ==
    ASSUME DriveInv, [Next]_storeVars, PromptsKept, NEW w \in Workers, NEW g \in Gens,
           frame[w][g].pc # "idle", NEW s \in PlainSteps, Goto(w, g, s), WatchMoved(w, g)
    PROVE  /\ Moved(w, g) /\ frame'[w][g].pc = s
           /\ FrameOK(w, g)' /\ OwnerOK(w, g)'
<1>1. s \in Pcs /\ s # "seen"
  BY DEF PlainSteps, Bound
<1>2. /\ Moved(w, g) /\ frame'[w][g].pc = s
      /\ frame'[w][g].attempt = frame[w][g].attempt
      /\ frame'[w][g].seen = frame[w][g].seen
  BY <1>1, GotoMoved
<1>s. FrameOK(w, g) /\ frame[w][g].seen \in SUBSET Jobs
  BY FrameState
<1>3. \A j \in frame[w][g].seen :
        j \in Jobs /\ prompt[j].g = g /\ prompt[j].attempt = frame[w][g].attempt
  BY <1>s DEF FrameOK
<1> QED
  BY <1>2, <1>3, PlainFrame

\* A step that does nothing but go to a plain step that is not armed.
LEMMA PlainGotoInv ==
    ASSUME DriveInv, NEW w \in Workers, NEW g \in Gens, frame[w][g].pc # "idle",
           NEW s \in PlainSteps, s \in {"authority", "post"} => Armed(w, g),
           Goto(w, g, s), WatchMoved(w, g),
           UNCHANGED <<storeVars, life, prompt, posts>>, wire' \subseteq wire
    PROVE  DriveInv'
<1>1. [Next]_storeVars /\ PromptsKept
  BY DEF PromptsKept
<1>2. Moved(w, g) /\ frame'[w][g].pc = s /\ FrameOK(w, g)' /\ OwnerOK(w, g)'
  BY <1>1, PlainGoto
<1>3. Armed(w, g)' => Armed(w, g)
  BY <1>2 DEF Armed
<1> QED
  BY <1>2, <1>3, LocalStepInv

-----------------------------------------------------------------------------
(* The transactions of a frame are transactions of the store.              *)

\* A transaction of w on row g.
RowCall(w, g) ==
    /\ [Next]_storeVars
    /\ lease = w /\ gen[g].worker = w /\ lease' = lease
    /\ \A h \in Gens \ {g} : gen'[h] = gen[h] /\ takes'[h] = takes[h]

\* A lifecycle transition writes the status only.
LEMMA TransitionCall ==
    ASSUME DriveInv, NEW w \in Workers, NEW g \in Gens,
           NEW s \in (InFlight \ {"preparing"}) \cup Terminal,
           transition_owned_generation(w, g, s)
    PROVE  /\ RowCall(w, g) /\ takes' = takes
           /\ gen'[g].status = s /\ gen'[g].soft = gen[g].soft
           /\ gen'[g].sub = gen[g].sub
<1>1. Next
  BY DEF Next, WorkerCall
<1>2. gen \in [Gens -> Row] /\ gen[g] \in Row
  BY DriveTypes
<1>3. gen'[g] = [gen[g] EXCEPT !.status = s] /\ takes' = takes /\ lease' = lease
      /\ lease = w /\ gen[g].worker = w
      /\ \A h \in Gens \ {g} : gen'[h] = gen[h]
  BY <1>2 DEF transition_owned_generation, Fenced
<1> QED
  BY <1>1, <1>2, <1>3 DEF RowCall, Row

\* Persisting the payload leaves status and submission state.
LEMMA ArtifactCall ==
    ASSUME DriveInv, NEW w \in Workers, NEW g \in Gens, frame[w][g].pc # "idle",
           persist_owned_executor_submission(w, g, frame[w][g].attempt)
    PROVE  /\ RowCall(w, g) /\ takes' = takes
           /\ gen'[g].status = gen[g].status /\ gen'[g].soft = gen[g].soft
           /\ gen'[g].sub = gen[g].sub
<1>1. Next
  BY LiveFrame DEF Next, WorkerCall, ComfyCall
<1>2. gen \in [Gens -> Row] /\ gen[g] \in Row
  BY DriveTypes
<1>3. gen'[g] = [gen[g] EXCEPT !.artifact = "set"] /\ takes' = takes /\ lease' = lease
      /\ lease = w /\ gen[g].worker = w
      /\ \A h \in Gens \ {g} : gen'[h] = gen[h]
  BY <1>2 DEF persist_owned_executor_submission, FencedAttempt, Fenced
<1> QED
  BY <1>1, <1>2, <1>3 DEF RowCall, Row

\* The permit moves not_started to submission_possible.
LEMMA PermitCall ==
    ASSUME DriveInv, NEW w \in Workers, NEW g \in Gens, frame[w][g].pc # "idle",
           mark_submission_possible(w, g, frame[w][g].attempt)
    PROVE  /\ RowCall(w, g) /\ takes' = takes
           /\ gen'[g].status = gen[g].status /\ gen'[g].soft = gen[g].soft
           /\ gen[g].sub = "not_started" /\ gen'[g].sub = "submission_possible"
<1>1. Next
  BY LiveFrame DEF Next, WorkerCall, ComfyCall
<1>2. gen \in [Gens -> Row] /\ gen[g] \in Row
  BY DriveTypes
<1>3. gen'[g] = [gen[g] EXCEPT !.sub = "submission_possible"]
      /\ takes' = takes /\ lease' = lease
      /\ lease = w /\ gen[g].worker = w /\ gen[g].sub = "not_started"
      /\ \A h \in Gens \ {g} : gen'[h] = gen[h]
  BY <1>2 DEF mark_submission_possible, FencedAttempt, Fenced, PermitAvailable
<1> QED
  BY <1>1, <1>2, <1>3 DEF RowCall, Row

\* The confirmation writes the handle.
LEMMA ConfirmCall ==
    ASSUME DriveInv, NEW w \in Workers, NEW g \in Gens, frame[w][g].pc # "idle",
           NEW j \in Jobs, confirm_owned_submission(w, g, frame[w][g].attempt, j)
    PROVE  /\ RowCall(w, g) /\ takes' = takes
           /\ gen'[g].status = gen[g].status /\ gen'[g].soft = gen[g].soft
           /\ gen'[g].sub = "confirmed" /\ gen'[g].job = j
<1>1. Next
  BY LiveFrame DEF Next, WorkerCall, ComfyCall
<1>2. gen \in [Gens -> Row] /\ gen[g] \in Row
  BY DriveTypes
<1>3. gen'[g] = [gen[g] EXCEPT !.sub = "confirmed", !.job = j]
      /\ takes' = takes /\ lease' = lease
      /\ lease = w /\ gen[g].worker = w
      /\ \A h \in Gens \ {g} : gen'[h] = gen[h]
  BY <1>2 DEF confirm_owned_submission, FencedAttempt, Fenced
<1> QED
  BY <1>1, <1>2, <1>3 DEF RowCall, Row

\* Giving up writes the submission state only.
LEMMA UncertainCall ==
    ASSUME DriveInv, NEW w \in Workers, NEW g \in Gens, frame[w][g].pc # "idle",
           mark_submission_uncertain(w, g, frame[w][g].attempt)
    PROVE  /\ RowCall(w, g) /\ takes' = takes
           /\ gen'[g].status = gen[g].status /\ gen'[g].soft = gen[g].soft
           /\ gen'[g].sub = "uncertain"
<1>1. Next
  BY LiveFrame DEF Next, WorkerCall, ComfyCall
<1>2. gen \in [Gens -> Row] /\ gen[g] \in Row
  BY DriveTypes
<1>3. gen'[g] = [gen[g] EXCEPT !.sub = "uncertain"] /\ takes' = takes /\ lease' = lease
      /\ lease = w /\ gen[g].worker = w
      /\ \A h \in Gens \ {g} : gen'[h] = gen[h]
  BY <1>2 DEF mark_submission_uncertain, FencedAttempt, Fenced
<1> QED
  BY <1>1, <1>2, <1>3 DEF RowCall, Row

\* Selecting the soft cancellation leaves status and submission state.
LEMMA SoftCancelCall ==
    ASSUME DriveInv, NEW w \in Workers, NEW g \in Gens, frame[w][g].pc # "idle",
           select_owned_soft_cancel(w, g)
    PROVE  /\ RowCall(w, g) /\ takes' = takes
           /\ gen'[g].status = gen[g].status /\ gen'[g].sub = gen[g].sub
           /\ gen'[g].soft = "set"
<1>1. Next
  BY LiveFrame DEF Next, WorkerCall, ComfyCall
<1>2. gen \in [Gens -> Row] /\ gen[g] \in Row
  BY DriveTypes
<1>3. gen'[g] = [gen[g] EXCEPT !.soft = "set"] /\ takes' = takes /\ lease' = lease
      /\ lease = w /\ gen[g].worker = w
      /\ \A h \in Gens \ {g} : gen'[h] = gen[h]
  BY <1>2 DEF select_owned_soft_cancel, Fenced
<1> QED
  BY <1>1, <1>2, <1>3 DEF RowCall, Row

\* A publication adds one Take to an importing row.
LEMMA PublishCall ==
    ASSUME DriveInv, NEW w \in Workers, NEW g \in Gens, frame[w][g].pc # "idle",
           NEW k \in Keys, publish_output(w, g, frame[w][g].attempt, k)
    PROVE  /\ RowCall(w, g) /\ gen' = gen
           /\ gen[g].status = "importing" /\ takes'[g] = takes[g] \cup {k}
<1>1. Next
  BY LiveFrame DEF Next, WorkerCall
<1>2. takes \in [Gens -> SUBSET Keys]
  BY DriveTypes
<1> QED
  BY <1>1, <1>2 DEF RowCall, publish_output, FencedAttempt, Fenced

\* A transaction with which the frame goes to a plain step, or ends, without
\* confirming and without touching Takes or the soft cancellation.
LEMMA PlainRowInv ==
    ASSUME DriveInv, NEW w \in Workers, NEW g \in Gens, frame[w][g].pc # "idle",
           RowCall(w, g), UNCHANGED <<life, prompt, wire, posts>>, WatchMoved(w, g),
           EndFrame(w, g) \/ \E s \in PlainSteps \ {"authority", "post"} : Goto(w, g, s),
           gen'[g].sub = "confirmed" => gen[g].sub = "confirmed", TakesOK(g)'
    PROVE  DriveInv'
<1>1. [Next]_storeVars /\ PromptsKept
  BY DEF RowCall, PromptsKept
<1>2. Moved(w, g) /\ FrameOK(w, g)' /\ OwnerOK(w, g)' /\ ~ Armed(w, g)'
  <2>1. CASE EndFrame(w, g)
    BY <2>1, EndFrameMoved
  <2>2. ASSUME NEW s \in PlainSteps \ {"authority", "post"}, Goto(w, g, s)
        PROVE  Moved(w, g) /\ FrameOK(w, g)' /\ OwnerOK(w, g)' /\ ~ Armed(w, g)'
    BY <1>1, <2>2, PlainGoto DEF Armed
  <2> QED
    BY <2>1, <2>2
<1> QED
  BY <1>1, <1>2, RowStepInv DEF RowCall

\* What every step of the drive does: it keeps the invariant, it is a step of
\* the store, and it adds no Take to a row whose soft cancellation is selected.
StepOK ==
    /\ DriveInv'
    /\ [Next]_storeVars
    /\ \A h \in Gens : gen[h].soft = "set" => takes'[h] = takes[h]

\* The plain steps by name.
LEMMA PlainStepsAre ==
    /\ {"entry", "prework", "resolve", "artifact", "permit", "authority", "post",
        "posting", "queue", "history", "absent", "interrupt"} \cup Raising
         \subseteq PlainSteps
    /\ Bound \cup {"confirm"} \cup PlainSteps \subseteq Pcs
BY DEF PlainSteps, Pcs, DriveSteps, SubmissionSteps, Raising, Bound

\* PlainGotoInv for a step of the submission protocol.
LEMMA SubmissionGoto ==
    ASSUME DriveInv, NEW w \in Workers, NEW g \in Gens, frame[w][g].pc # "idle",
           NEW s \in PlainSteps, s \in {"authority", "post"} => Armed(w, g),
           Goto(w, g, s), ForgetEnded,
           UNCHANGED <<storeVars, life, prompt, posts>>, wire' \subseteq wire
    PROVE  StepOK
<1>1. \A v \in Workers, h \in Gens : v # w \/ h # g => frame'[v][h] = frame[v][h]
  BY DriveTypes, GotoFrame, PlainStepsAre
<1>2. WatchMoved(w, g)
  BY <1>1, ForgetEndedWatch
<1>3. DriveInv'
  BY <1>2, PlainGotoInv
<1>4. takes' = takes
  BY DEF storeVars
<1> QED
  BY <1>3, <1>4 DEF StepOK

\* PlainRowInv for a step of the submission protocol.
LEMMA SubmissionRow ==
    ASSUME DriveInv, NEW w \in Workers, NEW g \in Gens, frame[w][g].pc # "idle",
           RowCall(w, g), UNCHANGED <<life, prompt, wire, posts, takes>>, ForgetEnded,
           EndFrame(w, g) \/ \E s \in PlainSteps \ {"authority", "post"} : Goto(w, g, s),
           gen'[g].sub = "confirmed" => gen[g].sub = "confirmed",
           gen'[g].soft = gen[g].soft,
           gen'[g].status \in {gen[g].status} \cup InFlight \cup {"failed", "interrupted"}
    PROVE  StepOK
<1>1. \A v \in Workers, h \in Gens : v # w \/ h # g => frame'[v][h] = frame[v][h]
  <2>1. frame \in [Workers -> [Gens -> Frames]]
    BY DriveTypes
  <2>2. CASE EndFrame(w, g)
    BY <2>1, <2>2, NoFrameIsFrame, FrameUpdate DEF EndFrame
  <2>3. ASSUME NEW s \in PlainSteps, Goto(w, g, s)
        PROVE  \A v \in Workers, h \in Gens :
                 v # w \/ h # g => frame'[v][h] = frame[v][h]
    BY <2>1, <2>3, GotoFrame, PlainStepsAre
  <2> QED
    BY <2>2, <2>3
<1>2. WatchMoved(w, g)
  BY <1>1, ForgetEndedWatch
<1>3. [Next]_storeVars /\ PromptsKept
  BY DEF RowCall, PromptsKept
<1>4. TakesOK(g)'
  BY <1>3, TakesKept
<1>5. DriveInv'
  BY <1>2, <1>4, PlainRowInv
<1> QED
  BY <1>3, <1>5 DEF StepOK

\* A bound frame that goes to a bound step keeps its prompt; what it may know
\* of the prompt beyond that is for the step to show.
LEMMA BoundFrame ==
    ASSUME DriveInv, [Next]_storeVars, PromptsKept, NEW w \in Workers, NEW g \in Gens,
           frame[w][g].pc # "idle", gen[g].sub = "confirmed",
           frame'[w][g].pc \in Bound,
           frame'[w][g].attempt = frame[w][g].attempt,
           frame'[w][g].job = gen[g].job,
           frame'[w][g].seen = frame[w][g].seen,
           frame'[w][g].pc \in {"seen", "outcome"} /\ watch'[w][g].obs \in Done =>
             prompt'[gen[g].job].state = watch'[w][g].obs,
           frame'[w][g].pc = "outcome" => watch'[w][g].obs \in Done,
           frame'[w][g].pc \in Importing => prompt'[gen[g].job].state = "succeeded",
           frame'[w][g].pc = "cancelled" =>
             prompt'[gen[g].job].state \in {"deleted", "cancelled"}
    PROVE  FrameOK(w, g)'
<1>1. /\ gen[g].attempt = frame[w][g].attempt /\ gen[g].attempt # None
      /\ gen[g].executor = "comfy"
  BY LiveFrame
<1>2. gen'[g].attempt = gen[g].attempt /\ gen'[g].executor = gen[g].executor
  BY <1>1, AttemptStep DEF DriveInv
<1>3. gen'[g].sub = "confirmed" /\ gen'[g].job = gen[g].job
  BY ResolvedStep DEF DriveInv
<1>4. FrameOK(w, g) /\ frame[w][g].seen \in SUBSET Jobs
  BY FrameState
<1>5. \A j \in frame'[w][g].seen : prompt'[j].g = g /\ prompt'[j].attempt = frame[w][g].attempt
  <2>1. \A j \in frame[w][g].seen :
          j \in Jobs /\ prompt[j].g = g /\ prompt[j].attempt = frame[w][g].attempt
    BY <1>4 DEF FrameOK
  <2>2. ASSUME NEW j \in frame[w][g].seen
        PROVE  prompt'[j].g = g /\ prompt'[j].attempt = frame[w][g].attempt
    <3>1. j \in Jobs /\ prompt[j].g = g /\ prompt[j].attempt = frame[w][g].attempt /\ g # None
      BY <2>1
    <3>2. prompt[j].g # None =>
            prompt'[j].g = prompt[j].g /\ prompt'[j].attempt = prompt[j].attempt
      BY <3>1 DEF PromptsKept
    <3> QED
      BY <3>1, <3>2
  <2> QED
    BY <2>2
<1>6. frame'[w][g].pc # "confirm"
  BY DEF Bound
<1> QED
  BY <1>1, <1>2, <1>3, <1>5, <1>6 DEF FrameOK

\* A frame that takes a prompt in hand.
LEMMA HoldingMoved ==
    ASSUME DriveInv, NEW w \in Workers, NEW g \in Gens, NEW s \in Pcs, s # "seen",
           NEW j \in Jobs, Holding(w, g, j, s), ForgetEnded
    PROVE  /\ Moved(w, g)
           /\ frame'[w][g].pc = s
           /\ frame'[w][g].attempt = frame[w][g].attempt
           /\ frame'[w][g].job = j
           /\ frame'[w][g].seen = frame[w][g].seen
<1> DEFINE f == [frame[w][g] EXCEPT !.pc = s, !.job = j]
<1>1. frame \in [Workers -> [Gens -> Frames]] /\ frame[w][g] \in Frames
  BY DriveTypes, FrameState
<1>2. f \in Frames /\ f.pc = s /\ f.attempt = frame[w][g].attempt /\ f.job = j
      /\ f.seen = frame[w][g].seen
  BY <1>1 DEF Frames, FrameType, Pcs
<1>3. frame' = [frame EXCEPT ![w][g] = f]
  BY DEF Holding
<1> HIDE DEF f
<1>4. /\ frame' \in [Workers -> [Gens -> Frames]] /\ frame'[w][g] = f
      /\ \A v \in Workers, h \in Gens : v # w \/ h # g => frame'[v][h] = frame[v][h]
  BY <1>1, <1>2, <1>3, FrameUpdate
<1>5. WatchMoved(w, g)
  BY <1>4, ForgetEndedWatch
<1> QED
  BY <1>2, <1>4, <1>5 DEF Moved, WatchMoved

-----------------------------------------------------------------------------
(* The steps of the submission protocol.                                   *)

\* A frame at a named step is not idle.
LEMMA AtIsLive ==
    ASSUME NEW w \in Workers, NEW g \in Gens, NEW s, s # "idle", At(w, g, s)
    PROVE  frame[w][g].pc = s /\ frame[w][g].pc # "idle"
BY DEF At

\* A frame that takes up, or has just made, the confirmation of its row.
LEMMA ConfirmedFrame ==
    ASSUME DriveInv, [Next]_storeVars, PromptsKept, NEW w \in Workers, NEW g \in Gens,
           frame[w][g].pc # "idle", gen[g].sub = "confirmed",
           frame'[w][g].pc = "confirmed",
           frame'[w][g].attempt = frame[w][g].attempt,
           frame'[w][g].job = gen[g].job,
           frame'[w][g].seen = frame[w][g].seen
    PROVE  FrameOK(w, g)' /\ OwnerOK(w, g)'
<1>1. FrameOK(w, g)'
  BY BoundFrame DEF Bound, Importing
<1>2. OwnerOK(w, g)'
  BY DEF OwnerOK, Looking, Importing
<1> QED
  BY <1>1, <1>2

\* A frame bound by a read of its confirmed row.
LEMMA BecomesBound ==
    ASSUME DriveInv, NEW w \in Workers, NEW g \in Gens, frame[w][g].pc # "idle",
           gen[g].sub = "confirmed", Moved(w, g),
           frame'[w][g].pc = "confirmed",
           frame'[w][g].attempt = frame[w][g].attempt,
           frame'[w][g].job = gen[g].job,
           frame'[w][g].seen = frame[w][g].seen,
           UNCHANGED storeVars, Quiet
    PROVE  StepOK
<1>1. [Next]_storeVars /\ PromptsKept
  BY DEF PromptsKept, Quiet
<1>2. FrameOK(w, g)' /\ OwnerOK(w, g)'
  BY <1>1, ConfirmedFrame
<1>3. ~ Armed(w, g)'
  BY DEF Armed
<1>4. DriveInv'
  BY <1>2, <1>3, LocalStepInv DEF Quiet
<1> QED
  BY <1>1, <1>4 DEF StepOK, storeVars

\* The durable submission state decides: a confirmed row binds the frame.
LEMMA EntryInv ==
    ASSUME DriveInv, NEW w \in Workers, NEW g \in Gens, Entry(w, g), ForgetEnded
    PROVE  StepOK
<1>1. frame[w][g].pc # "idle" /\ UNCHANGED storeVars /\ Quiet
  BY AtIsLive DEF Entry
<1>2. CASE /\ gen[g].sub = "confirmed"
           /\ Holding(w, g, gen[g].job, "confirmed")
  <2>1. gen[g].job \in Jobs
    BY <1>2, RowState DEF RowOK
  <2>2. "confirmed" \in Pcs
    BY PlainStepsAre DEF Bound
  <2>3. /\ Moved(w, g)
        /\ frame'[w][g].pc = "confirmed"
        /\ frame'[w][g].attempt = frame[w][g].attempt
        /\ frame'[w][g].job = gen[g].job
        /\ frame'[w][g].seen = frame[w][g].seen
    BY <1>2, <2>1, <2>2, HoldingMoved
  <2> QED
    BY <1>1, <1>2, <2>3, BecomesBound
<1>3. ASSUME NEW s \in {"raise_failed", "interrupt", "prework", "resolve"}, Goto(w, g, s)
      PROVE  StepOK
  <2>1. s \in PlainSteps /\ s \notin {"authority", "post"}
    BY PlainStepsAre DEF Raising
  <2> QED
    BY <1>1, <1>3, <2>1, SubmissionGoto DEF Quiet
<1> QED
  BY <1>2, <1>3 DEF Entry

\* The prework ends in one of three ways.
LEMMA PreworkInv ==
    ASSUME DriveInv, NEW w \in Workers, NEW g \in Gens, Prework(w, g), ForgetEnded
    PROVE  StepOK
<1>1. frame[w][g].pc # "idle" /\ UNCHANGED storeVars /\ Quiet
  BY AtIsLive DEF Prework
<1>2. PICK s \in {"resolve"} \cup Raising : Goto(w, g, s)
  BY DEF Prework
<1>3. s \in PlainSteps /\ s \notin {"authority", "post"}
  BY <1>2, PlainStepsAre DEF Raising
<1> QED
  BY <1>1, <1>2, <1>3, SubmissionGoto DEF Quiet

\* The second read of the submission state.
LEMMA ResolveInv ==
    ASSUME DriveInv, NEW w \in Workers, NEW g \in Gens, Resolve(w, g), ForgetEnded
    PROVE  StepOK
<1>1. frame[w][g].pc # "idle" /\ UNCHANGED storeVars /\ Quiet
  BY AtIsLive DEF Resolve
<1>2. PICK s \in {"raise_failed", "artifact", "interrupt", "queue"} : Goto(w, g, s)
  BY DEF Resolve
<1>3. s \in PlainSteps /\ s \notin {"authority", "post"}
  BY <1>2, PlainStepsAre DEF Raising
<1> QED
  BY <1>1, <1>2, <1>3, SubmissionGoto DEF Quiet

\* The payload is persisted, or the frame raises.
LEMMA ArtifactInv ==
    ASSUME DriveInv, NEW w \in Workers, NEW g \in Gens, Artifact(w, g), ForgetEnded
    PROVE  StepOK
<1>1. frame[w][g].pc # "idle" /\ Quiet
  BY AtIsLive DEF Artifact
<1>2. {"permit", "raise_failed"} \subseteq PlainSteps \ {"authority", "post"}
  BY PlainStepsAre DEF Raising
<1>3. CASE /\ persist_owned_executor_submission(w, g, frame[w][g].attempt)
           /\ Goto(w, g, "permit")
  BY <1>1, <1>2, <1>3, ArtifactCall, SubmissionRow DEF Quiet
<1>4. CASE Goto(w, g, "raise_failed") /\ UNCHANGED storeVars
  BY <1>1, <1>2, <1>4, SubmissionGoto DEF Quiet
<1> QED
  BY <1>3, <1>4 DEF Artifact

\* The permit: no frame was armed and nothing posted, because the row was
\* not_started; now this frame is the only one armed.
LEMMA PermitInv ==
    ASSUME DriveInv, NEW w \in Workers, NEW g \in Gens, Permit(w, g), ForgetEnded
    PROVE  StepOK
<1>1. frame[w][g].pc = "permit" /\ frame[w][g].pc # "idle" /\ Quiet
  BY AtIsLive DEF Permit
<1>2. CASE PermitRefused(w, g)
  <2>1. PICK s \in {"queue", "raise_failed"} : Goto(w, g, s)
    BY <1>2 DEF PermitRefused
  <2>2. s \in PlainSteps /\ s \notin {"authority", "post"}
    BY <2>1, PlainStepsAre DEF Raising
  <2> QED
    BY <1>1, <1>2, <2>1, <2>2, SubmissionGoto DEF Quiet, PermitRefused
<1>3. CASE /\ mark_submission_possible(w, g, frame[w][g].attempt)
           /\ Goto(w, g, "authority")
  <2>1. /\ RowCall(w, g) /\ takes' = takes
        /\ gen'[g].status = gen[g].status /\ gen'[g].soft = gen[g].soft
        /\ gen[g].sub = "not_started" /\ gen'[g].sub = "submission_possible"
    BY <1>1, <1>3, PermitCall
  <2>2. [Next]_storeVars /\ PromptsKept
    BY <1>1, <2>1 DEF RowCall, PromptsKept, Quiet
  <2>3. "authority" \in PlainSteps /\ "authority" \in Pcs
    BY PlainStepsAre
  <2>4. \A v \in Workers, h \in Gens : v # w \/ h # g => frame'[v][h] = frame[v][h]
    BY <1>3, <2>3, DriveTypes, GotoFrame
  <2>5. WatchMoved(w, g)
    BY <2>4, ForgetEndedWatch
  <2>6. Moved(w, g) /\ frame'[w][g].pc = "authority" /\ FrameOK(w, g)' /\ OwnerOK(w, g)'
    BY <1>1, <1>3, <2>2, <2>3, <2>5, PlainGoto
  <2>7. PostsOK(g)'
    <3>1. posts'[g] = 0 /\ \A v \in Workers : ~ Armed(v, g)
      BY <1>1, <2>1, RowState DEF PostsOK, Quiet
    <3>2. \A v \in Workers : Armed(v, g)' => v = w
      BY <2>4, <3>1 DEF Armed
    <3> QED
      BY <2>1, <3>1, <3>2 DEF PostsOK
  <2>8. TakesOK(g)'
    BY <2>1, <2>2, TakesKept
  <2>9. OwnStep(w, g)
    BY <1>1, <2>1, <2>6 DEF OwnStep, Moved, RowCall, Quiet
  <2>10. OwnPart(w, g)
    <3>1. RemoteTypeOK' /\ posts' \in [Gens -> Nat]
      BY <1>1, DriveTypes DEF RemoteTypeOK, Quiet
    <3>2. life[w] = "up" /\ frame'[w][g].attempt # None
      BY <1>1, <2>6, LiveFrame DEF Moved
    <3>3. (\A j \in Jobs : MarkerOK(j)') /\ (\A m \in wire' : WireOK(m)')
      BY <1>1, <2>2, MarkersKept, WireKept DEF Quiet
    <3> QED
      BY <2>1, <2>6, <2>7, <2>8, <3>1, <3>2, <3>3 DEF OwnPart, Moved
  <2> QED
    BY <2>1, <2>2, <2>9, <2>10, FrameStepInv DEF StepOK
<1> QED
  BY <1>2, <1>3 DEF Permit

\* An armed frame checks its authority: armed still, or raising.
LEMMA AuthorityInv ==
    ASSUME DriveInv, NEW w \in Workers, NEW g \in Gens, Authority(w, g), ForgetEnded
    PROVE  StepOK
<1>1. frame[w][g].pc # "idle" /\ Armed(w, g) /\ UNCHANGED storeVars /\ Quiet
  BY AtIsLive DEF Authority, Armed
<1>2. PICK s \in {"post", "raise_failed"} : Goto(w, g, s)
  BY DEF Authority
<1>3. s \in PlainSteps
  BY <1>2, PlainStepsAre DEF Raising
<1> QED
  BY <1>1, <1>2, <1>3, SubmissionGoto DEF Quiet

\* The one POST: the armed frame disarms, and nobody else is armed.
LEMMA PostInv ==
    ASSUME DriveInv, NEW w \in Workers, NEW g \in Gens, Post(w, g), ForgetEnded
    PROVE  StepOK
<1>1. /\ frame[w][g].pc # "idle" /\ Armed(w, g) /\ Goto(w, g, "posting")
      /\ UNCHANGED <<storeVars, life, prompt>>
      /\ wire' = wire \cup {[g |-> g, attempt |-> frame[w][g].attempt, by |-> w]}
      /\ posts' = [posts EXCEPT ![g] = @ + 1]
  BY AtIsLive DEF Post, Armed
<1>2. [Next]_storeVars /\ PromptsKept /\ gen' = gen /\ takes' = takes /\ lease' = lease
  BY <1>1 DEF PromptsKept, storeVars
<1>3. "posting" \in PlainSteps /\ "posting" \in Pcs
  BY PlainStepsAre
<1>4. \A v \in Workers, h \in Gens : v # w \/ h # g => frame'[v][h] = frame[v][h]
  BY <1>1, <1>3, DriveTypes, GotoFrame
<1>5. WatchMoved(w, g)
  BY <1>4, ForgetEndedWatch
<1>6. Moved(w, g) /\ frame'[w][g].pc = "posting" /\ FrameOK(w, g)' /\ OwnerOK(w, g)'
  BY <1>1, <1>2, <1>3, <1>5, PlainGoto
<1>7. posts \in [Gens -> Nat] /\ posts[g] = 0 /\ gen[g].sub # "not_started"
  BY <1>1, DriveTypes, RowState DEF PostsOK
<1>8. posts' \in [Gens -> Nat] /\ posts'[g] = 1
        /\ \A h \in Gens \ {g} : posts'[h] = posts[h]
  BY <1>1, <1>7
<1>9. PostsOK(g)'
  <2>1. \A v \in Workers : Armed(v, g) => v = w
    BY <1>1, RowState DEF PostsOK
  <2>2. \A v \in Workers : ~ Armed(v, g)'
    BY <1>4, <1>6, <2>1 DEF Armed
  <2> QED
    BY <1>2, <1>7, <1>8, <2>2 DEF PostsOK
<1>10. OwnStep(w, g)
  BY <1>1, <1>2, <1>6, <1>8 DEF OwnStep, Moved
<1>11. /\ life[w] = "up" /\ frame[w][g].attempt # None
       /\ gen[g].attempt = frame[w][g].attempt /\ gen[g].attempt \in 1 .. minted
  BY <1>1, LiveFrame
<1>12. RemoteTypeOK' /\ \A m \in wire' : WireOK(m)'
  <2>1. minted \in Nat
    BY DEF DriveInv, StoreInv, TypeOK
  <2>2. [g |-> g, attempt |-> frame[w][g].attempt, by |-> w]
          \in [g : Gens, attempt : Nat, by : Workers]
    BY <1>11, <2>1
  <2>3. ASSUME NEW m \in wire' PROVE WireOK(m)'
    BY <1>1, <1>2, <1>11, <2>3, WireKept DEF WireOK
  <2> QED
    BY <1>1, <2>2, <2>3, DriveTypes DEF RemoteTypeOK
<1>13. \A j \in Jobs : MarkerOK(j)'
  BY <1>1, <1>2, MarkersKept
<1>14. TakesOK(g)'
  BY <1>2, TakesKept
<1>15. OwnPart(w, g)
  BY <1>2, <1>6, <1>8, <1>9, <1>11, <1>12, <1>13, <1>14 DEF OwnPart, Moved
<1> QED
  BY <1>2, <1>10, <1>15, FrameStepInv DEF StepOK

\* A frame that has found a prompt with its marker.
LEMMA FoundInv ==
    ASSUME DriveInv, NEW w \in Workers, NEW g \in Gens, frame[w][g].pc # "idle",
           NEW j \in Jobs, prompt[j].g = g, prompt[j].attempt = frame[w][g].attempt,
           Moved(w, g), frame'[w][g].pc = "confirm",
           frame'[w][g].attempt = frame[w][g].attempt, frame'[w][g].job = j,
           frame'[w][g].seen \subseteq frame[w][g].seen,
           UNCHANGED storeVars, Quiet
    PROVE  StepOK
<1>1. [Next]_storeVars /\ gen' = gen /\ prompt' = prompt
  BY DEF storeVars, Quiet
<1>2. FrameOK(w, g)
  BY FrameState
<1>3. \A i \in frame'[w][g].seen : prompt'[i].g = g /\ prompt'[i].attempt = frame[w][g].attempt
  BY <1>1, <1>2 DEF FrameOK
<1>4. gen'[g].executor = "comfy" /\ gen'[g].attempt = frame[w][g].attempt
  BY <1>1, LiveFrame
<1>5. FrameOK(w, g)'
  BY <1>1, <1>3, <1>4 DEF FrameOK, Bound, Importing
<1>6. OwnerOK(w, g)' /\ ~ Armed(w, g)'
  BY DEF OwnerOK, Armed, Looking, Importing
<1>7. DriveInv'
  BY <1>5, <1>6, LocalStepInv DEF Quiet
<1> QED
  BY <1>7 DEF StepOK, storeVars

\* The answer to the POST: a prompt id sent by this process for this row
\* carries the marker of its only attempt.
LEMMA PostReturnsInv ==
    ASSUME DriveInv, NEW w \in Workers, NEW g \in Gens, PostReturns(w, g), ForgetEnded
    PROVE  StepOK
<1>1. frame[w][g].pc # "idle" /\ UNCHANGED <<storeVars, life, prompt, posts>>
  BY AtIsLive DEF PostReturns
<1>2. {"raise_failed", "queue"} \subseteq PlainSteps \ {"authority", "post"}
  BY PlainStepsAre DEF Raising
<1>3. ASSUME NEW j \in Jobs, prompt[j].g = g, Holding(w, g, j, "confirm"), UNCHANGED wire
      PROVE  StepOK
  <2>1. MarkerOK(j) /\ g # None
    BY DEF DriveInv
  <2>2. prompt[j].attempt = frame[w][g].attempt
    BY <1>1, <1>3, <2>1, LiveFrame DEF MarkerOK
  <2>3. "confirm" \in Pcs
    BY PlainStepsAre
  <2>4. /\ Moved(w, g) /\ frame'[w][g].pc = "confirm"
        /\ frame'[w][g].attempt = frame[w][g].attempt /\ frame'[w][g].job = j
        /\ frame'[w][g].seen = frame[w][g].seen
    BY <1>3, <2>3, HoldingMoved
  <2> QED
    BY <1>1, <1>3, <2>2, <2>4, FoundInv DEF Quiet
<1>4. ASSUME NEW m \in wire, wire' = wire \ {m}, Goto(w, g, "raise_failed")
      PROVE  StepOK
  BY <1>1, <1>2, <1>4, SubmissionGoto
<1>5. CASE Goto(w, g, "queue") /\ UNCHANGED wire
  BY <1>1, <1>2, <1>5, SubmissionGoto
<1> QED
  BY <1>3, <1>4, <1>5 DEF PostReturns

\* What the marker says of the prompts a frame may take for its own.
LEMMA MarkedIsOurs ==
    ASSUME NEW w \in Workers, NEW g \in Gens, NEW j \in Marked(w, g)
    PROVE  j \in Jobs /\ prompt[j].g = g /\ prompt[j].attempt = frame[w][g].attempt
BY DEF Marked

Sees(w, g, s, S) == frame' = [frame EXCEPT ![w][g] = [@ EXCEPT !.pc = s, !.seen = S]]

\* A frame that changes its step and what it has seen.
LEMMA SeenFrame ==
    ASSUME frame \in [Workers -> [Gens -> Frames]], NEW w \in Workers, NEW g \in Gens,
           NEW s \in Pcs, NEW S \in SUBSET Jobs, Sees(w, g, s, S)
    PROVE  /\ frame' \in [Workers -> [Gens -> Frames]]
           /\ frame'[w][g].pc = s
           /\ frame'[w][g].attempt = frame[w][g].attempt
           /\ frame'[w][g].seen = S
           /\ \A v \in Workers, h \in Gens :
                v # w \/ h # g => frame'[v][h] = frame[v][h]
<1> DEFINE f == [frame[w][g] EXCEPT !.pc = s, !.seen = S]
<1>1. frame[w][g] \in Frames
  OBVIOUS
<1>2. f \in Frames /\ f.pc = s /\ f.attempt = frame[w][g].attempt /\ f.seen = S
  BY <1>1 DEF Frames, FrameType, Pcs
<1>3. frame' = [frame EXCEPT ![w][g] = f]
  BY DEF Sees
<1> HIDE DEF f
<1> QED
  BY <1>2, <1>3, FrameUpdate

\* A poll of the frame that only changes what it has seen.
LEMMA SeenInv ==
    ASSUME DriveInv, NEW w \in Workers, NEW g \in Gens, frame[w][g].pc # "idle",
           NEW s \in PlainSteps \ {"authority", "post"}, NEW S \in SUBSET Marked(w, g),
           Sees(w, g, s, S), ForgetEnded, UNCHANGED storeVars, Quiet
    PROVE  StepOK
<1>1. frame \in [Workers -> [Gens -> Frames]]
  BY DriveTypes
<1>2. S \in SUBSET Jobs /\ s \in Pcs /\ s \notin {"idle", "seen"}
  BY DEF Marked, PlainSteps, Bound
<1>5. /\ frame' \in [Workers -> [Gens -> Frames]]
      /\ frame'[w][g].pc = s /\ frame'[w][g].attempt = frame[w][g].attempt
      /\ frame'[w][g].seen = S
      /\ \A v \in Workers, h \in Gens : v # w \/ h # g => frame'[v][h] = frame[v][h]
  BY <1>1, <1>2, SeenFrame
<1>6. WatchMoved(w, g)
  BY <1>5, ForgetEndedWatch
<1>7. Moved(w, g)
  BY <1>2, <1>5, <1>6 DEF Moved, WatchMoved
<1>8. [Next]_storeVars /\ PromptsKept
  BY DEF PromptsKept, Quiet
<1>9. \A j \in S : j \in Jobs /\ prompt[j].g = g /\ prompt[j].attempt = frame[w][g].attempt
  BY MarkedIsOurs
<1>10. FrameOK(w, g)' /\ OwnerOK(w, g)'
  BY <1>5, <1>8, <1>9, PlainFrame
<1>11. ~ Armed(w, g)'
  BY <1>5 DEF Armed
<1>12. DriveInv'
  BY <1>7, <1>10, <1>11, LocalStepInv DEF Quiet
<1> QED
  BY <1>12 DEF StepOK, storeVars

\* What the queue shows with the marker.
LEMMA ReadQueueInv ==
    ASSUME DriveInv, NEW w \in Workers, NEW g \in Gens, ReadQueue(w, g), ForgetEnded
    PROVE  StepOK
<1>1. frame[w][g].pc # "idle" /\ UNCHANGED storeVars /\ Quiet
  BY AtIsLive DEF ReadQueue
<1>2. {"history", "absent"} \subseteq PlainSteps \ {"authority", "post"}
  BY PlainStepsAre
<1>3. CASE Sees(w, g, "history", Marked(w, g) \cap InQueue)
  <2>1. Marked(w, g) \cap InQueue \in SUBSET Marked(w, g)
    OBVIOUS
  <2> QED
    BY <1>1, <1>2, <1>3, <2>1, SeenInv
<1>4. CASE Goto(w, g, "absent")
  BY <1>1, <1>2, <1>4, SubmissionGoto DEF Quiet
<1> QED
  BY <1>3, <1>4 DEF ReadQueue, Sees

Finds(w, g, j) ==
    frame' = [frame EXCEPT ![w][g] = [@ EXCEPT !.pc = "confirm", !.job = j, !.seen = {}]]

\* The one prompt with the marker.
LEMMA FindsMoved ==
    ASSUME DriveInv, NEW w \in Workers, NEW g \in Gens, NEW j \in Jobs,
           Finds(w, g, j), ForgetEnded
    PROVE  /\ Moved(w, g) /\ frame'[w][g].pc = "confirm"
           /\ frame'[w][g].attempt = frame[w][g].attempt
           /\ frame'[w][g].job = j /\ frame'[w][g].seen = {}
<1> DEFINE f == [frame[w][g] EXCEPT !.pc = "confirm", !.job = j, !.seen = {}]
<1>1. frame \in [Workers -> [Gens -> Frames]] /\ frame[w][g] \in Frames
  BY DriveTypes, FrameState
<1>2. "confirm" \in Pcs
  BY PlainStepsAre
<1>3. f \in Frames /\ f.pc = "confirm" /\ f.attempt = frame[w][g].attempt /\ f.job = j
      /\ f.seen = {}
  BY <1>1, <1>2 DEF Frames, FrameType, Pcs
<1>4. frame' = [frame EXCEPT ![w][g] = f]
  BY DEF Finds
<1> HIDE DEF f
<1>5. /\ frame' \in [Workers -> [Gens -> Frames]] /\ frame'[w][g] = f
      /\ \A v \in Workers, h \in Gens : v # w \/ h # g => frame'[v][h] = frame[v][h]
  BY <1>1, <1>3, <1>4, FrameUpdate
<1>6. WatchMoved(w, g)
  BY <1>5, ForgetEndedWatch
<1> QED
  BY <1>3, <1>5, <1>6 DEF Moved, WatchMoved

\* Whatever the frame has found carries its marker.
LEMMA ReadHistoryInv ==
    ASSUME DriveInv, NEW w \in Workers, NEW g \in Gens, ReadHistory(w, g), ForgetEnded
    PROVE  StepOK
<1> DEFINE found == frame[w][g].seen \cup (Marked(w, g) \cap InHistory)
<1>1. frame[w][g].pc # "idle" /\ UNCHANGED storeVars /\ Quiet
  BY AtIsLive DEF ReadHistory
<1>2. {"raise_failed", "absent"} \subseteq PlainSteps \ {"authority", "post"}
  BY PlainStepsAre DEF Raising
<1>3. ASSUME NEW j \in Jobs, Finds(w, g, j),
             prompt[j].g = g, prompt[j].attempt = frame[w][g].attempt
      PROVE  StepOK
  <2>1. /\ Moved(w, g) /\ frame'[w][g].pc = "confirm"
        /\ frame'[w][g].attempt = frame[w][g].attempt
        /\ frame'[w][g].job = j /\ frame'[w][g].seen = {}
    BY <1>3, FindsMoved
  <2> QED
    BY <1>1, <1>3, <2>1, FoundInv
<1>4. ASSUME NEW s \in {"raise_failed", "absent"}, Goto(w, g, s)
      PROVE  StepOK
  BY <1>1, <1>2, <1>4, SubmissionGoto, SMTT(30) DEF Quiet
<1>5. (\E j \in found : Finds(w, g, j))
        \/ (\E s \in {"raise_failed", "absent"} : Goto(w, g, s))
  BY DEF ReadHistory, Finds
<1>6. ASSUME NEW j \in found
      PROVE  j \in Jobs /\ prompt[j].g = g /\ prompt[j].attempt = frame[w][g].attempt
  <2>1. CASE j \in Marked(w, g)
    BY <2>1, MarkedIsOurs
  <2>2. CASE j \in frame[w][g].seen
    <3>1. FrameOK(w, g) /\ frame[w][g].seen \in SUBSET Jobs
      BY FrameState
    <3>2. \A i \in frame[w][g].seen : prompt[i].g = g /\ prompt[i].attempt = frame[w][g].attempt
      BY <3>1 DEF FrameOK
    <3> QED
      BY <2>2, <3>1, <3>2
  <2> QED
    BY <1>6, <2>1, <2>2
<1> HIDE DEF found
<1> QED
  BY <1>3, <1>4, <1>5, <1>6

\* Nothing seen: poll again.
LEMMA PollAgainInv ==
    ASSUME DriveInv, NEW w \in Workers, NEW g \in Gens, PollAgain(w, g), ForgetEnded
    PROVE  StepOK
<1>1. frame[w][g].pc # "idle" /\ UNCHANGED storeVars /\ Quiet
  BY AtIsLive DEF PollAgain
<1>2. "queue" \in PlainSteps \ {"authority", "post"}
  BY PlainStepsAre
<1>3. Sees(w, g, "queue", {})
  BY DEF PollAgain, Sees
<1>4. {} \in SUBSET Marked(w, g)
  OBVIOUS
<1> QED
  BY <1>1, <1>2, <1>3, <1>4, SeenInv

\* The grace is over: uncertain, or refused.
LEMMA GiveUpInv ==
    ASSUME DriveInv, NEW w \in Workers, NEW g \in Gens, GiveUp(w, g), ForgetEnded
    PROVE  StepOK
<1>1. frame[w][g].pc # "idle" /\ Quiet
  BY AtIsLive DEF GiveUp
<1>2. {"interrupt", "raise_failed"} \subseteq PlainSteps \ {"authority", "post"}
  BY PlainStepsAre DEF Raising
<1>3. CASE /\ mark_submission_uncertain(w, g, frame[w][g].attempt)
           /\ Goto(w, g, "interrupt")
  BY <1>1, <1>2, <1>3, UncertainCall, SubmissionRow DEF Quiet
<1>4. CASE Goto(w, g, "raise_failed") /\ UNCHANGED storeVars
  BY <1>1, <1>2, <1>4, SubmissionGoto DEF Quiet
<1> QED
  BY <1>3, <1>4 DEF GiveUp

\* The confirmation: the prompt in hand carries the marker of this attempt.
LEMMA ConfirmInv ==
    ASSUME DriveInv, NEW w \in Workers, NEW g \in Gens, Confirm(w, g), ForgetEnded
    PROVE  StepOK
<1> DEFINE j == frame[w][g].job
<1>1. frame[w][g].pc = "confirm" /\ frame[w][g].pc # "idle" /\ Quiet
  BY AtIsLive DEF Confirm
<1>2. j \in Jobs /\ prompt[j].g = g /\ prompt[j].attempt = frame[w][g].attempt
  BY <1>1, FrameState DEF FrameOK
<1>3. "raise_failed" \in PlainSteps \ {"authority", "post"} /\ "confirmed" \in Pcs
  BY PlainStepsAre DEF Raising, Bound
<1>4. ASSUME Goto(w, g, "confirmed")
      PROVE  /\ Moved(w, g) /\ frame'[w][g].pc = "confirmed"
             /\ frame'[w][g].attempt = frame[w][g].attempt /\ frame'[w][g].job = j
             /\ frame'[w][g].seen = frame[w][g].seen
  <2>1. \A v \in Workers, h \in Gens : v # w \/ h # g => frame'[v][h] = frame[v][h]
    BY <1>3, <1>4, DriveTypes, GotoFrame
  <2>2. WatchMoved(w, g)
    BY <2>1, ForgetEndedWatch
  <2> QED
    BY <1>3, <1>4, <2>2, GotoMoved
<1>5. CASE Goto(w, g, "raise_failed") /\ UNCHANGED storeVars
  BY <1>1, <1>3, <1>5, SubmissionGoto DEF Quiet
<1>6. CASE gen[g].job = j /\ Goto(w, g, "confirmed") /\ UNCHANGED storeVars
  <2>1. gen[g].sub = "confirmed"
    BY <1>1, <1>2, <1>6, RowState, LiveFrame DEF RowOK
  <2> QED
    BY <1>1, <1>4, <1>6, <2>1, BecomesBound
<1>7. CASE /\ confirm_owned_submission(w, g, frame[w][g].attempt, j)
           /\ Goto(w, g, "confirmed")
  <2>1. /\ RowCall(w, g) /\ takes' = takes
        /\ gen'[g].status = gen[g].status /\ gen'[g].soft = gen[g].soft
        /\ gen'[g].sub = "confirmed" /\ gen'[g].job = j
    BY <1>1, <1>2, <1>7, ConfirmCall
  <2>2. [Next]_storeVars /\ PromptsKept /\ prompt' = prompt
    BY <1>1, <2>1 DEF RowCall, PromptsKept, Quiet
  <2>3. /\ Moved(w, g) /\ frame'[w][g].pc = "confirmed"
        /\ frame'[w][g].attempt = frame[w][g].attempt /\ frame'[w][g].job = j
        /\ frame'[w][g].seen = frame[w][g].seen
    BY <1>4, <1>7
  <2>4. /\ life[w] = "up" /\ frame'[w][g].attempt # None
        /\ gen'[g].executor = "comfy" /\ gen'[g].attempt = frame[w][g].attempt
    <3>1. /\ life[w] = "up" /\ frame[w][g].attempt # None
          /\ gen[g].executor = "comfy" /\ gen[g].attempt = frame[w][g].attempt
      BY <1>1, LiveFrame
    <3>2. gen'[g].attempt = gen[g].attempt /\ gen'[g].executor = gen[g].executor
      BY <2>2, <3>1, AttemptStep DEF DriveInv
    <3> QED
      BY <2>3, <3>1, <3>2
  <2>5. FrameOK(w, g)'
    <3>1. \A i \in frame[w][g].seen : prompt[i].g = g /\ prompt[i].attempt = frame[w][g].attempt
      BY FrameState DEF FrameOK
    <3> QED
      BY <2>1, <2>2, <2>3, <2>4, <3>1 DEF FrameOK, Importing
  <2>6. OwnerOK(w, g)'
    BY <2>3 DEF OwnerOK, Looking, Importing
  <2>7. PostsOK(g)'
    <3>1. posts' = posts
      BY <1>1 DEF Quiet
    <3>2. \A v \in Workers : Armed(v, g)' => Armed(v, g)
      BY <2>3 DEF Armed, Moved
    <3> QED
      BY <2>2, <3>1, <3>2, PostsKept
  <2>8. TakesOK(g)'
    BY <2>1, <2>2, TakesKept
  <2>9. OwnStep(w, g)
    BY <1>1, <2>1, <2>3 DEF OwnStep, Moved, RowCall, Quiet
  <2>10. OwnPart(w, g)
    <3>1. RemoteTypeOK' /\ posts' \in [Gens -> Nat]
      BY <1>1, DriveTypes DEF RemoteTypeOK, Quiet
    <3>2. (\A i \in Jobs : MarkerOK(i)') /\ (\A m \in wire' : WireOK(m)')
      BY <1>1, <2>2, MarkersKept, WireKept DEF Quiet
    <3>3. prompt'[gen'[g].job].g = g /\ prompt'[gen'[g].job].attempt = gen'[g].attempt
      BY <1>2, <2>1, <2>2, <2>4
    <3> QED
      BY <2>3, <2>4, <2>5, <2>6, <2>7, <2>8, <3>1, <3>2, <3>3 DEF OwnPart, Moved
  <2> QED
    BY <2>1, <2>2, <2>9, <2>10, FrameStepInv DEF StepOK
<1> QED
  BY <1>5, <1>6, <1>7 DEF Confirm

\* The ambiguous attempt ends its row.
LEMMA InterruptInv ==
    ASSUME DriveInv, NEW w \in Workers, NEW g \in Gens, Interrupt(w, g), ForgetEnded
    PROVE  StepOK
<1>1. frame[w][g].pc # "idle" /\ Quiet
  BY AtIsLive DEF Interrupt
<1>2. "raise_failed" \in PlainSteps \ {"authority", "post"}
  BY PlainStepsAre DEF Raising
<1>3. CASE transition_owned_generation(w, g, "interrupted") /\ EndFrame(w, g)
  <2>1. "interrupted" \in (InFlight \ {"preparing"}) \cup Terminal
    BY DEF Terminal
  <2> QED
    BY <1>1, <1>3, <2>1, TransitionCall, SubmissionRow DEF Quiet
<1>4. CASE Goto(w, g, "raise_failed") /\ UNCHANGED storeVars
  BY <1>1, <1>2, <1>4, SubmissionGoto DEF Quiet
<1> QED
  BY <1>3, <1>4 DEF Interrupt, Terminalize

\* The envelope ends the frame, with its row while it is still the owner.
LEMMA EnvelopeInv ==
    ASSUME DriveInv, NEW w \in Workers, NEW g \in Gens, Envelope(w, g), ForgetEnded
    PROVE  StepOK
<1>1. frame[w][g].pc # "idle" /\ EndFrame(w, g) /\ Quiet
  BY AtIsLive DEF Envelope, Raising
<1>2. ASSUME NEW s \in {"failed", "interrupted"}, transition_owned_generation(w, g, s)
      PROVE  StepOK
  <2>1. s \in (InFlight \ {"preparing"}) \cup Terminal
    BY DEF Terminal
  <2> QED
    BY <1>1, <1>2, <2>1, TransitionCall, SubmissionRow DEF Quiet
<1>3. CASE UNCHANGED storeVars
  <2>1. frame \in [Workers -> [Gens -> Frames]]
    BY DriveTypes
  <2>2. \A v \in Workers, h \in Gens : v # w \/ h # g => frame'[v][h] = frame[v][h]
    BY <1>1, <2>1, NoFrameIsFrame, FrameUpdate DEF EndFrame
  <2>3. WatchMoved(w, g)
    BY <2>2, ForgetEndedWatch
  <2>4. Moved(w, g) /\ FrameOK(w, g)' /\ OwnerOK(w, g)' /\ ~ Armed(w, g)'
    BY <1>1, <2>3, EndFrameMoved
  <2>5. DriveInv'
    BY <1>1, <1>3, <2>4, LocalStepInv DEF Quiet
  <2> QED
    BY <1>3, <2>5 DEF StepOK, storeVars
<1> QED
  BY <1>2, <1>3 DEF Envelope

-----------------------------------------------------------------------------
(* Steps that are not a step of a running frame.                           *)

\* A process that gets to drive a row it has no frame for: a claim or an
\* adoption.
LEMMA NewFrameInv ==
    ASSUME DriveInv, NEW w \in Workers, NEW g \in Gens, NEW a \in Nat,
           life[w] = "up", At(w, g, "idle"), [Next]_storeVars,
           frame' = [frame EXCEPT ![w][g] = NewFrame(a)], ForgetEnded, Quiet,
           lease = w, lease' = lease, takes' = takes,
           \A h \in Gens \ {g} : gen'[h] = gen[h],
           gen'[g].executor = "comfy", gen'[g].attempt = a,
           gen'[g].sub = gen[g].sub, gen'[g].soft = gen[g].soft,
           gen'[g].status \in {gen[g].status} \cup InFlight
    PROVE  StepOK
<1>1. PromptsKept /\ posts' = posts /\ prompt' = prompt /\ wire' = wire /\ life' = life
  BY DEF PromptsKept, Quiet
<1>2. /\ NewFrame(a) \in Frames /\ NewFrame(a).pc = "entry" /\ NewFrame(a).attempt = a
      /\ NewFrame(a).seen = {}
  BY DEF NewFrame, NoFrame, Frames, FrameType, DriveSteps, SubmissionSteps
<1>3. /\ frame' \in [Workers -> [Gens -> Frames]] /\ frame'[w][g] = NewFrame(a)
      /\ \A v \in Workers, h \in Gens : v # w \/ h # g => frame'[v][h] = frame[v][h]
  <2>1. frame \in [Workers -> [Gens -> Frames]]
    BY DriveTypes
  <2> QED
    BY <1>2, <2>1
<1>4. WatchMoved(w, g)
  BY <1>3, ForgetEndedWatch
<1>5. FrameOK(w, g)' /\ OwnerOK(w, g)'
  BY <1>2, <1>3 DEF FrameOK, OwnerOK, Bound, Looking, Importing
<1>6. PostsOK(g)'
  <2>1. \A v \in Workers : Armed(v, g)' => Armed(v, g)
    BY <1>2, <1>3 DEF Armed
  <2> QED
    BY <1>1, <2>1, PostsKept
<1>7. TakesOK(g)'
  BY <1>1, TakesKept
<1>8. OwnStep(w, g)
  BY <1>1, <1>3, <1>4 DEF OwnStep, WatchMoved
<1>9. OwnPart(w, g)
  <2>1. RemoteTypeOK' /\ posts' \in [Gens -> Nat]
    BY <1>1, DriveTypes DEF RemoteTypeOK
  <2>2. (\A i \in Jobs : MarkerOK(i)') /\ (\A m \in wire' : WireOK(m)')
    BY <1>1, MarkersKept, WireKept
  <2>3. a # None
    OBVIOUS
  <2> QED
    BY <1>2, <1>3, <1>4, <1>5, <1>6, <1>7, <2>1, <2>2, <2>3 DEF OwnPart, WatchMoved
<1> QED
  BY <1>1, <1>8, <1>9, FrameStepInv DEF StepOK

\* A claim: a fresh attempt and its first frame.
LEMMA ClaimInv ==
    ASSUME DriveInv, NEW w \in Workers, NEW g \in Gens, Claim(w, g), ForgetEnded
    PROVE  StepOK
<1>1. Next
  BY DEF Claim, Next, WorkerCall
<1>2. gen \in [Gens -> Row] /\ gen[g] \in Row /\ minted \in Nat
  BY DriveTypes DEF DriveInv, StoreInv, TypeOK
<1>3. /\ gen'[g] = [gen[g] EXCEPT !.status = "preparing", !.worker = w,
                                  !.attempt = minted + 1]
      /\ \A h \in Gens \ {g} : gen'[h] = gen[h]
      /\ lease = w /\ lease' = lease /\ takes' = takes
      /\ gen[g].executor = "comfy"
  BY <1>2 DEF Claim, claim_next_generation
<1>4. /\ gen'[g].executor = "comfy" /\ gen'[g].attempt = minted + 1
      /\ gen'[g].sub = gen[g].sub /\ gen'[g].soft = gen[g].soft
      /\ gen'[g].status \in {gen[g].status} \cup InFlight /\ minted + 1 \in Nat
  BY <1>2, <1>3 DEF Row, InFlight
<1> QED
  BY <1>1, <1>3, <1>4, NewFrameInv DEF Claim

\* An adoption: the persisted attempt and a new frame.
LEMMA AdoptInv ==
    ASSUME DriveInv, NEW w \in Workers, NEW g \in Gens, Adopt(w, g), ForgetEnded
    PROVE  StepOK
<1>1. Next
  BY DEF Adopt, Next, WorkerCall
<1>2. gen \in [Gens -> Row] /\ gen[g] \in Row /\ minted \in Nat /\ RowOK(g)
  BY DriveTypes DEF DriveInv, StoreInv, TypeOK
<1>3. /\ gen'[g] = [gen[g] EXCEPT !.worker = w]
      /\ \A h \in Gens \ {g} : gen'[h] = gen[h]
      /\ lease = w /\ lease' = lease /\ takes' = takes
      /\ gen[g].executor = "comfy" /\ gen[g].status \in InFlight
  BY <1>2 DEF Adopt, adopt_stale_generation
<1>4. gen[g].attempt \in Nat
  BY <1>2, <1>3 DEF RowOK
<1>5. /\ gen'[g].executor = "comfy" /\ gen'[g].attempt = gen[g].attempt
      /\ gen'[g].sub = gen[g].sub /\ gen'[g].soft = gen[g].soft
      /\ gen'[g].status \in {gen[g].status} \cup InFlight
  BY <1>2, <1>3 DEF Row
<1> QED
  BY <1>1, <1>3, <1>4, <1>5, NewFrameInv DEF Adopt

\* What remains to be shown of a step that moves no frame, or ends some.
EnvPart ==
    /\ life' \in [Workers -> {"standby", "up", "dead"}]
    /\ frame' \in [Workers -> [Gens -> Frames]]
    /\ watch' \in [Workers -> [Gens -> Watches]]
    /\ posts' = posts /\ takes' = takes /\ RemoteTypeOK'
    /\ \A v \in Workers, h \in Gens :
         /\ Undisturbed(v, h) \/ frame'[v][h] = NoFrame
         /\ frame'[v][h].pc # "idle" => life'[v] = "up"
    /\ \A h \in Gens :
         TakesOK(h)' /\ (gen'[h].sub = "confirmed" => gen[h].sub = "confirmed")
    /\ \A j \in Jobs : MarkerOK(j)'
    /\ \A m \in wire' : WireOK(m)'

\* A step that disturbs no running frame keeps the invariant.
LEMMA EnvStepInv ==
    ASSUME DriveInv, [Next]_storeVars, PromptsKept, EnvPart
    PROVE  StepOK
<1>1. StoreInv'
  BY NextTypeOK, NextRowOK DEF DriveInv, StoreInv
<1>2. ASSUME NEW v \in Workers, NEW h \in Gens
      PROVE  /\ FrameOK(v, h)' /\ OwnerOK(v, h)' /\ (Armed(v, h)' => Armed(v, h))
             /\ frame'[v][h].pc # "idle" =>
                  life'[v] = "up" /\ frame'[v][h].attempt # None
             /\ frame'[v][h].pc = "seen" =>
                  watch'[v][h].obs \notin {"none", "unreachable"}
  <2>1. CASE frame'[v][h] = NoFrame
    BY <2>1, NoFrameIsFrame DEF FrameOK, OwnerOK, Armed, Bound, Looking, Importing
  <2>2. CASE Undisturbed(v, h)
    <3>1. FrameOK(v, h)' /\ OwnerOK(v, h)'
      BY <2>2, UndisturbedFrame, UndisturbedOwner
    <3>2. frame'[v][h] = frame[v][h]
      BY <2>2 DEF Undisturbed
    <3>3. frame[v][h].pc # "idle" =>
            /\ life'[v] = "up" /\ frame[v][h].attempt # None
            /\ watch'[v][h] = watch[v][h]
            /\ frame[v][h].pc = "seen" => watch[v][h].obs \notin {"none", "unreachable"}
      BY <2>2, <3>2, LiveFrame DEF EnvPart, Undisturbed
    <3> QED
      BY <3>1, <3>2, <3>3 DEF Armed
  <2> QED
    BY <2>1, <2>2 DEF EnvPart
<1>3. DriveTypeOK'
  BY <1>1, <1>2 DEF EnvPart, DriveTypeOK, StoreInv, Frames, Watches
<1>4. \A h \in Gens : PostsOK(h)'
  BY <1>2, PostsKept DEF EnvPart
<1>5. ConfirmedIsOurs'
  BY ConfirmedKept DEF EnvPart, ConfirmedIsOurs
<1>6. posts' \in [Gens -> Nat]
  BY DriveTypes DEF EnvPart
<1> QED
  BY <1>1, <1>2, <1>3, <1>4, <1>5, <1>6 DEF DriveInv, EnvPart, StepOK

\* A step that leaves the frames alone leaves the locals of the running ones.
LEMMA NoFrameMoves ==
    ASSUME DriveInv, frame' = frame, ForgetEnded
    PROVE  /\ frame' \in [Workers -> [Gens -> Frames]]
           /\ watch' \in [Workers -> [Gens -> Watches]]
           /\ \A v \in Workers, h \in Gens :
                frame[v][h].pc # "idle" =>
                  life[v] = "up" /\ watch'[v][h] = watch[v][h]
<1>1. \A v \in Workers, h \in Gens : frame[v][h].pc # "idle" => life[v] = "up"
  BY LiveFrame
<1> QED
  BY <1>1, DriveTypes, NoWatchIsWatch DEF ForgetEnded

\* A process without frames takes the lease: every frame stops being current.
LEMMA TakeoverInv ==
    ASSUME DriveInv, NEW w \in Workers, Takeover(w), ForgetEnded
    PROVE  StepOK
<1>1. /\ life[w] = "standby" /\ life' = [life EXCEPT ![w] = "up"]
      /\ frame' = frame /\ wire' = wire /\ prompt' = prompt /\ posts' = posts
      /\ lease' = w /\ gen' = gen /\ takes' = takes
  BY DEF Takeover, acquire_worker_lease
<1>2. [Next]_storeVars /\ PromptsKept
  BY <1>1 DEF Takeover, Next, PromptsKept
<1>3. life' \in [Workers -> {"standby", "up", "dead"}] /\ \A v \in Workers :
        life[v] = "up" => life'[v] = "up" /\ v # w
  BY <1>1, DriveTypes
<1>4. /\ frame' \in [Workers -> [Gens -> Frames]]
      /\ watch' \in [Workers -> [Gens -> Watches]]
      /\ \A v \in Workers, h \in Gens :
           frame[v][h].pc # "idle" =>
             life[v] = "up" /\ watch'[v][h] = watch[v][h]
  BY <1>1, NoFrameMoves
<1>5. \A v \in Workers, h \in Gens :
        Undisturbed(v, h) /\ (frame'[v][h].pc # "idle" => life'[v] = "up")
  <2> SUFFICES ASSUME NEW v \in Workers, NEW h \in Gens
               PROVE  Undisturbed(v, h) /\ (frame'[v][h].pc # "idle" => life'[v] = "up")
    OBVIOUS
  <2>1. frame'[v][h].pc # "idle" => life'[v] = "up"
    BY <1>1, <1>3, <1>4
  <2>2. CASE frame[v][h].pc = "idle"
    BY <1>1, <2>1, <2>2 DEF Undisturbed
  <2>3. CASE frame[v][h].pc # "idle"
    <3>1. life[v] = "up" /\ watch'[v][h] = watch[v][h]
      BY <1>4, <2>3
    <3>2. v # w
      BY <1>3, <3>1
    <3> QED
      BY <1>1, <2>1, <3>1, <3>2 DEF Undisturbed, Current
  <2> QED
    BY <2>2, <2>3
<1>6. \A h \in Gens : TakesOK(h)'
  BY <1>1, <1>2, TakesKept
<1>7. (\A j \in Jobs : MarkerOK(j)') /\ (\A m \in wire' : WireOK(m)')
  BY <1>1, <1>2, MarkersKept, WireKept
<1>8. RemoteTypeOK'
  BY <1>1, DriveTypes DEF RemoteTypeOK
<1> QED
  BY <1>1, <1>2, <1>3, <1>4, <1>5, <1>6, <1>7, <1>8, EnvStepInv DEF EnvPart

\* A crash only ends frames.
LEMMA CrashInv ==
    ASSUME DriveInv, NEW w \in Workers, Crash(w), ForgetEnded
    PROVE  StepOK
<1>1. /\ life' = [life EXCEPT ![w] = "dead"]
      /\ frame' = [frame EXCEPT ![w] = [h \in Gens |-> NoFrame]]
      /\ wire' = wire /\ prompt' = prompt /\ posts' = posts
      /\ lease' = lease /\ gen' = gen /\ takes' = takes
  BY DEF Crash, storeVars
<1>2. [Next]_storeVars /\ PromptsKept
  BY <1>1 DEF Crash, PromptsKept
<1>3. frame \in [Workers -> [Gens -> Frames]]
  BY DriveTypes
<1>4. /\ frame' \in [Workers -> [Gens -> Frames]]
      /\ \A h \in Gens : frame'[w][h] = NoFrame
      /\ \A v \in Workers \ {w}, h \in Gens : frame'[v][h] = frame[v][h]
  BY <1>1, <1>3, NoFrameIsFrame
<1>5. /\ life' \in [Workers -> {"standby", "up", "dead"}]
      /\ \A v \in Workers \ {w} : life'[v] = life[v]
  BY <1>1, DriveTypes
<1>6. /\ watch' \in [Workers -> [Gens -> Watches]]
      /\ \A v \in Workers \ {w}, h \in Gens :
           frame[v][h].pc # "idle" => watch'[v][h] = watch[v][h]
  BY <1>4, DriveTypes, NoWatchIsWatch DEF ForgetEnded
<1>7. ASSUME NEW v \in Workers, NEW h \in Gens
      PROVE  /\ Undisturbed(v, h) \/ frame'[v][h] = NoFrame
             /\ frame'[v][h].pc # "idle" => life'[v] = "up"
  <2>1. CASE v = w
    BY <1>4, <2>1, NoFrameIsFrame
  <2>2. CASE v # w
    <3>1. frame'[v][h] = frame[v][h]
      BY <1>4, <2>2
    <3>2. frame[v][h].pc # "idle" =>
            life'[v] = "up" /\ watch'[v][h] = watch[v][h]
      BY <1>5, <1>6, <2>2, LiveFrame
    <3> QED
      BY <1>1, <3>1, <3>2 DEF Undisturbed, Current
  <2> QED
    BY <2>1, <2>2
<1>8. \A h \in Gens : TakesOK(h)'
  BY <1>1, <1>2, TakesKept
<1>9. (\A j \in Jobs : MarkerOK(j)') /\ (\A m \in wire' : WireOK(m)')
  BY <1>1, <1>2, MarkersKept, WireKept
<1>10. RemoteTypeOK'
  BY <1>1, DriveTypes DEF RemoteTypeOK
<1> QED
  BY <1>1, <1>2, <1>4, <1>5, <1>6, <1>7, <1>8, <1>9, <1>10, EnvStepInv DEF EnvPart

\* A step of the executor or of the network: the rows and the frames stay, the
\* prompts keep what was known of them.
LEMMA RemoteInv ==
    ASSUME DriveInv, UNCHANGED <<storeVars, life, frame, posts>>, ForgetEnded,
           PromptsKept, RemoteTypeOK',
           \A j \in Jobs : MarkerOK(j)', \A m \in wire' : WireOK(m)'
    PROVE  StepOK
<1>1. [Next]_storeVars /\ gen' = gen /\ takes' = takes /\ lease' = lease
  BY DEF storeVars
<1>2. /\ frame' \in [Workers -> [Gens -> Frames]]
      /\ watch' \in [Workers -> [Gens -> Watches]]
      /\ \A v \in Workers, h \in Gens :
           frame[v][h].pc # "idle" =>
             life[v] = "up" /\ watch'[v][h] = watch[v][h]
  BY NoFrameMoves
<1>3. \A v \in Workers, h \in Gens :
        Undisturbed(v, h) /\ (frame'[v][h].pc # "idle" => life'[v] = "up")
  BY <1>1, <1>2 DEF Undisturbed, Current
<1>4. \A h \in Gens : TakesOK(h)'
  BY <1>1, TakesKept
<1>5. life' \in [Workers -> {"standby", "up", "dead"}]
  BY DriveTypes
<1> QED
  BY <1>1, <1>2, <1>3, <1>4, <1>5, EnvStepInv DEF EnvPart

\* The prompts, and what is on the wire, have their types.
LEMMA RemoteTypes ==
    ASSUME DriveInv
    PROVE  /\ wire \subseteq [g : Gens, attempt : Nat, by : Workers]
           /\ prompt \in [Jobs ->
                [state : {"none", "lost", "deleted"} \cup Queue \cup Done,
                 visible : {"yes", "no"}, g : Gens \cup {None},
                 attempt : Nat \cup {None}, by : Workers \cup {None}]]
BY DEF DriveInv, DriveTypeOK, RemoteTypeOK

\* A request that is handled puts its marker on an unused prompt id.
LEMMA RemoteEnqueuesInv ==
    ASSUME DriveInv, NEW m \in wire, NEW j \in Jobs, RemoteEnqueues(m, j), ForgetEnded
    PROVE  StepOK
<1>1. m.g \in Gens /\ m.attempt \in Nat /\ m.by \in Workers /\ gen[m.g].attempt = m.attempt
  BY RemoteTypes DEF DriveInv, WireOK
<1>2. prompt[j].state = "none" /\ prompt[j].g = None
  BY DEF RemoteEnqueues, DriveInv, MarkerOK
<1>3. /\ prompt'[j].state = "pending" /\ prompt'[j].g = m.g
      /\ prompt'[j].attempt = m.attempt
      /\ \A i \in Jobs \ {j} : prompt'[i] = prompt[i]
      /\ gen' = gen /\ wire' \subseteq wire
  BY RemoteTypes DEF RemoteEnqueues, storeVars
<1>4. PromptsKept
  BY <1>2, <1>3 DEF PromptsKept, Done
<1>5. RemoteTypeOK'
  BY <1>1, RemoteTypes DEF RemoteEnqueues, RemoteTypeOK, Queue
<1>6. ASSUME NEW i \in Jobs PROVE MarkerOK(i)'
  <2>1. MarkerOK(i)
    BY DEF DriveInv
  <2> QED
    BY <1>1, <1>3, <2>1 DEF MarkerOK
<1>7. \A i \in wire' : WireOK(i)'
  BY <1>3 DEF WireOK, DriveInv
<1> QED
  BY <1>4, <1>5, <1>6, <1>7, RemoteInv DEF RemoteEnqueues

\* A lost request is simply gone.
LEMMA RequestLostInv ==
    ASSUME DriveInv, NEW m \in wire, RequestLost(m), ForgetEnded
    PROVE  StepOK
<1>1. wire' \subseteq wire /\ prompt' = prompt /\ gen' = gen
  BY DEF RequestLost, storeVars
<1>2. PromptsKept /\ RemoteTypeOK'
  BY <1>1, DriveTypes DEF PromptsKept, RemoteTypeOK
<1>3. (\A j \in Jobs : MarkerOK(j)') /\ (\A i \in wire' : WireOK(i)')
  BY <1>1 DEF DriveInv, MarkerOK, WireOK
<1> QED
  BY <1>2, <1>3, RemoteInv DEF RequestLost

\* A prompt whose state may still change moves on; its marker stays.
LEMMA PromptMoves ==
    ASSUME DriveInv, NEW j \in Jobs,
           NEW s \in {"lost", "deleted"} \cup Queue \cup Done, NEW v \in {"yes", "no"},
           prompt' = [prompt EXCEPT ![j] = [@ EXCEPT !.state = s, !.visible = v]],
           \/ prompt[j].state \in Queue
           \/ prompt[j].state \in Done /\ s = prompt[j].state /\ v = "no",
           gen' = gen, wire' = wire
    PROVE  /\ PromptsKept /\ RemoteTypeOK'
           /\ \A i \in Jobs : MarkerOK(i)'
           /\ \A m \in wire' : WireOK(m)'
           /\ prompt'[j].state = s
<1>t. prompt \in [Jobs ->
                [state : {"none", "lost", "deleted"} \cup Queue \cup Done,
                 visible : {"yes", "no"}, g : Gens \cup {None},
                 attempt : Nat \cup {None}, by : Workers \cup {None}]]
  BY RemoteTypes
<1>1. /\ prompt'[j].state = s /\ prompt'[j].visible = v
      /\ prompt'[j].g = prompt[j].g /\ prompt'[j].attempt = prompt[j].attempt
      /\ \A i \in Jobs \ {j} : prompt'[i] = prompt[i]
  BY <1>t
<1>2. PromptsKept
  BY <1>1 DEF PromptsKept, Queue, Done
<1>3. RemoteTypeOK'
  <2> DEFINE r == [prompt[j] EXCEPT !.state = s, !.visible = v]
  <2>1. r \in [state : {"none", "lost", "deleted"} \cup Queue \cup Done,
               visible : {"yes", "no"}, g : Gens \cup {None},
               attempt : Nat \cup {None}, by : Workers \cup {None}]
    BY <1>t, ZenonT(40)
  <2>2. prompt' = [prompt EXCEPT ![j] = r]
    OBVIOUS
  <2> HIDE DEF r
  <2> QED
    BY <1>t, <2>1, <2>2, RemoteTypes DEF RemoteTypeOK
<1>4. ASSUME NEW i \in Jobs PROVE MarkerOK(i)'
  <2>1. MarkerOK(i)
    BY DEF DriveInv
  <2> QED
    BY <1>1, <2>1 DEF MarkerOK, Queue, Done
<1>5. \A m \in wire' : WireOK(m)'
  BY DEF DriveInv, WireOK
<1> QED
  BY <1>1, <1>2, <1>3, <1>4, <1>5

\* The executor starts, finishes or forgets a prompt.
LEMMA PromptStepInv ==
    ASSUME DriveInv, NEW j \in Jobs,
           RemoteStarts(j) \/ RemoteFinishes(j) \/ RemoteForgets(j), ForgetEnded
    PROVE  StepOK
<1>1. ASSUME NEW s \in {"lost", "deleted"} \cup Queue \cup Done, NEW v \in {"yes", "no"},
             Becomes(j, s, v),
             \/ prompt[j].state \in Queue
             \/ prompt[j].state \in Done /\ s = prompt[j].state /\ v = "no"
      PROVE  StepOK
  <2>1. UNCHANGED <<storeVars, life, frame, wire, posts>> /\ gen' = gen
    BY <1>1 DEF Becomes, storeVars
  <2>2. /\ PromptsKept /\ RemoteTypeOK'
        /\ \A i \in Jobs : MarkerOK(i)'
        /\ \A m \in wire' : WireOK(m)'
    BY <1>1, <2>1, PromptMoves DEF Becomes
  <2> QED
    BY <2>1, <2>2, RemoteInv
<1>2. CASE RemoteStarts(j)
  BY <1>1, <1>2 DEF RemoteStarts, Queue
<1>3. CASE RemoteFinishes(j)
  BY <1>1, <1>3 DEF RemoteFinishes, Queue, Done
<1>4. CASE RemoteForgets(j)
  BY <1>1, <1>4 DEF RemoteForgets
<1> QED
  BY <1>2, <1>3, <1>4

\* The API creates a row that no frame knows, cancels one that was never
\* submitted, or leaves a cancel request.
LEMMA ApiInv ==
    ASSUME DriveInv, NEW g \in Gens, Api(g), ForgetEnded
    PROVE  StepOK
<1>1. UNCHANGED <<life, frame, wire, prompt, posts>>
  BY DEF Api, driveVars
<1>2. [Next]_storeVars /\ PromptsKept
  <2>1. "comfy" \in Executors
    BY DEF Executors
  <2> QED
    BY <1>1, <2>1 DEF Api, Next, ApiCall, PromptsKept
<1>t. gen \in [Gens -> Row] /\ gen[g] \in Row /\ RowOK(g) /\ TakesOK(g)
  BY DriveTypes, RowState
<1>3. takes' = takes /\ lease' = lease /\ \A h \in Gens \ {g} : gen'[h] = gen[h]
  BY <1>t DEF Api, create_generation, NewRow, cancel_generation, cancel_unsubmitted,
              request_cancel
<1>4. gen[g].sub = "not_started" => takes[g] = {}
  BY <1>t DEF TakesOK
<1>5. /\ TakesOK(g)'
      /\ gen'[g].sub = "confirmed" => gen[g].sub = "confirmed"
      /\ gen[g].status # "absent" => gen'[g].soft = gen[g].soft /\ gen'[g].worker = gen[g].worker
  <2>1. CASE create_generation(g, "comfy")
    <3>1. gen[g].status = "absent" /\ gen'[g] = FreshRow("queued", "comfy")
      BY <1>t, <2>1 DEF create_generation, NewRow, Oldest, Absent
    <3>2. takes'[g] = {}
      BY <1>t, <1>3, <1>4, <3>1 DEF RowOK
    <3> QED
      BY <3>1, <3>2 DEF TakesOK, FreshRow
  <2>2. CASE cancel_unsubmitted(g)
    <3>1. gen'[g] = [gen[g] EXCEPT !.status = "cancelled"]
      BY <1>t, <2>2 DEF cancel_unsubmitted
    <3>2. gen[g].sub = "not_started"
      BY <1>t, <2>2 DEF cancel_unsubmitted, DefinitelyUnsubmitted, RowOK
    <3>3. takes'[g] = {}
      BY <1>3, <1>4, <3>2
    <3> QED
      BY <1>t, <3>1, <3>3 DEF TakesOK, Row
  <2>3. CASE request_cancel(g)
    <3>1. gen'[g] = [gen[g] EXCEPT !.cancel = "set"]
      BY <1>t, <2>3 DEF request_cancel
    <3>2. /\ gen'[g].status = gen[g].status /\ gen'[g].soft = gen[g].soft
          /\ gen'[g].sub = gen[g].sub /\ gen'[g].worker = gen[g].worker
      BY <1>t, <3>1 DEF Row
    <3>3. TakesOK(g)'
      BY <1>2, <1>3, <3>2, TakesKept
    <3> QED
      BY <3>2, <3>3
  <2> QED
    BY <2>1, <2>2, <2>3 DEF Api, cancel_generation
<1>6. /\ frame' \in [Workers -> [Gens -> Frames]]
      /\ watch' \in [Workers -> [Gens -> Watches]]
      /\ \A v \in Workers, h \in Gens :
           frame[v][h].pc # "idle" =>
             life[v] = "up" /\ watch'[v][h] = watch[v][h]
  BY <1>1, NoFrameMoves
<1>7. ASSUME NEW v \in Workers, NEW h \in Gens
      PROVE  Undisturbed(v, h) /\ (frame'[v][h].pc # "idle" => life'[v] = "up")
  <2>1. frame'[v][h] = frame[v][h] /\ life' = life
    BY <1>1
  <2>2. frame[v][h].pc # "idle" => gen[h].status # "absent"
    BY LiveFrame
  <2>3. h # g => gen'[h] = gen[h]
    BY <1>3
  <2>4. frame[v][h].pc # "idle" =>
          gen'[h].soft = gen[h].soft /\ gen'[h].worker = gen[h].worker
    BY <1>5, <2>2, <2>3
  <2> QED
    BY <1>3, <1>6, <2>1, <2>4 DEF Undisturbed, Current
<1>8. ASSUME NEW h \in Gens
      PROVE  TakesOK(h)' /\ (gen'[h].sub = "confirmed" => gen[h].sub = "confirmed")
  <2>1. CASE h = g
    BY <1>5, <2>1
  <2>2. CASE h # g
    <3>1. gen'[h] = gen[h] /\ takes'[h] = takes[h]
      BY <1>3, <2>2
    <3> QED
      BY <1>2, <3>1, TakesKept
  <2> QED
    BY <2>1, <2>2
<1>9. (\A j \in Jobs : MarkerOK(j)') /\ (\A m \in wire' : WireOK(m)')
  BY <1>1, <1>2, MarkersKept, WireKept
<1>10. RemoteTypeOK' /\ life' \in [Workers -> {"standby", "up", "dead"}]
  BY <1>1, DriveTypes DEF RemoteTypeOK
<1> QED
  BY <1>1, <1>2, <1>3, <1>6, <1>7, <1>8, <1>9, <1>10, EnvStepInv DEF EnvPart

-----------------------------------------------------------------------------
(* The steps of the drive proper.                                          *)

\* What a frame at a bound step knows.
LEMMA BoundState ==
    ASSUME DriveInv, NEW w \in Workers, NEW g \in Gens, frame[w][g].pc \in Bound
    PROVE  /\ frame[w][g].pc # "idle" /\ ~ Armed(w, g)
           /\ gen[g].sub = "confirmed" /\ gen[g].executor = "comfy"
           /\ gen[g].job \in Jobs /\ frame[w][g].job = gen[g].job
           /\ gen[g].attempt = frame[w][g].attempt /\ gen[g].attempt \in 1 .. minted
           /\ prompt[gen[g].job].g = g
<1>1. frame[w][g].pc # "idle" /\ ~ Armed(w, g)
  BY DEF Bound, Armed
<1>2. FrameOK(w, g) /\ RowOK(g) /\ gen[g].job \in Jobs \cup {None}
  BY FrameState, RowState
<1>3. gen[g].sub = "confirmed" /\ frame[w][g].job = gen[g].job
  BY <1>2 DEF FrameOK
<1>4. prompt[gen[g].job].g = g
  BY <1>3 DEF DriveInv, ConfirmedIsOurs
<1> QED
  BY <1>1, <1>2, <1>3, <1>4, LiveFrame DEF RowOK

\* A step that only moves a bound frame to another bound step, where it knows
\* what FrameOK and OwnerOK want of that step.
LEMMA BoundGotoInv ==
    ASSUME DriveInv, NEW w \in Workers, NEW g \in Gens, frame[w][g].pc \in Bound,
           NEW s \in Bound, Goto(w, g, s), WatchMoved(w, g),
           UNCHANGED <<storeVars, life, prompt, wire, posts>>,
           s = "seen" => watch'[w][g].obs \notin {"none", "unreachable"},
           s \in {"seen", "outcome"} /\ watch'[w][g].obs \in Done =>
             prompt[gen[g].job].state = watch'[w][g].obs,
           s = "outcome" => watch'[w][g].obs \in Done,
           s \in Importing => prompt[gen[g].job].state = "succeeded",
           s = "cancelled" => prompt[gen[g].job].state \in {"deleted", "cancelled"},
           frame'[w][g].pc = s => OwnerOK(w, g)'
    PROVE  StepOK
<1>1. [Next]_storeVars /\ PromptsKept /\ gen' = gen /\ prompt' = prompt /\ takes' = takes
  BY DEF PromptsKept, storeVars
<1>2. s \in Pcs
  BY PlainStepsAre
<1>3. /\ Moved(w, g) /\ frame'[w][g].pc = s
      /\ frame'[w][g].attempt = frame[w][g].attempt
      /\ frame'[w][g].job = frame[w][g].job
      /\ frame'[w][g].seen = frame[w][g].seen
  BY <1>2, GotoMoved
<1>4. frame[w][g].pc # "idle" /\ gen[g].sub = "confirmed" /\ frame[w][g].job = gen[g].job
  BY BoundState
<1>5. FrameOK(w, g)'
  BY <1>1, <1>3, <1>4, BoundFrame
<1>6. ~ Armed(w, g)'
  BY <1>3 DEF Armed, Bound
<1>7. DriveInv'
  BY <1>3, <1>4, <1>5, <1>6, LocalStepInv
<1> QED
  BY <1>1, <1>7 DEF StepOK

\* A step that only moves a bound frame to a plain one.
LEMMA BoundPlainInv ==
    ASSUME DriveInv, NEW w \in Workers, NEW g \in Gens, frame[w][g].pc \in Bound,
           NEW s \in {"interrupt"} \cup Raising, Goto(w, g, s), WatchMoved(w, g),
           UNCHANGED <<storeVars, life, prompt, wire, posts>>
    PROVE  StepOK
<1>1. s \in PlainSteps /\ s \notin {"authority", "post"}
  BY PlainStepsAre DEF Raising
<1>2. frame[w][g].pc # "idle"
  BY BoundState
<1>3. DriveInv'
  BY <1>1, <1>2, PlainGotoInv
<1> QED
  BY <1>3 DEF StepOK, storeVars

\* A transaction with which a bound frame goes to another bound step.
LEMMA BoundRowInv ==
    ASSUME DriveInv, NEW w \in Workers, NEW g \in Gens, frame[w][g].pc \in Bound,
           RowCall(w, g), UNCHANGED <<life, prompt, wire, posts, watch>>,
           NEW s \in Bound \ {"seen", "outcome", "cancelled"}, Goto(w, g, s),
           s \in Importing => prompt[gen[g].job].state = "succeeded",
           frame'[w][g].pc = s => OwnerOK(w, g)',
           TakesOK(g)'
    PROVE  DriveInv'
<1>1. [Next]_storeVars /\ PromptsKept /\ prompt' = prompt
  BY DEF PromptsKept, RowCall
<1>2. s \in Pcs /\ WatchMoved(w, g)
  BY PlainStepsAre, StillWatch
<1>3. /\ Moved(w, g) /\ frame'[w][g].pc = s
      /\ frame'[w][g].attempt = frame[w][g].attempt
      /\ frame'[w][g].job = frame[w][g].job
      /\ frame'[w][g].seen = frame[w][g].seen
  BY <1>2, GotoMoved
<1>4. frame[w][g].pc # "idle" /\ gen[g].sub = "confirmed" /\ frame[w][g].job = gen[g].job
  BY BoundState
<1>5. FrameOK(w, g)'
  BY <1>1, <1>3, <1>4, BoundFrame
<1>6. ~ Armed(w, g)'
  BY <1>3 DEF Armed, Bound
<1> QED
  BY <1>1, <1>3, <1>4, <1>5, <1>6, RowStepInv DEF RowCall

\* A fenced end of the drive, or the exception of a refused one.  An end as
\* `succeeded` needs every output, an end as `cancelled` none.
LEMMA EndInv ==
    ASSUME DriveInv, NEW w \in Workers, NEW g \in Gens, frame[w][g].pc \in Bound,
           NEW s \in Terminal, End(w, g, s), UNCHANGED <<prompt, life, wire, posts>>,
           s = "succeeded" => takes[g] = Keys,
           s = "cancelled" /\ Current(w, g) => takes[g] = {}
    PROVE  StepOK
<1>1. frame[w][g].pc # "idle"
  BY BoundState
<1>2. CASE ~ Fenced(w, g) /\ Goto(w, g, "raise_failed") /\ UNCHANGED <<storeVars, watch>>
  BY <1>2, StillWatch, BoundPlainInv DEF Raising
<1>3. CASE transition_owned_generation(w, g, s) /\ EndFrame(w, g) /\ Forget(w, g)
  <2>1. /\ RowCall(w, g) /\ takes' = takes
        /\ gen'[g].status = s /\ gen'[g].soft = gen[g].soft
        /\ gen'[g].sub = gen[g].sub
    BY <1>3, TransitionCall
  <2>2. [Next]_storeVars /\ PromptsKept /\ Current(w, g)
    BY <2>1 DEF RowCall, PromptsKept, Current
  <2>3. TakesOK(g)'
    <3>1. CASE s \in {"failed", "interrupted"}
      BY <2>1, <2>2, <3>1, TakesKept
    <3>2. CASE s = "cancelled"
      BY <2>1, <2>2, <3>2 DEF TakesOK
    <3>3. CASE s = "succeeded"
      <4>1. TakesOK(g) /\ gen[g].attempt # None /\ gen[g].sub = "confirmed"
        BY RowState, BoundState
      <4>2. gen'[g].executor = gen[g].executor /\ gen'[g].job = gen[g].job
        BY <2>2, <4>1, AttemptStep, ResolvedStep DEF DriveInv
      <4> QED
        BY <2>1, <3>3, <4>1, <4>2 DEF TakesOK
    <3> QED
      BY <3>1, <3>2, <3>3 DEF Terminal
  <2>4. WatchMoved(w, g)
    BY <1>3, NoWatchIsWatch, WatchingWatch DEF Forget
  <2>5. DriveInv'
    BY <1>1, <1>3, <2>1, <2>3, <2>4, PlainRowInv
  <2> QED
    BY <2>1, <2>2, <2>5 DEF StepOK
<1> QED
  BY <1>2, <1>3 DEF End

\* A frame that ends without a transition.
LEMMA EndFrameInv ==
    ASSUME DriveInv, NEW w \in Workers, NEW g \in Gens, frame[w][g].pc \in Bound,
           EndFrame(w, g), WatchMoved(w, g),
           UNCHANGED <<storeVars, life, prompt, wire, posts>>
    PROVE  StepOK
<1>1. frame[w][g].pc # "idle"
  BY BoundState
<1>2. Moved(w, g) /\ FrameOK(w, g)' /\ OwnerOK(w, g)' /\ ~ Armed(w, g)'
  BY EndFrameMoved
<1>3. DriveInv'
  BY <1>1, <1>2, LocalStepInv
<1> QED
  BY <1>3 DEF StepOK, storeVars

\* A frame that knows nothing about Takes has nothing to show about them.
LEMMA IndifferentOwner ==
    ASSUME NEW w \in Workers, NEW g \in Gens,
           frame'[w][g].pc \in {"poll", "cancelled", "confirmed"}
    PROVE  OwnerOK(w, g)'
BY DEF OwnerOK, Looking, Importing

\* The submitted transition, or none for an adopted row.
LEMMA SubmittedInv ==
    ASSUME DriveInv, NEW w \in Workers, NEW g \in Gens, Submitted(w, g)
    PROVE  StepOK
<1>1. frame[w][g].pc \in Bound /\ Calm /\ Still
  BY DEF Submitted, At, Bound
<1>2. "poll" \in Bound /\ "poll" \notin {"seen", "outcome", "cancelled"} \cup Importing
  BY DEF Bound, Importing
<1>3. CASE transition_owned_generation(w, g, "submitted") /\ Goto(w, g, "poll")
  <2>1. "submitted" \in (InFlight \ {"preparing"}) \cup Terminal
    BY DEF InFlight
  <2>2. /\ RowCall(w, g) /\ takes' = takes
        /\ gen'[g].status = "submitted" /\ gen'[g].soft = gen[g].soft
    BY <1>3, <2>1, TransitionCall
  <2>3. TakesOK(g)'
    BY <1>1, <2>2, TakesKept DEF PromptsKept, RowCall, Still, InFlight
  <2>4. DriveInv'
    BY <1>1, <1>2, <1>3, <2>2, <2>3, IndifferentOwner, BoundRowInv DEF Calm, Still
  <2> QED
    BY <2>2, <2>4 DEF StepOK, RowCall
<1>4. CASE Goto(w, g, "raise_failed") /\ UNCHANGED storeVars
  BY <1>1, <1>4, StillWatch, BoundPlainInv DEF Calm, Still, Raising
<1>5. CASE Goto(w, g, "poll") /\ UNCHANGED storeVars
  BY <1>1, <1>2, <1>5, StillWatch, IndifferentOwner, BoundGotoInv DEF Calm, Still
<1> QED
  BY <1>3, <1>4, <1>5 DEF Submitted

\* Whoever only watches has read that there is no cancel request, hence no
\* selected soft cancellation.
LEMMA PollInv ==
    ASSUME DriveInv, NEW w \in Workers, NEW g \in Gens, Poll(w, g)
    PROVE  StepOK
<1> DEFINE m == IF gen[g].cancel = "set" THEN "cancel" ELSE "watch"
           o == [watch[w][g] EXCEPT !.mode = m]
<1>1. /\ frame[w][g].pc \in Bound /\ Goto(w, g, "look_history") /\ Watching(w, g, o)
      /\ UNCHANGED <<storeVars, life, prompt, wire, posts>>
  BY DEF Poll, At, Bound, Calm
<1>2. o \in Watches /\ o.mode = m
  BY FrameState DEF Watches, Modes
<1> HIDE DEF o
<1>3. WatchMoved(w, g) /\ watch'[w][g].mode = m
  <2>1. o \in Watches /\ Watching(w, g, o)
    BY <1>1, <1>2
  <2>2. WatchMoved(w, g) /\ watch'[w][g] = o
    BY <2>1, WatchingWatch
  <2> QED
    BY <1>2, <2>2
<1>4. "look_history" \in Bound
        /\ "look_history" \notin {"seen", "outcome", "cancelled"} \cup Importing
  BY DEF Bound, Importing
<1>5. ASSUME frame'[w][g].pc = "look_history" PROVE OwnerOK(w, g)'
  <2>1. gen' = gen /\ RowOK(g)
    BY <1>1, RowState DEF storeVars
  <2>2. m # "none" /\ m # "after" /\ (m = "watch" => gen'[g].soft # "set")
    BY <2>1 DEF RowOK
  <2> QED
    BY <1>3, <1>5, <2>2 DEF OwnerOK, Looking, Importing
<1> QED
  BY <1>1, <1>3, <1>4, <1>5, BoundGotoInv

\* What a completed observation records.
LEMMA ObservedWatch ==
    ASSUME DriveInv, NEW w \in Workers, NEW g \in Gens, NEW obs \in Observations,
           NEW absent \in {"no", "counting"}, Observed(w, g, obs, absent)
    PROVE  /\ WatchMoved(w, g)
           /\ watch'[w][g].mode = watch[w][g].mode /\ watch'[w][g].obs = obs
<1> DEFINE p == IF watch[w][g].mode = "watch" THEN "no" ELSE watch[w][g].outage
           o == [watch[w][g] EXCEPT !.obs = obs, !.absent = absent, !.outage = p]
<1>1. watch[w][g] \in Watches
  BY FrameState
<1>2. p \in {"no", "counting", "over"}
  BY <1>1 DEF Watches
<1>3. Watching(w, g, o)
  BY DEF Observed
<1> HIDE DEF p
<1>4. o \in Watches /\ o.mode = watch[w][g].mode /\ o.obs = obs
  BY <1>1, <1>2 DEF Watches
<1> QED
  BY <1>3, <1>4, WatchingWatch

\* What the owner knows while it looks at its prompt.
LEMMA LookingOwner ==
    ASSUME DriveInv, NEW w \in Workers, NEW g \in Gens, Current(w, g),
           frame[w][g].pc \in Looking
    PROVE  /\ watch[w][g].mode # "none"
           /\ watch[w][g].mode = "watch" => gen[g].soft # "set"
           /\ watch[w][g].mode = "after" => takes[g] = {}
BY FrameState DEF OwnerOK

\* A terminal record still in history has no Takes behind a soft cancellation;
\* a record that has left history may have.
LEMMA LookHistoryInv ==
    ASSUME DriveInv, NEW w \in Workers, NEW g \in Gens, LookHistory(w, g)
    PROVE  StepOK
<1> DEFINE j == frame[w][g].job
<1>1. /\ frame[w][g].pc \in Bound \cap Looking
      /\ UNCHANGED <<storeVars, life, prompt, wire, posts>>
      /\ gen' = gen /\ takes' = takes /\ lease' = lease
  BY DEF LookHistory, At, Bound, Looking, Calm, storeVars
<1>2. j = gen[g].job /\ j \in Jobs /\ TakesOK(g)
  BY <1>1, BoundState, RowState
<1>3. Current(w, g)' => Current(w, g)
  BY <1>1 DEF Current
<1>4. ASSUME j \in InHistory, Observed(w, g, prompt[j].state, "no")
      PROVE  StepOK
  <2>1. prompt[j].state \in Done /\ prompt[j].visible = "yes"
          /\ Goto(w, g, "seen")
    BY <1>4 DEF InHistory, Observed
  <2>2. prompt[j].state \in Observations
          /\ prompt[j].state \notin {"none", "unreachable", "unknown", "lost"} \cup Queue
    BY <2>1 DEF Observations, Done, Queue
  <2>3. /\ WatchMoved(w, g) /\ watch'[w][g].mode = watch[w][g].mode
        /\ watch'[w][g].obs = prompt[j].state
    <3> DEFINE obs == prompt[j].state
    <3>1. obs \in Observations /\ "no" \in {"no", "counting"} /\ Observed(w, g, obs, "no")
      BY <1>4, <2>2
    <3> HIDE DEF obs
    <3>2. WatchMoved(w, g) /\ watch'[w][g].mode = watch[w][g].mode /\ watch'[w][g].obs = obs
      BY <3>1, ObservedWatch
    <3> QED
      BY <3>2 DEF obs
  <2>4. "seen" \in Bound /\ "seen" \notin {"outcome", "cancelled"} \cup Importing
    BY DEF Bound, Importing
  <2>5. gen[g].soft = "set" => takes[g] = {}
    BY <1>2, <2>1 DEF TakesOK
  <2>6. ASSUME frame'[w][g].pc = "seen" PROVE OwnerOK(w, g)'
    BY <1>1, <1>3, <2>2, <2>3, <2>5, <2>6, LookingOwner DEF OwnerOK, Looking, Importing
  <2> QED
    BY <1>1, <1>2, <2>1, <2>2, <2>3, <2>4, <2>6, BoundGotoInv
<1>5. ASSUME j \notin InHistory, Goto(w, g, "look_queue"), UNCHANGED watch
      PROVE  StepOK
  <2>1. prompt[j].visible \in {"yes", "no"}
    BY <1>2, RemoteTypes
  <2>2. takes[g] = {} \/ prompt[j].visible = "no"
    BY <1>2, <1>5, <2>1 DEF TakesOK, InHistory, Done
  <2>3. "look_queue" \in Bound
          /\ "look_queue" \notin {"seen", "outcome", "cancelled"} \cup Importing
    BY DEF Bound, Importing
  <2>4. ASSUME frame'[w][g].pc = "look_queue" PROVE OwnerOK(w, g)'
    <3>1. frame'[w][g].job = j
      BY <1>5, DriveTypes, GotoFrame, PlainStepsAre, <2>3
    <3> QED
      BY <1>1, <1>3, <1>5, <2>2, <2>4, <3>1, LookingOwner DEF OwnerOK, Looking, Importing
  <2> QED
    BY <1>1, <1>5, <2>3, <2>4, StillWatch, BoundGotoInv
<1> QED
  BY <1>4, <1>5 DEF LookHistory

\* A prompt in the queue has not succeeded, so its row has no Takes.
LEMMA LookQueueInv ==
    ASSUME DriveInv, NEW w \in Workers, NEW g \in Gens, LookQueue(w, g)
    PROVE  StepOK
<1> DEFINE j == frame[w][g].job
<1>1. /\ frame[w][g].pc = "look_queue"
      /\ frame[w][g].pc \in Bound /\ frame[w][g].pc \in Looking
      /\ UNCHANGED <<storeVars, life, prompt, wire, posts>>
      /\ gen' = gen /\ takes' = takes /\ lease' = lease /\ prompt' = prompt
  BY DEF LookQueue, At, Bound, Looking, Calm, storeVars
<1>2. j = gen[g].job /\ j \in Jobs /\ TakesOK(g) /\ OwnerOK(w, g)
  <2>1. frame[w][g].pc \in Bound
    BY <1>1
  <2>2. j = gen[g].job /\ j \in Jobs
    BY <2>1, BoundState
  <2> QED
    BY <2>2, RowState, FrameState
<1>3. Current(w, g)' => Current(w, g)
  BY <1>1 DEF Current
<1>4. PICK obs \in QueueShows(w, g) :
        Observed(w, g, obs, IF obs \in Queue THEN "no" ELSE "counting")
  BY DEF LookQueue
<1>5. (obs \in Queue /\ prompt[j].state = obs) \/ obs \in {"unknown", "lost"}
  BY <1>4 DEF QueueShows, InQueue
<1>6. obs \in Observations /\ obs \notin {"none", "unreachable"} \cup Done
  BY <1>5 DEF Observations, Queue, Done
<1>7. Goto(w, g, "seen")
  BY <1>4 DEF Observed
<1>8. /\ WatchMoved(w, g) /\ watch'[w][g].mode = watch[w][g].mode
      /\ watch'[w][g].obs = obs
  BY <1>4, <1>6, ObservedWatch
<1>9. "seen" \in Bound /\ "seen" \notin {"outcome", "cancelled"} \cup Importing
  BY DEF Bound, Importing
<1>10. obs \in Queue => takes[g] = {}
  BY <1>2, <1>5 DEF TakesOK, Queue
<1>11. Current(w, g) => takes[g] = {} \/ prompt[j].visible = "no"
  BY <1>1, <1>2 DEF OwnerOK
<1>12. ASSUME frame'[w][g].pc = "seen" PROVE OwnerOK(w, g)'
  <2>1. frame'[w][g].job = j
    BY <1>7, DriveTypes, GotoFrame, PlainStepsAre, <1>9
  <2> QED
    BY <1>1, <1>3, <1>6, <1>8, <1>10, <1>11, <1>12, <2>1, LookingOwner
    DEF OwnerOK, Looking, Importing
<1> QED
  BY <1>1, <1>6, <1>7, <1>8, <1>9, <1>12, BoundGotoInv

\* An unreadable executor: poll again, or leave the loop.
LEMMA ReadFailsInv ==
    ASSUME DriveInv, NEW w \in Workers, NEW g \in Gens, ReadFails(w, g)
    PROVE  StepOK
<1>1. frame[w][g].pc \in Bound /\ UNCHANGED <<storeVars, life, prompt, wire, posts>>
  BY DEF ReadFails, Bound, Calm
<1>2. ASSUME NEW p \in {"no", "counting", "over"},
             \/ Watching(w, g, [[watch[w][g] EXCEPT !.obs = "unreachable"] EXCEPT !.outage = p])
             \/ Watching(w, g, [watch[w][g] EXCEPT !.obs = "unreachable"])
      PROVE  WatchMoved(w, g)
  <2> DEFINE o == [watch[w][g] EXCEPT !.obs = "unreachable"]
  <2>1. o \in Watches
    BY FrameState DEF Watches, Observations
  <2>2. Watching(w, g, [o EXCEPT !.outage = p]) \/ Watching(w, g, o)
    BY <1>2
  <2> HIDE DEF o
  <2>3. [o EXCEPT !.outage = p] \in Watches
    BY <2>1 DEF Watches
  <2> QED
    BY <2>1, <2>2, <2>3, WatchingWatch
<1>3. WatchMoved(w, g)
  BY <1>2 DEF ReadFails
<1>4. CASE Goto(w, g, "poll")
  <2>1. "poll" \in Bound /\ "poll" \notin {"seen", "outcome", "cancelled"} \cup Importing
    BY DEF Bound, Importing
  <2> QED
    BY <1>1, <1>3, <1>4, <2>1, IndifferentOwner, BoundGotoInv
<1>5. CASE Goto(w, g, "interrupt") \/ Goto(w, g, "raise_interrupted")
  <2>1. {"interrupt", "raise_interrupted"} \subseteq {"interrupt"} \cup Raising
    BY DEF Raising
  <2> QED
    BY <1>1, <1>3, <1>5, <2>1, BoundPlainInv
<1> QED
  BY <1>4, <1>5 DEF ReadFails

\* What a frame knows once it has seen its prompt.
LEMMA SeenState ==
    ASSUME DriveInv, NEW w \in Workers, NEW g \in Gens, At(w, g, "seen")
    PROVE  /\ frame[w][g].pc \in Bound
           /\ watch[w][g].obs \in Done =>
                prompt[gen[g].job].state = watch[w][g].obs
                  /\ (Current(w, g) => gen[g].soft # "set" \/ takes[g] = {})
           /\ Current(w, g) /\ watch[w][g].mode = "watch" => gen[g].soft # "set"
           /\ Current(w, g) /\ watch[w][g].mode = "after" => takes[g] = {}
           /\ Current(w, g) /\ watch[w][g].obs \in Queue => takes[g] = {}
           /\ Current(w, g) /\ watch[w][g].obs \in {"unknown", "lost"} =>
                takes[g] = {} \/ prompt[gen[g].job].visible = "no"
<1>1. frame[w][g].pc = "seen" /\ frame[w][g].pc \in Bound /\ frame[w][g].pc \in Looking
  BY DEF At, Bound, Looking
<1>2. frame[w][g].job = gen[g].job
  BY <1>1, BoundState
<1>3. FrameOK(w, g) /\ OwnerOK(w, g)
  BY FrameState
<1> QED
  BY <1>1, <1>2, <1>3 DEF FrameOK, OwnerOK

\* A frame that has seen its prompt end goes on to the outcome: no soft
\* cancellation is selected.
LEMMA ToOutcomeInv ==
    ASSUME DriveInv, NEW w \in Workers, NEW g \in Gens, At(w, g, "seen"),
           watch[w][g].obs \in Done, Current(w, g) => gen[g].soft # "set",
           Goto(w, g, "outcome"),
           UNCHANGED <<storeVars, life, prompt, wire, posts, watch>>
    PROVE  StepOK
<1>1. frame[w][g].pc \in Bound /\ prompt[gen[g].job].state = watch[w][g].obs
  BY SeenState
<1>2. "outcome" \in Bound /\ "outcome" \notin {"seen", "cancelled"} \cup Importing
  BY DEF Bound, Importing
<1>3. ASSUME frame'[w][g].pc = "outcome" PROVE OwnerOK(w, g)'
  BY <1>3 DEF OwnerOK, Looking, Importing, Current, storeVars
<1>4. watch' = watch /\ WatchMoved(w, g)
  BY StillWatch
<1> QED
  BY <1>1, <1>2, <1>3, <1>4, BoundGotoInv

\* Going back to the poll.
LEMMA ToPollInv ==
    ASSUME DriveInv, NEW w \in Workers, NEW g \in Gens, frame[w][g].pc \in Bound,
           Goto(w, g, "poll"), UNCHANGED <<storeVars, life, prompt, wire, posts, watch>>
    PROVE  StepOK
<1>1. "poll" \in Bound /\ "poll" \notin {"seen", "outcome", "cancelled"} \cup Importing
  BY DEF Bound, Importing
<1> QED
  BY <1>1, StillWatch, IndifferentOwner, BoundGotoInv

\* An observation while watching.
LEMMA WatchSeenInv ==
    ASSUME DriveInv, NEW w \in Workers, NEW g \in Gens, WatchSeen(w, g)
    PROVE  StepOK
<1>1. At(w, g, "seen") /\ frame[w][g].pc \in Bound
        /\ UNCHANGED <<prompt, life, wire, posts>>
        /\ (Current(w, g) => gen[g].soft # "set")
  BY SeenState DEF WatchSeen, Calm
<1>2. CASE watch[w][g].obs \in Done /\ Goto(w, g, "outcome") /\ UNCHANGED <<storeVars, watch>>
  BY <1>1, <1>2, ToOutcomeInv
<1>3. CASE End(w, g, "interrupted")
  <2>1. "interrupted" \in Terminal
    BY DEF Terminal
  <2> QED
    BY <1>1, <1>3, <2>1, EndInv
<1>4. CASE Goto(w, g, "poll") /\ UNCHANGED <<storeVars, watch>>
  BY <1>1, <1>4, ToPollInv
<1> QED
  BY <1>2, <1>3, <1>4 DEF WatchSeen

\* A prompt that ended while it was being cancelled.
LEMMA TerminalInv ==
    ASSUME DriveInv, NEW w \in Workers, NEW g \in Gens, At(w, g, "seen"),
           watch[w][g].obs \in Done, TerminalWhileCancelling(w, g),
           UNCHANGED <<prompt, life, wire, posts>>
    PROVE  StepOK
<1>1. /\ frame[w][g].pc \in Bound
      /\ Current(w, g) => gen[g].soft # "set" \/ takes[g] = {}
  BY SeenState
<1>2. CASE Goto(w, g, "raise_failed") /\ UNCHANGED <<storeVars, watch>>
  BY <1>1, <1>2, StillWatch, BoundPlainInv DEF Raising
<1>3. CASE SoftSelected(g) /\ End(w, g, "cancelled")
  <2>1. "cancelled" \in Terminal
    BY DEF Terminal
  <2> QED
    BY <1>1, <1>3, <2>1, EndInv DEF SoftSelected
<1>4. CASE EndFrame(w, g) /\ Forget(w, g) /\ UNCHANGED storeVars
  <2>1. WatchMoved(w, g)
    BY <1>4, NoWatchIsWatch, WatchingWatch DEF Forget
  <2> QED
    BY <1>1, <1>4, <2>1, EndFrameInv
<1>5. CASE ~ SoftSelected(g) /\ Goto(w, g, "outcome") /\ UNCHANGED <<storeVars, watch>>
  BY <1>5, ToOutcomeInv DEF SoftSelected
<1>6. CASE gen[g].worker # w
  BY <1>2, <1>6 DEF TerminalWhileCancelling
<1>7. CASE gen[g].worker = w /\ SoftSelected(g)
  <2>1. End(w, g, "cancelled")
    BY <1>7, Zenon DEF TerminalWhileCancelling
  <2> QED
    BY <1>3, <1>7, <2>1
<1>8. CASE gen[g].worker = w /\ ~ SoftSelected(g)
  <2>1. /\ IF watch[w][g].obs = "cancelled" THEN EndFrame(w, g) /\ Forget(w, g)
            ELSE Goto(w, g, "outcome") /\ UNCHANGED watch
        /\ UNCHANGED storeVars
    BY <1>8, Zenon DEF TerminalWhileCancelling
  <2> QED
    BY <1>4, <1>5, <1>8, <2>1
<1> QED
  BY <1>6, <1>7, <1>8

\* Selecting the soft cancellation: what has Takes has left history.
LEMMA SelectSoftInv ==
    ASSUME DriveInv, NEW w \in Workers, NEW g \in Gens, At(w, g, "seen"),
           watch[w][g].obs \in Queue \cup {"unknown"},
           select_owned_soft_cancel(w, g), Goto(w, g, "poll"),
           UNCHANGED <<prompt, life, wire, posts, watch>>
    PROVE  StepOK
<1>1. frame[w][g].pc \in Bound /\ frame[w][g].pc # "idle"
  <2>1. frame[w][g].pc = "seen"
    BY DEF At
  <2>2. "seen" \in Bound
    BY DEF Bound
  <2> QED
    BY <2>1, <2>2
<1>2. /\ RowCall(w, g) /\ takes' = takes
      /\ gen'[g].status = gen[g].status /\ gen'[g].sub = gen[g].sub
      /\ gen'[g].soft = "set"
  BY <1>1, SoftCancelCall
<1>3. [Next]_storeVars /\ Current(w, g)
  BY <1>2 DEF RowCall, Current
<1>4. TakesOK(g)'
  <2>1. TakesOK(g) /\ gen[g].attempt # None /\ gen[g].sub = "confirmed"
    BY <1>1, RowState, BoundState
  <2>2. gen'[g].executor = gen[g].executor /\ gen'[g].job = gen[g].job
    BY <1>3, <2>1, AttemptStep, ResolvedStep DEF DriveInv
  <2>3. takes[g] = {} \/ prompt[gen[g].job].visible = "no"
    BY <1>3, SeenState
  <2> QED
    BY <1>2, <2>1, <2>2, <2>3 DEF TakesOK
<1>5. "poll" \in Bound /\ "poll" \notin {"seen", "outcome", "cancelled"} \cup Importing
  BY DEF Bound, Importing
<1>6. DriveInv'
  BY <1>1, <1>2, <1>4, <1>5, IndifferentOwner, BoundRowInv
<1> QED
  BY <1>2, <1>3, <1>6 DEF StepOK

\* Steps between which the frame only knows that its row has no Takes.
Cancelling == {"before_delete", "delete", "before_hard", "hard"}

\* Going on with a remote cancellation.
LEMMA ToCancellingInv ==
    ASSUME DriveInv, NEW w \in Workers, NEW g \in Gens, frame[w][g].pc \in Bound,
           NEW s \in Cancelling, Goto(w, g, s), Current(w, g) => takes[g] = {},
           UNCHANGED <<storeVars, life, prompt, wire, posts, watch>>
    PROVE  StepOK
<1>1. s \in Bound /\ s \notin {"seen", "outcome", "cancelled"} \cup Importing
  BY DEF Bound, Importing, Cancelling
<1>2. ASSUME frame'[w][g].pc = s PROVE OwnerOK(w, g)'
  BY <1>2 DEF OwnerOK, Looking, Importing, Current, storeVars, Cancelling
<1> QED
  BY <1>1, <1>2, StillWatch, BoundGotoInv

\* What a frame that cancels at the executor knows.
LEMMA CancellingState ==
    ASSUME DriveInv, NEW w \in Workers, NEW g \in Gens, frame[w][g].pc \in Cancelling
    PROVE  frame[w][g].pc \in Bound /\ (Current(w, g) => takes[g] = {})
BY FrameState DEF OwnerOK, Cancelling, Bound

\* An observation while cancelling.
LEMMA CancelSeenInv ==
    ASSUME DriveInv, NEW w \in Workers, NEW g \in Gens, CancelSeen(w, g)
    PROVE  StepOK
<1>1. At(w, g, "seen") /\ frame[w][g].pc \in Bound
        /\ UNCHANGED <<prompt, life, wire, posts>>
  BY SeenState DEF CancelSeen, Calm
<1>2. CASE watch[w][g].obs \in Done /\ TerminalWhileCancelling(w, g)
  BY <1>1, <1>2, TerminalInv
<1>3. CASE End(w, g, "interrupted")
  <2>1. "interrupted" \in Terminal
    BY DEF Terminal
  <2> QED
    BY <1>1, <1>3, <2>1, EndInv
<1>4. CASE /\ watch[w][g].obs \in Queue \cup {"unknown"}
           /\ select_owned_soft_cancel(w, g) /\ Goto(w, g, "poll") /\ UNCHANGED watch
  BY <1>1, <1>4, SelectSoftInv
<1>5. CASE Goto(w, g, "raise_failed") /\ UNCHANGED <<storeVars, watch>>
  BY <1>1, <1>5, StillWatch, BoundPlainInv DEF Raising
<1>6. CASE /\ watch[w][g].obs \in Queue /\ Decide(w, watch[w][g].obs) # "soft"
           /\ Goto(w, g, Decide(w, watch[w][g].obs)) /\ UNCHANGED <<storeVars, watch>>
  <2>1. PICK s \in Cancelling : Goto(w, g, s)
    BY <1>6 DEF Decide, Cancelling
  <2>2. Current(w, g) => takes[g] = {}
    BY <1>1, <1>6, SeenState
  <2> QED
    BY <1>1, <1>6, <2>1, <2>2, ToCancellingInv
<1> QED
  BY <1>2, <1>3, <1>4, <1>5, <1>6 DEF CancelSeen

\* The authority check before a remote cancellation.
LEMMA CancelAuthorityInv ==
    ASSUME DriveInv, NEW w \in Workers, NEW g \in Gens, CancelAuthority(w, g)
    PROVE  StepOK
<1>1. frame[w][g].pc \in Cancelling /\ UNCHANGED <<storeVars, life, prompt, wire, posts, watch>>
  BY DEF CancelAuthority, At, Cancelling, Calm, Still
<1>2. frame[w][g].pc \in Bound /\ (Current(w, g) => takes[g] = {})
  BY <1>1, CancellingState
<1>3. ASSUME NEW s \in {"delete", "hard"}, Goto(w, g, s) PROVE StepOK
  BY <1>1, <1>2, <1>3, ToCancellingInv DEF Cancelling
<1>4. CASE Goto(w, g, "raise_failed")
  BY <1>1, <1>2, <1>4, StillWatch, BoundPlainInv DEF Raising
<1> QED
  BY <1>3, <1>4 DEF CancelAuthority

\* A remote cancellation that takes effect on a prompt still in the queue.
LEMMA PromptCancelInv ==
    ASSUME DriveInv, NEW w \in Workers, NEW g \in Gens, frame[w][g].pc \in Bound,
           NEW t \in {"deleted", "cancelled"}, NEW v \in {"yes", "no"},
           prompt[frame[w][g].job].state \in Queue, Remote(frame[w][g].job, t, v),
           NEW s \in {"cancelled", "poll"}, Goto(w, g, s),
           UNCHANGED <<storeVars, life, wire, posts, watch>>
    PROVE  StepOK
<1>1. gen' = gen /\ takes' = takes /\ lease' = lease /\ [Next]_storeVars
  BY DEF storeVars
<1>2. /\ frame[w][g].pc # "idle" /\ gen[g].sub = "confirmed"
      /\ frame[w][g].job = gen[g].job /\ gen[g].job \in Jobs
  BY BoundState
<1>3. /\ PromptsKept /\ RemoteTypeOK'
      /\ \A i \in Jobs : MarkerOK(i)'
      /\ \A m \in wire' : WireOK(m)'
      /\ prompt'[gen[g].job].state = t
  <2>1. t \in {"lost", "deleted"} \cup Queue \cup Done
    BY DEF Done
  <2>2. prompt' = [prompt EXCEPT ![gen[g].job] = [@ EXCEPT !.state = t, !.visible = v]]
    BY <1>2 DEF Remote
  <2> QED
    BY <1>1, <1>2, <2>1, <2>2, PromptMoves
<1>4. s \in Bound /\ s \in Pcs /\ s \notin {"seen", "outcome"} \cup Importing
  BY PlainStepsAre DEF Bound, Importing
<1>5. /\ Moved(w, g) /\ frame'[w][g].pc = s
      /\ frame'[w][g].attempt = frame[w][g].attempt
      /\ frame'[w][g].job = frame[w][g].job
      /\ frame'[w][g].seen = frame[w][g].seen
  BY <1>4, StillWatch, GotoMoved
<1>6. FrameOK(w, g)'
  BY <1>1, <1>2, <1>3, <1>4, <1>5, BoundFrame
<1>7. OwnerOK(w, g)'
  BY <1>5, IndifferentOwner
<1>8. PostsOK(g)'
  <2>1. \A u \in Workers : Armed(u, g)' => Armed(u, g)
    BY <1>5 DEF Armed, Moved
  <2> QED
    BY <1>1, <2>1, PostsKept
<1>9. TakesOK(g)'
  BY <1>1, <1>3, TakesKept
<1>10. OwnStep(w, g)
  BY <1>1, <1>5 DEF OwnStep, Moved
<1>11. life[w] = "up" /\ frame'[w][g].attempt # None /\ posts' \in [Gens -> Nat]
  BY <1>2, <1>5, LiveFrame, DriveTypes
<1>12. OwnPart(w, g)
  BY <1>1, <1>3, <1>5, <1>6, <1>7, <1>8, <1>9, <1>11 DEF OwnPart, Moved
<1> QED
  BY <1>1, <1>3, <1>10, <1>12, FrameStepInv DEF StepOK

\* A remote cancellation that came too late: look once more.
LEMMA TooLateInv ==
    ASSUME DriveInv, NEW w \in Workers, NEW g \in Gens, frame[w][g].pc \in Cancelling,
           TooLate(w, g), UNCHANGED <<storeVars, life, prompt, wire, posts>>
    PROVE  StepOK
<1> DEFINE o == [watch[w][g] EXCEPT !.mode = "after"]
<1>1. frame[w][g].pc \in Bound /\ (Current(w, g) => takes[g] = {})
  BY CancellingState
<1>2. o \in Watches /\ o.mode = "after"
  BY FrameState DEF Watches, Modes
<1>3. Watching(w, g, o) /\ Goto(w, g, "look_history")
  BY DEF TooLate
<1> HIDE DEF o
<1>4. WatchMoved(w, g) /\ watch'[w][g].mode = "after"
  BY <1>2, <1>3, WatchingWatch
<1>5. "look_history" \in Bound
        /\ "look_history" \notin {"seen", "outcome", "cancelled"} \cup Importing
  BY DEF Bound, Importing
<1>6. ASSUME frame'[w][g].pc = "look_history" PROVE OwnerOK(w, g)'
  BY <1>1, <1>4, <1>6 DEF OwnerOK, Looking, Importing, Current, storeVars
<1> QED
  BY <1>1, <1>3, <1>4, <1>5, <1>6, BoundGotoInv

\* Deletion of a pending prompt.
LEMMA DeletePendingInv ==
    ASSUME DriveInv, NEW w \in Workers, NEW g \in Gens, DeletePending(w, g)
    PROVE  StepOK
<1>1. frame[w][g].pc \in Cancelling /\ UNCHANGED <<storeVars, life, wire, posts>>
  BY DEF DeletePending, At, Cancelling, Calm
<1>2. frame[w][g].pc \in Bound
  BY <1>1, CancellingState
<1>3. ASSUME prompt[frame[w][g].job].state = "pending",
             Remote(frame[w][g].job, "deleted", "no"),
             NEW s \in {"cancelled", "poll"}, Goto(w, g, s), UNCHANGED watch
      PROVE  StepOK
  BY <1>1, <1>2, <1>3, PromptCancelInv DEF Queue
<1>4. CASE TooLate(w, g) /\ UNCHANGED prompt
  BY <1>1, <1>4, TooLateInv
<1>5. CASE Goto(w, g, "poll") /\ Still
  BY <1>1, <1>2, <1>5, ToPollInv DEF Still
<1> QED
  BY <1>3, <1>4, <1>5 DEF DeletePending

\* Cancellation of a running prompt.
LEMMA CancelJobInv ==
    ASSUME DriveInv, NEW w \in Workers, NEW g \in Gens, CancelJob(w, g)
    PROVE  StepOK
<1>1. frame[w][g].pc \in Cancelling /\ UNCHANGED <<storeVars, life, wire, posts>>
  BY DEF CancelJob, At, Cancelling, Calm
<1>2. frame[w][g].pc \in Bound
  BY <1>1, CancellingState
<1>3. ASSUME prompt[frame[w][g].job].state = "running",
             Remote(frame[w][g].job, "cancelled", "yes"),
             NEW s \in {"cancelled", "poll"}, Goto(w, g, s), UNCHANGED watch
      PROVE  StepOK
  BY <1>1, <1>2, <1>3, PromptCancelInv DEF Queue
<1>4. CASE TooLate(w, g) /\ UNCHANGED prompt
  BY <1>1, <1>4, TooLateInv
<1>5. CASE Goto(w, g, "poll") /\ Still
  BY <1>1, <1>2, <1>5, ToPollInv DEF Still
<1> QED
  BY <1>3, <1>4, <1>5 DEF CancelJob

\* A prompt that did not succeed leaves its row without Takes.
LEMMA NoSuccessNoTakes ==
    ASSUME DriveInv, NEW g \in Gens, prompt[gen[g].job].state # "succeeded"
    PROVE  takes[g] = {}
BY RowState DEF TakesOK

\* The remote cancellation was accepted.
LEMMA RemoteCancelledInv ==
    ASSUME DriveInv, NEW w \in Workers, NEW g \in Gens, RemoteCancelled(w, g)
    PROVE  StepOK
<1>1. /\ frame[w][g].pc = "cancelled" /\ frame[w][g].pc \in Bound
      /\ End(w, g, "cancelled") /\ UNCHANGED <<prompt, life, wire, posts>>
  BY DEF RemoteCancelled, At, Bound, Calm
<1>2. prompt[gen[g].job].state \in {"deleted", "cancelled"}
  <2>1. frame[w][g].job = gen[g].job
    BY <1>1, BoundState
  <2> QED
    BY <1>1, <2>1, FrameState DEF FrameOK
<1>3. "cancelled" \in Terminal /\ "cancelled" # "succeeded"
  BY DEF Terminal
<1> QED
  BY <1>1, <1>2, <1>3, NoSuccessNoTakes, EndInv

\* The observation after a cancellation that came too late.
LEMMA AfterSeenInv ==
    ASSUME DriveInv, NEW w \in Workers, NEW g \in Gens, AfterSeen(w, g)
    PROVE  StepOK
<1>1. /\ At(w, g, "seen") /\ frame[w][g].pc \in Bound
      /\ UNCHANGED <<prompt, life, wire, posts>>
      /\ Current(w, g) => takes[g] = {}
  BY SeenState DEF AfterSeen, Calm
<1>2. CASE watch[w][g].obs \in Done /\ TerminalWhileCancelling(w, g)
  BY <1>1, <1>2, TerminalInv
<1>3. CASE End(w, g, "cancelled")
  <2>1. "cancelled" \in Terminal
    BY DEF Terminal
  <2> QED
    BY <1>1, <1>3, <2>1, EndInv
<1> QED
  BY <1>2, <1>3 DEF AfterSeen

-----------------------------------------------------------------------------
(* The import.                                                             *)

\* What an importing frame knows.
LEMMA ImportState ==
    ASSUME DriveInv, NEW w \in Workers, NEW g \in Gens, frame[w][g].pc \in Importing
    PROVE  /\ frame[w][g].pc \in Bound
           /\ prompt[gen[g].job].state = "succeeded"
           /\ Current(w, g) => gen[g].soft # "set"
<1>1. frame[w][g].pc \in Bound
  BY DEF Importing, Bound
<1>2. frame[w][g].job = gen[g].job
  BY <1>1, BoundState
<1> QED
  BY <1>1, <1>2, FrameState DEF FrameOK, OwnerOK

\* Going to a step of the import.
LEMMA ToImportInv ==
    ASSUME DriveInv, NEW w \in Workers, NEW g \in Gens, frame[w][g].pc \in Bound,
           prompt[gen[g].job].state = "succeeded", Current(w, g) => gen[g].soft # "set",
           NEW s \in Importing, Goto(w, g, s),
           UNCHANGED <<storeVars, life, prompt, wire, posts, watch>>
    PROVE  StepOK
<1>1. s \in Bound /\ s \notin {"seen", "outcome", "cancelled"}
  BY DEF Bound, Importing
<1>2. ASSUME frame'[w][g].pc = s PROVE OwnerOK(w, g)'
  BY <1>2 DEF OwnerOK, Looking, Importing, Current, storeVars
<1> QED
  BY <1>1, <1>2, StillWatch, BoundGotoInv

\* The end of the prompt decides the end of the row, or starts the import.
LEMMA OutcomeInv ==
    ASSUME DriveInv, NEW w \in Workers, NEW g \in Gens, Outcome(w, g)
    PROVE  StepOK
<1>1. /\ frame[w][g].pc = "outcome" /\ frame[w][g].pc \in Bound
      /\ UNCHANGED <<prompt, life, wire, posts>>
  BY DEF Outcome, At, Bound, Calm
<1>2. /\ watch[w][g].obs \in Done
      /\ prompt[gen[g].job].state = watch[w][g].obs
      /\ Current(w, g) => gen[g].soft # "set"
  <2>1. frame[w][g].job = gen[g].job
    BY <1>1, BoundState
  <2> QED
    BY <1>1, <2>1, FrameState DEF FrameOK, OwnerOK
<1>3. CASE /\ watch[w][g].obs \in Importable /\ Goto(w, g, "outputs")
           /\ UNCHANGED <<storeVars, watch>>
  BY <1>1, <1>2, <1>3, ToImportInv DEF Importable, Importing
<1>4. CASE watch[w][g].obs \notin Importable /\ End(w, g, watch[w][g].obs)
  <2>1. watch[w][g].obs \in Terminal /\ watch[w][g].obs # "succeeded"
    BY <1>2, <1>4 DEF Terminal, Done, Importable
  <2>2. takes[g] = {}
    BY <1>2, <2>1, NoSuccessNoTakes
  <2> QED
    BY <1>1, <1>4, <2>1, <2>2, EndInv
<1> QED
  BY <1>3, <1>4 DEF Outcome

\* Reading the outputs.
LEMMA ReadOutputsInv ==
    ASSUME DriveInv, NEW w \in Workers, NEW g \in Gens, ReadOutputs(w, g)
    PROVE  StepOK
<1>1. frame[w][g].pc \in Importing /\ UNCHANGED <<prompt, life, wire, posts>>
  BY DEF ReadOutputs, At, Importing, Calm
<1>2. /\ frame[w][g].pc \in Bound /\ prompt[gen[g].job].state = "succeeded"
      /\ Current(w, g) => gen[g].soft # "set"
  BY <1>1, ImportState
<1>3. CASE End(w, g, "interrupted")
  <2>1. "interrupted" \in Terminal
    BY DEF Terminal
  <2> QED
    BY <1>1, <1>2, <1>3, <2>1, EndInv
<1>4. CASE Goto(w, g, "import") /\ UNCHANGED <<storeVars, watch>>
  BY <1>1, <1>2, <1>4, ToImportInv DEF Importing
<1>5. ASSUME NEW s \in Raising, Goto(w, g, s), UNCHANGED <<storeVars, watch>>
      PROVE  StepOK
  BY <1>1, <1>2, <1>5, StillWatch, BoundPlainInv
<1> QED
  BY <1>3, <1>4, <1>5 DEF ReadOutputs, Raising

\* The importing transition.
LEMMA BeginImportInv ==
    ASSUME DriveInv, NEW w \in Workers, NEW g \in Gens, BeginImport(w, g)
    PROVE  StepOK
<1>1. /\ frame[w][g].pc \in Importing
      /\ UNCHANGED <<prompt, life, wire, posts, watch>>
  BY DEF BeginImport, At, Importing, Calm, Still
<1>2. /\ frame[w][g].pc \in Bound /\ prompt[gen[g].job].state = "succeeded"
      /\ Current(w, g) => gen[g].soft # "set"
  BY <1>1, ImportState
<1>3. CASE transition_owned_generation(w, g, "importing") /\ Goto(w, g, "fetch")
  <2>1. "importing" \in (InFlight \ {"preparing"}) \cup Terminal
    BY DEF InFlight
  <2>2. frame[w][g].pc # "idle"
    BY <1>2, BoundState
  <2>3. /\ RowCall(w, g) /\ takes' = takes
        /\ gen'[g].status = "importing" /\ gen'[g].soft = gen[g].soft
    BY <1>3, <2>1, TransitionCall
  <2>4. TakesOK(g)'
    BY <1>1, <2>3, TakesKept DEF PromptsKept, RowCall, InFlight
  <2>5. gen'[g].soft # "set"
    BY <1>2, <2>3 DEF RowCall, Current
  <2>6. ASSUME frame'[w][g].pc = "fetch" PROVE OwnerOK(w, g)'
    BY <2>5, <2>6 DEF OwnerOK, Looking
  <2>7. "fetch" \in Bound /\ "fetch" \notin {"seen", "outcome", "cancelled"}
    BY DEF Bound
  <2>8. DriveInv'
    BY <1>1, <1>2, <1>3, <2>3, <2>4, <2>6, <2>7, BoundRowInv
  <2> QED
    BY <2>3, <2>8 DEF StepOK, RowCall
<1>4. CASE Goto(w, g, "raise_failed") /\ UNCHANGED storeVars
  BY <1>1, <1>2, <1>4, StillWatch, BoundPlainInv DEF Raising
<1> QED
  BY <1>3, <1>4 DEF BeginImport

\* Fetching and the preflight.
LEMMA FetchInv ==
    ASSUME DriveInv, NEW w \in Workers, NEW g \in Gens, Fetch(w, g)
    PROVE  StepOK
<1>1. /\ frame[w][g].pc \in Importing
      /\ UNCHANGED <<storeVars, prompt, life, wire, posts, watch>>
  BY DEF Fetch, At, Importing, Calm, Still
<1>2. /\ frame[w][g].pc \in Bound /\ prompt[gen[g].job].state = "succeeded"
      /\ Current(w, g) => gen[g].soft # "set"
  BY <1>1, ImportState
<1>3. CASE Goto(w, g, "publish")
  BY <1>1, <1>2, <1>3, ToImportInv DEF Importing
<1>4. ASSUME NEW s \in Raising, Goto(w, g, s) PROVE StepOK
  BY <1>1, <1>2, <1>4, StillWatch, BoundPlainInv
<1> QED
  BY <1>3, <1>4 DEF Fetch

\* One publication: the row is the frame's, its prompt succeeded, and no soft
\* cancellation is selected.
LEMMA PublishInv ==
    ASSUME DriveInv, NEW w \in Workers, NEW g \in Gens, Publish(w, g)
    PROVE  StepOK
<1>1. /\ frame[w][g].pc \in Importing /\ frame[w][g].pc = "publish"
      /\ UNCHANGED <<prompt, life, wire, posts, watch>>
  BY DEF Publish, At, Importing, Calm, Still
<1>2. /\ frame[w][g].pc \in Bound /\ prompt[gen[g].job].state = "succeeded"
      /\ Current(w, g) => gen[g].soft # "set"
  BY <1>1, ImportState
<1>3. CASE Goto(w, g, "raise_failed") /\ UNCHANGED storeVars
  BY <1>1, <1>2, <1>3, StillWatch, BoundPlainInv DEF Raising
<1>4. ASSUME NEW k \in Keys, publish_output(w, g, frame[w][g].attempt, k), frame' = frame
      PROVE  StepOK
  <2>1. frame[w][g].pc # "idle" /\ gen[g].sub = "confirmed" /\ gen[g].executor = "comfy"
        /\ frame[w][g].job = gen[g].job
    BY <1>2, BoundState
  <2>2. /\ RowCall(w, g) /\ gen' = gen
        /\ gen[g].status = "importing" /\ takes'[g] = takes[g] \cup {k}
    BY <1>4, <2>1, PublishCall
  <2>3. [Next]_storeVars /\ PromptsKept /\ Current(w, g) /\ gen[g].soft # "set"
    BY <1>1, <1>2, <2>2 DEF RowCall, Current, PromptsKept
  <2>4. TakesOK(g)'
    BY <1>1, <1>2, <2>1, <2>2, <2>3 DEF TakesOK
  <2>5. Moved(w, g)
    BY <1>1, <1>4, DriveTypes DEF Moved
  <2>6. FrameOK(w, g)'
    <3>1. FrameOK(w, g)
      BY FrameState
    <3> QED
      BY <1>1, <1>4, <2>2, <3>1 DEF FrameOK
  <2>7. OwnerOK(w, g)'
    BY <1>1, <1>4, <2>2, <2>3 DEF OwnerOK, Looking
  <2>8. Armed(w, g)' => Armed(w, g)
    BY <1>4 DEF Armed
  <2>9. DriveInv'
    BY <1>1, <2>1, <2>2, <2>3, <2>4, <2>5, <2>6, <2>7, <2>8, RowStepInv DEF RowCall
  <2> QED
    BY <2>2, <2>3, <2>9 DEF StepOK, RowCall
<1> QED
  BY <1>3, <1>4 DEF Publish

\* Success, when every output is published.
LEMMA FinishInv ==
    ASSUME DriveInv, NEW w \in Workers, NEW g \in Gens, Finish(w, g)
    PROVE  StepOK
<1>1. /\ frame[w][g].pc \in Bound /\ takes[g] = Keys /\ End(w, g, "succeeded")
      /\ UNCHANGED <<prompt, life, wire, posts>>
  BY DEF Finish, At, Bound, Calm, AllPublished
<1>2. "succeeded" \in Terminal
  BY DEF Terminal
<1> QED
  BY <1>1, <1>2, EndInv

-----------------------------------------------------------------------------
(* The theorems.                                                           *)

\* The initial state satisfies the invariant: no frames, no markers, no Takes.
LEMMA InitDriveInv == DriveInit => DriveInv
<1> SUFFICES ASSUME DriveInit PROVE DriveInv
  OBVIOUS
<1>1. Init /\ StoreInv
  BY InitStoreInv DEF DriveInit, SubmissionInit
<1>2. /\ life = [w \in Workers |-> "standby"]
      /\ frame = [w \in Workers |-> [g \in Gens |-> NoFrame]]
      /\ wire = {} /\ posts = [g \in Gens |-> 0]
      /\ prompt = [j \in Jobs |-> [NoPrompt EXCEPT
                     !.state = IF j \in Foreign THEN "pending" ELSE "none"]]
      /\ watch = [w \in Workers |-> [g \in Gens |-> NoWatch]]
  BY DEF DriveInit, SubmissionInit
<1>3. \A w \in Workers, g \in Gens : frame[w][g] = NoFrame /\ watch[w][g] = NoWatch
  BY <1>2
<1>4. \A j \in Jobs : prompt[j].g = None
  BY <1>2 DEF NoPrompt
<1>5. RemoteTypeOK
  <2>1. \A j \in Jobs :
          [NoPrompt EXCEPT !.state = IF j \in Foreign THEN "pending" ELSE "none"]
            \in [state : {"none", "lost", "deleted"} \cup Queue \cup Done,
                 visible : {"yes", "no"}, g : Gens \cup {None},
                 attempt : Nat \cup {None}, by : Workers \cup {None}]
    BY DEF NoPrompt, Queue
  <2> QED
    BY <1>2, <2>1 DEF RemoteTypeOK
<1>6. DriveTypeOK
  <2>1. /\ life \in [Workers -> {"standby", "up", "dead"}]
        /\ frame \in [Workers -> [Gens -> Frames]]
        /\ watch \in [Workers -> [Gens -> Watches]]
    BY <1>2, NoFrameIsFrame, NoWatchIsWatch
  <2> QED
    BY <1>1, <1>3, <1>5, <2>1, NoFrameIsFrame
    DEF DriveTypeOK, StoreInv, Frames, Watches
<1>7. \A w \in Workers, g \in Gens : FrameOK(w, g) /\ OwnerOK(w, g) /\ ~ Armed(w, g)
  BY <1>3, NoFrameIsFrame DEF FrameOK, OwnerOK, Armed, Bound, Looking, Importing
<1>8. \A j \in Jobs : MarkerOK(j)
  BY <1>4 DEF MarkerOK
<1>9. ASSUME NEW g \in Gens
      PROVE  takes[g] = {} /\ gen[g].sub = "not_started"
               /\ gen[g].status \in {"absent"} \cup InFlight /\ posts[g] = 0
  BY <1>1, <1>2 DEF Init, LegacyRow, FreshRow
<1>10. \A g \in Gens : PostsOK(g) /\ TakesOK(g)
  BY <1>7, <1>9 DEF PostsOK, TakesOK, InFlight
<1>11. ConfirmedIsOurs /\ posts \in [Gens -> Nat]
  BY <1>2, <1>9 DEF ConfirmedIsOurs
<1> QED
  BY <1>1, <1>2, <1>6, <1>7, <1>8, <1>10, <1>11 DEF DriveInv

\* A step that changes nothing.
LEMMA StutterInv ==
    ASSUME DriveInv, UNCHANGED allVars
    PROVE  StepOK
<1>1. UNCHANGED <<storeVars, life, frame, wire, prompt, posts, watch>>
  BY DEF allVars, driveVars
<1>2. [Next]_storeVars /\ PromptsKept /\ gen' = gen /\ takes' = takes /\ lease' = lease
  BY <1>1 DEF PromptsKept, storeVars
<1>3. \A v \in Workers, h \in Gens :
        Undisturbed(v, h) /\ (frame'[v][h].pc # "idle" => life'[v] = "up")
  BY <1>1, <1>2, LiveFrame DEF Undisturbed, Current
<1>4. \A h \in Gens : TakesOK(h)'
  BY <1>2, TakesKept
<1>5. (\A j \in Jobs : MarkerOK(j)') /\ (\A m \in wire' : WireOK(m)')
  BY <1>1, <1>2, MarkersKept, WireKept
<1>6. /\ life' \in [Workers -> {"standby", "up", "dead"}]
      /\ frame' \in [Workers -> [Gens -> Frames]]
      /\ watch' \in [Workers -> [Gens -> Watches]]
      /\ RemoteTypeOK'
  BY <1>1, DriveTypes DEF RemoteTypeOK
<1> QED
  BY <1>1, <1>2, <1>3, <1>4, <1>5, <1>6, EnvStepInv DEF EnvPart

\* Every step keeps the invariant, is a step of the store and respects a
\* selected soft cancellation.
LEMMA DriveNextOK ==
    ASSUME DriveInv, [DriveNext]_allVars
    PROVE  StepOK
<1>1. CASE UNCHANGED allVars
  BY <1>1, StutterInv
<1>2. ASSUME ForgetEnded, NEW w \in Workers, ProcessStep(w) PROVE StepOK
  BY <1>2, TakeoverInv, CrashInv, ClaimInv, AdoptInv DEF ProcessStep
<1>3. ASSUME ForgetEnded, NEW w \in Workers, NEW g \in Gens, SubmissionStep(w, g)
      PROVE  StepOK
  BY <1>3, EntryInv, PreworkInv, ResolveInv, ArtifactInv, PermitInv, AuthorityInv,
     PostInv, PostReturnsInv, ReadQueueInv, ReadHistoryInv, PollAgainInv, GiveUpInv,
     ConfirmInv, InterruptInv, EnvelopeInv
  DEF SubmissionStep
<1>4. ASSUME ForgetEnded, RemoteStep PROVE StepOK
  BY <1>4, RemoteEnqueuesInv, RequestLostInv, PromptStepInv DEF RemoteStep
<1>5. ASSUME ForgetEnded, NEW g \in Gens, Api(g) PROVE StepOK
  BY <1>5, ApiInv
<1>6. ASSUME NEW w \in Workers, NEW g \in Gens, DriveStep(w, g) PROVE StepOK
  BY <1>6, SubmittedInv, PollInv, LookHistoryInv, LookQueueInv, ReadFailsInv,
     WatchSeenInv, CancelSeenInv, CancelAuthorityInv, DeletePendingInv, CancelJobInv,
     RemoteCancelledInv, AfterSeenInv, OutcomeInv, ReadOutputsInv, BeginImportInv,
     FetchInv, PublishInv, FinishInv
  DEF DriveStep
<1> QED
  BY <1>1, <1>2, <1>3, <1>4, <1>5, <1>6 DEF DriveNext, SubmissionNext

\* The inductive invariant holds of every reachable state of the drive.
THEOREM DriveInvariant == DriveSpec => []DriveInv
<1>1. DriveInv /\ [DriveNext]_allVars => DriveInv'
  BY DriveNextOK DEF StepOK
<1> QED
  BY InitDriveInv, <1>1, PTL DEF DriveSpec

\* "EXACTLY ONCE": no generation is ever posted twice, whatever crashes,
\* adoptions and timeouts its drive goes through.
THEOREM PostedAtMostOnce == DriveSpec => []AtMostOnePost
<1>1. DriveInv => AtMostOnePost
  BY DEF DriveInv, PostsOK, AtMostOnePost
<1> QED
  BY DriveInvariant, <1>1, PTL

\* What the API cancelled on the spot is never posted: it has no permit, so
\* its submission state is not_started, so nothing was posted.
THEOREM CancelledIsNeverPosted == DriveSpec => []CancelledNeverPosted
<1>1. DriveInv => CancelledNeverPosted
  <2> SUFFICES ASSUME DriveInv, NEW g \in unsent PROVE posts[g] = 0
    BY DEF CancelledNeverPosted
  <2>1. g \in Gens
    BY DEF DriveInv, StoreInv, TypeOK
  <2>2. posts[g] \in Nat /\ RowOK(g) /\ PostsOK(g)
    BY <2>1, RowState
  <2> QED
    BY <2>2 DEF RowOK, PostsOK
<1> QED
  BY DriveInvariant, <1>1, PTL

\* A confirmed handle is a prompt of this generation and attempt, found among
\* whatever prompts of other clients.
THEOREM OnlyOursIsConfirmed == DriveSpec => []ConfirmedIsOurs
<1>1. DriveInv => ConfirmedIsOurs
  BY DEF DriveInv
<1> QED
  BY DriveInvariant, <1>1, PTL

\* Takes are complete on success, absent on cancellation, and only ever of a
\* prompt of this generation that ran to success.
THEOREM TakesAreAlwaysEarned == DriveSpec => []TakesAreEarned
<1>1. DriveInv => TakesAreEarned
  <2> SUFFICES ASSUME DriveInv PROVE TakesAreEarned
    OBVIOUS
  <2>1. SucceededIsComplete /\ CancelledHasNoTakes /\ DriveTypeOK
    BY DEF DriveInv, TakesOK, SucceededIsComplete, CancelledHasNoTakes
  <2>2. ASSUME NEW g \in Gens, takes[g] # {}
        PROVE  gen[g].job # None /\ prompt[gen[g].job].state = "succeeded"
                 /\ prompt[gen[g].job].g = g
    <3>1. gen[g].sub = "confirmed" /\ prompt[gen[g].job].state = "succeeded"
      BY <2>2, RowState DEF TakesOK
    <3>2. gen[g].job # None
      BY <3>1, RowState DEF RowOK
    <3> QED
      BY <3>1, <3>2 DEF DriveInv, ConfirmedIsOurs
  <2> QED
    BY <2>1, <2>2 DEF TakesAreEarned, PublishedWasRun
<1> QED
  BY DriveInvariant, <1>1, PTL

\* The drive implements the store: whatever it does to the database is one of
\* the store's transactions, so everything proved of them holds of it.
THEOREM DriveImplementsStore == DriveSpec => StoreRefined
<1>1. DriveInit => Init
  BY DEF DriveInit, SubmissionInit
<1>2. DriveInv /\ [DriveNext]_allVars => [Next]_storeVars
  BY DriveNextOK DEF StepOK
<1> QED
  BY DriveInvariant, <1>1, <1>2, PTL DEF DriveSpec, Spec, StoreRefined

\* Hence the drive never gets a second permit, never leaves an unclaimable row
\* in the queue, never runs into a CHECK constraint and never touches a
\* terminal row or a resolved submission.
THEOREM DriveKeepsStorePromises ==
    DriveSpec => /\ [](OneShotPermit /\ QueuedIsFresh /\ CancelledUnsubmitted /\ ChecksHold)
                 /\ TerminalIsFinal /\ SubmissionResolvedOnce
BY DriveImplementsStore, PermitIsOneShot, QueueHoldsFreshRows, ApiCancelIsSafe,
   ConstraintsHold, TerminalRowsAreFinal, ResolutionIsFinal, PTL DEF StoreRefined

\* A selected soft cancellation publishes nothing any more.
THEOREM SoftCancelIsFinal == DriveSpec => SoftNeverPublishes
<1>1. DriveInv /\ [DriveNext]_allVars =>
        [\A g \in Gens : gen[g].soft = "set" => takes'[g] = takes[g]]_allVars
  BY DriveNextOK DEF StepOK
<1> QED
  BY DriveInvariant, <1>1, PTL DEF DriveSpec, SoftNeverPublishes
=============================================================================
