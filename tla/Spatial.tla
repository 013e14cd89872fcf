------------------------------ MODULE Spatial ------------------------------
(* Spatial worlds: the frames and axes of a world in each state of its        *)
(* location, their captured and approved revisions, the tracks staged along   *)
(* the narrative, the plans of shots, and what resolves for a shot.           *)
(*   src/server/soloring/spatial/{worlds,revisions,schemas,tracks,            *)
(*   transitions,staging,plans,plan_reference,resolver}.py                    *)
(* A state of a world is a pair <<world, revision number of its location>>.   *)
(* Of a transform only its ground position is kept, a member of Points; the   *)
(* camera of a plan, key times and extents are left out.                      *)
EXTENDS Continuity

CONSTANTS World, Frame, Axis, Track, Points, Clients, MaxWorldRevs

ASSUME SpatialAssumption == None \notin Frame /\ MaxWorldRevs \in Nat

VARIABLES
    worlds,         \* spatial_worlds: id -> location, required, live
    worldStates,    \* spatial_world_states: state -> members, axes, approved
    frames,         \* spatial_frames: id -> world, parent, bound, live
    axes,           \* spatial_axes: id -> world, live
    worldRevs,      \* spatial_world_revisions: state, number, value
    tracks,         \* spatial_tracks: id -> world, entity, required, live
    plans,          \* shot_spatial_plans: shot -> world, blocking, axis; or None
    freeze          \* what a capturing client has read: state, members, axes

geometry == <<worlds, worldStates, frames, axes, worldRevs, freeze>>
spatialOnly == <<geometry, tracks, plans>>
spatialVars == <<continuityVars, spatialOnly>>

Unread == [step |-> "idle"]
NoPlan == [world |-> None, blocking |-> << >>, axis |-> None]

SpatialInit ==
    /\ ContinuityInit
    /\ worlds = << >> /\ worldStates = << >> /\ frames = << >> /\ axes = << >> /\ worldRevs = {}
    /\ tracks = << >> /\ plans = [s \in Shot |-> NoPlan]
    /\ freeze = [k \in Clients |-> Unread]

SpatialTypeOK ==
    /\ ContinuityTypeOK
    /\ DOMAIN worlds \subseteq World /\ DOMAIN tracks \subseteq Track
    /\ \A st \in DOMAIN worldStates : /\ st[1] \in DOMAIN worlds
                                      /\ DOMAIN worldStates[st].members \subseteq DOMAIN frames
                                      /\ DOMAIN worldStates[st].axes \subseteq DOMAIN axes
    /\ \A r \in worldRevs : r.state \in DOMAIN worldStates /\ r.number \in 1..MaxWorldRevs
    /\ \A t \in DOMAIN tracks : tracks[t].world \in DOMAIN worlds

----------------------------------------------------------------------------
(* Worlds and states.                                                         *)

CreateWorld(w, e, required) ==
    /\ project /\ e \in Live(entities) /\ w \notin DOMAIN worlds
    /\ \A x \in Live(worlds) : worlds[x].location # e
    /\ worlds' = With(worlds, w, [location |-> e, required |-> required, live |-> TRUE])
    /\ UNCHANGED <<continuityVars, worldStates, frames, axes, worldRevs, freeze, tracks, plans>>

PatchWorld(w, required) ==
    /\ w \in Live(worlds) /\ worlds' = [worlds EXCEPT ![w].required = required]
    /\ UNCHANGED <<continuityVars, worldStates, frames, axes, worldRevs, freeze, tracks, plans>>

DeleteWorld(w) ==
    /\ w \in Live(worlds) /\ ~worlds[w].required
    /\ \A s \in Shot : plans[s].world # w
    /\ \A t \in Live(tracks) : tracks[t].world # w
    /\ \A st \in DOMAIN worldStates : st[1] # w
    /\ worlds' = Tombstone(worlds, w)
    /\ UNCHANGED <<continuityVars, worldStates, frames, axes, worldRevs, freeze, tracks, plans>>

\* A permanent identity per world and revision of its location.
CreateState(w, number) ==
    /\ w \in DOMAIN worlds /\ <<w, number>> \notin DOMAIN worldStates
    /\ number \in {r.number : r \in RevsOf(worlds[w].location)}
    /\ worldStates' = With(worldStates, <<w, number>>,
                           [members |-> << >>, axes |-> << >>, approved |-> 0])
    /\ UNCHANGED <<continuityVars, worlds, frames, axes, worldRevs, freeze, tracks, plans>>

----------------------------------------------------------------------------
(* Frames and axes.                                                           *)

\* _assert_frame_cycle_free, deleted frames included.
Cyclic(parents) ==
    \E S \in SUBSET DOMAIN parents : S # {} /\ \A f \in S : parents[f] \in S

CreateFrame(f, w, parent, e) ==
    /\ w \in DOMAIN worlds /\ f \notin DOMAIN frames
    /\ parent # None => parent \in DOMAIN frames /\ frames[parent].world = w
    /\ e # None => e \in Live(entities)
    /\ frames' = With(frames, f, [world |-> w, parent |-> parent, bound |-> e, live |-> TRUE])
    /\ UNCHANGED <<continuityVars, worlds, worldStates, axes, worldRevs, freeze, tracks, plans>>

Holding(f) == {st \in DOMAIN worldStates : f \in DOMAIN worldStates[st].members}

\* Mutation: only the parent's own existence is looked at.
PatchFrameLoose(f, parent, e) ==
    /\ f \in Live(frames)
    /\ parent # frames[f].parent /\ parent # None =>
          parent # f /\ parent \in Live(frames) /\ frames[parent].world = frames[f].world
    /\ e # frames[f].bound => Holding(f) = {} /\ e \in Live(entities) \cup {None}
    /\ frames' = [frames EXCEPT ![f].parent = parent, ![f].bound = e]
    /\ ~Cyclic([x \in DOMAIN frames |-> frames'[x].parent])
    /\ UNCHANGED <<continuityVars, worlds, worldStates, axes, worldRevs, freeze, tracks, plans>>

\* A new parent must be wherever the frame is; the binding changes while the
\* frame is nowhere.
PatchFrame(f, parent, e) ==
    /\ f \in Live(frames)
    /\ parent # frames[f].parent /\ parent # None =>
          /\ parent # f /\ parent \in Live(frames) /\ frames[parent].world = frames[f].world
          /\ Holding(f) \subseteq Holding(parent)
    /\ e # frames[f].bound => Holding(f) = {} /\ e \in Live(entities) \cup {None}
    /\ frames' = [frames EXCEPT ![f].parent = parent, ![f].bound = e]
    /\ ~Cyclic([x \in DOMAIN frames |-> frames'[x].parent])
    /\ UNCHANGED <<continuityVars, worlds, worldStates, axes, worldRevs, freeze, tracks, plans>>

EndOf(f, st) == \E a \in DOMAIN worldStates[st].axes : f \in ToSet(worldStates[st].axes[a])

DeleteFrame(f) ==
    /\ f \in Live(frames) /\ Holding(f) = {}
    /\ \A x \in Live(frames) : frames[x].parent # f
    /\ \A st \in DOMAIN worldStates : ~EndOf(f, st)
    /\ frames' = Tombstone(frames, f)
    /\ UNCHANGED <<continuityVars, worlds, worldStates, axes, worldRevs, freeze, tracks, plans>>

\* The value of a frame in a state, inserted or replaced.  rev is a revision of
\* the bound entity.
PutStateFrame(st, f, rev, at) ==
    /\ st \in DOMAIN worldStates /\ f \in Live(frames) /\ frames[f].world = st[1]
    /\ frames[f].parent # None => frames[f].parent \in DOMAIN worldStates[st].members
    /\ IF frames[f].bound = None THEN rev = None
       ELSE /\ rev \in {r.number : r \in RevsOf(frames[f].bound)}
            /\ \A g \in DOMAIN worldStates[st].members \ {f} :
                  worldStates[st].members[g].bound # frames[f].bound
    /\ worldStates' = [worldStates EXCEPT ![st].members =
                          With(@, f, [bound |-> frames[f].bound, rev |-> rev, at |-> at])]
    /\ UNCHANGED <<continuityVars, worlds, frames, axes, worldRevs, freeze, tracks, plans>>

DeleteStateFrame(st, f) ==
    /\ st \in DOMAIN worldStates /\ f \in DOMAIN worldStates[st].members /\ ~EndOf(f, st)
    /\ \A g \in DOMAIN worldStates[st].members : frames[g].parent # f
    /\ worldStates' = [worldStates EXCEPT ![st].members =
                          [g \in DOMAIN @ \ {f} |-> @[g]]]
    /\ UNCHANGED <<continuityVars, worlds, frames, axes, worldRevs, freeze, tracks, plans>>

CreateAxis(a, w) ==
    /\ w \in DOMAIN worlds /\ a \notin DOMAIN axes
    /\ axes' = With(axes, a, [world |-> w, live |-> TRUE])
    /\ UNCHANGED <<continuityVars, worlds, worldStates, frames, worldRevs, freeze, tracks, plans>>

\* Two included frames that stand apart when the axis is put.
PutStateAxis(st, a, f, g) ==
    /\ st \in DOMAIN worldStates /\ a \in Live(axes) /\ axes[a].world = st[1] /\ f # g
    /\ {f, g} \subseteq DOMAIN worldStates[st].members
    /\ worldStates[st].members[f].at # worldStates[st].members[g].at
    /\ worldStates' = [worldStates EXCEPT ![st].axes = With(@, a, <<f, g>>)]
    /\ UNCHANGED <<continuityVars, worlds, frames, axes, worldRevs, freeze, tracks, plans>>

DeleteStateAxis(st, a) ==
    /\ st \in DOMAIN worldStates /\ a \in DOMAIN worldStates[st].axes
    /\ worldStates' = [worldStates EXCEPT ![st].axes = [b \in DOMAIN @ \ {a} |-> @[b]]]
    /\ UNCHANGED <<continuityVars, worlds, frames, axes, worldRevs, freeze, tracks, plans>>

DeleteAxis(a) ==
    /\ a \in Live(axes) /\ \A st \in DOMAIN worldStates : a \notin DOMAIN worldStates[st].axes
    /\ axes' = Tombstone(axes, a)
    /\ UNCHANGED <<continuityVars, worlds, worldStates, frames, worldRevs, freeze, tracks, plans>>

----------------------------------------------------------------------------
(* Revisions of a state: read by several statements, judged, then fenced.     *)

CandidateFrames(st) ==
    [f \in DOMAIN worldStates[st].members |->
        [parent |-> frames[f].parent, bound |-> worldStates[st].members[f].bound,
         rev |-> worldStates[st].members[f].rev, at |-> worldStates[st].members[f].at]]

Candidate(st) == [members |-> CandidateFrames(st), axes |-> worldStates[st].axes]

\* parse_world_revision: parents and endpoints are in the snapshot.
ParseWorldRevision(value) ==
    /\ \A f \in DOMAIN value.members : value.members[f].parent \in DOMAIN value.members \cup {None}
    /\ ~Cyclic([f \in DOMAIN value.members |-> value.members[f].parent])
    /\ \A a \in DOMAIN value.axes : ToSet(value.axes[a]) \subseteq DOMAIN value.members

KeepGeometry == UNCHANGED <<continuityVars, worlds, frames, axes, tracks, plans>>

FreezeFrames(k, st) ==
    /\ freeze[k] = Unread /\ st \in DOMAIN worldStates
    /\ freeze' = [freeze EXCEPT ![k] = [step |-> "frames", state |-> st,
                                        members |-> CandidateFrames(st)]]
    /\ KeepGeometry /\ UNCHANGED <<worldStates, worldRevs>>

FreezeAxes(k) ==
    /\ freeze[k].step = "frames"
    /\ LET value == [members |-> freeze[k].members, axes |-> worldStates[freeze[k].state].axes]
       IN freeze' = [freeze EXCEPT ![k] =
             IF ParseWorldRevision(value)
             THEN [step |-> "frozen", state |-> freeze[k].state, value |-> value]
             ELSE Unread]
    /\ KeepGeometry /\ UNCHANGED <<worldStates, worldRevs>>

RevsOfState(st) == {r \in worldRevs : r.state = st}

\* Mutation: the frozen value is stored as it was read.
CaptureUnfenced(k) ==
    /\ freeze[k].step = "frozen" /\ Cardinality(RevsOfState(freeze[k].state)) < MaxWorldRevs
    /\ worldRevs' =
          IF freeze[k].value \notin {r.value : r \in RevsOfState(freeze[k].state)}
          THEN worldRevs \cup {[state |-> freeze[k].state, value |-> freeze[k].value,
                                number |-> 1 + Cardinality(RevsOfState(freeze[k].state))]}
          ELSE worldRevs
    /\ freeze' = [freeze EXCEPT ![k] = Unread]
    /\ KeepGeometry /\ UNCHANGED worldStates

\* The fence reads again and demands the frozen value; a known value converges.
CaptureWorld(k) ==
    /\ freeze[k].step = "frozen" /\ Cardinality(RevsOfState(freeze[k].state)) < MaxWorldRevs
    /\ worldRevs' =
          IF /\ freeze[k].value = Candidate(freeze[k].state)
             /\ freeze[k].value \notin {r.value : r \in RevsOfState(freeze[k].state)}
          THEN worldRevs \cup {[state |-> freeze[k].state, value |-> freeze[k].value,
                                number |-> 1 + Cardinality(RevsOfState(freeze[k].state))]}
          ELSE worldRevs
    /\ freeze' = [freeze EXCEPT ![k] = Unread]
    /\ KeepGeometry /\ UNCHANGED worldStates

ApproveWorld(st, number, expected) ==
    /\ st \in DOMAIN worldStates /\ number \in {r.number : r \in RevsOfState(st)}
    /\ worldStates[st].approved = expected
    /\ worldStates' = [worldStates EXCEPT ![st].approved = number]
    /\ KeepGeometry /\ UNCHANGED <<worldRevs, freeze>>

Unapprove(st, expected) ==
    /\ st \in DOMAIN worldStates /\ worldStates[st].approved = expected
    /\ worldStates' = [worldStates EXCEPT ![st].approved = 0]
    /\ KeepGeometry /\ UNCHANGED <<worldRevs, freeze>>

\* load_verified_world_revision of the approved revision.
ApprovedValue(st) ==
    (CHOOSE r \in worldRevs : r.state = st /\ r.number = worldStates[st].approved).value

----------------------------------------------------------------------------
(* Tracks, their transitions and the plans of shots.                          *)

CreateTrack(t, w, e, required) ==
    /\ w \in Live(worlds) /\ e \in Live(entities) /\ t \notin DOMAIN tracks
    /\ \A x \in Live(tracks) : <<tracks[x].world, tracks[x].entity>> # <<w, e>>
    /\ tracks' = With(tracks, t, [world |-> w, entity |-> e, required |-> required, live |-> TRUE])
    /\ UNCHANGED <<continuityVars, geometry, plans>>

ActiveTrack(t) == t \in Live(tracks) /\ tracks[t].world \in Live(worlds)

PatchTrack(t, required) ==
    /\ ActiveTrack(t) /\ tracks' = [tracks EXCEPT ![t].required = required]
    /\ UNCHANGED <<continuityVars, geometry, plans>>

DeleteTrack(t) ==
    /\ ActiveTrack(t) /\ ~tracks[t].required /\ ~Carries("staging", t)
    /\ \A s \in Shot : t \notin DOMAIN plans[s].blocking
    /\ tracks' = Tombstone(tracks, t)
    /\ UNCHANGED <<continuityVars, geometry, plans>>

CreateStaging(t, anchor, value) ==
    ActiveTrack(t) /\ Insert("staging", t, anchor, value) /\ KeepStory /\ UNCHANGED spatialOnly

\* Every change is checked anew; a patch that changes nothing is not.
PatchStaging(t, anchor, value) ==
    /\ t \in Active /\ t.family = "staging" /\ ActiveTrack(t.owner)
    /\ <<anchor, value>> # <<t.anchor, t.value>>
    /\ AnchorValid(anchor) /\ ~CoordinateTaken("staging", t.owner, anchor, {t})
    /\ transitions' = (transitions \ {t}) \cup {[t EXCEPT !.anchor = anchor, !.value = value]}
    /\ KeepStory /\ UNCHANGED spatialOnly

DeleteStaging(t) ==
    /\ t \in Active /\ t.family = "staging" /\ ActiveTrack(t.owner) /\ Drop(t)
    /\ KeepStory /\ UNCHANGED spatialOnly

\* _validate_ownership.
PlanOwned(s, plan) ==
    /\ plan.world \in Live(worlds) /\ worlds[plan.world].location \in DepEntities(s)
    /\ \A t \in DOMAIN plan.blocking : /\ t \in Live(tracks) /\ tracks[t].world = plan.world
                                       /\ tracks[t].entity \in DepEntities(s)
    /\ plan.axis # None => plan.axis \in Live(axes) /\ axes[plan.axis].world = plan.world

\* Compare and set on the plan the client has seen.
PutSpatialPlan(s, expected, plan) ==
    /\ s \in Live(shots) /\ expected = plans[s] /\ plan # plans[s] /\ PlanOwned(s, plan)
    /\ plans' = [plans EXCEPT ![s] = plan]
    /\ UNCHANGED <<continuityVars, geometry, tracks>>

DeleteSpatialPlan(s, expected) ==
    /\ s \in Live(shots) /\ expected = plans[s] /\ plans[s] # NoPlan
    /\ plans' = [plans EXCEPT ![s] = NoPlan]
    /\ UNCHANGED <<continuityVars, geometry, tracks>>

----------------------------------------------------------------------------
(* Resolution.                                                                *)

TracksFor(s, w) == {t \in Live(tracks) : tracks[t].world = w /\ tracks[t].entity \in DepEntities(s)}
StagingRows(s, w) == {t \in Active : t.family = "staging" /\ t.owner \in TracksFor(s, w)}

EffectiveStaging(s, w) ==
    IF Assigned(s) THEN {t \in Winners(StagingRows(s, w), s) : t.value # Clear} ELSE {}

Fixed(value) == {f \in DOMAIN value.members : value.members[f].bound # None}

\* _resolve_with_world below an approved revision.
PlacementIssues(s, w, value, staging) ==
    LET staged == {t.owner : t \in staging}
        bound == {value.members[f].bound : f \in Fixed(value)}
    IN  {"placement_conflict" : e \in bound \cap {tracks[t].entity : t \in TracksFor(s, w)}}
        \cup {"revision_mismatch" : f \in {g \in Fixed(value) :
                 LET e == value.members[g].bound
                 IN /\ e \in DepEntities(s) /\ value.members[g].rev # approved[e]
                    /\ e \notin {tracks[t].entity : t \in TracksFor(s, w)}}}
        \cup {"track_state_required" : t \in {x \in TracksFor(s, w) \ staged : tracks[x].required}}

PlanIssues(plan, value, staging) ==
    {"blocking_mismatch" : t \in {x \in DOMAIN plan.blocking :
        ~\E u \in staging : u.owner = x /\ u.value = plan.blocking[x]}}
    \cup {"axis_absent" : a \in {plan.axis} \ (DOMAIN value.axes \cup {None})}

GeometryIssues(s, w, plan, value, staging) ==
    PlacementIssues(s, w, value, staging) \cup PlanIssues(plan, value, staging)

WorldIssues(s, w, plan, st) ==
    IF st \notin DOMAIN worldStates THEN {"state_required"}
    ELSE IF worldStates[st].approved = 0 THEN {"approval_required"}
    ELSE IF ~Assigned(s) /\ StagingRows(s, w) # {} THEN {"narrative_context"}
    ELSE IF Assigned(s) /\ Unresolvable(StagingRows(s, w)) THEN {"internal_error"}
    ELSE GeometryIssues(s, w, plan, ApprovedValue(st), EffectiveStaging(s, w))

RequiredWorlds(s) ==
    {w \in Live(worlds) : worlds[w].required /\ worlds[w].location \in DepEntities(s)}

\* The world a shot is staged in: the required one, or the one its plan names.
SelectedWorld(s) ==
    IF RequiredWorlds(s) # {} THEN CHOOSE w \in RequiredWorlds(s) : TRUE ELSE plans[s].world

\* w is the selected world, required the required ones.
IssuesIn(s, w, required) ==
    IF Cardinality(required) > 1 THEN {"context_ambiguous"}
    ELSE IF required = {} /\ plans[s] = NoPlan THEN {}
    ELSE IF required = {} /\ (w \notin Live(worlds) \/ worlds[w].location \notin DepEntities(s))
         THEN {"plan_invalid"}
    ELSE (IF plans[s] = NoPlan THEN {"plan_required"}
          ELSE IF plans[s].world # w THEN {"plan_invalid"} ELSE {})
         \cup WorldIssues(s, w, IF plans[s].world = w THEN plans[s] ELSE NoPlan,
                          <<w, approved[worlds[w].location]>>)

SpatialIssues(s) == IssuesIn(s, SelectedWorld(s), RequiredWorlds(s))

\* The spatial part of a capture, when there are no issues.
PackIn(s, w, st) ==
    [world |-> w, state |-> st, revision |-> worldStates[st].approved,
     staging |-> {<<t.owner, t.value, t.id>> : t \in EffectiveStaging(s, w)},
     plan |-> plans[s]]

SpatialPack(s) ==
    IF RequiredWorlds(s) = {} /\ plans[s] = NoPlan THEN None
    ELSE LET w == SelectedWorld(s) IN PackIn(s, w, <<w, approved[worlds[w].location]>>)

----------------------------------------------------------------------------
\* The specification.  The story's operations look at nothing spatial.
GeometryStep ==
    \/ \E w \in World, e \in Entity, b \in BOOLEAN : CreateWorld(w, e, b) \/ PatchWorld(w, b)
    \/ \E w \in World : DeleteWorld(w)
    \/ \E w \in World, n \in Nat : CreateState(w, n)
    \/ \E f \in Frame, w \in World, parent \in Frame \cup {None}, e \in Entity \cup {None} :
          CreateFrame(f, w, parent, e) \/ PatchFrame(f, parent, e)
    \/ \E f \in Frame : DeleteFrame(f)
    \/ \E st \in DOMAIN worldStates :
          \/ \E f \in Frame, rev \in Nat \cup {None}, at \in Points : PutStateFrame(st, f, rev, at)
          \/ \E f \in Frame : DeleteStateFrame(st, f)
          \/ \E a \in Axis, f, g \in Frame : PutStateAxis(st, a, f, g)
          \/ \E a \in Axis : DeleteStateAxis(st, a)
          \/ \E n, x \in Nat : ApproveWorld(st, n, x) \/ Unapprove(st, x)
          \/ \E k \in Clients : FreezeFrames(k, st)
    \/ \E a \in Axis, w \in World : CreateAxis(a, w) \/ DeleteAxis(a)
    \/ \E k \in Clients : FreezeAxes(k) \/ CaptureWorld(k)

SpatialPlans == [world : World, axis : Axis \cup {None},
          blocking : UNION {[T -> Values] : T \in SUBSET Track}]

StagingStep ==
    \/ \E t \in Track, w \in World, e \in Entity, b \in BOOLEAN : CreateTrack(t, w, e, b) \/ PatchTrack(t, b)
    \/ \E t \in Track : DeleteTrack(t)
    \/ \E t \in Track, a \in Anchors, v \in StoryValues : CreateStaging(t, a, v)
    \/ \E t \in Active : \/ DeleteStaging(t)
                         \/ \E a \in Anchors, v \in StoryValues : PatchStaging(t, a, v)
    \/ \E s \in Shot, x \in SpatialPlans \cup {NoPlan} :
          DeleteSpatialPlan(s, x) \/ \E plan \in SpatialPlans : PutSpatialPlan(s, x, plan)

SpatialStep ==
    (ContinuityStep /\ UNCHANGED spatialOnly) \/ GeometryStep \/ StagingStep

SpatialSpec == SpatialInit /\ [][SpatialStep]_spatialVars

----------------------------------------------------------------------------
(* Properties.                                                                *)

\* Whatever order frames are parented, bound, included and excluded in, each
\* state stays capturable: parents are included before their children and leave
\* after them, endpoints are included, the binding of a member is the binding of
\* its frame, and an entity stands in one place (_load_candidate and
\* parse_world_revision refuse the state otherwise).
StatesCapturable ==
    \A st \in DOMAIN worldStates :
        /\ ParseWorldRevision(Candidate(st))
        /\ \A f, g \in DOMAIN worldStates[st].members :
              /\ worldStates[st].members[f].bound = frames[f].bound
              /\ frames[f].bound # None /\ frames[f].bound = frames[g].bound => f = g

\* A captured world revision is the state of the world at the instant it is
\* stored, although its frames and axes are read by different statements.
WorldCaptureIsCurrent ==
    [][\A r \in worldRevs' \ worldRevs : r.value = Candidate(r.state)]_spatialVars

\* No deletion leaves authority hanging: a live track has a live world, a live
\* staging transition a live track, and the world and tracks of a plan are live.
AuthorityHangsTogether ==
    /\ \A t \in Live(tracks) : tracks[t].world \in Live(worlds)
    /\ \A t \in Active : t.family = "staging" => t.owner \in Live(tracks)
    /\ \A s \in Shot : plans[s] # NoPlan => /\ plans[s].world \in Live(worlds)
                                            /\ DOMAIN plans[s].blocking \subseteq Live(tracks)
=============================================================================
