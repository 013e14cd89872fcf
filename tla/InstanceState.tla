--------------------------- MODULE InstanceState ---------------------------
(* The temporal state of production instances: the transitions of their       *)
(* features and tracks along the narrative, the binding a shot has selected,  *)
(* and the resolution of both when the shot starts.                           *)
(*   src/server/soloring/production_world/{instance_state,instance_spatial,   *)
(*   resolver}.py                                                             *)
(* The subjects stay adopted and in working membership here, and the shot's   *)
(* binding stands for its pinned world revision, the entities adopted in it   *)
(* and whether it is still current: how these come about is the matter of     *)
(* ProductionWorld.  The subjects of the binding are all instances.           *)
EXTENDS Spatial

CONSTANTS InstanceFeature, InstanceTrack

VARIABLES
    instances,      \* features and tracks: id -> world (of a track), required, live
    selection       \* shot_production_world_selections: shot -> binding or None

instanceOnly == <<instances, selection>>
instanceVars == <<spatialVars, instanceOnly>>

InstanceInit ==
    SpatialInit /\ instances = << >> /\ selection = [s \in Shot |-> None]

InstanceTypeOK ==
    /\ SpatialTypeOK
    /\ DOMAIN instances \subseteq InstanceFeature \cup InstanceTrack
    /\ \A i \in DOMAIN instances :
          instances[i] \in [world : World \cup {None}, required : BOOLEAN, live : BOOLEAN]

----------------------------------------------------------------------------
(* Features and tracks.                                                       *)

KeepSpatial == UNCHANGED <<narrativeVars, storyVars, spatialOnly>>

CreateInstanceFeature(i) ==
    /\ i \in InstanceFeature \ DOMAIN instances
    /\ instances' = With(instances, i, [world |-> None, required |-> FALSE, live |-> TRUE])
    /\ KeepSpatial /\ UNCHANGED <<transitions, selection>>

CreateInstanceTrack(i, w, required) ==
    /\ i \in InstanceTrack \ DOMAIN instances /\ w \in Live(worlds)
    /\ instances' = With(instances, i, [world |-> w, required |-> required, live |-> TRUE])
    /\ KeepSpatial /\ UNCHANGED <<transitions, selection>>

PatchInstanceTrack(i, required) ==
    /\ i \in InstanceTrack \cap Live(instances)
    /\ instances' = [instances EXCEPT ![i].required = required]
    /\ KeepSpatial /\ UNCHANGED <<transitions, selection>>

\* A feature or track goes whatever transitions it carries.
DeleteInstanceFeature(i) ==
    /\ i \in InstanceFeature \cap Live(instances) /\ instances' = Tombstone(instances, i)
    /\ KeepSpatial /\ UNCHANGED <<transitions, selection>>

DeleteInstanceTrack(i) ==
    /\ i \in InstanceTrack \cap Live(instances) /\ instances' = Tombstone(instances, i)
    /\ KeepSpatial /\ UNCHANGED <<transitions, selection>>

----------------------------------------------------------------------------
(* Transitions.                                                               *)

KeepInstances == KeepSpatial /\ UNCHANGED instanceOnly

\* The coordinate is looked at when it changes; the anchor always.
MoveInstance(t, anchor, value) ==
    /\ AnchorValid(anchor)
    /\ anchor # t.anchor => ~CoordinateTaken(t.family, t.owner, anchor, {t})
    /\ transitions' = (transitions \ {t}) \cup {[t EXCEPT !.anchor = anchor, !.value = value]}

CreateInstanceTransition(i, anchor, value) ==
    /\ i \in InstanceFeature \cap Live(instances)
    /\ Insert("instance_feature", i, anchor, value) /\ KeepInstances

PatchInstanceTransition(t, anchor, value) ==
    /\ t \in Active /\ t.family = "instance_feature" /\ t.owner \in Live(instances)
    /\ MoveInstance(t, anchor, value) /\ KeepInstances

DeleteInstanceTransition(t) ==
    t \in Active /\ t.family = "instance_feature" /\ Drop(t) /\ KeepInstances

CreateInstanceStaging(i, anchor, value) ==
    /\ i \in InstanceTrack \cap Live(instances) /\ instances[i].world \in Live(worlds)
    /\ Insert("instance_staging", i, anchor, value) /\ KeepInstances

\* The track itself is not looked at again.
PatchInstanceStaging(t, anchor, value) ==
    /\ t \in Active /\ t.family = "instance_staging"
    /\ MoveInstance(t, anchor, value) /\ KeepInstances

DeleteInstanceStaging(t) ==
    t \in Active /\ t.family = "instance_staging" /\ Drop(t) /\ KeepInstances

\* What ProductionWorld does to the shot: a binding that pins the approved
\* revision of a world state is selected, or stops being current.
SelectBinding(s, st, ents) ==
    /\ s \in Live(shots) /\ st \in DOMAIN worldStates /\ worldStates[st].approved # 0
    /\ selection' = [selection EXCEPT ![s] =
          [state |-> st, number |-> worldStates[st].approved, entities |-> ents, current |-> TRUE]]
    /\ KeepSpatial /\ UNCHANGED <<transitions, instances>>

BindingGoesStale(s) ==
    /\ selection[s] # None /\ selection' = [selection EXCEPT ![s].current = FALSE]
    /\ KeepSpatial /\ UNCHANGED <<transitions, instances>>

----------------------------------------------------------------------------
(* Resolution.                                                                *)

InstanceFeatureRows ==
    {t \in Active : t.family = "instance_feature" /\ t.owner \in Live(instances)}

EffectiveInstanceFeatures(s) ==
    IF Assigned(s) THEN {t \in Winners(InstanceFeatureRows, s) : t.value # Clear} ELSE {}

TracksInWorld(w) == {i \in InstanceTrack \cap Live(instances) : instances[i].world = w}

InstanceStagingRows(w) ==
    {t \in Active : t.family = "instance_staging" /\ t.owner \in TracksInWorld(w)}

EffectiveInstanceStaging(s, w) ==
    IF Assigned(s) THEN {t \in Winners(InstanceStagingRows(w), s) : t.value # Clear} ELSE {}

\* Required tracks without a state; an unassigned shot misses none.
AbsentTracks(s, w) ==
    IF Assigned(s)
    THEN {i \in TracksInWorld(w) : /\ instances[i].required
                                   /\ i \notin {t.owner : t \in EffectiveInstanceStaging(s, w)}}
    ELSE {}

\* The binding never overrides what the shot's own world resolves to.
SpatialAgreement(b, pack) ==
    IF pack = None THEN {"spatial_context"}
    ELSE IF <<pack.state, pack.revision>> # <<b.state, b.number>> THEN {"revision_mismatch"}
    ELSE {}

\* resolve_production_world.
InstanceIssues(s) ==
    LET b == selection[s]
    IN IF b = None THEN {}
       ELSE (IF b.current THEN {} ELSE {"binding_stale"})
            \cup {"entity_dependency" : e \in b.entities \ DepEntities(s)}
            \cup SpatialAgreement(b, IF SpatialIssues(s) = {} THEN SpatialPack(s) ELSE None)
            \cup (IF ~Assigned(s) /\ InstanceFeatureRows # {} THEN {"narrative_context"}
                  ELSE IF Assigned(s) /\ Unresolvable(InstanceFeatureRows
                                                     \cup InstanceStagingRows(b.state[1]))
                  THEN {"internal_error"}
                  ELSE {"track_state_required" : i \in AbsentTracks(s, b.state[1])})

InstanceReady(s) == selection[s] # None /\ InstanceIssues(s) = {}

\* The production world of a capture, empty without a binding: the features
\* without, the staging with the identity of the transition.
InstancePack(s) ==
    LET bound == selection[s] # None
    IN [binding |-> selection[s],
        features |-> IF bound THEN {<<t.owner, t.value, t.anchor>> : t \in EffectiveInstanceFeatures(s)}
                     ELSE {},
        staging |-> IF bound THEN {<<t.owner, t.value, t.id>> :
                                      t \in EffectiveInstanceStaging(s, selection[s].state[1])}
                    ELSE {}]

\* The transitions behind the features, kept for audit only.
InstanceAudit(s) == {<<t.owner, t.id>> : t \in EffectiveInstanceFeatures(s)}

----------------------------------------------------------------------------
\* The specification.
InstanceChange ==
    \/ \E i \in InstanceFeature : CreateInstanceFeature(i) \/ DeleteInstanceFeature(i)
    \/ \E i \in InstanceTrack, w \in World, b \in BOOLEAN :
          CreateInstanceTrack(i, w, b) \/ PatchInstanceTrack(i, b)
    \/ \E i \in InstanceTrack : DeleteInstanceTrack(i)
    \/ \E i \in InstanceFeature \cup InstanceTrack, a \in Anchors, v \in StoryValues :
          CreateInstanceTransition(i, a, v) \/ CreateInstanceStaging(i, a, v)
    \/ \E t \in Active :
          \/ DeleteInstanceTransition(t) \/ DeleteInstanceStaging(t)
          \/ \E a \in Anchors, v \in StoryValues :
                PatchInstanceTransition(t, a, v) \/ PatchInstanceStaging(t, a, v)
    \/ \E s \in Shot : \/ BindingGoesStale(s)
                       \/ \E st \in DOMAIN worldStates, ents \in SUBSET Entity : SelectBinding(s, st, ents)

InstanceStep == (SpatialStep /\ UNCHANGED instanceOnly) \/ InstanceChange

InstanceSpec == InstanceInit /\ [][InstanceStep]_instanceVars

----------------------------------------------------------------------------
(* Properties.                                                                *)

\* An instance's state, like an entity's, is what the story tells when it is
\* told from the start (one winner core serves both).
InstanceResolutionIsReplay ==
    \A s \in Live(shots) : Assigned(s) /\ ~Unresolvable(InstanceFeatureRows) =>
        EffectiveInstanceFeatures(s) = Replay(InstanceFeatureRows, s)

\* Worlds, staging, plans and instances stay usable by each other.
StagingSound == StatesCapturable /\ AuthorityHangsTogether /\ InstanceResolutionIsReplay
=============================================================================
