---------------------------- MODULE Continuity -----------------------------
(* The story world and its temporal state: entities and their approved        *)
(* revisions, the dependencies of shots, features and relations, the          *)
(* transitions anchored in the narrative stream, and the resolution of what   *)
(* holds when a shot starts.                                                  *)
(*   src/server/soloring/continuity/{entities,revisions,approvals,            *)
(*   dependencies,features,relations,transitions,relation_transitions,        *)
(*   state}.py                                                                *)
(* Every write is one BEGIN IMMEDIATE unit.  Entity kinds, names and value    *)
(* types are left out; a value is a member of Values or Clear, and a relation *)
(* is "active" or Clear.                                                      *)
EXTENDS Narrative

CONSTANTS Entity, Specs, Roles, Feature, FeatureKeys, Predicate, Relation,
          Values, Clear, MaxTransitions

ASSUME ContinuityAssumption ==
    /\ Clear \notin Values /\ "active" \notin Values /\ MaxTransitions \in Nat

VARIABLES
    entities,       \* creative_entities: id -> live
    entityRevs,     \* entity_revisions: entity, number, spec
    approved,       \* entity_approved_revisions: entity -> number
    deps,           \* shot_entity_dependencies: shot -> set of entity, role
    features,       \* continuity_features: id -> entity, key, predecessor, live
    predicates,     \* continuity_predicates: id -> live
    relations       \* continuity_relations: id -> subject, predicate, object, live

storyVars == <<entities, entityRevs, approved, deps, features, predicates, relations>>
continuityVars == <<narrativeVars, transitions, storyVars>>

ContinuityInit ==
    /\ NarrativeInit
    /\ entities = << >> /\ entityRevs = {} /\ approved = << >>
    /\ deps = [s \in Shot |-> {}]
    /\ features = << >> /\ predicates = << >> /\ relations = << >>

ContinuityTypeOK ==
    /\ NarrativeTypeOK
    /\ DOMAIN entities \subseteq Entity /\ DOMAIN features \subseteq Feature
    /\ DOMAIN predicates \subseteq Predicate /\ DOMAIN relations \subseteq Relation
    /\ \A r \in entityRevs : r.entity \in DOMAIN entities /\ r.spec \in Specs
    /\ \A e \in DOMAIN approved : \E r \in entityRevs : r.entity = e /\ r.number = approved[e]
    /\ deps \in [Shot -> SUBSET [entity : Entity, role : Roles]]
    /\ \A f \in DOMAIN features :
          /\ features[f].entity \in DOMAIN entities /\ features[f].key \in FeatureKeys
          /\ features[f].supersedes \in DOMAIN features \cup {None}
    /\ \A r \in DOMAIN relations :
          /\ relations[r].subject \in DOMAIN entities /\ relations[r].object \in DOMAIN entities
          /\ relations[r].predicate \in DOMAIN predicates
    /\ \A t \in transitions : /\ t.id \in 1..MaxTransitions
                              /\ t.value \in Values \cup {Clear, "active"}

----------------------------------------------------------------------------
(* Entities, revisions, approvals and dependencies.                           *)

RevsOf(e) == {r \in entityRevs : r.entity = e}
DepEntities(s) == {d.entity : d \in deps[s]}

CreateEntity(e) ==
    /\ project /\ e \notin DOMAIN entities
    /\ entities' = With(entities, e, [live |-> TRUE])
    /\ UNCHANGED <<narrativeVars, transitions, entityRevs, approved, deps, features,
                   predicates, relations>>

\* A known spec converges on its revision.
CreateRevision(e, spec) ==
    /\ e \in Live(entities) /\ spec \notin {r.spec : r \in RevsOf(e)}
    /\ entityRevs' = entityRevs \cup
          {[entity |-> e, spec |-> spec, number |-> 1 + Max({0} \cup {r.number : r \in RevsOf(e)})]}
    /\ UNCHANGED <<narrativeVars, transitions, entities, approved, deps, features, predicates,
                   relations>>

\* Compare and set of the approved pointer; it is never taken back.
ApproveRevision(e, number, expected) ==
    /\ e \in Live(entities) /\ number \in {r.number : r \in RevsOf(e)}
    /\ expected = IF e \in DOMAIN approved THEN approved[e] ELSE None
    /\ approved' = With(approved, e, number)
    /\ UNCHANGED <<narrativeVars, transitions, entities, entityRevs, deps, features, predicates,
                   relations>>

\* The complete working set of a shot is replaced.
ReplaceSemanticDependencies(s, set) ==
    /\ s \in Live(shots)
    /\ \A d \in set : d.entity \in Live(entities) /\ d.entity \in DOMAIN approved
    /\ deps' = [deps EXCEPT ![s] = set]
    /\ UNCHANGED <<narrativeVars, transitions, entities, entityRevs, approved, features,
                   predicates, relations>>

EntityInUse(e) ==
    \/ \E s \in Live(shots) : e \in DepEntities(s)
    \/ \E f \in Live(features) : features[f].entity = e
    \/ \E r \in Live(relations) : e \in {relations[r].subject, relations[r].object}

DeleteEntity(e) ==
    /\ e \in Live(entities) /\ ~EntityInUse(e)
    /\ entities' = Tombstone(entities, e)
    /\ UNCHANGED <<narrativeVars, transitions, entityRevs, approved, deps, features, predicates,
                   relations>>

----------------------------------------------------------------------------
(* Features, predicates and relations.                                        *)

FeaturesOf(e) == {f \in DOMAIN features : features[f].entity = e}

\* A key is used once per entity for ever; a predecessor has one successor.
CreateFeature(f, e, key, pred) ==
    /\ e \in Live(entities) /\ f \notin DOMAIN features
    /\ key \notin {features[x].key : x \in FeaturesOf(e)}
    /\ pred # None => /\ pred \in FeaturesOf(e)
                      /\ pred \notin {features[x].supersedes : x \in DOMAIN features}
    /\ features' = With(features, f, [entity |-> e, key |-> key, supersedes |-> pred, live |-> TRUE])
    /\ UNCHANGED <<narrativeVars, transitions, entities, entityRevs, approved, deps, predicates,
                   relations>>

Carries(family, owner) == \E t \in Active : t.family = family /\ t.owner = owner

DeleteFeature(f) ==
    /\ f \in Live(features) /\ ~Carries("feature", f)
    /\ features' = Tombstone(features, f)
    /\ UNCHANGED <<narrativeVars, transitions, entities, entityRevs, approved, deps, predicates,
                   relations>>

CreatePredicate(p) ==
    /\ project /\ p \notin DOMAIN predicates
    /\ predicates' = With(predicates, p, [live |-> TRUE])
    /\ UNCHANGED <<narrativeVars, transitions, entities, entityRevs, approved, deps, features,
                   relations>>

DeletePredicate(p) ==
    /\ p \in Live(predicates) /\ \A r \in Live(relations) : relations[r].predicate # p
    /\ predicates' = Tombstone(predicates, p)
    /\ UNCHANGED <<narrativeVars, transitions, entities, entityRevs, approved, deps, features,
                   relations>>

RelationInputs(e, p, o) ==
    e # o /\ {e, o} \subseteq Live(entities) /\ p \in Live(predicates)

CreateRelation(r, e, p, o) ==
    /\ project /\ r \notin DOMAIN relations /\ RelationInputs(e, p, o)
    /\ \A x \in Live(relations) :
          <<relations[x].subject, relations[x].predicate, relations[x].object>> # <<e, p, o>>
    /\ relations' = With(relations, r, [subject |-> e, predicate |-> p, object |-> o, live |-> TRUE])
    /\ UNCHANGED <<narrativeVars, transitions, entities, entityRevs, approved, deps, features,
                   predicates>>

DeleteRelation(r) ==
    /\ r \in Live(relations) /\ ~Carries("relation", r)
    /\ relations' = Tombstone(relations, r)
    /\ UNCHANGED <<narrativeVars, transitions, entities, entityRevs, approved, deps, features,
                   predicates>>

----------------------------------------------------------------------------
(* Transitions.  The families share the anchor rule and the coordinate rule.  *)

CoordinateTaken(family, owner, anchor, but) ==
    \E t \in Active \ but : t.family = family /\ t.owner = owner /\ t.anchor = anchor

Insert(family, owner, anchor, value) ==
    /\ AnchorValid(anchor) /\ ~CoordinateTaken(family, owner, anchor, {})
    /\ Cardinality(transitions) < MaxTransitions
    /\ transitions' = transitions \cup
          {[id |-> Cardinality(transitions) + 1, family |-> family, owner |-> owner,
            anchor |-> anchor, value |-> value, live |-> TRUE]}

\* Mutation: the coordinate a row moves to is not looked at.
MoveAnywhere(t, anchor, value) ==
    /\ AnchorValid(anchor)
    /\ transitions' = (transitions \ {t}) \cup {[t EXCEPT !.anchor = anchor, !.value = value]}

\* The prospective row of a patch: checked again when its anchor or operation changes.
Move(t, anchor, value) ==
    /\ anchor # t.anchor \/ (value = Clear) # (t.value = Clear)
          => AnchorValid(anchor) /\ ~CoordinateTaken(t.family, t.owner, anchor, {t})
    /\ transitions' = (transitions \ {t}) \cup {[t EXCEPT !.anchor = anchor, !.value = value]}

Drop(t) == transitions' = (transitions \ {t}) \cup {[t EXCEPT !.live = FALSE]}

KeepStory == UNCHANGED <<narrativeVars, storyVars>>

ActiveFeature(f) == f \in Live(features) /\ features[f].entity \in Live(entities)
ActiveRelation(r) == r \in Live(relations) /\ project

CreateFeatureTransition(f, anchor, value) ==
    ActiveFeature(f) /\ Insert("feature", f, anchor, value) /\ KeepStory

PatchFeatureTransition(t, anchor, value) ==
    t \in Active /\ t.family = "feature" /\ ActiveFeature(t.owner) /\ Move(t, anchor, value) /\ KeepStory

DeleteFeatureTransition(t) ==
    t \in Active /\ t.family = "feature" /\ Drop(t) /\ KeepStory

CreateRelationTransition(r, anchor, value) ==
    ActiveRelation(r) /\ Insert("relation", r, anchor, value) /\ KeepStory

PatchRelationTransition(t, anchor, value) ==
    t \in Active /\ t.family = "relation" /\ ActiveRelation(t.owner) /\ Move(t, anchor, value) /\ KeepStory

DeleteRelationTransition(t) ==
    t \in Active /\ t.family = "relation" /\ Drop(t) /\ KeepStory

\* Deleting the project takes the topology, the story world and the guarded
\* transitions with it; other transitions stay behind.
DeleteProject ==
    /\ DropNarrative
    /\ entities' = [e \in DOMAIN entities |-> [live |-> FALSE]]
    /\ features' = [f \in DOMAIN features |-> [features[f] EXCEPT !.live = FALSE]]
    /\ predicates' = [p \in DOMAIN predicates |-> [live |-> FALSE]]
    /\ relations' = [r \in DOMAIN relations |-> [relations[r] EXCEPT !.live = FALSE]]
    /\ transitions' = {IF t.family \in GuardedFamilies THEN [t EXCEPT !.live = FALSE] ELSE t :
                          t \in transitions}
    /\ UNCHANGED <<entityRevs, approved, deps>>

----------------------------------------------------------------------------
(* Resolution.  rows are active transitions, s is the shot that starts.       *)

Assigned(s) == shots[s].scene # None

\* The rows that do not come after the start of shot s, of stream.
Eligible(rows, s, stream) ==
    {t \in rows : RankIn(stream, t.anchor) <= RankIn(stream, StartOfShot(s))}

LatestOfOwner(rows, stream) ==
    {t \in rows : \A u \in rows :
        u.owner = t.owner => RankIn(stream, u.anchor) <= RankIn(stream, t.anchor)}

\* resolve_feature_winners_core: the latest row of each owner among the eligible.
WinnersIn(rows, s, stream) == LatestOfOwner(Eligible(rows, s, stream), stream)

Winners(rows, s) == WinnersIn(rows, s, Boundaries)

\* What the winner core answers with an internal error.
Unresolvable(rows) ==
    \/ ~({t.anchor : t \in rows} \subseteq ToSet(Boundaries))
    \/ \E t, u \in rows : t # u /\ t.owner = u.owner /\ t.anchor = u.anchor

FeatureRows(s) ==
    {t \in Active : /\ t.family = "feature" /\ t.owner \in Live(features)
                    /\ features[t.owner].entity \in DepEntities(s)}

EffectiveFeatures(s) ==
    IF Assigned(s) THEN {t \in Winners(FeatureRows(s), s) : t.value # Clear} ELSE {}

RelationRows(s) ==
    {t \in Active : /\ t.family = "relation" /\ t.owner \in Live(relations)
                    /\ {relations[t.owner].subject, relations[t.owner].object}
                          \cap DepEntities(s) # {}}

ActiveWinners(s) == {t \in Winners(RelationRows(s), s) : t.value # Clear}
BothEnds(t, s) == {relations[t.owner].subject, relations[t.owner].object} \subseteq DepEntities(s)

EffectiveRelations(s) ==
    IF Assigned(s) THEN {t \in ActiveWinners(s) : BothEnds(t, s)} ELSE {}

\* readiness_projection: no position for relevant data, or a relation with one end only.
StoryReady(s) ==
    /\ Assigned(s) \/ FeatureRows(s) \cup RelationRows(s) = {}
    /\ Assigned(s) => \A t \in ActiveWinners(s) : BothEnds(t, s)

\* resolve_working_dependencies: each dependency with its approved revision.
ResolvedDependencies(s) ==
    {[entity |-> d.entity, role |-> d.role, revision |-> approved[d.entity]] : d \in deps[s]}

----------------------------------------------------------------------------
\* The specification: the topology's operations look at the active transitions
\* and at nothing else of the story.
Anchors == {[kind |-> "sequence", id |-> q, side |-> x] : q \in Sequence, x \in {"start", "end"}}
           \cup {[kind |-> "scene", id |-> c, side |-> x] : c \in Scene, x \in {"start", "end"}}
           \cup {[kind |-> "shot", id |-> s, side |-> x] : s \in Shot, x \in {"start", "end"}}
StoryValues == Values \cup {Clear}

WorldFactStep ==
    \/ \E e \in Entity : CreateEntity(e) \/ DeleteEntity(e)
    \/ \E e \in Entity, spec \in Specs : CreateRevision(e, spec)
    \/ \E e \in Entity, n \in Nat, x \in Nat \cup {None} : ApproveRevision(e, n, x)
    \/ \E s \in Shot, set \in SUBSET [entity : Entity, role : Roles] : ReplaceSemanticDependencies(s, set)
    \/ \E f \in Feature, e \in Entity, key \in FeatureKeys, pred \in Feature \cup {None} :
          CreateFeature(f, e, key, pred)
    \/ \E f \in Feature : DeleteFeature(f)
    \/ \E p \in Predicate : CreatePredicate(p) \/ DeletePredicate(p)
    \/ \E r \in Relation, e, o \in Entity, p \in Predicate : CreateRelation(r, e, p, o)
    \/ \E r \in Relation : DeleteRelation(r)

TransitionStep ==
    \/ \E f \in Feature, a \in Anchors, v \in StoryValues : CreateFeatureTransition(f, a, v)
    \/ \E r \in Relation, a \in Anchors, v \in {"active", Clear} : CreateRelationTransition(r, a, v)
    \/ \E t \in Active :
          \/ DeleteFeatureTransition(t) \/ DeleteRelationTransition(t)
          \/ \E a \in Anchors : \/ \E v \in StoryValues : PatchFeatureTransition(t, a, v)
                                \/ \E v \in {"active", Clear} : PatchRelationTransition(t, a, v)

ContinuityStep ==
    (NarrativeStep /\ UNCHANGED storyVars) \/ WorldFactStep \/ TransitionStep \/ DeleteProject

ContinuitySpec == ContinuityInit /\ [][ContinuityStep]_continuityVars

----------------------------------------------------------------------------
(* Properties.                                                                *)

\* The guard chain the relation resolver demands: what is active hangs on
\* active rows only (resolve_effective_relation_state answers otherwise with an
\* internal error).
GuardChain ==
    /\ \A r \in Live(relations) : RelationInputs(relations[r].subject, relations[r].predicate,
                                                 relations[r].object)
    /\ \A f \in Live(features) : features[f].entity \in Live(entities)
    /\ \A t \in Active : /\ t.family = "feature" => t.owner \in Live(features)
                         /\ t.family = "relation" => t.owner \in Live(relations)

\* Every dependency of an active shot resolves to an approved revision of an
\* active entity (resolve_working_dependencies never fails).
DependenciesResolve ==
    \A s \in Live(shots) : \A d \in deps[s] :
        d.entity \in Live(entities) /\ d.entity \in DOMAIN approved

\* No two active transitions of an owner share a boundary, so the winner is
\* never ambiguous, whatever was created, moved, deleted and created again.
WinnerUnique ==
    \A t, u \in Active : t.family = u.family /\ t.owner = u.owner /\ t.anchor = u.anchor => t = u

\* Walking the stream up to the start of shot s and doing what each boundary's
\* transition says.
Replay(rows, s) ==
    LET stream == Boundaries
        after[i \in 0..Len(stream)] ==
            IF i = 0 THEN {}
            ELSE LET here == {t \in rows : t.anchor = stream[i]}
                 IN {t \in after[i - 1] : t.owner \notin {u.owner : u \in here}} \cup here
    IN {t \in after[RankIn(stream, StartOfShot(s))] : t.value # Clear}

\* The winner by rank is what the story tells when it is told from the start:
\* resolution equals replay for every assigned shot.
ResolutionIsReplay ==
    \A s \in Live(shots) : Assigned(s) =>
        /\ EffectiveFeatures(s) = Replay(FeatureRows(s), s)
        /\ EffectiveRelations(s) \subseteq Replay(RelationRows(s), s)

\* Continuity can be resolved for every shot, to one answer, the story's own.
ContinuitySound == GuardChain /\ DependenciesResolve /\ WinnerUnique /\ ResolutionIsReplay
=============================================================================
