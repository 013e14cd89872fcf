---------------------------- MODULE Story_proofs -----------------------------
(***************************************************************************)
(* Proofs about what is built on staging, for every number of shots,       *)
(* events, clients, proposals and performances: events stay inside their   *)
(* shots, what is captured is coherent and verifies from itself, reviews   *)
(* give events their consequences once and with their evidence, and voices *)
(* and performances certify one another.                                   *)
(***************************************************************************)
EXTENDS Continuity_proofs, Performance

USE NarrativeAssumption, ContinuityAssumption, VisualAssumption, SpatialAssumption
    DEF NarrativeAssumption, ContinuityAssumption, VisualAssumption, SpatialAssumption

-----------------------------------------------------------------------------
(* Relations are active or not, whoever writes their rows.                 *)

USE IntraAssumption DEF IntraAssumption

RelationStates == \A t \in Active : t.family = "relation" => t.value \in {"active", Clear}

\* A row that is moved keeps its family and its owner.
LEMMA RowMoved ==
    ASSUME RowsTyped, NEW t \in Active, NEW a, NEW v
    PROVE  \E r : /\ r = [t EXCEPT !.anchor = a, !.value = v]
                  /\ r.id = t.id /\ r.family = t.family /\ r.owner = t.owner /\ r.live = t.live
                  /\ r.anchor = a /\ r.value = v
<1>1. t \in transitions /\ t.live
  BY DEF Active
<1>2. RowTyped(t)
  BY <1>1 DEF RowsTyped
<1>3. PICK r : r = [t EXCEPT !.anchor = a, !.value = v]
  OBVIOUS
<1>4. /\ r.id = t.id /\ r.family = t.family /\ r.owner = t.owner /\ r.live = t.live
      /\ r.anchor = a /\ r.value = v
  BY <1>2, <1>3 DEF RowTyped
<1> QED
  BY <1>3, <1>4

\* The story writes a relation's row with a relation's state.
LEMMA StoryKeepsRelationStates ==
    ASSUME ContinuityInv, RelationStates, [ContinuityStep]_continuityVars
    PROVE  RelationStates'
<1>0. RowsTyped
  BY DEF ContinuityInv, TransitionsInv
<1>1. CASE UNCHANGED transitions
  BY <1>1 DEF RelationStates, Active
<1>2. CASE NarrativeStep
  <2>1. UNCHANGED transitions
    BY <1>2, Zenon DEF NarrativeStep, CreateSequence, DeleteSequence, ReorderSequences, CreateScene, DeleteScene,
       ReorderScenes, AssignSceneShots, CreateShot, DeleteShot
  <2> QED
    BY <1>1, <2>1
<1>3. CASE WorldFactStep
  <2>1. UNCHANGED transitions
    BY <1>3, Zenon DEF WorldFactStep, CreateEntity, DeleteEntity, CreateRevision, ApproveRevision,
       ReplaceSemanticDependencies, CreateFeature, DeleteFeature, CreatePredicate, DeletePredicate,
       CreateRelation, DeleteRelation
  <2> QED
    BY <1>1, <2>1
<1>4. CASE DeleteProject
  <2>1. transitions' = {IF t.family \in GuardedFamilies THEN [t EXCEPT !.live = FALSE] ELSE t : t \in transitions}
    BY <1>4 DEF DeleteProject
  <2>2. \A t \in Active' : t.family # "relation"
    <3> SUFFICES ASSUME NEW t \in Active', t.family = "relation" PROVE FALSE
      OBVIOUS
    <3>1. PICK u \in transitions : t = IF u.family \in GuardedFamilies THEN [u EXCEPT !.live = FALSE] ELSE u
      BY <2>1 DEF Active
    <3>2. RowTyped(u) /\ t.live
      BY <1>0 DEF RowsTyped, Active
    <3>3. CASE u.family \in GuardedFamilies
      BY <3>1, <3>2, <3>3 DEF RowTyped
    <3>4. CASE u.family \notin GuardedFamilies
      BY <3>1, <3>4 DEF GuardedFamilies
    <3> QED
      BY <3>3, <3>4
  <2> QED
    BY <2>2 DEF RelationStates
<1>5. ASSUME NEW family, NEW owner, NEW a, NEW v, Insert(family, owner, a, v),
             family = "relation" => v \in {"active", Clear}
      PROVE  RelationStates'
  BY <1>5 DEF Insert, RelationStates, Active
<1>6. ASSUME NEW t \in Active, NEW a, NEW v, Move(t, a, v), t.family = "relation" => v \in {"active", Clear}
      PROVE  RelationStates'
  <2>1. PICK r : r = [t EXCEPT !.anchor = a, !.value = v] /\ r.family = t.family /\ r.value = v
    BY <1>0, RowMoved
  <2> QED
    BY <1>6, <2>1 DEF Move, RelationStates, Active
<1>7. ASSUME NEW t \in Active, Drop(t)
      PROVE  RelationStates'
  <2>1. PICK r : r = [t EXCEPT !.live = FALSE]
    OBVIOUS
  <2>2. ~r.live
    BY <1>0, <2>1 DEF RowsTyped, RowTyped, Active
  <2> QED
    BY <1>7, <2>1, <2>2 DEF Drop, RelationStates, Active
<1>8. CASE TransitionStep
  <2>1. \/ \E f, a, v : Insert("feature", f, a, v)
        \/ \E r, a : \E v \in {"active", Clear} : Insert("relation", r, a, v)
        \/ \E t \in Active : Drop(t)
        \/ \E t \in Active : \E a, v : Move(t, a, v) /\ (t.family = "relation" => v \in {"active", Clear})
    <3>1. CASE \E f \in Feature, a \in Anchors, v \in StoryValues : CreateFeatureTransition(f, a, v)
      BY <3>1, Zenon DEF CreateFeatureTransition
    <3>2. CASE \E r \in Relation, a \in Anchors, v \in {"active", Clear} : CreateRelationTransition(r, a, v)
      BY <3>2, Zenon DEF CreateRelationTransition
    <3>3. CASE \E t \in Active : DeleteFeatureTransition(t) \/ DeleteRelationTransition(t)
      BY <3>3, Zenon DEF DeleteFeatureTransition, DeleteRelationTransition
    <3>4. CASE \E t \in Active, a \in Anchors, v \in StoryValues : PatchFeatureTransition(t, a, v)
      <4>1. PICK t \in Active, a \in Anchors, v \in StoryValues : PatchFeatureTransition(t, a, v)
        BY <3>4
      <4>2. Move(t, a, v) /\ t.family # "relation"
        BY <4>1 DEF PatchFeatureTransition
      <4> QED
        BY <4>2, Zenon
    <3>5. CASE \E t \in Active, a \in Anchors, v \in {"active", Clear} : PatchRelationTransition(t, a, v)
      BY <3>5, Zenon DEF PatchRelationTransition
    <3> QED
      BY <1>8, <3>1, <3>2, <3>3, <3>4, <3>5, Zenon DEF TransitionStep
  <2> QED
    BY <1>5, <1>6, <1>7, <2>1
<1> QED
  BY <1>1, <1>2, <1>3, <1>4, <1>8 DEF ContinuityStep, continuityVars

\* Staging and instances write rows of their own families.
LEMMA OthersKeepRelationStates ==
    ASSUME ContinuityInv, RelationStates, StagingStep \/ InstanceChange
    PROVE  RelationStates'
<1>0. RowsTyped
  BY DEF ContinuityInv, TransitionsInv
<1>1. CASE UNCHANGED transitions
  BY <1>1 DEF RelationStates, Active
<1>2. ASSUME NEW family \in OtherFamilies, NEW owner, NEW a, NEW v, Insert(family, owner, a, v)
      PROVE  RelationStates'
  BY <1>2 DEF Insert, RelationStates, Active, OtherFamilies
<1>3. ASSUME NEW t \in Active, NEW a, NEW v, t.family # "relation",
             transitions' = (transitions \ {t}) \cup {[t EXCEPT !.anchor = a, !.value = v]}
      PROVE  RelationStates'
  <2>1. PICK r : r = [t EXCEPT !.anchor = a, !.value = v] /\ r.family = t.family
    BY <1>0, RowMoved
  <2> QED
    BY <1>3, <2>1 DEF RelationStates, Active
<1>4. ASSUME NEW t \in Active, Drop(t)
      PROVE  RelationStates'
  <2>1. PICK r : r = [t EXCEPT !.live = FALSE]
    OBVIOUS
  <2>2. ~r.live
    BY <1>0, <2>1 DEF RowsTyped, RowTyped, Active
  <2> QED
    BY <1>4, <2>1, <2>2 DEF Drop, RelationStates, Active
<1>5. CASE StagingStep
  <2>1. CASE \/ \E t \in Track, w \in World, e \in Entity, b \in BOOLEAN : CreateTrack(t, w, e, b) \/ PatchTrack(t, b)
             \/ \E t \in Track : DeleteTrack(t)
             \/ \E s \in Shot, x \in SpatialPlans \cup {NoPlan} :
                   DeleteSpatialPlan(s, x) \/ \E plan \in SpatialPlans : PutSpatialPlan(s, x, plan)
    <3>1. UNCHANGED continuityVars
      BY <2>1, Zenon DEF CreateTrack, PatchTrack, DeleteTrack, DeleteSpatialPlan, PutSpatialPlan
    <3>2. UNCHANGED transitions
      BY <3>1 DEF continuityVars
    <3> QED
      BY <1>1, <3>2
  <2>2. CASE \E t \in Track, a \in Anchors, v \in StoryValues : CreateStaging(t, a, v)
    BY <1>2, <2>2 DEF CreateStaging, OtherFamilies
  <2>3. CASE \E t \in Active : DeleteStaging(t)
    BY <1>4, <2>3 DEF DeleteStaging
  <2>4. CASE \E t \in Active, a \in Anchors, v \in StoryValues : PatchStaging(t, a, v)
    BY <1>3, <2>4 DEF PatchStaging
  <2> QED
    BY <1>5, <2>1, <2>2, <2>3, <2>4, Zenon DEF StagingStep
<1>6. CASE InstanceChange
  <2>1. \/ UNCHANGED transitions
        \/ \E i \in InstanceFeature \cup InstanceTrack, a \in Anchors, v \in StoryValues :
              CreateInstanceTransition(i, a, v) \/ CreateInstanceStaging(i, a, v)
        \/ \E t \in Active : DeleteInstanceTransition(t) \/ DeleteInstanceStaging(t)
        \/ \E t \in Active, a \in Anchors, v \in StoryValues :
              PatchInstanceTransition(t, a, v) \/ PatchInstanceStaging(t, a, v)
    BY <1>6, Zenon DEF InstanceChange, CreateInstanceFeature, DeleteInstanceFeature, CreateInstanceTrack,
       PatchInstanceTrack, DeleteInstanceTrack, BindingGoesStale, SelectBinding
  <2>2. ASSUME NEW i, NEW a, NEW v, CreateInstanceTransition(i, a, v) \/ CreateInstanceStaging(i, a, v)
        PROVE  RelationStates'
    BY <1>2, <2>2 DEF CreateInstanceTransition, CreateInstanceStaging, OtherFamilies
  <2>3. ASSUME NEW t \in Active, DeleteInstanceTransition(t) \/ DeleteInstanceStaging(t) PROVE RelationStates'
    BY <1>4, <2>3 DEF DeleteInstanceTransition, DeleteInstanceStaging
  <2>4. ASSUME NEW t \in Active, NEW a, NEW v, PatchInstanceTransition(t, a, v) \/ PatchInstanceStaging(t, a, v)
        PROVE  RelationStates'
    BY <1>3, <2>4 DEF PatchInstanceTransition, PatchInstanceStaging, MoveInstance
  <2> QED
    BY <1>1, <2>1, <2>2, <2>3, <2>4
<1> QED
  BY <1>5, <1>6

\* Every step of the staged story keeps the states of relations.
LEMMA InstanceKeepsRelationStates ==
    ASSUME SpatialInv, RelationStates, [InstanceStep]_instanceVars
    PROVE  RelationStates'
<1>1. ContinuityInv
  BY DEF SpatialInv
<1>2. CASE [ContinuityStep]_continuityVars
  BY <1>1, <1>2, StoryKeepsRelationStates
<1>3. CASE StagingStep \/ InstanceChange
  BY <1>1, <1>3, OthersKeepRelationStates
<1>4. CASE GeometryStep
  <2>1. UNCHANGED continuityVars
    BY <1>4, GeometryTouchesNoStory
  <2> QED
    BY <1>2, <2>1
<1> QED
  BY <1>2, <1>3, <1>4 DEF InstanceStep, SpatialStep, instanceVars, spatialVars

-----------------------------------------------------------------------------
(* Events.                                                                 *)

EventRow(r) ==
    /\ r = [shot |-> r.shot, value |-> r.value, source |-> r.source, live |-> r.live]
    /\ r.shot \in Shot /\ r.value \in EventValue /\ r.live \in BOOLEAN

EventsTyped ==
    /\ duration \in [Shot -> Nat]
    /\ \A x \in DOMAIN events : EventRow(events[x])

\* Active events stay inside their shots and apart, deleted shots included.
EventsFit ==
    /\ \A x \in Live(events) : events[x].value.time \in 1..(duration[events[x].shot] - 1)
    /\ \A x, y \in Live(events) :
          events[x].shot = events[y].shot /\ events[x].value.time = events[y].value.time => x = y

IntraInv == SpatialInv /\ RelationStates /\ EventsTyped /\ EventsFit

\* A shot whose events change keeps them inside and apart if its new ones are.
LEMMA FitKeeps ==
    ASSUME EventsFit, NEW s, UNCHANGED duration,
           \A x \in Live(events') : events'[x].shot # s =>
               x \in Live(events) /\ events'[x].shot = events[x].shot /\ events'[x].value = events[x].value,
           \A x \in Live(events') : events'[x].shot = s => events'[x].value.time \in 1..(duration[s] - 1),
           \A x, y \in Live(events') : events'[x].shot = s /\ events'[y].shot = s
                                        /\ events'[x].value.time = events'[y].value.time => x = y
    PROVE  EventsFit'
BY DEF EventsFit

\* What a change of one row leaves of the table.
LEMMA RowChanges ==
    ASSUME NEW table, NEW x \in DOMAIN table, NEW row, NEW T, T = [table EXCEPT ![x] = row]
    PROVE  /\ DOMAIN T = DOMAIN table /\ T[x] = row
           /\ \A y \in DOMAIN table : y # x => T[y] = table[y]
OBVIOUS

\* A created event fits: the whole set of its shot was folded with it.
LEMMA CreateEventKeeps ==
    ASSUME EventsTyped, EventsFit, NEW x, NEW s \in Shot, NEW v \in EventValue, CreateEvent(x, s, v)
    PROVE  EventsTyped' /\ EventsFit'
<1>1. PICK row : row = [shot |-> s, value |-> v, source |-> None, live |-> TRUE]
  OBVIOUS
<1>2. events' = With(events, x, row) /\ x \notin DOMAIN events /\ UNCHANGED duration
  BY <1>1 DEF CreateEvent
<1>3. /\ DOMAIN events' = DOMAIN events \cup {x} /\ events'[x] = row
      /\ \A y \in DOMAIN events : events'[y] = events[y]
  BY <1>2 DEF With
<1>4. /\ row.shot = s /\ row.value = v /\ row.live
      /\ EventRow(row)
  BY <1>1 DEF EventRow
<1>5. EventsTyped'
  <2>1. \A y \in DOMAIN events' : EventRow(events'[y])
    BY <1>3, <1>4 DEF EventsTyped
  <2> QED
    BY <1>2, <2>1 DEF EventsTyped, EventRow
<1>6. Live(events') = Live(events) \cup {x}
  BY <1>3, <1>4 DEF Live
<1>7. \A y \in Live(events) : y # x /\ events'[y] = events[y]
  BY <1>2, <1>3 DEF Live
<1>8. v.time \in 1..(duration[s] - 1)
  BY DEF CreateEvent, Prospective
<1>9. \A y \in Live(events) : events[y].shot = s => /\ events[y].value.time # v.time
                                                   /\ events[y].value.time \in 1..(duration[s] - 1)
  BY DEF CreateEvent, EventsOf, EventsFit
<1>10. \A y \in Live(events') : events'[y].shot = s => events'[y].value.time \in 1..(duration[s] - 1)
  BY <1>3, <1>4, <1>6, <1>7, <1>8, <1>9
<1>11. \A y, z \in Live(events') : events'[y].shot = s /\ events'[z].shot = s
                                        /\ events'[y].value.time = events'[z].value.time => y = z
  BY <1>3, <1>4, <1>6, <1>7, <1>9 DEF EventsFit
<1>12. \A y \in Live(events') : events'[y].shot # s =>
               y \in Live(events) /\ events'[y].shot = events[y].shot /\ events'[y].value = events[y].value
  BY <1>3, <1>4, <1>6, <1>7
<1> QED
  BY <1>2, <1>5, <1>10, <1>11, <1>12, FitKeeps

\* An event whose value is replaced by one that fits.
LEMMA ValueChangeKeeps ==
    ASSUME EventsTyped, EventsFit, NEW x \in Live(events), NEW v \in EventValue, NEW source, UNCHANGED duration,
           DOMAIN events' = DOMAIN events, \A y \in DOMAIN events : y # x => events'[y] = events[y],
           events'[x] = [shot |-> events[x].shot, value |-> v, source |-> source, live |-> TRUE],
           v.time \in 1..(duration[events[x].shot] - 1),
           \A u \in Others(x) : u.time # v.time
    PROVE  EventsTyped' /\ EventsFit'
<1>0. PICK s \in Shot : s = events[x].shot
  BY DEF EventsTyped, EventRow, Live
<1>1. PICK row : row = [shot |-> s, value |-> v, source |-> source, live |-> TRUE]
  OBVIOUS
<1>2. x \in DOMAIN events /\ events'[x] = row
  BY <1>0, <1>1 DEF Live
<1>3. /\ DOMAIN events' = DOMAIN events /\ events'[x] = row
      /\ \A y \in DOMAIN events : y # x => events'[y] = events[y]
  BY <1>2
<1>4. /\ row.shot = s /\ row.value = v /\ row.live /\ EventRow(row)
  BY <1>1 DEF EventRow
<1>5. EventsTyped'
  <2>1. \A y \in DOMAIN events' : EventRow(events'[y])
    BY <1>3, <1>4 DEF EventsTyped
  <2> QED
    BY <2>1 DEF EventsTyped, EventRow
<1>6. Live(events') = Live(events)
  BY <1>2, <1>3, <1>4 DEF Live
<1>7. \A y \in Live(events) : y # x => events'[y] = events[y]
  BY <1>3 DEF Live
<1>8. \A y \in Live(events) : y # x /\ events[y].shot = s => /\ events[y].value.time # v.time
                                                   /\ events[y].value.time \in 1..(duration[s] - 1)
  BY <1>0 DEF Others, EventsOf, EventsFit
<1>9. \A y \in Live(events') : events'[y].shot = s => events'[y].value.time \in 1..(duration[s] - 1)
  BY <1>0, <1>3, <1>4, <1>6, <1>7, <1>8
<1>10. \A y, z \in Live(events') : events'[y].shot = s /\ events'[z].shot = s
                                        /\ events'[y].value.time = events'[z].value.time => y = z
  BY <1>3, <1>4, <1>6, <1>7, <1>8 DEF EventsFit
<1>11. \A y \in Live(events') : events'[y].shot # s =>
               y \in Live(events) /\ events'[y].shot = events[y].shot /\ events'[y].value = events[y].value
  BY <1>3, <1>4, <1>6, <1>7
<1> QED
  BY <1>5, <1>9, <1>10, <1>11, FitKeeps

\* Every operation on events keeps them typed, inside their shots and apart.
LEMMA EventKeeps ==
    ASSUME EventsTyped, EventsFit, EventStep
    PROVE  EventsTyped' /\ EventsFit'
<1>1. CASE \E x \in Event, s \in Shot, v \in EventValue : CreateEvent(x, s, v)
  BY <1>1, CreateEventKeeps
<1>2. ASSUME NEW x, NEW v \in EventValue, PatchEvent(x, v) PROVE EventsTyped' /\ EventsFit'
  <2>1. x \in Live(events) /\ x \in DOMAIN events /\ UNCHANGED duration
    BY <1>2 DEF PatchEvent, Live
  <2>2. PICK r : r = events[x]
    OBVIOUS
  <2>3. EventRow(r) /\ r.live
    BY <2>1, <2>2 DEF EventsTyped, Live
  <2>4. [[r EXCEPT !.value = v] EXCEPT !.source = None]
            = [shot |-> r.shot, value |-> v, source |-> None, live |-> TRUE]
    <3>1. PICK q : q = [r EXCEPT !.value = v]
      OBVIOUS
    <3>2. q = [shot |-> r.shot, value |-> v, source |-> r.source, live |-> r.live]
      BY <2>3, <3>1 DEF EventRow
    <3>3. r.live = TRUE
      BY <2>3 DEF EventRow
    <3>4. [q EXCEPT !.source = None] = [shot |-> r.shot, value |-> v, source |-> None, live |-> r.live]
      BY <3>2
    <3> QED
      BY <3>1, <3>3, <3>4
  <2>5. /\ DOMAIN events' = DOMAIN events /\ \A y \in DOMAIN events : y # x => events'[y] = events[y]
        /\ events'[x] = [[r EXCEPT !.value = v] EXCEPT !.source = None]
    <3>1. PICK mid : mid = [events EXCEPT ![x].value = v]
      OBVIOUS
    <3>2. /\ DOMAIN mid = DOMAIN events /\ mid[x] = [r EXCEPT !.value = v]
          /\ \A y \in DOMAIN events : y # x => mid[y] = events[y]
      BY <2>1, <2>2, <3>1
    <3>3. events' = [mid EXCEPT ![x].source = None]
      BY <1>2, <3>1 DEF PatchEvent
    <3> QED
      BY <2>1, <3>2, <3>3
  <2>6. events'[x] = [shot |-> events[x].shot, value |-> v, source |-> None, live |-> TRUE]
    BY <2>2, <2>4, <2>5
  <2>7. v.time \in 1..(duration[events[x].shot] - 1) /\ \A u \in Others(x) : u.time # v.time
    BY <1>2 DEF PatchEvent, Prospective
  <2>8. DOMAIN events' = DOMAIN events /\ \A y \in DOMAIN events : y # x => events'[y] = events[y]
    BY <2>5
  <2> HIDE DEF EventsTyped, EventsFit
  <2> QED
    BY <1>2, <2>1, <2>6, <2>7, <2>8, ValueChangeKeeps
<1>3. ASSUME NEW x, DeleteEvent(x) PROVE EventsTyped' /\ EventsFit'
  <2>1. x \in DOMAIN events /\ events' = Tombstone(events, x) /\ UNCHANGED duration
    BY <1>3 DEF DeleteEvent, Live
  <2>2. PICK r : r = events[x]
    OBVIOUS
  <2>3. EventRow(r)
    BY <2>1, <2>2 DEF EventsTyped
  <2>4. PICK row : row = [r EXCEPT !.live = FALSE]
    OBVIOUS
  <2>5. EventRow(row) /\ ~row.live
    BY <2>3, <2>4 DEF EventRow
  <2>6. events' = [events EXCEPT ![x] = row]
    BY <2>1, <2>2, <2>4 DEF Tombstone
  <2>7. /\ DOMAIN events' = DOMAIN events /\ events'[x] = row
        /\ \A y \in DOMAIN events : y # x => events'[y] = events[y]
    BY <2>1, <2>6
  <2>8. \A y \in Live(events') : y \in Live(events) /\ events'[y] = events[y]
    BY <2>5, <2>7 DEF Live
  <2>9. EventsTyped'
    <3>1. \A y \in DOMAIN events' : EventRow(events'[y])
      BY <2>5, <2>7 DEF EventsTyped
    <3> QED
      BY <2>1, <3>1 DEF EventsTyped, EventRow
  <2>10. EventsFit'
    BY <2>1, <2>8 DEF EventsFit
  <2> QED
    BY <2>9, <2>10
<1>4. ASSUME NEW s \in Shot, NEW d \in Durations, SetDuration(s, d) PROVE EventsTyped' /\ EventsFit'
  <2>1. UNCHANGED events /\ d \in Nat /\ duration' = [duration EXCEPT ![s] = d]
    BY <1>4 DEF SetDuration
  <2>2. duration' \in [Shot -> Nat] /\ duration'[s] = d /\ \A u \in Shot : u # s => duration'[u] = duration[u]
    BY <2>1 DEF EventsTyped
  <2>3. EventsTyped'
    BY <2>1, <2>2 DEF EventsTyped, EventRow
  <2>4. \A x \in Live(events) : events[x].shot \in Shot
    BY DEF EventsTyped, EventRow, Live
  <2>5. \A x \in Live(events) : events[x].shot = s => events[x].value.time < d
    BY <1>4 DEF SetDuration, ValuesOf, EventsOf
  <2>6. \A x \in Live(events) : events[x].value.time \in 1..(duration'[events[x].shot] - 1)
    <3> SUFFICES ASSUME NEW x \in Live(events) PROVE events[x].value.time \in 1..(duration'[events[x].shot] - 1)
      OBVIOUS
    <3>1. events[x].value.time \in 1..(duration[events[x].shot] - 1) /\ duration[events[x].shot] \in Nat
      BY <2>4 DEF EventsFit, EventsTyped
    <3>2. CASE events[x].shot = s
      BY <2>1, <2>2, <2>5, <3>1, <3>2
    <3>3. CASE events[x].shot # s
      BY <2>2, <2>4, <3>1, <3>3
    <3> QED
      BY <3>2, <3>3
  <2> QED
    BY <2>1, <2>3, <2>6 DEF EventsFit
<1> QED
  BY <1>1, <1>2, <1>3, <1>4 DEF EventStep

\* The inductive invariant holds of an empty project.
LEMMA IntraBegins == IntraInit => IntraInv
<1> SUFFICES ASSUME IntraInit PROVE IntraInv
  OBVIOUS
<1>1. SpatialInv /\ transitions = {}
  BY SpatialBegins DEF IntraInit, InstanceInit, SpatialInit, ContinuityInit, NarrativeInit
<1>2. events = << >> /\ duration = [s \in Shot |-> 0]
  BY DEF IntraInit
<1> QED
  BY <1>1, <1>2, NoRows DEF IntraInv, RelationStates, Active, EventsTyped, EventsFit

\* Every step of the events, and of all below them, keeps the inductive invariant.
LEMMA IntraKeeps == IntraInv /\ [IntraStep]_intraVars => IntraInv'
<1> SUFFICES ASSUME IntraInv, [IntraStep]_intraVars PROVE IntraInv'
  OBVIOUS
<1>1. CASE [InstanceStep]_instanceVars /\ UNCHANGED intraOnly
  <2>1. SpatialInv' /\ RelationStates'
    BY <1>1, InstanceKeeps, InstanceKeepsRelationStates DEF IntraInv
  <2>2. EventsTyped' /\ EventsFit'
    BY <1>1 DEF IntraInv, intraOnly, EventsTyped, EventRow, EventsFit
  <2> QED
    BY <2>1, <2>2 DEF IntraInv
<1>2. CASE EventStep
  <2>1. KeepTransitions
    BY <1>2 DEF EventStep, CreateEvent, PatchEvent, DeleteEvent, SetDuration
  <2>2. UNCHANGED instanceVars
    BY <2>1 DEF KeepTransitions, instanceVars, spatialVars, continuityVars
  <2>3. SpatialInv' /\ RelationStates'
    BY <2>2, InstanceKeeps, InstanceKeepsRelationStates DEF IntraInv
  <2> QED
    BY <1>2, <2>3, EventKeeps DEF IntraInv
<1> QED
  BY <1>1, <1>2 DEF IntraStep, intraVars

-----------------------------------------------------------------------------
(* What holds at a shot.                                                   *)

\* In the stream no two rows of an owner are equally late.
LEMMA OneWinner ==
    ASSUME ContinuityInv, NEW s, NEW rows \in SUBSET Active, NEW family,
           \A t \in rows : t.family = family /\ t.anchor \in BoundarySet
    PROVE  \A t, u \in Winners(rows, s) : t.owner = u.owner => t = u
<1> SUFFICES ASSUME NEW t \in Winners(rows, s), NEW u \in Winners(rows, s), t.owner = u.owner
             PROVE  t = u
  OBVIOUS
<1>1. /\ Boundaries \in Seq(StreamItems) /\ IsInjective(Boundaries)
      /\ ToSet(Boundaries) = BoundarySet
  BY TopologyHolds, StreamHolds DEF OrderingSound, ContinuityInv
<1>2. t \in rows /\ u \in rows
  BY DEF Winners, WinnersIn, LatestOfOwner, Eligible
<1>3. PICK i, j : i = RankIn(Boundaries, t.anchor) /\ j = RankIn(Boundaries, u.anchor)
  OBVIOUS
<1>4. /\ i \in 1..Len(Boundaries) /\ Boundaries[i] = t.anchor
      /\ j \in 1..Len(Boundaries) /\ Boundaries[j] = u.anchor
  BY <1>1, <1>2, <1>3, RankHolds
<1>5. i <= j /\ j <= i
  BY <1>3 DEF Winners, WinnersIn, LatestOfOwner
<1>6. Len(Boundaries) \in Nat
  BY <1>1, LenProperties
<1>7. t.anchor = u.anchor
  BY <1>4, <1>5, <1>6
<1> QED
  BY <1>2, <1>7 DEF ContinuityInv, TransitionsInv, WinnerUnique

\* Instances that are ready are resolved in the stream.
LEMMA ReadyInstances ==
    ASSUME ContinuityInv, NEW s, InstanceReady(s), Assigned(s), NEW t \in InstanceFeatureRows
    PROVE  t.anchor \in BoundarySet
<1>1. ~Unresolvable(InstanceFeatureRows \cup InstanceStagingRows(selection[s].state[1]))
  BY DEF InstanceReady, InstanceIssues
<1>2. t.anchor \in ToSet(Boundaries)
  BY <1>1 DEF Unresolvable
<1> QED
  BY <1>2, TopologyHolds, StreamHolds DEF OrderingSound, ContinuityInv

\* The rows a target's state is told by are of one family and in the stream.
LEMMA TargetRows ==
    ASSUME ContinuityInv, NEW s, NEW target, target.kind \in Kinds, TargetValid(s, target), Assigned(s),
           NEW t \in Active, t.family = target.kind, t.owner = target.id
    PROVE  t.anchor \in BoundarySet
<1>1. CASE target.kind \in GuardedFamilies
  BY <1>1 DEF ContinuityInv, TransitionsInv, AnchorsHold
<1>2. CASE target.kind = "instance_feature"
  <2>1. target.id \in Live(instances) /\ InstanceReady(s)
    BY <1>2 DEF TargetValid
  <2>2. t \in InstanceFeatureRows
    BY <1>2, <2>1 DEF InstanceFeatureRows
  <2> QED
    BY <2>1, <2>2, ReadyInstances
<1> QED
  BY <1>1, <1>2 DEF Kinds, GuardedFamilies

\* The end of a placed shot is a boundary of the stream.
LEMMA ShotEnds ==
    ASSUME ContinuityInv, NEW s \in Live(shots), Assigned(s)
    PROVE  EndOfShot(s) \in BoundarySet
<1>1. s \in Placed
  BY DEF Placed, Assigned
<1>2. EndOfShot(s) \in Ends("shot", s)
  BY DEF EndOfShot, Ends
<1> QED
  BY <1>1, <1>2 DEF BoundarySet

\* The values of a shot's active events are event values.
LEMMA EventsOfShot ==
    ASSUME IntraInv, NEW s
    PROVE  ValuesOf(s) \subseteq EventValue
BY DEF IntraInv, EventsTyped, EventRow, ValuesOf, EventsOf, Live

\* What an event value is about and says.
LEMMA EventTarget ==
    ASSUME NEW v \in EventValue
    PROVE  /\ v.target.kind \in Kinds /\ v.before \in StatesOfKind(v.target.kind)
           /\ v.after \in StatesOfKind(v.target.kind) /\ v.mode \in Modes /\ v.time \in Nat
BY DEF EventValue

\* What is handed off is what the story tells right after the shot.
LEMMA HandoffsCarry == IntraInv => HandoffCarries
<1> DEFINE rows(v) == {t \in Active : t.family = v.target.kind /\ t.owner = v.target.id}
           upTo(s, v) == {t \in rows(v) : RankIn(Boundaries, t.anchor) <= RankIn(Boundaries, EndOfShot(s))}
           last(s, v) == {t \in upTo(s, v) : \A u \in upTo(s, v) :
                             RankIn(Boundaries, u.anchor) <= RankIn(Boundaries, t.anchor)}
<1> SUFFICES ASSUME IntraInv, NEW s \in Live(shots), Assigned(s), IntraReady(s),
                    NEW v \in Persistent(ValuesOf(s))
             PROVE  {t.value : t \in last(s, v)} = {v.after}
  BY Zenon DEF HandoffCarries
<1>0. ContinuityInv
  BY DEF IntraInv, SpatialInv
<1>1. /\ Boundaries \in Seq(StreamItems) /\ IsInjective(Boundaries)
      /\ ToSet(Boundaries) = BoundarySet
  BY <1>0, TopologyHolds, StreamHolds DEF OrderingSound, ContinuityInv
<1>2. v \in ValuesOf(s) /\ TargetValid(s, v.target) /\ v.target.kind \in Kinds
  <2>1. v \in ValuesOf(s)
    BY DEF Persistent
  <2>2. v \in EventValue
    BY <2>1, EventsOfShot
  <2> QED
    BY <2>1, <2>2, EventTarget DEF IntraReady, Prospective
<1>3. \A t \in rows(v) : t.anchor \in BoundarySet
  BY <1>0, <1>2, TargetRows
<1>4. PICK h \in HandoffRows(s, v.target) : h.value = v.after
  BY DEF IntraReady, HandoffMatches
<1>5. h \in rows(v) /\ h.anchor = EndOfShot(s)
  BY <1>4 DEF HandoffRows
<1>6. PICK n : n = RankIn(Boundaries, EndOfShot(s))
  OBVIOUS
<1>7. n \in 1..Len(Boundaries) /\ Boundaries[n] = EndOfShot(s) /\ Len(Boundaries) \in Nat
  BY <1>0, <1>1, <1>6, ShotEnds, RankHolds, LenProperties
<1>8. h \in last(s, v)
  BY <1>5, <1>6, <1>7
<1>9. ASSUME NEW t \in last(s, v) PROVE t = h
  <2>1. t \in rows(v) /\ t.anchor \in ToSet(Boundaries)
    BY <1>1, <1>3
  <2>2. PICK m : m = RankIn(Boundaries, t.anchor)
    OBVIOUS
  <2>3. m \in 1..Len(Boundaries) /\ Boundaries[m] = t.anchor
    BY <1>1, <2>1, <2>2, RankHolds
  <2>4. m <= n /\ n <= m
    BY <1>5, <1>6, <1>7, <1>8, <2>2
  <2>5. t.anchor = h.anchor
    BY <1>5, <1>7, <2>3, <2>4
  <2>6. t \in Active /\ h \in Active /\ t.family = h.family /\ t.owner = h.owner
    BY <1>5, <2>1
  <2> QED
    BY <1>0, <2>5, <2>6 DEF ContinuityInv, TransitionsInv, WinnerUnique
<1> QED
  BY <1>4, <1>8, <1>9

-----------------------------------------------------------------------------
(* What is captured is what the events start from.                         *)

\* One row for each owner: looking it up by owner and value is looking it up.
LEMMA PairOfRow ==
    ASSUME NEW rows, \A t, u \in rows : t.owner = u.owner => t = u, NEW value, NEW target,
           CapturedRows(value, target) = {<<t.owner, t.value>> : t \in rows}
    PROVE  CapturedStart(value, target) = ValueOrClear({t \in rows : t.owner = target.id})
<1>0. PICK mine : mine = {r \in CapturedRows(value, target) : r[1] = target.id}
  OBVIOUS
<1>1. PICK R : R = {t \in rows : t.owner = target.id}
  OBVIOUS
<1>2. mine = {<<target.id, t.value>> : t \in R}
  BY <1>0, <1>1
<1>3. CapturedStart(value, target) = IF mine = {} THEN Clear ELSE (CHOOSE r \in mine : TRUE)[2]
  BY <1>0 DEF CapturedStart
<1>4. CASE R = {}
  BY <1>1, <1>2, <1>3, <1>4 DEF ValueOrClear
<1>5. CASE R # {}
  <2>1. PICK t \in R : TRUE
    BY <1>5
  <2>2. R = {t} /\ mine = {<<target.id, t.value>>}
    BY <1>1, <1>2, <2>1
  <2>3. (CHOOSE r \in mine : TRUE) = <<target.id, t.value>> /\ (CHOOSE u \in R : TRUE) = t
    BY <2>2
  <2>4. mine # {}
    BY <2>2
  <2>5. CapturedStart(value, target) = <<target.id, t.value>>[2]
    BY <1>3, <2>3, <2>4
  <2>6. ValueOrClear(R) = t.value
    BY <1>5, <2>3 DEF ValueOrClear
  <2> QED
    BY <1>1, <2>5, <2>6
<1> QED
  BY <1>4, <1>5

\* The feature rows effective at a shot are active rows of its entities, one per feature.
LEMMA FeatureWinners ==
    ASSUME ContinuityInv, NEW s
    PROVE  /\ EffectiveFeatures(s) \subseteq FeatureRows(s)
           /\ \A t, u \in EffectiveFeatures(s) : t.owner = u.owner => t = u
<1>1. \A t \in FeatureRows(s) : t.family = "feature" /\ t.anchor \in BoundarySet
  BY DEF FeatureRows, GuardedFamilies, ContinuityInv, TransitionsInv, AnchorsHold
<1>2. FeatureRows(s) \in SUBSET Active
  BY DEF FeatureRows
<1>3. \A t, u \in Winners(FeatureRows(s), s) : t.owner = u.owner => t = u
  BY <1>1, <1>2, OneWinner
<1>4. Winners(FeatureRows(s), s) \subseteq FeatureRows(s)
  BY DEF Winners, WinnersIn, LatestOfOwner, Eligible
<1> QED
  BY <1>3, <1>4 DEF EffectiveFeatures

\* The relation rows effective at a shot are active and bind its entities, one per relation.
LEMMA RelationWinners ==
    ASSUME ContinuityInv, NEW s
    PROVE  /\ EffectiveRelations(s) \subseteq RelationRows(s)
           /\ \A t \in EffectiveRelations(s) : t.value # Clear /\ BothEnds(t, s)
           /\ \A t, u \in EffectiveRelations(s) : t.owner = u.owner => t = u
<1>1. \A t \in RelationRows(s) : t.family = "relation" /\ t.anchor \in BoundarySet
  BY DEF RelationRows, GuardedFamilies, ContinuityInv, TransitionsInv, AnchorsHold
<1>2. RelationRows(s) \in SUBSET Active
  BY DEF RelationRows
<1>3. \A t, u \in Winners(RelationRows(s), s) : t.owner = u.owner => t = u
  BY <1>1, <1>2, OneWinner
<1>4. Winners(RelationRows(s), s) \subseteq RelationRows(s)
  BY DEF Winners, WinnersIn, LatestOfOwner, Eligible
<1> QED
  BY <1>3, <1>4 DEF EffectiveRelations, ActiveWinners

\* The instance rows effective at a shot are one per instance feature.
LEMMA InstanceWinners ==
    ASSUME ContinuityInv, NEW s, InstanceReady(s)
    PROVE  \A t, u \in EffectiveInstanceFeatures(s) : t.owner = u.owner => t = u
<1>1. CASE Assigned(s)
  <2>1. \A t \in InstanceFeatureRows : t.family = "instance_feature" /\ t.anchor \in BoundarySet
    BY <1>1, ReadyInstances DEF InstanceFeatureRows
  <2>2. InstanceFeatureRows \in SUBSET Active
    BY DEF InstanceFeatureRows
  <2>3. \A t, u \in Winners(InstanceFeatureRows, s) : t.owner = u.owner => t = u
    BY <2>1, <2>2, OneWinner
  <2> QED
    BY <2>3 DEF EffectiveInstanceFeatures
<1>2. CASE ~Assigned(s)
  BY <1>2 DEF EffectiveInstanceFeatures
<1> QED
  BY <1>1, <1>2

\* The reader of a stored value finds the start state the writer found.
LEMMA StartIsCaptured ==
    ASSUME IntraInv, NEW s, NEW target, target.kind \in Kinds, TargetValid(s, target)
    PROVE  CapturedStart(BuildSnapshot(s), target) = StartState(s, target)
<1>0. ContinuityInv
  BY DEF IntraInv, SpatialInv
<1>1. PICK value : value = BuildSnapshot(s)
  OBVIOUS
<1>2. /\ value.features = CapturedFeatures(s) /\ value.relations = CapturedRelations(s)
      /\ value.production = InstancePack(s)
  BY <1>1 DEF BuildSnapshot
<1>3. CASE target.kind = "feature"
  <2>1. PICK rows : rows = EffectiveFeatures(s)
    OBVIOUS
  <2>2. {<<f.owner, f.value>> : f \in value.features} = {<<t.owner, t.value>> : t \in rows}
    <3>1. ASSUME NEW t \in rows PROVE \E f \in value.features : f.owner = t.owner /\ f.value = t.value
      <4>1. PICK f : f = [owner |-> t.owner, entity |-> features[t.owner].entity, value |-> t.value,
                          anchor |-> t.anchor]
        OBVIOUS
      <4>2. f \in value.features /\ f.owner = t.owner /\ f.value = t.value
        BY <1>2, <2>1, <4>1 DEF CapturedFeatures
      <4> QED
        BY <4>2
    <3>2. ASSUME NEW f \in value.features PROVE \E t \in rows : f.owner = t.owner /\ f.value = t.value
      BY <1>2, <2>1 DEF CapturedFeatures
    <3> QED
      BY <3>1, <3>2
  <2>3. CapturedRows(value, target) = {<<t.owner, t.value>> : t \in rows}
    BY <1>3, <2>2 DEF CapturedRows
  <2>4. StartState(s, target) = ValueOrClear({t \in rows : t.owner = target.id})
    BY <1>3, <2>1 DEF StartState, StartRows
  <2>5. \A t, u \in rows : t.owner = u.owner => t = u
    BY <1>0, <2>1, FeatureWinners
  <2> QED
    BY <1>1, <2>3, <2>4, <2>5, PairOfRow
<1>4. CASE target.kind = "relation"
  <2>1. PICK rows : rows = EffectiveRelations(s)
    OBVIOUS
  <2>2. {<<r.owner, "active">> : r \in value.relations} = {<<t.owner, t.value>> : t \in rows}
    <3>1. \A t \in rows : t.value = "active"
      BY <1>0, <2>1, RelationWinners DEF RelationRows, IntraInv, RelationStates
    <3>2. ASSUME NEW t \in rows PROVE \E r \in value.relations : r.owner = t.owner
      <4>1. PICK r : r = [owner |-> t.owner, subject |-> relations[t.owner].subject,
                          object |-> relations[t.owner].object, anchor |-> t.anchor]
        OBVIOUS
      <4>2. r \in value.relations /\ r.owner = t.owner
        BY <1>2, <2>1, <4>1 DEF CapturedRelations
      <4> QED
        BY <4>2
    <3>3. ASSUME NEW r \in value.relations PROVE \E t \in rows : r.owner = t.owner
      BY <1>2, <2>1 DEF CapturedRelations
    <3> QED
      BY <3>1, <3>2, <3>3
  <2>3. CapturedRows(value, target) = {<<t.owner, t.value>> : t \in rows}
    BY <1>4, <2>2 DEF CapturedRows
  <2>4. StartState(s, target) = ValueOrClear({t \in rows : t.owner = target.id})
    BY <1>4, <2>1 DEF StartState, StartRows
  <2>5. \A t, u \in rows : t.owner = u.owner => t = u
    BY <1>0, <2>1, RelationWinners
  <2> QED
    BY <1>1, <2>3, <2>4, <2>5, PairOfRow
<1>5. CASE target.kind = "instance_feature"
  <2>1. InstanceReady(s) /\ selection[s] # None
    BY <1>5 DEF TargetValid, InstanceReady
  <2>2. PICK rows : rows = EffectiveInstanceFeatures(s)
    OBVIOUS
  <2>3. {<<f[1], f[2]>> : f \in value.production.features} = {<<t.owner, t.value>> : t \in rows}
    <3>1. value.production.features = {<<t.owner, t.value, t.anchor>> : t \in rows}
      BY <1>2, <2>1, <2>2 DEF InstancePack
    <3>2. ASSUME NEW t \in rows PROVE \E f \in value.production.features : f[1] = t.owner /\ f[2] = t.value
      <4>1. PICK f : f = <<t.owner, t.value, t.anchor>>
        OBVIOUS
      <4>2. f \in value.production.features /\ f[1] = t.owner /\ f[2] = t.value
        BY <3>1, <4>1
      <4> QED
        BY <4>2
    <3>3. ASSUME NEW f \in value.production.features PROVE \E t \in rows : f[1] = t.owner /\ f[2] = t.value
      BY <3>1
    <3> QED
      BY <3>2, <3>3
  <2>4. CapturedRows(value, target) = {<<t.owner, t.value>> : t \in rows}
    BY <1>5, <2>3 DEF CapturedRows
  <2>5. StartState(s, target) = ValueOrClear({t \in rows : t.owner = target.id})
    BY <1>5, <2>2 DEF StartState, StartRows
  <2>6. \A t, u \in rows : t.owner = u.owner => t = u
    BY <1>0, <2>1, <2>2, InstanceWinners
  <2> QED
    BY <1>1, <2>4, <2>5, <2>6, PairOfRow
<1> QED
  BY <1>3, <1>4, <1>5 DEF Kinds

-----------------------------------------------------------------------------
(* Shot revisions.                                                         *)

USE CaptureAssumption DEF CaptureAssumption

\* Its parts belong together.
Coherent(v) ==
    LET of == {d.entity : d \in v.deps}
    IN /\ \A f \in v.features : f.entity \in of
       /\ \A x \in v.relations : {x.subject, x.object} \subseteq of
       /\ v.spatial # None => /\ v.spatial.world \in DOMAIN worlds
                              /\ \E d \in v.deps : /\ d.entity = worlds[v.spatial.world].location
                                                   /\ d.revision = v.spatial.state[2]
       /\ v.production.binding # None => /\ v.spatial # None
                                         /\ v.production.binding.state = v.spatial.state
                                         /\ v.production.binding.number = v.spatial.revision

\* A record of a shot and a value that was captured of it.
Captured(x) == x.shot \in DOMAIN shots /\ Coherent(x.value) /\ VerifyHistory(x)

\* The revisions of a shot, in a row without twins.
InARow(R) ==
    /\ IsFiniteSet(R) /\ {r.number : r \in R} = 1..Cardinality(R)
    /\ \A r, q \in R : r.number = q.number \/ r.value = q.value => r = q

CapturesKept ==
    /\ DOMAIN reads = Clients
    /\ \A k \in Clients : reads[k].step = "read" => Captured(reads[k])
    /\ IsFiniteSet(shotRevs)
    /\ \A r \in shotRevs : Captured(r) /\ r.number \in 1..MaxShotRevs
    /\ \A s \in DOMAIN shots : InARow(RevisionsOf(s))

CaptureInv == IntraInv /\ CapturesKept

\* A world keeps its location.
WorldsStay ==
    DOMAIN worlds \subseteq DOMAIN worlds' /\ \A w \in DOMAIN worlds : worlds'[w].location = worlds[w].location

\* No operation on geometry moves a world to another location.
LEMMA GeometryKeepsWorlds ==
    ASSUME GeometryInv, GeometryStep
    PROVE  WorldsStay
<1>0. worlds \in [DOMAIN worlds -> WorldRow]
  BY DEF GeometryInv, GeometryTyped
<1>1. CASE UNCHANGED worlds
  BY <1>1 DEF WorldsStay
<1>2. ASSUME NEW w, NEW e, NEW b, CreateWorld(w, e, b) PROVE WorldsStay
  BY <1>2 DEF CreateWorld, With, WorldsStay
<1>3. ASSUME NEW w, NEW b \in BOOLEAN, PatchWorld(w, b) PROVE WorldsStay
  <2>1. PICK row : row = [worlds[w] EXCEPT !.required = b]
    OBVIOUS
  <2>2. w \in DOMAIN worlds /\ worlds' = [worlds EXCEPT ![w] = row]
    BY <1>3, <2>1 DEF PatchWorld, Live
  <2>3. row.location = worlds[w].location
    BY <1>0, <2>1, <2>2 DEF WorldRow
  <2> QED
    BY <2>2, <2>3 DEF WorldsStay
<1>4. ASSUME NEW w, DeleteWorld(w) PROVE WorldsStay
  <2>1. PICK row : row = [worlds[w] EXCEPT !.live = FALSE]
    OBVIOUS
  <2>2. w \in DOMAIN worlds /\ worlds' = [worlds EXCEPT ![w] = row]
    BY <1>4, <2>1 DEF DeleteWorld, Live, Tombstone
  <2>3. row.location = worlds[w].location
    BY <1>0, <2>1, <2>2 DEF WorldRow
  <2> QED
    BY <2>2, <2>3 DEF WorldsStay
<1>5. \/ UNCHANGED worlds
      \/ \E w \in World, e \in Entity, b \in BOOLEAN : CreateWorld(w, e, b) \/ PatchWorld(w, b)
      \/ \E w \in World : DeleteWorld(w)
  BY ZenonT(60) DEF GeometryStep, CreateState, CreateFrame, PatchFrame, DeleteFrame, PutStateFrame, DeleteStateFrame,
     PutStateAxis, DeleteStateAxis, ApproveWorld, Unapprove, FreezeFrames, CreateAxis, DeleteAxis,
     FreezeAxes, CaptureWorld, KeepGeometry
<1> QED
  BY <1>1, <1>2, <1>3, <1>4, <1>5

\* Nothing below the captures drops a shot or moves a world.
LEMMA WorldsAndShotsStay ==
    ASSUME SpatialInv, [InstanceStep]_instanceVars
    PROVE  WorldsStay /\ DOMAIN shots \subseteq DOMAIN shots'
<1>1. ContinuityInv /\ GeometryInv
  BY DEF SpatialInv
<1>2. CASE [ContinuityStep]_continuityVars /\ UNCHANGED spatialOnly
  <2>1. UNCHANGED worlds
    BY <1>2 DEF spatialOnly, geometry
  <2> QED
    BY <1>1, <1>2, <2>1, ShotsAreKept DEF WorldsStay
<1>3. CASE GeometryStep
  <2>1. UNCHANGED continuityVars
    BY <1>3, GeometryTouchesNoStory
  <2> QED
    BY <1>1, <1>3, <2>1, GeometryKeepsWorlds, ShotsAreKept
<1>4. CASE StagingStep
  <2>1. UNCHANGED <<worlds, shots>>
    <3>1. CASE UNCHANGED <<continuityVars, geometry>>
      BY <3>1 DEF continuityVars, narrativeVars, geometry
    <3>2. CASE KeepStory /\ UNCHANGED spatialOnly
      BY <3>2 DEF KeepStory, narrativeVars, spatialOnly, geometry
    <3>3. UNCHANGED <<continuityVars, geometry>> \/ (KeepStory /\ UNCHANGED spatialOnly)
      BY <1>4, Zenon DEF StagingStep, CreateTrack, PatchTrack, DeleteTrack, DeleteSpatialPlan, PutSpatialPlan,
         CreateStaging, PatchStaging, DeleteStaging
    <3> QED
      BY <3>1, <3>2, <3>3
  <2> QED
    BY <2>1 DEF WorldsStay
<1>5. CASE InstanceChange
  <2>1. KeepSpatial
    BY <1>5, Zenon DEF InstanceChange, CreateInstanceFeature, DeleteInstanceFeature, CreateInstanceTrack,
     PatchInstanceTrack, DeleteInstanceTrack, CreateInstanceTransition, CreateInstanceStaging,
     DeleteInstanceTransition, DeleteInstanceStaging, PatchInstanceTransition, PatchInstanceStaging,
     BindingGoesStale, SelectBinding, KeepInstances
  <2>2. UNCHANGED <<worlds, shots>>
    BY <2>1 DEF KeepSpatial, narrativeVars, spatialOnly, geometry
  <2> QED
    BY <2>2 DEF WorldsStay
<1> QED
  BY <1>2, <1>3, <1>4, <1>5 DEF InstanceStep, SpatialStep, instanceVars, spatialVars

\* What was captured stays captured.
LEMMA CapturedStays ==
    ASSUME WorldsStay, DOMAIN shots \subseteq DOMAIN shots', NEW x, Captured(x)
    PROVE  Captured(x)'
<1>1. Coherent(x.value)'
  BY DEF Captured, Coherent, WorldsStay
<1> QED
  BY <1>1 DEF Captured

\* Only the shot and the value of a record count.
LEMMA CapturedAlike ==
    ASSUME NEW x, NEW y, Captured(x), y.shot = x.shot, y.value = x.value
    PROVE  Captured(y)
<1>1. VerifyHistory(y)
  BY DEF Captured, VerifyHistory, VerifyHandoff
<1> QED
  BY <1>1 DEF Captured

-----------------------------------------------------------------------------
(* What is read is captured.                                               *)

\* What is read passes the historical verifier: the captured rows give each chain the
\* start it was folded from.
LEMMA HistoryOfRead ==
    ASSUME IntraInv, NEW s, Capturable(s), NEW x, x.shot = s, x.value = BuildSnapshot(s)
    PROVE  VerifyHistory(x)
<1>1. PICK value : value = x.value
  OBVIOUS
<1>2. value.events = IntraPack(s) /\ value.production = InstancePack(s)
  BY <1>1 DEF BuildSnapshot
<1>3. EventValues(value) = ValuesOf(s)
  <2>1. ASSUME NEW v \in ValuesOf(s) PROVE \E p \in IntraPack(s) : p.value = v
    <3>1. PICK p : p = [value |-> v, handoff |-> IF v \in Persistent(ValuesOf(s))
                                  THEN [anchor |-> EndOfShot(s), value |-> v.after] ELSE None]
      OBVIOUS
    <3>2. p \in IntraPack(s) /\ p.value = v
      BY <3>1 DEF IntraPack
    <3> QED
      BY <3>2
  <2>2. \A p \in IntraPack(s) : p.value \in ValuesOf(s)
    BY DEF IntraPack
  <2> QED
    BY <1>2, <2>1, <2>2 DEF EventValues
<1>4. Prospective(s, ValuesOf(s))
  BY DEF Capturable, IntraReady
<1>5. ASSUME NEW v \in ValuesOf(s)
      PROVE  /\ Folds(ValuesOf(s), v, CapturedStart(value, v.target))
             /\ v.target.kind = "instance_feature" => value.production.binding # None
  <2>1. v.target.kind \in Kinds /\ TargetValid(s, v.target)
    BY <1>4, EventsOfShot, EventTarget DEF Prospective
  <2>2. CapturedStart(value, v.target) = StartState(s, v.target)
    BY <1>1, <2>1, StartIsCaptured
  <2>3. v.target.kind = "instance_feature" => selection[s] # None
    BY <2>1 DEF TargetValid, InstanceReady
  <2>4. value.production.binding = selection[s]
    BY <1>2 DEF InstancePack
  <2> QED
    BY <1>4, <2>2, <2>3, <2>4 DEF Prospective
<1>6. ASSUME NEW p \in IntraPack(s) PROVE VerifyHandoff(x, p)
  <2>1. PICK v \in ValuesOf(s) :
            p = [value |-> v, handoff |-> IF v \in Persistent(ValuesOf(s))
                               THEN [anchor |-> EndOfShot(s), value |-> v.after] ELSE None]
    BY DEF IntraPack
  <2>2. v \in Persistent(ValuesOf(s)) <=> v.mode = "require_handoff"
    BY <1>4 DEF Persistent, Prospective, Folds
  <2> QED
    BY <2>1, <2>2 DEF VerifyHandoff
<1> QED
  BY <1>1, <1>2, <1>3, <1>4, <1>5, <1>6, Zenon DEF VerifyHistory, Prospective

\* The pack of a staged shot is of a world at a dependency of the shot.
LEMMA PackIsLocated ==
    ASSUME IntraInv, NEW s, SpatialIssues(s) = {}, SpatialPack(s) # None
    PROVE  /\ SpatialPack(s).world \in DOMAIN worlds
           /\ worlds[SpatialPack(s).world].location \in DepEntities(s)
           /\ SpatialPack(s).state[2] = approved[worlds[SpatialPack(s).world].location]
<1>1. PICK w : w = SelectedWorld(s)
  OBVIOUS
<1>2. ~(RequiredWorlds(s) = {} /\ plans[s] = NoPlan)
  BY DEF SpatialPack
<1>3. PICK st : st = <<w, approved[worlds[w].location]>>
  OBVIOUS
<1>4. SpatialPack(s) = PackIn(s, w, st)
  BY <1>1, <1>2, <1>3 DEF SpatialPack
<1>5. SpatialPack(s).world = w /\ SpatialPack(s).state = st
  BY <1>4 DEF PackIn
<1>6. w \in Live(worlds) /\ worlds[w].location \in DepEntities(s)
  <2>1. CASE RequiredWorlds(s) # {}
    <3>1. w \in RequiredWorlds(s)
      BY <1>1, <2>1 DEF SelectedWorld
    <3> QED
      BY <3>1 DEF RequiredWorlds
  <2>2. CASE RequiredWorlds(s) = {}
    BY <1>1, <1>2, <2>2, FS_EmptySet DEF SpatialIssues, IssuesIn
  <2> QED
    BY <2>1, <2>2
<1> QED
  BY <1>3, <1>5, <1>6 DEF Live

\* What is read in one transaction belongs together.
LEMMA ReadIsCoherent ==
    ASSUME IntraInv, NEW s, Capturable(s)
    PROVE  Coherent(BuildSnapshot(s))
<1>0. ContinuityInv
  BY DEF IntraInv, SpatialInv
<1>1. PICK v : v = BuildSnapshot(s)
  OBVIOUS
<1>2. /\ v.deps = ResolvedDependencies(s) /\ v.features = CapturedFeatures(s)
      /\ v.relations = CapturedRelations(s) /\ v.spatial = SpatialPack(s)
      /\ v.production = InstancePack(s)
  BY <1>1 DEF BuildSnapshot
<1>3. ASSUME NEW e \in DepEntities(s) PROVE \E d \in v.deps : d.entity = e /\ d.revision = approved[e]
  <2>1. PICK q \in deps[s] : q.entity = e
    BY DEF DepEntities
  <2>2. PICK d : d = [entity |-> q.entity, role |-> q.role, revision |-> approved[q.entity]]
    OBVIOUS
  <2>3. d \in v.deps /\ d.entity = e /\ d.revision = approved[e]
    BY <1>2, <2>1, <2>2 DEF ResolvedDependencies
  <2> QED
    BY <2>3
<1>4. DepEntities(s) \subseteq {d.entity : d \in v.deps}
  BY <1>3
<1>5. \A f \in v.features : f.entity \in DepEntities(s)
  <2>1. \A t \in EffectiveFeatures(s) : features[t.owner].entity \in DepEntities(s)
    BY <1>0, FeatureWinners DEF FeatureRows
  <2> QED
    BY <1>2, <2>1 DEF CapturedFeatures
<1>6. \A x \in v.relations : {x.subject, x.object} \subseteq DepEntities(s)
  <2>1. \A t \in EffectiveRelations(s) : {relations[t.owner].subject, relations[t.owner].object} \subseteq DepEntities(s)
    BY <1>0, RelationWinners DEF BothEnds
  <2> QED
    BY <1>2, <2>1 DEF CapturedRelations
<1>7. SpatialIssues(s) = {} /\ InstanceIssues(s) = {}
  BY DEF Capturable
<1>8. v.spatial # None => /\ v.spatial.world \in DOMAIN worlds
                          /\ \E d \in v.deps : /\ d.entity = worlds[v.spatial.world].location
                                               /\ d.revision = v.spatial.state[2]
  BY <1>2, <1>3, <1>7, PackIsLocated
<1>9. v.production.binding # None => /\ v.spatial # None
                                     /\ v.production.binding.state = v.spatial.state
                                     /\ v.production.binding.number = v.spatial.revision
  <2>1. v.production.binding = selection[s]
    BY <1>2 DEF InstancePack
  <2>2. SUFFICES ASSUME selection[s] # None
                 PROVE  /\ SpatialPack(s) # None /\ selection[s].state = SpatialPack(s).state
                        /\ selection[s].number = SpatialPack(s).revision
    BY <1>2, <2>1
  <2>3. SpatialAgreement(selection[s], SpatialPack(s)) = {}
    BY <1>7, <2>2 DEF InstanceIssues
  <2> QED
    BY <2>3 DEF SpatialAgreement
<1> QED
  BY <1>1, <1>4, <1>5, <1>6, <1>8, <1>9 DEF Coherent

-----------------------------------------------------------------------------
(* Storing.                                                                *)

\* The next number of a row.
LEMMA NextNumber ==
    ASSUME NEW R, InARow(R)
    PROVE  /\ Cardinality(R) \in Nat
           /\ Max({0} \cup {r.number : r \in R}) = Cardinality(R)
<1>1. PICK n \in Nat : n = Cardinality(R)
  BY FS_CardinalityType DEF InARow
<1>2. {r.number : r \in R} = 1..n
  BY <1>1 DEF InARow
<1>3. {0} \cup {r.number : r \in R} = 0..n
  <2>1. {0} \cup (1..n) = 0..n
    OBVIOUS
  <2> QED
    BY <1>2, <2>1
<1>4. Max(0..n) = n
  <2>1. 0..n \in SUBSET Nat /\ 0..n # {} /\ n \in 0..n
    OBVIOUS
  <2>2. IsFiniteSet(0..n)
    BY FS_Interval
  <2>3. Max(0..n) \in 0..n /\ \A m \in 0..n : m <= Max(0..n)
    BY <2>1, <2>2, MaxIsGreatest
  <2> QED
    BY <2>1, <2>3
<1> QED
  BY <1>1, <1>3, <1>4

\* A row grows by what has its next number and a value of its own.
LEMMA RowGrows ==
    ASSUME NEW R, InARow(R), NEW new, new.number = 1 + Cardinality(R), \A r \in R : r.value # new.value
    PROVE  InARow(R \cup {new})
<1>1. PICK n \in Nat : n = Cardinality(R)
  BY FS_CardinalityType DEF InARow
<1>2. IsFiniteSet(R) /\ {r.number : r \in R} = 1..n
  BY <1>1 DEF InARow
<1>3. \A r \in R : r.number # n + 1
  BY <1>2
<1>4. new \notin R
  BY <1>1, <1>3
<1>5. IsFiniteSet(R \cup {new}) /\ Cardinality(R \cup {new}) = n + 1
  BY <1>1, <1>2, <1>4, FS_AddElement
<1>6. {r.number : r \in R \cup {new}} = 1..(n + 1)
  BY <1>1, <1>2
<1>7. ASSUME NEW r \in R \cup {new}, NEW q \in R \cup {new}, r.number = q.number \/ r.value = q.value
      PROVE  r = q
  <2>1. \A x \in R : x.number # new.number /\ x.value # new.value
    BY <1>1, <1>3
  <2>2. \A x, y \in R : x.number = y.number \/ x.value = y.value => x = y
    BY DEF InARow
  <2> QED
    BY <1>7, <2>1, <2>2
<1> QED
  BY <1>1, <1>5, <1>6, <1>7 DEF InARow

\* A client that reads a shot holds a captured value.
LEMMA ReadKeeps ==
    ASSUME CaptureInv, NEW k \in Clients, NEW s, ReadSnapshot(k, s)
    PROVE  CapturesKept'
<1>1. PICK x : x = [step |-> "read", shot |-> s, value |-> BuildSnapshot(s), sources |-> Sources(s)]
  OBVIOUS
<1>2. /\ reads' = [reads EXCEPT ![k] = x] /\ x.shot = s /\ x.value = BuildSnapshot(s) /\ Capturable(s)
  BY <1>1 DEF ReadSnapshot
<1>3. UNCHANGED <<shots, worlds, shotRevs>>
  BY DEF ReadSnapshot, intraVars, instanceVars, spatialVars, continuityVars, narrativeVars, spatialOnly, geometry
<1>4. Captured(x)
  BY <1>2, HistoryOfRead, ReadIsCoherent DEF CaptureInv, Captured, Capturable, Live
<1>5. \A y : Captured(y) => Captured(y)'
  BY <1>3, CapturedStays DEF WorldsStay
<1>6. DOMAIN reads' = Clients /\ reads'[k] = x /\ \A j \in Clients : j # k => reads'[j] = reads[j]
  BY <1>2 DEF CaptureInv, CapturesKept
<1>7. \A j \in Clients : reads'[j].step = "read" => Captured(reads[j])'
  BY <1>4, <1>5, <1>6 DEF CaptureInv, CapturesKept
<1> QED
  BY <1>3, <1>5, <1>6, <1>7 DEF CaptureInv, CapturesKept, RevisionsOf

\* Storing what was read adds the next revision of its shot, or converges.
LEMMA StoreKeeps ==
    ASSUME CaptureInv, NEW k \in Clients, PersistRevision(k) \/ RefuseReuse(k)
    PROVE  CapturesKept'
<1>1. PICK read : read = reads[k] /\ read.step = "read"
  BY DEF PersistRevision, RefuseReuse, Storing
<1>2. PICK s : s = read.shot
  OBVIOUS
<1>3. UNCHANGED <<shots, worlds>> /\ reads' = [reads EXCEPT ![k] = Unread]
  BY DEF PersistRevision, RefuseReuse, intraVars, instanceVars, spatialVars, continuityVars, narrativeVars,
     spatialOnly, geometry
<1>4. Captured(read) /\ s \in DOMAIN shots
  BY <1>1, <1>2 DEF CaptureInv, CapturesKept, Captured
<1>5. \A y : Captured(y) => Captured(y)'
  BY <1>3, CapturedStays DEF WorldsStay
<1>6. DOMAIN reads' = Clients /\ \A j \in Clients : reads'[j].step = "read" => reads'[j] = reads[j]
  BY <1>3 DEF CaptureInv, CapturesKept, Unread
<1>7. CASE shotRevs' = shotRevs
  BY <1>3, <1>5, <1>6, <1>7 DEF CaptureInv, CapturesKept, RevisionsOf
<1>8. CASE Known(read) = {} /\ shotRevs' = shotRevs \cup {NewRevision(read)} /\ Cardinality(shotRevs) < MaxShotRevs
  <2>1. PICK new : new = NewRevision(read)
    OBVIOUS
  <2>2. PICK R : R = RevisionsOf(s)
    OBVIOUS
  <2>3. InARow(R) /\ IsFiniteSet(shotRevs)
    BY <1>4, <2>2 DEF CaptureInv, CapturesKept
  <2>4. new.shot = s /\ new.value = read.value /\ new.number = 1 + Cardinality(R) /\ Cardinality(R) \in Nat
    BY <1>2, <2>1, <2>2, <2>3, NextNumber DEF NewRevision
  <2>5. \A r \in R : r.value # new.value
    BY <1>2, <1>8, <2>2, <2>4 DEF Known
  <2>6. InARow(R \cup {new})
    BY <2>3, <2>4, <2>5, RowGrows
  <2>7. shotRevs' = shotRevs \cup {new} /\ IsFiniteSet(shotRevs')
    BY <1>8, <2>1, <2>3, FS_AddElement
  <2>8. Captured(new)
    BY <1>2, <1>4, <2>4, CapturedAlike
  <2>9. new.number \in 1..MaxShotRevs
    <3>1. Cardinality(R) <= Cardinality(shotRevs) /\ Cardinality(shotRevs) \in Nat
      BY <2>2, <2>3, FS_Subset, FS_CardinalityType DEF RevisionsOf
    <3> QED
      BY <1>8, <2>4, <3>1
  <2>10. ASSUME NEW q \in DOMAIN shots' PROVE InARow(RevisionsOf(q)')
    <3>1. CASE q = s
      <4>1. RevisionsOf(q)' = R \cup {new}
        BY <2>2, <2>4, <2>7, <3>1 DEF RevisionsOf
      <4> QED
        BY <2>6, <4>1
    <3>2. CASE q # s
      <4>1. RevisionsOf(q)' = RevisionsOf(q)
        BY <2>4, <2>7, <3>2 DEF RevisionsOf
      <4> QED
        BY <1>3, <4>1 DEF CaptureInv, CapturesKept
    <3> QED
      BY <3>1, <3>2
  <2>11. \A r \in shotRevs' : Captured(r)' /\ r.number \in 1..MaxShotRevs
    BY <1>5, <2>7, <2>8, <2>9 DEF CaptureInv, CapturesKept
  <2>12. \A j \in Clients : reads'[j].step = "read" => Captured(reads[j])'
    BY <1>5, <1>6 DEF CaptureInv, CapturesKept
  <2> QED
    BY <1>6, <2>7, <2>10, <2>11, <2>12 DEF CapturesKept, InARow
<1> QED
  BY <1>1, <1>7, <1>8 DEF PersistRevision, RefuseReuse, Storing

\* Every step keeps what was captured.
LEMMA CaptureKeeps == CaptureInv /\ [CaptureStep]_captureVars => CaptureInv'
<1> SUFFICES ASSUME CaptureInv, [CaptureStep]_captureVars PROVE CaptureInv'
  OBVIOUS
<1>1. CASE [IntraStep]_intraVars /\ UNCHANGED captureOnly
  <2>1. IntraInv'
    BY <1>1, IntraKeeps DEF CaptureInv
  <2>2. WorldsStay /\ DOMAIN shots \subseteq DOMAIN shots'
    <3>1. [InstanceStep]_instanceVars
      <4>1. CASE EventStep
        <5>1. KeepTransitions
          BY <4>1 DEF EventStep, CreateEvent, PatchEvent, DeleteEvent, SetDuration
        <5> QED
          BY <5>1 DEF KeepTransitions, instanceVars, spatialVars, continuityVars
      <4> QED
        BY <1>1, <4>1 DEF IntraStep, intraVars
    <3> QED
      BY <3>1, WorldsAndShotsStay DEF CaptureInv, IntraInv
  <2>3. UNCHANGED <<reads, shotRevs>>
    BY <1>1 DEF captureOnly
  <2>4. \A y : Captured(y) => Captured(y)'
    BY <2>2, CapturedStays
  <2>5. ASSUME NEW s \in DOMAIN shots' PROVE InARow(RevisionsOf(s)')
    <3>1. RevisionsOf(s)' = RevisionsOf(s)
      BY <2>3 DEF RevisionsOf
    <3>2. CASE s \in DOMAIN shots
      BY <3>1, <3>2 DEF CaptureInv, CapturesKept
    <3>3. CASE s \notin DOMAIN shots
      <4>1. RevisionsOf(s) = {}
        BY <3>3 DEF RevisionsOf, CaptureInv, CapturesKept, Captured
      <4> QED
        BY <3>1, <4>1, FS_EmptySet DEF InARow
    <3> QED
      BY <3>2, <3>3
  <2>6. CapturesKept'
    BY <2>3, <2>4, <2>5 DEF CaptureInv, CapturesKept, InARow
  <2> QED
    BY <2>1, <2>6 DEF CaptureInv
<1>2. CASE ShotStep
  <2>1. UNCHANGED intraVars
    BY <1>2 DEF ShotStep, PatchShot, ReplaceReferences, ReadSnapshot, PersistRevision, RefuseReuse
  <2>2. IntraInv'
    BY <2>1, IntraKeeps DEF CaptureInv
  <2>3. CASE \E s \in Shot : \/ \E i \in Intents : PatchShot(s, i)
                             \/ \E set \in SUBSET References : ReplaceReferences(s, set)
    <3>1. UNCHANGED <<shots, worlds>>
      BY <2>1 DEF intraVars, instanceVars, spatialVars, continuityVars, narrativeVars, spatialOnly, geometry
    <3>2. UNCHANGED <<reads, shotRevs>>
      BY <2>3 DEF PatchShot, ReplaceReferences
    <3>3. \A y : Captured(y) => Captured(y)'
      BY <3>1, CapturedStays DEF WorldsStay
    <3> QED
      BY <2>2, <3>1, <3>2, <3>3 DEF CaptureInv, CapturesKept, RevisionsOf
  <2>4. CASE \E k \in Clients : (\E s \in Shot : ReadSnapshot(k, s)) \/ PersistRevision(k) \/ RefuseReuse(k)
    BY <2>2, <2>4, ReadKeeps, StoreKeeps DEF CaptureInv
  <2> QED
    BY <1>2, <2>3, <2>4 DEF ShotStep
<1> QED
  BY <1>1, <1>2 DEF CaptureStep, captureVars

\* The inductive invariant holds of an empty project.
LEMMA CaptureBegins == CaptureInit => CaptureInv
<1> SUFFICES ASSUME CaptureInit PROVE CaptureInv
  OBVIOUS
<1>1. IntraInv
  BY IntraBegins DEF CaptureInit
<1>2. shotRevs = {} /\ reads = [k \in Clients |-> Unread]
  BY DEF CaptureInit
<1> QED
  BY <1>1, <1>2, FS_EmptySet DEF CaptureInv, CapturesKept, RevisionsOf, InARow, Unread

\* The inductive invariant of captures holds in every reachable state
\* (domain/revisions.py, continuity/intra_shot_history.py).
THEOREM CaptureInvariant == CaptureSpec => []CaptureInv
BY CaptureBegins, CaptureKeeps, PTL DEF CaptureSpec

\* What is kept of captures is what a reader relies on.
LEMMA CapturesFollow == CaptureInv => CaptureSound
BY DEF CaptureInv, CapturesKept, InARow, Captured, Coherent, CaptureSound, ShotRevisionsConverge,
   CaptureCoherent, HistoryVerifies

\* A captured shot is one coherent value, stored once and numbered without gaps, and the
\* historical verifier accepts it for ever, whatever was edited between the read and the
\* write (domain/revisions.py:_persist_revision_fenced).
THEOREM CapturesAreSound == CaptureSpec => []CaptureSound
BY CaptureInvariant, CapturesFollow, PTL

-----------------------------------------------------------------------------
(* The identities of transitions.                                          *)

USE ConsequencesAssumption DEF ConsequencesAssumption

RowsNumbered ==
    /\ \A t, u \in transitions : t.id = u.id => t = u
    /\ \A t \in transitions : t.id <= Cardinality(transitions)

\* What a transition is about stands, whatever becomes of it.
RowsStay == \A t \in transitions : \E u \in transitions' : u.id = t.id /\ u.family = t.family /\ u.owner = t.owner

\* A row that is inserted is numbered after all others.
LEMMA RowInserted ==
    ASSUME RowsTyped, RowsNumbered, NEW family, NEW owner, NEW a, NEW v, Insert(family, owner, a, v)
    PROVE  RowsNumbered' /\ RowsStay
<1>1. PICK n \in Nat : n = Cardinality(transitions)
  BY FS_CardinalityType DEF RowsTyped
<1>2. PICK r : r = [id |-> n + 1, family |-> family, owner |-> owner, anchor |-> a, value |-> v, live |-> TRUE]
  OBVIOUS
<1>3. transitions' = transitions \cup {r} /\ r.id = n + 1
  BY <1>1, <1>2 DEF Insert
<1>4. \A t \in transitions : t.id <= n /\ t.id \in Int
  BY <1>1 DEF RowsNumbered, RowsTyped, RowTyped
<1>5. r \notin transitions
  BY <1>3, <1>4
<1>6. Cardinality(transitions') = n + 1
  BY <1>1, <1>3, <1>5, FS_AddElement DEF RowsTyped
<1>7. RowsNumbered'
  BY <1>3, <1>4, <1>6 DEF RowsNumbered
<1> QED
  BY <1>3, <1>7 DEF RowsStay

\* A row that is replaced keeps its number and what it is about.
LEMMA RowReplaced ==
    ASSUME RowsTyped, RowsNumbered, NEW t \in transitions, NEW r, r.id = t.id, r.family = t.family,
           r.owner = t.owner, transitions' = (transitions \ {t}) \cup {r}
    PROVE  RowsNumbered' /\ RowsStay
<1>1. PICK n \in Nat : n = Cardinality(transitions)
  BY FS_CardinalityType DEF RowsTyped
<1>2. PICK rest : rest = transitions \ {t}
  OBVIOUS
<1>3. IsFiniteSet(rest) /\ Cardinality(rest) = n - 1
  BY <1>1, <1>2, FS_RemoveElement DEF RowsTyped
<1>4. r \notin rest
  BY <1>2 DEF RowsNumbered
<1>5. Cardinality(transitions') = n
  <2>1. Cardinality(rest \cup {r}) = (n - 1) + 1
    BY <1>3, <1>4, FS_AddElement
  <2> QED
    BY <1>2, <2>1
<1>6. RowsNumbered'
  BY <1>1, <1>5 DEF RowsNumbered
<1> QED
  BY <1>6 DEF RowsStay

\* A project's rows die together.
LEMMA RowsDieTogether ==
    ASSUME RowsTyped, RowsNumbered, DeleteProject
    PROVE  RowsNumbered' /\ RowsStay
<1>1. PICK f : f = [t \in transitions |-> IF t.family \in GuardedFamilies THEN [t EXCEPT !.live = FALSE] ELSE t]
  OBVIOUS
<1>2. transitions' = {f[t] : t \in transitions} /\ DOMAIN f = transitions
  BY <1>1 DEF DeleteProject
<1>3. ASSUME NEW t \in transitions PROVE f[t].id = t.id /\ f[t].family = t.family /\ f[t].owner = t.owner
  <2>1. RowTyped(t) /\ f[t] = IF t.family \in GuardedFamilies THEN [t EXCEPT !.live = FALSE] ELSE t
    BY <1>1 DEF RowsTyped
  <2> QED
    BY <2>1 DEF RowTyped
<1>4. \A t, u \in transitions : f[t] = f[u] => t = u
  BY <1>3 DEF RowsNumbered
<1>5. f \in Bijection(transitions, transitions')
  <2>1. f \in [transitions -> transitions']
    BY <1>1, <1>2
  <2> QED
    BY <1>2, <1>4, <2>1 DEF Bijection, Injection, Surjection, IsInjective
<1>6. ExistsBijection(transitions, transitions')
  BY <1>5 DEF ExistsBijection
<1>7. Cardinality(transitions') = Cardinality(transitions)
  BY <1>6, FS_Bijection DEF RowsTyped
<1>8. ASSUME NEW t \in transitions', NEW u \in transitions', t.id = u.id PROVE t = u
  <2>1. PICK p \in transitions, q \in transitions : t = f[p] /\ u = f[q]
    BY <1>2
  <2> QED
    BY <1>3, <1>8, <2>1 DEF RowsNumbered
<1>9. ASSUME NEW t \in transitions' PROVE t.id <= Cardinality(transitions')
  <2>1. PICK p \in transitions : t = f[p]
    BY <1>2
  <2> QED
    BY <1>3, <1>7, <2>1 DEF RowsNumbered
<1>10. RowsStay
  BY <1>2, <1>3 DEF RowsStay
<1> QED
  BY <1>8, <1>9, <1>10 DEF RowsNumbered

\* What a step below the reviews does to the rows.
RowsChange ==
    \/ UNCHANGED transitions
    \/ DeleteProject
    \/ \E family, owner, a, v : Insert(family, owner, a, v)
    \/ \E t \in Active : \/ Drop(t)
                         \/ \E a, v : transitions' = (transitions \ {t}) \cup {[t EXCEPT !.anchor = a, !.value = v]}

\* What the story does to rows,
LEMMA StoryChangesRows ==
    ASSUME [ContinuityStep]_continuityVars
    PROVE  RowsChange
<1>1. CASE NarrativeStep
  BY <1>1, Zenon DEF NarrativeStep, CreateSequence, DeleteSequence, ReorderSequences, CreateScene, DeleteScene,
     ReorderScenes, AssignSceneShots, CreateShot, DeleteShot, RowsChange
<1>2. CASE WorldFactStep
  BY <1>2, Zenon DEF WorldFactStep, CreateEntity, DeleteEntity, CreateRevision, ApproveRevision,
       ReplaceSemanticDependencies, CreateFeature, DeleteFeature, CreatePredicate, DeletePredicate,
       CreateRelation, DeleteRelation, RowsChange
<1>3. CASE TransitionStep
  BY <1>3, Zenon DEF TransitionStep, CreateFeatureTransition, CreateRelationTransition, DeleteFeatureTransition,
       DeleteRelationTransition, PatchFeatureTransition, PatchRelationTransition, Move, RowsChange
<1> QED
  BY <1>1, <1>2, <1>3 DEF ContinuityStep, continuityVars, RowsChange

\* and what staging and instances do.
LEMMA OthersChangeRows ==
    ASSUME [InstanceStep]_instanceVars
    PROVE  RowsChange
<1>1. CASE [ContinuityStep]_continuityVars
  BY <1>1, StoryChangesRows
<1>2. CASE GeometryStep
  BY <1>2, GeometryTouchesNoStory DEF continuityVars, RowsChange
<1>3. CASE StagingStep
  <2>1. UNCHANGED continuityVars => UNCHANGED transitions
    BY DEF continuityVars
  <2> QED
    BY <1>3, <2>1, Zenon DEF StagingStep, CreateTrack, PatchTrack, DeleteTrack, DeleteSpatialPlan, PutSpatialPlan,
       CreateStaging, PatchStaging, DeleteStaging, RowsChange
<1>4. CASE InstanceChange
  BY <1>4, Zenon DEF InstanceChange, CreateInstanceFeature, DeleteInstanceFeature, CreateInstanceTrack,
     PatchInstanceTrack, DeleteInstanceTrack, CreateInstanceTransition, CreateInstanceStaging,
     DeleteInstanceTransition, DeleteInstanceStaging, PatchInstanceTransition, PatchInstanceStaging,
     BindingGoesStale, SelectBinding, MoveInstance, RowsChange
<1> QED
  BY <1>1, <1>2, <1>3, <1>4 DEF InstanceStep, SpatialStep, instanceVars, spatialVars

\* Whatever changes a row, its number stays its own.
LEMMA RowsKeepIdentity ==
    ASSUME RowsTyped, RowsNumbered, RowsChange
    PROVE  RowsNumbered' /\ RowsStay
<1>1. CASE UNCHANGED transitions
  BY <1>1 DEF RowsNumbered, RowsStay
<1>2. ASSUME NEW t \in Active, Drop(t) PROVE RowsNumbered' /\ RowsStay
  <2>1. t \in transitions /\ RowTyped(t)
    BY DEF Active, RowsTyped
  <2>2. PICK r : r = [t EXCEPT !.live = FALSE]
    OBVIOUS
  <2>3. r.id = t.id /\ r.family = t.family /\ r.owner = t.owner
    BY <2>1, <2>2 DEF RowTyped
  <2>4. transitions' = (transitions \ {t}) \cup {r}
    BY <1>2, <2>2 DEF Drop
  <2> QED
    BY <2>1, <2>3, <2>4, RowReplaced
<1>3. ASSUME NEW t \in Active, NEW a, NEW v,
             transitions' = (transitions \ {t}) \cup {[t EXCEPT !.anchor = a, !.value = v]}
      PROVE  RowsNumbered' /\ RowsStay
  <2>1. t \in transitions
    BY DEF Active
  <2>2. PICK r : /\ r = [t EXCEPT !.anchor = a, !.value = v]
                 /\ r.id = t.id /\ r.family = t.family /\ r.owner = t.owner
    BY RowMoved
  <2>3. transitions' = (transitions \ {t}) \cup {r}
    BY <1>3, <2>2
  <2> QED
    BY <2>1, <2>2, <2>3, RowReplaced
<1> QED
  BY <1>1, <1>2, <1>3, RowInserted, RowsDieTogether DEF RowsChange

-----------------------------------------------------------------------------
(* The identities of events.                                               *)

EventsStay ==
    \A x \in DOMAIN events : /\ x \in DOMAIN events' /\ events'[x].shot = events[x].shot
                             /\ events'[x].value.target = events[x].value.target

EventSources == \A x \in DOMAIN events : events[x].source \in DOMAIN proposals \cup {None}

\* Operations on events keep their shots and targets, and name proposals that exist.
LEMMA EventStepStays ==
    ASSUME EventsTyped, EventSources, UNCHANGED proposals, EventStep
    PROVE  EventsStay /\ EventSources'
<1>1. ASSUME NEW x, NEW s, NEW v, CreateEvent(x, s, v) PROVE EventsStay /\ EventSources'
  <2>1. PICK row : row = [shot |-> s, value |-> v, source |-> None, live |-> TRUE]
    OBVIOUS
  <2>2. events' = With(events, x, row) /\ x \notin DOMAIN events /\ row.source = None
    BY <1>1, <2>1 DEF CreateEvent
  <2>3. DOMAIN events' = DOMAIN events \cup {x} /\ events'[x] = row /\ \A y \in DOMAIN events : events'[y] = events[y]
    BY <2>2 DEF With
  <2> QED
    BY <2>2, <2>3 DEF EventsStay, EventSources
<1>2. ASSUME NEW x, NEW v, PatchEvent(x, v) PROVE EventsStay /\ EventSources'
  <2>1. x \in DOMAIN events /\ v.target = events[x].value.target
    BY <1>2 DEF PatchEvent, Live
  <2>2. PICK r : r = events[x]
    OBVIOUS
  <2>3. EventRow(r)
    BY <2>1, <2>2 DEF EventsTyped
  <2>4. PICK mid, row : mid = [r EXCEPT !.value = v] /\ row = [mid EXCEPT !.source = None]
    OBVIOUS
  <2>5. mid = [shot |-> r.shot, value |-> v, source |-> r.source, live |-> r.live]
    BY <2>3, <2>4 DEF EventRow
  <2>6. row.shot = r.shot /\ row.value = v /\ row.source = None
    BY <2>4, <2>5
  <2>7. DOMAIN events' = DOMAIN events /\ events'[x] = row /\ \A y \in DOMAIN events : y # x => events'[y] = events[y]
    <3>1. PICK E : E = [events EXCEPT ![x].value = v]
      OBVIOUS
    <3>2. DOMAIN E = DOMAIN events /\ E[x] = mid /\ \A y \in DOMAIN events : y # x => E[y] = events[y]
      BY <2>1, <2>2, <2>4, <3>1
    <3>3. events' = [E EXCEPT ![x].source = None]
      BY <1>2, <3>1 DEF PatchEvent
    <3> QED
      BY <2>1, <2>4, <3>2, <3>3
  <2> QED
    BY <2>1, <2>2, <2>6, <2>7 DEF EventsStay, EventSources
<1>3. ASSUME NEW x, DeleteEvent(x) PROVE EventsStay /\ EventSources'
  <2>1. x \in DOMAIN events
    BY <1>3 DEF DeleteEvent, Live
  <2>2. PICK r, row : r = events[x] /\ row = [r EXCEPT !.live = FALSE]
    OBVIOUS
  <2>3. EventRow(r)
    BY <2>1, <2>2 DEF EventsTyped
  <2>4. row.shot = r.shot /\ row.value = r.value /\ row.source = r.source
    BY <2>2, <2>3 DEF EventRow
  <2>5. events' = [events EXCEPT ![x] = row]
    BY <1>3, <2>2 DEF DeleteEvent, Tombstone
  <2> QED
    BY <2>1, <2>2, <2>4, <2>5 DEF EventsStay, EventSources
<1>4. ASSUME NEW s, NEW d, SetDuration(s, d) PROVE EventsStay /\ EventSources'
  BY <1>4 DEF SetDuration, EventsStay, EventSources
<1> QED
  BY <1>1, <1>2, <1>3, <1>4 DEF EventStep

-----------------------------------------------------------------------------
(* Hand-offs.                                                              *)

\* A finite set as a sequence: each member at one place.
LEMMA SeqOfSet ==
    ASSUME NEW S, IsFiniteSet(S)
    PROVE  /\ SetToSeq(S) \in [1..Cardinality(S) -> S] /\ IsInjective(SetToSeq(S))
           /\ \A x \in S : \E i \in 1..Cardinality(S) : SetToSeq(S)[i] = x
<1>1. PICK n \in Nat : n = Cardinality(S)
  BY FS_CardinalityType
<1>2. PICK f : f \in Bijection(1..n, S)
  BY <1>1, FS_CardinalityType DEF ExistsBijection
<1>3. f \in [1..n -> S] /\ IsInjective(f)
  BY <1>2 DEF Bijection, Injection
<1>4. PICK L : L = SetToSeq(S)
  OBVIOUS
<1>5. L \in [1..n -> S] /\ IsInjective(L)
  BY <1>1, <1>3, <1>4 DEF SetToSeq
<1>6. L \in Injection(1..n, S)
  BY <1>5 DEF Injection
<1>7. IsFiniteSet(1..n) /\ Cardinality(1..n) = n
  BY FS_Interval
<1>8. L \in Surjection(1..n, S)
  BY <1>1, <1>6, <1>7, FS_Injection
<1> QED
  BY <1>1, <1>4, <1>5, <1>8 DEF Surjection

\* What a set of persistent values asks of the transitions.
HandoffsMay(s, set) ==
    /\ s \in Live(shots) /\ s \in Shot /\ Assigned(s)
    /\ IsFiniteSet(set) /\ set \subseteq EventValue
    /\ \A v \in set : TargetValid(s, v.target)
    /\ \A v, w \in set : v.target = w.target => v = w

\* The row that a value is handed off by.
HandedBy(s, v, t) ==
    /\ t.live /\ t.family = v.target.kind /\ t.owner = v.target.id
    /\ t.anchor = EndOfShot(s) /\ t.value = v.after

\* The row that is made for a missing value.
MadeRow(s, set, v) ==
    [id |-> NewId(s, set, v), family |-> v.target.kind, owner |-> v.target.id,
     anchor |-> EndOfShot(s), value |-> v.after, live |-> TRUE]

\* New rows are numbered after the old ones, each on its own.
LEMMA NewNumbers ==
    ASSUME RowsTyped, NEW s, NEW set, IsFiniteSet(set), AdoptHandoffs(s, set)
    PROVE  /\ Cardinality(transitions) \in Nat /\ Cardinality(Missing(s, set)) \in Nat
           /\ IsFiniteSet(Missing(s, set))
           /\ \A v \in Missing(s, set) :
                 /\ NewId(s, set, v) \in Nat
                 /\ NewId(s, set, v) > Cardinality(transitions)
                 /\ NewId(s, set, v) <= Cardinality(transitions) + Cardinality(Missing(s, set))
                 /\ NewId(s, set, v) <= MaxTransitions
           /\ \A v, w \in Missing(s, set) : NewId(s, set, v) = NewId(s, set, w) => v = w
<1>1. PICK M : M = Missing(s, set)
  OBVIOUS
<1>2. IsFiniteSet(M)
  BY <1>1, FS_Subset DEF Missing
<1>3. PICK n \in Nat, m \in Nat : n = Cardinality(transitions) /\ m = Cardinality(M)
  BY <1>2, FS_CardinalityType DEF RowsTyped
<1>4. n + m <= MaxTransitions
  BY <1>1, <1>3 DEF AdoptHandoffs
<1>5. PICK L : L = SetToSeq(M)
  OBVIOUS
<1>6. ASSUME NEW v \in M PROVE \E i \in 1..m : L[i] = v /\ NewId(s, set, v) = n + i
  <2>1. \E i \in 1..m : L[i] = v
    BY <1>2, <1>3, <1>5, SeqOfSet
  <2>2. PICK i : i = CHOOSE j \in 1..m : L[j] = v
    OBVIOUS
  <2>3. i \in 1..m /\ L[i] = v
    BY <2>1, <2>2
  <2>4. NewId(s, set, v) = n + i
    BY <1>1, <1>3, <1>5, <2>2 DEF NewId
  <2> QED
    BY <2>3, <2>4
<1>7. ASSUME NEW v \in M
      PROVE  /\ NewId(s, set, v) \in Nat /\ NewId(s, set, v) > n
             /\ NewId(s, set, v) <= n + m /\ NewId(s, set, v) <= MaxTransitions
  <2>1. PICK i \in 1..m : NewId(s, set, v) = n + i
    BY <1>6
  <2>2. PICK x : x = NewId(s, set, v)
    OBVIOUS
  <2>3. MaxTransitions \in Nat
    BY ContinuityAssumption
  <2>4. x = n + i
    BY <2>1, <2>2
  <2>5. x \in Nat /\ x > n /\ x <= n + m /\ x <= MaxTransitions
    BY <1>4, <2>3, <2>4
  <2> QED
    BY <2>2, <2>5
<1>8. ASSUME NEW v \in M, NEW w \in M, NewId(s, set, v) = NewId(s, set, w) PROVE v = w
  <2>1. PICK i \in 1..m : L[i] = v /\ NewId(s, set, v) = n + i
    BY <1>6
  <2>2. PICK j \in 1..m : L[j] = w /\ NewId(s, set, w) = n + j
    BY <1>6
  <2>3. n + i = n + j
    BY <1>8, <2>1, <2>2
  <2>4. i = j
    BY <2>3
  <2> QED
    BY <2>1, <2>2, <2>4
<1> QED
  BY <1>1, <1>2, <1>3, <1>7, <1>8

\* The rows made, one by one.
LEMMA MadeRows ==
    ASSUME ContinuityInv, NEW s, NEW set, HandoffsMay(s, set), AdoptHandoffs(s, set)
    PROVE  \A v \in Missing(s, set) : \E t \in transitions' :
               /\ RowTyped(t) /\ HandedBy(s, v, t) /\ t.id = NewId(s, set, v) /\ t = MadeRow(s, set, v)
<1> SUFFICES ASSUME NEW v \in Missing(s, set)
             PROVE  \E t \in transitions' :
               /\ RowTyped(t) /\ HandedBy(s, v, t) /\ t.id = NewId(s, set, v) /\ t = MadeRow(s, set, v)
  OBVIOUS
<1>1. PICK t : t = MadeRow(s, set, v)
  OBVIOUS
<1>2. t \in transitions'
  BY <1>1 DEF AdoptHandoffs, MadeRow
<1>3. /\ t.id = NewId(s, set, v) /\ t.family = v.target.kind /\ t.owner = v.target.id
      /\ t.anchor = EndOfShot(s) /\ t.value = v.after /\ t.live = TRUE
  BY <1>1 DEF MadeRow
<1>4. t = [id |-> t.id, family |-> t.family, owner |-> t.owner, anchor |-> t.anchor, value |-> t.value,
           live |-> t.live]
  BY <1>1 DEF MadeRow
<1>5. t.id \in 1..MaxTransitions
  <2>1. PICK i, n, m : i = NewId(s, set, v) /\ n = Cardinality(transitions) /\ m = Cardinality(Missing(s, set))
    OBVIOUS
  <2>2. i \in Nat /\ n \in Nat /\ i > n /\ i <= MaxTransitions
    BY <2>1, NewNumbers DEF ContinuityInv, TransitionsInv, HandoffsMay
  <2> QED
    BY <1>3, <2>1, <2>2
<1>6. t.anchor \in Anchors
  <2>1. s \in Shot
    BY DEF HandoffsMay
  <2> QED
    BY <1>3, <2>1 DEF EndOfShot, Anchors
<1>7. t.value \in Values \cup {Clear, "active"}
  <2>1. v \in EventValue
    BY DEF Missing, HandoffsMay
  <2> QED
    BY <1>3, <2>1, EventTarget DEF StatesOfKind, StoryValues
<1>8. RowTyped(t) /\ HandedBy(s, v, t)
  BY <1>3, <1>4, <1>5, <1>6, <1>7 DEF RowTyped, HandedBy
<1> QED
  BY <1>1, <1>2, <1>3, <1>8

\* A new row is in the stream and about something there is.
LEMMA MadeRowFits ==
    ASSUME ContinuityInv, NEW s, NEW set, HandoffsMay(s, set), NEW v \in set, NEW t, HandedBy(s, v, t)
    PROVE  /\ t.anchor \in BoundarySet /\ t.family \in Kinds
           /\ t.family = "feature" => t.owner \in Live(features)
           /\ t.family = "relation" => t.owner \in Live(relations) /\ t.value \in {"active", Clear}
<1>1. t.anchor \in BoundarySet
  BY ShotEnds DEF HandoffsMay, HandedBy
<1>2. v.target.kind \in Kinds /\ v.after \in StatesOfKind(v.target.kind) /\ TargetValid(s, v.target)
  BY EventTarget DEF HandoffsMay
<1>3. v.target.kind = "relation" => v.after \in {"active", Clear} /\ v.target.id \in Live(relations)
  BY <1>2 DEF StatesOfKind, TargetValid
<1>4. v.target.kind = "feature" => v.target.id \in Live(features)
  BY <1>2 DEF TargetValid
<1> QED
  BY <1>1, <1>2, <1>3, <1>4 DEF HandedBy

\* A target is named by its kind and its id.
LEMMA SameTarget ==
    ASSUME NEW v \in EventValue, NEW w \in EventValue, v.target.kind = w.target.kind, v.target.id = w.target.id
    PROVE  v.target = w.target
<1>1. \A x \in EventValue : x.target = [kind |-> x.target.kind, id |-> x.target.id]
  BY DEF EventValue
<1> QED
  BY <1>1

\* Adopting hand-offs keeps the transitions,
LEMMA AdoptionKeepsRows ==
    ASSUME ContinuityInv, RelationStates, NEW s, NEW set, HandoffsMay(s, set), AdoptHandoffs(s, set), KeepStory
    PROVE  /\ ContinuityInv' /\ RelationStates'
           /\ \A t \in Active' : t \in Active \/ t.family \in Kinds
<1>1. PICK M : M = Missing(s, set)
  OBVIOUS
<1>2. PICK N : N = {MadeRow(s, set, v) : v \in M}
  OBVIOUS
<1>3. transitions' = transitions \cup N
  BY <1>1, <1>2 DEF AdoptHandoffs, MadeRow
<1>4. ASSUME NEW t \in N
      PROVE  \E v \in M : /\ v \in set /\ RowTyped(t) /\ HandedBy(s, v, t)
  BY <1>1, <1>2, MadeRows DEF Missing
<1>5. ASSUME NEW t \in N
      PROVE  /\ RowTyped(t) /\ t.live /\ t.anchor \in BoundarySet /\ t.family \in Kinds
             /\ t.family = "feature" => t.owner \in Live(features)
             /\ t.family = "relation" => t.owner \in Live(relations) /\ t.value \in {"active", Clear}
  BY <1>4, MadeRowFits DEF HandedBy
<1>6. UNCHANGED <<sequences, scenes, shots, features, relations>>
  BY DEF KeepStory, narrativeVars, storyVars
<1>7. BoundarySet' = BoundarySet
  BY <1>6 DEF BoundarySet, Placed
<1>8. Active' = Active \cup N
  BY <1>3, <1>5 DEF Active
<1>9. RowsTyped'
  <2>1. IsFiniteSet(M)
    BY <1>1, FS_Subset DEF Missing, HandoffsMay
  <2>2. PICK F : F = [v \in M |-> MadeRow(s, set, v)]
    OBVIOUS
  <2>3. F \in Surjection(M, N)
    BY <1>2, <2>2 DEF Surjection
  <2>4. IsFiniteSet(N)
    BY <2>1, <2>3, FS_Surjection
  <2>5. IsFiniteSet(transitions')
    BY <1>3, <2>4, FS_Union DEF ContinuityInv, TransitionsInv, RowsTyped
  <2> QED
    BY <1>3, <1>5, <2>5 DEF ContinuityInv, TransitionsInv, RowsTyped, RowTyped
<1>10. AnchorsHold' /\ RowsGuarded'
  BY <1>5, <1>6, <1>7, <1>8 DEF ContinuityInv, TransitionsInv, AnchorsHold, RowsGuarded
<1>11. WinnerUnique'
  <2>1. ASSUME NEW t \in Active, NEW u \in N PROVE ~SameCoordinate(t, u)
    <3>1. PICK v \in M : v \in set /\ HandedBy(s, v, u)
      BY <1>4
    <3>2. HandoffRows(s, v.target) = {}
      BY <1>1 DEF Missing
    <3> QED
      BY <3>1, <3>2 DEF HandoffRows, HandedBy, SameCoordinate
  <2>2. ASSUME NEW t \in N, NEW u \in N, SameCoordinate(t, u) PROVE t = u
    <3>1. PICK v \in M : t = MadeRow(s, set, v)
      BY <1>2
    <3>2. PICK w \in M : u = MadeRow(s, set, w)
      BY <1>2
    <3>3. v \in set /\ w \in set /\ v \in EventValue /\ w \in EventValue
      BY <1>1 DEF Missing, HandoffsMay
    <3>4. v.target.kind = w.target.kind /\ v.target.id = w.target.id
      BY <2>2, <3>1, <3>2 DEF SameCoordinate, MadeRow
    <3>5. v = w
      BY <3>3, <3>4, SameTarget DEF HandoffsMay
    <3> QED
      BY <3>1, <3>2, <3>5
  <2> QED
    BY <1>8, <2>1, <2>2 DEF ContinuityInv, TransitionsInv, WinnerUnique, SameCoordinate
<1>12. RelationStates'
  BY <1>5, <1>8 DEF RelationStates
<1> QED
  BY <1>5, <1>8, <1>9, <1>10, <1>11, <1>12, StoryStands DEF TransitionsInv

\* and their identities,
LEMMA AdoptionKeepsIdentity ==
    ASSUME ContinuityInv, RowsNumbered, NEW s, NEW set, HandoffsMay(s, set), AdoptHandoffs(s, set)
    PROVE  RowsNumbered' /\ transitions \subseteq transitions' /\ RowsStay
<1>0. RowsTyped /\ IsFiniteSet(set)
  BY DEF ContinuityInv, TransitionsInv, HandoffsMay
<1>1. PICK M : M = Missing(s, set)
  OBVIOUS
<1>2. PICK F : F = [v \in M |-> MadeRow(s, set, v)]
  OBVIOUS
<1>3. PICK N : N = {F[v] : v \in M}
  OBVIOUS
<1>4. transitions' = transitions \cup N
  BY <1>1, <1>2, <1>3 DEF AdoptHandoffs, MadeRow
<1>5. PICK n \in Nat, m \in Nat : n = Cardinality(transitions) /\ m = Cardinality(M)
  BY <1>0, <1>1, NewNumbers
<1>6. \A v \in M : F[v].id = NewId(s, set, v)
  BY <1>2 DEF MadeRow
<1>7. /\ \A v \in M : F[v].id \in Nat /\ F[v].id > n /\ F[v].id <= n + m
      /\ \A v, w \in M : F[v].id = F[w].id => v = w
  <2>1. \A v \in M : NewId(s, set, v) \in Nat /\ NewId(s, set, v) > n /\ NewId(s, set, v) <= n + m
    BY <1>0, <1>1, <1>5, NewNumbers
  <2>2. \A v, w \in M : NewId(s, set, v) = NewId(s, set, w) => v = w
    BY <1>0, <1>1, NewNumbers
  <2> QED
    BY <1>6, <2>1, <2>2
<1>8. IsFiniteSet(M)
  BY <1>0, <1>1, NewNumbers
<1>9. IsFiniteSet(N) /\ Cardinality(N) = m
  <2>1. F \in Bijection(M, N)
    BY <1>2, <1>3, <1>7 DEF Bijection, Injection, Surjection, IsInjective
  <2>2. ExistsBijection(M, N)
    BY <2>1 DEF ExistsBijection
  <2> QED
    BY <1>5, <1>8, <2>2, FS_Bijection
<1>10. \A t \in transitions : t.id <= n /\ t.id \in Int
  BY <1>0, <1>5 DEF RowsNumbered, RowsTyped, RowTyped
<1>11. \A t \in N : t.id \in Nat /\ t.id > n /\ t.id <= n + m
  BY <1>3, <1>7
<1>12. transitions \cap N = {}
  BY <1>10, <1>11
<1>13. Cardinality(transitions') = n + m
  <2>1. Cardinality(transitions \cap N) = 0
    BY <1>12, FS_EmptySet
  <2>2. Cardinality(transitions \cup N) = n + m - 0
    BY <1>0, <1>5, <1>9, <2>1, FS_Union DEF RowsTyped
  <2> QED
    BY <1>4, <2>2
<1>14. \A t \in transitions' : t.id <= n + m
  BY <1>4, <1>10, <1>11
<1>15. \A t, u \in N : t.id = u.id => t = u
  BY <1>3, <1>7
<1>16. \A t, u \in transitions' : t.id = u.id => t = u
  BY <1>4, <1>10, <1>11, <1>15 DEF RowsNumbered
<1> QED
  BY <1>4, <1>13, <1>14, <1>16 DEF RowsNumbered, RowsStay

\* and leaves each value handed off by the row that is recorded.
LEMMA AdoptionHandsEach ==
    ASSUME ContinuityInv, NEW s, NEW set, HandoffsMay(s, set), AdoptHandoffs(s, set), NEW v \in set
    PROVE  \E t \in transitions' : t.id = AdoptedId(s, set, v) /\ t.id \in Nat /\ HandedBy(s, v, t)
<1>1. CASE v \in Missing(s, set)
  <2>1. PICK t \in transitions' : RowTyped(t) /\ HandedBy(s, v, t) /\ t.id = NewId(s, set, v)
    BY <1>1, MadeRows
  <2> QED
    BY <1>1, <2>1 DEF AdoptedId, RowTyped
<1>2. CASE v \notin Missing(s, set)
  <2>1. HandoffRows(s, v.target) # {} /\ HandoffMatches(s, v)
    BY <1>2 DEF Missing, AdoptHandoffs, HandoffFree
  <2>2. PICK h \in HandoffRows(s, v.target) : h.value = v.after
    BY <2>1 DEF HandoffMatches
  <2>3. PICK t : t = CHOOSE u \in HandoffRows(s, v.target) : TRUE
    OBVIOUS
  <2>4. t \in HandoffRows(s, v.target)
    BY <2>1, <2>3
  <2>5. t = h
    BY <2>2, <2>4 DEF HandoffRows, ContinuityInv, TransitionsInv, WinnerUnique
  <2>6. t \in transitions /\ HandedBy(s, v, t) /\ RowTyped(t)
    BY <2>2, <2>4, <2>5 DEF HandoffRows, HandedBy, Active, ContinuityInv, TransitionsInv, RowsTyped
  <2>7. t.id = AdoptedId(s, set, v)
    BY <1>2, <2>3 DEF AdoptedId
  <2>8. t \in transitions' /\ t.id \in Nat
    BY <2>6 DEF AdoptHandoffs, RowTyped
  <2> QED
    BY <2>6, <2>7, <2>8
<1> QED
  BY <1>1, <1>2

-----------------------------------------------------------------------------
(* The evidence of proposals and reviews.                                  *)

\* A proposal was made from a revision that is there, inside its length.
ProposalsHold ==
    /\ IsFiniteSet(DOMAIN proposals)
    /\ \A p \in DOMAIN proposals :
          /\ proposals[p].shot \in Shot /\ proposals[p].revision \in shotRevs
          /\ proposals[p].candidate.time \in 1..(proposals[p].revision.value.duration - 1)
          /\ \A d \in ProposalDecisions : Draft(p, d) \in EventValue

ProposalsStay == \A p \in DOMAIN proposals : p \in DOMAIN proposals' /\ proposals'[p] = proposals[p]

\* What a review decided is there, and about what was reviewed.
Decided(r) ==
    IF r.decision = "ignore" THEN r.event = None /\ r.transition = None
    ELSE /\ r.event \in DOMAIN events /\ events[r.event].shot = r.shot
         /\ events[r.event].value.target = ReviewTarget(r)
         /\ (r.transition # None) = (r.decision = "adopt_persistence")
         /\ r.transition # None =>
               \E t \in transitions : /\ t.id = r.transition
                                      /\ [kind |-> t.family, id |-> t.owner] = ReviewTarget(r)

Certified(r) ==
    /\ r.source = [kind |-> r.source.kind, id |-> r.source.id] /\ r.source.kind \in {"event", "proposal"}
    /\ r.source.kind = "event" => r.batch = {}
    /\ VerifySource(r) /\ Decided(r)

BatchTogether(r) ==
    r.source.kind = "proposal" =>
        /\ <<r.source.id, r.decision>> \in r.batch
        /\ {<<q.source.id, q.decision>> : q \in {x \in reviews : x.batch = r.batch}} = r.batch
        /\ \A q \in r.batch : /\ q[1] \in DOMAIN proposals
                              /\ proposals[q[1]].revision = proposals[r.source.id].revision

ReviewsHold == \A r \in reviews : Certified(r) /\ BatchTogether(r)

\* The target of a review does not change.
LEMMA TargetStays ==
    ASSUME NEW r, Certified(r), EventsStay, ProposalsStay
    PROVE  ReviewTarget(r)' = ReviewTarget(r)
BY DEF Certified, VerifySource, ReviewTarget, EventsStay, ProposalsStay

\* What a review certified stays certified while events, rows and proposals stay.
LEMMA CertifiedStays ==
    ASSUME NEW r, Certified(r), EventsStay, RowsStay, ProposalsStay
    PROVE  Certified(r)'
<1>1. ReviewTarget(r)' = ReviewTarget(r)
  BY TargetStays
<1>2. VerifySource(r)'
  <2>1. CASE r.source.kind = "event"
    BY <2>1 DEF Certified, VerifySource, EventsStay
  <2>2. CASE r.source.kind # "event"
    <3>1. r.source.id \in DOMAIN proposals' /\ proposals'[r.source.id] = proposals[r.source.id]
      BY <2>2 DEF Certified, VerifySource, ProposalsStay
    <3>2. Draft(r.source.id, r.decision)' = Draft(r.source.id, r.decision)
      BY <3>1 DEF Draft
    <3> QED
      BY <2>2, <3>1, <3>2 DEF Certified, VerifySource
  <2> QED
    BY <2>1, <2>2
<1>3. Decided(r)'
  <2>1. CASE r.decision = "ignore"
    BY <2>1 DEF Certified, Decided
  <2>2. CASE r.decision # "ignore"
    <3>1. /\ r.event \in DOMAIN events' /\ events'[r.event].shot = r.shot
          /\ events'[r.event].value.target = ReviewTarget(r)
      BY <2>2 DEF Certified, Decided, EventsStay
    <3>2. ASSUME r.transition # None
          PROVE  \E t \in transitions' : /\ t.id = r.transition
                                         /\ [kind |-> t.family, id |-> t.owner] = ReviewTarget(r)
      <4>1. PICK t \in transitions : t.id = r.transition /\ [kind |-> t.family, id |-> t.owner] = ReviewTarget(r)
        BY <2>2, <3>2 DEF Certified, Decided
      <4>2. PICK u \in transitions' : u.id = t.id /\ u.family = t.family /\ u.owner = t.owner
        BY DEF RowsStay
      <4> QED
        BY <4>1, <4>2
    <3>3. (r.transition # None) = (r.decision = "adopt_persistence")
      BY <2>2 DEF Certified, Decided
    <3> QED
      BY <1>1, <2>2, <3>1, <3>2, <3>3 DEF Decided
  <2> QED
    BY <2>1, <2>2
<1> QED
  BY <1>2, <1>3 DEF Certified

\* Reviews that nobody touches.
LEMMA ReviewsStay ==
    ASSUME ReviewsHold, UNCHANGED reviews, EventsStay, RowsStay, ProposalsStay
    PROVE  ReviewsHold'
<1> SUFFICES ASSUME NEW r \in reviews PROVE Certified(r)' /\ BatchTogether(r)'
  BY DEF ReviewsHold
<1>1. Certified(r) /\ BatchTogether(r)
  BY DEF ReviewsHold
<1>2. Certified(r)'
  BY <1>1, CertifiedStays
<1>3. BatchTogether(r)'
  <2> SUFFICES ASSUME r.source.kind = "proposal"
               PROVE  /\ <<r.source.id, r.decision>> \in r.batch
                      /\ {<<q.source.id, q.decision>> : q \in {x \in reviews' : x.batch = r.batch}} = r.batch
                      /\ \A q \in r.batch : /\ q[1] \in DOMAIN proposals'
                                            /\ proposals'[q[1]].revision = proposals'[r.source.id].revision
    BY DEF BatchTogether
  <2>1. r.source.id \in DOMAIN proposals
    BY <1>1 DEF Certified, VerifySource
  <2> QED
    BY <1>1, <2>1 DEF BatchTogether, ProposalsStay
<1> QED
  BY <1>2, <1>3

\* The batches of the reviews there are, while others join that are in none of them.
LEMMA BatchesStay ==
    ASSUME ReviewsHold, UNCHANGED proposals, EventsStay, RowsStay, NEW N, reviews' = reviews \cup N,
           \A r \in reviews, n \in N : r.source.kind = "proposal" => r.batch # n.batch,
           NEW r \in reviews
    PROVE  Certified(r)' /\ BatchTogether(r)'
<1>1. ProposalsStay
  BY DEF ProposalsStay
<1>2. Certified(r)' /\ Certified(r) /\ BatchTogether(r)
  BY <1>1, CertifiedStays DEF ReviewsHold
<1>3. ASSUME r.source.kind = "proposal"
      PROVE  {x \in reviews' : x.batch = r.batch} = {x \in reviews : x.batch = r.batch}
  BY <1>3
<1>4. BatchTogether(r)'
  BY <1>2, <1>3 DEF BatchTogether
<1> QED
  BY <1>2, <1>4

\* The review of an event joins.
LEMMA EventReviewed ==
    ASSUME ReviewsHold, UNCHANGED proposals, EventsStay, RowsStay, NEW r, reviews' = reviews \cup {r},
           Certified(r)', r.source.kind = "event", r.batch = {}
    PROVE  ReviewsHold'
<1>1. \A q \in reviews, n \in {r} : q.source.kind = "proposal" => q.batch # n.batch
  BY DEF ReviewsHold, BatchTogether
<1>2. \A q \in reviews : Certified(q)' /\ BatchTogether(q)'
  BY <1>1, BatchesStay, ZenonT(40)
<1>3. BatchTogether(r)'
  BY DEF BatchTogether
<1> QED
  BY <1>2, <1>3 DEF ReviewsHold

\* The reviews N are the batch B, of proposals from one revision.
ReviewsOf(N, B) ==
    /\ \A r \in N : r.batch = B /\ r.source.kind = "proposal" /\ <<r.source.id, r.decision>> \in B
    /\ \A b \in B : \E r \in N : b = <<r.source.id, r.decision>>
    /\ \A b, c \in B : b[1] \in DOMAIN proposals /\ proposals[b[1]].revision = proposals[c[1]].revision

\* The reviews of a batch of proposals join.
LEMMA BatchReviewed ==
    ASSUME ReviewsHold, UNCHANGED proposals, EventsStay, RowsStay, NEW N, NEW B, reviews' = reviews \cup N,
           ReviewsOf(N, B), \A r \in N : Certified(r)', \A r \in reviews : r.batch # B
    PROVE  ReviewsHold'
<1> USE DEF ReviewsOf
<1>1. \A q \in reviews, n \in N : q.source.kind = "proposal" => q.batch # n.batch
  OBVIOUS
<1>2. \A q \in reviews : Certified(q)' /\ BatchTogether(q)'
  BY <1>1, BatchesStay
<1>3. ASSUME NEW r \in N PROVE BatchTogether(r)'
  <2>1. {x \in reviews' : x.batch = r.batch} = N
    OBVIOUS
  <2>2. {<<q.source.id, q.decision>> : q \in N} = B
    OBVIOUS
  <2>3. r.batch = B /\ <<r.source.id, r.decision>> \in B
    OBVIOUS
  <2>4. \A b \in B : b[1] \in DOMAIN proposals /\ proposals[b[1]].revision = proposals[r.source.id].revision
    BY <2>3
  <2> QED
    BY <2>1, <2>2, <2>3, <2>4 DEF BatchTogether
<1> QED
  BY <1>2, <1>3 DEF ReviewsHold

-----------------------------------------------------------------------------
(* The steps of the reviews.                                               *)

ConsInv ==
    /\ CaptureInv /\ RowsNumbered
    /\ DOMAIN events \subseteq Event /\ EventSources
    /\ ProposalsHold /\ ReviewsHold

\* Captures stand while nothing but consequences changes.
LEMMA CapturesStand ==
    ASSUME CaptureInv, OnlyConsequences
    PROVE  CapturesKept'
<1>1. UNCHANGED <<shots, worlds, reads, shotRevs>>
  BY DEF OnlyConsequences, narrativeVars, spatialOnly, geometry, captureOnly
<1>2. \A y : Captured(y) => Captured(y)'
  BY <1>1, CapturedStays DEF WorldsStay
<1> QED
  BY <1>1, <1>2 DEF CaptureInv, CapturesKept, RevisionsOf, InARow

\* Hand-offs are rows like those that clients write.
LEMMA AdoptionKeepsCapture ==
    ASSUME CaptureInv, NEW s, NEW set, HandoffsMay(s, set), AdoptHandoffs(s, set), OnlyConsequences,
           EventsTyped', EventsFit'
    PROVE  CaptureInv'
<1>1. /\ ContinuityInv /\ GeometryInv /\ StagingInv /\ RelationStates
  BY DEF CaptureInv, IntraInv, SpatialInv
<1>2. KeepStory
  BY DEF OnlyConsequences, KeepStory
<1>3. ContinuityInv' /\ RelationStates' /\ \A t \in Active' : t \in Active \/ t.family \in Kinds
  BY <1>1, <1>2, AdoptionKeepsRows
<1>4. /\ UNCHANGED <<worlds, worldStates, frames, axes, worldRevs, freeze>>
      /\ UNCHANGED <<tracks, plans>>
  BY DEF OnlyConsequences, spatialOnly, geometry
<1>5. GeometryInv'
  BY <1>1, <1>4 DEF GeometryInv, GeometryTyped, StateRow, FramesRooted, StateStands
<1>6. \A t \in Active' : t.family = "staging" => t.owner \in Live(tracks)
  BY <1>1, <1>3 DEF StagingInv, AuthorityHangsTogether, Kinds
<1>7. StagingInv'
  BY <1>1, <1>4, <1>6, AuthorityStays
<1> QED
  BY <1>3, <1>5, <1>7, CapturesStand DEF CaptureInv, IntraInv, SpatialInv

\* Events that are drafted or there.
LEMMA EventTargetsValid ==
    ASSUME IntraInv, NEW s, NEW set, Prospective(s, set), NEW v \in set, NEW w \in set, v \in EventValue,
           w \in EventValue, v.target = w.target, v.mode = "require_handoff", w.mode = "require_handoff"
    PROVE  v = w
<1>1. Later(set, v) = {} /\ Later(set, w) = {}
  BY DEF Prospective, Folds
<1>2. v.time \in Nat /\ w.time \in Nat
  BY DEF EventValue
<1>3. ~(v.time < w.time) /\ ~(w.time < v.time)
  BY <1>1 DEF Later
<1>4. v.time = w.time
  BY <1>2, <1>3
<1> QED
  BY <1>4 DEF Prospective, Separate

\* Adopting the persistence of an event keeps the inductive invariant.
LEMMA AdoptEventKeeps ==
    ASSUME ConsInv, NEW x, AdoptEvent(x)
    PROVE  ConsInv'
<1>1. PICK s, v : s = events[x].shot /\ v = events[x].value
  OBVIOUS
<1>2. x \in Live(events) /\ x \in DOMAIN events /\ s \in Live(shots)
  BY <1>1 DEF AdoptEvent, Reviewable, Live
<1>3. s \in Shot /\ v \in EventValue /\ v \in ValuesOf(s)
  BY <1>1, <1>2 DEF ConsInv, CaptureInv, IntraInv, EventsTyped, EventRow, ValuesOf, EventsOf
<1>4. /\ Prospective(s, ValuesOf(s)) /\ Assigned(s) /\ AdoptHandoffs(s, {v})
      /\ reviews' = reviews \cup {EventReview(x, "adopt_persistence", v, AdoptedId(s, {v}, v))}
      /\ OnlyConsequences /\ UNCHANGED <<events, proposals>>
  BY <1>1 DEF AdoptEvent
<1>5. HandoffsMay(s, {v})
  <2>1. TargetValid(s, v.target)
    BY <1>3, <1>4 DEF Prospective
  <2>2. IsFiniteSet({v})
    BY FS_Singleton
  <2> QED
    BY <1>2, <1>3, <1>4, <2>1, <2>2 DEF HandoffsMay
<1>6. ContinuityInv /\ EventsTyped /\ EventsFit /\ RowsNumbered
  BY DEF ConsInv, CaptureInv, IntraInv, SpatialInv
<1>7. CaptureInv'
  <2>1. UNCHANGED duration
    BY <1>4 DEF OnlyConsequences
  <2>2. EventsTyped' /\ EventsFit'
    BY <1>4, <1>6, <2>1 DEF EventsTyped, EventRow, EventsFit
  <2> QED
    BY <1>4, <1>5, <2>2, AdoptionKeepsCapture DEF ConsInv
<1>8. RowsNumbered' /\ RowsStay
  BY <1>4, <1>5, <1>6, AdoptionKeepsIdentity
<1>9. PICK t \in transitions' : t.id = AdoptedId(s, {v}, v) /\ t.id \in Nat /\ HandedBy(s, v, t)
  BY <1>4, <1>5, <1>6, AdoptionHandsEach
<1>10. PICK r : r = EventReview(x, "adopt_persistence", v, t.id)
  OBVIOUS
<1>11. /\ r.shot = s /\ r.source = [kind |-> "event", id |-> x] /\ r.hash = v /\ r.decision = "adopt_persistence"
       /\ r.event = x /\ r.result = v /\ r.transition = t.id /\ r.batch = {}
  BY <1>1, <1>10 DEF EventReview
<1>12. EventsStay /\ ProposalsStay
  BY <1>4 DEF EventsStay, ProposalsStay
<1>13. Certified(r)'
  <2>1. r.source.kind = "event" /\ r.source.id = x
    BY <1>11
  <2>2. ReviewTarget(r)' = v.target
    BY <1>1, <1>4, <2>1 DEF ReviewTarget
  <2>3. VerifySource(r)'
    BY <1>1, <1>2, <1>4, <1>11, <2>1 DEF VerifySource, EventDecisions
  <2>4. [kind |-> t.family, id |-> t.owner] = v.target
    <3>1. v.target = [kind |-> v.target.kind, id |-> v.target.id]
      BY <1>3 DEF EventValue
    <3> QED
      BY <1>9, <3>1 DEF HandedBy
  <2>5. t.id # None
    BY <1>9, ConsequencesAssumption
  <2>6. Decided(r)'
    BY <1>1, <1>2, <1>4, <1>9, <1>11, <2>2, <2>4, <2>5 DEF Decided
  <2> QED
    BY <1>11, <2>1, <2>3, <2>6 DEF Certified
<1>14. ReviewsHold'
  <2>1. reviews' = reviews \cup {r}
    BY <1>4, <1>9, <1>10
  <2>2. ReviewsHold /\ UNCHANGED proposals
    BY <1>4 DEF ConsInv
  <2>3. r.source.kind = "event"
    BY <1>11
  <2> QED
    BY <1>8, <1>11, <1>12, <1>13, <2>1, <2>2, <2>3, EventReviewed
<1>15. EventSources' /\ (DOMAIN events \subseteq Event)'
  BY <1>4 DEF ConsInv, EventSources
<1>16. ProposalsHold'
  BY <1>4 DEF ConsInv, ProposalsHold, Draft, OnlyConsequences, captureOnly
<1> QED
  BY <1>7, <1>8, <1>14, <1>15, <1>16 DEF ConsInv

\* Without a hand-off the rows are what they were.
LEMMA RowsUntouched ==
    ASSUME ConsInv, OnlyConsequences, UNCHANGED transitions, EventsTyped', EventsFit'
    PROVE  CaptureInv' /\ RowsNumbered' /\ RowsStay
<1>1. UNCHANGED instanceVars
  BY DEF OnlyConsequences, instanceVars, spatialVars, continuityVars
<1>2. SpatialInv' /\ RelationStates'
  BY <1>1, InstanceKeeps, InstanceKeepsRelationStates DEF ConsInv, CaptureInv, IntraInv
<1>3. CapturesKept'
  BY CapturesStand DEF ConsInv
<1>4. RowsNumbered' /\ RowsStay
  BY DEF ConsInv, RowsNumbered, RowsStay
<1> QED
  BY <1>2, <1>3, <1>4 DEF CaptureInv, IntraInv

\* Proposals that nobody adds to.
LEMMA ProposalsStand ==
    ASSUME ConsInv, OnlyConsequences, UNCHANGED proposals
    PROVE  ProposalsHold' /\ ProposalsStay
BY DEF ConsInv, ProposalsHold, Draft, OnlyConsequences, captureOnly, ProposalsStay

\* So does declining it,
LEMMA DeclineEventKeeps ==
    ASSUME ConsInv, NEW x, DeclineEvent(x)
    PROVE  ConsInv'
<1>1. PICK e, v : e = events[x] /\ v = [e.value EXCEPT !.mode = "transient"]
  OBVIOUS
<1>2. x \in Live(events) /\ x \in DOMAIN events
  BY DEF DeclineEvent, Reviewable, Live
<1>3. /\ Prospective(e.shot, Others(x) \cup {v}) /\ events' = [events EXCEPT ![x].value = v]
      /\ reviews' = reviews \cup {EventReview(x, "decline_persistence", v, None)}
      /\ OnlyConsequences /\ UNCHANGED <<transitions, proposals>>
  BY <1>1 DEF DeclineEvent
<1>4. EventRow(e) /\ e.value \in EventValue /\ e.live
  BY <1>1, <1>2 DEF ConsInv, CaptureInv, IntraInv, EventsTyped, EventRow, Live
<1>5. v \in EventValue /\ v.target = e.value.target /\ v.time = e.value.time
  <2>1. PICK w : w = e.value
    OBVIOUS
  <2>2. w \in EventValue
    BY <1>4, <2>1
  <2>3. v = [target |-> w.target, time |-> w.time, before |-> w.before, after |-> w.after, mode |-> "transient"]
    BY <1>1, <2>1, <2>2 DEF EventValue
  <2>4. v \in [target : [kind : Kinds, id : Feature \cup Relation \cup InstanceFeature], time : Nat,
            before : AllStates, after : AllStates, mode : Modes]
    BY <2>2, <2>3 DEF EventValue, Modes
  <2> QED
    BY <2>1, <2>2, <2>3, <2>4 DEF EventValue
<1>6. PICK row : row = [e EXCEPT !.value = v]
  OBVIOUS
<1>7. row = [shot |-> e.shot, value |-> v, source |-> e.source, live |-> TRUE]
  <2>1. e.live = TRUE
    BY <1>4 DEF EventRow
  <2> QED
    BY <1>4, <1>6, <2>1 DEF EventRow
<1>8. events' = [events EXCEPT ![x] = row]
  BY <1>1, <1>3, <1>6
<1>9. /\ DOMAIN events' = DOMAIN events /\ events'[x] = row
      /\ \A y \in DOMAIN events : y # x => events'[y] = events[y]
  BY <1>2, <1>8
<1>10. EventsTyped' /\ EventsFit'
  <2>1. EventsTyped /\ EventsFit /\ UNCHANGED duration
    BY <1>3 DEF ConsInv, CaptureInv, IntraInv, OnlyConsequences
  <2>2. v.time \in 1..(duration[events[x].shot] - 1)
    BY <1>1, <1>2, <1>5, <2>1 DEF EventsFit
  <2>3. \A u \in Others(x) : u.time # v.time
    BY <1>1, <1>2, <1>5, <2>1 DEF EventsFit, Others, EventsOf
  <2>4. events'[x] = [shot |-> events[x].shot, value |-> v, source |-> e.source, live |-> TRUE]
    BY <1>1, <1>7, <1>9
  <2> QED
    BY <1>2, <1>5, <1>9, <2>1, <2>2, <2>3, <2>4, ValueChangeKeeps
<1>11. CaptureInv' /\ RowsNumbered' /\ RowsStay
  BY <1>3, <1>10, RowsUntouched
<1>12. EventsStay /\ EventSources' /\ (DOMAIN events \subseteq Event)'
  <2>1. row.shot = e.shot /\ row.value.target = e.value.target /\ row.source = e.source
    BY <1>5, <1>7
  <2> QED
    BY <1>1, <1>2, <1>3, <1>9, <2>1 DEF ConsInv, EventsStay, EventSources
<1>13. ProposalsHold' /\ ProposalsStay
  BY <1>3, ProposalsStand
<1>14. PICK r : r = EventReview(x, "decline_persistence", v, None)
  OBVIOUS
<1>15. /\ r.shot = e.shot /\ r.source = [kind |-> "event", id |-> x] /\ r.decision = "decline_persistence"
       /\ r.event = x /\ r.transition = None /\ r.batch = {}
  BY <1>1, <1>14 DEF EventReview
<1>16. r.source.kind = "event" /\ r.source.id = x
  BY <1>15
<1>17. Certified(r)'
  <2>1. events'[x].shot = e.shot
    BY <1>7, <1>9
  <2>2. VerifySource(r)'
    BY <1>2, <1>9, <1>15, <1>16, <2>1 DEF VerifySource, EventDecisions
  <2>3. ReviewTarget(r)' = events'[x].value.target
    BY <1>16 DEF ReviewTarget
  <2>4. Decided(r)'
    BY <1>2, <1>9, <1>15, <2>1, <2>3 DEF Decided
  <2> QED
    BY <1>15, <1>16, <2>2, <2>4 DEF Certified
<1>18. ReviewsHold'
  <2>1. reviews' = reviews \cup {r} /\ ReviewsHold /\ UNCHANGED proposals
    BY <1>3, <1>14 DEF ConsInv
  <2> QED
    BY <1>11, <1>12, <1>15, <1>16, <1>17, <2>1, EventReviewed
<1> QED
  BY <1>11, <1>12, <1>13, <1>18 DEF ConsInv

\* and recording a proposal.
LEMMA IngestProposalKeeps ==
    ASSUME ConsInv, NEW p, NEW s \in Shot, NEW rev \in shotRevs, NEW v \in EventValue,
           IngestProposal(p, s, rev, [x \in {"target", "time", "before", "after"} |-> v[x]])
    PROVE  ConsInv'
<1>1. PICK c : c = [x \in {"target", "time", "before", "after"} |-> v[x]]
  OBVIOUS
<1>2. c.target = v.target /\ c.time = v.time /\ c.before = v.before /\ c.after = v.after
  BY <1>1
<1>3. PICK row : row = [shot |-> s, revision |-> rev, candidate |-> c]
  OBVIOUS
<1>4. /\ p \notin DOMAIN proposals /\ c.time \in 1..(rev.value.duration - 1)
      /\ proposals' = With(proposals, p, row)
      /\ OnlyConsequences /\ UNCHANGED <<transitions, events, reviews>>
  BY <1>1, <1>3 DEF IngestProposal
<1>5. /\ DOMAIN proposals' = DOMAIN proposals \cup {p} /\ proposals'[p] = row
      /\ \A q \in DOMAIN proposals : proposals'[q] = proposals[q]
  BY <1>4 DEF With
<1>6. row.shot = s /\ row.revision = rev /\ row.candidate = c
  BY <1>3
<1>7. ASSUME NEW d \in ProposalDecisions PROVE Draft(p, d)' \in EventValue
  <2>1. PICK m : m = IF d = "adopt_persistence" THEN "require_handoff" ELSE "transient"
    OBVIOUS
  <2>2. m \in Modes
    BY <2>1 DEF Modes
  <2>3. PICK w : w = [target |-> v.target, time |-> v.time, before |-> v.before, after |-> v.after, mode |-> m]
    OBVIOUS
  <2>4. Draft(p, d)' = w
    BY <1>2, <1>5, <1>6, <2>1, <2>3 DEF Draft
  <2>5. /\ v.target \in [kind : Kinds, id : Feature \cup Relation \cup InstanceFeature] /\ v.time \in Nat
        /\ v.before \in AllStates /\ v.after \in AllStates
        /\ {v.before, v.after} \subseteq StatesOfKind(v.target.kind)
    BY DEF EventValue
  <2>6. w.target = v.target /\ w.before = v.before /\ w.after = v.after
    BY <2>3
  <2>7. w \in [target : [kind : Kinds, id : Feature \cup Relation \cup InstanceFeature], time : Nat,
            before : AllStates, after : AllStates, mode : Modes]
    BY <2>2, <2>3, <2>5
  <2> QED
    BY <2>4, <2>5, <2>6, <2>7 DEF EventValue
<1>8. UNCHANGED shotRevs
  BY <1>4 DEF OnlyConsequences, captureOnly
<1>9. ASSUME NEW q \in DOMAIN proposals, NEW d \in ProposalDecisions PROVE Draft(q, d)' \in EventValue
  <2>1. Draft(q, d)' = Draft(q, d)
    BY <1>5 DEF Draft
  <2> QED
    BY <2>1 DEF ConsInv, ProposalsHold
<1>10. ProposalsHold'
  <2>1. IsFiniteSet(DOMAIN proposals')
    BY <1>5, FS_AddElement DEF ConsInv, ProposalsHold
  <2>2. ASSUME NEW q \in DOMAIN proposals'
        PROVE  /\ proposals'[q].shot \in Shot /\ proposals'[q].revision \in shotRevs'
               /\ proposals'[q].candidate.time \in 1..(proposals'[q].revision.value.duration - 1)
    <3>1. CASE q = p
      BY <1>4, <1>5, <1>6, <1>8, <3>1
    <3>2. CASE q \in DOMAIN proposals
      BY <1>5, <1>8, <3>2 DEF ConsInv, ProposalsHold
    <3> QED
      BY <1>5, <3>1, <3>2
  <2>3. ASSUME NEW q \in DOMAIN proposals', NEW d \in ProposalDecisions PROVE Draft(q, d)' \in EventValue
    BY <1>5, <1>7, <1>9
  <2> QED
    BY <2>1, <2>2, <2>3 DEF ProposalsHold, EventValue
<1>11. ProposalsStay
  BY <1>5 DEF ProposalsStay
<1>12. EventsStay /\ EventSources' /\ (DOMAIN events \subseteq Event)'
  BY <1>4, <1>5 DEF ConsInv, EventsStay, EventSources
<1>13. CaptureInv' /\ RowsNumbered' /\ RowsStay
  <2>1. EventsTyped' /\ EventsFit'
    BY <1>4 DEF ConsInv, CaptureInv, IntraInv, EventsTyped, EventRow, EventsFit, OnlyConsequences
  <2> QED
    BY <1>4, <2>1, RowsUntouched
<1>14. ReviewsHold'
  BY <1>4, <1>11, <1>12, <1>13, ReviewsStay DEF ConsInv
<1> QED
  BY <1>10, <1>12, <1>13, <1>14 DEF ConsInv

-----------------------------------------------------------------------------
(* A batch of proposals.                                                   *)

\* What a batch that may be written says of its drafts.
BatchMay(s, decide) ==
    /\ s \in Shot /\ DOMAIN decide # {} /\ DOMAIN decide \subseteq DOMAIN proposals
    /\ \A p \in DOMAIN decide : decide[p] \in ProposalDecisions
    /\ Batch(s, decide)

\* A draft is a value with the decision in its mode.
LEMMA DraftMade ==
    ASSUME ConsInv, NEW s, NEW decide, BatchMay(s, decide), NEW p \in DOMAIN decide
    PROVE  /\ p \in DOMAIN proposals /\ decide[p] \in ProposalDecisions
           /\ proposals[p].shot = s
           /\ Draft(p, decide[p]) \in EventValue
           /\ Draft(p, decide[p]).target = proposals[p].candidate.target
           /\ Draft(p, decide[p]).time = proposals[p].candidate.time
           /\ Draft(p, decide[p]) \in HandedOff(decide) <=> decide[p] = "adopt_persistence"
<1>1. p \in DOMAIN proposals /\ decide[p] \in ProposalDecisions /\ proposals[p].shot = s
  BY DEF BatchMay, Batch
<1>2. PICK d : d = Draft(p, decide[p])
  OBVIOUS
<1>3. d \in EventValue
  BY <1>1, <1>2 DEF ConsInv, ProposalsHold
<1>4. /\ d.target = proposals[p].candidate.target /\ d.time = proposals[p].candidate.time
      /\ d.mode = IF decide[p] = "adopt_persistence" THEN "require_handoff" ELSE "transient"
  BY <1>2 DEF Draft
<1>5. decide[p] = "adopt_persistence" => d \in HandedOff(decide)
  BY <1>2, <1>4 DEF HandedOff, Drafts, Adopting
<1>6. d \in HandedOff(decide) => decide[p] = "adopt_persistence"
  BY <1>4 DEF HandedOff
<1> QED
  BY <1>1, <1>2, <1>3, <1>4, <1>5, <1>6

\* The drafts that persist may be handed off together.
LEMMA DraftsMay ==
    ASSUME ConsInv, NEW s, NEW decide, BatchMay(s, decide), HandedOff(decide) # {}
    PROVE  HandoffsMay(s, HandedOff(decide))
<1>1. PICK W : W = HandedOff(decide)
  OBVIOUS
<1>2. s \in Live(shots) /\ s \in Shot /\ Assigned(s)
  BY DEF BatchMay, Batch
<1>3. Prospective(s, ValuesOf(s) \cup Drafts(decide))
  BY DEF BatchMay, Batch
<1>4. W \subseteq Drafts(decide) /\ \A v \in W : v.mode = "require_handoff"
  BY <1>1 DEF HandedOff
<1>5. Drafts(decide) \subseteq EventValue
  BY DraftMade DEF Drafts, Adopting
<1>6. IsFiniteSet(W)
  <2>1. PICK A : A = Adopting(decide)
    OBVIOUS
  <2>2. IsFiniteSet(A)
    BY <2>1, FS_Subset DEF Adopting, BatchMay, ConsInv, ProposalsHold
  <2>3. PICK F : F = [p \in A |-> Draft(p, decide[p])]
    OBVIOUS
  <2>4. F \in Surjection(A, Drafts(decide))
    BY <2>1, <2>3 DEF Surjection, Drafts
  <2>5. IsFiniteSet(Drafts(decide))
    BY <2>2, <2>4, FS_Surjection
  <2> QED
    BY <1>4, <2>5, FS_Subset
<1>7. \A v \in W : TargetValid(s, v.target)
  BY <1>3, <1>4 DEF Prospective
<1>8. ASSUME NEW v \in W, NEW w \in W, v.target = w.target PROVE v = w
  <2>1. PICK S : S = ValuesOf(s) \cup Drafts(decide)
    OBVIOUS
  <2>2. v \in S /\ w \in S /\ v \in EventValue /\ w \in EventValue
    BY <1>4, <1>5, <2>1
  <2>3. IntraInv /\ Prospective(s, S)
    BY <1>3, <2>1 DEF ConsInv, CaptureInv
  <2> QED
    BY <1>4, <1>8, <2>2, <2>3, EventTargetsValid
<1> QED
  BY <1>1, <1>2, <1>4, <1>5, <1>6, <1>7, <1>8 DEF HandoffsMay

\* Nothing is handed off where nothing persists.
LEMMA NothingHandedOff ==
    ASSUME ConsInv, NEW s, NEW decide, HandedOff(decide) = {}, AdoptHandoffs(s, HandedOff(decide))
    PROVE  UNCHANGED transitions
BY DEF AdoptHandoffs, Missing

\* The drafts of a batch are events now, each under an id of its own.
Inserted(s, decide, ids) ==
    /\ DOMAIN events' = DOMAIN events \cup {ids[p] : p \in Adopting(decide)}
    /\ \A x \in DOMAIN events : events'[x] = events[x]
    /\ \A p \in Adopting(decide) :
          /\ ids[p] \in Event \ DOMAIN events
          /\ events'[ids[p]] = [shot |-> s, value |-> Draft(p, decide[p]), source |-> p, live |-> TRUE]
    /\ \A p, q \in Adopting(decide) : ids[p] = ids[q] => p = q

\* The events a batch inserts.
LEMMA DraftsInserted ==
    ASSUME ConsInv, NEW s, NEW decide, BatchMay(s, decide),
           NEW ids \in Injection(Adopting(decide), Event \ DOMAIN events), InsertAdopted(s, decide, ids)
    PROVE  Inserted(s, decide, ids)
<1>1. PICK A : A = Adopting(decide)
  OBVIOUS
<1>2. ids \in [A -> Event \ DOMAIN events] /\ \A p, q \in A : ids[p] = ids[q] => p = q
  BY <1>1 DEF Injection, IsInjective
<1>3. DOMAIN events' = DOMAIN events \cup {ids[p] : p \in A} /\ \A x \in DOMAIN events : events'[x] = events[x]
  BY <1>1 DEF InsertAdopted
<1>4. ASSUME NEW p \in A
      PROVE  events'[ids[p]] = [shot |-> s, value |-> Draft(p, decide[p]), source |-> p, live |-> TRUE]
  <2>1. ids[p] \in DOMAIN events' /\ ids[p] \notin DOMAIN events
    BY <1>2, <1>3
  <2>2. PICK q : q = CHOOSE r \in A : ids[r] = ids[p]
    OBVIOUS
  <2>3. q \in A /\ ids[q] = ids[p]
    BY <2>2
  <2>4. q = p
    BY <1>2, <2>3
  <2> QED
    BY <1>1, <2>1, <2>2, <2>4 DEF InsertAdopted
<1> QED
  BY <1>1, <1>2, <1>3, <1>4 DEF Inserted

\* The events that a batch inserts are typed, fit their shot and name their proposals.
LEMMA DraftsFit ==
    ASSUME ConsInv, NEW s, NEW decide, BatchMay(s, decide), UNCHANGED duration, UNCHANGED proposals,
           NEW ids \in Injection(Adopting(decide), Event \ DOMAIN events), InsertAdopted(s, decide, ids)
    PROVE  EventsTyped' /\ EventsFit' /\ EventsStay /\ EventSources' /\ (DOMAIN events \subseteq Event)'
<1>1. PICK A : A = Adopting(decide) /\ A \subseteq DOMAIN decide
  BY DEF Adopting
<1>2. /\ DOMAIN events' = DOMAIN events \cup {ids[p] : p \in A}
      /\ \A x \in DOMAIN events : events'[x] = events[x]
      /\ \A p \in A : ids[p] \in Event \ DOMAIN events
      /\ \A p \in A : events'[ids[p]] = [shot |-> s, value |-> Draft(p, decide[p]), source |-> p, live |-> TRUE]
      /\ \A p, q \in A : ids[p] = ids[q] => p = q
  <2>1. Inserted(s, decide, ids)
    BY DraftsInserted
  <2> QED
    BY <1>1, <2>1 DEF Inserted
<1>3. /\ EventsTyped /\ EventsFit /\ EventSources /\ DOMAIN events \subseteq Event
  BY DEF ConsInv, CaptureInv, IntraInv
<1>4. ASSUME NEW p \in A
      PROVE  /\ EventRow(events'[ids[p]]) /\ events'[ids[p]].shot = s /\ events'[ids[p]].live
             /\ events'[ids[p]].value.time = proposals[p].candidate.time
             /\ events'[ids[p]].value.time \in 1..(duration[s] - 1)
             /\ events'[ids[p]].source = p /\ p \in DOMAIN proposals
  <2>1. PICK d, row : d = Draft(p, decide[p]) /\ row = [shot |-> s, value |-> d, source |-> p, live |-> TRUE]
    OBVIOUS
  <2>2. events'[ids[p]] = row
    BY <1>2, <2>1
  <2>3. d \in EventValue /\ d.time = proposals[p].candidate.time /\ p \in DOMAIN proposals
    BY <1>1, <2>1, DraftMade
  <2>4. row.shot = s /\ row.value = d /\ row.source = p /\ row.live = TRUE
    BY <2>1
  <2>5. EventRow(row)
    BY <2>1, <2>3, <2>4 DEF EventRow, BatchMay
  <2>6. d \in Drafts(decide)
    BY <1>1, <2>1 DEF Drafts
  <2>7. d.time \in 1..(duration[s] - 1)
    BY <2>6 DEF BatchMay, Batch, Prospective
  <2> QED
    BY <2>2, <2>3, <2>4, <2>5, <2>7
<1>5. \A x \in DOMAIN events' : x \notin DOMAIN events => \E p \in A : x = ids[p]
  BY <1>2
<1>6. EventsTyped'
  <2>1. \A x \in DOMAIN events' : EventRow(events'[x])
    BY <1>2, <1>3, <1>4, <1>5 DEF EventsTyped
  <2> QED
    BY <1>3, <2>1 DEF EventsTyped, EventRow
<1>7. \A x \in Live(events') : \/ x \in Live(events) /\ events'[x] = events[x]
                               \/ \E p \in A : x = ids[p]
  BY <1>2, <1>5 DEF Live
<1>8. \A x \in Live(events) : events[x].shot = s =>
          /\ events[x].value.time \in 1..(duration[s] - 1)
          /\ \A p \in A : events[x].value.time # proposals[p].candidate.time
  <2> SUFFICES ASSUME NEW x \in Live(events), events[x].shot = s
               PROVE  /\ events[x].value.time \in 1..(duration[s] - 1)
                      /\ \A p \in A : events[x].value.time # proposals[p].candidate.time
    OBVIOUS
  <2>1. events[x].value.time \in 1..(duration[s] - 1)
    BY <1>3 DEF EventsFit
  <2>2. events[x].value \in ValuesOf(s)
    BY DEF ValuesOf, EventsOf
  <2>3. \A p \in A : proposals[p].candidate.time \notin {u.time : u \in ValuesOf(s)}
    BY <1>1 DEF BatchMay, Batch
  <2> QED
    BY <2>1, <2>2, <2>3
<1>9. \A p, q \in A : proposals[p].candidate.time = proposals[q].candidate.time => p = q
  BY <1>1 DEF BatchMay, Batch
<1>10. EventsFit'
  <2>1. \A x \in Live(events') : events'[x].shot # s =>
               x \in Live(events) /\ events'[x].shot = events[x].shot /\ events'[x].value = events[x].value
    BY <1>4, <1>7
  <2>2. \A x \in Live(events') : events'[x].shot = s => events'[x].value.time \in 1..(duration[s] - 1)
    BY <1>4, <1>7, <1>8
  <2>3. ASSUME NEW x \in Live(events'), NEW y \in Live(events'), events'[x].shot = s, events'[y].shot = s,
               events'[x].value.time = events'[y].value.time
        PROVE  x = y
    <3>1. CASE x \in Live(events) /\ events'[x] = events[x] /\ y \in Live(events) /\ events'[y] = events[y]
      BY <1>3, <2>3, <3>1 DEF EventsFit
    <3>2. ASSUME NEW p \in A, x = ids[p], y \in Live(events), events'[y] = events[y] PROVE FALSE
      BY <1>4, <1>8, <2>3, <3>2
    <3>3. ASSUME NEW p \in A, y = ids[p], x \in Live(events), events'[x] = events[x] PROVE FALSE
      BY <1>4, <1>8, <2>3, <3>3
    <3>4. ASSUME NEW p \in A, NEW q \in A, x = ids[p], y = ids[q] PROVE x = y
      BY <1>4, <1>9, <2>3, <3>4
    <3> QED
      BY <1>7, <3>1, <3>2, <3>3, <3>4
  <2> QED
    BY <1>3, <2>1, <2>2, <2>3, FitKeeps
<1>11. EventsStay
  BY <1>2 DEF EventsStay
<1>12. EventSources'
  BY <1>2, <1>3, <1>4, <1>5 DEF EventSources
<1>13. (DOMAIN events \subseteq Event)'
  BY <1>2, <1>3
<1> QED
  BY <1>6, <1>10, <1>11, <1>12, <1>13

-----------------------------------------------------------------------------
(* Its reviews.                                                            *)

\* Every value of the set is handed off by the row that is recorded for it.
AllHanded(s, set) ==
    \A v \in set : \E t \in transitions' : t.id = AdoptedId(s, set, v) /\ t.id \in Nat /\ HandedBy(s, v, t)

\* What the rows of a batch are after it.
LEMMA BatchRows ==
    ASSUME ConsInv, NEW s, NEW decide, BatchMay(s, decide), AdoptHandoffs(s, HandedOff(decide)),
           OnlyConsequences, EventsTyped', EventsFit'
    PROVE  /\ CaptureInv' /\ RowsNumbered' /\ RowsStay
           /\ AllHanded(s, HandedOff(decide))
<1>1. CASE HandedOff(decide) = {}
  BY <1>1, NothingHandedOff, RowsUntouched DEF AllHanded
<1>2. CASE HandedOff(decide) # {}
  <2>1. PICK W : W = HandedOff(decide)
    OBVIOUS
  <2>2. HandoffsMay(s, W) /\ AdoptHandoffs(s, W)
    BY <1>2, <2>1, DraftsMay
  <2>3. ContinuityInv /\ CaptureInv /\ RowsNumbered
    BY DEF ConsInv, CaptureInv, IntraInv, SpatialInv
  <2>4. CaptureInv'
    BY <2>2, <2>3, AdoptionKeepsCapture
  <2>5. RowsNumbered' /\ RowsStay
    BY <2>2, <2>3, AdoptionKeepsIdentity
  <2>6. AllHanded(s, W)
    BY <2>2, <2>3, AdoptionHandsEach DEF AllHanded
  <2> QED
    BY <2>1, <2>4, <2>5, <2>6
<1> QED
  BY <1>1, <1>2

\* The review of one member, in the batch B.
MemberReview(r, p, d, B) == r.source.kind = "proposal" /\ r.source.id = p /\ r.decision = d /\ r.batch = B
BatchPairs(decide) == {<<q, decide[q]>> : q \in DOMAIN decide}

\* It is certified by the event and the transition it names.
LEMMA MemberCertified ==
    ASSUME ConsInv, NEW s, NEW decide, BatchMay(s, decide), UNCHANGED proposals,
           NEW ids \in Injection(Adopting(decide), Event \ DOMAIN events), InsertAdopted(s, decide, ids),
           AllHanded(s, HandedOff(decide)),
           NEW p \in DOMAIN decide, NEW r, r = ProposalReview(p, decide, ids, s)
    PROVE  Certified(r)' /\ MemberReview(r, p, decide[p], BatchPairs(decide))
<1>1. PICK v, W : v = Draft(p, decide[p]) /\ W = HandedOff(decide)
  OBVIOUS
<1>2. /\ r.shot = s /\ r.source = [kind |-> "proposal", id |-> p] /\ r.hash = proposals[p].candidate
      /\ r.decision = decide[p] /\ r.batch = {<<q, decide[q]>> : q \in DOMAIN decide}
      /\ r.event = IF p \in Adopting(decide) THEN ids[p] ELSE None
      /\ r.result = IF p \in Adopting(decide) THEN v ELSE None
      /\ r.transition = IF v \in W THEN AdoptedId(s, W, v) ELSE None
  BY <1>1 DEF ProposalReview
<1>3. r.source.kind = "proposal" /\ r.source.id = p
  BY <1>2
<1>4. /\ p \in DOMAIN proposals /\ decide[p] \in ProposalDecisions /\ proposals[p].shot = s
      /\ v \in EventValue /\ v.target = proposals[p].candidate.target
      /\ v \in W <=> decide[p] = "adopt_persistence"
  BY <1>1, DraftMade
<1>5. p \in Adopting(decide) <=> decide[p] # "ignore"
  BY DEF Adopting
<1>6. Draft(p, decide[p])' = v
  BY <1>1 DEF Draft
<1>7. VerifySource(r)'
  <2>1. decide[p] # "ignore" => r.result = v
    BY <1>2, <1>5
  <2> QED
    BY <1>2, <1>3, <1>4, <1>6, <2>1 DEF VerifySource
<1>8. ReviewTarget(r)' = v.target
  BY <1>3, <1>4 DEF ReviewTarget
<1>9. Decided(r)'
  <2>1. CASE decide[p] = "ignore"
    BY <1>2, <1>4, <1>5, <2>1 DEF Decided
  <2>2. CASE decide[p] # "ignore"
    <3>0. Inserted(s, decide, ids)
      BY DraftsInserted
    <3>1. ids[p] \in DOMAIN events' /\ p \in Adopting(decide)
      BY <1>5, <2>2, <3>0 DEF Inserted
    <3>2. PICK row : row = [shot |-> s, value |-> v, source |-> p, live |-> TRUE]
      OBVIOUS
    <3>3. events'[ids[p]] = row /\ row.shot = s /\ row.value = v
      BY <1>1, <3>0, <3>1, <3>2 DEF Inserted
    <3>4. /\ r.event \in DOMAIN events' /\ events'[r.event].shot = r.shot
          /\ events'[r.event].value.target = v.target
      BY <1>2, <3>1, <3>3
    <3>5. ASSUME v \in W
          PROVE  /\ r.transition # None
                 /\ \E t \in transitions' : t.id = r.transition /\ [kind |-> t.family, id |-> t.owner] = v.target
      <4>1. PICK t \in transitions' : t.id = AdoptedId(s, W, v) /\ t.id \in Nat /\ HandedBy(s, v, t)
        BY <1>1, <3>5 DEF AllHanded
      <4>2. v.target = [kind |-> v.target.kind, id |-> v.target.id]
        BY <1>4 DEF EventValue
      <4>3. [kind |-> t.family, id |-> t.owner] = v.target
        BY <4>1, <4>2 DEF HandedBy
      <4>4. r.transition = t.id
        BY <1>2, <3>5, <4>1
      <4>5. t.id # None
        BY <4>1, ConsequencesAssumption
      <4> QED
        BY <4>3, <4>4, <4>5
    <3>6. v \notin W => r.transition = None
      BY <1>2
    <3>7. (r.transition # None) = (r.decision = "adopt_persistence")
      BY <1>2, <1>4, <3>5, <3>6
    <3>8. r.transition # None =>
              \E t \in transitions' : t.id = r.transition /\ [kind |-> t.family, id |-> t.owner] = v.target
      BY <3>5, <3>6
    <3>9. r.decision # "ignore"
      BY <1>2, <2>2
    <3> QED
      BY <1>8, <3>4, <3>7, <3>8, <3>9 DEF Decided
  <2> QED
    BY <2>1, <2>2
<1> QED
  BY <1>2, <1>3, <1>7, <1>9 DEF Certified, MemberReview, BatchPairs

\* A batch without decided members is the batch of no review.
LEMMA BatchIsNew ==
    ASSUME ConsInv, NEW s, NEW decide, BatchMay(s, decide), Unreviewed(decide) = DOMAIN decide,
           NEW r \in reviews
    PROVE  r.batch # {<<q, decide[q]>> : q \in DOMAIN decide}
<1> SUFFICES ASSUME r.batch = {<<q, decide[q]>> : q \in DOMAIN decide} PROVE FALSE
  OBVIOUS
<1>1. Certified(r) /\ BatchTogether(r)
  BY DEF ConsInv, ReviewsHold
<1>2. r.batch # {}
  <2>1. PICK p : p \in DOMAIN decide
    BY DEF BatchMay
  <2> QED
    BY <2>1
<1>3. r.source.kind = "proposal"
  BY <1>1, <1>2 DEF Certified
<1>4. r.source.id \in DOMAIN decide
  BY <1>1, <1>3 DEF BatchTogether
<1>5. r.hash = proposals[r.source.id].candidate
  BY <1>1, <1>3 DEF Certified, VerifySource
<1>6. r.source = [kind |-> "proposal", id |-> r.source.id]
  BY <1>1, <1>3 DEF Certified
<1>7. Reviewed([kind |-> "proposal", id |-> r.source.id], proposals[r.source.id].candidate)
  BY <1>5, <1>6 DEF Reviewed
<1> QED
  BY <1>4, <1>7 DEF Unreviewed

\* A reviewed batch of proposals keeps the inductive invariant.
LEMMA ReviewProposalsKeeps ==
    ASSUME ConsInv, NEW s \in Shot, NEW P \in SUBSET DOMAIN proposals, NEW decide \in [P -> ProposalDecisions],
           ReviewProposals(s, decide)
    PROVE  ConsInv'
<1>1. BatchMay(s, decide) /\ Unreviewed(decide) = DOMAIN decide
  BY DEF ReviewProposals, BatchMay, Batch
<1>2. PICK ids \in Injection(Adopting(decide), Event \ DOMAIN events) :
          /\ InsertAdopted(s, decide, ids) /\ AdoptHandoffs(s, HandedOff(decide))
          /\ reviews' = reviews \cup {ProposalReview(p, decide, ids, s) : p \in DOMAIN decide}
  BY DEF ReviewProposals
<1>3. OnlyConsequences /\ UNCHANGED proposals /\ UNCHANGED duration
  BY DEF ReviewProposals, OnlyConsequences
<1>4. EventsTyped' /\ EventsFit' /\ EventsStay /\ EventSources' /\ (DOMAIN events \subseteq Event)'
  BY <1>1, <1>2, <1>3, DraftsFit
<1>5. CaptureInv' /\ RowsNumbered' /\ RowsStay
  BY <1>1, <1>2, <1>3, <1>4, BatchRows
<1>6. AllHanded(s, HandedOff(decide))
  BY <1>1, <1>2, <1>3, <1>4, BatchRows
<1>7. ProposalsHold'
  BY <1>3, ProposalsStand
<1>8. PICK N, B : /\ N = {ProposalReview(p, decide, ids, s) : p \in DOMAIN decide}
                  /\ B = {<<q, decide[q]>> : q \in DOMAIN decide}
  OBVIOUS
<1>9. ASSUME NEW p \in DOMAIN decide
      PROVE  \E r \in N : /\ Certified(r)' /\ r.source.kind = "proposal"
                          /\ r.source.id = p /\ r.decision = decide[p] /\ r.batch = B
  <2>1. PICK r : r = ProposalReview(p, decide, ids, s)
    OBVIOUS
  <2>2. Certified(r)' /\ MemberReview(r, p, decide[p], BatchPairs(decide))
    BY <1>1, <1>2, <1>3, <1>6, <2>1, MemberCertified
  <2> QED
    BY <1>8, <2>1, <2>2 DEF MemberReview, BatchPairs
<1>10. ASSUME NEW r \in N
       PROVE  /\ Certified(r)' /\ r.batch = B
              /\ r.source.kind = "proposal" /\ <<r.source.id, r.decision>> \in B
  <2>1. PICK p \in DOMAIN decide : r = ProposalReview(p, decide, ids, s)
    BY <1>8
  <2>2. Certified(r)' /\ MemberReview(r, p, decide[p], BatchPairs(decide))
    BY <1>1, <1>2, <1>3, <1>6, <2>1, MemberCertified
  <2> QED
    BY <1>8, <2>2 DEF MemberReview, BatchPairs
<1>11. \A b \in B : \E r \in N : b = <<r.source.id, r.decision>>
  BY <1>8, <1>9
<1>12. \A r \in reviews : r.batch # B
  BY <1>1, <1>8, BatchIsNew
<1>13. \A b, c \in B : b[1] \in DOMAIN proposals /\ proposals[b[1]].revision = proposals[c[1]].revision
  BY <1>1, <1>8 DEF BatchMay, Batch
<1>14. ReviewsHold'
  <2>1. reviews' = reviews \cup N /\ ReviewsHold
    BY <1>2, <1>8 DEF ConsInv
  <2>2. ReviewsOf(N, B)
    BY <1>10, <1>11, <1>13 DEF ReviewsOf
  <2> QED
    BY <1>3, <1>4, <1>5, <1>10, <1>12, <2>1, <2>2, BatchReviewed
<1> QED
  BY <1>4, <1>5, <1>7, <1>14 DEF ConsInv

-----------------------------------------------------------------------------
(* The specification of consequences.                                      *)

\* Captured revisions are never dropped.
LEMMA RevisionsStay ==
    ASSUME CaptureInv, [CaptureStep]_captureVars
    PROVE  shotRevs \subseteq shotRevs'
BY DEF CaptureStep, ShotStep, captureOnly, captureVars, PatchShot, ReplaceReferences, ReadSnapshot,
   PersistRevision, RefuseReuse

\* So does every step below the reviews.
LEMMA BelowKeeps ==
    ASSUME ConsInv, [CaptureStep]_captureVars, UNCHANGED consequenceOnly
    PROVE  ConsInv'
<1>1. CaptureInv' /\ shotRevs \subseteq shotRevs'
  BY CaptureKeeps, RevisionsStay DEF ConsInv
<1>2. UNCHANGED <<proposals, reviews>>
  BY DEF consequenceOnly
<1>3. /\ RowsTyped /\ RowsNumbered /\ EventsTyped /\ EventSources /\ DOMAIN events \subseteq Event
  BY DEF ConsInv, CaptureInv, IntraInv, SpatialInv, ContinuityInv, TransitionsInv
<1>4. RowsNumbered' /\ RowsStay /\ EventsStay /\ EventSources' /\ (DOMAIN events \subseteq Event)'
  <2>1. CASE [InstanceStep]_instanceVars /\ UNCHANGED intraOnly
    <3>1. RowsNumbered' /\ RowsStay
      BY <1>3, <2>1, OthersChangeRows, RowsKeepIdentity
    <3>2. UNCHANGED events
      BY <2>1 DEF intraOnly
    <3> QED
      BY <1>2, <1>3, <3>1, <3>2 DEF EventsStay, EventSources
  <2>2. CASE EventStep
    <3>1. EventsStay /\ EventSources'
      BY <1>2, <1>3, <2>2, EventStepStays
    <3>2. UNCHANGED transitions
      BY <2>2 DEF EventStep, CreateEvent, PatchEvent, DeleteEvent, SetDuration, KeepTransitions
    <3>3. RowsNumbered' /\ RowsStay
      BY <1>3, <3>2 DEF RowsNumbered, RowsStay
    <3>4. DOMAIN events' \subseteq Event
      <4>1. CASE \E x \in Event, s \in Shot, v \in EventValue : CreateEvent(x, s, v)
        BY <1>3, <4>1 DEF CreateEvent, With
      <4>2. CASE \E x \in Event, v \in EventValue : PatchEvent(x, v)
        BY <1>3, <4>2 DEF PatchEvent
      <4>3. CASE \E x \in Event : DeleteEvent(x)
        BY <1>3, <4>3 DEF DeleteEvent, Tombstone
      <4>4. CASE \E s \in Shot, d \in Durations : SetDuration(s, d)
        BY <1>3, <4>4 DEF SetDuration
      <4> QED
        BY <2>2, <4>1, <4>2, <4>3, <4>4 DEF EventStep
    <3> QED
      BY <3>1, <3>3, <3>4
  <2>3. CASE UNCHANGED intraVars
    <3>1. UNCHANGED instanceVars /\ UNCHANGED intraOnly
      BY <2>3 DEF intraVars
    <3> QED
      BY <2>1, <3>1
  <2>4. [IntraStep]_intraVars
    BY DEF CaptureStep, captureVars, ShotStep, PatchShot, ReplaceReferences, ReadSnapshot, PersistRevision,
       RefuseReuse
  <2> QED
    BY <2>1, <2>2, <2>3, <2>4 DEF IntraStep
<1>5. ProposalsHold' /\ ProposalsStay
  BY <1>1, <1>2 DEF ConsInv, ProposalsHold, Draft, ProposalsStay
<1>6. ReviewsHold'
  BY <1>2, <1>4, <1>5, ReviewsStay DEF ConsInv
<1> QED
  BY <1>1, <1>4, <1>5, <1>6 DEF ConsInv

\* Every step of the specification keeps the inductive invariant.
LEMMA ConsequencesKeep == ConsInv /\ [ConsequencesStep]_consequenceVars => ConsInv'
<1> SUFFICES ASSUME ConsInv, [ConsequencesStep]_consequenceVars PROVE ConsInv'
  OBVIOUS
<1>1. CASE [CaptureStep]_captureVars /\ UNCHANGED consequenceOnly
  BY <1>1, BelowKeeps
<1>2. CASE ReviewStep
  <2>1. CASE \E x \in Event : AdoptEvent(x)
    BY <2>1, AdoptEventKeeps
  <2>2. CASE \E x \in Event : DeclineEvent(x)
    BY <2>2, DeclineEventKeeps
  <2>3. CASE \E p \in Proposal, s \in Shot, rev \in shotRevs, v \in EventValue :
                IngestProposal(p, s, rev, [x \in {"target", "time", "before", "after"} |-> v[x]])
    BY <2>3, IngestProposalKeeps
  <2>4. CASE \E s \in Shot, P \in SUBSET DOMAIN proposals : \E decide \in [P -> ProposalDecisions] :
                ReviewProposals(s, decide)
    BY <2>4, ReviewProposalsKeeps
  <2> QED
    BY <1>2, <2>1, <2>2, <2>3, <2>4 DEF ReviewStep
<1> QED
  BY <1>1, <1>2 DEF ConsequencesStep, consequenceVars

\* It holds of an empty project.
LEMMA ConsequencesBegin == ConsequencesInit => ConsInv
<1> SUFFICES ASSUME ConsequencesInit PROVE ConsInv
  OBVIOUS
<1>1. CaptureInv
  BY CaptureBegins DEF ConsequencesInit
<1>2. transitions = {} /\ events = << >> /\ proposals = << >> /\ reviews = {}
  BY DEF ConsequencesInit, CaptureInit, IntraInit, InstanceInit, SpatialInit, ContinuityInit, NarrativeInit
<1> QED
  BY <1>1, <1>2, FS_EmptySet DEF ConsInv, RowsNumbered, EventSources, ProposalsHold, ReviewsHold

\* The inductive invariant of events, captures, proposals and reviews holds in every
\* reachable state (continuity/intra_shot_adoption.py).
THEOREM ConsequencesInvariant == ConsequencesSpec => []ConsInv
BY ConsequencesBegin, ConsequencesKeep, PTL DEF ConsequencesSpec

\* A backup taken at any time passes the verifier.
LEMMA EvidenceVerifies == ConsInv => ReviewsCertify
<1> SUFFICES ASSUME ConsInv PROVE VerifyConsequences
  BY DEF ReviewsCertify
<1>1. \A x \in Live(events) : events[x].source \in DOMAIN proposals \cup {None}
  BY DEF ConsInv, EventSources, Live
<1>2. \A r \in shotRevs : VerifyHistory(r)
  BY DEF ConsInv, CaptureInv, CapturesKept, Captured
<1>3. \A p \in DOMAIN proposals : VerifyProposal(p)
  BY DEF ConsInv, ProposalsHold, VerifyProposal
<1>4. ASSUME NEW r \in reviews PROVE VerifySource(r) /\ VerifyBatch(r) /\ VerifyResult(r)
  <2>1. Certified(r) /\ BatchTogether(r)
    BY DEF ConsInv, ReviewsHold
  <2>2. VerifySource(r) /\ VerifyBatch(r)
    BY <2>1 DEF Certified, BatchTogether, VerifyBatch
  <2>3. VerifyResult(r)
    <3>1. CASE r.decision = "ignore"
      BY <2>1, <3>1 DEF Certified, Decided, VerifyResult
    <3>2. CASE r.decision # "ignore"
      <4>1. ASSUME r.transition # None
            PROVE  [kind |-> Recorded(r).family, id |-> Recorded(r).owner] = ReviewTarget(r)
        <5>1. PICK t \in transitions : t.id = r.transition /\ [kind |-> t.family, id |-> t.owner] = ReviewTarget(r)
          BY <2>1, <3>2, <4>1 DEF Certified, Decided
        <5>2. Recorded(r) = t
          BY <5>1 DEF Recorded, ConsInv, RowsNumbered
        <5> QED
          BY <5>1, <5>2
      <4> QED
        BY <2>1, <3>2, <4>1 DEF Certified, Decided, VerifyResult
    <3> QED
      BY <3>1, <3>2
  <2> QED
    BY <2>2, <2>3
<1> QED
  BY <1>1, <1>2, <1>3, <1>4 DEF VerifyConsequences

\* A retry that is answered with success says what is so.
LEMMA RetriesAreTrue == ConsInv => RetryIsTrue
<1> SUFFICES ASSUME ConsInv, NEW r \in reviews, r.decision = "adopt_persistence", ResultStillValid(r)
             PROVE  r.result \in ValuesOf(r.shot) /\ HandoffMatches(r.shot, r.result)
  BY DEF RetryIsTrue
<1>1. Certified(r)
  BY DEF ConsInv, ReviewsHold
<1>2. r.event \in DOMAIN events /\ events[r.event].shot = r.shot /\ r.transition # None
  BY <1>1 DEF Certified, Decided
<1>3. r.event # None
  BY <1>2, ConsequencesAssumption DEF ConsInv
<1>4. r.event \in Live(events) /\ events[r.event].value = r.result
  BY <1>3 DEF ResultStillValid
<1>5. r.result \in ValuesOf(r.shot)
  BY <1>2, <1>4 DEF ValuesOf, EventsOf
<1>6. PICK t : t = Recorded(r)
  OBVIOUS
<1>7. t \in transitions
  <2>1. PICK u \in transitions : u.id = r.transition
    BY <1>1, <1>2 DEF Certified, Decided
  <2> QED
    BY <1>6, <2>1 DEF Recorded
<1>8. /\ t.live /\ t.anchor.kind = "shot" /\ t.anchor.side = "end"
      /\ t.family = r.result.target.kind /\ t.owner = r.result.target.id /\ t.anchor.id = r.shot
      /\ t.value = r.result.after
  BY <1>2, <1>6 DEF ResultStillValid, Handoff
<1>9. t.anchor = EndOfShot(r.shot)
  <2>1. PICK a : a = t.anchor
    OBVIOUS
  <2>2. a \in Anchors
    BY <1>7, <2>1 DEF ConsInv, CaptureInv, IntraInv, SpatialInv, ContinuityInv, TransitionsInv, RowsTyped, RowTyped
  <2>3. a = [kind |-> a.kind, id |-> a.id, side |-> a.side]
    BY <2>2 DEF Anchors
  <2> QED
    BY <1>8, <2>1, <2>3 DEF EndOfShot
<1>10. t \in HandoffRows(r.shot, r.result.target)
  BY <1>7, <1>8, <1>9 DEF HandoffRows, Active
<1> QED
  BY <1>5, <1>8, <1>10 DEF HandoffMatches

\* So is what is kept of events and reviews.
LEMMA ConsequencesFollow == ConsInv => ConsequencesSound
<1>1. ConsInv => EventsInside
  BY DEF ConsInv, CaptureInv, IntraInv, EventsFit, EventsInside, ValuesOf, EventsOf
<1>2. ConsInv => HandoffCarries
  BY HandoffsCarry DEF ConsInv, CaptureInv
<1> QED
  BY <1>1, <1>2, EvidenceVerifies, RetriesAreTrue DEF ConsequencesSound

\* Events stay inside their shots, hand-offs carry what the last event says, a backup
\* taken at any time passes the verifier of the reviews, and a retry that is answered
\* with success says what still holds (continuity/intra_shot_adoption.py,
\* recovery/m16_verifier.py).
THEOREM ConsequencesAreSound == ConsequencesSpec => []ConsequencesSound
BY ConsequencesInvariant, ConsequencesFollow, PTL

-----------------------------------------------------------------------------
(* What is written is right at the instant it is written.                  *)

\* Revisions of worlds are written by their capture only.
LEMMA WorldRevsChange ==
    ASSUME [ConsequencesStep]_consequenceVars
    PROVE  UNCHANGED worldRevs \/ \E k \in Clients : CaptureWorld(k)
<1>1. CASE GeometryStep
  <2>1. CASE \E w \in World, e \in Entity, b \in BOOLEAN : CreateWorld(w, e, b) \/ PatchWorld(w, b)
    BY <2>1 DEF CreateWorld, PatchWorld
  <2>2. CASE \E w \in World : DeleteWorld(w) \/ \E n \in Nat : CreateState(w, n)
    BY <2>2 DEF DeleteWorld, CreateState
  <2>3. CASE \E f \in Frame, w \in World, parent \in Frame \cup {None}, e \in Entity \cup {None} :
                CreateFrame(f, w, parent, e) \/ PatchFrame(f, parent, e)
    BY <2>3 DEF CreateFrame, PatchFrame
  <2>4. CASE \E f \in Frame : DeleteFrame(f)
    BY <2>4 DEF DeleteFrame
  <2>5. CASE \E st \in DOMAIN worldStates :
                \/ \E f \in Frame, rev \in Nat \cup {None}, at \in Points : PutStateFrame(st, f, rev, at)
                \/ \E f \in Frame : DeleteStateFrame(st, f)
    BY <2>5 DEF PutStateFrame, DeleteStateFrame, KeepGeometry
  <2>6. CASE \E st \in DOMAIN worldStates :
                \/ \E a \in Axis, f, g \in Frame : PutStateAxis(st, a, f, g)
                \/ \E a \in Axis : DeleteStateAxis(st, a)
    BY <2>6 DEF PutStateAxis, DeleteStateAxis, KeepGeometry
  <2>7. CASE \E st \in DOMAIN worldStates : \E n, x \in Nat : ApproveWorld(st, n, x) \/ Unapprove(st, x)
    BY <2>7 DEF ApproveWorld, Unapprove, KeepGeometry
  <2>8. CASE \E st \in DOMAIN worldStates : \E k \in Clients : FreezeFrames(k, st)
    BY <2>8 DEF FreezeFrames
  <2>9. CASE \E a \in Axis, w \in World : CreateAxis(a, w) \/ DeleteAxis(a)
    BY <2>9 DEF CreateAxis, DeleteAxis
  <2>10. CASE \E k \in Clients : FreezeAxes(k) \/ CaptureWorld(k)
    BY <2>10 DEF FreezeAxes
  <2> QED
    BY <1>1, <2>1, <2>2, <2>3, <2>4, <2>5, <2>6, <2>7, <2>8, <2>9, <2>10 DEF GeometryStep
<1>2. UNCHANGED spatialOnly => UNCHANGED worldRevs
  BY DEF spatialOnly, geometry
<1>3. CASE StagingStep
  <2>1. UNCHANGED geometry => UNCHANGED worldRevs
    BY DEF geometry
  <2>2. UNCHANGED geometry \/ UNCHANGED spatialOnly
    BY <1>3, Zenon DEF StagingStep, CreateTrack, PatchTrack, DeleteTrack, DeleteSpatialPlan, PutSpatialPlan,
         CreateStaging, PatchStaging, DeleteStaging
  <2> QED
    BY <1>2, <2>1, <2>2
<1>4. CASE InstanceChange
  <2>1. KeepSpatial
    BY <1>4, Zenon DEF InstanceChange, CreateInstanceFeature, DeleteInstanceFeature, CreateInstanceTrack,
     PatchInstanceTrack, DeleteInstanceTrack, CreateInstanceTransition, CreateInstanceStaging,
     DeleteInstanceTransition, DeleteInstanceStaging, PatchInstanceTransition, PatchInstanceStaging,
     BindingGoesStale, SelectBinding, KeepInstances
  <2> QED
    BY <1>2, <2>1 DEF KeepSpatial
<1>5. CASE EventStep
  <2>1. KeepTransitions
    BY <1>5 DEF EventStep, CreateEvent, PatchEvent, DeleteEvent, SetDuration
  <2> QED
    BY <1>2, <2>1 DEF KeepTransitions
<1>6. CASE ReviewStep
  <2>1. OnlyConsequences
    BY <1>6, Zenon DEF ReviewStep, AdoptEvent, DeclineEvent, IngestProposal, ReviewProposals
  <2> QED
    BY <1>2, <2>1 DEF OnlyConsequences
<1>7. CASE UNCHANGED spatialVars
  BY <1>2, <1>7 DEF spatialVars
<1>8. CASE ShotStep
  <2>1. UNCHANGED intraVars
    BY <1>8 DEF ShotStep, PatchShot, ReplaceReferences, ReadSnapshot, PersistRevision, RefuseReuse
  <2> QED
    BY <1>7, <2>1 DEF intraVars, instanceVars
<1> QED
  BY <1>1, <1>2, <1>3, <1>4, <1>5, <1>6, <1>7, <1>8 DEF ConsequencesStep, CaptureStep, IntraStep, InstanceStep, SpatialStep,
     consequenceVars, captureVars, intraVars, instanceVars

\* Worlds are captured as they are.
LEMMA WorldsCapturedNow ==
    ASSUME [ConsequencesStep]_consequenceVars
    PROVE  \A r \in worldRevs' \ worldRevs : r.value = Candidate(r.state)
<1>1. ASSUME NEW k \in Clients, CaptureWorld(k) PROVE \A r \in worldRevs' \ worldRevs : r.value = Candidate(r.state)
  <2> SUFFICES ASSUME NEW r \in worldRevs' \ worldRevs PROVE r.value = Candidate(r.state)
    OBVIOUS
  <2>1. PICK f : f = freeze[k]
    OBVIOUS
  <2>2. /\ f.value = Candidate(f.state)
        /\ r = [state |-> f.state, value |-> f.value, number |-> 1 + Cardinality(RevsOfState(f.state))]
    BY <1>1, <2>1 DEF CaptureWorld
  <2>3. r.state = f.state /\ r.value = f.value
    BY <2>2
  <2> QED
    BY <2>2, <2>3
<1> QED
  BY <1>1, WorldRevsChange

\* The shot of a written event folds with it.
FoldsNow == \A s \in Live(shots) : ValuesOf(s)' # ValuesOf(s) => Prospective(s, ValuesOf(s)')

\* An event that gets another value, or none, in its shot.
LEMMA OneEventChanges ==
    ASSUME NEW x \in Live(events), NEW set, Prospective(events[x].shot, Others(x) \cup set),
           \A y \in Live(events') : y # x => y \in Live(events) /\ events'[y] = events[y],
           \A y \in Live(events) : y # x => y \in Live(events') /\ events'[y] = events[y],
           IF x \in Live(events') THEN set = {events'[x].value} /\ events'[x].shot = events[x].shot ELSE set = {}
    PROVE  FoldsNow
<1>1. PICK z : z = events[x].shot
  OBVIOUS
<1>2. ValuesOf(z)' = Others(x) \cup set
  <2>1. ASSUME NEW u \in ValuesOf(z)' PROVE u \in Others(x) \cup set
    <3>1. PICK y \in Live(events') : events'[y].shot = z /\ u = events'[y].value
      BY DEF ValuesOf, EventsOf
    <3>2. CASE y = x
      BY <3>1, <3>2
    <3>3. CASE y # x
      BY <1>1, <3>1, <3>3 DEF Others, EventsOf
    <3> QED
      BY <3>2, <3>3
  <2>2. ASSUME NEW u \in Others(x) PROVE u \in ValuesOf(z)'
    BY <1>1 DEF ValuesOf, EventsOf, Others
  <2>3. ASSUME NEW u \in set PROVE u \in ValuesOf(z)'
    <3>1. x \in Live(events') /\ u = events'[x].value /\ events'[x].shot = z
      BY <1>1
    <3> QED
      BY <3>1 DEF ValuesOf, EventsOf
  <2> QED
    BY <2>1, <2>2, <2>3
<1>3. ASSUME NEW s, s # z PROVE ValuesOf(s)' = ValuesOf(s)
  <2>1. \A y \in Live(events') : events'[y].shot = s => y \in Live(events) /\ events'[y] = events[y]
    BY <1>1, <1>3
  <2>2. \A y \in Live(events) : events[y].shot = s => y \in Live(events') /\ events'[y] = events[y]
    BY <1>1, <1>3
  <2>3. EventsOf(s)' = EventsOf(s)
    BY <2>1, <2>2 DEF EventsOf
  <2> QED
    BY <2>1, <2>3 DEF ValuesOf, EventsOf
<1> QED
  BY <1>1, <1>2, <1>3 DEF FoldsNow

\* Creating an event writes a set that folds,
LEMMA CreateFolds ==
    ASSUME NEW x, NEW s, NEW v, CreateEvent(x, s, v)
    PROVE  FoldsNow
<1>1. PICK row : row = [shot |-> s, value |-> v, source |-> None, live |-> TRUE]
  OBVIOUS
<1>2. events' = With(events, x, row) /\ x \notin DOMAIN events /\ Prospective(s, ValuesOf(s) \cup {v})
  BY <1>1 DEF CreateEvent
<1>3. DOMAIN events' = DOMAIN events \cup {x} /\ events'[x] = row /\ \A y \in DOMAIN events : events'[y] = events[y]
  BY <1>2 DEF With
<1>4. row.shot = s /\ row.value = v /\ row.live
  BY <1>1
<1>5. /\ Live(events') = Live(events) \cup {x} /\ x \notin Live(events)
      /\ \A y \in Live(events) : events'[y] = events[y]
  BY <1>2, <1>3, <1>4 DEF Live
<1>6. EventsOf(s)' = EventsOf(s) \cup {x} /\ \A q : q # s => EventsOf(q)' = EventsOf(q)
  BY <1>3, <1>4, <1>5 DEF EventsOf
<1>7. EventsOf(s) \subseteq Live(events) /\ \A q : EventsOf(q) \subseteq Live(events)
  BY DEF EventsOf
<1>8. ValuesOf(s)' = ValuesOf(s) \cup {v}
  BY <1>3, <1>4, <1>5, <1>6, <1>7 DEF ValuesOf
<1>9. \A q : q # s => ValuesOf(q)' = ValuesOf(q)
  BY <1>5, <1>6, <1>7 DEF ValuesOf
<1> QED
  BY <1>2, <1>8, <1>9 DEF FoldsNow

\* so does changing one,
LEMMA PatchFolds ==
    ASSUME EventsTyped, NEW x, NEW v, PatchEvent(x, v)
    PROVE  FoldsNow
<1>1. x \in Live(events) /\ x \in DOMAIN events /\ Prospective(events[x].shot, Others(x) \cup {v})
  BY DEF PatchEvent, Live
<1>2. PICK e : e = events[x] /\ EventRow(e) /\ e.live
  BY <1>1 DEF EventsTyped, Live
<1>3. PICK mid, row : mid = [e EXCEPT !.value = v] /\ row = [mid EXCEPT !.source = None]
  OBVIOUS
<1>4. mid = [shot |-> e.shot, value |-> v, source |-> e.source, live |-> e.live]
  BY <1>2, <1>3 DEF EventRow
<1>5. row.shot = e.shot /\ row.value = v /\ row.live
  BY <1>2, <1>3, <1>4
<1>6. DOMAIN events' = DOMAIN events /\ events'[x] = row /\ \A y \in DOMAIN events : y # x => events'[y] = events[y]
  <2>1. PICK E : E = [events EXCEPT ![x].value = v]
    OBVIOUS
  <2>2. DOMAIN E = DOMAIN events /\ E[x] = mid /\ \A y \in DOMAIN events : y # x => E[y] = events[y]
    BY <1>1, <1>2, <1>3, <2>1
  <2>3. events' = [E EXCEPT ![x].source = None]
    BY <2>1 DEF PatchEvent
  <2> QED
    BY <1>1, <1>3, <2>2, <2>3
<1>7. /\ x \in Live(events')
      /\ \A y \in Live(events') : y # x => y \in Live(events) /\ events'[y] = events[y]
      /\ \A y \in Live(events) : y # x => y \in Live(events') /\ events'[y] = events[y]
  BY <1>1, <1>5, <1>6 DEF Live
<1>8. {v} = {events'[x].value} /\ events'[x].shot = events[x].shot
  BY <1>2, <1>5, <1>6
<1> QED
  BY <1>1, <1>7, <1>8, OneEventChanges

\* declining one,
LEMMA DeclineFolds ==
    ASSUME EventsTyped, NEW x, DeclineEvent(x)
    PROVE  FoldsNow
<1>1. PICK e, v : e = events[x] /\ v = [e.value EXCEPT !.mode = "transient"]
  OBVIOUS
<1>2. /\ x \in Live(events) /\ x \in DOMAIN events /\ Prospective(events[x].shot, Others(x) \cup {v})
      /\ events' = [events EXCEPT ![x].value = v]
  BY <1>1 DEF DeclineEvent, Reviewable, Live
<1>3. EventRow(e) /\ e.live
  BY <1>1, <1>2 DEF EventsTyped, Live
<1>4. PICK row : row = [e EXCEPT !.value = v]
  OBVIOUS
<1>5. row.shot = e.shot /\ row.value = v /\ row.live
  BY <1>3, <1>4 DEF EventRow
<1>6. DOMAIN events' = DOMAIN events /\ events'[x] = row /\ \A y \in DOMAIN events : y # x => events'[y] = events[y]
  BY <1>1, <1>2, <1>4
<1>7. /\ x \in Live(events')
      /\ \A y \in Live(events') : y # x => y \in Live(events) /\ events'[y] = events[y]
      /\ \A y \in Live(events) : y # x => y \in Live(events') /\ events'[y] = events[y]
  BY <1>2, <1>5, <1>6 DEF Live
<1>8. {v} = {events'[x].value} /\ events'[x].shot = events[x].shot
  BY <1>1, <1>5, <1>6
<1> QED
  BY <1>2, <1>7, <1>8, OneEventChanges

\* deleting one,
LEMMA DeleteFolds ==
    ASSUME EventsTyped, NEW x, DeleteEvent(x)
    PROVE  FoldsNow
<1>1. /\ x \in Live(events) /\ x \in DOMAIN events /\ Prospective(events[x].shot, Others(x))
      /\ events' = Tombstone(events, x)
  BY DEF DeleteEvent, Live
<1>2. PICK e, row : e = events[x] /\ row = [e EXCEPT !.live = FALSE] /\ EventRow(e)
  BY <1>1 DEF EventsTyped
<1>3. ~row.live
  BY <1>2 DEF EventRow
<1>4. events' = [events EXCEPT ![x] = row]
  BY <1>1, <1>2 DEF Tombstone
<1>5. /\ x \notin Live(events')
      /\ \A y \in Live(events') : y # x => y \in Live(events) /\ events'[y] = events[y]
      /\ \A y \in Live(events) : y # x => y \in Live(events') /\ events'[y] = events[y]
  BY <1>1, <1>3, <1>4 DEF Live
<1>6. Prospective(events[x].shot, Others(x) \cup {})
  BY <1>1
<1> QED
  BY <1>1, <1>5, <1>6, OneEventChanges

\* and adopting a batch of proposals.
LEMMA BatchFolds ==
    ASSUME ConsInv, NEW s, NEW decide, BatchMay(s, decide),
           NEW ids \in Injection(Adopting(decide), Event \ DOMAIN events), InsertAdopted(s, decide, ids)
    PROVE  FoldsNow
<1>1. Inserted(s, decide, ids)
  BY DraftsInserted
<1>2. ASSUME NEW p \in Adopting(decide)
      PROVE  /\ ids[p] \in Live(events') /\ events'[ids[p]].shot = s /\ events'[ids[p]].value = Draft(p, decide[p])
             /\ ids[p] \notin Live(events)
  <2>1. PICK row : row = [shot |-> s, value |-> Draft(p, decide[p]), source |-> p, live |-> TRUE]
    OBVIOUS
  <2>2. row.live /\ row.shot = s /\ row.value = Draft(p, decide[p])
    BY <2>1
  <2>3. ids[p] \in DOMAIN events' /\ ids[p] \notin DOMAIN events /\ events'[ids[p]] = row
    BY <1>1, <2>1 DEF Inserted
  <2> QED
    BY <2>2, <2>3 DEF Live
<1>3. \A y \in Live(events) : y \in Live(events') /\ events'[y] = events[y]
  BY <1>1 DEF Live, Inserted
<1>4. \A y \in Live(events') : y \in Live(events) \/ \E p \in Adopting(decide) : y = ids[p]
  BY <1>1 DEF Live, Inserted
<1>5. ValuesOf(s)' = ValuesOf(s) \cup Drafts(decide)
  <2>1. ASSUME NEW u \in ValuesOf(s)' PROVE u \in ValuesOf(s) \cup Drafts(decide)
    <3>1. PICK y \in Live(events') : events'[y].shot = s /\ u = events'[y].value
      BY DEF ValuesOf, EventsOf
    <3>2. CASE y \in Live(events)
      BY <1>3, <3>1, <3>2 DEF ValuesOf, EventsOf
    <3>3. ASSUME NEW p \in Adopting(decide), y = ids[p] PROVE u \in Drafts(decide)
      BY <1>2, <3>1, <3>3 DEF Drafts
    <3> QED
      BY <1>4, <3>2, <3>3
  <2>2. ASSUME NEW u \in ValuesOf(s) PROVE u \in ValuesOf(s)'
    BY <1>3 DEF ValuesOf, EventsOf
  <2>3. ASSUME NEW u \in Drafts(decide) PROVE u \in ValuesOf(s)'
    <3>1. PICK p \in Adopting(decide) : u = Draft(p, decide[p])
      BY DEF Drafts
    <3> QED
      BY <1>2, <3>1 DEF ValuesOf, EventsOf
  <2> QED
    BY <2>1, <2>2, <2>3
<1>6. ASSUME NEW q, q # s PROVE ValuesOf(q)' = ValuesOf(q)
  <2>1. \A y \in Live(events') : events'[y].shot = q => y \in Live(events)
    BY <1>2, <1>4, <1>6
  <2>2. EventsOf(q)' = EventsOf(q)
    BY <1>3, <2>1 DEF EventsOf
  <2>3. \A y \in EventsOf(q) : events'[y] = events[y]
    BY <1>3 DEF EventsOf
  <2> QED
    BY <2>2, <2>3 DEF ValuesOf
<1>7. Prospective(s, ValuesOf(s) \cup Drafts(decide))
  BY DEF BatchMay, Batch
<1> QED
  BY <1>5, <1>6, <1>7 DEF FoldsNow

\* No other step changes the events of a shot.
LEMMA StepsFold ==
    ASSUME ConsInv, [ConsequencesStep]_consequenceVars
    PROVE  FoldsNow
<1>0. EventsTyped
  BY DEF ConsInv, CaptureInv, IntraInv
<1>1. CASE UNCHANGED events
  BY <1>1 DEF FoldsNow, ValuesOf, EventsOf
<1>2. CASE EventStep
  <2>1. ASSUME NEW s, NEW d, SetDuration(s, d) PROVE FoldsNow
    BY <1>1, <2>1 DEF SetDuration
  <2> QED
    BY <1>0, <1>2, <2>1, CreateFolds, PatchFolds, DeleteFolds DEF EventStep
<1>3. CASE ReviewStep
  <2>1. ASSUME NEW s \in Shot, NEW P \in SUBSET DOMAIN proposals, NEW decide \in [P -> ProposalDecisions],
               ReviewProposals(s, decide)
        PROVE  FoldsNow
    <3>1. BatchMay(s, decide)
      BY <2>1 DEF ReviewProposals, BatchMay, Batch
    <3>2. PICK ids \in Injection(Adopting(decide), Event \ DOMAIN events) : InsertAdopted(s, decide, ids)
      BY <2>1 DEF ReviewProposals
    <3> QED
      BY <3>1, <3>2, BatchFolds
  <2>2. CASE \E x \in Event : AdoptEvent(x)
    BY <1>1, <2>2 DEF AdoptEvent
  <2>3. CASE \E x \in Event : DeclineEvent(x)
    BY <1>0, <2>3, DeclineFolds
  <2>4. CASE \E p \in Proposal, s \in Shot, rev \in shotRevs, v \in EventValue :
                IngestProposal(p, s, rev, [x \in {"target", "time", "before", "after"} |-> v[x]])
    BY <1>1, <2>4 DEF IngestProposal
  <2> QED
    BY <1>3, <2>1, <2>2, <2>3, <2>4 DEF ReviewStep
<1>4. CASE UNCHANGED intraOnly
  BY <1>1, <1>4 DEF intraOnly
<1>5. CASE ShotStep
  <2>1. UNCHANGED intraVars
    BY <1>5 DEF ShotStep, PatchShot, ReplaceReferences, ReadSnapshot, PersistRevision, RefuseReuse
  <2> QED
    BY <1>4, <2>1 DEF intraVars
<1> QED
  BY <1>2, <1>3, <1>4, <1>5 DEF ConsequencesStep, CaptureStep, IntraStep, consequenceVars, captureVars, intraVars

-----------------------------------------------------------------------------
(* Hand-offs.                                                              *)

\* A row that a value is handed off by is there after the step.
LEMMA HandedMatches ==
    ASSUME NEW s, NEW v, NEW t \in transitions', HandedBy(s, v, t)
    PROVE  HandoffMatches(s, v)'
BY DEF HandedBy, HandoffMatches, HandoffRows, Active, EndOfShot

\* Each review that adopts persistence leaves its shot handing the state off.
LEMMA AdoptionsHandOff ==
    ASSUME ConsInv, [ConsequencesStep]_consequenceVars, NEW r \in reviews' \ reviews,
           r.decision = "adopt_persistence"
    PROVE  HandoffMatches(r.shot, r.result)'
<1>0. ContinuityInv /\ EventsTyped /\ EventsFit
  BY DEF ConsInv, CaptureInv, IntraInv, SpatialInv
<1>1. CASE UNCHANGED reviews
  BY <1>1
<1>2. ASSUME NEW x, AdoptEvent(x) PROVE HandoffMatches(r.shot, r.result)'
  <2>1. PICK s, v : s = events[x].shot /\ v = events[x].value
    OBVIOUS
  <2>2. /\ x \in Live(events) /\ s \in Live(shots) /\ Prospective(s, ValuesOf(s)) /\ Assigned(s)
        /\ AdoptHandoffs(s, {v})
        /\ reviews' = reviews \cup {EventReview(x, "adopt_persistence", v, AdoptedId(s, {v}, v))}
    BY <1>2, <2>1 DEF AdoptEvent, Reviewable
  <2>3. s \in Shot /\ v \in EventValue /\ v \in ValuesOf(s)
    BY <1>0, <2>1, <2>2 DEF EventsTyped, EventRow, ValuesOf, EventsOf, Live
  <2>4. HandoffsMay(s, {v})
    <3>1. TargetValid(s, v.target)
      BY <2>2, <2>3 DEF Prospective
    <3>2. IsFiniteSet({v})
      BY FS_Singleton
    <3> QED
      BY <2>2, <2>3, <3>1, <3>2 DEF HandoffsMay
  <2>5. PICK t \in transitions' : HandedBy(s, v, t)
    BY <1>0, <2>2, <2>4, AdoptionHandsEach
  <2>6. r = EventReview(x, "adopt_persistence", v, AdoptedId(s, {v}, v))
    BY <2>2
  <2>7. r.shot = s /\ r.result = v
    BY <2>1, <2>6 DEF EventReview
  <2> QED
    BY <2>5, <2>7, HandedMatches
<1>3. ASSUME NEW x, DeclineEvent(x) PROVE FALSE
  BY <1>3 DEF DeclineEvent, EventReview
<1>4. ASSUME NEW s \in Shot, NEW P \in SUBSET DOMAIN proposals, NEW decide \in [P -> ProposalDecisions],
             ReviewProposals(s, decide)
      PROVE  HandoffMatches(r.shot, r.result)'
  <2>1. BatchMay(s, decide)
    BY <1>4 DEF ReviewProposals, BatchMay, Batch
  <2>2. PICK ids \in Injection(Adopting(decide), Event \ DOMAIN events) :
            /\ InsertAdopted(s, decide, ids) /\ AdoptHandoffs(s, HandedOff(decide))
            /\ reviews' = reviews \cup {ProposalReview(p, decide, ids, s) : p \in DOMAIN decide}
    BY <1>4 DEF ReviewProposals
  <2>3. OnlyConsequences /\ UNCHANGED proposals /\ UNCHANGED duration
    BY <1>4 DEF ReviewProposals, OnlyConsequences
  <2>4. EventsTyped' /\ EventsFit'
    BY <2>1, <2>2, <2>3, DraftsFit
  <2>5. AllHanded(s, HandedOff(decide))
    BY <2>1, <2>2, <2>3, <2>4, BatchRows
  <2>6. PICK p \in DOMAIN decide : r = ProposalReview(p, decide, ids, s)
    BY <2>2
  <2>7. PICK v : v = Draft(p, decide[p])
    OBVIOUS
  <2>8. r.shot = s /\ r.decision = decide[p] /\ r.result = IF p \in Adopting(decide) THEN v ELSE None
    BY <2>6, <2>7 DEF ProposalReview
  <2>9. v \in HandedOff(decide) /\ r.result = v
    BY <2>1, <2>7, <2>8, DraftMade DEF Adopting
  <2>10. PICK t \in transitions' : HandedBy(s, v, t)
    BY <2>5, <2>9 DEF AllHanded
  <2> QED
    BY <2>8, <2>9, <2>10, HandedMatches
<1>5. CASE ReviewStep
  <2>1. CASE \E p \in Proposal, s \in Shot, rev \in shotRevs, v \in EventValue :
                IngestProposal(p, s, rev, [x \in {"target", "time", "before", "after"} |-> v[x]])
    BY <1>1, <2>1 DEF IngestProposal
  <2> QED
    BY <1>2, <1>3, <1>4, <1>5, <2>1 DEF ReviewStep
<1> QED
  BY <1>1, <1>5 DEF ConsequencesStep, consequenceVars, consequenceOnly

\* Worlds are captured as they are at that instant, no write of an event leaves a chain
\* of its shot broken, and adopting persistence hands off what the event says, however
\* the operations interleave (spatial/repository.py, continuity/intra_shot_service.py,
\* continuity/intra_shot_adoption.py).
THEOREM WritesAreCurrent == ConsequencesSpec => StoryWritesAreCurrent
<1>1. ConsInv /\ [ConsequencesStep]_consequenceVars
          => [\A r \in worldRevs' \ worldRevs : r.value = Candidate(r.state)]_spatialVars
  BY WorldsCapturedNow
<1>2. ConsInv /\ [ConsequencesStep]_consequenceVars
          => [\A s \in Live(shots) : ValuesOf(s)' # ValuesOf(s) => Prospective(s, ValuesOf(s)')]_intraVars
  BY StepsFold DEF FoldsNow
<1>3. ConsInv /\ [ConsequencesStep]_consequenceVars
          => [\A r \in reviews' \ reviews :
                 r.decision = "adopt_persistence" => HandoffMatches(r.shot, r.result)']_consequenceVars
  BY AdoptionsHandOff
<1> QED
  BY ConsequencesInvariant, <1>1, <1>2, <1>3, PTL
     DEF ConsequencesSpec, StoryWritesAreCurrent, WorldCaptureIsCurrent, WritesFold, AdoptionHandsOff

-----------------------------------------------------------------------------
(* Voices.                                                                 *)

LineRow == [line : Line, number : Nat \ {0}, speaker : Entity, text : Texts]

\* The revisions of a line have numbers of their own.
LinesOK == IsFiniteSet(lineRevs) /\ lineRevs \subseteq LineRow /\ VerifyDialogue

VoicesOK ==
    /\ DOMAIN voices \subseteq Voice
    /\ \A c \in DOMAIN voices : voices[c].rev \in lineRevs /\ TrimValid(voices[c].trim)

VocalsOf(rev) == {v \in vocals : v.rev = rev}

\* The vocals of one revision of a line are counted by their numbers.
Counted(rev) == {v.number : v \in VocalsOf(rev)} = 1..Cardinality(VocalsOf(rev))

\* A vocal is its candidate's, once.
VocalsOK ==
    /\ IsFiniteSet(vocals) /\ VerifyVocals
    /\ \A r \in lineRevs : Counted(r)

\* What is selected, placed in a shot or aligned is an adopted vocal.
UsesOK ==
    /\ DOMAIN choice = lineRevs
    /\ \A r \in lineRevs : choice[r] # None => choice[r] \in vocals /\ choice[r].rev = r
    /\ \A m \in DOMAIN mappings : mappings[m].vocal \in vocals
    /\ VerifyMappings
    /\ \A a \in alignments : a.vocal \in vocals /\ a.run \in Runs /\ DocValid(a.doc, a.vocal)

\* What a call has read of voices still holds; its number is taken or the next.
VoiceCallOK(call) ==
    /\ call.step = "voice" =>
          /\ call.candidate \in DOMAIN voices
          /\ call.number \in 1..(Cardinality(VocalsOf(voices[call.candidate].rev)) + 1)
    /\ call.step = "align" =>
          /\ call.row.vocal \in vocals /\ call.row.run \in Runs /\ DocValid(call.row.doc, call.row.vocal)

CallsAre == calls = [k \in Clients |-> calls[k]]

VocalInv ==
    /\ LinesOK /\ VoicesOK /\ VocalsOK /\ UsesOK
    /\ CallsAre /\ \A k \in Clients : VoiceCallOK(calls[k])

\* The vocals of a revision are finitely many.
LEMMA VocalsOfFinite ==
    ASSUME IsFiniteSet(vocals), NEW rev
    PROVE  IsFiniteSet(VocalsOf(rev)) /\ Cardinality(VocalsOf(rev)) \in Nat
<1>1. VocalsOf(rev) \subseteq vocals
  BY DEF VocalsOf
<1>2. IsFiniteSet(VocalsOf(rev))
  BY <1>1, FS_Subset
<1> QED
  BY <1>2, FS_CardinalityType

\* Calls are set and closed one at a time.
LEMMA CallSet ==
    ASSUME CallsAre, NEW k \in Clients, NEW call, calls' = [calls EXCEPT ![k] = call]
    PROVE  CallsAre' /\ calls'[k] = call /\ \A j \in Clients : j # k => calls'[j] = calls[j]
BY DEF CallsAre

\* A client that has read nothing holds nothing stale.
LEMMA UnreadIsNoCall == VoiceCallOK(Unread)
BY DEF VoiceCallOK, Unread

\* Steps that change nothing of voices.
LEMMA VocalsStand ==
    ASSUME VocalInv, UNCHANGED vocalVars, CallsAre', \A k \in Clients : VoiceCallOK(calls'[k])
    PROVE  VocalInv'
<1>1. /\ UNCHANGED <<lineRevs, voices, vocals, choice, mappings, alignments>>
  BY DEF vocalVars
<1>2. LinesOK' /\ VoicesOK'
  BY <1>1 DEF VocalInv, LinesOK, VoicesOK, VerifyDialogue, TrimValid
<1>3. \A rev : VocalsOf(rev)' = VocalsOf(rev)
  BY <1>1 DEF VocalsOf
<1>4. VocalsOK'
  BY <1>1, <1>3 DEF VocalInv, VocalsOK, VerifyVocals, Counted
<1>5. UsesOK'
  BY <1>1 DEF VocalInv, UsesOK, VerifyMappings, DocValid
<1>6. \A k \in Clients : VoiceCallOK(calls[k])'
  BY <1>1, <1>3 DEF VoiceCallOK, DocValid
<1> QED
  BY <1>2, <1>4, <1>5, <1>6 DEF VocalInv

\* create_line_revision: the next number of its line.
LEMMA LineRevisionKeeps ==
    ASSUME VocalInv, NEW l \in Line, NEW e \in Entity, NEW t \in Texts, CreateLineRevision(l, e, t)
    PROVE  VocalInv'
<1>1. PICK numbers : numbers = {0} \cup {r.number : r \in RevsOfLine(l)}
  OBVIOUS
<1>2. PICK n : n = Max(numbers)
  OBVIOUS
<1>3. PICK new : new = [line |-> l, speaker |-> e, text |-> t, number |-> 1 + n]
  OBVIOUS
<1>4. /\ lineRevs' = lineRevs \cup {new} /\ choice' = With(choice, new, None)
      /\ UNCHANGED <<voices, vocals, mappings, alignments, calls>>
  BY <1>1, <1>2, <1>3 DEF CreateLineRevision
<1>5. n \in Nat /\ \A r \in RevsOfLine(l) : r.number <= n
  <2>1. RevsOfLine(l) \subseteq lineRevs /\ IsFiniteSet(RevsOfLine(l))
    <3>1. RevsOfLine(l) \subseteq lineRevs
      BY DEF RevsOfLine
    <3> QED
      BY <3>1, FS_Subset DEF VocalInv, LinesOK
  <2>2. PICK f : f = [r \in RevsOfLine(l) |-> r.number]
    OBVIOUS
  <2>3. PICK S : S = {r.number : r \in RevsOfLine(l)}
    OBVIOUS
  <2>4. f \in Surjection(RevsOfLine(l), S)
    BY <2>2, <2>3 DEF Surjection
  <2>5. IsFiniteSet(S)
    BY <2>1, <2>4, FS_Surjection
  <2>6. IsFiniteSet(numbers)
    BY <1>1, <2>3, <2>5, FS_Singleton, FS_Union
  <2>7. numbers \in SUBSET Nat /\ numbers # {} /\ \A r \in RevsOfLine(l) : r.number \in numbers
    BY <1>1, <2>1 DEF VocalInv, LinesOK, LineRow
  <2> QED
    BY <1>2, <2>6, <2>7, MaxIsGreatest
<1>6. new \in LineRow /\ new.line = l /\ new \notin lineRevs
      /\ \A r \in lineRevs : r.line = l => r.number # new.number
  <2>1. \A r \in lineRevs : r.line = l => r \in RevsOfLine(l) /\ r.number \in Nat
    BY DEF RevsOfLine, VocalInv, LinesOK, LineRow
  <2>2. new \in LineRow /\ new.line = l /\ new.number = 1 + n
    BY <1>3, <1>5 DEF LineRow
  <2> QED
    BY <1>5, <2>1, <2>2
<1>7. LinesOK'
  <2>1. IsFiniteSet(lineRevs')
    BY <1>4, FS_AddElement DEF VocalInv, LinesOK
  <2> QED
    BY <1>4, <1>6, <2>1 DEF VocalInv, LinesOK, VerifyDialogue
<1>8. VoicesOK'
  BY <1>4 DEF VocalInv, VoicesOK, TrimValid
<1>9. \A rev : VocalsOf(rev)' = VocalsOf(rev)
  BY <1>4 DEF VocalsOf
<1>10. VocalsOK'
  <2>1. VocalsOf(new) = {}
    BY <1>6 DEF VocalInv, VocalsOK, VerifyVocals, VocalsOf, VoicesOK
  <2>2. Counted(new)'
    <3>1. Cardinality({}) = 0 /\ 1..0 = {}
      BY FS_EmptySet
    <3>2. VocalsOf(new)' = {}
      BY <1>9, <2>1
    <3> QED
      BY <3>1, <3>2 DEF Counted
  <2> QED
    BY <1>4, <1>9, <2>2 DEF VocalInv, VocalsOK, VerifyVocals, Counted
<1>11. UsesOK'
  <2>1. DOMAIN choice' = lineRevs' /\ choice'[new] = None /\ \A r \in lineRevs : choice'[r] = choice[r]
    BY <1>4, <1>6 DEF With, VocalInv, UsesOK
  <2> QED
    BY <1>4, <2>1 DEF VocalInv, UsesOK, VerifyMappings, DocValid
<1>12. \A k \in Clients : VoiceCallOK(calls[k])'
  BY <1>4, <1>9 DEF VocalInv, VoiceCallOK, DocValid
<1> QED
  BY <1>4, <1>7, <1>8, <1>10, <1>11, <1>12 DEF VocalInv, CallsAre

\* create_vocal_candidate.
LEMMA VoiceKeeps ==
    ASSUME VocalInv, NEW c \in Voice, NEW rev \in lineRevs, NEW trim, CreateVoice(c, rev, trim)
    PROVE  VocalInv'
<1>1. PICK row : row = [rev |-> rev, trim |-> trim]
  OBVIOUS
<1>2. /\ c \notin DOMAIN voices /\ voices' = With(voices, c, row)
      /\ row.rev = rev /\ row.trim = trim /\ TrimValid(row.trim)
      /\ UNCHANGED <<lineRevs, vocals, choice, mappings, alignments, calls>>
  BY <1>1 DEF CreateVoice
<1>3. DOMAIN voices' = DOMAIN voices \cup {c} /\ voices'[c] = row /\ \A x \in DOMAIN voices : voices'[x] = voices[x]
  BY <1>2 DEF With
<1>4. LinesOK' /\ UsesOK'
  BY <1>2 DEF VocalInv, LinesOK, VerifyDialogue, UsesOK, VerifyMappings, DocValid
<1>5. VoicesOK'
  BY <1>2, <1>3 DEF VocalInv, VoicesOK, TrimValid
<1>6. \A r : VocalsOf(r)' = VocalsOf(r)
  BY <1>2 DEF VocalsOf
<1>7. VocalsOK'
  BY <1>2, <1>3, <1>6 DEF VocalInv, VocalsOK, VerifyVocals, Counted
<1>8. \A k \in Clients : VoiceCallOK(calls[k])'
  BY <1>2, <1>3, <1>6 DEF VocalInv, VoiceCallOK, DocValid
<1> QED
  BY <1>2, <1>4, <1>5, <1>7, <1>8 DEF VocalInv, CallsAre

\* The next number is one more than the count.
LEMMA NextIsCount ==
    ASSUME VocalInv, NEW rev \in lineRevs
    PROVE  NextVocal(rev) = Cardinality(VocalsOf(rev)) + 1
<1>1. PICK n \in Nat : n = Cardinality(VocalsOf(rev))
  BY VocalsOfFinite DEF VocalInv, VocalsOK
<1>2. {v.number : v \in {u \in vocals : u.rev = rev}} = 1..n
  BY <1>1 DEF VocalInv, VocalsOK, Counted, VocalsOf
<1>3. PICK S : S = {0} \cup {v.number : v \in {u \in vocals : u.rev = rev}}
  OBVIOUS
<1>4. S = 0..n
  <2>1. {0} \cup (1..n) = 0..n
    OBVIOUS
  <2> QED
    BY <1>2, <1>3, <2>1
<1>5. Max(0..n) = n
  <2>1. 0..n \in SUBSET Nat /\ 0..n # {} /\ n \in 0..n
    OBVIOUS
  <2>2. IsFiniteSet(0..n)
    BY FS_Interval
  <2>3. Max(0..n) \in 0..n /\ \A m \in 0..n : m <= Max(0..n)
    BY <2>1, <2>2, MaxIsGreatest
  <2> QED
    BY <2>1, <2>3
<1>6. NextVocal(rev) = 1 + Max(S)
  BY <1>3 DEF NextVocal
<1> QED
  BY <1>1, <1>4, <1>5, <1>6

\* adopt_vocal, its reading half.
LEMMA BeginVoiceKeeps ==
    ASSUME VocalInv, NEW k \in Clients, NEW c, BeginAdoptVoice(k, c)
    PROVE  VocalInv'
<1>1. PICK call : call = [step |-> "voice", candidate |-> c, number |-> NextVocal(voices[c].rev)]
  OBVIOUS
<1>2. calls' = [calls EXCEPT ![k] = call] /\ c \in DOMAIN voices /\ UNCHANGED vocalVars
  BY <1>1 DEF BeginAdoptVoice
<1>3. CallsAre' /\ calls'[k] = call /\ \A j \in Clients : j # k => calls'[j] = calls[j]
  BY <1>2, CallSet DEF VocalInv
<1>4. VoiceCallOK(call)
  <2>1. PICK rev \in lineRevs : rev = voices[c].rev
    BY <1>2 DEF VocalInv, VoicesOK
  <2>2. PICK n \in Nat : n = Cardinality(VocalsOf(rev))
    BY VocalsOfFinite DEF VocalInv, VocalsOK
  <2>3. call.step = "voice" /\ call.candidate = c /\ call.number = n + 1
    BY <1>1, <2>1, <2>2, NextIsCount
  <2>4. call.number \in 1..(n + 1)
    BY <2>3
  <2> QED
    BY <1>2, <2>1, <2>2, <2>3, <2>4 DEF VoiceCallOK
<1>5. \A j \in Clients : VoiceCallOK(calls'[j])
  BY <1>3, <1>4 DEF VocalInv
<1> QED
  BY <1>2, <1>3, <1>5, VocalsStand

\* adopt_vocal, its insert: no two rows of a revision have a number, so that what was
\* read is the next number or is refused.
LEMMA FinishVoiceKeeps ==
    ASSUME VocalInv, NEW k \in Clients, FinishAdoptVoice(k)
    PROVE  VocalInv'
<1>1. PICK new : new = Adopted(k)
  OBVIOUS
<1>2. /\ calls[k].step = "voice" /\ calls' = [calls EXCEPT ![k] = Unread]
      /\ UNCHANGED <<lineRevs, voices, choice, mappings, alignments>>
      /\ \/ UNCHANGED vocals
         \/ /\ vocals' = vocals \cup {new}
            /\ \A v \in vocals : v.candidate # new.candidate /\ ~(v.rev = new.rev /\ v.number = new.number)
  BY <1>1 DEF FinishAdoptVoice
<1>3. CallsAre' /\ calls'[k] = Unread /\ \A j \in Clients : j # k => calls'[j] = calls[j]
  BY <1>2, CallSet DEF VocalInv
<1>4. CASE UNCHANGED vocals
  <2>1. \A j \in Clients : VoiceCallOK(calls'[j])
    BY <1>3, UnreadIsNoCall DEF VocalInv
  <2> QED
    BY <1>2, <1>3, <1>4, <2>1, VocalsStand DEF vocalVars
<1>5. CASE /\ vocals' = vocals \cup {new}
           /\ \A v \in vocals : v.candidate # new.candidate /\ ~(v.rev = new.rev /\ v.number = new.number)
  <2>1. PICK c, rev : c = calls[k].candidate /\ rev = voices[c].rev
    OBVIOUS
  <2>2. c \in DOMAIN voices /\ rev \in lineRevs
    BY <1>2, <2>1 DEF VocalInv, VoiceCallOK, VoicesOK
  <2>3. PICK n \in Nat : n = Cardinality(VocalsOf(rev))
    BY VocalsOfFinite DEF VocalInv, VocalsOK
  <2>4. /\ new.candidate = c /\ new.rev = rev /\ new.trim = voices[c].trim /\ new.speaker = rev.speaker
        /\ new.number = calls[k].number /\ new.number \in 1..(n + 1)
    BY <1>1, <1>2, <2>1, <2>3 DEF Adopted, VocalInv, VoiceCallOK
  <2>5. {v.number : v \in VocalsOf(rev)} = 1..n
    BY <2>2, <2>3 DEF VocalInv, VocalsOK, Counted
  <2>6. new.number \notin 1..n
    BY <1>5, <2>4, <2>5 DEF VocalsOf
  <2>7. new.number = n + 1
    BY <2>4, <2>6
  <2>8. VocalsOf(rev)' = VocalsOf(rev) \cup {new} /\ new \notin VocalsOf(rev)
        /\ \A r : r # rev => VocalsOf(r)' = VocalsOf(r)
    BY <1>5, <2>4 DEF VocalsOf
  <2>9. Cardinality(VocalsOf(rev)') = n + 1
    BY <2>3, <2>8, VocalsOfFinite, FS_AddElement, ZenonT(40) DEF VocalInv, VocalsOK
  <2>10. Counted(rev)'
    <3>1. {v.number : v \in VocalsOf(rev)'} = (1..n) \cup {n + 1}
      BY <2>5, <2>7, <2>8
    <3>2. (1..n) \cup {n + 1} = 1..(n + 1)
      OBVIOUS
    <3> QED
      BY <2>9, <3>1, <3>2 DEF Counted
  <2>11. VocalsOK'
    <3>1. IsFiniteSet(vocals')
      BY <1>5, FS_AddElement DEF VocalInv, VocalsOK
    <3>2. \A r \in lineRevs' : Counted(r)'
      BY <1>2, <2>8, <2>10 DEF VocalInv, VocalsOK, Counted
    <3>3. VerifyVocals'
      BY <1>2, <1>5, <2>1, <2>2, <2>4 DEF VocalInv, VocalsOK, VerifyVocals
    <3> QED
      BY <3>1, <3>2, <3>3 DEF VocalsOK
  <2>12. LinesOK' /\ VoicesOK' /\ UsesOK'
    BY <1>2, <1>5 DEF VocalInv, LinesOK, VerifyDialogue, VoicesOK, TrimValid, UsesOK, VerifyMappings, DocValid
  <2>13. \A r : IsFiniteSet(VocalsOf(r)) /\ Cardinality(VocalsOf(r)) \in Nat
    BY VocalsOfFinite DEF VocalInv, VocalsOK
  <2>14. ASSUME NEW j \in Clients PROVE VoiceCallOK(calls[j])'
    <3>1. CASE j = k
      BY <1>3, <3>1 DEF VoiceCallOK, Unread
    <3>2. CASE j # k
      <4>1. calls'[j] = calls[j] /\ VoiceCallOK(calls[j])
        BY <1>3, <3>2 DEF VocalInv
      <4>2. PICK r : r = voices[calls[j].candidate].rev
        OBVIOUS
      <4>3. CASE r = rev
        <5>1. \A i \in 1..(n + 1) : i \in 1..(n + 1 + 1)
          OBVIOUS
        <5> QED
          BY <1>2, <1>5, <2>3, <2>9, <4>1, <4>2, <4>3, <5>1 DEF VoiceCallOK, DocValid
      <4>4. CASE r # rev
        BY <1>2, <1>5, <2>8, <4>1, <4>2, <4>4 DEF VoiceCallOK, DocValid
      <4> QED
        BY <4>3, <4>4
    <3> QED
      BY <3>1, <3>2
  <2> QED
    BY <1>3, <2>11, <2>12, <2>14 DEF VocalInv
<1> QED
  BY <1>2, <1>4, <1>5

\* set_selection: a vocal of that very revision.
LEMMA SelectionKeeps ==
    ASSUME VocalInv, NEW rev \in lineRevs, NEW vocal, SetSelection(rev, vocal)
    PROVE  VocalInv'
<1>1. /\ choice' = [choice EXCEPT ![rev] = vocal]
      /\ vocal # None => vocal \in vocals /\ vocal.rev = rev
      /\ UNCHANGED <<lineRevs, voices, vocals, mappings, alignments, calls>>
  BY DEF SetSelection
<1>2. LinesOK' /\ VoicesOK'
  BY <1>1 DEF VocalInv, LinesOK, VerifyDialogue, VoicesOK, TrimValid
<1>3. UsesOK'
  BY <1>1 DEF VocalInv, UsesOK, VerifyMappings, DocValid
<1>4. \A r : VocalsOf(r)' = VocalsOf(r)
  BY <1>1 DEF VocalsOf
<1>5. VocalsOK' /\ \A k \in Clients : VoiceCallOK(calls[k])'
  BY <1>1, <1>4 DEF VocalInv, VocalsOK, VerifyVocals, Counted, VoiceCallOK, DocValid
<1> QED
  BY <1>1, <1>2, <1>3, <1>5 DEF VocalInv, CallsAre

-----------------------------------------------------------------------------
(* Alignments.                                                             *)

\* create_alignment, its reading half and its insert.
LEMMA BeginAlignmentKeeps ==
    ASSUME VocalInv, NEW k \in Clients, NEW v \in vocals, NEW run \in Runs, NEW doc,
           BeginAlignment(k, v, run, doc)
    PROVE  VocalInv'
<1>1. PICK row : row = [vocal |-> v, run |-> run, doc |-> doc]
  OBVIOUS
<1>2. PICK call : call = [step |-> "align", row |-> row]
  OBVIOUS
<1>3. calls' = [calls EXCEPT ![k] = call] /\ DocValid(doc, v) /\ UNCHANGED vocalVars
  BY <1>1, <1>2 DEF BeginAlignment
<1>4. CallsAre' /\ calls'[k] = call /\ \A j \in Clients : j # k => calls'[j] = calls[j]
  BY <1>3, CallSet DEF VocalInv
<1>5. VoiceCallOK(call)
  BY <1>1, <1>2, <1>3 DEF VoiceCallOK
<1>6. \A j \in Clients : VoiceCallOK(calls'[j])
  BY <1>4, <1>5 DEF VocalInv
<1> QED
  BY <1>3, <1>4, <1>6, VocalsStand

\* create_alignment, its insert: the vocal it read is adopted for ever.
LEMMA FinishAlignmentKeeps ==
    ASSUME VocalInv, NEW k \in Clients, FinishAlignment(k)
    PROVE  VocalInv'
<1>1. /\ calls[k].step = "align" /\ calls' = [calls EXCEPT ![k] = Unread]
      /\ alignments' = alignments \cup {calls[k].row}
      /\ UNCHANGED <<lineRevs, voices, vocals, choice, mappings>>
  BY DEF FinishAlignment
<1>2. CallsAre' /\ calls'[k] = Unread /\ \A j \in Clients : j # k => calls'[j] = calls[j]
  BY <1>1, CallSet DEF VocalInv
<1>3. LinesOK' /\ VoicesOK'
  BY <1>1 DEF VocalInv, LinesOK, VerifyDialogue, VoicesOK, TrimValid
<1>4. VoiceCallOK(calls[k])
  BY DEF VocalInv
<1>5. UsesOK'
  <2>1. PICK row : row = calls[k].row
    OBVIOUS
  <2>2. row.vocal \in vocals /\ row.run \in Runs /\ DocValid(row.doc, row.vocal)
    BY <1>1, <1>4, <2>1 DEF VoiceCallOK
  <2> QED
    BY <1>1, <2>1, <2>2 DEF VocalInv, UsesOK, VerifyMappings, DocValid
<1>6. \A r : VocalsOf(r)' = VocalsOf(r)
  BY <1>1 DEF VocalsOf
<1>7. VocalsOK'
  BY <1>1, <1>6 DEF VocalInv, VocalsOK, VerifyVocals, Counted
<1>8. ASSUME NEW j \in Clients PROVE VoiceCallOK(calls[j])'
  <2>1. CASE j = k
    BY <1>2, <2>1 DEF VoiceCallOK, Unread
  <2>2. CASE j # k
    BY <1>1, <1>2, <1>6, <2>2 DEF VocalInv, VoiceCallOK, DocValid
  <2> QED
    BY <2>1, <2>2
<1> QED
  BY <1>2, <1>3, <1>5, <1>7, <1>8 DEF VocalInv

-----------------------------------------------------------------------------
(* Segments.                                                               *)

\* Dividing by a divisor and multiplying again.
LEMMA DivExact ==
    ASSUME NEW a \in Nat, NEW d \in Nat \ {0}, Divides(d, a)
    PROVE  \E q \in Nat : a = d * q
<1>1. PICK q \in Nat : q = a \div d
  OBVIOUS
<1>2. a % d = 0 /\ a = d * (a \div d) + (a % d)
  BY DEF Divides
<1>3. a = d * q
  BY <1>1, <1>2
<1> QED
  BY <1>3

\* A factor divides its multiples.
LEMMA ProductDivides ==
    ASSUME NEW d \in Nat \ {0}, NEW q \in Nat
    PROVE  Divides(d, d * q)
BY DEF Divides

\* Products associate, stated for the provers.
LEMMA TimesTimes == \A i, j, k \in Nat : i * (j * k) = (i * j) * k
OBVIOUS

\* Absolute values are natural numbers.
LEMMA AbsIs == \A n \in Int : Abs(n) \in Nat
BY DEF Abs

CommonDivisors(a, den) == {d \in 1..den : Divides(d, a) /\ Divides(d, den)}

\* Gcd is a common divisor, and the greatest.
LEMMA GcdIsGreatest ==
    ASSUME NEW a \in Nat, NEW den \in Nat \ {0}
    PROVE  /\ Max(CommonDivisors(a, den)) \in CommonDivisors(a, den)
           /\ \A d \in CommonDivisors(a, den) : d <= Max(CommonDivisors(a, den))
<1>1. 1 \in CommonDivisors(a, den)
  BY DEF CommonDivisors, Divides
<1>2. CommonDivisors(a, den) \subseteq 1..den /\ IsFiniteSet(1..den) /\ 1..den \subseteq Nat
  BY FS_Interval DEF CommonDivisors
<1>3. IsFiniteSet(CommonDivisors(a, den))
  BY <1>2, FS_Subset
<1> QED
  BY <1>1, <1>2, <1>3, MaxIsGreatest

\* A rational in lowest terms has no common divisor left.
LEMMA ReducedHasNone ==
    ASSUME NEW a \in Nat, NEW den \in Nat \ {0}, NEW g, g = Max(CommonDivisors(a, den))
    PROVE  /\ g \in Nat \ {0} /\ a \div g \in Nat /\ den \div g \in Nat \ {0}
           /\ Max(CommonDivisors(a \div g, den \div g)) = 1
<1>1. g \in 1..den /\ Divides(g, a) /\ Divides(g, den)
  BY GcdIsGreatest DEF CommonDivisors
<1>2. g \in Nat \ {0}
  BY <1>1
<1>3. PICK x \in Nat : a = g * x
  BY <1>1, <1>2, DivExact
<1>4. PICK y \in Nat : den = g * y
  BY <1>1, <1>2, DivExact
<1>5. y # 0
  BY <1>2, <1>4
<1>6. a \div g = x /\ den \div g = y
  BY <1>2, <1>3, <1>4
<1>7. ASSUME NEW d \in CommonDivisors(x, y) PROVE d = 1
  <2>1. d \in Nat \ {0} /\ Divides(d, x) /\ Divides(d, y)
    BY <1>7 DEF CommonDivisors
  <2>2. PICK u \in Nat : x = d * u
    BY <2>1, DivExact
  <2>3. PICK v \in Nat : y = d * v
    BY <2>1, DivExact
  <2>4. PICK h \in Nat \ {0} : h = g * d
    BY <1>2, <2>1
  <2>5. a = h * u /\ den = h * v
    <3>1. g * (d * u) = (g * d) * u /\ g * (d * v) = (g * d) * v
      BY <1>2, <2>1, TimesTimes
    <3> QED
      BY <1>3, <1>4, <2>2, <2>3, <2>4, <3>1
  <2>6. v # 0
    BY <1>5, <2>1, <2>3
  <2>7. h <= den
    BY <2>4, <2>5, <2>6
  <2>8. h \in CommonDivisors(a, den)
    BY <2>4, <2>5, <2>7, ProductDivides DEF CommonDivisors
  <2>9. g * d <= g
    BY <2>4, <2>8, GcdIsGreatest
  <2> QED
    BY <1>2, <2>1, <2>9
<1>8. Max(CommonDivisors(x, y)) = 1
  BY <1>5, <1>7, GcdIsGreatest
<1> QED
  BY <1>2, <1>5, <1>6, <1>8

\* canonical_rational: what it returns is in lowest terms.
LEMMA CanonicalIsReduced ==
    ASSUME NEW n \in Int, NEW den \in Nat \ {0}, NEW anchor,
           anchor = CanonicalRational(n, den), anchor # None
    PROVE  Gcd(anchor[1], anchor[2]) = 1
<1>1. PICK a \in Nat : a = Abs(n)
  BY AbsIs
<1>2. PICK g : g = Max(CommonDivisors(a, den))
  OBVIOUS
<1>3. Gcd(n, den) = g
  BY <1>1, <1>2 DEF Gcd, CommonDivisors
<1>4. PICK x \in Nat, y \in Nat \ {0} : x = a \div g /\ y = den \div g /\ Max(CommonDivisors(x, y)) = 1
  BY <1>2, ReducedHasNone
<1>5. PICK num : num = IF n < 0 THEN -x ELSE x
  OBVIOUS
<1>6. x = IF n < 0 THEN a \div g ELSE n \div g
  BY <1>1, <1>4 DEF Abs
<1>7. num = IF n < 0 THEN -(Abs(n) \div g) ELSE n \div g
  BY <1>1, <1>4, <1>5, <1>6
<1>8. anchor = <<num, y>>
  BY <1>3, <1>4, <1>7 DEF CanonicalRational
<1>9. Abs(num) = x
  BY <1>5 DEF Abs
<1>10. Gcd(num, y) = 1
  BY <1>4, <1>9 DEF Gcd, CommonDivisors
<1> QED
  BY <1>8, <1>10

\* put_mapping and delete_mapping.
LEMMA PutMappingKeeps ==
    ASSUME VocalInv, NEW s, NEW position, NEW vocal, NEW span, NEW n \in Int, NEW den \in Nat \ {0},
           PutMapping(s, position, vocal, span, n, den)
    PROVE  VocalInv'
<1>1. PICK anchor : anchor = CanonicalRational(n, den)
  OBVIOUS
<1>2. PICK row : row = [vocal |-> vocal, span |-> span, anchor |-> anchor]
  OBVIOUS
<1>3. PICK m : m = <<s, position>>
  OBVIOUS
<1>4. /\ vocal \in vocals /\ WithinTrim(span, vocal) /\ anchor # None
      /\ mappings' = With(mappings, m, row)
      /\ UNCHANGED <<lineRevs, voices, vocals, choice, alignments, calls>>
  BY <1>1, <1>2, <1>3 DEF PutMapping
<1>5. /\ row.vocal = vocal /\ row.span = span /\ row.anchor = anchor
      /\ Gcd(row.anchor[1], row.anchor[2]) = 1
  BY <1>1, <1>2, <1>4, CanonicalIsReduced
<1>6. /\ DOMAIN mappings' = DOMAIN mappings \cup {m} /\ mappings'[m] = row
      /\ \A x \in DOMAIN mappings : x # m => mappings'[x] = mappings[x]
  BY <1>4 DEF With
<1>7. ASSUME NEW x \in DOMAIN mappings'
      PROVE  /\ mappings'[x].vocal \in vocals
             /\ Gcd(mappings'[x].anchor[1], mappings'[x].anchor[2]) = 1
             /\ mappings'[x].vocal.trim[1] <= mappings'[x].span[1]
             /\ mappings'[x].span[2] <= mappings'[x].vocal.trim[2]
  <2>1. CASE x = m
    BY <1>4, <1>5, <1>6, <2>1 DEF WithinTrim
  <2>2. CASE x # m
    BY <1>6, <2>2 DEF VocalInv, UsesOK, VerifyMappings
  <2> QED
    BY <2>1, <2>2
<1>8. UsesOK'
  <2>1. VerifyMappings'
    BY <1>7 DEF VerifyMappings
  <2> QED
    BY <1>4, <1>7, <2>1 DEF VocalInv, UsesOK, DocValid
<1>9. \A r : VocalsOf(r)' = VocalsOf(r)
  BY <1>4 DEF VocalsOf
<1>10. LinesOK' /\ VoicesOK' /\ VocalsOK'
  BY <1>4, <1>9 DEF VocalInv, LinesOK, VerifyDialogue, VoicesOK, TrimValid, VocalsOK, VerifyVocals, Counted
<1>11. \A k \in Clients : VoiceCallOK(calls[k])'
  BY <1>4, <1>9 DEF VocalInv, VoiceCallOK, DocValid
<1> QED
  BY <1>4, <1>8, <1>10, <1>11 DEF VocalInv, CallsAre

\* delete_mapping.
LEMMA DeleteMappingKeeps ==
    ASSUME VocalInv, NEW m, DeleteMapping(m)
    PROVE  VocalInv'
<1>1. /\ mappings' = [x \in DOMAIN mappings \ {m} |-> mappings[x]]
      /\ UNCHANGED <<lineRevs, voices, vocals, choice, alignments, calls>>
  BY DEF DeleteMapping
<1>2. DOMAIN mappings' \subseteq DOMAIN mappings /\ \A x \in DOMAIN mappings' : mappings'[x] = mappings[x]
  BY <1>1
<1>3. UsesOK'
  <2>1. VerifyMappings'
    BY <1>2 DEF VocalInv, UsesOK, VerifyMappings
  <2> QED
    BY <1>1, <1>2, <2>1 DEF VocalInv, UsesOK, DocValid
<1>4. \A r : VocalsOf(r)' = VocalsOf(r)
  BY <1>1 DEF VocalsOf
<1>5. LinesOK' /\ VoicesOK' /\ VocalsOK'
  BY <1>1, <1>4 DEF VocalInv, LinesOK, VerifyDialogue, VoicesOK, TrimValid, VocalsOK, VerifyVocals, Counted
<1>6. \A k \in Clients : VoiceCallOK(calls[k])'
  BY <1>1, <1>4 DEF VocalInv, VoiceCallOK, DocValid
<1> QED
  BY <1>1, <1>3, <1>5, <1>6 DEF VocalInv, CallsAre

\* Every operation on voices.
LEMMA VocalStepKeeps ==
    ASSUME VocalInv, VocalStep
    PROVE  VocalInv'
<1>1. CASE \E l \in Line, e \in Entity, t \in Texts : CreateLineRevision(l, e, t)
  BY <1>1, LineRevisionKeeps
<1>2. CASE \E c \in Voice, r \in lineRevs, trim \in Nat \X Nat : CreateVoice(c, r, trim)
  BY <1>2, VoiceKeeps
<1>3. CASE \E k \in Clients : FinishAdoptVoice(k) \/ \E c \in Voice : BeginAdoptVoice(k, c)
  BY <1>3, FinishVoiceKeeps, BeginVoiceKeeps
<1>4. CASE \E r \in lineRevs, v \in vocals \cup {None} : SetSelection(r, v)
  BY <1>4, SelectionKeeps
<1>5. CASE \E s \in Shot, position \in Nat, v \in vocals, span \in Nat \X Nat, n \in Int, den \in Nat \ {0} :
              PutMapping(s, position, v, span, n, den)
  BY <1>5, PutMappingKeeps
<1>6. CASE \E m \in DOMAIN mappings : DeleteMapping(m)
  BY <1>6, DeleteMappingKeeps
<1>7. CASE \E k \in Clients :
              \/ FinishAlignment(k)
              \/ \E v \in vocals, run \in Runs, doc \in [span : Nat \X Nat, label : Labels] :
                    BeginAlignment(k, v, run, doc)
  BY <1>7, FinishAlignmentKeeps, BeginAlignmentKeeps
<1> QED
  BY <1>1, <1>2, <1>3, <1>4, <1>5, <1>6, <1>7 DEF VocalStep

-----------------------------------------------------------------------------
(* Performances.                                                           *)

PerformancesOK ==
    /\ DOMAIN performances \subseteq PerformanceId /\ IsFiniteSet(DOMAIN performances)
    /\ PerformancesCertify

\* What an assessment and a review are of is there.
ReviewsOfOK ==
    /\ \A a \in assessments : {a.from, a.to} \subseteq Physical
    /\ \A v \in verdicts : v.assessment \in assessments

BodyInv ==
    /\ PerformancesOK /\ ReviewsOfOK
    /\ \A k \in Clients : calls[k].step = "adopt" => calls[k].candidate \in DOMAIN performances

\* What is recorded of performances is never taken back.
RecordsStay ==
    /\ performed \subseteq performed' /\ assessments \subseteq assessments' /\ verdicts \subseteq verdicts'
    /\ alignments \subseteq alignments'
    /\ \A p \in DOMAIN performances : p \in DOMAIN performances' /\ performances'[p] = performances[p]

\* The evidence of a retargeted candidate is not taken back.
LEMMA EvidenceStays ==
    ASSUME VerifyPerformed, RecordsStay, NEW p \in DOMAIN performances, EvidenceOf(p)
    PROVE  EvidenceOf(p)'
<1>1. PICK r : r = performances[p].retarget
  OBVIOUS
<1>2. performances'[p] = performances[p]
  BY DEF RecordsStay
<1>3. /\ r.source \in performed /\ r.source.closure = performances[r.source.candidate]
      /\ r.assessment \in assessments /\ r.assessment.performed = r.source
      /\ r.assessment.verdict = Verdict(r.assessment.from, r.assessment.to)
      /\ r.assessment.verdict = "REQUIRES_REVIEW"
      /\ r.review \in verdicts /\ r.review.assessment = r.assessment
      /\ r.review.decision = "ACCEPT_FOR_NEW_CANDIDATE" /\ SameClosure(p, r.source)
  BY <1>1 DEF EvidenceOf
<1>4. r.source.candidate \in DOMAIN performances
  BY <1>3 DEF VerifyPerformed
<1>5. performances'[r.source.candidate] = performances[r.source.candidate]
  BY <1>4 DEF RecordsStay
<1>6. SameClosure(p, r.source)'
  BY <1>2, <1>3 DEF SameClosure
<1>7. performances'[p].retarget = r
  BY <1>1, <1>2
<1>8. /\ r.source \in performed' /\ r.assessment \in assessments' /\ r.review \in verdicts'
  BY <1>3 DEF RecordsStay
<1> QED
  BY <1>3, <1>5, <1>6, <1>7, <1>8 DEF EvidenceOf, Verdict

CandidateOK(p) ==
    /\ PayloadValid(performances[p].payload)
    /\ LinksOwn(performances[p].subject, performances[p].payload)
    /\ performances[p].retarget # None => EvidenceOf(p)

\* Certifying the candidates is certifying each of them.
LEMMA CandidatesAre ==
    VerifyPerformances /\ VerifyRetargeted <=> \A p \in DOMAIN performances : CandidateOK(p)
BY DEF CandidateOK, VerifyPerformances, VerifyRetargeted

\* The same, after a step.
LEMMA CertifiedThen ==
    ASSUME \A p \in DOMAIN performances' : CandidateOK(p)'
    PROVE  VerifyPerformances' /\ VerifyRetargeted'
BY DEF CandidateOK, VerifyPerformances, VerifyRetargeted

\* What was certified of a performance stays so.
LEMMA CertifiedPerformanceStays ==
    ASSUME PerformancesCertify, RecordsStay, NEW p \in DOMAIN performances
    PROVE  CandidateOK(p)'
<1>1. performances'[p] = performances[p] /\ alignments \subseteq alignments'
  BY DEF RecordsStay
<1>2. CandidateOK(p) /\ VerifyPerformed
  BY CandidatesAre DEF PerformancesCertify
<1>3. performances[p].retarget # None => EvidenceOf(p)'
  BY <1>2, EvidenceStays DEF CandidateOK
<1>4. PICK row : row = performances[p]
  OBVIOUS
<1>5. \A x \in row.payload.keys : x.link # None => x.link \in alignments' /\ x.link.vocal.speaker = row.subject
  BY <1>1, <1>2, <1>4 DEF CandidateOK, LinksOwn
<1>6. LinksOwn(row.subject, row.payload)'
  BY <1>5 DEF LinksOwn
<1>7. performances'[p] = row /\ PayloadValid(row.payload)
  BY <1>1, <1>2, <1>4 DEF CandidateOK
<1> QED
  BY <1>1, <1>3, <1>4, <1>6, <1>7 DEF CandidateOK

\* Steps that make no performance and adopt none.
LEMMA BodyStands ==
    ASSUME BodyInv, UNCHANGED <<performances, performed>>, RecordsStay,
           VerifyAssessed', ReviewsOfOK',
           \A k \in Clients : calls'[k].step = "adopt" => calls'[k].candidate \in DOMAIN performances
    PROVE  BodyInv'
<1>1. PerformancesCertify
  BY DEF BodyInv, PerformancesOK
<1>2. VerifyPerformances' /\ VerifyRetargeted'
  <2>1. \A p \in DOMAIN performances' : CandidateOK(p)'
    BY <1>1, CertifiedPerformanceStays
  <2> QED
    BY <2>1, CertifiedThen
<1>3. VerifyPerformed'
  BY <1>1 DEF PerformancesCertify, VerifyPerformed
<1>4. PerformancesCertify'
  BY <1>2, <1>3 DEF PerformancesCertify
<1> QED
  BY <1>4 DEF BodyInv, PerformancesOK

\* A new performance: certified, and nothing before it disturbed.
LEMMA PerformanceMade ==
    ASSUME BodyInv, NEW p \in PerformanceId, p \notin DOMAIN performances, NEW row,
           performances' = With(performances, p, row),
           UNCHANGED <<performed, assessments, verdicts, calls, alignments>>,
           PayloadValid(row.payload), LinksOwn(row.subject, row.payload),
           row.retarget # None => EvidenceOf(p)'
    PROVE  BodyInv'
<1>1. /\ DOMAIN performances' = DOMAIN performances \cup {p} /\ performances'[p] = row
      /\ \A q \in DOMAIN performances : performances'[q] = performances[q]
  BY DEF With
<1>2. RecordsStay
  BY <1>1 DEF RecordsStay
<1>3. PerformancesCertify
  BY DEF BodyInv, PerformancesOK
<1>4. ASSUME NEW q \in DOMAIN performances'
      PROVE  CandidateOK(q)'
  <2>1. CASE q = p
    <3>1. LinksOwn(row.subject, row.payload)'
      BY DEF LinksOwn
    <3> QED
      BY <1>1, <2>1, <3>1 DEF CandidateOK
  <2>2. CASE q # p
    BY <1>1, <1>2, <1>3, <2>2, CertifiedPerformanceStays
  <2> QED
    BY <2>1, <2>2
<1>5. VerifyPerformances' /\ VerifyRetargeted'
  BY <1>4, CertifiedThen
<1>6. VerifyPerformed' /\ VerifyAssessed'
  BY <1>1, <1>3 DEF PerformancesCertify, VerifyPerformed, VerifyAssessed
<1>7. IsFiniteSet(DOMAIN performances') /\ DOMAIN performances' \subseteq PerformanceId
  BY <1>1, FS_AddElement DEF BodyInv, PerformancesOK
<1>8. ReviewsOfOK'
  BY DEF BodyInv, ReviewsOfOK
<1> QED
  BY <1>1, <1>5, <1>6, <1>7, <1>8 DEF BodyInv, PerformancesOK, PerformancesCertify

\* create_performance.
LEMMA PerformanceKeeps ==
    ASSUME BodyInv, NEW p \in PerformanceId, NEW e, NEW payload, CreatePerformance(p, e, payload)
    PROVE  BodyInv'
<1>1. PICK row : row = [subject |-> e, payload |-> payload, retarget |-> None]
  OBVIOUS
<1>2. /\ p \notin DOMAIN performances /\ performances' = With(performances, p, row)
      /\ PayloadValid(payload) /\ LinksOwn(e, payload)
      /\ UNCHANGED <<performed, assessments, verdicts, calls, alignments>>
  BY <1>1 DEF CreatePerformance, vocalVars
<1>3. row.subject = e /\ row.payload = payload /\ row.retarget = None
  BY <1>1
<1>4. PayloadValid(row.payload) /\ LinksOwn(row.subject, row.payload)
  BY <1>2, <1>3
<1> QED
  BY <1>2, <1>3, <1>4, PerformanceMade

\* create_retarget_candidate: a copy of what was performed, with its evidence.
LEMMA RetargetKeeps ==
    ASSUME BodyInv, NEW p \in PerformanceId, NEW r, NEW a, NEW review, CreateRetarget(p, r, a, review)
    PROVE  BodyInv'
<1>1. PICK evidence : evidence = [source |-> r, assessment |-> a, review |-> review]
  OBVIOUS
<1>2. PICK row : row = [subject |-> r.closure.subject, payload |-> r.closure.payload, retarget |-> evidence]
  OBVIOUS
<1>3. /\ p \notin DOMAIN performances /\ performances' = With(performances, p, row)
      /\ r \in performed /\ a \in assessments /\ a.performed = r /\ a.verdict = "REQUIRES_REVIEW"
      /\ review \in verdicts /\ review.assessment = a /\ review.decision = "ACCEPT_FOR_NEW_CANDIDATE"
      /\ UNCHANGED <<performed, assessments, verdicts, calls, alignments>>
  BY <1>1, <1>2 DEF CreateRetarget, vocalVars
<1>4. /\ row.subject = r.closure.subject /\ row.payload = r.closure.payload /\ row.retarget = evidence
      /\ evidence.source = r /\ evidence.assessment = a /\ evidence.review = review
  BY <1>1, <1>2
<1>5. r.candidate \in DOMAIN performances /\ r.closure = performances[r.candidate]
  BY <1>3 DEF BodyInv, PerformancesOK, PerformancesCertify, VerifyPerformed
<1>6. PayloadValid(row.payload) /\ LinksOwn(row.subject, row.payload)
  BY <1>4, <1>5 DEF BodyInv, PerformancesOK, PerformancesCertify, VerifyPerformances
<1>7. performances'[p] = row /\ performances'[r.candidate] = r.closure
  BY <1>3, <1>5 DEF With
<1>8. a.verdict = Verdict(a.from, a.to)
  BY <1>3 DEF BodyInv, PerformancesOK, PerformancesCertify, VerifyAssessed
<1>9. SameClosure(p, r)'
  BY <1>4, <1>7 DEF SameClosure
<1>10. EvidenceOf(p)'
  BY <1>3, <1>4, <1>7, <1>8, <1>9 DEF EvidenceOf, Verdict
<1> QED
  BY <1>3, <1>6, <1>10, PerformanceMade

\* adopt_performance, its reading half and its insert.
LEMMA BeginAdoptKeeps ==
    ASSUME BodyInv, CallsAre, NEW k \in Clients, NEW p, BeginAdopt(k, p)
    PROVE  BodyInv' /\ CallsAre' /\ \A j \in Clients : calls'[j] = calls[j] \/ calls'[j].step = "adopt"
<1>1. PICK call : call = [step |-> "adopt", candidate |-> p]
  OBVIOUS
<1>2. /\ calls' = [calls EXCEPT ![k] = call] /\ p \in DOMAIN performances /\ call.candidate = p
      /\ call.step = "adopt"
      /\ UNCHANGED <<performances, performed, assessments, verdicts, alignments>>
  BY <1>1 DEF BeginAdopt, vocalVars, bodyVars
<1>3. CallsAre' /\ calls'[k] = call /\ \A j \in Clients : j # k => calls'[j] = calls[j]
  BY <1>2, CallSet
<1>4. RecordsStay
  BY <1>2 DEF RecordsStay
<1>5. VerifyAssessed' /\ ReviewsOfOK'
  BY <1>2 DEF BodyInv, ReviewsOfOK, PerformancesOK, PerformancesCertify, VerifyAssessed
<1>6. \A j \in Clients : calls'[j].step = "adopt" => calls'[j].candidate \in DOMAIN performances
  BY <1>2, <1>3 DEF BodyInv
<1>7. BodyInv'
  BY <1>2, <1>4, <1>5, <1>6, BodyStands
<1> QED
  BY <1>2, <1>3, <1>7

\* adopt_performance, its insert: the candidate it read is there, as it was.
LEMMA FinishAdoptKeeps ==
    ASSUME BodyInv, CallsAre, NEW k \in Clients, FinishAdopt(k)
    PROVE  BodyInv' /\ CallsAre' /\ \A j \in Clients : calls'[j] = calls[j] \/ calls'[j] = Unread
<1>1. PICK p, new : p = calls[k].candidate /\ new = Performed(k)
  OBVIOUS
<1>2. /\ p \in DOMAIN performances /\ calls' = [calls EXCEPT ![k] = Unread]
      /\ new.candidate = p /\ new.closure = performances[p]
      /\ UNCHANGED <<performances, assessments, verdicts, alignments>>
      /\ \/ UNCHANGED performed
         \/ performed' = performed \cup {new} /\ \A u \in performed : u.candidate # p
  BY <1>1 DEF FinishAdopt, Performed, BodyInv, vocalVars
<1>3. CallsAre' /\ calls'[k] = Unread /\ \A j \in Clients : j # k => calls'[j] = calls[j]
  BY <1>2, CallSet
<1>4. PerformancesCertify
  BY DEF BodyInv, PerformancesOK
<1>5. RecordsStay
  BY <1>2 DEF RecordsStay
<1>6. VerifyPerformances' /\ VerifyRetargeted'
  <2>1. \A q \in DOMAIN performances' : CandidateOK(q)'
    BY <1>2, <1>4, <1>5, CertifiedPerformanceStays
  <2> QED
    BY <2>1, CertifiedThen
<1>7. VerifyPerformed'
  BY <1>2, <1>4 DEF PerformancesCertify, VerifyPerformed
<1>8. VerifyAssessed' /\ ReviewsOfOK'
  BY <1>2, <1>4 DEF BodyInv, ReviewsOfOK, PerformancesCertify, VerifyAssessed
<1>9. \A j \in Clients : calls'[j].step = "adopt" => calls'[j].candidate \in DOMAIN performances'
  BY <1>2, <1>3 DEF BodyInv, Unread
<1>10. BodyInv'
  BY <1>2, <1>6, <1>7, <1>8, <1>9 DEF BodyInv, PerformancesOK, PerformancesCertify
<1> QED
  BY <1>3, <1>10

\* assess_retarget and review_retarget append.
LEMMA AssessKeeps ==
    ASSUME BodyInv, NEW r, NEW from \in Physical, NEW to \in Physical, AssessRetarget(r, from, to)
    PROVE  BodyInv'
<1>1. PICK new : new = [performed |-> r, from |-> from, to |-> to, verdict |-> Verdict(from, to)]
  OBVIOUS
<1>2. /\ r \in performed /\ assessments' = assessments \cup {new}
      /\ UNCHANGED <<performances, performed, verdicts, calls, alignments>>
  BY <1>1 DEF AssessRetarget, vocalVars
<1>3. new.performed = r /\ new.from = from /\ new.to = to /\ new.verdict = Verdict(from, to)
  BY <1>1
<1>4. RecordsStay
  BY <1>2 DEF RecordsStay
<1>5. VerifyAssessed'
  BY <1>2, <1>3 DEF BodyInv, PerformancesOK, PerformancesCertify, VerifyAssessed, Verdict
<1>6. ReviewsOfOK'
  BY <1>2, <1>3 DEF BodyInv, ReviewsOfOK
<1> QED
  BY <1>2, <1>4, <1>5, <1>6, BodyStands DEF BodyInv

\* review_retarget appends.
LEMMA ReviewKeeps ==
    ASSUME BodyInv, NEW a \in assessments, NEW decision, ReviewRetarget(a, decision)
    PROVE  BodyInv'
<1>1. PICK new : new = [assessment |-> a, decision |-> decision]
  OBVIOUS
<1>2. /\ verdicts' = verdicts \cup {new} /\ new.assessment = a
      /\ UNCHANGED <<performances, performed, assessments, calls, alignments>>
  BY <1>1 DEF ReviewRetarget, vocalVars
<1>3. RecordsStay
  BY <1>2 DEF RecordsStay
<1>4. VerifyAssessed' /\ ReviewsOfOK'
  BY <1>2 DEF BodyInv, ReviewsOfOK, PerformancesOK, PerformancesCertify, VerifyAssessed
<1> QED
  BY <1>2, <1>3, <1>4, BodyStands DEF BodyInv

-----------------------------------------------------------------------------
(* Ancestry.                                                               *)

\* What a performance is: whose, and which keyframes.
SameAs(q, p) ==
    /\ q \in DOMAIN performances
    /\ performances[q].subject = performances[p].subject
    /\ performances[q].payload = performances[p].payload

Above(q) == IF performances[q].retarget = None THEN q ELSE SourceOf(q).candidate

\* The first n steps up from a performance.
Climb(f, up, p, n) ==
    f = [i \in 0..n |-> IF i = 0 THEN {p} ELSE f[i - 1] \cup {up[q] : q \in f[i - 1]}]

\* Climbing n times is well defined.
LEMMA ClimbsExist ==
    ASSUME NEW up, NEW p, NEW n \in Nat
    PROVE  \E f : Climb(f, up, p, n)
<1>1. PICK T : T = {m \in Nat : ~\E f : Climb(f, up, p, m)}
  OBVIOUS
<1>2. T = {}
  <2> SUFFICES ASSUME T # {} PROVE FALSE
    OBVIOUS
  <2>1. T \in SUBSET Nat
    BY <1>1
  <2>2. PICK m \in T : \A k \in T : m <= k
    BY <2>1, LeastNumber
  <2>3. m \in Nat /\ ~\E f : Climb(f, up, p, m)
    BY <1>1
  <2>4. CASE m = 0
    <3>1. PICK f : f = [i \in 0..m |-> {p}]
      OBVIOUS
    <3>2. [i \in 0..m |-> IF i = 0 THEN {p} ELSE f[i - 1] \cup {up[q] : q \in f[i - 1]}] = [i \in 0..m |-> {p}]
      BY <2>4
    <3>3. Climb(f, up, p, m)
      BY <3>1, <3>2 DEF Climb
    <3> QED
      BY <2>3, <3>3
  <2>5. CASE m # 0
    <3>1. m - 1 \in Nat /\ m - 1 \notin T
      BY <2>2, <2>3, <2>5
    <3>2. PICK f : Climb(f, up, p, m - 1)
      BY <1>1, <3>1
    <3>3. \A i \in 0..(m - 1) : f[i] = IF i = 0 THEN {p} ELSE f[i - 1] \cup {up[q] : q \in f[i - 1]}
      BY <3>2 DEF Climb
    <3>4. PICK g : g = [i \in 0..m |-> IF i = 0 THEN {p} ELSE f[i - 1] \cup {up[q] : q \in f[i - 1]}]
      OBVIOUS
    <3>5. \A i \in 0..(m - 1) : g[i] = f[i]
      <4> SUFFICES ASSUME NEW i \in 0..(m - 1) PROVE g[i] = f[i]
        OBVIOUS
      <4>1. i \in 0..m
        BY <2>3
      <4>2. g[i] = IF i = 0 THEN {p} ELSE f[i - 1] \cup {up[q] : q \in f[i - 1]}
        BY <3>4, <4>1
      <4> QED
        BY <3>3, <4>2
    <3>6. \A i \in 0..m : i # 0 => i - 1 \in 0..(m - 1)
      BY <2>3
    <3>7. \A i \in 0..m : i # 0 => g[i - 1] = f[i - 1]
      BY <3>5, <3>6
    <3>8. \A i \in 0..m : (IF i = 0 THEN {p} ELSE f[i - 1] \cup {up[q] : q \in f[i - 1]})
                          = (IF i = 0 THEN {p} ELSE g[i - 1] \cup {up[q] : q \in g[i - 1]})
      BY <3>7
    <3>9. g = [i \in 0..m |-> IF i = 0 THEN {p} ELSE g[i - 1] \cup {up[q] : q \in g[i - 1]}]
      BY <3>4, <3>8
    <3> QED
      BY <2>3, <3>9 DEF Climb
  <2> QED
    BY <2>4, <2>5
<1> QED
  BY <1>1, <1>2

\* One step up keeps what is performed.
LEMMA AboveIsSame ==
    ASSUME PerformancesCertify, NEW p, NEW q, SameAs(q, p)
    PROVE  SameAs(Above(q), p)
<1>1. CASE performances[q].retarget = None
  BY <1>1 DEF Above
<1>2. CASE performances[q].retarget # None
  <2>1. PICK r : r = SourceOf(q)
    OBVIOUS
  <2>2. EvidenceOf(q)
    BY <1>2 DEF PerformancesCertify, VerifyRetargeted, SameAs
  <2>3. r \in performed /\ r.closure = performances[r.candidate] /\ SameClosure(q, r)
    BY <2>1, <2>2 DEF EvidenceOf, SourceOf
  <2>4. r.candidate \in DOMAIN performances
    BY <2>3 DEF PerformancesCertify, VerifyPerformed
  <2>5. Above(q) = r.candidate
    BY <1>2, <2>1 DEF Above
  <2> QED
    BY <2>3, <2>4, <2>5 DEF SameAs, SameClosure
<1> QED
  BY <1>1, <1>2

\* However far one climbs, it stays the same performance.
LEMMA ClimbStays ==
    ASSUME PerformancesCertify, NEW p \in DOMAIN performances, NEW up, NEW n \in Nat, NEW f,
           up = [q \in DOMAIN performances |-> Above(q)], Climb(f, up, p, n)
    PROVE  \A i \in 0..n : \A q \in f[i] : SameAs(q, p)
<1>1. PICK T : T = {i \in 0..n : ~\A q \in f[i] : SameAs(q, p)}
  OBVIOUS
<1>2. \A i \in 0..n : f[i] = IF i = 0 THEN {p} ELSE f[i - 1] \cup {up[q] : q \in f[i - 1]}
  BY DEF Climb
<1>3. T = {}
  <2> SUFFICES ASSUME T # {} PROVE FALSE
    OBVIOUS
  <2>1. T \in SUBSET Nat
    BY <1>1
  <2>2. PICK m \in T : \A k \in T : m <= k
    BY <2>1, LeastNumber
  <2>3. m \in 0..n /\ ~\A q \in f[m] : SameAs(q, p)
    BY <1>1, <2>2
  <2>4. m # 0
    BY <1>2, <2>3 DEF SameAs
  <2>5. m - 1 \in 0..n /\ m - 1 \notin T
    BY <2>1, <2>2, <2>3, <2>4
  <2>6. \A q \in f[m - 1] : SameAs(q, p)
    BY <1>1, <2>5
  <2>7. \A q \in f[m - 1] : SameAs(up[q], p)
    BY <2>6, AboveIsSame DEF SameAs
  <2>8. f[m] = f[m - 1] \cup {up[q] : q \in f[m - 1]}
    BY <1>2, <2>3, <2>4
  <2> QED
    BY <2>3, <2>6, <2>7, <2>8
<1> QED
  BY <1>1, <1>3

\* The whole ancestry is one performance on one object.
LEMMA IdentityKept ==
    ASSUME BodyInv
    PROVE  RetargetKeepsIdentity
<1>0. PerformancesCertify /\ IsFiniteSet(DOMAIN performances)
  BY DEF BodyInv, PerformancesOK
<1>1. PICK n \in Nat : n = Cardinality(DOMAIN performances)
  BY <1>0, FS_CardinalityType
<1>2. PICK up : up = [q \in DOMAIN performances |-> Above(q)]
  OBVIOUS
<1>3. ASSUME NEW p \in DOMAIN performances, NEW q \in Ancestry(p)
      PROVE  SameAs(q, p)
  <2>1. PICK f : f = CHOOSE g : Climb(g, up, p, n)
    OBVIOUS
  <2>2. Climb(f, up, p, n)
    BY <2>1, ClimbsExist
  <2>3. Ancestry(p) = f[n]
    BY <1>1, <1>2, <2>1 DEF Ancestry, Climb, Above
  <2>4. n \in 0..n
    OBVIOUS
  <2> QED
    BY <1>0, <1>2, <1>3, <2>2, <2>3, <2>4, ClimbStays
<1>4. ASSUME NEW q \in DOMAIN performances, performances[q].retarget # None
      PROVE  performances[q].retarget.assessment.from.object = performances[q].retarget.assessment.to.object
  <2>1. EvidenceOf(q)
    BY <1>0, <1>4 DEF PerformancesCertify, VerifyRetargeted
  <2>2. PICK a : a = performances[q].retarget.assessment
    OBVIOUS
  <2>3. a.verdict = Verdict(a.from, a.to) /\ a.verdict = "REQUIRES_REVIEW"
    BY <2>1, <2>2 DEF EvidenceOf
  <2> QED
    BY <2>2, <2>3 DEF Verdict
<1> QED
  BY <1>3, <1>4 DEF RetargetKeepsIdentity, SameAs

-----------------------------------------------------------------------------
(* Types of the layers below.                                              *)

\* A state is of a world that is there, and its axes are.
StateNamed(st) == st[1] \in DOMAIN worlds /\ DOMAIN worldStates[st].axes \subseteq DOMAIN axes

RevsNamed ==
    /\ IsFiniteSet(worldRevs)
    /\ \A r \in worldRevs : r.state \in DOMAIN worldStates /\ r.number \in 1..MaxWorldRevs
    /\ DOMAIN freeze = Clients
    /\ \A k \in Clients : freeze[k].step \in {"frames", "frozen"} => freeze[k].state \in DOMAIN worldStates

TracksNamed ==
    DOMAIN tracks \subseteq Track /\ \A t \in DOMAIN tracks : tracks[t].world \in DOMAIN worlds

\* The rows of worlds, states and tracks name rows that exist.
GeometryNames ==
    /\ DOMAIN worlds \subseteq World /\ \A st \in DOMAIN worldStates : StateNamed(st)
    /\ RevsNamed /\ TracksNamed

\* Rows that are added or kept name what they named.
LEMMA GeometryNamesStay ==
    ASSUME GeometryNames, DOMAIN worlds \subseteq DOMAIN worlds', DOMAIN worlds' \subseteq World,
           DOMAIN worldStates \subseteq DOMAIN worldStates', UNCHANGED <<worldRevs, freeze, tracks>>,
           \A st \in DOMAIN worldStates' : StateNamed(st)'
    PROVE  GeometryNames'
BY DEF GeometryNames, RevsNamed, TracksNamed

\* Worlds, frames and axes are made and tombstoned.
LEMMA WorldNames ==
    ASSUME GeometryNames, NEW w \in World, NEW e, NEW b, CreateWorld(w, e, b) \/ PatchWorld(w, b) \/ DeleteWorld(w)
    PROVE  GeometryNames'
<1>1. /\ DOMAIN worlds \subseteq DOMAIN worlds' /\ DOMAIN worlds' \subseteq World
      /\ UNCHANGED <<worldStates, axes, worldRevs, freeze, tracks>>
  BY DEF CreateWorld, PatchWorld, DeleteWorld, With, Tombstone, GeometryNames
<1>2. \A st \in DOMAIN worldStates' : StateNamed(st)'
  BY <1>1 DEF GeometryNames, StateNamed
<1> QED
  BY <1>1, <1>2, GeometryNamesStay

\* Axes are made and tombstoned.
LEMMA AxisNames ==
    ASSUME GeometryNames, NEW a, NEW w, CreateAxis(a, w) \/ DeleteAxis(a)
    PROVE  GeometryNames'
<1>1. /\ DOMAIN axes \subseteq DOMAIN axes'
      /\ UNCHANGED <<worlds, worldStates, worldRevs, freeze, tracks>>
  BY DEF CreateAxis, DeleteAxis, With, Tombstone
<1>2. \A st \in DOMAIN worldStates' : StateNamed(st)'
  BY <1>1 DEF GeometryNames, StateNamed
<1> QED
  BY <1>1, <1>2, GeometryNamesStay DEF GeometryNames

\* Frames are made, moved and tombstoned.
LEMMA FrameNames ==
    ASSUME GeometryNames, NEW f, NEW w, NEW parent, NEW e,
           CreateFrame(f, w, parent, e) \/ PatchFrame(f, parent, e) \/ DeleteFrame(f)
    PROVE  GeometryNames'
<1>1. UNCHANGED <<worlds, worldStates, axes, worldRevs, freeze, tracks>>
  BY DEF CreateFrame, PatchFrame, DeleteFrame
<1>2. \A st \in DOMAIN worldStates' : StateNamed(st)'
  BY <1>1 DEF GeometryNames, StateNamed
<1> QED
  BY <1>1, <1>2, GeometryNamesStay DEF GeometryNames

\* States are made of a world, and include axes of it.
LEMMA CreateStateNames ==
    ASSUME GeometryNames, NEW w, NEW n, CreateState(w, n)
    PROVE  GeometryNames'
<1>1. PICK new, row : new = <<w, n>> /\ row = [members |-> << >>, axes |-> << >>, approved |-> 0]
  OBVIOUS
<1>2. /\ w \in DOMAIN worlds /\ worldStates' = With(worldStates, new, row) /\ new \notin DOMAIN worldStates
      /\ UNCHANGED <<worlds, axes, worldRevs, freeze, tracks>>
  BY <1>1 DEF CreateState
<1>3. /\ DOMAIN worldStates' = DOMAIN worldStates \cup {new} /\ worldStates'[new] = row
      /\ \A st \in DOMAIN worldStates : worldStates'[st] = worldStates[st]
  BY <1>2 DEF With
<1>4. new[1] = w /\ DOMAIN row.axes = {}
  BY <1>1
<1>5. \A st \in DOMAIN worldStates' : StateNamed(st)'
  BY <1>2, <1>3, <1>4 DEF GeometryNames, StateNamed
<1> QED
  BY <1>2, <1>3, <1>5, GeometryNamesStay DEF GeometryNames

\* A state that is edited names axes that exist.
LEMMA StateEdited ==
    ASSUME GeometryNames, NEW st \in DOMAIN worldStates, NEW row, DOMAIN row.axes \subseteq DOMAIN axes,
           worldStates' = [worldStates EXCEPT ![st] = row],
           UNCHANGED <<worlds, axes, worldRevs, freeze, tracks>>
    PROVE  GeometryNames'
<1>1. DOMAIN worldStates' = DOMAIN worldStates
      /\ \A x \in DOMAIN worldStates : worldStates'[x] = IF x = st THEN row ELSE worldStates[x]
  OBVIOUS
<1>2. \A x \in DOMAIN worldStates' : StateNamed(x)'
  BY <1>1 DEF GeometryNames, StateNamed
<1> QED
  BY <1>1, <1>2, GeometryNamesStay DEF GeometryNames

\* A state that is edited or approved keeps naming axes that exist.
LEMMA StateNames ==
    ASSUME GeometryInv, GeometryNames, NEW st \in DOMAIN worldStates, NEW f, NEW g, NEW a, NEW rev, NEW at, NEW n, NEW x,
           \/ PutStateFrame(st, f, rev, at) \/ DeleteStateFrame(st, f) \/ PutStateAxis(st, a, f, g)
           \/ DeleteStateAxis(st, a) \/ ApproveWorld(st, n, x) \/ Unapprove(st, x)
    PROVE  GeometryNames'
<1>0. PICK old : old = worldStates[st] /\ StateRow(old) /\ DOMAIN old.axes \subseteq DOMAIN axes
  BY DEF GeometryInv, GeometryTyped, GeometryNames, StateNamed
<1>1. UNCHANGED <<worlds, axes, worldRevs, freeze, tracks>>
  BY DEF PutStateFrame, DeleteStateFrame, PutStateAxis, DeleteStateAxis, ApproveWorld, Unapprove, KeepGeometry
<1>2. ASSUME NEW members, worldStates' = [worldStates EXCEPT ![st].members = members] PROVE GeometryNames'
  <2>1. PICK row : row = [old EXCEPT !.members = members]
    OBVIOUS
  <2>2. row.axes = old.axes
    BY <1>0, <2>1 DEF StateRow
  <2>3. worldStates' = [worldStates EXCEPT ![st] = row]
    BY <1>0, <1>2, <2>1
  <2> QED
    BY <1>0, <1>1, <2>2, <2>3, StateEdited
<1>3. ASSUME NEW new, DOMAIN new \subseteq DOMAIN axes, worldStates' = [worldStates EXCEPT ![st].axes = new]
      PROVE  GeometryNames'
  <2>1. PICK row : row = [old EXCEPT !.axes = new]
    OBVIOUS
  <2>2. row.axes = new
    BY <1>0, <2>1 DEF StateRow
  <2>3. worldStates' = [worldStates EXCEPT ![st] = row]
    BY <1>0, <1>3, <2>1
  <2> QED
    BY <1>1, <1>3, <2>2, <2>3, StateEdited
<1>4. ASSUME NEW number, worldStates' = [worldStates EXCEPT ![st].approved = number] PROVE GeometryNames'
  <2>1. PICK row : row = [old EXCEPT !.approved = number]
    OBVIOUS
  <2>2. row.axes = old.axes
    BY <1>0, <2>1 DEF StateRow
  <2>3. worldStates' = [worldStates EXCEPT ![st] = row]
    BY <1>0, <1>4, <2>1
  <2> QED
    BY <1>0, <1>1, <2>2, <2>3, StateEdited
<1>5. CASE PutStateFrame(st, f, rev, at)
  <2>1. PICK members : members = With(old.members, f, [bound |-> frames[f].bound, rev |-> rev, at |-> at])
    OBVIOUS
  <2>2. worldStates' = [worldStates EXCEPT ![st].members = members]
    BY <1>0, <1>5, <2>1 DEF PutStateFrame
  <2> QED
    BY <1>2, <2>2
<1>6. CASE DeleteStateFrame(st, f)
  <2>1. PICK members : members = [h \in DOMAIN old.members \ {f} |-> old.members[h]]
    OBVIOUS
  <2>2. worldStates' = [worldStates EXCEPT ![st].members = members]
    BY <1>0, <1>6, <2>1 DEF DeleteStateFrame
  <2> QED
    BY <1>2, <2>2
<1>7. CASE PutStateAxis(st, a, f, g)
  <2>1. PICK new : new = With(old.axes, a, <<f, g>>)
    OBVIOUS
  <2>2. worldStates' = [worldStates EXCEPT ![st].axes = new] /\ a \in DOMAIN axes
    BY <1>0, <1>7, <2>1 DEF PutStateAxis, Live
  <2>3. DOMAIN new = DOMAIN old.axes \cup {a}
    BY <2>1 DEF With
  <2> QED
    BY <1>0, <1>3, <2>2, <2>3
<1>8. CASE DeleteStateAxis(st, a)
  <2>1. PICK new : new = [b \in DOMAIN old.axes \ {a} |-> old.axes[b]]
    OBVIOUS
  <2>2. worldStates' = [worldStates EXCEPT ![st].axes = new]
    BY <1>0, <1>8, <2>1 DEF DeleteStateAxis
  <2>3. DOMAIN new \subseteq DOMAIN old.axes
    BY <2>1
  <2> QED
    BY <1>0, <1>3, <2>2, <2>3
<1>9. CASE ApproveWorld(st, n, x) \/ Unapprove(st, x)
  BY <1>4, <1>9 DEF ApproveWorld, Unapprove
<1> QED
  BY <1>5, <1>6, <1>7, <1>8, <1>9

\* What is frozen and captured is a state that exists, within the bound.
LEMMA FreezeNames ==
    ASSUME GeometryNames, NEW k \in Clients, NEW st, FreezeFrames(k, st) \/ FreezeAxes(k) \/ CaptureWorld(k)
    PROVE  GeometryNames'
<1>1. UNCHANGED <<worlds, axes, tracks, worldStates>>
  BY DEF FreezeFrames, FreezeAxes, CaptureWorld, KeepGeometry
<1>2. \A x \in DOMAIN worldStates' : StateNamed(x)'
  BY <1>1 DEF GeometryNames, StateNamed
<1>3. TracksNamed'
  BY <1>1 DEF GeometryNames, TracksNamed
<1>4. PICK new : /\ freeze' = [freeze EXCEPT ![k] = new]
                 /\ new.step \in {"frames", "frozen"} => new.state \in DOMAIN worldStates
  <2>1. CASE FreezeFrames(k, st)
    <3>1. PICK call : call = [step |-> "frames", state |-> st, members |-> CandidateFrames(st)]
      OBVIOUS
    <3>2. freeze' = [freeze EXCEPT ![k] = call] /\ st \in DOMAIN worldStates
      BY <2>1, <3>1 DEF FreezeFrames
    <3>3. call.state = st
      BY <3>1
    <3> QED
      BY <3>2, <3>3
  <2>2. CASE FreezeAxes(k)
    <3>1. freeze[k].step = "frames" /\ freeze[k].state \in DOMAIN worldStates
      BY <2>2 DEF FreezeAxes, GeometryNames, RevsNamed
    <3>2. PICK value : value = [members |-> freeze[k].members, axes |-> worldStates[freeze[k].state].axes]
      OBVIOUS
    <3>3. PICK call : call = [step |-> "frozen", state |-> freeze[k].state, value |-> value]
      OBVIOUS
    <3>4. freeze' = [freeze EXCEPT ![k] = call] \/ freeze' = [freeze EXCEPT ![k] = Unread]
      BY <2>2, <3>2, <3>3 DEF FreezeAxes
    <3> QED
      BY <3>1, <3>3, <3>4 DEF Unread
  <2>3. CASE CaptureWorld(k)
    <3>1. Unread.step = "idle"
      BY DEF Unread
    <3>2. freeze' = [freeze EXCEPT ![k] = Unread]
      BY <2>3 DEF CaptureWorld
    <3> QED
      BY <3>1, <3>2
  <2> QED
    BY <2>1, <2>2, <2>3
<1>5. /\ IsFiniteSet(worldRevs')
      /\ \A r \in worldRevs' : r.state \in DOMAIN worldStates /\ r.number \in 1..MaxWorldRevs
  <2>1. CASE UNCHANGED worldRevs
    BY <2>1 DEF GeometryNames, RevsNamed
  <2>2. CASE CaptureWorld(k)
    <3>1. PICK s : s = freeze[k].state
      OBVIOUS
    <3>2. PICK n \in Nat : n = Cardinality(RevsOfState(s))
      <4>1. RevsOfState(s) \subseteq worldRevs
        BY DEF RevsOfState
      <4> QED
        BY <4>1, FS_Subset, FS_CardinalityType DEF GeometryNames, RevsNamed
    <3>3. PICK row : row = [state |-> s, value |-> freeze[k].value, number |-> 1 + n]
      OBVIOUS
    <3>4. s \in DOMAIN worldStates /\ n < MaxWorldRevs
      BY <2>2, <3>1, <3>2 DEF CaptureWorld, GeometryNames, RevsNamed
    <3>5. UNCHANGED worldRevs \/ worldRevs' = worldRevs \cup {row}
      BY <2>2, <3>1, <3>2, <3>3 DEF CaptureWorld
    <3>6. row.state = s /\ row.number \in 1..MaxWorldRevs
      BY <3>3, <3>4, SpatialAssumption DEF SpatialAssumption
    <3> QED
      BY <3>4, <3>5, <3>6, FS_AddElement DEF GeometryNames, RevsNamed
  <2> QED
    BY <2>1, <2>2 DEF FreezeFrames, FreezeAxes
<1>6. RevsNamed'
  <2>1. DOMAIN freeze' = Clients /\ \A j \in Clients : freeze'[j] = IF j = k THEN new ELSE freeze[j]
    BY <1>4 DEF GeometryNames, RevsNamed
  <2> QED
    BY <1>1, <1>4, <1>5, <2>1 DEF GeometryNames, RevsNamed
<1> QED
  BY <1>1, <1>2, <1>3, <1>6 DEF GeometryNames

\* Tracks.
LEMMA TrackNames ==
    ASSUME GeometryNames, StagingTyped, NEW t \in Track, NEW w, NEW e, NEW b,
           CreateTrack(t, w, e, b) \/ PatchTrack(t, b) \/ DeleteTrack(t)
    PROVE  GeometryNames'
<1>1. UNCHANGED <<worlds, worldStates, axes, worldRevs, freeze>>
  BY DEF CreateTrack, PatchTrack, DeleteTrack, geometry
<1>2. (\A st \in DOMAIN worldStates' : StateNamed(st)') /\ RevsNamed'
  BY <1>1 DEF GeometryNames, StateNamed, RevsNamed
<1>3. TracksNamed'
  <2>1. CASE CreateTrack(t, w, e, b)
    <3>1. PICK row : row = [world |-> w, entity |-> e, required |-> b, live |-> TRUE]
      OBVIOUS
    <3>2. tracks' = With(tracks, t, row) /\ row.world = w /\ w \in DOMAIN worlds
      BY <2>1, <3>1 DEF CreateTrack, Live
    <3> QED
      BY <1>1, <3>2 DEF With, GeometryNames, TracksNamed
  <2>2. CASE PatchTrack(t, b) \/ DeleteTrack(t)
    <3>1. t \in DOMAIN tracks /\ tracks[t] \in TrackRow
      BY <2>2 DEF PatchTrack, DeleteTrack, ActiveTrack, Live, StagingTyped
    <3>2. PICK row : tracks' = [tracks EXCEPT ![t] = row] /\ row.world = tracks[t].world
      BY <2>2, <3>1 DEF PatchTrack, DeleteTrack, Tombstone, TrackRow
    <3> QED
      BY <1>1, <3>1, <3>2 DEF GeometryNames, TracksNamed
  <2> QED
    BY <2>1, <2>2
<1> QED
  BY <1>1, <1>2, <1>3 DEF GeometryNames

\* Rows of instances are of their table's type.
InstancesTyped ==
    /\ DOMAIN instances \subseteq InstanceFeature \cup InstanceTrack
    /\ instances \in [DOMAIN instances -> [world : World \cup {None}, required : BOOLEAN, live : BOOLEAN]]

\* What the layers record besides, of its type.
LayersTyped ==
    /\ GeometryNames /\ InstancesTyped
    /\ duration \in [Shot -> Durations \cup {0}]
    /\ intent \in [Shot -> Intents \cup {None}] /\ references \in [Shot -> SUBSET References]
    /\ DOMAIN proposals \subseteq Proposal

\* Every operation on geometry.
LEMMA GeometryKeepsNames ==
    ASSUME GeometryInv, GeometryNames, GeometryStep
    PROVE  GeometryNames'
<1>1. CASE \E w \in World, e \in Entity, b \in BOOLEAN : CreateWorld(w, e, b) \/ PatchWorld(w, b)
  BY <1>1, WorldNames
<1>2. CASE \E w \in World : DeleteWorld(w)
  BY <1>2, WorldNames
<1>3. CASE \E w \in World, n \in Nat : CreateState(w, n)
  BY <1>3, CreateStateNames
<1>4. CASE \E f \in Frame, w \in World, parent \in Frame \cup {None}, e \in Entity \cup {None} :
              CreateFrame(f, w, parent, e) \/ PatchFrame(f, parent, e)
  BY <1>4, FrameNames
<1>5. CASE \E f \in Frame : DeleteFrame(f)
  BY <1>5, FrameNames
<1>6. CASE \E st \in DOMAIN worldStates :
              \/ \E f \in Frame, rev \in Nat \cup {None}, at \in Points : PutStateFrame(st, f, rev, at)
              \/ \E f \in Frame : DeleteStateFrame(st, f)
  BY <1>6, StateNames
<1>7. CASE \E st \in DOMAIN worldStates :
              \/ \E a \in Axis, f, g \in Frame : PutStateAxis(st, a, f, g)
              \/ \E a \in Axis : DeleteStateAxis(st, a)
  BY <1>7, StateNames
<1>8. CASE \E st \in DOMAIN worldStates : \E n, x \in Nat : ApproveWorld(st, n, x) \/ Unapprove(st, x)
  BY <1>8, StateNames
<1>9. CASE \E st \in DOMAIN worldStates : \E k \in Clients : FreezeFrames(k, st)
  BY <1>9, FreezeNames
<1>10. CASE \E a \in Axis, w \in World : CreateAxis(a, w) \/ DeleteAxis(a)
  BY <1>10, AxisNames
<1>11. CASE \E k \in Clients : FreezeAxes(k) \/ CaptureWorld(k)
  BY <1>11, FreezeNames
<1> QED
  BY <1>1, <1>2, <1>3, <1>4, <1>5, <1>6, <1>7, <1>8, <1>9, <1>10, <1>11 DEF GeometryStep

\* Steps that leave the geometry alone.
LEMMA GeometryUnchanged ==
    ASSUME GeometryNames, UNCHANGED <<geometry, tracks>>
    PROVE  GeometryNames'
<1>1. UNCHANGED <<worlds, worldStates, axes, worldRevs, freeze, tracks>>
  BY DEF geometry
<1>2. \A st \in DOMAIN worldStates' : StateNamed(st)'
  BY <1>1 DEF GeometryNames, StateNamed
<1> QED
  BY <1>1, <1>2, GeometryNamesStay DEF GeometryNames

\* Every operation on worlds and staging.
LEMMA SpatialKeepsNames ==
    ASSUME SpatialInv, GeometryNames, SpatialStep
    PROVE  GeometryNames'
<1>1. CASE UNCHANGED <<geometry, tracks>>
  BY <1>1, GeometryUnchanged
<1>2. CASE GeometryStep
  BY <1>2, GeometryKeepsNames DEF SpatialInv
<1>3. ASSUME NEW t \in Track, NEW w, NEW e, NEW b, CreateTrack(t, w, e, b) \/ PatchTrack(t, b) \/ DeleteTrack(t)
      PROVE  GeometryNames'
  BY <1>3, TrackNames DEF SpatialInv, StagingInv
<1>4. CASE StagingStep
  <2>1. CASE \E t \in Track, w \in World, e \in Entity, b \in BOOLEAN : CreateTrack(t, w, e, b) \/ PatchTrack(t, b)
    BY <1>3, <2>1
  <2>2. CASE \E t \in Track : DeleteTrack(t)
    BY <1>3, <2>2
  <2>3. CASE \E t \in Track, a \in Anchors, v \in StoryValues : CreateStaging(t, a, v)
    BY <1>1, <2>3 DEF CreateStaging, spatialOnly
  <2>4. CASE \E t \in Active : \/ DeleteStaging(t)
                               \/ \E a \in Anchors, v \in StoryValues : PatchStaging(t, a, v)
    BY <1>1, <2>4 DEF DeleteStaging, PatchStaging, spatialOnly
  <2>5. CASE \E s \in Shot, x \in SpatialPlans \cup {NoPlan} :
                DeleteSpatialPlan(s, x) \/ \E plan \in SpatialPlans : PutSpatialPlan(s, x, plan)
    BY <1>1, <2>5 DEF DeleteSpatialPlan, PutSpatialPlan
  <2> QED
    BY <1>4, <2>1, <2>2, <2>3, <2>4, <2>5 DEF StagingStep
<1> QED
  BY <1>1, <1>2, <1>4 DEF SpatialStep, spatialOnly

\* Operations on instances.
LEMMA InstancesStayTyped ==
    ASSUME InstancesTyped, GeometryNames, InstanceChange
    PROVE  InstancesTyped'
<1>1. PICK Row : Row = [world : World \cup {None}, required : BOOLEAN, live : BOOLEAN]
  OBVIOUS
<1>2. instances \in [DOMAIN instances -> Row]
  BY <1>1 DEF InstancesTyped
<1>3. CASE UNCHANGED instances
  BY <1>3 DEF InstancesTyped
<1>4. ASSUME NEW i \in InstanceFeature \cup InstanceTrack, NEW row \in Row, i \notin DOMAIN instances,
             instances' = With(instances, i, row)
      PROVE  InstancesTyped'
  <2>1. DOMAIN instances' = DOMAIN instances \cup {i} /\ instances' \in [DOMAIN instances' -> Row]
    BY <1>2, <1>4, WithTyped DEF With
  <2> QED
    BY <1>1, <2>1 DEF InstancesTyped
<1>5. ASSUME NEW i \in DOMAIN instances, NEW row \in Row, instances' = [instances EXCEPT ![i] = row]
      PROVE  InstancesTyped'
  BY <1>1, <1>2, <1>5 DEF InstancesTyped
<1>6. ASSUME NEW i \in InstanceFeature, CreateInstanceFeature(i) \/ DeleteInstanceFeature(i) PROVE InstancesTyped'
  <2>1. CASE CreateInstanceFeature(i)
    <3>1. PICK row : row = [world |-> None, required |-> FALSE, live |-> TRUE]
      OBVIOUS
    <3>2. row \in Row
      BY <1>1, <3>1
    <3> QED
      BY <1>4, <2>1, <3>1, <3>2 DEF CreateInstanceFeature
  <2>2. CASE DeleteInstanceFeature(i)
    <3>1. i \in DOMAIN instances /\ instances[i] \in Row
      BY <1>2, <2>2 DEF DeleteInstanceFeature, Live
    <3>2. PICK row : row = [instances[i] EXCEPT !.live = FALSE]
      OBVIOUS
    <3>3. row \in Row
      BY <1>1, <3>1, <3>2
    <3>4. instances' = [instances EXCEPT ![i] = row]
      BY <2>2, <3>2 DEF DeleteInstanceFeature, Tombstone
    <3> QED
      BY <1>5, <3>1, <3>3, <3>4
  <2> QED
    BY <1>6, <2>1, <2>2
<1>7. ASSUME NEW i \in InstanceTrack, NEW w \in World, NEW b \in BOOLEAN, CreateInstanceTrack(i, w, b) \/ PatchInstanceTrack(i, b)
      PROVE  InstancesTyped'
  <2>1. CASE CreateInstanceTrack(i, w, b)
    <3>1. PICK row : row = [world |-> w, required |-> b, live |-> TRUE]
      OBVIOUS
    <3>2. row \in Row
      BY <1>1, <3>1
    <3> QED
      BY <1>4, <2>1, <3>1, <3>2 DEF CreateInstanceTrack
  <2>2. CASE PatchInstanceTrack(i, b)
    <3>1. i \in DOMAIN instances /\ instances[i] \in Row
      BY <1>2, <2>2 DEF PatchInstanceTrack, Live
    <3>2. PICK row : row = [instances[i] EXCEPT !.required = b]
      OBVIOUS
    <3>3. row \in Row
      BY <1>1, <3>1, <3>2
    <3>4. instances' = [instances EXCEPT ![i] = row]
      BY <2>2, <3>2 DEF PatchInstanceTrack
    <3> QED
      BY <1>5, <3>1, <3>3, <3>4
  <2> QED
    BY <1>7, <2>1, <2>2
<1>8. ASSUME NEW i \in InstanceTrack, DeleteInstanceTrack(i) PROVE InstancesTyped'
  <2>1. i \in DOMAIN instances /\ instances[i] \in Row
    BY <1>2, <1>8 DEF DeleteInstanceTrack, Live
  <2>2. PICK row : row = [instances[i] EXCEPT !.live = FALSE]
    OBVIOUS
  <2>3. row \in Row
    BY <1>1, <2>1, <2>2
  <2>4. instances' = [instances EXCEPT ![i] = row]
    BY <1>8, <2>2 DEF DeleteInstanceTrack, Tombstone
  <2> QED
    BY <1>5, <2>1, <2>3, <2>4
<1>9. CASE \E i \in InstanceFeature \cup InstanceTrack, a \in Anchors, v \in StoryValues :
              CreateInstanceTransition(i, a, v) \/ CreateInstanceStaging(i, a, v)
  BY <1>3, <1>9 DEF CreateInstanceTransition, CreateInstanceStaging, KeepInstances, instanceOnly
<1>10. CASE \E t \in Active :
              \/ DeleteInstanceTransition(t) \/ DeleteInstanceStaging(t)
              \/ \E a \in Anchors, v \in StoryValues :
                    PatchInstanceTransition(t, a, v) \/ PatchInstanceStaging(t, a, v)
  <2>1. KeepInstances
    BY <1>10 DEF DeleteInstanceTransition, DeleteInstanceStaging, PatchInstanceTransition, PatchInstanceStaging
  <2> QED
    BY <1>3, <2>1 DEF KeepInstances, instanceOnly
<1>11. CASE \E s \in Shot : \/ BindingGoesStale(s)
                            \/ \E st \in DOMAIN worldStates, ents \in SUBSET Entity : SelectBinding(s, st, ents)
  BY <1>3, <1>11 DEF BindingGoesStale, SelectBinding
<1> QED
  BY <1>6, <1>7, <1>8, <1>9, <1>10, <1>11 DEF InstanceChange

\* Operations on instances leave the worlds alone.
LEMMA InstanceChangeKeepsSpatial == InstanceChange => UNCHANGED spatialOnly
<1>1. InstanceChange => KeepSpatial
  BY Zenon DEF InstanceChange, CreateInstanceFeature, DeleteInstanceFeature, CreateInstanceTrack,
     PatchInstanceTrack, DeleteInstanceTrack, CreateInstanceTransition, CreateInstanceStaging,
     DeleteInstanceTransition, DeleteInstanceStaging, PatchInstanceTransition, PatchInstanceStaging,
     BindingGoesStale, SelectBinding, KeepInstances
<1> QED
  BY <1>1 DEF KeepSpatial

\* Every step leaves what the layers record of its type.
LEMMA LayersStayTyped ==
    ASSUME ConsInv, LayersTyped, [ConsequencesStep]_consequenceVars
    PROVE  LayersTyped'
<1>0. SpatialInv
  BY DEF ConsInv, CaptureInv, IntraInv
<1>1. ASSUME UNCHANGED <<spatialOnly, instanceOnly>> PROVE GeometryNames' /\ InstancesTyped'
  BY <1>1, GeometryUnchanged DEF LayersTyped, spatialOnly, InstancesTyped, instanceOnly
<1>2. CASE InstanceStep /\ UNCHANGED <<intraOnly, captureOnly, consequenceOnly>>
  <2>1. UNCHANGED <<duration, intent, references, proposals>>
    BY <1>2 DEF intraOnly, captureOnly, consequenceOnly
  <2>2. GeometryNames' /\ InstancesTyped'
    <3>1. CASE SpatialStep /\ UNCHANGED instanceOnly
      BY <1>0, <3>1, SpatialKeepsNames DEF LayersTyped, InstancesTyped, instanceOnly
    <3>2. CASE InstanceChange
      <4>1. UNCHANGED <<geometry, tracks>>
        BY <3>2, InstanceChangeKeepsSpatial DEF spatialOnly
      <4> QED
        BY <3>2, <4>1, GeometryUnchanged, InstancesStayTyped DEF LayersTyped
    <3> QED
      BY <1>2, <3>1, <3>2 DEF InstanceStep
  <2> QED
    BY <2>1, <2>2 DEF LayersTyped
<1>3. CASE EventStep /\ UNCHANGED <<captureOnly, consequenceOnly>>
  <2>1. UNCHANGED <<spatialOnly, instanceOnly>>
    BY <1>3 DEF EventStep, CreateEvent, PatchEvent, DeleteEvent, SetDuration, KeepTransitions, instanceVars, spatialVars
  <2>2. duration' \in [Shot -> Durations \cup {0}]
    <3>1. CASE UNCHANGED duration
      BY <3>1 DEF LayersTyped
    <3>2. CASE \E s \in Shot, d \in Durations : SetDuration(s, d)
      BY <3>2 DEF SetDuration, LayersTyped
    <3> QED
      BY <1>3, <3>1, <3>2 DEF EventStep, CreateEvent, PatchEvent, DeleteEvent, KeepTransitions
  <2>3. UNCHANGED <<intent, references, proposals>>
    BY <1>3 DEF captureOnly, consequenceOnly
  <2> QED
    BY <1>1, <2>1, <2>2, <2>3 DEF LayersTyped
<1>4. CASE ShotStep /\ UNCHANGED consequenceOnly
  <2>1. UNCHANGED <<spatialOnly, instanceOnly, duration, proposals>>
    BY <1>4 DEF ShotStep, PatchShot, ReplaceReferences, ReadSnapshot, PersistRevision, RefuseReuse, intraVars,
       instanceVars, spatialVars, intraOnly, consequenceOnly
  <2>2. intent' \in [Shot -> Intents \cup {None}]
    BY <1>4 DEF ShotStep, PatchShot, ReplaceReferences, ReadSnapshot, PersistRevision, RefuseReuse, LayersTyped
  <2>3. references' \in [Shot -> SUBSET References]
    BY <1>4 DEF ShotStep, PatchShot, ReplaceReferences, ReadSnapshot, PersistRevision, RefuseReuse, LayersTyped
  <2> QED
    BY <1>1, <2>1, <2>2, <2>3 DEF LayersTyped
<1>5. CASE ReviewStep
  <2>1. UNCHANGED <<spatialOnly, instanceOnly, duration, intent, references>>
    <3>1. OnlyConsequences
      BY <1>5, Zenon DEF ReviewStep, AdoptEvent, DeclineEvent, IngestProposal, ReviewProposals
    <3> QED
      BY <3>1 DEF OnlyConsequences, captureOnly
  <2>2. DOMAIN proposals' \subseteq Proposal
    <3>1. CASE UNCHANGED proposals
      BY <3>1 DEF LayersTyped
    <3>2. ASSUME NEW p \in Proposal, NEW s, NEW rev, NEW c, IngestProposal(p, s, rev, c) PROVE DOMAIN proposals' \subseteq Proposal
      BY <3>2 DEF IngestProposal, With, LayersTyped
    <3> QED
      BY <1>5, <3>1, <3>2 DEF ReviewStep, AdoptEvent, DeclineEvent, ReviewProposals
  <2> QED
    BY <1>1, <2>1, <2>2 DEF LayersTyped
<1>6. CASE UNCHANGED consequenceVars
  <2>1. UNCHANGED <<spatialOnly, instanceOnly, duration, intent, references, proposals>>
    BY <1>6 DEF consequenceVars, captureVars, intraVars, instanceVars, spatialVars, intraOnly, captureOnly, consequenceOnly
  <2> QED
    BY <1>1, <2>1 DEF LayersTyped
<1> QED
  BY <1>2, <1>3, <1>4, <1>5, <1>6 DEF ConsequencesStep, CaptureStep, IntraStep

\* At the start the tables are empty.
LEMMA LayersBegin == ConsequencesInit => LayersTyped
<1> SUFFICES ASSUME ConsequencesInit PROVE LayersTyped
  OBVIOUS
<1>1. /\ worlds = << >> /\ worldStates = << >> /\ axes = << >> /\ worldRevs = {} /\ tracks = << >>
      /\ freeze = [k \in Clients |-> Unread] /\ instances = << >>
      /\ duration = [s \in Shot |-> 0] /\ proposals = << >>
      /\ intent = [s \in Shot |-> None] /\ references = [s \in Shot |-> {}]
  BY DEF ConsequencesInit, CaptureInit, IntraInit, InstanceInit, SpatialInit
<1>2. DOMAIN worlds = {} /\ DOMAIN worldStates = {} /\ DOMAIN tracks = {} /\ DOMAIN instances = {} /\ DOMAIN proposals = {}
  BY <1>1
<1>3. GeometryNames
  <2>1. RevsNamed
    BY <1>1, FS_EmptySet DEF RevsNamed, Unread
  <2> QED
    BY <1>2, <2>1 DEF GeometryNames, TracksNamed
<1>4. InstancesTyped
  BY <1>1, <1>2 DEF InstancesTyped
<1> QED
  BY <1>1, <1>2, <1>3, <1>4 DEF LayersTyped

\* A row of an event is of a mode and of a kind.
LEMMA EventRowsTyped ==
    ASSUME NEW r, EventRow(r)
    PROVE  r.shot \in Shot /\ r.value.mode \in Modes /\ r.value.target.kind \in Kinds
<1>1. PICK v : v = r.value
  OBVIOUS
<1>2. v \in EventValue
  BY <1>1 DEF EventRow
<1>3. v \in [target : [kind : Kinds, id : Feature \cup Relation \cup InstanceFeature], time : Nat,
             before : AllStates, after : AllStates, mode : Modes]
  BY <1>2 DEF EventValue
<1>4. v.mode \in Modes /\ v.target \in [kind : Kinds, id : Feature \cup Relation \cup InstanceFeature]
  BY <1>3
<1>5. v.target.kind \in Kinds
  BY <1>4
<1> QED
  BY <1>1, <1>4, <1>5 DEF EventRow

\* A review decides one of the decisions, about what is there.
LEMMA ReviewTyped ==
    ASSUME NEW r, Certified(r)
    PROVE  /\ r.decision \in EventDecisions \cup ProposalDecisions
           /\ r.event \in DOMAIN events \cup {None}
           /\ r.transition \in {t.id : t \in transitions} \cup {None}
<1>1. r.decision \in EventDecisions \cup ProposalDecisions
  BY DEF Certified, VerifySource
<1>2. CASE r.decision = "ignore"
  BY <1>1, <1>2 DEF Certified, Decided
<1>3. CASE r.decision # "ignore"
  BY <1>1, <1>3 DEF Certified, Decided
<1> QED
  BY <1>2, <1>3

\* Every row of the layers below is of its type, and what it names exists.
LEMMA LayersFollow == ConsInv /\ LayersTyped => ConsequencesTypeOK
<1> SUFFICES ASSUME ConsInv, LayersTyped PROVE ConsequencesTypeOK
  OBVIOUS
<1>0. SpatialInv /\ EventsTyped /\ CapturesKept /\ DOMAIN events \subseteq Event /\ ReviewsHold
  BY DEF ConsInv, CaptureInv, IntraInv
<1>1. ContinuityTypeOK
  BY <1>0, TypesFollow DEF SpatialInv
<1>2. SpatialTypeOK
  <2>1. \A st \in DOMAIN worldStates : StateStands(st)
    BY <1>0 DEF SpatialInv, GeometryInv
  <2>2. \A st \in DOMAIN worldStates : /\ st[1] \in DOMAIN worlds
                                       /\ DOMAIN worldStates[st].members \subseteq DOMAIN frames
                                       /\ DOMAIN worldStates[st].axes \subseteq DOMAIN axes
    BY <2>1 DEF StateStands, LayersTyped, GeometryNames, StateNamed
  <2>3. \A r \in worldRevs : r.state \in DOMAIN worldStates /\ r.number \in 1..MaxWorldRevs
    BY DEF LayersTyped, GeometryNames, RevsNamed
  <2> QED
    BY <1>1, <2>2, <2>3 DEF SpatialTypeOK, LayersTyped, GeometryNames, TracksNamed
<1>3. InstanceTypeOK
  BY <1>2 DEF InstanceTypeOK, LayersTyped, InstancesTyped
<1>4. IntraTypeOK
  <2>1. \A x \in DOMAIN events : /\ events[x].shot \in Shot
                                 /\ events[x].value.mode \in Modes
                                 /\ events[x].value.target.kind \in Kinds
    BY <1>0, EventRowsTyped DEF EventsTyped
  <2> QED
    BY <1>0, <1>3, <2>1 DEF IntraTypeOK, LayersTyped
<1>5. CaptureTypeOK
  BY <1>0, <1>4 DEF CaptureTypeOK, LayersTyped, CapturesKept, Captured
<1>6. \A r \in reviews : /\ r.decision \in EventDecisions \cup ProposalDecisions
                         /\ r.event \in DOMAIN events \cup {None}
                         /\ r.transition \in {t.id : t \in transitions} \cup {None}
  BY <1>0, ReviewTyped DEF ReviewsHold
<1> QED
  BY <1>5, <1>6 DEF ConsequencesTypeOK, LayersTyped

-----------------------------------------------------------------------------
(* The specification.                                                      *)

PerformanceInv == ConsInv /\ LayersTyped /\ VocalInv /\ BodyInv

\* At the start nothing was said or performed.
LEMMA PerformanceBegins == PerformanceInit => VocalInv /\ BodyInv
<1> SUFFICES ASSUME PerformanceInit PROVE VocalInv /\ BodyInv
  OBVIOUS
<1>1. /\ lineRevs = {} /\ vocals = {} /\ alignments = {} /\ performed = {} /\ assessments = {} /\ verdicts = {}
      /\ calls = [k \in Clients |-> Unread]
      /\ DOMAIN voices = {} /\ DOMAIN choice = {} /\ DOMAIN mappings = {} /\ DOMAIN performances = {}
  BY DEF PerformanceInit
<1>2. CallsAre /\ \A k \in Clients : calls[k] = Unread
  BY <1>1 DEF CallsAre
<1>3. LinesOK /\ VoicesOK /\ VocalsOK /\ UsesOK
  BY <1>1, FS_EmptySet DEF LinesOK, VerifyDialogue, VoicesOK, VocalsOK, VerifyVocals, UsesOK, VerifyMappings
<1>4. VocalInv
  BY <1>2, <1>3, UnreadIsNoCall DEF VocalInv
<1>5. PerformancesOK /\ ReviewsOfOK
  BY <1>1, FS_EmptySet DEF PerformancesOK, ReviewsOfOK, PerformancesCertify, VerifyPerformances, VerifyPerformed,
     VerifyAssessed, VerifyRetargeted
<1>6. BodyInv
  BY <1>2, <1>5 DEF BodyInv, Unread
<1> QED
  BY <1>4, <1>6

\* The operations on voices neither make nor judge a performance, and take no
\* alignment back.
LEMMA BodyBesideVoices ==
    ASSUME BodyInv, CallsAre, VocalStep
    PROVE  BodyInv'
<1>1. /\ UNCHANGED bodyVars /\ alignments \subseteq alignments'
      /\ \A k \in Clients : calls'[k].step = "adopt" => calls'[k] = calls[k]
  <2>1. CASE \E l \in Line, e \in Entity, t \in Texts : CreateLineRevision(l, e, t)
    BY <2>1, Zenon DEF CreateLineRevision
  <2>2. CASE \E c \in Voice, r \in lineRevs, trim \in Nat \X Nat : CreateVoice(c, r, trim)
    BY <2>2, Zenon DEF CreateVoice
  <2>3. ASSUME NEW k \in Clients, NEW c \in Voice, BeginAdoptVoice(k, c)
        PROVE  /\ UNCHANGED bodyVars /\ alignments \subseteq alignments'
               /\ \A j \in Clients : calls'[j].step = "adopt" => calls'[j] = calls[j]
    <3>1. UNCHANGED <<bodyVars, alignments>>
      BY <2>3 DEF BeginAdoptVoice, vocalVars
    <3>2. PICK call : call = [step |-> "voice", candidate |-> c, number |-> NextVocal(voices[c].rev)]
      OBVIOUS
    <3>3. calls' = [calls EXCEPT ![k] = call] /\ call.step # "adopt"
      BY <2>3, <3>2 DEF BeginAdoptVoice
    <3> QED
      BY <3>1, <3>3, CallSet
  <2>4. CASE \E k \in Clients : FinishAdoptVoice(k)
    <3>1. PICK k \in Clients : FinishAdoptVoice(k)
      BY <2>4
    <3>2. UNCHANGED <<bodyVars, alignments>>
      BY <3>1 DEF FinishAdoptVoice
    <3>3. calls' = [calls EXCEPT ![k] = Unread] /\ Unread.step # "adopt"
      BY <3>1 DEF FinishAdoptVoice, Unread
    <3> QED
      BY <3>2, <3>3, CallSet
  <2>5. CASE \E r \in lineRevs, v \in vocals \cup {None} : SetSelection(r, v)
    BY <2>5, Zenon DEF SetSelection
  <2>6. CASE \E s \in Shot, position \in Nat, v \in vocals, span \in Nat \X Nat, n \in Int, den \in Nat \ {0} :
                PutMapping(s, position, v, span, n, den)
    BY <2>6, ZenonT(40) DEF PutMapping
  <2>7. CASE \E m \in DOMAIN mappings : DeleteMapping(m)
    BY <2>7, Zenon DEF DeleteMapping
  <2>8. CASE \E k \in Clients : FinishAlignment(k)
    <3>1. PICK k \in Clients : FinishAlignment(k)
      BY <2>8
    <3>2. UNCHANGED bodyVars /\ alignments \subseteq alignments'
      BY <3>1 DEF FinishAlignment
    <3>3. calls' = [calls EXCEPT ![k] = Unread] /\ Unread.step # "adopt"
      BY <3>1 DEF FinishAlignment, Unread
    <3> QED
      BY <3>2, <3>3, CallSet
  <2>9. CASE \E k \in Clients, v \in vocals, run \in Runs, doc \in [span : Nat \X Nat, label : Labels] :
                BeginAlignment(k, v, run, doc)
    <3>1. PICK k \in Clients, v \in vocals, run \in Runs, doc \in [span : Nat \X Nat, label : Labels] :
              BeginAlignment(k, v, run, doc)
      BY <2>9
    <3>2. UNCHANGED <<bodyVars, alignments>>
      BY <3>1 DEF BeginAlignment, vocalVars
    <3>3. PICK call : call = [step |-> "align", row |-> [vocal |-> v, run |-> run, doc |-> doc]]
      OBVIOUS
    <3>4. calls' = [calls EXCEPT ![k] = call] /\ call.step # "adopt"
      BY <3>1, <3>3 DEF BeginAlignment
    <3> QED
      BY <3>2, <3>4, CallSet
  <2> QED
    BY <2>1, <2>2, <2>3, <2>4, <2>5, <2>6, <2>7, <2>8, <2>9 DEF VocalStep
<1>2. UNCHANGED <<performances, performed, assessments, verdicts>>
  BY <1>1 DEF bodyVars
<1>3. RecordsStay
  BY <1>1, <1>2 DEF RecordsStay
<1>4. VerifyAssessed' /\ ReviewsOfOK'
  BY <1>2 DEF BodyInv, PerformancesOK, PerformancesCertify, VerifyAssessed, ReviewsOfOK
<1>5. \A k \in Clients : calls'[k].step = "adopt" => calls'[k].candidate \in DOMAIN performances
  BY <1>1 DEF BodyInv
<1> QED
  BY <1>2, <1>3, <1>4, <1>5, BodyStands

\* Every operation on performances.
LEMMA BodyStepKeeps ==
    ASSUME VocalInv, BodyInv, BodyStep
    PROVE  VocalInv' /\ BodyInv'
<1>0. CallsAre /\ \A k \in Clients : VoiceCallOK(calls[k])
  BY DEF VocalInv
<1>1. ASSUME UNCHANGED vocalVars, BodyInv', CallsAre',
             \A k \in Clients : calls'[k] = calls[k] \/ calls'[k].step = "adopt" \/ calls'[k] = Unread
      PROVE  VocalInv' /\ BodyInv'
  <2>1. \A call : call.step = "adopt" => VoiceCallOK(call)
    BY DEF VoiceCallOK
  <2>2. \A k \in Clients : VoiceCallOK(calls'[k])
    BY <1>0, <1>1, <2>1, UnreadIsNoCall
  <2> QED
    BY <1>1, <2>2, VocalsStand
<1>2. ASSUME UNCHANGED vocalVars, BodyInv', UNCHANGED calls PROVE VocalInv' /\ BodyInv'
  BY <1>0, <1>1, <1>2 DEF CallsAre
<1>3. ASSUME NEW p \in PerformanceId, NEW e \in Entity, NEW payload, CreatePerformance(p, e, payload)
      PROVE  VocalInv' /\ BodyInv'
  <2>1. UNCHANGED <<vocalVars, calls>>
    BY <1>3 DEF CreatePerformance
  <2> QED
    BY <1>2, <1>3, <2>1, PerformanceKeeps
<1>4. ASSUME NEW k \in Clients, NEW p \in PerformanceId, BeginAdopt(k, p)
      PROVE  VocalInv' /\ BodyInv'
  <2>1. UNCHANGED vocalVars
    BY <1>4 DEF BeginAdopt
  <2> QED
    BY <1>0, <1>1, <1>4, <2>1, BeginAdoptKeeps
<1>5. ASSUME NEW k \in Clients, FinishAdopt(k)
      PROVE  VocalInv' /\ BodyInv'
  <2>1. UNCHANGED vocalVars
    BY <1>5 DEF FinishAdopt
  <2> QED
    BY <1>0, <1>1, <1>5, <2>1, FinishAdoptKeeps
<1>6. ASSUME NEW r \in performed, NEW from \in Physical, NEW to \in Physical, AssessRetarget(r, from, to)
      PROVE  VocalInv' /\ BodyInv'
  <2>1. UNCHANGED <<vocalVars, calls>>
    BY <1>6 DEF AssessRetarget
  <2> QED
    BY <1>2, <1>6, <2>1, AssessKeeps
<1>7. ASSUME NEW a \in assessments, NEW d, ReviewRetarget(a, d)
      PROVE  VocalInv' /\ BodyInv'
  <2>1. UNCHANGED <<vocalVars, calls>>
    BY <1>7 DEF ReviewRetarget
  <2> QED
    BY <1>2, <1>7, <2>1, ReviewKeeps
<1>8. ASSUME NEW p \in PerformanceId, NEW r, NEW a, NEW v, CreateRetarget(p, r, a, v)
      PROVE  VocalInv' /\ BodyInv'
  <2>1. UNCHANGED <<vocalVars, calls>>
    BY <1>8 DEF CreateRetarget
  <2> QED
    BY <1>2, <1>8, <2>1, RetargetKeeps
<1> QED
  BY <1>3, <1>4, <1>5, <1>6, <1>7, <1>8 DEF BodyStep

\* The operations on voices change nothing of the story.
LEMMA VocalsLeaveStory == VocalStep => UNCHANGED consequenceVars
BY ZenonT(40) DEF VocalStep, CreateLineRevision, CreateVoice, BeginAdoptVoice, FinishAdoptVoice, SetSelection,
   PutMapping, DeleteMapping, BeginAlignment, FinishAlignment

\* The same of the operations on performances.
LEMMA BodiesLeaveStory == BodyStep => UNCHANGED consequenceVars
BY ZenonT(40) DEF BodyStep, CreatePerformance, BeginAdopt, FinishAdopt, AssessRetarget, ReviewRetarget, CreateRetarget

\* Every step keeps the invariant.
LEMMA PerformanceStepKeeps == PerformanceInv /\ [PerformanceStep]_performanceVars => PerformanceInv'
<1> SUFFICES ASSUME PerformanceInv, [PerformanceStep]_performanceVars PROVE PerformanceInv'
  OBVIOUS
<1>1. ASSUME [ConsequencesStep]_consequenceVars PROVE ConsInv' /\ LayersTyped'
  BY <1>1, ConsequencesKeep, LayersStayTyped DEF PerformanceInv
<1>2. ASSUME UNCHANGED performanceOnly PROVE VocalInv' /\ BodyInv'
  <2>1. UNCHANGED <<vocalVars, bodyVars, calls>>
    BY <1>2 DEF performanceOnly
  <2>2. VocalInv'
    BY <2>1, VocalsStand DEF PerformanceInv, VocalInv, CallsAre
  <2>3. UNCHANGED <<performances, performed, assessments, verdicts, alignments>>
    BY <2>1 DEF bodyVars, vocalVars
  <2>4. RecordsStay
    BY <2>3 DEF RecordsStay
  <2>5. VerifyAssessed' /\ ReviewsOfOK'
    BY <2>3 DEF PerformanceInv, BodyInv, PerformancesOK, PerformancesCertify, VerifyAssessed, ReviewsOfOK
  <2>6. BodyInv'
    BY <2>1, <2>3, <2>4, <2>5, BodyStands DEF PerformanceInv, BodyInv
  <2> QED
    BY <2>2, <2>6
<1>3. CASE ConsequencesStep /\ UNCHANGED performanceOnly
  BY <1>1, <1>2, <1>3 DEF PerformanceInv
<1>4. CASE VocalStep
  <2>1. UNCHANGED consequenceVars
    BY <1>4, VocalsLeaveStory
  <2>2. VocalInv' /\ BodyInv'
    BY <1>4, VocalStepKeeps, BodyBesideVoices DEF PerformanceInv, VocalInv
  <2> QED
    BY <1>1, <2>1, <2>2 DEF PerformanceInv
<1>5. CASE BodyStep
  <2>1. UNCHANGED consequenceVars
    BY <1>5, BodiesLeaveStory
  <2> QED
    BY <1>1, <1>5, <2>1, BodyStepKeeps DEF PerformanceInv
<1>6. CASE UNCHANGED performanceVars
  BY <1>1, <1>2, <1>6 DEF PerformanceInv, performanceVars
<1> QED
  BY <1>3, <1>4, <1>5, <1>6 DEF PerformanceStep

\* The invariant of voices and performances holds in every reachable state
\* (server/soloring/performance).
THEOREM PerformanceInvariant == PerformanceSpec => []PerformanceInv
<1>1. ConsequencesInit /\ PerformanceInit => PerformanceInv
  BY ConsequencesBegin, LayersBegin, PerformanceBegins DEF PerformanceInv
<1> QED
  BY <1>1, PerformanceStepKeeps, PTL DEF PerformanceSpec

\* Voices and performances only look at the story: what is proved of the story alone,
\* of its consequences and of its writes, holds with them (server/soloring/performance).
THEOREM PerformancesLeaveStory == PerformanceSpec => ConsequencesSpec
<1>1. [PerformanceStep]_performanceVars => [ConsequencesStep]_consequenceVars
  BY VocalsLeaveStory, BodiesLeaveStory DEF PerformanceStep, performanceVars
<1> QED
  BY <1>1, PTL DEF PerformanceSpec, ConsequencesSpec

\* What a reader relies on follows from it.
LEMMA PerformancesFollow == PerformanceInv => PerformanceSound
<1> SUFFICES ASSUME PerformanceInv PROVE PerformanceSound
  OBVIOUS
<1>0. VocalInv /\ BodyInv
  BY DEF PerformanceInv
<1>1. PerformanceTypeOK
  <2>1. ConsequencesTypeOK
    BY LayersFollow DEF PerformanceInv
  <2>2. /\ lineRevs \subseteq [line : Line, number : Nat \ {0}, speaker : Entity, text : Texts]
        /\ DOMAIN voices \subseteq Voice /\ DOMAIN choice = lineRevs
        /\ \A c \in DOMAIN voices : voices[c].rev \in lineRevs
    BY <1>0 DEF VocalInv, LinesOK, LineRow, VoicesOK, UsesOK
  <2>3. /\ \A r \in lineRevs : choice[r] \in vocals \cup {None}
        /\ \A m \in DOMAIN mappings : mappings[m].vocal \in vocals
        /\ \A a \in alignments : a.vocal \in vocals /\ a.run \in Runs
    BY <1>0 DEF VocalInv, UsesOK
  <2>4. /\ DOMAIN performances \subseteq PerformanceId
        /\ \A a \in assessments : a.performed \in performed /\ {a.from, a.to} \subseteq Physical
        /\ \A v \in verdicts : v.assessment \in assessments
    BY <1>0 DEF BodyInv, PerformancesOK, PerformancesCertify, VerifyAssessed, ReviewsOfOK
  <2> QED
    BY <2>1, <2>2, <2>3, <2>4 DEF PerformanceTypeOK
<1>2. VocalsCertify
  <2>1. VerifyDialogue /\ VerifyVocals /\ VerifyMappings /\ VerifyVoices /\ VerifyAlignments
    BY <1>0 DEF VocalInv, LinesOK, VoicesOK, VocalsOK, UsesOK, VerifyVoices, VerifyAlignments
  <2>2. VerifySelections
    BY <1>0 DEF VocalInv, UsesOK, VerifySelections, VocalVerdict
  <2> QED
    BY <2>1, <2>2 DEF VocalsCertify
<1>3. VocalsNumbered
  BY <1>0 DEF VocalInv, VocalsOK, VocalsNumbered, Counted, VocalsOf
<1>4. PerformancesCertify /\ RetargetKeepsIdentity
  BY <1>0, IdentityKept DEF BodyInv, PerformancesOK
<1> QED
  BY <1>1, <1>2, <1>3, <1>4 DEF PerformanceSound

\* Recovery can certify whatever clients say, adopt, select, map, align, perform and
\* retarget at the same time, and a performance stays what was performed
\* (server/soloring/performance, m17a_verifier, m17b_verifier).
THEOREM PerformancesAreSound == PerformanceSpec => []PerformanceSound
BY PerformanceInvariant, PerformancesFollow, PTL

-----------------------------------------------------------------------------
(* The whole story.                                                        *)

\* All layers at once: while staging, instances, events, captures, reviews, voices and
\* performances are edited beside each other, each layer keeps what it promises, those
\* included whose table of transitions the layers above write to
\* (continuity, spatial, capture, performance).
THEOREM WholeStoryIsSound ==
    PerformanceSpec => /\ [](NarrativeSound /\ ContinuitySound /\ StagingSound)
                       /\ [](CaptureSound /\ ConsequencesSound /\ PerformanceSound)
                       /\ StoryWritesAreCurrent
<1>1. PerformanceInv => ContinuityInv /\ SpatialInv /\ CaptureInv /\ ConsInv
  BY DEF PerformanceInv, ConsInv, CaptureInv, IntraInv, SpatialInv
<1>2. PerformanceInv => NarrativeSound /\ ContinuitySound /\ StagingSound
  BY <1>1, OrderFollows, ResolutionFollows, StagingFollows
<1>3. PerformanceInv => CaptureSound /\ ConsequencesSound /\ PerformanceSound
  BY <1>1, CapturesFollow, ConsequencesFollow, PerformancesFollow
<1>4. PerformanceSpec => StoryWritesAreCurrent
  BY PerformancesLeaveStory, WritesAreCurrent
<1> QED
  BY PerformanceInvariant, <1>2, <1>3, <1>4, PTL

\* What was captured, reviewed, said and performed.
EvidenceGrows ==
    /\ worldRevs \subseteq worldRevs' /\ shotRevs \subseteq shotRevs' /\ reviews \subseteq reviews'
    /\ lineRevs \subseteq lineRevs' /\ vocals \subseteq vocals' /\ alignments \subseteq alignments'
    /\ performed \subseteq performed' /\ assessments \subseteq assessments' /\ verdicts \subseteq verdicts'

\* The records below voices.
LEMMA StoryEvidenceGrows ==
    ASSUME ConsInv, [ConsequencesStep]_consequenceVars
    PROVE  worldRevs \subseteq worldRevs' /\ shotRevs \subseteq shotRevs' /\ reviews \subseteq reviews'
<1>1. worldRevs \subseteq worldRevs'
  BY WorldRevsChange DEF CaptureWorld
<1>2. CASE [CaptureStep]_captureVars /\ UNCHANGED consequenceOnly
  BY <1>1, <1>2, RevisionsStay DEF ConsInv, consequenceOnly
<1>3. CASE ReviewStep
  <2>1. OnlyConsequences
    BY <1>3, Zenon DEF ReviewStep, AdoptEvent, DeclineEvent, IngestProposal, ReviewProposals
  <2>2. reviews \subseteq reviews'
    BY <1>3 DEF ReviewStep, AdoptEvent, DeclineEvent, IngestProposal, ReviewProposals
  <2> QED
    BY <1>1, <2>1, <2>2 DEF OnlyConsequences, captureOnly
<1> QED
  BY <1>2, <1>3 DEF ConsequencesStep, consequenceVars

\* The records of voices.
LEMMA VocalEvidenceGrows ==
    ASSUME VocalStep
    PROVE  lineRevs \subseteq lineRevs' /\ vocals \subseteq vocals' /\ alignments \subseteq alignments'
<1>1. CASE \E l \in Line, e \in Entity, t \in Texts : CreateLineRevision(l, e, t)
  BY <1>1 DEF CreateLineRevision
<1>2. CASE \E c \in Voice, r \in lineRevs, trim \in Nat \X Nat : CreateVoice(c, r, trim)
  BY <1>2 DEF CreateVoice
<1>3. CASE \E k \in Clients : FinishAdoptVoice(k) \/ \E c \in Voice : BeginAdoptVoice(k, c)
  BY <1>3 DEF FinishAdoptVoice, BeginAdoptVoice, vocalVars
<1>4. CASE \E r \in lineRevs, v \in vocals \cup {None} : SetSelection(r, v)
  BY <1>4 DEF SetSelection
<1>5. CASE \E s \in Shot, position \in Nat, v \in vocals, span \in Nat \X Nat, n \in Int, den \in Nat \ {0} :
              PutMapping(s, position, v, span, n, den)
  BY <1>5, ZenonT(40) DEF PutMapping
<1>6. CASE \E m \in DOMAIN mappings : DeleteMapping(m)
  BY <1>6 DEF DeleteMapping
<1>7. CASE \E k \in Clients :
              \/ FinishAlignment(k)
              \/ \E v \in vocals, run \in Runs, doc \in [span : Nat \X Nat, label : Labels] :
                    BeginAlignment(k, v, run, doc)
  BY <1>7 DEF FinishAlignment, BeginAlignment, vocalVars
<1> QED
  BY <1>1, <1>2, <1>3, <1>4, <1>5, <1>6, <1>7 DEF VocalStep

\* The records of performances.
LEMMA BodyEvidenceGrows ==
    ASSUME BodyStep
    PROVE  performed \subseteq performed' /\ assessments \subseteq assessments' /\ verdicts \subseteq verdicts'
<1>1. CASE \E k \in Clients : FinishAdopt(k) \/ \E p \in PerformanceId : BeginAdopt(k, p)
  BY <1>1 DEF FinishAdopt, BeginAdopt, bodyVars
<1>2. CASE \E r \in performed, from, to \in Physical : AssessRetarget(r, from, to)
  BY <1>2 DEF AssessRetarget
<1>3. CASE \E a \in assessments, d \in {"ACCEPT_FOR_NEW_CANDIDATE", "REJECT"} : ReviewRetarget(a, d)
  BY <1>3 DEF ReviewRetarget
<1>4. ASSUME NEW p, NEW e, NEW payload, CreatePerformance(p, e, payload)
      PROVE  UNCHANGED <<performed, assessments, verdicts>>
  BY <1>4 DEF CreatePerformance
<1>5. ASSUME NEW p, NEW r, NEW a, NEW v, CreateRetarget(p, r, a, v)
      PROVE  UNCHANGED <<performed, assessments, verdicts>>
  BY <1>5 DEF CreateRetarget
<1> QED
  BY <1>1, <1>2, <1>3, <1>4, <1>5 DEF BodyStep

\* The voices stand while performances are made, and the reverse.
LEMMA HalvesStand ==
    /\ VocalStep => UNCHANGED bodyVars
    /\ BodyStep => UNCHANGED vocalVars
<1>1. VocalStep => UNCHANGED bodyVars
  BY ZenonT(40) DEF VocalStep, CreateLineRevision, CreateVoice, BeginAdoptVoice, FinishAdoptVoice, SetSelection,
     PutMapping, DeleteMapping, BeginAlignment, FinishAlignment
<1>2. BodyStep => UNCHANGED vocalVars
  BY Zenon DEF BodyStep, CreatePerformance, BeginAdopt, FinishAdopt, AssessRetarget, ReviewRetarget, CreateRetarget
<1> QED
  BY <1>1, <1>2

\* What was captured of a world or a shot, decided in a review, said, adopted, aligned,
\* performed or assessed is there for ever and as it was, whatever is edited or deleted
\* afterwards: every verifier of a backup rests on it (spatial/repository.py,
\* shots/service.py, continuity/intra_shot_adoption.py, server/soloring/performance).
THEOREM EvidenceIsForEver == PerformanceSpec => [][EvidenceGrows]_performanceVars
<1>1. ASSUME PerformanceInv, [PerformanceStep]_performanceVars PROVE EvidenceGrows
  <2>1. [ConsequencesStep]_consequenceVars
    BY <1>1, VocalsLeaveStory, BodiesLeaveStory DEF PerformanceStep, performanceVars
  <2>2. worldRevs \subseteq worldRevs' /\ shotRevs \subseteq shotRevs' /\ reviews \subseteq reviews'
    BY <1>1, <2>1, StoryEvidenceGrows DEF PerformanceInv
  <2>3. CASE VocalStep
    BY <2>2, <2>3, HalvesStand, VocalEvidenceGrows DEF bodyVars, EvidenceGrows
  <2>4. CASE BodyStep
    BY <2>2, <2>4, HalvesStand, BodyEvidenceGrows DEF vocalVars, EvidenceGrows
  <2>5. CASE UNCHANGED performanceOnly
    BY <2>2, <2>5 DEF performanceOnly, vocalVars, bodyVars, EvidenceGrows
  <2> QED
    BY <1>1, <2>3, <2>4, <2>5 DEF PerformanceStep, performanceVars
<1>2. PerformanceInv /\ [PerformanceStep]_performanceVars => [EvidenceGrows]_performanceVars
  BY <1>1
<1> QED
  BY PerformanceInvariant, <1>2, PTL DEF PerformanceSpec

=============================================================================
