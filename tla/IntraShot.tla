----------------------------- MODULE IntraShot -----------------------------
(* What happens inside a shot: timed events that change the state a feature,  *)
(* a relation or an instance feature had when the shot started, and the       *)
(* hand-off that carries the last state past the end of the shot.             *)
(*   src/server/soloring/continuity/intra_shot_{service,resolver,canonical,   *)
(*   capture}.py                                                              *)
(* Every write folds the whole prospective set of the shot under one BEGIN    *)
(* IMMEDIATE.  A coordinate (time, ordinal) is one number here, and the       *)
(* value of an event is its canonical form and its hash at once.              *)
EXTENDS InstanceState

CONSTANTS Event, Durations

ASSUME IntraAssumption == Durations \subseteq Nat

VARIABLES
    duration,       \* shots.duration_ms: shot -> length, 0 when there is none
    events          \* shot_intra_shot_events: id -> shot, value, source, live

intraOnly == <<duration, events>>
intraVars == <<instanceVars, intraOnly>>

Modes == {"transient", "require_handoff"}
Kinds == {"feature", "relation", "instance_feature"}

\* canonical_state: a relation is active or not, a feature has a value or none.
AllStates == StoryValues \cup {"active"}
StatesOfKind(kind) == IF kind = "relation" THEN {"active", Clear} ELSE StoryValues

IntraInit == InstanceInit /\ duration = [s \in Shot |-> 0] /\ events = << >>

IntraTypeOK ==
    /\ InstanceTypeOK
    /\ duration \in [Shot -> Durations \cup {0}]
    /\ DOMAIN events \subseteq Event
    /\ \A x \in DOMAIN events : /\ events[x].shot \in Shot
                                /\ events[x].value.mode \in Modes
                                /\ events[x].value.target.kind \in Kinds

EventsOf(s) == {x \in Live(events) : events[x].shot = s}
ValuesOf(s) == {events[x].value : x \in EventsOf(s)}

----------------------------------------------------------------------------
(* Targets and folding.                                                       *)

\* _target_context: what an event of shot s may be about.
TargetValid(s, target) ==
    CASE target.kind = "feature" ->
            /\ target.id \in Live(features) /\ features[target.id].entity \in DepEntities(s)
            /\ Assigned(s) \/ FeatureRows(s) = {}
      [] target.kind = "relation" ->
            /\ target.id \in Live(relations) /\ relations[target.id].predicate \in Live(predicates)
            /\ {relations[target.id].subject, relations[target.id].object} \subseteq DepEntities(s)
            /\ Assigned(s) \/ RelationRows(s) = {}
      [] target.kind = "instance_feature" ->
            target.id \in Live(instances) /\ SpatialIssues(s) = {} /\ InstanceReady(s)

\* The effective rows of a target when the shot starts.
StartRows(s, target) ==
    LET rows == CASE target.kind = "feature" -> EffectiveFeatures(s)
                  [] target.kind = "relation" -> EffectiveRelations(s)
                  [] target.kind = "instance_feature" -> EffectiveInstanceFeatures(s)
    IN {t \in rows : t.owner = target.id}

ValueOrClear(rows) == IF rows = {} THEN Clear ELSE (CHOOSE t \in rows : TRUE).value
StartState(s, target) == ValueOrClear(StartRows(s, target))

Earlier(set, v) == {u \in set : u.target = v.target /\ u.time < v.time}
Later(set, v) == {u \in set : u.target = v.target /\ u.time > v.time}

\* The state that v finds: what its predecessor left, or start.
Found(set, v, start) ==
    LET before == Earlier(set, v)
    IN IF before = {} THEN start ELSE (CHOOSE u \in before : \A w \in before : w.time <= u.time).after

Folds(set, v, start) ==
    /\ v.before = Found(set, v, start) /\ v.before # v.after
    /\ v.mode = "require_handoff" => Later(set, v) = {}

Separate(set) == \A u, v \in set : u.time = v.time => u = v

\* validate_prospective_event_set, of the values set on shot s.
Prospective(s, set) ==
    /\ Separate(set)
    /\ \A v \in set : /\ v.time \in 1..(duration[s] - 1) /\ TargetValid(s, v.target)
                      /\ Folds(set, v, StartState(s, v.target))

----------------------------------------------------------------------------
(* Events.                                                                    *)

KeepTransitions == UNCHANGED <<transitions, narrativeVars, storyVars, spatialOnly, instanceOnly>>

CreateEvent(x, s, v) ==
    /\ s \in Live(shots) /\ x \notin DOMAIN events
    /\ \A y \in EventsOf(s) : events[y].value.time # v.time
    /\ Prospective(s, ValuesOf(s) \cup {v})
    /\ events' = With(events, x, [shot |-> s, value |-> v, source |-> None, live |-> TRUE])
    /\ KeepTransitions /\ UNCHANGED duration

Others(x) == {events[y].value : y \in EventsOf(events[x].shot) \ {x}}

\* The target never changes; an adopted event becomes an authored one.
PatchEvent(x, v) ==
    /\ x \in Live(events) /\ events[x].shot \in Live(shots) /\ v.target = events[x].value.target
    /\ v.time \notin {u.time : u \in Others(x)}
    /\ Prospective(events[x].shot, Others(x) \cup {v})
    /\ events' = [events EXCEPT ![x].value = v, ![x].source = None]
    /\ KeepTransitions /\ UNCHANGED duration

\* What is left must fold.
DeleteEvent(x) ==
    /\ x \in Live(events) /\ events[x].shot \in Live(shots)
    /\ Prospective(events[x].shot, Others(x))
    /\ events' = Tombstone(events, x)
    /\ KeepTransitions /\ UNCHANGED duration

\* patch_shot_with_duration_fence.
SetDuration(s, d) ==
    /\ s \in Live(shots) /\ \A v \in ValuesOf(s) : v.time < d
    /\ duration' = [duration EXCEPT ![s] = d]
    /\ KeepTransitions /\ UNCHANGED events

----------------------------------------------------------------------------
(* Resolution and the packed form.                                            *)

EndOfShot(s) == [kind |-> "shot", id |-> s, side |-> "end"]

\* The persistent values of a set: the last of their target.
Persistent(set) == {v \in set : v.mode = "require_handoff" /\ Later(set, v) = {}}

HandoffRows(s, target) ==
    {t \in Active : t.family = target.kind /\ t.owner = target.id /\ t.anchor = EndOfShot(s)}

\* _feature_handoff_matches, _relation_handoff_matches.
HandoffMatches(s, v) == \E t \in HandoffRows(s, v.target) : t.value = v.after

\* resolve_intra_shot, intra_shot_ready.
IntraReady(s) ==
    /\ Prospective(s, ValuesOf(s))
    /\ Persistent(ValuesOf(s)) # {} => Assigned(s)
    /\ \A v \in Persistent(ValuesOf(s)) : HandoffMatches(s, v)

\* pack_from_projection: each event with the hand-off of a persistent one.
IntraPack(s) ==
    {[value |-> v, handoff |-> IF v \in Persistent(ValuesOf(s))
                               THEN [anchor |-> EndOfShot(s), value |-> v.after] ELSE None] :
        v \in ValuesOf(s)}

----------------------------------------------------------------------------
\* The specification.
EventValue ==
    {v \in [target : [kind : Kinds, id : Feature \cup Relation \cup InstanceFeature], time : Nat,
            before : AllStates, after : AllStates, mode : Modes] :
        {v.before, v.after} \subseteq StatesOfKind(v.target.kind)}

EventStep ==
    \/ \E x \in Event, s \in Shot, v \in EventValue : CreateEvent(x, s, v) \/ PatchEvent(x, v)
    \/ \E x \in Event : DeleteEvent(x)
    \/ \E s \in Shot, d \in Durations : SetDuration(s, d)

IntraStep == (InstanceStep /\ UNCHANGED intraOnly) \/ EventStep

IntraSpec == IntraInit /\ [][IntraStep]_intraVars

----------------------------------------------------------------------------
(* Properties.                                                                *)

\* Events stay inside their shot and apart from each other whatever becomes of
\* the shot's length and of the events themselves (the fence on duration and
\* the fence on events are two operations of two modules).
EventsInside ==
    \A s \in Live(shots) :
        /\ \A v \in ValuesOf(s) : v.time \in 1..(duration[s] - 1)
        /\ \A x, y \in EventsOf(s) : events[x].value.time = events[y].value.time => x = y

\* No write of an event leaves the chains of its shot broken at that instant,
\* in the middle of a chain either.
WritesFold ==
    [][\A s \in Live(shots) : ValuesOf(s)' # ValuesOf(s) => Prospective(s, ValuesOf(s)')]_intraVars

\* What a shot hands off is what holds right after it: told from the start of
\* the story through the end of the shot, each persistent target is in the
\* state its last event left it in.
HandoffCarries ==
    \A s \in Live(shots) : Assigned(s) /\ IntraReady(s) =>
        \A v \in Persistent(ValuesOf(s)) :
            LET stream == Boundaries
                rank(t) == RankIn(stream, t.anchor)
                rows == {t \in Active : t.family = v.target.kind /\ t.owner = v.target.id}
                upTo == {t \in rows : rank(t) <= RankIn(stream, EndOfShot(s))}
                last == {t \in upTo : \A u \in upTo : rank(u) <= rank(t)}
            IN {t.value : t \in last} = {v.after}
=============================================================================
