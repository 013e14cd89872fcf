----------------------------- MODULE Narrative -----------------------------
(* The narrative topology of one project: sequences hold scenes, scenes hold  *)
(* shots, and the canonical stream of their boundaries is the only order of   *)
(* story time.                                                                *)
(*   src/server/soloring/narrative/{order,ordering,scenes,sequences}.py,      *)
(*   src/server/soloring/domain/{shots,projects}.py                           *)
(* Every operation is one BEGIN IMMEDIATE unit, one step here.  Titles,       *)
(* summaries and shot intent are left out.                                    *)
EXTENDS Integers, FiniteSets, Sequences, SequencesExt

CONSTANTS Sequence, Scene, Shot, None

ASSUME NarrativeAssumption == None \notin Scene

VARIABLES
    project,        \* the project has no deleted_at
    sequences,      \* sequences: id -> position, live
    scenes,         \* scenes: id -> sequence, position, live
    shots,          \* shots: id -> scene or None, position, shot number, live
    transitions     \* the five transition tables, tombstones included

narrativeVars == <<project, sequences, scenes, shots>>

Live(table) == {x \in DOMAIN table : table[x].live}
With(table, x, row) == [y \in DOMAIN table \cup {x} |-> IF y = x THEN row ELSE table[y]]

ScenesIn(q) == {c \in Live(scenes) : scenes[c].sequence = q}
ShotsIn(c) == {s \in Live(shots) : shots[s].scene = c}

NarrativeInit ==
    /\ project = TRUE
    /\ sequences = << >> /\ scenes = << >> /\ shots = << >> /\ transitions = {}

NarrativeTypeOK ==
    /\ project \in BOOLEAN
    /\ DOMAIN sequences \subseteq Sequence /\ DOMAIN scenes \subseteq Scene
    /\ DOMAIN shots \subseteq Shot
    /\ \A q \in DOMAIN sequences : sequences[q] \in [position : Nat, live : BOOLEAN]
    /\ \A c \in DOMAIN scenes :
          /\ scenes[c].sequence \in DOMAIN sequences
          /\ scenes[c].position \in Nat /\ scenes[c].live \in BOOLEAN
    /\ \A s \in DOMAIN shots :
          /\ shots[s].scene \in DOMAIN scenes \cup {None}
          /\ shots[s].position \in Nat /\ shots[s].number \in Nat \ {0}

----------------------------------------------------------------------------
(* Positions. *)

NextPosition(table, members) ==
    IF members = {} THEN 0 ELSE 1 + Max({table[x].position : x \in members})

CompactActive(table, members) ==
    [x \in DOMAIN table |->
        IF x \notin members THEN table[x]
        ELSE [table[x] EXCEPT !.position =
                Cardinality({y \in members : table[y].position < table[x].position})]]

\* list must hold exactly the active members, each once.
ExactSet(list, members) == IsInjective(list) /\ ToSet(list) = members

ReorderFullSet(table, list) ==
    [x \in DOMAIN table |->
        IF x \notin ToSet(list) THEN table[x]
        ELSE [table[x] EXCEPT !.position = (CHOOSE i \in DOMAIN list : list[i] = x) - 1]]

Tombstone(table, x) == [table EXCEPT ![x].live = FALSE]

----------------------------------------------------------------------------
(* The canonical stream.                                                      *)

\* ORDER BY position: the members, each once.
InOrder(table, members) ==
    CHOOSE list \in Injection(1..Cardinality(members), members) :
        \A i, j \in DOMAIN list : i < j => table[list[i]].position <= table[list[j]].position

Around(kind, id, inner) ==
    <<[kind |-> kind, id |-> id, side |-> "start"]>> \o inner
        \o <<[kind |-> kind, id |-> id, side |-> "end"]>>

SceneStream(c) ==
    LET order == InOrder(shots, ShotsIn(c))
    IN Around("scene", c, FlattenSeq([i \in DOMAIN order |-> Around("shot", order[i], << >>)]))

SequenceStream(q) ==
    LET order == InOrder(scenes, ScenesIn(q))
    IN Around("sequence", q, FlattenSeq([i \in DOMAIN order |-> SceneStream(order[i])]))

\* The stream of load_narrative_ordering, when the topology is sound.
Boundaries ==
    LET order == InOrder(sequences, Live(sequences))
    IN FlattenSeq([i \in DOMAIN order |-> SequenceStream(order[i])])

Distinct(table, members) ==
    \A x, y \in members : table[x].position = table[y].position => x = y

\* The conditions under which load_narrative_ordering refuses the topology.
Corrupt ==
    \/ \E c \in Live(scenes) : scenes[c].sequence \notin Live(sequences)
    \/ \E s \in Live(shots) : shots[s].scene # None /\ shots[s].scene \notin Live(scenes)
    \/ ~Distinct(sequences, Live(sequences))
    \/ \E q \in Live(sequences) : ~Distinct(scenes, ScenesIn(q))
    \/ \E c \in Live(scenes) : ~Distinct(shots, ShotsIn(c))

InStream(anchor) == anchor \in ToSet(Boundaries)
RankIn(stream, anchor) == CHOOSE i \in DOMAIN stream : stream[i] = anchor
StartOfShot(s) == [kind |-> "shot", id |-> s, side |-> "start"]

----------------------------------------------------------------------------
(* Anchors.  The topology looks at the transitions of features and relations. *)

Active == {t \in transitions : t.live}
GuardedFamilies == {"feature", "relation"}

\* Mutation: the relation transitions are forgotten.
AnchoredByFeature(kind, id) ==
    \E t \in Active : t.family = "feature" /\ t.anchor.kind = kind /\ t.anchor.id = id

Anchored(kind, id) ==
    \E t \in Active : t.family \in GuardedFamilies /\ t.anchor.kind = kind /\ t.anchor.id = id

\* _validate_anchor_in_ordering: the anchor's row is active, and in the stream.
AnchorValid(anchor) ==
    /\ CASE anchor.kind = "sequence" -> anchor.id \in Live(sequences)
         [] anchor.kind = "scene" -> /\ anchor.id \in Live(scenes)
                                     /\ scenes[anchor.id].sequence \in Live(sequences)
         [] anchor.kind = "shot" -> /\ anchor.id \in Live(shots)
                                    /\ shots[anchor.id].scene # None
    /\ ~Corrupt /\ InStream([anchor EXCEPT !.side = "start"])

----------------------------------------------------------------------------
(* Operations.                                                                *)

CreateSequence(q) ==
    /\ project /\ q \notin DOMAIN sequences
    /\ sequences' = With(sequences, q, [position |-> NextPosition(sequences, Live(sequences)),
                                        live |-> TRUE])
    /\ UNCHANGED <<project, scenes, shots, transitions>>

DeleteSequence(q) ==
    /\ q \in Live(sequences) /\ ScenesIn(q) = {} /\ ~Anchored("sequence", q)
    /\ sequences' = CompactActive(Tombstone(sequences, q), Live(sequences) \ {q})
    /\ UNCHANGED <<project, scenes, shots, transitions>>

ReorderSequences(list) ==
    /\ project /\ ExactSet(list, Live(sequences))
    /\ sequences' = ReorderFullSet(sequences, list)
    /\ UNCHANGED <<project, scenes, shots, transitions>>

CreateScene(c, q) ==
    /\ q \in Live(sequences) /\ c \notin DOMAIN scenes
    /\ scenes' = With(scenes, c, [sequence |-> q, live |-> TRUE,
                                  position |-> NextPosition(scenes, ScenesIn(q))])
    /\ UNCHANGED <<project, sequences, shots, transitions>>

DeleteScene(c) ==
    /\ c \in Live(scenes) /\ ShotsIn(c) = {} /\ ~Anchored("scene", c)
    /\ scenes' = CompactActive(Tombstone(scenes, c), ScenesIn(scenes[c].sequence) \ {c})
    /\ UNCHANGED <<project, sequences, shots, transitions>>

ReorderScenes(q, list) ==
    /\ q \in Live(sequences) /\ ExactSet(list, ScenesIn(q))
    /\ scenes' = ReorderFullSet(scenes, list)
    /\ UNCHANGED <<project, sequences, shots, transitions>>

\* The full ordered membership of a scene: the members left out are unassigned,
\* which a shot that anchors a transition may not be.
AssignSceneShots(c, list) ==
    /\ c \in Live(scenes) /\ IsInjective(list)
    /\ \A s \in ToSet(list) : s \in Live(shots) /\ shots[s].scene \in {None, c}
    /\ \A s \in ShotsIn(c) \ ToSet(list) : ~Anchored("shot", s)
    /\ shots' = [s \in DOMAIN shots |->
                    IF s \in ToSet(list)
                    THEN [shots[s] EXCEPT !.scene = c,
                            !.position = (CHOOSE i \in DOMAIN list : list[i] = s) - 1]
                    ELSE IF s \in ShotsIn(c)
                    THEN [shots[s] EXCEPT !.scene = None, !.position = 0]
                    ELSE shots[s]]
    /\ UNCHANGED <<project, sequences, scenes, transitions>>

\* The number is taken in the inserting statement, over deleted shots too.
CreateShot(s) ==
    /\ project /\ s \notin DOMAIN shots
    /\ shots' = With(shots, s, [scene |-> None, position |-> 0, live |-> TRUE,
                                number |-> 1 + Max({0} \cup {shots[x].number : x \in DOMAIN shots})])
    /\ UNCHANGED <<project, sequences, scenes, transitions>>

\* The shots behind a deleted one keep their positions.
DeleteShot(s) ==
    /\ s \in Live(shots) /\ ~Anchored("shot", s)
    /\ shots' = Tombstone(shots, s)
    /\ UNCHANGED <<project, sequences, scenes, transitions>>

\* What deleting the project does to the topology.
DropNarrative ==
    /\ project /\ project' = FALSE
    /\ sequences' = [q \in DOMAIN sequences |-> [sequences[q] EXCEPT !.live = FALSE]]
    /\ scenes' = [c \in DOMAIN scenes |-> [scenes[c] EXCEPT !.live = FALSE]]
    /\ shots' = [s \in DOMAIN shots |-> [shots[s] EXCEPT !.live = FALSE]]

----------------------------------------------------------------------------
\* The specification.  transitions are another component's to change.
NarrativeStep ==
    \/ \E q \in Sequence : CreateSequence(q) \/ DeleteSequence(q)
    \/ \E list \in Seq(Sequence) : ReorderSequences(list)
    \/ \E c \in Scene, q \in Sequence : CreateScene(c, q)
    \/ \E c \in Scene : DeleteScene(c)
    \/ \E q \in Sequence, list \in Seq(Scene) : ReorderScenes(q, list)
    \/ \E c \in Scene, list \in Seq(Shot) : AssignSceneShots(c, list)
    \/ \E s \in Shot : CreateShot(s) \/ DeleteShot(s)

NarrativeSpec == NarrativeInit /\ [][NarrativeStep]_<<narrativeVars, transitions>>

----------------------------------------------------------------------------
(* Properties.                                                                *)

\* The stream every resolver needs can always be built: no operation leaves an
\* active scene or shot under a deleted parent or two members at one position
\* (load_narrative_ordering answers such a topology with an internal error).
OrderingSound == ~Corrupt

\* Sequences and scenes are numbered without gaps whatever was deleted or
\* reordered (compact_active, reorder_full_set).
PositionsContiguous ==
    LET From0(table, members) ==
            {table[x].position : x \in members} = 0..(Cardinality(members) - 1)
    IN /\ From0(sequences, Live(sequences))
       /\ \A q \in Live(sequences) : From0(scenes, ScenesIn(q))

\* An active feature or relation transition is always anchored in the stream:
\* no deletion, unassignment or patch takes its boundary away.
AnchorsStay ==
    {t.anchor : t \in {u \in Active : u.family \in GuardedFamilies}} \subseteq ToSet(Boundaries)

\* The order of the story survives every edit of it, and so do the boundaries
\* that continuity hangs on.
NarrativeSound == OrderingSound /\ PositionsContiguous /\ AnchorsStay
=============================================================================
