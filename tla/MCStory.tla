------------------------------- MODULE MCStory ------------------------------
(* Thirteen groups of operations over one project, so that their state spaces *)
(* add up.  Each starts from a story the program can be in:                   *)
(*   topology   sequences, scenes and shots beside anchored transitions;      *)
(*   story      entities, dependencies, features, relations;                  *)
(*   resolve    transitions of a feature and a relation over two shots;       *)
(*   geometry   frames and axes of a world, captured by two clients;          *)
(*   staging    worlds, tracks, staging and plans;                            *)
(*   instances  features and tracks of production instances;                  *)
(*   events     timed events of a shot and its hand-offs;                     *)
(*   capture    a client captures a shot that others edit;                    *)
(*   race       two clients capture the same shot;                            *)
(*   again      a staged shot is captured again after its instance was edited;*)
(*   reviews    proposals, reviews and later edits;                           *)
(*   vocal      voices, selections, segments and alignments;                  *)
(*   perform    performances, their adoption and their retargeting.           *)
EXTENDS Performance

CONSTANTS Q1, C1, S1, S2, E1, E2, F1, P1, R1, V1, V2, W1, G1, G2, A1, T1, I1, J1, X1, K1, K2, L1

VARIABLE group

At(kind, id, side) == [kind |-> kind, id |-> id, side |-> side]
ShotAnchors == {At("shot", S1, "start"), At("shot", S1, "end"), At("shot", S2, "start")}
TwoAnchors == {At("shot", S1, "end"), At("shot", S2, "start")}
Is(kind, id) == [kind |-> kind, id |-> id]
Feature1 == Is("feature", F1)

Told == group # "story"
Linked == group \notin {"story", "perform"}
Placed == group \in {"staging", "instances", "capture", "again"}
Needs == IF group \in {"capture", "again"} THEN {[entity |-> E1, role |-> "r"]}
         ELSE {[entity |-> e, role |-> "r"] : e \in {E1, E2}}

Pinned == [state |-> <<W1, 1>>, number |-> 1, entities |-> {}, current |-> TRUE]

Said == [line |-> L1, number |-> 1, speaker |-> E1, text |-> "t"]
Heard == [candidate |-> "c", rev |-> Said, number |-> 1, speaker |-> E1, trim |-> <<0, 2>>, by |-> K1]
Doc(label) == [span |-> <<0, 1>>, label |-> label]
Aligned == [vocal |-> Heard, run |-> "run", doc |-> Doc("x")]

\* One scene with two shots, two approved entities with a feature and a
\* relation; a world at E1 with a captured and approved revision where Placed.
MCInit ==
    /\ group \in {"topology", "story", "resolve", "geometry", "staging", "instances", "events", "capture", "race", "again", "reviews", "vocal",
                 "perform"}
    /\ project = TRUE
    /\ sequences = (Q1 :> [position |-> 0, live |-> TRUE])
    /\ scenes = (C1 :> [sequence |-> Q1, position |-> 0, live |-> TRUE])
    /\ shots = [s \in {S1, S2} |-> [scene |-> C1, position |-> IF s = S1 THEN 0 ELSE 1,
                                    number |-> IF s = S1 THEN 1 ELSE 2, live |-> TRUE]]
    /\ transitions = IF group = "reviews"
                     THEN {[id |-> 1, family |-> "feature", owner |-> F1, live |-> TRUE,
                            anchor |-> At("shot", S1, "start"), value |-> V1]}
                     ELSE {}
    /\ entities = IF Told THEN [e \in {E1, E2} |-> [live |-> TRUE]] ELSE << >>
    /\ entityRevs = IF Told THEN {[entity |-> e, number |-> 1, spec |-> "a"] : e \in {E1, E2}} ELSE {}
    /\ approved = IF Told THEN [e \in {E1, E2} |-> 1] ELSE << >>
    /\ deps = [s \in Shot |-> IF Linked /\ s \in {S1, S2} THEN Needs ELSE {}]
    /\ features = IF Linked THEN (F1 :> [entity |-> E1, key |-> "k", supersedes |-> None, live |-> TRUE])
                  ELSE << >>
    /\ predicates = IF Linked THEN (P1 :> [live |-> TRUE]) ELSE << >>
    /\ relations = IF Linked THEN (R1 :> [subject |-> E1, predicate |-> P1, object |-> E2, live |-> TRUE])
                   ELSE << >>
    /\ worlds = IF Placed \/ group = "geometry"
                THEN (W1 :> [location |-> E1, required |-> group = "instances", live |-> TRUE])
                ELSE << >>
    /\ worldStates = IF Placed THEN (<<W1, 1>> :> [members |-> << >>, axes |-> << >>, approved |-> 1])
                     ELSE << >>
    /\ frames = << >> /\ axes = << >>
    /\ worldRevs = IF Placed THEN {[state |-> <<W1, 1>>, number |-> 1,
                                    value |-> [members |-> << >>, axes |-> << >>]]} ELSE {}
    /\ tracks = << >> /\ freeze = [k \in Clients |-> Unread]
    /\ plans = [s \in Shot |-> IF group \in {"instances", "again"} /\ s \in {S1, S2}
                               THEN [NoPlan EXCEPT !.world = W1] ELSE NoPlan]
    /\ IF group = "again"
       THEN /\ instances = (I1 :> [world |-> None, required |-> FALSE, live |-> TRUE])
            /\ selection = [s \in Shot |-> IF s = S1 THEN Pinned ELSE None]
       ELSE instances = << >> /\ selection = [s \in Shot |-> None]
    /\ duration = [s \in Shot |-> IF group \in {"capture", "race", "reviews", "vocal"} THEN 3 ELSE 0]
    /\ events = << >>
    /\ intent = [s \in Shot |-> None] /\ references = [s \in Shot |-> {}]
    /\ shotRevs = {} /\ reads = [k \in Clients |-> Unread]
    /\ proposals = << >> /\ reviews = {}
    /\ lineRevs = IF group = "perform" THEN {Said} ELSE {}
    /\ voices = IF group = "perform" THEN ("c" :> [rev |-> Said, trim |-> <<0, 2>>]) ELSE << >>
    /\ vocals = IF group = "perform" THEN {Heard} ELSE {}
    /\ choice = IF group = "perform" THEN (Said :> None) ELSE << >>
    /\ alignments = IF group = "perform" THEN {Aligned} ELSE {}
    /\ mappings = << >> /\ performances = << >> /\ performed = {}
    /\ assessments = {} /\ verdicts = {} /\ calls = [k \in Clients |-> Unread]

AboveStory == UNCHANGED <<spatialOnly, instanceOnly, intraOnly, captureOnly, consequenceOnly>>
AboveSpatial == UNCHANGED <<instanceOnly, intraOnly, captureOnly, consequenceOnly>>
AboveInstances == UNCHANGED <<intraOnly, captureOnly, consequenceOnly>>
AboveIntra == UNCHANGED <<captureOnly, consequenceOnly>>
AboveCapture == UNCHANGED consequenceOnly

Few(n) == Cardinality(transitions) < n

FeatureEdits(n, anchors, values) ==
    \/ Few(n) /\ \E a \in anchors, v \in values : CreateFeatureTransition(F1, a, v)
    \/ \E t \in Active : \/ DeleteFeatureTransition(t)
                         \/ \E a \in anchors, v \in values : PatchFeatureTransition(t, a, v)

RelationEdits(n, anchors, values) ==
    \/ Few(n) /\ \E a \in anchors, v \in values : CreateRelationTransition(R1, a, v)
    \/ \E t \in Active : \/ DeleteRelationTransition(t)
                         \/ \E a \in anchors, v \in values : PatchRelationTransition(t, a, v)

Topology ==
    /\ group = "topology" /\ AboveStory
    /\ \/ /\ UNCHANGED storyVars
          /\ \/ \E q \in Sequence : CreateSequence(q) \/ DeleteSequence(q)
             \/ \E list \in SetToAllKPermutations(Sequence) : ReorderSequences(list)
             \/ \E c \in Scene, q \in Sequence : CreateScene(c, q)
             \/ \E c \in Scene : DeleteScene(c)
             \/ \E q \in Sequence, list \in SetToAllKPermutations(Scene) : ReorderScenes(q, list)
             \/ \E c \in Scene, list \in SetToAllKPermutations({S1, S2}) : AssignSceneShots(c, list)
             \/ \E s \in Shot : CreateShot(s) \/ DeleteShot(s)
       \/ FeatureEdits(1, {At("shot", S1, "start"), At("scene", C1, "end")}, {V1})
       \/ RelationEdits(1, {At("sequence", Q1, "start")}, {"active"})
       \/ DeleteProject

Story ==
    /\ group = "story" /\ AboveStory
    /\ \/ \E e \in Entity : \/ CreateEntity(e) \/ DeleteEntity(e)
                            \/ \E spec \in IF e = E1 THEN Specs ELSE {"a"} : CreateRevision(e, spec)
                            \/ \E n \in IF e = E1 THEN 1..2 ELSE {1}, x \in {None, 1} : ApproveRevision(e, n, x)
       \/ \E set \in SUBSET [entity : Entity, role : {"r"}] : ReplaceSemanticDependencies(S1, set)
       \/ predicates = << >> /\ \E f \in Feature, pred \in Feature \cup {None} :
            CreateFeature(f, E1, IF f = F1 THEN "k" ELSE "l", pred)
       \/ \E f \in Feature : DeleteFeature(f)
       \/ Few(1) /\ CreateFeatureTransition(F1, At("shot", S1, "start"), V1)
       \/ \E t \in Active : DeleteFeatureTransition(t)
       \/ /\ features = << >> \* relations beside entities, not beside features
          /\ \/ CreatePredicate(P1) \/ DeletePredicate(P1)
             \/ \E o \in Entity : CreateRelation(R1, E2, P1, o)
             \/ DeleteRelation(R1)
       \/ DeleteShot(S1) /\ UNCHANGED storyVars

Resolve ==
    /\ group = "resolve" /\ AboveStory
    /\ \/ FeatureEdits(3, ShotAnchors, {V1, Clear})
       \/ RelationEdits(2, {At("shot", S1, "start"), At("shot", S2, "start")}, {"active", Clear})
       \/ UNCHANGED storyVars /\ \E list \in {<<S1, S2>>, <<S2, S1>>, <<S2>>} : AssignSceneShots(C1, list)
       \/ \E set \in {Needs, {[entity |-> E1, role |-> "r"]}} : ReplaceSemanticDependencies(S2, set)

Geometry ==
    /\ group = "geometry" /\ AboveSpatial
    /\ \/ CreateState(W1, 1)
       \/ \E f \in Frame, parent \in Frame \cup {None} :
            \/ CreateFrame(f, W1, parent, IF f = G1 THEN E2 ELSE None)
            \/ PatchFrame(f, parent, IF f = G1 THEN E2 ELSE None)
       \/ PatchFrame(G1, None, None)
       \/ \E f \in Frame : \/ DeleteFrame(f) \/ DeleteStateFrame(<<W1, 1>>, f)
                           \/ \E rev \in IF f = G1 THEN {None, 1} ELSE {None} :
                                PutStateFrame(<<W1, 1>>, f, rev, IF f = G1 THEN 1 ELSE 2)
       \/ CreateAxis(A1, W1) \/ DeleteAxis(A1) \/ DeleteStateAxis(<<W1, 1>>, A1)
       \/ PutStateAxis(<<W1, 1>>, A1, G1, G2)
       \/ FreezeFrames(K1, <<W1, 1>>) \/ FreezeAxes(K1) \/ CaptureWorld(K1)

Plans == {[NoPlan EXCEPT !.world = W1]}
         \cup {[NoPlan EXCEPT !.world = W1, !.blocking = (T1 :> v)] : v \in {V1, V2}}

Staging ==
    /\ group = "staging" /\ AboveSpatial
    /\ \/ \E w \in World, req \in BOOLEAN : CreateWorld(w, E2, req) \/ PatchWorld(w, req)
       \/ \E w \in World : DeleteWorld(w)
       \/ \E req \in BOOLEAN : CreateTrack(T1, W1, E2, req) \/ PatchTrack(T1, req)
       \/ DeleteTrack(T1)
       \/ Few(2) /\ \E a \in TwoAnchors, v \in {V1, Clear} : CreateStaging(T1, a, v)
       \/ \E t \in Active : \/ DeleteStaging(t)
                            \/ \E a \in TwoAnchors, v \in {V1, Clear} : PatchStaging(t, a, v)
       \/ \E p \in Plans : PutSpatialPlan(S2, plans[S2], p)
       \/ DeleteSpatialPlan(S2, plans[S2])
       \/ \E x \in {0, 1} : Unapprove(<<W1, 1>>, x) \/ ApproveWorld(<<W1, 1>>, 1, x)
       \/ DeleteShot(S1) /\ UNCHANGED <<storyVars, spatialOnly>>

Instances ==
    /\ group = "instances" /\ AboveInstances
    /\ \/ CreateInstanceFeature(I1) \/ DeleteInstanceFeature(I1)
       \/ \E req \in BOOLEAN : CreateInstanceTrack(J1, W1, req) \/ PatchInstanceTrack(J1, req)
       \/ DeleteInstanceTrack(J1)
       \/ Few(2) /\ \E a \in TwoAnchors, v \in {V1, Clear} :
            CreateInstanceTransition(I1, a, v) \/ CreateInstanceStaging(J1, a, v)
       \/ \E t \in Active :
            \/ DeleteInstanceTransition(t) \/ DeleteInstanceStaging(t)
            \/ \E a \in TwoAnchors, v \in {V1, Clear} :
                 PatchInstanceTransition(t, a, v) \/ PatchInstanceStaging(t, a, v)
       \/ SelectBinding(S2, <<W1, 1>>, {E2}) \/ BindingGoesStale(S2)
       \/ /\ UNCHANGED <<storyVars, spatialOnly, instanceOnly>>
          /\ \E list \in {<<S1, S2>>, <<S2>>} : AssignSceneShots(C1, list)

Change(target, time, before, after, mode) ==
    [target |-> target, time |-> time, before |-> before, after |-> after, mode |-> mode]

Changes(times, pairs, modes) ==
    {Change(Feature1, t, p[1], p[2], m) : t \in times, p \in pairs, m \in modes}

Flips == {<<Clear, V1>>, <<V1, V2>>}

Timing ==
    /\ group = "events" /\ AboveIntra
    /\ \/ \E x \in Event, v \in Changes({1, 2}, Flips, Modes) : CreateEvent(x, S1, v) \/ PatchEvent(x, v)
       \/ \E x \in Event : DeleteEvent(x)
       \/ CreateEvent(X1, S1, Change(Is("relation", R1), 1, Clear, "active", "transient"))
       \/ \E d \in Durations : SetDuration(S1, d)
       \/ /\ UNCHANGED <<spatialOnly, instanceOnly, intraOnly>>
          /\ FeatureEdits(2, {At("shot", S1, "start"), At("shot", S1, "end")}, {V1})

Capturing ==
    /\ group = "capture" /\ AboveCapture
    /\ \/ ReadSnapshot(K1, S1) \/ PersistRevision(K1)
       \/ /\ UNCHANGED captureOnly
          /\ \/ UNCHANGED intraOnly /\ UNCHANGED instanceOnly
                /\ \/ PutSpatialPlan(S1, plans[S1], [NoPlan EXCEPT !.world = W1])
                   \/ /\ UNCHANGED spatialOnly
                      /\ \/ Few(1) /\ CreateFeatureTransition(F1, At("shot", S1, "start"), V1)
                         \/ \E set \in {Needs, {}} : ReplaceSemanticDependencies(S1, set)
                         \/ CreateRevision(E1, "b")
                         \/ ApproveRevision(E1, 2, 1)
             \/ CreateEvent(X1, S1, Change(Feature1, 1, V1, V2, "transient"))
             \/ CreateEvent(X1, S1, Change(Feature1, 1, Clear, V2, "transient"))
             \/ DeleteEvent(X1)
             \/ UNCHANGED intraOnly /\ SelectBinding(S1, <<W1, 1>>, {})

Racing ==
    /\ group = "race" /\ AboveCapture
    /\ \/ \E k \in Clients : ReadSnapshot(k, S1) \/ PersistRevision(k)
       \/ PatchShot(S1, "i") \/ ReplaceReferences(S1, References)
       \/ UNCHANGED captureOnly /\ CreateEvent(X1, S1, Change(Feature1, 1, Clear, V2, "transient"))
       \/ /\ UNCHANGED <<spatialOnly, instanceOnly, intraOnly, captureOnly>>
          /\ \/ Few(1) /\ CreateFeatureTransition(F1, At("shot", S1, "start"), V1)
             \/ \E t \in Active : DeleteFeatureTransition(t)

Again ==
    /\ group = "again" /\ AboveCapture
    /\ \/ ReadSnapshot(K1, S1) \/ PersistRevision(K1) \/ RefuseReuse(K1)
       \/ /\ UNCHANGED <<intraOnly, captureOnly>>
          /\ \/ Few(3) /\ CreateInstanceTransition(I1, At("shot", S1, "start"), V1)
             \/ \E t \in Active : DeleteInstanceTransition(t)

Candidates == {[target |-> Feature1, time |-> p[1], before |-> p[2], after |-> p[3]] :
                  p \in {<<1, V1, V2>>, <<2, V2, V1>>}}

Reviewing ==
    /\ group = "reviews"
    /\ \/ AboveCapture /\ shotRevs = {} /\ (ReadSnapshot(K1, S1) \/ PersistRevision(K1))
       \/ \E p \in Proposal, rev \in shotRevs, c \in Candidates : IngestProposal(p, S1, rev, c)
       \/ \E P \in SUBSET DOMAIN proposals : \E decide \in [P -> ProposalDecisions] :
            ReviewProposals(S1, decide)
       \/ \E x \in Event : AdoptEvent(x) \/ DeclineEvent(x)
       \/ /\ UNCHANGED <<spatialOnly, instanceOnly, intraOnly, captureOnly, consequenceOnly>>
          /\ \E t \in Active \ {u \in Active : u.id = 1} :
                \/ DeleteFeatureTransition(t)
                \/ \E v \in {V1, V2} : PatchFeatureTransition(t, At("shot", S2, "end"), v)
                \/ PatchFeatureTransition(t, At("shot", S1, "end"), V1)
       \/ /\ AboveIntra
          /\ \E x \in Event : \/ DeleteEvent(x)
                              \/ PatchEvent(x, Change(Feature1, 1, V1, V2, "require_handoff"))

Voicing ==
    /\ group = "vocal"
    /\ \/ voices = << >> /\ \E t \in Texts : CreateLineRevision(L1, E1, t)
       \/ \E r \in lineRevs : CreateVoice("c", r, <<0, 2>>) \/ CreateVoice("d", r, <<1, 4>>)
       \/ \E c \in Voice : BeginAdoptVoice(K1, c)
       \/ BeginAdoptVoice(K2, "d")
       \/ \E k \in Clients : FinishAdoptVoice(k)
       \/ \E r \in lineRevs, v \in vocals \cup {None} : SetSelection(r, v)
       \/ \E v \in vocals, span \in {<<0, 2>>, <<1, 3>>}, a \in {<<-2, 2>>, <<4, 1>>} :
            PutMapping(S1, 0, v, span, a[1], a[2])
       \/ \E m \in DOMAIN mappings : DeleteMapping(m)
       \/ vocals # {} /\ UNCHANGED <<captureOnly, consequenceOnly, performanceOnly>> /\ SetDuration(S1, 2)

Aligning ==
    /\ group = "vocal" /\ Cardinality(lineRevs) = 1 /\ (\A r \in lineRevs : choice[r] = None) /\ mappings = << >>
    /\ \E k \in Clients :
         \/ \E v \in vocals, label \in Labels : BeginAlignment(k, v, "run", Doc(label))
         \/ FinishAlignment(k)

Body == <<[object |-> "o", number |-> 1], [object |-> "o", number |-> 2], [object |-> "u", number |-> 1]>>
MCPhysical == {Body[i] : i \in 1..3}

Key(domain, link) == [domain |-> domain, time |-> 0, link |-> link]
Payloads == {[kind |-> "FACIAL", span |-> <<0, 1>>, keys |-> {Key("face", link)}] : link \in {None, Aligned}}

Moves == {<<1, 1>>, <<1, 2>>, <<2, 3>>}

\* A face of one of the two entities; a client is late with its adoption.
Performing ==
    /\ group = "perform"
    /\ \/ \E e \in Entity, payload \in Payloads : CreatePerformance("m", e, payload)
       \/ \E p \in PerformanceId : BeginAdopt(K1, p)
       \/ BeginAdopt(K2, "m")
       \/ \E k \in Clients : FinishAdopt(k)
       \/ \E r \in performed, x \in Moves : Cardinality(assessments) < 2 /\ AssessRetarget(r, Body[x[1]], Body[x[2]])
       \/ \E a \in assessments, d \in {"ACCEPT_FOR_NEW_CANDIDATE", "REJECT"} :
            Cardinality(verdicts) < 3 /\ ReviewRetarget(a, d)
       \/ \E p \in PerformanceId, r \in performed, a \in assessments, v \in verdicts :
            CreateRetarget(p, r, a, v)
       \/ /\ UNCHANGED <<spatialOnly, instanceOnly, intraOnly, captureOnly, consequenceOnly,
                         performanceOnly>>
          /\ DeleteEntity(E2)

MCNext ==
    /\ UNCHANGED group
    /\ \/ /\ UNCHANGED performanceOnly
          /\ \/ Topology \/ Story \/ Resolve \/ Geometry \/ Staging \/ Instances \/ Timing
             \/ Capturing \/ Racing \/ Again \/ Reviewing
       \/ Voicing \/ Aligning \/ Performing

MCSpec == MCInit /\ [][MCNext]_<<performanceVars, group>>
=============================================================================
