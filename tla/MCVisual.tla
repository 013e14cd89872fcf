------------------------------ MODULE MCVisual -----------------------------
(* Three groups of operations over one story: an entity E1 with two revisions *)
(* (the first approved) and a feature F1, and a shot that depends on E1.      *)
(*   facets    facets, policies and anchors beside the story's own edits;     *)
(*   working   two clients capture, approve and edit one anchor;              *)
(*   pack      shots are captured while the story and the approvals move.     *)
EXTENDS Visual

CONSTANTS Q1, C1, S1, E1, F1, V1, V2, K1, K2

VARIABLE group

At(side) == [kind |-> "shot", id |-> S1, side |-> side]
OfEntity == [kind |-> "entity", id |-> E1]
OfFeature == [kind |-> "feature", id |-> F1]
Shows(rev, value) == [revision |-> rev, value |-> value]
Item(asset, role) == [asset |-> asset, role |-> role]
Sets == {<<Item("x", "primary")>>, <<Item("x", "supporting"), Item("y", "primary")>>,
         <<Item("y", "supporting")>>}
Pictured == <<Item("x", "primary")>>
Made(f, binding) == [facet |-> f, binding |-> binding, approved |-> 1, live |-> TRUE]

\* The pack group starts with a picture of either revision and of either value.
Made4 == [a1 |-> Made("f", Shows(1, None)), a2 |-> Made("f", Shows(2, None)),
          a3 |-> Made("g", Shows(1, V1)), a4 |-> Made("g", Shows(2, V1))]

MCInit ==
    /\ group \in {"facets", "working", "pack"}
    /\ project = TRUE
    /\ sequences = (Q1 :> [position |-> 0, live |-> TRUE])
    /\ scenes = (C1 :> [sequence |-> Q1, position |-> 0, live |-> TRUE])
    /\ shots = (S1 :> [scene |-> C1, position |-> 0, number |-> 1, live |-> TRUE])
    /\ transitions = {} /\ predicates = << >> /\ relations = << >>
    /\ entities = (E1 :> [live |-> TRUE])
    /\ entityRevs = {[entity |-> E1, number |-> 1, spec |-> "a"], [entity |-> E1, number |-> 2, spec |-> "b"]}
    /\ approved = (E1 :> 1)
    /\ deps = [s \in Shot |-> IF group = "pack" THEN {[entity |-> E1, role |-> "r"]} ELSE {}]
    /\ features = (F1 :> [entity |-> E1, key |-> "k", supersedes |-> None, live |-> TRUE])
    /\ facets = IF group = "facets" THEN << >>
                ELSE [f |-> [target |-> OfEntity, key |-> "v", requirement |-> "required", live |-> TRUE],
                      g |-> [target |-> OfFeature, key |-> "v", requirement |-> "optional", live |-> TRUE]]
    /\ policies = IF group = "facets" THEN << >> ELSE [f |-> << >>, g |-> << >>]
    /\ anchors = CASE group = "facets" -> << >>
                   [] group = "working" -> [a1 |-> [Made("f", Shows(1, None)) EXCEPT !.approved = None]]
                   [] group = "pack" -> Made4
    /\ working = [a \in DOMAIN anchors |-> Pictured]
    /\ anchorRevs = IF group # "pack" THEN {}
                    ELSE {[anchor |-> a, number |-> 1, binding |-> Made4[a].binding, items |-> Pictured] :
                             a \in DOMAIN Made4}
    /\ shotPacks = {} /\ looks = [k \in Editors |-> Idle]

Facets ==
    /\ group = "facets"
    /\ \/ \E f \in Facet, t \in {OfEntity, OfFeature}, req \in {"required", "optional"} :
            CreateFacet(f, t, "v", req)
       \/ \E f \in Facet : \/ DeleteFacet(f)
                           \/ \E req \in {"required", "optional"} : PatchFacet(f, req)
                           \/ \E p \in {<< >>, (V1 :> "required"), (V1 :> "not_applicable")} : PutValuePolicies(f, p)
       \/ \E a \in {"a1", "a2"}, f \in Facet, rev \in 1..2, v \in {None, V1} : CreateAnchor(a, f, Shows(rev, v))
       \/ \E a \in {"a1", "a2"} : DeleteAnchor(a)
       \/ UNCHANGED visualOnly /\ (DeleteFeature(F1) \/ DeleteEntity(E1))

Working ==
    /\ group = "working"
    /\ \/ \E items \in Sets \cup {<< >>} : PutWorkingSet("a1", items)
       \/ \E k \in Editors : ReadWorkingSet(k, "a1") \/ WriteRevision(k)
       \/ \E n \in 1..MaxAnchorRevs, x \in {None, 1, 2} : ApproveAnchor("a1", n, x)
       \/ \E x \in 1..2 : UnapproveAnchor("a1", x)
       \/ DeleteAnchor("a1")
       \/ CreateAnchor("a2", "f", Shows(1, None))

Packs ==
    /\ group = "pack"
    /\ \/ ReadShot(K1, S1) \/ WriteShot(K1)
       \/ /\ UNCHANGED visualOnly
          /\ \/ \E n \in 1..3, x \in 1..2 : ApproveRevision(E1, n, x)
             \/ Cardinality(transitions) < 1 /\ \E v \in Values : CreateFeatureTransition(F1, At("start"), v)
             \/ \E t \in Active : \/ DeleteFeatureTransition(t)
                                  \/ \E v \in Values \cup {Clear} : PatchFeatureTransition(t, At("start"), v)
       \/ \E p \in {<< >>, (V1 :> "not_applicable"), (V2 :> "required")} : PutValuePolicies("g", p)
       \/ \E a \in {"a1", "a3"} : UnapproveAnchor(a, 1) \/ ApproveAnchor(a, 1, None)
       \/ DeleteAnchor("a3")

MCNext == UNCHANGED group /\ (Facets \/ Working \/ Packs)

MCSpec == MCInit /\ [][MCNext]_<<visualVars, group>>
=============================================================================
