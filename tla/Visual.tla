------------------------------- MODULE Visual ------------------------------
(* Visual identity: facets of entities and features, the anchors that show a  *)
(* facet in one exact state, their working sets and captured revisions, the   *)
(* approval of a revision, and the reference pack a shot is captured with.    *)
(*   src/server/soloring/visual/{facets,anchors,canonical,resolver,readiness, *)
(*   capture}.py, called from domain/revisions.py                             *)
(* Edits are one BEGIN IMMEDIATE unit each.  The two captures, of an anchor's *)
(* working set and of a shot, read in one transaction and write in another.   *)
(* Assets and their blobs never change; labels and view keys are left out.    *)
EXTENDS Continuity

CONSTANTS Facet, Anchor, Asset, Editors, MaxItems, MaxAnchorRevs, MaxShotPacks

ASSUME VisualAssumption == MaxItems \in Nat /\ MaxAnchorRevs \in Nat /\ MaxShotPacks \in Nat

VARIABLES
    facets,         \* visual_facets: id -> target, key, requirement, live
    policies,       \* visual_facet_value_policies: facet -> value -> policy
    anchors,        \* visual_anchors: id -> facet, binding, approved, live
    working,        \* visual_anchor_items: anchor -> sequence of asset, role
    anchorRevs,     \* visual_anchor_revisions and items: anchor, number, binding, items
    shotPacks,      \* captured shots: shot, deps, states, pack
    looks           \* what a capturing client has read

visualOnly == <<facets, policies, anchors, working, anchorRevs, shotPacks, looks>>
visualVars == <<continuityVars, visualOnly>>

Idle == [step |-> "idle"]

VisualInit ==
    /\ ContinuityInit
    /\ facets = << >> /\ policies = << >> /\ anchors = << >> /\ working = << >>
    /\ anchorRevs = {} /\ shotPacks = {} /\ looks = [k \in Editors |-> Idle]

VisualTypeOK ==
    /\ ContinuityTypeOK
    /\ DOMAIN facets \subseteq Facet /\ DOMAIN policies = DOMAIN facets
    /\ \A f \in DOMAIN policies : DOMAIN policies[f] \subseteq Values
    /\ DOMAIN anchors \subseteq Anchor /\ DOMAIN working = DOMAIN anchors
    /\ \A a \in DOMAIN anchors : anchors[a].facet \in DOMAIN facets
    /\ \A a \in DOMAIN working : working[a] \in Seq([asset : Asset, role : {"primary", "supporting"}])
    /\ \A r \in anchorRevs : r.anchor \in DOMAIN anchors /\ r.number \in 1..MaxAnchorRevs
    /\ \A p \in shotPacks : p.shot \in DOMAIN shots
    /\ DOMAIN looks = Editors

----------------------------------------------------------------------------
(* Facets and value policies.                                                 *)

TargetActive(target) ==
    IF target.kind = "entity" THEN target.id \in Live(entities) ELSE ActiveFeature(target.id)

CreateFacet(f, target, key, requirement) ==
    /\ project /\ f \notin DOMAIN facets /\ TargetActive(target)
    /\ \A g \in Live(facets) : <<facets[g].target, facets[g].key>> # <<target, key>>
    /\ facets' = With(facets, f, [target |-> target, key |-> key, requirement |-> requirement,
                                  live |-> TRUE])
    /\ policies' = With(policies, f, << >>)
    /\ UNCHANGED <<continuityVars, anchors, working, anchorRevs, shotPacks, looks>>

PatchFacet(f, requirement) ==
    /\ f \in Live(facets) /\ facets' = [facets EXCEPT ![f].requirement = requirement]
    /\ UNCHANGED <<continuityVars, policies, anchors, working, anchorRevs, shotPacks, looks>>

\* A required facet, or one with active anchors, stays.
DeleteFacet(f) ==
    /\ f \in Live(facets) /\ facets[f].requirement = "optional"
    /\ \A a \in Live(anchors) : anchors[a].facet # f
    /\ facets' = Tombstone(facets, f)
    /\ UNCHANGED <<continuityVars, policies, anchors, working, anchorRevs, shotPacks, looks>>

\* The complete set of a feature facet's policies is replaced.
PutValuePolicies(f, policy) ==
    /\ f \in Live(facets) /\ facets[f].target.kind = "feature"
    /\ DOMAIN policy # {} => ActiveFeature(facets[f].target.id)
    /\ policies' = [policies EXCEPT ![f] = policy]
    /\ UNCHANGED <<continuityVars, facets, anchors, working, anchorRevs, shotPacks, looks>>

----------------------------------------------------------------------------
(* Anchors.  A binding is the revision of the entity shown and, of a feature, *)
(* the value shown.                                                           *)

Owner(f) == IF facets[f].target.kind = "entity" THEN facets[f].target.id
            ELSE features[facets[f].target.id].entity

AnchorsFor(f, binding) ==
    {a \in Live(anchors) : anchors[a].facet = f /\ anchors[a].binding = binding}

BindingValid(f, binding) ==
    /\ binding.revision \in {r.number : r \in RevsOf(Owner(f))}
    /\ IF facets[f].target.kind = "entity" THEN binding.value = None
       ELSE binding.value \in Values /\ ActiveFeature(facets[f].target.id)

\* The entity revision need not be the approved one, nor its entity be active.
CreateAnchor(a, f, binding) ==
    /\ a \notin DOMAIN anchors /\ f \in Live(facets) /\ BindingValid(f, binding)
    /\ AnchorsFor(f, binding) = {}
    /\ anchors' = With(anchors, a, [facet |-> f, binding |-> binding, approved |-> None, live |-> TRUE])
    /\ working' = With(working, a, << >>)
    /\ UNCHANGED <<continuityVars, facets, policies, anchorRevs, shotPacks, looks>>

DeleteAnchor(a) ==
    /\ a \in Live(anchors) /\ anchors[a].approved = None
    /\ anchors' = Tombstone(anchors, a)
    /\ UNCHANGED <<continuityVars, facets, policies, working, anchorRevs, shotPacks, looks>>

Primaries(items) == {i \in DOMAIN items : items[i].role = "primary"}

\* The complete working set is replaced: no asset twice, at most one primary.
PutWorkingSet(a, items) ==
    /\ a \in Live(anchors) /\ Len(items) <= MaxItems
    /\ Cardinality({items[i].asset : i \in DOMAIN items}) = Len(items)
    /\ Cardinality(Primaries(items)) <= 1
    /\ working' = [working EXCEPT ![a] = items]
    /\ UNCHANGED <<continuityVars, facets, policies, anchors, anchorRevs, shotPacks, looks>>

----------------------------------------------------------------------------
(* The capture of a working set.                                              *)

\* _read_capture_state and _capturable.
ReadWorkingSet(k, a) ==
    /\ looks[k] = Idle /\ a \in Live(anchors) /\ Cardinality(Primaries(working[a])) = 1
    /\ looks' = [looks EXCEPT ![k] = [step |-> "anchor", anchor |-> a, items |-> working[a]]]
    /\ UNCHANGED <<continuityVars, facets, policies, anchors, working, anchorRevs, shotPacks>>

RevsOfAnchor(a) == {r \in anchorRevs : r.anchor = a}

NewAnchorRevision(a, items) ==
    [anchor |-> a, binding |-> anchors[a].binding, items |-> items,
     number |-> 1 + Max({0} \cup {r.number : r \in RevsOfAnchor(a)})]

\* Mutation: the items are taken from the working set of the moment.
WriteRevisionLate(k) ==
    /\ looks[k].step = "anchor" /\ Cardinality(RevsOfAnchor(looks[k].anchor)) < MaxAnchorRevs
    /\ LET a == looks[k].anchor
       IN anchorRevs' = IF working[a] \in {r.items : r \in RevsOfAnchor(a)} THEN anchorRevs
                        ELSE anchorRevs \cup {NewAnchorRevision(a, working[a])}
    /\ looks' = [looks EXCEPT ![k] = Idle]
    /\ UNCHANGED <<continuityVars, facets, policies, anchors, working, shotPacks>>

\* A known value converges; that the anchor is still active is not asked again.
WriteRevision(k) ==
    /\ looks[k].step = "anchor" /\ Cardinality(RevsOfAnchor(looks[k].anchor)) < MaxAnchorRevs
    /\ LET a == looks[k].anchor
       IN anchorRevs' = IF looks[k].items \in {r.items : r \in RevsOfAnchor(a)} THEN anchorRevs
                        ELSE anchorRevs \cup {NewAnchorRevision(a, looks[k].items)}
    /\ looks' = [looks EXCEPT ![k] = Idle]
    /\ UNCHANGED <<continuityVars, facets, policies, anchors, working, shotPacks>>

\* _verify_revision_integrity, of values that cannot be tampered with.
RevisionSound(r) == Cardinality(Primaries(r.items)) = 1 /\ r.binding = anchors[r.anchor].binding

ApproveAnchor(a, number, expected) ==
    /\ a \in Live(anchors) /\ anchors[a].approved = expected
    /\ \E r \in RevsOfAnchor(a) : r.number = number /\ RevisionSound(r)
    /\ anchors' = [anchors EXCEPT ![a].approved = number]
    /\ UNCHANGED <<continuityVars, facets, policies, working, anchorRevs, shotPacks, looks>>

UnapproveAnchor(a, expected) ==
    /\ a \in Live(anchors) /\ anchors[a].approved = expected /\ expected # None
    /\ anchors' = [anchors EXCEPT ![a].approved = None]
    /\ UNCHANGED <<continuityVars, facets, policies, working, anchorRevs, shotPacks, looks>>

----------------------------------------------------------------------------
(* The resolver: need is a shot's resolved dependencies, states its effective *)
(* features.                                                                  *)

FacetsFor(need, states) ==
    {f \in Live(facets) : facets[f].target.id \in
        IF facets[f].target.kind = "entity" THEN {d.entity : d \in need}
        ELSE {t.feature : t \in states}}

\* The exact state in which facet f is to be shown.
BindingFor(f, need, states) ==
    [revision |-> (CHOOSE d \in need : d.entity = Owner(f)).revision,
     value |-> IF facets[f].target.kind = "entity" THEN None
               ELSE (CHOOSE t \in states : t.feature = facets[f].target.id).value]

\* A policy of the value in force overrides the facet's requirement.
EffectivePolicy(f, binding) ==
    IF binding.value \in DOMAIN policies[f] THEN policies[f][binding.value]
    ELSE facets[f].requirement

Realized(f, binding) == {a \in AnchorsFor(f, binding) : anchors[a].approved # None}

VisualIssues(need, states) ==
    {f \in FacetsFor(need, states) :
        /\ EffectivePolicy(f, BindingFor(f, need, states)) = "required"
        /\ Realized(f, BindingFor(f, need, states)) = {}}

Approved(a) == CHOOSE r \in RevsOfAnchor(a) : r.number = anchors[a].approved

PackEntry(a) ==
    [facet |-> anchors[a].facet, target |-> facets[anchors[a].facet].target, anchor |-> a,
     number |-> anchors[a].approved, binding |-> anchors[a].binding, items |-> Approved(a).items]

EntriesFor(f, binding) ==
    IF EffectivePolicy(f, binding) = "not_applicable" THEN {}
    ELSE {PackEntry(a) : a \in Realized(f, binding)}

\* build_reference_pack; the order of the entries is left out.
Pack(need, states) ==
    UNION {EntriesFor(f, BindingFor(f, need, states)) : f \in FacetsFor(need, states)}

StatesOf(s) == {[feature |-> t.owner, value |-> t.value] : t \in EffectiveFeatures(s)}

SemanticsReady(s) ==
    /\ s \in Live(shots) /\ ~Corrupt
    /\ \A d \in deps[s] : d.entity \in Live(entities) /\ d.entity \in DOMAIN approved
    /\ Assigned(s) => ~Unresolvable(FeatureRows(s)) /\ ~Unresolvable(RelationRows(s))
    /\ StoryReady(s)

\* _snapshot_one_read: the story and its pack, in one read.
ReadShot(k, s) ==
    /\ looks[k] = Idle /\ SemanticsReady(s)
    /\ VisualIssues(ResolvedDependencies(s), StatesOf(s)) = {}
    /\ looks' = [looks EXCEPT ![k] = [step |-> "shot", shot |-> s, deps |-> ResolvedDependencies(s),
                                      states |-> StatesOf(s),
                                      pack |-> Pack(ResolvedDependencies(s), StatesOf(s))]]
    /\ UNCHANGED <<continuityVars, facets, policies, anchors, working, anchorRevs, shotPacks>>

Frozen(k) == [x \in {"shot", "deps", "states", "pack"} |-> looks[k][x]]

\* Mutation: the pack is resolved when the revision is written.
WriteShotLate(k) ==
    /\ looks[k].step = "shot" /\ Cardinality(shotPacks) < MaxShotPacks
    /\ LET s == looks[k].shot
       IN shotPacks' = shotPacks \cup {[Frozen(k) EXCEPT !.pack = Pack(ResolvedDependencies(s), StatesOf(s))]}
    /\ looks' = [looks EXCEPT ![k] = Idle]
    /\ UNCHANGED <<continuityVars, facets, policies, anchors, working, anchorRevs>>

\* persist_visual_children; the same value converges on its revision.
WriteShot(k) ==
    /\ looks[k].step = "shot" /\ Cardinality(shotPacks) < MaxShotPacks
    /\ shotPacks' = shotPacks \cup {Frozen(k)}
    /\ looks' = [looks EXCEPT ![k] = Idle]
    /\ UNCHANGED <<continuityVars, facets, policies, anchors, working, anchorRevs>>

----------------------------------------------------------------------------
\* The specification.  The story's operations look at nothing visual.
Targets == [kind : {"entity"}, id : Entity] \cup [kind : {"feature"}, id : Feature]
Policies == UNION {[V -> {"required", "optional", "not_applicable"}] : V \in SUBSET Values}
Items == Seq([asset : Asset, role : {"primary", "supporting"}])

FacetStep ==
    \/ \E f \in Facet, t \in Targets, key \in {"v"}, x \in {"required", "optional"} :
          CreateFacet(f, t, key, x) \/ PatchFacet(f, x)
    \/ \E f \in Facet : DeleteFacet(f) \/ \E policy \in Policies : PutValuePolicies(f, policy)

AnchorStep ==
    \/ \E a \in Anchor, f \in Facet, n \in Nat, v \in Values \cup {None} :
          CreateAnchor(a, f, [revision |-> n, value |-> v])
    \/ \E a \in Anchor : \/ DeleteAnchor(a)
                         \/ \E items \in Items : PutWorkingSet(a, items)
                         \/ \E n \in Nat, x \in Nat \cup {None} : ApproveAnchor(a, n, x) \/ UnapproveAnchor(a, x)
    \/ \E k \in Editors : \/ \E a \in Anchor : ReadWorkingSet(k, a)
                          \/ WriteRevision(k)

PackStep == \E k \in Editors : WriteShot(k) \/ \E s \in Shot : ReadShot(k, s)

VisualStep ==
    (ContinuityStep /\ UNCHANGED visualOnly) \/ FacetStep \/ AnchorStep \/ PackStep

VisualSpec == VisualInit /\ [][VisualStep]_visualVars

----------------------------------------------------------------------------
(* Properties.                                                                *)

\* Whatever clients edit while others capture, the resolver's integrity gate
\* never fires: an approved pointer leads to one revision of its anchor, with
\* one primary item, made for the anchor's state; and a state has one anchor
\* (_verify_approved_revision_inmemory, anchor_by_facet).
ApprovedVerifies ==
    \A a \in Live(anchors) :
        /\ AnchorsFor(anchors[a].facet, anchors[a].binding) = {a}
        /\ anchors[a].approved # None =>
              \E r \in RevsOfAnchor(a) :
                  /\ {u \in RevsOfAnchor(a) : u.number = anchors[a].approved} = {r}
                  /\ RevisionSound(r)

\* Every captured revision, approved or not, can be approved: it froze a working
\* set that was complete, although the set was edited before the write.
RevisionsComplete == \A r \in anchorRevs : RevisionSound(r)

\* Clients that capture one working set at the same time get one revision, and
\* the revisions of an anchor are numbered without a gap.
AnchorRevisionsConverge ==
    \A a \in DOMAIN anchors :
        /\ \A r, u \in RevsOfAnchor(a) : r.items = u.items => r = u
        /\ {r.number : r \in RevsOfAnchor(a)} = 1..Cardinality(RevsOfAnchor(a))

\* A captured shot is one moment of the story: every picture in its pack shows
\* the entity revision, and the feature value, that the same capture holds.
PackFitsItsStory ==
    \A p \in shotPacks : \A x \in p.pack :
        /\ \E d \in p.deps : d.revision = x.binding.revision /\
              d.entity = IF x.target.kind = "entity" THEN x.target.id
                         ELSE features[x.target.id].entity
        /\ x.target.kind = "feature" =>
              [feature |-> x.target.id, value |-> x.binding.value] \in p.states

\* What a shot was captured with stays on record, whatever is unapproved,
\* captured again or deleted later (the pack's rows refer to the revisions).
PacksStand ==
    \A p \in shotPacks : \A x \in p.pack : \E r \in anchorRevs :
        <<r.anchor, r.number, r.binding, r.items>> = <<x.anchor, x.number, x.binding, x.items>>

\* The pictures of an anchor can be resolved, approved and told apart.
AnchorsSound == VisualTypeOK /\ ApprovedVerifies /\ RevisionsComplete /\ AnchorRevisionsConverge

\* The reference pack of a captured shot is of its story, for ever.
PacksSound == PackFitsItsStory /\ PacksStand
=============================================================================
