-------------------------- MODULE ProductionWorld --------------------------
(* The production world on top of the compositions: which authority an        *)
(* occurrence stands for, the state of production instances, the binding of a *)
(* published composition revision to a published world revision, and the      *)
(* binding a shot selects.                                                    *)
(*   src/server/soloring/production_world/{subjects,interpretation,           *)
(*   instance_state,instance_spatial,binding,placement_consumer,selection}.py *)
(* One spatial world with one published revision, whose frames bind the       *)
(* entities in Framed; feature values and staging transforms are left out; of *)
(* an interpretation only what compatibility compares, its frame.             *)
EXTENDS Composition

CONSTANTS Entities, Framed, Keys, Frames, Shots, MaxBindings, PI

ASSUME WorldAssumption == Framed \subseteq Entities /\ MaxBindings \in Nat /\ PI \notin Entities

VARIABLES
    subject,        \* composition_occurrence_authority_subjects: occurrence -> entity or PI
    deleted,        \* creative_entities with deleted_at
    interpreted,    \* production_revision_spatial_interpretations: revision id -> frame
    features,       \* production_instance_features, tombstones included
    tracks,         \* production_instance_spatial_tracks without deleted_at: occurrences
    entityTracks,   \* spatial_tracks without deleted_at: entities
    bindings,       \* composition_spatial_bindings with subjects and entries
    selection       \* shot_production_world_selections: shot -> binding id or 0

worldOnly == <<subject, deleted, interpreted, features, tracks, entityTracks, bindings, selection>>
vars == <<compVars, worldOnly>>

Targets == [kind : {"frame", "entity_track", "instance_track"}]
Feature == [occ : Occurrences, key : Keys, live : BOOLEAN, supersedes : Keys \cup {None}]

WorldInit ==
    /\ CompositionInit
    /\ subject = << >> /\ deleted = {} /\ interpreted = << >> /\ features = {}
    /\ tracks = {} /\ entityTracks = {} /\ bindings = {}
    /\ selection = [s \in Shots |-> 0]

WorldTypeOK ==
    /\ CompositionTypeOK
    /\ DOMAIN subject \subseteq Occurrences
    /\ \A o \in DOMAIN subject : subject[o] \in Entities \cup {PI}
    /\ deleted \subseteq Entities /\ entityTracks \subseteq Entities
    /\ DOMAIN interpreted \subseteq Ids /\ tracks \subseteq Occurrences
    /\ \A p \in DOMAIN interpreted : interpreted[p] \in Frames
    /\ features \subseteq Feature
    /\ \A b \in bindings :
        /\ b.id \in 1..MaxBindings /\ b.rev \in Ids
        /\ DOMAIN b.value.entries \subseteq DOMAIN b.value.subjects
        /\ \A o \in DOMAIN b.value.entries : b.value.entries[o] \in Targets
    /\ selection \in [Shots -> 0..MaxBindings]

----------------------------------------------------------------------------
Home(o) == CHOOSE c \in Compositions : o \in Born(c)
Living(o) == o \in Minted /\ o \in DOMAIN working[Home(o)] /\ o \notin Terminated(Home(o))

\* The other occurrences of the composition that claim e and still live.
ActiveClaims(c, e, o) ==
    {x \in DOMAIN subject \cap Born(c) : x # o /\ subject[x] = e /\ x \notin Terminated(c)}

\* One fence; the row is never rebound.
AdoptSubject(o, who) ==
    /\ projectActive /\ Living(o)
    /\ working[Home(o)][o].source.kind = "production"
    /\ o \notin DOMAIN subject
    /\ who # PI => who \notin deleted /\ ActiveClaims(Home(o), who, o) = {}
    /\ subject' = Merge(subject, [x \in {o} |-> who])
    /\ UNCHANGED <<compVars, deleted, interpreted, features, tracks, entityTracks,
                   bindings, selection>>

\* An immutable interpretation of a closed production revision.
CreateInterpretation(p, frame) ==
    /\ p \in {r.id : r \in prodRevs} \ DOMAIN interpreted
    /\ interpreted' = Merge(interpreted, [x \in {p} |-> frame])
    /\ UNCHANGED <<compVars, subject, deleted, features, tracks, entityTracks, bindings, selection>>

\* An entity no shot depends on may go although occurrences stand for it.
DeleteEntity(e) ==
    /\ deleted' = deleted \cup {e} /\ e \notin deleted
    /\ UNCHANGED <<compVars, subject, interpreted, features, tracks, entityTracks,
                   bindings, selection>>

\* Tracks of an entity in the world come and go.
EntityTrack(e) ==
    /\ entityTracks' = IF e \in entityTracks THEN entityTracks \ {e} ELSE entityTracks \cup {e}
    /\ UNCHANGED <<compVars, subject, deleted, interpreted, features, tracks, bindings, selection>>

----------------------------------------------------------------------------

\* Production instance state belongs to a living occurrence adopted as one.
RequirePiSubject(o) ==
    projectActive /\ Living(o) /\ o \in DOMAIN subject /\ subject[o] = PI

FeaturesOf(o) == {f \in features : f.occ = o}

\* A key is never used again, not even a deleted one; a predecessor is
\* superseded once.
CreateFeature(o, key, pred) ==
    /\ RequirePiSubject(o)
    /\ key \notin {f.key : f \in FeaturesOf(o)}
    /\ pred # None => /\ pred \in {f.key : f \in FeaturesOf(o)}
                      /\ pred \notin {f.supersedes : f \in FeaturesOf(o)}
    /\ features' = features \cup {[occ |-> o, key |-> key, live |-> TRUE, supersedes |-> pred]}
    /\ UNCHANGED <<compVars, subject, deleted, interpreted, tracks, entityTracks, bindings, selection>>

DeleteFeature(f) ==
    /\ f \in features /\ f.live /\ RequirePiSubject(f.occ)
    /\ features' = (features \ {f}) \cup {[f EXCEPT !.live = FALSE]}
    /\ UNCHANGED <<compVars, subject, deleted, interpreted, tracks, entityTracks, bindings, selection>>

CreateTrack(o) ==
    /\ RequirePiSubject(o) /\ o \notin tracks
    /\ tracks' = tracks \cup {o}
    /\ UNCHANGED <<compVars, subject, deleted, interpreted, features, entityTracks, bindings, selection>>

DeleteTrack(o) ==
    /\ o \in tracks /\ RequirePiSubject(o)
    /\ tracks' = tracks \ {o}
    /\ UNCHANGED <<compVars, subject, deleted, interpreted, features, entityTracks, bindings, selection>>

----------------------------------------------------------------------------
\* The placements of one subject in the world.
SubjectTargets(o) ==
    IF subject[o] = PI THEN {[kind |-> "instance_track"] : x \in tracks \cap {o}}
    ELSE {[kind |-> "frame"] : x \in Framed \cap {subject[o]}}
         \cup {[kind |-> "entity_track"] : x \in entityTracks \cap {subject[o]}}

\* An entity subject exists and is claimed by one living occurrence at most.
ValidSubject(rev, o) ==
    subject[o] = PI \/
        /\ subject[o] \notin deleted
        /\ Cardinality({x \in DOMAIN rev.entries \cap DOMAIN subject :
              /\ rev.entries[x].source.kind = "production"
              /\ subject[x] = subject[o] /\ x \notin Terminated(rev.comp)}) <= 1

\* What blocks the placement of a subject with one target or more.
Unresolved(rev, o) ==
    LET spec == rev.entries[o]
    IN \/ Cardinality(SubjectTargets(o)) > 1
       \/ /\ Cardinality(SubjectTargets(o)) = 1
          /\ spec.transform # "origin" \/ spec.source.id \notin DOMAIN interpreted

\* The candidate of (revision, world) as of now, and whether it has issues.
DeriveCandidate(rev) ==
    LET adopted == {o \in DOMAIN rev.entries \cap DOMAIN subject :
                        rev.entries[o].source.kind = "production"}
        valid == {o \in adopted : ValidSubject(rev, o)}
        placed == {o \in valid : SubjectTargets(o) # {} /\ ~Unresolved(rev, o)}
    IN [subjects |-> [o \in valid |-> subject[o]],
        entries |-> [o \in placed |-> CHOOSE t \in SubjectTargets(o) : TRUE]]

HasIssues(rev) ==
    \E o \in DOMAIN rev.entries \cap DOMAIN subject :
        /\ rev.entries[o].source.kind = "production"
        /\ ~ValidSubject(rev, o) \/ Unresolved(rev, o)

\* The candidate is derived before the fence ...
DeriveBinding(k, rev) ==
    /\ req[k] = Idle /\ rev \in compRevs
    /\ req' = [req EXCEPT ![k] = [op |-> "binding", rev |-> rev.id,
                                  value |-> DeriveCandidate(rev)]]
    /\ UNCHANGED <<projectActive, prodRevs, provenance, version, working, history, compRevs, worldOnly>>

\* Mutation: readiness is judged under the fence, the value is the earlier one.
PublishPrefence(k) ==
    LET rev == RevOf(compRevs, req[k].rev)
        id == 1 + Cardinality(bindings)
    IN /\ req[k].op = "binding" /\ Answer(k)
       /\ bindings' = IF ~HasIssues(rev) /\ id <= MaxBindings
                      THEN bindings \cup {[id |-> id, rev |-> rev.id, value |-> req[k].value]}
                      ELSE bindings
       /\ UNCHANGED <<projectActive, prodRevs, provenance, version, working, history, compRevs,
                      subject, deleted, interpreted, features, tracks, entityTracks, selection>>

\* ... and again under it: a difference is a conflict, then issues refuse, then
\* an equal binding is returned or a new one stored.
PublishBinding(k) ==
    LET rev == RevOf(compRevs, req[k].rev)
        value == DeriveCandidate(rev)
        id == 1 + Cardinality(bindings)
    IN /\ req[k].op = "binding" /\ Answer(k)
       /\ bindings' = IF /\ value = req[k].value /\ ~HasIssues(rev)
                         /\ ~\E b \in bindings : b.rev = rev.id /\ b.value = value
                         /\ id <= MaxBindings
                      THEN bindings \cup {[id |-> id, rev |-> rev.id, value |-> value]}
                      ELSE bindings
       /\ UNCHANGED <<projectActive, prodRevs, provenance, version, working, history, compRevs,
                      subject, deleted, interpreted, features, tracks, entityTracks, selection>>

----------------------------------------------------------------------------
BindingOf(id) == CHOOSE b \in bindings : b.id = id
SubjectsOf(b) == DOMAIN b.value.subjects

\* binding_current_status: the candidate of today is the stored one and bindable.
CurrentComplete(b) ==
    LET rev == RevOf(compRevs, b.rev)
    IN DeriveCandidate(rev) = b.value /\ ~HasIssues(rev)

Selectable(b) ==
    /\ CurrentComplete(b)
    /\ SubjectsOf(b) \cap Terminated(RevOf(compRevs, b.rev).comp) = {}

\* One fence: a stale expected pointer is only refused.
PutSelection(s, b) ==
    /\ b \in bindings /\ selection[s] # b.id /\ Selectable(b)
    /\ selection' = [selection EXCEPT ![s] = b.id]
    /\ UNCHANGED <<compVars, subject, deleted, interpreted, features, tracks, entityTracks, bindings>>

DeleteSelection(s) ==
    /\ selection[s] # 0 /\ selection' = [selection EXCEPT ![s] = 0]
    /\ UNCHANGED <<compVars, subject, deleted, interpreted, features, tracks, entityTracks, bindings>>

\* Mutation: the shot selections are not consulted.
BlockersNoSelection(sources) ==
    {<<"feature", f.occ>> : f \in {x \in features : x.live /\ x.occ \in sources}}
    \cup {<<"track", o>> : o \in tracks \cap sources}

\* The live references that forbid to end an occurrence.
LiveBlockers(sources) ==
    {<<"feature", f.occ>> : f \in {x \in features : x.live /\ x.occ \in sources}}
    \cup {<<"track", o>> : o \in tracks \cap sources}
    \cup {<<"selection", o>> : o \in sources \cap
            UNION {SubjectsOf(BindingOf(selection[s])) : s \in {t \in Shots : selection[t] # 0}}}

----------------------------------------------------------------------------
\* A terminated occurrence owns no live production instance state and is no
\* subject of a selected binding: whatever was created between the preview and
\* the apply, or is created by a request that raced the termination.
EndedOwnsNothing ==
    \A c \in Compositions : \A o \in Terminated(c) :
        /\ o \notin tracks /\ \A f \in FeaturesOf(o) : ~f.live
        /\ \A s \in Shots : selection[s] # 0 => o \notin SubjectsOf(BindingOf(selection[s]))

\* In a selected binding no two occurrences stand for one entity, although a
\* published binding of an old revision may have such a pair.
SelectedClaimsDistinct ==
    \A s \in Shots : selection[s] # 0 =>
        LET v == BindingOf(selection[s]).value.subjects
        IN \A o, x \in DOMAIN v : v[o] = v[x] /\ v[o] # PI => o = x

\* The verified reader of one stored binding: subjects are direct production
\* members of the exact revision and entries have an interpreted source.
ValidateStoredBinding(b) ==
    /\ b.rev \in {r.id : r \in compRevs}
    /\ LET rev == RevOf(compRevs, b.rev)
       IN /\ \A o \in SubjectsOf(b) : /\ o \in DOMAIN rev.entries
                                      /\ rev.entries[o].source.kind = "production"
                                      /\ subject[o] = b.value.subjects[o]
          /\ DOMAIN b.value.entries \subseteq SubjectsOf(b)
          /\ \A o \in DOMAIN b.value.entries :
                /\ rev.entries[o].source.id \in DOMAIN interpreted
                /\ (b.value.entries[o].kind = "instance_track") = (subject[o] = PI)

\* Stored bindings verify, and one content is stored once per revision.
BindingsVerify ==
    \A b \in bindings :
        /\ ValidateStoredBinding(b)
        /\ \A x \in bindings : x.rev = b.rev /\ x.value = b.value => x = b

\* A binding is stored only when it is the bindable candidate of that moment.
BindingIsCandidate ==
    [][\A b \in bindings' \ bindings : CurrentComplete(b)]_vars

\* Who owns what in the production world: the ended nothing, the selected
\* subjects one entity each.
OwnershipSound == EndedOwnsNothing /\ SelectedClaimsDistinct
=============================================================================
