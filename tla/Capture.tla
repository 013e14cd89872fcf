------------------------------ MODULE Capture ------------------------------
(* The capture of shot revisions: everything a shot depends on is read in one *)
(* read transaction, and the value it amounts to is stored in a later write   *)
(* transaction, beside whatever others have written in between.               *)
(*   src/server/soloring/domain/{revisions,references,shots,canon}.py,        *)
(*   src/server/soloring/continuity/{snapshots,intra_shot_history}.py         *)
(* A value is its own hash.  The visual pack of a capture is left out.        *)
EXTENDS IntraShot

CONSTANTS Intents, References, MaxShotRevs

ASSUME CaptureAssumption == MaxShotRevs \in Nat

VARIABLES
    intent,         \* shots: shot -> subject, action, framing... as one value
    references,     \* shot_references: shot -> set of references
    shotRevs,       \* shot_revisions with their children: shot, number, value, sources
    reads           \* what a capturing client has read: shot, value, sources

captureOnly == <<intent, references, shotRevs, reads>>
captureVars == <<intraVars, captureOnly>>

CaptureInit ==
    /\ IntraInit
    /\ intent = [s \in Shot |-> None] /\ references = [s \in Shot |-> {}]
    /\ shotRevs = {} /\ reads = [k \in Clients |-> Unread]

CaptureTypeOK ==
    /\ IntraTypeOK
    /\ intent \in [Shot -> Intents \cup {None}] /\ references \in [Shot -> SUBSET References]
    /\ \A r \in shotRevs : r.shot \in DOMAIN shots /\ r.number \in 1..MaxShotRevs

PatchShot(s, i) ==
    /\ s \in Live(shots) /\ intent' = [intent EXCEPT ![s] = i]
    /\ UNCHANGED <<intraVars, references, shotRevs, reads>>

ReplaceReferences(s, set) ==
    /\ s \in Live(shots) /\ references' = [references EXCEPT ![s] = set]
    /\ UNCHANGED <<intraVars, intent, shotRevs, reads>>

----------------------------------------------------------------------------
(* The one read and its value.                                                *)

\* What stops the read, in the order it is asked.
Capturable(s) ==
    /\ s \in Live(shots) /\ ~Corrupt
    /\ \A d \in deps[s] : d.entity \in Live(entities) /\ d.entity \in DOMAIN approved
    /\ Assigned(s) => ~Unresolvable(FeatureRows(s)) /\ ~Unresolvable(RelationRows(s))
    /\ StoryReady(s) /\ SpatialIssues(s) = {} /\ InstanceIssues(s) = {} /\ IntraReady(s)

CapturedFeatures(s) ==
    {[owner |-> t.owner, entity |-> features[t.owner].entity, value |-> t.value,
      anchor |-> t.anchor] : t \in EffectiveFeatures(s)}

CapturedRelations(s) ==
    {[owner |-> t.owner, subject |-> relations[t.owner].subject,
      object |-> relations[t.owner].object, anchor |-> t.anchor] : t \in EffectiveRelations(s)}

\* build_capturable_snapshot.
BuildSnapshot(s) ==
    [intent |-> intent[s], duration |-> duration[s], references |-> references[s],
     deps |-> ResolvedDependencies(s), features |-> CapturedFeatures(s),
     relations |-> CapturedRelations(s), spatial |-> SpatialPack(s),
     production |-> InstancePack(s), events |-> IntraPack(s)]

\* The rows behind the states and the events, audit provenance only.
Sources(s) ==
    [states |-> {<<t.owner, t.id>> : t \in EffectiveFeatures(s) \cup EffectiveRelations(s)},
     instances |-> IF selection[s] = None THEN {} ELSE InstanceAudit(s),
     events |-> EventsOf(s)]

\* _snapshot_one_read.
ReadSnapshot(k, s) ==
    /\ reads[k] = Unread /\ Capturable(s)
    /\ reads' = [reads EXCEPT ![k] = [step |-> "read", shot |-> s, value |-> BuildSnapshot(s),
                                      sources |-> Sources(s)]]
    /\ UNCHANGED <<intraVars, intent, references, shotRevs>>

\* What a shot's detail shows as its working hash; None while it is not ready.
WorkingHash(s) == IF Capturable(s) THEN BuildSnapshot(s) ELSE None

----------------------------------------------------------------------------
(* Storing it.                                                                *)

RevisionsOf(s) == {r \in shotRevs : r.shot = s}
Known(read) == {r \in RevisionsOf(read.shot) : r.value = read.value}

NewRevision(read) ==
    [shot |-> read.shot, number |-> 1 + Max({0} \cup {r.number : r \in RevisionsOf(read.shot)}),
     value |-> read.value, sources |-> read.sources]

\* _validate_reuse_integrity: the story's children agree in what they mean.
ReuseIntegrity(rev, read) ==
    /\ rev.value.deps = read.value.deps /\ rev.value.features = read.value.features
    /\ rev.value.relations = read.value.relations

\* _validate_spatial_reuse.
SpatialReuse(rev, read) == rev.value.spatial = read.value.spatial

\* _validate_m13_reuse: the children agree, the transitions they came from too.
ProductionReuse(rev, read) ==
    /\ rev.value.production = read.value.production
    /\ rev.value.production.binding # None => rev.sources.instances = read.sources.instances

\* _verify_intra_shot_companions.
CompanionReuse(rev, read) ==
    rev.value.events = read.value.events /\ rev.value.duration = read.value.duration

ReuseValid(rev, read) ==
    /\ ReuseIntegrity(rev, read) /\ SpatialReuse(rev, read) /\ ProductionReuse(rev, read)
    /\ CompanionReuse(rev, read)

Storing(k) == reads[k].step = "read" /\ Cardinality(shotRevs) < MaxShotRevs

\* Mutation: the events are looked up again when the revision is stored.
PersistLateEvents(k) ==
    /\ Storing(k)
    /\ LET read == [reads[k] EXCEPT !.value.events = IntraPack(reads[k].shot)]
       IN shotRevs' = IF Known(read) # {} THEN shotRevs ELSE shotRevs \cup {NewRevision(read)}
    /\ reads' = [reads EXCEPT ![k] = Unread] /\ UNCHANGED <<intraVars, intent, references>>

\* _persist_revision_fenced: a new value is stored, a known one is validated and
\* returned.
PersistRevision(k) ==
    /\ Storing(k) /\ \A r \in Known(reads[k]) : ReuseValid(r, reads[k])
    /\ shotRevs' = IF Known(reads[k]) # {} THEN shotRevs ELSE shotRevs \cup {NewRevision(reads[k])}
    /\ reads' = [reads EXCEPT ![k] = Unread] /\ UNCHANGED <<intraVars, intent, references>>

\* A winner that fails the validation is an internal error.
RefuseReuse(k) ==
    /\ Storing(k) /\ \E r \in Known(reads[k]) : ~ReuseValid(r, reads[k])
    /\ reads' = [reads EXCEPT ![k] = Unread] /\ UNCHANGED <<intraVars, intent, references, shotRevs>>

----------------------------------------------------------------------------
(* History: verified from what a revision captured and nothing else.          *)

EventValues(value) == {x.value : x \in value.events}

\* The captured owners and values that a target's start is among.
CapturedRows(value, target) ==
    CASE target.kind = "feature" -> {<<f.owner, f.value>> : f \in value.features}
      [] target.kind = "relation" -> {<<r.owner, "active">> : r \in value.relations}
      [] target.kind = "instance_feature" -> {<<f[1], f[2]>> : f \in value.production.features}

\* _start_states_from.
CapturedStart(value, target) ==
    LET mine == {r \in CapturedRows(value, target) : r[1] = target.id}
    IN IF mine = {} THEN Clear ELSE (CHOOSE r \in mine : TRUE)[2]

\* _verify_handoff.
VerifyHandoff(rev, x) ==
    IF x.value.mode = "require_handoff"
    THEN x.handoff = [anchor |-> EndOfShot(rev.shot), value |-> x.value.after]
    ELSE x.handoff = None

\* _verify_core.
VerifyHistory(rev) ==
    LET set == EventValues(rev.value)
    IN /\ Separate(set)
       /\ \A v \in set : /\ Folds(set, v, CapturedStart(rev.value, v.target))
                         /\ v.target.kind = "instance_feature" => rev.value.production.binding # None
       /\ \A x \in rev.value.events : VerifyHandoff(rev, x)

----------------------------------------------------------------------------
\* The specification.
ShotStep ==
    \/ \E s \in Shot, i \in Intents : PatchShot(s, i)
    \/ \E s \in Shot, set \in SUBSET References : ReplaceReferences(s, set)
    \/ \E k \in Clients : \/ \E s \in Shot : ReadSnapshot(k, s)
                          \/ PersistRevision(k) \/ RefuseReuse(k)

CaptureStep == (IntraStep /\ UNCHANGED captureOnly) \/ ShotStep

CaptureSpec == CaptureInit /\ [][CaptureStep]_captureVars

----------------------------------------------------------------------------
(* Properties.                                                                *)

\* One revision per shot and value, numbered without gaps, whoever captures
\* beside whom (_persist_revision_fenced converges on the winner).
ShotRevisionsConverge ==
    \A s \in DOMAIN shots :
        /\ {r.number : r \in RevisionsOf(s)} = 1..Cardinality(RevisionsOf(s))
        /\ \A r, q \in RevisionsOf(s) : r.value = q.value => r = q

\* A captured value is one state the shot was in: its states belong to captured
\* dependencies, its world is in the state of the captured revision of its
\* location, and its binding is the world it is staged in.
CaptureCoherent ==
    \A r \in shotRevs :
        LET v == r.value
            of == {d.entity : d \in v.deps}
        IN /\ \A f \in v.features : f.entity \in of
           /\ \A x \in v.relations : {x.subject, x.object} \subseteq of
           /\ v.spatial # None => \E d \in v.deps : /\ d.entity = worlds[v.spatial.world].location
                                                    /\ d.revision = v.spatial.state[2]
           /\ v.production.binding # None => /\ v.spatial # None
                                             /\ v.production.binding.state = v.spatial.state
                                             /\ v.production.binding.number = v.spatial.revision

\* Every stored revision passes the historical verifier, which folds the
\* captured events from the captured start states.
HistoryVerifies == \A r \in shotRevs : VerifyHistory(r)

\* A captured shot is one coherent value, stored once, that history verifies.
CaptureSound == ShotRevisionsConverge /\ CaptureCoherent /\ HistoryVerifies
=============================================================================
