--------------------------- MODULE Compatibility ---------------------------
(* Moving working occurrences to another revision of the same production      *)
(* object: an assessment stores the contract of every current use and its     *)
(* verdict, an apply moves selected uses in one fence and is safe to retry.   *)
(*   src/server/soloring/compatibility/evaluator.py, canonical.py,            *)
(*   translation.py, apply.py                                                 *)
EXTENDS ProductionWorld

CONSTANTS MaxAssessments

ASSUME CompatibilityAssumption == MaxAssessments \in Nat

VARIABLES
    assessments,    \* production_compatibility_assessments with their uses
    updates         \* production_update_operations with their items

compatVars == <<vars, assessments, updates>>

Statuses == {"SATISFIED", "NOT_APPLICABLE", "TRANSLATION_REQUIRED", "REVIEW_REQUIRED", "BLOCKED"}
Verdicts == {"INCOMPATIBLE", "REQUIRES_REVIEW", "VIA_TRANSLATION", "AS_IS"}

CompatibilityInit ==
    WorldInit /\ assessments = {} /\ updates = {}

CompatibilityTypeOK ==
    /\ WorldTypeOK
    /\ \A a \in assessments :
        /\ a.id \in 1..MaxAssessments /\ {a.from, a.to} \subseteq Ids
        /\ \A o \in DOMAIN a.uses : o \in Occurrences /\ a.uses[o].verdict \in Verdicts
    /\ \A u \in updates : u.assessment \in 1..MaxAssessments /\ u.accepted \subseteq DOMAIN u.after

----------------------------------------------------------------------------
WorkingRow(o) == working[Home(o)][o]

\* The occurrences that show a revision now.
UsesOf(p) ==
    {o \in UNION {DOMAIN working[c] : c \in Compositions} :
        WorkingRow(o).source = [kind |-> "production", id |-> p]}

Adopted(o) == o \in DOMAIN subject

\* The owner of the placement: the composition, or the one target in the world.
\* Anything but none or one target, and anything missing for it, is a conflict.
Ambiguous(o) ==
    /\ Adopted(o)
    /\ \/ subject[o] \in deleted
       \/ Cardinality(SubjectTargets(o)) > 1
       \/ /\ Cardinality(SubjectTargets(o)) = 1
          /\ \/ WorkingRow(o).transform # "origin"
             \/ WorkingRow(o).source.id \notin DOMAIN interpreted
Placement(o) == IF Adopted(o) THEN SubjectTargets(o) ELSE {}

\* Everything a verdict depends on; compared by its hash at the apply.
UseContract(o, from, to) ==
    [version |-> version[Home(o)], spec |-> WorkingRow(o),
     subject |-> IF Adopted(o) THEN {subject[o]} ELSE {},
     placement |-> Placement(o),
     features |-> {f \in FeaturesOf(o) : f.live}, track |-> tracks \cap {o},
     frames |-> [p \in {from, to} \cap DOMAIN interpreted |-> interpreted[p]]]

\* frame_bridge_supported: only rotations are beyond the translator.
Bridgeable(f, g) == f # "rotated" /\ g # "rotated"

\* The statuses of one use: bytes and the reading of the space.
EvaluateUse(o, from, to) ==
    {IF RevOf(prodRevs, from).blob = RevOf(prodRevs, to).blob
     THEN "SATISFIED" ELSE "REVIEW_REQUIRED",
     IF Placement(o) = {} THEN "NOT_APPLICABLE"
     ELSE IF to \notin DOMAIN interpreted THEN "BLOCKED"
     ELSE IF interpreted[from] = interpreted[to] THEN "SATISFIED"
     ELSE IF Bridgeable(interpreted[from], interpreted[to]) THEN "TRANSLATION_REQUIRED"
     ELSE "REVIEW_REQUIRED"}

FoldVerdict(statuses) ==
    CASE "BLOCKED" \in statuses -> "INCOMPATIBLE"
      [] "BLOCKED" \notin statuses /\ "REVIEW_REQUIRED" \in statuses -> "REQUIRES_REVIEW"
      [] {"BLOCKED", "REVIEW_REQUIRED"} \cap statuses = {} /\ "TRANSLATION_REQUIRED" \in statuses
            -> "VIA_TRANSLATION"
      [] OTHER -> "AS_IS"

\* One fence over all current uses; equal coordinates converge.
Assess(from, to) ==
    LET uses == UsesOf(from)
        stored == [o \in uses |-> [contract |-> UseContract(o, from, to),
                                   verdict |-> FoldVerdict(EvaluateUse(o, from, to))]]
        id == 1 + Cardinality(assessments)
    IN /\ from # to /\ {from, to} \subseteq {r.id : r \in prodRevs}
       /\ RevOf(prodRevs, from).object = RevOf(prodRevs, to).object
       /\ uses # {} /\ \A o \in uses : ~Ambiguous(o)
       /\ ~\E a \in assessments : a.from = from /\ a.to = to /\ a.uses = stored
       /\ id <= MaxAssessments
       /\ assessments' = assessments \cup {[id |-> id, from |-> from, to |-> to, uses |-> stored]}
       /\ UNCHANGED <<vars, updates>>

----------------------------------------------------------------------------
AfterSpec(o, to) == [WorkingRow(o) EXCEPT !.source.id = to]

\* An operation of this assessment over exactly these uses and decisions.
Committed(a, sel, accepted) ==
    {u \in updates : u.assessment = a.id /\ DOMAIN u.after = sel /\ u.accepted = accepted}

\* A retry is answered again when the rows, put on the target, are as recorded;
\* it changes nothing.
RetryMatches(a, sel, u) ==
    \A o \in sel : Living(o) /\ AfterSpec(o, a.to) = u.after[o]

\* Mutation: the verdict of the assessment is trusted without its contract.
MayApplyStale(a, sel, accepted) ==
    \A o \in sel :
        /\ Living(o) /\ WorkingRow(o).source = [kind |-> "production", id |-> a.from]
        /\ a.uses[o].verdict # "INCOMPATIBLE"
        /\ a.uses[o].verdict = "REQUIRES_REVIEW" => o \in accepted

\* The fresh path: each selected use is current, unambiguous and unchanged since
\* the assessment, and its verdict allows it or was reviewed.
MayApply(a, sel, accepted) ==
    \A o \in sel :
        /\ Living(o) /\ WorkingRow(o).source = [kind |-> "production", id |-> a.from]
        /\ ~Ambiguous(o)
        /\ UseContract(o, a.from, a.to) = a.uses[o].contract
        /\ a.uses[o].verdict # "INCOMPATIBLE"
        /\ a.uses[o].verdict = "REQUIRES_REVIEW" => o \in accepted

\* One fence moves the uses and raises the version of each composition once.
ApplyUpdate(a, sel, accepted) ==
    /\ a \in assessments /\ sel # {} /\ sel \subseteq DOMAIN a.uses /\ accepted \subseteq sel
    /\ Committed(a, sel, accepted) = {} /\ MayApply(a, sel, accepted)
    /\ \A o \in sel : version[Home(o)] < MaxVersion
    /\ working' = [c \in Compositions |-> [o \in DOMAIN working[c] |->
           IF o \in sel THEN AfterSpec(o, a.to) ELSE working[c][o]]]
    /\ version' = [c \in Compositions |->
           IF c \in {Home(o) : o \in sel} THEN version[c] + 1 ELSE version[c]]
    /\ updates' = updates \cup {[assessment |-> a.id, accepted |-> accepted,
                                 after |-> [o \in sel |-> AfterSpec(o, a.to)]]}
    /\ UNCHANGED <<projectActive, prodRevs, provenance, history, compRevs, req, worldOnly,
                   assessments>>

RetryUpdate(a, sel, accepted) ==
    /\ a \in assessments /\ sel # {}
    /\ \E u \in Committed(a, sel, accepted) : RetryMatches(a, sel, u)
    /\ UNCHANGED compatVars

----------------------------------------------------------------------------
\* The specification of the production side, with the requests of every client.
Asked == UNION {[1..n -> Specs] : n \in 0..MaxOccurrences}

CompositionStep ==
    \/ DeleteProject
    \/ \E k \in Clients :
          \/ PublishProduction(k) \/ PatchOccurrence(k) \/ FreezePublish(k) \/ PublishComposition(k)
          \/ \E obj \in Objects, a \in Assets : ReadyProduction(k, obj, a)
          \/ \E c \in Compositions :
                \/ BeginPublish(k, c)
                \/ \E o \in Occurrences, spec \in Specs : ReadPatch(k, c, o, spec)
                \/ \E kind \in Kinds, sources \in SUBSET Occurrences, specs \in Asked :
                      PreviewIdentity(k, c, kind, sources, specs, LiveBlockers(sources))
          \/ req[k].op = "identity" /\ ApplyIdentity(k, LiveBlockers(req[k].sources))
    \/ \E c \in Compositions, spec \in Specs : MintOccurrence(c, spec)

WorldStep ==
    \/ \E o \in Occurrences : \/ CreateTrack(o) \/ DeleteTrack(o)
                              \/ \E who \in Entities \cup {PI} : AdoptSubject(o, who)
                              \/ \E key \in Keys, pred \in Keys \cup {None} : CreateFeature(o, key, pred)
    \/ \E f \in features : DeleteFeature(f)
    \/ \E p \in Ids, frame \in Frames : CreateInterpretation(p, frame)
    \/ \E e \in Entities : DeleteEntity(e) \/ EntityTrack(e)
    \/ \E k \in Clients : PublishBinding(k) \/ \E rev \in compRevs : DeriveBinding(k, rev)
    \/ \E s \in Shots : DeleteSelection(s) \/ \E b \in bindings : PutSelection(s, b)

UpdateStep ==
    \/ \E from, to \in Ids : Assess(from, to)
    \/ \E a \in assessments : \E sel \in SUBSET DOMAIN a.uses : \E accepted \in SUBSET sel :
          ApplyUpdate(a, sel, accepted) \/ RetryUpdate(a, sel, accepted)

CompatibilityStep ==
    \/ CompositionStep /\ UNCHANGED <<worldOnly, assessments, updates>>
    \/ WorldStep /\ UNCHANGED <<assessments, updates>>
    \/ UpdateStep

CompatibilitySpec == CompatibilityInit /\ [][CompatibilityStep]_compatVars

----------------------------------------------------------------------------

\* No occurrence is moved to other bytes unless a reviewer accepted that use:
\* two revisions of an object never retain the same bytes.
UpdatesAreReviewed == \A u \in updates : u.accepted = DOMAIN u.after

\* An update keeps the object, the transform and the identity of the occurrence,
\* and leaves it as placeable as it was: the target has an interpretation when
\* the placement needs one.
UpdatesKeepPlacement ==
    [][\A u \in updates' \ updates : \A o \in DOMAIN u.after :
         /\ Living(o) /\ WorkingRow(o).transform = u.after[o].transform
         /\ OwnerOf(WorkingRow(o).source) = OwnerOf(u.after[o].source)
         /\ Placement(o) # {} => u.after[o].source.id \in DOMAIN interpreted]_compatVars

\* The recomputed verdict of an unchanged contract is the stored one: the
\* internal-invariant errors of the apply are unreachable.
VerdictsReproduce ==
    \A a \in assessments : \A o \in DOMAIN a.uses :
        Living(o) /\ UseContract(o, a.from, a.to) = a.uses[o].contract =>
            FoldVerdict(EvaluateUse(o, a.from, a.to)) = a.uses[o].verdict

\* Working content changes only with the working version of its composition.
VersionCoversWorking ==
    [][\A c \in Compositions : working'[c] # working[c] => version'[c] = version[c] + 1]_compatVars
=============================================================================
