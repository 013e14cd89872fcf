---------------------------- MODULE Composition ----------------------------
(* Production objects, whose revisions retain one blob, and compositions,     *)
(* whose working occurrences point at production revisions or nest published  *)
(* revisions of other compositions.                                           *)
(*   src/server/soloring/production/service.py                                *)
(*   src/server/soloring/composition/service.py, impacts.py, readiness.py     *)
(* A write is one BEGIN IMMEDIATE transaction (a fence).  What a handler      *)
(* reads before its fence is a step of its own: other handlers run between.   *)
(* One project; names, descriptions and visibility are not modelled, and a    *)
(* transform is only what a binding tells apart.                              *)
EXTENDS Naturals, FiniteSets, Sequences, FiniteSetsExt

CONSTANTS Clients, Objects, Assets, BlobOf, Compositions, Transforms,
          MaxOccurrences, MaxVersion, MaxRevisions, None

ASSUME CompositionAssumption ==
    /\ \A a \in Assets : BlobOf[a] # None
    /\ {MaxOccurrences, MaxVersion, MaxRevisions} \subseteq Nat
    /\ Objects \cap Compositions = {}

VARIABLES
    projectActive,  \* projects.deleted_at IS NULL
    prodRevs,       \* production_revisions with their closure
    provenance,     \* production_revision_source_assets: <<revision id, asset>>
    version,        \* compositions.working_version
    working,        \* composition_working_occurrences: occurrence -> spec
    history,        \* composition_identity_operations with sources and targets
    compRevs,       \* composition_revisions, _occurrences and _dependencies
    req             \* what each client holds between a read and its fence

compVars == <<projectActive, prodRevs, provenance, version, working, history,
              compRevs, req>>

Occurrences == 1..MaxOccurrences
Ids == 1..MaxRevisions
Idle == [op |-> "idle"]

\* The revision an occurrence shows: of a production object or of a composition.
Sources == [kind : {"production", "composition"}, id : Ids]
Specs == [source : Sources, transform : Transforms]

ProdRev == [id : Ids, object : Objects, number : Ids, blob : {BlobOf[a] : a \in Assets}]
Kinds == {"mint", "remove", "replace_as_new", "split", "merge", "fork"}
Terminates == {"remove", "replace_as_new", "split", "merge"}
Operation == [kind : Kinds, before : Nat, sources : SUBSET Occurrences,
              targets : SUBSET Occurrences]
CompRev == [id : Ids, comp : Compositions, number : Ids,
            entries : UNION {[S -> Specs] : S \in SUBSET Occurrences},
            prod : SUBSET Ids, nested : SUBSET Ids]

RevOf(revs, id) == CHOOSE r \in revs : r.id = id
Ops(c) == {history[c][i] : i \in 1..Len(history[c])}
Born(c) == UNION {o.targets : o \in Ops(c)}
Terminated(c) == UNION {o.sources : o \in {p \in Ops(c) : p.kind \in Terminates}}
Minted == UNION {Born(c) : c \in Compositions}
NextNumber(revs) == 1 + Max({0} \cup {r.number : r \in revs})
RevsOf(c) == {r \in compRevs : r.comp = c}

CompositionInit ==
    /\ projectActive = TRUE
    /\ prodRevs = {} /\ provenance = {} /\ compRevs = {}
    /\ version = [c \in Compositions |-> 0]
    /\ working = [c \in Compositions |-> << >>]
    /\ history = [c \in Compositions |-> << >>]
    /\ req = [k \in Clients |-> Idle]

CompositionTypeOK ==
    /\ projectActive \in BOOLEAN
    /\ prodRevs \subseteq ProdRev
    /\ provenance \subseteq Ids \X Assets
    /\ version \in [Compositions -> 0..MaxVersion]
    /\ \A c \in Compositions :
        /\ DOMAIN working[c] \subseteq Occurrences
        /\ \A o \in DOMAIN working[c] : working[c][o] \in Specs
        /\ \A p \in Ops(c) : p \in Operation
    /\ compRevs \subseteq CompRev

----------------------------------------------------------------------------
\* A request ends, refused or done.
Answer(k) == req' = [req EXCEPT ![k] = Idle]

\* projects: a soft delete; every later fence of the project refuses.
DeleteProject ==
    /\ projectActive /\ projectActive' = FALSE
    /\ UNCHANGED <<prodRevs, provenance, version, working, history, compRevs, req>>

\* Readiness of a publication: the joined facts and the verified bytes.
ReadyProduction(k, obj, a) ==
    /\ req[k] = Idle /\ projectActive
    /\ req' = [req EXCEPT ![k] = [op |-> "production", object |-> obj, asset |-> a]]
    /\ UNCHANGED <<projectActive, prodRevs, provenance, version, working, history, compRevs>>

\* Mutation: a converging publication takes the requested asset for the source.
PublishNoLink(k) ==
    LET rq == req[k]
        revs == {r \in prodRevs : r.object = rq.object}
        id == 1 + Cardinality(prodRevs)
    IN /\ rq.op = "production" /\ Answer(k)
       /\ IF projectActive /\ id \in Ids
          THEN /\ provenance' = provenance \cup {<<Max({1} \cup {r.id : r \in revs}), rq.asset>>}
               /\ prodRevs' = prodRevs \cup {[id |-> id, object |-> rq.object,
                                  number |-> NextNumber(revs), blob |-> BlobOf[rq.asset]]}
          ELSE UNCHANGED <<prodRevs, provenance>>
       /\ UNCHANGED <<projectActive, version, working, history, compRevs>>

\* Under the fence the content converges on the revision that has it already, or
\* becomes the next number; the asset is linked either way.
PublishProduction(k) ==
    LET rq == req[k]
        revs == {r \in prodRevs : r.object = rq.object}
        winner == {r \in revs : r.blob = BlobOf[rq.asset]}
        id == IF winner # {} THEN (CHOOSE r \in winner : TRUE).id
              ELSE 1 + Cardinality(prodRevs)
    IN /\ rq.op = "production" /\ Answer(k)
       /\ IF projectActive /\ id \in Ids
          THEN /\ provenance' = provenance \cup {<<id, rq.asset>>}
               /\ prodRevs' = IF winner # {} THEN prodRevs
                              ELSE prodRevs \cup {[id |-> id, object |-> rq.object,
                                     number |-> NextNumber(revs), blob |-> BlobOf[rq.asset]]}
          ELSE UNCHANGED <<prodRevs, provenance>>
       /\ UNCHANGED <<projectActive, version, working, history, compRevs>>

----------------------------------------------------------------------------
\* A source exists and, nested, has nothing of the parent's lineage in its
\* frozen closure.
ValidateSource(c, s) ==
    IF s.kind = "production" THEN \E r \in prodRevs : r.id = s.id
    ELSE \E r \in compRevs :
            /\ r.id = s.id /\ r.comp # c
            /\ \A n \in r.nested : RevOf(compRevs, n).comp # c

WorkingSpec(c, spec) == spec \in Specs /\ ValidateSource(c, spec.source)

\* The object or composition an occurrence shows; a patch may not change it.
OwnerOf(s) == IF s.kind = "production" THEN RevOf(prodRevs, s.id).object
              ELSE RevOf(compRevs, s.id).comp

\* CARDINALITY: how many sources and targets each operation takes.
Cardinal(kind, n, m) ==
    CASE kind = "mint" -> n = 0 /\ m = 1
      [] kind = "remove" -> n = 1 /\ m = 0
      [] kind \in {"replace_as_new", "fork"} -> n = 1 /\ m = 1
      [] kind = "split" -> n = 1 /\ m >= 2
      [] kind = "merge" -> n >= 2 /\ m = 1

\* The n occurrence ids a fence mints.
Fresh(n) == {Cardinality(Minted) + i : i \in 1..n}

Assign(specs) == [o \in Fresh(Len(specs)) |-> specs[o - Cardinality(Minted)]]

Without(f, S) == [o \in DOMAIN f \ S |-> f[o]]
Merge(f, g) == [o \in DOMAIN f \cup DOMAIN g |-> IF o \in DOMAIN g THEN g[o] ELSE f[o]]

\* The operation row with its edges, the working membership and the version.
Record(c, kind, sources, specs) ==
    /\ Fresh(Len(specs)) \subseteq Occurrences /\ version[c] < MaxVersion
    /\ history' = [history EXCEPT ![c] = Append(@,
           [kind |-> kind, before |-> version[c], sources |-> sources,
            targets |-> Fresh(Len(specs))])]
    /\ working' = [working EXCEPT ![c] =
           Merge(IF kind \in Terminates THEN Without(@, sources) ELSE @, Assign(specs))]
    /\ version' = [version EXCEPT ![c] = @ + 1]

\* One fence validates and writes: a stale expected version is only refused.
MintOccurrence(c, spec) ==
    /\ projectActive /\ WorkingSpec(c, spec)
    /\ Record(c, "mint", {}, <<spec>>)
    /\ UNCHANGED <<projectActive, prodRevs, provenance, compRevs, req>>

\* A patch is judged on what it read, before its fence.
ReadPatch(k, c, o, spec) ==
    /\ req[k] = Idle /\ projectActive
    /\ o \in DOMAIN working[c] /\ o \notin Terminated(c)
    /\ spec # working[c][o] /\ WorkingSpec(c, spec)
    /\ LET old == working[c][o].source
       IN spec.source = old
          \/ /\ old.kind = "composition" /\ spec.source.kind = "composition"
             /\ OwnerOf(old) = OwnerOf(spec.source)
    /\ req' = [req EXCEPT ![k] =
           [op |-> "patch", comp |-> c, occ |-> o, spec |-> spec, version |-> version[c]]]
    /\ UNCHANGED <<projectActive, prodRevs, provenance, version, working, history, compRevs>>

PatchOccurrence(k) ==
    LET rq == req[k]
    IN /\ rq.op = "patch" /\ Answer(k)
       /\ IF /\ projectActive /\ rq.occ \in DOMAIN working[rq.comp]
             /\ rq.occ \notin Terminated(rq.comp)
             /\ version[rq.comp] = rq.version /\ rq.version < MaxVersion
          THEN /\ working' = [working EXCEPT ![rq.comp][rq.occ] = rq.spec]
               /\ version' = [version EXCEPT ![rq.comp] = @ + 1]
          ELSE UNCHANGED <<working, version>>
       /\ UNCHANGED <<projectActive, prodRevs, provenance, history, compRevs>>

----------------------------------------------------------------------------
\* What a preview shows of its sources; blockers is the live state of the
\* production world that hangs on them.
Impact(c, sources, blockers) ==
    [version |-> version[c],
     active |-> [o \in sources |-> o \notin Terminated(c)],
     inWorking |-> [o \in sources |-> o \in DOMAIN working[c]],
     blockers |-> blockers]

\* A preview mints nothing; its fingerprints come back with the apply.
PreviewIdentity(k, c, kind, sources, specs, blockers) ==
    /\ req[k] = Idle /\ projectActive
    /\ Cardinal(kind, Cardinality(sources), Len(specs))
    /\ \A i \in 1..Len(specs) : WorkingSpec(c, specs[i])
    /\ sources \subseteq Born(c)
    /\ req' = [req EXCEPT ![k] =
           [op |-> "identity", comp |-> c, kind |-> kind, sources |-> sources,
            specs |-> specs, impact |-> Impact(c, sources, blockers)]]
    /\ UNCHANGED <<projectActive, prodRevs, provenance, version, working, history, compRevs>>

Applies(rq, blockers) ==
    /\ projectActive
    /\ version[rq.comp] = rq.impact.version
    /\ \A i \in 1..Len(rq.specs) : WorkingSpec(rq.comp, rq.specs[i])
    /\ rq.sources \cap Terminated(rq.comp) = {}
    /\ Impact(rq.comp, rq.sources, blockers) = rq.impact
    /\ ~(blockers # {} /\ rq.kind \in Terminates)
    /\ rq.sources \subseteq DOMAIN working[rq.comp]

ApplyIdentity(k, blockers) ==
    LET rq == req[k]
    IN /\ rq.op = "identity" /\ Answer(k)
       /\ IF Applies(rq, blockers) THEN Record(rq.comp, rq.kind, rq.sources, rq.specs)
          ELSE UNCHANGED <<version, working, history>>
       /\ UNCHANGED <<projectActive, prodRevs, provenance, compRevs>>

----------------------------------------------------------------------------
\* The predicate publication evaluates before and under its fence.
Integrity(c) ==
    /\ Terminated(c) \cap DOMAIN working[c] = {}
    /\ \A o \in DOMAIN working[c] : ValidateSource(c, working[c][o].source)

\* The revisions the entries show themselves.
DirectProd(entries) ==
    {entries[o].source.id : o \in {x \in DOMAIN entries : entries[x].source.kind = "production"}}
DirectNested(entries) ==
    {entries[o].source.id : o \in {x \in DOMAIN entries : entries[x].source.kind = "composition"}}

\* Mutation: the closure of a nested revision is not flattened in.
DeriveDirect(entries) == [prod |-> DirectProd(entries), nested |-> DirectNested(entries)]

\* Direct sources and the frozen closures of the nested ones.
DeriveDependencies(entries) ==
    [prod |-> DirectProd(entries) \cup
              UNION {RevOf(compRevs, n).prod : n \in DirectNested(entries)},
     nested |-> DirectNested(entries) \cup
              UNION {RevOf(compRevs, n).nested : n \in DirectNested(entries)}]

\* The composition row is read first, ...
BeginPublish(k, c) ==
    /\ req[k] = Idle /\ projectActive
    /\ req' = [req EXCEPT ![k] = [op |-> "begin", comp |-> c, version |-> version[c]]]
    /\ UNCHANGED <<projectActive, prodRevs, provenance, version, working, history, compRevs>>

\* ... its working rows by the next statement, and the snapshot is made of them.
FreezePublish(k) ==
    LET rq == req[k]
    IN /\ rq.op = "begin"
       /\ req' = [req EXCEPT ![k] =
              IF working[rq.comp] = << >> \/ ~Integrity(rq.comp) THEN Idle
              ELSE [op |-> "publish", comp |-> rq.comp, version |-> rq.version,
                    entries |-> working[rq.comp],
                    deps |-> DeriveDependencies(working[rq.comp])]]
       /\ UNCHANGED <<projectActive, prodRevs, provenance, version, working, history, compRevs>>

FenceHolds(rq) ==
    /\ projectActive /\ Integrity(rq.comp)
    /\ version[rq.comp] = rq.version
    /\ DOMAIN working[rq.comp] = DOMAIN rq.entries

PublishComposition(k) ==
    LET rq == req[k]
        winner == {r \in RevsOf(rq.comp) : r.entries = rq.entries
                       /\ r.prod = rq.deps.prod /\ r.nested = rq.deps.nested}
        id == 1 + Cardinality(compRevs)
    IN /\ rq.op = "publish" /\ Answer(k)
       /\ compRevs' =
            IF FenceHolds(rq) /\ winner = {} /\ id \in Ids
            THEN compRevs \cup {[id |-> id, comp |-> rq.comp,
                    number |-> NextNumber(RevsOf(rq.comp)), entries |-> rq.entries,
                    prod |-> rq.deps.prod, nested |-> rq.deps.nested]}
            ELSE compRevs
       /\ UNCHANGED <<projectActive, prodRevs, provenance, version, working, history>>

----------------------------------------------------------------------------
(* What recovery and the verified readers demand of stored state.            *)

\* The lineage verifier on one composition: versions rise, an occurrence is born
\* once, nothing acts on an identity before its birth or after its end, and the
\* living ones are the working ones.
VerifyIdentityHistory(c) ==
    LET h == history[c]
        Before(i) == {h[j] : j \in 1..(i - 1)}
    IN /\ \A i \in 1..Len(h) :
            /\ h[i].before < version[c]
            /\ Cardinal(h[i].kind, Cardinality(h[i].sources), Cardinality(h[i].targets))
            /\ \A p \in Before(i) :
                 /\ p.before < h[i].before
                 /\ p.targets \cap h[i].targets = {}
                 /\ p.kind \in Terminates => p.sources \cap h[i].sources = {}
            /\ h[i].sources \subseteq UNION {p.targets : p \in Before(i)}
       /\ DOMAIN working[c] = Born(c) \ Terminated(c)

\* The verified reader of one revision derives its closure from the stored
\* closures of what it nests.
VerifyRevisionInvariants(r) ==
    /\ DOMAIN r.entries \subseteq Born(r.comp)
    /\ [prod |-> r.prod, nested |-> r.nested] = DeriveDependencies(r.entries)
    /\ \A n \in r.nested : RevOf(compRevs, n).comp # r.comp

\* Each revision has a source asset, and every asset linked has its bytes.
VerifySourceProvenance(r) ==
    LET assets == {p[2] : p \in {x \in provenance : x[1] = r.id}}
    IN assets # {} /\ \A a \in assets : BlobOf[a] = r.blob

\* The lineage verifier accepts every composition, whatever raced.
LineageSound == \A c \in Compositions : VerifyIdentityHistory(c)

\* The revisions a published revision contains, found by walking its entries.
Contains[n \in 0..MaxRevisions] ==
    IF \E r \in compRevs : r.id = n
    THEN LET below == DirectNested(RevOf(compRevs, n).entries)
         IN below \cup UNION {Contains[m] : m \in below \cap 0..(n - 1)}
    ELSE {}

\* The verified reader accepts every revision, and the stored closures it trusts
\* are the ones a walk over the immutable sources finds: no revision contains one
\* of its own composition, however deep.
ClosureExact ==
    \A r \in compRevs :
        /\ VerifyRevisionInvariants(r)
        /\ r.nested = Contains[r.id]
        /\ r.prod = UNION {DirectProd(RevOf(compRevs, n).entries) : n \in Contains[r.id] \cup {r.id}}
        /\ \A n \in Contains[r.id] : RevOf(compRevs, n).comp # r.comp

\* A content is one revision of its owner, and numbers run from 1 without a gap,
\* whichever clients raced to publish it.
RevisionsConverge ==
    /\ \A r, s \in compRevs : r.comp = s.comp /\ r.entries = s.entries => r = s
    /\ \A r, s \in prodRevs : r.object = s.object /\ r.blob = s.blob => r = s
    /\ \A c \in Compositions : {r.number : r \in RevsOf(c)} = 1..Cardinality(RevsOf(c))
    /\ \A x \in Objects : LET revs == {r \in prodRevs : r.object = x}
                          IN {r.number : r \in revs} = 1..Cardinality(revs)

\* Provenance verifies for every production revision, converged ones included.
ProvenanceKept == \A r \in prodRevs : VerifySourceProvenance(r)

\* The internal-invariant errors of publication are unreachable.
WorkingIsPublishable == \A c \in Compositions : Integrity(c)

\* A revision is published from the working state of the moment it is committed,
\* although it was read by several statements before the fence; and published
\* revisions never change.
PublishedIsWorking ==
    [][/\ compRevs \subseteq compRevs'
       /\ \A r \in compRevs' \ compRevs :
            r.entries = working[r.comp] /\ projectActive]_compVars

\* The internal checks of the composition service never fire on what its own
\* operations left, however they interleave: lineages, closures and working rows.
CompositionSound == LineageSound /\ ClosureExact /\ WorkingIsPublishable

\* Racing publications of one content converge on one revision that keeps the
\* provenance of each of them.
PublicationsConverge == RevisionsConverge /\ ProvenanceKept
=============================================================================
