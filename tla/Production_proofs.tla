-------------------------- MODULE Production_proofs --------------------------
(***************************************************************************)
(* Proofs about compositions, the production world and the compatibility   *)
(* updates, for every number of clients, objects, compositions, entities   *)
(* and shots: the internal checks of the composition service never fire,   *)
(* racing publications converge, what is committed is current at the       *)
(* commit, what has ended owns nothing, and every stored record verifies.  *)
(***************************************************************************)
EXTENDS ProductionRecovery, FiniteSetTheorems, SequenceTheorems, TLAPS

USE CompositionAssumption, WorldAssumption, CompatibilityAssumption

-----------------------------------------------------------------------------
(* Rows with ids and numbers.                                              *)

\* The rows of a table whose ids are MAX+1 at their insertion.
Ided(S) ==
    /\ IsFiniteSet(S)
    /\ \A x \in S : x.id \in 1..Cardinality(S)
    /\ \A x, y \in S : x.id = y.id => x = y

\* The numbers of the rows of one owner.
Numbered(S) == IsFiniteSet(S) /\ {x.number : x \in S} = 1..Cardinality(S)

IdsOf(S) == {x.id : x \in S}
RowsOf(S, obj) == {r \in S : r.object = obj}

-----------------------------------------------------------------------------
(* The inductive invariant: production revisions.                          *)

ProductionInv ==
    /\ projectActive \in BOOLEAN
    /\ prodRevs \subseteq ProdRev /\ Ided(prodRevs)
    /\ \A x \in Objects : Numbered(RowsOf(prodRevs, x))
    /\ \A r, s \in prodRevs : r.object = s.object /\ r.blob = s.blob => r = s
    /\ provenance \subseteq Ids \X Assets
    /\ \A p \in provenance : \E r \in prodRevs : r.id = p[1] /\ r.blob = BlobOf[p[2]]
    /\ \A r \in prodRevs : \E p \in provenance : p[1] = r.id

(* Lineages: the working rows are the living identities, and identities are  *)
(* minted in one series over all compositions.                               *)

Layouts == UNION {[S -> Specs] : S \in SUBSET Occurrences}

LineageInv ==
    /\ version \in [Compositions -> 0..MaxVersion]
    /\ working \in [Compositions -> Layouts]
    /\ history \in [Compositions -> Seq(Operation)]
    /\ \E n \in 0..MaxOccurrences : Minted = 1..n
    /\ \A c, d \in Compositions : c # d => Born(c) \cap Born(d) = {}
    /\ \A c \in Compositions : VerifyIdentityHistory(c)

(* Composition revisions: what a layout shows exists, its closure is the one *)
(* its direct sources give and the one a walk over the entries gives.        *)

ClosureOK(c, entries, deps) ==
    /\ DirectNested(entries) \subseteq IdsOf(compRevs)
    /\ deps = DeriveDependencies(entries)
    /\ deps.nested \subseteq IdsOf(compRevs) /\ deps.prod \subseteq Ids
    /\ deps.prod = DirectProd(entries) \cup
                   UNION {DirectProd(RevOf(compRevs, n).entries) : n \in deps.nested}
    /\ \A n \in deps.nested : RevOf(compRevs, n).comp # c

Closure(r) == [prod |-> r.prod, nested |-> r.nested]

RevisionInv ==
    /\ compRevs \subseteq CompRev /\ Ided(compRevs)
    /\ \A c \in Compositions : Numbered(RevsOf(c))
    /\ \A r, s \in compRevs : r.comp = s.comp /\ r.entries = s.entries => r = s
    /\ \A r \in compRevs :
        /\ DOMAIN r.entries \subseteq Born(r.comp)
        /\ ClosureOK(r.comp, r.entries, Closure(r))
        /\ \A n \in r.nested : n < r.id

WorkingInv ==
    \A c \in Compositions : \A o \in DOMAIN working[c] : ValidateSource(c, working[c][o].source)

(* Requests between a read and their fence.                                  *)

PublishOK(rq) ==
    /\ rq.comp \in Compositions /\ rq.version \in Nat /\ rq.version <= version[rq.comp]
    /\ rq.version = version[rq.comp] => rq.entries = working[rq.comp]
    /\ rq.entries \in Layouts /\ DOMAIN rq.entries \subseteq Born(rq.comp)
    /\ ClosureOK(rq.comp, rq.entries, rq.deps)

RequestOK(rq) ==
    /\ rq.op = "production" => rq.object \in Objects /\ rq.asset \in Assets
    /\ rq.op = "patch" => /\ rq.comp \in Compositions /\ rq.occ \in Occurrences
                          /\ WorkingSpec(rq.comp, rq.spec)
    /\ rq.op = "identity" =>
          /\ rq.comp \in Compositions /\ rq.kind \in Kinds /\ rq.specs \in Seq(Specs)
          /\ Cardinal(rq.kind, Cardinality(rq.sources), Len(rq.specs))
    /\ rq.op = "begin" =>
          rq.comp \in Compositions /\ rq.version \in Nat /\ rq.version <= version[rq.comp]
    /\ rq.op = "publish" => PublishOK(rq)
    /\ rq.op = "binding" => rq.rev \in IdsOf(compRevs)

RequestInv == DOMAIN req = Clients /\ \A k \in Clients : RequestOK(req[k])

CompositionInv == ProductionInv /\ LineageInv /\ RevisionInv /\ WorkingInv /\ RequestInv

-----------------------------------------------------------------------------
(* The production world.                                                   *)

ClaimsInv ==
    /\ subject \in [DOMAIN subject -> Entities \cup {PI}] /\ DOMAIN subject \subseteq Minted
    /\ \A c \in Compositions : \A o, x \in (DOMAIN subject \cap Born(c)) \ Terminated(c) :
          subject[o] = subject[x] /\ subject[o] # PI => o = x
    /\ deleted \subseteq Entities /\ entityTracks \subseteq Entities
    /\ interpreted \in [DOMAIN interpreted -> Frames]
    /\ DOMAIN interpreted \subseteq IdsOf(prodRevs)

\* Instance state belongs to an occurrence adopted as an instance, and none of
\* it to an ended one.
StateInv ==
    /\ features \subseteq Feature
    /\ VerifyInstanceState
    /\ tracks \subseteq DOMAIN subject /\ VerifyInstanceSpatial
    /\ \A c \in Compositions : \A o \in Terminated(c) :
          o \notin tracks /\ \A f \in FeaturesOf(o) : ~f.live

BindingOK(b) ==
    LET rev == RevOf(compRevs, b.rev)
        subjects == b.value.subjects
        entries == b.value.entries
    IN /\ b.id \in 1..MaxBindings /\ b.rev \in IdsOf(compRevs)
       /\ DOMAIN subjects \subseteq DOMAIN rev.entries \cap DOMAIN subject
       /\ \A o \in DOMAIN subjects : /\ rev.entries[o].source.kind = "production"
                                     /\ subject[o] = subjects[o]
       /\ DOMAIN entries \subseteq DOMAIN subjects
       /\ \A o \in DOMAIN entries :
             /\ entries[o] \in Targets
             /\ rev.entries[o].source.id \in DOMAIN interpreted
             /\ (entries[o].kind = "instance_track") = (subject[o] = PI)

\* The binding a shot selects has living subjects, one entity each.
SelectedOK(b) ==
    LET v == b.value.subjects
    IN /\ \A c \in Compositions : DOMAIN v \cap Terminated(c) = {}
       /\ \A o, x \in DOMAIN v : v[o] = v[x] /\ v[o] # PI => o = x

BindingInv ==
    /\ Ided(bindings)
    /\ \A b \in bindings : BindingOK(b)
    /\ \A b, x \in bindings : x.rev = b.rev /\ x.value = b.value => x = b
    /\ selection \in [Shots -> 0..MaxBindings]
    /\ \A s \in Shots : selection[s] # 0 =>
          \E b \in bindings : b.id = selection[s] /\ SelectedOK(b)

-----------------------------------------------------------------------------
(* Assessments and updates.  Two revisions of one object differ in their   *)
(* bytes, so that a use is either incompatible or requires a review.       *)

UseOK(a, o) ==
    LET contract == a.uses[o].contract
    IN /\ contract.spec.source = [kind |-> "production", id |-> a.from]
       /\ DOMAIN contract.frames \subseteq DOMAIN interpreted
       /\ a.uses[o].verdict = IF contract.placement # {} /\ a.to \notin DOMAIN contract.frames
                              THEN "INCOMPATIBLE" ELSE "REQUIRES_REVIEW"

AssessmentOK(a) ==
    /\ a.id \in 1..MaxAssessments
    /\ {a.from, a.to} \subseteq IdsOf(prodRevs) /\ a.from # a.to
    /\ RevOf(prodRevs, a.from).object = RevOf(prodRevs, a.to).object
    /\ DOMAIN a.uses # {} /\ DOMAIN a.uses \subseteq Occurrences
    /\ \A o \in DOMAIN a.uses : UseOK(a, o)

UpdateOK(u) ==
    /\ u.accepted = DOMAIN u.after
    /\ \E a \in assessments :
        /\ a.id = u.assessment /\ DOMAIN u.after # {} /\ DOMAIN u.after \subseteq DOMAIN a.uses
        /\ \A o \in DOMAIN u.after : u.after[o].source.id = a.to

UpdateInv ==
    /\ Ided(assessments)
    /\ \A a \in assessments : AssessmentOK(a)
    /\ \A u \in updates : UpdateOK(u)

WorldInv == CompositionInv /\ ClaimsInv /\ StateInv /\ BindingInv /\ UpdateInv

-----------------------------------------------------------------------------
(* Lemmas about rows, revisions and maps.                                  *)

\* The row with the next id is new, and the table stays numbered without a gap.
LEMMA NextId ==
    ASSUME NEW S, Ided(S), NEW x, x.id = 1 + Cardinality(S)
    PROVE  Ided(S \cup {x}) /\ x \notin S /\ Cardinality(S) \in Nat
           /\ \A y \in S : y.id \in Nat /\ y.id < x.id
<1>1. IsFiniteSet(S) /\ Cardinality(S) \in Nat
  BY FS_CardinalityType DEF Ided
<1>2. x \notin S
  BY <1>1 DEF Ided
<1>3. IsFiniteSet(S \cup {x}) /\ Cardinality(S \cup {x}) = Cardinality(S) + 1
  BY <1>1, <1>2, FS_AddElement
<1> QED
  BY <1>1, <1>2, <1>3 DEF Ided

\* The next number of an owner continues the numbers it has.
LEMMA NextIsNumbered ==
    ASSUME NEW S, Numbered(S), NEW x, x.number = NextNumber(S)
    PROVE  Numbered(S \cup {x}) /\ x.number = 1 + Cardinality(S)
           /\ Cardinality(S) \in Nat /\ x \notin S
<1>1. IsFiniteSet(S) /\ Cardinality(S) \in Nat
  BY FS_CardinalityType DEF Numbered
<1>2. PICK n \in Nat : n = Cardinality(S)
  BY <1>1
<1>3. {x_1.number : x_1 \in S} = 1..n
  BY <1>2 DEF Numbered
<1>4. Max({0} \cup 1..n) = n
  <2>1. n \in {0} \cup 1..n /\ \A y \in {0} \cup 1..n : n >= y
    BY <1>2
  <2>2. PICK m : m = Max({0} \cup 1..n)
    OBVIOUS
  <2>3. m \in {0} \cup 1..n /\ \A y \in {0} \cup 1..n : m >= y
    BY <2>1, <2>2 DEF Max
  <2> QED
    BY <2>1, <2>2, <2>3, <1>2
<1>5. x.number = 1 + n
  BY <1>3, <1>4 DEF NextNumber
<1>6. x \notin S
  <2> SUFFICES ASSUME x \in S PROVE FALSE
    OBVIOUS
  <2>1. x.number \in 1..n
    BY <1>3
  <2> QED
    BY <2>1, <1>5, <1>2
<1>7. IsFiniteSet(S \cup {x}) /\ Cardinality(S \cup {x}) = n + 1
  BY <1>1, <1>2, <1>6, FS_AddElement
<1>8. {x_1.number : x_1 \in S \cup {x}} = 1..(n + 1)
  <2>1. {x_1.number : x_1 \in S \cup {x}} = {x_1.number : x_1 \in S} \cup {x.number}
    OBVIOUS
  <2>2. (1..n) \cup {1 + n} = 1..(n + 1)
    BY <1>2
  <2> QED
    BY <2>1, <2>2, <1>3, <1>5
<1> QED
  BY <1>1, <1>2, <1>5, <1>6, <1>7, <1>8 DEF Numbered

\* A row is found by its id.
LEMMA RevOfRow ==
    ASSUME NEW S, Ided(S), NEW x \in S
    PROVE  RevOf(S, x.id) = x
BY DEF RevOf, Ided

\* An id of the table finds a row of the table.
LEMMA RevOfId ==
    ASSUME NEW S, Ided(S), NEW i \in IdsOf(S)
    PROVE  RevOf(S, i) \in S /\ RevOf(S, i).id = i
BY DEF RevOf, Ided, IdsOf

\* A table that grows keeps its rows under their ids.
LEMMA RevOfGrows ==
    ASSUME NEW S, NEW T, Ided(S), Ided(T), S \subseteq T, NEW i \in IdsOf(S)
    PROVE  RevOf(T, i) = RevOf(S, i) /\ i \in IdsOf(T)
<1>1. RevOf(S, i) \in S /\ RevOf(S, i).id = i
  BY RevOfId
<1>2. RevOf(T, RevOf(S, i).id) = RevOf(S, i)
  BY <1>1, RevOfRow
<1> QED
  BY <1>1, <1>2 DEF IdsOf

-----------------------------------------------------------------------------
(* Production revisions.                                                   *)

\* A row of the next number is added for its owner and changes no other owner.
LEMMA OwnerNumbers ==
    ASSUME NEW S, NEW x, Numbered(RowsOf(S, x.object)),
           x.number = NextNumber(RowsOf(S, x.object)),
           \A o \in Objects : Numbered(RowsOf(S, o))
    PROVE  \A o \in Objects : Numbered(RowsOf(S \cup {x}, o))
<1> TAKE o \in Objects
<1>1. CASE o = x.object
  <2>1. RowsOf(S \cup {x}, o) = RowsOf(S, x.object) \cup {x}
    BY <1>1 DEF RowsOf
  <2>2. Numbered(RowsOf(S, x.object) \cup {x})
    BY NextIsNumbered
  <2> QED
    BY <2>1, <2>2
<1>2. CASE o # x.object
  <2>1. RowsOf(S \cup {x}, o) = RowsOf(S, o)
    BY <1>2 DEF RowsOf
  <2> QED
    BY <2>1
<1> QED
  BY <1>1, <1>2

\* The next id of a table is within the bound when the bound was checked, and so
\* is the next number of an owner.
LEMMA NumberWithinId ==
    ASSUME NEW S, Ided(S), NEW T \in SUBSET S, Numbered(T), 1 + Cardinality(S) \in Ids
    PROVE  NextNumber(T) \in Ids
<1>1. IsFiniteSet(S) /\ Cardinality(S) \in Nat /\ Cardinality(T) \in Nat
      /\ Cardinality(T) <= Cardinality(S)
  BY FS_CardinalityType, FS_Subset DEF Ided, Numbered
<1>2. PICK x : x = [number |-> NextNumber(T)]
  OBVIOUS
<1>3. x.number = 1 + Cardinality(T)
  BY <1>2, NextIsNumbered
<1> QED
  BY <1>1, <1>2, <1>3 DEF Ids, CompositionAssumption

\* A new content becomes the next revision, its asset the first link.
LEMMA NewProduction ==
    ASSUME ProductionInv, NEW obj \in Objects, NEW a \in Assets,
           1 + Cardinality(prodRevs) \in Ids,
           ~ \E r \in prodRevs : r.object = obj /\ r.blob = BlobOf[a],
           prodRevs' = prodRevs \cup {[id |-> 1 + Cardinality(prodRevs), object |-> obj,
               number |-> NextNumber(RowsOf(prodRevs, obj)), blob |-> BlobOf[a]]},
           provenance' = provenance \cup {<<1 + Cardinality(prodRevs), a>>},
           projectActive' = projectActive
    PROVE  ProductionInv'
<1>1. PICK revs : revs = RowsOf(prodRevs, obj)
  OBVIOUS
<1>2. PICK x : x = [id |-> 1 + Cardinality(prodRevs), object |-> obj,
                    number |-> NextNumber(revs), blob |-> BlobOf[a]]
  OBVIOUS
<1>3. /\ x.id = 1 + Cardinality(prodRevs) /\ x.object = obj /\ x.blob = BlobOf[a]
      /\ x.number = NextNumber(revs) /\ prodRevs' = prodRevs \cup {x}
      /\ provenance' = provenance \cup {<<x.id, a>>}
  BY <1>1, <1>2
<1>4. Numbered(revs)
  BY <1>1 DEF ProductionInv
<1>5. x \in ProdRev
  <2>1. NextNumber(revs) \in Ids
    BY <1>1, <1>4, NumberWithinId DEF ProductionInv, RowsOf
  <2> QED
    BY <1>2, <2>1 DEF ProdRev
<1>6. Ided(prodRevs') /\ x \notin prodRevs
  <2>1. Ided(prodRevs) /\ x.id = 1 + Cardinality(prodRevs)
    BY <1>3 DEF ProductionInv
  <2>2. Ided(prodRevs \cup {x}) /\ x \notin prodRevs
    BY <2>1, NextId
  <2> QED
    BY <2>2, <1>3
<1>7. \A o \in Objects : Numbered(RowsOf(prodRevs', o))
  <2>1. \A o \in Objects : Numbered(RowsOf(prodRevs, o))
    BY DEF ProductionInv
  <2>2. Numbered(RowsOf(prodRevs, x.object)) /\ x.number = NextNumber(RowsOf(prodRevs, x.object))
    BY <1>1, <1>3, <1>4
  <2> QED
    BY <2>1, <2>2, <1>3, OwnerNumbers
<1>8. \A r, s \in prodRevs' : r.object = s.object /\ r.blob = s.blob => r = s
  BY <1>3 DEF ProductionInv
<1>9. provenance' \subseteq Ids \X Assets
  BY <1>3, <1>5 DEF ProductionInv, ProdRev
<1>10. \A p \in provenance' : \E r \in prodRevs' : r.id = p[1] /\ r.blob = BlobOf[p[2]]
  BY <1>3 DEF ProductionInv
<1>11. \A r \in prodRevs' : \E p \in provenance' : p[1] = r.id
  <2>1. \A r \in prodRevs : \E p \in provenance' : p[1] = r.id
    BY <1>3 DEF ProductionInv
  <2>2. PICK p : p = <<x.id, a>>
    OBVIOUS
  <2>3. p[1] = x.id /\ p \in provenance'
    BY <2>2, <1>3
  <2> QED
    BY <2>1, <2>3, <1>3
<1> QED
  BY <1>3, <1>5, <1>6, <1>7, <1>8, <1>9, <1>10, <1>11 DEF ProductionInv

\* A content that is there is linked to the asset that was asked for.
LEMMA LinkProduction ==
    ASSUME ProductionInv, NEW a \in Assets, NEW w \in prodRevs, w.blob = BlobOf[a],
           prodRevs' = prodRevs, provenance' = provenance \cup {<<w.id, a>>},
           projectActive' = projectActive
    PROVE  ProductionInv'
<1>1. w.id \in Ids
  BY DEF ProductionInv, ProdRev
<1>2. provenance' \subseteq Ids \X Assets
  BY <1>1 DEF ProductionInv
<1>3. \A p \in provenance' : \E r \in prodRevs' : r.id = p[1] /\ r.blob = BlobOf[p[2]]
  BY DEF ProductionInv
<1>4. \A r \in prodRevs' : \E p \in provenance' : p[1] = r.id
  BY DEF ProductionInv
<1> QED
  BY <1>2, <1>3, <1>4 DEF ProductionInv

\* A publication of production content, converging or new.
LEMMA PublishProductionOK ==
    ASSUME CompositionInv, NEW k \in Clients, PublishProduction(k)
    PROVE  ProductionInv' /\ prodRevs \subseteq prodRevs'
<1>1. PICK rq : rq = req[k]
  OBVIOUS
<1>2. rq.object \in Objects /\ rq.asset \in Assets /\ ProductionInv
  BY <1>1 DEF CompositionInv, RequestInv, RequestOK, PublishProduction
<1>3. PICK winner : winner = {r \in {s \in prodRevs : s.object = rq.object} : r.blob = BlobOf[rq.asset]}
  OBVIOUS
<1>4. projectActive' = projectActive
  BY DEF PublishProduction
<1>5. CASE UNCHANGED <<prodRevs, provenance>>
  BY <1>2, <1>4, <1>5 DEF ProductionInv
<1>6. CASE ~ UNCHANGED <<prodRevs, provenance>> /\ winner # {}
  <2>1. PICK w : w = CHOOSE r \in winner : TRUE
    OBVIOUS
  <2>2. w \in winner
    BY <2>1, <1>6
  <2>3. prodRevs' = prodRevs /\ provenance' = provenance \cup {<<w.id, rq.asset>>}
    BY <1>1, <1>3, <1>6, <2>1 DEF PublishProduction
  <2> QED
    BY <1>2, <1>3, <1>4, <2>2, <2>3, LinkProduction
<1>7. CASE ~ UNCHANGED <<prodRevs, provenance>> /\ winner = {}
  <2>1. /\ 1 + Cardinality(prodRevs) \in Ids
        /\ provenance' = provenance \cup {<<1 + Cardinality(prodRevs), rq.asset>>}
        /\ prodRevs' = prodRevs \cup {[id |-> 1 + Cardinality(prodRevs), object |-> rq.object,
               number |-> NextNumber(RowsOf(prodRevs, rq.object)),
               blob |-> BlobOf[rq.asset]]}
    BY <1>1, <1>3, <1>7 DEF PublishProduction, RowsOf
  <2>2. ~ \E r \in prodRevs : r.object = rq.object /\ r.blob = BlobOf[rq.asset]
    BY <1>3, <1>7
  <2> QED
    BY <1>2, <1>4, <2>1, <2>2, NewProduction
<1> QED
  BY <1>5, <1>6, <1>7

-----------------------------------------------------------------------------
(* Lineages.                                                               *)

\* What the verifier demands of operation i of a history h at version v.
OperationOK(h, i, v) ==
    /\ h[i].before < v
    /\ Cardinal(h[i].kind, Cardinality(h[i].sources), Cardinality(h[i].targets))
    /\ \A j \in 1..(i - 1) :
        /\ h[j].before < h[i].before
        /\ h[j].targets \cap h[i].targets = {}
        /\ h[j].kind \in Terminates => h[j].sources \cap h[i].sources = {}
    /\ h[i].sources \subseteq UNION {h[j].targets : j \in 1..(i - 1)}

\* The verifier, operation by operation.
LEMMA HistoryOperations ==
    ASSUME NEW c \in Compositions
    PROVE  VerifyIdentityHistory(c) <=>
              /\ \A i \in 1..Len(history[c]) : OperationOK(history[c], i, version[c])
              /\ DOMAIN working[c] = Born(c) \ Terminated(c)
<1> DEFINE Before(i) == {history[c][j] : j \in 1..(i - 1)}
           Verified(i) ==
               /\ history[c][i].before < version[c]
               /\ Cardinal(history[c][i].kind, Cardinality(history[c][i].sources),
                           Cardinality(history[c][i].targets))
               /\ \A p \in Before(i) :
                   /\ p.before < history[c][i].before
                   /\ p.targets \cap history[c][i].targets = {}
                   /\ p.kind \in Terminates => p.sources \cap history[c][i].sources = {}
               /\ history[c][i].sources \subseteq UNION {p.targets : p \in Before(i)}
<1>1. ASSUME NEW i \in 1..Len(history[c])
      PROVE  Verified(i) <=> OperationOK(history[c], i, version[c])
  <2>1. UNION {p.targets : p \in Before(i)} = UNION {history[c][j].targets : j \in 1..(i - 1)}
    OBVIOUS
  <2>2. (\A p \in Before(i) :
            /\ p.before < history[c][i].before
            /\ p.targets \cap history[c][i].targets = {}
            /\ p.kind \in Terminates => p.sources \cap history[c][i].sources = {})
        <=> (\A j \in 1..(i - 1) :
            /\ history[c][j].before < history[c][i].before
            /\ history[c][j].targets \cap history[c][i].targets = {}
            /\ history[c][j].kind \in Terminates =>
                  history[c][j].sources \cap history[c][i].sources = {})
    OBVIOUS
  <2> QED
    BY <2>1, <2>2 DEF OperationOK
<1>2. VerifyIdentityHistory(c) <=>
          /\ \A i \in 1..Len(history[c]) : Verified(i)
          /\ DOMAIN working[c] = Born(c) \ Terminated(c)
  BY DEF VerifyIdentityHistory
<1> QED
  BY <1>1, <1>2

\* The same after a step.
LEMMA HistoryNext ==
    \A c \in Compositions :
        ((\A i \in 1..Len(history[c]) : OperationOK(history[c], i, version[c]))
         /\ DOMAIN working[c] = Born(c) \ Terminated(c))' => VerifyIdentityHistory(c)'
<1>1. \A c \in Compositions :
        (\A i \in 1..Len(history[c]) : OperationOK(history[c], i, version[c]))
        /\ DOMAIN working[c] = Born(c) \ Terminated(c) => VerifyIdentityHistory(c)
  BY HistoryOperations
<1>2. (\A c \in Compositions :
        (\A i \in 1..Len(history[c]) : OperationOK(history[c], i, version[c]))
        /\ DOMAIN working[c] = Born(c) \ Terminated(c) => VerifyIdentityHistory(c))'
  BY <1>1, PTL
<1> QED
  BY <1>2

\* The identities of one composition, and their operations.
LEMMA LineageFacts ==
    ASSUME LineageInv, NEW c \in Compositions
    PROVE  /\ history[c] \in Seq(Operation) /\ Len(history[c]) \in Nat
           /\ \A i \in 1..Len(history[c]) :
                 history[c][i] \in Operation /\ OperationOK(history[c], i, version[c])
           /\ Ops(c) \subseteq Operation
           /\ Terminated(c) \subseteq Born(c) /\ Born(c) \subseteq Minted
           /\ DOMAIN working[c] = Born(c) \ Terminated(c)
           /\ working[c] \in [DOMAIN working[c] -> Specs] /\ DOMAIN working[c] \subseteq Occurrences
           /\ version[c] \in 0..MaxVersion /\ version[c] \in Nat
           /\ Minted \subseteq Occurrences
<1>1. history[c] \in Seq(Operation) /\ Len(history[c]) \in Nat
      /\ \A i \in 1..Len(history[c]) : history[c][i] \in Operation
  BY LenProperties, ElementOfSeq DEF LineageInv
<1>2. /\ \A i \in 1..Len(history[c]) : OperationOK(history[c], i, version[c])
      /\ DOMAIN working[c] = Born(c) \ Terminated(c)
  BY HistoryOperations DEF LineageInv
<1>3. Ops(c) \subseteq Operation
  BY <1>1 DEF Ops
<1>4. Terminated(c) \subseteq Born(c)
  <2> SUFFICES ASSUME NEW o \in Terminated(c) PROVE o \in Born(c)
    OBVIOUS
  <2>1. PICK i \in 1..Len(history[c]) : o \in history[c][i].sources
    BY DEF Terminated, Ops
  <2>2. PICK j \in 1..(i - 1) : o \in history[c][j].targets
    BY <1>2, <2>1 DEF OperationOK
  <2>3. j \in 1..Len(history[c])
    BY <1>1, <2>1, <2>2
  <2> QED
    BY <2>2, <2>3 DEF Born, Ops
<1>5. Born(c) \subseteq Minted
  BY DEF Minted
<1>6. working[c] \in [DOMAIN working[c] -> Specs] /\ DOMAIN working[c] \subseteq Occurrences
  <2>1. PICK S \in SUBSET Occurrences : working[c] \in [S -> Specs]
    BY DEF LineageInv, Layouts
  <2> QED
    BY <2>1
<1>7. version[c] \in 0..MaxVersion /\ version[c] \in Nat
  BY DEF LineageInv, CompositionAssumption
<1>8. Minted \subseteq Occurrences
  BY DEF LineageInv, Occurrences, CompositionAssumption
<1> QED
  BY <1>1, <1>2, <1>3, <1>4, <1>5, <1>6, <1>7, <1>8

\* The ids a fence mints continue the series.
LEMMA FreshIds ==
    ASSUME NEW n \in 0..MaxOccurrences, Minted = 1..n, NEW m \in Nat
    PROVE  /\ Cardinality(Minted) = n
           /\ Fresh(m) = (n + 1)..(n + m) /\ Cardinality(Fresh(m)) = m
           /\ Fresh(m) \cap Minted = {}
           /\ Minted \cup Fresh(m) = 1..(n + m)
           /\ Fresh(m) \subseteq Occurrences => n + m \in 0..MaxOccurrences
<1>1. n \in Nat /\ MaxOccurrences \in Nat
  BY DEF CompositionAssumption
<1>2. Cardinality(Minted) = n
  BY <1>1, FS_Interval
<1>3. Fresh(m) = (n + 1)..(n + m)
  <2>1. \A x \in (n + 1)..(n + m) : x - n \in 1..m /\ x = n + (x - n)
    BY <1>1
  <2>2. Fresh(m) = {n + i : i \in 1..m}
    BY <1>2 DEF Fresh
  <2>3. \A i \in 1..m : n + i \in (n + 1)..(n + m)
    BY <1>1
  <2> QED
    BY <2>1, <2>2, <2>3, SMTT(30)
<1>4. Cardinality((n + 1)..(n + m)) = m
  BY <1>1, FS_Interval
<1>5. Fresh(m) \subseteq Occurrences => n + m \in 0..MaxOccurrences
  <2>1. CASE m = 0
    BY <2>1, <1>1
  <2>2. CASE m # 0
    <3>1. n + m \in (n + 1)..(n + m)
      BY <2>2, <1>1
    <3> QED
      BY <3>1, <1>1, <1>3 DEF Occurrences
  <2> QED
    BY <2>1, <2>2
<1> QED
  BY <1>1, <1>2, <1>3, <1>4, <1>5

\* An operation is appended to the history of one composition.
LEMMA AppendOperation ==
    ASSUME LineageInv, NEW c \in Compositions, NEW op \in Operation,
           history' = [history EXCEPT ![c] = Append(@, op)]
    PROVE  /\ history' \in [Compositions -> Seq(Operation)]
           /\ \A d \in Compositions \ {c} : /\ history'[d] = history[d] /\ Born(d)' = Born(d)
                                            /\ Terminated(d)' = Terminated(d)
           /\ Len(history'[c]) = Len(history[c]) + 1
           /\ \A i \in 1..Len(history[c]) : history'[c][i] = history[c][i]
           /\ history'[c][Len(history[c]) + 1] = op
           /\ Born(c)' = Born(c) \cup op.targets
           /\ Terminated(c)' = Terminated(c) \cup (IF op.kind \in Terminates THEN op.sources ELSE {})
           /\ Minted' = Minted \cup op.targets
<1>1. history[c] \in Seq(Operation) /\ Len(history[c]) \in Nat
  BY LineageFacts
<1>2. /\ Append(history[c], op) \in Seq(Operation)
      /\ Len(Append(history[c], op)) = Len(history[c]) + 1
      /\ \A i \in 1..Len(history[c]) : Append(history[c], op)[i] = history[c][i]
      /\ Append(history[c], op)[Len(history[c]) + 1] = op
  BY <1>1, AppendProperties
<1>3. history \in [Compositions -> Seq(Operation)]
  BY DEF LineageInv
<1>4. history'[c] = Append(history[c], op) /\ \A d \in Compositions \ {c} : history'[d] = history[d]
  BY <1>3
<1>5. history' \in [Compositions -> Seq(Operation)]
  BY <1>2, <1>3
<1>6. Ops(c)' = Ops(c) \cup {op}
  <2>1. 1..(Len(history[c]) + 1) = (1..Len(history[c])) \cup {Len(history[c]) + 1}
    BY <1>1
  <2> QED
    BY <1>2, <1>4, <2>1 DEF Ops
<1>7. \A d \in Compositions \ {c} : Ops(d)' = Ops(d)
  BY <1>4 DEF Ops
<1>8. \A d \in Compositions \ {c} : Born(d)' = Born(d) /\ Terminated(d)' = Terminated(d)
  BY <1>7 DEF Born, Terminated
<1>9. Born(c)' = Born(c) \cup op.targets
  BY <1>6 DEF Born
<1>10. Terminated(c)' = Terminated(c) \cup (IF op.kind \in Terminates THEN op.sources ELSE {})
  BY <1>6 DEF Terminated
<1>11. Minted' = Minted \cup op.targets
  BY <1>8, <1>9 DEF Minted
<1> QED
  BY <1>2, <1>4, <1>5, <1>8, <1>9, <1>10, <1>11

\* An operation that acts on living identities and mints fresh ones leaves a
\* history the verifier accepts.
LEMMA AppendVerifies ==
    ASSUME NEW S, NEW h \in Seq(S), NEW g \in Seq(S), NEW v \in Nat, NEW w \in Nat, v <= w,
           Len(g) = Len(h) + 1, \A i \in 1..Len(h) : g[i] = h[i],
           \A i \in 1..Len(h) : OperationOK(h, i, v) /\ h[i].before \in Nat,
           g[Len(h) + 1].before = v, v < w,
           Cardinal(g[Len(h) + 1].kind, Cardinality(g[Len(h) + 1].sources),
                    Cardinality(g[Len(h) + 1].targets)),
           \A j \in 1..Len(h) :
              /\ h[j].targets \cap g[Len(h) + 1].targets = {}
              /\ h[j].kind \in Terminates => h[j].sources \cap g[Len(h) + 1].sources = {},
           g[Len(h) + 1].sources \subseteq UNION {h[j].targets : j \in 1..Len(h)}
    PROVE  \A i \in 1..Len(g) : OperationOK(g, i, w)
<1> TAKE i \in 1..Len(g)
<1>0. Len(h) \in Nat
  BY LenProperties
<1>1. CASE i \in 1..Len(h)
  <2>1. \A j \in 1..(i - 1) : j \in 1..Len(h) /\ g[j] = h[j]
    BY <1>0, <1>1
  <2>2. g[i] = h[i] /\ OperationOK(h, i, v) /\ h[i].before \in Nat
    BY <1>1
  <2>3. UNION {g[j].targets : j \in 1..(i - 1)} = UNION {h[j].targets : j \in 1..(i - 1)}
    BY <2>1, SMTT(30)
  <2>4. g[i].before < w
    BY <2>2 DEF OperationOK
  <2> QED
    BY <2>1, <2>2, <2>3, <2>4 DEF OperationOK
<1>2. CASE i = Len(h) + 1
  <2>1. i - 1 = Len(h)
    BY <1>0, <1>2
  <2>2. \A j \in 1..(i - 1) : g[j] = h[j] /\ h[j].before < v
    BY <2>1 DEF OperationOK
  <2>3. UNION {g[j].targets : j \in 1..(i - 1)} = UNION {h[j].targets : j \in 1..(i - 1)}
    BY <2>2
  <2> QED
    BY <1>2, <2>1, <2>2, <2>3 DEF OperationOK
<1> QED
  BY <1>0, <1>1, <1>2

\* How a step of the lineages moves one composition: not at all, or its version
\* rises by one.
Moves(c) ==
    \/ version'[c] = version[c] /\ working'[c] = working[c]
    \/ version'[c] = version[c] + 1

\* What a recorded operation does to the identities and to the working rows.
LEMMA RecordOK ==
    ASSUME LineageInv, NEW c \in Compositions, NEW kind \in Kinds, NEW sources,
           NEW specs \in Seq(Specs), Record(c, kind, sources, specs),
           Cardinal(kind, Cardinality(sources), Len(specs)), sources \subseteq DOMAIN working[c]
    PROVE  /\ LineageInv'
           /\ \A d \in Compositions : Born(d) \subseteq Born(d)' /\ Moves(d)
           /\ \A d \in Compositions \ {c} : Terminated(d)' = Terminated(d)
           /\ Terminated(c)' = Terminated(c) \cup (IF kind \in Terminates THEN sources ELSE {})
           /\ \A d \in Compositions \ {c} : working'[d] = working[d]
           /\ \A o \in DOMAIN working'[c] :
                \/ o \in DOMAIN working[c] /\ working'[c][o] = working[c][o]
                \/ \E i \in 1..Len(specs) : working'[c][o] = specs[i]
           /\ Minted \subseteq Minted'
<1>1. PICK n \in 0..MaxOccurrences : Minted = 1..n
  BY DEF LineageInv
<1>2. Len(specs) \in Nat /\ specs \in [1..Len(specs) -> Specs]
  BY LenProperties
<1>3. PICK fresh : fresh = Fresh(Len(specs))
  OBVIOUS
<1>4. /\ Cardinality(Minted) = n /\ fresh = (n + 1)..(n + Len(specs))
      /\ Cardinality(fresh) = Len(specs) /\ fresh \cap Minted = {}
      /\ Minted \cup fresh = 1..(n + Len(specs))
      /\ fresh \subseteq Occurrences => n + Len(specs) \in 0..MaxOccurrences
  BY <1>1, <1>2, <1>3, FreshIds
<1>5. PICK op : op = [kind |-> kind, before |-> version[c], sources |-> sources, targets |-> fresh]
  OBVIOUS
<1>6. /\ op.kind = kind /\ op.before = version[c] /\ op.sources = sources /\ op.targets = fresh
  BY <1>5
<1>7. /\ fresh \subseteq Occurrences /\ version[c] < MaxVersion
      /\ history' = [history EXCEPT ![c] = Append(@, op)]
      /\ version' = [version EXCEPT ![c] = @ + 1]
  BY <1>3, <1>5 DEF Record
<1>8. PICK kept : kept = IF kind \in Terminates THEN Without(working[c], sources) ELSE working[c]
  OBVIOUS
<1>9. PICK born : born = Assign(specs)
  OBVIOUS
<1>10. working' = [working EXCEPT ![c] = Merge(kept, born)]
  <2>1. working \in [Compositions -> Layouts]
    BY DEF LineageInv
  <2> QED
    BY <2>1, <1>8, <1>9 DEF Record
<1>11. op \in Operation
  <2>1. sources \subseteq Occurrences /\ version[c] \in Nat
    BY LineageFacts
  <2> QED
    BY <2>1, <1>5, <1>7 DEF Operation
<1>12. /\ history' \in [Compositions -> Seq(Operation)]
       /\ \A d \in Compositions \ {c} : /\ history'[d] = history[d] /\ Born(d)' = Born(d)
                                        /\ Terminated(d)' = Terminated(d)
       /\ Len(history'[c]) = Len(history[c]) + 1
       /\ \A i \in 1..Len(history[c]) : history'[c][i] = history[c][i]
       /\ history'[c][Len(history[c]) + 1] = op
       /\ Born(c)' = Born(c) \cup fresh
       /\ Terminated(c)' = Terminated(c) \cup (IF kind \in Terminates THEN sources ELSE {})
       /\ Minted' = Minted \cup fresh
  BY <1>6, <1>7, <1>11, AppendOperation
<1>13. /\ version' \in [Compositions -> 0..MaxVersion] /\ version'[c] = version[c] + 1
       /\ \A d \in Compositions \ {c} : version'[d] = version[d]
  BY <1>7 DEF LineageInv, CompositionAssumption
<1>14. /\ working \in [Compositions -> Layouts] /\ working'[c] = Merge(kept, born)
       /\ \A d \in Compositions \ {c} : working'[d] = working[d]
  BY <1>10 DEF LineageInv
<1>15. /\ DOMAIN kept = DOMAIN working[c] \ (IF kind \in Terminates THEN sources ELSE {})
       /\ \A o \in DOMAIN kept : kept[o] = working[c][o]
  BY <1>8 DEF Without
<1>16. /\ DOMAIN born = fresh
       /\ \A o \in fresh : \E i \in 1..Len(specs) : born[o] = specs[i]
  <2>1. born = [o \in fresh |-> specs[o - n]]
    BY <1>3, <1>4, <1>9 DEF Assign
  <2>2. \A o \in fresh : o - n \in 1..Len(specs)
    BY <1>2, <1>4
  <2> QED
    BY <2>1, <2>2
<1>17. /\ DOMAIN working'[c] = DOMAIN kept \cup fresh
       /\ \A o \in DOMAIN working'[c] : working'[c][o] = IF o \in fresh THEN born[o] ELSE kept[o]
       /\ working'[c] \in [DOMAIN working'[c] -> {working'[c][o] : o \in DOMAIN working'[c]}]
  BY <1>14, <1>16 DEF Merge
<1>18. \A o \in DOMAIN working'[c] :
          \/ o \in DOMAIN working[c] /\ working'[c][o] = working[c][o]
          \/ \E i \in 1..Len(specs) : working'[c][o] = specs[i]
  BY <1>15, <1>16, <1>17
<1>19. working' \in [Compositions -> Layouts]
  <2>1. working[c] \in [DOMAIN working[c] -> Specs] /\ DOMAIN working[c] \subseteq Occurrences
    BY LineageFacts
  <2>2. \A o \in DOMAIN working'[c] : working'[c][o] \in Specs
    BY <1>2, <1>18, <2>1
  <2>3. DOMAIN working'[c] \in SUBSET Occurrences
    BY <2>1, <1>7, <1>15, <1>17
  <2>4. working'[c] \in [DOMAIN working'[c] -> Specs]
    BY <2>2, <1>17
  <2>5. working'[c] \in Layouts
    BY <2>3, <2>4 DEF Layouts
  <2> QED
    BY <2>5, <1>10, <1>14
<1>20. \E m \in 0..MaxOccurrences : Minted' = 1..m
  BY <1>4, <1>7, <1>12
<1>21. \A d, e \in Compositions : d # e => Born(d)' \cap Born(e)' = {}
  <2>1. \A d \in Compositions : Born(d) \cap fresh = {}
    BY <1>4, LineageFacts
  <2> QED
    <3> TAKE d, e \in Compositions
    <3>1. d # e => Born(d) \cap Born(e) = {}
      BY DEF LineageInv
    <3>2. Born(d)' \subseteq Born(d) \cup (IF d = c THEN fresh ELSE {})
      BY <1>12
    <3>3. Born(e)' \subseteq Born(e) \cup (IF e = c THEN fresh ELSE {})
      BY <1>12
    <3> QED
      BY <2>1, <3>1, <3>2, <3>3
<1>22. \A d \in Compositions : VerifyIdentityHistory(d)'
  <2>1. ASSUME NEW d \in Compositions \ {c} PROVE VerifyIdentityHistory(d)'
    <3>1. (\A i \in 1..Len(history[d]) : OperationOK(history[d], i, version[d]))
          /\ DOMAIN working[d] = Born(d) \ Terminated(d)
      BY LineageFacts
    <3>2. ((\A i \in 1..Len(history[d]) : OperationOK(history[d], i, version[d]))
          /\ DOMAIN working[d] = Born(d) \ Terminated(d))' => VerifyIdentityHistory(d)'
      BY HistoryNext
    <3>3. /\ history'[d] = history[d] /\ version'[d] = version[d] /\ working'[d] = working[d]
          /\ Born(d)' = Born(d) /\ Terminated(d)' = Terminated(d)
      BY <1>12, <1>13, <1>14
    <3> QED
      BY <3>1, <3>2, <3>3
  <2>2. DOMAIN working'[c] = Born(c)' \ Terminated(c)'
    <3>1. Terminated(c) \subseteq Born(c) /\ Born(c) \cap fresh = {}
          /\ DOMAIN working[c] = Born(c) \ Terminated(c)
      BY <1>4, LineageFacts
    <3> QED
      BY <3>1, <1>12, <1>15, <1>17
  <2>3. \A i \in 1..Len(history'[c]) : OperationOK(history'[c], i, version'[c])
    <3>1. PICK h : h = history[c]
      OBVIOUS
    <3>2. PICK g : g = history'[c]
      OBVIOUS
    <3>3. /\ h \in Seq(Operation) /\ g \in Seq(Operation) /\ Len(g) = Len(h) + 1
          /\ \A i \in 1..Len(h) : g[i] = h[i]
          /\ g[Len(h) + 1] = op
      BY <3>1, <3>2, <1>12, LineageFacts
    <3>4. \A i \in 1..Len(h) : OperationOK(h, i, version[c]) /\ h[i].before \in Nat
      BY <3>1, LineageFacts DEF Operation
    <3>5. \A j \in 1..Len(h) : h[j].targets \cap fresh = {}
                               /\ (h[j].kind \in Terminates => h[j].sources \cap sources = {})
      <4>1. Born(c) \cap fresh = {} /\ DOMAIN working[c] = Born(c) \ Terminated(c)
        BY <1>4, LineageFacts
      <4>2. sources \cap Terminated(c) = {}
        BY <4>1
      <4>3. \A j \in 1..Len(h) : h[j] \in Ops(c)
        BY <3>1 DEF Ops
      <4> QED
        BY <4>1, <4>2, <4>3 DEF Born, Terminated
    <3>6. sources \subseteq UNION {h[j].targets : j \in 1..Len(h)}
      <4>1. sources \subseteq Born(c)
        BY LineageFacts
      <4> QED
        BY <4>1, <3>1 DEF Born, Ops
    <3>7. version[c] \in Nat /\ version'[c] \in Nat /\ version[c] < version'[c]
      BY <1>13, LineageFacts
    <3>8. PICK v \in Nat : v = version[c]
      BY <3>7
    <3>9. PICK w \in Nat : w = version'[c]
      BY <3>7
    <3>10. \A i \in 1..Len(g) : OperationOK(g, i, w)
      <4>1. /\ Cardinal(g[Len(h) + 1].kind, Cardinality(g[Len(h) + 1].sources),
                        Cardinality(g[Len(h) + 1].targets))
            /\ g[Len(h) + 1].before = v
        BY <1>4, <1>6, <3>3, <3>8
      <4>2. \A j \in 1..Len(h) :
              /\ h[j].targets \cap g[Len(h) + 1].targets = {}
              /\ h[j].kind \in Terminates => h[j].sources \cap g[Len(h) + 1].sources = {}
        BY <1>6, <3>3, <3>5
      <4>3. g[Len(h) + 1].sources \subseteq UNION {h[j].targets : j \in 1..Len(h)}
        BY <1>6, <3>3, <3>6
      <4>4. v <= w /\ v < w /\ \A i \in 1..Len(h) : OperationOK(h, i, v) /\ h[i].before \in Nat
        BY <3>4, <3>7, <3>8, <3>9
      <4> QED
        BY <4>1, <4>2, <4>3, <4>4, <3>3, AppendVerifies
    <3> QED
      BY <3>2, <3>9, <3>10
  <2>4. VerifyIdentityHistory(c)'
    <3>1. ((\A i \in 1..Len(history[c]) : OperationOK(history[c], i, version[c]))
          /\ DOMAIN working[c] = Born(c) \ Terminated(c))' => VerifyIdentityHistory(c)'
      BY HistoryNext
    <3> QED
      BY <3>1, <2>2, <2>3
  <2> QED
    BY <2>1, <2>4
<1>23. LineageInv'
  BY <1>12, <1>13, <1>19, <1>20, <1>21, <1>22 DEF LineageInv
<1>24. \A d \in Compositions : Born(d) \subseteq Born(d)' /\ Moves(d)
  BY <1>12, <1>13, <1>14 DEF Moves
<1> QED
  BY <1>12, <1>14, <1>18, <1>23, <1>24

\* The working rows change in place, and the version of each composition whose
\* rows change rises.
LEMMA RewriteOK ==
    ASSUME LineageInv, history' = history, version' \in [Compositions -> 0..MaxVersion],
           working' \in [Compositions -> Layouts],
           \A c \in Compositions : DOMAIN working'[c] = DOMAIN working[c] /\ Moves(c)
    PROVE  /\ LineageInv' /\ Minted' = Minted
           /\ \A c \in Compositions : Born(c)' = Born(c) /\ Terminated(c)' = Terminated(c)
<1>1. \A c \in Compositions : Ops(c)' = Ops(c)
  BY DEF Ops
<1>2. \A c \in Compositions : Born(c)' = Born(c) /\ Terminated(c)' = Terminated(c)
  BY <1>1 DEF Born, Terminated
<1>3. Minted' = Minted
  BY <1>2 DEF Minted
<1>4. \A c \in Compositions : VerifyIdentityHistory(c)'
  <2> TAKE c \in Compositions
  <2>1. /\ Len(history[c]) \in Nat /\ version[c] \in Nat
        /\ \A i \in 1..Len(history[c]) :
              history[c][i] \in Operation /\ OperationOK(history[c], i, version[c])
        /\ DOMAIN working[c] = Born(c) \ Terminated(c)
    BY LineageFacts
  <2>2. version'[c] = version[c] \/ version'[c] = version[c] + 1
    BY DEF Moves
  <2>3. \A i \in 1..Len(history[c]) : OperationOK(history[c], i, version'[c])
    BY <2>1, <2>2 DEF OperationOK, Operation
  <2>4. DOMAIN working'[c] = Born(c)' \ Terminated(c)'
    BY <2>1, <1>2
  <2>5. history'[c] = history[c]
    OBVIOUS
  <2> QED
    BY <2>3, <2>4, <2>5, HistoryNext
<1>5. history' \in [Compositions -> Seq(Operation)]
  BY DEF LineageInv
<1>6. \E n \in 0..MaxOccurrences : Minted' = 1..n
  BY <1>3 DEF LineageInv
<1>7. \A c, d \in Compositions : c # d => Born(c)' \cap Born(d)' = {}
  BY <1>2 DEF LineageInv
<1> QED
  BY <1>2, <1>3, <1>4, <1>5, <1>6, <1>7 DEF LineageInv

\* What a step that leaves the lineages alone keeps.
LEMMA LineageFrame ==
    ASSUME LineageInv, UNCHANGED <<version, working, history>>
    PROVE  /\ LineageInv' /\ Minted' = Minted
           /\ \A c \in Compositions : /\ Born(c)' = Born(c) /\ Terminated(c)' = Terminated(c)
                                      /\ Moves(c)
<1>1. \A c \in Compositions : DOMAIN working'[c] = DOMAIN working[c] /\ Moves(c)
  BY DEF Moves
<1>2. version' \in [Compositions -> 0..MaxVersion] /\ working' \in [Compositions -> Layouts]
  BY DEF LineageInv
<1> QED
  BY <1>1, <1>2, RewriteOK

\* An occurrence is at home in the composition it was born in.
LEMMA HomeOf ==
    ASSUME LineageInv, NEW c \in Compositions, NEW o \in Born(c)
    PROVE  Home(o) = c
<1>1. \A d \in Compositions : o \in Born(d) => d = c
  BY DEF LineageInv
<1> QED
  BY <1>1 DEF Home

\* A living occurrence is a working row of its home, and every working row lives.
LEMMA LivingRows ==
    ASSUME LineageInv
    PROVE  /\ \A o : Living(o) => /\ Home(o) \in Compositions /\ o \in DOMAIN working[Home(o)]
                                  /\ o \in Born(Home(o)) /\ o \notin Terminated(Home(o))
                                  /\ \A c \in Compositions : o \notin Terminated(c)
           /\ \A c \in Compositions : \A o \in DOMAIN working[c] :
                 Living(o) /\ Home(o) = c /\ WorkingRow(o) = working[c][o]
<1>1. ASSUME NEW o, Living(o)
      PROVE  /\ Home(o) \in Compositions /\ o \in DOMAIN working[Home(o)]
             /\ o \in Born(Home(o)) /\ o \notin Terminated(Home(o))
             /\ \A c \in Compositions : o \notin Terminated(c)
  <2>1. PICK c \in Compositions : o \in Born(c)
    BY <1>1 DEF Living, Minted
  <2>2. Home(o) = c
    BY <2>1, HomeOf
  <2>3. \A d \in Compositions : o \in Terminated(d) => d = c
    <3> SUFFICES ASSUME NEW d \in Compositions, o \in Terminated(d) PROVE d = c
      OBVIOUS
    <3>1. o \in Born(d)
      BY LineageFacts
    <3> QED
      BY <2>1, <3>1 DEF LineageInv
  <2> QED
    BY <1>1, <2>1, <2>2, <2>3 DEF Living
<1>2. ASSUME NEW c \in Compositions, NEW o \in DOMAIN working[c]
      PROVE  Living(o) /\ Home(o) = c /\ WorkingRow(o) = working[c][o]
  <2>1. o \in Born(c) /\ o \notin Terminated(c) /\ o \in Minted
    BY LineageFacts
  <2>2. Home(o) = c
    BY <2>1, HomeOf
  <2> QED
    BY <2>1, <2>2 DEF Living, WorkingRow
<1> QED
  BY <1>1, <1>2

\* A patch rewrites one row of one composition.
LEMMA PatchLineage ==
    ASSUME CompositionInv, NEW k \in Clients, PatchOccurrence(k)
    PROVE  /\ LineageInv' /\ Minted' = Minted
           /\ \A c \in Compositions : /\ Born(c)' = Born(c) /\ Terminated(c)' = Terminated(c)
                                      /\ Moves(c)
           /\ \A c \in Compositions : \A o \in DOMAIN working'[c] :
                /\ o \in DOMAIN working[c]
                /\ working'[c][o] = working[c][o] \/ (c = req[k].comp /\ working'[c][o] = req[k].spec)
<1>1. PICK rq : rq = req[k]
  OBVIOUS
<1>2. rq.comp \in Compositions /\ rq.spec \in Specs /\ LineageInv
  BY <1>1 DEF CompositionInv, RequestInv, RequestOK, PatchOccurrence, WorkingSpec
<1>3. CASE UNCHANGED <<version, working>>
  <2>1. UNCHANGED <<version, working, history>>
    BY <1>3 DEF PatchOccurrence
  <2> QED
    BY <1>2, <2>1, LineageFrame
<1>4. CASE ~ UNCHANGED <<version, working>>
  <2>1. /\ rq.occ \in DOMAIN working[rq.comp] /\ version[rq.comp] < MaxVersion
        /\ working' = [working EXCEPT ![rq.comp][rq.occ] = rq.spec]
        /\ version' = [version EXCEPT ![rq.comp] = @ + 1] /\ history' = history
    BY <1>1, <1>4 DEF PatchOccurrence
  <2>2. working \in [Compositions -> Layouts] /\ version \in [Compositions -> 0..MaxVersion]
        /\ version[rq.comp] \in Nat /\ MaxVersion \in Nat
    BY <1>2, LineageFacts DEF LineageInv, CompositionAssumption
  <2>3. /\ working'[rq.comp] = [working[rq.comp] EXCEPT ![rq.occ] = rq.spec]
        /\ \A c \in Compositions \ {rq.comp} : working'[c] = working[c]
    BY <1>2, <2>1, <2>2
  <2>4. /\ working[rq.comp] \in [DOMAIN working[rq.comp] -> Specs]
        /\ DOMAIN working[rq.comp] \in SUBSET Occurrences
    BY <1>2, LineageFacts
  <2>5. /\ working'[rq.comp] \in [DOMAIN working[rq.comp] -> Specs]
        /\ \A o \in DOMAIN working[rq.comp] :
              working'[rq.comp][o] = working[rq.comp][o] \/ working'[rq.comp][o] = rq.spec
    BY <1>2, <2>3, <2>4
  <2>6. working' \in [Compositions -> Layouts]
    <3>1. working'[rq.comp] \in Layouts
      BY <2>4, <2>5 DEF Layouts
    <3> QED
      BY <3>1, <2>1, <2>2, <2>3
  <2>7. version' \in [Compositions -> 0..MaxVersion]
    BY <1>2, <2>1, <2>2
  <2>8. \A c \in Compositions : DOMAIN working'[c] = DOMAIN working[c] /\ Moves(c)
    BY <1>2, <2>1, <2>2, <2>3, <2>5 DEF Moves
  <2>9. LineageInv' /\ Minted' = Minted
        /\ \A c \in Compositions : Born(c)' = Born(c) /\ Terminated(c)' = Terminated(c)
    BY <1>2, <2>1, <2>6, <2>7, <2>8, RewriteOK
  <2> QED
    BY <1>1, <2>3, <2>5, <2>8, <2>9
<1> QED
  BY <1>3, <1>4

\* The rows of an update are put on the target revision, which exists.
LEMMA UpdateLineage ==
    ASSUME CompositionInv, UpdateInv, NEW a \in assessments, NEW sel, NEW accepted,
           ApplyUpdate(a, sel, accepted)
    PROVE  /\ LineageInv' /\ Minted' = Minted
           /\ \A c \in Compositions : /\ Born(c)' = Born(c) /\ Terminated(c)' = Terminated(c)
                                      /\ Moves(c)
           /\ \A c \in Compositions : \A o \in DOMAIN working'[c] :
                /\ o \in DOMAIN working[c]
                /\ \/ working'[c][o] = working[c][o]
                   \/ working'[c][o].source = [kind |-> "production", id |-> a.to]
           /\ a.to \in IdsOf(prodRevs)
<1>1. LineageInv /\ a.to \in IdsOf(prodRevs) /\ a.to \in Ids
  BY DEF CompositionInv, ProductionInv, UpdateInv, AssessmentOK, IdsOf, ProdRev
<1>2. /\ \A o \in sel : Living(o) /\ WorkingRow(o).source = [kind |-> "production", id |-> a.from]
      /\ \A o \in sel : version[Home(o)] < MaxVersion
      /\ working' = [c \in Compositions |-> [o \in DOMAIN working[c] |->
           IF o \in sel THEN AfterSpec(o, a.to) ELSE working[c][o]]]
      /\ version' = [c \in Compositions |->
           IF c \in {Home(o) : o \in sel} THEN version[c] + 1 ELSE version[c]]
      /\ history' = history
  BY DEF ApplyUpdate, MayApply
<1>3. ASSUME NEW c \in Compositions, NEW o \in DOMAIN working[c], o \in sel
      PROVE  /\ AfterSpec(o, a.to) \in Specs
             /\ AfterSpec(o, a.to).source = [kind |-> "production", id |-> a.to]
             /\ Home(o) = c
  <2>1. Living(o) /\ Home(o) = c /\ WorkingRow(o) = working[c][o]
    BY <1>1, LivingRows
  <2>2. working[c][o] \in Specs
    BY <1>1, LineageFacts
  <2>3. PICK s : s = working[c][o]
    OBVIOUS
  <2>4. s \in Specs /\ s.source = [kind |-> "production", id |-> a.from]
        /\ AfterSpec(o, a.to) = [s EXCEPT !.source.id = a.to]
    BY <1>2, <1>3, <2>1, <2>2, <2>3 DEF AfterSpec
  <2>5. [s EXCEPT !.source.id = a.to] =
            [source |-> [kind |-> "production", id |-> a.to], transform |-> s.transform]
    BY <2>4 DEF Specs, Sources
  <2>6. s.transform \in Transforms
    BY <2>4 DEF Specs
  <2> QED
    BY <1>1, <2>1, <2>4, <2>5, <2>6 DEF Specs, Sources
<1>4. ASSUME NEW c \in Compositions
      PROVE  /\ working'[c] \in Layouts /\ DOMAIN working'[c] = DOMAIN working[c]
             /\ \A o \in DOMAIN working[c] :
                   \/ working'[c][o] = working[c][o]
                   \/ o \in sel /\ working'[c][o].source = [kind |-> "production", id |-> a.to]
  <2>1. working'[c] = [o \in DOMAIN working[c] |->
                          IF o \in sel THEN AfterSpec(o, a.to) ELSE working[c][o]]
    BY <1>2
  <2>2. working[c] \in [DOMAIN working[c] -> Specs] /\ DOMAIN working[c] \in SUBSET Occurrences
    BY <1>1, LineageFacts
  <2>3. working'[c] \in [DOMAIN working[c] -> Specs]
    BY <2>1, <2>2, <1>3
  <2> QED
    BY <2>1, <2>2, <2>3, <1>3 DEF Layouts
<1>5. ASSUME NEW c \in Compositions PROVE Moves(c)
  <2>1. CASE c \in {Home(o) : o \in sel}
    BY <2>1, <1>2 DEF Moves
  <2>2. CASE c \notin {Home(o) : o \in sel}
    <3>1. version'[c] = version[c]
      BY <2>2, <1>2
    <3>2. \A o \in DOMAIN working[c] : o \notin sel
      BY <2>2, <1>3
    <3>3. working[c] \in [DOMAIN working[c] -> Specs]
      BY <1>1, LineageFacts
    <3>4. working'[c] = [o \in DOMAIN working[c] |-> working[c][o]]
      BY <3>2, <1>2
    <3> QED
      BY <3>1, <3>3, <3>4 DEF Moves
  <2> QED
    BY <2>1, <2>2
<1>6. working' \in [Compositions -> Layouts]
  BY <1>2, <1>4
<1>7. version' \in [Compositions -> 0..MaxVersion]
  <2>1. \A c \in Compositions : version[c] \in 0..MaxVersion
    BY <1>1, LineageFacts
  <2> QED
    BY <2>1, <1>2 DEF CompositionAssumption
<1>8. LineageInv' /\ Minted' = Minted
      /\ \A c \in Compositions : Born(c)' = Born(c) /\ Terminated(c)' = Terminated(c)
  BY <1>1, <1>2, <1>4, <1>5, <1>6, <1>7, RewriteOK
<1> QED
  BY <1>1, <1>4, <1>5, <1>8

-----------------------------------------------------------------------------
(* Composition revisions and their closures.                               *)

\* The revisions stored so far.
RevsGrow == prodRevs \subseteq prodRevs' /\ compRevs \subseteq compRevs' /\ Ided(compRevs')

\* A stored revision, by its id.
LEMMA RevisionFacts ==
    ASSUME RevisionInv, NEW n \in IdsOf(compRevs)
    PROVE  /\ RevOf(compRevs, n) \in compRevs /\ RevOf(compRevs, n).id = n /\ n \in Ids
           /\ RevOf(compRevs, n).nested \subseteq IdsOf(compRevs)
           /\ RevOf(compRevs, n).prod \subseteq Ids
           /\ RevOf(compRevs, n).prod = DirectProd(RevOf(compRevs, n).entries) \cup
                 UNION {DirectProd(RevOf(compRevs, m).entries) : m \in RevOf(compRevs, n).nested}
<1>1. PICK r : r = RevOf(compRevs, n)
  OBVIOUS
<1>2. r \in compRevs /\ r.id = n /\ Ided(compRevs)
  BY <1>1, RevOfId DEF RevisionInv
<1>3. ClosureOK(r.comp, r.entries, Closure(r)) /\ r \in CompRev
  BY <1>2 DEF RevisionInv
<1>4. n \in Ids /\ r.nested \subseteq IdsOf(compRevs) /\ r.prod \subseteq Ids
  BY <1>2, <1>3 DEF CompRev, ClosureOK, Closure
<1>5. r.prod = DirectProd(r.entries) \cup
                 UNION {DirectProd(RevOf(compRevs, m).entries) : m \in r.nested}
  BY <1>3 DEF ClosureOK, Closure
<1> QED
  BY <1>1, <1>2, <1>4, <1>5

\* A source that validated validates forever.
LEMMA ValidGrows ==
    ASSUME RevisionInv, RevsGrow, NEW c, NEW s, ValidateSource(c, s)
    PROVE  ValidateSource(c, s)'
<1>1. CASE s.kind = "production"
  BY <1>1 DEF ValidateSource, RevsGrow
<1>2. CASE s.kind # "production"
  <2>1. PICK r \in compRevs : /\ r.id = s.id /\ r.comp # c
                              /\ \A n \in r.nested : RevOf(compRevs, n).comp # c
    BY <1>2 DEF ValidateSource
  <2>2. r.nested \subseteq IdsOf(compRevs)
    BY DEF RevisionInv, ClosureOK, Closure
  <2>3. \A n \in r.nested : RevOf(compRevs', n) = RevOf(compRevs, n)
    BY <2>2, RevOfGrows DEF RevisionInv, RevsGrow
  <2>4. \A n \in r.nested : RevOf(compRevs', n).comp # c
    BY <2>1, <2>3
  <2> QED
    BY <1>2, <2>1, <2>4 DEF ValidateSource, RevsGrow
<1> QED
  BY <1>1, <1>2

\* A closure that is right stays right.
LEMMA ClosureGrows ==
    ASSUME RevisionInv, RevsGrow, NEW c, NEW e, NEW d, ClosureOK(c, e, d)
    PROVE  ClosureOK(c, e, d)'
<1>1. \A n \in IdsOf(compRevs) : RevOf(compRevs', n) = RevOf(compRevs, n) /\ n \in IdsOf(compRevs')
  BY RevOfGrows DEF RevisionInv, RevsGrow
<1>2. DirectNested(e) \subseteq IdsOf(compRevs) /\ d.nested \subseteq IdsOf(compRevs)
  BY DEF ClosureOK
<1>3. d = DeriveDependencies(e)'
  <2>1. UNION {RevOf(compRevs', n).prod : n \in DirectNested(e)}
            = UNION {RevOf(compRevs, n).prod : n \in DirectNested(e)}
    BY <1>1, <1>2
  <2>2. UNION {RevOf(compRevs', n).nested : n \in DirectNested(e)}
            = UNION {RevOf(compRevs, n).nested : n \in DirectNested(e)}
    BY <1>1, <1>2
  <2> QED
    BY <2>1, <2>2 DEF DeriveDependencies, ClosureOK
<1>4. UNION {DirectProd(RevOf(compRevs', n).entries) : n \in d.nested}
        = UNION {DirectProd(RevOf(compRevs, n).entries) : n \in d.nested}
  BY <1>1, <1>2
<1>5. \A n \in d.nested : RevOf(compRevs', n).comp # c
  BY <1>1, <1>2 DEF ClosureOK
<1> QED
  BY <1>1, <1>2, <1>3, <1>4, <1>5 DEF ClosureOK

\* A layout whose sources all validate has the closure that is derived for it.
LEMMA ClosureDerived ==
    ASSUME RevisionInv, NEW c, NEW e \in Layouts,
           \A o \in DOMAIN e : ValidateSource(c, e[o].source)
    PROVE  ClosureOK(c, e, DeriveDependencies(e))
<1>1. PICK direct : direct = DirectNested(e)
  OBVIOUS
<1>2. PICK d : d = DeriveDependencies(e)
  OBVIOUS
<1>3. /\ d.prod = DirectProd(e) \cup UNION {RevOf(compRevs, n).prod : n \in direct}
      /\ d.nested = direct \cup UNION {RevOf(compRevs, n).nested : n \in direct}
  BY <1>1, <1>2 DEF DeriveDependencies
<1>4. \A o \in DOMAIN e : e[o].source \in Sources
  BY DEF Layouts, Specs
<1>5. ASSUME NEW n \in direct
      PROVE  /\ n \in IdsOf(compRevs) /\ RevOf(compRevs, n).comp # c
             /\ \A m \in RevOf(compRevs, n).nested : RevOf(compRevs, m).comp # c
  <2>1. PICK o \in DOMAIN e : e[o].source.kind = "composition" /\ e[o].source.id = n
    BY <1>1 DEF DirectNested
  <2>2. PICK r \in compRevs : /\ r.id = n /\ r.comp # c
                              /\ \A m \in r.nested : RevOf(compRevs, m).comp # c
    BY <2>1 DEF ValidateSource
  <2>3. RevOf(compRevs, n) = r
    BY <2>2, RevOfRow DEF RevisionInv
  <2> QED
    BY <2>2, <2>3 DEF IdsOf
<1>6. DirectProd(e) \subseteq Ids
  BY <1>4 DEF DirectProd, Sources
<1>7. d.nested \subseteq IdsOf(compRevs) /\ d.prod \subseteq Ids
  BY <1>3, <1>5, <1>6, RevisionFacts
<1>8. \A n \in d.nested : RevOf(compRevs, n).comp # c
  BY <1>3, <1>5
<1>9. d.prod = DirectProd(e) \cup UNION {DirectProd(RevOf(compRevs, n).entries) : n \in d.nested}
  <2>1. \A n \in direct : RevOf(compRevs, n).prod = DirectProd(RevOf(compRevs, n).entries) \cup
            UNION {DirectProd(RevOf(compRevs, m).entries) : m \in RevOf(compRevs, n).nested}
    BY <1>5, RevisionFacts
  <2>2. ASSUME NEW x \in d.prod
        PROVE  x \in DirectProd(e) \cup
                     UNION {DirectProd(RevOf(compRevs, n).entries) : n \in d.nested}
    BY <1>3, <2>1
  <2>3. ASSUME NEW n \in d.nested, NEW x \in DirectProd(RevOf(compRevs, n).entries)
        PROVE  x \in d.prod
    <3>1. CASE n \in direct
      BY <3>1, <2>1, <1>3
    <3>2. CASE n \notin direct
      <4>1. PICK m \in direct : n \in RevOf(compRevs, m).nested
        BY <3>2, <1>3
      <4>2. x \in RevOf(compRevs, m).prod
        BY <4>1, <2>1
      <4> QED
        BY <4>1, <4>2, <1>3
    <3> QED
      BY <3>1, <3>2
  <2> QED
    BY <2>2, <2>3, <1>3
<1> QED
  BY <1>1, <1>2, <1>5, <1>7, <1>8, <1>9 DEF ClosureOK

\* The revisions stay what they are while the production side and the lineages
\* grow.
LEMMA RevisionFrame ==
    ASSUME RevisionInv, compRevs' = compRevs, prodRevs \subseteq prodRevs',
           \A c \in Compositions : Born(c) \subseteq Born(c)'
    PROVE  RevisionInv' /\ RevsGrow
<1>1. RevsGrow
  BY DEF RevsGrow, RevisionInv
<1>2. \A c \in Compositions : RevsOf(c)' = RevsOf(c)
  BY DEF RevsOf
<1>3. \A r \in compRevs : /\ DOMAIN r.entries \subseteq Born(r.comp)'
                          /\ ClosureOK(r.comp, r.entries, Closure(r))'
                          /\ \A n \in r.nested : n < r.id
  <2> TAKE r \in compRevs
  <2>1. r.comp \in Compositions
    BY DEF RevisionInv, CompRev
  <2>2. ClosureOK(r.comp, r.entries, Closure(r))
    BY DEF RevisionInv
  <2>3. ClosureOK(r.comp, r.entries, Closure(r))'
    BY <1>1, <2>2, ClosureGrows
  <2> QED
    BY <2>1, <2>3 DEF RevisionInv
<1> QED
  BY <1>1, <1>2, <1>3 DEF RevisionInv

\* A new revision: the next id, the next number of its composition, a content it
\* has no revision of, and a closure of what was stored before.
LEMMA NewRevision ==
    ASSUME RevisionInv, prodRevs' = prodRevs, NEW x,
           x \notin compRevs, x.id = 1 + Cardinality(compRevs), x.id \in Ids, x.comp \in Compositions,
           x.number = NextNumber(RevsOf(x.comp)), x.entries \in Layouts,
           x = [id |-> x.id, comp |-> x.comp, number |-> x.number, entries |-> x.entries,
                prod |-> x.prod, nested |-> x.nested],
           ClosureOK(x.comp, x.entries, Closure(x)), DOMAIN x.entries \subseteq Born(x.comp),
           ~ \E r \in RevsOf(x.comp) : r.entries = x.entries,
           compRevs' = compRevs \cup {x}, \A c \in Compositions : Born(c)' = Born(c)
    PROVE  RevisionInv' /\ RevsGrow
<1>1. Ided(compRevs) /\ compRevs \subseteq CompRev
  BY DEF RevisionInv
<1>2. Ided(compRevs \cup {x}) /\ \A r \in compRevs : r.id \in Nat /\ r.id < x.id
  BY <1>1, NextId
<1>3. RevsGrow
  BY <1>2 DEF RevsGrow
<1>4. Numbered(RevsOf(x.comp)) /\ RevsOf(x.comp) \subseteq compRevs
  BY DEF RevisionInv, RevsOf
<1>5. x \in CompRev
  <2>1. x.number \in Ids
    BY <1>1, <1>4, NumberWithinId
  <2>2. x.prod \subseteq Ids
    BY DEF ClosureOK, Closure
  <2>3. x.nested \subseteq Ids
    BY <1>1 DEF ClosureOK, Closure, IdsOf, CompRev
  <2> QED
    BY <2>1, <2>2, <2>3 DEF CompRev, Layouts
<1>6. \A c \in Compositions : Numbered(RevsOf(c)')
  <2> TAKE c \in Compositions
  <2>1. CASE c = x.comp
    <3>1. RevsOf(c)' = RevsOf(c) \cup {x}
      BY <2>1 DEF RevsOf
    <3>2. Numbered(RevsOf(c)) /\ x.number = NextNumber(RevsOf(c))
      BY <2>1, <1>4
    <3>3. Numbered(RevsOf(c) \cup {x})
      BY <3>2, NextIsNumbered
    <3> QED
      BY <3>1, <3>3
  <2>2. CASE c # x.comp
    <3>1. RevsOf(c)' = RevsOf(c)
      BY <2>2 DEF RevsOf
    <3> QED
      BY <3>1 DEF RevisionInv
  <2> QED
    BY <2>1, <2>2
<1>7. \A r, s \in compRevs' : r.comp = s.comp /\ r.entries = s.entries => r = s
  BY DEF RevisionInv, RevsOf
<1>8. \A r \in compRevs' : /\ DOMAIN r.entries \subseteq Born(r.comp)'
                           /\ ClosureOK(r.comp, r.entries, Closure(r))'
                           /\ \A n \in r.nested : n < r.id
  <2> TAKE r \in compRevs'
  <2>1. ClosureOK(r.comp, r.entries, Closure(r)) /\ r.comp \in Compositions
        /\ DOMAIN r.entries \subseteq Born(r.comp)
    BY <1>1 DEF RevisionInv, CompRev
  <2>2. ClosureOK(r.comp, r.entries, Closure(r))'
    BY <1>3, <2>1, ClosureGrows
  <2>3. \A n \in r.nested : n < r.id
    <3>1. CASE r \in compRevs
      BY <3>1 DEF RevisionInv
    <3>2. CASE r = x
      BY <3>2, <1>2, <2>1 DEF ClosureOK, Closure, IdsOf
    <3> QED
      BY <3>1, <3>2
  <2> QED
    BY <2>1, <2>2, <2>3
<1> QED
  BY <1>1, <1>2, <1>3, <1>5, <1>6, <1>7, <1>8 DEF RevisionInv

\* The fence of a publication: what it stores is the working layout of the moment.
LEMMA PublishCompositionOK ==
    ASSUME CompositionInv, NEW k \in Clients, PublishComposition(k)
    PROVE  /\ RevisionInv' /\ RevsGrow
           /\ \A r \in compRevs' \ compRevs : r.entries = working[r.comp] /\ projectActive
<1>1. PICK rq : rq = req[k]
  OBVIOUS
<1>2. PublishOK(rq) /\ RevisionInv /\ LineageInv
  BY <1>1 DEF CompositionInv, RequestInv, RequestOK, PublishComposition
<1>3. UNCHANGED <<projectActive, prodRevs, provenance, version, working, history>>
  BY DEF PublishComposition
<1>4. \A c \in Compositions : Born(c)' = Born(c)
  BY <1>2, <1>3, LineageFrame
<1>5. CASE compRevs' = compRevs
  <2>1. RevisionInv' /\ RevsGrow
    BY <1>2, <1>3, <1>4, <1>5, RevisionFrame
  <2> QED
    BY <2>1, <1>5
<1>6. CASE compRevs' # compRevs
  <2>1. PICK x : x = [id |-> 1 + Cardinality(compRevs), comp |-> rq.comp,
                      number |-> NextNumber(RevsOf(rq.comp)), entries |-> rq.entries,
                      prod |-> rq.deps.prod, nested |-> rq.deps.nested]
    OBVIOUS
  <2>2. /\ x.id = 1 + Cardinality(compRevs) /\ x.comp = rq.comp
        /\ x.number = NextNumber(RevsOf(rq.comp)) /\ x.entries = rq.entries
        /\ x.prod = rq.deps.prod /\ x.nested = rq.deps.nested
        /\ x = [id |-> x.id, comp |-> x.comp, number |-> x.number, entries |-> x.entries,
                prod |-> x.prod, nested |-> x.nested]
    BY <2>1
  <2>3. /\ FenceHolds(rq) /\ x.id \in Ids /\ compRevs' = compRevs \cup {x}
        /\ {r \in RevsOf(rq.comp) : r.entries = rq.entries
                       /\ r.prod = rq.deps.prod /\ r.nested = rq.deps.nested} = {}
    BY <1>1, <1>6, <2>1, <2>2 DEF PublishComposition
  <2>4. Closure(x) = rq.deps
    BY <1>2, <2>2 DEF Closure, PublishOK, ClosureOK, DeriveDependencies
  <2>5. ~ \E r \in RevsOf(x.comp) : r.entries = x.entries
    <3> SUFFICES ASSUME NEW r \in RevsOf(rq.comp), r.entries = rq.entries PROVE FALSE
      BY <2>2
    <3>1. Closure(r) = DeriveDependencies(rq.entries)
      BY <1>2 DEF RevisionInv, RevsOf, ClosureOK
    <3>2. r.prod = rq.deps.prod /\ r.nested = rq.deps.nested
      BY <1>2, <3>1 DEF PublishOK, ClosureOK, Closure
    <3> QED
      BY <3>2, <2>3
  <2>6. x \notin compRevs
    BY <1>6, <2>3
  <2>7. RevisionInv' /\ RevsGrow
    <3>1. ClosureOK(x.comp, x.entries, Closure(x))
      BY <1>2, <2>2, <2>4 DEF PublishOK
    <3>2. x.comp \in Compositions /\ x.entries \in Layouts /\ DOMAIN x.entries \subseteq Born(x.comp)
          /\ x.number = NextNumber(RevsOf(x.comp))
      BY <1>2, <2>2 DEF PublishOK
    <3> QED
      BY <1>2, <1>3, <1>4, <2>2, <2>3, <2>5, <2>6, <3>1, <3>2, NewRevision
  <2>8. x.entries = working[x.comp] /\ projectActive
    BY <1>2, <2>2, <2>3 DEF PublishOK, FenceHolds
  <2> QED
    BY <2>3, <2>7, <2>8
<1> QED
  BY <1>5, <1>6

-----------------------------------------------------------------------------
(* Every step keeps the composition side.                                  *)

\* What every step does to the lineages and the revisions.
CompositionGrows ==
    /\ RevsGrow
    /\ \A c \in Compositions : Born(c) \subseteq Born(c)' /\ Terminated(c) \subseteq Terminated(c)'
                               /\ Moves(c)

\* A request that is waiting for its fence stays what it was.
LEMMA RequestGrows ==
    ASSUME RevisionInv, LineageInv, LineageInv', CompositionGrows, NEW rq, RequestOK(rq)
    PROVE  RequestOK(rq)'
<1>1. rq.op = "patch" => WorkingSpec(rq.comp, rq.spec)'
  BY ValidGrows DEF RequestOK, WorkingSpec, CompositionGrows
<1>2. \A c \in Compositions : version[c] \in Nat /\ version'[c] \in Nat /\ version[c] <= version'[c]
                              /\ (version'[c] = version[c] => working'[c] = working[c])
  <2> TAKE c \in Compositions
  <2>1. version[c] \in Nat
    BY LineageFacts
  <2>2. Moves(c)
    BY DEF CompositionGrows
  <2> QED
    BY <2>1, <2>2 DEF Moves
<1>3. rq.op = "publish" => PublishOK(rq)'
  <2> SUFFICES ASSUME PublishOK(rq) PROVE PublishOK(rq)'
    BY DEF RequestOK
  <2>1. ClosureOK(rq.comp, rq.entries, rq.deps)'
    BY ClosureGrows DEF PublishOK, CompositionGrows
  <2>2. rq.comp \in Compositions /\ rq.version \in Nat /\ rq.version <= version[rq.comp]
    BY DEF PublishOK
  <2>3. rq.version <= version'[rq.comp]
    BY <2>2, <1>2
  <2>4. rq.version = version'[rq.comp] => rq.entries = working'[rq.comp]
    BY <2>2, <1>2 DEF PublishOK
  <2>5. DOMAIN rq.entries \subseteq Born(rq.comp)'
    BY <2>2 DEF PublishOK, CompositionGrows
  <2> QED
    BY <2>1, <2>2, <2>3, <2>4, <2>5 DEF PublishOK
<1>4. rq.op = "begin" => rq.version <= version'[rq.comp]
  BY <1>2 DEF RequestOK
<1>5. IdsOf(compRevs) \subseteq IdsOf(compRevs')
  BY DEF CompositionGrows, RevsGrow, IdsOf
<1> QED
  BY <1>1, <1>3, <1>4, <1>5 DEF RequestOK

\* The request a client holds after a step.
LEMMA RequestNext ==
    ASSUME NEW j \in Clients, NEW x, req'[j] = x, RequestOK(x)'
    PROVE  RequestOK(req[j])'
BY DEF RequestOK, PublishOK, ClosureOK, WorkingSpec, ValidateSource, DeriveDependencies

\* A step that keeps each part and hands one request on keeps the composition side.
LEMMA ComposeStep ==
    ASSUME CompositionInv, ProductionInv', LineageInv', RevisionInv', CompositionGrows,
           \A c \in Compositions : \A o \in DOMAIN working'[c] :
              \/ o \in DOMAIN working[c] /\ working'[c][o].source = working[c][o].source
              \/ ValidateSource(c, working[c][o].source)',
           \/ req' = req
           \/ \E k \in Clients : \E x : req' = [req EXCEPT ![k] = x] /\ RequestOK(x)'
    PROVE  CompositionInv'
<1>1. RevisionInv /\ LineageInv /\ RevsGrow /\ WorkingInv /\ RequestInv
  BY DEF CompositionInv, CompositionGrows
<1>2. \A c \in Compositions : \A o \in DOMAIN working'[c] : ValidateSource(c, working[c][o].source)'
  <2> TAKE c \in Compositions
  <2> TAKE o \in DOMAIN working'[c]
  <2> SUFFICES ASSUME o \in DOMAIN working[c], working'[c][o].source = working[c][o].source
               PROVE  ValidateSource(c, working[c][o].source)'
    OBVIOUS
  <2>1. PICK s : s = working[c][o].source
    OBVIOUS
  <2>2. ValidateSource(c, s)
    BY <1>1, <2>1 DEF WorkingInv
  <2>3. ValidateSource(c, s)'
    BY <1>1, <2>2, ValidGrows
  <2>4. s = working'[c][o].source
    BY <2>1
  <2> QED
    BY <2>3, <2>4 DEF ValidateSource
<1>3. WorkingInv'
  BY <1>2 DEF WorkingInv
<1>4. \A j \in Clients : RequestOK(req[j])'
  <2> TAKE j \in Clients
  <2>1. PICK rq : rq = req[j]
    OBVIOUS
  <2>2. RequestOK(rq)
    BY <1>1, <2>1 DEF RequestInv
  <2>3. RequestOK(rq)'
    BY <1>1, <2>2, RequestGrows
  <2>4. \E x : req'[j] = x /\ RequestOK(x)'
    BY <1>1, <2>1, <2>3 DEF RequestInv
  <2> QED
    BY <2>4, RequestNext
<1>5. DOMAIN req' = Clients
  BY <1>1 DEF RequestInv
<1> QED
  BY <1>3, <1>4, <1>5 DEF CompositionInv, RequestInv

\* The identities of every composition are as they were.
SameIdentities ==
    /\ Minted' = Minted
    /\ \A c \in Compositions : Born(c)' = Born(c) /\ Terminated(c)' = Terminated(c)

\* A request that ended asks for nothing.
LEMMA IdleOK == RequestOK(Idle) /\ RequestOK(Idle)'
BY DEF RequestOK, Idle

\* Steps that at most move one request to its next stage.
LEMMA QuietStep ==
    ASSUME CompositionInv, projectActive' \in BOOLEAN,
           UNCHANGED <<prodRevs, provenance, version, working, history, compRevs>>,
           \/ req' = req
           \/ \E k \in Clients : \E x : req' = [req EXCEPT ![k] = x] /\ RequestOK(x)
    PROVE  CompositionInv' /\ CompositionGrows /\ SameIdentities
<1>1. ProductionInv'
  BY DEF CompositionInv, ProductionInv
<1>2. LineageInv' /\ SameIdentities /\ \A c \in Compositions : Moves(c)
  BY LineageFrame DEF CompositionInv, SameIdentities
<1>3. RevisionInv' /\ RevsGrow
  BY <1>2, RevisionFrame DEF CompositionInv, SameIdentities
<1>4. CompositionGrows
  BY <1>2, <1>3 DEF CompositionGrows, SameIdentities
<1>5. \/ req' = req
      \/ \E k \in Clients : \E x : req' = [req EXCEPT ![k] = x] /\ RequestOK(x)'
  BY <1>2, <1>4, RequestGrows DEF CompositionInv
<1>6. \A c \in Compositions : \A o \in DOMAIN working'[c] :
         o \in DOMAIN working[c] /\ working'[c][o].source = working[c][o].source
  OBVIOUS
<1> QED
  BY <1>1, <1>2, <1>3, <1>4, <1>5, <1>6, ComposeStep

\* The reads before a fence.
LEMMA ReadyProductionStep ==
    ASSUME CompositionInv, NEW k \in Clients, NEW obj \in Objects, NEW a \in Assets,
           ReadyProduction(k, obj, a)
    PROVE  CompositionInv' /\ CompositionGrows /\ SameIdentities
<1>1. PICK x : x = [op |-> "production", object |-> obj, asset |-> a]
  OBVIOUS
<1>2. x.op = "production" /\ x.object = obj /\ x.asset = a
  BY <1>1
<1>3. RequestOK(x)
  BY <1>2 DEF RequestOK
<1> QED
  BY <1>1, <1>3, QuietStep DEF ReadyProduction, CompositionInv, ProductionInv

\* A patch is asked for with a source that validates.
LEMMA ReadPatchStep ==
    ASSUME CompositionInv, NEW k \in Clients, NEW c \in Compositions, NEW o \in Occurrences,
           NEW spec \in Specs, ReadPatch(k, c, o, spec)
    PROVE  CompositionInv' /\ CompositionGrows /\ SameIdentities
<1>1. PICK x : x = [op |-> "patch", comp |-> c, occ |-> o, spec |-> spec, version |-> version[c]]
  OBVIOUS
<1>2. x.op = "patch" /\ x.comp = c /\ x.occ = o /\ x.spec = spec
  BY <1>1
<1>3. WorkingSpec(c, spec)
  BY DEF ReadPatch
<1>4. RequestOK(x)
  BY <1>2, <1>3 DEF RequestOK
<1> QED
  BY <1>1, <1>4, QuietStep DEF ReadPatch, CompositionInv, ProductionInv

\* What clients ask an identity operation for is a sequence.
LEMMA AskedIsSeq == \A specs \in Asked : specs \in Seq(Specs)
<1>1. MaxOccurrences \in Nat
  BY DEF CompositionAssumption
<1> QED
  BY <1>1, SeqDef DEF Asked

\* A previewed identity operation has the sources and targets of its kind.
LEMMA PreviewStep ==
    ASSUME CompositionInv, NEW k \in Clients, NEW c \in Compositions, NEW kind \in Kinds,
           NEW sources, NEW specs \in Asked, NEW blockers,
           PreviewIdentity(k, c, kind, sources, specs, blockers)
    PROVE  CompositionInv' /\ CompositionGrows /\ SameIdentities
<1>1. PICK x : x = [op |-> "identity", comp |-> c, kind |-> kind, sources |-> sources,
                    specs |-> specs, impact |-> Impact(c, sources, blockers)]
  OBVIOUS
<1>2. x.op = "identity" /\ x.comp = c /\ x.kind = kind /\ x.sources = sources /\ x.specs = specs
  BY <1>1
<1>3. Cardinal(kind, Cardinality(sources), Len(specs)) /\ specs \in Seq(Specs)
  BY AskedIsSeq DEF PreviewIdentity
<1>4. RequestOK(x)
  BY <1>2, <1>3 DEF RequestOK
<1> QED
  BY <1>1, <1>4, QuietStep DEF PreviewIdentity, CompositionInv, ProductionInv

\* A publication remembers the version it read first ...
LEMMA BeginPublishStep ==
    ASSUME CompositionInv, NEW k \in Clients, NEW c \in Compositions, BeginPublish(k, c)
    PROVE  CompositionInv' /\ CompositionGrows /\ SameIdentities
<1>1. PICK x : x = [op |-> "begin", comp |-> c, version |-> version[c]]
  OBVIOUS
<1>2. x.op = "begin" /\ x.comp = c /\ x.version = version[c]
  BY <1>1
<1>3. version[c] \in Nat
  BY LineageFacts DEF CompositionInv
<1>4. RequestOK(x)
  BY <1>2, <1>3 DEF RequestOK
<1> QED
  BY <1>1, <1>4, QuietStep DEF BeginPublish, CompositionInv, ProductionInv

\* ... and the working rows of the moment it froze them, with their closure.
LEMMA FreezePublishStep ==
    ASSUME CompositionInv, NEW k \in Clients, FreezePublish(k)
    PROVE  CompositionInv' /\ CompositionGrows /\ SameIdentities
<1>1. PICK rq : rq = req[k]
  OBVIOUS
<1>2. rq.comp \in Compositions /\ rq.version \in Nat /\ rq.version <= version[rq.comp]
  BY <1>1 DEF CompositionInv, RequestInv, RequestOK, FreezePublish
<1>3. PICK x : x = IF working[rq.comp] = << >> \/ ~ Integrity(rq.comp) THEN Idle
                   ELSE [op |-> "publish", comp |-> rq.comp, version |-> rq.version,
                         entries |-> working[rq.comp],
                         deps |-> DeriveDependencies(working[rq.comp])]
  OBVIOUS
<1>4. req' = [req EXCEPT ![k] = x]
  BY <1>1, <1>3 DEF FreezePublish
<1>5. CASE x = Idle
  BY <1>4, <1>5, IdleOK, QuietStep DEF FreezePublish, CompositionInv, ProductionInv
<1>6. CASE x # Idle
  <2>1. /\ Integrity(rq.comp) /\ x.op = "publish" /\ x.comp = rq.comp /\ x.version = rq.version
        /\ x.entries = working[rq.comp] /\ x.deps = DeriveDependencies(working[rq.comp])
    BY <1>3, <1>6
  <2>2. working[rq.comp] \in Layouts /\ DOMAIN working[rq.comp] \subseteq Born(rq.comp)
    BY <1>2, LineageFacts DEF CompositionInv, LineageInv
  <2>3. ClosureOK(rq.comp, working[rq.comp], DeriveDependencies(working[rq.comp]))
    BY <2>1, <2>2, ClosureDerived DEF Integrity, CompositionInv
  <2>4. PublishOK(x)
    BY <1>2, <2>1, <2>2, <2>3 DEF PublishOK
  <2>5. RequestOK(x)
    BY <2>1, <2>4 DEF RequestOK
  <2> QED
    BY <1>4, <2>5, QuietStep DEF FreezePublish, CompositionInv, ProductionInv
<1> QED
  BY <1>5, <1>6

\* The soft delete of the project.
LEMMA DeleteProjectStep ==
    ASSUME CompositionInv, DeleteProject
    PROVE  CompositionInv' /\ CompositionGrows /\ SameIdentities
BY QuietStep DEF DeleteProject

\* A publication of production content.
LEMMA PublishProductionStep ==
    ASSUME CompositionInv, NEW k \in Clients, PublishProduction(k)
    PROVE  CompositionInv' /\ CompositionGrows /\ SameIdentities
<1>1. ProductionInv' /\ prodRevs \subseteq prodRevs'
  BY PublishProductionOK
<1>2. UNCHANGED <<projectActive, version, working, history, compRevs>>
      /\ req' = [req EXCEPT ![k] = Idle]
  BY DEF PublishProduction, Answer
<1>3. LineageInv' /\ SameIdentities /\ \A c \in Compositions : Moves(c)
  BY <1>2, LineageFrame DEF CompositionInv, SameIdentities
<1>4. RevisionInv' /\ RevsGrow
  BY <1>1, <1>2, <1>3, RevisionFrame DEF CompositionInv, SameIdentities
<1>5. CompositionGrows
  BY <1>3, <1>4 DEF CompositionGrows, SameIdentities
<1>6. \A c \in Compositions : \A o \in DOMAIN working'[c] :
         o \in DOMAIN working[c] /\ working'[c][o].source = working[c][o].source
  BY <1>2
<1> QED
  BY <1>1, <1>2, <1>3, <1>4, <1>5, <1>6, IdleOK, ComposeStep

\* A patch under its fence.
LEMMA PatchStep ==
    ASSUME CompositionInv, NEW k \in Clients, PatchOccurrence(k)
    PROVE  CompositionInv' /\ CompositionGrows /\ SameIdentities
<1>1. PICK rq : rq = req[k]
  OBVIOUS
<1>2. WorkingSpec(rq.comp, rq.spec)
  BY <1>1 DEF CompositionInv, RequestInv, RequestOK, PatchOccurrence
<1>3. UNCHANGED <<projectActive, prodRevs, provenance, history, compRevs>>
      /\ req' = [req EXCEPT ![k] = Idle]
  BY DEF PatchOccurrence, Answer
<1>4. LineageInv' /\ SameIdentities /\ \A c \in Compositions : Moves(c)
  BY PatchLineage DEF SameIdentities
<1>5. \A c \in Compositions : \A o \in DOMAIN working'[c] :
                /\ o \in DOMAIN working[c]
                /\ working'[c][o] = working[c][o] \/ (c = rq.comp /\ working'[c][o] = rq.spec)
  BY <1>1, PatchLineage
<1>6. ProductionInv'
  BY <1>3 DEF CompositionInv, ProductionInv
<1>7. RevisionInv' /\ RevsGrow
  BY <1>3, <1>4, RevisionFrame DEF CompositionInv, SameIdentities
<1>8. CompositionGrows
  BY <1>4, <1>7 DEF CompositionGrows, SameIdentities
<1>9. PICK s : s = rq.spec.source
  OBVIOUS
<1>10. ValidateSource(rq.comp, s)'
  BY <1>2, <1>7, <1>9, ValidGrows DEF WorkingSpec, CompositionInv
<1>11. \A c \in Compositions : \A o \in DOMAIN working'[c] :
              \/ o \in DOMAIN working[c] /\ working'[c][o].source = working[c][o].source
              \/ ValidateSource(c, working[c][o].source)'
  <2> TAKE c \in Compositions
  <2> TAKE o \in DOMAIN working'[c]
  <2> SUFFICES ASSUME c = rq.comp, working'[c][o] = rq.spec
               PROVE  ValidateSource(c, working[c][o].source)'
    BY <1>5
  <2>1. working'[c][o].source = s
    BY <1>9
  <2> QED
    BY <1>10, <2>1 DEF ValidateSource
<1> QED
  BY <1>3, <1>4, <1>6, <1>7, <1>8, <1>11, IdleOK, ComposeStep

\* A recorded operation, whose specs validate under its fence.
LEMMA RecordStep ==
    ASSUME CompositionInv, NEW c \in Compositions, NEW kind \in Kinds, NEW sources,
           NEW specs \in Seq(Specs), Record(c, kind, sources, specs),
           Cardinal(kind, Cardinality(sources), Len(specs)), sources \subseteq DOMAIN working[c],
           \A i \in 1..Len(specs) : WorkingSpec(c, specs[i]),
           UNCHANGED <<projectActive, prodRevs, provenance, compRevs>>,
           \/ req' = req
           \/ \E k \in Clients : req' = [req EXCEPT ![k] = Idle]
    PROVE  /\ CompositionInv' /\ CompositionGrows
           /\ Terminated(c)' = Terminated(c) \cup (IF kind \in Terminates THEN sources ELSE {})
           /\ \A d \in Compositions \ {c} : Terminated(d)' = Terminated(d)
           /\ Minted \subseteq Minted'
<1>0. LineageInv
  BY DEF CompositionInv
<1>1. /\ LineageInv'
      /\ \A d \in Compositions : Born(d) \subseteq Born(d)' /\ Moves(d)
      /\ \A d \in Compositions \ {c} : Terminated(d)' = Terminated(d)
      /\ Terminated(c)' = Terminated(c) \cup (IF kind \in Terminates THEN sources ELSE {})
      /\ \A d \in Compositions \ {c} : working'[d] = working[d]
      /\ \A o \in DOMAIN working'[c] :
           \/ o \in DOMAIN working[c] /\ working'[c][o] = working[c][o]
           \/ \E i \in 1..Len(specs) : working'[c][o] = specs[i]
      /\ Minted \subseteq Minted'
  BY <1>0, RecordOK
<1>2. ProductionInv'
  BY DEF CompositionInv, ProductionInv
<1>3. RevisionInv' /\ RevsGrow
  BY <1>1, RevisionFrame DEF CompositionInv
<1>4. CompositionGrows
  <2>1. \A d \in Compositions : Terminated(d) \subseteq Terminated(d)'
    BY <1>1
  <2> QED
    BY <2>1, <1>1, <1>3 DEF CompositionGrows
<1>5. \A d \in Compositions : \A o \in DOMAIN working'[d] :
              \/ o \in DOMAIN working[d] /\ working'[d][o].source = working[d][o].source
              \/ ValidateSource(d, working[d][o].source)'
  <2> TAKE d \in Compositions
  <2> TAKE o \in DOMAIN working'[d]
  <2> SUFFICES ASSUME d = c, NEW i \in 1..Len(specs), working'[d][o] = specs[i]
               PROVE  ValidateSource(d, working[d][o].source)'
    BY <1>1
  <2>1. PICK s : s = specs[i].source
    OBVIOUS
  <2>2. ValidateSource(c, s)
    BY <2>1 DEF WorkingSpec
  <2>3. ValidateSource(c, s)'
    BY <1>3, <2>2, ValidGrows DEF CompositionInv
  <2>4. working'[d][o].source = s
    BY <2>1
  <2> QED
    BY <2>3, <2>4 DEF ValidateSource
<1>6. req' = req \/ \E k \in Clients : \E x : req' = [req EXCEPT ![k] = x] /\ RequestOK(x)'
  BY IdleOK
<1>7. CompositionInv'
  BY <1>1, <1>2, <1>3, <1>4, <1>5, <1>6, ComposeStep
<1> QED
  BY <1>1, <1>4, <1>7

\* A mint.
LEMMA MintStep ==
    ASSUME CompositionInv, NEW c \in Compositions, NEW spec \in Specs, MintOccurrence(c, spec)
    PROVE  /\ CompositionInv' /\ CompositionGrows /\ Minted \subseteq Minted'
           /\ \A d \in Compositions : Terminated(d)' = Terminated(d)
<1>1. PICK specs : specs = <<spec>>
  OBVIOUS
<1>2. specs \in Seq(Specs) /\ Len(specs) = 1 /\ \A i \in 1..Len(specs) : specs[i] = spec
  BY <1>1
<1>3. /\ Record(c, "mint", {}, specs) /\ WorkingSpec(c, spec)
      /\ UNCHANGED <<projectActive, prodRevs, provenance, compRevs, req>>
  BY <1>1 DEF MintOccurrence
<1>4. Cardinality({}) = 0 /\ "mint" \in Kinds /\ "mint" \notin Terminates
  BY FS_EmptySet DEF Kinds, Terminates
<1>5. Cardinal("mint", 0, 1)
  BY DEF Cardinal
<1>6. PICK sources : sources = {}
  OBVIOUS
<1>7. /\ CompositionInv' /\ CompositionGrows
      /\ Terminated(c)' = Terminated(c) \cup (IF "mint" \in Terminates THEN sources ELSE {})
      /\ \A d \in Compositions \ {c} : Terminated(d)' = Terminated(d)
      /\ Minted \subseteq Minted'
  BY <1>2, <1>3, <1>4, <1>5, <1>6, RecordStep
<1> QED
  BY <1>4, <1>7

\* An identity operation ends, refused or recorded; nothing that is recorded ends
\* an occurrence that a live reference forbids to end.
LEMMA ApplyIdentityStep ==
    ASSUME CompositionInv, NEW k \in Clients, req[k].op = "identity",
           ApplyIdentity(k, LiveBlockers(req[k].sources))
    PROVE  /\ CompositionInv' /\ CompositionGrows /\ Minted \subseteq Minted'
           /\ \E S : /\ LiveBlockers(S) = {}
                     /\ \A d \in Compositions : Terminated(d)' \subseteq Terminated(d) \cup S
<1>1. PICK rq : rq = req[k]
  OBVIOUS
<1>2. /\ rq.comp \in Compositions /\ rq.kind \in Kinds /\ rq.specs \in Seq(Specs)
      /\ Cardinal(rq.kind, Cardinality(rq.sources), Len(rq.specs))
  BY <1>1 DEF CompositionInv, RequestInv, RequestOK
<1>3. UNCHANGED <<projectActive, prodRevs, provenance, compRevs>>
      /\ req' = [req EXCEPT ![k] = Idle]
  BY DEF ApplyIdentity, Answer
<1>4. LiveBlockers({}) = {}
  BY DEF LiveBlockers
<1>5. CASE ~ Applies(rq, LiveBlockers(rq.sources))
  <2>1. UNCHANGED <<version, working, history>>
    BY <1>1, <1>5 DEF ApplyIdentity
  <2>2. CompositionInv' /\ CompositionGrows /\ SameIdentities
    BY <1>3, <2>1, IdleOK, QuietStep DEF CompositionInv, ProductionInv
  <2> QED
    BY <1>4, <2>2 DEF SameIdentities
<1>6. CASE Applies(rq, LiveBlockers(rq.sources))
  <2>1. Record(rq.comp, rq.kind, rq.sources, rq.specs)
    BY <1>1, <1>6 DEF ApplyIdentity
  <2>2. /\ \A i \in 1..Len(rq.specs) : WorkingSpec(rq.comp, rq.specs[i])
        /\ rq.sources \subseteq DOMAIN working[rq.comp]
        /\ rq.kind \in Terminates => LiveBlockers(rq.sources) = {}
    BY <1>6 DEF Applies
  <2>3. /\ CompositionInv' /\ CompositionGrows
        /\ Terminated(rq.comp)' = Terminated(rq.comp)
                                  \cup (IF rq.kind \in Terminates THEN rq.sources ELSE {})
        /\ \A d \in Compositions \ {rq.comp} : Terminated(d)' = Terminated(d)
        /\ Minted \subseteq Minted'
    BY <1>2, <1>3, <2>1, <2>2, RecordStep
  <2>4. PICK S : S = IF rq.kind \in Terminates THEN rq.sources ELSE {}
    OBVIOUS
  <2>5. LiveBlockers(S) = {}
    BY <1>4, <2>2, <2>4
  <2> QED
    BY <2>3, <2>4, <2>5
<1> QED
  BY <1>5, <1>6

\* A publication of a composition.
LEMMA PublishCompositionStep ==
    ASSUME CompositionInv, NEW k \in Clients, PublishComposition(k)
    PROVE  CompositionInv' /\ CompositionGrows /\ SameIdentities
<1>1. UNCHANGED <<projectActive, prodRevs, provenance, version, working, history>>
      /\ req' = [req EXCEPT ![k] = Idle]
  BY DEF PublishComposition, Answer
<1>2. RevisionInv' /\ RevsGrow
  BY PublishCompositionOK
<1>3. LineageInv' /\ SameIdentities /\ \A c \in Compositions : Moves(c)
  BY <1>1, LineageFrame DEF CompositionInv, SameIdentities
<1>4. CompositionGrows
  BY <1>2, <1>3 DEF CompositionGrows, SameIdentities
<1>5. ProductionInv'
  BY <1>1 DEF CompositionInv, ProductionInv
<1>6. \A c \in Compositions : \A o \in DOMAIN working'[c] :
         o \in DOMAIN working[c] /\ working'[c][o].source = working[c][o].source
  BY <1>1
<1> QED
  BY <1>1, <1>2, <1>3, <1>4, <1>5, <1>6, IdleOK, ComposeStep

\* An update of working rows to another revision of their object.
LEMMA ApplyUpdateStep ==
    ASSUME CompositionInv, UpdateInv, NEW a \in assessments, NEW sel, NEW accepted,
           ApplyUpdate(a, sel, accepted)
    PROVE  CompositionInv' /\ CompositionGrows /\ SameIdentities
<1>1. UNCHANGED <<projectActive, prodRevs, provenance, history, compRevs, req>>
  BY DEF ApplyUpdate
<1>2. LineageInv' /\ SameIdentities /\ \A c \in Compositions : Moves(c)
  BY UpdateLineage DEF SameIdentities
<1>3. RevisionInv' /\ RevsGrow
  BY <1>1, <1>2, RevisionFrame DEF CompositionInv, SameIdentities
<1>4. CompositionGrows
  BY <1>2, <1>3 DEF CompositionGrows, SameIdentities
<1>5. ProductionInv'
  BY <1>1 DEF CompositionInv, ProductionInv
<1>6. /\ a.to \in IdsOf(prodRevs)
      /\ \A c \in Compositions : \A o \in DOMAIN working'[c] :
            /\ o \in DOMAIN working[c]
            /\ \/ working'[c][o] = working[c][o]
               \/ working'[c][o].source = [kind |-> "production", id |-> a.to]
  BY UpdateLineage
<1>7. \A c \in Compositions : \A o \in DOMAIN working'[c] :
              \/ o \in DOMAIN working[c] /\ working'[c][o].source = working[c][o].source
              \/ ValidateSource(c, working[c][o].source)'
  <2> TAKE c \in Compositions
  <2> TAKE o \in DOMAIN working'[c]
  <2> SUFFICES ASSUME working'[c][o].source = [kind |-> "production", id |-> a.to]
               PROVE  ValidateSource(c, working[c][o].source)'
    BY <1>6
  <2>1. working'[c][o].source.kind = "production" /\ working'[c][o].source.id = a.to
    OBVIOUS
  <2>2. \E r \in prodRevs' : r.id = a.to
    BY <1>1, <1>6 DEF IdsOf
  <2> QED
    BY <2>1, <2>2 DEF ValidateSource
<1> QED
  BY <1>1, <1>2, <1>3, <1>4, <1>5, <1>7, ComposeStep

-----------------------------------------------------------------------------
(* The production world: what a step that leaves a part alone keeps of it.  *)

\* Adoptions and interpretations are never changed and never removed.
AdoptionsGrow ==
    /\ DOMAIN subject \subseteq DOMAIN subject'
    /\ \A o \in DOMAIN subject : subject'[o] = subject[o]
    /\ DOMAIN interpreted \subseteq DOMAIN interpreted'

\* What ends in a step has no live reference.
EndsFree ==
    \E S : LiveBlockers(S) = {} /\ \A c \in Compositions : Terminated(c)' \subseteq Terminated(c) \cup S

\* Nothing ends in most steps.
LEMMA NothingEnds ==
    ASSUME \A c \in Compositions : Terminated(c)' = Terminated(c)
    PROVE  EndsFree
<1>1. LiveBlockers({}) = {}
  BY DEF LiveBlockers
<1> QED
  BY <1>1 DEF EndsFree

\* Identities that were minted stay where they were born.
LEMMA BornStays ==
    ASSUME LineageInv, LineageInv', CompositionGrows, NEW c \in Compositions,
           NEW o \in Minted, o \in Born(c)'
    PROVE  o \in Born(c)
<1>1. PICK d \in Compositions : o \in Born(d)
  BY DEF Minted
<1>2. o \in Born(d)'
  BY <1>1 DEF CompositionGrows
<1>3. d = c
  BY <1>1, <1>2 DEF LineageInv
<1> QED
  BY <1>1, <1>3

\* Claims.
LEMMA ClaimsFrame ==
    ASSUME ClaimsInv, LineageInv, LineageInv', CompositionGrows,
           UNCHANGED <<subject, deleted, interpreted, entityTracks>>
    PROVE  ClaimsInv'
<1>1. Minted \subseteq Minted'
  BY DEF CompositionGrows, Minted
<1>2. \A c \in Compositions : \A o, x \in (DOMAIN subject' \cap Born(c)') \ Terminated(c)' :
          subject'[o] = subject'[x] /\ subject'[o] # PI => o = x
  <2> TAKE c \in Compositions
  <2>1. (DOMAIN subject' \cap Born(c)') \ Terminated(c)' \subseteq (DOMAIN subject \cap Born(c)) \ Terminated(c)
    BY BornStays DEF ClaimsInv, CompositionGrows
  <2> QED
    BY <2>1 DEF ClaimsInv
<1>3. IdsOf(prodRevs) \subseteq IdsOf(prodRevs')
  BY DEF CompositionGrows, RevsGrow, IdsOf
<1> QED
  BY <1>1, <1>2, <1>3 DEF ClaimsInv

\* Instance state.
LEMMA StateFrame ==
    ASSUME StateInv, AdoptionsGrow, EndsFree, UNCHANGED <<features, tracks>>
    PROVE  StateInv'
<1>1. PICK S : LiveBlockers(S) = {} /\ \A c \in Compositions : Terminated(c)' \subseteq Terminated(c) \cup S
  BY DEF EndsFree
<1>2. \A o \in S : o \notin tracks /\ \A f \in FeaturesOf(o) : ~ f.live
  <2> TAKE o \in S
  <2>1. o \notin tracks
    <3> SUFFICES ASSUME o \in tracks PROVE FALSE
      OBVIOUS
    <3>1. <<"track", o>> \in LiveBlockers(S)
      BY DEF LiveBlockers
    <3> QED
      BY <1>1, <3>1
  <2>2. \A f \in FeaturesOf(o) : ~ f.live
    <3> SUFFICES ASSUME NEW f \in FeaturesOf(o), f.live PROVE FALSE
      OBVIOUS
    <3>1. <<"feature", f.occ>> \in LiveBlockers(S)
      BY DEF LiveBlockers, FeaturesOf
    <3> QED
      BY <1>1, <3>1
  <2> QED
    BY <2>1, <2>2
<1>3. \A o : FeaturesOf(o)' = FeaturesOf(o)
  BY DEF FeaturesOf
<1>4. \A c \in Compositions : \A o \in Terminated(c)' :
          o \notin tracks' /\ \A f \in FeaturesOf(o)' : ~ f.live
  <2> TAKE c \in Compositions
  <2> TAKE o \in Terminated(c)'
  <2>1. o \in Terminated(c) \/ o \in S
    BY <1>1
  <2> QED
    BY <2>1, <1>2, <1>3 DEF StateInv
<1>5. VerifyInstanceState'
  BY DEF StateInv, VerifyInstanceState, AdoptionsGrow
<1>6. VerifyInstanceSpatial'
  BY DEF StateInv, VerifyInstanceSpatial, AdoptionsGrow
<1> QED
  BY <1>4, <1>5, <1>6 DEF StateInv, AdoptionsGrow

\* The binding a shot selects, by its id.
LEMMA SelectedBinding ==
    ASSUME BindingInv, NEW s \in Shots, selection[s] # 0
    PROVE  /\ BindingOf(selection[s]) \in bindings /\ BindingOf(selection[s]).id = selection[s]
           /\ SelectedOK(BindingOf(selection[s])) /\ BindingOK(BindingOf(selection[s]))
           /\ \A b \in bindings : b.id = selection[s] => b = BindingOf(selection[s])
<1>1. PICK b \in bindings : b.id = selection[s] /\ SelectedOK(b)
  BY DEF BindingInv
<1>2. \A x \in bindings : x.id = selection[s] => x = b
  BY <1>1 DEF BindingInv, Ided
<1>3. BindingOf(selection[s]) = b
  BY <1>1, <1>2 DEF BindingOf
<1> QED
  BY <1>1, <1>2, <1>3 DEF BindingInv

\* One stored binding.
LEMMA BindingGrows ==
    ASSUME RevisionInv, RevsGrow, AdoptionsGrow, NEW b, BindingOK(b)
    PROVE  BindingOK(b)'
<1>1. PICK rev : rev = RevOf(compRevs, b.rev)
  OBVIOUS
<1>2. b.rev \in IdsOf(compRevs) /\ b.rev \in IdsOf(compRevs') /\ RevOf(compRevs', b.rev) = rev
  BY <1>1, RevOfGrows DEF BindingOK, RevisionInv, RevsGrow
<1>3. /\ b.id \in 1..MaxBindings
      /\ DOMAIN b.value.subjects \subseteq DOMAIN rev.entries \cap DOMAIN subject
      /\ \A o \in DOMAIN b.value.subjects : /\ rev.entries[o].source.kind = "production"
                                            /\ subject[o] = b.value.subjects[o]
      /\ DOMAIN b.value.entries \subseteq DOMAIN b.value.subjects
      /\ \A o \in DOMAIN b.value.entries :
             /\ b.value.entries[o] \in Targets
             /\ rev.entries[o].source.id \in DOMAIN interpreted
             /\ (b.value.entries[o].kind = "instance_track") = (subject[o] = PI)
  BY <1>1 DEF BindingOK
<1>4. \A o \in DOMAIN b.value.subjects : subject'[o] = subject[o] /\ o \in DOMAIN subject'
  BY <1>3 DEF AdoptionsGrow
<1>5. \A o \in DOMAIN b.value.entries : o \in DOMAIN b.value.subjects
  BY <1>3
<1> QED
  BY <1>2, <1>3, <1>4, <1>5 DEF BindingOK, AdoptionsGrow

\* A selected binding keeps living subjects.
LEMMA SelectedGrows ==
    ASSUME BindingInv, EndsFree, NEW s \in Shots, selection[s] # 0
    PROVE  \E b \in bindings : b.id = selection[s] /\ SelectedOK(b)'
<1>1. PICK b : b = BindingOf(selection[s])
  OBVIOUS
<1>2. SelectedOK(b)
  BY <1>1, SelectedBinding
<1>3. PICK S : LiveBlockers(S) = {} /\ \A c \in Compositions : Terminated(c)' \subseteq Terminated(c) \cup S
  BY DEF EndsFree
<1>4. DOMAIN b.value.subjects \cap S = {}
  <2> SUFFICES ASSUME NEW o \in S, o \in SubjectsOf(b) PROVE FALSE
    BY DEF SubjectsOf
  <2>1. <<"selection", o>> \in LiveBlockers(S)
    BY <1>1 DEF LiveBlockers
  <2> QED
    BY <2>1, <1>3
<1>5. \A c \in Compositions : DOMAIN b.value.subjects \cap Terminated(c)' = {}
  BY <1>2, <1>3, <1>4 DEF SelectedOK
<1> QED
  <2>1. SelectedOK(b)'
    BY <1>2, <1>5 DEF SelectedOK
  <2> QED
    BY <2>1, <1>1, SelectedBinding

\* Bindings and selections.
LEMMA BindingFrame ==
    ASSUME BindingInv, RevisionInv, RevsGrow, AdoptionsGrow, EndsFree,
           UNCHANGED <<bindings, selection>>
    PROVE  BindingInv'
<1>1. \A b \in bindings' : BindingOK(b)'
  BY BindingGrows DEF BindingInv
<1>2. \A s \in Shots : selection'[s] # 0 =>
          \E b \in bindings' : b.id = selection'[s] /\ SelectedOK(b)'
  BY SelectedGrows
<1> QED
  BY <1>1, <1>2 DEF BindingInv

\* Assessments and updates.
LEMMA UpdateFrame ==
    ASSUME UpdateInv, ProductionInv, ProductionInv', prodRevs \subseteq prodRevs', AdoptionsGrow,
           UNCHANGED <<assessments, updates>>
    PROVE  UpdateInv'
<1>1. \A i \in IdsOf(prodRevs) : RevOf(prodRevs', i) = RevOf(prodRevs, i) /\ i \in IdsOf(prodRevs')
  BY RevOfGrows DEF ProductionInv
<1>2. \A a \in assessments : AssessmentOK(a)'
  <2> TAKE a \in assessments
  <2>1. AssessmentOK(a)
    BY DEF UpdateInv
  <2>2. \A o \in DOMAIN a.uses : UseOK(a, o)'
    BY <2>1 DEF AssessmentOK, UseOK, AdoptionsGrow
  <2> QED
    BY <2>1, <2>2, <1>1 DEF AssessmentOK
<1>3. \A u \in updates : UpdateOK(u)'
  BY DEF UpdateInv, UpdateOK
<1> QED
  BY <1>2, <1>3 DEF UpdateInv

\* Steps of the composition side leave the world alone.
LEMMA WorldFrame ==
    ASSUME WorldInv, CompositionInv', CompositionGrows, EndsFree,
           UNCHANGED <<worldOnly, assessments, updates>>
    PROVE  WorldInv'
<1>1. AdoptionsGrow
  BY DEF AdoptionsGrow, worldOnly
<1>2. ClaimsInv'
  BY ClaimsFrame DEF WorldInv, CompositionInv, worldOnly
<1>3. StateInv'
  BY <1>1, StateFrame DEF WorldInv, worldOnly
<1>4. BindingInv'
  BY <1>1, BindingFrame DEF WorldInv, CompositionInv, CompositionGrows, worldOnly
<1>5. UpdateInv'
  BY <1>1, UpdateFrame DEF WorldInv, CompositionInv, CompositionGrows, RevsGrow
<1> QED
  BY <1>2, <1>3, <1>4, <1>5 DEF WorldInv

\* Steps of the world that leave the composition side alone.
LEMMA WorldQuiet ==
    ASSUME CompositionInv,
           UNCHANGED <<projectActive, prodRevs, provenance, version, working, history, compRevs>>,
           \/ req' = req
           \/ \E k \in Clients : \E x : req' = [req EXCEPT ![k] = x] /\ RequestOK(x)
    PROVE  CompositionInv' /\ CompositionGrows /\ SameIdentities /\ EndsFree
<1>1. CompositionInv' /\ CompositionGrows /\ SameIdentities
  BY QuietStep DEF CompositionInv, ProductionInv
<1> QED
  BY <1>1, NothingEnds DEF SameIdentities

\* Every step of the composition side.
LEMMA CompositionStepOK ==
    ASSUME WorldInv, CompositionStep, UNCHANGED <<worldOnly, assessments, updates>>
    PROVE  WorldInv' /\ CompositionGrows
<1>0. CompositionInv
  BY DEF WorldInv
<1> SUFFICES CompositionInv' /\ CompositionGrows /\ EndsFree
  BY WorldFrame
<1>s. ASSUME SameIdentities PROVE EndsFree
  BY <1>s, NothingEnds DEF SameIdentities
<1>1. CASE DeleteProject
  BY <1>0, <1>1, <1>s, DeleteProjectStep
<1>2. ASSUME NEW k \in Clients, PublishProduction(k)
      PROVE  CompositionInv' /\ CompositionGrows /\ EndsFree
  BY <1>0, <1>2, <1>s, PublishProductionStep
<1>3. ASSUME NEW k \in Clients, PatchOccurrence(k)
      PROVE  CompositionInv' /\ CompositionGrows /\ EndsFree
  BY <1>0, <1>3, <1>s, PatchStep
<1>4. ASSUME NEW k \in Clients, FreezePublish(k)
      PROVE  CompositionInv' /\ CompositionGrows /\ EndsFree
  BY <1>0, <1>4, <1>s, FreezePublishStep
<1>5. ASSUME NEW k \in Clients, PublishComposition(k)
      PROVE  CompositionInv' /\ CompositionGrows /\ EndsFree
  BY <1>0, <1>5, <1>s, PublishCompositionStep
<1>6. ASSUME NEW k \in Clients, NEW obj \in Objects, NEW a \in Assets, ReadyProduction(k, obj, a)
      PROVE  CompositionInv' /\ CompositionGrows /\ EndsFree
  BY <1>0, <1>6, <1>s, ReadyProductionStep
<1>7. ASSUME NEW k \in Clients, NEW c \in Compositions, BeginPublish(k, c)
      PROVE  CompositionInv' /\ CompositionGrows /\ EndsFree
  BY <1>0, <1>7, <1>s, BeginPublishStep
<1>8. ASSUME NEW k \in Clients, NEW c \in Compositions, NEW o \in Occurrences,
             NEW spec \in Specs, ReadPatch(k, c, o, spec)
      PROVE  CompositionInv' /\ CompositionGrows /\ EndsFree
  BY <1>0, <1>8, <1>s, ReadPatchStep
<1>9. ASSUME NEW k \in Clients, NEW c \in Compositions, NEW kind \in Kinds,
             NEW sources \in SUBSET Occurrences, NEW specs \in Asked,
             PreviewIdentity(k, c, kind, sources, specs, LiveBlockers(sources))
      PROVE  CompositionInv' /\ CompositionGrows /\ EndsFree
  <2>1. PICK blockers : blockers = LiveBlockers(sources)
    OBVIOUS
  <2>2. PreviewIdentity(k, c, kind, sources, specs, blockers)
    BY <1>9, <2>1
  <2> QED
    BY <1>0, <2>2, <1>s, PreviewStep
<1>10. ASSUME NEW k \in Clients, req[k].op = "identity",
              ApplyIdentity(k, LiveBlockers(req[k].sources))
       PROVE  CompositionInv' /\ CompositionGrows /\ EndsFree
  <2>1. CompositionInv' /\ CompositionGrows
        /\ \E S : /\ LiveBlockers(S) = {}
                  /\ \A d \in Compositions : Terminated(d)' \subseteq Terminated(d) \cup S
    BY <1>0, <1>10, ApplyIdentityStep
  <2> QED
    BY <2>1 DEF EndsFree
<1>11. ASSUME NEW c \in Compositions, NEW spec \in Specs, MintOccurrence(c, spec)
       PROVE  CompositionInv' /\ CompositionGrows /\ EndsFree
  BY <1>0, <1>11, MintStep, NothingEnds
<1> QED
  BY <1>1, <1>2, <1>3, <1>4, <1>5, <1>6, <1>7, <1>8, <1>9, <1>10, <1>11 DEF CompositionStep

-----------------------------------------------------------------------------
(* The steps of the production world.                                      *)

\* What a step of the world that touches no composition keeps besides the part it
\* changes: adoptions grow, and each part it leaves alone still holds.
LEMMA WorldParts ==
    ASSUME WorldInv, CompositionInv', CompositionGrows, EndsFree, AdoptionsGrow
    PROVE  /\ UNCHANGED <<subject, deleted, interpreted, entityTracks>> => ClaimsInv'
           /\ UNCHANGED <<features, tracks>> => StateInv'
           /\ UNCHANGED <<bindings, selection>> => BindingInv'
           /\ UNCHANGED <<assessments, updates>> => UpdateInv'
<1>1. /\ ProductionInv /\ LineageInv /\ RevisionInv /\ ProductionInv' /\ LineageInv'
      /\ ClaimsInv /\ StateInv /\ BindingInv /\ UpdateInv
      /\ RevsGrow /\ prodRevs \subseteq prodRevs'
  BY DEF WorldInv, CompositionInv, CompositionGrows, RevsGrow
<1>2. UNCHANGED <<subject, deleted, interpreted, entityTracks>> => ClaimsInv'
  BY <1>1, ClaimsFrame
<1>3. UNCHANGED <<features, tracks>> => StateInv'
  BY <1>1, StateFrame
<1>4. UNCHANGED <<bindings, selection>> => BindingInv'
  BY <1>1, BindingFrame
<1>5. UNCHANGED <<assessments, updates>> => UpdateInv'
  BY <1>1, UpdateFrame
<1> QED
  BY <1>2, <1>3, <1>4, <1>5

\* An occurrence is adopted once, and an entity is claimed by one living occurrence.
LEMMA AdoptSubjectStep ==
    ASSUME WorldInv, NEW o \in Occurrences, NEW who \in Entities \cup {PI}, AdoptSubject(o, who),
           UNCHANGED <<assessments, updates>>
    PROVE  WorldInv' /\ CompositionGrows
<1>1. /\ UNCHANGED compVars
      /\ UNCHANGED <<deleted, interpreted, features, tracks, entityTracks, bindings, selection>>
  BY DEF AdoptSubject
<1>2. CompositionInv' /\ CompositionGrows /\ SameIdentities /\ EndsFree
  BY <1>1, WorldQuiet DEF WorldInv, compVars
<1>3. o \notin DOMAIN subject /\ Living(o) /\ LineageInv /\ ClaimsInv
  BY DEF AdoptSubject, WorldInv, CompositionInv
<1>4. /\ DOMAIN subject' = DOMAIN subject \cup {o} /\ subject'[o] = who
      /\ \A x \in DOMAIN subject : subject'[x] = subject[x]
      /\ subject' \in [DOMAIN subject' -> Entities \cup {PI}]
  <2>1. subject' = Merge(subject, [x \in {o} |-> who])
    BY DEF AdoptSubject
  <2> QED
    BY <2>1, <1>3 DEF Merge, ClaimsInv
<1>5. AdoptionsGrow
  BY <1>1, <1>4 DEF AdoptionsGrow
<1>6. /\ o \in Minted /\ Home(o) \in Compositions
      /\ \A c \in Compositions : o \in Born(c) => c = Home(o)
  BY <1>3, LivingRows, HomeOf DEF Living
<1>7. \A c \in Compositions : \A x, y \in (DOMAIN subject' \cap Born(c)) \ Terminated(c) :
          subject'[x] = subject'[y] /\ subject'[x] # PI => x = y
  <2> TAKE c \in Compositions
  <2> TAKE x, y \in (DOMAIN subject' \cap Born(c)) \ Terminated(c)
  <2> SUFFICES ASSUME subject'[x] = subject'[y], subject'[x] # PI PROVE x = y
    OBVIOUS
  <2>1. ASSUME NEW z \in (DOMAIN subject \cap Born(c)) \ Terminated(c), o \in Born(c), subject[z] = who,
               who # PI
        PROVE  FALSE
    <3>1. c = Home(o) /\ ActiveClaims(c, who, o) = {}
      BY <1>6, <2>1 DEF AdoptSubject
    <3>2. z \in ActiveClaims(c, who, o)
      BY <2>1, <1>3 DEF ActiveClaims
    <3> QED
      BY <3>1, <3>2
  <2>2. CASE x # o /\ y # o
    BY <2>2, <1>3, <1>4 DEF ClaimsInv
  <2>3. CASE x = o /\ y # o
    BY <2>1, <2>3, <1>4
  <2>4. CASE x # o /\ y = o
    BY <2>1, <2>4, <1>4
  <2> QED
    BY <2>2, <2>3, <2>4
<1>8. ClaimsInv'
  <2>1. DOMAIN subject' \subseteq Minted'
    BY <1>2, <1>3, <1>4, <1>6 DEF ClaimsInv, SameIdentities
  <2>2. prodRevs' = prodRevs
    BY <1>1 DEF compVars
  <2>3. \A c \in Compositions : \A x, y \in (DOMAIN subject' \cap Born(c)') \ Terminated(c)' :
          subject'[x] = subject'[y] /\ subject'[x] # PI => x = y
    BY <1>2, <1>7 DEF SameIdentities
  <2> QED
    BY <1>1, <1>3, <1>4, <2>1, <2>2, <2>3 DEF ClaimsInv
<1> QED
  BY <1>1, <1>2, <1>5, <1>8, WorldParts DEF WorldInv

\* An interpretation is created once per revision.
LEMMA InterpretationStep ==
    ASSUME WorldInv, NEW p \in Ids, NEW frame \in Frames, CreateInterpretation(p, frame),
           UNCHANGED <<assessments, updates>>
    PROVE  WorldInv' /\ CompositionGrows
<1>1. /\ UNCHANGED compVars
      /\ UNCHANGED <<subject, deleted, features, tracks, entityTracks, bindings, selection>>
  BY DEF CreateInterpretation
<1>2. CompositionInv' /\ CompositionGrows /\ SameIdentities /\ EndsFree
  BY <1>1, WorldQuiet DEF WorldInv, compVars
<1>3. ClaimsInv /\ interpreted' = Merge(interpreted, [x \in {p} |-> frame]) /\ p \in IdsOf(prodRevs)
  BY DEF CreateInterpretation, WorldInv, IdsOf
<1>4. /\ DOMAIN interpreted' = DOMAIN interpreted \cup {p}
      /\ interpreted' \in [DOMAIN interpreted' -> Frames]
  BY <1>3 DEF Merge, ClaimsInv
<1>5. AdoptionsGrow
  BY <1>1, <1>4 DEF AdoptionsGrow
<1>6. ClaimsInv'
  <2>1. prodRevs' = prodRevs
    BY <1>1 DEF compVars
  <2> QED
    BY <1>1, <1>2, <1>3, <1>4, <2>1 DEF ClaimsInv, SameIdentities
<1> QED
  BY <1>1, <1>2, <1>5, <1>6, WorldParts DEF WorldInv

\* Entities and their tracks come and go.
LEMMA EntityStep ==
    ASSUME WorldInv, NEW e \in Entities, DeleteEntity(e) \/ EntityTrack(e),
           UNCHANGED <<assessments, updates>>
    PROVE  WorldInv' /\ CompositionGrows
<1>1. /\ UNCHANGED compVars
      /\ UNCHANGED <<subject, interpreted, features, tracks, bindings, selection>>
      /\ deleted' \subseteq deleted \cup {e} /\ entityTracks' \subseteq entityTracks \cup {e}
  BY DEF DeleteEntity, EntityTrack
<1>2. CompositionInv' /\ CompositionGrows /\ SameIdentities /\ EndsFree
  BY <1>1, WorldQuiet DEF WorldInv, compVars
<1>3. AdoptionsGrow
  BY <1>1 DEF AdoptionsGrow
<1>4. ClaimsInv'
  <2>1. prodRevs' = prodRevs
    BY <1>1 DEF compVars
  <2> QED
    BY <1>1, <1>2, <2>1 DEF ClaimsInv, SameIdentities, WorldInv
<1> QED
  BY <1>1, <1>2, <1>3, <1>4, WorldParts DEF WorldInv

\* Instance state is created on a living occurrence, and survives only as a
\* tombstone when it is deleted.
LEMMA FeatureStep ==
    ASSUME WorldInv, UNCHANGED <<assessments, updates>>,
           \/ \E o \in Occurrences, key \in Keys, pred \in Keys \cup {None} :
                 CreateFeature(o, key, pred)
           \/ \E f \in features : DeleteFeature(f)
    PROVE  WorldInv' /\ CompositionGrows
<1>1. /\ UNCHANGED compVars
      /\ UNCHANGED <<subject, deleted, interpreted, tracks, entityTracks, bindings, selection>>
  BY DEF CreateFeature, DeleteFeature
<1>2. CompositionInv' /\ CompositionGrows /\ SameIdentities /\ EndsFree
  BY <1>1, WorldQuiet DEF WorldInv, compVars
<1>3. AdoptionsGrow
  BY <1>1 DEF AdoptionsGrow
<1>4. StateInv /\ LineageInv
  BY DEF WorldInv, CompositionInv
<1>5. StateInv'
  <2>1. ASSUME NEW o \in Occurrences, NEW key \in Keys, NEW pred \in Keys \cup {None},
               CreateFeature(o, key, pred)
        PROVE  StateInv'
    <3>1. PICK g : g = [occ |-> o, key |-> key, live |-> TRUE, supersedes |-> pred]
      OBVIOUS
    <3>2. g \in Feature /\ g.occ = o /\ g.supersedes = pred /\ features' = features \cup {g}
      BY <2>1, <3>1 DEF CreateFeature, Feature
    <3>3. /\ o \in DOMAIN subject /\ subject[o] = PI
          /\ \A c \in Compositions : o \notin Terminated(c)
      BY <1>4, <2>1, LivingRows DEF CreateFeature, RequirePiSubject
    <3>4. pred # None => \E h \in features : h.occ = o /\ h.key = pred
      BY <2>1 DEF CreateFeature, FeaturesOf
    <3>5. VerifyInstanceState'
      BY <1>1, <1>4, <3>2, <3>3, <3>4 DEF VerifyInstanceState, StateInv
    <3>6. \A c \in Compositions : \A x \in Terminated(c)' :
             x \notin tracks' /\ \A f \in FeaturesOf(x)' : ~ f.live
      <4> TAKE c \in Compositions
      <4> TAKE x \in Terminated(c)'
      <4>1. x \in Terminated(c) /\ x # o
        BY <1>2, <3>3 DEF SameIdentities
      <4>2. FeaturesOf(x)' = FeaturesOf(x)
        BY <3>2, <4>1 DEF FeaturesOf
      <4> QED
        BY <1>1, <1>4, <4>1, <4>2 DEF StateInv
    <3> QED
      BY <1>1, <1>4, <3>2, <3>5, <3>6 DEF StateInv, VerifyInstanceSpatial
  <2>2. ASSUME NEW f \in features, DeleteFeature(f) PROVE StateInv'
    <3>1. PICK g : g = [f EXCEPT !.live = FALSE]
      OBVIOUS
    <3>2. f \in Feature
      BY <1>4 DEF StateInv
    <3>3. /\ g \in Feature /\ g.occ = f.occ /\ g.key = f.key /\ g.supersedes = f.supersedes
          /\ ~ g.live /\ features' = (features \ {f}) \cup {g}
      BY <2>2, <3>1, <3>2 DEF DeleteFeature, Feature
    <3>4. \A h \in features' : h.occ \in DOMAIN subject /\ subject[h.occ] = PI
      BY <1>4, <3>3 DEF StateInv, VerifyInstanceState
    <3>5. ASSUME NEW h \in features', h.supersedes # None
          PROVE  \E x \in features' : x.occ = h.occ /\ x.key = h.supersedes
      <4>1. PICK x \in features : x.occ = h.occ /\ x.key = h.supersedes
        BY <1>4, <3>3, <3>5 DEF StateInv, VerifyInstanceState
      <4>2. CASE x = f
        BY <4>1, <4>2, <3>3
      <4>3. CASE x # f
        BY <4>1, <4>3, <3>3
      <4> QED
        BY <4>2, <4>3
    <3>6. VerifyInstanceState'
      BY <1>1, <3>4, <3>5 DEF VerifyInstanceState
    <3>7. \A c \in Compositions : \A x \in Terminated(c)' :
             x \notin tracks' /\ \A h \in FeaturesOf(x)' : ~ h.live
      <4> TAKE c \in Compositions
      <4> TAKE x \in Terminated(c)'
      <4>1. x \in Terminated(c)
        BY <1>2 DEF SameIdentities
      <4>2. \A h \in FeaturesOf(x)' : h \in FeaturesOf(x) \/ ~ h.live
        BY <3>3 DEF FeaturesOf
      <4> QED
        BY <1>1, <1>4, <4>1, <4>2 DEF StateInv
    <3> QED
      BY <1>1, <1>4, <3>3, <3>6, <3>7 DEF StateInv, VerifyInstanceSpatial
  <2> QED
    BY <2>1, <2>2
<1> QED
  BY <1>1, <1>2, <1>3, <1>5, WorldParts DEF WorldInv

\* So are the spatial tracks of an instance.
LEMMA TrackStep ==
    ASSUME WorldInv, UNCHANGED <<assessments, updates>>, NEW o \in Occurrences,
           CreateTrack(o) \/ DeleteTrack(o)
    PROVE  WorldInv' /\ CompositionGrows
<1>1. /\ UNCHANGED compVars
      /\ UNCHANGED <<subject, deleted, interpreted, features, entityTracks, bindings, selection>>
  BY DEF CreateTrack, DeleteTrack
<1>2. CompositionInv' /\ CompositionGrows /\ SameIdentities /\ EndsFree
  BY <1>1, WorldQuiet DEF WorldInv, compVars
<1>3. AdoptionsGrow
  BY <1>1 DEF AdoptionsGrow
<1>4. StateInv /\ LineageInv
  BY DEF WorldInv, CompositionInv
<1>5. /\ o \in DOMAIN subject /\ subject[o] = PI
      /\ \A c \in Compositions : o \notin Terminated(c)
  BY <1>4, LivingRows DEF CreateTrack, DeleteTrack, RequirePiSubject
<1>6. tracks' \subseteq tracks \cup {o}
  BY DEF CreateTrack, DeleteTrack
<1>7. \A c \in Compositions : \A x \in Terminated(c)' :
             x \notin tracks' /\ \A h \in FeaturesOf(x)' : ~ h.live
  BY <1>1, <1>2, <1>4, <1>5, <1>6 DEF SameIdentities, StateInv, FeaturesOf
<1>8. StateInv'
  BY <1>1, <1>4, <1>5, <1>6, <1>7 DEF StateInv, VerifyInstanceState, VerifyInstanceSpatial
<1> QED
  BY <1>1, <1>2, <1>3, <1>8, WorldParts DEF WorldInv

\* A subject is placed by targets of its own kind, and one that is not ambiguous
\* by exactly one.
LEMMA TargetsOf ==
    ASSUME NEW o
    PROVE  /\ SubjectTargets(o) \subseteq Targets
           /\ \A t \in SubjectTargets(o) : (t.kind = "instance_track") = (subject[o] = PI)
           /\ SubjectTargets(o) # {} /\ ~ (Cardinality(SubjectTargets(o)) > 1) =>
                 Cardinality(SubjectTargets(o)) = 1
<1>1. SubjectTargets(o) \subseteq Targets
  BY DEF SubjectTargets, Targets
<1>2. \A t \in SubjectTargets(o) : (t.kind = "instance_track") = (subject[o] = PI)
  BY DEF SubjectTargets
<1>3. IsFiniteSet(Targets)
  <2> DEFINE One == {[kind |-> "frame"]}
             Two == One \cup {[kind |-> "entity_track"]}
             Three == Two \cup {[kind |-> "instance_track"]}
  <2>1. IsFiniteSet(One)
    BY FS_Singleton
  <2>2. IsFiniteSet(Two)
    BY <2>1, FS_AddElement
  <2>3. IsFiniteSet(Three)
    BY <2>2, FS_AddElement
  <2>4. ASSUME NEW t \in Targets PROVE t \in Three
    <3>1. t = [kind |-> t.kind] /\ t.kind \in {"frame", "entity_track", "instance_track"}
      BY DEF Targets
    <3>2. PICK q \in {"frame", "entity_track", "instance_track"} : q = t.kind
      BY <3>1
    <3>3. t = [kind |-> q]
      BY <3>1, <3>2
    <3> QED
      BY <3>3
  <2> QED
    BY <2>3, <2>4, FS_Subset
<1>4. IsFiniteSet(SubjectTargets(o))
  BY <1>1, <1>3, FS_Subset
<1>5. Cardinality(SubjectTargets(o)) \in Nat /\ (SubjectTargets(o) # {} => Cardinality(SubjectTargets(o)) # 0)
  BY <1>4, FS_CardinalityType, FS_EmptySet
<1> QED
  BY <1>1, <1>2, <1>5

\* A candidate without issues verifies when it is stored.
LEMMA CandidateOK ==
    ASSUME WorldInv, NEW rev \in compRevs, NEW b, b.id \in 1..MaxBindings, b.rev = rev.id,
           b.value = DeriveCandidate(rev)
    PROVE  BindingOK(b)
<1>1. RevOf(compRevs, b.rev) = rev /\ b.rev \in IdsOf(compRevs)
  BY RevOfRow DEF WorldInv, CompositionInv, RevisionInv, IdsOf
<1>2. PICK valid : valid = {o \in {x \in DOMAIN rev.entries \cap DOMAIN subject :
                                      rev.entries[x].source.kind = "production"} :
                               ValidSubject(rev, o)}
  OBVIOUS
<1>3. PICK placed : placed = {o \in valid : SubjectTargets(o) # {} /\ ~ Unresolved(rev, o)}
  OBVIOUS
<1>4. /\ b.value.subjects = [o \in valid |-> subject[o]]
      /\ b.value.entries = [o \in placed |-> CHOOSE t \in SubjectTargets(o) : TRUE]
  BY <1>2, <1>3 DEF DeriveCandidate
<1>5. ASSUME NEW o \in placed
      PROVE  /\ b.value.entries[o] \in SubjectTargets(o)
             /\ rev.entries[o].source.id \in DOMAIN interpreted
  <2>1. SubjectTargets(o) # {} /\ ~ Unresolved(rev, o)
    BY <1>3
  <2>2. b.value.entries[o] \in SubjectTargets(o)
    BY <2>1, <1>4
  <2>3. Cardinality(SubjectTargets(o)) = 1
    BY <2>1, TargetsOf DEF Unresolved
  <2> QED
    BY <2>1, <2>2, <2>3 DEF Unresolved
<1>6. \A o \in placed : /\ b.value.entries[o] \in Targets
                        /\ (b.value.entries[o].kind = "instance_track") = (subject[o] = PI)
  BY <1>5, TargetsOf
<1>7. /\ DOMAIN b.value.subjects = valid /\ DOMAIN b.value.entries = placed
      /\ placed \subseteq valid /\ valid \subseteq DOMAIN rev.entries
      /\ valid \subseteq DOMAIN subject
      /\ \A o \in valid : /\ b.value.subjects[o] = subject[o]
                          /\ rev.entries[o].source.kind = "production"
  BY <1>2, <1>3, <1>4
<1> QED
  BY <1>1, <1>5, <1>6, <1>7 DEF BindingOK

\* A binding that may be selected has living subjects, one entity each.
LEMMA SelectableOK ==
    ASSUME WorldInv, NEW b \in bindings, Selectable(b)
    PROVE  SelectedOK(b)
<1>1. PICK rev : rev = RevOf(compRevs, b.rev)
  OBVIOUS
<1>2. BindingOK(b) /\ RevisionInv /\ LineageInv /\ ClaimsInv
  BY DEF WorldInv, CompositionInv, BindingInv
<1>3. rev \in compRevs /\ rev.comp \in Compositions /\ DOMAIN rev.entries \subseteq Born(rev.comp)
  BY <1>1, <1>2, RevisionFacts DEF BindingOK, RevisionInv, CompRev
<1>4. /\ DOMAIN b.value.subjects \subseteq Born(rev.comp) \cap DOMAIN subject
      /\ \A o \in DOMAIN b.value.subjects : subject[o] = b.value.subjects[o]
      /\ DOMAIN b.value.subjects \cap Terminated(rev.comp) = {}
  BY <1>1, <1>2, <1>3 DEF BindingOK, Selectable, SubjectsOf
<1>5. \A c \in Compositions : DOMAIN b.value.subjects \cap Terminated(c) = {}
  <2> TAKE c \in Compositions
  <2>1. Terminated(c) \subseteq Born(c)
    BY <1>2, LineageFacts
  <2>2. c # rev.comp => Born(c) \cap Born(rev.comp) = {}
    BY <1>2, <1>3 DEF LineageInv
  <2> QED
    BY <1>4, <2>1, <2>2
<1>6. \A o, x \in DOMAIN b.value.subjects :
          b.value.subjects[o] = b.value.subjects[x] /\ b.value.subjects[o] # PI => o = x
  BY <1>2, <1>3, <1>4 DEF ClaimsInv
<1> QED
  BY <1>5, <1>6 DEF SelectedOK

\* A candidate is derived for a stored revision.
LEMMA DeriveBindingStep ==
    ASSUME WorldInv, UNCHANGED <<assessments, updates>>, NEW k \in Clients, NEW rev \in compRevs,
           DeriveBinding(k, rev)
    PROVE  WorldInv' /\ CompositionGrows
<1>1. PICK x : x = [op |-> "binding", rev |-> rev.id, value |-> DeriveCandidate(rev)]
  OBVIOUS
<1>2. x.op = "binding" /\ x.rev = rev.id
  BY <1>1
<1>3. RequestOK(x)
  BY <1>2 DEF RequestOK, IdsOf
<1>4. /\ UNCHANGED <<projectActive, prodRevs, provenance, version, working, history, compRevs>>
      /\ UNCHANGED worldOnly /\ req' = [req EXCEPT ![k] = x]
  BY <1>1 DEF DeriveBinding
<1>5. CompositionInv' /\ CompositionGrows /\ EndsFree
  BY <1>3, <1>4, WorldQuiet DEF WorldInv
<1> QED
  BY <1>4, <1>5, WorldFrame

\* A binding is published with the candidate of the moment, once per content.
LEMMA PublishBindingStep ==
    ASSUME WorldInv, UNCHANGED <<assessments, updates>>, NEW k \in Clients, PublishBinding(k)
    PROVE  /\ WorldInv' /\ CompositionGrows
           /\ \A b \in bindings' \ bindings : CurrentComplete(b)
<1>1. PICK rq : rq = req[k]
  OBVIOUS
<1>2. rq.rev \in IdsOf(compRevs) /\ CompositionInv /\ BindingInv /\ RevisionInv
  BY <1>1 DEF WorldInv, CompositionInv, RequestInv, RequestOK, PublishBinding
<1>3. PICK rev : rev = RevOf(compRevs, rq.rev)
  OBVIOUS
<1>4. rev \in compRevs
  BY <1>2, <1>3, RevisionFacts
<1>5. /\ UNCHANGED <<projectActive, prodRevs, provenance, version, working, history, compRevs>>
      /\ UNCHANGED <<subject, deleted, interpreted, features, tracks, entityTracks, selection>>
      /\ req' = [req EXCEPT ![k] = Idle]
  BY DEF PublishBinding, Answer
<1>6. CompositionInv' /\ CompositionGrows /\ SameIdentities /\ EndsFree
  BY <1>2, <1>5, IdleOK, WorldQuiet
<1>7. AdoptionsGrow
  BY <1>5 DEF AdoptionsGrow
<1>8. CASE bindings' = bindings
  <2>1. WorldInv'
    BY <1>5, <1>6, <1>7, <1>8, WorldParts DEF WorldInv
  <2> QED
    BY <2>1, <1>6, <1>8
<1>9. CASE bindings' # bindings
  <2>1. PICK b : b = [id |-> 1 + Cardinality(bindings), rev |-> rev.id,
                      value |-> DeriveCandidate(rev)]
    OBVIOUS
  <2>2. /\ b.id = 1 + Cardinality(bindings) /\ b.rev = rev.id /\ b.value = DeriveCandidate(rev)
    BY <2>1
  <2>3. /\ bindings' = bindings \cup {b} /\ ~ HasIssues(rev) /\ b.id <= MaxBindings
        /\ ~ \E x \in bindings : x.rev = b.rev /\ x.value = b.value
    BY <1>1, <1>3, <1>9, <2>1, <2>2 DEF PublishBinding
  <2>4. Ided(bindings \cup {b}) /\ Cardinality(bindings) \in Nat
    BY <1>2, <2>2, NextId DEF BindingInv
  <2>5. b.id \in 1..MaxBindings
    BY <2>2, <2>3, <2>4 DEF WorldAssumption
  <2>6. BindingOK(b)
    BY <1>4, <2>2, <2>5, CandidateOK
  <2>7. \A x \in bindings' : BindingOK(x)'
    <3>1. \A x \in bindings' : BindingOK(x)
      BY <1>2, <2>3, <2>6 DEF BindingInv
    <3>2. RevsGrow
      BY <1>6 DEF CompositionGrows
    <3> QED
      BY <1>2, <1>7, <3>1, <3>2, BindingGrows
  <2>8. \A x, y \in bindings' : y.rev = x.rev /\ y.value = x.value => y = x
    BY <1>2, <2>3 DEF BindingInv
  <2>9. \A s \in Shots : selection'[s] # 0 =>
          \E x \in bindings' : x.id = selection'[s] /\ SelectedOK(x)'
    BY <1>2, <1>5, <1>6, <2>3, SelectedGrows
  <2>10. BindingInv'
    BY <1>2, <1>5, <2>3, <2>4, <2>7, <2>8, <2>9 DEF BindingInv
  <2>11. WorldInv'
    BY <1>5, <1>6, <1>7, <2>10, WorldParts DEF WorldInv
  <2>12. RevOf(compRevs, b.rev) = rev
    BY <1>2, <1>4, <2>2, RevOfRow DEF RevisionInv
  <2>13. CurrentComplete(b)
    BY <2>2, <2>3, <2>12 DEF CurrentComplete
  <2> QED
    BY <1>6, <2>3, <2>11, <2>13
<1> QED
  BY <1>8, <1>9

\* A shot selects a binding that is current, or none.
LEMMA SelectionStep ==
    ASSUME WorldInv, UNCHANGED <<assessments, updates>>, NEW s \in Shots,
           DeleteSelection(s) \/ \E b \in bindings : PutSelection(s, b)
    PROVE  WorldInv' /\ CompositionGrows
<1>1. /\ UNCHANGED compVars
      /\ UNCHANGED <<subject, deleted, interpreted, features, tracks, entityTracks, bindings>>
  BY DEF DeleteSelection, PutSelection
<1>2. CompositionInv' /\ CompositionGrows /\ SameIdentities /\ EndsFree
  BY <1>1, WorldQuiet DEF WorldInv, compVars
<1>3. AdoptionsGrow
  BY <1>1 DEF AdoptionsGrow
<1>4. BindingInv /\ RevisionInv /\ RevsGrow
  BY <1>2 DEF WorldInv, CompositionInv, CompositionGrows
<1>5. \A b \in bindings' : BindingOK(b)'
  BY <1>1, <1>3, <1>4, BindingGrows DEF BindingInv
<1>6. /\ selection \in [Shots -> 0..MaxBindings]
      /\ \A t \in Shots \ {s} : selection'[t] = selection[t]
      /\ selection' \in [Shots -> 0..MaxBindings]
      /\ selection'[s] # 0 => \E b \in bindings : b.id = selection'[s] /\ SelectedOK(b)
  <2>1. selection \in [Shots -> 0..MaxBindings] /\ \A b \in bindings : b.id \in 0..MaxBindings
    BY <1>4 DEF BindingInv, BindingOK, WorldAssumption
  <2>2. CASE DeleteSelection(s)
    BY <2>1, <2>2 DEF DeleteSelection, WorldAssumption
  <2>3. ASSUME NEW b \in bindings, PutSelection(s, b)
        PROVE  /\ \A t \in Shots \ {s} : selection'[t] = selection[t]
               /\ selection' \in [Shots -> 0..MaxBindings]
               /\ selection'[s] # 0 => \E x \in bindings : x.id = selection'[s] /\ SelectedOK(x)
    <3>1. SelectedOK(b)
      BY <2>3, SelectableOK DEF PutSelection
    <3> QED
      BY <2>1, <2>3, <3>1 DEF PutSelection
  <2> QED
    BY <2>1, <2>2, <2>3
<1>7. \A x : SelectedOK(x) => SelectedOK(x)'
  BY <1>2 DEF SelectedOK, SameIdentities
<1>8. \A t \in Shots : selection'[t] # 0 =>
          \E b \in bindings' : b.id = selection'[t] /\ SelectedOK(b)'
  BY <1>1, <1>4, <1>6, <1>7 DEF BindingInv
<1>9. BindingInv'
  BY <1>1, <1>4, <1>5, <1>6, <1>8 DEF BindingInv
<1> QED
  BY <1>1, <1>2, <1>3, <1>9, WorldParts DEF WorldInv

\* Every step of the production world.
LEMMA WorldStepOK ==
    ASSUME WorldInv, WorldStep, UNCHANGED <<assessments, updates>>
    PROVE  WorldInv' /\ CompositionGrows
<1>1. ASSUME NEW o \in Occurrences, CreateTrack(o) \/ DeleteTrack(o)
      PROVE  WorldInv' /\ CompositionGrows
  BY <1>1, TrackStep
<1>2. ASSUME NEW o \in Occurrences, NEW who \in Entities \cup {PI}, AdoptSubject(o, who)
      PROVE  WorldInv' /\ CompositionGrows
  BY <1>2, AdoptSubjectStep
<1>3. ASSUME NEW o \in Occurrences, NEW key \in Keys, NEW pred \in Keys \cup {None},
             CreateFeature(o, key, pred)
      PROVE  WorldInv' /\ CompositionGrows
  BY <1>3, FeatureStep
<1>4. ASSUME NEW f \in features, DeleteFeature(f) PROVE WorldInv' /\ CompositionGrows
  BY <1>4, FeatureStep
<1>5. ASSUME NEW p \in Ids, NEW frame \in Frames, CreateInterpretation(p, frame)
      PROVE  WorldInv' /\ CompositionGrows
  BY <1>5, InterpretationStep
<1>6. ASSUME NEW e \in Entities, DeleteEntity(e) \/ EntityTrack(e)
      PROVE  WorldInv' /\ CompositionGrows
  BY <1>6, EntityStep
<1>7. ASSUME NEW k \in Clients, PublishBinding(k) PROVE WorldInv' /\ CompositionGrows
  BY <1>7, PublishBindingStep
<1>8. ASSUME NEW k \in Clients, NEW rev \in compRevs, DeriveBinding(k, rev)
      PROVE  WorldInv' /\ CompositionGrows
  BY <1>8, DeriveBindingStep
<1>9. ASSUME NEW s \in Shots, DeleteSelection(s) \/ \E b \in bindings : PutSelection(s, b)
      PROVE  WorldInv' /\ CompositionGrows
  BY <1>9, SelectionStep
<1> QED
  BY <1>1, <1>2, <1>3, <1>4, <1>5, <1>6, <1>7, <1>8, <1>9 DEF WorldStep

-----------------------------------------------------------------------------
(* Assessments and updates.                                                *)

\* Two revisions of one object differ in their bytes, so that a use requires a
\* review unless its target has no reading of the space it needs.
LEMMA VerdictOf ==
    ASSUME ProductionInv, NEW from \in IdsOf(prodRevs), NEW to \in IdsOf(prodRevs), from # to,
           RevOf(prodRevs, from).object = RevOf(prodRevs, to).object, NEW o
    PROVE  FoldVerdict(EvaluateUse(o, from, to)) =
               IF Placement(o) # {} /\ to \notin DOMAIN interpreted
               THEN "INCOMPATIBLE" ELSE "REQUIRES_REVIEW"
<1>1. RevOf(prodRevs, from).blob # RevOf(prodRevs, to).blob
  <2>1. /\ RevOf(prodRevs, from) \in prodRevs /\ RevOf(prodRevs, from).id = from
        /\ RevOf(prodRevs, to) \in prodRevs /\ RevOf(prodRevs, to).id = to
    BY RevOfId DEF ProductionInv
  <2> QED
    BY <2>1 DEF ProductionInv
<1>2. PICK S : S = EvaluateUse(o, from, to)
  OBVIOUS
<1>3. "REVIEW_REQUIRED" \in S
  BY <1>1, <1>2 DEF EvaluateUse
<1>4. "BLOCKED" \in S <=> Placement(o) # {} /\ to \notin DOMAIN interpreted
  BY <1>1, <1>2 DEF EvaluateUse
<1>5. CASE "BLOCKED" \in S
  <2>1. FoldVerdict(S) = "INCOMPATIBLE"
    BY <1>5 DEF FoldVerdict
  <2> QED
    BY <2>1, <1>2, <1>4, <1>5
<1>6. CASE "BLOCKED" \notin S
  <2>1. FoldVerdict(S) = "REQUIRES_REVIEW"
    BY <1>3, <1>6 DEF FoldVerdict
  <2> QED
    BY <2>1, <1>2, <1>4, <1>6
<1> QED
  BY <1>5, <1>6

\* What an apply that passes its checks knows of one selected use.
LEMMA AppliedUse ==
    ASSUME WorldInv, NEW a \in assessments, NEW sel \in SUBSET DOMAIN a.uses, NEW accepted,
           MayApply(a, sel, accepted), NEW o \in sel
    PROVE  /\ Living(o) /\ WorkingRow(o).source = [kind |-> "production", id |-> a.from]
           /\ o \in accepted
           /\ Placement(o) # {} => a.to \in DOMAIN interpreted
<1>1. AssessmentOK(a) /\ o \in DOMAIN a.uses
  BY DEF WorldInv, UpdateInv
<1>2. UseOK(a, o)
  BY <1>1 DEF AssessmentOK
<1>3. /\ Living(o) /\ WorkingRow(o).source = [kind |-> "production", id |-> a.from]
      /\ UseContract(o, a.from, a.to) = a.uses[o].contract
      /\ a.uses[o].verdict # "INCOMPATIBLE"
      /\ a.uses[o].verdict = "REQUIRES_REVIEW" => o \in accepted
  BY DEF MayApply
<1>4. a.uses[o].contract.placement = Placement(o)
  BY <1>3 DEF UseContract
<1>5. o \in accepted
  BY <1>2, <1>3 DEF UseOK
<1>6. Placement(o) # {} => a.to \in DOMAIN interpreted
  BY <1>2, <1>3, <1>4 DEF UseOK
<1> QED
  BY <1>3, <1>5, <1>6

\* An assessment stores the contract and the verdict of every current use.
LEMMA AssessStep ==
    ASSUME WorldInv, NEW from \in Ids, NEW to \in Ids, Assess(from, to)
    PROVE  WorldInv' /\ CompositionGrows
<1>1. UNCHANGED vars /\ UNCHANGED compVars /\ UNCHANGED worldOnly /\ updates' = updates
  BY DEF Assess, vars
<1>2. CompositionInv' /\ CompositionGrows /\ SameIdentities /\ EndsFree
  BY <1>1, WorldQuiet DEF WorldInv, compVars
<1>3. AdoptionsGrow
  BY <1>1 DEF AdoptionsGrow, worldOnly
<1>4. UpdateInv /\ LineageInv /\ ProductionInv
  BY DEF WorldInv, CompositionInv
<1>5. PICK stored : stored = [o \in UsesOf(from) |->
                        [contract |-> UseContract(o, from, to),
                         verdict |-> FoldVerdict(EvaluateUse(o, from, to))]]
  OBVIOUS
<1>6. PICK a : a = [id |-> 1 + Cardinality(assessments), from |-> from, to |-> to, uses |-> stored]
  OBVIOUS
<1>7. a.id = 1 + Cardinality(assessments) /\ a.from = from /\ a.to = to /\ a.uses = stored
  BY <1>6
<1>8. /\ from # to /\ {from, to} \subseteq IdsOf(prodRevs)
      /\ RevOf(prodRevs, from).object = RevOf(prodRevs, to).object
      /\ UsesOf(from) # {} /\ a.id <= MaxAssessments
      /\ assessments' = assessments \cup {a}
  BY <1>5, <1>6, <1>7 DEF Assess, IdsOf
<1>9. Ided(assessments') /\ a.id \in 1..MaxAssessments
  <2>1. Ided(assessments \cup {a}) /\ Cardinality(assessments) \in Nat
    BY <1>4, <1>7, NextId DEF UpdateInv
  <2> QED
    BY <2>1, <1>7, <1>8 DEF CompatibilityAssumption
<1>10. AssessmentOK(a)
  <2>1. DOMAIN a.uses = UsesOf(from)
    BY <1>5, <1>7
  <2>2. UsesOf(from) \subseteq Occurrences
    BY <1>4, LineageFacts DEF UsesOf
  <2>3. ASSUME NEW o \in DOMAIN a.uses PROVE UseOK(a, o)
    <3>1. PICK contract : contract = UseContract(o, from, to)
      OBVIOUS
    <3>2. a.uses[o].contract = contract
          /\ a.uses[o].verdict = FoldVerdict(EvaluateUse(o, from, to))
      BY <1>5, <1>7, <2>1, <2>3, <3>1
    <3>3. contract.spec = WorkingRow(o) /\ contract.placement = Placement(o)
          /\ DOMAIN contract.frames = {from, to} \cap DOMAIN interpreted
      BY <3>1 DEF UseContract
    <3>4. WorkingRow(o).source = [kind |-> "production", id |-> from]
      BY <2>1, <2>3 DEF UsesOf
    <3>5. a.uses[o].verdict = IF Placement(o) # {} /\ to \notin DOMAIN interpreted
                              THEN "INCOMPATIBLE" ELSE "REQUIRES_REVIEW"
      BY <1>4, <1>8, <3>2, VerdictOf
    <3> QED
      BY <1>7, <3>2, <3>3, <3>4, <3>5 DEF UseOK
  <2> QED
    BY <1>7, <1>8, <1>9, <2>1, <2>2, <2>3 DEF AssessmentOK
<1>11. \A b \in assessments' : AssessmentOK(b)'
  <2>1. \A b \in assessments' : AssessmentOK(b)
    BY <1>4, <1>8, <1>10 DEF UpdateInv
  <2> QED
    BY <1>1, <2>1 DEF AssessmentOK, UseOK, compVars, worldOnly
<1>12. \A u \in updates' : UpdateOK(u)'
  BY <1>1, <1>4, <1>8 DEF UpdateInv, UpdateOK
<1>13. UpdateInv'
  BY <1>9, <1>11, <1>12 DEF UpdateInv
<1> QED
  BY <1>1, <1>2, <1>3, <1>13, WorldParts DEF WorldInv, worldOnly

\* A use that is moved keeps all but the revision it shows.
LEMMA AfterSpecOf ==
    ASSUME LineageInv, NEW o, Living(o), NEW from, NEW to,
           WorkingRow(o).source = [kind |-> "production", id |-> from]
    PROVE  /\ AfterSpec(o, to).source = [kind |-> "production", id |-> to]
           /\ AfterSpec(o, to).transform = WorkingRow(o).transform
<1>1. PICK s : s = WorkingRow(o)
  OBVIOUS
<1>2. s \in Specs /\ s.source = [kind |-> "production", id |-> from]
      /\ AfterSpec(o, to) = [s EXCEPT !.source.id = to]
  BY <1>1, LivingRows, LineageFacts DEF WorkingRow, AfterSpec
<1>3. [s EXCEPT !.source.id = to] =
          [source |-> [kind |-> "production", id |-> to], transform |-> s.transform]
  BY <1>2 DEF Specs, Sources
<1> QED
  BY <1>1, <1>2, <1>3

\* An update is of reviewed uses only, and puts them on the target.
LEMMA UpdateWorldStep ==
    ASSUME WorldInv, NEW a \in assessments, NEW sel \in SUBSET DOMAIN a.uses,
           NEW accepted \in SUBSET sel, ApplyUpdate(a, sel, accepted)
    PROVE  WorldInv' /\ CompositionGrows
<1>1. UNCHANGED <<projectActive, prodRevs, provenance, history, compRevs, req>>
      /\ UNCHANGED worldOnly /\ assessments' = assessments /\ sel # {}
      /\ MayApply(a, sel, accepted)
  BY DEF ApplyUpdate
<1>2. CompositionInv' /\ CompositionGrows /\ SameIdentities /\ EndsFree
  BY ApplyUpdateStep, NothingEnds DEF WorldInv, SameIdentities
<1>3. AdoptionsGrow
  BY <1>1 DEF AdoptionsGrow, worldOnly
<1>4. UpdateInv
  BY DEF WorldInv
<1>5. PICK u : u = [assessment |-> a.id, accepted |-> accepted,
                    after |-> [o \in sel |-> AfterSpec(o, a.to)]]
  OBVIOUS
<1>6. /\ u.assessment = a.id /\ u.accepted = accepted /\ DOMAIN u.after = sel
      /\ \A o \in sel : u.after[o] = AfterSpec(o, a.to)
      /\ updates' = updates \cup {u}
  BY <1>5 DEF ApplyUpdate
<1>7. accepted = sel
  BY <1>1, AppliedUse
<1>8. ASSUME NEW o \in sel PROVE u.after[o].source.id = a.to
  <2>1. Living(o) /\ WorkingRow(o).source = [kind |-> "production", id |-> a.from]
    BY <1>1, AppliedUse
  <2>2. AfterSpec(o, a.to).source = [kind |-> "production", id |-> a.to]
    BY <2>1, AfterSpecOf DEF WorldInv, CompositionInv
  <2>3. u.after[o].source = [kind |-> "production", id |-> a.to]
    BY <1>6, <2>2
  <2> QED
    BY <2>3
<1>9. UpdateOK(u)
  BY <1>1, <1>6, <1>7, <1>8 DEF UpdateOK
<1>10. \A b \in assessments' : AssessmentOK(b)'
  BY <1>1, <1>4 DEF UpdateInv, AssessmentOK, UseOK, worldOnly
<1>11. \A v \in updates' : UpdateOK(v)'
  <2>1. \A v \in updates' : UpdateOK(v)
    BY <1>4, <1>6, <1>9 DEF UpdateInv
  <2> QED
    BY <1>1, <2>1 DEF UpdateOK
<1>12. UpdateInv'
  BY <1>1, <1>4, <1>10, <1>11 DEF UpdateInv
<1> QED
  BY <1>1, <1>2, <1>3, <1>12, WorldParts DEF WorldInv, worldOnly

\* A step that changes nothing.
LEMMA StutterOK ==
    ASSUME WorldInv, UNCHANGED compatVars
    PROVE  WorldInv' /\ CompositionGrows
<1>1. UNCHANGED compVars /\ UNCHANGED worldOnly /\ UNCHANGED <<assessments, updates>>
  BY DEF compatVars, vars
<1>2. CompositionInv' /\ CompositionGrows /\ EndsFree
  BY <1>1, WorldQuiet DEF WorldInv, compVars
<1> QED
  BY <1>1, <1>2, WorldFrame

\* Every step of the specification, stuttering included.
LEMMA WorldNext ==
    ASSUME WorldInv, [CompatibilityStep]_compatVars
    PROVE  WorldInv' /\ CompositionGrows
<1>1. CASE CompositionStep /\ UNCHANGED <<worldOnly, assessments, updates>>
  BY <1>1, CompositionStepOK
<1>2. CASE WorldStep /\ UNCHANGED <<assessments, updates>>
  BY <1>2, WorldStepOK
<1>3. ASSUME NEW from \in Ids, NEW to \in Ids, Assess(from, to)
      PROVE  WorldInv' /\ CompositionGrows
  BY <1>3, AssessStep
<1>4. ASSUME NEW a \in assessments, NEW sel \in SUBSET DOMAIN a.uses,
             NEW accepted \in SUBSET sel,
             ApplyUpdate(a, sel, accepted) \/ RetryUpdate(a, sel, accepted)
      PROVE  WorldInv' /\ CompositionGrows
  <2>1. CASE ApplyUpdate(a, sel, accepted)
    BY <2>1, UpdateWorldStep
  <2>2. CASE RetryUpdate(a, sel, accepted)
    BY <2>2, StutterOK DEF RetryUpdate
  <2> QED
    BY <1>4, <2>1, <2>2
<1>5. CASE UNCHANGED compatVars
  BY <1>5, StutterOK
<1> QED
  BY <1>1, <1>2, <1>3, <1>4, <1>5 DEF CompatibilityStep, UpdateStep

-----------------------------------------------------------------------------
(* The initial state and the invariant.                                    *)

\* Nothing is stored at first.
LEMMA InitOK ==
    ASSUME CompatibilityInit
    PROVE  WorldInv
<1>1. /\ projectActive = TRUE /\ prodRevs = {} /\ provenance = {} /\ compRevs = {}
      /\ version = [c \in Compositions |-> 0] /\ working = [c \in Compositions |-> << >>]
      /\ history = [c \in Compositions |-> << >>] /\ req = [k \in Clients |-> Idle]
  BY DEF CompatibilityInit, WorldInit, CompositionInit
<1>2. /\ subject = << >> /\ deleted = {} /\ interpreted = << >> /\ features = {}
      /\ tracks = {} /\ entityTracks = {} /\ bindings = {}
      /\ selection = [s \in Shots |-> 0] /\ assessments = {} /\ updates = {}
  BY DEF CompatibilityInit, WorldInit
<1>3. IsFiniteSet({}) /\ Cardinality({}) = 0
  BY FS_EmptySet
<1>4. Ided({}) /\ Numbered({})
  <2>1. 1..0 = {}
    OBVIOUS
  <2> QED
    BY <1>3, <2>1 DEF Ided, Numbered
<1>5. \A c \in Compositions : Ops(c) = {}
  <2> TAKE c \in Compositions
  <2>1. history[c] = << >>
    BY <1>1
  <2>2. Len(history[c]) = 0
    BY <2>1
  <2> QED
    BY <2>2 DEF Ops
<1>6. \A c \in Compositions : Born(c) = {} /\ Terminated(c) = {}
  BY <1>5 DEF Born, Terminated
<1>7. ProductionInv
  <2>1. \A x \in Objects : RowsOf(prodRevs, x) = {}
    BY <1>1 DEF RowsOf
  <2> QED
    BY <1>1, <1>4, <2>1 DEF ProductionInv
<1>8. << >> \in [{} -> Specs] /\ << >> \in Seq(Operation) /\ DOMAIN << >> = {}
  OBVIOUS
<1>9. LineageInv
  <2>1. working \in [Compositions -> Layouts]
    <3>1. << >> \in Layouts
      BY <1>8 DEF Layouts
    <3> QED
      BY <1>1, <3>1
  <2>2. Minted = 1..0 /\ 0 \in 0..MaxOccurrences
    BY <1>6 DEF Minted, CompositionAssumption
  <2>3. \A c \in Compositions : VerifyIdentityHistory(c)
    <3> TAKE c \in Compositions
    <3>1. Len(history[c]) = 0 /\ DOMAIN working[c] = {}
      BY <1>1, <1>8
    <3>2. 1..Len(history[c]) = {}
      BY <3>1
    <3> QED
      BY <1>6, <3>1, <3>2, HistoryOperations
  <2>4. history \in [Compositions -> Seq(Operation)] /\ version \in [Compositions -> 0..MaxVersion]
    BY <1>1, <1>8 DEF CompositionAssumption
  <2> QED
    BY <1>6, <2>1, <2>2, <2>3, <2>4 DEF LineageInv
<1>10. RevisionInv
  <2>1. \A c \in Compositions : RevsOf(c) = {}
    BY <1>1 DEF RevsOf
  <2> QED
    BY <1>1, <1>4, <2>1 DEF RevisionInv
<1>11. WorkingInv
  BY <1>1, <1>8 DEF WorkingInv
<1>12. RequestInv
  BY <1>1, IdleOK DEF RequestInv
<1>13. ClaimsInv
  <2>1. \A S : << >> \in [DOMAIN << >> -> S]
    BY <1>8
  <2> QED
    BY <1>2, <1>8, <2>1 DEF ClaimsInv
<1>14. StateInv
  BY <1>2, <1>6 DEF StateInv, VerifyInstanceState, VerifyInstanceSpatial
<1>15. BindingInv
  BY <1>2, <1>4 DEF BindingInv, WorldAssumption
<1>16. UpdateInv
  BY <1>2, <1>4 DEF UpdateInv
<1> QED
  BY <1>7, <1>9, <1>10, <1>11, <1>12, <1>13, <1>14, <1>15, <1>16 DEF WorldInv, CompositionInv

\* The invariant of compositions, production world and updates, whatever raced.
THEOREM ProductionInvariant == CompatibilitySpec => []WorldInv
<1>1. WorldInv /\ [CompatibilityStep]_compatVars => WorldInv'
  BY WorldNext
<1> QED
  BY <1>1, InitOK, PTL DEF CompatibilitySpec

-----------------------------------------------------------------------------
(* A walk over the entries finds what the stored closures say.             *)

\* A set of numbers has a least one: no shorter initial interval is among theirs.
LEMMA LeastNumber ==
    ASSUME NEW T \in SUBSET Nat, T # {}
    PROVE  \E m \in T : \A k \in T : m <= k
<1>1. PICK U : U = {1..n : n \in T}
  OBVIOUS
<1>2. U \subseteq FiniteSubsetsOf(Nat)
  <2> SUFFICES ASSUME NEW n \in T PROVE 1..n \in FiniteSubsetsOf(Nat)
    BY <1>1
  <2>1. IsFiniteSet(1..n) /\ 1..n \subseteq Nat
    BY FS_Interval
  <2> QED
    BY <2>1 DEF FiniteSubsetsOf
<1>3. IsWellFoundedOn(StrictSubsetOrdering(Nat), FiniteSubsetsOf(Nat))
  BY FS_StrictSubsetOrderingWellFounded
<1>4. U # {}
  BY <1>1
<1>5. PICK x \in U : \A y \in U : ~ (<<y, x>> \in StrictSubsetOrdering(Nat))
  BY <1>2, <1>3, <1>4, WFMin
<1>6. PICK m \in T : x = 1..m
  BY <1>1
<1>7. ASSUME NEW k \in T, k < m PROVE FALSE
  <2>1. 1..k \in U /\ 1..k \subseteq 1..m /\ m \in 1..m /\ m \notin 1..k
    BY <1>1, <1>7
  <2>2. <<1..k, 1..m>> \in StrictSubsetOrdering(Nat)
    BY <2>1 DEF StrictSubsetOrdering
  <2> QED
    BY <1>5, <1>6, <2>1, <2>2
<1> QED
  BY <1>7

\* The equation of the walk, for a function on the ids.
DirectOf(n) == DirectNested(RevOf(compRevs, n).entries)
Walk(f) ==
    f = [n \in 0..MaxRevisions |->
            IF \E r \in compRevs : r.id = n
            THEN LET below == DirectOf(n) IN below \cup UNION {f[m] : m \in below \cap 0..(n - 1)}
            ELSE {}]

\* The walk has one solution at most: two would differ first at some id.
LEMMA WalkUnique ==
    ASSUME NEW f, NEW g, Walk(f), Walk(g)
    PROVE  f = g
<1>1. /\ f = [n \in 0..MaxRevisions |-> f[n]] /\ g = [n \in 0..MaxRevisions |-> g[n]]
      /\ \A n \in 0..MaxRevisions :
            /\ f[n] = IF \E r \in compRevs : r.id = n
                      THEN DirectOf(n) \cup UNION {f[m] : m \in DirectOf(n) \cap 0..(n - 1)} ELSE {}
            /\ g[n] = IF \E r \in compRevs : r.id = n
                      THEN DirectOf(n) \cup UNION {g[m] : m \in DirectOf(n) \cap 0..(n - 1)} ELSE {}
  BY DEF Walk
<1>2. PICK T : T = {n \in 0..MaxRevisions : f[n] # g[n]}
  OBVIOUS
<1>3. T = {}
  <2> SUFFICES ASSUME T # {} PROVE FALSE
    OBVIOUS
  <2>1. T \in SUBSET Nat
    BY <1>2
  <2>2. PICK n \in T : \A m \in T : n <= m
    BY <2>1, LeastNumber
  <2>3. n \in 0..MaxRevisions /\ n \in Nat /\ MaxRevisions \in Nat
    BY <1>2, <2>1 DEF CompositionAssumption
  <2>4. \A m \in 0..(n - 1) : f[m] = g[m]
    BY <1>2, <2>2, <2>3
  <2>5. UNION {f[m] : m \in DirectOf(n) \cap 0..(n - 1)} = UNION {g[m] : m \in DirectOf(n) \cap 0..(n - 1)}
    BY <2>4
  <2>6. f[n] = g[n]
    BY <1>1, <2>3, <2>5
  <2> QED
    BY <1>2, <2>2, <2>6
<1>4. \A n \in 0..MaxRevisions : f[n] = g[n]
  BY <1>2, <1>3
<1>5. [n \in 0..MaxRevisions |-> f[n]] = [n \in 0..MaxRevisions |-> g[n]]
  BY <1>4
<1> QED
  BY <1>1, <1>5, Zenon

\* The stored closures solve it, because a revision nests earlier ones only.
LEMMA StoredClosureWalks ==
    ASSUME RevisionInv
    PROVE  Walk([n \in 0..MaxRevisions |->
                    IF n \in IdsOf(compRevs) THEN RevOf(compRevs, n).nested ELSE {}])
<1>1. PICK f : f = [n \in 0..MaxRevisions |->
                    IF n \in IdsOf(compRevs) THEN RevOf(compRevs, n).nested ELSE {}]
  OBVIOUS
<1>2. ASSUME NEW n \in 0..MaxRevisions, n \in IdsOf(compRevs)
      PROVE  f[n] = DirectOf(n) \cup UNION {f[m] : m \in DirectOf(n) \cap 0..(n - 1)}
  <2>1. PICK r \in compRevs : r = RevOf(compRevs, n) /\ r.id = n
    BY <1>2, RevisionFacts
  <2>2. ClosureOK(r.comp, r.entries, Closure(r)) /\ \A m \in r.nested : m < n
    BY <2>1 DEF RevisionInv
  <2>3. /\ r.nested = DirectNested(r.entries)
                        \cup UNION {RevOf(compRevs, m).nested : m \in DirectNested(r.entries)}
        /\ r.nested \subseteq IdsOf(compRevs)
    BY <2>2 DEF ClosureOK, Closure, DeriveDependencies
  <2>4. DirectOf(n) = DirectNested(r.entries)
    BY <2>1 DEF DirectOf
  <2>5. ASSUME NEW m \in DirectOf(n)
        PROVE  m \in 0..(n - 1) /\ f[m] = RevOf(compRevs, m).nested
    <3>1. m \in r.nested /\ m \in IdsOf(compRevs)
      BY <2>3, <2>4
    <3>2. m \in Ids /\ m < n
      BY <2>2, <3>1, RevisionFacts
    <3>3. m \in 0..(n - 1) /\ m \in 0..MaxRevisions
      BY <1>2, <3>2 DEF Ids, CompositionAssumption
    <3> QED
      BY <1>1, <3>1, <3>3
  <2>6. UNION {f[m] : m \in DirectOf(n) \cap 0..(n - 1)}
            = UNION {RevOf(compRevs, m).nested : m \in DirectOf(n)}
    BY <2>5
  <2> QED
    BY <1>1, <1>2, <2>1, <2>3, <2>4, <2>6
<1>3. \A n \in 0..MaxRevisions : n \in IdsOf(compRevs) <=> \E r \in compRevs : r.id = n
  BY DEF IdsOf
<1>4. \A n \in 0..MaxRevisions :
          f[n] = IF \E r \in compRevs : r.id = n
                 THEN DirectOf(n) \cup UNION {f[m] : m \in DirectOf(n) \cap 0..(n - 1)} ELSE {}
  BY <1>1, <1>2, <1>3
<1>5. Walk(f)
  <2>1. f = [n \in 0..MaxRevisions |-> f[n]]
    BY <1>1
  <2> QED
    BY <1>4, <2>1 DEF Walk
<1> QED
  BY <1>1, <1>5

\* So the walk finds what is stored.
LEMMA ContainsIsStored ==
    ASSUME RevisionInv, NEW r \in compRevs
    PROVE  Contains[r.id] = r.nested
<1>1. PICK f : f = [n \in 0..MaxRevisions |->
                    IF n \in IdsOf(compRevs) THEN RevOf(compRevs, n).nested ELSE {}]
  OBVIOUS
<1>2. Walk(f)
  BY <1>1, StoredClosureWalks
<1>3. Walk(Contains)
  <2>1. \E g : Walk(g)
    BY <1>2
  <2> QED
    BY <2>1 DEF Contains, Walk, DirectOf
<1>4. Contains = f
  BY <1>2, <1>3, WalkUnique
<1>5. r.id \in IdsOf(compRevs) /\ RevOf(compRevs, r.id) = r /\ r.id \in 0..MaxRevisions
  <2>1. r.id \in IdsOf(compRevs) /\ RevOf(compRevs, r.id) = r
    BY RevOfRow DEF RevisionInv, IdsOf
  <2>2. r.id \in Ids
    BY <2>1, RevisionFacts
  <2> QED
    BY <2>1, <2>2 DEF Ids, CompositionAssumption
<1> QED
  BY <1>1, <1>4, <1>5

\* The verified reader accepts every revision and the closures are exact.
LEMMA ClosuresAreExact ==
    ASSUME CompositionInv
    PROVE  ClosureExact
<1> SUFFICES ASSUME NEW r \in compRevs
             PROVE  /\ VerifyRevisionInvariants(r)
                    /\ r.nested = Contains[r.id]
                    /\ r.prod = UNION {DirectProd(RevOf(compRevs, n).entries) :
                                         n \in Contains[r.id] \cup {r.id}}
                    /\ \A n \in Contains[r.id] : RevOf(compRevs, n).comp # r.comp
  BY DEF ClosureExact
<1>1. RevisionInv
  BY DEF CompositionInv
<1>2. Contains[r.id] = r.nested /\ RevOf(compRevs, r.id) = r
  BY <1>1, ContainsIsStored, RevOfRow DEF RevisionInv
<1>3. DOMAIN r.entries \subseteq Born(r.comp) /\ ClosureOK(r.comp, r.entries, Closure(r))
  BY <1>1 DEF RevisionInv
<1>4. /\ [prod |-> r.prod, nested |-> r.nested] = DeriveDependencies(r.entries)
      /\ r.prod = DirectProd(r.entries)
                    \cup UNION {DirectProd(RevOf(compRevs, n).entries) : n \in r.nested}
      /\ \A n \in r.nested : RevOf(compRevs, n).comp # r.comp
  BY <1>3 DEF ClosureOK, Closure
<1>5. VerifyRevisionInvariants(r)
  BY <1>3, <1>4 DEF VerifyRevisionInvariants
<1>6. UNION {DirectProd(RevOf(compRevs, n).entries) : n \in r.nested \cup {r.id}}
        = DirectProd(r.entries) \cup UNION {DirectProd(RevOf(compRevs, n).entries) : n \in r.nested}
  BY <1>2
<1> QED
  BY <1>2, <1>4, <1>5, <1>6

\* What has ended is out of the working rows, and these show what exists.
LEMMA WorkingPublishes ==
    ASSUME CompositionInv
    PROVE  WorkingIsPublishable
<1>1. ASSUME NEW c \in Compositions PROVE Integrity(c)
  <2>1. DOMAIN working[c] = Born(c) \ Terminated(c)
    BY LineageFacts DEF CompositionInv
  <2>2. \A o \in DOMAIN working[c] : ValidateSource(c, working[c][o].source)
    BY DEF CompositionInv, WorkingInv
  <2> QED
    BY <2>1, <2>2 DEF Integrity
<1> QED
  BY <1>1 DEF WorkingIsPublishable

\* The internal checks of the composition service never fire: lineages verify,
\* working rows can be published, and the closure a publication stored is the one
\* a walk over the immutable entries finds, so that no revision contains one of
\* its own composition.
THEOREM CompositionsStaySound == CompatibilitySpec => []CompositionSound
<1>1. ASSUME WorldInv PROVE CompositionSound
  <2>1. CompositionInv
    BY <1>1 DEF WorldInv
  <2>2. LineageSound
    BY <2>1 DEF CompositionInv, LineageInv, LineageSound
  <2> QED
    BY <2>1, <2>2, ClosuresAreExact, WorkingPublishes DEF CompositionSound
<1> QED
  BY <1>1, ProductionInvariant, PTL

-----------------------------------------------------------------------------
(* Publications.                                                           *)

\* Racing publications of one content converge on one revision, numbers have no
\* gap, and every asset that was asked for stays linked to a revision with its
\* bytes.
THEOREM PublicationsAlwaysConverge == CompatibilitySpec => []PublicationsConverge
<1>1. ASSUME WorldInv PROVE PublicationsConverge
  <2>1. ProductionInv /\ RevisionInv
    BY <1>1 DEF WorldInv, CompositionInv
  <2>2. \A c \in Compositions : {r.number : r \in RevsOf(c)} = 1..Cardinality(RevsOf(c))
    BY <2>1 DEF RevisionInv, Numbered
  <2>3. ASSUME NEW x \in Objects, NEW revs, revs = {r \in prodRevs : r.object = x}
        PROVE  {r.number : r \in revs} = 1..Cardinality(revs)
    <3>1. revs = RowsOf(prodRevs, x)
      BY <2>3 DEF RowsOf
    <3>2. Numbered(revs)
      BY <2>1, <3>1 DEF ProductionInv
    <3> QED
      BY <3>2 DEF Numbered
  <2>4. RevisionsConverge
    <3>1. \A x \in Objects : LET revs == {r \in prodRevs : r.object = x}
                             IN {r.number : r \in revs} = 1..Cardinality(revs)
      BY <2>3
    <3> QED
      BY <2>1, <2>2, <3>1 DEF RevisionsConverge, ProductionInv, RevisionInv
  <2>5. ASSUME NEW r \in prodRevs PROVE VerifySourceProvenance(r)
    <3>1. PICK p \in provenance : p[1] = r.id
      BY <2>1 DEF ProductionInv
    <3>2. p[2] \in {q[2] : q \in {x \in provenance : x[1] = r.id}}
      BY <3>1
    <3>3. ASSUME NEW q \in provenance, q[1] = r.id PROVE BlobOf[q[2]] = r.blob
      <4>1. PICK s \in prodRevs : s.id = q[1] /\ s.blob = BlobOf[q[2]]
        BY <2>1 DEF ProductionInv
      <4>2. s = r
        BY <2>1, <3>3, <4>1 DEF ProductionInv, Ided
      <4> QED
        BY <4>1, <4>2
    <3> QED
      BY <3>2, <3>3 DEF VerifySourceProvenance
  <2> QED
    BY <2>4, <2>5 DEF PublicationsConverge, ProvenanceKept
<1> QED
  BY <1>1, ProductionInvariant, PTL

-----------------------------------------------------------------------------
(* Ownership.                                                              *)

\* What has ended owns no live state and is no subject of a selected binding, and
\* in a selected binding no two occurrences stand for one entity.
THEOREM OwnershipHolds == CompatibilitySpec => []OwnershipSound
<1>1. ASSUME WorldInv PROVE OwnershipSound
  <2>1. StateInv /\ BindingInv
    BY <1>1 DEF WorldInv
  <2>2. \A s \in Shots : selection[s] # 0 => SelectedOK(BindingOf(selection[s]))
    BY <2>1, SelectedBinding
  <2>3. EndedOwnsNothing
    BY <2>1, <2>2 DEF EndedOwnsNothing, StateInv, SelectedOK, SubjectsOf
  <2>4. SelectedClaimsDistinct
    BY <2>2 DEF SelectedClaimsDistinct, SelectedOK
  <2> QED
    BY <2>3, <2>4 DEF OwnershipSound
<1> QED
  BY <1>1, ProductionInvariant, PTL

-----------------------------------------------------------------------------
(* Stored records verify.                                                  *)

\* Types.
LEMMA TypesHold ==
    ASSUME WorldInv
    PROVE  CompatibilityTypeOK
<1>1. CompositionInv /\ ClaimsInv /\ StateInv /\ BindingInv /\ UpdateInv
  BY DEF WorldInv
<1>2. ProductionInv /\ LineageInv /\ RevisionInv
  BY <1>1 DEF CompositionInv
<1>3. CompositionTypeOK
  <2>1. \A c \in Compositions :
          /\ DOMAIN working[c] \subseteq Occurrences
          /\ \A o \in DOMAIN working[c] : working[c][o] \in Specs
          /\ \A p \in Ops(c) : p \in Operation
    BY <1>2, LineageFacts
  <2> QED
    BY <1>2, <2>1 DEF CompositionTypeOK, ProductionInv, LineageInv, RevisionInv
<1>4. Minted \subseteq Occurrences
  <2>1. PICK n \in 0..MaxOccurrences : Minted = 1..n
    BY <1>2 DEF LineageInv
  <2> QED
    BY <2>1 DEF Occurrences, CompositionAssumption
<1>5. IdsOf(prodRevs) \subseteq Ids /\ IdsOf(compRevs) \subseteq Ids
  BY <1>2 DEF ProductionInv, RevisionInv, IdsOf, ProdRev, CompRev
<1>6. WorldTypeOK
  <2>1. \A b \in bindings :
        /\ b.id \in 1..MaxBindings /\ b.rev \in Ids
        /\ DOMAIN b.value.entries \subseteq DOMAIN b.value.subjects
        /\ \A o \in DOMAIN b.value.entries : b.value.entries[o] \in Targets
    BY <1>1, <1>5 DEF BindingInv, BindingOK
  <2>2. DOMAIN subject \subseteq Occurrences /\ tracks \subseteq Occurrences
    BY <1>1, <1>4 DEF ClaimsInv, StateInv
  <2>3. \A o \in DOMAIN subject : subject[o] \in Entities \cup {PI}
    BY <1>1 DEF ClaimsInv
  <2>4. DOMAIN interpreted \subseteq Ids /\ \A p \in DOMAIN interpreted : interpreted[p] \in Frames
    BY <1>1, <1>5 DEF ClaimsInv
  <2> QED
    BY <1>1, <1>3, <2>1, <2>2, <2>3, <2>4 DEF WorldTypeOK, ClaimsInv, StateInv, BindingInv
<1>7. \A a \in assessments :
        /\ a.id \in 1..MaxAssessments /\ {a.from, a.to} \subseteq Ids
        /\ \A o \in DOMAIN a.uses : o \in Occurrences /\ a.uses[o].verdict \in Verdicts
  BY <1>1, <1>5 DEF UpdateInv, AssessmentOK, UseOK, Verdicts
<1>8. \A u \in updates : u.assessment \in 1..MaxAssessments /\ u.accepted \subseteq DOMAIN u.after
  BY <1>1 DEF UpdateInv, UpdateOK, AssessmentOK
<1> QED
  BY <1>6, <1>7, <1>8 DEF CompatibilityTypeOK

\* Bindings.
LEMMA StoredBindingsVerify ==
    ASSUME WorldInv
    PROVE  BindingsVerify /\ VerifyBindings /\ VerifySelection
<1>1. BindingInv /\ \A b \in bindings : BindingOK(b)
  BY DEF WorldInv, BindingInv
<1>2. \A b \in bindings : ValidateStoredBinding(b)
  BY <1>1 DEF BindingOK, ValidateStoredBinding, SubjectsOf, IdsOf
<1>3. BindingsVerify
  BY <1>1, <1>2 DEF BindingsVerify, BindingInv
<1>4. VerifyBindings
  BY <1>1 DEF BindingOK, VerifyBindings, IdsOf
<1>5. VerifySelection
  BY <1>1 DEF BindingInv, VerifySelection
<1> QED
  BY <1>3, <1>4, <1>5

\* Assessments and updates.
LEMMA StoredUpdatesVerify ==
    ASSUME WorldInv
    PROVE  UpdatesAreReviewed /\ VerdictsReproduce /\ VerifyAssessments /\ VerifyUpdates
<1>1. UpdateInv /\ ProductionInv /\ LineageInv
  BY DEF WorldInv, CompositionInv
<1>2. UpdatesAreReviewed /\ VerifyUpdates
  BY <1>1 DEF UpdateInv, UpdateOK, UpdatesAreReviewed, VerifyUpdates
<1>3. VerifyAssessments
  <2> SUFFICES ASSUME NEW a \in assessments
               PROVE  /\ {a.from, a.to} \subseteq {r.id : r \in prodRevs}
                      /\ RevOf(prodRevs, a.from).object = RevOf(prodRevs, a.to).object
                      /\ a.uses # << >>
                      /\ \A o \in DOMAIN a.uses : a.uses[o].contract.spec.source.id = a.from
    BY DEF VerifyAssessments
  <2>1. AssessmentOK(a)
    BY <1>1 DEF UpdateInv
  <2>2. a.uses # << >>
    <3>1. DOMAIN << >> = {}
      OBVIOUS
    <3> QED
      BY <2>1, <3>1 DEF AssessmentOK
  <2>3. \A o \in DOMAIN a.uses : a.uses[o].contract.spec.source.id = a.from
    <3> TAKE o \in DOMAIN a.uses
    <3>1. a.uses[o].contract.spec.source = [kind |-> "production", id |-> a.from]
      BY <2>1 DEF AssessmentOK, UseOK
    <3> QED
      BY <3>1
  <2> QED
    BY <2>1, <2>2, <2>3 DEF AssessmentOK, IdsOf
<1>4. VerdictsReproduce
  <2> SUFFICES ASSUME NEW a \in assessments, NEW o \in DOMAIN a.uses,
                      UseContract(o, a.from, a.to) = a.uses[o].contract
               PROVE  FoldVerdict(EvaluateUse(o, a.from, a.to)) = a.uses[o].verdict
    BY DEF VerdictsReproduce
  <2>1. AssessmentOK(a) /\ UseOK(a, o)
    BY <1>1 DEF UpdateInv, AssessmentOK
  <2>2. PICK contract : contract = a.uses[o].contract
    OBVIOUS
  <2>3. contract.placement = Placement(o)
        /\ DOMAIN contract.frames = {a.from, a.to} \cap DOMAIN interpreted
    BY <2>2 DEF UseContract
  <2>4. FoldVerdict(EvaluateUse(o, a.from, a.to)) =
               IF Placement(o) # {} /\ a.to \notin DOMAIN interpreted
               THEN "INCOMPATIBLE" ELSE "REQUIRES_REVIEW"
    BY <1>1, <2>1, VerdictOf DEF AssessmentOK
  <2> QED
    BY <2>1, <2>2, <2>3, <2>4 DEF UseOK
<1> QED
  BY <1>2, <1>3, <1>4

\* The claims of the living are unique, as recovery counts them.
LEMMA ClaimsVerify ==
    ASSUME WorldInv
    PROVE  VerifySubjects
<1>1. ClaimsInv /\ LineageInv
  BY DEF WorldInv, CompositionInv
<1>2. ASSUME NEW c \in Compositions, NEW e \in Entities
      PROVE  Cardinality(ActiveClaims(c, e, 0)) <= 1
  <2>1. PICK A : A = ActiveClaims(c, e, 0)
    OBVIOUS
  <2>2. \A x, y \in A : x = y
    BY <1>1, <2>1 DEF ActiveClaims, ClaimsInv, WorldAssumption
  <2>3. CASE A = {}
    BY <2>1, <2>3, FS_EmptySet
  <2>4. CASE A # {}
    <3>1. PICK x \in A : TRUE
      BY <2>4
    <3>2. A = {x}
      BY <2>2, <3>1
    <3>3. Cardinality(A) = 1
      BY <3>2, FS_Singleton
    <3> QED
      BY <2>1, <3>3
  <2> QED
    BY <2>3, <2>4
<1> QED
  BY <1>1, <1>2 DEF VerifySubjects, ClaimsInv

\* Closures, as recovery derives them.
LEMMA RevisionsVerify ==
    ASSUME WorldInv
    PROVE  \A r \in compRevs : VerifyRevisionSync(r)
<1> TAKE r \in compRevs
<1>1. DOMAIN r.entries \subseteq Born(r.comp) /\ ClosureOK(r.comp, r.entries, Closure(r))
  BY DEF WorldInv, CompositionInv, RevisionInv
<1>2. /\ Closure(r) = DeriveDependencies(r.entries)
      /\ \A n \in r.nested : RevOf(compRevs, n).comp # r.comp
  BY <1>1 DEF ClosureOK, Closure
<1>3. Closure(r).prod = r.prod /\ Closure(r).nested = r.nested
  BY DEF Closure
<1>4. /\ r.prod = DirectProd(r.entries)
                    \cup UNION {RevOf(compRevs, n).prod : n \in DirectNested(r.entries)}
      /\ r.nested = DirectNested(r.entries)
                    \cup UNION {RevOf(compRevs, n).nested : n \in DirectNested(r.entries)}
  BY <1>2, <1>3 DEF DeriveDependencies
<1> QED
  BY <1>1, <1>2, <1>4 DEF VerifyRevisionSync

\* Every stored record is accepted by its readers, by the apply that recomputes a
\* verdict, and by the semantic verification of a backup and of a restore.
THEOREM RecordsAlwaysVerify == CompatibilitySpec => []RecordsVerify
<1>1. ASSUME WorldInv PROVE RecordsVerify
  <2>1. VerifyLineage
    BY <1>1 DEF WorldInv, CompositionInv, LineageInv, VerifyLineage
  <2>2. VerifyInstanceState /\ VerifyInstanceSpatial
    BY <1>1 DEF WorldInv, StateInv
  <2>3. VerifyBindings /\ VerifySelection /\ BindingsVerify
    BY <1>1, StoredBindingsVerify
  <2>4. UpdatesAreReviewed /\ VerdictsReproduce /\ VerifyAssessments /\ VerifyUpdates
    BY <1>1, StoredUpdatesVerify
  <2>5. RecoveryAccepts
    BY <1>1, <2>1, <2>2, <2>3, <2>4, ClaimsVerify, RevisionsVerify DEF RecoveryAccepts
  <2> QED
    BY <1>1, <2>3, <2>4, <2>5, TypesHold DEF RecordsVerify
<1> QED
  BY <1>1, ProductionInvariant, PTL

-----------------------------------------------------------------------------
(* Commits are derived from the state of their instant.                    *)

\* A revision is added by a publication only.
LEMMA PublishedStep ==
    ASSUME WorldInv, [CompatibilityStep]_compatVars
    PROVE  /\ compRevs \subseteq compRevs'
           /\ \A r \in compRevs' \ compRevs : r.entries = working[r.comp] /\ projectActive
<1>0. CompositionInv
  BY DEF WorldInv
<1>1. CASE \E k \in Clients : PublishComposition(k)
  BY <1>0, <1>1, PublishCompositionOK DEF RevsGrow
<1>2. CASE CompositionStep /\ ~ \E k \in Clients : PublishComposition(k)
  <2>1. ASSUME NEW k \in Clients,
               \/ PublishProduction(k) \/ PatchOccurrence(k) \/ FreezePublish(k)
               \/ \E obj \in Objects, a \in Assets : ReadyProduction(k, obj, a)
               \/ \E c \in Compositions : BeginPublish(k, c)
        PROVE  compRevs' = compRevs
    BY <2>1 DEF PublishProduction, PatchOccurrence, FreezePublish, ReadyProduction, BeginPublish
  <2>2. ASSUME NEW k \in Clients, NEW c, NEW o, NEW spec, ReadPatch(k, c, o, spec)
        PROVE  compRevs' = compRevs
    BY <2>2 DEF ReadPatch
  <2>3. ASSUME NEW k \in Clients, NEW c, NEW kind, NEW sources, NEW specs, NEW blockers,
               PreviewIdentity(k, c, kind, sources, specs, blockers)
        PROVE  compRevs' = compRevs
    BY <2>3 DEF PreviewIdentity
  <2>4. ASSUME NEW k \in Clients, NEW blockers, ApplyIdentity(k, blockers)
        PROVE  compRevs' = compRevs
    BY <2>4 DEF ApplyIdentity
  <2>5. ASSUME NEW c, NEW spec, MintOccurrence(c, spec) PROVE compRevs' = compRevs
    BY <2>5 DEF MintOccurrence
  <2>6. DeleteProject => compRevs' = compRevs
    BY DEF DeleteProject
  <2>7. compRevs' = compRevs
    BY <1>2, <2>1, <2>2, <2>3, <2>4, <2>5, <2>6 DEF CompositionStep
  <2> QED
    BY <2>7
<1>3. CASE WorldStep
  <2>1. compRevs' = compRevs
    BY <1>3 DEF WorldStep, CreateTrack, DeleteTrack, AdoptSubject, CreateFeature, DeleteFeature,
         CreateInterpretation, DeleteEntity, EntityTrack, PublishBinding, DeriveBinding,
         DeleteSelection, PutSelection, compVars
  <2> QED
    BY <2>1
<1>4. CASE UpdateStep \/ UNCHANGED compatVars
  <2>1. compRevs' = compRevs
    BY <1>4 DEF UpdateStep, Assess, ApplyUpdate, RetryUpdate, compatVars, vars, compVars
  <2> QED
    BY <2>1
<1> QED
  BY <1>1, <1>2, <1>3, <1>4 DEF CompatibilityStep

\* A binding is added by its publication only.
LEMMA BindingAddedStep ==
    ASSUME WorldInv, [CompatibilityStep]_compatVars
    PROVE  \A b \in bindings' \ bindings : CurrentComplete(b)
<1>1. ASSUME NEW k \in Clients, PublishBinding(k), UNCHANGED <<assessments, updates>>
      PROVE  \A b \in bindings' \ bindings : CurrentComplete(b)
  BY <1>1, PublishBindingStep
<1>2. CASE WorldStep /\ UNCHANGED <<assessments, updates>> /\ ~ \E k \in Clients : PublishBinding(k)
  <2>1. bindings' = bindings
    BY <1>2 DEF WorldStep, CreateTrack, DeleteTrack, AdoptSubject, CreateFeature, DeleteFeature,
         CreateInterpretation, DeleteEntity, EntityTrack, DeriveBinding, DeleteSelection,
         PutSelection, worldOnly
  <2> QED
    BY <2>1
<1>3. CASE CompositionStep /\ UNCHANGED <<worldOnly, assessments, updates>>
  BY <1>3 DEF worldOnly
<1>4. CASE UpdateStep \/ UNCHANGED compatVars
  <2>1. bindings' = bindings
    BY <1>4 DEF UpdateStep, Assess, ApplyUpdate, RetryUpdate, compatVars, vars, worldOnly
  <2> QED
    BY <2>1
<1> QED
  BY <1>1, <1>2, <1>3, <1>4 DEF CompatibilityStep

\* An update is added by an apply, of uses that were as they had been assessed.
LEMMA UpdateAddedStep ==
    ASSUME WorldInv, [CompatibilityStep]_compatVars
    PROVE  \A u \in updates' \ updates : \A o \in DOMAIN u.after :
               /\ Living(o) /\ WorkingRow(o).transform = u.after[o].transform
               /\ OwnerOf(WorkingRow(o).source) = OwnerOf(u.after[o].source)
               /\ Placement(o) # {} => u.after[o].source.id \in DOMAIN interpreted
<1>1. ASSUME NEW a \in assessments, NEW sel \in SUBSET DOMAIN a.uses,
             NEW accepted \in SUBSET sel, ApplyUpdate(a, sel, accepted),
             NEW u \in updates' \ updates, NEW o \in DOMAIN u.after
      PROVE  /\ Living(o) /\ WorkingRow(o).transform = u.after[o].transform
             /\ OwnerOf(WorkingRow(o).source) = OwnerOf(u.after[o].source)
             /\ Placement(o) # {} => u.after[o].source.id \in DOMAIN interpreted
  <2>1. u = [assessment |-> a.id, accepted |-> accepted,
             after |-> [x \in sel |-> AfterSpec(x, a.to)]]
    BY <1>1 DEF ApplyUpdate
  <2>2. o \in sel /\ u.after[o] = AfterSpec(o, a.to)
    BY <2>1
  <2>3. /\ Living(o) /\ WorkingRow(o).source = [kind |-> "production", id |-> a.from]
        /\ Placement(o) # {} => a.to \in DOMAIN interpreted
    <3>1. MayApply(a, sel, accepted)
      BY <1>1 DEF ApplyUpdate
    <3> QED
      BY <1>1, <2>2, <3>1, AppliedUse
  <2>4. /\ AfterSpec(o, a.to).source = [kind |-> "production", id |-> a.to]
        /\ AfterSpec(o, a.to).transform = WorkingRow(o).transform
    BY <2>3, AfterSpecOf DEF WorldInv, CompositionInv
  <2>5. PICK s : s = WorkingRow(o).source
    OBVIOUS
  <2>6. PICK t : t = u.after[o].source
    OBVIOUS
  <2>7. s.kind = "production" /\ s.id = a.from /\ t.kind = "production" /\ t.id = a.to
    BY <2>2, <2>3, <2>4, <2>5, <2>6
  <2>8. RevOf(prodRevs, a.from).object = RevOf(prodRevs, a.to).object
    BY DEF WorldInv, UpdateInv, AssessmentOK
  <2>9. OwnerOf(s) = OwnerOf(t)
    BY <2>7, <2>8 DEF OwnerOf
  <2> QED
    BY <2>2, <2>3, <2>4, <2>5, <2>6, <2>7, <2>9
<1>2. CASE UpdateStep
  <2>1. ASSUME NEW from \in Ids, NEW to \in Ids, Assess(from, to) PROVE updates' = updates
    BY <2>1 DEF Assess
  <2>2. ASSUME NEW a \in assessments, NEW sel, NEW accepted, RetryUpdate(a, sel, accepted)
        PROVE  updates' = updates
    BY <2>2 DEF RetryUpdate, compatVars
  <2> QED
    BY <1>1, <1>2, <2>1, <2>2 DEF UpdateStep
<1>3. CASE (CompositionStep \/ WorldStep) /\ UNCHANGED updates
  BY <1>3
<1>4. CASE UNCHANGED compatVars
  BY <1>4 DEF compatVars
<1> QED
  BY <1>2, <1>3, <1>4 DEF CompatibilityStep

\* What is committed is derived from the state of the instant of the commit,
\* although its operation reads before it takes the fence: revisions from the
\* working rows, bindings from the current candidate, updates from an assessment
\* that still holds; and working content never changes without its version.
THEOREM CommitsStayCurrent == CompatibilitySpec => CommitsAreCurrent
<1>1. WorldInv /\ [CompatibilityStep]_compatVars =>
        [/\ compRevs \subseteq compRevs'
         /\ \A r \in compRevs' \ compRevs : r.entries = working[r.comp] /\ projectActive]_compVars
  BY PublishedStep
<1>2. WorldInv /\ [CompatibilityStep]_compatVars =>
        [\A b \in bindings' \ bindings : CurrentComplete(b)]_vars
  BY BindingAddedStep
<1>3. WorldInv /\ [CompatibilityStep]_compatVars =>
        [\A u \in updates' \ updates : \A o \in DOMAIN u.after :
           /\ Living(o) /\ WorkingRow(o).transform = u.after[o].transform
           /\ OwnerOf(WorkingRow(o).source) = OwnerOf(u.after[o].source)
           /\ Placement(o) # {} => u.after[o].source.id \in DOMAIN interpreted]_compatVars
  BY UpdateAddedStep
<1>4. WorldInv /\ [CompatibilityStep]_compatVars =>
        [\A c \in Compositions : working'[c] # working[c] => version'[c] = version[c] + 1]_compatVars
  BY WorldNext DEF CompositionGrows, Moves
<1>5. CompatibilitySpec => PublishedIsWorking
  BY <1>1, ProductionInvariant, PTL DEF CompatibilitySpec, PublishedIsWorking
<1>6. CompatibilitySpec => BindingIsCandidate
  BY <1>2, ProductionInvariant, PTL DEF CompatibilitySpec, BindingIsCandidate
<1>7. CompatibilitySpec => UpdatesKeepPlacement
  BY <1>3, ProductionInvariant, PTL DEF CompatibilitySpec, UpdatesKeepPlacement
<1>8. CompatibilitySpec => VersionCoversWorking
  BY <1>4, ProductionInvariant, PTL DEF CompatibilitySpec, VersionCoversWorking
<1> QED
  BY <1>5, <1>6, <1>7, <1>8 DEF CommitsAreCurrent
=============================================================================
