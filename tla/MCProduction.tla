---------------------------- MODULE MCProduction ----------------------------
(* Six groups of operations, one per behaviour, so that their state spaces   *)
(* add up.  Each but the first starts where the program stands after some     *)
(* publications and mints:                                                    *)
(*   publish  two publishers of production content;                           *)
(*   lineage  identity operations, patches and publication of one composition;*)
(*   nest     two compositions that may nest each other;                      *)
(*   claims   claims and instance state of two occurrences beside removals;   *)
(*   world    claims, bindings and a selection beside removals;               *)
(*   update   assessments and updates, beside patches and interpretations.    *)
EXTENDS ProductionRecovery, TLC

CONSTANTS C, D, X, Y, A1, A2, A3, B1, B2, E1, K1

VARIABLE group

MCBlobOf == (A1 :> B1) @@ (A2 :> B2) @@ (A3 :> B1)

Prod(id) == [kind |-> "production", id |-> id]
At(s) == [source |-> s, transform |-> "origin"]
Show(s, t) == [source |-> s, transform |-> t]

Mint(n) == [kind |-> "mint", before |-> n - 1, sources |-> {}, targets |-> {n}]

\* X has one revision per blob; n occurrences of the first are in C, and the
\* state with them is published when frozen.
Seed(n, frozen) ==
    /\ prodRevs = {[id |-> 1, object |-> X, number |-> 1, blob |-> B1],
                   [id |-> 2, object |-> X, number |-> 2, blob |-> B2]}
    /\ provenance = {<<1, A1>>, <<2, A2>>}
    /\ version = [c \in Compositions |-> IF c = C THEN n ELSE 0]
    /\ working = [c \in Compositions |-> IF c = C THEN [o \in 1..n |-> At(Prod(1))] ELSE << >>]
    /\ history = [c \in Compositions |-> IF c = C THEN [i \in 1..n |-> Mint(i)] ELSE << >>]
    /\ compRevs = IF frozen THEN {[id |-> 1, comp |-> C, number |-> 1,
                                   entries |-> [o \in 1..n |-> At(Prod(1))],
                                   prod |-> {1}, nested |-> {}]}
                  ELSE {}

MCInit ==
    /\ group \in {"publish", "lineage", "nest", "claims", "world", "update"}
    /\ projectActive = TRUE
    /\ req = [k \in Clients |-> Idle]
    /\ CASE group = "publish" -> /\ prodRevs = {} /\ provenance = {} /\ compRevs = {}
                                 /\ version = [c \in Compositions |-> 0]
                                 /\ working = [c \in Compositions |-> << >>]
                                 /\ history = [c \in Compositions |-> << >>]
         [] group = "lineage" -> Seed(2, FALSE)
         [] group = "nest" -> Seed(1, TRUE)
         [] group \in {"claims", "world"} -> Seed(2, TRUE)
         [] group = "update" -> Seed(2, FALSE)
    /\ subject = << >> /\ deleted = {} /\ interpreted = << >> /\ features = {}
    /\ tracks = {} /\ entityTracks = {} /\ bindings = {}
    /\ selection = [s \in Shots |-> 0]
    /\ assessments = {} /\ updates = {}

Keep == UNCHANGED <<worldOnly, assessments, updates>>
KeepUpdates == UNCHANGED <<assessments, updates>>

Publishing ==
    /\ group = "publish" /\ Keep
    /\ \/ DeleteProject
       \/ \E k \in Clients : \/ \E obj \in Objects, a \in Assets : ReadyProduction(k, obj, a)
                             \/ PublishProduction(k)

\* What the clients ask for: sources of at most two, and one spec for all targets.
Identity(k, kinds, specs) ==
    \/ \E kind \in kinds, S \in SUBSET Born(C), n \in 0..2, spec \in specs :
          /\ Cardinality(S) <= 2
          /\ PreviewIdentity(k, C, kind, S, [i \in 1..n |-> spec], LiveBlockers(S))
    \/ req[k].op = "identity" /\ ApplyIdentity(k, LiveBlockers(req[k].sources))

Freezing(k, c) ==
    \/ BeginPublish(k, c) \/ FreezePublish(k) \/ PublishComposition(k)

Lineage ==
    /\ group = "lineage" /\ Keep
    /\ \/ DeleteProject
       \/ Identity(K1, Kinds \ {"mint"}, {At(Prod(1))})
       \/ \E k \in Clients \ {K1} :
            \/ Identity(k, {"merge"}, {At(Prod(1))})
            \/ ReadPatch(k, C, 1, Show(Prod(1), "moved"))
            \/ PatchOccurrence(k)
       \/ \E k \in Clients : Freezing(k, C)

Nesting ==
    /\ group = "nest" /\ Keep
    /\ \/ \E c \in Compositions, s \in Sources \ {Prod(2)} : MintOccurrence(c, At(s))
       \/ \E c \in Compositions, o \in Occurrences, s \in Sources : ReadPatch(K1, c, o, At(s))
       \/ PatchOccurrence(K1)
       \/ \E c \in Compositions : Freezing(K1, c)

Adopting == \E o \in {1, 2}, who \in Entities \cup {PI} : AdoptSubject(o, who)

Claiming ==
    /\ group = "claims" /\ KeepUpdates
    /\ \/ \E k \in Clients : Identity(k, {"remove"}, {At(Prod(1))}) /\ UNCHANGED worldOnly
       \/ Adopting
       \/ \E key \in Keys, pred \in Keys \cup {None} : CreateFeature(1, key, pred)
       \/ \E f \in features : DeleteFeature(f)
       \/ \E o \in {1, 2} : CreateTrack(o) \/ DeleteTrack(o)

Worlding ==
    /\ group = "world" /\ KeepUpdates
    /\ \/ \E k \in Clients \ {K1} : /\ Identity(k, {"remove"}, {At(Prod(1))})
                                   /\ UNCHANGED worldOnly
       \/ Adopting
       \/ CreateTrack(2) \/ DeleteTrack(2)
       \/ CreateInterpretation(1, "plain")
       \/ \E e \in Entities : DeleteEntity(e) \/ EntityTrack(e)
       \/ \E rev \in compRevs : DeriveBinding(K1, rev)
       \/ PublishBinding(K1)
       \/ \E s \in Shots : \/ DeleteSelection(s)
                           \/ \E b \in bindings : PutSelection(s, b)

Updating ==
    /\ group = "update"
    /\ \/ /\ KeepUpdates
          /\ \/ AdoptSubject(1, E1)
             \/ \E p \in {1, 2}, f \in Frames : CreateInterpretation(p, f)
             \/ /\ UNCHANGED worldOnly
                /\ \/ ReadPatch(K1, C, 2, Show(Prod(1), "moved"))
                   \/ PatchOccurrence(K1)
                   \/ Identity(K1, {"remove"}, {At(Prod(1))})
       \/ \E from, to \in {1, 2} : Assess(from, to)
       \/ \E a \in assessments : \E sel \in SUBSET DOMAIN a.uses : \E accepted \in SUBSET sel :
            ApplyUpdate(a, sel, accepted) \/ RetryUpdate(a, sel, accepted)

MCNext == (Publishing \/ Lineage \/ Nesting \/ Claiming \/ Worlding \/ Updating) /\ UNCHANGED group

MCSpec == MCInit /\ [][MCNext]_<<compatVars, group>>
=============================================================================
