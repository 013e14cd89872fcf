------------------------- MODULE ProductionRecovery -------------------------
(* The semantic verification of a staged database, for the tables of the      *)
(* compositions, the production world and the compatibility updates: what     *)
(* backup and restore refuse as corruption.                                   *)
(*   src/server/soloring/recovery/backup.py, semantic_successors.py           *)
EXTENDS Compatibility

VerifyLineage == \A c \in Compositions : VerifyIdentityHistory(c)

\* The closure of a revision is derived again from the stored closures of the
\* revisions it nests directly.
VerifyRevisionSync(r) ==
    LET direct == DirectNested(r.entries)
    IN /\ DOMAIN r.entries \subseteq Born(r.comp)
       /\ r.prod = DirectProd(r.entries) \cup UNION {RevOf(compRevs, n).prod : n \in direct}
       /\ r.nested = direct \cup UNION {RevOf(compRevs, n).nested : n \in direct}
       /\ \A n \in r.nested : RevOf(compRevs, n).comp # r.comp

\* Adoptions are of minted occurrences; the claims that still live are unique.
VerifySubjects ==
    /\ DOMAIN subject \subseteq Minted
    /\ \A c \in Compositions, e \in Entities : Cardinality(ActiveClaims(c, e, 0)) <= 1

\* Tombstones included: an instance feature hangs on an adoption as an instance
\* and supersedes a feature that exists.
VerifyInstanceState ==
    \A f \in features :
        /\ f.occ \in DOMAIN subject /\ subject[f.occ] = PI
        /\ f.supersedes # None => \E g \in features : g.occ = f.occ /\ g.key = f.supersedes

VerifyInstanceSpatial == \A o \in tracks : o \in DOMAIN subject /\ subject[o] = PI

\* Immutable integrity only: a stale binding is legal history.
VerifyBindings ==
    \A b \in bindings :
        /\ b.rev \in {r.id : r \in compRevs}
        /\ \A o \in DOMAIN b.value.entries :
             RevOf(compRevs, b.rev).entries[o].source.id \in DOMAIN interpreted

VerifySelection == \A s \in Shots : selection[s] # 0 => \E b \in bindings : b.id = selection[s]

VerifyAssessments ==
    \A a \in assessments :
        /\ {a.from, a.to} \subseteq {r.id : r \in prodRevs}
        /\ RevOf(prodRevs, a.from).object = RevOf(prodRevs, a.to).object
        /\ a.uses # << >>
        /\ \A o \in DOMAIN a.uses : a.uses[o].contract.spec.source.id = a.from

VerifyUpdates ==
    \A u \in updates : \E a \in assessments :
        /\ a.id = u.assessment /\ DOMAIN u.after # {} /\ DOMAIN u.after \subseteq DOMAIN a.uses
        /\ \A o \in DOMAIN u.after : u.after[o].source.id = a.to

\* A backup of a database that was only written by the program is never refused
\* as semantically corrupt, whatever requests raced and whatever was ended,
\* deleted or replaced since.
RecoveryAccepts ==
    /\ VerifyLineage /\ \A r \in compRevs : VerifyRevisionSync(r)
    /\ VerifySubjects /\ VerifyInstanceState /\ VerifyInstanceSpatial
    /\ VerifyBindings /\ VerifySelection /\ VerifyAssessments /\ VerifyUpdates

\* Every stored record can be verified again later, by the readers, by the apply
\* that recomputes a verdict, and by backup and restore.
RecordsVerify ==
    /\ CompatibilityTypeOK /\ BindingsVerify /\ UpdatesAreReviewed /\ VerdictsReproduce
    /\ RecoveryAccepts

\* What is committed is derived from the state of the instant of the commit,
\* although every one of these operations reads before it takes the fence.
CommitsAreCurrent ==
    PublishedIsWorking /\ BindingIsCandidate /\ UpdatesKeepPlacement /\ VersionCoversWorking
=============================================================================
