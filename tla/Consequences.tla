---------------------------- MODULE Consequences ---------------------------
(* Persistent consequences: proposals of events made from a captured          *)
(* revision, and the reviews that turn them, or events already there, into    *)
(* working events and hand-offs.  A review is immutable evidence that a       *)
(* backup is verified against.                                                *)
(*   src/server/soloring/continuity/intra_shot_adoption.py,                   *)
(*   src/server/soloring/recovery/m16_verifier.py                             *)
(* Every operation is one BEGIN IMMEDIATE unit.  A proposal or an event value *)
(* stands for its hash; generations, takes and analyzers are left out.        *)
EXTENDS Capture

CONSTANTS Proposal, MaxReviews

ASSUME ConsequencesAssumption == None \notin Event /\ None \notin Nat

VARIABLES
    proposals,      \* shot_intra_shot_event_proposals: id -> shot, revision, candidate
    reviews         \* persistent_consequence_reviews

consequenceOnly == <<proposals, reviews>>
consequenceVars == <<captureVars, consequenceOnly>>

EventDecisions == {"adopt_persistence", "decline_persistence"}
ProposalDecisions == {"adopt_event_only", "adopt_persistence", "ignore"}

ConsequencesInit == CaptureInit /\ proposals = << >> /\ reviews = {}

ConsequencesTypeOK ==
    /\ CaptureTypeOK
    /\ DOMAIN proposals \subseteq Proposal
    /\ \A r \in reviews : /\ r.decision \in EventDecisions \cup ProposalDecisions
                          /\ r.event \in DOMAIN events \cup {None}
                          /\ r.transition \in {t.id : t \in transitions} \cup {None}

----------------------------------------------------------------------------
(* Hand-offs inside the caller's transaction.                                 *)

\* The end of the shot is free for the target, or says the same already; any
\* other value is a conflict and is never overwritten.
HandoffFree(s, v) == HandoffRows(s, v.target) = {} \/ HandoffMatches(s, v)

\* The values of set whose transition has yet to be made, and its id.
Missing(s, set) == {v \in set : HandoffRows(s, v.target) = {}}

NewId(s, set, v) ==
    Cardinality(transitions) + (CHOOSE i \in 1..Cardinality(Missing(s, set)) :
                                   SetToSeq(Missing(s, set))[i] = v)

AdoptedId(s, set, v) ==
    IF v \in Missing(s, set) THEN NewId(s, set, v)
    ELSE (CHOOSE t \in HandoffRows(s, v.target) : TRUE).id

\* _adopt_handoff of every value of set.
AdoptHandoffs(s, set) ==
    /\ \A v \in set : HandoffFree(s, v)
    /\ Cardinality(transitions) + Cardinality(Missing(s, set)) <= MaxTransitions
    /\ transitions' = transitions \cup
          {[id |-> NewId(s, set, v), family |-> v.target.kind, owner |-> v.target.id,
            anchor |-> EndOfShot(s), value |-> v.after, live |-> TRUE] : v \in Missing(s, set)}

----------------------------------------------------------------------------
(* Reviews of events.  A request that expects another event or another set of *)
(* events than the current ones changes nothing.                              *)

OnlyConsequences ==
    UNCHANGED <<narrativeVars, storyVars, spatialOnly, instanceOnly, duration, captureOnly>>

Reviewed(source, hash) == \E r \in reviews : r.source = source /\ r.hash = hash

EventReview(x, decision, result, transition) ==
    [shot |-> events[x].shot, source |-> [kind |-> "event", id |-> x], hash |-> events[x].value,
     decision |-> decision, event |-> x, result |-> result, transition |-> transition,
     batch |-> {}]

Reviewable(x) ==
    /\ x \in Live(events) /\ events[x].shot \in Live(shots)
    /\ events[x].value.mode = "require_handoff"
    /\ ~Reviewed([kind |-> "event", id |-> x], events[x].value)
    /\ Cardinality(reviews) < MaxReviews

AdoptEvent(x) ==
    /\ Reviewable(x)
    /\ LET s == events[x].shot
           v == events[x].value
       IN /\ Prospective(s, ValuesOf(s)) /\ Assigned(s) /\ AdoptHandoffs(s, {v})
          /\ reviews' = reviews \cup
                {EventReview(x, "adopt_persistence", v, AdoptedId(s, {v}, v))}
    /\ OnlyConsequences /\ UNCHANGED <<events, proposals>>

\* The event itself becomes transient.
DeclineEvent(x) ==
    /\ Reviewable(x)
    /\ LET v == [events[x].value EXCEPT !.mode = "transient"]
       IN /\ Prospective(events[x].shot, Others(x) \cup {v})
          /\ events' = [events EXCEPT ![x].value = v]
          /\ reviews' = reviews \cup {EventReview(x, "decline_persistence", v, None)}
    /\ OnlyConsequences /\ UNCHANGED <<transitions, proposals>>

----------------------------------------------------------------------------
(* Proposals and their reviews.                                               *)

\* The source is any stored revision.
IngestProposal(p, s, rev, candidate) ==
    /\ s \in Live(shots) /\ p \notin DOMAIN proposals /\ rev \in shotRevs
    /\ candidate.time \in 1..(rev.value.duration - 1)
    /\ proposals' = With(proposals, p, [shot |-> s, revision |-> rev, candidate |-> candidate])
    /\ OnlyConsequences /\ UNCHANGED <<transitions, events, reviews>>

\* The event that adopting p with a decision makes.
Draft(p, decision) ==
    [target |-> proposals[p].candidate.target, time |-> proposals[p].candidate.time,
     before |-> proposals[p].candidate.before, after |-> proposals[p].candidate.after,
     mode |-> IF decision = "adopt_persistence" THEN "require_handoff" ELSE "transient"]

Adopting(decide) == {p \in DOMAIN decide : decide[p] # "ignore"}
Drafts(decide) == {Draft(p, decide[p]) : p \in Adopting(decide)}
HandedOff(decide) == {v \in Drafts(decide) : v.mode = "require_handoff"}

ProposalReview(p, decide, ids, s) ==
    LET v == Draft(p, decide[p])
    IN [shot |-> s, source |-> [kind |-> "proposal", id |-> p], hash |-> proposals[p].candidate,
        decision |-> decide[p], event |-> IF p \in Adopting(decide) THEN ids[p] ELSE None,
        result |-> IF p \in Adopting(decide) THEN v ELSE None,
        transition |-> IF v \in HandedOff(decide) THEN AdoptedId(s, HandedOff(decide), v) ELSE None,
        batch |-> {<<q, decide[q]>> : q \in DOMAIN decide}]

\* One batch, one source revision; authority needs the shot to be what it was
\* captured as; the whole set folds together before anything is inserted.
Batch(s, decide) ==
    /\ Cardinality(reviews) + Cardinality(DOMAIN decide) <= MaxReviews
    /\ s \in Live(shots) /\ DOMAIN decide # {} /\ DOMAIN decide \subseteq DOMAIN proposals
    /\ \A p \in DOMAIN decide : proposals[p].shot = s
    /\ \A p, q \in DOMAIN decide : proposals[p].revision = proposals[q].revision
    /\ Adopting(decide) # {} =>
          \A p \in DOMAIN decide : WorkingHash(s) = proposals[p].revision.value
    /\ Prospective(s, ValuesOf(s))
    /\ \A p \in Adopting(decide) :
          /\ proposals[p].candidate.time \notin {u.time : u \in ValuesOf(s)}
          /\ \A q \in Adopting(decide) \ {p} :
                proposals[q].candidate.time # proposals[p].candidate.time
    /\ Prospective(s, ValuesOf(s) \cup Drafts(decide))
    /\ HandedOff(decide) # {} => Assigned(s)

InsertAdopted(s, decide, ids) ==
    events' = [x \in DOMAIN events \cup {ids[p] : p \in Adopting(decide)} |->
                  IF x \in DOMAIN events THEN events[x]
                  ELSE LET p == CHOOSE q \in Adopting(decide) : ids[q] = x
                       IN [shot |-> s, value |-> Draft(p, decide[p]), source |-> p, live |-> TRUE]]

Unreviewed(decide) ==
    {p \in DOMAIN decide : ~Reviewed([kind |-> "proposal", id |-> p], proposals[p].candidate)}

\* Mutation: the members that have a review keep it and the rest is reviewed.
ReviewRest(s, decide) ==
    /\ Batch(s, decide)
    /\ \E ids \in Injection(Adopting(decide), Event \ DOMAIN events) :
          /\ InsertAdopted(s, decide, ids) /\ AdoptHandoffs(s, HandedOff(decide))
          /\ reviews' = reviews \cup {ProposalReview(p, decide, ids, s) : p \in Unreviewed(decide)}
    /\ OnlyConsequences /\ UNCHANGED proposals

\* A proposal is decided once: a batch with a decided member is a retry of a
\* batch, which changes nothing, or a conflict.
ReviewProposals(s, decide) ==
    /\ Unreviewed(decide) = DOMAIN decide /\ Batch(s, decide)
    /\ \E ids \in Injection(Adopting(decide), Event \ DOMAIN events) :
          /\ InsertAdopted(s, decide, ids) /\ AdoptHandoffs(s, HandedOff(decide))
          /\ reviews' = reviews \cup {ProposalReview(p, decide, ids, s) : p \in DOMAIN decide}
    /\ OnlyConsequences /\ UNCHANGED proposals

----------------------------------------------------------------------------
(* Retries: answered with the recorded result while it still holds.           *)

Recorded(r) == CHOOSE t \in transitions : t.id = r.transition
Handoff(r) == <<r.result.target.kind, r.result.target.id, r.shot, r.result.after>>

\* _result_entry_valid.
ResultStillValid(r) ==
    /\ r.event # None => r.event \in Live(events) /\ events[r.event].value = r.result
    /\ r.transition # None =>
          LET t == Recorded(r)
          IN /\ t.live /\ t.anchor.kind = "shot" /\ t.anchor.side = "end"
             /\ <<t.family, t.owner, t.anchor.id, t.value>> = Handoff(r)

----------------------------------------------------------------------------
(* What restoring a backup demands of them.                                   *)

\* _verify_proposal_source.
VerifyProposal(p) ==
    /\ proposals[p].revision \in shotRevs
    /\ proposals[p].candidate.time \in 1..(proposals[p].revision.value.duration - 1)

\* The target a review is about: the source's own.
ReviewTarget(r) ==
    IF r.source.kind = "event" THEN events[r.source.id].value.target
    ELSE proposals[r.source.id].candidate.target

\* _verify_review, the source and the recorded result.
VerifySource(r) ==
    IF r.source.kind = "event"
    THEN /\ r.decision \in EventDecisions /\ r.source.id \in DOMAIN events
         /\ events[r.source.id].shot = r.shot /\ r.event = r.source.id
         /\ r.decision = "adopt_persistence" => r.result = r.hash
    ELSE /\ r.decision \in ProposalDecisions /\ r.source.id \in DOMAIN proposals
         /\ proposals[r.source.id].shot = r.shot /\ r.hash = proposals[r.source.id].candidate
         /\ r.decision # "ignore" => r.result = Draft(r.source.id, r.decision)

\* The reviews of a batch are all there, and share the source revision.
VerifyBatch(r) ==
    r.source.kind = "proposal" =>
        /\ <<r.source.id, r.decision>> \in r.batch
        /\ {<<q.source.id, q.decision>> : q \in {x \in reviews : x.batch = r.batch}} = r.batch
        /\ \A q \in r.batch : proposals[q[1]].revision = proposals[r.source.id].revision

\* The rows of the result exist, in the shot and about the target.
VerifyResult(r) ==
    IF r.decision = "ignore" THEN r.event = None /\ r.transition = None
    ELSE /\ r.event \in DOMAIN events /\ events[r.event].shot = r.shot
         /\ events[r.event].value.target = ReviewTarget(r)
         /\ (r.transition # None) = (r.decision = "adopt_persistence")
         /\ r.transition # None =>
               [kind |-> Recorded(r).family, id |-> Recorded(r).owner] = ReviewTarget(r)

\* The transition is where it was made.
VerifyAnchor(r) == r.transition # None => Recorded(r).anchor = EndOfShot(r.shot)

\* verify_m16_intra_shot_state.
VerifyConsequences ==
    /\ \A x \in Live(events) : events[x].source \in DOMAIN proposals \cup {None}
    /\ \A r \in shotRevs : VerifyHistory(r)
    /\ \A p \in DOMAIN proposals : VerifyProposal(p)
    /\ \A r \in reviews : VerifySource(r) /\ VerifyBatch(r) /\ VerifyResult(r)

----------------------------------------------------------------------------
\* The specification.
ReviewStep ==
    \/ \E x \in Event : AdoptEvent(x) \/ DeclineEvent(x)
    \/ \E p \in Proposal, s \in Shot, rev \in shotRevs, v \in EventValue :
          IngestProposal(p, s, rev, [x \in {"target", "time", "before", "after"} |-> v[x]])
    \/ \E s \in Shot, P \in SUBSET DOMAIN proposals : \E decide \in [P -> ProposalDecisions] :
          ReviewProposals(s, decide)

ConsequencesStep == (CaptureStep /\ UNCHANGED consequenceOnly) \/ ReviewStep

ConsequencesSpec == ConsequencesInit /\ [][ConsequencesStep]_consequenceVars

----------------------------------------------------------------------------
(* Properties.                                                                *)

\* The evidence of every review outlives what becomes of its event, its
\* transition and its shot: a backup taken at any time passes the verifier, the
\* place of hand-offs apart.
ReviewsCertify == VerifyConsequences

\* Adopting persistence leaves the shot handing off what its event says, under
\* concurrent edits of the same boundary too.
AdoptionHandsOff ==
    [][\A r \in reviews' \ reviews :
          r.decision = "adopt_persistence" => HandoffMatches(r.shot, r.result)']_consequenceVars

\* A retry is answered with a success only while that is still so.
RetryIsTrue ==
    \A r \in reviews : r.decision = "adopt_persistence" /\ ResultStillValid(r) =>
        /\ r.result \in ValuesOf(r.shot) /\ HandoffMatches(r.shot, r.result)

\* An ordinary edit of a transition never makes a backup unrestorable.
RestoreAccepts == VerifyConsequences /\ \A r \in reviews : VerifyAnchor(r)

\* What happens inside a shot has the consequence it was reviewed with, and the
\* evidence for it stays true.
ConsequencesSound == EventsInside /\ HandoffCarries /\ ReviewsCertify /\ RetryIsTrue

\* Each of these writes is right at the instant it is committed, although what
\* it rests on was read, or is owned, by another operation.
StoryWritesAreCurrent == WorldCaptureIsCurrent /\ WritesFold /\ AdoptionHandsOff
=============================================================================
