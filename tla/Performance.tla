---------------------------- MODULE Performance ----------------------------
(* Dialogue, voices and performances (server/soloring/performance).           *)
(*                                                                            *)
(* A dialogue line has revisions; a voice is a retained recording of one; its *)
(* adoption makes an immutable vocal performance, one of which is selected.   *)
(* Shots map segments of the selected one, analyzers align it, and face and   *)
(* body performances may cite alignments.  An adopted performance moves to    *)
(* another physical revision by an assessment, a review and a new candidate.  *)
(*                                                                            *)
(* These services run on plain sessions: what they read is not locked when    *)
(* they write.  Each of the three that could be hurt by this is two steps, a  *)
(* read (Begin...) and the insert (Finish...) under the table's constraints.  *)
(* A sample is the unit of time; the rate is left out.                        *)
EXTENDS Consequences

CONSTANTS
    Line, Texts,        \* dialogue lines and their wordings
    Voice, Frames,      \* vocal candidates; the sample frames of a recording
    MaxInt,             \* the greatest integer a column holds
    Runs, Labels,       \* derivation runs and alignment labels
    PerformanceId,      \* performance candidates
    Physical            \* production revisions: [object, number]

VARIABLES
    lineRevs,           \* revisions of lines: [line, number, speaker, text]
    voices,             \* vocal candidates: [rev, trim]
    vocals,             \* adopted: [candidate, rev, number, speaker, trim, by]
    choice,             \* line revision -> selected vocal or None
    mappings,           \* <<shot, position>> -> [vocal, span, anchor]
    alignments,         \* [vocal, run, doc]
    performances,       \* candidates: [subject, payload, retarget]
    performed,          \* adopted: [candidate, closure, by]
    assessments,        \* [performed, from, to, verdict]
    verdicts,           \* reviews of assessments: [assessment, decision]
    calls               \* what a client has read before it writes

vocalVars == <<lineRevs, voices, vocals, choice, mappings, alignments>>
bodyVars == <<performances, performed, assessments, verdicts>>
performanceOnly == <<vocalVars, bodyVars, calls>>
performanceVars == <<consequenceVars, performanceOnly>>

PerformanceInit ==
    /\ lineRevs = {} /\ voices = << >> /\ vocals = {} /\ choice = << >>
    /\ mappings = << >> /\ alignments = {} /\ performances = << >> /\ performed = {}
    /\ assessments = {} /\ verdicts = {} /\ calls = [k \in Clients |-> Unread]

PerformanceTypeOK ==
    /\ ConsequencesTypeOK
    /\ lineRevs \subseteq [line : Line, number : Nat \ {0}, speaker : Entity, text : Texts]
    /\ DOMAIN voices \subseteq Voice /\ DOMAIN choice = lineRevs
    /\ \A c \in DOMAIN voices : voices[c].rev \in lineRevs
    /\ \A r \in lineRevs : choice[r] \in vocals \cup {None}
    /\ \A m \in DOMAIN mappings : mappings[m].vocal \in vocals
    /\ \A a \in alignments : a.vocal \in vocals /\ a.run \in Runs
    /\ DOMAIN performances \subseteq PerformanceId
    /\ \A a \in assessments : a.performed \in performed /\ {a.from, a.to} \subseteq Physical
    /\ \A v \in verdicts : v.assessment \in assessments

----------------------------------------------------------------------------
(* Dialogue and voices.                                                       *)

RevsOfLine(l) == {r \in lineRevs : r.line = l}

\* A known specification converges; the selection row comes with the revision.
CreateLineRevision(l, speaker, text) ==
    /\ speaker \in Live(entities)
    /\ \A r \in RevsOfLine(l) : <<r.speaker, r.text>> # <<speaker, text>>
    /\ LET new == [line |-> l, speaker |-> speaker, text |-> text,
                   number |-> 1 + Max({0} \cup {r.number : r \in RevsOfLine(l)})]
       IN lineRevs' = lineRevs \cup {new} /\ choice' = With(choice, new, None)
    /\ UNCHANGED <<consequenceVars, voices, vocals, mappings, alignments, bodyVars, calls>>

TrimValid(trim) == 0 <= trim[1] /\ trim[1] < trim[2] /\ trim[2] <= Frames

CreateVoice(c, rev, trim) ==
    /\ c \notin DOMAIN voices /\ rev \in lineRevs /\ TrimValid(trim)
    /\ voices' = With(voices, c, [rev |-> rev, trim |-> trim])
    /\ UNCHANGED <<consequenceVars, lineRevs, vocals, choice, mappings, alignments, bodyVars, calls>>

NextVocal(rev) == 1 + Max({0} \cup {v.number : v \in {u \in vocals : u.rev = rev}})

\* The number is computed from what is adopted now and used by the insert.
BeginAdoptVoice(k, c) ==
    /\ calls[k] = Unread /\ c \in DOMAIN voices /\ c \notin {v.candidate : v \in vocals}
    /\ calls' = [calls EXCEPT ![k] = [step |-> "voice", candidate |-> c,
                                      number |-> NextVocal(voices[c].rev)]]
    /\ UNCHANGED <<consequenceVars, vocalVars, bodyVars>>

Adopted(k) ==
    LET c == calls[k].candidate
    IN [candidate |-> c, rev |-> voices[c].rev, number |-> calls[k].number,
        speaker |-> voices[c].rev.speaker, trim |-> voices[c].trim, by |-> k]

\* Mutation: only the candidate is unique, its number is not.
FinishAdoptLoose(k) ==
    /\ calls[k].step = "voice"
    /\ vocals' = IF calls[k].candidate \in {v.candidate : v \in vocals} THEN vocals
                 ELSE vocals \cup {Adopted(k)}
    /\ calls' = [calls EXCEPT ![k] = Unread]
    /\ UNCHANGED <<consequenceVars, lineRevs, voices, choice, mappings, alignments, bodyVars>>

\* A conflict with a unique column rolls back; the caller runs again from the read.
FinishAdoptVoice(k) ==
    /\ calls[k].step = "voice"
    /\ LET new == Adopted(k)
           conflict == \E v \in vocals : \/ v.candidate = new.candidate
                                         \/ v.rev = new.rev /\ v.number = new.number
       IN vocals' = IF conflict THEN vocals ELSE vocals \cup {new}
    /\ calls' = [calls EXCEPT ![k] = Unread]
    /\ UNCHANGED <<consequenceVars, lineRevs, voices, choice, mappings, alignments, bodyVars>>

SetSelection(rev, vocal) ==
    /\ rev \in lineRevs /\ vocal \in vocals \cup {None} /\ (vocal # None => vocal.rev = rev)
    /\ choice' = [choice EXCEPT ![rev] = vocal]
    /\ UNCHANGED <<consequenceVars, lineRevs, voices, vocals, mappings, alignments, bodyVars, calls>>

\* The verdict on using a vocal for a target revision.
VocalVerdict(vocal, target) ==
    IF vocal.rev = target THEN "COMPATIBLE_AS_IS"
    ELSE IF <<vocal.rev.speaker, vocal.rev.text>> = <<target.speaker, target.text>>
    THEN "REQUIRES_REVIEW" ELSE "INCOMPATIBLE"

----------------------------------------------------------------------------
(* Segments of shots.                                                         *)

Abs(n) == IF n < 0 THEN -n ELSE n
Divides(d, n) == n % d = 0
Gcd(n, den) == Max({d \in 1..den : Divides(d, Abs(n)) /\ Divides(d, den)})

\* canonical_rational, of a positive denominator; None where it is refused.
CanonicalRational(n, den) ==
    LET g == Gcd(n, den)
        num == IF n < 0 THEN -(Abs(n) \div g) ELSE n \div g
    IN IF Abs(num) <= MaxInt /\ den \div g <= MaxInt THEN <<num, den \div g>> ELSE None

\* The segment, placed at its anchor, meets the picture of a shot of length d.
MeetsPicture(span, anchor, d) ==
    /\ anchor[1] + (span[2] - span[1]) * anchor[2] > 0
    /\ anchor[1] < d * anchor[2]

WithinTrim(span, vocal) ==
    /\ 0 <= span[1] /\ span[1] < span[2] /\ span[2] <= Frames
    /\ vocal.trim[1] <= span[1] /\ span[2] <= vocal.trim[2]

PutMapping(s, position, vocal, span, n, den) ==
    /\ s \in DOMAIN shots /\ duration[s] > 0 /\ vocal \in vocals
    /\ choice[vocal.rev] = vocal /\ WithinTrim(span, vocal)
    /\ LET anchor == CanonicalRational(n, den)
       IN /\ anchor # None /\ MeetsPicture(span, anchor, duration[s])
          /\ mappings' = With(mappings, <<s, position>>,
                              [vocal |-> vocal, span |-> span, anchor |-> anchor])
    /\ UNCHANGED <<consequenceVars, lineRevs, voices, vocals, choice, alignments, bodyVars, calls>>

DeleteMapping(m) ==
    /\ m \in DOMAIN mappings
    /\ mappings' = [x \in DOMAIN mappings \ {m} |-> mappings[x]]
    /\ UNCHANGED <<consequenceVars, lineRevs, voices, vocals, choice, alignments, bodyVars, calls>>

----------------------------------------------------------------------------
(* Alignments.  One exact run has one output; the rows are read, the bytes    *)
(* are placed, and only then the row is inserted.                             *)

DocValid(doc, vocal) ==
    vocal.trim[1] <= doc.span[1] /\ doc.span[1] < doc.span[2] /\ doc.span[2] <= vocal.trim[2]

RunIsFree(vocal, run, doc) ==
    \A a \in alignments : a.vocal = vocal /\ a.run = run => a.doc = doc

BeginAlignment(k, vocal, run, doc) ==
    /\ calls[k] = Unread /\ vocal \in vocals /\ DocValid(doc, vocal) /\ RunIsFree(vocal, run, doc)
    /\ calls' = [calls EXCEPT ![k] = [step |-> "align",
                                      row |-> [vocal |-> vocal, run |-> run, doc |-> doc]]]
    /\ UNCHANGED <<consequenceVars, vocalVars, bodyVars>>

FinishAlignment(k) ==
    /\ calls[k].step = "align"
    /\ alignments' = alignments \cup {calls[k].row}
    /\ calls' = [calls EXCEPT ![k] = Unread]
    /\ UNCHANGED <<consequenceVars, lineRevs, voices, vocals, choice, mappings, bodyVars>>

----------------------------------------------------------------------------
(* Performances.                                                              *)

Domains(payload) == {x.domain : x \in payload.keys}

\* build_canonical_payload: keyframes inside the span, apart in their channel,
\* channels that fit the kind.
PayloadValid(payload) ==
    /\ payload.span[1] < payload.span[2] /\ payload.keys # {}
    /\ \A x \in payload.keys : payload.span[1] <= x.time /\ x.time < payload.span[2]
    /\ \A x, y \in payload.keys : x.domain = y.domain /\ x.time = y.time => x = y
    /\ Domains(payload) = CASE payload.kind = "BODY" -> {"body"}
                            [] payload.kind = "FACIAL" -> {"face"}
                            [] payload.kind = "BODY_FACIAL" -> {"body", "face"}

\* _verify_alignment_provenance: the voice is the subject's own.
LinksOwn(subject, payload) ==
    \A x \in payload.keys : x.link # None => x.link \in alignments /\ x.link.vocal.speaker = subject

CreatePerformance(p, subject, payload) ==
    /\ p \notin DOMAIN performances /\ subject \in Live(entities)
    /\ PayloadValid(payload) /\ LinksOwn(subject, payload)
    /\ performances' = With(performances, p, [subject |-> subject, payload |-> payload,
                                              retarget |-> None])
    /\ UNCHANGED <<consequenceVars, vocalVars, performed, assessments, verdicts, calls>>

SourceOf(p) == performances[p].retarget.source
SameClosure(p, source) ==
    performances[p].subject = source.closure.subject /\ performances[p].payload = source.closure.payload

\* _evaluate.
Verdict(from, to) ==
    IF from = to THEN "COMPATIBLE_AS_IS"
    ELSE IF from.object = to.object THEN "REQUIRES_REVIEW" ELSE "INCOMPATIBLE"

\* The evidence of a retargeted candidate: assessed, accepted, copied exactly.
EvidenceOf(p) ==
    LET r == performances[p].retarget
    IN /\ r.source \in performed /\ r.source.closure = performances[r.source.candidate]
       /\ r.assessment \in assessments
       /\ r.assessment.performed = r.source
       /\ r.assessment.verdict = Verdict(r.assessment.from, r.assessment.to)
       /\ r.assessment.verdict = "REQUIRES_REVIEW"
       /\ r.review \in verdicts /\ r.review.assessment = r.assessment
       /\ r.review.decision = "ACCEPT_FOR_NEW_CANDIDATE"
       /\ SameClosure(p, r.source)

\* The candidates p was retargeted from, itself included.
Ancestry(p) ==
    LET up == [q \in DOMAIN performances |->
                  IF performances[q].retarget = None THEN q ELSE SourceOf(q).candidate]
        chain[n \in 0..Cardinality(DOMAIN performances)] ==
            IF n = 0 THEN {p} ELSE chain[n - 1] \cup {up[q] : q \in chain[n - 1]}
    IN chain[Cardinality(DOMAIN performances)]

\* verify_candidate_integrity, with the evidence of the whole ancestry.
Integrity(p) ==
    \A q \in Ancestry(p) :
        /\ PayloadValid(performances[q].payload)
        /\ LinksOwn(performances[q].subject, performances[q].payload)
        /\ performances[q].retarget # None => EvidenceOf(q)

\* The subject is active when it is looked at.
BeginAdopt(k, p) ==
    /\ calls[k] = Unread /\ p \in DOMAIN performances /\ p \notin {r.candidate : r \in performed}
    /\ performances[p].subject \in Live(entities) /\ Integrity(p)
    /\ calls' = [calls EXCEPT ![k] = [step |-> "adopt", candidate |-> p]]
    /\ UNCHANGED <<consequenceVars, vocalVars, bodyVars>>

Performed(k) ==
    [candidate |-> calls[k].candidate, closure |-> performances[calls[k].candidate], by |-> k]

FinishAdopt(k) ==
    /\ calls[k].step = "adopt"
    /\ performed' = IF calls[k].candidate \in {r.candidate : r \in performed} THEN performed
                    ELSE performed \cup {Performed(k)}
    /\ calls' = [calls EXCEPT ![k] = Unread]
    /\ UNCHANGED <<consequenceVars, vocalVars, performances, assessments, verdicts>>

\* One assessment for each coordinate.
AssessRetarget(r, from, to) ==
    /\ r \in performed
    /\ assessments' = assessments \cup
          {[performed |-> r, from |-> from, to |-> to, verdict |-> Verdict(from, to)]}
    /\ UNCHANGED <<consequenceVars, vocalVars, performances, performed, verdicts, calls>>

\* Reviews are appended; a later one does not take an earlier one back.
ReviewRetarget(a, decision) ==
    /\ a \in assessments
    /\ verdicts' = verdicts \cup {[assessment |-> a, decision |-> decision]}
    /\ UNCHANGED <<consequenceVars, vocalVars, performances, performed, assessments, calls>>

CreateRetarget(p, r, a, review) ==
    /\ p \notin DOMAIN performances /\ r \in performed /\ a \in assessments /\ a.performed = r
    /\ a.verdict = "REQUIRES_REVIEW"
    /\ review \in verdicts /\ review.assessment = a
    /\ review.decision = "ACCEPT_FOR_NEW_CANDIDATE"
    /\ performances' = With(performances, p,
          [subject |-> r.closure.subject, payload |-> r.closure.payload,
           retarget |-> [source |-> r, assessment |-> a, review |-> review]])
    /\ UNCHANGED <<consequenceVars, vocalVars, performed, assessments, verdicts, calls>>

----------------------------------------------------------------------------
(* Recovery: what a backup of this state must satisfy (m17a_verifier,         *)
(* m17b_verifier).                                                            *)

VerifyDialogue ==
    \A r, u \in lineRevs : r.line = u.line /\ r.number = u.number => r = u

VerifyVoices == \A c \in DOMAIN voices : TrimValid(voices[c].trim)

VerifyVocals ==
    \A v \in vocals : /\ v.candidate \in DOMAIN voices
                      /\ \A u \in vocals : u.candidate = v.candidate => u = v
                      /\ <<v.rev, v.trim>> = <<voices[v.candidate].rev, voices[v.candidate].trim>>
                      /\ v.speaker = v.rev.speaker

VerifySelections ==
    \A r \in lineRevs : choice[r] # None => VocalVerdict(choice[r], r) = "COMPATIBLE_AS_IS"

\* Without the verifier's look at the picture, which a later and shorter
\* duration of the shot may fail.
VerifyMappings ==
    \A m \in DOMAIN mappings :
        /\ Gcd(mappings[m].anchor[1], mappings[m].anchor[2]) = 1
        /\ mappings[m].vocal.trim[1] <= mappings[m].span[1]
        /\ mappings[m].span[2] <= mappings[m].vocal.trim[2]

VerifyAlignments == \A a \in alignments : DocValid(a.doc, a.vocal)

VerifyPerformances ==
    \A p \in DOMAIN performances : /\ PayloadValid(performances[p].payload)
                                   /\ LinksOwn(performances[p].subject, performances[p].payload)

VerifyPerformed ==
    \A r \in performed : /\ r.candidate \in DOMAIN performances
                         /\ r.closure = performances[r.candidate]
                         /\ \A u \in performed : u.candidate = r.candidate => u = r

VerifyAssessed == \A a \in assessments : a.performed \in performed /\ a.verdict = Verdict(a.from, a.to)

VerifyRetargeted ==
    \A p \in DOMAIN performances : performances[p].retarget # None => EvidenceOf(p)

----------------------------------------------------------------------------
\* The specification.
VocalStep ==
    \/ \E l \in Line, e \in Entity, t \in Texts : CreateLineRevision(l, e, t)
    \/ \E c \in Voice, r \in lineRevs, trim \in Nat \X Nat : CreateVoice(c, r, trim)
    \/ \E k \in Clients : FinishAdoptVoice(k) \/ \E c \in Voice : BeginAdoptVoice(k, c)
    \/ \E r \in lineRevs, v \in vocals \cup {None} : SetSelection(r, v)
    \/ \E s \in Shot, position \in Nat, v \in vocals, span \in Nat \X Nat, n \in Int, den \in Nat \ {0} :
          PutMapping(s, position, v, span, n, den)
    \/ \E m \in DOMAIN mappings : DeleteMapping(m)
    \/ \E k \in Clients :
          \/ FinishAlignment(k)
          \/ \E v \in vocals, run \in Runs, doc \in [span : Nat \X Nat, label : Labels] :
                BeginAlignment(k, v, run, doc)

Keys == [domain : {"body", "face"}, time : Nat, link : alignments \cup {None}]

BodyStep ==
    \/ \E p \in PerformanceId, e \in Entity, kind \in {"BODY", "FACIAL", "BODY_FACIAL"},
          span \in Nat \X Nat, keys \in SUBSET Keys :
          CreatePerformance(p, e, [kind |-> kind, span |-> span, keys |-> keys])
    \/ \E k \in Clients : FinishAdopt(k) \/ \E p \in PerformanceId : BeginAdopt(k, p)
    \/ \E r \in performed, from, to \in Physical : AssessRetarget(r, from, to)
    \/ \E a \in assessments, d \in {"ACCEPT_FOR_NEW_CANDIDATE", "REJECT"} : ReviewRetarget(a, d)
    \/ \E p \in PerformanceId, r \in performed, a \in assessments, v \in verdicts :
          CreateRetarget(p, r, a, v)

PerformanceStep ==
    (ConsequencesStep /\ UNCHANGED performanceOnly) \/ VocalStep \/ BodyStep

PerformanceSpec ==
    ConsequencesInit /\ PerformanceInit /\ [][PerformanceStep]_performanceVars

----------------------------------------------------------------------------
(* Properties.                                                                *)

\* Whatever clients adopt, select, map and align at the same time, recovery can
\* certify the voices: adoption copies its candidate once, a selection is of its
\* own line revision, a segment stays inside its trim (m17a_verifier).
VocalsCertify ==
    /\ VerifyDialogue /\ VerifyVoices /\ VerifyVocals /\ VerifySelections /\ VerifyMappings
    /\ VerifyAlignments

\* The vocal performances of a line revision are numbered one after the other,
\* although each number was computed before the insert.
VocalsNumbered ==
    \A r \in lineRevs : LET mine == {v \in vocals : v.rev = r}
                        IN {v.number : v \in mine} = 1..Cardinality(mine)

\* Recovery can certify the performances, their adoptions and every retargeted
\* candidate, whatever was adopted twice, reviewed twice or deleted meanwhile
\* (m17b_verifier).
PerformancesCertify ==
    VerifyPerformances /\ VerifyPerformed /\ VerifyAssessed /\ VerifyRetargeted

\* However often a performance is retargeted, it stays what was performed: the
\* subject and the keyframes of the first one, on the same physical object.
RetargetKeepsIdentity ==
    \A p \in DOMAIN performances : \A q \in Ancestry(p) :
        /\ performances[q].subject = performances[p].subject
        /\ performances[q].payload = performances[p].payload
        /\ performances[q].retarget # None =>
              performances[q].retarget.assessment.from.object
                  = performances[q].retarget.assessment.to.object

\* The records of voices and performances certify one another.
PerformanceSound ==
    /\ PerformanceTypeOK /\ VocalsCertify /\ VocalsNumbered
    /\ PerformancesCertify /\ RetargetKeepsIdentity
=============================================================================
