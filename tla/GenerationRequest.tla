-------------------------- MODULE GenerationRequest --------------------------
(* What a generation request does between the captured release and the        *)
(* committed row, and what the worker makes of that row later                 *)
(* (generation/service.py, observation/, spatial/derived.py,                  *)
(* spatial/worker_inputs.py).  The revision a request captures decides which  *)
(* control media are rendered from it: none, one depth stream per staged      *)
(* subject (schema 5), or an observation of the production world as well      *)
(* (schema 6).  Rendering is deterministic; rows about it converge globally.  *)
(* The program may be upgraded between any two steps: the worker then has to  *)
(* run generations that were captured under another materializer.             *)
EXTENDS BlobStore, ArtifactStore

CONSTANTS
    Runtimes,      \* materializer contracts, one per version of the program
    Streams,       \* depth streams: "world" and one per staged subject
    Schema,        \* revision -> snapshot schema: 4, 5, 6 or 7
    Pack,          \* revision -> the spatial pack it captured
    Requires,      \* revision -> capabilities its observation requires
    Supports,      \* release -> capabilities its profile supports
    Knows          \* release -> capabilities its profile has heard of

(* What a profile offers: nothing spatial, spatial control only, or the       *)
(* observation materializer of one contract.                                  *)
Profiles == {"flat", "spatial"} \cup Runtimes

ObservationBytes(rev, rt) == <<"observation", rev, rt>>
StreamBytes(s, rev, rt) == <<s, Pack[rev], rt>>

ASSUME RequestAssumption ==
    /\ "world" \in Streams
    /\ Schema \in [Revisions -> {4, 5, 6, 7}]
    /\ \A rev \in Revisions, rt \in Runtimes :
          /\ Schema[rev] = 6 => ObservationBytes(rev, rt) \in Derived
          /\ \A s \in Streams : StreamBytes(s, rev, rt) \in Derived
    /\ \A r \in Releases : Supports[r] \subseteq Knows[r]

VARIABLES
    profile,       \* release -> what its profile offers
    runtime,       \* the materializer of the running program
    observations,  \* rows of derived_observation_artifacts
    streams,       \* rows of derived_spatial_artifacts
    registered,    \* request -> streams it has registered
    generations,   \* requests whose generation row is committed
    made,          \* generation -> runtime its WorkflowSpec pins
    ran            \* generation -> how far the worker got with its inputs

requestVars == <<profile, runtime, observations, streams, registered,
                 generations, made, ran>>

RunStates == {"queued", "verified", "sent", "sent unverified", "rejected"}

RequestTypeOK ==
    /\ ArtifactTypeOK
    /\ profile \in [Releases -> Profiles] /\ runtime \in Runtimes
    /\ observations \subseteq [rev : Revisions, contract : Runtimes,
                               package : Releases]
    /\ streams \subseteq [pack : {Pack[r] : r \in Revisions},
                          stream : Streams, runtime : Runtimes]
    /\ registered \in [Requests -> SUBSET Streams]
    /\ generations \subseteq Requests
    /\ made \in [Requests -> Runtimes] /\ ran \in [Requests -> RunStates]

RequestInit ==
    /\ profile \in [Releases -> Profiles] /\ runtime \in Runtimes
    /\ observations = {} /\ streams = {} /\ generations = {}
    /\ registered = [q \in Requests |-> {}]
    /\ made = [q \in Requests |-> runtime]
    /\ ran = [q \in Requests |-> "queued"]

-----------------------------------------------------------------------------
InFlight(q) == req[q].pc \notin {"idle", "done", "refused", "disagreed"}
Move(q, pc) == req' = [req EXCEPT ![q].pc = pc]
Release(q) == req[q].d1
Rev(q) == req[q].rev
OfSchema(q, n) == Rev(q) # NoRevision /\ Schema[Rev(q)] = n

OnlyRequest == UNCHANGED <<lost, storeVars, importVars, installed, target,
                           profile, runtime>>

(* The revision is captured or reused; intra-shot events (schema 7) refuse    *)
(* before anything of the release is placed.                                  *)
CaptureRevision(q, rev) ==
    /\ RequestAt(q, "captured")
    /\ req' = [req EXCEPT ![q].rev = rev,
                          ![q].pc = IF Schema[rev] = 7 THEN "refused"
                                    ELSE "revised"]
    /\ OnlyRequest
    /\ UNCHANGED <<disk, observations, streams, registered, generations,
                   made, ran>>

(* Any other gate, a busy database, or the end of the process: what was       *)
(* placed and registered so far stays.                                        *)
RefuseRequest(q) ==
    /\ InFlight(q) /\ Move(q, "refused")
    /\ OnlyRequest
    /\ UNCHANGED <<disk, observations, streams, registered, generations,
                   made, ran>>

(* negotiate: an undeclared property is unknown, a declared one that is not   *)
(* offered is unsupported.                                                    *)
Negotiate(rev, r) ==
    CASE Requires[rev] \subseteq Supports[r] -> "SUPPORTED"
      [] Requires[rev] \cap (Knows[r] \ Supports[r]) # {} -> "UNSUPPORTED"
      [] OTHER -> "UNKNOWN"

(* validate_package and the plane the snapshot's schema selects.  A schema-6  *)
(* snapshot needs a profile that pins a materializer, a supported             *)
(* negotiation, and the pinned contract to be the one that will render.       *)
Gate(q) ==
    /\ RequestAt(q, "revised") /\ req[q].placed = Kinds
    /\ Move(q, CASE OfSchema(q, 4) -> "ready"
                 [] OfSchema(q, 5) /\ profile[Release(q)] # "flat" -> "spatial"
                 [] OfSchema(q, 6) /\ profile[Release(q)] = runtime
                       /\ Negotiate(Rev(q), Release(q)) = "SUPPORTED"
                    -> "observed"
                 [] OTHER -> "refused")
    /\ OnlyRequest
    /\ UNCHANGED <<disk, observations, streams, registered, generations,
                   made, ran>>

-----------------------------------------------------------------------------
(* The observation of a schema-6 revision                                     *)

(* The bytes are placed first ...                                             *)
RenderObservation(q) ==
    /\ RequestAt(q, "observed") /\ Move(q, "rendered")
    /\ disk' = [disk EXCEPT ![ObservationBytes(Rev(q), runtime)] = "exact"]
    /\ OnlyRequest
    /\ UNCHANGED <<observations, streams, registered, generations, made, ran>>

(* ... their blobs row is committed on its own ...                            *)
ListObservation(q) ==
    /\ RequestAt(q, "rendered") /\ Move(q, "listed")
    /\ blobs' = blobs \cup {ObservationBytes(Rev(q), runtime)}
    /\ UNCHANGED <<disk, lost, active, assets, repairs, up, importVars,
                   installed, target, requestVars>>

ObservationRow(q) ==
    [rev |-> Rev(q), contract |-> runtime, package |-> Release(q)]

(* Rows of the same coordinate (specification and contract) whose provenance  *)
(* names another release.                                                     *)
Disagreeing(q) ==
    {o \in observations : /\ o.rev = Rev(q) /\ o.contract = runtime
                          /\ o.package # Release(q)}

(* ... and the artifact row converges under the write fence: the row of the   *)
(* coordinate is reused if its bytes and its provenance agree, and provenance *)
(* names the release.                                                         *)
ConvergeObservation(q) ==
    /\ RequestAt(q, "listed")
    /\ IF Disagreeing(q) = {}
       THEN /\ observations' = observations \cup {ObservationRow(q)}
            /\ Move(q, "spatial")
       ELSE Move(q, "disagreed") /\ UNCHANGED observations
    /\ OnlyRequest
    /\ UNCHANGED <<disk, streams, registered, generations, made, ran>>

-----------------------------------------------------------------------------
(* The depth streams of a schema-5 or schema-6 revision                       *)

Rendered(rev, rt) == {StreamBytes(s, rev, rt) : s \in Streams}

(* Inside one write transaction the files of all streams are placed ...       *)
RenderStreams(q) ==
    /\ RequestAt(q, "spatial") /\ Move(q, "streamed")
    /\ disk' = [p \in Paths |-> IF p \in Rendered(Rev(q), runtime)
                                THEN "exact" ELSE disk[p]]
    /\ OnlyRequest
    /\ UNCHANGED <<observations, streams, registered, generations, made, ran>>

(* ... and their rows committed.                                              *)
ListStreams(q) ==
    /\ RequestAt(q, "streamed") /\ Move(q, "registering")
    /\ blobs' = blobs \cup Rendered(Rev(q), runtime)
    /\ UNCHANGED <<disk, lost, active, assets, repairs, up, importVars,
                   installed, target, requestVars>>

StreamRow(s, rev, rt) == [pack |-> Pack[rev], stream |-> s, runtime |-> rt]

(* register_derived_artifact, stream by stream: the bytes are hashed before   *)
(* the write fence, then the row of (specification, runtime) converges.       *)
RegisterStream(q, s) ==
    /\ RequestAt(q, "registering") /\ s \notin registered[q]
    /\ IF HashMatches(StreamBytes(s, Rev(q), runtime))
       THEN /\ streams' = streams \cup {StreamRow(s, Rev(q), runtime)}
            /\ registered' = [registered EXCEPT ![q] = @ \cup {s}]
            /\ Move(q, IF registered[q] \cup {s} = Streams THEN "ready"
                       ELSE "registering")
       ELSE Move(q, "refused") /\ UNCHANGED <<streams, registered>>
    /\ OnlyRequest
    /\ UNCHANGED <<disk, observations, generations, made, ran>>

-----------------------------------------------------------------------------
(* create_generation: the row, its inputs, the stream siblings and the        *)
(* observation binding are one transaction.                                   *)
InsertGeneration(q) ==
    /\ RequestAt(q, "ready") /\ Move(q, "done")
    /\ generations' = generations \cup {q}
    /\ made' = [made EXCEPT ![q] = runtime]
    /\ OnlyRequest
    /\ UNCHANGED <<disk, observations, streams, registered, ran>>

(* Another version of the program: its requests die, its rows stay.           *)
Upgrade(rt) ==
    /\ rt # runtime /\ runtime' = rt
    /\ req' = [q \in Requests |-> IF InFlight(q)
                                  THEN [req[q] EXCEPT !.pc = "refused"]
                                  ELSE req[q]]
    /\ UNCHANGED <<disk, lost, storeVars, importVars, installed, target,
                   profile, observations, streams, registered, generations,
                   made, ran>>

-----------------------------------------------------------------------------
(* The worker                                                                 *)

(* The control media the row binds.                                           *)
BoundStreams(q) == IF OfSchema(q, 4) THEN {} ELSE Rendered(Rev(q), made[q])
BoundObservation(q) ==
    IF OfSchema(q, 6) THEN {ObservationBytes(Rev(q), made[q])} ELSE {}
Bound(q) == BoundStreams(q) \cup BoundObservation(q)

(* load_verified_derived_inputs: rows, provenance and bytes of every stream,  *)
(* under the runtime the row pins.                                            *)
StreamsVerify(q) ==
    /\ \A s \in Streams : StreamRow(s, Rev(q), made[q]) \in streams
    /\ BoundStreams(q) \subseteq blobs
    /\ \A p \in BoundStreams(q) : HashMatches(p)

(* Mutant: the bound row is held against the materializer of today.           *)
VerifiesToday(q) ==
    /\ runtime = made[q]
    /\ Negotiate(Rev(q), Release(q)) = "SUPPORTED"
    /\ \E o \in observations : o.rev = Rev(q) /\ o.contract = made[q]
    /\ BoundObservation(q) \subseteq blobs
    /\ \A p \in BoundObservation(q) : HashMatches(p)

(* execute_schema4_derived_inputs and the replayed negotiation: the bound     *)
(* row, its contract against the one the specification pins, its bytes.       *)
ObservationVerifies(q) ==
    /\ profile[Release(q)] = made[q]
    /\ Negotiate(Rev(q), Release(q)) = "SUPPORTED"
    /\ \E o \in observations : o.rev = Rev(q) /\ o.contract = made[q]
    /\ BoundObservation(q) \subseteq blobs
    /\ \A p \in BoundObservation(q) : HashMatches(p)

(* The captured artifacts are fetched by hash; the schema-3 path parses the   *)
(* profile with the parser that knows no observation block.                   *)
Verified(q) ==
    /\ \A a \in Captured(q) : HashMatches(a)
    /\ OfSchema(q, 5) => profile[Release(q)] = "spatial" /\ StreamsVerify(q)
    /\ OfSchema(q, 6) => ObservationVerifies(q) /\ StreamsVerify(q)

Verify(q) ==
    /\ q \in generations /\ ran[q] = "queued"
    /\ ran' = [ran EXCEPT ![q] = IF Verified(q) THEN "verified"
                                 ELSE "rejected"]
    /\ UNCHANGED <<disk, lost, storeVars, importVars, artifactVars, profile,
                   runtime, observations, streams, registered, generations,
                   made>>

(* An observation supersedes the world-depth stream, which is verified but    *)
(* not sent.                                                                  *)
Superseded(q) ==
    IF OfSchema(q, 6) THEN {StreamBytes("world", Rev(q), made[q])} ELSE {}

(* The bytes are read again for the upload.  The schema-3 path hashes that    *)
(* buffer once more; the schema-4 path sends what it reads.                   *)
Transport(q) ==
    /\ ran[q] = "verified"
    /\ LET states == {disk[p] : p \in Bound(q) \ Superseded(q)} IN
       ran' = [ran EXCEPT ![q] =
          CASE states \subseteq {"exact"} -> "sent"
            [] OfSchema(q, 6) /\ "corrupt" \in states /\ "missing" \notin states
                 -> "sent unverified"
            [] OTHER -> "rejected"]
    /\ UNCHANGED <<disk, lost, storeVars, importVars, artifactVars, profile,
                   runtime, observations, streams, registered, generations,
                   made>>

RequestStep ==
    \/ \E q \in Requests :
          \/ \E rev \in Revisions : CaptureRevision(q, rev)
          \/ RefuseRequest(q) \/ Gate(q)
          \/ RenderObservation(q) \/ ListObservation(q)
          \/ ConvergeObservation(q)
          \/ RenderStreams(q) \/ ListStreams(q)
          \/ \E s \in Streams : RegisterStream(q, s)
          \/ InsertGeneration(q) \/ Verify(q) \/ Transport(q)
    \/ \E rt \in Runtimes : Upgrade(rt)

-----------------------------------------------------------------------------
(* Artifacts a generation row names.                                          *)
NamedArtifacts == UNION {Captured(q) : q \in generations}

(* Rows of the derived tables keep their media live for backup.               *)
DerivedLive ==
    {ObservationBytes(o.rev, o.contract) : o \in observations}
      \cup {<<t.stream, t.pack, t.runtime>> : t \in streams}

(* The readiness surface, from the last captured revision and the installed   *)
(* release.                                                                   *)
Readiness(rev, r) ==
    IF profile[r] \in Runtimes /\ Negotiate(rev, r) = "SUPPORTED"
    THEN "supported" ELSE "refused"

(* The historical inspector: the bound row and the retained profile agree     *)
(* with what the stored specification pins, and the provenance names the      *)
(* captured release.                                                          *)
Inspectable(q) ==
    /\ \A a \in Captured(q) : HashMatches(a)
    /\ profile[Release(q)] = made[q]
    /\ \E o \in observations : o.rev = Rev(q) /\ o.contract = made[q]

(* A generation never names artifacts of two releases, however the capture    *)
(* interleaves with an installation.                                          *)
CapturedIsOneRelease ==
    \A q \in generations : \E r \in Releases :
       \A k \in Kinds : req[q].read[k] = r

(* Every artifact and every control medium a generation names is on disk      *)
(* unless a disk fault took it.                                               *)
NamedArtifactsKept ==
    \A p \in NamedArtifacts \cup UNION {Bound(q) : q \in generations} :
       disk[p] = "exact" \/ p \in lost

(* Profiles the schema-3 worker path cannot parse: a staged revision that was *)
(* requested through an observation-capable release is queued and refused.    *)
Stranded(q) == OfSchema(q, 5) /\ profile[Release(q)] \in Runtimes

(* The worker accepts every generation as it was captured, whatever release   *)
(* is installed and whichever version of the program runs by then; it rejects *)
(* one only for bytes a disk fault took (worker/comfy_pipeline.py: captured   *)
(* hashes, never today's contract).                                           *)
ReplayAccepts ==
    \A q \in generations :
       ran[q] = "rejected" =>
          (Captured(q) \cup Bound(q)) \cap lost # {} \/ Stranded(q)

(* A schema-5 upload carries only bytes that hash to what the row binds, also *)
(* when the file changes between verification and transport                   *)
(* (spatial/worker_inputs.py: the post-verification transport fence).  Only   *)
(* an observation that rotted in between can go out unverified.               *)
TransportIsExact ==
    \A q \in generations : ran[q] = "sent unverified" =>
       OfSchema(q, 6) /\ (Bound(q) \ Superseded(q)) \cap lost # {}

(* The observation a generation binds was published for the generation's own  *)
(* release, the readiness surface would have called that release supported,   *)
(* and the inspector can show it.                                             *)
ObservationsAreOwn ==
    \A q \in generations : OfSchema(q, 6) =>
       /\ [rev |-> Rev(q), contract |-> made[q], package |-> Release(q)]
             \in observations
       /\ Readiness(Rev(q), Release(q)) = "supported"
       /\ Inspectable(q) \/ Captured(q) \cap lost # {}

(* A generation can be run from what it captured: one release, whole, with    *)
(* the control media its own capture rendered.                                *)
ReleasesKept ==
    /\ RequestTypeOK
    /\ CapturedIsOneRelease /\ NamedArtifactsKept
    /\ ReplayAccepts /\ TransportIsExact /\ ObservationsAreOwn
=============================================================================
