----------------------------- MODULE MCStorage -----------------------------
(* The storage run looks at four groups of concurrent actors, one per         *)
(* behaviour, so that their state spaces add up instead of multiplying:       *)
(*   writers  two uploads and two owners of one Comfy generation;             *)
(*   media    backup and restore beside one upload and one import;            *)
(*   release  backup and restore beside a request and an installation;        *)
(*   derived  two requests, the worker, an installation and an upgrade.       *)
EXTENDS Backup, TLC

VARIABLE group

MCRevisions == {"plain", "staged", "world", "mesh", "timed"}
MCSchema == [rev \in MCRevisions |->
    CASE rev = "plain" -> 4 [] rev = "staged" -> 5 [] rev = "timed" -> 7
      [] OTHER -> 6]
MCPack == [rev \in MCRevisions |-> "pack"]
MCRequires == [rev \in MCRevisions |->
    IF rev = "mesh" THEN {"frames", "structure"} ELSE {"frames"}]
MCSupports == [r \in {"r1", "r2"} |->
    IF r = "r1" THEN {"frames", "structure"} ELSE {"frames"}]
MCKnows == [r \in {"r1", "r2"} |-> {"frames", "structure"}]
MCStreams == {"world"}
MCRuntimes == {"v1", "v2"}
MCDerived == ({"observation"} \X {"world", "mesh"} \X MCRuntimes)
               \cup (MCStreams \X {"pack"} \X MCRuntimes)

MCInit ==
    /\ Init
    /\ group \in {"writers", "media", "release", "derived"}
    /\ executor = IF group = "writers" THEN "comfy" ELSE "fake"
    /\ runtime = "v1" /\ target = "r1"
    /\ profile["r1"] = "v1"
    /\ group # "derived" => profile["r2"] = "v1"

OneWriterEach == up'["u2"] = up["u2"] /\ imp'["i2"] = imp["i2"]

(* Beside a backup one request captures a plain revision, and no worker runs. *)
OnePlainRequest ==
    /\ req'["q2"] = req["q2"] /\ runtime' = runtime /\ ran' = ran
    /\ req'["q1"].pc = "refused" => req["q1"].pc \in {"read", "revised"}
    /\ req'["q1"].rev \in {NoRevision, "plain"}

(* Among two requests the interleavings that no step can tell apart are left  *)
(* out: q1 starts first, captures run one at a time and see a whole release   *)
(* (half-installed ones are the business of group release), installations     *)
(* happen before a capture and beside no step but another capture's end, the  *)
(* program is upgraded once, and only q1 is refused or cut off, or captures a *)
(* revision that renders nothing.                                             *)
Capturing(q) == req[q].pc \in {"reading", "read"}
Started(q) == ~RequestAt(q, "idle")
Installing == installed' # installed \/ target' # target
Distinct ==
    /\ Started("q2")' => Started("q1")
    /\ Capturing("q2")' => ~Capturing("q1")
    /\ \A q \in Requests : Capturing(q)' =>
          installed' = [f \in Files |-> target']
    /\ Installing => /\ ~Started("q2")
                     /\ RequestAt("q1", "captured") \/ ~InFlight("q1")
    /\ runtime # "v1" => runtime' = runtime
    /\ req'["q2"] # req["q2"] /\ runtime' = runtime =>
          /\ req'["q2"].pc = "refused" =>
                req["q2"].pc \in {"read", "revised", "registering"}
          /\ req'["q2"].rev \notin {"plain", "timed"}

(* Among two requests the disk fails where its state is read again: while a   *)
(* stream is registered, and once a row is committed.                         *)
FaultMatters ==
    generations # {} \/ \E q \in Requests : RequestAt(q, "registering")

MCNext ==
    /\ \/ group = "writers" /\ Writing
       \/ group = "media" /\ Writing /\ OneWriterEach
       \/ group = "release" /\ Requesting /\ OnePlainRequest
       \/ group = "derived" /\ Requesting /\ Distinct
       \/ group \in {"media", "release"} /\ BackupStep
       \/ Faulting /\ (group = "derived" => FaultMatters)
    /\ UNCHANGED group

MCSpec == MCInit /\ [][MCNext]_<<vars, group>>

Symmetric == Permutations(Backups)
=============================================================================
