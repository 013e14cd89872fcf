--------------------------- MODULE ArtifactStore ---------------------------
(* Workflow releases: an operator installs a release by rewriting its files   *)
(* one at a time, and a generation request captures the installed release and *)
(* later gives its artifacts their content-addressed place.  Nothing locks    *)
(* the installed files: the descriptor, read before and after, is the only    *)
(* interlock (realization/packages.py, workflows/artifact_store.py).          *)
EXTENDS ContentDisk

CONSTANTS
    Requests,      \* generation requests
    Revisions      \* shot revisions a request may capture

NoRelease == "no release"
NoRevision == "no revision"

VARIABLES
    installed,     \* descriptor and artifact files -> release they hold
    target,        \* the release being installed
    req            \* request -> [pc, d1, read, placed, rev]

artifactVars == <<installed, target, req>>

Files == Kinds \cup {"descriptor"}
RequestPcs == {"idle", "reading", "read", "captured", "revised", "observed",
               "rendered", "listed", "spatial", "streamed", "registering",
               "ready", "done", "refused", "disagreed"}

ArtifactTypeOK ==
    /\ installed \in [Files -> Releases]
    /\ target \in Releases
    /\ req \in [Requests -> [pc : RequestPcs,
                             d1 : Releases \cup {NoRelease},
                             read : [Kinds -> Releases \cup {NoRelease}],
                             placed : SUBSET Kinds,
                             rev : Revisions \cup {NoRevision}]]

ArtifactInit ==
    /\ \E r \in Releases : installed = [f \in Files |-> r] /\ target = r
    /\ req = [q \in Requests |->
                [pc |-> "idle", d1 |-> NoRelease,
                 read |-> [k \in Kinds |-> NoRelease], placed |-> {},
                 rev |-> NoRevision]]

-----------------------------------------------------------------------------
(* The operator decides to install another release ...                        *)
BeginInstall(r) ==
    /\ target # r /\ \A f \in Files : installed[f] = target
    /\ target' = r
    /\ UNCHANGED <<disk, lost, installed, req>>

(* ... and writes its files one by one, in whatever order.                    *)
InstallFile(f) ==
    /\ installed[f] # target
    /\ installed' = [installed EXCEPT ![f] = target]
    /\ UNCHANGED <<disk, lost, target, req>>

-----------------------------------------------------------------------------
RequestAt(q, pc) == req[q].pc = pc

ReadDescriptor(q) ==
    /\ RequestAt(q, "idle")
    /\ req' = [req EXCEPT ![q].pc = "reading",
                          ![q].d1 = installed["descriptor"]]
    /\ UNCHANGED <<disk, lost, installed, target>>

ReadArtifact(q, k) ==
    /\ RequestAt(q, "reading") /\ req[q].read[k] = NoRelease
    /\ req' = [req EXCEPT ![q].read[k] = installed[k],
          ![q].pc = IF \A j \in Kinds \ {k} : req[q].read[j] # NoRelease
                    THEN "read" ELSE "reading"]
    /\ UNCHANGED <<disk, lost, installed, target>>

(* Every buffer hashes to what the first descriptor declared, and the         *)
(* descriptor has not moved meanwhile.                                        *)
Coherent(q) ==
    /\ \A k \in Kinds : req[q].read[k] = req[q].d1
    /\ installed["descriptor"] = req[q].d1

FinishCapture(q) ==
    /\ RequestAt(q, "read")
    /\ req' = [req EXCEPT ![q].pc = IF Coherent(q) THEN "captured"
                                    ELSE "refused"]
    /\ UNCHANGED <<disk, lost, installed, target>>

Captured(q) == {<<k, req[q].read[k]>> : k \in Kinds}

(* place_release, once the captured revision proved executable: one artifact  *)
(* after the other, an identical file wins, a missing or corrupt one is       *)
(* replaced from the verified buffer.                                         *)
PlaceArtifact(q, k) ==
    /\ RequestAt(q, "revised") /\ k \notin req[q].placed
    /\ disk' = [disk EXCEPT ![<<k, req[q].read[k]>>] = "exact"]
    /\ req' = [req EXCEPT ![q].placed = @ \cup {k}]
    /\ UNCHANGED <<lost, installed, target>>

ArtifactStep ==
    \/ \E r \in Releases : BeginInstall(r)
    \/ \E f \in Files : InstallFile(f)
    \/ \E q \in Requests :
          \/ ReadDescriptor(q) \/ FinishCapture(q)
          \/ \E k \in Kinds : ReadArtifact(q, k) \/ PlaceArtifact(q, k)
=============================================================================
