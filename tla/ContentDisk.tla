---------------------------- MODULE ContentDisk ----------------------------
(* The content-addressed files under the data directory.  A path is named    *)
(* after the SHA-256 of the bytes it must hold, so the model names a path by  *)
(* the content itself and records only how the bytes found there compare with *)
(* it.  Two stores share the discipline: blobs/ (assets/blob_store.py) and    *)
(* workflow-artifacts/ (workflows/artifact_store.py).                         *)
EXTENDS Naturals, FiniteSets

CONSTANTS
    Media,       \* contents of media files (blobs)
    Kinds,       \* artifact kinds: manifests, templates, ...
    Releases,    \* workflow releases an operator may install
    Derived,     \* contents the program renders from captured authority
    MaxFaults    \* bound on the disk faults of a behaviour

VARIABLES
    disk,        \* path -> how the bytes at the path compare with its name
    lost         \* paths a disk fault has ever hit (history)

Artifacts == Kinds \X Releases
BlobPaths == Media \cup Derived
Paths == BlobPaths \cup Artifacts
FileStates == {"exact", "missing", "corrupt"}

DiskTypeOK ==
    /\ disk \in [Paths -> FileStates]
    /\ lost \subseteq Paths

DiskInit ==
    /\ disk = [p \in Paths |-> "missing"]
    /\ lost = {}

(* What hashing the file at p and comparing with p tells the caller: a        *)
(* missing and a locked file both read as None.                               *)
HashMatches(p) == disk[p] = "exact"

(* Bytes vanish or rot behind the program's back, once per path at most.      *)
DiskFault(p) ==
    /\ p \notin lost /\ Cardinality(lost) < MaxFaults
    /\ disk[p] # "missing"
    /\ \E s \in {"missing", "corrupt"} : disk' = [disk EXCEPT ![p] = s]
    /\ lost' = lost \cup {p}
=============================================================================
