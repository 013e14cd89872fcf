------------------------------- MODULE Backup -------------------------------
(* recovery/backup.py: backup and restore of a running instance.  backup      *)
(* takes a snapshot of the database first and copies the bytes it refers to   *)
(* afterwards, while uploads and requests go on; everything is staged in a    *)
(* hidden sibling directory and becomes visible by one rename.                *)
EXTENDS GenerationRequest

CONSTANTS
    Backups,        \* backup commands, all for the same destination
    Restores        \* restore commands, all for the same destination

ASSUME BackupAssumption == Backups \cap Restores = {}

NoTree == [db |-> "absent"]

VARIABLES
    job,            \* command -> [pc, db, files, checking]
    vault,          \* the backup destination
    vaultFaults,    \* disk faults the backup destination has suffered
    root            \* the restore destination

backupVars == <<job, vault, vaultFaults, root>>
instanceVars == <<disk, lost, storeVars, importVars, artifactVars, requestVars>>
vars == <<instanceVars, backupVars>>

(* The rows a snapshot of the database holds: referenced blobs and artifacts. *)
Database == [blobs : SUBSET BlobPaths, artifacts : SUBSET Artifacts]
NoDb == [blobs |-> {}, artifacts |-> {}]
LiveBlobs == {up[u].media : u \in assets} \cup ({take} \ {NoMedia})
               \cup DerivedLive
CurrentDb == [blobs |-> LiveBlobs, artifacts |-> NamedArtifacts]

(* _enumerate_liveness: every path the snapshot obliges the copy to hold.     *)
Live(db) == db.blobs \cup db.artifacts

JobPcs == {"idle", "copying", "staged", "publishing", "done", "failed",
           "corrupt"}
Tree == [db : Database, files : [Paths -> FileStates]]

BackupTypeOK ==
    /\ StoreTypeOK /\ RequestTypeOK
    /\ job \in [Backups \cup Restores ->
                  [pc : JobPcs, db : Database, files : [Paths -> FileStates],
                   checking : SUBSET Paths]]
    /\ vault \in Tree \cup {NoTree} /\ root \in Tree \cup {NoTree}
    /\ vaultFaults \in Nat

Empty == [p \in Paths |-> "missing"]

BackupInit ==
    /\ job = [j \in Backups \cup Restores |->
                [pc |-> "idle", db |-> NoDb, files |-> Empty,
                 checking |-> {}]]
    /\ vault = NoTree /\ vaultFaults = 0 /\ root = NoTree

JobAt(j, pc) == job[j].pc = pc
SourceFiles(j) == IF j \in Backups THEN disk ELSE vault.files
(* RecoveryCorruption: the staged tree is removed and nothing is published.   *)
Fail(j) == job' = [job EXCEPT ![j].pc = "corrupt", ![j].files = Empty,
                               ![j].checking = {}]

(* _verify_manifest_files: every listed path is present with its exact bytes. *)
Complete(db, files) == \A p \in Live(db) : files[p] = "exact"

-----------------------------------------------------------------------------
(* The destination is absent; the staged database is an online snapshot.      *)
Snapshot(b) ==
    /\ b \in Backups /\ JobAt(b, "idle") /\ vault = NoTree
    /\ job' = [job EXCEPT ![b].pc = "copying", ![b].db = CurrentDb]
    /\ UNCHANGED <<instanceVars, vault, vaultFaults, root>>

(* A restore starts by verifying the backup it is given.                      *)
OpenBackup(r) ==
    /\ r \in Restores /\ JobAt(r, "idle") /\ vault # NoTree /\ root = NoTree
    /\ IF Complete(vault.db, vault.files)
       THEN job' = [job EXCEPT ![r].pc = "copying", ![r].db = vault.db]
       ELSE Fail(r)
    /\ UNCHANGED <<instanceVars, vault, vaultFaults, root>>

(* _copy_verified hashes the source ...                                       *)
HashSource(j, p) ==
    /\ JobAt(j, "copying") /\ job[j].checking = {}
    /\ p \in Live(job[j].db) /\ job[j].files[p] = "missing"
    /\ IF SourceFiles(j)[p] = "exact"
       THEN job' = [job EXCEPT ![j].checking = {p}]
       ELSE Fail(j)
    /\ UNCHANGED <<instanceVars, vault, vaultFaults, root>>

(* Mutant: the copy is trusted because its source was hashed.                 *)
CopyUnverified(j) ==
    /\ JobAt(j, "copying")
    /\ \E p \in job[j].checking :
          job' = [job EXCEPT ![j].files[p] = IF SourceFiles(j)[p] = "exact"
                                             THEN "exact" ELSE "corrupt",
                             ![j].checking = {}]
    /\ UNCHANGED <<instanceVars, vault, vaultFaults, root>>

(* ... copies it, reading it a second time, and hashes the copy.              *)
CopyVerified(j) ==
    /\ JobAt(j, "copying")
    /\ \E p \in job[j].checking :
          IF SourceFiles(j)[p] = "exact"
          THEN job' = [job EXCEPT ![j].files[p] = "exact",
                                  ![j].checking = {}]
          ELSE Fail(j)
    /\ UNCHANGED <<instanceVars, vault, vaultFaults, root>>

(* Everything is copied.  A backup is then verified as a whole against its    *)
(* own manifest; a restore has its database compared with the manifest only.  *)
VerifyStage(j) ==
    /\ JobAt(j, "copying") /\ job[j].checking = {}
    /\ \A p \in Live(job[j].db) : job[j].files[p] # "missing"
    /\ IF j \in Backups => Complete(job[j].db, job[j].files)
       THEN job' = [job EXCEPT ![j].pc = "staged"]
       ELSE Fail(j)
    /\ UNCHANGED <<instanceVars, vault, vaultFaults, root>>

Destination(j) == IF j \in Backups THEN vault ELSE root

(* _publish_staged_directory: the destination must still be absent ...        *)
CheckAbsent(j) ==
    /\ JobAt(j, "staged")
    /\ job' = [job EXCEPT ![j].pc = IF Destination(j) = NoTree
                                    THEN "publishing" ELSE "failed"]
    /\ UNCHANGED <<instanceVars, vault, vaultFaults, root>>

(* Mutant: a rename that replaces what it finds.                              *)
RenameReplacing(j) ==
    /\ JobAt(j, "publishing")
    /\ LET tree == [db |-> job[j].db, files |-> job[j].files] IN
       IF j \in Backups THEN vault' = tree /\ UNCHANGED root
       ELSE root' = tree /\ UNCHANGED vault
    /\ job' = [job EXCEPT ![j].pc = "done"]
    /\ UNCHANGED <<instanceVars, vaultFaults>>

(* ... and the rename refuses to replace a populated directory.               *)
Rename(j) ==
    /\ JobAt(j, "publishing")
    /\ IF Destination(j) = NoTree
       THEN LET tree == [db |-> job[j].db, files |-> job[j].files] IN
            /\ job' = [job EXCEPT ![j].pc = "done"]
            /\ IF j \in Backups
               THEN vault' = tree /\ UNCHANGED root
               ELSE root' = tree /\ UNCHANGED vault
       ELSE /\ job' = [job EXCEPT ![j].pc = "failed"]
            /\ UNCHANGED <<vault, root>>
    /\ UNCHANGED <<instanceVars, vaultFaults>>

(* The command is killed: a hidden staging directory may stay behind.         *)
JobDies(j) ==
    /\ job[j].pc \in {"copying", "staged", "publishing"}
    /\ job' = [job EXCEPT ![j].pc = "failed", ![j].checking = {}]
    /\ UNCHANGED <<instanceVars, vault, vaultFaults, root>>

(* A disk fault hits the published backup.                                    *)
VaultFault(p) ==
    /\ vaultFaults < MaxFaults /\ vault # NoTree
    /\ vault.files[p] = "exact"
    /\ \E s \in {"missing", "corrupt"} : vault' = [vault EXCEPT !.files[p] = s]
    /\ vaultFaults' = vaultFaults + 1
    /\ UNCHANGED <<instanceVars, job, root>>

BackupStep ==
    \/ \E b \in Backups : Snapshot(b)
    \/ \E r \in Restores : OpenBackup(r)
    \/ \E j \in Backups \cup Restores :
          \/ CopyVerified(j) \/ VerifyStage(j) \/ CheckAbsent(j) \/ Rename(j)
          \/ JobDies(j)
          \/ \E p \in Paths : HashSource(j, p)
    \/ \E p \in Paths : VaultFault(p)

Init == DiskInit /\ StoreInit /\ ArtifactInit /\ RequestInit /\ BackupInit

Writing == StoreStep /\ UNCHANGED <<artifactVars, requestVars, backupVars>>
Requesting ==
    /\ \/ ArtifactStep /\ UNCHANGED <<storeVars, importVars, requestVars>>
       \/ RequestStep
    /\ UNCHANGED backupVars
Faulting ==
    /\ \E p \in Paths : DiskFault(p)
    /\ UNCHANGED <<storeVars, importVars, artifactVars, requestVars,
                   backupVars>>

Next == Writing \/ Requesting \/ BackupStep \/ Faulting

Spec == Init /\ [][Next]_vars

-----------------------------------------------------------------------------
(* The backup destination, read as the certified copy it promises to be.      *)
AsCopy(t) == [rows |-> Live(t.db), bytes |-> {p \in Paths : t.files[p] = "exact"}]
PublishedCopy == IF vault = NoTree THEN NoTree ELSE AsCopy(vault)
LiveNow == Live(CurrentDb)
Copy == INSTANCE CertifiedCopy WITH
    Content <- Paths, NoCopy <- NoTree, live <- LiveNow, copy <- PublishedCopy

(* A published backup is one certified copy: made while uploads and requests  *)
(* run, by two commands at once, killed anywhere, it appears complete or not  *)
(* at all and is never replaced.                                              *)
BackupCertifies == Copy!Spec

(* A restored root holds the database of the backup and every byte it names,  *)
(* also when the backup was damaged while it was being restored.              *)
RestoredIsComplete ==
    root # NoTree => root.db = vault.db /\ Complete(root.db, root.files)

(* backup reports corruption only when a disk fault has hit the instance, and *)
(* restore only when one has hit the backup: rows that are snapshotted before *)
(* the bytes are copied always find their bytes, because every writer places  *)
(* bytes before it commits the row.                                           *)
CorruptionIsReal ==
    /\ (\E b \in Backups : JobAt(b, "corrupt")) => lost # {}
    /\ (\E r \in Restores : JobAt(r, "corrupt")) => vaultFaults > 0

(* Restore delivers all of it or reports a corruption that is one.            *)
RestoreSound == BackupTypeOK /\ RestoredIsComplete /\ CorruptionIsReal
=============================================================================
