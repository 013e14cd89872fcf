SPECIFICATION MCSpec
CONSTANTS
    Media = {Output, Torn}
    Output = Output
    Torn = Torn
    Kinds = {"manifests", "templates"}
    Releases = {"r1", "r2"}
    MaxFaults = 1
    Uploads = {"u1", "u2"}
    Importers = {"i1", "i2"}
    Executors = {"comfy", "fake"}
    Requests = {"q1", "q2"}
    Revisions <- MCRevisions
    Schema <- MCSchema
    Pack <- MCPack
    Requires <- MCRequires
    Supports <- MCSupports
    Knows <- MCKnows
    Streams <- MCStreams
    Runtimes <- MCRuntimes
    Derived <- MCDerived
    Backups = {b1, b2}
    Restores = {"s1"}
SYMMETRY Symmetric
INVARIANTS  ReleasesKept 
PROPERTIES  BackupCertifies
CHECK_DEADLOCK FALSE
