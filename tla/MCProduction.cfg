SPECIFICATION MCSpec
CONSTANTS
    Clients = {K1, K2}
    K1 = K1
    C = C
    D = D
    X = X
    Y = Y
    A1 = A1
    A2 = A2
    A3 = A3
    B1 = B1
    B2 = B2
    E1 = E1
    Objects = {X, Y}
    Assets = {A1, A2, A3}
    BlobOf <- MCBlobOf
    Compositions = {C, D}
    Transforms = {"origin", "moved"}
    MaxOccurrences = 4
    MaxVersion = 4
    MaxRevisions = 4
    None = None
    Entities = {E1}
    Framed = {E1}
    Keys = {"f", "g"}
    Frames = {"plain", "shifted", "rotated"}
    Shots = {"s"}
    MaxBindings = 2
    PI = PI
    MaxAssessments = 2
INVARIANTS  PublicationsConverge OwnershipSound 
 
CHECK_DEADLOCK FALSE
