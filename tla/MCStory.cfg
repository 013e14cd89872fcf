SPECIFICATION MCSpec
CONSTANTS
    None = None
    Clear = Clear
    Q1 = Q1
    C1 = C1
    S1 = S1
    S2 = S2
    E1 = E1
    E2 = E2
    F1 = F1
    P1 = P1
    R1 = R1
    V1 = V1
    V2 = V2
    W1 = W1
    G1 = G1
    G2 = G2
    A1 = A1
    T1 = T1
    I1 = I1
    J1 = J1
    X1 = X1
    K1 = K1
    K2 = K2
    L1 = L1
    Sequence = {Q1, Q2}
    Scene = {C1, C2}
    Shot = {S1, S2, S3}
    Entity = {E1, E2}
    Specs = {"a", "b"}
    Roles = {"r"}
    Feature = {F1, F2}
    FeatureKeys = {"k", "l"}
    Predicate = {P1}
    Relation = {R1}
    Values = {V1, V2}
    MaxTransitions = 3
    World = {W1, W2}
    Frame = {G1, G2}
    Axis = {A1}
    Track = {T1}
    Points = {1, 2}
    Clients = {K1, K2}
    MaxWorldRevs = 1
    InstanceFeature = {I1}
    InstanceTrack = {J1}
    Event = {X1, X2}
    Durations = {2, 3}
    Intents = {"i"}
    References = {"ref"}
    MaxShotRevs = 2
    Proposal = {"p", "q"}
    MaxReviews = 3
    Line = {L1}
    Texts = {"t", "u"}
    Voice = {"c", "d"}
    Frames = 4
    MaxInt = 3
    Runs = {"run"}
    Labels = {"x", "y"}
    PerformanceId = {"m", "n", "o"}
    Physical <- MCPhysical
INVARIANTS NarrativeSound ContinuitySound StagingSound CaptureSound ConsequencesSound 
PROPERTIES StoryWritesAreCurrent
CHECK_DEADLOCK FALSE
