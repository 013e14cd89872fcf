SPECIFICATION MCSpec
CONSTANTS
    None = None
    Clear = Clear
    Q1 = Q1
    C1 = C1
    S1 = S1
    E1 = E1
    F1 = F1
    V1 = V1
    V2 = V2
    K1 = K1
    K2 = K2
    Sequence = {Q1}
    Scene = {C1}
    Shot = {S1}
    Entity = {E1}
    Specs = {"a", "b"}
    Roles = {"r"}
    Feature = {F1}
    FeatureKeys = {"k"}
    Predicate = {}
    Relation = {}
    Values = {V1, V2}
    MaxTransitions = 2
    Facet = {"f", "g"}
    Anchor = {"a1", "a2", "a3", "a4"}
    Asset = {"x", "y"}
    Editors = {K1, K2}
    MaxItems = 2
    MaxAnchorRevs = 2
    MaxShotPacks = 2
INVARIANTS AnchorsSound PacksSound
CHECK_DEADLOCK FALSE
