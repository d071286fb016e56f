\* Three backends of two virtual nodes, with and without collisions.
CONSTANTS
    Backends = {b1, b2, b3}
    NoBackend = NoBackend
    VNodes = 2
    Points = {1, 2, 3, 4, 5, 6}
    Hashes <- SomeHashes
SYMMETRY Symmetry
SPECIFICATION Spec
INVARIANTS
    NoGhosts
    Clockwise
    WalkFinds
    RingIsMembership
    ExclusionIsRemoval
PROPERTY
    MinimalDisruption
