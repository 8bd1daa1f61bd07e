CONSTANTS
    Segs = 3
    Faces = 2
    Offsets = {0, 1, 2}
    Near = 2
    SemCounts = {0, 1, 3}
    Consensus = {1, 2, 5}
    Unit = 720
SPECIFICATION Spec
INVARIANTS
    SurerOnlyIfOvercounted
    DeepfakeHighOnlyIfOvercounted
    IntactIffSameSpacing
CHECK_DEADLOCK FALSE
