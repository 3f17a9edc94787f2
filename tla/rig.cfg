SPECIFICATION Spec
CONSTANTS
    Runtimes = {r1, r2}
    Turns = {t1, t2}
    Cells = {c1, c2, c3, c4}
    Names = {a, b}
    Models = {m1, m2}
    First = m1
    Default = Default
    NoExecutor = NoExecutor
    NoModel = NoModel
    Gone = Gone
    MaxDocs = 3
    MaxK = 4
    Worlds <- MCWorlds
INVARIANTS
    OneTurnOneSet
    LookupFollowsHistory
    SearchIsTopK
PROPERTIES
    ValueSemantics
SYMMETRY CellSymmetry
CHECK_DEADLOCK FALSE
