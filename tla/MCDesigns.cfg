SPECIFICATION Spec
SYMMETRY Symmetry
CONSTANTS
    DesignIds = {d1, d2}
    ArtifactIds = {a1}
    NoDesign = NoDesign
    Keys = {k1, k2, k3, k4}
    NoKey = NoKey
    Requests = {p1, p2}
    Processes = {m1}
    ProcessOf <- OneProcess
    Ops = {"create", "update", "remove", "activate", "background", "artifact"}
INVARIANTS
    DesignTypeOK
    FilesOfRows
