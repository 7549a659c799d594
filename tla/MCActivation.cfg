SPECIFICATION Spec
CONSTANTS
    DesignIds = {d1, d2}
    ArtifactIds = {a1}
    NoDesign = NoDesign
    Keys = {k1}
    NoKey = NoKey
    Requests = {p1, p2, p3}
    Processes = {m1}
    ProcessOf <- OneProcess
    Ops = {"create", "remove", "activate", "background"}
INVARIANTS
    OneActive
    ActiveHasBackground
PROPERTIES
    ActivationEnds
