\* The one sandbox that a run of the demo asks for.
CONSTANTS
    s1 = s1
    NoBox = NoBox
    Ids = {s1}
SPECIFICATION FairSpec
INVARIANTS
    DemoTypeOK
    SuccessIsReal
PROPERTIES
    DemoEnds
