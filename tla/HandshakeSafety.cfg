SPECIFICATION Spec
CONSTANTS
    MaxFrameSize = 1048576
    minFrameSize = 256
    minFrameLen = 5
    MaxItems = 4
    Lens <- MCLens
    VersionLists <- MCVersionLists
INVARIANTS
    BothCeilings
    CodeNamesDefect
