SPECIFICATION Spec
CONSTANTS
    Word = 8388608
    Half = 16384
    MaxLen = 4
    MaxFrameSize = 4096
    Samples <- MCSamples
    Limit = 255
    MaxFrames = 2
    FedBytes = {0, 1, 2, 3, 8, 128, 240, 255}
    MaxFed = 6
INVARIANTS
    ReadsWhatWasSent
    CutIsNoticed
    VarintCanonical
    AcceptedIsEncodable

CHECK_DEADLOCK FALSE
