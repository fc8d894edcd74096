CONSTANTS
    Width  <- MC_Width
    NoAttr = NoAttr
    NoSsrc = NoSsrc
    Null   = Null
    Throw  = Throw
    Blank  = Blank
    Bad    = Bad
    Numeral <- MC_Numeral
    Decimal <- MC_Decimal
    KeyRank <- MC_KeyRank
    Lowercase <- MC_Lowercase
    Grammar <- MC_Grammar
    NoMatch = NoMatch
    Invalid = Invalid
    Garbage = Garbage
    WindowSizes <- MC_WindowSizes
    TargetSize <- MC_TargetSize
    Inputs <- MC_Inputs
    MaxInputs <- MC_MaxInputs
SPECIFICATION Spec
INVARIANTS
    SsrcPairing
    LegacySimulcastSynthesis
    SimulcastEncodings
    CapabilitiesFromFirstSections
    CodecParametersMerged
    CursorRouting
    PushedElements
    FieldTypes
    FrameDelivered
    ScratchCoversRecordedSize
    ScaleOnLiveObject
    PaintShowsConvertedFrame
    RendererAliveInOnFrame
    
    SecondLoopNeverRuns
    PayloadsParsed
    StreamListRoundTrip
    ImageAttrRoundTrip

    
