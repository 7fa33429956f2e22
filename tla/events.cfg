SPECIFICATION Spec
CONSTANTS
    Types <- MCTypes
    Unknown <- MCUnknown
    FractionValues <- MCFractionValues
INVARIANTS
    RoundTrips
    NothingLost
