SPECIFICATION Spec
CONSTANTS
    Types <- MCIdentities
    Unknown <- MCUnknown
    FractionValues <- MCFractionValues
INVARIANTS
    KeepsVariant
