CONSTANTS
    Structs = {"last"}
    Fields <- TheFields
    Values <- TheValues
    Inputs <- TheInputs
    Readers <- OnSlices
SPECIFICATION Spec
INVARIANTS
    AcceptsOnlyWhole
