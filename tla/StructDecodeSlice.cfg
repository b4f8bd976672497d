CONSTANTS
    Structs = {"direct"}
    Fields <- TheFields
    Values <- TheValues
    Inputs <- TheInputs
    Readers <- OnSlices
SPECIFICATION Spec
INVARIANTS
    IntactDecoded
