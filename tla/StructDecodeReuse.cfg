CONSTANTS
    Structs = {"direct", "mixed", "generic"}
    Fields <- TheFields
    Values <- TheValues
    Inputs <- TheInputs
    Readers <- OnBoth
SPECIFICATION Spec
INVARIANTS
    TypeOK
    FieldsInOrder
    AcceptsOnlyWhole
    IntactDecoded
