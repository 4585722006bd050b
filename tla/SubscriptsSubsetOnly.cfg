SPECIFICATION Spec
CONSTANTS
    Parents <- MCParents
    Chains <- MCChains
    Inputs <- MCInputs
    VarOps = {"neg", "add", "cpy"}
    SizeMod = 65536
INVARIANT
    SubsetOnly
