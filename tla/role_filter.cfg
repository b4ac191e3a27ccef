\* One instance; every list of up to two roles with up to three characters
\* in all, and every filter of up to two characters.
SPECIFICATION Spec
CONSTANTS
    Instances = {main}
    Letters <- AllLetters
    MaxList = 2
    MaxRoles = 3
    MaxFilter = 2
    None = None
INVARIANTS
    ProvidersAreFound
    OnlyProvidersAreFound
