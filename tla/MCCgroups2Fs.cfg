CONSTANTS
    k1 = k1
    k2 = k2
    Kids <- MCKids
    Supported = TRUE
    MaxOutside = 2
    MaxCrashes = 1

SPECIFICATION Spec

INVARIANT TypeOK
PROPERTY BootstrapCompletes
