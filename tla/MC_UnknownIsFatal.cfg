CONSTANTS
    Creators <- MCCreators
    DeviceCreators <- MCDeviceCreators
    CgroupsNames <- MCCgroupsNames
    OtherTokens <- MCOtherTokens
    Breakable <- MCBreakable

SPECIFICATION Spec

INVARIANT UnknownIsFatal
