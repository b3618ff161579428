\* A claim the code does not keep.
CONSTANTS
    DeviceLists <- MCDeviceLists
    Short = Short
    Unreadable = Unreadable
    Uninitialised = Uninitialised
SPECIFICATION Spec
CHECK_DEADLOCK FALSE
INVARIANT
    PrimaryMustValidate
