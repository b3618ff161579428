\* Volumes of one to three devices, every way to ask for a subvolume, and
\* Ctrl+C at any moment.  The driver ends.
CONSTANTS
    DeviceLists <- MCDevices
    Starts <- MCStarts
    Short = Short
    Unreadable = Unreadable
    Uninitialised = Uninitialised
    OBJID_FS_TREE = 5
    FirstSubvolume = 256
    OBJID_ROOT_TREE_DIR = 6
SPECIFICATION StartupSpec
CHECK_DEADLOCK FALSE
INVARIANTS
    StartTypeOK
    NewestChosen
    AcceptedAreOwn
    AskedForMounted
    OnlyCtrlCIsUnsafe
    ClosedOnExit
PROPERTIES
    UnmountedAtExit
    MountsOrEnds
    CtrlCEnds
