\* Three file objects on one small volume.
CONSTANTS
    h1 = h1
    h2 = h2
    h3 = h3
    b1 = b1
    b2 = b2
    b3 = b3
    b4 = b4
    Handles = {h1, h2, h3}
    Blocks = {b1, b2, b3, b4}
    MaxLeaked = 1
    NoFile = NoFile
    NoThread = NoThread
    NoHandle = NoHandle
    NullMutex = NullMutex
    FileIDs <- MCFileIDs
    Paths <- MCPaths
    IDOf <- MCIDOf
    ParentOf <- MCParentOf
    PackableIDs <- MCPackableIDs
    InodeIDs <- MCInodeIDs
    Dirs <- MCDirs
    ListableIDs <- MCListableIDs
SPECIFICATION Spec
SYMMETRY Symmetry
INVARIANTS
    TypeOK
    AssertsHold
    IteratorsValid
    ExtentsOwnedOnce
    OpenFilesSorted
    LockSafe
PROPERTIES
    OnlyFailedOpensLeak
    ImplementsTable
