\* Every operation on every tree, and the lookup of every path.
CONSTANTS
    Volumes <- MCVolumes
    Names <- MCNames
    Hash <- MCHash
    Paths <- MCPaths
    Subvolumes <- MCSubvolumes
    OBJID_ROOT_DIR = 1
    NoInode = NoInode
SPECIFICATION LookupSpec
INVARIANTS
    LookupTypeOK
    NameFound
    FilePkgRight
    InodeFound
    ListingComplete
    LookupRight
PROPERTY
    LookupEnds
