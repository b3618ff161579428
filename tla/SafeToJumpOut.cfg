\* A claim the code does not keep.
CONSTANTS
    Volumes <- MCVolumes
    Names <- MCNames
    Hash <- MCHash
    OBJID_ROOT_DIR = 1
    NoInode = NoInode
SPECIFICATION Spec
INVARIANT
    SafeToJumpOut
