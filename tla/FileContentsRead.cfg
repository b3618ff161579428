\* A claim the code does not keep.
CONSTANTS
    Files <- MCFiles
    Disks <- MCDisks
    NodeSize = 2
    Damaged <- MCDamaged
    LzoExtents <- MCLzoExtents
    ZlibExtents <- MCZlibExtents
    HeaderSize = 1
    OutLens <- MCOutLens
    Offsets = {0, 1, 2, 3, 4, 5, 6, 8, 9}
    Lengths = {0, 1, 2, 3, 4, 6, 8, 12}
    DWORDs = 256
    Zero = Zero
    Packed = Packed
    Garbage = Garbage
SPECIFICATION Spec
INVARIANTS
    FileContentsRead
