\* The abstract multimap alone.
CONSTANTS
    h1 = h1
    h2 = h2
    h3 = h3
    f1 = f1
    f2 = f2
    Handles = {h1, h2, h3}
    NoFile = NoFile
    Records <- MCRecords
SPECIFICATION Spec
INVARIANTS
    Balanced
