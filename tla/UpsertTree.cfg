\* A tree of four tables, two workers: kills, restarts, lost sessions and
\* evictions in the middle of an event, with and without batching.
SPECIFICATION Spec

CONSTANTS
    r = r
    a = a
    b = b
    c = c
    Workers = {w1, w2}
    Docs = {d1, d2}
    Root = r
    Mappings <- MCMappings
    ParentOf <- MCParentOf
    Shapes <- MCShapes
    Bad = {b}
    MaxEvents = 2
    MaxFaults = 2
    None = None

INVARIANT TypeOK
INVARIANT BatchedTreeIsWhole
INVARIANT AppliedTreeIsWhole
INVARIANT NeverRefused

SYMMETRY Symmetry

CHECK_DEADLOCK FALSE
