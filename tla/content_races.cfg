CONSTANTS
    Handlers = {h1, h2}
    Kinds = {"package", "post"}
    Bases <- Titles
    OldSlugs <- Removed
    MaxRows = 2
    Categories = {c1, c2}
    Names = {"Beach", "beach!"}
    CategorySlug <- SlugTable
    MaxComments = 3
SPECIFICATION Spec
SYMMETRY ContentSymmetry
INVARIANT ContentInv
INVARIANT UndisturbedWritesSucceed
INVARIANT PublicHasVerdict
INVARIANT NoOrphans
INVARIANT ThreadsAreFlat
CHECK_DEADLOCK FALSE
