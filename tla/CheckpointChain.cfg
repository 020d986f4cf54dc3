\* A tree of eight leaves; 0 and 1 are siblings, 6 is in the other half.
CONSTANTS
  Depth = 3
  Pages = {0, 1, 6}
  Contents = {0, 1}
  Zero = 0
  Digests = {0, 1}
  MaxCheckpoints = 2

SPECIFICATION ChainSpec

INVARIANT SparseRootIsDense
INVARIANT RootCommitsToMemory
INVARIANT ChainIsTamperEvident
