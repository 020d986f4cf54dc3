CONSTANTS
  WordBits = 2
  PageSize = 4
  U32 = 12

SPECIFICATION MemSpec

 
INVARIANT AccessesStayInside
INVARIANT DirtyTracksWrites
 
