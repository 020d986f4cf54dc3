---------------------------- MODULE MCDeltaStream -----------------------------
(* Constants of the delta stream's run that a .cfg cannot express.         *)
EXTENDS DeltaStream

\* From zero to sparse RLE wins, to dense it does not; from sparse to zero it
\* wins as well.
SparseAndDense ==
  { ZeroPage, << {}, {}, {}, {0} >>, << {1}, {}, {0}, {} >> }
===============================================================================
