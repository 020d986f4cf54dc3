------------------------------- MODULE Retain --------------------------------
(***************************************************************************)
(* A scan in order that keeps some of the elements, as iter_dirty does     *)
(* with the set bits.  A recursive function, so that both TLC and the      *)
(* provers can reason about it.                                            *)
(***************************************************************************)
EXTENDS Naturals, Sequences

RetainIn(s, keep) ==
  LET kept[i \in 0..Len(s)] ==
        IF i = 0 THEN << >>
        ELSE IF s[i] \in keep THEN Append(kept[i - 1], s[i])
        ELSE kept[i - 1]
  IN  kept[Len(s)]
=============================================================================
