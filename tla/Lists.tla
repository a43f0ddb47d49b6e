------------------------------- MODULE Lists --------------------------------
(***************************************************************************)
(* What leaves a list: a node of an xList (not part of the repository)     *)
(* that is deleted or joins another list, an element that is erased from a *)
(* vector.                                                                 *)
(***************************************************************************)
EXTENDS Naturals, Sequences

\* The list s without the elements of D, in its order.
Unlinked(s, D) ==
    LET kept[n \in 0..Len(s)] ==
          IF n = 0 THEN <<>>
          ELSE IF s[n] \in D THEN kept[n - 1] ELSE Append(kept[n - 1], s[n])
    IN kept[Len(s)]
=============================================================================
