------------------------------ MODULE Batches -------------------------------
(* Batches of Operations: what is kept of a sequence, in its order.        *)
EXTENDS Naturals, Sequences

(* The elements of s that are in S.                                        *)
Only(s, S) ==
  LET kept[i \in 0 .. Len(s)] ==
        IF i = 0 THEN <<>>
        ELSE IF s[i] \in S THEN Append(kept[i - 1], s[i]) ELSE kept[i - 1]
  IN  kept[Len(s)]
=============================================================================
