------------------------------- MODULE Lists -------------------------------
(* Array.prototype.filter, by the set of what it keeps: SelectSeq, written *)
(* as a recursive function so that proofs can unfold it.                   *)
EXTENDS Naturals, Sequences

Filtered(seq, kept) ==
  LET upto[n \in 0..Len(seq)] ==
        IF n = 0 THEN <<>>
        ELSE IF seq[n] \in kept THEN Append(upto[n - 1], seq[n]) ELSE upto[n - 1]
  IN  upto[Len(seq)]
=============================================================================
