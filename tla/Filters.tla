------------------------------ MODULE Filters ------------------------------
(***************************************************************************)
(* Python's [x for x in s if x in K].  SelectSeq says the same, but is     *)
(* built into the prover, which has no definition of it to reason from.    *)
(***************************************************************************)
EXTENDS Naturals, Sequences

Filtered(s, K) ==
  LET kept[n \in 0..Len(s)] ==
        IF n = 0 THEN <<>>
        ELSE IF s[n] \in K THEN Append(kept[n - 1], s[n]) ELSE kept[n - 1]
  IN  kept[Len(s)]
=============================================================================
