------------------------------- MODULE Loops -------------------------------
(***************************************************************************)
(* Loops as recursive functions: what the while loops, the for-of loops    *)
(* and the filters of the code compute.                                    *)
(***************************************************************************)
EXTENDS Naturals, Sequences

\* The state of a loop after n rounds; a round is a function on states.
Rounds(round, start, n) ==
  LET after[k \in Nat] == IF k = 0 THEN start ELSE round[after[k - 1]] IN after[n]

\* The state after a loop over s; a round is a function on pairs of a state and
\* an element.
Folded(round, start, s) ==
  LET after[k \in 0..Len(s)] == IF k = 0 THEN start ELSE round[<<after[k - 1], s[k]>>]
  IN after[Len(s)]

\* The elements of s that are in the set, in their order.
Only(s, set) ==
  LET kept[k \in 0..Len(s)] ==
        IF k = 0 THEN <<>>
        ELSE IF s[k] \in set THEN Append(kept[k - 1], s[k]) ELSE kept[k - 1]
  IN kept[Len(s)]

=============================================================================
