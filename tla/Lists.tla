-------------------------------- MODULE Lists --------------------------------
(* The linked lists of the handler as sequences.                           *)
EXTENDS Naturals, Sequences

Elems(s) == {s[i] : i \in 1..Len(s)}

NoRepeats(s) == \A i, j \in 1..Len(s) : s[i] = s[j] => i = j

Position(s, n) == CHOOSE i \in 1..Len(s) : s[i] = n

(* n is unlinked.                                                          *)
Without(s, n) ==
    LET p == Position(s, n)
    IN  [i \in 1..(Len(s) - 1) |-> IF i < p THEN s[i] ELSE s[i + 1]]

(* The first k are moved to the end, one after the other.                  *)
Rotated(s, k) ==
    [i \in 1..Len(s) |-> IF i + k <= Len(s) THEN s[i + k]
                                            ELSE s[i + k - Len(s)]]
=============================================================================
