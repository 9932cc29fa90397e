------------------------------- MODULE Orders -------------------------------
(***************************************************************************)
(* Sorting, filtering and adding up, defined by what they yield and with   *)
(* sets and relations for parameters instead of operators, so that the     *)
(* proofs can reason about them.                                           *)
(***************************************************************************)
EXTENDS Naturals, Sequences, FiniteSets

\* The members of S in the order R, a strict total order on S: an element
\* stands where the number of elements before it says.
Sorted(S, R) ==
    [i \in 1..Cardinality(S) |->
       CHOOSE x \in S : Cardinality({y \in S : <<y, x>> \in R}) = i - 1]

\* Numbers, the least first.
Ascending(S) == Sorted(S, {p \in S \X S : p[1] < p[2]})

\* The elements of s at the given places, in the order of s.
At(s, places) ==
    LET order == Ascending(places)
    IN  [k \in 1..Cardinality(places) |-> s[order[k]]]

\* s without the element x.
Without(s, x) == At(s, {i \in 1..Len(s) : s[i] # x})

\* s[:n]
Take(s, n) == SubSeq(s, 1, IF n < Len(s) THEN n ELSE Len(s))

\* The sum of the values of f, which are natural numbers: as many pairs.
Total(f) == Cardinality(UNION {{x} \X (1..f[x]) : x \in DOMAIN f})

\* The numbers of s added up.
AddUp(s) ==
    LET upTo[i \in 0..Len(s)] == IF i = 0 THEN 0 ELSE upTo[i - 1] + s[i]
    IN  upTo[Len(s)]

\* f with the value y for x.
With(f, x, y) == [z \in DOMAIN f \cup {x} |-> IF z = x THEN y ELSE f[z]]

=============================================================================
