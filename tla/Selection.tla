----------------------------- MODULE Selection -----------------------------
(***************************************************************************)
(* Loops of the program that keep some entries of a list, in their order.  *)
(* They are written by positions and not with a recursive operator, so     *)
(* that theorems can be proved of them.                                    *)
(***************************************************************************)
EXTENDS Integers, Sequences, FiniteSets, SequencesExt

(* The entries of a list, without their order.                             *)
Named(s) == {s[k] : k \in DOMAIN s}

(* No entry is there twice.                                                *)
Different(s) == \A i, j \in DOMAIN s : s[i] = s[j] => i = j

(* The entries of s at these positions, in their order.                    *)
EntriesAt(s, positions) ==
  LET nth(n) == CHOOSE k \in positions : Cardinality({j \in positions : j <= k}) = n
  IN  [n \in 1..Cardinality(positions) |-> s[nth(n)]]

(* The entries of s, each where it comes first.                            *)
EachOnce(s) == EntriesAt(s, {k \in DOMAIN s : \A j \in 1..(k - 1) : s[j] # s[k]})

=============================================================================
