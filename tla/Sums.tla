-------------------------------- MODULE Sums --------------------------------
(***************************************************************************)
(* The sum of a function from a finite set to the natural numbers, defined *)
(* as the number of its unit cells rather than by recursion: TLC can       *)
(* evaluate it on small functions and the provers can reason about it from *)
(* the library's theorems on cardinality (module SumsLemmas).              *)
(*                                                                         *)
(* The market uses it for the ledgers the program keeps only in aggregate: *)
(* the claim of all vaults on a treasury, the shares of all depositors of  *)
(* a vault.                                                                *)
(***************************************************************************)
EXTENDS Naturals, FiniteSets

\* One cell <<x, k>> for each unit of f[x].
Cells(f) == UNION {{x} \X (1 .. f[x]) : x \in DOMAIN f}

SumOf(f) == Cardinality(Cells(f))
=============================================================================
