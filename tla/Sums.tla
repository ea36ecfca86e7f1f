--------------------------------- MODULE Sums ---------------------------------
(***************************************************************************)
(* The sum of the values of a function over a finite set, which the        *)
(* balance of a leave type and the stock of a product are stated with.     *)
(* Over a function, and not an operator, so that SumTheorems can state its *)
(* laws.                                                                   *)
(***************************************************************************)
EXTENDS FiniteSetsExt

SumOver(f, S) == MapThenSumSet(LAMBDA x : f[x], S)

============================================================================
