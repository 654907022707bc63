-------------------------------- MODULE MCFolio -------------------------------
(* Instances of GroupFolio, with the prices of StayPrice, for TLC. *)
EXTENDS GroupFolio, StayPrice

CONSTANT g

\* The price of n ordinary nights from a Monday on.
Ordinarily(base, n) ==
  StayTotal(DerivedRule(base), "nightly", 0, n * Day, FALSE,
            [d \in 0 .. n |-> 0], 0, 1, 1)

\* A room at 3 a night and one at 4.
Priced == [n \in 1 .. 2 |-> {Ordinarily(base, n) : base \in {3, 4}}]

MCEngine(n) == Priced[n]

=============================================================================
