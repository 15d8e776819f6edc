--------------------------- MODULE MCMicrobatches --------------------------
(***************************************************************************)
(* MicrobatchIterator at the first and the last stage, with every          *)
(* vector of sizes up to MaxSize that a solver may return whose sum is     *)
(* off by at most MaxOff.                                                  *)
(***************************************************************************)
EXTENDS MicrobatchIterator

CONSTANTS MaxSize, MaxOff

MCSolutions ==
    {s \in [1 .. NumMb -> 0 .. MaxSize] :
        LET sum == FoldFunction(+, 0, s)
        IN  NumMb * EqualMbSize - MaxOff <= sum /\ sum <= NumMb * EqualMbSize + MaxOff}
MCOrders == {[i \in 1 .. NumMb |-> i - 1], [i \in 1 .. NumMb |-> IF i = 1 THEN NumMb - 1 ELSE i - 2]}
=============================================================================
