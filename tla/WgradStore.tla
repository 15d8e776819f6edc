----------------------------- MODULE WgradStore -----------------------------
(***************************************************************************)
(* WGradStore (wgrad_store.py) as a subblock schedule uses it.  Every      *)
(* backward leaves a block of weight-gradient units, one for each linear   *)
(* layer it went through; a W task reduces units from the oldest block on. *)
(*                                                                         *)
(* A store is the sequence of its blocks [mb, units]: the microbatch the   *)
(* backward was of and how many of its units are left.  All blocks of a    *)
(* device have unitsPerBlock units at first.                               *)
(***************************************************************************)
EXTENDS SequencesExt, FiniteSetsExt

\* finish_collection_wgrad_block.
FinishCollection(blocks, mb, unitsPerBlock) ==
    Append(blocks, [mb |-> mb, units |-> unitsPerBlock])

\* Fault: rounded down.
UnitsPerSubpart_Down(unitsPerBlock, parts) == unitsPerBlock \div parts

\* units_per_subpart, rounded up.
UnitsPerSubpart(unitsPerBlock, parts) == (unitsPerBlock + parts - 1) \div parts

\* One turn of the loop of compute_wgrad_subblock; `list` counts the units
\* taken so far.  Where a block is used up the code subtracts the length of
\* the whole list, not of what the block added to it.
TakeUnits(w) ==
    IF w.wanted <= 0 \/ w.blocks = <<>> THEN w
    ELSE LET first == Head(w.blocks)
             list == w.list + first.units
         IN  IF w.wanted >= first.units
             THEN [blocks |-> Tail(w.blocks), list |-> list, wanted |-> w.wanted - list]
             ELSE [blocks |-> [w.blocks EXCEPT ![1].units = @ - w.wanted],
                   list |-> w.list + w.wanted, wanted |-> 0]

\* compute_wgrad_subblock: the store after subparts of a block are computed.
ComputeSubblock(blocks, subparts, parts, unitsPerBlock) ==
    FoldLeft(LAMBDA w, k : TakeUnits(w),
             [blocks |-> blocks, list |-> 0,
              wanted |-> UnitsPerSubpart(unitsPerBlock, parts) * subparts],
             [k \in DOMAIN blocks |-> k]).blocks

\* The store of a device after its tasks 1 .. k.
StoreAfter(tasks, k, parts, unitsPerBlock) ==
    LET run(blocks, n) ==
            CASE n.type = "B" /\ n.to = parts -> FinishCollection(blocks, n.mb, unitsPerBlock)
              [] n.type = "W" -> ComputeSubblock(blocks, n.to - n.from, parts, unitsPerBlock)
              [] OTHER -> blocks
    IN  FoldLeft(run, <<>>, [j \in 1 .. k |-> tasks[j]])
=============================================================================
