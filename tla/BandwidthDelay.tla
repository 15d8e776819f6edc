--------------------------- MODULE BandwidthDelay ---------------------------
(***************************************************************************)
(* BandwidthDelayModel (pp_generator/util.py): the transfers simulated on  *)
(* one direction of a link.  `occupied` is the link's list of the          *)
(* intervals it is busy in, from the earliest to the latest.               *)
(***************************************************************************)
EXTENDS SequencesExt, FiniteSetsExt

\* The places of the list before which a transfer fits without a delay.
Gaps(occupied, start, duration) ==
    {k \in DOMAIN occupied :
        /\ start >= IF k = 1 THEN 0 ELSE occupied[k - 1].to
        /\ start + duration <= occupied[k].from}

\* Fault: a transfer never waits for the link.
TransferFrom_AtOnce(occupied, start, duration) == start

\* When a transfer that is ready at `start` begins: at once in a gap or after
\* the last transfer, otherwise when that has ended.
TransferFrom(occupied, start, duration) ==
    IF occupied = <<>> \/ Gaps(occupied, start, duration) # {} THEN start
    ELSE Max({start, Last(occupied).to})

\* get_bandwidth_time_with_delay: how long the transfer takes with its delay,
\* and the list with it.  Without a duration the bandwidth is unlimited.
Transfer(occupied, start, duration) ==
    LET from == TransferFrom(occupied, start, duration)
        gaps == Gaps(occupied, start, duration)
        place == IF gaps = {} THEN Len(occupied) + 1 ELSE Min(gaps)
    IN  IF duration = 0
        THEN [takes |-> 0, occupied |-> occupied]
        ELSE [takes |-> from + duration - start,
              occupied |-> InsertAt(occupied, place,
                                    [from |-> from, to |-> from + duration])]
=============================================================================
