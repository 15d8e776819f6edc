--------------------------- MODULE MCCheckpoints ----------------------------
(* Small jobs of two ranks for Checkpointing. *)
EXTENDS Checkpointing

CONSTANTS r1, r2

Job(iters, save, np, exit, async) ==
    [iters |-> iters, save |-> save, np |-> np, exit |-> exit, async |-> async,
     start |-> 2, increment |-> 2, ramp |-> 0, global |-> 2, unit |-> 2]

\* The batch doubles after two iterations.
Ramped(c, ramp) == [c EXCEPT !.ramp = ramp, !.global = 4]

MCRanks == {r1, r2}

MCSync ==
    { Job(5, 2, 0, 0, FALSE),                \* a last save off the interval
      Job(4, 4, 1, 0, FALSE),                \* non-persistent saves between
      Job(4, 4, 1, 3, FALSE),                \* and leaving at one of them
      Ramped(Job(4, 2, 0, 0, FALSE), 2),     \* the batch grows off a save ...
      Ramped(Job(4, 2, 0, 0, FALSE), 4),     \* ... and right after one
      Ramped(Job(3, 3, 2, 0, FALSE), 2),
      Job(4, 3, 0, 2, FALSE) }               \* leaving off the interval

MCAsync ==
    { Job(3, 1, 0, 0, TRUE),                 \* overlapping saves
      Ramped(Job(3, 2, 0, 2, TRUE), 2) }

\* Asynchronous non-persistent saves, and three of them, so that a cleanup
\* thread meets a writer: the writers interleave most here.
MCAsyncKinds == { Job(3, 2, 1, 0, TRUE) }
MCAsyncThree == { Job(3, 4, 1, 0, TRUE) }

MCConfigs == MCSync \cup MCAsync \cup MCAsyncKinds \cup MCAsyncThree

MCMaxCrashes == [c \in MCConfigs |-> IF c \in MCAsyncThree THEN 0
                                     ELSE IF c \in MCAsyncKinds THEN 1 ELSE 2]
MCMaxSignals == [c \in MCConfigs |-> IF c \in MCAsyncThree THEN 0 ELSE 1]

MCOverlapping == { Job(2, 1, 0, 0, TRUE) }
Never == [c \in MCOverlapping |-> 0]
=============================================================================
