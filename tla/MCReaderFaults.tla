-------------------------- MODULE MCReaderFaults --------------------------
(***************************************************************************)
(* Instances of ReaderFaults: one debounce tick is five seconds, so the    *)
(* communication fault sets after 1 and resets after 2, and the reader     *)
(* fault, 30 seconds in the code, sets after 2.                            *)
(***************************************************************************)
EXTENDS ReaderFaults

\* Both debounced faults, with callbacks that wait for the lock ...
Late == [events |-> {"comms", "reader"}, hardware |-> {}, late |-> TRUE]
\* ... and with status reads.
Both == [events |-> {"comms", "read", "reader"}, hardware |-> {}, late |-> FALSE]
\* The communication fault comes and goes between other critical faults.
Healing == [events |-> {"comms", "empty", "read"}, hardware |-> {5, 6}, late |-> FALSE]
\* Critical faults clear the lesser ones, with callbacks that wait.
Burst == [events |-> {"comms", "empty", "read"}, hardware |-> {5}, late |-> TRUE]
\* Power states and a Redis that comes and goes.
Frames == [events |-> {"empty", "power", "read", "redis"}, hardware |-> {6}, late |-> FALSE]
\* Frames with the over-temperature latch and nothing else.
Latched == [events |-> {"read"}, hardware |-> {6}, late |-> FALSE]

AllScenes == {Late, Both, Healing, Burst, Frames}
LatchedScene == {Latched}
===========================================================================
