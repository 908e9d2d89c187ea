------------------------- MODULE MCPackAdmission -------------------------
(***************************************************************************)
(* Instances of PackAdmission for TLC.  One time unit is about the three   *)
(* seconds of the sampling cadence; voltages are in units of the limit.    *)
(***************************************************************************)
EXTENDS PackAdmission

Frame(state, voltage, serial) ==
    [present |-> TRUE, voltage |-> voltage, current |-> 0, charge |-> 50,
     lowSOC |-> FALSE, fault |-> FALSE, state |-> state, serial |-> serial,
     nonce |-> 0]

\* Packs that are started and stopped, or found running at another voltage.
PairFrames == {Frame("idle", 10, "A"), Frame("active", 10, "A"), Frame("active", 20, "A")}
\* Two packs that take turns in a slot.
TwoPacks == {Frame(state, 10, serial) : state \in {"idle", "active"}, serial \in {"A", "B"}}

Report(sequence, age, stopped) ==
    [wellFormed |-> TRUE, complete |-> TRUE, source |-> "boot", sequence |-> sequence,
     age |-> age, stopped |-> stopped]

\* A stream of three reports, one of movement, with a late report, one from
\* the future, one incomplete and one that cannot be decoded.
MotionReports ==
    {Report(1, 0, TRUE), Report(2, 0, TRUE), Report(2, 1, TRUE), Report(3, 0, FALSE),
     Report(3, 4, TRUE), Report(3, -1, TRUE),
     [Report(3, 0, TRUE) EXCEPT !.complete = FALSE],
     [Report(3, 0, TRUE) EXCEPT !.wellFormed = FALSE]}

NoSecond == {<<FALSE, FALSE>>}
BothActive == {<<TRUE, TRUE>>}
AnyRole == {<<TRUE, TRUE>>, <<FALSE, TRUE>>, <<FALSE, FALSE>>}
===========================================================================
