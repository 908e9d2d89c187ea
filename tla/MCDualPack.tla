---------------------------- MODULE MCDualPack ----------------------------
(***************************************************************************)
(* Instances of DualPack for TLC: the situations that the runs start from. *)
(* Voltages are in units of which 5 is the limit.                          *)
(***************************************************************************)
EXTENDS DualPack

BothActive == {<<TRUE, TRUE>>}
NoSecond == {<<FALSE, FALSE>>}

PerPack(a, b) == [p \in {"A", "B"} |-> IF p = "A" THEN a ELSE b]
Loaded(active, idle) == [state \in {"idle", "active"} |-> IF state = "active" THEN active ELSE idle]
Same(volts) == Loaded(volts, volts)

\* Two packs that must not run together, one in each slot.
Mismatched ==
    [voltages |-> PerPack(Loaded(9, 10), Loaded(19, 20)), charges |-> PerPack(60, 50),
     bays |-> [i \in Slots |-> IF i = 0 THEN "A" ELSE "B"], live |-> {}, limits |-> {4, 5},
     startDelay |-> 1, events |-> {"refuse"}]
\* Both already run, and somebody changes the limit.
Inherited ==
    [Mismatched EXCEPT !.live = {"A", "B"}, !.limits = {0, 5}, !.startDelay = 0, !.events = {}]
\* The running pack recovers to the voltage of the other when it is off.
Level ==
    [Mismatched EXCEPT !.voltages = PerPack(Loaded(10, 20), Loaded(19, 20)),
                       !.live = {"A"}, !.limits = {5}, !.startDelay = 0, !.events = {}]
\* Two packs of the same voltage and charge.
Equal ==
    [Mismatched EXCEPT !.voltages = PerPack(Same(10), Same(10)), !.charges = PerPack(50, 50),
                       !.limits = {5}, !.startDelay = 0]

\* One slot, whose pack may be exchanged or lost from sight ...
Swapped ==
    [Mismatched EXCEPT !.bays = [i \in Slots |-> IF i = 0 THEN "A" ELSE NoPack],
                       !.limits = {5}, !.events = {"swap", "absent"}]
\* ... or is switched off, by command or by itself.
Stopped ==
    [Swapped EXCEPT !.events = {"off", "die", "refuse", "fail", "frozen"}]
\* Packs that may stop by themselves.
Dying == [Mismatched EXCEPT !.limits = {5}, !.startDelay = 0, !.events = {"die"}]

ParallelWorlds == {Mismatched, Inherited}
SelectedWorlds == {Level, Equal}
SingleWorlds == {Swapped, Stopped}
DyingWorld == {Dying}
===========================================================================
