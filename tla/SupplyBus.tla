----------------------------- MODULE SupplyBus -----------------------------
(***************************************************************************)
(* What the activation gate promises of the bus that the packs supply,     *)
(* without identities, readings, clocks or sampling (README.md:141-159 of  *)
(* the repository).  PackAdmission implements this specification.          *)
(*                                                                         *)
(* A slot is "off" when it is known to supply nothing, "starting" from the *)
(* permission to the confirmation of an ON, "on" while its pack is known   *)
(* to run, "foreign" when the pack that was switched on has been replaced  *)
(* by another, and "stopping" from an OFF to its confirmation.             *)
(***************************************************************************)
EXTENDS Integers

CONSTANT Slots

VARIABLE supply

States == {"off", "starting", "on", "foreign", "stopping"}

Init == supply = [i \in Slots |-> "off"]

Becomes(i, state) == supply' = [supply EXCEPT ![i] = state]

(* A pack is switched on next to packs that are known to be off or on. *)
Permit(i) ==
    /\ supply[i] = "off"
    /\ \A j \in Slots \ {i} : supply[j] \in {"off", "on"}
    /\ Becomes(i, "starting")

(* A pack is seen running; it need not have been switched on by the gate. *)
Confirm(i) == supply[i] \in {"off", "starting", "foreign"} /\ Becomes(i, "on")

(* The pack in the slot is another one. *)
Replace(i) == supply[i] \in {"starting", "on"} /\ Becomes(i, "foreign")

(* OFF is on its way; only its confirmation ends this. *)
Withdraw(i) == supply[i] \in {"starting", "on", "foreign"} /\ Becomes(i, "stopping")

(* A pack is seen to be off. *)
Release(i) == supply[i] # "off" /\ Becomes(i, "off")

Next ==
    \E i \in Slots : Permit(i) \/ Confirm(i) \/ Replace(i) \/ Withdraw(i) \/ Release(i)

Spec == Init /\ [][Next]_supply

=============================================================================
