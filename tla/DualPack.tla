------------------------------ MODULE DualPack ------------------------------
(***************************************************************************)
(* The admission gate of PackAdmission driving real packs: what the gate   *)
(* believes, next to what the packs do.                                    *)
(*                                                                         *)
(* A pack carries NFC tags that it writes its status to and reads commands *)
(* from (external: the BMS is not part of the repository; it is modelled   *)
(* from how nfc_operations.go, admission.go and README.md rely on it).     *)
(* The tag memory may be an old snapshot when a pack is put in             *)
(* (admission.go:207-210).  A write that reports an error may still have   *)
(* reached the tag, and one that succeeds may not be obeyed.  A reader     *)
(* samples the tag somewhere inside its status read and reports to the     *)
(* gate only when the read is complete.                                    *)
(*                                                                         *)
(* Assumptions on the packs: a pack acts on a command or drops it within   *)
(* TimeCmd, the interval BMSTimeCmd that the readers leave for it, except  *)
(* that a pack that was not running may take startDelay to start; a change *)
(* of its power state is on its tag at once.                               *)
(***************************************************************************)
EXTENDS PackAdmission

CONSTANTS
    Packs,          \* packs, each named by its UID and its serial number
    Worlds,         \* situations to start from
    Cadence,        \* a selected tag is read this often
    SettledReads    \* a tag is sampled only TimeCmd after the last command

NoPack == NoUid

ASSUME PacksAssumption ==
    /\ Packs \subseteq Uids /\ Packs \subseteq Serials
    /\ \A w \in Worlds :
          /\ w.voltages \in [Packs -> [{"idle", "active"} -> Nat]]
          /\ w.charges \in [Packs -> 1..100]
          /\ w.bays \in [Slots -> Packs \cup {NoPack}]
          /\ w.bays[0] = w.bays[1] => w.bays[0] = NoPack
          /\ w.live \subseteq {w.bays[i] : i \in Slots} \ {NoPack}
          /\ w.limits \subseteq Deltas
          /\ w.startDelay \in Nat
    /\ Cadence \in Nat /\ SettledReads \in BOOLEAN

VARIABLES
    world,          \* voltages and charges of the packs, where they are and
                    \* whether they run at start, the limits that are set,
                    \* how long a pack may take to start, what may happen
    bay,            \* the pack in each slot
    live,           \* packs delivering power
    origin,         \* who switched each pack on: nobody here, a repeated ON,
                    \* or an ON for a supply not confirmed before
    mailbox,        \* the unread command on each pack's tag
    memory,         \* the status each pack last wrote to its tag
    sampled,        \* what the read in progress on each reader has sampled
    misled          \* (history) packs whose reservation a reading ended that
                    \* was taken before they had acted on their ON

packVars == <<world, bay, live, origin, mailbox, memory>>
readVars == <<sampled, misled>>
allVars == <<vars, packVars, readVars>>

NoFrame == [done |-> FALSE, early |-> FALSE, at |-> Zero, frame |-> BlankFrame]

PowerState(p) == IF p \in live THEN "active" ELSE "idle"

(* The pack in slot i delivers power or is about to. *)
Powered(i) == bay[i] # NoPack /\ (bay[i] \in live \/ mailbox[bay[i]] = "on")

TagFrame(p) ==
    [BlankFrame EXCEPT
        !.present = TRUE, !.voltage = world.voltages[p][memory[p].state],
        !.charge = world.charges[p], !.state = memory[p].state, !.serial = p,
        !.nonce = memory[p].nonce]

-----------------------------------------------------------------------------
(* The packs. *)

Written(p, power) == [state |-> power, nonce |-> 1 - memory[p].nonce, stale |-> FALSE]

SwitchOff(p) ==
    /\ live' = live \ {p}
    /\ origin' = IF mailbox'[p] = "on" THEN origin ELSE [origin EXCEPT ![p] = "none"]
    /\ memory' = [memory EXCEPT ![p] = Written(p, "idle")]

(* The pack acts on its command and writes its new state to its tag... *)
Obey(p) ==
    /\ mailbox[p] # "none"
    /\ mailbox' = [mailbox EXCEPT ![p] = "none"]
    /\ IF mailbox[p] = "on"
       THEN /\ live' = live \cup {p}
            /\ memory' = [memory EXCEPT ![p] = Written(p, "active")]
            /\ UNCHANGED origin
       ELSE SwitchOff(p)
    /\ UNCHANGED <<vars, world, bay, readVars>>

(* ... or drops it. *)
Refuse(p) ==
    /\ "refuse" \in world.events /\ mailbox[p] # "none"
    /\ mailbox' = [mailbox EXCEPT ![p] = "none"]
    /\ origin' = IF p \in live THEN origin ELSE [origin EXCEPT ![p] = "none"]
    /\ UNCHANGED <<vars, world, bay, live, memory, readVars>>

(* The pack switches itself off. *)
Die(p) ==
    /\ "die" \in world.events /\ p \in live
    /\ UNCHANGED <<vars, world, bay, mailbox, readVars>>
    /\ SwitchOff(p)

(* A pack out of the vehicle supplies nothing and loses its command. *)
Remove(i) ==
    /\ "swap" \in world.events /\ bay[i] # NoPack
    /\ bay' = [bay EXCEPT ![i] = NoPack]
    /\ live' = live \ {bay[i]} /\ origin' = [origin EXCEPT ![bay[i]] = "none"]
    /\ mailbox' = [mailbox EXCEPT ![bay[i]] = "none"]
    /\ misled' = misled \ {bay[i]}
    /\ UNCHANGED <<vars, world, memory, sampled>>

(* The tag facing the reader may hold an old snapshot. *)
Insert(i, p) ==
    /\ "swap" \in world.events /\ i \in Monitored
    /\ bay[i] = NoPack /\ \A j \in Slots : bay[j] # p
    /\ bay' = [bay EXCEPT ![i] = p]
    /\ \E state \in {"idle", "active"} :
          memory' = [memory EXCEPT ![p] = [state |-> state, nonce |-> 0, stale |-> TRUE]]
    /\ UNCHANGED <<vars, world, live, origin, mailbox, readVars>>

-----------------------------------------------------------------------------
(* The readers. *)

(* Reader i has the pack in front of it selected. *)
InTouch(i) == bay[i] # NoPack /\ selected[i] = bay[i]

Discover(i) ==
    /\ bay[i] # NoPack /\ ~reading[i].busy
    /\ Tag(i, bay[i])
    /\ UNCHANGED <<packVars, readVars>>

LoseSight(i, departed) ==
    /\ "absent" \in world.events
    /\ ObserveAbsent(i, departed)
    /\ UNCHANGED <<packVars, readVars>>

(* The last command this reader had authorised is TimeCmd old. *)
Settled(i) == now - slots[i].lastOnAt >= TimeCmd /\ now - slots[i].offAt >= TimeCmd

BeginRead(i) ==
    /\ InTouch(i)
    /\ SettledReads => Settled(i)
    /\ StartRead(i)
    /\ sampled' = [sampled EXCEPT ![i] =
                      [done |-> TRUE, early |-> mailbox[bay[i]] = "on",
                       at |-> now, frame |-> TagFrame(bay[i])]]
    /\ UNCHANGED <<packVars, misled>>

CompleteRead(i) ==
    /\ sampled[i].done
    /\ FinishRead(i, sampled[i].frame, sampled[i].at, sampled[i].at)
    /\ sampled' = [sampled EXCEPT ![i] = NoFrame]
    /\ misled' = IF slots'[i].held THEN misled \ {bay[i]}
                 ELSE IF slots[i].held /\ sampled[i].early /\ Powered(i)
                 THEN misled \cup {bay[i]} ELSE misled
    /\ UNCHANGED packVars

AbortRead(i) ==
    /\ "fail" \in world.events
    /\ FailRead(i)
    /\ sampled' = [sampled EXCEPT ![i] = NoFrame]
    /\ UNCHANGED <<packVars, misled>>

(* A write, acknowledged or not, that may reach the tag. *)
WriteOn(i) ==
    /\ selected[i] # NoUid /\ slots[i].lastOnAt < now
    /\ RequestOn(i)
    /\ misled' = misled \ {bay[i]}
    /\ \/ UNCHANGED <<mailbox, origin>>
       \/ /\ InTouch(i)
          /\ mailbox' = [mailbox EXCEPT ![bay[i]] = "on"]
          /\ origin' = [origin EXCEPT ![bay[i]] =
                           IF slots[i].active /\ @ # "new" THEN "kept" ELSE "new"]
    /\ UNCHANGED <<world, bay, live, memory, sampled>>

WriteOff(i) ==
    /\ selected[i] # NoUid /\ slots[i].offAt < now
    /\ \/ "off" \in world.events /\ OffAttempt(i)
       \/ IsolationOffAttempt(i)
    /\ \/ UNCHANGED <<mailbox, origin>>
       \/ /\ InTouch(i)
          /\ mailbox' = [mailbox EXCEPT ![bay[i]] = "off"]
          /\ origin' = IF bay[i] \in live THEN origin
                       ELSE [origin EXCEPT ![bay[i]] = "none"]
    /\ UNCHANGED <<world, bay, live, memory, readVars>>

-----------------------------------------------------------------------------
(* An ON that the pack in slot i may still be about to obey. *)
Starting(i) == /\ mailbox[bay[i]] = "on" /\ bay[i] \notin live
               /\ ~slots[i].active /\ now - slots[i].lastOnAt < world.startDelay

(* A time unit passes when every pack has kept the assumption and every    *)
(* reader its cadence.  The packs in the vehicle write a new measurement   *)
(* to their tags, unless (frozen) none of them moved.                      *)
PackTick ==
    /\ \A i \in Slots : bay[i] # NoPack => mailbox[bay[i]] = "none" \/ Starting(i)
    /\ \A i \in Monitored : InTouch(i) => now - slots[i].observed < Cadence
    /\ Tick
    /\ \/ memory' = [p \in Packs |-> IF \E i \in Slots : bay[i] = p
                                     THEN Written(p, PowerState(p)) ELSE memory[p]]
       \/ "frozen" \in world.events /\ UNCHANGED memory
    /\ UNCHANGED <<world, bay, live, origin, mailbox, readVars>>

DualInit ==
    /\ Init
    /\ world \in Worlds /\ maxDelta \in world.limits
    /\ bay = world.bays /\ live = world.live
    /\ origin = [p \in Packs |-> "none"]
    /\ mailbox = [p \in Packs |-> "none"]
    /\ memory \in [Packs -> [state: {"idle", "active"}, nonce: {0}, stale: {TRUE}]]
    /\ \A p \in live : memory[p].state = "active"
    /\ sampled = [i \in Slots |-> NoFrame] /\ misled = {}

PackStep ==
    \/ \E p \in Packs : Obey(p) \/ Refuse(p) \/ Die(p)
    \/ \E i \in Slots : Remove(i) \/ \E p \in Packs : Insert(i, p)

ReaderStep(i) ==
    \/ Discover(i)
    \/ \E departed \in BOOLEAN : LoseSight(i, departed)
    \/ BeginRead(i) \/ CompleteRead(i) \/ AbortRead(i)
    \/ WriteOn(i) \/ WriteOff(i)
    \/ ShouldIsolate(i) /\ UNCHANGED <<packVars, readVars>>

DualNext ==
    \/ PackStep
    \/ \E i \in Slots : ReaderStep(i)
    \/ Service /\ maxDelta' \in world.limits /\ UNCHANGED <<packVars, readVars>>
    \/ PackTick

DualSpec == DualInit /\ [][DualNext]_allVars

-----------------------------------------------------------------------------
(* What the gate is for. *)

(* The gate never loses a supply that it switched on: as long as the pack  *)
(* delivers power, or an ON write waits on its tag, its slot is reserved,  *)
(* through failed writes, refused commands, packs switching themselves     *)
(* off, stale tag memory and replaced packs (admission.go:42-44).          *)
PowerIsReserved ==
    \A i \in Slots : (Powered(i) /\ origin[bay[i]] # "none") => slots[i].held

(* However early a tag is read and however slow its pack is to start: a    *)
(* supply that the gate switched on loses its reservation in one way only, *)
(* to a reading that was taken while the ON still waited on the tag and    *)
(* came to be judged after the command interval (observeLocked goes by the *)
(* time of completion, admission.go:248-249), and it is reserved again by  *)
(* the next ON and the next reading that finds it running.                 *)
ReservedUnlessMisled ==
    \A i \in Slots : (Powered(i) /\ origin[bay[i]] # "none") =>
                        slots[i].held \/ bay[i] \in misled

(* There is a limit, and the voltages of the packs in the two slots, under *)
(* whatever load, differ by more than any that is set.                     *)
Mismatch ==
    /\ maxDelta > 0
    /\ \A limit \in world.limits \ {0}, v, w \in {"idle", "active"} :
          Distance(world.voltages[bay[0]][v], world.voltages[bay[1]][w]) > limit

(* Two packs whose voltages differ by more than the limit never supply     *)
(* power together, unless both were already running when the service       *)
(* started (README.md, "A mismatched second pack cannot be added").        *)
NoMismatchedParallel ==
    Powered(0) /\ Powered(1) /\ Mismatch => \A i \in Slots : origin[bay[i]] # "new"

(* Ending a mismatch never darkens the vehicle: of two packs found running *)
(* one keeps running, whatever the two readers conclude and in whichever   *)
(* order they act (admission_isolation.go:16, README.md "the other is      *)
(* selected once").  Meant for runs without handovers in which no pack     *)
(* stops by itself.                                                        *)
SupplyKept == world.live # {} => live # {}
=============================================================================
