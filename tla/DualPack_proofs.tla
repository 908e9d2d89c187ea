-------------------------- MODULE DualPack_proofs --------------------------
(***************************************************************************)
(* What the gate is for, proved for every set of packs, every situation to *)
(* start from, every order of the events and every timing of the reads.    *)
(*                                                                         *)
(* A reservation ends only when a completed read finds OffEvidence, and    *)
(* the gate judges a read by the time of its completion.  The invariant    *)
(* DualInv therefore says, for a slot that has switched its pack on, that  *)
(* the gate and the reader mean that pack (Acquainted, Identified), and    *)
(* what the sample of a read in progress is worth (SampleHonest): it shows *)
(* a supply off only if it was taken before the pack had acted on its ON.  *)
(* So ReservedUnlessMisled holds without any assumption, and where no pack *)
(* is ever misled, mismatched packs that stay in their bays never supply   *)
(* power together (NoMismatchedParallel) and ending a mismatch leaves a    *)
(* supply (SupplyKept).                                                    *)
(***************************************************************************)
EXTENDS DualPack, PackBus_proofs

-----------------------------------------------------------------------------
MemoryType == [state: {"idle", "active"}, nonce: {0, 1}, stale: BOOLEAN]
TagSample == [done: BOOLEAN, early: BOOLEAN, at: Nat, frame: FrameType]

PackTypes ==
    /\ world \in Worlds
    /\ bay \in [Slots -> Packs \cup {NoPack}]
    /\ live \subseteq Packs
    /\ origin \in [Packs -> {"none", "kept", "new"}]
    /\ mailbox \in [Packs -> {"none", "on", "off"}]
    /\ memory \in [Packs -> MemoryType]
    /\ sampled \in [Slots -> TagSample]

InBay(p) == \E i \in Slots : bay[i] = p

(* A pack is in one place; out of the vehicle it neither runs nor has a    *)
(* command, and a pack that runs says so on its tag.                       *)
PacksSound ==
    /\ \A i, j \in Slots : i # j /\ bay[i] = bay[j] => bay[i] = NoPack
    /\ \A p \in Packs :
          /\ ~InBay(p) => p \notin live /\ origin[p] = "none" /\ mailbox[p] = "none"
          /\ mailbox[p] = "on" => origin[p] # "none"
          /\ p \in live => memory[p].state = "active"

(* Slot i has switched on the pack that it faces. *)
Owned(i) == bay[i] # NoPack /\ origin[bay[i]] # "none"

(* The reader and the gate mean the same pack. *)
Acquainted(i) ==
    LET s == slots[i] IN
    /\ sampled[i].done <=> reading[i].busy
    /\ selected[i] # NoUid => s.uid = selected[i]
    /\ s.serial \in {NoSerial, s.uid}
    /\ s.observed <= now
    /\ sampled[i].done => selected[i] # NoUid /\ sampled[i].frame.serial = selected[i]

Identified(i) ==
    /\ i \in Monitored /\ slots[i].uid = bay[i] /\ ~slots[i].identityUncertain
    /\ sampled[i].done => selected[i] = bay[i]

(* A sample that shows a supply off is from before it was on. *)
SampleHonest(i) ==
    sampled[i].done /\ sampled[i].frame.state # "active" /\ Powered(i) => sampled[i].early

Supplied(i) ==
    Owned(i) => /\ Identified(i)
                /\ Powered(i) => slots[i].held \/ bay[i] \in misled
                /\ SampleHonest(i)

(* The inductive invariant. *)
DualInv ==
    /\ Inv /\ Broken(isolation, slots)
    /\ PackTypes /\ PacksSound
    /\ \A i \in Slots : Acquainted(i) /\ Supplied(i)

LEMMA NoPackNotIn == NoPack \notin Packs
BY PacksAssumption, NamesAssumption DEF NoPack

-----------------------------------------------------------------------------
(* What each action of a reader does to the slots, identity and times      *)
(* included.                                                               *)

(* The pack is the one the slot knew, or the slot starts afresh. *)
LEMMA TagSlots ==
    ASSUME Inv, NEW i \in Slots, NEW uid \in Uids, Tag(i, uid)
    PROVE  /\ OthersSame(i)
           /\ slots[i].uid = uid => Same(slots[i], slots'[i])
           /\ slots[i].uid # uid =>
                /\ slots'[i].uid = uid /\ slots'[i].serial = NoSerial
                /\ slots'[i].observed = Zero
<1>1. SlotsOK /\ slots[i] \in SlotType
    BY InvParts DEF SlotsOK, SlotOK
<1> DEFINE q == slots[i].requiresAdmission \/ vehicle \in NonDriving
           same == [slots[i] EXCEPT !.valid = FALSE, !.haveFrame = FALSE,
                !.written = Zero, !.absent = FALSE, !.requiresAdmission = q]
           r == IF slots[i].uid = uid THEN same ELSE ReplaceIdentity(slots[i], uid)
<1>2. slots' = Forget([slots EXCEPT ![i] = r])
    BY DEF Tag
<1>3. q \in BOOLEAN
    OBVIOUS
<1> HIDE DEF q
<1>4. same \in SlotType
    BY <1>1, <1>3 DEF SlotType, Zero
<1>5. Same(slots[i], same)
    BY <1>1 DEF SlotType, Same, Keeps
<1>6. ReplaceIdentity(slots[i], uid) \in SlotType
    BY <1>1, ReplaceIdentityType
<1>7. LET f == ReplaceIdentity(slots[i], uid)
      IN  f.uid = uid /\ f.serial = NoSerial /\ f.observed = Zero
    BY DEF ReplaceIdentity, EmptySlot
<1> HIDE DEF same
<1>8. /\ r \in SlotType
      /\ slots[i].uid = uid => Same(slots[i], r)
      /\ slots[i].uid # uid => r.uid = uid /\ r.serial = NoSerial /\ r.observed = Zero
    BY <1>4, <1>5, <1>6, <1>7
<1> HIDE DEF r
<1>9. OthersSame(i) /\ Same(r, slots'[i])
    BY <1>1, <1>2, <1>8, OneSlotSame
<1>10. slots'[i].uid = r.uid /\ slots'[i].serial = r.serial /\ slots'[i].observed = r.observed
    BY <1>9 DEF Same
<1> QED
    BY <1>8, <1>9, <1>10, SameTrans

(* Nothing but the time of the last reading changes. *)
SameCommands(s, t) ==
    /\ Keeps(s, t) /\ t.uid = s.uid /\ t.serial = s.serial /\ t.lastOnAt = s.lastOnAt

LEMMA AbsentSlots ==
    ASSUME Inv, NEW i \in Slots, NEW departed \in BOOLEAN, ObserveAbsent(i, departed)
    PROVE  OthersSame(i) /\ SameCommands(slots[i], slots'[i]) /\ slots'[i].observed = now
<1>1. SlotsOK /\ slots[i] \in SlotType /\ now \in Nat
    BY InvParts DEF SlotsOK, SlotOK, RestType
<1> DEFINE q == slots[i].requiresAdmission \/ vehicle \in NonDriving
           a == ~slots[i].held
           r == [slots[i] EXCEPT !.valid = FALSE, !.haveFrame = FALSE,
                    !.written = Zero, !.observedRound = 0,
                    !.requiresAdmission = q, !.absent = a, !.observed = now]
<1>2. slots' = Forget([slots EXCEPT ![i] = r])
    BY DEF ObserveAbsent
<1>3. q \in BOOLEAN /\ a \in BOOLEAN
    OBVIOUS
<1> HIDE DEF q, a
<1>4. r \in SlotType
    BY <1>1, <1>3 DEF SlotType, Zero
<1>5. Keeps(slots[i], r)
    BY <1>1 DEF SlotType, Keeps
<1>6. /\ r.uid = slots[i].uid /\ r.serial = slots[i].serial
      /\ r.lastOnAt = slots[i].lastOnAt /\ r.observed = now
    BY <1>1 DEF SlotType
<1> HIDE DEF r
<1>7. OthersSame(i) /\ Same(r, slots'[i])
    BY <1>1, <1>2, <1>4, OneSlotSame
<1>8. Keeps(slots[i], slots'[i])
    BY <1>5, <1>7, KeepsTrans DEF Same
<1> QED
    BY <1>6, <1>7, <1>8 DEF Same, SameCommands

LEMMA FailSlots ==
    ASSUME Inv, NEW i \in Slots, FailRead(i)
    PROVE  AllSame
<1>1. SlotsOK /\ slots[i] \in SlotType
    BY InvParts DEF SlotsOK, SlotOK
<1> DEFINE r == [slots[i] EXCEPT !.valid = FALSE, !.absent = FALSE]
<1>2. slots' = Forget([slots EXCEPT ![i] = r])
    BY <1>1 DEF FailRead, SlotsOK
<1>3. r \in SlotType /\ Same(slots[i], r)
    BY <1>1 DEF SlotType, Same, Keeps
<1> HIDE DEF r
<1>4. OthersSame(i) /\ Same(r, slots'[i])
    BY <1>1, <1>2, <1>3, OneSlotSame
<1> QED
    BY <1>3, <1>4, SameTrans DEF AllSame, OthersSame

(* An ON leaves a reserved slot whose pack is known, and no OFF on its way *)
(* unless the pack is known to run.                                        *)
LEMMA OnSlots ==
    ASSUME Inv, NEW i \in Slots, RequestOn(i)
    PROVE  /\ OthersSame(i)
           /\ slots'[i].uid = slots[i].uid /\ slots'[i].serial = slots[i].serial
           /\ slots'[i].observed = slots[i].observed /\ slots'[i].lastOnAt = now
           /\ slots'[i].held /\ ~slots'[i].identityUncertain
           /\ slots'[i].offPending => slots'[i].active
<1>1. SlotsOK /\ slots[i] \in SlotType /\ now \in Nat /\ SlotSafe(i, slots[i])
    BY InvParts DEF SlotsOK, SlotOK, RestType, Inv
<1> DEFINE s == slots[i]
           g == Granted(slots[i])
           r == [g EXCEPT !.held = TRUE, !.onAt = now]
<1>2. /\ g \in SlotType /\ Keeps(s, g) /\ g.uid = s.uid /\ g.serial = s.serial
      /\ g.observed = s.observed /\ g.lastOnAt = now
    <2>1. g \in SlotType
        BY <1>1 DEF Granted, SlotType
    <2>2. Keeps(s, g)
        BY <1>1 DEF Granted, SlotType, Keeps
    <2>3. g.uid = s.uid /\ g.serial = s.serial /\ g.observed = s.observed /\ g.lastOnAt = now
        BY <1>1 DEF Granted, SlotType
    <2> QED
        BY <2>1, <2>2, <2>3
<1> HIDE DEF g
<1>3. /\ r \in SlotType /\ r.held = TRUE /\ r.active = g.active
      /\ r.offPending = g.offPending /\ r.identityUncertain = g.identityUncertain
      /\ r.uid = g.uid /\ r.serial = g.serial /\ r.observed = g.observed
      /\ r.lastOnAt = g.lastOnAt
    <2>1. r \in SlotType
        BY <1>1, <1>2 DEF SlotType
    <2>2. /\ r.held = TRUE /\ r.active = g.active
          /\ r.offPending = g.offPending /\ r.identityUncertain = g.identityUncertain
        BY <1>2 DEF SlotType
    <2>3. /\ r.uid = g.uid /\ r.serial = g.serial /\ r.observed = g.observed
          /\ r.lastOnAt = g.lastOnAt
        BY <1>2 DEF SlotType
    <2> QED
        BY <2>1, <2>2, <2>3
<1> HIDE DEF r
<1>4. CASE RepeatOn(i) \/ RequalifyOn(i)
    <2>1. slots' = [slots EXCEPT ![i] = g] \/ slots' = Forget([slots EXCEPT ![i] = g])
        BY <1>1, <1>4 DEF RepeatOn, RequalifyOn, SlotsOK, g
    <2>2. OthersSame(i) /\ Same(g, slots'[i])
        BY <1>1, <1>2, <2>1, OneSlotSame
    <2>3. s.held /\ ~s.identityUncertain /\ (s.offPending => s.active)
        <3>1. CASE CommandOpen(reconcile, i) /\ s.held
            BY <1>1, <3>1 DEF CommandOpen, SlotSafe
        <3>2. CASE MaintainHandover(reconcile, i)
            BY <1>1, <3>2 DEF MaintainHandover, Running, SlotSafe
        <3> QED
            BY <1>4, <3>1, <3>2 DEF RepeatOn, RequalifyOn, Established, Admitted
    <2> QED
        BY <1>2, <2>2, <2>3 DEF Same, Keeps
<1>5. CASE ActivateOn(i)
    <2>1. slots' = Forget([slots EXCEPT ![i] = r])
        BY <1>1, <1>5 DEF ActivateOn, SlotsOK, g, r
    <2>2. OthersSame(i) /\ Same(r, slots'[i])
        BY <1>1, <1>3, <2>1, OneSlotSame
    <2>3. ~s.held /\ ~s.offPending /\ ~s.identityUncertain
        BY <1>1, <1>5 DEF ActivateOn, Admitted, CommandOpen, SlotSafe
    <2> QED
        BY <1>2, <1>3, <2>2, <2>3 DEF Same, Keeps
<1> QED
    BY <1>4, <1>5 DEF RequestOn

(* An OFF changes nothing but the OFF of a reserved slot. *)
LEMMA OffSlots ==
    ASSUME Inv, NEW i \in Slots, Off(i)
    PROVE  /\ OthersSame(i)
           /\ slots'[i].uid = slots[i].uid /\ slots'[i].serial = slots[i].serial
           /\ slots'[i].observed = slots[i].observed
           /\ slots'[i].lastOnAt = slots[i].lastOnAt
           /\ slots'[i].held = slots[i].held /\ slots'[i].active = slots[i].active
           /\ slots'[i].identityUncertain = slots[i].identityUncertain
           /\ slots'[i].offPending => slots[i].held
<1>1. SlotsOK /\ slots[i] \in SlotType /\ now \in Nat /\ SlotOK(i, slots[i])
    BY InvParts DEF SlotsOK, SlotOK, RestType
<1> DEFINE s == slots[i]
           r == OffReserved(slots[i])
<1>2. slots' = Forget([slots EXCEPT ![i] = r])
    BY <1>1 DEF Off, SlotsOK
<1>3. r \in SlotType
    BY <1>1, OffReservedQuiet DEF Quiet, SlotOK
<1>4. /\ r.uid = s.uid /\ r.serial = s.serial /\ r.observed = s.observed
      /\ r.lastOnAt = s.lastOnAt
    BY <1>1 DEF OffReserved, SlotType
<1>5. /\ r.held = s.held /\ r.active = s.active
      /\ r.identityUncertain = s.identityUncertain
    BY <1>1 DEF OffReserved, SlotType
<1>6. r.offPending => s.held
    <2>1. r = s \/ s.held
        BY DEF OffReserved
    <2> QED
        BY <1>1, <2>1 DEF SlotOK, SlotSafe
<1> HIDE DEF r
<1>7. OthersSame(i) /\ Same(r, slots'[i])
    BY <1>1, <1>2, <1>3, OneSlotSame
<1> QED
    BY <1>4, <1>5, <1>6, <1>7 DEF Same, Keeps


-----------------------------------------------------------------------------
(* Slots and packs that a step leaves alone. *)

(* The pack of slot j is not given more reason to run. *)
Undisturbed(j) ==
    Owned(j)' =>
        /\ Owned(j) /\ bay'[j] = bay[j]
        /\ Powered(j)' => Powered(j)
        /\ bay[j] \in misled => bay[j] \in misled'

(* What is known of a slot's pack stays true while its commands do, except *)
(* what it says of a read in progress.                                     *)
LEMMA SuppliedKept ==
    ASSUME NEW j \in Slots, Supplied(j), SameCommands(slots[j], slots'[j]), Undisturbed(j),
           sampled'[j].done => sampled'[j] = sampled[j] /\ selected'[j] = selected[j]
    PROVE  Supplied(j)'
<1>1. ASSUME Owned(j)'
      PROVE  Identified(j)' /\ (Powered(j)' => slots'[j].held \/ bay'[j] \in misled')
    BY <1>1 DEF Undisturbed, Supplied, Identified, SameCommands, Keeps
<1>2. ASSUME Owned(j)' PROVE SampleHonest(j)'
    BY <1>2 DEF Undisturbed, Supplied, SampleHonest
<1> QED
    BY <1>1, <1>2 DEF Supplied

LEMMA SlotKept ==
    ASSUME NEW j \in Slots, Acquainted(j), Supplied(j), Same(slots[j], slots'[j]),
           selected'[j] = selected[j], reading'[j] = reading[j],
           sampled'[j] = sampled[j], now' = now, world' = world, Undisturbed(j)
    PROVE  Acquainted(j)' /\ Supplied(j)'
<1>1. Acquainted(j)'
    BY DEF Acquainted, Same
<1>2. SameCommands(slots[j], slots'[j]) /\ slots'[j].observed = slots[j].observed
    BY DEF Same, SameCommands
<1> QED
    BY <1>1, <1>2, SuppliedKept

(* A step of reader i: the other reader and its pack stay what they were.  *)
Apart(i) ==
    /\ OthersSame(i) /\ now' = now /\ world' = world
    /\ \A j \in Slots \ {i} :
          /\ selected'[j] = selected[j] /\ reading'[j] = reading[j]
          /\ sampled'[j] = sampled[j] /\ Undisturbed(j)

LEMMA ReaderStepKeeps ==
    ASSUME DualInv, NEW i \in Slots, Apart(i), Inv', Broken(isolation', slots'),
           PackTypes', PacksSound', Acquainted(i)', Supplied(i)'
    PROVE  DualInv'
<1>1. ASSUME NEW j \in Slots \ {i} PROVE Acquainted(j)' /\ Supplied(j)'
    <2>1. Acquainted(j) /\ Supplied(j) /\ Same(slots[j], slots'[j])
        BY DEF DualInv, Apart, OthersSame
    <2> QED
        BY <2>1, SlotKept DEF Apart
<1> QED
    BY <1>1 DEF DualInv

LEMMA PacksAlone == UNCHANGED <<packVars, misled>> => \A j \in Slots : Undisturbed(j)
BY DEF packVars, Undisturbed, Owned, Powered

LEMMA PacksStill ==
    ASSUME PackTypes, PacksSound, UNCHANGED packVars,
           sampled' \in [Slots -> TagSample]
    PROVE  PackTypes' /\ PacksSound'
BY DEF packVars, PackTypes, PacksSound, InBay

(* A command reaches the pack of slot i only. *)
LEMMA OtherPack ==
    ASSUME PackTypes, PacksSound, NEW i \in Slots, NEW j \in Slots \ {i},
           bay[i] # NoPack, UNCHANGED <<bay, live, memory>>,
           \A p \in Packs \ {bay[i]} : p \in misled => p \in misled',
           \A p \in Packs \ {bay[i]} : mailbox'[p] = mailbox[p] /\ origin'[p] = origin[p]
    PROVE  Undisturbed(j)
<1> SUFFICES ASSUME Owned(j)' PROVE Undisturbed(j)
    BY DEF Undisturbed
<1>1. bay'[j] = bay[j] /\ bay[j] # NoPack
    BY DEF Owned
<1>2. bay[j] \in Packs \ {bay[i]}
    BY <1>1 DEF PackTypes, PacksSound
<1>3. mailbox'[bay[j]] = mailbox[bay[j]] /\ origin'[bay[j]] = origin[bay[j]]
    BY <1>2
<1>4. bay[j] \in misled => bay[j] \in misled'
    BY <1>2
<1> QED
    BY <1>1, <1>3, <1>4 DEF Undisturbed, Owned, Powered

-----------------------------------------------------------------------------
(* The packs. *)

LEMMA WrittenType ==
    ASSUME PackTypes, NEW p \in Packs, NEW power \in {"idle", "active"}
    PROVE  Written(p, power) \in MemoryType /\ Written(p, power).state = power
<1>1. memory[p] \in MemoryType
    BY DEF PackTypes
<1>2. 1 - memory[p].nonce \in {0, 1}
    BY <1>1 DEF MemoryType
<1> QED
    BY <1>2 DEF Written, MemoryType

(* A step of the packs: none gets more reason to run. *)
PacksMove == PackTypes' /\ PacksSound' /\ \A j \in Slots : Undisturbed(j)

(* One pack p changes, in place. *)
LEMMA OnePack ==
    ASSUME DualInv, PackTypes', NEW p \in Packs, InBay(p), UNCHANGED <<bay, misled>>,
           \A q \in Packs \ {p} :
              /\ q \in live' <=> q \in live
              /\ mailbox'[q] = mailbox[q] /\ origin'[q] = origin[q]
              /\ memory'[q] = memory[q],
           mailbox'[p] = "on" => /\ mailbox[p] = "on" /\ origin'[p] # "none"
                                 /\ p \notin live' /\ memory'[p].state = "idle",
           p \in live' => memory'[p].state = "active",
           origin'[p] # "none" => /\ origin[p] # "none"
                                  /\ p \in live' => p \in live \/ mailbox[p] = "on"
    PROVE  PacksMove
<1>1. PackTypes /\ PacksSound
    BY DEF DualInv
<1>4. PacksSound'
    <2>1. \A q : InBay(q)' <=> InBay(q)
        BY DEF InBay
    <2>2. \A i, j \in Slots : i # j /\ bay'[i] = bay'[j] => bay'[i] = NoPack
        BY <1>1 DEF PacksSound
    <2>3. ASSUME NEW q \in Packs
          PROVE  /\ ~InBay(q)' => q \notin live' /\ origin'[q] = "none" /\ mailbox'[q] = "none"
                 /\ mailbox'[q] = "on" => origin'[q] # "none"
                 /\ q \in live' => memory'[q].state = "active"
        <3>1. CASE q = p
            BY <2>1, <3>1
        <3>2. CASE q # p
            BY <1>1, <2>1, <3>2 DEF PacksSound
        <3> QED
            BY <3>1, <3>2
    <2> QED
        BY <2>2, <2>3 DEF PacksSound
<1>5. ASSUME NEW j \in Slots PROVE Undisturbed(j)
    <2> SUFFICES ASSUME Owned(j)' PROVE Undisturbed(j)
        BY DEF Undisturbed
    <2>1. bay'[j] = bay[j] /\ bay[j] \in Packs
        BY <1>1 DEF Owned, PackTypes
    <2>2. CASE bay[j] = p
        BY <2>1, <2>2 DEF Undisturbed, Owned, Powered
    <2>3. CASE bay[j] # p
        <3>1. /\ mailbox'[bay[j]] = mailbox[bay[j]] /\ origin'[bay[j]] = origin[bay[j]]
              /\ memory'[bay[j]] = memory[bay[j]] /\ (bay[j] \in live' <=> bay[j] \in live)
            BY <2>1, <2>3
        <3> QED
            BY <2>1, <3>1 DEF Undisturbed, Owned, Powered
    <2> QED
        BY <2>2, <2>3
<1> QED
    BY <1>4, <1>5 DEF PacksMove

LEMMA ObeyMoves ==
    ASSUME DualInv, NEW p \in Packs, Obey(p)
    PROVE  PacksMove
<1>1. PackTypes /\ PacksSound
    BY DEF DualInv
<1>2. InBay(p)
    BY <1>1 DEF PacksSound, Obey
<1>3. /\ Written(p, "idle") \in MemoryType /\ Written(p, "idle").state = "idle"
      /\ Written(p, "active") \in MemoryType /\ Written(p, "active").state = "active"
    BY <1>1, WrittenType
<1>4. /\ mailbox' = [mailbox EXCEPT ![p] = "none"] /\ mailbox'[p] = "none"
      /\ UNCHANGED <<world, bay, sampled, misled>>
    BY <1>1 DEF Obey, PackTypes, readVars
<1>5. CASE mailbox[p] = "on"
    <2>1. /\ live' = live \cup {p} /\ memory' = [memory EXCEPT ![p] = Written(p, "active")]
          /\ origin' = origin
        BY <1>5 DEF Obey
    <2>2. PackTypes'
        BY <1>1, <1>3, <1>4, <2>1 DEF PackTypes
    <2>3. \A q \in Packs \ {p} :
              /\ q \in live' <=> q \in live
              /\ mailbox'[q] = mailbox[q] /\ origin'[q] = origin[q]
              /\ memory'[q] = memory[q]
        BY <1>1, <1>4, <2>1 DEF PackTypes
    <2>4. memory'[p].state = "active" /\ origin[p] # "none"
        BY <1>1, <1>3, <1>5, <2>1 DEF PackTypes, PacksSound
    <2> QED
        BY <1>2, <1>4, <1>5, <2>1, <2>2, <2>3, <2>4, OnePack
<1>6. CASE mailbox[p] # "on"
    <2>1. /\ live' = live \ {p} /\ memory' = [memory EXCEPT ![p] = Written(p, "idle")]
          /\ origin' = [origin EXCEPT ![p] = "none"]
        BY <1>4, <1>6 DEF Obey, SwitchOff
    <2>2. PackTypes'
        BY <1>1, <1>3, <1>4, <2>1 DEF PackTypes
    <2>3. \A q \in Packs \ {p} :
              /\ q \in live' <=> q \in live
              /\ mailbox'[q] = mailbox[q] /\ origin'[q] = origin[q]
              /\ memory'[q] = memory[q]
        BY <1>1, <1>4, <2>1 DEF PackTypes
    <2>4. p \notin live' /\ origin'[p] = "none"
        BY <1>1, <2>1 DEF PackTypes
    <2> QED
        BY <1>2, <1>4, <2>2, <2>3, <2>4, OnePack
<1> QED
    BY <1>5, <1>6

LEMMA RefuseMoves ==
    ASSUME DualInv, NEW p \in Packs, Refuse(p)
    PROVE  PacksMove
<1>1. PackTypes /\ PacksSound
    BY DEF DualInv
<1>2. InBay(p)
    BY <1>1 DEF PacksSound, Refuse
<1>3. /\ mailbox' = [mailbox EXCEPT ![p] = "none"] /\ mailbox'[p] = "none"
      /\ UNCHANGED <<world, bay, live, memory, sampled, misled>>
      /\ origin' = IF p \in live THEN origin ELSE [origin EXCEPT ![p] = "none"]
    BY <1>1 DEF Refuse, PackTypes, readVars
<1>4. PackTypes'
    BY <1>1, <1>3 DEF PackTypes
<1>5. /\ \A q \in Packs \ {p} : mailbox'[q] = mailbox[q] /\ origin'[q] = origin[q]
      /\ origin'[p] # "none" => origin[p] # "none"
    BY <1>1, <1>3 DEF PackTypes
<1>6. p \in live => memory[p].state = "active"
    BY <1>1 DEF PacksSound
<1> QED
    BY <1>2, <1>3, <1>4, <1>5, <1>6, OnePack

LEMMA DieMoves ==
    ASSUME DualInv, NEW p \in Packs, Die(p)
    PROVE  PacksMove
<1>1. PackTypes /\ PacksSound
    BY DEF DualInv
<1>2. InBay(p)
    BY <1>1 DEF PacksSound, Die
<1>3. Written(p, "idle") \in MemoryType /\ Written(p, "idle").state = "idle"
    BY <1>1, WrittenType
<1>4. /\ UNCHANGED <<world, bay, mailbox, sampled, misled>>
      /\ live' = live \ {p} /\ memory' = [memory EXCEPT ![p] = Written(p, "idle")]
      /\ origin' = IF mailbox[p] = "on" THEN origin ELSE [origin EXCEPT ![p] = "none"]
    BY DEF Die, SwitchOff, readVars
<1>5. PackTypes'
    BY <1>1, <1>3, <1>4 DEF PackTypes
<1>6. \A q \in Packs \ {p} :
          /\ q \in live' <=> q \in live
          /\ mailbox'[q] = mailbox[q] /\ origin'[q] = origin[q]
          /\ memory'[q] = memory[q]
    BY <1>1, <1>4 DEF PackTypes
<1>7. p \notin live' /\ memory'[p].state = "idle"
    BY <1>1, <1>3, <1>4 DEF PackTypes
<1>8. /\ origin'[p] # "none" => origin[p] # "none"
      /\ mailbox[p] = "on" => origin'[p] # "none"
    BY <1>1, <1>4 DEF PackTypes, PacksSound
<1> QED
    BY <1>2, <1>4, <1>5, <1>6, <1>7, <1>8, OnePack

(* A pack that leaves is nobody's, and a pack that comes was nobody's. *)
LEMMA RemoveMoves ==
    ASSUME DualInv, NEW i \in Slots, Remove(i)
    PROVE  PacksMove
<1> DEFINE p == bay[i]
<1>1. PackTypes /\ PacksSound
    BY DEF DualInv
<1>2. p \in Packs /\ p # NoPack
    BY <1>1 DEF PackTypes, Remove
<1>3. /\ bay' = [bay EXCEPT ![i] = NoPack] /\ live' = live \ {p}
      /\ origin' = [origin EXCEPT ![p] = "none"]
      /\ mailbox' = [mailbox EXCEPT ![p] = "none"]
      /\ misled' = misled \ {p} /\ UNCHANGED <<world, memory, sampled>>
    BY DEF Remove
<1>4. /\ bay'[i] = NoPack /\ \A j \in Slots \ {i} : bay'[j] = bay[j] /\ bay[j] # p
      /\ origin'[p] = "none" /\ mailbox'[p] = "none" /\ p \notin live'
      /\ \A q \in Packs \ {p} :
            /\ q \in live' <=> q \in live
            /\ mailbox'[q] = mailbox[q] /\ origin'[q] = origin[q]
    BY <1>1, <1>2, <1>3 DEF PackTypes, PacksSound
<1>5. PackTypes'
    BY <1>1, <1>2, <1>3 DEF PackTypes
<1>6. memory' = memory
    BY <1>3
<1>7. PacksSound'
    <2>1. \A j, k \in Slots : j # k /\ bay'[j] = bay'[k] => bay'[j] = NoPack
        BY <1>1, <1>4 DEF PacksSound
    <2>2. \A q \in Packs \ {p} : InBay(q) => InBay(q)'
        BY <1>4 DEF InBay
    <2> QED
        BY <1>1, <1>4, <1>6, <2>1, <2>2 DEF PacksSound
<1>8. ASSUME NEW j \in Slots PROVE Undisturbed(j)
    <2> SUFFICES ASSUME Owned(j)' PROVE Undisturbed(j)
        BY DEF Undisturbed
    <2>1. j # i /\ bay'[j] = bay[j] /\ bay[j] \in Packs \ {p}
        BY <1>1, <1>4 DEF Owned, PackTypes
    <2>2. /\ bay[j] \in live' <=> bay[j] \in live
          /\ mailbox'[bay[j]] = mailbox[bay[j]] /\ origin'[bay[j]] = origin[bay[j]]
        BY <1>4, <2>1
    <2> QED
        BY <1>3, <1>6, <2>1, <2>2 DEF Undisturbed, Owned, Powered
<1> QED
    BY <1>5, <1>7, <1>8 DEF PacksMove

LEMMA InsertMoves ==
    ASSUME DualInv, NEW i \in Slots, NEW p \in Packs, Insert(i, p)
    PROVE  PacksMove
<1>1. PackTypes /\ PacksSound
    BY DEF DualInv
<1>2. PICK state \in {"idle", "active"} :
         memory' = [memory EXCEPT ![p] = [state |-> state, nonce |-> 0, stale |-> TRUE]]
    BY DEF Insert
<1> DEFINE m == [state |-> state, nonce |-> 0, stale |-> TRUE]
<1>3. m \in MemoryType
    BY DEF MemoryType
<1> HIDE DEF m
<1>4. /\ bay' = [bay EXCEPT ![i] = p] /\ memory' = [memory EXCEPT ![p] = m]
      /\ UNCHANGED <<world, live, origin, mailbox, sampled, misled>>
      /\ bay[i] = NoPack /\ ~InBay(p)
    BY <1>2 DEF Insert, InBay, m, readVars
<1>5. PackTypes'
    BY <1>1, <1>3, <1>4 DEF PackTypes
<1>6. /\ bay'[i] = p /\ \A j \in Slots \ {i} : bay'[j] = bay[j] /\ bay[j] # p
      /\ \A q \in Packs \ {p} : memory'[q] = memory[q]
      /\ p \notin live /\ origin[p] = "none" /\ mailbox[p] = "none"
    BY <1>1, <1>4 DEF PackTypes, PacksSound, InBay
<1>7. live' = live /\ origin' = origin /\ mailbox' = mailbox /\ misled' = misled
    BY <1>4
<1>8. PacksSound'
    <2>1. \A j, k \in Slots : j # k /\ bay'[j] = bay'[k] => bay'[j] = NoPack
        BY <1>1, <1>6 DEF PacksSound
    <2>2. \A q \in Packs : InBay(q) => InBay(q)'
        BY <1>4, <1>6, NoPackNotIn DEF InBay
    <2> QED
        BY <1>1, <1>6, <1>7, <2>1, <2>2 DEF PacksSound
<1>9. ASSUME NEW j \in Slots PROVE Undisturbed(j)
    <2> SUFFICES ASSUME Owned(j)' PROVE Undisturbed(j)
        BY DEF Undisturbed
    <2>1. j # i
        BY <1>6, <1>7 DEF Owned
    <2>2. bay'[j] = bay[j] /\ bay[j] \in Packs \ {p}
        BY <1>1, <1>6, <2>1 DEF Owned, PackTypes
    <2>3. memory'[bay[j]] = memory[bay[j]]
        BY <1>6, <2>2
    <2> QED
        BY <1>7, <2>2, <2>3 DEF Undisturbed, Owned, Powered
<1> QED
    BY <1>5, <1>8, <1>9 DEF PacksMove

(* Every step of the packs keeps the invariant. *)
LEMMA PackStepKeeps ==
    ASSUME DualInv, PackStep
    PROVE  DualInv'
<1>1. UNCHANGED <<vars, world, sampled>>
    BY DEF PackStep, Obey, Refuse, Die, Remove, Insert, readVars
<1>2. PacksMove
    BY ObeyMoves, RefuseMoves, DieMoves, RemoveMoves, InsertMoves DEF PackStep
<1>3. Inv' /\ Broken(isolation', slots')
    <2>1. UNCHANGED vars
        BY <1>1
    <2>2. Inv'
        BY <2>1, NextInv DEF DualInv
    <2>3. isolation' = isolation /\ slots' = slots
        BY <2>1 DEF vars
    <2> QED
        BY <2>2, <2>3 DEF DualInv, Broken
<1>4. /\ slots' = slots /\ selected' = selected /\ reading' = reading
      /\ now' = now /\ world' = world /\ sampled' = sampled
    BY <1>1 DEF vars, clock, readerVars
<1>5. ASSUME NEW j \in Slots PROVE Acquainted(j)' /\ Supplied(j)'
    <2>1. Acquainted(j) /\ Supplied(j) /\ Same(slots[j], slots'[j]) /\ Undisturbed(j)
        BY <1>2, <1>4 DEF DualInv, PacksMove, Same, Keeps
    <2> QED
        BY <1>4, <2>1, SlotKept
<1> QED
    BY <1>2, <1>3, <1>5 DEF DualInv, PacksMove


-----------------------------------------------------------------------------
(* The readers. *)

LEMMA NoFrameType == NoFrame \in TagSample
<1>1. BlankFrame \in FrameType
    BY DEF BlankFrame, FrameType, BMSStates
<1> QED
    BY <1>1 DEF NoFrame, Zero, TagSample

LEMMA GateStep ==
    ASSUME Inv, Broken(isolation, slots), Next
    PROVE  Inv' /\ Broken(isolation', slots')
<1>1. HandoverBreaksBeforeMake
    BY DEF HandoverBreaksBeforeMake, Broken
<1>2. HandoverBreaksBeforeMake'
    BY <1>1, NextBreaks
<1> QED
    BY <1>2, NextInv DEF HandoverBreaksBeforeMake, Broken

LEMMA DiscoverKeeps ==
    ASSUME DualInv, NEW i \in Slots, Discover(i)
    PROVE  DualInv'
<1>1. /\ Inv /\ Broken(isolation, slots) /\ RestType /\ PackTypes /\ PacksSound
      /\ Acquainted(i) /\ Supplied(i)
    BY InvParts DEF DualInv
<1>2. /\ bay[i] \in Uids /\ Tag(i, bay[i]) /\ ~reading[i].busy
      /\ UNCHANGED <<packVars, sampled, misled>>
    BY <1>1, PacksAssumption DEF Discover, PackTypes, readVars
<1>3. Inv' /\ Broken(isolation', slots')
    BY <1>1, <1>2, GateStep DEF Next, Reader
<1>4. PackTypes' /\ PacksSound'
    BY <1>1, <1>2, PacksStill DEF PackTypes
<1>5. /\ OthersSame(i)
      /\ slots[i].uid = bay[i] => Same(slots[i], slots'[i])
      /\ slots[i].uid # bay[i] =>
            /\ slots'[i].uid = bay[i] /\ slots'[i].serial = NoSerial
            /\ slots'[i].observed = Zero
    BY <1>1, <1>2, TagSlots
<1>6. /\ selected'[i] = bay[i] /\ \A j \in Slots \ {i} : selected'[j] = selected[j]
      /\ reading' = reading /\ now' = now /\ world' = world /\ sampled' = sampled
    BY <1>1, <1>2 DEF Tag, RestType, clock, packVars
<1>7. ~sampled'[i].done
    BY <1>1, <1>2, <1>6 DEF Acquainted
<1>8. \A j \in Slots : Undisturbed(j)
    BY <1>2, PacksAlone
<1>9. Acquainted(i)'
    <2>1. now \in Nat /\ Zero <= now
        BY <1>1 DEF RestType, Zero
    <2>2. ~reading'[i].busy
        BY <1>2, <1>6
    <2>3. CASE slots[i].uid = bay[i]
        <3>1. /\ slots'[i].uid = bay[i] /\ slots'[i].serial = slots[i].serial
              /\ slots'[i].observed = slots[i].observed
            BY <1>5, <2>3 DEF Same
        <3> QED
            BY <1>1, <1>6, <1>7, <2>2, <2>3, <3>1 DEF Acquainted
    <2>4. CASE slots[i].uid # bay[i]
        BY <1>5, <1>6, <1>7, <2>1, <2>2, <2>4 DEF Acquainted
    <2> QED
        BY <2>3, <2>4
<1>10. Supplied(i)'
    <2> SUFFICES ASSUME Owned(i)' PROVE Supplied(i)'
        BY DEF Supplied
    <2>1. slots[i].uid = bay[i]
        BY <1>1, <1>8 DEF Undisturbed, Supplied, Identified
    <2>2. SameCommands(slots[i], slots'[i])
        BY <1>5, <2>1 DEF Same, SameCommands
    <2> QED
        BY <1>1, <1>6, <1>7, <1>8, <2>2, SuppliedKept
<1> QED
    BY <1>3, <1>4, <1>5, <1>6, <1>8, <1>9, <1>10, ReaderStepKeeps DEF Apart

LEMMA LoseSightKeeps ==
    ASSUME DualInv, NEW i \in Slots, NEW departed \in BOOLEAN, LoseSight(i, departed)
    PROVE  DualInv'
<1>1. /\ Inv /\ Broken(isolation, slots) /\ RestType /\ PackTypes /\ PacksSound
      /\ Acquainted(i) /\ Supplied(i)
    BY InvParts DEF DualInv
<1>2. ObserveAbsent(i, departed) /\ ~reading[i].busy /\ UNCHANGED <<packVars, sampled, misled>>
    BY DEF LoseSight, ObserveAbsent, Idle, readVars
<1>3. /\ OthersSame(i) /\ SameCommands(slots[i], slots'[i])
      /\ slots'[i].observed = now
    BY <1>1, <1>2, AbsentSlots
<1>4. Inv' /\ Broken(isolation', slots')
    <2>1. Inv'
        BY <1>1, <1>2, ObserveAbsentInv
    <2>2. AllKeep
        BY <1>1, <1>2, QuietReaderKind
    <2>3. isolation' = isolation /\ isolation \in IsolationType
        BY <1>1, <1>2 DEF ObserveAbsent, RestType
    <2> QED
        BY <1>1, <2>1, <2>2, <2>3, BrokenKept DEF AllKeep
<1>5. PackTypes' /\ PacksSound'
    BY <1>1, <1>2, PacksStill DEF PackTypes
<1>6. /\ selected'[i] \in {NoUid, selected[i]}
      /\ \A j \in Slots \ {i} : selected'[j] = selected[j]
      /\ reading' = reading /\ now' = now /\ world' = world /\ sampled' = sampled
    BY <1>1, <1>2 DEF ObserveAbsent, RestType, clock, packVars
<1>7. ~sampled'[i].done /\ ~reading'[i].busy
    BY <1>1, <1>2, <1>6 DEF Acquainted
<1>8. \A j \in Slots : Undisturbed(j)
    BY <1>2, PacksAlone
<1>9. Acquainted(i)'
    <2>1. now \in Nat
        BY <1>1 DEF RestType
    <2>2. slots'[i].uid = slots[i].uid /\ slots'[i].serial = slots[i].serial
        BY <1>3 DEF SameCommands
    <2> QED
        BY <1>1, <1>3, <1>6, <1>7, <2>1, <2>2 DEF Acquainted
<1>10. Supplied(i)'
    BY <1>1, <1>3, <1>6, <1>7, <1>8, SuppliedKept
<1> QED
    BY <1>3, <1>4, <1>5, <1>6, <1>8, <1>9, <1>10, ReaderStepKeeps DEF Apart

(* A tag is read as it is. *)
LEMMA TagFrameType ==
    ASSUME PackTypes, NEW p \in Packs
    PROVE  /\ TagFrame(p) \in FrameType
           /\ TagFrame(p).serial = p /\ TagFrame(p).state = memory[p].state
<1>1. memory[p] \in MemoryType /\ world \in Worlds
    BY DEF PackTypes
<1>2. memory[p].state \in {"idle", "active"} /\ memory[p].nonce \in Nat
    BY <1>1 DEF MemoryType
<1>3. /\ world.voltages \in [Packs -> [{"idle", "active"} -> Nat]]
      /\ world.charges \in [Packs -> 1..100] /\ p \in Serials
    BY <1>1, PacksAssumption
<1> DEFINE v == world.voltages[p][memory[p].state]
           c == world.charges[p]
           st == memory[p].state
           n == memory[p].nonce
           f(b) == [b EXCEPT !.present = TRUE, !.voltage = v, !.charge = c, !.state = st,
                             !.serial = p, !.nonce = n]
<1>4. v \in Nat /\ c \in Nat
    <2>1. world.voltages[p] \in [{"idle", "active"} -> Nat] /\ c \in 1..100
        BY <1>3
    <2> QED
        BY <1>2, <2>1
<1>5. st \in BMSStates /\ n \in Nat
    BY <1>2 DEF BMSStates
<1>6. TagFrame(p) = f(BlankFrame)
    BY DEF TagFrame
<1> HIDE DEF v, c, st, n
<1>7. ASSUME NEW b \in FrameType PROVE f(b) \in FrameType
    BY <1>3, <1>4, <1>5 DEF FrameType
<1>8. ASSUME NEW b \in FrameType PROVE f(b).serial = p /\ f(b).state = st
    BY DEF FrameType
<1> HIDE DEF f
<1>9. BlankFrame \in FrameType
    BY DEF BlankFrame, FrameType, BMSStates
<1> QED
    BY <1>6, <1>7, <1>8, <1>9 DEF st

(* A tag that shows a supply off still holds its ON. *)
LEMMA BeginReadKeeps ==
    ASSUME DualInv, NEW i \in Slots, BeginRead(i)
    PROVE  DualInv'
<1> DEFINE f == TagFrame(bay[i])
           early == mailbox[bay[i]] = "on"
           x == [done |-> TRUE, early |-> early, at |-> now, frame |-> f]
           s == slots[i]
<1>1. /\ Inv /\ Broken(isolation, slots) /\ SlotsOK /\ RestType /\ PackTypes /\ PacksSound
      /\ Acquainted(i) /\ Supplied(i)
    BY InvParts DEF DualInv
<1>2. /\ StartRead(i) /\ bay[i] # NoPack /\ selected[i] = bay[i]
      /\ UNCHANGED <<packVars, misled>> /\ sampled' = [sampled EXCEPT ![i] = x]
    BY DEF BeginRead, InTouch
<1>3. bay[i] \in Packs /\ now \in Nat /\ early \in BOOLEAN
    BY <1>1, <1>2 DEF PackTypes, RestType
<1>4. f \in FrameType /\ f.serial = bay[i] /\ f.state = memory[bay[i]].state
    BY <1>1, <1>3, TagFrameType
<1> HIDE DEF f, early
<1>5. x \in TagSample /\ x.done /\ x.early = early /\ x.frame = f
    BY <1>3, <1>4 DEF TagSample
<1> HIDE DEF x
<1>6. Inv' /\ Broken(isolation', slots')
    BY <1>1, <1>2, GateStep DEF Next, Reader
<1>7. sampled'[i] = x /\ \A j \in Slots \ {i} : sampled'[j] = sampled[j]
    BY <1>1, <1>2 DEF PackTypes
<1>8. PackTypes' /\ PacksSound'
    <2>1. sampled' \in [Slots -> TagSample]
        BY <1>1, <1>2, <1>5 DEF PackTypes
    <2> QED
        BY <1>1, <1>2, <2>1, PacksStill
<1>9. /\ slots' = slots /\ selected' = selected /\ now' = now /\ world' = world
      /\ reading'[i].busy /\ \A j \in Slots \ {i} : reading'[j] = reading[j]
    BY <1>1, <1>2 DEF StartRead, RestType, clock, packVars
<1>10. \A j \in Slots : Undisturbed(j)
    BY <1>2, PacksAlone
<1>11. OthersSame(i)
    BY <1>9 DEF OthersSame, Same, Keeps
<1>12. Acquainted(i)'
    <2>1. selected[i] # NoUid
        BY <1>2 DEF NoPack
    <2> QED
        BY <1>1, <1>2, <1>4, <1>5, <1>7, <1>9, <2>1 DEF Acquainted
<1>13. SampleHonest(i)'
    <2>1. f.state # "active" /\ Powered(i) => early
        BY <1>1, <1>3, <1>4 DEF PacksSound, Powered, early
    <2>2. Powered(i)' <=> Powered(i)
        BY <1>2 DEF packVars, Powered
    <2> QED
        BY <1>5, <1>7, <2>1, <2>2 DEF SampleHonest
<1>14. Supplied(i)'
    <2> SUFFICES ASSUME Owned(i)' PROVE Supplied(i)'
        BY DEF Supplied
    <2>1. Owned(i) /\ bay' = bay /\ live' = live /\ mailbox' = mailbox /\ misled' = misled
        BY <1>10, <1>2 DEF Undisturbed, packVars
    <2>2. Identified(i)'
        BY <1>1, <1>2, <1>9, <2>1 DEF Supplied, Identified
    <2>3. Powered(i)' => slots'[i].held \/ bay'[i] \in misled'
        BY <1>1, <1>9, <2>1 DEF Supplied, Powered
    <2> QED
        BY <1>13, <2>2, <2>3 DEF Supplied
<1> QED
    BY <1>6, <1>7, <1>8, <1>9, <1>10, <1>11, <1>12, <1>14, ReaderStepKeeps DEF Apart

LEMMA AbortReadKeeps ==
    ASSUME DualInv, NEW i \in Slots, AbortRead(i)
    PROVE  DualInv'
<1>1. /\ Inv /\ Broken(isolation, slots) /\ RestType /\ PackTypes /\ PacksSound
      /\ Acquainted(i) /\ Supplied(i)
    BY InvParts DEF DualInv
<1>2. /\ FailRead(i) /\ UNCHANGED <<packVars, misled>> /\ sampled' = [sampled EXCEPT ![i] = NoFrame]
    BY DEF AbortRead
<1>3. AllSame
    BY <1>1, <1>2, FailSlots
<1>4. Inv' /\ Broken(isolation', slots')
    <2>1. Inv'
        BY <1>1, <1>2, FailReadInv
    <2>2. isolation' = isolation /\ isolation \in IsolationType
        BY <1>1, <1>2 DEF FailRead, RestType
    <2> QED
        BY <1>1, <1>3, <2>1, <2>2, SameKeep, BrokenKept DEF AllKeep
<1>5. /\ sampled'[i] = NoFrame /\ ~NoFrame.done
      /\ \A j \in Slots \ {i} : sampled'[j] = sampled[j]
    BY <1>1, <1>2 DEF PackTypes, NoFrame
<1>6. PackTypes' /\ PacksSound'
    <2>1. sampled' \in [Slots -> TagSample]
        BY <1>1, <1>2, NoFrameType DEF PackTypes
    <2> QED
        BY <1>1, <1>2, <2>1, PacksStill
<1>7. /\ selected' = selected /\ now' = now /\ world' = world
      /\ reading'[i] = NoRead /\ \A j \in Slots \ {i} : reading'[j] = reading[j]
    BY <1>1, <1>2 DEF FailRead, EndRead, RestType, clock, packVars
<1>8. \A j \in Slots : Undisturbed(j)
    BY <1>2, PacksAlone
<1>9. OthersSame(i) /\ Same(slots[i], slots'[i]) /\ SameCommands(slots[i], slots'[i])
    BY <1>3 DEF AllSame, OthersSame, Same, SameCommands
<1>10. Acquainted(i)'
    <2>1. ~reading'[i].busy /\ ~sampled'[i].done
        BY <1>5, <1>7 DEF NoRead
    <2> QED
        BY <1>1, <1>7, <1>9, <2>1 DEF Acquainted, Same
<1>11. Supplied(i)'
    BY <1>1, <1>5, <1>7, <1>8, <1>9, SuppliedKept
<1> QED
    BY <1>4, <1>5, <1>6, <1>7, <1>8, <1>9, <1>10, <1>11, ReaderStepKeeps DEF Apart


(* The identity after a reading that shows no other pack. *)
LEMMA RecordedIdentity ==
    ASSUME NEW s \in SlotType, NEW data \in FrameType, NEW t \in Nat, ~IdentityChanged(s, data)
    PROVE  /\ Recorded(s, data, t).uid = s.uid
           /\ Recorded(s, data, t).serial \in {s.serial, data.serial}
<1> DEFINE written == IF s.haveFrame /\ statusFrameChanged(s.frame, data)
                      THEN t ELSE s.written
           valid == /\ data.present /\ data.voltage > 0
                    /\ data.state \in {"active", "idle", "asleep"}
                    /\ written # Zero
           tracked == s.powerTracked \/ data.state = "active"
           serial == IF data.serial = NoSerial THEN s.serial ELSE data.serial
           record(p, c, w, v) == [s EXCEPT
                !.powerTracked = p, !.serial = c, !.written = w,
                !.frame = data, !.haveFrame = TRUE, !.observed = t,
                !.absent = FALSE, !.valid = v]
<1>1. Recorded(s, data, t) = record(tracked, serial, written, valid)
    BY DEF Recorded
<1>2. ASSUME NEW p, NEW c, NEW w, NEW v
      PROVE  record(p, c, w, v).uid = s.uid /\ record(p, c, w, v).serial = c
    BY DEF SlotType
<1>3. serial \in {s.serial, data.serial}
    OBVIOUS
<1> HIDE DEF written, valid, tracked, serial, record
<1> QED
    BY <1>1, <1>2, <1>3

(* A read that completes.  Its sample is of the pack that the slot knows,  *)
(* and if it ends the reservation of a supply it was taken early.          *)
LEMMA CompleteReadKeeps ==
    ASSUME DualInv, NEW i \in Slots, CompleteRead(i)
    PROVE  DualInv'
<1> DEFINE data == sampled[i].frame
           at == sampled[i].at
           s == slots[i]
           seen == Recorded(slots[i], data, now)
           res == Resolved(seen, now)
<1>1. /\ Inv /\ Broken(isolation, slots) /\ SlotsOK /\ RestType /\ PackTypes /\ PacksSound
      /\ Acquainted(i) /\ Supplied(i)
    BY InvParts DEF DualInv
<1>2. /\ FinishRead(i, data, at, at) /\ UNCHANGED packVars
      /\ sampled' = [sampled EXCEPT ![i] = NoFrame] /\ sampled[i].done
      /\ misled' = IF slots'[i].held THEN misled \ {bay[i]}
                   ELSE IF slots[i].held /\ sampled[i].early /\ Powered(i)
                   THEN misled \cup {bay[i]} ELSE misled
    BY DEF CompleteRead
<1>3. /\ data \in FrameType /\ at \in Nat /\ s \in SlotType /\ SlotOK(i, s) /\ now \in Nat
    BY <1>1 DEF PackTypes, TagSample, SlotsOK, SlotOK, RestType
<1>4. Inv' /\ Broken(isolation', slots')
    BY <1>1, <1>2, <1>3, FinishReadInv, FinishReadBreaks
<1>5. /\ sampled'[i] = NoFrame /\ ~NoFrame.done
      /\ \A j \in Slots \ {i} : sampled'[j] = sampled[j]
    BY <1>1, <1>2 DEF PackTypes, NoFrame
<1>6. PackTypes' /\ PacksSound'
    <2>1. sampled' \in [Slots -> TagSample]
        BY <1>1, <1>2, NoFrameType DEF PackTypes
    <2> QED
        BY <1>1, <1>2, <2>1, PacksStill
<1>7. /\ selected' = selected /\ now' = now /\ world' = world
      /\ reading'[i] = NoRead /\ \A j \in Slots \ {i} : reading'[j] = reading[j]
    <2>1. EndRead(i)
        BY <1>2, Zenon DEF FinishRead
    <2> QED
        BY <1>1, <1>2, <2>1 DEF EndRead, RestType, clock, packVars
<1>8. ASSUME NEW j \in Slots \ {i} PROVE Undisturbed(j)
    <2>1. bay[j] # NoPack => bay[j] # bay[i]
        BY <1>1 DEF PacksSound
    <2>2. bay[j] # bay[i] /\ bay[j] \in misled => bay[j] \in misled'
        BY <1>2
    <2> QED
        BY <1>2, <2>1, <2>2 DEF packVars, Undisturbed, Owned, Powered
<1>9. /\ \A j \in Slots \ {i} : Twin(slots[j], slots'[j])
      /\ Keeps(res, slots'[i]) /\ slots'[i].observed = now
      /\ slots'[i].uid = seen.uid /\ slots'[i].serial = seen.serial
      /\ slots'[i].lastOnAt = seen.lastOnAt
    BY <1>1, <1>2, <1>3, FinishReadSlots
<1>10. OthersSame(i)
    BY <1>9 DEF OthersSame, Twin
<1>11. /\ s.uid = selected[i] /\ data.serial = s.uid /\ s.serial \in {NoSerial, s.uid}
       /\ ~IdentityChanged(s, data)
    BY <1>1, <1>2 DEF Acquainted, IdentityChanged
<1>12. /\ seen \in SlotType /\ Keeps(s, seen) /\ seen.uid = s.uid
       /\ seen.serial \in {s.serial, data.serial}
    <2>1. Quiet(i, s, seen)
        BY <1>3, RecordedFields, ZenonT(60)
    <2>2. Keeps(s, seen)
        BY <1>3, <1>11, RecordedKind
    <2>3. seen.uid = s.uid /\ seen.serial \in {s.serial, data.serial}
        BY <1>3, <1>11, RecordedIdentity
    <2> QED
        BY <2>1, <2>2, <2>3 DEF Quiet, SlotOK
<1>13. seen.frame = data /\ seen.lastOnAt = s.lastOnAt
    <2>1. seen.frame = data
        BY <1>3, RecordedFields, SMTT(40)
    <2>2. seen.lastOnAt = s.lastOnAt
        BY <1>3, RecordedFields, SMTT(40)
    <2> QED
        BY <2>1, <2>2
<1> HIDE DEF seen
<1>14. Acquainted(i)'
    <2>1. ~reading'[i].busy /\ ~sampled'[i].done
        BY <1>5, <1>7 DEF NoRead
    <2> QED
        BY <1>3, <1>7, <1>9, <1>11, <1>12, <2>1 DEF Acquainted
<1>17. \/ SeenRunning(seen, res)
       \/ Released(seen, res) /\ OffEvidence(seen, now)
       \/ Keeps(seen, res)
    BY <1>3, <1>12, ResolvedKind
<1> HIDE DEF res
<1>19. Supplied(i)'
    <2> SUFFICES ASSUME Owned(i)' PROVE Supplied(i)'
        BY DEF Supplied
    <2>1. Owned(i) /\ bay' = bay /\ (Powered(i)' <=> Powered(i))
        BY <1>2 DEF packVars, Owned, Powered
    <2>2. ~sampled'[i].done
        BY <1>5
    <2>3. /\ Identified(i) /\ SampleHonest(i)
          /\ Powered(i) => s.held \/ bay[i] \in misled
        BY <1>1, <2>1 DEF Supplied
    <2>4. Identified(i)'
        <3>1. ~seen.identityUncertain
            BY <1>12, <2>3 DEF Identified, Keeps
        <3>2. ~slots'[i].identityUncertain
            BY <1>9, <1>17, <3>1 DEF SeenRunning, Released, Keeps
        <3> QED
            BY <1>9, <1>12, <2>1, <2>2, <2>3, <3>2 DEF Identified
    <2>5. Powered(i)' => slots'[i].held \/ bay'[i] \in misled'
        <3> SUFFICES ASSUME Powered(i), ~slots'[i].held PROVE bay[i] \in misled'
            BY <2>1
        <3>1. s.held => OffEvidence(seen, now)
            BY <1>9, <1>12, <1>17 DEF SeenRunning, Keeps
        <3>2. s.held => sampled[i].early
            BY <1>2, <1>13, <2>3, <3>1 DEF OffEvidence, SampleHonest
        <3> QED
            BY <1>2, <2>3, <3>2
    <2>6. SampleHonest(i)'
        BY <2>2 DEF SampleHonest
    <2> QED
        BY <2>4, <2>5, <2>6 DEF Supplied
<1> QED
    BY <1>4, <1>5, <1>6, <1>7, <1>8, <1>10, <1>14, <1>19, ReaderStepKeeps DEF Apart

(* An ON is written to the tag of the pack that the slot has reserved. *)
LEMMA WriteOnKeeps ==
    ASSUME DualInv, NEW i \in Slots, WriteOn(i)
    PROVE  DualInv'
<1> DEFINE p == bay[i]
<1>1. /\ Inv /\ Broken(isolation, slots) /\ RestType /\ PackTypes /\ PacksSound
      /\ Acquainted(i) /\ Supplied(i)
    BY InvParts DEF DualInv
<1>2. /\ RequestOn(i) /\ UNCHANGED <<world, bay, live, memory, sampled>>
      /\ selected[i] # NoUid /\ misled' = misled \ {bay[i]}
    BY DEF WriteOn
<1>3. /\ UNCHANGED <<clock, readerVars>> /\ Idle(i)
    BY <1>2 DEF RequestOn, RepeatOn, RequalifyOn, ActivateOn, Requested
<1>4. /\ selected' = selected /\ reading' = reading /\ now' = now
      /\ i \in Monitored /\ ~reading[i].busy
    BY <1>3 DEF clock, readerVars, Idle
<1>5. Inv' /\ Broken(isolation', slots')
    BY <1>1, <1>2, GateStep DEF Next, Reader
<1>6. /\ OthersSame(i)
      /\ slots'[i].uid = slots[i].uid /\ slots'[i].serial = slots[i].serial
      /\ slots'[i].observed = slots[i].observed /\ slots'[i].lastOnAt = now
      /\ slots'[i].held /\ ~slots'[i].identityUncertain
      /\ slots'[i].offPending => slots'[i].active
    BY <1>1, <1>2, OnSlots
<1>7. ~sampled'[i].done
    BY <1>1, <1>2, <1>4 DEF Acquainted
<1>8. Acquainted(i)'
    BY <1>1, <1>2, <1>4, <1>6, <1>7 DEF Acquainted
<1>9. ASSUME Owned(i)', slots'[i].uid = bay[i] PROVE Supplied(i)'
    BY <1>2, <1>4, <1>6, <1>7, <1>9
    DEF Supplied, Identified, SampleHonest
<1>10. CASE UNCHANGED <<mailbox, origin>>
    <2>1. UNCHANGED packVars
        BY <1>2, <1>10 DEF packVars
    <2>2. ASSUME NEW j \in Slots \ {i} PROVE Undisturbed(j)
        <3>1. bay[j] # NoPack => bay[j] # bay[i]
            BY <1>1 DEF PacksSound
        <3> QED
            BY <1>2, <2>1, <3>1 DEF packVars, Undisturbed, Owned, Powered
    <2>3. PackTypes' /\ PacksSound'
        BY <1>1, <1>2, <2>1, PacksStill DEF PackTypes
    <2>4. Supplied(i)'
        <3> SUFFICES ASSUME Owned(i)' PROVE Supplied(i)'
            BY DEF Supplied
        <3>1. slots'[i].uid = bay[i]
            BY <1>1, <1>2, <1>6, <2>1 DEF packVars, Owned, Supplied, Identified
        <3> QED
            BY <1>9, <3>1
    <2> QED
        BY <1>2, <1>4, <1>5, <1>6, <1>8, <2>2, <2>3, <2>4, ReaderStepKeeps DEF Apart
<1>11. CASE ~UNCHANGED <<mailbox, origin>>
    <2> DEFINE o == IF slots[i].active /\ origin[p] # "new" THEN "kept" ELSE "new"
    <2>1. /\ p # NoPack /\ selected[i] = p /\ mailbox' = [mailbox EXCEPT ![p] = "on"]
          /\ origin' = [origin EXCEPT ![p] = o]
        <3>1. /\ InTouch(i) /\ mailbox' = [mailbox EXCEPT ![p] = "on"]
              /\ origin' = [origin EXCEPT ![p] =
                               IF slots[i].active /\ @ # "new" THEN "kept" ELSE "new"]
            BY <1>11 DEF WriteOn
        <3> QED
            BY <1>1, <3>1 DEF InTouch, PackTypes
    <2>2. o \in {"kept", "new"} /\ p \in Packs
        BY <1>1, <2>1 DEF PackTypes
    <2> HIDE DEF o
    <2>3. /\ mailbox'[p] = "on" /\ origin'[p] # "none"
          /\ \A q \in Packs \ {p} : mailbox'[q] = mailbox[q] /\ origin'[q] = origin[q]
        BY <1>1, <2>1, <2>2 DEF PackTypes
    <2>4. PackTypes'
        BY <1>1, <1>2, <2>1, <2>2 DEF PackTypes
    <2>5. PacksSound'
        <3>1. \A q : InBay(q)' <=> InBay(q)
            BY <1>2 DEF InBay
        <3>2. InBay(p)
            BY DEF InBay
        <3>3. ASSUME NEW q \in Packs
              PROVE  /\ ~InBay(q)' => q \notin live' /\ origin'[q] = "none" /\ mailbox'[q] = "none"
                     /\ mailbox'[q] = "on" => origin'[q] # "none"
                     /\ q \in live' => memory'[q].state = "active"
            <4>1. CASE q = p
                BY <1>1, <1>2, <2>3, <3>1, <3>2, <4>1 DEF PacksSound
            <4>2. CASE q # p
                BY <1>1, <1>2, <2>3, <3>1, <4>2 DEF PacksSound
            <4> QED
                BY <4>1, <4>2
        <3>4. \A j, k \in Slots : j # k /\ bay'[j] = bay'[k] => bay'[j] = NoPack
            BY <1>1, <1>2 DEF PacksSound
        <3> QED
            BY <3>3, <3>4 DEF PacksSound
    <2>6. \A j \in Slots \ {i} : Undisturbed(j)
        BY <1>1, <1>2, <2>1, <2>3, OtherPack
    <2>7. Supplied(i)'
        <3>1. slots'[i].uid = bay[i]
            BY <1>1, <1>2, <1>6, <2>1 DEF Acquainted
        <3>2. Owned(i)'
            BY <1>2, <2>1, <2>3 DEF Owned
        <3> QED
            BY <1>9, <3>1, <3>2
    <2> QED
        BY <1>2, <1>4, <1>5, <1>6, <1>8, <2>4, <2>5, <2>6, <2>7, ReaderStepKeeps DEF Apart
<1> QED
    BY <1>10, <1>11

(* An OFF takes nothing from the reservation. *)
LEMMA WriteOffKeeps ==
    ASSUME DualInv, NEW i \in Slots, WriteOff(i)
    PROVE  DualInv'
<1> DEFINE p == bay[i]
           s == slots[i]
<1>1. /\ Inv /\ Broken(isolation, slots) /\ SlotsOK /\ RestType /\ PackTypes /\ PacksSound
      /\ Acquainted(i) /\ Supplied(i)
    BY InvParts DEF DualInv
<1>2. Off(i) /\ UNCHANGED <<world, bay, live, memory, sampled, misled>>
    BY DEF WriteOff, OffAttempt, IsolationOffAttempt, readVars
<1>3. /\ selected' = selected /\ reading' = reading /\ now' = now
      /\ i \in Monitored /\ ~reading[i].busy
    BY <1>2 DEF Off, clock, readerVars, Idle
<1>4. Inv' /\ Broken(isolation', slots')
    BY <1>1, <1>2, OffInv, OffBreaks
<1>5. /\ OthersSame(i)
      /\ slots'[i].uid = s.uid /\ slots'[i].serial = s.serial
      /\ slots'[i].observed = s.observed /\ slots'[i].lastOnAt = s.lastOnAt
      /\ slots'[i].held = s.held /\ slots'[i].active = s.active
      /\ slots'[i].identityUncertain = s.identityUncertain
      /\ slots'[i].offPending => s.held
    BY <1>1, <1>2, OffSlots
<1>6. ~sampled'[i].done
    BY <1>1, <1>2, <1>3 DEF Acquainted
<1>7. Acquainted(i)'
    BY <1>1, <1>2, <1>3, <1>5, <1>6 DEF Acquainted
<1>9. ASSUME Owned(i)', Undisturbed(i) PROVE Supplied(i)'
    <2>1. /\ Owned(i) /\ Identified(i)
          /\ Powered(i) => s.held \/ bay[i] \in misled
        BY <1>1, <1>9 DEF Undisturbed, Supplied
    <2>2. Identified(i)' /\ (Powered(i)' => slots'[i].held \/ bay'[i] \in misled')
        BY <1>2, <1>5, <1>6, <1>9, <2>1 DEF Undisturbed, Identified
    <2>3. SampleHonest(i)'
        BY <1>6 DEF SampleHonest
    <2> QED
        BY <2>2, <2>3 DEF Supplied
<1>10. CASE UNCHANGED <<mailbox, origin>>
    <2>1. UNCHANGED packVars
        BY <1>2, <1>10 DEF packVars
    <2>2. \A j \in Slots : Undisturbed(j)
        BY <1>2, <2>1, PacksAlone
    <2>3. PackTypes' /\ PacksSound'
        BY <1>1, <1>2, <2>1, PacksStill DEF PackTypes
    <2>4. Supplied(i)'
        BY <1>9, <2>2 DEF Supplied
    <2> QED
        BY <1>2, <1>3, <1>4, <1>5, <1>7, <2>2, <2>3, <2>4, ReaderStepKeeps DEF Apart
<1>11. CASE ~UNCHANGED <<mailbox, origin>>
    <2>1. /\ p # NoPack /\ mailbox' = [mailbox EXCEPT ![p] = "off"]
          /\ origin' = IF p \in live THEN origin ELSE [origin EXCEPT ![p] = "none"]
        BY <1>11 DEF WriteOff, InTouch
    <2>2. p \in Packs
        BY <1>1, <2>1 DEF PackTypes
    <2>3. /\ mailbox'[p] = "off" /\ (origin'[p] # "none" => origin'[p] = origin[p])
          /\ \A q \in Packs \ {p} : mailbox'[q] = mailbox[q] /\ origin'[q] = origin[q]
        BY <1>1, <2>1, <2>2 DEF PackTypes
    <2>4. PackTypes'
        BY <1>1, <1>2, <2>1, <2>2 DEF PackTypes
    <2>5. PacksSound'
        <3>1. \A q : InBay(q)' <=> InBay(q)
            BY <1>2 DEF InBay
        <3>2. InBay(p)
            BY DEF InBay
        <3>3. ASSUME NEW q \in Packs
              PROVE  /\ ~InBay(q)' => q \notin live' /\ origin'[q] = "none" /\ mailbox'[q] = "none"
                     /\ mailbox'[q] = "on" => origin'[q] # "none"
                     /\ q \in live' => memory'[q].state = "active"
            <4>1. CASE q = p
                BY <1>1, <1>2, <2>3, <3>1, <3>2, <4>1 DEF PacksSound
            <4>2. CASE q # p
                BY <1>1, <1>2, <2>3, <3>1, <4>2 DEF PacksSound
            <4> QED
                BY <4>1, <4>2
        <3>4. \A j, k \in Slots : j # k /\ bay'[j] = bay'[k] => bay'[j] = NoPack
            BY <1>1, <1>2 DEF PacksSound
        <3> QED
            BY <3>3, <3>4 DEF PacksSound
    <2>6. \A j \in Slots \ {i} : Undisturbed(j)
        BY <1>1, <1>2, <2>1, <2>3, OtherPack
    <2>7. Undisturbed(i)
        BY <1>2, <2>3 DEF Undisturbed, Owned, Powered
    <2>8. Supplied(i)'
        BY <1>9, <2>7 DEF Supplied
    <2> QED
        BY <1>2, <1>3, <1>4, <1>5, <1>7, <2>4, <2>5, <2>6, <2>8, ReaderStepKeeps DEF Apart
<1> QED
    BY <1>10, <1>11

-----------------------------------------------------------------------------
(* The service and time. *)

LEMMA ServiceStepKeeps ==
    ASSUME DualInv, \/ Service
                    \/ \E i \in Slots : ShouldIsolate(i)
                    \/ UNCHANGED vars,
           UNCHANGED <<packVars, readVars>>
    PROVE  DualInv'
<1>1. Inv /\ Broken(isolation, slots) /\ SlotsOK /\ PackTypes /\ PacksSound
    BY InvParts DEF DualInv
<1>2. Inv' /\ Broken(isolation', slots')
    <2>1. CASE UNCHANGED vars
        <3>1. isolation' = isolation /\ slots' = slots
            BY <2>1 DEF vars
        <3> QED
            BY <1>1, <2>1, <3>1, NextInv DEF Broken
    <2>2. CASE Service \/ \E i \in Slots : ShouldIsolate(i)
        BY <1>1, <2>2, GateStep DEF Next, Reader
    <2> QED
        BY <2>1, <2>2
<1>3. AllSame
    <2>1. CASE \E i \in Slots : ShouldIsolate(i)
        BY <1>1, <2>1, SamplesOnly DEF ShouldIsolate
    <2> QED
        BY <1>1, <2>1, ServiceSame
<1>4. now' = now /\ selected' = selected /\ reading' = reading
    BY Zenon
    DEF Service, BeginRound, StopSampling, ReceiveMotion, ResetMotionStream, SetVehicle,
        SetSeatbox, SetRole, SetMaxDelta, ShouldIsolate, vars, clock, readerVars
<1>5. PackTypes' /\ PacksSound'
    BY <1>1, PacksStill DEF PackTypes, readVars
<1>6. \A j \in Slots : Undisturbed(j)
    BY PacksAlone DEF readVars
<1>7. world' = world /\ sampled' = sampled
    BY DEF packVars, readVars
<1>8. ASSUME NEW j \in Slots PROVE Acquainted(j)' /\ Supplied(j)'
    <2>1. Acquainted(j) /\ Supplied(j) /\ Same(slots[j], slots'[j])
        BY <1>3 DEF DualInv, AllSame
    <2> QED
        BY <1>4, <1>6, <1>7, <2>1, SlotKept
<1> QED
    BY <1>2, <1>5, <1>8 DEF DualInv

(* Time passes: the packs write what they do to their tags. *)
LEMMA PackTickKeeps ==
    ASSUME DualInv, PackTick
    PROVE  DualInv'
<1>1. Inv /\ Broken(isolation, slots) /\ SlotsOK /\ RestType /\ PackTypes /\ PacksSound
    BY InvParts DEF DualInv
<1>2. Tick /\ UNCHANGED <<world, bay, live, origin, mailbox, sampled, misled>>
    BY DEF PackTick, readVars
<1>3. Inv' /\ Broken(isolation', slots')
    BY <1>1, <1>2, GateStep DEF Next
<1>4. /\ now' = now + 1 /\ now \in Nat
      /\ slots' = slots /\ selected' = selected /\ reading' = reading
    BY <1>1, <1>2 DEF Tick, readerVars, RestType
<1>5. /\ memory' \in [Packs -> MemoryType]
      /\ \A p \in Packs : memory'[p].state \in {memory[p].state, PowerState(p)}
      /\ \A p \in live : InBay(p) => memory'[p].state = "active"
    <2>1. CASE memory' = [p \in Packs |-> IF \E i \in Slots : bay[i] = p
                                          THEN Written(p, PowerState(p)) ELSE memory[p]]
        <3>1. \A p \in Packs : PowerState(p) \in {"idle", "active"}
            BY DEF PowerState
        <3>2. \A p \in Packs : /\ Written(p, PowerState(p)) \in MemoryType
                               /\ Written(p, PowerState(p)).state = PowerState(p)
            BY <1>1, <3>1, WrittenType
        <3>3. \A p \in Packs : memory'[p] = IF InBay(p) THEN Written(p, PowerState(p)) ELSE memory[p]
            BY <2>1 DEF InBay
        <3>4. memory' \in [Packs -> MemoryType]
            BY <1>1, <2>1, <3>2 DEF PackTypes
        <3> QED
            BY <1>1, <3>2, <3>3, <3>4 DEF PowerState, PackTypes
    <2>2. CASE "frozen" \in world.events /\ memory' = memory
        BY <1>1, <2>2 DEF PackTypes, PacksSound
    <2> QED
        BY <2>1, <2>2 DEF PackTick
<1>6. PackTypes'
    BY <1>1, <1>2, <1>5 DEF PackTypes
<1>7. PacksSound'
    <2>1. \A q : InBay(q)' <=> InBay(q)
        BY <1>2 DEF InBay
    <2>2. \A p \in Packs : p \in live => InBay(p)
        BY <1>1 DEF PacksSound
    <2> QED
        BY <1>1, <1>2, <1>5, <2>1, <2>2 DEF PacksSound
<1>8. ASSUME NEW j \in Slots PROVE Acquainted(j)' /\ Supplied(j)'
    <2>1. Acquainted(j) /\ Supplied(j) /\ slots[j].observed \in Nat
        BY <1>1 DEF DualInv, SlotsOK, SlotType
    <2>2. Acquainted(j)'
        BY <1>2, <1>4, <2>1 DEF Acquainted
    <2>3. Undisturbed(j)
        BY <1>2 DEF Undisturbed, Owned, Powered
    <2>4. SameCommands(slots[j], slots'[j])
        BY <1>4 DEF SameCommands, Keeps
    <2> QED
        BY <1>2, <1>4, <2>1, <2>2, <2>3, <2>4, SuppliedKept
<1> QED
    BY <1>3, <1>6, <1>7, <1>8 DEF DualInv

-----------------------------------------------------------------------------
(* The whole. *)

LEMMA DualInitInv == DualInit => DualInv
<1> SUFFICES ASSUME DualInit PROVE DualInv
    OBVIOUS
<1>1. Init /\ Inv /\ Broken(isolation, slots)
    BY InitInv DEF DualInit, Init, Broken, NoIsolation
<1>2. PackTypes
    <2>1. world \in Worlds /\ bay = world.bays /\ live = world.live
        BY DEF DualInit
    <2>2. /\ world.bays \in [Slots -> Packs \cup {NoPack}]
          /\ world.live \subseteq {world.bays[i] : i \in Slots} \ {NoPack}
        BY <2>1, PacksAssumption
    <2>3. bay \in [Slots -> Packs \cup {NoPack}] /\ live \subseteq Packs
        BY <2>1, <2>2
    <2>4. memory \in [Packs -> MemoryType]
        BY DEF DualInit, MemoryType
    <2>5. sampled \in [Slots -> TagSample]
        BY NoFrameType DEF DualInit
    <2> QED
        BY <2>1, <2>3, <2>4, <2>5 DEF DualInit, PackTypes
<1>3. PacksSound
    <2>1. /\ world \in Worlds /\ bay = world.bays /\ live = world.live
          /\ origin = [p \in Packs |-> "none"] /\ mailbox = [p \in Packs |-> "none"]
          /\ \A p \in live : memory[p].state = "active"
        BY DEF DualInit
    <2>2. /\ bay[0] = bay[1] => bay[0] = NoPack
          /\ live \subseteq {bay[i] : i \in Slots} \ {NoPack}
        BY <2>1, PacksAssumption
    <2>3. \A i, j \in Slots : i # j /\ bay[i] = bay[j] => bay[i] = NoPack
        BY <2>2 DEF Slots
    <2> QED
        BY <2>1, <2>2, <2>3 DEF PacksSound, InBay
<1>4. ASSUME NEW i \in Slots PROVE Acquainted(i) /\ Supplied(i)
    <2>1. ~Owned(i)
        BY <1>2 DEF DualInit, Owned, PackTypes
    <2>2. /\ ~sampled[i].done /\ ~reading[i].busy /\ selected[i] = NoUid
        BY <1>1 DEF DualInit, Init, NoFrame, NoRead
    <2>3. slots[i].serial = NoSerial /\ slots[i].observed = Zero
        <3>1. PICK r \in InitialRoles :
                slots = [k \in Slots |-> IF k = 0 THEN EmptySlot(TRUE, TRUE)
                                                  ELSE EmptySlot(r[1], r[2])]
            BY <1>1 DEF Init
        <3>2. slots[i] = EmptySlot(TRUE, TRUE) \/ slots[i] = EmptySlot(r[1], r[2])
            BY <3>1
        <3> QED
            BY <3>2 DEF EmptySlot
    <2>4. now \in Nat
        BY <1>1, InvParts DEF RestType
    <2> QED
        BY <2>1, <2>2, <2>3, <2>4 DEF Acquainted, Supplied, Zero
<1> QED
    BY <1>1, <1>2, <1>3, <1>4 DEF DualInv

LEMMA DualNextInv ==
    ASSUME DualInv, [DualNext]_allVars
    PROVE  DualInv'
<1>1. CASE PackStep
    BY <1>1, PackStepKeeps
<1>2. ASSUME NEW i \in Slots, ReaderStep(i) PROVE DualInv'
    <2>1. CASE ShouldIsolate(i) /\ UNCHANGED <<packVars, readVars>>
        BY <2>1, ServiceStepKeeps
    <2> QED
        BY <1>2, <2>1, DiscoverKeeps, LoseSightKeeps, BeginReadKeeps, CompleteReadKeeps,
           AbortReadKeeps, WriteOnKeeps, WriteOffKeeps DEF ReaderStep
<1>3. CASE Service /\ UNCHANGED <<packVars, readVars>>
    BY <1>3, ServiceStepKeeps
<1>4. CASE PackTick
    BY <1>4, PackTickKeeps
<1>5. CASE UNCHANGED allVars
    <2>1. UNCHANGED vars /\ UNCHANGED <<packVars, readVars>>
        BY <1>5 DEF allVars
    <2> QED
        BY <2>1, ServiceStepKeeps
<1> QED
    BY <1>1, <1>2, <1>3, <1>4, <1>5 DEF DualNext

(* A supply that the gate switched on loses its reservation in one way     *)
(* only: to a reading that was taken while the ON still waited on the tag  *)
(* and is judged by the time of its completion (observeLocked,             *)
(* admission.go:248-249).  For any packs, however slow to start, any reads *)
(* however early, through failed writes, refused commands, OFF commands,   *)
(* packs switching themselves off, stale tag memory and packs replaced at  *)
(* any moment (requestOn, noteTagPresent).                                 *)
THEOREM PowerStaysReserved == DualSpec => []ReservedUnlessMisled
<1>1. DualInit => DualInv
    BY DualInitInv
<1>2. DualInv /\ [DualNext]_allVars => DualInv'
    BY DualNextInv
<1>3. DualInv => ReservedUnlessMisled
    BY DEF DualInv, Supplied, Owned, ReservedUnlessMisled, Powered
<1> QED
    BY <1>1, <1>2, <1>3, PTL DEF DualSpec

-----------------------------------------------------------------------------
(* The rest of this module is about packs that stay in their bays: what a  *)
(* reading of one is worth then (TagsInv), that mismatched packs stay apart *)
(* (ApartInv), and that ending a mismatch leaves a supply (SupplyInv).     *)

(* What a step leaves of what the pack has shown: no reading becomes       *)
(* valid, no pack is taken for absent and none is forgotten.               *)
View(s, t) ==
    /\ t.frame = s.frame /\ t.haveFrame = s.haveFrame /\ t.written = s.written
    /\ (t.valid => s.valid) /\ (t.absent => s.absent) /\ (s.powerTracked => t.powerTracked)

OthersView(i) == \A j \in Slots \ {i} : View(slots[j], slots'[j])
AllView == \A j \in Slots : View(slots[j], slots'[j])

(* The pack has to show everything again. *)
Blind(s, t) ==
    /\ ~t.valid /\ ~t.haveFrame /\ t.written = Zero
    /\ s.powerTracked => t.powerTracked

LEMMA ForgetView ==
    ASSUME NEW ss \in [Slots -> SlotType]
    PROVE  \A j \in Slots : View(ss[j], Forget(ss)[j]) /\ View(ss[j], ss[j])
<1>1. ASSUME NEW s \in SlotType PROVE View(s, [s EXCEPT !.history = <<>>])
    BY DEF SlotType, View
<1>2. ASSUME NEW j \in Slots PROVE View(ss[j], Forget(ss)[j])
    <2>1. ss[j] \in SlotType /\ Forget(ss)[j] = [ss[j] EXCEPT !.history = <<>>]
        BY ForgetType
    <2> QED
        BY <1>1, <2>1
<1>3. \A j \in Slots : View(ss[j], ss[j])
    BY DEF View
<1> QED
    BY <1>2, <1>3

LEMMA ViewTrans ==
    ASSUME NEW s, NEW t, NEW u, View(t, u)
    PROVE  (View(s, t) => View(s, u)) /\ (Blind(s, t) => Blind(s, u))
BY DEF View, Blind

LEMMA OneSlotView ==
    ASSUME SlotsOK, NEW i \in Slots, NEW r \in SlotType,
           \/ slots' = [slots EXCEPT ![i] = r]
           \/ slots' = Forget([slots EXCEPT ![i] = r])
    PROVE  OthersView(i) /\ View(r, slots'[i])
<1> DEFINE ss == [slots EXCEPT ![i] = r]
<1>1. /\ ss \in [Slots -> SlotType] /\ ss[i] = r
      /\ \A j \in Slots \ {i} : ss[j] = slots[j]
    BY DEF SlotsOK
<1> HIDE DEF ss
<1>2. slots' = ss \/ slots' = Forget(ss)
    BY DEF ss
<1>3. \A j \in Slots : View(ss[j], slots'[j])
    BY <1>1, <1>2, ForgetView
<1> QED
    BY <1>1, <1>3 DEF OthersView

LEMMA TagView ==
    ASSUME Inv, NEW i \in Slots, NEW uid \in Uids, Tag(i, uid)
    PROVE  OthersView(i) /\ Blind(slots[i], slots'[i]) /\ ~slots'[i].absent
<1>1. SlotsOK /\ slots[i] \in SlotType
    BY InvParts DEF SlotsOK, SlotOK
<1> DEFINE q == slots[i].requiresAdmission \/ vehicle \in NonDriving
           same == [slots[i] EXCEPT !.valid = FALSE, !.haveFrame = FALSE,
                !.written = Zero, !.absent = FALSE, !.requiresAdmission = q]
           r == IF slots[i].uid = uid THEN same ELSE ReplaceIdentity(slots[i], uid)
<1>2. slots' = Forget([slots EXCEPT ![i] = r])
    BY DEF Tag
<1>3. q \in BOOLEAN
    OBVIOUS
<1> HIDE DEF q
<1>4. same \in SlotType
    BY <1>1, <1>3 DEF SlotType, Zero
<1>5. Blind(slots[i], same) /\ ~same.absent
    BY <1>1 DEF SlotType, Blind
<1>6. ReplaceIdentity(slots[i], uid) \in SlotType
    BY <1>1, ReplaceIdentityType
<1>7. LET f == ReplaceIdentity(slots[i], uid)
      IN  Blind(slots[i], f) /\ ~f.absent
    BY DEF ReplaceIdentity, EmptySlot, Blind
<1> HIDE DEF same
<1>8. r \in SlotType /\ Blind(slots[i], r) /\ ~r.absent
    BY <1>4, <1>5, <1>6, <1>7
<1> HIDE DEF r
<1>9. OthersView(i) /\ View(r, slots'[i])
    BY <1>1, <1>2, <1>8, OneSlotView
<1> QED
    BY <1>8, <1>9, ViewTrans DEF View

LEMMA AbsentView ==
    ASSUME Inv, NEW i \in Slots, NEW departed \in BOOLEAN, ObserveAbsent(i, departed)
    PROVE  OthersView(i) /\ Blind(slots[i], slots'[i])
<1>1. SlotsOK /\ slots[i] \in SlotType /\ now \in Nat
    BY InvParts DEF SlotsOK, SlotOK, RestType
<1> DEFINE q == slots[i].requiresAdmission \/ vehicle \in NonDriving
           a == ~slots[i].held
           r == [slots[i] EXCEPT !.valid = FALSE, !.haveFrame = FALSE,
                    !.written = Zero, !.observedRound = 0,
                    !.requiresAdmission = q, !.absent = a, !.observed = now]
<1>2. slots' = Forget([slots EXCEPT ![i] = r])
    BY DEF ObserveAbsent
<1>3. q \in BOOLEAN /\ a \in BOOLEAN
    OBVIOUS
<1> HIDE DEF q, a
<1>4. r \in SlotType
    BY <1>1, <1>3 DEF SlotType, Zero
<1>5. Blind(slots[i], r)
    BY <1>1 DEF SlotType, Blind
<1> HIDE DEF r
<1>6. OthersView(i) /\ View(r, slots'[i])
    BY <1>1, <1>2, <1>4, OneSlotView
<1> QED
    BY <1>5, <1>6, ViewTrans

LEMMA FailView ==
    ASSUME Inv, NEW i \in Slots, FailRead(i)
    PROVE  AllView
<1>1. SlotsOK /\ slots[i] \in SlotType
    BY InvParts DEF SlotsOK, SlotOK
<1> DEFINE r == [slots[i] EXCEPT !.valid = FALSE, !.absent = FALSE]
<1>2. slots' = Forget([slots EXCEPT ![i] = r])
    BY <1>1 DEF FailRead, SlotsOK
<1>3. r \in SlotType /\ View(slots[i], r)
    BY <1>1 DEF SlotType, View
<1> HIDE DEF r
<1>4. OthersView(i) /\ View(r, slots'[i])
    BY <1>1, <1>2, <1>3, OneSlotView
<1> QED
    BY <1>3, <1>4, ViewTrans DEF AllView, OthersView

LEMMA OnView ==
    ASSUME Inv, NEW i \in Slots, RequestOn(i)
    PROVE  AllView
<1>1. SlotsOK /\ slots[i] \in SlotType /\ now \in Nat
    BY InvParts DEF SlotsOK, SlotOK, RestType
<1> DEFINE g == Granted(slots[i])
           r == [g EXCEPT !.held = TRUE, !.onAt = now]
<1>2. g \in SlotType /\ View(slots[i], g)
    BY <1>1 DEF Granted, SlotType, View
<1> HIDE DEF g
<1>3. r \in SlotType /\ View(g, r)
    BY <1>1, <1>2 DEF SlotType, View
<1> HIDE DEF r
<1>4. \/ slots' = [slots EXCEPT ![i] = g] \/ slots' = Forget([slots EXCEPT ![i] = g])
      \/ slots' = Forget([slots EXCEPT ![i] = r])
    BY <1>1 DEF RequestOn, RepeatOn, RequalifyOn, ActivateOn, SlotsOK, g, r
<1>5. OthersView(i) /\ (View(g, slots'[i]) \/ View(r, slots'[i]))
    BY <1>1, <1>2, <1>3, <1>4, OneSlotView
<1> QED
    BY <1>2, <1>3, <1>5, ViewTrans DEF AllView, OthersView

LEMMA OffView ==
    ASSUME Inv, NEW i \in Slots, Off(i)
    PROVE  AllView
<1>1. SlotsOK /\ slots[i] \in SlotType /\ now \in Nat /\ SlotOK(i, slots[i])
    BY InvParts DEF SlotsOK, SlotOK, RestType
<1> DEFINE r == OffReserved(slots[i])
<1>2. slots' = Forget([slots EXCEPT ![i] = r])
    BY <1>1 DEF Off, SlotsOK
<1>3. r \in SlotType
    BY <1>1, OffReservedQuiet DEF Quiet, SlotOK
<1>4. View(slots[i], r)
    BY <1>1 DEF OffReserved, SlotType, View
<1> HIDE DEF r
<1>5. OthersView(i) /\ View(r, slots'[i])
    BY <1>1, <1>2, <1>3, OneSlotView
<1> QED
    BY <1>4, <1>5, ViewTrans DEF AllView, OthersView

LEMMA ServiceView ==
    ASSUME Inv, \/ Service \/ Tick \/ UNCHANGED slots
    PROVE  AllView
<1>1. SlotsOK
    BY InvParts
<1>2. CASE slots' = slots \/ slots' = Forget(slots)
    BY <1>1, <1>2, ForgetView DEF SlotsOK, AllView
<1>3. ASSUME NEW closed \in BOOLEAN, SetSeatbox(closed) PROVE AllView
    <2> DEFINE q(j) == slots[j].requiresAdmission \/ ~slots[j].held \/ ~slots[j].active
               r(j) == [slots[j] EXCEPT !.valid = FALSE, !.observedRound = 0,
                                        !.requiresAdmission = q(j)]
               ss == [j \in Slots |-> r(j)]
    <2>1. slots' = Forget(ss)
        BY <1>1, <1>3 DEF SetSeatbox, SlotsOK, SlotType
    <2>2. \A j \in Slots : q(j) \in BOOLEAN
        OBVIOUS
    <2> HIDE DEF q
    <2>3. ASSUME NEW j \in Slots PROVE r(j) \in SlotType /\ View(slots[j], r(j))
        <3>1. slots[j] \in SlotType /\ q(j) \in BOOLEAN
            BY <1>1, <2>2 DEF SlotsOK
        <3>2. r(j) \in SlotType
            BY <3>1 DEF SlotType
        <3>3. View(slots[j], r(j))
            BY <3>1 DEF SlotType, View
        <3> QED
            BY <3>2, <3>3
    <2> HIDE DEF r
    <2>4. ss \in [Slots -> SlotType] /\ \A j \in Slots : View(slots[j], ss[j])
        BY <2>3
    <2> HIDE DEF ss
    <2>5. \A j \in Slots : View(ss[j], slots'[j])
        BY <2>1, <2>4, ForgetView
    <2> QED
        BY <2>4, <2>5, ViewTrans DEF AllView
<1>4. ASSUME NEW eligible \in BOOLEAN, SetRole(eligible) PROVE AllView
    <2> DEFINE p == slots[1].powerTracked \/ eligible
               r == [slots[1] EXCEPT !.eligible = eligible, !.powerTracked = p]
    <2>1. 1 \in Slots /\ slots[1] \in SlotType
        BY <1>1 DEF Slots, SlotsOK
    <2>2. slots' = Forget([slots EXCEPT ![1] = r])
        <3>1. [slots EXCEPT ![1] = r]
              = [slots EXCEPT ![1].eligible = eligible, ![1].powerTracked = @ \/ eligible]
            BY <1>1, <2>1 DEF SlotsOK, SlotType
        <3> QED
            BY <1>4, <3>1 DEF SetRole
    <2>3. r \in SlotType /\ View(slots[1], r)
        BY <2>1 DEF SlotType, View
    <2> HIDE DEF r
    <2>4. OthersView(1) /\ View(r, slots'[1])
        BY <1>1, <2>1, <2>2, <2>3, OneSlotView
    <2> QED
        BY <2>3, <2>4, ViewTrans DEF AllView, OthersView
<1>5. \/ slots' = slots \/ slots' = Forget(slots)
      \/ \E closed \in BOOLEAN : SetSeatbox(closed)
      \/ \E eligible \in BOOLEAN : SetRole(eligible)
    BY Zenon
    DEF Service, BeginRound, StopSampling, ResetMotionStream, ReceiveMotion, SetVehicle,
        SetMaxDelta, Tick, evidence
<1> QED
    BY <1>2, <1>3, <1>4, <1>5

(* What a reading of the known pack adds. *)
LEMMA RecordedView ==
    ASSUME NEW s \in SlotType, NEW data \in FrameType, NEW t \in Nat, ~IdentityChanged(s, data)
    PROVE  LET seen == Recorded(s, data, t)
               changed == s.haveFrame /\ statusFrameChanged(s.frame, data)
           IN  /\ seen.frame = data /\ ~seen.absent
               /\ seen.written = IF changed THEN t ELSE s.written
               /\ s.powerTracked => seen.powerTracked
               /\ seen.valid => data.voltage > 0 /\ seen.written # Zero
<1> DEFINE changed == s.haveFrame /\ statusFrameChanged(s.frame, data)
           written == IF changed THEN t ELSE s.written
           valid == /\ data.present /\ data.voltage > 0
                    /\ data.state \in {"active", "idle", "asleep"}
                    /\ written # Zero
           tracked == s.powerTracked \/ data.state = "active"
           serial == IF data.serial = NoSerial THEN s.serial ELSE data.serial
           record(p, c, w, v) == [s EXCEPT
                !.powerTracked = p, !.serial = c, !.written = w,
                !.frame = data, !.haveFrame = TRUE, !.observed = t,
                !.absent = FALSE, !.valid = v]
<1>1. Recorded(s, data, t) = record(tracked, serial, written, valid)
    BY DEF Recorded
<1>2. ASSUME NEW p, NEW c, NEW w, NEW v
      PROVE  /\ record(p, c, w, v).frame = data /\ record(p, c, w, v).absent = FALSE
             /\ record(p, c, w, v).written = w /\ record(p, c, w, v).powerTracked = p
             /\ record(p, c, w, v).valid = v
    BY DEF SlotType
<1>3. (s.powerTracked => tracked) /\ (valid => data.voltage > 0 /\ written # Zero)
    OBVIOUS
<1> DEFINE seen == Recorded(s, data, t)
<1>4. /\ seen.frame = data /\ seen.absent = FALSE /\ seen.written = written
      /\ seen.powerTracked = tracked /\ seen.valid = valid
    BY <1>1, <1>2
<1> HIDE DEF seen, valid, tracked, serial, record
<1>5. /\ seen.frame = data /\ ~seen.absent /\ seen.written = written
      /\ (s.powerTracked => seen.powerTracked)
      /\ (seen.valid => data.voltage > 0 /\ seen.written # Zero)
    BY <1>3, <1>4
<1> QED
    BY <1>5 DEF seen

-----------------------------------------------------------------------------
(* What a reading is worth when nobody exchanges a pack. *)

NoSwaps == \A w \in Worlds : "swap" \notin w.events

(* A pack somebody switched on runs or still has its ON to read, and one   *)
(* that is off says so on its tag as soon as it has written to it.         *)
TagsHonest ==
    \A p \in Packs :
        /\ origin[p] # "none" => p \in live \/ mailbox[p] = "on"
        /\ p \notin live /\ memory[p].state = "active" => memory[p].stale

(* As long as the pack has not written to its tag nothing has changed      *)
(* there, and no reading counts.                                           *)
StaleKnown(j) ==
    bay[j] # NoPack /\ memory[bay[j]].stale =>
        /\ slots[j].written = Zero
        /\ slots[j].haveFrame => slots[j].frame = TagFrame(bay[j])
        /\ sampled[j].done => sampled[j].frame = TagFrame(bay[j])

(* A pack that nobody here switched on runs, and a read of it says so. *)
Inherited(j) == bay[j] # NoPack /\ bay[j] \in live /\ origin[bay[j]] = "none"

InheritedShown(j) == Inherited(j) /\ sampled[j].done => sampled[j].frame.state = "active"

(* The read in progress will find the pack running. *)
Shows(j) ==
    /\ sampled[j].done /\ sampled[j].frame.state = "active"
    /\ \/ slots[j].written # Zero
       \/ slots[j].haveFrame /\ statusFrameChanged(slots[j].frame, sampled[j].frame)

TagsInv ==
    /\ DualInv /\ misled = {} /\ TagsHonest
    /\ \A j \in Slots : StaleKnown(j) /\ InheritedShown(j)

-----------------------------------------------------------------------------
(* The steps, by what they do to the packs and to what is known of them.   *)

LEMMA OtherSlot == \A i \in Slots : Other(i) \in Slots /\ Other(i) # i /\ Other(Other(i)) = i
BY DEF Other, Slots

(* Pack q gets no more reason to run. *)
Calm(q) ==
    /\ q \in live' /\ origin'[q] = "none" => q \in live /\ origin[q] = "none"
    /\ memory'[q].stale => memory'[q] = memory[q]
    /\ q \in live' \/ mailbox'[q] = "on" => q \in live \/ mailbox[q] = "on"
    /\ origin'[q] = "new" => origin[q] = "new"
    /\ origin'[q] # "none" => q \in live' \/ mailbox'[q] = "on"
    /\ q \notin live' /\ memory'[q].state = "active" => memory'[q].stale

(* A read in progress goes on or ends. *)
SampleKept(j) == sampled'[j] = sampled[j] \/ ~sampled'[j].done

(* A step that neither starts a pack nor learns anything of one. *)
CalmStep ==
    /\ world' = world /\ bay' = bay /\ \A q \in Packs : Calm(q)
    /\ \A j \in Slots : /\ View(slots[j], slots'[j]) /\ SampleKept(j)
                        /\ slots'[j].held = slots[j].held

(* Packs act, refuse or stop by themselves. *)
LEMMA PackStepCalm ==
    ASSUME NoSwaps, DualInv, TagsHonest, PackStep
    PROVE  CalmStep /\ UNCHANGED vars
<1>1. /\ PackTypes /\ PacksSound /\ "swap" \notin world.events
    BY DEF DualInv, PackTypes, NoSwaps
<1>2. PICK p \in Packs : Obey(p) \/ Refuse(p) \/ Die(p)
    BY <1>1 DEF PackStep, Remove, Insert
<1>3. UNCHANGED <<vars, world, bay, sampled>>
    BY <1>2 DEF Obey, Refuse, Die, readVars
<1>4. slots' = slots /\ sampled' = sampled
    BY <1>3 DEF vars
<1>5. ~Written(p, "idle").stale /\ Written(p, "idle").state = "idle" /\ ~Written(p, "active").stale
    BY DEF Written
<1>6. /\ live \subseteq Packs /\ memory \in [Packs -> MemoryType]
      /\ origin \in [Packs -> {"none", "kept", "new"}]
      /\ mailbox \in [Packs -> {"none", "on", "off"}]
      /\ mailbox[p] = "on" => origin[p] # "none"
      /\ origin[p] # "none" => p \in live \/ mailbox[p] = "on"
    BY <1>1 DEF PackTypes, PacksSound, TagsHonest
<1>7. ASSUME NEW q \in Packs PROVE Calm(q)
    <2>1. CASE q # p
        <3>1. /\ q \in live' <=> q \in live
              /\ origin'[q] = origin[q] /\ mailbox'[q] = mailbox[q] /\ memory'[q] = memory[q]
            <4>1. CASE Obey(p)
                BY <1>6, <2>1, <4>1 DEF Obey, SwitchOff
            <4>2. CASE Refuse(p)
                BY <1>6, <2>1, <4>2 DEF Refuse
            <4>3. CASE Die(p)
                BY <1>6, <2>1, <4>3 DEF Die, SwitchOff
            <4> QED
                BY <1>2, <4>1, <4>2, <4>3
        <3> QED
            BY <1>1, <3>1 DEF Calm, TagsHonest
    <2>2. CASE q = p
        <3>1. CASE Obey(p) /\ mailbox[p] = "on"
            <4>1. /\ mailbox'[p] = "none" /\ p \in live' /\ origin' = origin
                  /\ memory'[p] = Written(p, "active")
                BY <1>6, <3>1 DEF Obey
            <4> QED
                BY <1>5, <1>6, <2>2, <3>1, <4>1 DEF Calm
        <3>2. CASE Obey(p) /\ mailbox[p] # "on"
            <4>1. /\ mailbox'[p] = "none" /\ p \notin live' /\ origin'[p] = "none"
                  /\ memory'[p] = Written(p, "idle")
                BY <1>6, <3>2 DEF Obey, SwitchOff
            <4> QED
                BY <1>5, <2>2, <4>1 DEF Calm
        <3>3. CASE Refuse(p)
            <4>1. /\ mailbox'[p] = "none" /\ live' = live /\ memory' = memory
                  /\ origin'[p] = IF p \in live THEN origin[p] ELSE "none"
                BY <1>6, <3>3 DEF Refuse
            <4> QED
                BY <1>1, <2>2, <4>1 DEF Calm, TagsHonest
        <3>4. CASE Die(p)
            <4>1. /\ mailbox' = mailbox /\ p \notin live' /\ p \in live
                  /\ memory'[p] = Written(p, "idle")
                  /\ origin'[p] = IF mailbox[p] = "on" THEN origin[p] ELSE "none"
                BY <1>6, <3>4 DEF Die, SwitchOff
            <4> QED
                BY <1>5, <2>2, <4>1 DEF Calm
        <3> QED
            BY <1>2, <3>1, <3>2, <3>3, <3>4
    <2> QED
        BY <2>1, <2>2
<1>8. \A j \in Slots : View(slots[j], slots'[j]) /\ SampleKept(j) /\ slots'[j].held = slots[j].held
    BY <1>4 DEF View, SampleKept
<1> QED
    BY <1>3, <1>7, <1>8 DEF CalmStep

LEMMA StillCalm ==
    ASSUME TagsHonest, UNCHANGED packVars, NEW q \in Packs
    PROVE  Calm(q)
BY DEF TagsHonest, packVars, Calm

(* The service, and a request that only reconciles. *)
LEMMA ServiceCalm ==
    ASSUME DualInv, TagsHonest, UNCHANGED <<packVars, readVars>>,
           Service \/ (\E i \in Slots : ShouldIsolate(i)) \/ UNCHANGED vars
    PROVE  CalmStep /\ AllSame
<1>1. Inv
    BY DEF DualInv
<1>2. UNCHANGED vars \/ (\E i \in Slots : ShouldIsolate(i)) => slots' = slots
    BY DEF vars, ShouldIsolate
<1>3. AllView
    BY <1>1, <1>2, ServiceView
<1>4. AllSame
    <2>1. CASE Service
        BY <1>1, <2>1, ServiceSame
    <2>2. CASE slots' = slots
        BY <2>2 DEF AllSame, Same, Keeps
    <2> QED
        BY <1>2, <2>1, <2>2
<1>5. \A j \in Slots : View(slots[j], slots'[j]) /\ SampleKept(j) /\ slots'[j].held = slots[j].held
    BY <1>3, <1>4 DEF AllView, AllSame, SampleKept, Same, Keeps, readVars
<1>6. \A q \in Packs : Calm(q)
    BY StillCalm
<1> QED
    BY <1>4, <1>5, <1>6 DEF CalmStep, packVars

(* A unit of time: the packs write what they do to their tags. *)
LEMMA PackTickCalm ==
    ASSUME TagsHonest, PackTick
    PROVE  CalmStep /\ slots' = slots
<1>1. Tick /\ UNCHANGED <<world, bay, live, origin, mailbox, sampled>>
    BY DEF PackTick, readVars
<1>2. slots' = slots
    BY <1>1 DEF Tick
<1>3. ASSUME NEW q \in Packs PROVE Calm(q)
    <2>1. \/ memory'[q] = memory[q]
          \/ memory'[q] = Written(q, PowerState(q))
        BY DEF PackTick
    <2>2. /\ ~Written(q, PowerState(q)).stale
          /\ q \notin live => Written(q, PowerState(q)).state = "idle"
        BY DEF Written, PowerState
    <2> QED
        BY <1>1, <2>1, <2>2 DEF Calm, TagsHonest
<1>4. \A j \in Slots : View(slots[j], slots'[j]) /\ SampleKept(j) /\ slots'[j].held = slots[j].held
    BY <1>1, <1>2 DEF View, SampleKept
<1> QED
    BY <1>1, <1>2, <1>3, <1>4 DEF CalmStep

LEMMA AbortReadCalm ==
    ASSUME DualInv, TagsHonest, NEW i \in Slots, AbortRead(i)
    PROVE  CalmStep /\ AllSame /\ UNCHANGED packVars
<1>1. Inv /\ PackTypes
    BY DEF DualInv
<1>2. FailRead(i) /\ UNCHANGED packVars /\ sampled' = [sampled EXCEPT ![i] = NoFrame]
    BY DEF AbortRead
<1>3. AllView /\ AllSame
    BY <1>1, <1>2, FailView, FailSlots
<1>4. \A j \in Slots : SampleKept(j)
    BY <1>1, <1>2 DEF PackTypes, SampleKept, NoFrame
<1>5. \A j \in Slots : View(slots[j], slots'[j]) /\ SampleKept(j) /\ slots'[j].held = slots[j].held
    BY <1>3, <1>4 DEF AllView, AllSame, Same, Keeps
<1>6. \A q \in Packs : Calm(q)
    BY <1>2, StillCalm
<1> QED
    BY <1>2, <1>3, <1>5, <1>6 DEF CalmStep, packVars

LEMMA WriteOffCalm ==
    ASSUME DualInv, TagsHonest, NEW i \in Slots, WriteOff(i)
    PROVE  CalmStep
<1> DEFINE p == bay[i]
<1>1. Inv /\ PackTypes
    BY DEF DualInv
<1>2. /\ Off(i) /\ UNCHANGED <<world, bay, live, memory, sampled>>
    BY DEF WriteOff, OffAttempt, IsolationOffAttempt, readVars
<1>3. AllView /\ OthersSame(i) /\ slots'[i].held = slots[i].held
    BY <1>1, <1>2, OffView, OffSlots
<1>4. \A j \in Slots : View(slots[j], slots'[j]) /\ SampleKept(j) /\ slots'[j].held = slots[j].held
    BY <1>2, <1>3 DEF AllView, OthersSame, Same, Keeps, SampleKept
<1>5. ASSUME NEW q \in Packs PROVE Calm(q)
    <2>1. CASE UNCHANGED <<mailbox, origin>>
        BY <1>2, <2>1, StillCalm DEF packVars
    <2>2. CASE ~UNCHANGED <<mailbox, origin>>
        <3>1. /\ p # NoPack /\ mailbox' = [mailbox EXCEPT ![p] = "off"]
              /\ origin' = IF p \in live THEN origin ELSE [origin EXCEPT ![p] = "none"]
            BY <2>2 DEF WriteOff, InTouch
        <3>2. p \in Packs
            BY <1>1, <3>1 DEF PackTypes
        <3>3. CASE q = p
            <4>1. /\ mailbox'[p] = "off"
                  /\ origin'[p] = IF p \in live THEN origin[p] ELSE "none"
                BY <1>1, <3>1, <3>2 DEF PackTypes
            <4> QED
                BY <1>1, <1>2, <3>3, <4>1 DEF Calm, TagsHonest
        <3>4. CASE q # p
            <4>1. mailbox'[q] = mailbox[q] /\ origin'[q] = origin[q]
                BY <1>1, <3>1, <3>4 DEF PackTypes
            <4> QED
                BY <1>1, <1>2, <4>1 DEF Calm, TagsHonest
        <3> QED
            BY <3>3, <3>4
    <2> QED
        BY <2>1, <2>2
<1> QED
    BY <1>2, <1>4, <1>5 DEF CalmStep

(* The pack of slot i has to show everything again. *)
BlindStep(i) ==
    /\ UNCHANGED <<packVars, sampled>> /\ ~sampled[i].done
    /\ OthersView(i) /\ Blind(slots[i], slots'[i])
    /\ \A j \in Slots : /\ slots'[j].held = slots[j].held
                        /\ slots'[j].offPending = slots[j].offPending
                        /\ slots'[j].active => slots[j].active
    /\ slots'[i].absent => "absent" \in world.events

LEMMA DiscoverBlind ==
    ASSUME DualInv, NEW i \in Slots, Discover(i)
    PROVE  BlindStep(i)
<1>1. Inv /\ PackTypes /\ Acquainted(i)
    BY DEF DualInv
<1>2. /\ bay[i] \in Uids /\ Tag(i, bay[i]) /\ ~reading[i].busy
      /\ UNCHANGED <<packVars, sampled>>
    BY <1>1, PacksAssumption DEF Discover, PackTypes, readVars
<1>3. /\ OthersView(i) /\ Blind(slots[i], slots'[i]) /\ ~slots'[i].absent
      /\ OthersSame(i) /\ ~sampled[i].done
    BY <1>1, <1>2, TagView, TagSlots DEF Acquainted
<1>4. /\ slots'[i].held = slots[i].held /\ slots'[i].offPending = slots[i].offPending
      /\ slots'[i].active => slots[i].active
    <2>1. CASE slots[i].uid = bay[i]
        BY <1>1, <1>2, <2>1, TagSlots DEF Same, Keeps
    <2>2. CASE slots[i].uid # bay[i]
        <3>1. slots' = Forget([slots EXCEPT ![i] = ReplaceIdentity(slots[i], bay[i])])
            BY <1>2, <2>2 DEF Tag
        <3>2. SlotsOK /\ slots[i] \in SlotType /\ ReplaceIdentity(slots[i], bay[i]) \in SlotType
            BY <1>1, <1>2, InvParts, ReplaceIdentityType DEF SlotsOK
        <3>3. Same(ReplaceIdentity(slots[i], bay[i]), slots'[i])
            BY <3>1, <3>2, OneSlotSame
        <3>4. LET f == ReplaceIdentity(slots[i], bay[i])
              IN  f.held = slots[i].held /\ f.offPending = slots[i].offPending /\ ~f.active
            BY DEF ReplaceIdentity, EmptySlot
        <3> QED
            BY <3>3, <3>4 DEF Same, Keeps
    <2> QED
        BY <2>1, <2>2
<1> QED
    BY <1>2, <1>3, <1>4 DEF BlindStep, OthersSame, Same, Keeps

LEMMA LoseSightBlind ==
    ASSUME DualInv, NEW i \in Slots, NEW departed \in BOOLEAN, LoseSight(i, departed)
    PROVE  BlindStep(i)
<1>1. Inv /\ PackTypes /\ Acquainted(i)
    BY DEF DualInv
<1>2. /\ ObserveAbsent(i, departed) /\ ~reading[i].busy /\ UNCHANGED <<packVars, sampled>>
      /\ "absent" \in world.events
    BY DEF LoseSight, ObserveAbsent, Idle, readVars
<1>3. /\ OthersView(i) /\ Blind(slots[i], slots'[i]) /\ ~sampled[i].done
      /\ OthersSame(i) /\ SameCommands(slots[i], slots'[i])
    BY <1>1, <1>2, AbsentView, AbsentSlots DEF Acquainted
<1> QED
    BY <1>2, <1>3 DEF BlindStep, OthersSame, Same, SameCommands, Keeps

LEMMA TagFrameSame ==
    ASSUME NEW p, world' = world, memory'[p] = memory[p]
    PROVE  TagFrame(p)' = TagFrame(p)
BY DEF TagFrame

(* The tag is sampled. *)
SampleStep(i) ==
    /\ UNCHANGED packVars /\ slots' = slots
    /\ bay[i] # NoPack /\ bay[i] \in Packs
    /\ sampled'[i].done /\ sampled'[i].frame = TagFrame(bay[i])
    /\ sampled'[i].frame.state = memory[bay[i]].state
    /\ \A j \in Slots \ {i} : sampled'[j] = sampled[j]

LEMMA BeginReadSample ==
    ASSUME DualInv, NEW i \in Slots, BeginRead(i)
    PROVE  SampleStep(i)
<1> DEFINE f == TagFrame(bay[i])
           x == [done |-> TRUE, early |-> mailbox[bay[i]] = "on", at |-> now, frame |-> f]
<1>1. PackTypes
    BY DEF DualInv
<1>2. /\ bay[i] # NoPack /\ StartRead(i) /\ UNCHANGED packVars
      /\ sampled' = [sampled EXCEPT ![i] = x]
    BY DEF BeginRead, InTouch
<1>3. bay[i] \in Packs /\ slots' = slots
    BY <1>1, <1>2 DEF PackTypes, StartRead
<1>4. f.state = memory[bay[i]].state
    BY <1>1, <1>3, TagFrameType
<1> HIDE DEF f
<1>5. sampled'[i] = x /\ \A j \in Slots \ {i} : sampled'[j] = sampled[j]
    BY <1>1, <1>2 DEF PackTypes
<1> QED
    BY <1>2, <1>3, <1>4, <1>5 DEF SampleStep, f

(* A sample of a pack that is off shows it running only if the tag is an   *)
(* old one, and then it does not count.                                    *)
LEMMA SampleOfRunning ==
    ASSUME TagsInv, NEW i \in Slots, SampleStep(i), bay[i] \notin live
    PROVE  ~Shows(i)'
<1> DEFINE p == bay[i]
           f == TagFrame(bay[i])
<1> SUFFICES ASSUME f.state = "active", memory[p].state = "active" PROVE ~Shows(i)'
    BY DEF SampleStep, Shows
<1>1. memory[p].stale
    BY DEF TagsInv, TagsHonest, SampleStep
<1>2. slots[i].written = Zero /\ (slots[i].haveFrame => slots[i].frame = f)
    BY <1>1 DEF TagsInv, StaleKnown, SampleStep
<1>3. ~statusFrameChanged(f, f)
    BY DEF statusFrameChanged
<1> QED
    BY <1>2, <1>3 DEF SampleStep, Shows

LEMMA ResolvedHeld ==
    ASSUME NEW s \in SlotType, NEW t \in Nat
    PROVE  LET r == Resolved(s, t)
           IN  /\ r.held => s.held \/ (s.valid /\ s.frame.state = "active")
               /\ r.active => s.active \/ (s.valid /\ s.frame.state = "active")
               /\ s.valid /\ s.frame.state = "active" => r.held
               /\ r.offPending # s.offPending =>
                     ~r.held /\ ~r.offPending /\ s.frame.state # "active"
<1>1. CASE s.valid /\ s.frame.state = "active"
    <2>1. Resolved(s, t).held /\ Resolved(s, t).offPending = s.offPending
        BY <1>1 DEF Resolved, SlotType
    <2> QED
        BY <1>1, <2>1
<1>2. CASE ~(s.valid /\ s.frame.state = "active") /\ OffEvidence(s, t)
    <2>1. /\ ~Resolved(s, t).held /\ ~Resolved(s, t).active /\ ~Resolved(s, t).offPending
          /\ s.frame.state # "active"
        BY <1>2 DEF Resolved, OffEvidence, SlotType
    <2> QED
        BY <2>1
<1>3. CASE ~(s.valid /\ s.frame.state = "active") /\ ~OffEvidence(s, t)
    <2>1. Resolved(s, t) = s
        BY <1>3 DEF Resolved
    <2> QED
        BY <1>3, <2>1
<1> QED
    BY <1>1, <1>2, <1>3

(* A completed read: what was sampled is what the slot holds, and the slot *)
(* is taken for running only if the sample Shows it.                       *)
ReadStep(i) ==
    LET s == slots[i]
        t == slots'[i]
        data == sampled[i].frame
    IN  /\ UNCHANGED packVars /\ sampled[i].done /\ ~sampled'[i].done
        /\ \A j \in Slots \ {i} : sampled'[j] = sampled[j] /\ Twin(slots[j], slots'[j])
        /\ t.frame = data /\ ~t.absent /\ (s.powerTracked => t.powerTracked)
        /\ t.written = IF s.haveFrame /\ statusFrameChanged(s.frame, data)
                       THEN now ELSE s.written
        /\ t.held => s.held \/ Shows(i)
        /\ t.valid /\ data.state = "active" => t.held
        /\ t.active => s.active \/ Shows(i)
        /\ t.offPending # s.offPending => ~t.held /\ ~t.offPending /\ data.state # "active"

LEMMA CompleteReadStep ==
    ASSUME DualInv, NEW i \in Slots, CompleteRead(i)
    PROVE  ReadStep(i)
<1> DEFINE data == sampled[i].frame
           at == sampled[i].at
           s == slots[i]
           t == slots'[i]
           changed == s.haveFrame /\ statusFrameChanged(s.frame, data)
           seen == Recorded(slots[i], data, now)
           res == Resolved(seen, now)
<1>1. /\ Inv /\ SlotsOK /\ RestType /\ PackTypes /\ Acquainted(i)
    BY InvParts DEF DualInv
<1>2. /\ FinishRead(i, data, at, at) /\ UNCHANGED packVars
      /\ sampled' = [sampled EXCEPT ![i] = NoFrame] /\ sampled[i].done
    BY DEF CompleteRead
<1>3. /\ data \in FrameType /\ s \in SlotType /\ SlotOK(i, s) /\ now \in Nat
    BY <1>1 DEF PackTypes, TagSample, SlotsOK, SlotOK, RestType
<1>4. /\ ~sampled'[i].done /\ \A j \in Slots \ {i} : sampled'[j] = sampled[j]
    BY <1>1, <1>2 DEF PackTypes, NoFrame
<1>5. /\ \A j \in Slots \ {i} : Twin(slots[j], slots'[j])
      /\ Keeps(res, t) /\ t.valid = seen.valid
      /\ SameView(seen, t)
    BY <1>1, <1>2, <1>3, FinishReadSlots
<1>6. ~IdentityChanged(s, data)
    BY <1>1, <1>2 DEF Acquainted, IdentityChanged
<1>7. seen \in SlotType /\ Keeps(s, seen)
    <2>1. Quiet(i, s, seen)
        BY <1>3, RecordedFields, ZenonT(60)
    <2>2. Keeps(s, seen)
        BY <1>3, <1>6, RecordedKind
    <2> QED
        BY <2>1, <2>2 DEF Quiet, SlotOK
<1>8. /\ seen.frame = data /\ ~seen.absent
      /\ seen.written = IF changed THEN now ELSE s.written
      /\ s.powerTracked => seen.powerTracked
      /\ seen.valid => seen.written # Zero
    BY <1>3, <1>6, RecordedView
<1> HIDE DEF seen
<1>9. /\ res.held => seen.held \/ (seen.valid /\ data.state = "active")
      /\ res.active => seen.active \/ (seen.valid /\ data.state = "active")
      /\ seen.valid /\ data.state = "active" => res.held
      /\ res.offPending # seen.offPending => ~res.held /\ ~res.offPending /\ data.state # "active"
    BY <1>3, <1>7, <1>8, ResolvedHeld
<1> HIDE DEF res
<1>10. seen.valid /\ data.state = "active" => Shows(i)
    BY <1>2, <1>8 DEF Shows
<1>11. /\ t.held = res.held /\ t.active = res.active /\ t.offPending = res.offPending
       /\ seen.held = s.held /\ seen.active = s.active /\ seen.offPending = s.offPending
    BY <1>5, <1>7 DEF Keeps
<1>12. /\ t.held => s.held \/ Shows(i)
       /\ t.valid /\ data.state = "active" => t.held
       /\ t.active => s.active \/ Shows(i)
       /\ t.offPending # s.offPending => ~t.held /\ ~t.offPending /\ data.state # "active"
    BY <1>5, <1>9, <1>10, <1>11
<1>13. /\ t.frame = data /\ ~t.absent /\ (s.powerTracked => t.powerTracked)
       /\ t.written = IF changed THEN now ELSE s.written
    BY <1>5, <1>8 DEF SameView
<1> QED
    BY <1>2, <1>4, <1>5, <1>12, <1>13 DEF ReadStep

(* An ON is written, or reserved and not written. *)
OnStep(i) ==
    /\ UNCHANGED <<world, bay, live, memory, sampled>>
    /\ AllView /\ OthersSame(i) /\ slots'[i].held
    /\ Admitted(reconcile, i) \/ (slots[i].held /\ slots[i].active)
    /\ \A q \in Packs \ {bay[i]} : mailbox'[q] = mailbox[q] /\ origin'[q] = origin[q]
    /\ \/ mailbox' = mailbox /\ origin' = origin
       \/ /\ bay[i] \in Packs /\ mailbox'[bay[i]] = "on"
          /\ origin'[bay[i]] =
                IF slots[i].active /\ origin[bay[i]] # "new" THEN "kept" ELSE "new"

LEMMA WriteOnStep ==
    ASSUME DualInv, NEW i \in Slots, WriteOn(i)
    PROVE  OnStep(i)
<1> DEFINE p == bay[i]
<1>1. Inv /\ PackTypes
    BY DEF DualInv
<1>2. /\ RequestOn(i) /\ UNCHANGED <<world, bay, live, memory, sampled>>
    BY DEF WriteOn
<1>3. AllView /\ OthersSame(i) /\ slots'[i].held
    BY <1>1, <1>2, OnView, OnSlots
<1>4. Admitted(reconcile, i) \/ (slots[i].held /\ slots[i].active)
    BY <1>2
    DEF RequestOn, RepeatOn, RequalifyOn, ActivateOn, Established, MaintainHandover, Running
<1>5. CASE UNCHANGED <<mailbox, origin>>
    BY <1>2, <1>3, <1>4, <1>5 DEF OnStep
<1>6. CASE ~UNCHANGED <<mailbox, origin>>
    <2>1. /\ p # NoPack /\ mailbox' = [mailbox EXCEPT ![p] = "on"]
          /\ origin' = [origin EXCEPT ![p] =
                           IF slots[i].active /\ @ # "new" THEN "kept" ELSE "new"]
        BY <1>6 DEF WriteOn, InTouch
    <2>2. p \in Packs
        BY <1>1, <2>1 DEF PackTypes
    <2>3. /\ \A q \in Packs \ {p} : mailbox'[q] = mailbox[q] /\ origin'[q] = origin[q]
          /\ mailbox'[p] = "on"
          /\ origin'[p] = IF slots[i].active /\ origin[p] # "new" THEN "kept" ELSE "new"
        BY <1>1, <2>1, <2>2 DEF PackTypes
    <2> QED
        BY <1>2, <1>3, <1>4, <2>2, <2>3 DEF OnStep
<1> QED
    BY <1>5, <1>6

-----------------------------------------------------------------------------
(* TagsInv is kept. *)

LEMMA ShowsKept ==
    ASSUME NEW j \in Slots, View(slots[j], slots'[j]), SampleKept(j), Shows(j)'
    PROVE  Shows(j)
BY DEF View, SampleKept, Shows

(* What is known of a slot whose reader learns nothing. *)
LEMMA TagsKept ==
    ASSUME PackTypes, NEW j \in Slots, StaleKnown(j), InheritedShown(j),
           View(slots[j], slots'[j]), SampleKept(j), world' = world, bay' = bay,
           bay[j] # NoPack =>
              /\ memory'[bay[j]].stale => memory'[bay[j]] = memory[bay[j]]
              /\ bay[j] \in live' /\ origin'[bay[j]] = "none" =>
                    bay[j] \in live /\ origin[bay[j]] = "none"
    PROVE  StaleKnown(j)' /\ InheritedShown(j)'
<1>1. StaleKnown(j)'
    <2> SUFFICES ASSUME bay[j] # NoPack, memory'[bay[j]].stale PROVE StaleKnown(j)'
        BY DEF StaleKnown
    <2>1. memory'[bay[j]] = memory[bay[j]]
        OBVIOUS
    <2>2. TagFrame(bay[j])' = TagFrame(bay[j])
        BY <2>1, TagFrameSame
    <2> QED
        BY <2>1, <2>2 DEF StaleKnown, View, SampleKept
<1>2. InheritedShown(j)'
    BY DEF InheritedShown, Inherited, SampleKept
<1> QED
    BY <1>1, <1>2

LEMMA CalmTags ==
    ASSUME TagsInv, DualInv', misled' = {}, CalmStep
    PROVE  TagsInv'
<1>1. PackTypes
    BY DEF TagsInv, DualInv
<1>2. ASSUME NEW j \in Slots PROVE StaleKnown(j)' /\ InheritedShown(j)'
    <2>1. bay[j] # NoPack => Calm(bay[j])
        BY <1>1 DEF CalmStep, PackTypes
    <2>2. /\ StaleKnown(j) /\ InheritedShown(j) /\ View(slots[j], slots'[j]) /\ SampleKept(j)
          /\ world' = world /\ bay' = bay
        BY DEF TagsInv, CalmStep
    <2> QED
        BY <1>1, <2>1, <2>2, TagsKept DEF Calm
<1>3. TagsHonest'
    BY DEF CalmStep, Calm, TagsHonest
<1> QED
    BY <1>2, <1>3 DEF TagsInv

(* A step of one reader that leaves the packs alone. *)
LEMMA OneReaderTags ==
    ASSUME TagsInv, DualInv', misled' = {}, NEW i \in Slots, UNCHANGED packVars, OthersView(i),
           \A j \in Slots \ {i} : sampled'[j] = sampled[j],
           StaleKnown(i)', InheritedShown(i)'
    PROVE  TagsInv'
<1>1. PackTypes /\ UNCHANGED <<world, bay, live, origin, mailbox, memory>>
    BY DEF TagsInv, DualInv, packVars
<1>2. ASSUME NEW j \in Slots \ {i} PROVE StaleKnown(j)' /\ InheritedShown(j)'
    <2>1. StaleKnown(j) /\ InheritedShown(j) /\ View(slots[j], slots'[j]) /\ SampleKept(j)
        BY DEF TagsInv, OthersView, SampleKept
    <2> QED
        BY <1>1, <2>1, TagsKept
<1>3. TagsHonest'
    BY <1>1 DEF TagsInv, TagsHonest
<1> QED
    BY <1>2, <1>3 DEF TagsInv

LEMMA BlindTags ==
    ASSUME TagsInv, DualInv', misled' = {}, NEW i \in Slots, BlindStep(i)
    PROVE  TagsInv'
<1>1. ~sampled'[i].done /\ \A j \in Slots \ {i} : sampled'[j] = sampled[j]
    BY DEF BlindStep
<1>2. StaleKnown(i)' /\ InheritedShown(i)'
    BY <1>1 DEF BlindStep, Blind, StaleKnown, InheritedShown
<1> QED
    BY <1>1, <1>2, OneReaderTags DEF BlindStep

LEMMA SampleTags ==
    ASSUME TagsInv, DualInv', misled' = {}, NEW i \in Slots, SampleStep(i)
    PROVE  TagsInv'
<1>1. UNCHANGED <<world, bay, live, origin, mailbox, memory, slots>>
    BY DEF SampleStep, packVars
<1>2. TagFrame(bay[i])' = TagFrame(bay[i])
    BY <1>1, TagFrameSame
<1>3. StaleKnown(i)'
    BY <1>1, <1>2 DEF TagsInv, StaleKnown, SampleStep
<1>4. InheritedShown(i)'
    BY <1>1 DEF TagsInv, DualInv, PacksSound, InheritedShown, Inherited, SampleStep
<1> QED
    BY <1>1, <1>3, <1>4, OneReaderTags DEF SampleStep, OthersView, View

LEMMA TwinsView ==
    ASSUME NEW i \in Slots, \A j \in Slots \ {i} : Twin(slots[j], slots'[j])
    PROVE  OthersView(i) /\ OthersSame(i)
<1>1. ASSUME NEW j \in Slots \ {i} PROVE View(slots[j], slots'[j])
    BY DEF Twin, Alike, SameView, View
<1> QED
    BY <1>1 DEF OthersView, OthersSame, Twin

LEMMA ReadTags ==
    ASSUME TagsInv, DualInv', misled' = {}, NEW i \in Slots, ReadStep(i)
    PROVE  TagsInv'
<1>1. UNCHANGED <<world, bay, live, origin, mailbox, memory>> /\ OthersView(i)
    BY TwinsView DEF ReadStep, packVars
<1>2. StaleKnown(i)'
    <2> SUFFICES ASSUME bay[i] # NoPack, memory[bay[i]].stale PROVE StaleKnown(i)'
        BY <1>1 DEF StaleKnown
    <2>1. /\ slots[i].written = Zero
          /\ slots[i].haveFrame => slots[i].frame = TagFrame(bay[i])
          /\ sampled[i].frame = TagFrame(bay[i])
        BY DEF TagsInv, StaleKnown, ReadStep
    <2>2. ~(slots[i].haveFrame /\ statusFrameChanged(slots[i].frame, sampled[i].frame))
        BY <2>1 DEF statusFrameChanged
    <2>3. TagFrame(bay[i])' = TagFrame(bay[i])
        BY <1>1, TagFrameSame
    <2> QED
        BY <1>1, <2>1, <2>2, <2>3 DEF StaleKnown, ReadStep
<1>3. InheritedShown(i)'
    BY DEF InheritedShown, ReadStep
<1> QED
    BY <1>1, <1>2, <1>3, OneReaderTags DEF ReadStep

LEMMA OnTags ==
    ASSUME TagsInv, DualInv', misled' = {}, NEW i \in Slots, OnStep(i)
    PROVE  TagsInv'
<1>1. PackTypes /\ UNCHANGED <<world, bay, live, memory, sampled>>
    BY DEF TagsInv, DualInv, OnStep
<1>2. ASSUME NEW q \in Packs
      PROVE  /\ origin'[q] = "none" => origin[q] = "none"
             /\ origin'[q] # "none" => q \in live' \/ mailbox'[q] = "on"
    BY <1>1 DEF TagsInv, TagsHonest, OnStep
<1>3. TagsHonest'
    BY <1>1, <1>2 DEF TagsInv, TagsHonest
<1>4. ASSUME NEW j \in Slots PROVE StaleKnown(j)' /\ InheritedShown(j)'
    <2>1. StaleKnown(j) /\ InheritedShown(j) /\ View(slots[j], slots'[j]) /\ SampleKept(j)
        BY <1>1 DEF TagsInv, OnStep, AllView, SampleKept
    <2>2. bay[j] # NoPack => bay[j] \in Packs
        BY <1>1 DEF PackTypes
    <2> QED
        BY <1>1, <1>2, <2>1, <2>2, TagsKept
<1> QED
    BY <1>3, <1>4 DEF TagsInv

(* Every step is one of these. *)
StepKinds ==
    \/ CalmStep
    \/ \E i \in Slots : BlindStep(i) \/ SampleStep(i) \/ ReadStep(i) \/ OnStep(i)

LEMMA StepsKinds ==
    ASSUME NoSwaps, DualInv, TagsHonest, [DualNext]_allVars
    PROVE  StepKinds
<1>1. CASE PackStep
    BY <1>1, PackStepCalm DEF StepKinds
<1>2. ASSUME NEW i \in Slots, ReaderStep(i) PROVE StepKinds
    <2>1. CASE ShouldIsolate(i) /\ UNCHANGED <<packVars, readVars>>
        BY <2>1, ServiceCalm DEF StepKinds
    <2> QED
        BY <1>2, <2>1, DiscoverBlind, LoseSightBlind, BeginReadSample, CompleteReadStep,
           AbortReadCalm, WriteOnStep, WriteOffCalm DEF ReaderStep, StepKinds
<1>3. CASE Service /\ UNCHANGED <<packVars, readVars>>
    BY <1>3, ServiceCalm DEF StepKinds
<1>4. CASE PackTick
    BY <1>4, PackTickCalm DEF StepKinds
<1>5. CASE UNCHANGED allVars
    <2>1. UNCHANGED vars /\ UNCHANGED <<packVars, readVars>>
        BY <1>5 DEF allVars
    <2> QED
        BY <2>1, ServiceCalm DEF StepKinds
<1> QED
    BY <1>1, <1>2, <1>3, <1>4, <1>5 DEF DualNext

LEMMA TagInit ==
    ASSUME DualInit
    PROVE  TagsInv
<1>1. DualInv /\ origin = [p \in Packs |-> "none"]
    BY DualInitInv DEF DualInit
<1>2. \A p \in Packs : origin[p] = "none" /\ memory[p].stale
    BY DEF DualInit
<1>3. ASSUME NEW i \in Slots PROVE StaleKnown(i) /\ InheritedShown(i)
    <2>1. ~sampled[i].done
        BY DEF DualInit, NoFrame
    <2>2. PICK r \in InitialRoles :
             slots = [k \in Slots |-> IF k = 0 THEN EmptySlot(TRUE, TRUE)
                                               ELSE EmptySlot(r[1], r[2])]
        BY DEF DualInit, Init
    <2>3. ~slots[i].haveFrame /\ slots[i].written = Zero
        BY <2>2 DEF EmptySlot
    <2> QED
        BY <2>1, <2>3 DEF StaleKnown, InheritedShown
<1>4. misled = {}
    BY DEF DualInit
<1> QED
    BY <1>1, <1>2, <1>3, <1>4 DEF TagsInv, TagsHonest

LEMMA TagNext ==
    ASSUME NoSwaps, TagsInv, misled' = {}, [DualNext]_allVars
    PROVE  TagsInv' /\ StepKinds
<1>1. DualInv' /\ misled' = {} /\ StepKinds
    BY DualNextInv, StepsKinds DEF TagsInv
<1> QED
    BY <1>1, CalmTags, BlindTags, SampleTags, ReadTags, OnTags DEF StepKinds

-----------------------------------------------------------------------------
(* Mismatched packs stay apart. *)

(* The packs stay in their bays, and the limit may be changed but is not   *)
(* cleared meanwhile.  Where a pack already runs when the service starts,  *)
(* its reader sees it: it is not lost from sight, and slot 1 is tracked    *)
(* from the start.                                                         *)
FixedPacks ==
    \A w \in Worlds :
        /\ "swap" \notin w.events
        /\ 0 \in w.limits => w.limits = {0}
        /\ w.live # {} => "absent" \notin w.events
        /\ w.bays[1] \in w.live => \A r \in InitialRoles : r[2]

(* The voltages of a pack, idle and under load. *)
Volts(p) == {world.voltages[p][power] : power \in {"idle", "active"}}

(* What the gate holds for a reading is a voltage of the pack. *)
VoltageTrue(j) ==
    /\ slots[j].valid => bay[j] # NoPack /\ slots[j].frame.voltage \in Volts(bay[j])
    /\ sampled[j].done => bay[j] # NoPack /\ sampled[j].frame.voltage \in Volts(bay[j])

InheritedSeen(j) ==
    Inherited(j) =>
        /\ world.live # {} /\ j \in Monitored
        /\ slots[j].powerTracked /\ ~slots[j].absent
        /\ slots[j].valid => slots[j].held

(* A read that Shows its pack running is of a slot that is reserved, or    *)
(* that keeps the other one from starting: it is tracked and its state is  *)
(* not known.                                                              *)
Hidden(s) == s.powerTracked /\ ~s.valid /\ ~s.absent

ShownKept(j) ==
    Shows(j) => slots[j].held \/ (j \in Monitored /\ Hidden(slots[j]))

Known(j) == VoltageTrue(j) /\ InheritedSeen(j) /\ ShownKept(j)

(* The pack of slot i was switched on for a supply not confirmed before... *)
Begun(i) == Powered(i) /\ origin[bay[i]] = "new"

(* ... and the other does not run, nor is it about to be taken for running.*)
NewApart(i) ==
    Mismatch /\ Begun(i) =>
        ~Powered(Other(i)) /\ ~slots[Other(i)].held /\ ~Shows(Other(i))

ApartInv ==
    /\ TagsInv /\ maxDelta \in world.limits
    /\ \A i \in Slots : Known(i) /\ NewApart(i)

(* The limit stays one of those that are set. *)
LimitStays == maxDelta' \in world.limits /\ (maxDelta' > 0 <=> maxDelta > 0)

LEMMA LimitKept ==
    ASSUME FixedPacks, DualInv, maxDelta \in world.limits, [DualNext]_allVars
    PROVE  LimitStays
<1>1. world \in Worlds
    BY DEF DualInv, PackTypes
<1>2. CASE PackStep \/ UNCHANGED allVars
    BY <1>2 DEF PackStep, Obey, Refuse, Die, Remove, Insert, allVars, vars, LimitStays
<1>3. ASSUME NEW i \in Slots, ReaderStep(i) PROVE maxDelta' = maxDelta
    <2>1. CASE CompleteRead(i)
        <3>1. EndRead(i)
            BY <2>1, Zenon DEF CompleteRead, FinishRead
        <3> QED
            BY <3>1 DEF EndRead
    <2>2. CASE Discover(i) \/ \E departed \in BOOLEAN : LoseSight(i, departed)
        BY <2>2 DEF Discover, LoseSight, Tag, ObserveAbsent
    <2>3. CASE BeginRead(i) \/ AbortRead(i) \/ ShouldIsolate(i)
        BY <2>3 DEF BeginRead, AbortRead, StartRead, FailRead, EndRead, ShouldIsolate
    <2>4. CASE WriteOn(i)
        BY <2>4 DEF WriteOn, RequestOn, RepeatOn, RequalifyOn, ActivateOn, Requested
    <2>5. CASE WriteOff(i)
        BY <2>5 DEF WriteOff, OffAttempt, IsolationOffAttempt, Off
    <2> QED
        BY <1>3, <2>1, <2>2, <2>3, <2>4, <2>5 DEF ReaderStep
<1>4. CASE Service /\ maxDelta' \in world.limits
    <2>1. world.limits \subseteq Nat
        BY <1>1, PacksAssumption, DeltasAssumption
    <2>2. 0 \in world.limits => world.limits = {0}
        BY <1>1 DEF FixedPacks
    <2> QED
        BY <1>4, <2>1, <2>2 DEF LimitStays
<1>5. CASE PackTick
    BY <1>5 DEF PackTick, Tick, LimitStays
<1> QED
    BY <1>2, <1>3, <1>4, <1>5 DEF DualNext, LimitStays

LEMMA KnownKept ==
    ASSUME NEW j \in Slots, Known(j), View(slots[j], slots'[j]), SampleKept(j),
           slots[j].held => slots'[j].held, world' = world, bay' = bay,
           Inherited(j)' => Inherited(j)
    PROVE  Known(j)' /\ (Shows(j)' => Shows(j))
<1>1. VoltageTrue(j)'
    BY DEF Known, VoltageTrue, View, SampleKept, Volts
<1>2. InheritedSeen(j)'
    BY DEF Known, InheritedSeen, View
<1>3. ShownKept(j)'
    BY ShowsKept DEF Known, ShownKept, Hidden, View
<1> QED
    BY <1>1, <1>2, <1>3, ShowsKept DEF Known

LEMMA ApartKept ==
    ASSUME NEW i \in Slots, NewApart(i), world' = world, bay' = bay, LimitStays,
           slots'[Other(i)].held => slots[Other(i)].held,
           Shows(Other(i))' => Shows(Other(i)),
           Powered(Other(i))' => Powered(Other(i)), Begun(i)' => Begun(i)
    PROVE  NewApart(i)'
<1>1. Mismatch' <=> Mismatch
    BY DEF Mismatch, LimitStays
<1> QED
    BY <1>1 DEF NewApart

LEMMA CalmPacks ==
    ASSUME PackTypes, bay' = bay, \A q \in Packs : Calm(q), NEW j \in Slots
    PROVE  /\ Powered(j)' => Powered(j)
           /\ Begun(j)' => Begun(j)
           /\ Inherited(j)' => Inherited(j)
<1>1. bay[j] # NoPack => Calm(bay[j])
    BY DEF PackTypes
<1> QED
    BY <1>1 DEF Powered, Begun, Inherited, Calm

LEMMA CalmApart ==
    ASSUME ApartInv, TagsInv', LimitStays, CalmStep
    PROVE  ApartInv'
<1>1. PackTypes /\ world' = world /\ bay' = bay /\ \A q \in Packs : Calm(q)
    BY DEF ApartInv, TagsInv, DualInv, CalmStep
<1>2. ASSUME NEW j \in Slots PROVE Known(j)' /\ (Shows(j)' => Shows(j))
    <2>1. /\ Known(j) /\ View(slots[j], slots'[j]) /\ SampleKept(j)
          /\ slots'[j].held = slots[j].held /\ (Inherited(j)' => Inherited(j))
        BY <1>1, CalmPacks DEF ApartInv, CalmStep
    <2> QED
        BY <1>1, <2>1, KnownKept
<1>3. ASSUME NEW i \in Slots PROVE NewApart(i)'
    <2> DEFINE o == Other(i)
    <2>1. o \in Slots
        BY OtherSlot
    <2>2. NewApart(i) /\ (Shows(o)' => Shows(o)) /\ slots'[o].held = slots[o].held
        BY <1>2, <2>1 DEF ApartInv, CalmStep
    <2>3. (Powered(o)' => Powered(o)) /\ (Begun(i)' => Begun(i))
        BY <1>1, <2>1, CalmPacks
    <2> QED
        BY <1>1, <2>1, <2>2, <2>3, ApartKept
<1> QED
    BY <1>1, <1>2, <1>3 DEF ApartInv, LimitStays

(* Everything but what slot i and its read show stays as it was. *)
LEMMA OneReaderApart ==
    ASSUME ApartInv, TagsInv', LimitStays, NEW i \in Slots, UNCHANGED packVars,
           OthersView(i), \A j \in Slots \ {i} : slots'[j].held = slots[j].held,
           \A j \in Slots \ {i} : sampled'[j] = sampled[j],
           Known(i)',
           Mismatch /\ Begun(Other(i)) => ~slots'[i].held /\ ~Shows(i)'
    PROVE  ApartInv'
<1>1. UNCHANGED <<world, bay, live, origin, mailbox, memory>>
    BY DEF packVars
<1>2. \A j \in Slots : /\ Powered(j)' <=> Powered(j)
                       /\ Begun(j)' <=> Begun(j)
                       /\ Inherited(j)' <=> Inherited(j)
    BY <1>1 DEF Powered, Begun, Inherited
<1>3. ASSUME NEW j \in Slots \ {i} PROVE Known(j)' /\ (Shows(j)' => Shows(j))
    <2>1. View(slots[j], slots'[j]) /\ SampleKept(j) /\ Known(j)
        BY DEF OthersView, SampleKept, ApartInv
    <2> QED
        BY <1>1, <1>2, <2>1, KnownKept
<1>4. ASSUME NEW k \in Slots PROVE NewApart(k)'
    <2> DEFINE o == Other(k)
    <2>1. o \in Slots /\ o # k /\ NewApart(k) /\ (o = i => k = Other(i))
        BY OtherSlot DEF ApartInv
    <2>2. CASE o # i
        BY <1>1, <1>2, <1>3, <2>1, <2>2, ApartKept
    <2>3. CASE o = i
        <3>1. Mismatch' <=> Mismatch
            BY <1>1 DEF Mismatch, LimitStays
        <3> QED
            BY <1>2, <2>1, <2>3, <3>1 DEF NewApart
    <2> QED
        BY <2>2, <2>3
<1> QED
    BY <1>1, <1>3, <1>4 DEF ApartInv, LimitStays

(* A pack that runs since the start is not lost from sight. *)
LEMMA BlindApart ==
    ASSUME FixedPacks, ApartInv, TagsInv', LimitStays, NEW i \in Slots, BlindStep(i)
    PROVE  ApartInv'
<1>1. /\ ~sampled'[i].done /\ UNCHANGED <<world, bay, live, origin, sampled>>
      /\ Blind(slots[i], slots'[i]) /\ slots'[i].held = slots[i].held
      /\ slots'[i].absent => "absent" \in world.events
    BY DEF BlindStep, packVars
<1>2. Known(i) /\ NewApart(Other(i)) /\ Other(Other(i)) = i /\ world \in Worlds
    BY OtherSlot DEF ApartInv, TagsInv, DualInv, PackTypes
<1>3. VoltageTrue(i)' /\ ShownKept(i)' /\ ~Shows(i)'
    BY <1>1 DEF Blind, VoltageTrue, ShownKept, Shows
<1>4. InheritedSeen(i)'
    BY <1>1, <1>2 DEF Known, InheritedSeen, Inherited, Blind, FixedPacks
<1>5. Mismatch /\ Begun(Other(i)) => ~slots'[i].held
    BY <1>1, <1>2 DEF NewApart
<1>6. Known(i)' /\ \A j \in Slots \ {i} : slots'[j].held = slots[j].held /\ sampled'[j] = sampled[j]
    BY <1>3, <1>4 DEF Known, BlindStep
<1> QED
    BY <1>3, <1>5, <1>6, OneReaderApart DEF BlindStep

(* The voltage on the tag is the pack's. *)
LEMMA TagFrameVoltage ==
    ASSUME PackTypes, NEW p \in Packs
    PROVE  TagFrame(p).voltage \in Volts(p)
<1>1. memory[p] \in MemoryType /\ world \in Worlds
    BY DEF PackTypes
<1>2. memory[p].state \in {"idle", "active"}
    BY <1>1 DEF MemoryType
<1>3. world.voltages[p][memory[p].state] \in Volts(p)
    BY <1>2 DEF Volts
<1>4. TagFrame(p).voltage = world.voltages[p][memory[p].state]
    BY DEF TagFrame, BlankFrame
<1> QED
    BY <1>3, <1>4

LEMMA SampleApart ==
    ASSUME ApartInv, TagsInv', LimitStays, NEW i \in Slots, SampleStep(i)
    PROVE  ApartInv'
<1>1. /\ UNCHANGED <<world, bay, live, origin, slots>> /\ bay[i] # NoPack /\ bay[i] \in Packs
      /\ sampled'[i].frame = TagFrame(bay[i])
    BY DEF SampleStep, packVars
<1>2. /\ PackTypes /\ Known(i) /\ Supplied(i) /\ NewApart(Other(i)) /\ Other(Other(i)) = i
    BY OtherSlot DEF ApartInv, TagsInv, DualInv
<1>3. VoltageTrue(i)'
    BY <1>1, <1>2, TagFrameVoltage DEF Known, VoltageTrue, Volts
<1>4. InheritedSeen(i)'
    BY <1>1, <1>2 DEF Known, InheritedSeen, Inherited
<1>5. bay[i] \notin live => ~Shows(i)'
    BY SampleOfRunning DEF ApartInv
<1>6. ShownKept(i)'
    <2> SUFFICES ASSUME bay[i] \in live
                 PROVE  slots[i].held \/ (i \in Monitored /\ Hidden(slots[i]))
        BY <1>1, <1>5 DEF ShownKept
    <2>1. CASE origin[bay[i]] # "none"
        BY <1>1, <1>2, <2>1 DEF ApartInv, TagsInv, Supplied, Owned, Powered
    <2>2. CASE origin[bay[i]] = "none"
        BY <1>1, <1>2, <2>2 DEF Known, InheritedSeen, Inherited, Hidden
    <2> QED
        BY <2>1, <2>2
<1>7. Mismatch /\ Begun(Other(i)) => ~slots'[i].held /\ ~Shows(i)'
    BY <1>1, <1>2, <1>5 DEF NewApart, Powered
<1>8. Known(i)' /\ OthersView(i) /\ \A j \in Slots \ {i} : slots'[j].held = slots[j].held
    BY <1>1, <1>3, <1>4, <1>6 DEF Known, OthersView, View
<1> QED
    BY <1>7, <1>8, OneReaderApart DEF SampleStep

LEMMA ReadApart ==
    ASSUME ApartInv, TagsInv', LimitStays, NEW i \in Slots, ReadStep(i)
    PROVE  ApartInv'
<1>1. /\ UNCHANGED <<world, bay, live, origin>> /\ sampled[i].done /\ ~sampled'[i].done
      /\ slots'[i].frame = sampled[i].frame /\ ~slots'[i].absent
      /\ slots[i].powerTracked => slots'[i].powerTracked
      /\ slots'[i].held => slots[i].held \/ Shows(i)
      /\ slots'[i].valid /\ sampled[i].frame.state = "active" => slots'[i].held
    BY DEF ReadStep, packVars
<1>2. /\ Known(i) /\ InheritedShown(i) /\ NewApart(Other(i)) /\ Other(Other(i)) = i
    BY OtherSlot DEF ApartInv, TagsInv
<1>3. VoltageTrue(i)'
    BY <1>1, <1>2 DEF Known, VoltageTrue, Volts
<1>4. InheritedSeen(i)'
    BY <1>1, <1>2 DEF Known, InheritedSeen, InheritedShown, Inherited
<1>5. ShownKept(i)' /\ ~Shows(i)'
    BY <1>1 DEF ShownKept, Shows
<1>6. Mismatch /\ Begun(Other(i)) => ~slots'[i].held
    BY <1>1, <1>2 DEF NewApart
<1>7. Known(i)' /\ OthersView(i) /\ \A j \in Slots \ {i} : slots'[j].held = slots[j].held
    BY <1>3, <1>4, <1>5, TwinsView DEF Known, ReadStep, OthersSame, Same, Keeps
<1> QED
    BY <1>5, <1>6, <1>7, OneReaderApart DEF ReadStep

LEMMA DistanceSymmetric == \A v, w \in Nat : Distance(v, w) = Distance(w, v)
BY DEF Distance

(* A slot gets an ON that is not the repetition of a confirmed supply only *)
(* when the other pack is known to be off, or within the limit.            *)
LEMMA AdmittedApart ==
    ASSUME ApartInv, NEW i \in Slots, Admitted(reconcile, i), Mismatch
    PROVE  ~Powered(Other(i)) /\ ~slots[Other(i)].held /\ ~Shows(Other(i))
<1> DEFINE o == Other(i)
           peer == slots[o]
<1>1. /\ o \in Slots /\ o # i /\ Inv /\ SlotsOK /\ PackTypes /\ PacksSound
      /\ Known(i) /\ Known(o) /\ Supplied(o) /\ SlotSafe(o, peer)
    BY OtherSlot, InvParts DEF ApartInv, TagsInv, DualInv, SlotsOK, SlotOK
<1>2. /\ OwnEvidence(i) /\ PeerPermits(i)
    BY DEF Admitted
<1>3. ~peer.held
    <2> SUFFICES ASSUME peer.held PROVE FALSE
        OBVIOUS
    <2>1. o \in Monitored /\ peer.powerTracked /\ ~peer.absent
        BY <1>1 DEF SlotSafe
    <2>2. Fresh(peer, now) /\ Joins(i)
        BY <1>2, <2>1 DEF PeerPermits, FreshlyAbsent
    <2>3. slots[i].valid /\ peer.valid
        BY <1>2, <2>2 DEF OwnEvidence, Fresh
    <2>4. /\ bay[i] # NoPack /\ bay[o] # NoPack
          /\ slots[i].frame.voltage \in Volts(bay[i]) /\ peer.frame.voltage \in Volts(bay[o])
        BY <1>1, <2>3 DEF Known, VoltageTrue
    <2>5. PICK a \in {"idle", "active"}, b \in {"idle", "active"} :
             /\ slots[i].frame.voltage = world.voltages[bay[i]][a]
             /\ peer.frame.voltage = world.voltages[bay[o]][b]
        BY <2>4 DEF Volts
    <2> DEFINE v == world.voltages[bay[i]][a]
               w == world.voltages[bay[o]][b]
    <2>6. v \in Nat /\ w \in Nat /\ maxDelta \in Nat
        <3>1. bay[i] \in Packs /\ bay[o] \in Packs /\ world \in Worlds /\ maxDelta \in Nat
            BY <1>1, <2>4, InvParts DEF PackTypes, RestType
        <3>2. world.voltages \in [Packs -> [{"idle", "active"} -> Nat]]
            BY <3>1, PacksAssumption
        <3> QED
            BY <3>1, <3>2
    <2>7. maxDelta > 0 => Distance(v, w) <= maxDelta
        BY <2>2, <2>5 DEF Joins
    <2>8. maxDelta > 0 /\ (Distance(v, w) > maxDelta \/ Distance(w, v) > maxDelta)
        <3>1. (i = 0 /\ o = 1) \/ (i = 1 /\ o = 0)
            BY DEF Slots, Other
        <3>2. maxDelta > 0 => maxDelta \in world.limits \ {0}
            BY <2>6 DEF ApartInv
        <3> QED
            BY <3>1, <3>2 DEF Mismatch
    <2>9. Distance(v, w) = Distance(w, v) /\ Distance(v, w) \in Nat
        BY <2>6, DistanceSymmetric DEF Distance
    <2> QED
        BY <2>6, <2>7, <2>8, <2>9
<1>4. ~(o \in Monitored /\ Hidden(peer))
    BY <1>2 DEF PeerPermits, Hidden, FreshlyAbsent, Fresh
<1>5. ~Shows(o)
    BY <1>1, <1>3, <1>4 DEF Known, ShownKept
<1>6. ~Powered(o)
    <2> SUFFICES ASSUME Powered(o) PROVE FALSE
        OBVIOUS
    <2>1. bay[o] # NoPack /\ bay[o] \in Packs
        BY <1>1 DEF Powered, PackTypes
    <2>2. origin[bay[o]] = "none"
        BY <1>1, <1>3, <2>1 DEF ApartInv, TagsInv, Supplied, Owned
    <2>3. Inherited(o)
        BY <1>1, <2>1, <2>2 DEF Powered, PacksSound, Inherited
    <2> QED
        BY <1>1, <1>3, <1>4, <2>3 DEF Known, InheritedSeen, Hidden
<1> QED
    BY <1>3, <1>5, <1>6

LEMMA OnApart ==
    ASSUME ApartInv, TagsInv', LimitStays, NEW i \in Slots, OnStep(i)
    PROVE  ApartInv'
<1> DEFINE p == bay[i]
           o == Other(i)
<1>1. /\ PackTypes /\ PacksSound /\ TagsHonest
      /\ NewApart(i) /\ NewApart(o) /\ o \in Slots /\ o # i /\ Other(o) = i
    BY OtherSlot DEF ApartInv, TagsInv, DualInv
<1>2. /\ UNCHANGED <<world, bay, live, memory, sampled>> /\ slots'[i].held
      /\ Admitted(reconcile, i) \/ (slots[i].held /\ slots[i].active)
    BY DEF OnStep
<1>3. \A j \in Slots : /\ View(slots[j], slots'[j]) /\ SampleKept(j)
                       /\ slots[j].held => slots'[j].held
    BY <1>2 DEF OnStep, AllView, OthersSame, Same, Keeps, SampleKept
<1>4. slots'[o].held = slots[o].held
    BY <1>1 DEF OnStep, OthersSame, Same, Keeps
<1>5. ASSUME NEW j \in Slots PROVE Known(j)' /\ (Shows(j)' => Shows(j))
    <2>1. Inherited(j)' => Inherited(j)
        <3> SUFFICES ASSUME Inherited(j)' PROVE Inherited(j)
            OBVIOUS
        <3>1. bay[j] # NoPack /\ bay[j] \in Packs /\ bay[j] \in live /\ origin'[bay[j]] = "none"
            BY <1>1, <1>2 DEF Inherited, PackTypes
        <3>2. origin'[bay[j]] = origin[bay[j]]
            BY <3>1 DEF OnStep
        <3> QED
            BY <3>1, <3>2 DEF Inherited
    <2> QED
        BY <1>2, <1>3, <2>1, KnownKept DEF ApartInv
<1>6. (Powered(o)' <=> Powered(o)) /\ (Begun(o)' <=> Begun(o))
    <2>1. bay[o] # NoPack => bay[o] \in Packs \ {p}
        BY <1>1 DEF PackTypes, PacksSound
    <2>2. bay[o] # NoPack => mailbox'[bay[o]] = mailbox[bay[o]] /\ origin'[bay[o]] = origin[bay[o]]
        BY <2>1 DEF OnStep
    <2> QED
        BY <1>2, <2>2 DEF Powered, Begun
<1>7. Mismatch' <=> Mismatch
    BY <1>2 DEF Mismatch, LimitStays
<1>8. NewApart(i)'
    <2> SUFFICES ASSUME Mismatch, Begun(i)'
                 PROVE  ~Powered(o) /\ ~slots[o].held /\ ~Shows(o)
        BY <1>1, <1>4, <1>5, <1>6, <1>7 DEF NewApart
    <2>1. CASE Admitted(reconcile, i)
        BY <2>1, AdmittedApart
    <2>2. CASE slots[i].active
        <3>1. p # NoPack /\ origin[p] = "new" /\ p \in Packs
            BY <1>1, <1>2, <2>2 DEF Begun, Powered, PackTypes, OnStep
        <3>2. Begun(i)
            BY <1>1, <3>1 DEF TagsHonest, Begun, Powered
        <3> QED
            BY <1>1, <3>2 DEF NewApart
    <2> QED
        BY <1>2, <2>1, <2>2
<1>9. NewApart(o)'
    <2> SUFFICES ASSUME Mismatch, Begun(o) PROVE FALSE
        BY <1>6, <1>7 DEF NewApart
    <2>1. Admitted(reconcile, i)
        BY <1>1, <1>2 DEF NewApart
    <2>2. ~Powered(o)
        BY <2>1, AdmittedApart
    <2> QED
        BY <2>2 DEF Begun
<1>10. \A k \in Slots : k = i \/ k = o
    BY DEF Slots, Other
<1> QED
    BY <1>2, <1>5, <1>8, <1>9, <1>10 DEF ApartInv, LimitStays

LEMMA ApartInit ==
    ASSUME FixedPacks, DualInit
    PROVE  ApartInv
<1>1. /\ Init /\ TagsInv /\ world \in Worlds /\ maxDelta \in world.limits
      /\ bay = world.bays /\ live = world.live /\ origin = [p \in Packs |-> "none"]
    BY TagInit DEF DualInit
<1>2. ASSUME NEW i \in Slots PROVE Known(i) /\ NewApart(i)
    <2>1. bay[i] # NoPack => bay[i] \in Packs /\ origin[bay[i]] = "none"
        BY <1>1 DEF TagsInv, DualInv, PackTypes
    <2>2. ~sampled[i].done
        BY DEF DualInit, NoFrame
    <2>3. PICK r \in InitialRoles :
             slots = [k \in Slots |-> IF k = 0 THEN EmptySlot(TRUE, TRUE)
                                               ELSE EmptySlot(r[1], r[2])]
        BY <1>1 DEF Init
    <2>4. slots[i] = IF i = 0 THEN EmptySlot(TRUE, TRUE) ELSE EmptySlot(r[1], r[2])
        BY <2>3
    <2>5. /\ ~slots[i].valid /\ ~slots[i].absent
          /\ slots[i].powerTracked = IF i = 0 THEN TRUE ELSE r[2]
        BY <2>4 DEF EmptySlot
    <2>6. VoltageTrue(i) /\ ShownKept(i)
        BY <2>2, <2>5 DEF VoltageTrue, ShownKept, Shows
    <2>7. InheritedSeen(i)
        <3> SUFFICES ASSUME Inherited(i) PROVE InheritedSeen(i)
            BY DEF InheritedSeen
        <3>1. world.bays[i] \in world.live
            BY <1>1 DEF Inherited
        <3>2. i = 0 \/ i = 1
            BY DEF Slots
        <3>3. i = 1 => r[2] /\ 1 \in Monitored
            BY <1>1, <3>1, InitialAssumption DEF FixedPacks
        <3>4. i \in Monitored /\ slots[i].powerTracked
            BY <2>5, <3>2, <3>3, MonitoredAssumption
        <3> QED
            BY <2>5, <3>1, <3>4 DEF InheritedSeen
    <2>8. NewApart(i)
        BY <2>1 DEF NewApart, Begun, Powered
    <2> QED
        BY <2>6, <2>7, <2>8 DEF Known
<1> QED
    BY <1>1, <1>2 DEF ApartInv

LEMMA ApartNext ==
    ASSUME FixedPacks, ApartInv, misled' = {}, [DualNext]_allVars
    PROVE  ApartInv'
<1>1. NoSwaps /\ TagsInv /\ DualInv
    BY DEF FixedPacks, NoSwaps, ApartInv, TagsInv
<1>2. TagsInv' /\ StepKinds /\ LimitStays
    BY <1>1, TagNext, LimitKept DEF ApartInv
<1> QED
    BY <1>2, CalmApart, BlindApart, SampleApart, ReadApart, OnApart DEF StepKinds

(* Two packs whose voltages differ by more than any limit that is set      *)
(* never supply power together, unless neither was started by the gate     *)
(* next to the other (requestOn, admission.go:382-423): for packs that     *)
(* stay in their bays, as long as no early reading costs one of them its   *)
(* reservation, through refused and lost commands, packs that stop by      *)
(* themselves or are slow to start, failed reads, changes of the limit,    *)
(* voltages that depend on the load, old tag memory and readings that are  *)
(* out of date when they arrive.                                           *)
THEOREM MismatchedPacksStayApart ==
    ASSUME FixedPacks
    PROVE  DualSpec /\ [](misled = {}) => []NoMismatchedParallel
<1>1. DualInit => ApartInv
    BY ApartInit
<1>2. ApartInv /\ (misled = {})' /\ [DualNext]_allVars => ApartInv'
    BY ApartNext
<1>3. ApartInv => NoMismatchedParallel
    <2> SUFFICES ASSUME ApartInv, Powered(0), Powered(1), Mismatch,
                        NEW i \in Slots, origin[bay[i]] = "new"
                 PROVE  FALSE
        BY DEF NoMismatchedParallel
    <2>1. NewApart(i) /\ (Other(i) = 0 \/ Other(i) = 1) /\ (i = 0 \/ i = 1)
        BY DEF ApartInv, Other, Slots
    <2> QED
        BY <2>1 DEF NewApart, Begun
<1> QED
    BY <1>1, <1>2, <1>3, PTL DEF DualSpec

-----------------------------------------------------------------------------
(* Ending a mismatch leaves a supply. *)

(* Two packs are never handed over from one to the other, nobody exchanges *)
(* a pack, and one that runs at the start is not switched off from outside *)
(* the gate and does not stop by itself.                                   *)
SteadyPacks ==
    /\ NoSwaps /\ ~Conservative
    /\ \A w \in Worlds : w.live # {} => "die" \notin w.events /\ "off" \notin w.events

(* The pack of slot j runs and will go on running ... *)
Certain(j) == bay[j] # NoPack /\ bay[j] \in live /\ mailbox[bay[j]] # "off"
(* ... or still runs, with an OFF to read. *)
Recalled(j) == bay[j] # NoPack /\ bay[j] \in live /\ mailbox[bay[j]] = "off"

Retained(j) == Certain(j) /\ ~slots[j].offPending

(* What the gate takes for running runs, and what a read is about to take  *)
(* for running, unless an OFF is on its way, which the gate then knows.    *)
SupplyKnown(j) ==
    /\ ~slots[j].offPending /\ (slots[j].active \/ Shows(j)) => Certain(j)
    /\ Recalled(j) => slots[j].offPending

Plain(e) == ~e.handover /\ ~e.offConfirmed

SupplyInv ==
    /\ TagsInv
    /\ world.live # {} =>
          /\ Plain(isolation) /\ \A j \in Slots : SupplyKnown(j)
          /\ \E i \in Slots : Retained(i)

(* No handover is ever begun. *)
LEMMA IsolationPlain ==
    ASSUME ~Conservative, DualInv, Plain(isolation), [DualNext]_allVars
    PROVE  Plain(isolation')
<1>1. Plain(NoIsolation)
    BY DEF Plain, NoIsolation
<1>2. Plain(reconcile)
    <2> DEFINE episode == [NoIsolation EXCEPT !.open = TRUE, !.survivor = Survivor,
                                              !.victim = Other(Survivor)]
    <2>1. reconcile \in {NoIsolation, isolation, episode}
        BY Zenon DEF reconcile
    <2>2. Plain(episode)
        BY DEF Plain, NoIsolation
    <2> QED
        BY <1>1, <2>1, <2>2
<1>3. isolation \in IsolationType
    BY InvParts DEF DualInv, RestType
<1>4. Plain([isolation EXCEPT !.attempted = TRUE])
    BY <1>3 DEF Plain, IsolationType
<1>5. CASE PackStep \/ PackTick \/ UNCHANGED allVars
    BY <1>5 DEF PackStep, Obey, Refuse, Die, Remove, Insert, PackTick, Tick, allVars, vars
<1>6. CASE Service
    <2>1. isolation' = isolation
        BY <1>6, Zenon
        DEF Service, BeginRound, StopSampling, ReceiveMotion, ResetMotionStream,
            SetVehicle, SetSeatbox, SetRole, SetMaxDelta
    <2> QED
        BY <2>1
<1>7. ASSUME NEW i \in Slots, ReaderStep(i) PROVE Plain(isolation')
    <2>1. CASE CompleteRead(i)
        <3> DEFINE seen == Recorded(slots[i], sampled[i].frame, now)
        <3>1. isolation' = IsolationAfter(i, seen, now)
            BY <2>1, Zenon DEF CompleteRead, FinishRead
        <3>2. IsolationAfter(i, seen, now) \in {NoIsolation, isolation}
            <4> HIDE DEF seen
            <4> QED
                BY Zenon DEF IsolationAfter, Plain
        <3> QED
            BY <1>1, <3>1, <3>2
    <2>2. CASE Discover(i) \/ \E departed \in BOOLEAN : LoseSight(i, departed)
        BY <2>2 DEF Discover, LoseSight, Tag, ObserveAbsent
    <2>3. CASE BeginRead(i) \/ AbortRead(i)
        BY <2>3 DEF BeginRead, AbortRead, StartRead, FailRead, EndRead
    <2>4. CASE WriteOn(i) \/ ShouldIsolate(i)
        <3>1. isolation' = reconcile
            BY <2>4 DEF WriteOn, RequestOn, RepeatOn, RequalifyOn, ActivateOn, Requested,
                        ShouldIsolate
        <3> QED
            BY <1>2, <3>1
    <2>5. CASE WriteOff(i)
        <3>1. isolation' \in {isolation, [isolation EXCEPT !.attempted = TRUE]}
            BY <2>5 DEF WriteOff, OffAttempt, IsolationOffAttempt, Off
        <3> QED
            BY <1>4, <3>1
    <2> QED
        BY <1>7, <2>1, <2>2, <2>3, <2>4, <2>5 DEF ReaderStep
<1> QED
    BY <1>5, <1>6, <1>7 DEF DualNext

(* A step that withdraws nothing, and shows nothing to run. *)
SteadyStep ==
    /\ world' = world
    /\ \A j \in Slots : /\ Certain(j) => Certain(j)'
                        /\ Recalled(j)' => Recalled(j)
                        /\ slots'[j].offPending = slots[j].offPending
                        /\ slots'[j].active => slots[j].active
                        /\ Shows(j)' => Shows(j)

LEMMA SteadySupply ==
    ASSUME SupplyInv, world.live # {}, SteadyStep
    PROVE  /\ \A j \in Slots : SupplyKnown(j)'
           /\ \E i \in Slots : Retained(i)'
<1>1. ASSUME NEW j \in Slots PROVE SupplyKnown(j)'
    BY DEF SupplyInv, SteadyStep, SupplyKnown
<1>2. \E i \in Slots : Retained(i)'
    BY DEF SupplyInv, SteadyStep, Retained
<1> QED
    BY <1>1, <1>2

LEMMA StillSteady ==
    ASSUME UNCHANGED packVars, NEW j \in Slots
    PROVE  (Certain(j)' <=> Certain(j)) /\ (Recalled(j)' <=> Recalled(j))
BY DEF packVars, Certain, Recalled

(* Packs that obey and refuse their commands. *)
LEMMA PackStepSteady ==
    ASSUME SteadyPacks, TagsInv, world.live # {}, PackStep
    PROVE  SteadyStep
<1>1. /\ PackTypes /\ "swap" \notin world.events /\ "die" \notin world.events
    BY DEF TagsInv, DualInv, PackTypes, SteadyPacks, NoSwaps
<1>2. PICK p \in Packs : Obey(p) \/ Refuse(p)
    BY <1>1 DEF PackStep, Remove, Insert, Die
<1>3. UNCHANGED <<vars, world, bay, sampled>>
    BY <1>2 DEF Obey, Refuse, readVars
<1>4. slots' = slots /\ sampled' = sampled /\ bay' = bay /\ world' = world
    BY <1>3 DEF vars
<1>5. /\ live \subseteq Packs /\ mailbox \in [Packs -> {"none", "on", "off"}]
    BY <1>1 DEF PackTypes
<1>6. ASSUME NEW q \in Packs
      PROVE  /\ q \in live /\ mailbox[q] # "off" => q \in live' /\ mailbox'[q] # "off"
             /\ q \in live' /\ mailbox'[q] = "off" => q \in live /\ mailbox[q] = "off"
    <2>1. mailbox' = [mailbox EXCEPT ![p] = "none"]
        BY <1>2 DEF Obey, Refuse
    <2>2. mailbox'[q] = IF q = p THEN "none" ELSE mailbox[q]
        BY <1>5, <2>1
    <2>3. CASE Refuse(p)
        BY <2>2, <2>3 DEF Refuse
    <2>4. CASE Obey(p) /\ mailbox[p] = "on"
        BY <2>2, <2>4 DEF Obey
    <2>5. CASE Obey(p) /\ mailbox[p] # "on"
        <3>1. mailbox[p] = "off" /\ live' = live \ {p}
            BY <1>5, <2>5 DEF Obey, SwitchOff
        <3> QED
            BY <2>2, <3>1
    <2> QED
        BY <1>2, <2>3, <2>4, <2>5
<1>7. ASSUME NEW j \in Slots
      PROVE  (Certain(j) => Certain(j)') /\ (Recalled(j)' => Recalled(j))
    <2>1. bay[j] # NoPack => bay[j] \in Packs
        BY <1>1 DEF PackTypes
    <2> QED
        BY <1>4, <1>6, <2>1 DEF Certain, Recalled
<1> QED
    BY <1>4, <1>7 DEF SteadyStep, Shows

(* The service, a request that only reconciles, a unit of time and a read  *)
(* that fails.                                                             *)
LEMMA SameSteady ==
    ASSUME CalmStep, AllSame, UNCHANGED <<world, bay, live, mailbox>>
    PROVE  SteadyStep
<1>1. ASSUME NEW j \in Slots
      PROVE  /\ Certain(j) => Certain(j)'
             /\ Recalled(j)' => Recalled(j)
    BY DEF Certain, Recalled
<1>2. ASSUME NEW j \in Slots PROVE Shows(j)' => Shows(j)
    BY ShowsKept DEF CalmStep
<1> QED
    BY <1>1, <1>2 DEF SteadyStep, AllSame, Same, Keeps

LEMMA BlindSteady ==
    ASSUME NEW i \in Slots, BlindStep(i)
    PROVE  SteadyStep
<1>1. UNCHANGED packVars /\ sampled' = sampled /\ ~sampled[i].done /\ world' = world
    BY DEF BlindStep, packVars
<1>2. ASSUME NEW j \in Slots PROVE Shows(j)' => Shows(j)
    <2>1. CASE j = i
        BY <1>1, <2>1 DEF Shows
    <2>2. CASE j # i
        <3>1. View(slots[j], slots'[j]) /\ SampleKept(j)
            BY <1>1, <2>2 DEF BlindStep, OthersView, SampleKept
        <3> QED
            BY <3>1, ShowsKept
    <2> QED
        BY <2>1, <2>2
<1> QED
    BY <1>1, <1>2, StillSteady DEF SteadyStep, BlindStep

(* An ON takes the place of an OFF that was not read yet, never the other  *)
(* way round.                                                              *)
LEMMA OnSteady ==
    ASSUME DualInv, NEW i \in Slots, WriteOn(i)
    PROVE  SteadyStep
<1>1. Inv /\ PackTypes /\ RequestOn(i) /\ OnStep(i)
    BY WriteOnStep DEF DualInv, WriteOn
<1>2. /\ UNCHANGED <<world, bay, live, sampled>> /\ AllView
    BY <1>1 DEF OnStep
<1>3. \A j \in Slots : /\ slots'[j].offPending = slots[j].offPending
                       /\ slots'[j].active = slots[j].active
    BY <1>1, RequestOnKind DEF RequestOn, AllKeep, OthersKeep, Keeps, Activated
<1>4. ASSUME NEW j \in Slots PROVE Shows(j)' => Shows(j)
    <2>1. View(slots[j], slots'[j]) /\ SampleKept(j)
        BY <1>2 DEF AllView, SampleKept
    <2> QED
        BY <2>1, ShowsKept
<1>5. ASSUME NEW j \in Slots
      PROVE  (Certain(j) => Certain(j)') /\ (Recalled(j)' => Recalled(j))
    <2>1. bay[j] # NoPack =>
              mailbox'[bay[j]] = "on" \/ mailbox'[bay[j]] = mailbox[bay[j]]
        BY <1>1 DEF PackTypes, OnStep
    <2> QED
        BY <1>2, <2>1 DEF Certain, Recalled
<1> QED
    BY <1>2, <1>3, <1>4, <1>5 DEF SteadyStep

(* The tag is sampled: what Shows the pack running is its own word. *)
LEMMA SampleSupply ==
    ASSUME SupplyInv, world.live # {}, NEW i \in Slots, SampleStep(i)
    PROVE  /\ \A j \in Slots : SupplyKnown(j)'
           /\ \E k \in Slots : Retained(k)'
<1>1. /\ slots' = slots /\ UNCHANGED packVars /\ bay[i] # NoPack
      /\ \A j \in Slots \ {i} : sampled'[j] = sampled[j]
    BY DEF SampleStep
<1>2. \A j \in Slots : (Certain(j)' <=> Certain(j)) /\ (Recalled(j)' <=> Recalled(j))
    BY <1>1, StillSteady
<1>3. ASSUME NEW j \in Slots PROVE SupplyKnown(j)'
    <2>1. SupplyKnown(j)
        BY DEF SupplyInv
    <2>2. CASE j = i
        <3>1. Shows(i)' => bay[i] \in live
            BY SampleOfRunning DEF SupplyInv
        <3>2. Shows(i)' => Certain(i) \/ Recalled(i)
            BY <1>1, <3>1 DEF Certain, Recalled
        <3> QED
            BY <1>1, <1>2, <2>1, <2>2, <3>2 DEF SupplyKnown
    <2>3. CASE j # i
        <3>1. Shows(j)' <=> Shows(j)
            BY <1>1, <2>3 DEF Shows
        <3> QED
            BY <1>1, <1>2, <2>1, <3>1 DEF SupplyKnown
    <2> QED
        BY <2>2, <2>3
<1>4. \E k \in Slots : Retained(k)'
    BY <1>1, <1>2 DEF SupplyInv, Retained
<1> QED
    BY <1>3, <1>4

(* A completed read.  An OFF that is on its way is forgotten only with the *)
(* reservation, and a pack that runs keeps that: it is reserved because    *)
(* the gate switched it on, or the sample says that it runs.               *)
LEMMA ReadSupply ==
    ASSUME SupplyInv, world.live # {}, DualInv', misled' = {}, NEW i \in Slots, ReadStep(i)
    PROVE  /\ \A j \in Slots : SupplyKnown(j)'
           /\ \E k \in Slots : Retained(k)'
<1>1. /\ UNCHANGED packVars /\ UNCHANGED <<world, bay, live, origin, mailbox>>
      /\ sampled[i].done /\ ~sampled'[i].done /\ OthersView(i) /\ OthersSame(i)
      /\ \A j \in Slots \ {i} : sampled'[j] = sampled[j]
    BY TwinsView DEF ReadStep, packVars
<1>2. \A j \in Slots : (Certain(j)' <=> Certain(j)) /\ (Recalled(j)' <=> Recalled(j))
    BY <1>1, StillSteady
<1>3. /\ slots'[i].active => slots[i].active \/ Shows(i)
      /\ slots'[i].offPending # slots[i].offPending =>
            ~slots'[i].held /\ ~slots'[i].offPending /\ sampled[i].frame.state # "active"
    BY DEF ReadStep
<1>4. bay[i] # NoPack /\ bay[i] \in live => slots'[i].offPending = slots[i].offPending
    <2> SUFFICES ASSUME bay[i] # NoPack, bay[i] \in live, ~slots'[i].held,
                        sampled[i].frame.state # "active"
                 PROVE  FALSE
        BY <1>3
    <2>1. CASE origin[bay[i]] # "none"
        <3>1. Supplied(i)' /\ Owned(i)' /\ Powered(i)' /\ misled' = {}
            BY <1>1, <2>1 DEF DualInv, Owned, Powered
        <3> QED
            BY <3>1 DEF Supplied
    <2>2. CASE origin[bay[i]] = "none"
        BY <1>1, <2>2 DEF SupplyInv, TagsInv, InheritedShown, Inherited
    <2> QED
        BY <2>1, <2>2
<1>5. slots'[i].active => slots'[i].held
    BY InvParts DEF DualInv, Inv, SlotSafe
<1>6. ASSUME NEW j \in Slots PROVE SupplyKnown(j)'
    <2>1. SupplyKnown(j)
        BY DEF SupplyInv
    <2>2. CASE j = i
        <3>1. ~Shows(i)'
            BY <1>1 DEF Shows
        <3>2. Recalled(i)' => slots'[i].offPending
            BY <1>2, <1>4, <2>1, <2>2 DEF SupplyKnown, Recalled
        <3>3. ~slots'[i].offPending /\ slots'[i].active => Certain(i)'
            BY <1>2, <1>3, <1>5, <2>1, <2>2 DEF SupplyKnown
        <3> QED
            BY <2>2, <3>1, <3>2, <3>3 DEF SupplyKnown
    <2>3. CASE j # i
        <3>1. Shows(j)' => Shows(j)
            BY <1>1, <2>3, ShowsKept DEF OthersView, SampleKept
        <3>2. slots'[j].offPending = slots[j].offPending /\ slots'[j].active = slots[j].active
            BY <1>1, <2>3 DEF OthersSame, Same, Keeps
        <3> QED
            BY <1>2, <2>1, <3>1, <3>2 DEF SupplyKnown
    <2> QED
        BY <2>2, <2>3
<1>7. \E k \in Slots : Retained(k)'
    <2>1. PICK k \in Slots : Retained(k)
        BY DEF SupplyInv
    <2>2. slots'[k].offPending = slots[k].offPending
        <3>1. CASE k = i
            BY <1>4, <2>1, <3>1 DEF Retained, Certain
        <3>2. CASE k # i
            BY <1>1, <3>2 DEF OthersSame, Same, Keeps
        <3> QED
            BY <3>1, <3>2
    <2> QED
        BY <1>2, <2>1, <2>2 DEF Retained
<1> QED
    BY <1>6, <1>7

(* The OFF that ends a mismatch: the gate knows the other pack to run, so  *)
(* it does, and this OFF is written down.                                  *)
LEMMA WriteOffSupply ==
    ASSUME SteadyPacks, SupplyInv, world.live # {}, NEW i \in Slots, WriteOff(i)
    PROVE  /\ \A j \in Slots : SupplyKnown(j)'
           /\ \E k \in Slots : Retained(k)'
<1> DEFINE e == isolation
<1>1. /\ DualInv /\ Inv /\ PackTypes /\ PacksSound /\ TagsHonest /\ Broken(isolation, slots)
      /\ Plain(isolation) /\ "off" \notin world.events
    BY DEF SupplyInv, TagsInv, DualInv, SteadyPacks, PackTypes
<1>2. /\ Off(i) /\ e.open /\ e.victim = i /\ IsolationReady(e)
      /\ UNCHANGED <<world, bay, live, memory, sampled>>
    BY <1>1 DEF WriteOff, IsolationOffAttempt, readVars
<1>3. PICK o \in Slots : o = e.survivor /\ o # i /\ slots[i].held
    <2>1. isolation \in IsolationType
        BY <1>1, InvParts DEF RestType
    <2> QED
        BY <1>1, <1>2, <2>1 DEF Broken, Plain, IsolationType
<1>4. slots[o].active /\ ~slots[o].offPending
    BY <1>1, <1>2, <1>3, Zenon DEF IsolationReady, Running, Plain
<1>5. Certain(o)
    BY <1>3, <1>4 DEF SupplyInv, SupplyKnown
<1>6. /\ slots'[i].offPending /\ OthersSame(i)
    <2>1. slots'[i].offPending
        BY <1>1, <1>2, <1>3, OffKind DEF Keeps, Withdrawn
    <2> QED
        BY <1>1, <1>2, <2>1, OffSlots
<1>7. ASSUME NEW j \in Slots \ {i}
      PROVE  (Certain(j)' <=> Certain(j)) /\ (Recalled(j)' <=> Recalled(j))
    <2>1. bay[j] # NoPack => bay[j] \in Packs /\ bay[j] # bay[i]
        BY <1>1 DEF PackTypes, PacksSound
    <2>2. bay[j] # NoPack => mailbox'[bay[j]] = mailbox[bay[j]]
        BY <1>1, <2>1 DEF WriteOff, InTouch, PackTypes
    <2> QED
        BY <1>2, <2>2 DEF Certain, Recalled
<1>8. ASSUME NEW j \in Slots PROVE SupplyKnown(j)'
    <2>1. CASE j = i
        BY <1>6, <2>1 DEF SupplyKnown
    <2>2. CASE j # i
        <3>1. View(slots[j], slots'[j]) /\ SampleKept(j)
            BY <1>1, <1>2, OffView DEF AllView, SampleKept
        <3>2. Shows(j)' => Shows(j)
            BY <3>1, ShowsKept
        <3>3. slots'[j].offPending = slots[j].offPending /\ slots'[j].active = slots[j].active
            BY <1>6, <2>2 DEF OthersSame, Same, Keeps
        <3> QED
            BY <1>7, <2>2, <3>2, <3>3 DEF SupplyInv, SupplyKnown
    <2> QED
        BY <2>1, <2>2
<1>9. Retained(o)'
    BY <1>3, <1>4, <1>5, <1>6, <1>7 DEF Retained, OthersSame, Same, Keeps
<1> QED
    BY <1>3, <1>8, <1>9

LEMMA SupplyInit ==
    ASSUME DualInit
    PROVE  SupplyInv
<1>1. TagsInv /\ Init /\ bay = world.bays /\ live = world.live /\ world \in Worlds
    BY TagInit DEF DualInit
<1>2. \A p \in Packs : mailbox[p] = "none"
    BY DEF DualInit
<1>3. PackTypes
    BY <1>1 DEF TagsInv, DualInv
<1>4. \A j \in Slots : ~slots[j].active /\ ~slots[j].offPending /\ ~sampled[j].done
    <2>1. PICK r \in InitialRoles :
             slots = [k \in Slots |-> IF k = 0 THEN EmptySlot(TRUE, TRUE)
                                               ELSE EmptySlot(r[1], r[2])]
        BY <1>1 DEF Init
    <2>2. \A j \in Slots : ~slots[j].active /\ ~slots[j].offPending
        BY <2>1 DEF EmptySlot
    <2> QED
        BY <2>2 DEF DualInit, NoFrame
<1>5. ASSUME NEW j \in Slots PROVE SupplyKnown(j)
    <2>1. bay[j] # NoPack => mailbox[bay[j]] = "none"
        BY <1>2, <1>3 DEF PackTypes
    <2> QED
        BY <1>4, <2>1 DEF SupplyKnown, Shows, Recalled
<1>6. ASSUME world.live # {} PROVE \E i \in Slots : Retained(i)
    <2>1. world.live \subseteq {world.bays[i] : i \in Slots} \ {NoPack}
        BY <1>1, PacksAssumption
    <2>2. PICK i \in Slots : world.bays[i] \in world.live /\ world.bays[i] # NoPack
        BY <1>6, <2>1
    <2>3. bay[i] \in Packs
        BY <1>1, <1>3, <2>2 DEF PackTypes
    <2> QED
        BY <1>1, <1>2, <1>4, <2>2, <2>3 DEF Retained, Certain
<1>7. Plain(isolation)
    BY <1>1 DEF Init, Plain, NoIsolation
<1> QED
    BY <1>1, <1>5, <1>6, <1>7 DEF SupplyInv

LEMMA SupplyNext ==
    ASSUME SteadyPacks, SupplyInv, misled' = {}, [DualNext]_allVars
    PROVE  SupplyInv'
<1>1. TagsInv /\ DualInv /\ TagsHonest /\ NoSwaps
    BY DEF SupplyInv, TagsInv, SteadyPacks
<1>2. TagsInv' /\ DualInv' /\ world' = world
    <2>1. TagsInv' /\ StepKinds
        BY <1>1, TagNext
    <2> QED
        BY <2>1 DEF StepKinds, CalmStep, BlindStep, SampleStep, ReadStep, OnStep, packVars, TagsInv
<1> SUFFICES ASSUME world.live # {}
             PROVE  /\ \A j \in Slots : SupplyKnown(j)'
                    /\ \E i \in Slots : Retained(i)'
    BY <1>1, <1>2, IsolationPlain DEF SupplyInv, SteadyPacks
<1>3. CASE SteadyStep
    BY <1>3, SteadySupply
<1>4. CASE PackStep
    BY <1>1, <1>3, <1>4, PackStepSteady
<1>5. ASSUME NEW i \in Slots, ReaderStep(i)
      PROVE  /\ \A j \in Slots : SupplyKnown(j)'
             /\ \E k \in Slots : Retained(k)'
    <2>1. CASE Discover(i) \/ \E departed \in BOOLEAN : LoseSight(i, departed)
        BY <1>1, <1>3, <2>1, DiscoverBlind, LoseSightBlind, BlindSteady
    <2>2. CASE BeginRead(i)
        BY <1>1, <2>2, BeginReadSample, SampleSupply
    <2>3. CASE CompleteRead(i)
        BY <1>1, <1>2, <2>3, CompleteReadStep, ReadSupply
    <2>4. CASE AbortRead(i)
        BY <1>1, <1>3, <2>4, AbortReadCalm, SameSteady DEF packVars
    <2>5. CASE WriteOn(i)
        BY <1>1, <1>3, <2>5, OnSteady
    <2>6. CASE WriteOff(i)
        BY <2>6, WriteOffSupply
    <2>7. CASE ShouldIsolate(i) /\ UNCHANGED <<packVars, readVars>>
        BY <1>1, <1>3, <2>7, ServiceCalm, SameSteady DEF packVars
    <2> QED
        BY <1>5, <2>1, <2>2, <2>3, <2>4, <2>5, <2>6, <2>7 DEF ReaderStep
<1>6. CASE Service /\ UNCHANGED <<packVars, readVars>>
    BY <1>1, <1>3, <1>6, ServiceCalm, SameSteady DEF packVars
<1>7. CASE PackTick
    <2>1. AllSame /\ UNCHANGED <<world, bay, live, mailbox>>
        BY <1>1, <1>7, PackTickCalm DEF AllSame, Same, Keeps, PackTick
    <2> QED
        BY <1>1, <1>3, <1>7, <2>1, PackTickCalm, SameSteady
<1>8. CASE UNCHANGED allVars
    <2>1. UNCHANGED vars /\ UNCHANGED <<packVars, readVars>>
        BY <1>8 DEF allVars
    <2> QED
        BY <1>1, <1>3, <2>1, ServiceCalm, SameSteady DEF packVars
<1> QED
    BY <1>4, <1>5, <1>6, <1>7, <1>8 DEF DualNext

(* Ending a mismatch never darkens the vehicle: as long as the packs that  *)
(* ran at the start do not stop by themselves and are not switched off     *)
(* from outside, and no early reading costs a pack its reservation, one of *)
(* them runs in every state, whatever the two readers conclude and in      *)
(* whichever order they act (isolationOffAttempt,                          *)
(* admission_isolation.go:132-145): commands may be lost or refused, packs *)
(* slow to start, reads fail or arrive late and the limit change at any    *)
(* time.                                                                   *)
THEOREM SupplyIsNeverLost ==
    ASSUME SteadyPacks
    PROVE  DualSpec /\ [](misled = {}) => []SupplyKept
<1>1. DualInit => SupplyInv
    BY SupplyInit
<1>2. SupplyInv /\ (misled = {})' /\ [DualNext]_allVars => SupplyInv'
    BY SupplyNext
<1>3. SupplyInv => SupplyKept
    BY DEF SupplyInv, SupplyKept, Retained, Certain
<1> QED
    BY <1>1, <1>2, <1>3, PTL DEF DualSpec
=============================================================================
