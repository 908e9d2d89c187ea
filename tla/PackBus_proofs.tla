--------------------------- MODULE PackBus_proofs ---------------------------
(***************************************************************************)
(* PackAdmission implements SupplyBus, and an isolation episode breaks one *)
(* supply before it makes another.  Both rest on one summary of the steps: *)
(* every action changes the command state of at most one slot, and in one  *)
(* of five ways.                                                           *)
(***************************************************************************)
EXTENDS PackRelease_proofs

-----------------------------------------------------------------------------
(* The command state of a slot and the ways it changes. *)

Keeps(s, t) ==
    /\ t.held = s.held /\ t.active = s.active /\ t.offPending = s.offPending
    /\ t.identityUncertain = s.identityUncertain
    /\ t.onAt = s.onAt /\ t.offAt = s.offAt

Replaced(s, t) ==
    /\ t.held = s.held /\ t.active = FALSE /\ t.offPending = s.offPending
    /\ t.identityUncertain = s.held
    /\ t.onAt = s.onAt /\ t.offAt = s.offAt

SeenRunning(s, t) ==
    /\ t.held = TRUE /\ t.active = TRUE /\ t.offPending = s.offPending
    /\ t.identityUncertain = FALSE
    /\ t.onAt = s.onAt /\ t.offAt = s.offAt

Released(s, t) ==
    /\ t.held = FALSE /\ t.active = FALSE /\ t.offPending = FALSE
    /\ t.identityUncertain = FALSE
    /\ t.onAt = s.onAt /\ t.offAt = s.offAt

Withdrawn(s, t) ==
    /\ s.held /\ t.held = s.held /\ t.active = s.active /\ t.offPending = TRUE
    /\ t.identityUncertain = s.identityUncertain
    /\ t.onAt = s.onAt /\ t.offAt = now

Activated(s, t) ==
    /\ ~s.held /\ t.held = TRUE /\ t.active = s.active /\ t.offPending = s.offPending
    /\ t.identityUncertain = s.identityUncertain
    /\ t.onAt = now /\ t.offAt = s.offAt

(* Nothing of the commands, of the pack's identity or of the time of the   *)
(* last reading has changed.                                               *)
Same(s, t) ==
    /\ Keeps(s, t) /\ t.uid = s.uid /\ t.serial = s.serial
    /\ t.lastOnAt = s.lastOnAt /\ t.observed = s.observed

OthersSame(i) == \A j \in Slots \ {i} : Same(slots[j], slots'[j])

AllSame == \A j \in Slots : Same(slots[j], slots'[j])

OthersKeep(i) == \A j \in Slots \ {i} : Keeps(slots[j], slots'[j])

AllKeep == \A j \in Slots : Keeps(slots[j], slots'[j])

(* The samples have no part in this. *)
LEMMA ForgetSame ==
    ASSUME NEW ss \in [Slots -> SlotType]
    PROVE  \A j \in Slots : Same(ss[j], Forget(ss)[j])
<1>1. ASSUME NEW s \in SlotType PROVE Same(s, [s EXCEPT !.history = <<>>])
    BY DEF SlotType, Same, Keeps
<1> QED
    BY <1>1, ForgetType

(* An action that puts r into slot i, with or without forgetting samples.  *)
LEMMA OneSlotSame ==
    ASSUME SlotsOK, NEW i \in Slots, NEW r \in SlotType,
           \/ slots' = [slots EXCEPT ![i] = r]
           \/ slots' = Forget([slots EXCEPT ![i] = r])
    PROVE  OthersSame(i) /\ Same(r, slots'[i])
<1> DEFINE ss == [slots EXCEPT ![i] = r]
<1>1. /\ ss \in [Slots -> SlotType] /\ ss[i] = r
      /\ \A j \in Slots \ {i} : ss[j] = slots[j]
    BY DEF SlotsOK
<1> HIDE DEF ss
<1>2. slots' = ss \/ slots' = Forget(ss)
    BY DEF ss
<1>3. \A j \in Slots : Same(ss[j], slots'[j])
    <2>1. \A j \in Slots : Same(ss[j], ss[j])
        BY DEF Same, Keeps
    <2> QED
        BY <1>1, <1>2, <2>1, ForgetSame
<1> QED
    BY <1>1, <1>3 DEF OthersSame

LEMMA OneSlotChanges ==
    ASSUME SlotsOK, NEW i \in Slots, NEW r \in SlotType,
           \/ slots' = [slots EXCEPT ![i] = r]
           \/ slots' = Forget([slots EXCEPT ![i] = r])
    PROVE  OthersKeep(i) /\ Keeps(r, slots'[i])
BY OneSlotSame DEF OthersSame, OthersKeep, Same

(* The same for an action that leaves the slots alone or forgets samples.  *)
LEMMA SamplesOnly ==
    ASSUME SlotsOK, slots' = slots \/ slots' = Forget(slots)
    PROVE  AllSame
<1>1. \A j \in Slots : Same(slots[j], slots[j])
    BY DEF Same, Keeps
<1> QED
    BY <1>1, ForgetSame DEF SlotsOK, AllSame

LEMMA SameKeep == AllSame => AllKeep
BY DEF AllSame, AllKeep, Same

LEMMA SameTrans ==
    ASSUME NEW s, NEW t, NEW u, Same(s, t), Same(t, u)
    PROVE  Same(s, u)
BY DEF Same, Keeps

(* Changes of a slot compose with changes that keep its command state. *)
LEMMA KeepsTrans ==
    ASSUME NEW s, NEW t, NEW u, Keeps(t, u)
    PROVE  /\ Keeps(s, t) => Keeps(s, u)
           /\ Replaced(s, t) => Replaced(s, u)
           /\ SeenRunning(s, t) => SeenRunning(s, u)
           /\ Released(s, t) => Released(s, u)
           /\ Withdrawn(s, t) => Withdrawn(s, u)
           /\ Activated(s, t) => Activated(s, u)
BY DEF Keeps, Replaced, SeenRunning, Released, Withdrawn, Activated

-----------------------------------------------------------------------------
(* One lemma per action of a reader. *)

(* A tag: the pack is the same, or it is replaced. *)
LEMMA TagKind ==
    ASSUME Inv, NEW i \in Slots, NEW uid \in Uids, Tag(i, uid)
    PROVE  /\ OthersKeep(i)
           /\ Keeps(slots[i], slots'[i]) \/ Replaced(slots[i], slots'[i])
<1>1. SlotsOK /\ slots[i] \in SlotType
    BY InvParts DEF SlotsOK, SlotOK
<1> DEFINE q == slots[i].requiresAdmission \/ vehicle \in NonDriving
           same == [slots[i] EXCEPT !.valid = FALSE, !.haveFrame = FALSE,
                !.written = Zero, !.absent = FALSE, !.requiresAdmission = q]
           r == IF slots[i].uid = uid THEN same ELSE ReplaceIdentity(slots[i], uid)
<1>2. slots' = Forget([slots EXCEPT ![i] = r])
    BY DEF Tag
<1>3. q \in BOOLEAN
    OBVIOUS
<1> HIDE DEF q
<1>4. same \in SlotType
    BY <1>1, <1>3 DEF SlotType, Zero
<1>5. Keeps(slots[i], same)
    BY <1>1 DEF SlotType, Keeps
<1>6. ReplaceIdentity(slots[i], uid) \in SlotType
    BY <1>1, ReplaceIdentityType
<1>7. Replaced(slots[i], ReplaceIdentity(slots[i], uid))
    BY DEF ReplaceIdentity, EmptySlot, Replaced
<1> HIDE DEF same
<1>8. r \in SlotType /\ (Keeps(slots[i], r) \/ Replaced(slots[i], r))
    BY <1>4, <1>5, <1>6, <1>7
<1> HIDE DEF r
<1>9. OthersKeep(i) /\ Keeps(r, slots'[i])
    BY <1>1, <1>2, <1>8, OneSlotChanges
<1> QED
    BY <1>8, <1>9, KeepsTrans

(* Losing sight of a pack, a failed read and a reconciliation keep all     *)
(* commands; so does starting a read.                                      *)
LEMMA QuietReaderKind ==
    ASSUME Inv, NEW i \in Slots,
           \/ \E departed \in BOOLEAN : ObserveAbsent(i, departed)
           \/ StartRead(i) \/ FailRead(i) \/ ShouldIsolate(i)
    PROVE  AllKeep
<1>1. SlotsOK /\ slots[i] \in SlotType /\ now \in Nat
    BY InvParts DEF SlotsOK, SlotOK, RestType
<1>2. ASSUME NEW r \in SlotType, Keeps(slots[i], r),
             slots' = Forget([slots EXCEPT ![i] = r])
      PROVE  AllKeep
    BY <1>1, <1>2, OneSlotChanges, KeepsTrans DEF AllKeep, OthersKeep
<1>3. ASSUME NEW departed \in BOOLEAN, ObserveAbsent(i, departed) PROVE AllKeep
    <2> DEFINE q == slots[i].requiresAdmission \/ vehicle \in NonDriving
               a == ~slots[i].held
               r == [slots[i] EXCEPT !.valid = FALSE, !.haveFrame = FALSE,
                        !.written = Zero, !.observedRound = 0,
                        !.requiresAdmission = q, !.absent = a, !.observed = now]
    <2>1. slots' = Forget([slots EXCEPT ![i] = r])
        BY <1>3 DEF ObserveAbsent
    <2>2. q \in BOOLEAN /\ a \in BOOLEAN
        OBVIOUS
    <2> HIDE DEF q, a
    <2>3. r \in SlotType
        BY <1>1, <2>2 DEF SlotType, Zero
    <2>4. Keeps(slots[i], r)
        BY <1>1 DEF SlotType, Keeps
    <2> HIDE DEF r
    <2> QED
        BY <1>2, <2>1, <2>3, <2>4
<1>4. CASE FailRead(i)
    <2> DEFINE r == [slots[i] EXCEPT !.valid = FALSE, !.absent = FALSE]
    <2>1. slots' = Forget([slots EXCEPT ![i] = r])
        BY <1>1, <1>4 DEF FailRead, SlotsOK
    <2>2. r \in SlotType /\ Keeps(slots[i], r)
        BY <1>1 DEF SlotType, Keeps
    <2> HIDE DEF r
    <2> QED
        BY <1>2, <2>1, <2>2
<1>5. CASE StartRead(i) \/ ShouldIsolate(i)
    BY <1>1, <1>5, SamplesOnly, SameKeep DEF StartRead, ShouldIsolate
<1> QED
    BY <1>3, <1>4, <1>5

(* An ON: a repeated one changes no command state, a first one reserves.   *)
LEMMA RequestOnKind ==
    ASSUME Inv, NEW i \in Slots
    PROVE  /\ RepeatOn(i) \/ RequalifyOn(i) => AllKeep
           /\ ActivateOn(i) => OthersKeep(i) /\ Activated(slots[i], slots'[i])
<1>1. SlotsOK /\ slots[i] \in SlotType /\ now \in Nat
    BY InvParts DEF SlotsOK, SlotOK, RestType
<1> DEFINE g == Granted(slots[i])
           r == [g EXCEPT !.held = TRUE, !.onAt = now]
<1>2. g \in SlotType /\ Keeps(slots[i], g)
    BY <1>1 DEF Granted, SlotType, Keeps
<1> HIDE DEF g
<1>3. ASSUME RepeatOn(i) \/ RequalifyOn(i) PROVE AllKeep
    <2>1. slots' = [slots EXCEPT ![i] = g] \/ slots' = Forget([slots EXCEPT ![i] = g])
        BY <1>1, <1>3 DEF RepeatOn, RequalifyOn, SlotsOK, g
    <2>2. OthersKeep(i) /\ Keeps(g, slots'[i])
        BY <1>1, <1>2, <2>1, OneSlotChanges
    <2> QED
        BY <1>2, <2>2, KeepsTrans DEF AllKeep, OthersKeep
<1>4. ASSUME ActivateOn(i) PROVE OthersKeep(i) /\ Activated(slots[i], slots'[i])
    <2>1. slots' = Forget([slots EXCEPT ![i] = r]) /\ ~slots[i].held
        BY <1>1, <1>4 DEF ActivateOn, SlotsOK, g
    <2>2. r \in SlotType
        BY <1>1, <1>2 DEF SlotType
    <2>3. /\ r.held = TRUE /\ r.onAt = now /\ r.active = g.active
          /\ r.offPending = g.offPending /\ r.offAt = g.offAt
          /\ r.identityUncertain = g.identityUncertain
        BY <1>2 DEF SlotType
    <2> HIDE DEF r
    <2>4. OthersKeep(i) /\ Keeps(r, slots'[i])
        BY <1>1, <2>1, <2>2, OneSlotChanges
    <2>5. Activated(slots[i], r)
        BY <1>2, <2>1, <2>3 DEF Keeps, Activated
    <2> QED
        BY <2>4, <2>5, KeepsTrans
<1> QED
    BY <1>3, <1>4

(* An OFF: a reserved supply is withdrawn, and an OFF that is already on   *)
(* its way or has nothing to switch off changes nothing.                   *)
LEMMA OffKind ==
    ASSUME Inv, NEW i \in Slots, Off(i)
    PROVE  /\ OthersKeep(i)
           /\ \/ Withdrawn(slots[i], slots'[i])
              \/ /\ Keeps(slots[i], slots'[i])
                 /\ slots[i].held => slots[i].offPending
<1>1. SlotsOK /\ SlotOK(i, slots[i]) /\ slots[i] \in SlotType /\ now \in Nat
    BY InvParts DEF SlotsOK, SlotOK, RestType
<1> DEFINE r == OffReserved(slots[i])
<1>2. slots' = Forget([slots EXCEPT ![i] = r])
    BY <1>1 DEF Off, SlotsOK
<1>3. r \in SlotType
    BY <1>1, OffReservedQuiet DEF Quiet, SlotOK
<1>4. \/ Withdrawn(slots[i], r)
      \/ Keeps(slots[i], r) /\ (slots[i].held => slots[i].offPending)
    <2>1. CASE slots[i].held /\ (~slots[i].offPending \/ slots[i].lastOnAt > slots[i].offAt)
        <3>1. r = [slots[i] EXCEPT !.offPending = TRUE, !.offAt = now]
            BY <2>1 DEF OffReserved
        <3> HIDE DEF r
        <3> QED
            BY <1>1, <2>1, <3>1 DEF Withdrawn, SlotType
    <2>2. CASE ~(slots[i].held /\ (~slots[i].offPending \/ slots[i].lastOnAt > slots[i].offAt))
        <3>1. r = slots[i] /\ (slots[i].held => slots[i].offPending)
            BY <1>1, <2>2 DEF OffReserved, SlotType
        <3> HIDE DEF r
        <3> QED
            BY <3>1 DEF Keeps
    <2> QED
        BY <2>1, <2>2
<1> HIDE DEF r
<1>5. OthersKeep(i) /\ Keeps(r, slots'[i])
    BY <1>1, <1>2, <1>3, OneSlotChanges
<1> QED
    BY <1>4, <1>5, KeepsTrans

-----------------------------------------------------------------------------
(* A completed read. *)

(* What Recorded leaves of the command state.  A changed serial number     *)
(* also clears the frame the next one is compared with, so the reading     *)
(* that reveals another pack is never a valid one.                         *)
LEMMA RecordedKind ==
    ASSUME NEW s \in SlotType, NEW data \in FrameType, NEW t \in Nat
    PROVE  /\ IdentityChanged(s, data) =>
                Replaced(s, Recorded(s, data, t)) /\ ~Recorded(s, data, t).valid
           /\ ~IdentityChanged(s, data) => Keeps(s, Recorded(s, data, t))
<1> DEFINE base == IF IdentityChanged(s, data) THEN ReplaceIdentity(s, s.uid) ELSE s
           written == IF base.haveFrame /\ statusFrameChanged(base.frame, data)
                      THEN t ELSE base.written
           valid == /\ data.present /\ data.voltage > 0
                    /\ data.state \in {"active", "idle", "asleep"}
                    /\ written # Zero
           tracked == base.powerTracked \/ data.state = "active"
           serial == IF data.serial = NoSerial THEN base.serial ELSE data.serial
           record(b, p, c, w, v) == [b EXCEPT
                !.powerTracked = p, !.serial = c, !.written = w,
                !.frame = data, !.haveFrame = TRUE, !.observed = t,
                !.absent = FALSE, !.valid = v]
<1>1. s.uid \in Uids \cup {NoUid}
    BY DEF SlotType
<1>2. ReplaceIdentity(s, s.uid) \in SlotType
    BY <1>1, ReplaceIdentityType
<1>3. base \in SlotType
    BY <1>2
<1>4. Recorded(s, data, t) = record(base, tracked, serial, written, valid)
    BY DEF Recorded
<1>5. ASSUME NEW b \in SlotType, NEW p, NEW c, NEW w, NEW v \in BOOLEAN
      PROVE  Keeps(b, record(b, p, c, w, v)) /\ record(b, p, c, w, v).valid = v
    BY DEF SlotType, Keeps
<1>6. valid \in BOOLEAN
    OBVIOUS
<1>7. ASSUME IdentityChanged(s, data) PROVE Replaced(s, base) /\ ~valid
    <2>1. base = ReplaceIdentity(s, s.uid)
        BY <1>7
    <2>2. Replaced(s, ReplaceIdentity(s, s.uid))
        BY DEF ReplaceIdentity, EmptySlot, Replaced
    <2>3. /\ ReplaceIdentity(s, s.uid).haveFrame = FALSE
          /\ ReplaceIdentity(s, s.uid).written = Zero
        BY DEF ReplaceIdentity, EmptySlot
    <2> HIDE DEF base
    <2> QED
        BY <2>1, <2>2, <2>3
<1>8. ASSUME ~IdentityChanged(s, data) PROVE Keeps(s, base)
    BY <1>8 DEF Keeps
<1> HIDE DEF base, written, valid, tracked, serial, record
<1>9. /\ Keeps(base, Recorded(s, data, t))
      /\ Recorded(s, data, t).valid = valid
    BY <1>3, <1>4, <1>5, <1>6
<1> QED
    BY <1>7, <1>8, <1>9, KeepsTrans

(* What Resolved does to the command state. *)
LEMMA ResolvedKind ==
    ASSUME NEW s \in SlotType, NEW t \in Nat
    PROVE  \/ s.valid /\ SeenRunning(s, Resolved(s, t)) /\ ~OffEvidence(s, t)
           \/ s.valid /\ Released(s, Resolved(s, t)) /\ OffEvidence(s, t)
           \/ Keeps(s, Resolved(s, t)) /\ ~OffEvidence(s, t)
<1>1. CASE s.valid /\ s.frame.state = "active"
    <2>1. Resolved(s, t) = [s EXCEPT !.held = TRUE, !.active = TRUE,
                                     !.identityUncertain = FALSE]
        BY <1>1 DEF Resolved
    <2>2. ~OffEvidence(s, t)
        BY <1>1 DEF OffEvidence
    <2> QED
        BY <1>1, <2>1, <2>2 DEF SeenRunning, SlotType
<1>2. CASE ~(s.valid /\ s.frame.state = "active") /\ OffEvidence(s, t)
    <2>1. Resolved(s, t) = [s EXCEPT !.held = FALSE, !.active = FALSE,
                               !.offPending = FALSE, !.identityUncertain = FALSE]
        BY <1>2 DEF Resolved
    <2>2. s.valid
        BY <1>2 DEF OffEvidence
    <2> QED
        BY <1>2, <2>1, <2>2 DEF Released, SlotType
<1>3. CASE ~(s.valid /\ s.frame.state = "active") /\ ~OffEvidence(s, t)
    BY <1>3 DEF Resolved, Keeps
<1> QED
    BY <1>1, <1>2, <1>3

(* Two slots that differ in nothing a pair of readings is judged by. *)
Alike(s, t) ==
    /\ Keeps(s, t) /\ t.valid = s.valid
    /\ t.observed = s.observed /\ t.observedRound = s.observedRound

(* Two slots to which the pack has shown the same. *)
SameView(s, t) ==
    /\ t.frame = s.frame /\ t.haveFrame = s.haveFrame /\ t.written = s.written
    /\ t.absent = s.absent /\ t.powerTracked = s.powerTracked

(* Two slots that differ in their samples at most. *)
Twin(s, t) == Same(s, t) /\ Alike(s, t) /\ SameView(s, t)

(* FinishRead up to the samples: the other slot stays what it was, and the *)
(* slot that was read holds the resolved reading.                          *)
LEMMA FinishReadSlots ==
    ASSUME Inv, NEW i \in Slots, NEW data \in FrameType, NEW start, NEW end,
           FinishRead(i, data, start, end)
    PROVE  /\ \A j \in Slots \ {i} : Twin(slots[j], slots'[j])
           /\ Keeps(Resolved(Recorded(slots[i], data, now), now), slots'[i])
           /\ slots'[i].valid = Recorded(slots[i], data, now).valid
           /\ slots'[i].observed = now
           /\ slots'[i].observedRound = reading[i].id
           /\ slots'[i].uid = Recorded(slots[i], data, now).uid
           /\ slots'[i].serial = Recorded(slots[i], data, now).serial
           /\ slots'[i].lastOnAt = Recorded(slots[i], data, now).lastOnAt
           /\ SameView(Recorded(slots[i], data, now), slots'[i])
<1> DEFINE id == reading[i].id
           seen == Recorded(slots[i], data, now)
           cancelled == \/ IdentityChanged(slots[i], data)
                        \/ OffEvidence(seen, now) /\ seen.held
           res == Resolved(seen, now)
           s == [res EXCEPT !.observedRound = id,
                            !.history = IF cancelled \/ ~seen.valid THEN <<>> ELSE @]
           ss == [slots EXCEPT ![i] = s]
           after == IF cancelled THEN Forget(ss) ELSE ss
<1>1. SlotsOK /\ SlotOK(i, slots[i]) /\ slots[i] \in SlotType
      /\ now \in Nat /\ id \in Nat /\ i \in Monitored
    BY InvParts DEF SlotsOK, SlotOK, RestType, FinishRead, EndRead, Inv, ReadersMonitored
<1>2. /\ Quiet(i, slots[i], seen) /\ ~seen.absent /\ seen.frame = data
      /\ data.state = "active" => seen.powerTracked
      /\ seen.observed = now
    <2>1. Quiet(i, slots[i], seen)
        BY <1>1, RecordedFields, ZenonT(60)
    <2>2. ~seen.absent
        BY <1>1, RecordedFields, ZenonT(60)
    <2>3. seen.frame = data
        BY <1>1, RecordedFields, ZenonT(60)
    <2>4. data.state = "active" => seen.powerTracked
        BY <1>1, RecordedFields, ZenonT(60)
    <2>5. seen.observed = now
        BY <1>1, RecordedFields, ZenonT(60)
    <2> QED
        BY <2>1, <2>2, <2>3, <2>4, <2>5
<1> HIDE DEF seen
<1>3. SlotOK(i, seen) /\ seen \in SlotType
    BY <1>2 DEF Quiet, SlotOK
<1>4. /\ res \in SlotType /\ res.valid = seen.valid /\ res.observed = now
      /\ res.uid = seen.uid /\ res.serial = seen.serial /\ res.lastOnAt = seen.lastOnAt
      /\ SameView(seen, res)
    <2>1. Quiet(i, seen, res)
        BY <1>1, <1>2, <1>3, ResolvedQuiet
    <2>2. /\ res.valid = seen.valid /\ res.observed = seen.observed
          /\ res.uid = seen.uid /\ res.serial = seen.serial
          /\ res.lastOnAt = seen.lastOnAt
        BY <1>3 DEF Resolved, SlotType
    <2>3. SameView(seen, res)
        BY <1>3 DEF Resolved, SlotType, SameView
    <2> QED
        BY <1>2, <2>1, <2>2, <2>3 DEF Quiet, SlotOK
<1> HIDE DEF res, cancelled
<1>5. /\ s \in SlotType /\ Keeps(res, s) /\ s.valid = seen.valid
      /\ s.observed = now /\ s.observedRound = id
      /\ s.uid = res.uid /\ s.serial = res.serial /\ s.lastOnAt = res.lastOnAt
      /\ SameView(res, s)
    <2> DEFINE h == IF cancelled \/ ~seen.valid THEN <<>> ELSE res.history
    <2>1. h \in Seq(HistorySample)
        <3>1. <<>> \in Seq(HistorySample)
            OBVIOUS
        <3> QED BY <1>4, <3>1 DEF SlotType
    <2>2. s = [res EXCEPT !.observedRound = id, !.history = h]
        BY <1>4 DEF SlotType
    <2> HIDE DEF h, s
    <2>3. s \in SlotType
        BY <1>1, <1>4, <2>1, <2>2 DEF SlotType
    <2>4. Keeps(res, s) /\ s.valid = res.valid /\ s.observed = res.observed
          /\ s.observedRound = id
        BY <1>4, <2>2 DEF SlotType, Keeps
    <2>5. s.uid = res.uid /\ s.serial = res.serial /\ s.lastOnAt = res.lastOnAt
        BY <1>4, <2>2 DEF SlotType
    <2>6. SameView(res, s)
        BY <1>4, <2>2 DEF SlotType, SameView
    <2> QED
        BY <1>4, <2>3, <2>4, <2>5, <2>6
<1> HIDE DEF s
<1>6. ASSUME NEW t \in SlotType, NEW x
      PROVE  Twin(t, t) /\ Twin(t, [t EXCEPT !.history = x])
    <2>1. Same(t, t) /\ Same(t, [t EXCEPT !.history = x])
        BY DEF SlotType, Same, Keeps
    <2>2. Alike(t, t) /\ Alike(t, [t EXCEPT !.history = x])
        BY DEF SlotType, Alike, Keeps
    <2>3. SameView(t, t) /\ SameView(t, [t EXCEPT !.history = x])
        BY DEF SlotType, SameView
    <2> QED
        BY <2>1, <2>2, <2>3 DEF Twin
<1>7. ASSUME NEW ts \in [Slots -> SlotType], NEW j \in Slots
      PROVE  Twin(ts[j], Forget(ts)[j])
    <2>1. Forget(ts)[j] = [ts[j] EXCEPT !.history = <<>>]
        BY ForgetType
    <2>2. ts[j] \in SlotType
        OBVIOUS
    <2>3. Twin(ts[j], [ts[j] EXCEPT !.history = <<>>])
        BY <1>6, <2>2
    <2> QED
        BY <2>1, <2>3
<1>8. /\ ss \in [Slots -> SlotType] /\ ss[i] = s
      /\ \A j \in Slots \ {i} : ss[j] = slots[j]
    BY <1>1, <1>5 DEF SlotsOK
<1> HIDE DEF ss
<1>9. after \in [Slots -> SlotType] /\ \A j \in Slots : Twin(ss[j], after[j])
    <2>1. \A j \in Slots : Twin(ss[j], ss[j])
        BY <1>6, <1>8
    <2>2. /\ Forget(ss) \in [Slots -> SlotType]
          /\ \A j \in Slots : Twin(ss[j], Forget(ss)[j])
        BY <1>7, <1>8, ForgetType
    <2> QED
        BY <1>8, <2>1, <2>2
<1> HIDE DEF after
<1> DEFINE single == [voltage |-> data.voltage, current |-> data.current, at |-> now]
           samples == [round.samples EXCEPT ![i] =
                         [start |-> start, end |-> end, complete |-> now,
                          voltage |-> data.voltage, current |-> data.current]]
<1>10. \A j \in Slots : Twin(after[j], slots'[j])
    <2>1. CASE slots' = after
        BY <1>6, <1>9, <2>1
    <2>2. CASE slots' = Forget(after)
        BY <1>7, <1>9, <2>2
    <2>3. CASE slots' = [after EXCEPT ![i].history = AppendHistory(@, single)]
        <3>1. /\ slots'[i] = [after[i] EXCEPT !.history = AppendHistory(@, single)]
              /\ \A j \in Slots \ {i} : slots'[j] = after[j]
            BY <1>9, <2>3
        <3>2. slots'[i] = [after[i] EXCEPT !.history = AppendHistory(after[i].history, single)]
            BY <3>1
        <3> DEFINE x == AppendHistory(after[i].history, single)
        <3>3. Twin(after[i], [after[i] EXCEPT !.history = x])
            BY <1>6, <1>9
        <3>4. \A j \in Slots : Twin(after[j], after[j])
            BY <1>6, <1>9
        <3> QED
            BY <3>1, <3>2, <3>3, <3>4
    <2>4. CASE slots' = [j \in Slots |-> [after[j] EXCEPT !.history =
                           AppendHistory(@, [voltage |-> samples[j].voltage,
                                             current |-> samples[j].current,
                                             at |-> samples[j].start])]]
        <3> DEFINE x(j) == AppendHistory(after[j].history,
                             [voltage |-> samples[j].voltage,
                              current |-> samples[j].current, at |-> samples[j].start])
        <3>1. \A j \in Slots : slots'[j] = [after[j] EXCEPT !.history = x(j)]
            BY <2>4
        <3> HIDE DEF x
        <3>2. ASSUME NEW j \in Slots PROVE Twin(after[j], [after[j] EXCEPT !.history = x(j)])
            BY <1>6, <1>9
        <3> QED
            BY <3>1, <3>2
    <2> QED
        BY <2>1, <2>2, <2>3, <2>4
        DEF FinishRead, after, ss, s, res, seen, cancelled
<1>11. ASSUME NEW t, NEW u, NEW v, Twin(t, u), Twin(u, v) PROVE Twin(t, v)
    BY <1>11, SameTrans DEF Twin, Alike, Same, Keeps, SameView
<1>12. \A j \in Slots : Twin(ss[j], slots'[j])
    BY <1>9, <1>10, <1>11
<1>13. Keeps(res, slots'[i])
    BY <1>5, <1>8, <1>12, KeepsTrans DEF Twin, Same
<1>14. /\ slots'[i].valid = seen.valid /\ slots'[i].observed = now
       /\ slots'[i].observedRound = id
       /\ slots'[i].uid = seen.uid /\ slots'[i].serial = seen.serial
       /\ slots'[i].lastOnAt = seen.lastOnAt
       /\ SameView(seen, slots'[i])
    <2>1. /\ slots'[i].valid = s.valid /\ slots'[i].observed = s.observed
          /\ slots'[i].observedRound = s.observedRound
        BY <1>8, <1>12 DEF Twin, Alike
    <2>2. /\ slots'[i].uid = s.uid /\ slots'[i].serial = s.serial
          /\ slots'[i].lastOnAt = s.lastOnAt
        BY <1>8, <1>12 DEF Twin, Same
    <2>3. SameView(s, slots'[i])
        BY <1>8, <1>12 DEF Twin
    <2>4. SameView(seen, slots'[i])
        BY <1>4, <1>5, <2>3 DEF SameView
    <2> QED
        BY <1>4, <1>5, <2>1, <2>2, <2>4
<1> QED
    BY <1>8, <1>12, <1>13, <1>14 DEF res, seen

(* A read leaves the commands alone, finds another pack, sees the pack     *)
(* run, or releases it on evidence.                                        *)
LEMMA FinishReadKind ==
    ASSUME Inv, NEW i \in Slots, NEW data \in FrameType, NEW start, NEW end,
           FinishRead(i, data, start, end)
    PROVE  LET seen == Recorded(slots[i], data, now)
           IN  /\ OthersKeep(i)
               /\ \/ Keeps(slots[i], slots'[i]) /\ ~OffEvidence(seen, now)
                  \/ Replaced(slots[i], slots'[i]) /\ ~OffEvidence(seen, now)
                  \/ SeenRunning(slots[i], slots'[i]) /\ ~OffEvidence(seen, now)
                  \/ Released(slots[i], slots'[i]) /\ OffEvidence(seen, now)
<1> DEFINE seen == Recorded(slots[i], data, now)
           res == Resolved(seen, now)
<1>1. slots[i] \in SlotType /\ SlotOK(i, slots[i]) /\ now \in Nat
    BY InvParts DEF SlotsOK, SlotOK, RestType
<1>2. OthersKeep(i) /\ Keeps(res, slots'[i])
    BY FinishReadSlots DEF OthersKeep, Twin, Same
<1>3. /\ IdentityChanged(slots[i], data) => Replaced(slots[i], seen) /\ ~seen.valid
      /\ ~IdentityChanged(slots[i], data) => Keeps(slots[i], seen)
    BY <1>1, RecordedKind
<1>4. seen \in SlotType
    <2>1. Quiet(i, slots[i], seen)
        BY <1>1, RecordedFields, ZenonT(60)
    <2> QED
        BY <2>1 DEF Quiet, SlotOK
<1> HIDE DEF seen
<1>5. \/ seen.valid /\ SeenRunning(seen, res) /\ ~OffEvidence(seen, now)
      \/ seen.valid /\ Released(seen, res) /\ OffEvidence(seen, now)
      \/ Keeps(seen, res) /\ ~OffEvidence(seen, now)
    BY <1>1, <1>4, ResolvedKind
<1> HIDE DEF res
<1>6. CASE IdentityChanged(slots[i], data)
    <2>1. Replaced(slots[i], slots'[i]) /\ ~OffEvidence(seen, now)
        BY <1>2, <1>3, <1>5, <1>6, KeepsTrans
    <2> QED
        BY <1>2, <2>1 DEF seen
<1>7. CASE ~IdentityChanged(slots[i], data)
    <2>1. Keeps(slots[i], seen)
        BY <1>3, <1>7
    <2>2. \/ SeenRunning(slots[i], res) /\ ~OffEvidence(seen, now)
          \/ Released(slots[i], res) /\ OffEvidence(seen, now)
          \/ Keeps(slots[i], res) /\ ~OffEvidence(seen, now)
        BY <1>5, <2>1 DEF Keeps, SeenRunning, Released
    <2>3. \/ SeenRunning(slots[i], slots'[i]) /\ ~OffEvidence(seen, now)
          \/ Released(slots[i], slots'[i]) /\ OffEvidence(seen, now)
          \/ Keeps(slots[i], slots'[i]) /\ ~OffEvidence(seen, now)
        BY <1>2, <2>2, KeepsTrans
    <2> QED
        BY <1>2, <2>3 DEF seen
<1> QED
    BY <1>6, <1>7

-----------------------------------------------------------------------------
(* The service, the clocks and stuttering change nothing of this. *)
LEMMA ServiceSame ==
    ASSUME Inv,
           \/ Service \/ Tick \/ UNCHANGED vars
           \/ \E offset \in ClockOffsets : SetClock(offset)
    PROVE  AllSame
<1>1. SlotsOK
    BY InvParts
<1>2. CASE \/ BeginRound \/ StopSampling \/ ResetMotionStream
           \/ (\E r \in Reports : ReceiveMotion(r))
           \/ (\E state \in Vehicles : SetVehicle(state))
           \/ (\E d \in Deltas : SetMaxDelta(d))
           \/ Tick \/ UNCHANGED vars
           \/ \E offset \in ClockOffsets : SetClock(offset)
    <2>1. slots' = slots \/ slots' = Forget(slots)
        BY <1>2, Zenon
        DEF BeginRound, StopSampling, ResetMotionStream, ReceiveMotion, SetVehicle,
            SetMaxDelta, Tick, SetClock, vars, evidence
    <2> QED
        BY <1>1, <2>1, SamplesOnly
<1>3. ASSUME NEW closed \in BOOLEAN, SetSeatbox(closed) PROVE AllSame
    <2> DEFINE q(j) == slots[j].requiresAdmission \/ ~slots[j].held \/ ~slots[j].active
               r(j) == [slots[j] EXCEPT !.valid = FALSE, !.observedRound = 0,
                                        !.requiresAdmission = q(j)]
               ss == [j \in Slots |-> r(j)]
    <2>1. slots' = Forget(ss)
        BY <1>1, <1>3 DEF SetSeatbox, SlotsOK, SlotType
    <2>2. \A j \in Slots : q(j) \in BOOLEAN
        OBVIOUS
    <2> HIDE DEF q
    <2>3. ASSUME NEW j \in Slots PROVE r(j) \in SlotType /\ Same(slots[j], r(j))
        <3>1. slots[j] \in SlotType /\ q(j) \in BOOLEAN
            BY <1>1, <2>2 DEF SlotsOK
        <3>2. r(j) \in SlotType
            BY <3>1 DEF SlotType
        <3>3. Same(slots[j], r(j))
            BY <3>1 DEF SlotType, Same, Keeps
        <3> QED
            BY <3>2, <3>3
    <2> HIDE DEF r
    <2>4. ss \in [Slots -> SlotType] /\ \A j \in Slots : Same(slots[j], ss[j])
        BY <2>3
    <2> HIDE DEF ss
    <2>5. \A j \in Slots : Same(ss[j], slots'[j])
        BY <2>1, <2>4, ForgetSame
    <2> QED
        BY <2>4, <2>5, SameTrans DEF AllSame
<1>4. ASSUME NEW eligible \in BOOLEAN, SetRole(eligible) PROVE AllSame
    <2> DEFINE p == slots[1].powerTracked \/ eligible
               r == [slots[1] EXCEPT !.eligible = eligible, !.powerTracked = p]
    <2>1. 1 \in Slots /\ slots[1] \in SlotType
        BY <1>1 DEF Slots, SlotsOK
    <2>2. slots' = Forget([slots EXCEPT ![1] = r])
        <3>1. [slots EXCEPT ![1] = r]
              = [slots EXCEPT ![1].eligible = eligible, ![1].powerTracked = @ \/ eligible]
            BY <1>1, <2>1 DEF SlotsOK, SlotType
        <3> QED
            BY <1>4, <3>1 DEF SetRole
    <2>3. p \in BOOLEAN
        OBVIOUS
    <2> HIDE DEF p
    <2>4. r \in SlotType /\ Same(slots[1], r)
        BY <2>1, <2>3, ZenonT(60) DEF SlotType, Same, Keeps
    <2> HIDE DEF r
    <2>5. OthersSame(1) /\ Same(r, slots'[1])
        BY <1>1, <2>1, <2>2, <2>4, OneSlotSame
    <2> QED
        BY <2>4, <2>5, SameTrans DEF AllSame, OthersSame
<1> QED
    BY <1>2, <1>3, <1>4 DEF Service

LEMMA ServiceKind ==
    ASSUME Inv,
           \/ Service \/ Tick \/ UNCHANGED vars
           \/ \E offset \in ClockOffsets : SetClock(offset)
    PROVE  AllKeep
BY ServiceSame, SameKeep

(* The summary: at most one slot changes, in one of five ways, and a new   *)
(* reservation is a first ON that the gate admitted.                       *)
LEMMA StepKind ==
    ASSUME Inv, [Next]_vars
    PROVE  \/ AllKeep
           \/ \E i \in Slots :
                /\ OthersKeep(i)
                /\ \/ Replaced(slots[i], slots'[i])
                   \/ SeenRunning(slots[i], slots'[i])
                   \/ Released(slots[i], slots'[i])
                   \/ Withdrawn(slots[i], slots'[i])
                   \/ ActivateOn(i) /\ Activated(slots[i], slots'[i])
<1> DEFINE Goal == \/ AllKeep
                   \/ \E i \in Slots :
                        /\ OthersKeep(i)
                        /\ \/ Replaced(slots[i], slots'[i])
                           \/ SeenRunning(slots[i], slots'[i])
                           \/ Released(slots[i], slots'[i])
                           \/ Withdrawn(slots[i], slots'[i])
                           \/ ActivateOn(i) /\ Activated(slots[i], slots'[i])
<1>0. ASSUME NEW i \in Slots, OthersKeep(i), Keeps(slots[i], slots'[i]) PROVE AllKeep
    BY <1>0 DEF OthersKeep, AllKeep
<1>1. ASSUME NEW i \in Slots, Reader(i) PROVE Goal
    <2>1. CASE \E uid \in Uids : Tag(i, uid)
        BY <1>0, <2>1, TagKind
    <2>2. CASE \/ \E departed \in BOOLEAN : ObserveAbsent(i, departed)
               \/ StartRead(i) \/ FailRead(i) \/ ShouldIsolate(i)
        BY <2>2, QuietReaderKind
    <2>3. CASE \E data \in Frames : \E start, end \in reading[i].from..now :
                  FinishRead(i, data, start, end)
        BY <1>0, <2>3, FinishReadKind, FramesAssumption
    <2>4. CASE RequestOn(i)
        BY <2>4, RequestOnKind DEF RequestOn
    <2>5. CASE Off(i)
        BY <1>0, <2>5, OffKind
    <2> QED
        BY <1>1, <2>1, <2>2, <2>3, <2>4, <2>5 DEF Reader, OffAttempt, IsolationOffAttempt
<1>2. CASE \/ Service \/ Tick \/ UNCHANGED vars
           \/ \E offset \in ClockOffsets \ {wall} : SetClock(offset)
    BY <1>2, ServiceKind
<1> QED
    BY <1>1, <1>2 DEF Next

-----------------------------------------------------------------------------
(* Refinement. *)

(* What the gate asks of the other slot before a first ON. *)
LEMMA PeerSettled ==
    ASSUME Inv, NEW i \in Slots, ActivateOn(i), NEW j \in Slots \ {i}
    PROVE  SupplyOf(slots[j]) \in {"off", "on"}
<1>1. j = Other(i)
    BY DEF Other, Slots
<1>2. SlotSafe(j, slots[j])
    BY DEF Inv
<1>3. CASE ~slots[j].held
    BY <1>3 DEF SupplyOf
<1>4. CASE slots[j].held
    <2>1. j \in Monitored /\ PeerPermits(i)
        BY <1>2, <1>4 DEF SlotSafe, ActivateOn, Admitted
    <2>2. slots[j].active /\ ~slots[j].offPending
        BY <1>1, <1>4, <2>1 DEF PeerPermits, Joins
    <2> QED
        BY <1>2, <1>4, <2>2 DEF SlotSafe, SupplyOf
<1> QED
    BY <1>3, <1>4

(* How each kind of change looks on the bus. *)
LEMMA SupplyChanges ==
    ASSUME NEW i, NEW s, SlotOK(i, s), NEW t
    PROVE  /\ Keeps(s, t) => SupplyOf(t) = SupplyOf(s)
           /\ Replaced(s, t) =>
                \/ SupplyOf(t) = SupplyOf(s)
                \/ SupplyOf(s) \in {"starting", "on"} /\ SupplyOf(t) = "foreign"
           /\ SeenRunning(s, t) =>
                \/ SupplyOf(t) = SupplyOf(s)
                \/ SupplyOf(s) \in {"off", "starting", "foreign"} /\ SupplyOf(t) = "on"
           /\ Released(s, t) => SupplyOf(t) = "off"
           /\ Withdrawn(s, t) =>
                \/ SupplyOf(t) = SupplyOf(s)
                \/ /\ SupplyOf(s) \in {"starting", "on", "foreign"}
                   /\ SupplyOf(t) = "stopping"
           /\ Activated(s, t) => SupplyOf(s) = "off" /\ SupplyOf(t) = "starting"
<1>1. SlotSafe(i, s)
    BY DEF SlotOK
<1>2. s \in SlotType
    BY DEF SlotOK
<1>3. Keeps(s, t) => SupplyOf(t) = SupplyOf(s)
    BY DEF Keeps, SupplyOf
<1>4. Replaced(s, t) =>
         \/ SupplyOf(t) = SupplyOf(s)
         \/ SupplyOf(s) \in {"starting", "on"} /\ SupplyOf(t) = "foreign"
    BY <1>1, <1>2 DEF Replaced, SupplyOf, SlotSafe, SlotType
<1>5. SeenRunning(s, t) =>
         \/ SupplyOf(t) = SupplyOf(s)
         \/ SupplyOf(s) \in {"off", "starting", "foreign"} /\ SupplyOf(t) = "on"
    BY <1>1, <1>2 DEF SeenRunning, SupplyOf, SlotSafe, SlotType
<1>6. Released(s, t) => SupplyOf(t) = "off"
    BY DEF Released, SupplyOf
<1>7. Withdrawn(s, t) =>
         \/ SupplyOf(t) = SupplyOf(s)
         \/ /\ SupplyOf(s) \in {"starting", "on", "foreign"}
            /\ SupplyOf(t) = "stopping"
    BY <1>1, <1>2 DEF Withdrawn, SupplyOf, SlotSafe, SlotType
<1>8. Activated(s, t) => SupplyOf(s) = "off" /\ SupplyOf(t) = "starting"
    BY <1>1, <1>2 DEF Activated, SupplyOf, SlotSafe, SlotType
<1> QED
    BY <1>3, <1>4, <1>5, <1>6, <1>7, <1>8

(* The initial states of the gate are initial states of the bus. *)
LEMMA BusInit == Init => Bus!Init
<1> SUFFICES ASSUME Init PROVE Bus!Init
    OBVIOUS
<1>1. PICK r \in InitialRoles :
         slots = [i \in Slots |-> IF i = 0 THEN EmptySlot(TRUE, TRUE)
                                           ELSE EmptySlot(r[1], r[2])]
    BY DEF Init
<1>2. ASSUME NEW e, NEW p PROVE SupplyOf(EmptySlot(e, p)) = "off"
    BY DEF EmptySlot, SupplyOf
<1>3. \A i \in Slots : SupplyOf(slots[i]) = "off"
    BY <1>1, <1>2
<1> QED
    BY <1>3 DEF Bus!Init

(* Every step of the gate is a step of the bus or leaves it alone. *)
LEMMA BusNext == Inv /\ [Next]_vars => [Bus!Next]_([i \in Slots |-> SupplyOf(slots[i])])
<1> SUFFICES ASSUME Inv, [Next]_vars
             PROVE  [Bus!Next]_([i \in Slots |-> SupplyOf(slots[i])])
    OBVIOUS
<1> DEFINE supply == [i \in Slots |-> SupplyOf(slots[i])]
           after == [i \in Slots |-> SupplyOf(slots'[i])]
<1>1. \A i \in Slots : SlotOK(i, slots[i])
    BY InvParts DEF SlotsOK
<1>2. CASE AllKeep
    <2>1. \A i \in Slots : SupplyOf(slots'[i]) = SupplyOf(slots[i])
        BY <1>1, <1>2, SupplyChanges DEF AllKeep
    <2> QED
        BY <2>1
<1>3. ASSUME NEW i \in Slots, OthersKeep(i),
             \/ Replaced(slots[i], slots'[i])
             \/ SeenRunning(slots[i], slots'[i])
             \/ Released(slots[i], slots'[i])
             \/ Withdrawn(slots[i], slots'[i])
             \/ ActivateOn(i) /\ Activated(slots[i], slots'[i])
      PROVE  [Bus!Next]_([k \in Slots |-> SupplyOf(slots[k])])
    <2>1. \A j \in Slots \ {i} : SupplyOf(slots'[j]) = SupplyOf(slots[j])
        BY <1>1, <1>3, SupplyChanges DEF OthersKeep
    <2>2. after = [supply EXCEPT ![i] = SupplyOf(slots'[i])]
        BY <2>1
    <2>3. supply[i] = SupplyOf(slots[i])
        OBVIOUS
    <2>4. SlotOK(i, slots[i])
        BY <1>1
    <2>5. CASE SupplyOf(slots'[i]) = SupplyOf(slots[i])
        BY <2>1, <2>5
    <2>6. CASE Replaced(slots[i], slots'[i]) /\ SupplyOf(slots'[i]) # SupplyOf(slots[i])
        BY <2>2, <2>4, <2>6, SupplyChanges DEF Bus!Next, Bus!Replace, Bus!Becomes
    <2>7. CASE SeenRunning(slots[i], slots'[i]) /\ SupplyOf(slots'[i]) # SupplyOf(slots[i])
        BY <2>2, <2>4, <2>7, SupplyChanges DEF Bus!Next, Bus!Confirm, Bus!Becomes
    <2>8. CASE Released(slots[i], slots'[i]) /\ SupplyOf(slots'[i]) # SupplyOf(slots[i])
        BY <2>2, <2>4, <2>8, SupplyChanges DEF Bus!Next, Bus!Release, Bus!Becomes
    <2>9. CASE Withdrawn(slots[i], slots'[i]) /\ SupplyOf(slots'[i]) # SupplyOf(slots[i])
        BY <2>2, <2>4, <2>9, SupplyChanges DEF Bus!Next, Bus!Withdraw, Bus!Becomes
    <2>10. CASE ActivateOn(i) /\ Activated(slots[i], slots'[i])
        <3>1. \A j \in Slots \ {i} : supply[j] \in {"off", "on"}
            BY <2>10, PeerSettled
        <3> QED
            BY <2>2, <2>4, <2>10, <3>1, SupplyChanges DEF Bus!Next, Bus!Permit, Bus!Becomes
    <2> QED
        BY <1>3, <2>5, <2>6, <2>7, <2>8, <2>9, <2>10
<1> QED
    BY <1>2, <1>3, StepKind

(* The gate implements SupplyBus: through any interleaving of the readers, *)
(* the subscribers and the sampler, an OFF is never taken back, a replaced *)
(* pack is never retried, and no pack is started next to one that starts,  *)
(* stops or has been replaced (packAdmission.requestOn, observeLocked).    *)
THEOREM GateImplementsBus == Spec => ImplementsBus
BY BusInit, BusNext, Invariance, PTL DEF Spec, ImplementsBus, Bus!Spec

-----------------------------------------------------------------------------
(* Isolation.  HandoverBreaksBeforeMake is inductive together with Inv: an *)
(* episode is opened against a running pack only, IsolationBlocks refuses  *)
(* every ON that would break it, and an OFF that the pack it is aimed at   *)
(* was seen to obey confirms or ends the episode in the same step.         *)

(* HandoverBreaksBeforeMake for an episode e and slots ss. *)
Broken(e, ss) ==
    e.open =>
        /\ e.survivor # e.victim
        /\ ~Unconfirmed(ss[e.victim])
        /\ ~e.offConfirmed =>
             /\ ss[e.victim].held
             /\ e.attempted => ss[e.victim].offPending
             /\ e.handover => ~Unconfirmed(ss[e.survivor])

(* reconcileIsolationLocked leaves an episode alone, drops one that has no *)
(* OFF to wait for, or opens one against a running pack.                   *)
LEMMA ReconcileCases ==
    \/ reconcile = isolation
    \/ /\ isolation.open /\ reconcile = NoIsolation
       /\ isolation.attempted => isolation.offConfirmed
    \/ /\ ~isolation.open
       /\ reconcile.open /\ ~reconcile.attempted /\ ~reconcile.offConfirmed
       /\ reconcile.victim \in Slots /\ reconcile.survivor \in Slots
       /\ reconcile.survivor # reconcile.victim
       /\ Running(slots[reconcile.victim])
       /\ reconcile.handover => ~slots[reconcile.survivor].held
<1> DEFINE episode == [NoIsolation EXCEPT !.open = TRUE, !.survivor = Survivor,
                                          !.victim = Other(Survivor)]
           handover == [episode EXCEPT !.handover = TRUE]
<1>1. /\ Survivor \in Slots /\ Other(Survivor) \in Slots
      /\ Survivor # Other(Survivor)
    BY DEF Survivor, Other, Slots
<1>2. /\ episode.open /\ ~episode.attempted /\ ~episode.offConfirmed
      /\ episode.survivor = Survivor /\ episode.victim = Other(Survivor)
      /\ ~episode.handover
      /\ handover.open /\ ~handover.attempted /\ ~handover.offConfirmed
      /\ handover.survivor = Survivor /\ handover.victim = Other(Survivor)
    BY DEF NoIsolation
<1>3. CASE isolation.open
    <2>1. HandoverObsolete(isolation) => ~isolation.attempted
        BY DEF HandoverObsolete
    <2>2. HandoverAbandoned(isolation) => isolation.offConfirmed
        BY DEF HandoverAbandoned
    <2>3. \/ reconcile = isolation
          \/ /\ reconcile = NoIsolation
             /\ ~isolation.attempted \/ HandoverObsolete(isolation)
                \/ HandoverAbandoned(isolation)
        BY <1>3, Zenon DEF reconcile
    <2> QED
        BY <1>3, <2>1, <2>2, <2>3
<1>4. CASE ~isolation.open
    <2>1. \/ reconcile = isolation
          \/ reconcile = episode /\ Running(slots[Other(Survivor)])
          \/ /\ reconcile = handover /\ Running(slots[Other(Survivor)])
             /\ ~slots[Survivor].held
        BY <1>4, Zenon DEF reconcile
    <2> HIDE DEF episode, handover
    <2>2. CASE reconcile = isolation
        BY <2>2
    <2>3. CASE reconcile = episode /\ Running(slots[Other(Survivor)])
        <3>1. /\ reconcile.open /\ ~reconcile.attempted /\ ~reconcile.offConfirmed
              /\ reconcile.survivor = Survivor /\ reconcile.victim = Other(Survivor)
              /\ ~reconcile.handover
            BY <1>2, <2>3, Zenon
        <3> QED
            BY <1>1, <1>4, <2>3, <3>1
    <2>4. CASE /\ reconcile = handover /\ Running(slots[Other(Survivor)])
               /\ ~slots[Survivor].held
        <3>1. /\ reconcile.open /\ ~reconcile.attempted /\ ~reconcile.offConfirmed
              /\ reconcile.survivor = Survivor /\ reconcile.victim = Other(Survivor)
            BY <1>2, <2>4, Zenon
        <3> QED
            BY <1>1, <1>4, <2>4, <3>1
    <2> QED
        BY <2>1, <2>2, <2>3, <2>4
<1> QED
    BY <1>3, <1>4

(* So reconciling keeps what an episode promises. *)
LEMMA ReconcileBreaks ==
    ASSUME Broken(isolation, slots)
    PROVE  Broken(reconcile, slots)
<1>1. ~NoIsolation.open
    BY DEF NoIsolation
<1>2. Running(slots[reconcile.victim]) =>
        slots[reconcile.victim].held /\ ~Unconfirmed(slots[reconcile.victim])
    BY DEF Running, Unconfirmed
<1>3. ~slots[reconcile.survivor].held => ~Unconfirmed(slots[reconcile.survivor])
    BY DEF Unconfirmed
<1> QED
    BY <1>1, <1>2, <1>3, ReconcileCases DEF Broken

(* A step that releases, withdraws and reserves nothing keeps it too. *)
LEMMA BrokenKept ==
    ASSUME Inv, NEW e \in IsolationType, Broken(e, slots),
           \A j \in Slots : \/ Keeps(slots[j], slots'[j])
                            \/ Replaced(slots[j], slots'[j])
                            \/ SeenRunning(slots[j], slots'[j])
    PROVE  Broken(e, slots')
<1>1. e.victim \in Slots /\ e.survivor \in Slots
    BY DEF IsolationType
<1>2. ASSUME NEW j \in Slots
      PROVE  /\ slots[j].held => slots'[j].held
             /\ slots[j].offPending => slots'[j].offPending
             /\ Unconfirmed(slots'[j]) => Unconfirmed(slots[j])
    <2>1. slots[j].held \in BOOLEAN /\ SlotSafe(j, slots[j])
        BY InvParts DEF Inv, SlotsOK, SlotType
    <2>2. CASE Keeps(slots[j], slots'[j])
        BY <2>2 DEF Keeps, Unconfirmed
    <2>3. CASE Replaced(slots[j], slots'[j])
        BY <2>1, <2>3 DEF Replaced, Unconfirmed
    <2>4. CASE SeenRunning(slots[j], slots'[j])
        BY <2>1, <2>4 DEF SeenRunning, Unconfirmed
    <2> QED
        BY <2>2, <2>3, <2>4
<1> QED
    BY <1>1, <1>2 DEF Broken

(* A completed read: seeing the pack off that the episode switches off     *)
(* confirms or ends the episode in the same step.                          *)
LEMMA FinishReadBreaks ==
    ASSUME Inv, Broken(isolation, slots), NEW i \in Slots, NEW data \in FrameType,
           NEW start, NEW end, FinishRead(i, data, start, end)
    PROVE  Broken(isolation', slots')
<1> DEFINE seen == Recorded(slots[i], data, now)
           e == isolation
<1>1. isolation \in IsolationType
    BY InvParts DEF RestType
<1>2. isolation' = IsolationAfter(i, seen, now)
    BY Zenon DEF FinishRead
<1>3. /\ OthersKeep(i)
      /\ \/ Keeps(slots[i], slots'[i]) /\ ~OffEvidence(seen, now)
         \/ Replaced(slots[i], slots'[i]) /\ ~OffEvidence(seen, now)
         \/ SeenRunning(slots[i], slots'[i]) /\ ~OffEvidence(seen, now)
         \/ Released(slots[i], slots'[i]) /\ OffEvidence(seen, now)
    BY FinishReadKind
<1> HIDE DEF seen
<1>4. ~NoIsolation.open
    BY DEF NoIsolation
<1>5. CASE ~OffEvidence(seen, now)
    <2>1. isolation' = NoIsolation \/ isolation' = isolation
        BY <1>2, <1>5, Zenon DEF IsolationAfter
    <2>2. Broken(isolation, slots')
        BY <1>1, <1>3, <1>5, BrokenKept DEF OthersKeep
    <2> QED
        BY <1>4, <2>1, <2>2 DEF Broken
<1>6. CASE OffEvidence(seen, now)
    <2>1. Released(slots[i], slots'[i])
        BY <1>3, <1>6
    <2>2. ~Unconfirmed(slots'[i])
        BY <2>1 DEF Released, Unconfirmed
    <2>3. \A j \in Slots \ {i} : /\ slots'[j].held = slots[j].held
                                 /\ slots'[j].offPending = slots[j].offPending
                                 /\ Unconfirmed(slots'[j]) => Unconfirmed(slots[j])
        BY <1>3 DEF OthersKeep, Keeps, Unconfirmed
    <2>4. \/ isolation' = NoIsolation
          \/ isolation' = [isolation EXCEPT !.offConfirmed = TRUE] /\ e.victim = i
          \/ isolation' = isolation /\ (e.open => e.victim # i)
        BY <1>2, <1>6, Zenon DEF IsolationAfter
    <2>5. CASE isolation' = NoIsolation
        BY <1>4, <2>5 DEF Broken
    <2>6. CASE isolation' = [isolation EXCEPT !.offConfirmed = TRUE] /\ e.victim = i
        <3>1. /\ isolation'.open = e.open /\ isolation'.victim = e.victim
              /\ isolation'.survivor = e.survivor /\ isolation'.offConfirmed = TRUE
            BY <1>1, <2>6 DEF IsolationType
        <3> QED
            BY <2>2, <2>6, <3>1 DEF Broken
    <2>7. CASE isolation' = isolation /\ (e.open => e.victim # i)
        <3>1. e.victim \in Slots /\ e.survivor \in Slots
            BY <1>1 DEF IsolationType
        <3> QED
            BY <2>2, <2>3, <2>7, <3>1 DEF Broken
    <2> QED
        BY <2>4, <2>5, <2>6, <2>7
<1> QED
    BY <1>5, <1>6

(* An OFF: the pack of the episode is reserved, so its OFF is recorded.    *)
LEMMA OffBreaks ==
    ASSUME Inv, Broken(isolation, slots), NEW i \in Slots, Off(i)
    PROVE  Broken(isolation', slots')
<1> DEFINE e == isolation
<1>1. isolation \in IsolationType /\ SlotSafe(i, slots[i])
    BY InvParts DEF RestType, Inv
<1>2. e.victim \in Slots /\ e.survivor \in Slots
    BY <1>1 DEF IsolationType
<1>3. \A j \in Slots : /\ slots[j].held => slots'[j].held
                       /\ slots[j].offPending => slots'[j].offPending
                       /\ Unconfirmed(slots'[j]) => Unconfirmed(slots[j])
    <2>1. \A j \in Slots : Keeps(slots[j], slots'[j]) \/ Withdrawn(slots[j], slots'[j])
        BY OffKind DEF OthersKeep
    <2> QED
        BY <2>1 DEF Keeps, Withdrawn, Unconfirmed
<1>4. slots[i].held => slots'[i].offPending
    BY OffKind DEF Keeps, Withdrawn
<1>5. CASE e.open /\ e.victim = i
    <2>1. isolation' = [isolation EXCEPT !.attempted = TRUE]
        BY <1>5 DEF Off
    <2>2. /\ isolation'.open = e.open /\ isolation'.victim = e.victim
          /\ isolation'.survivor = e.survivor /\ isolation'.handover = e.handover
          /\ isolation'.offConfirmed = e.offConfirmed
        BY <1>1, <2>1 DEF IsolationType
    <2> QED
        BY <1>2, <1>3, <1>4, <1>5, <2>2 DEF Broken
<1>6. CASE ~(e.open /\ e.victim = i)
    <2>1. isolation' = isolation
        BY <1>6 DEF Off
    <2> QED
        BY <1>2, <1>3, <2>1 DEF Broken
<1> QED
    BY <1>5, <1>6

(* A request: the gate refuses the ON that would break the episode. *)
LEMMA RequestOnBreaks ==
    ASSUME Inv, Broken(isolation, slots), NEW i \in Slots, RequestOn(i)
    PROVE  Broken(isolation', slots')
<1>1. isolation' = reconcile /\ Broken(reconcile, slots) /\ reconcile \in IsolationType
    BY ReconcileBreaks, ReconcileType, InvParts
    DEF RequestOn, RepeatOn, RequalifyOn, ActivateOn, Requested, RestType
<1>2. CASE RepeatOn(i) \/ RequalifyOn(i)
    BY <1>1, <1>2, RequestOnKind, BrokenKept DEF AllKeep
<1>3. CASE ActivateOn(i)
    <2> DEFINE e == reconcile
    <2>1. ~slots[i].held /\ ~IsolationBlocks(reconcile, i)
        BY <1>3 DEF ActivateOn, Admitted, CommandOpen
    <2>2. OthersKeep(i)
        BY <1>3, RequestOnKind
    <2>3. reconcile.open =>
            /\ reconcile.victim # i
            /\ (reconcile.handover /\ ~reconcile.offConfirmed) => reconcile.survivor # i
        BY <2>1 DEF IsolationBlocks
    <2>4. reconcile.victim \in Slots /\ reconcile.survivor \in Slots
        BY <1>1 DEF IsolationType
    <2>5. \A j \in Slots \ {i} : /\ slots'[j].held = slots[j].held
                                 /\ slots'[j].offPending = slots[j].offPending
                                 /\ Unconfirmed(slots'[j]) = Unconfirmed(slots[j])
        BY <2>2 DEF OthersKeep, Keeps, Unconfirmed
    <2>6. Broken(reconcile, slots')
        BY <1>1, <2>3, <2>4, <2>5 DEF Broken
    <2> QED
        BY <1>1, <2>6
<1> QED
    BY <1>2, <1>3 DEF RequestOn

(* Every step keeps it. *)
LEMMA NextBreaks == Inv /\ HandoverBreaksBeforeMake /\ [Next]_vars => HandoverBreaksBeforeMake'
<1> SUFFICES ASSUME Inv, Broken(isolation, slots), [Next]_vars
             PROVE  Broken(isolation', slots')
    BY DEF HandoverBreaksBeforeMake, Broken
<1>0. isolation \in IsolationType /\ reconcile \in IsolationType
    BY InvParts, ReconcileType DEF RestType
<1>1. ASSUME NEW e \in IsolationType, Broken(e, slots), isolation' = e, AllKeep
      PROVE  Broken(isolation', slots')
    BY <1>1, BrokenKept DEF AllKeep
<1>2. ASSUME NEW i \in Slots, Reader(i) PROVE Broken(isolation', slots')
    <2>1. ASSUME NEW uid \in Uids, Tag(i, uid) PROVE Broken(isolation', slots')
        <3>1. isolation' = isolation
            BY <2>1 DEF Tag
        <3>2. \A j \in Slots : Keeps(slots[j], slots'[j]) \/ Replaced(slots[j], slots'[j])
            BY <2>1, TagKind DEF OthersKeep
        <3> QED
            BY <1>0, <3>1, <3>2, BrokenKept
    <2>2. CASE \/ \E departed \in BOOLEAN : ObserveAbsent(i, departed)
               \/ StartRead(i) \/ FailRead(i)
        <3>1. isolation' = isolation
            BY <2>2 DEF ObserveAbsent, StartRead, FailRead
        <3> QED
            BY <1>0, <1>1, <2>2, <3>1, QuietReaderKind
    <2>3. CASE ShouldIsolate(i)
        <3>1. isolation' = reconcile
            BY <2>3 DEF ShouldIsolate
        <3> QED
            BY <1>0, <1>1, <2>3, <3>1, QuietReaderKind, ReconcileBreaks
    <2>4. CASE \E data \in Frames : \E start, end \in reading[i].from..now :
                  FinishRead(i, data, start, end)
        BY <2>4, FinishReadBreaks, FramesAssumption
    <2>5. CASE RequestOn(i)
        BY <2>5, RequestOnBreaks
    <2>6. CASE Off(i)
        BY <2>6, OffBreaks
    <2> QED
        BY <1>2, <2>1, <2>2, <2>3, <2>4, <2>5, <2>6
        DEF Reader, OffAttempt, IsolationOffAttempt
<1>3. CASE \/ Service \/ Tick \/ UNCHANGED vars
           \/ \E offset \in ClockOffsets \ {wall} : SetClock(offset)
    <2>1. isolation' = isolation
        BY <1>3, Zenon
        DEF Service, BeginRound, StopSampling, ReceiveMotion, ResetMotionStream,
            SetVehicle, SetSeatbox, SetRole, SetMaxDelta, Tick, SetClock, vars
    <2> QED
        BY <1>0, <1>1, <1>3, <2>1, ServiceKind
<1> QED
    BY <1>2, <1>3 DEF Next

(* A handover breaks before it makes: the pack to be switched off stays    *)
(* reserved until an inactive reading confirms the OFF, it is not switched *)
(* on again meanwhile, and its successor is not switched on before         *)
(* (requestOn and the OFF attempts, admission_isolation.go).               *)
THEOREM HandoversBreakBeforeMake == Spec => []HandoverBreaksBeforeMake
<1>1. Init => HandoverBreaksBeforeMake
    BY DEF Init, NoIsolation, HandoverBreaksBeforeMake
<1> QED
    BY <1>1, NextBreaks, Invariance, PTL DEF Spec

(* What CorrectiveOffConcludes says of one step. *)
Concludes ==
    isolation.open =>
        \/ /\ isolation'.open /\ isolation'.victim = isolation.victim
           /\ isolation.attempted => isolation'.attempted
           /\ isolation.offConfirmed => isolation'.offConfirmed
        \/ /\ ~isolation'.open
           /\ isolation.attempted =>
                isolation.offConfirmed \/ ~slots'[isolation.victim].held

(* A completed read ends an episode only when its handover is complete or  *)
(* the pack has been seen off.                                             *)
LEMMA FinishReadConcludes ==
    ASSUME Inv, NEW i \in Slots, NEW data \in FrameType,
           NEW start, NEW end, FinishRead(i, data, start, end)
    PROVE  Concludes
<1> DEFINE seen == Recorded(slots[i], data, now)
           e == isolation
<1>1. isolation \in IsolationType
    BY InvParts DEF RestType
<1>2. isolation' = IsolationAfter(i, seen, now)
    BY Zenon DEF FinishRead
<1>3. OffEvidence(seen, now) => ~slots'[i].held
    BY FinishReadKind DEF Released
<1> HIDE DEF seen
<1>4. ~NoIsolation.open
    BY DEF NoIsolation
<1>5. e.open =>
        \/ isolation' = NoIsolation /\ e.offConfirmed
        \/ isolation' = [isolation EXCEPT !.offConfirmed = TRUE]
        \/ isolation' = NoIsolation /\ OffEvidence(seen, now) /\ e.victim = i
        \/ isolation' = NoIsolation /\ ~e.attempted
        \/ isolation' = isolation
    BY <1>2, Zenon DEF IsolationAfter
<1>6. CASE isolation' = [isolation EXCEPT !.offConfirmed = TRUE]
    <2>1. /\ isolation'.open = e.open /\ isolation'.victim = e.victim
          /\ isolation'.attempted = e.attempted /\ isolation'.offConfirmed = TRUE
        BY <1>1, <1>6 DEF IsolationType
    <2> QED
        BY <2>1 DEF Concludes
<1>7. CASE isolation' = isolation
    BY <1>7 DEF Concludes
<1>8. CASE isolation' = NoIsolation
    <2>1. ~isolation'.open
        BY <1>4, <1>8
    <2>2. e.open => \/ e.offConfirmed
                    \/ OffEvidence(seen, now) /\ e.victim = i
                    \/ ~e.attempted
        <3>1. e.open => isolation' # isolation
            BY <1>8, <2>1
        <3>2. [isolation EXCEPT !.offConfirmed = TRUE].open = isolation.open
            BY <1>1 DEF IsolationType
        <3>3. e.open => isolation' # [isolation EXCEPT !.offConfirmed = TRUE]
            BY <2>1, <3>2
        <3> QED
            BY <1>5, <3>1, <3>3
    <2> QED
        BY <1>3, <2>1, <2>2 DEF Concludes
<1> QED
    BY <1>5, <1>6, <1>7, <1>8 DEF Concludes

(* A corrective OFF is never forgotten: once it has been written, its      *)
(* episode ends only after the pack has been seen off, whatever happens to *)
(* voltages, settings, tags or the retained pack                           *)
(* (reconcileIsolationLocked, observeLocked).                              *)
THEOREM CorrectiveOffsConclude == Spec => CorrectiveOffConcludes
<1>1. ASSUME isolation' = isolation \/ isolation' = reconcile PROVE Concludes
    <2>1. ~NoIsolation.open
        BY DEF NoIsolation
    <2> QED
        BY <1>1, <2>1, ReconcileCases DEF Concludes
<1>2. ASSUME Inv, NEW i \in Slots, Reader(i) PROVE Concludes
    <2>1. CASE \/ \E uid \in Uids : Tag(i, uid)
               \/ \E departed \in BOOLEAN : ObserveAbsent(i, departed)
               \/ StartRead(i) \/ FailRead(i) \/ ShouldIsolate(i) \/ RequestOn(i)
        <3>1. isolation' = isolation \/ isolation' = reconcile
            BY <2>1, Zenon
            DEF Tag, ObserveAbsent, StartRead, FailRead, ShouldIsolate, RequestOn,
                RepeatOn, RequalifyOn, ActivateOn, Requested
        <3> QED
            BY <1>1, <3>1
    <2>2. CASE \E data \in Frames : \E start, end \in reading[i].from..now :
                  FinishRead(i, data, start, end)
        BY <1>2, <2>2, FinishReadConcludes, FramesAssumption
    <2>3. CASE Off(i)
        <3>1. isolation \in IsolationType
            BY <1>2, InvParts DEF RestType
        <3>2. /\ isolation'.open = isolation.open /\ isolation'.victim = isolation.victim
              /\ isolation.attempted => isolation'.attempted
              /\ isolation'.offConfirmed = isolation.offConfirmed
            BY <2>3, <3>1 DEF Off, IsolationType
        <3> QED
            BY <3>2 DEF Concludes
    <2> QED
        BY <1>2, <2>1, <2>2, <2>3 DEF Reader, OffAttempt, IsolationOffAttempt
<1>3. ASSUME \/ Service \/ Tick \/ UNCHANGED vars
             \/ \E offset \in ClockOffsets \ {wall} : SetClock(offset)
      PROVE  Concludes
    <2>1. isolation' = isolation
        BY <1>3, Zenon
        DEF Service, BeginRound, StopSampling, ReceiveMotion, ResetMotionStream,
            SetVehicle, SetSeatbox, SetRole, SetMaxDelta, Tick, SetClock, vars
    <2> QED
        BY <1>1, <2>1
<1>4. ASSUME Inv, [Next]_vars PROVE Concludes
    BY <1>2, <1>3, <1>4 DEF Next
<1>5. Inv /\ [Next]_vars =>
        [isolation.open =>
           \/ /\ isolation'.open /\ isolation'.victim = isolation.victim
              /\ isolation.attempted => isolation'.attempted
              /\ isolation.offConfirmed => isolation'.offConfirmed
           \/ /\ ~isolation'.open
              /\ isolation.attempted =>
                   isolation.offConfirmed \/ ~slots'[isolation.victim].held]_vars
    BY <1>4 DEF Concludes
<1> QED
    BY <1>5, Invariance, PTL DEF Spec, CorrectiveOffConcludes

-----------------------------------------------------------------------------
(* Two usable packs that are both off never wait for each other: outside a *)
(* handover the gate lets one of them start, because the choice between    *)
(* them (requestOn, admission.go:414-423) is total.                        *)
THEOREM SomePackIsAdmitted == Spec => []SomePackAdmitted
<1>1. ASSUME Inv, BothReady, ~reconcile.open PROVE \E i \in Slots : Admitted(reconcile, i)
    <2>1. SlotsOK /\ 0 \in Slots /\ 1 \in Slots /\ Other(0) = 1 /\ Other(1) = 0
        BY <1>1, InvParts DEF Slots, Other
    <2>2. \A j \in Slots : slots[j].frame.voltage \in Nat /\ slots[j].frame.charge \in Nat
        BY <2>1 DEF SlotsOK, SlotType, FrameType
    <2>3. PICK i \in Slots : Selected(i)
        <3>1. CASE ~Conservative
            BY <2>1, <3>1 DEF Selected
        <3>2. CASE Conservative
            <4> DEFINE a == slots[0].frame
                       b == slots[1].frame
            <4>1. /\ a.voltage \in Nat /\ b.voltage \in Nat
                  /\ a.charge \in Nat /\ b.charge \in Nat
                BY <2>1, <2>2
            <4>2. \/ a.voltage > b.voltage \/ b.voltage > a.voltage
                  \/ a.voltage = b.voltage /\ a.charge > b.charge
                  \/ a.voltage = b.voltage /\ b.charge > a.charge
                  \/ a.voltage = b.voltage /\ a.charge = b.charge
                BY <4>1
            <4>3. Selected(0) \/ Selected(1)
                BY <2>1, <3>2, <4>2 DEF Selected
            <4> QED
                BY <2>1, <4>3
        <3> QED
            BY <3>1, <3>2
    <2>4. Other(i) \in Slots
        BY DEF Other, Slots
    <2>5. /\ ~slots[i].held /\ ~slots[i].offPending /\ Fresh(slots[i], now)
          /\ Usable(slots[i]) /\ vehicle \in NonDriving /\ ~stopping
          /\ ~slots[Other(i)].held /\ Fresh(slots[Other(i)], now)
        BY <1>1, <2>4 DEF BothReady
    <2>6. CommandOpen(reconcile, i)
        BY <1>1, <2>5 DEF CommandOpen, IsolationBlocks, Usable
    <2>7. PeerPermits(i)
        BY <2>3, <2>5 DEF PeerPermits
    <2>8. VehiclePermits(i) /\ OwnEvidence(i) /\ ~Established(i)
        BY <2>5 DEF VehiclePermits, OwnEvidence, Established
    <2> QED
        BY <2>5, <2>6, <2>7, <2>8 DEF Admitted
<1>2. Inv => SomePackAdmitted
    BY <1>1 DEF SomePackAdmitted
<1> QED
    BY <1>2, Invariance, PTL

=============================================================================
