------------------------- MODULE PackRelease_proofs -------------------------
(***************************************************************************)
(* A reservation ends on evidence only: ReleaseNeedsEvidence as a theorem  *)
(* of PackAdmission.  Every action but FinishRead keeps the reservations   *)
(* of both slots, and FinishRead gives one up only through OffEvidence.    *)
(***************************************************************************)
EXTENDS PackAdmission_proofs

KeepsReservations == \A j \in Slots : slots[j].held => slots'[j].held

(* What ReleaseNeedsEvidence says of one slot. *)
Evident(s, t) ==
    (s.held /\ ~t.held) =>
        /\ t.valid /\ Inactive(t.frame)
        /\ t.written > s.lastOnAt
        /\ s.offPending => t.written > s.offAt

(* Forgetting samples keeps the reservations. *)
LEMMA ForgetKeeps ==
    ASSUME NEW ss \in [Slots -> SlotType]
    PROVE  \A j \in Slots : Forget(ss)[j].held = ss[j].held
<1>1. ASSUME NEW s \in SlotType PROVE [s EXCEPT !.history = <<>>].held = s.held
    BY DEF SlotType
<1> QED
    BY <1>1, ForgetType

(* An action that leaves a reservation on the slot it changes keeps all.   *)
LEMMA UpdateKeeps ==
    ASSUME SlotsOK, NEW i \in Slots, NEW r \in SlotType,
           slots[i].held => r.held,
           \/ slots' = [slots EXCEPT ![i] = r]
           \/ slots' = Forget([slots EXCEPT ![i] = r])
    PROVE  KeepsReservations
<1> DEFINE ss == [slots EXCEPT ![i] = r]
<1>1. ss \in [Slots -> SlotType] /\ \A j \in Slots : slots[j].held => ss[j].held
    BY DEF SlotsOK
<1> HIDE DEF ss
<1>2. slots' = ss \/ slots' = Forget(ss)
    BY DEF ss
<1> QED
    BY <1>1, <1>2, ForgetKeeps DEF KeepsReservations

(* So does one that changes no slot, or only forgets the samples. *)
LEMMA SamplesKeep ==
    ASSUME SlotsOK, slots' = slots \/ slots' = Forget(slots)
    PROVE  KeepsReservations
BY ForgetKeeps DEF SlotsOK, KeepsReservations

-----------------------------------------------------------------------------
(* The reader's actions other than a completed read. *)
LEMMA ReaderKeeps ==
    ASSUME Inv, NEW i \in Slots,
           \/ \E uid \in Uids : Tag(i, uid)
           \/ \E departed \in BOOLEAN : ObserveAbsent(i, departed)
           \/ StartRead(i) \/ FailRead(i) \/ ShouldIsolate(i)
           \/ RequestOn(i) \/ Off(i)
    PROVE  KeepsReservations
<1>1. SlotsOK /\ SlotOK(i, slots[i]) /\ slots[i] \in SlotType /\ now \in Nat
    BY InvParts DEF SlotsOK, SlotOK, RestType
<1>2. ASSUME NEW uid \in Uids, Tag(i, uid) PROVE KeepsReservations
    <2> DEFINE q == slots[i].requiresAdmission \/ vehicle \in NonDriving
               same == [slots[i] EXCEPT !.valid = FALSE, !.haveFrame = FALSE,
                    !.written = Zero, !.absent = FALSE, !.requiresAdmission = q]
               r == IF slots[i].uid = uid THEN same ELSE ReplaceIdentity(slots[i], uid)
    <2>1. slots' = Forget([slots EXCEPT ![i] = r])
        BY <1>2 DEF Tag
    <2>2. q \in BOOLEAN
        OBVIOUS
    <2> HIDE DEF q
    <2>3. same \in SlotType /\ same.held = slots[i].held
        BY <1>1, <2>2, ZenonT(60) DEF SlotType, Zero
    <2>4. ReplaceIdentity(slots[i], uid) \in SlotType
        BY <1>1, ReplaceIdentityType
    <2>5. ReplaceIdentity(slots[i], uid).held = slots[i].held
        BY DEF ReplaceIdentity, EmptySlot
    <2> HIDE DEF same
    <2>6. r \in SlotType /\ (slots[i].held => r.held)
        BY <2>3, <2>4, <2>5
    <2> HIDE DEF r
    <2> QED
        BY <1>1, <2>1, <2>6, UpdateKeeps
<1>3. ASSUME NEW departed \in BOOLEAN, ObserveAbsent(i, departed) PROVE KeepsReservations
    <2> DEFINE q == slots[i].requiresAdmission \/ vehicle \in NonDriving
               a == ~slots[i].held
               r == [slots[i] EXCEPT !.valid = FALSE, !.haveFrame = FALSE,
                        !.written = Zero, !.observedRound = 0,
                        !.requiresAdmission = q, !.absent = a, !.observed = now]
    <2>1. slots' = Forget([slots EXCEPT ![i] = r])
        BY <1>3 DEF ObserveAbsent
    <2>2. q \in BOOLEAN /\ a \in BOOLEAN
        OBVIOUS
    <2> HIDE DEF q, a
    <2>3. r \in SlotType
        BY <1>1, <2>2 DEF SlotType, Zero
    <2>4. slots[i].held => r.held
        BY <1>1 DEF SlotType
    <2> HIDE DEF r
    <2> QED
        BY <1>1, <2>1, <2>3, <2>4, UpdateKeeps
<1>4. CASE StartRead(i) \/ ShouldIsolate(i)
    BY <1>1, <1>4, SamplesKeep DEF StartRead, ShouldIsolate
<1>5. CASE FailRead(i)
    <2> DEFINE r == [slots[i] EXCEPT !.valid = FALSE, !.absent = FALSE]
    <2>1. slots' = Forget([slots EXCEPT ![i] = r])
        BY <1>1, <1>5 DEF FailRead, SlotsOK
    <2>2. r \in SlotType /\ (slots[i].held => r.held)
        BY <1>1 DEF SlotType
    <2> HIDE DEF r
    <2> QED
        BY <1>1, <2>1, <2>2, UpdateKeeps
<1>6. CASE RequestOn(i)
    <2> DEFINE g == Granted(slots[i])
               r == [g EXCEPT !.held = TRUE, !.onAt = now]
    <2>1. g \in SlotType /\ (slots[i].held => g.held)
        BY <1>1 DEF Granted, SlotType
    <2> HIDE DEF g
    <2>2. r \in SlotType /\ (slots[i].held => r.held)
        BY <1>1, <2>1 DEF SlotType
    <2> HIDE DEF r
    <2>3. \/ slots' = [slots EXCEPT ![i] = g]
          \/ slots' = Forget([slots EXCEPT ![i] = g])
          \/ slots' = Forget([slots EXCEPT ![i] = r])
        BY <1>1, <1>6 DEF RequestOn, RepeatOn, RequalifyOn, ActivateOn, SlotsOK, g, r
    <2> QED
        BY <1>1, <2>1, <2>2, <2>3, UpdateKeeps
<1>7. CASE Off(i)
    <2> DEFINE r == OffReserved(slots[i])
    <2>1. slots' = Forget([slots EXCEPT ![i] = r])
        BY <1>1, <1>7 DEF Off, SlotsOK
    <2>2. r \in SlotType
        BY <1>1, OffReservedQuiet DEF Quiet, SlotOK
    <2>3. slots[i].held => r.held
        BY <1>1 DEF OffReserved, SlotType
    <2> HIDE DEF r
    <2> QED
        BY <1>1, <2>1, <2>2, <2>3, UpdateKeeps
<1> QED
    BY <1>2, <1>3, <1>4, <1>5, <1>6, <1>7

(* The service's actions, and time. *)
LEMMA ServiceKeeps ==
    ASSUME Inv,
           \/ Service \/ Tick \/ UNCHANGED vars
           \/ \E offset \in ClockOffsets : SetClock(offset)
    PROVE  KeepsReservations
<1>1. SlotsOK
    BY InvParts
<1>2. CASE \/ BeginRound \/ StopSampling \/ ResetMotionStream
           \/ (\E r \in Reports : ReceiveMotion(r))
           \/ (\E state \in Vehicles : SetVehicle(state))
           \/ (\E d \in Deltas : SetMaxDelta(d))
           \/ Tick \/ UNCHANGED vars
           \/ \E offset \in ClockOffsets : SetClock(offset)
    <2>1. slots' = slots \/ slots' = Forget(slots)
        BY <1>2, Zenon
        DEF BeginRound, StopSampling, ResetMotionStream, ReceiveMotion, SetVehicle,
            SetMaxDelta, Tick, SetClock, vars, evidence
    <2> QED
        BY <1>1, <2>1, SamplesKeep
<1>3. ASSUME NEW closed \in BOOLEAN, SetSeatbox(closed) PROVE KeepsReservations
    <2> DEFINE q(j) == slots[j].requiresAdmission \/ ~slots[j].held \/ ~slots[j].active
               r(j) == [slots[j] EXCEPT !.valid = FALSE, !.observedRound = 0,
                                        !.requiresAdmission = q(j)]
               ss == [j \in Slots |-> r(j)]
    <2>1. slots' = Forget(ss)
        BY <1>1, <1>3 DEF SetSeatbox, SlotsOK, SlotType
    <2>2. \A j \in Slots : q(j) \in BOOLEAN
        OBVIOUS
    <2> HIDE DEF q
    <2>3. ASSUME NEW j \in Slots PROVE r(j) \in SlotType /\ (slots[j].held => r(j).held)
        <3>1. slots[j] \in SlotType /\ q(j) \in BOOLEAN
            BY <1>1, <2>2 DEF SlotsOK
        <3>2. r(j) \in SlotType
            BY <3>1 DEF SlotType
        <3>3. slots[j].held => r(j).held
            BY <3>1 DEF SlotType
        <3> QED
            BY <3>2, <3>3
    <2> HIDE DEF r
    <2>4. ss \in [Slots -> SlotType] /\ \A j \in Slots : slots[j].held => ss[j].held
        BY <2>3
    <2> HIDE DEF ss
    <2> QED
        BY <2>1, <2>4, ForgetKeeps DEF KeepsReservations
<1>4. ASSUME NEW eligible \in BOOLEAN, SetRole(eligible) PROVE KeepsReservations
    <2> DEFINE p == slots[1].powerTracked \/ eligible
               r == [slots[1] EXCEPT !.eligible = eligible, !.powerTracked = p]
    <2>1. 1 \in Slots /\ slots[1] \in SlotType
        BY <1>1 DEF Slots, SlotsOK
    <2>2. slots' = Forget([slots EXCEPT ![1] = r])
        <3>1. [slots EXCEPT ![1] = r]
              = [slots EXCEPT ![1].eligible = eligible, ![1].powerTracked = @ \/ eligible]
            BY <1>1, <2>1 DEF SlotsOK, SlotType
        <3> QED
            BY <1>4, <3>1 DEF SetRole
    <2>3. p \in BOOLEAN
        OBVIOUS
    <2> HIDE DEF p
    <2>4. r \in SlotType /\ (slots[1].held => r.held)
        BY <2>1, <2>3, ZenonT(60) DEF SlotType
    <2> HIDE DEF r
    <2> QED
        BY <1>1, <2>1, <2>2, <2>4, UpdateKeeps
<1> QED
    BY <1>2, <1>3, <1>4 DEF Service

-----------------------------------------------------------------------------
(* The evidence that gives up a reservation is a changed inactive frame,   *)
(* later than the commands it answers.                                     *)
LEMMA OffEvidenceMeans ==
    ASSUME NEW s \in SlotType, NEW t \in Nat, OffEvidence(s, t),
           s.valid => s.frame.state \in {"active", "idle", "asleep"}
    PROVE  /\ s.valid /\ Inactive(s.frame) /\ s.written > s.lastOnAt
           /\ s.offPending => s.written > s.offAt
<1>1. s.valid /\ Inactive(s.frame)
    BY DEF OffEvidence, Inactive
<1>2. s.written \in Nat /\ s.lastOnAt \in Nat /\ s.offAt \in Nat
    BY DEF SlotType
<1> QED
    BY <1>1, <1>2 DEF OffEvidence

(* A reading that counts as valid has a known state. *)
LEMMA ValidState ==
    ASSUME NEW s, NEW data \in FrameType, NEW t, Recorded(s, data, t).valid,
           s \in SlotType
    PROVE  data.state \in {"active", "idle", "asleep"}
<1> DEFINE base == IF IdentityChanged(s, data) THEN ReplaceIdentity(s, s.uid) ELSE s
           written == IF base.haveFrame /\ statusFrameChanged(base.frame, data)
                      THEN t ELSE base.written
           valid == /\ data.present /\ data.voltage > 0
                    /\ data.state \in {"active", "idle", "asleep"}
                    /\ written # Zero
           tracked == base.powerTracked \/ data.state = "active"
           serial == IF data.serial = NoSerial THEN base.serial ELSE data.serial
           record(b, p, c, w, v) == [b EXCEPT
                !.powerTracked = p, !.serial = c, !.written = w,
                !.frame = data, !.haveFrame = TRUE, !.observed = t,
                !.absent = FALSE, !.valid = v]
<1>1. base \in SlotType
    <2>1. s.uid \in Uids \cup {NoUid}
        BY DEF SlotType
    <2> QED
        BY <2>1, ReplaceIdentityType
<1>2. Recorded(s, data, t) = record(base, tracked, serial, written, valid)
    BY DEF Recorded
<1>3. ASSUME NEW b \in SlotType, NEW p, NEW c, NEW w, NEW v \in BOOLEAN
      PROVE  record(b, p, c, w, v).valid = v
    BY DEF SlotType
<1>4. valid \in BOOLEAN /\ (valid => data.state \in {"active", "idle", "asleep"})
    OBVIOUS
<1> HIDE DEF base, written, valid, tracked, serial, record
<1>5. record(base, tracked, serial, written, valid).valid = valid
    BY <1>1, <1>3, <1>4
<1> QED
    BY <1>2, <1>4, <1>5

(* A completed read. *)
LEMMA FinishReadEvident ==
    ASSUME Inv, NEW i \in Slots, NEW data \in FrameType, NEW start, NEW end,
           FinishRead(i, data, start, end)
    PROVE  \A j \in Slots : Evident(slots[j], slots'[j])
<1> DEFINE id == reading[i].id
           seen == Recorded(slots[i], data, now)
           cancelled == \/ IdentityChanged(slots[i], data)
                        \/ OffEvidence(seen, now) /\ seen.held
           res == Resolved(seen, now)
           s == [res EXCEPT !.observedRound = id,
                            !.history = IF cancelled \/ ~seen.valid THEN <<>> ELSE @]
           ss == [slots EXCEPT ![i] = s]
           after == IF cancelled THEN Forget(ss) ELSE ss
           same(t, u) == /\ t.held = u.held /\ t.valid = u.valid
                         /\ t.frame = u.frame /\ t.written = u.written
<1>1. SlotsOK /\ SlotOK(i, slots[i]) /\ slots[i] \in SlotType
      /\ now \in Nat /\ id \in Nat /\ i \in Monitored
    BY InvParts DEF SlotsOK, SlotOK, RestType, FinishRead, EndRead, Inv, ReadersMonitored
<1>2. /\ Quiet(i, slots[i], seen) /\ ~seen.absent /\ seen.frame = data
      /\ data.state = "active" => seen.powerTracked
    <2>1. Quiet(i, slots[i], seen)
        BY <1>1, RecordedFields, Zenon
    <2>2. ~seen.absent
        BY <1>1, RecordedFields, Zenon
    <2>3. seen.frame = data
        BY <1>1, RecordedFields, Zenon
    <2>4. data.state = "active" => seen.powerTracked
        BY <1>1, RecordedFields, Zenon
    <2> QED
        BY <2>1, <2>2, <2>3, <2>4
<1>3. /\ seen.held = slots[i].held /\ seen.offPending = slots[i].offPending
      /\ seen.lastOnAt = slots[i].lastOnAt /\ seen.offAt = slots[i].offAt
    <2>1. seen.held = slots[i].held
        BY <1>1, RecordedFields
    <2>2. seen.offPending = slots[i].offPending
        BY <1>1, RecordedFields
    <2>3. seen.lastOnAt = slots[i].lastOnAt
        BY <1>1, RecordedFields
    <2>4. seen.offAt = slots[i].offAt
        BY <1>1, RecordedFields
    <2> QED
        BY <2>1, <2>2, <2>3, <2>4
<1>4. seen.valid => seen.frame.state \in {"active", "idle", "asleep"}
    BY <1>1, <1>2, ValidState
<1> HIDE DEF seen
<1>5. SlotOK(i, seen) /\ seen \in SlotType
    BY <1>2 DEF Quiet, SlotOK
<1>6. /\ Quiet(i, seen, res)
      /\ seen.held /\ ~res.held => OffEvidence(seen, now)
      /\ res.valid = seen.valid /\ res.frame = seen.frame /\ res.written = seen.written
    BY <1>1, <1>2, <1>5, ResolvedQuiet
<1> HIDE DEF res
<1>7. Evident(slots[i], res)
    BY <1>1, <1>3, <1>4, <1>5, <1>6, OffEvidenceMeans DEF Evident
<1>8. res \in SlotType
    BY <1>6 DEF Quiet, SlotOK
<1> HIDE DEF cancelled
<1>9. s \in SlotType /\ same(s, res)
    <2> DEFINE h == IF cancelled \/ ~seen.valid THEN <<>> ELSE res.history
    <2>1. h \in Seq(HistorySample)
        <3>1. <<>> \in Seq(HistorySample)
            OBVIOUS
        <3> QED BY <1>8, <3>1 DEF SlotType
    <2>2. s = [res EXCEPT !.observedRound = id, !.history = h]
        BY <1>8 DEF SlotType
    <2> HIDE DEF h, s
    <2>3. s \in SlotType
        BY <1>1, <1>8, <2>1, <2>2 DEF SlotType
    <2> QED
        BY <1>8, <2>2, <2>3 DEF SlotType
<1> HIDE DEF s
<1>10. ss \in [Slots -> SlotType] /\ \A j \in Slots : Evident(slots[j], ss[j])
    BY <1>1, <1>7, <1>9 DEF SlotsOK, Evident
<1> HIDE DEF ss
<1>11. ASSUME NEW t \in SlotType, NEW x
       PROVE  same([t EXCEPT !.history = x], t)
    BY DEF SlotType
<1>12. ASSUME NEW t \in SlotType PROVE same(t, t)
    OBVIOUS
<1>13. ASSUME NEW j, NEW t, NEW u, Evident(slots[j], t), same(u, t)
       PROVE  Evident(slots[j], u)
    BY <1>13 DEF Evident
<1> HIDE DEF same
<1>14. after \in [Slots -> SlotType] /\ \A j \in Slots : Evident(slots[j], after[j])
    <2>1. CASE cancelled
        <3>1. \A j \in Slots : same(Forget(ss)[j], ss[j])
            <4>1. \A j \in Slots : Forget(ss)[j] = [ss[j] EXCEPT !.history = <<>>]
                BY <1>10, ForgetType
            <4>2. ASSUME NEW j \in Slots PROVE same([ss[j] EXCEPT !.history = <<>>], ss[j])
                BY <1>10, <1>11, SMTT(40)
            <4> QED
                BY <4>1, <4>2
        <3> QED
            BY <1>10, <1>13, <2>1, <3>1, ForgetType
    <2> QED
        BY <1>10, <2>1
<1> HIDE DEF after
<1> DEFINE single == [voltage |-> data.voltage, current |-> data.current, at |-> now]
           samples == [round.samples EXCEPT ![i] =
                         [start |-> start, end |-> end, complete |-> now,
                          voltage |-> data.voltage, current |-> data.current]]
<1>15. \A j \in Slots : same(slots'[j], after[j])
    <2>1. CASE slots' = after
        BY <1>12, <1>14, <2>1
    <2>2. CASE slots' = Forget(after)
        <3>1. \A j \in Slots : Forget(after)[j] = [after[j] EXCEPT !.history = <<>>]
            BY <1>14, ForgetType
        <3>2. ASSUME NEW j \in Slots PROVE same([after[j] EXCEPT !.history = <<>>], after[j])
            BY <1>11, <1>14
        <3> QED
            BY <2>2, <3>1, <3>2
    <2>3. CASE slots' = [after EXCEPT ![i].history = AppendHistory(@, single)]
        <3>1. /\ slots'[i] = [after[i] EXCEPT !.history = AppendHistory(@, single)]
              /\ \A j \in Slots \ {i} : slots'[j] = after[j]
            BY <1>14, <2>3
        <3>2. slots'[i] = [after[i] EXCEPT !.history = AppendHistory(after[i].history, single)]
            BY <3>1
        <3> QED
            BY <1>11, <1>12, <1>14, <3>1, <3>2
    <2>4. CASE slots' = [j \in Slots |-> [after[j] EXCEPT !.history =
                           AppendHistory(@, [voltage |-> samples[j].voltage,
                                             current |-> samples[j].current,
                                             at |-> samples[j].start])]]
        <3> DEFINE x(j) == AppendHistory(after[j].history,
                             [voltage |-> samples[j].voltage,
                              current |-> samples[j].current, at |-> samples[j].start])
        <3>1. \A j \in Slots : slots'[j] = [after[j] EXCEPT !.history = x(j)]
            BY <2>4
        <3> HIDE DEF x
        <3>2. ASSUME NEW j \in Slots PROVE same([after[j] EXCEPT !.history = x(j)], after[j])
            BY <1>11, <1>14
        <3> QED
            BY <3>1, <3>2
    <2> QED
        BY <2>1, <2>2, <2>3, <2>4
        DEF FinishRead, after, ss, s, res, seen, cancelled
<1> QED
    BY <1>13, <1>14, <1>15, SMTT(40)

-----------------------------------------------------------------------------
(* A reservation ends only through an inactive frame that changed after    *)
(* the last ON and after the OFF it answers (observeLocked).               *)
THEOREM ReleasesAreEvident == Spec => ReleaseNeedsEvidence
<1>1. ASSUME Inv, [Next]_vars
      PROVE  \A j \in Slots : Evident(slots[j], slots'[j])
    <2>1. CASE KeepsReservations
        BY <2>1 DEF KeepsReservations, Evident
    <2>2. ASSUME NEW i \in Slots, Reader(i)
          PROVE  \A j \in Slots : Evident(slots[j], slots'[j])
        <3>1. CASE \E data \in Frames : \E start, end \in reading[i].from..now :
                      FinishRead(i, data, start, end)
            BY <1>1, <3>1, FinishReadEvident, FramesAssumption
        <3>2. CASE \/ \E uid \in Uids : Tag(i, uid)
                   \/ \E departed \in BOOLEAN : ObserveAbsent(i, departed)
                   \/ StartRead(i) \/ FailRead(i) \/ ShouldIsolate(i)
                   \/ RequestOn(i) \/ Off(i)
            BY <1>1, <2>1, <3>2, ReaderKeeps
        <3> QED
            BY <2>2, <3>1, <3>2 DEF Reader, OffAttempt, IsolationOffAttempt
    <2>3. CASE \/ Service \/ Tick \/ UNCHANGED vars
               \/ \E offset \in ClockOffsets \ {wall} : SetClock(offset)
        BY <1>1, <2>1, <2>3, ServiceKeeps
    <2> QED
        BY <1>1, <2>2, <2>3 DEF Next
<1>2. Inv /\ [Next]_vars =>
        [\A i \in Slots :
           (slots[i].held /\ ~slots'[i].held) =>
              /\ slots'[i].valid /\ Inactive(slots'[i].frame)
              /\ slots'[i].written > slots[i].lastOnAt
              /\ slots[i].offPending => slots'[i].written > slots[i].offAt]_vars
    BY <1>1 DEF Evident
<1> QED
    BY <1>2, Invariance, PTL DEF Spec, ReleaseNeedsEvidence
=============================================================================
