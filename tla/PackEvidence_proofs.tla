------------------------ MODULE PackEvidence_proofs ------------------------
(***************************************************************************)
(* The measurements behind a second supply, and the evidence of a          *)
(* standstill.  SamplesFollowCommands and PairIntact need to be kept       *)
(* together with what the sampler knows of its open round (RoundSound) and *)
(* with the order of the round numbers (PairSound).                        *)
(***************************************************************************)
EXTENDS PackBus_proofs

-----------------------------------------------------------------------------
(* The inductive invariant. *)

(* No command lies in the future. *)
CommandsPast == \A j \in Slots : slots[j].onAt <= now /\ slots[j].offAt <= now

(* The sample a read left in the open round. *)
SampleSound(opened, s) ==
    s.complete # Zero =>
        /\ opened <= s.start /\ s.start <= s.end /\ s.end <= s.complete
        /\ s.complete - s.start <= FrameLimit

(* An open round is newer than every command and than the last pair. *)
RoundSound ==
    round.id # 0 =>
        /\ coordinated /\ round.id <= next /\ paired.id < round.id
        /\ round.opened <= now
        /\ \A j \in Slots :
             /\ slots[j].onAt <= round.opened /\ slots[j].offAt <= round.opened
             /\ SampleSound(round.opened, round.samples[j])

PairSound ==
    /\ paired.id # 0 => coordinated
    /\ paired.at # Zero => paired.id # 0
    /\ paired.id <= next

Sound ==
    /\ CommandsPast /\ RoundSound /\ PairSound
    /\ SamplesFollowCommands /\ PairIntact

(* The types the arithmetic needs. *)
LEMMA EvidenceTypes ==
    ASSUME Inv
    PROVE  /\ now \in Nat /\ next \in Nat /\ round.id \in Nat /\ round.opened \in Nat
           /\ paired.id \in Nat /\ paired.at \in Nat /\ coordinated \in BOOLEAN
           /\ slots \in [Slots -> SlotType]
           /\ \A j \in Slots :
                /\ slots[j].onAt \in Nat /\ slots[j].offAt \in Nat
                /\ slots[j].observed \in Nat /\ slots[j].observedRound \in Nat
                /\ slots[j].valid \in BOOLEAN
                /\ slots[j].history \in Seq(HistorySample)
                /\ round.samples[j] \in SampleType
<1>1. SlotsOK /\ RestType
    BY InvParts
<1>2. /\ now \in Nat /\ next \in Nat /\ round.id \in Nat /\ round.opened \in Nat
      /\ paired.id \in Nat /\ paired.at \in Nat /\ coordinated \in BOOLEAN
      /\ round.samples \in [Slots -> SampleType]
    BY <1>1 DEF RestType, RoundType
<1>3. slots \in [Slots -> SlotType]
    BY <1>1 DEF SlotsOK
<1>4. ASSUME NEW s \in SlotType
      PROVE  /\ s.onAt \in Nat /\ s.offAt \in Nat /\ s.observed \in Nat
             /\ s.observedRound \in Nat /\ s.valid \in BOOLEAN
             /\ s.history \in Seq(HistorySample)
    BY DEF SlotType
<1> QED
    BY <1>2, <1>3, <1>4

(* SamplesFollowCommands in terms of AtLeast. *)
LEMMA FollowMeans ==
    SamplesFollowCommands <=>
        \A i, j \in Slots : /\ AtLeast(slots[i].history, slots[j].onAt)
                            /\ AtLeast(slots[i].history, slots[j].offAt)
BY DEF SamplesFollowCommands, AtLeast

(* Forgetting leaves no sample. *)
LEMMA ForgottenEmpty ==
    ASSUME NEW ss, Forget(ss) \in [Slots -> SlotType]
    PROVE  \A j \in Slots : Forget(ss)[j].history = <<>>
<1> SUFFICES ASSUME NEW j \in Slots PROVE Forget(ss)[j].history = <<>>
    OBVIOUS
<1> DEFINE r == ss[j]
           u == [r EXCEPT !["history"] = <<>>]
<1>1. Forget(ss)[j] = u
    BY DEF Forget
<1>2. "history" \in DOMAIN u
    <2>1. ASSUME NEW s \in SlotType PROVE "history" \in DOMAIN s
        BY DEF SlotType
    <2>2. u \in SlotType
        BY <1>1
    <2> HIDE DEF u
    <2> QED
        BY <2>1, <2>2
<1>3. DOMAIN u = DOMAIN r
    OBVIOUS
<1>4. ASSUME "history" \in DOMAIN r PROVE u["history"] = <<>>
    BY <1>4
<1> HIDE DEF u, r
<1> QED
    BY <1>1, <1>2, <1>3, <1>4

(* The clock never runs backwards. *)
LEMMA NowGrows ==
    ASSUME Inv, [Next]_vars
    PROVE  now' >= now
<1>1. now \in Nat
    BY EvidenceTypes
<1>2. ASSUME NEW i \in Slots, Reader(i) PROVE now' = now
    <2>1. CASE \/ \E uid \in Uids : Tag(i, uid)
               \/ \E departed \in BOOLEAN : ObserveAbsent(i, departed)
               \/ StartRead(i) \/ FailRead(i) \/ ShouldIsolate(i)
        BY <2>1 DEF Tag, ObserveAbsent, StartRead, FailRead, EndRead, ShouldIsolate, clock
    <2>2. ASSUME NEW data, NEW start, NEW end, FinishRead(i, data, start, end)
          PROVE  now' = now
        <3>1. EndRead(i)
            BY <2>2, Zenon DEF FinishRead
        <3> QED
            BY <3>1 DEF EndRead, clock
    <2>3. CASE RequestOn(i)
        BY <2>3 DEF RequestOn, RepeatOn, RequalifyOn, ActivateOn, Requested, clock
    <2>4. CASE Off(i)
        BY <2>4 DEF Off, clock
    <2> QED
        BY <1>2, <2>1, <2>2, <2>3, <2>4 DEF Reader, OffAttempt, IsolationOffAttempt
<1>3. ASSUME \/ Service \/ UNCHANGED vars
             \/ \E offset \in ClockOffsets \ {wall} : SetClock(offset)
      PROVE  now' = now
    BY <1>3, Zenon
    DEF Service, BeginRound, StopSampling, ReceiveMotion, ResetMotionStream,
        SetVehicle, SetSeatbox, SetRole, SetMaxDelta, SetClock, vars, clock
<1>4. ASSUME Tick PROVE now' = now + 1
    BY <1>4 DEF Tick
<1> QED
    BY <1>1, <1>2, <1>3, <1>4 DEF Next

(* Commands carry the time they were given. *)
LEMMA CommandsPastNext ==
    ASSUME Inv, CommandsPast, [Next]_vars
    PROVE  CommandsPast'
<1>1. /\ now \in Nat /\ now' \in Nat /\ now' >= now
      /\ \A j \in Slots : slots[j].onAt \in Nat /\ slots[j].offAt \in Nat
    <2>1. Inv'
        BY NextInv
    <2>2. now' \in Nat
        BY <2>1 DEF Inv, TypeOK
    <2> QED
        BY <2>2, EvidenceTypes, NowGrows
<1>2. ASSUME NEW j \in Slots
      PROVE  /\ slots'[j].onAt = slots[j].onAt \/ slots'[j].onAt = now
             /\ slots'[j].offAt = slots[j].offAt \/ slots'[j].offAt = now
    BY StepKind
    DEF AllKeep, OthersKeep, Keeps, Replaced, SeenRunning, Released, Withdrawn, Activated
<1> QED
    BY <1>1, <1>2 DEF CommandsPast

-----------------------------------------------------------------------------
(* Three kinds of step. *)

(* The samples of both packs are dropped and with them the round and pair. *)
LEMMA CancelSound ==
    ASSUME Inv, Inv', CommandsPast', CancelRound, NEW ss, slots' = Forget(ss)
    PROVE  Sound'
<1>1. slots' \in [Slots -> SlotType] /\ next' \in Nat
    BY DEF Inv, TypeOK
<1>4. \A j \in Slots : slots'[j].history = <<>>
    BY <1>1, ForgottenEmpty
<1>5. round'.id = 0 /\ paired'.id = 0 /\ paired'.at = Zero
    BY DEF CancelRound, NoRound, NoPair
<1>6. SamplesFollowCommands'
    BY <1>4 DEF SamplesFollowCommands
<1>7. RoundSound' /\ PairSound' /\ PairIntact'
    BY <1>1, <1>5 DEF RoundSound, PairSound, PairIntact
<1> QED
    BY <1>6, <1>7 DEF Sound

(* The evidence stays what it was. *)
LEMMA KeepSound ==
    ASSUME Inv, Inv', Sound, CommandsPast', now' >= now,
           \A j \in Slots : /\ Alike(slots[j], slots'[j])
                            /\ slots'[j].history = slots[j].history,
           UNCHANGED <<paired, next, coordinated>>,
           round'.id = round.id, round'.opened = round.opened,
           round'.samples = round.samples
    PROVE  Sound'
<1>1. /\ now \in Nat /\ now' \in Nat /\ round.opened \in Nat
    BY EvidenceTypes DEF Inv, TypeOK
<1>2. \A j \in Slots : /\ slots'[j].onAt = slots[j].onAt
                       /\ slots'[j].offAt = slots[j].offAt
                       /\ slots'[j].valid = slots[j].valid
                       /\ slots'[j].observed = slots[j].observed
                       /\ slots'[j].observedRound = slots[j].observedRound
                       /\ slots'[j].history = slots[j].history
    BY DEF Alike, Keeps
<1>3. RoundSound'
    BY <1>1, <1>2 DEF Sound, RoundSound, SampleSound
<1>4. PairSound'
    BY DEF Sound, PairSound
<1>5. SamplesFollowCommands'
    BY <1>2 DEF Sound, SamplesFollowCommands
<1>6. PairIntact'
    <2>1. 0 \in Slots /\ 1 \in Slots
        BY DEF Slots
    <2> QED
        BY <1>2, <2>1 DEF Sound, PairIntact
<1> QED
    BY <1>3, <1>4, <1>5, <1>6 DEF Sound

(* A round is opened: it is later than every command so far. *)
LEMMA BeginRoundSound ==
    ASSUME Inv, Inv', Sound, CommandsPast', BeginRound
    PROVE  Sound'
<1>1. /\ now \in Nat /\ next \in Nat /\ paired.id \in Nat /\ coordinated
      /\ next' = next + 1 /\ now' = now /\ coordinated' = coordinated
      /\ slots \in [Slots -> SlotType]
    BY EvidenceTypes DEF BeginRound, needsPoll, clock
<1>2. /\ round'.id = next + 1 /\ round'.opened = now
      /\ \A j \in Slots : round'.samples[j].complete = Zero
    BY DEF BeginRound, NoRound, NoSample
<1>3. paired' = NoPair \/ paired' = paired
    BY DEF BeginRound
<1>4. paired'.id \in Nat /\ paired'.id <= next
    BY <1>1, <1>3 DEF Sound, PairSound, NoPair
<1>5. RoundSound'
    <2>1. ASSUME NEW j \in Slots
          PROVE  slots'[j].onAt <= round'.opened /\ slots'[j].offAt <= round'.opened
        BY <1>1, <1>2 DEF CommandsPast
    <2>2. round'.id <= next' /\ paired'.id < round'.id
        BY <1>1, <1>2, <1>4
    <2> QED
        BY <1>1, <1>2, <2>1, <2>2 DEF RoundSound, SampleSound
<1>6. PairSound'
    BY <1>1, <1>3, <1>4 DEF Sound, PairSound, NoPair
<1>7. CASE slots' = slots /\ paired' = paired
    BY <1>5, <1>6, <1>7 DEF Sound, SamplesFollowCommands, PairIntact
<1>8. CASE slots' = Forget(slots) /\ paired' = NoPair
    <2>1. \A j \in Slots : slots'[j].history = <<>>
        BY <1>1, <1>8, ForgetType, ForgottenEmpty
    <2>2. SamplesFollowCommands'
        BY <2>1 DEF SamplesFollowCommands
    <2>3. PairIntact'
        BY <1>8 DEF PairIntact, NoPair
    <2> QED
        BY <1>5, <1>6, <2>2, <2>3 DEF Sound
<1> QED
    BY <1>7, <1>8, Zenon DEF BeginRound

-----------------------------------------------------------------------------
(* A completed read. *)

(* A reading keeps the samples of its slot, or drops them with the pack.   *)
LEMMA ReadHistory ==
    ASSUME NEW s \in SlotType, NEW data \in FrameType, NEW t \in Nat
    PROVE  /\ Recorded(s, data, t).history \in {s.history, <<>>}
           /\ Recorded(s, data, t) \in SlotType =>
                Resolved(Recorded(s, data, t), t).history = Recorded(s, data, t).history
<1> DEFINE base == IF IdentityChanged(s, data) THEN ReplaceIdentity(s, s.uid) ELSE s
           written == IF base.haveFrame /\ statusFrameChanged(base.frame, data)
                      THEN t ELSE base.written
           valid == /\ data.present /\ data.voltage > 0
                    /\ data.state \in {"active", "idle", "asleep"}
                    /\ written # Zero
           tracked == base.powerTracked \/ data.state = "active"
           serial == IF data.serial = NoSerial THEN base.serial ELSE data.serial
           record(b, p, c, w, v) == [b EXCEPT
                !.powerTracked = p, !.serial = c, !.written = w,
                !.frame = data, !.haveFrame = TRUE, !.observed = t,
                !.absent = FALSE, !.valid = v]
<1>1. base \in SlotType
    <2>1. s.uid \in Uids \cup {NoUid}
        BY DEF SlotType
    <2> QED
        BY <2>1, ReplaceIdentityType
<1>2. base.history \in {s.history, <<>>}
    <2>1. ReplaceIdentity(s, s.uid).history = <<>>
        BY DEF ReplaceIdentity, EmptySlot
    <2> QED
        BY <2>1
<1>3. Recorded(s, data, t) = record(base, tracked, serial, written, valid)
    BY DEF Recorded
<1>4. ASSUME NEW b \in SlotType, NEW p, NEW c, NEW w, NEW v
      PROVE  record(b, p, c, w, v).history = b.history
    BY DEF SlotType
<1>5. ASSUME NEW b \in SlotType PROVE Resolved(b, t).history = b.history
    BY DEF Resolved, SlotType
<1> HIDE DEF base, written, valid, tracked, serial, record
<1>6. record(base, tracked, serial, written, valid).history = base.history
    BY <1>1, <1>4, SMTT(40)
<1> QED
    BY <1>2, <1>3, <1>5, <1>6

(* The four ways a read can end, with "after" the slots before the samples *)
(* are looked at.                                                          *)
LEMMA FinishReadBranches ==
    ASSUME Inv, NEW i \in Slots, NEW data \in FrameType, NEW start, NEW end,
           FinishRead(i, data, start, end)
    PROVE  \E after \in [Slots -> SlotType] :
             LET sample == [start |-> start, end |-> end, complete |-> now,
                            voltage |-> data.voltage, current |-> data.current]
                 samples == [round.samples EXCEPT ![i] = sample]
                 from == IF samples[0].start < samples[1].start
                         THEN samples[0].start ELSE samples[1].start
                 single == [voltage |-> data.voltage, current |-> data.current, at |-> now]
                 usable == /\ reading[i].id = round.id /\ round.id # 0
                           /\ start >= round.opened /\ now - start <= FrameLimit
             IN  /\ \A j \in Slots : after[j].history \in {slots[j].history, <<>>}
                 /\ after[i].observed = now /\ after[i].observedRound = reading[i].id
                 /\ \/ /\ ~coordinated /\ UNCHANGED <<round, paired>>
                       /\ \/ slots' = after
                          \/ slots' = [after EXCEPT ![i].history = AppendHistory(@, single)]
                    \/ CancelRound /\ slots' = Forget(after)
                    \/ /\ coordinated /\ usable /\ slots' = after
                       /\ round' = [round EXCEPT !.samples = samples]
                       /\ UNCHANGED paired
                    \/ /\ coordinated /\ usable
                       /\ samples[Other(i)].complete # Zero
                       /\ \A j \in Slots : samples[j].end - from <= SamplingSkew
                       /\ \A j \in Slots : /\ after[j].valid
                                           /\ after[j].observed = samples[j].complete
                       /\ slots' = [j \in Slots |-> [after[j] EXCEPT !.history =
                              AppendHistory(@, [voltage |-> samples[j].voltage,
                                                current |-> samples[j].current,
                                                at |-> samples[j].start])]]
                       /\ paired' = [at |-> from, id |-> round.id]
                       /\ round' = NoRound
<1> DEFINE id == reading[i].id
           seen == Recorded(slots[i], data, now)
           cancelled == \/ IdentityChanged(slots[i], data)
                        \/ OffEvidence(seen, now) /\ seen.held
           res == Resolved(seen, now)
           s == [res EXCEPT !.observedRound = id,
                            !.history = IF cancelled \/ ~seen.valid THEN <<>> ELSE @]
           ss == [slots EXCEPT ![i] = s]
           after == IF cancelled THEN Forget(ss) ELSE ss
<1>1. SlotsOK /\ SlotOK(i, slots[i]) /\ slots[i] \in SlotType
      /\ now \in Nat /\ id \in Nat /\ i \in Monitored
    BY InvParts DEF SlotsOK, SlotOK, RestType, FinishRead, EndRead, Inv, ReadersMonitored
<1>2. /\ Quiet(i, slots[i], seen) /\ ~seen.absent /\ seen.frame = data
      /\ data.state = "active" => seen.powerTracked
      /\ seen.observed = now
    <2>1. Quiet(i, slots[i], seen)
        BY <1>1, RecordedFields, Zenon
    <2>2. ~seen.absent
        BY <1>1, RecordedFields, Zenon
    <2>3. seen.frame = data
        BY <1>1, RecordedFields, ZenonT(60)
    <2>4. data.state = "active" => seen.powerTracked
        BY <1>1, RecordedFields, Zenon
    <2>5. seen.observed = now
        BY <1>1, RecordedFields, ZenonT(60)
    <2> QED
        BY <2>1, <2>2, <2>3, <2>4, <2>5
<1>3. seen \in SlotType /\ SlotOK(i, seen)
    BY <1>2 DEF Quiet, SlotOK
<1>4. res.history \in {slots[i].history, <<>>}
    BY <1>1, <1>3, ReadHistory
<1> HIDE DEF seen
<1>5. res \in SlotType /\ res.observed = now
    <2>1. Quiet(i, seen, res)
        BY <1>1, <1>2, <1>3, ResolvedQuiet
    <2>2. res.observed = seen.observed
        BY <1>3 DEF Resolved, SlotType
    <2> QED
        BY <1>2, <2>1, <2>2 DEF Quiet, SlotOK
<1> HIDE DEF res, cancelled
<1>6. /\ s \in SlotType /\ s.observed = now /\ s.observedRound = id
      /\ s.history \in {slots[i].history, <<>>}
    <2> DEFINE h == IF cancelled \/ ~seen.valid THEN <<>> ELSE res.history
    <2>1. h \in Seq(HistorySample)
        <3>1. <<>> \in Seq(HistorySample)
            OBVIOUS
        <3> QED BY <1>5, <3>1 DEF SlotType
    <2>2. h \in {slots[i].history, <<>>}
        BY <1>4
    <2>3. s = [res EXCEPT !.observedRound = id, !.history = h]
        BY <1>5 DEF SlotType
    <2> HIDE DEF h, s
    <2>4. s \in SlotType
        BY <1>1, <1>5, <2>1, <2>3 DEF SlotType
    <2>5. s.observed = res.observed /\ s.observedRound = id /\ s.history = h
        BY <1>5, <2>3 DEF SlotType
    <2> QED
        BY <1>5, <2>2, <2>4, <2>5
<1> HIDE DEF s
<1>7. /\ ss \in [Slots -> SlotType] /\ ss[i] = s
      /\ \A j \in Slots \ {i} : ss[j] = slots[j]
    BY <1>1, <1>6 DEF SlotsOK
<1> HIDE DEF ss
<1>8. ASSUME NEW t \in SlotType
      PROVE  LET u == [t EXCEPT !.history = <<>>]
             IN  /\ u.observed = t.observed /\ u.observedRound = t.observedRound
                 /\ u.history = <<>>
    BY DEF SlotType
<1>9. /\ after \in [Slots -> SlotType]
      /\ \A j \in Slots : after[j].history \in {slots[j].history, <<>>}
      /\ after[i].observed = now /\ after[i].observedRound = id
    <2>1. CASE cancelled
        <3>1. /\ Forget(ss) \in [Slots -> SlotType]
              /\ \A j \in Slots : Forget(ss)[j] = [ss[j] EXCEPT !.history = <<>>]
            BY <1>7, ForgetType
        <3>2. \A j \in Slots : Forget(ss)[j].history = <<>>
            BY <3>1, ForgottenEmpty
        <3>3. /\ Forget(ss)[i].observed = ss[i].observed
              /\ Forget(ss)[i].observedRound = ss[i].observedRound
            BY <1>7, <1>8, <3>1
        <3> QED
            BY <1>6, <1>7, <2>1, <3>1, <3>2, <3>3
    <2>2. CASE ~cancelled
        BY <1>6, <1>7, <2>2
    <2> QED
        BY <2>1, <2>2
<1> HIDE DEF after
<1> QED
    <2> DEFINE sample == [start |-> start, end |-> end, complete |-> now,
                          voltage |-> data.voltage, current |-> data.current]
               samples == [round.samples EXCEPT ![i] = sample]
               from == IF samples[0].start < samples[1].start
                       THEN samples[0].start ELSE samples[1].start
               single == [voltage |-> data.voltage, current |-> data.current, at |-> now]
               usable == /\ id = round.id /\ round.id # 0
                         /\ start >= round.opened /\ now - start <= FrameLimit
    <2>1. \/ /\ ~coordinated /\ UNCHANGED <<round, paired>>
             /\ \/ slots' = after
                \/ slots' = [after EXCEPT ![i].history = AppendHistory(@, single)]
          \/ CancelRound /\ slots' = Forget(after)
          \/ /\ coordinated /\ usable /\ slots' = after
             /\ round' = [round EXCEPT !.samples = samples]
             /\ UNCHANGED paired
          \/ /\ coordinated /\ usable
             /\ samples[Other(i)].complete # Zero
             /\ \A j \in Slots : samples[j].end - from <= SamplingSkew
             /\ \A j \in Slots : /\ Fresh(after[j], now)
                                 /\ after[j].observed = samples[j].complete
             /\ slots' = [j \in Slots |-> [after[j] EXCEPT !.history =
                    AppendHistory(@, [voltage |-> samples[j].voltage,
                                      current |-> samples[j].current,
                                      at |-> samples[j].start])]]
             /\ paired' = [at |-> from, id |-> round.id]
             /\ round' = NoRound
        BY ZenonT(60) DEF FinishRead, after, ss, s, res, seen, cancelled
    <2> HIDE DEF samples, single, from
    <2>2. \A j \in Slots : Fresh(after[j], now) => after[j].valid
        BY DEF Fresh
    <2> QED
        BY <1>9, <2>1, <2>2 DEF samples, single, from

(* The two reads of a completed pair are as close as requestOn asks. *)
LEMMA PairSkew ==
    ASSUME NEW a \in SampleType, NEW b \in SampleType, NEW opened \in Nat,
           a.complete # Zero, b.complete # Zero,
           SampleSound(opened, a), SampleSound(opened, b),
           NEW from \in Nat, from <= a.start, from <= b.start,
           a.end - from <= SamplingSkew, b.end - from <= SamplingSkew
    PROVE  /\ a.complete - b.complete \in -MaxSkew..MaxSkew
           /\ a.complete >= from /\ b.complete >= from
<1>1. /\ a.start \in Nat /\ a.end \in Nat /\ a.complete \in Nat
      /\ b.start \in Nat /\ b.end \in Nat /\ b.complete \in Nat
    BY DEF SampleType
<1>2. /\ a.start <= a.end /\ a.end <= a.complete /\ a.complete - a.start <= FrameLimit
      /\ b.start <= b.end /\ b.end <= b.complete /\ b.complete - b.start <= FrameLimit
    BY DEF SampleSound
<1>3. /\ SamplingSkew \in Nat /\ FrameLimit \in Nat /\ MaxSkew \in Nat
      /\ SamplingSkew + FrameLimit <= MaxSkew
    BY DurationsAssumption DEF Durations
<1> QED
    BY <1>1, <1>2, <1>3

(* A completed read. *)
LEMMA FinishReadSound ==
    ASSUME Inv, Inv', Sound, CommandsPast', NEW i \in Slots, NEW data \in FrameType,
           NEW start, NEW end, FinishRead(i, data, start, end)
    PROVE  Sound'
<1> DEFINE sample == [start |-> start, end |-> end, complete |-> now,
                      voltage |-> data.voltage, current |-> data.current]
           samples == [round.samples EXCEPT ![i] = sample]
           from == IF samples[0].start < samples[1].start
                   THEN samples[0].start ELSE samples[1].start
           single == [voltage |-> data.voltage, current |-> data.current, at |-> now]
           usable == /\ reading[i].id = round.id /\ round.id # 0
                     /\ start >= round.opened /\ now - start <= FrameLimit
<1>1. /\ now \in Nat /\ next \in Nat /\ round.id \in Nat /\ round.opened \in Nat
      /\ paired.id \in Nat /\ paired.at \in Nat
      /\ slots \in [Slots -> SlotType] /\ reading[i].from \in Nat
      /\ \A j \in Slots :
           /\ slots[j].onAt \in Nat /\ slots[j].offAt \in Nat
           /\ slots[j].history \in Seq(HistorySample)
           /\ round.samples[j] \in SampleType
      /\ round.samples \in [Slots -> SampleType]
    BY EvidenceTypes, InvParts DEF RestType, RoundType
<1>2. start \in Nat /\ end \in Nat /\ start <= end /\ end <= now
    <2>1. start \in reading[i].from..now /\ end \in start..now
        BY Zenon DEF FinishRead
    <2> QED
        BY <1>1, <2>1
<1>3. UNCHANGED <<now, next, coordinated>>
    <2>1. EndRead(i)
        BY Zenon DEF FinishRead
    <2> QED
        BY <2>1 DEF EndRead, clock
<1>4. PICK after \in [Slots -> SlotType] :
         /\ \A j \in Slots : after[j].history \in {slots[j].history, <<>>}
         /\ after[i].observed = now /\ after[i].observedRound = reading[i].id
         /\ \/ /\ ~coordinated /\ UNCHANGED <<round, paired>>
               /\ \/ slots' = after
                  \/ slots' = [after EXCEPT ![i].history = AppendHistory(@, single)]
            \/ CancelRound /\ slots' = Forget(after)
            \/ /\ coordinated /\ usable /\ slots' = after
               /\ round' = [round EXCEPT !.samples = samples]
               /\ UNCHANGED paired
            \/ /\ coordinated /\ usable
               /\ samples[Other(i)].complete # Zero
               /\ \A j \in Slots : samples[j].end - from <= SamplingSkew
               /\ \A j \in Slots : /\ after[j].valid
                                   /\ after[j].observed = samples[j].complete
               /\ slots' = [j \in Slots |-> [after[j] EXCEPT !.history =
                      AppendHistory(@, [voltage |-> samples[j].voltage,
                                        current |-> samples[j].current,
                                        at |-> samples[j].start])]]
               /\ paired' = [at |-> from, id |-> round.id]
               /\ round' = NoRound
    BY FinishReadBranches
<1>5. \A j \in Slots : slots'[j].onAt = slots[j].onAt /\ slots'[j].offAt = slots[j].offAt
    BY FinishReadKind
    DEF OthersKeep, Keeps, Replaced, SeenRunning, Released
<1>6. /\ \A j \in Slots : after[j].history \in Seq(HistorySample)
      /\ \A j, k \in Slots : /\ AtLeast(after[j].history, slots[k].onAt)
                             /\ AtLeast(after[j].history, slots[k].offAt)
    <2>1. \A j \in Slots : after[j].history \in Seq(HistorySample)
        BY <1>4 DEF SlotType
    <2>2. \A b : AtLeast(<<>>, b)
        BY DEF AtLeast
    <2>3. \A j, k \in Slots : /\ AtLeast(slots[j].history, slots[k].onAt)
                              /\ AtLeast(slots[j].history, slots[k].offAt)
        BY FollowMeans DEF Sound
    <2> QED
        BY <1>4, <2>1, <2>2, <2>3
<1>7. sample \in SampleType /\ single \in HistorySample
    BY <1>1, <1>2 DEF SampleType, HistorySample, FrameType
<1>8. ASSUME \A j, k \in Slots : /\ AtLeast(slots'[j].history, slots[k].onAt)
                                 /\ AtLeast(slots'[j].history, slots[k].offAt)
      PROVE  SamplesFollowCommands'
    BY <1>5, <1>8 DEF SamplesFollowCommands, AtLeast
<1>9. CASE /\ ~coordinated /\ UNCHANGED <<round, paired>>
           /\ \/ slots' = after
              \/ slots' = [after EXCEPT ![i].history = AppendHistory(@, single)]
    <2>1. round.id = 0 /\ paired.id = 0
        BY <1>9 DEF Sound, RoundSound, PairSound
    <2>2. RoundSound' /\ PairSound' /\ PairIntact'
        BY <1>3, <1>9, <2>1 DEF Sound, RoundSound, PairSound, PairIntact
    <2> DEFINE h == AppendHistory(after[i].history, single)
    <2>3. ASSUME NEW k \in Slots
          PROVE  AtLeast(h, slots[k].onAt) /\ AtLeast(h, slots[k].offAt)
        <3>1. single.at >= slots[k].onAt /\ single.at >= slots[k].offAt
            BY <1>1 DEF Sound, CommandsPast
        <3> HIDE DEF single
        <3> QED
            BY <1>1, <1>6, <1>7, <3>1, AppendHistoryAtLeast
    <2> HIDE DEF single
    <2>4. /\ slots'[i].history \in {after[i].history, h}
          /\ \A j \in Slots \ {i} : slots'[j].history = after[j].history
        <3>1. CASE slots' = after
            BY <3>1
        <3>2. CASE slots' = [after EXCEPT ![i].history = AppendHistory(@, single)]
            <4>1. /\ slots'[i] = [after[i] EXCEPT !.history = AppendHistory(@, single)]
                  /\ \A j \in Slots \ {i} : slots'[j] = after[j]
                BY <1>4, <3>2
            <4>2. slots'[i] = [after[i] EXCEPT !.history = h]
                BY <4>1
            <4>3. after[i] \in SlotType
                OBVIOUS
            <4> HIDE DEF h
            <4>4. [after[i] EXCEPT !.history = h].history = h
                BY <4>3 DEF SlotType
            <4> QED
                BY <4>1, <4>2, <4>4
        <3> QED
            BY <1>9, <3>1, <3>2
    <2> HIDE DEF h
    <2>5. SamplesFollowCommands'
        BY <1>6, <1>8, <2>3, <2>4
    <2> QED
        BY <2>2, <2>5 DEF Sound
<1>10. CASE CancelRound /\ slots' = Forget(after)
    BY <1>10, CancelSound
<1>11. usable => \A j \in Slots : SampleSound(round.opened, samples[j])
    <2> SUFFICES ASSUME usable PROVE \A j \in Slots : SampleSound(round.opened, samples[j])
        OBVIOUS
    <2>1. samples[i] = sample /\ \A j \in Slots \ {i} : samples[j] = round.samples[j]
        BY <1>1
    <2>2. SampleSound(round.opened, sample)
        BY <1>2 DEF SampleSound
    <2>3. \A j \in Slots : SampleSound(round.opened, round.samples[j])
        BY DEF Sound, RoundSound
    <2> QED
        BY <2>1, <2>2, <2>3
<1>12. CASE /\ coordinated /\ usable /\ slots' = after
            /\ round' = [round EXCEPT !.samples = samples]
            /\ UNCHANGED paired
    <2>1. round'.id = round.id /\ round'.opened = round.opened /\ round'.samples = samples
        BY <1>1, <1>12, InvParts DEF RestType, RoundType
    <2> HIDE DEF samples
    <2>2. RoundSound'
        BY <1>3, <1>5, <1>11, <1>12, <2>1 DEF Sound, RoundSound
    <2>3. PairSound'
        BY <1>3, <1>12 DEF Sound, PairSound
    <2>4. slots'[i].observedRound # paired'.id
        BY <1>1, <1>4, <1>12 DEF Sound, RoundSound
    <2>5. PairIntact'
        BY <2>4 DEF PairIntact
    <2>6. SamplesFollowCommands'
        BY <1>6, <1>8, <1>12
    <2> QED
        BY <2>2, <2>3, <2>5, <2>6 DEF Sound
<1>13. CASE /\ coordinated /\ usable
            /\ samples[Other(i)].complete # Zero
            /\ \A j \in Slots : samples[j].end - from <= SamplingSkew
            /\ \A j \in Slots : /\ after[j].valid
                                /\ after[j].observed = samples[j].complete
            /\ slots' = [j \in Slots |-> [after[j] EXCEPT !.history =
                   AppendHistory(@, [voltage |-> samples[j].voltage,
                                     current |-> samples[j].current,
                                     at |-> samples[j].start])]]
            /\ paired' = [at |-> from, id |-> round.id]
            /\ round' = NoRound
    <2> DEFINE taken(j) == [voltage |-> samples[j].voltage,
                            current |-> samples[j].current, at |-> samples[j].start]
               h(j) == AppendHistory(after[j].history, taken(j))
    <2>1. /\ 0 \in Slots /\ 1 \in Slots /\ Other(i) \in Slots
          /\ \A j \in Slots : j = 0 \/ j = 1
          /\ \A j \in Slots : j = i \/ j = Other(i)
        BY DEF Slots, Other
    <2>2. samples \in [Slots -> SampleType]
        BY <1>1, <1>7
    <2>3. \A j \in Slots : samples[j].complete # Zero
        <3>1. samples[i].complete = now
            BY <1>1
        <3>2. now # Zero
            BY DurationsAssumption DEF Inv, TypeOK, Durations, Zero
        <3> QED
            BY <1>13, <2>1, <3>1, <3>2
    <2> HIDE DEF samples, sample
    <2>4. \A j \in Slots : /\ samples[j].start \in Nat
                           /\ samples[j].start >= round.opened
        <3>1. \A j \in Slots : samples[j] \in SampleType
            BY <2>2
        <3> QED
            BY <1>11, <1>13, <2>3, <3>1 DEF SampleSound, SampleType
    <2>5. /\ from \in Nat /\ \A j \in Slots : from <= samples[j].start
          /\ from >= round.opened
        BY <1>1, <2>1, <2>4, SMTT(40)
    <2> HIDE DEF from
    <2>6. /\ samples[0].complete - samples[1].complete \in -MaxSkew..MaxSkew
          /\ \A j \in Slots : samples[j].complete >= from
        <3>1. /\ samples[0].complete - samples[1].complete \in -MaxSkew..MaxSkew
              /\ samples[0].complete >= from /\ samples[1].complete >= from
            <4>1. /\ samples[0] \in SampleType /\ samples[1] \in SampleType
                  /\ round.opened \in Nat
                  /\ samples[0].complete # Zero /\ samples[1].complete # Zero
                  /\ SampleSound(round.opened, samples[0])
                  /\ SampleSound(round.opened, samples[1])
                  /\ from <= samples[0].start /\ from <= samples[1].start
                  /\ samples[0].end - from <= SamplingSkew
                  /\ samples[1].end - from <= SamplingSkew
                BY <1>1, <1>11, <1>13, <2>1, <2>2, <2>3, <2>5
            <4> QED
                BY <2>5, <4>1, PairSkew
        <3> QED
            BY <2>1, <3>1
    <2>7. \A k \in Slots : slots[k].onAt <= round.opened /\ slots[k].offAt <= round.opened
        BY <1>13 DEF Sound, RoundSound
    <2>8. ASSUME NEW j \in Slots, NEW k \in Slots
          PROVE  AtLeast(h(j), slots[k].onAt) /\ AtLeast(h(j), slots[k].offAt)
        <3>1. taken(j) \in HistorySample
            <4>1. samples[j] \in SampleType
                BY <2>2
            <4> QED
                BY <4>1 DEF SampleType, HistorySample
        <3>2. taken(j).at = samples[j].start
            OBVIOUS
        <3>3. taken(j).at >= slots[k].onAt /\ taken(j).at >= slots[k].offAt
            BY <1>1, <2>4, <2>7, <3>2
        <3> HIDE DEF taken
        <3>4. /\ after[j].history \in Seq(HistorySample)
              /\ AtLeast(after[j].history, slots[k].onAt)
              /\ AtLeast(after[j].history, slots[k].offAt)
              /\ slots[k].onAt \in Nat /\ slots[k].offAt \in Nat
            BY <1>1, <1>6
        <3> QED
            BY <3>1, <3>3, <3>4, AppendHistoryAtLeast
    <2>9. \A j \in Slots : slots'[j] = [after[j] EXCEPT !.history = h(j)]
        BY <1>13
    <2> HIDE DEF h, taken
    <2>10. ASSUME NEW j \in Slots
           PROVE  /\ slots'[j].history = h(j) /\ slots'[j].valid = after[j].valid
                  /\ slots'[j].observed = after[j].observed
        <3>1. ASSUME NEW u \in SlotType, NEW x
              PROVE  LET v == [u EXCEPT !.history = x]
                     IN  v.history = x /\ v.valid = u.valid /\ v.observed = u.observed
            BY DEF SlotType
        <3>2. after[j] \in SlotType
            OBVIOUS
        <3>3. LET v == [after[j] EXCEPT !.history = h(j)]
              IN  /\ v.history = h(j) /\ v.valid = after[j].valid
                  /\ v.observed = after[j].observed
            BY <3>1, <3>2
        <3> QED
            BY <2>9, <3>3
    <2>11. SamplesFollowCommands'
        BY <1>8, <2>8, <2>10
    <2>12. paired'.at = from /\ paired'.id = round.id /\ round'.id = 0
        BY <1>13 DEF NoRound
    <2>13. RoundSound' /\ PairSound'
        BY <1>1, <1>3, <1>13, <2>12 DEF Sound, RoundSound, PairSound
    <2>14. PairIntact'
        <3>1. ASSUME NEW j \in Slots, NEW k \in Slots
              PROVE  /\ slots'[j].valid /\ slots'[j].observed >= paired'.at
                     /\ paired'.at >= slots'[k].onAt /\ paired'.at >= slots'[k].offAt
            <4>1. slots'[j].valid /\ slots'[j].observed = samples[j].complete
                BY <1>13, <2>10, ZenonT(60)
            <4>2. from >= slots[k].onAt /\ from >= slots[k].offAt
                BY <1>1, <2>5, <2>7
            <4> QED
                BY <1>5, <2>6, <2>12, <4>1, <4>2
        <3>2. slots'[0].observed - slots'[1].observed \in -MaxSkew..MaxSkew
            BY <1>13, <2>1, <2>6, <2>10, ZenonT(60)
        <3> QED
            BY <3>1, <3>2 DEF PairIntact
    <2> QED
        BY <2>11, <2>13, <2>14 DEF Sound
<1> HIDE DEF samples, sample, from, single
<1> QED
    BY <1>4, <1>9, <1>10, <1>12, <1>13

-----------------------------------------------------------------------------
(* The other actions. *)

(* Every step keeps the evidence sound. *)
LEMMA NextSound == Inv /\ Sound /\ [Next]_vars => Sound'
<1> SUFFICES ASSUME Inv, Sound, [Next]_vars PROVE Sound'
    OBVIOUS
<1>1. Inv' /\ CommandsPast' /\ now' >= now
    BY NextInv, CommandsPastNext, NowGrows DEF Sound
<1>2. \A j \in Slots : Alike(slots[j], slots[j])
    BY DEF Alike, Keeps
<1>3. ASSUME UNCHANGED <<slots, round, paired, next, coordinated>> PROVE Sound'
    BY <1>1, <1>2, <1>3, KeepSound
<1>4. ASSUME CancelRound, NEW ss, slots' = Forget(ss) PROVE Sound'
    BY <1>1, <1>4, CancelSound
<1>5. ASSUME NEW i \in Slots, Reader(i) PROVE Sound'
    <2>1. CASE \E uid \in Uids : Tag(i, uid)
        BY <1>4, <2>1 DEF Tag
    <2>2. CASE \E departed \in BOOLEAN : ObserveAbsent(i, departed)
        BY <1>4, <2>2 DEF ObserveAbsent
    <2>3. CASE StartRead(i)
        <3>1. /\ UNCHANGED <<slots, paired, next, coordinated>>
              /\ round'.id = round.id /\ round'.opened = round.opened
              /\ round'.samples = round.samples
            BY <2>3, InvParts DEF StartRead, RestType, RoundType
        <3> QED
            BY <1>1, <1>2, <3>1, KeepSound
    <2>4. CASE FailRead(i)
        BY <1>4, <2>4 DEF FailRead
    <2>5. CASE \E data \in Frames : \E start, end \in reading[i].from..now :
                  FinishRead(i, data, start, end)
        BY <1>1, <2>5, FinishReadSound, FramesAssumption
    <2>6. CASE ShouldIsolate(i)
        BY <1>3, <2>6 DEF ShouldIsolate, evidence
    <2>7. CASE RepeatOn(i)
        <3>1. UNCHANGED <<round, paired, next, coordinated>>
            BY <2>7 DEF RepeatOn, Requested
        <3>2. slots[i] \in SlotType /\ slots \in [Slots -> SlotType] /\ now \in Nat
            BY EvidenceTypes
        <3> DEFINE g == Granted(slots[i])
        <3>3. Alike(slots[i], g) /\ g.history = slots[i].history
            BY <3>2 DEF Granted, SlotType, Alike, Keeps
        <3> HIDE DEF g
        <3>4. slots' = [slots EXCEPT ![i] = g]
            BY <2>7, <3>2 DEF RepeatOn, g
        <3>5. \A j \in Slots : Alike(slots[j], slots'[j]) /\ slots'[j].history = slots[j].history
            BY <1>2, <3>2, <3>3, <3>4
        <3> QED
            BY <1>1, <3>1, <3>5, KeepSound
    <2>8. CASE RequalifyOn(i)
        BY <1>4, <2>8 DEF RequalifyOn
    <2>9. CASE ActivateOn(i)
        BY <1>4, <2>9 DEF ActivateOn
    <2>10. CASE Off(i)
        BY <1>4, <2>10 DEF Off
    <2> QED
        BY <1>5, <2>1, <2>2, <2>3, <2>4, <2>5, <2>6, <2>7, <2>8, <2>9, <2>10
        DEF Reader, RequestOn, OffAttempt, IsolationOffAttempt
<1>6. ASSUME Service PROVE Sound'
    <2>1. CASE BeginRound
        BY <1>1, <2>1, BeginRoundSound
    <2>2. CASE StopSampling
        BY <1>4, <2>2 DEF StopSampling
    <2>3. CASE \/ \E r \in Reports : ReceiveMotion(r)
               \/ \E state \in Vehicles \ {vehicle} : SetVehicle(state)
        <3>1. \/ CancelRound /\ slots' = Forget(slots)
              \/ UNCHANGED <<round, paired, slots>>
            BY <2>3, Zenon DEF ReceiveMotion, SetVehicle
        <3>2. UNCHANGED <<next, coordinated>>
            BY <2>3, Zenon DEF ReceiveMotion, SetVehicle
        <3> QED
            BY <1>3, <1>4, <3>1, <3>2
    <2>4. CASE ResetMotionStream \/ \E d \in Deltas \ {maxDelta} : SetMaxDelta(d)
        BY <1>3, <2>4 DEF ResetMotionStream, SetMaxDelta, evidence
    <2>5. CASE \E closed \in BOOLEAN : SetSeatbox(closed)
        BY <1>4, <2>5 DEF SetSeatbox
    <2>6. CASE \E eligible \in BOOLEAN : SetRole(eligible)
        BY <1>4, <2>6 DEF SetRole
    <2> QED
        BY <1>6, <2>1, <2>2, <2>3, <2>4, <2>5, <2>6 DEF Service
<1>7. CASE \/ Tick \/ UNCHANGED vars
           \/ \E offset \in ClockOffsets \ {wall} : SetClock(offset)
    BY <1>3, <1>7 DEF Tick, SetClock, vars, evidence
<1> QED
    BY <1>5, <1>6, <1>7 DEF Next

(* The evidence is sound at the start... *)
LEMMA InitSound == Init => Sound
<1> SUFFICES ASSUME Init PROVE Sound
    OBVIOUS
<1>1. PICK r \in InitialRoles :
         slots = [i \in Slots |-> IF i = 0 THEN EmptySlot(TRUE, TRUE)
                                           ELSE EmptySlot(r[1], r[2])]
    BY DEF Init
<1>2. ASSUME NEW e, NEW p
      PROVE  /\ EmptySlot(e, p).onAt = Zero /\ EmptySlot(e, p).offAt = Zero
             /\ EmptySlot(e, p).history = <<>>
    BY DEF EmptySlot
<1>3. \A i \in Slots : /\ slots[i].onAt = Zero /\ slots[i].offAt = Zero
                       /\ slots[i].history = <<>>
    BY <1>1, <1>2
<1>4. now \in Nat /\ next = 0 /\ round.id = 0 /\ paired.id = 0 /\ paired.at = Zero
    BY DurationsAssumption DEF Init, NoRound, NoPair
<1>5. CommandsPast
    BY <1>3, <1>4 DEF CommandsPast, Zero
<1>6. SamplesFollowCommands
    BY <1>3 DEF SamplesFollowCommands
<1>7. RoundSound /\ PairSound /\ PairIntact
    BY <1>4 DEF RoundSound, PairSound, PairIntact
<1> QED
    BY <1>5, <1>6, <1>7 DEF Sound

(* ... and in every reachable state. *)
THEOREM EvidenceSound == Spec => []Sound
BY InitSound, NextSound, Invariance, PTL DEF Spec

(* Every stability sample was taken after the last activation and the last *)
(* OFF of both packs (requestOn and the OFF attempts forget the rest, and  *)
(* a read that spans a command finds its round gone).                      *)
THEOREM SamplesAlwaysFollowCommands == Spec => []SamplesFollowCommands
<1>1. Sound => SamplesFollowCommands
    BY DEF Sound
<1> QED
    BY <1>1, EvidenceSound, PTL

(* A pair of readings is intact: both packs are readable, both were read   *)
(* after every command, and within requestOn's own limit of each other     *)
(* (sampling.go: samplingMaxSkew and samplingFrameLimit add up to it).     *)
THEOREM PairsAreIntact == Spec => []PairIntact
<1>1. Sound => PairIntact
    BY DEF Sound
<1> QED
    BY <1>1, EvidenceSound, PTL

-----------------------------------------------------------------------------
(* A second supply. *)

(* What SecondSupplyQualified says of slot i. *)
Qualified(i) ==
    LET s == slots[i]
        peer == slots[Other(i)]
    IN  (~s.held /\ Unconfirmed(slots'[i]) /\ peer.held) =>
           /\ vehicle \in NonDriving /\ peer.active /\ ~peer.offPending
           /\ maxDelta > 0 =>
                Distance(s.frame.voltage, peer.frame.voltage) <= maxDelta
           /\ \A j, k \in Slots :
                /\ now - slots[j].observed <= MaxAge
                /\ slots[j].observed >= slots[k].onAt
                /\ slots[j].observed >= slots[k].offAt

(* The step that reserves it. *)
LEMMA ActivateQualified ==
    ASSUME Inv, Sound, NEW i \in Slots, ActivateOn(i)
    PROVE  Qualified(i)
<1> SUFFICES ASSUME slots[Other(i)].held
             PROVE  LET s == slots[i]
                        peer == slots[Other(i)]
                    IN  /\ vehicle \in NonDriving /\ peer.active /\ ~peer.offPending
                        /\ maxDelta > 0 =>
                             Distance(s.frame.voltage, peer.frame.voltage) <= maxDelta
                        /\ \A j, k \in Slots :
                             /\ now - slots[j].observed <= MaxAge
                             /\ slots[j].observed >= slots[k].onAt
                             /\ slots[j].observed >= slots[k].offAt
    BY DEF Qualified
<1>1. Other(i) \in Slots /\ \A j \in Slots : j = i \/ j = Other(i)
    BY DEF Other, Slots
<1>2. SlotSafe(Other(i), slots[Other(i)])
    BY <1>1 DEF Inv
<1>3. VehiclePermits(i) /\ OwnEvidence(i) /\ PeerPermits(i)
    BY DEF ActivateOn, Admitted
<1>4. vehicle \in NonDriving
    BY <1>3 DEF VehiclePermits
<1>5. Joins(i) /\ Fresh(slots[Other(i)], now)
    <2>1. Other(i) \in Monitored /\ ~slots[Other(i)].absent
        BY <1>2 DEF SlotSafe
    <2> QED
        BY <1>3, <2>1 DEF PeerPermits, FreshlyAbsent
<1>6. /\ slots[Other(i)].active /\ ~slots[Other(i)].offPending /\ PairCurrent
      /\ maxDelta > 0 =>
           Distance(slots[i].frame.voltage, slots[Other(i)].frame.voltage) <= maxDelta
    BY <1>5 DEF Joins
<1>7. \A j \in Slots : now - slots[j].observed <= MaxAge
    BY <1>1, <1>3, <1>5 DEF OwnEvidence, Fresh
<1>8. ASSUME NEW j \in Slots, NEW k \in Slots
      PROVE  slots[j].observed >= slots[k].onAt /\ slots[j].observed >= slots[k].offAt
    <2>1. paired.id # 0 /\ \A l \in Slots : slots[l].observedRound = paired.id
        BY <1>6 DEF PairCurrent, Sound, PairSound
    <2>2. /\ slots[j].observed >= paired.at
          /\ paired.at >= slots[k].onAt /\ paired.at >= slots[k].offAt
        BY <2>1 DEF Sound, PairIntact
    <2> QED
        BY <2>2, EvidenceTypes
<1> QED
    BY <1>4, <1>6, <1>7, <1>8

(* A second supply is reserved only next to a confirmed running one, in a  *)
(* non-driving state, with both packs read since the last command to       *)
(* either of them and within the voltage limit (requestOn).                *)
THEOREM SecondSuppliesQualify == Spec => SecondSupplyQualified
<1>1. ASSUME Inv, Sound, [Next]_vars, NEW i \in Slots PROVE Qualified(i)
    <2>1. CASE ActivateOn(i)
        BY <1>1, <2>1, ActivateQualified
    <2>2. CASE ~ActivateOn(i) /\ ~slots[i].held
        <3>1. slots[i].held = FALSE
            BY <1>1, <2>2, InvParts DEF SlotsOK, SlotType
        <3>2. ~Unconfirmed(slots'[i])
            <4>1. CASE AllKeep
                BY <3>1, <4>1 DEF AllKeep, Keeps, Unconfirmed
            <4>2. ASSUME NEW j \in Slots, OthersKeep(j), j # i PROVE ~Unconfirmed(slots'[i])
                BY <3>1, <4>2 DEF OthersKeep, Keeps, Unconfirmed
            <4>3. CASE \/ Replaced(slots[i], slots'[i])
                       \/ SeenRunning(slots[i], slots'[i])
                       \/ Released(slots[i], slots'[i])
                       \/ Withdrawn(slots[i], slots'[i])
                BY <3>1, <4>3 DEF Replaced, SeenRunning, Released, Withdrawn, Unconfirmed
            <4> QED
                BY <1>1, <2>2, <4>1, <4>2, <4>3, StepKind
        <3> QED
            BY <3>2 DEF Qualified
    <2>3. CASE slots[i].held
        BY <2>3 DEF Qualified
    <2> QED
        BY <2>1, <2>2, <2>3
<1>2. Inv /\ Sound /\ [Next]_vars =>
        [\A i \in Slots :
           LET s == slots[i]
               peer == slots[Other(i)]
           IN  (~s.held /\ Unconfirmed(slots'[i]) /\ peer.held) =>
                 /\ vehicle \in NonDriving /\ peer.active /\ ~peer.offPending
                 /\ maxDelta > 0 =>
                      Distance(s.frame.voltage, peer.frame.voltage) <= maxDelta
                 /\ \A j, k \in Slots :
                      /\ now - slots[j].observed <= MaxAge
                      /\ slots[j].observed >= slots[k].onAt
                      /\ slots[j].observed >= slots[k].offAt]_vars
    BY <1>1 DEF Qualified
<1> QED
    BY <1>2, Invariance, EvidenceSound, PTL DEF Spec, SecondSupplyQualified

-----------------------------------------------------------------------------
(* Motion. *)

(* The name of a stream, as opposed to the empty one. *)
Named(source) == source # ""

(* StandstillSound for evidence m at time t. *)
Standing(m, t) ==
    /\ m.since # Zero =>
          /\ m.stopped /\ m.since <= m.at
          /\ Named(m.source) /\ m.sequence > 0
    /\ m.stopped => m.since # Zero
    /\ m.at <= t

(* No evidence is sound evidence. *)
LEMMA UnqualifiedStands ==
    ASSUME NEW m \in MotionType, NEW t \in Nat
    PROVE  Standing(Unqualified(m), t)
<1> DEFINE u == Unqualified(m)
<1>1. u.at = Zero /\ u.since = Zero /\ u.stopped = FALSE
    BY DEF Unqualified, MotionType
<1> HIDE DEF u
<1>2. Standing(u, t)
    BY <1>1 DEF Standing, Zero
<1> QED
    BY <1>2 DEF u

(* A report. *)
LEMMA ReceiveMotionStands ==
    ASSUME Inv, Standing(motion, now), NEW r \in ReportType, ReceiveMotion(r)
    PROVE  Standing(motion', now)
<1> DEFINE checked == [(IF ClockJumped(motion) THEN Unqualified(motion) ELSE motion)
                         EXCEPT !.lastCheck = [known |-> TRUE, wall |-> wall]]
           gap == r.source # motion.source \/ r.sequence # motion.sequence + 1
           m == [(IF gap THEN Unqualified(checked) ELSE checked)
                    EXCEPT !.source = r.source, !.sequence = r.sequence]
           received == now - r.age
           since == IF ~r.stopped THEN Zero
                    ELSE IF ~m.stopped \/ received - m.at > MotionMaxAge
                    THEN received ELSE m.since
<1>1. /\ motion \in MotionType /\ now \in Nat /\ now >= StartTime /\ wall \in Int
    BY DEF Inv, TypeOK
<1>2. checked \in MotionType /\ Standing(checked, now)
    <2>1. ASSUME NEW x \in MotionType, Standing(x, now), NEW w \in Int
          PROVE  LET y == [x EXCEPT !.lastCheck = [known |-> TRUE, wall |-> w]]
                 IN  y \in MotionType /\ Standing(y, now)
        BY <2>1 DEF MotionType, Standing
    <2> DEFINE x == IF ClockJumped(motion) THEN Unqualified(motion) ELSE motion
    <2>2. x \in MotionType /\ Standing(x, now)
        BY <1>1, UnqualifiedType, UnqualifiedStands
    <2> HIDE DEF x
    <2>3. LET y == [x EXCEPT !.lastCheck = [known |-> TRUE, wall |-> wall]]
          IN  y \in MotionType /\ Standing(y, now)
        BY <1>1, <2>1, <2>2
    <2> QED
        BY <2>3 DEF x
<1> HIDE DEF checked
<1>3. /\ m \in MotionType /\ Standing(m, now)
      /\ m.source = r.source /\ m.sequence = r.sequence
    <2>1. r.source \in Sources /\ r.sequence \in Nat \ {0}
        BY DEF ReportType
    <2> DEFINE x == IF gap THEN Unqualified(checked) ELSE checked
               a == r.source
               n == r.sequence
    <2>2. x \in MotionType /\ Standing(x, now)
        BY <1>1, <1>2, UnqualifiedType, UnqualifiedStands
    <2>3. m = [x EXCEPT !.source = a, !.sequence = n]
        OBVIOUS
    <2>4. a \in Sources /\ n \in Nat \ {0}
        BY <2>1
    <2> HIDE DEF x, m, a, n
    <2>5. m \in MotionType
        BY <2>2, <2>3, <2>4 DEF MotionType
    <2>6. /\ m.source = a /\ m.sequence = n /\ m.at = x.at
          /\ m.since = x.since /\ m.stopped = x.stopped
        BY <2>2, <2>3, <2>4 DEF MotionType
    <2>7. Named(a)
        BY <2>4, NamesAssumption, Zenon DEF Named
    <2>8. Standing(m, now)
        BY <2>2, <2>4, <2>6, <2>7 DEF Standing
    <2> QED
        BY <2>5, <2>6, <2>8 DEF a, n
<1> HIDE DEF m, received
<1>4. \/ motion' = Unqualified(checked) \/ motion' = Unqualified(m)
      \/ /\ r.age \in 0..MotionMaxAge /\ (m.at = Zero \/ received > m.at)
         /\ motion' = [m EXCEPT !.at = received, !.stopped = r.stopped, !.since = since]
    BY <1>3 DEF ReceiveMotion, checked, m, received, MotionType
<1>5. CASE motion' = Unqualified(checked) \/ motion' = Unqualified(m)
    BY <1>1, <1>2, <1>3, <1>5, UnqualifiedStands
<1>6. CASE /\ r.age \in 0..MotionMaxAge /\ (m.at = Zero \/ received > m.at)
           /\ motion' = [m EXCEPT !.at = received, !.stopped = r.stopped, !.since = since]
    <2>1. received \in Nat /\ received > 0 /\ received <= now
        BY <1>1, <1>6, DurationsAssumption DEF Durations, received
    <2>2. /\ motion'.at = received /\ motion'.stopped = r.stopped /\ motion'.since = since
          /\ motion'.source = r.source /\ motion'.sequence = r.sequence
        <3> DEFINE b == r.stopped
        <3>1. motion' = [m EXCEPT !.at = received, !.stopped = b, !.since = since]
            BY <1>6
        <3> HIDE DEF since, b
        <3>2. /\ motion'.at = received /\ motion'.stopped = b /\ motion'.since = since
              /\ motion'.source = m.source /\ motion'.sequence = m.sequence
            BY <1>3, <3>1 DEF MotionType
        <3> QED
            BY <1>3, <3>2 DEF b
    <2>3. r.sequence \in Nat /\ r.sequence > 0 /\ r.stopped \in BOOLEAN
        BY DEF ReportType
    <2>7. Named(r.source)
        <3>1. r.source \in Sources
            BY DEF ReportType
        <3> QED
            BY <3>1, NamesAssumption, Zenon DEF Named
    <2>4. m.at \in Nat /\ m.since \in Nat /\ m.stopped \in BOOLEAN
        BY <1>3 DEF MotionType
    <2>5. ~r.stopped => since = Zero
        OBVIOUS
    <2>6. r.stopped => since # Zero /\ since <= received
        BY <1>3, <1>6, <2>1, <2>4 DEF Standing, Zero
    <2> QED
        BY <2>1, <2>2, <2>3, <2>5, <2>6, <2>7 DEF Standing
<1> QED
    BY <1>4, <1>5, <1>6

(* Evidence of a standstill comes from one unbroken stream and is never    *)
(* dated in the future, through replayed, lost, late and malformed reports *)
(* and jumps of the wall clock (receiveMotionEvidence).                    *)
THEOREM StandstillsAreSound == Spec => []StandstillSound
<1>1. Init => StandstillSound
    <2> SUFFICES ASSUME Init PROVE StandstillSound
        OBVIOUS
    <2>1. motion.at = Zero /\ motion.since = Zero /\ motion.stopped = FALSE
        BY DEF Init, NoMotion
    <2>2. now \in Nat
        BY DurationsAssumption DEF Init, Durations
    <2> QED
        BY <2>1, <2>2 DEF StandstillSound, Zero
<1>2. Inv /\ StandstillSound /\ [Next]_vars => StandstillSound'
    <2> SUFFICES ASSUME Inv, Standing(motion, now), [Next]_vars
                 PROVE  Standing(motion', now')
        BY Zenon DEF StandstillSound, Standing, Named
    <2>1. motion \in MotionType /\ now \in Nat /\ now' \in Nat /\ now' >= now
        BY NextInv, NowGrows DEF Inv, TypeOK
    <2>2. ASSUME Standing(motion', now), motion' \in MotionType PROVE Standing(motion', now')
        <3>1. motion'.at \in Nat
            BY <2>2 DEF MotionType
        <3> QED
            BY <2>1, <2>2, <3>1 DEF Standing
    <2>3. motion' \in MotionType
        BY NextInv DEF Inv, TypeOK
    <2>4. CASE UNCHANGED motion
        BY <2>2, <2>3, <2>4
    <2>5. CASE motion' = Unqualified(motion)
        BY <2>1, <2>2, <2>3, <2>5, UnqualifiedStands
    <2>6. CASE \E r \in Reports : ReceiveMotion(r)
        BY <2>2, <2>3, <2>6, ReceiveMotionStands, ReportsAssumption
    <2>7. CASE ResetMotionStream
        <3>1. ASSUME NEW m \in MotionType
              PROVE  Standing([Unqualified(m) EXCEPT !.source = "", !.sequence = 0], now)
            <4> DEFINE u == [Unqualified(m) EXCEPT !.source = "", !.sequence = 0]
            <4>1. u.at = Zero /\ u.since = Zero /\ u.stopped = FALSE
                BY DEF Unqualified, MotionType
            <4> HIDE DEF u
            <4>2. Standing(u, now)
                BY <2>1, <4>1 DEF Standing, Zero
            <4> QED
                BY <4>2 DEF u
        <3> QED
            BY <2>1, <2>2, <2>3, <2>7, <3>1 DEF ResetMotionStream
    <2>8. ASSUME NEW i \in Slots, Reader(i) PROVE UNCHANGED motion
        <3>1. ASSUME NEW data, NEW start, NEW end, FinishRead(i, data, start, end)
              PROVE  UNCHANGED motion
            <4>1. EndRead(i)
                BY <3>1, Zenon DEF FinishRead
            <4> QED
                BY <4>1 DEF EndRead, vehicleVars
        <3>2. CASE \/ \E uid \in Uids : Tag(i, uid)
                   \/ \E departed \in BOOLEAN : ObserveAbsent(i, departed)
                   \/ StartRead(i) \/ FailRead(i) \/ ShouldIsolate(i)
            BY <3>2 DEF Tag, ObserveAbsent, StartRead, FailRead, EndRead, ShouldIsolate,
                        vehicleVars
        <3>3. CASE RequestOn(i) \/ Off(i)
            BY <3>3 DEF RequestOn, RepeatOn, RequalifyOn, ActivateOn, Requested, Off, vehicleVars
        <3> QED
            BY <2>8, <3>1, <3>2, <3>3 DEF Reader, OffAttempt, IsolationOffAttempt
    <2>9. CASE \E state \in Vehicles : SetVehicle(state)
        <3>1. motion' = motion \/ motion' = Unqualified(motion)
            BY <2>9, Zenon DEF SetVehicle
        <3> QED
            BY <2>4, <2>5, <3>1
    <2>10. CASE \/ BeginRound \/ StopSampling \/ Tick \/ UNCHANGED vars
                \/ (\E closed \in BOOLEAN : SetSeatbox(closed))
                \/ (\E eligible \in BOOLEAN : SetRole(eligible))
                \/ (\E d \in Deltas : SetMaxDelta(d))
                \/ \E offset \in ClockOffsets : SetClock(offset)
        <3>1. UNCHANGED motion
            BY <2>10, Zenon
            DEF BeginRound, StopSampling, Tick, SetSeatbox, SetRole, SetMaxDelta, SetClock,
                vars, vehicleVars
        <3> QED
            BY <2>4, <3>1
    <2> QED
        BY <2>4, <2>6, <2>7, <2>8, <2>9, <2>10 DEF Next, Service
<1> QED
    BY <1>1, <1>2, Invariance, PTL DEF Spec

=============================================================================
