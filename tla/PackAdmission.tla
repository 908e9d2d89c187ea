--------------------------- MODULE PackAdmission ---------------------------
(***************************************************************************)
(* The activation gate shared by the two battery readers: packAdmission    *)
(* (battery/admission.go, admission_isolation.go, sampling.go,             *)
(* stopped_admission.go, motion_ipc.go).  Every method of the Go struct    *)
(* runs under one mutex, so every method is one atomic action here.        *)
(*                                                                         *)
(* Concurrency is between methods: each reader goroutine holds its own NFC *)
(* lock around a read or a command, not the admission mutex, so a status   *)
(* read is two actions (StartRead claims a slot of the sampling round,     *)
(* FinishRead or FailRead delivers the result) and anything the other      *)
(* reader, Redis subscriber, motion subscriber or sampler does may come in *)
(* between.                                                                *)
(*                                                                         *)
(* Abstractions.  Times are naturals; Zero is Go's zero time, further in   *)
(* the past than any duration.  A BMS frame keeps the fields that a        *)
(* decision reads; "nonce" stands for the temperatures and the cycle       *)
(* count, which only statusFrameChanged compares.  The experimental flags  *)
(* sampling.enabled and motion.enabled are TRUE, as loadAdmissionSetting   *)
(* always leaves them (service.go:536-537).  Log texts and the sampling    *)
(* report are left out.                                                    *)
(***************************************************************************)
EXTENDS Integers, Sequences, FiniteSets

CONSTANTS
    Monitored,        \* slots whose reader is enabled in the configuration
    Conservative,     \* experimental.battery.dual-pack-admission, read once
    Frames,           \* status frames a complete NFC read may decode
    Uids,             \* tag UIDs
    Serials,          \* serial numbers
    Sources,          \* identifiers of motion streams
    Vehicles,         \* vehicle states published on Redis
    Deltas,           \* values of scooter.max-voltage-delta
    Reports,          \* decoded engine-ecu:motion messages
    ClockOffsets      \* wall clock minus monotonic clock

CONSTANTS
    InitialRoles,     \* slot 1 at start: <<its role is active, it ever was>>
    InitialSeatbox    \* the seatbox lock at start: closed or not

CONSTANTS             \* the durations and limits of the code
    TimeCmd, MaxAge, MaxSkew, StableTime, OnSettle, MaxCurrent, VoltageSpan,
    SamplingSkew, FrameLimit, SamplingDeadline, MotionMaxAge

CONSTANTS             \* bounds of the model
    StartTime,        \* the clock when the service has started
    MaxNow,           \* the clock stops here
    MaxRounds,        \* sampling rounds opened
    Events,           \* the kinds of disturbance that may happen
    MinReadTime       \* a status read takes at least this long

Slots == {0, 1}
Zero == 0
NoUid == "none"
NoSerial == ""

Durations == {TimeCmd, MaxAge, MaxSkew, StableTime, OnSettle, SamplingSkew,
              FrameLimit, SamplingDeadline, MotionMaxAge}

BMSStates == {"unknown", "asleep", "idle", "active"}

FrameType == [present: BOOLEAN, voltage: Nat, current: Int, charge: Nat,
              lowSOC: BOOLEAN, fault: BOOLEAN, state: BMSStates,
              serial: Serials \cup {NoSerial}, nonce: Nat]

ReportType == [wellFormed: BOOLEAN, complete: BOOLEAN, source: Sources,
               sequence: Nat \ {0}, age: Int, stopped: BOOLEAN]

ASSUME MonitoredAssumption == Monitored \subseteq Slots /\ 0 \in Monitored
ASSUME ConservativeAssumption == Conservative \in BOOLEAN
ASSUME FramesAssumption == Frames \subseteq FrameType
ASSUME NamesAssumption == NoUid \notin Uids /\ NoSerial \notin Serials /\ "" \notin Sources
ASSUME DeltasAssumption == Deltas \subseteq Nat
ASSUME ReportsAssumption == Reports \subseteq ReportType
ASSUME ClockAssumption == ClockOffsets \subseteq Int
ASSUME InitialAssumption ==
    /\ InitialSeatbox \subseteq BOOLEAN
    /\ InitialRoles \subseteq BOOLEAN \X BOOLEAN
    /\ \A r \in InitialRoles : (r[1] => r[2]) /\ (r[2] => 1 \in Monitored)
ASSUME DurationsAssumption ==
    /\ Durations \subseteq Nat
    /\ StartTime \in Nat /\ \A d \in Durations : d < StartTime
    /\ MaxCurrent \in Nat /\ VoltageSpan \in Nat
    /\ MinReadTime \in Nat /\ MaxNow \in Nat /\ MaxRounds \in Nat
    \* samplingMaxSkew + samplingFrameLimit = admissionMaxSkew in the code
    /\ SamplingSkew + FrameLimit <= MaxSkew

VARIABLES
    now,          \* the monotonic clock
    wall,         \* wall clock minus monotonic clock
    slots,        \* packAdmission.slots
    vehicle,      \* packAdmission.vehicle
    seatboxClosed,\* packAdmission.seatboxClosed, known since Start
    coordinated,  \* packAdmission.coordinated
    isolation,    \* packAdmission.isolation
    round,        \* packAdmission.sampling.round
    paired,       \* packAdmission.sampling.pairedAt and pairedID
    next,         \* packAdmission.sampling.next
    stopping,     \* packAdmission.sampling.stopped
    motion,       \* packAdmission.motion
    maxDelta,     \* config.MaxVoltageDelta
    selected,     \* BatteryReader.currentTagUID of each reader
    reading       \* the status read in progress on each reader

evidence == <<round, paired, next, stopping>>
vehicleVars == <<vehicle, seatboxClosed, motion>>
readerVars == <<selected, reading>>
clock == <<now, wall>>
vars == <<clock, slots, vehicleVars, coordinated, isolation, evidence,
          maxDelta, readerVars>>

-----------------------------------------------------------------------------
(* The zero values of the Go types. *)

BlankFrame == [present |-> FALSE, voltage |-> 0, current |-> 0, charge |-> 0,
               lowSOC |-> FALSE, fault |-> FALSE, state |-> "unknown",
               serial |-> NoSerial, nonce |-> 0]

NoSample == [start |-> Zero, end |-> Zero, complete |-> Zero,
             voltage |-> 0, current |-> 0]

NoRound == [id |-> 0, opened |-> Zero, claimed |-> [i \in Slots |-> FALSE],
            samples |-> [i \in Slots |-> NoSample]]

NoPair == [at |-> Zero, id |-> 0]

NoIsolation == [open |-> FALSE, survivor |-> 0, victim |-> 0,
                attempted |-> FALSE, handover |-> FALSE, offConfirmed |-> FALSE]

NoRead == [busy |-> FALSE, id |-> 0, from |-> Zero]

NoCheck == [known |-> FALSE, wall |-> 0]

NoMotion == [at |-> Zero, since |-> Zero, stopped |-> FALSE, source |-> "",
             sequence |-> 0, lastCheck |-> NoCheck]

EmptySlot(eligible, powerTracked) ==
    [eligible |-> eligible, powerTracked |-> powerTracked, uid |-> NoUid,
     serial |-> NoSerial, absent |-> FALSE, observed |-> Zero,
     observedRound |-> 0, frame |-> BlankFrame, haveFrame |-> FALSE,
     written |-> Zero, valid |-> FALSE, history |-> <<>>,
     held |-> FALSE, active |-> FALSE, onAt |-> Zero, lastOnAt |-> Zero,
     offPending |-> FALSE, offAt |-> Zero, identityUncertain |-> FALSE,
     requiresAdmission |-> FALSE]

-----------------------------------------------------------------------------
(* Predicates on one slot, one frame or the vehicle. *)

Other(i) == 1 - i

NonDriving == {"stand-by", "parked", "hop-on", "hop-on-learning",
               "waiting-seatbox", "shutting-down", "updating",
               "waiting-hibernation", "waiting-hibernation-advanced",
               "waiting-hibernation-seatbox", "waiting-hibernation-confirm"}

Inactive(frame) == frame.state \in {"idle", "asleep"}

statusFrameChanged(a, b) ==
    \/ a.voltage # b.voltage
    \/ a.current # b.current
    \/ a.charge # b.charge
    \/ a.state # b.state
    \/ a.nonce # b.nonce

Distance(v, w) == IF v > w THEN v - w ELSE w - v

Drained(frame) == frame.fault \/ (frame.lowSOC /\ frame.charge = 0)

Usable(s) == s.eligible /\ ~Drained(s.frame)

Fresh(s, t) == s.valid /\ t - s.observed <= MaxAge

FreshlyAbsent(s, t) == s.absent /\ t - s.observed <= MaxAge

Running(s) == s.held /\ s.active /\ s.frame.state = "active"

Stable(s, t) ==
    LET h == s.history
        volts == {s.frame.voltage} \cup {h[k].voltage : k \in 1..Len(h)}
    IN  /\ Fresh(s, t)
        /\ Len(h) >= 3
        /\ h[Len(h)].at - h[1].at >= StableTime
        /\ \A k \in 1..Len(h) : h[k].current \in -MaxCurrent..MaxCurrent
        /\ \A v, w \in volts : v - w <= VoltageSpan

(* The samples are in time order, so the loop of appendHistory drops one   *)
(* sample for every later one that already spans the stable window.        *)
AppendHistory(h, sample) ==
    LET kept == IF h # <<>> /\ sample.at - h[Len(h)].at > MaxAge
                THEN <<>> ELSE h
        all == Append(kept, sample)
        drop == Cardinality({k \in 1..(Len(all) - 3) :
                                sample.at - all[k + 1].at >= StableTime})
    IN  SubSeq(all, drop + 1, Len(all))

-----------------------------------------------------------------------------
(* Sampling rounds. *)

Forget(ss) == [j \in Slots |-> [ss[j] EXCEPT !.history = <<>>]]

CancelRound == round' = NoRound /\ paired' = NoPair

needsPoll == coordinated /\ Monitored = Slots /\ \E i \in Slots : slots[i].eligible

PairCurrent ==
    /\ slots[0].observed - slots[1].observed \in -MaxSkew..MaxSkew
    /\ paired.at # Zero /\ now - paired.at <= MaxAge
    /\ \A i \in Slots : slots[i].observedRound = paired.id

(* beginRound: an expired round is dropped before the next one opens. *)
BeginRound ==
    LET expired == round.id # 0 /\ now - round.opened > SamplingDeadline
    IN  /\ round.id = 0 \/ expired
        /\ needsPoll /\ ~stopping
        /\ next < MaxRounds
        /\ next' = next + 1
        /\ round' = [NoRound EXCEPT !.id = next + 1, !.opened = now]
        /\ paired' = IF expired THEN NoPair ELSE paired
        /\ slots' = IF expired THEN Forget(slots) ELSE slots
        /\ UNCHANGED <<clock, vehicleVars, coordinated, isolation, stopping,
                       maxDelta, readerVars>>

StopSampling ==
    /\ ~stopping
    /\ stopping' = TRUE
    /\ CancelRound
    /\ slots' = Forget(slots)
    /\ UNCHANGED <<clock, vehicleVars, coordinated, isolation, next, maxDelta,
                   readerVars>>

-----------------------------------------------------------------------------
(* Tags, absence and status reads.  reading[i].busy stands for the reader  *)
(* goroutine being inside readStatusLocked with its NFC lock held.         *)

Idle(i) == i \in Monitored /\ ~reading[i].busy

(* The new pack is taken for the running one. *)
ReplaceIdentityRunning(s, uid) ==
    [s EXCEPT !.uid = uid, !.serial = NoSerial, !.valid = FALSE,
              !.haveFrame = FALSE, !.written = Zero, !.history = <<>>,
              !.identityUncertain = s.held]

(* Everything but the reservation and its deadlines belongs to the pack    *)
(* that was here before.                                                   *)
ReplaceIdentity(s, uid) ==
    [EmptySlot(s.eligible, s.powerTracked) EXCEPT
        !.uid = uid, !.held = s.held, !.onAt = s.onAt,
        !.lastOnAt = s.lastOnAt, !.offPending = s.offPending,
        !.offAt = s.offAt, !.identityUncertain = s.held,
        !.requiresAdmission = \/ s.requiresAdmission
                              \/ s.uid # NoUid
                              \/ s.serial # NoSerial
                              \/ s.haveFrame]

(* noteTagPresent: discovery selected a tag this reader was not holding.   *)
(* Discovery also runs at the head of a read, before STATUS0.              *)
Tag(i, uid) ==
    LET s == slots[i]
        rediscovered == [s EXCEPT !.valid = FALSE, !.haveFrame = FALSE,
                            !.written = Zero, !.absent = FALSE,
                            !.requiresAdmission = @ \/ vehicle \in NonDriving]
    IN  /\ i \in Monitored /\ uid # selected[i]
        /\ selected' = [selected EXCEPT ![i] = uid]
        /\ slots' = Forget([slots EXCEPT ![i] =
                        IF s.uid = uid THEN rediscovered
                                       ELSE ReplaceIdentity(s, uid)])
        /\ CancelRound
        /\ reading' = IF reading[i].busy
                      THEN [reading EXCEPT ![i].from = now] ELSE reading
        /\ UNCHANGED <<clock, vehicleVars, coordinated, isolation, next,
                       stopping, maxDelta>>

(* Losing sight of a pack counts as its absence. *)
ObserveAbsentReserved(i, departed) ==
    /\ Idle(i)
    /\ slots' = Forget([slots EXCEPT ![i] = [@ EXCEPT
                    !.valid = FALSE, !.haveFrame = FALSE, !.written = Zero,
                    !.observedRound = 0, !.absent = TRUE, !.observed = now]])
    /\ CancelRound
    /\ UNCHANGED <<clock, vehicleVars, coordinated, isolation, next, stopping,
                   maxDelta, readerVars>>

(* A quiet discovery poll, or (departed) the end of a quiet ten-second     *)
(* search, which also forgets the selected UID.                            *)
ObserveAbsent(i, departed) ==
    LET s == slots[i]
    IN  /\ Idle(i)
        /\ slots' = Forget([slots EXCEPT ![i] = [s EXCEPT
                        !.valid = FALSE, !.haveFrame = FALSE,
                        !.written = Zero, !.observedRound = 0,
                        !.requiresAdmission = @ \/ vehicle \in NonDriving,
                        !.absent = ~s.held, !.observed = now]])
        /\ CancelRound
        /\ selected' = IF departed THEN [selected EXCEPT ![i] = NoUid]
                                   ELSE selected
        /\ UNCHANGED <<clock, vehicleVars, coordinated, isolation, next,
                       stopping, maxDelta, reading>>

(* claimRound, at the head of every status read. *)
StartRead(i) ==
    LET joins == /\ round.id # 0
                 /\ ~round.claimed[i]
                 /\ now - round.opened \in 0..SamplingDeadline
    IN  /\ Idle(i)
        /\ round' = IF joins THEN [round EXCEPT !.claimed[i] = TRUE] ELSE round
        /\ reading' = [reading EXCEPT ![i] =
                        [busy |-> TRUE, id |-> IF joins THEN round.id ELSE 0,
                         from |-> now]]
        /\ UNCHANGED <<clock, slots, vehicleVars, coordinated, isolation,
                       paired, next, stopping, maxDelta, selected>>

EndRead(i) ==
    /\ reading[i].busy /\ now - reading[i].from >= MinReadTime
    /\ reading' = [reading EXCEPT ![i] = NoRead]
    /\ UNCHANGED <<clock, vehicleVars, coordinated, next, stopping, maxDelta,
                   selected>>

(* A read error is taken for a pack that is off. *)
FailReadReleasing(i) ==
    /\ EndRead(i)
    /\ slots' = Forget([slots EXCEPT ![i].valid = FALSE, ![i].absent = FALSE,
                        ![i].held = FALSE, ![i].active = FALSE])
    /\ CancelRound
    /\ UNCHANGED isolation

(* failAcquisition: an NFC error, an empty frame or a substituted sensor. *)
FailRead(i) ==
    /\ EndRead(i)
    /\ slots' = Forget([slots EXCEPT ![i].valid = FALSE, ![i].absent = FALSE])
    /\ CancelRound
    /\ UNCHANGED isolation

IdentityChanged(s, data) ==
    s.serial # NoSerial /\ data.serial # NoSerial /\ s.serial # data.serial

(* observeLocked up to the validity test. *)
Recorded(s, data, t) ==
    LET base == IF IdentityChanged(s, data)
                THEN ReplaceIdentity(s, s.uid) ELSE s
        written == IF base.haveFrame /\ statusFrameChanged(base.frame, data)
                   THEN t ELSE base.written
    IN  [base EXCEPT
            !.powerTracked = @ \/ data.state = "active",
            !.serial = IF data.serial = NoSerial THEN @ ELSE data.serial,
            !.written = written, !.frame = data, !.haveFrame = TRUE,
            !.observed = t, !.absent = FALSE,
            !.valid = /\ data.present /\ data.voltage > 0
                      /\ data.state \in {"active", "idle", "asleep"}
                      /\ written # Zero]

(* A cached inactive frame resolves an OFF. *)
OffEvidenceUnchanged(s, t) ==
    /\ s.valid /\ s.frame.state # "active"
    /\ \/ ~s.offPending /\ s.written > s.lastOnAt /\ t - s.lastOnAt >= TimeCmd
       \/ s.offPending /\ s.offAt >= s.lastOnAt /\ t - s.offAt >= TimeCmd

(* An unconfirmed ON is judged as early as a running supply. *)
OffEvidenceHasty(s, t) ==
    /\ s.valid /\ s.frame.state # "active"
    /\ \/ ~s.offPending
       \/ s.offAt >= s.lastOnAt /\ t - s.offAt >= TimeCmd /\ s.written > s.offAt

(* Positive evidence that a commanded supply is off: a changed inactive    *)
(* frame, late enough after the command it answers.                        *)
OffEvidence(s, t) ==
    /\ s.valid /\ s.frame.state # "active"
    /\ \/ /\ ~s.offPending /\ s.written > s.lastOnAt
          /\ \/ s.active /\ t - s.lastOnAt >= TimeCmd
             \/ t - s.lastOnAt >= OnSettle
       \/ /\ s.offPending /\ s.offAt >= s.lastOnAt
          /\ t - s.offAt >= TimeCmd /\ s.written > s.offAt

(* A pack that still runs after its OFF counts as switched on. *)
ResolvedRevived(s, t) ==
    IF s.valid /\ s.frame.state = "active"
    THEN [s EXCEPT !.held = TRUE, !.active = TRUE, !.identityUncertain = FALSE,
                   !.offPending = FALSE]
    ELSE IF OffEvidence(s, t)
    THEN [s EXCEPT !.held = FALSE, !.active = FALSE, !.offPending = FALSE,
                   !.identityUncertain = FALSE]
    ELSE s

(* observeLocked after the validity test: the command state of the slot... *)
Resolved(s, t) ==
    IF s.valid /\ s.frame.state = "active"
    THEN [s EXCEPT !.held = TRUE, !.active = TRUE, !.identityUncertain = FALSE]
    ELSE IF OffEvidence(s, t)
    THEN [s EXCEPT !.held = FALSE, !.active = FALSE, !.offPending = FALSE,
                   !.identityUncertain = FALSE]
    ELSE s

(* ... and of the isolation episode. *)
IsolationAfter(i, s, t) ==
    LET e == isolation
        started == s.valid /\ s.frame.state = "active"
        stopped == OffEvidence(s, t)
    IN  IF ~e.open THEN e
        ELSE IF started /\ e.handover /\ e.offConfirmed /\ e.survivor = i
        THEN NoIsolation
        ELSE IF stopped /\ e.victim = i /\ e.handover
        THEN [e EXCEPT !.offConfirmed = TRUE]
        ELSE IF stopped /\ ~e.handover /\ (e.victim = i \/ ~e.attempted)
        THEN NoIsolation
        ELSE e

(* observeAcquisition.  STATUS0 was read from start to end and the frame   *)
(* completed now.                                                          *)
FinishRead(i, data, start, end) ==
    LET id == reading[i].id
        seen == Recorded(slots[i], data, now)
        \* observeLocked found another pack, or a supply gone inactive
        cancelled == \/ IdentityChanged(slots[i], data)
                     \/ OffEvidence(seen, now) /\ seen.held
        s == [Resolved(seen, now) EXCEPT
                 !.observedRound = id,
                 !.history = IF cancelled \/ ~seen.valid THEN <<>> ELSE @]
        after == LET ss == [slots EXCEPT ![i] = s]
                 IN  IF cancelled THEN Forget(ss) ELSE ss
        sample == [start |-> start, end |-> end, complete |-> now,
                   voltage |-> data.voltage, current |-> data.current]
        samples == [round.samples EXCEPT ![i] = sample]
        peer == slots[Other(i)]
        claimed == ~cancelled /\ id # 0 /\ id = round.id
        inTime == /\ start >= round.opened
                  /\ now - round.opened <= SamplingDeadline
                  /\ now - start <= FrameLimit
                  /\ s.valid
        \* a storage-only reader never completes a pair
        alone == ~peer.powerTracked /\ ~peer.held /\ ~peer.offPending
        usable == claimed /\ inTime /\ ~alone
        first == samples[Other(i)].complete = Zero
        from == IF samples[0].start < samples[1].start
                THEN samples[0].start ELSE samples[1].start
        aligned == /\ \A j \in Slots : samples[j].end - from <= SamplingSkew
                   /\ \A j \in Slots : /\ Fresh(after[j], now)
                                       /\ after[j].observed = samples[j].complete
    IN  /\ EndRead(i)
        /\ start \in reading[i].from..now /\ end \in start..now
        /\ isolation' = IsolationAfter(i, seen, now)
        /\ \/ /\ ~coordinated
              /\ slots' = IF s.valid
                          THEN [after EXCEPT ![i].history =
                                  AppendHistory(@, [voltage |-> data.voltage,
                                      current |-> data.current, at |-> now])]
                          ELSE after
              /\ UNCHANGED <<round, paired>>
           \/ /\ coordinated
              /\ ~usable \/ (~first /\ ~aligned)
              /\ slots' = Forget(after)
              /\ CancelRound
           \/ /\ coordinated /\ usable /\ first
              /\ slots' = after
              /\ round' = [round EXCEPT !.samples = samples]
              /\ UNCHANGED paired
           \/ /\ coordinated /\ usable /\ ~first /\ aligned
              /\ slots' = [j \in Slots |-> [after[j] EXCEPT !.history =
                              AppendHistory(@, [voltage |-> samples[j].voltage,
                                                current |-> samples[j].current,
                                                at |-> samples[j].start])]]
              /\ paired' = [at |-> from, id |-> round.id]
              /\ round' = NoRound

-----------------------------------------------------------------------------
(* Isolation episodes: switching off one pack of a mismatched pair, or     *)
(* handing over to a higher-voltage pack.                                  *)

(* An episode that no longer has a reason. *)
HandoverObsolete(e) ==
    LET target == slots[e.survivor]
        old == slots[e.victim]
    IN  /\ e.handover /\ ~e.attempted /\ PairCurrent
        /\ Fresh(target, now) /\ Fresh(old, now)
        /\ \/ ~Usable(target)
           \/ target.frame.voltage <= old.frame.voltage
           \/ Distance(target.frame.voltage, old.frame.voltage) <= maxDelta

HandoverAbandoned(e) ==
    LET target == slots[e.survivor]
        old == slots[e.victim]
    IN  /\ e.handover /\ e.offConfirmed /\ ~target.held /\ ~old.held
        /\ \/ FreshlyAbsent(target, now)
           \/ ~Usable(target)
           \/ Usable(old) /\ old.frame.voltage > target.frame.voltage

MismatchedPair ==
    /\ coordinated /\ maxDelta # 0 /\ vehicle \in NonDriving
    /\ \A i \in Slots : ~slots[i].offPending /\ Fresh(slots[i], now)
    /\ PairCurrent
    /\ Distance(slots[0].frame.voltage, slots[1].frame.voltage) > maxDelta

(* The healthy pack with the higher voltage, slot 0 when they are equal. *)
Survivor ==
    LET higher == IF slots[1].frame.voltage > slots[0].frame.voltage
                  THEN 1 ELSE 0
    IN  IF Usable(slots[higher]) THEN higher ELSE Other(higher)

(* Clearing the limit ends an episode at any time. *)
reconcileUnlimited ==
    IF maxDelta = 0 THEN NoIsolation
    ELSE IF ~isolation.open /\ MismatchedPair /\ \A i \in Slots : Running(slots[i])
    THEN [NoIsolation EXCEPT !.open = TRUE, !.survivor = Survivor, !.victim = Other(Survivor)]
    ELSE isolation

reconcile ==
    LET e == isolation
        target == slots[Survivor]
        victim == slots[Other(Survivor)]
        episode == [NoIsolation EXCEPT !.open = TRUE, !.survivor = Survivor,
                                       !.victim = Other(Survivor)]
    IN  IF e.open
        THEN IF \/ ~e.attempted /\ maxDelta = 0
                \/ HandoverObsolete(e)
                \/ HandoverAbandoned(e)
             THEN NoIsolation ELSE e
        ELSE IF ~MismatchedPair \/ ~Usable(target) \/ ~Running(victim)
        THEN e
        ELSE IF Running(target)
        THEN IF target.requiresAdmission THEN e ELSE episode
        ELSE IF /\ Conservative /\ ~target.held /\ Inactive(target.frame)
                /\ Stable(target, now) /\ Stable(victim, now)
        THEN [episode EXCEPT !.handover = TRUE]
        ELSE e

(* The retained pack is known to be in the state the OFF relies on. *)
IsolationReady(e) ==
    LET s == slots[e.survivor]
    IN  /\ e.open /\ vehicle \in NonDriving
        /\ ~s.offPending /\ Fresh(s, now) /\ Usable(s)
        /\ IF e.handover
           THEN /\ ~e.offConfirmed /\ ~s.held /\ Inactive(s.frame)
                /\ \/ e.attempted
                   \/ /\ PairCurrent
                      /\ Stable(s, now) /\ Stable(slots[e.victim], now)
           ELSE Running(s) /\ ~s.requiresAdmission

(* Driving began during a handover OFF that did not take: the old pack is  *)
(* the only supply and keeps its heartbeat.                                *)
MaintainHandover(e, i) ==
    LET old == slots[e.victim]
        target == slots[e.survivor]
    IN  /\ e.open /\ e.handover /\ e.attempted /\ ~e.offConfirmed
        /\ e.victim = i /\ vehicle = "ready-to-drive"
        /\ Running(old) /\ ~old.requiresAdmission /\ Fresh(old, now)
        /\ old.observed > old.offAt /\ now - old.offAt >= TimeCmd
        /\ ~target.held /\ ~target.offPending
        /\ FreshlyAbsent(target, now) \/ (Fresh(target, now) /\ Inactive(target.frame))

(* shouldIsolate, asked before every heartbeat decides between ON and OFF. *)
ShouldIsolate(i) ==
    /\ i \in Monitored /\ reconcile # isolation
    /\ isolation' = reconcile
    /\ UNCHANGED <<clock, slots, vehicleVars, coordinated, evidence, maxDelta,
                   readerVars>>

-----------------------------------------------------------------------------
(* requestOn, the gate before every ON write and every retry of one.  Each *)
(* operator below is one group of its refusals.                            *)

(* The replaced pack is free again once it is off. *)
IsolationBlocksTarget(e, i) ==
    e.open /\ ~e.offConfirmed /\ (e.victim = i \/ e.handover)

IsolationBlocks(e, i) ==
    /\ e.open
    /\ \/ /\ e.victim = i
          /\ e.attempted \/ IsolationReady(e) \/ ~slots[i].held \/ ~slots[i].active
       \/ e.handover /\ e.survivor = i /\ ~e.offConfirmed

(* Commands outstanding on this slot do not forbid an ON. *)
CommandOpen(e, i) ==
    /\ slots[i].eligible /\ ~slots[i].offPending
    /\ ~IsolationBlocks(e, i)
    /\ ~(slots[i].identityUncertain /\ slots[i].held /\ ~slots[i].active)

Established(i) ==
    slots[i].held /\ slots[i].active /\ ~slots[i].requiresAdmission

(* secondPackStationaryLocked in a non-driving state: only a fresh         *)
(* movement report forbids a second supply.  Its other branch is not       *)
(* reached: VehiclePermits has refused a second supply while driving.      *)
Stationary ==
    \/ motion.at = Zero \/ motion.stopped
    \/ now - motion.at \notin 0..MotionMaxAge

VehiclePermits(i) ==
    \/ vehicle \in NonDriving
    \/ /\ vehicle = "ready-to-drive"
       /\ ~slots[Other(i)].held /\ ~slots[Other(i)].offPending

OwnEvidence(i) ==
    /\ (slots[i].held /\ ~slots[i].active) => now - slots[i].onAt <= OnSettle
    /\ Fresh(slots[i], now) /\ Usable(slots[i])

(* A peer whose ON is still unanswered counts as running. *)
JoinsUnconfirmed(i) ==
    /\ Stationary /\ ~slots[Other(i)].offPending /\ PairCurrent
    /\ maxDelta > 0 =>
         Distance(slots[0].frame.voltage, slots[1].frame.voltage) <= maxDelta

(* Any two fresh readings are compared. *)
JoinsUnpaired(i) ==
    /\ Stationary /\ slots[Other(i)].active /\ ~slots[Other(i)].offPending
    /\ maxDelta > 0 =>
         Distance(slots[0].frame.voltage, slots[1].frame.voltage) <= maxDelta

(* The voltage limit is left to the isolation that follows. *)
JoinsAnyVoltage(i) ==
    Stationary /\ slots[Other(i)].active /\ ~slots[Other(i)].offPending /\ PairCurrent

(* Joining a running peer. *)
Joins(i) ==
    LET s == slots[i]
        peer == slots[Other(i)]
        limit == maxDelta - (IF maxDelta \div 10 > 100 THEN 100 ELSE maxDelta \div 10)
    IN  /\ Stationary
        /\ peer.active /\ ~peer.offPending /\ ~Drained(peer.frame)
        /\ PairCurrent
        /\ maxDelta > 0 => Distance(s.frame.voltage, peer.frame.voltage) <= maxDelta
        /\ Conservative =>
             /\ Stable(s, now) /\ Stable(peer, now)
             /\ maxDelta > 0 =>
                  \A k \in 1..Len(s.history), m \in 1..Len(peer.history) :
                     Distance(s.history[k].voltage, peer.history[m].voltage) <= limit

(* No rule for packs that are equal. *)
SelectedStrictly(i) ==
    LET s == slots[i].frame
        p == slots[Other(i)].frame
    IN  s.voltage > p.voltage \/ (s.voltage = p.voltage /\ s.charge > p.charge)

(* Starting while the other pack is a candidate too: it is selected by     *)
(* slot, or (conservative) by voltage, charge and then slot.               *)
Selected(i) ==
    LET s == slots[i].frame
        p == slots[Other(i)].frame
    IN  IF ~Conservative THEN i = 0
        ELSE \/ s.voltage > p.voltage
             \/ s.voltage = p.voltage /\ s.charge > p.charge
             \/ s.voltage = p.voltage /\ s.charge = p.charge /\ i = 0

PeerPermits(i) ==
    LET peer == slots[Other(i)]
        absent == FreshlyAbsent(peer, now)
    IN  (Other(i) \in Monitored /\ (peer.powerTracked \/ peer.held \/ peer.offPending))
        => /\ absent \/ Fresh(peer, now)
           /\ IF peer.held THEN Joins(i)
              ELSE absent \/ ~Usable(peer) \/ Selected(i)

Admitted(e, i) ==
    /\ CommandOpen(e, i) /\ ~Established(i) /\ ~stopping
    /\ VehiclePermits(i) /\ OwnEvidence(i) /\ PeerPermits(i)

(* What every granted request does to the slot. *)
Granted(s) == [s EXCEPT !.lastOnAt = now, !.requiresAdmission = FALSE]

Requested(i) ==
    /\ Idle(i)
    /\ isolation' = reconcile
    /\ UNCHANGED <<clock, vehicleVars, coordinated, next, stopping, maxDelta,
                   readerVars>>

(* A running supply, or an ON still waiting for its confirmation, is       *)
(* repeated: nothing but the time of the last ON changes.                  *)
RepeatOn(i) ==
    /\ Requested(i)
    /\ \/ slots[i].eligible /\ slots[i].offPending /\ MaintainHandover(reconcile, i)
       \/ CommandOpen(reconcile, i) /\ Established(i)
       \/ Admitted(reconcile, i) /\ slots[i].held /\ ~slots[i].requiresAdmission
    /\ slots' = [slots EXCEPT ![i] = Granted(@)]
    /\ UNCHANGED <<round, paired>>

(* A supply that lost its permission qualifies again. *)
RequalifyOn(i) ==
    /\ Requested(i)
    /\ Admitted(reconcile, i) /\ slots[i].held /\ slots[i].requiresAdmission
    /\ slots' = Forget([slots EXCEPT ![i] = Granted(@)])
    /\ CancelRound

(* Samples from before the command stay. *)
ActivateOnKeeping(i) ==
    /\ Requested(i)
    /\ Admitted(reconcile, i) /\ ~slots[i].held
    /\ slots' = [slots EXCEPT ![i] =
                    [Granted(@) EXCEPT !.held = TRUE, !.onAt = now]]
    /\ CancelRound

(* A new reservation, made before the first write. *)
ActivateOn(i) ==
    /\ Requested(i)
    /\ Admitted(reconcile, i) /\ ~slots[i].held
    /\ slots' = Forget([slots EXCEPT ![i] =
                    [Granted(@) EXCEPT !.held = TRUE, !.onAt = now]])
    /\ CancelRound

(* A refused request only reconciles, as ShouldIsolate does. *)
RequestOn(i) == RepeatOn(i) \/ RequalifyOn(i) \/ ActivateOn(i)

-----------------------------------------------------------------------------
(* OFF commands, before every OFF write and every retry of one. *)

OffReserved(s) ==
    IF s.held /\ (~s.offPending \/ s.lastOnAt > s.offAt)
    THEN [s EXCEPT !.offPending = TRUE, !.offAt = now] ELSE s

(* An OFF leaves the paired readings standing. *)
OffKeepingPair(i) ==
    /\ Idle(i)
    /\ slots' = [slots EXCEPT ![i] = OffReserved(@)]
    /\ UNCHANGED <<isolation, round, paired>>
    /\ UNCHANGED <<clock, vehicleVars, coordinated, next, stopping, maxDelta,
                   readerVars>>

Off(i) ==
    /\ Idle(i)
    /\ isolation' = IF isolation.open /\ isolation.victim = i
                    THEN [isolation EXCEPT !.attempted = TRUE] ELSE isolation
    /\ slots' = Forget([slots EXCEPT ![i] = OffReserved(@)])
    /\ CancelRound
    /\ UNCHANGED <<clock, vehicleVars, coordinated, next, stopping, maxDelta,
                   readerVars>>

(* The seatbox, an empty pack or a disabled reader. *)
OffAttempt(i) == Off(i)

(* Each reader takes itself for the victim. *)
IsolationOffAttemptAny(i) == IsolationReady(isolation) /\ Off(i)

(* The corrective OFF of an isolation episode. *)
IsolationOffAttempt(i) ==
    /\ isolation.open /\ isolation.victim = i /\ IsolationReady(isolation)
    /\ Off(i)

-----------------------------------------------------------------------------
(* Motion evidence. *)

(* The standstill survives the evidence for it. *)
UnqualifiedButSince(m) == [m EXCEPT !.at = Zero, !.stopped = FALSE]

Unqualified(m) == [m EXCEPT !.at = Zero, !.since = Zero, !.stopped = FALSE]

(* motionClockJump: the wall clock was set since the last report. *)
ClockJumped(m) == m.lastCheck.known /\ m.lastCheck.wall # wall

StoppedMotionFresh ==
    /\ ~ClockJumped(motion) /\ motion.stopped /\ motion.since # Zero
    /\ now - motion.at \in 0..MotionMaxAge

(* A report of any age is applied. *)
ReceiveMotionUndated(r) ==
    /\ motion' = [motion EXCEPT !.at = now - r.age, !.source = r.source,
                     !.sequence = r.sequence, !.stopped = r.stopped,
                     !.since = IF r.stopped THEN now - r.age ELSE Zero]
    /\ UNCHANGED <<clock, slots, vehicle, seatboxClosed, coordinated, isolation,
                   evidence, maxDelta, readerVars>>

(* receiveMotionEvidence and observeMotionLocked.  A report that is        *)
(* malformed, replayed, incomplete or stale, or that repeats an old        *)
(* observation, leaves no evidence; a gap restarts the qualification.      *)
ReceiveMotion(r) ==
    LET checked == [(IF ClockJumped(motion) THEN Unqualified(motion) ELSE motion)
                       EXCEPT !.lastCheck = [known |-> TRUE, wall |-> wall]]
        refused == \/ ~r.wellFormed
                   \/ r.source = motion.source /\ r.sequence <= motion.sequence
        gap == r.source # motion.source \/ r.sequence # motion.sequence + 1
        m == [(IF gap THEN Unqualified(checked) ELSE checked)
                 EXCEPT !.source = r.source, !.sequence = r.sequence]
        received == now - r.age
        current == /\ r.complete /\ r.age \in 0..MotionMaxAge
                   /\ m.at = Zero \/ received > m.at
        changed == m.at = Zero \/ m.stopped # r.stopped
        restarts == ~m.stopped \/ received - m.at > MotionMaxAge
    IN  /\ motion' = IF refused THEN Unqualified(checked)
                     ELSE IF ~current THEN Unqualified(m)
                     ELSE [m EXCEPT !.at = received, !.stopped = r.stopped,
                             !.since = IF ~r.stopped THEN Zero
                                       ELSE IF restarts THEN received ELSE @]
        /\ IF ~refused /\ current /\ changed
           THEN CancelRound /\ slots' = Forget(slots)
           ELSE UNCHANGED <<round, paired, slots>>
        /\ UNCHANGED <<clock, vehicle, seatboxClosed, coordinated, isolation,
                       next, stopping, maxDelta, readerVars>>

ResetMotionStream ==
    /\ motion' = [Unqualified(motion) EXCEPT !.source = "", !.sequence = 0]
    /\ UNCHANGED <<clock, slots, vehicle, seatboxClosed, coordinated, isolation,
                   evidence, maxDelta, readerVars>>

-----------------------------------------------------------------------------
(* Vehicle, seatbox and settings, from the Redis subscriber. *)

SetVehicle(state) ==
    LET leaves == vehicle # state /\ ~({vehicle, state} \subseteq NonDriving)
    IN  /\ vehicle' = state
        /\ motion' = IF leaves /\ ClockJumped(motion)
                     THEN Unqualified(motion) ELSE motion
        /\ IF leaves /\ ~StoppedMotionFresh
           THEN CancelRound /\ slots' = Forget(slots)
           ELSE UNCHANGED <<round, paired, slots>>
        /\ UNCHANGED <<clock, seatboxClosed, coordinated, isolation, next,
                       stopping, maxDelta, readerVars>>

(* setSeatbox: a change of the lock invalidates both packs' measurements   *)
(* but not an established supply's permission.                             *)
SetSeatbox(closed) ==
    /\ closed # seatboxClosed
    /\ seatboxClosed' = closed
    /\ slots' = Forget([j \in Slots |-> [slots[j] EXCEPT
                    !.valid = FALSE, !.observedRound = 0,
                    !.requiresAdmission = @ \/ ~slots[j].held \/ ~slots[j].active]])
    /\ CancelRound
    /\ UNCHANGED <<clock, vehicle, motion, coordinated, isolation, next,
                   stopping, maxDelta, readerVars>>

(* setRole: only slot 1 changes its role at run time. *)
SetRole(eligible) ==
    LET changed == [slots EXCEPT ![1].eligible = eligible,
                                 ![1].powerTracked = @ \/ eligible]
    IN  /\ 1 \in Monitored /\ eligible # slots[1].eligible
        /\ slots' = Forget(changed)
        /\ coordinated' = (coordinated \/ \A j \in Slots : changed[j].eligible)
        /\ CancelRound
        /\ UNCHANGED <<clock, vehicleVars, isolation, next, stopping, maxDelta,
                       readerVars>>

SetMaxDelta(d) ==
    /\ maxDelta' = d
    /\ UNCHANGED <<clock, slots, vehicleVars, coordinated, isolation, evidence,
                   readerVars>>

-----------------------------------------------------------------------------
(* Time. *)

Tick ==
    /\ now < MaxNow
    /\ now' = now + 1
    /\ UNCHANGED <<wall, slots, vehicleVars, coordinated, isolation, evidence,
                   maxDelta, readerVars>>

SetClock(offset) ==
    /\ wall' = offset
    /\ UNCHANGED <<now, slots, vehicleVars, coordinated, isolation, evidence,
                   maxDelta, readerVars>>

-----------------------------------------------------------------------------
(* newPackAdmission, loadDualBatterySetting and loadInitialVehicleState    *)
(* have run.  Slot 1 may have been active in the configuration and made    *)
(* inactive by the setting, and is then still tracked.                     *)
Init ==
    /\ now = StartTime /\ wall \in ClockOffsets
    /\ \E r \in InitialRoles :
          slots = [i \in Slots |-> IF i = 0 THEN EmptySlot(TRUE, TRUE)
                                            ELSE EmptySlot(r[1], r[2])]
    /\ vehicle \in Vehicles /\ seatboxClosed \in InitialSeatbox
    /\ coordinated = (Monitored = Slots)
    /\ isolation = NoIsolation
    /\ round = NoRound /\ paired = NoPair /\ next = 0 /\ stopping = FALSE
    /\ motion = NoMotion
    /\ maxDelta \in Deltas
    /\ selected = [i \in Slots |-> NoUid]
    /\ reading = [i \in Slots |-> NoRead]

Reader(i) ==
    \/ \E uid \in Uids : Tag(i, uid)
    \/ "absent" \in Events /\ \E departed \in BOOLEAN : ObserveAbsent(i, departed)
    \/ StartRead(i)
    \/ "fail" \in Events /\ FailRead(i)
    \/ \E data \in Frames : \E start, end \in reading[i].from..now :
          FinishRead(i, data, start, end)
    \/ ShouldIsolate(i)
    \/ RequestOn(i)
    \/ "off" \in Events /\ OffAttempt(i)
    \/ IsolationOffAttempt(i)

Service ==
    \/ BeginRound
    \/ "stop" \in Events /\ StopSampling
    \/ \E r \in Reports : ReceiveMotion(r)
    \/ "reset" \in Events /\ ResetMotionStream
    \/ \E state \in Vehicles \ {vehicle} : SetVehicle(state)
    \/ "seatbox" \in Events /\ \E closed \in BOOLEAN : SetSeatbox(closed)
    \/ "role" \in Events /\ \E eligible \in BOOLEAN : SetRole(eligible)
    \/ \E d \in Deltas \ {maxDelta} : SetMaxDelta(d)

Next ==
    \/ \E i \in Slots : Reader(i)
    \/ Service
    \/ Tick
    \/ \E offset \in ClockOffsets \ {wall} : SetClock(offset)

Spec == Init /\ [][Next]_vars

-----------------------------------------------------------------------------
(* The values every variable may take. *)

SampleType == [start: Nat, end: Nat, complete: Nat, voltage: Nat, current: Int]

HistorySample == [voltage: Nat, current: Int, at: Nat]

SlotType ==
    [eligible: BOOLEAN, powerTracked: BOOLEAN, uid: Uids \cup {NoUid},
     serial: Serials \cup {NoSerial},
     absent: BOOLEAN, observed: Nat, observedRound: Nat, frame: FrameType,
     haveFrame: BOOLEAN, written: Nat, valid: BOOLEAN,
     history: Seq(HistorySample),
     held: BOOLEAN, active: BOOLEAN, onAt: Nat, lastOnAt: Nat,
     offPending: BOOLEAN, offAt: Nat, identityUncertain: BOOLEAN,
     requiresAdmission: BOOLEAN]

IsolationType == [open: BOOLEAN, survivor: Slots, victim: Slots,
                  attempted: BOOLEAN, handover: BOOLEAN, offConfirmed: BOOLEAN]

RoundType == [id: Nat, opened: Nat, claimed: [Slots -> BOOLEAN],
              samples: [Slots -> SampleType]]

MotionType == [at: Nat, since: Nat, stopped: BOOLEAN, source: Sources \cup {""},
               sequence: Nat, lastCheck: [known: BOOLEAN, wall: Int]]

(* Type correctness, with the clock at or after the start of the service.  *)
TypeOK ==
    /\ now \in Nat /\ now >= StartTime /\ wall \in Int
    /\ slots \in [Slots -> SlotType]
    /\ vehicle \in Vehicles /\ seatboxClosed \in BOOLEAN /\ coordinated \in BOOLEAN
    /\ isolation \in IsolationType /\ round \in RoundType
    /\ paired \in [at: Nat, id: Nat]
    /\ next \in Nat /\ stopping \in BOOLEAN
    /\ motion \in MotionType /\ maxDelta \in Nat
    /\ selected \in [Slots -> Uids \cup {NoUid}]
    /\ reading \in [Slots -> [busy: BOOLEAN, id: Nat, from: Nat]]

-----------------------------------------------------------------------------
(* Safety. *)

Unconfirmed(s) == s.held /\ ~s.active /\ ~s.identityUncertain

(* Both packs are off, freshly read and fit to run, and nothing outside    *)
(* the choice between them forbids an ON.                                  *)
BothReady ==
    /\ Monitored = Slots /\ vehicle \in NonDriving /\ ~stopping
    /\ \A i \in Slots : /\ ~slots[i].held /\ ~slots[i].offPending
                        /\ Fresh(slots[i], now) /\ Usable(slots[i])

(* Two ON commands are never outstanding at once: while a reservation has  *)
(* not been confirmed by an ACTIVE reading of the same pack, the other     *)
(* slot gets no reservation of its own (requestOn, admission.go:382).      *)
OneOutstandingActivation == ~ \A i \in Slots : Unconfirmed(slots[i])

(* Possible power is never forgotten by losing sight of a pack: a slot     *)
(* counted as absent has no reservation, no unanswered OFF and no usable   *)
(* measurement, whatever tags, reads and commands interleave with the      *)
(* discovery that reported the absence (admission.go:42-44, 197-204).      *)
AbsenceNeverHidesPower ==
    \A i \in Slots : slots[i].absent =>
        ~slots[i].held /\ ~slots[i].offPending /\ ~slots[i].valid

(* An unanswered command is always covered by a reservation, and a pack    *)
(* that replaced the commanded one never counts as confirmed running.      *)
CommandsReserved ==
    \A i \in Slots : LET s == slots[i] IN
        /\ s.active => s.held
        /\ s.offPending => s.held
        /\ s.identityUncertain => s.held /\ ~s.active
        /\ s.held => s.powerTracked

(* Every stability sample of either pack was taken after the last          *)
(* activation and the last OFF of both packs: a read in flight across a    *)
(* command never feeds the qualification (admission.go:438, 460).          *)
SamplesFollowCommands ==
    \A i, j \in Slots : \A k \in 1..Len(slots[i].history) :
        /\ slots[i].history[k].at >= slots[j].onAt
        /\ slots[i].history[k].at >= slots[j].offAt

(* The readings that count as a pair are intact: both packs are readable,  *)
(* both reads followed every activation and OFF of either pack, and they   *)
(* are close enough for requestOn's own alignment test (admission.go:392)  *)
(* to hold of every pair that sampling.go completes.                       *)
PairIntact ==
    (paired.id # 0 /\ \A i \in Slots : slots[i].observedRound = paired.id) =>
        /\ \A i, j \in Slots :
              /\ slots[i].valid /\ slots[i].observed >= paired.at
              /\ paired.at >= slots[j].onAt /\ paired.at >= slots[j].offAt
        /\ slots[0].observed - slots[1].observed \in -MaxSkew..MaxSkew

(* The pack chosen for a corrective OFF keeps its reservation until an     *)
(* inactive reading confirms the OFF, and is never switched on again while *)
(* the episode lasts; a handover target gets no ON before that             *)
(* confirmation (admission.go:338-344, admission_isolation.go:16-17).      *)
HandoverBreaksBeforeMake ==
    LET old == slots[isolation.victim]
        target == slots[isolation.survivor]
    IN  isolation.open =>
            /\ isolation.survivor # isolation.victim
            /\ ~Unconfirmed(old)
            /\ ~isolation.offConfirmed =>
                 /\ old.held
                 /\ isolation.attempted => old.offPending
                 /\ isolation.handover => ~Unconfirmed(target)

(* A reservation ends only by a step that saw the pack inactive in a frame *)
(* that changed after the last ON and after the OFF it answers.            *)
ReleaseNeedsEvidence ==
    [][\A i \in Slots :
         (slots[i].held /\ ~slots'[i].held) =>
            /\ slots'[i].valid /\ Inactive(slots'[i].frame)
            /\ slots'[i].written > slots[i].lastOnAt
            /\ slots[i].offPending => slots'[i].written > slots[i].offAt]_vars

(* A second supply is reserved only next to a confirmed running one, in a  *)
(* non-driving state, with both packs read since the last activation and   *)
(* OFF of either of them and within the voltage limit.                     *)
SecondSupplyQualified ==
    [][\A i \in Slots :
         LET s == slots[i]
             peer == slots[Other(i)]
         IN  (~s.held /\ Unconfirmed(slots'[i]) /\ peer.held) =>
               /\ vehicle \in NonDriving /\ peer.active /\ ~peer.offPending
               /\ maxDelta > 0 =>
                    Distance(s.frame.voltage, peer.frame.voltage) <= maxDelta
               /\ \A j, k \in Slots :
                    /\ now - slots[j].observed <= MaxAge
                    /\ slots[j].observed >= slots[k].onAt
                    /\ slots[j].observed >= slots[k].offAt]_vars

(* An episode never turns against its other pack, and once a corrective    *)
(* OFF has been written it ends only after that pack has been seen off:    *)
(* no change of voltages, settings, tags or of the retained pack in        *)
(* between makes the service forget the OFF (admission_isolation.go:16).   *)
CorrectiveOffConcludes ==
    [][isolation.open =>
         \/ /\ isolation'.open /\ isolation'.victim = isolation.victim
            /\ isolation.attempted => isolation'.attempted
            /\ isolation.offConfirmed => isolation'.offConfirmed
         \/ /\ ~isolation'.open
            /\ isolation.attempted =>
                 isolation.offConfirmed \/ ~slots'[isolation.victim].held]_vars

(* Two usable packs, both known to be off, never wait for each other:      *)
(* outside a handover, whatever their voltages and charges, the gate lets  *)
(* one of them start (admission.go:414-423).                               *)
SomePackAdmitted == (BothReady /\ ~reconcile.open) => \E i \in Slots : Admitted(reconcile, i)

(* Stopped evidence comes from one unbroken stream: a qualified standstill *)
(* has a source and a sequence number, began before the last report and    *)
(* is not from the future, through replayed, lost, late and malformed      *)
(* reports and jumps of the wall clock (stopped_admission.go:29-70).       *)
StandstillSound ==
    /\ motion.since # Zero =>
          /\ motion.stopped /\ motion.since <= motion.at
          /\ motion.source # "" /\ motion.sequence > 0
    /\ motion.stopped => motion.since # Zero
    /\ motion.at <= now

-----------------------------------------------------------------------------
(* Refinement. *)

(* What a slot is to the bus. *)
SupplyOf(s) ==
    IF ~s.held THEN "off"
    ELSE IF s.offPending THEN "stopping"
    ELSE IF s.identityUncertain THEN "foreign"
    ELSE IF s.active THEN "on" ELSE "starting"

Bus == INSTANCE SupplyBus WITH supply <- [i \in Slots |-> SupplyOf(slots[i])]

(* The gate implements SupplyBus: through reads that span commands, tags   *)
(* and serials that change under a command, lost sight and repeated ON and *)
(* OFF, every step of the two readers and the service is one of its steps  *)
(* of one slot, or none.  An OFF is never taken back, a replaced pack is   *)
(* never retried, and no pack starts next to one that is starting,         *)
(* stopping or replaced.                                                   *)
ImplementsBus == Bus!Spec
=============================================================================
