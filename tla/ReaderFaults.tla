---------------------------- MODULE ReaderFaults ----------------------------
(***************************************************************************)
(* The fault management of one battery reader (battery/fault.go), with the *)
(* callers that raise and clear faults (nfc_operations.go,                 *)
(* battery_status.go, reader.go, actions.go) and what the status           *)
(* transaction publishes (sendStatusUpdate).                               *)
(*                                                                         *)
(* Two kinds of goroutine act on a reader: the one that runs its state     *)
(* machine, and the callbacks of time.AfterFunc, one per debounce timer.   *)
(* faultMu makes setFault and a callback's body atomic.  A callback whose  *)
(* goroutine has started can no longer be stopped: it waits for faultMu    *)
(* (the set waiting) while setFault believes it has disarmed the timer.    *)
(* A read is answered, parsed and observed, and then published without     *)
(* faultMu in three steps, because a callback may run between any two of   *)
(* its uses of r.data and the fault states: the changes are collected, the *)
(* transaction is executed, the changed faults are marked as published.    *)
(*                                                                         *)
(* Abstractions.  A frame keeps its fault bits, its power state and its    *)
(* serial number.  Redis is up or down for a whole step.  The debounce     *)
(* times are ticks; a timer counts down.  Fault events (events:faults) and *)
(* notifications carry no state and are left out.  A callback is one step  *)
(* to a publication, and collecting one step to a callback: each fault is  *)
(* looked at once, so of one fault no other outcome is possible.           *)
(***************************************************************************)
EXTENDS Integers, FiniteSets

CONSTANTS
    Hardware,       \* fault bits of the BMS that may be set, of 1..16
    Serials,        \* serial numbers of packs
    CommsSet,       \* DebounceTimeSet of the communication fault, in ticks
    CommsReset,     \* its DebounceTimeReset
    ReaderSet,      \* DebounceTimeSet of the NFC reader fault
    MaxFailures,    \* maxCommsFailureBeforeFault
    MaxTimers,      \* bound on the timers alive at once
    Scenes          \* situations: the events and fault bits that occur, and
                    \* whether a callback may wait for faultMu

Latch == 6          \* BMSFaultSecondLvlOverTemp
ZeroData == 33
CommsError == 34
ReaderError == 35
PowerOff == 36

Software == {ZeroData, CommsError, ReaderError, PowerOff}
Faults == Hardware \cup Software

ASSUME HardwareAssumption == Hardware \subseteq 1..16
ASSUME DelaysAssumption ==
    /\ CommsSet \in Nat \ {0} /\ CommsReset \in Nat \ {0} /\ ReaderSet \in Nat \ {0}
    /\ MaxFailures \in Nat \ {0} /\ MaxTimers \in Nat \ {0}

EventKinds == {"comms", "empty", "power", "read", "reader", "redis"}

ASSUME ScenesAssumption ==
    Scenes \subseteq [events: SUBSET EventKinds, hardware: SUBSET Hardware, late: BOOLEAN]

(* The rows of the table slip: missing data waits like a broken reader. *)
SetDelaySlipped(f) ==
    IF f = CommsError THEN CommsSet ELSE IF f \in {ZeroData, ReaderError} THEN ReaderSet ELSE 0

(* faultConfigs: what a fault needs to be set and to be reset. *)
SetDelay(f) == IF f = CommsError THEN CommsSet ELSE IF f = ReaderError THEN ReaderSet ELSE 0
ResetDelay(f) == IF f = CommsError THEN CommsReset ELSE 0
Critical == {Latch, ZeroData, CommsError, ReaderError}

VARIABLES
    scene,       \* what may happen in this behaviour
    reader,      \* faultStates, the armed timers, data, previousData, and Redis
    waiting,     \* timer callbacks that have started and wait for faultMu
    phase,       \* how far the status read in progress has come
    batch,       \* the transaction that is being published
    overtaken,   \* history: faults Redis has wrong ever since a callback
                 \* overtook the transaction that told of them
    sample,      \* powerSample
    failures,    \* commsFaultCount
    raised,      \* nfcReaderErrorRaised
    tagPresent   \* the state machine is in StateTagPresent

vars == <<scene, reader, waiting, phase, batch, overtaken, sample, failures, raised, tagPresent>>

NoFault == [present |-> FALSE, pendingSet |-> FALSE, pendingReset |-> FALSE,
            setTimer |-> 0, resetTimer |-> 0, published |-> FALSE]

NoData == [present |-> FALSE, zero |-> FALSE, code |-> {}, state |-> "unknown",
           serial |-> "none", valid |-> FALSE]

NoSample == [state |-> "unknown", serial |-> "none"]

-----------------------------------------------------------------------------
(* Operations on the reader.  Each takes the reader and returns it as the  *)
(* Go method leaves it; up says whether Redis answers.                     *)

PresentFaults(r) == {f \in Faults : r.faults[f].present}

TimerIds == 1..(MaxTimers + 1)

Timers(r) == r.timers \cup waiting

NewTimer(r) == CHOOSE k \in TimerIds : \A t \in Timers(r) : t.id # k

Arm(r, f, kind, delay) ==
    LET id == NewTimer(r)
        armed == [r EXCEPT !.timers = @ \cup {[id |-> id, fault |-> f,
                                               kind |-> kind, left |-> delay]}]
    IN  IF kind = "set"
        THEN [armed EXCEPT !.faults[f].pendingSet = TRUE, !.faults[f].setTimer = id]
        ELSE [armed EXCEPT !.faults[f].pendingReset = TRUE, !.faults[f].resetTimer = id]

(* The timers are stopped and the flags forgotten. *)
DisarmedStillPending(r, f) ==
    LET s == r.faults[f]
    IN  [r EXCEPT !.timers = {t \in @ : t.id \notin {s.setTimer, s.resetTimer}},
                  !.faults[f].setTimer = 0, !.faults[f].resetTimer = 0]

(* Stopping a timer whose callback has started has no effect. *)
Disarmed(r, f) ==
    LET s == r.faults[f]
    IN  [r EXCEPT !.timers = {t \in @ : t.id \notin {s.setTimer, s.resetTimer}},
                  !.faults[f].setTimer = 0, !.faults[f].resetTimer = 0,
                  !.faults[f].pendingSet = @ /\ s.setTimer = 0,
                  !.faults[f].pendingReset = @ /\ s.resetTimer = 0]

reportFault(r, f, present, up) ==
    IF ~up THEN r
    ELSE [r EXCEPT !.redis.faults = IF present THEN @ \cup {f} ELSE @ \ {f}]

(* The transaction of a publication: whether the pack is present, and the  *)
(* faults whose state is not the one published.                            *)
updateFaultSetInTransaction(r) ==
    [present |-> r.data.present,
     add |-> {f \in Faults : r.faults[f].present /\ ~r.faults[f].published},
     remove |-> {f \in Faults : ~r.faults[f].present /\ r.faults[f].published}]

NoBatch == [present |-> FALSE, add |-> {}, remove |-> {}]

Executed(r, b) ==
    [r EXCEPT !.redis = [present |-> b.present, faults |-> (@.faults \ b.remove) \cup b.add]]

(* What is told counts as told, and the frame as the previous one. *)
Marked(r, b) ==
    [r EXCEPT !.faults = [f \in Faults |->
                            IF f \in b.add \cup b.remove
                            THEN [r.faults[f] EXCEPT !.published = r.faults[f].present]
                            ELSE r.faults[f]],
              !.previous = r.data]

(* sendStatusUpdate, called with faultMu held: previousData and the        *)
(* published flags move only when the transaction succeeds.                *)
sendStatusUpdate(r, up) ==
    LET b == updateFaultSetInTransaction(r)
    IN  IF up THEN Marked(Executed(r, b), b) ELSE r

Idle(s) == ~s.pendingSet /\ ~s.pendingReset

(* A fault is over and Redis is not told. *)
DeactivatedQuietly(r, f, up) == [r EXCEPT !.faults[f].present = FALSE]

(* deactivateFaultLocked, and what setFaultLocked records with it. *)
Deactivated(r, f, up) ==
    [reportFault(r, f, FALSE, up) EXCEPT !.faults[f].present = FALSE]

(* setFaultLocked(f, false). *)
ClearFault(r, f, up) ==
    LET s == r.faults[f]
        d == Disarmed(r, f)
    IN  IF ~s.present /\ Idle(s) THEN r
        ELSE IF ~s.present THEN d
        ELSE IF ResetDelay(f) = 0 THEN Deactivated(d, f, up)
        ELSE Arm(d, f, "reset", ResetDelay(f))

(* Setting and clearing faults that have no debounce and clear no others:  *)
(* their order does not matter.                                            *)
ApplyPlain(r, set, clear, up) ==
    LET old == PresentFaults(r)
    IN  [r EXCEPT
            !.faults = [f \in Faults |-> [r.faults[f] EXCEPT
                          !.present = (@ \/ f \in set) /\ f \notin clear]],
            !.redis.faults = IF up THEN (@ \cup (set \ old)) \ (clear \cap old) ELSE @]

(* Only the communication fault is reset through a timer. *)
ClearFaults(r, F, up) ==
    LET cleared == ApplyPlain(r, {}, F \ {CommsError}, up)
    IN  IF CommsError \in F THEN ClearFault(cleared, CommsError, up) ELSE cleared

(* activateFaultLocked, and what setFaultLocked records with it.  The      *)
(* communication fault is skipped when no pack is expected.                *)
Activated(r, f, up) ==
    LET lesser == {g \in PresentFaults(r) : g < f}
        cleared == [ClearFaults(r, lesser, up) EXCEPT !.data = NoData]
        shown == IF f \in Critical THEN sendStatusUpdate(cleared, up) ELSE r
        active == IF f = CommsError /\ ~tagPresent THEN r
                  ELSE reportFault(shown, f, TRUE, up)
    IN  [active EXCEPT !.faults[f].present = TRUE]

(* setFaultLocked(f, true). *)
SetFault(r, f, up) ==
    LET s == r.faults[f]
        d == Disarmed(r, f)
    IN  IF s.present /\ Idle(s) THEN r
        ELSE IF SetDelay(f) = 0 THEN Activated(d, f, up)
        ELSE Arm(d, f, "set", SetDelay(f))

setFault(r, f, present, up) == IF present THEN SetFault(r, f, up) ELSE ClearFault(r, f, up)

(* The callback reports the end of the fault and forgets to record it. *)
CallbackUnrecorded(r, t, up) ==
    IF t.kind = "set"
    THEN [Activated(r, t.fault, up) EXCEPT !.faults[t.fault].pendingSet = FALSE,
                                           !.faults[t.fault].setTimer = 0]
    ELSE [reportFault(r, t.fault, FALSE, up) EXCEPT !.faults[t.fault].pendingReset = FALSE,
                                                    !.faults[t.fault].resetTimer = 0]

(* The body of a debounce callback. *)
Callback(r, t, up) ==
    IF t.kind = "set"
    THEN [Activated(r, t.fault, up) EXCEPT !.faults[t.fault].pendingSet = FALSE,
                                           !.faults[t.fault].setTimer = 0]
    ELSE [Deactivated(r, t.fault, up) EXCEPT !.faults[t.fault].pendingReset = FALSE,
                                             !.faults[t.fault].resetTimer = 0]

(* parseHardwareFaults: the bits that changed, in order.  The latch, the   *)
(* only critical one, clears the lower faults and forgets the frame before *)
(* the higher ones are looked at.                                          *)
parseHardwareFaults(r, code, previous, up) ==
    LET lower == {f \in Hardware : f < Latch}
        higher == {f \in Hardware : f > Latch}
        some(x, F) == ApplyPlain(x, (code \ previous) \cap F, (previous \ code) \cap F, up)
        low == some(r, lower)
        latched == IF (Latch \in code) = (Latch \in previous) THEN low
                   ELSE setFault(low, Latch, Latch \in code, up)
    IN  some(latched, higher)

updateFaultsFromBatteryData(r, up) ==
    LET parsed == parseHardwareFaults(r, r.data.code, r.previous.code, up)
    IN  IF parsed.previous.zero = parsed.data.zero THEN parsed
        ELSE setFault(parsed, ZeroData, parsed.data.zero, up)

-----------------------------------------------------------------------------
(* The goroutine of the state machine. *)

RedisUp == IF "redis" \in scene.events THEN BOOLEAN ELSE {TRUE}

Between == phase = "idle"

(* noteCommsFailure: a status read or a command was not answered. *)
CommsFailure(up) ==
    LET n == IF failures < MaxFailures THEN failures + 1 ELSE failures
    IN  /\ Between /\ tagPresent
        /\ failures' = n
        /\ reader' = IF n >= MaxFailures THEN SetFault(reader, CommsError, up) ELSE reader
        /\ UNCHANGED <<scene, waiting, batch, phase, sample, raised, tagPresent>>

(* A success resets the counter only. *)
noteCommsSuccessCounting(up) ==
    /\ failures' = 0
    /\ UNCHANGED reader

noteCommsSuccess(up) ==
    /\ failures' = 0
    /\ reader' = ClearFault(reader, CommsError, up)

(* All three status blocks were read. *)
Answer(up) ==
    /\ Between /\ tagPresent
    /\ phase' = "answered"
    /\ noteCommsSuccess(up)
    /\ UNCHANGED <<scene, waiting, batch, sample, raised, tagPresent>>

(* A command was written; OFF forgets the power sample. *)
Written(off, up) ==
    /\ Between /\ tagPresent
    /\ noteCommsSuccess(up)
    /\ sample' = IF off THEN NoSample ELSE sample
    /\ UNCHANGED <<scene, waiting, batch, phase, raised, tagPresent>>

(* parseStatusData, of empty or zero blocks... *)
ParseEmpty(up) ==
    /\ phase = "answered"
    /\ phase' = "idle"
    /\ reader' = SetFault([reader EXCEPT !.data.zero = TRUE], ZeroData, up)
    /\ UNCHANGED <<scene, waiting, batch, sample, failures, raised, tagPresent>>

(* ... and of a frame. *)
Parse(code, state, serial, up) ==
    LET fresh == ClearFault([reader EXCEPT !.data.present = TRUE, !.data.zero = FALSE],
                            ZeroData, up)
    IN  /\ phase = "answered"
        /\ phase' = "parsed"
        /\ reader' = updateFaultsFromBatteryData(
                        [fresh EXCEPT !.data.code = code, !.data.state = state,
                                      !.data.serial = serial], up)
        /\ UNCHANGED <<scene, waiting, batch, sample, failures, raised, tagPresent>>

(* A complete, artifact-free frame with a known power state. *)
Telling(d) == d.present /\ d.valid /\ d.state # "unknown"

(* An active frame ends the fault only while the pack is wanted. *)
ObservedWhenExpected(r, expectedOn, up) ==
    LET d == r.data
        lost == /\ expectedOn /\ sample.state = "active" /\ sample.serial = d.serial
    IN  IF ~Telling(d) \/ ~expectedOn THEN r
        ELSE IF d.state = "active" THEN ClearFault(r, PowerOff, up)
        ELSE IF lost THEN SetFault(r, PowerOff, up) ELSE r

(* observePowerState. *)
Observed(r, expectedOn, up) ==
    LET d == r.data
        lost == /\ expectedOn /\ sample.state = "active" /\ sample.serial = d.serial
    IN  IF ~Telling(d) THEN r
        ELSE IF d.state = "active" THEN ClearFault(r, PowerOff, up)
        ELSE IF lost THEN SetFault(r, PowerOff, up) ELSE r

(* The end of readStatusLocked; a frame that is short or has a substituted *)
(* sensor is published and not valid.                                      *)
Observe(expectedOn, valid, up) ==
    LET d == [reader.data EXCEPT !.valid = valid]
    IN  /\ phase = "parsed"
        /\ phase' = "due"
        /\ sample' = IF ~Telling(d) THEN sample
                     ELSE IF expectedOn THEN [state |-> d.state, serial |-> d.serial]
                     ELSE NoSample
        /\ reader' = Observed([reader EXCEPT !.data = d], expectedOn, up)
        /\ UNCHANGED <<scene, waiting, batch, failures, raised, tagPresent>>

(* sendStatusUpdate, called without faultMu: the changes are collected ... *)
Collect ==
    /\ phase = "due"
    /\ phase' = "collected"
    /\ batch' = updateFaultSetInTransaction(reader)
    /\ UNCHANGED <<scene, reader, waiting, sample, failures, raised, tagPresent>>

(* ... the transaction runs, or fails ... *)
Exec(up) ==
    /\ phase = "collected"
    /\ phase' = IF up THEN "executed" ELSE "idle"
    /\ reader' = IF up THEN Executed(reader, batch) ELSE reader
    /\ batch' = IF up THEN batch ELSE NoBatch
    /\ UNCHANGED <<scene, waiting, sample, failures, raised, tagPresent>>

(* ... and the faults are marked with the state they have by then. *)
Mark ==
    /\ phase = "executed"
    /\ phase' = "idle"
    /\ reader' = Marked(reader, batch)
    /\ batch' = NoBatch
    /\ UNCHANGED <<scene, waiting, sample, failures, raised, tagPresent>>

(* noteTagPresent and the transition into StateTagPresent: another UID     *)
(* forgets the power sample.                                               *)
TagArrived(sameUid) ==
    /\ Between /\ ~tagPresent
    /\ tagPresent' = TRUE
    /\ sample' = IF sameUid THEN sample ELSE NoSample
    /\ UNCHANGED <<scene, reader, waiting, phase, batch, failures, raised>>

(* EvTagDeparted or EvReinit: the pack may still be there. *)
TagLost ==
    /\ Between /\ tagPresent
    /\ tagPresent' = FALSE
    /\ UNCHANGED <<scene, reader, waiting, batch, phase, sample, failures, raised>>

(* handleDeparture, at the end of a quiet search. *)
Departed(up) ==
    LET gone == [reader EXCEPT !.data = NoData]
        packFaults == {f \in Faults : f < ReaderError} \cup {PowerOff}
    IN  /\ Between /\ ~tagPresent
        /\ sample' = NoSample
        /\ reader' = ClearFaults(gone, packFaults, up)
        /\ phase' = "due"
        /\ UNCHANGED <<scene, waiting, batch, failures, raised, tagPresent>>

(* raiseNFCReaderError without its edge trigger. *)
RaiseEveryPass(up) ==
    /\ Between /\ ~tagPresent
    /\ raised' = TRUE
    /\ reader' = SetFault(reader, ReaderError, up)
    /\ UNCHANGED <<scene, waiting, batch, phase, sample, failures, tagPresent>>

(* raiseNFCReaderError, from Deinitialize on every pass of a failing       *)
(* reader.                                                                 *)
Raise(up) ==
    /\ Between /\ ~tagPresent
    /\ raised' = TRUE
    /\ reader' = IF raised THEN reader ELSE SetFault(reader, ReaderError, up)
    /\ UNCHANGED <<scene, waiting, batch, phase, sample, failures, tagPresent>>

(* clearNFCReaderError, from a successful Initialize. *)
Initialized(up) ==
    /\ Between /\ ~tagPresent /\ raised
    /\ raised' = FALSE
    /\ reader' = ClearFault(reader, ReaderError, up)
    /\ UNCHANGED <<scene, waiting, batch, phase, sample, failures, tagPresent>>

-----------------------------------------------------------------------------
(* Timers. *)

Tick ==
    /\ \E t \in reader.timers : t.left > 0
    /\ reader' = [reader EXCEPT !.timers =
                    {[t EXCEPT !.left = IF @ > 0 THEN @ - 1 ELSE 0] : t \in @}]
    /\ UNCHANGED <<scene, waiting, batch, phase, sample, failures, raised, tagPresent>>

Elapsed(t) == t \in reader.timers /\ t.left = 0

Unarmed(t) == [reader EXCEPT !.timers = @ \ {t}]

(* The timer fires and its callback runs at once... *)
Expire(t, up) ==
    /\ Elapsed(t)
    /\ reader' = Callback(Unarmed(t), t, up)
    /\ UNCHANGED <<scene, waiting, batch, phase, sample, failures, raised, tagPresent>>

(* ... or has to wait for faultMu... *)
Fire(t) ==
    /\ scene.late /\ Elapsed(t)
    /\ reader' = Unarmed(t)
    /\ waiting' = waiting \cup {t}
    /\ UNCHANGED <<scene, batch, phase, sample, failures, raised, tagPresent>>

(* ... and runs later. *)
Run(t, up) ==
    /\ t \in waiting
    /\ waiting' = waiting \ {t}
    /\ reader' = Callback(reader, t, up)
    /\ UNCHANGED <<scene, batch, phase, sample, failures, raised, tagPresent>>

-----------------------------------------------------------------------------
Init ==
    /\ scene \in Scenes
    /\ reader = [faults |-> [f \in Faults |-> NoFault], timers |-> {},
                 data |-> NoData, previous |-> NoData,
                 redis |-> [present |-> FALSE, faults |-> {}]]
    /\ waiting = {} /\ phase = "idle" /\ batch = NoBatch /\ overtaken = {}
    /\ sample = NoSample
    /\ failures = 0 /\ raised = FALSE /\ tagPresent = FALSE

FrameStates == IF "power" \in scene.events THEN {"active", "idle"} ELSE {"idle"}

Validity == IF "power" \in scene.events THEN BOOLEAN ELSE {TRUE}

Expected == IF "power" \in scene.events THEN BOOLEAN ELSE {FALSE}

ReaderStep(up) ==
    \/ "comms" \in scene.events /\ CommsFailure(up)
    \/ "read" \in scene.events /\ Answer(up)
    \/ \E off \in BOOLEAN : Written(off, up)
    \/ "empty" \in scene.events /\ ParseEmpty(up)
    \/ \E code \in SUBSET scene.hardware, state \in FrameStates, serial \in Serials :
          Parse(code, state, serial, up)
    \/ \E expectedOn \in Expected, valid \in Validity : Observe(expectedOn, valid, up)
    \/ Departed(up)
    \/ "reader" \in scene.events /\ (Raise(up) \/ Initialized(up))

TimerStep(k) ==
    \E up \in RedisUp : \E t \in Timers(reader) : t.id = k /\ (Expire(t, up) \/ Run(t, up))

PublishStep(up) == Collect \/ Exec(up) \/ Mark

(* Changes in the transaction that are no longer true when it runs. *)
Stale == {f \in batch.add : ~reader.faults[f].present}
         \cup {f \in batch.remove : reader.faults[f].present}

(* A stale change leaves Redis wrong until it is told of the fault again. *)
Remember ==
    LET suspect == overtaken \cup IF phase = "collected" /\ phase' = "executed"
                                  THEN Stale ELSE {}
    IN  overtaken' = {f \in suspect : (f \in reader'.redis.faults) # reader'.faults[f].present}

Next ==
    \/ \E up \in RedisUp :
          Cardinality(Timers(reader)) < MaxTimers /\ ReaderStep(up) /\ Remember
    \/ \E up \in RedisUp : PublishStep(up) /\ Remember
    \/ ((\E sameUid \in BOOLEAN : TagArrived(sameUid)) \/ TagLost) /\ Remember
    \/ \E k \in TimerIds : TimerStep(k) /\ Remember
    \/ \E t \in reader.timers : Fire(t) /\ Remember
    \/ Tick /\ Remember

Due(k) == \E t \in Timers(reader) : t.id = k /\ t.left = 0

(* Time passes, and the runtime runs the callback of every timer that      *)
(* elapses.  A step of timer k ends Due(k), so that it is not due for ever *)
(* is the weak fairness of TimerStep(k), without its ENABLED.              *)
Fairness == WF_vars(Tick /\ Remember) /\ \A k \in TimerIds : []<>~Due(k)

Spec == Init /\ [][Next]_vars /\ Fairness

-----------------------------------------------------------------------------
(* Properties. *)

TimerType == [id: TimerIds, fault: {CommsError, ReaderError},
              kind: {"set", "reset"}, left: Nat]

DataType == [present: BOOLEAN, zero: BOOLEAN, code: SUBSET Hardware,
             state: {"unknown", "active", "idle"}, serial: Serials \cup {"none"},
             valid: BOOLEAN]

FaultType == [present: BOOLEAN, pendingSet: BOOLEAN, pendingReset: BOOLEAN,
              setTimer: TimerIds \cup {0}, resetTimer: TimerIds \cup {0},
              published: BOOLEAN]

(* Type correctness.  Only the communication and the reader fault have     *)
(* timers, and the failures are counted up to the threshold.               *)
TypeOK ==
    /\ scene \in Scenes /\ reader.faults \in [Faults -> FaultType]
    /\ reader.timers \subseteq TimerType /\ waiting \subseteq TimerType
    /\ reader.data \in DataType /\ reader.previous \in DataType
    /\ reader.redis.present \in BOOLEAN /\ reader.redis.faults \subseteq Faults
    /\ phase \in {"idle", "answered", "parsed", "due", "collected", "executed"}
    /\ batch \in [present: BOOLEAN, add: SUBSET Faults, remove: SUBSET Faults]
    /\ overtaken \subseteq Faults
    /\ sample \in [state: {"unknown", "active", "idle"}, serial: Serials \cup {"none"}]
    /\ failures \in 0..MaxFailures /\ raised \in BOOLEAN /\ tagPresent \in BOOLEAN

(* A debounce never gets lost: a fault that is waiting to be set or reset  *)
(* has a timer that will do it, whatever callbacks ran late in between     *)
(* (setFaultLocked, fault.go:84-122).                                      *)
PendingHasTimer ==
    \A f \in Faults :
        LET s == reader.faults[f]
            live(kind) == \E t \in Timers(reader) : t.fault = f /\ t.kind = kind
        IN  (s.pendingSet => live("set")) /\ (s.pendingReset => live("reset"))

(* The fault set in Redis shows the faults the reader knows of, through    *)
(* debounces, late callbacks, critical faults that clear the lesser ones   *)
(* and departures; only a communication fault may still be missing         *)
(* (reportFault, updateFaultSetInTransaction).  Excepted is a fault that a *)
(* callback changed between the collection of the changes and the          *)
(* transaction: Redis then ends with the older change, and keeps it until  *)
(* that fault is reported again, because the flag that would repair it is  *)
(* set to the newer state (battery_status.go:304-325).  Asked while Redis  *)
(* answers.                                                                *)
FaultSetTracks ==
    "redis" \notin scene.events =>
        \A f \in Faults \ overtaken :
            /\ f \in reader.redis.faults => reader.faults[f].present
            /\ reader.faults[f].present /\ f # CommsError => f \in reader.redis.faults

(* A transient error never becomes a fault: a communication fault that is *)
(* waiting to be set means that the last operations failed, as many as the *)
(* threshold asks for, through late callbacks and lost tags                *)
(* (nfc_operations.go:454-463).                                            *)
TransientsIgnored == reader.faults[CommsError].pendingSet => failures = MaxFailures

(* A communication fault is on its way out once the pack has answered: a   *)
(* reset waits for it, whatever critical faults, departures and failures   *)
(* below the threshold came in between.  That is all an answer does: the   *)
(* fault itself stays until the reset has not been started again for its   *)
(* whole debounce (CommsFaultEnds).  Asked of callbacks that do not wait;  *)
(* one that does may set the fault after the answer                        *)
(* (nfc_operations.go:460-479, fault.go:84-122).                           *)
CommsFaultHeals ==
    (~scene.late /\ reader.faults[CommsError].present /\ failures < MaxFailures)
    => reader.faults[CommsError].pendingReset

(* The reset of the communication fault starts, or starts again: every     *)
(* answer, every departure and a reader fault do that (fault.go:85-89).    *)
ResetStarts ==
    \E t \in reader'.timers \ reader.timers :
        t.fault = CommsError /\ t.kind = "reset" /\ t.left = CommsReset

(* A communication fault ends with the failures, provided that the reset   *)
(* gets its time: once the failures stay below the threshold and nothing   *)
(* starts the reset again, the fault is gone for good.  Answers that come  *)
(* more often than the debounce keep it for ever, although a success       *)
(* "clears it" (nfc_operations.go:462, fault.go:85-89, 110-121).           *)
CommsFaultEnds ==
    (~scene.late /\ <>[](failures < MaxFailures) /\ <>[][~ResetStarts]_vars)
    => <>[](~reader.faults[CommsError].present)

(* B36 is over as soon as the pack is known to run: a valid frame that     *)
(* shows it active leaves no "switched off unexpectedly" behind, whatever  *)
(* the role, the vehicle and earlier frames (README.md:45-46).             *)
PowerOffHonest ==
    (phase = "idle" /\ reader.faults[PowerOff].present) =>
        ~(Telling(reader.data) /\ reader.data.state = "active")

(* A reader that stays broken is reported, although its state machine      *)
(* keeps bouncing through Deinitialize (fault.go:169-175).                 *)
ReaderErrorSurfaces == <>[]raised => <>[](reader.faults[ReaderError].present)

-----------------------------------------------------------------------------
(* What a comment of the code promises and the code does not do. *)

(* fault.go:17, "Critical faults cause battery not present", and           *)
(* fault.go:26-28 of the over-temperature latch.                           *)
LatchNotPresent ==
    (phase = "idle" /\ reader.faults[Latch].present) => ~reader.redis.present
=============================================================================
