----------------------------- MODULE ReaderFSM -----------------------------
(***************************************************************************)
(* The state machine of one battery reader (battery/fsm/state_machine.go)  *)
(* with the operations it calls: discovery, status reads and commands over *)
(* NFC (actions.go, nfc_operations.go, discovery.go), the freshness of the *)
(* tag (battery_status.go) and the suspend inhibitor                       *)
(* (battery_commands.go).                                                  *)
(*                                                                         *)
(* The machine handles one event at a time; an action below is one event   *)
(* in one set of leaf states, with everything the handler does on the way  *)
(* to the next leaf: exit, the transition's action, enter, and the         *)
(* condition states it passes.  Besides the machine there are the poll     *)
(* loop of tag_absent, the presence check of check_presence, the timers,   *)
(* which only queue events, the reader's event loop and the service.       *)
(*                                                                         *)
(* The library librefsm is external: it queues events, exits and enters    *)
(* states along the hierarchy, enters a state again when a child makes a   *)
(* transition to it (state_machine.go:795), and does nothing but the       *)
(* action when a leaf makes a transition to itself (:756).                 *)
(*                                                                         *)
(* Abstractions.  A timer is armed or not and may fire at any time, unless *)
(* the code's durations forbid it (TimerFires, HeartbeatFires).  Asleep    *)
(* and idle are "inactive".  justOpened only chooses a delay and is left   *)
(* out.  The activation gate is what it answers (PackAdmission): it admits *)
(* an ON, refuses it, asks for a corrective OFF or asks for one and defers *)
(* it, and holds a reservation or not.                                     *)
(***************************************************************************)
EXTENDS Integers, Sequences

CONSTANTS
    Scenes,         \* situations: what may happen, and how often
    MaxFailures,    \* maxConsecutiveReadFailures
    MaxQueue        \* bound: others add events while fewer are queued

(* What may become of an NFC operation.  "ok": it succeeds and the frame   *)
(* has moved; "same": the frame has not moved; "older" and "oldest": the   *)
(* tag still holds a frame from an earlier time; "zero": nothing could be  *)
(* decoded; "ignored": the pack does not obey; "transient": an error that  *)
(* is only counted; "garbled": so does discovery; "departed": RF           *)
(* deactivation; "missing": discovery finds no tag; "hal": the controller  *)
(* fails; "hal2": and fails again when discovery is stopped; "stuck": only *)
(* that fails; "dropped": the event with the result is lost.               *)
Outcomes == {"ok", "same", "older", "oldest", "zero", "ignored", "transient", "garbled",
             "departed", "missing", "hal", "hal2", "stuck", "dropped"}

HAL == {"hal", "hal2"}
NoSearch == HAL \cup {"garbled"}
Failures == HAL \cup {"departed", "missing", "transient", "garbled"}

Discovering == {"wait_arrival", "tag_absent"}
Heartbeat == {"send_closed", "send_on_off", "wait_update", "send_inserted_closed"}
OpenLoop == {"send_opened", "send_inserted_open"}
TagPresent == Heartbeat \cup OpenLoop
              \cup {"check_presence", "wait_last_cmd", "send_off", "read_off_status"}
Leaves == {"init", "nfc_reader_off"} \cup Discovering \cup TagPresent

(* The event that the timer of a leaf sends. *)
Timeouts ==
    [nfc_reader_off |-> "reinit", wait_arrival |-> "departure_timeout",
     tag_absent |-> "check_reader_timeout", check_presence |-> "check_presence_timeout",
     wait_last_cmd |-> "last_cmd_timeout", send_closed |-> "closed_timeout",
     send_on_off |-> "on_off_timeout", send_inserted_closed |-> "inserted_closed_timeout",
     send_off |-> "off_timeout", read_off_status |-> "off_retry",
     send_opened |-> "opened_timeout", send_inserted_open |-> "inserted_open_timeout"]

SceneEvents == {"seatbox", "keep", "gate", "bay", "drop", "redis", "critical", "demand",
                "rounds"}

ASSUME BoundsAssumption == MaxFailures \in Nat \ {0} /\ MaxQueue \in Nat \ {0}
ASSUME ScenesAssumption ==
    \A s \in Scenes : /\ "ok" \in s.outcomes /\ s.outcomes \subseteq Outcomes
                      /\ s.events \subseteq SceneEvents /\ s.roles \subseteq BOOLEAN
                      /\ s.faults \in Nat /\ s.changes \in Nat

VARIABLES
    scene,      \* what may happen in this behaviour
    reader,     \* the machine and the BatteryReader, with the bay it faces
    policy,     \* role, seatbox latch, keep-active, enabled, the gate's answer
    changes     \* changes of the surroundings so far

vars == <<scene, reader, policy, changes>>

(* zero: the blocks could not be decoded, and fault 33 is active.  dated   *)
(* is history: the data are from before the tag was found again.           *)
NoData == [present |-> FALSE, state |-> "unknown", empty |-> FALSE, zero |-> FALSE,
           dated |-> FALSE]

-----------------------------------------------------------------------------
(* Operations of the reader.  Each takes the reader and returns it as the  *)
(* Go method leaves it; a is the outcome of its NFC operation.             *)

(* F of r; TLC computes r once, and not wherever F mentions it. *)
Once(F(_), r) == [s \in {r} |-> F(s)][r]

Send(r, e) == [r EXCEPT !.queue = Append(@, e)]

(* The suspend inhibitor of the reader: there is one, whoever takes it.    *)
(* Without an answer of pm-service the work goes on unprotected, which is  *)
(* as if it had been released.                                             *)
takeInhibitor(r) == [r EXCEPT !.inhibitor = TRUE]
releaseInhibitor(r) == [r EXCEPT !.inhibitor = FALSE]

(* An empty bay answers nothing, nor does a tag that was selected before   *)
(* the pack was taken out or exchanged.                                    *)
Answer(r, a) ==
    IF a \in HAL THEN a
    ELSE IF r.tags = "none" THEN IF r.bay.in \/ a = "garbled" THEN a ELSE "missing"
    ELSE IF r.tags = "lost" \/ ~r.bay.in \/ a = "missing" THEN "departed" ELSE a

Spend(r, a) == IF Answer(r, a) = Answer(r, "ok") THEN r ELSE [r EXCEPT !.spent = @ + 1]

(* startDiscovery: a new search, nothing selected. *)
startDiscovery(r, a) ==
    LET s == [r EXCEPT !.tags = "none", !.quiet = FALSE, !.unsure = FALSE, !.noise = FALSE]
    IN  IF a \in HAL THEN Send([s EXCEPT !.spent = @ + 1], "reinit")
        ELSE IF a \in NoSearch THEN [s EXCEPT !.spent = @ + 1] ELSE s

(* noteTagPresent and armConfirmRead: a tag with another UID is unconfirmed. *)
noteTagPresent(r) ==
    LET s == [r EXCEPT !.seen = TRUE, !.tags = "selected"]
    IN  IF r.bay.known THEN s
        ELSE [s EXCEPT !.bay.known = TRUE, !.fresh = "new", !.early = TRUE, !.reserved = TRUE]

(* discoverBatteryTag, and whether it finds the tag. *)
Finds(r, x) == r.tags # "none" \/ x \notin HAL \cup {"missing", "garbled"}

discoverBatteryTag(r, x) ==
    LET s == [r EXCEPT !.quiet = FALSE, !.unsure = FALSE, !.noise = FALSE]
    IN  IF r.tags # "none" THEN r
        ELSE IF x \in HAL THEN Send(s, "reinit")
        ELSE IF x = "missing" THEN Send(s, "tag_departed")
        ELSE IF x = "garbled" THEN s
        ELSE noteTagPresent(s)

(* handleNFCError. *)
handleNFCError(r, x) ==
    CASE x = "departed" -> Send([r EXCEPT !.tags = "none"], "tag_departed")
      [] x \in HAL -> Send(r, "reinit")
      [] OTHER -> r

(* noteFrameFreshness: the first frame, then one that differs from it. *)
noteFrameFreshness(r, same) ==
    LET unchanged == IF r.fresh = "framed" THEN same /\ r.data.present ELSE ~r.data.present
    IN  IF r.fresh = "confirmed" THEN r
        ELSE IF r.fresh = "new"
        THEN [r EXCEPT !.fresh = IF r.data.present THEN "framed" ELSE "blank"]
        ELSE IF unchanged THEN [r EXCEPT !.early = TRUE]
        ELSE [r EXCEPT !.fresh = "confirmed", !.early = FALSE]

sendStatusUpdate(r, same) ==
    LET s == noteFrameFreshness(r, same)
    IN  [s EXCEPT !.shown = IF r.redis THEN r.data.present ELSE @]

(* What a pack that does not run may have left on a tag that it has not    *)
(* written to since: it was running, or its charge was another.            *)
OldFrame(bay, x) ==
    [present |-> TRUE, state |-> IF x = "older" THEN "active" ELSE "inactive",
     empty |-> x = "oldest" /\ ~bay.empty, zero |-> FALSE, dated |-> FALSE]

Unwritten(r, x) ==
    /\ x \in {"older", "oldest"} /\ r.bay.state = "inactive"
    /\ \/ r.fresh = "new"
       \/ r.fresh = "framed" /\ [r.data EXCEPT !.dated = FALSE] = OldFrame(r.bay, x)

Frame(r, x) ==
    IF x = "zero" THEN [NoData EXCEPT !.zero = TRUE]
    ELSE IF Unwritten(r, x) THEN OldFrame(r.bay, x)
    ELSE [present |-> TRUE, state |-> r.bay.state, empty |-> r.bay.empty, zero |-> FALSE,
          dated |-> FALSE]

(* The end of a read.  What cannot be decoded is a critical fault, which   *)
(* empties the data; while it is active another one changes nothing.       *)
parseStatusData(r, x) ==
    LET frame == Frame(r, x)
    IN  IF x = "zero" /\ r.data.zero THEN r
        ELSE sendStatusUpdate([r EXCEPT !.data = frame,
                                        !.reserved = @ \/ frame.state = "active"],
                              x = "same" \/ Unwritten(r, x))

(* readStatusLocked: discovery, three verified blocks, publication. *)
readStatusLocked(r, a) ==
    LET x == Answer(r, a)
        found == discoverBatteryTag(Spend(r, a), x)
    IN  IF ~Finds(r, x) THEN found
        ELSE IF x \in Failures THEN handleNFCError(found, x)
        ELSE parseStatusData(found, x)

readStatus(r, a) == Once(LAMBDA s : readStatusLocked(s, a), r)

ReadFails(r, a) == Answer(r, a) \in Failures

(* The pack (external): it obeys, but an empty one does not start. *)
Obeyed(bay, cmd) ==
    IF cmd = "on" /\ ~bay.empty THEN [bay EXCEPT !.state = "active"]
    ELSE IF cmd \in {"off", "corrective"} THEN [bay EXCEPT !.state = "inactive"] ELSE bay

(* admitCommandPolicy: the gate refuses an ON, or defers a corrective OFF. *)
Denied(cmd) ==
    (cmd = "on" /\ policy.gate # "open") \/ (cmd = "corrective" /\ policy.gate = "defer")

(* The inhibitor is given up only when the write was tried. *)
writeCommandKeeping(r, cmd, a) ==
    LET x == Answer(r, a)
        found == discoverBatteryTag(Spend(r, a), x)
    IN  IF ~Finds(r, x) \/ Denied(cmd)
        THEN [found EXCEPT !.inhibitor = TRUE]
        ELSE [handleNFCError(found, x) EXCEPT !.inhibitor = FALSE, !.tags = "none"]

(* writeCommand: discovery, the inhibitor, the gate, the write, and        *)
(* stopDiscovery, which a command that is denied leaves out.  The deferred *)
(* release gives up the inhibitor of whoever took it.                      *)
Commanded(r, cmd, a) ==
    LET x == Answer(r, a)
        found == discoverBatteryTag(Spend(r, a), x)
        stopped(s) == IF x \in {"hal2", "stuck"} THEN Send(s, "reinit") ELSE s
        done == [releaseInhibitor(handleNFCError(found, x)) EXCEPT !.tags = "none",
                   !.reserved = @ \/ cmd = "on",
                   !.bay = IF x \in Failures \cup {"ignored"} THEN @
                           ELSE Obeyed(@, cmd)]
    IN  IF ~Finds(r, x) THEN stopped(found)
        ELSE IF Denied(cmd) THEN releaseInhibitor(found)
        ELSE stopped(done)

writeCommand(r, cmd, a) == Once(LAMBDA s : Commanded(s, cmd, a), r)

(* handleDeparture, for a bay that was found empty. *)
handleDeparture(r) ==
    sendStatusUpdate([r EXCEPT !.seen = FALSE, !.tags = "none", !.bay.known = FALSE,
                               !.fresh = "confirmed", !.early = FALSE, !.data = NoData], FALSE)

(* What Redis was last told does not count. *)
hasCachedBatterySeen(r) == r.seen \/ r.data.present

hasCachedBattery(r) == r.seen \/ r.data.present \/ r.shown

(* FinishDiscovery: only a search that was quiet throughout, and a last    *)
(* receive that is quiet too, say that the pack is gone.                   *)
FinishDiscovery(r, a) ==
    IF ~r.quiet \/ r.unsure \/ ~hasCachedBattery(r) THEN r
    ELSE IF a = "ok" /\ ~r.bay.in THEN handleDeparture(r)
    ELSE IF a = "missing" /\ r.bay.in THEN handleDeparture([r EXCEPT !.spent = @ + 1])
    ELSE [r EXCEPT !.unsure = TRUE, !.noise = TRUE,
                   !.spent = IF r.bay.in THEN @ ELSE @ + 1]

-----------------------------------------------------------------------------
(* What the machine asks the reader. *)

KeepActive == policy.active /\ policy.keep

(* An isolated pack is sent ON like any other. *)
ShouldSendOnIsolated(r) == policy.enabled /\ ~r.data.empty

ShouldSendOn(r) ==
    policy.enabled /\ ~r.data.empty /\ policy.gate \notin {"isolate", "defer"}

(* WriteCommand: an OFF to a pack that would be wanted is a corrective one. *)
OnOrOff(r) ==
    IF ShouldSendOn(r) THEN "on"
    ELSE IF policy.enabled /\ ~r.data.empty THEN "corrective" ELSE "off"

IsInactive(r) == r.data.state # "active"

CheckStateCorrect(r) ==
    IF policy.enabled /\ ~r.data.empty
    THEN r.data.state = "active" \/ (~r.reserved /\ r.data.state = "inactive")
    ELSE r.data.state = "inactive"

-----------------------------------------------------------------------------
(* The states.  Leave exits the leaf and its parents below tag_present;    *)
(* LeaveTag exits tag_present as well.                                     *)

Leave(r) ==
    [r EXCEPT !.timer = FALSE, !.poll = FALSE, !.probe = FALSE, !.assumed = FALSE,
              !.heartbeat = @ /\ r.state \notin Heartbeat,
              !.inhibitor = @ /\ r.state \notin Heartbeat \cup Discovering]

LeaveTag(r) == [Leave(r) EXCEPT !.pending = @ /\ r.state \notin TagPresent]

Enter(r, leaf) == [r EXCEPT !.state = leaf, !.timer = TRUE]

(* nfc_reader_off: Deinitialize. *)
EnterReaderOff(r) == [Enter(r, "nfc_reader_off") EXCEPT !.heartbeat = FALSE]

(* discover_tag, that is wait_arrival: a failure to start is only logged.  *)
EnterDiscover(r, a) == startDiscovery(takeInhibitor(Enter(r, "wait_arrival")), a)

(* nfc_reader_on: Initialize, then discover_tag whatever came of it. *)
EnterReaderOn(r, a, b) ==
    EnterDiscover(IF a \in HAL THEN Send([r EXCEPT !.spent = @ + 1], "reinit") ELSE r, b)

(* tag_absent: without a search there is no poll loop. *)
EnterTagAbsent(r, a) ==
    LET s == startDiscovery(Enter(r, "tag_absent"), a)
    IN  IF a \in NoSearch THEN Send(s, "reinit") ELSE [s EXCEPT !.poll = TRUE]

EnterWaitLastCmd(r) == [Enter(r, "wait_last_cmd") EXCEPT !.heartbeat = FALSE]

(* tag_present, that is cond_check_presence: a readable tag goes on, any   *)
(* other is woken and probed.                                              *)
EnterTagPresent(r, a, b) ==
    LET s == releaseInhibitor(readStatus(takeInhibitor(r), a))
    IN  IF ~ReadFails(r, a) THEN EnterWaitLastCmd([s EXCEPT !.failures = 0])
        ELSE writeCommand([Enter(s, "check_presence") EXCEPT !.probe = TRUE], "inserted", b)

EnterSendClosed(r, a) == writeCommand(Enter(r, "send_closed"), "closed", a)

(* The heartbeat's timer is armed only once. *)
EnterHeartbeatUntimed(r, a) == EnterSendClosed(takeInhibitor(r), a)

(* heartbeat, heartbeat_actions and send_closed. *)
EnterHeartbeat(r, a) ==
    EnterSendClosed(takeInhibitor([r EXCEPT !.heartbeat = TRUE]), a)

EnterSendOff(r, a) == writeCommand(Enter(r, "send_off"), "off", a)

EnterSendOpened(r, a) == writeCommand(Enter(r, "send_opened"), "opened", a)

(* cond_just_inserted and cond_off: a pack that is not known to run is     *)
(* taken for inactive, without a frame or on one from before the tag was   *)
(* found again.                                                            *)
CondJustInserted(r, a) ==
    IF KeepActive /\ ~IsInactive(r) THEN EnterHeartbeat([r EXCEPT !.inserted = FALSE], a)
    ELSE IF r.inserted /\ IsInactive(r)
    THEN [EnterSendOpened(r, a) EXCEPT !.assumed = r.data.state = "unknown" \/ r.data.dated]
    ELSE EnterSendOff(r, a)

(* cond_seatbox_lock. *)
CondSeatboxLock(r, a) ==
    IF policy.closed THEN EnterHeartbeat([r EXCEPT !.inserted = FALSE], a)
    ELSE CondJustInserted(releaseInhibitor(r), a)

(* An empty pack loses the heartbeat and is reported idle. *)
StopTimerIfBatteryEmpty(r) ==
    IF ~r.data.empty THEN r
    ELSE sendStatusUpdate([r EXCEPT !.heartbeat = FALSE, !.data.state = "inactive"],
                          r.data.state = "inactive")

(* A prompt counts only when it arrives in wait_update. *)
EnterWaitUpdateForgetful(r) ==
    releaseInhibitor(StopTimerIfBatteryEmpty([Enter(r, "wait_update") EXCEPT !.timer = FALSE]))

(* wait_update: the leaf has no timer of its own, and a prompt that came   *)
(* meanwhile is taken up.                                                  *)
EnterWaitUpdate(r) ==
    LET s == StopTimerIfBatteryEmpty([Enter(r, "wait_update") EXCEPT !.timer = FALSE])
        idle == releaseInhibitor(s)
    IN  IF idle.pending THEN Send(idle, "admission_poll") ELSE idle

(* cond_state_ok. *)
CondStateOK(r, a) ==
    IF ~CheckStateCorrect(r)
    THEN writeCommand(Enter(r, "send_inserted_closed"), "inserted", a)
    ELSE LET stopped == [r EXCEPT !.tags = "none"]
         IN  EnterWaitUpdate(IF a \notin HAL THEN stopped
                             ELSE Send([stopped EXCEPT !.spent = @ + 1], "reinit"))

(* The failures are counted on after a restart. *)
readStatusActionCounting(r, a) ==
    LET s == readStatus(r, a)
    IN  IF ~ReadFails(r, a) THEN [s EXCEPT !.failures = 0]
        ELSE IF r.failures + 1 >= MaxFailures THEN Send([s EXCEPT !.failures = @ + 1], "restart")
        ELSE [s EXCEPT !.failures = @ + 1]

(* readStatusAction: the last of MaxFailures failures restarts. *)
readStatusAction(r, a) ==
    LET s == readStatus(r, a)
    IN  IF ~ReadFails(r, a) THEN [s EXCEPT !.failures = 0]
        ELSE IF r.failures + 1 >= MaxFailures THEN Send([s EXCEPT !.failures = 0], "restart")
        ELSE [s EXCEPT !.failures = @ + 1]

(* Any answer confirms the OFF. *)
EnterReadOffStatusTrusting(r, a) ==
    LET s == readStatus(Enter(r, "read_off_status"), a)
    IN  Send(s, IF ReadFails(r, a) THEN "off_retry" ELSE "off_confirmed_inactive")

(* ReadFreshOffState: s is the reader after the read. *)
FreshlyInactive(r, s, a) ==
    ~ReadFails(r, a) /\ Answer(r, a) # "zero" /\ s.data.state = "inactive"

(* read_off_status: only a fresh frame that shows the pack inactive        *)
(* confirms the OFF.                                                       *)
EnterReadOffStatus(r, a) ==
    LET s == readStatus(Enter(r, "read_off_status"), a)
        result == IF FreshlyInactive(r, s, a) THEN "off_confirmed_inactive" ELSE "off_retry"
    IN  IF a = "dropped" THEN s ELSE Send(s, result)

-----------------------------------------------------------------------------
(* The machine takes the event at the head of its queue. *)

Receives(e, leaves) ==
    reader.queue # <<>> /\ Head(reader.queue) = e /\ reader.state \in leaves

Taken == [reader EXCEPT !.queue = Tail(@)]

Becomes(r) == \E s \in {r} : reader' = s /\ s.spent <= scene.faults

InitComplete(a, b) ==
    Receives("init_complete", {"init"}) /\ Becomes(EnterReaderOn(Taken, a, b))

(* EvReinit: the controller is switched off, and on again. *)
Reinit(a, b) ==
    \/ /\ Receives("reinit", {"nfc_reader_off"})
       /\ Becomes(EnterReaderOn(Leave(Taken), a, b))
    \/ /\ Receives("reinit", Discovering \cup TagPresent)
       /\ Becomes(EnterReaderOff(LeaveTag(Taken)))

(* EvTagArrived; one that comes late starts the discovery again. *)
TagArrived(a, b) ==
    \/ /\ Receives("tag_arrived", Discovering)
       /\ Becomes(EnterTagPresent([Leave(Taken) EXCEPT !.inserted = TRUE, !.data.dated = TRUE],
                                  a, b))
    \/ /\ Receives("tag_arrived", TagPresent)
       /\ Becomes(EnterDiscover(LeaveTag(Taken), a))

TagDeparted(a) ==
    \/ /\ Receives("tag_departed", {"wait_arrival"})
       /\ Becomes(EnterTagAbsent(Leave(Taken), a))
    \/ /\ Receives("tag_departed", TagPresent)
       /\ Becomes(EnterDiscover(LeaveTag(Taken), a))

(* EvRestart; tag_absent only starts its search again. *)
Restart(a, b) ==
    \/ /\ Receives("restart", TagPresent \ {"check_presence"})
       /\ Becomes(EnterTagPresent(LeaveTag(Taken), a, b))
    \/ /\ Receives("restart", {"tag_absent"})
       /\ LET s == startDiscovery(Taken, a)
          IN  Becomes(IF a \in NoSearch THEN Send(s, "reinit") ELSE s)

SeatboxClosed ==
    /\ Receives("seatbox_closed", TagPresent \ {"wait_last_cmd"})
    /\ Becomes(EnterWaitLastCmd(Leave(Taken)))

SeatboxOpened(a) ==
    /\ Receives("seatbox_opened", Heartbeat) /\ ~KeepActive
    /\ Becomes(CondJustInserted(Leave(Taken), a))

(* A pack in the wrong state is searched for again. *)
HeartbeatTimeout(a) ==
    /\ Receives("heartbeat_timeout", Heartbeat)
    /\ LET s == Leave(Taken)
           lost == reader.state = "wait_update" /\ ~CheckStateCorrect(reader)
       IN  Becomes(EnterHeartbeat(IF lost THEN Send(s, "tag_departed") ELSE s, a))

(* The prompt is answered when the flag is still set. *)
AdmissionPoll(a) ==
    /\ Receives("admission_poll", {"wait_update"}) /\ reader.pending
    /\ Becomes(EnterHeartbeat([Leave(Taken) EXCEPT !.pending = FALSE], a))

DepartureTimeout(a) ==
    /\ Receives("departure_timeout", {"wait_arrival"})
    /\ Becomes(EnterTagAbsent(Leave(Taken), a))

(* The result of a receive that was cancelled is forgotten. *)
CancelledForgotten(r, c) == r

(* pollForTagArrival, when the receive in progress is cancelled: it cannot *)
(* be counted as silence.                                                  *)
Cancelled(r, c) ==
    IF c = "quiet" THEN r
    ELSE [r EXCEPT !.unsure = TRUE, !.noise = TRUE,
                   !.spent = IF r.bay.in THEN @ ELSE @ + 1]

(* The watchdog of a search: the poll loop is cancelled before the search  *)
(* is judged.                                                              *)
CheckReaderTimeout(a, c) ==
    /\ Receives("check_reader_timeout", {"tag_absent"})
    /\ c # "quiet" => reader.poll
    /\ LET s == Cancelled(Leave(Taken), c)
           heard == IF c = "quiet" THEN s ELSE [s EXCEPT !.noise = TRUE]
       IN  Becomes(EnterReaderOff(FinishDiscovery(heard, a)))

CheckPresenceEnds(a, b) ==
    /\ Receives("check_presence_timeout", {"check_presence"})
       \/ Receives("check_presence_ready", {"check_presence"})
    /\ Becomes(EnterTagPresent(Leave(Taken), a, b))

LastCmdTimeout(a) ==
    /\ Receives("last_cmd_timeout", {"wait_last_cmd"})
    /\ Becomes(CondSeatboxLock(Leave(Taken), a))

ClosedTimeout(a) ==
    /\ Receives("closed_timeout", {"send_closed"})
    /\ Becomes(writeCommand(Enter(Taken, "send_on_off"), OnOrOff(reader), a))

OnOffTimeout(a, b) ==
    /\ Receives("on_off_timeout", {"send_on_off"})
    /\ Becomes(CondStateOK(readStatusAction(Taken, a), b))

InsertedClosedTimeout(a) ==
    /\ Receives("inserted_closed_timeout", {"send_inserted_closed"})
    /\ Becomes(EnterSendClosed(Taken, a))

OffTimeout(a) ==
    /\ Receives("off_timeout", {"send_off"})
    /\ Becomes(EnterReadOffStatus(Taken, a))

OffConfirmedInactive(a) ==
    /\ Receives("off_confirmed_inactive", {"read_off_status"})
    /\ Becomes(EnterSendOpened(Taken, a))

OffRetry(a) ==
    /\ Receives("off_retry", {"read_off_status"})
    /\ Becomes(EnterSendOff(Taken, a))

OpenedTimeout(a) ==
    /\ Receives("opened_timeout", {"send_opened"})
    /\ Becomes(writeCommand(Enter(Taken, "send_inserted_open"), "inserted", a))

(* With keep-active the woken pack goes on to the heartbeat. *)
InsertedOpenTimeout(a, b) ==
    /\ Receives("inserted_open_timeout", {"send_inserted_open"})
    /\ LET s == readStatusAction([Taken EXCEPT !.inserted = FALSE], a)
       IN  Becomes(IF KeepActive THEN EnterHeartbeat(Leave(s), b) ELSE EnterSendOpened(s, b))

(* The leaves where an event has a transition. *)
Accepting(e) ==
    CASE e = "init_complete" -> {"init"}
      [] e = "reinit" -> Leaves \ {"init"}
      [] e = "tag_arrived" -> Discovering \cup TagPresent
      [] e = "tag_departed" -> TagPresent \cup {"wait_arrival"}
      [] e = "restart" -> (TagPresent \cup {"tag_absent"}) \ {"check_presence"}
      [] e = "seatbox_closed" -> TagPresent \ {"wait_last_cmd"}
      [] e = "seatbox_opened" -> IF KeepActive THEN {} ELSE Heartbeat
      [] e = "heartbeat_timeout" -> Heartbeat
      [] e = "admission_poll" -> IF reader.pending THEN {"wait_update"} ELSE {}
      [] e = "check_presence_ready" -> {"check_presence"}
      [] e = "off_confirmed_inactive" -> {"read_off_status"}
      [] OTHER -> {leaf \in DOMAIN Timeouts : Timeouts[leaf] = e}

(* Any other event is dropped. *)
Ignore ==
    /\ reader.queue # <<>> /\ reader.state \notin Accepting(Head(reader.queue))
    /\ Becomes(Taken)

Machine(outcomes) ==
    \/ SeatboxClosed \/ Ignore
    \/ \E a \in outcomes :
          \/ TagDeparted(a) \/ SeatboxOpened(a) \/ HeartbeatTimeout(a) \/ AdmissionPoll(a)
          \/ DepartureTimeout(a) \/ LastCmdTimeout(a) \/ ClosedTimeout(a)
          \/ InsertedClosedTimeout(a) \/ OffTimeout(a) \/ OffConfirmedInactive(a)
          \/ OffRetry(a) \/ OpenedTimeout(a)
          \/ \E c \in {"quiet", "heard"} : CheckReaderTimeout(a, c)
          \/ \E b \in outcomes :
                \/ InitComplete(a, b) \/ Reinit(a, b) \/ TagArrived(a, b) \/ Restart(a, b)
                \/ CheckPresenceEnds(a, b) \/ OnOffTimeout(a, b) \/ InsertedOpenTimeout(a, b)

-----------------------------------------------------------------------------
(* The other goroutines of the reader. *)

Spends(r, n) == Becomes([r EXCEPT !.spent = @ + n])

(* The timer of the leaf.  The watchdog of a search, ten seconds, comes    *)
(* after at least one receive of a quarter of a second.                    *)
TimerDue == reader.timer /\ (reader.poll => reader.quiet \/ reader.unsure)

TimerFires ==
    /\ TimerDue
    /\ Becomes(Send([reader EXCEPT !.timer = FALSE], Timeouts[reader.state]))

(* The heartbeat's timer and the early read.  A cycle takes a second, so   *)
(* one of three or forty that ends within it is a disturbance.             *)
Soon == IF reader.state \in Heartbeat \ {"wait_update"} THEN 1 ELSE 0

Affordable == reader.spent + Soon <= scene.faults

HeartbeatFires ==
    /\ reader.heartbeat
    /\ Spends(Send([reader EXCEPT !.heartbeat = FALSE], "heartbeat_timeout"), Soon)

EarlyReadFires ==
    /\ reader.early
    /\ Spends(Send([reader EXCEPT !.early = FALSE], "heartbeat_timeout"), Soon)

Queued == {reader.queue[k] : k \in DOMAIN reader.queue}

(* One receive of the poll loop (processTagArrivalPoll): silence, a tag,   *)
(* a HAL error, which ends the loop, or something that is neither.         *)
PollForTagArrival(outcomes) ==
    \E a \in outcomes \cap {"ok", "missing", "transient", "hal"} :
        LET heard == [reader EXCEPT !.unsure = TRUE, !.noise = TRUE]
            cost == (IF a = "ok" THEN 0 ELSE 1)
                    + (IF Queued \subseteq {"admission_poll"} THEN 0 ELSE 1)
        IN  /\ reader.poll
            /\ CASE a = "hal" -> Spends(Send([heard EXCEPT !.poll = FALSE], "reinit"), cost)
                 [] a = "transient" -> Spends(heard, cost)
                 [] a = "ok" /\ reader.bay.in ->
                       Spends(Send(noteTagPresent(heard), "tag_arrived"), cost)
                 [] OTHER -> Spends([reader EXCEPT !.quiet = TRUE],
                                    IF reader.bay.in THEN cost ELSE 0)

(* One read of the presence check. *)
PollPresence(outcomes) ==
    \E a \in outcomes :
        /\ reader.probe /\ Len(reader.queue) < MaxQueue
        /\ LET s == readStatus(reader, a)
           IN  Becomes(IF ReadFails(reader, a) THEN s
                       ELSE Send([s EXCEPT !.probe = FALSE], "check_presence_ready"))

-----------------------------------------------------------------------------
(* The reader's event loop, the service, the gate, and the world. *)

Changes(kind) ==
    /\ kind \in scene.events /\ changes < scene.changes /\ changes' = changes + 1
    /\ UNCHANGED scene

Quietly == UNCHANGED <<scene, changes>>

Room == Len(reader.queue) < MaxQueue

Enabled(p) == p.active /\ (p.keep \/ p.closed)

(* handleSeatboxLockChange, outside a ride. *)
SeatboxLockChange ==
    LET p == [policy EXCEPT !.closed = ~@]
    IN  /\ Changes("seatbox") /\ Room
        /\ policy' = [p EXCEPT !.enabled = Enabled(p)]
        /\ reader' = Send(reader, IF p.closed THEN "seatbox_closed" ELSE "seatbox_opened")

(* The setting is in force before the reader's event loop hears of it. *)
KeepActiveSetting ==
    /\ Changes("keep") /\ policy.active
    /\ policy' = [policy EXCEPT !.keep = ~@, !.notified = TRUE]
    /\ UNCHANGED reader

KeepActiveChange ==
    LET enabled == Enabled(policy)
    IN  /\ policy.notified
        /\ policy' = [policy EXCEPT !.notified = FALSE, !.enabled = enabled,
                        !.restart = @ \/ (enabled # policy.enabled /\ reader.state \in TagPresent)]
        /\ UNCHANGED reader /\ Quietly

(* handleRestart. *)
HandleRestart ==
    /\ policy.restart
    /\ policy' = [policy EXCEPT !.restart = FALSE]
    /\ reader' = IF reader.state \in TagPresent \ {"check_presence"}
                 THEN Send(reader, "restart") ELSE reader
    /\ Quietly

Answers == {"open", "refuse", "isolate", "defer"}

(* The gate begins to admit the pack, to refuse it, to isolate it or, when *)
(* it has lost sight of the survivor, to defer the OFF.                    *)
GateAnswers(answer) ==
    /\ Changes("gate") /\ policy' = [policy EXCEPT !.gate = answer]
    /\ UNCHANGED reader

(* The read that ends a cycle will show the pack inactive, in a frame that *)
(* has moved long enough after the last command: the gate releases its     *)
(* reservation, and waiting() is true.                                     *)
GateObserves ==
    /\ reader.reserved /\ reader.state = "send_on_off" /\ reader.bay.state = "inactive"
    /\ reader' = [reader EXCEPT !.reserved = FALSE]

(* SendEvent of a sampling prompt (DriveStart): a flag keeps it, in case   *)
(* the queue is full.                                                      *)
prompted(r) ==
    LET s == [r EXCEPT !.pending = TRUE]
    IN  IF Len(r.queue) < MaxQueue THEN Send(s, "admission_poll") ELSE s

(* A pack is put in or taken out, which needs an open seatbox; one that is *)
(* put in is the same again or another, and not running.                   *)
BayChanges ==
    /\ Changes("bay") /\ ~policy.closed
    /\ \E empty, same \in BOOLEAN :
          reader' = [reader EXCEPT
                     !.tags = IF @ = "selected" THEN "lost" ELSE @,
                     !.bay =
                       IF @.in THEN [@ EXCEPT !.in = FALSE, !.state = "inactive"]
                       ELSE [in |-> TRUE, state |-> "inactive",
                             empty |-> IF same THEN @.empty ELSE empty,
                             known |-> @.known /\ same]]
    /\ UNCHANGED policy

(* The pack switches itself off, or is drained. *)
PackDrops ==
    /\ Changes("drop") /\ reader.bay.state = "active"
    /\ \E empty \in BOOLEAN :
          reader' = [reader EXCEPT !.bay.state = "inactive", !.bay.empty = empty]
    /\ UNCHANGED policy

RedisFails ==
    /\ Changes("redis") /\ reader.redis
    /\ reader' = [reader EXCEPT !.redis = FALSE]
    /\ UNCHANGED policy

RedisReturns ==
    /\ ~reader.redis /\ reader' = [reader EXCEPT !.redis = TRUE]
    /\ UNCHANGED policy /\ Quietly

(* sendNotPresent, from the timer of a critical fault. *)
CriticalFault ==
    /\ Changes("critical") /\ reader.state # "init"
    /\ reader' = sendStatusUpdate([reader EXCEPT !.data = NoData], FALSE)
    /\ UNCHANGED policy

-----------------------------------------------------------------------------
NewReader(bay) ==
    [state |-> "init", timer |-> FALSE, queue |-> <<"init_complete">>, inserted |-> FALSE,
     failures |-> 0, pending |-> FALSE, heartbeat |-> FALSE, inhibitor |-> FALSE,
     poll |-> FALSE, probe |-> FALSE, tags |-> "none", quiet |-> FALSE, unsure |-> FALSE,
     noise |-> FALSE, seen |-> FALSE, fresh |-> "confirmed", early |-> FALSE,
     data |-> NoData, shown |-> FALSE, redis |-> TRUE, assumed |-> FALSE, spent |-> 0,
     reserved |-> TRUE,
     bay |-> bay]

Bays == {b \in [in: BOOLEAN, state: {"active", "inactive"}, empty: BOOLEAN, known: {FALSE}] :
            /\ ~b.in => b.state = "inactive" /\ ~b.empty
            /\ b.empty => b.state = "inactive"}

Init ==
    /\ scene \in Scenes /\ changes = 0
    /\ \E bay \in Bays \cap scene.bays : reader = NewReader(bay)
    /\ \E role \in scene.roles, closed \in BOOLEAN :
          policy = [active |-> role, closed |-> closed, keep |-> FALSE,
                    enabled |-> role /\ closed, notified |-> FALSE, restart |-> FALSE,
                    gate |-> "open"]

Internal(A) == A /\ UNCHANGED <<scene, policy, changes>>

World ==
    \/ SeatboxLockChange \/ KeepActiveSetting \/ BayChanges \/ PackDrops \/ RedisFails
    \/ CriticalFault
    \/ \E answer \in Answers \ {policy.gate} : GateAnswers(answer)

Threads(outcomes) ==
    \/ Machine(outcomes) \/ PollForTagArrival(outcomes) \/ PollPresence(outcomes)
    \/ TimerFires \/ HeartbeatFires \/ EarlyReadFires \/ GateObserves

Next ==
    \/ Internal(Threads(scene.outcomes))
    \/ KeepActiveChange \/ HandleRestart \/ RedisReturns
    \/ World

(* Goroutines and timers are not held up forever, and Redis comes back.    *)
(* Only finitely many operations fail, so fairness of a goroutine is       *)
(* fairness of its steps in which none does.  A timer that fires is no     *)
(* longer due, and a channel that is taken is empty: for such a step weak  *)
(* fairness says that it is again and again not to be taken.               *)
Fairness ==
    /\ WF_vars(Internal(Machine({"ok"})))
    /\ WF_vars(Internal(PollForTagArrival({"ok"})))
    /\ WF_vars(Internal(PollPresence({"ok"})))
    /\ []<>~TimerDue
    /\ []<>~(reader.heartbeat /\ Affordable) /\ []<>~(reader.early /\ Affordable)
    /\ []<>~policy.notified /\ []<>~policy.restart /\ []<>reader.redis

Spec == Init /\ [][Next]_vars /\ Fairness

-----------------------------------------------------------------------------
(* Properties. *)

ReaderEvents ==
    {"init_complete", "reinit", "tag_arrived", "tag_departed", "restart", "seatbox_closed",
     "seatbox_opened", "heartbeat_timeout", "admission_poll", "check_presence_ready",
     "off_confirmed_inactive"} \cup {Timeouts[leaf] : leaf \in DOMAIN Timeouts}

(* Type correctness.  A leaf without a timeout has no timer. *)
TypeOK ==
    /\ scene \in Scenes /\ changes \in 0..scene.changes
    /\ reader.state \in Leaves /\ reader.queue \in Seq(ReaderEvents)
    /\ reader.timer => reader.state \in DOMAIN Timeouts
    /\ reader.poll => reader.state = "tag_absent"
    /\ reader.probe => reader.state = "check_presence"
    /\ reader.failures \in 0..(MaxFailures - 1) /\ reader.spent \in 0..scene.faults
    /\ \A flag \in {"timer", "inserted", "pending", "heartbeat", "inhibitor", "poll",
                    "probe", "quiet", "unsure", "noise", "seen", "early", "shown",
                    "redis", "assumed", "reserved"} : reader[flag] \in BOOLEAN
    /\ reader.tags \in {"none", "selected", "lost"}
    /\ reader.fresh \in {"confirmed", "new", "framed", "blank"}
    /\ reader.data \in [present: BOOLEAN, state: {"unknown", "active", "inactive"},
                        empty: BOOLEAN, zero: BOOLEAN, dated: BOOLEAN]
    /\ reader.bay \in [in: BOOLEAN, state: {"active", "inactive"}, empty: BOOLEAN,
                       known: BOOLEAN]
    /\ policy \in [active: BOOLEAN, closed: BOOLEAN, keep: BOOLEAN, enabled: BOOLEAN,
                   notified: BOOLEAN, restart: BOOLEAN,
                   gate: Answers]

(* README.md:74-79: presence, identity and measurements are cleared only   *)
(* after a search that was quiet throughout, to the last receive and the   *)
(* one that the watchdog cancelled.                                        *)
DepartureNeedsQuietSearch ==
    [][reader.seen /\ ~reader'.seen => reader'.quiet /\ ~reader'.noise]_vars

Settled == reader.queue = <<>>

(* README.md:87, "recovery does not hold a permanent suspend inhibitor":   *)
(* whatever path led there, only wait_arrival and the heartbeat's command  *)
(* cycle, which lasts a second, may hold one once all events are handled.  *)
InhibitorReleased ==
    (Settled /\ reader.inhibitor)
    => reader.state \in {"wait_arrival"} \cup (Heartbeat \ {"wait_update"})

RestsEmpty == reader.state = "wait_update" /\ (reader.data.empty \/ reader.bay.empty)

(* The machine never waits for nothing: in every leaf a timer is armed or  *)
(* an event queued, and the poll loop of tag_absent runs or the reader is  *)
(* about to be switched off.  An empty pack rests without a heartbeat.     *)
SomethingPending ==
    \/ reader.queue # <<>> \/ reader.timer
    \/ reader.state \in Heartbeat /\ (reader.heartbeat \/ reader.early)
    \/ RestsEmpty

(* In the open loop the pack is off, unless cond_off took it for off when  *)
(* nothing told of it: its first frame could not be decoded, or the tag    *)
(* was found again, its reads failed, and the seatbox moved, so that       *)
(* seatbox_closed led past the presence check with data from before        *)
(* (state_machine.go:752).                                                 *)
OpenLoopOff ==
    (reader.state \in OpenLoop /\ ~KeepActive /\ reader.bay.state = "active")
    => reader.assumed \/ ~Settled

WantedOn == policy.enabled /\ policy.gate = "open" /\ ~reader.data.empty /\ ~reader.bay.empty
WantedOff == ~policy.enabled \/ policy.gate = "isolate"

(* Once failures and changes stop, the pack in the bay is switched as the  *)
(* policy and the gate want it.  A corrective OFF that the gate keeps      *)
(* deferring is not wanted yet, an empty pack does not start, and a pack   *)
(* that cond_off took for off (see OpenLoopOff) keeps running: the open    *)
(* loop sends no OFF.                                                      *)
PowerConverges ==
    <>[](reader.bay.in =>
           /\ WantedOn => reader.bay.state = "active"
           /\ WantedOff => reader.bay.state = "inactive" \/ reader.assumed)

(* And Redis shows whether a pack is in the bay: "Failed Redis publication *)
(* is retried after a subsequent quiet search" (README.md:79). *)
PresenceConverges == <>[](reader.shown = reader.bay.in \/ RestsEmpty)
=============================================================================
