--------------------------- MODULE SeatboxPolicy ---------------------------
(***************************************************************************)
(* How the seatbox lock, the vehicle state and the settings in Redis       *)
(* become the policy of one battery reader: the Redis subscriber           *)
(* (battery/service.go), the channels of size one between it and the       *)
(* reader (channels.go), and the reader's event loop (reader.go).          *)
(*                                                                         *)
(* Redis publishes the name of a field that changed; the subscriber reads  *)
(* the field's value when it gets to the notice and posts it to the        *)
(* reader, replacing a value the reader has not taken yet.  The reader     *)
(* takes from its channels in any order (a Go select).                     *)
(*                                                                         *)
(* Abstractions.  The voltage of the auxiliary battery is below, inside or *)
(* above the band of the two thresholds, so a reloaded threshold is a      *)
(* change of that position.  The state machine is seen through what it was *)
(* last told to act on.  The counter of empty reads is left out.           *)
(***************************************************************************)
EXTENDS Integers, Sequences

CONSTANTS
    Vehicles,       \* vehicle states
    Roles,          \* the reader's role at start: active or not
    Events,         \* fields that may change, and disturbances
    MaxChanges      \* bound on the changes of fields

Driving == "ready-to-drive"
Standby == "stand-by"
Unset == ""         \* before the first report

Values == [vehicle |-> Vehicles, seatbox |-> BOOLEAN, keep |-> BOOLEAN,
           aux |-> {"low", "band", "normal"}, dual |-> BOOLEAN]

ASSUME VehiclesAssumption == {Driving, Standby} \subseteq Vehicles
ASSUME RolesAssumption == Roles \subseteq BOOLEAN
ASSUME MaxChangesAssumption == MaxChanges \in Nat

VARIABLES
    hash,         \* the fields in Redis
    notices,      \* published, not yet handled by the subscriber
    subscribed,   \* the subscription is established
    config,       \* keep-active setting and the aux-low latch
    chan,         \* vehicleStateChan, seatboxLockChan, enabledChan, keepActiveChan
    reader,       \* the BatteryReader, with restartChan
    loop,         \* how far the event loop has come
    changes,      \* fields changed so far
    history       \* what has happened: missed, a value went unread or
                  \* unannounced; switched, the role changed; bounced, the
                  \* seatbox opened during the present ride, latched closed

vars == <<hash, notices, subscribed, config, chan, reader, loop, changes, history>>

Missing(up) == IF up THEN history ELSE [history EXCEPT !.missed = TRUE]

KeepActive == config.keep \/ config.auxLow

Up == IF "redis" \in Events THEN BOOLEAN ELSE {TRUE}

-----------------------------------------------------------------------------
(* The reader. *)

(* Leaving the ready-to-drive state with the seatbox open is forgotten. *)
handleVehicleStateHeld(r, state) ==
    [r EXCEPT !.vehicle = state, !.got = @ \cup {"vehicle"}]

handleVehicleStateChange(r, state) ==
    LET unwinds == /\ r.vehicle = Driving /\ state # Driving
                   /\ ~r.raw /\ r.latch
    IN  [r EXCEPT !.vehicle = state, !.got = @ \cup {"vehicle"},
                  !.latch = @ /\ ~unwinds,
                  !.restart = @ \/ (unwinds /\ r.tag)]

(* While driving only a closing report updates the latch. *)
nextLatchedSeatboxClosed(state, latch, closed) ==
    IF state # Driving \/ (closed /\ ~latch) THEN closed ELSE latch

(* Every slot follows the seatbox. *)
handleSeatboxAnyRole(r, closed) ==
    LET latch == nextLatchedSeatboxClosed(r.vehicle, r.latch, closed)
        enabled == KeepActive \/ latch
    IN  [r EXCEPT !.raw = closed, !.latch = latch, !.enabled = enabled,
                  !.got = @ \cup {"seatbox"}, !.told = <<latch, enabled>>]

(* A changed latch is an event of the state machine; a changed enabled     *)
(* alone needs a restart to be acted on.                                   *)
handleSeatboxLockChange(r, closed) ==
    LET latch == nextLatchedSeatboxClosed(r.vehicle, r.latch, closed)
        enabled == IF r.active THEN KeepActive \/ latch ELSE r.enabled
        changed == latch # r.latch
    IN  [r EXCEPT !.raw = closed, !.latch = latch, !.enabled = enabled,
                  !.got = @ \cup {"seatbox"},
                  !.restart = @ \/ (enabled # r.enabled /\ ~changed /\ r.tag),
                  !.told = IF changed THEN <<latch, enabled>> ELSE @]

(* The next heartbeat is to notice. *)
handleEnabledQuietly(r, enabled) == [r EXCEPT !.enabled = enabled]

handleEnabledChange(r, enabled) ==
    [r EXCEPT !.enabled = enabled,
              !.restart = @ \/ (enabled # r.enabled /\ r.tag)]

(* Only a restart applies the keep-active policy. *)
handleKeepActiveIgnored(r) == r

handleKeepActiveChange(r) ==
    IF r.active THEN handleSeatboxLockChange(r, r.raw) ELSE r

(* handleRestart: the state machine walks to cond_seatbox_lock, where it   *)
(* reads latch and enabled; without a tag it gets there on arrival.        *)
handleRestart(r) ==
    [r EXCEPT !.restart = FALSE,
              !.told = IF r.tag THEN <<r.latch, r.enabled>> ELSE @]

ReaderSteps == UNCHANGED <<hash, notices, subscribed, config, changes>>

(* fetchInitialRedisState, before the loop. *)
FetchVehicle(up) ==
    /\ loop = "vehicle" /\ loop' = "seatbox"
    /\ reader' = IF up THEN handleVehicleStateChange(reader, hash.vehicle) ELSE reader
    /\ history' = Missing(up)
    /\ ReaderSteps /\ UNCHANGED chan

FetchSeatbox(up) ==
    /\ loop = "seatbox" /\ loop' = "run"
    /\ reader' = IF up THEN handleSeatboxLockChange(reader, hash.seatbox) ELSE reader
    /\ history' = Missing(up)
    /\ ReaderSteps /\ UNCHANGED chan

(* run: one case of the select. *)
Take(kind, value) ==
    /\ loop = "run" /\ value \in chan[kind]
    /\ chan' = [chan EXCEPT ![kind] = {}]
    /\ UNCHANGED <<loop, history>> /\ ReaderSteps

TakeVehicle == \E v \in Vehicles :
    Take("vehicle", v) /\ reader' = handleVehicleStateChange(reader, v)

TakeSeatbox == \E closed \in BOOLEAN :
    Take("seatbox", closed) /\ reader' = handleSeatboxLockChange(reader, closed)

TakeEnabled == \E enabled \in BOOLEAN :
    Take("enabled", enabled) /\ reader' = handleEnabledChange(reader, enabled)

TakeKeepActive == Take("keep", TRUE) /\ reader' = handleKeepActiveChange(reader)

TakeRestart ==
    /\ loop = "run" /\ reader.restart
    /\ reader' = handleRestart(reader)
    /\ UNCHANGED <<chan, loop, history>> /\ ReaderSteps

(* The state machine finds a tag and walks to cond_seatbox_lock; it starts *)
(* with EvInitComplete (checkInitComplete).                                *)
TagArrives ==
    /\ "tag" \in Events /\ ~reader.tag /\ reader.got = {"vehicle", "seatbox"}
    /\ reader' = [reader EXCEPT !.tag = TRUE, !.told = <<reader.latch, reader.enabled>>]
    /\ UNCHANGED <<chan, loop, history>> /\ ReaderSteps

TagDeparts ==
    /\ "tag" \in Events /\ reader.tag
    /\ reader' = [reader EXCEPT !.tag = FALSE]
    /\ UNCHANGED <<chan, loop, history>> /\ ReaderSteps

-----------------------------------------------------------------------------
(* The Redis subscriber.  tryUpdateChannel replaces what is in a channel.  *)

Subscribe ==
    /\ ~subscribed /\ subscribed' = TRUE
    /\ UNCHANGED <<hash, notices, config, chan, reader, loop, changes, history>>

Handles(field) == notices # <<>> /\ Head(notices) = field /\ notices' = Tail(notices)

ServiceSteps == UNCHANGED <<hash, subscribed, loop, changes>>

(* The field could not be read: the notice is lost. *)
HandleNothing ==
    /\ FALSE \in Up /\ notices # <<>> /\ notices' = Tail(notices)
    /\ history' = Missing(FALSE)
    /\ ServiceSteps /\ UNCHANGED <<config, chan, reader>>

handleVehicleStateMessage ==
    /\ Handles("vehicle")
    /\ chan' = [chan EXCEPT !.vehicle = {hash.vehicle}]
    /\ ServiceSteps /\ UNCHANGED <<config, reader, history>>

(* A value that was not taken yet stays in the channel. *)
handleSeatboxUpdateQueueing ==
    /\ Handles("seatbox")
    /\ chan' = [chan EXCEPT !.seatbox = @ \cup {hash.seatbox}]
    /\ ServiceSteps /\ UNCHANGED <<config, reader, history>>

handleSeatboxUpdate ==
    /\ Handles("seatbox")
    /\ chan' = [chan EXCEPT !.seatbox = {hash.seatbox}]
    /\ ServiceSteps /\ UNCHANGED <<config, reader, history>>

(* refreshKeepActiveReaders, when the policy changed. *)
Refreshed(changed) ==
    [chan EXCEPT !.keep = IF changed /\ reader.active THEN {TRUE} ELSE @]

reloadKeepActive ==
    /\ Handles("keep")
    /\ config' = [config EXCEPT !.keep = hash.keep]
    /\ chan' = Refreshed(hash.keep # config.keep)
    /\ ServiceSteps /\ UNCHANGED <<reader, history>>

(* auxLowKeepActiveLatch: without history the first reading is judged      *)
(* against the exit threshold.                                             *)
auxLowKeepActiveLatch(was, haveHistory, aux) ==
    IF was \/ ~haveHistory THEN aux # "normal" ELSE aux = "low"

recomputeAuxLowKeepActive ==
    LET engaged == auxLowKeepActiveLatch(config.auxLow, config.evaluated, hash.aux)
    IN  /\ Handles("aux")
        /\ config' = [config EXCEPT !.auxLow = engaged, !.evaluated = TRUE]
        /\ chan' = Refreshed(engaged # config.auxLow)
        /\ ServiceSteps /\ UNCHANGED <<reader, history>>

(* The slot's new role; a slot that becomes active is enabled by the raw   *)
(* seatbox lock.                                                           *)
handleDualBatterySettingChange(up) ==
    LET changed == hash.dual # reader.active
        posted == IF ~hash.dual THEN {FALSE}
                  ELSE IF KeepActive THEN {TRUE}
                  ELSE IF up THEN {hash.seatbox} ELSE chan.enabled
    IN  /\ Handles("dual")
        /\ reader' = IF changed THEN [reader EXCEPT !.active = hash.dual, !.restart = TRUE]
                                ELSE reader
        /\ chan' = IF changed THEN [chan EXCEPT !.enabled = posted] ELSE chan
        /\ history' = [history EXCEPT !.switched = @ \/ changed]
        /\ ServiceSteps /\ UNCHANGED config

-----------------------------------------------------------------------------
(* Other services write a field and publish its name.  Nobody hears it     *)
(* before the subscription.                                                *)
Change(field) ==
    \E v \in Values[field] \ {hash[field]} :
        /\ changes < MaxChanges /\ changes' = changes + 1
        /\ hash' = [hash EXCEPT ![field] = v]
        /\ notices' = IF subscribed THEN Append(notices, field) ELSE notices
        /\ history' =
              [history EXCEPT
                !.missed = @ \/ ~subscribed,
                !.bounced = IF field \notin {"vehicle", "seatbox"} THEN @
                            ELSE /\ hash.vehicle = Driving /\ reader.latch
                                 /\ field = "seatbox" /\ ~hash'.seatbox]
        /\ UNCHANGED <<subscribed, config, chan, reader, loop>>

NewReader(active) ==
    [vehicle |-> Unset, raw |-> FALSE, latch |-> FALSE, enabled |-> active, active |-> active,
     got |-> {}, tag |-> FALSE, restart |-> FALSE, told |-> <<FALSE, FALSE>>]

(* NewService, the settings and loadInitialVehicleState, which posts the   *)
(* first values.                                                           *)
Init ==
    /\ hash \in [vehicle: Vehicles, seatbox: BOOLEAN, keep: BOOLEAN, aux: Values.aux,
                 dual: Roles]
    /\ notices = <<>> /\ subscribed = ("startup" \notin Events)
    /\ \E evaluated \in BOOLEAN :      \* the aux voltage was there, or is not yet
          config = [keep |-> hash.keep, evaluated |-> evaluated,
                    auxLow |-> evaluated /\ auxLowKeepActiveLatch(FALSE, FALSE, hash.aux)]
    /\ \E up \in Up :
          /\ history = [missed |-> ~up, switched |-> FALSE, bounced |-> FALSE]
          /\ chan = [vehicle |-> {IF up THEN hash.vehicle ELSE Standby},
                     seatbox |-> {IF up THEN hash.seatbox ELSE TRUE},
                     enabled |-> {}, keep |-> {}]
    /\ reader = NewReader(hash.dual)
    /\ loop = "vehicle" /\ changes = 0

ReaderNext ==
    \/ \E up \in Up : FetchVehicle(up) \/ FetchSeatbox(up)
    \/ TakeVehicle \/ TakeSeatbox \/ TakeEnabled \/ TakeKeepActive \/ TakeRestart
    \/ TagArrives \/ TagDeparts

ServiceNext ==
    \/ Subscribe
    \/ HandleNothing
    \/ handleVehicleStateMessage \/ handleSeatboxUpdate
    \/ reloadKeepActive \/ recomputeAuxLowKeepActive
    \/ \E up \in Up : handleDualBatterySettingChange(up)

Next == ReaderNext \/ ServiceNext \/ \E field \in Events \cap DOMAIN Values : Change(field)

Spec == Init /\ [][Next]_vars

-----------------------------------------------------------------------------
(* Properties.  Everything posted has been taken: *)
Drained ==
    /\ subscribed /\ notices = <<>> /\ loop = "run"
    /\ \A kind \in DOMAIN chan : chan[kind] = {}
    /\ ~reader.restart

(* Type correctness; a channel never holds more than one value.            *)
TypeOK ==
    /\ hash \in [vehicle: Vehicles, seatbox: BOOLEAN, keep: BOOLEAN,
                 aux: {"low", "band", "normal"}, dual: BOOLEAN]
    /\ notices \in Seq(DOMAIN Values) /\ subscribed \in BOOLEAN
    /\ config \in [keep: BOOLEAN, auxLow: BOOLEAN, evaluated: BOOLEAN]
    /\ chan \in [vehicle: {{}} \cup {{v} : v \in Vehicles},
                 seatbox: {{}, {TRUE}, {FALSE}}, enabled: {{}, {TRUE}, {FALSE}},
                 keep: {{}, {TRUE}}]
    /\ reader \in [vehicle: Vehicles \cup {Unset}, raw: BOOLEAN, latch: BOOLEAN,
                   enabled: BOOLEAN, active: BOOLEAN, got: SUBSET {"vehicle", "seatbox"},
                   tag: BOOLEAN, restart: BOOLEAN, told: BOOLEAN \X BOOLEAN]
    /\ loop \in {"vehicle", "seatbox", "run"} /\ changes \in 0..MaxChanges
    /\ history \in [missed: BOOLEAN, switched: BOOLEAN, bounced: BOOLEAN]

(* Outside a ride the latch that gates battery power is the lock: whatever *)
(* order the reader takes lock and vehicle reports in, and whichever of    *)
(* them replace each other, an opening that a ride had hidden is not       *)
(* forgotten when it ends (reader.go:188-194).  A value that Redis did not *)
(* return or announce may be missed.                                       *)
LatchTracksSensor ==
    (Drained /\ ~history.missed /\ hash.vehicle # Driving) => reader.latch = hash.seatbox

(* An active slot is enabled whenever the seatbox or the keep-active       *)
(* policy wants it, although the setting, the aux voltage and the lock     *)
(* arrive on different channels and some are missed (service.go:411-412,   *)
(* 679).  Once the role has changed, the value posted with the new role    *)
(* may overwrite a newer one.                                              *)
EnabledFollowsPolicy ==
    (Drained /\ ~history.switched /\ reader.active /\ (KeepActive \/ reader.latch))
    => reader.enabled

(* An inactive slot is disabled, however seatbox reports and role changes  *)
(* overtake each other (service.go:673-675).                               *)
InactiveStaysDisabled == (Drained /\ ~reader.active) => ~reader.enabled

(* No change of latch or enabled stays unknown to the state machine while  *)
(* a pack is present: an event or a restart carries each of them           *)
(* (reader.go:210, 232).                                                   *)
PolicyReachesFSM == (Drained /\ reader.tag) => reader.told = <<reader.latch, reader.enabled>>

(* reader.go:189-191, "While ready-to-drive an opening report is ignored   *)
(* [...] so a latch-sensor bounce on a rough road can't cut 48V to the     *)
(* motor mid-ride": an opening during the ride leaves a latch that was     *)
(* closed as it is.                                                        *)
DriveLatchHolds == (Drained /\ history.bounced) => reader.latch
=============================================================================
