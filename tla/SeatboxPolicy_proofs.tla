------------------------ MODULE SeatboxPolicy_proofs ------------------------
(***************************************************************************)
(* Proofs about the seatbox lock, the vehicle state and the settings on    *)
(* their way to a reader.                                                  *)
(*                                                                         *)
(* The inductive invariant follows a value through its stations: as long   *)
(* as nothing was missed, the reader's copy of a field is that of Redis,   *)
(* or the channel holds it, or a notice that will fetch it is queued.      *)
(* What the channels overtake is then settled by what each handler leaves  *)
(* behind: the latch never hides a closed lock and outside a ride is the   *)
(* lock, enabled is at least what the policy wants or a refresh is posted, *)
(* and what the state machine was not told waits behind a restart.         *)
(***************************************************************************)
EXTENDS SeatboxPolicy, TLAPS

Announced(field) == \E i \in 1..Len(notices) : notices[i] = field

(* The value v of a field, on its way to the reader's copy. *)
OnItsWay(field, v, channel, copy) ==
    Announced(field) \/ channel = {v} \/ (channel = {} /\ copy = v)

FieldsArrive ==
    ~history.missed => /\ OnItsWay("vehicle", hash.vehicle, chan.vehicle, reader.vehicle)
                       /\ OnItsWay("seatbox", hash.seatbox, chan.seatbox, reader.raw)

(* The latch, against the lock the reader last heard of. *)
LatchSound(r) ==
    (r.raw => r.latch) /\ (r.vehicle # Driving => (r.latch => r.raw))

EnabledSound ==
    (~history.switched /\ reader.active) =>
        /\ chan.enabled = {}
        /\ KeepActive \/ reader.latch => reader.enabled \/ chan.keep = {TRUE}

DisabledSound ==
    ~reader.active => chan.enabled = {FALSE} \/ (chan.enabled = {} /\ ~reader.enabled)

ToldSound(r) == (r.tag /\ ~r.restart) => r.told = <<r.latch, r.enabled>>

IInv == /\ TypeOK /\ FieldsArrive /\ LatchSound(reader) /\ EnabledSound
        /\ DisabledSound /\ ToldSound(reader)

HashType == [vehicle: Vehicles, seatbox: BOOLEAN, keep: BOOLEAN,
             aux: {"low", "band", "normal"}, dual: BOOLEAN]

ConfigType == [keep: BOOLEAN, auxLow: BOOLEAN, evaluated: BOOLEAN]

ChanType == [vehicle: {{}} \cup {{v} : v \in Vehicles},
             seatbox: {{}, {TRUE}, {FALSE}}, enabled: {{}, {TRUE}, {FALSE}},
             keep: {{}, {TRUE}}]

ReaderType == [vehicle: Vehicles \cup {Unset}, raw: BOOLEAN, latch: BOOLEAN,
               enabled: BOOLEAN, active: BOOLEAN, got: SUBSET {"vehicle", "seatbox"},
               tag: BOOLEAN, restart: BOOLEAN, told: BOOLEAN \X BOOLEAN]

HistoryType == [missed: BOOLEAN, switched: BOOLEAN, bounced: BOOLEAN]

(* The types have names. *)
LEMMA Types ==
    TypeOK <=> /\ hash \in HashType /\ notices \in Seq(DOMAIN Values)
               /\ subscribed \in BOOLEAN /\ config \in ConfigType /\ chan \in ChanType
               /\ reader \in ReaderType /\ loop \in {"vehicle", "seatbox", "run"}
               /\ changes \in 0..MaxChanges /\ history \in HistoryType
BY DEF TypeOK, HashType, ConfigType, ChanType, ReaderType, HistoryType

(* The fields in Redis, and their values. *)
LEMMA FieldValues ==
    /\ DOMAIN Values = {"vehicle", "seatbox", "keep", "aux", "dual"}
    /\ Values["vehicle"] = Vehicles /\ Values["seatbox"] = BOOLEAN
    /\ Values["keep"] = BOOLEAN /\ Values["aux"] = {"low", "band", "normal"}
    /\ Values["dual"] = BOOLEAN
BY DEF Values

-----------------------------------------------------------------------------
(* What the handlers of the reader do. *)

(* A vehicle report only ever opens the latch, at the end of a ride. *)
LEMMA VehicleHandled ==
    ASSUME NEW r \in ReaderType, NEW v \in Vehicles, LatchSound(r), ToldSound(r),
           NEW q, q = handleVehicleStateChange(r, v)
    PROVE  /\ q \in ReaderType /\ LatchSound(q) /\ ToldSound(q)
           /\ q.vehicle = v /\ q.raw = r.raw /\ q.active = r.active
           /\ q.enabled = r.enabled /\ (q.latch => r.latch)
<1> DEFINE unwinds == r.vehicle = Driving /\ v # Driving /\ ~r.raw /\ r.latch
<1>1. /\ q.vehicle = v /\ q.raw = r.raw /\ q.active = r.active /\ q.enabled = r.enabled
      /\ q.latch = (r.latch /\ ~unwinds) /\ q.tag = r.tag /\ q.told = r.told
      /\ q.restart = (r.restart \/ (unwinds /\ r.tag)) /\ q \in ReaderType
    BY ZenonT(60) DEF handleVehicleStateChange, ReaderType
<1>2. LatchSound(q)
    BY <1>1 DEF LatchSound
<1>3. ToldSound(q)
    BY <1>1 DEF ToldSound, ReaderType
<1> QED
    BY <1>1, <1>2, <1>3

(* A seatbox report, or the refresh of the keep-active policy, leaves an   *)
(* active slot enabled as the policy wants it.                             *)
LEMMA SeatboxHandled ==
    ASSUME NEW r \in ReaderType, NEW closed \in BOOLEAN, LatchSound(r), ToldSound(r),
           config \in ConfigType, NEW q, q = handleSeatboxLockChange(r, closed)
    PROVE  /\ q \in ReaderType /\ LatchSound(q) /\ ToldSound(q)
           /\ q.vehicle = r.vehicle /\ q.raw = closed /\ q.active = r.active
           /\ r.active => (KeepActive \/ q.latch => q.enabled)
           /\ ~r.active => q.enabled = r.enabled
<1> DEFINE latch == nextLatchedSeatboxClosed(r.vehicle, r.latch, closed)
           enabled == IF r.active THEN KeepActive \/ latch ELSE r.enabled
           changed == latch # r.latch
<1>1. latch \in BOOLEAN /\ enabled \in BOOLEAN
    BY DEF nextLatchedSeatboxClosed, KeepActive, ReaderType, ConfigType
<1>2. q = [r EXCEPT !.raw = closed, !.latch = latch, !.enabled = enabled,
                    !.got = @ \cup {"seatbox"},
                    !.restart = @ \/ (enabled # r.enabled /\ ~changed /\ r.tag),
                    !.told = IF changed THEN <<latch, enabled>> ELSE @]
    BY DEF handleSeatboxLockChange
<1>3. /\ closed => latch
      /\ r.vehicle # Driving => (latch => closed)
    BY DEF LatchSound, nextLatchedSeatboxClosed, ReaderType
<1>4. r.active => (KeepActive \/ latch => enabled)
    OBVIOUS
<1>5. ~r.active => enabled = r.enabled
    OBVIOUS
<1> DEFINE restart == r.restart \/ (enabled # r.enabled /\ ~changed /\ r.tag)
           told == IF changed THEN <<latch, enabled>> ELSE r.told
<1> HIDE DEF latch, enabled
<1>6. restart \in BOOLEAN /\ told \in BOOLEAN \X BOOLEAN
    BY <1>1 DEF ReaderType
<1>7. /\ q.vehicle = r.vehicle /\ q.raw = closed /\ q.active = r.active
      /\ q.latch = latch /\ q.enabled = enabled /\ q.tag = r.tag
      /\ q.restart = restart /\ q.told = told /\ q \in ReaderType
    <2>1. q = [r EXCEPT !.raw = closed, !.latch = latch, !.enabled = enabled,
                        !.got = @ \cup {"seatbox"}, !.restart = restart, !.told = told]
        BY <1>2 DEF ReaderType
    <2> HIDE DEF restart, told
    <2> QED
        BY <1>1, <1>6, <2>1, ZenonT(60) DEF ReaderType
<1>8. LatchSound(q)
    BY <1>3, <1>7 DEF LatchSound
<1>9. ToldSound(q)
    BY <1>1, <1>7 DEF ToldSound, ReaderType
<1> QED
    BY <1>4, <1>5, <1>7, <1>8, <1>9

(* A new enabled is told with a restart. *)
LEMMA EnabledHandled ==
    ASSUME NEW r \in ReaderType, NEW b \in BOOLEAN, LatchSound(r), ToldSound(r),
           NEW q, q = handleEnabledChange(r, b)
    PROVE  /\ q \in ReaderType /\ LatchSound(q) /\ ToldSound(q)
           /\ q.vehicle = r.vehicle /\ q.raw = r.raw /\ q.active = r.active
           /\ q.enabled = b /\ q.latch = r.latch
<1>1. /\ q \in ReaderType
      /\ q.vehicle = r.vehicle /\ q.raw = r.raw /\ q.active = r.active
      /\ q.enabled = b /\ q.latch = r.latch /\ q.tag = r.tag /\ q.told = r.told
      /\ q.restart = (r.restart \/ (b # r.enabled /\ r.tag))
    BY ZenonT(60) DEF handleEnabledChange, ReaderType
<1>2. LatchSound(q) /\ ToldSound(q)
    BY <1>1 DEF LatchSound, ToldSound, ReaderType
<1> QED
    BY <1>1, <1>2

(* What a restart, a tag or its loss leaves of the reader. *)
LEMMA TagHandled ==
    ASSUME NEW r \in ReaderType, LatchSound(r), ToldSound(r),
           NEW q, q \in {handleRestart(r), [r EXCEPT !.tag = FALSE],
                         [r EXCEPT !.tag = TRUE, !.told = <<r.latch, r.enabled>>]}
    PROVE  /\ q \in ReaderType /\ LatchSound(q) /\ ToldSound(q)
           /\ q.vehicle = r.vehicle /\ q.raw = r.raw /\ q.active = r.active
           /\ q.enabled = r.enabled /\ q.latch = r.latch
<1>1. CASE q = handleRestart(r)
    BY <1>1 DEF handleRestart, LatchSound, ToldSound, ReaderType
<1>2. CASE q = [r EXCEPT !.tag = FALSE]
    BY <1>2 DEF LatchSound, ToldSound, ReaderType
<1>3. CASE q = [r EXCEPT !.tag = TRUE, !.told = <<r.latch, r.enabled>>]
    BY <1>3 DEF LatchSound, ToldSound, ReaderType
<1> QED
    BY <1>1, <1>2, <1>3

-----------------------------------------------------------------------------
(* The steps of the reader. *)

(* The parts of the invariant, for a step of the reader. *)
LEMMA ReaderKeeps ==
    ASSUME IInv, ReaderSteps, reader' \in ReaderType, LatchSound(reader'),
           ToldSound(reader'), chan' \in ChanType, loop' \in {"vehicle", "seatbox", "run"},
           history' \in HistoryType, FieldsArrive', EnabledSound', DisabledSound'
    PROVE  IInv'
<1>1. /\ hash \in HashType /\ notices \in Seq(DOMAIN Values) /\ subscribed \in BOOLEAN
      /\ config \in ConfigType /\ changes \in 0..MaxChanges
    BY Types DEF IInv
<1>2. TypeOK'
    <2>1. /\ hash' \in HashType /\ notices' \in Seq(DOMAIN Values) /\ subscribed' \in BOOLEAN
          /\ config' \in ConfigType /\ changes' \in 0..MaxChanges
        BY <1>1 DEF ReaderSteps
    <2> QED
        BY <2>1 DEF TypeOK, HashType, ConfigType, ChanType, ReaderType, HistoryType
<1>3. LatchSound(reader)' /\ ToldSound(reader)'
    BY DEF LatchSound, ToldSound
<1> QED
    BY <1>2, <1>3 DEF IInv

(* What the invariant gives to every step. *)
LEMMA InvGives ==
    ASSUME IInv
    PROVE  /\ hash \in HashType /\ config \in ConfigType /\ chan \in ChanType
           /\ reader \in ReaderType /\ loop \in {"vehicle", "seatbox", "run"}
           /\ history \in HistoryType /\ LatchSound(reader) /\ ToldSound(reader)
           /\ FieldsArrive /\ EnabledSound /\ DisabledSound
           /\ notices \in Seq(DOMAIN Values) /\ subscribed \in BOOLEAN
           /\ changes \in 0..MaxChanges
BY Types DEF IInv

(* The first values, fetched before the loop. *)
LEMMA FetchVehicleInv ==
    ASSUME IInv, NEW up \in BOOLEAN, FetchVehicle(up)
    PROVE  IInv'
<1>1. /\ loop' = "seatbox" /\ UNCHANGED chan /\ ReaderSteps
      /\ reader' = IF up THEN handleVehicleStateChange(reader, hash.vehicle) ELSE reader
      /\ history' = IF up THEN history ELSE [history EXCEPT !.missed = TRUE]
    BY DEF FetchVehicle, Missing
<1>2. hash.vehicle \in Vehicles
    BY InvGives DEF HashType
<1>3. /\ reader' \in ReaderType /\ LatchSound(reader') /\ ToldSound(reader')
      /\ up => reader'.vehicle = hash.vehicle
      /\ reader'.raw = reader.raw /\ reader'.active = reader.active
      /\ reader'.enabled = reader.enabled /\ (reader'.latch => reader.latch)
    BY <1>1, <1>2, InvGives, VehicleHandled
<1>4. /\ history' \in HistoryType /\ history'.switched = history.switched
      /\ ~history'.missed => up /\ ~history.missed
    BY <1>1, InvGives DEF HistoryType
<1>5. FieldsArrive'
    BY <1>1, <1>3, <1>4, InvGives DEF FieldsArrive, OnItsWay, Announced, ReaderSteps
<1>6. EnabledSound' /\ DisabledSound'
    BY <1>1, <1>3, <1>4, InvGives DEF EnabledSound, DisabledSound, KeepActive, ReaderSteps
<1> QED
    BY <1>1, <1>3, <1>4, <1>5, <1>6, InvGives, ReaderKeeps

(* ... of the lock. *)
LEMMA FetchSeatboxInv ==
    ASSUME IInv, NEW up \in BOOLEAN, FetchSeatbox(up)
    PROVE  IInv'
<1>1. /\ loop' = "run" /\ UNCHANGED chan /\ ReaderSteps
      /\ reader' = IF up THEN handleSeatboxLockChange(reader, hash.seatbox) ELSE reader
      /\ history' = IF up THEN history ELSE [history EXCEPT !.missed = TRUE]
    BY DEF FetchSeatbox, Missing
<1>2. hash.seatbox \in BOOLEAN
    BY InvGives DEF HashType
<1>3. /\ reader' \in ReaderType /\ LatchSound(reader') /\ ToldSound(reader')
      /\ reader'.vehicle = reader.vehicle
      /\ up => reader'.raw = hash.seatbox
      /\ reader'.active = reader.active
      /\ up /\ reader.active => (KeepActive \/ reader'.latch => reader'.enabled)
      /\ ~reader.active => reader'.enabled = reader.enabled
      /\ ~up => reader' = reader
    BY <1>1, <1>2, InvGives, SeatboxHandled
<1>4. /\ history' \in HistoryType /\ history'.switched = history.switched
      /\ ~history'.missed => up /\ ~history.missed
    BY <1>1, InvGives DEF HistoryType
<1>5. FieldsArrive'
    BY <1>1, <1>3, <1>4, InvGives DEF FieldsArrive, OnItsWay, Announced, ReaderSteps
<1>6. EnabledSound' /\ DisabledSound'
    BY <1>1, <1>3, <1>4, InvGives DEF EnabledSound, DisabledSound, KeepActive, ReaderSteps
<1> QED
    BY <1>1, <1>3, <1>4, <1>5, <1>6, InvGives, ReaderKeeps

(* A channel that is taken is empty. *)
LEMMA TakeEmpties ==
    ASSUME IInv, NEW kind \in {"vehicle", "seatbox", "enabled", "keep"}, NEW v,
           Take(kind, v)
    PROVE  /\ chan' \in ChanType /\ chan'[kind] = {} /\ chan[kind] = {v}
           /\ \A k \in {"vehicle", "seatbox", "enabled", "keep"} \ {kind} :
                 chan'[k] = chan[k]
           /\ UNCHANGED <<loop, history>> /\ ReaderSteps
<1>1. /\ chan' = [chan EXCEPT ![kind] = {}] /\ v \in chan[kind]
      /\ UNCHANGED <<loop, history>> /\ ReaderSteps /\ chan \in ChanType
    BY InvGives DEF Take
<1>2. CASE kind = "vehicle"
    BY <1>1, <1>2 DEF ChanType
<1>3. CASE kind = "seatbox"
    BY <1>1, <1>3 DEF ChanType
<1>4. CASE kind = "enabled"
    BY <1>1, <1>4 DEF ChanType
<1>5. CASE kind = "keep"
    BY <1>1, <1>5 DEF ChanType
<1> QED
    BY <1>2, <1>3, <1>4, <1>5

(* A vehicle report. *)
LEMMA TakeVehicleInv ==
    ASSUME IInv, TakeVehicle
    PROVE  IInv'
<1> PICK v \in Vehicles :
           Take("vehicle", v) /\ reader' = handleVehicleStateChange(reader, v)
    BY DEF TakeVehicle
<1>1. /\ chan' \in ChanType /\ chan'.vehicle = {} /\ chan.vehicle = {v}
      /\ chan'.seatbox = chan.seatbox /\ chan'.enabled = chan.enabled
      /\ chan'.keep = chan.keep /\ UNCHANGED <<loop, history>> /\ ReaderSteps
    BY TakeEmpties
<1>2. /\ reader' \in ReaderType /\ LatchSound(reader') /\ ToldSound(reader')
      /\ reader'.vehicle = v
      /\ reader'.raw = reader.raw /\ reader'.active = reader.active
      /\ reader'.enabled = reader.enabled /\ (reader'.latch => reader.latch)
    BY InvGives, VehicleHandled
<1>3. FieldsArrive'
    <2>1. {v} = {hash.vehicle} => v = hash.vehicle
        OBVIOUS
    <2> QED
        BY <1>1, <1>2, <2>1, InvGives DEF FieldsArrive, OnItsWay, Announced, ReaderSteps
<1>4. EnabledSound' /\ DisabledSound'
    BY <1>1, <1>2, InvGives DEF EnabledSound, DisabledSound, KeepActive, ReaderSteps
<1> QED
    BY <1>1, <1>2, <1>3, <1>4, InvGives, ReaderKeeps

(* A report of the lock. *)
LEMMA TakeSeatboxInv ==
    ASSUME IInv, TakeSeatbox
    PROVE  IInv'
<1> PICK v \in BOOLEAN :
           Take("seatbox", v) /\ reader' = handleSeatboxLockChange(reader, v)
    BY DEF TakeSeatbox
<1>1. /\ chan' \in ChanType /\ chan'.seatbox = {} /\ chan.seatbox = {v}
      /\ chan'.vehicle = chan.vehicle /\ chan'.enabled = chan.enabled
      /\ chan'.keep = chan.keep /\ UNCHANGED <<loop, history>> /\ ReaderSteps
    BY TakeEmpties
<1>2. /\ reader' \in ReaderType /\ LatchSound(reader') /\ ToldSound(reader')
      /\ reader'.vehicle = reader.vehicle /\ reader'.raw = v
      /\ reader'.active = reader.active
      /\ reader.active => (KeepActive \/ reader'.latch => reader'.enabled)
      /\ ~reader.active => reader'.enabled = reader.enabled
    BY InvGives, SeatboxHandled
<1>3. FieldsArrive'
    <2>1. {v} = {hash.seatbox} => v = hash.seatbox
        OBVIOUS
    <2> QED
        BY <1>1, <1>2, <2>1, InvGives DEF FieldsArrive, OnItsWay, Announced, ReaderSteps
<1>4. EnabledSound' /\ DisabledSound'
    BY <1>1, <1>2, InvGives DEF EnabledSound, DisabledSound, KeepActive, ReaderSteps
<1> QED
    BY <1>1, <1>2, <1>3, <1>4, InvGives, ReaderKeeps

(* A new enabled, posted with a new role. *)
LEMMA TakeEnabledInv ==
    ASSUME IInv, TakeEnabled
    PROVE  IInv'
<1> PICK v \in BOOLEAN :
           Take("enabled", v) /\ reader' = handleEnabledChange(reader, v)
    BY DEF TakeEnabled
<1>1. /\ chan' \in ChanType /\ chan'.enabled = {} /\ chan.enabled = {v}
      /\ chan'.vehicle = chan.vehicle /\ chan'.seatbox = chan.seatbox
      /\ chan'.keep = chan.keep /\ UNCHANGED <<loop, history>> /\ ReaderSteps
    BY TakeEmpties
<1>2. /\ reader' \in ReaderType /\ LatchSound(reader') /\ ToldSound(reader')
      /\ reader'.vehicle = reader.vehicle /\ reader'.raw = reader.raw
      /\ reader'.active = reader.active /\ reader'.enabled = v
      /\ reader'.latch = reader.latch
    BY InvGives, EnabledHandled
<1>3. FieldsArrive'
    BY <1>1, <1>2, InvGives DEF FieldsArrive, OnItsWay, Announced, ReaderSteps
<1>4. EnabledSound' /\ DisabledSound'
    <2>1. {v} = {FALSE} => ~v
        OBVIOUS
    <2>2. {v} # {}
        OBVIOUS
    <2> QED
        BY <1>1, <1>2, <2>1, <2>2, InvGives
        DEF EnabledSound, DisabledSound, KeepActive, ReaderSteps
<1> QED
    BY <1>1, <1>2, <1>3, <1>4, InvGives, ReaderKeeps

(* The refresh of the keep-active policy. *)
LEMMA TakeKeepActiveInv ==
    ASSUME IInv, TakeKeepActive
    PROVE  IInv'
<1>1. /\ chan' \in ChanType /\ chan'.enabled = chan.enabled
      /\ chan'.vehicle = chan.vehicle /\ chan'.seatbox = chan.seatbox
      /\ UNCHANGED <<loop, history>> /\ ReaderSteps
      /\ reader' = IF reader.active THEN handleSeatboxLockChange(reader, reader.raw)
                   ELSE reader
    BY TakeEmpties DEF TakeKeepActive, handleKeepActiveChange
<1>2. reader.raw \in BOOLEAN
    BY InvGives DEF ReaderType
<1>3. /\ reader' \in ReaderType /\ LatchSound(reader') /\ ToldSound(reader')
      /\ reader'.vehicle = reader.vehicle /\ reader'.raw = reader.raw
      /\ reader'.active = reader.active
      /\ reader.active => (KeepActive \/ reader'.latch => reader'.enabled)
      /\ ~reader.active => reader'.enabled = reader.enabled
    BY <1>1, <1>2, InvGives, SeatboxHandled
<1>4. FieldsArrive'
    BY <1>1, <1>3, InvGives DEF FieldsArrive, OnItsWay, Announced, ReaderSteps
<1>5. EnabledSound' /\ DisabledSound'
    BY <1>1, <1>3, InvGives DEF EnabledSound, DisabledSound, KeepActive, ReaderSteps
<1> QED
    BY <1>1, <1>3, <1>4, <1>5, InvGives, ReaderKeeps

(* A restart, and tags that come and go. *)
LEMMA TagStepInv ==
    ASSUME IInv, TakeRestart \/ TagArrives \/ TagDeparts
    PROVE  IInv'
<1>1. /\ UNCHANGED <<chan, loop, history>> /\ ReaderSteps
      /\ reader' \in {handleRestart(reader), [reader EXCEPT !.tag = FALSE],
                      [reader EXCEPT !.tag = TRUE,
                                     !.told = <<reader.latch, reader.enabled>>]}
    BY DEF TakeRestart, TagArrives, TagDeparts
<1>2. /\ reader' \in ReaderType /\ LatchSound(reader') /\ ToldSound(reader')
      /\ reader'.vehicle = reader.vehicle /\ reader'.raw = reader.raw
      /\ reader'.active = reader.active /\ reader'.enabled = reader.enabled
      /\ reader'.latch = reader.latch
    BY <1>1, InvGives, TagHandled, ZenonT(60)
<1>3. FieldsArrive'
    BY <1>1, <1>2, InvGives DEF FieldsArrive, OnItsWay, Announced, ReaderSteps
<1>4. EnabledSound' /\ DisabledSound'
    BY <1>1, <1>2, InvGives DEF EnabledSound, DisabledSound, KeepActive, ReaderSteps
<1> QED
    BY <1>1, <1>2, <1>3, <1>4, InvGives, ReaderKeeps

-----------------------------------------------------------------------------
(* The steps of the subscriber and of the other services. *)

(* A notice that is handled leaves those of the other fields. *)
LEMMA HandlesOne ==
    ASSUME notices \in Seq(DOMAIN Values), NEW field, Handles(field)
    PROVE  /\ notices' \in Seq(DOMAIN Values)
           /\ \A g : g # field /\ Announced(g) => Announced(g)'
<1>1. notices # <<>> /\ Head(notices) = field /\ notices' = Tail(notices)
    BY DEF Handles
<1>2. /\ notices' \in Seq(DOMAIN Values) /\ Len(notices) \in Nat \ {0}
      /\ Len(notices') = Len(notices) - 1 /\ notices[1] = field
      /\ \A i \in 1..Len(notices') : notices'[i] = notices[i + 1]
    BY <1>1
<1>3. ASSUME NEW g, g # field, NEW i \in 1..Len(notices), notices[i] = g
      PROVE  \E j \in 1..Len(notices') : notices'[j] = g
    <2>1. i # 1 /\ i - 1 \in 1..Len(notices') /\ (i - 1) + 1 = i
        BY <1>2, <1>3
    <2> QED
        BY <1>2, <1>3, <2>1
<1> QED
    BY <1>2, <1>3 DEF Announced

(* A published notice is announced, and none is lost. *)
LEMMA Publishes ==
    ASSUME notices \in Seq(DOMAIN Values), NEW field \in DOMAIN Values,
           notices' = Append(notices, field)
    PROVE  /\ notices' \in Seq(DOMAIN Values) /\ Announced(field)'
           /\ \A g : Announced(g) => Announced(g)'
<1>1. /\ notices' \in Seq(DOMAIN Values) /\ Len(notices) \in Nat
      /\ Len(notices') = Len(notices) + 1 /\ notices'[Len(notices) + 1] = field
      /\ \A i \in 1..Len(notices) : notices'[i] = notices[i]
    OBVIOUS
<1>2. Len(notices) + 1 \in 1..Len(notices') /\ 1..Len(notices) \subseteq 1..Len(notices')
    BY <1>1
<1> QED
    BY <1>1, <1>2 DEF Announced

(* The parts of the invariant, for a step of the subscriber. *)
LEMMA ServiceKeeps ==
    ASSUME IInv, UNCHANGED <<hash, subscribed, loop, changes>>,
           notices' \in Seq(DOMAIN Values), config' \in ConfigType, chan' \in ChanType,
           reader' \in ReaderType, history' \in HistoryType, LatchSound(reader'),
           ToldSound(reader'), FieldsArrive', EnabledSound', DisabledSound'
    PROVE  IInv'
<1>1. /\ hash' \in HashType /\ subscribed' \in BOOLEAN
      /\ loop' \in {"vehicle", "seatbox", "run"} /\ changes' \in 0..MaxChanges
    BY InvGives
<1>2. TypeOK'
    BY <1>1 DEF TypeOK, HashType, ConfigType, ChanType, ReaderType, HistoryType
<1>3. LatchSound(reader)' /\ ToldSound(reader)'
    BY DEF LatchSound, ToldSound
<1> QED
    BY <1>2, <1>3 DEF IInv

(* The subscription is established. *)
LEMMA SubscribeInv ==
    ASSUME IInv, Subscribe
    PROVE  IInv'
<1>1. /\ UNCHANGED <<hash, notices, config, chan, reader, loop, changes, history>>
      /\ subscribed' \in BOOLEAN
    BY DEF Subscribe
<1>2. TypeOK'
    <2>1. /\ hash' \in HashType /\ notices' \in Seq(DOMAIN Values) /\ config' \in ConfigType
          /\ chan' \in ChanType /\ reader' \in ReaderType
          /\ loop' \in {"vehicle", "seatbox", "run"} /\ changes' \in 0..MaxChanges
          /\ history' \in HistoryType
        BY <1>1, InvGives
    <2> QED
        BY <1>1, <2>1 DEF TypeOK, HashType, ConfigType, ChanType, ReaderType, HistoryType
<1>3. FieldsArrive' /\ EnabledSound' /\ DisabledSound'
    BY <1>1, InvGives
    DEF FieldsArrive, OnItsWay, Announced, EnabledSound, DisabledSound, KeepActive
<1>4. LatchSound(reader)' /\ ToldSound(reader)'
    BY <1>1, InvGives DEF LatchSound, ToldSound
<1> QED
    BY <1>2, <1>3, <1>4 DEF IInv

(* A notice whose field could not be read. *)
LEMMA HandleNothingInv ==
    ASSUME IInv, HandleNothing
    PROVE  IInv'
<1>1. /\ notices # <<>> /\ notices' = Tail(notices)
      /\ history' = [history EXCEPT !.missed = TRUE]
      /\ UNCHANGED <<hash, subscribed, loop, changes, config, chan, reader>>
    BY DEF HandleNothing, Missing, ServiceSteps
<1>2. notices' \in Seq(DOMAIN Values)
    BY <1>1, InvGives
<1>3. /\ history' \in HistoryType /\ history'.switched = history.switched
      /\ history'.missed
    BY <1>1, InvGives DEF HistoryType
<1>4. FieldsArrive' /\ EnabledSound' /\ DisabledSound'
    BY <1>1, <1>3, InvGives DEF FieldsArrive, EnabledSound, DisabledSound, KeepActive
<1> QED
    BY <1>1, <1>2, <1>3, <1>4, InvGives, ServiceKeeps

(* The vehicle's state is posted. *)
LEMMA VehicleMessageInv ==
    ASSUME IInv, handleVehicleStateMessage
    PROVE  IInv'
<1>1. /\ Handles("vehicle") /\ chan' = [chan EXCEPT !.vehicle = {hash.vehicle}]
      /\ UNCHANGED <<hash, subscribed, loop, changes, config, reader, history>>
    BY DEF handleVehicleStateMessage, ServiceSteps
<1>2. /\ notices' \in Seq(DOMAIN Values)
      /\ \A g : g # "vehicle" /\ Announced(g) => Announced(g)'
    BY <1>1, InvGives, HandlesOne
<1>3. hash.vehicle \in Vehicles
    BY InvGives DEF HashType
<1>4. /\ chan' \in ChanType /\ chan'.vehicle = {hash.vehicle}
      /\ chan'.seatbox = chan.seatbox /\ chan'.enabled = chan.enabled
      /\ chan'.keep = chan.keep
    BY <1>1, <1>3, InvGives DEF ChanType
<1>5. FieldsArrive'
    BY <1>1, <1>2, <1>4, InvGives DEF FieldsArrive, OnItsWay
<1>6. EnabledSound' /\ DisabledSound'
    BY <1>1, <1>4, InvGives DEF EnabledSound, DisabledSound, KeepActive
<1> QED
    BY <1>1, <1>2, <1>4, <1>5, <1>6, InvGives, ServiceKeeps

(* The lock is posted. *)
LEMMA SeatboxUpdateInv ==
    ASSUME IInv, handleSeatboxUpdate
    PROVE  IInv'
<1>1. /\ Handles("seatbox") /\ chan' = [chan EXCEPT !.seatbox = {hash.seatbox}]
      /\ UNCHANGED <<hash, subscribed, loop, changes, config, reader, history>>
    BY DEF handleSeatboxUpdate, ServiceSteps
<1>2. /\ notices' \in Seq(DOMAIN Values)
      /\ \A g : g # "seatbox" /\ Announced(g) => Announced(g)'
    BY <1>1, InvGives, HandlesOne
<1>3. {hash.seatbox} \in {{}, {TRUE}, {FALSE}}
    BY InvGives DEF HashType
<1>4. /\ chan' \in ChanType /\ chan'.seatbox = {hash.seatbox}
      /\ chan'.vehicle = chan.vehicle /\ chan'.enabled = chan.enabled
      /\ chan'.keep = chan.keep
    BY <1>1, <1>3, InvGives DEF ChanType
<1>5. FieldsArrive'
    BY <1>1, <1>2, <1>4, InvGives DEF FieldsArrive, OnItsWay
<1>6. EnabledSound' /\ DisabledSound'
    BY <1>1, <1>4, InvGives DEF EnabledSound, DisabledSound, KeepActive
<1> QED
    BY <1>1, <1>2, <1>4, <1>5, <1>6, InvGives, ServiceKeeps

(* A new keep-active policy is announced to an active slot. *)
LEMMA RefreshInv ==
    ASSUME IInv, NEW field \in {"keep", "aux"}, Handles(field),
           UNCHANGED <<hash, subscribed, loop, changes, reader, history>>,
           config' \in ConfigType, NEW changed, ~changed => (KeepActive' => KeepActive),
           chan' = Refreshed(changed)
    PROVE  IInv'
<1>1. /\ notices' \in Seq(DOMAIN Values)
      /\ \A g : g \in {"vehicle", "seatbox"} /\ Announced(g) => Announced(g)'
    BY InvGives, HandlesOne
<1>2. /\ chan' \in ChanType /\ chan'.seatbox = chan.seatbox
      /\ chan'.vehicle = chan.vehicle /\ chan'.enabled = chan.enabled
      /\ chan'.keep = IF changed /\ reader.active THEN {TRUE} ELSE chan.keep
    BY InvGives DEF Refreshed, ChanType
<1>3. FieldsArrive'
    BY <1>1, <1>2, InvGives DEF FieldsArrive, OnItsWay
<1>4. EnabledSound' /\ DisabledSound'
    BY <1>2, InvGives DEF EnabledSound, DisabledSound
<1> QED
    BY <1>1, <1>2, <1>3, <1>4, InvGives, ServiceKeeps

(* The setting is reloaded. *)
LEMMA ReloadKeepActiveInv ==
    ASSUME IInv, reloadKeepActive
    PROVE  IInv'
<1> DEFINE changed == hash.keep # config.keep
<1>1. /\ Handles("keep") /\ config' = [config EXCEPT !.keep = hash.keep]
      /\ chan' = Refreshed(changed)
      /\ UNCHANGED <<hash, subscribed, loop, changes, reader, history>>
    BY DEF reloadKeepActive, ServiceSteps
<1>2. config' \in ConfigType /\ (~changed => config' = config)
    BY <1>1, InvGives DEF ConfigType, HashType
<1>3. ~changed => (KeepActive' => KeepActive)
    BY <1>2 DEF KeepActive
<1> QED
    BY <1>1, <1>2, <1>3, RefreshInv

(* The voltage of the auxiliary battery is judged again. *)
LEMMA RecomputeAuxLowInv ==
    ASSUME IInv, recomputeAuxLowKeepActive
    PROVE  IInv'
<1> DEFINE engaged == auxLowKeepActiveLatch(config.auxLow, config.evaluated, hash.aux)
           changed == engaged # config.auxLow
<1>1. /\ Handles("aux")
      /\ config' = [config EXCEPT !.auxLow = engaged, !.evaluated = TRUE]
      /\ chan' = Refreshed(changed)
      /\ UNCHANGED <<hash, subscribed, loop, changes, reader, history>>
    BY DEF recomputeAuxLowKeepActive, ServiceSteps
<1>2. engaged \in BOOLEAN
    BY DEF auxLowKeepActiveLatch
<1> HIDE DEF engaged
<1>3. /\ config' \in ConfigType /\ config'.keep = config.keep
      /\ config'.auxLow = engaged
    BY <1>1, <1>2, InvGives DEF ConfigType
<1>4. ~changed => (KeepActive' => KeepActive)
    BY <1>3 DEF KeepActive
<1> QED
    BY <1>1, <1>3, <1>4, RefreshInv

(* The slot's role changes. *)
LEMMA DualBatteryInv ==
    ASSUME IInv, NEW up \in BOOLEAN, handleDualBatterySettingChange(up)
    PROVE  IInv'
<1> DEFINE changed == hash.dual # reader.active
           posted == IF ~hash.dual THEN {FALSE}
                     ELSE IF KeepActive THEN {TRUE}
                     ELSE IF up THEN {hash.seatbox} ELSE chan.enabled
<1>1. /\ Handles("dual")
      /\ reader' = IF changed THEN [reader EXCEPT !.active = hash.dual, !.restart = TRUE]
                   ELSE reader
      /\ chan' = IF changed THEN [chan EXCEPT !.enabled = posted] ELSE chan
      /\ history' = [history EXCEPT !.switched = @ \/ changed]
      /\ UNCHANGED <<hash, subscribed, loop, changes, config>>
    BY DEF handleDualBatterySettingChange, ServiceSteps
<1>2. /\ notices' \in Seq(DOMAIN Values)
      /\ \A g : g \in {"vehicle", "seatbox"} /\ Announced(g) => Announced(g)'
    BY <1>1, InvGives, HandlesOne
<1>3. /\ posted \in {{}, {TRUE}, {FALSE}} /\ hash.dual \in BOOLEAN
      /\ ~hash.dual => posted = {FALSE}
    BY InvGives DEF HashType, ChanType
<1> HIDE DEF posted
<1>4. CASE ~changed
    <2>1. UNCHANGED <<reader, chan>> /\ history' = history
        BY <1>1, <1>4, InvGives DEF HistoryType
    <2>2. FieldsArrive' /\ EnabledSound' /\ DisabledSound'
        BY <1>1, <1>2, <2>1, InvGives
        DEF FieldsArrive, OnItsWay, EnabledSound, DisabledSound, KeepActive
    <2> QED
        BY <1>1, <1>2, <2>1, <2>2, InvGives, ServiceKeeps
<1>5. CASE changed
    <2>1. /\ reader' = [reader EXCEPT !.active = hash.dual, !.restart = TRUE]
          /\ chan' = [chan EXCEPT !.enabled = posted]
          /\ history' = [history EXCEPT !.switched = @ \/ changed]
        BY <1>1, <1>5
    <2>2. /\ reader' \in ReaderType /\ reader'.vehicle = reader.vehicle
          /\ reader'.raw = reader.raw /\ reader'.latch = reader.latch
          /\ reader'.active = hash.dual /\ reader'.restart
        BY <1>3, <2>1, InvGives DEF ReaderType
    <2>3. /\ chan' \in ChanType /\ chan'.seatbox = chan.seatbox
          /\ chan'.vehicle = chan.vehicle /\ chan'.enabled = posted
        BY <1>3, <2>1, InvGives DEF ChanType
    <2>4. /\ history' \in HistoryType /\ history'.switched
          /\ history'.missed = history.missed
        BY <1>5, <2>1, InvGives DEF HistoryType
    <2>5. LatchSound(reader') /\ ToldSound(reader')
        BY <2>2, InvGives DEF LatchSound, ToldSound
    <2>6. FieldsArrive' /\ EnabledSound' /\ DisabledSound'
        BY <1>1, <1>2, <1>3, <2>2, <2>3, <2>4, InvGives
        DEF FieldsArrive, OnItsWay, EnabledSound, DisabledSound
    <2> QED
        BY <1>1, <1>2, <2>2, <2>3, <2>4, <2>5, <2>6, InvGives, ServiceKeeps
<1> QED
    BY <1>4, <1>5

(* Another service writes a field: who is not told has missed it. *)
LEMMA ChangeInv ==
    ASSUME IInv, NEW field \in DOMAIN Values, Change(field)
    PROVE  IInv'
<1>1. PICK v \in Values[field] :
        /\ changes < MaxChanges /\ changes' = changes + 1
        /\ hash' = [hash EXCEPT ![field] = v]
        /\ notices' = IF subscribed THEN Append(notices, field) ELSE notices
        /\ history' =
              [history EXCEPT
                !.missed = @ \/ ~subscribed,
                !.bounced = IF field \notin {"vehicle", "seatbox"} THEN @
                            ELSE /\ hash.vehicle = Driving /\ reader.latch
                                 /\ field = "seatbox" /\ ~hash'.seatbox]
        /\ UNCHANGED <<subscribed, config, chan, reader, loop>>
    BY DEF Change
<1>2. /\ hash' \in HashType
      /\ field # "vehicle" => hash'.vehicle = hash.vehicle
      /\ field # "seatbox" => hash'.seatbox = hash.seatbox
    <2>1. hash \in HashType /\ field \in {"vehicle", "seatbox", "keep", "aux", "dual"}
        BY InvGives, FieldValues
    <2>2. CASE field = "vehicle"
        BY <1>1, <2>1, <2>2, FieldValues DEF HashType
    <2>3. CASE field = "seatbox"
        BY <1>1, <2>1, <2>3, FieldValues DEF HashType
    <2>4. CASE field = "keep"
        BY <1>1, <2>1, <2>4, FieldValues DEF HashType
    <2>5. CASE field = "aux"
        BY <1>1, <2>1, <2>5, FieldValues DEF HashType
    <2>6. CASE field = "dual"
        BY <1>1, <2>1, <2>6, FieldValues DEF HashType
    <2> QED
        BY <2>1, <2>2, <2>3, <2>4, <2>5, <2>6
<1>3. /\ notices' \in Seq(DOMAIN Values)
      /\ subscribed => Announced(field)'
      /\ \A g : Announced(g) => Announced(g)'
    <2>1. CASE subscribed
        <3>1. notices' = Append(notices, field)
            BY <1>1, <2>1
        <3> QED
            BY <3>1, InvGives, Publishes
    <2>2. CASE ~subscribed
        BY <1>1, <2>2, InvGives DEF Announced
    <2> QED
        BY <2>1, <2>2
<1>4. /\ history' \in HistoryType /\ history'.switched = history.switched
      /\ ~history'.missed => subscribed /\ ~history.missed
    <2> DEFINE missed == history.missed \/ ~subscribed
               bounced == IF field \notin {"vehicle", "seatbox"} THEN history.bounced
                          ELSE /\ hash.vehicle = Driving /\ reader.latch
                               /\ field = "seatbox" /\ ~hash'.seatbox
    <2>1. history' = [history EXCEPT !.missed = missed, !.bounced = bounced]
        BY <1>1, InvGives DEF HistoryType
    <2>2. missed \in BOOLEAN /\ bounced \in BOOLEAN
        BY InvGives DEF HistoryType
    <2>3. ~missed => subscribed /\ ~history.missed
        OBVIOUS
    <2> HIDE DEF missed, bounced
    <2> QED
        BY <2>1, <2>2, <2>3, InvGives DEF HistoryType
<1>5. FieldsArrive'
    BY <1>1, <1>2, <1>3, <1>4, InvGives DEF FieldsArrive, OnItsWay
<1>6. EnabledSound' /\ DisabledSound'
    BY <1>1, <1>4, InvGives DEF EnabledSound, DisabledSound, KeepActive
<1>7. LatchSound(reader)' /\ ToldSound(reader)'
    BY <1>1, InvGives DEF LatchSound, ToldSound
<1>8. TypeOK'
    <2>1. changes' \in 0..MaxChanges
        BY <1>1, InvGives, MaxChangesAssumption
    <2>2. /\ config' \in ConfigType /\ chan' \in ChanType /\ reader' \in ReaderType
          /\ loop' \in {"vehicle", "seatbox", "run"} /\ subscribed' \in BOOLEAN
        BY <1>1, InvGives
    <2> QED
        BY <1>2, <1>3, <1>4, <2>1, <2>2
        DEF TypeOK, HashType, ConfigType, ChanType, ReaderType, HistoryType
<1> QED
    BY <1>5, <1>6, <1>7, <1>8 DEF IInv

-----------------------------------------------------------------------------
(* The theorems. *)

(* The reader starts with the values posted by loadInitialVehicleState. *)
LEMMA InitInv ==
    ASSUME Init
    PROVE  IInv
<1>1. /\ hash \in [vehicle: Vehicles, seatbox: BOOLEAN, keep: BOOLEAN, aux: Values.aux,
                   dual: Roles]
      /\ notices = <<>> /\ subscribed \in BOOLEAN /\ reader = NewReader(hash.dual)
      /\ loop = "vehicle" /\ changes = 0
    BY DEF Init
<1>2. hash \in HashType
    BY <1>1, RolesAssumption, FieldValues DEF HashType, Values
<1>3. config \in ConfigType
    <2> PICK evaluated \in BOOLEAN :
            config = [keep |-> hash.keep, evaluated |-> evaluated,
                      auxLow |-> evaluated /\ auxLowKeepActiveLatch(FALSE, FALSE, hash.aux)]
        BY DEF Init
    <2>1. auxLowKeepActiveLatch(FALSE, FALSE, hash.aux) \in BOOLEAN
        BY DEF auxLowKeepActiveLatch
    <2> QED
        BY <1>2, <2>1 DEF ConfigType, HashType
<1>4. PICK up \in Up :
        /\ history = [missed |-> ~up, switched |-> FALSE, bounced |-> FALSE]
        /\ chan = [vehicle |-> {IF up THEN hash.vehicle ELSE Standby},
                   seatbox |-> {IF up THEN hash.seatbox ELSE TRUE},
                   enabled |-> {}, keep |-> {}]
    BY DEF Init
<1>5. up \in BOOLEAN
    BY DEF Up
<1>6. /\ history \in HistoryType /\ (~history.missed => up)
    BY <1>4, <1>5 DEF HistoryType
<1>7. /\ chan \in ChanType /\ chan.enabled = {}
      /\ up => chan.vehicle = {hash.vehicle} /\ chan.seatbox = {hash.seatbox}
    <2> DEFINE v == IF up THEN hash.vehicle ELSE Standby
               c == IF up THEN hash.seatbox ELSE TRUE
    <2>1. v \in Vehicles /\ {c} \in {{}, {TRUE}, {FALSE}}
        BY <1>2, VehiclesAssumption DEF HashType
    <2>2. up => v = hash.vehicle /\ c = hash.seatbox
        OBVIOUS
    <2>3. chan = [vehicle |-> {v}, seatbox |-> {c}, enabled |-> {}, keep |-> {}]
        BY <1>4
    <2> HIDE DEF v, c
    <2> QED
        BY <2>1, <2>2, <2>3 DEF ChanType
<1>8. /\ reader \in ReaderType /\ ~reader.raw /\ ~reader.latch /\ ~reader.tag
      /\ reader.enabled = reader.active
    BY <1>1, <1>2 DEF NewReader, ReaderType, HashType
<1>9. TypeOK
    BY <1>1, <1>2, <1>3, <1>6, <1>7, <1>8, Types, MaxChangesAssumption
<1>10. FieldsArrive
    BY <1>6, <1>7 DEF FieldsArrive, OnItsWay
<1>11. EnabledSound /\ DisabledSound /\ LatchSound(reader) /\ ToldSound(reader)
    BY <1>7, <1>8 DEF EnabledSound, DisabledSound, LatchSound, ToldSound
<1> QED
    BY <1>9, <1>10, <1>11 DEF IInv

(* Every step. *)
LEMMA NextInv ==
    ASSUME IInv, [Next]_vars
    PROVE  IInv'
<1>1. Up \subseteq BOOLEAN
    BY DEF Up
<1>2. CASE ReaderNext
    <2>1. CASE \E up \in Up : FetchVehicle(up) \/ FetchSeatbox(up)
        BY <1>1, <2>1, FetchVehicleInv, FetchSeatboxInv
    <2> QED
        BY <1>2, <2>1, TakeVehicleInv, TakeSeatboxInv, TakeEnabledInv, TakeKeepActiveInv,
           TagStepInv DEF ReaderNext
<1>3. CASE ServiceNext
    <2>1. CASE \E up \in Up : handleDualBatterySettingChange(up)
        BY <1>1, <2>1, DualBatteryInv
    <2> QED
        BY <1>3, <2>1, SubscribeInv, HandleNothingInv, VehicleMessageInv, SeatboxUpdateInv,
           ReloadKeepActiveInv, RecomputeAuxLowInv DEF ServiceNext
<1>4. CASE \E field \in Events \cap DOMAIN Values : Change(field)
    BY <1>4, ChangeInv
<1>5. CASE UNCHANGED vars
    <2>1. UNCHANGED <<hash, notices, subscribed, config, chan, reader, loop, changes, history>>
        BY <1>5 DEF vars
    <2>2. FieldsArrive' /\ EnabledSound' /\ DisabledSound'
        BY <2>1, InvGives
        DEF FieldsArrive, OnItsWay, Announced, EnabledSound, DisabledSound, KeepActive
    <2> QED
        BY <2>1, <2>2, InvGives, ServiceKeeps
<1> QED
    BY <1>2, <1>3, <1>4, <1>5 DEF Next

(* The invariant holds in every reachable state, for every set of vehicle  *)
(* states, every mix of lost notices, role changes and tags, and any       *)
(* number of changes.                                                      *)
THEOREM PolicyInvariant == Spec => []IInv
<1>1. Init => IInv
    BY InitInv
<1>2. IInv /\ [Next]_vars => IInv'
    BY NextInv
<1> QED
    BY <1>1, <1>2, PTL DEF Spec

(* Every variable keeps its type; a channel never holds two values         *)
(* (tryUpdateChannel replaces, channels.go).                               *)
THEOREM PolicyTypes == Spec => []TypeOK
<1>1. IInv => TypeOK
    BY DEF IInv
<1> QED
    BY <1>1, PolicyInvariant, PTL

(* Once everything posted is taken and nothing was missed, the latch of a  *)
(* scooter that is not driving is the lock, in whatever order the reports  *)
(* were taken (handleVehicleStateChange, nextLatchedSeatboxClosed).        *)
THEOREM LatchFollowsSensor == Spec => []LatchTracksSensor
<1>1. IInv => LatchTracksSensor
    <2> SUFFICES ASSUME IInv, Drained, ~history.missed, hash.vehicle # Driving
                 PROVE  reader.latch = hash.seatbox
        BY DEF LatchTracksSensor
    <2>1. /\ notices = <<>> /\ chan.vehicle = {} /\ chan.seatbox = {}
        BY InvGives DEF Drained, ChanType
    <2>2. ~Announced("vehicle") /\ ~Announced("seatbox")
        BY <2>1 DEF Announced
    <2>3. reader.vehicle = hash.vehicle /\ reader.raw = hash.seatbox
        BY <2>1, <2>2, InvGives DEF FieldsArrive, OnItsWay
    <2> QED
        BY <2>3, InvGives DEF LatchSound, ReaderType, HashType
<1> QED
    BY <1>1, PolicyInvariant, PTL

(* An active slot whose role did not change is enabled whenever the lock   *)
(* or the keep-active policy wants it (refreshKeepActiveReaders).          *)
THEOREM EnabledIsPolicy == Spec => []EnabledFollowsPolicy
<1>1. IInv => EnabledFollowsPolicy
    <2>1. IInv /\ Drained => chan.keep = {}
        BY InvGives DEF Drained, ChanType
    <2> QED
        BY <2>1 DEF IInv, EnabledSound, EnabledFollowsPolicy
<1> QED
    BY <1>1, PolicyInvariant, PTL

(* An inactive slot ends up disabled, however role changes and reports     *)
(* overtake each other (handleDualBatterySettingChange).                   *)
THEOREM InactiveIsDisabled == Spec => []InactiveStaysDisabled
<1>1. IInv => InactiveStaysDisabled
    <2>1. IInv /\ Drained => chan.enabled = {}
        BY InvGives DEF Drained, ChanType
    <2> QED
        BY <2>1 DEF IInv, DisabledSound, InactiveStaysDisabled
<1> QED
    BY <1>1, PolicyInvariant, PTL

(* No change of latch or enabled stays unknown to the state machine of a   *)
(* pack that is present (handleSeatboxLockChange, handleRestart).          *)
THEOREM PolicyIsTold == Spec => []PolicyReachesFSM
<1>1. IInv => PolicyReachesFSM
    BY DEF IInv, ToldSound, Drained, PolicyReachesFSM
<1> QED
    BY <1>1, PolicyInvariant, PTL

=============================================================================
