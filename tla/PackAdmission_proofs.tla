----------------------- MODULE PackAdmission_proofs -----------------------
(***************************************************************************)
(* Theorems about PackAdmission, for every set of frames, tags, reports    *)
(* and every duration that the assumptions of that module admit.           *)
(***************************************************************************)
EXTENDS PackAdmission, TLAPS, FiniteSetTheorems

-----------------------------------------------------------------------------
(* Types of the operators. *)

(* A new slot has the type of a slot. *)
LEMMA EmptySlotType ==
    ASSUME NEW e \in BOOLEAN, NEW p \in BOOLEAN
    PROVE  EmptySlot(e, p) \in SlotType
<1>1. BlankFrame \in FrameType
    BY DEF BlankFrame, FrameType, BMSStates, NoSerial
<1>2. <<>> \in Seq(HistorySample)
    OBVIOUS
<1> QED
    BY <1>1, <1>2 DEF EmptySlot, SlotType, NoUid, NoSerial, Zero

(* Forgetting the stability samples changes nothing else of a slot. *)
LEMMA ForgetType ==
    ASSUME NEW ss \in [Slots -> SlotType]
    PROVE  /\ Forget(ss) \in [Slots -> SlotType]
           /\ \A j \in Slots : Forget(ss)[j] = [ss[j] EXCEPT !.history = <<>>]
<1>1. <<>> \in Seq(HistorySample)
    OBVIOUS
<1>2. ASSUME NEW s \in SlotType, NEW h \in Seq(HistorySample)
      PROVE  [s EXCEPT !.history = h] \in SlotType
    BY DEF SlotType
<1> QED
    BY <1>1, <1>2 DEF Forget

(* Replacing the identity of a slot yields a slot. *)
LEMMA ReplaceIdentityType ==
    ASSUME NEW s \in SlotType, NEW uid \in Uids \cup {NoUid}
    PROVE  ReplaceIdentity(s, uid) \in SlotType
<1>1. EmptySlot(s.eligible, s.powerTracked) \in SlotType
    BY EmptySlotType DEF SlotType
<1> DEFINE requires == \/ s.requiresAdmission
                       \/ s.uid # NoUid
                       \/ s.serial # NoSerial
                       \/ s.haveFrame
           replaced(r, q) == [r EXCEPT
                !.uid = uid, !.held = s.held, !.onAt = s.onAt,
                !.lastOnAt = s.lastOnAt, !.offPending = s.offPending,
                !.offAt = s.offAt, !.identityUncertain = s.held,
                !.requiresAdmission = q]
<1>2. ASSUME NEW r \in SlotType, NEW q \in BOOLEAN
      PROVE  replaced(r, q) \in SlotType
    BY DEF SlotType
<1>3. requires \in BOOLEAN
    OBVIOUS
<1>4. ReplaceIdentity(s, uid) = replaced(EmptySlot(s.eligible, s.powerTracked), requires)
    BY DEF ReplaceIdentity
<1> HIDE DEF requires, replaced
<1> QED
    BY <1>1, <1>2, <1>3, <1>4

(* appendHistory drops a prefix of what it has, after the new sample. *)
LEMMA AppendHistoryDrops ==
    ASSUME NEW h \in Seq(HistorySample), NEW sample \in HistorySample
    PROVE  \E kept \in {h, <<>>}, d \in Nat :
              /\ d <= Len(kept)
              /\ AppendHistory(h, sample) =
                   SubSeq(Append(kept, sample), d + 1, Len(Append(kept, sample)))
<1> DEFINE kept == IF h # <<>> /\ sample.at - h[Len(h)].at > MaxAge THEN <<>> ELSE h
           all == Append(kept, sample)
           late == {k \in 1..(Len(all) - 3) : sample.at - all[k + 1].at >= StableTime}
           drop == Cardinality(late)
<1>1. kept \in Seq(HistorySample) /\ kept \in {h, <<>>}
    OBVIOUS
<1>2. /\ all \in Seq(HistorySample) /\ Len(all) \in Nat /\ Len(all) >= 1
      /\ Len(kept) \in Nat /\ Len(all) = Len(kept) + 1
    BY <1>1
<1>3. drop \in Nat /\ (drop <= Len(all) - 3 \/ drop = 0)
    <2> HIDE DEF all, kept
    <2>1. CASE Len(all) >= 3
        <3>1. IsFiniteSet(1..(Len(all) - 3)) /\ Cardinality(1..(Len(all) - 3)) = Len(all) - 3
            <4> DEFINE top == Len(all) - 3
            <4>1. top \in Int /\ 1 \in Int /\ top >= 0
                BY <1>2, <2>1
            <4> HIDE DEF top
            <4>2. IsFiniteSet(1..top) /\ Cardinality(1..top) = IF 1 > top THEN 0 ELSE top - 1 + 1
                BY <4>1, FS_Interval
            <4>3. IsFiniteSet(1..top) /\ Cardinality(1..top) = top
                BY <4>1, <4>2
            <4> QED BY <4>3 DEF top
        <3>2. late \subseteq 1..(Len(all) - 3)
            OBVIOUS
        <3> QED
            BY <3>1, <3>2, <1>2, <2>1, FS_Subset, FS_CardinalityType
    <2>2. CASE Len(all) < 3
        <3>1. late = {}
            BY <1>2, <2>2
        <3>2. drop = 0
            BY <3>1, FS_EmptySet, Zenon
        <3> HIDE DEF drop
        <3> QED
            BY <3>2
    <2> QED
        BY <1>2, <2>1, <2>2
<1>4. AppendHistory(h, sample) = SubSeq(all, drop + 1, Len(all))
    BY DEF AppendHistory
<1> HIDE DEF drop
<1>5. drop \in Nat /\ drop <= Len(kept)
    <2> HIDE DEF all, kept
    <2> QED BY <1>2, <1>3
<1> HIDE DEF kept
<1> QED
    BY <1>1, <1>4, <1>5

(* So it returns a sequence of samples... *)
LEMMA AppendHistoryType ==
    ASSUME NEW h \in Seq(HistorySample), NEW sample \in HistorySample
    PROVE  AppendHistory(h, sample) \in Seq(HistorySample)
<1>1. PICK kept \in {h, <<>>}, d \in Nat :
              /\ d <= Len(kept)
              /\ AppendHistory(h, sample) =
                   SubSeq(Append(kept, sample), d + 1, Len(Append(kept, sample)))
    BY AppendHistoryDrops
<1> DEFINE all == Append(kept, sample)
<1>0. kept \in Seq(HistorySample)
    <2>1. <<>> \in Seq(HistorySample)
        OBVIOUS
    <2> QED
        BY <2>1
<1>2. all \in Seq(HistorySample) /\ Len(all) \in Nat
    BY <1>0
<1> HIDE DEF all
<1>3. SubSeq(all, d + 1, Len(all)) \in Seq(HistorySample)
    BY <1>2
<1> QED
    BY <1>1, <1>3 DEF all

AtLeast(h, b) == \A k \in 1..Len(h) : h[k].at >= b

(* ... of which none is older than the oldest there was or the new one. *)
LEMMA AppendHistoryAtLeast ==
    ASSUME NEW h \in Seq(HistorySample), NEW sample \in HistorySample, NEW b \in Nat,
           AtLeast(h, b), sample.at >= b
    PROVE  AtLeast(AppendHistory(h, sample), b)
<1>1. PICK kept \in {h, <<>>}, d \in Nat :
              /\ d <= Len(kept)
              /\ AppendHistory(h, sample) =
                   SubSeq(Append(kept, sample), d + 1, Len(Append(kept, sample)))
    BY AppendHistoryDrops
<1> DEFINE all == Append(kept, sample)
<1>0. kept \in Seq(HistorySample)
    <2>1. <<>> \in Seq(HistorySample)
        OBVIOUS
    <2> QED
        BY <2>1
<1>2. /\ all \in Seq(HistorySample) /\ Len(all) \in Nat /\ Len(all) = Len(kept) + 1
      /\ Len(kept) \in Nat
    BY <1>0
<1>3. AtLeast(all, b)
    <2> SUFFICES ASSUME NEW k \in 1..Len(all) PROVE all[k].at >= b
        BY DEF AtLeast
    <2>1. CASE k <= Len(kept)
        <3>1. all[k] = kept[k] /\ k \in 1..Len(kept)
            BY <1>2, <2>1
        <3>2. CASE kept = h
            BY <3>1, <3>2 DEF AtLeast
        <3>3. CASE kept = <<>>
            BY <3>1, <3>3
        <3> QED
            BY <3>2, <3>3
    <2>2. CASE k = Len(kept) + 1
        BY <1>2, <2>2
    <2> QED
        BY <1>2, <2>1, <2>2
<1> HIDE DEF all
<1> DEFINE tail == SubSeq(all, d + 1, Len(all))
<1>4. \A k \in 1..Len(tail) : tail[k] = all[k + d] /\ k + d \in 1..Len(all)
    BY <1>1, <1>2
<1> HIDE DEF tail
<1>5. AtLeast(tail, b)
    BY <1>3, <1>4 DEF AtLeast
<1> QED
    BY <1>1, <1>5 DEF all, tail

-----------------------------------------------------------------------------
(* What a slot keeps through every operation.  The parts are those of      *)
(* AbsenceNeverHidesPower and CommandsReserved, and two facts they need:   *)
(* a slot that may be switched on is tracked, and only the slot of a       *)
(* monitored reader ever holds a reservation.                              *)

SlotSafe(i, s) ==
    /\ s.absent => ~s.held /\ ~s.offPending /\ ~s.valid
    /\ s.active => s.held
    /\ s.offPending => s.held
    /\ s.identityUncertain => s.held /\ ~s.active
    /\ s.held => s.powerTracked
    /\ s.eligible => s.powerTracked
    /\ s.held => i \in Monitored

SlotOK(i, s) == s \in SlotType /\ SlotSafe(i, s)

(* An operation that never leaves an unanswered ON where there was none. *)
Quiet(i, s, t) == SlotOK(i, t) /\ (Unconfirmed(t) => Unconfirmed(s))

(* The samples of a slot have no part in its safety. *)
LEMMA HistoryQuiet ==
    ASSUME NEW i \in Slots, NEW s, SlotOK(i, s), NEW h \in Seq(HistorySample)
    PROVE  Quiet(i, s, [s EXCEPT !.history = h])
<1>1. [s EXCEPT !.history = h] \in SlotType
    BY DEF SlotOK, SlotType
<1>2. /\ SlotSafe(i, [s EXCEPT !.history = h])
      /\ Unconfirmed([s EXCEPT !.history = h]) => Unconfirmed(s)
    BY DEF SlotOK, SlotSafe, SlotType, Unconfirmed
<1> QED
    BY <1>1, <1>2 DEF Quiet, SlotOK

(* Operations compose. *)
LEMMA QuietTrans ==
    ASSUME NEW i, NEW s, NEW t, NEW u, Quiet(i, s, t), Quiet(i, t, u)
    PROVE  Quiet(i, s, u)
BY DEF Quiet

(* A new identity keeps the reservation and is never taken for a supply    *)
(* that is known to run.                                                   *)
LEMMA ReplaceIdentityQuiet ==
    ASSUME NEW i \in Slots, NEW s, SlotOK(i, s), NEW uid \in Uids \cup {NoUid}
    PROVE  Quiet(i, s, ReplaceIdentity(s, uid))
<1>1. ReplaceIdentity(s, uid) \in SlotType
    BY ReplaceIdentityType DEF SlotOK
<1>2. LET r == ReplaceIdentity(s, uid)
      IN  /\ r.absent = FALSE /\ r.active = FALSE /\ r.valid = FALSE
          /\ r.held = s.held /\ r.offPending = s.offPending
          /\ r.identityUncertain = s.held /\ r.haveFrame = FALSE
          /\ r.written = Zero /\ r.lastOnAt = s.lastOnAt /\ r.offAt = s.offAt
          /\ r.powerTracked = s.powerTracked /\ r.eligible = s.eligible
    BY DEF ReplaceIdentity, EmptySlot
<1> QED
    BY <1>1, <1>2 DEF Quiet, SlotOK, SlotSafe, Unconfirmed, SlotType

(* The fields of a recorded reading, before the command state is resolved. *)
LEMMA RecordedFields ==
    ASSUME NEW i \in Slots, NEW s, SlotOK(i, s), NEW data \in FrameType, NEW t \in Nat
    PROVE  /\ Quiet(i, s, Recorded(s, data, t))
           /\ Recorded(s, data, t).frame = data
           /\ ~Recorded(s, data, t).absent
           /\ Recorded(s, data, t).held = s.held
           /\ Recorded(s, data, t).offPending = s.offPending
           /\ Recorded(s, data, t).lastOnAt = s.lastOnAt
           /\ Recorded(s, data, t).offAt = s.offAt
           /\ Recorded(s, data, t).observed = t
           /\ data.state = "active" => Recorded(s, data, t).powerTracked
<1> DEFINE base == IF IdentityChanged(s, data) THEN ReplaceIdentity(s, s.uid) ELSE s
           written == IF base.haveFrame /\ statusFrameChanged(base.frame, data)
                      THEN t ELSE base.written
           valid == /\ data.present /\ data.voltage > 0
                    /\ data.state \in {"active", "idle", "asleep"}
                    /\ written # Zero
           tracked == base.powerTracked \/ data.state = "active"
           serial == IF data.serial = NoSerial THEN base.serial ELSE data.serial
           record(b, p, c, w, v) == [b EXCEPT
                !.powerTracked = p, !.serial = c, !.written = w,
                !.frame = data, !.haveFrame = TRUE, !.observed = t,
                !.absent = FALSE, !.valid = v]
<1>1. s.uid \in Uids \cup {NoUid}
    BY DEF SlotOK, SlotType
<1>2. /\ Quiet(i, s, base) /\ base.held = s.held /\ base.offPending = s.offPending
      /\ base.lastOnAt = s.lastOnAt /\ base.offAt = s.offAt
    <2>1. CASE IdentityChanged(s, data)
        <3>1. Quiet(i, s, ReplaceIdentity(s, s.uid))
            BY <1>1, ReplaceIdentityQuiet
        <3>2. LET r == ReplaceIdentity(s, s.uid)
              IN  /\ r.held = s.held /\ r.offPending = s.offPending
                  /\ r.lastOnAt = s.lastOnAt /\ r.offAt = s.offAt
            BY DEF ReplaceIdentity, EmptySlot
        <3> QED
            BY <2>1, <3>1, <3>2
    <2>2. CASE ~IdentityChanged(s, data)
        BY <2>2 DEF Quiet
    <2> QED
        BY <2>1, <2>2
<1>3. base \in SlotType
    BY <1>2 DEF Quiet, SlotOK
<1> HIDE DEF base
<1>4. /\ written \in Nat /\ valid \in BOOLEAN /\ tracked \in BOOLEAN
      /\ serial \in Serials \cup {NoSerial}
      /\ (base.powerTracked => tracked) /\ (data.state = "active" => tracked)
    BY <1>3 DEF SlotType, FrameType
<1>5. Recorded(s, data, t) = record(base, tracked, serial, written, valid)
    BY DEF Recorded, base
<1> HIDE DEF written, valid, tracked, serial
<1>6. ASSUME NEW p \in BOOLEAN, NEW c \in Serials \cup {NoSerial}, NEW w \in Nat,
             NEW v \in BOOLEAN, base.powerTracked => p
      PROVE  LET r == record(base, p, c, w, v)
             IN  /\ Quiet(i, base, r) /\ r.frame = data /\ r.absent = FALSE
                 /\ r.held = base.held /\ r.offPending = base.offPending
                 /\ r.lastOnAt = base.lastOnAt /\ r.offAt = base.offAt
                 /\ r.observed = t /\ r.powerTracked = p
    <2>1. record(base, p, c, w, v) \in SlotType
        BY <1>3 DEF SlotType
    <2>2. LET r == record(base, p, c, w, v)
          IN  /\ r.frame = data /\ r.absent = FALSE /\ r.held = base.held
              /\ r.offPending = base.offPending /\ r.lastOnAt = base.lastOnAt
              /\ r.offAt = base.offAt /\ r.observed = t /\ r.powerTracked = p
              /\ r.active = base.active /\ r.eligible = base.eligible
              /\ r.identityUncertain = base.identityUncertain
        BY <1>3 DEF SlotType
    <2> HIDE DEF record
    <2> QED
        BY <1>2, <1>3, <1>6, <2>1, <2>2 DEF Quiet, SlotOK, SlotSafe, Unconfirmed, SlotType
<1> HIDE DEF record
<1> DEFINE r == record(base, tracked, serial, written, valid)
<1>7. /\ Quiet(i, base, r) /\ r.frame = data /\ r.absent = FALSE
      /\ r.held = base.held /\ r.offPending = base.offPending
      /\ r.lastOnAt = base.lastOnAt /\ r.offAt = base.offAt
      /\ r.observed = t /\ r.powerTracked = tracked
    BY <1>4, <1>6, ZenonT(60)
<1> HIDE DEF r
<1>8. Quiet(i, s, r)
    BY <1>2, <1>7, QuietTrans
<1>9. Recorded(s, data, t) = r
    BY <1>5 DEF r
<1> QED
    BY <1>2, <1>4, <1>7, <1>8, <1>9

(* Resolving a reading: an ACTIVE reading confirms the supply, positive    *)
(* evidence releases it, and everything else leaves it reserved.           *)
LEMMA ResolvedQuiet ==
    ASSUME NEW i \in Monitored, NEW s, SlotOK(i, s), ~s.absent, NEW t \in Nat,
           s.frame.state = "active" => s.powerTracked
    PROVE  /\ Quiet(i, s, Resolved(s, t))
           /\ s.held /\ ~Resolved(s, t).held => OffEvidence(s, t)
           /\ Resolved(s, t).valid = s.valid /\ Resolved(s, t).frame = s.frame
           /\ Resolved(s, t).written = s.written
<1>1. CASE s.valid /\ s.frame.state = "active"
    <2> DEFINE r == [s EXCEPT !.held = TRUE, !.active = TRUE, !.identityUncertain = FALSE]
    <2>1. r \in SlotType
        BY DEF SlotOK, SlotType
    <2>2. /\ r.held = TRUE /\ r.active = TRUE /\ r.identityUncertain = FALSE
          /\ r.absent = s.absent /\ r.offPending = s.offPending
          /\ r.powerTracked = s.powerTracked /\ r.eligible = s.eligible
          /\ r.valid = s.valid /\ r.frame = s.frame /\ r.written = s.written
        BY DEF SlotOK, SlotType
    <2>3. Resolved(s, t) = r
        BY <1>1 DEF Resolved
    <2> HIDE DEF r
    <2> QED
        BY <1>1, <2>1, <2>2, <2>3, ZenonT(60) DEF Quiet, SlotOK, SlotSafe, Unconfirmed, SlotType
<1>2. CASE ~(s.valid /\ s.frame.state = "active") /\ OffEvidence(s, t)
    <2> DEFINE r == [s EXCEPT !.held = FALSE, !.active = FALSE, !.offPending = FALSE,
                              !.identityUncertain = FALSE]
    <2>1. r \in SlotType
        BY DEF SlotOK, SlotType
    <2>2. /\ r.held = FALSE /\ r.active = FALSE /\ r.identityUncertain = FALSE
          /\ r.absent = s.absent /\ r.offPending = FALSE
          /\ r.powerTracked = s.powerTracked /\ r.eligible = s.eligible
          /\ r.valid = s.valid /\ r.frame = s.frame /\ r.written = s.written
        BY DEF SlotOK, SlotType
    <2>3. Resolved(s, t) = r
        BY <1>2 DEF Resolved
    <2> HIDE DEF r
    <2> QED
        BY <1>2, <2>1, <2>2, <2>3 DEF Quiet, SlotOK, SlotSafe, Unconfirmed, SlotType
<1>3. CASE ~(s.valid /\ s.frame.state = "active") /\ ~OffEvidence(s, t)
    BY <1>3 DEF Resolved, Quiet
<1> QED
    BY <1>1, <1>2, <1>3

-----------------------------------------------------------------------------
(* The other operations on one slot. *)

(* The same tag, selected again. *)
LEMMA RediscoveredQuiet ==
    ASSUME NEW i \in Slots, NEW s, SlotOK(i, s),
           NEW q \in BOOLEAN
    PROVE  Quiet(i, s, [s EXCEPT !.valid = FALSE, !.haveFrame = FALSE,
                !.written = Zero, !.absent = FALSE, !.requiresAdmission = q])
<1> DEFINE r == [s EXCEPT !.valid = FALSE, !.haveFrame = FALSE,
                !.written = Zero, !.absent = FALSE, !.requiresAdmission = q]
<1>1. r \in SlotType
    BY DEF SlotOK, SlotType, Zero
<1>2. /\ r.held = s.held /\ r.active = s.active /\ r.offPending = s.offPending
      /\ r.identityUncertain = s.identityUncertain
      /\ r.powerTracked = s.powerTracked /\ r.eligible = s.eligible
      /\ r.absent = FALSE
    BY DEF SlotOK, SlotType
<1> HIDE DEF r
<1>3. Quiet(i, s, r)
    BY <1>1, <1>2 DEF Quiet, SlotOK, SlotSafe, Unconfirmed, SlotType
<1> QED
    BY <1>3 DEF r

(* A quiet discovery poll. *)
LEMMA AbsentQuiet ==
    ASSUME NEW i \in Slots, NEW s, SlotOK(i, s),
           NEW q \in BOOLEAN, NEW a \in BOOLEAN, a => ~s.held, NEW t \in Nat
    PROVE  Quiet(i, s, [s EXCEPT !.valid = FALSE, !.haveFrame = FALSE,
                !.written = Zero, !.observedRound = 0, !.requiresAdmission = q,
                !.absent = a, !.observed = t])
<1> DEFINE r == [s EXCEPT !.valid = FALSE, !.haveFrame = FALSE,
                !.written = Zero, !.observedRound = 0, !.requiresAdmission = q,
                !.absent = a, !.observed = t]
<1>1. r \in SlotType
    BY DEF SlotOK, SlotType, Zero
<1>2. /\ r.held = s.held /\ r.active = s.active /\ r.offPending = s.offPending
      /\ r.identityUncertain = s.identityUncertain
      /\ r.powerTracked = s.powerTracked /\ r.eligible = s.eligible
      /\ r.absent = a /\ r.valid = FALSE
    BY DEF SlotOK, SlotType
<1> HIDE DEF r
<1>3. Quiet(i, s, r)
    BY <1>1, <1>2 DEF Quiet, SlotOK, SlotSafe, Unconfirmed, SlotType
<1> QED
    BY <1>3 DEF r

(* A failed read. *)
LEMMA FailedQuiet ==
    ASSUME NEW i \in Slots, NEW s, SlotOK(i, s)
    PROVE  Quiet(i, s, [s EXCEPT !.valid = FALSE, !.absent = FALSE])
<1> DEFINE r == [s EXCEPT !.valid = FALSE, !.absent = FALSE]
<1>1. r \in SlotType
    BY DEF SlotOK, SlotType
<1>2. /\ r.held = s.held /\ r.active = s.active /\ r.offPending = s.offPending
      /\ r.identityUncertain = s.identityUncertain
      /\ r.powerTracked = s.powerTracked /\ r.eligible = s.eligible
      /\ r.absent = FALSE
    BY DEF SlotOK, SlotType
<1> HIDE DEF r
<1>3. Quiet(i, s, r)
    BY <1>1, <1>2 DEF Quiet, SlotOK, SlotSafe, Unconfirmed, SlotType
<1> QED
    BY <1>3 DEF r

(* A change of the seatbox lock. *)
LEMMA SeatboxQuiet ==
    ASSUME NEW i \in Slots, NEW s, SlotOK(i, s), NEW q \in BOOLEAN
    PROVE  Quiet(i, s, [s EXCEPT !.valid = FALSE, !.observedRound = 0,
                !.requiresAdmission = q])
<1> DEFINE r == [s EXCEPT !.valid = FALSE, !.observedRound = 0,
                !.requiresAdmission = q]
<1>1. r \in SlotType
    BY DEF SlotOK, SlotType
<1>2. /\ r.held = s.held /\ r.active = s.active /\ r.offPending = s.offPending
      /\ r.identityUncertain = s.identityUncertain
      /\ r.powerTracked = s.powerTracked /\ r.eligible = s.eligible
      /\ r.absent = s.absent /\ r.valid = FALSE
    BY DEF SlotOK, SlotType
<1> HIDE DEF r
<1>3. Quiet(i, s, r)
    BY <1>1, <1>2 DEF Quiet, SlotOK, SlotSafe, Unconfirmed, SlotType
<1> QED
    BY <1>3 DEF r

(* A change of role. *)
LEMMA RoleQuiet ==
    ASSUME NEW i \in Slots, NEW s, SlotOK(i, s),
           NEW e \in BOOLEAN, NEW p \in BOOLEAN, e => p, s.powerTracked => p
    PROVE  Quiet(i, s, [s EXCEPT !.eligible = e, !.powerTracked = p])
<1> DEFINE r == [s EXCEPT !.eligible = e, !.powerTracked = p]
<1>1. r \in SlotType
    BY DEF SlotOK, SlotType
<1>2. /\ r.held = s.held /\ r.active = s.active /\ r.offPending = s.offPending
      /\ r.identityUncertain = s.identityUncertain
      /\ r.powerTracked = p /\ r.eligible = e
      /\ r.absent = s.absent /\ r.valid = s.valid
    BY DEF SlotOK, SlotType
<1> HIDE DEF r
<1>3. Quiet(i, s, r)
    BY <1>1, <1>2 DEF Quiet, SlotOK, SlotSafe, Unconfirmed, SlotType
<1> QED
    BY <1>3 DEF r

(* A repeated ON. *)
LEMMA GrantedQuiet ==
    ASSUME NEW i \in Slots, NEW s, SlotOK(i, s), now \in Nat
    PROVE  Quiet(i, s, Granted(s))
<1> DEFINE r == Granted(s)
<1>1. r \in SlotType
    BY DEF Granted, SlotOK, SlotType
<1>2. /\ r.held = s.held /\ r.active = s.active /\ r.offPending = s.offPending
      /\ r.identityUncertain = s.identityUncertain
      /\ r.powerTracked = s.powerTracked /\ r.eligible = s.eligible
      /\ r.absent = s.absent /\ r.valid = s.valid
    BY DEF Granted, SlotOK, SlotType
<1> HIDE DEF r
<1>3. Quiet(i, s, r)
    BY <1>1, <1>2 DEF Quiet, SlotOK, SlotSafe, Unconfirmed, SlotType
<1> QED
    BY <1>3 DEF r

(* An OFF is recorded only for a reserved slot. *)
LEMMA OffReservedQuiet ==
    ASSUME NEW i \in Slots, NEW s, SlotOK(i, s), now \in Nat
    PROVE  Quiet(i, s, OffReserved(s))
<1>1. CASE s.held /\ (~s.offPending \/ s.lastOnAt > s.offAt)
    <2> DEFINE r == [s EXCEPT !.offPending = TRUE, !.offAt = now]
    <2>1. r \in SlotType
        BY DEF SlotOK, SlotType
    <2>2. /\ r.held = s.held /\ r.active = s.active /\ r.offPending = TRUE
          /\ r.identityUncertain = s.identityUncertain
          /\ r.powerTracked = s.powerTracked /\ r.eligible = s.eligible
          /\ r.absent = s.absent /\ r.valid = s.valid
        BY DEF SlotOK, SlotType
    <2> HIDE DEF r
    <2>3. Quiet(i, s, r)
        BY <1>1, <2>1, <2>2 DEF Quiet, SlotOK, SlotSafe, Unconfirmed, SlotType
    <2> QED
        BY <1>1, <2>3 DEF OffReserved, r
<1>2. CASE ~(s.held /\ (~s.offPending \/ s.lastOnAt > s.offAt))
    BY <1>2 DEF OffReserved, Quiet
<1> QED
    BY <1>1, <1>2

(* A new reservation. *)
LEMMA ReservedOK ==
    ASSUME NEW i \in Monitored, NEW s, SlotOK(i, s), s.eligible, s.valid, now \in Nat
    PROVE  SlotOK(i, [Granted(s) EXCEPT !.held = TRUE, !.onAt = now])
<1> DEFINE r == [Granted(s) EXCEPT !.held = TRUE, !.onAt = now]
<1>1. r \in SlotType
    BY DEF Granted, SlotOK, SlotType
<1>2. /\ r.held = TRUE /\ r.active = s.active /\ r.offPending = s.offPending
      /\ r.identityUncertain = s.identityUncertain
      /\ r.powerTracked = s.powerTracked /\ r.eligible = s.eligible
      /\ r.absent = s.absent /\ r.valid = s.valid
    BY DEF Granted, SlotOK, SlotType
<1> HIDE DEF r
<1>3. SlotOK(i, r)
    BY <1>1, <1>2 DEF SlotOK, SlotSafe, SlotType
<1> QED
    BY <1>3 DEF r

-----------------------------------------------------------------------------
(* From one slot to the two of them. *)

SlotsQuiet(ss) ==
    /\ ss \in [Slots -> SlotType]
    /\ \A j \in Slots : Quiet(j, slots[j], ss[j])

SlotsOK == slots \in [Slots -> SlotType] /\ \A i \in Slots : SlotOK(i, slots[i])

(* Forgetting the samples of both packs is quiet. *)
LEMMA ForgetQuiet ==
    ASSUME NEW ss, SlotsQuiet(ss)
    PROVE  SlotsQuiet(Forget(ss))
<1>1. Forget(ss) \in [Slots -> SlotType]
    BY ForgetType DEF SlotsQuiet
<1>2. <<>> \in Seq(HistorySample)
    OBVIOUS
<1>3. ASSUME NEW j \in Slots
      PROVE  Quiet(j, slots[j], Forget(ss)[j])
    <2>1. Quiet(j, slots[j], ss[j]) /\ SlotOK(j, ss[j])
        BY DEF SlotsQuiet, Quiet
    <2>2. Quiet(j, ss[j], [ss[j] EXCEPT !.history = <<>>])
        BY <1>2, <2>1, HistoryQuiet
    <2>3. Forget(ss)[j] = [ss[j] EXCEPT !.history = <<>>]
        BY ForgetType DEF SlotsQuiet
    <2> QED
        BY <2>1, <2>2, <2>3, QuietTrans
<1> QED
    BY <1>1, <1>3 DEF SlotsQuiet

(* Changing one slot quietly is quiet. *)
LEMMA UpdateQuiet ==
    ASSUME SlotsOK, NEW i \in Slots, NEW r, Quiet(i, slots[i], r)
    PROVE  SlotsQuiet([slots EXCEPT ![i] = r])
<1>1. r \in SlotType
    BY DEF Quiet, SlotOK
<1>2. \A j \in Slots : Quiet(j, slots[j], slots[j])
    BY DEF SlotsOK, Quiet
<1> QED
    BY <1>1, <1>2 DEF SlotsQuiet, SlotsOK

-----------------------------------------------------------------------------
(* The inductive invariant.  OneOutstandingActivation needs to know that   *)
(* requestOn never skips the peer of a reserved slot, hence that only      *)
(* monitored slots are reserved (SlotSafe), hence that only monitored      *)
(* readers read.                                                           *)

ReadersMonitored == \A i \in Slots : reading[i].busy => i \in Monitored

Inv ==
    /\ TypeOK
    /\ \A i \in Slots : SlotSafe(i, slots[i])
    /\ OneOutstandingActivation
    /\ ReadersMonitored

(* What TypeOK says of everything but the slots. *)
RestType ==
    /\ now \in Nat /\ now >= StartTime /\ wall \in Int
    /\ vehicle \in Vehicles /\ seatboxClosed \in BOOLEAN /\ coordinated \in BOOLEAN
    /\ isolation \in IsolationType /\ round \in RoundType
    /\ paired \in [at: Nat, id: Nat]
    /\ next \in Nat /\ stopping \in BOOLEAN
    /\ motion \in MotionType /\ maxDelta \in Nat
    /\ selected \in [Slots -> Uids \cup {NoUid}]
    /\ reading \in [Slots -> [busy: BOOLEAN, id: Nat, from: Nat]]

(* The invariant gives the types the operators need. *)
LEMMA InvParts == Inv => SlotsOK /\ RestType
BY DEF Inv, TypeOK, SlotsOK, SlotOK, RestType

(* A step that is quiet on the slots and type correct elsewhere. *)
LEMMA QuietStep ==
    ASSUME Inv, SlotsQuiet(slots'), RestType', ReadersMonitored'
    PROVE  Inv'
<1>1. TypeOK'
    BY DEF SlotsQuiet, RestType, TypeOK
<1>2. \A i \in Slots : SlotSafe(i, slots'[i])
    BY DEF SlotsQuiet, Quiet, SlotOK
<1>3. OneOutstandingActivation'
    BY DEF SlotsQuiet, Quiet, Inv, OneOutstandingActivation
<1> QED
    BY <1>1, <1>2, <1>3 DEF Inv, SlotSafe

(* A cancelled round is a round. *)
LEMMA CancelRoundType ==
    CancelRound => round' \in RoundType /\ paired' \in [at: Nat, id: Nat]
<1>1. NoSample \in SampleType
    BY DEF NoSample, SampleType, Zero
<1> QED
    BY <1>1 DEF CancelRound, RoundType, NoRound, NoPair, Zero

(* Leaving the slots alone is quiet. *)
LEMMA UnchangedSlotsQuiet == SlotsOK => SlotsQuiet(slots)
BY DEF SlotsOK, SlotsQuiet, Quiet

-----------------------------------------------------------------------------
(* One lemma per action. *)

(* Sampling rounds open without touching a reservation. *)
LEMMA BeginRoundInv == Inv /\ BeginRound => Inv'
<1> SUFFICES ASSUME Inv, BeginRound PROVE Inv'
    OBVIOUS
<1>1. SlotsOK /\ RestType
    BY InvParts
<1>2. SlotsQuiet(slots')
    BY <1>1, UnchangedSlotsQuiet, ForgetQuiet DEF BeginRound
<1>3. round' \in RoundType
    <2>1. NoSample \in SampleType
        BY DEF NoSample, SampleType, Zero
    <2>2. NoRound \in RoundType
        BY <2>1 DEF NoRound, RoundType, Zero
    <2>3. ASSUME NEW r \in RoundType, NEW n \in Nat, NEW t \in Nat
          PROVE  [r EXCEPT !.id = n, !.opened = t] \in RoundType
        BY DEF RoundType
    <2>4. next + 1 \in Nat /\ now \in Nat
        BY <1>1 DEF RestType
    <2>5. round' = [NoRound EXCEPT !.id = next + 1, !.opened = now]
        BY DEF BeginRound
    <2> QED
        BY <2>2, <2>3, <2>4, <2>5
<1>4. NoPair \in [at: Nat, id: Nat]
    BY DEF NoPair, Zero
<1>5. RestType'
    BY <1>1, <1>3, <1>4 DEF BeginRound, RestType, clock, vehicleVars, readerVars
<1>6. ReadersMonitored'
    BY DEF Inv, ReadersMonitored, BeginRound, readerVars
<1> QED
    BY <1>2, <1>5, <1>6, QuietStep

(* Shutting the sampler down. *)
LEMMA StopSamplingInv == Inv /\ StopSampling => Inv'
<1> SUFFICES ASSUME Inv, StopSampling PROVE Inv'
    OBVIOUS
<1>1. SlotsOK /\ RestType
    BY InvParts
<1>2. SlotsQuiet(slots')
    BY <1>1, UnchangedSlotsQuiet, ForgetQuiet DEF StopSampling
<1>3. RestType'
    BY <1>1, CancelRoundType DEF StopSampling, RestType, clock, vehicleVars, readerVars
<1>4. ReadersMonitored'
    BY DEF Inv, ReadersMonitored, StopSampling, readerVars
<1> QED
    BY <1>2, <1>3, <1>4, QuietStep

(* A tag is selected. *)
LEMMA TagInv ==
    ASSUME Inv, NEW i \in Slots, NEW uid \in Uids, Tag(i, uid)
    PROVE  Inv'
<1>1. SlotsOK /\ RestType /\ SlotOK(i, slots[i])
    BY InvParts DEF SlotsOK
<1> DEFINE s == slots[i]
           q == s.requiresAdmission \/ vehicle \in NonDriving
           rediscovered == [s EXCEPT !.valid = FALSE, !.haveFrame = FALSE,
                !.written = Zero, !.absent = FALSE, !.requiresAdmission = q]
           r == IF s.uid = uid THEN rediscovered ELSE ReplaceIdentity(s, uid)
<1>2. q \in BOOLEAN
    OBVIOUS
<1> HIDE DEF q
<1>3. Quiet(i, s, rediscovered)
    BY <1>1, <1>2, RediscoveredQuiet
<1>4. Quiet(i, s, ReplaceIdentity(s, uid))
    BY <1>1, ReplaceIdentityQuiet
<1>5. Quiet(i, slots[i], r)
    BY <1>3, <1>4
<1>6. slots' = Forget([slots EXCEPT ![i] = r])
    BY DEF Tag, q
<1> HIDE DEF r
<1>7. SlotsQuiet(slots')
    BY <1>1, <1>5, <1>6, UpdateQuiet, ForgetQuiet
<1>8. RestType'
    BY <1>1, CancelRoundType DEF Tag, RestType, clock, vehicleVars
<1>9. ReadersMonitored'
    BY <1>1 DEF Inv, ReadersMonitored, Tag, RestType
<1> QED
    BY <1>7, <1>8, <1>9, QuietStep

(* A pack is out of sight. *)
LEMMA ObserveAbsentInv ==
    ASSUME Inv, NEW i \in Slots, NEW departed \in BOOLEAN, ObserveAbsent(i, departed)
    PROVE  Inv'
<1>1. SlotsOK /\ RestType /\ SlotOK(i, slots[i])
    BY InvParts DEF SlotsOK
<1> DEFINE s == slots[i]
           q == s.requiresAdmission \/ vehicle \in NonDriving
           a == ~s.held
           r == [s EXCEPT !.valid = FALSE, !.haveFrame = FALSE,
                !.written = Zero, !.observedRound = 0, !.requiresAdmission = q,
                !.absent = a, !.observed = now]
<1>2. q \in BOOLEAN /\ a \in BOOLEAN /\ (a => ~s.held) /\ now \in Nat
    BY <1>1 DEF RestType
<1>3. slots' = Forget([slots EXCEPT ![i] = r])
    BY DEF ObserveAbsent
<1> HIDE DEF q, a
<1>4. Quiet(i, slots[i], r)
    BY <1>1, <1>2, AbsentQuiet
<1> HIDE DEF r
<1>5. SlotsQuiet(slots')
    BY <1>1, <1>3, <1>4, UpdateQuiet, ForgetQuiet
<1>6. RestType'
    BY <1>1, CancelRoundType DEF ObserveAbsent, RestType, clock, vehicleVars
<1>7. ReadersMonitored'
    BY DEF Inv, ReadersMonitored, ObserveAbsent
<1> QED
    BY <1>5, <1>6, <1>7, QuietStep

(* A status read begins. *)
LEMMA StartReadInv ==
    ASSUME Inv, NEW i \in Slots, StartRead(i)
    PROVE  Inv'
<1>1. SlotsOK /\ RestType
    BY InvParts
<1>2. SlotsQuiet(slots')
    BY <1>1, UnchangedSlotsQuiet DEF StartRead
<1>3. RestType'
    BY <1>1 DEF StartRead, RestType, RoundType, clock, vehicleVars
<1>4. ReadersMonitored'
    BY <1>1 DEF Inv, ReadersMonitored, StartRead, Idle, RestType
<1> QED
    BY <1>2, <1>3, <1>4, QuietStep

(* A status read fails. *)
LEMMA FailReadInv ==
    ASSUME Inv, NEW i \in Slots, FailRead(i)
    PROVE  Inv'
<1>1. SlotsOK /\ RestType /\ SlotOK(i, slots[i])
    BY InvParts DEF SlotsOK
<1> DEFINE r == [slots[i] EXCEPT !.valid = FALSE, !.absent = FALSE]
<1>2. slots' = Forget([slots EXCEPT ![i] = r])
    BY <1>1 DEF FailRead, SlotsOK
<1>3. Quiet(i, slots[i], r)
    BY <1>1, FailedQuiet
<1> HIDE DEF r
<1>4. SlotsQuiet(slots')
    BY <1>1, <1>2, <1>3, UpdateQuiet, ForgetQuiet
<1>5. NoRead \in [busy: BOOLEAN, id: Nat, from: Nat] /\ NoRead.busy = FALSE
    BY DEF NoRead, Zero
<1>6. RestType'
    BY <1>1, <1>5, CancelRoundType DEF FailRead, EndRead, RestType, clock, vehicleVars
<1>7. ReadersMonitored'
    BY <1>1, <1>5 DEF Inv, ReadersMonitored, FailRead, EndRead, RestType
<1> QED
    BY <1>4, <1>6, <1>7, QuietStep

(* The isolation episode after a reading is an episode. *)
LEMMA IsolationAfterType ==
    ASSUME isolation \in IsolationType, NEW i, NEW s, NEW t
    PROVE  IsolationAfter(i, s, t) \in IsolationType
<1>1. NoIsolation \in IsolationType
    BY DEF NoIsolation, IsolationType, Slots
<1>2. [isolation EXCEPT !.offConfirmed = TRUE] \in IsolationType
    BY DEF IsolationType
<1> QED
    BY <1>1, <1>2 DEF IsolationAfter

(* A status read completes: the reservation of its slot is confirmed,      *)
(* released on evidence, or left alone.                                    *)
LEMMA FinishReadInv ==
    ASSUME Inv, NEW i \in Slots, NEW data \in FrameType, NEW start, NEW end,
           FinishRead(i, data, start, end)
    PROVE  Inv'
<1> DEFINE id == reading[i].id
           seen == Recorded(slots[i], data, now)
           cancelled == \/ IdentityChanged(slots[i], data)
                        \/ OffEvidence(seen, now) /\ seen.held
           res == Resolved(seen, now)
           s == [res EXCEPT !.observedRound = id,
                            !.history = IF cancelled \/ ~seen.valid THEN <<>> ELSE @]
           after == LET ss == [slots EXCEPT ![i] = s]
                    IN  IF cancelled THEN Forget(ss) ELSE ss
           sample == [start |-> start, end |-> end, complete |-> now,
                      voltage |-> data.voltage, current |-> data.current]
           samples == [round.samples EXCEPT ![i] = sample]
           single == [voltage |-> data.voltage, current |-> data.current, at |-> now]
<1>1. SlotsOK /\ RestType /\ SlotOK(i, slots[i])
    BY InvParts DEF SlotsOK
<1>2. /\ i \in Monitored /\ reading[i].busy /\ id \in Nat
      /\ now \in Nat /\ reading[i].from \in Nat
    BY <1>1 DEF FinishRead, EndRead, Inv, ReadersMonitored, RestType
<1>3. start \in Nat /\ end \in Nat
    <2>1. start \in reading[i].from..now /\ end \in start..now
        BY Zenon DEF FinishRead
    <2> QED
        BY <1>2, <2>1
<1>4. /\ Quiet(i, slots[i], seen) /\ ~seen.absent /\ seen.frame = data
      /\ (data.state = "active" => seen.powerTracked)
    <2>1. i \in Slots /\ SlotOK(i, slots[i]) /\ data \in FrameType /\ now \in Nat
        BY <1>1, <1>2
    <2> DEFINE r == Recorded(slots[i], data, now)
    <2>2. Quiet(i, slots[i], r)
        BY <2>1, RecordedFields, Zenon
    <2>3. ~r.absent
        BY <2>1, RecordedFields, Zenon
    <2>4. r.frame = data
        BY <2>1, RecordedFields, Zenon
    <2>5. data.state = "active" => r.powerTracked
        BY <2>1, RecordedFields, Zenon
    <2> QED
        BY <2>2, <2>3, <2>4, <2>5
<1> HIDE DEF seen
<1>5. Quiet(i, slots[i], res)
    <2>1. SlotOK(i, seen)
        BY <1>4 DEF Quiet
    <2>2. Quiet(i, seen, res)
        BY <1>2, <1>4, <2>1, ResolvedQuiet
    <2> HIDE DEF res
    <2> QED
        BY <1>4, <2>2, QuietTrans
<1> HIDE DEF res, cancelled
<1>6. Quiet(i, slots[i], s)
    <2>1. SlotOK(i, res) /\ res \in SlotType
        BY <1>5 DEF Quiet, SlotOK
    <2> DEFINE h == IF cancelled \/ ~seen.valid THEN <<>> ELSE res.history
    <2>2. h \in Seq(HistorySample)
        <3>1. <<>> \in Seq(HistorySample)
            OBVIOUS
        <3> QED BY <2>1, <3>1 DEF SlotType
    <2>3. s = [res EXCEPT !.observedRound = id, !.history = h]
        BY <2>1 DEF SlotType
    <2> HIDE DEF h, s
    <2>4. s \in SlotType
        BY <1>2, <2>1, <2>2, <2>3 DEF SlotType
    <2>5. /\ s.held = res.held /\ s.active = res.active
          /\ s.offPending = res.offPending /\ s.absent = res.absent
          /\ s.identityUncertain = res.identityUncertain /\ s.valid = res.valid
          /\ s.powerTracked = res.powerTracked /\ s.eligible = res.eligible
        BY <2>1, <2>3 DEF SlotType
    <2> QED
        BY <1>5, <2>4, <2>5 DEF Quiet, SlotOK, SlotSafe, Unconfirmed
<1> HIDE DEF s
<1>7. SlotsQuiet(after)
    BY <1>1, <1>6, UpdateQuiet, ForgetQuiet
<1> HIDE DEF after
<1>8. sample \in SampleType /\ single \in HistorySample
    BY <1>2, <1>3 DEF SampleType, HistorySample, FrameType
<1> HIDE DEF sample, single
<1>9. samples \in [Slots -> SampleType]
    BY <1>1, <1>8, SMTT(40) DEF RestType, RoundType
<1> HIDE DEF samples
<1>10. /\ SlotsQuiet(slots')
       /\ round' \in RoundType /\ paired' \in [at: Nat, id: Nat]
    <2>1. CASE /\ ~coordinated
               /\ slots' = IF s.valid THEN [after EXCEPT ![i].history = AppendHistory(@, single)]
                                      ELSE after
               /\ UNCHANGED <<round, paired>>
        <3>1. after[i] \in SlotType /\ SlotOK(i, after[i]) /\ after \in [Slots -> SlotType]
            BY <1>7 DEF SlotsQuiet, Quiet, SlotOK
        <3> DEFINE h == AppendHistory(after[i].history, single)
                   r == [after[i] EXCEPT !.history = h]
        <3>2. h \in Seq(HistorySample)
            BY <1>8, <3>1, AppendHistoryType DEF SlotType
        <3>3. [after EXCEPT ![i].history = AppendHistory(@, single)] = [after EXCEPT ![i] = r]
            BY <3>1
        <3> HIDE DEF h
        <3>4. Quiet(i, after[i], r)
            BY <3>1, <3>2, HistoryQuiet
        <3> HIDE DEF r
        <3>5. Quiet(i, slots[i], r) /\ r \in SlotType
            BY <1>7, <3>4, QuietTrans DEF SlotsQuiet, Quiet, SlotOK
        <3>6. SlotsQuiet([after EXCEPT ![i] = r])
            BY <1>7, <3>5 DEF SlotsQuiet
        <3> QED
            BY <1>1, <1>7, <2>1, <3>3, <3>6 DEF RestType
    <2>2. CASE slots' = Forget(after) /\ CancelRound
        BY <1>7, <2>2, ForgetQuiet, CancelRoundType
    <2>3. CASE /\ slots' = after /\ round' = [round EXCEPT !.samples = samples]
               /\ UNCHANGED paired
        BY <1>1, <1>7, <1>9, <2>3 DEF RestType, RoundType
    <2>4. CASE \E from \in Nat :
               /\ slots' = [j \in Slots |-> [after[j] EXCEPT !.history =
                              AppendHistory(@, [voltage |-> samples[j].voltage,
                                                current |-> samples[j].current,
                                                at |-> samples[j].start])]]
               /\ paired' = [at |-> from, id |-> round.id]
               /\ round' = NoRound
        <3> DEFINE h(j) == AppendHistory(after[j].history,
                              [voltage |-> samples[j].voltage,
                               current |-> samples[j].current, at |-> samples[j].start])
        <3>1. ASSUME NEW j \in Slots
              PROVE  /\ Quiet(j, slots[j], [after[j] EXCEPT !.history = h(j)])
                     /\ [after[j] EXCEPT !.history = h(j)] \in SlotType
            <4>1. after[j] \in SlotType /\ SlotOK(j, after[j]) /\ Quiet(j, slots[j], after[j])
                BY <1>7 DEF SlotsQuiet, Quiet, SlotOK
            <4>2. [voltage |-> samples[j].voltage, current |-> samples[j].current,
                   at |-> samples[j].start] \in HistorySample
                BY <1>9 DEF SampleType, HistorySample
            <4>3. h(j) \in Seq(HistorySample)
                BY <4>1, <4>2, AppendHistoryType DEF SlotType
            <4> HIDE DEF h
            <4>4. Quiet(j, after[j], [after[j] EXCEPT !.history = h(j)])
                BY <4>1, <4>3, HistoryQuiet
            <4> QED
                BY <4>1, <4>4, QuietTrans DEF Quiet, SlotOK
        <3>2. slots' = [j \in Slots |-> [after[j] EXCEPT !.history = h(j)]]
            BY <1>7, <2>4 DEF SlotsQuiet, SlotType
        <3> HIDE DEF h
        <3>3. SlotsQuiet(slots')
            BY <3>1, <3>2 DEF SlotsQuiet
        <3>4. NoRound \in RoundType
            BY DEF NoRound, RoundType, NoSample, SampleType, Zero
        <3> QED
            BY <1>1, <2>4, <3>3, <3>4 DEF RestType, RoundType
    <2>5. \E from \in Nat : from = IF samples[0].start < samples[1].start
                                    THEN samples[0].start ELSE samples[1].start
        BY <1>9 DEF Slots, SampleType
    <2> QED
        BY <2>1, <2>2, <2>3, <2>4, <2>5, ZenonT(60)
        DEF FinishRead, after, samples, sample, single, s, res, seen, cancelled
<1>11. RestType'
    <2>1. isolation' \in IsolationType
        BY <1>1, IsolationAfterType DEF FinishRead, RestType
    <2>2. NoRead \in [busy: BOOLEAN, id: Nat, from: Nat]
        BY SMTT(40) DEF NoRead, Zero
    <2> QED
        BY <1>1, <1>10, <2>1, <2>2, ZenonT(60) DEF FinishRead, EndRead, RestType, clock, vehicleVars
<1>12. ReadersMonitored'
    BY <1>1 DEF Inv, ReadersMonitored, FinishRead, EndRead, NoRead, RestType
<1> QED
    BY <1>10, <1>11, <1>12, QuietStep

-----------------------------------------------------------------------------
(* Commands. *)

(* What reconcileIsolationLocked leaves is an episode, or none. *)
LEMMA ReconcileType ==
    ASSUME isolation \in IsolationType
    PROVE  reconcile \in IsolationType
<1>1. NoIsolation \in IsolationType
    BY DEF NoIsolation, IsolationType, Slots
<1>2. Survivor \in Slots /\ Other(Survivor) \in Slots
    BY DEF Survivor, Other, Slots
<1> DEFINE opened(e, a, b) == [e EXCEPT !.open = TRUE, !.survivor = a, !.victim = b]
<1>3. ASSUME NEW e \in IsolationType, NEW a \in Slots, NEW b \in Slots
      PROVE  /\ opened(e, a, b) \in IsolationType
             /\ [opened(e, a, b) EXCEPT !.handover = TRUE] \in IsolationType
    BY DEF IsolationType
<1> DEFINE episode == opened(NoIsolation, Survivor, Other(Survivor))
<1>4. episode \in IsolationType /\ [episode EXCEPT !.handover = TRUE] \in IsolationType
    BY <1>1, <1>2, <1>3
<1>5. \/ reconcile = NoIsolation \/ reconcile = isolation
      \/ reconcile = episode \/ reconcile = [episode EXCEPT !.handover = TRUE]
    BY Zenon DEF reconcile
<1> HIDE DEF episode
<1> QED
    BY <1>1, <1>4, <1>5

(* Reconciling alone touches no slot. *)
LEMMA ShouldIsolateInv ==
    ASSUME Inv, NEW i \in Slots, ShouldIsolate(i)
    PROVE  Inv'
<1>1. SlotsOK /\ RestType
    BY InvParts
<1>2. SlotsQuiet(slots')
    BY <1>1, UnchangedSlotsQuiet DEF ShouldIsolate
<1>3. RestType'
    BY <1>1, ReconcileType
    DEF ShouldIsolate, RestType, clock, vehicleVars, evidence, readerVars
<1>4. ReadersMonitored'
    BY DEF Inv, ReadersMonitored, ShouldIsolate, readerVars
<1> QED
    BY <1>2, <1>3, <1>4, QuietStep

(* Repeating an ON. *)
LEMMA RepeatOnInv ==
    ASSUME Inv, NEW i \in Slots, RepeatOn(i)
    PROVE  Inv'
<1>1. SlotsOK /\ RestType /\ SlotOK(i, slots[i]) /\ now \in Nat
    BY InvParts DEF SlotsOK, RestType
<1>2. slots' = [slots EXCEPT ![i] = Granted(slots[i])]
    BY <1>1 DEF RepeatOn, SlotsOK
<1>3. SlotsQuiet(slots')
    BY <1>1, <1>2, GrantedQuiet, UpdateQuiet
<1>4. RestType'
    BY <1>1, ReconcileType DEF RepeatOn, Requested, RestType, clock, vehicleVars, readerVars
<1>5. ReadersMonitored'
    BY DEF Inv, ReadersMonitored, RepeatOn, Requested, readerVars
<1> QED
    BY <1>3, <1>4, <1>5, QuietStep

(* Repeating an ON of a supply that lost its permission. *)
LEMMA RequalifyOnInv ==
    ASSUME Inv, NEW i \in Slots, RequalifyOn(i)
    PROVE  Inv'
<1>1. SlotsOK /\ RestType /\ SlotOK(i, slots[i]) /\ now \in Nat
    BY InvParts DEF SlotsOK, RestType
<1>2. slots' = Forget([slots EXCEPT ![i] = Granted(slots[i])])
    BY <1>1 DEF RequalifyOn, SlotsOK
<1>3. SlotsQuiet(slots')
    BY <1>1, <1>2, GrantedQuiet, UpdateQuiet, ForgetQuiet
<1>4. RestType'
    BY <1>1, ReconcileType, CancelRoundType
    DEF RequalifyOn, Requested, RestType, clock, vehicleVars, readerVars
<1>5. ReadersMonitored'
    BY DEF Inv, ReadersMonitored, RequalifyOn, Requested, readerVars
<1> QED
    BY <1>3, <1>4, <1>5, QuietStep

(* An OFF command. *)
LEMMA OffInv ==
    ASSUME Inv, NEW i \in Slots, Off(i)
    PROVE  Inv'
<1>1. SlotsOK /\ RestType /\ SlotOK(i, slots[i]) /\ now \in Nat
    BY InvParts DEF SlotsOK, RestType
<1>2. slots' = Forget([slots EXCEPT ![i] = OffReserved(slots[i])])
    BY <1>1 DEF Off, SlotsOK
<1>3. SlotsQuiet(slots')
    BY <1>1, <1>2, OffReservedQuiet, UpdateQuiet, ForgetQuiet
<1>4. [isolation EXCEPT !.attempted = TRUE] \in IsolationType
    BY <1>1 DEF RestType, IsolationType
<1>5. RestType'
    BY <1>1, <1>4, CancelRoundType DEF Off, RestType, clock, vehicleVars, readerVars
<1>6. ReadersMonitored'
    BY DEF Inv, ReadersMonitored, Off, readerVars
<1> QED
    BY <1>3, <1>5, <1>6, QuietStep

(* A new reservation.  The peer is not an unanswered ON: a reserved slot   *)
(* belongs to a monitored reader, so requestOn looked at it and found it   *)
(* running.                                                                *)
LEMMA ActivateOnInv ==
    ASSUME Inv, NEW i \in Slots, ActivateOn(i)
    PROVE  Inv'
<1>1. SlotsOK /\ RestType /\ SlotOK(i, slots[i]) /\ now \in Nat
    BY InvParts DEF SlotsOK, RestType
<1>2. i \in Monitored /\ slots[i].eligible /\ slots[i].valid /\ PeerPermits(i)
    BY DEF ActivateOn, Requested, Idle, Admitted, CommandOpen, OwnEvidence, Fresh
<1> DEFINE s == slots[i]
           peer == slots[Other(i)]
           r == [Granted(s) EXCEPT !.held = TRUE, !.onAt = now]
           ss == [slots EXCEPT ![i] = r]
<1>3. SlotOK(i, r) /\ r \in SlotType
    BY <1>1, <1>2, ReservedOK DEF SlotOK
<1>4. slots' = Forget(ss)
    BY <1>1 DEF ActivateOn, SlotsOK
<1> HIDE DEF r
<1>5. /\ Other(i) \in Slots /\ Other(i) # i
      /\ \A j \in Slots : j = i \/ j = Other(i)
    BY DEF Other, Slots
<1>6. ss \in [Slots -> SlotType] /\ \A j \in Slots : SlotOK(j, ss[j])
    BY <1>1, <1>3 DEF SlotsOK
<1>7. ~Unconfirmed(peer)
    <2>1. SlotSafe(Other(i), peer)
        BY <1>1, <1>5 DEF SlotsOK, SlotOK
    <2>2. CASE ~peer.held
        BY <2>2 DEF Unconfirmed
    <2>3. CASE peer.held
        <3>1. Other(i) \in Monitored
            BY <2>1, <2>3 DEF SlotSafe
        <3>2. peer.active
            BY <1>2, <2>3, <3>1 DEF PeerPermits, Joins
        <3> QED
            BY <3>2 DEF Unconfirmed
    <2> QED
        BY <2>2, <2>3
<1>8. ss[Other(i)] = peer
    BY <1>1, <1>5 DEF SlotsOK
<1> HIDE DEF ss
<1>9. ASSUME NEW j \in Slots
      PROVE  Quiet(j, ss[j], slots'[j])
    <2>1. <<>> \in Seq(HistorySample)
        OBVIOUS
    <2>2. slots'[j] = [ss[j] EXCEPT !.history = <<>>]
        BY <1>4, <1>6, ForgetType
    <2>3. Quiet(j, ss[j], [ss[j] EXCEPT !.history = <<>>])
        BY <1>6, <2>1, HistoryQuiet
    <2> QED
        BY <2>2, <2>3
<1>10. slots' \in [Slots -> SlotType] /\ \A j \in Slots : SlotSafe(j, slots'[j])
    BY <1>4, <1>6, <1>9, ForgetType DEF Quiet, SlotOK
<1>11. ~Unconfirmed(slots'[Other(i)])
    BY <1>5, <1>7, <1>8, <1>9 DEF Quiet
<1>12. RestType'
    BY <1>1, ReconcileType, CancelRoundType
    DEF ActivateOn, Requested, RestType, clock, vehicleVars, readerVars
<1>13. ReadersMonitored'
    BY DEF Inv, ReadersMonitored, ActivateOn, Requested, readerVars
<1>14. TypeOK'
    BY <1>10, <1>12 DEF RestType, TypeOK
<1>15. OneOutstandingActivation'
    BY <1>5, <1>11 DEF OneOutstandingActivation
<1> QED
    BY <1>10, <1>13, <1>14, <1>15 DEF Inv, SlotSafe

-----------------------------------------------------------------------------
(* Motion, vehicle, settings and time. *)

(* Dropping the standstill leaves motion evidence of the right type. *)
LEMMA UnqualifiedType ==
    ASSUME NEW m \in MotionType
    PROVE  Unqualified(m) \in MotionType
BY DEF Unqualified, MotionType, Zero

(* Forgetting samples, or leaving the evidence alone. *)
LEMMA EvidenceQuiet ==
    ASSUME Inv,
           \/ CancelRound /\ slots' = Forget(slots)
           \/ UNCHANGED <<round, paired, slots>>
    PROVE  /\ SlotsQuiet(slots')
           /\ round' \in RoundType /\ paired' \in [at: Nat, id: Nat]
<1>1. SlotsOK /\ RestType
    BY InvParts
<1> QED
    BY <1>1, UnchangedSlotsQuiet, ForgetQuiet, CancelRoundType DEF RestType

(* A motion report. *)
LEMMA ReceiveMotionInv ==
    ASSUME Inv, NEW r \in ReportType, ReceiveMotion(r)
    PROVE  Inv'
<1> DEFINE checked == [(IF ClockJumped(motion) THEN Unqualified(motion) ELSE motion)
                         EXCEPT !.lastCheck = [known |-> TRUE, wall |-> wall]]
           gap == r.source # motion.source \/ r.sequence # motion.sequence + 1
           m == [(IF gap THEN Unqualified(checked) ELSE checked)
                    EXCEPT !.source = r.source, !.sequence = r.sequence]
           received == now - r.age
<1>1. SlotsOK /\ RestType
    BY InvParts
<1>2. /\ motion \in MotionType /\ Unqualified(motion) \in MotionType
      /\ now \in Nat /\ now >= StartTime /\ wall \in Int
    BY <1>1, UnqualifiedType DEF RestType
<1>3. checked \in MotionType
    <2>1. ASSUME NEW x \in MotionType, NEW w \in Int
          PROVE  [x EXCEPT !.lastCheck = [known |-> TRUE, wall |-> w]] \in MotionType
        BY DEF MotionType
    <2> DEFINE x == IF ClockJumped(motion) THEN Unqualified(motion) ELSE motion
    <2>2. x \in MotionType
        BY <1>2
    <2> HIDE DEF x
    <2>3. [x EXCEPT !.lastCheck = [known |-> TRUE, wall |-> wall]] \in MotionType
        BY <1>2, <2>1, <2>2
    <2> QED
        BY <2>3 DEF x
<1> HIDE DEF checked
<1>4. m \in MotionType /\ Unqualified(checked) \in MotionType
    <2>1. ASSUME NEW x \in MotionType, NEW a \in Sources, NEW n \in Nat
          PROVE  [x EXCEPT !.source = a, !.sequence = n] \in MotionType
        BY DEF MotionType
    <2>2. Unqualified(checked) \in MotionType
        BY <1>3, UnqualifiedType
    <2>3. r.source \in Sources /\ r.sequence \in Nat
        BY DEF ReportType
    <2> DEFINE x == IF gap THEN Unqualified(checked) ELSE checked
    <2>4. x \in MotionType
        BY <1>3, <2>2
    <2> HIDE DEF x
    <2>5. [x EXCEPT !.source = r.source, !.sequence = r.sequence] \in MotionType
        BY <2>1, <2>3, <2>4
    <2> QED
        BY <2>2, <2>5 DEF x
<1> HIDE DEF m
<1>5. r.age \in 0..MotionMaxAge => received \in Nat
    BY <1>2, DurationsAssumption DEF Durations
<1> HIDE DEF received
<1>6. motion' \in MotionType
    <2> DEFINE since == IF ~r.stopped THEN Zero
                        ELSE IF ~m.stopped \/ received - m.at > MotionMaxAge
                        THEN received ELSE m.since
    <2>1. \/ motion' = Unqualified(checked) \/ motion' = Unqualified(m)
          \/ /\ r.age \in 0..MotionMaxAge
             /\ motion' = [m EXCEPT !.at = received, !.stopped = r.stopped, !.since = since]
        BY <1>4 DEF ReceiveMotion, checked, m, received, MotionType
    <2>2. ASSUME received \in Nat PROVE since \in Nat
        BY <1>4, <2>2 DEF MotionType, Zero
    <2>3. r.stopped \in BOOLEAN
        BY DEF ReportType
    <2> HIDE DEF since
    <2>4. ASSUME NEW a \in Nat, NEW b \in BOOLEAN, NEW c \in Nat
          PROVE  [m EXCEPT !.at = a, !.stopped = b, !.since = c] \in MotionType
        BY <1>4 DEF MotionType
    <2> QED
        BY <1>4, <1>5, <2>1, <2>2, <2>3, <2>4, UnqualifiedType, ZenonT(60)
<1>7. \/ CancelRound /\ slots' = Forget(slots)
      \/ UNCHANGED <<round, paired, slots>>
    BY Zenon DEF ReceiveMotion
<1>8. /\ SlotsQuiet(slots')
      /\ round' \in RoundType /\ paired' \in [at: Nat, id: Nat]
    BY <1>7, EvidenceQuiet
<1>9. UNCHANGED <<clock, vehicle, seatboxClosed, coordinated, isolation,
                  next, stopping, maxDelta, readerVars>>
    BY Zenon DEF ReceiveMotion
<1>10. RestType'
    BY <1>1, <1>6, <1>8, <1>9 DEF RestType, clock, readerVars
<1>11. ReadersMonitored'
    BY <1>9 DEF Inv, ReadersMonitored, readerVars
<1> QED
    BY <1>8, <1>10, <1>11, QuietStep

(* A new motion stream. *)
LEMMA ResetMotionStreamInv == Inv /\ ResetMotionStream => Inv'
<1> SUFFICES ASSUME Inv, ResetMotionStream PROVE Inv'
    OBVIOUS
<1>1. SlotsOK /\ RestType
    BY InvParts
<1>2. SlotsQuiet(slots')
    BY <1>1, UnchangedSlotsQuiet DEF ResetMotionStream
<1>3. motion' \in MotionType
    <2>1. ASSUME NEW m \in MotionType
          PROVE  [m EXCEPT !.source = "", !.sequence = 0] \in MotionType
        BY DEF MotionType
    <2>2. Unqualified(motion) \in MotionType
        BY <1>1, UnqualifiedType DEF RestType
    <2> QED
        BY <2>1, <2>2 DEF ResetMotionStream
<1>4. RestType'
    BY <1>1, <1>3 DEF ResetMotionStream, RestType, clock, evidence, readerVars
<1>5. ReadersMonitored'
    BY DEF Inv, ReadersMonitored, ResetMotionStream, readerVars
<1> QED
    BY <1>2, <1>4, <1>5, QuietStep

(* A vehicle state from Redis. *)
LEMMA SetVehicleInv ==
    ASSUME Inv, NEW state \in Vehicles, SetVehicle(state)
    PROVE  Inv'
<1>1. SlotsOK /\ RestType
    BY InvParts
<1>2. motion' \in MotionType
    BY <1>1, UnqualifiedType DEF SetVehicle, RestType
<1>3. \/ CancelRound /\ slots' = Forget(slots)
      \/ UNCHANGED <<round, paired, slots>>
    BY Zenon DEF SetVehicle
<1>4. /\ SlotsQuiet(slots')
      /\ round' \in RoundType /\ paired' \in [at: Nat, id: Nat]
    BY <1>3, EvidenceQuiet
<1>5. RestType'
    BY <1>1, <1>2, <1>4 DEF SetVehicle, RestType, clock, readerVars
<1>6. ReadersMonitored'
    BY DEF Inv, ReadersMonitored, SetVehicle, readerVars
<1> QED
    BY <1>4, <1>5, <1>6, QuietStep

(* The seatbox lock, which touches both slots. *)
LEMMA SetSeatboxInv ==
    ASSUME Inv, NEW closed \in BOOLEAN, SetSeatbox(closed)
    PROVE  Inv'
<1>1. SlotsOK /\ RestType
    BY InvParts
<1> DEFINE q(j) == slots[j].requiresAdmission \/ ~slots[j].held \/ ~slots[j].active
           r(j) == [slots[j] EXCEPT !.valid = FALSE, !.observedRound = 0,
                                    !.requiresAdmission = q(j)]
           ss == [j \in Slots |-> r(j)]
<1>2. slots' = Forget(ss)
    BY <1>1 DEF SetSeatbox, SlotsOK, SlotType
<1>3. \A j \in Slots : q(j) \in BOOLEAN
    OBVIOUS
<1> HIDE DEF q
<1>4. ASSUME NEW j \in Slots PROVE Quiet(j, slots[j], r(j))
    BY <1>1, <1>3, SeatboxQuiet DEF SlotsOK
<1> HIDE DEF r
<1>5. SlotsQuiet(ss)
    BY <1>4 DEF SlotsQuiet, Quiet, SlotOK
<1> HIDE DEF ss
<1>6. SlotsQuiet(slots')
    BY <1>2, <1>5, ForgetQuiet
<1>7. RestType'
    BY <1>1, CancelRoundType DEF SetSeatbox, RestType, clock, readerVars
<1>8. ReadersMonitored'
    BY DEF Inv, ReadersMonitored, SetSeatbox, readerVars
<1> QED
    BY <1>6, <1>7, <1>8, QuietStep

(* The role of slot 1: a role once active is tracked for good. *)
LEMMA SetRoleInv ==
    ASSUME Inv, NEW eligible \in BOOLEAN, SetRole(eligible)
    PROVE  Inv'
<1>1. SlotsOK /\ RestType /\ 1 \in Slots
    BY InvParts DEF Slots
<1> DEFINE p == slots[1].powerTracked \/ eligible
           r == [slots[1] EXCEPT !.eligible = eligible, !.powerTracked = p]
           ss == [slots EXCEPT ![1] = r]
<1>2. ss = [slots EXCEPT ![1].eligible = eligible, ![1].powerTracked = @ \/ eligible]
    BY <1>1 DEF SlotsOK, SlotType
<1>3. p \in BOOLEAN /\ (eligible => p) /\ (slots[1].powerTracked => p)
    OBVIOUS
<1> HIDE DEF p
<1>4. Quiet(1, slots[1], r)
    BY <1>1, <1>3, RoleQuiet DEF SlotsOK
<1> HIDE DEF r
<1>5. SlotsQuiet(ss)
    BY <1>1, <1>4, UpdateQuiet
<1> HIDE DEF ss
<1>6. SlotsQuiet(slots')
    BY <1>2, <1>5, ForgetQuiet DEF SetRole
<1>7. coordinated' \in BOOLEAN
    BY DEF SetRole
<1>8. RestType'
    BY <1>1, <1>7, CancelRoundType DEF SetRole, RestType, clock, vehicleVars, readerVars
<1>9. ReadersMonitored'
    BY DEF Inv, ReadersMonitored, SetRole, readerVars
<1> QED
    BY <1>6, <1>8, <1>9, QuietStep

(* The voltage limit and the two clocks. *)
LEMMA SettingsAndTimeInv ==
    ASSUME Inv,
           \/ \E d \in Deltas : SetMaxDelta(d)
           \/ Tick
           \/ \E offset \in ClockOffsets : SetClock(offset)
           \/ UNCHANGED vars
    PROVE  Inv'
<1>1. SlotsOK /\ RestType
    BY InvParts
<1>2. /\ UNCHANGED <<slots, readerVars>>
      /\ RestType'
    <2>1. CASE \E d \in Deltas : SetMaxDelta(d)
        BY <1>1, <2>1, DeltasAssumption
        DEF SetMaxDelta, RestType, clock, vehicleVars, evidence, readerVars
    <2>2. CASE Tick
        BY <1>1, <2>2, DurationsAssumption DEF Tick, RestType, vehicleVars, evidence, readerVars
    <2>3. CASE \E offset \in ClockOffsets : SetClock(offset)
        BY <1>1, <2>3, ClockAssumption DEF SetClock, RestType, vehicleVars, evidence, readerVars
    <2>4. CASE UNCHANGED vars
        BY <1>1, <2>4 DEF vars, RestType, clock, vehicleVars, evidence, readerVars
    <2> QED
        BY <2>1, <2>2, <2>3, <2>4
<1>3. SlotsQuiet(slots')
    BY <1>1, <1>2, UnchangedSlotsQuiet
<1>4. ReadersMonitored'
    BY <1>2 DEF Inv, ReadersMonitored, readerVars
<1> QED
    BY <1>2, <1>3, <1>4, QuietStep

-----------------------------------------------------------------------------
(* The invariant holds at the start... *)
LEMMA InitInv == Init => Inv
<1> SUFFICES ASSUME Init PROVE Inv
    OBVIOUS
<1>1. PICK r \in InitialRoles :
         slots = [i \in Slots |-> IF i = 0 THEN EmptySlot(TRUE, TRUE)
                                           ELSE EmptySlot(r[1], r[2])]
    BY DEF Init
<1>2. r[1] \in BOOLEAN /\ r[2] \in BOOLEAN /\ (r[1] => r[2])
    BY InitialAssumption
<1>3. ASSUME NEW e \in BOOLEAN, NEW p \in BOOLEAN, e => p, NEW i
      PROVE  /\ EmptySlot(e, p) \in SlotType /\ SlotSafe(i, EmptySlot(e, p))
             /\ ~Unconfirmed(EmptySlot(e, p))
    BY <1>3, EmptySlotType DEF EmptySlot, SlotSafe, Unconfirmed
<1>4. \A i \in Slots : /\ slots[i] \in SlotType /\ SlotSafe(i, slots[i])
                       /\ ~Unconfirmed(slots[i])
    BY <1>1, <1>2, <1>3
<1>5. slots \in [Slots -> SlotType] /\ OneOutstandingActivation
    BY <1>1, <1>4 DEF OneOutstandingActivation, Slots
<1>6. RestType
    <2>1. NoRound \in RoundType
        BY DEF NoRound, RoundType, NoSample, SampleType, Zero
    <2>2. NoIsolation \in IsolationType
        BY DEF NoIsolation, IsolationType, Slots
    <2>3. NoPair \in [at: Nat, id: Nat] /\ NoRead \in [busy: BOOLEAN, id: Nat, from: Nat]
        BY DEF NoPair, NoRead, Zero
    <2>4. NoMotion \in MotionType
        BY DEF NoMotion, NoCheck, MotionType, Zero
    <2>5. coordinated \in BOOLEAN /\ seatboxClosed \in BOOLEAN /\ maxDelta \in Nat /\ wall \in Int
        BY InitialAssumption, DeltasAssumption, ClockAssumption DEF Init
    <2>6. now \in Nat /\ now >= StartTime
        BY DurationsAssumption DEF Init
    <2>7. /\ selected \in [Slots -> Uids \cup {NoUid}]
          /\ reading \in [Slots -> [busy: BOOLEAN, id: Nat, from: Nat]]
        BY <2>3 DEF Init
    <2>8. /\ vehicle \in Vehicles /\ isolation = NoIsolation /\ round = NoRound
          /\ paired = NoPair /\ next = 0 /\ stopping = FALSE /\ motion = NoMotion
        BY DEF Init
    <2>9. next \in Nat /\ stopping \in BOOLEAN
        BY <2>8
    <2> QED
        BY <2>1, <2>2, <2>3, <2>4, <2>5, <2>6, <2>7, <2>8, <2>9 DEF RestType
<1>7. ReadersMonitored
    BY DEF Init, ReadersMonitored, NoRead
<1> QED
    BY <1>4, <1>5, <1>6, <1>7 DEF Inv, TypeOK, RestType

(* ... and every step keeps it. *)
LEMMA NextInv == Inv /\ [Next]_vars => Inv'
<1> SUFFICES ASSUME Inv, [Next]_vars PROVE Inv'
    OBVIOUS
<1>1. ASSUME NEW i \in Slots, Reader(i) PROVE Inv'
    <2>1. CASE \E uid \in Uids : Tag(i, uid)
        BY <2>1, TagInv
    <2>2. CASE \E departed \in BOOLEAN : ObserveAbsent(i, departed)
        BY <2>2, ObserveAbsentInv
    <2>3. CASE StartRead(i)
        BY <2>3, StartReadInv
    <2>4. CASE FailRead(i)
        BY <2>4, FailReadInv
    <2>5. CASE \E data \in Frames : \E start, end \in reading[i].from..now :
                  FinishRead(i, data, start, end)
        BY <2>5, FinishReadInv, FramesAssumption
    <2>6. CASE ShouldIsolate(i)
        BY <2>6, ShouldIsolateInv
    <2>7. CASE RequestOn(i)
        BY <2>7, RepeatOnInv, RequalifyOnInv, ActivateOnInv DEF RequestOn
    <2>8. CASE OffAttempt(i) \/ IsolationOffAttempt(i)
        BY <2>8, OffInv DEF OffAttempt, IsolationOffAttempt
    <2> QED
        BY <1>1, <2>1, <2>2, <2>3, <2>4, <2>5, <2>6, <2>7, <2>8 DEF Reader
<1>2. ASSUME Service PROVE Inv'
    <2>1. CASE BeginRound \/ StopSampling \/ ResetMotionStream
        BY <2>1, BeginRoundInv, StopSamplingInv, ResetMotionStreamInv
    <2>2. CASE \E r \in Reports : ReceiveMotion(r)
        BY <2>2, ReceiveMotionInv, ReportsAssumption
    <2>3. CASE \E state \in Vehicles \ {vehicle} : SetVehicle(state)
        BY <2>3, SetVehicleInv
    <2>4. CASE \E closed \in BOOLEAN : SetSeatbox(closed)
        BY <2>4, SetSeatboxInv
    <2>5. CASE \E eligible \in BOOLEAN : SetRole(eligible)
        BY <2>5, SetRoleInv
    <2>6. CASE \E d \in Deltas \ {maxDelta} : SetMaxDelta(d)
        BY <2>6, SettingsAndTimeInv
    <2> QED
        BY <1>2, <2>1, <2>2, <2>3, <2>4, <2>5, <2>6 DEF Service
<1>3. CASE Tick \/ (\E offset \in ClockOffsets \ {wall} : SetClock(offset)) \/ UNCHANGED vars
    BY <1>3, SettingsAndTimeInv
<1> QED
    BY <1>1, <1>2, <1>3 DEF Next

(* The invariant holds in every reachable state. *)
THEOREM Invariance == Spec => []Inv
BY InitInv, NextInv, PTL DEF Spec

(* Every variable keeps its type, and motion evidence is never dated       *)
(* before the start of the service.                                        *)
THEOREM TypeCorrect == Spec => []TypeOK
<1>1. Inv => TypeOK
    BY DEF Inv
<1> QED
    BY <1>1, Invariance, PTL

(* At most one ON is outstanding (requestOn), whatever both readers, the   *)
(* Redis and motion subscribers and the sampler do in between.             *)
THEOREM OneActivationAtATime == Spec => []OneOutstandingActivation
<1>1. Inv => OneOutstandingActivation
    BY DEF Inv
<1> QED
    BY <1>1, Invariance, PTL

(* A pack that left its reader's field keeps the reservation of a command  *)
(* it may have obeyed (observeAbsentAt).                                   *)
THEOREM AbsentPacksKeepTheirReservation == Spec => []AbsenceNeverHidesPower
<1>1. Inv => AbsenceNeverHidesPower
    BY DEF Inv, SlotSafe, AbsenceNeverHidesPower
<1> QED
    BY <1>1, Invariance, PTL

(* Unanswered commands and uncertain identities are always reserved.       *)
THEOREM CommandsAreReserved == Spec => []CommandsReserved
<1>1. Inv => CommandsReserved
    BY DEF Inv, SlotSafe, CommandsReserved
<1> QED
    BY <1>1, Invariance, PTL

===========================================================================
