-------------------------- MODULE ReaderFSM_proofs --------------------------
(***************************************************************************)
(* Proofs about the state machine of a reader.                             *)
(*                                                                         *)
(* An NFC operation leaves the machine where it is: it loses no event,     *)
(* takes no inhibitor and forgets no pack (Kept).  The proofs follow this  *)
(* through the operations first and through the states afterwards.  The    *)
(* open loop is proved along the same way in the second half: no operation *)
(* but an ON switches a pack on, or makes a pack that runs look off (Goes).*)
(***************************************************************************)
EXTENDS DriveStart, TLAPS

DataType ==
    [present: BOOLEAN, state: {"unknown", "active", "inactive"}, empty: BOOLEAN,
     zero: BOOLEAN, dated: BOOLEAN]

BayType == [in: BOOLEAN, state: {"active", "inactive"}, empty: BOOLEAN, known: BOOLEAN]

ReaderType ==
    [state: Leaves, timer: BOOLEAN, queue: Seq(ReaderEvents), inserted: BOOLEAN,
     failures: 0..(MaxFailures - 1), pending: BOOLEAN, heartbeat: BOOLEAN,
     inhibitor: BOOLEAN, poll: BOOLEAN, probe: BOOLEAN,
     tags: {"none", "selected", "lost"}, quiet: BOOLEAN, unsure: BOOLEAN, noise: BOOLEAN,
     seen: BOOLEAN, fresh: {"confirmed", "new", "framed", "blank"}, early: BOOLEAN,
     data: DataType, shown: BOOLEAN, redis: BOOLEAN, assumed: BOOLEAN, spent: Nat,
     reserved: BOOLEAN, bay: BayType]

(* An event is queued. *)
Has(r, e) == \E k \in 1..Len(r.queue) : r.queue[k] = e

(* Frames may tell of an old charge. *)
Misled == "oldest" \in scene.outcomes

(* What an operation of the reader leaves alone: the leaf with its timers  *)
(* and goroutines, and the queue; it releases the inhibitor at most,       *)
(* forgets no pack, and believes a pack empty only if it is, or if frames  *)
(* mislead.                                                                *)
Soft(r, q) ==
    /\ q \in ReaderType
    /\ q.state = r.state /\ q.timer = r.timer /\ q.poll = r.poll /\ q.probe = r.probe
    /\ q.heartbeat = r.heartbeat /\ q.pending = r.pending /\ q.failures = r.failures
    /\ q.queue = r.queue
    /\ q.inhibitor => r.inhibitor
    /\ r.seen => q.seen
    /\ q.noise => q.unsure \/ (r.noise /\ ~r.unsure)
    /\ q.bay.empty = r.bay.empty
    /\ q.bay.state = "active" => r.bay.state = "active" \/ ~r.bay.empty
    /\ q.data.empty => r.data.empty \/ r.bay.empty \/ Misled

(* ... but for events that it sends. *)
Kept(r, q) ==
    /\ q \in ReaderType
    /\ q.state = r.state /\ q.timer = r.timer /\ q.poll = r.poll /\ q.probe = r.probe
    /\ q.heartbeat = r.heartbeat /\ q.pending = r.pending /\ q.failures = r.failures
    /\ \A e : Has(r, e) => Has(q, e)
    /\ q.inhibitor => r.inhibitor
    /\ r.seen => q.seen
    /\ q.noise => q.unsure \/ (r.noise /\ ~r.unsure)
    /\ q.bay.empty = r.bay.empty
    /\ q.bay.state = "active" => r.bay.state = "active" \/ ~r.bay.empty
    /\ q.data.empty => r.data.empty \/ r.bay.empty \/ Misled

(* The events, and the leaves with a timer. *)
LEMMA Events ==
    /\ {"init_complete", "reinit", "tag_arrived", "tag_departed", "restart",
        "seatbox_closed", "seatbox_opened", "heartbeat_timeout", "admission_poll",
        "check_presence_ready", "off_confirmed_inactive", "off_retry"}
       \subseteq ReaderEvents
    /\ DOMAIN Timeouts = Leaves \ {"init", "wait_update"}
    /\ \A leaf \in DOMAIN Timeouts : Timeouts[leaf] \in ReaderEvents
<1>1. DOMAIN Timeouts = Leaves \ {"init", "wait_update"}
    BY DEF Timeouts, Leaves, Discovering, TagPresent, Heartbeat, OpenLoop
<1>2. \A leaf \in DOMAIN Timeouts : Timeouts[leaf] \in ReaderEvents
    BY DEF ReaderEvents
<1>3. "read_off_status" \in DOMAIN Timeouts /\ Timeouts["read_off_status"] = "off_retry"
    BY DEF Timeouts
<1>4. "off_retry" \in ReaderEvents
    BY <1>2, <1>3
<1> QED
    BY <1>1, <1>2, <1>4 DEF ReaderEvents

-----------------------------------------------------------------------------
(* Operations of the reader. *)

(* An event more. *)
LEMMA SendKept ==
    ASSUME NEW r \in ReaderType, NEW e \in ReaderEvents, NEW q, q = Send(r, e)
    PROVE  Kept(r, q) /\ Has(q, e) /\ q.data = r.data /\ q.inhibitor = r.inhibitor
<1> DEFINE Q == Append(r.queue, e)
<1>1. /\ Q \in Seq(ReaderEvents) /\ Len(r.queue) \in Nat /\ Len(Q) = Len(r.queue) + 1
      /\ Q[Len(r.queue) + 1] = e /\ \A k \in 1..Len(r.queue) : Q[k] = r.queue[k]
    BY DEF ReaderType
<1>2. q = [r EXCEPT !.queue = Q]
    BY DEF Send
<1> HIDE DEF Q
<1>3. /\ q \in ReaderType /\ q.queue = Q
      /\ q.state = r.state /\ q.timer = r.timer /\ q.poll = r.poll /\ q.probe = r.probe
      /\ q.heartbeat = r.heartbeat /\ q.pending = r.pending
      /\ q.inhibitor = r.inhibitor /\ q.failures = r.failures
      /\ q.data = r.data /\ q.bay = r.bay
      /\ q.unsure = r.unsure /\ q.noise = r.noise /\ q.seen = r.seen
    BY <1>1, <1>2, ZenonT(60) DEF ReaderType
<1>4. 1..Len(r.queue) \subseteq 1..Len(Q) /\ Len(r.queue) + 1 \in 1..Len(Q)
    BY <1>1
<1>5. Has(q, e) /\ \A g : Has(r, g) => Has(q, g)
    BY <1>1, <1>3, <1>4 DEF Has
<1>6. Kept(r, q)
    BY <1>3, <1>5 DEF Kept
<1> QED
    BY <1>3, <1>5, <1>6

(* Operations compose. *)
LEMMA KeptTrans ==
    ASSUME NEW r, NEW p, NEW q, Kept(r, p), Kept(p, q)
    PROVE  Kept(r, q)
BY DEF Kept

LEMMA SoftKept ==
    ASSUME NEW r, NEW q, Soft(r, q)
    PROVE  Kept(r, q)
BY DEF Soft, Kept, Has

(* Nothing done. *)
LEMMA KeptSame ==
    ASSUME NEW r \in ReaderType
    PROVE  Kept(r, r)
BY DEF Kept

(* Nothing done that counts. *)
LEMMA UnchangedKept ==
    ASSUME NEW r, NEW q \in ReaderType,
           q.state = r.state, q.timer = r.timer, q.poll = r.poll, q.probe = r.probe,
           q.heartbeat = r.heartbeat, q.pending = r.pending, q.failures = r.failures,
           q.queue = r.queue, q.inhibitor = r.inhibitor, q.seen = r.seen,
           q.noise = r.noise, q.unsure = r.unsure, q.bay = r.bay, q.data = r.data
    PROVE  Kept(r, q)
<1>1. Soft(r, q)
    BY DEF Soft
<1> QED
    BY <1>1, SoftKept

(* A disturbance is counted. *)
LEMMA CountKept ==
    ASSUME NEW r \in ReaderType, NEW m \in Nat
    PROVE  Kept(r, [r EXCEPT !.spent = m])
<1> DEFINE q == [r EXCEPT !.spent = m]
<1>1. q \in ReaderType
    BY DEF ReaderType
<1>2. /\ q.state = r.state /\ q.timer = r.timer /\ q.poll = r.poll /\ q.probe = r.probe
      /\ q.heartbeat = r.heartbeat /\ q.pending = r.pending /\ q.failures = r.failures
      /\ q.queue = r.queue /\ q.inhibitor = r.inhibitor /\ q.seen = r.seen
      /\ q.noise = r.noise /\ q.unsure = r.unsure /\ q.bay = r.bay /\ q.data = r.data
    BY DEF ReaderType
<1> HIDE DEF q
<1>3. Kept(r, q)
    BY <1>1, <1>2, UnchangedKept
<1> QED
    BY <1>3 DEF q

LEMMA SpentKept ==
    ASSUME NEW r \in ReaderType, NEW n \in Nat
    PROVE  Kept(r, [r EXCEPT !.spent = @ + n])
<1>1. r.spent + n \in Nat
    BY DEF ReaderType
<1>2. Kept(r, [r EXCEPT !.spent = r.spent + n])
    BY <1>1, CountKept
<1> QED
    BY <1>2

LEMMA SpendKept ==
    ASSUME NEW r \in ReaderType, NEW a
    PROVE  Kept(r, Spend(r, a))
<1>1. Spend(r, a) \in {r, [r EXCEPT !.spent = @ + 1]}
    BY DEF Spend
<1>2. Kept(r, r) /\ Kept(r, [r EXCEPT !.spent = @ + 1])
    BY SpentKept, KeptSame
<1> QED
    BY <1>1, <1>2

(* The start of a search. *)
LEMMA StartDiscoveryKept ==
    ASSUME NEW r \in ReaderType, NEW a, NEW q, q = startDiscovery(r, a)
    PROVE  Kept(r, q)
<1> DEFINE s == [r EXCEPT !.tags = "none", !.quiet = FALSE, !.unsure = FALSE, !.noise = FALSE]
           t == [s EXCEPT !.spent = @ + 1]
<1>1. s \in ReaderType
    BY DEF ReaderType
<1>2. q \in {Send(t, "reinit"), t, s}
    BY DEF startDiscovery
<1>3. Kept(r, s)
    <2>1. /\ s.state = r.state /\ s.timer = r.timer /\ s.poll = r.poll /\ s.probe = r.probe
          /\ s.heartbeat = r.heartbeat /\ s.pending = r.pending /\ s.failures = r.failures
          /\ s.queue = r.queue /\ s.inhibitor = r.inhibitor /\ s.seen = r.seen
          /\ ~s.noise /\ s.bay = r.bay /\ s.data = r.data
        BY DEF ReaderType
    <2> HIDE DEF s
    <2>2. Soft(r, s)
        BY <1>1, <2>1 DEF Soft
    <2> QED
        BY <2>2, SoftKept
<1> HIDE DEF s
<1>4. Kept(s, t) /\ t \in ReaderType
    <2>1. 1 \in Nat
        OBVIOUS
    <2>2. Kept(s, t)
        BY <1>1, <2>1, SpentKept
    <2> QED
        BY <2>2 DEF Kept
<1> HIDE DEF t
<1>5. "reinit" \in ReaderEvents
    BY Events
<1>6. Kept(t, Send(t, "reinit"))
    BY <1>4, <1>5, SendKept
<1> QED
    BY <1>2, <1>3, <1>4, <1>6, KeptTrans

(* A tag is noted. *)
LEMMA NoteTagPresentKept ==
    ASSUME NEW r \in ReaderType, NEW q, q = noteTagPresent(r)
    PROVE  Kept(r, q)
<1> DEFINE s == [r EXCEPT !.seen = TRUE, !.tags = "selected"]
           bay == [s.bay EXCEPT !.known = TRUE]
           t == [s EXCEPT !.bay = bay, !.fresh = "new", !.early = TRUE, !.reserved = TRUE]
<1>1. Soft(r, s)
    <2>1. s \in ReaderType
        BY DEF ReaderType
    <2>2. /\ s.state = r.state /\ s.timer = r.timer /\ s.poll = r.poll
          /\ s.probe = r.probe /\ s.heartbeat = r.heartbeat /\ s.pending = r.pending
          /\ s.failures = r.failures /\ s.queue = r.queue /\ s.inhibitor = r.inhibitor
          /\ s.noise = r.noise /\ s.unsure = r.unsure /\ s.bay = r.bay
          /\ s.data = r.data /\ s.seen
        BY DEF ReaderType
    <2> HIDE DEF s
    <2> QED
        BY <2>1, <2>2 DEF Soft
<1>2. q \in {s, [s EXCEPT !.bay.known = TRUE, !.fresh = "new", !.early = TRUE,
                           !.reserved = TRUE]}
    BY DEF noteTagPresent
<1>3. s \in ReaderType
    BY <1>1 DEF Soft
<1> HIDE DEF s
<1>4. q \in {s, t}
    BY <1>2, <1>3 DEF ReaderType
<1>5. bay \in BayType /\ bay.empty = s.bay.empty /\ bay.state = s.bay.state
    BY <1>3 DEF ReaderType, BayType
<1> HIDE DEF bay
<1>6. Soft(s, t)
    <2>1. t \in ReaderType
        BY <1>3, <1>5, ZenonT(60) DEF ReaderType
    <2>2. /\ t.state = s.state /\ t.timer = s.timer /\ t.poll = s.poll
          /\ t.probe = s.probe /\ t.heartbeat = s.heartbeat /\ t.pending = s.pending
          /\ t.failures = s.failures /\ t.queue = s.queue /\ t.inhibitor = s.inhibitor
          /\ t.seen = s.seen /\ t.noise = s.noise /\ t.unsure = s.unsure
          /\ t.data = s.data /\ t.bay = bay
        BY <1>3, <1>5 DEF ReaderType
    <2> HIDE DEF t
    <2> QED
        BY <1>3, <1>5, <2>1, <2>2 DEF Soft
<1> QED
    BY <1>1, <1>4, <1>6, SoftKept, KeptTrans

(* Discovery. *)
LEMMA DiscoverKept ==
    ASSUME NEW r \in ReaderType, NEW x, NEW q, q = discoverBatteryTag(r, x)
    PROVE  Kept(r, q)
<1> DEFINE s == [r EXCEPT !.quiet = FALSE, !.unsure = FALSE, !.noise = FALSE]
<1>1. Soft(r, s)
    <2>1. s \in ReaderType
        BY DEF ReaderType
    <2>2. /\ s.state = r.state /\ s.timer = r.timer /\ s.poll = r.poll
          /\ s.probe = r.probe /\ s.heartbeat = r.heartbeat /\ s.pending = r.pending
          /\ s.failures = r.failures /\ s.queue = r.queue /\ s.inhibitor = r.inhibitor
          /\ s.seen = r.seen /\ s.bay = r.bay /\ s.data = r.data /\ ~s.noise
        BY DEF ReaderType
    <2> HIDE DEF s
    <2> QED
        BY <2>1, <2>2 DEF Soft
<1>2. q \in {r, s, Send(s, "reinit"), Send(s, "tag_departed"), noteTagPresent(s)}
    BY DEF discoverBatteryTag
<1>3. s \in ReaderType /\ Kept(r, s)
    BY <1>1, SoftKept DEF Soft
<1> HIDE DEF s
<1>4. "reinit" \in ReaderEvents /\ "tag_departed" \in ReaderEvents
    BY Events
<1>5. /\ Kept(s, Send(s, "reinit")) /\ Kept(s, Send(s, "tag_departed"))
      /\ Kept(s, noteTagPresent(s)) /\ Kept(r, r)
    BY <1>3, <1>4, SendKept, NoteTagPresentKept, KeptSame
<1> QED
    BY <1>2, <1>3, <1>5, KeptTrans

(* An error of the controller or of the field. *)
LEMMA NFCErrorKept ==
    ASSUME NEW r \in ReaderType, NEW x, NEW q, q = handleNFCError(r, x)
    PROVE  Kept(r, q)
<1> DEFINE s == [r EXCEPT !.tags = "none"]
<1>1. Soft(r, s)
    <2>1. s \in ReaderType
        BY DEF ReaderType
    <2>2. /\ s.state = r.state /\ s.timer = r.timer /\ s.poll = r.poll
          /\ s.probe = r.probe /\ s.heartbeat = r.heartbeat /\ s.pending = r.pending
          /\ s.failures = r.failures /\ s.queue = r.queue /\ s.inhibitor = r.inhibitor
          /\ s.seen = r.seen /\ s.noise = r.noise /\ s.unsure = r.unsure
          /\ s.bay = r.bay /\ s.data = r.data
        BY DEF ReaderType
    <2> HIDE DEF s
    <2> QED
        BY <2>1, <2>2 DEF Soft
<1>2. q \in {r, Send(r, "reinit"), Send(s, "tag_departed")}
    BY DEF handleNFCError
<1>3. s \in ReaderType /\ Kept(r, s)
    BY <1>1, SoftKept DEF Soft
<1> HIDE DEF s
<1>4. "reinit" \in ReaderEvents /\ "tag_departed" \in ReaderEvents
    BY Events
<1>5. /\ Kept(r, Send(r, "reinit")) /\ Kept(s, Send(s, "tag_departed")) /\ Kept(r, r)
    BY <1>3, <1>4, SendKept, KeptSame
<1> QED
    BY <1>2, <1>3, <1>5, KeptTrans

(* Publication. *)
LEMMA StatusUpdateKept ==
    ASSUME NEW r \in ReaderType, NEW same, NEW q, q = sendStatusUpdate(r, same)
    PROVE  Soft(r, q) /\ q.data = r.data /\ q.inhibitor = r.inhibitor
           /\ q.quiet = r.quiet /\ q.noise = r.noise
<1> DEFINE s == noteFrameFreshness(r, same)
           Same(x, y) ==
               /\ y.state = x.state /\ y.timer = x.timer /\ y.poll = x.poll
               /\ y.probe = x.probe /\ y.heartbeat = x.heartbeat
               /\ y.pending = x.pending /\ y.failures = x.failures
               /\ y.queue = x.queue /\ y.inhibitor = x.inhibitor /\ y.seen = x.seen
               /\ y.quiet = x.quiet /\ y.noise = x.noise /\ y.unsure = x.unsure
               /\ y.bay = x.bay /\ y.data = x.data
<1>1. s \in ReaderType /\ Same(r, s)
    <2>1. s \in {r, [r EXCEPT !.fresh = "framed"], [r EXCEPT !.fresh = "blank"],
                  [r EXCEPT !.early = TRUE],
                  [r EXCEPT !.fresh = "confirmed", !.early = FALSE]}
        BY DEF noteFrameFreshness
    <2> HIDE DEF s
    <2>2. CASE s = r
        BY <2>2
    <2>3. CASE s = [r EXCEPT !.fresh = "framed"]
        BY <2>3 DEF ReaderType
    <2>4. CASE s = [r EXCEPT !.fresh = "blank"]
        BY <2>4 DEF ReaderType
    <2>5. CASE s = [r EXCEPT !.early = TRUE]
        BY <2>5 DEF ReaderType
    <2>6. CASE s = [r EXCEPT !.fresh = "confirmed", !.early = FALSE]
        BY <2>6, ZenonT(60) DEF ReaderType
    <2> QED
        BY <2>1, <2>2, <2>3, <2>4, <2>5, <2>6
<1>2. r.data.present \in BOOLEAN
    BY DEF ReaderType, DataType
<1>3. q \in {[s EXCEPT !.shown = r.data.present], [s EXCEPT !.shown = @]}
    BY DEF sendStatusUpdate
<1> HIDE DEF s
<1>4. q \in ReaderType /\ Same(s, q)
    <2>1. CASE q = [s EXCEPT !.shown = r.data.present]
        BY <1>1, <1>2, <2>1 DEF ReaderType
    <2>2. CASE q = [s EXCEPT !.shown = @]
        BY <1>1, <2>2 DEF ReaderType
    <2> QED
        BY <1>3, <2>1, <2>2
<1>5. Same(r, q)
    BY <1>1, <1>4
<1> QED
    BY <1>4, <1>5 DEF Soft

LEMMA StatusUpdateFields ==
    ASSUME NEW r \in ReaderType, NEW same, NEW q, q = sendStatusUpdate(r, same)
    PROVE  q.spent = r.spent /\ q.unsure = r.unsure /\ q.bay = r.bay
<1> DEFINE s == noteFrameFreshness(r, same)
<1>1. s \in ReaderType
    <2>1. CASE s = r
        BY <2>1
    <2>2. CASE s = [r EXCEPT !.fresh = "framed"] \/ s = [r EXCEPT !.fresh = "blank"]
        BY <2>2 DEF ReaderType
    <2>3. CASE s = [r EXCEPT !.early = TRUE]
        BY <2>3, ZenonT(60) DEF ReaderType
    <2>4. CASE s = [r EXCEPT !.fresh = "confirmed", !.early = FALSE]
        BY <2>4, ZenonT(60) DEF ReaderType
    <2> QED
        BY <2>1, <2>2, <2>3, <2>4 DEF noteFrameFreshness
<1>2. s.spent = r.spent /\ s.unsure = r.unsure /\ s.bay = r.bay
    BY DEF noteFrameFreshness, ReaderType
<1>3. q \in {[s EXCEPT !.shown = r.data.present], [s EXCEPT !.shown = @]}
    BY DEF sendStatusUpdate
<1> HIDE DEF s
<1>4. q.spent = s.spent /\ q.unsure = s.unsure /\ q.bay = s.bay
    BY <1>1, <1>3 DEF ReaderType
<1> QED
    BY <1>2, <1>4

(* What a frame tells. *)
LEMMA FrameData ==
    ASSUME NEW r \in ReaderType, NEW x
    PROVE  Frame(r, x) \in DataType /\ (Frame(r, x).empty => r.bay.empty \/ x = "oldest")
<1>1. r.bay \in BayType
    BY DEF ReaderType
<1>2. CASE x = "zero"
    BY <1>2 DEF Frame, NoData, DataType
<1>3. CASE x # "zero" /\ Unwritten(r, x)
    <2>1. Frame(r, x) = OldFrame(r.bay, x)
        BY <1>3 DEF Frame
    <2> QED
        BY <1>1, <2>1 DEF OldFrame, DataType, BayType
<1>4. CASE x # "zero" /\ ~Unwritten(r, x)
    BY <1>1, <1>4 DEF Frame, DataType, BayType
<1> QED
    BY <1>2, <1>3, <1>4

(* A status read. *)
LEMMA ReadStatusKept ==
    ASSUME NEW r \in ReaderType, NEW a \in scene.outcomes, NEW q, q = readStatus(r, a)
    PROVE  Kept(r, q)
<1> DEFINE x == Answer(r, a)
           p == Spend(r, a)
           found == discoverBatteryTag(p, x)
           frame == Frame(found, x)
           reserved == found.reserved \/ frame.state = "active"
           read == [found EXCEPT !.data = frame, !.reserved = reserved]
           same == x = "same" \/ Unwritten(found, x)
<1>1. q = readStatusLocked(r, a)
    BY DEF readStatus, Once
<1>2. q \in {found, handleNFCError(found, x), sendStatusUpdate(read, same)}
    BY <1>1 DEF readStatusLocked, parseStatusData
<1>3. Kept(r, p) /\ p \in ReaderType
    BY SpendKept DEF Kept
<1>4. x = "oldest" => Misled
    BY DEF Answer, Misled, HAL
<1> HIDE DEF p, x, same
<1>5. Kept(p, found) /\ found \in ReaderType
    BY <1>3, DiscoverKept DEF Kept
<1> HIDE DEF found
<1>6. frame \in DataType /\ (frame.empty => found.bay.empty \/ Misled)
    BY <1>4, <1>5, FrameData
<1> HIDE DEF frame
<1>7. reserved \in BOOLEAN
    BY <1>5 DEF ReaderType
<1> HIDE DEF reserved
<1>8. Kept(found, handleNFCError(found, x))
    BY <1>5, NFCErrorKept
<1>9. Kept(found, read) /\ read \in ReaderType
    <2>1. read \in ReaderType
        BY <1>5, <1>6, <1>7 DEF ReaderType
    <2>2. /\ read.state = found.state /\ read.timer = found.timer
          /\ read.poll = found.poll /\ read.probe = found.probe
          /\ read.heartbeat = found.heartbeat /\ read.pending = found.pending
          /\ read.failures = found.failures /\ read.queue = found.queue
          /\ read.inhibitor = found.inhibitor /\ read.seen = found.seen
          /\ read.noise = found.noise /\ read.unsure = found.unsure
          /\ read.bay = found.bay /\ read.data = frame
        BY <1>5, <1>6, <1>7 DEF ReaderType
    <2> HIDE DEF read
    <2>3. Soft(found, read)
        BY <1>6, <2>1, <2>2 DEF Soft
    <2> QED
        BY <2>1, <2>3, SoftKept
<1> HIDE DEF read
<1>10. Kept(read, sendStatusUpdate(read, same))
    BY <1>9, StatusUpdateKept, SoftKept
<1> QED
    BY <1>2, <1>3, <1>5, <1>8, <1>9, <1>10, KeptTrans

(* The inhibitor is given up. *)
LEMMA ReleaseKept ==
    ASSUME NEW r \in ReaderType
    PROVE  Kept(r, releaseInhibitor(r)) /\ ~releaseInhibitor(r).inhibitor
<1> DEFINE q == [r EXCEPT !.inhibitor = FALSE]
<1>1. Soft(r, q) /\ ~q.inhibitor
    <2>1. q \in ReaderType
        BY DEF ReaderType
    <2>2. /\ q.state = r.state /\ q.timer = r.timer /\ q.poll = r.poll
          /\ q.probe = r.probe /\ q.heartbeat = r.heartbeat /\ q.pending = r.pending
          /\ q.failures = r.failures /\ q.queue = r.queue /\ q.seen = r.seen
          /\ q.noise = r.noise /\ q.unsure = r.unsure /\ q.bay = r.bay
          /\ q.data = r.data /\ ~q.inhibitor
        BY DEF ReaderType
    <2> HIDE DEF q
    <2> QED
        BY <2>1, <2>2 DEF Soft
<1> HIDE DEF q
<1>2. Kept(r, q) /\ ~q.inhibitor
    BY <1>1, SoftKept
<1> QED
    BY <1>2 DEF releaseInhibitor, q

(* The pack, and what the gate knows of it. *)
LEMMA BayKept ==
    ASSUME NEW r \in ReaderType, NEW bay \in BayType, NEW reserved \in BOOLEAN, NEW q,
           q = [r EXCEPT !.tags = "none", !.reserved = reserved, !.bay = bay],
           bay.empty = r.bay.empty,
           bay.state = "active" => r.bay.state = "active" \/ ~r.bay.empty
    PROVE  Kept(r, q)
<1>1. q \in ReaderType
    BY ZenonT(60) DEF ReaderType
<1>2. /\ q.state = r.state /\ q.timer = r.timer /\ q.poll = r.poll /\ q.probe = r.probe
      /\ q.heartbeat = r.heartbeat /\ q.pending = r.pending /\ q.failures = r.failures
      /\ q.queue = r.queue /\ q.inhibitor = r.inhibitor /\ q.seen = r.seen
      /\ q.noise = r.noise /\ q.unsure = r.unsure /\ q.bay = bay /\ q.data = r.data
    BY DEF ReaderType
<1>3. Soft(r, q)
    BY <1>1, <1>2 DEF Soft
<1> QED
    BY <1>3, SoftKept

(* A command. *)
LEMMA WriteCommandKept ==
    ASSUME NEW r \in ReaderType, NEW cmd, NEW a, NEW q, q = writeCommand(r, cmd, a)
    PROVE  Kept(r, q)
<1> DEFINE x == Answer(r, a)
           p == Spend(r, a)
           found == discoverBatteryTag(p, x)
           h == handleNFCError(found, x)
           i == releaseInhibitor(h)
           bay == IF x \in Failures \cup {"ignored"} THEN i.bay ELSE Obeyed(i.bay, cmd)
           reserved == i.reserved \/ cmd = "on"
           done == [i EXCEPT !.tags = "none", !.reserved = reserved, !.bay = bay]
           end == [releaseInhibitor(h) EXCEPT !.tags = "none",
                     !.reserved = @ \/ cmd = "on",
                     !.bay = IF x \in Failures \cup {"ignored"} THEN @ ELSE Obeyed(@, cmd)]
<1>1. q = Commanded(r, cmd, a)
    BY DEF writeCommand, Once
<1>2. q \in {found, Send(found, "reinit"), releaseInhibitor(found), end,
              Send(end, "reinit")}
    <2> DEFINE stopped(s) == IF x \in {"hal2", "stuck"} THEN Send(s, "reinit") ELSE s
    <2>1. q = IF ~Finds(r, x) THEN stopped(found)
              ELSE IF Denied(cmd) THEN releaseInhibitor(found)
              ELSE stopped(end)
        BY <1>1 DEF Commanded
    <2> HIDE DEF found, end
    <2> QED
        BY <2>1
<1> HIDE DEF x
<1>3. Kept(r, p) /\ p \in ReaderType
    BY SpendKept DEF Kept
<1> HIDE DEF p
<1>4. Kept(p, found) /\ found \in ReaderType
    BY <1>3, DiscoverKept DEF Kept
<1> HIDE DEF found
<1>5. Kept(found, h) /\ h \in ReaderType
    BY <1>4, NFCErrorKept DEF Kept
<1> HIDE DEF h
<1>6. Kept(h, i) /\ i \in ReaderType
    BY <1>5, ReleaseKept DEF Kept
<1>7. end = done
    <2> HIDE DEF i
    <2>1. end = [i EXCEPT !.tags = "none", !.reserved = @ \/ cmd = "on",
                   !.bay = IF x \in Failures \cup {"ignored"} THEN @ ELSE Obeyed(@, cmd)]
        BY DEF i
    <2> QED
        BY <1>6, <2>1 DEF ReaderType
<1> HIDE DEF i, end
<1>8. /\ bay \in BayType /\ bay.empty = i.bay.empty
      /\ bay.state = "active" => i.bay.state = "active" \/ ~i.bay.empty
    <2>1. i.bay \in BayType
        BY <1>6 DEF ReaderType
    <2> QED
        BY <2>1 DEF BayType, Obeyed
<1>9. reserved \in BOOLEAN
    BY <1>6 DEF ReaderType
<1> HIDE DEF bay, reserved
<1>10. Kept(i, done) /\ done \in ReaderType
    <2>1. Kept(i, done)
        BY <1>6, <1>8, <1>9, BayKept
    <2> HIDE DEF done
    <2> QED
        BY <2>1 DEF Kept
<1> HIDE DEF done
<1>11. "reinit" \in ReaderEvents
    BY Events
<1>12. /\ Kept(found, Send(found, "reinit")) /\ Kept(done, Send(done, "reinit"))
       /\ Kept(found, releaseInhibitor(found))
    BY <1>4, <1>10, <1>11, SendKept, ReleaseKept
<1>13. Kept(r, found) /\ Kept(r, done)
    BY <1>3, <1>4, <1>5, <1>6, <1>10, KeptTrans
<1> QED
    BY <1>2, <1>7, <1>12, <1>13, KeptTrans

-----------------------------------------------------------------------------
(* The states. *)

Holders == {"wait_arrival"} \cup (Heartbeat \ {"wait_update"})

(* As Kept, but failures may have been counted. *)
Near(r, q) ==
    /\ q \in ReaderType
    /\ q.state = r.state /\ q.timer = r.timer /\ q.poll = r.poll /\ q.probe = r.probe
    /\ q.heartbeat = r.heartbeat
    /\ \A e : Has(r, e) => Has(q, e)
    /\ q.inhibitor => r.inhibitor
    /\ r.seen => q.seen
    /\ q.noise => q.unsure \/ (r.noise /\ ~r.unsure)
    /\ q.bay.empty = r.bay.empty
    /\ q.bay.state = "active" => r.bay.state = "active" \/ ~r.bay.empty
    /\ q.data.empty => r.data.empty \/ r.bay.empty \/ Misled

(* What holds between the states as well: what was heard during a search   *)
(* makes it unsure, an empty pack does not run, and while nobody exchanges *)
(* packs and no frame misleads, one that is believed empty is.             *)
Base(s, r) ==
    /\ r \in ReaderType
    /\ r.noise => r.unsure
    /\ r.bay.state = "active" => ~r.bay.empty
    /\ "bay" \notin s.events /\ ~Misled => (r.data.empty => r.bay.empty)

(* The heartbeat's timer is armed or its event queued. *)
Beats(r) == r.heartbeat \/ Has(r, "heartbeat_timeout")

(* A pack rests that is empty and stays so, or that may be exchanged or    *)
(* taken for empty while a critical fault empties its data.                *)
Resting(s, r) ==
    /\ r.state = "wait_update"
    /\ \/ "critical" \in s.events /\ ("bay" \in s.events \/ Misled)
       \/ IF "critical" \in s.events THEN r.bay.empty ELSE r.data.empty

(* In a leaf: its goroutines and its inhibitor are its own, and something  *)
(* is pending.                                                             *)
Good(s, r) ==
    /\ Base(s, r)
    /\ r.poll => r.state = "tag_absent"
    /\ r.probe => r.state = "check_presence"
    /\ r.inhibitor => r.state \in Holders
    /\ r.timer => r.state \in DOMAIN Timeouts
    /\ r.state \in DOMAIN Timeouts => r.timer \/ Has(r, Timeouts[r.state])
    /\ r.state = "init" => Has(r, "init_complete")
    /\ r.state \in Heartbeat => Beats(r) \/ Resting(s, r)

(* Between the leaves. *)
Away(s, r) == Base(s, r) /\ ~r.poll /\ ~r.probe /\ ~r.inhibitor

(* Ready to enter a leaf. *)
Fit(s, r, leaf) ==
    /\ Base(s, r) /\ leaf \in DOMAIN Timeouts /\ leaf \in Leaves
    /\ ~r.poll /\ ~r.probe
    /\ r.inhibitor => leaf \in Holders
    /\ leaf \in Heartbeat => Beats(r)

(* A leaf is reached, and the pack not forgotten. *)
Reaches(s, r, q) == Good(s, q) /\ (r.seen => q.seen)

LEMMA KeptNear ==
    ASSUME NEW r, NEW q, Kept(r, q)
    PROVE  Near(r, q)
BY DEF Kept, Near

LEMMA NearTrans ==
    ASSUME NEW r, NEW p, NEW q, Near(r, p), Near(p, q)
    PROVE  Near(r, q)
BY DEF Near

(* Operations between the leaves. *)
LEMMA NearBase ==
    ASSUME NEW s, NEW r, NEW q, Near(r, q), Base(s, r)
    PROVE  Base(s, q)
BY DEF Near, Base

LEMMA NearAway ==
    ASSUME NEW s, NEW r, NEW q, Near(r, q), Away(s, r)
    PROVE  Away(s, q) /\ (r.seen => q.seen)
BY NearBase DEF Near, Away

LEMMA NearFit ==
    ASSUME NEW s, NEW r, NEW q, NEW leaf, Near(r, q), Fit(s, r, leaf)
    PROVE  Fit(s, q, leaf) /\ (r.seen => q.seen)
BY NearBase DEF Near, Fit, Beats

(* Operations in a leaf. *)
LEMMA NearGood ==
    ASSUME NEW s, NEW r, NEW q, Near(r, q), Good(s, r), r.state # "wait_update"
    PROVE  Reaches(s, r, q)
<1>1. Base(s, q)
    BY NearBase DEF Good
<1>2. ~Resting(s, r)
    BY DEF Resting
<1> QED
    BY <1>1, <1>2 DEF Near, Good, Reaches, Beats

(* What else may change in a leaf. *)
LEMMA GoodAlike ==
    ASSUME NEW s, NEW r, NEW q \in ReaderType, Good(s, r),
           q.state = r.state, q.timer = r.timer, q.queue = r.queue, q.data = r.data,
           q.heartbeat = r.heartbeat \/ q.state \notin Heartbeat,
           q.bay = r.bay, q.noise = r.noise, q.unsure = r.unsure,
           q.poll => q.state = "tag_absent", q.probe => q.state = "check_presence",
           q.inhibitor => q.state \in Holders
    PROVE  Good(s, q)
<1>1. Base(s, q)
    BY DEF Good, Base
<1>2. \A e : Has(r, e) => Has(q, e)
    BY DEF Has
<1>3. r.state \in Heartbeat => Beats(q) \/ Resting(s, q)
    BY <1>2 DEF Good, Beats, Resting
<1> QED
    BY <1>1, <1>2, <1>3 DEF Good

(* A leaf is entered. *)
LEMMA EnterFields ==
    ASSUME NEW r \in ReaderType, NEW leaf \in Leaves, NEW q, q = Enter(r, leaf)
    PROVE  /\ q \in ReaderType /\ q.state = leaf /\ q.timer
           /\ q.poll = r.poll /\ q.probe = r.probe /\ q.heartbeat = r.heartbeat
           /\ q.queue = r.queue /\ q.inhibitor = r.inhibitor /\ q.seen = r.seen
           /\ q.noise = r.noise /\ q.unsure = r.unsure /\ q.bay = r.bay /\ q.data = r.data
BY DEF Enter, ReaderType

LEMMA Entered ==
    ASSUME NEW s, NEW r, NEW leaf, Fit(s, r, leaf)
    PROVE  /\ Reaches(s, r, Enter(r, leaf)) /\ Enter(r, leaf).state = leaf
           /\ Enter(r, leaf) \in ReaderType
<1> DEFINE q == Enter(r, leaf)
<1>1. r \in ReaderType /\ leaf \in Leaves
    BY DEF Fit, Base
<1>2. /\ q \in ReaderType /\ q.state = leaf /\ q.timer
      /\ q.poll = r.poll /\ q.probe = r.probe /\ q.heartbeat = r.heartbeat
      /\ q.queue = r.queue /\ q.inhibitor = r.inhibitor /\ q.seen = r.seen
      /\ q.noise = r.noise /\ q.unsure = r.unsure /\ q.bay = r.bay /\ q.data = r.data
    BY <1>1, EnterFields
<1> HIDE DEF q
<1>3. Base(s, q)
    BY <1>2 DEF Base, Fit
<1>4. \A e : Has(r, e) => Has(q, e)
    BY <1>2 DEF Has
<1>5. leaf # "init"
    BY Events DEF Fit
<1>6. Good(s, q)
    BY <1>2, <1>3, <1>4, <1>5 DEF Good, Fit, Beats
<1> QED
    BY <1>2, <1>6 DEF q, Reaches

(* ... and a command sent. *)
LEMMA EnteredCommand ==
    ASSUME NEW s, NEW r, NEW leaf, NEW cmd, NEW a, Fit(s, r, leaf)
    PROVE  Reaches(s, r, writeCommand(Enter(r, leaf), cmd, a))
<1> DEFINE p == Enter(r, leaf)
           q == writeCommand(p, cmd, a)
<1>1. Reaches(s, r, p) /\ p.state # "wait_update" /\ p \in ReaderType
    BY Entered, Events DEF Fit
<1> HIDE DEF p
<1>2. Near(p, q)
    BY <1>1, WriteCommandKept, KeptNear
<1> HIDE DEF q
<1>3. Reaches(s, p, q)
    BY <1>1, <1>2, NearGood DEF Reaches
<1>4. Reaches(s, r, q)
    BY <1>1, <1>3 DEF Reaches
<1> QED
    BY <1>4 DEF p, q

(* A leaf is left. *)
LEMMA LeaveFields ==
    ASSUME NEW r \in ReaderType, NEW heartbeat \in BOOLEAN, NEW inhibitor \in BOOLEAN, NEW q,
           q = [r EXCEPT !.timer = FALSE, !.poll = FALSE, !.probe = FALSE, !.assumed = FALSE,
                  !.heartbeat = heartbeat, !.inhibitor = inhibitor]
    PROVE  /\ q \in ReaderType
           /\ ~q.poll /\ ~q.probe /\ (q.inhibitor => inhibitor) /\ q.seen = r.seen
           /\ q.noise = r.noise /\ q.unsure = r.unsure /\ q.bay = r.bay /\ q.data = r.data
<1> DEFINE u == [r EXCEPT !.timer = FALSE, !.poll = FALSE, !.probe = FALSE]
           v == [u EXCEPT !.assumed = FALSE, !.heartbeat = heartbeat,
                   !.inhibitor = inhibitor]
<1>1. q = v
    OBVIOUS
<1>2. u \in ReaderType
    BY ZenonT(60) DEF ReaderType
<1>3. /\ ~u.poll /\ ~u.probe /\ u.seen = r.seen
      /\ u.noise = r.noise /\ u.unsure = r.unsure /\ u.bay = r.bay /\ u.data = r.data
    BY DEF ReaderType
<1> HIDE DEF u
<1>4. v \in ReaderType
    BY <1>2, ZenonT(60) DEF ReaderType
<1>5. /\ v.poll = u.poll /\ v.probe = u.probe /\ v.seen = u.seen
      /\ v.inhibitor = inhibitor
      /\ v.noise = u.noise /\ v.unsure = u.unsure /\ v.bay = u.bay /\ v.data = u.data
    BY <1>2 DEF ReaderType
<1> HIDE DEF v
<1> QED
    BY <1>1, <1>3, <1>4, <1>5

LEMMA Left ==
    ASSUME NEW s, NEW r, Base(s, r), r.inhibitor => r.state \in Holders
    PROVE  /\ Away(s, Leave(r)) /\ (r.seen => Leave(r).seen)
           /\ Away(s, LeaveTag(r)) /\ (r.seen => LeaveTag(r).seen)
<1> DEFINE q == Leave(r)
           pending == q.pending /\ r.state \notin TagPresent
           t == [q EXCEPT !.pending = pending]
           heartbeat == r.heartbeat /\ r.state \notin Heartbeat
           inhibitor == r.inhibitor /\ r.state \notin Heartbeat \cup Discovering
           l == [r EXCEPT !.timer = FALSE, !.poll = FALSE, !.probe = FALSE,
                   !.assumed = FALSE, !.heartbeat = heartbeat, !.inhibitor = inhibitor]
<1>1. r \in ReaderType
    BY DEF Base
<1>2. q = l
    BY <1>1 DEF Leave, ReaderType
<1>3. heartbeat \in BOOLEAN /\ inhibitor \in BOOLEAN /\ ~inhibitor
    BY <1>1 DEF ReaderType, Holders, Discovering
<1> HIDE DEF heartbeat, inhibitor, q
<1>4. q \in ReaderType
    BY <1>1, <1>2, <1>3, LeaveFields
<1>5. /\ ~q.poll /\ ~q.probe /\ ~q.inhibitor /\ q.seen = r.seen
      /\ q.noise = r.noise /\ q.unsure = r.unsure /\ q.bay = r.bay /\ q.data = r.data
    BY <1>1, <1>2, <1>3, LeaveFields, ZenonT(60)
<1> HIDE DEF l
<1>6. Away(s, q)
    BY <1>4, <1>5 DEF Away, Base
<1>7. t \in ReaderType
    <2>1. pending \in BOOLEAN
        BY <1>4 DEF ReaderType
    <2> HIDE DEF pending
    <2> QED
        BY <1>4, <2>1 DEF ReaderType
<1>8. /\ ~t.poll /\ ~t.probe /\ ~t.inhibitor /\ t.seen = q.seen
      /\ t.noise = q.noise /\ t.unsure = q.unsure /\ t.bay = q.bay /\ t.data = q.data
    BY <1>4, <1>5 DEF ReaderType
<1>9. LeaveTag(r) = t
    BY DEF LeaveTag, q
<1> HIDE DEF t
<1>10. Away(s, t)
    BY <1>6, <1>7, <1>8 DEF Away, Base
<1> QED
    BY <1>5, <1>6, <1>8, <1>9, <1>10 DEF q

(* A leaf outside the heartbeat can be entered. *)
LEMMA AwayFit ==
    ASSUME NEW s, NEW r, NEW leaf \in DOMAIN Timeouts \ Heartbeat, Away(s, r)
    PROVE  Fit(s, r, leaf)
BY Events DEF Away, Fit

LEMMA OutsideHeartbeat ==
    {"nfc_reader_off", "wait_arrival", "tag_absent", "check_presence", "wait_last_cmd",
     "send_off", "read_off_status", "send_opened", "send_inserted_open"}
    = DOMAIN Timeouts \ Heartbeat
BY Events DEF Leaves, Discovering, TagPresent, Heartbeat, OpenLoop

(* Between the leaves, fields that do not count change. *)
LEMMA AwayAlike ==
    ASSUME NEW s, NEW r, NEW q \in ReaderType, Away(s, r),
           q.poll = r.poll, q.probe = r.probe, q.inhibitor = r.inhibitor,
           q.noise = r.noise, q.unsure = r.unsure, q.bay = r.bay, q.data = r.data
    PROVE  Away(s, q)
BY DEF Away, Base

(* nfc_reader_off and wait_last_cmd, which the heartbeat does not outlive. *)
LEMMA Quietened ==
    ASSUME NEW s, NEW r, NEW leaf \in DOMAIN Timeouts \ Heartbeat, Away(s, r)
    PROVE  Reaches(s, r, [Enter(r, leaf) EXCEPT !.heartbeat = FALSE])
<1> DEFINE p == Enter(r, leaf)
           q == [p EXCEPT !.heartbeat = FALSE]
<1>1. Reaches(s, r, p) /\ p.state = leaf /\ p \in ReaderType
    BY AwayFit, Entered
<1> HIDE DEF p
<1>2. q \in ReaderType
    BY <1>1 DEF ReaderType
<1>3. /\ q.state = p.state /\ q.timer = p.timer /\ q.queue = p.queue /\ q.data = p.data
      /\ q.bay = p.bay /\ q.noise = p.noise /\ q.unsure = p.unsure /\ q.poll = p.poll
      /\ q.probe = p.probe /\ q.inhibitor = p.inhibitor /\ q.seen = p.seen
    BY <1>1 DEF ReaderType
<1> HIDE DEF q
<1>4. /\ q.state \notin Heartbeat
      /\ q.poll => q.state = "tag_absent"
      /\ q.probe => q.state = "check_presence"
      /\ q.inhibitor => q.state \in Holders
    BY <1>1, <1>3 DEF Reaches, Good
<1>5. Good(s, q)
    BY <1>1, <1>2, <1>3, <1>4, GoodAlike DEF Reaches
<1>6. Reaches(s, r, q)
    BY <1>1, <1>3, <1>5 DEF Reaches
<1> QED
    BY <1>6 DEF p, q

LEMMA ReaderOff ==
    ASSUME NEW s, NEW r, Away(s, r)
    PROVE  Reaches(s, r, EnterReaderOff(r))
BY OutsideHeartbeat, Quietened DEF EnterReaderOff

LEMMA WaitLastCmd ==
    ASSUME NEW s, NEW r, Away(s, r)
    PROVE  Reaches(s, r, EnterWaitLastCmd(r))
BY OutsideHeartbeat, Quietened DEF EnterWaitLastCmd

(* The inhibitor is taken. *)
LEMMA TakeFields ==
    ASSUME NEW r \in ReaderType, NEW q, q = takeInhibitor(r)
    PROVE  /\ q \in ReaderType /\ q.inhibitor
           /\ q.state = r.state /\ q.timer = r.timer /\ q.queue = r.queue /\ q.data = r.data
           /\ q.heartbeat = r.heartbeat /\ q.bay = r.bay /\ q.noise = r.noise
           /\ q.unsure = r.unsure /\ q.poll = r.poll /\ q.probe = r.probe /\ q.seen = r.seen
BY DEF takeInhibitor, ReaderType

(* discover_tag. *)
LEMMA Discover ==
    ASSUME NEW s, NEW r, NEW a, Away(s, r)
    PROVE  Reaches(s, r, EnterDiscover(r, a))
<1> DEFINE p == Enter(r, "wait_arrival")
           t == takeInhibitor(p)
           q == startDiscovery(t, a)
<1>1. Reaches(s, r, p) /\ p.state = "wait_arrival" /\ p \in ReaderType
    BY AwayFit, Entered, OutsideHeartbeat
<1> HIDE DEF p
<1>2. /\ t \in ReaderType /\ t.inhibitor
      /\ t.state = p.state /\ t.timer = p.timer /\ t.queue = p.queue /\ t.data = p.data
      /\ t.heartbeat = p.heartbeat /\ t.bay = p.bay /\ t.noise = p.noise
      /\ t.unsure = p.unsure /\ t.poll = p.poll /\ t.probe = p.probe /\ t.seen = p.seen
    BY <1>1, TakeFields
<1> HIDE DEF t
<1>3. /\ t.poll => t.state = "tag_absent"
      /\ t.probe => t.state = "check_presence"
      /\ t.inhibitor => t.state \in Holders
    BY <1>1, <1>2 DEF Reaches, Good, Holders
<1>4. Good(s, t)
    BY <1>1, <1>2, <1>3, GoodAlike DEF Reaches
<1>5. Near(t, q)
    BY <1>2, StartDiscoveryKept, KeptNear
<1> HIDE DEF q
<1>6. t.state # "wait_update"
    BY <1>1, <1>2
<1>7. Reaches(s, t, q)
    BY <1>4, <1>5, <1>6, NearGood
<1>8. Reaches(s, r, q)
    BY <1>1, <1>2, <1>7 DEF Reaches
<1> QED
    BY <1>8 DEF EnterDiscover, p, t, q

(* nfc_reader_on. *)
LEMMA ReaderOn ==
    ASSUME NEW s, NEW r, NEW a, NEW b, Away(s, r)
    PROVE  Reaches(s, r, EnterReaderOn(r, a, b))
<1> DEFINE t == [r EXCEPT !.spent = @ + 1]
           p == IF a \in HAL THEN Send(t, "reinit") ELSE r
<1>1. r \in ReaderType /\ "reinit" \in ReaderEvents
    BY Events DEF Away, Base
<1>2. Kept(r, t)
    BY <1>1, SpentKept
<1>3. t \in ReaderType
    <2> HIDE DEF t
    <2> QED
        BY <1>2 DEF Kept
<1> HIDE DEF t
<1>4. Kept(t, Send(t, "reinit")) /\ Kept(r, r)
    BY <1>1, <1>3, SendKept, KeptSame
<1>5. Kept(r, p)
    BY <1>2, <1>4, KeptTrans
<1>6. EnterReaderOn(r, a, b) = EnterDiscover(p, b)
    BY DEF EnterReaderOn, t
<1> HIDE DEF p
<1>7. Away(s, p) /\ (r.seen => p.seen)
    BY <1>5, KeptNear, NearAway
<1>8. Reaches(s, p, EnterDiscover(p, b))
    BY <1>7, Discover
<1> QED
    BY <1>6, <1>7, <1>8 DEF Reaches

(* In any leaf, an event is sent. *)
LEMMA SentGood ==
    ASSUME NEW s, NEW r, NEW e \in ReaderEvents, Good(s, r)
    PROVE  Reaches(s, r, Send(r, e))
<1> DEFINE q == Send(r, e)
<1>1. Kept(r, q) /\ q.data = r.data
    BY SendKept DEF Good, Base
<1> HIDE DEF q
<1>2. Base(s, q)
    BY <1>1, KeptNear, NearBase DEF Good
<1>3. r.state \in Heartbeat => Beats(q) \/ Resting(s, q)
    BY <1>1 DEF Good, Kept, Beats, Resting
<1>4. Reaches(s, r, q)
    BY <1>1, <1>2, <1>3 DEF Good, Kept, Reaches
<1> QED
    BY <1>4 DEF q

(* tag_absent. *)
LEMMA TagAbsent ==
    ASSUME NEW s, NEW r, NEW a, Away(s, r)
    PROVE  Reaches(s, r, EnterTagAbsent(r, a))
<1> DEFINE p == Enter(r, "tag_absent")
           t == startDiscovery(p, a)
           q == [t EXCEPT !.poll = TRUE]
<1>1. Reaches(s, r, p) /\ p.state = "tag_absent" /\ p \in ReaderType
    BY AwayFit, Entered, OutsideHeartbeat
<1> HIDE DEF p
<1>2. Near(p, t)
    BY <1>1, StartDiscoveryKept, KeptNear
<1> HIDE DEF t
<1>3. Reaches(s, r, t) /\ t.state = "tag_absent" /\ t \in ReaderType
    <2>1. p.state # "wait_update"
        BY <1>1
    <2>2. Reaches(s, p, t)
        BY <1>1, <1>2, <2>1, NearGood DEF Reaches
    <2> QED
        BY <1>1, <1>2, <2>2 DEF Reaches, Near
<1>4. "reinit" \in ReaderEvents
    BY Events
<1>5. Reaches(s, t, Send(t, "reinit"))
    BY <1>3, <1>4, SentGood DEF Reaches
<1>6. q \in ReaderType
    BY <1>3 DEF ReaderType
<1>7. /\ q.state = t.state /\ q.timer = t.timer /\ q.queue = t.queue /\ q.data = t.data
      /\ q.heartbeat = t.heartbeat /\ q.bay = t.bay /\ q.noise = t.noise
      /\ q.unsure = t.unsure /\ q.probe = t.probe /\ q.inhibitor = t.inhibitor
      /\ q.seen = t.seen
    BY <1>3 DEF ReaderType
<1> HIDE DEF q
<1>8. /\ q.poll => q.state = "tag_absent"
      /\ q.probe => q.state = "check_presence"
      /\ q.inhibitor => q.state \in Holders
    BY <1>3, <1>7 DEF Reaches, Good
<1>9. Good(s, q)
    BY <1>3, <1>6, <1>7, <1>8, GoodAlike DEF Reaches
<1>10. EnterTagAbsent(r, a) \in {Send(t, "reinit"), q}
    BY DEF EnterTagAbsent, p, t, q
<1> QED
    BY <1>3, <1>5, <1>7, <1>9, <1>10 DEF Reaches

(* Fields that change between the leaves. *)
LEMMA InsertedAway ==
    ASSUME NEW s, NEW r, NEW v \in BOOLEAN, Away(s, r)
    PROVE  /\ Away(s, [r EXCEPT !.inserted = v]) /\ Away(s, [r EXCEPT !.pending = v])
           /\ (r.seen => [r EXCEPT !.inserted = v].seen)
           /\ (r.seen => [r EXCEPT !.pending = v].seen)
<1> DEFINE p == [r EXCEPT !.inserted = v]
           q == [r EXCEPT !.pending = v]
<1>1. r \in ReaderType
    BY DEF Away, Base
<1>2. p \in ReaderType /\ q \in ReaderType
    BY <1>1 DEF ReaderType
<1>3. /\ p.poll = r.poll /\ p.probe = r.probe /\ p.inhibitor = r.inhibitor
      /\ p.noise = r.noise /\ p.unsure = r.unsure /\ p.bay = r.bay /\ p.data = r.data
      /\ p.seen = r.seen
    BY <1>1 DEF ReaderType
<1>4. /\ q.poll = r.poll /\ q.probe = r.probe /\ q.inhibitor = r.inhibitor
      /\ q.noise = r.noise /\ q.unsure = r.unsure /\ q.bay = r.bay /\ q.data = r.data
      /\ q.seen = r.seen
    BY <1>1 DEF ReaderType
<1> HIDE DEF p, q
<1>5. Away(s, p) /\ Away(s, q)
    BY <1>2, <1>3, <1>4, AwayAlike
<1> QED
    BY <1>3, <1>4, <1>5 DEF p, q

LEMMA ArrivedAway ==
    ASSUME NEW s, NEW r, Away(s, r), NEW q,
           q = [r EXCEPT !.inserted = TRUE, !.data.dated = TRUE]
    PROVE  Away(s, q) /\ (r.seen => q.seen)
<1> DEFINE data == [r.data EXCEPT !.dated = TRUE]
<1>1. r \in ReaderType
    BY DEF Away, Base
<1>2. q = [r EXCEPT !.inserted = TRUE, !.data = data]
    BY <1>1 DEF ReaderType
<1>3. data \in DataType /\ data.empty = r.data.empty
    BY <1>1 DEF ReaderType, DataType
<1> HIDE DEF data
<1>4. q \in ReaderType
    BY <1>1, <1>2, <1>3 DEF ReaderType
<1>5. /\ q.poll = r.poll /\ q.probe = r.probe /\ q.inhibitor = r.inhibitor
      /\ q.noise = r.noise /\ q.unsure = r.unsure /\ q.bay = r.bay /\ q.data = data
      /\ q.seen = r.seen
    BY <1>1, <1>2 DEF ReaderType
<1> QED
    BY <1>3, <1>4, <1>5 DEF Away, Base

(* tag_present. *)
LEMMA PresentEntered ==
    ASSUME NEW s, NEW r, NEW a \in scene.outcomes, NEW b, Away(s, r)
    PROVE  Reaches(s, r, EnterTagPresent(r, a, b))
<1> DEFINE t == takeInhibitor(r)
           u == readStatus(t, a)
           v == releaseInhibitor(u)
           w == [v EXCEPT !.failures = 0]
           p == Enter(v, "check_presence")
           q == [p EXCEPT !.probe = TRUE]
<1>1. r \in ReaderType
    BY DEF Away, Base
<1>2. Base(s, t) /\ ~t.poll /\ ~t.probe /\ (r.seen => t.seen)
    <2>1. /\ t \in ReaderType /\ t.data = r.data
          /\ t.bay = r.bay /\ t.noise = r.noise
          /\ t.unsure = r.unsure /\ t.poll = r.poll /\ t.probe = r.probe /\ t.seen = r.seen
        BY <1>1, TakeFields
    <2> HIDE DEF t
    <2> QED
        BY <2>1 DEF Away, Base
<1> HIDE DEF t
<1>3. Kept(t, u) /\ u \in ReaderType
    BY <1>2, ReadStatusKept DEF Base, Kept
<1> HIDE DEF u
<1>4. Kept(t, v) /\ ~v.inhibitor
    BY <1>3, ReleaseKept, KeptTrans
<1> HIDE DEF v
<1>5. Away(s, v) /\ (r.seen => v.seen) /\ v \in ReaderType
    <2>1. Base(s, v)
        BY <1>2, <1>4, KeptNear, NearBase
    <2> QED
        BY <1>2, <1>4, <2>1 DEF Away, Kept
<1>6. Away(s, w) /\ (v.seen => w.seen)
    <2>1. 0 \in 0..(MaxFailures - 1)
        BY BoundsAssumption
    <2>2. w \in ReaderType
        BY <1>5, <2>1 DEF ReaderType
    <2>3. /\ w.poll = v.poll /\ w.probe = v.probe /\ w.inhibitor = v.inhibitor
          /\ w.noise = v.noise /\ w.unsure = v.unsure /\ w.bay = v.bay /\ w.data = v.data
          /\ w.seen = v.seen
        BY <1>5 DEF ReaderType
    <2> HIDE DEF w
    <2> QED
        BY <1>5, <2>2, <2>3, AwayAlike
<1> HIDE DEF w
<1>7. Reaches(s, w, EnterWaitLastCmd(w))
    BY <1>6, WaitLastCmd
<1>8. Reaches(s, v, p) /\ p.state = "check_presence" /\ p \in ReaderType
    BY <1>5, AwayFit, Entered, OutsideHeartbeat
<1> HIDE DEF p
<1>9. q \in ReaderType
    BY <1>8 DEF ReaderType
<1>10. /\ q.state = p.state /\ q.timer = p.timer /\ q.queue = p.queue /\ q.data = p.data
       /\ q.heartbeat = p.heartbeat /\ q.bay = p.bay /\ q.noise = p.noise
       /\ q.unsure = p.unsure /\ q.poll = p.poll /\ q.inhibitor = p.inhibitor
       /\ q.seen = p.seen
    BY <1>8 DEF ReaderType
<1> HIDE DEF q
<1>11. /\ q.poll => q.state = "tag_absent"
       /\ q.probe => q.state = "check_presence"
       /\ q.inhibitor => q.state \in Holders
       /\ q.state # "wait_update"
    BY <1>8, <1>10 DEF Reaches, Good
<1>12. Good(s, q)
    BY <1>8, <1>9, <1>10, <1>11, GoodAlike DEF Reaches
<1>13. Near(q, writeCommand(q, "inserted", b))
    BY <1>9, WriteCommandKept, KeptNear
<1>14. Reaches(s, q, writeCommand(q, "inserted", b))
    BY <1>11, <1>12, <1>13, NearGood
<1>15. EnterTagPresent(r, a, b)
           \in {EnterWaitLastCmd(w), writeCommand(q, "inserted", b)}
    BY DEF EnterTagPresent, t, u, v, w, p, q
<1> QED
    BY <1>5, <1>6, <1>7, <1>8, <1>10, <1>14, <1>15 DEF Reaches

(* heartbeat. *)
LEMMA HeartbeatEntered ==
    ASSUME NEW s, NEW r, NEW a, Away(s, r)
    PROVE  Reaches(s, r, EnterHeartbeat(r, a))
<1> DEFINE t == [r EXCEPT !.heartbeat = TRUE]
           p == takeInhibitor(t)
<1>1. r \in ReaderType
    BY DEF Away, Base
<1>2. t \in ReaderType
    BY <1>1 DEF ReaderType
<1>3. /\ t.heartbeat /\ t.poll = r.poll /\ t.probe = r.probe /\ t.seen = r.seen
      /\ t.noise = r.noise /\ t.unsure = r.unsure /\ t.bay = r.bay /\ t.data = r.data
    BY <1>1 DEF ReaderType
<1> HIDE DEF t
<1>4. /\ p \in ReaderType /\ p.data = t.data
      /\ p.heartbeat = t.heartbeat /\ p.bay = t.bay /\ p.noise = t.noise
      /\ p.unsure = t.unsure /\ p.poll = t.poll /\ p.probe = t.probe /\ p.seen = t.seen
    BY <1>2, TakeFields
<1> HIDE DEF p
<1>5. Base(s, p)
    BY <1>3, <1>4 DEF Away, Base
<1>6. /\ "send_closed" \in DOMAIN Timeouts /\ "send_closed" \in Leaves
      /\ "send_closed" \in Holders
    BY Events DEF Leaves, TagPresent, Heartbeat, Holders
<1>7. Fit(s, p, "send_closed")
    BY <1>3, <1>4, <1>5, <1>6 DEF Fit, Away, Beats
<1>8. Reaches(s, p, writeCommand(Enter(p, "send_closed"), "closed", a))
    BY <1>7, EnteredCommand
<1>9. EnterHeartbeat(r, a) = writeCommand(Enter(p, "send_closed"), "closed", a)
    BY DEF EnterHeartbeat, EnterSendClosed, p, t
<1> QED
    BY <1>3, <1>4, <1>8, <1>9 DEF Reaches

(* send_off and send_opened. *)
LEMMA OffEntered ==
    ASSUME NEW s, NEW r, NEW a, Away(s, r)
    PROVE  Reaches(s, r, EnterSendOff(r, a)) /\ Reaches(s, r, EnterSendOpened(r, a))
BY AwayFit, EnteredCommand, OutsideHeartbeat DEF EnterSendOff, EnterSendOpened

(* cond_just_inserted. *)
LEMMA JustInserted ==
    ASSUME NEW s, NEW r, NEW a, Away(s, r)
    PROVE  Reaches(s, r, CondJustInserted(r, a))
<1> DEFINE t == [r EXCEPT !.inserted = FALSE]
           p == EnterSendOpened(r, a)
           v == r.data.state = "unknown" \/ r.data.dated
           q == [p EXCEPT !.assumed = v]
<1>1. CondJustInserted(r, a) \in {EnterHeartbeat(t, a), q, EnterSendOff(r, a)}
    BY DEF CondJustInserted
<1>2. Away(s, t) /\ (r.seen => t.seen)
    BY InsertedAway
<1> HIDE DEF t
<1>3. Reaches(s, t, EnterHeartbeat(t, a))
    BY <1>2, HeartbeatEntered
<1>4. Reaches(s, r, p) /\ Reaches(s, r, EnterSendOff(r, a))
    BY OffEntered
<1> HIDE DEF p
<1>5. Good(s, p) /\ p \in ReaderType /\ v \in BOOLEAN
    <2>1. r.data \in DataType
        BY DEF Away, Base, ReaderType
    <2> QED
        BY <1>4, <2>1 DEF Reaches, Good, Base, DataType
<1> HIDE DEF v
<1>6. q \in ReaderType
    BY <1>5 DEF ReaderType
<1>7. /\ q.state = p.state /\ q.timer = p.timer /\ q.queue = p.queue /\ q.data = p.data
      /\ q.heartbeat = p.heartbeat /\ q.bay = p.bay /\ q.noise = p.noise
      /\ q.unsure = p.unsure /\ q.poll = p.poll /\ q.probe = p.probe
      /\ q.inhibitor = p.inhibitor /\ q.seen = p.seen
    BY <1>5 DEF ReaderType
<1> HIDE DEF q
<1>8. /\ q.poll => q.state = "tag_absent"
      /\ q.probe => q.state = "check_presence"
      /\ q.inhibitor => q.state \in Holders
    BY <1>5, <1>7 DEF Good
<1>9. Good(s, q)
    BY <1>5, <1>6, <1>7, <1>8, GoodAlike
<1> QED
    BY <1>1, <1>2, <1>3, <1>4, <1>7, <1>9 DEF Reaches

(* cond_seatbox_lock. *)
LEMMA SeatboxLock ==
    ASSUME NEW s, NEW r, NEW a, Away(s, r)
    PROVE  Reaches(s, r, CondSeatboxLock(r, a))
<1> DEFINE t == [r EXCEPT !.inserted = FALSE]
           u == releaseInhibitor(r)
<1>1. CondSeatboxLock(r, a) \in {EnterHeartbeat(t, a), CondJustInserted(u, a)}
    BY DEF CondSeatboxLock
<1>2. Away(s, t) /\ (r.seen => t.seen)
    BY InsertedAway
<1>3. Away(s, u) /\ (r.seen => u.seen)
    BY ReleaseKept, KeptNear, NearAway DEF Away, Base
<1> HIDE DEF t, u
<1>4. Reaches(s, t, EnterHeartbeat(t, a)) /\ Reaches(s, u, CondJustInserted(u, a))
    BY <1>2, <1>3, HeartbeatEntered, JustInserted
<1> QED
    BY <1>1, <1>2, <1>3, <1>4 DEF Reaches

(* StopTimerIfBatteryEmpty. *)
LEMMA StopTimer ==
    ASSUME NEW s, NEW r, NEW q, Base(s, r), r.state = "wait_update", Beats(r),
           q = StopTimerIfBatteryEmpty(r)
    PROVE  /\ Base(s, q) /\ q.state = r.state /\ q.timer = r.timer /\ q.poll = r.poll
           /\ q.probe = r.probe /\ (r.seen => q.seen) /\ (Beats(q) \/ Resting(s, q))
<1>1. r \in ReaderType
    BY DEF Base
<1>2. CASE ~r.data.empty
    BY <1>2 DEF StopTimerIfBatteryEmpty
<1>3. CASE r.data.empty
    <2> DEFINE same == r.data.state = "inactive"
               data == [r.data EXCEPT !.state = "inactive"]
               t == [r EXCEPT !.heartbeat = FALSE, !.data = data]
    <2>1. q = sendStatusUpdate(t, same)
        <3>1. [r EXCEPT !.heartbeat = FALSE, !.data.state = "inactive"] = t
            BY <1>1 DEF ReaderType
        <3> QED
            BY <1>3, <3>1 DEF StopTimerIfBatteryEmpty
    <2>2. data \in DataType /\ data.empty = r.data.empty
        BY <1>1 DEF ReaderType, DataType
    <2> HIDE DEF data, same
    <2>3. t \in ReaderType
        BY <1>1, <2>2 DEF ReaderType
    <2>4. /\ t.state = r.state /\ t.timer = r.timer /\ t.poll = r.poll
          /\ t.probe = r.probe /\ t.noise = r.noise /\ t.unsure = r.unsure
          /\ t.bay = r.bay /\ t.data = data /\ t.seen = r.seen
        BY <1>1 DEF ReaderType
    <2> HIDE DEF t
    <2>5. Soft(t, q) /\ q.data = t.data
        BY <2>1, <2>3, StatusUpdateKept
    <2>6. Base(s, t)
        BY <2>2, <2>3, <2>4 DEF Base
    <2>7. Base(s, q)
        BY <2>5, <2>6, SoftKept, KeptNear, NearBase
    <2>8. /\ q.state = r.state /\ q.timer = r.timer /\ q.poll = r.poll
          /\ q.probe = r.probe /\ (r.seen => q.seen) /\ q.bay.empty = r.bay.empty
        BY <2>4, <2>5 DEF Soft
    <2>9. q.data.empty
        BY <1>3, <2>2, <2>4, <2>5
    <2>10. Resting(s, q)
        BY <2>7, <2>8, <2>9 DEF Resting, Base
    <2> QED
        BY <2>7, <2>8, <2>10
<1> QED
    BY <1>2, <1>3

(* wait_update. *)
LEMMA WaitUpdate ==
    ASSUME NEW s, NEW r, Fit(s, r, "send_inserted_closed")
    PROVE  Reaches(s, r, EnterWaitUpdate(r))
<1> DEFINE p == Enter(r, "wait_update")
           t == [p EXCEPT !.timer = FALSE]
           u == StopTimerIfBatteryEmpty(t)
           q == releaseInhibitor(u)
<1>1. r \in ReaderType /\ "wait_update" \in Leaves /\ "send_inserted_closed" \in Heartbeat
    BY DEF Fit, Base, Leaves, TagPresent, Heartbeat
<1>2. /\ p \in ReaderType /\ p.state = "wait_update"
      /\ p.poll = r.poll /\ p.probe = r.probe /\ p.heartbeat = r.heartbeat
      /\ p.queue = r.queue /\ p.seen = r.seen
      /\ p.noise = r.noise /\ p.unsure = r.unsure /\ p.bay = r.bay /\ p.data = r.data
    BY <1>1, EnterFields
<1> HIDE DEF p
<1>3. t \in ReaderType
    BY <1>2 DEF ReaderType
<1>4. /\ t.state = p.state /\ ~t.timer /\ t.poll = p.poll /\ t.probe = p.probe
      /\ t.heartbeat = p.heartbeat /\ t.queue = p.queue /\ t.seen = p.seen
      /\ t.noise = p.noise /\ t.unsure = p.unsure /\ t.bay = p.bay /\ t.data = p.data
    BY <1>2 DEF ReaderType
<1> HIDE DEF t
<1>5. Base(s, t)
    BY <1>2, <1>3, <1>4 DEF Base, Fit
<1>6. Beats(t)
    BY <1>1, <1>2, <1>4 DEF Beats, Fit, Has
<1>7. /\ Base(s, u) /\ u.state = t.state /\ u.timer = t.timer /\ u.poll = t.poll
      /\ u.probe = t.probe /\ (t.seen => u.seen) /\ (Beats(u) \/ Resting(s, u))
    BY <1>2, <1>4, <1>5, <1>6, StopTimer
<1> HIDE DEF u
<1>8. Kept(u, q) /\ ~q.inhibitor /\ q.data = u.data
    <2>1. u \in ReaderType
        BY <1>7 DEF Base
    <2>2. q.data = u.data
        BY <2>1 DEF releaseInhibitor, ReaderType
    <2> QED
        BY <2>1, <2>2, ReleaseKept
<1> HIDE DEF q
<1>9. Base(s, q)
    BY <1>7, <1>8, KeptNear, NearBase
<1>10. Beats(q) \/ Resting(s, q)
    BY <1>7, <1>8 DEF Beats, Resting, Kept
<1>11. /\ q.state = "wait_update" /\ ~q.timer /\ ~q.poll /\ ~q.probe /\ (r.seen => q.seen)
    BY <1>2, <1>4, <1>7, <1>8 DEF Kept, Fit
<1>12. "wait_update" \notin DOMAIN Timeouts
    BY Events
<1>13. Reaches(s, r, q)
    BY <1>8, <1>9, <1>10, <1>11, <1>12 DEF Reaches, Good
<1>14. "admission_poll" \in ReaderEvents
    BY Events
<1>15. Reaches(s, q, Send(q, "admission_poll"))
    BY <1>13, <1>14, SentGood DEF Reaches
<1>16. EnterWaitUpdate(r) \in {q, Send(q, "admission_poll")}
    BY DEF EnterWaitUpdate, p, t, u, q
<1> QED
    BY <1>13, <1>15, <1>16 DEF Reaches

(* readStatusAction. *)
LEMMA ReadActionNear ==
    ASSUME NEW r \in ReaderType, NEW a \in scene.outcomes
    PROVE  Near(r, readStatusAction(r, a))
<1> DEFINE t == readStatus(r, a)
           m == IF ReadFails(r, a) /\ r.failures + 1 < MaxFailures THEN r.failures + 1 ELSE 0
           q == [t EXCEPT !.failures = m]
<1>1. Kept(r, t) /\ t \in ReaderType /\ t.failures = r.failures
    <2>1. Kept(r, t)
        BY ReadStatusKept
    <2> HIDE DEF t
    <2> QED
        BY <2>1 DEF Kept
<1>2. r.failures \in 0..(MaxFailures - 1) /\ MaxFailures \in Nat \ {0}
    BY BoundsAssumption DEF ReaderType
<1>3. m \in 0..(MaxFailures - 1)
    BY <1>2
<1>4. readStatusAction(r, a) \in {q, Send(q, "restart")}
    <2> HIDE DEF t
    <2>1. readStatusAction(r, a)
          = IF ~ReadFails(r, a) THEN [t EXCEPT !.failures = 0]
            ELSE IF r.failures + 1 >= MaxFailures
            THEN Send([t EXCEPT !.failures = 0], "restart")
            ELSE [t EXCEPT !.failures = t.failures + 1]
        BY DEF readStatusAction, t
    <2>2. CASE ~ReadFails(r, a)
        BY <2>1, <2>2
    <2>3. CASE ReadFails(r, a) /\ r.failures + 1 >= MaxFailures
        <3>1. m = 0
            BY <1>2, <2>3
        <3> QED
            BY <2>1, <2>3, <3>1
    <2>4. CASE ReadFails(r, a) /\ ~(r.failures + 1 >= MaxFailures)
        <3>1. m = t.failures + 1
            BY <1>1, <1>2, <2>4
        <3> QED
            BY <2>1, <2>4, <3>1
    <2> QED
        BY <2>2, <2>3, <2>4
<1> HIDE DEF t, m
<1>5. q \in ReaderType
    BY <1>1, <1>3 DEF ReaderType
<1>6. /\ q.state = t.state /\ q.timer = t.timer /\ q.poll = t.poll /\ q.probe = t.probe
      /\ q.heartbeat = t.heartbeat
      /\ q.queue = t.queue /\ q.inhibitor = t.inhibitor /\ q.seen = t.seen
      /\ q.noise = t.noise /\ q.unsure = t.unsure /\ q.bay = t.bay /\ q.data = t.data
    BY <1>1 DEF ReaderType
<1> HIDE DEF q
<1>7. Near(t, q)
    <2>1. \A e : Has(t, e) => Has(q, e)
        BY <1>6 DEF Has
    <2> QED
        BY <1>5, <1>6, <2>1 DEF Near
<1>8. "restart" \in ReaderEvents
    BY Events
<1>9. Near(q, Send(q, "restart"))
    BY <1>5, <1>8, SendKept, KeptNear
<1>10. Near(r, q)
    BY <1>1, <1>7, KeptNear, NearTrans
<1> QED
    BY <1>4, <1>9, <1>10, NearTrans

(* cond_state_ok. *)
LEMMA StateOK ==
    ASSUME NEW s, NEW r, NEW a, Fit(s, r, "send_inserted_closed")
    PROVE  Reaches(s, r, CondStateOK(r, a))
<1> DEFINE t == [r EXCEPT !.tags = "none"]
           u == [t EXCEPT !.spent = @ + 1]
           v == Send(u, "reinit")
           w == writeCommand(Enter(r, "send_inserted_closed"), "inserted", a)
<1>1. CondStateOK(r, a) \in {w, EnterWaitUpdate(t), EnterWaitUpdate(v)}
    BY DEF CondStateOK
<1>2. r \in ReaderType /\ "reinit" \in ReaderEvents
    BY Events DEF Fit, Base
<1>3. Kept(r, t)
    <2>1. Soft(r, t)
        <3>1. t \in ReaderType
            BY <1>2 DEF ReaderType
        <3>2. /\ t.state = r.state /\ t.timer = r.timer /\ t.poll = r.poll
              /\ t.probe = r.probe /\ t.heartbeat = r.heartbeat
              /\ t.pending = r.pending /\ t.failures = r.failures /\ t.queue = r.queue
              /\ t.inhibitor = r.inhibitor /\ t.seen = r.seen /\ t.noise = r.noise
              /\ t.unsure = r.unsure /\ t.bay = r.bay /\ t.data = r.data
            BY <1>2 DEF ReaderType
        <3> HIDE DEF t
        <3> QED
            BY <1>2, <3>1, <3>2 DEF Soft
    <2> QED
        BY <2>1, SoftKept
<1>4. t \in ReaderType
    BY <1>2 DEF ReaderType
<1> HIDE DEF t
<1>5. Kept(t, u)
    BY <1>4, SpentKept
<1>6. u \in ReaderType
    <2> HIDE DEF u
    <2> QED
        BY <1>5 DEF Kept
<1> HIDE DEF u
<1>7. Kept(u, v)
    BY <1>2, <1>6, SendKept
<1> HIDE DEF v
<1>8. Near(r, t) /\ Near(r, v)
    BY <1>3, <1>5, <1>7, KeptTrans, KeptNear
<1>9. /\ Fit(s, t, "send_inserted_closed") /\ (r.seen => t.seen)
      /\ Fit(s, v, "send_inserted_closed") /\ (r.seen => v.seen)
    BY <1>8, NearFit
<1>10. Reaches(s, t, EnterWaitUpdate(t)) /\ Reaches(s, v, EnterWaitUpdate(v))
    BY <1>9, WaitUpdate
<1>11. Reaches(s, r, w)
    BY EnteredCommand
<1> HIDE DEF w
<1> QED
    BY <1>1, <1>9, <1>10, <1>11 DEF Reaches

(* read_off_status. *)
LEMMA ReadOff ==
    ASSUME NEW s, NEW r, NEW a \in scene.outcomes, Away(s, r)
    PROVE  Reaches(s, r, EnterReadOffStatus(r, a))
<1> DEFINE p == Enter(r, "read_off_status")
           t == readStatus(p, a)
<1>1. Reaches(s, r, p) /\ p.state = "read_off_status" /\ p \in ReaderType
    BY AwayFit, Entered, OutsideHeartbeat
<1>2. EnterReadOffStatus(r, a)
          \in {t, Send(t, "off_confirmed_inactive"), Send(t, "off_retry")}
    BY DEF EnterReadOffStatus
<1> HIDE DEF p
<1>3. Near(p, t)
    BY <1>1, ReadStatusKept, KeptNear
<1> HIDE DEF t
<1>4. Reaches(s, r, t)
    <2>1. p.state # "wait_update"
        BY <1>1
    <2>2. Reaches(s, p, t)
        BY <1>1, <1>3, <2>1, NearGood DEF Reaches
    <2> QED
        BY <1>1, <2>2 DEF Reaches
<1>5. "off_confirmed_inactive" \in ReaderEvents /\ "off_retry" \in ReaderEvents
    BY Events
<1>6. Reaches(s, t, Send(t, "off_confirmed_inactive")) /\ Reaches(s, t, Send(t, "off_retry"))
    BY <1>4, <1>5, SentGood DEF Reaches
<1> QED
    BY <1>2, <1>4, <1>6 DEF Reaches

(* handleDeparture. *)
LEMMA Departure ==
    ASSUME NEW s, NEW r, NEW q, Away(s, r), r.quiet, ~r.unsure, q = handleDeparture(r)
    PROVE  Away(s, q) /\ q.quiet /\ ~q.noise
<1> DEFINE bay == [r.bay EXCEPT !.known = FALSE]
           u == [r EXCEPT !.seen = FALSE, !.tags = "none", !.bay = bay]
           t == [u EXCEPT !.fresh = "confirmed", !.early = FALSE, !.data = NoData]
           same == FALSE
<1>1. r \in ReaderType /\ ~r.noise
    BY DEF Away, Base
<1>2. bay \in BayType /\ bay.empty = r.bay.empty /\ bay.state = r.bay.state
    BY <1>1 DEF ReaderType, BayType
<1>3. q = sendStatusUpdate(t, same)
    <2>1. [r EXCEPT !.seen = FALSE, !.tags = "none", !.bay.known = FALSE,
                    !.fresh = "confirmed", !.early = FALSE, !.data = NoData] = t
        BY <1>1 DEF ReaderType
    <2> QED
        BY <2>1 DEF handleDeparture
<1> HIDE DEF bay, same
<1>4. u \in ReaderType
    BY <1>1, <1>2 DEF ReaderType
<1>5. /\ u.poll = r.poll /\ u.probe = r.probe /\ u.inhibitor = r.inhibitor
      /\ u.quiet = r.quiet /\ u.noise = r.noise /\ u.bay = bay
    BY <1>1 DEF ReaderType
<1> HIDE DEF u
<1>6. NoData \in DataType /\ ~NoData.empty
    BY DEF NoData, DataType
<1>7. t \in ReaderType
    BY <1>4, <1>6 DEF ReaderType
<1>8. /\ t.poll = u.poll /\ t.probe = u.probe /\ t.inhibitor = u.inhibitor
      /\ t.quiet = u.quiet /\ t.noise = u.noise /\ t.bay = u.bay /\ t.data = NoData
    BY <1>4 DEF ReaderType
<1> HIDE DEF t
<1>9. Away(s, t)
    BY <1>1, <1>2, <1>5, <1>6, <1>7, <1>8 DEF Away, Base
<1>10. Soft(t, q) /\ q.quiet = t.quiet /\ q.noise = t.noise
    BY <1>3, <1>7, StatusUpdateKept
<1>11. Away(s, q)
    BY <1>9, <1>10, SoftKept, KeptNear, NearAway
<1> QED
    BY <1>1, <1>5, <1>8, <1>10, <1>11

(* Something is heard. *)
HeardAt(r, n) == [r EXCEPT !.unsure = TRUE, !.noise = TRUE, !.spent = n]

LEMMA Heard ==
    ASSUME NEW s, NEW r, NEW n \in Nat, Base(s, r), NEW q, q = HeardAt(r, n)
    PROVE  /\ Base(s, q) /\ q.unsure
           /\ q.state = r.state /\ q.timer = r.timer /\ q.poll = r.poll /\ q.probe = r.probe
           /\ q.heartbeat = r.heartbeat /\ q.queue = r.queue /\ q.inhibitor = r.inhibitor
           /\ q.seen = r.seen /\ q.bay = r.bay /\ q.data = r.data
<1>1. r \in ReaderType
    BY DEF Base
<1>2. q \in ReaderType
    BY <1>1 DEF ReaderType, HeardAt
<1>3. /\ q.unsure
      /\ q.state = r.state /\ q.timer = r.timer /\ q.poll = r.poll /\ q.probe = r.probe
      /\ q.heartbeat = r.heartbeat /\ q.queue = r.queue /\ q.inhibitor = r.inhibitor
      /\ q.seen = r.seen /\ q.bay = r.bay /\ q.data = r.data
    BY <1>1 DEF ReaderType, HeardAt
<1>4. Base(s, q)
    BY <1>2, <1>3 DEF Base
<1> QED
    BY <1>3, <1>4

(* FinishDiscovery: only here a pack is forgotten. *)
LEMMA Finish ==
    ASSUME NEW s, NEW r, NEW a, NEW q, Away(s, r), q = FinishDiscovery(r, a)
    PROVE  Away(s, q) /\ (r.seen => q.seen \/ (q.quiet /\ ~q.noise))
<1> DEFINE t == [r EXCEPT !.spent = @ + 1]
           n == IF r.bay.in THEN r.spent ELSE r.spent + 1
           h == HeardAt(r, n)
<1>1. r \in ReaderType
    BY DEF Away, Base
<1>2. \/ q = r
      \/ r.quiet /\ ~r.unsure /\ q = handleDeparture(r)
      \/ r.quiet /\ ~r.unsure /\ q = handleDeparture(t)
      \/ q = h
    <2>1. [r EXCEPT !.unsure = TRUE, !.noise = TRUE,
                    !.spent = IF r.bay.in THEN @ ELSE @ + 1] = h
        BY <1>1 DEF ReaderType, HeardAt
    <2> HIDE DEF h
    <2> QED
        BY <2>1 DEF FinishDiscovery
<1>3. CASE r.quiet /\ ~r.unsure /\ q = handleDeparture(r)
    BY <1>3, Departure
<1>4. CASE r.quiet /\ ~r.unsure /\ q = handleDeparture(t)
    <2>1. Kept(r, t)
        BY <1>1, SpentKept
    <2>2. t.quiet = r.quiet /\ t.unsure = r.unsure
        BY <1>1 DEF ReaderType
    <2> HIDE DEF t
    <2>3. Away(s, t)
        BY <2>1, KeptNear, NearAway
    <2> QED
        BY <1>4, <2>2, <2>3, Departure
<1>5. CASE q = h
    <2>1. n \in Nat
        BY <1>1 DEF ReaderType
    <2> HIDE DEF n
    <2>2. Base(s, r)
        BY DEF Away
    <2>3. /\ Base(s, h) /\ h.poll = r.poll /\ h.probe = r.probe
          /\ h.inhibitor = r.inhibitor /\ h.seen = r.seen
        BY <2>1, <2>2, Heard
    <2> HIDE DEF h
    <2> QED
        BY <1>5, <2>3 DEF Away
<1> QED
    BY <1>2, <1>3, <1>4, <1>5

-----------------------------------------------------------------------------
(* The machine takes an event. *)

LEMMA TailFacts ==
    ASSUME NEW q \in Seq(ReaderEvents), q # <<>>
    PROVE  /\ Tail(q) \in Seq(ReaderEvents) /\ Head(q) = q[1]
           /\ \A k \in 2..Len(q) : k - 1 \in 1..Len(Tail(q)) /\ Tail(q)[k - 1] = q[k]
OBVIOUS

LEMMA TakenFields ==
    ASSUME NEW t, reader \in ReaderType, reader.queue # <<>>, t = Taken
    PROVE  /\ t \in ReaderType
           /\ t.state = reader.state /\ t.timer = reader.timer /\ t.poll = reader.poll
           /\ t.probe = reader.probe /\ t.heartbeat = reader.heartbeat
           /\ t.inhibitor = reader.inhibitor /\ t.seen = reader.seen
           /\ t.noise = reader.noise /\ t.unsure = reader.unsure /\ t.bay = reader.bay
           /\ t.data = reader.data
           /\ \A e : e # Head(reader.queue) /\ Has(reader, e) => Has(t, e)
<1> DEFINE Q == Tail(reader.queue)
<1>1. t = [reader EXCEPT !.queue = Q] /\ reader.queue \in Seq(ReaderEvents)
    BY DEF Taken, ReaderType
<1>2. /\ Q \in Seq(ReaderEvents) /\ Head(reader.queue) = reader.queue[1]
      /\ \A k \in 2..Len(reader.queue) : k - 1 \in 1..Len(Q) /\ Q[k - 1] = reader.queue[k]
    BY <1>1, TailFacts
<1> HIDE DEF Q
<1>3. t \in ReaderType /\ t.queue = Q
    BY <1>1, <1>2, ZenonT(60) DEF ReaderType
<1>4. /\ t.state = reader.state /\ t.timer = reader.timer /\ t.poll = reader.poll
      /\ t.probe = reader.probe /\ t.heartbeat = reader.heartbeat
      /\ t.inhibitor = reader.inhibitor /\ t.seen = reader.seen
      /\ t.noise = reader.noise /\ t.unsure = reader.unsure /\ t.bay = reader.bay
      /\ t.data = reader.data
    BY <1>1 DEF ReaderType
<1>5. ASSUME NEW e, e # Head(reader.queue), Has(reader, e)
      PROVE  Has(t, e)
    <2>1. PICK k \in 1..Len(reader.queue) : reader.queue[k] = e
        BY <1>5 DEF Has
    <2>2. k \in 2..Len(reader.queue)
        <3>1. k # 1
            BY <1>2, <1>5, <2>1
        <3>2. Len(reader.queue) \in Nat
            BY <1>1
        <3> QED
            BY <2>1, <3>1, <3>2
    <2>3. k - 1 \in 1..Len(Q) /\ Q[k - 1] = e
        BY <1>2, <2>1, <2>2
    <2> QED
        BY <1>3, <2>3 DEF Has
<1> QED
    BY <1>3, <1>4, <1>5

(* What the reader is like when its event is taken. *)
LEMMA Take ==
    ASSUME Good(scene, reader), reader.queue # <<>>
    PROVE  /\ Away(scene, Leave(Taken)) /\ (reader.seen => Leave(Taken).seen)
           /\ Away(scene, LeaveTag(Taken)) /\ (reader.seen => LeaveTag(Taken).seen)
           /\ Taken \in ReaderType /\ Taken.seen = reader.seen
           /\ reader.state \notin Holders \cup {"tag_absent", "check_presence"}
              => Away(scene, Taken)
           /\ reader.state \in Heartbeat \ {"wait_update"}
              /\ Head(reader.queue) # "heartbeat_timeout"
              => \A leaf \in Heartbeat \ {"wait_update"} : Fit(scene, Taken, leaf)
<1> DEFINE t == Taken
<1>1. reader \in ReaderType
    BY DEF Good, Base
<1>2. /\ t \in ReaderType
      /\ t.state = reader.state /\ t.timer = reader.timer /\ t.poll = reader.poll
      /\ t.probe = reader.probe /\ t.heartbeat = reader.heartbeat
      /\ t.inhibitor = reader.inhibitor /\ t.seen = reader.seen
      /\ t.noise = reader.noise /\ t.unsure = reader.unsure /\ t.bay = reader.bay
      /\ t.data = reader.data
      /\ \A e : e # Head(reader.queue) /\ Has(reader, e) => Has(t, e)
    BY <1>1, TakenFields
<1> HIDE DEF t
<1>3. Base(scene, t)
    BY <1>2 DEF Good, Base
<1>4. t.inhibitor => t.state \in Holders
    BY <1>2 DEF Good
<1>5. /\ Away(scene, Leave(t)) /\ (t.seen => Leave(t).seen)
      /\ Away(scene, LeaveTag(t)) /\ (t.seen => LeaveTag(t).seen)
    BY <1>3, <1>4, Left
<1>6. ASSUME reader.state \notin Holders \cup {"tag_absent", "check_presence"}
      PROVE  Away(scene, t)
    BY <1>2, <1>3, <1>6 DEF Good, Away
<1>7. ASSUME reader.state \in Heartbeat \ {"wait_update"},
             Head(reader.queue) # "heartbeat_timeout",
             NEW leaf \in Heartbeat \ {"wait_update"}
      PROVE  Fit(scene, t, leaf)
    <2>1. ~Resting(scene, reader)
        BY <1>7 DEF Resting
    <2>2. Beats(t)
        BY <1>2, <1>7, <2>1 DEF Good, Beats
    <2>3. leaf \in DOMAIN Timeouts /\ leaf \in Leaves /\ leaf \in Holders
        BY <1>7, Events DEF Leaves, TagPresent, Heartbeat, Holders
    <2>4. ~t.poll /\ ~t.probe
        BY <1>2, <1>7 DEF Good, Heartbeat
    <2> QED
        BY <1>3, <2>2, <2>3, <2>4 DEF Fit
<1> QED
    BY <1>2, <1>5, <1>6, <1>7 DEF t

(* An event that something waits for is not dropped. *)
LEMMA Accepted ==
    /\ \A leaf \in DOMAIN Timeouts : leaf \in Accepting(Timeouts[leaf])
    /\ "init" \in Accepting("init_complete")
    /\ Heartbeat \subseteq Accepting("heartbeat_timeout")
<1>1. "init" \in Accepting("init_complete") /\ Heartbeat = Accepting("heartbeat_timeout")
    BY DEF Accepting
<1>2. ASSUME NEW leaf \in DOMAIN Timeouts
      PROVE  leaf \in Accepting(Timeouts[leaf])
    <2>1. CASE leaf = "nfc_reader_off"
        <3>1. Timeouts[leaf] = "reinit"
            BY <2>1 DEF Timeouts
        <3>2. Accepting("reinit") = Leaves \ {"init"}
            BY DEF Accepting
        <3> QED
            BY <2>1, <3>1, <3>2 DEF Leaves
    <2>2. CASE leaf # "nfc_reader_off"
        <3> DEFINE e == Timeouts[leaf]
        <3>1. e \notin {"init_complete", "reinit", "tag_arrived", "tag_departed", "restart",
                        "seatbox_closed", "seatbox_opened", "heartbeat_timeout",
                        "admission_poll", "check_presence_ready", "off_confirmed_inactive"}
            BY <2>2 DEF Timeouts
        <3>2. leaf \in {l \in DOMAIN Timeouts : Timeouts[l] = e}
            OBVIOUS
        <3> HIDE DEF e
        <3>3. Accepting(e) = {l \in DOMAIN Timeouts : Timeouts[l] = e}
            BY <3>1 DEF Accepting
        <3> QED
            BY <3>2, <3>3 DEF e
    <2> QED
        BY <2>1, <2>2
<1> QED
    BY <1>1, <1>2

(* An event that is dropped. *)
LEMMA IgnoreStep ==
    ASSUME Good(scene, reader), reader.queue # <<>>,
           reader.state \notin Accepting(Head(reader.queue))
    PROVE  Reaches(scene, reader, Taken)
<1> DEFINE t == Taken
<1>1. reader \in ReaderType
    BY DEF Good, Base
<1>2. /\ t \in ReaderType
      /\ t.state = reader.state /\ t.timer = reader.timer /\ t.poll = reader.poll
      /\ t.probe = reader.probe /\ t.heartbeat = reader.heartbeat
      /\ t.inhibitor = reader.inhibitor /\ t.seen = reader.seen
      /\ t.noise = reader.noise /\ t.unsure = reader.unsure /\ t.bay = reader.bay
      /\ t.data = reader.data
      /\ \A e : e # Head(reader.queue) /\ Has(reader, e) => Has(t, e)
    BY <1>1, TakenFields
<1> HIDE DEF t
<1>3. Base(scene, t)
    BY <1>2 DEF Good, Base
<1>4. reader.state \in DOMAIN Timeouts => Head(reader.queue) # Timeouts[reader.state]
    BY Accepted
<1>5. reader.state = "init" => Head(reader.queue) # "init_complete"
    BY Accepted
<1>6. reader.state \in Heartbeat => Head(reader.queue) # "heartbeat_timeout"
    BY Accepted
<1>7. reader.state \in Heartbeat => Beats(t) \/ Resting(scene, t)
    BY <1>2, <1>6 DEF Good, Beats, Resting
<1>8. Good(scene, t)
    BY <1>2, <1>3, <1>4, <1>5, <1>7 DEF Good
<1> QED
    BY <1>2, <1>8 DEF Reaches, t

(* What a step of the machine brings about: a leaf, within the faults of   *)
(* the scene; and a pack is forgotten only after a quiet search.           *)
Stepped(q) ==
    /\ Good(scene, q) /\ q.spent <= scene.faults
    /\ reader.seen => q.seen \/ (q.quiet /\ ~q.noise)

LEMMA BecomesStepped ==
    ASSUME NEW q, Becomes(q), Reaches(scene, reader, q)
    PROVE  Stepped(reader')
BY DEF Becomes, Reaches, Stepped

LEMMA ReachesTrans ==
    ASSUME NEW s, NEW r, NEW p, NEW q, r.seen => p.seen, Reaches(s, p, q)
    PROVE  Reaches(s, r, q)
BY DEF Reaches

(* EvInitComplete. *)
LEMMA InitCompleteStep ==
    ASSUME Good(scene, reader), NEW a, NEW b, InitComplete(a, b)
    PROVE  Stepped(reader')
<1> DEFINE p == Taken
           q == EnterReaderOn(p, a, b)
<1>1. Becomes(q) /\ reader.queue # <<>>
      /\ reader.state \notin Holders \cup {"tag_absent", "check_presence"}
    BY DEF InitComplete, Receives, Holders, Heartbeat
<1>2. Away(scene, p) /\ (reader.seen => p.seen)
    BY <1>1, Take
<1> HIDE DEF p
<1>3. Reaches(scene, p, q)
    BY <1>2, ReaderOn
<1>4. Reaches(scene, reader, q)
    BY <1>2, <1>3, ReachesTrans
<1> QED
    BY <1>1, <1>4, BecomesStepped

(* EvReinit. *)
LEMMA ReinitStep ==
    ASSUME Good(scene, reader), NEW a, NEW b, Reinit(a, b)
    PROVE  Stepped(reader')
<1>1. CASE Receives("reinit", {"nfc_reader_off"}) /\ Becomes(EnterReaderOn(Leave(Taken), a, b))
    <2> DEFINE p == Leave(Taken)
               q == EnterReaderOn(p, a, b)
    <2>1. Becomes(q) /\ reader.queue # <<>>
        BY <1>1 DEF Receives
    <2>2. Away(scene, p) /\ (reader.seen => p.seen)
        BY <2>1, Take
    <2> HIDE DEF p
    <2>3. Reaches(scene, p, q)
        BY <2>2, ReaderOn
    <2>4. Reaches(scene, reader, q)
        BY <2>2, <2>3, ReachesTrans
    <2> QED
        BY <2>1, <2>4, BecomesStepped
<1>2. CASE Receives("reinit", Discovering \cup TagPresent)
           /\ Becomes(EnterReaderOff(LeaveTag(Taken)))
    <2> DEFINE p == LeaveTag(Taken)
               q == EnterReaderOff(p)
    <2>1. Becomes(q) /\ reader.queue # <<>>
        BY <1>2 DEF Receives
    <2>2. Away(scene, p) /\ (reader.seen => p.seen)
        BY <2>1, Take
    <2> HIDE DEF p
    <2>3. Reaches(scene, p, q)
        BY <2>2, ReaderOff
    <2>4. Reaches(scene, reader, q)
        BY <2>2, <2>3, ReachesTrans
    <2> QED
        BY <2>1, <2>4, BecomesStepped
<1> QED
    BY <1>1, <1>2 DEF Reinit

(* EvTagDeparted. *)
LEMMA TagDepartedStep ==
    ASSUME Good(scene, reader), NEW a, TagDeparted(a)
    PROVE  Stepped(reader')
<1>1. CASE Receives("tag_departed", {"wait_arrival"}) /\ Becomes(EnterTagAbsent(Leave(Taken), a))
    <2> DEFINE p == Leave(Taken)
               q == EnterTagAbsent(p, a)
    <2>1. Becomes(q) /\ reader.queue # <<>>
        BY <1>1 DEF Receives
    <2>2. Away(scene, p) /\ (reader.seen => p.seen)
        BY <2>1, Take
    <2> HIDE DEF p
    <2>3. Reaches(scene, p, q)
        BY <2>2, TagAbsent
    <2>4. Reaches(scene, reader, q)
        BY <2>2, <2>3, ReachesTrans
    <2> QED
        BY <2>1, <2>4, BecomesStepped
<1>2. CASE Receives("tag_departed", TagPresent) /\ Becomes(EnterDiscover(LeaveTag(Taken), a))
    <2> DEFINE p == LeaveTag(Taken)
               q == EnterDiscover(p, a)
    <2>1. Becomes(q) /\ reader.queue # <<>>
        BY <1>2 DEF Receives
    <2>2. Away(scene, p) /\ (reader.seen => p.seen)
        BY <2>1, Take
    <2> HIDE DEF p
    <2>3. Reaches(scene, p, q)
        BY <2>2, Discover
    <2>4. Reaches(scene, reader, q)
        BY <2>2, <2>3, ReachesTrans
    <2> QED
        BY <2>1, <2>4, BecomesStepped
<1> QED
    BY <1>1, <1>2 DEF TagDeparted

(* EvSeatboxClosed. *)
LEMMA SeatboxClosedStep ==
    ASSUME Good(scene, reader), SeatboxClosed
    PROVE  Stepped(reader')
<1> DEFINE p == Leave(Taken)
           q == EnterWaitLastCmd(p)
<1>1. Becomes(q) /\ reader.queue # <<>>
    BY DEF SeatboxClosed, Receives
<1>2. Away(scene, p) /\ (reader.seen => p.seen)
    BY <1>1, Take
<1> HIDE DEF p
<1>3. Reaches(scene, p, q)
    BY <1>2, WaitLastCmd
<1>4. Reaches(scene, reader, q)
    BY <1>2, <1>3, ReachesTrans
<1> QED
    BY <1>1, <1>4, BecomesStepped

(* EvSeatboxOpened. *)
LEMMA SeatboxOpenedStep ==
    ASSUME Good(scene, reader), NEW a, SeatboxOpened(a)
    PROVE  Stepped(reader')
<1> DEFINE p == Leave(Taken)
           q == CondJustInserted(p, a)
<1>1. Becomes(q) /\ reader.queue # <<>>
    BY DEF SeatboxOpened, Receives
<1>2. Away(scene, p) /\ (reader.seen => p.seen)
    BY <1>1, Take
<1> HIDE DEF p
<1>3. Reaches(scene, p, q)
    BY <1>2, JustInserted
<1>4. Reaches(scene, reader, q)
    BY <1>2, <1>3, ReachesTrans
<1> QED
    BY <1>1, <1>4, BecomesStepped

(* The search finds nothing. *)
LEMMA DepartureTimeoutStep ==
    ASSUME Good(scene, reader), NEW a, DepartureTimeout(a)
    PROVE  Stepped(reader')
<1> DEFINE p == Leave(Taken)
           q == EnterTagAbsent(p, a)
<1>1. Becomes(q) /\ reader.queue # <<>>
    BY DEF DepartureTimeout, Receives
<1>2. Away(scene, p) /\ (reader.seen => p.seen)
    BY <1>1, Take
<1> HIDE DEF p
<1>3. Reaches(scene, p, q)
    BY <1>2, TagAbsent
<1>4. Reaches(scene, reader, q)
    BY <1>2, <1>3, ReachesTrans
<1> QED
    BY <1>1, <1>4, BecomesStepped

(* The presence check ends. *)
LEMMA CheckPresenceEndsStep ==
    ASSUME Good(scene, reader), NEW a \in scene.outcomes, NEW b, CheckPresenceEnds(a, b)
    PROVE  Stepped(reader')
<1> DEFINE p == Leave(Taken)
           q == EnterTagPresent(p, a, b)
<1>1. Becomes(q) /\ reader.queue # <<>>
    BY DEF CheckPresenceEnds, Receives
<1>2. Away(scene, p) /\ (reader.seen => p.seen)
    BY <1>1, Take
<1> HIDE DEF p
<1>3. Reaches(scene, p, q)
    BY <1>2, PresentEntered
<1>4. Reaches(scene, reader, q)
    BY <1>2, <1>3, ReachesTrans
<1> QED
    BY <1>1, <1>4, BecomesStepped

(* The last command has been carried out. *)
LEMMA LastCmdTimeoutStep ==
    ASSUME Good(scene, reader), NEW a, LastCmdTimeout(a)
    PROVE  Stepped(reader')
<1> DEFINE p == Leave(Taken)
           q == CondSeatboxLock(p, a)
<1>1. Becomes(q) /\ reader.queue # <<>>
    BY DEF LastCmdTimeout, Receives
<1>2. Away(scene, p) /\ (reader.seen => p.seen)
    BY <1>1, Take
<1> HIDE DEF p
<1>3. Reaches(scene, p, q)
    BY <1>2, SeatboxLock
<1>4. Reaches(scene, reader, q)
    BY <1>2, <1>3, ReachesTrans
<1> QED
    BY <1>1, <1>4, BecomesStepped

(* The seatbox was announced closed. *)
LEMMA ClosedTimeoutStep ==
    ASSUME Good(scene, reader), NEW a, ClosedTimeout(a)
    PROVE  Stepped(reader')
<1> DEFINE p == Taken
           q == writeCommand(Enter(p, "send_on_off"), OnOrOff(reader), a)
<1>1. Becomes(q) /\ reader.queue # <<>>
      /\ reader.state \in Heartbeat \ {"wait_update"}
      /\ Head(reader.queue) # "heartbeat_timeout" /\ "send_on_off" \in Heartbeat \ {"wait_update"}
    BY DEF ClosedTimeout, Receives, Heartbeat
<1>2. Fit(scene, p, "send_on_off") /\ (reader.seen => p.seen)
    BY <1>1, Take
<1> HIDE DEF p
<1>3. Reaches(scene, p, q)
    BY <1>2, EnteredCommand
<1>4. Reaches(scene, reader, q)
    BY <1>2, <1>3, ReachesTrans
<1> QED
    BY <1>1, <1>4, BecomesStepped

(* A pack in the wrong state was woken. *)
LEMMA InsertedClosedTimeoutStep ==
    ASSUME Good(scene, reader), NEW a, InsertedClosedTimeout(a)
    PROVE  Stepped(reader')
<1> DEFINE p == Taken
           q == writeCommand(Enter(p, "send_closed"), "closed", a)
<1>1. Becomes(q) /\ reader.queue # <<>>
      /\ reader.state \in Heartbeat \ {"wait_update"}
      /\ Head(reader.queue) # "heartbeat_timeout" /\ "send_closed" \in Heartbeat \ {"wait_update"}
    BY DEF InsertedClosedTimeout, Receives, Heartbeat, EnterSendClosed
<1>2. Fit(scene, p, "send_closed") /\ (reader.seen => p.seen)
    BY <1>1, Take
<1> HIDE DEF p
<1>3. Reaches(scene, p, q)
    BY <1>2, EnteredCommand
<1>4. Reaches(scene, reader, q)
    BY <1>2, <1>3, ReachesTrans
<1> QED
    BY <1>1, <1>4, BecomesStepped

(* The OFF was sent. *)
LEMMA OffTimeoutStep ==
    ASSUME Good(scene, reader), NEW a \in scene.outcomes, OffTimeout(a)
    PROVE  Stepped(reader')
<1> DEFINE p == Taken
           q == EnterReadOffStatus(p, a)
<1>1. Becomes(q) /\ reader.queue # <<>>
      /\ reader.state \notin Holders \cup {"tag_absent", "check_presence"}
    BY DEF OffTimeout, Receives, Holders, Heartbeat
<1>2. Away(scene, p) /\ (reader.seen => p.seen)
    BY <1>1, Take
<1> HIDE DEF p
<1>3. Reaches(scene, p, q)
    BY <1>2, ReadOff
<1>4. Reaches(scene, reader, q)
    BY <1>2, <1>3, ReachesTrans
<1> QED
    BY <1>1, <1>4, BecomesStepped

(* The OFF is confirmed. *)
LEMMA OffConfirmedInactiveStep ==
    ASSUME Good(scene, reader), NEW a, OffConfirmedInactive(a)
    PROVE  Stepped(reader')
<1> DEFINE p == Taken
           q == EnterSendOpened(p, a)
<1>1. Becomes(q) /\ reader.queue # <<>>
      /\ reader.state \notin Holders \cup {"tag_absent", "check_presence"}
    BY DEF OffConfirmedInactive, Receives, Holders, Heartbeat
<1>2. Away(scene, p) /\ (reader.seen => p.seen)
    BY <1>1, Take
<1> HIDE DEF p
<1>3. Reaches(scene, p, q)
    BY <1>2, OffEntered
<1>4. Reaches(scene, reader, q)
    BY <1>2, <1>3, ReachesTrans
<1> QED
    BY <1>1, <1>4, BecomesStepped

(* The OFF is sent again. *)
LEMMA OffRetryStep ==
    ASSUME Good(scene, reader), NEW a, OffRetry(a)
    PROVE  Stepped(reader')
<1> DEFINE p == Taken
           q == EnterSendOff(p, a)
<1>1. Becomes(q) /\ reader.queue # <<>>
      /\ reader.state \notin Holders \cup {"tag_absent", "check_presence"}
    BY DEF OffRetry, Receives, Holders, Heartbeat
<1>2. Away(scene, p) /\ (reader.seen => p.seen)
    BY <1>1, Take
<1> HIDE DEF p
<1>3. Reaches(scene, p, q)
    BY <1>2, OffEntered
<1>4. Reaches(scene, reader, q)
    BY <1>2, <1>3, ReachesTrans
<1> QED
    BY <1>1, <1>4, BecomesStepped

(* The seatbox was announced open. *)
LEMMA OpenedTimeoutStep ==
    ASSUME Good(scene, reader), NEW a, OpenedTimeout(a)
    PROVE  Stepped(reader')
<1> DEFINE p == Taken
           q == writeCommand(Enter(p, "send_inserted_open"), "inserted", a)
<1>1. Becomes(q) /\ reader.queue # <<>>
      /\ reader.state \notin Holders \cup {"tag_absent", "check_presence"}
    BY DEF OpenedTimeout, Receives, Holders, Heartbeat
<1>2. Away(scene, p) /\ (reader.seen => p.seen)
    BY <1>1, Take
<1> HIDE DEF p
<1>3. Reaches(scene, p, q)
    BY <1>2, AwayFit, EnteredCommand, OutsideHeartbeat
<1>4. Reaches(scene, reader, q)
    BY <1>2, <1>3, ReachesTrans
<1> QED
    BY <1>1, <1>4, BecomesStepped

(* EvTagArrived. *)
LEMMA TagArrivedStep ==
    ASSUME Good(scene, reader), NEW a \in scene.outcomes, NEW b, TagArrived(a, b)
    PROVE  Stepped(reader')
<1>1. CASE /\ Receives("tag_arrived", Discovering)
           /\ Becomes(EnterTagPresent([Leave(Taken) EXCEPT !.inserted = TRUE,
                                                          !.data.dated = TRUE], a, b))
    <2> DEFINE l == Leave(Taken)
               p == [l EXCEPT !.inserted = TRUE, !.data.dated = TRUE]
               q == EnterTagPresent(p, a, b)
    <2>1. Becomes(q) /\ reader.queue # <<>>
        BY <1>1 DEF Receives
    <2>2. Away(scene, l) /\ (reader.seen => l.seen)
        BY <2>1, Take
    <2> HIDE DEF l
    <2>3. Away(scene, p) /\ (l.seen => p.seen)
        BY <2>2, ArrivedAway
    <2> HIDE DEF p
    <2>4. Reaches(scene, p, q)
        BY <2>3, PresentEntered
    <2>5. Reaches(scene, reader, q)
        BY <2>2, <2>3, <2>4, ReachesTrans
    <2> QED
        BY <2>1, <2>5, BecomesStepped
<1>2. CASE Receives("tag_arrived", TagPresent) /\ Becomes(EnterDiscover(LeaveTag(Taken), a))
    <2> DEFINE p == LeaveTag(Taken)
               q == EnterDiscover(p, a)
    <2>1. Becomes(q) /\ reader.queue # <<>>
        BY <1>2 DEF Receives
    <2>2. Away(scene, p) /\ (reader.seen => p.seen)
        BY <2>1, Take
    <2> HIDE DEF p
    <2>3. Reaches(scene, p, q)
        BY <2>2, Discover
    <2>4. Reaches(scene, reader, q)
        BY <2>2, <2>3, ReachesTrans
    <2> QED
        BY <2>1, <2>4, BecomesStepped
<1> QED
    BY <1>1, <1>2 DEF TagArrived

(* EvRestart, in a leaf of tag_present, and in tag_absent. *)
LEMMA RestartStep ==
    ASSUME Good(scene, reader), NEW a \in scene.outcomes, NEW b, Restart(a, b)
    PROVE  Stepped(reader')
<1>1. CASE /\ Receives("restart", TagPresent \ {"check_presence"})
           /\ Becomes(EnterTagPresent(LeaveTag(Taken), a, b))
    <2> DEFINE p == LeaveTag(Taken)
               q == EnterTagPresent(p, a, b)
    <2>1. Becomes(q) /\ reader.queue # <<>>
        BY <1>1 DEF Receives
    <2>2. Away(scene, p) /\ (reader.seen => p.seen)
        BY <2>1, Take
    <2> HIDE DEF p
    <2>3. Reaches(scene, p, q)
        BY <2>2, PresentEntered
    <2>4. Reaches(scene, reader, q)
        BY <2>2, <2>3, ReachesTrans
    <2> QED
        BY <2>1, <2>4, BecomesStepped
<1>2. CASE /\ Receives("restart", {"tag_absent"})
           /\ LET s == startDiscovery(Taken, a)
              IN  Becomes(IF a \in NoSearch THEN Send(s, "reinit") ELSE s)
    <2> DEFINE t == Taken
               p == startDiscovery(t, a)
               q == IF a \in NoSearch THEN Send(p, "reinit") ELSE p
    <2>1. /\ Becomes(q) /\ reader.queue # <<>> /\ Head(reader.queue) = "restart"
          /\ reader.state = "tag_absent"
        BY <1>2 DEF Receives
    <2>2. reader \in ReaderType
        BY DEF Good, Base
    <2>3. /\ t \in ReaderType
          /\ t.state = reader.state /\ t.timer = reader.timer /\ t.poll = reader.poll
          /\ t.probe = reader.probe /\ t.heartbeat = reader.heartbeat
          /\ t.inhibitor = reader.inhibitor /\ t.seen = reader.seen
          /\ t.noise = reader.noise /\ t.unsure = reader.unsure /\ t.bay = reader.bay
          /\ t.data = reader.data
          /\ \A e : e # Head(reader.queue) /\ Has(reader, e) => Has(t, e)
        BY <2>1, <2>2, TakenFields
    <2> HIDE DEF t
    <2>4. Good(scene, t)
        <3>1. Base(scene, t)
            BY <2>3 DEF Good, Base
        <3>2. /\ "tag_absent" \in DOMAIN Timeouts
              /\ Timeouts["tag_absent"] = "check_reader_timeout"
              /\ "tag_absent" \notin Heartbeat
            BY DEF Timeouts, Heartbeat
        <3> QED
            BY <2>1, <2>3, <3>1, <3>2 DEF Good
    <2>5. Near(t, p)
        BY <2>3, StartDiscoveryKept, KeptNear
    <2> HIDE DEF p
    <2>6. Reaches(scene, t, p)
        <3>1. t.state # "wait_update"
            BY <2>1, <2>3
        <3> QED
            BY <2>4, <2>5, <3>1, NearGood
    <2>7. "reinit" \in ReaderEvents
        BY Events
    <2>8. Reaches(scene, p, Send(p, "reinit"))
        BY <2>6, <2>7, SentGood DEF Reaches
    <2>9. Reaches(scene, reader, q)
        BY <2>3, <2>6, <2>8 DEF Reaches
    <2> QED
        BY <2>1, <2>9, BecomesStepped
<1> QED
    BY <1>1, <1>2 DEF Restart

(* The heartbeat. *)
LEMMA HeartbeatTimeoutStep ==
    ASSUME Good(scene, reader), NEW a, HeartbeatTimeout(a)
    PROVE  Stepped(reader')
<1> DEFINE l == Leave(Taken)
           lost == reader.state = "wait_update" /\ ~CheckStateCorrect(reader)
           p == IF lost THEN Send(l, "tag_departed") ELSE l
           q == EnterHeartbeat(p, a)
<1>1. Becomes(q) /\ reader.queue # <<>>
    BY DEF HeartbeatTimeout, Receives
<1>2. Away(scene, l) /\ (reader.seen => l.seen)
    BY <1>1, Take
<1> HIDE DEF l, lost
<1>3. "tag_departed" \in ReaderEvents /\ l \in ReaderType
    BY <1>2, Events DEF Away, Base
<1>4. Near(l, Send(l, "tag_departed"))
    BY <1>3, SendKept, KeptNear
<1>5. Away(scene, p) /\ (l.seen => p.seen)
    BY <1>2, <1>4, NearAway
<1> HIDE DEF p
<1>6. Reaches(scene, p, q)
    BY <1>5, HeartbeatEntered
<1>7. Reaches(scene, reader, q)
    BY <1>2, <1>5, <1>6, ReachesTrans
<1> QED
    BY <1>1, <1>7, BecomesStepped

(* A prompt. *)
LEMMA AdmissionPollStep ==
    ASSUME Good(scene, reader), NEW a, AdmissionPoll(a)
    PROVE  Stepped(reader')
<1> DEFINE l == Leave(Taken)
           p == [l EXCEPT !.pending = FALSE]
           q == EnterHeartbeat(p, a)
<1>1. Becomes(q) /\ reader.queue # <<>>
    BY DEF AdmissionPoll, Receives
<1>2. Away(scene, l) /\ (reader.seen => l.seen)
    BY <1>1, Take
<1> HIDE DEF l
<1>3. Away(scene, p) /\ (l.seen => p.seen)
    BY <1>2, InsertedAway
<1> HIDE DEF p
<1>4. Reaches(scene, p, q)
    BY <1>3, HeartbeatEntered
<1>5. Reaches(scene, reader, q)
    BY <1>2, <1>3, <1>4, ReachesTrans
<1> QED
    BY <1>1, <1>5, BecomesStepped

(* The status read that ends a cycle of the heartbeat. *)
LEMMA OnOffTimeoutStep ==
    ASSUME Good(scene, reader), NEW a \in scene.outcomes, NEW b, OnOffTimeout(a, b)
    PROVE  Stepped(reader')
<1> DEFINE t == Taken
           p == readStatusAction(t, a)
           q == CondStateOK(p, b)
<1>1. /\ Becomes(q) /\ reader.queue # <<>>
      /\ reader.state \in Heartbeat \ {"wait_update"}
      /\ Head(reader.queue) # "heartbeat_timeout"
      /\ "send_inserted_closed" \in Heartbeat \ {"wait_update"}
    BY DEF OnOffTimeout, Receives, Heartbeat
<1>2. Fit(scene, t, "send_inserted_closed") /\ t \in ReaderType /\ (reader.seen => t.seen)
    BY <1>1, Take
<1> HIDE DEF t
<1>3. Near(t, p)
    BY <1>2, ReadActionNear
<1> HIDE DEF p
<1>4. Fit(scene, p, "send_inserted_closed") /\ (t.seen => p.seen)
    BY <1>2, <1>3, NearFit
<1>5. Reaches(scene, p, q)
    BY <1>4, StateOK
<1>6. Reaches(scene, reader, q)
    BY <1>2, <1>4, <1>5, ReachesTrans
<1> QED
    BY <1>1, <1>6, BecomesStepped

(* The status read that ends a cycle of the open loop. *)
LEMMA InsertedOpenTimeoutStep ==
    ASSUME Good(scene, reader), NEW a \in scene.outcomes, NEW b, InsertedOpenTimeout(a, b)
    PROVE  Stepped(reader')
<1> DEFINE t == Taken
           u == [t EXCEPT !.inserted = FALSE]
           p == readStatusAction(u, a)
           q == IF KeepActive THEN EnterHeartbeat(Leave(p), b) ELSE EnterSendOpened(p, b)
<1>1. /\ Becomes(q) /\ reader.queue # <<>>
      /\ reader.state \notin Holders \cup {"tag_absent", "check_presence"}
    BY DEF InsertedOpenTimeout, Receives, Holders, Heartbeat
<1>2. Away(scene, t) /\ (reader.seen => t.seen)
    BY <1>1, Take
<1> HIDE DEF t
<1>3. Away(scene, u) /\ (t.seen => u.seen)
    BY <1>2, InsertedAway
<1> HIDE DEF u
<1>4. Near(u, p)
    BY <1>3, ReadActionNear DEF Away, Base
<1> HIDE DEF p
<1>5. Away(scene, p) /\ (u.seen => p.seen)
    BY <1>3, <1>4, NearAway
<1>6. Away(scene, Leave(p)) /\ (p.seen => Leave(p).seen)
    BY <1>5, Left DEF Away
<1>7. Reaches(scene, Leave(p), EnterHeartbeat(Leave(p), b))
    BY <1>6, HeartbeatEntered
<1>8. Reaches(scene, p, EnterHeartbeat(Leave(p), b))
    BY <1>6, <1>7, ReachesTrans
<1>9. Reaches(scene, p, EnterSendOpened(p, b))
    BY <1>5, OffEntered
<1>10. Reaches(scene, p, q)
    BY <1>8, <1>9
<1>11. Reaches(scene, reader, q)
    BY <1>2, <1>3, <1>5, <1>10, ReachesTrans
<1> QED
    BY <1>1, <1>11, BecomesStepped

(* The watchdog of a search, which decides whether the pack is gone. *)
LEMMA CheckReaderTimeoutStep ==
    ASSUME Good(scene, reader), NEW a, NEW c, CheckReaderTimeout(a, c)
    PROVE  Stepped(reader')
<1> DEFINE l == Leave(Taken)
           n == IF l.bay.in THEN l.spent ELSE l.spent + 1
           h == HeardAt(l, n)
           heard == IF c = "quiet" THEN l ELSE [Cancelled(l, c) EXCEPT !.noise = TRUE]
           p == FinishDiscovery(heard, a)
           e == Enter(p, "nfc_reader_off")
           q == [e EXCEPT !.heartbeat = FALSE]
<1>1. Becomes(EnterReaderOff(p)) /\ reader.queue # <<>>
    <2>1. heard = IF c = "quiet" THEN Cancelled(l, c)
                  ELSE [Cancelled(l, c) EXCEPT !.noise = TRUE]
        BY DEF Cancelled
    <2> HIDE DEF l
    <2>2. Becomes(EnterReaderOff(FinishDiscovery(
              IF c = "quiet" THEN Cancelled(l, c)
              ELSE [Cancelled(l, c) EXCEPT !.noise = TRUE], a)))
        BY DEF CheckReaderTimeout, l
    <2> HIDE DEF heard
    <2>3. Becomes(EnterReaderOff(FinishDiscovery(heard, a)))
        BY <2>1, <2>2
    <2> QED
        BY <2>3 DEF CheckReaderTimeout, Receives
<1>2. Away(scene, l) /\ (reader.seen => l.seen)
    BY <1>1, Take
<1> HIDE DEF l
<1>3. l \in ReaderType /\ n \in Nat
    BY <1>2 DEF Away, Base, ReaderType
<1>4. c # "quiet" => heard = h
    <2>1. c # "quiet" => Cancelled(l, c) = h
        BY <1>3 DEF Cancelled, HeardAt, ReaderType
    <2>2. [h EXCEPT !.noise = TRUE] = h
        BY <1>3 DEF HeardAt, ReaderType
    <2> QED
        BY <2>1, <2>2
<1>5. /\ Base(scene, h) /\ h.poll = l.poll /\ h.probe = l.probe
      /\ h.inhibitor = l.inhibitor /\ h.seen = l.seen
    BY <1>2, <1>3, Heard DEF Away
<1>6. c = "quiet" => heard = l
    OBVIOUS
<1> HIDE DEF h, heard, n
<1>7. Away(scene, h) /\ (l.seen => h.seen)
    BY <1>2, <1>5 DEF Away
<1>8. Away(scene, heard) /\ (l.seen => heard.seen)
    BY <1>2, <1>4, <1>6, <1>7
<1>9. Away(scene, p) /\ (heard.seen => p.seen \/ (p.quiet /\ ~p.noise))
    BY <1>8, Finish
<1> HIDE DEF p
<1>10. Reaches(scene, p, EnterReaderOff(p))
    BY <1>9, ReaderOff
<1>11. EnterReaderOff(p) = q
    BY DEF EnterReaderOff
<1>12. q.quiet = p.quiet /\ q.noise = p.noise
    <2>1. p \in ReaderType
        BY <1>9 DEF Away, Base
    <2> QED
        BY <2>1 DEF Enter, ReaderType
<1> HIDE DEF q
<1>13. reader' = q /\ q.spent <= scene.faults
    BY <1>1, <1>11 DEF Becomes
<1>14. Good(scene, q) /\ (p.seen => q.seen)
    BY <1>10, <1>11 DEF Reaches
<1> QED
    BY <1>2, <1>8, <1>9, <1>12, <1>13, <1>14 DEF Stepped

(* The machine. *)
LEMMA MachineStep ==
    ASSUME Good(scene, reader), NEW outcomes \in SUBSET scene.outcomes, Machine(outcomes)
    PROVE  Stepped(reader')
<1>1. CASE Ignore
    BY <1>1, IgnoreStep, BecomesStepped DEF Ignore
<1>2. CASE SeatboxClosed
    BY <1>2, SeatboxClosedStep
<1>3. CASE ~Ignore /\ ~SeatboxClosed
    <2>1. PICK a \in outcomes :
              \/ TagDeparted(a) \/ SeatboxOpened(a) \/ HeartbeatTimeout(a)
              \/ AdmissionPoll(a) \/ DepartureTimeout(a) \/ LastCmdTimeout(a)
              \/ ClosedTimeout(a) \/ InsertedClosedTimeout(a) \/ OffTimeout(a)
              \/ OffConfirmedInactive(a) \/ OffRetry(a) \/ OpenedTimeout(a)
              \/ \E c \in {"quiet", "heard"} : CheckReaderTimeout(a, c)
              \/ \E b \in outcomes :
                    \/ InitComplete(a, b) \/ Reinit(a, b) \/ TagArrived(a, b)
                    \/ Restart(a, b) \/ CheckPresenceEnds(a, b) \/ OnOffTimeout(a, b)
                    \/ InsertedOpenTimeout(a, b)
        BY <1>3 DEF Machine
    <2>2. CASE \/ TagDeparted(a) \/ SeatboxOpened(a) \/ HeartbeatTimeout(a)
               \/ AdmissionPoll(a) \/ DepartureTimeout(a) \/ LastCmdTimeout(a)
        BY <2>2, TagDepartedStep, SeatboxOpenedStep, HeartbeatTimeoutStep,
           AdmissionPollStep, DepartureTimeoutStep, LastCmdTimeoutStep
    <2>3. CASE \/ ClosedTimeout(a) \/ InsertedClosedTimeout(a) \/ OffTimeout(a)
               \/ OffConfirmedInactive(a) \/ OffRetry(a) \/ OpenedTimeout(a)
        BY <2>3, ClosedTimeoutStep, InsertedClosedTimeoutStep, OffTimeoutStep,
           OffConfirmedInactiveStep, OffRetryStep, OpenedTimeoutStep
    <2>4. CASE \E c \in {"quiet", "heard"} : CheckReaderTimeout(a, c)
        BY <2>4, CheckReaderTimeoutStep
    <2>5. ASSUME NEW b \in outcomes,
                 \/ InitComplete(a, b) \/ Reinit(a, b) \/ TagArrived(a, b)
                 \/ Restart(a, b) \/ CheckPresenceEnds(a, b) \/ OnOffTimeout(a, b)
                 \/ InsertedOpenTimeout(a, b)
          PROVE  Stepped(reader')
        BY <2>5, InitCompleteStep, ReinitStep, TagArrivedStep, RestartStep,
           CheckPresenceEndsStep, OnOffTimeoutStep, InsertedOpenTimeoutStep
    <2> QED
        BY <2>1, <2>2, <2>3, <2>4, <2>5
<1> QED
    BY <1>1, <1>2, <1>3

-----------------------------------------------------------------------------
(* The other goroutines of the reader. *)

LEMMA SpendsStepped ==
    ASSUME NEW r, NEW n \in Nat, Reaches(scene, reader, r), Spends(r, n)
    PROVE  Stepped(reader')
<1> DEFINE q == [r EXCEPT !.spent = @ + n]
<1>1. Becomes(q) /\ r \in ReaderType
    BY DEF Spends, Reaches, Good, Base
<1>2. r.spent + n \in Nat
    BY <1>1 DEF ReaderType
<1>3. q \in ReaderType
    BY <1>1, <1>2 DEF ReaderType
<1>4. /\ q.state = r.state /\ q.timer = r.timer /\ q.queue = r.queue /\ q.data = r.data
      /\ q.heartbeat = r.heartbeat /\ q.bay = r.bay /\ q.noise = r.noise
      /\ q.unsure = r.unsure /\ q.poll = r.poll /\ q.probe = r.probe
      /\ q.inhibitor = r.inhibitor /\ q.seen = r.seen
    BY <1>1 DEF ReaderType
<1> HIDE DEF q
<1>5. /\ q.poll => q.state = "tag_absent"
      /\ q.probe => q.state = "check_presence"
      /\ q.inhibitor => q.state \in Holders
    BY <1>4 DEF Reaches, Good
<1>6. Good(scene, q)
    BY <1>3, <1>4, <1>5, GoodAlike DEF Reaches
<1>7. Reaches(scene, reader, q)
    BY <1>4, <1>6 DEF Reaches
<1> QED
    BY <1>1, <1>7, BecomesStepped

(* The timer of the leaf. *)
LEMMA TimerStep ==
    ASSUME Good(scene, reader), TimerFires
    PROVE  Stepped(reader')
<1> DEFINE t == [reader EXCEPT !.timer = FALSE]
           e == Timeouts[reader.state]
           q == Send(t, e)
<1>1. Becomes(q) /\ reader.timer /\ reader \in ReaderType
    BY DEF TimerFires, TimerDue, Good, Base
<1>2. reader.state \in DOMAIN Timeouts /\ e \in ReaderEvents
    BY <1>1, Events DEF Good
<1> HIDE DEF e
<1>3. t \in ReaderType
    BY <1>1 DEF ReaderType
<1>4. /\ t.state = reader.state /\ ~t.timer /\ t.queue = reader.queue /\ t.data = reader.data
      /\ t.heartbeat = reader.heartbeat /\ t.bay = reader.bay /\ t.noise = reader.noise
      /\ t.unsure = reader.unsure /\ t.poll = reader.poll /\ t.probe = reader.probe
      /\ t.inhibitor = reader.inhibitor /\ t.seen = reader.seen
    BY <1>1 DEF ReaderType
<1> HIDE DEF t
<1>5. Kept(t, q) /\ Has(q, e) /\ q.data = t.data
    BY <1>2, <1>3, SendKept
<1> HIDE DEF q
<1>6. Base(scene, t)
    BY <1>3, <1>4 DEF Good, Base
<1>7. Base(scene, q)
    BY <1>5, <1>6, KeptNear, NearBase
<1>8. \A g : Has(reader, g) => Has(q, g)
    <2>1. \A g : Has(reader, g) => Has(t, g)
        BY <1>4 DEF Has
    <2> QED
        BY <1>5, <2>1 DEF Kept
<1>9. reader.state \in Heartbeat => Beats(q) \/ Resting(scene, q)
    BY <1>4, <1>5, <1>8 DEF Good, Beats, Resting, Kept
<1>10. Has(q, Timeouts[reader.state])
    BY <1>5 DEF e
<1>11. Good(scene, q)
    BY <1>2, <1>4, <1>5, <1>7, <1>8, <1>9, <1>10 DEF Good, Kept
<1>12. Reaches(scene, reader, q)
    BY <1>4, <1>5, <1>11 DEF Reaches, Kept
<1> QED
    BY <1>1, <1>12, BecomesStepped

(* The heartbeat's timer and the early read. *)
LEMMA HeartbeatStep ==
    ASSUME Good(scene, reader), HeartbeatFires
    PROVE  Stepped(reader')
<1> DEFINE t == [reader EXCEPT !.heartbeat = FALSE]
           q == Send(t, "heartbeat_timeout")
<1>1. Spends(q, Soon) /\ reader \in ReaderType /\ Soon \in Nat
    BY DEF HeartbeatFires, Good, Base, Soon
<1>2. "heartbeat_timeout" \in ReaderEvents
    BY Events
<1>3. t \in ReaderType
    BY <1>1 DEF ReaderType
<1>4. /\ t.state = reader.state /\ t.timer = reader.timer /\ t.queue = reader.queue
      /\ t.data = reader.data /\ t.bay = reader.bay /\ t.noise = reader.noise
      /\ t.unsure = reader.unsure /\ t.poll = reader.poll /\ t.probe = reader.probe
      /\ t.inhibitor = reader.inhibitor /\ t.seen = reader.seen
    BY <1>1 DEF ReaderType
<1> HIDE DEF t
<1>5. Kept(t, q) /\ Has(q, "heartbeat_timeout")
    BY <1>2, <1>3, SendKept
<1> HIDE DEF q
<1>6. Base(scene, t)
    BY <1>3, <1>4 DEF Good, Base
<1>7. Base(scene, q)
    BY <1>5, <1>6, KeptNear, NearBase
<1>8. \A g : Has(reader, g) => Has(q, g)
    <2>1. \A g : Has(reader, g) => Has(t, g)
        BY <1>4 DEF Has
    <2> QED
        BY <1>5, <2>1 DEF Kept
<1>9. Beats(q)
    BY <1>5 DEF Beats
<1>10. Good(scene, q)
    BY <1>4, <1>5, <1>7, <1>8, <1>9 DEF Good, Kept
<1>11. Reaches(scene, reader, q)
    BY <1>4, <1>5, <1>10 DEF Reaches, Kept
<1> QED
    BY <1>1, <1>11, SpendsStepped

(* A flag that the leaves do not depend on. *)
LEMMA FlagGood ==
    ASSUME NEW r, NEW q, NEW v \in BOOLEAN, Good(scene, r),
           q \in {[r EXCEPT !.early = v], [r EXCEPT !.reserved = v], [r EXCEPT !.redis = v],
                  [r EXCEPT !.pending = v], [r EXCEPT !.quiet = v]}
    PROVE  Reaches(scene, r, q) /\ q \in ReaderType /\ q.spent = r.spent
<1>1. r \in ReaderType
    BY DEF Good, Base
<1>2. q \in ReaderType
    BY <1>1 DEF ReaderType
<1>3. /\ q.state = r.state /\ q.timer = r.timer /\ q.queue = r.queue /\ q.data = r.data
      /\ q.heartbeat = r.heartbeat /\ q.bay = r.bay /\ q.noise = r.noise
      /\ q.unsure = r.unsure /\ q.poll = r.poll /\ q.probe = r.probe
      /\ q.inhibitor = r.inhibitor /\ q.seen = r.seen /\ q.spent = r.spent
    <2>1. CASE q = [r EXCEPT !.early = v]
        BY <1>1, <2>1 DEF ReaderType
    <2>2. CASE q = [r EXCEPT !.reserved = v]
        BY <1>1, <2>2 DEF ReaderType
    <2>3. CASE q = [r EXCEPT !.redis = v]
        BY <1>1, <2>3 DEF ReaderType
    <2>4. CASE q = [r EXCEPT !.pending = v]
        BY <1>1, <2>4 DEF ReaderType
    <2>5. CASE q = [r EXCEPT !.quiet = v]
        BY <1>1, <2>5 DEF ReaderType
    <2> QED
        BY <2>1, <2>2, <2>3, <2>4, <2>5
<1>4. /\ q.poll => q.state = "tag_absent"
      /\ q.probe => q.state = "check_presence"
      /\ q.inhibitor => q.state \in Holders
    BY <1>3 DEF Good
<1>5. Good(scene, q)
    BY <1>2, <1>3, <1>4, GoodAlike
<1> QED
    BY <1>2, <1>3, <1>5 DEF Reaches

LEMMA EarlyReadStep ==
    ASSUME Good(scene, reader), EarlyReadFires
    PROVE  Stepped(reader')
<1> DEFINE t == [reader EXCEPT !.early = FALSE]
           q == Send(t, "heartbeat_timeout")
<1>1. Spends(q, Soon) /\ Soon \in Nat
    BY DEF EarlyReadFires, Soon
<1>2. Reaches(scene, reader, t)
    BY FlagGood
<1> HIDE DEF t
<1>3. "heartbeat_timeout" \in ReaderEvents
    BY Events
<1>4. Reaches(scene, t, q)
    BY <1>2, <1>3, SentGood DEF Reaches
<1>5. Reaches(scene, reader, q)
    BY <1>2, <1>4, ReachesTrans DEF Reaches
<1> HIDE DEF q
<1> QED
    BY <1>1, <1>5, SpendsStepped

(* The poll loop of tag_absent. *)
LEMMA PollStep ==
    ASSUME Good(scene, reader), NEW outcomes, PollForTagArrival(outcomes)
    PROVE  Stepped(reader')
<1> DEFINE h == [reader EXCEPT !.unsure = TRUE, !.noise = TRUE]
           g == HeardAt(reader, reader.spent)
           u == [h EXCEPT !.poll = FALSE]
           v == Send(u, "reinit")
           w == noteTagPresent(h)
           x == Send(w, "tag_arrived")
           y == [reader EXCEPT !.quiet = TRUE]
<1>1. PICK a \in outcomes \cap {"ok", "missing", "transient", "hal"} :
          LET cost == (IF a = "ok" THEN 0 ELSE 1)
                      + (IF Queued \subseteq {"admission_poll"} THEN 0 ELSE 1)
          IN  /\ reader.poll
              /\ CASE a = "hal" -> Spends(v, cost)
                   [] a = "transient" -> Spends(h, cost)
                   [] a = "ok" /\ reader.bay.in -> Spends(x, cost)
                   [] OTHER -> Spends(y, IF reader.bay.in THEN cost ELSE 0)
    BY DEF PollForTagArrival
<1>2. reader \in ReaderType /\ reader.state = "tag_absent" /\ Base(scene, reader)
    BY <1>1 DEF Good, Base
<1>3. \E n \in Nat : Spends(v, n) \/ Spends(h, n) \/ Spends(x, n) \/ Spends(y, n)
    <2> DEFINE cost == (IF a = "ok" THEN 0 ELSE 1)
                       + (IF Queued \subseteq {"admission_poll"} THEN 0 ELSE 1)
    <2>1. /\ CASE a = "hal" -> Spends(v, cost)
               [] a = "transient" -> Spends(h, cost)
               [] a = "ok" /\ reader.bay.in -> Spends(x, cost)
               [] OTHER -> Spends(y, IF reader.bay.in THEN cost ELSE 0)
        BY <1>1
    <2>2. cost \in Nat /\ 0 \in Nat
        OBVIOUS
    <2> HIDE DEF cost, v, h, x, y
    <2>3. \/ Spends(v, cost) \/ Spends(h, cost) \/ Spends(x, cost)
          \/ Spends(y, cost) \/ Spends(y, 0)
        BY <2>1
    <2> QED
        BY <2>2, <2>3
<1>4. Reaches(scene, reader, h) /\ h.state = "tag_absent" /\ h \in ReaderType
    <2>1. h = g
        BY <1>2 DEF HeardAt, ReaderType
    <2>2. reader.spent \in Nat
        BY <1>2 DEF ReaderType
    <2>3. /\ Base(scene, g) /\ g.unsure
          /\ g.state = reader.state /\ g.timer = reader.timer /\ g.poll = reader.poll
          /\ g.probe = reader.probe /\ g.heartbeat = reader.heartbeat
          /\ g.queue = reader.queue /\ g.inhibitor = reader.inhibitor
          /\ g.seen = reader.seen /\ g.bay = reader.bay /\ g.data = reader.data
        BY <1>2, <2>2, Heard
    <2> HIDE DEF g, h
    <2>4. \A e : Has(reader, e) => Has(g, e)
        BY <2>3 DEF Has
    <2>5. "tag_absent" \notin Heartbeat
        BY DEF Heartbeat
    <2>6. Good(scene, g)
        BY <1>2, <2>3, <2>4, <2>5 DEF Good
    <2> QED
        BY <1>2, <2>1, <2>3, <2>6 DEF Reaches, Good, Base
<1> HIDE DEF h
<1>5. Reaches(scene, reader, u)
    <2>1. u \in ReaderType
        BY <1>4 DEF ReaderType
    <2>2. /\ u.state = h.state /\ u.timer = h.timer /\ u.queue = h.queue /\ u.data = h.data
          /\ u.heartbeat = h.heartbeat /\ u.bay = h.bay /\ u.noise = h.noise
          /\ u.unsure = h.unsure /\ ~u.poll /\ u.probe = h.probe
          /\ u.inhibitor = h.inhibitor /\ u.seen = h.seen
        BY <1>4 DEF ReaderType
    <2> HIDE DEF u
    <2>3. /\ u.poll => u.state = "tag_absent"
          /\ u.probe => u.state = "check_presence"
          /\ u.inhibitor => u.state \in Holders
        BY <1>4, <2>2 DEF Reaches, Good
    <2>4. Good(scene, u)
        BY <1>4, <2>1, <2>2, <2>3, GoodAlike DEF Reaches
    <2> QED
        BY <1>4, <2>2, <2>4 DEF Reaches
<1> HIDE DEF u
<1>6. "reinit" \in ReaderEvents /\ "tag_arrived" \in ReaderEvents
    BY Events
<1>7. Reaches(scene, reader, v)
    <2>1. Reaches(scene, u, v)
        BY <1>5, <1>6, SentGood DEF Reaches
    <2> QED
        BY <1>5, <2>1, ReachesTrans DEF Reaches
<1>8. Reaches(scene, reader, w)
    <2>1. Near(h, w)
        BY <1>4, NoteTagPresentKept, KeptNear
    <2> HIDE DEF w
    <2>2. h.state # "wait_update"
        BY <1>4
    <2>3. Reaches(scene, h, w)
        BY <1>4, <2>1, <2>2, NearGood DEF Reaches
    <2> QED
        BY <1>4, <2>3, ReachesTrans DEF Reaches
<1> HIDE DEF w
<1>9. Reaches(scene, reader, x)
    <2>1. Reaches(scene, w, x)
        BY <1>6, <1>8, SentGood DEF Reaches
    <2> QED
        BY <1>8, <2>1, ReachesTrans DEF Reaches
<1>10. Reaches(scene, reader, y)
    BY FlagGood
<1> HIDE DEF v, x, y
<1> QED
    BY <1>3, <1>4, <1>7, <1>9, <1>10, SpendsStepped

(* The presence check. *)
LEMMA PresenceStep ==
    ASSUME Good(scene, reader), NEW outcomes \in SUBSET scene.outcomes, PollPresence(outcomes)
    PROVE  Stepped(reader')
<1>1. PICK a \in outcomes :
          /\ reader.probe
          /\ LET s == readStatus(reader, a)
             IN  Becomes(IF ReadFails(reader, a) THEN s
                         ELSE Send([s EXCEPT !.probe = FALSE], "check_presence_ready"))
    BY DEF PollPresence
<1> DEFINE s == readStatus(reader, a)
           t == [s EXCEPT !.probe = FALSE]
           q == Send(t, "check_presence_ready")
<1>2. Becomes(s) \/ Becomes(q)
    <2> DEFINE z == IF ReadFails(reader, a) THEN s ELSE q
    <2>1. Becomes(z)
        BY <1>1
    <2>2. z = s \/ z = q
        OBVIOUS
    <2> HIDE DEF z, s, q
    <2> QED
        BY <2>1, <2>2
<1>3. reader \in ReaderType /\ reader.state # "wait_update"
    BY <1>1 DEF Good, Base
<1>4. Near(reader, s)
    BY <1>3, ReadStatusKept, KeptNear
<1> HIDE DEF s
<1>5. Reaches(scene, reader, s) /\ s \in ReaderType
    BY <1>3, <1>4, NearGood DEF Near
<1>6. t \in ReaderType
    BY <1>5 DEF ReaderType
<1>7. /\ t.state = s.state /\ t.timer = s.timer /\ t.queue = s.queue /\ t.data = s.data
      /\ t.heartbeat = s.heartbeat /\ t.bay = s.bay /\ t.noise = s.noise
      /\ t.unsure = s.unsure /\ t.poll = s.poll /\ ~t.probe
      /\ t.inhibitor = s.inhibitor /\ t.seen = s.seen
    BY <1>5 DEF ReaderType
<1> HIDE DEF t
<1>8. /\ t.poll => t.state = "tag_absent"
      /\ t.probe => t.state = "check_presence"
      /\ t.inhibitor => t.state \in Holders
    BY <1>5, <1>7 DEF Reaches, Good
<1>9. Good(scene, t)
    BY <1>5, <1>6, <1>7, <1>8, GoodAlike DEF Reaches
<1>10. "check_presence_ready" \in ReaderEvents
    BY Events
<1>11. Reaches(scene, t, q)
    BY <1>9, <1>10, SentGood
<1>12. Reaches(scene, reader, q)
    BY <1>5, <1>7, <1>11 DEF Reaches
<1> HIDE DEF q
<1> QED
    BY <1>2, <1>5, <1>12, BecomesStepped

(* Whatever the reader's own goroutines do. *)
LEMMA ThreadsStep ==
    ASSUME Good(scene, reader), reader.spent <= scene.faults, NEW outcomes \in SUBSET scene.outcomes,
           Threads(outcomes)
    PROVE  Stepped(reader')
<1>1. CASE GateObserves
    <2> DEFINE q == [reader EXCEPT !.reserved = FALSE]
    <2>1. reader' = q
        BY <1>1 DEF GateObserves
    <2>2. Reaches(scene, reader, q) /\ q.spent = reader.spent
        BY FlagGood
    <2> HIDE DEF q
    <2> QED
        BY <2>1, <2>2 DEF Reaches, Stepped
<1> QED
    BY <1>1, MachineStep, PollStep, PresenceStep, TimerStep, HeartbeatStep, EarlyReadStep
    DEF Threads

-----------------------------------------------------------------------------
(* The event loop, the service and the world. *)

LEMMA SentStepped ==
    ASSUME Good(scene, reader), reader.spent <= scene.faults, NEW e \in ReaderEvents
    PROVE  Stepped(Send(reader, e))
<1> DEFINE q == Send(reader, e)
<1>1. Reaches(scene, reader, q)
    BY SentGood
<1>2. q.spent = reader.spent
    BY DEF Send, Good, Base, ReaderType
<1> HIDE DEF q
<1>3. Stepped(q)
    BY <1>1, <1>2 DEF Reaches, Stepped
<1> QED
    BY <1>3 DEF q

LEMMA SameStepped ==
    ASSUME Good(scene, reader), reader.spent <= scene.faults
    PROVE  Stepped(reader)
BY DEF Stepped

(* A sampling prompt. *)
LEMMA PromptedStepped ==
    ASSUME Good(scene, reader), reader.spent <= scene.faults
    PROVE  Stepped(prompted(reader))
<1> DEFINE t == [reader EXCEPT !.pending = TRUE]
           q == Send(t, "admission_poll")
<1>1. prompted(reader) \in {t, q}
    BY DEF prompted
<1>2. Reaches(scene, reader, t) /\ t.spent = reader.spent /\ t \in ReaderType
    BY FlagGood
<1> HIDE DEF t
<1>3. "admission_poll" \in ReaderEvents
    BY Events
<1>4. Reaches(scene, t, q)
    BY <1>2, <1>3, SentGood DEF Reaches
<1>5. q.spent = t.spent
    BY <1>2 DEF Send, ReaderType
<1> HIDE DEF q
<1>6. Stepped(t) /\ Stepped(q)
    BY <1>2, <1>4, <1>5 DEF Reaches, Stepped
<1> QED
    BY <1>1, <1>6

(* The pack changes, or what is known of it. *)
LEMMA BayGood ==
    ASSUME NEW q \in ReaderType, Good(scene, reader),
           q.state = reader.state, q.timer = reader.timer, q.queue = reader.queue,
           q.heartbeat = reader.heartbeat, q.noise = reader.noise,
           q.unsure = reader.unsure, q.poll = reader.poll, q.probe = reader.probe,
           q.inhibitor = reader.inhibitor,
           q.bay.state = "active" => ~q.bay.empty,
           "bay" \notin scene.events /\ ~Misled => (q.data.empty => q.bay.empty),
           Resting(scene, reader) => Resting(scene, q)
    PROVE  Good(scene, q)
<1>1. Base(scene, q)
    BY DEF Good, Base
<1>2. \A e : Has(reader, e) => Has(q, e)
    BY DEF Has
<1>3. reader.state \in Heartbeat => Beats(q) \/ Resting(scene, q)
    BY <1>2 DEF Good, Beats
<1> QED
    BY <1>1, <1>2, <1>3 DEF Good

LEMMA BayChangesStep ==
    ASSUME Good(scene, reader), reader.spent <= scene.faults, BayChanges
    PROVE  Stepped(reader')
<1>1. PICK empty \in BOOLEAN, same \in BOOLEAN :
          reader' = [reader EXCEPT
                     !.tags = IF @ = "selected" THEN "lost" ELSE @,
                     !.bay =
                       IF @.in THEN [@ EXCEPT !.in = FALSE, !.state = "inactive"]
                       ELSE [in |-> TRUE, state |-> "inactive",
                             empty |-> IF same THEN @.empty ELSE empty,
                             known |-> @.known /\ same]]
    BY DEF BayChanges
<1> DEFINE tags == IF reader.tags = "selected" THEN "lost" ELSE reader.tags
           bay == IF reader.bay.in THEN [reader.bay EXCEPT !.in = FALSE, !.state = "inactive"]
                  ELSE [in |-> TRUE, state |-> "inactive",
                        empty |-> IF same THEN reader.bay.empty ELSE empty,
                        known |-> reader.bay.known /\ same]
           q == [reader EXCEPT !.tags = tags, !.bay = bay]
<1>2. reader \in ReaderType /\ "bay" \in scene.events
    BY DEF BayChanges, Changes, Good, Base
<1>3. reader' = q
    BY <1>1, <1>2 DEF ReaderType
<1>4. bay \in BayType /\ bay.state = "inactive"
    BY <1>2 DEF ReaderType, BayType
<1>5. tags \in {"none", "selected", "lost"}
    BY <1>2 DEF ReaderType
<1> HIDE DEF bay, tags
<1>6. q \in ReaderType
    BY <1>2, <1>4, <1>5 DEF ReaderType
<1>7. /\ q.state = reader.state /\ q.timer = reader.timer /\ q.queue = reader.queue
      /\ q.heartbeat = reader.heartbeat /\ q.noise = reader.noise
      /\ q.unsure = reader.unsure /\ q.poll = reader.poll /\ q.probe = reader.probe
      /\ q.inhibitor = reader.inhibitor /\ q.data = reader.data /\ q.bay = bay
      /\ q.seen = reader.seen /\ q.spent = reader.spent
    BY <1>2 DEF ReaderType
<1> HIDE DEF q
<1>8. Resting(scene, reader) => Resting(scene, q)
    BY <1>2, <1>7 DEF Resting
<1>9. Good(scene, q)
    BY <1>2, <1>4, <1>6, <1>7, <1>8, BayGood
<1> QED
    BY <1>3, <1>7, <1>9 DEF Stepped

LEMMA PackDropsStep ==
    ASSUME Good(scene, reader), reader.spent <= scene.faults, PackDrops
    PROVE  Stepped(reader')
<1>1. PICK empty \in BOOLEAN :
          reader' = [reader EXCEPT !.bay.state = "inactive", !.bay.empty = empty]
    BY DEF PackDrops
<1> DEFINE bay == [reader.bay EXCEPT !.state = "inactive", !.empty = empty]
           q == [reader EXCEPT !.bay = bay]
<1>2. reader \in ReaderType /\ reader.bay.state = "active"
    BY DEF PackDrops, Good, Base
<1>3. reader' = q
    BY <1>1, <1>2 DEF ReaderType, BayType
<1>4. bay \in BayType /\ bay.state = "inactive"
    BY <1>2 DEF ReaderType, BayType
<1>5. ~reader.bay.empty
    BY <1>2 DEF Good, Base
<1> HIDE DEF bay
<1>6. q \in ReaderType
    BY <1>2, <1>4 DEF ReaderType
<1>7. /\ q.state = reader.state /\ q.timer = reader.timer /\ q.queue = reader.queue
      /\ q.heartbeat = reader.heartbeat /\ q.noise = reader.noise
      /\ q.unsure = reader.unsure /\ q.poll = reader.poll /\ q.probe = reader.probe
      /\ q.inhibitor = reader.inhibitor /\ q.data = reader.data /\ q.bay = bay
      /\ q.seen = reader.seen /\ q.spent = reader.spent
    BY <1>2 DEF ReaderType
<1> HIDE DEF q
<1>8. Resting(scene, reader) => Resting(scene, q)
    BY <1>5, <1>7 DEF Resting
<1>9. "bay" \notin scene.events /\ ~Misled => ~q.data.empty
    BY <1>5, <1>7 DEF Good, Base
<1>10. Good(scene, q)
    BY <1>4, <1>6, <1>7, <1>8, <1>9, BayGood
<1> QED
    BY <1>3, <1>7, <1>10 DEF Stepped

LEMMA CriticalFaultStep ==
    ASSUME Good(scene, reader), reader.spent <= scene.faults, CriticalFault
    PROVE  Stepped(reader')
<1> DEFINE t == [reader EXCEPT !.data = NoData]
           same == FALSE
           q == sendStatusUpdate(t, same)
<1>1. reader' = q /\ "critical" \in scene.events
    BY DEF CriticalFault, Changes
<1>2. reader \in ReaderType /\ NoData \in DataType /\ ~NoData.empty
    BY DEF Good, Base, NoData, DataType
<1>3. t \in ReaderType
    BY <1>2 DEF ReaderType
<1>4. /\ t.state = reader.state /\ t.timer = reader.timer /\ t.queue = reader.queue
      /\ t.heartbeat = reader.heartbeat /\ t.noise = reader.noise
      /\ t.unsure = reader.unsure /\ t.poll = reader.poll /\ t.probe = reader.probe
      /\ t.inhibitor = reader.inhibitor /\ t.data = NoData /\ t.bay = reader.bay
      /\ t.seen = reader.seen /\ t.spent = reader.spent
    BY <1>2 DEF ReaderType
<1> HIDE DEF t, same
<1>5. Soft(t, q) /\ q.data = t.data /\ q.inhibitor = t.inhibitor /\ q.noise = t.noise
    BY <1>3, StatusUpdateKept
<1>6. q.spent = t.spent /\ q.unsure = t.unsure /\ q.bay = t.bay
    BY <1>3, StatusUpdateFields
<1> HIDE DEF q
<1>7. /\ q \in ReaderType
      /\ q.state = reader.state /\ q.timer = reader.timer /\ q.queue = reader.queue
      /\ q.heartbeat = reader.heartbeat /\ q.noise = reader.noise
      /\ q.unsure = reader.unsure /\ q.poll = reader.poll /\ q.probe = reader.probe
      /\ q.inhibitor = reader.inhibitor /\ q.data = NoData /\ q.bay = reader.bay
      /\ reader.seen => q.seen
    BY <1>4, <1>5, <1>6 DEF Soft
<1>8. Resting(scene, reader) => Resting(scene, q)
    BY <1>1, <1>7 DEF Resting
<1>9. /\ q.bay.state = "active" => ~q.bay.empty
      /\ ~q.data.empty
    BY <1>2, <1>7 DEF Good, Base
<1>10. Good(scene, q)
    BY <1>7, <1>8, <1>9, BayGood
<1> QED
    BY <1>1, <1>4, <1>6, <1>7, <1>10 DEF Stepped

(* What the event loop, the service and the world do to the reader. *)
LEMMA OthersStep ==
    ASSUME Good(scene, reader), reader.spent <= scene.faults,
           KeepActiveChange \/ HandleRestart \/ RedisReturns \/ World
    PROVE  Stepped(reader')
<1>1. CASE KeepActiveChange \/ KeepActiveSetting
           \/ \E answer \in Answers \ {policy.gate} : GateAnswers(answer)
    <2>1. reader' = reader
        BY <1>1 DEF KeepActiveChange, KeepActiveSetting, GateAnswers
    <2> QED
        BY <2>1, SameStepped
<1>2. CASE HandleRestart
    <2>1. reader' \in {reader, Send(reader, "restart")}
        BY <1>2 DEF HandleRestart
    <2>2. "restart" \in ReaderEvents
        BY Events
    <2> QED
        BY <2>1, <2>2, SameStepped, SentStepped
<1>3. CASE RedisReturns \/ RedisFails
    <2>1. PICK v \in BOOLEAN : reader' = [reader EXCEPT !.redis = v]
        BY <1>3 DEF RedisReturns, RedisFails
    <2> DEFINE q == [reader EXCEPT !.redis = v]
    <2>2. Reaches(scene, reader, q) /\ q.spent = reader.spent
        BY FlagGood
    <2> HIDE DEF q
    <2>3. reader' = q
        BY <2>1 DEF q
    <2> QED
        BY <2>2, <2>3 DEF Reaches, Stepped
<1>4. CASE SeatboxLockChange
    <2>1. reader' \in {Send(reader, "seatbox_closed"), Send(reader, "seatbox_opened")}
        BY <1>4 DEF SeatboxLockChange
    <2>2. "seatbox_closed" \in ReaderEvents /\ "seatbox_opened" \in ReaderEvents
        BY Events
    <2> QED
        BY <2>1, <2>2, SentStepped
<1> QED
    BY <1>1, <1>2, <1>3, <1>4, BayChangesStep, PackDropsStep, CriticalFaultStep DEF World

-----------------------------------------------------------------------------
(* The invariant. *)

PolicyType ==
    [active: BOOLEAN, closed: BOOLEAN, keep: BOOLEAN, enabled: BOOLEAN, notified: BOOLEAN,
     restart: BOOLEAN, gate: Answers]

DemandType ==
    [deadline: {"none", "live", "expired"}, request: BOOLEAN, ready: BOOLEAN,
     round: BOOLEAN, prompted: BOOLEAN]

IInv ==
    /\ scene \in Scenes /\ changes \in 0..scene.changes
    /\ policy \in PolicyType /\ demand \in DemandType
    /\ Good(scene, reader) /\ reader.spent <= scene.faults

LEMMA InitInv == DriveInit => IInv
<1> SUFFICES ASSUME DriveInit PROVE IInv
    OBVIOUS
<1>1. scene \in Scenes /\ changes \in 0..scene.changes /\ scene.faults \in Nat
    BY ScenesAssumption DEF DriveInit, Init
<1>2. policy \in PolicyType
    <2>1. PICK role \in scene.roles, closed \in BOOLEAN :
              policy = [active |-> role, closed |-> closed, keep |-> FALSE,
                        enabled |-> role /\ closed, notified |-> FALSE, restart |-> FALSE,
                        gate |-> "open"]
        BY DEF DriveInit, Init
    <2>2. role \in BOOLEAN
        BY <1>1, ScenesAssumption
    <2> QED
        BY <2>1, <2>2 DEF PolicyType, Answers
<1>3. demand \in DemandType
    BY DEF DriveInit, NoDemand, DemandType
<1>4. PICK bay \in Bays : reader = NewReader(bay)
    BY DEF DriveInit, Init
<1>5. bay \in BayType /\ (bay.state = "active" => ~bay.empty)
    BY DEF Bays, BayType
<1>6. /\ "init" \in Leaves /\ <<"init_complete">> \in Seq(ReaderEvents)
      /\ 0 \in 0..(MaxFailures - 1) /\ NoData \in DataType /\ ~NoData.empty
    BY Events, BoundsAssumption DEF Leaves, NoData, DataType
<1>7. reader \in ReaderType
    BY <1>4, <1>5, <1>6 DEF NewReader, ReaderType
<1>8. /\ reader.state = "init" /\ ~reader.timer /\ reader.queue = <<"init_complete">>
      /\ ~reader.poll /\ ~reader.probe /\ ~reader.inhibitor /\ ~reader.noise
      /\ reader.data = NoData /\ reader.bay = bay /\ reader.spent = 0
    BY <1>4 DEF NewReader
<1>9. Base(scene, reader)
    BY <1>5, <1>6, <1>7, <1>8 DEF Base
<1>10. Has(reader, "init_complete")
    BY <1>8 DEF Has
<1>11. "init" \notin DOMAIN Timeouts /\ "init" \notin Heartbeat
    BY Events DEF Heartbeat
<1>12. Good(scene, reader)
    BY <1>8, <1>9, <1>10, <1>11 DEF Good
<1> QED
    BY <1>1, <1>2, <1>3, <1>8, <1>12 DEF IInv

(* The variables besides the reader. *)
LEMMA PolicyStep ==
    ASSUME IInv, Next
    PROVE  policy' \in PolicyType /\ scene' = scene /\ changes' \in 0..scene.changes
<1>1. policy \in PolicyType /\ changes \in 0..scene.changes /\ scene.changes \in Nat
    BY ScenesAssumption DEF IInv
<1>2. CASE Internal(Threads(scene.outcomes))
    BY <1>1, <1>2 DEF Internal
<1>3. CASE KeepActiveChange
    <2> DEFINE enabled == Enabled(policy)
               restart == policy.restart
                          \/ (enabled # policy.enabled /\ reader.state \in TagPresent)
    <2>1. enabled \in BOOLEAN /\ restart \in BOOLEAN
        BY <1>1 DEF Enabled, PolicyType
    <2>2. policy' = [policy EXCEPT !.notified = FALSE, !.enabled = enabled,
                                   !.restart = restart]
        BY <1>1, <1>3 DEF KeepActiveChange, PolicyType
    <2> HIDE DEF enabled, restart
    <2>3. policy' \in PolicyType
        BY <1>1, <2>1, <2>2 DEF PolicyType
    <2> QED
        BY <1>1, <1>3, <2>3 DEF KeepActiveChange, Quietly
<1>4. CASE HandleRestart
    <2>1. policy' \in PolicyType
        BY <1>1, <1>4 DEF HandleRestart, PolicyType
    <2> QED
        BY <1>1, <1>4, <2>1 DEF HandleRestart, Quietly
<1>5. CASE RedisReturns
    BY <1>1, <1>5 DEF RedisReturns, Quietly
<1>6. CASE World
    <2>1. scene' = scene /\ changes' \in 0..scene.changes
        <3>1. ASSUME NEW kind, Changes(kind)
              PROVE  scene' = scene /\ changes' \in 0..scene.changes
            BY <1>1, <3>1 DEF Changes
        <3>2. CASE SeatboxLockChange \/ KeepActiveSetting
            BY <3>1, <3>2 DEF SeatboxLockChange, KeepActiveSetting
        <3>3. CASE BayChanges \/ PackDrops
            BY <3>1, <3>3 DEF BayChanges, PackDrops
        <3>4. CASE RedisFails \/ CriticalFault
            BY <3>1, <3>4 DEF RedisFails, CriticalFault
        <3>5. CASE \E answer \in Answers \ {policy.gate} :
                      GateAnswers(answer)
            BY <3>1, <3>5 DEF GateAnswers
        <3> QED
            BY <1>6, <3>2, <3>3, <3>4, <3>5 DEF World
    <2>2. policy' \in PolicyType
        <3>1. CASE SeatboxLockChange
            <4> DEFINE p == [policy EXCEPT !.closed = ~@]
                       enabled == Enabled(p)
            <4>1. policy' = [p EXCEPT !.enabled = enabled]
                BY <3>1 DEF SeatboxLockChange
            <4>2. p \in PolicyType
                BY <1>1 DEF PolicyType
            <4> HIDE DEF p
            <4>3. enabled \in BOOLEAN
                BY <4>2 DEF Enabled, PolicyType
            <4> HIDE DEF enabled
            <4> QED
                BY <4>1, <4>2, <4>3 DEF PolicyType
        <3>2. CASE KeepActiveSetting
            BY <1>1, <3>2 DEF KeepActiveSetting, PolicyType
        <3>3. CASE \E answer \in Answers \ {policy.gate} :
                      GateAnswers(answer)
            BY <1>1, <3>3 DEF GateAnswers, PolicyType
        <3>4. CASE BayChanges \/ PackDrops \/ RedisFails \/ CriticalFault
            BY <1>1, <3>4 DEF BayChanges, PackDrops, RedisFails, CriticalFault
        <3> QED
            BY <1>6, <3>1, <3>2, <3>3, <3>4 DEF World
    <2> QED
        BY <2>1, <2>2
<1> QED
    BY <1>2, <1>3, <1>4, <1>5, <1>6 DEF Next

LEMMA NextStep ==
    ASSUME IInv, Next
    PROVE  Stepped(reader')
<1>1. Good(scene, reader) /\ reader.spent <= scene.faults
    BY DEF IInv
<1> QED
    BY <1>1, ThreadsStep, OthersStep DEF Next, Internal

(* A step of the rider, the poller or the round. *)
LEMMA PollerStep ==
    ASSUME IInv, NEW d \in DemandType, NEW demanded, NEW expired,
           pollAdmission(d, demanded, expired)
    PROVE  /\ Stepped(reader') /\ demand' \in DemandType
           /\ policy' = policy /\ scene' = scene /\ changes' = changes
<1> DEFINE new == "rounds" \in scene.events /\ (~d.round \/ expired)
           prompts == new \/ (demanded /\ ~d.round)
           round == d.round \/ new
           asked == d.prompted \/ prompts
<1>1. demand' \in DemandType
    <2>1. demand' = [d EXCEPT !.round = round, !.prompted = asked]
        BY DEF pollAdmission, DemandType
    <2>2. round \in BOOLEAN /\ asked \in BOOLEAN
        BY DEF DemandType
    <2> HIDE DEF round, asked
    <2> QED
        BY <2>1, <2>2 DEF DemandType
<1>2. reader' \in {reader, prompted(reader)}
    BY DEF pollAdmission
<1>3. Stepped(reader')
    BY <1>2, SameStepped, PromptedStepped DEF IInv
<1> QED
    BY <1>1, <1>3 DEF pollAdmission, Quietly

LEMMA ForegroundStep ==
    ASSUME IInv, NEW d \in DemandType, Foreground(d)
    PROVE  /\ Stepped(reader') /\ demand' \in DemandType
           /\ policy' = policy /\ scene' = scene /\ changes' = changes
<1>1. CASE driveStartDemandActive
    <2> DEFINE demanded == TRUE
    <2>1. PICK expired \in BOOLEAN : pollAdmission(d, demanded, expired)
        BY <1>1 DEF Foreground
    <2> HIDE DEF demanded
    <2> QED
        BY <2>1, PollerStep
<1>2. CASE ~driveStartDemandActive
    BY <1>2, SameStepped DEF Foreground, vars, IInv
<1> QED
    BY <1>1, <1>2

LEMMA DriveStep ==
    ASSUME IInv, DriveNext
    PROVE  /\ Stepped(reader') /\ demand' \in DemandType
           /\ policy' \in PolicyType /\ scene' = scene /\ changes' \in 0..scene.changes
<1>1. /\ policy \in PolicyType /\ changes \in 0..scene.changes /\ scene.changes \in Nat
      /\ demand \in DemandType
    BY ScenesAssumption DEF IInv
<1>2. CASE ReaderStep
    <2>1. demand' \in DemandType
        BY <1>1, <1>2 DEF ReaderStep, notifyAdmissionReady, DemandType
    <2> QED
        BY <1>2, <2>1, NextStep, PolicyStep DEF ReaderStep
<1>3. CASE PollerTicks
    <2> DEFINE demanded == FALSE
    <2>1. PICK expired \in BOOLEAN : pollAdmission(demand, demanded, expired)
        BY <1>3 DEF PollerTicks
    <2> HIDE DEF demanded
    <2> QED
        BY <1>1, <2>1, PollerStep
<1>4. CASE TakeRequest
    <2> DEFINE d == [demand EXCEPT !.request = FALSE]
    <2>1. Foreground(d)
        BY <1>4 DEF TakeRequest
    <2>2. d \in DemandType
        BY <1>1 DEF DemandType
    <2> HIDE DEF d
    <2> QED
        BY <1>1, <2>1, <2>2, ForegroundStep
<1>5. CASE TakeReady
    <2> DEFINE d == [demand EXCEPT !.ready = FALSE]
    <2>1. Foreground(d)
        BY <1>5 DEF TakeReady
    <2>2. d \in DemandType
        BY <1>1 DEF DemandType
    <2> HIDE DEF d
    <2> QED
        BY <1>1, <2>1, <2>2, ForegroundStep
<1>6. CASE DeadlinePasses
    <2>1. demand' \in DemandType
        BY <1>1, <1>6 DEF DeadlinePasses, DemandType
    <2> QED
        BY <1>1, <1>6, <2>1, SameStepped DEF DeadlinePasses, vars, IInv
<1>7. ASSUME NEW waiting \in BOOLEAN, setDriveStartStatus(waiting)
      PROVE  /\ Stepped(reader') /\ demand' \in DemandType
             /\ policy' \in PolicyType /\ scene' = scene /\ changes' \in 0..scene.changes
    <2>1. demand' \in DemandType
        BY <1>1, <1>7 DEF setDriveStartStatus, DemandType
    <2>2. reader' = reader /\ policy' = policy
        BY <1>7 DEF setDriveStartStatus
    <2>3. scene' = scene /\ changes' \in 0..scene.changes
        BY <1>1, <1>7 DEF setDriveStartStatus, Changes
    <2> QED
        BY <1>1, <2>1, <2>2, <2>3, SameStepped DEF IInv
<1>8. ASSUME NEW retry \in BOOLEAN, RoundEnds(retry)
      PROVE  /\ Stepped(reader') /\ demand' \in DemandType
             /\ policy' \in PolicyType /\ scene' = scene /\ changes' \in 0..scene.changes
    <2> DEFINE d == [demand EXCEPT !.round = FALSE]
    <2>1. d \in DemandType
        BY <1>1 DEF DemandType
    <2>2. demand' \in {d, notifyAdmissionReady(d)}
        BY <1>8 DEF RoundEnds
    <2> HIDE DEF d
    <2>3. demand' \in DemandType
        BY <2>1, <2>2 DEF notifyAdmissionReady, DemandType
    <2> QED
        BY <1>1, <1>8, <2>3, SameStepped DEF RoundEnds, vars, IInv
<1> QED
    BY <1>2, <1>3, <1>4, <1>5, <1>6, <1>7, <1>8 DEF DriveNext, Poller

LEMMA StepInv == IInv /\ [DriveNext]_driveVars => IInv'
<1> SUFFICES ASSUME IInv, [DriveNext]_driveVars PROVE IInv'
    OBVIOUS
<1>1. CASE DriveNext
    <2>1. /\ Stepped(reader') /\ demand' \in DemandType
          /\ policy' \in PolicyType /\ scene' = scene /\ changes' \in 0..scene.changes
        BY <1>1, DriveStep
    <2> QED
        BY <2>1 DEF IInv, Stepped, Good, Base, Resting, Misled
<1>2. CASE UNCHANGED driveVars
    BY <1>2 DEF IInv, driveVars, vars, Good, Base, Resting, Misled
<1> QED
    BY <1>1, <1>2

-----------------------------------------------------------------------------
(* The theorems. *)

(* In every leaf its own goroutines and inhibitor, and something pending;  *)
(* an empty pack does not run (state_machine.go, with all that it calls).  *)
THEOREM ReaderInvariant == DriveSpec => []IInv
<1> QED
    BY InitInv, StepInv, PTL DEF DriveSpec

LEMMA InvTypes == IInv => DriveTypeOK
<1> SUFFICES ASSUME IInv PROVE DriveTypeOK
    OBVIOUS
<1>1. reader \in ReaderType
    BY DEF IInv, Good, Base
<1>2. scene \in Scenes /\ changes \in 0..scene.changes /\ scene.faults \in Nat
    BY ScenesAssumption DEF IInv
<1>3. \A flag \in {"timer", "inserted", "pending", "heartbeat", "inhibitor", "poll",
                   "probe", "quiet", "unsure", "noise", "seen", "early", "shown",
                   "redis", "assumed", "reserved"} : reader[flag] \in BOOLEAN
    BY <1>1 DEF ReaderType
<1>4. /\ reader.state \in Leaves /\ reader.queue \in Seq(ReaderEvents)
      /\ reader.failures \in 0..(MaxFailures - 1)
      /\ reader.tags \in {"none", "selected", "lost"}
      /\ reader.fresh \in {"confirmed", "new", "framed", "blank"}
      /\ reader.data \in DataType /\ reader.bay \in BayType
    BY <1>1 DEF ReaderType
<1>5. reader.spent \in 0..scene.faults
    BY <1>1, <1>2 DEF ReaderType, IInv
<1>6. /\ reader.timer => reader.state \in DOMAIN Timeouts
      /\ reader.poll => reader.state = "tag_absent"
      /\ reader.probe => reader.state = "check_presence"
    BY DEF IInv, Good
<1>7. policy \in PolicyType /\ demand \in DemandType
    BY DEF IInv
<1>8. TypeOK
    BY <1>2, <1>3, <1>4, <1>5, <1>6, <1>7 DEF TypeOK, DataType, BayType, PolicyType
<1> QED
    BY <1>7, <1>8 DEF DriveTypeOK, DemandType

(* Type correctness: the machine has only the timers, the poll loop and    *)
(* the presence check of its leaf, counts fewer failures than restart it,  *)
(* and queues only events that it knows.                                   *)
THEOREM ReaderTypes == DriveSpec => []DriveTypeOK
<1> QED
    BY ReaderInvariant, InvTypes, PTL

(* README.md:87: whatever NFC operations fail and whatever is written to   *)
(* the bay, the seatbox and the settings, the suspend inhibitor is held in *)
(* wait_arrival and in the heartbeat's command cycle only.                 *)
THEOREM InhibitorsAreReleased == DriveSpec => []InhibitorReleased
<1>1. IInv => InhibitorReleased
    BY DEF IInv, Good, InhibitorReleased, Holders
<1> QED
    BY <1>1, ReaderInvariant, PTL

(* A queued event. *)
LEMMA HasQueued ==
    ASSUME NEW r \in ReaderType, NEW e, Has(r, e)
    PROVE  r.queue # <<>>
BY DEF Has, ReaderType

LEMMA InvPending ==
    ASSUME IInv, "critical" \in scene.events => "bay" \notin scene.events /\ ~Misled
    PROVE  SomethingPending
<1>1. reader \in ReaderType /\ Good(scene, reader)
    BY DEF IInv, Good, Base
<1>2. CASE reader.state = "init"
    BY <1>1, <1>2, HasQueued DEF Good, SomethingPending
<1>3. CASE reader.state \in DOMAIN Timeouts
    BY <1>1, <1>3, HasQueued DEF Good, SomethingPending
<1>4. CASE reader.state \in Heartbeat
    <2>1. Resting(scene, reader) => RestsEmpty
        BY DEF Resting, RestsEmpty
    <2> QED
        BY <1>1, <1>4, <2>1, HasQueued DEF Good, Beats, SomethingPending
<1>5. reader.state \in Leaves
    BY <1>1 DEF ReaderType
<1>6. reader.state = "wait_update" => reader.state \in Heartbeat
    BY DEF Heartbeat
<1> QED
    BY <1>2, <1>3, <1>4, <1>5, <1>6, Events

(* The machine never waits for nothing: a timer is armed, an event queued  *)
(* or the heartbeat runs, unless an empty pack rests.  For this the scene  *)
(* must not combine critical faults, which empty the data of a resting     *)
(* pack, with exchanges of packs or with frames that tell of an old charge.*)
THEOREM NeverWaitsForNothing ==
    DriveSpec => [](("critical" \in scene.events => "bay" \notin scene.events /\ ~Misled)
                    => SomethingPending)
<1>1. IInv => (("critical" \in scene.events => "bay" \notin scene.events /\ ~Misled)
               => SomethingPending)
    BY InvPending
<1> QED
    BY <1>1, ReaderInvariant, PTL

(* README.md:74-79: a pack is forgotten only after a search that was quiet *)
(* to its end.                                                             *)
THEOREM DeparturesNeedQuiet == DriveSpec => DepartureNeedsQuietSearch
<1>1. IInv /\ [DriveNext]_driveVars
      => [reader.seen /\ ~reader'.seen => reader'.quiet /\ ~reader'.noise]_vars
    <2> SUFFICES ASSUME IInv, [DriveNext]_driveVars
                 PROVE  [reader.seen /\ ~reader'.seen => reader'.quiet /\ ~reader'.noise]_vars
        OBVIOUS
    <2>1. CASE DriveNext
        <3>1. Stepped(reader')
            BY <2>1, DriveStep
        <3> QED
            BY <3>1 DEF Stepped
    <2>2. CASE UNCHANGED driveVars
        BY <2>2 DEF driveVars
    <2> QED
        BY <2>1, <2>2
<1> QED
    BY <1>1, ReaderInvariant, PTL DEF DriveSpec, DepartureNeedsQuietSearch

-----------------------------------------------------------------------------
(* The open loop. *)

Runs(r) == r.bay.state = "active"

(* A pack that runs is not taken for one that is off, unless the data are  *)
(* from before its tag was found again.                                    *)
Honest(r) == Runs(r) /\ ~r.data.dated => r.data.state # "inactive" /\ ~r.data.empty

(* No timeout of send_closed waits behind one of send_off, and no word     *)
(* that the pack is off behind one of send_closed.                         *)
InOrder(s) ==
    \A m, n \in 1..Len(s) : m < n =>
        /\ ~(s[m] = "off_timeout" /\ s[n] = "closed_timeout")
        /\ ~(s[m] = "closed_timeout" /\ s[n] = "off_confirmed_inactive")

(* The events that only one step sends, and those that anybody may send. *)
Watched == {"closed_timeout", "off_confirmed_inactive"}
Harmless == ReaderEvents \ Watched

(* From r to q no pack is switched on, the queue keeps its order, and what *)
(* is believed of the pack is as true as it was.                           *)
Mild(r, q) ==
    /\ q \in ReaderType
    /\ q.bay.in = r.bay.in /\ q.bay.empty = r.bay.empty /\ (Runs(q) => Runs(r))
    /\ q.tags = "lost" => r.tags = "lost"
    /\ InOrder(r.queue) => InOrder(q.queue)
    /\ \A e \in Watched : Has(q, e) => Has(r, e)
    /\ Honest(r) => Honest(q)

(* ... and the machine is then in the given leaf. *)
Goes(r, q, leaf) ==
    Mild(r, q) /\ q.state = leaf /\ q.inserted = r.inserted /\ q.assumed = r.assumed

LEMMA MildTrans ==
    ASSUME NEW r, NEW p, NEW q, Mild(r, p), Mild(p, q)
    PROVE  Mild(r, q)
BY DEF Mild

LEMMA GoesTrans ==
    ASSUME NEW r, NEW p, NEW q, NEW k, NEW l, Goes(r, p, k), Goes(p, q, l)
    PROVE  Goes(r, q, l)
BY MildTrans DEF Goes

LEMMA MildAlike ==
    ASSUME NEW r, NEW q \in ReaderType, q.bay = r.bay, q.queue = r.queue, q.data = r.data,
           q.tags \in {r.tags, "none", "selected"}
    PROVE  Mild(r, q)
BY DEF Mild, Runs, Honest, Has

LEMMA GoesAlike ==
    ASSUME NEW r, NEW q \in ReaderType, NEW leaf, q.state = leaf,
           q.inserted = r.inserted, q.assumed = r.assumed, q.bay = r.bay,
           q.queue = r.queue, q.data = r.data, q.tags \in {r.tags, "none", "selected"}
    PROVE  Goes(r, q, leaf)
BY MildAlike DEF Goes

LEMMA GoesSame ==
    ASSUME NEW r \in ReaderType
    PROVE  Goes(r, r, r.state)
BY DEF Goes, Mild

(* An event at the end of the queue. *)
LEMMA AppendOrder ==
    ASSUME NEW s \in Seq(ReaderEvents), NEW e \in ReaderEvents, InOrder(s),
           e = "closed_timeout" => \A k \in 1..Len(s) : s[k] # "off_timeout",
           e = "off_confirmed_inactive" => \A k \in 1..Len(s) : s[k] # "closed_timeout"
    PROVE  InOrder(Append(s, e))
<1> DEFINE t == Append(s, e)
<1>1. /\ Len(s) \in Nat /\ Len(t) = Len(s) + 1 /\ t[Len(s) + 1] = e
      /\ \A k \in 1..Len(s) : t[k] = s[k]
    OBVIOUS
<1> HIDE DEF t
<1> SUFFICES ASSUME NEW m \in 1..Len(t), NEW n \in 1..Len(t), m < n
             PROVE  /\ ~(t[m] = "off_timeout" /\ t[n] = "closed_timeout")
                    /\ ~(t[m] = "closed_timeout" /\ t[n] = "off_confirmed_inactive")
    BY DEF InOrder, t
<1>2. m \in 1..Len(s) /\ t[m] = s[m]
    BY <1>1
<1>3. CASE n \in 1..Len(s)
    <2>1. t[n] = s[n]
        BY <1>1, <1>3
    <2> QED
        BY <1>2, <1>3, <2>1 DEF InOrder
<1>4. CASE n = Len(s) + 1
    BY <1>1, <1>2, <1>4
<1> QED
    BY <1>1, <1>3, <1>4

LEMMA SendFields ==
    ASSUME NEW r \in ReaderType, NEW e \in ReaderEvents, NEW q, q = Send(r, e)
    PROVE  /\ q \in ReaderType /\ q.queue = Append(r.queue, e)
           /\ q.state = r.state /\ q.inserted = r.inserted /\ q.assumed = r.assumed
           /\ q.bay = r.bay /\ q.tags = r.tags /\ q.data = r.data
           /\ \A g : Has(q, g) => g = e \/ Has(r, g)
<1> DEFINE Q == Append(r.queue, e)
<1>1. /\ Q \in Seq(ReaderEvents) /\ Len(r.queue) \in Nat /\ Len(Q) = Len(r.queue) + 1
      /\ Q[Len(r.queue) + 1] = e /\ \A k \in 1..Len(r.queue) : Q[k] = r.queue[k]
    BY DEF ReaderType
<1>2. q = [r EXCEPT !.queue = Q]
    BY DEF Send
<1> HIDE DEF Q
<1>3. q \in ReaderType
    BY SendKept DEF Kept
<1>4. /\ q.queue = Q
      /\ q.state = r.state /\ q.inserted = r.inserted /\ q.assumed = r.assumed
      /\ q.bay = r.bay /\ q.tags = r.tags /\ q.data = r.data
    BY <1>2 DEF ReaderType
<1>5. ASSUME NEW g, Has(q, g), g # e
      PROVE  Has(r, g)
    <2>1. PICK k \in 1..Len(Q) : Q[k] = g
        BY <1>4, <1>5 DEF Has
    <2>2. k \in 1..Len(r.queue)
        BY <1>1, <1>5, <2>1
    <2> QED
        BY <1>1, <2>1, <2>2 DEF Has
<1> QED
    BY <1>3, <1>4, <1>5 DEF Q

LEMMA GoesSend ==
    ASSUME NEW r \in ReaderType, NEW e \in Harmless
    PROVE  Goes(r, Send(r, e), r.state)
<1> DEFINE q == Send(r, e)
<1>1. e \in ReaderEvents /\ r.queue \in Seq(ReaderEvents)
    BY DEF Harmless, ReaderType
<1>2. /\ q \in ReaderType /\ q.queue = Append(r.queue, e)
      /\ q.state = r.state /\ q.inserted = r.inserted /\ q.assumed = r.assumed
      /\ q.bay = r.bay /\ q.tags = r.tags /\ q.data = r.data
      /\ \A g : Has(q, g) => g = e \/ Has(r, g)
    BY <1>1, SendFields
<1> HIDE DEF q
<1>3. InOrder(r.queue) => InOrder(q.queue)
    BY <1>1, <1>2, AppendOrder DEF Harmless, Watched
<1>4. Goes(r, q, r.state)
    BY <1>2, <1>3 DEF Goes, Mild, Runs, Honest, Harmless
<1> QED
    BY <1>4 DEF q

LEMMA HarmlessEvents ==
    {"init_complete", "reinit", "tag_arrived", "tag_departed", "restart", "seatbox_opened",
     "seatbox_closed", "heartbeat_timeout", "admission_poll", "check_presence_ready",
     "off_retry"}
    \subseteq Harmless
BY Events DEF Harmless, Watched

(* The operations of the reader. *)
LEMMA CountGoes ==
    ASSUME NEW r \in ReaderType, NEW n \in Nat
    PROVE  Goes(r, [r EXCEPT !.spent = @ + n], r.state)
<1> DEFINE q == [r EXCEPT !.spent = @ + n]
<1>1. r.spent + n \in Nat
    BY DEF ReaderType
<1>2. q \in ReaderType
    BY <1>1 DEF ReaderType
<1>3. /\ q.state = r.state /\ q.inserted = r.inserted /\ q.assumed = r.assumed
      /\ q.bay = r.bay /\ q.tags = r.tags /\ q.data = r.data /\ q.queue = r.queue
    BY DEF ReaderType
<1> HIDE DEF q
<1>4. Goes(r, q, r.state)
    BY <1>2, <1>3, GoesAlike
<1> QED
    BY <1>4 DEF q

LEMMA SpendGoes ==
    ASSUME NEW r \in ReaderType, NEW a
    PROVE  Goes(r, Spend(r, a), r.state)
<1>1. Spend(r, a) \in {r, [r EXCEPT !.spent = @ + 1]}
    BY DEF Spend
<1> QED
    BY <1>1, CountGoes, GoesSame

LEMMA StartDiscoveryGoes ==
    ASSUME NEW r \in ReaderType, NEW a
    PROVE  Goes(r, startDiscovery(r, a), r.state)
<1> DEFINE s == [r EXCEPT !.tags = "none", !.quiet = FALSE, !.unsure = FALSE, !.noise = FALSE]
           t == [s EXCEPT !.spent = @ + 1]
           q == startDiscovery(r, a)
<1>1. q \in {Send(t, "reinit"), t, s}
    BY DEF startDiscovery
<1>2. s \in ReaderType
    BY DEF ReaderType
<1>3. /\ s.state = r.state /\ s.inserted = r.inserted /\ s.assumed = r.assumed
      /\ s.bay = r.bay /\ s.tags = "none" /\ s.data = r.data /\ s.queue = r.queue
    BY DEF ReaderType
<1> HIDE DEF s
<1>4. Goes(r, s, r.state)
    BY <1>2, <1>3, GoesAlike
<1>5. Goes(s, t, s.state)
    BY <1>2, CountGoes
<1> HIDE DEF t, q
<1>6. t \in ReaderType /\ t.state = r.state
    BY <1>3, <1>5 DEF Goes, Mild
<1>7. Goes(t, Send(t, "reinit"), r.state)
    BY <1>6, HarmlessEvents, GoesSend
<1>8. Goes(r, q, r.state)
    BY <1>1, <1>3, <1>4, <1>5, <1>6, <1>7, GoesTrans
<1> QED
    BY <1>8 DEF q

LEMMA NoteTagPresentGoes ==
    ASSUME NEW r \in ReaderType
    PROVE  Goes(r, noteTagPresent(r), r.state)
<1> DEFINE s == [r EXCEPT !.seen = TRUE, !.tags = "selected"]
           bay == [s.bay EXCEPT !.known = TRUE]
           t == [s EXCEPT !.bay = bay, !.fresh = "new", !.early = TRUE, !.reserved = TRUE]
           q == noteTagPresent(r)
<1>1. q \in ReaderType
    BY NoteTagPresentKept DEF Kept
<1>2. q \in {s, [s EXCEPT !.bay.known = TRUE, !.fresh = "new", !.early = TRUE,
                           !.reserved = TRUE]}
    BY DEF noteTagPresent
<1>3. s \in ReaderType
    BY DEF ReaderType
<1>4. /\ s.state = r.state /\ s.inserted = r.inserted /\ s.assumed = r.assumed
      /\ s.bay = r.bay /\ s.tags = "selected" /\ s.data = r.data /\ s.queue = r.queue
    BY DEF ReaderType
<1> HIDE DEF s
<1>5. q \in {s, t}
    BY <1>2, <1>3 DEF ReaderType
<1>6. bay.in = s.bay.in /\ bay.empty = s.bay.empty /\ bay.state = s.bay.state
    BY <1>3 DEF ReaderType, BayType
<1> HIDE DEF bay
<1>7. /\ t.state = s.state /\ t.inserted = s.inserted /\ t.assumed = s.assumed
      /\ t.bay = bay /\ t.tags = s.tags /\ t.data = s.data /\ t.queue = s.queue
    BY <1>3 DEF ReaderType
<1> HIDE DEF t, q
<1>8. /\ q.state = r.state /\ q.inserted = r.inserted /\ q.assumed = r.assumed
      /\ q.bay.in = r.bay.in /\ q.bay.empty = r.bay.empty
      /\ q.bay.state = r.bay.state /\ q.tags = "selected"
      /\ q.data = r.data /\ q.queue = r.queue
    BY <1>4, <1>5, <1>6, <1>7
<1>9. Goes(r, q, r.state)
    BY <1>1, <1>8 DEF Goes, Mild, Runs, Honest, Has
<1> QED
    BY <1>9 DEF q

LEMMA DiscoverGoes ==
    ASSUME NEW r \in ReaderType, NEW x
    PROVE  Goes(r, discoverBatteryTag(r, x), r.state)
<1> DEFINE s == [r EXCEPT !.quiet = FALSE, !.unsure = FALSE, !.noise = FALSE]
           q == discoverBatteryTag(r, x)
<1>1. s \in ReaderType
    BY DEF ReaderType
<1>2. /\ s.state = r.state /\ s.inserted = r.inserted /\ s.assumed = r.assumed
      /\ s.bay = r.bay /\ s.tags = r.tags /\ s.data = r.data /\ s.queue = r.queue
    BY DEF ReaderType
<1>3. q \in {r, s, Send(s, "reinit"), Send(s, "tag_departed"), noteTagPresent(s)}
    BY DEF discoverBatteryTag
<1> HIDE DEF s, q
<1>4. Goes(r, s, r.state) /\ Goes(r, r, r.state)
    BY <1>1, <1>2, GoesAlike, GoesSame
<1>5. /\ Goes(s, Send(s, "reinit"), r.state) /\ Goes(s, Send(s, "tag_departed"), r.state)
      /\ Goes(s, noteTagPresent(s), r.state)
    BY <1>1, <1>2, HarmlessEvents, GoesSend, NoteTagPresentGoes
<1>6. Goes(r, q, r.state)
    BY <1>3, <1>4, <1>5, GoesTrans
<1> QED
    BY <1>6 DEF q

LEMMA NFCErrorGoes ==
    ASSUME NEW r \in ReaderType, NEW x
    PROVE  Goes(r, handleNFCError(r, x), r.state) /\ handleNFCError(r, x).data = r.data
<1> DEFINE s == [r EXCEPT !.tags = "none"]
           q == handleNFCError(r, x)
<1>1. s \in ReaderType
    BY DEF ReaderType
<1>2. /\ s.state = r.state /\ s.inserted = r.inserted /\ s.assumed = r.assumed
      /\ s.bay = r.bay /\ s.tags = "none" /\ s.data = r.data /\ s.queue = r.queue
    BY DEF ReaderType
<1>3. q \in {r, Send(r, "reinit"), Send(s, "tag_departed")}
    BY DEF handleNFCError
<1> HIDE DEF s, q
<1>4. Goes(r, s, r.state) /\ Goes(r, r, r.state)
    BY <1>1, <1>2, GoesAlike, GoesSame
<1>5. /\ Goes(r, Send(r, "reinit"), r.state) /\ Goes(s, Send(s, "tag_departed"), r.state)
    BY <1>1, <1>2, HarmlessEvents, GoesSend
<1>6. "reinit" \in ReaderEvents /\ "tag_departed" \in ReaderEvents
    BY Events
<1>7. Send(r, "reinit").data = r.data /\ Send(s, "tag_departed").data = r.data
    BY <1>1, <1>2, <1>6, SendFields
<1>8. Goes(r, q, r.state) /\ q.data = r.data
    BY <1>3, <1>4, <1>5, <1>7, GoesTrans
<1> QED
    BY <1>8 DEF q

LEMMA StatusUpdateGoes ==
    ASSUME NEW r \in ReaderType, NEW same
    PROVE  Goes(r, sendStatusUpdate(r, same), r.state)
           /\ sendStatusUpdate(r, same).data = r.data
<1> DEFINE s == noteFrameFreshness(r, same)
           q == sendStatusUpdate(r, same)
<1>1. s \in {r, [r EXCEPT !.fresh = "framed"], [r EXCEPT !.fresh = "blank"],
              [r EXCEPT !.early = TRUE],
              [r EXCEPT !.fresh = "confirmed", !.early = FALSE]}
    BY DEF noteFrameFreshness
<1>2. q \in {[s EXCEPT !.shown = r.data.present], [s EXCEPT !.shown = @]}
    BY DEF sendStatusUpdate
<1> HIDE DEF s
<1>3. s \in ReaderType
    <2>1. CASE s = [r EXCEPT !.fresh = "confirmed", !.early = FALSE]
        BY <2>1, ZenonT(60) DEF ReaderType
    <2>2. CASE s = [r EXCEPT !.fresh = "framed"] \/ s = [r EXCEPT !.fresh = "blank"]
        BY <2>2 DEF ReaderType
    <2>3. CASE s = [r EXCEPT !.early = TRUE]
        BY <2>3, ZenonT(60) DEF ReaderType
    <2> QED
        BY <1>1, <2>1, <2>2, <2>3
<1>4. /\ s.inserted = r.inserted /\ s.assumed = r.assumed /\ s.tags = r.tags
    BY <1>1 DEF ReaderType
<1>5. q.inserted = s.inserted /\ q.assumed = s.assumed /\ q.tags = s.tags
    BY <1>2, <1>3 DEF ReaderType
<1>6. q \in ReaderType /\ q.state = r.state /\ q.queue = r.queue /\ q.data = r.data
      /\ q.bay = r.bay
    BY StatusUpdateKept, StatusUpdateFields DEF Soft
<1> HIDE DEF q
<1>7. Goes(r, q, r.state)
    BY <1>4, <1>5, <1>6, GoesAlike
<1> QED
    BY <1>6, <1>7 DEF q

(* What a frame says of a pack that runs is true. *)
LEMMA FrameHonest ==
    ASSUME NEW r \in ReaderType, NEW x, Runs(r) => ~r.bay.empty
    PROVE  /\ Runs(r) => Frame(r, x).state # "inactive" /\ ~Frame(r, x).empty
           /\ Frame(r, x) \in DataType
<1>1. CASE x = "zero"
    BY <1>1, FrameData DEF Frame, NoData
<1>2. CASE x # "zero" /\ Runs(r)
    <2>1. ~Unwritten(r, x)
        BY <1>2 DEF Unwritten, Runs
    <2> QED
        BY <1>2, <2>1, FrameData DEF Frame, Runs
<1> QED
    BY <1>1, <1>2, FrameData

(* A status read, which leaves the data alone or tells the truth. *)
LEMMA ReadStatusGoes ==
    ASSUME NEW r \in ReaderType, NEW a, NEW q, q = readStatus(r, a),
           Runs(r) => ~r.bay.empty
    PROVE  /\ Goes(r, q, r.state)
           /\ ~ReadFails(r, a) /\ Answer(r, a) # "zero" /\ q.data.state = "inactive"
              => ~Runs(q)
<1> DEFINE x == Answer(r, a)
           p == Spend(r, a)
           found == discoverBatteryTag(p, x)
           frame == Frame(found, x)
           reserved == found.reserved \/ frame.state = "active"
           read == [found EXCEPT !.data = frame, !.reserved = reserved]
           same == x = "same" \/ Unwritten(found, x)
           end == sendStatusUpdate(read, same)
<1>1. q = readStatusLocked(r, a)
    BY DEF readStatus, Once
<1>2. q = IF ~Finds(r, x) THEN found
          ELSE IF x \in Failures THEN handleNFCError(found, x)
          ELSE parseStatusData(found, x)
    BY <1>1 DEF readStatusLocked
<1>3. ~Finds(r, x) => x \in Failures
    BY DEF Finds, Failures
<1>4. ReadFails(r, a) <=> x \in Failures
    BY DEF ReadFails
<1>5. Goes(r, p, r.state)
    BY SpendGoes
<1> HIDE DEF p, x
<1>6. Goes(p, found, r.state)
    BY <1>5, DiscoverGoes DEF Goes, Mild
<1> HIDE DEF found
<1>7. Goes(r, found, r.state) /\ found \in ReaderType /\ found.state = r.state
    BY <1>5, <1>6, GoesTrans DEF Goes, Mild
<1>8. Goes(r, handleNFCError(found, x), r.state)
    BY <1>7, NFCErrorGoes, GoesTrans
<1>9. parseStatusData(found, x) = IF x = "zero" /\ found.data.zero THEN found ELSE end
    BY <1>7 DEF parseStatusData, ReaderType
<1> HIDE DEF same
<1>10. /\ frame \in DataType
       /\ Runs(found) => frame.state # "inactive" /\ ~frame.empty
    <2>1. Runs(found) => ~found.bay.empty
        BY <1>7 DEF Goes, Mild
    <2> QED
        BY <1>7, <2>1, FrameHonest
<1>11. reserved \in BOOLEAN
    BY <1>7 DEF ReaderType
<1> HIDE DEF frame, reserved
<1>12. read \in ReaderType
    BY <1>7, <1>10, <1>11, ZenonT(60) DEF ReaderType
<1>13. /\ read.state = r.state /\ read.inserted = found.inserted
       /\ read.assumed = found.assumed /\ read.bay = found.bay /\ read.tags = found.tags
       /\ read.queue = found.queue /\ read.data = frame
    BY <1>7 DEF ReaderType
<1> HIDE DEF read
<1>14. Goes(found, read, r.state)
    BY <1>7, <1>10, <1>12, <1>13 DEF Goes, Mild, Honest, Runs, Has
<1>15. Goes(read, end, r.state) /\ end.data = frame
    BY <1>12, <1>13, StatusUpdateGoes
<1>16. Goes(r, end, r.state)
    BY <1>7, <1>14, <1>15, GoesTrans
<1>17. end.data.state = "inactive" => ~Runs(end)
    BY <1>10, <1>14, <1>15 DEF Goes, Mild
<1> HIDE DEF end
<1> QED
    BY <1>2, <1>3, <1>4, <1>7, <1>8, <1>9, <1>16, <1>17 DEF x

(* The inhibitor. *)
LEMMA InhibitorGoes ==
    ASSUME NEW r \in ReaderType
    PROVE  Goes(r, takeInhibitor(r), r.state) /\ Goes(r, releaseInhibitor(r), r.state)
<1>1. ASSUME NEW v \in BOOLEAN
      PROVE  Goes(r, [r EXCEPT !.inhibitor = v], r.state)
    <2> DEFINE q == [r EXCEPT !.inhibitor = v]
    <2>1. q \in ReaderType
        BY DEF ReaderType
    <2>2. /\ q.state = r.state /\ q.inserted = r.inserted /\ q.assumed = r.assumed
          /\ q.bay = r.bay /\ q.tags = r.tags /\ q.data = r.data /\ q.queue = r.queue
        BY DEF ReaderType
    <2> HIDE DEF q
    <2>3. Goes(r, q, r.state)
        BY <2>1, <2>2, GoesAlike
    <2> QED
        BY <2>3 DEF q
<1> QED
    BY <1>1 DEF takeInhibitor, releaseInhibitor

(* What the pack makes of a command. *)
Obeys(r, q, bay) ==
    /\ q \in ReaderType /\ q.state = r.state /\ q.inserted = r.inserted
    /\ q.assumed = r.assumed /\ q.queue = r.queue /\ q.data = r.data
    /\ q.tags = "none" /\ q.bay = bay

LEMMA BayObeys ==
    ASSUME NEW r \in ReaderType, NEW bay \in BayType, NEW reserved \in BOOLEAN, NEW q,
           q = [r EXCEPT !.tags = "none", !.reserved = reserved, !.bay = bay]
    PROVE  Obeys(r, q, bay)
<1>1. q \in ReaderType
    BY ZenonT(60) DEF ReaderType
<1>2. /\ q.state = r.state /\ q.inserted = r.inserted
      /\ q.assumed = r.assumed /\ q.queue = r.queue /\ q.data = r.data
      /\ q.tags = "none" /\ q.bay = bay
    BY DEF ReaderType
<1> QED
    BY <1>1, <1>2 DEF Obeys

(* A command.  Only ON makes a pack run, and only one that is in the bay;  *)
(* it leaves nothing selected.                                             *)
LEMMA WriteCommandGoes ==
    ASSUME NEW r \in ReaderType, NEW cmd, NEW a, NEW q, q = writeCommand(r, cmd, a)
    PROVE  /\ cmd # "on" => Goes(r, q, r.state)
           /\ q.state = r.state /\ q.inserted = r.inserted /\ q.bay.in = r.bay.in
           /\ InOrder(r.queue) => InOrder(q.queue)
           /\ \A e \in Watched : Has(q, e) => Has(r, e)
           /\ Runs(q) => \/ Runs(r) /\ (q.tags = "lost" => r.tags = "lost")
                         \/ q.bay.in /\ q.tags = "none"
<1> DEFINE x == Answer(r, a)
           p == Spend(r, a)
           found == discoverBatteryTag(p, x)
           h == handleNFCError(found, x)
           i == releaseInhibitor(h)
           bay == IF x \in Failures \cup {"ignored"} THEN i.bay ELSE Obeyed(i.bay, cmd)
           reserved == i.reserved \/ cmd = "on"
           done == [i EXCEPT !.tags = "none", !.reserved = reserved, !.bay = bay]
           end == [releaseInhibitor(h) EXCEPT !.tags = "none",
                     !.reserved = @ \/ cmd = "on",
                     !.bay = IF x \in Failures \cup {"ignored"} THEN @ ELSE Obeyed(@, cmd)]
<1>1. q = Commanded(r, cmd, a)
    BY DEF writeCommand, Once
<1>2. q \in {found, Send(found, "reinit"), releaseInhibitor(found), end,
              Send(end, "reinit")}
    <2> DEFINE stopped(s) == IF x \in {"hal2", "stuck"} THEN Send(s, "reinit") ELSE s
    <2>1. q = IF ~Finds(r, x) THEN stopped(found)
              ELSE IF Denied(cmd) THEN releaseInhibitor(found)
              ELSE stopped(end)
        BY <1>1 DEF Commanded
    <2> HIDE DEF found, end
    <2> QED
        BY <2>1
<1>3. x \notin Failures => r.bay.in
    BY DEF Answer, Failures, HAL
<1> HIDE DEF x
<1>4. Goes(r, p, r.state)
    BY SpendGoes
<1> HIDE DEF p
<1>5. Goes(r, found, r.state) /\ found \in ReaderType /\ found.state = r.state
    BY <1>4, DiscoverGoes, GoesTrans DEF Goes, Mild
<1> HIDE DEF found
<1>6. Goes(r, h, r.state) /\ h \in ReaderType /\ h.state = r.state
    BY <1>5, NFCErrorGoes, GoesTrans DEF Goes, Mild
<1> HIDE DEF h
<1>7. Goes(r, i, r.state) /\ i \in ReaderType /\ i.state = r.state
    BY <1>6, InhibitorGoes, GoesTrans DEF Goes, Mild
<1>8. end = done
    <2> HIDE DEF i
    <2>1. end = [i EXCEPT !.tags = "none", !.reserved = @ \/ cmd = "on",
                   !.bay = IF x \in Failures \cup {"ignored"} THEN @ ELSE Obeyed(@, cmd)]
        BY DEF i
    <2> QED
        BY <1>7, <2>1 DEF ReaderType
<1> HIDE DEF i, end
<1>9. /\ bay \in BayType /\ bay.in = i.bay.in /\ bay.empty = i.bay.empty
      /\ bay.state = "active" => i.bay.state = "active" \/ (cmd = "on" /\ r.bay.in)
    <2>1. i.bay \in BayType
        BY <1>7 DEF ReaderType
    <2> QED
        BY <1>3, <2>1 DEF BayType, Obeyed
<1>10. reserved \in BOOLEAN
    BY <1>7 DEF ReaderType
<1> HIDE DEF bay, reserved
<1>11. Obeys(i, done, bay)
    BY <1>7, <1>9, <1>10, BayObeys
<1> HIDE DEF done
<1>12. /\ Goes(r, releaseInhibitor(found), r.state)
       /\ Goes(r, Send(found, "reinit"), r.state)
    BY <1>5, HarmlessEvents, GoesSend, InhibitorGoes, GoesTrans
<1>13. CASE q \in {found, Send(found, "reinit"), releaseInhibitor(found)}
    <2>1. Goes(r, q, r.state)
        BY <1>5, <1>12, <1>13
    <2> QED
        BY <2>1 DEF Goes, Mild
<1>14. Goes(done, Send(done, "reinit"), r.state) /\ Goes(done, done, r.state)
    BY <1>7, <1>11, HarmlessEvents, GoesSend, GoesSame DEF Obeys
<1>15. CASE q \in {end, Send(end, "reinit")}
    <2>1. Goes(done, q, r.state)
        BY <1>8, <1>14, <1>15
    <2>2. cmd # "on" => Goes(r, done, r.state)
        BY <1>7, <1>9, <1>11 DEF Obeys, Goes, Mild, Runs, Honest, Has
    <2>3. cmd # "on" => Goes(r, q, r.state)
        BY <2>1, <2>2, GoesTrans
    <2>4. /\ done.state = r.state /\ done.inserted = r.inserted /\ done.bay.in = r.bay.in
          /\ InOrder(r.queue) => InOrder(done.queue)
          /\ \A e \in Watched : Has(done, e) => Has(r, e)
        BY <1>7, <1>9, <1>11 DEF Obeys, Goes, Mild, Has
    <2>5. Runs(q) => Runs(done) /\ q.tags # "lost"
        BY <1>11, <2>1 DEF Obeys, Goes, Mild
    <2>6. Runs(done) => Runs(r) \/ r.bay.in
        BY <1>7, <1>9, <1>11 DEF Obeys, Goes, Mild, Runs
    <2>7. q.tags = "none"
        <3>1. "reinit" \in ReaderEvents
            BY Events
        <3>2. Send(done, "reinit").tags = done.tags
            BY <1>11, <3>1, SendFields DEF Obeys
        <3> QED
            BY <1>8, <1>11, <1>15, <3>2 DEF Obeys
    <2> QED
        BY <2>1, <2>3, <2>4, <2>5, <2>6, <2>7 DEF Goes, Mild
<1> QED
    BY <1>2, <1>13, <1>15

(* The states. *)
LEMMA EnterGoes ==
    ASSUME NEW r \in ReaderType, NEW leaf \in Leaves
    PROVE  Goes(r, Enter(r, leaf), leaf)
<1> DEFINE q == Enter(r, leaf)
<1>1. q \in ReaderType /\ q.state = leaf /\ q.queue = r.queue /\ q.bay = r.bay
      /\ q.data = r.data
    BY EnterFields
<1>2. q.inserted = r.inserted /\ q.assumed = r.assumed /\ q.tags = r.tags
    BY DEF Enter, ReaderType
<1> HIDE DEF q
<1>3. Goes(r, q, leaf)
    BY <1>1, <1>2, GoesAlike
<1> QED
    BY <1>3 DEF q

LEMMA CommandGoes ==
    ASSUME NEW r \in ReaderType, NEW leaf \in Leaves, NEW cmd, NEW a, cmd # "on"
    PROVE  Goes(r, writeCommand(Enter(r, leaf), cmd, a), leaf)
<1> DEFINE p == Enter(r, leaf)
<1>1. Goes(r, p, leaf) /\ p \in ReaderType /\ p.state = leaf
    BY EnterGoes DEF Goes, Mild
<1> HIDE DEF p
<1>2. Goes(p, writeCommand(p, cmd, a), leaf)
    BY <1>1, WriteCommandGoes
<1>3. Goes(r, writeCommand(p, cmd, a), leaf)
    BY <1>1, <1>2, GoesTrans
<1> QED
    BY <1>3 DEF p

LEMMA AllLeaves ==
    /\ {"nfc_reader_off", "wait_arrival", "tag_absent", "check_presence", "wait_last_cmd",
        "send_off", "read_off_status", "send_opened", "send_inserted_open", "send_closed",
        "send_on_off", "wait_update", "send_inserted_closed"} \subseteq Leaves
    /\ Heartbeat \subseteq TagPresent /\ OpenLoop \subseteq TagPresent
    /\ Heartbeat \cap OpenLoop = {}
BY DEF Leaves, Discovering, TagPresent, Heartbeat, OpenLoop

(* nfc_reader_off and wait_last_cmd. *)
LEMMA QuietGoes ==
    ASSUME NEW r \in ReaderType
    PROVE  /\ Goes(r, EnterReaderOff(r), "nfc_reader_off")
           /\ Goes(r, EnterWaitLastCmd(r), "wait_last_cmd")
<1>1. ASSUME NEW leaf \in Leaves
      PROVE  Goes(r, [Enter(r, leaf) EXCEPT !.heartbeat = FALSE], leaf)
    <2> DEFINE p == Enter(r, leaf)
               q == [p EXCEPT !.heartbeat = FALSE]
    <2>1. Goes(r, p, leaf) /\ p \in ReaderType
        BY EnterGoes DEF Goes, Mild
    <2> HIDE DEF p
    <2>2. q \in ReaderType
        BY <2>1 DEF ReaderType
    <2>3. /\ q.state = p.state /\ q.inserted = p.inserted /\ q.assumed = p.assumed
          /\ q.bay = p.bay /\ q.tags = p.tags /\ q.data = p.data /\ q.queue = p.queue
        BY <2>1 DEF ReaderType
    <2> HIDE DEF q
    <2>4. p.state = leaf
        BY <2>1 DEF Goes
    <2>5. Goes(p, q, leaf)
        BY <2>2, <2>3, <2>4, GoesAlike
    <2>6. Goes(r, q, leaf)
        BY <2>1, <2>5, GoesTrans
    <2> QED
        BY <2>6 DEF p, q
<1> QED
    BY <1>1, AllLeaves DEF EnterReaderOff, EnterWaitLastCmd

(* discover_tag and nfc_reader_on. *)
LEMMA DiscoverEntryGoes ==
    ASSUME NEW r \in ReaderType, NEW a
    PROVE  Goes(r, EnterDiscover(r, a), "wait_arrival")
<1> DEFINE p == Enter(r, "wait_arrival")
           t == takeInhibitor(p)
<1>1. Goes(r, p, "wait_arrival") /\ p \in ReaderType /\ p.state = "wait_arrival"
    BY EnterGoes, AllLeaves DEF Goes, Mild
<1> HIDE DEF p
<1>2. Goes(p, t, "wait_arrival") /\ t \in ReaderType /\ t.state = "wait_arrival"
    BY <1>1, InhibitorGoes DEF Goes, Mild
<1> HIDE DEF t
<1>3. Goes(t, startDiscovery(t, a), "wait_arrival")
    BY <1>2, StartDiscoveryGoes
<1>4. Goes(r, startDiscovery(t, a), "wait_arrival")
    BY <1>1, <1>2, <1>3, GoesTrans
<1> QED
    BY <1>4 DEF EnterDiscover, p, t

LEMMA ReaderOnGoes ==
    ASSUME NEW r \in ReaderType, NEW a, NEW b
    PROVE  Goes(r, EnterReaderOn(r, a, b), "wait_arrival")
<1> DEFINE t == [r EXCEPT !.spent = @ + 1]
           p == IF a \in HAL THEN Send(t, "reinit") ELSE r
<1>1. Goes(r, t, r.state)
    BY CountGoes
<1>2. EnterReaderOn(r, a, b) = EnterDiscover(p, b)
    BY DEF EnterReaderOn
<1> HIDE DEF t
<1>3. t \in ReaderType /\ t.state = r.state
    BY <1>1 DEF Goes, Mild
<1>4. Goes(t, Send(t, "reinit"), r.state)
    BY <1>3, HarmlessEvents, GoesSend
<1>5. Goes(r, p, r.state)
    BY <1>1, <1>4, GoesTrans, GoesSame
<1> HIDE DEF p
<1>6. Goes(p, EnterDiscover(p, b), "wait_arrival")
    BY <1>5, DiscoverEntryGoes DEF Goes, Mild
<1> QED
    BY <1>2, <1>5, <1>6, GoesTrans

(* tag_absent. *)
LEMMA TagAbsentGoes ==
    ASSUME NEW r \in ReaderType, NEW a
    PROVE  Goes(r, EnterTagAbsent(r, a), "tag_absent")
<1> DEFINE p == Enter(r, "tag_absent")
           t == startDiscovery(p, a)
           q == [t EXCEPT !.poll = TRUE]
<1>1. Goes(r, p, "tag_absent") /\ p \in ReaderType /\ p.state = "tag_absent"
    BY EnterGoes, AllLeaves DEF Goes, Mild
<1>2. EnterTagAbsent(r, a) \in {Send(t, "reinit"), q}
    BY DEF EnterTagAbsent
<1> HIDE DEF p
<1>3. Goes(p, t, "tag_absent") /\ t \in ReaderType /\ t.state = "tag_absent"
    BY <1>1, StartDiscoveryGoes DEF Goes, Mild
<1> HIDE DEF t
<1>4. Goes(t, Send(t, "reinit"), "tag_absent")
    BY <1>3, HarmlessEvents, GoesSend
<1>5. q \in ReaderType
    BY <1>3 DEF ReaderType
<1>6. /\ q.state = t.state /\ q.inserted = t.inserted /\ q.assumed = t.assumed
      /\ q.bay = t.bay /\ q.tags = t.tags /\ q.data = t.data /\ q.queue = t.queue
    BY <1>3 DEF ReaderType
<1> HIDE DEF q
<1>7. Goes(t, q, "tag_absent")
    BY <1>3, <1>5, <1>6, GoesAlike
<1> QED
    BY <1>1, <1>2, <1>3, <1>4, <1>7, GoesTrans

(* heartbeat. *)
LEMMA HeartbeatGoes ==
    ASSUME NEW r \in ReaderType, NEW a
    PROVE  Goes(r, EnterHeartbeat(r, a), "send_closed")
<1> DEFINE t == [r EXCEPT !.heartbeat = TRUE]
           p == takeInhibitor(t)
           q == writeCommand(Enter(p, "send_closed"), "closed", a)
<1>1. EnterHeartbeat(r, a) = q
    BY DEF EnterHeartbeat, EnterSendClosed
<1>2. t \in ReaderType
    BY DEF ReaderType
<1>3. /\ t.state = r.state /\ t.inserted = r.inserted /\ t.assumed = r.assumed
      /\ t.bay = r.bay /\ t.tags = r.tags /\ t.data = r.data /\ t.queue = r.queue
    BY DEF ReaderType
<1> HIDE DEF t
<1>4. Goes(r, t, r.state)
    BY <1>2, <1>3, GoesAlike
<1>5. Goes(t, p, t.state) /\ p \in ReaderType
    BY <1>2, InhibitorGoes DEF Goes, Mild
<1> HIDE DEF p
<1>6. Goes(p, q, "send_closed")
    BY <1>5, CommandGoes, AllLeaves
<1> HIDE DEF q
<1> QED
    BY <1>1, <1>4, <1>5, <1>6, GoesTrans

(* wait_update. *)
LEMMA StopTimerGoes ==
    ASSUME NEW r \in ReaderType
    PROVE  Goes(r, StopTimerIfBatteryEmpty(r), r.state)
<1>1. CASE ~r.data.empty
    BY <1>1, GoesSame DEF StopTimerIfBatteryEmpty
<1>2. CASE r.data.empty
    <2> DEFINE data == [r.data EXCEPT !.state = "inactive"]
               t == [r EXCEPT !.heartbeat = FALSE, !.data = data]
    <2>1. StopTimerIfBatteryEmpty(r) = sendStatusUpdate(t, r.data.state = "inactive")
        BY <1>2 DEF StopTimerIfBatteryEmpty, ReaderType
    <2>2. data \in DataType /\ data.dated = r.data.dated
        BY DEF ReaderType, DataType
    <2> HIDE DEF data
    <2>3. t \in ReaderType
        BY <2>2, ZenonT(60) DEF ReaderType
    <2>4. /\ t.state = r.state /\ t.inserted = r.inserted /\ t.assumed = r.assumed
          /\ t.bay = r.bay /\ t.tags = r.tags /\ t.queue = r.queue /\ t.data = data
        BY DEF ReaderType
    <2> HIDE DEF t
    <2>5. Honest(r) => Honest(t)
        BY <1>2, <2>2, <2>4 DEF Honest, Runs
    <2>6. Goes(r, t, r.state)
        BY <2>3, <2>4, <2>5 DEF Goes, Mild, Runs, Has
    <2>7. Goes(t, sendStatusUpdate(t, r.data.state = "inactive"), r.state)
        BY <2>3, <2>4, StatusUpdateGoes
    <2> QED
        BY <2>1, <2>6, <2>7, GoesTrans
<1> QED
    BY <1>1, <1>2

LEMMA WaitUpdateGoes ==
    ASSUME NEW r \in ReaderType
    PROVE  Goes(r, EnterWaitUpdate(r), "wait_update")
<1> DEFINE e == Enter(r, "wait_update")
           t == [e EXCEPT !.timer = FALSE]
           u == StopTimerIfBatteryEmpty(t)
           v == releaseInhibitor(u)
<1>1. Goes(r, e, "wait_update") /\ e \in ReaderType /\ e.state = "wait_update"
    BY EnterGoes, AllLeaves DEF Goes, Mild
<1>2. EnterWaitUpdate(r) \in {v, Send(v, "admission_poll")}
    BY DEF EnterWaitUpdate
<1> HIDE DEF e
<1>3. t \in ReaderType
    BY <1>1 DEF ReaderType
<1>4. /\ t.state = "wait_update" /\ t.inserted = e.inserted /\ t.assumed = e.assumed
      /\ t.bay = e.bay /\ t.tags = e.tags /\ t.data = e.data /\ t.queue = e.queue
    BY <1>1 DEF ReaderType
<1> HIDE DEF t
<1>5. Goes(e, t, "wait_update")
    BY <1>3, <1>4, GoesAlike
<1>6. Goes(t, u, "wait_update") /\ u \in ReaderType /\ u.state = "wait_update"
    BY <1>3, <1>4, StopTimerGoes DEF Goes, Mild
<1> HIDE DEF u
<1>7. Goes(u, v, "wait_update") /\ v \in ReaderType /\ v.state = "wait_update"
    BY <1>6, InhibitorGoes DEF Goes, Mild
<1> HIDE DEF v
<1>8. Goes(v, Send(v, "admission_poll"), "wait_update")
    BY <1>7, HarmlessEvents, GoesSend
<1>9. Goes(r, v, "wait_update")
    BY <1>1, <1>5, <1>6, <1>7, GoesTrans
<1> QED
    BY <1>2, <1>8, <1>9, GoesTrans

(* cond_state_ok. *)
LEMMA StateOKGoes ==
    ASSUME NEW r \in ReaderType, NEW a
    PROVE  \E leaf \in {"send_inserted_closed", "wait_update"} : Goes(r, CondStateOK(r, a), leaf)
<1> DEFINE s == [r EXCEPT !.tags = "none"]
           t == [s EXCEPT !.spent = @ + 1]
           u == Send(t, "reinit")
<1>1. CondStateOK(r, a) \in {writeCommand(Enter(r, "send_inserted_closed"), "inserted", a),
                              EnterWaitUpdate(s), EnterWaitUpdate(u)}
    BY DEF CondStateOK
<1>2. Goes(r, writeCommand(Enter(r, "send_inserted_closed"), "inserted", a),
           "send_inserted_closed")
    BY CommandGoes, AllLeaves
<1>3. s \in ReaderType
    BY DEF ReaderType
<1>4. /\ s.state = r.state /\ s.inserted = r.inserted /\ s.assumed = r.assumed
      /\ s.bay = r.bay /\ s.tags = "none" /\ s.data = r.data /\ s.queue = r.queue
    BY DEF ReaderType
<1> HIDE DEF s
<1>5. Goes(r, s, r.state)
    BY <1>3, <1>4, GoesAlike
<1>6. Goes(s, t, r.state)
    BY <1>3, <1>4, CountGoes
<1> HIDE DEF t
<1>7. t \in ReaderType /\ t.state = r.state
    BY <1>6 DEF Goes, Mild
<1>8. Goes(t, u, r.state) /\ u \in ReaderType
    BY <1>7, HarmlessEvents, GoesSend DEF Goes, Mild
<1> HIDE DEF u
<1>9. Goes(s, EnterWaitUpdate(s), "wait_update") /\ Goes(u, EnterWaitUpdate(u), "wait_update")
    BY <1>3, <1>8, WaitUpdateGoes
<1>10. /\ Goes(r, EnterWaitUpdate(s), "wait_update")
       /\ Goes(r, EnterWaitUpdate(u), "wait_update")
    BY <1>5, <1>6, <1>8, <1>9, GoesTrans
<1> QED
    BY <1>1, <1>2, <1>10

(* readStatusAction. *)
LEMMA ReadActionGoes ==
    ASSUME NEW r \in ReaderType, NEW a \in scene.outcomes, Runs(r) => ~r.bay.empty
    PROVE  Goes(r, readStatusAction(r, a), r.state)
<1> DEFINE s == readStatus(r, a)
<1>1. Goes(r, s, r.state) /\ s \in ReaderType /\ s.state = r.state
    BY ReadStatusGoes DEF Goes, Mild
<1>2. s.failures = r.failures /\ r.failures \in 0..(MaxFailures - 1)
    BY ReadStatusKept DEF Kept, ReaderType
<1>3. readStatusAction(r, a) =
          IF ~ReadFails(r, a) THEN [s EXCEPT !.failures = 0]
          ELSE IF r.failures + 1 >= MaxFailures THEN Send([s EXCEPT !.failures = 0], "restart")
          ELSE [s EXCEPT !.failures = @ + 1]
    BY DEF readStatusAction
<1> HIDE DEF s
<1>4. ASSUME NEW n \in 0..(MaxFailures - 1)
      PROVE  Goes(r, [s EXCEPT !.failures = n], r.state)
    <2> DEFINE q == [s EXCEPT !.failures = n]
    <2>1. q \in ReaderType
        BY <1>1 DEF ReaderType
    <2>2. /\ q.state = r.state /\ q.inserted = s.inserted /\ q.assumed = s.assumed
          /\ q.bay = s.bay /\ q.tags = s.tags /\ q.data = s.data /\ q.queue = s.queue
        BY <1>1 DEF ReaderType
    <2> HIDE DEF q
    <2>3. Goes(s, q, r.state)
        BY <2>1, <2>2, GoesAlike
    <2>4. Goes(r, q, r.state)
        BY <1>1, <2>3, GoesTrans
    <2> QED
        BY <2>4 DEF q
<1> DEFINE p == [s EXCEPT !.failures = 0]
<1>5. Goes(r, p, r.state)
    <2>1. 0 \in 0..(MaxFailures - 1)
        BY BoundsAssumption
    <2> QED
        BY <1>4, <2>1
<1>6. \/ readStatusAction(r, a) = p
      \/ readStatusAction(r, a) = Send(p, "restart")
      \/ /\ readStatusAction(r, a) = [s EXCEPT !.failures = r.failures + 1]
         /\ r.failures + 1 \in 0..(MaxFailures - 1)
    <2>1. [s EXCEPT !.failures = @ + 1] = [s EXCEPT !.failures = r.failures + 1]
        BY <1>1, <1>2 DEF ReaderType
    <2>2. r.failures + 1 >= MaxFailures \/ r.failures + 1 \in 0..(MaxFailures - 1)
        BY <1>2, BoundsAssumption
    <2>3. readStatusAction(r, a) =
              IF ~ReadFails(r, a) THEN p
              ELSE IF r.failures + 1 >= MaxFailures THEN Send(p, "restart")
              ELSE [s EXCEPT !.failures = r.failures + 1]
        BY <1>3, <2>1
    <2> HIDE DEF p
    <2> QED
        BY <2>2, <2>3
<1> HIDE DEF p
<1>7. Goes(p, Send(p, "restart"), r.state)
    BY <1>5, HarmlessEvents, GoesSend DEF Goes, Mild
<1>8. Goes(r, Send(p, "restart"), r.state)
    BY <1>5, <1>7, GoesTrans
<1> QED
    BY <1>4, <1>5, <1>6, <1>8

(* What is known in every leaf: a pack that runs is in the bay and is not  *)
(* selected in vain, and no event says that it is off.                     *)
Sound(r) ==
    /\ Runs(r) => r.bay.in /\ ~r.bay.empty /\ r.tags # "lost"
    /\ InOrder(r.queue)
    /\ Has(r, "off_confirmed_inactive") => ~Runs(r)

(* A pack that has just been inserted is not believed off while it runs. *)
Fine(r) == r.inserted => Honest(r)

(* And in the leaves of a present tag. *)
Placed(r) ==
    /\ r.state \in Heartbeat => ~r.inserted
    /\ r.state \in TagPresent => Fine(r)
    /\ r.state \in OpenLoop /\ Runs(r) => r.assumed

Rests(r) == Sound(r) /\ Placed(r)

LEMMA MildSound ==
    ASSUME NEW r, NEW q, Mild(r, q), Sound(r)
    PROVE  Sound(q)
BY DEF Mild, Sound, Watched

LEMMA GoesRests ==
    ASSUME NEW r, NEW q, NEW leaf, Goes(r, q, leaf),
           Sound(r), Fine(r),
           leaf \in Heartbeat => ~r.inserted,
           leaf \in OpenLoop /\ Runs(r) => r.assumed
    PROVE  Rests(q)
<1>1. Sound(q)
    BY MildSound DEF Goes
<1> QED
    BY <1>1 DEF Goes, Mild, Rests, Placed, Fine

LEMMA OutsideRests ==
    ASSUME NEW r, NEW q, NEW leaf, Goes(r, q, leaf),
           Sound(r), leaf \notin TagPresent
    PROVE  Rests(q)
<1>1. Sound(q)
    BY MildSound DEF Goes
<1> QED
    BY <1>1, AllLeaves DEF Goes, Rests, Placed

(* Flags that the machine sets between the leaves. *)
LEMMA InsertedMild ==
    ASSUME NEW r \in ReaderType, NEW v \in BOOLEAN
    PROVE  /\ Mild(r, [r EXCEPT !.inserted = v]) /\ [r EXCEPT !.inserted = v].inserted = v
           /\ [r EXCEPT !.inserted = v].state = r.state
           /\ [r EXCEPT !.inserted = v].assumed = r.assumed
           /\ Goes(r, [r EXCEPT !.pending = v], r.state)
<1> DEFINE p == [r EXCEPT !.inserted = v]
           q == [r EXCEPT !.pending = v]
<1>1. p \in ReaderType /\ q \in ReaderType
    BY DEF ReaderType
<1>2. /\ p.state = r.state /\ p.inserted = v /\ p.assumed = r.assumed
      /\ p.bay = r.bay /\ p.tags = r.tags /\ p.data = r.data /\ p.queue = r.queue
    BY DEF ReaderType
<1>3. /\ q.state = r.state /\ q.inserted = r.inserted /\ q.assumed = r.assumed
      /\ q.bay = r.bay /\ q.tags = r.tags /\ q.data = r.data /\ q.queue = r.queue
    BY DEF ReaderType
<1> HIDE DEF p, q
<1>4. Mild(r, p) /\ Goes(r, q, r.state)
    BY <1>1, <1>2, <1>3, MildAlike, GoesAlike
<1> QED
    BY <1>2, <1>4 DEF p, q

LEMMA LeaveMild ==
    ASSUME NEW r \in ReaderType
    PROVE  /\ Mild(r, Leave(r)) /\ Leave(r).inserted = r.inserted
           /\ Mild(r, LeaveTag(r)) /\ LeaveTag(r).inserted = r.inserted
<1> DEFINE heartbeat == r.heartbeat /\ r.state \notin Heartbeat
           inhibitor == r.inhibitor /\ r.state \notin Heartbeat \cup Discovering
           l == [r EXCEPT !.timer = FALSE, !.poll = FALSE, !.probe = FALSE,
                   !.assumed = FALSE, !.heartbeat = heartbeat, !.inhibitor = inhibitor]
           pending == l.pending /\ r.state \notin TagPresent
           t == [l EXCEPT !.pending = pending]
<1>1. Leave(r) = l /\ LeaveTag(r) = t
    BY DEF Leave, LeaveTag, ReaderType
<1>2. heartbeat \in BOOLEAN /\ inhibitor \in BOOLEAN
    BY DEF ReaderType
<1> HIDE DEF heartbeat, inhibitor
<1>3. l \in ReaderType
    BY <1>2, LeaveFields
<1>4. /\ l.inserted = r.inserted /\ l.bay = r.bay /\ l.tags = r.tags /\ l.data = r.data
      /\ l.queue = r.queue
    BY DEF ReaderType
<1> HIDE DEF l
<1>5. t \in ReaderType
    <2>1. pending \in BOOLEAN
        BY <1>3 DEF ReaderType
    <2> HIDE DEF pending
    <2> QED
        BY <1>3, <2>1 DEF ReaderType
<1>6. /\ t.inserted = l.inserted /\ t.bay = l.bay /\ t.tags = l.tags /\ t.data = l.data
      /\ t.queue = l.queue
    BY <1>3 DEF ReaderType
<1> HIDE DEF t
<1>7. Mild(r, l) /\ Mild(r, t)
    BY <1>3, <1>4, <1>5, <1>6, MildAlike
<1> QED
    BY <1>1, <1>4, <1>6, <1>7

(* tag_present: what is believed of the pack stays as true as it was. *)
LEMMA PresentRests ==
    ASSUME NEW r \in ReaderType, NEW a, NEW b, Sound(r), Fine(r)
    PROVE  Rests(EnterTagPresent(r, a, b))
<1> DEFINE t == takeInhibitor(r)
           u == readStatus(t, a)
           v == releaseInhibitor(u)
           w == [v EXCEPT !.failures = 0]
           p == Enter(v, "check_presence")
           q == [p EXCEPT !.probe = TRUE]
           end == writeCommand(q, "inserted", b)
<1>1. EnterTagPresent(r, a, b) = IF ~ReadFails(r, a) THEN EnterWaitLastCmd(w) ELSE end
    BY DEF EnterTagPresent
<1>2. Goes(r, t, r.state) /\ t \in ReaderType
    BY InhibitorGoes DEF Goes, Mild
<1>3. t.bay = r.bay
    BY DEF takeInhibitor, ReaderType
<1> HIDE DEF t
<1>4. Runs(t) => ~t.bay.empty
    BY <1>3 DEF Sound, Runs
<1>5. Goes(t, u, t.state) /\ u \in ReaderType
    BY <1>2, <1>4, ReadStatusGoes DEF Goes, Mild
<1> HIDE DEF u
<1>6. Goes(u, v, u.state) /\ v \in ReaderType
    BY <1>5, InhibitorGoes DEF Goes, Mild
<1> HIDE DEF v
<1>7. Mild(r, v) /\ v.inserted = r.inserted
    BY <1>2, <1>5, <1>6, MildTrans DEF Goes
<1>8. Sound(v) /\ Fine(v)
    BY <1>7, MildSound DEF Mild, Fine
<1>9. Rests(EnterWaitLastCmd(w))
    <2>1. 0 \in 0..(MaxFailures - 1)
        BY BoundsAssumption
    <2>2. w \in ReaderType
        BY <1>6, <2>1 DEF ReaderType
    <2>3. /\ w.state = v.state /\ w.inserted = v.inserted /\ w.assumed = v.assumed
          /\ w.bay = v.bay /\ w.tags = v.tags /\ w.data = v.data /\ w.queue = v.queue
        BY <1>6 DEF ReaderType
    <2> HIDE DEF w
    <2>4. Goes(v, w, v.state)
        BY <2>2, <2>3, GoesAlike
    <2>5. Sound(w) /\ Fine(w)
        BY <1>8, <2>4, MildSound DEF Goes, Mild, Fine
    <2>6. Goes(w, EnterWaitLastCmd(w), "wait_last_cmd")
        BY <2>2, QuietGoes
    <2>7. "wait_last_cmd" \notin Heartbeat \cup OpenLoop
        BY DEF Heartbeat, OpenLoop
    <2> QED
        BY <2>5, <2>6, <2>7, GoesRests
<1>10. Rests(end)
    <2>1. "check_presence" \in Leaves
        BY AllLeaves
    <2>2. Goes(v, p, "check_presence")
        BY <1>6, <2>1, EnterGoes
    <2> HIDE DEF p
    <2>3. p \in ReaderType /\ p.state = "check_presence"
        BY <2>2 DEF Goes, Mild
    <2>4. q \in ReaderType
        BY <2>3 DEF ReaderType
    <2>5. /\ q.state = p.state /\ q.inserted = p.inserted /\ q.assumed = p.assumed
          /\ q.bay = p.bay /\ q.tags = p.tags /\ q.data = p.data /\ q.queue = p.queue
        BY <2>3 DEF ReaderType
    <2> HIDE DEF q
    <2>6. Goes(p, q, "check_presence")
        BY <2>3, <2>4, <2>5, GoesAlike
    <2>7. q.state = "check_presence"
        BY <2>3, <2>5
    <2>8. Goes(q, end, "check_presence")
        BY <2>4, <2>7, WriteCommandGoes
    <2> HIDE DEF end
    <2>9. Goes(v, end, "check_presence")
        BY <2>2, <2>6, <2>8, GoesTrans
    <2>10. "check_presence" \notin Heartbeat \cup OpenLoop
        BY DEF Heartbeat, OpenLoop
    <2> QED
        BY <1>8, <2>9, <2>10, GoesRests
<1> QED
    BY <1>1, <1>9, <1>10

(* cond_just_inserted and cond_off: a pack that was just inserted and is   *)
(* believed off is off, or was taken for off without a fresh frame.        *)
LEMMA JustInsertedRests ==
    ASSUME NEW r \in ReaderType, NEW a, Sound(r), Fine(r)
    PROVE  Rests(CondJustInserted(r, a))
<1> DEFINE p == [r EXCEPT !.inserted = FALSE]
           o == EnterSendOpened(r, a)
           v == r.data.state = "unknown" \/ r.data.dated
           q == [o EXCEPT !.assumed = v]
<1>1. CASE CondJustInserted(r, a) = EnterHeartbeat(p, a)
    <2>1. Mild(r, p) /\ ~p.inserted
        BY InsertedMild
    <2> HIDE DEF p
    <2>2. Goes(p, EnterHeartbeat(p, a), "send_closed")
        BY <2>1, HeartbeatGoes DEF Mild
    <2>3. "send_closed" \notin OpenLoop
        BY DEF OpenLoop
    <2>4. Sound(p) /\ Fine(p)
        BY <2>1, MildSound DEF Fine
    <2> QED
        BY <1>1, <2>1, <2>2, <2>3, <2>4, GoesRests
<1>2. CASE CondJustInserted(r, a) = q /\ r.inserted /\ IsInactive(r)
    <2>1. Goes(r, o, "send_opened") /\ o \in ReaderType
        BY CommandGoes, AllLeaves DEF EnterSendOpened, Goes, Mild
    <2> HIDE DEF o
    <2>2. v \in BOOLEAN
        BY DEF ReaderType, DataType
    <2>3. Runs(r) => v
        <3>1. r.data.state \in {"unknown", "active", "inactive"}
            BY DEF ReaderType, DataType
        <3> QED
            BY <1>2, <3>1 DEF Fine, Honest, IsInactive
    <2> HIDE DEF v
    <2>4. q \in ReaderType
        BY <2>1, <2>2 DEF ReaderType
    <2>5. /\ q.state = o.state /\ q.inserted = o.inserted /\ q.assumed = v
          /\ q.bay = o.bay /\ q.tags = o.tags /\ q.data = o.data /\ q.queue = o.queue
        BY <2>1, <2>2 DEF ReaderType
    <2> HIDE DEF q
    <2>6. Mild(r, q) /\ q.state = "send_opened" /\ q.inserted = r.inserted
        BY <2>1, <2>4, <2>5, MildAlike, MildTrans DEF Goes
    <2>7. Sound(q) /\ Fine(q) /\ (Runs(q) => q.assumed)
        BY <2>3, <2>5, <2>6, MildSound DEF Fine, Mild
    <2>8. "send_opened" \notin Heartbeat
        BY DEF Heartbeat
    <2> QED
        BY <1>2, <2>6, <2>7, <2>8 DEF Rests, Placed
<1>3. CASE CondJustInserted(r, a) = EnterSendOff(r, a)
    <2>1. Goes(r, EnterSendOff(r, a), "send_off")
        BY CommandGoes, AllLeaves DEF EnterSendOff
    <2>2. "send_off" \notin Heartbeat \cup OpenLoop
        BY DEF Heartbeat, OpenLoop
    <2> QED
        BY <1>3, <2>1, <2>2, GoesRests
<1> QED
    BY <1>1, <1>2, <1>3 DEF CondJustInserted

(* cond_seatbox_lock. *)
LEMMA SeatboxLockRests ==
    ASSUME NEW r \in ReaderType, NEW a, Sound(r), Fine(r)
    PROVE  Rests(CondSeatboxLock(r, a))
<1> DEFINE p == [r EXCEPT !.inserted = FALSE]
           t == releaseInhibitor(r)
<1>1. CASE policy.closed
    <2>1. CondSeatboxLock(r, a) = EnterHeartbeat(p, a)
        BY <1>1 DEF CondSeatboxLock
    <2>2. Mild(r, p) /\ ~p.inserted
        BY InsertedMild
    <2> HIDE DEF p
    <2>3. Goes(p, EnterHeartbeat(p, a), "send_closed")
        BY <2>2, HeartbeatGoes DEF Mild
    <2>4. "send_closed" \notin OpenLoop
        BY DEF OpenLoop
    <2>5. Sound(p) /\ Fine(p)
        BY <2>2, MildSound DEF Fine
    <2> QED
        BY <2>1, <2>2, <2>3, <2>4, <2>5, GoesRests
<1>2. CASE ~policy.closed
    <2>1. CondSeatboxLock(r, a) = CondJustInserted(t, a)
        BY <1>2 DEF CondSeatboxLock
    <2>2. Goes(r, t, r.state)
        BY InhibitorGoes
    <2> HIDE DEF t
    <2>3. t \in ReaderType /\ Sound(t) /\ Fine(t)
        BY <2>2, MildSound DEF Goes, Mild, Fine
    <2> QED
        BY <2>1, <2>3, JustInsertedRests
<1> QED
    BY <1>1, <1>2

(* read_off_status: only a fresh frame says that the pack is off, and no   *)
(* timeout of send_closed is queued before that word.                      *)
LEMMA ReadOffRests ==
    ASSUME NEW r \in ReaderType, NEW a, Sound(r), Fine(r),
           ~Has(r, "closed_timeout")
    PROVE  Rests(EnterReadOffStatus(r, a))
<1> DEFINE e == Enter(r, "read_off_status")
           u == readStatus(e, a)
<1>1. EnterReadOffStatus(r, a) =
          IF a = "dropped" THEN u
          ELSE Send(u, IF FreshlyInactive(r, u, a) THEN "off_confirmed_inactive" ELSE "off_retry")
    BY DEF EnterReadOffStatus
<1>2. Goes(r, e, "read_off_status") /\ e \in ReaderType
    BY EnterGoes, AllLeaves DEF Goes, Mild
<1>3. e.tags = r.tags /\ e.bay = r.bay /\ e.state = "read_off_status"
    BY DEF Enter, ReaderType
<1> HIDE DEF e
<1>4. Runs(e) => ~e.bay.empty
    BY <1>3 DEF Sound, Runs
<1>5. (ReadFails(e, a) <=> ReadFails(r, a)) /\ Answer(e, a) = Answer(r, a)
    BY <1>3 DEF ReadFails, Answer
<1>6. /\ Goes(e, u, "read_off_status")
      /\ ~ReadFails(e, a) /\ Answer(e, a) # "zero" /\ u.data.state = "inactive" => ~Runs(u)
    BY <1>2, <1>3, <1>4, ReadStatusGoes
<1> HIDE DEF u
<1>7. Goes(r, u, "read_off_status") /\ u \in ReaderType /\ u.state = "read_off_status"
    BY <1>2, <1>6, GoesTrans DEF Goes, Mild
<1>8. Sound(u) /\ Fine(u) /\ ~Has(u, "closed_timeout")
    BY <1>7, MildSound DEF Goes, Mild, Fine, Watched
<1>9. "read_off_status" \notin Heartbeat \cup OpenLoop
    BY DEF Heartbeat, OpenLoop
<1>10. Rests(u)
    BY <1>7, <1>9, GoesRests
<1>11. Rests(Send(u, "off_retry"))
    <2>1. Goes(u, Send(u, "off_retry"), "read_off_status")
        BY <1>7, HarmlessEvents, GoesSend
    <2>2. Goes(r, Send(u, "off_retry"), "read_off_status")
        BY <1>7, <2>1, GoesTrans
    <2> QED
        BY <1>9, <2>2, GoesRests
<1>12. ASSUME FreshlyInactive(r, u, a)
       PROVE  Rests(Send(u, "off_confirmed_inactive"))
    <2> DEFINE q == Send(u, "off_confirmed_inactive")
    <2>1. ~Runs(u)
        BY <1>5, <1>6, <1>12 DEF FreshlyInactive
    <2>2. "off_confirmed_inactive" \in ReaderEvents
        BY Events
    <2>3. /\ q \in ReaderType /\ q.queue = Append(u.queue, "off_confirmed_inactive")
          /\ q.state = u.state /\ q.inserted = u.inserted /\ q.assumed = u.assumed
          /\ q.bay = u.bay /\ q.tags = u.tags /\ q.data = u.data
          /\ \A g : Has(q, g) => g = "off_confirmed_inactive" \/ Has(u, g)
        BY <1>7, <2>2, SendFields
    <2> HIDE DEF q
    <2>4. InOrder(q.queue)
        <3>1. u.queue \in Seq(ReaderEvents)
            BY <1>7 DEF ReaderType
        <3>2. \A k \in 1..Len(u.queue) : u.queue[k] # "closed_timeout"
            BY <1>8 DEF Has
        <3>3. InOrder(u.queue)
            BY <1>8 DEF Sound
        <3> QED
            BY <2>2, <2>3, <3>1, <3>2, <3>3, AppendOrder
    <2>5. ~Runs(q) /\ Honest(q)
        BY <2>1, <2>3 DEF Runs, Honest
    <2>6. Sound(q)
        BY <1>8, <2>3, <2>4, <2>5 DEF Sound
    <2>7. Placed(q)
        BY <1>7, <1>9, <2>3, <2>5 DEF Placed, Fine
    <2> QED
        BY <2>6, <2>7 DEF Rests, q
<1> QED
    BY <1>1, <1>10, <1>11, <1>12

(* The end of a search, and a cancelled receive. *)
LEMMA DepartureGoes ==
    ASSUME NEW r \in ReaderType
    PROVE  Goes(r, handleDeparture(r), r.state)
<1> DEFINE bay == [r.bay EXCEPT !.known = FALSE]
           u == [r EXCEPT !.seen = FALSE, !.tags = "none", !.bay = bay]
           t == [u EXCEPT !.fresh = "confirmed", !.early = FALSE, !.data = NoData]
           same == FALSE
<1>1. /\ bay \in BayType /\ bay.empty = r.bay.empty /\ bay.state = r.bay.state
      /\ bay.in = r.bay.in
    BY DEF ReaderType, BayType
<1>2. handleDeparture(r) = sendStatusUpdate(t, same)
    <2>1. [r EXCEPT !.seen = FALSE, !.tags = "none", !.bay.known = FALSE,
                    !.fresh = "confirmed", !.early = FALSE, !.data = NoData] = t
        BY DEF ReaderType
    <2> QED
        BY <2>1 DEF handleDeparture
<1> HIDE DEF bay, same
<1>3. u \in ReaderType
    BY <1>1 DEF ReaderType
<1>4. /\ u.state = r.state /\ u.inserted = r.inserted /\ u.assumed = r.assumed
      /\ u.bay = bay /\ u.tags = "none" /\ u.data = r.data /\ u.queue = r.queue
    BY DEF ReaderType
<1> HIDE DEF u
<1>5. NoData \in DataType /\ ~NoData.empty /\ NoData.state = "unknown"
    BY DEF NoData, DataType
<1>6. t \in ReaderType
    BY <1>3, <1>5 DEF ReaderType
<1>7. /\ t.state = u.state /\ t.inserted = u.inserted /\ t.assumed = u.assumed
      /\ t.bay = u.bay /\ t.tags = u.tags /\ t.data = NoData /\ t.queue = u.queue
    BY <1>3 DEF ReaderType
<1> HIDE DEF t
<1>8. Goes(r, t, r.state)
    BY <1>1, <1>4, <1>5, <1>6, <1>7 DEF Goes, Mild, Runs, Honest, Has
<1>9. Goes(t, sendStatusUpdate(t, same), r.state)
    BY <1>4, <1>6, <1>7, StatusUpdateGoes
<1> QED
    BY <1>2, <1>8, <1>9, GoesTrans

LEMMA HeardGoes ==
    ASSUME NEW r \in ReaderType, NEW n \in Nat
    PROVE  Goes(r, HeardAt(r, n), r.state)
<1> DEFINE q == HeardAt(r, n)
<1>1. q \in ReaderType
    BY DEF HeardAt, ReaderType
<1>2. /\ q.state = r.state /\ q.inserted = r.inserted /\ q.assumed = r.assumed
      /\ q.bay = r.bay /\ q.tags = r.tags /\ q.data = r.data /\ q.queue = r.queue
    BY DEF HeardAt, ReaderType
<1> HIDE DEF q
<1>3. Goes(r, q, r.state)
    BY <1>1, <1>2, GoesAlike
<1> QED
    BY <1>3 DEF q

LEMMA FinishGoes ==
    ASSUME NEW r \in ReaderType, NEW a
    PROVE  Goes(r, FinishDiscovery(r, a), r.state)
<1> DEFINE t == [r EXCEPT !.spent = @ + 1]
           n == IF r.bay.in THEN r.spent ELSE r.spent + 1
           h == HeardAt(r, n)
           q == FinishDiscovery(r, a)
<1>1. q \in {r, handleDeparture(r), handleDeparture(t), h}
    <2>1. [r EXCEPT !.unsure = TRUE, !.noise = TRUE,
                    !.spent = IF r.bay.in THEN @ ELSE @ + 1] = h
        BY DEF ReaderType, HeardAt
    <2> HIDE DEF h
    <2> QED
        BY <2>1 DEF FinishDiscovery
<1>2. n \in Nat
    BY DEF ReaderType
<1> HIDE DEF n, q
<1>3. Goes(r, h, r.state)
    BY <1>2, HeardGoes
<1>4. Goes(r, handleDeparture(r), r.state)
    BY DepartureGoes
<1>5. Goes(r, t, r.state)
    BY CountGoes
<1> HIDE DEF t, h
<1>6. t \in ReaderType /\ t.state = r.state
    BY <1>5 DEF Goes, Mild
<1>7. Goes(t, handleDeparture(t), r.state)
    BY <1>6, DepartureGoes
<1>8. Goes(r, q, r.state)
    BY <1>1, <1>3, <1>4, <1>5, <1>7, GoesSame, GoesTrans
<1> QED
    BY <1>8 DEF q

-----------------------------------------------------------------------------
(* What holds whenever an event is taken. *)
Calm ==
    reader \in ReaderType /\ Rests(reader)

Stays(q) == Rests(q)

LEMMA BecomesStays ==
    ASSUME NEW q, Becomes(q), Stays(q)
    PROVE  Stays(reader')
BY DEF Becomes, Stays

LEMMA TailOrder ==
    ASSUME NEW s \in Seq(ReaderEvents), s # <<>>, InOrder(s)
    PROVE  /\ InOrder(Tail(s))
           /\ \A k \in 1..Len(Tail(s)) : \E m \in 1..Len(s) : s[m] = Tail(s)[k]
           /\ Head(s) = "off_timeout"
              => \A k \in 1..Len(Tail(s)) : Tail(s)[k] # "closed_timeout"
           /\ Head(s) = "closed_timeout"
              => \A k \in 1..Len(Tail(s)) : Tail(s)[k] # "off_confirmed_inactive"
<1> DEFINE t == Tail(s)
<1>1. /\ Len(s) \in Nat /\ 1 \in 1..Len(s) /\ Head(s) = s[1]
      /\ \A k \in 1..Len(t) : k \in Nat /\ k + 1 \in 1..Len(s) /\ t[k] = s[k + 1]
    OBVIOUS
<1> HIDE DEF t
<1>2. InOrder(t)
    <2> SUFFICES ASSUME NEW m \in 1..Len(t), NEW n \in 1..Len(t), m < n
                 PROVE  /\ ~(t[m] = "off_timeout" /\ t[n] = "closed_timeout")
                        /\ ~(t[m] = "closed_timeout" /\ t[n] = "off_confirmed_inactive")
        BY DEF InOrder
    <2>1. /\ m + 1 \in 1..Len(s) /\ n + 1 \in 1..Len(s) /\ m + 1 < n + 1
          /\ t[m] = s[m + 1] /\ t[n] = s[n + 1]
        BY <1>1
    <2> QED
        BY <2>1 DEF InOrder
<1>3. ASSUME NEW k \in 1..Len(t)
      PROVE  /\ ~(s[1] = "off_timeout" /\ t[k] = "closed_timeout")
             /\ ~(s[1] = "closed_timeout" /\ t[k] = "off_confirmed_inactive")
             /\ \E m \in 1..Len(s) : s[m] = t[k]
    <2>1. 1 < k + 1 /\ k + 1 \in 1..Len(s) /\ t[k] = s[k + 1]
        BY <1>1
    <2> QED
        BY <1>1, <2>1 DEF InOrder
<1> QED
    BY <1>1, <1>2, <1>3 DEF t

(* The event at the head of the queue is taken. *)
LEMMA TakenCalm ==
    ASSUME NEW t, Calm, reader.queue # <<>>, t = Taken
    PROVE  /\ t \in ReaderType /\ Goes(reader, t, reader.state)
           /\ Sound(t) /\ Placed(t)
           /\ t.state = reader.state /\ t.inserted = reader.inserted
           /\ t.data = reader.data /\ t.bay = reader.bay
           /\ Head(reader.queue) = "off_timeout" => ~Has(t, "closed_timeout")
           /\ Head(reader.queue) = "closed_timeout" => ~Has(t, "off_confirmed_inactive")
<1> DEFINE Q == Tail(reader.queue)
<1>1. t = [reader EXCEPT !.queue = Q] /\ reader.queue \in Seq(ReaderEvents)
    BY DEF Taken, Calm, ReaderType
<1>2. reader \in ReaderType
    BY DEF Calm
<1>3. InOrder(reader.queue)
    BY DEF Calm, Rests, Sound
<1>4. /\ InOrder(Q)
      /\ \A k \in 1..Len(Q) : \E m \in 1..Len(reader.queue) : reader.queue[m] = Q[k]
      /\ Head(reader.queue) = "off_timeout" => \A k \in 1..Len(Q) : Q[k] # "closed_timeout"
      /\ Head(reader.queue) = "closed_timeout"
         => \A k \in 1..Len(Q) : Q[k] # "off_confirmed_inactive"
    BY <1>1, <1>3, TailOrder
<1>5. Q \in Seq(ReaderEvents)
    BY <1>1, TailFacts
<1> HIDE DEF Q
<1>6. t \in ReaderType /\ t.queue = Q
    BY <1>1, <1>2, <1>5, ZenonT(60) DEF ReaderType
<1>7. /\ t.state = reader.state /\ t.inserted = reader.inserted /\ t.assumed = reader.assumed
      /\ t.bay = reader.bay /\ t.tags = reader.tags /\ t.data = reader.data
    BY <1>1, <1>2 DEF ReaderType
<1>8. \A e : Has(t, e) => Has(reader, e)
    BY <1>4, <1>6 DEF Has
<1>9. Goes(reader, t, reader.state)
    BY <1>4, <1>6, <1>7, <1>8 DEF Goes, Mild, Runs, Honest
<1>10. Sound(t)
    BY <1>9, MildSound DEF Goes, Calm, Rests
<1>11. Placed(t)
    BY <1>7 DEF Calm, Rests, Placed, Fine, Honest, Runs
<1>12. /\ Head(reader.queue) = "off_timeout" => ~Has(t, "closed_timeout")
       /\ Head(reader.queue) = "closed_timeout" => ~Has(t, "off_confirmed_inactive")
    BY <1>4, <1>6 DEF Has
<1> QED
    BY <1>6, <1>7, <1>9, <1>10, <1>11, <1>12

(* ... and the leaf is left. *)
LEMMA LeftCalm ==
    ASSUME Calm, reader.queue # <<>>
    PROVE  /\ Leave(Taken) \in ReaderType /\ Sound(Leave(Taken))
           /\ Leave(Taken).inserted = reader.inserted
           /\ Fine(reader) => Fine(Leave(Taken))
           /\ LeaveTag(Taken) \in ReaderType /\ Sound(LeaveTag(Taken))
           /\ Fine(reader) => Fine(LeaveTag(Taken))
<1> DEFINE t == Taken
<1>1. /\ t \in ReaderType /\ Goes(reader, t, reader.state)
      /\ Sound(t) /\ t.inserted = reader.inserted
    BY TakenCalm
<1> HIDE DEF t
<1>2. /\ Mild(t, Leave(t)) /\ Leave(t).inserted = t.inserted
      /\ Mild(t, LeaveTag(t)) /\ LeaveTag(t).inserted = t.inserted
    BY <1>1, LeaveMild
<1>3. Mild(reader, Leave(t)) /\ Mild(reader, LeaveTag(t))
    BY <1>1, <1>2, MildTrans DEF Goes
<1>4. Sound(Leave(t)) /\ Sound(LeaveTag(t))
    BY <1>1, <1>2, MildSound
<1>5. Fine(reader) => Fine(Leave(t)) /\ Fine(LeaveTag(t))
    BY <1>1, <1>2, <1>3 DEF Fine, Mild
<1> QED
    BY <1>1, <1>2, <1>4, <1>5 DEF Mild, t

(* The machine leaves the tag, or searches for one. *)
LEMMA OutsideStays ==
    ASSUME Calm, NEW p, NEW q, NEW leaf, Becomes(q), Goes(p, q, leaf),
           Sound(p), leaf \notin TagPresent
    PROVE  Stays(reader')
<1>1. Stays(q)
    BY OutsideRests DEF Stays
<1> QED
    BY <1>1, BecomesStays

LEMMA OutsideLeaves ==
    {"nfc_reader_off", "wait_arrival", "tag_absent"} \cap TagPresent = {}
BY DEF TagPresent, Heartbeat, OpenLoop

LEMMA InitCompleteStays ==
    ASSUME Calm, NEW a, NEW b, InitComplete(a, b)
    PROVE  Stays(reader')
<1> DEFINE p == Taken
           q == EnterReaderOn(p, a, b)
<1>1. Becomes(q) /\ reader.queue # <<>>
    BY DEF InitComplete, Receives
<1>2. p \in ReaderType /\ Sound(p)
    BY <1>1, TakenCalm
<1> HIDE DEF p
<1>3. Goes(p, q, "wait_arrival")
    BY <1>2, ReaderOnGoes
<1> QED
    BY <1>1, <1>2, <1>3, OutsideLeaves, OutsideStays

LEMMA ReinitStays ==
    ASSUME Calm, NEW a, NEW b, Reinit(a, b)
    PROVE  Stays(reader')
<1> DEFINE p == Leave(Taken)
           t == LeaveTag(Taken)
<1>1. reader.queue # <<>> /\ (Becomes(EnterReaderOn(p, a, b)) \/ Becomes(EnterReaderOff(t)))
    BY DEF Reinit, Receives
<1>2. /\ p \in ReaderType /\ Sound(p)
      /\ t \in ReaderType /\ Sound(t)
    BY <1>1, LeftCalm
<1> HIDE DEF p, t
<1>3. Goes(p, EnterReaderOn(p, a, b), "wait_arrival")
    BY <1>2, ReaderOnGoes
<1>4. Goes(t, EnterReaderOff(t), "nfc_reader_off")
    BY <1>2, QuietGoes
<1> QED
    BY <1>1, <1>2, <1>3, <1>4, OutsideLeaves, OutsideStays

LEMMA TagDepartedStays ==
    ASSUME Calm, NEW a, TagDeparted(a)
    PROVE  Stays(reader')
<1> DEFINE p == Leave(Taken)
           t == LeaveTag(Taken)
<1>1. reader.queue # <<>> /\ (Becomes(EnterTagAbsent(p, a)) \/ Becomes(EnterDiscover(t, a)))
    BY DEF TagDeparted, Receives
<1>2. /\ p \in ReaderType /\ Sound(p)
      /\ t \in ReaderType /\ Sound(t)
    BY <1>1, LeftCalm
<1> HIDE DEF p, t
<1>3. Goes(p, EnterTagAbsent(p, a), "tag_absent")
    BY <1>2, TagAbsentGoes
<1>4. Goes(t, EnterDiscover(t, a), "wait_arrival")
    BY <1>2, DiscoverEntryGoes
<1> QED
    BY <1>1, <1>2, <1>3, <1>4, OutsideLeaves, OutsideStays

LEMMA DepartureTimeoutStays ==
    ASSUME Calm, NEW a, DepartureTimeout(a)
    PROVE  Stays(reader')
<1> DEFINE p == Leave(Taken)
<1>1. reader.queue # <<>> /\ Becomes(EnterTagAbsent(p, a))
    BY DEF DepartureTimeout, Receives
<1>2. p \in ReaderType /\ Sound(p)
    BY <1>1, LeftCalm
<1> HIDE DEF p
<1>3. Goes(p, EnterTagAbsent(p, a), "tag_absent")
    BY <1>2, TagAbsentGoes
<1> QED
    BY <1>1, <1>2, <1>3, OutsideLeaves, OutsideStays

LEMMA CheckReaderTimeoutStays ==
    ASSUME Calm, NEW a, NEW c, CheckReaderTimeout(a, c)
    PROVE  Stays(reader')
<1> DEFINE l == Leave(Taken)
           n == IF l.bay.in THEN l.spent ELSE l.spent + 1
           h == HeardAt(l, n)
           heard == IF c = "quiet" THEN l ELSE [Cancelled(l, c) EXCEPT !.noise = TRUE]
           p == FinishDiscovery(heard, a)
<1>1. Becomes(EnterReaderOff(p)) /\ reader.queue # <<>>
    <2>1. heard = IF c = "quiet" THEN Cancelled(l, c)
                  ELSE [Cancelled(l, c) EXCEPT !.noise = TRUE]
        BY DEF Cancelled
    <2> HIDE DEF l
    <2>2. Becomes(EnterReaderOff(FinishDiscovery(
              IF c = "quiet" THEN Cancelled(l, c)
              ELSE [Cancelled(l, c) EXCEPT !.noise = TRUE], a)))
        BY DEF CheckReaderTimeout, l
    <2> HIDE DEF heard
    <2>3. Becomes(EnterReaderOff(FinishDiscovery(heard, a)))
        BY <2>1, <2>2
    <2> QED
        BY <2>3 DEF CheckReaderTimeout, Receives
<1>2. l \in ReaderType /\ Sound(l)
    BY <1>1, LeftCalm
<1> HIDE DEF l
<1>3. n \in Nat
    BY <1>2 DEF ReaderType
<1>4. heard \in {l, h}
    <2>1. c # "quiet" => Cancelled(l, c) = h
        BY <1>2 DEF Cancelled, HeardAt, ReaderType
    <2>2. [h EXCEPT !.noise = TRUE] = h
        BY <1>2 DEF HeardAt, ReaderType
    <2> QED
        BY <2>1, <2>2
<1>5. Goes(l, h, l.state) /\ Goes(l, l, l.state)
    BY <1>2, <1>3, HeardGoes, GoesSame
<1> HIDE DEF n, h
<1>6. Goes(l, heard, l.state) /\ heard \in ReaderType
    BY <1>4, <1>5 DEF Goes, Mild
<1> HIDE DEF heard
<1>7. Goes(heard, p, heard.state) /\ p \in ReaderType
    BY <1>6, FinishGoes DEF Goes, Mild
<1> HIDE DEF p
<1>8. Goes(p, EnterReaderOff(p), "nfc_reader_off")
    BY <1>7, QuietGoes
<1>9. Sound(p)
    BY <1>2, <1>6, <1>7, MildSound DEF Goes
<1> QED
    BY <1>1, <1>8, <1>9, OutsideLeaves, OutsideStays

(* A tag that arrives or comes back, and the presence check. *)
LEMMA PresentFine ==
    ASSUME Calm, reader.state \in TagPresent
    PROVE  Fine(reader)
BY DEF Calm, Rests, Placed

LEMMA TagArrivedStays ==
    ASSUME Calm, NEW a \in scene.outcomes, NEW b, TagArrived(a, b)
    PROVE  Stays(reader')
<1> DEFINE l == Leave(Taken)
           data == [l.data EXCEPT !.dated = TRUE]
           p == [l EXCEPT !.inserted = TRUE, !.data = data]
           t == LeaveTag(Taken)
<1>0. reader.queue # <<>>
    BY DEF TagArrived, Receives
<1>2. /\ l \in ReaderType /\ Sound(l)
      /\ t \in ReaderType /\ Sound(t)
    BY <1>0, LeftCalm
<1>1. Becomes(EnterTagPresent(p, a, b)) \/ Becomes(EnterDiscover(t, a))
    <2>1. [l EXCEPT !.inserted = TRUE, !.data.dated = TRUE] = p
        BY <1>2 DEF ReaderType
    <2> HIDE DEF p
    <2>2. \/ Becomes(EnterTagPresent([l EXCEPT !.inserted = TRUE, !.data.dated = TRUE], a, b))
          \/ Becomes(EnterDiscover(t, a))
        BY DEF TagArrived
    <2> QED
        BY <2>1, <2>2
<1> HIDE DEF l, t
<1>3. data \in DataType /\ data.dated
    BY <1>2 DEF ReaderType, DataType
<1> HIDE DEF data
<1>4. p \in ReaderType /\ Sound(p) /\ Fine(p)
    <2>1. p \in ReaderType
        BY <1>2, <1>3, ZenonT(60) DEF ReaderType
    <2>2. p.bay = l.bay /\ p.tags = l.tags /\ p.queue = l.queue /\ p.data = data
        BY <1>2 DEF ReaderType
    <2> HIDE DEF p
    <2> QED
        BY <1>2, <1>3, <2>1, <2>2 DEF Sound, Fine, Honest, Runs, Has
<1> HIDE DEF p
<1>5. Stays(EnterTagPresent(p, a, b))
    BY <1>4, PresentRests DEF Stays
<1>6. Goes(t, EnterDiscover(t, a), "wait_arrival")
    BY <1>2, DiscoverEntryGoes
<1> QED
    BY <1>1, <1>2, <1>5, <1>6, OutsideLeaves, OutsideStays, BecomesStays

LEMMA RestartStays ==
    ASSUME Calm, NEW a \in scene.outcomes, NEW b, Restart(a, b)
    PROVE  Stays(reader')
<1>1. CASE /\ Receives("restart", TagPresent \ {"check_presence"})
           /\ Becomes(EnterTagPresent(LeaveTag(Taken), a, b))
    <2> DEFINE t == LeaveTag(Taken)
    <2>1. /\ reader.queue # <<>> /\ Becomes(EnterTagPresent(t, a, b))
          /\ reader.state \in TagPresent
        BY <1>1 DEF Receives
    <2>2. t \in ReaderType /\ Sound(t) /\ Fine(t)
        BY <2>1, LeftCalm, PresentFine
    <2> HIDE DEF t
    <2>3. Stays(EnterTagPresent(t, a, b))
        BY <2>2, PresentRests DEF Stays
    <2> QED
        BY <2>1, <2>3, BecomesStays
<1>2. CASE /\ Receives("restart", {"tag_absent"})
           /\ LET s == startDiscovery(Taken, a)
              IN  Becomes(IF a \in NoSearch THEN Send(s, "reinit") ELSE s)
    <2> DEFINE t == Taken
               p == startDiscovery(t, a)
               q == IF a \in NoSearch THEN Send(p, "reinit") ELSE p
    <2>1. Becomes(q) /\ reader.queue # <<>> /\ reader.state = "tag_absent"
        BY <1>2 DEF Receives
    <2>2. t \in ReaderType /\ Sound(t) /\ t.state = "tag_absent"
        BY <2>1, TakenCalm
    <2> HIDE DEF t
    <2>3. Goes(t, p, "tag_absent")
        BY <2>2, StartDiscoveryGoes
    <2> HIDE DEF p
    <2>4. Goes(p, Send(p, "reinit"), "tag_absent")
        BY <2>3, HarmlessEvents, GoesSend DEF Goes, Mild
    <2>5. Goes(t, q, "tag_absent")
        BY <2>3, <2>4, GoesTrans
    <2> HIDE DEF q
    <2> QED
        BY <2>1, <2>2, <2>5, OutsideLeaves, OutsideStays
<1> QED
    BY <1>1, <1>2 DEF Restart

LEMMA CheckPresenceEndsStays ==
    ASSUME Calm, NEW a \in scene.outcomes, NEW b, CheckPresenceEnds(a, b)
    PROVE  Stays(reader')
<1> DEFINE p == Leave(Taken)
<1>1. /\ reader.queue # <<>> /\ Becomes(EnterTagPresent(p, a, b))
      /\ reader.state \in TagPresent
    BY DEF CheckPresenceEnds, Receives, TagPresent
<1>2. p \in ReaderType /\ Sound(p) /\ Fine(p)
    BY <1>1, LeftCalm, PresentFine
<1> HIDE DEF p
<1>3. Stays(EnterTagPresent(p, a, b))
    BY <1>2, PresentRests DEF Stays
<1> QED
    BY <1>1, <1>3, BecomesStays

(* The seatbox. *)
LEMMA HeadHas ==
    ASSUME reader \in ReaderType, reader.queue # <<>>
    PROVE  Has(reader, Head(reader.queue))
<1>1. reader.queue \in Seq(ReaderEvents)
    BY DEF ReaderType
<1>2. 1 \in 1..Len(reader.queue) /\ reader.queue[1] = Head(reader.queue)
    BY <1>1
<1> QED
    BY <1>2 DEF Has

LEMMA SeatboxClosedStays ==
    ASSUME Calm, SeatboxClosed
    PROVE  Stays(reader')
<1> DEFINE p == Leave(Taken)
<1>1. /\ reader.queue # <<>> /\ Becomes(EnterWaitLastCmd(p))
      /\ reader.state \in TagPresent
    BY DEF SeatboxClosed, Receives
<1>4. p \in ReaderType /\ Sound(p) /\ Fine(p)
    BY <1>1, LeftCalm, PresentFine
<1> HIDE DEF p
<1>5. Goes(p, EnterWaitLastCmd(p), "wait_last_cmd")
    BY <1>4, QuietGoes
<1>6. "wait_last_cmd" \notin Heartbeat \cup OpenLoop
    BY DEF Heartbeat, OpenLoop
<1>7. Stays(EnterWaitLastCmd(p))
    BY <1>4, <1>5, <1>6, GoesRests DEF Stays
<1> QED
    BY <1>1, <1>7, BecomesStays

(* A leaf of the heartbeat. *)
LEMMA HeartbeatFine ==
    ASSUME Calm, reader.state \in Heartbeat
    PROVE  Fine(reader) /\ ~reader.inserted
BY DEF Calm, Rests, Placed, Fine

LEMMA SeatboxOpenedStays ==
    ASSUME Calm, NEW a, SeatboxOpened(a)
    PROVE  Stays(reader')
<1> DEFINE p == Leave(Taken)
<1>1. /\ reader.queue # <<>> /\ Becomes(CondJustInserted(p, a))
      /\ reader.state \in Heartbeat
    BY DEF SeatboxOpened, Receives
<1>2. p \in ReaderType /\ Sound(p) /\ Fine(p)
    BY <1>1, HeartbeatFine, LeftCalm
<1> HIDE DEF p
<1>3. Stays(CondJustInserted(p, a))
    BY <1>2, JustInsertedRests DEF Stays
<1> QED
    BY <1>1, <1>3, BecomesStays

LEMMA LastCmdTimeoutStays ==
    ASSUME Calm, NEW a, LastCmdTimeout(a)
    PROVE  Stays(reader')
<1> DEFINE p == Leave(Taken)
<1>1. /\ reader.queue # <<>> /\ Becomes(CondSeatboxLock(p, a))
      /\ reader.state = "wait_last_cmd"
    BY DEF LastCmdTimeout, Receives
<1>2. Fine(reader)
    <2>1. "wait_last_cmd" \in TagPresent
        BY DEF TagPresent
    <2> QED
        BY <1>1, <2>1 DEF Calm, Rests, Placed
<1>3. p \in ReaderType /\ Sound(p) /\ Fine(p)
    BY <1>1, <1>2, LeftCalm
<1> HIDE DEF p
<1>4. Stays(CondSeatboxLock(p, a))
    BY <1>3, SeatboxLockRests DEF Stays
<1> QED
    BY <1>1, <1>4, BecomesStays

(* The heartbeat. *)
LEMMA BeatStays ==
    ASSUME NEW p \in ReaderType, NEW q, NEW leaf \in Heartbeat, Goes(p, q, leaf),
           Sound(p), ~p.inserted, Becomes(q)
    PROVE  Stays(reader')
<1>1. Fine(p) /\ leaf \notin OpenLoop
    BY AllLeaves DEF Fine
<1>2. Stays(q)
    BY <1>1, GoesRests DEF Stays
<1> QED
    BY <1>2, BecomesStays

LEMMA HeartbeatLeaves ==
    {"send_closed", "send_on_off", "wait_update", "send_inserted_closed"} = Heartbeat
BY DEF Heartbeat

LEMMA HeartbeatTimeoutStays ==
    ASSUME Calm, NEW a, HeartbeatTimeout(a)
    PROVE  Stays(reader')
<1> DEFINE l == Leave(Taken)
           lost == reader.state = "wait_update" /\ ~CheckStateCorrect(reader)
           p == IF lost THEN Send(l, "tag_departed") ELSE l
           q == EnterHeartbeat(p, a)
<1>1. Becomes(q) /\ reader.queue # <<>> /\ reader.state \in Heartbeat
    BY DEF HeartbeatTimeout, Receives
<1>2. l \in ReaderType /\ Sound(l) /\ ~l.inserted
    BY <1>1, HeartbeatFine, LeftCalm
<1> HIDE DEF l, lost
<1>3. Goes(l, Send(l, "tag_departed"), l.state) /\ Goes(l, l, l.state)
    BY <1>2, HarmlessEvents, GoesSend, GoesSame
<1>4. Goes(l, p, l.state)
    BY <1>3
<1> HIDE DEF p
<1>5. p \in ReaderType /\ Sound(p) /\ ~p.inserted
    BY <1>2, <1>4, MildSound DEF Goes, Mild
<1>6. Goes(p, q, "send_closed")
    BY <1>5, HeartbeatGoes
<1> HIDE DEF q
<1> QED
    BY <1>1, <1>5, <1>6, HeartbeatLeaves, BeatStays

LEMMA AdmissionPollStays ==
    ASSUME Calm, NEW a, AdmissionPoll(a)
    PROVE  Stays(reader')
<1> DEFINE l == Leave(Taken)
           p == [l EXCEPT !.pending = FALSE]
           q == EnterHeartbeat(p, a)
<1>1. Becomes(q) /\ reader.queue # <<>> /\ reader.state \in Heartbeat
    BY HeartbeatLeaves DEF AdmissionPoll, Receives
<1>2. l \in ReaderType /\ Sound(l) /\ ~l.inserted
    BY <1>1, HeartbeatFine, LeftCalm
<1> HIDE DEF l
<1>3. Goes(l, p, l.state)
    BY <1>2, InsertedMild
<1> HIDE DEF p
<1>4. p \in ReaderType /\ Sound(p) /\ ~p.inserted
    BY <1>2, <1>3, MildSound DEF Goes, Mild
<1>5. Goes(p, q, "send_closed")
    BY <1>4, HeartbeatGoes
<1> HIDE DEF q
<1> QED
    BY <1>1, <1>4, <1>5, HeartbeatLeaves, BeatStays

LEMMA OnOffTimeoutStays ==
    ASSUME Calm, NEW a \in scene.outcomes, NEW b, OnOffTimeout(a, b)
    PROVE  Stays(reader')
<1> DEFINE t == Taken
           p == readStatusAction(t, a)
           q == CondStateOK(p, b)
<1>1. Becomes(q) /\ reader.queue # <<>> /\ reader.state \in Heartbeat
    BY HeartbeatLeaves DEF OnOffTimeout, Receives
<1>2. t \in ReaderType /\ Sound(t) /\ ~t.inserted
    BY <1>1, HeartbeatFine, TakenCalm
<1> HIDE DEF t
<1>3. Goes(t, p, t.state)
    BY <1>2, ReadActionGoes DEF Sound
<1> HIDE DEF p
<1>4. p \in ReaderType /\ Sound(p) /\ ~p.inserted
    BY <1>2, <1>3, MildSound DEF Goes, Mild
<1>5. PICK leaf \in {"send_inserted_closed", "wait_update"} : Goes(p, q, leaf)
    BY <1>4, StateOKGoes
<1> HIDE DEF q
<1>6. leaf \in Heartbeat
    BY HeartbeatLeaves
<1> QED
    BY <1>1, <1>4, <1>5, <1>6, BeatStays

LEMMA InsertedClosedTimeoutStays ==
    ASSUME Calm, NEW a, InsertedClosedTimeout(a)
    PROVE  Stays(reader')
<1> DEFINE t == Taken
           q == EnterSendClosed(t, a)
<1>1. Becomes(q) /\ reader.queue # <<>> /\ reader.state \in Heartbeat
    BY HeartbeatLeaves DEF InsertedClosedTimeout, Receives
<1>2. t \in ReaderType /\ Sound(t) /\ ~t.inserted
    BY <1>1, HeartbeatFine, TakenCalm
<1> HIDE DEF t
<1>3. Goes(t, q, "send_closed")
    BY <1>2, CommandGoes, AllLeaves DEF EnterSendClosed
<1> HIDE DEF q
<1> QED
    BY <1>1, <1>2, <1>3, HeartbeatLeaves, BeatStays

(* The pack is switched on, or off: nobody else has just said that it is   *)
(* off, for that word would be queued behind the timeout.                  *)
LEMMA ClosedTimeoutStays ==
    ASSUME Calm, NEW a, ClosedTimeout(a)
    PROVE  Stays(reader')
<1> DEFINE t == Taken
           p == Enter(t, "send_on_off")
           cmd == OnOrOff(reader)
           q == writeCommand(p, cmd, a)
<1>1. /\ Becomes(q) /\ reader.queue # <<>> /\ Head(reader.queue) = "closed_timeout"
      /\ reader.state \in Heartbeat
    BY HeartbeatLeaves DEF ClosedTimeout, Receives
<1>2. /\ t \in ReaderType /\ Sound(t) /\ ~t.inserted
      /\ ~Has(t, "off_confirmed_inactive")
    BY <1>1, HeartbeatFine, TakenCalm
<1> HIDE DEF t, cmd
<1>4. "send_on_off" \in Leaves
    BY AllLeaves
<1>5. Goes(t, p, "send_on_off")
    BY <1>2, <1>4, EnterGoes
<1> HIDE DEF p
<1>6. /\ p \in ReaderType /\ Sound(p) /\ ~p.inserted
      /\ ~Has(p, "off_confirmed_inactive") /\ p.state = "send_on_off"
    BY <1>2, <1>5, MildSound DEF Goes, Mild, Watched
<1>7. CASE cmd # "on"
    <2>1. Goes(p, q, "send_on_off")
        BY <1>6, <1>7, WriteCommandGoes
    <2> HIDE DEF q
    <2> QED
        BY <1>1, <1>6, <2>1, HeartbeatLeaves, BeatStays
<1>8. CASE cmd = "on"
    <2>1. /\ q.state = p.state /\ q.inserted = p.inserted /\ q.bay.in = p.bay.in
          /\ InOrder(p.queue) => InOrder(q.queue)
          /\ \A e \in Watched : Has(q, e) => Has(p, e)
          /\ Runs(q) => \/ Runs(p) /\ (q.tags = "lost" => p.tags = "lost")
                        \/ q.bay.in /\ q.tags = "none"
        BY <1>6, WriteCommandGoes
    <2>2. Kept(p, q)
        BY <1>6, WriteCommandKept
    <2> HIDE DEF q
    <2>3. Runs(q) => ~q.bay.empty
        BY <1>6, <2>2 DEF Kept, Runs, Sound
    <2>4. Runs(q) => q.bay.in /\ q.tags # "lost"
        BY <1>6, <2>1 DEF Sound
    <2>5. Sound(q)
        BY <1>6, <1>8, <2>1, <2>3, <2>4 DEF Sound, Watched
    <2>6. Placed(q)
        <3>1. ~q.inserted /\ q.state \in Heartbeat /\ q.state \notin OpenLoop
            BY <1>6, <2>1, HeartbeatLeaves, AllLeaves
        <3> QED
            BY <3>1 DEF Placed, Fine
    <2>7. Stays(q)
        BY <2>5, <2>6 DEF Stays, Rests
    <2> QED
        BY <1>1, <2>7, BecomesStays
<1> QED
    BY <1>7, <1>8

(* The pack is switched off, and its status read. *)
LEMMA OffLeavesFine ==
    ASSUME Calm, reader.state \in {"send_off", "read_off_status"} \cup OpenLoop
    PROVE  Fine(reader)
<1>1. reader.state \in TagPresent
    BY DEF TagPresent, OpenLoop
<1> QED
    BY <1>1, PresentFine

LEMMA OffTimeoutStays ==
    ASSUME Calm, NEW a, OffTimeout(a)
    PROVE  Stays(reader')
<1> DEFINE t == Taken
           q == EnterReadOffStatus(t, a)
<1>1. /\ Becomes(q) /\ reader.queue # <<>> /\ Head(reader.queue) = "off_timeout"
      /\ reader.state = "send_off"
    BY DEF OffTimeout, Receives
<1>2. Fine(reader)
    BY <1>1, OffLeavesFine
<1>3. /\ t \in ReaderType /\ Sound(t) /\ ~Has(t, "closed_timeout")
      /\ Goes(reader, t, reader.state)
    BY <1>1, TakenCalm
<1> HIDE DEF t
<1>4. Fine(t)
    BY <1>2, <1>3 DEF Goes, Mild, Fine
<1>5. Stays(q)
    BY <1>3, <1>4, ReadOffRests DEF Stays
<1> QED
    BY <1>1, <1>5, BecomesStays

(* The pack is off: so says the event, which only a fresh frame sends. *)
LEMMA OffConfirmedInactiveStays ==
    ASSUME Calm, NEW a, OffConfirmedInactive(a)
    PROVE  Stays(reader')
<1> DEFINE t == Taken
           q == EnterSendOpened(t, a)
<1>1. /\ Becomes(q) /\ reader.queue # <<>>
      /\ Head(reader.queue) = "off_confirmed_inactive"
      /\ reader.state = "read_off_status"
    BY DEF OffConfirmedInactive, Receives
<1>2. Fine(reader)
    BY <1>1, OffLeavesFine
<1>3. Has(reader, "off_confirmed_inactive")
    BY <1>1, HeadHas DEF Calm
<1>4. ~Runs(reader)
    BY <1>3 DEF Calm, Rests, Sound
<1>5. /\ t \in ReaderType /\ Sound(t)
      /\ Goes(reader, t, reader.state)
    BY <1>1, TakenCalm
<1> HIDE DEF t
<1>6. Fine(t) /\ ~Runs(t)
    BY <1>2, <1>4, <1>5 DEF Goes, Mild, Fine
<1>7. Goes(t, q, "send_opened")
    BY <1>5, CommandGoes, AllLeaves DEF EnterSendOpened
<1> HIDE DEF q
<1>8. "send_opened" \notin Heartbeat
    BY DEF Heartbeat
<1>9. Stays(q)
    BY <1>5, <1>6, <1>7, <1>8, GoesRests DEF Stays
<1> QED
    BY <1>1, <1>9, BecomesStays

LEMMA OffRetryStays ==
    ASSUME Calm, NEW a, OffRetry(a)
    PROVE  Stays(reader')
<1> DEFINE t == Taken
           q == EnterSendOff(t, a)
<1>1. Becomes(q) /\ reader.queue # <<>> /\ reader.state = "read_off_status"
    BY DEF OffRetry, Receives
<1>2. Fine(reader)
    BY <1>1, OffLeavesFine
<1>3. /\ t \in ReaderType /\ Sound(t)
      /\ Goes(reader, t, reader.state)
    BY <1>1, TakenCalm
<1> HIDE DEF t
<1>4. Fine(t)
    BY <1>2, <1>3 DEF Goes, Mild, Fine
<1>5. Goes(t, q, "send_off")
    BY <1>3, CommandGoes, AllLeaves DEF EnterSendOff
<1> HIDE DEF q
<1>6. "send_off" \notin Heartbeat \cup OpenLoop
    BY DEF Heartbeat, OpenLoop
<1>7. Stays(q)
    BY <1>3, <1>4, <1>5, <1>6, GoesRests DEF Stays
<1> QED
    BY <1>1, <1>7, BecomesStays

(* The open loop goes round with a pack that is off. *)
LEMMA OpenStays ==
    ASSUME NEW p \in ReaderType, NEW q, NEW leaf \in OpenLoop, Goes(p, q, leaf),
           Sound(p), Fine(p), Runs(p) => p.assumed, Becomes(q)
    PROVE  Stays(reader')
<1>1. leaf \notin Heartbeat
    BY AllLeaves
<1>2. Stays(q)
    BY <1>1, GoesRests DEF Stays
<1> QED
    BY <1>2, BecomesStays

LEMMA OpenTaken ==
    ASSUME NEW t, Calm, reader.queue # <<>>, reader.state \in OpenLoop, t = Taken
    PROVE  /\ t \in ReaderType /\ Sound(t) /\ Fine(t)
           /\ Runs(t) => t.assumed
<1>1. Fine(reader)
    BY OffLeavesFine
<1>2. Runs(reader) => reader.assumed
    BY DEF Calm, Rests, Placed
<1>3. /\ t \in ReaderType /\ Sound(t)
      /\ Goes(reader, t, reader.state)
    BY TakenCalm
<1> QED
    BY <1>1, <1>2, <1>3 DEF Goes, Mild, Fine

LEMMA OpenedTimeoutStays ==
    ASSUME Calm, NEW a, OpenedTimeout(a)
    PROVE  Stays(reader')
<1> DEFINE t == Taken
           q == writeCommand(Enter(t, "send_inserted_open"), "inserted", a)
<1>1. Becomes(q) /\ reader.queue # <<>> /\ reader.state \in OpenLoop
    BY DEF OpenedTimeout, Receives, OpenLoop
<1>2. /\ t \in ReaderType /\ Sound(t) /\ Fine(t)
      /\ Runs(t) => t.assumed
    BY <1>1, OpenTaken
<1> HIDE DEF t
<1>3. Goes(t, q, "send_inserted_open")
    BY <1>2, CommandGoes, AllLeaves
<1> HIDE DEF q
<1>4. "send_inserted_open" \in OpenLoop
    BY DEF OpenLoop
<1> QED
    BY <1>1, <1>2, <1>3, <1>4, OpenStays

LEMMA InsertedOpenTimeoutStays ==
    ASSUME Calm, NEW a \in scene.outcomes, NEW b, InsertedOpenTimeout(a, b)
    PROVE  Stays(reader')
<1> DEFINE t == Taken
           u == [t EXCEPT !.inserted = FALSE]
           p == readStatusAction(u, a)
           l == Leave(p)
           q == EnterHeartbeat(l, b)
           o == EnterSendOpened(p, b)
<1>1. /\ reader.queue # <<>> /\ reader.state \in OpenLoop
      /\ Becomes(q) \/ Becomes(o)
    <2>1. reader.queue # <<>> /\ reader.state \in OpenLoop
        BY DEF InsertedOpenTimeout, Receives, OpenLoop
    <2>2. Becomes(IF KeepActive THEN q ELSE o)
        BY DEF InsertedOpenTimeout
    <2> HIDE DEF q, o
    <2> QED
        BY <2>1, <2>2
<1>2. /\ t \in ReaderType /\ Sound(t) /\ Fine(t)
      /\ Runs(t) => t.assumed
    BY <1>1, OpenTaken
<1> HIDE DEF t
<1>3. Mild(t, u) /\ ~u.inserted /\ u.assumed = t.assumed
    BY <1>2, InsertedMild
<1> HIDE DEF u
<1>4. /\ u \in ReaderType /\ Sound(u) /\ (Runs(u) => u.assumed)
    BY <1>2, <1>3, MildSound DEF Mild
<1>5. Goes(u, p, u.state)
    BY <1>4, ReadActionGoes DEF Sound
<1> HIDE DEF p
<1>6. /\ p \in ReaderType /\ Sound(p) /\ (Runs(p) => p.assumed)
      /\ ~p.inserted
    BY <1>3, <1>4, <1>5, MildSound DEF Goes, Mild
<1>7. CASE Becomes(o)
    <2>1. Goes(p, o, "send_opened")
        BY <1>6, CommandGoes, AllLeaves DEF EnterSendOpened
    <2> HIDE DEF o
    <2>2. "send_opened" \in OpenLoop /\ Fine(p)
        BY <1>6 DEF OpenLoop, Fine
    <2> QED
        BY <1>6, <1>7, <2>1, <2>2, OpenStays
<1>8. CASE Becomes(q)
    <2>1. Mild(p, l) /\ l.inserted = p.inserted
        BY <1>6, LeaveMild
    <2> HIDE DEF l
    <2>2. l \in ReaderType /\ Sound(l) /\ ~l.inserted
        BY <1>6, <2>1, MildSound DEF Mild
    <2>3. Goes(l, q, "send_closed")
        BY <2>2, HeartbeatGoes
    <2> HIDE DEF q
    <2> QED
        BY <1>8, <2>2, <2>3, HeartbeatLeaves, BeatStays
<1> QED
    BY <1>1, <1>7, <1>8

LEMMA IgnoreStays ==
    ASSUME Calm, Ignore
    PROVE  Stays(reader')
<1> DEFINE t == Taken
<1>1. Becomes(t) /\ reader.queue # <<>>
    BY DEF Ignore
<1>2. Sound(t) /\ Placed(t)
    BY <1>1, TakenCalm
<1> HIDE DEF t
<1>3. Stays(t)
    BY <1>2 DEF Stays, Rests
<1> QED
    BY <1>1, <1>3, BecomesStays

(* The machine. *)
LEMMA MachineStays ==
    ASSUME Calm, Machine(scene.outcomes)
    PROVE  Stays(reader')
<1>1. CASE Ignore
    BY <1>1, IgnoreStays
<1>2. CASE SeatboxClosed
    BY <1>2, SeatboxClosedStays
<1>3. CASE ~Ignore /\ ~SeatboxClosed
    <2>1. PICK a \in scene.outcomes :
              \/ TagDeparted(a) \/ SeatboxOpened(a) \/ HeartbeatTimeout(a)
              \/ AdmissionPoll(a) \/ DepartureTimeout(a) \/ LastCmdTimeout(a)
              \/ ClosedTimeout(a) \/ InsertedClosedTimeout(a) \/ OffTimeout(a)
              \/ OffConfirmedInactive(a) \/ OffRetry(a) \/ OpenedTimeout(a)
              \/ \E c \in {"quiet", "heard"} : CheckReaderTimeout(a, c)
              \/ \E b \in scene.outcomes :
                    \/ InitComplete(a, b) \/ Reinit(a, b) \/ TagArrived(a, b)
                    \/ Restart(a, b) \/ CheckPresenceEnds(a, b) \/ OnOffTimeout(a, b)
                    \/ InsertedOpenTimeout(a, b)
        BY <1>3 DEF Machine
    <2>2. CASE \/ TagDeparted(a) \/ SeatboxOpened(a) \/ HeartbeatTimeout(a)
               \/ AdmissionPoll(a) \/ DepartureTimeout(a) \/ LastCmdTimeout(a)
        BY <2>2, TagDepartedStays, SeatboxOpenedStays, HeartbeatTimeoutStays,
           AdmissionPollStays, DepartureTimeoutStays, LastCmdTimeoutStays
    <2>3. CASE \/ ClosedTimeout(a) \/ InsertedClosedTimeout(a) \/ OffTimeout(a)
               \/ OffConfirmedInactive(a) \/ OffRetry(a) \/ OpenedTimeout(a)
        BY <2>3, ClosedTimeoutStays, InsertedClosedTimeoutStays, OffTimeoutStays,
           OffConfirmedInactiveStays, OffRetryStays, OpenedTimeoutStays
    <2>4. CASE \E c \in {"quiet", "heard"} : CheckReaderTimeout(a, c)
        BY <2>4, CheckReaderTimeoutStays
    <2>5. ASSUME NEW b \in scene.outcomes,
                 \/ InitComplete(a, b) \/ Reinit(a, b) \/ TagArrived(a, b)
                 \/ Restart(a, b) \/ CheckPresenceEnds(a, b) \/ OnOffTimeout(a, b)
                 \/ InsertedOpenTimeout(a, b)
          PROVE  Stays(reader')
        BY <2>5, InitCompleteStays, ReinitStays, TagArrivedStays, RestartStays,
           CheckPresenceEndsStays, OnOffTimeoutStays, InsertedOpenTimeoutStays
    <2> QED
        BY <2>1, <2>2, <2>3, <2>4, <2>5
<1> QED
    BY <1>1, <1>2, <1>3

-----------------------------------------------------------------------------
(* The other goroutines, and the world. *)

LEMMA GoesStays ==
    ASSUME Calm, NEW q, Goes(reader, q, reader.state)
    PROVE  Stays(q)
<1>1. Sound(q)
    BY MildSound DEF Goes, Calm, Rests
<1>2. Placed(q)
    BY DEF Calm, Rests, Placed, Fine, Goes, Mild
<1> QED
    BY <1>1, <1>2 DEF Stays, Rests

LEMMA SpendsStays ==
    ASSUME Calm, NEW r, NEW n \in Nat, Spends(r, n), Goes(reader, r, reader.state)
    PROVE  Stays(reader')
<1> DEFINE q == [r EXCEPT !.spent = @ + n]
<1>1. Becomes(q)
    BY DEF Spends
<1>2. r \in ReaderType /\ r.state = reader.state
    BY DEF Goes, Mild
<1>3. Goes(r, q, reader.state)
    BY <1>2, CountGoes
<1> HIDE DEF q
<1>4. Goes(reader, q, reader.state)
    BY <1>3, GoesTrans
<1> QED
    BY <1>1, <1>4, GoesStays, BecomesStays

(* Flags of the goroutines. *)
LEMMA FlagGoes ==
    ASSUME NEW r \in ReaderType, NEW v \in BOOLEAN,
           NEW q \in {[r EXCEPT !.timer = v], [r EXCEPT !.heartbeat = v],
                      [r EXCEPT !.early = v], [r EXCEPT !.quiet = v], [r EXCEPT !.poll = v],
                      [r EXCEPT !.probe = v], [r EXCEPT !.reserved = v],
                      [r EXCEPT !.redis = v], [r EXCEPT !.pending = v]}
    PROVE  Goes(r, q, r.state)
<1>1. q \in ReaderType
    BY DEF ReaderType
<1>2. /\ q.state = r.state /\ q.inserted = r.inserted /\ q.assumed = r.assumed
      /\ q.bay = r.bay /\ q.tags = r.tags /\ q.data = r.data /\ q.queue = r.queue
    BY DEF ReaderType
<1> QED
    BY <1>1, <1>2, GoesAlike

(* The timer of send_closed fires when no timeout of send_off is left in   *)
(* the queue.                                                              *)
Timely == (TimerFires /\ reader.state = "send_closed") => ~Has(reader, "off_timeout")

LEMMA TimerStays ==
    ASSUME Calm, reader.timer => reader.state \in DOMAIN Timeouts, TimerFires, Timely
    PROVE  Stays(reader')
<1> DEFINE t == [reader EXCEPT !.timer = FALSE]
           e == Timeouts[reader.state]
           q == Send(t, e)
<1>1. Becomes(q) /\ reader.timer /\ reader \in ReaderType
    BY DEF TimerFires, TimerDue, Calm
<1>2. Goes(reader, t, reader.state)
    BY <1>1, FlagGoes
<1>3. t.queue = reader.queue
    BY <1>1 DEF ReaderType
<1> HIDE DEF t
<1>4. t \in ReaderType /\ t.state = reader.state
    BY <1>2 DEF Goes, Mild
<1>5. reader.state \in DOMAIN Timeouts /\ e \in ReaderEvents
    BY <1>1, Events
<1>6. CASE reader.state # "send_closed"
    <2>1. e \in Harmless
        BY <1>5, <1>6 DEF Harmless, Watched, Timeouts
    <2> HIDE DEF e
    <2>2. Goes(t, q, reader.state)
        BY <1>4, <2>1, GoesSend
    <2> HIDE DEF q
    <2>3. Goes(reader, q, reader.state)
        BY <1>2, <2>2, GoesTrans
    <2> QED
        BY <1>1, <2>3, GoesStays, BecomesStays
<1>7. CASE reader.state = "send_closed"
    <2>1. e = "closed_timeout"
        BY <1>7 DEF Timeouts
    <2>2. ~Has(t, "off_timeout")
        BY <1>3, <1>7 DEF Timely, Has
    <2> HIDE DEF e
    <2>3. /\ q \in ReaderType /\ q.queue = Append(t.queue, e)
          /\ q.state = t.state /\ q.inserted = t.inserted /\ q.assumed = t.assumed
          /\ q.bay = t.bay /\ q.tags = t.tags /\ q.data = t.data
          /\ \A g : Has(q, g) => g = e \/ Has(t, g)
        BY <1>4, <1>5, SendFields
    <2> HIDE DEF q
    <2>4. Stays(t)
        BY <1>2, GoesStays
    <2>5. InOrder(q.queue)
        <3>1. t.queue \in Seq(ReaderEvents)
            BY <1>4 DEF ReaderType
        <3>2. InOrder(t.queue)
            BY <2>4 DEF Stays, Rests, Sound
        <3>3. \A k \in 1..Len(t.queue) : t.queue[k] # "off_timeout"
            BY <2>2 DEF Has
        <3> QED
            BY <1>5, <2>1, <2>3, <3>1, <3>2, <3>3, AppendOrder
    <2>6. Sound(q)
        BY <2>1, <2>3, <2>4, <2>5 DEF Stays, Rests, Sound, Honest, Runs
    <2>7. Placed(q)
        BY <2>3, <2>4 DEF Stays, Rests, Placed, Fine, Honest, Runs
    <2>8. Stays(q)
        BY <2>6, <2>7 DEF Stays, Rests
    <2> QED
        BY <1>1, <2>8, BecomesStays
<1> QED
    BY <1>6, <1>7

LEMMA BeatTimersStay ==
    ASSUME Calm, HeartbeatFires \/ EarlyReadFires
    PROVE  Stays(reader')
<1>1. ASSUME NEW t, Goes(reader, t, reader.state), Spends(Send(t, "heartbeat_timeout"), Soon)
      PROVE  Stays(reader')
    <2> DEFINE q == Send(t, "heartbeat_timeout")
    <2>1. t \in ReaderType /\ t.state = reader.state
        BY <1>1 DEF Goes, Mild
    <2>2. Goes(t, q, reader.state)
        BY <2>1, HarmlessEvents, GoesSend
    <2>3. Soon \in Nat
        BY DEF Soon
    <2>4. Spends(q, Soon)
        BY <1>1
    <2> HIDE DEF q
    <2>5. Goes(reader, q, reader.state)
        BY <1>1, <2>2, GoesTrans
    <2> QED
        BY <2>3, <2>4, <2>5, SpendsStays
<1> DEFINE h == [reader EXCEPT !.heartbeat = FALSE]
           e == [reader EXCEPT !.early = FALSE]
<1>2. Goes(reader, h, reader.state) /\ Goes(reader, e, reader.state)
    BY FlagGoes DEF Calm
<1>3. \/ Spends(Send(h, "heartbeat_timeout"), Soon)
      \/ Spends(Send(e, "heartbeat_timeout"), Soon)
    BY DEF HeartbeatFires, EarlyReadFires
<1> HIDE DEF h, e
<1> QED
    BY <1>1, <1>2, <1>3

LEMMA PollStays ==
    ASSUME Calm, NEW outcomes, PollForTagArrival(outcomes)
    PROVE  Stays(reader')
<1> DEFINE h == [reader EXCEPT !.unsure = TRUE, !.noise = TRUE]
           g == HeardAt(reader, reader.spent)
           u == [h EXCEPT !.poll = FALSE]
           v == Send(u, "reinit")
           w == noteTagPresent(h)
           x == Send(w, "tag_arrived")
           y == [reader EXCEPT !.quiet = TRUE]
<1>1. PICK a \in outcomes \cap {"ok", "missing", "transient", "hal"} :
          LET cost == (IF a = "ok" THEN 0 ELSE 1)
                      + (IF Queued \subseteq {"admission_poll"} THEN 0 ELSE 1)
          IN  /\ reader.poll
              /\ CASE a = "hal" -> Spends(v, cost)
                   [] a = "transient" -> Spends(h, cost)
                   [] a = "ok" /\ reader.bay.in -> Spends(x, cost)
                   [] OTHER -> Spends(y, IF reader.bay.in THEN cost ELSE 0)
    BY DEF PollForTagArrival
<1>2. reader \in ReaderType /\ reader.spent \in Nat
    BY DEF Calm, ReaderType
<1>3. \E n \in Nat : Spends(v, n) \/ Spends(h, n) \/ Spends(x, n) \/ Spends(y, n)
    <2> DEFINE cost == (IF a = "ok" THEN 0 ELSE 1)
                       + (IF Queued \subseteq {"admission_poll"} THEN 0 ELSE 1)
    <2>1. /\ CASE a = "hal" -> Spends(v, cost)
               [] a = "transient" -> Spends(h, cost)
               [] a = "ok" /\ reader.bay.in -> Spends(x, cost)
               [] OTHER -> Spends(y, IF reader.bay.in THEN cost ELSE 0)
        BY <1>1
    <2>2. cost \in Nat /\ 0 \in Nat
        OBVIOUS
    <2> HIDE DEF cost, v, h, x, y
    <2>3. \/ Spends(v, cost) \/ Spends(h, cost) \/ Spends(x, cost)
          \/ Spends(y, cost) \/ Spends(y, 0)
        BY <2>1
    <2> QED
        BY <2>2, <2>3
<1>4. Goes(reader, h, reader.state)
    <2>1. h = g
        BY <1>2 DEF HeardAt, ReaderType
    <2>2. Goes(reader, g, reader.state)
        BY <1>2, HeardGoes
    <2> HIDE DEF g, h
    <2> QED
        BY <2>1, <2>2
<1> HIDE DEF h
<1>5. h \in ReaderType /\ h.state = reader.state
    BY <1>4 DEF Goes, Mild
<1>6. Goes(h, u, reader.state) /\ Goes(h, w, reader.state)
    BY <1>5, FlagGoes, NoteTagPresentGoes
<1> HIDE DEF u, w
<1>7. /\ u \in ReaderType /\ u.state = reader.state
      /\ w \in ReaderType /\ w.state = reader.state
    BY <1>6 DEF Goes, Mild
<1>8. Goes(u, v, reader.state) /\ Goes(w, x, reader.state)
    BY <1>7, HarmlessEvents, GoesSend
<1>9. Goes(reader, y, reader.state)
    BY <1>2, FlagGoes
<1> HIDE DEF v, x, y
<1>10. Goes(reader, v, reader.state) /\ Goes(reader, x, reader.state)
    BY <1>4, <1>6, <1>8, GoesTrans
<1> QED
    BY <1>3, <1>4, <1>9, <1>10, SpendsStays

LEMMA PresenceStays ==
    ASSUME Calm, NEW outcomes, PollPresence(outcomes)
    PROVE  Stays(reader')
<1>1. PICK a \in outcomes :
          LET s == readStatus(reader, a)
          IN  Becomes(IF ReadFails(reader, a) THEN s
                      ELSE Send([s EXCEPT !.probe = FALSE], "check_presence_ready"))
    BY DEF PollPresence
<1> DEFINE s == readStatus(reader, a)
           t == [s EXCEPT !.probe = FALSE]
           q == Send(t, "check_presence_ready")
<1>2. Becomes(s) \/ Becomes(q)
    <2> DEFINE z == IF ReadFails(reader, a) THEN s ELSE q
    <2>1. Becomes(z)
        BY <1>1
    <2>2. z = s \/ z = q
        OBVIOUS
    <2> HIDE DEF z, s, q
    <2> QED
        BY <2>1, <2>2
<1>3. reader \in ReaderType /\ (Runs(reader) => ~reader.bay.empty)
    BY DEF Calm, Rests, Sound
<1>4. Goes(reader, s, reader.state)
    BY <1>3, ReadStatusGoes
<1> HIDE DEF s
<1>5. s \in ReaderType /\ s.state = reader.state
    BY <1>4 DEF Goes, Mild
<1>6. Goes(s, t, reader.state)
    BY <1>5, FlagGoes
<1> HIDE DEF t
<1>7. t \in ReaderType /\ t.state = reader.state
    BY <1>6 DEF Goes, Mild
<1>8. Goes(t, q, reader.state)
    BY <1>7, HarmlessEvents, GoesSend
<1> HIDE DEF q
<1>9. Goes(reader, q, reader.state)
    BY <1>4, <1>6, <1>8, GoesTrans
<1> QED
    BY <1>2, <1>4, <1>9, GoesStays, BecomesStays

LEMMA ThreadsStay ==
    ASSUME Calm, reader.timer => reader.state \in DOMAIN Timeouts,
           Threads(scene.outcomes), Timely
    PROVE  Stays(reader')
<1>1. CASE GateObserves
    <2> DEFINE q == [reader EXCEPT !.reserved = FALSE]
    <2>1. reader' = q
        BY <1>1 DEF GateObserves
    <2>2. Goes(reader, q, reader.state)
        BY FlagGoes DEF Calm
    <2> HIDE DEF q
    <2> QED
        BY <2>1, <2>2, GoesStays
<1> QED
    BY <1>1, MachineStays, PollStays, PresenceStays, TimerStays, BeatTimersStay DEF Threads

(* A pack that does not run breaks no promise. *)
LEMMA OffStays ==
    ASSUME Calm, NEW q \in ReaderType, ~Runs(q), q.queue = reader.queue,
           q.state = reader.state, q.inserted = reader.inserted
    PROVE  Stays(q)
<1>1. Honest(q) /\ Fine(q)
    BY DEF Honest, Fine
<1>2. \A e : Has(q, e) => Has(reader, e)
    BY DEF Has
<1>3. Sound(q)
    BY <1>1, <1>2 DEF Calm, Rests, Sound
<1>4. Placed(q)
    BY <1>1 DEF Calm, Rests, Placed
<1> QED
    BY <1>3, <1>4 DEF Stays, Rests

LEMMA BayChangesStays ==
    ASSUME Calm, BayChanges
    PROVE  Stays(reader')
<1>1. PICK empty \in BOOLEAN, same \in BOOLEAN :
          reader' = [reader EXCEPT
                     !.tags = IF @ = "selected" THEN "lost" ELSE @,
                     !.bay =
                       IF @.in THEN [@ EXCEPT !.in = FALSE, !.state = "inactive"]
                       ELSE [in |-> TRUE, state |-> "inactive",
                             empty |-> IF same THEN @.empty ELSE empty,
                             known |-> @.known /\ same]]
    BY DEF BayChanges
<1> DEFINE tags == IF reader.tags = "selected" THEN "lost" ELSE reader.tags
           bay == IF reader.bay.in THEN [reader.bay EXCEPT !.in = FALSE, !.state = "inactive"]
                  ELSE [in |-> TRUE, state |-> "inactive",
                        empty |-> IF same THEN reader.bay.empty ELSE empty,
                        known |-> reader.bay.known /\ same]
           q == [reader EXCEPT !.tags = tags, !.bay = bay]
<1>2. reader \in ReaderType
    BY DEF Calm
<1>3. reader' = q
    BY <1>1, <1>2 DEF ReaderType
<1>4. bay \in BayType /\ bay.state = "inactive"
    BY <1>2 DEF ReaderType, BayType
<1>5. tags \in {"none", "selected", "lost"}
    BY <1>2 DEF ReaderType
<1> HIDE DEF bay, tags
<1>6. q \in ReaderType
    BY <1>2, <1>4, <1>5 DEF ReaderType
<1>7. /\ q.state = reader.state /\ q.queue = reader.queue /\ q.inserted = reader.inserted
      /\ q.bay = bay
    BY <1>2 DEF ReaderType
<1> HIDE DEF q
<1>8. ~Runs(q)
    BY <1>4, <1>7 DEF Runs
<1> QED
    BY <1>3, <1>6, <1>7, <1>8, OffStays

LEMMA PackDropsStays ==
    ASSUME Calm, PackDrops
    PROVE  Stays(reader')
<1>1. PICK empty \in BOOLEAN :
          reader' = [reader EXCEPT !.bay.state = "inactive", !.bay.empty = empty]
    BY DEF PackDrops
<1> DEFINE bay == [reader.bay EXCEPT !.state = "inactive", !.empty = empty]
           q == [reader EXCEPT !.bay = bay]
<1>2. reader \in ReaderType
    BY DEF Calm
<1>3. reader' = q
    BY <1>1, <1>2 DEF ReaderType, BayType
<1>4. bay \in BayType /\ bay.state = "inactive"
    BY <1>2 DEF ReaderType, BayType
<1> HIDE DEF bay
<1>5. q \in ReaderType
    BY <1>2, <1>4 DEF ReaderType
<1>6. /\ q.state = reader.state /\ q.queue = reader.queue /\ q.inserted = reader.inserted
      /\ q.bay = bay
    BY <1>2 DEF ReaderType
<1> HIDE DEF q
<1>7. ~Runs(q)
    BY <1>4, <1>6 DEF Runs
<1> QED
    BY <1>3, <1>5, <1>6, <1>7, OffStays

LEMMA CriticalFaultStays ==
    ASSUME Calm, CriticalFault
    PROVE  Stays(reader')
<1> DEFINE t == [reader EXCEPT !.data = NoData]
           same == FALSE
           q == sendStatusUpdate(t, same)
<1>1. reader' = q
    BY DEF CriticalFault
<1>2. reader \in ReaderType
    BY DEF Calm
<1>3. NoData \in DataType /\ ~NoData.empty /\ NoData.state = "unknown"
    BY DEF NoData, DataType
<1>4. t \in ReaderType
    BY <1>2, <1>3 DEF ReaderType
<1>5. /\ t.state = reader.state /\ t.inserted = reader.inserted
      /\ t.assumed = reader.assumed /\ t.bay = reader.bay /\ t.tags = reader.tags
      /\ t.data = NoData /\ t.queue = reader.queue
    BY <1>2 DEF ReaderType
<1> HIDE DEF t, same
<1>6. Goes(reader, t, reader.state)
    BY <1>3, <1>4, <1>5 DEF Goes, Mild, Runs, Honest, Has
<1>7. Goes(t, q, reader.state)
    BY <1>4, <1>5, StatusUpdateGoes
<1> HIDE DEF q
<1>8. Goes(reader, q, reader.state)
    BY <1>6, <1>7, GoesTrans
<1> QED
    BY <1>1, <1>8, GoesStays

LEMMA SeatboxLockChangeStays ==
    ASSUME Calm, SeatboxLockChange
    PROVE  Stays(reader')
<1>1. reader' \in {Send(reader, "seatbox_closed"), Send(reader, "seatbox_opened")}
    BY DEF SeatboxLockChange
<1>2. /\ Goes(reader, Send(reader, "seatbox_closed"), reader.state)
      /\ Goes(reader, Send(reader, "seatbox_opened"), reader.state)
    BY HarmlessEvents, GoesSend DEF Calm
<1> QED
    BY <1>1, <1>2, GoesStays

LEMMA OthersStay ==
    ASSUME Calm, KeepActiveChange \/ HandleRestart \/ RedisReturns \/ World
    PROVE  Stays(reader')
<1>0. reader \in ReaderType
    BY DEF Calm
<1>1. CASE KeepActiveChange \/ KeepActiveSetting
           \/ \E answer \in Answers \ {policy.gate} : GateAnswers(answer)
    <2>1. reader' = reader
        BY <1>1 DEF KeepActiveChange, KeepActiveSetting, GateAnswers
    <2> QED
        BY <2>1 DEF Calm, Stays
<1>2. CASE HandleRestart
    <2>1. reader' \in {reader, Send(reader, "restart")}
        BY <1>2 DEF HandleRestart
    <2>2. /\ Goes(reader, reader, reader.state)
          /\ Goes(reader, Send(reader, "restart"), reader.state)
        BY <1>0, HarmlessEvents, GoesSend, GoesSame
    <2> QED
        BY <2>1, <2>2, GoesStays
<1>3. CASE RedisReturns \/ RedisFails
    <2>1. PICK v \in BOOLEAN : reader' = [reader EXCEPT !.redis = v]
        BY <1>3 DEF RedisReturns, RedisFails
    <2>2. Goes(reader, [reader EXCEPT !.redis = v], reader.state)
        BY <1>0, FlagGoes
    <2> QED
        BY <2>1, <2>2, GoesStays
<1> QED
    BY <1>1, <1>2, <1>3, BayChangesStays, PackDropsStays, CriticalFaultStays,
       SeatboxLockChangeStays DEF World

LEMMA PromptedStays ==
    ASSUME Calm
    PROVE  Stays(prompted(reader)) /\ Stays(reader)
<1> DEFINE t == [reader EXCEPT !.pending = TRUE]
           q == Send(t, "admission_poll")
<1>1. prompted(reader) \in {t, q}
    BY DEF prompted
<1>2. Goes(reader, t, reader.state) /\ Goes(reader, reader, reader.state)
    BY FlagGoes, GoesSame DEF Calm
<1> HIDE DEF t
<1>3. t \in ReaderType /\ t.state = reader.state
    BY <1>2 DEF Goes, Mild
<1>4. Goes(t, q, reader.state)
    BY <1>3, HarmlessEvents, GoesSend
<1> HIDE DEF q
<1>5. Goes(reader, q, reader.state)
    BY <1>2, <1>4, GoesTrans
<1> QED
    BY <1>1, <1>2, <1>5, GoesStays

(* The inductive invariant of the open loop. *)
OInv == IInv /\ Rests(reader)

LEMMA OpenInit == DriveInit => OInv
<1> SUFFICES ASSUME DriveInit PROVE OInv
    OBVIOUS
<1>1. IInv
    BY InitInv
<1>3. PICK bay \in Bays : reader = NewReader(bay)
    BY DEF DriveInit, Init
<1>4. /\ reader.state = "init" /\ reader.queue = <<"init_complete">>
      /\ reader.data = NoData /\ reader.bay = bay /\ reader.tags = "none"
    BY <1>3 DEF NewReader
<1>5. bay.state = "active" => bay.in /\ ~bay.empty
    BY DEF Bays
<1>6. Honest(reader)
    BY <1>4 DEF Honest, NoData
<1>7. InOrder(reader.queue) /\ \A e : Has(reader, e) => e = "init_complete"
    BY <1>4 DEF InOrder, Has
<1>8. Sound(reader)
    BY <1>4, <1>5, <1>6, <1>7 DEF Sound, Runs
<1>9. Placed(reader)
    BY <1>4 DEF Placed, TagPresent, Heartbeat, OpenLoop
<1> QED
    BY <1>1, <1>8, <1>9 DEF OInv, Rests

LEMMA NextStays ==
    ASSUME OInv, Next, Timely
    PROVE  Stays(reader')
<1>1. Calm /\ (reader.timer => reader.state \in DOMAIN Timeouts)
    BY DEF OInv, IInv, Good, Base, Calm
<1> QED
    BY <1>1, ThreadsStay, OthersStay DEF Next, Internal

LEMMA OpenStep == OInv /\ [DriveNext /\ Timely]_driveVars => OInv'
<1> SUFFICES ASSUME OInv, [DriveNext /\ Timely]_driveVars PROVE OInv'
    OBVIOUS
<1>1. IInv'
    BY StepInv DEF OInv
<1>2. CASE UNCHANGED driveVars
    BY <1>1, <1>2 DEF OInv, driveVars, vars
<1>3. CASE DriveNext /\ Timely
    <2>2. CASE ReaderStep
        <3>1. Stays(reader')
            BY <1>3, <2>2, NextStays DEF ReaderStep
        <3> QED
            BY <1>1, <3>1 DEF OInv, Stays
    <2>3. CASE reader' \in {reader, prompted(reader)}
        <3>1. Calm
            BY DEF OInv, IInv, Good, Base, Calm
        <3>2. Stays(reader')
            BY <2>3, <3>1, PromptedStays
        <3> QED
            BY <1>1, <3>2 DEF OInv, Stays
    <2>4. ASSUME NEW d, NEW demanded, NEW expired, pollAdmission(d, demanded, expired)
          PROVE  reader' \in {reader, prompted(reader)}
        BY <2>4 DEF pollAdmission
    <2>5. ASSUME NEW d, Foreground(d)
          PROVE  reader' \in {reader, prompted(reader)}
        BY <2>4, <2>5 DEF Foreground, vars
    <2>6. CASE Poller
        BY <2>3, <2>4, <2>5, <2>6 DEF Poller, PollerTicks, TakeRequest, TakeReady
    <2>7. CASE DeadlinePasses
        BY <2>3, <2>7 DEF DeadlinePasses, vars
    <2>8. ASSUME NEW waiting \in BOOLEAN, setDriveStartStatus(waiting)
          PROVE  OInv'
        BY <2>3, <2>8 DEF setDriveStartStatus
    <2>9. ASSUME NEW retry \in BOOLEAN, RoundEnds(retry)
          PROVE  OInv'
        BY <2>3, <2>9 DEF RoundEnds, vars
    <2> QED
        BY <1>3, <2>2, <2>6, <2>7, <2>8, <2>9 DEF DriveNext
<1> QED
    BY <1>2, <1>3

(* A pack runs in the open loop (state_machine.go, cond_just_inserted to   *)
(* send_inserted_open) only if it was taken for off without a frame, or on *)
(* one from before its tag was found again: an OFF counts when a fresh     *)
(* frame confirms it, and a pack that was just inserted is believed off    *)
(* only on what was last read of it.  In every scene, provided that the    *)
(* timer of send_closed does not overtake a timeout of send_off that is    *)
(* still queued.                                                           *)
THEOREM OpenLoopIsOff == DriveSpec /\ [][Timely]_driveVars => []OpenLoopOff
<1>1. OInv => OpenLoopOff
    BY DEF OInv, Rests, Placed, OpenLoopOff, Runs
<1>2. [DriveNext]_driveVars /\ [Timely]_driveVars => [DriveNext /\ Timely]_driveVars
    OBVIOUS
<1> QED
    BY <1>1, <1>2, OpenInit, OpenStep, PTL DEF DriveSpec
=============================================================================
