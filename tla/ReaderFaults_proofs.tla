------------------------ MODULE ReaderFaults_proofs ------------------------
(***************************************************************************)
(* Proofs about the fault management of a reader.                          *)
(*                                                                         *)
(* The inductive invariant ties the flags of a fault to its timers: a      *)
(* pending flag and the pointer to a timer come and go together, a pointer *)
(* leads to a live timer of that fault and kind, armed or waiting for      *)
(* faultMu, and no two live timers have one id.  A late callback clears    *)
(* the pointer of a younger timer too, so the converse (every timer is     *)
(* pointed to) holds only while no callback waits.                         *)
(***************************************************************************)
EXTENDS ReaderFaults, FiniteSetTheorems, TLAPS

Kinds == {"set", "reset"}

(* The timer field and the flag of a kind. *)
Pointer(s, kind) == IF kind = "set" THEN s.setTimer ELSE s.resetTimer
Pending(s, kind) == IF kind = "set" THEN s.pendingSet ELSE s.pendingReset

RedisType == [present: BOOLEAN, faults: SUBSET Faults]

BatchType == [present: BOOLEAN, add: SUBSET Faults, remove: SUBSET Faults]

ReaderType ==
    [faults: [Faults -> FaultType], timers: SUBSET TimerType, data: DataType,
     previous: DataType, redis: RedisType]

-----------------------------------------------------------------------------
(* What the operations do to each field. *)

(* The software faults are no hardware faults. *)
LEMMA FaultNumbers ==
    /\ Faults \subseteq Int /\ 0 \notin Faults
    /\ \A f \in Hardware : f < ZeroData
    /\ Software \subseteq Faults
BY HardwareAssumption DEF Faults, Software, ZeroData, CommsError, ReaderError, PowerOff

(* Both timers of a fault are stopped and forgotten, the armed ones with   *)
(* them.                                                                   *)
LEMMA DisarmedFields ==
    ASSUME NEW r \in ReaderType, NEW f \in Faults, NEW q, q = Disarmed(r, f)
    PROVE  /\ q \in ReaderType
           /\ q.timers = {t \in r.timers : t.id \notin {r.faults[f].setTimer,
                                                        r.faults[f].resetTimer}}
           /\ q.data = r.data /\ q.previous = r.previous /\ q.redis = r.redis
           /\ \A g \in Faults : g # f => q.faults[g] = r.faults[g]
           /\ q.faults[f].present = r.faults[f].present
           /\ q.faults[f].published = r.faults[f].published
           /\ q.faults[f].setTimer = 0 /\ q.faults[f].resetTimer = 0
           /\ q.faults[f].pendingSet =
                 (r.faults[f].pendingSet /\ r.faults[f].setTimer = 0)
           /\ q.faults[f].pendingReset =
                 (r.faults[f].pendingReset /\ r.faults[f].resetTimer = 0)
<1> DEFINE s == r.faults[f]
           gone == {t \in r.timers : t.id \notin {s.setTimer, s.resetTimer}}
           n == [s EXCEPT !.setTimer = 0, !.resetTimer = 0,
                          !.pendingSet = @ /\ s.setTimer = 0,
                          !.pendingReset = @ /\ s.resetTimer = 0]
<1>1. s \in FaultType /\ r.faults \in [Faults -> FaultType] /\ r.timers \subseteq TimerType
    BY DEF ReaderType
<1>2. /\ n \in FaultType /\ n.present = s.present /\ n.published = s.published
      /\ n.setTimer = 0 /\ n.resetTimer = 0
      /\ n.pendingSet = (s.pendingSet /\ s.setTimer = 0)
      /\ n.pendingReset = (s.pendingReset /\ s.resetTimer = 0)
    BY <1>1 DEF FaultType
<1>3. /\ q.timers = gone
      /\ q.data = r.data /\ q.previous = r.previous /\ q.redis = r.redis
    BY DEF Disarmed, ReaderType
<1>4. q.faults = [r.faults EXCEPT ![f] = n]
    BY <1>1 DEF Disarmed, ReaderType, FaultType
<1>5. q \in ReaderType
    BY <1>1, <1>2, ZenonT(60) DEF Disarmed, ReaderType
<1> QED
    BY <1>1, <1>2, <1>3, <1>4, <1>5

(* Updates of one fault and of whole fields. *)
WithFault(r, f, n) == [r EXCEPT !.faults[f] = n]
Rewritten(r, F, R, P) == [r EXCEPT !.faults = F, !.redis = R, !.previous = P]

(* One fault. *)
LEMMA WithFaultFields ==
    ASSUME NEW r \in ReaderType, NEW f \in Faults, NEW n \in FaultType,
           NEW q, q = WithFault(r, f, n)
    PROVE  /\ q \in ReaderType
           /\ q.timers = r.timers /\ q.data = r.data /\ q.previous = r.previous
           /\ q.redis = r.redis
           /\ \A g \in Faults : g # f => q.faults[g] = r.faults[g]
           /\ q.faults[f] = n
BY DEF WithFault, ReaderType

(* The flags and timers of a fault. *)
Raised(r, f) == [r EXCEPT !.faults[f].present = TRUE]
Lowered(r, f) == [r EXCEPT !.faults[f].present = FALSE]
SetArmed(r, f, id) == [r EXCEPT !.faults[f].pendingSet = TRUE, !.faults[f].setTimer = id]
ResetArmed(r, f, id) == [r EXCEPT !.faults[f].pendingReset = TRUE, !.faults[f].resetTimer = id]
SetDone(r, f) == [r EXCEPT !.faults[f].pendingSet = FALSE, !.faults[f].setTimer = 0]
ResetDone(r, f) == [r EXCEPT !.faults[f].pendingReset = FALSE, !.faults[f].resetTimer = 0]

(* Each of them changes that fault only. *)
LEMMA FlagUpdates ==
    ASSUME NEW r \in ReaderType, NEW f \in Faults, NEW id
    PROVE  LET s == r.faults[f]
           IN  /\ Raised(r, f) = WithFault(r, f, [s EXCEPT !.present = TRUE])
               /\ Lowered(r, f) = WithFault(r, f, [s EXCEPT !.present = FALSE])
               /\ SetArmed(r, f, id) = WithFault(r, f, [s EXCEPT !.pendingSet = TRUE, !.setTimer = id])
               /\ ResetArmed(r, f, id) = WithFault(r, f, [s EXCEPT !.pendingReset = TRUE, !.resetTimer = id])
               /\ SetDone(r, f) = WithFault(r, f, [s EXCEPT !.pendingSet = FALSE, !.setTimer = 0])
               /\ ResetDone(r, f) = WithFault(r, f, [s EXCEPT !.pendingReset = FALSE, !.resetTimer = 0])
<1> DEFINE s == r.faults[f]
<1>1. Raised(r, f) = WithFault(r, f, [s EXCEPT !.present = TRUE])
    BY DEF Raised, WithFault, ReaderType, FaultType
<1>2. Lowered(r, f) = WithFault(r, f, [s EXCEPT !.present = FALSE])
    BY DEF Lowered, WithFault, ReaderType, FaultType
<1>3. SetArmed(r, f, id) = WithFault(r, f, [s EXCEPT !.pendingSet = TRUE, !.setTimer = id])
    BY DEF SetArmed, WithFault, ReaderType, FaultType
<1>4. ResetArmed(r, f, id) = WithFault(r, f, [s EXCEPT !.pendingReset = TRUE, !.resetTimer = id])
    BY DEF ResetArmed, WithFault, ReaderType, FaultType
<1>5. SetDone(r, f) = WithFault(r, f, [s EXCEPT !.pendingSet = FALSE, !.setTimer = 0])
    BY DEF SetDone, WithFault, ReaderType, FaultType
<1>6. ResetDone(r, f) = WithFault(r, f, [s EXCEPT !.pendingReset = FALSE, !.resetTimer = 0])
    BY DEF ResetDone, WithFault, ReaderType, FaultType
<1> QED
    BY <1>1, <1>2, <1>3, <1>4, <1>5, <1>6, Zenon

(* Whole fields. *)
LEMMA RewrittenFields ==
    ASSUME NEW r \in ReaderType, NEW F \in [Faults -> FaultType], NEW R \in RedisType,
           NEW P \in DataType, NEW q, q = Rewritten(r, F, R, P)
    PROVE  /\ q \in ReaderType
           /\ q.timers = r.timers /\ q.data = r.data /\ q.previous = P
           /\ q.redis = R /\ q.faults = F
BY DEF Rewritten, ReaderType

(* A timer is armed, and the fault points to it. *)
LEMMA ArmFields ==
    ASSUME NEW r \in ReaderType, NEW f \in {CommsError, ReaderError},
           NEW k \in Kinds, NEW delay \in Nat, NewTimer(r) \in TimerIds,
           NEW q, q = Arm(r, f, k, delay)
    PROVE  /\ q \in ReaderType
           /\ q.timers = r.timers \cup {[id |-> NewTimer(r), fault |-> f,
                                         kind |-> k, left |-> delay]}
           /\ q.data = r.data /\ q.previous = r.previous /\ q.redis = r.redis
           /\ \A g \in Faults : g # f => q.faults[g] = r.faults[g]
           /\ q.faults[f].present = r.faults[f].present
           /\ k = "set" => /\ q.faults[f].pendingSet /\ q.faults[f].setTimer = NewTimer(r)
                           /\ q.faults[f].pendingReset = r.faults[f].pendingReset
                           /\ q.faults[f].resetTimer = r.faults[f].resetTimer
           /\ k = "reset" => /\ q.faults[f].pendingReset
                             /\ q.faults[f].resetTimer = NewTimer(r)
                             /\ q.faults[f].pendingSet = r.faults[f].pendingSet
                             /\ q.faults[f].setTimer = r.faults[f].setTimer
<1> DEFINE id == NewTimer(r)
           s == r.faults[f]
           armed == r.timers \cup {[id |-> id, fault |-> f, kind |-> k, left |-> delay]}
<1>0. f \in Faults
    BY FaultNumbers DEF Software
<1>1. s \in FaultType /\ r.faults \in [Faults -> FaultType] /\ r.timers \subseteq TimerType
    BY <1>0 DEF ReaderType
<1>2. armed \subseteq TimerType
    BY <1>1 DEF TimerType, Kinds
<1>3. id \in TimerIds
    OBVIOUS
<1> DEFINE x == [r EXCEPT !.timers = armed]
<1>4. /\ x \in ReaderType /\ x.timers = armed /\ x.faults = r.faults
      /\ x.data = r.data /\ x.previous = r.previous /\ x.redis = r.redis
    BY <1>2 DEF ReaderType
<1>5. /\ k = "set" => q = SetArmed(x, f, id)
      /\ k = "reset" => q = ResetArmed(x, f, id)
    BY DEF Arm, SetArmed, ResetArmed
<1> HIDE DEF id, armed, x
<1>6. CASE k = "set"
    <2> DEFINE n == [x.faults[f] EXCEPT !.pendingSet = TRUE, !.setTimer = id]
    <2>1. q = WithFault(x, f, n)
        BY <1>0, <1>3, <1>4, <1>5, <1>6, FlagUpdates, ZenonT(60)
    <2>2. /\ n \in FaultType /\ n.present = s.present /\ n.pendingSet /\ n.setTimer = id
          /\ n.pendingReset = s.pendingReset /\ n.resetTimer = s.resetTimer
        BY <1>1, <1>3, <1>4 DEF FaultType
    <2> HIDE DEF n
    <2> QED
        BY <1>0, <1>4, <1>6, <2>1, <2>2, WithFaultFields DEF id, armed
<1>7. CASE k = "reset"
    <2> DEFINE n == [x.faults[f] EXCEPT !.pendingReset = TRUE, !.resetTimer = id]
    <2>1. q = WithFault(x, f, n)
        BY <1>0, <1>3, <1>4, <1>5, <1>7, FlagUpdates
    <2>2. /\ n \in FaultType /\ n.present = s.present /\ n.pendingReset /\ n.resetTimer = id
          /\ n.pendingSet = s.pendingSet /\ n.setTimer = s.setTimer
        BY <1>1, <1>3, <1>4 DEF FaultType
    <2> HIDE DEF n
    <2> QED
        BY <1>0, <1>4, <1>7, <2>1, <2>2, WithFaultFields DEF id, armed
<1> QED
    BY <1>6, <1>7 DEF Kinds

(* A fault goes into the set in Redis. *)
Reported(r, f, up) == reportFault(r, f, TRUE, up)

(* Only the set changes. *)
LEMMA ReportFields ==
    ASSUME NEW r \in ReaderType, NEW f \in Faults, NEW up \in BOOLEAN,
           NEW q, q = Reported(r, f, up)
    PROVE  /\ q \in ReaderType
           /\ q.timers = r.timers /\ q.data = r.data /\ q.faults = r.faults
           /\ up => q.redis.faults = r.redis.faults \cup {f}
BY DEF Reported, reportFault, ReaderType, RedisType

(* What a transaction holds. *)
LEMMA BatchFields ==
    ASSUME NEW r \in ReaderType
    PROVE  /\ updateFaultSetInTransaction(r) \in BatchType
           /\ \A f \in Faults :
                 /\ f \in updateFaultSetInTransaction(r).add => r.faults[f].present
                 /\ f \in updateFaultSetInTransaction(r).remove => ~r.faults[f].present
<1>1. r.data.present \in BOOLEAN
    BY DEF ReaderType, DataType
<1> QED
    BY <1>1 DEF updateFaultSetInTransaction, BatchType

(* A transaction that ran. *)
LEMMA ExecutedFields ==
    ASSUME NEW r \in ReaderType, NEW b \in BatchType, NEW q, q = Executed(r, b)
    PROVE  /\ q \in ReaderType
           /\ q.timers = r.timers /\ q.data = r.data /\ q.faults = r.faults
           /\ q.redis.faults = (r.redis.faults \ b.remove) \cup b.add
<1> DEFINE redis == [present |-> b.present, faults |-> (r.redis.faults \ b.remove) \cup b.add]
<1>1. /\ redis \in RedisType /\ r.faults \in [Faults -> FaultType] /\ r.previous \in DataType
      /\ redis.faults = (r.redis.faults \ b.remove) \cup b.add
    BY DEF ReaderType, RedisType, BatchType
<1>2. q = Rewritten(r, r.faults, redis, r.previous)
    BY DEF Executed, Rewritten, ReaderType
<1> HIDE DEF redis
<1> QED
    BY <1>1, <1>2, RewrittenFields

(* Marking touches nothing but the published flags. *)
LEMMA MarkedFields ==
    ASSUME NEW r \in ReaderType, NEW b \in BatchType, NEW q, q = Marked(r, b)
    PROVE  /\ q \in ReaderType
           /\ q.timers = r.timers /\ q.data = r.data /\ q.redis = r.redis
           /\ \A f \in Faults : \A k \in Kinds :
                 /\ q.faults[f].present = r.faults[f].present
                 /\ Pending(q.faults[f], k) = Pending(r.faults[f], k)
                 /\ Pointer(q.faults[f], k) = Pointer(r.faults[f], k)
<1> DEFINE told == [f \in Faults |-> IF f \in b.add \cup b.remove
                                     THEN [r.faults[f] EXCEPT !.published = r.faults[f].present]
                                     ELSE r.faults[f]]
<1>1. r.faults \in [Faults -> FaultType] /\ r.redis \in RedisType /\ r.data \in DataType
    BY DEF ReaderType
<1>2. \A f \in Faults :
         /\ [r.faults[f] EXCEPT !.published = r.faults[f].present] \in FaultType
         /\ told[f] \in {r.faults[f], [r.faults[f] EXCEPT !.published = r.faults[f].present]}
    BY <1>1 DEF FaultType
<1>3. told \in [Faults -> FaultType]
    BY <1>1, <1>2
<1>4. \A f \in Faults : \A k \in Kinds :
         /\ told[f].present = r.faults[f].present
         /\ Pending(told[f], k) = Pending(r.faults[f], k)
         /\ Pointer(told[f], k) = Pointer(r.faults[f], k)
    BY <1>1, <1>2 DEF FaultType, Pending, Pointer
<1>5. q = Rewritten(r, told, r.redis, r.data)
    BY DEF Marked, Rewritten, ReaderType
<1> HIDE DEF told
<1>6. /\ q \in ReaderType /\ q.timers = r.timers /\ q.data = r.data
      /\ q.redis = r.redis /\ q.faults = told
    BY <1>1, <1>3, <1>5, RewrittenFields
<1> QED
    BY <1>4, <1>6

(* A status transaction that nothing can overtake. *)
LEMMA SendFields ==
    ASSUME NEW r \in ReaderType, NEW up \in BOOLEAN, NEW q, q = sendStatusUpdate(r, up)
    PROVE  /\ q \in ReaderType
           /\ q.timers = r.timers /\ q.data = r.data
           /\ \A f \in Faults : \A k \in Kinds :
                 /\ q.faults[f].present = r.faults[f].present
                 /\ Pending(q.faults[f], k) = Pending(r.faults[f], k)
                 /\ Pointer(q.faults[f], k) = Pointer(r.faults[f], k)
           /\ \A f \in Faults :
                 f \in q.redis.faults =>
                    f \in r.redis.faults \/ r.faults[f].present
           /\ \A f \in Faults :
                 (f \in r.redis.faults /\ r.faults[f].present) => f \in q.redis.faults
<1> DEFINE b == updateFaultSetInTransaction(r)
           x == Executed(r, b)
<1>1. /\ b \in BatchType
      /\ \A f \in Faults : /\ f \in b.add => r.faults[f].present
                           /\ f \in b.remove => ~r.faults[f].present
    BY BatchFields
<1>2. q = IF up THEN Marked(x, b) ELSE r
    BY DEF sendStatusUpdate
<1> HIDE DEF b
<1>3. /\ x \in ReaderType /\ x.timers = r.timers /\ x.data = r.data /\ x.faults = r.faults
      /\ x.redis.faults = (r.redis.faults \ b.remove) \cup b.add
    BY <1>1, ExecutedFields
<1> HIDE DEF x
<1>4. CASE up
    <2>1. q = Marked(x, b)
        BY <1>2, <1>4
    <2>2. /\ q \in ReaderType
          /\ q.timers = x.timers /\ q.data = x.data /\ q.redis = x.redis
          /\ \A f \in Faults : \A k \in Kinds :
                /\ q.faults[f].present = x.faults[f].present
                /\ Pending(q.faults[f], k) = Pending(x.faults[f], k)
                /\ Pointer(q.faults[f], k) = Pointer(x.faults[f], k)
        BY <1>1, <1>3, <2>1, MarkedFields
    <2> QED
        BY <1>1, <1>3, <2>2
<1>5. CASE ~up
    BY <1>2, <1>5
<1> QED
    BY <1>4, <1>5

(* Fault f is over. *)
LEMMA DeactivatedFields ==
    ASSUME NEW r \in ReaderType, NEW f \in Faults, NEW up \in BOOLEAN,
           NEW q, q = Deactivated(r, f, up)
    PROVE  /\ q \in ReaderType
           /\ q.timers = r.timers /\ q.data = r.data /\ q.previous = r.previous
           /\ \A g \in Faults : g # f => q.faults[g] = r.faults[g]
           /\ \A k \in Kinds : /\ Pending(q.faults[f], k) = Pending(r.faults[f], k)
                               /\ Pointer(q.faults[f], k) = Pointer(r.faults[f], k)
           /\ ~q.faults[f].present
           /\ up => q.redis.faults = r.redis.faults \ {f}
<1> DEFINE x == IF up THEN [r EXCEPT !.redis.faults = @ \ {f}] ELSE r
           n == [x.faults[f] EXCEPT !.present = FALSE]
<1>1. /\ x \in ReaderType
      /\ x.timers = r.timers /\ x.data = r.data /\ x.previous = r.previous
      /\ x.faults = r.faults
      /\ up => x.redis.faults = r.redis.faults \ {f}
    BY DEF ReaderType, RedisType
<1>2. q = Lowered(x, f)
    BY DEF Deactivated, reportFault, Lowered
<1> HIDE DEF x
<1>3. q = WithFault(x, f, n)
    BY <1>1, <1>2, FlagUpdates
<1>4. /\ n \in FaultType /\ n.present = FALSE
      /\ \A k \in Kinds : /\ Pending(n, k) = Pending(r.faults[f], k)
                          /\ Pointer(n, k) = Pointer(r.faults[f], k)
    BY <1>1 DEF ReaderType, FaultType, Pending, Pointer
<1> HIDE DEF n
<1> QED
    BY <1>1, <1>3, <1>4, WithFaultFields

-----------------------------------------------------------------------------
(* Timers and the faults that point to them.  The timers of (df, dk) are   *)
(* exempt: those of the callback that runs.                                *)

Distinct(r, W) ==
    /\ \A t, u \in r.timers \cup W : t.id = u.id => t = u
    /\ \A t \in r.timers : t \notin W

Tracked(r, W, df, dk) ==
    \A f \in Faults, k \in Kinds : ~(f = df /\ k = dk) =>
        /\ Pending(r.faults[f], k) <=> Pointer(r.faults[f], k) # 0
        /\ Pointer(r.faults[f], k) # 0 =>
              \E t \in r.timers \cup W :
                  t.id = Pointer(r.faults[f], k) /\ t.fault = f /\ t.kind = k

Owned(r, W, df, dk) ==
    ~scene.late =>
        /\ W = {}
        /\ \A t \in r.timers : /\ ~(t.fault = df /\ t.kind = dk)
                               /\ Pointer(r.faults[t.fault], t.kind) = t.id

Linked(r, W, df, dk) ==
    /\ r \in ReaderType /\ waiting \subseteq TimerType /\ W \subseteq waiting
    /\ Distinct(r, W) /\ Tracked(r, W, df, dk) /\ Owned(r, W, df, dk)

(* A free timer is left. *)
Room(r) == IsFiniteSet(Timers(r)) /\ Cardinality(Timers(r)) <= MaxTimers

(* The pigeonhole behind NewTimer: there is one id more than timers. *)
LEMMA FreeTimer ==
    ASSUME NEW r \in ReaderType, waiting \subseteq TimerType, Room(r)
    PROVE  /\ NewTimer(r) \in TimerIds
           /\ \A t \in Timers(r) : t.id # NewTimer(r)
<1> SUFFICES \E k \in TimerIds : \A t \in Timers(r) : t.id # k
    BY DEF NewTimer
<1> SUFFICES ASSUME \A k \in TimerIds : \E t \in Timers(r) : t.id = k
             PROVE  FALSE
    OBVIOUS
<1> DEFINE T == Timers(r)
           pick == [k \in TimerIds |-> CHOOSE t \in T : t.id = k]
<1>1. \A k \in TimerIds : pick[k] \in T /\ pick[k].id = k
    OBVIOUS
<1>2. pick \in [TimerIds -> T]
    BY <1>1
<1>3. IsFiniteSet(TimerIds) /\ Cardinality(TimerIds) = MaxTimers + 1
    BY FS_Interval, DelaysAssumption DEF TimerIds
<1>4. IsFiniteSet(T) /\ Cardinality(T) \in Nat /\ Cardinality(T) < Cardinality(TimerIds)
    BY <1>3, FS_CardinalityType, DelaysAssumption DEF Room
<1> HIDE DEF pick, T
<1>5. \E x, y \in TimerIds : x # y /\ pick[x] = pick[y]
    BY <1>2, <1>3, <1>4, FS_PigeonHole
<1> QED
    BY <1>1, <1>5

(* Stopping timers makes room. *)
LEMMA RoomShrinks ==
    ASSUME NEW r, NEW q, Room(r), q.timers \subseteq r.timers
    PROVE  Room(q)
<1>1. Timers(q) \in SUBSET Timers(r)
    BY DEF Timers
<1> QED
    BY <1>1, FS_Subset, FS_CardinalityType, DelaysAssumption DEF Room

(* A change that leaves the timers and the pointers alone. *)
LEMMA LinkedSame ==
    ASSUME NEW r, NEW q \in ReaderType, NEW W, NEW df, NEW dk, Linked(r, W, df, dk),
           q.timers = r.timers,
           \A f \in Faults : \A k \in Kinds :
               /\ Pending(q.faults[f], k) = Pending(r.faults[f], k)
               /\ Pointer(q.faults[f], k) = Pointer(r.faults[f], k)
    PROVE  Linked(q, W, df, dk)
<1>1. Distinct(q, W)
    BY DEF Linked, Distinct
<1>2. Tracked(q, W, df, dk)
    BY DEF Linked, Tracked
<1>3. Owned(q, W, df, dk)
    <2>1. \A t \in r.timers : t.fault \in Faults /\ t.kind \in Kinds
        BY FaultNumbers DEF Linked, ReaderType, TimerType, Kinds, Software
    <2> QED
        BY <2>1 DEF Linked, Owned
<1> QED
    BY <1>1, <1>2, <1>3 DEF Linked

(* Disarming one fault leaves the timers of the others. *)
LEMMA DisarmedLinked ==
    ASSUME NEW r, NEW W, NEW df, NEW dk, Linked(r, W, df, dk),
           NEW f \in Faults, f # df, NEW q, q = Disarmed(r, f)
    PROVE  /\ Linked(q, W, df, dk)
           /\ \A k \in Kinds : ~Pending(q.faults[f], k) /\ Pointer(q.faults[f], k) = 0
<1>1. /\ q \in ReaderType
      /\ q.timers = {t \in r.timers : t.id \notin {r.faults[f].setTimer,
                                                   r.faults[f].resetTimer}}
      /\ \A g \in Faults : g # f => q.faults[g] = r.faults[g]
      /\ q.faults[f].setTimer = 0 /\ q.faults[f].resetTimer = 0
      /\ q.faults[f].pendingSet = (r.faults[f].pendingSet /\ r.faults[f].setTimer = 0)
      /\ q.faults[f].pendingReset = (r.faults[f].pendingReset /\ r.faults[f].resetTimer = 0)
    BY DisarmedFields DEF Linked
<1>2. \A t \in r.timers \cup W : t \in TimerType /\ t.id # 0 /\ t.fault \in Faults
                                 /\ t.kind \in Kinds
    BY FaultNumbers DEF Linked, ReaderType, TimerType, TimerIds, Kinds, Software
<1>3. \A t \in r.timers : t.id \in {r.faults[f].setTimer, r.faults[f].resetTimer} =>
                             t.fault = f
    BY <1>2 DEF Linked, Tracked, Distinct, Pointer, Kinds
<1>4. \A k \in Kinds : Pending(r.faults[f], k) <=> Pointer(r.faults[f], k) # 0
    BY DEF Linked, Tracked
<1>5. \A k \in Kinds : ~Pending(q.faults[f], k) /\ Pointer(q.faults[f], k) = 0
    BY <1>1, <1>4 DEF Pending, Pointer, Kinds
<1>6. Distinct(q, W)
    BY <1>1 DEF Linked, Distinct
<1>7. Tracked(q, W, df, dk)
    <2> SUFFICES ASSUME NEW g \in Faults, NEW k \in Kinds, ~(g = df /\ k = dk), g # f
                 PROVE  /\ Pending(q.faults[g], k) <=> Pointer(q.faults[g], k) # 0
                        /\ Pointer(q.faults[g], k) # 0 =>
                             \E t \in q.timers \cup W :
                                 /\ t.id = Pointer(q.faults[g], k)
                                 /\ t.fault = g /\ t.kind = k
        BY <1>5 DEF Tracked
    <2> QED
        BY <1>1, <1>3 DEF Linked, Tracked
<1>8. Owned(q, W, df, dk)
    <2>1. ASSUME NEW t \in q.timers, ~scene.late PROVE t.fault # f
        BY <1>1, <1>2, <2>1 DEF Linked, Owned, Pointer, Kinds
    <2> QED
        BY <1>1, <1>2, <2>1 DEF Linked, Owned
<1> QED
    BY <1>1, <1>5, <1>6, <1>7, <1>8 DEF Linked

(* Arming a timer of a fault that has none of that kind. *)
LEMMA ArmLinked ==
    ASSUME NEW r, NEW W, NEW df, NEW dk, Linked(r, W, df, dk), Room(r),
           NEW f \in {CommsError, ReaderError}, NEW k \in Kinds, ~(f = df /\ k = dk),
           Pointer(r.faults[f], k) = 0, NEW delay \in Nat, NEW q, q = Arm(r, f, k, delay)
    PROVE  Linked(q, W, df, dk)
<1> DEFINE new == [id |-> NewTimer(r), fault |-> f, kind |-> k, left |-> delay]
<1>1. NewTimer(r) \in TimerIds /\ \A t \in r.timers \cup W : t.id # NewTimer(r)
    BY FreeTimer DEF Linked, Timers
<1>2. /\ q \in ReaderType /\ q.timers = r.timers \cup {new}
      /\ \A g \in Faults : g # f => q.faults[g] = r.faults[g]
      /\ k = "set" => /\ q.faults[f].pendingSet /\ q.faults[f].setTimer = NewTimer(r)
                      /\ q.faults[f].pendingReset = r.faults[f].pendingReset
                      /\ q.faults[f].resetTimer = r.faults[f].resetTimer
      /\ k = "reset" => /\ q.faults[f].pendingReset /\ q.faults[f].resetTimer = NewTimer(r)
                        /\ q.faults[f].pendingSet = r.faults[f].pendingSet
                        /\ q.faults[f].setTimer = r.faults[f].setTimer
    BY <1>1, ArmFields DEF Linked
<1>3. /\ Pending(q.faults[f], k) /\ Pointer(q.faults[f], k) = NewTimer(r)
      /\ \A j \in Kinds : j # k =>
            /\ Pending(q.faults[f], j) = Pending(r.faults[f], j)
            /\ Pointer(q.faults[f], j) = Pointer(r.faults[f], j)
    BY <1>2 DEF Pending, Pointer, Kinds
<1>4. new.id = NewTimer(r) /\ new.fault = f /\ new.kind = k
    OBVIOUS
<1>5. NewTimer(r) # 0 /\ f \in Faults
    BY <1>1, FaultNumbers DEF TimerIds, Software
<1>6. \A t \in r.timers \cup W : t.id # 0 /\ t.fault \in Faults /\ t.kind \in Kinds
    BY FaultNumbers DEF Linked, ReaderType, TimerType, TimerIds, Kinds, Software
<1> HIDE DEF new
<1>7. Distinct(q, W)
    BY <1>1, <1>2, <1>4 DEF Linked, Distinct
<1>8. Tracked(q, W, df, dk)
    <2> SUFFICES ASSUME NEW g \in Faults, NEW j \in Kinds, ~(g = df /\ j = dk)
                 PROVE  /\ Pending(q.faults[g], j) <=> Pointer(q.faults[g], j) # 0
                        /\ Pointer(q.faults[g], j) # 0 =>
                             \E t \in q.timers \cup W :
                                 /\ t.id = Pointer(q.faults[g], j)
                                 /\ t.fault = g /\ t.kind = j
        BY DEF Tracked
    <2>1. CASE g = f /\ j = k
        BY <1>2, <1>3, <1>4, <1>5, <2>1
    <2>2. CASE ~(g = f /\ j = k)
        <3>1. /\ Pending(q.faults[g], j) = Pending(r.faults[g], j)
              /\ Pointer(q.faults[g], j) = Pointer(r.faults[g], j)
            BY <1>2, <1>3, <2>2
        <3> QED
            BY <1>2, <3>1 DEF Linked, Tracked
    <2> QED
        BY <2>1, <2>2
<1>9. Owned(q, W, df, dk)
    <2>1. ASSUME NEW t \in r.timers, ~scene.late PROVE ~(t.fault = f /\ t.kind = k)
        BY <1>6, <2>1 DEF Linked, Owned
    <2> QED
        BY <1>2, <1>3, <1>4, <1>6, <2>1 DEF Linked, Owned
<1> QED
    BY <1>2, <1>7, <1>8, <1>9 DEF Linked

-----------------------------------------------------------------------------
(* What an operation may do to the faults. *)

(* FaultSetTracks, of any reader. *)
Shown(r) ==
    \A f \in Faults \ overtaken :
        /\ f \in r.redis.faults => r.faults[f].present
        /\ r.faults[f].present /\ f # CommsError => f \in r.redis.faults

(* The communication fault is present and nothing will end it. *)
Stuck(r) == r.faults[CommsError].present /\ ~r.faults[CommsError].pendingReset

(* An operation that raises neither of the two faults with a history: it   *)
(* starts no communication fault and strands none, sets no B36, and, with  *)
(* Redis up, keeps the published set in step.                              *)
Mild(r, q, up) ==
    /\ q \in ReaderType
    /\ q.faults[CommsError].pendingSet => r.faults[CommsError].pendingSet
    /\ Stuck(q) => Stuck(r)
    /\ q.faults[PowerOff].present => r.faults[PowerOff].present
    /\ up /\ Shown(r) => Shown(q)

(* At most one timer more. *)
OneMore(r, q) == \E x : q.timers \subseteq r.timers \cup {x}

(* Mild operations compose. *)
LEMMA MildTrans ==
    ASSUME NEW r, NEW p, NEW q, NEW up \in BOOLEAN, Mild(r, p, up), Mild(p, q, up)
    PROVE  Mild(r, q, up)
BY DEF Mild

(* Disarming a fault, with that of the reset of a communication fault left *)
(* open.                                                                   *)
LEMMA DisarmedMild ==
    ASSUME NEW r \in ReaderType, NEW f \in Faults, NEW q, q = Disarmed(r, f),
           NEW up \in BOOLEAN
    PROVE  /\ q \in ReaderType /\ q.timers \subseteq r.timers
           /\ q.data = r.data /\ q.previous = r.previous
           /\ \A g \in Faults : q.faults[g].present = r.faults[g].present
           /\ q.faults[CommsError].pendingSet => r.faults[CommsError].pendingSet
           /\ Shown(r) => Shown(q)
           /\ f # CommsError \/ ~r.faults[f].present => Mild(r, q, up)
<1>1. /\ q \in ReaderType /\ q.timers \subseteq r.timers
      /\ q.data = r.data /\ q.previous = r.previous /\ q.redis = r.redis
      /\ \A g \in Faults : g # f => q.faults[g] = r.faults[g]
      /\ q.faults[f].present = r.faults[f].present
      /\ q.faults[f].pendingSet => r.faults[f].pendingSet
    <2>1. /\ q.faults[f].pendingSet =
                (r.faults[f].pendingSet /\ r.faults[f].setTimer = 0)
          /\ q \in ReaderType
          /\ q.timers = {t \in r.timers : t.id \notin {r.faults[f].setTimer,
                                                       r.faults[f].resetTimer}}
          /\ q.data = r.data /\ q.previous = r.previous /\ q.redis = r.redis
          /\ \A g \in Faults : g # f => q.faults[g] = r.faults[g]
          /\ q.faults[f].present = r.faults[f].present
        BY DisarmedFields
    <2>2. q.faults[f].pendingSet => r.faults[f].pendingSet
        BY <2>1, Zenon
    <2> QED
        BY <2>1, <2>2
<1>2. \A g \in Faults : q.faults[g].present = r.faults[g].present
    BY <1>1
<1>3. Shown(r) => Shown(q)
    BY <1>1, <1>2 DEF Shown
<1>4. CommsError \in Faults /\ PowerOff \in Faults
    BY FaultNumbers DEF Software
<1> QED
    BY <1>1, <1>2, <1>3, <1>4 DEF Mild, Stuck

(* Clearing a fault. *)
LEMMA ClearFaultMild ==
    ASSUME NEW r \in ReaderType, waiting \subseteq TimerType, Room(r),
           NEW f \in Faults, NEW up \in BOOLEAN, NEW q, q = ClearFault(r, f, up)
    PROVE  /\ Mild(r, q, up) /\ OneMore(r, q)
           /\ q.data = r.data /\ q.previous = r.previous
           /\ f # CommsError => q.timers \subseteq r.timers /\ ~q.faults[f].present
           /\ f = CommsError => ~Stuck(q)
           /\ \A g \in Faults : g # f => q.faults[g] = r.faults[g]
<1> DEFINE d == Disarmed(r, f)
<1>1. /\ d \in ReaderType /\ d.timers \subseteq r.timers
      /\ d.data = r.data /\ d.previous = r.previous
      /\ \A g \in Faults : d.faults[g].present = r.faults[g].present
      /\ d.faults[CommsError].pendingSet => r.faults[CommsError].pendingSet
      /\ Shown(r) => Shown(d)
      /\ f # CommsError \/ ~r.faults[f].present => Mild(r, d, up)
    BY DisarmedMild
<1>2. \A g \in Faults : g # f => d.faults[g] = r.faults[g]
    BY DisarmedFields
<1>3. CommsError \in Faults /\ PowerOff \in Faults /\ CommsError # PowerOff
    BY FaultNumbers DEF Software, CommsError, PowerOff
<1>4. \/ q = r /\ ~r.faults[f].present
      \/ q = d /\ ~r.faults[f].present
      \/ f # CommsError /\ q = Deactivated(d, f, up)
      \/ f = CommsError /\ q = Arm(d, f, "reset", CommsReset)
    BY DelaysAssumption DEF ClearFault, ResetDelay
<1> HIDE DEF d
<1>5. CASE q = r /\ ~r.faults[f].present
    BY <1>5 DEF Mild, OneMore, Stuck
<1>6. CASE q = d /\ ~r.faults[f].present
    BY <1>1, <1>2, <1>6 DEF OneMore, Stuck
<1>7. CASE f # CommsError /\ q = Deactivated(d, f, up)
    <2>1. /\ q \in ReaderType
          /\ q.timers = d.timers /\ q.data = d.data /\ q.previous = d.previous
          /\ \A g \in Faults : g # f => q.faults[g] = d.faults[g]
          /\ ~q.faults[f].present
          /\ up => q.redis.faults = d.redis.faults \ {f}
        BY <1>1, <1>7, DeactivatedFields
    <2>2. up /\ Shown(d) => Shown(q)
        BY <2>1 DEF Shown
    <2>3. Mild(d, q, up)
        BY <1>3, <1>7, <2>1, <2>2 DEF Mild, Stuck
    <2> QED
        BY <1>1, <1>2, <1>7, <2>1, <2>3, MildTrans DEF OneMore
<1>8. CASE f = CommsError /\ q = Arm(d, f, "reset", CommsReset)
    <2>1. NewTimer(d) \in TimerIds
        BY <1>1, RoomShrinks, FreeTimer
    <2>2. /\ q \in ReaderType
          /\ q.timers = d.timers \cup {[id |-> NewTimer(d), fault |-> f,
                                        kind |-> "reset", left |-> CommsReset]}
          /\ q.data = d.data /\ q.previous = d.previous /\ q.redis = d.redis
          /\ \A g \in Faults : g # f => q.faults[g] = d.faults[g]
          /\ q.faults[f].present = d.faults[f].present
          /\ q.faults[f].pendingReset /\ q.faults[f].pendingSet = d.faults[f].pendingSet
        BY <1>1, <1>8, <2>1, ArmFields, DelaysAssumption DEF Kinds
    <2>3. Shown(d) => Shown(q)
        BY <2>2 DEF Shown
    <2>4. Mild(r, q, up) /\ ~Stuck(q)
        BY <1>1, <1>2, <1>3, <1>8, <2>2, <2>3 DEF Mild, Stuck
    <2>5. OneMore(r, q)
        BY <1>1, <2>2 DEF OneMore
    <2> QED
        BY <1>1, <1>2, <1>8, <2>2, <2>4, <2>5
<1> QED
    BY <1>4, <1>5, <1>6, <1>7, <1>8

(* ... keeps the timers linked, and ends a wait to set the fault. *)
LEMMA ClearFaultLinked ==
    ASSUME NEW r, NEW W, NEW df, NEW dk, Linked(r, W, df, dk), Room(r),
           NEW f \in Faults, f # df, NEW up \in BOOLEAN, NEW q, q = ClearFault(r, f, up)
    PROVE  Linked(q, W, df, dk) /\ ~q.faults[f].pendingSet
<1> DEFINE d == Disarmed(r, f)
<1>1. /\ Linked(d, W, df, dk)
      /\ \A k \in Kinds : ~Pending(d.faults[f], k) /\ Pointer(d.faults[f], k) = 0
    BY DisarmedLinked
<1>2. ~d.faults[f].pendingSet
    BY <1>1 DEF Pending, Kinds
<1>3. \/ q = r /\ Idle(r.faults[f])
      \/ q = d
      \/ f # CommsError /\ q = Deactivated(d, f, up)
      \/ f = CommsError /\ q = Arm(d, f, "reset", CommsReset)
    BY DelaysAssumption DEF ClearFault, ResetDelay
<1>4. Room(d)
    BY DisarmedMild, RoomShrinks DEF Linked
<1> HIDE DEF d
<1>5. CASE q = r /\ Idle(r.faults[f])
    BY <1>5 DEF Idle
<1>6. CASE q = d
    BY <1>1, <1>2, <1>6
<1>7. CASE f # CommsError /\ q = Deactivated(d, f, up)
    <2>0. d \in ReaderType
        BY <1>1 DEF Linked
    <2>1. /\ q \in ReaderType /\ q.timers = d.timers
          /\ \A g \in Faults : \A k \in Kinds :
                /\ Pending(q.faults[g], k) = Pending(d.faults[g], k)
                /\ Pointer(q.faults[g], k) = Pointer(d.faults[g], k)
        BY <1>7, <2>0, DeactivatedFields
    <2>2. Linked(q, W, df, dk)
        BY <1>1, <2>1, LinkedSame
    <2> QED
        BY <1>1, <2>1, <2>2 DEF Pending, Kinds
<1>8. CASE f = CommsError /\ q = Arm(d, f, "reset", CommsReset)
    <2>1. Linked(q, W, df, dk)
        BY <1>1, <1>4, <1>8, ArmLinked, DelaysAssumption DEF Kinds
    <2>2. NewTimer(d) \in TimerIds /\ d \in ReaderType
        BY <1>1, <1>4, FreeTimer DEF Linked
    <2>3. q.faults[f].pendingSet = d.faults[f].pendingSet
        BY <1>8, <2>2, ArmFields, DelaysAssumption DEF Kinds
    <2> QED
        BY <1>2, <2>1, <2>3
<1> QED
    BY <1>3, <1>5, <1>6, <1>7, <1>8

(* Setting fault f may leave something behind in it; otherwise it is mild. *)
Raises(r, q, up, f) ==
    /\ q \in ReaderType
    /\ f # CommsError =>
          /\ q.faults[CommsError].pendingSet => r.faults[CommsError].pendingSet
          /\ Stuck(q) => Stuck(r)
    /\ f # PowerOff => (q.faults[PowerOff].present => r.faults[PowerOff].present)
    /\ up /\ Shown(r) => Shown(q)

(* The frame is kept or forgotten. *)
FrameKept(r, q) == q.data = r.data \/ q.data = NoData

(* Faults without a debounce. *)
LEMMA ApplyPlainMild ==
    ASSUME NEW r \in ReaderType, NEW W, NEW df, NEW dk, Linked(r, W, df, dk),
           NEW S \in SUBSET Faults, NEW C \in SUBSET Faults, S \cap C = {},
           CommsError \notin S, PowerOff \notin S,
           NEW up \in BOOLEAN, NEW q, q = ApplyPlain(r, S, C, up)
    PROVE  /\ Mild(r, q, up) /\ Linked(q, W, df, dk)
           /\ q.timers = r.timers /\ q.data = r.data
<1>1. r \in ReaderType /\ r.faults \in [Faults -> FaultType]
    BY DEF Linked, ReaderType
<1>2. /\ q \in ReaderType
      /\ q.timers = r.timers /\ q.data = r.data
      /\ \A f \in Faults :
            /\ q.faults[f].present <=> (r.faults[f].present \/ f \in S) /\ f \notin C
            /\ q.faults[f].pendingSet = r.faults[f].pendingSet
            /\ q.faults[f].pendingReset = r.faults[f].pendingReset
            /\ q.faults[f].setTimer = r.faults[f].setTimer
            /\ q.faults[f].resetTimer = r.faults[f].resetTimer
      /\ up => q.redis.faults = (r.redis.faults \cup (S \ PresentFaults(r)))
                                \ (C \cap PresentFaults(r))
    <2> DEFINE new == [f \in Faults |-> [r.faults[f] EXCEPT
                                    !.present = (r.faults[f].present \/ f \in S) /\ f \notin C]]
               set == IF up THEN (r.redis.faults \cup (S \ PresentFaults(r)))
                                 \ (C \cap PresentFaults(r))
                            ELSE r.redis.faults
    <2>1. r.faults \in [Faults -> FaultType] /\ r.redis \in RedisType
        BY DEF ReaderType
    <2>2. new \in [Faults -> FaultType]
        BY <2>1 DEF FaultType
    <2>3. set \in SUBSET Faults
        BY <2>1 DEF RedisType, PresentFaults
    <2> DEFINE x == [r EXCEPT !.faults = new]
               redis == [r.redis EXCEPT !.faults = set]
    <2>8. x.redis = r.redis
        BY DEF ReaderType
    <2>9. q = [x EXCEPT !.redis.faults =
                    IF up THEN (x.redis.faults \cup (S \ PresentFaults(r)))
                               \ (C \cap PresentFaults(r))
                          ELSE x.redis.faults]
        BY DEF ApplyPlain
    <2>4. q = Rewritten(r, new, redis, r.previous)
        <3>1. q = [x EXCEPT !.redis.faults = set]
            BY <2>8, <2>9
        <3> HIDE DEF set, new
        <3> QED
            BY <2>8, <3>1 DEF Rewritten, ReaderType, RedisType
    <2>5. \A f \in Faults :
             /\ new[f].present <=> (r.faults[f].present \/ f \in S) /\ f \notin C
             /\ new[f].pendingSet = r.faults[f].pendingSet
             /\ new[f].pendingReset = r.faults[f].pendingReset
             /\ new[f].setTimer = r.faults[f].setTimer
             /\ new[f].resetTimer = r.faults[f].resetTimer
        BY <2>1 DEF FaultType
    <2>6. up => set = (r.redis.faults \cup (S \ PresentFaults(r))) \ (C \cap PresentFaults(r))
        OBVIOUS
    <2> HIDE DEF new, set
    <2>7. /\ q \in ReaderType
          /\ q.timers = r.timers /\ q.data = r.data /\ q.previous = r.previous
          /\ q.faults = new /\ q.redis.faults = set
        <3>1. redis \in RedisType /\ redis.faults = set
            BY <2>1, <2>3 DEF RedisType
        <3>2. r.previous \in DataType
            BY DEF ReaderType
        <3> HIDE DEF redis
        <3> QED
            BY <2>2, <2>4, <3>1, <3>2, RewrittenFields
    <2> QED
        BY <2>5, <2>6, <2>7
<1>4. up /\ Shown(r) => Shown(q)
    BY <1>2 DEF Shown, PresentFaults
<1>5. CommsError \in Faults /\ PowerOff \in Faults
    BY FaultNumbers DEF Software
<1>6. Mild(r, q, up)
    BY <1>2, <1>4, <1>5 DEF Mild, Stuck
<1>7. \A f \in Faults : \A k \in Kinds :
         /\ Pending(q.faults[f], k) = Pending(r.faults[f], k)
         /\ Pointer(q.faults[f], k) = Pointer(r.faults[f], k)
    BY <1>2 DEF Pending, Pointer
<1> QED
    BY <1>2, <1>6, <1>7, LinkedSame

(* Clearing a set of faults. *)
LEMMA ClearFaultsMild ==
    ASSUME NEW r, NEW W, NEW df, NEW dk, Linked(r, W, df, dk), Room(r),
           NEW F \in SUBSET Faults, CommsError \in F => df # CommsError,
           NEW up \in BOOLEAN, NEW q, q = ClearFaults(r, F, up)
    PROVE  /\ Mild(r, q, up) /\ Linked(q, W, df, dk) /\ OneMore(r, q)
           /\ q.data = r.data
           /\ CommsError \notin F => q.timers = r.timers
<1> DEFINE p == ApplyPlain(r, {}, F \ {CommsError}, up)
<1>1. /\ Mild(r, p, up) /\ Linked(p, W, df, dk) /\ p.timers = r.timers /\ p.data = r.data
    <2> DEFINE S == {}
               C == F \ {CommsError}
    <2>1. /\ r \in ReaderType /\ S \in SUBSET Faults /\ C \in SUBSET Faults
          /\ S \cap C = {} /\ CommsError \notin S /\ PowerOff \notin S
        BY DEF Linked
    <2>2. p = ApplyPlain(r, S, C, up)
        OBVIOUS
    <2> HIDE DEF S, C, p
    <2> QED
        BY <2>1, <2>2, ApplyPlainMild
<1>2. q = IF CommsError \in F THEN ClearFault(p, CommsError, up) ELSE p
    BY DEF ClearFaults
<1> HIDE DEF p
<1>3. Room(p) /\ p \in ReaderType /\ waiting \subseteq TimerType
    BY <1>1, RoomShrinks DEF Linked
<1>4. CASE CommsError \notin F
    BY <1>1, <1>2, <1>4 DEF OneMore
<1>5. CASE CommsError \in F
    <2>1. q = ClearFault(p, CommsError, up) /\ CommsError \in Faults
        BY <1>2, <1>5
    <2>2. Mild(p, q, up) /\ OneMore(p, q) /\ q.data = p.data
        BY <1>3, <2>1, ClearFaultMild
    <2>3. Linked(q, W, df, dk)
        BY <1>1, <1>3, <1>5, <2>1, ClearFaultLinked
    <2> QED
        BY <1>1, <1>5, <2>2, <2>3, MildTrans DEF OneMore
<1> QED
    BY <1>4, <1>5

(* A status transaction. *)
LEMMA SendMild ==
    ASSUME NEW r, NEW W, NEW df, NEW dk, Linked(r, W, df, dk),
           NEW up \in BOOLEAN, NEW q, q = sendStatusUpdate(r, up)
    PROVE  /\ Mild(r, q, up) /\ Linked(q, W, df, dk)
           /\ q.timers = r.timers /\ q.data = r.data
           /\ \A f \in Faults : q.faults[f].present = r.faults[f].present
<1>1. r \in ReaderType
    BY DEF Linked
<1>2. /\ q \in ReaderType
      /\ q.timers = r.timers /\ q.data = r.data
      /\ \A f \in Faults : \A k \in Kinds :
            /\ q.faults[f].present = r.faults[f].present
            /\ Pending(q.faults[f], k) = Pending(r.faults[f], k)
            /\ Pointer(q.faults[f], k) = Pointer(r.faults[f], k)
      /\ \A f \in Faults :
            f \in q.redis.faults =>
               f \in r.redis.faults \/ r.faults[f].present
      /\ \A f \in Faults :
            (f \in r.redis.faults /\ r.faults[f].present) => f \in q.redis.faults
    BY <1>1, SendFields
<1>3. \A f \in Faults : /\ q.faults[f].present = r.faults[f].present
                        /\ q.faults[f].pendingSet = r.faults[f].pendingSet
                        /\ q.faults[f].pendingReset = r.faults[f].pendingReset
    BY <1>2 DEF Pending, Kinds
<1>4. Shown(r) => Shown(q)
    BY <1>2, <1>3 DEF Shown
<1>5. CommsError \in Faults /\ PowerOff \in Faults
    BY FaultNumbers DEF Software
<1>6. Mild(r, q, up)
    BY <1>2, <1>3, <1>4, <1>5 DEF Mild, Stuck
<1> QED
    BY <1>2, <1>3, <1>6, LinkedSame

(* A fault becomes present. *)
LEMMA ActivatedRaises ==
    ASSUME NEW r, NEW W, NEW df, NEW dk, Linked(r, W, df, dk), Room(r),
           NEW f \in Faults, f > CommsError => df # CommsError,
           NEW up \in BOOLEAN, NEW q, q = Activated(r, f, up)
    PROVE  /\ Raises(r, q, up, f) /\ Linked(q, W, df, dk) /\ OneMore(r, q)
           /\ FrameKept(r, q)
           /\ f <= CommsError => q.timers = r.timers
<1> DEFINE lesser == {g \in PresentFaults(r) : g < f}
           some == ClearFaults(r, lesser, up)
           cleared == [some EXCEPT !.data = NoData]
           shown == IF f \in Critical THEN sendStatusUpdate(cleared, up) ELSE r
           active == IF f = CommsError /\ ~tagPresent THEN r
                     ELSE reportFault(shown, f, TRUE, up)
<1>0. /\ CommsError \in Faults /\ PowerOff \in Faults /\ CommsError # PowerOff
      /\ f \in Int /\ CommsError \in Int /\ lesser \in SUBSET Faults
      /\ CommsError \in lesser => f > CommsError
    BY FaultNumbers DEF Software, CommsError, PowerOff, PresentFaults
<1>1. /\ Mild(r, some, up) /\ Linked(some, W, df, dk) /\ OneMore(r, some)
      /\ f <= CommsError => some.timers = r.timers
    BY <1>0, ClearFaultsMild
<1> HIDE DEF some, lesser
<1>2. /\ cleared \in ReaderType /\ cleared.timers = some.timers
      /\ cleared.faults = some.faults /\ cleared.redis = some.redis
      /\ cleared.data = NoData
    BY <1>1 DEF Linked, ReaderType, NoData, DataType
<1> HIDE DEF cleared
<1>3. Mild(some, cleared, up) /\ Linked(cleared, W, df, dk)
    <2>1. Shown(some) => Shown(cleared)
        BY <1>2 DEF Shown
    <2>2. Linked(cleared, W, df, dk)
        BY <1>1, <1>2, LinkedSame
    <2> QED
        BY <1>2, <2>1, <2>2 DEF Mild, Stuck
<1>4. /\ Mild(r, shown, up) /\ Linked(shown, W, df, dk) /\ OneMore(r, shown)
      /\ FrameKept(r, shown)
      /\ f <= CommsError => shown.timers = r.timers
    <2>1. CASE f \notin Critical
        BY <2>1 DEF Mild, OneMore, FrameKept, Linked
    <2>2. CASE f \in Critical
        <3>1. shown = sendStatusUpdate(cleared, up)
            BY <2>2
        <3> HIDE DEF shown
        <3>2. /\ Mild(cleared, shown, up) /\ Linked(shown, W, df, dk)
              /\ shown.timers = cleared.timers /\ shown.data = cleared.data
            BY <1>3, <3>1, SendMild
        <3>3. Mild(r, cleared, up)
            BY <1>1, <1>3, MildTrans
        <3> QED
            BY <1>1, <1>2, <3>2, <3>3, MildTrans DEF OneMore, FrameKept
    <2> QED
        BY <2>1, <2>2
<1> HIDE DEF shown
<1>5. q = Raised(active, f)
    BY DEF Activated, Raised, active, shown, cleared, some, lesser
<1>6. /\ active \in ReaderType /\ Linked(active, W, df, dk)
      /\ OneMore(r, active) /\ FrameKept(r, active)
      /\ f <= CommsError => active.timers = r.timers
      /\ active.faults[CommsError].pendingSet => r.faults[CommsError].pendingSet
      /\ Stuck(active) => Stuck(r)
      /\ active.faults[PowerOff].present => r.faults[PowerOff].present
      /\ up /\ Shown(r) => \A g \in Faults \ overtaken :
            /\ g \in active.redis.faults => active.faults[g].present \/ g = f
            /\ active.faults[g].present /\ g # CommsError => g \in active.redis.faults
            /\ g = f /\ g # CommsError => g \in active.redis.faults
    <2>1. CASE f = CommsError /\ ~tagPresent
        <3>1. active = r
            BY <2>1
        <3> HIDE DEF active
        <3> QED
            BY <2>1, <3>1 DEF OneMore, FrameKept, Linked, Shown
    <2>2. CASE ~(f = CommsError /\ ~tagPresent)
        <3>1. active = Reported(shown, f, up) /\ shown \in ReaderType
            BY <1>4, <2>2 DEF Linked, Reported
        <3> HIDE DEF active
        <3>2. /\ active \in ReaderType
              /\ active.timers = shown.timers /\ active.data = shown.data
              /\ active.faults = shown.faults
              /\ up => active.redis.faults = shown.redis.faults \cup {f}
            BY <3>1, ReportFields
        <3>3. Linked(active, W, df, dk)
            BY <1>4, <3>2, LinkedSame
        <3>4. up /\ Shown(r) => Shown(shown)
            BY <1>4 DEF Mild
        <3>5. up /\ Shown(r) => \A g \in Faults \ overtaken :
                 /\ g \in active.redis.faults => active.faults[g].present \/ g = f
                 /\ active.faults[g].present /\ g # CommsError => g \in active.redis.faults
                 /\ g = f /\ g # CommsError => g \in active.redis.faults
            BY <3>2, <3>4 DEF Shown
        <3> QED
            <4>1. OneMore(r, active) /\ FrameKept(r, active)
                BY <1>4, <3>2 DEF OneMore, FrameKept
            <4>2. /\ active.faults[CommsError].pendingSet => r.faults[CommsError].pendingSet
                  /\ Stuck(active) => Stuck(r)
                  /\ active.faults[PowerOff].present => r.faults[PowerOff].present
                BY <1>4, <3>2 DEF Mild, Stuck
            <4> QED
                BY <1>4, <3>2, <3>3, <3>5, <4>1, <4>2
    <2> QED
        BY <2>1, <2>2
<1> HIDE DEF active
<1> DEFINE n == [active.faults[f] EXCEPT !.present = TRUE]
<1>7. q = WithFault(active, f, n)
    BY <1>5, <1>6, FlagUpdates
<1>8. /\ n \in FaultType /\ n.present
      /\ n.pendingSet = active.faults[f].pendingSet
      /\ n.pendingReset = active.faults[f].pendingReset
      /\ \A k \in Kinds : /\ Pending(n, k) = Pending(active.faults[f], k)
                          /\ Pointer(n, k) = Pointer(active.faults[f], k)
    BY <1>6, ZenonT(60) DEF ReaderType, FaultType, Pending, Pointer
<1> HIDE DEF n
<1>9. /\ q \in ReaderType
      /\ q.timers = active.timers /\ q.data = active.data
      /\ q.redis = active.redis
      /\ \A g \in Faults : g # f => q.faults[g] = active.faults[g]
      /\ q.faults[f] = n
    BY <1>6, <1>7, <1>8, WithFaultFields
<1>10. Linked(q, W, df, dk)
    <2>1. \A g \in Faults : \A k \in Kinds :
             /\ Pending(q.faults[g], k) = Pending(active.faults[g], k)
             /\ Pointer(q.faults[g], k) = Pointer(active.faults[g], k)
        BY <1>8, <1>9
    <2> QED
        BY <1>6, <1>9, <2>1, LinkedSame
<1>11. up /\ Shown(r) => Shown(q)
    BY <1>6, <1>8, <1>9 DEF Shown
<1>12. Raises(r, q, up, f)
    BY <1>0, <1>6, <1>8, <1>9, <1>11 DEF Raises, Stuck
<1> QED
    BY <1>6, <1>9, <1>10, <1>12 DEF OneMore, FrameKept

(* Setting a fault, at once or through a timer. *)
LEMMA SetFaultRaises ==
    ASSUME NEW r, NEW W, NEW df, NEW dk, Linked(r, W, df, dk), Room(r),
           NEW f \in Faults, f # df, df # CommsError,
           NEW up \in BOOLEAN, NEW q, q = SetFault(r, f, up)
    PROVE  /\ Raises(r, q, up, f) /\ Linked(q, W, df, dk) /\ OneMore(r, q)
           /\ FrameKept(r, q)
           /\ f \notin {CommsError, ReaderError, PowerOff} => q.timers \subseteq r.timers
           /\ f = CommsError => q.data = r.data
<1> DEFINE d == Disarmed(r, f)
<1>0. /\ CommsError \in Faults /\ PowerOff \in Faults /\ CommsError # PowerOff
      /\ r \in ReaderType /\ waiting \subseteq TimerType
      /\ f \notin {CommsError, ReaderError, PowerOff} => f <= CommsError
    BY FaultNumbers DEF Linked, Faults, Software, ZeroData, CommsError, ReaderError, PowerOff
<1>1. /\ d \in ReaderType /\ d.timers \subseteq r.timers /\ d.data = r.data
      /\ \A g \in Faults : d.faults[g].present = r.faults[g].present
      /\ d.faults[CommsError].pendingSet => r.faults[CommsError].pendingSet
      /\ Shown(r) => Shown(d)
      /\ f # CommsError => Mild(r, d, up)
    BY <1>0, DisarmedMild
<1>2. /\ Linked(d, W, df, dk)
      /\ \A k \in Kinds : Pointer(d.faults[f], k) = 0
    BY DisarmedLinked
<1>3. Room(d)
    BY <1>1, RoomShrinks
<1>4. \/ q = r
      \/ f \notin {CommsError, ReaderError} /\ q = Activated(d, f, up)
      \/ f \in {CommsError, ReaderError} /\ q = Arm(d, f, "set", SetDelay(f))
    BY DelaysAssumption DEF SetFault, SetDelay
<1> HIDE DEF d
<1>5. CASE q = r
    BY <1>0, <1>5 DEF Raises, OneMore, FrameKept
<1>6. CASE f \notin {CommsError, ReaderError} /\ q = Activated(d, f, up)
    <2>1. /\ Raises(d, q, up, f) /\ Linked(q, W, df, dk) /\ OneMore(d, q)
          /\ FrameKept(d, q)
          /\ f <= CommsError => q.timers = d.timers
        BY <1>2, <1>3, <1>6, ActivatedRaises
    <2>2. Raises(r, q, up, f)
        BY <1>1, <1>6, <2>1 DEF Raises, Mild
    <2>3. OneMore(r, q) /\ FrameKept(r, q)
        BY <1>1, <2>1 DEF OneMore, FrameKept
    <2> QED
        BY <1>0, <1>1, <1>6, <2>1, <2>2, <2>3
<1>7. CASE f \in {CommsError, ReaderError} /\ q = Arm(d, f, "set", SetDelay(f))
    <2>0. SetDelay(f) \in Nat /\ "set" \in Kinds
        BY <1>7, DelaysAssumption DEF SetDelay, Kinds, CommsError, ReaderError
    <2>1. NewTimer(d) \in TimerIds
        BY <1>0, <1>1, <1>3, FreeTimer
    <2>2. /\ q \in ReaderType
          /\ q.timers = d.timers \cup {[id |-> NewTimer(d), fault |-> f,
                                        kind |-> "set", left |-> SetDelay(f)]}
          /\ q.data = d.data /\ q.previous = d.previous /\ q.redis = d.redis
          /\ \A g \in Faults : g # f => q.faults[g] = d.faults[g]
          /\ q.faults[f].present = d.faults[f].present
        BY <1>1, <1>7, <2>0, <2>1, ArmFields
    <2>3. Linked(q, W, df, dk)
        BY <1>2, <1>3, <1>7, <2>0, ArmLinked
    <2>4. Shown(d) => Shown(q)
        BY <2>2 DEF Shown
    <2>5. PowerOff # f
        BY <1>7 DEF PowerOff, CommsError, ReaderError
    <2>6. Raises(r, q, up, f)
        BY <1>0, <1>1, <2>2, <2>4, <2>5 DEF Raises, Mild, Stuck
    <2>7. OneMore(r, q)
        BY <1>1, <2>2 DEF OneMore
    <2> QED
        BY <1>1, <1>7, <2>2, <2>3, <2>6, <2>7 DEF FrameKept
<1> QED
    BY <1>4, <1>5, <1>6, <1>7

(* The body of a callback, when its timer t is neither armed nor waiting. *)
LEMMA CallbackLinked ==
    ASSUME NEW t \in TimerType, NEW r, NEW W, Linked(r, W, t.fault, t.kind), Room(r),
           NEW up \in BOOLEAN, NEW q, q = Callback(r, t, up)
    PROVE  /\ Linked(q, W, 0, "none") /\ OneMore(r, q) /\ FrameKept(r, q)
           /\ Raises(r, q, up, t.fault)
           /\ t.kind = "reset" => Mild(r, q, up)
           /\ t.fault = CommsError /\ t.kind = "set" => ~q.faults[CommsError].pendingSet
<1> DEFINE f == t.fault
           k == t.kind
<1>0. /\ f \in {CommsError, ReaderError} /\ f \in Faults /\ k \in Kinds
      /\ 0 \notin Faults /\ CommsError \in Faults /\ PowerOff \in Faults
      /\ PowerOff # f /\ r \in ReaderType /\ waiting \subseteq TimerType
      /\ f > CommsError => f # CommsError
    BY FaultNumbers DEF Linked, TimerType, Software, Kinds, PowerOff, CommsError, ReaderError
<1> HIDE DEF f, k
<1>1. Linked(r, W, f, k)
    BY DEF f, k
<1>2. ASSUME NEW p, Linked(p, W, f, k), OneMore(r, p), FrameKept(r, p), Raises(r, p, up, f),
             NEW n \in FaultType, n.present = p.faults[f].present,
             ~Pending(n, k), Pointer(n, k) = 0,
             \A j \in Kinds : j # k => /\ Pending(n, j) = Pending(p.faults[f], j)
                                       /\ Pointer(n, j) = Pointer(p.faults[f], j),
             q = WithFault(p, f, n)
      PROVE  /\ Linked(q, W, 0, "none") /\ OneMore(r, q) /\ FrameKept(r, q)
             /\ Raises(r, q, up, f)
    <2>0. p \in ReaderType /\ q = WithFault(p, f, n)
        BY <1>2 DEF Linked
    <2>1. /\ q \in ReaderType
          /\ q.timers = p.timers /\ q.data = p.data /\ q.redis = p.redis
          /\ \A g \in Faults : g # f => q.faults[g] = p.faults[g]
          /\ q.faults[f] = n
        BY <1>0, <2>0, WithFaultFields, SMTT(40)
    <2>2. Distinct(q, W)
        BY <1>2, <2>1 DEF Linked, Distinct
    <2>3. Tracked(q, W, 0, "none")
        <3> SUFFICES ASSUME NEW g \in Faults, NEW j \in Kinds
                     PROVE  /\ Pending(q.faults[g], j) <=> Pointer(q.faults[g], j) # 0
                            /\ Pointer(q.faults[g], j) # 0 =>
                                 \E u \in q.timers \cup W :
                                     /\ u.id = Pointer(q.faults[g], j)
                                     /\ u.fault = g /\ u.kind = j
            BY DEF Tracked
        <3>1. CASE g = f /\ j = k
            BY <1>2, <2>1, <3>1
        <3>2. CASE ~(g = f /\ j = k)
            <4>1. /\ Pending(q.faults[g], j) = Pending(p.faults[g], j)
                  /\ Pointer(q.faults[g], j) = Pointer(p.faults[g], j)
                BY <1>2, <2>1, <3>2
            <4> QED
                BY <1>2, <2>1, <3>2, <4>1 DEF Linked, Tracked
        <3> QED
            BY <3>1, <3>2
    <2>4. Owned(q, W, 0, "none")
        <3>1. \A u \in p.timers : u.fault \in Faults /\ u.kind \in Kinds
            BY <2>0, FaultNumbers DEF ReaderType, TimerType, Kinds, Software
        <3>2. ASSUME NEW u \in p.timers, ~scene.late
              PROVE  /\ ~(u.fault = f /\ u.kind = k)
                     /\ Pointer(p.faults[u.fault], u.kind) = u.id
            BY <1>2, <3>2 DEF Linked, Owned
        <3>3. ASSUME NEW u \in p.timers, ~scene.late
              PROVE  Pointer(q.faults[u.fault], u.kind) = u.id
            BY <1>2, <2>1, <3>1, <3>2, <3>3
        <3>4. \A u \in p.timers : u.fault # 0
            BY <1>0, <3>1
        <3> QED
            BY <1>2, <2>1, <3>3, <3>4 DEF Linked, Owned
    <2>5. Linked(q, W, 0, "none")
        BY <1>2, <2>1, <2>2, <2>3, <2>4 DEF Linked
    <2>6. up /\ Shown(p) => Shown(q)
        BY <1>2, <2>1 DEF Shown
    <2>7. Raises(r, q, up, f)
        BY <1>0, <1>2, <2>1, <2>6 DEF Raises, Stuck
    <2> QED
        BY <1>2, <2>1, <2>5, <2>7 DEF OneMore, FrameKept
<1>3. CASE k = "set"
    <2> DEFINE p == Activated(r, f, up)
               n == [p.faults[f] EXCEPT !.pendingSet = FALSE, !.setTimer = 0]
    <2>1. q = SetDone(p, f)
        BY <1>3 DEF Callback, SetDone, f, k
    <2>2. Linked(p, W, f, k) /\ OneMore(r, p) /\ FrameKept(r, p) /\ Raises(r, p, up, f)
        BY <1>0, <1>1, ActivatedRaises
    <2> HIDE DEF p
    <2>3. p \in ReaderType /\ p.faults[f] \in FaultType
        BY <1>0, <2>2, SMTT(40) DEF Linked, ReaderType
    <2>4. q = WithFault(p, f, n)
        BY <1>0, <2>1, <2>3, FlagUpdates
    <2>5. /\ n \in FaultType /\ n.present = p.faults[f].present
          /\ ~n.pendingSet /\ ~Pending(n, k) /\ Pointer(n, k) = 0
          /\ \A j \in Kinds : j # k => /\ Pending(n, j) = Pending(p.faults[f], j)
                                       /\ Pointer(n, j) = Pointer(p.faults[f], j)
        BY <1>3, <2>3 DEF FaultType, Pending, Pointer, Kinds
    <2> HIDE DEF n
    <2>6. /\ Linked(q, W, 0, "none") /\ OneMore(r, q) /\ FrameKept(r, q)
          /\ Raises(r, q, up, f)
        <3>1. /\ n \in FaultType /\ n.present = p.faults[f].present
              /\ ~Pending(n, k) /\ Pointer(n, k) = 0
              /\ \A j \in Kinds : j # k => /\ Pending(n, j) = Pending(p.faults[f], j)
                                           /\ Pointer(n, j) = Pointer(p.faults[f], j)
            BY <2>5
        <3> QED
            BY <1>2, <2>2, <2>4, <3>1
    <2>7. q.faults[f] = n
        <3>1. f \in Faults /\ p \in ReaderType /\ n \in FaultType
            BY <1>0, <2>3, <2>5
        <3> QED
            BY <2>4, <3>1, WithFaultFields
    <2> QED
        BY <1>3, <2>5, <2>6, <2>7 DEF f, k
<1>4. CASE k = "reset"
    <2> DEFINE p == Deactivated(r, f, up)
               n == [p.faults[f] EXCEPT !.pendingReset = FALSE, !.resetTimer = 0]
    <2>1. q = ResetDone(p, f)
        BY <1>4 DEF Callback, ResetDone, f, k
    <2>2. /\ p \in ReaderType
          /\ p.timers = r.timers /\ p.data = r.data
          /\ \A g \in Faults : g # f => p.faults[g] = r.faults[g]
          /\ \A j \in Kinds : /\ Pending(p.faults[f], j) = Pending(r.faults[f], j)
                              /\ Pointer(p.faults[f], j) = Pointer(r.faults[f], j)
          /\ ~p.faults[f].present
          /\ up => p.redis.faults = r.redis.faults \ {f}
        BY <1>0, DeactivatedFields, SMTT(40)
    <2> HIDE DEF p
    <2>3. p.faults[f] \in FaultType
        BY <1>0, <2>2 DEF ReaderType
    <2>4. q = WithFault(p, f, n)
        BY <1>0, <2>1, <2>2, FlagUpdates
    <2>5. /\ n \in FaultType /\ n.present = p.faults[f].present
          /\ n.pendingSet = p.faults[f].pendingSet
          /\ ~Pending(n, k) /\ Pointer(n, k) = 0
          /\ \A j \in Kinds : j # k => /\ Pending(n, j) = Pending(p.faults[f], j)
                                       /\ Pointer(n, j) = Pointer(p.faults[f], j)
        BY <1>4, <2>3 DEF FaultType, Pending, Pointer, Kinds
    <2> HIDE DEF n
    <2>6. Linked(p, W, f, k)
        <3>1. \A g \in Faults : \A j \in Kinds :
                 /\ Pending(p.faults[g], j) = Pending(r.faults[g], j)
                 /\ Pointer(p.faults[g], j) = Pointer(r.faults[g], j)
            BY <2>2
        <3> QED
            BY <1>1, <2>2, <3>1, LinkedSame
    <2>7. up /\ Shown(r) => Shown(p)
        BY <2>2 DEF Shown
    <2>8. p.faults[f].pendingSet = r.faults[f].pendingSet
        BY <2>2 DEF Pending, Kinds
    <2>9. Raises(r, p, up, f)
        BY <1>0, <2>2, <2>7 DEF Raises, Stuck
    <2>10. OneMore(r, p) /\ FrameKept(r, p)
        BY <2>2 DEF OneMore, FrameKept
    <2>11. /\ Linked(q, W, 0, "none") /\ OneMore(r, q) /\ FrameKept(r, q)
           /\ Raises(r, q, up, f)
        BY <1>2, <2>4, <2>5, <2>6, <2>9, <2>10
    <2>12. /\ q.faults[f] = n
           /\ \A g \in Faults : g # f => q.faults[g] = p.faults[g]
        BY <1>0, <2>2, <2>4, <2>5, WithFaultFields, SMTT(40)
    <2>13. Mild(r, q, up)
        BY <1>0, <2>2, <2>5, <2>8, <2>11, <2>12 DEF Raises, Mild, Stuck
    <2> QED
        BY <1>4, <2>11, <2>13 DEF f, k
<1> QED
    BY <1>0, <1>3, <1>4 DEF Kinds

-----------------------------------------------------------------------------
(* Frames. *)

(* Another frame in r.data. *)
WithData(r, D) == [r EXCEPT !.data = D]

(* A frame by itself changes no fault. *)
LEMMA WithDataMild ==
    ASSUME NEW r, NEW W, NEW df, NEW dk, Linked(r, W, df, dk),
           NEW D \in DataType, NEW up \in BOOLEAN, NEW q, q = WithData(r, D)
    PROVE  /\ Mild(r, q, up) /\ Linked(q, W, df, dk)
           /\ q.timers = r.timers /\ q.data = D /\ q.faults = r.faults
<1>1. /\ q \in ReaderType /\ q.timers = r.timers /\ q.data = D
      /\ q.faults = r.faults /\ q.redis = r.redis
    BY DEF Linked, ReaderType, WithData
<1>2. Shown(r) => Shown(q)
    BY <1>1 DEF Shown
<1>3. Linked(q, W, df, dk)
    BY <1>1, LinkedSame
<1> QED
    BY <1>1, <1>2, <1>3 DEF Mild, Stuck

(* A fault other than the two with a history, set or cleared. *)
LEMMA PlainFaultMild ==
    ASSUME NEW r, Linked(r, waiting, 0, "none"), Room(r),
           NEW f \in Faults, f \notin {CommsError, ReaderError, PowerOff},
           NEW b \in BOOLEAN, NEW up \in BOOLEAN, NEW q, q = setFault(r, f, b, up)
    PROVE  /\ Mild(r, q, up) /\ Linked(q, waiting, 0, "none")
           /\ q.timers \subseteq r.timers /\ FrameKept(r, q)
<1>1. f # 0 /\ 0 # CommsError /\ r \in ReaderType /\ waiting \subseteq TimerType
    BY FaultNumbers DEF Linked, CommsError
<1>2. CASE b
    <2>1. q = SetFault(r, f, up)
        BY <1>2 DEF setFault
    <2>2. /\ Raises(r, q, up, f) /\ Linked(q, waiting, 0, "none")
          /\ q.timers \subseteq r.timers /\ FrameKept(r, q)
        BY <1>1, <2>1, SetFaultRaises
    <2> QED
        BY <2>2 DEF Raises, Mild
<1>3. CASE ~b
    <2>1. q = ClearFault(r, f, up)
        BY <1>3 DEF setFault
    <2>2. Mild(r, q, up) /\ q.timers \subseteq r.timers /\ q.data = r.data
        BY <1>1, <2>1, ClearFaultMild
    <2>3. Linked(q, waiting, 0, "none")
        BY <1>1, <2>1, ClearFaultLinked
    <2> QED
        BY <2>2, <2>3 DEF FrameKept
<1> QED
    BY <1>2, <1>3

(* The bits of a frame, against those of the frame before. *)
LEMMA ParseHardwareMild ==
    ASSUME NEW r, Linked(r, waiting, 0, "none"), Room(r),
           NEW code \in SUBSET Hardware, NEW previous \in SUBSET Hardware,
           NEW up \in BOOLEAN, NEW q, q = parseHardwareFaults(r, code, previous, up)
    PROVE  /\ Mild(r, q, up) /\ Linked(q, waiting, 0, "none")
           /\ q.timers \subseteq r.timers /\ FrameKept(r, q)
<1> DEFINE lower == {f \in Hardware : f < Latch}
           higher == {f \in Hardware : f > Latch}
           some(x, F) == ApplyPlain(x, (code \ previous) \cap F, (previous \ code) \cap F, up)
           low == some(r, lower)
           on == Latch \in code
           latched == IF (Latch \in code) = (Latch \in previous) THEN low
                      ELSE setFault(low, Latch, on, up)
<1>0. /\ Hardware \subseteq Faults /\ CommsError \notin Hardware
      /\ ReaderError \notin Hardware /\ PowerOff \notin Hardware
    BY HardwareAssumption DEF Faults, CommsError, ReaderError, PowerOff
<1>1. ASSUME NEW x, Linked(x, waiting, 0, "none"), NEW F \in SUBSET Hardware,
             NEW y, y = some(x, F)
      PROVE  /\ Mild(x, y, up) /\ Linked(y, waiting, 0, "none")
             /\ y.timers = x.timers /\ y.data = x.data
    <2> DEFINE S == (code \ previous) \cap F
               C == (previous \ code) \cap F
    <2>1. /\ x \in ReaderType /\ S \in SUBSET Faults /\ C \in SUBSET Faults
          /\ S \cap C = {} /\ CommsError \notin S /\ PowerOff \notin S
        BY <1>0, <1>1 DEF Linked
    <2>2. y = ApplyPlain(x, S, C, up)
        BY <1>1
    <2> HIDE DEF S, C
    <2> QED
        BY <1>1, <2>1, <2>2, ApplyPlainMild
<1>2. q = some(latched, higher)
    BY DEF parseHardwareFaults
<1>3. lower \in SUBSET Hardware /\ higher \in SUBSET Hardware
    OBVIOUS
<1> HIDE DEF some, lower, higher
<1>4. /\ Mild(r, low, up) /\ Linked(low, waiting, 0, "none")
      /\ low.timers = r.timers /\ low.data = r.data
    BY <1>1, <1>3
<1>5. Room(low)
    BY <1>4, RoomShrinks
<1> HIDE DEF low
<1>6. /\ Mild(r, latched, up) /\ Linked(latched, waiting, 0, "none")
      /\ latched.timers \subseteq r.timers /\ FrameKept(r, latched)
    <2>1. CASE (Latch \in code) = (Latch \in previous)
        BY <1>4, <2>1 DEF FrameKept
    <2>2. CASE (Latch \in code) # (Latch \in previous)
        <3>1. Latch \in Hardware
            BY <2>2
        <3>2. latched = setFault(low, Latch, on, up) /\ on \in BOOLEAN
            BY <2>2
        <3> HIDE DEF latched, on
        <3>3. Latch \in Faults /\ Latch \notin {CommsError, ReaderError, PowerOff}
            BY <1>0, <3>1
        <3>4. /\ Mild(low, latched, up) /\ Linked(latched, waiting, 0, "none")
              /\ latched.timers \subseteq low.timers /\ FrameKept(low, latched)
            BY <1>4, <1>5, <3>2, <3>3, PlainFaultMild
        <3> QED
            BY <1>4, <3>4, MildTrans DEF FrameKept
    <2> QED
        BY <2>1, <2>2
<1> HIDE DEF latched
<1>7. /\ Mild(latched, q, up) /\ Linked(q, waiting, 0, "none")
      /\ q.timers = latched.timers /\ q.data = latched.data
    BY <1>1, <1>2, <1>3, <1>6
<1> QED
    BY <1>6, <1>7, MildTrans DEF FrameKept

(* A whole frame. *)
LEMMA UpdateFaultsMild ==
    ASSUME NEW r, Linked(r, waiting, 0, "none"), Room(r),
           NEW up \in BOOLEAN, NEW q, q = updateFaultsFromBatteryData(r, up)
    PROVE  /\ Mild(r, q, up) /\ Linked(q, waiting, 0, "none")
           /\ q.timers \subseteq r.timers /\ FrameKept(r, q)
<1> DEFINE code == r.data.code
           previous == r.previous.code
           p == parseHardwareFaults(r, code, previous, up)
           zero == p.data.zero
<1>1. code \in SUBSET Hardware /\ previous \in SUBSET Hardware
    BY DEF Linked, ReaderType, DataType
<1>2. q = IF p.previous.zero = zero THEN p ELSE setFault(p, ZeroData, zero, up)
    BY DEF updateFaultsFromBatteryData
<1> HIDE DEF code, previous
<1>3. /\ Mild(r, p, up) /\ Linked(p, waiting, 0, "none")
      /\ p.timers \subseteq r.timers /\ FrameKept(r, p)
    BY <1>1, ParseHardwareMild
<1> HIDE DEF p
<1>4. Room(p) /\ zero \in BOOLEAN
    BY <1>3, RoomShrinks DEF Linked, ReaderType, DataType
<1> HIDE DEF zero
<1>5. CASE q = p
    BY <1>3, <1>5
<1>6. CASE q = setFault(p, ZeroData, zero, up)
    <2>1. ZeroData \in Faults /\ ZeroData \notin {CommsError, ReaderError, PowerOff}
        BY FaultNumbers DEF Software, ZeroData, CommsError, ReaderError, PowerOff
    <2>2. /\ Mild(p, q, up) /\ Linked(q, waiting, 0, "none")
          /\ q.timers \subseteq p.timers /\ FrameKept(p, q)
        BY <1>3, <1>4, <1>6, <2>1, PlainFaultMild
    <2> QED
        BY <1>3, <2>2, MildTrans DEF FrameKept
<1> QED
    BY <1>2, <1>5, <1>6

-----------------------------------------------------------------------------
(* The inductive invariant. *)

Rest ==
    /\ scene \in Scenes
    /\ phase \in {"idle", "answered", "parsed", "due", "collected", "executed"}
    /\ batch \in BatchType
    /\ sample \in [state: {"unknown", "active", "idle"}, serial: Serials \cup {"none"}]
    /\ failures \in 0..MaxFailures /\ raised \in BOOLEAN /\ tagPresent \in BOOLEAN

(* Transient errors and healing. *)
Safe(r, n) ==
    /\ r.faults[CommsError].pendingSet => n = MaxFailures
    /\ ~scene.late /\ Stuck(r) => n = MaxFailures

(* The set in Redis. *)
Told(r) == "redis" \notin scene.events => Shown(r)

Honest(r) ==
    r.faults[PowerOff].present => ~(Telling(r.data) /\ r.data.state = "active")

(* A frame that waits to be published is judged when it is. *)
IInv ==
    /\ Rest /\ Linked(reader, waiting, 0, "none") /\ Room(reader)
    /\ Safe(reader, failures) /\ Told(reader)
    /\ overtaken \subseteq Faults
    /\ phase # "parsed" => Honest(reader)

(* What is remembered as wrong after a step is what was wrong before it or *)
(* was overtaken by it, and is still wrong.                                *)
LEMMA ToldLater ==
    ASSUME Remember, UNCHANGED scene, Told(reader')
    PROVE  Told(reader)'
<1> SUFFICES ASSUME "redis" \notin scene.events, NEW f \in Faults, f \notin overtaken'
             PROVE  /\ f \in reader'.redis.faults => reader'.faults[f].present
                    /\ reader'.faults[f].present /\ f # CommsError =>
                          f \in reader'.redis.faults
    BY DEF Told, Shown
<1>1. CASE f \in overtaken
    <2>1. (f \in reader'.redis.faults) = reader'.faults[f].present
        BY <1>1 DEF Remember
    <2> QED
        BY <2>1
<1>2. CASE f \notin overtaken
    BY <1>2 DEF Told, Shown
<1> QED
    BY <1>1, <1>2

LEMMA OvertakenType ==
    ASSUME Remember, IInv
    PROVE  overtaken' \subseteq Faults
BY DEF Remember, Stale, IInv, Rest, BatchType

(* A mild operation keeps B36 honest. *)
LEMMA HonestKept ==
    ASSUME NEW r, NEW q, NEW up, Mild(r, q, up), FrameKept(r, q), Honest(r)
    PROVE  Honest(q)
<1>1. ~Telling(NoData)
    BY DEF Telling, NoData
<1> QED
    BY <1>1 DEF Mild, FrameKept, Honest

(* A free timer may be taken. *)
LEMMA RoomGrows ==
    ASSUME NEW r, NEW q, Room(r), Cardinality(Timers(r)) < MaxTimers, OneMore(r, q)
    PROVE  Room(q)
<1> PICK x : q.timers \subseteq r.timers \cup {x}
    BY DEF OneMore
<1>1. Timers(q) \in SUBSET (Timers(r) \cup {x})
    BY DEF Timers
<1>2. IsFiniteSet(Timers(r) \cup {x}) /\ Cardinality(Timers(r) \cup {x}) <= MaxTimers
    <2> DEFINE T == Timers(r)
    <2>1. IsFiniteSet(T) /\ Cardinality(T) \in Nat /\ Cardinality(T) < MaxTimers
        BY FS_CardinalityType DEF Room
    <2> HIDE DEF T
    <2>2. /\ IsFiniteSet(T \cup {x})
          /\ Cardinality(T \cup {x}) = IF x \in T THEN Cardinality(T) ELSE Cardinality(T) + 1
        BY <2>1, FS_AddElement
    <2>3. Cardinality(T \cup {x}) <= MaxTimers
        BY <2>1, <2>2, DelaysAssumption
    <2> QED
        BY <2>2, <2>3 DEF T
<1> QED
    BY <1>1, <1>2, FS_Subset, FS_CardinalityType, DelaysAssumption DEF Room

(* Safe, for steps that leave the counter alone. *)
LEMMA SafeKept ==
    ASSUME NEW up \in RedisUp, IInv, UNCHANGED <<scene, failures>>,
           Raises(reader, reader', up, PowerOff)
    PROVE  Safe(reader, failures)' /\ Told(reader')
<1>1. PowerOff # CommsError
    BY DEF PowerOff, CommsError
<1>2. "redis" \notin scene.events => up
    BY DEF RedisUp
<1> QED
    BY <1>1, <1>2 DEF IInv, Safe, Told, Raises, Stuck

(* The parts of the invariant, for a step of the state machine. *)
LEMMA ReaderStepInv ==
    ASSUME IInv, Cardinality(Timers(reader)) < MaxTimers, UNCHANGED <<scene, waiting>>,
           Remember, Rest', Linked(reader', waiting, 0, "none"), OneMore(reader, reader'),
           Safe(reader, failures)', Told(reader'), phase' # "parsed" => Honest(reader')
    PROVE  IInv'
<1>1. Linked(reader, waiting, 0, "none")'
    BY DEF Linked, Distinct, Tracked, Owned
<1>2. Room(reader')
    BY RoomGrows DEF IInv
<1>3. Room(reader)'
    BY <1>2 DEF Room, Timers
<1>4. phase' # "parsed" => Honest(reader)'
    BY DEF Honest
<1>5. Told(reader)' /\ overtaken' \subseteq Faults
    BY ToldLater, OvertakenType
<1> QED
    BY <1>1, <1>3, <1>4, <1>5 DEF IInv

(* ... and for a mild one. *)
LEMMA MildStepInv ==
    ASSUME IInv, NEW up \in RedisUp, Cardinality(Timers(reader)) < MaxTimers,
           UNCHANGED <<scene, waiting, failures>>, Remember, Rest',
           Linked(reader', waiting, 0, "none"), OneMore(reader, reader'),
           Mild(reader, reader', up), phase' # "parsed" => Honest(reader')
    PROVE  IInv'
<1>1. Raises(reader, reader', up, PowerOff)
    BY DEF Mild, Raises
<1>2. Safe(reader, failures)' /\ Told(reader')
    BY <1>1, SafeKept
<1> QED
    BY <1>2, ReaderStepInv

(* What the invariant gives to every step. *)
LEMMA InvGives ==
    ASSUME IInv
    PROVE  /\ Linked(reader, waiting, 0, "none") /\ Room(reader)
           /\ reader \in ReaderType /\ waiting \subseteq TimerType
           /\ 0 # CommsError /\ 0 # ReaderError /\ 0 # PowerOff
           /\ CommsError # PowerOff /\ CommsError # ReaderError
           /\ CommsError \in Faults /\ ReaderError \in Faults /\ PowerOff \in Faults
           /\ ZeroData \in Faults /\ ZeroData \notin {CommsError, ReaderError, PowerOff}
           /\ RedisUp \subseteq BOOLEAN
<1>1. /\ CommsError \in Faults /\ ReaderError \in Faults /\ PowerOff \in Faults
      /\ ZeroData \in Faults
    BY FaultNumbers DEF Software
<1>2. /\ 0 # CommsError /\ 0 # ReaderError /\ 0 # PowerOff
      /\ CommsError # PowerOff /\ CommsError # ReaderError
      /\ ZeroData \notin {CommsError, ReaderError, PowerOff}
    BY DEF ZeroData, CommsError, ReaderError, PowerOff
<1>3. RedisUp \subseteq BOOLEAN
    BY DEF RedisUp
<1> QED
    BY <1>1, <1>2, <1>3 DEF IInv, Linked

(* A failure counts, and at the threshold raises the fault. *)
LEMMA CommsFailureInv ==
    ASSUME IInv, NEW up \in RedisUp, Cardinality(Timers(reader)) < MaxTimers,
           Remember, CommsFailure(up)
    PROVE  IInv'
<1> DEFINE n == IF failures < MaxFailures THEN failures + 1 ELSE failures
<1>1. /\ Linked(reader, waiting, 0, "none") /\ Room(reader) /\ 0 # CommsError
      /\ reader \in ReaderType
      /\ CommsError \in Faults /\ CommsError # PowerOff /\ up \in BOOLEAN
    BY InvGives
<1>2. n \in 0..MaxFailures /\ (n >= MaxFailures => n = MaxFailures)
    BY DelaysAssumption DEF IInv, Rest
<1>3. /\ failures' = n /\ phase # "parsed"
      /\ reader' = IF n >= MaxFailures THEN SetFault(reader, CommsError, up) ELSE reader
      /\ UNCHANGED <<scene, waiting, batch, phase, sample, raised, tagPresent>>
    BY DEF CommsFailure, Between
<1>4. Rest'
    BY <1>2, <1>3 DEF IInv, Rest
<1>5. CASE n >= MaxFailures
    <2>1. reader' = SetFault(reader, CommsError, up)
        BY <1>3, <1>5
    <2>2. /\ Raises(reader, reader', up, CommsError)
          /\ Linked(reader', waiting, 0, "none") /\ OneMore(reader, reader')
          /\ reader'.data = reader.data
        BY <1>1, <2>1, SetFaultRaises
    <2>3. Told(reader')
        BY <2>2 DEF Raises, IInv, Told, RedisUp
    <2>4. Safe(reader, failures)'
        BY <1>2, <1>3, <1>5 DEF Safe
    <2>5. Honest(reader')
        BY <1>1, <1>3, <2>2 DEF Raises, IInv, Honest
    <2> QED
        BY <1>3, <1>4, <2>2, <2>3, <2>4, <2>5, ReaderStepInv
<1>6. CASE ~(n >= MaxFailures)
    <2>1. UNCHANGED reader /\ failures # MaxFailures
        BY <1>2, <1>3, <1>6, DelaysAssumption DEF IInv, Rest
    <2>2. Safe(reader, failures)' /\ Told(reader')
        BY <1>3, <2>1 DEF IInv, Safe, Stuck, Told
    <2>3. Honest(reader') /\ OneMore(reader, reader')
        BY <1>3, <2>1 DEF IInv, OneMore
    <2> QED
        BY <1>1, <1>3, <1>4, <2>1, <2>2, <2>3, ReaderStepInv
<1> QED
    BY <1>5, <1>6

(* An answer resets the counter and starts the end of the fault. *)
LEMMA CommsSuccessInv ==
    ASSUME IInv, NEW up \in RedisUp, Cardinality(Timers(reader)) < MaxTimers,
           Remember, noteCommsSuccess(up), phase # "parsed", phase' # "parsed",
           UNCHANGED <<scene, waiting>>, Rest'
    PROVE  IInv'
<1>1. /\ Linked(reader, waiting, 0, "none") /\ Room(reader) /\ 0 # CommsError
      /\ reader \in ReaderType /\ waiting \subseteq TimerType
      /\ CommsError \in Faults /\ up \in BOOLEAN
    BY InvGives
<1>2. reader' = ClearFault(reader, CommsError, up) /\ failures' = 0
    BY DEF noteCommsSuccess
<1>3. /\ Mild(reader, reader', up) /\ OneMore(reader, reader')
      /\ reader'.data = reader.data /\ ~Stuck(reader')
    BY <1>1, <1>2, ClearFaultMild
<1>4. Linked(reader', waiting, 0, "none") /\ ~reader'.faults[CommsError].pendingSet
    BY <1>1, <1>2, ClearFaultLinked
<1>5. Told(reader')
    BY <1>3 DEF Mild, IInv, Told, RedisUp
<1>6. Safe(reader, failures)'
    BY <1>3, <1>4 DEF Safe, Stuck
<1>7. Honest(reader')
    BY <1>3, HonestKept DEF IInv, FrameKept
<1> QED
    BY <1>3, <1>4, <1>5, <1>6, <1>7, ReaderStepInv

(* A read. *)
LEMMA AnswerInv ==
    ASSUME IInv, NEW up \in RedisUp, Cardinality(Timers(reader)) < MaxTimers, Remember, Answer(up)
    PROVE  IInv'
<1>1. /\ phase = "idle" /\ phase' = "answered" /\ noteCommsSuccess(up) /\ failures' = 0
      /\ UNCHANGED <<scene, waiting, batch, sample, raised, tagPresent>>
    BY DEF Answer, Between, noteCommsSuccess
<1>2. Rest'
    BY <1>1, DelaysAssumption DEF IInv, Rest
<1> QED
    BY <1>1, <1>2, CommsSuccessInv

(* A command. *)
LEMMA WrittenInv ==
    ASSUME IInv, NEW up \in RedisUp, Cardinality(Timers(reader)) < MaxTimers,
           Remember, NEW off \in BOOLEAN, Written(off, up)
    PROVE  IInv'
<1>1. /\ phase = "idle" /\ noteCommsSuccess(up) /\ failures' = 0
      /\ sample' \in {sample, NoSample}
      /\ UNCHANGED <<scene, waiting, batch, phase, raised, tagPresent>>
    BY DEF Written, Between, noteCommsSuccess
<1>2. Rest'
    BY <1>1, DelaysAssumption DEF IInv, Rest, NoSample
<1> QED
    BY <1>1, <1>2, CommsSuccessInv

(* Empty blocks. *)
LEMMA ParseEmptyInv ==
    ASSUME IInv, NEW up \in RedisUp, Cardinality(Timers(reader)) < MaxTimers,
           Remember, ParseEmpty(up)
    PROVE  IInv'
<1> DEFINE D == [reader.data EXCEPT !.zero = TRUE]
           x == WithData(reader, D)
<1>1. /\ Linked(reader, waiting, 0, "none") /\ Room(reader) /\ reader \in ReaderType
      /\ ZeroData \in Faults /\ ZeroData \notin {CommsError, ReaderError, PowerOff}
      /\ 0 # CommsError /\ up \in BOOLEAN
    BY InvGives
<1>2. /\ phase = "answered" /\ phase' = "idle"
      /\ UNCHANGED <<scene, waiting, batch, sample, failures, raised, tagPresent>>
    BY DEF ParseEmpty
<1>3. reader' = setFault(x, ZeroData, TRUE, up)
    BY <1>1 DEF ParseEmpty, setFault, WithData, ReaderType
<1>4. /\ D \in DataType /\ D.present = reader.data.present /\ D.valid = reader.data.valid
      /\ D.state = reader.data.state
    BY <1>1 DEF ReaderType, DataType
<1> HIDE DEF D
<1>5. /\ Mild(reader, x, up) /\ Linked(x, waiting, 0, "none")
      /\ x.timers = reader.timers /\ x.data = D /\ x.faults = reader.faults
    BY <1>1, <1>4, WithDataMild
<1> HIDE DEF x
<1>6. Honest(x)
    BY <1>2, <1>4, <1>5 DEF IInv, Honest, Telling
<1>7. Room(x)
    BY <1>1, <1>5, RoomShrinks
<1>8. /\ Mild(x, reader', up) /\ Linked(reader', waiting, 0, "none")
      /\ reader'.timers \subseteq x.timers /\ FrameKept(x, reader')
    BY <1>1, <1>3, <1>5, <1>7, PlainFaultMild
<1>9. Mild(reader, reader', up) /\ OneMore(reader, reader') /\ Honest(reader')
    BY <1>1, <1>5, <1>6, <1>8, MildTrans, HonestKept DEF OneMore
<1>10. Rest'
    BY <1>2 DEF IInv, Rest
<1> QED
    BY <1>2, <1>8, <1>9, <1>10, MildStepInv

(* A frame. *)
LEMMA ParseInv ==
    ASSUME IInv, NEW up \in RedisUp, Cardinality(Timers(reader)) < MaxTimers,
           Remember, NEW code \in SUBSET scene.hardware, NEW state \in FrameStates,
           NEW serial \in Serials, Parse(code, state, serial, up)
    PROVE  IInv'
<1> DEFINE D == [reader.data EXCEPT !.present = TRUE, !.zero = FALSE]
           x == WithData(reader, D)
           fresh == ClearFault(x, ZeroData, up)
           E == [fresh.data EXCEPT !.code = code, !.state = state, !.serial = serial]
           y == WithData(fresh, E)
<1>1. /\ Linked(reader, waiting, 0, "none") /\ Room(reader) /\ reader \in ReaderType
      /\ waiting \subseteq TimerType
      /\ ZeroData \in Faults /\ ZeroData \notin {CommsError, ReaderError, PowerOff}
      /\ 0 # CommsError /\ 0 # ZeroData /\ up \in BOOLEAN
    BY InvGives, FaultNumbers
<1>2. /\ phase' = "parsed"
      /\ UNCHANGED <<scene, waiting, batch, sample, failures, raised, tagPresent>>
    BY DEF Parse
<1>3. D \in DataType
    BY <1>1 DEF ReaderType, DataType
<1>4. [reader EXCEPT !.data.present = TRUE, !.data.zero = FALSE] = x
    BY <1>1 DEF WithData, ReaderType
<1>5. reader' = updateFaultsFromBatteryData(
                    [fresh EXCEPT !.data.code = code, !.data.state = state,
                                  !.data.serial = serial], up)
    BY <1>4 DEF Parse
<1> HIDE DEF D
<1>6. /\ Mild(reader, x, up) /\ Linked(x, waiting, 0, "none")
      /\ x.timers = reader.timers
    BY <1>1, <1>3, WithDataMild
<1> HIDE DEF x
<1>7. Room(x) /\ x \in ReaderType
    BY <1>1, <1>6, RoomShrinks DEF Linked
<1>8. /\ Mild(x, fresh, up) /\ Linked(fresh, waiting, 0, "none")
      /\ fresh.timers \subseteq x.timers
    BY <1>1, <1>6, <1>7, ClearFaultMild, ClearFaultLinked
<1> HIDE DEF fresh
<1>9. fresh \in ReaderType /\ fresh.data \in DataType
    BY <1>8 DEF Linked, ReaderType
<1>10. code \in SUBSET Hardware /\ state \in {"unknown", "active", "idle"}
    BY ScenesAssumption DEF IInv, Rest, FrameStates
<1>11. E \in DataType
    BY <1>9, <1>10 DEF DataType
<1>12. [fresh EXCEPT !.data.code = code, !.data.state = state, !.data.serial = serial] = y
    BY <1>9 DEF WithData, ReaderType, DataType
<1>13. reader' = updateFaultsFromBatteryData(y, up)
    BY <1>5, <1>12
<1> HIDE DEF E
<1>14. Mild(fresh, y, up) /\ Linked(y, waiting, 0, "none") /\ y.timers = fresh.timers
    BY <1>1, <1>8, <1>11, WithDataMild
<1> HIDE DEF y
<1>15. Room(y)
    BY <1>7, <1>8, <1>14, RoomShrinks
<1>16. /\ Mild(y, reader', up) /\ Linked(reader', waiting, 0, "none")
       /\ reader'.timers \subseteq y.timers
    BY <1>1, <1>13, <1>14, <1>15, UpdateFaultsMild
<1>17. Mild(reader, reader', up)
    BY <1>1, <1>6, <1>8, <1>14, <1>16, MildTrans
<1>18. OneMore(reader, reader')
    BY <1>6, <1>8, <1>14, <1>16 DEF OneMore
<1>19. Rest'
    BY <1>2 DEF IInv, Rest
<1> QED
    BY <1>2, <1>16, <1>17, <1>18, <1>19, MildStepInv

(* What observePowerState leaves: B36 only without an active frame. *)
LEMMA ObservedInv ==
    ASSUME NEW r, Linked(r, waiting, 0, "none"), Room(r), NEW expectedOn \in BOOLEAN,
           NEW up \in BOOLEAN, NEW q, q = Observed(r, expectedOn, up)
    PROVE  /\ Raises(r, q, up, PowerOff) /\ Linked(q, waiting, 0, "none")
           /\ OneMore(r, q) /\ Honest(q)
<1>1. /\ r \in ReaderType /\ waiting \subseteq TimerType /\ PowerOff \in Faults
      /\ 0 # PowerOff /\ 0 # CommsError /\ PowerOff # CommsError
    BY FaultNumbers DEF Linked, Software, PowerOff, CommsError
<1>2. ~Telling(NoData)
    BY DEF Telling, NoData
<1>3. CASE q = r /\ ~(Telling(r.data) /\ r.data.state = "active")
    BY <1>1, <1>3 DEF Raises, OneMore, Honest
<1>4. CASE q = ClearFault(r, PowerOff, up)
    <2>1. Mild(r, q, up) /\ OneMore(r, q) /\ ~q.faults[PowerOff].present
        BY <1>1, <1>4, ClearFaultMild
    <2>2. Linked(q, waiting, 0, "none")
        BY <1>1, <1>4, ClearFaultLinked
    <2> QED
        BY <2>1, <2>2 DEF Mild, Raises, Honest
<1>5. CASE q = SetFault(r, PowerOff, up) /\ r.data.state # "active"
    <2>1. /\ Raises(r, q, up, PowerOff) /\ Linked(q, waiting, 0, "none") /\ OneMore(r, q)
          /\ FrameKept(r, q)
        BY <1>1, <1>5, SetFaultRaises
    <2> QED
        BY <1>2, <1>5, <2>1 DEF FrameKept, Honest
<1> QED
    BY <1>3, <1>4, <1>5 DEF Observed

(* The end of a read. *)
LEMMA ObserveInv ==
    ASSUME IInv, NEW up \in RedisUp, Cardinality(Timers(reader)) < MaxTimers,
           Remember, NEW expectedOn \in BOOLEAN, NEW valid \in BOOLEAN,
           Observe(expectedOn, valid, up)
    PROVE  IInv'
<1> DEFINE D == [reader.data EXCEPT !.valid = valid]
           x == WithData(reader, D)
<1>1. /\ Linked(reader, waiting, 0, "none") /\ Room(reader) /\ reader \in ReaderType
      /\ up \in BOOLEAN
    BY InvGives
<1>2. D \in DataType
    BY <1>1 DEF ReaderType, DataType
<1>3. /\ phase' = "due" /\ reader' = Observed(x, expectedOn, up)
      /\ sample' \in {sample, NoSample, [state |-> D.state, serial |-> D.serial]}
      /\ UNCHANGED <<scene, waiting, batch, failures, raised, tagPresent>>
    BY DEF Observe, WithData
<1>4. Rest'
    BY <1>2, <1>3 DEF IInv, Rest, DataType, NoSample
<1> HIDE DEF D
<1>5. /\ Mild(reader, x, up) /\ Linked(x, waiting, 0, "none") /\ x.timers = reader.timers
    BY <1>1, <1>2, WithDataMild
<1> HIDE DEF x
<1>6. Room(x)
    BY <1>1, <1>5, RoomShrinks
<1>7. /\ Raises(x, reader', up, PowerOff) /\ Linked(reader', waiting, 0, "none")
      /\ OneMore(x, reader') /\ Honest(reader')
    BY <1>1, <1>3, <1>5, <1>6, ObservedInv
<1>8. Raises(reader, reader', up, PowerOff)
    BY <1>5, <1>7 DEF Raises, Mild
<1>9. OneMore(reader, reader')
    BY <1>5, <1>7 DEF OneMore
<1>10. Safe(reader, failures)' /\ Told(reader')
    BY <1>3, <1>8, SafeKept
<1> QED
    BY <1>3, <1>4, <1>7, <1>9, <1>10, ReaderStepInv

(* The pack is gone. *)
LEMMA DepartedInv ==
    ASSUME IInv, NEW up \in RedisUp, Cardinality(Timers(reader)) < MaxTimers,
           Remember, Departed(up)
    PROVE  IInv'
<1> DEFINE x == WithData(reader, NoData)
           F == {f \in Faults : f < ReaderError} \cup {PowerOff}
<1>1. /\ Linked(reader, waiting, 0, "none") /\ Room(reader) /\ 0 # CommsError
      /\ up \in BOOLEAN /\ F \in SUBSET Faults
    BY InvGives
<1>2. NoData \in DataType
    BY DEF NoData, DataType
<1>3. /\ phase' = "due" /\ sample' = NoSample /\ reader' = ClearFaults(x, F, up)
      /\ UNCHANGED <<scene, waiting, batch, failures, raised, tagPresent>>
    BY DEF Departed, Between, WithData
<1>4. Rest'
    BY <1>3 DEF IInv, Rest, NoSample
<1> HIDE DEF F
<1>5. /\ Mild(reader, x, up) /\ Linked(x, waiting, 0, "none") /\ x.timers = reader.timers
      /\ x.data = NoData
    BY <1>1, <1>2, WithDataMild
<1> HIDE DEF x
<1>6. Room(x)
    BY <1>1, <1>5, RoomShrinks
<1>7. /\ Mild(x, reader', up) /\ Linked(reader', waiting, 0, "none") /\ OneMore(x, reader')
      /\ reader'.data = x.data
    BY <1>1, <1>3, <1>5, <1>6, ClearFaultsMild
<1>8. Mild(reader, reader', up)
    BY <1>1, <1>5, <1>7, MildTrans
<1>9. OneMore(reader, reader') /\ Honest(reader')
    BY <1>5, <1>7 DEF OneMore, Honest, Telling, NoData
<1> QED
    BY <1>3, <1>4, <1>7, <1>8, <1>9, MildStepInv

(* Steps of a publication leave the timers and the flags alone. *)
LEMMA PublishedInv ==
    ASSUME IInv, UNCHANGED <<scene, waiting, failures>>, Rest',
           phase # "parsed", reader' \in ReaderType, reader'.timers = reader.timers,
           reader'.data = reader.data, Told(reader)', overtaken' \subseteq Faults,
           \A f \in Faults : \A k \in Kinds :
               /\ reader'.faults[f].present = reader.faults[f].present
               /\ Pending(reader'.faults[f], k) = Pending(reader.faults[f], k)
               /\ Pointer(reader'.faults[f], k) = Pointer(reader.faults[f], k)
    PROVE  IInv'
<1>1. Linked(reader', waiting, 0, "none")
    BY InvGives, LinkedSame
<1>2. Linked(reader, waiting, 0, "none")'
    BY <1>1 DEF Linked, Distinct, Tracked, Owned
<1>3. Room(reader)'
    BY DEF IInv, Room, Timers
<1>4. \A f \in Faults : /\ reader'.faults[f].present = reader.faults[f].present
                        /\ reader'.faults[f].pendingSet = reader.faults[f].pendingSet
                        /\ reader'.faults[f].pendingReset = reader.faults[f].pendingReset
    BY DEF Pending, Kinds
<1>5. CommsError \in Faults /\ PowerOff \in Faults
    BY InvGives
<1>6. Safe(reader, failures)' /\ Honest(reader)'
    BY <1>4, <1>5 DEF IInv, Safe, Stuck, Honest
<1> QED
    BY <1>2, <1>3, <1>6 DEF IInv

(* The changes are collected. *)
LEMMA CollectInv ==
    ASSUME IInv, Remember, Collect
    PROVE  IInv'
<1>1. /\ phase = "due" /\ phase' = "collected"
      /\ batch' = updateFaultSetInTransaction(reader)
      /\ UNCHANGED <<scene, reader, waiting, sample, failures, raised, tagPresent>>
    BY DEF Collect
<1>2. batch' \in BatchType
    BY <1>1, InvGives, BatchFields
<1>3. Rest'
    BY <1>1, <1>2 DEF IInv, Rest
<1>4. Told(reader')
    BY <1>1 DEF IInv, Told, Shown
<1>5. Told(reader)' /\ overtaken' \subseteq Faults
    BY <1>1, <1>4, ToldLater, OvertakenType
<1> QED
    BY <1>1, <1>3, <1>5, InvGives, PublishedInv

(* The transaction runs: what it has wrong is remembered. *)
LEMMA ExecInv ==
    ASSUME IInv, Remember, NEW up \in RedisUp, Exec(up)
    PROVE  IInv'
<1>1. /\ phase = "collected"
      /\ UNCHANGED <<scene, waiting, sample, failures, raised, tagPresent>>
      /\ up => phase' = "executed" /\ reader' = Executed(reader, batch) /\ batch' = batch
      /\ ~up => phase' = "idle" /\ reader' = reader /\ batch' = NoBatch
    BY DEF Exec
<1>2. reader \in ReaderType /\ batch \in BatchType /\ up \in BOOLEAN
    BY InvGives DEF IInv, Rest
<1>3. Rest'
    <2>1. NoBatch \in BatchType
        BY DEF NoBatch, BatchType
    <2>2. batch' \in BatchType /\ phase' \in {"idle", "executed"}
        BY <1>1, <1>2, <2>1
    <2> QED
        BY <1>1, <2>2 DEF IInv, Rest
<1>4. overtaken' \subseteq Faults
    BY OvertakenType
<1>5. CASE up
    <2>1. /\ reader' \in ReaderType /\ reader'.timers = reader.timers
          /\ reader'.data = reader.data /\ reader'.faults = reader.faults
          /\ reader'.redis.faults = (reader.redis.faults \ batch.remove) \cup batch.add
        BY <1>1, <1>2, <1>5, ExecutedFields
    <2>2. Told(reader)'
        <3> SUFFICES ASSUME "redis" \notin scene.events, NEW f \in Faults, f \notin overtaken'
                     PROVE  /\ f \in reader'.redis.faults => reader'.faults[f].present
                            /\ reader'.faults[f].present /\ f # CommsError =>
                                  f \in reader'.redis.faults
            BY <1>1 DEF Told, Shown
        <3>1. CASE f \in overtaken \cup Stale
            <4>1. (f \in reader'.redis.faults) = reader'.faults[f].present
                BY <1>1, <1>5, <3>1 DEF Remember
            <4> QED
                BY <4>1
        <3>2. CASE f \notin overtaken \cup Stale
            <4>1. /\ f \in reader.redis.faults => reader.faults[f].present
                  /\ reader.faults[f].present /\ f # CommsError => f \in reader.redis.faults
                BY <3>2 DEF IInv, Told, Shown
            <4>2. /\ f \in batch.add => reader.faults[f].present
                  /\ f \in batch.remove => ~reader.faults[f].present
                BY <3>2 DEF Stale
            <4> QED
                BY <2>1, <4>1, <4>2
        <3> QED
            BY <3>1, <3>2
    <2> QED
        BY <1>1, <1>3, <1>4, <2>1, <2>2, PublishedInv
<1>6. CASE ~up
    <2>1. Told(reader')
        BY <1>1, <1>6 DEF IInv, Told, Shown
    <2>2. Told(reader)'
        BY <1>1, <2>1, ToldLater
    <2> QED
        BY <1>1, <1>2, <1>3, <1>4, <1>6, <2>2, PublishedInv
<1> QED
    BY <1>5, <1>6

(* The changed faults are marked. *)
LEMMA MarkInv ==
    ASSUME IInv, Remember, Mark
    PROVE  IInv'
<1>1. /\ phase = "executed" /\ phase' = "idle" /\ reader' = Marked(reader, batch)
      /\ batch' = NoBatch
      /\ UNCHANGED <<scene, waiting, sample, failures, raised, tagPresent>>
    BY DEF Mark
<1>2. reader \in ReaderType /\ batch \in BatchType
    BY InvGives DEF IInv, Rest
<1>3. Rest'
    BY <1>1 DEF IInv, Rest, NoBatch, BatchType
<1>4. /\ reader' \in ReaderType /\ reader'.timers = reader.timers
      /\ reader'.data = reader.data /\ reader'.redis = reader.redis
      /\ \A f \in Faults : \A k \in Kinds :
            /\ reader'.faults[f].present = reader.faults[f].present
            /\ Pending(reader'.faults[f], k) = Pending(reader.faults[f], k)
            /\ Pointer(reader'.faults[f], k) = Pointer(reader.faults[f], k)
    BY <1>1, <1>2, MarkedFields
<1>5. \A f \in Faults : reader'.faults[f].present = reader.faults[f].present
    BY <1>4 DEF Kinds
<1>6. Told(reader')
    BY <1>4, <1>5 DEF IInv, Told, Shown
<1>7. Told(reader)' /\ overtaken' \subseteq Faults
    BY <1>1, <1>6, ToldLater, OvertakenType
<1> QED
    BY <1>1, <1>3, <1>4, <1>7, PublishedInv

(* The reader breaks. *)
LEMMA RaiseInv ==
    ASSUME IInv, NEW up \in RedisUp, Cardinality(Timers(reader)) < MaxTimers, Remember, Raise(up)
    PROVE  IInv'
<1>1. /\ Linked(reader, waiting, 0, "none") /\ Room(reader) /\ 0 # CommsError
      /\ 0 # ReaderError /\ reader \in ReaderType /\ ReaderError \in Faults
      /\ up \in BOOLEAN
    BY InvGives
<1>2. /\ phase = "idle" /\ reader' \in {reader, SetFault(reader, ReaderError, up)}
      /\ raised' \in BOOLEAN
      /\ UNCHANGED <<scene, waiting, batch, phase, sample, failures, tagPresent>>
    BY DEF Raise, Between
<1>3. Rest'
    BY <1>2 DEF IInv, Rest
<1>4. ReaderError # CommsError /\ ReaderError # PowerOff
    BY DEF ReaderError, CommsError, PowerOff
<1>5. /\ Raises(reader, reader', up, ReaderError) /\ Linked(reader', waiting, 0, "none")
      /\ OneMore(reader, reader') /\ FrameKept(reader, reader')
    <2>1. CASE reader' = reader
        BY <1>1, <2>1 DEF Raises, OneMore, FrameKept
    <2>2. CASE reader' = SetFault(reader, ReaderError, up)
        BY <1>1, <2>2, SetFaultRaises
    <2> QED
        BY <1>2, <2>1, <2>2
<1>6. Mild(reader, reader', up)
    BY <1>4, <1>5 DEF Raises, Mild
<1>7. Honest(reader')
    BY <1>2, <1>5, <1>6, HonestKept DEF IInv
<1> QED
    BY <1>2, <1>3, <1>5, <1>6, <1>7, MildStepInv

(* The reader works again. *)
LEMMA InitializedInv ==
    ASSUME IInv, NEW up \in RedisUp, Cardinality(Timers(reader)) < MaxTimers,
           Remember, Initialized(up)
    PROVE  IInv'
<1>1. /\ Linked(reader, waiting, 0, "none") /\ Room(reader) /\ waiting \subseteq TimerType
      /\ 0 # ReaderError /\ reader \in ReaderType /\ ReaderError \in Faults
      /\ up \in BOOLEAN
    BY InvGives
<1>2. /\ phase = "idle" /\ reader' = ClearFault(reader, ReaderError, up)
      /\ raised' \in BOOLEAN
      /\ UNCHANGED <<scene, waiting, batch, phase, sample, failures, tagPresent>>
    BY DEF Initialized, Between
<1>3. Rest'
    BY <1>2 DEF IInv, Rest
<1>4. /\ Mild(reader, reader', up) /\ OneMore(reader, reader')
      /\ FrameKept(reader, reader')
    BY <1>1, <1>2, ClearFaultMild DEF FrameKept
<1>5. Linked(reader', waiting, 0, "none")
    BY <1>1, <1>2, ClearFaultLinked
<1>6. Honest(reader')
    BY <1>2, <1>4, HonestKept DEF IInv
<1> QED
    BY <1>2, <1>3, <1>4, <1>5, <1>6, MildStepInv

(* A step that leaves the reader and its timers alone. *)
LEMMA QuietInv ==
    ASSUME IInv, UNCHANGED <<scene, reader, waiting, phase, failures>>, Rest',
           Remember \/ UNCHANGED overtaken
    PROVE  IInv'
<1>1. Linked(reader, waiting, 0, "none")'
    BY DEF IInv, Linked, Distinct, Tracked, Owned
<1>2. Room(reader)'
    BY DEF IInv, Room, Timers
<1>3. Safe(reader, failures)'
    BY DEF IInv, Safe, Stuck
<1>4. phase' # "parsed" => Honest(reader)'
    BY DEF IInv, Honest
<1>5. Told(reader)' /\ overtaken' \subseteq Faults
    <2>1. Told(reader')
        BY DEF IInv, Told, Shown
    <2>2. CASE Remember
        BY <2>1, <2>2, ToldLater, OvertakenType
    <2>3. CASE UNCHANGED overtaken
        BY <2>3 DEF IInv, Told, Shown
    <2> QED
        BY <2>2, <2>3
<1> QED
    BY <1>1, <1>2, <1>3, <1>4, <1>5 DEF IInv

(* A pack arrives, or its tag is lost. *)
LEMMA TagInv ==
    ASSUME IInv, Remember, (\E sameUid \in BOOLEAN : TagArrived(sameUid)) \/ TagLost
    PROVE  IInv'
<1>1. /\ UNCHANGED <<scene, reader, waiting, batch, phase, failures, raised>>
      /\ tagPresent' \in BOOLEAN /\ sample' \in {sample, NoSample}
    BY DEF TagArrived, TagLost
<1>2. Rest'
    BY <1>1 DEF IInv, Rest, NoSample
<1> QED
    BY <1>1, <1>2, QuietInv

-----------------------------------------------------------------------------
(* Timers that run. *)

Ticked(t) == [t EXCEPT !.left = IF @ > 0 THEN @ - 1 ELSE 0]

(* A tick leaves everything of a timer but its time. *)
LEMMA TickedFields ==
    ASSUME NEW t \in TimerType
    PROVE  /\ Ticked(t) \in TimerType /\ Ticked(t).id = t.id
           /\ Ticked(t).fault = t.fault /\ Ticked(t).kind = t.kind
BY DEF TimerType, Ticked

(* There are as many timers after a tick. *)
LEMMA TickRoom ==
    ASSUME NEW r, NEW q, Room(r), \A t \in r.timers : t \notin waiting,
           q.timers = {Ticked(t) : t \in r.timers}
    PROVE  Room(q)
<1> DEFINE S == Timers(r)
           T == Timers(q)
           f == [t \in S |-> IF t \in r.timers THEN Ticked(t) ELSE t]
<1>1. f \in [S -> T]
    BY DEF Timers
<1>2. \A u \in T : \E t \in S : f[t] = u
    BY DEF Timers
<1>3. f \in Surjection(S, T)
    BY <1>1, <1>2 DEF Surjection
<1>4. IsFiniteSet(S) /\ Cardinality(S) <= MaxTimers
    BY DEF Room
<1> HIDE DEF f, S, T
<1>5. IsFiniteSet(T) /\ Cardinality(T) <= Cardinality(S)
    BY <1>3, <1>4, FS_Surjection
<1>6. Cardinality(T) \in Nat /\ Cardinality(S) \in Nat
    BY <1>4, <1>5, FS_CardinalityType
<1>7. Cardinality(T) <= MaxTimers
    BY <1>4, <1>5, <1>6, DelaysAssumption
<1> QED
    BY <1>5, <1>7 DEF Room, T

(* Time passes. *)
LEMMA TickInv ==
    ASSUME IInv, Remember, Tick
    PROVE  IInv'
<1>1. /\ Linked(reader, waiting, 0, "none") /\ Room(reader) /\ reader \in ReaderType
      /\ waiting \subseteq TimerType
    BY InvGives
<1>2. reader' = [reader EXCEPT !.timers = {Ticked(t) : t \in reader.timers}]
    BY DEF Tick, Ticked
<1>3. UNCHANGED <<scene, waiting, batch, phase, sample, failures, raised, tagPresent>>
    BY DEF Tick
<1>4. \A t \in reader.timers : /\ t \in TimerType /\ Ticked(t) \in TimerType
                               /\ Ticked(t).id = t.id /\ Ticked(t).fault = t.fault
                               /\ Ticked(t).kind = t.kind
    BY <1>1, TickedFields DEF ReaderType
<1>5. /\ reader' \in ReaderType /\ reader'.timers = {Ticked(t) : t \in reader.timers}
      /\ reader'.faults = reader.faults /\ reader'.data = reader.data
      /\ reader'.redis = reader.redis
    BY <1>1, <1>2, <1>4 DEF ReaderType
<1>6. /\ \A t, u \in reader.timers \cup waiting : t.id = u.id => t = u
      /\ \A t \in reader.timers : t \notin waiting
    BY <1>1 DEF Linked, Distinct
<1>7. Distinct(reader', waiting)
    <2>1. ASSUME NEW t \in reader'.timers \cup waiting, NEW u \in reader'.timers \cup waiting,
                 t.id = u.id
          PROVE  t = u
        BY <1>4, <1>5, <1>6, <2>1
    <2>2. ASSUME NEW t \in reader'.timers
          PROVE  t \notin waiting
        <3> PICK s \in reader.timers : t = Ticked(s)
            BY <1>5
        <3> QED
            BY <1>4, <1>6
    <2> QED
        BY <2>1, <2>2 DEF Distinct
<1>8. Tracked(reader', waiting, 0, "none")
    <2>1. Tracked(reader, waiting, 0, "none")
        BY <1>1 DEF Linked
    <2> SUFFICES ASSUME NEW f \in Faults, NEW k \in Kinds, ~(f = 0 /\ k = "none")
                 PROVE  /\ Pending(reader'.faults[f], k) <=> Pointer(reader'.faults[f], k) # 0
                        /\ Pointer(reader'.faults[f], k) # 0 =>
                             \E t \in reader'.timers \cup waiting :
                               /\ t.id = Pointer(reader'.faults[f], k)
                               /\ t.fault = f /\ t.kind = k
        BY DEF Tracked
    <2>2. Pending(reader.faults[f], k) <=> Pointer(reader.faults[f], k) # 0
        BY <2>1 DEF Tracked
    <2>3. ASSUME Pointer(reader'.faults[f], k) # 0
          PROVE  \E t \in reader'.timers \cup waiting :
                   t.id = Pointer(reader'.faults[f], k) /\ t.fault = f /\ t.kind = k
        <3>1. PICK t \in reader.timers \cup waiting :
                     t.id = Pointer(reader.faults[f], k) /\ t.fault = f /\ t.kind = k
            BY <1>5, <2>1, <2>3 DEF Tracked
        <3>2. CASE t \in waiting
            BY <1>5, <3>1, <3>2
        <3>3. CASE t \in reader.timers
            <4>1. /\ Ticked(t).id = Pointer(reader.faults[f], k)
                  /\ Ticked(t).fault = f /\ Ticked(t).kind = k
                BY <1>4, <3>1, <3>3
            <4>2. Ticked(t) \in reader'.timers
                BY <1>5, <3>3
            <4> QED
                BY <1>5, <4>1, <4>2
        <3> QED
            BY <3>2, <3>3
    <2> QED
        BY <1>5, <2>2, <2>3
<1>9. Owned(reader', waiting, 0, "none")
    <2>1. Owned(reader, waiting, 0, "none")
        BY <1>1 DEF Linked
    <2>2. ASSUME ~scene.late, NEW u \in reader'.timers
          PROVE  /\ ~(u.fault = 0 /\ u.kind = "none")
                 /\ Pointer(reader'.faults[u.fault], u.kind) = u.id
        <3> PICK t \in reader.timers : u = Ticked(t)
            BY <1>5
        <3> QED
            BY <1>4, <1>5, <2>1, <2>2 DEF Owned
    <2>3. ~scene.late => waiting = {}
        BY <2>1 DEF Owned
    <2> QED
        BY <2>2, <2>3 DEF Owned
<1>10. Linked(reader', waiting, 0, "none")
    BY <1>1, <1>5, <1>7, <1>8, <1>9 DEF Linked
<1>11. Linked(reader, waiting, 0, "none")'
    BY <1>3, <1>10 DEF Linked, Distinct, Tracked, Owned
<1>12. Room(reader')
    BY <1>1, <1>5, <1>6, TickRoom
<1>13. Room(reader)'
    BY <1>3, <1>12 DEF Room, Timers
<1>14. Safe(reader, failures)' /\ (phase' # "parsed" => Honest(reader)')
    BY <1>3, <1>5 DEF IInv, Safe, Stuck, Honest
<1>15. Rest'
    BY <1>3 DEF IInv, Rest
<1>16. Told(reader')
    BY <1>5 DEF IInv, Told, Shown
<1>17. Told(reader)' /\ overtaken' \subseteq Faults
    BY <1>3, <1>16, ToldLater, OvertakenType
<1> QED
    BY <1>11, <1>13, <1>14, <1>15, <1>17 DEF IInv

(* One timer ends and at most one is armed. *)
LEMMA RoomSwapped ==
    ASSUME NEW S, IsFiniteSet(S), Cardinality(S) <= MaxTimers, NEW t \in S, NEW x,
           NEW T \in SUBSET ((S \ {t}) \cup {x})
    PROVE  IsFiniteSet(T) /\ Cardinality(T) <= MaxTimers
<1> DEFINE U == S \ {t}
           V == U \cup {x}
<1>1. IsFiniteSet(U) /\ Cardinality(U) = Cardinality(S) - 1 /\ Cardinality(S) \in Nat
    BY FS_RemoveElement, FS_CardinalityType
<1> HIDE DEF U
<1>2. IsFiniteSet(V) /\ Cardinality(V) <= Cardinality(U) + 1 /\ Cardinality(V) \in Nat
    <2>1. /\ IsFiniteSet(V)
          /\ Cardinality(V) = IF x \in U THEN Cardinality(U) ELSE Cardinality(U) + 1
        BY <1>1, FS_AddElement
    <2>2. Cardinality(U) \in Nat
        BY <1>1, FS_CardinalityType
    <2> QED
        BY <2>1, <2>2
<1>3. T \in SUBSET V
    BY DEF U
<1> HIDE DEF V
<1>4. IsFiniteSet(T) /\ Cardinality(T) <= Cardinality(V) /\ Cardinality(T) \in Nat
    BY <1>2, <1>3, FS_Subset, FS_CardinalityType
<1> QED
    BY <1>1, <1>2, <1>4, DelaysAssumption

(* A callback, of a timer no longer armed. *)
LEMMA CallbackInv ==
    ASSUME IInv, NEW t \in TimerType, NEW up \in RedisUp, NEW x, NEW W, NEW q,
           Linked(x, W, t.fault, t.kind), Room(x), q = Callback(x, t, up),
           x.faults = reader.faults, x.data = reader.data, x.redis = reader.redis,
           t.fault = CommsError /\ t.kind = "set" /\ ~scene.late => failures = MaxFailures
    PROVE  /\ Linked(q, W, 0, "none") /\ OneMore(x, q) /\ Safe(q, failures)
           /\ Told(q) /\ (phase # "parsed" => Honest(q))
<1>1. up \in BOOLEAN /\ ("redis" \notin scene.events => up)
    BY DEF RedisUp
<1>2. /\ Linked(q, W, 0, "none") /\ OneMore(x, q) /\ FrameKept(x, q)
      /\ Raises(x, q, up, t.fault)
      /\ t.kind = "reset" => Mild(x, q, up)
      /\ t.fault = CommsError /\ t.kind = "set" => ~q.faults[CommsError].pendingSet
    BY <1>1, CallbackLinked
<1>3. Safe(x, failures) /\ Told(x) /\ (phase # "parsed" => Honest(x))
    BY DEF IInv, Safe, Stuck, Told, Shown, Honest
<1>4. /\ t.fault \in {CommsError, ReaderError} /\ t.kind \in {"set", "reset"}
      /\ CommsError # PowerOff /\ ReaderError # PowerOff /\ ReaderError # CommsError
    BY DEF TimerType, CommsError, ReaderError, PowerOff
<1>5. phase # "parsed" => Honest(q)
    <2>1. ~Telling(NoData)
        BY DEF Telling, NoData
    <2> QED
        BY <1>2, <1>3, <1>4, <2>1 DEF Raises, FrameKept, Honest
<1>6. Safe(q, failures) /\ Told(q)
    <2>1. Told(q)
        BY <1>1, <1>2, <1>3 DEF Raises, Told
    <2>2. CASE t.fault = ReaderError \/ t.kind = "reset"
        BY <1>2, <1>3, <1>4, <2>1, <2>2 DEF Raises, Mild, Safe
    <2>3. CASE t.fault = CommsError /\ t.kind = "set"
        BY <1>2, <2>1, <2>3 DEF Safe
    <2> QED
        BY <1>4, <2>2, <2>3
<1> QED
    BY <1>2, <1>5, <1>6

(* A timer expires and its callback runs at once. *)
LEMMA ExpireInv ==
    ASSUME IInv, Remember, NEW t, NEW up \in RedisUp, Expire(t, up)
    PROVE  IInv'
<1> DEFINE x == Unarmed(t)
           f == t.fault
           k == t.kind
<1>1. /\ Linked(reader, waiting, 0, "none") /\ Room(reader) /\ reader \in ReaderType
      /\ waiting \subseteq TimerType
    BY InvGives
<1>2. /\ t \in reader.timers /\ reader' = Callback(x, t, up)
      /\ UNCHANGED <<scene, waiting, batch, phase, sample, failures, raised, tagPresent>>
    BY DEF Expire, Elapsed
<1>3. /\ t \in TimerType /\ f \in Faults /\ k \in Kinds /\ f # 0 /\ t.id # 0
    BY <1>1, <1>2, InvGives DEF ReaderType, TimerType, Kinds, TimerIds
<1>4. /\ x \in ReaderType /\ x.timers = reader.timers \ {t}
      /\ x.faults = reader.faults /\ x.data = reader.data /\ x.redis = reader.redis
    BY <1>1 DEF Unarmed, ReaderType
<1> HIDE DEF x
<1>5. Distinct(reader, waiting) /\ Tracked(reader, waiting, 0, "none")
      /\ Owned(reader, waiting, 0, "none")
    BY <1>1 DEF Linked
<1>6. Linked(x, waiting, f, k)
    <2>1. Distinct(x, waiting)
        BY <1>4, <1>5 DEF Distinct
    <2>2. Tracked(x, waiting, f, k)
        <3> SUFFICES ASSUME NEW g \in Faults, NEW j \in Kinds, ~(g = f /\ j = k)
                     PROVE  /\ Pending(x.faults[g], j) <=> Pointer(x.faults[g], j) # 0
                            /\ Pointer(x.faults[g], j) # 0 =>
                                 \E u \in x.timers \cup waiting :
                                   /\ u.id = Pointer(x.faults[g], j)
                                   /\ u.fault = g /\ u.kind = j
            BY DEF Tracked
        <3>1. g # 0
            BY FaultNumbers
        <3>2. /\ Pending(reader.faults[g], j) <=> Pointer(reader.faults[g], j) # 0
              /\ Pointer(reader.faults[g], j) # 0 =>
                                 \E u \in reader.timers \cup waiting :
                                   /\ u.id = Pointer(reader.faults[g], j)
                                   /\ u.fault = g /\ u.kind = j
            BY <1>5, <3>1 DEF Tracked
        <3> QED
            BY <1>4, <3>2
    <2>3. Owned(x, waiting, f, k)
        <3>1. ASSUME ~scene.late, NEW u \in x.timers
              PROVE  ~(u.fault = f /\ u.kind = k) /\ Pointer(x.faults[u.fault], u.kind) = u.id
            <4>1. /\ Pointer(reader.faults[u.fault], u.kind) = u.id
                  /\ Pointer(reader.faults[f], k) = t.id /\ u # t /\ u \in reader.timers
                BY <1>2, <1>4, <1>5, <3>1 DEF Owned
            <4>2. u.id # t.id
                BY <1>2, <1>5, <4>1 DEF Distinct
            <4> QED
                BY <1>4, <4>1, <4>2
        <3> QED
            BY <1>5, <3>1 DEF Owned
    <2> QED
        BY <1>1, <1>4, <2>1, <2>2, <2>3 DEF Linked
<1>7. Room(x)
    BY <1>1, <1>4, RoomShrinks
<1>8. f = CommsError /\ k = "set" /\ ~scene.late => failures = MaxFailures
    <2> SUFFICES ASSUME f = CommsError, k = "set", ~scene.late
                 PROVE  failures = MaxFailures
        OBVIOUS
    <2>1. Pointer(reader.faults[f], k) = t.id
        BY <1>2, <1>5 DEF Owned
    <2>2. Pending(reader.faults[f], k)
        BY <1>3, <1>5, <2>1 DEF Tracked
    <2> QED
        BY <2>2 DEF Pending, IInv, Safe
<1>9. /\ Linked(reader', waiting, 0, "none") /\ OneMore(x, reader')
      /\ Safe(reader', failures) /\ Told(reader') /\ (phase # "parsed" => Honest(reader'))
    BY <1>2, <1>3, <1>4, <1>6, <1>7, <1>8, CallbackInv
<1>10. Room(reader)'
    <2> PICK y : reader'.timers \subseteq x.timers \cup {y}
        BY <1>9 DEF OneMore
    <2> DEFINE S == Timers(reader)
               T == reader'.timers \cup waiting
    <2>1. t \in S /\ T \in SUBSET ((S \ {t}) \cup {y})
        BY <1>2, <1>4, <1>5 DEF Timers, Distinct
    <2>2. IsFiniteSet(S) /\ Cardinality(S) <= MaxTimers
        BY <1>1 DEF Room
    <2> HIDE DEF S, T
    <2>3. IsFiniteSet(T) /\ Cardinality(T) <= MaxTimers
        BY <2>1, <2>2, RoomSwapped
    <2> QED
        BY <1>2, <2>3 DEF Room, Timers, T
<1>11. Linked(reader, waiting, 0, "none")'
    BY <1>2, <1>9 DEF Linked, Distinct, Tracked, Owned
<1>12. Safe(reader, failures)' /\ (phase' # "parsed" => Honest(reader)') /\ Rest'
    BY <1>2, <1>9 DEF IInv, Safe, Stuck, Honest, Rest
<1>13. Told(reader)' /\ overtaken' \subseteq Faults
    BY <1>2, <1>9, ToldLater, OvertakenType
<1> QED
    BY <1>10, <1>11, <1>12, <1>13 DEF IInv

(* A callback that waited runs. *)
LEMMA RunInv ==
    ASSUME IInv, Remember, NEW t, NEW up \in RedisUp, Run(t, up)
    PROVE  IInv'
<1> DEFINE W == waiting \ {t}
           f == t.fault
           k == t.kind
<1>1. /\ Linked(reader, waiting, 0, "none") /\ Room(reader) /\ reader \in ReaderType
      /\ waiting \subseteq TimerType
    BY InvGives
<1>2. /\ t \in waiting /\ waiting' = W /\ reader' = Callback(reader, t, up)
      /\ UNCHANGED <<scene, batch, phase, sample, failures, raised, tagPresent>>
    BY DEF Run
<1>3. t \in TimerType /\ W \subseteq waiting
    BY <1>1, <1>2
<1>4. Distinct(reader, waiting) /\ Tracked(reader, waiting, 0, "none")
      /\ Owned(reader, waiting, 0, "none")
    BY <1>1 DEF Linked
<1>5. scene.late
    BY <1>2, <1>4 DEF Owned
<1>6. Linked(reader, W, f, k)
    <2>1. Distinct(reader, W)
        BY <1>4 DEF Distinct
    <2>2. Tracked(reader, W, f, k)
        <3> SUFFICES ASSUME NEW g \in Faults, NEW j \in Kinds, ~(g = f /\ j = k)
                     PROVE  /\ Pending(reader.faults[g], j) <=> Pointer(reader.faults[g], j) # 0
                            /\ Pointer(reader.faults[g], j) # 0 =>
                                 \E u \in reader.timers \cup W :
                                   /\ u.id = Pointer(reader.faults[g], j)
                                   /\ u.fault = g /\ u.kind = j
            BY DEF Tracked
        <3>1. g # 0
            BY FaultNumbers
        <3>2. /\ Pending(reader.faults[g], j) <=> Pointer(reader.faults[g], j) # 0
              /\ Pointer(reader.faults[g], j) # 0 =>
                                 \E u \in reader.timers \cup waiting :
                                   /\ u.id = Pointer(reader.faults[g], j)
                                   /\ u.fault = g /\ u.kind = j
            BY <1>4, <3>1 DEF Tracked
        <3> QED
            BY <3>2
    <2>3. Owned(reader, W, f, k)
        BY <1>5 DEF Owned
    <2> QED
        BY <1>1, <1>3, <2>1, <2>2, <2>3 DEF Linked
<1> HIDE DEF W
<1>7. /\ Linked(reader', W, 0, "none") /\ OneMore(reader, reader')
      /\ Safe(reader', failures) /\ Told(reader') /\ (phase # "parsed" => Honest(reader'))
    BY <1>1, <1>2, <1>3, <1>5, <1>6, CallbackInv
<1>8. Room(reader)'
    <2> PICK y : reader'.timers \subseteq reader.timers \cup {y}
        BY <1>7 DEF OneMore
    <2> DEFINE S == Timers(reader)
               T == reader'.timers \cup W
    <2>1. t \in S /\ T \in SUBSET ((S \ {t}) \cup {y})
        BY <1>2, <1>4 DEF Timers, Distinct, W
    <2>2. IsFiniteSet(S) /\ Cardinality(S) <= MaxTimers
        BY <1>1 DEF Room
    <2> HIDE DEF S, T
    <2>3. IsFiniteSet(T) /\ Cardinality(T) <= MaxTimers
        BY <2>1, <2>2, RoomSwapped
    <2> QED
        BY <1>2, <2>3 DEF Room, Timers, T
<1>9. Linked(reader, waiting, 0, "none")'
    BY <1>2, <1>3, <1>7 DEF Linked, Distinct, Tracked, Owned
<1>10. Safe(reader, failures)' /\ (phase' # "parsed" => Honest(reader)') /\ Rest'
    BY <1>2, <1>7 DEF IInv, Safe, Stuck, Honest, Rest
<1>11. Told(reader)' /\ overtaken' \subseteq Faults
    BY <1>2, <1>7, ToldLater, OvertakenType
<1> QED
    BY <1>8, <1>9, <1>10, <1>11 DEF IInv

(* A callback has to wait. *)
LEMMA FireInv ==
    ASSUME IInv, Remember, NEW t, Fire(t)
    PROVE  IInv'
<1>1. /\ Linked(reader, waiting, 0, "none") /\ Room(reader) /\ reader \in ReaderType
      /\ waiting \subseteq TimerType
    BY InvGives
<1>2. /\ scene.late /\ t \in reader.timers /\ reader' = Unarmed(t)
      /\ waiting' = waiting \cup {t}
      /\ UNCHANGED <<scene, batch, phase, sample, failures, raised, tagPresent>>
    BY DEF Fire, Elapsed
<1>3. /\ reader' \in ReaderType /\ reader'.timers = reader.timers \ {t}
      /\ reader'.faults = reader.faults /\ reader'.data = reader.data
      /\ reader'.redis = reader.redis /\ t \in TimerType
    BY <1>1, <1>2 DEF Unarmed, ReaderType
<1>4. reader'.timers \cup waiting' = reader.timers \cup waiting
    BY <1>2, <1>3
<1>5. Distinct(reader, waiting) /\ Tracked(reader, waiting, 0, "none")
    BY <1>1 DEF Linked
<1>6. Distinct(reader, waiting)'
    BY <1>2, <1>3, <1>4, <1>5 DEF Distinct
<1>7. Tracked(reader, waiting, 0, "none")'
    BY <1>3, <1>4, <1>5 DEF Tracked
<1>8. Owned(reader, waiting, 0, "none")'
    BY <1>2 DEF Owned
<1>9. Linked(reader, waiting, 0, "none")'
    BY <1>1, <1>2, <1>3, <1>6, <1>7, <1>8 DEF Linked
<1>10. Room(reader)'
    BY <1>1, <1>4 DEF Room, Timers
<1>11. Safe(reader, failures)' /\ (phase' # "parsed" => Honest(reader)') /\ Rest'
    BY <1>2, <1>3 DEF IInv, Safe, Stuck, Honest, Rest
<1>12. Told(reader')
    BY <1>3 DEF IInv, Told, Shown
<1>13. Told(reader)' /\ overtaken' \subseteq Faults
    BY <1>2, <1>12, ToldLater, OvertakenType
<1> QED
    BY <1>9, <1>10, <1>11, <1>13 DEF IInv

-----------------------------------------------------------------------------
(* The theorems. *)

(* A reader starts without faults and timers. *)
LEMMA InitInv ==
    ASSUME Init
    PROVE  IInv
<1>1. /\ scene \in Scenes /\ waiting = {} /\ phase = "idle" /\ sample = NoSample
      /\ batch = NoBatch /\ overtaken = {}
      /\ failures = 0 /\ ~raised /\ raised \in BOOLEAN /\ tagPresent \in BOOLEAN
    BY DEF Init
<1>2. NoFault \in FaultType /\ NoData \in DataType
    BY DEF NoFault, FaultType, NoData, DataType
<1>3. /\ ~NoFault.present /\ ~NoFault.pendingSet /\ ~NoFault.pendingReset
      /\ NoFault.setTimer = 0 /\ NoFault.resetTimer = 0
    BY DEF NoFault
<1>4. /\ reader \in ReaderType /\ reader.timers = {} /\ reader.redis.faults = {}
      /\ \A f \in Faults : reader.faults[f] = NoFault
    BY <1>2 DEF Init, ReaderType, RedisType
<1>5. CommsError \in Faults /\ PowerOff \in Faults
    BY FaultNumbers DEF Software
<1>6. Linked(reader, waiting, 0, "none")
    <2>1. Distinct(reader, waiting) /\ Owned(reader, waiting, 0, "none")
        BY <1>1, <1>4 DEF Distinct, Owned
    <2>2. Tracked(reader, waiting, 0, "none")
        BY <1>3, <1>4 DEF Tracked, Pending, Pointer
    <2> QED
        BY <1>1, <1>4, <2>1, <2>2 DEF Linked
<1>7. Room(reader)
    <2>1. Timers(reader) = {}
        BY <1>1, <1>4 DEF Timers
    <2> QED
        BY <2>1, FS_EmptySet, DelaysAssumption DEF Room
<1>8. Safe(reader, failures) /\ Told(reader) /\ Honest(reader)
    BY <1>3, <1>4, <1>5 DEF Safe, Stuck, Told, Shown, Honest
<1>9. Rest
    BY <1>1, DelaysAssumption DEF Rest, NoSample, NoBatch, BatchType
<1> QED
    BY <1>1, <1>6, <1>7, <1>8, <1>9 DEF IInv

(* A step of the goroutine of the state machine. *)
LEMMA ReaderStepKeeps ==
    ASSUME IInv, NEW up \in RedisUp, Cardinality(Timers(reader)) < MaxTimers,
           Remember, ReaderStep(up)
    PROVE  IInv'
<1>1. CASE CommsFailure(up)
    BY <1>1, CommsFailureInv
<1>2. CASE Answer(up)
    BY <1>2, AnswerInv
<1>3. CASE \E off \in BOOLEAN : Written(off, up)
    BY <1>3, WrittenInv
<1>4. CASE ParseEmpty(up)
    BY <1>4, ParseEmptyInv
<1>5. CASE \E code \in SUBSET scene.hardware, state \in FrameStates, serial \in Serials :
              Parse(code, state, serial, up)
    BY <1>5, ParseInv
<1>6. CASE \E expectedOn \in Expected, valid \in Validity : Observe(expectedOn, valid, up)
    <2>1. Validity \subseteq BOOLEAN /\ Expected \subseteq BOOLEAN
        BY DEF Validity, Expected
    <2> QED
        BY <1>6, <2>1, ObserveInv
<1>7. CASE Departed(up)
    BY <1>7, DepartedInv
<1>8. CASE Raise(up)
    BY <1>8, RaiseInv
<1>9. CASE Initialized(up)
    BY <1>9, InitializedInv
<1> QED
    BY <1>1, <1>2, <1>3, <1>4, <1>5, <1>6, <1>7, <1>8, <1>9 DEF ReaderStep

(* Every step. *)
LEMMA NextInv ==
    ASSUME IInv, [Next]_vars
    PROVE  IInv'
<1>1. CASE \E up \in RedisUp :
             Cardinality(Timers(reader)) < MaxTimers /\ ReaderStep(up) /\ Remember
    BY <1>1, ReaderStepKeeps
<1>2. CASE \E up \in RedisUp : PublishStep(up) /\ Remember
    BY <1>2, CollectInv, ExecInv, MarkInv DEF PublishStep
<1>3. CASE ((\E sameUid \in BOOLEAN : TagArrived(sameUid)) \/ TagLost) /\ Remember
    BY <1>3, TagInv
<1>4. CASE \E k \in TimerIds : TimerStep(k) /\ Remember
    BY <1>4, ExpireInv, RunInv DEF TimerStep
<1>5. CASE \E t \in reader.timers : Fire(t) /\ Remember
    BY <1>5, FireInv
<1>6. CASE Tick /\ Remember
    BY <1>6, TickInv
<1>7. CASE UNCHANGED vars
    <2>1. UNCHANGED <<scene, reader, waiting, phase, failures>> /\ UNCHANGED overtaken /\ Rest'
        BY <1>7 DEF vars, IInv, Rest
    <2> QED
        BY <2>1, QuietInv
<1> QED
    BY <1>1, <1>2, <1>3, <1>4, <1>5, <1>6, <1>7 DEF Next

(* The invariant holds in every reachable state: it is true at the start,  *)
(* and every operation of fault.go and of its callers keeps it.            *)
THEOREM FaultsInvariant == Spec => []IInv
<1>1. Init => IInv
    BY InitInv
<1>2. IInv /\ [Next]_vars => IInv'
    BY NextInv
<1> QED
    BY <1>1, <1>2, PTL DEF Spec

(* Every field of the reader keeps its type, whatever timers run late: in  *)
(* particular NewTimer always finds a timer that is free (fault.go:84-122).*)
THEOREM FaultTypes == Spec => []TypeOK
<1>1. IInv => TypeOK
    BY DEF IInv, Rest, BatchType, Linked, ReaderType, RedisType, TypeOK
<1> QED
    BY <1>1, FaultsInvariant, PTL

(* No debounce is lost: whatever callbacks wait for faultMu, a pending     *)
(* fault has a live timer (setFaultLocked, fault.go:84-122).               *)
THEOREM DebouncesAreNotLost == Spec => []PendingHasTimer
<1>1. IInv => PendingHasTimer
    <2> SUFFICES ASSUME IInv, NEW f \in Faults, NEW k \in Kinds,
                        Pending(reader.faults[f], k)
                 PROVE  \E t \in Timers(reader) : t.fault = f /\ t.kind = k
        BY DEF PendingHasTimer, Pending, Kinds
    <2>1. f # 0
        BY FaultNumbers
    <2> QED
        BY <2>1 DEF IInv, Linked, Tracked, Timers
<1> QED
    BY <1>1, FaultsInvariant, PTL

(* With Redis up, its fault set is that of the reader, but for a           *)
(* communication fault skipped when no pack is expected and for a fault    *)
(* whose transaction a callback overtook, until Redis is told of it again  *)
(* (reportFault, updateFaultSetInTransaction, battery_status.go:304-325).  *)
THEOREM FaultSetIsTracked == Spec => []FaultSetTracks
<1>1. IInv => FaultSetTracks
    BY DEF IInv, Told, Shown, FaultSetTracks
<1> QED
    BY <1>1, FaultsInvariant, PTL

(* A communication fault waits to be set only after as many failures in a  *)
(* row as the threshold asks for (nfc_operations.go:454-463).              *)
THEOREM TransientsAreIgnored == Spec => []TransientsIgnored
<1>1. IInv => TransientsIgnored
    BY DEF IInv, Safe, TransientsIgnored
<1> QED
    BY <1>1, FaultsInvariant, PTL

(* Where no callback waits for faultMu, a communication fault that         *)
(* outlives its failures is waiting to be reset (nfc_operations.go:460-479,*)
(* fault.go:84-122).                                                       *)
THEOREM CommsFaultsHeal == Spec => []CommsFaultHeals
<1>1. IInv => CommsFaultHeals
    BY DelaysAssumption DEF IInv, Rest, Safe, Stuck, CommsFaultHeals
<1> QED
    BY <1>1, FaultsInvariant, PTL

(* A valid frame that shows the pack active ends B36, for every power      *)
(* sample and every order of frames, departures and callbacks              *)
(* (observePowerState).                                                    *)
THEOREM PowerOffsAreHonest == Spec => []PowerOffHonest
<1>1. IInv => PowerOffHonest
    BY DEF IInv, Honest, PowerOffHonest
<1> QED
    BY <1>1, FaultsInvariant, PTL

============================================================================
