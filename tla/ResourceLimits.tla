--------------------------- MODULE ResourceLimits ---------------------------
(***************************************************************************)
(* The two limits of the server, of one shape: entries that threads take   *)
(* and give back under a mutex, and a watermark they check after unlock.   *)
(***************************************************************************)
EXTENDS Integers, Sequences, SequencesExt, FiniteSets

(***************************************************************************)
(* core::ConnectionPool: pre-allocated connection entries handed out to    *)
(* the threads of the server under handles.  mutex_ covers the tables; the *)
(* watermark check and the read of the returned handle come after unlock.  *)
(***************************************************************************)
CONSTANTS
  PoolThreads,
  MaxConnections, PreAllocateCount,   \* as the caller configures them
  DefaultConnections,                 \* the limit of the platform
  MaxHandles                          \* bound: handles generated
ASSUME PoolAssumption ==
  /\ {MaxConnections, PreAllocateCount, MaxHandles} \subseteq Nat
  /\ DefaultConnections \in Nat \ {0}

VARIABLES
  poolEntries,   \* entries_: handle and use of each connection object
  poolIndex,     \* handleToIndex_
  poolAvailable, \* availableIndices_
  poolStats,     \* statistics_
  poolAbove,     \* aboveHighWatermark_
  poolNext,      \* nextHandle_
  poolPc,        \* what each thread has left to do after unlock
  poolOwned,     \* the handles acquire returned to each thread
  poolRaced      \* "watermark": two checks overlapped; "clear": clear met an acquire

poolVars == <<poolEntries, poolIndex, poolAvailable, poolStats, poolAbove,
              poolNext, poolPc, poolOwned, poolRaced>>

-----------------------------------------------------------------------------

\* The configuration after the constructor's corrections.
PoolLimit == IF MaxConnections = 0 THEN DefaultConnections ELSE MaxConnections

PoolPreAllocated ==
  LET asked == IF MaxConnections = 0 THEN (DefaultConnections * 50) \div 100
               ELSE IF PreAllocateCount > PoolLimit THEN PoolLimit ELSE PreAllocateCount
      share == (PoolLimit * 50) \div 100
  IN  IF asked # 0 THEN asked ELSE IF share = 0 THEN 1 ELSE share

HighThreshold == (PoolLimit * 80) \div 100
LowThreshold == (PoolLimit * 50) \div 100

NewEntry == [handle |-> 0, inUse |-> FALSE]

PoolCounters == [inUse |-> 0, available |-> PoolPreAllocated, peak |-> 0,
                 allocated |-> PoolPreAllocated, rejected |-> 0, acquires |-> 0,
                 releases |-> 0]

Resting == [step |-> "idle", count |-> 0, entry |-> 0]

\* Everyone else is outside: no other thread has work left after its unlock.
PoolAlone(t) == \A u \in PoolThreads \ {t} : poolPc[u].step = "idle"

PoolInit ==
  /\ poolEntries = [i \in 1..PoolPreAllocated |-> NewEntry]
  /\ poolIndex = <<>>
  /\ poolAvailable = [i \in 1..PoolPreAllocated |-> i]
  /\ poolStats = PoolCounters
  /\ poolAbove = FALSE
  /\ poolNext = 1
  /\ poolPc = [t \in PoolThreads |-> Resting]
  /\ poolOwned = [t \in PoolThreads |-> {}]
  /\ poolRaced = {}

\* The limit is reached: the events are sent without the lock, nothing else.
rejectAcquire(t) ==
  /\ poolPc[t].step = "idle" /\ poolStats.acquires < MaxHandles + 2
  /\ poolAvailable = <<>> /\ Len(poolEntries) >= PoolLimit
  /\ poolStats' = [poolStats EXCEPT !.acquires = @ + 1, !.rejected = @ + 1]
  /\ UNCHANGED <<poolEntries, poolIndex, poolAvailable, poolAbove, poolNext,
                 poolPc, poolOwned, poolRaced>>

\* Mutant: the entry stays among the available ones.
acquireKeepsFree(t) ==
  LET grows == poolAvailable = <<>>
      index == IF grows THEN Len(poolEntries) + 1 ELSE Head(poolAvailable)
      taken == [handle |-> poolNext, inUse |-> TRUE]
  IN
  /\ poolPc[t].step = "idle" /\ poolNext <= MaxHandles /\ poolStats.acquires < MaxHandles + 2
  /\ ~grows \/ Len(poolEntries) < PoolLimit
  /\ poolEntries' = IF grows THEN Append(poolEntries, taken)
                     ELSE [poolEntries EXCEPT ![index] = taken]
  /\ poolIndex' = [h \in DOMAIN poolIndex \union {poolNext} |->
                     IF h = poolNext THEN index ELSE poolIndex[h]]
  /\ UNCHANGED poolAvailable
  /\ poolNext' = poolNext + 1
  /\ poolStats' = [poolStats EXCEPT !.acquires = @ + 1, !.inUse = @ + 1]
  /\ poolPc' = [poolPc EXCEPT ![t] =
       [step |-> "check", count |-> poolStats.inUse + 1, entry |-> index]]
  /\ UNCHANGED <<poolAbove, poolOwned, poolRaced>>

\* An entry is allocated if none is free, the front one is handed out.
acquire(t) ==
  LET grows == poolAvailable = <<>>
      index == IF grows THEN Len(poolEntries) + 1 ELSE Head(poolAvailable)
      taken == [handle |-> poolNext, inUse |-> TRUE]
      used  == poolStats.inUse + 1
  IN
  /\ poolPc[t].step = "idle" /\ poolNext <= MaxHandles /\ poolStats.acquires < MaxHandles + 2
  /\ ~grows \/ Len(poolEntries) < PoolLimit
  /\ poolEntries' = IF grows THEN Append(poolEntries, taken)
                     ELSE [poolEntries EXCEPT ![index] = taken]
  /\ poolIndex' = [h \in DOMAIN poolIndex \union {poolNext} |->
                     IF h = poolNext THEN index ELSE poolIndex[h]]
  /\ poolAvailable' = IF grows THEN <<>> ELSE Tail(poolAvailable)
  /\ poolNext' = poolNext + 1
  /\ poolStats' = [poolStats EXCEPT
       !.acquires = @ + 1, !.inUse = used, !.available = Len(poolAvailable'),
       !.allocated = Len(poolEntries'), !.peak = IF used > @ THEN used ELSE @]
  /\ poolPc' = [poolPc EXCEPT ![t] = [step |-> "check", count |-> used, entry |-> index]]
  /\ UNCHANGED <<poolAbove, poolOwned, poolRaced>>

\* A thread releases a handle that some thread was given; a handle that is 0
\* or not mapped any more changes nothing.
release(t, h) ==
  /\ poolPc[t].step = "idle"
  /\ \E u \in PoolThreads : h \in poolOwned[u]
  /\ h \in DOMAIN poolIndex
  /\ poolEntries[poolIndex[h]].inUse
  /\ poolEntries' = [poolEntries EXCEPT ![poolIndex[h]].inUse = FALSE]
  /\ poolAvailable' = Append(poolAvailable, poolIndex[h])
  /\ poolIndex' = [k \in DOMAIN poolIndex \ {h} |-> poolIndex[k]]
  /\ poolStats' = [poolStats EXCEPT !.inUse = @ - 1, !.releases = @ + 1,
                                    !.available = Len(poolAvailable')]
  /\ poolPc' = [poolPc EXCEPT ![t] =
       [step |-> "check", count |-> poolStats.inUse - 1, entry |-> 0]]
  /\ poolOwned' = [u \in PoolThreads |-> poolOwned[u] \ {h}]
  /\ UNCHANGED <<poolAbove, poolNext, poolRaced>>

\* Without the lock, on the count the caller saw under it.
checkWatermarks(t) ==
  LET count == poolPc[t].count IN
  /\ poolPc[t].step = "check"
  /\ poolAbove' = IF count >= HighThreshold THEN TRUE
                  ELSE IF count <= LowThreshold THEN FALSE ELSE poolAbove
  /\ poolRaced' = poolRaced \union IF PoolAlone(t) THEN {} ELSE {"watermark"}
  /\ poolPc' = [poolPc EXCEPT ![t] =
       IF @.entry = 0 THEN Resting ELSE [@ EXCEPT !.step = "return"]]
  /\ UNCHANGED <<poolEntries, poolIndex, poolAvailable, poolStats, poolNext, poolOwned>>

\* acquire reads the handle of its entry again to return it.
returnHandle(t) ==
  /\ poolPc[t].step = "return"
  /\ poolOwned' = [poolOwned EXCEPT ![t] = @ \union {poolEntries[poolPc[t].entry].handle}]
  /\ poolPc' = [poolPc EXCEPT ![t] = Resting]
  /\ UNCHANGED <<poolEntries, poolIndex, poolAvailable, poolStats, poolAbove,
                 poolNext, poolRaced>>

resetPoolStatistics(t) ==
  /\ poolPc[t].step = "idle"
  /\ poolStats' = [poolStats EXCEPT !.peak = poolStats.inUse, !.rejected = 0,
                                    !.acquires = 0, !.releases = 0]
  /\ UNCHANGED <<poolEntries, poolIndex, poolAvailable, poolAbove, poolNext,
                 poolPc, poolOwned, poolRaced>>

\* Every entry is free again, whoever was using it.
clearPool(t) ==
  /\ poolPc[t].step = "idle"
  /\ poolEntries' = [i \in DOMAIN poolEntries |-> [poolEntries[i] EXCEPT !.inUse = FALSE]]
  /\ poolIndex' = <<>>
  /\ poolAvailable' = [i \in DOMAIN poolEntries |-> i]
  /\ poolStats' = [poolStats EXCEPT !.inUse = 0, !.available = Len(poolEntries)]
  /\ poolAbove' = FALSE
  /\ poolOwned' = [u \in PoolThreads |-> {}]
  /\ poolRaced' = poolRaced \union IF PoolAlone(t) THEN {} ELSE {"clear", "watermark"}
  /\ UNCHANGED <<poolNext, poolPc>>

PoolNext ==
  \E t \in PoolThreads :
    \/ acquire(t) \/ rejectAcquire(t) \/ checkWatermarks(t) \/ returnHandle(t)
    \/ \E h \in 1..MaxHandles : release(t, h)
    \/ resetPoolStatistics(t) \/ clearPool(t)

-----------------------------------------------------------------------------

(***************************************************************************)
(* The tables agree: an entry is in use under the one handle that maps to  *)
(* it or it is available once, there are never more entries than the       *)
(* limit, and the counts of getStatistics are those of the tables.         *)
(***************************************************************************)
PoolConsistent ==
  LET used == {i \in DOMAIN poolEntries : poolEntries[i].inUse} IN
  /\ Len(poolEntries) <= PoolLimit
  /\ IsInjective(poolAvailable)
  /\ Range(poolAvailable) = DOMAIN poolEntries \ used
  /\ {poolIndex[h] : h \in DOMAIN poolIndex} = used
  /\ \A h \in DOMAIN poolIndex : poolEntries[poolIndex[h]].handle = h
  /\ poolStats.inUse = Cardinality(used)
  /\ poolStats.available = Len(poolAvailable)
  /\ poolStats.allocated = Len(poolEntries)
  /\ poolStats.peak >= poolStats.inUse

(***************************************************************************)
(* A handle has one owner and names a connection in use, unless clear ran  *)
(* while an acquire was between its unlock and its return.                 *)
(***************************************************************************)
HandlesExclusive ==
  "clear" \notin poolRaced =>
    \A t \in PoolThreads :
      /\ poolOwned[t] \subseteq DOMAIN poolIndex
      /\ \A u \in PoolThreads \ {t} : poolOwned[t] \intersect poolOwned[u] = {}

(***************************************************************************)
(* When no check is pending and none overlapped another, the watermark     *)
(* state is the one the count asks for, so a warning is neither lost nor   *)
(* stuck (with a limit of 1 the threshold rounds to 0, and a pool that     *)
(* nobody uses has reached it unwarned).                                   *)
(***************************************************************************)
WatermarkTracks ==
  "watermark" \notin poolRaced /\ (\A t \in PoolThreads : poolPc[t].step # "check") =>
    /\ HighThreshold > 0 /\ poolStats.inUse >= HighThreshold => poolAbove
    /\ poolStats.inUse <= LowThreshold => (poolAbove => poolStats.inUse >= HighThreshold)

-----------------------------------------------------------------------------
(***************************************************************************)
(* core::PublisherLimit: the slots of the publishers.  mutex_ covers the   *)
(* set and its counters; the watermark check and the events follow unlock. *)
(***************************************************************************)
CONSTANTS
  LimitThreads, LimitPublishers,
  ConfiguredPublishers,   \* config_.maxPublishers as given
  MaxSlotCalls            \* bound: counted acquisitions and rejections
ASSUME LimitAssumption ==
  /\ IsFiniteSet(LimitPublishers)
  /\ ConfiguredPublishers \in Nat /\ MaxSlotCalls \in Nat

VARIABLES
  slots,        \* activePublishers_
  slotStats,    \* peakPublishers_, totalAcquires_, totalReleases_, rejectedAcquires_
  slotHigh,     \* highWatermarkTriggered_
  slotPc,       \* the counts a thread takes to checkWatermarks
  slotCleared,  \* slots taken away by clear since the last reset
  slotBase,     \* slots held at the last reset of the statistics
  slotRaced     \* did two checks overlap?

slotVars == <<slots, slotStats, slotHigh, slotPc, slotCleared, slotBase, slotRaced>>

SlotLimit == IF ConfiguredPublishers = 0 THEN 1 ELSE ConfiguredPublishers
SlotHigh == (SlotLimit * 80) \div 100
SlotLow == (SlotLimit * 50) \div 100

SlotResting == [step |-> "idle", prev |-> 0, cur |-> 0]
SlotCounters(peak) == [peak |-> peak, acquires |-> 0, releases |-> 0, rejected |-> 0]

SlotInit ==
  /\ slots = {} /\ slotStats = SlotCounters(0) /\ slotHigh = FALSE
  /\ slotPc = [t \in LimitThreads |-> SlotResting]
  /\ slotCleared = 0 /\ slotBase = 0 /\ slotRaced = FALSE

\* The thread leaves the lock with the counts before and after.
SlotUnlock(t, prev, cur) ==
  slotPc' = [slotPc EXCEPT ![t] = [step |-> "check", prev |-> prev, cur |-> cur]]

SlotIdle(t) == slotPc[t].step = "idle"

\* Mutant: one slot too many.
acquireOverLimit(t, p) ==
  LET count == Cardinality(slots) IN
  /\ SlotIdle(t) /\ p \notin slots /\ count <= SlotLimit
  /\ slotStats.acquires < MaxSlotCalls
  /\ slots' = slots \union {p}
  /\ slotStats' = [slotStats EXCEPT !.acquires = @ + 1,
                     !.peak = IF count + 1 > @ THEN count + 1 ELSE @]
  /\ SlotUnlock(t, count, count + 1)
  /\ UNCHANGED <<slotHigh, slotCleared, slotBase, slotRaced>>

\* A publisher that has a slot is refused with an error and counts nowhere.
acquirePublisherSlot(t, p) ==
  LET count == Cardinality(slots) IN
  /\ SlotIdle(t) /\ p \notin slots /\ count < SlotLimit
  /\ slotStats.acquires < MaxSlotCalls
  /\ slots' = slots \union {p}
  /\ slotStats' = [slotStats EXCEPT !.acquires = @ + 1,
                     !.peak = IF count + 1 > @ THEN count + 1 ELSE @]
  /\ SlotUnlock(t, count, count + 1)
  /\ UNCHANGED <<slotHigh, slotCleared, slotBase, slotRaced>>

rejectPublisher(t, p) ==
  /\ SlotIdle(t) /\ p \notin slots /\ Cardinality(slots) >= SlotLimit
  /\ slotStats.rejected < MaxSlotCalls
  /\ slotStats' = [slotStats EXCEPT !.rejected = @ + 1]
  /\ UNCHANGED <<slots, slotHigh, slotPc, slotCleared, slotBase, slotRaced>>

releasePublisherSlot(t, p) ==
  LET count == Cardinality(slots) IN
  /\ SlotIdle(t) /\ p \in slots
  /\ slots' = slots \ {p}
  /\ slotStats' = [slotStats EXCEPT !.releases = @ + 1]
  /\ SlotUnlock(t, count, count - 1)
  /\ UNCHANGED <<slotHigh, slotCleared, slotBase, slotRaced>>

\* Only a step across a threshold changes the flag.
checkSlotWatermarks(t) ==
  LET c == slotPc[t]
      up == ~slotHigh /\ c.cur >= SlotHigh /\ c.prev < SlotHigh
      high == slotHigh \/ up
      down == high /\ c.cur <= SlotLow /\ c.prev > SlotLow
  IN
  /\ c.step = "check"
  /\ slotHigh' = (high /\ ~down)
  /\ slotRaced' = (slotRaced \/ \E u \in LimitThreads \ {t} : ~SlotIdle(u))
  /\ slotPc' = [slotPc EXCEPT ![t] = SlotResting]
  /\ UNCHANGED <<slots, slotStats, slotCleared, slotBase>>

resetSlotStatistics(t) ==
  /\ SlotIdle(t)
  /\ slotStats' = SlotCounters(Cardinality(slots))
  /\ slotBase' = Cardinality(slots) /\ slotCleared' = 0
  /\ UNCHANGED <<slots, slotHigh, slotPc, slotRaced>>

clearSlots(t) ==
  /\ SlotIdle(t)
  /\ slots' = {} /\ slotHigh' = FALSE
  /\ slotCleared' = slotCleared + Cardinality(slots)
  /\ slotRaced' = (slotRaced \/ \E u \in LimitThreads : ~SlotIdle(u))
  /\ UNCHANGED <<slotStats, slotPc, slotBase>>

SlotNext ==
  \E t \in LimitThreads :
    \/ \E p \in LimitPublishers :
         acquirePublisherSlot(t, p) \/ rejectPublisher(t, p) \/ releasePublisherSlot(t, p)
    \/ checkSlotWatermarks(t) \/ resetSlotStatistics(t) \/ clearSlots(t)

-----------------------------------------------------------------------------

(***************************************************************************)
(* Never more publishers than slots, whatever threads race for the last    *)
(* one, and the statistics account for every slot: held at the reset plus  *)
(* acquired is released plus cleared plus held now.                        *)
(***************************************************************************)
SlotsAccounted ==
  /\ Cardinality(slots) <= SlotLimit
  /\ slotBase + slotStats.acquires = slotStats.releases + slotCleared + Cardinality(slots)
  /\ slotStats.peak >= Cardinality(slots)

(***************************************************************************)
(* When checks did not overlap, the watermark flag follows the count (with *)
(* a limit of 1 or 2 the two thresholds round to the same number).         *)
(***************************************************************************)
SlotWatermarkTracks ==
  ~slotRaced /\ (\A t \in LimitThreads : SlotIdle(t)) =>
    /\ SlotHigh > SlotLow /\ Cardinality(slots) >= SlotHigh => slotHigh
    /\ SlotHigh > SlotLow /\ Cardinality(slots) <= SlotLow => ~slotHigh
=============================================================================
