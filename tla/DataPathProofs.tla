---------------------------- MODULE DataPathProofs ----------------------------
(***************************************************************************)
(* Proofs about the two components on the path of the data that is backed  *)
(* up.  DirtyBufferLogger, which has it written to the disk first: for any *)
(* number of calls that share a logger and any finite set of pages.        *)
(* DataMover, which carries it away: for every chunk size, interval and    *)
(* set of sources, and any number of crashes and replacements.             *)
(***************************************************************************)
EXTENDS DirtyBufferLogger, DataMover, FiniteSetTheorems, TLAPS

-----------------------------------------------------------------------------
(* DirtyBufferLogger.                                                      *)

Results == [call : Calls, status : Statuses, level : Levels]
Row(c) == [call |-> c, status |-> flush[c], level |-> level[c]]

(* A call has a status once it flushed and a level once it is done.        *)
ResultShape ==
  \A c \in Calls :
    /\ pc[c] \in {"start", "flush"} => flush[c] = "NOT_FLUSHED"
    /\ pc[c] # "done" => level[c] = "CRASH_CONSISTENT"
    /\ level[c] # "CRASH_CONSISTENT" => flush[c] = "FLUSHED"

(* What is dirty after a call's flush was dirtied since its capture, and   *)
(* so was what a call counted afterwards.                                  *)
DirtyShape ==
  \A c \in Calls : flush[c] = "FLUSHED" =>
    /\ dirty \subseteq redirtied[c]
    /\ pc[c] \in {"evaluate", "done"} /\ after[c] # 0 => redirtied[c] # {}
    /\ level[c] = "FILE_CONSISTENT" => redirtied[c] # {}

(* Every row is that of a finished call, and says what the call returned.  *)
RowShape ==
  \A r \in logs : initialized /\ \E c \in Calls : pc[c] = "done" /\ r = Row(c)

FlushInv ==
  FlushTypeOK /\ ResultShape /\ DirtyShape /\ FlushedIsWritten /\ RowShape

-----------------------------------------------------------------------------
(* A page count fits the type of before and after, and is 0 only when no   *)
(* page is dirty.                                                          *)
LEMMA PageCount ==
  ASSUME dirty \subseteq Pages
  PROVE  /\ Cardinality(dirty) \in 0..Cardinality(Pages)
         /\ Cardinality(dirty) # 0 => dirty # {}
<1>1. IsFiniteSet(Pages) /\ IsFiniteSet(dirty)
  BY PagesAssumption, FS_Subset
<1>2. /\ Cardinality(dirty) \in Nat /\ Cardinality(Pages) \in Nat
      /\ Cardinality(dirty) <= Cardinality(Pages)
  BY <1>1, FS_CardinalityType, FS_Subset
<1>3. dirty = {} => Cardinality(dirty) = 0
  BY FS_EmptySet
<1> QED BY <1>2, <1>3

(* The level of step 6 is more than crash consistent only for a flush that *)
(* succeeded, and file consistent only if pages were dirty afterwards.     *)
LEMMA LevelType ==
  ASSUME NEW s \in Statuses, NEW b \in Int, NEW a \in Int
  PROVE  /\ Level(s, b, a) \in Levels
         /\ Level(s, b, a) # "CRASH_CONSISTENT" => s = "FLUSHED"
         /\ Level(s, b, a) = "FILE_CONSISTENT" => a # 0
BY DEF Level, Levels, Statuses

LEMMA FlushInitHolds == FlushInit => FlushInv
<1> SUFFICES ASSUME FlushInit PROVE FlushInv
  OBVIOUS
<1>1. 0 \in 0..Cardinality(Pages)
  BY PagesAssumption, FS_CardinalityType
<1>2. initialized \in BOOLEAN
  BY Zenon DEF FlushInit
<1>3. FlushTypeOK
  BY <1>1, <1>2 DEF FlushInit, FlushTypeOK, Statuses, Levels
<1>4. RowShape
  BY DEF FlushInit, RowShape
<1> QED BY <1>3, <1>4 DEF FlushInit, FlushInv, ResultShape, DirtyShape, FlushedIsWritten

-----------------------------------------------------------------------------
(* The steps.                                                              *)

LEMMA TypePreserved ==
  ASSUME FlushTypeOK, FlushNext
  PROVE  FlushTypeOK'
<1>1. Cardinality(dirty) \in 0..Cardinality(Pages)
  BY PageCount DEF FlushTypeOK
<1>2. \A c \in Calls : flush[c] \in Statuses /\ level[c] \in Levels
                       /\ before[c] \in Int /\ after[c] \in Int
  BY DEF FlushTypeOK
<1>3. initialized' \in BOOLEAN
  <2>1. initialized' = initialized
    BY DEF FlushNext, CallStep, NoFlusher, CaptureBefore, FlushSucceeds, FlushFails,
           CaptureAfter, Evaluate, Dirty, Writeback
  <2> QED BY <2>1, Zenon DEF FlushTypeOK
<1>4. ASSUME NEW c \in Calls, NEW s \in Statuses, NEW l \in Levels, Save(c, s, l)
      PROVE  logs' \subseteq Results
  BY <1>4 DEF Save, Results, FlushTypeOK
<1>5. ASSUME NEW c \in Calls, NoFlusher(c) PROVE FlushTypeOK'
  <2>1. logs' \subseteq Results
    BY <1>2, <1>4, <1>5 DEF NoFlusher, Statuses
  <2> QED BY <1>3, <1>5, <2>1
          DEF NoFlusher, Goto, FlushTypeOK, Statuses, flushHistory, Results
<1>6. ASSUME NEW c \in Calls, CaptureBefore(c) \/ CaptureAfter(c) PROVE FlushTypeOK'
  BY <1>1, <1>3, <1>6 DEF CaptureBefore, CaptureAfter, Goto, FlushTypeOK, flushHistory
<1>7. ASSUME NEW c \in Calls, FlushSucceeds(c) PROVE FlushTypeOK'
  BY <1>3, <1>7 DEF FlushSucceeds, Goto, FlushTypeOK, Statuses
<1>8. ASSUME NEW c \in Calls, FlushFails(c) PROVE FlushTypeOK'
  BY <1>3, <1>8 DEF FlushFails, Goto, FlushTypeOK, Statuses
<1>9. ASSUME NEW c \in Calls, Evaluate(c) PROVE FlushTypeOK'
  <2>1. Level(flush[c], before[c], after[c]) \in Levels
    BY <1>2, LevelType
  <2>2. level'[c] \in Levels
    BY <1>9, <2>1 DEF Evaluate, FlushTypeOK
  <2>3. logs' \subseteq Results
    BY <1>2, <1>4, <1>9, <2>2 DEF Evaluate
  <2> QED BY <1>3, <1>9, <2>1, <2>3
          DEF Evaluate, Goto, FlushTypeOK, flushHistory, Results
<1>10. ASSUME NEW p \in Pages, Dirty(p) \/ Writeback(p) PROVE FlushTypeOK'
  BY <1>3, <1>10 DEF Dirty, Writeback, FlushTypeOK, resultVars
<1> QED
  BY <1>5, <1>6, <1>7, <1>8, <1>9, <1>10 DEF FlushNext, CallStep

LEMMA ResultPreserved ==
  ASSUME FlushTypeOK, ResultShape, FlushNext
  PROVE  ResultShape'
<1> USE DEF Goto, FlushTypeOK, ResultShape
<1>1. ASSUME NEW c \in Calls, NoFlusher(c) PROVE ResultShape'
  BY <1>1 DEF NoFlusher
<1>2. ASSUME NEW c \in Calls, CaptureBefore(c) \/ CaptureAfter(c)
      PROVE  ResultShape'
  BY <1>2 DEF CaptureBefore, CaptureAfter
<1>3. ASSUME NEW c \in Calls, FlushSucceeds(c) \/ FlushFails(c)
      PROVE  ResultShape'
  BY <1>3 DEF FlushSucceeds, FlushFails
<1>4. ASSUME NEW c \in Calls, Evaluate(c) PROVE ResultShape'
  <2>1. Level(flush[c], before[c], after[c]) # "CRASH_CONSISTENT" =>
          flush[c] = "FLUSHED"
    BY LevelType
  <2> QED BY <1>4, <2>1 DEF Evaluate
<1>5. ASSUME NEW p \in Pages, Dirty(p) \/ Writeback(p) PROVE ResultShape'
  BY <1>5 DEF Dirty, Writeback, resultVars
<1> QED BY <1>1, <1>2, <1>3, <1>4, <1>5 DEF FlushNext, CallStep

LEMMA FlushedPreserved ==
  ASSUME FlushTypeOK, ResultShape, FlushedIsWritten, FlushNext
  PROVE  FlushedIsWritten'
<1> USE DEF Goto, FlushTypeOK, FlushedIsWritten
<1>1. ASSUME NEW c \in Calls, NoFlusher(c) \/ CaptureAfter(c) \/ Evaluate(c)
      PROVE  FlushedIsWritten'
  BY <1>1 DEF NoFlusher, CaptureAfter, Evaluate, flushHistory
<1>2. ASSUME NEW c \in Calls, CaptureBefore(c) PROVE FlushedIsWritten'
  BY <1>2 DEF CaptureBefore, ResultShape
<1>3. ASSUME NEW c \in Calls, FlushSucceeds(c) \/ FlushFails(c)
      PROVE  FlushedIsWritten'
  BY <1>3 DEF FlushSucceeds, FlushFails
<1>4. ASSUME NEW p \in Pages, Dirty(p) \/ Writeback(p) PROVE FlushedIsWritten'
  BY <1>4 DEF Dirty, Writeback, resultVars
<1> QED BY <1>1, <1>2, <1>3, <1>4 DEF FlushNext, CallStep

LEMMA DirtyPreserved ==
  ASSUME FlushTypeOK, ResultShape, DirtyShape, FlushNext
  PROVE  DirtyShape'
<1> USE DEF Goto, FlushTypeOK
<1>1. ASSUME NEW c \in Calls, NoFlusher(c) PROVE DirtyShape'
  BY <1>1 DEF NoFlusher, DirtyShape, flushHistory
<1>2. ASSUME NEW c \in Calls, CaptureBefore(c) PROVE DirtyShape'
  BY <1>2 DEF CaptureBefore, DirtyShape, ResultShape
<1>3. ASSUME NEW c \in Calls, FlushSucceeds(c) PROVE DirtyShape'
  <2>1. \A d \in Calls : flush'[d] = "FLUSHED" => d = c \/ flush[d] = "FLUSHED"
    BY <1>3 DEF FlushSucceeds
  <2>2. pc'[c] = "after" /\ level[c] = "CRASH_CONSISTENT"
    BY <1>3 DEF FlushSucceeds, ResultShape
  <2> QED BY <1>3, <2>1, <2>2 DEF FlushSucceeds, DirtyShape
<1>4. ASSUME NEW c \in Calls, FlushFails(c) PROVE DirtyShape'
  <2>1. dirty' \subseteq dirty
    BY <1>4 DEF FlushFails
  <2> QED BY <1>4, <2>1 DEF FlushFails, DirtyShape
<1>5. ASSUME NEW c \in Calls, CaptureAfter(c) PROVE DirtyShape'
  <2>1. after'[c] # 0 => dirty # {}
    BY <1>5, PageCount DEF CaptureAfter
  <2>2. UNCHANGED <<dirty, flush, level, redirtied>>
    BY <1>5 DEF CaptureAfter, flushHistory
  <2>3. \A d \in Calls : d # c => after'[d] = after[d] /\ pc'[d] = pc[d]
    BY <1>5 DEF CaptureAfter
  <2> QED BY <2>1, <2>2, <2>3 DEF DirtyShape
<1>6. ASSUME NEW c \in Calls, Evaluate(c) PROVE DirtyShape'
  <2>1. Level(flush[c], before[c], after[c]) = "FILE_CONSISTENT" => after[c] # 0
    BY LevelType
  <2>2. level'[c] = "FILE_CONSISTENT" => after[c] # 0 /\ pc[c] = "evaluate"
    BY <1>6, <2>1 DEF Evaluate
  <2>3. UNCHANGED <<dirty, flush, after, redirtied>> /\ pc[c] = "evaluate"
    BY <1>6 DEF Evaluate, flushHistory
  <2>4. \A d \in Calls : d # c => level'[d] = level[d] /\ pc'[d] = pc[d]
    BY <1>6 DEF Evaluate
  <2> QED BY <2>2, <2>3, <2>4 DEF DirtyShape
<1>7. ASSUME NEW p \in Pages, Dirty(p) \/ Writeback(p) PROVE DirtyShape'
  BY <1>7 DEF Dirty, Writeback, resultVars, DirtyShape
<1> QED BY <1>1, <1>2, <1>3, <1>4, <1>5, <1>6, <1>7 DEF FlushNext, CallStep

(* Only the step that ends a call adds a row, and the call's result stays  *)
(* from then on.                                                           *)
LEMMA RowPreserved ==
  ASSUME FlushTypeOK, RowShape, FlushNext
  PROVE  RowShape'
<1>1. initialized' = initialized
  BY DEF FlushNext, CallStep, NoFlusher, CaptureBefore, FlushSucceeds, FlushFails,
         CaptureAfter, Evaluate, Dirty, Writeback
<1>2. ASSUME NEW c \in Calls, NoFlusher(c) \/ Evaluate(c) PROVE RowShape'
  <2>1. pc'[c] = "done"
    BY <1>2 DEF NoFlusher, Evaluate, Goto, FlushTypeOK
  <2>2. \A d \in Calls : pc[d] = "done" => pc'[d] = "done" /\ Row(d)' = Row(d)
    BY <1>2 DEF NoFlusher, Evaluate, Goto, Row, FlushTypeOK
  <2>3. logs' \in {logs, IF initialized THEN logs \cup {Row(c)'} ELSE logs}
    BY <1>2 DEF NoFlusher, Evaluate, Save, Row, FlushTypeOK
  <2>4. ASSUME NEW r \in logs'
        PROVE  r \in logs \/ (initialized /\ r = Row(c)')
    BY <2>3, Zenon
  <2>5. ASSUME NEW r \in logs'
        PROVE  initialized' /\ \E d \in Calls : pc'[d] = "done" /\ r = Row(d)'
    <3>1. CASE r \in logs
      <4>1. initialized /\ \E d \in Calls : pc[d] = "done" /\ r = Row(d)
        BY <3>1 DEF RowShape
      <4> QED BY <1>1, <2>2, <4>1, Zenon
    <3>2. CASE initialized /\ r = Row(c)'
      BY <1>1, <2>1, <3>2, Zenon
    <3> QED BY <2>4, <3>1, <3>2, Zenon
  <2> QED BY <2>5, Zenon DEF RowShape
<1>3. ASSUME logs' = logs,
             \A d \in Calls : pc[d] = "done" => pc'[d] = "done" /\ Row(d)' = Row(d)
      PROVE  RowShape'
  BY <1>1, <1>3 DEF RowShape
<1>4. ASSUME NEW c \in Calls,
             \/ CaptureBefore(c) \/ FlushSucceeds(c) \/ FlushFails(c)
             \/ CaptureAfter(c)
      PROVE  RowShape'
  <2>1. /\ logs' = logs /\ level' = level /\ pc[c] # "done" /\ pc'[c] # "done"
        /\ \A d \in Calls \ {c} : pc'[d] = pc[d] /\ flush'[d] = flush[d]
    BY <1>4
    DEF CaptureBefore, FlushSucceeds, FlushFails, CaptureAfter, Goto, FlushTypeOK
  <2>2. \A d \in Calls : pc[d] = "done" => pc'[d] = "done" /\ Row(d)' = Row(d)
    BY <2>1 DEF Row
  <2> QED BY <1>3, <2>1, <2>2
<1>5. ASSUME NEW p \in Pages, Dirty(p) \/ Writeback(p) PROVE RowShape'
  <2>1. UNCHANGED <<logs, pc, flush, level>>
    BY <1>5 DEF Dirty, Writeback, resultVars
  <2> QED BY <1>3, <2>1 DEF Row
<1> QED BY <1>2, <1>4, <1>5 DEF FlushNext, CallStep

LEMMA StepPreserves == FlushInv /\ [FlushNext]_flushVars => FlushInv'
<1> SUFFICES ASSUME FlushInv, [FlushNext]_flushVars PROVE FlushInv'
  OBVIOUS
<1>1. CASE FlushNext
  BY <1>1, TypePreserved, ResultPreserved, FlushedPreserved, DirtyPreserved,
     RowPreserved DEF FlushInv
<1>2. CASE UNCHANGED flushVars
  BY <1>2, Zenon
  DEF flushVars, resultVars, flushHistory, FlushInv, FlushTypeOK, ResultShape, FlushedIsWritten,
      DirtyShape, RowShape, Row
<1> QED BY <1>1, <1>2

THEOREM FlushInvariance == FlushSpec => []FlushInv
BY FlushInitHolds, StepPreserves, PTL DEF FlushSpec

(* Every variable of the logger keeps its type.                            *)
THEOREM FlushTypeCorrect == FlushSpec => []FlushTypeOK
<1>1. FlushInv => FlushTypeOK
  BY DEF FlushInv
<1> QED BY <1>1, FlushInvariance, PTL

(* A call of flush_and_log that reports FLUSHED has written every page     *)
(* that was dirty at its BEFORE capture, however many calls flush at once. *)
THEOREM FlushedIsWrittenHolds == FlushSpec => []FlushedIsWritten
<1>1. FlushInv => FlushedIsWritten
  BY DEF FlushInv
<1> QED BY <1>1, FlushInvariance, PTL

(* A level above crash consistent is given only for what was written, and  *)
(* the rows of the log are of finished calls and say what those returned.  *)
THEOREM LevelIsEarnedHolds == FlushSpec => []LevelIsEarned
<1>1. FlushInv => LevelIsEarned
  <2> SUFFICES ASSUME FlushInv PROVE LevelIsEarned
    OBVIOUS
  <2>1. ASSUME NEW r \in logs
        PROVE  /\ initialized /\ pc[r.call] = "done"
               /\ r.status = flush[r.call] /\ r.level = level[r.call]
    <3>1. initialized /\ \E c \in Calls : pc[c] = "done" /\ r = Row(c)
      BY DEF FlushInv, RowShape
    <3> QED BY <3>1 DEF Row
  <2>2. ASSUME NEW c \in Calls
        PROVE  /\ level[c] # "CRASH_CONSISTENT" => flush[c] = "FLUSHED" /\ owed[c] = {}
               /\ level[c] = "FILE_CONSISTENT" => redirtied[c] # {}
    BY DEF FlushInv, ResultShape, DirtyShape, FlushedIsWritten
  <2> QED BY <2>1, <2>2 DEF LevelIsEarned
<1> QED BY <1>1, FlushInvariance, PTL

-----------------------------------------------------------------------------
(* DataMover.                                                              *)

Running == {"read", "save", "write"}

(* A run past its start has a source, which nobody replaces under it.      *)
SourceShape ==
  wpc \in Running \cup {"load", "clear", "remove"} => source \in Sources

(* What the run has counted is covered like what the checkpoint says.      *)
CoverShape ==
  /\ CheckpointIsCovered
  /\ wpc \in Running => replaced \/ 0..(transferred - 1) \subseteq moved

(* The file holds an offset of this run or the one it started from.        *)
OffsetShape == wpc \in {"read", "save"} => LoadCheckpoint <= transferred

(* Between two rounds no multiple of the interval lies behind the          *)
(* checkpoint, unless the chunk that crossed it was all zeros.             *)
ZerosBehind == source.zeros \cap LoadCheckpoint..(transferred - 1) # {}
Between(a, b) == \E m \in Nat : a < m * Interval /\ m * Interval <= b
GapShape ==
  wpc = "read" => ZerosBehind \/ ~Between(LoadCheckpoint, transferred)

IInv ==
  /\ TypeOK
  /\ SourceShape /\ CoverShape /\ OffsetShape /\ GapShape
  /\ WholeMeansAll /\ LossIsBounded

-----------------------------------------------------------------------------
(* Multiples of the interval.                                              *)

(* A remainder is determined by its number.                                *)
LEMMA Remainder ==
  ASSUME NEW i \in Nat \ {0}, NEW m \in Nat, NEW r \in 0..(i - 1)
  PROVE  (m * i + r) % i = r
<1> DEFINE t == m * i + r
           q == t \div i
           s == t % i
<1>1. t \in Nat
  OBVIOUS
<1>2. q \in Int /\ s \in 0..(i - 1) /\ t = i * q + s
  BY <1>1
<1> HIDE DEF q, s
<1>3. CASE q > m
  <2>1. i * q >= i * (m + 1)
    BY <1>2, <1>3
  <2>2. i * (m + 1) = m * i + i
    OBVIOUS
  <2> QED
    BY <1>2, <2>1, <2>2
<1>4. CASE q < m
  <2>1. i * (q + 1) <= i * m
    BY <1>2, <1>4
  <2>2. i * (q + 1) = i * q + i
    BY <1>2
  <2> QED
    BY <1>2, <2>1, <2>2
<1>5. CASE q = m
  BY <1>2, <1>5
<1> QED
  BY <1>2, <1>3, <1>4, <1>5 DEF s, t

(* A chunk that crosses a multiple of the interval saves a checkpoint.     *)
LEMMA CrossingSaves ==
  ASSUME NEW a \in Nat, NEW b \in Nat, a < b, b <= a + Chunk, Between(a, b)
  PROVE  SavesAfter(b)
<1>1. PICK m \in Nat : a < m * Interval /\ m * Interval <= b
  BY DEF Between
<1> DEFINE r == b - m * Interval
<1>2. Interval \in Nat \ {0} /\ Chunk \in Nat \ {0} /\ m * Interval \in Nat
  BY MoverAssumption
<1>3. r \in Nat /\ r < Chunk /\ b = m * Interval + r
  BY <1>1, <1>2
<1>4. CASE r < Interval
  <2>1. r \in 0..(Interval - 1)
    BY <1>2, <1>3, <1>4
  <2>2. b % Interval = r
    BY <1>2, <1>3, <2>1, Remainder
  <2> QED
    BY <1>3, <2>2 DEF SavesAfter
<1>5. CASE r >= Interval
  <2>1. b % Interval < Interval
    BY <1>2
  <2> QED
    BY <1>2, <1>3, <1>5, <2>1 DEF SavesAfter
<1> QED
  BY <1>2, <1>3, <1>4, <1>5

(* Neither the chunk nor the interval is 0.                                *)
LEMMA IntervalType == Interval \in Nat \ {0} /\ Chunk \in Nat \ {0}
BY MoverAssumption

(* No multiple lies between an offset and itself.                          *)
LEMMA NothingBetween == \A a \in Nat : ~Between(a, a)
<1> SUFFICES ASSUME NEW a \in Nat, NEW m \in Nat, a < m * Interval, m * Interval <= a
             PROVE  FALSE
  BY DEF Between
<1>1. m * Interval \in Nat
  BY IntervalType
<1> QED
  BY <1>1

(* Nothing is lost at the checkpoint itself.                               *)
LEMMA NothingLost == \A a \in Nat : a <= a /\ a - a < Interval + Chunk
BY IntervalType

(* Without a multiple in between two offsets are less than an interval     *)
(* apart.                                                                  *)
LEMMA CloseTogether ==
  ASSUME NEW a \in Nat, NEW b \in Nat, ~Between(a, b)
  PROVE  b - a < Interval
<1> DEFINE q == a \div Interval
           m == q + 1
<1>1. Interval \in Nat \ {0}
  BY MoverAssumption
<1>2. q \in Nat /\ a = Interval * q + (a % Interval) /\ a % Interval \in 0..(Interval - 1)
  BY <1>1
<1> HIDE DEF q
<1>3. m \in Nat /\ m * Interval = Interval * q + Interval
  BY <1>1, <1>2
<1>4. a < m * Interval /\ m * Interval <= a + Interval
  BY <1>1, <1>2, <1>3
<1>5. ~(m * Interval <= b)
  BY <1>3, <1>4 DEF Between
<1> QED
  BY <1>1, <1>3, <1>4, <1>5

-----------------------------------------------------------------------------
(* What a read returns.                                                    *)

LEMMA SizeType ==
  ASSUME source \in Sources \cup {NoSource}
  PROVE  Size \in Nat /\ (source \in Sources => Size = source.size)
BY MoverAssumption DEF Size

(* The next chunk is an interval of units of the source.                   *)
LEMMA ChunkIsInterval ==
  ASSUME TypeOK, NextChunk # {},
         NEW t, t = transferred + Cardinality(NextChunk)
  PROVE  /\ t \in Nat /\ transferred < t /\ t <= transferred + Chunk
         /\ NextChunk = transferred..(t - 1)
         /\ 0..(t - 1) = 0..(transferred - 1) \cup NextChunk
<1>1. transferred \in Nat /\ Chunk \in Nat \ {0} /\ Size \in Nat
  BY MoverAssumption, SizeType DEF TypeOK
<1> DEFINE end == IF transferred + Chunk <= Size THEN transferred + Chunk ELSE Size
<1>2. transferred < Size
  BY <1>1 DEF NextChunk
<1>3. end \in Nat /\ transferred < end /\ end <= transferred + Chunk
  BY <1>1, <1>2
<1>4. NextChunk = transferred..(end - 1)
  BY <1>1, <1>2, <1>3 DEF NextChunk
<1>5. Cardinality(NextChunk) = end - transferred
  BY <1>1, <1>3, <1>4, FS_Interval
<1>6. t = end
  BY <1>1, <1>3, <1>5
<1> QED
  BY <1>1, <1>3, <1>4, <1>6

-----------------------------------------------------------------------------
(* The invariant.                                                          *)

LEMMA InitEstablishes == Init => IInv
<1> SUFFICES ASSUME Init PROVE IInv
  OBVIOUS
<1>1. TypeOK
  <2>1. {joinable, cancelled, replaced, whole} \subseteq BOOLEAN
    BY Zenon DEF Init
  <2>2. crashes \in 0..MaxCrashes /\ changes \in 0..MaxChanges
    BY MoverAssumption DEF Init
  <2> QED
    BY <2>1, <2>2 DEF Init, TypeOK, WorkerStates
<1>2. CheckpointIsCovered
  BY DEF Init, CheckpointIsCovered, LoadCheckpoint, Absent
<1> QED
  BY <1>1, <1>2 DEF Init, IInv, SourceShape, CoverShape, OffsetShape,
     GapShape, WholeMeansAll, LossIsBounded, Running

(* What a read does to the invariant.                                      *)
LEMMA ReadPreserves ==
  ASSUME IInv, Read
  PROVE  IInv'
<1> DEFINE t == transferred + Cardinality(NextChunk)
<1>1. /\ t \in Nat /\ transferred < t /\ t <= transferred + Chunk
      /\ NextChunk = transferred..(t - 1)
      /\ 0..(t - 1) = 0..(transferred - 1) \cup NextChunk
  BY ChunkIsInterval DEF IInv, Read
<1>2. /\ wpc = "read" /\ transferred' = t /\ moved' = moved \cup NextChunk
      /\ wpc' = IF NextChunk \subseteq source.zeros \/ ~SavesAfter(t)
                  THEN "read" ELSE "save"
      /\ UNCHANGED <<source, checkpoint, joinable, cancelled, opc,
                     counters, replaced, whole>>
  BY DEF Read
<1> HIDE DEF t
<1>3. LoadCheckpoint' = LoadCheckpoint /\ LoadCheckpoint \in Nat
  BY <1>2 DEF IInv, TypeOK, LoadCheckpoint, Absent, Empty
<1>4. wpc' \in {"read", "save"}
  BY <1>2
<1>5. TypeOK'
  <2>1. moved' \subseteq Nat
    BY <1>1, <1>2 DEF IInv, TypeOK
  <2> QED
    BY <1>1, <1>2, <1>4, <2>1 DEF IInv, TypeOK, WorkerStates, counters
<1>6. SourceShape' /\ WholeMeansAll'
  BY <1>2, <1>4 DEF IInv, SourceShape, WholeMeansAll, Running
<1>7. CoverShape'
  BY <1>1, <1>2, <1>3, <1>4 DEF IInv, CoverShape, CheckpointIsCovered, Running
<1>8. OffsetShape' /\ LoadCheckpoint <= transferred /\ transferred \in Nat
  BY <1>1, <1>2, <1>3, <1>4 DEF IInv, TypeOK, OffsetShape
<1>9. CASE ZerosBehind
  <2>1. ZerosBehind'
    BY <1>1, <1>2, <1>3, <1>8, <1>9 DEF ZerosBehind
  <2> QED
    BY <1>5, <1>6, <1>7, <1>8, <2>1
    DEF IInv, GapShape, LossIsBounded, ZerosBehind
<1>10. CASE NextChunk \subseteq source.zeros
  <2>1. transferred \in NextChunk /\ transferred \in LoadCheckpoint..(t - 1)
    BY <1>1, <1>3, <1>8
  <2>2. ZerosBehind'
    BY <1>2, <1>3, <1>10, <2>1 DEF ZerosBehind
  <2> QED
    BY <1>5, <1>6, <1>7, <1>8, <2>2
    DEF IInv, GapShape, LossIsBounded, ZerosBehind
<1>11. CASE ~ZerosBehind /\ ~(NextChunk \subseteq source.zeros)
  <2>1. ~Between(LoadCheckpoint, transferred)
    BY <1>2, <1>11 DEF IInv, GapShape
  <2>2. transferred - LoadCheckpoint < Interval
    BY <1>3, <1>8, <2>1, CloseTogether
  <2>3. transferred' - LoadCheckpoint' < Interval + Chunk
    BY <1>1, <1>2, <1>3, <1>8, <2>2, MoverAssumption
  <2>4. LossIsBounded'
    BY <2>3 DEF LossIsBounded
  <2>5. CASE wpc' = "save"
    BY <1>5, <1>6, <1>7, <1>8, <2>4, <2>5 DEF IInv, GapShape
  <2>6. CASE wpc' = "read"
    <3>1. ~SavesAfter(t)
      BY <1>2, <1>11, <2>6
    <3>2. ~Between(transferred, t)
      BY <1>1, <1>8, <3>1, CrossingSaves
    <3>3. ~Between(LoadCheckpoint, t)
      <4> SUFFICES ASSUME NEW m \in Nat,
                          LoadCheckpoint < m * Interval, m * Interval <= t
                   PROVE  FALSE
        BY DEF Between
      <4>1. m * Interval \in Nat
        BY MoverAssumption
      <4>2. ~(m * Interval <= transferred)
        BY <2>1 DEF Between
      <4>3. ~(transferred < m * Interval)
        BY <3>2 DEF Between
      <4> QED
        BY <1>8, <4>1, <4>2, <4>3
    <3>4. GapShape'
      BY <1>2, <1>3, <3>3 DEF GapShape, Between
    <3> QED
      BY <1>5, <1>6, <1>7, <1>8, <2>4, <3>4 DEF IInv
  <2> QED
    BY <1>4, <2>5, <2>6
<1> QED
  BY <1>9, <1>10, <1>11

(* What the worker does besides reading.                                   *)
LEMMA WorkerPreserves ==
  ASSUME IInv, Worker \/ Throws
  PROVE  IInv'
<1> USE DEF IInv
<1>1. CASE Open
  <2>1. TypeOK'
    BY <1>1 DEF Open, TypeOK, WorkerStates, counters, history
  <2>2. SourceShape' /\ CoverShape' /\ OffsetShape' /\ GapShape'
        /\ WholeMeansAll' /\ LossIsBounded'
    BY <1>1 DEF Open, TypeOK, SourceShape, CoverShape, CheckpointIsCovered,
       LoadCheckpoint, OffsetShape, GapShape, WholeMeansAll, LossIsBounded,
       Running, history
  <2> QED
    BY <2>1, <2>2
<1>2. CASE Load
  <2>1. LoadCheckpoint' = LoadCheckpoint /\ LoadCheckpoint \in Nat
    BY <1>2 DEF Load, TypeOK, LoadCheckpoint, Absent, Empty
  <2>2. TypeOK'
    <3>1. replaced' \in BOOLEAN
      BY <1>2 DEF Load
    <3>2. moved' \subseteq Nat
      BY <1>2 DEF Load, TypeOK
    <3> QED
      BY <1>2, <2>1, <3>1, <3>2 DEF Load, TypeOK, WorkerStates, counters
  <2>3. CoverShape'
    <3>1. CASE LoadCheckpoint = 0
      BY <1>2, <2>1, <3>1 DEF Load, CoverShape, CheckpointIsCovered
    <3>2. CASE LoadCheckpoint # 0
      <4>1. replaced' <=> replaced
        BY <1>2, <3>2 DEF Load
      <4>2. replaced' \/ 0..(LoadCheckpoint' - 1) \subseteq moved'
        BY <1>2, <2>1, <3>2, <4>1 DEF Load, CoverShape, CheckpointIsCovered
      <4> QED
        BY <1>2, <2>1, <4>2 DEF Load, CoverShape, CheckpointIsCovered
    <3> QED
      BY <3>1, <3>2
  <2>4. GapShape' /\ OffsetShape' /\ LossIsBounded'
    <3>1. transferred' = LoadCheckpoint' /\ transferred' \in Nat
      BY <1>2, <2>1 DEF Load
    <3>2. ~Between(LoadCheckpoint', transferred')
      BY <3>1, NothingBetween, Zenon
    <3>3. GapShape'
      BY <3>2 DEF GapShape
    <3>4. transferred' - LoadCheckpoint' < Interval + Chunk
      BY <3>1, NothingLost, Zenon
    <3>5. LoadCheckpoint' <= transferred'
      BY <3>1, NothingLost, Zenon
    <3>6. OffsetShape' /\ LossIsBounded'
      BY <3>4, <3>5, Zenon DEF OffsetShape, LossIsBounded
    <3> QED
      BY <3>3, <3>6
  <2>5. SourceShape' /\ WholeMeansAll'
    BY <1>2 DEF Load, SourceShape, WholeMeansAll, Running
  <2> QED
    BY <2>2, <2>3, <2>4, <2>5
<1>3. CASE Read
  BY <1>3, ReadPreserves
<1>4. CASE ReadEnds
  <2>1. TypeOK'
    BY <1>4 DEF ReadEnds, TypeOK, WorkerStates, counters
  <2>2. WholeMeansAll'
    <3> SUFFICES ASSUME NextChunk = {}, ~replaced
                 PROVE  0..(Size - 1) \subseteq moved
      BY <1>4 DEF ReadEnds, WholeMeansAll, Size
    <3>1. transferred \in Nat /\ Size \in Nat /\ Chunk \in Nat \ {0}
      BY MoverAssumption, SizeType DEF TypeOK
    <3>2. transferred \notin NextChunk
      OBVIOUS
    <3>3. Size <= transferred
      BY <3>1, <3>2 DEF NextChunk
    <3>4. 0..(transferred - 1) \subseteq moved
      BY <1>4 DEF ReadEnds, CoverShape, Running
    <3> QED
      BY <3>1, <3>3, <3>4
  <2>3. SourceShape' /\ CoverShape' /\ OffsetShape' /\ GapShape' /\ LossIsBounded'
    BY <1>4 DEF ReadEnds, SourceShape, CoverShape, CheckpointIsCovered,
       LoadCheckpoint, OffsetShape, GapShape, LossIsBounded, Running
  <2> QED
    BY <2>1, <2>2, <2>3
<1>5. CASE SaveTruncates
  <2>1. LoadCheckpoint' = 0
    BY <1>5 DEF SaveTruncates, LoadCheckpoint, Empty
  <2>2. TypeOK'
    BY <1>5 DEF SaveTruncates, TypeOK, WorkerStates, counters, history
  <2>3. CoverShape'
    BY <1>5, <2>1 DEF SaveTruncates, CoverShape, CheckpointIsCovered, Running,
       history
  <2> QED
    BY <1>5, <2>2, <2>3 DEF SaveTruncates, SourceShape, OffsetShape, GapShape,
       WholeMeansAll, LossIsBounded, Running, history
<1>6. CASE SaveWrites
  <2>1. LoadCheckpoint' = transferred /\ transferred \in Nat
    BY <1>6 DEF SaveWrites, LoadCheckpoint, TypeOK
  <2>2. TypeOK'
    BY <1>6 DEF SaveWrites, TypeOK, WorkerStates, counters, history
  <2>3. CoverShape'
    BY <1>6, <2>1 DEF SaveWrites, CoverShape, CheckpointIsCovered, Running,
       history
  <2>4. GapShape' /\ OffsetShape' /\ LossIsBounded'
    <3>1. transferred' = LoadCheckpoint' /\ transferred' \in Nat
      BY <1>6, <2>1 DEF SaveWrites
    <3>2. ~Between(LoadCheckpoint', transferred')
      BY <3>1, NothingBetween, Zenon
    <3>3. GapShape'
      BY <3>2 DEF GapShape
    <3>4. transferred' - LoadCheckpoint' < Interval + Chunk
      BY <3>1, NothingLost, Zenon
    <3>5. LoadCheckpoint' <= transferred'
      BY <3>1, NothingLost, Zenon
    <3>6. OffsetShape' /\ LossIsBounded'
      BY <3>4, <3>5, Zenon DEF OffsetShape, LossIsBounded
    <3> QED
      BY <3>3, <3>6
  <2>5. SourceShape' /\ WholeMeansAll'
    BY <1>6 DEF SaveWrites, SourceShape, WholeMeansAll, Running
  <2> QED
    BY <2>2, <2>3, <2>4, <2>5
<1>7. CASE Clear \/ Remove
  <2>1. LoadCheckpoint' = 0
    BY <1>7 DEF Clear, Remove, LoadCheckpoint, Absent
  <2>2. TypeOK'
    <3>1. checkpoint' \in {Absent, Empty} \cup Nat /\ wpc' \in WorkerStates
      BY <1>7 DEF Clear, Remove, WorkerStates
    <3>2. UNCHANGED <<source, transferred, joinable, cancelled, opc, counters,
                      history>>
      BY <1>7 DEF Clear, Remove
    <3> QED
      BY <3>1, <3>2 DEF TypeOK, counters, history
  <2>3. CoverShape'
    BY <1>7, <2>1 DEF Clear, Remove, CoverShape, CheckpointIsCovered, Running,
       history
  <2> QED
    BY <1>7, <2>2, <2>3 DEF Clear, Remove, SourceShape, OffsetShape, GapShape,
       WholeMeansAll, LossIsBounded, Running
<1>8. CASE Throws
  <2>1. TypeOK'
    BY <1>8 DEF Throws, TypeOK, WorkerStates, counters, history
  <2> QED
    BY <1>8, <2>1 DEF Throws, SourceShape, CoverShape, CheckpointIsCovered,
       LoadCheckpoint, OffsetShape, GapShape, WholeMeansAll, LossIsBounded,
       Running, history
<1> QED
  BY <1>1, <1>2, <1>3, <1>4, <1>5, <1>6, <1>7, <1>8 DEF Worker

(* What the owner and the world do.                                        *)
LEMMA OwnerPreserves ==
  ASSUME IInv,
         \/ StartTransfer \/ StartAgain \/ CancelTransfer \/ CancelJoin
         \/ Restart \/ Replace
  PROVE  IInv'
<1> USE DEF IInv
<1>1. CASE StartTransfer
  <2>1. TypeOK'
    BY <1>1 DEF StartTransfer, TypeOK, WorkerStates, counters
  <2> QED
    BY <1>1, <2>1 DEF StartTransfer, SourceShape, CoverShape,
       CheckpointIsCovered, LoadCheckpoint, OffsetShape, GapShape,
       WholeMeansAll, LossIsBounded, Running
<1>2. CASE Restart \/ StartAgain
  <2>1. Restart
    BY <1>2 DEF StartAgain
  <2>2. TypeOK'
    <3>1. {joinable', cancelled'} \subseteq BOOLEAN
      BY <2>1, Zenon DEF Restart
    <3>2. crashes' \in 0..MaxCrashes
      BY <2>1, MoverAssumption DEF Restart, TypeOK
    <3> QED
      BY <2>1, <3>1, <3>2 DEF Restart, TypeOK, WorkerStates, history
  <2> QED
    BY <2>1, <2>2 DEF Restart, SourceShape, CoverShape, CheckpointIsCovered,
       LoadCheckpoint, OffsetShape, GapShape, WholeMeansAll, LossIsBounded,
       Running, history
<1>3. CASE CancelTransfer \/ CancelJoin
  <2>1. TypeOK'
    BY <1>3 DEF CancelTransfer, CancelJoin, TypeOK, WorkerStates, counters,
       history, workerVars
  <2>2. UNCHANGED <<source, checkpoint, workerVars, history>>
    BY <1>3 DEF CancelTransfer, CancelJoin
  <2>3. UNCHANGED <<LoadCheckpoint, Size, ZerosBehind>>
    BY <2>2 DEF LoadCheckpoint, Size, ZerosBehind, workerVars
  <2>4. SourceShape' /\ CoverShape' /\ OffsetShape'
        /\ WholeMeansAll' /\ LossIsBounded'
    BY <2>2, <2>3 DEF SourceShape, CoverShape, CheckpointIsCovered, OffsetShape,
       WholeMeansAll, LossIsBounded, Running, workerVars, history
  <2>5. GapShape'
    BY <2>2, <2>3 DEF GapShape, Between, workerVars
  <2> QED
    BY <2>1, <2>4, <2>5
<1>4. CASE Replace
  <2>1. TypeOK'
    BY <1>4, MoverAssumption DEF Replace, TypeOK, WorkerStates, workerVars
  <2> QED
    BY <1>4, <2>1 DEF Replace, Alive, SourceShape, CoverShape,
       CheckpointIsCovered, OffsetShape, GapShape, WholeMeansAll,
       LossIsBounded, Running, workerVars
<1> QED
  BY <1>1, <1>2, <1>3, <1>4

(* IInv is inductive.                                                      *)
THEOREM Invariance == Spec => []IInv
<1>1. ASSUME IInv, UNCHANGED vars
      PROVE  IInv'
  <2>1. UNCHANGED <<source, checkpoint, workerVars, joinable, cancelled, opc,
                    counters, history>>
    BY <1>1 DEF vars
  <2>2. UNCHANGED <<LoadCheckpoint, Size, ZerosBehind>>
    BY <2>1 DEF LoadCheckpoint, Size, ZerosBehind, workerVars
  <2>3. TypeOK'
    BY <1>1, <2>1 DEF IInv, TypeOK, workerVars, counters, history
  <2>4. GapShape'
    BY <1>1, <2>1, <2>2 DEF IInv, GapShape, Between, workerVars
  <2> QED
    BY <1>1, <2>1, <2>2, <2>3, <2>4 DEF IInv, SourceShape, CoverShape,
       CheckpointIsCovered, OffsetShape, WholeMeansAll, LossIsBounded,
       Running, workerVars, history
<1>2. IInv /\ [Next]_vars => IInv'
  BY <1>1, WorkerPreserves, OwnerPreserves DEF Next
<1> QED
  BY <1>2, InitEstablishes, PTL DEF Spec

(* Every variable keeps its type.                                          *)
THEOREM TypeCorrect == Spec => []TypeOK
<1>1. IInv => TypeOK
  BY DEF IInv
<1> QED
  BY <1>1, Invariance, PTL

(* However runs crash, throw and resume, a checkpoint of a source that was *)
(* not replaced never points past data that was not read.                  *)
THEOREM CheckpointIsCoveredHolds == Spec => []CheckpointIsCovered
<1>1. IInv => CheckpointIsCovered
  BY DEF IInv, CoverShape
<1> QED
  BY <1>1, Invariance, PTL

(* A transfer that ends at the end of a source nobody replaced has, with   *)
(* the runs it resumed, read all of it.                                    *)
THEOREM WholeMeansAllHolds == Spec => []WholeMeansAll
<1>1. IInv => WholeMeansAll
  BY DEF IInv
<1> QED
  BY <1>1, Invariance, PTL

(* Outside the writing of a checkpoint a crash loses less than an interval *)
(* and a chunk, unless a chunk of zeros crossed the interval.              *)
THEOREM LossIsBoundedHolds == Spec => []LossIsBounded
<1>1. IInv => LossIsBounded
  BY DEF IInv
<1> QED
  BY <1>1, Invariance, PTL
=============================================================================
