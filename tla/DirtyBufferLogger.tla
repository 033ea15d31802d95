-------------------------- MODULE DirtyBufferLogger --------------------------
(***************************************************************************)
(* Flushing dirty buffers before a backup: flush_and_log of                *)
(* obs::DirtyBufferLogger driven by obs::PlatformBufferFlusher on Linux    *)
(* (core/src/backup_engine/dirty_buffer_logger.cpp, platform_flusher.h).   *)
(*                                                                         *)
(* Each call runs in a backup worker's thread; several workers share the   *)
(* logger, and the applications of the host go on dirtying pages all the   *)
(* time: quiesce_application is the interface's default, which does        *)
(* nothing.  The pages are the data; the code sees only how many are dirty.*)
(***************************************************************************)
EXTENDS Integers, FiniteSets

CONSTANTS
  Calls,      (* calls of flush_and_log                                     *)
  Pages       (* pages the host can dirty                                   *)

ASSUME PagesAssumption == IsFiniteSet(Pages)

VARIABLES
  dirty,      (* pages not yet on disk                                      *)
  initialized,(* initialized_: the database opened, with or without table   *)
  pc,         (* where a call is                                            *)
  before,     (* result.before.page_count                                   *)
  after,      (* result.after.page_count                                    *)
  flush,      (* result.status                                              *)
  level,      (* result.consistency                                         *)
  logs,       (* rows of dirty_buffer_logs: for a call its status and level *)
  owed,       (* history: pages dirty at the BEFORE capture, not written yet*)
  redirtied   (* history: pages dirtied since the BEFORE capture            *)

resultVars == <<before, after, flush, level>>
flushHistory == <<owed, redirtied>>
flushVars == <<dirty, initialized, pc, resultVars, logs, flushHistory>>

FlushInit ==
  /\ dirty \in SUBSET Pages
  /\ initialized \in BOOLEAN
  /\ pc = [c \in Calls |-> "start"]
  /\ before = [c \in Calls |-> 0]
  /\ after = [c \in Calls |-> 0]
  /\ flush = [c \in Calls |-> "NOT_FLUSHED"]
  /\ level = [c \in Calls |-> "CRASH_CONSISTENT"]
  /\ logs = {}
  /\ owed = [c \in Calls |-> {}]
  /\ redirtied = [c \in Calls |-> {}]

Goto(c, p) == pc' = [pc EXCEPT ![c] = p]

(* Mutation of Level: the status is not looked at.                         *)
LevelByPages(status, b, a) ==
  IF a = 0 THEN "APPLICATION_CONSISTENT"
  ELSE IF b - a > 0 THEN "FILE_CONSISTENT"
  ELSE "CRASH_CONSISTENT"

(* Step 6: the level reported for a status and the two page counts.        *)
Level(status, b, a) ==
  IF status # "FLUSHED" THEN "CRASH_CONSISTENT"
  ELSE IF b - a > 0 /\ a # 0 THEN "FILE_CONSISTENT"
  ELSE "APPLICATION_CONSISTENT"

-----------------------------------------------------------------------------
(* The host.                                                               *)

Dirty(p) ==
  /\ dirty' = dirty \cup {p}
  /\ redirtied' = [c \in Calls |-> redirtied[c] \cup {p}]
  /\ UNCHANGED <<initialized, pc, resultVars, logs, owed>>

Writeback(p) ==
  /\ dirty' = dirty \ {p}
  /\ owed' = [c \in Calls |-> owed[c] \ {p}]
  /\ UNCHANGED <<initialized, pc, resultVars, logs, redirtied>>

-----------------------------------------------------------------------------
(* flush_and_log                                                           *)

(* save_to_db keeps nothing when the database did not open.  Otherwise it  *)
(* inserts a row and does not look whether that worked: the table may be   *)
(* missing (its CREATE is only logged when it fails) or the file locked.   *)
Save(c, status, lvl) ==
  LET row == [call |-> c, status |-> status, level |-> lvl] IN
  logs' \in {logs, IF initialized THEN logs \cup {row} ELSE logs}

(* No flusher: the failure is logged, no buffer is looked at.              *)
NoFlusher(c) ==
  /\ pc[c] = "start"
  /\ flush' = [flush EXCEPT ![c] = "FAILED"]
  /\ Save(c, "FAILED", level[c])
  /\ Goto(c, "done")
  /\ UNCHANGED <<dirty, initialized, before, after, level, flushHistory>>

(* Step 1 of 6, and the quiesce that does nothing.                         *)
CaptureBefore(c) ==
  /\ pc[c] = "start"
  /\ before' = [before EXCEPT ![c] = Cardinality(dirty)]
  /\ owed' = [owed EXCEPT ![c] = dirty]
  /\ redirtied' = [redirtied EXCEPT ![c] = {}]
  /\ Goto(c, "flush")
  /\ UNCHANGED <<dirty, initialized, after, flush, level, logs>>

(* Step 3: sync wrote what was dirty when it was called.                   *)
FlushSucceeds(c) ==
  /\ pc[c] = "flush"
  /\ flush' = [flush EXCEPT ![c] = "FLUSHED"]
  /\ dirty' = {}
  /\ owed' = [d \in Calls |-> {}]
  /\ Goto(c, "after")
  /\ UNCHANGED <<initialized, before, after, level, logs, redirtied>>

(* Mutation of FlushFails: the return code is ignored.                     *)
FlushFailsUnnoticed(c) ==
  /\ pc[c] = "flush"
  /\ flush' = [flush EXCEPT ![c] = "FLUSHED"]
  /\ Goto(c, "after")
  /\ UNCHANGED <<dirty, initialized, before, after, level, logs, flushHistory>>

(* sync failed, or flushing threw: any part of the pages may be written.   *)
FlushFails(c) ==
  /\ pc[c] = "flush"
  /\ flush' = [flush EXCEPT ![c] = "FAILED"]
  /\ \E written \in SUBSET dirty :
       /\ dirty' = dirty \ written
       /\ owed' = [d \in Calls |-> owed[d] \ written]
  /\ Goto(c, "after")
  /\ UNCHANGED <<initialized, before, after, level, logs, redirtied>>

(* Steps 4 and 5.                                                          *)
CaptureAfter(c) ==
  /\ pc[c] = "after"
  /\ after' = [after EXCEPT ![c] = Cardinality(dirty)]
  /\ Goto(c, "evaluate")
  /\ UNCHANGED <<dirty, initialized, before, flush, level, logs, flushHistory>>

(* Step 6, and the row.                                                    *)
Evaluate(c) ==
  /\ pc[c] = "evaluate"
  /\ level' = [level EXCEPT ![c] = Level(flush[c], before[c], after[c])]
  /\ Save(c, flush[c], level'[c])
  /\ Goto(c, "done")
  /\ UNCHANGED <<dirty, initialized, before, after, flush, flushHistory>>

-----------------------------------------------------------------------------
CallStep(c) ==
  \/ NoFlusher(c) \/ CaptureBefore(c) \/ FlushSucceeds(c) \/ FlushFails(c)
  \/ CaptureAfter(c) \/ Evaluate(c)

FlushNext ==
  \/ \E c \in Calls : CallStep(c)
  \/ \E p \in Pages : Dirty(p) \/ Writeback(p)

FlushSpec == FlushInit /\ [][FlushNext]_flushVars

-----------------------------------------------------------------------------
Statuses == {"NOT_FLUSHED", "FLUSHED", "FAILED"}
Levels == {"APPLICATION_CONSISTENT", "FILE_CONSISTENT", "CRASH_CONSISTENT"}

(* Every variable has its type.                                            *)
FlushTypeOK ==
  /\ dirty \subseteq Pages
  /\ initialized \in BOOLEAN
  /\ pc \in [Calls -> {"start", "flush", "after", "evaluate", "done"}]
  /\ before \in [Calls -> 0..Cardinality(Pages)]
  /\ after \in [Calls -> 0..Cardinality(Pages)]
  /\ flush \in [Calls -> Statuses]
  /\ level \in [Calls -> Levels]
  /\ logs \subseteq [call : Calls, status : Statuses, level : Levels]
  /\ owed \in [Calls -> SUBSET Pages]
  /\ redirtied \in [Calls -> SUBSET Pages]

(* A call reported FLUSHED really wrote every page that was dirty when its *)
(* BEFORE state was captured, whatever the host did in between.            *)
FlushedIsWritten ==
  \A c \in Calls : flush[c] = "FLUSHED" => owed[c] = {}

(* A level above crash consistent is earned: the call's flush wrote        *)
(* everything it had to, and where the level is only file consistent, the  *)
(* applications dirtied pages after the capture.  A row of the log belongs *)
(* to a finished call and says what that returned to the backup job; a     *)
(* failed INSERT leaves no row, and nobody is told.                        *)
LevelIsEarned ==
  /\ \A c \in Calls :
       /\ level[c] # "CRASH_CONSISTENT" => flush[c] = "FLUSHED" /\ owed[c] = {}
       /\ level[c] = "FILE_CONSISTENT" => redirtied[c] # {}
  /\ \A r \in logs :
       /\ initialized /\ pc[r.call] = "done"
       /\ r.status = flush[r.call] /\ r.level = level[r.call]

(* The table of consistency levels in docs/OBS-BACKUP-FULL-DOCS.md, row    *)
(* "1000 -> 1000": pages were dirty and none fewer are dirty afterwards,   *)
(* so the backup is only crash consistent.                                 *)
DocumentedLevel ==
  \A c \in Calls : pc[c] = "done" /\ before[c] > 0 /\ after[c] = before[c] =>
    level[c] = "CRASH_CONSISTENT"
=============================================================================
