-------------------------- MODULE DirtyBufferManager --------------------------
(***************************************************************************)
(* The table of dirty blocks: who records them, and a backup that reads    *)
(* the blocks of its job, copies them and marks them as backed up.         *)
(*                                                                         *)
(* Every method is one statement, or one transaction, under db_mutex_, and *)
(* none looks at the result of an insert.  One that is given no time binds *)
(* the text of a temporary that is gone when the statement runs: any text  *)
(* may be stored.  All blocks are of one source; the others differ by the  *)
(* WHERE clause alone.  What only reads for a report, and the table of     *)
(* statistics, decide nothing.                                             *)
(***************************************************************************)
EXTENDS Integers, FiniteSets

CONSTANTS
  BackupJobs,   (* jobs                                                     *)
  MaxRows,      (* bound: blocks recorded                                   *)
  MaxSeconds    (* bound: of the clock                                      *)

VARIABLES
  table,      (* dirty_buffers: id to job, dirty_at and is_backed_up        *)
  ids,        (* the AUTOINCREMENT of id                                    *)
  second,     (* the clock                                                  *)
  backup,     (* a backup: its job and the ids it holds, or none            *)
  given,      (* history: id to the time at which the block was recorded    *)
  read,       (* history: ids that a backup of their job was given          *)
  late,       (* history: ids recorded while a backup of their job held its *)
  listed      (* history: the last listing: since when, ids listed, ids due *)

bufferVars == <<table, ids, second, backup, given, read, late, listed>>

Garbled == -1   (* a text that compares below every time                    *)
NoBackup == [job |-> "none", held |-> {}]
NoList == [since |-> 0, got |-> {}, due |-> {}]
RowsOf(job) == {i \in DOMAIN table : table[i].job = job}

Init ==
  /\ table = [i \in {} |-> NoBackup]
  /\ ids = 0 /\ second = 0
  /\ backup = NoBackup
  /\ given = [i \in {} |-> 0] /\ read = {} /\ late = {}
  /\ listed = NoList

-----------------------------------------------------------------------------
(* Mutation: the update has no WHERE clause.                               *)
MarkRowsAll(job) ==
  table' = [i \in DOMAIN table |-> [table[i] EXCEPT !.marked = TRUE]]

-----------------------------------------------------------------------------
(* A block is inserted under the next id.                                  *)
Insert(job, at) ==
  /\ table' = [i \in DOMAIN table \cup {ids} |->
                 IF i = ids THEN [job |-> job, at |-> at, marked |-> FALSE]
                 ELSE table[i]]
  /\ given' = [i \in DOMAIN given \cup {ids} |->
                 IF i = ids THEN second ELSE given[i]]
  /\ ids' = ids + 1
  /\ late' = IF backup.job = job THEN late \cup {ids} ELSE late

(* record_dirty_block(), with a time or without.                           *)
RecordDirtyBlock(job) ==
  /\ ids < MaxRows
  /\ \E at \in {second, Garbled} : Insert(job, at)
  /\ UNCHANGED <<second, backup, read, listed>>

(* record_dirty_blocks_batch(), of which record_from_bitmap() is a use:    *)
(* one text of the time for all, which lives until the end.                *)
RecordDirtyBlocksBatch(job) ==
  /\ ids < MaxRows
  /\ Insert(job, second)
  /\ UNCHANGED <<second, backup, read, listed>>

(* get_unbacked_blocks(), by a backup that begins.                         *)
GetUnbackedBlocks(job) ==
  /\ backup = NoBackup
  /\ LET rows == {i \in RowsOf(job) : ~table[i].marked} IN
       /\ backup' = [job |-> job, held |-> rows]
       /\ read' = read \cup rows
  /\ UNCHANGED <<table, ids, second, given, late, listed>>

(* get_dirty_blocks(), by one that takes the marked ones again.            *)
GetDirtyBlocks(job) ==
  /\ backup = NoBackup
  /\ backup' = [job |-> job, held |-> RowsOf(job)]
  /\ read' = read \cup RowsOf(job)
  /\ UNCHANGED <<table, ids, second, given, late, listed>>

(* The update of mark_backed_up(): every row of the job, read or not.      *)
MarkRows(job) ==
  table' = [i \in DOMAIN table |->
              [table[i] EXCEPT !.marked = @ \/ table[i].job = job]]

MarkBackedUp ==
  /\ backup # NoBackup
  /\ MarkRows(backup.job)
  /\ backup' = NoBackup
  /\ UNCHANGED <<ids, second, given, read, late, listed>>

(* mark_block_backed_up(), of a block that the backup holds.               *)
MarkBlockBackedUp ==
  /\ \E i \in backup.held :
       /\ table' = [table EXCEPT ![i].marked = TRUE]
       /\ backup' = [backup EXCEPT !.held = @ \ {i}]
  /\ UNCHANGED <<ids, second, given, read, late, listed>>

(* The backup ends, or dies, with no more marked.                          *)
BackupEnds ==
  /\ backup # NoBackup
  /\ backup' = NoBackup
  /\ UNCHANGED <<table, ids, second, given, read, late, listed>>

(* get_dirty_blocks_since().                                               *)
GetDirtyBlocksSince(since) ==
  /\ listed' = [since |-> since,
                got |-> {i \in DOMAIN table : table[i].at >= since},
                due |-> {i \in DOMAIN table : given[i] >= since}]
  /\ UNCHANGED <<table, ids, second, backup, given, read, late>>

(* cleanup_old_records(): datetime('now', '-30') has no unit and is NULL,  *)
(* and no row is older than NULL.                                          *)
CleanupOldRecords == UNCHANGED bufferVars

Tick ==
  /\ second < MaxSeconds
  /\ second' = second + 1
  /\ UNCHANGED <<table, ids, backup, given, read, late, listed>>

Next ==
  \/ \E job \in BackupJobs :
       \/ RecordDirtyBlock(job) \/ RecordDirtyBlocksBatch(job)
       \/ GetUnbackedBlocks(job) \/ GetDirtyBlocks(job)
  \/ MarkBackedUp \/ MarkBlockBackedUp \/ BackupEnds
  \/ \E since \in 0..MaxSeconds : GetDirtyBlocksSince(since)
  \/ CleanupOldRecords \/ Tick

Spec == Init /\ [][Next]_bufferVars

-----------------------------------------------------------------------------
TypeOK ==
  /\ DOMAIN table = 0..(ids - 1) /\ DOMAIN given = DOMAIN table
  /\ ids \in 0..MaxRows /\ second \in 0..MaxSeconds
  /\ backup.held \subseteq DOMAIN table

(* A block that counts as backed up was given to a backup of its job, or   *)
(* was recorded while one was at work on what it had been given.  And a    *)
(* listing leaves out a block of its time only if the time of that block   *)
(* was stored as another text.                                             *)
MarkedWasRead ==
  /\ \A i \in DOMAIN table : table[i].marked => i \in read \cup late
  /\ \A i \in listed.due \ listed.got : table[i].at = Garbled
=============================================================================
