------------------------------ MODULE DataMover ------------------------------
(***************************************************************************)
(* A resumable transfer: obs::DataMover (core/src/data_mover).             *)
(*                                                                         *)
(* The owner starts and cancels transfers; a worker thread reads the       *)
(* source chunk by chunk and now and then saves the offset it has reached  *)
(* in a checkpoint file, which survives a crash of the process and tells   *)
(* the next transfer of the job where to go on.  Offsets are counted in    *)
(* units smaller than a chunk, so that the last chunk can be short.        *)
(***************************************************************************)
EXTENDS Integers, FiniteSets

CONSTANTS
  Sources,    (* what the source path can hold: length and units that are 0 *)
  NoSource,   (* the path does not exist                                    *)
  Chunk,      (* CHUNK_SIZE                                                 *)
  Interval,   (* checkpoint_interval_bytes                                  *)
  MaxCrashes, (* bound: crashes of the process                              *)
  MaxChanges  (* bound: times somebody replaces the source                  *)

ASSUME MoverAssumption ==
  /\ \A s \in Sources : s.size \in Nat /\ s.zeros \subseteq 0..(s.size - 1)
  /\ NoSource \notin Sources
  /\ Chunk \in Nat \ {0} /\ Interval \in Nat \ {0}
  /\ MaxCrashes \in Nat /\ MaxChanges \in Nat

VARIABLES
  source,     (* the file at source_path                                    *)
  checkpoint, (* the checkpoint file: absent, empty, or an offset           *)
  wpc,        (* where the worker is                                        *)
  joinable,   (* worker_.joinable()                                         *)
  cancelled,  (* cancelled_                                                 *)
  opc,        (* where the owner is: idle or joining                        *)
  transferred,(* transferred, and progress_.transferred_bytes               *)
  crashes, changes,
  moved,      (* history: units of the present source that were read, in    *)
              (* this run of the transfer or in those it goes on from       *)
  replaced,   (* history: the source changed since a checkpoint was started *)
  whole       (* history: the last transfer to end read the source to EOF   *)

workerVars == <<wpc, transferred>>
counters == <<crashes, changes>>
history == <<moved, replaced, whole>>
vars == <<source, checkpoint, workerVars, joinable, cancelled, opc, counters,
          history>>

Absent == -2
Empty == -1
WorkerStates ==
  {"none", "open", "load", "read", "save", "write", "clear", "remove", "done"}
Alive == wpc \notin {"none", "done"}

Size == IF source = NoSource THEN 0 ELSE source.size
(* load_checkpoint: no file and a file with nothing in it both read as 0.  *)
LoadCheckpoint == IF checkpoint < 0 THEN 0 ELSE checkpoint

Init ==
  /\ source \in Sources \cup {NoSource}
  /\ checkpoint = Absent
  /\ wpc = "none" /\ joinable = FALSE
  /\ cancelled = FALSE /\ opc = "idle"
  /\ transferred = 0
  /\ crashes = 0 /\ changes = 0
  /\ moved = {} /\ replaced = FALSE /\ whole = FALSE

-----------------------------------------------------------------------------
(* The owner, and the world outside.                                       *)

(* The process ends at any point and starts again: only files remain.      *)
Restart ==
  /\ crashes < MaxCrashes
  /\ crashes' = crashes + 1
  /\ wpc' = "none" /\ joinable' = FALSE /\ cancelled' = FALSE /\ opc' = "idle"
  /\ transferred' = 0
  /\ UNCHANGED <<source, checkpoint, changes, history>>

Replace ==
  /\ ~Alive /\ changes < MaxChanges
  /\ source' \in (Sources \cup {NoSource}) \ {source}
  /\ changes' = changes + 1
  /\ replaced' = TRUE /\ moved' = {}
  /\ UNCHANGED <<checkpoint, workerVars, joinable, cancelled, opc, crashes,
                 whole>>

StartTransfer ==
  /\ opc = "idle" /\ ~joinable
  /\ cancelled' = FALSE
  /\ wpc' = "open" /\ joinable' = TRUE
  /\ whole' = FALSE
  /\ UNCHANGED <<source, checkpoint, transferred, opc, counters,
                 moved, replaced>>

(* Assigning to a joinable std::thread terminates the process: a second    *)
(* start without a cancel in between, even after the first has ended.      *)
StartAgain ==
  /\ opc = "idle" /\ joinable
  /\ Restart

CancelTransfer ==
  /\ opc = "idle" /\ joinable
  /\ cancelled' = TRUE
  /\ opc' = "join"
  /\ UNCHANGED <<source, checkpoint, workerVars, joinable, counters, history>>

CancelJoin ==
  /\ opc = "join" /\ wpc = "done"
  /\ joinable' = FALSE /\ opc' = "idle"
  /\ UNCHANGED <<source, checkpoint, workerVars, cancelled, counters, history>>

-----------------------------------------------------------------------------
(* do_transfer                                                             *)

Open ==
  /\ wpc = "open"
  /\ wpc' = IF source = NoSource THEN "done" ELSE "load"
  /\ UNCHANGED <<source, checkpoint, transferred, joinable, cancelled,
                 opc, counters, history>>

(* A run that starts at 0 reads the present source from its beginning.     *)
Load ==
  /\ wpc = "load"
  /\ transferred' = LoadCheckpoint
  /\ moved' = IF LoadCheckpoint = 0 THEN {} ELSE moved
  /\ replaced' = (LoadCheckpoint # 0 /\ replaced)
  /\ wpc' = "read"
  /\ UNCHANGED <<source, checkpoint, joinable, cancelled, opc, counters, whole>>

(* Mutation of NextChunk: a short read counts as none.                     *)
NextChunkNoTail ==
  IF transferred + Chunk <= Size
    THEN transferred..(transferred + Chunk - 1) ELSE {}

(* The units the next read returns: a chunk, less at the end of the file,  *)
(* none past it.                                                           *)
NextChunk == {u \in transferred..(transferred + Chunk - 1) : u < Size}

(* Mutation of SavesAfter: only exact multiples of the interval.           *)
SavesAfterExact(t) == t % Interval = 0

(* The first chunk end at or behind a multiple of the interval is saved;   *)
(* a chunk of zeros never is.                                              *)
SavesAfter(t) == t % Interval < Chunk

(* One round of the loop.  A short read leaves the stream at EOF.          *)
Read ==
  /\ wpc = "read" /\ ~cancelled /\ NextChunk # {}
  /\ LET t == transferred + Cardinality(NextChunk) IN
       /\ transferred' = t
       /\ moved' = moved \cup NextChunk
       /\ wpc' = IF NextChunk \subseteq source.zeros \/ ~SavesAfter(t)
                   THEN "read" ELSE "save"
  /\ UNCHANGED <<source, checkpoint, joinable, cancelled, opc,
                 counters, replaced, whole>>

(* Mutation of ReadEnds: the end of the file does not end the loop.        *)
ReadEndsOnCancel ==
  /\ wpc = "read" /\ cancelled
  /\ wpc' = "clear"
  /\ whole' = (NextChunk = {})
  /\ UNCHANGED <<source, checkpoint, transferred, joinable, cancelled, opc,
                 counters, moved, replaced>>

(* The loop ends at the end of the file or because of a cancel.            *)
ReadEnds ==
  /\ wpc = "read" /\ (cancelled \/ NextChunk = {})
  /\ wpc' = "clear"
  /\ whole' = (NextChunk = {})
  /\ UNCHANGED <<source, checkpoint, transferred, joinable, cancelled,
                 opc, counters, moved, replaced>>

(* save_checkpoint: the file is truncated, then written.                   *)
SaveTruncates ==
  /\ wpc = "save"
  /\ checkpoint' = Empty
  /\ wpc' = "write"
  /\ UNCHANGED <<source, transferred, joinable, cancelled, opc,
                 counters, history>>

(* Mutation of SaveWrites: the offset of the chunk to come.                *)
SaveWritesAhead ==
  /\ wpc = "write"
  /\ checkpoint' = transferred + Chunk
  /\ wpc' = "read"
  /\ UNCHANGED <<source, transferred, joinable, cancelled, opc, counters,
                 history>>

SaveWrites ==
  /\ wpc = "write"
  /\ checkpoint' = transferred
  /\ wpc' = "read"
  /\ UNCHANGED <<source, transferred, joinable, cancelled, opc,
                 counters, history>>

(* save_checkpoint(0), then the file is removed.                           *)
Clear ==
  /\ wpc = "clear"
  /\ checkpoint' = 0
  /\ wpc' = "remove"
  /\ UNCHANGED <<source, transferred, joinable, cancelled, opc,
                 counters, history>>

Remove ==
  /\ wpc = "remove"
  /\ checkpoint' = Absent
  /\ wpc' = "done"
  /\ UNCHANGED <<source, transferred, joinable, cancelled, opc,
                 counters, history>>

(* The progress callback or the file system throws: the worker ends and    *)
(* the checkpoint stays.                                                   *)
Throws ==
  /\ wpc \in {"load", "read"}
  /\ wpc' = "done"
  /\ UNCHANGED <<source, checkpoint, transferred, joinable, cancelled,
                 opc, counters, history>>

-----------------------------------------------------------------------------
Worker ==
  \/ Open \/ Load \/ Read \/ ReadEnds \/ SaveTruncates \/ SaveWrites
  \/ Clear \/ Remove

Next ==
  \/ StartTransfer \/ StartAgain \/ CancelTransfer \/ CancelJoin
  \/ Restart \/ Replace
  \/ Worker \/ Throws

Spec == Init /\ [][Next]_vars

(* The worker's thread runs; nothing obliges it to throw.                  *)
FairSpec == Spec /\ WF_vars(Worker)

-----------------------------------------------------------------------------
(* Every variable has its type.                                            *)
TypeOK ==
  /\ source \in Sources \cup {NoSource}
  /\ checkpoint \in {Absent, Empty} \cup Nat
  /\ wpc \in WorkerStates
  /\ joinable \in BOOLEAN /\ cancelled \in BOOLEAN
  /\ opc \in {"idle", "join"}
  /\ transferred \in Nat
  /\ crashes \in 0..MaxCrashes /\ changes \in 0..MaxChanges
  /\ moved \subseteq Nat
  /\ replaced \in BOOLEAN /\ whole \in BOOLEAN

(* However runs crash, throw and resume, a checkpoint never points past    *)
(* data that no run of the transfer has read, unless the source was        *)
(* replaced, which the checkpoint does not tell.                           *)
CheckpointIsCovered == replaced \/ 0..(LoadCheckpoint - 1) \subseteq moved

(* A transfer that ended at the end of a source nobody replaced has, with  *)
(* the runs it resumed, read all of it.                                    *)
WholeMeansAll ==
  wpc = "clear" /\ whole /\ ~replaced => 0..(Size - 1) \subseteq moved

(* A crash loses less than an interval and a chunk of work, unless a chunk *)
(* of zeros lies in it: those do not save a checkpoint.  While a           *)
(* checkpoint is written a crash loses all of it, as the file was          *)
(* truncated: that place is not among those named here.                    *)
LossIsBounded ==
  wpc \in {"read", "save"} =>
    \/ transferred - LoadCheckpoint < Interval + Chunk
    \/ source.zeros \cap LoadCheckpoint..(transferred - 1) # {}

(* Every run ends, at the latest at the end of the source.                 *)
TransferEnds == Alive ~> ~Alive
=============================================================================
