---------------------------- MODULE ChangedBlocks ----------------------------
(***************************************************************************)
(* The engines of core/src/incremental: detect_changes() gives ranges,     *)
(* merge_bitmaps() joins those of two detections, read_changed_blocks()    *)
(* hands their data to the backup.                                         *)
(*                                                                         *)
(* A detection asks a tool how much has changed and answers with one range *)
(* of that size from the start of the source; most move the marker from    *)
(* which the next one counts before anything has been read.  The pipes     *)
(* end in wc or grep, so a tool that fails has counted nothing.  Sizes are *)
(* kept in 32 bits.                                                        *)
(*                                                                         *)
(* The source is a file or a directory.  Most tools measure a directory,   *)
(* but what is read is opened as a file: a directory opens, gives nothing, *)
(* and the reader is told that all went well.                              *)
(*                                                                         *)
(* The caller is external: it reads what it holds, and when that fails it  *)
(* keeps it for the next detection or drops it.  Hyper-V and VMware hand   *)
(* out zeros and are left to "fixed".                                      *)
(***************************************************************************)
EXTENDS Integers, FiniteSets, Sequences, SequencesExt

CONSTANTS
  Wrap,       (* blocks in 2^32 bytes                                       *)
  Disks,      (* sizes the source may have, in blocks                       *)
  MaxHeld     (* bound: ranges the caller holds                             *)

VARIABLES
  method,     (* of the engine                                              *)
  tree,       (* the source is a directory                                  *)
  disk,       (* its size                                                   *)
  marked,     (* there is a marker: a snapshot, a marker file, a bitmap     *)
  since,      (* blocks changed since then, or ever                         *)
  saved,      (* blocks of which the backup has the present version         *)
  held,       (* the ranges the caller holds                                *)
  missed      (* history: blocks whose change a marker moved past without a *)
              (* report, that were dropped, or read as nothing or as zeros, *)
              (* and have not changed or been read since                    *)

cbVars == <<method, tree, disk, marked, since, saved, held, missed>>

(* "snapshot" is Btrfs and ZFS; "readdir" every method of Windows.         *)
Methods == {"snapshot", "tar", "lvm", "dm_era", "fanotify", "readdir", "qemu",
            "fixed"}
Blocks == 1..disk
Cover(r) == (r.offset + 1)..(r.offset + r.size)
Covered(ranges) == UNION {Cover(ranges[i]) : i \in DOMAIN ranges}

(* A range of this many blocks from the start; the size is cut to 32 bits. *)
Prefix(n) == <<[offset |-> 0, size |-> n % Wrap]>>
AtLeastOne(n) == IF n > 0 THEN Prefix(n) ELSE <<>>

Init ==
  /\ method \in Methods /\ tree \in BOOLEAN
  /\ method = "snapshot" => tree
  /\ method \in {"qemu", "fixed"} => ~tree
  /\ disk \in Disks
  /\ marked = FALSE /\ since = Blocks
  /\ saved = {} /\ held = <<>>
  /\ missed = {}

Larger(x, y) == IF x < y THEN y ELSE x

-----------------------------------------------------------------------------
(* Mutation: the range that is there keeps its size.                       *)
AddRangeKeepsSize(ranges, r) ==
  LET over == {i \in DOMAIN ranges : /\ ranges[i].offset <= r.offset
                                     /\ r.offset < ranges[i].offset
                                                     + ranges[i].size}
  IN  IF over = {} THEN Append(ranges, r) ELSE ranges

-----------------------------------------------------------------------------
(* merge_bitmaps(): a range that begins inside one that is there extends   *)
(* it; the others are added; all are sorted, those that begin at one place *)
(* in any order.                                                           *)
AddRange(ranges, r) ==
  LET over == {i \in DOMAIN ranges : /\ ranges[i].offset <= r.offset
                                     /\ r.offset < ranges[i].offset
                                                     + ranges[i].size}
      i == CHOOSE k \in over : \A l \in over : k <= l
      end == Larger(ranges[i].offset + ranges[i].size, r.offset + r.size)
  IN  IF over = {} THEN Append(ranges, r)
      ELSE [ranges EXCEPT ![i].size = (end - ranges[i].offset) % Wrap]

Joined(a, b) ==
  LET of[n \in 0..Len(b)] ==   \* with the first n ranges of b
        IF n = 0 THEN a ELSE AddRange(of[n - 1], b[n])
  IN  of[Len(b)]

Sorted(ranges) ==
  \A i, k \in DOMAIN ranges : i < k => ranges[i].offset <= ranges[k].offset
MergeBitmaps(a, b) ==
  LET all == Joined(a, b)
  IN  {ranges \in {[i \in DOMAIN all |-> all[p[i]]] :
                     p \in Bijection(DOMAIN all, DOMAIN all)} : Sorted(ranges)}

(* What read_changed_blocks() reads: a range that goes past the end leaves *)
(* the stream failed, and nothing is read after it.                        *)
ReadChangedBlocks(ranges) ==
  LET past == {i \in DOMAIN ranges : ranges[i].offset + ranges[i].size > disk}
      last == IF past = {} THEN Len(ranges)
              ELSE CHOOSE i \in past : \A j \in past : i <= j
  IN  Covered(SubSeq(ranges, 1, last)) \cap Blocks

-----------------------------------------------------------------------------
Take(ranges) ==
  /\ Len(Joined(held, ranges)) <= MaxHeld
  /\ held' \in MergeBitmaps(held, ranges)
  /\ UNCHANGED <<method, tree, disk, saved>>

(* The marker moves with the detection.                                    *)
Report(ranges) ==
  /\ Take(ranges)
  /\ since' = {}
  /\ missed' = missed \cup (since \ Covered(ranges))

(* detect_tar_incremental(): lines with "file", which tar prints for files *)
(* it has trouble with; the snapshot file of tar moves on.                 *)
DetectTarIncremental ==
  /\ method \in {"tar", "lvm", "dm_era"}
  /\ \E n \in {0, 1} : Report(AtLeastOne(n))
  /\ UNCHANGED marked

(* detect_btrfs(), detect_zfs(): the first time all files, later the size  *)
(* of what was sent.  When no snapshot is made tar is asked instead.       *)
DetectSnapshot ==
  /\ method = "snapshot"
  /\ \/ /\ ~marked
        /\ Report(Prefix(disk))
        /\ marked' = TRUE
     \/ /\ marked
        /\ \E n \in {0} \cup Cardinality(since)..(disk + 1) : Report(Prefix(n))
        /\ UNCHANGED marked
     \/ /\ \E n \in {0, 1} : Take(AtLeastOne(n))
        /\ UNCHANGED <<marked, since, missed>>

(* detect_dm_era(): the first megabyte for every line; else tar is asked.  *)
(* detect_lvm(): the number at which the line of the first snapshot begins,*)
(* its start, which is 0; a named one has none and throws.                 *)
DetectStatus ==
  /\ method \in {"dm_era", "lvm"}
  /\ Report(Prefix(IF method = "dm_era" THEN 1 ELSE 0))
  /\ UNCHANGED marked

(* detect_fanotify(): the files newer than the marker file, which is then  *)
(* touched; the first time there is none, and find fails.                  *)
DetectFanotify ==
  /\ method = "fanotify"
  /\ \E n \in {0} \cup (IF ~marked THEN {}
                       ELSE IF tree THEN {Cardinality(since)} ELSE {1}) :
       Report(AtLeastOne(n))
  /\ marked' = TRUE

(* detect_readdir(): the sizes of all files, whatever their times, up to   *)
(* the one at which the walk throws, at once when the source is a file.    *)
(* The next detection begins anew.                                         *)
DetectReaddir ==
  /\ method = "readdir"
  /\ \E n \in 0..(IF tree THEN disk ELSE 0) : Take(AtLeastOne(n))
  /\ UNCHANGED <<marked, since, missed>>

(* The simulated answers: a megabyte, or 64 KiB.                           *)
DetectFixed ==
  /\ method = "fixed"
  /\ Report(Prefix(1))
  /\ UNCHANGED marked

(* Proxmox: the bitmap is added, and refused if it is there; only then is  *)
(* it dumped, as empty as it was made.                                     *)
DetectQemu ==
  /\ method = "qemu"
  /\ IF marked THEN Take(<<>>) /\ UNCHANGED <<marked, since, missed>>
     ELSE Report(<<>>) /\ marked' = TRUE

(* dump_qemu_dirty_bitmap() of one that has been recording; the tool may   *)
(* fail.                                                                   *)
DumpQemuDirtyBitmap ==
  /\ method = "qemu" /\ marked
  /\ \/ \E dirty \in SetToSeqs(since) :
          /\ \A i, k \in DOMAIN dirty : i < k => dirty[i] < dirty[k]
          /\ Take([i \in DOMAIN dirty |-> [offset |-> dirty[i] - 1, size |-> 1]])
     \/ Take(<<>>)
  /\ UNCHANGED <<marked, since, missed>>

(* clear_qemu_dirty_bitmap(): with what was changed after the dump.        *)
ClearQemuDirtyBitmap ==
  /\ method = "qemu" /\ marked
  /\ since' = {}
  /\ missed' = missed \cup (since \ (saved \cup Covered(held)))
  /\ UNCHANGED <<method, tree, disk, marked, saved, held>>

-----------------------------------------------------------------------------
(* The caller reads: the backup gets the present data, or zeros.  Of a     *)
(* directory it gets nothing.                                              *)
Read ==
  LET got == ReadChangedBlocks(held)
  IN  /\ held # <<>>
      /\ held' = <<>>
      /\ CASE tree -> /\ missed' = missed \cup (Covered(held) \cap Blocks)
                      /\ UNCHANGED saved
           [] method = "fixed" -> saved' = saved \ got /\ missed' = missed \cup got
           [] OTHER -> saved' = saved \cup got /\ missed' = missed \ got
      /\ UNCHANGED <<method, tree, disk, marked, since>>

(* The source does not open, or the backup fails: the caller drops what it *)
(* holds.                                                                  *)
Drop ==
  /\ held # <<>>
  /\ held' = <<>> /\ missed' = missed \cup (Covered(held) \cap Blocks)
  /\ UNCHANGED <<method, tree, disk, marked, since, saved>>

(* The engine begins anew; the name of its snapshot is lost, a file or a   *)
(* bitmap stays.                                                           *)
Restart ==
  /\ held' = <<>> /\ missed' = missed \cup (Covered(held) \cap Blocks)
  /\ marked' = (marked /\ method # "snapshot")
  /\ UNCHANGED <<method, tree, disk, since, saved>>

(* A volume under QEMU is made smaller.                                    *)
Shrink ==
  /\ method = "qemu" /\ disk > 1
  /\ disk' = disk - 1
  /\ since' = since \ {disk} /\ saved' = saved \ {disk}
  /\ missed' = missed \ {disk}
  /\ UNCHANGED <<method, tree, marked, held>>

Change(b) ==
  /\ since' = since \cup {b} /\ saved' = saved \ {b}
  /\ missed' = missed \ {b}
  /\ UNCHANGED <<method, tree, disk, marked, held>>

Next ==
  \/ DetectTarIncremental \/ DetectSnapshot \/ DetectStatus \/ DetectFanotify
  \/ DetectReaddir \/ DetectFixed \/ DetectQemu \/ DumpQemuDirtyBitmap
  \/ ClearQemuDirtyBitmap \/ Read \/ Drop \/ Restart \/ Shrink
  \/ \E b \in Blocks : Change(b)

Spec == Init /\ [][Next]_cbVars

-----------------------------------------------------------------------------
TypeOK ==
  /\ since \subseteq Blocks /\ saved \subseteq Blocks /\ missed \subseteq Blocks
  /\ \A i \in DOMAIN held : held[i].size \in 0..(Wrap - 1)

(* A block is in the backup as it is now, or its change awaits detection   *)
(* or reading, unless a marker moved past that very change, the caller     *)
(* dropped it, or its reading gave nothing or zeros: joining the ranges of *)
(* several detections, sorting and reading them loses no block.            *)
ChangesAreKept ==
  Blocks \ (since \cup saved \cup Covered(held)) \subseteq missed
=============================================================================
