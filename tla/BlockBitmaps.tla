----------------------------- MODULE BlockBitmaps -----------------------------
(***************************************************************************)
(* Bitmaps of changed blocks and what is kept of them: the tracker         *)
(* ChangedBlockTracking with its file, the table of BitmapManager and that *)
(* of IncrementalBackupEngine.  All three keep runs of equal entries, with *)
(* a count of 16 bits.                                                     *)
(*                                                                         *)
(* The tracker belongs to a disk of some size, but its bitmap has the size *)
(* that was loaded; nothing keeps an index below the end of the bitmap.    *)
(***************************************************************************)
EXTENDS Integers, FiniteSets, Sequences

CONSTANTS
  Totals,     (* sizes a disk may have, in blocks                           *)
  MaxRun,     (* the longest run: 65535                                     *)
  Wrap        (* blocks whose size does not fit in 32 bits                  *)

VARIABLES
  keeper,     (* who keeps bitmaps in this behaviour                        *)
  total,      (* total_blocks_ of the tracker                               *)
  bits,       (* bitmap_                                                    *)
  count,      (* changed_count_                                             *)
  runs,       (* the runs in the file, or in the row, if any                *)
  touched,    (* history: what the tracker was told had changed             *)
  origin,     (* history: the bitmap of the last save that was written; a   *)
              (* bitmap has an entry, so this is empty only if there is none*)
  shown,      (* what the last query answered, in a sequence of one          *)
  outside     (* history: an entry past the end of bitmap_ was touched      *)

bitmapVars ==
  <<keeper, total, bits, count, runs, touched, origin, shown, outside>>

Bitmaps == UNION {[1..t -> BOOLEAN] : t \in Totals}
Clean(t) == [i \in 1..t |-> FALSE]
Set(bitmap) == {i \in DOMAIN bitmap : bitmap[i]}
MaxTotal == CHOOSE t \in Totals : \A u \in Totals : u <= t

(* compress_bitmap_rle(), compress_rle().                                  *)
Extend(rs, value) ==
  LET n == Len(rs) IN
  IF rs # <<>> /\ rs[n].value = value /\ rs[n].count < MaxRun
  THEN [rs EXCEPT ![n].count = (@ + 1) % (MaxRun + 1)]
  ELSE Append(rs, [value |-> value, count |-> 1])
Compress(bitmap) ==
  LET of[n \in 0..Len(bitmap)] ==   \* of the first n entries
        IF n = 0 THEN <<>> ELSE Extend(of[n - 1], bitmap[n])
  IN  of[Len(bitmap)]

(* decompress_rle().                                                       *)
Repeat(r) == [i \in 1..r.count |-> r.value]
Decompress(rs) ==
  LET of[n \in 0..Len(rs)] ==   \* of the first n runs
        IF n = 0 THEN <<>> ELSE of[n - 1] \o Repeat(rs[n])
  IN  of[Len(rs)]

(* decompress_bitmap_rle() of a table's bitmap, cut or filled with zeros.  *)
Resized(bitmap, n) ==
  [i \in 1..n |-> i \in DOMAIN bitmap /\ bitmap[i]]

(* Stretches of set entries among the first total ones.                    *)
Stretches(bitmap) ==
  {s \in (1..total) \X (1..total) :
     /\ s[1] <= s[2] /\ \A i \in s[1]..s[2] : i \in Set(bitmap)
     /\ {s[1] - 1, s[2] + 1} \cap Set(bitmap) \cap (1..total) = {}}

Init ==
  /\ keeper \in {"tracker", "manager", "engine"}
  /\ total \in Totals
  /\ bits = Clean(total)
  /\ count = 0
  /\ runs = <<>> /\ origin = <<>>
  /\ touched = {}
  /\ shown = <<>>
  /\ outside = FALSE

-----------------------------------------------------------------------------
(* mark_range(), with mark_changed() of each block in it.                  *)
MarkRange(first, last) ==
  LET range == first..(IF last < total THEN last ELSE total) IN
  /\ keeper = "tracker" /\ ~outside
  /\ outside' = (range \ DOMAIN bits # {})
  /\ bits' = [i \in DOMAIN bits |-> bits[i] \/ i \in range]
  /\ count' = count + Cardinality((range \cap DOMAIN bits) \ Set(bits))
  /\ touched' = touched \cup range
  /\ shown' = <<>>
  /\ UNCHANGED <<keeper, total, runs, origin>>

(* get_changed_blocks(): each stretch with its size in 32 bits.            *)
GetChangedBlocks ==
  /\ keeper = "tracker" /\ ~outside
  /\ outside' = (total > Len(bits))
  /\ shown' = <<UNION {s[1]..((s[1] - 1) + ((s[2] - s[1] + 1) % Wrap)) :
                        s \in Stretches(bits)}>>
  /\ UNCHANGED <<keeper, total, bits, count, runs, touched, origin>>

Reset ==
  /\ keeper = "tracker" /\ ~outside
  /\ bits' = [i \in DOMAIN bits |-> FALSE]
  /\ count' = 0 /\ touched' = {} /\ shown' = <<>>
  /\ UNCHANGED <<keeper, total, runs, origin, outside>>

(* save().  A crash leaves a part of the file, in which the runs that are  *)
(* missing will be read as runs of none.                                   *)
Save ==
  /\ keeper = "tracker" /\ ~outside
  /\ origin' = [i \in 1..total |-> i \in touched]
  /\ \E n \in 0..Len(Compress(bits)) : runs' = SubSeq(Compress(bits), 1, n)
  /\ shown' = <<>>
  /\ UNCHANGED <<keeper, total, bits, count, touched, outside>>

(* load(): the bitmap ends where the file does, at most with the disk.     *)
Load ==
  /\ keeper = "tracker" /\ ~outside /\ origin # <<>>
  /\ LET all == Decompress(runs)
         loaded == SubSeq(all, 1, IF Len(all) < total THEN Len(all) ELSE total)
     IN  bits' = loaded /\ count' = Cardinality(Set(loaded))
  /\ touched' = Set(origin) \cap (1..total)
  /\ shown' = <<>>
  /\ UNCHANGED <<keeper, total, runs, origin, outside>>

(* A tracker is made, for a disk that may have another size by now.        *)
Make(t) ==
  /\ keeper = "tracker" /\ ~outside
  /\ total' = t /\ bits' = Clean(t) /\ count' = 0
  /\ touched' = {} /\ shown' = <<>>
  /\ UNCHANGED <<keeper, runs, origin, outside>>

-----------------------------------------------------------------------------
(* save_bitmap(), of either table.  The row may not be written: then the   *)
(* one of an earlier call stays.  The manager answers that it failed, the  *)
(* engine does not look.                                                   *)
SaveBitmap(bitmap) ==
  /\ keeper # "tracker"
  /\ \/ runs' = Compress(bitmap) /\ origin' = bitmap
     \/ UNCHANGED <<runs, origin>>
  /\ shown' = <<>>
  /\ UNCHANGED <<keeper, total, bits, count, touched, outside>>

(* load_bitmap().  The manager's has as many bytes as the row, three to a  *)
(* run: the size it asks for is eight times that, in bits.                 *)
Loaded ==
  IF keeper = "manager" THEN Resized(Decompress(runs), 3 * Len(runs))
  ELSE Decompress(runs)
LoadBitmap ==
  /\ keeper # "tracker" /\ origin # <<>>
  /\ shown' = <<Loaded>>
  /\ UNCHANGED <<keeper, total, bits, count, runs, touched, origin, outside>>

(* should_do_full() of the manager, for a threshold in tenths, by the share*)
(* of set entries in what load_bitmap() gives; without a row, or of no     *)
(* blocks, that is the whole.                                              *)
ShouldDoFull(blocks, tenths) ==
  IF origin = <<>> \/ blocks = 0 THEN tenths < 10
  ELSE 10 * Cardinality(Set(Loaded)) > tenths * blocks

Next ==
  \/ \E first, last \in 1..MaxTotal : first <= last /\ MarkRange(first, last)
  \/ GetChangedBlocks \/ Reset \/ Save \/ Load
  \/ \E t \in Totals : Make(t)
  \/ \E bitmap \in Bitmaps : SaveBitmap(bitmap)
  \/ LoadBitmap

Spec == Init /\ [][Next]_bitmapVars

-----------------------------------------------------------------------------
TypeOK ==
  /\ bits \in Seq(BOOLEAN) /\ Len(bits) <= total
  /\ touched \subseteq 1..total

(* The tracker counts and tells what was marked since it was made, reset   *)
(* or loaded, whatever the sizes of the disk before; it leaves its bitmap  *)
(* only when that was loaded from a file that was cut or of a smaller      *)
(* disk, and what it tells is short only where a stretch has a size of     *)
(* more than 32 bits.                                                      *)
MarksAreTold ==
  keeper = "tracker" =>
    /\ outside => Len(bits) < total
    /\ Len(bits) = total =>
         /\ count = Cardinality(touched)
         /\ shown # <<>> =>
              \/ shown[1] = touched
              \/ \E i \in touched : i..(i + Wrap - 1) \subseteq touched

(* A table gives back the bitmap of the last save that was written, which  *)
(* a caller of the engine cannot tell from the last: the engine's all of   *)
(* it, the manager's up to three bytes for each run, with nothing set that *)
(* was not.  So the manager advises a full backup only without a row, of a *)
(* disk without blocks, or for changes that are there.                     *)
LoadedWasSaved ==
  keeper # "tracker" =>
    /\ shown # <<>> =>
         /\ keeper = "engine" => shown[1] = origin
         /\ \A i \in DOMAIN shown[1] : shown[1][i] <=> i \in Set(origin)
    /\ \A blocks \in Totals \cup {0}, tenths \in 0..10 :
         ShouldDoFull(blocks, tenths) =>
           \/ origin = <<>> \/ blocks = 0
           \/ 10 * Cardinality(Set(origin)) > tenths * blocks
=============================================================================
