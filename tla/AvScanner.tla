------------------------------- MODULE AvScanner -------------------------------
(***************************************************************************)
(* AvScanner (antivirus/av_scanner.cpp): scan_directory walks a directory  *)
(* twice, to count and to scan, under one flag and one progress record     *)
(* that all calls share; quarantine_file renames a file to its name and a  *)
(* number, which starts again with the process.  load_signatures and       *)
(* restore_from_quarantine do nothing in the code, and match_signature     *)
(* never matches.                                                          *)
(***************************************************************************)
EXTENDS Integers, FiniteSets

CONSTANTS
  Threads,     (* callers of scan_directory and of quarantine_file         *)
  Files        (* files of one name, each in its own subdirectory          *)

VARIABLES
  dir,         (* files below the scanned path                             *)
  infected,    (* those scan_file calls SUSPICIOUS                         *)
  scanning,    (* scanning_                                                *)
  progress,    (* progress_                                                *)
  scan,        (* where thread t is, and the locals of its call            *)
  number,      (* the counter of gen_id                                    *)
  stored,      (* <<n, f>>: file f is in the quarantine under number n     *)
  cut,         (* ghost: the scan of t, alone so far, was cancelled        *)
  mixed,       (* ghost: another scan, or a quarantine, fell in that of t  *)
  raced,       (* ghost: two quarantines overlapped, or the process was    *)
               (* restarted after one                                      *)
  replaced     (* ghost: a file in the quarantine was replaced             *)

scannerVars == <<dir, infected, scanning, progress, scan, number, stored, cut,
                 mixed, raced, replaced>>

Fresh == [status |-> "scanning", scanned |-> 0, percent |-> 0, found |-> {}]
Idle == [at |-> "idle", todo |-> {}, total |-> 0, scanned |-> 0]

Scans(t) == scan[t].at \in {"reset", "count", "open", "walk", "done", "last"}
Stores(t) == scan[t].at \in {"number", "rename"}

Init ==
  /\ dir = Files
  /\ infected \in SUBSET Files
  /\ scanning = FALSE
  /\ progress = [Fresh EXCEPT !.status = ""]
  /\ scan = [t \in Threads |-> Idle]
  /\ number = 0
  /\ stored = {}
  /\ cut = [t \in Threads |-> FALSE]
  /\ mixed = [t \in Threads |-> FALSE]
  /\ raced = FALSE
  /\ replaced = FALSE

-----------------------------------------------------------------------------
(* scan_directory *)

Go(t, at) == scan' = [scan EXCEPT ![t].at = at]
InScan == UNCHANGED <<dir, infected, number, stored, cut, mixed, raced,
                      replaced>>

(* The one flag says that some scan runs; the start of one takes back a    *)
(* cancel of another.                                                      *)
Start(t) ==
  LET others == {u \in Threads \ {t} : Scans(u)}
  IN /\ scan[t].at = "idle"
     /\ scanning' = TRUE
     /\ Go(t, "reset")
     /\ cut' = [u \in Threads |-> cut[u] /\ u # t /\ u \notin others]
     /\ mixed' = [u \in Threads |->
          IF u = t THEN \E o \in Threads \ {t} : scan[o].at # "idle"
          ELSE mixed[u] \/ u \in others]
     /\ UNCHANGED <<dir, infected, progress, number, stored, raced, replaced>>

Reset(t) ==
  /\ scan[t].at = "reset"
  /\ progress' = Fresh
  /\ Go(t, "count")
  /\ UNCHANGED scanning /\ InScan

(* The first walk; it stops early when the flag is found lowered.          *)
Count(t) ==
  /\ scan[t].at = "count"
  /\ \E n \in IF scanning THEN {Cardinality(dir)} ELSE 0 .. Cardinality(dir) :
       scan' = [scan EXCEPT ![t].total = n, ![t].at = "open"]
  /\ UNCHANGED <<scanning, progress>> /\ InScan

Open(t) ==
  /\ scan[t].at = "open"
  /\ scan' = [scan EXCEPT ![t].todo = dir, ![t].at = "walk"]
  /\ UNCHANGED <<scanning, progress>> /\ InScan

(* One file of the second walk.  A file that was moved away since may      *)
(* still be listed; it is then counted and its level is UNKNOWN.           *)
ScanFile(t, f) ==
  LET n == scan[t].scanned + 1
      total == scan[t].total
  IN /\ scan[t].at = "walk" /\ scanning /\ f \in scan[t].todo
     /\ scan' = [scan EXCEPT ![t].todo = @ \ {f}, ![t].scanned = n]
     /\ progress' = [progress EXCEPT
          !.scanned = n,
          !.percent = IF total > 0 THEN (n * 100) \div total ELSE 0,
          !.found = @ \cup ({f} \cap infected \cap dir)]
     /\ UNCHANGED scanning /\ InScan

NotListed(t, f) ==
  /\ scan[t].at = "walk" /\ f \in scan[t].todo \ dir
  /\ scan' = [scan EXCEPT ![t].todo = @ \ {f}]
  /\ UNCHANGED <<scanning, progress>> /\ InScan

StopWalk(t) ==
  /\ scan[t].at = "walk"
  /\ ~scanning \/ scan[t].todo = {}
  /\ Go(t, "done")
  /\ UNCHANGED <<scanning, progress>> /\ InScan

(* Mutation: "done" is taken for 100 percent.                              *)
DoneIsAll(t) ==
  /\ scan[t].at = "done"
  /\ progress' = [progress EXCEPT !.status = "done", !.percent = 100]
  /\ Go(t, "last")
  /\ UNCHANGED scanning /\ InScan

(* Also a scan that was cancelled says "done".                             *)
Done(t) ==
  /\ scan[t].at = "done"
  /\ progress' = [progress EXCEPT !.status = "done"]
  /\ Go(t, "last")
  /\ UNCHANGED scanning /\ InScan

Leave(t) ==
  /\ scan' = [scan EXCEPT ![t] = Idle]
  /\ cut' = [cut EXCEPT ![t] = FALSE]
  /\ mixed' = [mixed EXCEPT ![t] = FALSE]
  /\ UNCHANGED <<dir, infected, progress, number, stored, raced, replaced>>

(* The flag is lowered for every scan that is under way.                   *)
Return(t) ==
  /\ scan[t].at = "last"
  /\ scanning' = FALSE
  /\ Leave(t)

(* The iterator of either walk throws, at a directory that is not there or *)
(* may not be read: the flag stays up and the progress says "scanning".    *)
Throw(t) ==
  /\ scan[t].at \in {"count", "open", "walk"}
  /\ Leave(t)
  /\ UNCHANGED scanning

(* cancel_scan and shutdown.                                               *)
CancelScan ==
  /\ scanning' = FALSE
  /\ cut' = [t \in Threads |-> cut[t] \/ (Scans(t) /\ ~mixed[t])]
  /\ UNCHANGED <<dir, infected, progress, scan, number, stored, mixed, raced,
                 replaced>>

-----------------------------------------------------------------------------
(* quarantine_file of f, held in todo; the number read by gen_id in total. *)

Quarantine(t, f) ==
  /\ scan[t].at = "idle"
  /\ scan' = [scan EXCEPT ![t] = [Idle EXCEPT !.at = "number", !.todo = {f}]]
  /\ cut' = [u \in Threads |-> FALSE]
  /\ mixed' = [u \in Threads |-> mixed[u] \/ Scans(u)]
  /\ raced' = (raced \/ \E u \in Threads \ {t} : Stores(u))
  /\ UNCHANGED <<dir, infected, scanning, progress, number, stored,
                 replaced>>

(* gen_id increments a plain static int: it is read here, written below.   *)
ReadNumber(t) ==
  /\ scan[t].at = "number"
  /\ scan' = [scan EXCEPT ![t].at = "rename", ![t].total = number]
  /\ UNCHANGED <<dir, infected, scanning, progress, number, stored, cut, mixed,
                 raced, replaced>>

(* rename replaces what has the name; a file that is gone makes it throw,  *)
(* which leaves all but the number as it was.  The bound on the number is  *)
(* the model's.                                                            *)
Rename(t, f) ==
  LET n == scan[t].total + 1
      old == {p \in stored : p[1] = n}
  IN /\ scan[t].at = "rename" /\ scan[t].todo = {f}
     /\ n <= Cardinality(Files)
     /\ number' = n
     /\ scan' = [scan EXCEPT ![t] = Idle]
     /\ IF f \in dir
        THEN /\ dir' = dir \ {f}
             /\ stored' = (stored \ old) \cup {<<n, f>>}
             /\ replaced' = (replaced \/ old # {})
        ELSE UNCHANGED <<dir, stored, replaced>>
     /\ UNCHANGED <<infected, scanning, progress, cut, mixed, raced>>

Restart ==
  /\ stored # {}
  /\ number' = 0
  /\ scanning' = FALSE
  /\ progress' = [Fresh EXCEPT !.status = ""]
  /\ scan' = [t \in Threads |-> Idle]
  /\ cut' = [t \in Threads |-> FALSE]
  /\ mixed' = [t \in Threads |-> FALSE]
  /\ raced' = TRUE
  /\ UNCHANGED <<dir, infected, stored, replaced>>

-----------------------------------------------------------------------------
Next ==
  \/ \E t \in Threads :
       \/ Start(t) \/ Reset(t) \/ Count(t) \/ Open(t) \/ StopWalk(t)
       \/ Done(t) \/ Return(t) \/ Throw(t) \/ ReadNumber(t)
       \/ \E f \in Files : \/ ScanFile(t, f) \/ NotListed(t, f)
                           \/ Quarantine(t, f) \/ Rename(t, f)
  \/ CancelScan \/ Restart

Spec == Init /\ [][Next]_scannerVars

-----------------------------------------------------------------------------
(* When a scan that nothing fell into says "done", the progress has 100    *)
(* percent exactly if every file was scanned, with every suspicious one    *)
(* found, as is sure unless it was cancelled.  A file in the quarantine    *)
(* is replaced by another only after a restart or by overlapping calls.    *)
ScansAreTold ==
  /\ \A t \in Threads :
       scan[t].at = "last" /\ ~mixed[t] =>
         /\ progress.status = "done"
         /\ dir # {} =>
              (progress.percent = 100 <=> progress.scanned = Cardinality(dir))
         /\ ~cut[t] => progress.scanned = Cardinality(dir)
         /\ progress.scanned = Cardinality(dir) =>
              progress.found = infected \cap dir
  /\ replaced => raced
=============================================================================
