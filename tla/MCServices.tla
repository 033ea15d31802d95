------------------------------ MODULE MCServices ------------------------------
(***************************************************************************)
(* The services of the core library that share nothing with each other:    *)
(* the process that holds them, the jobs of its agent, eight stores and    *)
(* engines, and four tools.  A behaviour is  one of the component that is  *)
(* active; the others stay in one of their initial states, so the states   *)
(* of this run are those of fourteen runs put together, not multiplied.    *)
(***************************************************************************)
EXTENDS Integers, FiniteSets

CONSTANTS
  MaxClients, Files, Jobs, MaxChain, MaxDepth, MaxLength,
  BackupJobs, MaxRows, MaxSeconds, Threads, MinChunk, MaxChunk, MaxFile,
  Replications, Wrap, Disks, MaxHeld, Keys, MaxLayers,
  ExtentIds, Width, MaxExtents, MaxTurns, Totals, MaxRun, MaxExtras,
  Targets

(* Threads and files are finitely many; MIN_CHUNK and MAX_CHUNK are sizes. *)
ASSUME DedupAssumption ==
  /\ IsFiniteSet(Threads)
  /\ MinChunk \in Nat \ {0} /\ MaxChunk \in Nat \ {0} /\ MaxFile \in Nat

ASSUME ScannerAssumption == IsFiniteSet(Files)

(* Backups are finitely many, and chains are followed to some depth.       *)
ASSUME ChainAssumption ==
  /\ IsFiniteSet(Jobs) /\ "none" \notin Jobs
  /\ MaxDepth \in Nat \ {0} /\ MaxChain \in Nat /\ MaxLength \in Nat

(* The disks have a largest size, a run a longest count.                   *)
ASSUME BitmapAssumption ==
  /\ MaxRun \in Nat \ {0} /\ Wrap \in Nat \ {0} /\ Totals \subseteq Nat \ {0}
  /\ \E t \in Totals : \A u \in Totals : u <= t

(* Sources have sizes, and 32 bits hold the size of a block.               *)
ASSUME ChangedAssumption == Disks \subseteq Nat /\ Wrap > 1

(* The sizes of the extents are sizes.                                     *)
ASSUME ScaleAssumption == Width \in Nat /\ Width > 3

(* A disk to restore is not the backup it is restored from.                *)
ASSUME RestoreAssumption == "source" \notin Targets

VARIABLES
  active,       (* the component of this behaviour                          *)
  pc, running, gShutdown, backlog, client, connects, listening, agentRunning,
  heartbeat, fresh, monitors, orphaned, services, farewells,
  agent, snar, known, archive, told, earlier, edited,
  rows, check, answer, changed, loose,
  table, ids, second, backup, given, read, late, listed,
  length, period, cuts, reader, refs, kept, clash, unwritten,
  program, status, worker, asked, askedAt,
  method, tree, disk, marked, since, saved, held, missed,
  original, content, layers, hand, wrapped, emptied,
  repo, counter, written, declared, turns,
  caller, run, cancelled, result, handle, terminated, stopped, overlapped,
  dir, infected, scanning, progress, scan, number, stored, cut, mixed, raced,
  replaced,
  scripts, log, calls, results,
  image, restores, restored,
  keeper, total, bits, count, runs, touched, origin, shown, outside

Core == INSTANCE CoreProcess
Agent == INSTANCE AgentJobs
Chain == INSTANCE IncrementalChain
Buffer == INSTANCE DirtyBufferManager
Dedup == INSTANCE DedupEngine
Vm == INSTANCE VmReplication
Changed == INSTANCE ChangedBlocks
Engine == INSTANCE Engines
Scale == INSTANCE ScaleOut
Verification == INSTANCE VmVerification
Scanner == INSTANCE AvScanner
Oracle == INSTANCE OracleBackup
Bitmap == INSTANCE BlockBitmaps
Restore == INSTANCE CrossPlatformRestore

Components == {"core", "agent", "chain", "buffer", "dedup", "vm", "changed",
               "engine", "scale", "verification", "scanner", "oracle",
               "bitmap", "restore"}

coreVars == <<pc, running, gShutdown, backlog, client, connects, listening,
              agentRunning, heartbeat, fresh, monitors, orphaned, services,
              farewells>>
agentVars == <<agent, snar, known, archive, told, earlier, edited>>
chainVars == <<rows, check, answer, changed, loose>>
bufferVars == <<table, ids, second, backup, given, read, late, listed>>
dedupVars == <<length, period, cuts, reader, refs, kept, clash, unwritten>>
vmVars == <<program, status, worker, asked, askedAt>>
changedVars == <<method, tree, disk, marked, since, saved, held, missed>>
engineVars == <<original, content, layers, hand, wrapped, emptied>>
scaleVars == <<repo, counter, written, declared, turns>>
verificationVars == <<caller, run, cancelled, result, handle, terminated,
                      stopped, overlapped>>
scannerVars == <<dir, infected, scanning, progress, scan, number, stored, cut,
                 mixed, raced, replaced>>
oracleVars == <<scripts, log, calls, results>>
restoreVars == <<image, restores, restored>>
bitmapVars ==
  <<keeper, total, bits, count, runs, touched, origin, shown, outside>>
vars == <<active, coreVars, agentVars, chainVars, bufferVars, dedupVars, vmVars,
          changedVars, engineVars, scaleVars, verificationVars, scannerVars,
          oracleVars, bitmapVars, restoreVars>>

(* Where a component has several initial states the active one has them    *)
(* all; of the files to scan one is infected.                              *)
AnyFile == CHOOSE f \in Files : TRUE

Init ==
  /\ active \in Components
  /\ Core!Init /\ Chain!Init /\ Buffer!Init /\ Vm!Init /\ Scale!Init
  /\ Verification!Init /\ Oracle!Init /\ Restore!Init
  /\ Scanner!Init /\ infected = {AnyFile}
  /\ Agent!Init /\ (active = "agent" \/ agent = "generic")
  /\ Dedup!Init /\ (active = "dedup" \/ (length = 0 /\ period = MaxFile))
  /\ Changed!Init
  /\ active = "changed" \/ (method = "tar" /\ tree /\ \A d \in Disks : disk <= d)
  /\ Engine!Init /\ (active = "engine" \/ original = "data")
  /\ Bitmap!Init
  /\ active = "bitmap" \/ (keeper = "tracker" /\ \A t \in Totals : total <= t)

(* The steps of component c; the variables of the others are kept.         *)
OthersKeep(c) ==
  /\ active = c /\ UNCHANGED active
  /\ c = "core" \/ UNCHANGED coreVars
  /\ c = "agent" \/ UNCHANGED agentVars
  /\ c = "chain" \/ UNCHANGED chainVars
  /\ c = "buffer" \/ UNCHANGED bufferVars
  /\ c = "dedup" \/ UNCHANGED dedupVars
  /\ c = "vm" \/ UNCHANGED vmVars
  /\ c = "changed" \/ UNCHANGED changedVars
  /\ c = "engine" \/ UNCHANGED engineVars
  /\ c = "scale" \/ UNCHANGED scaleVars
  /\ c = "verification" \/ UNCHANGED verificationVars
  /\ c = "scanner" \/ UNCHANGED scannerVars
  /\ c = "oracle" \/ UNCHANGED oracleVars
  /\ c = "bitmap" \/ UNCHANGED bitmapVars
  /\ c = "restore" \/ UNCHANGED restoreVars

CoreMain == active = "core" /\ Core!Main /\ OthersKeep("core")
CoreHeartbeat == active = "core" /\ Core!Heartbeat /\ OthersKeep("core")
CoreMonitor == active = "core" /\ Core!Monitor /\ OthersKeep("core")
CoreConnect == active = "core" /\ Core!Connect /\ OthersKeep("core")
CoreSpeak == active = "core" /\ Core!Speak /\ OthersKeep("core")
CoreSignal == active = "core" /\ Core!SignalHandler /\ OthersKeep("core")
AgentStep == active = "agent" /\ Agent!Next /\ OthersKeep("agent")
ChainStep == active = "chain" /\ Chain!Next /\ OthersKeep("chain")
BufferStep == active = "buffer" /\ Buffer!Next /\ OthersKeep("buffer")
DedupStep == active = "dedup" /\ Dedup!Next /\ OthersKeep("dedup")
VmStep == active = "vm" /\ Vm!Next /\ OthersKeep("vm")
ChangedStep == active = "changed" /\ Changed!Next /\ OthersKeep("changed")
EngineStep == active = "engine" /\ Engine!Next /\ OthersKeep("engine")
ScaleStep == active = "scale" /\ Scale!Next /\ OthersKeep("scale")
VerificationStep ==
  active = "verification" /\ Verification!Next /\ OthersKeep("verification")
ScannerStep == active = "scanner" /\ Scanner!Next /\ OthersKeep("scanner")
OracleStep == active = "oracle" /\ Oracle!Next /\ OthersKeep("oracle")
BitmapStep == active = "bitmap" /\ Bitmap!Next /\ OthersKeep("bitmap")
RestoreStep == active = "restore" /\ Restore!Next /\ OthersKeep("restore")

Next ==
  \/ CoreMain \/ CoreHeartbeat \/ CoreMonitor \/ CoreConnect \/ CoreSpeak
  \/ CoreSignal \/ AgentStep \/ ChainStep \/ BufferStep \/ DedupStep \/ VmStep
  \/ ChangedStep \/ EngineStep \/ ScaleStep
  \/ VerificationStep \/ ScannerStep \/ OracleStep \/ BitmapStep
  \/ RestoreStep

(* The fairness of CoreProcess; nothing else is claimed to go on.          *)
Spec ==
  /\ Init /\ [][Next]_vars
  /\ WF_vars(CoreMain) /\ WF_vars(CoreHeartbeat) /\ WF_vars(CoreMonitor)

-----------------------------------------------------------------------------
(* A signal ends the process, unless a silent client holds it or the CDP   *)
(* engine waits for a monitor that waits for its mutex; an ordinary end    *)
(* has joined the heartbeat and told the subscribers once.                 *)
SignalEndsProcess == Core!SignalEndsProcess

(* What was told a success is there: the first job of an agent that runs a *)
(* command has left a whole copy, an Oracle backup that met no other had   *)
(* its rman copy the database, or not start after a log without errors,    *)
(* and a disk restored by a call that shared no file is whole.             *)
SuccessHasCopy ==
  Agent!SuccessHasCopy /\ Oracle!AloneIsToldTruly /\ Restore!RestoredIsWhole

(* What ChainManager and BitmapManager answer holds of the tables they     *)
(* answer from, unless the chain is written meanwhile or lost a row, and   *)
(* for the last bitmap that was written up to where the manager cuts it.   *)
AnswersHold == Chain!AnswersHold /\ Bitmap!LoadedWasSaved

(* A block that counts as backed up was given to a backup of its job, or   *)
(* recorded while one was at work.                                         *)
MarkedWasRead == Buffer!MarkedWasRead

(* References of a chunk are no more than its look-ups, and as many unless *)
(* two missed it at a time or a statement failed; a processed file was     *)
(* looked up but for what follows the last boundary.                       *)
NothingIsUncounted == Dedup!NothingIsUncounted

(* A stop or pause of a VM replication stays and no round begins after it, *)
(* unless it came before the first line of the thread, or between its look *)
(* at the status and its own write.                                        *)
RequestIsKept == Vm!RequestIsKept

(* A change is awaiting detection, held or saved, unless a marker moved    *)
(* past that one, or it was dropped or read as nothing; a tracker tells    *)
(* what it was told, unless its bitmap is shorter than its disk or the     *)
(* size of a stretch is cut.                                               *)
ChangesAreKept == Changed!ChangesAreKept /\ Bitmap!MarksAreTold

(* What was sealed and compressed opens to what it was, or not at all,     *)
(* whatever was altered and whichever key is tried, but for what the       *)
(* factory's decrypt() empties.                                            *)
OpenedIsOriginal == Engine!OpenedIsOriginal

(* A write goes to an extent that is online, those in turn are spread      *)
(* evenly, and the capacity is what was declared and added.                *)
WritesArePlaced == Scale!WritesArePlaced

(* A verification that no other overlapped passes exactly if its worker    *)
(* made every check and was not cancelled before its end.                  *)
VerdictIsEarned == Verification!VerdictIsEarned

(* A scan that nothing fell into ends at 100 percent exactly if it saw     *)
(* every file, and only a restart or a race loses a file in quarantine.    *)
ScansAreTold == Scanner!ScansAreTold
=============================================================================
