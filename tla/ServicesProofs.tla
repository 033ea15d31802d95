---------------------------- MODULE ServicesProofs ---------------------------
(***************************************************************************)
(* Proofs about the services of MCServices, for every value of their       *)
(* constants.  Each part takes one component: its inductive invariant, the *)
(* steps that keep it, and the theorems about all behaviours.              *)
(***************************************************************************)
EXTENDS MCServices, Sequences, FiniteSets, FiniteSetTheorems, TLAPS

(* A step is one of the active component; it leaves the others alone.      *)
LEMMA OneMoves ==
  ASSUME [Next]_vars
  PROVE  \/ UNCHANGED vars
         \/ \E c \in Components :
              /\ OthersKeep(c)
              /\ c = "vm" => Vm!Next
              /\ c = "engine" => Engine!Next
              /\ c = "scale" => Scale!Next
              /\ c = "buffer" => Buffer!Next
              /\ c = "dedup" => Dedup!Next
              /\ c = "scanner" => Scanner!Next
              /\ c = "agent" => Agent!Next
              /\ c = "oracle" => Oracle!Next
              /\ c = "verification" => Verification!Next
              /\ c = "restore" => Restore!Next
BY DEF Next, Components, CoreMain, CoreHeartbeat, CoreMonitor, CoreConnect,
       CoreSpeak, CoreSignal, AgentStep, ChainStep, BufferStep, DedupStep,
       VmStep, ChangedStep, EngineStep, ScaleStep, VerificationStep,
       ScannerStep, OracleStep, BitmapStep, RestoreStep

-----------------------------------------------------------------------------
(* VM replication.                                                         *)

LEMMA VmMoves == [Next]_vars => Vm!Next \/ UNCHANGED vmVars
BY OneMoves DEF OthersKeep, vars

(* A thread that was not begun has not been asked anything.  A request in  *)
(* time was made after the thread began, and where it still looks for it.  *)
VmShape ==
  \A r \in Replications :
    /\ worker[r] = "none" => asked[r] = "nothing"
    /\ Vm!InTime(r) => worker[r] \notin {"none", "begin"}
    /\ Vm!InTime(r) /\ asked[r] = "stop" => worker[r] # "test paused"

VmInv ==
  /\ Vm!TypeOK
  /\ asked \in [Replications -> {"nothing", "stop", "pause", "resume", "failover"}]
  /\ askedAt \in [Replications -> Vm!Places]
  /\ VmShape /\ RequestIsKept

LEMMA VmInitHolds == Init => VmInv
<1> SUFFICES ASSUME Init
             PROVE  VmInv
  OBVIOUS
<1>1. Vm!Init
  BY DEF Init
<1>2. askedAt \in [Replications -> Vm!Places]
  BY <1>1 DEF Vm!Init, Vm!Places
<1> QED BY <1>1, <1>2 DEF Vm!Init, VmInv, VmShape, Vm!TypeOK, Vm!Statuses,
           Vm!Places, Vm!InTime, RequestIsKept, Vm!RequestIsKept

(* A request is written and remembered as in time or too late, by where    *)
(* the thread is.                                                          *)
LEMMA VmRequestStep ==
  ASSUME VmInv, NEW r \in Replications,
         NEW what \in {"stop", "pause", "resume", "failover"}, NEW s,
         s = (CASE what = "stop" -> "FAILED" [] what = "pause" -> "PAUSED"
                [] what = "resume" -> "SYNCING"
                [] what = "failover" -> "FAILOVER_DONE"),
         Vm!Request(r, what, s)
  PROVE  VmInv'
<1>1. /\ program = "runs" /\ program' = program /\ worker' = worker
      /\ worker[r] # "none"
      /\ status' = [status EXCEPT ![r] = s]
      /\ asked' = [asked EXCEPT ![r] = what]
      /\ askedAt' = [askedAt EXCEPT ![r] = worker[r]]
  BY DEF Vm!Request, Vm!Write
<1>2. askedAt' \in [Replications -> Vm!Places]
  BY <1>1 DEF VmInv, Vm!TypeOK
<1>3. /\ askedAt'[r] = worker[r]
      /\ \A q \in Replications : q # r => askedAt'[q] = askedAt[q]
  BY <1>1 DEF VmInv
<1>4. /\ asked'[r] = what /\ status'[r] = s
      /\ \A q \in Replications : q # r =>
           asked'[q] = asked[q] /\ status'[q] = status[q]
      /\ Vm!TypeOK'
      /\ asked' \in [Replications ->
           {"nothing", "stop", "pause", "resume", "failover"}]
  BY <1>1 DEF VmInv, Vm!TypeOK, Vm!Statuses
<1>5. \A q \in Replications : q # r => (Vm!InTime(q)' <=> Vm!InTime(q))
  BY <1>3, <1>4, Zenon DEF Vm!InTime
<1>6. Vm!InTime(r)' => /\ worker[r] \notin {"begin", "round"}
                       /\ what = "stop" => worker[r] # "test paused"
  BY <1>3, <1>4, Zenon DEF Vm!InTime
<1>7. VmShape'
  BY <1>1, <1>4, <1>5, <1>6 DEF VmInv, VmShape
<1>8. RequestIsKept'
  <2>1. Vm!InTime(r)' => what \in {"stop", "pause"}
    BY <1>4 DEF Vm!InTime
  <2>2. ASSUME NEW q \in Replications, Vm!InTime(q)'
        PROVE  /\ status'[q] = IF asked'[q] = "stop" THEN "FAILED" ELSE "PAUSED"
               /\ worker'[q] # "round"
    <3>1. CASE q = r
      BY <1>1, <1>4, <1>6, <2>1, <2>2, <3>1
    <3>2. CASE q # r
      BY <1>1, <1>4, <1>5, <2>2, <3>2 DEF VmInv, RequestIsKept, Vm!RequestIsKept
    <3> QED BY <3>1, <3>2
  <2>3. ASSUME NEW q \in Replications, worker'[q] = "ended"
        PROVE  \/ status'[q] \in {"FAILED", "PAUSED"}
               \/ asked'[q] \in {"resume", "failover"} /\ askedAt'[q] = "ended"
    <3>1. CASE q = r
      BY <1>1, <1>3, <1>4, <2>3, <3>1
    <3>2. CASE q # r
      BY <1>1, <1>3, <1>4, <2>3, <3>2 DEF VmInv, RequestIsKept, Vm!RequestIsKept
    <3> QED BY <3>1, <3>2
  <2> QED BY <2>2, <2>3, Zenon DEF RequestIsKept, Vm!RequestIsKept
<1> QED BY <1>2, <1>4, <1>7, <1>8 DEF VmInv

LEMMA VmStepHolds == VmInv /\ [Next]_vars => VmInv'
<1> SUFFICES ASSUME VmInv, [Next]_vars
             PROVE  VmInv'
  OBVIOUS
<1> USE DEF VmInv
<1>1. CASE UNCHANGED vmVars
  <2>1. /\ program' = program /\ status' = status /\ worker' = worker
        /\ asked' = asked /\ askedAt' = askedAt
    BY <1>1 DEF vmVars
  <2>2. askedAt' \in [Replications -> Vm!Places]
    BY <2>1, Zenon
  <2> QED BY <2>1, <2>2 DEF Vm!TypeOK, VmShape, Vm!InTime, RequestIsKept,
             Vm!RequestIsKept
<1>2. ASSUME NEW r \in Replications, Vm!Start(r)
      PROVE  VmInv'
  <2>1. /\ asked' = asked /\ askedAt' = askedAt
        /\ status' = [status EXCEPT ![r] = "INIT_SYNC"]
        /\ IF worker[r] = "none"
           THEN worker' = [worker EXCEPT ![r] = "begin"] /\ program' = program
           ELSE program' = "terminated" /\ worker' = worker
    BY <1>2 DEF Vm!Start, Vm!Write, Vm!Goto
  <2>2. askedAt' \in [Replications -> Vm!Places]
    BY <2>1, Zenon
  <2>3. Vm!TypeOK'
    BY <2>1 DEF Vm!TypeOK, Vm!Statuses, Vm!Places
  <2>4. \A q \in Replications : Vm!InTime(q)' <=> Vm!InTime(q)
    BY <2>1, Zenon DEF Vm!InTime
  <2>5. worker[r] = "none" => ~Vm!InTime(r)
    BY DEF VmShape
  <2> QED BY <2>1, <2>2, <2>3, <2>4, <2>5
          DEF Vm!TypeOK, VmShape, RequestIsKept, Vm!RequestIsKept
<1>3. ASSUME NEW r \in Replications,
             Vm!Stop(r) \/ Vm!Pause(r) \/ Vm!Resume(r) \/ Vm!Failover(r)
      PROVE  VmInv'
  BY <1>3, VmRequestStep DEF Vm!Stop, Vm!Pause, Vm!Resume, Vm!Failover
<1>4. ASSUME NEW r \in Replications, Vm!Worker(r)
      PROVE  VmInv'
  <2>1. asked' = asked /\ askedAt' = askedAt /\ program' = program
    BY <1>4 DEF Vm!Worker, Vm!Begin, Vm!InitialSync, Vm!TestFailed,
           Vm!TestPaused, Vm!Round, Vm!IncrementalSync, Vm!Sleep, Vm!Keep
  <2>2. askedAt' \in [Replications -> Vm!Places]
    BY <2>1, Zenon
  <2>3. \A q \in Replications : Vm!InTime(q)' <=> Vm!InTime(q)
    BY <2>1, Zenon DEF Vm!InTime
  <2>4. program = "runs"
    BY <1>4 DEF Vm!Worker
  <2> DEFINE next == {"initial", "test", "test paused", "round", "sync", "sleep",
                      "ended"}
  <2>5. \E place \in next :
          /\ worker[r] # "none" /\ worker' = [worker EXCEPT ![r] = place]
          /\ place = "initial" => worker[r] = "begin"
          /\ place = "test paused" => worker[r] = "test" /\ status[r] # "FAILED"
          /\ place = "round" => worker[r] = "test paused" /\ status[r] # "PAUSED"
          /\ place = "ended" => status[r] \in {"FAILED", "PAUSED"}
          /\ \/ status' = status
             \/ /\ status' = [status EXCEPT ![r] = "INIT_SYNC"]
                /\ worker[r] = "begin" /\ place = "initial"
             \/ /\ status' = [status EXCEPT ![r] = "SYNCING"]
                /\ worker[r] = "round" /\ place = "sync"
    BY <1>4 DEF Vm!Worker, Vm!Begin, Vm!InitialSync, Vm!TestFailed,
           Vm!TestPaused, Vm!Round, Vm!IncrementalSync, Vm!Sleep, Vm!Goto,
           Vm!Write
  <2>6. Vm!TypeOK'
    BY ZenonT(30), <2>1, <2>5 DEF Vm!TypeOK, Vm!Statuses, Vm!Places
  <2>7. Vm!InTime(r) => asked[r] \in {"stop", "pause"}
    BY DEF Vm!InTime
  <2>8. VmShape'
    BY <2>1, <2>3, <2>4, <2>5, <2>7
       DEF Vm!TypeOK, VmShape, RequestIsKept, Vm!RequestIsKept
  <2>9. RequestIsKept'
    BY ZenonT(30), <2>1, <2>3, <2>4, <2>5, <2>7
       DEF Vm!TypeOK, VmShape, RequestIsKept, Vm!RequestIsKept
  <2> QED BY <2>1, <2>2, <2>6, <2>8, <2>9
<1>5. CASE Vm!Destroy
  <2>1. /\ program' \in {"over", "terminated"} /\ status' = status
        /\ worker' = worker /\ asked' = asked /\ askedAt' = askedAt
    BY <1>5 DEF Vm!Destroy
  <2>2. askedAt' \in [Replications -> Vm!Places]
    BY <2>1, Zenon
  <2> QED BY <2>1, <2>2 DEF Vm!TypeOK, VmShape, Vm!InTime, RequestIsKept,
             Vm!RequestIsKept
<1> QED BY <1>1, <1>2, <1>3, <1>4, <1>5, VmMoves DEF Vm!Next

(* A stop or a pause of a VM replication is lost only where it comes       *)
(* before the thread's first line, after it looked for it, or between its  *)
(* two looks; and an ended one counts as going on, or as failed over, only *)
(* by a request made after its end: RequestIsKept, for every number of     *)
(* replications.                                                           *)
THEOREM RequestIsKeptHolds == Spec => []RequestIsKept
<1>1. VmInv => RequestIsKept
  BY DEF VmInv
<1> QED BY <1>1, VmInitHolds, VmStepHolds, PTL DEF Spec

-----------------------------------------------------------------------------
(* The engines that seal and compress.                                     *)

LEMMA EngineMoves == [Next]_vars => Engine!Next \/ UNCHANGED engineVars
BY OneMoves DEF OthersKeep, vars

(* What is under the layers is what was given at all times, and not only   *)
(* once they are off, or the factory's engine emptied it.                  *)
EngineInv == content = original \/ (emptied /\ content = "empty")

LEMMA EngineStepHolds == EngineInv /\ [Next]_vars => EngineInv'
<1> SUFFICES ASSUME EngineInv, [Next]_vars
             PROVE  EngineInv'
  OBVIOUS
<1> USE DEF EngineInv
<1>1. CASE UNCHANGED <<original, content, emptied>>
  BY <1>1
<1>2. CASE Engine!Decompress
  <2>1. content' = content
    BY <1>2 DEF Engine!Decompress, Engine!Inflated, Engine!Uncover
  <2> QED BY <1>2, <2>1, <1>1 DEF Engine!Decompress
<1>3. ASSUME NEW e \in Engine!CryptoEngines, Engine!Decrypt(e)
      PROVE  EngineInv'
  <2>1. original' = original
    BY <1>3 DEF Engine!Decrypt
  <2>2. emptied \/ e = "factory" => emptied'
    BY <1>3, Zenon DEF Engine!Decrypt
  <2>3. content' = content \/ (e = "factory" /\ content' = "empty")
    BY <1>3 DEF Engine!Decrypt, Engine!PlainLength, Engine!Authenticated,
                Engine!Uncover, Engine!CryptoEngines
  <2> QED BY <2>1, <2>2, <2>3
<1>4. CASE \/ \E tight \in BOOLEAN : Engine!Compress(tight)
           \/ \E k \in Keys : Engine!GenerateKey(k)
           \/ Engine!Encrypt
           \/ \E e \in Engine!CryptoEngines :
                Engine!WrapKey(e) \/ Engine!UnwrapKey(e)
           \/ Engine!Alter
  <2>1. UNCHANGED <<original, content, emptied>>
    BY <1>4 DEF Engine!Compress, Engine!GenerateKey, Engine!Encrypt,
                Engine!WrapKey, Engine!UnwrapKey, Engine!Alter
  <2> QED BY <1>1, <2>1
<1>5. UNCHANGED engineVars => UNCHANGED <<original, content, emptied>>
  BY DEF engineVars
<1> QED BY <1>1, <1>2, <1>3, <1>4, <1>5, EngineMoves DEF Engine!Next

(* Whatever is sealed, compressed and altered, by whichever engine and     *)
(* whichever keys are tried, bytes that are opened are those that were     *)
(* given: the engines throw before they give anything else, and the        *)
(* factory's, which empties what it opens, gives no garbage either.        *)
THEOREM OpenedIsOriginalHolds == Spec => []OpenedIsOriginal
<1>1. Init => EngineInv
  BY DEF Init, Engine!Init, EngineInv
<1>2. EngineInv => OpenedIsOriginal
  BY DEF EngineInv, OpenedIsOriginal, Engine!OpenedIsOriginal
<1> QED BY <1>1, <1>2, EngineStepHolds, PTL DEF Spec

-----------------------------------------------------------------------------
(* The table of dirty blocks.                                              *)

LEMMA BufferMoves == [Next]_vars => Buffer!Next \/ UNCHANGED bufferVars
BY OneMoves DEF OthersKeep, vars

Rows == [job : BackupJobs, at : Int, marked : BOOLEAN]

BufferType ==
  /\ ids \in Nat /\ second \in Int
  /\ table \in [0..(ids - 1) -> Rows]
  /\ DOMAIN given = 0..(ids - 1)
  /\ backup = [job |-> backup.job, held |-> backup.held]

(* A text is that of the time or garbled; what was listed is in the table; *)
(* a backup at work holds blocks of its job, and every block of its job    *)
(* was given to one or is late.                                            *)
BufferShape ==
  /\ \A i \in DOMAIN table : table[i].at \in {given[i], Buffer!Garbled}
  /\ listed.due \subseteq DOMAIN table
  /\ backup.held \subseteq Buffer!RowsOf(backup.job)
  /\ backup # Buffer!NoBackup =>
       Buffer!RowsOf(backup.job) \subseteq read \cup late

BufferInv == BufferType /\ BufferShape /\ MarkedWasRead

LEMMA BufferInitHolds == Init => BufferInv
<1> SUFFICES ASSUME Buffer!Init
             PROVE  BufferInv
  BY DEF Init
<1>1. BufferType
  <2>1. table \in [0..(ids - 1) -> Rows] /\ DOMAIN given = 0..(ids - 1)
    BY DEF Buffer!Init
  <2> QED BY <2>1 DEF Buffer!Init, BufferType, Buffer!NoBackup
<1> QED BY <1>1 DEF Buffer!Init, BufferInv, BufferShape, MarkedWasRead,
           Buffer!MarkedWasRead, Buffer!NoBackup, Buffer!NoList, Buffer!RowsOf

(* An insert adds one row that is not marked, and is late if a backup of   *)
(* its job is at work.                                                     *)
LEMMA BufferInsert ==
  ASSUME BufferInv, NEW job \in BackupJobs, NEW at \in {second, Buffer!Garbled},
         Buffer!Insert(job, at), UNCHANGED <<second, backup, read, listed>>
  PROVE  BufferInv'
<1> USE DEF BufferInv
<1> DEFINE new == [job |-> job, at |-> at, marked |-> FALSE]
<1>1. /\ DOMAIN table = 0..(ids - 1) /\ ids' = ids + 1
      /\ 0..(ids' - 1) = (0..(ids - 1)) \cup {ids} /\ ids \notin 0..(ids - 1)
      /\ ids' \in Nat
  BY DEF Buffer!Insert, BufferType
<1>2. new \in Rows /\ new.job = job /\ new.at = at /\ ~new.marked
  BY DEF Rows, BufferType, Buffer!Garbled
<1>3. /\ DOMAIN table' = (0..(ids - 1)) \cup {ids}
      /\ table'[ids] = new
      /\ \A i \in 0..(ids - 1) : table'[i] = table[i]
      /\ table' \in [(0..(ids - 1)) \cup {ids} -> Rows]
  BY <1>1, <1>2 DEF Buffer!Insert, BufferType
<1>4. /\ DOMAIN given' = (0..(ids - 1)) \cup {ids}
      /\ given'[ids] = second
      /\ \A i \in 0..(ids - 1) : given'[i] = given[i]
  BY <1>1 DEF Buffer!Insert, BufferType
<1>5. late \subseteq late' /\ (backup.job = job => ids \in late')
  BY DEF Buffer!Insert
<1>6. BufferType'
  BY <1>1, <1>3, <1>4 DEF BufferType
<1> HIDE DEF new
<1>7. Buffer!RowsOf(backup.job)' \subseteq Buffer!RowsOf(backup.job) \cup {ids}
  BY <1>1, <1>3 DEF Buffer!RowsOf
<1>8. ids \in Buffer!RowsOf(backup.job)' => ids \in late'
  BY <1>2, <1>3, <1>5 DEF Buffer!RowsOf
<1>9. Buffer!RowsOf(backup.job) \subseteq Buffer!RowsOf(backup.job)'
  BY <1>1, <1>3 DEF Buffer!RowsOf
<1>10. BufferShape'
  BY <1>1, <1>2, <1>3, <1>4, <1>5, <1>7, <1>8, <1>9 DEF BufferShape
<1>11. MarkedWasRead'
  BY <1>1, <1>2, <1>3, <1>5 DEF MarkedWasRead, Buffer!MarkedWasRead, BufferShape
<1> QED BY <1>6, <1>10, <1>11

(* What an update of the marks leaves is the table, with no more marked    *)
(* than blocks that were read or late.                                     *)
LEMMA BufferMark ==
  ASSUME BufferInv,
         table' \in [0..(ids - 1) -> Rows],
         \A i \in DOMAIN table :
           /\ table'[i].job = table[i].job /\ table'[i].at = table[i].at
           /\ table'[i].marked => table[i].marked \/ i \in read \cup late,
         backup # Buffer!NoBackup,
         \/ backup' = Buffer!NoBackup
         \/ \E rest \in SUBSET backup.held :
              backup' = [job |-> backup.job, held |-> rest],
         UNCHANGED <<ids, second, given, read, late, listed>>
  PROVE  BufferInv'
<1> USE DEF BufferInv
<1>1. /\ backup' = [job |-> backup'.job, held |-> backup'.held]
      /\ backup' # Buffer!NoBackup =>
           backup'.job = backup.job /\ backup'.held \subseteq backup.held
      /\ backup' = Buffer!NoBackup => backup'.held = {}
  BY DEF Buffer!NoBackup
<1>2. BufferType' /\ DOMAIN table' = DOMAIN table
  BY <1>1 DEF BufferType
<1>3. Buffer!RowsOf(backup.job)' = {i \in DOMAIN table : table[i].job = backup'.job}
  BY <1>2 DEF Buffer!RowsOf
<1>4. BufferShape'
  <2>1. \A i \in DOMAIN table' : table'[i].at \in {given'[i], Buffer!Garbled}
    BY <1>2 DEF BufferShape
  <2>2. backup'.held \subseteq Buffer!RowsOf(backup.job)'
    BY <1>1, <1>3 DEF BufferShape, Buffer!RowsOf
  <2>3. backup' # Buffer!NoBackup =>
          Buffer!RowsOf(backup.job)' \subseteq read' \cup late'
    BY <1>1, <1>3 DEF BufferShape, Buffer!RowsOf
  <2> QED BY <1>2, <2>1, <2>2, <2>3 DEF BufferShape
<1>5. MarkedWasRead'
  BY <1>2 DEF MarkedWasRead, Buffer!MarkedWasRead, BufferShape
<1> QED BY <1>2, <1>4, <1>5

LEMMA BufferStepHolds == BufferInv /\ [Next]_vars => BufferInv'
<1> SUFFICES ASSUME BufferInv, [Next]_vars
             PROVE  BufferInv'
  OBVIOUS
<1> USE DEF BufferInv
<1>1. CASE UNCHANGED bufferVars
  BY <1>1 DEF bufferVars, BufferType, BufferShape, Buffer!RowsOf,
     MarkedWasRead, Buffer!MarkedWasRead
<1>2. ASSUME NEW job \in BackupJobs,
             Buffer!RecordDirtyBlock(job) \/ Buffer!RecordDirtyBlocksBatch(job)
      PROVE  BufferInv'
  <2>1. \E at \in {second, Buffer!Garbled} :
          Buffer!Insert(job, at) /\ UNCHANGED <<second, backup, read, listed>>
    BY <1>2 DEF Buffer!RecordDirtyBlock, Buffer!RecordDirtyBlocksBatch
  <2> QED BY <2>1, BufferInsert
<1>3. ASSUME NEW job \in BackupJobs,
             Buffer!GetUnbackedBlocks(job) \/ Buffer!GetDirtyBlocks(job)
      PROVE  BufferInv'
  <2>1. /\ backup' = [job |-> job, held |-> backup'.held]
        /\ UNCHANGED <<table, ids, second, given, late, listed>>
        /\ read \subseteq read'
        /\ backup'.held \subseteq Buffer!RowsOf(job)
        /\ \A i \in Buffer!RowsOf(job) : table[i].marked \/ i \in read'
    BY <1>3 DEF Buffer!GetUnbackedBlocks, Buffer!GetDirtyBlocks
  <2>2. backup'.job = job
    BY <2>1
  <2>3. BufferType'
    BY <2>1, <2>2 DEF BufferType
  <2>4. Buffer!RowsOf(backup.job)' = Buffer!RowsOf(job)
    BY <2>1, <2>2 DEF Buffer!RowsOf
  <2>5. Buffer!RowsOf(job) \subseteq read' \cup late'
    BY <2>1 DEF Buffer!RowsOf, MarkedWasRead, Buffer!MarkedWasRead
  <2>6. BufferShape'
    BY <2>1, <2>4, <2>5 DEF BufferShape
  <2> QED BY <2>1, <2>3, <2>6 DEF MarkedWasRead, Buffer!MarkedWasRead
<1>4. CASE Buffer!MarkBackedUp
  <2>1. /\ backup # Buffer!NoBackup /\ backup' = Buffer!NoBackup
        /\ UNCHANGED <<ids, second, given, read, late, listed>>
        /\ Buffer!MarkRows(backup.job)
    BY <1>4 DEF Buffer!MarkBackedUp
  <2>2. /\ table' \in [0..(ids - 1) -> Rows]
        /\ \A i \in DOMAIN table :
             /\ table'[i].job = table[i].job /\ table'[i].at = table[i].at
             /\ table'[i].marked => table[i].marked \/ table[i].job = backup.job
    BY <2>1 DEF Buffer!MarkRows, BufferType, Rows
  <2>3. \A i \in DOMAIN table : table[i].job = backup.job => i \in read \cup late
    BY <2>1 DEF BufferShape, Buffer!RowsOf
  <2>4. \A i \in DOMAIN table :
          table'[i].marked => table[i].marked \/ i \in read \cup late
    BY <2>2, <2>3
  <2> QED BY <2>1, <2>2, <2>4, BufferMark
<1>5. CASE Buffer!MarkBlockBackedUp
  <2>1. PICK i \in backup.held :
          /\ table' = [table EXCEPT ![i].marked = TRUE]
          /\ backup' = [backup EXCEPT !.held = @ \ {i}]
    BY <1>5 DEF Buffer!MarkBlockBackedUp
  <2>2. UNCHANGED <<ids, second, given, read, late, listed>>
    BY <1>5 DEF Buffer!MarkBlockBackedUp
  <2>3. backup # Buffer!NoBackup
    BY <2>1 DEF Buffer!NoBackup
  <2>4. i \in DOMAIN table /\ i \in read \cup late
    BY <2>1, <2>3 DEF BufferShape, Buffer!RowsOf
  <2>5. backup' = [job |-> backup.job, held |-> backup.held \ {i}]
    BY <2>1 DEF BufferType
  <2>6. table' \in [0..(ids - 1) -> Rows]
    BY <2>1, <2>4 DEF BufferType, Rows
  <2>7. \A j \in DOMAIN table :
          /\ table'[j].job = table[j].job /\ table'[j].at = table[j].at
          /\ j # i => table'[j] = table[j]
    BY <2>1, <2>4 DEF BufferType, Rows
  <2> QED BY <2>2, <2>3, <2>4, <2>5, <2>6, <2>7, BufferMark
<1>6. CASE Buffer!BackupEnds
  BY <1>6, BufferMark DEF Buffer!BackupEnds, BufferType
<1>7. ASSUME NEW bound \in 0..MaxSeconds, Buffer!GetDirtyBlocksSince(bound)
      PROVE  BufferInv'
  <2>1. /\ UNCHANGED <<table, ids, second, backup, given, read, late>>
        /\ listed'.got = {i \in DOMAIN table : table[i].at >= bound}
        /\ listed'.due = {i \in DOMAIN table : given[i] >= bound}
    BY <1>7 DEF Buffer!GetDirtyBlocksSince
  <2>2. BufferType'
    BY <2>1 DEF BufferType
  <2>3. BufferShape'
    BY <2>1 DEF BufferShape, Buffer!RowsOf
  <2>4. \A i \in listed'.due \ listed'.got : table[i].at = Buffer!Garbled
    BY <2>1 DEF BufferShape
  <2> QED BY <2>1, <2>2, <2>3, <2>4 DEF MarkedWasRead, Buffer!MarkedWasRead
<1>8. CASE Buffer!CleanupOldRecords
  <2>1. UNCHANGED <<table, ids, second, backup, given, read, late, listed>>
    BY <1>8 DEF Buffer!CleanupOldRecords, Buffer!bufferVars
  <2> QED BY <2>1, <1>1 DEF bufferVars
<1>9. CASE Buffer!Tick
  <2>1. UNCHANGED <<table, ids, backup, given, read, late, listed>>
        /\ second' = second + 1
    BY <1>9 DEF Buffer!Tick
  <2> QED BY <2>1 DEF BufferType, BufferShape, Buffer!RowsOf, MarkedWasRead,
             Buffer!MarkedWasRead
<1> QED BY <1>1, <1>2, <1>3, <1>4, <1>5, <1>6, <1>7, <1>8, <1>9, BufferMoves
       DEF Buffer!Next

(* However many jobs record how many blocks, a block is marked only if a   *)
(* backup of its job was given it or it came while one was at work, and a  *)
(* listing leaves out only what was stored with a garbled time.            *)
THEOREM MarkedWasReadHolds == Spec => []MarkedWasRead
<1>1. BufferInv => MarkedWasRead
  BY DEF BufferInv
<1> QED BY <1>1, BufferInitHolds, BufferStepHolds, PTL DEF Spec

-----------------------------------------------------------------------------
(* The jobs of the agents.                                                 *)

LEMMA AgentMoves == [Next]_vars => Agent!Next \/ UNCHANGED agentVars
BY OneMoves DEF OthersKeep, vars

(* Of the agents that run a command for a job, that of PostgreSQL tells a  *)
(* failure whatever it did, and that of Linux is told by tar.              *)
LEMMA JobsAreTold ==
  ASSUME NEW a \in DOMAIN Agent!Agents, a # "linux_fs",
         Agent!Runs(Agent!Agents[a]),
         NEW outcome \in Agent!Outcomes(Agent!Agents[a])
  PROVE  ~outcome[2]
<1>1. a \in {"generic", "esxi", "hyperv", "mssql", "postgresql", "oracle",
             "proxmox", "saphana", "kubernetes", "linux_fs", "windows_fs",
             "ndmp", "exchange"}
  BY DEF Agent!Agents
<1>2. /\ Agent!Agents["generic"] = Agent!GenericAgent
      /\ Agent!Agents["esxi"] = Agent!EsxiAgent
      /\ Agent!Agents["hyperv"] = Agent!HypervAgent
      /\ Agent!Agents["mssql"] = Agent!MssqlAgent
      /\ Agent!Agents["postgresql"] = Agent!PostgresqlAgent
      /\ Agent!Agents["oracle"] = Agent!OracleAgent
      /\ Agent!Agents["proxmox"] = Agent!ProxmoxAgent
      /\ Agent!Agents["saphana"] = Agent!SapHanaAgent
      /\ Agent!Agents["kubernetes"] = Agent!KubernetesAgent
      /\ Agent!Agents["linux_fs"] = Agent!LinuxFsAgent
      /\ Agent!Agents["windows_fs"] = Agent!WindowsFsAgent
      /\ Agent!Agents["ndmp"] = Agent!NdmpAgent
      /\ Agent!Agents["exchange"] = Agent!ExchangeAgent
  BY DEF Agent!Agents
<1>3. ~Agent!Runs(Agent!Claim) /\ ~Agent!Runs(Agent!Scans)
      /\ ~Agent!Runs(Agent!Unsaid)
  BY DEF Agent!Runs, Agent!Claim, Agent!Tool, Agent!Unheard, Agent!Scans,
         Agent!Unsaid
<1>4. Agent!OracleAgent = Agent!Unsaid /\ Agent!PostgresqlAgent = Agent!Unheard
  BY <1>3 DEF Agent!OracleAgent, Agent!OracleAdapter, Agent!PostgresqlAgent,
              Agent!PostgresAdapter, Agent!NotFilledIn, Agent!Runs
<1>5. Agent!Agents[a] \in {Agent!Claim, Agent!Scans, Agent!Unsaid, Agent!Unheard}
  BY <1>1, <1>2, <1>4
     DEF Agent!EsxiAgent, Agent!ExchangeAgent, Agent!HypervAgent,
         Agent!KubernetesAgent, Agent!NdmpAgent, Agent!ProxmoxAgent,
         Agent!SapHanaAgent, Agent!WindowsFsAgent, Agent!MssqlAgent,
         Agent!MsSqlAdapter, Agent!GenericAgent
<1>6. Agent!Agents[a] = Agent!Unheard
  BY <1>3, <1>5
<1>7. Agent!Unheard \notin {Agent!Tool, Agent!Scans, Agent!Claim, Agent!Unsaid}
  BY DEF Agent!Unheard, Agent!Tool, Agent!Scans, Agent!Claim, Agent!Unsaid
<1>8. Agent!Outcomes(Agent!Unheard) = {<<TRUE, FALSE>>, <<FALSE, FALSE>>}
  BY <1>7 DEF Agent!Outcomes
<1>9. outcome = <<TRUE, FALSE>> \/ outcome = <<FALSE, FALSE>>
  BY <1>6, <1>8, Zenon
<1>10. \A x, y : <<x, y>>[2] = y
  OBVIOUS
<1> QED BY <1>9, <1>10, Zenon

(* Until a job of tar writes the snapshot file it knows nothing.           *)
AgentInv ==
  /\ agent \in DOMAIN Agent!Agents
  /\ edited \subseteq Files
  /\ ~snar => known = {}
  /\ Agent!SuccessHasCopy

LEMMA AgentInitHolds == Init => AgentInv
<1> SUFFICES ASSUME Agent!Init
             PROVE  AgentInv
  BY DEF Init
<1>1. ~told
  BY Zenon DEF Agent!Init
<1>2. Agent!SuccessHasCopy
  BY <1>1, Zenon DEF Agent!SuccessHasCopy
<1> QED BY <1>2 DEF Agent!Init, AgentInv

(* A job of tar that is told a success was the first to use the snapshot   *)
(* file, and then archived all files, or found it there.                   *)
LEMMA ExecuteJobHolds == AgentInv /\ Agent!ExecuteJob => AgentInv'
<1> SUFFICES ASSUME AgentInv, Agent!ExecuteJob
             PROVE  AgentInv'
  OBVIOUS
<1>1. earlier' = snar /\ edited' = {} /\ agent' = agent
  BY DEF Agent!ExecuteJob
<1>2. CASE agent = "linux_fs"
  <2>1. PICK outcome \in Agent!Outcomes(Agent!Agents[agent]) :
          Agent!BackupTarIncremental(outcome[1])
    BY <1>2 DEF Agent!ExecuteJob
  <2>2. told' = outcome[1] /\ (outcome[1] => archive' = Files \ known)
    BY <2>1, Zenon DEF Agent!BackupTarIncremental
  <2>3. told' => archive' = Files \ known
    BY <2>2, Zenon
  <2>4. PICK saves \in {outcome[1], TRUE} :
          /\ known' = IF saves THEN Files ELSE known
          /\ snar' = (snar \/ saves)
    BY <2>1, Zenon DEF Agent!BackupTarIncremental
  <2>5. ~snar' => ~snar /\ ~saves
    BY <2>4, Zenon
  <2>6. ~snar' => known' = {}
    BY <2>4, <2>5 DEF AgentInv
  <2>7. told' /\ ~earlier' => archive' \cup edited' = Files
    <3>1. ASSUME told', ~earlier'
          PROVE  ~snar
      BY <3>1, <1>1, Zenon
    <3>2. ~snar => known = {}
      BY DEF AgentInv
    <3>3. ASSUME told', ~earlier'
          PROVE  archive' = Files \ {}
      BY <3>1, <3>2, <3>3, <2>3, Zenon
    <3> QED BY <3>3, <1>1
  <2>8. Agent!SuccessHasCopy'
    BY <2>7, Zenon DEF Agent!SuccessHasCopy
  <2> QED BY <1>1, <2>6, <2>8 DEF AgentInv
<1>3. CASE agent # "linux_fs"
  <2>1. PICK outcome \in Agent!Outcomes(Agent!Agents[agent]) :
          told' = outcome[2] /\ UNCHANGED <<snar, known, archive>>
    BY <1>3 DEF Agent!ExecuteJob
  <2>2. Agent!Runs(Agent!Agents[agent]) => ~outcome[2]
    BY <1>3, JobsAreTold DEF AgentInv
  <2>3. Agent!Runs(Agent!Agents[agent']) => ~told'
    BY <1>1, <2>1, <2>2, Zenon
  <2>4. ~snar' => known' = {}
    BY <2>1, Zenon DEF AgentInv
  <2>5. Agent!SuccessHasCopy'
    BY <2>3, Zenon DEF Agent!SuccessHasCopy
  <2> QED BY <1>1, <2>4, <2>5 DEF AgentInv
<1> QED BY <1>2, <1>3

LEMMA AgentStepHolds == AgentInv /\ [Next]_vars => AgentInv'
<1> SUFFICES ASSUME AgentInv, [Next]_vars
             PROVE  AgentInv'
  OBVIOUS
<1>1. CASE UNCHANGED agentVars
  <2>1. /\ agent' = agent /\ snar' = snar /\ known' = known
        /\ archive' = archive /\ told' = told /\ earlier' = earlier
        /\ edited' = edited
    BY <1>1 DEF agentVars
  <2> QED BY <2>1, Zenon DEF AgentInv, Agent!SuccessHasCopy
<1>2. CASE Agent!ExecuteJob
  BY <1>2, ExecuteJobHolds
<1>3. ASSUME NEW f \in Files, Agent!Change(f)
      PROVE  AgentInv'
  <2>1. /\ known' = known \ {f} /\ archive' = archive \ {f}
        /\ edited' = edited \cup {f}
        /\ UNCHANGED <<agent, snar, told, earlier>>
    BY <1>3 DEF Agent!Change
  <2>2. known = {} => known' = {}
    BY <2>1
  <2>3. archive \cup edited = Files => archive' \cup edited' = Files
    BY <2>1
  <2>4. edited' \subseteq Files
    BY <2>1 DEF AgentInv
  <2> QED BY <2>1, <2>2, <2>3, <2>4, Zenon DEF AgentInv, Agent!SuccessHasCopy
<1> QED BY <1>1, <1>2, <1>3, AgentMoves DEF Agent!Next

(* The calls to rman.                                                      *)
LEMMA OracleMoves == [Next]_vars => Oracle!Next \/ UNCHANGED oracleVars
BY OneMoves DEF OthersKeep, vars

Kinds == {"copies", "changes", "looks", "first", "extra", "asks", "helps"}
Places == {"idle", "start", "work", "read"}

(* What is known of the log by a call that met no other: it is what its    *)
(* rman wrote, or held an error, or none, before one that did not start.   *)
Tells(ran, text) ==
  \/ ran = text
  \/ ran = "nothing" /\ text \in Oracle!Failed
  \/ ran = "stale" /\ text \notin Oracle!Failed

LogTells(ran) == Tells(ran, log)

(* A call that met no other is alone, and the script is its own.           *)
AloneShape ==
  \A c \in Threads : Oracle!Active(c) /\ ~calls[c].crossed =>
    /\ \A d \in Threads \ {c} : ~Oracle!Active(d)
    /\ scripts[calls[c].sec] = c
    /\ calls[c].at = "read" => LogTells(calls[c].ran)

OracleType ==
  /\ log \in Oracle!Texts
  /\ DOMAIN scripts = Oracle!Seconds
  /\ DOMAIN calls = Threads
  /\ \A c \in Threads :
       /\ calls[c] = [at |-> calls[c].at, plan |-> calls[c].plan,
                      sec |-> calls[c].sec, ran |-> calls[c].ran,
                      crossed |-> calls[c].crossed]
       /\ calls[c].at \in Places
       /\ calls[c].plan \in Seq(Kinds)
       /\ Oracle!Active(c) => calls[c].plan # <<>> /\ calls[c].sec \in Oracle!Seconds

(* A result is told truly, and a call goes on only after a full backup     *)
(* that went well.                                                         *)
ResultOf(kind, fine, did, lost) ==
  [kind |-> kind, fine |-> fine, did |-> did, lost |-> lost]

ToldTruly(res, more) ==
  /\ res = ResultOf(res.kind, res.fine, res.did, res.lost)
  /\ ~res.fine => Oracle!NotDone(res.did)
  /\ res.fine /\ Oracle!NotDone(res.did) =>
       res.kind = "changes" /\ res.did # "ora"
  /\ res.lost => res.kind = "first" /\ res.fine
  /\ res.kind = "first" /\ more => res.fine

ResultsAreTrue ==
  /\ DOMAIN results = Threads
  /\ \A c \in Threads : ToldTruly(results[c], calls[c].plan # <<>>)

OracleInv == OracleType /\ AloneShape /\ ResultsAreTrue

LEMMA ResultFields ==
  ASSUME NEW kind, NEW fine, NEW did, NEW lost, NEW res,
         res = ResultOf(kind, fine, did, lost)
  PROVE  /\ res.kind = kind /\ res.fine = fine /\ res.did = did
         /\ res.lost = lost
         /\ res = ResultOf(res.kind, res.fine, res.did, res.lost)
BY DEF ResultOf

LEMMA NoResultIsTrue == \A more : ToldTruly(Oracle!NoResult, more)
<1> DEFINE no == FALSE
<1>1. Oracle!NoResult = ResultOf("looks", no, "nothing", no)
  BY DEF Oracle!NoResult, ResultOf
<1>2. ~no /\ Oracle!NotDone("nothing") /\ "looks" # "first"
  BY DEF Oracle!NotDone
<1> HIDE DEF no
<1>3. /\ Oracle!NoResult.kind = "looks" /\ Oracle!NoResult.fine = no
      /\ Oracle!NoResult.did = "nothing" /\ Oracle!NoResult.lost = no
      /\ Oracle!NoResult = ResultOf(Oracle!NoResult.kind, Oracle!NoResult.fine,
                                    Oracle!NoResult.did, Oracle!NoResult.lost)
  BY <1>1, ResultFields
<1> QED BY <1>2, <1>3, Zenon DEF ToldTruly

LEMMA LessIsTrue ==
  ASSUME NEW res, NEW more, NEW less, ToldTruly(res, more), less => more
  PROVE  ToldTruly(res, less)
BY Zenon DEF ToldTruly

(* A run of rman whose log says what it did is judged truly.               *)
LEMMA JudgedIsTrue ==
  ASSUME NEW res, NEW kind \in Kinds, NEW text \in Oracle!Texts, NEW ran,
         NEW more, ToldTruly(res, TRUE), Tells(ran, text),
         kind = "first" /\ more => Oracle!Fine("first", text)
  PROVE  ToldTruly(Oracle!Judged(res, kind, text, ran), more)
<1> DEFINE judged == Oracle!Judged(res, kind, text, ran)
           fine == Oracle!Fine(kind, text)
           no == FALSE
<1>1. CASE kind \in {"copies", "first", "changes"}
  <2>1. judged = [kind |-> kind, fine |-> fine, did |-> ran, lost |-> no]
    BY <1>1, Zenon DEF Oracle!Judged
  <2>2. ~no
    OBVIOUS
  <2>3. kind = "first" /\ more => fine
    BY Zenon
  <2>4. /\ ~fine => Oracle!NotDone(ran)
        /\ fine /\ Oracle!NotDone(ran) => kind = "changes" /\ ran # "ora"
    <3>1. CASE kind \in {"copies", "first"}
      <4>1. fine <=> text \notin Oracle!Failed
        BY <3>1, Zenon DEF Oracle!Fine
      <4>2. text \in Oracle!Failed <=> Oracle!NotDone(ran)
        BY DEF Tells, Oracle!Failed, Oracle!NotDone, Oracle!Texts
      <4> QED BY <4>1, <4>2, Zenon
    <3>2. CASE kind = "changes"
      <4>1. fine <=> text # "ora"
        BY <3>2, Zenon DEF Oracle!Fine
      <4>2. text # "ora" => ran # "ora"
        BY DEF Tells
      <4>3. text = "ora" => Oracle!NotDone(ran)
        BY DEF Tells, Oracle!Failed, Oracle!NotDone
      <4> QED BY <3>2, <4>1, <4>2, <4>3, Zenon
    <3> QED BY <1>1, <3>1, <3>2
  <2> HIDE DEF judged, fine, no
  <2>5. /\ judged.kind = kind /\ judged.fine = fine /\ judged.did = ran
        /\ judged.lost = no
        /\ judged = ResultOf(judged.kind, judged.fine, judged.did, judged.lost)
    BY <2>1, ResultFields DEF ResultOf
  <2>6. ToldTruly(judged, more)
    BY <2>2, <2>3, <2>4, <2>5, Zenon DEF ToldTruly
  <2> QED BY <2>6 DEF judged
<1>2. CASE kind = "extra" /\ res.kind = "first"
  <2> DEFINE lost == res.lost \/ Oracle!NotDone(ran)
  <2>1. judged = [res EXCEPT !.lost = lost]
    BY <1>2, Zenon DEF Oracle!Judged
  <2>2. res = ResultOf(res.kind, res.fine, res.did, res.lost)
    BY Zenon DEF ToldTruly
  <2> HIDE DEF judged, lost
  <2>3. judged = ResultOf(res.kind, res.fine, res.did, lost)
    BY <2>1, <2>2 DEF ResultOf
  <2>4. /\ judged.kind = res.kind /\ judged.fine = res.fine
        /\ judged.did = res.did
        /\ judged = ResultOf(judged.kind, judged.fine, judged.did, judged.lost)
    BY <2>3, ResultFields
  <2>5. res.fine
    BY <1>2, Zenon DEF ToldTruly
  <2>6. ToldTruly(judged, more)
    BY <1>2, <2>4, <2>5, Zenon DEF ToldTruly
  <2> QED BY <2>6 DEF judged
<1>3. CASE /\ kind \notin {"copies", "first", "changes"}
           /\ ~(kind = "extra" /\ res.kind = "first")
  <2>1. judged = res
    BY <1>3, Zenon DEF Oracle!Judged
  <2>2. ToldTruly(res, more)
    BY LessIsTrue
  <2> QED BY <2>1, <2>2, Zenon
<1> QED BY <1>1, <1>2, <1>3

LEMMA OracleInitHolds == Init => OracleInv
<1> SUFFICES ASSUME Oracle!Init
             PROVE  OracleInv
  BY DEF Init
<1>1. \A c \in Threads : calls[c] = Oracle!NoCall /\ ~Oracle!Active(c)
  BY DEF Oracle!Init, Oracle!NoCall, Oracle!Active
<1>2. <<>> \in Seq(Kinds)
  OBVIOUS
<1>3. OracleType
  BY <1>1, <1>2 DEF OracleType, Oracle!Init, Oracle!NoCall, Oracle!Texts, Places
<1>4. DOMAIN results = Threads /\ \A c \in Threads : results[c] = Oracle!NoResult
  BY DEF Oracle!Init
<1>5. ResultsAreTrue
  BY <1>4, NoResultIsTrue DEF ResultsAreTrue
<1> QED BY <1>1, <1>3, <1>5 DEF OracleInv, AloneShape

CallOf(at, plan, sec, ran, crossed) ==
  [at |-> at, plan |-> plan, sec |-> sec, ran |-> ran, crossed |-> crossed]

LEMMA CallFields ==
  ASSUME NEW at, NEW plan, NEW sec, NEW ran, NEW crossed, NEW call,
         call = CallOf(at, plan, sec, ran, crossed)
  PROVE  /\ call.at = at /\ call.plan = plan /\ call.sec = sec /\ call.ran = ran
         /\ call.crossed = crossed
         /\ call = CallOf(call.at, call.plan, call.sec, call.ran, call.crossed)
BY DEF CallOf

LEMMA CallUpdates ==
  ASSUME NEW at, NEW plan, NEW sec, NEW ran, NEW crossed, NEW new, NEW call,
         call = CallOf(at, plan, sec, ran, crossed)
  PROVE  /\ [call EXCEPT !.ran = new] = CallOf(at, plan, sec, new, crossed)
         /\ [call EXCEPT !.crossed = new] = CallOf(at, plan, sec, ran, new)
BY DEF CallOf

LEMMA PlansAreKinds == Oracle!Plans \subseteq Seq(Kinds) \ {<<>>}
<1>1. /\ <<"copies">> \in Seq(Kinds) \ {<<>>}
      /\ <<"changes">> \in Seq(Kinds) \ {<<>>}
      /\ <<"looks">> \in Seq(Kinds) \ {<<>>}
      /\ <<"copies", "looks">> \in Seq(Kinds) \ {<<>>}
  BY DEF Kinds
<1>2. ASSUME NEW before \in {<<>>, <<"asks">>}, NEW after \in Oracle!Extras
      PROVE  before \o <<"first">> \o after \in Seq(Kinds) \ {<<>>}
  <2>1. before \in Seq(Kinds) /\ <<"first">> \in Seq(Kinds)
    <3>1. /\ <<>> \in Seq(Kinds) /\ <<"asks">> \in Seq(Kinds)
          /\ <<"first">> \in Seq(Kinds)
      BY DEF Kinds
    <3> QED BY <3>1, Zenon
  <2>2. after \in Seq(Kinds)
    <3>1. /\ <<>> \in Seq(Kinds) /\ <<"extra">> \in Seq(Kinds)
          /\ <<"extra", "extra">> \in Seq(Kinds)
          /\ <<"extra", "extra", "extra">> \in Seq(Kinds)
      BY DEF Kinds
    <3> QED BY <3>1 DEF Oracle!Extras
  <2>3. before \o <<"first">> \in Seq(Kinds) /\ Len(before \o <<"first">>) > 0
    BY <2>1
  <2> DEFINE begun == before \o <<"first">>
  <2> HIDE DEF begun
  <2>4. begun \in Seq(Kinds) /\ Len(begun) > 0
    BY <2>3 DEF begun
  <2>5. begun \o after \in Seq(Kinds) /\ Len(begun \o after) > 0
    BY <2>2, <2>4
  <2>6. begun \o after # <<>>
    BY <2>5
  <2> QED BY <2>5, <2>6 DEF begun
<1> SUFFICES ASSUME NEW plan \in Oracle!Plans
             PROVE  plan \in Seq(Kinds) \ {<<>>}
  OBVIOUS
<1>3. \/ plan \in {<<"copies">>, <<"changes">>, <<"looks">>, <<"copies", "looks">>}
      \/ \E before \in {<<>>, <<"asks">>}, after \in Oracle!Extras :
           plan = before \o <<"first">> \o after
  <2> DEFINE four == {<<"copies">>, <<"changes">>, <<"looks">>, <<"copies", "looks">>}
             begins == {<<>>, <<"asks">>}
  <2>1. plan \in four \cup {before \o <<"first">> \o after :
                             before \in begins, after \in Oracle!Extras}
    BY DEF Oracle!Plans
  <2> HIDE DEF four, begins
  <2>2. \/ plan \in four
        \/ \E before \in begins, after \in Oracle!Extras :
             plan = before \o <<"first">> \o after
    BY <2>1
  <2> QED BY <2>2 DEF four, begins
<1> QED BY <1>1, <1>2, <1>3, Zenon

(* A call goes on to where rman works or its log is read.                  *)
LEMMA OracleAdvance ==
  ASSUME OracleInv, NEW c \in Threads, Oracle!Active(c),
         NEW at \in {"work", "read"}, NEW ran,
         calls'[c] = CallOf(at, calls[c].plan, calls[c].sec, ran,
                            calls[c].crossed),
         \A d \in Threads \ {c} : calls'[d] = calls[d],
         DOMAIN calls' = Threads,
         at = "read" /\ ~calls[c].crossed => LogTells(ran)',
         log' \in Oracle!Texts, UNCHANGED <<scripts, results>>
  PROVE  OracleInv'
<1>1. /\ calls'[c].at = at /\ calls'[c].plan = calls[c].plan
      /\ calls'[c].sec = calls[c].sec /\ calls'[c].ran = ran
      /\ calls'[c].crossed = calls[c].crossed
  BY CallFields
<1>2. \A d \in Threads : calls'[d] = CallOf(calls'[d].at, calls'[d].plan,
                             calls'[d].sec, calls'[d].ran, calls'[d].crossed)
  BY CallFields DEF OracleInv, OracleType, CallOf
<1>3. \A d \in Threads : Oracle!Active(d)' <=> Oracle!Active(d)
  BY <1>1 DEF Oracle!Active
<1>4. OracleType'
  BY <1>1, <1>2, <1>3 DEF OracleInv, OracleType, Places, CallOf
<1>5. AloneShape'
  <2> SUFFICES ASSUME NEW d \in Threads, Oracle!Active(d)', ~calls'[d].crossed
               PROVE  /\ \A e \in Threads \ {d} : ~Oracle!Active(e)'
                      /\ scripts'[calls'[d].sec] = d
                      /\ calls'[d].at = "read" => LogTells(calls[d].ran)'
    BY DEF AloneShape
  <2>1. d = c
    <3> SUFFICES ASSUME d # c
                 PROVE  FALSE
      OBVIOUS
    <3>1. Oracle!Active(d) /\ ~calls[d].crossed
      BY <1>1, <1>3, Zenon
    <3> QED BY <3>1 DEF OracleInv, AloneShape
  <2>2. ~calls[c].crossed
    BY <1>1, <1>2, <2>1, Zenon
  <2>3. /\ \A e \in Threads \ {c} : ~Oracle!Active(e)
        /\ scripts[calls[c].sec] = c
    BY <2>2 DEF OracleInv, AloneShape
  <2> QED BY <1>1, <1>3, <2>1, <2>2, <2>3
<1>6. \A d \in Threads : calls'[d].plan = calls[d].plan
  BY <1>1
<1>7. ResultsAreTrue'
  BY <1>6 DEF OracleInv, ResultsAreTrue
<1> QED BY <1>4, <1>5, <1>7 DEF OracleInv

(* A script is written, by a call that others then cross, if any is under  *)
(* way.                                                                    *)
LEMMA WriteScriptHolds ==
  ASSUME OracleInv, NEW c \in Threads, Oracle!WriteScript(c)
  PROVE  OracleInv'
<1> DEFINE others == {d \in Threads \ {c} : Oracle!Active(d)}
<1>1. /\ calls[c].at = "idle" /\ log' = log
  BY DEF Oracle!WriteScript
<1>2. PICK plan \in IF calls[c].plan = <<>> THEN Oracle!Plans ELSE {calls[c].plan},
           now \in Oracle!Seconds :
        /\ scripts' = [scripts EXCEPT ![now] = c]
        /\ calls' = [d \in Threads |->
             CASE d = c -> [calls[c] EXCEPT !.at = "start", !.plan = plan,
                              !.sec = now,
                              !.crossed = (calls[c].crossed \/ others # {})]
               [] d \in others -> [calls[d] EXCEPT !.crossed = TRUE]
               [] OTHER -> calls[d]]
  BY DEF Oracle!WriteScript
<1>3. plan \in Seq(Kinds) /\ plan # <<>>
  BY <1>2, PlansAreKinds DEF OracleInv, OracleType
<1>4. \A d \in Threads :
        calls[d] = CallOf(calls[d].at, calls[d].plan, calls[d].sec, calls[d].ran,
                          calls[d].crossed)
  BY DEF OracleInv, OracleType, CallOf
<1> DEFINE crossing == calls[c].crossed \/ others # {}
           yes == TRUE
<1>5. calls'[c] = CallOf("start", plan, now, calls[c].ran, crossing)
  <2>1. calls'[c] = [calls[c] EXCEPT !.at = "start", !.plan = plan,
                       !.sec = now, !.crossed = crossing]
    BY <1>2, Zenon
  <2> HIDE DEF others, crossing
  <2> QED BY <2>1, <1>4 DEF CallOf
<1>6. /\ calls'[c].at = "start" /\ calls'[c].plan = plan /\ calls'[c].sec = now
      /\ calls'[c].ran = calls[c].ran
      /\ ~calls'[c].crossed => others = {}
  <2>1. ~crossing => others = {}
    OBVIOUS
  <2> HIDE DEF others, crossing
  <2> QED BY <1>5, <2>1, CallFields
<1>7. \A d \in others :
        calls'[d] = CallOf(calls[d].at, calls[d].plan, calls[d].sec,
                           calls[d].ran, yes)
  <2> SUFFICES ASSUME NEW d \in others
               PROVE  calls'[d] = CallOf(calls[d].at, calls[d].plan,
                                         calls[d].sec, calls[d].ran, yes)
    OBVIOUS
  <2>1. d # c /\ d \in Threads
    OBVIOUS
  <2>2. calls'[d] = [calls[d] EXCEPT !.crossed = yes]
    BY <1>2, <2>1, Zenon
  <2> HIDE DEF others, yes
  <2> QED BY <2>1, <2>2, <1>4 DEF CallOf
<1>8. \A d \in Threads : d # c /\ d \notin others => calls'[d] = calls[d]
  BY <1>2, Zenon
<1>9. \A d \in others : /\ calls'[d].crossed /\ calls'[d].at = calls[d].at
                        /\ calls'[d].plan = calls[d].plan
                        /\ calls'[d].sec = calls[d].sec
                        /\ calls'[d].ran = calls[d].ran
  <2>1. yes
    OBVIOUS
  <2> HIDE DEF others, yes, crossing
  <2>2. \A d \in others :
          /\ calls'[d].crossed = yes /\ calls'[d].at = calls[d].at
          /\ calls'[d].plan = calls[d].plan /\ calls'[d].sec = calls[d].sec
          /\ calls'[d].ran = calls[d].ran
    BY <1>7, CallFields
  <2> QED BY <2>1, <2>2, Zenon
<1>10. \A d \in Threads \ {c} : Oracle!Active(d)' <=> d \in others
  BY <1>8, <1>9 DEF Oracle!Active
<1>11. OracleType'
  <2>1. \A d \in Threads :
         calls'[d] = CallOf(calls'[d].at, calls'[d].plan, calls'[d].sec,
                            calls'[d].ran, calls'[d].crossed)
    <3> HIDE DEF others, yes, crossing
    <3> QED BY <1>4, <1>5, <1>7, <1>8, CallFields
  <2>2. DOMAIN calls' = Threads /\ DOMAIN scripts' = DOMAIN scripts
    BY <1>2, Zenon
  <2>3. \A d \in Threads :
          /\ calls'[d].at \in Places
          /\ calls'[d].plan \in Seq(Kinds)
          /\ Oracle!Active(d)' =>
               calls'[d].plan # <<>> /\ calls'[d].sec \in Oracle!Seconds
    <3>1. "start" \in Places
      BY DEF Places
    <3> QED BY <3>1, <1>3, <1>6, <1>8, <1>9, <1>10
            DEF OracleInv, OracleType, Oracle!Active
  <2> QED BY <1>1, <2>1, <2>2, <2>3
          DEF OracleInv, OracleType, Oracle!Seconds, CallOf
<1> HIDE DEF others
<1>12. AloneShape'
  <2>1. scripts'[now] = c
    BY <1>2 DEF OracleInv, OracleType
  <2>2. \A d \in Threads : Oracle!Active(d)' /\ ~calls'[d].crossed => d = c
    BY <1>9, <1>10
  <2>3. ~calls'[c].crossed => \A d \in Threads \ {c} : ~Oracle!Active(d)'
    BY <1>6, <1>10
  <2> QED BY <2>1, <2>2, <2>3, <1>6 DEF AloneShape
<1>13. ResultsAreTrue'
  <2>1. results' = [d \in Threads |-> IF d = c /\ calls[c].plan # <<>>
                                     THEN results[d] ELSE Oracle!NoResult]
    BY Zenon DEF Oracle!WriteScript
  <2>2. ASSUME NEW d \in Threads, d = c, calls[c].plan # <<>>
        PROVE  ToldTruly(results'[d], calls'[d].plan # <<>>)
    <3>1. results'[d] = results[d]
      BY <2>1, <2>2, Zenon
    <3>2. ToldTruly(results[d], calls[d].plan # <<>>)
      BY Zenon DEF OracleInv, ResultsAreTrue
    <3>3. calls[d].plan # <<>>
      BY <2>2
    <3> QED BY <3>1, <3>2, <3>3, Zenon DEF ToldTruly
  <2>3. ASSUME NEW d \in Threads, ~(d = c /\ calls[c].plan # <<>>)
        PROVE  ToldTruly(results'[d], calls'[d].plan # <<>>)
    <3>1. results'[d] = Oracle!NoResult
      BY <2>1, <2>3, Zenon
    <3> QED BY <3>1, NoResultIsTrue, Zenon
  <2>4. DOMAIN results' = Threads
    BY <2>1, Zenon
  <2> QED BY <2>2, <2>3, <2>4, Zenon DEF ResultsAreTrue
<1> QED BY <1>11, <1>12, <1>13 DEF OracleInv

LEMMA OracleWorkHolds ==
  ASSUME OracleInv, NEW c \in Threads, Oracle!StartRman(c) \/ Oracle!EndRman(c)
  PROVE  OracleInv'
<1>1. calls[c] = CallOf(calls[c].at, calls[c].plan, calls[c].sec, calls[c].ran,
                        calls[c].crossed) /\ DOMAIN calls = Threads
  BY DEF OracleInv, OracleType, CallOf
<1>3. \A at :
        [calls[c] EXCEPT !.at = at] =
        CallOf(at, calls[c].plan, calls[c].sec, calls[c].ran, calls[c].crossed)
  BY <1>1 DEF CallOf
<1>4. UNCHANGED <<scripts, results>> /\ Oracle!Active(c)
  BY DEF Oracle!StartRman, Oracle!EndRman, Oracle!Active
<1>5. CASE Oracle!StartRman(c) /\ log' = "clean"
           /\ calls' = [calls EXCEPT ![c].at = "work"]
  <2>1. log' \in Oracle!Texts
    BY <1>5 DEF Oracle!Texts
  <2>2. /\ calls'[c] = CallOf("work", calls[c].plan, calls[c].sec,
                             calls[c].ran, calls[c].crossed)
        /\ \A d \in Threads \ {c} : calls'[d] = calls[d]
        /\ DOMAIN calls' = Threads
    BY <1>1, <1>3, <1>5
  <2> QED BY <1>4, <1>5, <2>1, <2>2, OracleAdvance
<1>6. CASE /\ Oracle!StartRman(c) /\ log' = log
           /\ calls' = [calls EXCEPT ![c].at = "read",
                ![c].ran = IF log \in Oracle!Failed THEN "nothing" ELSE "stale"]
  <2>0. PICK ran : ran = IF log \in Oracle!Failed THEN "nothing" ELSE "stale"
    OBVIOUS
  <2>1. LogTells(ran)'
    BY <1>6, <2>0 DEF LogTells, Tells
  <2>2. log' \in Oracle!Texts
    BY <1>6 DEF OracleInv, OracleType
  <2>3. calls' = [calls EXCEPT ![c].at = "read", ![c].ran = ran]
    BY <1>6, <2>0, Zenon
  <2>4. /\ calls'[c] = CallOf("read", calls[c].plan, calls[c].sec, ran,
                             calls[c].crossed)
        /\ \A d \in Threads \ {c} : calls'[d] = calls[d]
        /\ DOMAIN calls' = Threads
    BY <1>1, <2>3 DEF CallOf
  <2> QED BY <1>4, <2>1, <2>2, <2>4, OracleAdvance
<1>7. CASE Oracle!EndRman(c)
  <2>1. PICK r \in Oracle!Answers(scripts[calls[c].sec]) :
          /\ log' \in {r} \cup (IF calls[c].crossed THEN {log} ELSE {})
          /\ calls' = [calls EXCEPT ![c].at = "read",
               ![c].ran = IF scripts[calls[c].sec] = c /\ ~calls[c].crossed
                          THEN r ELSE "nothing"]
    BY <1>7 DEF Oracle!EndRman
  <2>0. PICK ran : ran = IF scripts[calls[c].sec] = c /\ ~calls[c].crossed
                         THEN r ELSE "nothing"
    OBVIOUS
  <2>2. r \in Oracle!Texts
    <3>1. Oracle!Answers(scripts[calls[c].sec]) \subseteq Oracle!Texts
      <4>1. "rman" \in Oracle!Texts
        BY DEF Oracle!Texts, Oracle!Failed
      <4> DEFINE script == scripts[calls[c].sec]
      <4>2. \/ Oracle!Answers(script) = {"rman"}
            \/ Oracle!Answers(script) = Oracle!Texts
            \/ Oracle!Answers(script) = Oracle!Texts \ {"enabled"}
        BY DEF Oracle!Answers
      <4> QED BY <4>1, <4>2
    <3> QED BY <3>1
  <2>3. log' \in Oracle!Texts
    BY <2>1, <2>2 DEF OracleInv, OracleType
  <2>4. ~calls[c].crossed => log' = r /\ scripts[calls[c].sec] = c
    BY <1>4, <2>1 DEF OracleInv, AloneShape
  <2>5. ~calls[c].crossed => ran = r
    BY <2>0, <2>4, Zenon
  <2>6. ~calls[c].crossed => LogTells(ran)'
    BY <2>4, <2>5, Zenon DEF LogTells, Tells
  <2>7. calls' = [calls EXCEPT ![c].at = "read", ![c].ran = ran]
    BY <2>0, <2>1, Zenon
  <2>8. /\ calls'[c] = CallOf("read", calls[c].plan, calls[c].sec, ran,
                             calls[c].crossed)
        /\ \A d \in Threads \ {c} : calls'[d] = calls[d]
        /\ DOMAIN calls' = Threads
    BY <1>1, <2>7 DEF CallOf
  <2> QED BY <1>4, <2>3, <2>6, <2>8, OracleAdvance
<1> QED BY <1>5, <1>6, <1>7 DEF Oracle!StartRman

(* What is told to a call that met no other is what its rman did.          *)
LEMMA ReadLogTells ==
  ASSUME OracleInv, NEW c \in Threads, Oracle!ReadLog(c),
         DOMAIN calls' = Threads, \A d \in Threads \ {c} : calls'[d] = calls[d],
         calls'[c].plan = Oracle!Rest(calls[c].plan, log)
  PROVE  ResultsAreTrue'
<1>1. calls[c].at = "read" /\ Oracle!Active(c)
  BY DEF Oracle!ReadLog, Oracle!Active
<1> DEFINE kind == Head(calls[c].plan)
           told0 == IF calls[c].crossed THEN Oracle!NoResult
                    ELSE Oracle!Judged(results[c], kind, log, calls[c].ran)
           more == calls'[c].plan # <<>>
<1>2. results' = [results EXCEPT ![c] = told0] /\ DOMAIN results = Threads
  BY Zenon DEF Oracle!ReadLog, OracleInv, ResultsAreTrue
<1>3. ToldTruly(told0, more)
  <2>1. CASE calls[c].crossed
    BY <2>1, NoResultIsTrue, Zenon
  <2>2. CASE ~calls[c].crossed
    <3>1. LogTells(calls[c].ran)
      BY <1>1, <2>2, Zenon DEF OracleInv, AloneShape
    <3>2. kind \in Kinds /\ log \in Oracle!Texts /\ calls[c].plan # <<>>
      BY <1>1 DEF OracleInv, OracleType
    <3>3. ToldTruly(results[c], TRUE)
      <4>1. ToldTruly(results[c], calls[c].plan # <<>>)
        BY Zenon DEF OracleInv, ResultsAreTrue
      <4> DEFINE old == calls[c].plan # <<>>
      <4>2. TRUE => old
        BY <3>2
      <4> HIDE DEF old
      <4> QED BY <4>1, <4>2, LessIsTrue DEF old
    <3>4. kind = "first" /\ more => Oracle!Fine("first", log)
      <4> SUFFICES ASSUME kind = "first", ~Oracle!Fine("first", log)
                   PROVE  calls'[c].plan = <<>>
        OBVIOUS
      <4>1. "first" # "asks"
        OBVIOUS
      <4> QED BY <4>1, Zenon DEF Oracle!Rest
    <3> HIDE DEF kind, more
    <3>5. ToldTruly(Oracle!Judged(results[c], kind, log, calls[c].ran), more)
      BY <3>1, <3>2, <3>3, <3>4, JudgedIsTrue DEF LogTells
    <3> QED BY <2>2, <3>5, Zenon
  <2> QED BY <2>1, <2>2
<1> HIDE DEF told0
<1>4. ToldTruly(results'[c], calls'[c].plan # <<>>)
  BY <1>2, <1>3, Zenon
<1>5. ASSUME NEW d \in Threads, d # c
      PROVE  ToldTruly(results'[d], calls'[d].plan # <<>>)
  <2>1. results'[d] = results[d] /\ calls'[d] = calls[d]
    BY <1>2, <1>5
  <2>2. ToldTruly(results[d], calls[d].plan # <<>>)
    BY Zenon DEF OracleInv, ResultsAreTrue
  <2> QED BY <2>1, <2>2, Zenon
<1>6. DOMAIN results' = Threads
  BY <1>2, Zenon
<1> QED BY <1>4, <1>5, <1>6, Zenon DEF ResultsAreTrue

LEMMA ReadLogHolds ==
  ASSUME OracleInv, NEW c \in Threads, Oracle!ReadLog(c)
  PROVE  OracleInv'
<1>1. calls[c].at = "read" /\ Oracle!Active(c) /\ log' = log
  BY DEF Oracle!ReadLog, Oracle!Active
<1>2. scripts' = [scripts EXCEPT ![calls[c].sec] = Oracle!NoOne]
  BY DEF Oracle!ReadLog
<1> DEFINE rest == Oracle!Rest(calls[c].plan, log)
           crossing == calls[c].crossed /\ rest # <<>>
<1>3. calls' = [calls EXCEPT ![c] =
                 [Oracle!NoCall EXCEPT !.plan = rest, !.crossed = crossing]]
  BY Zenon DEF Oracle!ReadLog
<1>4. rest \in Seq(Kinds)
  <2>1. calls[c].plan \in Seq(Kinds) /\ calls[c].plan # <<>>
    BY <1>1 DEF OracleInv, OracleType
  <2>2. Tail(calls[c].plan) \in Seq(Kinds) /\ <<"helps">> \in Seq(Kinds)
        /\ <<>> \in Seq(Kinds)
    BY <2>1 DEF Kinds
  <2>3. <<"helps">> \o Tail(calls[c].plan) \in Seq(Kinds)
    BY <2>2
  <2>4. \/ rest = <<"helps">> \o Tail(calls[c].plan)
        \/ rest = <<>> \/ rest = Tail(calls[c].plan)
    BY Zenon DEF Oracle!Rest
  <2> QED BY <2>2, <2>3, <2>4, Zenon
<1> HIDE DEF rest, crossing
<1>5. /\ Oracle!NoCall.at = "idle" /\ Oracle!NoCall.sec = 0
      /\ Oracle!NoCall.ran = "nothing"
      /\ DOMAIN Oracle!NoCall = {"at", "plan", "sec", "ran", "crossed"}
  BY DEF Oracle!NoCall
<1>6. DOMAIN calls = Threads
  BY DEF OracleInv, OracleType
<1>7. /\ calls'[c] = CallOf("idle", rest, 0, "nothing", crossing)
      /\ \A d \in Threads \ {c} : calls'[d] = calls[d]
      /\ DOMAIN calls' = Threads
  BY <1>3, <1>5, <1>6 DEF CallOf
<1>8. /\ calls'[c].at = "idle" /\ calls'[c].plan = rest
      /\ calls'[c] = CallOf(calls'[c].at, calls'[c].plan, calls'[c].sec,
                            calls'[c].ran, calls'[c].crossed)
  BY <1>7, CallFields
<1>9. OracleType'
  <2>1. "idle" \in Places
    BY DEF Places
  <2> QED BY <1>1, <1>2, <1>4, <1>7, <1>8, <2>1
          DEF OracleInv, OracleType, Oracle!Active, Oracle!Seconds, CallOf
<1>10. AloneShape'
  <2>1. \A d \in Threads : Oracle!Active(d)' => d # c /\ Oracle!Active(d)
    BY <1>7, <1>8 DEF Oracle!Active
  <2>2. \A d \in Threads \ {c} : Oracle!Active(d) => calls[d].crossed
    BY <1>1, Zenon DEF OracleInv, AloneShape
  <2>3. \A d \in Threads : Oracle!Active(d)' => calls'[d].crossed
    BY <1>7, <2>1, <2>2, Zenon
  <2> QED BY <2>3, Zenon DEF AloneShape
<1>11. ResultsAreTrue'
  BY <1>7, <1>8, ReadLogTells DEF rest
<1> QED BY <1>9, <1>10, <1>11 DEF OracleInv

LEMMA OracleStepHolds == OracleInv /\ [Next]_vars => OracleInv'
<1> SUFFICES ASSUME OracleInv, [Next]_vars
             PROVE  OracleInv'
  OBVIOUS
<1>1. CASE UNCHANGED oracleVars
  <2>1. scripts' = scripts /\ log' = log /\ calls' = calls /\ results' = results
    BY <1>1 DEF oracleVars
  <2>2. OracleType'
    BY <2>1 DEF OracleInv, OracleType, Oracle!Active
  <2>3. AloneShape'
    BY <2>1 DEF OracleInv, AloneShape, Oracle!Active, LogTells
  <2>4. ResultsAreTrue'
    BY <2>1, Zenon DEF OracleInv, ResultsAreTrue
  <2> QED BY <2>2, <2>3, <2>4 DEF OracleInv
<1> QED BY <1>1, WriteScriptHolds, OracleWorkHolds, ReadLogHolds, OracleMoves
       DEF Oracle!Next

(* The conversions of a backup to disks.                                   *)
LEMMA RestoreMoves == [Next]_vars => Restore!Next \/ UNCHANGED restoreVars
BY OneMoves DEF OthersKeep, vars

RestoreOf(at, leg, to, route, sees, alone) ==
  [at |-> at, leg |-> leg, to |-> to, route |-> route, sees |-> sees,
   alone |-> alone]

Fits(r) ==
  /\ r = RestoreOf(r.at, r.leg, r.to, r.route, r.sees, r.alone)
  /\ r.at \in {"idle", "ready", "run"} /\ r.leg \in {1, 2}
  /\ r.at # "idle" => r.to \in Targets
  /\ r.leg = 2 => r.route # "direct"

(* A conversion that met no other reads what is whole, its disk is there,  *)
(* and so is the raw image of which the disk is made.                      *)
Sound(r, files) ==
  r.at # "idle" /\ r.alone =>
    /\ r.at = "run" => r.sees = "whole" /\ files[Restore!Writes(r)] # "absent"
    /\ r.at = "ready" /\ r.leg = 2 => files[Restore!Temporary(r)] = "whole"

RestoreInv ==
  /\ DOMAIN restores = Threads /\ DOMAIN image = Restore!Images
  /\ restored \subseteq Targets
  /\ image[<<Restore!Source, "disk">>] = "whole"
  /\ \A c \in Threads :
       /\ Fits(restores[c]) /\ Sound(restores[c], image)
       /\ restores[c].at # "idle" => restores[c].to \notin restored
  /\ \A c, d \in Threads :
       c # d /\ restores[c].at # "idle" /\ restores[d].at # "idle"
         /\ restores[c].alone => ~Restore!Share(restores[c], restores[d])
  /\ Restore!RestoredIsWhole

LEMMA RestoreFields ==
  ASSUME NEW at, NEW leg, NEW to, NEW route, NEW sees, NEW alone, NEW r,
         r = RestoreOf(at, leg, to, route, sees, alone)
  PROVE  /\ r.at = at /\ r.leg = leg /\ r.to = to /\ r.route = route
         /\ r.sees = sees /\ r.alone = alone
         /\ r = RestoreOf(r.at, r.leg, r.to, r.route, r.sees, r.alone)
BY DEF RestoreOf

LEMMA IdleFits ==
  /\ Restore!Idle.at = "idle" /\ Fits(Restore!Idle)
  /\ Restore!Idle.leg = 1 /\ Restore!Idle.sees = "part"
<1> DEFINE yes == TRUE
<1>1. Restore!Idle = RestoreOf("idle", 1, Restore!Source, "direct", "part", yes)
  BY DEF Restore!Idle, RestoreOf
<1> HIDE DEF yes
<1> QED BY <1>1, RestoreFields DEF Fits

LEMMA RestoreInitHolds == Init => RestoreInv
<1> SUFFICES ASSUME Restore!Init
             PROVE  RestoreInv
  BY DEF Init
<1>1. /\ DOMAIN image = Restore!Images /\ DOMAIN restores = Threads
      /\ restored = {}
      /\ \A c \in Threads : restores[c] = Restore!Idle
  BY DEF Restore!Init
<1>2. image[<<Restore!Source, "disk">>] = "whole"
  BY DEF Restore!Init, Restore!Images
<1>3. \A c \in Threads : restores[c].at = "idle" /\ Fits(restores[c])
  BY <1>1, IdleFits
<1> QED BY <1>1, <1>2, <1>3 DEF RestoreInv, Sound, Restore!RestoredIsWhole

(* The files of a conversion are there to name, and those of two that      *)
(* share none are not the same.                                            *)
LEMMA FilesAreNamed ==
  ASSUME NEW r, Fits(r), r.at # "idle"
  PROVE  /\ Restore!Writes(r) \in Restore!Images
         /\ Restore!Temporary(r) \in Restore!Images
         /\ Restore!Reads(r) \in Restore!Images
         /\ <<Restore!Source, "disk">> \notin {Restore!Writes(r), Restore!Temporary(r)}
         /\ \A d \in Targets \ {r.to} :
              <<d, "disk">> \notin {Restore!Writes(r), Restore!Temporary(r)}
BY RestoreAssumption
   DEF Fits, Restore!Writes, Restore!Temporary, Restore!Reads, Restore!Images,
       Restore!Source

LEMMA FilesAreOwn ==
  ASSUME NEW r, NEW s, Fits(r), Fits(s), r.at # "idle", s.at # "idle",
         ~Restore!Share(r, s)
  PROVE  /\ Restore!Writes(s) \notin {Restore!Writes(r), Restore!Temporary(r)}
         /\ Restore!Temporary(s) \notin {Restore!Writes(r), Restore!Temporary(r)}
         /\ Restore!Reads(s) # Restore!Writes(r)
         /\ ~Restore!Share(s, r)
BY RestoreAssumption
   DEF Fits, Restore!Writes, Restore!Temporary, Restore!Reads, Restore!Source,
       Restore!Share

(* A conversion goes on or ends, and touches no file but its own; those it *)
(* disturbs are not alone.                                                 *)
LEMMA RestoreAdvance ==
  ASSUME RestoreInv, NEW c \in Threads, restores[c].at # "idle", NEW r,
         Fits(r), Sound(r, image)',
         r.at # "idle" => /\ r.to = restores[c].to
                          /\ r.route = restores[c].route
                          /\ r.alone = restores[c].alone,
         DOMAIN restores' = Threads, restores'[c] = r,
         \A d \in Threads \ {c} :
           \/ restores'[d] = restores[d]
           \/ /\ ~restores[d].alone
              /\ restores'[d] = [restores[d] EXCEPT !.sees = "part"],
         DOMAIN image' = Restore!Images,
         \A f \in Restore!Images :
           f \notin {Restore!Writes(restores[c]), Restore!Temporary(restores[c])}
             => image'[f] = image[f],
         \/ restored' = restored
         \/ /\ restored' = restored \cup {restores[c].to}
            /\ r.at = "idle" /\ restores[c].alone
            /\ image'[<<restores[c].to, "disk">>] = "whole"
  PROVE  RestoreInv'
<1> DEFINE old == restores[c]
<1>1. Fits(old) /\ old.to \in Targets /\ old.to \notin restored
  BY DEF RestoreInv, Fits
<1>2. \A d \in Threads \ {c} :
        /\ restores'[d].at = restores[d].at /\ restores'[d].to = restores[d].to
        /\ restores'[d].route = restores[d].route
        /\ restores'[d].alone = restores[d].alone
        /\ Fits(restores'[d])
        /\ restores'[d] = restores[d] \/ ~restores[d].alone
  <2> SUFFICES ASSUME NEW d \in Threads \ {c}
               PROVE  /\ restores'[d].at = restores[d].at
                      /\ restores'[d].to = restores[d].to
                      /\ restores'[d].route = restores[d].route
                      /\ restores'[d].alone = restores[d].alone
                      /\ Fits(restores'[d])
                      /\ restores'[d] = restores[d] \/ ~restores[d].alone
    OBVIOUS
  <2>1. Fits(restores[d])
    BY DEF RestoreInv
  <2>2. CASE restores'[d] = restores[d]
    BY <2>1, <2>2, Zenon
  <2>3. CASE /\ ~restores[d].alone
             /\ restores'[d] = [restores[d] EXCEPT !.sees = "part"]
    <3> DEFINE was == restores[d]
    <3>1. was = RestoreOf(was.at, was.leg, was.to, was.route, was.sees, was.alone)
      BY <2>1, Zenon DEF Fits
    <3>2. restores'[d] = RestoreOf(was.at, was.leg, was.to, was.route, "part", was.alone)
      BY <2>3, <3>1 DEF RestoreOf
    <3> HIDE DEF was
    <3>3. /\ restores'[d].at = was.at /\ restores'[d].leg = was.leg
          /\ restores'[d].to = was.to /\ restores'[d].route = was.route
          /\ restores'[d].alone = was.alone
          /\ restores'[d] = RestoreOf(restores'[d].at, restores'[d].leg,
               restores'[d].to, restores'[d].route, restores'[d].sees,
               restores'[d].alone)
      BY <3>2, RestoreFields
    <3>4. Fits(restores'[d])
      BY <2>1, <3>3, Zenon DEF Fits, was
    <3> QED BY <2>3, <3>3, <3>4, Zenon DEF was
  <2> QED BY <2>2, <2>3
<1>3. \A d \in Threads \ {c} : restores[d].at # "idle" /\ restores[d].alone =>
        ~Restore!Share(restores[d], old)
  BY DEF RestoreInv
<1>4. old.alone => \A d \in Threads \ {c} : restores[d].at # "idle" =>
        ~Restore!Share(old, restores[d])
  BY DEF RestoreInv
<1>5. \A d \in Threads \ {c} : Sound(restores'[d], image')
  <2> SUFFICES ASSUME NEW d \in Threads \ {c}, restores[d].at # "idle",
                      restores[d].alone
               PROVE  Sound(restores'[d], image')
    BY <1>2, Zenon DEF Sound
  <2>1. restores'[d] = restores[d] /\ Fits(restores[d])
    BY <1>2, Zenon DEF RestoreInv
  <2>2. ~Restore!Share(restores[d], old)
    BY <1>3
  <2>3. ~Restore!Share(old, restores[d])
    BY <2>2 DEF Restore!Share
  <2>4. /\ Restore!Writes(restores[d]) \notin {Restore!Writes(old), Restore!Temporary(old)}
        /\ Restore!Temporary(restores[d]) \notin {Restore!Writes(old), Restore!Temporary(old)}
    BY <1>1, <2>1, <2>3, FilesAreOwn
  <2>5. /\ Restore!Writes(restores[d]) \in Restore!Images
        /\ Restore!Temporary(restores[d]) \in Restore!Images
    BY <2>1, FilesAreNamed
  <2>6. /\ image'[Restore!Writes(restores[d])] = image[Restore!Writes(restores[d])]
        /\ image'[Restore!Temporary(restores[d])] = image[Restore!Temporary(restores[d])]
    BY <2>4, <2>5
  <2>7. Sound(restores[d], image)
    BY DEF RestoreInv
  <2>8. /\ restores[d].at = "run" =>
             restores[d].sees = "whole" /\ image[Restore!Writes(restores[d])] # "absent"
        /\ restores[d].at = "ready" /\ restores[d].leg = 2 =>
             image[Restore!Temporary(restores[d])] = "whole"
    BY <2>7, Zenon DEF Sound
  <2>9. /\ restores[d].at = "run" =>
             restores[d].sees = "whole" /\ image'[Restore!Writes(restores[d])] # "absent"
        /\ restores[d].at = "ready" /\ restores[d].leg = 2 =>
             image'[Restore!Temporary(restores[d])] = "whole"
    BY <2>6, <2>8
  <2> DEFINE was == restores[d]
             now == image'
  <2>10. Sound(was, now)
    BY <2>9, Zenon DEF Sound
  <2> HIDE DEF was, now
  <2>11. Sound(restores'[d], now)
    BY <2>1, <2>10, Zenon DEF was
  <2> QED BY <2>11 DEF now
<1>6. image'[<<Restore!Source, "disk">>] = "whole"
  <2>1. <<Restore!Source, "disk">> \in Restore!Images
    BY DEF Restore!Images
  <2> QED BY <1>1, <2>1, FilesAreNamed DEF RestoreInv
<1>7. \A d \in restored : image'[<<d, "disk">>] = "whole"
  <2> SUFFICES ASSUME NEW d \in restored
               PROVE  image'[<<d, "disk">>] = "whole"
    OBVIOUS
  <2>1. d \in Targets \ {old.to} /\ image[<<d, "disk">>] = "whole"
    BY <1>1 DEF RestoreInv, Restore!RestoredIsWhole
  <2>2. <<d, "disk">> \in Restore!Images
    BY <2>1 DEF Restore!Images
  <2> QED BY <1>1, <2>1, <2>2, FilesAreNamed
<1>8. Restore!RestoredIsWhole' /\ restored' \subseteq Targets
  BY <1>1, <1>7 DEF Restore!RestoredIsWhole, RestoreInv
<1>9. \A d \in Threads : restores'[d].at # "idle" => restores'[d].to \notin restored'
  <2> SUFFICES ASSUME NEW d \in Threads, restores'[d].at # "idle"
               PROVE  restores'[d].to \notin restored'
    OBVIOUS
  <2>1. CASE d = c
    BY <1>1, <2>1
  <2>2. CASE d # c
    <3>1. restores[d].at # "idle" /\ restores'[d].to = restores[d].to
          /\ restores[d].to \notin restored
      BY <1>2, <2>2 DEF RestoreInv
    <3>2. old.alone => restores[d].to # old.to
      BY <1>4, <2>2, <3>1 DEF Restore!Share
    <3> QED BY <3>1, <3>2
  <2> QED BY <2>1, <2>2
<1>10. \A d, e \in Threads :
         d # e /\ restores'[d].at # "idle" /\ restores'[e].at # "idle"
           /\ restores'[d].alone => ~Restore!Share(restores'[d], restores'[e])
  <2> SUFFICES ASSUME NEW d \in Threads, NEW e \in Threads, d # e,
                      restores'[d].at # "idle", restores'[e].at # "idle",
                      restores'[d].alone
               PROVE  ~Restore!Share(restores'[d], restores'[e])
    OBVIOUS
  <2>1. /\ restores[d].at # "idle" /\ restores[e].at # "idle"
        /\ restores[d].alone
        /\ restores'[d].to = restores[d].to /\ restores'[d].route = restores[d].route
        /\ restores'[e].to = restores[e].to /\ restores'[e].route = restores[e].route
    BY <1>2, Zenon
  <2>2. ~Restore!Share(restores[d], restores[e])
    BY <2>1 DEF RestoreInv
  <2> QED BY <2>1, <2>2 DEF Restore!Share
<1>11. \A d \in Threads : Fits(restores'[d]) /\ Sound(restores'[d], image')
  BY <1>2, <1>5, Zenon
<1> QED BY <1>6, <1>8, <1>9, <1>10, <1>11, Zenon DEF RestoreInv

(* A conversion begins: those that share a file are no more alone, nor is  *)
(* it if there are any.                                                    *)
LEMMA ConvertDiskHolds ==
  ASSUME RestoreInv, NEW c \in Threads, Restore!ConvertDisk(c)
  PROVE  RestoreInv'
<1>1. restores[c].at = "idle" /\ image' = image
  BY DEF Restore!ConvertDisk, Restore!UnderWay
<1>2. PICK to \in Targets, route \in Restore!Routes :
        LET new == [Restore!Idle EXCEPT !.at = "ready", !.to = to, !.route = route]
            others == {d \in Threads \ {c} :
                         Restore!UnderWay(d) /\ Restore!Share(new, restores[d])}
        IN  /\ restores' = [d \in Threads |->
                 CASE d = c -> [new EXCEPT !.alone = (others = {})]
                   [] d \in others -> [restores[d] EXCEPT !.alone = FALSE]
                   [] OTHER -> restores[d]]
            /\ restored' = restored \ {to}
  BY DEF Restore!ConvertDisk
<1> DEFINE new == [Restore!Idle EXCEPT !.at = "ready", !.to = to, !.route = route]
           others == {d \in Threads \ {c} :
                        Restore!UnderWay(d) /\ Restore!Share(new, restores[d])}
           single == others = {}
           no == FALSE
<1>3. /\ restores'[c] = [new EXCEPT !.alone = single]
      /\ \A d \in others : restores'[d] = [restores[d] EXCEPT !.alone = no]
      /\ \A d \in Threads : d # c /\ d \notin others => restores'[d] = restores[d]
      /\ DOMAIN restores' = Threads /\ restored' = restored \ {to}
  BY <1>2, Zenon
<1>4. new.to = to /\ new.route = route
  BY DEF Restore!Idle
<1>5. restores'[c] = RestoreOf("ready", 1, to, route, "part", single)
  <2> HIDE DEF single
  <2> QED BY <1>3 DEF Restore!Idle, RestoreOf
<1>6. single <=> \A d \in Threads \ {c} :
        restores[d].at # "idle" => ~Restore!Share(new, restores[d])
  BY DEF Restore!UnderWay
<1>7. ~no
  OBVIOUS
<1>8. \A d \in others : d \in Threads \ {c}
  OBVIOUS
<1>9. \A d \in Threads \ {c} : d \notin others /\ restores[d].at # "idle" =>
        ~Restore!Share(new, restores[d])
  BY DEF Restore!UnderWay
<1> HIDE DEF new, others, single, no
<1>10. /\ restores'[c].at = "ready" /\ restores'[c].leg = 1
       /\ restores'[c].to = to /\ restores'[c].route = route
       /\ restores'[c].alone = single
       /\ Fits(restores'[c])
  BY <1>5, RestoreFields DEF Fits
<1>11. \A d \in Threads \ {c} :
         /\ restores'[d].at = restores[d].at /\ restores'[d].leg = restores[d].leg
         /\ restores'[d].to = restores[d].to
         /\ restores'[d].route = restores[d].route
         /\ Fits(restores'[d])
         /\ restores'[d].alone => restores'[d] = restores[d] /\ d \notin others
  <2> SUFFICES ASSUME NEW d \in Threads \ {c}
               PROVE  /\ restores'[d].at = restores[d].at
                      /\ restores'[d].leg = restores[d].leg
                      /\ restores'[d].to = restores[d].to
                      /\ restores'[d].route = restores[d].route
                      /\ Fits(restores'[d])
                      /\ restores'[d].alone =>
                           restores'[d] = restores[d] /\ d \notin others
    OBVIOUS
  <2>1. Fits(restores[d])
    BY DEF RestoreInv
  <2>2. CASE d \notin others
    BY <1>3, <2>1, <2>2, Zenon
  <2>3. CASE d \in others
    <3> DEFINE was == restores[d]
    <3>1. was = RestoreOf(was.at, was.leg, was.to, was.route, was.sees, was.alone)
      BY <2>1, Zenon DEF Fits
    <3>2. restores'[d] = RestoreOf(was.at, was.leg, was.to, was.route, was.sees, no)
      BY <1>3, <2>3, <3>1 DEF RestoreOf
    <3> HIDE DEF was
    <3>3. /\ restores'[d].at = was.at /\ restores'[d].leg = was.leg
          /\ restores'[d].to = was.to /\ restores'[d].route = was.route
          /\ restores'[d].alone = no
          /\ restores'[d] = RestoreOf(restores'[d].at, restores'[d].leg,
               restores'[d].to, restores'[d].route, restores'[d].sees,
               restores'[d].alone)
      BY <3>2, RestoreFields
    <3>4. Fits(restores'[d])
      BY <2>1, <3>3, Zenon DEF Fits, was
    <3> QED BY <1>7, <3>3, <3>4, Zenon DEF was
  <2> QED BY <2>2, <2>3
<1>12. \A d \in Threads : Fits(restores'[d]) /\ Sound(restores'[d], image')
  <2>1. Sound(restores'[c], image')
    BY <1>10 DEF Sound
  <2>2. ASSUME NEW d \in Threads \ {c}
        PROVE  Sound(restores'[d], image)
    <3>1. CASE ~restores'[d].alone
      BY <3>1, Zenon DEF Sound
    <3>2. CASE restores'[d] = restores[d]
      BY <3>2, Zenon DEF RestoreInv
    <3> QED BY <1>11, <3>1, <3>2, Zenon
  <2> QED BY <1>1, <1>10, <1>11, <2>1, <2>2
<1>13. \A d \in Threads : restores'[d].at # "idle" => restores'[d].to \notin restored'
  BY <1>3, <1>10, <1>11 DEF RestoreInv
<1>14. \A d, e \in Threads :
         d # e /\ restores'[d].at # "idle" /\ restores'[e].at # "idle"
           /\ restores'[d].alone => ~Restore!Share(restores'[d], restores'[e])
  <2> SUFFICES ASSUME NEW d \in Threads, NEW e \in Threads, d # e,
                      restores'[d].at # "idle", restores'[e].at # "idle",
                      restores'[d].alone
               PROVE  ~Restore!Share(restores'[d], restores'[e])
    OBVIOUS
  <2>1. CASE d = c
    <3>1. single
      BY <1>10, <2>1, Zenon
    <3>2. restores[e].at # "idle"
      BY <1>11, <2>1
    <3>3. ~Restore!Share(new, restores[e])
      BY <1>6, <2>1, <3>1, <3>2
    <3> QED BY <1>4, <1>10, <1>11, <2>1, <3>3 DEF Restore!Share
  <2>2. CASE d # c
    <3>1. restores'[d] = restores[d] /\ d \notin others
      BY <1>11, <2>2, Zenon
    <3>2. CASE e = c
      <4>1. ~Restore!Share(new, restores[d])
        BY <1>9, <2>2, <3>1
      <4> QED BY <1>4, <1>10, <3>1, <3>2, <4>1 DEF Restore!Share
    <3>3. CASE e # c
      <4>1. restores[e].at # "idle" /\ restores'[e].to = restores[e].to
            /\ restores'[e].route = restores[e].route
        BY <1>11, <3>3
      <4>2. restores[d].at # "idle" /\ restores[d].alone
        BY <3>1, Zenon
      <4>3. ~Restore!Share(restores[d], restores[e])
        BY <4>1, <4>2 DEF RestoreInv
      <4> QED BY <3>1, <4>1, <4>3 DEF Restore!Share
    <3> QED BY <3>2, <3>3
  <2> QED BY <2>1, <2>2
<1>15. Restore!RestoredIsWhole' /\ restored' \subseteq Targets
  BY <1>1, <1>3 DEF RestoreInv, Restore!RestoredIsWhole
<1>16. DOMAIN image' = Restore!Images /\ image'[<<Restore!Source, "disk">>] = "whole"
  BY <1>1 DEF RestoreInv
<1> QED BY <1>3, <1>12, <1>13, <1>14, <1>15, <1>16, Zenon DEF RestoreInv

(* A command begins: alone, it finds whole what it reads.                  *)
LEMMA ConvertFormatHolds ==
  ASSUME RestoreInv, NEW c \in Threads, Restore!ConvertFormat(c)
  PROVE  RestoreInv'
<1> DEFINE old == restores[c]
           Meets(r) == r.at = "run" /\ ( \/ Restore!Reads(r) = Restore!Writes(old)
                                        \/ Restore!Writes(r) = Restore!Writes(old))
           met == \E e \in Threads : Meets(restores[e])
           sees == IF met THEN "part" ELSE image[Restore!Reads(old)]
           new == RestoreOf("run", old.leg, old.to, old.route, sees, old.alone)
<1>1. /\ old.at = "ready" /\ restored' = restored
      /\ image' = [image EXCEPT ![Restore!Writes(old)] = "part"]
      /\ restores' = [d \in Threads |->
           CASE d = c -> [old EXCEPT !.at = "run", !.sees = sees]
             [] d # c /\ Meets(restores[d]) -> [restores[d] EXCEPT !.sees = "part"]
             [] OTHER -> restores[d]]
  BY Zenon DEF Restore!ConvertFormat
<1>2. Fits(old)
  BY DEF RestoreInv
<1>3. restores'[c] = new
  <2>1. restores'[c] = [old EXCEPT !.at = "run", !.sees = sees]
    BY <1>1, Zenon
  <2>2. old = RestoreOf(old.at, old.leg, old.to, old.route, old.sees, old.alone)
    BY <1>2, Zenon DEF Fits
  <2> HIDE DEF old, sees
  <2> QED BY <2>1, <2>2 DEF RestoreOf
<1>4. \A d \in Threads \ {c} :
        \/ restores'[d] = restores[d]
        \/ /\ Meets(restores[d])
           /\ restores'[d] = [restores[d] EXCEPT !.sees = "part"]
  <2> SUFFICES ASSUME NEW d \in Threads \ {c}
               PROVE  \/ restores'[d] = restores[d]
                      \/ /\ Meets(restores[d])
                         /\ restores'[d] = [restores[d] EXCEPT !.sees = "part"]
    OBVIOUS
  <2> HIDE DEF old, Meets, sees
  <2>1. d \in Threads /\ d # c
    OBVIOUS
  <2>2. restores'[d] = CASE d = c -> [old EXCEPT !.at = "run", !.sees = sees]
             [] d # c /\ Meets(restores[d]) -> [restores[d] EXCEPT !.sees = "part"]
             [] OTHER -> restores[d]
    BY <1>1, <2>1, Zenon
  <2> QED BY <2>1, <2>2, Zenon
<1>5. \A d \in Threads \ {c} :
        Meets(restores[d]) => ~restores[d].alone /\ ~old.alone
  <2> SUFFICES ASSUME NEW d \in Threads \ {c}, Meets(restores[d])
               PROVE  ~restores[d].alone /\ ~old.alone
    OBVIOUS
  <2>1. Fits(restores[d]) /\ restores[d].at # "idle"
    BY DEF RestoreInv
  <2>2. Restore!Share(old, restores[d])
    BY <1>1, <1>2, <2>1, FilesAreOwn
  <2>3. Restore!Share(restores[d], old)
    BY <2>2 DEF Restore!Share
  <2> QED BY <1>1, <2>1, <2>2, <2>3 DEF RestoreInv
<1>6. old.alone => sees = image[Restore!Reads(old)]
  <2>1. ~Meets(old)
    BY <1>1
  <2> HIDE DEF Meets, old
  <2>2. old.alone => ~met
    BY <1>5, <2>1 DEF old
  <2> QED BY <2>2, Zenon
<1>7. old.alone => image[Restore!Reads(old)] = "whole"
  <2>1. CASE old.leg = 2
    <3>1. Restore!Reads(old) = Restore!Temporary(old)
      BY <2>1, Zenon DEF Restore!Reads
    <3>2. Sound(old, image)
      BY DEF RestoreInv
    <3> QED BY <1>1, <2>1, <3>1, <3>2 DEF Sound
  <2>2. CASE old.leg # 2
    BY <2>2 DEF Restore!Reads, RestoreInv
  <2> QED BY <2>1, <2>2
<1>8. image'[Restore!Writes(old)] = "part" /\ DOMAIN image' = Restore!Images
      /\ \A f \in Restore!Images : f # Restore!Writes(old) => image'[f] = image[f]
  <2>1. Restore!Writes(old) \in Restore!Images
    BY <1>1, <1>2, FilesAreNamed
  <2> QED BY <1>1, <2>1 DEF RestoreInv
<1> HIDE DEF Meets, sees, new
<1>9. PICK r : r = new
  OBVIOUS
<1>10. /\ r.at = "run" /\ r.leg = old.leg /\ r.to = old.to
       /\ r.route = old.route /\ r.sees = sees /\ r.alone = old.alone
       /\ r = RestoreOf(r.at, r.leg, r.to, r.route, r.sees, r.alone)
  <2>1. r = RestoreOf("run", old.leg, old.to, old.route, sees, old.alone)
    BY <1>9 DEF new
  <2> HIDE DEF old
  <2> QED BY <2>1, RestoreFields
<1>11. Restore!Writes(r) = Restore!Writes(old)
  BY <1>10 DEF Restore!Writes, Restore!Temporary
<1>12. Fits(r)
  BY <1>1, <1>2, <1>10 DEF Fits
<1>13. r.alone => r.sees = "whole"
  BY <1>6, <1>7, <1>10
<1>14. Sound(r, image')
  BY <1>8, <1>10, <1>11, <1>13 DEF Sound
<1>15. restores'[c] = r /\ DOMAIN restores' = Threads
  BY <1>1, <1>3, <1>9, Zenon
<1>16. \A d \in Threads \ {c} :
         \/ restores'[d] = restores[d]
         \/ /\ ~restores[d].alone
            /\ restores'[d] = [restores[d] EXCEPT !.sees = "part"]
  BY <1>4, <1>5, Zenon
<1>17. \A f \in Restore!Images :
         f \notin {Restore!Writes(old), Restore!Temporary(old)} => image'[f] = image[f]
  BY <1>8
<1> QED BY <1>1, <1>8, <1>10, <1>12, <1>14, <1>15, <1>16, <1>17, RestoreAdvance

(* A command ends well: alone, it has made a whole image.                  *)
LEMMA ConvertedHolds ==
  ASSUME RestoreInv, NEW c \in Threads, Restore!Converted(c)
  PROVE  RestoreInv'
<1> DEFINE old == restores[c]
           more == old.leg = 1 /\ old.route # "direct"
           removed == IF old.leg = 2 THEN {Restore!Temporary(old)} ELSE {}
           next == IF more THEN [old EXCEPT !.at = "ready", !.leg = 2, !.sees = "part"]
                   ELSE Restore!Idle
<1>1. /\ old.at = "run" /\ restores' = [restores EXCEPT ![c] = next]
      /\ restored' = IF ~more /\ old.alone THEN restored \cup {old.to} ELSE restored
  BY Zenon DEF Restore!Converted
<1>2. PICK made \in IF old.sees = "whole" THEN {"whole"} ELSE {"part", "whole"} :
        image' = [f \in Restore!Images |->
          IF f \in removed THEN "absent"
          ELSE IF f = Restore!Writes(old) /\ image[f] # "absent" THEN made
          ELSE image[f]]
  BY Zenon DEF Restore!Converted
<1>3. Fits(old) /\ Sound(old, image)
  BY DEF RestoreInv
<1>4. /\ DOMAIN image' = Restore!Images
      /\ \A f \in Restore!Images :
           f \notin {Restore!Writes(old), Restore!Temporary(old)} => image'[f] = image[f]
  BY <1>2
<1>5. Restore!Writes(old) \in Restore!Images /\ Restore!Writes(old) \notin removed
  <2>1. Restore!Writes(old) \in Restore!Images
    BY <1>1, <1>3, FilesAreNamed
  <2>2. old.leg = 2 => Restore!Writes(old) = <<old.to, "disk">>
    BY DEF Restore!Writes
  <2>3. Restore!Temporary(old)[2] = "raw"
    BY DEF Restore!Temporary
  <2>4. \A to : <<to, "disk">>[2] = "disk"
    OBVIOUS
  <2>5. old.leg = 2 => Restore!Writes(old) # Restore!Temporary(old)
    BY <2>2, <2>3, <2>4
  <2> QED BY <2>1, <2>5
<1>6. old.alone => image'[Restore!Writes(old)] = "whole"
  BY <1>1, <1>2, <1>3, <1>5 DEF Sound
<1>7. more => Restore!Writes(old) = Restore!Temporary(old)
  BY DEF Restore!Writes
<1>8. ~more => Restore!Writes(old) = <<old.to, "disk">>
  BY <1>3 DEF Restore!Writes, Fits
<1> HIDE DEF removed
<1>9. PICK r : r = next
  OBVIOUS
<1>10. CASE more
  <2>1. r = RestoreOf("ready", 2, old.to, old.route, "part", old.alone)
    <3>1. r = [old EXCEPT !.at = "ready", !.leg = 2, !.sees = "part"]
      BY <1>9, <1>10, Zenon
    <3>2. old = RestoreOf(old.at, old.leg, old.to, old.route, old.sees, old.alone)
      BY <1>3, Zenon DEF Fits
    <3> HIDE DEF old, next
    <3> QED BY <3>1, <3>2 DEF RestoreOf
  <2>2. /\ r.at = "ready" /\ r.leg = 2 /\ r.to = old.to
        /\ r.route = old.route /\ r.alone = old.alone
        /\ r = RestoreOf(r.at, r.leg, r.to, r.route, r.sees, r.alone)
    <3> HIDE DEF old, next
    <3> QED BY <2>1, RestoreFields
  <2>3. Restore!Temporary(r) = Restore!Temporary(old)
    BY <2>2 DEF Restore!Temporary
  <2>4. Sound(r, image')
    BY <1>6, <1>7, <1>10, <2>2, <2>3 DEF Sound
  <2>5. Fits(r)
    BY <1>1, <1>3, <1>10, <2>2 DEF Fits
  <2>6. restored' = restored
    BY <1>1, <1>10, Zenon
  <2>7. /\ restores'[c] = r /\ DOMAIN restores' = Threads
        /\ \A d \in Threads \ {c} : restores'[d] = restores[d]
    <3> HIDE DEF next
    <3> QED BY <1>1, <1>9 DEF RestoreInv
  <2> HIDE DEF more, next
  <2> QED BY <1>1, <1>4, <2>2, <2>4, <2>5, <2>6, <2>7, RestoreAdvance
<1>11. CASE ~more
  <2>1. r = Restore!Idle
    BY <1>9, <1>11, Zenon
  <2>2. r.at = "idle" /\ Fits(r)
    BY <2>1, IdleFits
  <2>3. Sound(r, image')
    BY <2>2 DEF Sound
  <2>4. \/ restored' = restored
        \/ /\ restored' = restored \cup {old.to}
           /\ r.at = "idle" /\ old.alone
           /\ image'[<<old.to, "disk">>] = "whole"
    <3>1. CASE old.alone
      BY <1>1, <1>6, <1>8, <1>11, <2>2, <3>1
    <3>2. CASE ~old.alone
      BY <1>1, <3>2, Zenon
    <3> QED BY <3>1, <3>2
  <2>5. /\ restores'[c] = r /\ DOMAIN restores' = Threads
        /\ \A d \in Threads \ {c} : restores'[d] = restores[d]
    <3> HIDE DEF next
    <3> QED BY <1>1, <1>9 DEF RestoreInv
  <2> HIDE DEF more, next
  <2> QED BY <1>1, <1>4, <2>2, <2>3, <2>4, <2>5, RestoreAdvance
<1> QED BY <1>10, <1>11

LEMMA FailedHolds ==
  ASSUME RestoreInv, NEW c \in Threads, Restore!Failed(c)
  PROVE  RestoreInv'
<1> DEFINE old == restores[c]
<1>1. /\ old.at # "idle" /\ restored' = restored
      /\ restores' = [restores EXCEPT ![c] = Restore!Idle]
      /\ image' = IF old.leg = 2
                  THEN [image EXCEPT ![Restore!Temporary(old)] = "absent"]
                  ELSE image
  BY DEF Restore!Failed, Restore!UnderWay
<1>2. /\ DOMAIN image' = Restore!Images
      /\ \A f \in Restore!Images :
           f \notin {Restore!Writes(old), Restore!Temporary(old)} => image'[f] = image[f]
  BY <1>1 DEF RestoreInv
<1>3. /\ restores'[c] = Restore!Idle /\ DOMAIN restores' = Threads
      /\ \A d \in Threads \ {c} : restores'[d] = restores[d]
  BY <1>1 DEF RestoreInv
<1>4. Restore!Idle.at = "idle" /\ Fits(Restore!Idle)
  BY IdleFits
<1>5. Sound(Restore!Idle, image')
  BY <1>4 DEF Sound
<1> QED BY <1>1, <1>2, <1>3, <1>4, <1>5, RestoreAdvance

LEMMA RestoreStepHolds == RestoreInv /\ [Next]_vars => RestoreInv'
<1> SUFFICES ASSUME RestoreInv, [Next]_vars
             PROVE  RestoreInv'
  OBVIOUS
<1>1. CASE UNCHANGED restoreVars
  <2>1. image' = image /\ restores' = restores /\ restored' = restored
    BY <1>1 DEF restoreVars
  <2> QED BY <2>1, Zenon DEF RestoreInv, Restore!RestoredIsWhole
<1> QED BY <1>1, ConvertDiskHolds, ConvertFormatHolds, ConvertedHolds,
           FailedHolds, RestoreMoves DEF Restore!Next

(* A job that is told a success by an agent that runs a command has left a *)
(* whole copy if it was the first, a call to rman that met no other is     *)
(* told what its rman did, but for what follows a full backup, and a disk  *)
(* told restored by a call that shared no file is whole: for any files,    *)
(* disks and number of threads.                                            *)
THEOREM SuccessHasCopyHolds == Spec => []SuccessHasCopy
<1>1. AgentInv => Agent!SuccessHasCopy
  BY Zenon DEF AgentInv
<1>2. OracleInv => Oracle!AloneIsToldTruly
  <2> SUFFICES ASSUME ResultsAreTrue, NEW c \in Threads
               PROVE  ToldTruly(results[c], calls[c].plan # <<>>)
    BY Zenon DEF OracleInv, Oracle!AloneIsToldTruly, ToldTruly
  <2> QED BY Zenon DEF ResultsAreTrue
<1>3. RestoreInv => Restore!RestoredIsWhole
  BY Zenon DEF RestoreInv
<1>4. AgentInv /\ OracleInv /\ RestoreInv => SuccessHasCopy
  BY <1>1, <1>2, <1>3, Zenon DEF SuccessHasCopy
<1> QED BY <1>4, AgentInitHolds, AgentStepHolds, OracleInitHolds,
           OracleStepHolds, RestoreInitHolds, RestoreStepHolds, PTL DEF Spec

-----------------------------------------------------------------------------
(* The verification of a restored machine.                                 *)

LEMMA VerificationMoves ==
  [Next]_vars => Verification!Next \/ UNCHANGED verificationVars
BY OneMoves DEF OthersKeep, vars

Called(t) == caller[t] # "idle"
Own(t) == {t} \X Verification!Checks

(* What the result of a call says once its worker is over.                 *)
Outcome(t) ==
  \/ result.status = "TIMEOUT" /\ result.passed = {}
  \/ /\ <<t, "boot">> \in result.passed
     /\ \/ result.status = "PASSED" /\ result.passed = Own(t) /\ ~stopped[t]
        \/ result.status = "FAILED" /\ (result.passed # Own(t) \/ stopped[t])

(* How far the worker of t is, if no other call came between.              *)
Seen(t) ==
  /\ run[t] \in {"none", "boot", "wait", "timeout", "booted"} =>
       result.passed = {} \/ caller[t] = "reset"
  /\ run[t] \in {"network", "services", "checksum", "end"} =>
       <<t, "boot">> \in result.passed
  /\ run[t] = "over" => Outcome(t)
  /\ result.passed \subseteq Own(t) \/ caller[t] = "reset"

Agreed(t) == cancelled <=> stopped[t]
Flagged(t) == run[t] = "over" \/ Agreed(t)

Progress(t) == Seen(t) /\ Flagged(t)

VerificationType ==
  /\ caller \in [Threads ->
       {"idle", "reset", "create", "assign", "join", "take"}]
  /\ DOMAIN run = Threads
  /\ stopped \in [Threads -> BOOLEAN] /\ overlapped \in [Threads -> BOOLEAN]
  /\ result = [status |-> result.status, passed |-> result.passed]
  /\ result.passed \subseteq Threads \X Verification!Checks

(* A worker runs from when it is created until it is joined.  Of two calls *)
(* at a time both are known to overlap; one handle is held.                *)
VerificationShape ==
  /\ \A t \in Threads :
       /\ caller[t] \in {"idle", "reset", "create"} => run[t] = "none"
       /\ caller[t] \in {"assign", "join"} => run[t] # "none"
       /\ caller[t] = "take" => run[t] = "over"
       /\ ~Called(t) => ~stopped[t]
  /\ \A t, u \in Threads : t # u /\ Called(t) /\ Called(u) => overlapped[t]
  /\ ~terminated => \A t \in Threads : t \in handle <=> caller[t] = "join"
  /\ handle \subseteq Threads /\ \A t, u \in handle : t = u
  /\ result.status = "PASSED" => Verification!AllPassed

OwnProgress == \A t \in Threads : Called(t) /\ ~overlapped[t] => Progress(t)

VerificationInv == VerificationType /\ VerificationShape /\ OwnProgress

LEMMA VerificationInitHolds == Init => VerificationInv
<1> SUFFICES ASSUME Verification!Init
             PROVE  VerificationInv
  BY DEF Init
<1>1. /\ \A t \in Threads : ~stopped[t] /\ caller[t] = "idle" /\ run[t] = "none"
      /\ stopped \in [Threads -> BOOLEAN] /\ overlapped \in [Threads -> BOOLEAN]
      /\ ~terminated
  BY Zenon DEF Verification!Init
<1>2. VerificationType
  BY <1>1 DEF Verification!Init, VerificationType
<1>3. handle = {} /\ result.status # "PASSED"
  BY DEF Verification!Init
<1>4. VerificationShape
  BY <1>1, <1>3 DEF VerificationShape, Called
<1> QED BY <1>1, <1>2, <1>4 DEF VerificationInv, OwnProgress, Called

(* A step of a call under way concerns it alone: another one overlaps.     *)
LEMMA OwnStep ==
  ASSUME VerificationInv, NEW t \in Threads, Called(t),
         \A u \in Threads \ {t} : caller'[u] = caller[u],
         \A u \in Threads \ {t} : overlapped'[u] = overlapped[u],
         Called(t)' /\ ~overlapped'[t] => Progress(t)'
  PROVE  OwnProgress'
<1> SUFFICES ASSUME NEW u \in Threads, u # t, Called(u)', ~overlapped'[u]
             PROVE  FALSE
  BY Zenon DEF OwnProgress
<1>1. Called(u)
  BY DEF Called
<1>2. overlapped[u]
  BY <1>1, Zenon DEF VerificationInv, VerificationShape
<1> QED BY <1>2, Zenon

LEMMA OwnAll ==
  ASSUME NEW t, NEW p \in SUBSET Own(t)
  PROVE  {q[2] : q \in p} = Verification!Checks <=> p = Own(t)
<1>1. \A q \in p : q = <<t, q[2]>> /\ q[2] \in Verification!Checks
  BY DEF Own
<1>2. {q[2] : q \in p} = Verification!Checks => Own(t) \subseteq p
  BY <1>1 DEF Own
<1>3. p = Own(t) => \A k \in Verification!Checks : <<t, k>> \in p /\ <<t, k>>[2] = k
  BY DEF Own
<1> QED BY <1>1, <1>2, <1>3

(* More checks that are passed are no fewer than all.                      *)
LEMMA MorePassed ==
  ASSUME NEW p, NEW q \in Threads \X Verification!Checks,
         p \subseteq Threads \X Verification!Checks,
         {x[2] : x \in p} = Verification!Checks
  PROVE  {x[2] : x \in p \cup {q}} = Verification!Checks
<1>1. q[2] \in Verification!Checks
  OBVIOUS
<1>2. {x[2] : x \in p \cup {q}} = {x[2] : x \in p} \cup {q[2]}
  OBVIOUS
<1> QED BY <1>1, <1>2

(* A step of the worker of t.                                              *)
LEMMA WorkerKeeps ==
  ASSUME VerificationInv, NEW t \in Threads, NEW from, NEW to,
         Verification!WorkerStep(t, from, to),
         from \notin {"none", "over"}, to # "none",
         result' = [status |-> result'.status, passed |-> result'.passed],
         result'.passed \subseteq Threads \X Verification!Checks,
         result'.status = "PASSED" => Verification!AllPassed',
         Progress(t) => Seen(t)'
  PROVE  VerificationInv'
<1>1. /\ run[t] = from /\ run' = [run EXCEPT ![t] = to]
      /\ caller' = caller /\ handle' = handle
  BY DEF Verification!WorkerStep
<1>2. /\ cancelled' = cancelled /\ terminated' = terminated
      /\ stopped' = stopped /\ overlapped' = overlapped
  BY DEF Verification!WorkerStep
<1>3. caller[t] \in {"assign", "join"}
  BY <1>1 DEF VerificationInv, VerificationType, VerificationShape
<1>5. stopped' \in [Threads -> BOOLEAN] /\ overlapped' \in [Threads -> BOOLEAN]
  BY <1>2, Zenon DEF VerificationInv, VerificationType
<1>6. VerificationType'
  BY <1>1, <1>5 DEF VerificationInv, VerificationType
<1>7. \A u \in Threads : Called(u)' <=> Called(u)
  BY <1>1 DEF Called
<1>8. \A u \in Threads :
        /\ caller[u] \in {"idle", "reset", "create"} => run'[u] = "none"
        /\ caller[u] \in {"assign", "join"} => run'[u] # "none"
        /\ caller[u] = "take" => run'[u] = "over"
  BY <1>1, <1>3 DEF VerificationInv, VerificationType, VerificationShape
<1>10. VerificationShape'
  <2>1. /\ \A u \in Threads : ~Called(u)' => ~stopped'[u]
        /\ \A u, v \in Threads : u # v /\ Called(u)' /\ Called(v)' => overlapped'[u]
        /\ ~terminated' => \A u \in Threads : u \in handle' <=> caller'[u] = "join"
    BY <1>1, <1>2, <1>7, Zenon DEF VerificationInv, VerificationShape
  <2>2. handle' \subseteq Threads /\ \A u, v \in handle' : u = v
    BY <1>1 DEF VerificationInv, VerificationShape
  <2> QED BY <1>1, <1>8, <2>1, <2>2, Zenon DEF VerificationShape
<1>11. Called(t)
  BY <1>3 DEF Called
<1>12. OwnProgress'
  <2>1. ~overlapped[t] => Progress(t)
    BY <1>11, Zenon DEF VerificationInv, OwnProgress
  <2>2. Progress(t) => Agreed(t)'
    BY <1>1, <1>2, Zenon DEF Progress, Flagged, Agreed
  <2>3. ~overlapped'[t] => Progress(t)'
    BY <1>2, <2>1, <2>2, Zenon DEF Progress, Flagged
  <2> QED BY <1>1, <1>2, <1>11, <2>3, OwnStep, Zenon
<1> QED BY <1>6, <1>10, <1>12 DEF VerificationInv

(* A check is recorded as passed, or left out.                             *)
LEMMA PassIsMore ==
  ASSUME VerificationInv, NEW t \in Threads, NEW k \in Verification!Checks,
         NEW s \in {result.status, "CHECKING"},
         Verification!Pass(t, k, s)
  PROVE  /\ result' = [status |-> result'.status, passed |-> result'.passed]
         /\ result'.passed = result.passed \cup {<<t, k>>}
         /\ result'.passed \subseteq Threads \X Verification!Checks
         /\ result'.status = "PASSED" => Verification!AllPassed'
         /\ result.passed \subseteq Own(t) => result'.passed \subseteq Own(t)
<1>1. result' = [status |-> s, passed |-> result.passed \cup {<<t, k>>}]
  BY DEF Verification!Pass
<1>2. result'.status = s /\ result'.passed = result.passed \cup {<<t, k>>}
  BY <1>1
<1>3. <<t, k>> \in Threads \X Verification!Checks /\ <<t, k>> \in Own(t)
  BY DEF Own
<1>4. result.passed \subseteq Threads \X Verification!Checks
  BY DEF VerificationInv, VerificationType
<1>5. ASSUME s = "PASSED"
      PROVE  Verification!AllPassed'
  <2>1. {q[2] : q \in result.passed} = Verification!Checks
    BY <1>5 DEF VerificationInv, VerificationShape, Verification!AllPassed
  <2>2. {q[2] : q \in result.passed \cup {<<t, k>>}} = Verification!Checks
    BY <1>3, <1>4, <2>1, MorePassed
  <2> QED BY <1>2, <2>2 DEF Verification!AllPassed
<1> QED BY <1>1, <1>2, <1>3, <1>4, <1>5

LEMMA WorkerHolds ==
  ASSUME VerificationInv, NEW t \in Threads, Verification!DoVerify(t)
  PROVE  VerificationInv'
<1>1. /\ result = [status |-> result.status, passed |-> result.passed]
      /\ result.passed \subseteq Threads \X Verification!Checks
      /\ result.status = "PASSED" => Verification!AllPassed
  BY DEF VerificationInv, VerificationType, VerificationShape
<1>2. {"boot", "network", "services", "checksum"} = Verification!Checks
  BY DEF Verification!Checks
<1>3. ASSUME NEW from \in {"boot", "wait", "timeout", "booted", "network",
                          "services", "checksum", "end"},
             NEW to, Verification!WorkerStep(t, from, to)
      PROVE  /\ run[t] = from /\ run'[t] = to /\ caller'[t] = caller[t]
             /\ caller[t] # "reset" /\ stopped' = stopped
             /\ from \notin {"none", "over"}
  BY <1>3 DEF Verification!WorkerStep, VerificationInv, VerificationType,
              VerificationShape
<1>4. UNCHANGED result =>
        /\ result' = [status |-> result'.status, passed |-> result'.passed]
        /\ result'.passed \subseteq Threads \X Verification!Checks
        /\ result'.status = "PASSED" => Verification!AllPassed'
  BY <1>1 DEF Verification!AllPassed
<1>5. CASE Verification!Boot(t)
  <2>1. Verification!WorkerStep(t, "boot", "wait")
    BY <1>5 DEF Verification!Boot
  <2>2. /\ result' = [status |-> result'.status, passed |-> result'.passed]
        /\ result'.passed = result.passed /\ result'.status = "BOOTING"
    BY <1>1, <1>5 DEF Verification!Boot
  <2>3. Progress(t) => Seen(t)'
    BY <1>3, <2>1, <2>2 DEF Progress, Seen
  <2>4. result'.passed \subseteq Threads \X Verification!Checks
        /\ result'.status # "PASSED"
    BY <1>1, <2>2
  <2> QED BY <1>3, <2>1, <2>2, <2>3, <2>4, WorkerKeeps
<1>6. ASSUME NEW b \in BOOLEAN, Verification!WaitForBoot(t, b)
      PROVE  VerificationInv'
  <2>1. PICK to \in {"booted", "timeout"} : Verification!WorkerStep(t, "wait", to)
    BY <1>6, Zenon DEF Verification!WaitForBoot
  <2>2. UNCHANGED result
    BY <1>6 DEF Verification!WaitForBoot
  <2>3. Progress(t) => Seen(t)'
    BY <1>3, <2>1, <2>2 DEF Progress, Seen
  <2> QED BY <1>3, <1>4, <2>1, <2>2, <2>3, WorkerKeeps
<1>7. CASE Verification!Timeout(t)
  <2>1. Verification!WorkerStep(t, "timeout", "over")
    BY <1>7 DEF Verification!Timeout
  <2>2. /\ result' = [status |-> result'.status, passed |-> result'.passed]
        /\ result'.passed = result.passed /\ result'.status = "TIMEOUT"
    BY <1>1, <1>7 DEF Verification!Timeout
  <2>3. Progress(t) => Seen(t)'
    BY <1>3, <2>1, <2>2 DEF Progress, Seen, Outcome
  <2>4. result'.passed \subseteq Threads \X Verification!Checks
        /\ result'.status # "PASSED"
    BY <1>1, <2>2
  <2> QED BY <1>3, <2>1, <2>2, <2>3, <2>4, WorkerKeeps
<1>8. CASE Verification!Booted(t)
  <2>1. Verification!WorkerStep(t, "booted", "network")
        /\ Verification!Pass(t, "boot", result.status)
    BY <1>8 DEF Verification!Booted
  <2>2. /\ result' = [status |-> result'.status, passed |-> result'.passed]
        /\ result'.passed = result.passed \cup {<<t, "boot">>}
        /\ result'.passed \subseteq Threads \X Verification!Checks
        /\ result'.status = "PASSED" => Verification!AllPassed'
        /\ result.passed \subseteq Own(t) => result'.passed \subseteq Own(t)
    BY <2>1, <1>2, PassIsMore
  <2>3. Progress(t) => Seen(t)'
    <3>1. run[t] = "booted" /\ run'[t] = "network" /\ caller'[t] = caller[t]
          /\ caller[t] # "reset"
      BY <1>3, <2>1
    <3>2. <<t, "boot">> \in result'.passed
      BY <2>2
    <3>3. Own(t)' = Own(t)
      BY DEF Own
    <3> QED BY <2>2, <3>1, <3>2, <3>3 DEF Progress, Seen
  <2> QED BY <1>3, <2>1, <2>2, <2>3, WorkerKeeps
<1>9. ASSUME NEW wanted \in BOOLEAN, NEW k \in Verification!Checks,
             k # "boot", NEW to \in {"services", "checksum", "end"},
             NEW s \in {result.status, "CHECKING"},
             Verification!Check(t, k, to, s, wanted)
      PROVE  VerificationInv'
  <2>1. Verification!WorkerStep(t, k, to)
    BY <1>9 DEF Verification!Check
  <2>2. Verification!Pass(t, k, s) \/ UNCHANGED result
    BY <1>9, Zenon DEF Verification!Check
  <2>3. /\ result' = [status |-> result'.status, passed |-> result'.passed]
        /\ result.passed \subseteq result'.passed
        /\ result'.passed \subseteq Threads \X Verification!Checks
        /\ result'.status = "PASSED" => Verification!AllPassed'
        /\ result.passed \subseteq Own(t) => result'.passed \subseteq Own(t)
    BY <2>2, <1>4, PassIsMore
  <2>4. k \in {"network", "services", "checksum"}
    BY <1>2, <1>9
  <2>5. Progress(t) => Seen(t)'
    <3>1. run[t] = k /\ run'[t] = to /\ caller'[t] = caller[t]
          /\ caller[t] # "reset"
      BY <1>3, <2>1, <2>4
    <3>2. Own(t)' = Own(t)
      BY DEF Own
    <3> QED BY <1>9, <2>3, <2>4, <3>1, <3>2 DEF Progress, Seen
  <2> QED BY <1>3, <1>9, <2>1, <2>3, <2>4, <2>5, WorkerKeeps
<1>10. CASE Verification!VerifyChecksums(t)
  BY <1>2, <1>9, <1>10 DEF Verification!VerifyChecksums
<1>11. ASSUME NEW b \in BOOLEAN,
              Verification!CheckNetwork(t, b) \/ Verification!CheckServices(t, b)
       PROVE  VerificationInv'
  BY <1>2, <1>9, <1>11 DEF Verification!CheckNetwork, Verification!CheckServices
<1>12. CASE Verification!Finish(t)
  <2>1. Verification!WorkerStep(t, "end", "over")
    BY <1>12 DEF Verification!Finish
  <2>2. /\ result' = [status |-> result'.status, passed |-> result'.passed]
        /\ result'.passed = result.passed
        /\ result'.status = Verification!FinalStatus
    BY <1>1, <1>12 DEF Verification!Finish
  <2>3. Verification!AllPassed' <=> Verification!AllPassed
    BY <2>2 DEF Verification!AllPassed
  <2>4. \/ /\ result'.status = "PASSED"
           /\ ~cancelled /\ Verification!AllPassed
        \/ /\ result'.status = "FAILED"
           /\ cancelled \/ ~Verification!AllPassed
    BY <2>2, Zenon DEF Verification!FinalStatus
  <2>5. Progress(t) => Seen(t)'
    <3> SUFFICES ASSUME Progress(t)
                 PROVE  Seen(t)'
      OBVIOUS
    <3>1. run[t] = "end" /\ run'[t] = "over" /\ caller'[t] = caller[t]
          /\ caller[t] # "reset"
      BY <1>3, <2>1
    <3>2. Own(t)' = Own(t)
      BY DEF Own
    <3>3. result.passed \subseteq Own(t) /\ <<t, "boot">> \in result.passed
      BY <3>1 DEF Progress, Seen
    <3>4. Verification!AllPassed <=> result.passed = Own(t)
      BY <3>3, OwnAll DEF Verification!AllPassed
    <3>5. (stopped'[t] <=> stopped[t]) /\ Agreed(t)
      BY <1>3, <2>1, <3>1, Zenon DEF Progress, Flagged
    <3>6. \/ result'.status = "PASSED" /\ result'.passed = Own(t)' /\ ~stopped'[t]
          \/ result'.status = "FAILED" /\ (result'.passed # Own(t)' \/ stopped'[t])
      BY <2>2, <2>4, <3>2, <3>4, <3>5, Zenon DEF Agreed
    <3>7. Outcome(t)'
      BY <2>2, <3>3, <3>6, Zenon DEF Outcome
    <3> QED BY <2>2, <3>1, <3>2, <3>3, <3>7 DEF Seen
  <2>6. /\ result'.passed \subseteq Threads \X Verification!Checks
        /\ result'.status = "PASSED" => Verification!AllPassed'
    BY <1>1, <2>2, <2>3, <2>4
  <2>7. "end" \notin {"none", "over"} /\ "over" # "none"
    OBVIOUS
  <2> QED BY <2>1, <2>2, <2>5, <2>6, <2>7, WorkerKeeps
<1> QED BY <1>5, <1>6, <1>7, <1>8, <1>10, <1>11, <1>12 DEF Verification!DoVerify

(* A step of the call of t other than its first: the worker's part has     *)
(* its own facts, and a handle is that of who joins.                       *)
LEMMA CallHolds ==
  ASSUME VerificationInv, NEW t \in Threads, Verification!Call(t)
  PROVE  VerificationInv'
<1> DEFINE others == {u \in Threads \ {t} : caller[u] # "idle"}
<1>1. /\ caller[t] = "idle" /\ caller' = [caller EXCEPT ![t] = "reset"]
      /\ run' = run /\ result' = result /\ handle' = handle
  BY DEF Verification!Call
<1>2. /\ ~cancelled' /\ terminated' = terminated /\ stopped' = stopped
      /\ overlapped' = [u \in Threads |->
           overlapped[u] \/ u \in others \/ (u = t /\ others # {})]
  BY Zenon DEF Verification!Call
<1>3. stopped' \in [Threads -> BOOLEAN] /\ overlapped' \in [Threads -> BOOLEAN]
  BY <1>2, Zenon DEF VerificationInv, VerificationType
<1>4. /\ \A u \in others : overlapped'[u]
      /\ others # {} => overlapped'[t]
  BY <1>2, Zenon
<1>5. /\ caller'[t] = "reset"
      /\ \A u \in Threads \ {t} : caller'[u] = caller[u]
      /\ \A u \in Threads \ {t} : Called(u)' => u \in others
  BY <1>1 DEF VerificationInv, VerificationType, Called
<1> HIDE DEF others
<1>6. VerificationType'
  BY <1>1, <1>3 DEF VerificationInv, VerificationType
<1>7. \A u, v \in Threads : u # v /\ Called(u)' /\ Called(v)' => overlapped'[u]
  <2> SUFFICES ASSUME NEW u \in Threads, NEW v \in Threads, u # v,
                      Called(u)', Called(v)'
               PROVE  overlapped'[u]
    BY Zenon
  <2>1. u # t => u \in others
    BY <1>5
  <2>2. u = t => v \in others
    BY <1>5
  <2> QED BY <2>1, <2>2, <1>4, Zenon
<1>8. VerificationShape'
  <2>1. \A u \in Threads : ~Called(u)' => ~stopped'[u]
    BY <1>1, <1>2, <1>5, Zenon DEF VerificationInv, VerificationShape, Called
  <2>2. ~terminated' => \A u \in Threads : u \in handle' <=> caller'[u] = "join"
    <3>1. ASSUME ~terminated', NEW u \in Threads
          PROVE  u \in handle' <=> caller'[u] = "join"
      <4>1. u \in handle <=> caller[u] = "join"
        BY <1>2, <3>1, Zenon DEF VerificationInv, VerificationShape
      <4> QED BY <1>1, <1>5, <4>1
    <3> QED BY <3>1, Zenon
  <2>3. \A u \in Threads :
          /\ caller'[u] \in {"idle", "reset", "create"} => run'[u] = "none"
          /\ caller'[u] \in {"assign", "join"} => run'[u] # "none"
          /\ caller'[u] = "take" => run'[u] = "over"
    BY <1>1, <1>5 DEF VerificationInv, VerificationShape
  <2>4. /\ handle' \subseteq Threads /\ \A u, v \in handle' : u = v
        /\ result'.status = "PASSED" => Verification!AllPassed'
    BY <1>1 DEF VerificationInv, VerificationShape, Verification!AllPassed
  <2> QED BY <1>7, <2>1, <2>2, <2>3, <2>4, Zenon DEF VerificationShape
<1>9. Progress(t)'
  <2>1. run'[t] = "none"
    BY <1>1 DEF VerificationInv, VerificationShape
  <2>2. Seen(t)'
    BY <1>5, <2>1 DEF Seen
  <2>3. ~stopped'[t]
    BY <1>1, <1>2, Zenon DEF VerificationInv, VerificationShape, Called
  <2> QED BY <1>2, <2>2, <2>3, Zenon DEF Progress, Flagged, Agreed
<1>10. OwnProgress'
  <2>1. ASSUME NEW u \in Threads, Called(u)', ~overlapped'[u]
        PROVE  u = t
    BY <1>4, <1>5, <2>1, Zenon
  <2> QED BY <1>9, <2>1, Zenon DEF OwnProgress
<1> QED BY <1>6, <1>8, <1>10 DEF VerificationInv

(* The other steps of a call.                                              *)
LEMMA CallStepKeeps ==
  ASSUME VerificationInv, NEW t \in Threads,
         NEW place \in {"create", "assign", "join", "take"},
         Called(t), caller' = [caller EXCEPT ![t] = place],
         run' = run \/ run' = [run EXCEPT ![t] = "boot"],
         place = "create" => run'[t] = "none",
         place \in {"assign", "join"} => run'[t] # "none",
         place = "take" => run'[t] = "over",
         UNCHANGED <<cancelled, stopped, overlapped>>,
         result' = [status |-> result'.status, passed |-> result'.passed],
         result'.passed \subseteq result.passed,
         result'.status = "PASSED" => Verification!AllPassed',
         handle' \subseteq Threads, \A u, v \in handle' : u = v,
         ~terminated' => \A u \in Threads : u \in handle' <=> caller'[u] = "join",
         Progress(t) => Progress(t)'
  PROVE  VerificationInv'
<1>1. cancelled' = cancelled /\ stopped' = stopped /\ overlapped' = overlapped
  OBVIOUS
<1>2. stopped' \in [Threads -> BOOLEAN] /\ overlapped' \in [Threads -> BOOLEAN]
  BY <1>1, Zenon DEF VerificationInv, VerificationType
<1>3. /\ caller'[t] = place
      /\ \A u \in Threads \ {t} : caller'[u] = caller[u]
      /\ \A u \in Threads : Called(u)' <=> Called(u)
  BY DEF VerificationInv, VerificationType, Called
<1>4. VerificationType'
  BY <1>2 DEF VerificationInv, VerificationType
<1>5. \A u \in Threads :
        /\ caller'[u] \in {"idle", "reset", "create"} => run'[u] = "none"
        /\ caller'[u] \in {"assign", "join"} => run'[u] # "none"
        /\ caller'[u] = "take" => run'[u] = "over"
  BY <1>3 DEF VerificationInv, VerificationShape, VerificationType
<1>6. /\ \A u \in Threads : ~Called(u)' => ~stopped'[u]
      /\ \A u, v \in Threads : u # v /\ Called(u)' /\ Called(v)' => overlapped'[u]
  <2>1. /\ \A u \in Threads : ~Called(u) => ~stopped[u]
        /\ \A u, v \in Threads : u # v /\ Called(u) /\ Called(v) => overlapped[u]
    BY Zenon DEF VerificationInv, VerificationShape
  <2> QED BY <1>1, <1>3, <2>1, ZenonT(30)
<1>7. VerificationShape'
  BY <1>5, <1>6, Zenon DEF VerificationShape
<1>8. ~overlapped[t] => Progress(t)
  BY Zenon DEF VerificationInv, OwnProgress
<1>9. OwnProgress'
  BY <1>1, <1>3, <1>8, OwnStep, Zenon
<1> QED BY <1>4, <1>7, <1>9 DEF VerificationInv

LEMMA TurnHolds ==
  ASSUME VerificationInv, ~terminated, NEW t \in Threads,
         \/ Verification!Reset(t) \/ Verification!Create(t)
         \/ Verification!Assign(t) \/ Verification!Join(t)
  PROVE  VerificationInv'
<1>1. /\ DOMAIN run = Threads /\ DOMAIN caller = Threads
      /\ result = [status |-> result.status, passed |-> result.passed]
  BY DEF VerificationInv, VerificationType
<1>2. /\ caller[t] \in {"idle", "reset", "create"} => run[t] = "none"
      /\ caller[t] \in {"assign", "join"} => run[t] # "none"
      /\ handle \subseteq Threads
      /\ \A u, v \in handle : u = v
      /\ result.status = "PASSED" => Verification!AllPassed
  BY DEF VerificationInv, VerificationShape
<1>3. \A u \in Threads : u \in handle <=> caller[u] = "join"
  BY Zenon DEF VerificationInv, VerificationShape
<1>4. UNCHANGED <<cancelled, stopped>> => Agreed(t)' = Agreed(t)
  BY DEF Agreed
<1>5. UNCHANGED result =>
        /\ result' = [status |-> result'.status, passed |-> result'.passed]
        /\ result'.passed \subseteq result.passed
        /\ result'.status = "PASSED" => Verification!AllPassed'
  BY <1>1, <1>2 DEF Verification!AllPassed
<1>6. CASE Verification!Reset(t)
  <2>1. /\ caller[t] = "reset" /\ caller' = [caller EXCEPT ![t] = "create"]
        /\ result' = [status |-> "RUNNING", passed |-> {}]
        /\ run' = run /\ handle' = handle
        /\ UNCHANGED <<cancelled, stopped, overlapped>>
    BY <1>6 DEF Verification!Reset
  <2>2. terminated' = terminated
    BY <1>6 DEF Verification!Reset
  <2>3. result'.status = "RUNNING" /\ result'.passed = {}
    BY <2>1
  <2>4. \A u \in Threads : u \in handle' <=> caller'[u] = "join"
    BY <1>1, <1>3, <2>1
  <2>5. run'[t] = "none" /\ Called(t)
    BY <1>2, <2>1 DEF Called
  <2>6. Progress(t) => Progress(t)'
    BY <1>4, <2>1, <2>3, <2>5 DEF Progress, Seen, Flagged
  <2> QED BY <1>2, <2>1, <2>3, <2>4, <2>5, <2>6, CallStepKeeps
<1>7. CASE Verification!Create(t)
  <2>1. /\ caller[t] = "create" /\ caller' = [caller EXCEPT ![t] = "assign"]
        /\ run' = [run EXCEPT ![t] = "boot"]
        /\ result' = result /\ handle' = handle
        /\ UNCHANGED <<cancelled, stopped, overlapped>>
    BY <1>7 DEF Verification!Create
  <2>2. \A u \in Threads : u \in handle' <=> caller'[u] = "join"
    BY <1>1, <1>3, <2>1
  <2>3. run'[t] = "boot" /\ Called(t) /\ run[t] = "none" /\ caller'[t] = "assign"
    BY <1>1, <1>2, <2>1 DEF Called
  <2>4. Progress(t) => Progress(t)'
    BY <1>4, <2>1, <2>3 DEF Progress, Seen, Flagged, Own
  <2> QED BY <1>2, <1>5, <2>1, <2>2, <2>3, <2>4, CallStepKeeps
<1>8. CASE Verification!Assign(t)
  <2>1. /\ caller[t] = "assign" /\ caller' = [caller EXCEPT ![t] = "join"]
        /\ handle' = {t} /\ run' = run /\ result' = result
        /\ UNCHANGED <<cancelled, stopped, overlapped>>
    BY <1>8 DEF Verification!Assign
  <2>2. ~terminated' => handle = {}
    BY <1>8, Zenon DEF Verification!Assign
  <2>3. handle = {} => \A u \in Threads : u \in handle' <=> caller'[u] = "join"
    BY <1>1, <1>3, <2>1
  <2>4. Called(t) /\ caller'[t] = "join" /\ run[t] # "none"
    BY <1>1, <1>2, <2>1 DEF Called
  <2>5. Progress(t) => Progress(t)'
    BY <1>4, <2>1, <2>4 DEF Progress, Seen, Flagged, Own, Outcome
  <2> QED BY <1>2, <1>5, <2>1, <2>2, <2>3, <2>4, <2>5, CallStepKeeps
<1>9. CASE Verification!Join(t)
  <2>1. /\ caller[t] = "join" /\ caller' = [caller EXCEPT ![t] = "take"]
        /\ handle' = {} /\ run' = run /\ result' = result /\ run[t] = "over"
        /\ UNCHANGED <<cancelled, stopped, overlapped>>
    BY <1>9 DEF Verification!Join
  <2>2. \A u \in Threads : u \in handle' <=> caller'[u] = "join"
    BY <1>1, <1>2, <1>3, <2>1
  <2>3. Called(t) /\ caller'[t] = "take"
    BY <1>1, <2>1 DEF Called
  <2>4. Progress(t) => Progress(t)'
    BY <1>4, <2>1, <2>3 DEF Progress, Seen, Flagged, Own, Outcome
  <2> QED BY <1>2, <1>5, <2>1, <2>2, <2>3, <2>4, CallStepKeeps
<1> QED BY <1>6, <1>7, <1>8, <1>9

LEMMA TakeHolds ==
  ASSUME VerificationInv, NEW t \in Threads, Verification!Take(t)
  PROVE  VerificationInv'
<1>1. /\ caller[t] = "take" /\ caller' = [caller EXCEPT ![t] = "idle"]
      /\ run' = [run EXCEPT ![t] = "none"]
      /\ result' = result /\ handle' = handle
  BY DEF Verification!Take
<1>2. /\ stopped' = [stopped EXCEPT ![t] = FALSE]
      /\ overlapped' = [overlapped EXCEPT ![t] = FALSE]
      /\ cancelled' = cancelled /\ terminated' = terminated
  BY DEF Verification!Take
<1>3. stopped' \in [Threads -> BOOLEAN] /\ overlapped' \in [Threads -> BOOLEAN]
  BY <1>2, Zenon DEF VerificationInv, VerificationType
<1>4. /\ ~stopped'[t]
      /\ \A u \in Threads \ {t} : overlapped'[u] = overlapped[u]
      /\ \A u \in Threads \ {t} : stopped'[u] = stopped[u]
  BY <1>2, Zenon DEF VerificationInv, VerificationType
<1>5. /\ caller'[t] = "idle" /\ run'[t] = "none"
      /\ \A u \in Threads \ {t} : caller'[u] = caller[u]
      /\ \A u \in Threads \ {t} : run'[u] = run[u]
      /\ Called(t) /\ ~Called(t)'
      /\ \A u \in Threads : u # t => (Called(u)' <=> Called(u))
  BY <1>1 DEF VerificationInv, VerificationType, Called
<1>6. VerificationType'
  BY <1>1, <1>3 DEF VerificationInv, VerificationType
<1>7. VerificationShape'
  <2>1. \A u \in Threads : ~Called(u)' => ~stopped'[u]
    BY <1>4, <1>5, Zenon DEF VerificationInv, VerificationShape
  <2>2. \A u, v \in Threads : u # v /\ Called(u)' /\ Called(v)' => overlapped'[u]
    <3> SUFFICES ASSUME NEW u \in Threads, NEW v \in Threads, u # v,
                        Called(u)', Called(v)'
                 PROVE  overlapped'[u]
      BY Zenon
    <3>1. u # t /\ v # t
      BY <1>5, Zenon
    <3>2. overlapped[u]
      BY <1>5, <3>1, Zenon DEF VerificationInv, VerificationShape
    <3> QED BY <1>4, <3>1, <3>2, Zenon
  <2>3. ~terminated' => \A u \in Threads : u \in handle' <=> caller'[u] = "join"
    <3>1. ASSUME ~terminated', NEW u \in Threads
          PROVE  u \in handle' <=> caller'[u] = "join"
      <4>1. u \in handle <=> caller[u] = "join"
        BY <1>2, <3>1, Zenon DEF VerificationInv, VerificationShape
      <4> QED BY <1>1, <1>5, <4>1
    <3> QED BY <3>1, Zenon
  <2>4. \A u \in Threads :
          /\ caller'[u] \in {"idle", "reset", "create"} => run'[u] = "none"
          /\ caller'[u] \in {"assign", "join"} => run'[u] # "none"
          /\ caller'[u] = "take" => run'[u] = "over"
    BY <1>1, <1>5 DEF VerificationInv, VerificationShape
  <2>5. /\ handle' \subseteq Threads /\ \A u, v \in handle' : u = v
        /\ result'.status = "PASSED" => Verification!AllPassed'
    BY <1>1 DEF VerificationInv, VerificationShape, Verification!AllPassed
  <2> QED BY <2>1, <2>2, <2>3, <2>4, <2>5, Zenon DEF VerificationShape
<1>8. OwnProgress'
  BY <1>4, <1>5, OwnStep, Zenon
<1> QED BY <1>6, <1>7, <1>8 DEF VerificationInv

LEMMA CancelHolds ==
  ASSUME VerificationInv, Verification!Cancel
  PROVE  VerificationInv'
<1>1. /\ caller' = caller /\ run' = run /\ result' = result /\ handle' = handle
  BY DEF Verification!Cancel
<1>2. /\ cancelled' /\ terminated' = terminated /\ overlapped' = overlapped
      /\ stopped' = [t \in Threads |->
           stopped[t] \/ (caller[t] # "idle" /\ run[t] # "over")]
  BY Zenon DEF Verification!Cancel
<1>3. stopped' \in [Threads -> BOOLEAN] /\ overlapped' \in [Threads -> BOOLEAN]
  BY <1>2, Zenon DEF VerificationInv, VerificationType
<1>4. VerificationType'
  BY <1>1, <1>3 DEF VerificationInv, VerificationType
<1>5. \A t \in Threads :
        stopped'[t] <=> stopped[t] \/ (Called(t) /\ run[t] # "over")
  BY <1>2, Zenon DEF Called
<1>6. VerificationShape'
  BY <1>1, <1>2, <1>5, Zenon
     DEF VerificationInv, VerificationShape, Called, Verification!AllPassed
<1>7. OwnProgress'
  <2> SUFFICES ASSUME NEW t \in Threads, Called(t)', ~overlapped'[t]
               PROVE  Progress(t)'
    BY Zenon DEF OwnProgress
  <2>1. Called(t) /\ Progress(t)
    BY <1>1, <1>2, Zenon DEF VerificationInv, OwnProgress, Called
  <2>2. run[t] = "over" => (stopped'[t] <=> stopped[t])
    BY <1>5, Zenon
  <2>3. run[t] # "over" => stopped'[t]
    BY <1>5, <2>1, Zenon
  <2>4. run[t] = "over" => (Outcome(t)' <=> Outcome(t))
    BY <1>1, <2>2, Zenon DEF Outcome, Own
  <2>5. Seen(t)'
    BY <1>1, <2>1, <2>4 DEF Progress, Seen, Own
  <2>6. Flagged(t)'
    BY <1>1, <1>2, <2>3, Zenon DEF Flagged, Agreed
  <2> QED BY <2>5, <2>6 DEF Progress
<1> QED BY <1>4, <1>6, <1>7 DEF VerificationInv

LEMMA VerificationStepHolds == VerificationInv /\ [Next]_vars => VerificationInv'
<1> SUFFICES ASSUME VerificationInv, [Next]_vars
             PROVE  VerificationInv'
  OBVIOUS
<1>1. CASE UNCHANGED verificationVars
  <2>1. /\ caller' = caller /\ run' = run /\ cancelled' = cancelled
        /\ result' = result /\ handle' = handle /\ terminated' = terminated
        /\ stopped' = stopped /\ overlapped' = overlapped
    BY <1>1 DEF verificationVars
  <2>2. VerificationType'
    BY <2>1, Zenon DEF VerificationInv, VerificationType
  <2>3. VerificationShape'
    BY <2>1, Zenon
       DEF VerificationInv, VerificationShape, Called, Verification!AllPassed
  <2>4. OwnProgress'
    BY <2>1, Zenon DEF VerificationInv, OwnProgress, Called, Progress, Seen,
                       Flagged, Agreed, Outcome, Own
  <2> QED BY <2>2, <2>3, <2>4 DEF VerificationInv
<1>2. ASSUME NEW t \in Threads, ~terminated, Verification!Verify(t)
      PROVE  VerificationInv'
  BY <1>2, CallHolds, TurnHolds, TakeHolds DEF Verification!Verify
<1> QED BY <1>1, <1>2, WorkerHolds, CancelHolds, VerificationMoves
       DEF Verification!Next

(* What a call returns is what its worker came to, for any number of       *)
(* threads that verify and cancel at once: one that no other overlapped    *)
(* passes exactly if its own worker made every check and was not stopped,  *)
(* and only an overlap ends the process.                                   *)
THEOREM VerdictIsEarnedHolds == Spec => VerdictIsEarned
<1> DEFINE Earned ==
      /\ \A t \in Threads : caller[t] = "take" /\ caller'[t] = "idle" =>
           Verification!Returned(t)
      /\ terminated' => \E t \in Threads : overlapped[t]
<1>1. ASSUME VerificationInv, NEW t \in Threads, caller[t] = "take"
      PROVE  Verification!Returned(t)
  <2>1. run[t] = "over" /\ Called(t)
    BY <1>1 DEF VerificationInv, VerificationShape, Called
  <2>2. result.status = "PASSED" => Verification!AllPassed
    BY <1>1 DEF VerificationInv, VerificationShape
  <2>3. overlapped[t] \/ Outcome(t)
    BY <1>1, <2>1, Zenon DEF VerificationInv, OwnProgress, Progress, Seen
  <2>4. {t} \X Verification!Checks # {}
    <3>1. <<t, "boot">> \in {t} \X Verification!Checks
      BY DEF Verification!Checks
    <3> QED BY <3>1
  <2>5. Outcome(t) =>
          LET own == {t} \X Verification!Checks
              booted == <<t, "boot">> \in result.passed
          IN  /\ result.status = "PASSED" <=> (result.passed = own /\ ~stopped[t])
              /\ result.status = "TIMEOUT" <=> ~booted
              /\ result.status \in {"PASSED", "TIMEOUT", "FAILED"}
    <3>1. "PASSED" # "TIMEOUT" /\ "PASSED" # "FAILED" /\ "TIMEOUT" # "FAILED"
      OBVIOUS
    <3> QED BY <2>4, <3>1, Zenon DEF Outcome, Own
  <2> QED BY <2>2, <2>3, <2>5, Zenon DEF Verification!Returned
<1>2. ASSUME VerificationInv, Verification!Next
      PROVE  terminated' => \E t \in Threads : overlapped[t]
  <2>1. ASSUME NEW t \in Threads, Verification!Assign(t), terminated', ~terminated
        PROVE  overlapped[t]
    <3>1. caller[t] = "assign" /\ handle # {}
      BY <2>1, Zenon DEF Verification!Assign
    <3>2. PICK u \in Threads : caller[u] = "join"
      BY <1>2, <2>1, <3>1, Zenon DEF VerificationInv, VerificationShape
    <3>3. u # t /\ Called(t) /\ Called(u)
      BY <3>1, <3>2 DEF Called
    <3> QED BY <1>2, <3>3, Zenon DEF VerificationInv, VerificationShape
  <2>2. ASSUME NEW t \in Threads, Verification!DoVerify(t)
        PROVE  terminated' = terminated
    BY <2>2 DEF Verification!DoVerify, Verification!Boot, Verification!Timeout,
       Verification!Booted, Verification!VerifyChecksums, Verification!Finish,
       Verification!WaitForBoot, Verification!CheckNetwork,
       Verification!CheckServices, Verification!Check, Verification!WorkerStep
  <2>3. ASSUME NEW t \in Threads, Verification!Verify(t)
        PROVE  Verification!Assign(t) \/ terminated' = terminated
    BY <2>3 DEF Verification!Verify, Verification!Call, Verification!Reset,
       Verification!Create, Verification!Join, Verification!Take
  <2>4. Verification!Cancel => terminated' = terminated
    BY DEF Verification!Cancel
  <2> QED BY <1>2, <2>1, <2>2, <2>3, <2>4, Zenon DEF Verification!Next
<1>3. VerificationInv /\ [Next]_vars => [Earned]_verificationVars
  BY <1>1, <1>2, VerificationMoves, Zenon
<1>4. VerificationInv /\ [Next]_vars =>
        [/\ \A t \in Threads : caller[t] = "take" /\ caller'[t] = "idle" =>
              Verification!Returned(t)
         /\ terminated' => \E t \in Threads : overlapped[t]]_Verification!verifyVars
  BY <1>3 DEF Verification!verifyVars, verificationVars
<1> QED BY <1>4, VerificationInitHolds, VerificationStepHolds, PTL
       DEF Spec, VerdictIsEarned, Verification!VerdictIsEarned

-----------------------------------------------------------------------------
(* Deduplication.                                                          *)

LEMMA DedupMoves == [Next]_vars => Dedup!Next \/ UNCHANGED dedupVars
BY OneMoves DEF OthersKeep, vars

Ranges == Nat \X Nat
InHand(t) == reader[t].at \in {"lookup", "add"}

DedupType ==
  /\ length \in Nat /\ cuts \subseteq Nat
  /\ reader \in [Threads ->
       [at : {"read", "lookup", "add", "done"}, total : Nat,
        chunk : Ranges \cup {<<>>}, failed : BOOLEAN]]
  /\ refs = [h \in DOMAIN refs |-> refs[h]]
  /\ kept \in [Threads -> SUBSET Ranges]

(* Where the kept part of the file ends for thread t.                      *)
Kept(t) == IF InHand(t) THEN reader[t].chunk[1] ELSE reader[t].total

(* The chunk in hand begins where those that were kept end; they cover the *)
(* file up to there and none is beyond it.  A stream that failed was at    *)
(* less than a chunk from its end, and stopped at a boundary or there.     *)
ReaderShape(t) ==
  /\ reader[t].total <= length
  /\ InHand(t) => /\ reader[t].chunk \in Ranges
                  /\ reader[t].chunk[1] < reader[t].chunk[2]
                  /\ reader[t].chunk[2] = reader[t].total
  /\ \A c \in kept[t] : c[1] < c[2] /\ c[2] <= Kept(t)
  /\ \A i \in 1..Kept(t) : \E c \in kept[t] : i \in (c[1] + 1)..c[2]
  /\ reader[t].failed =>
       /\ length - reader[t].total < MaxChunk
       /\ reader[t].total \in cuts \/ reader[t].total = length
  /\ reader[t].at = "done" => reader[t].failed \/ reader[t].total = length

(* A hash in the table has as many references as it has keepings, and one  *)
(* that a thread is about to add is new, unless it clashed or a statement  *)
(* of it failed.                                                           *)
Adds(t, h) == reader[t].at = "add" /\ Dedup!Hash(reader[t].chunk) = h
Excused(h) == h \in clash \/ h \in unwritten
RefsShape ==
  /\ \A h : IsFiniteSet(Dedup!Keepings(h))
  /\ \A t \in Threads : \A c \in kept[t] :
       Dedup!Hash(c) \in DOMAIN refs \/ Dedup!Hash(c) \in unwritten
  /\ \A h \in DOMAIN refs :
       /\ refs[h] \in Nat /\ refs[h] <= Cardinality(Dedup!Keepings(h))
       /\ Excused(h) \/ refs[h] = Cardinality(Dedup!Keepings(h))
  /\ \A t \in Threads, h \in DOMAIN refs : Adds(t, h) => Excused(h)
  /\ \A t, u \in Threads : \A h :
       t # u /\ Adds(t, h) /\ Adds(u, h) => Excused(h)

DedupInv ==
  DedupType /\ (\A t \in Threads : ReaderShape(t)) /\ RefsShape

LEMMA DedupInitHolds == Init => DedupInv
<1> SUFFICES ASSUME Dedup!Init
             PROVE  DedupInv
  BY DEF Init
<1>1. length \in Nat /\ cuts \subseteq Nat
  BY DedupAssumption DEF Dedup!Init
<1>2. reader = [t \in Threads |-> [at |-> "read", total |-> 0, chunk |-> <<>>,
                                   failed |-> FALSE]]
  BY DEF Dedup!Init
<1>3. DedupType
  BY <1>1, <1>2 DEF Dedup!Init, DedupType
<1>4. \A t \in Threads : ReaderShape(t)
  BY <1>1, <1>2 DEF Dedup!Init, ReaderShape, InHand, Kept
<1>5. RefsShape
  <2>1. \A t \in Threads : kept[t] = {}
    BY DEF Dedup!Init
  <2>2. DOMAIN refs = {}
    BY DEF Dedup!Init
  <2>3. \A h : Dedup!Keepings(h) = {}
    BY <2>1 DEF Dedup!Keepings
  <2>4. \A t \in Threads : reader[t].at # "add"
    BY <1>2
  <2> QED BY <2>1, <2>2, <2>3, <2>4, FS_EmptySet DEF RefsShape, Adds
<1> QED BY <1>3, <1>4, <1>5 DEF DedupInv

(* The module that counts has the library's operator under its own name.   *)
LEMMA DedupCardinality == \A S : Dedup!Cardinality(S) = Cardinality(S)
BY DEF Dedup!Cardinality, Cardinality

(* A boundary lies in the bytes that were read, or is their end.           *)
LEMMA BoundaryIsInside ==
  ASSUME DedupType, NEW from \in Nat, NEW bytes \in Nat, bytes # 0
  PROVE  LET end == Dedup!Boundary(from, bytes)
         IN  /\ end \in Nat /\ from < end /\ end <= from + bytes
             /\ end \in cuts \/ end = from + bytes
<1> DEFINE found == {i \in cuts : from + MinChunk <= i /\ i < from + bytes}
<1>1. CASE found = {}
  BY <1>1 DEF Dedup!Boundary
<1>2. CASE found # {}
  <2>1. found \subseteq Nat
    BY DEF DedupType
  <2>2. PICK x \in found : \A y \in found : ~(<<y, x>> \in OpToRel(<, Nat))
    BY <1>2, <2>1, NatLessThanWellFounded, WFMin
  <2>3. ASSUME NEW y \in found
        PROVE  x <= y
    <3>1. x \in Nat /\ y \in Nat
      BY <2>1
    <3>2. ~(<<y, x>> \in OpToRel(<, Nat))
      BY <2>2, Zenon
    <3>3. y < x => <<y, x>> \in OpToRel(<, Nat)
      BY <3>1 DEF OpToRel
    <3>4. ~(y < x)
      BY <3>2, <3>3, Zenon
    <3> QED BY <3>1, <3>4
  <2>4. Dedup!Least(found) \in found
    BY <2>3, Zenon DEF Dedup!Least
  <2>5. Dedup!Boundary(from, bytes) = Dedup!Least(found)
    BY <1>2 DEF Dedup!Boundary
  <2> QED BY <2>1, <2>4, <2>5, DedupAssumption
<1> QED BY <1>1, <1>2

(* What a thread that does not move has, it keeps.                         *)
LEMMA OtherReaders ==
  ASSUME DedupInv, NEW t \in Threads, NEW r, reader' = [reader EXCEPT ![t] = r],
         UNCHANGED <<length, cuts>>, \A u \in Threads \ {t} : kept'[u] = kept[u],
         ReaderShape(t)'
  PROVE  \A u \in Threads : ReaderShape(u)'
<1> SUFFICES ASSUME NEW u \in Threads, u # t
             PROVE  ReaderShape(u)'
  OBVIOUS
<1>1. ReaderShape(u) /\ reader'[u] = reader[u] /\ kept'[u] = kept[u]
  BY DEF DedupInv, DedupType
<1>2. InHand(u)' <=> InHand(u)
  BY <1>1 DEF InHand
<1>3. Kept(u)' = Kept(u)
  BY <1>1, <1>2 DEF Kept
<1> QED BY <1>1, <1>2, <1>3 DEF ReaderShape

(* Where the table and the holders stay and no thread comes to add.        *)
LEMMA FewerAdd ==
  ASSUME DedupInv, UNCHANGED <<period, refs, kept, clash, unwritten>>,
         \A u \in Threads : reader'[u].at = "add" => reader'[u] = reader[u]
  PROVE  RefsShape'
<1>1. /\ refs' = refs /\ kept' = kept /\ clash' = clash
      /\ unwritten' = unwritten /\ period' = period
  OBVIOUS
<1>2. \A c : Dedup!Hash(c)' = Dedup!Hash(c)
  BY <1>1 DEF Dedup!Hash
<1>3. \A h : Dedup!Keepings(h)' = Dedup!Keepings(h)
  BY <1>1 DEF Dedup!Keepings, Dedup!Hash
<1>4. \A h : Excused(h)' <=> Excused(h)
  BY <1>1 DEF Excused
<1>5. \A u \in Threads : \A h : Adds(u, h)' => Adds(u, h)
  BY <1>1 DEF Adds, Dedup!Hash
<1>6. RefsShape
  BY DEF DedupInv
<1> QED BY <1>1, <1>2, <1>3, <1>4, <1>5, <1>6, Zenon DEF RefsShape

(* A turn of the loop takes the next chunk in hand, or is the last.        *)
LEMMA ReadChunkHolds ==
  ASSUME DedupInv, NEW t \in Threads, Dedup!ReadChunk(t)
  PROVE  DedupInv'
<1> DEFINE r == reader[t]
           bytes == IF length - r.total < MaxChunk THEN length - r.total
                    ELSE MaxChunk
           end == Dedup!Boundary(r.total, bytes)
           failed == bytes < MaxChunk
           next == IF r.failed \/ bytes = 0 THEN [r EXCEPT !.at = "done"]
                   ELSE [at |-> "lookup", total |-> end,
                         chunk |-> <<r.total, end>>, failed |-> failed]
<1>1. /\ r.at = "read" /\ reader' = [reader EXCEPT ![t] = next]
      /\ length' = length /\ cuts' = cuts /\ refs' = refs
      /\ kept' = kept /\ clash' = clash
      /\ period' = period /\ unwritten' = unwritten
  BY DEF Dedup!ReadChunk
<1>2. /\ r \in [at : {"read", "lookup", "add", "done"}, total : Nat,
                chunk : Ranges \cup {<<>>}, failed : BOOLEAN]
      /\ r.total \in Nat /\ r.total <= length /\ length \in Nat
  BY DEF DedupInv, DedupType, ReaderShape
<1>3. /\ bytes \in Nat /\ r.total + bytes <= length
      /\ failed => r.total + bytes = length
  BY <1>2, DedupAssumption
<1>4. CASE r.failed \/ bytes = 0
  <2>1. next = [r EXCEPT !.at = "done"]
    BY <1>4
  <2>2. /\ next.at = "done" /\ next.total = r.total /\ next.failed = r.failed
        /\ next \in [at : {"read", "lookup", "add", "done"}, total : Nat,
                     chunk : Ranges \cup {<<>>}, failed : BOOLEAN]
    BY <1>2, <2>1
  <2>3. reader'[t] = next /\ DedupType'
    BY <1>1, <2>2 DEF DedupInv, DedupType
  <2>4. ReaderShape(t)'
    <3>1. ReaderShape(t) /\ ~InHand(t) /\ ~InHand(t)'
      BY <1>1, <2>2, <2>3 DEF DedupInv, InHand
    <3>2. Kept(t)' = Kept(t)
      BY <2>2, <2>3, <3>1 DEF Kept
    <3>3. bytes = 0 => r.total = length
      BY <1>2, DedupAssumption
    <3> QED BY <1>1, <1>4, <2>2, <2>3, <3>1, <3>2, <3>3 DEF ReaderShape
  <2>5. \A u \in Threads : reader'[u].at = "add" => reader'[u] = reader[u]
    BY <1>1, <1>2, <2>2 DEF DedupInv, DedupType
  <2> QED BY <1>1, <2>3, <2>4, <2>5, OtherReaders, FewerAdd DEF DedupInv
<1>5. CASE ~(r.failed \/ bytes = 0)
  <2>1. next = [at |-> "lookup", total |-> end, chunk |-> <<r.total, end>>,
                failed |-> failed]
    BY <1>5
  <2>2. /\ end \in Nat /\ r.total < end /\ end <= r.total + bytes
        /\ end \in cuts \/ end = r.total + bytes
    BY <1>2, <1>3, <1>5, BoundaryIsInside DEF DedupInv
  <2>3. failed \in BOOLEAN
    OBVIOUS
  <2>4. /\ next.at = "lookup" /\ next.total = end /\ next.failed = failed
        /\ next.chunk = <<r.total, end>> /\ next.chunk \in Ranges
        /\ next \in [at : {"read", "lookup", "add", "done"}, total : Nat,
                     chunk : Ranges \cup {<<>>}, failed : BOOLEAN]
    <3> HIDE DEF failed, end
    <3> QED BY <1>2, <2>1, <2>2, <2>3 DEF Ranges
  <2> HIDE DEF next, end, failed
  <2>5. reader'[t] = next /\ DedupType'
    BY <1>1, <2>4 DEF DedupInv, DedupType
  <2>6. ReaderShape(t)'
    <3>1. ReaderShape(t) /\ ~InHand(t) /\ InHand(t)'
      BY <1>1, <2>4, <2>5 DEF DedupInv, InHand
    <3>2. Kept(t)' = r.total /\ Kept(t) = r.total
      BY <2>4, <2>5, <3>1 DEF Kept
    <3>3. failed => length - end < MaxChunk /\ (end \in cuts \/ end = length)
      BY <1>2, <1>3, <2>2, DedupAssumption DEF failed
    <3>4. end <= length
      BY <1>2, <1>3, <2>2
    <3>5. /\ reader'[t].chunk \in Ranges
          /\ reader'[t].chunk[1] < reader'[t].chunk[2]
          /\ reader'[t].chunk[2] = reader'[t].total
      BY <2>2, <2>4, <2>5
    <3>6. reader'[t].failed =>
            /\ length - reader'[t].total < MaxChunk
            /\ reader'[t].total \in cuts \/ reader'[t].total = length
      BY <2>4, <2>5, <3>3, Zenon
    <3> HIDE DEF bytes
    <3>7. reader'[t].total <= length /\ reader'[t].at # "done"
      BY <2>4, <2>5, <3>4
    <3> QED BY <1>1, <3>1, <3>2, <3>5, <3>6, <3>7, Zenon DEF ReaderShape
  <2>7. \A u \in Threads : reader'[u].at = "add" => reader'[u] = reader[u]
    BY <1>1, <2>4 DEF DedupInv, DedupType
  <2> QED BY <1>1, <2>5, <2>6, <2>7, OtherReaders, FewerAdd DEF DedupInv
<1> QED BY <1>4, <1>5

(* The chunk in hand begins beyond those that were kept.                   *)
LEMMA ChunkIsNew ==
  ASSUME DedupInv, NEW t \in Threads, InHand(t)
  PROVE  reader[t].chunk \notin kept[t]
<1>1. /\ reader[t].chunk \in Ranges
      /\ reader[t].chunk[1] < reader[t].chunk[2]
      /\ Kept(t) = reader[t].chunk[1]
  BY DEF DedupInv, ReaderShape, Kept
<1> QED BY <1>1 DEF DedupInv, ReaderShape, Ranges

(* When the chunk in hand is kept, so is the file up to its end.           *)
LEMMA ChunkIsKept ==
  ASSUME DedupInv, NEW t \in Threads, InHand(t), UNCHANGED <<length, cuts>>,
         reader' = [reader EXCEPT ![t].at = "read"],
         kept' = [kept EXCEPT ![t] = @ \cup {reader[t].chunk}],
         refs' = [h \in DOMAIN refs' |-> refs'[h]]
  PROVE  DedupType' /\ \A u \in Threads : ReaderShape(u)'
<1> DEFINE c == reader[t].chunk
<1>1. /\ ReaderShape(t) /\ c \in Ranges /\ Kept(t) = c[1]
      /\ c[1] \in Nat /\ c[2] \in Nat
      /\ c[1] < c[2] /\ c[2] = reader[t].total
  BY DEF DedupInv, ReaderShape, Kept, Ranges
<1>2. kept' \in [Threads -> SUBSET Ranges] /\ kept'[t] = kept[t] \cup {c}
  BY <1>1 DEF DedupInv, DedupType
<1>3. /\ reader'[t].at = "read" /\ reader'[t].total = reader[t].total
      /\ reader'[t].failed = reader[t].failed
      /\ reader' \in [Threads ->
           [at : {"read", "lookup", "add", "done"}, total : Nat,
            chunk : Ranges \cup {<<>>}, failed : BOOLEAN]]
  BY DEF DedupInv, DedupType
<1>4. DedupType'
  BY <1>2, <1>3 DEF DedupInv, DedupType
<1>5. ~InHand(t)' /\ Kept(t)' = c[2]
  BY <1>1, <1>3 DEF InHand, Kept
<1>6. \A d \in kept'[t] : d[1] < d[2] /\ d[2] <= c[2]
  <2> SUFFICES ASSUME NEW d \in kept[t]
               PROVE  d[1] < d[2] /\ d[2] <= c[2]
    BY <1>1, <1>2
  <2>1. d \in Ranges /\ d[1] \in Nat /\ d[2] \in Nat
    BY DEF DedupInv, DedupType, Ranges
  <2> QED BY <1>1, <2>1 DEF ReaderShape
<1>7. \A i \in 1..c[2] : \E d \in kept'[t] : i \in (d[1] + 1)..d[2]
  <2> SUFFICES ASSUME NEW i \in 1..c[2]
               PROVE  \E d \in kept'[t] : i \in (d[1] + 1)..d[2]
    OBVIOUS
  <2>1. CASE i <= c[1]
    BY <1>1, <1>2, <2>1 DEF ReaderShape
  <2>2. CASE i > c[1]
    BY <1>1, <1>2, <2>2
  <2> QED BY <1>1, <2>1, <2>2
<1>8. ReaderShape(t)'
  BY <1>1, <1>3, <1>5, <1>6, <1>7 DEF ReaderShape
<1>9. \A u \in Threads \ {t} : kept'[u] = kept[u]
  BY DEF DedupInv, DedupType
<1>10. reader' = [reader EXCEPT ![t] = [reader[t] EXCEPT !.at = "read"]]
  OBVIOUS
<1> QED BY <1>4, <1>8, <1>9, <1>10, OtherReaders

CountsOneMore(h) ==
  /\ refs'[h] \in Nat
  /\ refs'[h] <= Cardinality(Dedup!Keepings(h)) + 1
  /\ Excused(h)' \/ refs'[h] = Cardinality(Dedup!Keepings(h)) + 1

(* What keeping the chunk in hand does to the table and the keepings: a    *)
(* reference more is counted, or the hash is excused.                      *)
LEMMA KeepingCounts ==
  ASSUME DedupInv, NEW t \in Threads, InHand(t), NEW h,
         h = Dedup!Hash(reader[t].chunk), period' = period, clash' = clash,
         reader' = [reader EXCEPT ![t].at = "read"],
         kept' = [kept EXCEPT ![t] = @ \cup {reader[t].chunk}],
         unwritten \subseteq unwritten',
         h \in DOMAIN refs' \/ h \in unwritten',
         DOMAIN refs' \subseteq DOMAIN refs \cup {h},
         DOMAIN refs \subseteq DOMAIN refs',
         \A g \in DOMAIN refs \ {h} : refs'[g] = refs[g],
         h \in DOMAIN refs' => CountsOneMore(h),
         \A u \in Threads \ {t} :
           Adds(u, h) /\ h \in DOMAIN refs' => Excused(h)'
  PROVE  RefsShape'
<1> PICK c : c = reader[t].chunk
  OBVIOUS
<1>1. /\ kept' = [kept EXCEPT ![t] = @ \cup {c}] /\ h = Dedup!Hash(c)
      /\ period' = period /\ clash' = clash
      /\ kept \in [Threads -> SUBSET Ranges] /\ RefsShape
  BY DEF DedupInv, DedupType
<1>2. c \notin kept[t]
  BY ChunkIsNew
<1>3. /\ \A g : IsFiniteSet(Dedup!Keepings(g)')
      /\ Cardinality(Dedup!Keepings(h)') = Cardinality(Dedup!Keepings(h)) + 1
      /\ \A g : g # h => Dedup!Keepings(g)' = Dedup!Keepings(g)
  <2>1. \A d : Dedup!Hash(d)' = Dedup!Hash(d)
    BY DEF Dedup!Hash
  <2>2. /\ kept'[t] = kept[t] \cup {c}
        /\ \A u \in Threads \ {t} : kept'[u] = kept[u]
    BY <1>1
  <2>k. \A g, e : e \in Dedup!Keepings(g) <=>
          \E u \in Threads : \E d \in kept[u] : e = <<u, d>> /\ Dedup!Hash(d) = g
    BY DEF Dedup!Keepings
  <2>l. \A g, e : e \in Dedup!Keepings(g)' <=>
          \E u \in Threads : \E d \in kept'[u] : e = <<u, d>> /\ Dedup!Hash(d) = g
    BY <2>1 DEF Dedup!Keepings
  <2>3. Dedup!Keepings(h)' = Dedup!Keepings(h) \cup {<<t, c>>}
    BY <2>2, <2>k, <2>l
  <2>4. <<t, c>> \notin Dedup!Keepings(h)
    BY <1>2, <2>k
  <2>5. \A g : g # h => Dedup!Keepings(g)' = Dedup!Keepings(g)
    <3> SUFFICES ASSUME NEW g, g # h
                 PROVE  Dedup!Keepings(g)' = Dedup!Keepings(g)
      OBVIOUS
    <3>1. Dedup!Hash(c) # g
      BY <1>1
    <3>2. \A u \in Threads : \A d : d # c => (d \in kept'[u] <=> d \in kept[u])
      BY <2>2
    <3>3. \A u \in Threads : \A d :
            Dedup!Hash(d) = g => (d \in kept'[u] <=> d \in kept[u])
      BY <3>1, <3>2, Zenon
    <3>4. ASSUME NEW e, e \in Dedup!Keepings(g)
          PROVE  e \in Dedup!Keepings(g)'
      <4>1. PICK u \in Threads : \E d \in kept[u] : e = <<u, d>> /\ Dedup!Hash(d) = g
        BY <2>k, <3>4
      <4> QED BY <2>l, <3>3, <4>1
    <3>5. ASSUME NEW e, e \in Dedup!Keepings(g)'
          PROVE  e \in Dedup!Keepings(g)
      <4>1. PICK u \in Threads : \E d \in kept'[u] : e = <<u, d>> /\ Dedup!Hash(d) = g
        BY <2>l, <3>5
      <4> QED BY <2>k, <3>3, <4>1
    <3> QED BY <3>4, <3>5
  <2>6. \A g : IsFiniteSet(Dedup!Keepings(g))
    BY <1>1, Zenon DEF RefsShape
  <2>7. /\ IsFiniteSet(Dedup!Keepings(h)')
        /\ Cardinality(Dedup!Keepings(h)') = Cardinality(Dedup!Keepings(h)) + 1
    <3>1. PICK K : K = Dedup!Keepings(h)
      OBVIOUS
    <3>2. IsFiniteSet(K) /\ <<t, c>> \notin K
      BY <2>4, <2>6, <3>1
    <3>3. /\ IsFiniteSet(K \cup {<<t, c>>})
          /\ Cardinality(K \cup {<<t, c>>}) = Cardinality(K) + 1
      BY <3>2, FS_AddElement
    <3> QED BY <2>3, <3>1, <3>3
  <2>8. \A g : IsFiniteSet(Dedup!Keepings(g)')
    BY <2>5, <2>6, <2>7, Zenon
  <2> QED BY <2>5, <2>7, <2>8, Zenon
<1>4. \A g : Dedup!Hash(g)' = Dedup!Hash(g)
  BY DEF Dedup!Hash
<1>5. \A g : Excused(g) => Excused(g)'
  BY DEF Excused
<1>6. /\ \A u \in Threads \ {t} : reader'[u] = reader[u]
      /\ reader'[t].at = "read"
  BY DEF DedupInv, DedupType
<1>7. /\ \A g : ~Adds(t, g)'
      /\ \A u \in Threads \ {t} : \A g : Adds(u, g)' <=> Adds(u, g)
  <2>1. \A g : ~Adds(t, g)'
    BY <1>6 DEF Adds
  <2>2. ASSUME NEW u \in Threads \ {t}
        PROVE  Dedup!Hash(reader[u].chunk)' = Dedup!Hash(reader[u].chunk)
    BY <1>6 DEF Dedup!Hash
  <2> QED BY <1>6, <2>1, <2>2 DEF Adds
<1>8. \A u \in Threads : \A d \in kept'[u] :
        Dedup!Hash(d)' \in DOMAIN refs' \/ Dedup!Hash(d)' \in unwritten'
  <2> SUFFICES ASSUME NEW u \in Threads, NEW d \in kept'[u]
               PROVE  Dedup!Hash(d) \in DOMAIN refs' \/ Dedup!Hash(d) \in unwritten'
    BY <1>4
  <2>1. d \in kept[u] \/ d = c
    BY <1>1
  <2>2. CASE d = c
    BY <1>1, <2>2
  <2>3. CASE d \in kept[u]
    BY <1>1, <2>3 DEF RefsShape
  <2> QED BY <2>1, <2>2, <2>3
<1>9. ASSUME NEW g \in DOMAIN refs'
      PROVE  /\ refs'[g] \in Nat /\ refs'[g] <= Cardinality(Dedup!Keepings(g)')
             /\ Excused(g)' \/ refs'[g] = Cardinality(Dedup!Keepings(g)')
  <2>1. CASE g = h
    BY <1>3, <2>1 DEF CountsOneMore
  <2>2. CASE g # h
    <3>1. g \in DOMAIN refs /\ refs'[g] = refs[g]
      BY <2>2
    <3>2. Dedup!Keepings(g)' = Dedup!Keepings(g)
      BY <1>3, <2>2
    <3> QED BY <1>1, <1>5, <3>1, <3>2 DEF RefsShape
  <2> QED BY <2>1, <2>2
<1>10. ASSUME NEW u \in Threads, NEW g \in DOMAIN refs', Adds(u, g)'
       PROVE  Excused(g)'
  <2>1. u # t /\ Adds(u, g)
    BY <1>7, <1>10
  <2>2. CASE g = h
    BY <2>1, <2>2
  <2>3. CASE g # h
    BY <1>1, <1>5, <2>1, <2>3 DEF RefsShape
  <2> QED BY <2>2, <2>3
<1>11. ASSUME NEW u \in Threads, NEW v \in Threads, NEW g,
              u # v, Adds(u, g)', Adds(v, g)'
       PROVE  Excused(g)'
  BY <1>1, <1>5, <1>7, <1>11 DEF RefsShape
<1> QED BY <1>3, <1>8, <1>9, <1>10, <1>11, Zenon DEF RefsShape

(* lookup(): a chunk that is found is kept once more, counted or not; one  *)
(* that is missed by two at a time clashes.                                *)
LEMMA LookupHolds ==
  ASSUME DedupInv, NEW t \in Threads, Dedup!Lookup(t)
  PROVE  DedupInv'
<1>1. /\ InHand(t) /\ reader[t].at = "lookup" /\ reader[t].chunk \in Ranges
      /\ length' = length /\ cuts' = cuts /\ period' = period
  BY DEF Dedup!Lookup, InHand, DedupInv, ReaderShape
<1>r. RefsShape /\ refs = [g \in DOMAIN refs |-> refs[g]]
  BY DEF DedupInv, DedupType
<1>h. PICK h : h = Dedup!Hash(reader[t].chunk)
  OBVIOUS
<1> DEFINE keeps == /\ kept' = [kept EXCEPT ![t] = @ \cup {reader[t].chunk}]
                    /\ reader' = [reader EXCEPT ![t].at = "read"]
<1>2. CASE /\ h \in DOMAIN refs
           /\ refs' = [refs EXCEPT ![h] = @ + 1] /\ keeps
           /\ UNCHANGED <<clash, unwritten>>
  <2>1. /\ refs' = [g \in DOMAIN refs' |-> refs'[g]]
        /\ DOMAIN refs' = DOMAIN refs /\ refs'[h] = refs[h] + 1
        /\ \A g \in DOMAIN refs : g # h => refs'[g] = refs[g]
        /\ clash' = clash /\ unwritten' = unwritten
    BY <1>2, <1>r
  <2>2. DedupType' /\ \A u \in Threads : ReaderShape(u)'
    BY <1>1, <1>2, <2>1, ChunkIsKept
  <2>3. Excused(h)' <=> Excused(h)
    BY <2>1 DEF Excused
  <2>4. Cardinality(Dedup!Keepings(h)) \in Nat
    BY <1>r, FS_CardinalityType DEF RefsShape
  <2>5. CountsOneMore(h)
    BY <1>2, <1>r, <2>1, <2>3, <2>4 DEF RefsShape, CountsOneMore
  <2>6. \A u \in Threads \ {t} : Adds(u, h) => Excused(h)'
    BY <1>2, <1>r, <2>3 DEF RefsShape
  <2>7. /\ unwritten \subseteq unwritten' /\ h \in DOMAIN refs'
        /\ DOMAIN refs' \subseteq DOMAIN refs \cup {h}
        /\ DOMAIN refs \subseteq DOMAIN refs'
    BY <1>2, <2>1
  <2>8. RefsShape'
    <3>1. /\ kept' = [kept EXCEPT ![t] = @ \cup {reader[t].chunk}]
          /\ reader' = [reader EXCEPT ![t].at = "read"]
      BY <1>2
    <3>2. period' = period /\ clash' = clash /\ InHand(t)
      BY <1>1, <2>1
    <3>3. \A g \in DOMAIN refs \ {h} : refs'[g] = refs[g]
      BY <2>1
    <3>4. unwritten \subseteq unwritten'
      BY <2>7
    <3>5. h \in DOMAIN refs' /\ DOMAIN refs' \subseteq DOMAIN refs \cup {h}
      BY <2>7
    <3>6. DOMAIN refs \subseteq DOMAIN refs'
      BY <2>7
    <3>7. \A u \in Threads \ {t} : Adds(u, h) /\ h \in DOMAIN refs' => Excused(h)'
      BY <2>6
    <3> HIDE <2>1, <2>7, <2>6, <1>2
    <3> QED BY <1>h, <2>5, <3>1, <3>2, <3>3, <3>4, <3>5, <3>6, <3>7, KeepingCounts
  <2> QED BY <2>2, <2>8 DEF DedupInv
<1>3. CASE /\ h \in DOMAIN refs
           /\ unwritten' = unwritten \cup {h} /\ keeps
           /\ UNCHANGED <<refs, clash>>
  <2>1. refs' = refs /\ clash' = clash /\ Excused(h)'
    BY <1>3 DEF Excused
  <2>2. DedupType' /\ \A u \in Threads : ReaderShape(u)'
    BY <1>1, <1>3, <1>r, <2>1, ChunkIsKept
  <2>3. CountsOneMore(h)
    BY <1>3, <1>r, <2>1, FS_CardinalityType DEF RefsShape, CountsOneMore
  <2>4. RefsShape'
    BY <1>1, <1>h, <1>3, <2>1, <2>3, KeepingCounts
  <2> QED BY <2>2, <2>4 DEF DedupInv
<1>4. CASE /\ unwritten' = IF h \in DOMAIN refs THEN unwritten \cup {h}
                           ELSE unwritten
           /\ clash' = IF \E u \in Threads : Adds(u, h) THEN clash \cup {h}
                       ELSE clash
           /\ reader' = [reader EXCEPT ![t].at = "add"]
           /\ UNCHANGED <<refs, kept>>
  <2>1. refs' = refs /\ kept' = kept
    BY <1>4
  <2>2. /\ reader'[t].at = "add" /\ reader'[t].total = reader[t].total
        /\ reader'[t].failed = reader[t].failed
        /\ reader'[t].chunk = reader[t].chunk
        /\ reader' \in [Threads ->
             [at : {"read", "lookup", "add", "done"}, total : Nat,
              chunk : Ranges \cup {<<>>}, failed : BOOLEAN]]
        /\ \A u \in Threads \ {t} : reader'[u] = reader[u]
    BY <1>4 DEF DedupInv, DedupType
  <2>3. DedupType'
    BY <1>1, <2>1, <2>2 DEF DedupInv, DedupType
  <2>4. ReaderShape(t)'
    <3>1. ReaderShape(t) /\ InHand(t)'
      BY <2>2 DEF DedupInv, InHand
    <3>2. Kept(t)' = Kept(t)
      BY <1>1, <2>2, <3>1 DEF Kept
    <3> QED BY <1>1, <2>1, <2>2, <3>1, <3>2 DEF ReaderShape
  <2>5. \A u \in Threads : ReaderShape(u)'
    <3>1. reader' = [reader EXCEPT ![t] = [reader[t] EXCEPT !.at = "add"]]
      BY <1>4
    <3> QED BY <1>1, <2>1, <2>4, <3>1, OtherReaders
  <2>6. \A d : Dedup!Hash(d)' = Dedup!Hash(d)
    BY <1>1 DEF Dedup!Hash
  <2>7. /\ \A g : Adds(t, g)' => g = h
        /\ \A u \in Threads \ {t} : \A g : Adds(u, g)' <=> Adds(u, g)
    <3>1. ASSUME NEW u \in Threads
          PROVE  Dedup!Hash(reader[u].chunk)' = Dedup!Hash(reader[u].chunk)
      BY <1>1, <2>2 DEF Dedup!Hash
    <3> QED BY <1>h, <2>2, <3>1 DEF Adds
  <2>8. /\ \A g : Excused(g) => Excused(g)'
        /\ h \in DOMAIN refs => Excused(h)'
        /\ \A u \in Threads : Adds(u, h) => Excused(h)'
    BY <1>4 DEF Excused
  <2>9. \A g : Dedup!Keepings(g)' = Dedup!Keepings(g)
    BY <1>1, <2>1 DEF Dedup!Keepings, Dedup!Hash
  <2>10. unwritten \subseteq unwritten'
    BY <1>4
  <2>11. \A u \in Threads, g \in DOMAIN refs : Adds(u, g)' => Excused(g)'
    BY <1>r, <2>7, <2>8 DEF RefsShape
  <2>12. \A u, v \in Threads : \A g :
           u # v /\ Adds(u, g)' /\ Adds(v, g)' => Excused(g)'
    BY <1>r, <2>7, <2>8 DEF RefsShape
  <2>13. \A u \in Threads : \A c \in kept[u] :
           Dedup!Hash(c)' \in DOMAIN refs \/ Dedup!Hash(c)' \in unwritten'
    BY <1>r, <2>6, <2>10 DEF RefsShape
  <2>14. RefsShape'
    BY <1>r, <2>1, <2>8, <2>9, <2>11, <2>12, <2>13, Zenon DEF RefsShape
  <2> QED BY <2>3, <2>5, <2>14 DEF DedupInv
<1> QED BY <1>h, <1>2, <1>3, <1>4 DEF Dedup!Lookup, Dedup!Goto, Adds

(* add_chunk(): a hash that is still new has its first reference, unless   *)
(* the insert fails; one that another added meanwhile clashed.             *)
LEMMA AddChunkHolds ==
  ASSUME DedupInv, NEW t \in Threads, Dedup!AddChunk(t)
  PROVE  DedupInv'
<1>1. /\ InHand(t) /\ reader[t].at = "add"
      /\ length' = length /\ cuts' = cuts /\ clash' = clash /\ period' = period
      /\ reader' = [reader EXCEPT ![t].at = "read"]
      /\ kept' = [kept EXCEPT ![t] = @ \cup {reader[t].chunk}]
  BY DEF Dedup!AddChunk, Dedup!Goto, InHand
<1>r. RefsShape /\ refs = [g \in DOMAIN refs |-> refs[g]]
  BY DEF DedupInv, DedupType
<1>h. PICK h : h = Dedup!Hash(reader[t].chunk)
  OBVIOUS
<1>a. Adds(t, h)
  BY <1>1, <1>h DEF Adds
<1>n. Cardinality(Dedup!Keepings(h)) \in Nat
  BY <1>r, FS_CardinalityType DEF RefsShape
<1>2. CASE /\ refs' = IF h \in DOMAIN refs THEN refs
                      ELSE [g \in DOMAIN refs \cup {h} |->
                              IF g = h THEN 1 ELSE refs[g]]
           /\ unwritten' = unwritten
  <2>1. /\ refs' = [g \in DOMAIN refs' |-> refs'[g]]
        /\ DOMAIN refs' = DOMAIN refs \cup {h}
        /\ \A g \in DOMAIN refs : refs'[g] = refs[g]
        /\ h \notin DOMAIN refs => refs'[h] = 1
    BY <1>2, <1>r
  <2>2. DedupType' /\ \A u \in Threads : ReaderShape(u)'
    BY <1>1, <2>1, ChunkIsKept
  <2>3. Excused(h)' <=> Excused(h)
    BY <1>1, <1>2 DEF Excused
  <2>4. h \in DOMAIN refs =>
          Excused(h) /\ refs[h] \in Nat
          /\ refs[h] <= Cardinality(Dedup!Keepings(h))
    BY <1>r, <1>a DEF RefsShape
  <2>5. h \notin DOMAIN refs =>
          Excused(h) \/ Cardinality(Dedup!Keepings(h)) = 0
    <3> SUFFICES ASSUME h \notin DOMAIN refs, h \notin unwritten
                 PROVE  Cardinality(Dedup!Keepings(h)) = 0
      BY DEF Excused
    <3>1. \A u \in Threads : \A c \in kept[u] : Dedup!Hash(c) # h
      BY <1>r DEF RefsShape
    <3>2. Dedup!Keepings(h) = {}
      BY <3>1 DEF Dedup!Keepings
    <3> QED BY <3>2, FS_EmptySet
  <2>6. CountsOneMore(h)
    <3>1. CASE h \in DOMAIN refs
      <4>1. refs'[h] = refs[h] /\ Excused(h)' /\ refs[h] \in Nat
            /\ refs[h] <= Cardinality(Dedup!Keepings(h))
        BY <2>1, <2>3, <2>4, <3>1
      <4> QED BY <1>n, <4>1 DEF CountsOneMore
    <3>2. CASE h \notin DOMAIN refs
      BY <1>n, <2>1, <2>3, <2>5, <3>2 DEF CountsOneMore
    <3> QED BY <3>1, <3>2
  <2>7. \A u \in Threads \ {t} : Adds(u, h) => Excused(h)'
    BY <1>r, <1>a, <2>3 DEF RefsShape
  <2>8. /\ unwritten \subseteq unwritten' /\ h \in DOMAIN refs'
        /\ DOMAIN refs' \subseteq DOMAIN refs \cup {h}
        /\ DOMAIN refs \subseteq DOMAIN refs'
    BY <1>2, <2>1
  <2>9. RefsShape'
    BY <1>1, <1>h, <2>1, <2>6, <2>7, <2>8, KeepingCounts
  <2> QED BY <2>2, <2>9 DEF DedupInv
<1>3. CASE unwritten' = unwritten \cup {h} /\ refs' = refs
  <2>1. Excused(h)' /\ unwritten \subseteq unwritten' /\ h \in unwritten'
    BY <1>3 DEF Excused
  <2>2. DedupType' /\ \A u \in Threads : ReaderShape(u)'
    BY <1>1, <1>3, <1>r, ChunkIsKept
  <2>3. h \in DOMAIN refs => CountsOneMore(h)
    BY <1>3, <1>n, <1>r, <2>1 DEF RefsShape, CountsOneMore
  <2>4. RefsShape'
    BY <1>1, <1>h, <1>3, <2>1, <2>3, KeepingCounts
  <2> QED BY <2>2, <2>4 DEF DedupInv
<1> QED BY <1>h, <1>2, <1>3 DEF Dedup!AddChunk

LEMMA DedupStepHolds == DedupInv /\ [Next]_vars => DedupInv'
<1> SUFFICES ASSUME DedupInv, [Next]_vars
             PROVE  DedupInv'
  OBVIOUS
<1>1. CASE UNCHANGED dedupVars
  <2>1. /\ length' = length /\ cuts' = cuts /\ reader' = reader
        /\ refs' = refs /\ kept' = kept /\ clash' = clash
        /\ period' = period /\ unwritten' = unwritten
    BY <1>1 DEF dedupVars
  <2>2. DedupType'
    BY <2>1 DEF DedupInv, DedupType
  <2>3. \A t \in Threads : ReaderShape(t)'
    BY <2>1 DEF DedupInv, ReaderShape, Kept, InHand
  <2> QED BY <2>1, <2>2, <2>3, FewerAdd DEF DedupInv
<1>2. CASE Dedup!Next
  BY <1>2, ReadChunkHolds, LookupHolds, AddChunkHolds DEF Dedup!Next
<1> QED BY <1>1, <1>2, DedupMoves

(* A hash never has more references than keepings, in one place of the     *)
(* file or several and by one thread or several, and exactly as many but   *)
(* for those missed by two at a time or with a failed statement; and a     *)
(* processed file is cut up whole, but for what follows the boundary found *)
(* in its last, short read: NothingIsUncounted, for every number of        *)
(* threads, file, period and boundaries.                                   *)
THEOREM NothingIsUncountedHolds == Spec => []NothingIsUncounted
<1> DEFINE covered(t) == UNION {(c[1] + 1)..c[2] : c \in kept[t]}
           missing(t) == (1..length) \ covered(t)
<1>0. ASSUME DedupInv
      PROVE  \A h \in DOMAIN refs : refs[h] <= Cardinality(Dedup!Keepings(h))
  BY <1>0 DEF DedupInv, RefsShape
<1>1. ASSUME DedupInv
      PROVE  \A t \in Threads : \A c \in kept[t] :
               \/ Dedup!Hash(c) \in clash \cup unwritten
               \/ /\ Dedup!Hash(c) \in DOMAIN refs
                  /\ refs[Dedup!Hash(c)] = Cardinality(Dedup!Keepings(Dedup!Hash(c)))
  <2> SUFFICES ASSUME NEW t \in Threads, NEW c \in kept[t], NEW h,
                      h = Dedup!Hash(c), h \notin clash, h \notin unwritten
               PROVE  h \in DOMAIN refs /\ refs[h] = Cardinality(Dedup!Keepings(h))
    BY Zenon
  <2>1. h \in DOMAIN refs
    BY <1>1 DEF DedupInv, RefsShape
  <2> QED BY <1>1, <2>1 DEF DedupInv, RefsShape, Excused
<1>2. ASSUME DedupInv, NEW t \in Threads, reader[t].at = "done", missing(t) # {}
      PROVE  /\ length - reader[t].total < MaxChunk
             /\ reader[t].total \in cuts
             /\ missing(t) = (reader[t].total + 1)..length
  <2>1. /\ reader[t].total \in Nat /\ length \in Nat
        /\ reader[t].total <= length /\ Kept(t) = reader[t].total
    BY <1>2 DEF DedupInv, DedupType, ReaderShape, Kept, InHand
  <2>2. covered(t) = 1..reader[t].total
    <3>1. \A i \in 1..reader[t].total : \E c \in kept[t] : i \in (c[1] + 1)..c[2]
      BY <1>2, <2>1 DEF DedupInv, ReaderShape
    <3>2. ASSUME NEW c \in kept[t]
          PROVE  (c[1] + 1)..c[2] \subseteq 1..reader[t].total
      <4>1. c[1] \in Nat /\ c[2] \in Nat /\ c[2] <= reader[t].total
        BY <1>2, <2>1 DEF DedupInv, DedupType, ReaderShape, Ranges
      <4> QED BY <2>1, <4>1
    <3> QED BY <3>1, <3>2, Zenon
  <2>3. missing(t) = (reader[t].total + 1)..length
    <3>1. \A i \in Int : i \in missing(t) <=> i \in (reader[t].total + 1)..length
      BY <2>1, <2>2
    <3> QED BY <3>1, <2>1
  <2>4. reader[t].total # length
    BY <1>2, <2>1, <2>3
  <2> QED BY <1>2, <2>3, <2>4 DEF DedupInv, ReaderShape
<1>3. DedupInv => NothingIsUncounted
  <2>1. DedupInv => \A t \in Threads : reader[t].at = "done" =>
          (missing(t) # {} =>
             /\ length - reader[t].total < MaxChunk
             /\ reader[t].total \in cuts
             /\ missing(t) = (reader[t].total + 1)..length)
    BY <1>2, Zenon
  <2> QED BY <1>0, <1>1, <2>1, DedupCardinality, Zenon
         DEF NothingIsUncounted, Dedup!NothingIsUncounted
<1> QED BY <1>3, DedupInitHolds, DedupStepHolds, PTL DEF Spec

-----------------------------------------------------------------------------
(* The antivirus scanner.                                                  *)

LEMMA ScannerMoves == [Next]_vars => Scanner!Next \/ UNCHANGED scannerVars
BY OneMoves DEF OthersKeep, vars

(* The module that counts has the library's operator under its own name.   *)
LEMMA ScannerCardinality == \A S : Scanner!Cardinality(S) = Cardinality(S)
BY DEF Scanner!Cardinality, Cardinality

ScanPlaces == {"reset", "count", "open", "walk", "done", "last"}
StorePlaces == {"number", "rename"}
Scanning(t) == scan[t].at \in ScanPlaces
Storing(t) == scan[t].at \in StorePlaces
Sized == Cardinality(dir)

ScannerType ==
  /\ dir \subseteq Files
  /\ scan \in [Threads ->
       [at : {"idle"} \cup ScanPlaces \cup StorePlaces, todo : SUBSET Files,
        total : Nat, scanned : Nat]]
  /\ progress = [status |-> progress.status, scanned |-> progress.scanned,
                 percent |-> progress.percent, found |-> progress.found]
  /\ number \in Nat /\ stored \subseteq Nat \X Files
  /\ cut \in [Threads -> BOOLEAN] /\ mixed \in [Threads -> BOOLEAN]

(* A walk that has scanned nothing yet; one that has knows the total.      *)
Begun(t) ==
  /\ progress.scanned = 0 /\ progress.percent = 0 /\ progress.found = {}
  /\ scan[t].scanned = 0
Counted(t) == scan[t].total = Sized \/ ~scanning
Percent(n) == IF Sized > 0 THEN (n * 100) \div Sized ELSE 0
Walking(t) ==
  /\ scan[t].todo \subseteq dir
  /\ progress.scanned = Sized - Cardinality(scan[t].todo)
  /\ scan[t].scanned = progress.scanned
  /\ progress.found = infected \cap (dir \ scan[t].todo)
  /\ \/ Begun(t)
     \/ scan[t].total = Sized /\ progress.percent = Percent(progress.scanned)

(* Where the scan of t is, and what is known there of a scan alone.        *)
Known(t) ==
  /\ scan[t].at = "reset" => scan[t].scanned = 0
  /\ scan[t].at = "count" => Begun(t)
  /\ scan[t].at = "open" => Begun(t) /\ Counted(t)
  /\ scan[t].at = "walk" => Walking(t) /\ Counted(t)
  /\ scan[t].at \in {"done", "last"} =>
       Walking(t) /\ (cut[t] \/ scan[t].todo = {})
  /\ scan[t].at = "last" => progress.status = "done"

(* A scan that nothing fell into is the only call there is, and its flag   *)
(* is up unless it was cancelled.                                          *)
Undisturbed(t) == Scanning(t) /\ ~mixed[t]
ScanShape(t) ==
  Undisturbed(t) =>
    /\ \A u \in Threads \ {t} : scan[u].at = "idle"
    /\ cut[t] \/ scanning
    /\ Known(t)

(* Where no quarantines raced there is one at a time, which has read the   *)
(* number that is there, and none in the store has a higher one.           *)
StoreShape ==
  /\ \A t, u \in Threads : Storing(t) /\ Storing(u) => t = u
  /\ \A t \in Threads : scan[t].at = "rename" => scan[t].total = number
  /\ \A p \in stored : p[1] <= number

ScannerInv ==
  /\ ScannerType
  /\ \A t \in Threads : scan[t].at = "idle" => scan[t].scanned = 0
  /\ \A t \in Threads : ScanShape(t)
  /\ raced \/ StoreShape
  /\ replaced => raced

LEMMA ScannerInitHolds == Init => ScannerInv
<1> SUFFICES ASSUME Scanner!Init
             PROVE  ScannerInv
  BY DEF Init
<1>1. /\ scan = [t \in Threads |-> [at |-> "idle", todo |-> {}, total |-> 0,
                                    scanned |-> 0]]
      /\ dir = Files /\ number = 0 /\ stored = {}
      /\ progress = [status |-> "", scanned |-> 0, percent |-> 0, found |-> {}]
  BY DEF Scanner!Init, Scanner!Idle, Scanner!Fresh
<1>2. cut \in [Threads -> BOOLEAN] /\ mixed \in [Threads -> BOOLEAN]
  BY Zenon DEF Scanner!Init
<1>3. ~replaced
  BY Zenon DEF Scanner!Init
<1>4. ScannerType
  BY <1>1, <1>2 DEF ScannerType
<1>5. \A t \in Threads : ScanShape(t)
  BY <1>1 DEF ScanShape, Undisturbed, Scanning, ScanPlaces
<1>6. StoreShape
  BY <1>1 DEF StoreShape, Storing, StorePlaces
<1>7. \A t \in Threads : scan[t].at = "idle" => scan[t].scanned = 0
  BY <1>1
<1> QED BY <1>3, <1>4, <1>5, <1>6, <1>7, Zenon DEF ScannerInv

(* A step of a scan: no other scan is undisturbed.                         *)
LEMMA ScanMoves ==
  ASSUME ScannerInv, NEW t \in Threads, NEW r, Scanning(t),
         scan' = [scan EXCEPT ![t] = r],
         r \in [at : ScanPlaces, todo : SUBSET Files, total : Nat, scanned : Nat],
         progress' = [status |-> progress'.status, scanned |-> progress'.scanned,
                      percent |-> progress'.percent, found |-> progress'.found],
         UNCHANGED <<dir, infected, scanning, number, stored, cut, mixed, raced,
                     replaced>>,
         Undisturbed(t) => Known(t)'
  PROVE  ScannerInv'
<1>1. /\ dir' = dir /\ number' = number /\ stored' = stored
      /\ cut' = cut /\ mixed' = mixed /\ raced' = raced /\ replaced' = replaced
      /\ scanning' = scanning
  OBVIOUS
<1>2. cut' \in [Threads -> BOOLEAN] /\ mixed' \in [Threads -> BOOLEAN]
  BY <1>1, Zenon DEF ScannerInv, ScannerType
<1>3. /\ scan'[t] = r /\ \A u \in Threads \ {t} : scan'[u] = scan[u]
      /\ scan' \in [Threads ->
           [at : {"idle"} \cup ScanPlaces \cup StorePlaces, todo : SUBSET Files,
            total : Nat, scanned : Nat]]
  BY DEF ScannerInv, ScannerType
<1>4. ScannerType'
  BY <1>1, <1>2, <1>3 DEF ScannerInv, ScannerType
<1>5. /\ Scanning(t)' /\ ~Storing(t)' /\ ~Storing(t)
      /\ scan'[t].at # "idle" /\ scan[t].at # "idle" /\ scan'[t].at # "rename"
  BY <1>3 DEF Scanning, Storing, ScanPlaces, StorePlaces
<1>6. \A u \in Threads \ {t} :
        /\ Storing(u)' <=> Storing(u)
        /\ Scanning(u)' <=> Scanning(u)
  BY <1>3 DEF Storing, Scanning
<1>7. \A u \in Threads : scan'[u].at = "idle" => scan'[u].scanned = 0
  BY <1>3, <1>5 DEF ScannerInv
<1>8. \A u \in Threads \ {t} : ~Undisturbed(u)'
  <2> SUFFICES ASSUME NEW u \in Threads \ {t}, Undisturbed(u)'
               PROVE  FALSE
    OBVIOUS
  <2>1. Undisturbed(u)
    BY <1>1, <1>6, Zenon DEF Undisturbed
  <2> QED BY <1>5, <2>1, Zenon DEF ScannerInv, ScanShape
<1>9. ScanShape(t)'
  <2> SUFFICES ASSUME Undisturbed(t)'
               PROVE  /\ \A u \in Threads \ {t} : scan'[u].at = "idle"
                      /\ cut'[t] \/ scanning'
                      /\ Known(t)'
    BY Zenon DEF ScanShape
  <2>1. Undisturbed(t)
    BY <1>1, Zenon DEF Undisturbed
  <2>2. /\ \A u \in Threads \ {t} : scan[u].at = "idle"
        /\ cut[t] \/ scanning
    BY <2>1, Zenon DEF ScannerInv, ScanShape
  <2>3. \A u \in Threads \ {t} : scan'[u].at = "idle"
    BY <1>3, <2>2
  <2>4. cut'[t] \/ scanning'
    <3>1. cut'[t] = cut[t] /\ scanning' = scanning
      OBVIOUS
    <3> QED BY <2>2, <3>1
  <2>5. Known(t)'
    BY <2>1, Zenon
  <2> QED BY <2>3, <2>4, <2>5, Zenon
<1>10. \A u \in Threads : ScanShape(u)'
  BY <1>8, <1>9, Zenon DEF ScanShape
<1>11. StoreShape => StoreShape'
  BY <1>1, <1>3, <1>5, <1>6 DEF StoreShape
<1>12. /\ raced' \/ StoreShape'
       /\ replaced' => raced'
  <2>1. raced' = raced /\ replaced' = replaced
    OBVIOUS
  <2>2. /\ raced \/ StoreShape
        /\ replaced => raced
    BY Zenon DEF ScannerInv
  <2>3. raced' \/ StoreShape'
    BY <1>11, <2>1, <2>2
  <2> QED BY <2>1, <2>2, <2>3
<1> QED BY <1>4, <1>7, <1>10, <1>12, Zenon DEF ScannerInv

(* The first steps of a scan alone: its progress is fresh, and the count   *)
(* is that of the files unless the flag was found lowered.                 *)
LEMMA ResetHolds ==
  ASSUME ScannerInv, NEW t \in Threads, Scanner!Reset(t)
  PROVE  ScannerInv'
<1> DEFINE r == [scan[t] EXCEPT !.at = "count"]
<1>1. /\ scan[t].at = "reset" /\ scan' = [scan EXCEPT ![t].at = "count"]
      /\ progress' = [status |-> "scanning", scanned |-> 0, percent |-> 0, found |-> {}]
  BY DEF Scanner!Reset, Scanner!Go, Scanner!Fresh
<1>2. UNCHANGED <<dir, infected, scanning, number, stored, cut, mixed, raced,
                  replaced>>
  BY Zenon DEF Scanner!Reset, Scanner!InScan
<1>3. /\ scan' = [scan EXCEPT ![t] = r] /\ scan'[t] = r
      /\ r \in [at : ScanPlaces, todo : SUBSET Files, total : Nat, scanned : Nat]
      /\ r.at = "count" /\ r.scanned = scan[t].scanned
  BY <1>1 DEF ScannerInv, ScannerType, ScanPlaces
<1>4. Scanning(t)
  BY <1>1 DEF Scanning, ScanPlaces
<1>5. ASSUME Undisturbed(t)
      PROVE  Known(t)'
  <2>1. scan[t].scanned = 0
    BY <1>1, <1>5 DEF ScannerInv, ScanShape, Known
  <2> QED BY <1>1, <1>3, <2>1 DEF Known, Begun
<1>6. progress' = [status |-> progress'.status, scanned |-> progress'.scanned,
                   percent |-> progress'.percent, found |-> progress'.found]
  BY <1>1
<1> QED BY <1>2, <1>3, <1>4, <1>5, <1>6, ScanMoves

LEMMA FilesAreFinite ==
  ASSUME ScannerInv
  PROVE  IsFiniteSet(dir) /\ Sized \in Nat
BY ScannerAssumption, FS_Subset, FS_CardinalityType DEF ScannerInv, ScannerType, Sized

LEMMA CountHolds ==
  ASSUME ScannerInv, NEW t \in Threads, Scanner!Count(t)
  PROVE  ScannerInv'
<1>1. /\ scan[t].at = "count" /\ progress' = progress /\ dir' = dir
  BY DEF Scanner!Count, Scanner!InScan
<1>2. UNCHANGED <<dir, infected, scanning, number, stored, cut, mixed, raced,
                  replaced>>
  BY Zenon DEF Scanner!Count, Scanner!InScan
<1>3. PICK n \in (IF scanning THEN {Sized} ELSE 0..Sized) :
        scan' = [scan EXCEPT ![t].total = n, ![t].at = "open"]
  BY ScannerCardinality, Zenon DEF Scanner!Count, Sized
<1>4. n \in Nat /\ (n = Sized \/ ~scanning)
  BY FilesAreFinite
<1> DEFINE r == [scan[t] EXCEPT !.total = n, !.at = "open"]
<1>5. /\ scan' = [scan EXCEPT ![t] = r] /\ scan'[t] = r
      /\ r \in [at : ScanPlaces, todo : SUBSET Files, total : Nat, scanned : Nat]
      /\ r.at = "open" /\ r.total = n /\ r.scanned = scan[t].scanned
  BY <1>3, <1>4 DEF ScannerInv, ScannerType, ScanPlaces
<1>6. Scanning(t)
  BY <1>1 DEF Scanning, ScanPlaces
<1>7. ASSUME Undisturbed(t)
      PROVE  Known(t)'
  <2>1. Begun(t)
    BY <1>1, <1>7 DEF ScannerInv, ScanShape, Known
  <2>2. Begun(t)'
    BY <1>1, <1>5, <2>1 DEF Begun
  <2>3. Counted(t)'
    <3>1. scanning' = scanning
      BY <1>2
    <3>2. scan'[t].total = n /\ Sized' = Sized
      BY <1>1, <1>5 DEF Sized
    <3> QED BY <1>4, <3>1, <3>2, Zenon DEF Counted
  <2> QED BY <1>5, <2>2, <2>3 DEF Known
<1>8. progress' = [status |-> progress'.status, scanned |-> progress'.scanned,
                   percent |-> progress'.percent, found |-> progress'.found]
  BY <1>1 DEF ScannerInv, ScannerType
<1> QED BY <1>2, <1>5, <1>6, <1>7, <1>8, ScanMoves

LEMMA OpenHolds ==
  ASSUME ScannerInv, NEW t \in Threads, Scanner!Open(t)
  PROVE  ScannerInv'
<1> DEFINE r == [scan[t] EXCEPT !.todo = dir, !.at = "walk"]
<1>1. /\ scan[t].at = "open" /\ progress' = progress /\ dir' = dir
      /\ infected' = infected
      /\ scan' = [scan EXCEPT ![t].todo = dir, ![t].at = "walk"]
  BY DEF Scanner!Open, Scanner!InScan
<1>2. UNCHANGED <<dir, infected, scanning, number, stored, cut, mixed, raced,
                  replaced>>
  BY Zenon DEF Scanner!Open, Scanner!InScan
<1>3. /\ scan' = [scan EXCEPT ![t] = r] /\ scan'[t] = r
      /\ r \in [at : ScanPlaces, todo : SUBSET Files, total : Nat, scanned : Nat]
      /\ r.at = "walk" /\ r.todo = dir /\ r.total = scan[t].total
      /\ r.scanned = scan[t].scanned
  BY <1>1 DEF ScannerInv, ScannerType, ScanPlaces
<1>4. Scanning(t)
  BY <1>1 DEF Scanning, ScanPlaces
<1>5. ASSUME Undisturbed(t)
      PROVE  Known(t)'
  <2>1. Begun(t) /\ Counted(t)
    BY <1>1, <1>5, Zenon DEF ScannerInv, ScanShape, Known
  <2>2. Begun(t)'
    BY <1>1, <1>3, <2>1 DEF Begun
  <2>3. Counted(t)'
    <3>1. scanning' = scanning
      BY <1>2
    <3>2. scan'[t].total = scan[t].total /\ Sized' = Sized
      BY <1>1, <1>3 DEF Sized
    <3> QED BY <2>1, <3>1, <3>2, Zenon DEF Counted
  <2>4. Walking(t)'
    <3>1. /\ progress'.scanned = 0 /\ progress'.found = {}
          /\ scan'[t].scanned = 0 /\ scan'[t].todo = dir
      BY <1>3, <2>2 DEF Begun
    <3>2. Sized' = Sized /\ Sized - Cardinality(dir) = 0
      BY <1>1, FilesAreFinite DEF Sized
    <3> QED BY <1>1, <2>2, <3>1, <3>2 DEF Walking
  <2> QED BY <1>3, <2>3, <2>4 DEF Known
<1>6. progress' = [status |-> progress'.status, scanned |-> progress'.scanned,
                   percent |-> progress'.percent, found |-> progress'.found]
  BY <1>1 DEF ScannerInv, ScannerType
<1> QED BY <1>2, <1>3, <1>4, <1>5, <1>6, ScanMoves

(* A file of the walk: one more is scanned and found if it is suspicious.  *)
LEMMA ScanFileHolds ==
  ASSUME ScannerInv, NEW t \in Threads, NEW f \in Files, Scanner!ScanFile(t, f)
  PROVE  ScannerInv'
<1> DEFINE n == scan[t].scanned + 1
           size == scan[t].total
           r == [scan[t] EXCEPT !.todo = @ \ {f}, !.scanned = n]
           share == IF size > 0 THEN (n * 100) \div size ELSE 0
<1>1. /\ scan[t].at = "walk" /\ f \in scan[t].todo
      /\ dir' = dir /\ infected' = infected
      /\ scan' = [scan EXCEPT ![t] = r]
      /\ progress' = [progress EXCEPT !.scanned = n, !.percent = share,
                      !.found = @ \cup ({f} \cap infected \cap dir)]
  BY DEF Scanner!ScanFile, Scanner!InScan
<1>2. UNCHANGED <<dir, infected, scanning, number, stored, cut, mixed, raced,
                  replaced>>
  BY Zenon DEF Scanner!ScanFile, Scanner!InScan
<1>3. /\ scan'[t] = r
      /\ r \in [at : ScanPlaces, todo : SUBSET Files, total : Nat, scanned : Nat]
      /\ r.at = "walk" /\ r.todo = scan[t].todo \ {f} /\ r.total = size
      /\ r.scanned = n
  <2>1. /\ scan[t] \in [at : {"idle"} \cup ScanPlaces \cup StorePlaces,
                       todo : SUBSET Files, total : Nat, scanned : Nat]
        /\ n \in Nat /\ scan'[t] = r
    BY <1>1 DEF ScannerInv, ScannerType
  <2> HIDE DEF n
  <2> QED BY <1>1, <2>1 DEF ScanPlaces
<1>4. Scanning(t)
  BY <1>1 DEF Scanning, ScanPlaces
<1>5. /\ progress' = [status |-> progress'.status, scanned |-> progress'.scanned,
                      percent |-> progress'.percent, found |-> progress'.found]
      /\ progress'.scanned = n /\ progress'.percent = share
      /\ progress'.found = progress.found \cup ({f} \cap infected \cap dir)
  <2>1. progress = [status |-> progress.status, scanned |-> progress.scanned,
                    percent |-> progress.percent, found |-> progress.found]
    BY DEF ScannerInv, ScannerType
  <2> HIDE DEF share, n
  <2> QED BY <1>1, <2>1
<1>6. ASSUME Undisturbed(t)
      PROVE  Known(t)'
  <2>1. Walking(t) /\ Counted(t)
    BY <1>1, <1>6, Zenon DEF ScannerInv, ScanShape, Known
  <2>2. size = Sized /\ Sized' = Sized
    <3>1. scanning
      BY Zenon DEF Scanner!ScanFile
    <3>2. size = Sized
      BY <2>1, <3>1, Zenon DEF Counted
    <3> QED BY <1>1, <3>2 DEF Sized
  <2>3. Counted(t)'
    BY <1>3, <2>2 DEF Counted
  <2>4. /\ Cardinality(scan[t].todo) \in Nat
        /\ Cardinality(scan[t].todo \ {f}) = Cardinality(scan[t].todo) - 1
    <3>1. IsFiniteSet(scan[t].todo)
      BY <2>1, FilesAreFinite, FS_Subset DEF Walking
    <3> QED BY <1>1, <3>1, FS_RemoveElement, FS_CardinalityType
  <2>5. Walking(t)'
    <3>1. n = Sized - Cardinality(scan[t].todo \ {f})
      BY <2>1, <2>4, FilesAreFinite DEF Walking
    <3>2. /\ scan[t].todo \ {f} \subseteq dir
          /\ progress.found \cup ({f} \cap infected \cap dir)
               = infected \cap (dir \ (scan[t].todo \ {f}))
      BY <1>1, <2>1 DEF Walking
    <3>3. progress'.percent = Percent(progress.scanned)'
      BY <1>5, <2>2 DEF Percent
    <3> HIDE DEF share, n, size, r
    <3>4. /\ scan'[t].todo \subseteq dir'
          /\ progress'.scanned = Sized' - Cardinality(scan'[t].todo)
          /\ scan'[t].scanned = progress'.scanned
          /\ progress'.found = infected' \cap (dir' \ scan'[t].todo)
      BY <1>1, <1>3, <1>5, <2>2, <3>1, <3>2
    <3>5. scan'[t].total = Sized'
      BY <1>3, <2>2
    <3> QED BY <3>3, <3>4, <3>5 DEF Walking
  <2> QED BY <1>3, <2>3, <2>5 DEF Known
<1> HIDE DEF share, n, size, r
<1> QED BY <1>1, <1>2, <1>3, <1>4, <1>5, <1>6, ScanMoves

(* Alone, a scan lists what is there.                                      *)
LEMMA NotListedHolds ==
  ASSUME ScannerInv, NEW t \in Threads, NEW f \in Files, Scanner!NotListed(t, f)
  PROVE  ScannerInv'
<1> DEFINE r == [scan[t] EXCEPT !.todo = @ \ {f}]
<1>1. /\ scan[t].at = "walk" /\ f \in scan[t].todo \ dir /\ progress' = progress
      /\ scan' = [scan EXCEPT ![t] = r]
  BY DEF Scanner!NotListed
<1>2. UNCHANGED <<dir, infected, scanning, number, stored, cut, mixed, raced,
                  replaced>>
  BY Zenon DEF Scanner!NotListed, Scanner!InScan
<1>3. r \in [at : ScanPlaces, todo : SUBSET Files, total : Nat, scanned : Nat]
  BY <1>1 DEF ScannerInv, ScannerType, ScanPlaces
<1>4. Scanning(t)
  BY <1>1 DEF Scanning, ScanPlaces
<1>5. ~Undisturbed(t)
  <2>1. ~Walking(t)
    BY <1>1 DEF Walking
  <2> QED BY <1>1, <2>1, Zenon DEF ScannerInv, ScanShape, Known
<1>6. progress' = [status |-> progress'.status, scanned |-> progress'.scanned,
                   percent |-> progress'.percent, found |-> progress'.found]
  BY <1>1 DEF ScannerInv, ScannerType
<1> QED BY <1>1, <1>2, <1>3, <1>4, <1>5, <1>6, ScanMoves

(* A walk ends where nothing is left, or where it was cancelled.           *)
LEMMA StopWalkHolds ==
  ASSUME ScannerInv, NEW t \in Threads, Scanner!StopWalk(t)
  PROVE  ScannerInv'
<1> DEFINE r == [scan[t] EXCEPT !.at = "done"]
<1>1. /\ scan[t].at = "walk" /\ progress' = progress /\ dir' = dir
      /\ infected' = infected /\ scan' = [scan EXCEPT ![t] = r]
  BY DEF Scanner!StopWalk, Scanner!Go, Scanner!InScan
<1>2. UNCHANGED <<dir, infected, scanning, number, stored, cut, mixed, raced,
                  replaced>>
  BY Zenon DEF Scanner!StopWalk, Scanner!InScan
<1>3. /\ scan'[t] = r
      /\ r \in [at : ScanPlaces, todo : SUBSET Files, total : Nat, scanned : Nat]
      /\ r.at = "done" /\ r.todo = scan[t].todo /\ r.total = scan[t].total
      /\ r.scanned = scan[t].scanned
  BY <1>1 DEF ScannerInv, ScannerType, ScanPlaces
<1>4. Scanning(t)
  BY <1>1 DEF Scanning, ScanPlaces
<1>5. ASSUME Undisturbed(t)
      PROVE  Known(t)'
  <2>1. Walking(t) /\ (cut[t] \/ scanning)
    BY <1>1, <1>5, Zenon DEF ScannerInv, ScanShape, Known
  <2>2. Walking(t)'
    BY <1>1, <1>3, <2>1 DEF Walking, Begun, Percent, Sized
  <2>3. cut'[t] \/ scan'[t].todo = {}
    <3>1. ~scanning \/ scan[t].todo = {}
      BY Zenon DEF Scanner!StopWalk
    <3>2. cut'[t] = cut[t] /\ scan'[t].todo = scan[t].todo
      BY <1>2, <1>3
    <3>3. cut[t] \/ scan[t].todo = {}
      BY <2>1, <3>1, Zenon
    <3> QED BY <3>2, <3>3
  <2> QED BY <1>3, <2>2, <2>3 DEF Known
<1>6. progress' = [status |-> progress'.status, scanned |-> progress'.scanned,
                   percent |-> progress'.percent, found |-> progress'.found]
  BY <1>1 DEF ScannerInv, ScannerType
<1> QED BY <1>1, <1>2, <1>3, <1>4, <1>5, <1>6, ScanMoves

LEMMA DoneHolds ==
  ASSUME ScannerInv, NEW t \in Threads, Scanner!Done(t)
  PROVE  ScannerInv'
<1> DEFINE r == [scan[t] EXCEPT !.at = "last"]
<1>1. /\ scan[t].at = "done" /\ dir' = dir /\ infected' = infected
      /\ scan' = [scan EXCEPT ![t] = r]
      /\ progress' = [progress EXCEPT !.status = "done"]
  BY DEF Scanner!Done, Scanner!Go, Scanner!InScan
<1>2. UNCHANGED <<dir, infected, scanning, number, stored, cut, mixed, raced,
                  replaced>>
  BY Zenon DEF Scanner!Done, Scanner!InScan
<1>3. /\ scan'[t] = r
      /\ r \in [at : ScanPlaces, todo : SUBSET Files, total : Nat, scanned : Nat]
      /\ r.at = "last" /\ r.todo = scan[t].todo /\ r.total = scan[t].total
      /\ r.scanned = scan[t].scanned
  BY <1>1 DEF ScannerInv, ScannerType, ScanPlaces
<1>4. Scanning(t)
  BY <1>1 DEF Scanning, ScanPlaces
<1>5. /\ progress' = [status |-> progress'.status, scanned |-> progress'.scanned,
                      percent |-> progress'.percent, found |-> progress'.found]
      /\ progress'.status = "done" /\ progress'.scanned = progress.scanned
      /\ progress'.percent = progress.percent /\ progress'.found = progress.found
  BY <1>1 DEF ScannerInv, ScannerType
<1>6. ASSUME Undisturbed(t)
      PROVE  Known(t)'
  <2>1. Walking(t) /\ (cut[t] \/ scan[t].todo = {})
    BY <1>1, <1>6 DEF ScannerInv, ScanShape, Known
  <2>2. Walking(t)'
    BY <1>1, <1>3, <1>5, <2>1 DEF Walking, Begun, Percent, Sized
  <2>3. cut'[t] \/ scan'[t].todo = {}
    <3>1. cut'[t] = cut[t] /\ scan'[t].todo = scan[t].todo
      BY <1>2, <1>3
    <3> QED BY <2>1, <3>1
  <2> QED BY <1>3, <1>5, <2>2, <2>3 DEF Known
<1> QED BY <1>1, <1>2, <1>3, <1>4, <1>5, <1>6, ScanMoves

(* What stays of the rest where a step leaves the store alone and no call  *)
(* comes to store.                                                         *)
LEMMA StoreStays ==
  ASSUME ScannerInv, UNCHANGED <<number, stored, raced, replaced>>,
         \A u \in Threads : Storing(u)' => Storing(u) /\ scan'[u] = scan[u]
  PROVE  /\ raced' \/ StoreShape'
         /\ replaced' => raced'
<1>1. raced' = raced /\ replaced' = replaced
  OBVIOUS
<1>2. /\ raced \/ StoreShape
      /\ replaced => raced
  BY Zenon DEF ScannerInv
<1>3. StoreShape => StoreShape'
  BY DEF StoreShape, Storing, StorePlaces
<1>4. raced' \/ StoreShape'
  BY <1>1, <1>2, <1>3
<1> QED BY <1>1, <1>2, <1>4

(* A scan that begins disturbs those that are under way.                   *)
LEMMA StartHolds ==
  ASSUME ScannerInv, NEW t \in Threads, Scanner!Start(t)
  PROVE  ScannerInv'
<1> DEFINE others == {u \in Threads \ {t} : Scanner!Scans(u)}
<1>1. /\ scan[t].at = "idle" /\ scan' = [scan EXCEPT ![t].at = "reset"]
      /\ dir' = dir /\ progress' = progress /\ number' = number
      /\ stored' = stored /\ scan[t].scanned = 0
  BY DEF Scanner!Start, Scanner!Go, ScannerInv
<1>2. /\ cut' = [u \in Threads |-> cut[u] /\ u # t /\ u \notin others]
      /\ mixed' = [u \in Threads |->
           IF u = t THEN \E o \in Threads \ {t} : scan[o].at # "idle"
           ELSE mixed[u] \/ u \in others]
      /\ scanning'
      /\ UNCHANGED <<number, stored, raced, replaced>>
  BY Zenon DEF Scanner!Start
<1>3. cut' \in [Threads -> BOOLEAN] /\ mixed' \in [Threads -> BOOLEAN]
  BY <1>2, Zenon DEF ScannerInv, ScannerType
<1>4. /\ scan'[t].at = "reset" /\ scan'[t].scanned = 0
      /\ \A u \in Threads \ {t} : scan'[u] = scan[u]
      /\ scan' \in [Threads ->
           [at : {"idle"} \cup ScanPlaces \cup StorePlaces, todo : SUBSET Files,
            total : Nat, scanned : Nat]]
  BY <1>1 DEF ScannerInv, ScannerType, ScanPlaces
<1>5. ScannerType'
  BY <1>1, <1>3, <1>4 DEF ScannerInv, ScannerType
<1>6. \A u \in Threads : ScanShape(u)'
  <2>1. ASSUME NEW u \in Threads \ {t}, Undisturbed(u)'
        PROVE  FALSE
    <3>1. u \in others
      BY <1>4, <2>1 DEF Undisturbed, Scanning, ScanPlaces, Scanner!Scans
    <3>2. mixed'[u]
      BY <1>2, <3>1, Zenon
    <3> QED BY <2>1, <3>2, Zenon DEF Undisturbed
  <2>2. ASSUME Undisturbed(t)'
        PROVE  /\ \A u \in Threads \ {t} : scan'[u].at = "idle"
               /\ cut'[t] \/ scanning'
               /\ Known(t)'
    <3>1. ~(\E o \in Threads \ {t} : scan[o].at # "idle")
      BY <1>2, <2>2, Zenon DEF Undisturbed
    <3>2. \A u \in Threads \ {t} : scan'[u].at = "idle"
      BY <1>4, <3>1
    <3>3. Known(t)'
      BY <1>4 DEF Known
    <3> QED BY <1>2, <3>2, <3>3, Zenon
  <2> QED BY <2>1, <2>2, Zenon DEF ScanShape
<1>7. \A u \in Threads : Storing(u)' => Storing(u) /\ scan'[u] = scan[u]
  BY <1>4 DEF Storing, StorePlaces
<1>8. /\ raced' \/ StoreShape'
      /\ replaced' => raced'
  BY <1>2, <1>7, StoreStays, Zenon
<1>9. \A u \in Threads : scan'[u].at = "idle" => scan'[u].scanned = 0
  BY <1>4 DEF ScannerInv
<1> QED BY <1>5, <1>6, <1>8, <1>9, Zenon DEF ScannerInv

(* While a call other than t's scan moves, no scan but those it leaves     *)
(* alone is undisturbed.                                                   *)
LEMMA NoneIsUndisturbed ==
  ASSUME ScannerInv, NEW t \in Threads, NEW u \in Threads \ {t},
         scan[t].at # "idle"
  PROVE  ~Undisturbed(u)
BY Zenon DEF ScannerInv, ScanShape

LEMMA LeaveHolds ==
  ASSUME ScannerInv, NEW t \in Threads, Scanner!Leave(t),
         scan[t].at \in {"count", "open", "walk", "last"}
  PROVE  ScannerInv'
<1>1. /\ scan' = [scan EXCEPT ![t] = [at |-> "idle", todo |-> {}, total |-> 0,
                                      scanned |-> 0]]
      /\ dir' = dir /\ progress' = progress /\ number' = number
      /\ stored' = stored
  BY DEF Scanner!Leave, Scanner!Idle
<1>2. /\ cut' = [cut EXCEPT ![t] = FALSE] /\ mixed' = [mixed EXCEPT ![t] = FALSE]
      /\ UNCHANGED <<number, stored, raced, replaced>>
  BY Zenon DEF Scanner!Leave
<1>3. cut' \in [Threads -> BOOLEAN] /\ mixed' \in [Threads -> BOOLEAN]
  BY <1>2, Zenon DEF ScannerInv, ScannerType
<1>4. /\ scan'[t].at = "idle" /\ scan'[t].scanned = 0
      /\ \A u \in Threads \ {t} : scan'[u] = scan[u]
      /\ scan' \in [Threads ->
           [at : {"idle"} \cup ScanPlaces \cup StorePlaces, todo : SUBSET Files,
            total : Nat, scanned : Nat]]
  BY <1>1 DEF ScannerInv, ScannerType
<1>5. ScannerType'
  BY <1>1, <1>3, <1>4 DEF ScannerInv, ScannerType
<1>6. \A u \in Threads : ~Undisturbed(u)'
  <2>1. ~Undisturbed(t)'
    BY <1>4 DEF Undisturbed, Scanning, ScanPlaces
  <2>2. ASSUME NEW u \in Threads \ {t}
        PROVE  ~Undisturbed(u)'
    <3>1. ~Undisturbed(u)
      BY <1>1, NoneIsUndisturbed
    <3>2. Scanning(u)' <=> Scanning(u)
      BY <1>4 DEF Scanning
    <3>3. mixed'[u] = mixed[u]
      BY <1>2 DEF ScannerInv, ScannerType
    <3> QED BY <3>1, <3>2, <3>3, Zenon DEF Undisturbed
  <2> QED BY <2>1, <2>2
<1>7. \A u \in Threads : Storing(u)' => Storing(u) /\ scan'[u] = scan[u]
  BY <1>4 DEF Storing, StorePlaces
<1>8. /\ raced' \/ StoreShape'
      /\ replaced' => raced'
  BY <1>2, <1>7, StoreStays, Zenon
<1>9. \A u \in Threads : scan'[u].at = "idle" => scan'[u].scanned = 0
  BY <1>4 DEF ScannerInv
<1> QED BY <1>5, <1>6, <1>8, <1>9, Zenon DEF ScannerInv, ScanShape

LEMMA ReturnHolds ==
  ASSUME ScannerInv, NEW t \in Threads, Scanner!Return(t)
  PROVE  ScannerInv'
BY LeaveHolds DEF Scanner!Return

LEMMA ThrowHolds ==
  ASSUME ScannerInv, NEW t \in Threads, Scanner!Throw(t)
  PROVE  ScannerInv'
BY LeaveHolds DEF Scanner!Throw

(* A quarantine disturbs every scan, and races one that is under way.      *)
LEMMA QuarantineHolds ==
  ASSUME ScannerInv, NEW t \in Threads, NEW f \in Files, Scanner!Quarantine(t, f)
  PROVE  ScannerInv'
<1> DEFINE r == [Scanner!Idle EXCEPT !.at = "number", !.todo = {f}]
<1>r. /\ r.at = "number"
      /\ r \in [at : StorePlaces, todo : SUBSET Files, total : Nat, scanned : Nat]
  BY DEF Scanner!Idle, StorePlaces
<1> HIDE DEF r
<1>1. /\ scan[t].at = "idle"
      /\ scan' = [scan EXCEPT ![t] = r]
      /\ dir' = dir /\ progress' = progress /\ number' = number
      /\ stored' = stored
  BY Zenon DEF Scanner!Quarantine, r
<1>2. /\ cut' = [u \in Threads |-> FALSE]
      /\ mixed' = [u \in Threads |-> mixed[u] \/ Scanner!Scans(u)]
      /\ raced' = (raced \/ \E u \in Threads \ {t} : Scanner!Stores(u))
      /\ replaced' = replaced
  BY Zenon DEF Scanner!Quarantine
<1>3. cut' \in [Threads -> BOOLEAN] /\ mixed' \in [Threads -> BOOLEAN]
  BY <1>2, Zenon DEF ScannerInv, ScannerType
<1>4. /\ scan'[t].at = "number" /\ \A u \in Threads \ {t} : scan'[u] = scan[u]
      /\ scan' \in [Threads ->
           [at : {"idle"} \cup ScanPlaces \cup StorePlaces, todo : SUBSET Files,
            total : Nat, scanned : Nat]]
  BY <1>1, <1>r DEF ScannerInv, ScannerType, StorePlaces
<1>5. ScannerType'
  BY <1>1, <1>3, <1>4 DEF ScannerInv, ScannerType
<1>6. \A u \in Threads : ~Undisturbed(u)'
  <2> SUFFICES ASSUME NEW u \in Threads, Scanning(u)'
               PROVE  mixed'[u]
    BY Zenon DEF Undisturbed
  <2>1. u # t
    BY <1>4 DEF Scanning, ScanPlaces
  <2>2. Scanner!Scans(u)
    BY <1>4, <2>1 DEF Scanning, ScanPlaces, Scanner!Scans
  <2> QED BY <1>2, <2>2, Zenon
<1>7. /\ raced' \/ StoreShape'
      /\ replaced' => raced'
  <2>1. CASE \E u \in Threads \ {t} : Scanner!Stores(u)
    BY <1>2, <2>1, Zenon
  <2>2. CASE ~(\E u \in Threads \ {t} : Scanner!Stores(u))
    <3>1. \A u \in Threads \ {t} : ~Storing(u)'
      BY <1>4, <2>2 DEF Storing, StorePlaces, Scanner!Stores
    <3>2. StoreShape => StoreShape'
      BY <1>1, <1>4, <3>1 DEF StoreShape, Storing, StorePlaces
    <3>3. /\ raced \/ StoreShape
          /\ replaced => raced
      BY Zenon DEF ScannerInv
    <3> QED BY <1>2, <3>2, <3>3, Zenon
  <2> QED BY <2>1, <2>2
<1>8. \A u \in Threads : scan'[u].at = "idle" => scan'[u].scanned = 0
  BY <1>4 DEF ScannerInv
<1> QED BY <1>5, <1>6, <1>7, <1>8, Zenon DEF ScannerInv, ScanShape

LEMMA ReadNumberHolds ==
  ASSUME ScannerInv, NEW t \in Threads, Scanner!ReadNumber(t)
  PROVE  ScannerInv'
<1>1. /\ scan[t].at = "number"
      /\ scan' = [scan EXCEPT ![t] = [scan[t] EXCEPT !.at = "rename",
                                                    !.total = number]]
      /\ dir' = dir /\ progress' = progress /\ number' = number
      /\ stored' = stored
  BY DEF Scanner!ReadNumber
<1>2. cut' = cut /\ mixed' = mixed /\ raced' = raced /\ replaced' = replaced
  BY Zenon DEF Scanner!ReadNumber
<1>3. cut' \in [Threads -> BOOLEAN] /\ mixed' \in [Threads -> BOOLEAN]
  BY <1>2, Zenon DEF ScannerInv, ScannerType
<1>4. /\ scan'[t].at = "rename" /\ scan'[t].total = number
      /\ \A u \in Threads \ {t} : scan'[u] = scan[u]
      /\ scan' \in [Threads ->
           [at : {"idle"} \cup ScanPlaces \cup StorePlaces, todo : SUBSET Files,
            total : Nat, scanned : Nat]]
  BY <1>1 DEF ScannerInv, ScannerType, StorePlaces
<1>5. ScannerType'
  BY <1>1, <1>3, <1>4 DEF ScannerInv, ScannerType
<1>6. \A u \in Threads : ~Undisturbed(u)'
  <2>1. ~Undisturbed(t)'
    BY <1>4 DEF Undisturbed, Scanning, ScanPlaces
  <2>2. ASSUME NEW u \in Threads \ {t}
        PROVE  ~Undisturbed(u)'
    <3>1. ~Undisturbed(u)
      BY <1>1, NoneIsUndisturbed
    <3>2. Scanning(u)' <=> Scanning(u)
      BY <1>4 DEF Scanning
    <3> QED BY <1>2, <3>1, <3>2 DEF Undisturbed
  <2> QED BY <2>1, <2>2
<1>7. /\ raced' \/ StoreShape'
      /\ replaced' => raced'
  <2>1. /\ raced \/ StoreShape
        /\ replaced => raced
    BY Zenon DEF ScannerInv
  <2>2. StoreShape => StoreShape'
    <3>1. \A u \in Threads : Storing(u)' <=> Storing(u)
      BY <1>1, <1>4 DEF Storing, StorePlaces
    <3> QED BY <1>1, <1>4, <3>1 DEF StoreShape
  <2> QED BY <1>2, <2>1, <2>2
<1>8. \A u \in Threads : scan'[u].at = "idle" => scan'[u].scanned = 0
  BY <1>4 DEF ScannerInv
<1> QED BY <1>5, <1>6, <1>7, <1>8, Zenon DEF ScannerInv, ScanShape

(* A rename under a number that no other has read goes to a free name.     *)
LEMMA RenameHolds ==
  ASSUME ScannerInv, NEW t \in Threads, NEW f \in Files, Scanner!Rename(t, f)
  PROVE  ScannerInv'
<1> DEFINE n == scan[t].total + 1
           old == {p \in stored : p[1] = n}
<1>1. /\ scan[t].at = "rename" /\ number' = n /\ progress' = progress
      /\ scan' = [scan EXCEPT ![t] = [at |-> "idle", todo |-> {}, total |-> 0,
                                      scanned |-> 0]]
      /\ dir' \subseteq dir /\ stored' \subseteq (stored \cup {<<n, f>>})
  BY DEF Scanner!Rename, Scanner!Idle
<1>2. /\ cut' = cut /\ mixed' = mixed /\ raced' = raced
      /\ replaced' = (replaced \/ old # {}) \/ replaced' = replaced
  BY Zenon DEF Scanner!Rename
<1>3. cut' \in [Threads -> BOOLEAN] /\ mixed' \in [Threads -> BOOLEAN]
  BY <1>2, Zenon DEF ScannerInv, ScannerType
<1>4. /\ scan'[t].at = "idle" /\ scan'[t].scanned = 0
      /\ \A u \in Threads \ {t} : scan'[u] = scan[u]
      /\ scan' \in [Threads ->
           [at : {"idle"} \cup ScanPlaces \cup StorePlaces, todo : SUBSET Files,
            total : Nat, scanned : Nat]]
      /\ n \in Nat
  BY <1>1 DEF ScannerInv, ScannerType
<1>5. ScannerType'
  BY <1>1, <1>3, <1>4 DEF ScannerInv, ScannerType
<1>6. \A u \in Threads : ~Undisturbed(u)'
  <2>1. ~Undisturbed(t)'
    BY <1>4 DEF Undisturbed, Scanning, ScanPlaces
  <2>2. ASSUME NEW u \in Threads \ {t}
        PROVE  ~Undisturbed(u)'
    <3>1. ~Undisturbed(u)
      BY <1>1, NoneIsUndisturbed
    <3>2. Scanning(u)' <=> Scanning(u)
      BY <1>4 DEF Scanning
    <3> QED BY <1>2, <3>1, <3>2 DEF Undisturbed
  <2> QED BY <2>1, <2>2
<1>7. StoreShape => StoreShape' /\ old = {}
  <2>1. SUFFICES ASSUME StoreShape
                 PROVE  StoreShape' /\ old = {}
    OBVIOUS
  <2>2. n = number + 1 /\ number \in Nat /\ \A p \in stored : p[1] \in Nat
    BY <1>1, <2>1 DEF StoreShape, ScannerInv, ScannerType
  <2>3. old = {}
    BY <2>1, <2>2 DEF StoreShape
  <2>4. \A u \in Threads : ~Storing(u)'
    BY <1>1, <1>4, <2>1 DEF StoreShape, Storing, StorePlaces
  <2>5. \A p \in stored' : p[1] <= number'
    BY <1>1, <2>1, <2>2 DEF StoreShape
  <2>6. \A u \in Threads : scan'[u].at # "rename"
    BY <2>4 DEF Storing, StorePlaces
  <2> QED BY <2>3, <2>4, <2>5, <2>6, Zenon DEF StoreShape
<1>8. /\ raced' \/ StoreShape'
      /\ replaced' => raced'
  <2>1. /\ raced \/ StoreShape
        /\ replaced => raced
    BY Zenon DEF ScannerInv
  <2> HIDE DEF old
  <2>2. raced' \/ StoreShape'
    BY <1>2, <1>7, <2>1
  <2>3. ~raced => ~replaced'
    BY <1>2, <1>7, <2>1
  <2> QED BY <1>2, <2>2, <2>3
<1>9. \A u \in Threads : scan'[u].at = "idle" => scan'[u].scanned = 0
  BY <1>4 DEF ScannerInv
<1> QED BY <1>5, <1>6, <1>8, <1>9, Zenon DEF ScannerInv, ScanShape

(* The flag goes down for all, and each scan under way is cut.             *)
LEMMA CancelScanHolds ==
  ASSUME ScannerInv, Scanner!CancelScan
  PROVE  ScannerInv'
<1>1. /\ scan' = scan /\ dir' = dir /\ infected' = infected
      /\ progress' = progress /\ number' = number /\ stored' = stored
  BY DEF Scanner!CancelScan
<1>2. /\ cut' = [t \in Threads |-> cut[t] \/ (Scanner!Scans(t) /\ ~mixed[t])]
      /\ ~scanning' /\ mixed' = mixed /\ UNCHANGED <<number, stored, raced, replaced>>
  BY Zenon DEF Scanner!CancelScan
<1>3. cut' \in [Threads -> BOOLEAN] /\ mixed' \in [Threads -> BOOLEAN]
  BY <1>2, Zenon DEF ScannerInv, ScannerType
<1>4. ScannerType'
  BY <1>1, <1>3 DEF ScannerInv, ScannerType
<1>5. ASSUME NEW t \in Threads, Undisturbed(t)'
      PROVE  /\ \A u \in Threads \ {t} : scan'[u].at = "idle"
             /\ cut'[t] \/ scanning'
             /\ Known(t)'
  <2>1. Undisturbed(t) /\ Scanner!Scans(t)
    BY <1>1, <1>2, <1>5 DEF Undisturbed, Scanning, ScanPlaces, Scanner!Scans
  <2>2. /\ \A u \in Threads \ {t} : scan[u].at = "idle"
        /\ Known(t)
    BY <2>1, Zenon DEF ScannerInv, ScanShape
  <2>3. cut'[t]
    BY <1>2, <2>1, Zenon DEF Undisturbed
  <2>4. Counted(t)'
    BY <1>2, Zenon DEF Counted
  <2>5. /\ Walking(t) => Walking(t)'
        /\ Begun(t) => Begun(t)'
    BY <1>1 DEF Walking, Begun, Percent, Sized
  <2>6. Known(t)'
    <3>1. /\ scan[t].at = "reset" => scan[t].scanned = 0
          /\ scan[t].at = "count" => Begun(t)
          /\ scan[t].at = "open" => Begun(t)
          /\ scan[t].at \in {"walk", "done", "last"} => Walking(t)
          /\ scan[t].at = "last" => progress.status = "done"
      BY <2>2 DEF Known
    <3> QED BY <1>1, <2>3, <2>4, <2>5, <3>1 DEF Known
  <2> QED BY <1>1, <2>2, <2>3, <2>6
<1>6. \A t \in Threads : ScanShape(t)'
  BY <1>5, Zenon DEF ScanShape
<1>7. /\ raced' \/ StoreShape'
      /\ replaced' => raced'
  <2>1. \A u \in Threads : Storing(u)' => Storing(u) /\ scan'[u] = scan[u]
    BY <1>1 DEF Storing
  <2> QED BY <1>2, <2>1, StoreStays, Zenon
<1>8. \A u \in Threads : scan'[u].at = "idle" => scan'[u].scanned = 0
  BY <1>1 DEF ScannerInv
<1> QED BY <1>4, <1>6, <1>7, <1>8, Zenon DEF ScannerInv

LEMMA RestartHolds ==
  ASSUME ScannerInv, Scanner!Restart
  PROVE  ScannerInv'
<1>1. /\ scan' = [t \in Threads |-> [at |-> "idle", todo |-> {}, total |-> 0,
                                    scanned |-> 0]]
      /\ dir' = dir /\ number' = 0 /\ stored' = stored
      /\ progress' = [status |-> "", scanned |-> 0, percent |-> 0, found |-> {}]
  BY DEF Scanner!Restart, Scanner!Idle, Scanner!Fresh
<1>2. /\ cut' = [t \in Threads |-> FALSE] /\ mixed' = [t \in Threads |-> FALSE]
      /\ raced'
  BY Zenon DEF Scanner!Restart
<1>3. cut' \in [Threads -> BOOLEAN] /\ mixed' \in [Threads -> BOOLEAN]
  BY <1>2, Zenon
<1>4. ScannerType'
  BY <1>1, <1>3 DEF ScannerInv, ScannerType
<1>5. \A t \in Threads : ScanShape(t)'
  BY <1>1 DEF ScanShape, Undisturbed, Scanning, ScanPlaces
<1>6. \A u \in Threads : scan'[u].at = "idle" => scan'[u].scanned = 0
  BY <1>1
<1> QED BY <1>2, <1>4, <1>5, <1>6, Zenon DEF ScannerInv

LEMMA ScannerStepHolds == ScannerInv /\ [Next]_vars => ScannerInv'
<1> SUFFICES ASSUME ScannerInv, [Next]_vars
             PROVE  ScannerInv'
  OBVIOUS
<1>1. CASE UNCHANGED scannerVars
  <2>1. /\ dir' = dir /\ infected' = infected /\ progress' = progress
        /\ scan' = scan /\ number' = number /\ stored' = stored
    BY <1>1 DEF scannerVars
  <2>2. /\ scanning' = scanning /\ cut' = cut /\ mixed' = mixed
        /\ raced' = raced /\ replaced' = replaced
    BY <1>1, Zenon DEF scannerVars
  <2>3. ScannerType'
    <3>1. cut' \in [Threads -> BOOLEAN] /\ mixed' \in [Threads -> BOOLEAN]
      BY <2>2, Zenon DEF ScannerInv, ScannerType
    <3> QED BY <2>1, <3>1 DEF ScannerInv, ScannerType
  <2>4. ASSUME NEW t \in Threads, Undisturbed(t)'
        PROVE  /\ \A u \in Threads \ {t} : scan'[u].at = "idle"
               /\ cut'[t] \/ scanning'
               /\ Known(t)'
    <3>1. Undisturbed(t)
      BY <2>1, <2>2, <2>4 DEF Undisturbed, Scanning
    <3>2. /\ \A u \in Threads \ {t} : scan[u].at = "idle"
          /\ cut[t] \/ scanning
          /\ Known(t)
      BY <3>1, Zenon DEF ScannerInv, ScanShape
    <3>3. cut'[t] \/ scanning'
      BY <2>2, <3>2
    <3>4. /\ Walking(t) => Walking(t)'
          /\ Begun(t) => Begun(t)'
      BY <2>1 DEF Walking, Begun, Percent, Sized
    <3>5. Counted(t) => Counted(t)'
      BY <2>1, <2>2 DEF Counted, Sized
    <3>6. (cut[t] \/ scan[t].todo = {}) => (cut'[t] \/ scan'[t].todo = {})
      BY <2>1, <2>2
    <3>7. Known(t)'
      BY <2>1, <3>2, <3>4, <3>5, <3>6 DEF Known
    <3> QED BY <2>1, <3>2, <3>3, <3>7
  <2>5. \A t \in Threads : ScanShape(t)'
    BY <2>4, Zenon DEF ScanShape
  <2>6. /\ raced' \/ StoreShape'
        /\ replaced' => raced'
    <3>1. \A u \in Threads : Storing(u)' => Storing(u) /\ scan'[u] = scan[u]
      BY <2>1 DEF Storing
    <3> QED BY <2>1, <2>2, <3>1, StoreStays
  <2>7. \A u \in Threads : scan'[u].at = "idle" => scan'[u].scanned = 0
    BY <2>1 DEF ScannerInv
  <2> QED BY <2>3, <2>5, <2>6, <2>7, Zenon DEF ScannerInv
<1>2. CASE Scanner!Next
  <2>1. ASSUME NEW t \in Threads
        PROVE  /\ Scanner!Start(t) => ScannerInv'
               /\ Scanner!Reset(t) => ScannerInv'
               /\ Scanner!Count(t) => ScannerInv'
               /\ Scanner!Open(t) => ScannerInv'
               /\ Scanner!StopWalk(t) => ScannerInv'
               /\ Scanner!Done(t) => ScannerInv'
               /\ Scanner!Return(t) => ScannerInv'
               /\ Scanner!Throw(t) => ScannerInv'
               /\ Scanner!ReadNumber(t) => ScannerInv'
    BY StartHolds, ResetHolds, CountHolds, OpenHolds, StopWalkHolds, DoneHolds,
       ReturnHolds, ThrowHolds, ReadNumberHolds, Zenon
  <2>2. ASSUME NEW t \in Threads, NEW f \in Files
        PROVE  /\ Scanner!ScanFile(t, f) => ScannerInv'
               /\ Scanner!NotListed(t, f) => ScannerInv'
               /\ Scanner!Quarantine(t, f) => ScannerInv'
               /\ Scanner!Rename(t, f) => ScannerInv'
    BY ScanFileHolds, NotListedHolds, QuarantineHolds, RenameHolds, Zenon
  <2> QED BY <1>2, <2>1, <2>2, CancelScanHolds, RestartHolds, Zenon
         DEF Scanner!Next
<1> QED BY <1>1, <1>2, ScannerMoves

(* A share of files is all of them exactly where they are all scanned.     *)
LEMMA WholeShare ==
  ASSUME NEW n \in Nat, NEW d \in Nat, d > 0, n <= d
  PROVE  (n * 100) \div d = 100 <=> n = d
<1>1. n = d => (n * 100) \div d = 100
  OBVIOUS
<1>2. n < d => (n * 100) \div d # 100
  OBVIOUS
<1> QED BY <1>1, <1>2

(* A scan that nothing fell into says "done" with 100 percent exactly if   *)
(* every file was scanned, has found what is suspicious among them, and    *)
(* scanned them all unless it was cancelled; without a restart or          *)
(* overlapping quarantines no file in the quarantine is replaced:          *)
(* ScansAreTold, for any number of callers and files.                      *)
THEOREM ScansAreToldHolds == Spec => []ScansAreTold
<1>1. ASSUME ScannerInv, NEW t \in Threads, scan[t].at = "last", ~mixed[t]
      PROVE  /\ progress.status = "done"
             /\ dir # {} =>
                  (progress.percent = 100 <=> progress.scanned = Cardinality(dir))
             /\ ~cut[t] => progress.scanned = Cardinality(dir)
             /\ progress.scanned = Cardinality(dir) =>
                  progress.found = infected \cap dir
  <2>1. Undisturbed(t)
    BY <1>1 DEF Undisturbed, Scanning, ScanPlaces
  <2>2. Walking(t) /\ progress.status = "done" /\ (cut[t] \/ scan[t].todo = {})
    BY <1>1, <2>1 DEF ScannerInv, ScanShape, Known
  <2> DEFINE left == Cardinality(scan[t].todo)
  <2>3. /\ IsFiniteSet(dir) /\ IsFiniteSet(scan[t].todo) /\ Sized \in Nat
        /\ left \in Nat /\ left <= Sized
        /\ Sized = 0 <=> dir = {}
        /\ left = 0 <=> scan[t].todo = {}
    BY <1>1, <2>2, FilesAreFinite, FS_Subset, FS_EmptySet, FS_CardinalityType
       DEF Walking, Sized
  <2>4. progress.scanned = Sized - left
    BY <2>2 DEF Walking
  <2>5. dir # {} => (progress.percent = 100 <=> progress.scanned = Sized)
    <3>1. CASE Begun(t)
      BY <2>3, <3>1 DEF Begun
    <3>2. CASE progress.percent = Percent(progress.scanned)
      <4>1. progress.scanned \in Nat /\ progress.scanned <= Sized
        BY <2>3, <2>4
      <4>2. ASSUME Sized > 0
            PROVE  Percent(progress.scanned) = 100 <=> progress.scanned = Sized
        <5>1. (progress.scanned * 100) \div Sized = 100
                <=> progress.scanned = Sized
          <6>1. Sized \in Nat
            BY <2>3
          <6>2. PICK n \in Nat, d \in Nat : n = progress.scanned /\ d = Sized
            BY <4>1, <6>1
          <6>3. d > 0 /\ n <= d
            BY <4>1, <4>2, <6>2
          <6>4. (n * 100) \div d = 100 <=> n = d
            BY <6>3, WholeShare
          <6> QED BY <6>2, <6>4
        <5>2. Percent(progress.scanned) = (progress.scanned * 100) \div Sized
          BY <4>2, Zenon DEF Percent
        <5> QED BY <5>1, <5>2, Zenon
      <4> QED BY <2>3, <3>2, <4>2
    <3> QED BY <2>2, <3>1, <3>2 DEF Walking
  <2>6. scan[t].todo = {} => progress.scanned = Sized
    BY <2>3, <2>4
  <2>7. progress.scanned = Sized => progress.found = infected \cap dir
    <3>1. progress.scanned = Sized => scan[t].todo = {}
      BY <2>3, <2>4
    <3> QED BY <2>2, <3>1 DEF Walking
  <2>8. ~cut[t] => progress.scanned = Sized
    BY <2>2, <2>6, Zenon
  <2> QED BY <2>2, <2>5, <2>7, <2>8, Zenon DEF Sized
<1>2. ScannerInv => ScansAreTold
  <2>1. ScannerInv => (replaced => raced)
    BY Zenon DEF ScannerInv
  <2> QED BY <1>1, <2>1, ScannerCardinality, Zenon
         DEF ScansAreTold, Scanner!ScansAreTold
<1> QED BY <1>2, ScannerInitHolds, ScannerStepHolds, PTL DEF Spec
=============================================================================
