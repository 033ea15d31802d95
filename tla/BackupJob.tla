----------------------------- MODULE BackupJob -----------------------------
(***************************************************************************)
(* Backup jobs under the IPC handlers that start and stop them:            *)
(* obs::BackupJob (core/src/backup_engine) inside obs::MessageHandler      *)
(* (core/src/ipc).                                                         *)
(*                                                                         *)
(* A handler thread holds jobs_mutex_ for the whole of START_JOB and       *)
(* STOP_JOB, joins included, so its steps interleave only with the worker  *)
(* threads.  active_jobs_ has one entry: its key depends on a metric that  *)
(* no code sets.  Replacing the entry destroys the previous job, and       *)
(* ~BackupJob cancels it.  The job factory and the status callback are     *)
(* supplied from outside: the factory returns a new job each time and the  *)
(* callback returns without calling back into the job.                     *)
(***************************************************************************)
EXTENDS Integers, Sequences

CONSTANTS
  Handlers,   (* threads that run MessageHandler::handle                    *)
  Jobs,       (* the jobs the factory can make                              *)
  NoJob,
  NoHandler,
  Rounds      (* rounds of the progress loop (11 in the code)               *)

ASSUME JobAssumption ==
  /\ NoJob \notin Jobs
  /\ NoHandler \notin Handlers
  /\ Rounds \in Nat \ {0}

VARIABLES
  active,     (* the job of the entry of active_jobs_                       *)
  mutex,      (* who holds jobs_mutex_                                      *)
  hpc,        (* where a handler is                                         *)
  hold,       (* the job a handler cancels                                  *)
  hnew,       (* the job a handler starts                                   *)
  status,     (* BackupJob.status_                                          *)
  cancelled,  (* BackupJob.cancelled_                                       *)
  joinable,   (* BackupJob.worker_.joinable()                               *)
  wpc,        (* where the worker of a job is                               *)
  rounds,     (* the loop counter of do_backup, in rounds                   *)
  size,       (* what metrics_.size_bytes covers: none of the sources, a    *)
              (* walk cut short, all but missing ones, or full              *)
  told        (* calls of callback_                                         *)

handlerVars == <<active, mutex, hpc, hold, hnew>>
workVars == <<rounds, size>>
vars == <<handlerVars, status, cancelled, joinable, wpc, workVars, told>>

Ends == {"COMPLETED", "FAILED", "CANCELLED"}
HandlerStates ==
  {"idle", "flag", "join", "end", "tell", "run", "spawn"}
WorkerStates ==
  {"none", "flush", "check", "scan", "round", "progress", "last", "complete",
   "announce", "fail", "done"}
Alive(j) == wpc[j] \notin {"none", "done"}
Uncut(j) == size[j] \in {"gaps", "full"}

Init ==
  /\ active = NoJob
  /\ mutex = NoHandler
  /\ hpc = [h \in Handlers |-> "idle"]
  /\ hold = [h \in Handlers |-> NoJob]
  /\ hnew = [h \in Handlers |-> NoJob]
  /\ status = [j \in Jobs |-> "PENDING"]
  /\ cancelled = [j \in Jobs |-> FALSE]
  /\ joinable = [j \in Jobs |-> FALSE]
  /\ wpc = [j \in Jobs |-> "none"]
  /\ rounds = [j \in Jobs |-> 0]
  /\ size = [j \in Jobs |-> "none"]
  /\ told = [j \in Jobs |-> <<>>]

Tell(j, s) == told' = [told EXCEPT ![j] = Append(@, s)]
Goto(h, p) == hpc' = [hpc EXCEPT ![h] = p]
Work(j, p) == wpc' = [wpc EXCEPT ![j] = p]

(* Mutations: what a plausible mistake would make of the definition each   *)
(* is named after.  No specification below uses one.                       *)

(* The mutex is locked by hand and not unlocked on return.                 *)
ReturnsLocked(h) ==
  /\ hpc' = [hpc EXCEPT ![h] = "idle"]
  /\ hold' = [hold EXCEPT ![h] = NoJob]
  /\ hnew' = [hnew EXCEPT ![h] = NoJob]
  /\ UNCHANGED mutex

(* The handler unlocks and returns.                                        *)
Returns(h) ==
  /\ mutex' = NoHandler
  /\ hpc' = [hpc EXCEPT ![h] = "idle"]
  /\ hold' = [hold EXCEPT ![h] = NoJob]
  /\ hnew' = [hnew EXCEPT ![h] = NoJob]

-----------------------------------------------------------------------------
(* More mutations.                                                         *)

(* The previous job is kept alive elsewhere and not cancelled.             *)
StartJobKeepsOld(h, j) ==
  /\ hpc[h] = "idle" /\ mutex = NoHandler /\ status[j] = "PENDING"
  /\ mutex' = h
  /\ active' = j
  /\ hnew' = [hnew EXCEPT ![h] = j]
  /\ Goto(h, "run")
  /\ UNCHANGED <<hold, status, cancelled, joinable, wpc, workVars, told>>

(* The worker is detached.                                                 *)
CancelJoinDetaches(h) ==
  /\ hpc[h] = "join"
  /\ joinable' = [joinable EXCEPT ![hold[h]] = FALSE]
  /\ Goto(h, "end")
  /\ UNCHANGED <<active, mutex, hold, hnew, status, cancelled, wpc, workVars,
                 told>>

(* cancel does not look at the status the worker left.                     *)
CancelEndAlways(h) ==
  /\ hpc[h] = "end"
  /\ status' = [status EXCEPT ![hold[h]] = "CANCELLED"]
  /\ Goto(h, "tell")
  /\ UNCHANGED <<active, mutex, hold, hnew, cancelled, joinable, wpc, workVars,
                 told>>

(* The exception is logged and no more.                                    *)
ScanThrowsQuietly(j) ==
  /\ wpc[j] = "scan"
  /\ Work(j, "done")
  /\ UNCHANGED <<handlerVars, status, cancelled, joinable, workVars, told>>

(* The loop was left, so the job is complete.                              *)
LastAssumesWhole(j) ==
  /\ wpc[j] = "last"
  /\ Work(j, "complete")
  /\ UNCHANGED <<handlerVars, status, cancelled, joinable, workVars, told>>

-----------------------------------------------------------------------------
(* START_JOB: lock, put the new job over the previous one.                 *)
StartJob(h, j) ==
  /\ hpc[h] = "idle" /\ mutex = NoHandler /\ status[j] = "PENDING"
  /\ mutex' = h
  /\ active' = j
  /\ hnew' = [hnew EXCEPT ![h] = j]
  /\ hold' = [hold EXCEPT ![h] = active]
  /\ Goto(h, IF active = NoJob THEN "run" ELSE "flag")
  /\ UNCHANGED <<status, cancelled, joinable, wpc, workVars, told>>

(* BackupJob::run.                                                         *)
Run(h) ==
  /\ hpc[h] = "run"
  /\ status' = [status EXCEPT ![hnew[h]] = "RUNNING"]
  /\ Goto(h, "spawn")
  /\ UNCHANGED <<active, mutex, hold, hnew, cancelled, joinable, wpc, workVars,
                 told>>

RunSpawn(h) ==
  /\ hpc[h] = "spawn"
  /\ Tell(hnew[h], "RUNNING")
  /\ Work(hnew[h], "flush")
  /\ joinable' = [joinable EXCEPT ![hnew[h]] = TRUE]
  /\ Returns(h)
  /\ UNCHANGED <<active, status, cancelled, workVars>>

-----------------------------------------------------------------------------
(* STOP_JOB: a job that is not RUNNING is left alone.                      *)
StopJob(h) ==
  /\ hpc[h] = "idle" /\ mutex = NoHandler
  /\ active # NoJob /\ status[active] = "RUNNING"
  /\ mutex' = h
  /\ hold' = [hold EXCEPT ![h] = active]
  /\ Goto(h, "flag")
  /\ UNCHANGED <<active, hnew, status, cancelled, joinable, wpc, workVars, told>>

-----------------------------------------------------------------------------
(* BackupJob::cancel, from STOP_JOB or from the destructor.                *)
CancelFlag(h) ==
  /\ hpc[h] = "flag"
  /\ cancelled' = [cancelled EXCEPT ![hold[h]] = TRUE]
  /\ Goto(h, "join")
  /\ UNCHANGED <<active, mutex, hold, hnew, status, joinable, wpc, workVars,
                 told>>

CancelJoin(h) ==
  /\ hpc[h] = "join"
  /\ joinable[hold[h]] => wpc[hold[h]] = "done"
  /\ joinable' = [joinable EXCEPT ![hold[h]] = FALSE]
  /\ Goto(h, "end")
  /\ UNCHANGED <<active, mutex, hold, hnew, status, cancelled, wpc, workVars,
                 told>>

(* After the join the status is the worker's last word, or still RUNNING.  *)
CancelEnd(h) ==
  /\ hpc[h] = "end" /\ status[hold[h]] = "RUNNING"
  /\ status' = [status EXCEPT ![hold[h]] = "CANCELLED"]
  /\ Goto(h, "tell")
  /\ UNCHANGED <<active, mutex, hold, hnew, cancelled, joinable, wpc, workVars,
                 told>>

(* cancel returns: START_JOB goes on to run the new job.                   *)
CancelReturn(h) ==
  /\ \/ hpc[h] = "end" /\ status[hold[h]] # "RUNNING" /\ UNCHANGED told
     \/ hpc[h] = "tell" /\ Tell(hold[h], "CANCELLED")
  /\ IF hnew[h] = NoJob
       THEN Returns(h)
       ELSE Goto(h, "run") /\ UNCHANGED <<mutex, hold, hnew>>
  /\ UNCHANGED <<active, status, cancelled, joinable, wpc, workVars>>

-----------------------------------------------------------------------------
(* BackupJob::do_backup, the worker of job j.                              *)

(* The buffers are flushed; whatever comes of it, the backup goes on.      *)
Flush(j) ==
  /\ wpc[j] = "flush"
  /\ Work(j, "check")
  /\ UNCHANGED <<handlerVars, status, cancelled, joinable, workVars, told>>

(* A job cancelled by now ends without a word.                             *)
Check(j) ==
  /\ wpc[j] = "check"
  /\ Work(j, IF cancelled[j] THEN "done" ELSE "scan")
  /\ UNCHANGED <<handlerVars, status, cancelled, joinable, workVars, told>>

(* The sources are measured.  A cancelled walk is cut short of some files, *)
(* and a source that does not exist is skipped with a warning.             *)
Scan(j) ==
  /\ wpc[j] = "scan"
  /\ \E s \in {"cut", "gaps", "full"} :
       /\ s = "cut" => cancelled[j]
       /\ size' = [size EXCEPT ![j] = s]
  /\ Work(j, "round")
  /\ UNCHANGED <<handlerVars, status, cancelled, joinable, rounds, told>>

(* The file system throws: a directory cannot be read, a file is gone.     *)
ScanThrows(j) ==
  /\ wpc[j] = "scan"
  /\ status' = [status EXCEPT ![j] = "FAILED"]
  /\ Work(j, "announce")
  /\ UNCHANGED <<handlerVars, cancelled, joinable, workVars, told>>

(* The head of the progress loop.                                          *)
Round(j) ==
  /\ wpc[j] = "round"
  /\ Work(j, IF rounds[j] = Rounds \/ cancelled[j] THEN "last" ELSE "progress")
  /\ UNCHANGED <<handlerVars, status, cancelled, joinable, workVars, told>>

(* Its body: sleep, then tell the callback.                                *)
Progress(j) ==
  /\ wpc[j] = "progress"
  /\ rounds' = [rounds EXCEPT ![j] = @ + 1]
  /\ Tell(j, "RUNNING")
  /\ Work(j, "round")
  /\ UNCHANGED <<handlerVars, status, cancelled, joinable, size>>

(* The last look at the flag; a cancel after it comes too late.            *)
Last(j) ==
  /\ wpc[j] = "last"
  /\ Work(j, IF cancelled[j] THEN "done" ELSE "complete")
  /\ UNCHANGED <<handlerVars, status, cancelled, joinable, workVars, told>>

Complete(j) ==
  /\ wpc[j] = "complete"
  /\ status' = [status EXCEPT ![j] = "COMPLETED"]
  /\ Work(j, "announce")
  /\ UNCHANGED <<handlerVars, cancelled, joinable, workVars, told>>

(* The callback is told the end the worker has just stored.                *)
Announce(j) ==
  /\ wpc[j] = "announce"
  /\ Tell(j, status[j])
  /\ Work(j, "done")
  /\ UNCHANGED <<handlerVars, status, cancelled, joinable, workVars>>

-----------------------------------------------------------------------------
CancelStep(h) ==
  CancelFlag(h) \/ CancelJoin(h) \/ CancelEnd(h) \/ CancelReturn(h)
HandlerStep(h) == Run(h) \/ RunSpawn(h) \/ CancelStep(h)
WorkerStep(j) ==
  \/ Flush(j) \/ Check(j) \/ Scan(j) \/ ScanThrows(j) \/ Round(j)
  \/ Progress(j) \/ Last(j) \/ Complete(j) \/ Announce(j)

Next ==
  \/ \E h \in Handlers :
       (\E j \in Jobs : StartJob(h, j)) \/ StopJob(h) \/ HandlerStep(h)
  \/ \E j \in Jobs : WorkerStep(j)

Spec == Init /\ [][Next]_vars

(* Threads that can run do run; nobody has to send a message.              *)
Fairness ==
  /\ \A h \in Handlers : WF_vars(HandlerStep(h))
  /\ \A j \in Jobs : WF_vars(WorkerStep(j))

FairSpec == Spec /\ Fairness

-----------------------------------------------------------------------------
(* Every variable has its type.                                            *)
TypeOK ==
  /\ active \in Jobs \cup {NoJob}
  /\ mutex \in Handlers \cup {NoHandler}
  /\ hpc \in [Handlers -> HandlerStates]
  /\ hold \in [Handlers -> Jobs \cup {NoJob}]
  /\ hnew \in [Handlers -> Jobs \cup {NoJob}]
  /\ status \in [Jobs -> {"PENDING", "RUNNING"} \cup Ends]
  /\ cancelled \in [Jobs -> BOOLEAN]
  /\ joinable \in [Jobs -> BOOLEAN]
  /\ wpc \in [Jobs -> WorkerStates]
  /\ rounds \in [Jobs -> 0..Rounds]
  /\ size \in [Jobs -> {"none", "cut", "gaps", "full"}]
  /\ told \in [Jobs -> Seq({"RUNNING"} \cup Ends)]

(* START_JOB over a running job ends that job first: two workers never run *)
(* at the same time, however handlers and cancels interleave.              *)
OneWorker == \A j, k \in Jobs : Alive(j) /\ Alive(k) => j = k

(* No walk or loop that a cancel cut short is reported as complete: a job  *)
(* that is COMPLETED measured every source that was there and went through *)
(* every round.  It may have skipped sources: a missing one is no failure. *)
CompletedIsUncut ==
  \A j \in Jobs : status[j] = "COMPLETED" => Uncut(j) /\ rounds[j] = Rounds

(* When a handler returns from a cancel (STOP_JOB) the job it cancelled    *)
(* has ended, its worker is gone and the callback has been told the end.   *)
StoppedMeansOver ==
  [][\A h \in Handlers :
       hpc[h] \in {"end", "tell"} /\ hpc'[h] \in {"idle", "run"} =>
         LET j == hold[h] IN
           /\ status'[j] \in Ends
           /\ wpc'[j] \in {"none", "done"}
           /\ told'[j] # <<>> /\ told'[j][Len(told'[j])] = status'[j]]_vars

(* The jobs behave as the abstract lifecycle: one end each, never revised, *)
(* and a callback that is told the truth in order.                         *)
Lifecycle == INSTANCE JobLifecycle
  WITH Jobs <- Jobs, status <- status, told <- told
FollowsLifecycle == Lifecycle!Spec

(* A job that runs ends, and its callback is told how.                     *)
JobEnds ==
  \A j \in Jobs :
    status[j] = "RUNNING" ~>
      status[j] \in Ends /\ told[j] # <<>> /\ told[j][Len(told[j])] = status[j]

(* A handler that took jobs_mutex_ gives it back: no join waits forever.   *)
HandlersReturn == \A h \in Handlers : mutex = h ~> mutex # h
=============================================================================
