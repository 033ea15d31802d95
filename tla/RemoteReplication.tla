-------------------------- MODULE RemoteReplication --------------------------
(***************************************************************************)
(* Replication of a storage to a remote host: obs::RemoteReplication of    *)
(* core/src/replication.                                                   *)
(*                                                                         *)
(* start() makes a JobState, stores it in jobs_ under its id and spawns a  *)
(* worker; pause, resume and cancel change the JobState under jobs_mutex_; *)
(* the worker takes no lock at all.  The worker keeps a reference to the   *)
(* map's entry, not to the JobState: when a second start of the id stores  *)
(* another JobState there, it goes on with that one.                       *)
(*                                                                         *)
(* A JobState, the start() call that makes it and the worker that call     *)
(* spawns share one name, a member of Jobs; any number of threads may be   *)
(* inside start() at once.  One action is a stretch between two accesses   *)
(* to shared fields.                                                       *)
(***************************************************************************)
EXTENDS Integers

CONSTANTS
  Ids,       (* ReplicationConfig.job_id                                    *)
  Jobs,      (* JobState objects; one start() uses up one                   *)
  NoId, NoJob,
  Chunks     (* chunks in a transfer (25 of 4 MiB in the code)              *)

ASSUME ReplicationAssumption ==
  /\ NoId \notin Ids /\ NoJob \notin Jobs
  /\ Chunks \in Nat \ {0}

VARIABLES
  jobs,        (* the map jobs_: id -> JobState                             *)
  id,          (* JobState.config.job_id                                    *)
  running, paused,
  status,      (* JobState.progress.status                                  *)
  error,       (* JobState.progress.last_error                              *)
  synced,      (* JobState.progress.chunks_synced                           *)
  joinable,    (* JobState.worker.joinable()                                *)
  wpc,         (* where a JobState's worker is                              *)
  transferred, (* the worker's local counter, in chunks                     *)
  spc,         (* where the start() that made a JobState is                 *)
  cpc,         (* where a cancel() of a JobState is                         *)
  dtor,        (* the destructor: "no", "run" or "done"                     *)
  left,        (* ids the destructor's loop has not finished                *)
  joining,     (* the id whose worker it waits for                          *)
  aborted,     (* std::terminate: a joinable std::thread was destroyed      *)
  atPause      (* history: chunks_synced when pause() took effect, 0 if     *)
               (* the job is not paused                                     *)

flags == <<running, paused>>
progress == <<status, error, synced>>
workers == <<wpc, transferred>>
destructor == <<dtor, left, joining>>
vars == <<jobs, id, flags, progress, joinable, workers, spc, cpc, destructor,
          aborted, atPause>>

WorkerStates ==
  {"none", "lookup", "test", "gate", "send", "finish", "end", "done", "missed"}

StartStates ==
  {"none", "insert", "inserting", "spawn", "return", "returned"}

CancelStates == {"no", "status", "error"}

(* More than one start() was called with the job's id.                     *)
Restarted(j) == id[j] # NoId /\ \E k \in Jobs \ {j} : id[k] = id[j]

(* Some start holds jobs_mutex_ and changes the tree of jobs_.             *)
Inserting == \E j \in Jobs : spc[j] = "inserting"

(* jobs_mutex_ is held, by such a start or by a cancel.                    *)
Locked == Inserting \/ \E j \in Jobs : cpc[j] # "no"

(* The shared_ptrs to a JobState: the map's and that of its start().       *)
Held(j) == spc[j] # "returned" \/ \E i \in Ids : jobs[i] = j

(* The last shared_ptr to a JobState goes, and its std::thread with it.    *)
DestroysJoinable == \E j \in Jobs : joinable[j] /\ ~Held(j)

(* The JobState that worker j's reference leads to.                        *)
Entry(j) == jobs[id[j]]
Alive(j) == wpc[j] \notin {"none", "done", "missed"}

Init ==
  /\ jobs = [i \in Ids |-> NoJob]
  /\ id = [j \in Jobs |-> NoId]
  /\ running = [j \in Jobs |-> FALSE]
  /\ paused = [j \in Jobs |-> FALSE]
  /\ status = [j \in Jobs |-> "IDLE"]
  /\ error = [j \in Jobs |-> "none"]
  /\ synced = [j \in Jobs |-> 0]
  /\ joinable = [j \in Jobs |-> FALSE]
  /\ wpc = [j \in Jobs |-> "none"]
  /\ transferred = [j \in Jobs |-> 0]
  /\ spc = [j \in Jobs |-> "none"]
  /\ cpc = [j \in Jobs |-> "no"]
  /\ dtor = "no" /\ left = {} /\ joining = NoId
  /\ aborted = FALSE
  /\ atPause = [j \in Jobs |-> 0]

(* The worker moves on and writes nothing that others read.                *)
Goes(j, next) ==
  /\ wpc' = [wpc EXCEPT ![j] = next]
  /\ UNCHANGED <<jobs, id, flags, progress, joinable, transferred, spc, cpc,
                 destructor, aborted, atPause>>

-----------------------------------------------------------------------------
(* Mutations.  Each is what a plausible mistake would make of the          *)
(* definition it is named after; no specification below uses one.          *)

(* The pause flag is looked at before the first chunk only.                *)
WorkerTestPauseOnce(j) ==
  /\ wpc[j] = "test"
  /\ Goes(j, IF transferred[j] = Chunks \/ ~running[Entry(j)] THEN "finish"
             ELSE IF transferred[j] = 0 THEN "gate" ELSE "send")

(* `break' where `continue' belongs.                                       *)
WorkerGateBreaks(j) ==
  /\ wpc[j] = "gate"
  /\ Goes(j, IF paused[Entry(j)] THEN "finish" ELSE "send")

(* A paused worker waits in a loop of its own.                             *)
WorkerGateWaits(j) ==
  /\ wpc[j] = "gate"
  /\ Goes(j, IF paused[Entry(j)] THEN "gate" ELSE "send")

(* detach() where join() belongs.                                          *)
DtorJoinDetaches ==
  /\ ~aborted /\ joining # NoId
  /\ joinable' = [joinable EXCEPT ![jobs[joining]] = FALSE]
  /\ left' = left \ {joining} /\ joining' = NoId
  /\ UNCHANGED <<jobs, id, flags, progress, workers, spc, cpc, dtor, aborted,
                 atPause>>

-----------------------------------------------------------------------------
(* start(): the JobState is made and filled in by its caller alone.        *)
StartCreate(i) ==
  /\ dtor = "no" /\ \E j \in Jobs : spc[j] = "none"
  /\ LET j == CHOOSE k \in Jobs : spc[k] = "none" IN
       /\ id' = [id EXCEPT ![j] = i]
       /\ status' = [status EXCEPT ![j] = "SYNCING"]
       /\ running' = [running EXCEPT ![j] = TRUE]
       /\ spc' = [spc EXCEPT ![j] = "insert"]
  /\ UNCHANGED <<jobs, paused, error, synced, joinable, workers, cpc,
                 destructor, aborted, atPause>>

(* A new id: the map's tree changes.  Workers search it without the mutex. *)
StartInsert(j) ==
  /\ spc[j] = "insert" /\ ~Locked
  /\ Entry(j) = NoJob
  /\ spc' = [spc EXCEPT ![j] = "inserting"]
  /\ UNCHANGED <<jobs, id, flags, progress, joinable, workers, cpc,
                 destructor, aborted, atPause>>

StartInserted(j) ==
  /\ spc[j] = "inserting"
  /\ jobs' = [jobs EXCEPT ![id[j]] = j]
  /\ spc' = [spc EXCEPT ![j] = "spawn"]
  /\ UNCHANGED <<id, flags, progress, joinable, workers, cpc, destructor,
                 aborted, atPause>>

(* A known id: the entry changes hands and the old JobState loses it.      *)
StartReplace(j) ==
  /\ spc[j] = "insert" /\ ~Locked
  /\ Entry(j) # NoJob
  /\ jobs' = [jobs EXCEPT ![id[j]] = j]
  /\ spc' = [spc EXCEPT ![j] = "spawn"]
  /\ UNCHANGED <<id, flags, progress, joinable, workers, cpc, destructor,
                 atPause>>
  /\ aborted' = DestroysJoinable'

StartSpawn(j) ==
  /\ spc[j] = "spawn"
  /\ joinable' = [joinable EXCEPT ![j] = TRUE]
  /\ wpc' = [wpc EXCEPT ![j] = "lookup"]
  /\ spc' = [spc EXCEPT ![j] = "return"]
  /\ UNCHANGED <<jobs, id, flags, progress, transferred, cpc, destructor,
                 aborted, atPause>>

(* start() returns and drops its shared_ptr.                               *)
StartReturn(j) ==
  /\ spc[j] = "return"
  /\ spc' = [spc EXCEPT ![j] = "returned"]
  /\ UNCHANGED <<jobs, id, flags, progress, joinable, workers, cpc,
                 destructor, atPause>>
  /\ aborted' = DestroysJoinable'

-----------------------------------------------------------------------------
(* A thread calls a method for id i, which is in the map.                  *)
Calls(i) == dtor = "no" /\ ~Locked /\ jobs[i] # NoJob

Pause(i) ==
  /\ Calls(i)
  /\ paused' = [paused EXCEPT ![jobs[i]] = TRUE]
  /\ atPause' = IF paused[jobs[i]] THEN atPause
                ELSE [atPause EXCEPT ![jobs[i]] = synced[jobs[i]]]
  /\ UNCHANGED <<jobs, id, running, progress, joinable, workers, spc, cpc,
                 destructor, aborted>>

Resume(i) ==
  /\ Calls(i)
  /\ paused' = [paused EXCEPT ![jobs[i]] = FALSE]
  /\ atPause' = [atPause EXCEPT ![jobs[i]] = 0]
  /\ UNCHANGED <<jobs, id, running, progress, joinable, workers, spc, cpc,
                 destructor, aborted>>

(* cancel() waits for nobody.  It writes three fields one after the other  *)
(* with the mutex held, and the worker, which takes no mutex, goes on.     *)
CancelFlag(i) ==
  /\ Calls(i)
  /\ running' = [running EXCEPT ![jobs[i]] = FALSE]
  /\ cpc' = [cpc EXCEPT ![jobs[i]] = "status"]
  /\ UNCHANGED <<jobs, id, paused, progress, joinable, workers, spc,
                 destructor, aborted, atPause>>

(* The status is one that the worker writes too.                           *)
CancelStatus(j) ==
  /\ cpc[j] = "status"
  /\ status' = [status EXCEPT ![j] = "FAILED"]
  /\ cpc' = [cpc EXCEPT ![j] = "error"]
  /\ UNCHANGED <<jobs, id, flags, error, synced, joinable, workers, spc,
                 destructor, aborted, atPause>>

CancelError(j) ==
  /\ cpc[j] = "error"
  /\ error' = [error EXCEPT ![j] = "cancelled"]
  /\ cpc' = [cpc EXCEPT ![j] = "no"]
  /\ UNCHANGED <<jobs, id, flags, status, synced, joinable, workers, spc,
                 destructor, aborted, atPause>>

-----------------------------------------------------------------------------
(* jobs_.find(job_id) without the mutex: while another start rebalances    *)
(* the tree the search may miss the id, and the worker returns.            *)
WorkerLookup(j) ==
  /\ wpc[j] = "lookup"
  /\ \/ Goes(j, "test")
     \/ Inserting /\ Goes(j, "missed")

WorkerTest(j) ==
  /\ wpc[j] = "test"
  /\ Goes(j, IF transferred[j] < Chunks /\ running[Entry(j)]
               THEN "gate" ELSE "finish")

WorkerGate(j) ==
  /\ wpc[j] = "gate"
  /\ Goes(j, IF paused[Entry(j)] THEN "test" ELSE "send")

(* A chunk is sent and counted.  Two workers that share an entry increment *)
(* one plain int, and an increment may start from a value that is old.     *)
WorkerSend(j) ==
  /\ wpc[j] = "send"
  /\ transferred' = [transferred EXCEPT ![j] = @ + 1]
  /\ \E old \in 0..synced[Entry(j)] :
       /\ \/ old = synced[Entry(j)]
          \/ \E k \in Jobs \ {j} : Alive(k) /\ id[k] = id[j]
       /\ synced' = [synced EXCEPT ![Entry(j)] = old + 1]
  /\ wpc' = [wpc EXCEPT ![j] = "test"]
  /\ UNCHANGED <<jobs, id, flags, status, error, joinable, spc, cpc,
                 destructor, aborted, atPause>>

WorkerFinish(j) ==
  /\ wpc[j] = "finish"
  /\ status' = [status EXCEPT ![Entry(j)] = "COMPLETED"]
  /\ wpc' = [wpc EXCEPT ![j] = "end"]
  /\ UNCHANGED <<jobs, id, flags, error, synced, joinable, transferred, spc,
                 cpc, destructor, aborted, atPause>>

(* No memory for a chunk: the exception is caught and reported.            *)
WorkerThrows(j) ==
  /\ wpc[j] = "send"
  /\ status' = [status EXCEPT ![Entry(j)] = "FAILED"]
  /\ error' = [error EXCEPT ![Entry(j)] = "what"]
  /\ wpc' = [wpc EXCEPT ![j] = "end"]
  /\ UNCHANGED <<jobs, id, flags, synced, joinable, transferred, spc, cpc,
                 destructor, aborted, atPause>>

WorkerEnd(j) ==
  /\ wpc[j] = "end"
  /\ running' = [running EXCEPT ![Entry(j)] = FALSE]
  /\ wpc' = [wpc EXCEPT ![j] = "done"]
  /\ UNCHANGED <<jobs, id, paused, progress, joinable, transferred, spc, cpc,
                 destructor, aborted, atPause>>

-----------------------------------------------------------------------------
(* The owner destroys the object once no call of a method is in progress.  *)
(* It holds jobs_mutex_ to the end, but nobody else asks for it any more.  *)
DtorEnter ==
  /\ ~aborted /\ dtor = "no"
  /\ \A j \in Jobs : spc[j] \in {"none", "returned"} /\ cpc[j] = "no"
  /\ dtor' = "run"
  /\ left' = {i \in Ids : jobs[i] # NoJob}
  /\ UNCHANGED <<jobs, id, flags, progress, joinable, workers, spc, cpc,
                 joining, aborted, atPause>>

DtorStop ==
  /\ ~aborted /\ dtor = "run" /\ joining = NoId
  /\ \E i \in left :
       /\ running' = [running EXCEPT ![jobs[i]] = FALSE]
       /\ joining' = i
  /\ UNCHANGED <<jobs, id, paused, progress, joinable, workers, spc, cpc,
                 dtor, left, aborted, atPause>>

DtorJoin ==
  /\ ~aborted /\ joining # NoId
  /\ wpc[jobs[joining]] \in {"done", "missed"}
  /\ joinable' = [joinable EXCEPT ![jobs[joining]] = FALSE]
  /\ left' = left \ {joining} /\ joining' = NoId
  /\ UNCHANGED <<jobs, id, flags, progress, workers, spc, cpc, dtor, aborted,
                 atPause>>

DtorEnd ==
  /\ ~aborted /\ dtor = "run" /\ left = {}
  /\ dtor' = "done"
  /\ UNCHANGED <<jobs, id, flags, progress, joinable, workers, spc, cpc, left,
                 joining, aborted, atPause>>

Destructor == DtorEnter \/ DtorStop \/ DtorJoin \/ DtorEnd

Call ==
  /\ ~aborted
  /\ \/ \E j \in Jobs :
          \/ StartInsert(j) \/ StartInserted(j) \/ StartReplace(j)
          \/ StartSpawn(j) \/ StartReturn(j)
          \/ CancelStatus(j) \/ CancelError(j)
     \/ \E i \in Ids :
          StartCreate(i) \/ Pause(i) \/ Resume(i) \/ CancelFlag(i)

Worker(j) ==
  /\ ~aborted
  /\ \/ WorkerLookup(j) \/ WorkerTest(j) \/ WorkerGate(j) \/ WorkerSend(j)
     \/ WorkerFinish(j) \/ WorkerThrows(j) \/ WorkerEnd(j)

Next == Call \/ (\E j \in Jobs : Worker(j)) \/ Destructor

Spec == Init /\ [][Next]_vars

(* Threads run: each worker, and the destructor once it has begun.         *)
FairSpec ==
  /\ Spec
  /\ \A j \in Jobs : WF_vars(Worker(j))
  /\ WF_vars(DtorStop \/ DtorJoin \/ DtorEnd)

-----------------------------------------------------------------------------
(* Every variable has its type.                                            *)
TypeOK ==
  /\ jobs \in [Ids -> Jobs \cup {NoJob}]
  /\ id \in [Jobs -> Ids \cup {NoId}]
  /\ running \in [Jobs -> BOOLEAN] /\ paused \in [Jobs -> BOOLEAN]
  /\ status \in [Jobs -> {"IDLE", "SYNCING", "COMPLETED", "FAILED"}]
  /\ error \in [Jobs -> {"none", "cancelled", "what"}]
  /\ synced \in [Jobs -> Nat]
  /\ joinable \in [Jobs -> BOOLEAN]
  /\ wpc \in [Jobs -> WorkerStates]
  /\ transferred \in [Jobs -> 0..Chunks]
  /\ spc \in [Jobs -> StartStates]
  /\ cpc \in [Jobs -> CancelStates]
  /\ dtor \in {"no", "run", "done"}
  /\ left \subseteq Ids /\ joining \in Ids \cup {NoId}
  /\ aborted \in BOOLEAN
  /\ atPause \in [Jobs -> Nat]

(* pause() does not wait for the worker, and still at most one chunk is    *)
(* sent after it: the one whose gate was already passed.                   *)
PauseLetsOneThrough ==
  \A j \in Jobs :
    paused[j] /\ ~Restarted(j) => synced[j] <= atPause[j] + 1

(* The worker leaves its loop at the end, on cancel() and in the           *)
(* destructor, and reports COMPLETED each time, over the status a cancel   *)
(* has written or before it does.  A completed job sent every chunk, or    *)
(* last_error says that it was cancelled, or the object is being           *)
(* destroyed; only while a cancel is still writing, which get_progress     *)
(* cannot see but the callback can, does the error lag behind.             *)
CompletedIsEarned ==
  \A j \in Jobs :
    status[j] = "COMPLETED" /\ ~Restarted(j) =>
      \/ synced[j] = Chunks
      \/ error[j] = "cancelled"
      \/ cpc[j] # "no"
      \/ dtor # "no"

(* When the destructor returns, no worker is left to use the object's      *)
(* members; a process in which one would be left has been terminated.      *)
NoWorkerOutlives == dtor = "done" => \A j \in Jobs : ~Alive(j)

(* The destructor ends although workers may be paused.                     *)
DestructorReturns == dtor = "run" ~> dtor = "done"
=============================================================================
