# Verification of OBS Backup

TLA+ specifications of the OBS backup system (the C++ core under `src/core`), the TLC
configurations that check them on small instances and the theorems about them that TLAPS
proves. Paths such as `cdp_engine.cpp:114` are relative to the repository's `core/src` (headers:
`core/include`).

## 1. The system

The core is a C++ agent. It receives messages on a local socket, runs backup jobs, continuous
data protection (CDP), transfers, replication and disaster recovery (DR) plans in threads of
their own, and keeps its state in memory, in SQLite files and in checkpoint files. A Python
backend (FastAPI, Celery, PostgreSQL) keeps policies and jobs, and a web frontend shows them.

### 1.1 Inventory

| Component | State it keeps | Operations | What is hard | What makes it correct |
|---|---|---|---|---|
| **CDP engine** `cdp/cdp_engine` | `sessions_` (id → Session with flag, counter, thread), SQLite journal | `start_session`, `stop_session`, `shutdown`, one monitor thread per start | threads joined under `sessions_mutex_`; handle stored after the session is visible; journal closed without `journal_mutex_`; ids of one second | a join means the thread is gone; nobody uses a closed journal; recovery points on whole batches; stop and shutdown return |
| **Backup job** `backup_engine/backup_job`, **message handler** `ipc/message_handler` | status, metrics, `cancelled_`, worker; `active_job_` | `run`, `cancel`, destructor, START_JOB, STOP_JOB | a job replaced while it runs; a cancel between two looks at the flag; exceptions of the scan | one worker at a time; one end per job, told to the callback; no shortened job COMPLETED (a source that is not there is skipped, which is no failure) |
| **Dirty buffer logger** `backup_engine/dirty_buffer_logger` | SQLite table of flushes; the host's page cache is the environment | `flush_and_log`, reports | pages dirtied and written back between the captures; two jobs flush one cache | a level is earned by a flush; a row says what its call returned (a failed CREATE TABLE or INSERT leaves none and nobody is told) |
| **Data mover** `data_mover/data_mover` | offset, worker, checkpoint file | `start_transfer`, `cancel_transfer`, worker | crash between truncating and writing the checkpoint; source replaced before the resume; zero chunks | nothing is skipped; bounded loss; the worker ends |
| **DR orchestrator** `dr/dr_orchestrator` | `plans_`, `runs_` | create, update, delete, run, test, cancel | two runs of one second share a record; plans change during a run; cancel is not looked at | what a record says stays true and adds up |
| **Remote replication** `replication/remote_replication` | `jobs_` (id → JobState with flags, progress, thread) | start, pause, resume, cancel, destructor, worker | the worker takes no lock and follows the map's entry; a cancel writes flag, status and error one after the other | a pause stops the sending; COMPLETED is earned; the destructor ends every worker |
| **VM replication** `replication_v2/vm_replication` | `states_`, `sync_threads_` | start, stop, pause, resume, failover, destructor | one status word written by five parties; no thread is joined | a stop or pause is kept and no round follows it; it is lost before the thread's first line (`vm_replication.cpp:25`), once a round is decided on, and, a stop, between two reads of the status |
| **Application** `framework/application`, **IPC** `ipc/unix_socket_server`, `message_router`, **agent** `agent/generic_agent` | `running_`, `g_shutdown`, acceptor, services of the registry, heartbeat thread | initialise, event loop, session, handlers, signal, destructors | `run()` takes `running_` down, so that the destructor's `shutdown()` does nothing; static destructors end the services | a signal ends the process, with the heartbeat joined |
| **Product agents** `agent/*_agent`, `dbms` | nothing but files they leave | run tools, answer | exit codes dropped; one snapshot file for all jobs | a success means a copy |
| **Cross-platform restore** `restore/cross_platform_restore` | the images on disk | convert a disk, also over a raw image | calls share the raw image beside the backup, and remove it | a disk told restored is whole |
| **Incremental chain** `incremental/common` | SQLite `job_chain`, `bitmap_store` | `record_job`, `verify_chain_integrity`, `check_chain`, `should_force_full` | parents recorded late or again, circles; one lock per lookup | an answer holds of the table |
| **Dirty buffer manager** `backup_engine/dirty_buffer_manager` | SQLite table of dirty blocks | record, read, mark, clean up | rows recorded between the read and the mark; times compared as text | nothing is marked that no backup was given |
| **Deduplication** `dedup/dedup_engine` | SQLite chunk table with reference counts | process a file, lookup, add | look-up and insert are two locks; short last read; no statement's result is looked at | references count their holders |
| **Platform incremental engines** `incremental/*`, `backup_engine/incremental/*` | a marker (snapshot, file, bitmap); rman's script and log | detect, merge, read; backups by rman | the marker moves before the read; a directory is read as a file; a walk that throws is reported as far as it came; sizes in 32 bits; a shared log | a change is awaiting detection, held or saved |
| **Engine factory, cryptography** `engine/engine_factory`, `crypto/crypto_engine` | none | encrypt, compress, wrap keys and the reverse | two engines for one format; lengths overwritten | what is opened is what was sealed, or nothing |
| **Scale-out repository** `scaleout/scaleout_repository` | repositories with extents, a counter shared by all | create, add, remove, evacuate, maintenance, write | the turn of an extent as extents come and go; ids reused | writes go to extents online, capacity adds up |
| **Hypervisor adapters** `virtualization/*` and their manager | `connections_` under a mutex; per adapter a session and a curl handle | connect, remove, list, call | adapters used after the unlock; requests lost; a sticky verb | no use after free unless removed; sessions closed; true means done |
| **VM verification** `verification/vm_verification` | `result_`, `cancelled_`, worker | verify, cancel | one object for overlapping calls; a cancel lowered by the next call | PASSED is earned |
| **Virus scanner** `antivirus/av_scanner` | `scanning_`, progress, quarantine directory | scan, cancel, quarantine | one flag and one progress for all scans; numbers after a restart | a scan tells what it did |
| **Changed block tracking** `backup_engine/cbt`, bitmap tables | `bitmap_`, `changed_count_`; a file; SQLite rows | mark, query, reset, save, load | bitmap of one size, disk of another; sizes in 32 bits; files cut by a crash | what was marked is told; what was saved is loaded |
| **HA cluster**, **tape and tiers**, **backend**, **frontend** | see section 7 | | | |

### 1.2 Interactions

`UnixSocketServer` (or the named pipe) reads a message and calls the handler registered for its
type. `MessageRouter` registers handlers that call the pipeline, the CDP engine and the agent;
`MessageHandler` owns the one `active_job_`. A `BackupJob` worker first calls
`DirtyBufferLogger::flush_and_log`, then scans its sources. `DataMover`, `RemoteReplication`,
`VmReplication` and `DrOrchestrator` are libraries whose callers are the embedder's threads;
they call back with progress. `Application` owns the services; a signal only sets a flag that its
poll loop looks at, and every session, handler and job runs on that one thread. The agent the
factory makes runs the tools of its product. The hypervisor manager keeps the adapters under a
mutex that the calls through them do not hold. The backend is meant to talk to the core over the
socket.

## 2. Modules

| Module | Models | State ↔ code | Actions ↔ code |
|---|---|---|---|
| `CdpEngine` | `CdpEngine` | `sessions` = `sessions_`; `running`, `status`, `blocks`, `joinable` = fields of `Session`; `rows`, `points` = tables of the journal; `mpc`, `cpc` = where the threads are | `Start*`, `Stop*`, `Shutdown*`: the methods, cut where another thread can act; `Monitor*`: one per stretch of `monitor_loop` |
| `JobLifecycle` | what a job promises: one start, one end, a truthful callback | `status`, `told` | `Start`, `Finish`, `Tell` |
| `BackupJob` | `BackupJob` under `MessageHandler` | `active`, `mutex` = `active_job_`, `jobs_mutex_`; per job `status`, `cancelled`, `joinable`, `size`, `rounds`, `told` | `StartJob`, `StopJob`, `Run*`, `Cancel*` (also run by the destructor), `Flush` … `Announce` = `do_backup` |
| `DirtyBufferLogger` | `flush_and_log` on one page cache | `dirty` = the host's dirty pages; per call the two captures and the status; `initialized`, `logs` = the database and its rows | `CaptureBefore`, `FlushSucceeds`, `FlushFails`, `CaptureAfter`, `Evaluate` with `Save`; `Dirty`, `Writeback` are the host |
| `DataMover` | one transfer over crashes and restarts | `checkpoint` = the file (absent, empty, offset), `transferred`, `wpc`, `joinable`, `cancelled`; `source` = the file at the source path | `StartTransfer`, `CancelTransfer`, `Open` … `Remove`; `Restart`, `Replace` are the environment |
| `DrOrchestrator` | plans, runs and run records | `plans`, `runs` keyed by the second; per call a copy of the plan and where it is | `CreatePlan`, `UpdatePlan`, `DeletePlan`, `RunPlan`, `Step*`, `RunEnd`, `CancelRun`; `Tick` is the clock |
| `RemoteReplication` | `RemoteReplication` | `jobs` = `jobs_`; per JobState flags and progress; `transferred` = the worker's local | `Start*`, `Pause`, `Resume`, `CancelFlag` … `CancelError` = the three writes of `cancel`, `Worker*` = `do_replicate`, `Dtor*` |
| `VirtualizationManager`, `HypervisorAdapters` | `vm_manager` and the VMware, Hyper-V and Proxmox adapters | `connections`, `lock` = the table and its mutex; per adapter its session, its handle's sticky verb; `todo` = the requests a call has still to make | one action per region under the mutex and per request, which may be lost |
| `CoreProcess` | `Application`, socket server, router, heartbeat, static destructors | `pc` = where the main thread is; flags, backlog, session; `services` = what the registry still holds | `Main` = the main thread from `initialize` to the last destructor; `Heartbeat`, `Monitor`, `Connect`, `Speak`, `SignalHandler` |
| `ProductWrappers`, `AgentJobs` | the jobs of one agent | per agent how `execute_job` is done (a tool and its exit code, the exit code dropped, nothing run, …); `snar`, `known`, `archive` = tar's snapshot file and archive | `ExecuteJob`; `Change` is the source |
| `CrossPlatformRestore` | overlapping conversions of one backup | `image` = what each file holds; `restores` = the conversion each thread makes | `ConvertDisk`, `ConvertFormat` = the start of a call and of its second conversion; `Converted`, `Failed` = the end of a run of qemu-img |
| `IncrementalChain` | `job_chain` and its readers | `rows` = the table, `check` = a walk between its lookups | `RecordJob`, `CheckJob`, `CheckParent`, `VerifyChainIntegrity`, `ShouldForceFull` |
| `DirtyBufferManager` | the table of dirty blocks | `table`, `given`, `read`, `backup` | `RecordDirtyBlock(sBatch)`, `Get…`, `Mark…`, `CleanupOldRecords` |
| `DedupEngine` | `process_file` by several threads | `refs` = the table, by hash (the content repeats, so that equal chunks occur at several places); `reader` = what a thread holds between its steps; `unwritten` = hashes a statement failed for | `ReadChunk`, `Lookup`, `AddChunk` |
| `VmReplication` | the sync threads and their callers | `status`, `worker` per replication; `program` terminated or not | `Start`, `Stop`, `Pause`, `Resume`, `Failover`, `Destroy`; `InitialSync` … `Sleep` = the thread |
| `ChangedBlocks` | the detection of changes by eight methods | `marked`, `since` = the marker and what changed after it; `held` = ranges the caller has; `saved`; `tree` = the source is a directory; `missed` = changes a marker moved past without their being reported | `Detect…`, `DumpQemuDirtyBitmap`, `ClearQemuDirtyBitmap`; `Read`, `Drop`, `Restart` are the caller |
| `OracleBackup` | the calls of rman | `scripts`, `log` = the files all calls share; `calls` = where each is; `results` = what the last call of each thread was told | `WriteScript`, `StartRman`, `EndRman`, `ReadLog` |
| `BlockBitmaps` | `ChangedBlockTracking` and the two tables of bitmaps | `bits`, `count`, `total` = fields of the tracker; `runs` = what the file or row holds | `MarkRange`, `GetChangedBlocks`, `Reset`, `Save`, `Load`, `Make`; `SaveBitmap`, `LoadBitmap` |
| `Engines` | both crypto engines, compression, keys | `layers` = what was done to the bytes; `content` = what they say; `wrapped`, `hand` = keys | `Encrypt`, `Decrypt`, `Compress`, `Decompress`, `WrapKey`, `UnwrapKey`, `GenerateKey`; `Alter` is what happens to stored bytes |
| `ScaleOut` | one repository; the others by what they do to the counter | `repo`, `counter`, `written`, `turns` | one per method |
| `VmVerification` | overlapping `verify` calls and cancels | `result`, `cancelled`, `handle` = `worker_`; `caller`, `run` = where the threads are | `Call` … `Take`, `Cancel`; `Boot` … `Finish` = `do_verify` |
| `AvScanner` | overlapping scans, the quarantine, restarts | `scanning`, `progress`, `number` = the counter of `gen_id`, `stored` = the quarantine | `Start` … `Return`, `Throw` = an exception of the walk, `CancelScan`, `Quarantine`, `ReadNumber`, `Rename` |

`MC…` modules instantiate them for TLC; `…Proofs` modules hold the theorems. Definitions whose name
extends that of an action (`StopJoinDetaches` …), under the heading *Mutations*, are what a
plausible mistake would make of that action; no specification uses one. They serve to see
that each property fails when the code is wrong.

`MCServices` puts together the fourteen components that share no state with each other. A behaviour is
one of the component that is active, the others stand in an initial state, so the states of the
run are those of fourteen runs added up; nothing is said of their interaction, which does not exist in
the code. The modules can be run by themselves as well. `MCVirtualizationManager` does compose: the
adapters' requests are steps of the manager's calls.

Granularity: an action is a stretch of one thread between two points where another thread can
interfere. A region under a mutex that does not block is one action; a region that blocks
while it holds the mutex is several, with the holder in a variable. Where the code has a data
race (plain counters incremented by two threads, a map searched while it changes) the action
chooses among the outcomes.

## 3. Runs

| Run | Question | Bounds, and why they are enough | States |
|---|---|---|---|
| `cdp_safety` | Starts, restarts, stops and shutdowns: what a join means, who touches a closed journal, where recovery points fall | 2 callers, 2 ids, 2 sessions, interval 2, 2 blocks; symmetry. Every hazard needs two threads in the engine, and a session replaced by another of the same id or standing beside one of another | 222 783 |
| `cdp_liveness` | When do `stop_session` and `shutdown` return? | 2 callers, 1 id, 2 sessions, interval 1, 1 block. No symmetry | 251 350 |
| `job_safety` | START_JOB and STOP_JOB against the worker: one worker, one end, refinement of `JobLifecycle`, every job ends | 2 handlers, 3 jobs, 2 rounds: a job is replaced twice, and while another thread is about to stop it; sources that are there, missing or throw | 101 821 |
| `flush_safety` | What a status, a level and a row stand for | 2 calls, 3 pages; symmetry. Counts can fall, stay or rise over a flush that another call shares; the database works, has no table, or loses an INSERT | 350 296 |
| `flush_docs` | *violation*: the documented level for counts that did not fall | 1 call, 2 pages | |
| `mover_safety` | Crashes, exceptions, cancels and resumes: nothing skipped, bounded loss, every worker ends | sources of 11 and 6 units, chunks of 2, interval 5, 2 crashes, 1 replacement: chunk ends meet the interval in both phases, the last chunk is short, zeros hide a save | 8 039 |
| `dr_safety` | What two runs of one second leave in the record | 2 runs, 2 seconds, plans of one and of two steps; symmetry | 465 345 |
| `dr_dependencies` | *violation*: the sort called topological | 1 run, 1 plan whose orders contradict its dependencies | |
| `replication_safety` | Pause, cancel, restart and destruction against workers without locks | 2 starts with 1 or 2 ids, 2 chunks: one chunk can be on its way at a pause and another held back. The ids are alike, so the first start takes the first (`CONSTRAINT FirstId`) | 1 363 667 |
| `virtualization` | Adapters used through a manager that lets go of its mutex: who uses one that is gone, which sessions stay open, what a true answer means | 2 threads, 2 adapters of one host, a call of each kind (one request, several, one that makes the verb stick). Two connections are enough for a removal, a replacement and a repeated id to happen under a call | 305 122 |
| `services` | The fourteen components that share no state: what each promises | 3 clients and a signal; 2 files; 3 jobs with chains of 2 and a depth limit of 3; 2 rows in 2 seconds; 2 threads over a file of up to 6 with chunks of 2 to 4; 1 replication (replications share only the end of the program); sizes that wrap at 4 on disks of 3 and 4, 2 ranges held; 2 keys, 2 layers; 2 extents, 3 turns, sizes cut at 4; bitmaps of 1 and 4 blocks with runs up to 3; 2 disks restored; 1 further run of rman after a full backup. Each hazard of a component needs at most two actors and one repetition; the depth limit is no less than the longest chain without a circle, so that only a circle meets it. Takes about four minutes | 713 752 |
| `crypto_roundtrip` | *violation*: the round trip a test asserts of the factory's crypto engine | 2 keys, 2 layers | |

Deadlock is not checked where the system may rightly stop: every call has returned and the inputs
are used up, the process was terminated, or (CDP) a documented deadlock of the code is reached.

### Properties

* CDP: `AbortNeedsRestart` (`std::terminate` only after a reused id), `JoinedMeansDone`,
  `JoinWaitsForItsOwnFlag`, `NoJournalUseAfterClose`, `RecoveryPointsExact`; `StopReturns` and
  `ShutdownReturns` state the condition under which the code's joins end. Without the condition
  they fail: a monitor that has not looked its session up needs the mutex the joining thread holds
  (`cdp_engine.cpp:114` and `:155`), and a session started between the two locked blocks of
  `shutdown` is joined with its flag up.
* Jobs: `OneWorker`, `CompletedIsUncut`, `StoppedMeansOver`, `FollowsLifecycle`, `JobEnds`,
  `HandlersReturn`.
* Flushes: `FlushedIsWritten`, `LevelIsEarned`.
* Data mover: `CheckpointIsCovered`, `WholeMeansAll`, `LossIsBounded`, `TransferEnds`.
* DR: `LastRunIsRecorded`, `EntriesStay`.
* Replication: `PauseLetsOneThrough`, `CompletedIsEarned`, `NoWorkerOutlives`, `DestructorReturns`.
* Hypervisors: `UseAfterFreeNeedsRemoval`, `SessionsAreClosed`, `TrueMeansDone`, `LockIsReleased`.
* Process: `SignalEndsProcess`, but for a client that connects and stays silent (`read` has no timeout
  on the one thread) and for a CDP engine destroyed before a monitor has looked its session up.
* Agents and restores: `SuccessHasCopy`: the first job that uses the snapshot file leaves a whole copy;
  an Oracle call that met no other is told a success only for a copy, or where rman did not start and the
  log held no old error (what `backup_all` does after a good full backup changes nothing: it says true
  though a later run was lost, `oracle_backup.cpp:232`); a disk restored by a call that shared no file is
  whole.
* Stores and engines: `AnswersHold` (chains), `MarkedWasRead` (dirty blocks), `NothingIsUncounted` (chunks),
  `RequestIsKept` (VM replication), `ChangesAreKept` (change detection), `OpenedIsOriginal` (encryption,
  compression, keys), `WritesArePlaced` (extents). `AnswersHold` and `ChangesAreKept` also say what bitmaps of changed blocks
  give back (`BlockBitmaps`): a loaded one is cut only by `BitmapManager`, and only past three bytes a run.
* Tools: `VerdictIsEarned` (VM verification), `ScansAreTold` (virus scans and quarantine).

Where the code breaks a promise under some circumstance, the property names the circumstance, by a
variable that records that it happened, and nothing more is excepted. Such variables change no behaviour;
each is explained where it is declared. Read these properties for what they say: not that the hazard never
happens, which is false of the code, but that nothing else breaks the promise.

| Property | What it does not claim |
|---|---|
| `AbortNeedsRestart`, `RecoveryPointsExact` | anything of an id started a second time |
| `StopReturns`, `ShutdownReturns`, `SignalEndsProcess` | a return where a join waits for a monitor that has yet to take the mutex, or a client stays silent |
| `MarkedWasRead` | anything of rows recorded between the read and the mark (`late`), or of those whose time is garbled |
| `NothingIsUncounted` | an exact count where two threads missed a chunk at a time (`clash`) or a statement failed (`unwritten`); never too many it does claim |
| `RequestIsKept` | anything of a request in the three places where the thread writes over it (`askedAt`) |
| `ChangesAreKept` | that a change is kept which a tool's size, a walk that throws or a directory left out (`missed`: that very block); of trackers whose bitmap is too short |
| `AnswersHold` | anything of an answer a write overtook, of a length whose chain was recorded late or again (`loose`), or of the length of a job without a row, which the code leaves uninitialised |
| `WritesArePlaced` | evenness over a turn of another repository or a change of the repository |
| `ScansAreTold` | anything of scans that overlapped (`mixed`), or of files in quarantine after a restart or overlapping calls (`raced`) |
| `SuccessHasCopy`, `VerdictIsEarned` | more than the stated minimum for calls that overlap |

Each is stated in words where it is defined. Most modules have a type invariant (`TypeOK`) beside
them. Those of the seven components with a module of runs of their own are proved; the others
document the variables and can be named in a cfg, but no run is spent on them.

### Fairness

Weak fairness of each thread's own steps: the operating system runs a thread that can run. No
fairness is assumed of callers (nobody has to call), of the environment (crashes, replaced files,
dirty pages, exceptions) or of mutexes: `std::mutex` does not promise any, and the liveness
properties hold without. In `CdpEngine` the step that acquires `sessions_mutex_` in a monitor
is therefore not fair.
In `CoreProcess` the main thread, the heartbeat and the monitors are fair, clients and the signal are
not. In `VirtualizationManager` the steps of a call that need no answer are fair and requests are not:
neither adapter sets `CURLOPT_TIMEOUT`, so that a hypervisor that leaves a request hanging keeps
`connections_mutex_` for ever. `LockIsReleased` says that this alone keeps it: a thread whose requests all
end gives the mutex back.

### Findings

* `flush_docs`: `dirty_buffer_logger.cpp:168` reports APPLICATION_CONSISTENT ("no dirty
  pages detected") whenever a successful flush left no fewer dirty pages than it met, also when there
  were some before and as many after; the documentation
  (`docs/OBS-BACKUP-FULL-DOCS.md:1077`) says CRASH_CONSISTENT for such counts.
* `dr_dependencies`: `sort_steps_by_dependency` (`dr_orchestrator.cpp:157`), whose comment says
  "Topological sort based on dependencies", sorts by the order number and never reads
  `depends_on`.
* `crypto_roundtrip`: `DefaultCryptoEngine::decrypt` of the `EngineFactory` (`engine_factory.cpp:291`)
  lets `EVP_DecryptFinal_ex` store its own length, 0 for GCM, over that of the plaintext and answers no
  bytes, where the test (`core/tests/test_oop.cpp:195`) asserts that decryption gives the data back.
  `CryptoEngine`, which keeps the two lengths apart, does.

## 4. Proofs

Proved with TLAPS for every value of the constants:

`CdpEngineProofs`: the inductive invariant `IInv` (`Invariance`) and from it `TypeCorrect`,
`AbortNeedsRestartHolds`, `JoinedMeansDoneHolds`, `JoinWaitsForItsOwnFlagHolds`,
`NoJournalUseAfterCloseHolds`, `RecoveryPointsExactHolds`. None of these is inductive: that
a consumed handle means a finished thread depends on which object a caller's locals hold
(`CallerLocals`), that map entries have the id they are filed under (`MapShape`), which thread states
go with which stage of the start (`ThreadShape`, `MonitorLocals`), who holds the mutex in which
state (`MutexShape`), and, for the journal, that a shutdown which closes it has joined
every session of the map that is not late (`ShutdownShape`). `RecoveryPointsExact` needs that
a session never started has no rows and that a thread about to take a recovery point has counted a
full batch (`CountShape`).

`BackupJobProofs`: `Invariance`, `TypeCorrect`, `OneWorkerHolds`, `CompletedIsUncutHolds`,
`StoppedMeansOverHolds`, and `FollowsLifecycleHolds`: each step of the jobs is a step of
`JobLifecycle` or a stutter. The invariant says which jobs can still have a live worker (`Current`:
only the active one, or one a handler is cancelling under the mutex), how status and worker go together
(`StatusShape`), when no walk or loop was cut short (`WholeShape`) and what the callback has been told at
each point (`ToldShape`).

`DataPathProofs`, about `DataMover`: `Invariance`, `TypeCorrect`, `CheckpointIsCoveredHolds`,
`WholeMeansAllHolds`, `LossIsBoundedHolds`, for any sizes, chunks and intervals. What a checkpoint covers
follows from what the run has counted (`CoverShape`). The bound of the loss is arithmetic: a chunk whose end
falls into a later interval is saved (`CrossingSaves`, the condition the code writes with `%`), so that between two rounds no
multiple of the interval lies behind the checkpoint unless zeros do (`GapShape`), and two numbers with no
multiple between them are less than an interval apart (`CloseTogether`).

`RemoteReplicationProofs`: `Invariance`, `TypeCorrect`, `PauseLetsOneThroughHolds`,
`CompletedIsEarnedHolds`, `NoWorkerOutlivesHolds`. Nothing is locked while a worker runs, so the invariant
says who refers to which `JobState` (`MapShape`, `HoldShape`: until the process is terminated somebody holds
each one that has a thread), whom the destructor has yet to join (`DtorShape`), which chunk has passed its
gate (`PauseShape`), and that a worker alone with its entry leaves its loop early only for a cancel, perhaps
one that has yet to write the error, or for the destructor (`FlagShape`).

`DataPathProofs`, about `DirtyBufferLogger`: `FlushInvariance`, `FlushTypeCorrect`, `FlushedIsWrittenHolds`,
`LevelIsEarnedHolds`. A flush shares the pages with other calls and with writers, so the invariant keeps
what is dirty apart by when it was dirtied (`DirtyShape`); rows come from finished calls alone, of an object
whose database opened (`RowShape`). (The two components have no name in common, so
that one module extends both; nothing is said of them together.)

`DrOrchestratorProofs`: `Invariance`, `TypeCorrect`, `EntriesStayHolds`, an action property, and
`LastRunIsRecordedHolds`. A call that has entered its run finds a record under its id whoever replaced it,
and one that has not owns none (`CallShape`), so that only an entering run takes a record over. The second
invariant, `RInv`, adds that a call owns only the record of its own second (`OwnerShape`). What a step adds
to a record is one entry, and then the places of a call's entries correspond to what it has done as before
(`InOrder`, by the ranks of both) and the total grows by the entry's time.

`VirtualizationManagerProofs`: `Invariance`, `TypeCorrect`, `UseAfterFreeNeedsRemovalHolds`,
`SessionsAreClosedHolds`, `TrueMeansDoneHolds`, for any operations an adapter's interface has. The first
part is about the requests an operation makes (`TwoRequests`, `OneRequest`, `ListingProper`, …): which of them
leave the verb stuck, which log in. The invariant relates the table, what calls hold
(`OwnShape`), what they have still to ask (`TodoShape`), what a system without removals and races looks like
(`AloneShape`: ids are 1..n and nothing is destroyed), and who closes an open session (`SessionShape`,
`ShareShape`).

`ServicesProofs` is about `MCServices`, whose step is one of the active component's: each component has an
inductive invariant over its own variables, and a lemma (`VmMoves`, `DedupMoves`, …) that every step is a
step of the component or leaves these alone. Its theorems:

| Theorem | Invariant, and what it adds |
|---|---|
| `RequestIsKeptHolds` | `VmInv`: a thread that has not begun was asked nothing, and one that was asked in time is past its first line and, for a stop, not between the two reads of the status (`VmShape`) |
| `OpenedIsOriginalHolds` | `EngineInv`: what is under the layers is the original at all times, or was emptied. It rests on what the engines look at: drop the check of the tag (`Authenticated`) or of zlib's return (`Inflated`) and garbage is handed out |
| `MarkedWasReadHolds` | `BufferInv`: which rows a backup at work has taken |
| `SuccessHasCopyHolds` | `AgentInv`: a snapshot file that was never written knows no file. `OracleInv`: the script and log of a call that no other overlapped are its own, and a result is judged truly (`ResultsAreTrue`, `JudgedIsTrue`). `RestoreInv`: a conversion that met no other reads what is whole, and neither its disk nor its raw image is written or removed by another (`Sound`, `Fits`) |
| `NothingIsUncountedHolds` | `DedupInv`: what each thread has read reaches up to its position (`ReaderShape`), and a hash has no more references than the look-ups that kept a chunk of it, and as many unless two threads missed it at a time or a statement failed for it (`RefsShape`) |
| `ScansAreToldHolds` | `ScannerInv`: counters of an undisturbed scan are the cardinalities of what it has seen (`ScanShape`), and numbers in the quarantine are those of its files (`StoreShape`) |
| `VerdictIsEarnedHolds` | `VerificationInv`: checks passed and progress of a worker that no other overlapped (`OwnProgress`). An action property |

`StoreProofs` is about `MCServices` too, and about what is computed from tables, sequences and files. A
recursive function (the total of a sequence of extents, the runs of a bitmap, ranges joined one by one) has no
facts of its own but those of an induction, and the library's theorem of induction takes an operator as
its parameter, which the provers cannot instantiate. `LeastMember`, `SetInduction`, `RecursionExists` and
`RecursionAgrees` say the same about sets and functions: a nonempty set of natural numbers has a least
member, a set with 0 and all successors has all of them, and one function follows a given step. Every lemma
about a recursion rests on these.

| Theorem | Invariant, and what it adds |
|---|---|
| `AnswersHoldHolds` | `ChainInv`: while nobody writes, a check is on the line of the job it was asked about, what it has passed are rows with parents and as many as the depth it counts, unless the line is a circle (`CheckShape`); a length that was not lost is that of the line (`LengthShape`). The line is the least set that contains the parents of its members (`LineIsLeast`, `LineStep`); where a row is replaced, only lines through it change (`LineElsewhere`). `BitmapInv`: what is kept opens to the beginning of what was to be kept, and in a table to all of it. Compressing and opening again gives the bitmap back, whatever the longest run (`CompressOpens`), and a file cut after some run gives a beginning (`DecompressPart`) |
| `WritesArePlacedHolds` | `ScaleInv`: how many turns each extent that is online has had is told by its rank among them, the counter and the number of turns (`Spread`, `Ahead`), so that a turn more of the next extent keeps them even (`TurnSpreads`, `SpreadIsEven`). The extent in turn exists (`RankIsTaken`) and is the only one of its rank (`RankIsOne`). The capacity needs what an addition, a change and a removal make of a total (`TotalAppend`, `TotalSame`, `TotalRemove`) and that it does not matter where a sum is cut (`CutOfCut`, `CutAdds`) |
| `ChangesAreKeptHolds` | `ChangedInv`: the ranges held are sorted and, by the method, of one block each or begin at 0 (`RangesOf`), so that a size never wraps when ranges are joined. Joining a range to others loses no block of either (`AddedIs`, `JoinedCovers`), sorting loses none (`MergedCovers`), and a reading stops at the first range beyond the end of the source, so that in sorted ranges nothing before it is left out (`ReadCovers`); a directory is read as nothing, and then what was held is `missed`. The tracker's half is `MarksAreTold` of `BitmapInv`, with the longest stretch around a block (`StretchOf`) |

Each invariant is proved with one lemma per conjunct or per action, and under it one step per action or per
conjunct that can be disturbed. `ServicesProofs` and `StoreProofs` take about fifteen minutes each to check from
nothing, the others less than two.

Assumptions are the constants', named in the modules that declare them: `CdpAssumption`, `JobAssumption`,
`ReplicationAssumption`, `DrAssumption`, `ManagerAssumption` (a "nobody" differs from every name; intervals,
chunks and rounds are natural numbers, most of them not 0; plans and the numbered adapters are finite),
`MoverAssumption` (also that zeros lie inside their source), `PagesAssumption`, `DedupAssumption`,
`ScannerAssumption` (pages, threads and files are finitely many, chunk sizes not 0), `NoRunAssumption` (no
record is the absence of one), `ChainAssumption` (finitely many jobs, none of them the empty id; a depth limit
that is not 0), `BitmapAssumption` (a longest run that is not 0, a largest disk), `ChangedAssumption` (32 bits
hold the size of a block), `ScaleAssumption` (the width of a size holds the largest extent),
`RestoreAssumption` (the backup is none of the disks restored). The session ids' journal tables start empty.

Only model-checked:

* All liveness: `StopReturns`, `ShutdownReturns`, `JobEnds`, `HandlersReturn`, `TransferEnds`,
  `DestructorReturns`, `LockIsReleased`, `SignalEndsProcess` (`ENABLED` is out of the prover's reach).
* The three violations, which are counterexamples.

Every invariant and every action property that a passing run checks is the statement of a theorem.

## 5. What the models leave out

* Data: block contents, hashes, file names, messages. A chunk is a number or an interval, a page or a key a
  model value. Hashes are what tells contents apart (`DedupEngine`). Sizes keep their width where a value
  the models reach is cut or wraps: ranges (`Wrap` in `ChangedBlocks`), runs of a bitmap (`MaxRun`), sizes
  of extents and repositories (`Width` in `ScaleOut`).
* Callbacks: no callback is set in the repository. A progress callback that calls back into the object
  would deadlock (`backup_job.cpp:113`, `dr_orchestrator.cpp:86` call it with a mutex held); this is not
  modelled, as the code called is the embedder's.
* Functions that only read (`get_metrics`, `list_sessions`, reports).
* What tools and servers do: a command succeeds or fails, a request arrives or is lost, rman writes what
  its script says. `ProductWrappers` classifies the jobs of agents by how the code treats the outcome.
* In `DataMover`, a failed read or open of the source that the worker takes for its end
  (`data_mover.cpp:107`–`:115`) and the checkpoint's write, which nobody checks (`:57`–`:60`): files are read
  and written in full.
* The handle of the VMware adapter keeps the pointer to a body that `api_post` has left
  (`vmware_adapter.cpp:111`); `HypervisorAdapters` keeps the verb that sticks with it, not what a request
  with that pointer would send.
* `RemoteReplication::send_chunk` always succeeds in the code: the lost connection it prepares for is not
  a step. That `do_replicate` searches `jobs_` without its mutex (`remote_replication.cpp:70`) while a
  start may insert is modelled by its plain outcomes (the entry is found or missed), not by what a torn
  tree could do besides.
* In `DataMover` the interval is not 0 (the default is 100 MB); the code would divide by zero.
* `OracleBackup` has no clock: a call chooses whether its second is that of an earlier one.
* `DirtyBufferManager` has a clock of seconds but no calendar: that a stored time compares as a garbled
  text is a choice.
* Bounds stop counters and lists: `MaxBlocks`, `MaxCrashes`, `MaxChanges`, `MaxTime`, `Rounds`, `Chunks`,
  `MaxClients`, `MaxChain`, `MaxDepth`, `MaxLength`, `MaxRows`, `MaxSeconds`, `MaxFile`, `MaxHeld`,
  `MaxLayers`, `MaxExtents`, `MaxTurns`, `MaxExtras`. Each is named in its module.

## 6. Plan

Done: `CdpEngine` and `BackupJob` (the latter a refinement of `JobLifecycle`) with proofs;
`DirtyBufferLogger`, `DataMover`, `DrOrchestrator`, `RemoteReplication`; `VirtualizationManager` with its
adapters; `CoreProcess`; `AgentJobs` with `ProductWrappers`; `IncrementalChain`, `DirtyBufferManager`,
`DedupEngine`, `VmReplication`, `ChangedBlocks`, `Engines`, `ScaleOut`, `VmVerification`, `AvScanner`,
`OracleBackup`, `BlockBitmaps`, `CrossPlatformRestore`.

Proved: every invariant and action property of the runs; of the seven with runs of their own also the
type invariants.

Left, in the order of what it would say:

1. The type invariants of the components in `MCServices` that no invariant of `ServicesProofs` and
   `StoreProofs` contains.
2. The safety part of `SignalEndsProcess` as an invariant of `CoreProcess` of its own: which flags and
   services the process can have at each place of its main thread.

## 7. What is not modelled

`PROJECT.json` lists every component with its status and reason. In short:

* **Change journal** (`incremental/common/bitmap_manager.cpp:248`): rows written and read under one lock. It
  compares times of whole seconds with `>`, so that a change of the second asked for is not in the answer.
* **Block reader** (`block_device/block_reader`): device I/O.
* **Engine factory**: its deduplication is `DedupEngine` again with one database and counters no mutex
  guards (`engine_factory.cpp:108`); its transport reports true though a stream failed; its pipeline logs
  the stages and applies none.
* **Named pipe server, command queue, command handler**: the first is for Windows and has the shape of the
  socket server; nothing in the repository enqueues into the second or constructs the third.
* **HA cluster**: elects nobody; its health loop sleeps with `nodes_mutex_` held (`ha_cluster.cpp:59`–`:70`),
  so that every query waits out the interval.
* **Immutability policies**: no deletion asks them, and `enable_worm_policy` keeps its entry when the file
  could not be made immutable.
* **Database, mail and system adapters** that no agent goes through (`mail`, `k8s`, `sap_ora`, `ndmp`,
  `os_backup`, the Russian products): a command line each, answered by its exit code or by nothing.
* **S3 client**: one request per call, answered by its status.
* **Malware scan, SureBackup, rescue, fast clone, tape, tiers, copies, traffic**: run tools one after the other, or keep lists under one mutex, without steps of two actors
  in between; the scan's cancel flag is set by nobody.
* **Storage snapshots, Active Directory**: command lines; `ActiveDirectoryAdapter::backup_dns` calls itself.
* **Backend**: endpoints that change state call `log_audit` (`backend/app/api/jobs.py:88`, `policies.py:38`,
  …), defined nowhere, so that they fail after their flush and the session rolls back; the tasks import
  names that do not exist (`JobStatus`, `CdpSessionStatus`), the beat schedule names a task that does not
  exist, nothing enqueues the executor, and `agent_control.start_backup` passes an argument the callee
  does not take. There is no running behaviour to check.
* **Frontend, packaging**: left aside.
