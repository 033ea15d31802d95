----------------------- MODULE RemoteReplicationProofs -----------------------
(***************************************************************************)
(* Proofs about RemoteReplication for every number of ids, JobStates and   *)
(* chunks.                                                                 *)
(***************************************************************************)
EXTENDS RemoteReplication, TLAPS

Stored == {"spawn", "return", "returned"}
Spawned == {"return", "returned"}

(* The map holds JobStates under their ids, once their start has stored    *)
(* them, and loses no id; only one start at a time changes its tree.       *)
MapShape ==
  /\ \A i \in Ids : jobs[i] # NoJob =>
       id[jobs[i]] = i /\ spc[jobs[i]] \in Stored
  /\ \A j \in Jobs :
       /\ spc[j] = "none" <=> id[j] = NoId
       /\ spc[j] \in Stored => Entry(j) # NoJob
       /\ spc[j] = "inserting" => Entry(j) = NoJob
  /\ \A j, k \in Jobs : spc[j] = "inserting" /\ spc[k] = "inserting" => j = k

(* A worker exists from spawn on and can be joined until it has been.      *)
WorkerShape ==
  \A j \in Jobs :
    /\ wpc[j] # "none" <=> spc[j] \in Spawned
    /\ Alive(j) => joinable[j]
    /\ joinable[j] => wpc[j] # "none"
    /\ wpc[j] \in {"gate", "send"} => transferred[j] < Chunks

(* Until the process is terminated somebody holds each thread's JobState.  *)
HoldShape == ~aborted => ~DestroysJoinable

(* The destructor runs alone, and has yet to join whoever is alive.        *)
DtorShape ==
  /\ joining # NoId => dtor = "run" /\ joining \in left
  /\ \A i \in left : jobs[i] # NoJob
  /\ dtor = "done" => left = {}
  /\ dtor # "no" =>
       /\ ~aborted
       /\ \A j \in Jobs :
            /\ spc[j] \in {"none", "returned"} /\ cpc[j] = "no"
            /\ Alive(j) => id[j] \in left

(* A chunk whose gate was passed is the one that a pause lets through.     *)
PauseShape ==
  \A j \in Jobs : paused[j] /\ ~Restarted(j) =>
    synced[j] <= atPause[j] + (IF wpc[j] = "send" THEN 0 ELSE 1)

(* A worker alone with its entry counts there what it has sent.            *)
CountShape == \A j \in Jobs : ~Restarted(j) => synced[j] = transferred[j]

(* Who takes the flag down that keeps a worker alone with its entry going. *)
Stopped(j) ==
  \/ wpc[j] \in {"end", "done"}
  \/ error[j] = "cancelled"
  \/ cpc[j] # "no"
  \/ dtor # "no"
FlagShape ==
  \A j \in Jobs : ~Restarted(j) =>
    /\ spc[j] # "none" /\ ~running[j] => Stopped(j)
    /\ wpc[j] = "finish" => transferred[j] = Chunks \/ Stopped(j)
    /\ status[j] = "COMPLETED" => wpc[j] \in {"end", "done"}

IInv ==
  /\ TypeOK
  /\ MapShape /\ WorkerShape /\ HoldShape /\ DtorShape
  /\ PauseShape /\ CountShape /\ FlagShape /\ CompletedIsEarned

-----------------------------------------------------------------------------
(* start() with the JobState it makes named.                               *)
Creates(i, j) ==
  /\ dtor = "no" /\ spc[j] = "none"
  /\ id' = [id EXCEPT ![j] = i]
  /\ status' = [status EXCEPT ![j] = "SYNCING"]
  /\ running' = [running EXCEPT ![j] = TRUE]
  /\ spc' = [spc EXCEPT ![j] = "insert"]
  /\ UNCHANGED <<jobs, paused, error, synced, joinable, workers, cpc,
                 destructor, aborted, atPause>>

LEMMA SomeJobIsMade ==
  ASSUME NEW i \in Ids, StartCreate(i)
  PROVE  \E j \in Jobs : Creates(i, j)
<1> DEFINE free == CHOOSE k \in Jobs : spc[k] = "none"
<1>1. free \in Jobs /\ spc[free] = "none"
  BY DEF StartCreate
<1>2. Creates(i, free)
  <2> HIDE DEF free
  <2>1. /\ dtor = "no"
        /\ id' = [id EXCEPT ![free] = i]
        /\ status' = [status EXCEPT ![free] = "SYNCING"]
        /\ running' = [running EXCEPT ![free] = TRUE]
        /\ spc' = [spc EXCEPT ![free] = "insert"]
        /\ UNCHANGED <<jobs, paused, error, synced, joinable, workers, cpc,
                       destructor, aborted, atPause>>
    BY DEF StartCreate, free
  <2> QED BY <1>1, <2>1 DEF Creates
<1> QED BY <1>1, <1>2

(* The map's entry for a stored JobState's id is a JobState of that id,    *)
(* and the JobState itself when it is the only one.                        *)
LEMMA EntryIsStored ==
  ASSUME TypeOK, MapShape, NEW j \in Jobs, spc[j] \in Stored
  PROVE  /\ id[j] \in Ids
         /\ Entry(j) \in Jobs /\ id[Entry(j)] = id[j]
         /\ ~Restarted(j) => Entry(j) = j
         /\ \A k \in Jobs : Entry(j) = k /\ ~Restarted(k) => j = k
<1>1. id[j] \in Ids
  BY DEF TypeOK, MapShape, Stored
<1>2. jobs[id[j]] \in Jobs /\ id[jobs[id[j]]] = id[j]
  BY <1>1 DEF TypeOK, MapShape, Entry
<1>3. id[j] # NoId
  BY <1>1, ReplicationAssumption
<1> QED BY <1>1, <1>2, <1>3 DEF Entry, Restarted

(* A worker that runs has a stored JobState.                               *)
LEMMA WorkerIsStored ==
  ASSUME WorkerShape, NEW j \in Jobs, wpc[j] # "none"
  PROVE  spc[j] \in Stored
BY DEF WorkerShape, Stored, Spawned

-----------------------------------------------------------------------------
(* The initial states satisfy the invariant.                               *)
LEMMA InitEstablishes == Init => IInv
<1> SUFFICES ASSUME Init PROVE IInv
  OBVIOUS
<1>1. TypeOK
  <2>1. aborted \in BOOLEAN
    BY Zenon DEF Init
  <2> QED
    BY <2>1, ReplicationAssumption
    DEF Init, TypeOK, WorkerStates, StartStates, CancelStates
<1>2. MapShape /\ WorkerShape /\ HoldShape /\ DtorShape
  BY ReplicationAssumption
  DEF Init, MapShape, WorkerShape, HoldShape, DtorShape, Stored, Spawned,
      Alive, DestroysJoinable
<1>3. PauseShape /\ CountShape /\ FlagShape /\ CompletedIsEarned
  BY DEF Init, PauseShape, CountShape, FlagShape, CompletedIsEarned
<1> QED BY <1>1, <1>2, <1>3 DEF IInv

-----------------------------------------------------------------------------
(* What the steps do to each part of the invariant.                        *)

(* The cases of a step: those of start(), the methods, a worker's and the  *)
(* destructor's.                                                           *)
LEMMA StepCases ==
  ASSUME Next
  PROVE  /\ ~aborted
         /\ \/ \E i \in Ids : \/ \E j \in Jobs : Creates(i, j)
                              \/ Pause(i) \/ Resume(i) \/ CancelFlag(i)
            \/ \E j \in Jobs :
                 \/ StartInsert(j) \/ StartInserted(j) \/ StartReplace(j)
                 \/ StartSpawn(j) \/ StartReturn(j)
                 \/ CancelStatus(j) \/ CancelError(j)
                 \/ WorkerLookup(j) \/ WorkerTest(j) \/ WorkerGate(j)
                 \/ WorkerSend(j) \/ WorkerFinish(j) \/ WorkerThrows(j)
                 \/ WorkerEnd(j)
            \/ DtorEnter \/ DtorStop \/ DtorJoin \/ DtorEnd
<1>1. CASE Call
  BY <1>1, SomeJobIsMade DEF Call
<1>2. CASE \E j \in Jobs : Worker(j)
  BY <1>2 DEF Worker
<1>3. CASE Destructor
  BY <1>3 DEF Destructor, DtorEnter, DtorStop, DtorJoin, DtorEnd
<1> QED BY <1>1, <1>2, <1>3 DEF Next

(* A step that is not one of start() leaves map, ids and starts alone.     *)
LEMMA StartsStay ==
  ASSUME Next
  PROVE  \/ \E i \in Ids, j \in Jobs : Creates(i, j)
         \/ \E j \in Jobs :
              \/ StartInsert(j) \/ StartInserted(j) \/ StartReplace(j)
              \/ StartSpawn(j) \/ StartReturn(j)
         \/ UNCHANGED <<jobs, id, spc>>
BY StepCases
DEF Pause, Resume, CancelFlag, CancelStatus, CancelError, Goes, WorkerLookup,
    WorkerTest, WorkerGate, WorkerSend, WorkerFinish, WorkerThrows, WorkerEnd,
    DtorEnter, DtorStop, DtorJoin, DtorEnd

LEMMA TypePreserved ==
  ASSUME TypeOK, MapShape, WorkerShape, Next
  PROVE  TypeOK'
<1> USE DEF TypeOK
<1>1. aborted' \in BOOLEAN
  <2>1. aborted' = DestroysJoinable' \/ aborted' = aborted
    BY StepCases
    DEF Creates, StartInsert, StartInserted, StartReplace, StartSpawn,
        StartReturn, Pause, Resume, CancelFlag, CancelStatus, CancelError,
        Goes, WorkerLookup, WorkerTest, WorkerGate, WorkerSend, WorkerFinish,
        WorkerThrows, WorkerEnd, DtorEnter, DtorStop, DtorJoin, DtorEnd
  <2>2. DestroysJoinable' \in BOOLEAN
    BY Zenon DEF DestroysJoinable
  <2> QED BY <2>1, <2>2, Zenon
<1>2. ASSUME NEW i \in Ids, NEW j \in Jobs, Creates(i, j) PROVE TypeOK'
  BY <1>1, <1>2 DEF Creates, workers, destructor, StartStates
<1>3. ASSUME NEW j \in Jobs,
             \/ StartInsert(j) \/ StartInserted(j) \/ StartReplace(j)
             \/ StartSpawn(j) \/ StartReturn(j)
      PROVE  TypeOK'
  BY ZenonT(30), <1>1, <1>3
  DEF StartInsert, StartInserted, StartReplace, StartSpawn, StartReturn,
      flags, progress, workers, destructor, StartStates, WorkerStates
<1>4. ASSUME NEW i \in Ids, Pause(i) \/ Resume(i) PROVE TypeOK'
  <2>1. jobs[i] \in Jobs
    BY <1>4 DEF Pause, Resume, Calls
  <2>2. synced[jobs[i]] \in Nat
    BY <2>1
  <2>3. atPause' \in [Jobs -> Nat]
    BY <1>4, <2>2 DEF Pause, Resume
  <2>4. paused' \in [Jobs -> BOOLEAN]
    BY <1>4 DEF Pause, Resume
  <2> QED
    BY <1>1, <1>4, <2>3, <2>4
    DEF Pause, Resume, progress, workers, destructor
<1>9. ASSUME NEW i \in Ids, CancelFlag(i) PROVE TypeOK'
  BY <1>1, <1>9 DEF CancelFlag, CancelStates, progress, workers, destructor
<1>10. ASSUME NEW j \in Jobs, CancelStatus(j) \/ CancelError(j) PROVE TypeOK'
  BY <1>1, <1>10
  DEF CancelStatus, CancelError, CancelStates, flags, workers, destructor
<1>5. ASSUME NEW j \in Jobs, WorkerLookup(j) \/ WorkerTest(j) \/ WorkerGate(j)
      PROVE  TypeOK'
  BY <1>1, <1>5
  DEF WorkerLookup, WorkerTest, WorkerGate, Goes, flags, progress, destructor,
      WorkerStates
<1>6. ASSUME NEW j \in Jobs, WorkerSend(j) PROVE TypeOK'
  <2>1. PICK old \in 0..synced[Entry(j)] :
          synced' = [synced EXCEPT ![Entry(j)] = old + 1]
    BY <1>6 DEF WorkerSend
  <2>2. synced' \in [Jobs -> Nat]
    <3>1. spc[j] \in Stored
      BY <1>6, WorkerIsStored DEF WorkerSend
    <3>2. Entry(j) \in Jobs
      BY <3>1, EntryIsStored, Zenon
    <3>3. old + 1 \in Nat
      BY <2>1, <3>2
    <3> QED BY <2>1, <3>3
  <2>3. transferred' \in [Jobs -> 0..Chunks]
    BY <1>6, ReplicationAssumption DEF WorkerSend, WorkerShape
  <2> QED
    BY <1>1, <1>6, <2>2, <2>3 DEF WorkerSend, flags, destructor, WorkerStates
<1>7. ASSUME NEW j \in Jobs,
             WorkerFinish(j) \/ WorkerThrows(j) \/ WorkerEnd(j)
      PROVE  TypeOK'
  BY <1>1, <1>7
  DEF WorkerFinish, WorkerThrows, WorkerEnd, flags, progress, destructor,
      WorkerStates
<1>8. ASSUME DtorEnter \/ DtorStop \/ DtorJoin \/ DtorEnd PROVE TypeOK'
  BY <1>1, <1>8
  DEF DtorEnter, DtorStop, DtorJoin, DtorEnd, flags, progress, workers
<1> QED
  BY StepCases, <1>2, <1>3, <1>4, <1>5, <1>6, <1>7, <1>8, <1>9, <1>10

LEMMA MapPreserved ==
  ASSUME TypeOK, MapShape, Next
  PROVE  MapShape'
<1>1. ASSUME NEW i \in Ids, NEW j \in Jobs, Creates(i, j) PROVE MapShape'
  BY <1>1, ReplicationAssumption DEF Creates, MapShape, Stored, Entry, TypeOK
<1>2. ASSUME NEW j \in Jobs, StartInsert(j) PROVE MapShape'
  BY <1>2 DEF StartInsert, MapShape, Stored, Entry, TypeOK, Inserting, Locked
<1>3. ASSUME NEW j \in Jobs, StartInserted(j) \/ StartReplace(j)
      PROVE  MapShape'
  <2>1. /\ spc[j] \in {"insert", "inserting"}
        /\ jobs' = [jobs EXCEPT ![id[j]] = j]
        /\ spc' = [spc EXCEPT ![j] = "spawn"]
        /\ id' = id
    BY <1>3 DEF StartInserted, StartReplace
  <2>2. j # NoJob /\ id[j] \in Ids
    BY <2>1, ReplicationAssumption DEF MapShape, TypeOK
  <2>3. \A i \in Ids : jobs'[i] # NoJob =>
          id'[jobs'[i]] = i /\ spc'[jobs'[i]] \in Stored
    BY <2>1, <2>2 DEF MapShape, TypeOK, Stored
  <2>4. \A k \in Jobs :
          /\ spc'[k] = "none" <=> id'[k] = NoId
          /\ spc'[k] \in Stored => Entry(k)' # NoJob
    BY <2>1, <2>2 DEF MapShape, TypeOK, Stored, Entry
  <2>5. \A k \in Jobs : spc'[k] = "inserting" => Entry(k)' = NoJob
    BY <1>3, <2>1, <2>2
    DEF StartInserted, StartReplace, Inserting, Locked, MapShape, TypeOK, Entry
  <2>6. \A k, l \in Jobs :
          spc'[k] = "inserting" /\ spc'[l] = "inserting" => k = l
    BY <2>1 DEF MapShape, TypeOK
  <2> QED BY <2>3, <2>4, <2>5, <2>6 DEF MapShape
<1>4. ASSUME NEW j \in Jobs, StartSpawn(j) \/ StartReturn(j) PROVE MapShape'
  BY <1>4
  DEF StartSpawn, StartReturn, MapShape, Stored, Entry, TypeOK
<1>5. CASE UNCHANGED <<jobs, id, spc>>
  BY <1>5 DEF MapShape, Entry
<1> QED BY StartsStay, <1>1, <1>2, <1>3, <1>4, <1>5

LEMMA WorkerPreserved ==
  ASSUME TypeOK, MapShape, WorkerShape, Next
  PROVE  WorkerShape'
<1> USE DEF Alive, Spawned
<1>1. CASE UNCHANGED <<spc, wpc, joinable, transferred>>
  BY <1>1 DEF WorkerShape
<1>2. ASSUME NEW j \in Jobs, NEW i \in Ids, Creates(i, j) PROVE WorkerShape'
  BY <1>2 DEF Creates, WorkerShape, TypeOK, workers
<1>3. ASSUME NEW j \in Jobs,
             \/ StartInsert(j) \/ StartInserted(j) \/ StartReplace(j)
             \/ StartSpawn(j) \/ StartReturn(j)
      PROVE  WorkerShape'
  BY <1>3
  DEF StartInsert, StartInserted, StartReplace, StartSpawn, StartReturn,
      WorkerShape, TypeOK, workers
<1>4. ASSUME NEW j \in Jobs, WorkerTest(j) PROVE WorkerShape'
  BY <1>4 DEF WorkerTest, Goes, WorkerShape, TypeOK
<1>5. ASSUME NEW j \in Jobs,
             \/ WorkerLookup(j) \/ WorkerGate(j) \/ WorkerSend(j)
             \/ WorkerFinish(j) \/ WorkerThrows(j) \/ WorkerEnd(j)
      PROVE  WorkerShape'
  <2>1. /\ wpc[j] # "none" /\ Alive(j)
        /\ \E next \in WorkerStates \ {"none"} :
             /\ wpc' = [wpc EXCEPT ![j] = next]
             /\ next \in {"gate", "send"} => wpc[j] = "gate"
        /\ \A k \in Jobs : transferred'[k] = transferred[k] \/ wpc'[k] = "test"
        /\ spc' = spc /\ joinable' = joinable
    BY <1>5
    DEF WorkerLookup, WorkerGate, WorkerSend, WorkerFinish, WorkerThrows,
        WorkerEnd, Goes, TypeOK, WorkerStates
  <2> QED BY <2>1 DEF WorkerShape, TypeOK
<1>6. ASSUME DtorJoin PROVE WorkerShape'
  BY <1>6 DEF DtorJoin, WorkerShape, TypeOK, workers
<1> QED
  BY StepCases, <1>1, <1>2, <1>3, <1>4, <1>5, <1>6
  DEF Pause, Resume, CancelFlag, CancelStatus, CancelError, DtorEnter,
      DtorStop, DtorEnd, workers

LEMMA HoldPreserved ==
  ASSUME TypeOK, MapShape, HoldShape, Next
  PROVE  HoldShape'
<1> USE DEF HoldShape, DestroysJoinable, Held
<1>1. ~DestroysJoinable
  BY StepCases
<1>2. CASE UNCHANGED <<jobs, spc, joinable>>
  BY <1>1, <1>2
<1>3. ASSUME NEW j \in Jobs, NEW i \in Ids, Creates(i, j) PROVE HoldShape'
  BY <1>1, <1>3 DEF Creates, TypeOK
<1>4. ASSUME NEW j \in Jobs, StartInsert(j) \/ StartSpawn(j) PROVE HoldShape'
  BY <1>1, <1>4 DEF StartInsert, StartSpawn, TypeOK
<1>5. ASSUME NEW j \in Jobs, StartInserted(j) PROVE HoldShape'
  <2>1. jobs[id[j]] = NoJob /\ NoJob \notin Jobs
    BY <1>5, ReplicationAssumption DEF StartInserted, MapShape, Entry
  <2> QED BY <1>1, <1>5, <2>1 DEF StartInserted, TypeOK
<1>6. ASSUME NEW j \in Jobs, StartReplace(j) \/ StartReturn(j) PROVE HoldShape'
  BY <1>6 DEF StartReplace, StartReturn
<1>7. ASSUME DtorJoin PROVE HoldShape'
  BY <1>1, <1>7 DEF DtorJoin, TypeOK
<1> QED
  BY StepCases, <1>2, <1>3, <1>4, <1>5, <1>6, <1>7
  DEF Pause, Resume, CancelFlag, CancelStatus, CancelError, DtorEnter,
      DtorStop, DtorEnd, Goes, WorkerLookup, WorkerTest, WorkerGate,
      WorkerSend, WorkerFinish, WorkerThrows, WorkerEnd

LEMMA DtorPreserved ==
  ASSUME TypeOK, MapShape, WorkerShape, HoldShape, DtorShape, Next
  PROVE  DtorShape'
<1> USE DEF Alive
<1>1. \A j \in Jobs : Alive(j) /\ spc[j] = "returned" =>
        id[j] \in Ids /\ jobs[id[j]] = j
  BY StepCases, ReplicationAssumption
  DEF HoldShape, DestroysJoinable, Held, WorkerShape, MapShape, TypeOK
<1>2. \A i \in Ids : jobs[i] # NoJob => jobs'[i] # NoJob
  BY StartsStay, ReplicationAssumption
  DEF Creates, StartInsert, StartInserted, StartReplace, StartSpawn,
      StartReturn, TypeOK
<1>3. CASE dtor = "no" /\ UNCHANGED <<dtor, left, joining>>
  <2>1. \A i \in left : jobs'[i] # NoJob
    BY <1>2 DEF DtorShape, TypeOK
  <2> QED BY <1>3, <2>1 DEF DtorShape
<1>4. ASSUME DtorEnter PROVE DtorShape'
  <2>1. dtor' = "run" /\ ~aborted' /\ joining' = joining
    BY <1>4, Zenon DEF DtorEnter
  <2>2. \A i \in left' : jobs'[i] # NoJob
    BY <1>4 DEF DtorEnter
  <2>3. \A j \in Jobs :
          /\ spc'[j] \in {"none", "returned"} /\ cpc'[j] = "no"
          /\ Alive(j)' => id'[j] \in left'
    <3>1. UNCHANGED <<wpc, spc, cpc, id, jobs>>
      BY <1>4 DEF DtorEnter, workers
    <3>2. \A j \in Jobs :
            spc[j] \in {"none", "returned"} /\ cpc[j] = "no" /\ j # NoJob
      BY <1>4, ReplicationAssumption DEF DtorEnter
    <3>3. \A j \in Jobs : Alive(j) => spc[j] = "returned"
      BY <3>2 DEF WorkerShape, Spawned
    <3> QED
      BY <1>1, <1>4, <3>1, <3>2, <3>3 DEF DtorEnter
  <2>4. joining' = NoId
    BY <1>4, <2>1 DEF DtorEnter, DtorShape
  <2> QED BY <2>1, <2>2, <2>3, <2>4 DEF DtorShape
<1>5. ASSUME DtorStop \/ DtorEnd PROVE DtorShape'
  BY <1>5 DEF DtorStop, DtorEnd, DtorShape, TypeOK, workers
<1>6. ASSUME DtorJoin PROVE DtorShape'
  <2>1. dtor = "run" /\ joining \in left
    BY <1>6 DEF DtorJoin, DtorShape
  <2>2. \A j \in Jobs : Alive(j) => id[j] # joining
    BY <1>1, <1>6, <2>1 DEF DtorJoin, DtorShape, WorkerShape, Spawned
  <2> QED
    BY <1>6, <2>1, <2>2 DEF DtorJoin, DtorShape, TypeOK, workers
<1>7. ASSUME NEW j \in Jobs,
             \/ WorkerLookup(j) \/ WorkerTest(j) \/ WorkerGate(j)
             \/ WorkerSend(j) \/ WorkerFinish(j) \/ WorkerThrows(j)
             \/ WorkerEnd(j)
      PROVE  DtorShape'
  <2>1. \A k \in Jobs : Alive(k)' => Alive(k)
    BY <1>7
    DEF WorkerLookup, WorkerTest, WorkerGate, WorkerSend, WorkerFinish,
        WorkerThrows, WorkerEnd, Goes, TypeOK
  <2>2. UNCHANGED <<jobs, id, spc, cpc, dtor, left, joining, aborted>>
    BY <1>7
    DEF WorkerLookup, WorkerTest, WorkerGate, WorkerSend, WorkerFinish,
        WorkerThrows, WorkerEnd, Goes, destructor
  <2> QED BY <2>1, <2>2 DEF DtorShape
<1>8. ASSUME NEW j \in Jobs,
             \/ StartInsert(j) \/ StartInserted(j) \/ StartReplace(j)
             \/ StartSpawn(j) \/ StartReturn(j)
      PROVE  DtorShape'
  <2>1. dtor = "no"
    BY <1>8
    DEF StartInsert, StartInserted, StartReplace, StartSpawn, StartReturn,
        DtorShape
  <2> QED
    BY <1>3, <1>8, <2>1
    DEF StartInsert, StartInserted, StartReplace, StartSpawn, StartReturn,
        destructor
<1>9. ASSUME NEW j \in Jobs, CancelStatus(j) \/ CancelError(j)
      PROVE  DtorShape'
  <2>1. dtor = "no"
    BY <1>9 DEF CancelStatus, CancelError, DtorShape
  <2> QED BY <1>3, <1>9, <2>1 DEF CancelStatus, CancelError, destructor
<1> QED
  BY StepCases, <1>3, <1>4, <1>5, <1>6, <1>7, <1>8, <1>9
  DEF Creates, Pause, Resume, CancelFlag, Calls, destructor

(* An id in use stays in use.                                              *)
LEMMA RestartedStays ==
  ASSUME TypeOK, MapShape, Next
  PROVE  /\ \A j \in Jobs : Restarted(j) => Restarted(j)'
         /\ \A j \in Jobs : id[j] # NoId => id'[j] = id[j]
<1>1. \A j \in Jobs : id[j] # NoId => id'[j] = id[j]
  BY StartsStay
  DEF Creates, StartInsert, StartInserted, StartReplace, StartSpawn,
      StartReturn, TypeOK, MapShape
<1> QED BY <1>1 DEF Restarted

(* A step of a worker alone with its entry sees and changes its own        *)
(* JobState, and no other such JobState.                                   *)
LEMMA WorkerIsAlone ==
  ASSUME TypeOK, MapShape, WorkerShape, Next, NEW j \in Jobs, ~Restarted(j)'
  PROVE  /\ ~Restarted(j)
         /\ wpc[j] # "none" => Entry(j) = j
         /\ \A k \in Jobs : wpc[k] # "none" /\ Entry(k) = j => k = j
<1>1. ~Restarted(j)
  BY RestartedStays
<1>2. \A k \in Jobs : wpc[k] # "none" => spc[k] \in Stored
  BY WorkerIsStored
<1> QED BY <1>1, <1>2, EntryIsStored

(* A chunk of a worker alone with its entry is counted once.               *)
LEMMA SendCounts ==
  ASSUME TypeOK, MapShape, WorkerShape, Next, NEW j \in Jobs, ~Restarted(j)',
         NEW k \in Jobs, WorkerSend(k)
  PROVE  /\ k = j => /\ synced'[j] = synced[j] + 1
                     /\ transferred'[j] = transferred[j] + 1
         /\ k # j => synced'[j] = synced[j] /\ transferred'[j] = transferred[j]
<1>1. /\ ~Restarted(j) /\ (k # j => Entry(k) # j)
      /\ (k = j => Entry(j) = j)
  BY WorkerIsAlone DEF WorkerSend
<1>2. spc[k] \in Stored
  BY WorkerIsStored DEF WorkerSend
<1>3. id[k] \in Ids
  BY <1>2, EntryIsStored, Zenon
<1>4. k = j => ~\E l \in Jobs \ {k} : Alive(l) /\ id[l] = id[k]
  BY <1>1, <1>3, ReplicationAssumption DEF Restarted
<1>5. /\ k # j => synced'[j] = synced[j]
      /\ k = j => synced' = [synced EXCEPT ![j] = synced[j] + 1]
  BY <1>1, <1>4 DEF WorkerSend, TypeOK
<1> QED BY <1>5 DEF WorkerSend, TypeOK

LEMMA CountPreserved ==
  ASSUME TypeOK, MapShape, WorkerShape, CountShape, Next
  PROVE  CountShape'
<1> SUFFICES ASSUME NEW j \in Jobs, ~Restarted(j)'
             PROVE  synced'[j] = transferred'[j]
  BY DEF CountShape
<1>1. synced[j] = transferred[j]
  BY WorkerIsAlone DEF CountShape
<1>2. ASSUME NEW k \in Jobs, WorkerSend(k)
      PROVE  synced'[j] = transferred'[j]
  BY <1>1, <1>2, SendCounts DEF TypeOK
<1>3. CASE UNCHANGED <<synced, transferred>>
  BY <1>1, <1>3
<1> QED
  BY StepCases, <1>2, <1>3
  DEF Creates, StartInsert, StartInserted, StartReplace, StartSpawn,
      StartReturn, Pause, Resume, CancelFlag, CancelStatus, CancelError, Goes,
      WorkerLookup, WorkerTest, WorkerGate, WorkerFinish, WorkerThrows,
      WorkerEnd, DtorEnter, DtorStop, DtorJoin, DtorEnd, progress, workers

LEMMA PausePreserved ==
  ASSUME TypeOK, MapShape, WorkerShape, PauseShape, Next
  PROVE  PauseShape'
<1> DEFINE Bound(j) ==
      paused[j] => synced[j] <= atPause[j] + (IF wpc[j] = "send" THEN 0 ELSE 1)
<1> SUFFICES ASSUME NEW j \in Jobs, ~Restarted(j)'
             PROVE  Bound(j)'
  BY DEF PauseShape
<1>1. /\ Bound(j) /\ (wpc[j] # "none" => Entry(j) = j)
      /\ synced[j] \in Nat /\ atPause[j] \in Nat
  BY WorkerIsAlone DEF PauseShape, TypeOK
<1>2. CASE UNCHANGED <<paused, synced, atPause>>
           /\ (wpc'[j] # wpc[j] => wpc'[j] # "send")
  BY <1>1, <1>2
<1>3. ASSUME NEW k \in Jobs, WorkerSend(k) PROVE Bound(j)'
  <2>1. UNCHANGED <<paused, atPause>> /\ wpc' = [wpc EXCEPT ![k] = "test"]
        /\ wpc[k] = "send"
    BY <1>3 DEF WorkerSend, flags
  <2>2. CASE k = j
    <3>1. synced'[j] = synced[j] + 1 /\ wpc'[j] # "send"
      BY <1>3, <2>1, <2>2, SendCounts DEF TypeOK
    <3> QED BY <1>1, <2>1, <2>2, <3>1
  <2>3. CASE k # j
    <3>1. synced'[j] = synced[j] /\ wpc'[j] = wpc[j]
      BY <1>3, <2>1, <2>3, SendCounts DEF TypeOK
    <3> QED BY <1>1, <2>1, <3>1
  <2> QED BY <2>2, <2>3
<1>4. ASSUME NEW k \in Jobs, WorkerGate(k) PROVE Bound(j)'
  <2>1. UNCHANGED <<paused, synced, atPause>>
    BY <1>4 DEF WorkerGate, Goes, flags, progress
  <2>2. wpc'[j] # wpc[j] => k = j
    BY <1>4 DEF WorkerGate, Goes, TypeOK
  <2>3. k = j /\ paused[j] => wpc'[j] = "test"
    BY <1>1, <1>4 DEF WorkerGate, Goes, TypeOK
  <2> QED BY <1>1, <2>1, <2>2, <2>3
<1>5. ASSUME NEW i \in Ids, Pause(i) PROVE Bound(j)'
  <2>1. UNCHANGED <<synced, wpc>> /\ jobs[i] \in Jobs
    BY <1>5 DEF Pause, Calls, progress, workers, TypeOK
  <2>2. CASE jobs[i] = j /\ ~paused[j]
    BY <1>1, <1>5, <2>1, <2>2 DEF Pause, TypeOK
  <2>3. CASE jobs[i] # j \/ paused[j]
    <3>1. atPause'[j] = atPause[j] /\ (paused'[j] => paused[j])
      BY <1>5, <2>1, <2>3 DEF Pause, TypeOK
    <3> QED BY <1>1, <2>1, <3>1
  <2> QED BY <2>2, <2>3
<1>6. ASSUME NEW i \in Ids, Resume(i) PROVE Bound(j)'
  <2>1. UNCHANGED <<synced, wpc>>
    BY <1>6 DEF Resume, progress, workers
  <2>2. jobs[i] # j => atPause'[j] = atPause[j] /\ (paused'[j] => paused[j])
    BY <1>6 DEF Resume, TypeOK
  <2>3. jobs[i] = j => ~paused'[j]
    BY <1>6 DEF Resume, TypeOK
  <2> QED BY <1>1, <2>1, <2>2, <2>3
<1>7. ASSUME NEW k \in Jobs,
             \/ StartSpawn(k) \/ WorkerLookup(k) \/ WorkerTest(k)
             \/ WorkerFinish(k) \/ WorkerThrows(k) \/ WorkerEnd(k)
      PROVE  Bound(j)'
  <2>1. UNCHANGED <<paused, synced, atPause>>
    BY <1>7
    DEF StartSpawn, WorkerLookup, WorkerTest, WorkerFinish, WorkerThrows,
        WorkerEnd, Goes, flags, progress
  <2>2. wpc'[j] # wpc[j] => wpc'[j] # "send"
    BY <1>7
    DEF StartSpawn, WorkerLookup, WorkerTest, WorkerFinish, WorkerThrows,
        WorkerEnd, Goes, TypeOK
  <2> QED BY <1>2, <2>1, <2>2
<1>8. CASE UNCHANGED <<paused, synced, atPause, wpc>>
  BY <1>2, <1>8
<1> HIDE DEF Bound
<1> QED
  BY StepCases, <1>3, <1>4, <1>5, <1>6, <1>7, <1>8
  DEF Creates, StartInsert, StartInserted, StartReplace, StartReturn,
      CancelFlag, CancelStatus, CancelError, DtorEnter, DtorStop, DtorJoin,
      DtorEnd, flags, progress, workers

LEMMA FlagPreserved ==
  ASSUME TypeOK, MapShape, WorkerShape, FlagShape, Next
  PROVE  FlagShape'
<1> DEFINE Flags(j) ==
      /\ spc[j] # "none" /\ ~running[j] => Stopped(j)
      /\ wpc[j] = "finish" => transferred[j] = Chunks \/ Stopped(j)
      /\ status[j] = "COMPLETED" => wpc[j] \in {"end", "done"}
<1> SUFFICES ASSUME NEW j \in Jobs, ~Restarted(j)'
             PROVE  Flags(j)'
  BY DEF FlagShape
<1>1. Flags(j)
  BY WorkerIsAlone DEF FlagShape
<1>2. /\ wpc[j] # "none" => Entry(j) = j /\ spc[j] # "none"
      /\ \A k \in Jobs : wpc[k] # "none" /\ Entry(k) = j => k = j
  BY WorkerIsAlone DEF WorkerShape, Spawned
<1> USE DEF Stopped
<1>3. ASSUME NEW i \in Ids, NEW k \in Jobs, Creates(i, k) PROVE Flags(j)'
  <2>1. wpc[k] = "none" /\ UNCHANGED <<error, wpc, transferred, dtor, cpc>>
    BY <1>3 DEF Creates, WorkerShape, Spawned, workers, destructor
  <2>2. CASE k = j
    BY <1>3, <2>1, <2>2 DEF Creates, TypeOK
  <2>3. CASE k # j
    <3>1. /\ status'[j] = status[j] /\ running'[j] = running[j]
          /\ spc'[j] = spc[j]
      BY <1>3, <2>3 DEF Creates, TypeOK
    <3> QED BY <1>1, <2>1, <3>1
  <2> QED BY <2>2, <2>3
<1>4. ASSUME NEW k \in Jobs,
             \/ StartInsert(k) \/ StartInserted(k) \/ StartReplace(k)
             \/ StartSpawn(k) \/ StartReturn(k)
      PROVE  Flags(j)'
  <2>1. UNCHANGED <<running, status, error, transferred, dtor, cpc>>
    BY <1>4
    DEF StartInsert, StartInserted, StartReplace, StartSpawn, StartReturn,
        flags, progress, workers, destructor
  <2>2. spc'[j] # "none" => spc[j] # "none"
    BY <1>4
    DEF StartInsert, StartInserted, StartReplace, StartSpawn, StartReturn,
        TypeOK
  <2>3. wpc'[j] # wpc[j] => wpc[j] = "none" /\ wpc'[j] = "lookup"
    BY <1>4
    DEF StartInsert, StartInserted, StartReplace, StartSpawn, StartReturn,
        TypeOK, workers, WorkerShape, Spawned
  <2> QED BY <1>1, <2>1, <2>2, <2>3
<1>5. ASSUME NEW i \in Ids, CancelFlag(i) PROVE Flags(j)'
  <2>1. UNCHANGED <<spc, wpc, transferred, status, error, dtor>>
    BY <1>5 DEF CancelFlag, progress, workers, destructor
  <2>2. CASE jobs[i] = j
    BY <1>1, <1>5, <2>1, <2>2 DEF CancelFlag, TypeOK
  <2>3. CASE jobs[i] # j
    <3>1. running'[j] = running[j] /\ cpc'[j] = cpc[j]
      BY <1>5, <2>3 DEF CancelFlag, TypeOK
    <3> QED BY <1>1, <2>1, <3>1
  <2> QED BY <2>2, <2>3
<1>11. ASSUME NEW k \in Jobs, CancelStatus(k) \/ CancelError(k)
       PROVE  Flags(j)'
  <2>1. UNCHANGED <<spc, wpc, running, transferred, dtor>>
    BY <1>11 DEF CancelStatus, CancelError, flags, workers, destructor
  <2>2. status'[j] \in {status[j], "FAILED"}
    BY <1>11 DEF CancelStatus, CancelError, TypeOK
  <2>3. \/ cpc'[j] = cpc[j] /\ error'[j] = error[j]
        \/ cpc'[j] # "no" /\ error'[j] = error[j]
        \/ error'[j] = "cancelled"
    BY <1>11 DEF CancelStatus, CancelError, TypeOK
  <2> QED BY <1>1, <2>1, <2>2, <2>3
<1>6. ASSUME NEW k \in Jobs, WorkerLookup(k) \/ WorkerTest(k) \/ WorkerGate(k)
      PROVE  Flags(j)'
  <2>1. UNCHANGED <<spc, running, status, error, transferred, dtor, cpc>>
    BY <1>6
    DEF WorkerLookup, WorkerTest, WorkerGate, Goes, flags, progress,
        destructor
  <2>2. wpc'[j] # wpc[j] => k = j /\ wpc[j] \notin {"end", "done", "none"}
    BY <1>6 DEF WorkerLookup, WorkerTest, WorkerGate, Goes, TypeOK
  <2>3. wpc'[j] = "finish" /\ wpc[j] # "finish" =>
          ~(transferred[j] < Chunks) \/ ~running[j]
    BY <1>2, <1>6, <2>2 DEF WorkerLookup, WorkerTest, WorkerGate, Goes, TypeOK
  <2>4. transferred[j] \in 0..Chunks
    BY DEF TypeOK
  <2>5. ~(transferred[j] < Chunks) => transferred[j] = Chunks
    BY <2>4, ReplicationAssumption
  <2> QED BY <1>1, <1>2, <2>1, <2>2, <2>3, <2>5
<1>7. ASSUME NEW k \in Jobs, WorkerSend(k) PROVE Flags(j)'
  <2>1. UNCHANGED <<spc, running, status, error, dtor, cpc>>
    BY <1>7 DEF WorkerSend, flags, destructor
  <2>2. k = j => wpc[j] = "send" /\ wpc'[j] = "test"
    BY <1>7 DEF WorkerSend, TypeOK
  <2>3. k # j => wpc'[j] = wpc[j] /\ transferred'[j] = transferred[j]
    BY <1>7 DEF WorkerSend, TypeOK
  <2> QED BY <1>1, <2>1, <2>2, <2>3
<1>8. ASSUME NEW k \in Jobs, WorkerFinish(k) \/ WorkerThrows(k) \/ WorkerEnd(k)
      PROVE  Flags(j)'
  <2>1. UNCHANGED <<spc, transferred, dtor, cpc>> /\ wpc[k] # "none"
    BY <1>8 DEF WorkerFinish, WorkerThrows, WorkerEnd, destructor
  <2>2. k = j => wpc'[j] \in {"end", "done"}
    BY <1>8 DEF WorkerFinish, WorkerThrows, WorkerEnd, TypeOK
  <2>3. k # j => /\ running'[j] = running[j] /\ status'[j] = status[j]
                 /\ error'[j] = error[j] /\ wpc'[j] = wpc[j]
    BY <1>2, <1>8, <2>1
    DEF WorkerFinish, WorkerThrows, WorkerEnd, TypeOK, flags, progress
  <2> QED BY <1>1, <2>1, <2>2, <2>3
<1>9. ASSUME DtorEnter \/ DtorStop \/ DtorJoin \/ DtorEnd PROVE Flags(j)'
  <2>1. UNCHANGED <<spc, wpc, transferred, status, error, cpc>>
    BY <1>9 DEF DtorEnter, DtorStop, DtorJoin, DtorEnd, progress, workers
  <2>2. (running' = running /\ (dtor # "no" => dtor' # "no")) \/ dtor' = "run"
    BY <1>9 DEF DtorEnter, DtorStop, DtorJoin, DtorEnd, flags
  <2> QED BY <1>1, <2>1, <2>2
<1>10. CASE UNCHANGED <<spc, running, status, error, wpc, transferred, dtor,
                        cpc>>
  BY <1>1, <1>10
<1> HIDE DEF Flags
<1> QED
  BY StepCases, <1>3, <1>4, <1>5, <1>6, <1>7, <1>8, <1>9, <1>10, <1>11
  DEF Pause, Resume, progress, workers, destructor

LEMMA CompletedPreserved ==
  ASSUME TypeOK, MapShape, WorkerShape, CountShape, FlagShape,
         CompletedIsEarned, Next
  PROVE  CompletedIsEarned'
<1> DEFINE Earned(j) ==
      status[j] = "COMPLETED" =>
        \/ synced[j] = Chunks \/ error[j] = "cancelled"
        \/ cpc[j] # "no" \/ dtor # "no"
<1> SUFFICES ASSUME NEW j \in Jobs, ~Restarted(j)'
             PROVE  Earned(j)'
  BY DEF CompletedIsEarned
<1>1. Earned(j) /\ synced[j] = transferred[j]
  BY WorkerIsAlone DEF CompletedIsEarned, CountShape
<1>2. \A k \in Jobs : wpc[k] # "none" /\ Entry(k) = j => k = j
  BY WorkerIsAlone
<1>3. /\ status[j] = "COMPLETED" => wpc[j] \in {"end", "done"}
      /\ wpc[j] = "finish" => transferred[j] = Chunks \/ Stopped(j)
  BY WorkerIsAlone DEF FlagShape
<1>4. ASSUME NEW i \in Ids, NEW k \in Jobs, Creates(i, k) PROVE Earned(j)'
  <2>1. UNCHANGED <<synced, error, dtor, cpc>>
        /\ (status'[j] = status[j] \/ status'[j] = "SYNCING")
    BY <1>4 DEF Creates, TypeOK, destructor
  <2> QED BY <1>1, <2>1
<1>5. ASSUME NEW i \in Ids, CancelFlag(i) PROVE Earned(j)'
  <2>1. UNCHANGED <<synced, status, error, dtor>>
    BY <1>5 DEF CancelFlag, progress, destructor
  <2>2. cpc'[j] = cpc[j] \/ cpc'[j] = "status"
    BY <1>5 DEF CancelFlag, TypeOK
  <2> QED BY <1>1, <2>1, <2>2
<1>10. ASSUME NEW k \in Jobs, CancelStatus(k) \/ CancelError(k)
       PROVE  Earned(j)'
  <2>1. UNCHANGED <<synced, dtor>> /\ status'[j] \in {status[j], "FAILED"}
    BY <1>10 DEF CancelStatus, CancelError, TypeOK, destructor
  <2>2. \/ cpc'[j] = cpc[j] /\ error'[j] = error[j]
        \/ cpc'[j] # "no"
        \/ error'[j] = "cancelled"
    BY <1>10 DEF CancelStatus, CancelError, TypeOK
  <2> QED BY <1>1, <2>1, <2>2
<1>6. ASSUME NEW k \in Jobs, WorkerSend(k) PROVE Earned(j)'
  <2>1. UNCHANGED <<status, error, dtor, cpc>> /\ wpc[k] = "send"
    BY <1>6 DEF WorkerSend, destructor
  <2>2. k # j => synced'[j] = synced[j]
    BY <1>6, SendCounts
  <2> QED BY <1>1, <1>3, <2>1, <2>2
<1>7. ASSUME NEW k \in Jobs, WorkerFinish(k) PROVE Earned(j)'
  <2>1. UNCHANGED <<synced, error, dtor, cpc>> /\ wpc[k] = "finish"
    BY <1>7 DEF WorkerFinish, destructor
  <2>2. k # j => status'[j] = status[j]
    BY <1>2, <1>7 DEF WorkerFinish, TypeOK
  <2> QED BY <1>1, <1>3, <2>1, <2>2 DEF Stopped
<1>8. ASSUME NEW k \in Jobs, WorkerThrows(k) PROVE Earned(j)'
  <2>1. UNCHANGED <<synced, dtor, cpc>>
        /\ (status'[j] = "FAILED"
             \/ (status'[j] = status[j] /\ error'[j] = error[j]))
    BY <1>8 DEF WorkerThrows, TypeOK, destructor
  <2> QED BY <1>1, <2>1
<1>9. CASE /\ UNCHANGED <<status, error, synced, cpc>>
           /\ dtor # "no" => dtor' # "no"
  BY <1>1, <1>9
<1> HIDE DEF Earned
<1> QED
  BY StepCases, <1>4, <1>5, <1>6, <1>7, <1>8, <1>9, <1>10
  DEF StartInsert, StartInserted, StartReplace, StartSpawn, StartReturn,
      Pause, Resume, WorkerLookup, WorkerTest, WorkerGate, WorkerEnd, Goes,
      DtorEnter, DtorStop, DtorJoin, DtorEnd, progress, destructor

-----------------------------------------------------------------------------
LEMMA StepPreserves == IInv /\ [Next]_vars => IInv'
<1> SUFFICES ASSUME IInv, [Next]_vars PROVE IInv'
  OBVIOUS
<1>1. CASE Next
  BY <1>1, TypePreserved, MapPreserved, WorkerPreserved, HoldPreserved,
     DtorPreserved, CountPreserved, PausePreserved, FlagPreserved,
     CompletedPreserved
  DEF IInv
<1>2. CASE UNCHANGED vars
  <2>1. MapShape' /\ WorkerShape' /\ DtorShape'
    BY <1>2
    DEF IInv, vars, workers, destructor, MapShape, WorkerShape, DtorShape,
        Entry, Alive
  <2>2. HoldShape'
    BY <1>2 DEF IInv, vars, HoldShape, DestroysJoinable, Held
  <2>3. PauseShape' /\ CountShape' /\ FlagShape' /\ CompletedIsEarned'
    BY <1>2
    DEF IInv, vars, flags, progress, workers, destructor, PauseShape,
        CountShape, FlagShape, CompletedIsEarned, Restarted, Stopped
  <2>4. TypeOK'
    <3>1. aborted' \in BOOLEAN
      BY <1>2, Zenon DEF vars, IInv, TypeOK
    <3> QED
      BY <1>2, <3>1
      DEF IInv, vars, flags, progress, workers, destructor, TypeOK
  <2> QED BY <2>1, <2>2, <2>3, <2>4 DEF IInv
<1> QED BY <1>1, <1>2

THEOREM Invariance == Spec => []IInv
BY InitEstablishes, StepPreserves, PTL DEF Spec

(* Every variable of the replication keeps its type.                       *)
THEOREM TypeCorrect == Spec => []TypeOK
<1>1. IInv => TypeOK
  BY DEF IInv
<1> QED BY <1>1, Invariance, PTL

(* After pause() at most the chunk whose gate was passed is still sent,    *)
(* for a job whose id was started once: the worker looks at the flag       *)
(* before each chunk.                                                      *)
THEOREM PauseLetsOneThroughHolds == Spec => []PauseLetsOneThrough
<1>1. IInv => PauseLetsOneThrough
  <2> SUFFICES ASSUME IInv, NEW j \in Jobs, paused[j], ~Restarted(j)
               PROVE  synced[j] <= atPause[j] + 1
    BY DEF PauseLetsOneThrough
  <2>1. synced[j] <= atPause[j] + (IF wpc[j] = "send" THEN 0 ELSE 1)
    BY DEF IInv, PauseShape
  <2>2. synced[j] \in Nat /\ atPause[j] \in Nat
    BY DEF IInv, TypeOK
  <2> QED BY <2>1, <2>2
<1> QED BY <1>1, Invariance, PTL

(* A job reported COMPLETED sent every chunk, was cancelled or is being    *)
(* cancelled, or belongs to an object that is being destroyed.             *)
THEOREM CompletedIsEarnedHolds == Spec => []CompletedIsEarned
<1>1. IInv => CompletedIsEarned
  BY DEF IInv
<1> QED BY <1>1, Invariance, PTL

(* The destructor has joined every worker when it returns, those of        *)
(* JobStates that a second start took out of the map included: the thread  *)
(* object of such a worker would have terminated the process.              *)
THEOREM NoWorkerOutlivesHolds == Spec => []NoWorkerOutlives
<1>1. IInv => NoWorkerOutlives
  BY DEF IInv, DtorShape, NoWorkerOutlives
<1> QED BY <1>1, Invariance, PTL
=============================================================================
