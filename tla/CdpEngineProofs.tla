--------------------------- MODULE CdpEngineProofs ---------------------------
(***************************************************************************)
(* Proofs about CdpEngine for every set of callers, ids and objects, every *)
(* recovery-point interval and every bound.  IInv is the inductive         *)
(* invariant; its conjuncts say what each local, map entry and handle      *)
(* means at each place of the threads.                                     *)
(***************************************************************************)
EXTENDS CdpEngine, TLAPS

StartStates == {"insert", "spawn", "assign"}
Past == {"check", "log", "count", "point", "done"}
Created(o) == sid[o] # NoSid

(* Locals of a caller: what it starts or joins exists; two starts work on  *)
(* two objects.                                                            *)
CallerLocals ==
  /\ \A c \in Callers :
       cpc[c] \in StartStates \cup {"stop_join"} =>
         cobj[c] \in Objs /\ Created(cobj[c])
  /\ \A c, d \in Callers :
       cpc[c] \in StartStates /\ cpc[d] \in StartStates /\ cobj[c] = cobj[d]
         => c = d

(* sessions_ maps an id to an object of that id; a started id stays in it, *)
(* and an id started once maps to its object.                              *)
MapShape ==
  /\ \A s \in Sids : sessions[s] \in Objs => sid[sessions[s]] = s
  /\ \A o \in Objs :
       Created(o) /\ (\A c \in Callers : cobj[c] = o => cpc[c] # "insert") =>
         /\ sessions[sid[o]] \in Objs
         /\ ~Restarted(o) => sessions[sid[o]] = o
  /\ \A s \in Sids : sessions[s] \in Objs =>
       \A c \in Callers : cobj[c] = sessions[s] => cpc[c] # "insert"

(* A monitor thread exists from spawn on; its handle from assign on.       *)
ThreadShape ==
  /\ \A o \in Objs :
       mpc[o] = "none" <=>
         \/ ~Created(o)
         \/ \E c \in Callers : cobj[c] = o /\ cpc[c] \in {"insert", "spawn"}
  /\ \A o \in Objs : joinable[o] => Created(o) /\ ~Starting(o)

(* A monitor past its lookup follows an object of its own id; the monitor  *)
(* of an object that is in sessions_ follows that object.                  *)
MonitorLocals ==
  /\ \A m \in Objs : mpc[m] \in Past =>
       mobj[m] \in Objs /\ sid[mobj[m]] = sid[m]
  /\ \A m \in Objs : mpc[m] \notin Past => mobj[m] = NoObj
  /\ \A s \in Sids : sessions[s] \in Objs /\ mpc[sessions[s]] \in Past =>
       mobj[sessions[s]] = sessions[s]

(* sessions_mutex_ is held across actions exactly by whoever joins.        *)
MutexShape ==
  \A c \in Callers :
    /\ mutex = c <=> cpc[c] \in {"stop_join", "shut_join"}
    /\ cpc[c] = "stop_join" =>
         /\ sessions[sid[cobj[c]]] = cobj[c]
         /\ ~running[cobj[c]] /\ joinable[cobj[c]]
    /\ cpc[c] = "shut_join" => \A s \in todo[c] : sessions[s] \in Objs

(* Once flags went down, a session that is not late is completely started, *)
(* and every one that the joining pass has visited has ended.              *)
ShutdownShape ==
  /\ \A c \in Callers :
       cpc[c] \in {"shut_lock", "shut_join", "shut_close"} => marked
  /\ journal = "closed" => marked
  /\ marked => \A o \in Objs : Starting(o) => o \in late
  /\ \A c \in Callers : cpc[c] = "shut_join" =>
       \A s \in Sids \ todo[c] : sessions[s] \in Objs \ late =>
         mpc[sessions[s]] = "done"
  /\ (journal = "closed" \/ \E c \in Callers : cpc[c] = "shut_close") =>
       \A o \in Objs : Created(o) /\ o \notin late /\ ~Restarted(o) =>
         mpc[o] = "done"

(* Nothing is counted or journalled for what was never started; a thread   *)
(* about to take a recovery point has counted a full batch.                *)
CountShape ==
  /\ \A o \in Objs : ~Created(o) => blocks[o] = 0
  /\ \A s \in Sids : (\A o \in Objs : sid[o] # s) => rows[s] = 0 /\ points[s] = {}
  /\ \A o \in Objs : Created(o) /\ ~Restarted(o) /\ mpc[o] = "point" =>
       blocks[o] > 0 /\ blocks[o] % Interval = 0

IInv ==
  /\ TypeOK
  /\ CallerLocals /\ MapShape /\ ThreadShape /\ MonitorLocals /\ MutexShape
  /\ ShutdownShape /\ CountShape
  /\ AbortNeedsRestart /\ JoinedMeansDone /\ RecoveryPointsExact

-----------------------------------------------------------------------------
(* Types are preserved; a lookup needs to know that its id exists.         *)
LEMMA TypeOKStep ==
  ASSUME TypeOK, CallerLocals, MapShape, ThreadShape, MonitorLocals, [Next]_vars
  PROVE  TypeOK'
<1> USE CdpAssumption
    DEF TypeOK, MonitorStates, CallerStates, CallerLocals, ThreadShape,
        MonitorLocals, Past, StartStates, Created, Returns, mapVars,
        threadVars, callerVars, journalVars, history
<1>1. ASSUME NEW c \in Callers, NEW o \in Objs, NEW s \in Sids, StartCreate(c, o, s)
      PROVE  TypeOK'
  BY <1>1 DEF StartCreate
<1>2. ASSUME NEW c \in Callers, StartInsert(c)
      PROVE  TypeOK'
<2>1. aborted' \in BOOLEAN
  BY <1>2, Zenon DEF StartInsert, DestroysJoinable
<2> QED
  BY <1>2, <2>1 DEF StartInsert
<1>3. ASSUME NEW c \in Callers, StartSpawn(c)
      PROVE  TypeOK'
  BY <1>3 DEF StartSpawn
<1>4. ASSUME NEW c \in Callers, StartAssign(c)
      PROVE  TypeOK'
<2>1. aborted' \in BOOLEAN
  BY <1>4, Zenon DEF StartAssign, DestroysJoinable
<2> QED
  BY <1>4, <2>1 DEF StartAssign
<1>5. ASSUME NEW c \in Callers, NEW s \in Sids, StopEnter(c, s)
      PROVE  TypeOK'
  BY SMTT(20), <1>5 DEF StopEnter
<1>6. ASSUME NEW c \in Callers, StopJoin(c)
      PROVE  TypeOK'
  BY <1>6 DEF StopJoin
<1>7. ASSUME NEW c \in Callers, ShutdownMark(c)
      PROVE  TypeOK'
  BY <1>7 DEF ShutdownMark
<1>8. ASSUME NEW c \in Callers, ShutdownLock(c)
      PROVE  TypeOK'
  BY <1>8 DEF ShutdownLock
<1>9. ASSUME NEW c \in Callers, NEW s \in Sids, ShutdownJoin(c, s)
      PROVE  TypeOK'
  BY <1>9 DEF ShutdownJoin
<1>10. ASSUME NEW c \in Callers, ShutdownUnlock(c)
      PROVE  TypeOK'
  BY <1>10 DEF ShutdownUnlock
<1>11. ASSUME NEW c \in Callers, ShutdownClose(c)
      PROVE  TypeOK'
  BY <1>11 DEF ShutdownClose
<1>12. ASSUME NEW m \in Objs, MonitorLookup(m)
      PROVE  TypeOK'
  BY <1>12 DEF MonitorLookup
<1>13. ASSUME NEW m \in Objs, MonitorRound(m)
      PROVE  TypeOK'
  BY <1>13 DEF MonitorRound
<1>14. ASSUME NEW m \in Objs, MonitorExit(m)
      PROVE  TypeOK'
<2>1. aborted' \in BOOLEAN
  BY <1>14, Zenon DEF MonitorExit, DestroysJoinable
<2> QED
  BY <1>14, <2>1 DEF MonitorExit
<1>15. ASSUME NEW m \in Objs, MonitorLog(m)
      PROVE  TypeOK'
  BY <1>15 DEF MonitorLog
<1>16. ASSUME NEW m \in Objs, MonitorCount(m)
      PROVE  TypeOK'
  BY <1>16 DEF MonitorCount
<1>17. ASSUME NEW m \in Objs, MonitorPoint(m)
      PROVE  TypeOK'
  BY <1>17 DEF MonitorPoint
<1>18. CASE UNCHANGED vars
  BY <1>18 DEF vars
<1> QED
  BY <1>1, <1>2, <1>3, <1>4, <1>5, <1>6, <1>7, <1>8, <1>9,
     <1>10, <1>11, <1>12, <1>13, <1>14, <1>15, <1>16, <1>17, <1>18
  DEF Next, CallerStep, StartStep, ShutdownStep, MonitorStep, MonitorLeaves

(* A start takes an object no other caller works on.                       *)
LEMMA CallerLocalsStep ==
  ASSUME TypeOK, MapShape, CallerLocals, [Next]_vars
  PROVE  CallerLocals'
<1> USE CdpAssumption
    DEF TypeOK, CallerLocals, MapShape, Created, StartStates, Returns,
        mapVars, threadVars, callerVars, journalVars, history
<1>1. ASSUME NEW c \in Callers, NEW o \in Objs, NEW s \in Sids, StartCreate(c, o, s)
      PROVE  CallerLocals'
  BY <1>1 DEF StartCreate
<1>2. ASSUME NEW c \in Callers, StartInsert(c)
      PROVE  CallerLocals'
  BY <1>2 DEF StartInsert
<1>3. ASSUME NEW c \in Callers, StartSpawn(c)
      PROVE  CallerLocals'
  BY <1>3 DEF StartSpawn
<1>4. ASSUME NEW c \in Callers, StartAssign(c)
      PROVE  CallerLocals'
  BY <1>4 DEF StartAssign
<1>5. ASSUME NEW c \in Callers, NEW s \in Sids, StopEnter(c, s)
      PROVE  CallerLocals'
  BY <1>5 DEF StopEnter
<1>6. ASSUME NEW c \in Callers, StopJoin(c)
      PROVE  CallerLocals'
  BY <1>6 DEF StopJoin
<1>7. ASSUME NEW c \in Callers,
             ShutdownMark(c) \/ ShutdownLock(c) \/ ShutdownUnlock(c) \/
             ShutdownClose(c)
      PROVE  CallerLocals'
  BY <1>7 DEF ShutdownMark, ShutdownLock, ShutdownUnlock, ShutdownClose
<1>8. ASSUME NEW c \in Callers, NEW s \in Sids,
             ShutdownJoin(c, s)
      PROVE  CallerLocals'
  BY <1>8 DEF ShutdownJoin
<1>9. ASSUME NEW m \in Objs,
             MonitorLookup(m) \/ MonitorRound(m) \/ MonitorExit(m) \/
             MonitorLog(m) \/ MonitorCount(m) \/ MonitorPoint(m)
      PROVE  CallerLocals'
  BY <1>9 DEF MonitorLookup, MonitorRound, MonitorExit, MonitorLog,
         MonitorCount, MonitorPoint
<1>10. CASE UNCHANGED vars
  BY <1>10 DEF vars
<1> QED
  BY <1>1, <1>2, <1>3, <1>4, <1>5, <1>6, <1>7, <1>8, <1>9,
     <1>10
  DEF Next, CallerStep, StartStep, ShutdownStep, MonitorStep, MonitorLeaves

(* The map follows the insertions.                                         *)
LEMMA MapShapeStep ==
  ASSUME TypeOK, CallerLocals, MapShape, [Next]_vars
  PROVE  MapShape'
<1> USE CdpAssumption
    DEF TypeOK, CallerLocals, MapShape, Created, StartStates, Restarted,
        Returns, mapVars, threadVars, callerVars, journalVars, history
<1>1. ASSUME NEW c \in Callers, NEW o \in Objs, NEW s \in Sids, StartCreate(c, o, s)
      PROVE  MapShape'
  BY <1>1 DEF StartCreate
<1>2. ASSUME NEW c \in Callers, StartInsert(c)
      PROVE  MapShape'
  BY <1>2 DEF StartInsert
<1>3. ASSUME NEW c \in Callers, StartSpawn(c)
      PROVE  MapShape'
  BY <1>3 DEF StartSpawn
<1>4. ASSUME NEW c \in Callers, StartAssign(c)
      PROVE  MapShape'
  BY <1>4 DEF StartAssign
<1>5. ASSUME NEW c \in Callers, NEW s \in Sids, StopEnter(c, s)
      PROVE  MapShape'
  BY <1>5 DEF StopEnter
<1>6. ASSUME NEW c \in Callers, StopJoin(c)
      PROVE  MapShape'
  BY <1>6 DEF StopJoin
<1>7. ASSUME NEW c \in Callers,
             ShutdownMark(c) \/ ShutdownLock(c) \/ ShutdownUnlock(c) \/
             ShutdownClose(c)
      PROVE  MapShape'
  BY <1>7 DEF ShutdownMark, ShutdownLock, ShutdownUnlock, ShutdownClose
<1>8. ASSUME NEW c \in Callers, NEW s \in Sids,
             ShutdownJoin(c, s)
      PROVE  MapShape'
  BY <1>8 DEF ShutdownJoin
<1>9. ASSUME NEW m \in Objs,
             MonitorLookup(m) \/ MonitorRound(m) \/ MonitorExit(m) \/
             MonitorLog(m) \/ MonitorCount(m) \/ MonitorPoint(m)
      PROVE  MapShape'
  BY <1>9 DEF MonitorLookup, MonitorRound, MonitorExit, MonitorLog,
         MonitorCount, MonitorPoint
<1>10. CASE UNCHANGED vars
  BY <1>10 DEF vars
<1> QED
  BY <1>1, <1>2, <1>3, <1>4, <1>5, <1>6, <1>7, <1>8, <1>9,
     <1>10
  DEF Next, CallerStep, StartStep, ShutdownStep, MonitorStep, MonitorLeaves

(* A thread appears at spawn, its handle at assign.                        *)
LEMMA ThreadShapeStep ==
  ASSUME TypeOK, CallerLocals, MapShape, ThreadShape, [Next]_vars
  PROVE  ThreadShape'
<1> USE CdpAssumption
    DEF TypeOK, CallerLocals, ThreadShape, Created, StartStates, Starting,
        Returns, mapVars, threadVars, callerVars, journalVars, history
<1>1. ASSUME NEW c \in Callers, NEW o \in Objs, NEW s \in Sids, StartCreate(c, o, s)
      PROVE  ThreadShape'
  BY <1>1 DEF StartCreate
<1>2. ASSUME NEW c \in Callers, StartInsert(c)
      PROVE  ThreadShape'
  BY <1>2 DEF StartInsert
<1>3. ASSUME NEW c \in Callers, StartSpawn(c)
      PROVE  ThreadShape'
  BY <1>3 DEF StartSpawn
<1>4. ASSUME NEW c \in Callers, StartAssign(c)
      PROVE  ThreadShape'
  BY <1>4 DEF StartAssign
<1>5. ASSUME NEW c \in Callers, NEW s \in Sids, StopEnter(c, s)
      PROVE  ThreadShape'
<2>1. CASE ~joinable[sessions[s]]
  BY <1>5, <2>1 DEF StopEnter
<2>2. CASE joinable[sessions[s]]
  <3>1. mpc' = mpc /\ joinable' = joinable /\ sid' = sid
    BY <1>5 DEF StopEnter
  <3>2. \A d \in Callers, o \in Objs :
          (cobj'[d] = o /\ cpc'[d] \in StartStates)
            <=> (cobj[d] = o /\ cpc[d] \in StartStates)
    BY <1>5, <2>2 DEF StopEnter
  <3>3. \A d \in Callers : cpc[d] \in StartStates => cpc'[d] = cpc[d]
    BY <1>5, <2>2 DEF StopEnter
  <3>4. \A o \in Objs : Starting(o)' <=> Starting(o)
    BY <3>2, <3>3
  <3>5. \A o \in Objs :
          (\E d \in Callers : cobj[d] = o /\ cpc[d] \in {"insert", "spawn"})'
            <=> \E d \in Callers : cobj[d] = o /\ cpc[d] \in {"insert", "spawn"}
    BY <3>2, <3>3
  <3> QED
    BY <3>1, <3>4, <3>5
<2> QED
  BY <2>1, <2>2
<1>6. ASSUME NEW c \in Callers, StopJoin(c)
      PROVE  ThreadShape'
  BY <1>6 DEF StopJoin
<1>7. ASSUME NEW c \in Callers, NEW s \in Sids, ShutdownJoin(c, s)
      PROVE  ThreadShape'
  BY <1>7 DEF ShutdownJoin
<1>8. ASSUME NEW m \in Objs, MonitorLookup(m)
      PROVE  ThreadShape'
  BY <1>8 DEF MonitorLookup
<1>9. ASSUME NEW c \in Callers,
             ShutdownMark(c) \/ ShutdownLock(c) \/ ShutdownUnlock(c) \/
             ShutdownClose(c)
      PROVE  ThreadShape'
  BY SMTT(20), <1>9 DEF ShutdownMark, ShutdownLock, ShutdownUnlock, ShutdownClose
<1>10. ASSUME NEW m \in Objs,
             MonitorRound(m) \/ MonitorExit(m) \/ MonitorLog(m) \/
             MonitorCount(m) \/ MonitorPoint(m)
      PROVE  ThreadShape'
  BY <1>10 DEF MonitorRound, MonitorExit, MonitorLog, MonitorCount,
         MonitorPoint
<1>11. CASE UNCHANGED vars
  BY <1>11 DEF vars
<1> QED
  BY <1>1, <1>2, <1>3, <1>4, <1>5, <1>6, <1>7, <1>8, <1>9,
     <1>10, <1>11
  DEF Next, CallerStep, StartStep, ShutdownStep, MonitorStep, MonitorLeaves

(* What a monitor looks up has its id.                                     *)
LEMMA MonitorLocalsStep ==
  ASSUME TypeOK, CallerLocals, MapShape, ThreadShape, MonitorLocals, [Next]_vars
  PROVE  MonitorLocals'
<1> USE CdpAssumption
    DEF TypeOK, CallerLocals, MapShape, ThreadShape, MonitorLocals, Past,
        Created, StartStates, Returns, mapVars, threadVars, callerVars,
        journalVars, history
<1>1. ASSUME NEW c \in Callers, NEW o \in Objs, NEW s \in Sids, StartCreate(c, o, s)
      PROVE  MonitorLocals'
  BY <1>1 DEF StartCreate
<1>2. ASSUME NEW c \in Callers, StartInsert(c)
      PROVE  MonitorLocals'
  BY <1>2 DEF StartInsert
<1>3. ASSUME NEW c \in Callers, StartSpawn(c)
      PROVE  MonitorLocals'
  BY <1>3 DEF StartSpawn
<1>4. ASSUME NEW c \in Callers, StartAssign(c)
      PROVE  MonitorLocals'
  BY <1>4 DEF StartAssign
<1>5. ASSUME NEW c \in Callers, NEW s \in Sids, StopEnter(c, s)
      PROVE  MonitorLocals'
  BY <1>5 DEF StopEnter
<1>6. ASSUME NEW c \in Callers, StopJoin(c)
      PROVE  MonitorLocals'
  BY <1>6 DEF StopJoin
<1>7. ASSUME NEW m \in Objs, MonitorLookup(m)
      PROVE  MonitorLocals'
  BY <1>7 DEF MonitorLookup
<1>8. ASSUME NEW c \in Callers,
             ShutdownMark(c) \/ ShutdownLock(c) \/ ShutdownUnlock(c) \/
             ShutdownClose(c)
      PROVE  MonitorLocals'
  BY <1>8 DEF ShutdownMark, ShutdownLock, ShutdownUnlock, ShutdownClose
<1>9. ASSUME NEW c \in Callers, NEW s \in Sids,
             ShutdownJoin(c, s)
      PROVE  MonitorLocals'
  BY <1>9 DEF ShutdownJoin
<1>10. ASSUME NEW m \in Objs,
             MonitorRound(m) \/ MonitorExit(m) \/ MonitorLog(m) \/
             MonitorCount(m) \/ MonitorPoint(m)
      PROVE  MonitorLocals'
  BY <1>10 DEF MonitorRound, MonitorExit, MonitorLog, MonitorCount,
         MonitorPoint
<1>11. CASE UNCHANGED vars
  BY <1>11 DEF vars
<1> QED
  BY <1>1, <1>2, <1>3, <1>4, <1>5, <1>6, <1>7, <1>8, <1>9,
     <1>10, <1>11
  DEF Next, CallerStep, StartStep, ShutdownStep, MonitorStep, MonitorLeaves

(* Nobody touches the map while a thread is being joined.                  *)
LEMMA MutexShapeStep ==
  ASSUME TypeOK, CallerLocals, MapShape, ThreadShape, MutexShape, [Next]_vars
  PROVE  MutexShape'
<1> USE CdpAssumption
    DEF TypeOK, CallerLocals, MapShape, ThreadShape, MutexShape, Created,
        StartStates, Starting, Returns, mapVars, threadVars, callerVars,
        journalVars, history
<1>1. ASSUME NEW c \in Callers, NEW o \in Objs, NEW s \in Sids, StartCreate(c, o, s)
      PROVE  MutexShape'
  BY <1>1 DEF StartCreate
<1>2. ASSUME NEW c \in Callers, StartInsert(c)
      PROVE  MutexShape'
  BY <1>2 DEF StartInsert
<1>3. ASSUME NEW c \in Callers, StartSpawn(c)
      PROVE  MutexShape'
  BY <1>3 DEF StartSpawn
<1>4. ASSUME NEW c \in Callers, StartAssign(c)
      PROVE  MutexShape'
  BY <1>4 DEF StartAssign
<1>5. ASSUME NEW c \in Callers, NEW s \in Sids, StopEnter(c, s)
      PROVE  MutexShape'
  BY <1>5 DEF StopEnter
<1>6. ASSUME NEW c \in Callers, StopJoin(c)
      PROVE  MutexShape'
  BY <1>6 DEF StopJoin
<1>7. ASSUME NEW c \in Callers, ShutdownMark(c)
      PROVE  MutexShape'
  BY <1>7 DEF ShutdownMark
<1>8. ASSUME NEW c \in Callers, ShutdownLock(c)
      PROVE  MutexShape'
  BY <1>8 DEF ShutdownLock
<1>9. ASSUME NEW c \in Callers, NEW s \in Sids, ShutdownJoin(c, s)
      PROVE  MutexShape'
  BY <1>9 DEF ShutdownJoin
<1>10. ASSUME NEW c \in Callers, ShutdownUnlock(c)
      PROVE  MutexShape'
  BY <1>10 DEF ShutdownUnlock
<1>11. ASSUME NEW c \in Callers, ShutdownClose(c)
      PROVE  MutexShape'
  BY <1>11 DEF ShutdownClose
<1>12. ASSUME NEW m \in Objs,
             MonitorLookup(m) \/ MonitorRound(m) \/ MonitorExit(m) \/
             MonitorLog(m) \/ MonitorCount(m) \/ MonitorPoint(m)
      PROVE  MutexShape'
  BY <1>12 DEF MonitorLookup, MonitorRound, MonitorExit, MonitorLog,
         MonitorCount, MonitorPoint
<1>13. CASE UNCHANGED vars
  BY <1>13 DEF vars
<1> QED
  BY <1>1, <1>2, <1>3, <1>4, <1>5, <1>6, <1>7, <1>8, <1>9,
     <1>10, <1>11, <1>12, <1>13
  DEF Next, CallerStep, StartStep, ShutdownStep, MonitorStep, MonitorLeaves

(* The two passes of shutdown.                                             *)
LEMMA ShutdownShapeStep ==
  ASSUME TypeOK, CallerLocals, MapShape, ThreadShape, MonitorLocals, MutexShape, JoinedMeansDone, ShutdownShape, [Next]_vars
  PROVE  ShutdownShape'
<1> USE CdpAssumption
    DEF TypeOK, CallerLocals, MapShape, ThreadShape, MonitorLocals,
        MutexShape, JoinedMeansDone, ShutdownShape, Created, StartStates,
        Starting, Restarted, Past, Returns, mapVars, threadVars, callerVars,
        journalVars, history
<1>1. ASSUME NEW c \in Callers, NEW o \in Objs, NEW s \in Sids, StartCreate(c, o, s)
      PROVE  ShutdownShape'
  BY <1>1 DEF StartCreate
<1>2. ASSUME NEW c \in Callers, StartInsert(c)
      PROVE  ShutdownShape'
  BY <1>2 DEF StartInsert
<1>3. ASSUME NEW c \in Callers, StartSpawn(c)
      PROVE  ShutdownShape'
  BY <1>3 DEF StartSpawn
<1>4. ASSUME NEW c \in Callers, StartAssign(c)
      PROVE  ShutdownShape'
  BY <1>4 DEF StartAssign
<1>5. ASSUME NEW c \in Callers, NEW s \in Sids, StopEnter(c, s)
      PROVE  ShutdownShape'
  BY <1>5 DEF StopEnter
<1>6. ASSUME NEW c \in Callers, StopJoin(c)
      PROVE  ShutdownShape'
  BY <1>6 DEF StopJoin
<1>7. ASSUME NEW c \in Callers, ShutdownMark(c)
      PROVE  ShutdownShape'
  BY <1>7 DEF ShutdownMark
<1>8. ASSUME NEW c \in Callers, ShutdownLock(c)
      PROVE  ShutdownShape'
  BY <1>8 DEF ShutdownLock
<1>9. ASSUME NEW c \in Callers, NEW s \in Sids, ShutdownJoin(c, s)
      PROVE  ShutdownShape'
  BY <1>9 DEF ShutdownJoin
<1>10. ASSUME NEW c \in Callers, ShutdownUnlock(c)
      PROVE  ShutdownShape'
  BY <1>10 DEF ShutdownUnlock
<1>11. ASSUME NEW c \in Callers, ShutdownClose(c)
      PROVE  ShutdownShape'
  BY <1>11 DEF ShutdownClose
<1>12. ASSUME NEW m \in Objs, MonitorExit(m)
      PROVE  ShutdownShape'
  BY <1>12 DEF MonitorExit
<1>13. ASSUME NEW m \in Objs, MonitorCount(m)
      PROVE  ShutdownShape'
  BY <1>13 DEF MonitorCount
<1>14. ASSUME NEW m \in Objs,
             MonitorLookup(m) \/ MonitorRound(m) \/ MonitorLog(m) \/
             MonitorPoint(m)
      PROVE  ShutdownShape'
  BY <1>14 DEF MonitorLookup, MonitorRound, MonitorLog, MonitorPoint
<1>15. CASE UNCHANGED vars
  BY <1>15 DEF vars
<1> QED
  BY <1>1, <1>2, <1>3, <1>4, <1>5, <1>6, <1>7, <1>8, <1>9,
     <1>10, <1>11, <1>12, <1>13, <1>14, <1>15
  DEF Next, CallerStep, StartStep, ShutdownStep, MonitorStep, MonitorLeaves

(* Counters of what was never started stay at zero.                        *)
LEMMA CountShapeStep ==
  ASSUME TypeOK, CallerLocals, ThreadShape, MonitorLocals, RecoveryPointsExact, CountShape, [Next]_vars
  PROVE  CountShape'
<1> USE CdpAssumption
    DEF TypeOK, CallerLocals, ThreadShape, MonitorLocals, CountShape,
        Created, StartStates, Restarted, Past, Returns, mapVars, threadVars,
        callerVars, journalVars, history
<1>1. ASSUME NEW c \in Callers, NEW o \in Objs, NEW s \in Sids, StartCreate(c, o, s)
      PROVE  CountShape'
  BY <1>1 DEF StartCreate
<1>2. ASSUME NEW m \in Objs, MonitorLookup(m)
      PROVE  CountShape'
  BY <1>2 DEF MonitorLookup
<1>3. ASSUME NEW m \in Objs, MonitorRound(m)
      PROVE  CountShape'
  BY <1>3 DEF MonitorRound
<1>4. ASSUME NEW m \in Objs, MonitorExit(m)
      PROVE  CountShape'
  BY <1>4 DEF MonitorExit
<1>5. ASSUME NEW m \in Objs, MonitorLog(m)
      PROVE  CountShape'
  BY <1>5 DEF MonitorLog
<1>6. ASSUME NEW m \in Objs, MonitorCount(m)
      PROVE  CountShape'
  BY <1>6 DEF MonitorCount
<1>7. ASSUME NEW m \in Objs, MonitorPoint(m)
      PROVE  CountShape'
  BY <1>7 DEF MonitorPoint
<1>8. ASSUME NEW c \in Callers,
             StartInsert(c) \/ StartSpawn(c) \/ StartAssign(c) \/
             StopJoin(c) \/ ShutdownMark(c) \/ ShutdownLock(c) \/
             ShutdownUnlock(c) \/ ShutdownClose(c)
      PROVE  CountShape'
  BY <1>8 DEF StartInsert, StartSpawn, StartAssign, StopJoin,
         ShutdownMark, ShutdownLock, ShutdownUnlock, ShutdownClose
<1>9. ASSUME NEW c \in Callers, NEW s \in Sids,
             StopEnter(c, s) \/ ShutdownJoin(c, s)
      PROVE  CountShape'
  BY <1>9 DEF StopEnter, ShutdownJoin
<1>10. CASE UNCHANGED vars
  BY <1>10 DEF vars
<1> QED
  BY <1>1, <1>2, <1>3, <1>4, <1>5, <1>6, <1>7, <1>8, <1>9,
     <1>10
  DEF Next, CallerStep, StartStep, ShutdownStep, MonitorStep, MonitorLeaves

(* An object whose id was started once is held by the map.                 *)
LEMMA AbortNeedsRestartStep ==
  ASSUME TypeOK, CallerLocals, MapShape, ThreadShape, AbortNeedsRestart, [Next]_vars
  PROVE  AbortNeedsRestart'
<1> USE CdpAssumption
    DEF TypeOK, CallerLocals, MapShape, ThreadShape, Created, StartStates,
        Starting, Restarted, AbortNeedsRestart, Returns, mapVars,
        threadVars, callerVars, journalVars, history
<1>1. ASSUME NEW c \in Callers, NEW o \in Objs, NEW s \in Sids, StartCreate(c, o, s)
      PROVE  AbortNeedsRestart'
  BY <1>1 DEF StartCreate
<1>2. ASSUME NEW c \in Callers, StartInsert(c)
      PROVE  AbortNeedsRestart'
<2> SUFFICES ASSUME NEW o \in Objs, joinable'[o], ~Held(o)'
             PROVE  Restarted(o)'
  BY <1>2, Zenon DEF StartInsert, DestroysJoinable, AbortNeedsRestart
<2>1. Created(o) /\ \A d \in Callers : cobj[d] = o => cpc[d] # "insert"
  BY <1>2 DEF StartInsert
<2>2. ~Restarted(o)' => sessions'[sid'[o]] = o
  BY <1>2, <2>1 DEF StartInsert
<2> QED
  BY <1>2, <2>1, <2>2 DEF StartInsert, Held
<1>3. ASSUME NEW c \in Callers, StartAssign(c)
      PROVE  AbortNeedsRestart'
<2> SUFFICES ASSUME NEW o \in Objs, joinable'[o], ~Held(o)'
             PROVE  Restarted(o)'
  BY <1>3, Zenon DEF StartAssign, DestroysJoinable, AbortNeedsRestart
<2>1. Created(o) /\ \A d \in Callers : cobj[d] = o => cpc[d] # "insert"
  BY <1>3 DEF StartAssign
<2>2. ~Restarted(o)' => sessions'[sid'[o]] = o
  BY <1>3, <2>1 DEF StartAssign
<2> QED
  BY <1>3, <2>1, <2>2 DEF StartAssign, Held
<1>4. ASSUME NEW m \in Objs, MonitorExit(m)
      PROVE  AbortNeedsRestart'
<2> SUFFICES ASSUME NEW o \in Objs, joinable'[o], ~Held(o)'
             PROVE  Restarted(o)'
  BY <1>4, Zenon DEF MonitorExit, DestroysJoinable, AbortNeedsRestart
<2>1. Created(o) /\ \A d \in Callers : cobj[d] = o => cpc[d] # "insert"
  BY <1>4 DEF MonitorExit
<2>2. ~Restarted(o)' => sessions'[sid'[o]] = o
  BY <1>4, <2>1 DEF MonitorExit
<2> QED
  BY <1>4, <2>1, <2>2 DEF MonitorExit, Held
<1>5. ASSUME NEW c \in Callers,
             StartSpawn(c) \/ StopJoin(c) \/ ShutdownMark(c) \/
             ShutdownLock(c) \/ ShutdownUnlock(c) \/ ShutdownClose(c)
      PROVE  AbortNeedsRestart'
<2>1. UNCHANGED <<aborted, sid>>
  BY <1>5 DEF StartSpawn, StopJoin, ShutdownMark, ShutdownLock,
         ShutdownUnlock, ShutdownClose
<2> QED
  BY <2>1
<1>6. ASSUME NEW c \in Callers, NEW s \in Sids,
             StopEnter(c, s) \/ ShutdownJoin(c, s)
      PROVE  AbortNeedsRestart'
<2>1. UNCHANGED <<aborted, sid>>
  BY <1>6 DEF StopEnter, ShutdownJoin
<2> QED
  BY <2>1
<1>7. ASSUME NEW m \in Objs,
             MonitorLookup(m) \/ MonitorRound(m) \/ MonitorLog(m) \/
             MonitorCount(m) \/ MonitorPoint(m)
      PROVE  AbortNeedsRestart'
<2>1. UNCHANGED <<aborted, sid>>
  BY <1>7 DEF MonitorLookup, MonitorRound, MonitorLog, MonitorCount,
         MonitorPoint
<2> QED
  BY <2>1
<1>8. CASE UNCHANGED vars
  BY <1>8 DEF vars
<1> QED
  BY <1>1, <1>2, <1>3, <1>4, <1>5, <1>6, <1>7, <1>8
  DEF Next, CallerStep, StartStep, ShutdownStep, MonitorStep, MonitorLeaves

(* join() returns only when the thread has ended.                          *)
LEMMA JoinedMeansDoneStep ==
  ASSUME TypeOK, CallerLocals, MapShape, ThreadShape, MutexShape, JoinedMeansDone, [Next]_vars
  PROVE  JoinedMeansDone'
<1> USE CdpAssumption
    DEF TypeOK, CallerLocals, MapShape, ThreadShape, MutexShape,
        JoinedMeansDone, Created, StartStates, Starting, Returns, mapVars,
        threadVars, callerVars, journalVars, history
<1>1. ASSUME NEW c \in Callers, NEW o \in Objs, NEW s \in Sids, StartCreate(c, o, s)
      PROVE  JoinedMeansDone'
  BY <1>1 DEF StartCreate
<1>2. ASSUME NEW c \in Callers, StartInsert(c)
      PROVE  JoinedMeansDone'
  BY <1>2 DEF StartInsert
<1>3. ASSUME NEW c \in Callers, StartSpawn(c)
      PROVE  JoinedMeansDone'
  BY <1>3 DEF StartSpawn
<1>4. ASSUME NEW c \in Callers, StartAssign(c)
      PROVE  JoinedMeansDone'
  BY <1>4 DEF StartAssign
<1>5. ASSUME NEW c \in Callers, NEW s \in Sids, StopEnter(c, s)
      PROVE  JoinedMeansDone'
  BY <1>5 DEF StopEnter
<1>6. ASSUME NEW c \in Callers, StopJoin(c)
      PROVE  JoinedMeansDone'
  BY <1>6 DEF StopJoin
<1>7. ASSUME NEW c \in Callers, NEW s \in Sids, ShutdownJoin(c, s)
      PROVE  JoinedMeansDone'
  BY <1>7 DEF ShutdownJoin
<1>8. ASSUME NEW m \in Objs, MonitorLookup(m)
      PROVE  JoinedMeansDone'
  BY <1>8 DEF MonitorLookup
<1>9. ASSUME NEW c \in Callers,
             ShutdownMark(c) \/ ShutdownLock(c) \/ ShutdownUnlock(c) \/
             ShutdownClose(c)
      PROVE  JoinedMeansDone'
  BY <1>9 DEF ShutdownMark, ShutdownLock, ShutdownUnlock, ShutdownClose
<1>10. ASSUME NEW m \in Objs,
             MonitorRound(m) \/ MonitorExit(m) \/ MonitorLog(m) \/
             MonitorCount(m) \/ MonitorPoint(m)
      PROVE  JoinedMeansDone'
  BY <1>10 DEF MonitorRound, MonitorExit, MonitorLog, MonitorCount,
         MonitorPoint
<1>11. CASE UNCHANGED vars
  BY <1>11 DEF vars
<1> QED
  BY <1>1, <1>2, <1>3, <1>4, <1>5, <1>6, <1>7, <1>8, <1>9,
     <1>10, <1>11
  DEF Next, CallerStep, StartStep, ShutdownStep, MonitorStep, MonitorLeaves

(* Rows, counter and recovery points move together.                        *)
LEMMA RecoveryPointsExactStep ==
  ASSUME TypeOK, CallerLocals, MapShape, ThreadShape, MonitorLocals, CountShape, RecoveryPointsExact, [Next]_vars
  PROVE  RecoveryPointsExact'
<1> USE CdpAssumption
    DEF TypeOK, CallerLocals, ThreadShape, MonitorLocals, CountShape,
        RecoveryPointsExact, Created, StartStates, Restarted, Past, Returns,
        mapVars, threadVars, callerVars, journalVars, history
<1>1. ASSUME NEW c \in Callers, NEW o \in Objs, NEW s \in Sids, StartCreate(c, o, s)
      PROVE  RecoveryPointsExact'
  BY SMTT(20), <1>1 DEF StartCreate, FullBatches
<1>2. ASSUME NEW c \in Callers, ShutdownClose(c)
      PROVE  RecoveryPointsExact'
  BY <1>2 DEF ShutdownClose, FullBatches
<1>3. ASSUME NEW m \in Objs, MonitorLog(m)
      PROVE  RecoveryPointsExact'
<2> SUFFICES ASSUME NEW o \in Objs, journal' = "open", sid'[o] # NoSid,
                    ~Restarted(o)'
             PROVE  /\ rows'[sid'[o]]
                         = blocks'[o] + (IF mpc'[o] = "count" THEN 1 ELSE 0)
                    /\ points'[sid'[o]] = FullBatches(o)'
  OBVIOUS
<2>1. /\ journal = "open" /\ sid' = sid /\ sid[o] \in Sids /\ ~Restarted(o)
      /\ \A p \in Objs : sid[p] = sid[o] => p = o
  BY <1>3 DEF MonitorLog
<2>2. /\ rows[sid[o]] = blocks[o] + (IF mpc[o] = "count" THEN 1 ELSE 0)
      /\ points[sid[o]] = FullBatches(o)
  BY <2>1
<2>3. CASE o # m
  <3>1. /\ mpc'[o] = mpc[o] /\ blocks'[o] = blocks[o]
        /\ rows'[sid[o]] = rows[sid[o]] /\ points'[sid[o]] = points[sid[o]]
    BY <1>3, <2>1, <2>3 DEF MonitorLog
  <3> QED
    BY <2>1, <2>2, <3>1 DEF FullBatches
<2>4. CASE o = m
  <3>1. /\ mpc[o] = "log" /\ mpc'[o] = "count" /\ blocks' = blocks
        /\ rows'[sid[o]] = rows[sid[o]] + 1 /\ points' = points
    BY <1>3, <2>1, <2>4 DEF MonitorLog
  <3> QED
    BY <2>1, <2>2, <3>1 DEF FullBatches
<2> QED
  BY <2>3, <2>4
<1>4. ASSUME NEW m \in Objs, MonitorCount(m)
      PROVE  RecoveryPointsExact'
<2> SUFFICES ASSUME NEW o \in Objs, journal' = "open", sid'[o] # NoSid,
                    ~Restarted(o)'
             PROVE  /\ rows'[sid'[o]]
                         = blocks'[o] + (IF mpc'[o] = "count" THEN 1 ELSE 0)
                    /\ points'[sid'[o]] = FullBatches(o)'
  OBVIOUS
<2>1. /\ journal = "open" /\ sid' = sid /\ sid[o] \in Sids /\ ~Restarted(o)
      /\ \A p \in Objs : sid[p] = sid[o] => p = o
  BY <1>4 DEF MonitorCount
<2>2. /\ rows[sid[o]] = blocks[o] + (IF mpc[o] = "count" THEN 1 ELSE 0)
      /\ points[sid[o]] = FullBatches(o)
  BY <2>1
<2>3. CASE o # m
  <3>1. /\ mpc'[o] = mpc[o] /\ blocks'[o] = blocks[o]
        /\ rows'[sid[o]] = rows[sid[o]] /\ points'[sid[o]] = points[sid[o]]
    BY <1>4, <2>1, <2>3 DEF MonitorCount
  <3> QED
    BY <2>1, <2>2, <3>1 DEF FullBatches
<2>4. CASE o = m
  <3>1. mobj[m] = m /\ mpc[m] = "count"
    BY <1>4, <2>1, <2>4 DEF MonitorCount
  <3>2. ~\E k \in Objs \ {m} : mobj[k] = mobj[m] /\ mpc[k] = "count"
    BY <2>1, <2>4, <3>1
  <3>3. /\ blocks'[o] = blocks[o] + 1 /\ rows' = rows /\ points' = points
        /\ mpc'[o] = IF blocks'[o] % Interval = 0 THEN "point" ELSE "check"
    BY <1>4, <2>4, <3>1, <3>2 DEF MonitorCount
  <3>4. blocks[o] \in Nat
    OBVIOUS
  <3>5. FullBatches(o)' = FullBatches(o)
    <4>1. CASE blocks'[o] % Interval = 0
      <5>1. FullBatches(o)'
              = {n \in 1..(blocks[o] + 1) : n % Interval = 0} \ {blocks[o] + 1}
        BY <3>3, <4>1 DEF FullBatches
      <5>2. FullBatches(o) = {n \in 1..blocks[o] : n % Interval = 0}
        BY <2>4, <3>1 DEF FullBatches
      <5> QED
        BY <3>4, <5>1, <5>2
    <4>2. CASE blocks'[o] % Interval # 0
      <5>1. FullBatches(o)' = {n \in 1..(blocks[o] + 1) : n % Interval = 0}
        BY <3>3, <4>2 DEF FullBatches
      <5>2. FullBatches(o) = {n \in 1..blocks[o] : n % Interval = 0}
        BY <2>4, <3>1 DEF FullBatches
      <5>3. 1..(blocks[o] + 1) = (1..blocks[o]) \cup {blocks[o] + 1}
        BY <3>4
      <5>4. ~((blocks[o] + 1) % Interval = 0)
        BY <3>3, <4>2
      <5> HIDE DEF TypeOK, CountShape, RecoveryPointsExact
      <5> QED
        BY <5>1, <5>2, <5>3, <5>4
    <4> QED
      BY <4>1, <4>2
  <3> QED
    BY <2>1, <2>2, <2>4, <3>1, <3>3, <3>4, <3>5
<2> QED
  BY <2>3, <2>4
<1>5. ASSUME NEW m \in Objs, MonitorPoint(m)
      PROVE  RecoveryPointsExact'
<2> SUFFICES ASSUME NEW o \in Objs, journal' = "open", sid'[o] # NoSid,
                    ~Restarted(o)'
             PROVE  /\ rows'[sid'[o]]
                         = blocks'[o] + (IF mpc'[o] = "count" THEN 1 ELSE 0)
                    /\ points'[sid'[o]] = FullBatches(o)'
  OBVIOUS
<2>1. /\ journal = "open" /\ sid' = sid /\ sid[o] \in Sids /\ ~Restarted(o)
      /\ \A p \in Objs : sid[p] = sid[o] => p = o
  BY <1>5 DEF MonitorPoint
<2>2. /\ rows[sid[o]] = blocks[o] + (IF mpc[o] = "count" THEN 1 ELSE 0)
      /\ points[sid[o]] = FullBatches(o)
  BY <2>1
<2>3. CASE o # m
  <3>1. /\ mpc'[o] = mpc[o] /\ blocks'[o] = blocks[o]
        /\ rows'[sid[o]] = rows[sid[o]] /\ points'[sid[o]] = points[sid[o]]
    BY <1>5, <2>1, <2>3 DEF MonitorPoint
  <3> QED
    BY <2>1, <2>2, <3>1 DEF FullBatches
<2>4. CASE o = m
  <3>1. /\ mpc[o] = "point" /\ mpc'[o] = "check" /\ blocks' = blocks
        /\ rows' = rows
        /\ points'[sid[o]] = points[sid[o]] \cup {rows[sid[o]]}
    BY <1>5, <2>1, <2>4 DEF MonitorPoint
  <3>2. rows[sid[o]] = blocks[o] /\ blocks[o] \in Nat
    BY <2>2, <3>1
  <3>3. blocks[o] \in 1..blocks[o] /\ blocks[o] % Interval = 0
    BY <2>1, <3>1, <3>2
  <3>4. FullBatches(o)' = {n \in 1..blocks[o] : n % Interval = 0}
    BY <3>1 DEF FullBatches
  <3>5. FullBatches(o) = {n \in 1..blocks[o] : n % Interval = 0} \ {blocks[o]}
    BY <3>1 DEF FullBatches
  <3>6. points'[sid[o]] = FullBatches(o) \cup {blocks[o]}
    BY <2>2, <3>1, <3>2
  <3>7. points'[sid[o]] = FullBatches(o)'
    <4> HIDE DEF TypeOK, CountShape, RecoveryPointsExact
    <4> QED
      BY <3>3, <3>4, <3>5, <3>6
  <3> QED
    BY <2>1, <3>1, <3>2, <3>7
<2> QED
  BY <2>3, <2>4
<1>6. ASSUME NEW c \in Callers,
             StartInsert(c) \/ StartSpawn(c) \/ StartAssign(c) \/
             StopJoin(c) \/ ShutdownMark(c) \/ ShutdownLock(c) \/
             ShutdownUnlock(c)
      PROVE  RecoveryPointsExact'
<2>1. UNCHANGED <<journal, sid, rows, points, blocks>>
  BY <1>6 DEF StartInsert, StartSpawn, StartAssign, StopJoin,
         ShutdownMark, ShutdownLock, ShutdownUnlock
<2>2. \A o \in Objs : /\ mpc'[o] = "count" <=> mpc[o] = "count"
                      /\ mpc'[o] = "point" <=> mpc[o] = "point"
  BY <1>6 DEF StartInsert, StartSpawn, StartAssign, StopJoin,
         ShutdownMark, ShutdownLock, ShutdownUnlock
<2>3. \A o \in Objs : FullBatches(o)' = FullBatches(o)
  BY <2>1, <2>2 DEF FullBatches
<2> QED
  BY <2>1, <2>2, <2>3
<1>7. ASSUME NEW c \in Callers, NEW s \in Sids,
             StopEnter(c, s) \/ ShutdownJoin(c, s)
      PROVE  RecoveryPointsExact'
<2>1. UNCHANGED <<journal, sid, rows, points, blocks>>
  BY <1>7 DEF StopEnter, ShutdownJoin
<2>2. \A o \in Objs : /\ mpc'[o] = "count" <=> mpc[o] = "count"
                      /\ mpc'[o] = "point" <=> mpc[o] = "point"
  BY <1>7 DEF StopEnter, ShutdownJoin
<2>3. \A o \in Objs : FullBatches(o)' = FullBatches(o)
  BY <2>1, <2>2 DEF FullBatches
<2> QED
  BY <2>1, <2>2, <2>3
<1>8. ASSUME NEW m \in Objs,
             MonitorLookup(m) \/ MonitorRound(m) \/ MonitorExit(m)
      PROVE  RecoveryPointsExact'
<2>1. UNCHANGED <<journal, sid, rows, points, blocks>>
  BY <1>8 DEF MonitorLookup, MonitorRound, MonitorExit
<2>2. \A o \in Objs : /\ mpc'[o] = "count" <=> mpc[o] = "count"
                      /\ mpc'[o] = "point" <=> mpc[o] = "point"
  BY <1>8 DEF MonitorLookup, MonitorRound, MonitorExit
<2>3. \A o \in Objs : FullBatches(o)' = FullBatches(o)
  BY <2>1, <2>2 DEF FullBatches
<2> QED
  BY <2>1, <2>2, <2>3
<1>9. CASE UNCHANGED vars
  BY <1>9 DEF vars, FullBatches
<1> QED
  BY <1>1, <1>2, <1>3, <1>4, <1>5, <1>6, <1>7, <1>8, <1>9
  DEF Next, CallerStep, StartStep, ShutdownStep, MonitorStep, MonitorLeaves

-----------------------------------------------------------------------------
(* The initial state satisfies the invariant.                              *)
LEMMA InvariantInit == Init => IInv
<1> SUFFICES ASSUME Init PROVE IInv
  OBVIOUS
<1> USE CdpAssumption DEF Init
<1>1. TypeOK
  BY DEF TypeOK, MonitorStates, CallerStates
<1>2. CallerLocals /\ MapShape /\ ThreadShape /\ MonitorLocals /\ MutexShape
  BY DEF CallerLocals, MapShape, ThreadShape, MonitorLocals, MutexShape,
         StartStates, Past, Created, Starting
<1>3. ShutdownShape /\ CountShape
  BY DEF ShutdownShape, CountShape, Created, Starting
<1>4. AbortNeedsRestart /\ JoinedMeansDone /\ RecoveryPointsExact
  BY DEF AbortNeedsRestart, JoinedMeansDone, RecoveryPointsExact
<1> QED
  BY <1>1, <1>2, <1>3, <1>4 DEF IInv

(* Every step preserves every conjunct of the invariant.                   *)
LEMMA InvariantStep == IInv /\ [Next]_vars => IInv'
BY TypeOKStep, CallerLocalsStep, MapShapeStep, ThreadShapeStep,
   MonitorLocalsStep, MutexShapeStep, ShutdownShapeStep, CountShapeStep,
   AbortNeedsRestartStep, JoinedMeansDoneStep, RecoveryPointsExactStep
DEF IInv

(* The inductive invariant holds in every reachable state.                 *)
THEOREM Invariance == Spec => []IInv
BY InvariantInit, InvariantStep, PTL DEF Spec

(* Type correctness.                                                       *)
THEOREM TypeCorrect == Spec => []TypeOK
<1>1. IInv => TypeOK
  BY DEF IInv
<1> QED
  BY <1>1, Invariance, PTL

(* A process whose ids are all started once never destroys a joinable      *)
(* thread, whatever starts, stops and shutdowns overlap.                   *)
THEOREM AbortNeedsRestartHolds == Spec => []AbortNeedsRestart
<1>1. IInv => AbortNeedsRestart
  BY DEF IInv
<1> QED
  BY <1>1, Invariance, PTL

(* A joined handle belongs to a thread that has ended.                     *)
THEOREM JoinedMeansDoneHolds == Spec => []JoinedMeansDone
<1>1. IInv => JoinedMeansDone
  BY DEF IInv
<1> QED
  BY <1>1, Invariance, PTL

(* A stop waits only for a thread that obeys the flag it took down.        *)
THEOREM JoinWaitsForItsOwnFlagHolds == Spec => []JoinWaitsForItsOwnFlag
<1>1. IInv => JoinWaitsForItsOwnFlag
  <2> SUFFICES ASSUME IInv, NEW c \in Callers, cpc[c] = "stop_join"
               PROVE  /\ mutex = c
                      /\ ~running[cobj[c]]
                      /\ \/ mpc[cobj[c]] \in {"lookup", "done"}
                         \/ mobj[cobj[c]] = cobj[c]
    BY DEF JoinWaitsForItsOwnFlag
  <2>1. /\ cobj[c] \in Objs /\ Created(cobj[c])
        /\ sessions[sid[cobj[c]]] = cobj[c]
        /\ mutex = c /\ ~running[cobj[c]] /\ joinable[cobj[c]]
    BY DEF IInv, CallerLocals, MutexShape
  <2>2. mpc[cobj[c]] \in Past => mobj[cobj[c]] = cobj[c]
    BY <2>1 DEF IInv, TypeOK, MonitorLocals, Created
  <2>3. mpc[cobj[c]] # "none"
    BY <2>1 DEF IInv, ThreadShape, Starting, Created
  <2> QED
    BY <2>1, <2>2, <2>3 DEF IInv, TypeOK, MonitorStates, Past
<1> QED
  BY <1>1, Invariance, PTL

(* A session started completely before a shutdown, with an id of its own,  *)
(* never uses the journal after that shutdown closed it.                   *)
THEOREM NoJournalUseAfterCloseHolds == Spec => []NoJournalUseAfterClose
<1>1. IInv => NoJournalUseAfterClose
  <2> SUFFICES ASSUME IInv, journal = "closed", NEW m \in Objs,
                      mpc[m] \in {"log", "point"}, m \notin late, ~Restarted(m)
               PROVE  FALSE
    BY DEF NoJournalUseAfterClose
  <2>1. Created(m)
    BY DEF IInv, ThreadShape
  <2> QED
    BY <2>1 DEF IInv, ShutdownShape
<1> QED
  BY <1>1, Invariance, PTL

(* Recovery points of a session with an id of its own are exactly the full *)
(* batches it has journalled.                                              *)
THEOREM RecoveryPointsExactHolds == Spec => []RecoveryPointsExact
<1>1. IInv => RecoveryPointsExact
  BY DEF IInv
<1> QED
  BY <1>1, Invariance, PTL
=============================================================================
