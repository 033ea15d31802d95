--------------------------- MODULE BackupJobProofs ---------------------------
(***************************************************************************)
(* Proofs about BackupJob for every number of handlers, jobs and rounds.   *)
(* IInv is the inductive invariant; the last part shows that the jobs      *)
(* implement JobLifecycle.                                                 *)
(***************************************************************************)
EXTENDS BackupJob, TLAPS

CancelStates == {"flag", "join", "end", "tell"}

(* A handler works under jobs_mutex_; the job it starts is the entry and   *)
(* has not run; the job it cancels has, and is the entry unless replaced.  *)
HandlerShape ==
  /\ active # NoJob /\ (\A h \in Handlers : hnew[h] = NoJob) =>
       status[active] # "PENDING"
  /\ \A h \in Handlers :
      /\ mutex = h <=> hpc[h] # "idle"
      /\ hpc[h] = "idle" => hnew[h] = NoJob
      /\ hpc[h] \in {"run", "spawn"} => hnew[h] # NoJob
      /\ hnew[h] # NoJob =>
           /\ active = hnew[h]
           /\ status[hnew[h]] = IF hpc[h] = "spawn" THEN "RUNNING" ELSE "PENDING"
      /\ hpc[h] \in CancelStates =>
           /\ hold[h] # NoJob /\ status[hold[h]] # "PENDING"
           /\ hnew[h] = NoJob => hold[h] = active

(* A worker exists from spawn on and can be joined until it has been.      *)
WorkerShape ==
  /\ \A j \in Jobs :
       /\ status[j] = "PENDING" => wpc[j] = "none"
       /\ wpc[j] = "none" =>
            \/ status[j] = "PENDING"
            \/ \E h \in Handlers : hpc[h] = "spawn" /\ hnew[h] = j
       /\ Alive(j) => joinable[j]
       /\ joinable[j] => wpc[j] # "none"
  /\ \A h \in Handlers : hpc[h] = "spawn" => wpc[hnew[h]] = "none"

(* A live worker belongs to the entry or to a job somebody is cancelling.  *)
Current ==
  \A j \in Jobs : Alive(j) =>
    \/ j = active
    \/ \E h \in Handlers : hpc[h] \in {"flag", "join"} /\ hold[h] = j

(* What the worker has stored at each of its places.                       *)
StatusShape ==
  \A j \in Jobs :
    /\ Alive(j) /\ wpc[j] # "announce" => status[j] = "RUNNING"
    /\ wpc[j] = "announce" => status[j] \in {"COMPLETED", "FAILED"}
    /\ status[j] \in Ends => wpc[j] \in {"announce", "done"}
    /\ \A h \in Handlers : hpc[h] \in {"end", "tell"} /\ hold[h] = j =>
         wpc[j] = "done" /\ (hpc[h] = "tell" => status[j] = "CANCELLED")

(* An uncancelled worker leaves its loops only at their ends.              *)
WholeShape ==
  \A j \in Jobs :
    /\ wpc[j] \in {"round", "progress", "last"} => cancelled[j] \/ Uncut(j)
    /\ wpc[j] = "progress" => rounds[j] < Rounds
    /\ wpc[j] = "last" => cancelled[j] \/ rounds[j] = Rounds
    /\ wpc[j] = "complete" => Uncut(j) /\ rounds[j] = Rounds

(* The callback has been told of the end of job j.                         *)
Closed(j) == told[j] # <<>> /\ told[j][Len(told[j])] = status[j]
Open(j) == \A i \in DOMAIN told[j] : told[j][i] = "RUNNING"

(* Only one who has just stored an end has still to tell it.               *)
ToldShape ==
  \A j \in Jobs :
    /\ status[j] = "PENDING" => told[j] = <<>>
    /\ status[j] \notin Ends => Open(j)
    /\ status[j] \in Ends =>
         \/ wpc[j] = "announce" /\ Open(j)
         \/ Open(j) /\ \E h \in Handlers : hpc[h] = "tell" /\ hold[h] = j
         \/ /\ wpc[j] = "done" /\ Closed(j)
            /\ \A h \in Handlers : hpc[h] = "tell" => hold[h] # j

IInv ==
  /\ TypeOK
  /\ HandlerShape /\ WorkerShape /\ Current /\ StatusShape
  /\ WholeShape /\ CompletedIsUncut /\ ToldShape

-----------------------------------------------------------------------------

(* What the callback can be told.                                          *)
Said == {"RUNNING"} \cup Ends

(* What is told last is last.                                              *)
LEMMA AppendLast ==
  ASSUME NEW s \in Seq(Said), NEW e \in Said
  PROVE  Append(s, e) # <<>> /\ Append(s, e)[Len(Append(s, e))] = e
OBVIOUS

(* Handlers exclude each other.                                            *)
LEMMA Exclusive ==
  ASSUME HandlerShape, NEW h \in Handlers, hpc[h] # "idle",
         NEW g \in Handlers, g # h
  PROVE  hpc[g] = "idle" /\ hnew[g] = NoJob
BY DEF HandlerShape

(* The parts of what the end of a cancel does.                             *)
Frame == UNCHANGED <<active, status, cancelled, joinable, wpc, workVars>>
SaysEnd(h) ==
  \/ hpc[h] = "end" /\ status[hold[h]] # "RUNNING" /\ told' = told
  \/ hpc[h] = "tell" /\ told' = [told EXCEPT ![hold[h]] = Append(@, "CANCELLED")]
Moves(h) ==
  /\ \A g \in Handlers \ {h} :
       hpc'[g] = hpc[g] /\ hold'[g] = hold[g] /\ hnew'[g] = hnew[g]
  /\ hnew[h] = NoJob =>
       /\ mutex' = NoHandler /\ hpc'[h] = "idle"
       /\ hold'[h] = NoJob /\ hnew'[h] = NoJob
  /\ hnew[h] # NoJob => hpc'[h] = "run" /\ UNCHANGED <<mutex, hold, hnew>>
TypedHandlers ==
  /\ mutex \in Handlers \cup {NoHandler}
  /\ hpc \in [Handlers -> HandlerStates]
  /\ hold \in [Handlers -> Jobs \cup {NoJob}]
  /\ hnew \in [Handlers -> Jobs \cup {NoJob}]

(* It changes the canceller's place and no more.                           *)
LEMMA CancelReturnEffect ==
  ASSUME TypeOK, NEW h \in Handlers, CancelReturn(h)
  PROVE  Frame /\ SaysEnd(h) /\ Moves(h) /\ TypedHandlers'
<1>1. Frame /\ SaysEnd(h)
  BY DEF Frame, SaysEnd, CancelReturn, Tell
<1>2. CASE hnew[h] = NoJob
  <2>1. Returns(h)
    BY <1>2 DEF CancelReturn
  <2>2. Moves(h) /\ TypedHandlers'
    BY <1>2, <2>1 DEF TypeOK, Moves, TypedHandlers, Returns, HandlerStates
  <2> QED
    BY <1>1, <2>2
<1>3. CASE hnew[h] # NoJob
  <2>1. Goto(h, "run") /\ UNCHANGED <<mutex, hold, hnew>>
    BY <1>3 DEF CancelReturn
  <2>2. Moves(h) /\ TypedHandlers'
    BY <1>3, <2>1 DEF TypeOK, Moves, TypedHandlers, Goto, HandlerStates
  <2> QED
    BY <1>1, <2>2
<1> QED
  BY <1>2, <1>3

(* While one handler leaves a cancel, the others are idle.                 *)
LEMMA CancelReturnAlone ==
  ASSUME TypeOK, HandlerShape, NEW h \in Handlers, CancelReturn(h)
  PROVE  /\ hpc[h] \in {"end", "tell"}
         /\ \A g \in Handlers \ {h} : hpc[g] = "idle" /\ hnew[g] = NoJob
         /\ \A g \in Handlers : hpc'[g] \in {"idle", "run"}
<1>1. hpc[h] \in {"end", "tell"} /\ Moves(h)
  BY CancelReturnEffect DEF SaysEnd
<1>2. \A g \in Handlers \ {h} : hpc[g] = "idle" /\ hnew[g] = NoJob
  BY <1>1, Exclusive
<1>3. hpc'[h] \in {"idle", "run"}
  BY <1>1 DEF Moves
<1>4. \A g \in Handlers \ {h} : hpc'[g] = "idle"
  BY <1>1, <1>2 DEF Moves
<1> QED
  BY <1>1, <1>2, <1>3, <1>4

(* Types are preserved.                                                    *)
LEMMA TypeOKStep ==
  ASSUME TypeOK, HandlerShape, WholeShape, StatusShape, [Next]_vars
  PROVE  TypeOK'
<1> USE JobAssumption
    DEF TypeOK, HandlerShape, WholeShape, HandlerStates, WorkerStates,
        CancelStates, Ends, StatusShape, Alive, Tell, Goto, Work, Returns,
        handlerVars, workVars
<1>1. ASSUME NEW h \in Handlers, NEW j \in Jobs, StartJob(h, j)
      PROVE  TypeOK'
  BY <1>1 DEF StartJob
<1>2. ASSUME NEW h \in Handlers, Run(h)
      PROVE  TypeOK'
  BY <1>2 DEF Run
<1>3. ASSUME NEW h \in Handlers, RunSpawn(h)
      PROVE  TypeOK'
  BY <1>3 DEF RunSpawn
<1>4. ASSUME NEW h \in Handlers, StopJob(h)
      PROVE  TypeOK'
  BY <1>4 DEF StopJob
<1>5. ASSUME NEW h \in Handlers, CancelFlag(h)
      PROVE  TypeOK'
  BY <1>5 DEF CancelFlag
<1>6. ASSUME NEW h \in Handlers, CancelJoin(h)
      PROVE  TypeOK'
  BY <1>6 DEF CancelJoin
<1>7. ASSUME NEW h \in Handlers, CancelEnd(h)
      PROVE  TypeOK'
  BY <1>7 DEF CancelEnd
<1>8. ASSUME NEW h \in Handlers, CancelReturn(h)
      PROVE  TypeOK'
<2>1. Frame /\ SaysEnd(h) /\ TypedHandlers'
  BY <1>8, CancelReturnEffect
<2>2. told' \in [Jobs -> Seq({"RUNNING"} \cup Ends)]
  <3>1. CASE hpc[h] = "tell"
    <4>1. hold[h] \in Jobs
      BY <3>1
    <4>2. Append(told[hold[h]], "CANCELLED") \in Seq({"RUNNING"} \cup Ends)
      BY <4>1
    <4>3. told' = [told EXCEPT ![hold[h]] = Append(told[hold[h]], "CANCELLED")]
      BY <2>1, <3>1 DEF SaysEnd
    <4> QED
      BY <4>1, <4>2, <4>3
  <3>2. CASE hpc[h] # "tell"
    BY <2>1, <3>2 DEF SaysEnd
  <3> QED
    BY <3>1, <3>2
<2> QED
  BY <2>1, <2>2 DEF Frame, TypedHandlers
<1>9. ASSUME NEW j \in Jobs, Flush(j)
      PROVE  TypeOK'
  BY <1>9 DEF Flush
<1>10. ASSUME NEW j \in Jobs, Check(j)
      PROVE  TypeOK'
  BY <1>10 DEF Check
<1>11. ASSUME NEW j \in Jobs, Scan(j)
      PROVE  TypeOK'
  BY <1>11 DEF Scan
<1>12. ASSUME NEW j \in Jobs, ScanThrows(j)
      PROVE  TypeOK'
  BY <1>12 DEF ScanThrows
<1>13. ASSUME NEW j \in Jobs, Round(j)
      PROVE  TypeOK'
  BY <1>13 DEF Round
<1>14. ASSUME NEW j \in Jobs, Progress(j)
      PROVE  TypeOK'
  BY <1>14 DEF Progress
<1>15. ASSUME NEW j \in Jobs, Last(j)
      PROVE  TypeOK'
  BY <1>15 DEF Last
<1>16. ASSUME NEW j \in Jobs, Complete(j)
      PROVE  TypeOK'
  BY <1>16 DEF Complete
<1>17. ASSUME NEW j \in Jobs, Announce(j)
      PROVE  TypeOK'
<2>1. status[j] \in {"COMPLETED", "FAILED"}
  BY <1>17 DEF Announce
<2>2. told' \in [Jobs -> Seq({"RUNNING"} \cup Ends)]
  BY <1>17, <2>1 DEF Announce
<2> QED
  BY <1>17, <2>2 DEF Announce
<1>18. CASE UNCHANGED vars
  BY <1>18 DEF vars
<1> QED
  BY <1>1, <1>2, <1>3, <1>4, <1>5, <1>6, <1>7, <1>8, <1>9,
     <1>10, <1>11, <1>12, <1>13, <1>14, <1>15, <1>16, <1>17, <1>18
  DEF Next, HandlerStep, CancelStep, WorkerStep

(* Handlers exclude each other.                                            *)
LEMMA HandlerShapeStep ==
  ASSUME TypeOK, HandlerShape, StatusShape, WorkerShape, [Next]_vars
  PROVE  HandlerShape'
<1> USE JobAssumption
    DEF TypeOK, HandlerShape, CancelStates, Ends, StatusShape,
        WorkerShape, Alive, Tell, Goto, Work, Returns, handlerVars,
        workVars
<1>1. ASSUME NEW h \in Handlers,
             Run(h) \/ RunSpawn(h) \/ StopJob(h) \/
             CancelFlag(h) \/ CancelJoin(h) \/ CancelEnd(h)
      PROVE  HandlerShape'
<2>1. CASE Run(h)
  BY <2>1 DEF Run
<2>2. CASE RunSpawn(h)
  BY <2>2 DEF RunSpawn
<2>3. CASE StopJob(h)
  BY <2>3 DEF StopJob
<2>4. CASE CancelFlag(h)
  BY <2>4 DEF CancelFlag
<2>5. CASE CancelJoin(h)
  BY <2>5 DEF CancelJoin
<2>6. CASE CancelEnd(h)
  BY <2>6 DEF CancelEnd
<2> QED
  BY <1>1, <2>1, <2>2, <2>3, <2>4, <2>5, <2>6
<1>2. ASSUME NEW j \in Jobs,
             Flush(j) \/ Check(j) \/ Scan(j) \/
             Round(j) \/ Progress(j) \/ Last(j) \/
             Announce(j)
      PROVE  HandlerShape'
  BY <1>2 DEF Flush, Check, Scan, Round,
         Progress, Last, Announce
<1>3. ASSUME NEW h \in Handlers, NEW j \in Jobs, StartJob(h, j)
      PROVE  HandlerShape'
<2>1. \A g \in Handlers : hpc[g] = "idle" /\ hnew[g] = NoJob
  BY <1>3 DEF StartJob
<2>2. active # NoJob => status[active] # "PENDING"
  BY <2>1
<2>3. CASE active = NoJob
  BY <1>3, <2>1, <2>3 DEF StartJob
<2>4. CASE active # NoJob
  BY <1>3, <2>1, <2>2, <2>4 DEF StartJob
<2> QED
  BY <2>3, <2>4
<1>4. ASSUME NEW h \in Handlers, CancelReturn(h)
      PROVE  HandlerShape'
<2>0. Frame /\ SaysEnd(h) /\ Moves(h) /\ TypedHandlers'
  BY <1>4, CancelReturnEffect
<2>1. /\ hpc[h] \in {"end", "tell"}
      /\ \A g \in Handlers \ {h} : hpc[g] = "idle" /\ hnew[g] = NoJob
  BY <1>4, CancelReturnAlone
<2>2. \A g \in Handlers : hpc'[g] \in {"idle", "run"}
  BY <1>4, CancelReturnAlone
<2>3. CASE hnew[h] = NoJob
  <3>1. active # NoJob /\ status[active] # "PENDING"
    BY <2>0, <2>3 DEF SaysEnd
  <3>2. mutex' = NoHandler /\ UNCHANGED <<active, status>>
    BY <2>0, <2>3 DEF Frame, Moves
  <3>3. \A g \in Handlers : hpc'[g] = "idle" /\ hnew'[g] = NoJob
    BY <2>0, <2>1, <2>3 DEF Moves
  <3> QED
    BY <3>1, <3>2, <3>3
<2>4. CASE hnew[h] # NoJob
  BY <2>0, <2>1, <2>4 DEF Frame, Moves, SaysEnd
<2> QED
  BY <2>3, <2>4
<1>5. ASSUME NEW j \in Jobs, ScanThrows(j)
      PROVE  HandlerShape'
<2>1. \A h \in Handlers : hnew[h] # j
  <3> SUFFICES ASSUME NEW h \in Handlers, hnew[h] = j PROVE FALSE
    OBVIOUS
  <3>1. wpc[j] = "scan" \/ wpc[j] = "complete"
    BY <1>5 DEF ScanThrows
  <3>2. hpc[h] # "spawn"
    BY <3>1
  <3>3. hnew[h] # NoJob
    BY JobAssumption
  <3>4. status[hnew[h]] = "PENDING"
    BY <3>2, <3>3
  <3> QED
    BY <3>1, <3>4
<2>2. status' = [status EXCEPT ![j] = status'[j]] /\ status'[j] \in Ends
  BY <1>5 DEF ScanThrows
<2>3. UNCHANGED <<active, mutex, hpc, hold, hnew>>
  BY <1>5 DEF ScanThrows
<2> QED
  BY <2>1, <2>2, <2>3
<1>6. ASSUME NEW j \in Jobs, Complete(j)
      PROVE  HandlerShape'
<2>1. \A h \in Handlers : hnew[h] # j
  <3> SUFFICES ASSUME NEW h \in Handlers, hnew[h] = j PROVE FALSE
    OBVIOUS
  <3>1. wpc[j] = "scan" \/ wpc[j] = "complete"
    BY <1>6 DEF Complete
  <3>2. hpc[h] # "spawn"
    BY <3>1
  <3>3. hnew[h] # NoJob
    BY JobAssumption
  <3>4. status[hnew[h]] = "PENDING"
    BY <3>2, <3>3
  <3> QED
    BY <3>1, <3>4
<2>2. status' = [status EXCEPT ![j] = status'[j]] /\ status'[j] \in Ends
  BY <1>6 DEF Complete
<2>3. UNCHANGED <<active, mutex, hpc, hold, hnew>>
  BY <1>6 DEF Complete
<2> QED
  BY <2>1, <2>2, <2>3
<1>7. CASE UNCHANGED vars
  BY <1>7 DEF vars
<1> QED
  BY <1>1, <1>2, <1>3, <1>4, <1>5, <1>6, <1>7
  DEF Next, HandlerStep, CancelStep, WorkerStep

(* A worker starts at spawn and is joined at its end.                      *)
LEMMA WorkerShapeStep ==
  ASSUME TypeOK, HandlerShape, StatusShape, WorkerShape, [Next]_vars
  PROVE  WorkerShape'
<1> USE JobAssumption
    DEF TypeOK, HandlerShape, WorkerShape, StatusShape, Alive,
        CancelStates, Ends, Tell, Goto, Work, Returns, handlerVars,
        workVars
<1>1. ASSUME NEW h \in Handlers, NEW j \in Jobs, StartJob(h, j)
      PROVE  WorkerShape'
  BY <1>1 DEF StartJob
<1>2. ASSUME NEW h \in Handlers, Run(h)
      PROVE  WorkerShape'
  BY <1>2 DEF Run
<1>3. ASSUME NEW h \in Handlers, RunSpawn(h)
      PROVE  WorkerShape'
  BY <1>3 DEF RunSpawn
<1>4. ASSUME NEW h \in Handlers, StopJob(h)
      PROVE  WorkerShape'
  BY <1>4 DEF StopJob
<1>5. ASSUME NEW h \in Handlers, CancelFlag(h)
      PROVE  WorkerShape'
  BY <1>5 DEF CancelFlag
<1>6. ASSUME NEW h \in Handlers, CancelJoin(h)
      PROVE  WorkerShape'
  BY <1>6 DEF CancelJoin
<1>7. ASSUME NEW h \in Handlers, CancelEnd(h)
      PROVE  WorkerShape'
  BY <1>7 DEF CancelEnd
<1>8. ASSUME NEW h \in Handlers, CancelReturn(h)
      PROVE  WorkerShape'
<2>0. Frame /\ SaysEnd(h) /\ Moves(h) /\ TypedHandlers'
  BY <1>8, CancelReturnEffect
<2>1. /\ hpc[h] \in {"end", "tell"}
      /\ \A g \in Handlers \ {h} : hpc[g] = "idle" /\ hnew[g] = NoJob
  BY <1>8, CancelReturnAlone
<2>2. \A g \in Handlers : hpc'[g] \in {"idle", "run"}
  BY <1>8, CancelReturnAlone
<2>3. \A g \in Handlers : hpc[g] # "spawn"
  BY <2>1
<2>4. \A g \in Handlers : hpc'[g] # "spawn"
  BY <2>2
<2> QED
  BY <2>0, <2>3, <2>4 DEF Frame
<1>9. ASSUME NEW j \in Jobs, Flush(j)
      PROVE  WorkerShape'
  BY <1>9 DEF Flush
<1>10. ASSUME NEW j \in Jobs, Check(j)
      PROVE  WorkerShape'
  BY <1>10 DEF Check
<1>11. ASSUME NEW j \in Jobs, Scan(j)
      PROVE  WorkerShape'
  BY <1>11 DEF Scan
<1>12. ASSUME NEW j \in Jobs, ScanThrows(j)
      PROVE  WorkerShape'
  BY <1>12 DEF ScanThrows
<1>13. ASSUME NEW j \in Jobs, Round(j)
      PROVE  WorkerShape'
  BY <1>13 DEF Round
<1>14. ASSUME NEW j \in Jobs, Progress(j)
      PROVE  WorkerShape'
  BY <1>14 DEF Progress
<1>15. ASSUME NEW j \in Jobs, Last(j)
      PROVE  WorkerShape'
  BY <1>15 DEF Last
<1>16. ASSUME NEW j \in Jobs, Complete(j)
      PROVE  WorkerShape'
  BY <1>16 DEF Complete
<1>17. ASSUME NEW j \in Jobs, Announce(j)
      PROVE  WorkerShape'
  BY <1>17 DEF Announce
<1>18. CASE UNCHANGED vars
  BY <1>18 DEF vars
<1> QED
  BY <1>1, <1>2, <1>3, <1>4, <1>5, <1>6, <1>7, <1>8, <1>9,
     <1>10, <1>11, <1>12, <1>13, <1>14, <1>15, <1>16, <1>17, <1>18
  DEF Next, HandlerStep, CancelStep, WorkerStep

(* A job that is replaced is joined first.                                 *)
LEMMA CurrentStep ==
  ASSUME TypeOK, HandlerShape, WorkerShape, Current, [Next]_vars
  PROVE  Current'
<1> USE JobAssumption
    DEF TypeOK, HandlerShape, WorkerShape, Current, Alive, CancelStates,
        Tell, Goto, Work, Returns, handlerVars, workVars
<1>1. ASSUME NEW h \in Handlers, NEW j \in Jobs, StartJob(h, j)
      PROVE  Current'
<2>1. \A g \in Handlers : hpc[g] = "idle"
  BY <1>1 DEF StartJob
<2>2. \A k \in Jobs : Alive(k) => k = active
  BY <2>1
<2>3. active # NoJob => hpc'[h] = "flag" /\ hold'[h] = active
  BY <1>1 DEF StartJob
<2>4. wpc' = wpc
  BY <1>1 DEF StartJob
<2> QED
  BY <2>2, <2>3, <2>4
<1>2. ASSUME NEW h \in Handlers, Run(h)
      PROVE  Current'
<2> SUFFICES ASSUME NEW k \in Jobs, Alive(k)', k # active'
             PROVE  \E g \in Handlers : hpc'[g] \in {"flag", "join"} /\ hold'[g] = k
  OBVIOUS
<2>1. Alive(k) /\ k # active
  BY <1>2 DEF Run
<2>2. PICK g \in Handlers : hpc[g] \in {"flag", "join"} /\ hold[g] = k
  BY <2>1
<2>3. hpc'[g] = hpc[g] /\ hold'[g] = k
  BY <1>2, <2>2 DEF Run
<2> QED
  BY <2>2, <2>3
<1>3. ASSUME NEW h \in Handlers, RunSpawn(h)
      PROVE  Current'
<2> SUFFICES ASSUME NEW k \in Jobs, Alive(k)', k # active'
             PROVE  \E g \in Handlers : hpc'[g] \in {"flag", "join"} /\ hold'[g] = k
  OBVIOUS
<2>1. Alive(k) /\ k # active
  BY <1>3 DEF RunSpawn
<2>2. PICK g \in Handlers : hpc[g] \in {"flag", "join"} /\ hold[g] = k
  BY <2>1
<2>3. hpc'[g] = hpc[g] /\ hold'[g] = k
  BY <1>3, <2>2 DEF RunSpawn
<2> QED
  BY <2>2, <2>3
<1>4. ASSUME NEW h \in Handlers, StopJob(h)
      PROVE  Current'
  BY <1>4 DEF StopJob
<1>5. ASSUME NEW h \in Handlers, CancelFlag(h)
      PROVE  Current'
  BY <1>5 DEF CancelFlag
<1>6. ASSUME NEW h \in Handlers, CancelJoin(h)
      PROVE  Current'
  BY <1>6 DEF CancelJoin
<1>7. ASSUME NEW h \in Handlers, CancelEnd(h)
      PROVE  Current'
<2> SUFFICES ASSUME NEW k \in Jobs, Alive(k)', k # active'
             PROVE  \E g \in Handlers : hpc'[g] \in {"flag", "join"} /\ hold'[g] = k
  OBVIOUS
<2>1. Alive(k) /\ k # active
  BY <1>7 DEF CancelEnd
<2>2. PICK g \in Handlers : hpc[g] \in {"flag", "join"} /\ hold[g] = k
  BY <2>1
<2>3. hpc'[g] = hpc[g] /\ hold'[g] = k
  BY <1>7, <2>2 DEF CancelEnd
<2> QED
  BY <2>2, <2>3
<1>8. ASSUME NEW h \in Handlers, CancelReturn(h)
      PROVE  Current'
<2> SUFFICES ASSUME NEW k \in Jobs, Alive(k)', k # active'
             PROVE  \E g \in Handlers : hpc'[g] \in {"flag", "join"} /\ hold'[g] = k
  OBVIOUS
<2>0. Frame /\ SaysEnd(h) /\ Moves(h)
  BY <1>8, CancelReturnEffect
<2>1. Alive(k) /\ k # active
  BY <2>0 DEF Frame
<2>2. PICK g \in Handlers : hpc[g] \in {"flag", "join"} /\ hold[g] = k
  BY <2>1
<2>3. hpc'[g] = hpc[g] /\ hold'[g] = k
  BY <2>0, <2>2 DEF Moves, SaysEnd
<2> QED
  BY <2>2, <2>3
<1>9. ASSUME NEW j \in Jobs, Flush(j)
      PROVE  Current'
  BY <1>9 DEF Flush
<1>10. ASSUME NEW j \in Jobs, Check(j)
      PROVE  Current'
  BY <1>10 DEF Check
<1>11. ASSUME NEW j \in Jobs, Scan(j)
      PROVE  Current'
  BY <1>11 DEF Scan
<1>12. ASSUME NEW j \in Jobs, ScanThrows(j)
      PROVE  Current'
  BY <1>12 DEF ScanThrows
<1>13. ASSUME NEW j \in Jobs, Round(j)
      PROVE  Current'
  BY <1>13 DEF Round
<1>14. ASSUME NEW j \in Jobs, Progress(j)
      PROVE  Current'
  BY <1>14 DEF Progress
<1>15. ASSUME NEW j \in Jobs, Last(j)
      PROVE  Current'
  BY <1>15 DEF Last
<1>16. ASSUME NEW j \in Jobs, Complete(j)
      PROVE  Current'
  BY <1>16 DEF Complete
<1>17. ASSUME NEW j \in Jobs, Announce(j)
      PROVE  Current'
  BY <1>17 DEF Announce
<1>18. CASE UNCHANGED vars
  BY <1>18 DEF vars
<1> QED
  BY <1>1, <1>2, <1>3, <1>4, <1>5, <1>6, <1>7, <1>8, <1>9,
     <1>10, <1>11, <1>12, <1>13, <1>14, <1>15, <1>16, <1>17, <1>18
  DEF Next, HandlerStep, CancelStep, WorkerStep

(* Only the worker, or a cancel after its end, stores an end.              *)
LEMMA StatusShapeStep ==
  ASSUME TypeOK, HandlerShape, WorkerShape, StatusShape, [Next]_vars
  PROVE  StatusShape'
<1> USE JobAssumption
    DEF TypeOK, HandlerShape, WorkerShape, StatusShape, Alive,
        CancelStates, Ends, Tell, Goto, Work, Returns, handlerVars,
        workVars
<1>1. ASSUME NEW h \in Handlers, NEW j \in Jobs,
             StartJob(h, j)
      PROVE  StatusShape'
  BY <1>1 DEF StartJob
<1>2. ASSUME NEW h \in Handlers,
             Run(h) \/ RunSpawn(h) \/ StopJob(h) \/
             CancelFlag(h) \/ CancelEnd(h)
      PROVE  StatusShape'
<2>1. CASE Run(h)
  BY <2>1 DEF Run
<2>2. CASE RunSpawn(h)
  BY <2>2 DEF RunSpawn
<2>3. CASE StopJob(h)
  BY <2>3 DEF StopJob
<2>4. CASE CancelFlag(h)
  BY <2>4 DEF CancelFlag
<2>5. CASE CancelEnd(h)
  BY <2>5 DEF CancelEnd
<2> QED
  BY <1>2, <2>1, <2>2, <2>3, <2>4, <2>5
<1>3. ASSUME NEW j \in Jobs,
             Flush(j) \/ Check(j) \/ Scan(j) \/
             ScanThrows(j) \/ Round(j) \/ Progress(j) \/
             Last(j) \/ Complete(j) \/ Announce(j)
      PROVE  StatusShape'
  BY <1>3 DEF Flush, Check, Scan, ScanThrows,
         Round, Progress, Last, Complete,
         Announce
<1>4. ASSUME NEW h \in Handlers, CancelJoin(h)
      PROVE  StatusShape'
<2>1. hold[h] \in Jobs /\ status[hold[h]] # "PENDING"
  BY <1>4 DEF CancelJoin
<2>2. \A g \in Handlers : g # h => hpc[g] = "idle"
  BY <1>4 DEF CancelJoin
<2>3. wpc[hold[h]] # "none"
  BY <1>4, <2>1, <2>2 DEF CancelJoin
<2>4. wpc[hold[h]] = "done"
  BY <1>4, <2>1, <2>3 DEF CancelJoin
<2>5. UNCHANGED <<status, wpc, hold>>
  BY <1>4 DEF CancelJoin
<2>6. \A g \in Handlers : hpc'[g] = IF g = h THEN "end" ELSE hpc[g]
  BY <1>4 DEF CancelJoin
<2> QED
  BY <2>2, <2>4, <2>5, <2>6
<1>5. ASSUME NEW h \in Handlers, CancelReturn(h)
      PROVE  StatusShape'
<2>0. Frame /\ SaysEnd(h) /\ Moves(h) /\ TypedHandlers'
  BY <1>5, CancelReturnEffect
<2>1. /\ hpc[h] \in {"end", "tell"}
      /\ \A g \in Handlers \ {h} : hpc[g] = "idle" /\ hnew[g] = NoJob
  BY <1>5, CancelReturnAlone
<2>2. \A g \in Handlers : hpc'[g] \in {"idle", "run"}
  BY <1>5, CancelReturnAlone
<2> QED
  BY <2>0, <2>2 DEF Frame
<1>6. CASE UNCHANGED vars
  BY <1>6 DEF vars
<1> QED
  BY <1>1, <1>2, <1>3, <1>4, <1>5, <1>6
  DEF Next, HandlerStep, CancelStep, WorkerStep

(* The flag never goes down again.                                         *)
LEMMA WholeShapeStep ==
  ASSUME TypeOK, WholeShape, [Next]_vars
  PROVE  WholeShape'
<1> USE JobAssumption
    DEF TypeOK, WholeShape, Uncut, Tell, Goto, Work, Returns, handlerVars,
        workVars
<1>1. ASSUME NEW h \in Handlers, NEW j \in Jobs,
             StartJob(h, j)
      PROVE  WholeShape'
  BY <1>1 DEF StartJob
<1>2. ASSUME NEW h \in Handlers,
             Run(h) \/ RunSpawn(h) \/ StopJob(h) \/
             CancelFlag(h) \/ CancelJoin(h) \/ CancelEnd(h) \/
             CancelReturn(h)
      PROVE  WholeShape'
  BY ZenonT(30), <1>2 DEF Run, RunSpawn, StopJob, CancelFlag,
         CancelJoin, CancelEnd, CancelReturn
<1>3. ASSUME NEW j \in Jobs,
             Flush(j) \/ Check(j) \/ Scan(j) \/
             ScanThrows(j) \/ Round(j) \/ Progress(j) \/
             Last(j) \/ Complete(j) \/ Announce(j)
      PROVE  WholeShape'
  BY <1>3 DEF Flush, Check, Scan, ScanThrows,
         Round, Progress, Last, Complete,
         Announce
<1>4. CASE UNCHANGED vars
  BY <1>4 DEF vars
<1> QED
  BY <1>1, <1>2, <1>3, <1>4
  DEF Next, HandlerStep, CancelStep, WorkerStep

(* COMPLETED is stored after the last look at whole loops.                 *)
LEMMA CompletedIsUncutStep ==
  ASSUME TypeOK, HandlerShape, WorkerShape, StatusShape, WholeShape, CompletedIsUncut, [Next]_vars
  PROVE  CompletedIsUncut'
<1> USE JobAssumption
    DEF TypeOK, HandlerShape, WorkerShape, StatusShape, WholeShape,
        CompletedIsUncut, Uncut, Alive, CancelStates, Ends, Tell, Goto, Work,
        Returns, handlerVars, workVars
<1>1. ASSUME NEW h \in Handlers, NEW j \in Jobs,
             StartJob(h, j)
      PROVE  CompletedIsUncut'
  BY <1>1 DEF StartJob
<1>2. ASSUME NEW h \in Handlers,
             Run(h) \/ RunSpawn(h) \/ StopJob(h) \/
             CancelFlag(h) \/ CancelJoin(h) \/ CancelEnd(h) \/
             CancelReturn(h)
      PROVE  CompletedIsUncut'
  BY <1>2 DEF Run, RunSpawn, StopJob, CancelFlag,
         CancelJoin, CancelEnd, CancelReturn
<1>3. ASSUME NEW j \in Jobs,
             Flush(j) \/ Check(j) \/ ScanThrows(j) \/
             Round(j) \/ Progress(j) \/ Last(j) \/
             Complete(j) \/ Announce(j)
      PROVE  CompletedIsUncut'
  BY <1>3 DEF Flush, Check, ScanThrows, Round,
         Progress, Last, Complete, Announce
<1>4. ASSUME NEW j \in Jobs, Scan(j)
      PROVE  CompletedIsUncut'
<2>1. status[j] # "COMPLETED"
  BY <1>4 DEF Scan
<2>2. \A k \in Jobs : k # j => size'[k] = size[k]
  BY <1>4 DEF Scan
<2> QED
  BY <1>4, <2>1, <2>2 DEF Scan
<1>5. CASE UNCHANGED vars
  BY <1>5 DEF vars
<1> QED
  BY <1>1, <1>2, <1>3, <1>4, <1>5
  DEF Next, HandlerStep, CancelStep, WorkerStep

(* Each end is told once.                                                  *)
LEMMA ToldShapeStep ==
  ASSUME TypeOK, HandlerShape, WorkerShape, StatusShape, ToldShape, [Next]_vars
  PROVE  ToldShape'
<1> USE JobAssumption
    DEF TypeOK, HandlerShape, WorkerShape, StatusShape, ToldShape, Open,
        Closed, Alive, CancelStates, Ends, Tell, Goto, Work, Returns,
        handlerVars, workVars
<1>1. ASSUME NEW h \in Handlers, NEW j \in Jobs, StartJob(h, j)
      PROVE  ToldShape'
  BY <1>1 DEF StartJob
<1>2. ASSUME NEW h \in Handlers, Run(h)
      PROVE  ToldShape'
  BY <1>2 DEF Run
<1>3. ASSUME NEW h \in Handlers, RunSpawn(h)
      PROVE  ToldShape'
  BY <1>3 DEF RunSpawn
<1>4. ASSUME NEW h \in Handlers, StopJob(h)
      PROVE  ToldShape'
  BY <1>4 DEF StopJob
<1>5. ASSUME NEW h \in Handlers, CancelFlag(h)
      PROVE  ToldShape'
  BY <1>5 DEF CancelFlag
<1>6. ASSUME NEW h \in Handlers, CancelJoin(h)
      PROVE  ToldShape'
  BY <1>6 DEF CancelJoin
<1>7. ASSUME NEW h \in Handlers, CancelEnd(h)
      PROVE  ToldShape'
  BY <1>7 DEF CancelEnd
<1>8. ASSUME NEW h \in Handlers, CancelReturn(h)
      PROVE  ToldShape'
<2>0. Frame /\ SaysEnd(h) /\ Moves(h) /\ TypedHandlers'
  BY <1>8, CancelReturnEffect
<2>1. /\ hpc[h] \in {"end", "tell"}
      /\ \A g \in Handlers \ {h} : hpc[g] = "idle" /\ hnew[g] = NoJob
  BY <1>8, CancelReturnAlone
<2>2. \A g \in Handlers : hpc'[g] \in {"idle", "run"}
  BY <1>8, CancelReturnAlone
<2>3. CASE hpc[h] = "end"
  <3>1. UNCHANGED <<told, status, wpc>>
    BY <2>0, <2>3 DEF Frame, SaysEnd
  <3>2. \A g \in Handlers : hpc[g] # "tell" /\ hpc'[g] # "tell"
    BY <2>1, <2>2, <2>3
  <3> QED
    BY <3>1, <3>2
<2>4. CASE hpc[h] = "tell"
  <3> DEFINE k == hold[h]
  <3>1. /\ k \in Jobs /\ wpc[k] = "done" /\ status[k] = "CANCELLED"
        /\ told[k] \in Seq({"RUNNING"} \cup Ends)
    BY <2>4
  <3>2. told' = [told EXCEPT ![k] = Append(told[k], "CANCELLED")]
    BY <2>0, <2>4 DEF SaysEnd
  <3>3. Append(told[k], "CANCELLED") # <<>>
        /\ Append(told[k], "CANCELLED")[Len(Append(told[k], "CANCELLED"))]
             = "CANCELLED"
    <4>1. told[k] \in Seq(Said) /\ "CANCELLED" \in Said
      BY <3>1 DEF Said
    <4> HIDE DEF TypeOK, HandlerShape, WorkerShape, StatusShape, ToldShape
    <4> QED
      BY <4>1, AppendLast
  <3>4. told'[k] = Append(told[k], "CANCELLED")
    BY <3>1, <3>2
  <3>5. \A i \in Jobs : i # k =>
          told'[i] = told[i] /\ \A g \in Handlers : hpc[g] = "tell" => hold[g] # i
    <4> HIDE DEF ToldShape, StatusShape, WorkerShape
    <4> QED
      BY <2>1, <3>1, <3>2
  <3>6. UNCHANGED <<status, wpc>> /\ \A g \in Handlers : hpc'[g] # "tell"
    BY <2>0, <2>2 DEF Frame
  <3>7. told'[k] # <<>> /\ told'[k][Len(told'[k])] = status'[k]
    BY <3>1, <3>3, <3>4, <3>6
  <3> QED
    BY <3>1, <3>5, <3>6, <3>7
<2> QED
  BY <2>0, <2>3, <2>4 DEF SaysEnd
<1>9. ASSUME NEW j \in Jobs, Flush(j)
      PROVE  ToldShape'
  BY <1>9 DEF Flush
<1>10. ASSUME NEW j \in Jobs, Check(j)
      PROVE  ToldShape'
  BY <1>10 DEF Check
<1>11. ASSUME NEW j \in Jobs, Scan(j)
      PROVE  ToldShape'
  BY <1>11 DEF Scan
<1>12. ASSUME NEW j \in Jobs, ScanThrows(j)
      PROVE  ToldShape'
  BY <1>12 DEF ScanThrows
<1>13. ASSUME NEW j \in Jobs, Round(j)
      PROVE  ToldShape'
  BY <1>13 DEF Round
<1>14. ASSUME NEW j \in Jobs, Progress(j)
      PROVE  ToldShape'
  BY <1>14 DEF Progress
<1>15. ASSUME NEW j \in Jobs, Last(j)
      PROVE  ToldShape'
  BY <1>15 DEF Last
<1>16. ASSUME NEW j \in Jobs, Complete(j)
      PROVE  ToldShape'
  BY <1>16 DEF Complete
<1>17. ASSUME NEW j \in Jobs, Announce(j)
      PROVE  ToldShape'
<2>1. /\ status[j] \in Ends /\ wpc[j] = "announce"
      /\ told[j] \in Seq({"RUNNING"} \cup Ends)
  BY <1>17 DEF Announce
<2>2. told' = [told EXCEPT ![j] = Append(told[j], status[j])]
  BY <1>17 DEF Announce
<2>3. /\ Append(told[j], status[j]) # <<>>
      /\ Append(told[j], status[j])[Len(Append(told[j], status[j]))] = status[j]
  <3>1. told[j] \in Seq(Said) /\ status[j] \in Said
    BY <2>1 DEF Said
  <3> HIDE DEF TypeOK, HandlerShape, WorkerShape, StatusShape, ToldShape
  <3> QED
    BY <3>1, AppendLast
<2>4. told'[j] = Append(told[j], status[j])
  BY <2>1, <2>2
<2>5. UNCHANGED <<status, hpc, hold>> /\ wpc'[j] = "done"
  BY <1>17 DEF Announce
<2>6. \A h \in Handlers : hpc[h] = "tell" => hold[h] # j
  BY <2>1
<2>7. \A k \in Jobs : k # j => told'[k] = told[k] /\ wpc'[k] = wpc[k]
  BY <1>17, <2>2 DEF Announce
<2> QED
  BY SMTT(20), <2>1, <2>3, <2>4, <2>5, <2>6, <2>7
<1>18. CASE UNCHANGED vars
  BY <1>18 DEF vars
<1> QED
  BY <1>1, <1>2, <1>3, <1>4, <1>5, <1>6, <1>7, <1>8, <1>9,
     <1>10, <1>11, <1>12, <1>13, <1>14, <1>15, <1>16, <1>17, <1>18
  DEF Next, HandlerStep, CancelStep, WorkerStep

-----------------------------------------------------------------------------
(* The initial state satisfies the invariant.                              *)
LEMMA InvariantInit == Init => IInv
<1> SUFFICES ASSUME Init PROVE IInv
  OBVIOUS
<1> USE JobAssumption DEF Init, Ends, Alive
<1>1. TypeOK
  BY DEF TypeOK, HandlerStates, WorkerStates
<1>2. HandlerShape /\ WorkerShape /\ Current /\ StatusShape
  BY DEF HandlerShape, WorkerShape, Current, StatusShape, CancelStates
<1>3. WholeShape /\ CompletedIsUncut /\ ToldShape
  BY DEF WholeShape, CompletedIsUncut, Uncut, ToldShape, Open, Closed
<1> QED
  BY <1>1, <1>2, <1>3 DEF IInv

(* Every step preserves every conjunct of the invariant.                   *)
LEMMA InvariantStep == IInv /\ [Next]_vars => IInv'
BY TypeOKStep, HandlerShapeStep, WorkerShapeStep, CurrentStep, StatusShapeStep,
   WholeShapeStep, CompletedIsUncutStep, ToldShapeStep
DEF IInv

(* The inductive invariant holds in every reachable state.                 *)
THEOREM Invariance == Spec => []IInv
BY InvariantInit, InvariantStep, PTL DEF Spec

(* Type correctness.                                                       *)
THEOREM TypeCorrect == Spec => []TypeOK
<1>1. IInv => TypeOK
  BY DEF IInv
<1> QED
  BY <1>1, Invariance, PTL

(* Two live workers would both be current: one of the entry, one of the    *)
(* job that START_JOB replaces; but then the entry has not run yet.        *)
THEOREM OneWorkerHolds == Spec => []OneWorker
<1>1. IInv => OneWorker
  <2> SUFFICES ASSUME IInv, NEW j \in Jobs, NEW k \in Jobs, Alive(j), Alive(k)
               PROVE  j = k
    BY DEF OneWorker
  <2> USE JobAssumption
  <2>1. HandlerShape /\ WorkerShape /\ Current
    BY DEF IInv
  <2>2. ASSUME NEW i \in Jobs, Alive(i), i # active
        PROVE  /\ ~Alive(active)
               /\ \E h \in Handlers : mutex = h /\ hold[h] = i
    <3>1. PICK h \in Handlers : hpc[h] \in {"flag", "join"} /\ hold[h] = i
      BY <2>1, <2>2 DEF Current
    <3>2. mutex = h /\ hnew[h] # NoJob /\ hnew[h] = active
      BY <2>1, <2>2, <3>1 DEF HandlerShape, CancelStates
    <3>3. status[active] = "PENDING"
      BY <2>1, <3>1, <3>2 DEF HandlerShape
    <3>4. active \in Jobs
      BY <3>2 DEF IInv, TypeOK
    <3>5. wpc[active] = "none"
      BY <2>1, <3>3, <3>4 DEF WorkerShape
    <3> QED
      BY <3>1, <3>2, <3>5 DEF Alive
  <2>3. CASE j = active /\ k = active
    BY <2>3
  <2>4. CASE j # active /\ k # active
    BY <2>2, <2>4
  <2>5. CASE j = active /\ k # active
    BY <2>2, <2>5
  <2>6. CASE j # active /\ k = active
    BY <2>2, <2>6
  <2> QED
    BY <2>3, <2>4, <2>5, <2>6
<1> QED
  BY <1>1, Invariance, PTL

(* A job reported complete was not cut short.                              *)
THEOREM CompletedIsUncutHolds == Spec => []CompletedIsUncut
<1>1. IInv => CompletedIsUncut
  BY DEF IInv
<1> QED
  BY <1>1, Invariance, PTL

-----------------------------------------------------------------------------
(* Refinement.                                                             *)

(* The initial states correspond.                                          *)
LEMMA LifecycleInit == Init => Lifecycle!Init
BY DEF Init, Lifecycle!Init

(* Each action maps to a start, an end or a call of the callback, or to no *)
(* step of the lifecycle at all.                                           *)
LEMMA LifecycleStep ==
  ASSUME IInv, [Next]_vars
  PROVE  [Lifecycle!Next]_(Lifecycle!vars)
<1> USE DEF Lifecycle!Next, Lifecycle!Start, Lifecycle!Finish, Lifecycle!Tell,
            Lifecycle!vars, Lifecycle!Ends
<1>0. TypeOK /\ HandlerShape /\ WorkerShape /\ StatusShape /\ ToldShape
  BY DEF IInv
<1>1. ASSUME NEW h \in Handlers, Run(h)
      PROVE  \E j \in Jobs : Lifecycle!Start(j)
  <2>1. hnew[h] \in Jobs /\ status[hnew[h]] = "PENDING"
    BY <1>0, <1>1 DEF TypeOK, HandlerShape, Run
  <2> QED
    BY <1>1, <2>1 DEF Run
<1>2. ASSUME NEW h \in Handlers, RunSpawn(h)
      PROVE  \E j \in Jobs : Lifecycle!Tell(j)
  <2>1. hnew[h] \in Jobs /\ status[hnew[h]] = "RUNNING"
    BY <1>0, <1>2 DEF TypeOK, HandlerShape, RunSpawn
  <2>2. Open(hnew[h])
    BY <1>0, <2>1 DEF ToldShape, Ends
  <2> QED
    BY <1>2, <2>1, <2>2 DEF RunSpawn, Tell, Open
<1>3. ASSUME NEW h \in Handlers, CancelEnd(h)
      PROVE  \E j \in Jobs : Lifecycle!Finish(j)
  <2>1. hold[h] \in Jobs
    BY <1>0, <1>3 DEF TypeOK, HandlerShape, CancelEnd, CancelStates
  <2> QED
    BY <1>3, <2>1 DEF CancelEnd
<1>4. ASSUME NEW h \in Handlers, CancelReturn(h)
      PROVE  (\E j \in Jobs : Lifecycle!Tell(j)) \/ UNCHANGED <<status, told>>
  <2>1. Frame /\ SaysEnd(h)
    BY <1>0, <1>4, CancelReturnEffect
  <2>2. CASE hpc[h] = "tell"
    <3>1. hold[h] \in Jobs /\ status[hold[h]] = "CANCELLED"
      BY <1>0, <2>2 DEF TypeOK, HandlerShape, StatusShape, CancelStates
    <3>2. Open(hold[h])
      BY <1>0, <2>2, <3>1 DEF ToldShape, Ends, StatusShape
    <3> QED
      BY <2>1, <2>2, <3>1, <3>2 DEF Frame, SaysEnd, Open
  <2>3. CASE hpc[h] # "tell"
    BY <2>1, <2>3 DEF Frame, SaysEnd
  <2> QED
    BY <2>2, <2>3
<1>5. ASSUME NEW j \in Jobs, ScanThrows(j) \/ Complete(j)
      PROVE  Lifecycle!Finish(j)
  <2>1. status[j] = "RUNNING"
    BY <1>0, <1>5 DEF StatusShape, Alive, ScanThrows, Complete
  <2> QED
    BY <1>0, <1>5, <2>1 DEF TypeOK, ScanThrows, Complete
<1>6. ASSUME NEW j \in Jobs, Progress(j)
      PROVE  Lifecycle!Tell(j)
  <2>1. status[j] = "RUNNING"
    BY <1>0, <1>6 DEF StatusShape, Alive, Progress
  <2>2. Open(j)
    BY <1>0, <2>1 DEF ToldShape, Ends
  <2> QED
    BY <1>6, <2>1, <2>2 DEF Progress, Tell, Open
<1>7. ASSUME NEW j \in Jobs, Announce(j)
      PROVE  Lifecycle!Tell(j)
  <2>1. status[j] \in Ends
    BY <1>0, <1>7 DEF StatusShape, Ends, Announce
  <2>2. Open(j) /\ status[j] # "PENDING"
    BY <1>0, <1>7, <2>1 DEF ToldShape, Announce, Ends
  <2> QED
    BY <1>7, <2>1, <2>2 DEF Announce, Tell, Open
<1>8. ASSUME NEW h \in Handlers,
             (\E j \in Jobs : StartJob(h, j)) \/ StopJob(h) \/
             CancelFlag(h) \/ CancelJoin(h)
      PROVE  UNCHANGED <<status, told>>
  BY <1>8 DEF StartJob, StopJob, CancelFlag, CancelJoin
<1>9. ASSUME NEW j \in Jobs,
             Flush(j) \/ Check(j) \/ Scan(j) \/ Round(j) \/ Last(j)
      PROVE  UNCHANGED <<status, told>>
  BY <1>9 DEF Flush, Check, Scan, Round, Last
<1>10. CASE UNCHANGED vars
  BY <1>10 DEF vars
<1> QED
  BY <1>1, <1>2, <1>3, <1>4, <1>5, <1>6, <1>7, <1>8, <1>9, <1>10
  DEF Next, HandlerStep, CancelStep, WorkerStep

(* The jobs implement the lifecycle.                                       *)
THEOREM FollowsLifecycleHolds == Spec => FollowsLifecycle
<1>1. IInv /\ [Next]_vars => [Lifecycle!Next]_(Lifecycle!vars)
  BY LifecycleStep
<1> QED
  BY LifecycleInit, <1>1, Invariance, PTL DEF Spec, FollowsLifecycle, Lifecycle!Spec

(* A handler that leaves a cancel leaves an ended, told, joined job.       *)
THEOREM StoppedMeansOverHolds == Spec => StoppedMeansOver
<1> DEFINE Over(h) ==
      hpc[h] \in {"end", "tell"} /\ hpc'[h] \in {"idle", "run"} =>
        LET j == hold[h] IN
          /\ status'[j] \in Ends
          /\ wpc'[j] \in {"none", "done"}
          /\ told'[j] # <<>> /\ told'[j][Len(told'[j])] = status'[j]
<1>1. ASSUME IInv, Next, NEW h \in Handlers, hpc[h] \in {"end", "tell"},
             hpc'[h] \in {"idle", "run"}
      PROVE  CancelReturn(h)
  BY <1>1
  DEF IInv, TypeOK, Next, HandlerStep, CancelStep, WorkerStep, HandlerShape,
      StartJob, StopJob, Run, RunSpawn, CancelFlag, CancelJoin, CancelEnd,
      CancelReturn, Flush, Check, Scan, ScanThrows, Round, Progress, Last,
      Complete, Announce, Goto, Returns, handlerVars
<1>2. ASSUME IInv, [Next]_vars, NEW h \in Handlers, CancelReturn(h)
      PROVE  Over(h)
  <2>1. Frame /\ SaysEnd(h)
    BY <1>2, CancelReturnEffect DEF IInv
  <2>2. TypeOK' /\ ToldShape' /\ StatusShape
    BY <1>2, InvariantStep DEF IInv
  <2>3. \A g \in Handlers : hpc'[g] \in {"idle", "run"}
    BY <1>2, CancelReturnAlone DEF IInv
  <2>4. hold[h] \in Jobs /\ wpc[hold[h]] = "done" /\ status[hold[h]] \in Ends
    <3>1. hold[h] \in Jobs /\ status[hold[h]] # "PENDING"
      BY <1>2, <2>1 DEF IInv, TypeOK, HandlerShape, SaysEnd, CancelStates
    <3>2. wpc[hold[h]] = "done"
      BY <2>1, <2>2, <3>1 DEF StatusShape, SaysEnd
    <3>3. status[hold[h]] # "RUNNING"
      BY <2>1, <2>2, <3>1 DEF StatusShape, SaysEnd
    <3> QED
      BY <1>2, <3>1, <3>2, <3>3 DEF IInv, TypeOK
  <2>5. status'[hold[h]] \in Ends /\ wpc'[hold[h]] = "done"
    BY <2>1, <2>4 DEF Frame
  <2>6. told'[hold[h]] # <<>>
        /\ told'[hold[h]][Len(told'[hold[h]])] = status'[hold[h]]
    <3>1. \A g \in Handlers : hpc'[g] # "tell"
      BY <2>3
    <3> QED
      BY <2>2, <2>4, <2>5, <3>1 DEF ToldShape, Closed
  <2> QED
    BY <2>5, <2>6
<1>3. IInv /\ [Next]_vars => [\A h \in Handlers : Over(h)]_vars
  BY <1>1, <1>2
<1> QED
  BY <1>3, Invariance, PTL DEF Spec, StoppedMeansOver
=============================================================================
