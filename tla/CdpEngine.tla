------------------------------ MODULE CdpEngine ------------------------------
(***************************************************************************)
(* Continuous data protection: obs::CdpEngine of core/src/cdp.             *)
(*                                                                         *)
(* Callers (IPC handlers, the owner that shuts the component down) call    *)
(* start_session, stop_session and shutdown from their own threads.  Each  *)
(* start creates a Session object and a monitor thread; the monitor looks  *)
(* the object up in sessions_ by its id and then journals a block change   *)
(* per round until the object's `running' flag is down.                    *)
(*                                                                         *)
(* One action is one stretch of a thread between two points where another  *)
(* thread can act.  A region that takes sessions_mutex_, runs without      *)
(* blocking and releases it is one action; the regions that join a thread  *)
(* hold the mutex across several actions.  A Session object and the        *)
(* monitor thread its start creates share one name, a member of Objs.      *)
(***************************************************************************)
EXTENDS Integers, FiniteSets

CONSTANTS
  Callers,    (* threads that call the public methods                       *)
  Sids,       (* session ids: "cdp_<second>", a policy's id, a random id    *)
  Objs,       (* Session objects; one start_session call uses up one        *)
  NoSid,      (* the id of an object that was never created                 *)
  NoObj,      (* no object: an absent map entry, an empty local             *)
  NoCaller,   (* sessions_mutex_ is free                                    *)
  Interval,   (* blocks between two recovery points (100 in the code)       *)
  MaxBlocks   (* bound: blocks counted per object, rows journalled per id   *)

ASSUME CdpAssumption ==
  /\ NoSid \notin Sids
  /\ NoObj \notin Objs
  /\ NoCaller \notin Callers
  /\ Interval \in Nat \ {0}
  /\ MaxBlocks \in Nat

VARIABLES
  sessions,   (* the map sessions_: id -> object                            *)
  sid,        (* Session.info.session_id                                    *)
  running,    (* Session.running                                            *)
  status,     (* Session.info.status                                        *)
  blocks,     (* Session.info.blocks_tracked                                *)
  joinable,   (* Session.monitor_thread.joinable()                          *)
  mpc,        (* where the monitor thread of an object's start is           *)
  mobj,       (* the object that monitor found in sessions_                 *)
  cpc,        (* where a caller is                                          *)
  cobj,       (* the object a caller starts or joins                        *)
  todo,       (* ids whose threads a shutdown has still to join             *)
  mutex,      (* who holds sessions_mutex_ across actions                   *)
  journal,    (* journal_db_: open, or closed by shutdown                   *)
  rows,       (* rows of block_changes per session id                       *)
  points,     (* block_count values of recovery_points per session id       *)
  aborted,    (* std::terminate: a joinable std::thread was destroyed       *)
  marked,     (* history: some shutdown has taken the flags down            *)
  late        (* history: objects whose start overlapped or followed it     *)

mapVars == <<sessions, sid, running, status>>
threadVars == <<joinable, mpc, mobj>>
callerVars == <<cpc, cobj, todo>>
journalVars == <<journal, rows, points>>
history == <<marked, late>>
vars == <<mapVars, blocks, threadVars, callerVars, mutex, journalVars,
          aborted, history>>

MonitorStates == {"none", "lookup", "check", "log", "count", "point", "done"}
CallerStates ==
  {"idle", "insert", "spawn", "assign", "stop_join", "shut_lock",
   "shut_join", "shut_close"}

(* A session id is in use by more than one object: start_session was       *)
(* called twice with it (two CDP_START messages within a second).          *)
Restarted(o) == sid[o] # NoSid /\ \E p \in Objs \ {o} : sid[p] = sid[o]

Starting(o) ==
  \E c \in Callers : cobj[c] = o /\ cpc[c] \in {"insert", "spawn", "assign"}

(* Mutation of Held: the map keeps no shared_ptr.                          *)
HeldByThreadsOnly(o) ==
  Starting(o) \/ \E m \in Objs : mobj[m] = o /\ mpc[m] # "done"

(* The shared_ptrs to a Session: the map's, the starter's, the monitor's.  *)
Held(o) ==
  \/ \E s \in Sids : sessions[s] = o
  \/ Starting(o)
  \/ \E m \in Objs : mobj[m] = o /\ mpc[m] # "done"

(* Dropping the last shared_ptr destroys the Session and its std::thread.  *)
DestroysJoinable == \E o \in Objs : joinable[o] /\ ~Held(o)

Init ==
  /\ sessions = [s \in Sids |-> NoObj]
  /\ sid = [o \in Objs |-> NoSid]
  /\ running = [o \in Objs |-> FALSE]
  /\ status = [o \in Objs |-> "NONE"]
  /\ blocks = [o \in Objs |-> 0]
  /\ joinable = [o \in Objs |-> FALSE]
  /\ mpc = [o \in Objs |-> "none"]
  /\ mobj = [o \in Objs |-> NoObj]
  /\ cpc = [c \in Callers |-> "idle"]
  /\ cobj = [c \in Callers |-> NoObj]
  /\ todo = [c \in Callers |-> {}]
  /\ mutex = NoCaller
  /\ journal = "open"
  /\ rows = [s \in Sids |-> 0]
  /\ points = [s \in Sids |-> {}]
  /\ aborted = FALSE
  /\ marked = FALSE
  /\ late = {}

(* The caller returns to its own code.                                     *)
Returns(c) ==
  /\ cpc' = [cpc EXCEPT ![c] = "idle"]
  /\ cobj' = [cobj EXCEPT ![c] = NoObj]

-----------------------------------------------------------------------------
(* Mutations.  Each is what a plausible mistake would make of the          *)
(* definition it is named after; no specification below uses one.          *)

(* The flag stays up.                                                      *)
StopEnterKeepsFlag(c, s) ==
  /\ cpc[c] = "idle" /\ mutex = NoCaller /\ sessions[s] # NoObj
  /\ status' = [status EXCEPT ![sessions[s]] = "STOPPED"]
  /\ IF joinable[sessions[s]]
       THEN /\ mutex' = c
            /\ cpc' = [cpc EXCEPT ![c] = "stop_join"]
            /\ cobj' = [cobj EXCEPT ![c] = sessions[s]]
       ELSE UNCHANGED <<mutex, cpc, cobj>>
  /\ UNCHANGED <<sessions, sid, running, blocks, threadVars, todo, journalVars,
                 aborted, history>>

(* detach() where join() belongs.                                          *)
StopJoinDetaches(c) ==
  /\ cpc[c] = "stop_join"
  /\ joinable' = [joinable EXCEPT ![cobj[c]] = FALSE]
  /\ mutex' = NoCaller
  /\ Returns(c)
  /\ UNCHANGED <<mapVars, blocks, mpc, mobj, todo, journalVars, aborted,
                 history>>

(* The loop that joins breaks after any prefix of the entries.             *)
ShutdownUnlockEarly(c) ==
  /\ cpc[c] = "shut_join"
  /\ mutex' = NoCaller
  /\ cpc' = [cpc EXCEPT ![c] = "shut_close"]
  /\ todo' = [todo EXCEPT ![c] = {}]
  /\ UNCHANGED <<mapVars, blocks, threadVars, cobj, journalVars, aborted,
                 history>>

(* The loop watches the reported status, which shutdown leaves alone.      *)
MonitorExitOnStatus(m) ==
  /\ mpc[m] = "check" /\ status[mobj[m]] = "STOPPED"
  /\ mpc' = [mpc EXCEPT ![m] = "done"]
  /\ UNCHANGED <<mapVars, blocks, joinable, mobj, callerVars, mutex,
                 journalVars, history>>
  /\ aborted' = DestroysJoinable'

(* The interval is tested on the count before the increment.               *)
MonitorCountTestsOld(m) ==
  /\ mpc[m] = "count"
  /\ blocks' = [blocks EXCEPT ![mobj[m]] = @ + 1]
  /\ mpc' = [mpc EXCEPT ![m] =
               IF blocks[mobj[m]] % Interval = 0 THEN "point" ELSE "check"]
  /\ UNCHANGED <<mapVars, joinable, mobj, callerVars, mutex, journalVars,
                 aborted, history>>

-----------------------------------------------------------------------------
(* start_session                                                           *)

(* Build the Session: running, ACTIVE, not yet visible to anyone.          *)
StartCreate(c, o, s) ==
  /\ cpc[c] = "idle" /\ sid[o] = NoSid
  /\ sid' = [sid EXCEPT ![o] = s]
  /\ running' = [running EXCEPT ![o] = TRUE]
  /\ status' = [status EXCEPT ![o] = "ACTIVE"]
  /\ cpc' = [cpc EXCEPT ![c] = "insert"]
  /\ cobj' = [cobj EXCEPT ![c] = o]
  /\ late' = IF marked THEN late \cup {o} ELSE late
  /\ UNCHANGED <<sessions, blocks, threadVars, todo, mutex, journalVars,
                 aborted, marked>>

(* sessions_[sid] = session under the mutex, over whatever was there.      *)
StartInsert(c) ==
  /\ cpc[c] = "insert" /\ mutex = NoCaller
  /\ sessions' = [sessions EXCEPT ![sid[cobj[c]]] = cobj[c]]
  /\ cpc' = [cpc EXCEPT ![c] = "spawn"]
  /\ UNCHANGED <<sid, running, status, blocks, threadVars, cobj, todo, mutex,
                 journalVars, history>>
  /\ aborted' = DestroysJoinable'

(* std::thread(&monitor_loop, this, sid): the thread runs from here on.    *)
StartSpawn(c) ==
  /\ cpc[c] = "spawn"
  /\ mpc' = [mpc EXCEPT ![cobj[c]] = "lookup"]
  /\ cpc' = [cpc EXCEPT ![c] = "assign"]
  /\ UNCHANGED <<mapVars, blocks, joinable, mobj, cobj, todo, mutex,
                 journalVars, aborted, history>>

(* The handle moves into the Session without the mutex; the call returns   *)
(* and drops its shared_ptr.                                               *)
StartAssign(c) ==
  /\ cpc[c] = "assign"
  /\ joinable' = [joinable EXCEPT ![cobj[c]] = TRUE]
  /\ Returns(c)
  /\ UNCHANGED <<mapVars, blocks, mpc, mobj, todo, mutex, journalVars,
                 history>>
  /\ aborted' = DestroysJoinable'

-----------------------------------------------------------------------------
(* stop_session                                                            *)

(* Find the id, take the flag down; nothing to join unless joinable.       *)
StopEnter(c, s) ==
  /\ cpc[c] = "idle" /\ mutex = NoCaller /\ sessions[s] # NoObj
  /\ LET o == sessions[s] IN
       /\ running' = [running EXCEPT ![o] = FALSE]
       /\ status' = [status EXCEPT ![o] = "STOPPED"]
       /\ IF joinable[o]
            THEN /\ mutex' = c
                 /\ cpc' = [cpc EXCEPT ![c] = "stop_join"]
                 /\ cobj' = [cobj EXCEPT ![c] = o]
            ELSE UNCHANGED <<mutex, cpc, cobj>>
  /\ UNCHANGED <<sessions, sid, blocks, threadVars, todo, journalVars,
                 aborted, history>>

(* monitor_thread.join() returned; the mutex is released on return.        *)
StopJoin(c) ==
  /\ cpc[c] = "stop_join" /\ mpc[cobj[c]] = "done"
  /\ joinable' = [joinable EXCEPT ![cobj[c]] = FALSE]
  /\ mutex' = NoCaller
  /\ Returns(c)
  /\ UNCHANGED <<mapVars, blocks, mpc, mobj, todo, journalVars, aborted,
                 history>>

-----------------------------------------------------------------------------
(* shutdown                                                                *)

(* First locked block: every session in the map is told to stop.           *)
ShutdownMark(c) ==
  /\ cpc[c] = "idle" /\ mutex = NoCaller
  /\ running' = [o \in Objs |->
                   running[o] /\ \A s \in Sids : sessions[s] # o]
  /\ cpc' = [cpc EXCEPT ![c] = "shut_lock"]
  /\ marked' = TRUE
  /\ late' = IF marked THEN late ELSE {o \in Objs : Starting(o)}
  /\ UNCHANGED <<sessions, sid, status, blocks, threadVars, cobj, todo, mutex,
                 journalVars, aborted>>

(* Second locked block begins: it visits every entry the map has now.      *)
ShutdownLock(c) ==
  /\ cpc[c] = "shut_lock" /\ mutex = NoCaller
  /\ mutex' = c
  /\ cpc' = [cpc EXCEPT ![c] = "shut_join"]
  /\ todo' = [todo EXCEPT ![c] = {s \in Sids : sessions[s] # NoObj}]
  /\ UNCHANGED <<mapVars, blocks, threadVars, cobj, journalVars, aborted,
                 history>>

(* One entry: skipped when its handle is not joinable, joined otherwise.   *)
ShutdownJoin(c, s) ==
  /\ cpc[c] = "shut_join" /\ s \in todo[c]
  /\ joinable[sessions[s]] => mpc[sessions[s]] = "done"
  /\ joinable' = [joinable EXCEPT ![sessions[s]] = FALSE]
  /\ todo' = [todo EXCEPT ![c] = @ \ {s}]
  /\ UNCHANGED <<mapVars, blocks, mpc, mobj, cpc, cobj, mutex, journalVars,
                 aborted, history>>

(* End of the second block.                                                *)
ShutdownUnlock(c) ==
  /\ cpc[c] = "shut_join" /\ todo[c] = {}
  /\ mutex' = NoCaller
  /\ cpc' = [cpc EXCEPT ![c] = "shut_close"]
  /\ UNCHANGED <<mapVars, blocks, threadVars, cobj, todo, journalVars,
                 aborted, history>>

(* sqlite3_close under no mutex at all.                                    *)
ShutdownClose(c) ==
  /\ cpc[c] = "shut_close"
  /\ journal' = "closed"
  /\ Returns(c)
  /\ UNCHANGED <<mapVars, blocks, threadVars, todo, mutex, rows, points,
                 aborted, history>>

-----------------------------------------------------------------------------
(* monitor_loop, run by the thread that the start of object m created      *)

(* Look the id up; the entry may by now be a later object of the same id.  *)
MonitorLookup(m) ==
  /\ mpc[m] = "lookup" /\ mutex = NoCaller
  /\ mobj' = [mobj EXCEPT ![m] = sessions[sid[m]]]
  /\ mpc' = [mpc EXCEPT ![m] = IF mobj'[m] = NoObj THEN "done" ELSE "check"]
  /\ UNCHANGED <<mapVars, blocks, joinable, callerVars, mutex, journalVars,
                 aborted, history>>

(* while (session->running): another round.                                *)
MonitorRound(m) ==
  /\ mpc[m] = "check" /\ running[mobj[m]]
  /\ rows[sid[m]] < MaxBlocks /\ blocks[mobj[m]] < MaxBlocks
  /\ mpc' = [mpc EXCEPT ![m] = "log"]
  /\ UNCHANGED <<mapVars, blocks, joinable, mobj, callerVars, mutex,
                 journalVars, aborted, history>>

(* The flag is down: the thread ends and drops its shared_ptr.             *)
MonitorExit(m) ==
  /\ mpc[m] = "check" /\ ~running[mobj[m]]
  /\ mpc' = [mpc EXCEPT ![m] = "done"]
  /\ UNCHANGED <<mapVars, blocks, joinable, mobj, callerVars, mutex,
                 journalVars, history>>
  /\ aborted' = DestroysJoinable'

(* log_block_change: an INSERT; on a closed journal it stores nothing.     *)
MonitorLog(m) ==
  /\ mpc[m] = "log"
  /\ rows' = IF journal = "open" THEN [rows EXCEPT ![sid[m]] = @ + 1] ELSE rows
  /\ mpc' = [mpc EXCEPT ![m] = "count"]
  /\ UNCHANGED <<mapVars, blocks, joinable, mobj, callerVars, mutex, journal,
                 points, aborted, history>>

(* blocks_tracked++ on a plain int64: when another monitor increments the  *)
(* same object's counter at the same time, one of the two may be lost.     *)
MonitorCount(m) ==
  /\ mpc[m] = "count"
  /\ \E n \in {blocks[mobj[m]], blocks[mobj[m]] + 1} :
       /\ n = blocks[mobj[m]] =>
            \E k \in Objs \ {m} : mobj[k] = mobj[m] /\ mpc[k] = "count"
       /\ blocks' = [blocks EXCEPT ![mobj[m]] = n]
       /\ mpc' = [mpc EXCEPT ![m] = IF n % Interval = 0 THEN "point" ELSE "check"]
  /\ UNCHANGED <<mapVars, joinable, mobj, callerVars, mutex, journalVars,
                 aborted, history>>

(* create_recovery_point: the id's rows are counted, stored as a point.    *)
MonitorPoint(m) ==
  /\ mpc[m] = "point"
  /\ points' = IF journal = "open"
                 THEN [points EXCEPT ![sid[m]] = @ \cup {rows[sid[m]]}]
                 ELSE points
  /\ mpc' = [mpc EXCEPT ![m] = "check"]
  /\ UNCHANGED <<mapVars, blocks, joinable, mobj, callerVars, mutex, journal,
                 rows, aborted, history>>

-----------------------------------------------------------------------------
StartStep(c) == StartInsert(c) \/ StartSpawn(c) \/ StartAssign(c)
ShutdownStep(c) ==
  \/ ShutdownLock(c)
  \/ \E s \in Sids : ShutdownJoin(c, s)
  \/ ShutdownUnlock(c)
  \/ ShutdownClose(c)
CallerStep(c) ==
  \/ \E o \in Objs, s \in Sids : StartCreate(c, o, s)
  \/ \E s \in Sids : StopEnter(c, s)
  \/ ShutdownMark(c)
  \/ StartStep(c) \/ StopJoin(c) \/ ShutdownStep(c)

MonitorLeaves(m) ==
  MonitorExit(m) \/ MonitorLog(m) \/ MonitorCount(m) \/ MonitorPoint(m)
MonitorStep(m) == MonitorLookup(m) \/ MonitorRound(m) \/ MonitorLeaves(m)

Next ==
  /\ ~aborted
  /\ \/ \E c \in Callers : CallerStep(c)
     \/ \E m \in Objs : MonitorStep(m)

Spec == Init /\ [][Next]_vars

(* The OS runs every thread that can run.  Nobody is obliged to call       *)
(* anything, and no fairness is assumed of sessions_mutex_.                *)
Fairness ==
  /\ \A m \in Objs : WF_vars(~aborted /\ (MonitorLeaves(m) \/ MonitorRound(m)))
  /\ \A c \in Callers : WF_vars(~aborted /\ (StopJoin(c) \/ ShutdownStep(c)))

FairSpec == Spec /\ Fairness

-----------------------------------------------------------------------------
(* Every variable has its type.                                            *)
TypeOK ==
  /\ sessions \in [Sids -> Objs \cup {NoObj}]
  /\ sid \in [Objs -> Sids \cup {NoSid}]
  /\ running \in [Objs -> BOOLEAN]
  /\ status \in [Objs -> {"NONE", "ACTIVE", "STOPPED"}]
  /\ blocks \in [Objs -> Nat]
  /\ joinable \in [Objs -> BOOLEAN]
  /\ mpc \in [Objs -> MonitorStates]
  /\ mobj \in [Objs -> Objs \cup {NoObj}]
  /\ cpc \in [Callers -> CallerStates]
  /\ cobj \in [Callers -> Objs \cup {NoObj}]
  /\ todo \in [Callers -> SUBSET Sids]
  /\ mutex \in Callers \cup {NoCaller}
  /\ journal \in {"open", "closed"}
  /\ rows \in [Sids -> Nat]
  /\ points \in [Sids -> SUBSET Nat]
  /\ aborted \in BOOLEAN
  /\ marked \in BOOLEAN
  /\ late \subseteq Objs

(* The process can die of a destroyed joinable thread only after some id   *)
(* was started twice: sessions_ never erases an entry, so a Session dies   *)
(* only when a later start_session with its id replaces it.                *)
AbortNeedsRestart == aborted => \E o \in Objs : Restarted(o)

(* join() consumed the handle of a session only after its thread ended:    *)
(* once start_session has returned, a session whose handle is no longer    *)
(* joinable journals nothing more.                                         *)
JoinedMeansDone ==
  \A o \in Objs :
    sid[o] # NoSid /\ ~Starting(o) /\ ~joinable[o] => mpc[o] = "done"

(* Whoever waits in join() holds the mutex and waits for a thread that has *)
(* not looked its session up yet or that follows the very session whose    *)
(* flag the waiter took down: stop_session never waits on a thread that    *)
(* obeys some other session's flag, even when ids are reused.              *)
JoinWaitsForItsOwnFlag ==
  \A c \in Callers : cpc[c] = "stop_join" =>
    LET o == cobj[c] IN
      /\ mutex = c
      /\ ~running[o]
      /\ mpc[o] \in {"lookup", "done"} \/ mobj[o] = o

(* After shutdown closed journal_db_, only a session whose start_session   *)
(* overlapped or followed the shutdown, or whose id was started twice, can *)
(* still be in the middle of a journal access.                             *)
NoJournalUseAfterClose ==
  journal = "closed" =>
    \A m \in Objs : mpc[m] \in {"log", "point"} =>
      m \in late \/ Restarted(m)

(* The block counts at which object o must have a recovery point: the one  *)
(* its monitor is about to take is still missing.                          *)
FullBatches(o) ==
  {n \in 1..blocks[o] : n % Interval = 0}
    \ (IF mpc[o] = "point" THEN {blocks[o]} ELSE {})

(* While the journal is open, a session whose id was started once has      *)
(* exactly one journal row per counted block (one more while it is between *)
(* the two), and its recovery points are exactly the multiples of the      *)
(* interval it has passed: a recovery point never counts a partial batch.  *)
RecoveryPointsExact ==
  \A o \in Objs :
    journal = "open" /\ sid[o] # NoSid /\ ~Restarted(o) =>
      /\ rows[sid[o]] = blocks[o] + (IF mpc[o] = "count" THEN 1 ELSE 0)
      /\ points[sid[o]] = FullBatches(o)

(* stop_session returns, provided the monitor got past its lookup before   *)
(* stop_session took the mutex it holds while joining.                     *)
StopReturns ==
  \A c \in Callers :
    (cpc[c] = "stop_join" /\ mpc[cobj[c]] # "lookup")
      ~> (cpc[c] = "idle" \/ aborted)

(* shutdown returns, provided no thread of the map is before its lookup    *)
(* when it takes the mutex to join and no session it joins was started     *)
(* while or after the flags went down.                                     *)
ShutdownReturns ==
  \A c \in Callers :
    (/\ cpc[c] = "shut_join"
     /\ \A s \in todo[c] : mpc[sessions[s]] # "lookup" /\ ~Starting(sessions[s])
                           /\ ~running[sessions[s]])
      ~> (cpc[c] = "idle" \/ aborted)
=============================================================================
