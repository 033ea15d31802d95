----------------------------- MODULE CoreProcess -----------------------------
(***************************************************************************)
(* The core process: main and obs::Application, the socket server and its  *)
(* message router, the agent's heartbeat thread.                           *)
(*                                                                         *)
(* The main thread builds the services, polls the io_context and runs each *)
(* session, handler and job on itself.  A signal only sets g_shutdown,     *)
(* which the poll loop looks at.  run() resets running_ before it returns, *)
(* so the shutdown() of ~Application returns at once and stops nothing:    *)
(* the services that the registry knows live on, because the static        *)
(* EngineFactory shares the registry, and are destroyed by the static      *)
(* destructors, in the order of a hash table.  By then the io_context of   *)
(* the acceptor is gone, and closing it is undefined behaviour.            *)
(*                                                                         *)
(* A client is what it sends.  A job is one step: how it ends is           *)
(* AgentJobs' question.                                                    *)
(***************************************************************************)
EXTENDS Integers

CONSTANT MaxClients     (* clients that connect, in all                     *)

VARIABLES
  pc,           (* the main thread                                          *)
  running,      (* Application::running_                                    *)
  gShutdown,    (* g_shutdown                                               *)
  backlog,      (* clients that wait to be accepted                         *)
  client,       (* what the accepted client sends                           *)
  connects,     (* clients that have connected                              *)
  listening,    (* the acceptor is open                                     *)
  agentRunning, (* GenericAgent::running_                                   *)
  heartbeat,    (* the heartbeat thread                                     *)
  fresh,        (* CDP monitors that have not yet looked their session up   *)
  monitors,     (* those that have, and that ~CdpEngine will join           *)
  orphaned,     (* there is one whose session was replaced: no one joins it *)
  services,     (* what the registry holds, as far as destructors matter    *)
  farewells     (* AgentDisconnectedEvents published                        *)

mainVars == <<pc, running, gShutdown>>
ipcVars == <<backlog, client, connects, listening>>
cdpVars == <<fresh, monitors, orphaned>>
agentVars == <<agentRunning, heartbeat, farewells>>
serviceVars == <<cdpVars, agentVars, services>>
vars == <<mainVars, ipcVars, serviceVars>>

(* "ends" closes, sends too little or asks for something that changes      *)
(* nothing; "silent" sends nothing yet.                                    *)
Requests == {"silent", "ends", "START_JOB", "CDP_START"}
Ended == {"gone", "crashed"}

Init ==
  /\ pc = "subsystems" /\ running = FALSE /\ gShutdown = FALSE
  /\ backlog = {} /\ client = "none" /\ connects = 0 /\ listening = FALSE
  /\ agentRunning = FALSE /\ heartbeat = "none"
  /\ fresh = 0 /\ monitors = 0 /\ orphaned = FALSE
  /\ services = {} /\ farewells = 0

Goto(p) == pc' = p /\ UNCHANGED <<running, gShutdown>>

-----------------------------------------------------------------------------
(* Mutations.                                                              *)

(* The loop looks at running_ alone.                                       *)
EventLoopDeaf == running

-----------------------------------------------------------------------------
(* initialize(): the signal handlers are set; then the engines.            *)
InitializeSubsystems ==
  /\ pc = "subsystems"
  /\ services' = {"cdp"}
  /\ Goto("agents")
  /\ UNCHANGED <<ipcVars, cdpVars, agentVars>>

(* An unknown type becomes a generic agent.  start() begins the heartbeat. *)
InitializeAgents ==
  /\ pc = "agents"
  /\ agentRunning' = TRUE /\ heartbeat' = "post"
  /\ services' = services \cup {"agent"}
  /\ Goto("ipc")
  /\ UNCHANGED <<ipcVars, cdpVars, farewells>>

(* start() of the server binds, which may throw: main's handler returns 1  *)
(* and the destructors run all the same.                                   *)
InitializeIpc ==
  /\ pc = "ipc"
  /\ \/ /\ listening' = TRUE
        /\ services' = services \cup {"ipc"}
        /\ Goto("run")
     \/ /\ Goto("statics")
        /\ UNCHANGED <<listening, services>>
  /\ UNCHANGED <<backlog, client, connects, cdpVars, agentVars>>

Run ==
  /\ pc = "run"
  /\ running' = TRUE /\ pc' = "loop"
  /\ UNCHANGED <<gShutdown, ipcVars, serviceVars>>

LoopGoesOn == running /\ ~gShutdown

(* poll_one(): one session, begun and ended inside it, or nothing.         *)
EventLoop ==
  /\ pc = "loop" /\ LoopGoesOn /\ backlog # {}
  /\ \E c \in backlog :
       /\ backlog' = backlog \ {c}
       /\ client' = c[2]
  /\ Goto("session")
  /\ UNCHANGED <<connects, listening, serviceVars>>

(* The loop ends, run() resets running_, and ~Application calls shutdown() *)
(* in vain and destroys the io_context.                                    *)
LeaveRun ==
  /\ pc = "loop" /\ ~LoopGoesOn
  /\ running' = FALSE /\ pc' = "statics"
  /\ UNCHANGED <<gShutdown, ipcVars, serviceVars>>

-----------------------------------------------------------------------------
(* The thread reads what the client sends, under no time limit, and calls  *)
(* the handler of its type.                                                *)
HandleSession ==
  /\ pc = "session" /\ client \in {"ends", "START_JOB"}
  /\ client' = "none"
  /\ Goto(IF client = "START_JOB" THEN "job" ELSE "loop")
  /\ UNCHANGED <<backlog, connects, listening, serviceVars>>

(* start_session() with an id made of the second.  A second one in a       *)
(* second replaces the first: that destroys its thread's handle at once    *)
(* unless its monitor has looked it up and holds it, then without end.     *)
HandleCdpStart ==
  /\ pc = "session" /\ client = "CDP_START"
  /\ client' = "none"
  /\ \/ /\ fresh' = fresh + 1
        /\ Goto("loop") /\ UNCHANGED <<monitors, orphaned>>
     \/ /\ fresh > 0
        /\ Goto("crashed") /\ UNCHANGED cdpVars
     \/ /\ monitors > 0
        /\ fresh' = fresh + 1 /\ monitors' = monitors - 1 /\ orphaned' = TRUE
        /\ Goto("loop")
  /\ UNCHANGED <<backlog, connects, listening, agentVars, services>>

(* execute_job() of the agent that can take the job, or of the first; the  *)
(* answer is success whatever it returns.                                  *)
HandleStartJob ==
  /\ pc = "job"
  /\ Goto("loop")
  /\ UNCHANGED <<ipcVars, serviceVars>>

(* A client connects, and may at last send something or close.             *)
Connect ==
  /\ listening /\ pc \notin Ended /\ connects < MaxClients
  /\ connects' = connects + 1
  /\ \E r \in Requests : backlog' = backlog \cup {<<connects, r>>}
  /\ UNCHANGED <<mainVars, client, listening, serviceVars>>

Speak ==
  /\ pc = "session" /\ client = "silent"
  /\ \E r \in {"ends", "START_JOB"} : client' = r
  /\ UNCHANGED <<mainVars, backlog, connects, listening, serviceVars>>

(* SIGINT or SIGTERM.  signal() restarts the reads it interrupts.          *)
SignalHandler ==
  /\ pc \notin Ended \cup {"subsystems"} /\ ~gShutdown
  /\ gShutdown' = TRUE
  /\ UNCHANGED <<pc, running, ipcVars, serviceVars>>

-----------------------------------------------------------------------------
(* Static destruction takes the services in any order.                     *)
DestroyServer ==
  /\ pc = "statics" /\ "ipc" \in services
  /\ services' = services \ {"ipc"}
  /\ listening' = FALSE
  /\ \E next \in {"statics", "crashed"} : Goto(next)
  /\ UNCHANGED <<backlog, client, connects, cdpVars, agentVars>>

(* ~CdpEngine takes the flags down and joins its monitors with             *)
(* sessions_mutex_ held.                                                   *)
DestroyCdp ==
  /\ pc = "statics" /\ "cdp" \in services
  /\ services' = services \ {"cdp"}
  /\ Goto("join monitors")
  /\ UNCHANGED <<ipcVars, cdpVars, agentVars>>

(* A monitor finds its session, under the mutex.                           *)
MonitorLooks ==
  /\ fresh > 0 /\ pc \notin Ended \cup {"join monitors"}
  /\ fresh' = fresh - 1 /\ monitors' = monitors + 1
  /\ UNCHANGED <<mainVars, ipcVars, orphaned, agentVars, services>>

MonitorEnds ==
  /\ pc = "join monitors" /\ monitors > 0
  /\ monitors' = monitors - 1
  /\ UNCHANGED <<mainVars, ipcVars, fresh, orphaned, agentVars, services>>

(* An orphan goes on with an engine that is gone.                          *)
CdpDestroyed ==
  /\ pc = "join monitors" /\ monitors = 0 /\ fresh = 0
  /\ \/ Goto("statics")
     \/ orphaned /\ Goto("crashed")
  /\ UNCHANGED <<ipcVars, serviceVars>>

(* ~GenericAgent calls stop(): the heartbeat is joined, and those who      *)
(* subscribed are told.                                                    *)
DestroyAgent ==
  /\ pc = "statics" /\ "agent" \in services
  /\ services' = services \ {"agent"}
  /\ agentRunning' = FALSE
  /\ Goto("join heartbeat")
  /\ UNCHANGED <<ipcVars, heartbeat, cdpVars, farewells>>

AgentStopped ==
  /\ pc = "join heartbeat" /\ heartbeat = "ended"
  /\ heartbeat' = "joined"
  /\ farewells' = farewells + 1
  /\ Goto("statics")
  /\ UNCHANGED <<ipcVars, agentRunning, cdpVars, services>>

Exit ==
  /\ pc = "statics" /\ services = {}
  /\ Goto("gone")
  /\ UNCHANGED <<ipcVars, serviceVars>>

(* heartbeat_loop(): a post that takes at most ten seconds, then a wait in *)
(* slices that look at running_.                                           *)
HeartbeatPost ==
  /\ heartbeat = "post" /\ pc \notin Ended
  /\ heartbeat' = "wait"
  /\ UNCHANGED <<mainVars, ipcVars, agentRunning, farewells, cdpVars,
                 services>>

HeartbeatLoop ==
  /\ heartbeat = "wait" /\ pc \notin Ended
  /\ heartbeat' = IF agentRunning THEN "post" ELSE "ended"
  /\ UNCHANGED <<mainVars, ipcVars, agentRunning, farewells, cdpVars,
                 services>>

Main ==
  \/ InitializeSubsystems \/ InitializeAgents \/ InitializeIpc \/ Run
  \/ EventLoop \/ LeaveRun \/ HandleSession \/ HandleCdpStart \/ HandleStartJob
  \/ DestroyServer \/ DestroyCdp \/ CdpDestroyed \/ DestroyAgent
  \/ AgentStopped \/ Exit

Heartbeat == HeartbeatPost \/ HeartbeatLoop

Monitor == MonitorLooks \/ MonitorEnds

Next == Main \/ Heartbeat \/ Monitor \/ Connect \/ Speak \/ SignalHandler

Spec == Init /\ [][Next]_vars

(* Threads run, and a job returns.  Clients and signals come as they like. *)
Fairness == WF_vars(Main) /\ WF_vars(Heartbeat) /\ WF_vars(Monitor)

FairSpec == Spec /\ Fairness

-----------------------------------------------------------------------------
TypeOK ==
  /\ client \in Requests \cup {"none"} /\ connects \in 0..MaxClients
  /\ services \subseteq {"cdp", "agent", "ipc"}
  /\ fresh + monitors \in 0..MaxClients /\ farewells \in 0..1
  /\ heartbeat \in {"none", "post", "wait", "ended", "joined"}

(* A signal ends the process, unless the session in hand is that of a      *)
(* client that stays silent, or the engine is destroyed before a monitor   *)
(* has looked its session up, for which it then waits with the mutex held. *)
(* An ordinary end has joined the heartbeat and told the subscribers once. *)
SignalEndsProcess ==
  \/ <>[](client = "silent")
  \/ gShutdown ~> \/ pc = "crashed"
                  \/ pc = "join monitors" /\ fresh > 0
                  \/ pc = "gone" /\ heartbeat = "joined" /\ farewells = 1
=============================================================================
