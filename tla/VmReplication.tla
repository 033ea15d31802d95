---------------------------- MODULE VmReplication ----------------------------
(***************************************************************************)
(* obs::VmReplication: one thread per replication, and the requests that   *)
(* change its status from outside.                                         *)
(*                                                                         *)
(* The status is all that joins the two, and the thread reads and writes   *)
(* it without the mutex.  It writes it once when it begins and once in     *)
(* every round, over whatever was asked for since it last looked.  The     *)
(* thread that ends is never joined and none is begun again.               *)
(***************************************************************************)
EXTENDS Integers, FiniteSets

CONSTANT Replications   (* ids: of the second of the start                  *)

VARIABLES
  program,    (* "runs", "over" once the object is gone, or "terminated"    *)
  status,     (* VmReplicationState::status                                 *)
  worker,     (* the line its thread is at                                  *)
  asked,      (* history: the last request                                  *)
  askedAt     (* history: the line the thread was at by then                *)

vmVars == <<program, status, worker, asked, askedAt>>

Statuses == {"IDLE", "INIT_SYNC", "SYNCING", "PAUSED", "FAILED",
             "FAILOVER_DONE"}
Places == {"none", "begin", "initial", "test", "test paused", "round", "sync",
           "sleep", "ended"}

Init ==
  /\ program = "runs"
  /\ status = [r \in Replications |-> "IDLE"]
  /\ worker = [r \in Replications |-> "none"]
  /\ asked = [r \in Replications |-> "nothing"]
  /\ askedAt = [r \in Replications |-> "none"]

Goto(r, place) == worker' = [worker EXCEPT ![r] = place]
Write(r, s) == status' = [status EXCEPT ![r] = s]
Keep == UNCHANGED <<program, asked, askedAt>>

-----------------------------------------------------------------------------
(* Mutation: a pause is not looked for.                                    *)
TestPausedDeaf(r) ==
  /\ worker[r] = "test paused"
  /\ Goto(r, "round")
  /\ UNCHANGED status /\ Keep

-----------------------------------------------------------------------------
(* start().  A second one in a second assigns over a thread that was not   *)
(* joined, which ends the program.                                         *)
Start(r) ==
  /\ program = "runs"
  /\ Write(r, "INIT_SYNC")
  /\ IF worker[r] = "none"
     THEN Goto(r, "begin") /\ UNCHANGED program
     ELSE program' = "terminated" /\ UNCHANGED worker
  /\ UNCHANGED <<asked, askedAt>>

(* A request writes the status under the mutex, whatever it was.           *)
Request(r, what, s) ==
  /\ program = "runs" /\ worker[r] # "none"
  /\ Write(r, s)
  /\ asked' = [asked EXCEPT ![r] = what]
  /\ askedAt' = [askedAt EXCEPT ![r] = worker[r]]
  /\ UNCHANGED <<program, worker>>

Stop(r) == Request(r, "stop", "FAILED")
Pause(r) == Request(r, "pause", "PAUSED")
Resume(r) == Request(r, "resume", "SYNCING")

(* The target is not started, and the source goes on being replicated.     *)
Failover(r) == Request(r, "failover", "FAILOVER_DONE")

(* The object is destroyed with its threads, of which none was joined.     *)
Destroy ==
  /\ program = "runs"
  /\ program' = IF \E r \in Replications : worker[r] # "none"
                THEN "terminated" ELSE "over"
  /\ UNCHANGED <<status, worker, asked, askedAt>>

-----------------------------------------------------------------------------
(* The thread.                                                             *)
Begin(r) ==
  /\ worker[r] = "begin"
  /\ Write(r, "INIT_SYNC") /\ Goto(r, "initial") /\ Keep

InitialSync(r) ==
  /\ worker[r] = "initial"
  /\ Goto(r, "test") /\ UNCHANGED status /\ Keep

(* The condition of the loop reads the status twice.                       *)
TestFailed(r) ==
  /\ worker[r] = "test"
  /\ Goto(r, IF status[r] = "FAILED" THEN "ended" ELSE "test paused")
  /\ UNCHANGED status /\ Keep

TestPaused(r) ==
  /\ worker[r] = "test paused"
  /\ Goto(r, IF status[r] = "PAUSED" THEN "ended" ELSE "round")
  /\ UNCHANGED status /\ Keep

Round(r) ==
  /\ worker[r] = "round"
  /\ Write(r, "SYNCING") /\ Goto(r, "sync") /\ Keep

(* incremental_sync() counts a megabyte; the callback; the sleep.          *)
IncrementalSync(r) ==
  /\ worker[r] = "sync"
  /\ Goto(r, "sleep") /\ UNCHANGED status /\ Keep

Sleep(r) ==
  /\ worker[r] = "sleep"
  /\ Goto(r, "test") /\ UNCHANGED status /\ Keep

Worker(r) ==
  /\ program = "runs"
  /\ \/ Begin(r) \/ InitialSync(r) \/ TestFailed(r) \/ TestPaused(r)
     \/ Round(r) \/ IncrementalSync(r) \/ Sleep(r)

Next ==
  \/ \E r \in Replications :
       \/ Start(r) \/ Stop(r) \/ Pause(r) \/ Resume(r) \/ Failover(r)
       \/ Worker(r)
  \/ Destroy

Spec == Init /\ [][Next]_vmVars

-----------------------------------------------------------------------------
TypeOK ==
  /\ program \in {"runs", "over", "terminated"}
  /\ status \in [Replications -> Statuses]
  /\ worker \in [Replications -> Places]

(* A stop or a pause is lost in three places and no other: before the      *)
(* first line of the thread, which writes over it; once a round is decided *)
(* on, which does the same; and, a stop, between the two reads of the      *)
(* condition.  Any other stays until there is another request, and no      *)
(* round begins after it.  What says that an ended replication goes on, or *)
(* that it failed over, is a request made after its end.                   *)
InTime(r) ==
  /\ asked[r] \in {"stop", "pause"} /\ askedAt[r] \notin {"begin", "round"}
  /\ asked[r] = "stop" => askedAt[r] # "test paused"
RequestIsKept ==
  program = "runs" => \A r \in Replications :
    /\ InTime(r) =>
         /\ status[r] = IF asked[r] = "stop" THEN "FAILED" ELSE "PAUSED"
         /\ worker[r] # "round"
    /\ worker[r] = "ended" =>
         \/ status[r] \in {"FAILED", "PAUSED"}
         \/ asked[r] \in {"resume", "failover"} /\ askedAt[r] = "ended"
=============================================================================
