---------------------------- MODULE VmVerification ----------------------------
(***************************************************************************)
(* VmVerification (verification/vm_verification.cpp): verify() runs a      *)
(* worker thread and waits for it, cancel() raises a flag.  One object has *)
(* one flag, one result and one thread handle, and nothing keeps two       *)
(* verify() calls apart.  Booting and the checks themselves are            *)
(* placeholders that always succeed in the code.                           *)
(***************************************************************************)
CONSTANT Threads        (* the threads that call verify                    *)

VARIABLES
  caller,      (* where thread t is in verify                              *)
  run,         (* where its worker is                                      *)
  cancelled,   (* cancelled_                                               *)
  result,      (* result_: the status, and the checks recorded as passed,  *)
               (* each with the caller whose worker recorded it            *)
  handle,      (* worker_: the caller whose thread it holds, if any        *)
  terminated,  (* std::terminate ended the process                         *)
  stopped,     (* ghost: t was cancelled before its worker's last look     *)
  overlapped   (* ghost: another call was under way during this one        *)

verifyVars == <<caller, run, cancelled, result, handle, terminated, stopped,
                overlapped>>

Checks == {"boot", "network", "services", "checksum"}

Init ==
  /\ caller = [t \in Threads |-> "idle"]
  /\ run = [t \in Threads |-> "none"]
  /\ cancelled = FALSE
  /\ result = [status |-> "PENDING", passed |-> {}]
  /\ handle = {}
  /\ terminated = FALSE
  /\ stopped = [t \in Threads |-> FALSE]
  /\ overlapped = [t \in Threads |-> FALSE]

-----------------------------------------------------------------------------
(* verify *)

(* The flag is lowered first: a cancel that came before is forgotten.  What *)
(* the VmVerifyConfig of the call says is left open until it is looked at. *)
Call(t) ==
  LET others == {u \in Threads \ {t} : caller[u] # "idle"}
  IN /\ caller[t] = "idle"
     /\ cancelled' = FALSE
     /\ caller' = [caller EXCEPT ![t] = "reset"]
     /\ overlapped' = [u \in Threads |->
          overlapped[u] \/ u \in others \/ (u = t /\ others # {})]
     /\ UNCHANGED <<run, result, handle, terminated, stopped>>

Reset(t) ==
  /\ caller[t] = "reset"
  /\ caller' = [caller EXCEPT ![t] = "create"]
  /\ result' = [status |-> "RUNNING", passed |-> {}]
  /\ UNCHANGED <<run, cancelled, handle, terminated, stopped, overlapped>>

Create(t) ==
  /\ caller[t] = "create"
  /\ run' = [run EXCEPT ![t] = "boot"]
  /\ caller' = [caller EXCEPT ![t] = "assign"]
  /\ UNCHANGED <<cancelled, result, handle, terminated, stopped, overlapped>>

(* The thread already runs when worker_ = std::thread(...) finds worker_   *)
(* joinable, which terminates the process.                                 *)
Assign(t) ==
  /\ caller[t] = "assign"
  /\ terminated' = (handle # {})
  /\ handle' = {t}
  /\ caller' = [caller EXCEPT ![t] = "join"]
  /\ UNCHANGED <<run, cancelled, result, stopped, overlapped>>

Join(t) ==
  /\ caller[t] = "join"
  /\ run[t] = "over"
  /\ handle' = {}
  /\ caller' = [caller EXCEPT ![t] = "take"]
  /\ UNCHANGED <<run, cancelled, result, terminated, stopped, overlapped>>

(* The shared result is returned, whoever wrote it last.                   *)
Take(t) ==
  /\ caller[t] = "take"
  /\ caller' = [caller EXCEPT ![t] = "idle"]
  /\ run' = [run EXCEPT ![t] = "none"]
  /\ stopped' = [stopped EXCEPT ![t] = FALSE]
  /\ overlapped' = [overlapped EXCEPT ![t] = FALSE]
  /\ UNCHANGED <<cancelled, result, handle, terminated>>

Cancel ==
  /\ cancelled' = TRUE
  /\ stopped' = [t \in Threads |->
                  stopped[t] \/ (caller[t] # "idle" /\ run[t] # "over")]
  /\ UNCHANGED <<caller, run, result, handle, terminated, overlapped>>

-----------------------------------------------------------------------------
(* do_verify, each step one look at the flag and what is written on it     *)

WorkerStep(t, from, to) ==
  /\ run[t] = from
  /\ run' = [run EXCEPT ![t] = to]
  /\ UNCHANGED <<caller, cancelled, handle, terminated, stopped, overlapped>>

Boot(t) ==
  /\ WorkerStep(t, "boot", "wait")
  /\ result' = [result EXCEPT !.status = "BOOTING"]

(* check_vm_booted: one look at the clock, where inTime says that the      *)
(* timeout is positive, and one at the flag.                               *)
WaitForBoot(t, inTime) ==
  LET booted == inTime /\ ~cancelled
  IN /\ WorkerStep(t, "wait", IF booted THEN "booted" ELSE "timeout")
     /\ UNCHANGED result

Timeout(t) ==
  /\ WorkerStep(t, "timeout", "over")
  /\ result' = [result EXCEPT !.status = "TIMEOUT"]

Pass(t, check, stat) ==
  result' = [status |-> stat, passed |-> result.passed \cup {<<t, check>>}]

Booted(t) ==
  /\ WorkerStep(t, "booted", "network")
  /\ Pass(t, "boot", result.status)

(* A check that is not wanted, or comes after a cancel, is left out.       *)
Check(t, check, next, stat, wanted) ==
  /\ WorkerStep(t, check, next)
  /\ IF wanted /\ ~cancelled THEN Pass(t, check, stat) ELSE UNCHANGED result

CheckNetwork(t, wanted) == Check(t, "network", "services", "CHECKING", wanted)
CheckServices(t, wanted) ==
  Check(t, "services", "checksum", result.status, wanted)
VerifyChecksums(t) == Check(t, "checksum", "end", result.status, TRUE)

(* The four booleans of the result do not tell who set them.               *)
AllPassed == {p[2] : p \in result.passed} = Checks

(* Mutation: the worker does not look at the flag once more.               *)
FinalStatusDeaf == IF AllPassed THEN "PASSED" ELSE "FAILED"

FinalStatus == IF ~cancelled /\ AllPassed THEN "PASSED" ELSE "FAILED"

Finish(t) ==
  /\ WorkerStep(t, "end", "over")
  /\ result' = [result EXCEPT !.status = FinalStatus]

-----------------------------------------------------------------------------
Verify(t) ==
  \/ Call(t) \/ Reset(t) \/ Create(t) \/ Assign(t) \/ Join(t) \/ Take(t)

DoVerify(t) ==
  \/ Boot(t) \/ Timeout(t) \/ Booted(t) \/ VerifyChecksums(t) \/ Finish(t)
  \/ \E b \in BOOLEAN : \/ WaitForBoot(t, b)
                           \/ CheckNetwork(t, b)
                           \/ CheckServices(t, b)

Next ==
  /\ ~terminated
  /\ Cancel \/ \E t \in Threads : Verify(t) \/ DoVerify(t)

Spec == Init /\ [][Next]_verifyVars

-----------------------------------------------------------------------------
(* A call that no other overlapped returns PASSED exactly if its own       *)
(* worker made all four checks and no cancel came between the start of the *)
(* call and the worker's last look, TIMEOUT exactly if the VM was not seen *)
(* to boot, and otherwise FAILED.  A call that was overlapped may pass on  *)
(* the checks of the other, but never without all of them.  Nothing but an *)
(* overlap terminates the process.                                         *)
Returned(t) ==
  LET own == {t} \X Checks
      booted == <<t, "boot">> \in result.passed
  IN /\ result.status = "PASSED" => AllPassed
     /\ overlapped[t] \/
          /\ (result.status = "PASSED") <=> (result.passed = own /\ ~stopped[t])
          /\ (result.status = "TIMEOUT") <=> ~booted
          /\ result.status \in {"PASSED", "TIMEOUT", "FAILED"}

VerdictIsEarned ==
  [][/\ \A t \in Threads :
          caller[t] = "take" /\ caller'[t] = "idle" => Returned(t)
     /\ terminated' => \E t \in Threads : overlapped[t]]_verifyVars
=============================================================================
