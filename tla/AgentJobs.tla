------------------------------ MODULE AgentJobs ------------------------------
(***************************************************************************)
(* What the START_JOB messages of one core process leave behind.  Its      *)
(* agent is of one type; every job has the same source and the same        *)
(* target, and that of LinuxFsAgent the same snapshot file of tar.         *)
(*                                                                         *)
(* Files are what is to be kept; a file that changes has to be kept again. *)
(* tar is external: it archives the files that its snapshot file does not  *)
(* know in their present version, and then knows them.                     *)
(***************************************************************************)
EXTENDS ProductWrappers

CONSTANT Files

VARIABLES
  agent,      (* config_.agent_type                                         *)
  snar,       (* /tmp/snap.snar exists                                      *)
  known,      (* files whose present version it knows                       *)
  archive,    (* files whose present version is in /tmp/backup              *)
  told,       (* BackupResult::success of the last job                      *)
  earlier,    (* history: the snapshot file was there before the last job   *)
  edited      (* history: files changed since                               *)

vars == <<agent, snar, known, archive, told, earlier, edited>>

Init ==
  /\ agent \in DOMAIN Agents
  /\ snar = FALSE /\ known = {} /\ archive = {}
  /\ told = FALSE /\ earlier = FALSE /\ edited = {}

-----------------------------------------------------------------------------
(* tar --listed-incremental=/tmp/snap.snar -czf: the archive is written    *)
(* over.  A tar that fails may have written any part of it, and the        *)
(* snapshot file.                                                          *)
BackupTarIncremental(worked) ==
  /\ archive' \in IF worked THEN {Files \ known} ELSE SUBSET (Files \ known)
  /\ \E saved \in {worked, TRUE} :
       /\ known' = IF saved THEN Files ELSE known
       /\ snar' = (snar \/ saved)
  /\ told' = worked

(* execute_job() of the agent.                                             *)
ExecuteJob ==
  /\ \E outcome \in Outcomes(Agents[agent]) :
       IF agent = "linux_fs" THEN BackupTarIncremental(outcome[1])
       ELSE /\ told' = outcome[2]
            /\ UNCHANGED <<snar, known, archive>>
  /\ earlier' = snar
  /\ edited' = {}
  /\ UNCHANGED agent

Change(f) ==
  /\ known' = known \ {f} /\ archive' = archive \ {f}
  /\ edited' = edited \cup {f}
  /\ UNCHANGED <<agent, snar, told, earlier>>

Next == ExecuteJob \/ \E f \in Files : Change(f)

Spec == Init /\ [][Next]_vars

-----------------------------------------------------------------------------
TypeOK ==
  /\ agent \in DOMAIN Agents
  /\ known \subseteq Files /\ archive \subseteq Files /\ edited \subseteq Files
  /\ {snar, told, earlier} \subseteq BOOLEAN

(* A job that is told a success by an agent that runs a command has left a *)
(* whole copy, up to later changes, if it was the first to use the         *)
(* snapshot file: any later one overwrites that copy by an increment to    *)
(* it.                                                                     *)
SuccessHasCopy ==
  told /\ Runs(Agents[agent]) /\ ~earlier => archive \cup edited = Files
=============================================================================
