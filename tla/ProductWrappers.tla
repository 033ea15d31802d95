--------------------------- MODULE ProductWrappers ---------------------------
(***************************************************************************)
(* What an agent of core/src/agent does to run a job, and what it answers. *)
(* An agent is that and no more: its other operations have no caller, and  *)
(* no agent but that of Linux files keeps anything.                        *)
(***************************************************************************)

(* How a job is run.                                                       *)
Tool == "runs a command and answers by its exit code"
Unheard == "runs a command, drops its exit code and answers false"
Claim == "runs nothing and answers true"
Unsaid == "runs nothing and answers false"
Scans == "reads the source, writes nothing and answers true if it exists"

Runs(how) == how \in {Tool, Unheard}

(* What may happen: whether the command worked, and the answer.            *)
Outcomes(how) ==
  CASE how \in {Tool, Scans} -> {<<TRUE, TRUE>>, <<FALSE, FALSE>>}
    [] how = Unheard -> {<<TRUE, FALSE>>, <<FALSE, FALSE>>}
    [] how = Claim -> {<<TRUE, TRUE>>}
    [] how = Unsaid -> {<<TRUE, FALSE>>}

-----------------------------------------------------------------------------
(* The adapters that agents go through: pg_basebackup or pg_dump is run,   *)
(* those of Oracle and SQL Server are placeholders.                        *)
PostgresAdapter == Tool
OracleAdapter == Claim
MsSqlAdapter == Claim

(* An agent that has the adapter fill in a result of its own, and never    *)
(* the one it answers, says false.                                         *)
NotFilledIn(how) == IF Runs(how) THEN Unheard ELSE Unsaid

EsxiAgent == Claim
ExchangeAgent == Claim
HypervAgent == Claim
KubernetesAgent == Claim
NdmpAgent == Claim
ProxmoxAgent == Claim
SapHanaAgent == Claim
WindowsFsAgent == Claim
MssqlAgent == MsSqlAdapter
OracleAgent == NotFilledIn(OracleAdapter)
PostgresqlAgent == NotFilledIn(PostgresAdapter)

(* tar; see AgentJobs.                                                     *)
LinuxFsAgent == Tool

(* DefaultBackupEngine::backup reads every file it can open.               *)
GenericAgent == Scans

Agents ==
  [generic |-> GenericAgent, esxi |-> EsxiAgent, hyperv |-> HypervAgent,
   mssql |-> MssqlAgent, postgresql |-> PostgresqlAgent,
   oracle |-> OracleAgent, proxmox |-> ProxmoxAgent,
   saphana |-> SapHanaAgent, kubernetes |-> KubernetesAgent,
   linux_fs |-> LinuxFsAgent, windows_fs |-> WindowsFsAgent,
   ndmp |-> NdmpAgent, exchange |-> ExchangeAgent]
=============================================================================
