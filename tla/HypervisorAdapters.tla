-------------------------- MODULE HypervisorAdapters -------------------------
(***************************************************************************)
(* What the hypervisor adapters of core/src/virtualization ask of their    *)
(* hypervisors: for each operation the requests it sends, in order.  Every *)
(* operation ignores the answers and returns true, an invented id or a     *)
(* sample, so that its requests are all of it that is seen outside.        *)
(*                                                                         *)
(* The Hyper-V adapter is that of the Linux build, which only logs.        *)
(***************************************************************************)
EXTENDS Sequences

(* A request: its verb and what it is about.                               *)
Get(what) == <<[verb |-> "GET", what |-> what]>>
Post(what) == <<[verb |-> "POST", what |-> what]>>
Delete(what) == <<[verb |-> "DELETE", what |-> what]>>
Nothing == <<>>

Subjects ==
  {"login", "logout", "vms", "qemu", "lxc", "config", "snapshots", "snapshot",
   "revert", "rollback", "start", "stop", "suspend", "hardware", "vzdump",
   "content", "resize", "move_disk", "storage"}
Requests == [verb : {"GET", "POST", "DELETE"}, what : Subjects]

(* The methods of the adapters' interface, which every adapter has.        *)
Reads == {"list_vms", "get_vm", "list_snapshots"}
Commands ==
  {"create_snapshot", "remove_snapshot", "revert_to_snapshot", "power_on",
   "power_off", "suspend"}
Transfers ==
  {"backup_vm", "restore_vm", "export_vm", "import_vm", "get_changed_blocks"}
InterfaceOperations == Reads \cup Commands \cup Transfers

(* VmBackupConfig, as far as requests depend on it.                        *)
BackupConfigs == [create_snapshot: BOOLEAN, remove_snapshot_after: BOOLEAN]

(* The session is opened when the adapter connects; VMware's is closed by  *)
(* a request, a Proxmox ticket is only forgotten.                          *)
VMwareLogin == Post("login")
VMwareLogout == Post("logout")
ProxmoxLogin == Post("login")

-----------------------------------------------------------------------------
(* Mutations.                                                              *)

(* The snapshot is removed before it is made.                              *)
VMwareBackupTurned(config) ==
  IF config.create_snapshot
  THEN (IF config.remove_snapshot_after THEN Delete("snapshot") ELSE Nothing)
       \o Post("snapshots")
  ELSE Nothing

-----------------------------------------------------------------------------
VMwareReads(op) ==
  CASE op = "list_vms" -> Get("vms")
    [] op = "get_vm" -> Nothing      (* from vm_cache_ or made up            *)
    [] op = "list_snapshots" -> Get("snapshots")

VMwareCommands(op) ==
  CASE op = "create_snapshot" -> Post("snapshots")
    [] op = "remove_snapshot" -> Delete("snapshot")
    [] op = "revert_to_snapshot" -> Post("revert")
    [] op = "power_on" -> Post("start")
    [] op = "power_off" -> Post("stop")
    [] op = "suspend" -> Post("suspend")

(* backup_vm: a snapshot is removed only if this call made it.             *)
VMwareBackup(config) ==
  IF config.create_snapshot
  THEN Post("snapshots") \o
       (IF config.remove_snapshot_after THEN Delete("snapshot") ELSE Nothing)
  ELSE Nothing

VMwareTransfers(op, config) ==
  CASE op = "backup_vm" -> VMwareBackup(config)
    [] op \in Transfers \ {"backup_vm"} -> Nothing

(* The two methods that only this adapter has.                             *)
VMwareDisks(op) ==
  CASE op = "nbd_export_disk" -> Nothing
    [] op = "hot_add_disk" -> Post("hardware")

VMwareScript(op, config) ==
  CASE op \in Reads -> VMwareReads(op)
    [] op \in Commands -> VMwareCommands(op)
    [] op \in Transfers -> VMwareTransfers(op, config)
    [] OTHER -> VMwareDisks(op)

-----------------------------------------------------------------------------
(* The containers are listed by a second request.                          *)
ProxmoxReads(op) ==
  CASE op = "list_vms" -> Get("qemu") \o Get("lxc")
    [] op = "get_vm" -> Get("config")
    [] op = "list_snapshots" -> Get("snapshots")

ProxmoxCommands(op) ==
  CASE op = "create_snapshot" -> Post("snapshots")
    [] op = "remove_snapshot" -> Delete("snapshot")
    [] op = "revert_to_snapshot" -> Post("rollback")
    [] op = "power_on" -> Post("start")
    [] op = "power_off" -> Post("stop")
    [] op = "suspend" -> Post("suspend")

(* vzdump makes and removes its own snapshot: the configuration only       *)
(* changes a parameter of the request.                                     *)
ProxmoxBackup(op) ==
  CASE op = "backup_vm" -> Post("vzdump")
    [] op \in Transfers \ {"backup_vm"} -> Nothing

ProxmoxDisks(op) ==
  CASE op = "vzdump_restore" -> Post("content")
    [] op = "resize_disk" -> Post("resize")
    [] op = "move_disk" -> Post("move_disk")
    [] op = "list_storages" -> Get("storage")

ProxmoxScript(op) ==
  CASE op \in Reads -> ProxmoxReads(op)
    [] op \in Commands -> ProxmoxCommands(op)
    [] op \in Transfers -> ProxmoxBackup(op)
    [] OTHER -> ProxmoxDisks(op)

-----------------------------------------------------------------------------
(* On Linux nothing is sent, whatever the operation.                       *)
HyperVScript(op) == Nothing
=============================================================================
