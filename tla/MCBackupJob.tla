---------------------------- MODULE MCBackupJob ----------------------------
(* BackupJob with two IPC threads and three jobs: a job is replaced while  *)
(* it runs and while another thread is about to stop it.                   *)
EXTENDS BackupJob
=============================================================================
