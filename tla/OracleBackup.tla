----------------------------- MODULE OracleBackup -----------------------------
(***************************************************************************)
(* OracleBackup: every call writes a script whose name is the present      *)
(* second, runs rman with it and one log for all, drops rman's exit code   *)
(* and judges by what the log says.  Threads call at the same time.        *)
(*                                                                         *)
(* rman is external: it may not start; when it does it empties the log and *)
(* writes how its script went.  With no script it fails.                   *)
(***************************************************************************)
EXTENDS Integers, Sequences

CONSTANTS Threads, MaxSeconds, MaxExtras

VARIABLES
  scripts,    (* second |-> whose script the file of that name is           *)
  log,        (* what /tmp/vovqa_rman.log says                              *)
  calls,      (* per thread the call it is making                           *)
  results     (* per thread the OracleBackupResult of its call, with what   *)
              (* its rman did (history); of a call that met another, none   *)

orVars == <<scripts, log, calls, results>>

NoOne == "no one"
Seconds == 0..MaxSeconds

(* What the log can say: "rman" are errors of rman alone, "ora" those with *)
(* an ORA- of the database, "enabled" is the status of Block Change        *)
(* Tracking; a missing or empty log is as "clean" as one without errors.   *)
Failed == {"rman", "ora"}
Texts == {"clean", "enabled"} \cup Failed

(* What rman may write with the script there is; only a query says enabled.*)
Answers(script) ==
  CASE script = NoOne -> {"rman"}
    [] Head(calls[script].plan) \in {"asks", "looks"} -> Texts
    [] OTHER -> Texts \ {"enabled"}

(* Of a run of rman: its result, or that it did not start and the log      *)
(* held no error, or that it had nothing to do with the script.            *)
Runs == Texts \cup {"stale", "nothing"}

(* What a call runs in turn: a backup, a restore or an enabling of the     *)
(* tracking ("changes"), or a query ("looks").  incremental_backup() looks *)
(* at the tracking afterwards; backup_all() may ask for it before, ends    *)
(* with a failed full backup ("first"), and after a good one goes on to up *)
(* to three more, archivelog, spfile and controlfile ("extra").            *)
Extras ==
  {after \in {<<>>, <<"extra">>, <<"extra", "extra">>,
              <<"extra", "extra", "extra">>} : Len(after) <= MaxExtras}

Plans ==
  {<<"copies">>, <<"changes">>, <<"looks">>, <<"copies", "looks">>}
  \cup {before \o <<"first">> \o after : before \in {<<>>, <<"asks">>},
                                         after \in Extras}

Active(c) == calls[c].at # "idle"
NoCall ==
  [at |-> "idle", plan |-> <<>>, sec |-> 0, ran |-> "nothing", crossed |-> FALSE]

NoResult == [kind |-> "looks", fine |-> FALSE, did |-> "nothing", lost |-> FALSE]

Init ==
  /\ scripts = [s \in Seconds |-> NoOne]
  /\ log = "clean"
  /\ calls = [c \in Threads |-> NoCall]
  /\ results = [c \in Threads |-> NoResult]

-----------------------------------------------------------------------------
(* What the parsers make of the log: success is that no error is found.    *)
Fine(kind, text) ==
  CASE kind \in {"copies", "first"} -> text \notin Failed
    [] kind = "changes" -> text # "ora"
    [] OTHER -> text = "enabled"

Rest(plan, text) ==
  CASE Head(plan) = "asks" /\ text # "enabled" -> <<"helps">> \o Tail(plan)
    [] Head(plan) = "first" /\ ~Fine("first", text) -> <<>>
    [] OTHER -> Tail(plan)

(* The result of a call after one more run.  Of archivelog, spfile and     *)
(* controlfile the sizes are added up; whether one was lost is not looked  *)
(* at, and backup_all() ends with a success.                               *)
NotDone(ran) == ran \in Failed \cup {"nothing"}

Judged(result, kind, text, ran) ==
  CASE kind \in {"copies", "first", "changes"} ->
         [kind |-> kind, fine |-> Fine(kind, text), did |-> ran, lost |-> FALSE]
    [] kind = "extra" /\ result.kind = "first" ->
         [result EXCEPT !.lost = (@ \/ NotDone(ran))]
    [] OTHER -> result

-----------------------------------------------------------------------------
(* A call begins, or goes on: the script is written over whatever has the  *)
(* name of this second, which is that of another call or a later one.  The *)
(* results of earlier calls and of those it meets are forgotten.           *)
WriteScript(c) ==
  LET call == calls[c]
      others == {d \in Threads \ {c} : Active(d)}
  IN  /\ call.at = "idle"
      /\ \E plan \in IF call.plan = <<>> THEN Plans ELSE {call.plan},
            now \in Seconds :
           /\ scripts' = [scripts EXCEPT ![now] = c]
           /\ calls' = [d \in Threads |->
                CASE d = c -> [call EXCEPT !.at = "start", !.plan = plan,
                                 !.sec = now,
                                 !.crossed = (call.crossed \/ others # {})]
                  [] d \in others -> [calls[d] EXCEPT !.crossed = TRUE]
                  [] OTHER -> calls[d]]
      /\ results' = [d \in Threads |-> IF d = c /\ call.plan # <<>>
                                       THEN results[d] ELSE NoResult]
      /\ UNCHANGED log

(* rman starts and empties the log, or does not.                           *)
StartRman(c) ==
  /\ calls[c].at = "start"
  /\ \/ /\ log' = "clean"
        /\ calls' = [calls EXCEPT ![c].at = "work"]
     \/ /\ calls' = [calls EXCEPT ![c].at = "read",
                       ![c].ran = IF log \in Failed THEN "nothing" ELSE "stale"]
        /\ UNCHANGED log
  /\ UNCHANGED <<scripts, results>>

(* It ends; of what two write to one log either may be what is read.       *)
EndRman(c) ==
  LET script == scripts[calls[c].sec]
  IN  /\ calls[c].at = "work"
      /\ \E r \in Answers(script) :
           /\ log' \in {r} \cup (IF calls[c].crossed THEN {log} ELSE {})
           /\ calls' = [calls EXCEPT ![c].at = "read",
                          ![c].ran = IF script = c /\ ~calls[c].crossed THEN r
                                   ELSE "nothing"]
      /\ UNCHANGED <<scripts, results>>

(* The log is read, the script of that name removed and the text judged.   *)
ReadLog(c) ==
  LET call == calls[c]
      rest == Rest(call.plan, log)
  IN  /\ call.at = "read"
      /\ scripts' = [scripts EXCEPT ![call.sec] = NoOne]
      /\ calls' = [calls EXCEPT ![c] =
           [NoCall EXCEPT !.plan = rest,
                          !.crossed = (call.crossed /\ rest # <<>>)]]
      /\ results' = [results EXCEPT ![c] =
           IF call.crossed THEN NoResult
           ELSE Judged(results[c], Head(call.plan), log, call.ran)]
      /\ UNCHANGED log

Next ==
  \/ \E c \in Threads :
       \/ WriteScript(c) \/ StartRman(c) \/ EndRman(c) \/ ReadLog(c)

Spec == Init /\ [][Next]_orVars

-----------------------------------------------------------------------------
TypeOK ==
  /\ log \in Texts
  /\ scripts \in [Seconds -> Threads \cup {NoOne}]
  /\ \A c \in Threads : calls[c].ran \in Runs

(* A backup that met no other call is told a success only if its rman ran  *)
(* the script that copies the database without an error, or did not start  *)
(* and the log held no error of an earlier call; a restore or an enabling  *)
(* also if rman failed without an error of the database, all it looks for; *)
(* a failure only if rman failed or did not start.  What backup_all() does *)
(* after a good full backup changes nothing: it says success though a run  *)
(* for the archived logs, the parameter or the control file was lost.      *)
AloneIsToldTruly ==
  \A c \in Threads :
    LET result == results[c]
    IN  /\ ~result.fine => NotDone(result.did)
        /\ result.fine /\ NotDone(result.did) =>
             result.kind = "changes" /\ result.did # "ora"
        /\ result.lost => result.kind = "first" /\ result.fine
=============================================================================
