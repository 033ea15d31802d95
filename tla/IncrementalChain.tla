--------------------------- MODULE IncrementalChain ---------------------------
(***************************************************************************)
(* The chain of backups: the table job_chain of BitmapManager, and the     *)
(* ChainManager that asks it whether a backup can be restored and whether  *)
(* the next one has to be a full one.                                      *)
(*                                                                         *)
(* record_job replaces the row of an id it is given again, and takes the   *)
(* length of a chain from the row of the parent, zero when there is none.  *)
(* check_chain reads the table row by row, under a lock taken each time.   *)
(* The data base is a file in /tmp, which a reboot may empty.              *)
(***************************************************************************)
EXTENDS Integers, FiniteSets

CONSTANTS
  Jobs,       (* ids of backups                                             *)
  MaxChain,   (* should_force_full: max_chain_length                        *)
  MaxDepth,   (* check_chain and verify_chain_integrity: 1000               *)
  MaxLength   (* bound: lengths that are recorded                           *)

VARIABLES
  rows,       (* job_chain                                                  *)
  check,      (* the call of check_chain: its place, job, parent and depth  *)
  answer,     (* the last answer, of whichever operation, and its job       *)
  changed,    (* history: rows were written since the check began           *)
  loose       (* history: jobs whose parent was missing when recorded, or   *)
              (* with an ancestor that is one or was recorded again         *)

chainVars == <<rows, check, answer, changed, loose>>

None == "none"
NoRow == [parent |-> None, type |-> "", length |-> 0]
Rows == [parent : Jobs \cup {None}, type : {"full", "incremental"},
         length : 0..MaxLength]
Silence == [job |-> None, says |-> "nothing"]
Idle == [at |-> "idle", job |-> None, parent |-> None, depth |-> 0]
Has(j) == rows[j] # NoRow

Init ==
  /\ rows = [j \in Jobs |-> NoRow]
  /\ check = Idle
  /\ answer = Silence
  /\ changed = FALSE
  /\ loose = {}

(* j and everything the parents lead to in table t, ids without a row      *)
(* included: the least set with j in which every parent is.                *)
Closed(t, ids) == \A k \in ids : t[k].parent \in ids \cup {None}
LineIn(t, j) ==
  {k \in Jobs : \A ids \in SUBSET Jobs :
                  j \in ids /\ Closed(t, ids) => k \in ids}
Line(j) == LineIn(rows, j)

Circular(j) == \A k \in Line(j) : rows[k].parent # None

Answer(j, says) == answer' = [job |-> j, says |-> says]

(* The answer of a check that was overtaken by a write is forgotten.       *)
Conclude(says) ==
  /\ IF changed THEN answer' = Silence ELSE Answer(answer.job, says)
  /\ check' = Idle /\ changed' = FALSE

-----------------------------------------------------------------------------
(* Mutation: the parent is looked at before the type.                      *)
CheckJobParentFirst ==
  /\ check.at = "job"
  /\ LET row == rows[check.job] IN
     IF row.parent = None THEN Conclude("full")
     ELSE IF row.type = "full" THEN Conclude("ok")
     ELSE /\ check' = [check EXCEPT !.at = "parent", !.parent = row.parent]
          /\ UNCHANGED <<answer, changed>>
  /\ UNCHANGED <<rows, loose>>

-----------------------------------------------------------------------------
(* record_job().  An insert that fails, which nobody looks at, changes     *)
(* nothing: the next job finds its parent missing.                         *)
RecordJob(j, parent, type) ==
  LET known == parent # None /\ Has(parent)
      length == IF known THEN rows[parent].length + 1 ELSE 0
      row == [parent |-> parent, type |-> type, length |-> length]
      below == {k \in Jobs \ {j} : Has(k) /\ j \in Line(k)}
      torn == parent # None /\ (~known \/ parent \in loose \cup below)
  IN  /\ length <= MaxLength
      /\ rows' = [rows EXCEPT ![j] = row]
      /\ loose' = (loose \ {j}) \cup below \cup (IF torn THEN {j} ELSE {})
      /\ changed' = (check # Idle)
      /\ answer' = IF check = Idle THEN Silence ELSE answer
      /\ UNCHANGED check

(* A reboot empties /tmp.                                                  *)
Reboot ==
  /\ rows' = [j \in Jobs |-> NoRow]
  /\ check' = Idle
  /\ answer' = Silence
  /\ changed' = FALSE
  /\ loose' = {}

(* check_chain() begins.                                                   *)
CheckChain(j) ==
  /\ check = Idle
  /\ check' = [Idle EXCEPT !.at = "job", !.job = j]
  /\ Answer(j, "nothing")
  /\ UNCHANGED <<rows, changed, loose>>

(* The row of the job in hand: a missing one has neither type nor parent.  *)
CheckJob ==
  /\ check.at = "job"
  /\ LET row == rows[check.job] IN
     IF row.type = "full" THEN Conclude("ok")
     ELSE IF row.parent = None THEN Conclude("full")
     ELSE /\ check' = [check EXCEPT !.at = "parent", !.parent = row.parent]
          /\ UNCHANGED <<answer, changed>>
  /\ UNCHANGED <<rows, loose>>

(* That of its parent, for its type alone; at the last depth all is well.  *)
CheckParent ==
  /\ check.at = "parent"
  /\ IF rows[check.parent].type = ""
     THEN Conclude("differential")
     ELSE IF check.depth + 1 = MaxDepth THEN Conclude("ok")
     ELSE /\ check' = [Idle EXCEPT !.at = "job", !.job = check.parent,
                                   !.depth = check.depth + 1]
          /\ UNCHANGED <<answer, changed>>
  /\ UNCHANGED <<rows, loose>>

(* verify_chain_integrity(), under one lock: a row for each of the first   *)
(* MaxDepth ids on the way is all it asks for, a first backup that is no   *)
(* full one included.  (In a circle every id has a row.)                   *)
VerifyChainIntegrity(j) ==
  LET way == {k \in Line(j) : Cardinality(Line(j) \ Line(k)) < MaxDepth} IN
  /\ check = Idle
  /\ Answer(j, IF \A k \in way : Has(k) THEN "intact" ELSE "broken")
  /\ UNCHANGED <<rows, check, changed, loose>>

(* should_force_full(), by the length in the row; without one nothing has  *)
(* set the length, and either may be the answer.                           *)
ShouldForceFull(j) ==
  /\ check = Idle
  /\ \E says \in {"force", "extend"} :
       /\ Has(j) => (says = "force" <=> rows[j].length >= MaxChain)
       /\ Answer(j, says)
  /\ UNCHANGED <<rows, check, changed, loose>>

Next ==
  \/ \E j \in Jobs :
       \/ RecordJob(j, None, "full")
       \/ \E p \in (Jobs \ {j}) \cup {None} : RecordJob(j, p, "incremental")
       \/ CheckChain(j) \/ VerifyChainIntegrity(j) \/ ShouldForceFull(j)
  \/ CheckJob \/ CheckParent \/ Reboot

Spec == Init /\ [][Next]_chainVars

-----------------------------------------------------------------------------
TypeOK ==
  /\ rows \in [Jobs -> Rows \cup {NoRow}]
  /\ check.job \in Jobs \cup {None} /\ check.depth \in 0..MaxDepth
  /\ changed \in BOOLEAN /\ loose \subseteq Jobs

Full(k) == rows[k].type = "full"
Bare(k) == rows[k].parent = None /\ ~Full(k)
IsShort(j) == Cardinality(Line(j)) <= MaxDepth

(* An answer holds of the chain, unless the table was written meanwhile:   *)
(* "ok" leads to a full backup or round in a circle, unless the chain is   *)
(* longer than the check looks, "full" to a job that has no parent and is  *)
(* not full, "differential" to an id without a row; "intact" says no more  *)
(* than that no row is missing, again as far as is looked, and the chain   *)
(* of a job with a row that may be extended is shorter than the limit      *)
(* unless its length was lost, when an ancestor was missing or was         *)
(* recorded again.  Of an answer that a write overtook nothing is said.    *)
AnswersHold ==
  LET j == answer.job IN
  /\ answer.says = "ok" /\ IsShort(j) => Circular(j) \/ \E k \in Line(j) : Full(k)
  /\ answer.says = "full" => \E k \in Line(j) : Bare(k)
  /\ answer.says \in {"differential", "broken"} => \E k \in Line(j) : ~Has(k)
  /\ answer.says = "intact" /\ IsShort(j) => \A k \in Line(j) : Has(k)
  /\ answer.says = "extend" /\ Has(j) =>
       j \in loose \/ Cardinality(Line(j)) <= MaxChain
=============================================================================
