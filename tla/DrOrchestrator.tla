--------------------------- MODULE DrOrchestrator ---------------------------
(***************************************************************************)
(* Disaster-recovery plans and runs: obs::DrOrchestrator (core/src/dr).    *)
(*                                                                         *)
(* Operators create, change and delete plans while runs of them are going  *)
(* on.  A call of run_plan takes a copy of its plan and goes through the   *)
(* steps, recording each in runs_ under the run's id.  Both kinds of id    *)
(* are made of the present second, so that two plans, or two runs, made in *)
(* one second share an id and the map entry behind it.  restore_vm_step    *)
(* never fails and the results of the scripts are not looked at, so every  *)
(* step is COMPLETED in the end.                                           *)
(***************************************************************************)
EXTENDS Integers, Sequences, FiniteSets, SequencesExt

CONSTANTS
  Calls,      (* calls of run_plan                                          *)
  Plans,      (* what an operator submits: a set of steps, each a record of *)
              (* vm, order, deps (depends_on) and delayed (boot delay > 0)  *)
  NoPlan,     (* no plan under an id                                        *)
  NoRun,      (* no run under an id                                         *)
  NoCall,
  MaxTime     (* bound: the last second                                     *)

ASSUME DrAssumption ==
  /\ MaxTime \in Nat
  /\ \A p \in Plans : IsFiniteSet(p)
  /\ NoCall \notin Calls

VARIABLES
  now,        (* time(nullptr)                                              *)
  plans,      (* plans_, by the second in the id                            *)
  runs,       (* runs_, by the second in the id                             *)
  pc,         (* where a call is                                            *)
  id,         (* run.run_id                                                 *)
  plan,       (* the steps of the call's copy of the plan                   *)
  step,       (* the step the call is at                                    *)
  began,      (* step_start                                                 *)
  watched,    (* the call was given a callback                              *)
  returned,   (* what run_plan returned                                     *)
  owner       (* history: the last call to enter its run under an id        *)

callVars == <<pc, id, plan, step, began, watched, returned>>
vars == <<now, plans, runs, callVars, owner>>

Times == 0..MaxTime
Vms == UNION {{s.vm : s \in p} : p \in Plans}

(* sort_steps_by_dependency: std::sort by order, in which steps of equal   *)
(* order may come out either way.                                          *)
Sorted(p) ==
  {q \in SetToSeqs(p) : \A i, j \in 1..Len(q) : i < j => q[i].order <= q[j].order}

Init ==
  /\ now = 0
  /\ plans = [t \in Times |-> NoPlan]
  /\ runs = [t \in Times |-> NoRun]
  /\ pc = [c \in Calls |-> "idle"]
  /\ id = [c \in Calls |-> 0]
  /\ plan = [c \in Calls |-> <<>>]
  /\ step = [c \in Calls |-> 1]
  /\ began = [c \in Calls |-> 0]
  /\ watched = [c \in Calls |-> FALSE]
  /\ returned = [c \in Calls |-> NoRun]
  /\ owner = [t \in Times |-> NoCall]

Tick ==
  /\ now < MaxTime
  /\ now' = now + 1
  /\ UNCHANGED <<plans, runs, callVars, owner>>

-----------------------------------------------------------------------------
(* Plans.                                                                  *)

(* A plan created in the same second as another takes its place.           *)
CreatePlan(p) ==
  /\ \E q \in Sorted(p) : plans' = [plans EXCEPT ![now] = q]
  /\ UNCHANGED <<now, runs, callVars, owner>>

UpdatePlan(t, p) ==
  /\ plans[t] # NoPlan
  /\ \E q \in Sorted(p) : plans' = [plans EXCEPT ![t] = q]
  /\ UNCHANGED <<now, runs, callVars, owner>>

DeletePlan(t) ==
  /\ plans[t] # NoPlan
  /\ plans' = [plans EXCEPT ![t] = NoPlan]
  /\ UNCHANGED <<now, runs, callVars, owner>>

-----------------------------------------------------------------------------
(* run_plan.                                                               *)

Goto(c, p) == pc' = [pc EXCEPT ![c] = p]

(* Copy the plan (one that is gone has no steps) and choose the run's id.  *)
RunPlan(c, t) ==
  /\ pc[c] = "idle"
  /\ plan' = [plan EXCEPT ![c] = IF plans[t] = NoPlan THEN <<>> ELSE plans[t]]
  /\ id' = [id EXCEPT ![c] = now]
  /\ \E w \in BOOLEAN : watched' = [watched EXCEPT ![c] = w]
  /\ Goto(c, "enter")
  /\ UNCHANGED <<now, plans, runs, step, began, returned, owner>>

(* The run enters runs_, over a run of the same id.                        *)
RunEnter(c) ==
  /\ pc[c] = "enter"
  /\ runs' = [runs EXCEPT ![id[c]] =
                [status |-> "RUNNING", steps |-> <<>>, rto |-> 0]]
  /\ owner' = [owner EXCEPT ![id[c]] = c]
  /\ Goto(c, "step")
  /\ UNCHANGED <<now, plans, id, plan, step, began, watched, returned>>

Entry(c, s, r) ==
  [call |-> c, vm |-> plan[c][step[c]].vm, status |-> s, rto |-> r]

(* A step starts: pre-script and restore.                                  *)
StepStart(c) ==
  /\ pc[c] = "step" /\ step[c] <= Len(plan[c])
  /\ began' = [began EXCEPT ![c] = now]
  /\ Goto(c, IF plan[c][step[c]].delayed THEN "boot" ELSE "end")
  /\ UNCHANGED <<now, plans, runs, id, plan, step, watched, returned, owner>>

(* The VM boots.  Whoever watches the run gets an entry that says so.      *)
StepBoot(c) ==
  /\ pc[c] = "boot"
  /\ runs' = IF watched[c]
               THEN [runs EXCEPT ![id[c]].steps = Append(@, Entry(c, "RUNNING", 0))]
               ELSE runs
  /\ Goto(c, "end")
  /\ UNCHANGED <<now, plans, id, plan, step, began, watched, returned, owner>>

(* Mutation of StepEnd: the entry of a booting VM is replaced by the next. *)
StepEndReplaces(c) ==
  /\ pc[c] = "end"
  /\ runs' = [runs EXCEPT ![id[c]].steps =
                Append(IF @ # <<>> /\ Last(@).status = "RUNNING" THEN Front(@) ELSE @,
                       Entry(c, "COMPLETED", now - began[c])),
                          ![id[c]].rto = @ + (now - began[c])]
  /\ step' = [step EXCEPT ![c] = @ + 1]
  /\ Goto(c, "step")
  /\ UNCHANGED <<now, plans, id, plan, began, watched, returned, owner>>

(* Post-script; then the step is recorded and its time added, in one lock. *)
StepEnd(c) ==
  /\ pc[c] = "end"
  /\ runs' = [runs EXCEPT ![id[c]].steps =
                Append(@, Entry(c, "COMPLETED", now - began[c])),
                          ![id[c]].rto = @ + (now - began[c])]
  /\ step' = [step EXCEPT ![c] = @ + 1]
  /\ Goto(c, "step")
  /\ UNCHANGED <<now, plans, id, plan, began, watched, returned, owner>>

(* Mutation of RunEnd: the entry is written back from a copy.              *)
RunEndWritesBack(c) ==
  /\ pc[c] = "step" /\ step[c] > Len(plan[c])
  /\ runs' = [runs EXCEPT ![id[c]] =
                [status |-> "COMPLETED", steps |-> <<>>, rto |-> 0]]
  /\ returned' = [returned EXCEPT ![c] = runs'[id[c]]]
  /\ Goto(c, "done")
  /\ UNCHANGED <<now, plans, id, plan, step, began, watched, owner>>

(* The run is COMPLETED, whatever its status was, and returned.            *)
RunEnd(c) ==
  /\ pc[c] = "step" /\ step[c] > Len(plan[c])
  /\ runs' = [runs EXCEPT ![id[c]].status = "COMPLETED"]
  /\ returned' = [returned EXCEPT ![c] = runs'[id[c]]]
  /\ Goto(c, "done")
  /\ UNCHANGED <<now, plans, id, plan, step, began, watched, owner>>

(* cancel_run changes the report; the run itself does not look at it.      *)
CancelRun(t) ==
  /\ runs[t] # NoRun
  /\ runs' = [runs EXCEPT ![t].status = "FAILED"]
  /\ UNCHANGED <<now, plans, callVars, owner>>

-----------------------------------------------------------------------------
RunStep(c) ==
  RunEnter(c) \/ StepStart(c) \/ StepBoot(c) \/ StepEnd(c) \/ RunEnd(c)

Next ==
  \/ Tick
  \/ \E p \in Plans : CreatePlan(p) \/ \E t \in Times : UpdatePlan(t, p)
  \/ \E t \in Times : DeletePlan(t) \/ CancelRun(t)
  \/ \E c \in Calls : RunStep(c) \/ \E t \in Times : RunPlan(c, t)

Spec == Init /\ [][Next]_vars

-----------------------------------------------------------------------------
Steps == UNION Plans
Results ==
  [call : Calls, vm : Vms, status : {"RUNNING", "COMPLETED"}, rto : Times]
Runs ==
  [status : {"RUNNING", "COMPLETED", "FAILED"}, steps : Seq(Results), rto : Nat]

ASSUME NoRunAssumption == NoRun \notin Runs

(* Every variable has its type.                                            *)
TypeOK ==
  /\ now \in Times
  /\ plans \in [Times -> Seq(Steps) \cup {NoPlan}]
  /\ runs \in [Times -> Runs \cup {NoRun}]
  /\ pc \in [Calls -> {"idle", "enter", "step", "boot", "end", "done"}]
  /\ id \in [Calls -> Times]
  /\ plan \in [Calls -> Seq(Steps)]
  /\ step \in [Calls -> Nat]
  /\ \A c \in Calls : step[c] \in 1..(Len(plan[c]) + 1)
  /\ began \in [Calls -> Times]
  /\ watched \in [Calls -> BOOLEAN]
  /\ returned \in [Calls -> Runs \cup {NoRun}]
  /\ owner \in [Times -> Calls \cup {NoCall}]

(* The entries a call has made by now, numbered in the order of the plan:  *)
(* 2i for the end of step i and, if somebody watches, 2i - 1 for the boot  *)
(* of a delayed one.                                                       *)
Made(c) ==
  LET Booted == {i \in 1..step[c] : i = step[c] => pc[c] = "end"}
  IN  {2 * i : i \in 1..(step[c] - 1)} \cup
      {2 * i - 1 : i \in {j \in Booted : watched[c] /\ plan[c][j].delayed}}

StepOf(n) == (n + 1) \div 2
StatusOf(n) == IF n % 2 = 0 THEN "COMPLETED" ELSE "RUNNING"

(* The places of call c's entries in the record under id t.                *)
Mine(t, c) == {k \in DOMAIN runs[t].steps : runs[t].steps[k].call = c}

Rank(S, k) == Cardinality({j \in S : j <= k})

(* The times of a record's entries, added up.                              *)
Total(s) ==
  LET sum[n \in 0..Len(s)] == IF n = 0 THEN 0 ELSE sum[n - 1] + s[n].rto
  IN  sum[Len(s)]

(* The entries of s at the places in S are those numbered T of the plan p, *)
(* in the same order: the k-th of S is the k-th of T.                      *)
InOrder(S, s, T, p) ==
  /\ Cardinality(S) = Cardinality(T)
  /\ \A k \in S, n \in T : Rank(S, k) = Rank(T, n) =>
       s[k].vm = p[StepOf(n)].vm /\ s[k].status = StatusOf(n)

(* The record under id t holds what call c has made.                       *)
Recorded(t, c) == InOrder(Mine(t, c), runs[t].steps, Made(c), plan[c])

(* However plans are changed or deleted under a run, runs are cancelled,   *)
(* and runs of the same second get into each other's record: the record    *)
(* under an id holds every step of the call that entered it last, in the   *)
(* order of the plan as it was when the call began, and its total is the   *)
(* sum of what all its entries say.                                        *)
LastRunIsRecorded ==
  /\ \A t \in Times : owner[t] # NoCall => Recorded(t, owner[t])
  /\ \A t \in Times : runs[t] # NoRun => runs[t].rto = Total(runs[t].steps)

(* No step of the system takes an entry out of a record, except a new run  *)
(* of the same second that takes the record over.                          *)
EntriesStay ==
  [][\A t \in Times :
       runs[t] # NoRun /\ owner'[t] = owner[t] =>
         IsPrefix(runs[t].steps, runs'[t].steps)]_vars

(* The comment in sort_steps_by_dependency, "Topological sort based on     *)
(* dependencies": no step of a plan comes before one it depends on.        *)
DependenciesFirst ==
  \A t \in Times : plans[t] # NoPlan =>
    \A i, j \in 1..Len(plans[t]) :
      plans[t][j].vm \in plans[t][i].deps => j < i
=============================================================================
