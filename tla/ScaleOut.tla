------------------------------- MODULE ScaleOut -------------------------------
(***************************************************************************)
(* obs::ScaleOutRepository: a repository made of extents, and where a      *)
(* write is placed.  Every method is one step under repos_mutex_; that of  *)
(* evacuate_extent() lasts over a second and moves nothing.                *)
(*                                                                         *)
(* The repositories are independent but for two things.  The id of one is  *)
(* the second of its making: a second one in a second replaces the first.  *)
(* And one counter serves the round robin of all, so the others appear     *)
(* here as turns that they take.                                           *)
(*                                                                         *)
(* A write keeps no data and no extent ever fills: used_bytes is what the  *)
(* caller gave, which may be more than total_bytes.  Sizes are cut at the  *)
(* width of their type, which a sum may pass and a difference wrap around: *)
(* a total_capacity of 0, the default, that loses an extent, or the room   *)
(* of an extent that is used beyond its size.  An extent that is offline   *)
(* or in maintenance is "away".                                            *)
(* What only reads, and rebalance(), change nothing.                       *)
(***************************************************************************)
EXTENDS Integers, Sequences, FiniteSets, SequencesExt

CONSTANTS
  ExtentIds,
  Width,        (* how many values a size has                               *)
  MaxExtents,   (* bound: extents of the repository                         *)
  MaxTurns      (* bound: the counter                                       *)

VARIABLES
  repo,       (* its policy, extents and total_capacity, or NoRepo          *)
  counter,    (* the static counter of select_extent_round_robin()          *)
  written,    (* the last write: its extent, and who was online             *)
  declared,   (* history: the capacity that was declared, less the extents  *)
              (* that were declared with it                                 *)
  turns       (* history: the extents of the turns since its extents were   *)
              (* changed or another repository took a turn                  *)

repoVars == <<repo, counter, written, declared, turns>>

(* DATA_LOCALITY is done as PERFORMANCE_TIER.                              *)
Policies == {"ROUND_ROBIN", "PERFORMANCE_TIER", "CAPACITY_TIER"}
(* One that is full is the fast one: no policy looks at both.              *)
Extent(id, used) ==
  [id |-> id, total |-> 2, used |-> used, status |-> "ONLINE", fast |-> used = 2]
Extents == {Extent(id, used) : id \in ExtentIds, used \in {1, 2, 3}}
(* What the caller of create_repo() gives.                                 *)
Declared == {<<>>} \cup {<<Extent(id, 1)>> : id \in ExtentIds}
Capacities == {0, 2}
Cut(n) == n % Width
NoRepo == [policy |-> "none", extents |-> <<>>, capacity |-> 0]
NoWrite == [extent |-> "none", online |-> {}]
Nowhere == "nowhere"   (* the empty id                                      *)
Exists == repo # NoRepo
Placed == DOMAIN repo.extents
Online == {i \in Placed : repo.extents[i].status = "ONLINE"}
IdsOf(places) == {repo.extents[i].id : i \in places}
First(places) == CHOOSE i \in places : \A k \in places : i <= k
TotalOf(extents) ==
  LET of[n \in 0..Len(extents)] ==   \* of the first n extents
        IF n = 0 THEN 0 ELSE of[n - 1] + extents[n].total
  IN  of[Len(extents)]

Init ==
  /\ repo = NoRepo
  /\ counter = 0
  /\ written = NoWrite
  /\ declared = 0
  /\ turns = <<>>

(* The histories begin anew when the extents or their use change.          *)
Forget == turns' = <<>> /\ written' = NoWrite

-----------------------------------------------------------------------------
(* Mutation: an extent that goes takes nothing with it.                    *)
CapacityWithoutKeeps(i) == repo.capacity

-----------------------------------------------------------------------------
CapacityWithout(i) == Cut(repo.capacity - repo.extents[i].total)

(* create_repo(), with the extents and the capacity that its caller gives. *)
CreateRepo(policy, extents, capacity) ==
  /\ repo' = [policy |-> policy, extents |-> extents, capacity |-> capacity]
  /\ declared' = capacity - TotalOf(extents)
  /\ Forget
  /\ UNCHANGED counter

DeleteRepo ==
  /\ Exists
  /\ repo' = NoRepo /\ declared' = 0
  /\ Forget
  /\ UNCHANGED counter

(* update_repo().                                                          *)
UpdateRepo(policy) ==
  /\ Exists
  /\ repo' = [repo EXCEPT !.policy = policy]
  /\ Forget
  /\ UNCHANGED <<counter, declared>>

(* add_extent(); the same id may be added again.                           *)
AddExtent(x) ==
  /\ Exists /\ Len(repo.extents) < MaxExtents
  /\ repo' = [repo EXCEPT !.extents = Append(@, x), !.capacity = Cut(@ + x.total)]
  /\ Forget
  /\ UNCHANGED <<counter, declared>>

(* The first that has the id.                                              *)
FirstOf(id) == First({i \in Placed : repo.extents[i].id = id})

RemoveExtent(id) ==
  /\ id \in IdsOf(Placed)
  /\ LET i == FirstOf(id) IN
       repo' = [repo EXCEPT !.extents = RemoveAt(@, i),
                            !.capacity = CapacityWithout(i)]
  /\ Forget
  /\ UNCHANGED <<counter, declared>>

SetStatus(id, status) ==
  /\ id \in IdsOf(Placed)
  /\ repo' = [repo EXCEPT !.extents[FirstOf(id)].status = status]
  /\ Forget
  /\ UNCHANGED <<counter, declared>>

(* evacuate_extent(), if there is another one online; nothing is moved.    *)
EvacuateExtent(id) ==
  /\ IdsOf(Online) \ {id} # {}
  /\ SetStatus(id, "away")

SetMaintenanceMode(id) ==
  \E status \in {"away", "ONLINE"} : SetStatus(id, status)

-----------------------------------------------------------------------------
Place(id) == written' = [extent |-> id, online |-> IdsOf(Online)]

(* select_extent_round_robin(): the next of those that are online.         *)
InTurn ==
  CHOOSE i \in Online :
    Cardinality({k \in Online : k < i}) = counter % Cardinality(Online)

RoundRobin ==
  IF Online = {} THEN Place(Nowhere) /\ UNCHANGED <<counter, turns>>
  ELSE LET id == repo.extents[InTurn].id
       IN  /\ counter < MaxTurns
           /\ counter' = counter + 1
           /\ turns' = Append(turns, id)
           /\ Place(id)

Fast == {i \in Online : repo.extents[i].fast}
Room(i) == Cut(repo.extents[i].total - repo.extents[i].used)
Roomiest ==
  {i \in Online : Room(i) > 0 /\ \A k \in Online : Room(k) <= Room(i)}

(* write(), which answers a success wherever the extent was chosen: in     *)
(* turn,                                                                   *)
WriteInTurn ==
  /\ \/ repo.policy = "ROUND_ROBIN"
     \/ repo.policy = "PERFORMANCE_TIER" /\ Fast = {}
  /\ RoundRobin
  /\ UNCHANGED <<repo, declared>>

(* the first fast one, if there is one,                                    *)
WriteToFast ==
  /\ repo.policy = "PERFORMANCE_TIER" /\ Fast # {}
  /\ Place(repo.extents[First(Fast)].id)
  /\ UNCHANGED <<repo, counter, declared, turns>>

(* or the one with the most space left, none if none has any.              *)
WriteToRoomy ==
  /\ repo.policy = "CAPACITY_TIER"
  /\ Place(IF Roomiest = {} THEN Nowhere ELSE repo.extents[First(Roomiest)].id)
  /\ UNCHANGED <<repo, counter, declared, turns>>

(* Another repository writes in turn.                                      *)
AnotherWrites ==
  /\ counter < MaxTurns
  /\ counter' = counter + 1
  /\ turns' = <<>>
  /\ UNCHANGED <<repo, written, declared>>

Next ==
  \/ \E policy \in Policies :
       \/ \E extents \in Declared :
            \E capacity \in Capacities : CreateRepo(policy, extents, capacity)
       \/ UpdateRepo(policy)
  \/ DeleteRepo
  \/ \E x \in Extents : AddExtent(x)
  \/ \E id \in ExtentIds :
       RemoveExtent(id) \/ EvacuateExtent(id) \/ SetMaintenanceMode(id)
  \/ WriteInTurn \/ WriteToFast \/ WriteToRoomy \/ AnotherWrites

Spec == Init /\ [][Next]_repoVars

-----------------------------------------------------------------------------
TypeOK ==
  /\ repo.policy \in Policies \cup {"none"} /\ Len(repo.extents) <= MaxExtents
  /\ counter \in 0..MaxTurns

(* A write is told that it was placed on an extent that is online, or on   *)
(* none when none is online or the capacity is looked at and none has any. *)
(* While the extents stay and no other repository writes, those that were  *)
(* placed in turn are spread evenly.  And the capacity is what was         *)
(* declared and added, less what was removed, however often an id was      *)
(* added and wherever the sum was cut on the way.                          *)
TurnsOf(i) == {t \in DOMAIN turns : turns[t] = repo.extents[i].id}
Distinct ==
  \A i, j \in Placed : repo.extents[i].id = repo.extents[j].id => i = j
WritesArePlaced ==
  /\ written # NoWrite =>
       \/ written.extent \in written.online
       \/ /\ written.extent = Nowhere
          /\ \/ Online = {}
             \/ repo.policy = "CAPACITY_TIER" /\ Roomiest = {}
  /\ Distinct =>
       \A i, j \in Online :
         Cardinality(TurnsOf(i)) - Cardinality(TurnsOf(j)) <= 1
  /\ repo.capacity = Cut(declared + TotalOf(repo.extents))
=============================================================================
