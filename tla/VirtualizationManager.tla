------------------------ MODULE VirtualizationManager ------------------------
(***************************************************************************)
(* Connections to hypervisors and the calls made on them:                  *)
(* obs::VirtualizationManager and its adapters.                            *)
(*                                                                         *)
(* connections_ maps an id to an adapter that the map owns.  backup_vm,    *)
(* restore_vm and the callers of get_adapter use an adapter after the      *)
(* mutex is released; remove_connection, and an add_connection whose id is *)
(* taken, destroy one with the mutex held; listing holds the mutex over    *)
(* its requests.  An adapter sends all its requests through one curl       *)
(* handle, in which the DELETE of a first removal stays the verb for good. *)
(*                                                                         *)
(* The hypervisor is external: it does what a request with the right verb  *)
(* asks and nothing for another, and a request may be lost or refused; so  *)
(* may one made through a handle that two threads use at once.  One action *)
(* is a call's step from one request or lock to the next.                  *)
(***************************************************************************)
EXTENDS Integers, FiniteSets, HypervisorAdapters

CONSTANTS
  Threads, NoThread,
  Adapters,     (* adapter objects, numbered; add_connection uses one up    *)
  NoAdapter,
  Hosts,
  Operations    (* the operations of the adapters that threads call         *)

ASSUME ManagerAssumption ==
  /\ NoThread \notin Threads
  /\ IsFiniteSet(Adapters) /\ Adapters = 1..Cardinality(Adapters)
  /\ NoAdapter \notin Adapters
  /\ Operations \subseteq InterfaceOperations

VARIABLES
  connections,  (* connections_: id -> adapter                              *)
  lock,         (* the holder of connections_mutex_                         *)
  kind, life,   (* an adapter's class; "free", "made", "kept" or "dead"     *)
  session,      (* an adapter's session_id_ is not empty                    *)
  sticky,       (* CURLOPT_CUSTOMREQUEST of its handle is "DELETE"          *)
  todo,         (* the requests a thread's call has still to make           *)
  then,         (* what the call does after them; "idle": no call           *)
  own, slot,    (* the adapter and the id a call is about                   *)
  opened,       (* the hypervisor's session for an adapter is open          *)
  crashed,      (* a destroyed adapter was used                             *)
  disturbed,    (* history: adapters that lost a request, or that two calls *)
                (* used at once                                             *)
  clean,        (* history: those a call found without a sticky DELETE      *)
  missed,       (* history: those whose request a call made in vain         *)
  excuse        (* history: "removal" or "overlap" happened                 *)

adapters == <<kind, life, session, sticky>>
calls == <<todo, then, own, slot>>
history == <<disturbed, clean, missed, excuse>>
vars == <<connections, lock, adapters, calls, opened, crashed, history>>

Kinds == {"VMWARE", "PROXMOX", "HYPERV"}
Ids == (1..Cardinality(Adapters)) \X Hosts
NoConfig == [create_snapshot |-> FALSE, remove_snapshot_after |-> FALSE]

Connected == {i \in Ids : connections[i] # NoAdapter}
Busy(t) == then[t] # "idle"

(* The tasks of a script on one adapter.                                   *)
On(a, script) == [i \in DOMAIN script |-> [on |-> a, req |-> script[i]]]
Uses(t) == {todo[t][i].on : i \in DOMAIN todo[t]}

Script(a, op, config) ==
  CASE kind[a] = "VMWARE" -> VMwareScript(op, config)
    [] kind[a] = "PROXMOX" -> ProxmoxScript(op)
    [] kind[a] = "HYPERV" -> HyperVScript(op)

(* The tasks of a listing of those of some adapters that are of some       *)
(* kinds: adapter after adapter, each with the requests of its script.     *)
Listings(asked, kinds) ==
  LET list(a) == Script(a, "list_vms", NoConfig)
      places == {p \in {a \in asked : kind[a] \in kinds} \X (1..2) :
                   p[2] <= Len(list(p[1]))}
      inOrder == {q \in [1..Cardinality(places) -> places] :
                    \A m, n \in DOMAIN q : m < n =>
                      \/ q[m][1] < q[n][1]
                      \/ q[m][1] = q[n][1] /\ q[m][2] < q[n][2]}
  IN  {[n \in DOMAIN q |-> [on |-> q[n][1], req |-> list(q[n][1])[q[n][2]]]]
         : q \in inOrder}

Init ==
  /\ connections = [i \in Ids |-> NoAdapter]
  /\ lock = NoThread
  /\ kind = [a \in Adapters |-> "HYPERV"]
  /\ life = [a \in Adapters |-> "free"]
  /\ session = [a \in Adapters |-> FALSE]
  /\ sticky = [a \in Adapters |-> FALSE]
  /\ todo = [t \in Threads |-> <<>>]
  /\ then = [t \in Threads |-> "idle"]
  /\ own = [t \in Threads |-> NoAdapter]
  /\ slot = [t \in Threads |-> <<>>]
  /\ opened = [a \in Adapters |-> FALSE]
  /\ crashed = FALSE
  /\ disturbed = {} /\ excuse = {}
  /\ clean = [t \in Threads |-> {}]
  /\ missed = [t \in Threads |-> {}]

(* A call of thread t starts: its requests, what follows them, and the     *)
(* adapter and id it is about.                                             *)
Begin(t, tasks, next, a, i) ==
  LET used == {tasks[n].on : n \in DOMAIN tasks} IN
  /\ todo' = [todo EXCEPT ![t] = tasks]
  /\ then' = [then EXCEPT ![t] = next]
  /\ own' = [own EXCEPT ![t] = a]
  /\ slot' = [slot EXCEPT ![t] = i]
  /\ clean' = [clean EXCEPT ![t] = {b \in used : ~sticky[b]}]
  /\ missed' = [missed EXCEPT ![t] = {}]
  /\ disturbed' = disturbed \cup
       {b \in used : \E u \in Threads \ {t} : b \in Uses(u)}
  /\ UNCHANGED <<opened, crashed>>

Idle(t) ==
  /\ then' = [then EXCEPT ![t] = "idle"]
  /\ own' = [own EXCEPT ![t] = NoAdapter]
  /\ slot' = [slot EXCEPT ![t] = <<>>]
  /\ clean' = [clean EXCEPT ![t] = {}]
  /\ missed' = [missed EXCEPT ![t] = {}]

-----------------------------------------------------------------------------
(* Mutations.  Each is what a plausible mistake would make of the          *)
(* definition it is named after; no specification below uses one.          *)

(* An id is made from the host alone.                                      *)
NewIdOfHost(h) == <<1, h>>

(* The session id is cleared before the request that needs it.             *)
DisconnectForgets(a) == <<>>

(* Listing asks for each adapter with get_adapter, under its own lock.     *)
ListVmsLocksTwice(t, kinds) ==
  /\ ~Busy(t) /\ lock = NoThread
  /\ lock' = t
  /\ Begin(t, <<>>, "get_adapter", NoAdapter, <<>>)
  /\ UNCHANGED <<connections, adapters, excuse>>

-----------------------------------------------------------------------------
(* "conn-" + (connections_.size() + 1) + "-" + host, without the mutex.    *)
NewId(h) == <<Cardinality(Connected) + 1, h>>

Login(k) ==
  CASE k = "VMWARE" -> VMwareLogin [] k = "PROXMOX" -> ProxmoxLogin
    [] k = "HYPERV" -> Nothing

(* disconnect(): a session that was opened is closed.                      *)
Disconnect(a) ==
  IF kind[a] = "VMWARE" /\ session[a] THEN On(a, VMwareLogout) ELSE <<>>

AddConnection(t, k, h) ==
  /\ ~Busy(t)
  /\ \E a \in Adapters :
       /\ life[a] = "free" /\ \A b \in 1..(a - 1) : life[b] # "free"
       /\ life' = [life EXCEPT ![a] = "made"]
       /\ kind' = [kind EXCEPT ![a] = k]
       /\ Begin(t, On(a, Login(k)), "insert", a, NewId(h))
  /\ excuse' = IF \E u \in Threads : then[u] = "insert"
               THEN excuse \cup {"overlap"} ELSE excuse
  /\ UNCHANGED <<connections, lock, session, sticky>>

(* The new adapter is stored; one that was there is disconnected and       *)
(* destroyed with the mutex held.                                          *)
Insert(t) ==
  /\ then[t] = "insert" /\ todo[t] = <<>> /\ lock = NoThread
  /\ LET old == connections[slot[t]] IN
       /\ connections' = [connections EXCEPT ![slot[t]] = own[t]]
       /\ life' = [life EXCEPT ![own[t]] = "kept"]
       /\ UNCHANGED <<kind, session, sticky, excuse>>
       /\ IF old = NoAdapter
          THEN /\ Idle(t)
               /\ UNCHANGED <<lock, todo, opened, crashed, disturbed>>
          ELSE /\ lock' = t
               /\ Begin(t, Disconnect(old), "destroy", old, slot[t])

RemoveConnection(t, i) ==
  /\ ~Busy(t) /\ lock = NoThread /\ i \in Connected
  /\ lock' = t
  /\ Begin(t, Disconnect(connections[i]), "erase", connections[i], i)
  /\ excuse' = excuse \cup {"removal"}
  /\ UNCHANGED <<connections, adapters>>

(* list_all_vms, and list_vms_by_hypervisor for one kind: every adapter is *)
(* asked with the mutex held, in an order that stands for the map's.       *)
ListVms(t, kinds) ==
  /\ ~Busy(t) /\ lock = NoThread
  /\ lock' = t
  /\ \E tasks \in Listings({connections[i] : i \in Connected}, kinds) :
       Begin(t, tasks, "unlock", NoAdapter, <<>>)
  /\ UNCHANGED <<connections, adapters, excuse>>

(* get_adapter and a method of the adapter it returns: backup_vm and       *)
(* restore_vm do this, and so do callers of the manager.                   *)
Call(t, i, op, config) ==
  /\ ~Busy(t) /\ lock = NoThread /\ i \in Connected
  /\ Begin(t, On(connections[i], Script(connections[i], op, config)),
           "return", connections[i], <<>>)
  /\ UNCHANGED <<connections, lock, adapters, excuse>>

-----------------------------------------------------------------------------
(* Anything done with a destroyed adapter; one outcome of undefined        *)
(* behaviour stands for all.                                               *)
Crash ==
  /\ crashed' = TRUE
  /\ UNCHANGED <<connections, lock, adapters, calls, opened, history>>

(* A request of any kind but a login: setopt and perform.                  *)
Request(t) ==
  /\ todo[t] # <<>> /\ Head(todo[t]).req.what # "login"
  /\ LET a == Head(todo[t]).on
         req == Head(todo[t]).req
         verb == IF sticky[a] THEN "DELETE" ELSE req.verb
         vain == [missed EXCEPT ![t] = @ \cup {a}]
     IN IF life[a] = "dead" THEN Crash
        ELSE /\ todo' = [todo EXCEPT ![t] = Tail(@)]
             /\ sticky' = [sticky EXCEPT ![a] = @ \/ req.verb = "DELETE"]
             /\ \/ /\ verb = req.verb
                   /\ opened' = [opened EXCEPT ![a] = @ /\ req.what # "logout"]
                   /\ UNCHANGED <<missed, disturbed>>
                \/ /\ verb # req.verb
                   /\ missed' = vain
                   /\ UNCHANGED <<opened, disturbed>>
                \/ /\ missed' = vain
                   /\ disturbed' = disturbed \cup {a}
                   /\ UNCHANGED opened
             /\ UNCHANGED <<connections, lock, kind, life, session, then, own,
                            slot, crashed, clean, excuse>>

(* The login of an adapter that only its thread knows.  When it fails the  *)
(* adapter is destroyed and add_connection returns ""; the hypervisor may  *)
(* have opened a session whose id was lost with the answer.                *)
RequestLogin(t) ==
  /\ todo[t] # <<>> /\ Head(todo[t]).req.what = "login"
  /\ todo' = [todo EXCEPT ![t] = Tail(@)]
  /\ \E reached \in BOOLEAN, answered \in BOOLEAN :
       /\ opened' = [opened EXCEPT ![own[t]] =
                       reached /\ kind[own[t]] = "VMWARE"]
       /\ IF reached /\ answered
          THEN /\ session' = [session EXCEPT ![own[t]] = TRUE]
               /\ UNCHANGED <<life, then, own, slot, disturbed, clean, missed>>
          ELSE /\ life' = [life EXCEPT ![own[t]] = "dead"]
               /\ disturbed' = disturbed \cup {own[t]}
               /\ Idle(t)
               /\ UNCHANGED session
  /\ UNCHANGED <<connections, lock, kind, sticky, crashed, excuse>>

(* The requests are made.  An adapter is destroyed before the mutex is     *)
(* released.                                                               *)
Finish(t) ==
  /\ todo[t] = <<>> /\ then[t] \in {"erase", "destroy", "unlock", "return"}
  /\ IF then[t] = "return" /\ life[own[t]] = "dead" THEN Crash
     ELSE /\ connections' = IF then[t] = "erase"
                            THEN [connections EXCEPT ![slot[t]] = NoAdapter]
                            ELSE connections
          /\ lock' = IF lock = t THEN NoThread ELSE lock
          /\ IF then[t] \in {"erase", "destroy"}
             THEN /\ life' = [life EXCEPT ![own[t]] = "dead"]
                  /\ session' = [session EXCEPT ![own[t]] = FALSE]
             ELSE UNCHANGED <<life, session>>
          /\ Idle(t)
          /\ UNCHANGED <<kind, sticky, todo, opened, crashed, disturbed,
                         excuse>>

Start(t) ==
  /\ ~crashed
  /\ \/ \E k \in Kinds, h \in Hosts : AddConnection(t, k, h)
     \/ \E kinds \in {Kinds} \cup {{k} : k \in Kinds} : ListVms(t, kinds)
     \/ \E i \in Ids :
          \/ RemoveConnection(t, i)
          \/ \E op \in Operations, config \in BackupConfigs :
               Call(t, i, op, config)

Step(t) ==
  /\ ~crashed
  /\ Insert(t) \/ Request(t) \/ RequestLogin(t) \/ Finish(t)

Next == \E t \in Threads : Start(t) \/ Step(t)

Spec == Init /\ [][Next]_vars

(* Threads run, but nothing says that a request ever ends: the adapters    *)
(* set no time limit on theirs.                                            *)
FairSpec ==
  /\ Spec
  /\ \A t \in Threads : WF_vars(~crashed /\ (Insert(t) \/ Finish(t)))

-----------------------------------------------------------------------------
(* Every variable has its type.                                            *)
TypeOK ==
  /\ connections \in [Ids -> Adapters \cup {NoAdapter}]
  /\ lock \in Threads \cup {NoThread}
  /\ kind \in [Adapters -> Kinds]
  /\ life \in [Adapters -> {"free", "made", "kept", "dead"}]
  /\ session \in [Adapters -> BOOLEAN] /\ sticky \in [Adapters -> BOOLEAN]
  /\ opened \in [Adapters -> BOOLEAN]
  /\ then \in [Threads ->
       {"idle", "insert", "erase", "destroy", "unlock", "return"}]
  /\ own \in [Threads -> Adapters \cup {NoAdapter}]
  /\ todo \in [Threads -> Seq([on : Adapters, req : Requests])]
  /\ slot \in [Threads -> Ids \cup {<<>>}]
  /\ clean \in [Threads -> SUBSET Adapters]
  /\ missed \in [Threads -> SUBSET Adapters]
  /\ disturbed \subseteq Adapters /\ excuse \subseteq {"removal", "overlap"}
  /\ crashed \in BOOLEAN

(* A call runs on an adapter that is gone only if a connection was removed *)
(* or two add_connection calls overlapped: without those, no id is given   *)
(* twice and no connection is replaced under a call.                       *)
UseAfterFreeNeedsRemoval == crashed => excuse # {}

(* An adapter that goes leaves no session on the hypervisor, unless a      *)
(* request of it was lost, two calls shared it, or an earlier removal of a *)
(* snapshot has turned its logout into a DELETE.                           *)
SessionsAreClosed ==
  \A a \in Adapters :
    life[a] = "dead" /\ opened[a] => a \in disturbed \/ sticky[a]

(* The calls return true whatever happens.  Still, on an adapter that lost *)
(* no request, is not shared and removed no snapshot before this call,     *)
(* every request of the call is carried out.                               *)
TrueMeansDone ==
  \A t \in Threads : \A a \in missed[t] : a \in disturbed \/ a \notin clean[t]

(* A thread gives the mutex back after a listing, a removal or a           *)
(* replacement, however many requests that takes and whatever comes of     *)
(* them, unless one of them never ends: only a hypervisor that leaves a    *)
(* request hanging keeps the mutex, and all that need it, for ever.        *)
RequestsEnd(t) == []<>(todo[t] = <<>>)
LockIsReleased ==
  \A t \in Threads : RequestsEnd(t) => (lock = t ~> lock # t \/ crashed)
=============================================================================
