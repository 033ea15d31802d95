--------------------- MODULE VirtualizationManagerProofs ---------------------
(***************************************************************************)
(* Proofs about VirtualizationManager for any number of threads, adapters  *)
(* and hosts and any choice of the interface's operations.                 *)
(***************************************************************************)
EXTENDS VirtualizationManager, SequenceTheorems, FiniteSetTheorems, TLAPS

Tasks == [on : Adapters, req : Requests]

(* Nothing follows the removal of a snapshot on the same adapter.          *)
DeletesLast(q) ==
  \A m, n \in DOMAIN q :
    m < n /\ q[m].on = q[n].on /\ q[m].req.verb = "DELETE" =>
      q[n].req.verb = "DELETE"

(* Each id has an adapter of its own, which is kept.                       *)
TableShape ==
  /\ \A i \in Connected : life[connections[i]] = "kept"
  /\ \A i, j \in Connected : connections[i] = connections[j] => i = j

(* Whoever destroys or lists holds the mutex.  An adapter to be inserted   *)
(* is known to its call only, one to be destroyed has left the table or    *)
(* is where the call will take it out.                                     *)
OwnShape ==
  /\ \A t \in Threads :
       /\ then[t] \in {"erase", "destroy", "unlock"} <=> lock = t
       /\ then[t] \in {"insert", "erase", "destroy"} => slot[t] \in Ids
       /\ then[t] \in {"insert", "erase", "destroy", "return"} =>
            own[t] \in Adapters
       /\ then[t] = "insert" => life[own[t]] = "made"
       /\ then[t] = "erase" => connections[slot[t]] = own[t]
       /\ then[t] = "destroy" =>
            life[own[t]] = "kept" /\ \A i \in Ids : connections[i] # own[t]
       /\ then[t] = "return" => life[own[t]] \in {"kept", "dead"}
  /\ \A t, u \in Threads :
       then[t] = "insert" /\ then[u] = "insert" /\ own[t] = own[u] => t = u

(* A new adapter is asked to log in and one to be destroyed to log out, by *)
(* one request; all other requests go to adapters that were in the table.  *)
CallTodo(q, next, a, alive) ==
  /\ DeletesLast(q)
  /\ next = "idle" => q = <<>>
  /\ next \in {"insert", "erase", "destroy"} => Len(q) <= 1
  /\ \A n \in DOMAIN q :
       /\ q[n].req.what = "login" <=> next = "insert"
       /\ next \in {"insert", "erase", "destroy"} => q[n].on = a
       /\ next \in {"erase", "destroy"} => q[n].req.what = "logout"
       /\ next # "insert" => alive[q[n].on] \in {"kept", "dead"}
TodoShape == \A t \in Threads : CallTodo(todo[t], then[t], own[t], life)

(* Without a removal and without overlapping connects the ids are those of *)
(* 1..n, one for each connection, and nothing is destroyed.                *)
AloneShape ==
  excuse = {} =>
    /\ ~crashed
    /\ \A i \in Connected : i[1] <= Cardinality(Connected)
    /\ \A t \in Threads :
         /\ then[t] \notin {"erase", "destroy"}
         /\ then[t] = "insert" =>
              /\ slot[t][1] = Cardinality(Connected) + 1
              /\ \A u \in Threads \ {t} : then[u] # "insert"
         /\ then[t] = "return" => life[own[t]] = "kept"
         /\ then[t] # "insert" =>
              \A n \in DOMAIN todo[t] : life[todo[t][n].on] = "kept"

(* An open session that no accident hides is known to its adapter, and the *)
(* call that destroys the adapter closes it.                               *)
Excused(a) == a \in disturbed \/ sticky[a]
SessionShape ==
  /\ \A a \in Adapters :
       /\ opened[a] => life[a] # "free"
       /\ opened[a] /\ ~Excused(a) =>
            life[a] # "dead" /\ session[a] /\ kind[a] = "VMWARE"
  /\ \A t \in Threads :
       then[t] \in {"erase", "destroy"} /\ todo[t] = <<>> /\ opened[own[t]] =>
         Excused(own[t])

(* A DELETE that sticks while a call goes on is the call's own last, or    *)
(* that of a call that shares the adapter.                                 *)
ShareShape ==
  /\ \A t, u \in Threads : t # u => Uses(t) \cap Uses(u) \subseteq disturbed
  /\ \A t \in Threads : \A n \in DOMAIN todo[t] :
       LET a == todo[t][n].on IN
       a \in clean[t] /\ sticky[a] =>
         a \in disturbed \/ todo[t][n].req.verb = "DELETE"

IInv ==
  /\ TypeOK
  /\ TableShape /\ OwnShape /\ TodoShape
  /\ AloneShape /\ SessionShape /\ ShareShape /\ TrueMeansDone

-----------------------------------------------------------------------------
(* The scripts.                                                            *)

Ordinary == {r \in Requests : r.what \notin {"login", "logout"}}

(* A script has at most two requests, none of which opens or closes a      *)
(* session, and nothing follows the removal of a snapshot.                 *)
Short(s) ==
  \/ s = <<>>
  \/ \E r \in Ordinary : s = <<r>>
  \/ \E r, q \in Ordinary : s = <<r, q>> /\ r.verb # "DELETE"

LEMMA TwoRequests ==
  ASSUME NEW a, NEW b
  PROVE  <<a>> \o <<b>> = <<a, b>> /\ <<a>> \o <<>> = <<a>>
<1> DEFINE S == {a, b}
<1>1. /\ <<a>> \in Seq(S) /\ <<b>> \in Seq(S) /\ <<a, b>> \in Seq(S)
      /\ Len(<<a>>) = 1 /\ Len(<<b>>) = 1 /\ Len(<<a, b>>) = 2
      /\ <<a>>[1] = a /\ <<b>>[1] = b /\ <<a, b>>[1] = a /\ <<a, b>>[2] = b
  OBVIOUS
<1>2. <<a>> \o <<>> = <<a>>
  BY <1>1, ConcatEmptySeq
<1> HIDE DEF S
<1>3. /\ <<a>> \o <<b>> \in Seq(S) /\ Len(<<a>> \o <<b>>) = 2
      /\ (<<a>> \o <<b>>)[1] = a /\ (<<a>> \o <<b>>)[2] = b
  <2>1. /\ <<a>> \o <<b>> \in Seq(S)
        /\ Len(<<a>> \o <<b>>) = Len(<<a>>) + Len(<<b>>)
        /\ \A i \in 1..(Len(<<a>>) + Len(<<b>>)) :
             (<<a>> \o <<b>>)[i] =
               IF i <= Len(<<a>>) THEN <<a>>[i] ELSE <<b>>[i - Len(<<a>>)]
    BY <1>1, ConcatProperties
  <2> QED BY <1>1, <2>1
<1>4. <<a>> \o <<b>> = <<a, b>>
  <2>1. \A i \in 1..2 : (<<a>> \o <<b>>)[i] = <<a, b>>[i]
    BY <1>1, <1>3
  <2> QED BY <1>1, <1>3, <2>1, SeqEqual
<1> QED BY <1>2, <1>4

LEMMA OneRequest ==
  ASSUME NEW what \in Subjects, what \notin {"login", "logout"}
  PROVE  Short(Get(what)) /\ Short(Post(what)) /\ Short(Delete(what))
BY DEF Short, Get, Post, Delete, Ordinary, Requests

LEMMA VMwareShort ==
  ASSUME NEW op \in InterfaceOperations, NEW config \in BackupConfigs
  PROVE  Short(VMwareScript(op, config))
<1> USE DEF Nothing
<1>1. Short(Nothing)
  BY DEF Short
<1>2. Short(VMwareBackup(config))
  <2>1. Post("snapshots") \o Delete("snapshot") =
          <<[verb |-> "POST", what |-> "snapshots"],
            [verb |-> "DELETE", what |-> "snapshot"]>>
    BY TwoRequests DEF Post, Delete
  <2>2. Short(Post("snapshots") \o Delete("snapshot"))
    BY <2>1 DEF Short, Ordinary, Requests, Subjects
  <2>3. Short(Post("snapshots") \o Nothing)
    BY TwoRequests, OneRequest DEF Subjects, Post
  <2> QED BY <1>1, <2>2, <2>3 DEF VMwareBackup
<1>3. \A o \in Reads : Short(VMwareReads(o))
  BY <1>1, OneRequest DEF Subjects, VMwareReads, Reads
<1>4. \A o \in Commands : Short(VMwareCommands(o))
  BY OneRequest DEF Subjects, VMwareCommands, Commands
<1>5. \A o \in Transfers : Short(VMwareTransfers(o, config))
  BY <1>1, <1>2 DEF VMwareTransfers, Transfers
<1> QED BY <1>3, <1>4, <1>5 DEF VMwareScript, InterfaceOperations

LEMMA ProxmoxShort ==
  ASSUME NEW op \in InterfaceOperations
  PROVE  Short(ProxmoxScript(op))
<1>1. Short(Nothing)
  BY DEF Short, Nothing
<1>2. Short(Get("qemu") \o Get("lxc"))
  <2>1. Get("qemu") \o Get("lxc") =
          <<[verb |-> "GET", what |-> "qemu"], [verb |-> "GET", what |-> "lxc"]>>
    BY TwoRequests DEF Get
  <2> QED BY <2>1 DEF Short, Ordinary, Requests, Subjects
<1>3. \A o \in Reads : Short(ProxmoxReads(o))
  BY <1>2, OneRequest DEF Subjects, ProxmoxReads, Reads
<1>4. \A o \in Commands : Short(ProxmoxCommands(o))
  BY OneRequest DEF Subjects, ProxmoxCommands, Commands
<1>5. \A o \in Transfers : Short(ProxmoxBackup(o))
  BY <1>1, OneRequest DEF Subjects, ProxmoxBackup, Transfers
<1> QED BY <1>3, <1>4, <1>5 DEF ProxmoxScript, InterfaceOperations

LEMMA ScriptShort ==
  ASSUME NEW a \in Adapters, kind[a] \in Kinds,
         NEW op \in InterfaceOperations, NEW config \in BackupConfigs
  PROVE  Short(Script(a, op, config))
<1>1. Short(HyperVScript(op))
  BY DEF Short, HyperVScript, Nothing
<1> QED BY <1>1, VMwareShort, ProxmoxShort DEF Script, Kinds

(* Listing is the first of the reads, and no other operation.              *)
LEMMA ListingIsARead ==
  /\ "list_vms" \in Reads
  /\ "list_vms" \notin Commands /\ "list_vms" \notin Transfers
BY DEF Reads, Commands, Transfers

(* Listing only reads, with at most two requests.                          *)
LEMMA ListingReads ==
  ASSUME NEW a \in Adapters, kind[a] \in Kinds, NEW k \in 1..2,
         k <= Len(Script(a, "list_vms", NoConfig))
  PROVE  /\ Script(a, "list_vms", NoConfig)[k] \in Ordinary
         /\ Script(a, "list_vms", NoConfig)[k].verb = "GET"
<1> DEFINE s == Script(a, "list_vms", NoConfig)
<1>1. CASE kind[a] = "VMWARE"
  <2>1. s = VMwareScript("list_vms", NoConfig)
    BY <1>1, Zenon DEF Script
  <2>2. VMwareScript("list_vms", NoConfig) = VMwareReads("list_vms")
    BY ListingIsARead, Zenon DEF VMwareScript
  <2>3. VMwareReads("list_vms") = <<[verb |-> "GET", what |-> "vms"]>>
    BY DEF VMwareReads, Get
  <2>4. s = <<[verb |-> "GET", what |-> "vms"]>> /\ k <= Len(s)
    BY <2>1, <2>2, <2>3
  <2> HIDE DEF s
  <2>5. k = 1 /\ s[1] = [verb |-> "GET", what |-> "vms"]
    BY <2>4
  <2>6. s[k] \in Ordinary /\ s[k].verb = "GET"
    BY <2>5 DEF Ordinary, Requests, Subjects
  <2> QED BY <2>6 DEF s
<1>2. CASE kind[a] = "PROXMOX"
  <2>1. s = Get("qemu") \o Get("lxc")
    <3>1. s = ProxmoxScript("list_vms")
      BY <1>2 DEF Script
    <3>2. ProxmoxScript("list_vms") = ProxmoxReads("list_vms")
      BY ListingIsARead, Zenon DEF ProxmoxScript
    <3>3. ProxmoxReads("list_vms") = Get("qemu") \o Get("lxc")
      BY DEF ProxmoxReads
    <3> QED BY <3>1, <3>2, <3>3
  <2>2. s = <<[verb |-> "GET", what |-> "qemu"], [verb |-> "GET", what |-> "lxc"]>>
    BY <2>1, TwoRequests DEF Get
  <2>3. /\ s[1] = [verb |-> "GET", what |-> "qemu"]
        /\ s[2] = [verb |-> "GET", what |-> "lxc"]
    BY <2>2
  <2> HIDE DEF s
  <2> QED BY <2>3 DEF s, Ordinary, Requests, Subjects
<1>3. CASE kind[a] = "HYPERV"
  <2>1. s = <<>> /\ Len(s) = 0
    BY <1>3 DEF Script, HyperVScript, Nothing
  <2> HIDE DEF s
  <2> QED BY <2>1 DEF s
<1> QED BY <1>1, <1>2, <1>3 DEF Kinds

-----------------------------------------------------------------------------
(* The tasks of a call.                                                    *)

(* What the tasks of a call that goes on with `next' about adapter a obey. *)
Proper(q, next, a) ==
  /\ q \in Seq(Tasks) /\ DeletesLast(q)
  /\ next \in {"insert", "erase", "destroy"} => Len(q) <= 1
  /\ \A n \in DOMAIN q :
       /\ q[n].req.what = "login" <=> next = "insert"
       /\ next \in {"insert", "erase", "destroy"} => q[n].on = a
       /\ next \in {"erase", "destroy"} => q[n].req.what = "logout"
       /\ next # "insert" => life[q[n].on] = "kept"

Starts(t, next, a, i) ==
  \E q \in Seq(Tasks) : Begin(t, q, next, a, i) /\ Proper(q, next, a)

LEMMA EmptyProper ==
  ASSUME NEW next, NEW a
  PROVE  Proper(<<>>, next, a)
<1>1. <<>> \in Seq(Tasks) /\ Len(<<>>) = 0 /\ DOMAIN <<>> = {}
  OBVIOUS
<1> QED BY <1>1 DEF Proper, DeletesLast

LEMMA OneProper ==
  ASSUME NEW a \in Adapters, NEW r \in Requests,
         NEW next \in {"insert", "erase", "destroy"},
         r.what = (IF next = "insert" THEN "login" ELSE "logout"),
         next # "insert" => life[a] = "kept"
  PROVE  /\ Proper(On(a, <<r>>), next, a)
         /\ On(a, <<r>>) # <<>>
<1> DEFINE q == On(a, <<r>>)
<1>1. q = <<[on |-> a, req |-> r]>>
  <2>1. DOMAIN <<r>> = 1..1 /\ <<r>>[1] = r
    OBVIOUS
  <2>2. q = [i \in 1..1 |-> [on |-> a, req |-> r]]
    BY <2>1 DEF On
  <2> QED BY <2>2
<1>2. q \in Seq(Tasks) /\ Len(q) = 1 /\ DOMAIN q = {1}
      /\ q[1] = [on |-> a, req |-> r]
  <2>1. [on |-> a, req |-> r] \in Tasks
    BY DEF Tasks
  <2>2. ASSUME NEW x \in Tasks
        PROVE  <<x>> \in Seq(Tasks) /\ Len(<<x>>) = 1 /\ DOMAIN <<x>> = {1}
               /\ <<x>>[1] = x
    OBVIOUS
  <2> HIDE DEF q
  <2> QED BY <1>1, <2>1, <2>2, Zenon
<1> HIDE DEF q
<1>3. q # <<>>
  BY <1>2
<1>4. DeletesLast(q)
  BY <1>2 DEF DeletesLast
<1>5. Proper(q, next, a)
  BY <1>2, <1>4 DEF Proper
<1> QED BY <1>3, <1>5 DEF q

LEMMA ScriptProper ==
  ASSUME NEW a \in Adapters, life[a] = "kept", NEW s, Short(s)
  PROVE  Proper(On(a, s), "return", a)
<1>1. CASE s = <<>>
  <2>1. On(a, s) = <<>>
    BY <1>1 DEF On
  <2> QED BY <2>1, EmptyProper
<1>2. CASE \E r \in Ordinary : s = <<r>>
  <2>1. PICK r \in Ordinary : s = <<r>>
    BY <1>2
  <2> DEFINE q == On(a, s)
  <2>2. q = [i \in 1..1 |-> [on |-> a, req |-> r]]
    BY <2>1 DEF On
  <2>3. q \in Seq(Tasks) /\ DOMAIN q = {1} /\ q[1] = [on |-> a, req |-> r]
    BY <2>2 DEF Tasks, Ordinary
  <2> HIDE DEF q
  <2>4. DeletesLast(q)
    BY <2>3 DEF DeletesLast
  <2> QED BY <2>3, <2>4 DEF Proper, Ordinary, q
<1>3. CASE \E r, p \in Ordinary : s = <<r, p>> /\ r.verb # "DELETE"
  <2>1. PICK r \in Ordinary, p \in Ordinary : s = <<r, p>> /\ r.verb # "DELETE"
    BY <1>3
  <2> DEFINE q == On(a, s)
  <2>2. DOMAIN s = 1..2 /\ s[1] = r /\ s[2] = p
    BY <2>1
  <2>3. q \in Seq(Tasks) /\ DOMAIN q = 1..2
        /\ q[1] = [on |-> a, req |-> r] /\ q[2] = [on |-> a, req |-> p]
    <3>1. q \in [1..2 -> Tasks]
      BY <2>2 DEF On, Tasks, Ordinary
    <3> QED BY <2>2, <3>1 DEF On
  <2> HIDE DEF q
  <2>4. q[1].req.verb # "DELETE"
    BY <2>1, <2>3
  <2>5. DeletesLast(q)
    BY <2>3, <2>4 DEF DeletesLast
  <2>6. \A n \in DOMAIN q : q[n].on = a /\ q[n].req.what # "login"
    BY <2>3 DEF Ordinary
  <2> QED BY <2>3, <2>5, <2>6 DEF Proper, q
<1> QED BY <1>1, <1>2, <1>3 DEF Short

LEMMA ListingProper ==
  ASSUME kind \in [Adapters -> Kinds], NEW asked \in SUBSET Adapters, NEW kinds,
         \A a \in asked : life[a] = "kept",
         NEW tasks \in Listings(asked, kinds)
  PROVE  Proper(tasks, "unlock", NoAdapter)
<1> DEFINE list(a) == Script(a, "list_vms", NoConfig)
           some == {a \in asked : kind[a] \in kinds}
           places == {p \in some \X (1..2) : p[2] <= Len(list(p[1]))}
<1>1. PICK q \in [1..Cardinality(places) -> places] :
        tasks = [n \in DOMAIN q |-> [on |-> q[n][1], req |-> list(q[n][1])[q[n][2]]]]
  BY DEF Listings
<1>2. Cardinality(places) \in Nat
  <2>1. IsFiniteSet(some)
    BY ManagerAssumption, FS_Subset
  <2>2. IsFiniteSet(1..2)
    <3>1. \A m, n \in Int : IsFiniteSet(m..n)
      BY FS_Interval
    <3>2. 1 \in Int /\ 2 \in Int
      OBVIOUS
    <3> QED BY <3>1, <3>2, Zenon
  <2>3. IsFiniteSet(some \X (1..2))
    BY <2>1, <2>2, FS_Product
  <2> QED BY <2>3, FS_Subset, FS_CardinalityType
<1>3. \A p \in places :
        /\ p[1] \in asked
        /\ list(p[1])[p[2]] \in Ordinary /\ list(p[1])[p[2]].verb = "GET"
  BY ListingReads
<1> HIDE DEF list, places, some
<1>4. \A n \in 1..Cardinality(places) : q[n] \in places
  BY <1>1
<1>5. \A n \in DOMAIN tasks :
        /\ tasks[n].on \in asked /\ tasks[n].req \in Ordinary
        /\ tasks[n].req.verb = "GET" /\ tasks[n] \in Tasks
  BY <1>1, <1>3, <1>4 DEF Tasks, Ordinary
<1>6. tasks \in Seq(Tasks)
  <2>1. tasks \in [1..Cardinality(places) -> Tasks]
    BY <1>1, <1>5
  <2> QED BY <1>2, <2>1
<1>7. DeletesLast(tasks)
  BY <1>5 DEF DeletesLast
<1> QED BY <1>5, <1>6, <1>7 DEF Proper, Ordinary
-----------------------------------------------------------------------------
(* The table.                                                              *)

(* Each connection has an adapter of its own, so that there is an id left  *)
(* for one that is still free.                                             *)
LEMMA Counting ==
  ASSUME TypeOK, TableShape
  PROVE  /\ IsFiniteSet(Connected) /\ Cardinality(Connected) \in Nat
         /\ \A a \in Adapters : life[a] # "kept" =>
              Cardinality(Connected) + 1 <= Cardinality(Adapters)
<1> DEFINE f == [i \in Connected |-> connections[i]]
           Kept == {a \in Adapters : life[a] = "kept"}
<1>1. f \in Injection(Connected, Kept)
  BY DEF TypeOK, TableShape, Connected, Injection, IsInjective
<1>2. IsFiniteSet(Adapters) /\ Kept \in SUBSET Adapters /\ IsFiniteSet(Kept)
  BY ManagerAssumption, FS_Subset
<1> HIDE DEF f
<1>3. /\ IsFiniteSet(Connected)
      /\ Cardinality(Connected) <= Cardinality(Kept)
  <2> HIDE DEF Kept
  <2> QED BY <1>1, <1>2, FS_Injection
<1>4. Cardinality(Connected) \in Nat /\ Cardinality(Kept) \in Nat
      /\ Cardinality(Adapters) \in Nat
  BY <1>2, <1>3, FS_CardinalityType
<1>5. ASSUME NEW a \in Adapters, life[a] # "kept"
      PROVE  Cardinality(Connected) + 1 <= Cardinality(Adapters)
  <2>1. Cardinality(Kept) <= Cardinality(Adapters)
    BY <1>2, FS_Subset
  <2>2. Cardinality(Adapters) = Cardinality(Kept) => Adapters = Kept
    BY <1>2, FS_Subset
  <2>3. Adapters # Kept
    BY <1>5
  <2> HIDE DEF Kept
  <2> QED BY <1>3, <1>4, <2>1, <2>2, <2>3
<1> QED BY <1>3, <1>4, <1>5

LEMMA NewIdIsAnId ==
  ASSUME TypeOK, TableShape, NEW h \in Hosts,
         NEW a \in Adapters, life[a] # "kept"
  PROVE  /\ NewId(h) \in Ids
         /\ NewId(h)[1] = Cardinality(Connected) + 1
<1>1. Cardinality(Connected) + 1 \in 1..Cardinality(Adapters)
  <2>1. Cardinality(Adapters) \in Nat
    BY ManagerAssumption, FS_CardinalityType
  <2> QED BY <2>1, Counting
<1> QED BY <1>1 DEF NewId, Ids

-----------------------------------------------------------------------------
(* What a step leaves to the calls of the other threads.                   *)

SameCall(u) ==
  /\ todo'[u] = todo[u] /\ then'[u] = then[u]
  /\ own'[u] = own[u] /\ slot'[u] = slot[u]
  /\ clean'[u] = clean[u] /\ missed'[u] = missed[u]

LEMMA BeginEffect ==
  ASSUME TypeOK, NEW t \in Threads, NEW q, NEW next, NEW a, NEW i,
         Begin(t, q, next, a, i)
  PROVE  /\ todo'[t] = q /\ then'[t] = next /\ own'[t] = a /\ slot'[t] = i
         /\ missed'[t] = {}
         /\ clean'[t] = {b \in {q[n].on : n \in DOMAIN q} : ~sticky[b]}
         /\ \A u \in Threads \ {t} : SameCall(u)
         /\ disturbed \subseteq disturbed'
         /\ opened' = opened /\ crashed' = crashed
<1>1. /\ todo' = [todo EXCEPT ![t] = q] /\ then' = [then EXCEPT ![t] = next]
      /\ own' = [own EXCEPT ![t] = a] /\ slot' = [slot EXCEPT ![t] = i]
      /\ clean' = [clean EXCEPT ![t] =
                     {b \in {q[n].on : n \in DOMAIN q} : ~sticky[b]}]
      /\ missed' = [missed EXCEPT ![t] = {}]
      /\ disturbed \subseteq disturbed'
      /\ opened' = opened /\ crashed' = crashed
  BY DEF Begin
<1> QED BY <1>1 DEF TypeOK, SameCall

LEMMA IdleEffect ==
  ASSUME TypeOK, NEW t \in Threads, Idle(t),
         todo' = todo \/ todo' = [todo EXCEPT ![t] = Tail(@)]
  PROVE  /\ then'[t] = "idle" /\ own'[t] = NoAdapter /\ slot'[t] = <<>>
         /\ clean'[t] = {} /\ missed'[t] = {}
         /\ \A u \in Threads \ {t} : SameCall(u)
BY DEF TypeOK, Idle, SameCall

(* A call that starts keeps the types of what it changes.                  *)
LEMMA BeginTypes ==
  ASSUME TypeOK, NEW t \in Threads, NEW q \in Seq(Tasks),
         NEW next \in {"insert", "erase", "destroy", "unlock", "return"},
         NEW a \in Adapters \cup {NoAdapter}, NEW i \in Ids \cup {<<>>},
         Begin(t, q, next, a, i)
  PROVE  /\ then' \in [Threads ->
              {"idle", "insert", "erase", "destroy", "unlock", "return"}]
         /\ own' \in [Threads -> Adapters \cup {NoAdapter}]
         /\ todo' \in [Threads -> Seq([on : Adapters, req : Requests])]
         /\ slot' \in [Threads -> Ids \cup {<<>>}]
         /\ clean' \in [Threads -> SUBSET Adapters]
         /\ missed' \in [Threads -> SUBSET Adapters]
         /\ disturbed' \subseteq Adapters
         /\ opened' \in [Adapters -> BOOLEAN] /\ crashed' \in BOOLEAN
<1>1. {q[n].on : n \in DOMAIN q} \subseteq Adapters
  <2>1. \A n \in DOMAIN q : q[n] \in Tasks
    OBVIOUS
  <2> QED BY <2>1 DEF Tasks
<1>2. opened' \in [Adapters -> BOOLEAN] /\ crashed' \in BOOLEAN
  <2>1. opened' = opened /\ crashed' = crashed
    BY DEF Begin
  <2> QED BY <2>1, Zenon DEF TypeOK
<1>3. /\ then' = [then EXCEPT ![t] = next] /\ own' = [own EXCEPT ![t] = a]
      /\ todo' = [todo EXCEPT ![t] = q] /\ slot' = [slot EXCEPT ![t] = i]
      /\ missed' = [missed EXCEPT ![t] = {}]
  BY DEF Begin
<1>4. /\ then' \in [Threads ->
           {"idle", "insert", "erase", "destroy", "unlock", "return"}]
      /\ own' \in [Threads -> Adapters \cup {NoAdapter}]
      /\ todo' \in [Threads -> Seq([on : Adapters, req : Requests])]
      /\ slot' \in [Threads -> Ids \cup {<<>>}]
      /\ missed' \in [Threads -> SUBSET Adapters]
  BY <1>3 DEF TypeOK, Tasks
<1>5. clean' \in [Threads -> SUBSET Adapters] /\ disturbed' \subseteq Adapters
  BY <1>1 DEF TypeOK, Begin
<1> QED BY <1>2, <1>4, <1>5

(* A call that starts on an adapter in use makes it a disturbed one, and   *)
(* has seen no request of its own fail.                                    *)
LEMMA BeginShares ==
  ASSUME TypeOK, ShareShape, TrueMeansDone, sticky' = sticky,
         NEW t \in Threads, NEW q, NEW next, NEW a, NEW i,
         Begin(t, q, next, a, i)
  PROVE  ShareShape' /\ TrueMeansDone'
<1> DEFINE used == {q[n].on : n \in DOMAIN q}
<1>1. /\ todo'[t] = q /\ missed'[t] = {}
      /\ clean'[t] = {b \in used : ~sticky[b]}
      /\ \A u \in Threads \ {t} : SameCall(u)
      /\ disturbed \subseteq disturbed'
  BY BeginEffect
<1>2. Uses(t)' = used /\ \A u \in Threads \ {t} : Uses(u)' = Uses(u)
  BY <1>1 DEF Uses, SameCall
<1>3. \A u \in Threads \ {t} : used \cap Uses(u) \subseteq disturbed'
  BY DEF Begin
<1>4. \A u, v \in Threads : u # v => Uses(u)' \cap Uses(v)' \subseteq disturbed'
  <2> SUFFICES ASSUME NEW u \in Threads, NEW v \in Threads, u # v
               PROVE  Uses(u)' \cap Uses(v)' \subseteq disturbed'
    OBVIOUS
  <2> HIDE DEF used
  <2>1. CASE u = t
    BY <2>1, <1>2, <1>3
  <2>2. CASE v = t
    BY <2>2, <1>2, <1>3
  <2>3. CASE u # t /\ v # t
    BY <2>3, <1>1, <1>2 DEF ShareShape
  <2> QED BY <2>1, <2>2, <2>3
<1>5. ASSUME NEW u \in Threads, NEW n \in DOMAIN todo'[u],
             todo'[u][n].on \in clean'[u], sticky'[todo'[u][n].on]
      PROVE  todo'[u][n].on \in disturbed' \/ todo'[u][n].req.verb = "DELETE"
  <2>1. u # t
    BY <1>1, <1>5, Zenon
  <2>2. todo'[u] = todo[u] /\ clean'[u] = clean[u]
    BY <1>1, <2>1 DEF SameCall
  <2> QED BY <1>1, <1>5, <2>2, Zenon DEF ShareShape
<1>6. ShareShape'
  BY <1>4, <1>5 DEF ShareShape
<1>7. TrueMeansDone'
  <2>1. \A u \in Threads \ {t} : missed'[u] = missed[u] /\ clean'[u] = clean[u]
    BY <1>1 DEF SameCall
  <2> QED BY <1>1, <2>1, Zenon DEF TrueMeansDone
<1> QED BY <1>6, <1>7

(* What the tasks of the calls are about.                                  *)
LEMMA TaskTypes ==
  ASSUME TypeOK
  PROVE  \A u \in Threads : \A n \in DOMAIN todo[u] :
           todo[u][n].on \in Adapters /\ todo[u][n].req \in Requests
<1> SUFFICES ASSUME NEW u \in Threads, NEW n \in DOMAIN todo[u]
             PROVE  todo[u][n].on \in Adapters /\ todo[u][n].req \in Requests
  OBVIOUS
<1>1. todo[u] \in Seq(Tasks)
  BY DEF TypeOK, Tasks
<1>2. todo[u][n] \in Tasks
  BY <1>1
<1> QED BY <1>2 DEF Tasks

LEMMA TodoNext ==
  ASSUME \A u \in Threads : CallTodo(todo'[u], then'[u], own'[u], life')
  PROVE  TodoShape'
BY DEF TodoShape, CallTodo, DeletesLast

(* A call keeps its tasks while no adapter but a new one changes.          *)
LEMMA TodoStays ==
  ASSUME TypeOK, NEW u \in Threads, NEW alive,
         CallTodo(todo[u], then[u], own[u], life),
         \A b \in Adapters : life[b] \in {"kept", "dead"} =>
           alive[b] \in {"kept", "dead"}
  PROVE  CallTodo(todo[u], then[u], own[u], alive)
<1>1. \A n \in DOMAIN todo[u] : todo[u][n].on \in Adapters
  BY TaskTypes
<1> QED BY <1>1 DEF CallTodo

LEMMA NoTodo ==
  ASSUME NEW a, NEW alive
  PROVE  CallTodo(<<>>, "idle", a, alive)
<1>1. <<>> \in Seq(Tasks) /\ Len(<<>>) = 0 /\ DOMAIN <<>> = {}
  OBVIOUS
<1> QED BY <1>1 DEF CallTodo, DeletesLast

(* The tasks of a call that starts are those its kind may have.            *)
LEMMA BeginTodo ==
  ASSUME TypeOK, TodoShape, NEW t \in Threads,
         NEW q \in Seq(Tasks), NEW next, next # "idle", NEW a, NEW i,
         Begin(t, q, next, a, i), Proper(q, next, a),
         \A b \in Adapters : life[b] \in {"kept", "dead"} =>
           life'[b] \in {"kept", "dead"}
  PROVE  TodoShape'
<1>1. /\ todo'[t] = q /\ then'[t] = next /\ own'[t] = a
      /\ \A u \in Threads \ {t} : SameCall(u)
  BY BeginEffect
<1> SUFFICES ASSUME NEW u \in Threads
             PROVE
    CallTodo(todo'[u], then'[u], own'[u], life')
  BY DEF TodoShape, CallTodo, DeletesLast
<1>2. CASE u = t
  <2>1. \A n \in DOMAIN q : q[n].on \in Adapters
    <3>1. \A n \in DOMAIN q : q[n] \in Tasks
      OBVIOUS
    <3> QED BY <3>1 DEF Tasks
  <2> QED BY <1>1, <1>2, <2>1 DEF Proper, CallTodo
<1>3. CASE u # t
  <2>1. todo'[u] = todo[u] /\ then'[u] = then[u] /\ own'[u] = own[u]
    BY <1>1, <1>3 DEF SameCall
  <2>2. \A n \in DOMAIN todo[u] : todo[u][n].on \in Adapters
    BY TaskTypes
  <2> QED BY <2>1, <2>2 DEF TodoShape, CallTodo
<1> QED BY <1>2, <1>3

LEMMA LoginProper ==
  ASSUME NEW a \in Adapters, NEW k \in Kinds
  PROVE  Proper(On(a, Login(k)), "insert", a)
<1>1. CASE k = "HYPERV"
  <2>1. On(a, Login(k)) = <<>>
    BY <1>1 DEF On, Login, Nothing
  <2> QED BY <2>1, EmptyProper
<1>2. CASE k # "HYPERV"
  <2>1. Login(k) = <<[verb |-> "POST", what |-> "login"]>>
    BY <1>2 DEF Login, Kinds, VMwareLogin, ProxmoxLogin, Post
  <2>2. [verb |-> "POST", what |-> "login"] \in Requests
    BY DEF Requests, Subjects
  <2> QED BY <2>1, <2>2, OneProper
<1> QED BY <1>1, <1>2

LEMMA DisconnectProper ==
  ASSUME NEW a \in Adapters, life[a] = "kept", NEW next \in {"erase", "destroy"}
  PROVE  /\ Proper(Disconnect(a), next, a)
         /\ kind[a] = "VMWARE" /\ session[a] => Disconnect(a) # <<>>
<1>1. CASE kind[a] = "VMWARE" /\ session[a]
  <2>1. Disconnect(a) = On(a, <<[verb |-> "POST", what |-> "logout"]>>)
    BY <1>1, Zenon DEF Disconnect, VMwareLogout, Post
  <2>2. [verb |-> "POST", what |-> "logout"] \in Requests
    BY DEF Requests, Subjects
  <2> QED BY <2>1, <2>2, OneProper
<1>2. CASE ~(kind[a] = "VMWARE" /\ session[a])
  <2>1. Disconnect(a) = <<>>
    BY <1>2, Zenon DEF Disconnect
  <2> QED BY <1>2, <2>1, EmptyProper
<1> QED BY <1>1, <1>2

-----------------------------------------------------------------------------
(* The steps.                                                              *)

LEMMA AddConnectionStep ==
  ASSUME IInv, NEW t \in Threads, NEW k \in Kinds, NEW h \in Hosts,
         AddConnection(t, k, h)
  PROVE  IInv'
<1>1. PICK a \in Adapters :
        /\ life[a] = "free"
        /\ life' = [life EXCEPT ![a] = "made"]
        /\ kind' = [kind EXCEPT ![a] = k]
        /\ Begin(t, On(a, Login(k)), "insert", a, NewId(h))
  BY DEF AddConnection
<1> DEFINE q == On(a, Login(k))
<1>2. /\ connections' = connections /\ lock' = lock
      /\ session' = session /\ sticky' = sticky
  BY DEF AddConnection
<1>3. then[t] = "idle"
  BY DEF AddConnection, Busy
<1>4. q \in Seq(Tasks) /\ Proper(q, "insert", a)
  BY LoginProper DEF Proper
<1>5. NewId(h) \in Ids /\ NewId(h)[1] = Cardinality(Connected) + 1
  BY <1>1, NewIdIsAnId DEF IInv
<1> HIDE DEF q
<1>6. /\ todo'[t] = q /\ then'[t] = "insert" /\ own'[t] = a
      /\ slot'[t] = NewId(h) /\ \A u \in Threads \ {t} : SameCall(u)
      /\ disturbed \subseteq disturbed' /\ opened' = opened
      /\ crashed' = crashed
  BY <1>1, BeginEffect DEF IInv, q
<1>7. /\ excuse' \subseteq {"removal", "overlap"} /\ excuse \subseteq excuse'
      /\ (\E u \in Threads : then[u] = "insert") => excuse' # {}
  BY DEF AddConnection, IInv, TypeOK
<1>8. TypeOK'
  <2>1. /\ life' \in [Adapters -> {"free", "made", "kept", "dead"}]
        /\ kind' \in [Adapters -> Kinds]
    BY <1>1 DEF IInv, TypeOK
  <2>2. /\ then' \in [Threads ->
             {"idle", "insert", "erase", "destroy", "unlock", "return"}]
        /\ own' \in [Threads -> Adapters \cup {NoAdapter}]
        /\ todo' \in [Threads -> Seq([on : Adapters, req : Requests])]
        /\ slot' \in [Threads -> Ids \cup {<<>>}]
        /\ clean' \in [Threads -> SUBSET Adapters]
        /\ missed' \in [Threads -> SUBSET Adapters]
        /\ disturbed' \subseteq Adapters
        /\ opened' \in [Adapters -> BOOLEAN] /\ crashed' \in BOOLEAN
    BY <1>1, <1>4, <1>5, BeginTypes DEF IInv, q
  <2>3. session' \in [Adapters -> BOOLEAN] /\ sticky' \in [Adapters -> BOOLEAN]
    BY <1>2, Zenon DEF IInv, TypeOK
  <2>4. /\ connections' \in [Ids -> Adapters \cup {NoAdapter}]
        /\ lock' \in Threads \cup {NoThread}
    BY <1>2, Zenon DEF IInv, TypeOK
  <2> QED BY <1>7, <2>1, <2>2, <2>3, <2>4, Zenon DEF TypeOK
<1>9. TableShape'
  BY <1>1, <1>2 DEF IInv, TypeOK, TableShape, Connected
<1>10. OwnShape'
  <2>1. \A u \in Threads : then[u] = "insert" => own[u] # a
    BY <1>1 DEF IInv, OwnShape
  <2>2. \A b \in Adapters : life[b] # "free" => life'[b] = life[b]
    BY <1>1 DEF IInv, TypeOK
  <2>3. life'[a] = "made"
    BY <1>1 DEF IInv, TypeOK
  <2>4. \A u \in Threads \ {t} :
          then'[u] = then[u] /\ own'[u] = own[u] /\ slot'[u] = slot[u]
    BY <1>6 DEF SameCall
  <2>5. lock # t
    BY <1>3 DEF IInv, OwnShape
  <2> QED BY <1>2, <1>5, <1>6, <2>1, <2>2, <2>3, <2>4, <2>5 DEF IInv, OwnShape
<1>11. TodoShape'
  <2>1. \A b \in Adapters : life[b] \in {"kept", "dead"} =>
          life'[b] \in {"kept", "dead"}
    BY <1>1 DEF IInv, TypeOK
  <2> QED BY <1>1, <1>4, <2>1, BeginTodo DEF IInv, q
<1>12. AloneShape'
  <2> SUFFICES ASSUME excuse' = {}
               PROVE  AloneShape'
    BY DEF AloneShape
  <2>1. excuse = {} /\ \A u \in Threads : then[u] # "insert"
    BY <1>7
  <2>2. Connected' = Connected
    BY <1>2 DEF Connected
  <2>3. \A b \in Adapters : life[b] = "kept" => life'[b] = "kept"
    BY <1>1 DEF IInv, TypeOK
  <2>4. \A u \in Threads : \A n \in DOMAIN todo[u] : todo[u][n].on \in Adapters
    BY TaskTypes DEF IInv
  <2>5. /\ ~crashed'
        /\ \A i \in Connected' : i[1] <= Cardinality(Connected')
    BY <1>6, <2>1, <2>2, Zenon DEF IInv, AloneShape
  <2>6. \A u \in Threads \ {t} :
         /\ then'[u] \notin {"erase", "destroy", "insert"}
         /\ then'[u] = "return" => life'[own'[u]] = "kept"
         /\ \A n \in DOMAIN todo'[u] : life'[todo'[u][n].on] = "kept"
    BY <1>6, <2>1, <2>3, <2>4 DEF IInv, AloneShape, OwnShape, SameCall
  <2>7. slot'[t][1] = Cardinality(Connected') + 1
    BY <1>5, <1>6, <2>2
  <2> QED BY <1>6, <2>5, <2>6, <2>7 DEF AloneShape
<1>13. SessionShape'
  <2>1. \A b \in Adapters :
          /\ life'[b] = IF b = a THEN "made" ELSE life[b]
          /\ b # a => kind'[b] = kind[b]
    BY <1>1 DEF IInv, TypeOK
  <2>2. ~opened[a]
    BY <1>1 DEF IInv, SessionShape
  <2>3. \A b \in Adapters :
          /\ opened'[b] => life'[b] # "free"
          /\ opened'[b] /\ ~Excused(b)' =>
               life'[b] # "dead" /\ session'[b] /\ kind'[b] = "VMWARE"
    BY <1>2, <1>6, <2>1, <2>2, Zenon DEF IInv, SessionShape, Excused
  <2>4. \A u \in Threads :
          then'[u] \in {"erase", "destroy"} =>
            u # t /\ then'[u] = then[u] /\ todo'[u] = todo[u] /\ own'[u] = own[u]
    BY <1>6 DEF SameCall
  <2>5. \A b : Excused(b) => Excused(b)'
    BY <1>2, <1>6, Zenon DEF Excused
  <2>6. ASSUME NEW u \in Threads, then'[u] \in {"erase", "destroy"},
               todo'[u] = <<>>, opened'[own'[u]]
        PROVE  Excused(own[u])'
    <3>1. /\ then[u] \in {"erase", "destroy"} /\ todo[u] = <<>>
          /\ own'[u] = own[u]
      BY <2>4, <2>6
    <3>2. opened[own[u]]
      BY <1>6, <2>6, <3>1
    <3>3. Excused(own[u])
      BY <3>1, <3>2, Zenon DEF IInv, SessionShape
    <3> QED BY <1>2, <1>6, <3>1, <3>3, Zenon DEF Excused
  <2> QED BY <2>3, <2>6, Zenon DEF SessionShape
<1>14. ShareShape' /\ TrueMeansDone'
  BY <1>1, <1>2, BeginShares DEF IInv
<1> QED BY <1>8, <1>9, <1>10, <1>11, <1>12, <1>13, <1>14 DEF IInv
(* A removal, a listing or a call on an adapter starts.                    *)
LEMMA StartStep ==
  ASSUME IInv, NEW t \in Threads, then[t] = "idle", lock = NoThread,
         NEW q \in Seq(Tasks), NEW next \in {"erase", "unlock", "return"},
         NEW a \in Adapters \cup {NoAdapter}, NEW i \in Ids \cup {<<>>},
         Begin(t, q, next, a, i), Proper(q, next, a),
         next # "unlock" => a \in Adapters /\ life[a] = "kept",
         next = "erase" =>
           /\ i \in Ids /\ connections[i] = a
           /\ kind[a] = "VMWARE" /\ session[a] => q # <<>>,
         lock' = (IF next = "return" THEN lock ELSE t),
         excuse' = (IF next = "erase" THEN excuse \cup {"removal"} ELSE excuse),
         connections' = connections, life' = life, kind' = kind,
         session' = session, sticky' = sticky
  PROVE  IInv'
<1>1. /\ todo'[t] = q /\ then'[t] = next /\ own'[t] = a /\ slot'[t] = i
      /\ \A u \in Threads \ {t} : SameCall(u)
      /\ disturbed \subseteq disturbed' /\ opened' = opened
      /\ crashed' = crashed
  BY BeginEffect DEF IInv
<1>2. \A u \in Threads \ {t} :
        /\ todo'[u] = todo[u] /\ then'[u] = then[u]
        /\ own'[u] = own[u] /\ slot'[u] = slot[u]
  BY <1>1 DEF SameCall
<1>3. TypeOK'
  <2>1. /\ then' \in [Threads ->
             {"idle", "insert", "erase", "destroy", "unlock", "return"}]
        /\ own' \in [Threads -> Adapters \cup {NoAdapter}]
        /\ todo' \in [Threads -> Seq([on : Adapters, req : Requests])]
        /\ slot' \in [Threads -> Ids \cup {<<>>}]
        /\ clean' \in [Threads -> SUBSET Adapters]
        /\ missed' \in [Threads -> SUBSET Adapters]
        /\ disturbed' \subseteq Adapters
        /\ opened' \in [Adapters -> BOOLEAN] /\ crashed' \in BOOLEAN
    BY BeginTypes DEF IInv
  <2>2. session' \in [Adapters -> BOOLEAN] /\ sticky' \in [Adapters -> BOOLEAN]
    BY Zenon DEF IInv, TypeOK
  <2>3. /\ connections' \in [Ids -> Adapters \cup {NoAdapter}]
        /\ kind' \in [Adapters -> Kinds]
        /\ life' \in [Adapters -> {"free", "made", "kept", "dead"}]
    BY Zenon DEF IInv, TypeOK
  <2>4. lock' \in Threads \cup {NoThread}
        /\ excuse' \subseteq {"removal", "overlap"}
    BY DEF IInv, TypeOK
  <2> QED BY <2>1, <2>2, <2>3, <2>4, Zenon DEF TypeOK
<1>4. TableShape'
  BY DEF IInv, TableShape, Connected
<1>5. OwnShape'
  <2>1. \A u \in Threads : then[u] \notin {"erase", "destroy", "unlock"}
    BY ManagerAssumption DEF IInv, OwnShape
  <2>2. \A u \in Threads \ {t} : (lock' = u) <=> FALSE
    BY ManagerAssumption
  <2> QED BY <1>1, <1>2, <2>1, <2>2, ManagerAssumption DEF IInv, OwnShape
<1>6. TodoShape'
  BY BeginTodo DEF IInv
<1>7. AloneShape'
  <2> SUFFICES ASSUME excuse' = {}
               PROVE  AloneShape'
    BY DEF AloneShape
  <2>1. excuse = {} /\ next # "erase"
    OBVIOUS
  <2>2. Connected' = Connected
    BY DEF Connected
  <2>3. /\ ~crashed'
        /\ \A j \in Connected' : j[1] <= Cardinality(Connected')
    BY <1>1, <2>1, <2>2, Zenon DEF IInv, AloneShape
  <2>4. \A u \in Threads :
          /\ then'[u] \notin {"erase", "destroy"}
          /\ then'[u] = "insert" =>
               /\ u # t /\ slot'[u][1] = Cardinality(Connected) + 1
               /\ \A v \in Threads \ {u} : then'[v] # "insert"
          /\ then'[u] = "return" => life[own'[u]] = "kept"
    BY <1>1, <1>2, <2>1 DEF IInv, AloneShape
  <2>5. \A u \in Threads : then'[u] # "insert" =>
          \A n \in DOMAIN todo'[u] : life[todo'[u][n].on] = "kept"
    BY <1>1, <1>2, <2>1 DEF IInv, AloneShape, Proper
  <2> QED BY <2>2, <2>3, <2>4, <2>5 DEF AloneShape
<1>8. SessionShape'
  <2>1. \A b : Excused(b) => Excused(b)'
    BY <1>1, Zenon DEF Excused
  <2>2. \A b \in Adapters :
          /\ opened'[b] => life'[b] # "free"
          /\ opened'[b] /\ ~Excused(b)' =>
               life'[b] # "dead" /\ session'[b] /\ kind'[b] = "VMWARE"
    BY <1>1, <2>1, Zenon DEF IInv, SessionShape
  <2>3. ASSUME NEW u \in Threads, then'[u] \in {"erase", "destroy"},
               todo'[u] = <<>>, opened'[own'[u]]
        PROVE  Excused(own[u])'
    <3>1. CASE u = t
      <4>1. next = "erase" /\ q = <<>> /\ own'[u] = a
        BY <1>1, <2>3, <3>1
      <4>2. ~(kind[a] = "VMWARE" /\ session[a]) /\ a \in Adapters
        BY <4>1
      <4>3. opened[a]
        BY <1>1, <2>3, <4>1
      <4>4. Excused(a)
        BY <4>2, <4>3, Zenon DEF IInv, SessionShape
      <4> QED BY <1>1, <4>1, <4>4, Zenon DEF Excused
    <3>2. CASE u # t
      <4>1. /\ then[u] \in {"erase", "destroy"} /\ todo[u] = <<>>
            /\ own'[u] = own[u]
        BY <1>2, <2>3, <3>2
      <4>2. opened[own[u]]
        BY <1>1, <2>3, <4>1
      <4>3. Excused(own[u])
        BY <4>1, <4>2, Zenon DEF IInv, SessionShape
      <4> QED BY <1>1, <4>1, <4>3, Zenon DEF Excused
    <3> QED BY <3>1, <3>2
  <2> QED BY <2>2, <2>3, Zenon DEF SessionShape
<1>9. ShareShape' /\ TrueMeansDone'
  BY BeginShares DEF IInv
<1> QED BY <1>3, <1>4, <1>5, <1>6, <1>7, <1>8, <1>9 DEF IInv

LEMMA RemoveConnectionStep ==
  ASSUME IInv, NEW t \in Threads, NEW i \in Ids, RemoveConnection(t, i)
  PROVE  IInv'
<1> DEFINE a == connections[i]
           q == Disconnect(a)
<1>1. /\ then[t] = "idle" /\ lock = NoThread /\ lock' = t
      /\ Begin(t, q, "erase", a, i)
      /\ connections' = connections /\ life' = life /\ kind' = kind
      /\ session' = session /\ sticky' = sticky
      /\ excuse' = excuse \cup {"removal"}
  BY DEF RemoveConnection, Busy, adapters
<1>2. a \in Adapters /\ life[a] = "kept"
  BY DEF RemoveConnection, Connected, IInv, TypeOK, TableShape
<1>3. /\ q \in Seq(Tasks) /\ Proper(q, "erase", a)
      /\ kind[a] = "VMWARE" /\ session[a] => q # <<>>
  BY <1>2, DisconnectProper DEF Proper
<1> HIDE DEF q
<1> QED BY <1>1, <1>2, <1>3, StartStep

LEMMA ListVmsStep ==
  ASSUME IInv, NEW t \in Threads, NEW kinds, ListVms(t, kinds)
  PROVE  IInv'
<1> DEFINE asked == {connections[i] : i \in Connected}
<1>1. PICK q \in Listings(asked, kinds) : Begin(t, q, "unlock", NoAdapter, <<>>)
  BY DEF ListVms
<1>2. /\ then[t] = "idle" /\ lock = NoThread /\ lock' = t
      /\ connections' = connections /\ life' = life /\ kind' = kind
      /\ session' = session /\ sticky' = sticky /\ excuse' = excuse
  BY DEF ListVms, Busy, adapters
<1>3. asked \in SUBSET Adapters /\ \A a \in asked : life[a] = "kept"
  BY DEF Connected, IInv, TypeOK, TableShape
<1>4. kind \in [Adapters -> Kinds]
  BY DEF IInv, TypeOK
<1> HIDE DEF asked
<1>5. Proper(q, "unlock", NoAdapter) /\ q \in Seq(Tasks)
  <2>1. Proper(q, "unlock", NoAdapter)
    BY <1>3, <1>4, ListingProper
  <2> QED BY <2>1 DEF Proper
<1> QED BY <1>1, <1>2, <1>5, StartStep

LEMMA CallStep ==
  ASSUME IInv, NEW t \in Threads, NEW i \in Ids,
         NEW op \in Operations, NEW config \in BackupConfigs,
         Call(t, i, op, config)
  PROVE  IInv'
<1> DEFINE a == connections[i]
           q == On(a, Script(a, op, config))
<1>1. /\ then[t] = "idle" /\ lock = NoThread /\ lock' = lock
      /\ Begin(t, q, "return", a, <<>>)
      /\ connections' = connections /\ life' = life /\ kind' = kind
      /\ session' = session /\ sticky' = sticky /\ excuse' = excuse
  BY DEF Call, Busy, adapters
<1>2. a \in Adapters /\ life[a] = "kept" /\ kind[a] \in Kinds
  BY DEF Call, Connected, IInv, TypeOK, TableShape
<1>3. q \in Seq(Tasks) /\ Proper(q, "return", a)
  <2>1. op \in InterfaceOperations
    BY ManagerAssumption
  <2>2. Proper(q, "return", a)
    BY <1>2, <2>1, ScriptShort, ScriptProper
  <2> QED BY <2>2 DEF Proper
<1> HIDE DEF q
<1> QED BY <1>1, <1>2, <1>3, StartStep
-----------------------------------------------------------------------------
(* A call that ends.                                                       *)

LEMMA IdleTypes ==
  ASSUME TypeOK, NEW t \in Threads, Idle(t)
  PROVE  /\ then' \in [Threads ->
              {"idle", "insert", "erase", "destroy", "unlock", "return"}]
         /\ own' \in [Threads -> Adapters \cup {NoAdapter}]
         /\ slot' \in [Threads -> Ids \cup {<<>>}]
         /\ clean' \in [Threads -> SUBSET Adapters]
         /\ missed' \in [Threads -> SUBSET Adapters]
BY DEF TypeOK, Idle

LEMMA IdleShares ==
  ASSUME TypeOK, ShareShape, TrueMeansDone, sticky' = sticky,
         NEW t \in Threads, todo'[t] = <<>>, clean'[t] = {}, missed'[t] = {},
         \A u \in Threads \ {t} : SameCall(u), disturbed \subseteq disturbed'
  PROVE  ShareShape' /\ TrueMeansDone'
<1>1. Uses(t)' = {} /\ \A u \in Threads \ {t} : Uses(u)' = Uses(u)
  BY DEF Uses, SameCall
<1>2. \A u, v \in Threads : u # v => Uses(u)' \cap Uses(v)' \subseteq disturbed'
  BY <1>1 DEF ShareShape
<1>3. ASSUME NEW u \in Threads, NEW n \in DOMAIN todo'[u],
             todo'[u][n].on \in clean'[u], sticky'[todo'[u][n].on]
      PROVE  todo'[u][n].on \in disturbed' \/ todo'[u][n].req.verb = "DELETE"
  <2>1. u # t
    BY <1>3
  <2>2. todo'[u] = todo[u] /\ clean'[u] = clean[u]
    BY <2>1 DEF SameCall
  <2> QED BY <1>3, <2>2, Zenon DEF ShareShape
<1>4. ShareShape'
  BY <1>2, <1>3 DEF ShareShape
<1>5. TrueMeansDone'
  <2>1. \A u \in Threads \ {t} : missed'[u] = missed[u] /\ clean'[u] = clean[u]
    BY DEF SameCall
  <2> QED BY <2>1, Zenon DEF TrueMeansDone
<1> QED BY <1>4, <1>5

-----------------------------------------------------------------------------
(* A new adapter is stored.                                                *)

LEMMA InsertTable ==
  ASSUME IInv, NEW t \in Threads, Insert(t)
  PROVE  /\ slot[t] \in Ids /\ own[t] \in Adapters /\ life[own[t]] = "made"
         /\ \A j \in Ids : connections[j] # own[t]
         /\ \A j \in Ids : connections'[j] =
              IF j = slot[t] THEN own[t] ELSE connections[j]
         /\ \A b \in Adapters : life'[b] = IF b = own[t] THEN "kept" ELSE life[b]
         /\ connections' \in [Ids -> Adapters \cup {NoAdapter}]
         /\ life' \in [Adapters -> {"free", "made", "kept", "dead"}]
         /\ Connected' = Connected \cup {slot[t]}
         /\ TableShape'
<1>1. /\ then[t] = "insert"
      /\ connections' = [connections EXCEPT ![slot[t]] = own[t]]
      /\ life' = [life EXCEPT ![own[t]] = "kept"]
  BY DEF Insert
<1>2. slot[t] \in Ids /\ own[t] \in Adapters /\ life[own[t]] = "made"
  BY <1>1 DEF IInv, OwnShape
<1>3. \A j \in Ids : connections[j] # own[t]
  BY <1>2, ManagerAssumption DEF IInv, TableShape, Connected
<1>4. /\ \A j \in Ids : connections'[j] =
           IF j = slot[t] THEN own[t] ELSE connections[j]
      /\ \A b \in Adapters : life'[b] = IF b = own[t] THEN "kept" ELSE life[b]
      /\ connections' \in [Ids -> Adapters \cup {NoAdapter}]
      /\ life' \in [Adapters -> {"free", "made", "kept", "dead"}]
  BY <1>1, <1>2 DEF IInv, TypeOK
<1>5. own[t] # NoAdapter
  BY <1>2, ManagerAssumption
<1>6. Connected' = Connected \cup {slot[t]}
  BY <1>2, <1>4, <1>5 DEF Connected
<1>7. TableShape'
  <2>1. \A j \in Connected : connections[j] \in Adapters
    BY DEF Connected, IInv, TypeOK
  <2>2. \A j \in Connected : j \in Ids
    BY DEF Connected
  <2> QED BY <1>2, <1>3, <1>4, <1>6, <2>1, <2>2 DEF IInv, TableShape
<1> QED BY <1>2, <1>3, <1>4, <1>6, <1>7

LEMMA InsertNewStep ==
  ASSUME IInv, NEW t \in Threads, Insert(t), connections[slot[t]] = NoAdapter
  PROVE  IInv'
<1>1. /\ then[t] = "insert" /\ todo[t] = <<>> /\ lock = NoThread
      /\ Idle(t) /\ lock' = lock /\ todo' = todo
      /\ opened' = opened /\ crashed' = crashed /\ disturbed' = disturbed
      /\ kind' = kind /\ session' = session /\ sticky' = sticky
      /\ excuse' = excuse
  BY DEF Insert
<1>2. /\ slot[t] \in Ids /\ own[t] \in Adapters /\ life[own[t]] = "made"
      /\ \A j \in Ids : connections[j] # own[t]
      /\ \A j \in Ids : connections'[j] =
           IF j = slot[t] THEN own[t] ELSE connections[j]
      /\ \A b \in Adapters : life'[b] = IF b = own[t] THEN "kept" ELSE life[b]
      /\ connections' \in [Ids -> Adapters \cup {NoAdapter}]
      /\ life' \in [Adapters -> {"free", "made", "kept", "dead"}]
      /\ Connected' = Connected \cup {slot[t]}
      /\ TableShape'
  BY InsertTable
<1>3. /\ then'[t] = "idle" /\ clean'[t] = {} /\ missed'[t] = {}
      /\ \A u \in Threads \ {t} : SameCall(u)
  BY <1>1, IdleEffect DEF IInv
<1>4. \A u \in Threads \ {t} :
        then'[u] = then[u] /\ own'[u] = own[u] /\ slot'[u] = slot[u]
  BY <1>3 DEF SameCall
<1>5. TypeOK'
  <2>1. /\ then' \in [Threads ->
             {"idle", "insert", "erase", "destroy", "unlock", "return"}]
        /\ own' \in [Threads -> Adapters \cup {NoAdapter}]
        /\ slot' \in [Threads -> Ids \cup {<<>>}]
        /\ clean' \in [Threads -> SUBSET Adapters]
        /\ missed' \in [Threads -> SUBSET Adapters]
    BY <1>1, IdleTypes DEF IInv
  <2>2. /\ session' \in [Adapters -> BOOLEAN] /\ sticky' \in [Adapters -> BOOLEAN]
        /\ opened' \in [Adapters -> BOOLEAN] /\ crashed' \in BOOLEAN
    BY <1>1, Zenon DEF IInv, TypeOK
  <2>3. /\ lock' \in Threads \cup {NoThread} /\ kind' \in [Adapters -> Kinds]
        /\ todo' \in [Threads -> Seq([on : Adapters, req : Requests])]
        /\ disturbed' \subseteq Adapters
        /\ excuse' \subseteq {"removal", "overlap"}
    BY <1>1, Zenon DEF IInv, TypeOK
  <2> QED BY <1>2, <2>1, <2>2, <2>3, Zenon DEF TypeOK
<1>6. OwnShape'
  <2>1. \A u \in Threads :
          /\ then[u] \notin {"erase", "destroy", "unlock"} /\ lock' # u
          /\ then[u] = "insert" /\ u # t => own[u] # own[t]
    BY <1>1, ManagerAssumption DEF IInv, OwnShape
  <2> QED BY <1>2, <1>3, <1>4, <2>1 DEF IInv, OwnShape
<1>7. TodoShape'
  <2>1. \A b \in Adapters : life[b] \in {"kept", "dead"} =>
          life'[b] \in {"kept", "dead"}
    BY <1>2
  <2>2. \A u \in Threads : CallTodo(todo[u], then[u], own[u], life')
    BY <2>1, TodoStays DEF IInv, TodoShape
  <2>3. CallTodo(todo'[t], then'[t], own'[t], life')
    BY <1>1, <1>3, NoTodo
  <2> QED BY <1>1, <1>4, <2>2, <2>3, TodoNext
<1>8. AloneShape'
  <2> SUFFICES ASSUME excuse' = {}
               PROVE  AloneShape'
    BY DEF AloneShape
  <2>1. excuse = {}
    BY <1>1
  <2>2. slot[t] \notin Connected
    BY DEF Connected
  <2>3. /\ Cardinality(Connected) \in Nat
        /\ Cardinality(Connected') = Cardinality(Connected) + 1
    BY <1>2, <2>2, Counting, FS_AddElement DEF IInv
  <2>4. /\ slot[t][1] = Cardinality(Connected) + 1
        /\ \A u \in Threads \ {t} : then[u] # "insert"
        /\ \A j \in Connected : j[1] <= Cardinality(Connected)
    BY <1>1, <2>1 DEF IInv, AloneShape
  <2>5. \A j \in Connected : j[1] \in Int
    <3>1. \A j \in Connected : j[1] \in 1..Cardinality(Adapters)
      BY DEF Connected, Ids
    <3>2. Cardinality(Adapters) \in Nat
      BY ManagerAssumption, FS_CardinalityType
    <3> QED BY <3>1, <3>2
  <2>6. \A j \in Connected' : j[1] <= Cardinality(Connected')
    BY <1>2, <2>3, <2>4, <2>5
  <2>7. ~crashed'
    BY <1>1, <2>1, Zenon DEF IInv, AloneShape
  <2>8. \A b \in Adapters : life[b] = "kept" => life'[b] = "kept"
    BY <1>2
  <2>9. \A u \in Threads : \A n \in DOMAIN todo[u] : todo[u][n].on \in Adapters
    BY TaskTypes DEF IInv
  <2>10. \A u \in Threads \ {t} :
          /\ then'[u] \notin {"erase", "destroy", "insert"}
          /\ then'[u] = "return" => life'[own'[u]] = "kept"
          /\ \A n \in DOMAIN todo'[u] : life'[todo'[u][n].on] = "kept"
    BY <1>1, <1>4, <2>1, <2>4, <2>8, <2>9 DEF IInv, AloneShape, OwnShape
  <2>11. DOMAIN todo'[t] = {}
    BY <1>1
  <2> QED BY <1>3, <2>6, <2>7, <2>10, <2>11 DEF AloneShape
<1>9. SessionShape'
  <2>1. \A b \in Adapters :
          /\ life'[b] = "free" => life[b] = "free"
          /\ life'[b] = "dead" => life[b] = "dead"
    BY <1>2
  <2>2. \A b \in Adapters :
          /\ opened'[b] => life'[b] # "free"
          /\ opened'[b] /\ ~Excused(b)' =>
               life'[b] # "dead" /\ session'[b] /\ kind'[b] = "VMWARE"
    BY <1>1, <2>1, Zenon DEF IInv, SessionShape, Excused
  <2>3. \A u \in Threads : then'[u] \notin {"erase", "destroy"}
    BY <1>1, <1>3, <1>4, ManagerAssumption DEF IInv, OwnShape
  <2> QED BY <2>2, <2>3, Zenon DEF SessionShape
<1>10. ShareShape' /\ TrueMeansDone'
  BY <1>1, <1>3, IdleShares DEF IInv
<1> QED BY <1>2, <1>5, <1>6, <1>7, <1>8, <1>9, <1>10 DEF IInv
(* The adapter that had the id is destroyed with the mutex held; that      *)
(* takes a removal, or connects that overlap.                              *)
LEMMA InsertOverStep ==
  ASSUME IInv, NEW t \in Threads, Insert(t), connections[slot[t]] # NoAdapter
  PROVE  IInv'
<1> DEFINE old == connections[slot[t]]
           q == Disconnect(old)
<1>1. /\ then[t] = "insert" /\ lock = NoThread /\ lock' = t
      /\ Begin(t, q, "destroy", old, slot[t])
      /\ kind' = kind /\ session' = session /\ sticky' = sticky
      /\ excuse' = excuse
  BY DEF Insert
<1>2. /\ slot[t] \in Ids /\ own[t] \in Adapters /\ life[own[t]] = "made"
      /\ \A j \in Ids : connections[j] # own[t]
      /\ \A j \in Ids : connections'[j] =
           IF j = slot[t] THEN own[t] ELSE connections[j]
      /\ \A b \in Adapters : life'[b] = IF b = own[t] THEN "kept" ELSE life[b]
      /\ connections' \in [Ids -> Adapters \cup {NoAdapter}]
      /\ life' \in [Adapters -> {"free", "made", "kept", "dead"}]
      /\ Connected' = Connected \cup {slot[t]}
      /\ TableShape'
  BY InsertTable
<1>3. /\ old \in Adapters /\ life[old] = "kept" /\ old # own[t]
      /\ \A j \in Ids : j # slot[t] => connections[j] # old
  BY <1>2 DEF IInv, TypeOK, TableShape, Connected
<1>4. /\ q \in Seq(Tasks) /\ Proper(q, "destroy", old)
      /\ kind[old] = "VMWARE" /\ session[old] => q # <<>>
  BY <1>3, DisconnectProper DEF Proper
<1> HIDE DEF q
<1>5. /\ todo'[t] = q /\ then'[t] = "destroy" /\ own'[t] = old
      /\ slot'[t] = slot[t] /\ \A u \in Threads \ {t} : SameCall(u)
      /\ disturbed \subseteq disturbed' /\ opened' = opened
      /\ crashed' = crashed
  BY <1>1, BeginEffect DEF IInv
<1>6. \A u \in Threads \ {t} :
        /\ todo'[u] = todo[u] /\ then'[u] = then[u]
        /\ own'[u] = own[u] /\ slot'[u] = slot[u]
  BY <1>5 DEF SameCall
<1>7. TypeOK'
  <2>1. /\ then' \in [Threads ->
             {"idle", "insert", "erase", "destroy", "unlock", "return"}]
        /\ own' \in [Threads -> Adapters \cup {NoAdapter}]
        /\ todo' \in [Threads -> Seq([on : Adapters, req : Requests])]
        /\ slot' \in [Threads -> Ids \cup {<<>>}]
        /\ clean' \in [Threads -> SUBSET Adapters]
        /\ missed' \in [Threads -> SUBSET Adapters]
        /\ disturbed' \subseteq Adapters
        /\ opened' \in [Adapters -> BOOLEAN] /\ crashed' \in BOOLEAN
    BY <1>1, <1>2, <1>3, <1>4, BeginTypes DEF IInv
  <2>2. session' \in [Adapters -> BOOLEAN] /\ sticky' \in [Adapters -> BOOLEAN]
    BY <1>1, Zenon DEF IInv, TypeOK
  <2>3. /\ lock' \in Threads \cup {NoThread} /\ kind' \in [Adapters -> Kinds]
        /\ excuse' \subseteq {"removal", "overlap"}
    BY <1>1 DEF IInv, TypeOK
  <2> QED BY <1>2, <2>1, <2>2, <2>3, Zenon DEF TypeOK
<1>8. OwnShape'
  <2>1. \A u \in Threads :
          /\ then[u] \notin {"erase", "destroy", "unlock"} /\ lock # u
          /\ then[u] = "insert" /\ u # t => own[u] # own[t]
    BY <1>1, ManagerAssumption DEF IInv, OwnShape
  <2>2. \A j \in Ids : connections'[j] # old
    BY <1>2, <1>3
  <2>3. life'[old] = "kept"
    BY <1>2, <1>3
  <2> HIDE DEF old
  <2> QED BY <1>1, <1>2, <1>3, <1>5, <1>6, <2>1, <2>2, <2>3 DEF IInv, OwnShape
<1>9. TodoShape'
  <2>1. \A b \in Adapters : life[b] \in {"kept", "dead"} =>
          life'[b] \in {"kept", "dead"}
    BY <1>2
  <2> QED BY <1>1, <1>4, <2>1, BeginTodo DEF IInv
<1>10. excuse' # {}
  <2> SUFFICES ASSUME excuse = {}
               PROVE  FALSE
    BY <1>1
  <2>1. /\ slot[t][1] = Cardinality(Connected) + 1
        /\ \A j \in Connected : j[1] <= Cardinality(Connected)
    BY <1>1 DEF IInv, AloneShape
  <2>2. slot[t] \in Connected
    BY <1>2 DEF Connected
  <2>3. Cardinality(Connected) \in Nat
    BY Counting DEF IInv
  <2> QED BY <2>1, <2>2, <2>3
<1>11. AloneShape'
  BY <1>10 DEF AloneShape
<1>12. SessionShape'
  <2>1. \A b \in Adapters :
          /\ life'[b] = "free" => life[b] = "free"
          /\ life'[b] = "dead" => life[b] = "dead"
    BY <1>2
  <2>2. \A b \in Adapters :
          /\ opened'[b] => life'[b] # "free"
          /\ opened'[b] /\ ~Excused(b)' =>
               life'[b] # "dead" /\ session'[b] /\ kind'[b] = "VMWARE"
    BY <1>1, <1>5, <2>1, Zenon DEF IInv, SessionShape, Excused
  <2>3. ASSUME NEW u \in Threads, then'[u] \in {"erase", "destroy"},
               todo'[u] = <<>>, opened'[own'[u]]
        PROVE  Excused(own[u])'
    <3>1. u = t
      BY <1>1, <1>6, <2>3, ManagerAssumption DEF IInv, OwnShape
    <3>2. q = <<>> /\ own'[u] = old
      BY <1>5, <2>3, <3>1
    <3>3. ~(kind[old] = "VMWARE" /\ session[old])
      BY <1>4, <3>2
    <3>4. opened[old]
      BY <1>5, <2>3, <3>2
    <3>5. Excused(old)
      BY <1>3, <3>3, <3>4, Zenon DEF IInv, SessionShape
    <3> HIDE DEF old
    <3> QED BY <1>1, <1>5, <3>2, <3>5, Zenon DEF Excused
  <2> QED BY <2>2, <2>3, Zenon DEF SessionShape
<1>13. ShareShape' /\ TrueMeansDone'
  BY <1>1, BeginShares DEF IInv
<1> QED BY <1>2, <1>7, <1>8, <1>9, <1>11, <1>12, <1>13 DEF IInv

-----------------------------------------------------------------------------
(* A step that uses a destroyed adapter.                                   *)

LEMMA SameStep ==
  ASSUME IInv, UNCHANGED <<connections, lock, adapters, calls, opened, history>>,
         crashed' \in BOOLEAN, crashed' => crashed \/ excuse # {}
  PROVE  IInv'
<1>1. /\ connections' = connections /\ lock' = lock /\ kind' = kind
      /\ life' = life /\ session' = session /\ sticky' = sticky
      /\ todo' = todo /\ then' = then /\ own' = own /\ slot' = slot
      /\ opened' = opened /\ disturbed' = disturbed /\ clean' = clean
      /\ missed' = missed /\ excuse' = excuse
  BY DEF adapters, calls, history
<1>3. TypeOK'
  <2>1. /\ session' \in [Adapters -> BOOLEAN] /\ sticky' \in [Adapters -> BOOLEAN]
        /\ opened' \in [Adapters -> BOOLEAN]
        /\ connections' \in [Ids -> Adapters \cup {NoAdapter}]
        /\ lock' \in Threads \cup {NoThread} /\ kind' \in [Adapters -> Kinds]
        /\ life' \in [Adapters -> {"free", "made", "kept", "dead"}]
    BY <1>1, Zenon DEF IInv, TypeOK
  <2>2. /\ then' \in [Threads ->
             {"idle", "insert", "erase", "destroy", "unlock", "return"}]
        /\ own' \in [Threads -> Adapters \cup {NoAdapter}]
        /\ todo' \in [Threads -> Seq([on : Adapters, req : Requests])]
        /\ slot' \in [Threads -> Ids \cup {<<>>}]
        /\ clean' \in [Threads -> SUBSET Adapters]
        /\ missed' \in [Threads -> SUBSET Adapters]
        /\ disturbed' \subseteq Adapters
        /\ excuse' \subseteq {"removal", "overlap"}
    BY <1>1, Zenon DEF IInv, TypeOK
  <2> QED BY <2>1, <2>2, Zenon DEF TypeOK
<1>4. TableShape' /\ OwnShape' /\ TodoShape'
  BY <1>1 DEF IInv, TableShape, Connected, OwnShape, TodoShape, CallTodo, DeletesLast
<1>5. AloneShape'
  <2> SUFFICES ASSUME excuse = {}
               PROVE  AloneShape'
    BY <1>1 DEF AloneShape
  <2>1. ~crashed'
    BY Zenon DEF IInv, AloneShape
  <2>2. Connected' = Connected
    BY <1>1 DEF Connected
  <2> QED BY <1>1, <2>1, <2>2 DEF IInv, AloneShape
<1>6. SessionShape' /\ TrueMeansDone'
  BY <1>1, Zenon DEF IInv, SessionShape, Excused, TrueMeansDone
<1>7. ShareShape'
  BY <1>1 DEF IInv, ShareShape, Uses
<1> QED BY <1>3, <1>4, <1>5, <1>6, <1>7 DEF IInv

LEMMA CrashStep ==
  ASSUME IInv, Crash, excuse # {}
  PROVE  IInv'
<1>1. /\ crashed' \in BOOLEAN
      /\ UNCHANGED <<connections, lock, adapters, calls, opened, history>>
  BY DEF Crash
<1> QED BY <1>1, SameStep
-----------------------------------------------------------------------------
(* A call makes its next request.                                          *)

LEMMA TailTasks ==
  ASSUME TypeOK, NEW t \in Threads, todo[t] # <<>>,
         todo' = [todo EXCEPT ![t] = Tail(@)]
  PROVE  /\ todo' \in [Threads -> Seq([on : Adapters, req : Requests])]
         /\ 1 \in DOMAIN todo[t] /\ Head(todo[t]) = todo[t][1]
         /\ Head(todo[t]).on \in Adapters /\ Head(todo[t]).req \in Requests
         /\ Len(todo'[t]) = Len(todo[t]) - 1 /\ Len(todo[t]) \in Nat
         /\ todo'[t] = <<>> <=> Len(todo[t]) = 1
         /\ \A n \in DOMAIN todo'[t] :
              /\ n \in Nat /\ n + 1 \in DOMAIN todo[t] /\ 1 < n + 1
              /\ todo'[t][n] = todo[t][n + 1]
         /\ \A u \in Threads \ {t} : todo'[u] = todo[u]
<1> DEFINE q == todo[t]
<1>1. q \in Seq(Tasks) /\ q # <<>>
  BY DEF TypeOK, Tasks
<1>2. todo'[t] = Tail(q) /\ \A u \in Threads \ {t} : todo'[u] = todo[u]
  BY DEF TypeOK
<1>3. Tail(q) \in Seq(Tasks)
  <2> HIDE DEF q
  <2> QED BY <1>1
<1>4. /\ Head(q) = q[1] /\ 1 \in DOMAIN q /\ q[1] \in Tasks
      /\ Len(Tail(q)) = Len(q) - 1 /\ Len(q) \in Nat
      /\ DOMAIN Tail(q) = 1..(Len(q) - 1) /\ DOMAIN q = 1..Len(q)
      /\ \A n \in 1..(Len(q) - 1) : Tail(q)[n] = q[n + 1]
  <2> HIDE DEF q
  <2> QED BY <1>1
<1>5. Tail(q) = <<>> <=> Len(q) = 1
  <2> HIDE DEF q
  <2>1. Tail(q) = <<>> <=> Len(Tail(q)) = 0
    BY <1>3, EmptySeq
  <2> QED BY <1>4, <2>1
<1>6. todo' \in [Threads -> Seq([on : Adapters, req : Requests])]
  <2> HIDE DEF q
  <2>1. Tail(q) \in Seq([on : Adapters, req : Requests])
    BY <1>3 DEF Tasks
  <2> QED BY <2>1 DEF TypeOK, q
<1>7. q[1].on \in Adapters /\ q[1].req \in Requests
  BY <1>4 DEF Tasks
<1> HIDE DEF q
<1>8. \A n \in DOMAIN Tail(q) :
        /\ n \in Nat /\ n + 1 \in DOMAIN q /\ 1 < n + 1
        /\ Tail(q)[n] = q[n + 1]
  BY <1>4
<1>9. /\ Head(q) = q[1] /\ 1 \in DOMAIN q
      /\ Len(todo'[t]) = Len(q) - 1 /\ Len(q) \in Nat
      /\ todo'[t] = <<>> <=> Len(q) = 1
      /\ \A n \in DOMAIN todo'[t] :
           /\ n \in Nat /\ n + 1 \in DOMAIN q /\ 1 < n + 1
           /\ todo'[t][n] = q[n + 1]
  BY <1>2, <1>4, <1>5, <1>8
<1> QED BY <1>2, <1>6, <1>7, <1>9 DEF q

(* What a request may do: the hypervisor carries it out, or it was in vain *)
(* because of a DELETE that stuck, or it was lost.                         *)
LEMMA RequestStep ==
  ASSUME IInv, NEW t \in Threads, Request(t)
  PROVE  IInv'
<1> DEFINE a == Head(todo[t]).on
           r == Head(todo[t]).req
<1>1. /\ todo[t] # <<>> /\ r.what # "login"
  BY DEF Request
<1>2. /\ 1 \in DOMAIN todo[t] /\ Head(todo[t]) = todo[t][1] /\ a \in Adapters
      /\ r \in Requests
  <2>1. todo[t] \in Seq(Tasks)
    BY DEF IInv, TypeOK, Tasks
  <2>2. 1 \in DOMAIN todo[t] /\ Head(todo[t]) = todo[t][1]
    BY <1>1, <2>1
  <2>3. a \in Adapters /\ r \in Requests
    BY <2>2, TaskTypes DEF IInv
  <2> QED BY <2>2, <2>3
<1>3. /\ then[t] \notin {"insert", "idle"}
      /\ then[t] \in {"erase", "destroy"} =>
           r.what = "logout" /\ a = own[t] /\ Len(todo[t]) <= 1
      /\ life[a] \in {"kept", "dead"}
  BY <1>1, <1>2 DEF IInv, TodoShape, CallTodo
<1>4. CASE life[a] = "dead"
  <2>1. Crash
    BY <1>4 DEF Request
  <2>2. excuse # {}
    BY <1>2, <1>3, <1>4 DEF IInv, AloneShape
  <2> QED BY <2>1, <2>2, CrashStep
<1>5. CASE life[a] # "dead"
  <2>1. /\ todo' = [todo EXCEPT ![t] = Tail(@)]
        /\ sticky' = [sticky EXCEPT ![a] = @ \/ r.verb = "DELETE"]
        /\ connections' = connections /\ lock' = lock /\ kind' = kind
        /\ life' = life /\ session' = session /\ then' = then /\ own' = own
        /\ slot' = slot /\ crashed' = crashed /\ clean' = clean
        /\ excuse' = excuse
    BY <1>5 DEF Request
  <2> DEFINE vain == [missed EXCEPT ![t] = @ \cup {a}]
             done == /\ ~sticky[a] \/ r.verb = "DELETE"
                     /\ opened' = [opened EXCEPT ![a] = @ /\ r.what # "logout"]
                     /\ missed' = missed /\ disturbed' = disturbed
             turned == /\ sticky[a] /\ r.verb # "DELETE"
                       /\ missed' = vain
                       /\ opened' = opened /\ disturbed' = disturbed
             lost == /\ missed' = vain /\ disturbed' = disturbed \cup {a}
                     /\ opened' = opened
  <2>2. done \/ turned \/ lost
    <3>1. LET verb == IF sticky[a] THEN "DELETE" ELSE r.verb IN
          \/ /\ verb = r.verb
             /\ opened' = [opened EXCEPT ![a] = @ /\ r.what # "logout"]
             /\ missed' = missed /\ disturbed' = disturbed
          \/ /\ verb # r.verb
             /\ missed' = vain
             /\ opened' = opened /\ disturbed' = disturbed
          \/ /\ missed' = vain
             /\ disturbed' = disturbed \cup {a}
             /\ opened' = opened
      BY <1>5, Zenon DEF Request
    <3> QED BY <3>1, Zenon
  <2> HIDE DEF a, r
  <2>3. /\ todo' \in [Threads -> Seq([on : Adapters, req : Requests])]
        /\ Len(todo'[t]) = Len(todo[t]) - 1 /\ Len(todo[t]) \in Nat
        /\ todo'[t] = <<>> <=> Len(todo[t]) = 1
        /\ \A n \in DOMAIN todo'[t] :
             /\ n \in Nat /\ n + 1 \in DOMAIN todo[t] /\ 1 < n + 1
             /\ todo'[t][n] = todo[t][n + 1]
        /\ \A u \in Threads \ {t} : todo'[u] = todo[u]
    BY <1>1, <2>1, TailTasks DEF IInv
  <2>4. \A b \in Adapters :
          /\ b # a => sticky'[b] = sticky[b]
          /\ sticky[b] => sticky'[b]
          /\ r.verb # "DELETE" => (sticky'[b] <=> sticky[b])
          /\ sticky'[b] /\ b = a => sticky[b] \/ r.verb = "DELETE"
    BY <1>2, <2>1, Zenon DEF IInv, TypeOK
  <2>5. \A b \in Adapters :
          /\ opened'[b] => opened[b]
          /\ done /\ b = a /\ r.what = "logout" => ~opened'[b]
    <3>1. CASE done
      BY <1>2, <3>1, Zenon DEF IInv, TypeOK
    <3>2. CASE turned \/ lost
      BY <1>2, <3>2, Zenon DEF IInv, TypeOK
    <3> QED BY <2>2, <3>1, <3>2, Zenon
  <2>6. disturbed \subseteq disturbed'
    BY <2>2
  <2>7. \A u \in Threads :
          /\ missed[u] \subseteq missed'[u]
          /\ missed'[u] \subseteq missed[u] \cup {a}
          /\ u # t => missed'[u] = missed[u]
          /\ done => missed'[u] = missed[u]
    BY <2>2 DEF IInv, TypeOK
  <2> HIDE DEF done, turned, lost
  <2>8. \A u \in Threads : Uses(u)' \subseteq Uses(u)
    <3>1. Uses(t)' \subseteq Uses(t)
      BY <2>3 DEF Uses
    <3>2. \A u \in Threads \ {t} : Uses(u)' = Uses(u)
      BY <2>3 DEF Uses
    <3> QED BY <3>1, <3>2
  <2>9. TypeOK'
    <3>1. opened' \in [Adapters -> BOOLEAN] /\ sticky' \in [Adapters -> BOOLEAN]
      <4>1. opened' \in [Adapters -> BOOLEAN]
        <5>1. CASE done
          BY <1>2, <5>1, Zenon DEF IInv, TypeOK, done
        <5>2. CASE turned \/ lost
          BY <5>2, Zenon DEF IInv, TypeOK, turned, lost
        <5> QED BY <2>2, <5>1, <5>2
      <4>2. sticky' \in [Adapters -> BOOLEAN]
        BY <1>2, <2>1, Zenon DEF IInv, TypeOK
      <4> QED BY <4>1, <4>2
    <3>2. missed' \in [Threads -> SUBSET Adapters] /\ disturbed' \subseteq Adapters
      <4>1. CASE done
        BY <4>1, Zenon DEF IInv, TypeOK, done
      <4>2. CASE turned \/ lost
        <5>1. missed' = vain /\ disturbed' \subseteq disturbed \cup {a}
          BY <4>2 DEF turned, lost
        <5>2. missed' \in [Threads -> SUBSET Adapters]
          BY <1>2, <5>1 DEF IInv, TypeOK
        <5> QED BY <1>2, <5>1, <5>2 DEF IInv, TypeOK
      <4> QED BY <2>2, <4>1, <4>2
    <3>3. /\ connections' \in [Ids -> Adapters \cup {NoAdapter}]
          /\ lock' \in Threads \cup {NoThread}
          /\ kind' \in [Adapters -> Kinds]
          /\ life' \in [Adapters -> {"free", "made", "kept", "dead"}]
          /\ session' \in [Adapters -> BOOLEAN] /\ crashed' \in BOOLEAN
      BY <2>1, Zenon DEF IInv, TypeOK
    <3>4. /\ then' \in [Threads ->
               {"idle", "insert", "erase", "destroy", "unlock", "return"}]
          /\ own' \in [Threads -> Adapters \cup {NoAdapter}]
          /\ slot' \in [Threads -> Ids \cup {<<>>}]
          /\ clean' \in [Threads -> SUBSET Adapters]
          /\ excuse' \subseteq {"removal", "overlap"}
      BY <2>1, Zenon DEF IInv, TypeOK
    <3> QED BY <2>3, <3>1, <3>2, <3>3, <3>4, Zenon DEF TypeOK
  <2>10. TableShape' /\ OwnShape'
    BY <2>1 DEF IInv, TableShape, Connected, OwnShape
  <2>11. TodoShape'
    <3>1. DeletesLast(todo'[t])
      <4> SUFFICES ASSUME NEW m \in DOMAIN todo'[t], NEW n \in DOMAIN todo'[t],
                          m < n, todo'[t][m].on = todo'[t][n].on,
                          todo'[t][m].req.verb = "DELETE"
                   PROVE  todo'[t][n].req.verb = "DELETE"
        BY DEF DeletesLast
      <4>1. /\ m + 1 \in DOMAIN todo[t] /\ todo'[t][m] = todo[t][m + 1]
            /\ n + 1 \in DOMAIN todo[t] /\ todo'[t][n] = todo[t][n + 1]
            /\ m + 1 < n + 1
        BY <2>3
      <4>2. DeletesLast(todo[t])
        BY DEF IInv, TodoShape, CallTodo
      <4> QED BY <4>1, <4>2 DEF DeletesLast
    <3>2. \A u \in Threads \ {t} : DeletesLast(todo'[u])
      BY ZenonT(30), <2>3 DEF IInv, TodoShape, CallTodo
    <3>3. \A u \in Threads : then[u] = "idle" => todo'[u] = <<>>
      BY <1>3, <2>3 DEF IInv, TodoShape, CallTodo
    <3>4. \A u \in Threads : then[u] \in {"insert", "erase", "destroy"} =>
            Len(todo'[u]) <= 1
      <4>1. then[t] \in {"insert", "erase", "destroy"} => Len(todo'[t]) <= 1
        BY <2>3 DEF IInv, TodoShape, CallTodo
      <4>2. \A u \in Threads \ {t} :
              then[u] \in {"insert", "erase", "destroy"} => Len(todo'[u]) <= 1
        BY <2>3 DEF IInv, TodoShape, CallTodo
      <4> QED BY <4>1, <4>2
    <3>5. \A u \in Threads : \A n \in DOMAIN todo'[u] :
            \E m \in DOMAIN todo[u] : todo'[u][n] = todo[u][m]
      BY <2>3
    <3>6. \A u \in Threads : \A n \in DOMAIN todo'[u] :
            /\ todo'[u][n].req.what = "login" <=> then[u] = "insert"
            /\ then[u] \in {"insert", "erase", "destroy"} =>
                 todo'[u][n].on = own[u]
            /\ then[u] \in {"erase", "destroy"} => todo'[u][n].req.what = "logout"
            /\ then[u] # "insert" => life[todo'[u][n].on] \in {"kept", "dead"}
      BY <3>5 DEF IInv, TodoShape, CallTodo
    <3> QED BY <2>1, <3>1, <3>2, <3>3, <3>4, <3>6 DEF TodoShape, CallTodo, DeletesLast
  <2>12. AloneShape'
    <3> SUFFICES ASSUME excuse = {}
                 PROVE  AloneShape'
      BY <2>1 DEF AloneShape
    <3>1. \A u \in Threads : \A n \in DOMAIN todo'[u] :
            \E m \in DOMAIN todo[u] : todo'[u][n] = todo[u][m]
      BY <2>3
    <3>2. \A u \in Threads : then[u] # "insert" =>
            \A n \in DOMAIN todo'[u] : life[todo'[u][n].on] = "kept"
      BY <3>1 DEF IInv, AloneShape
    <3>3. Connected' = Connected
      BY <2>1 DEF Connected
    <3>4. ~crashed'
      BY <2>1, Zenon DEF IInv, AloneShape
    <3> QED BY <2>1, <3>2, <3>3, <3>4 DEF IInv, AloneShape
  <2>13. \A b \in Adapters : Excused(b) => Excused(b)'
    BY <2>4, <2>6, Zenon DEF Excused
  <2>14. \A b \in Adapters :
          /\ opened'[b] => life'[b] # "free"
          /\ opened'[b] /\ ~Excused(b)' =>
               life'[b] # "dead" /\ session'[b] /\ kind'[b] = "VMWARE"
    BY <2>1, <2>5, <2>13, Zenon DEF IInv, SessionShape
  <2>15. ASSUME NEW u \in Threads, then'[u] \in {"erase", "destroy"},
               todo'[u] = <<>>, opened'[own'[u]]
        PROVE  Excused(own[u])'
    <3>1. then[u] \in {"erase", "destroy"} /\ own[u] \in Adapters
      BY <2>1, <2>15 DEF IInv, OwnShape
    <3>2. CASE u = t
      <4>1. r.what = "logout" /\ own[u] = a
        BY <1>3, <3>1, <3>2
      <4>2. ~done
        BY <1>2, <2>1, <2>5, <2>15, <4>1, Zenon
      <4>3. CASE turned
        <5>1. sticky[a]
          BY <4>3, Zenon DEF turned
        <5>2. sticky'[a]
          BY <1>2, <2>4, <5>1, Zenon
        <5> QED BY <2>1, <4>1, <5>2, Zenon DEF Excused
      <4>4. CASE lost
        <5>1. a \in disturbed'
          BY <4>4 DEF lost
        <5> QED BY <2>1, <4>1, <5>1, Zenon DEF Excused
      <4> QED BY <2>2, <4>2, <4>3, <4>4
    <3>3. CASE u # t
      <4>1. todo[u] = <<>>
        BY <2>3, <2>15, <3>3
      <4>2. opened[own[u]]
        BY <2>1, <2>5, <2>15, <3>1, Zenon
      <4>3. Excused(own[u])
        BY <3>1, <4>1, <4>2, Zenon DEF IInv, SessionShape
      <4>4. own' = own
        BY <2>1
      <4> QED BY <2>4, <2>6, <3>1, <4>3, <4>4, Zenon DEF Excused
    <3> QED BY <3>2, <3>3
  <2>16. SessionShape'
    BY <2>14, <2>15, Zenon DEF SessionShape
  <2>17. ShareShape'
    <3>1. \A u, v \in Threads : u # v => Uses(u)' \cap Uses(v)' \subseteq disturbed'
      BY <2>6, <2>8 DEF IInv, ShareShape
    <3>2. ASSUME NEW u \in Threads, NEW n \in DOMAIN todo'[u],
                 todo'[u][n].on \in clean'[u], sticky'[todo'[u][n].on]
          PROVE  todo'[u][n].on \in disturbed' \/ todo'[u][n].req.verb = "DELETE"
      <4> DEFINE b == todo'[u][n].on
      <4>1. PICK m \in DOMAIN todo[u] :
              todo'[u][n] = todo[u][m] /\ (u = t => 1 < m /\ m \in Nat)
        BY <2>3
      <4>2. b \in Adapters /\ b \in clean[u]
        BY <2>1, <3>2, <4>1, TaskTypes DEF IInv
      <4>3. CASE sticky[b]
        <5>1. todo[u][m].on \in clean[u] /\ sticky[todo[u][m].on]
          BY <4>1, <4>2, <4>3, Zenon
        <5>2. todo[u][m].on \in disturbed \/ todo[u][m].req.verb = "DELETE"
          BY <5>1, Zenon DEF IInv, ShareShape
        <5> QED BY <2>6, <4>1, <5>2, Zenon
      <4>4. CASE ~sticky[b]
        <5>1. b = a /\ r.verb = "DELETE"
          BY <2>4, <3>2, <4>2, <4>4, Zenon
        <5>2. CASE u = t
          <6>1. DeletesLast(todo[t]) /\ todo[t][1].on = a
                /\ todo[t][1].req.verb = "DELETE" /\ todo[t][m].on = a
            BY <1>2, <4>1, <5>1, <5>2 DEF IInv, TodoShape, CallTodo, a, r
          <6>2. todo[t][m].req.verb = "DELETE"
            BY <1>2, <4>1, <5>2, <6>1 DEF DeletesLast
          <6> QED BY <4>1, <5>2, <6>2
        <5>3. CASE u # t
          <6>1. a \in Uses(t) /\ a \in Uses(u)
            BY <1>2, <4>1, <5>1 DEF Uses, a
          <6> QED BY <2>6, <5>1, <5>3, <6>1 DEF IInv, ShareShape
        <5> QED BY <5>2, <5>3
      <4> QED BY <4>3, <4>4
    <3> QED BY <3>1, <3>2 DEF ShareShape
  <2>18. TrueMeansDone'
    <3> SUFFICES ASSUME NEW u \in Threads, NEW b \in missed'[u]
                 PROVE  b \in disturbed' \/ b \notin clean'[u]
      BY DEF TrueMeansDone
    <3>1. CASE b \in missed[u]
      BY <2>1, <2>6, <3>1 DEF IInv, TrueMeansDone
    <3>2. CASE b \notin missed[u]
      <4>1. u = t /\ b = a /\ ~done
        BY <2>7, <3>2
      <4>2. CASE turned
        <5>1. sticky[a] /\ r.verb # "DELETE"
          BY <4>2, Zenon DEF turned
        <5>2. a \in clean[t] => a \in disturbed
          <6>1. todo[t][1].on = a /\ todo[t][1].req = r
            BY <1>2 DEF a, r
          <6> QED BY <1>2, <5>1, <6>1, Zenon DEF IInv, ShareShape
        <5> QED BY <2>1, <2>6, <4>1, <5>2
      <4>3. CASE lost
        BY <4>1, <4>3 DEF lost
      <4> QED BY <2>2, <4>1, <4>2, <4>3
    <3> QED BY <3>1, <3>2
  <2> QED BY <2>9, <2>10, <2>11, <2>12, <2>16, <2>17, <2>18 DEF IInv
<1> QED BY <1>4, <1>5
-----------------------------------------------------------------------------
(* A new adapter logs in.                                                  *)

LEMMA LoginFacts ==
  ASSUME IInv, NEW t \in Threads, RequestLogin(t)
  PROVE  /\ then[t] = "insert" /\ own[t] \in Adapters /\ life[own[t]] = "made"
         /\ \A u \in Threads \ {t} : then[u] = "insert" => own[u] # own[t]
         /\ todo'[t] = <<>> /\ \A u \in Threads \ {t} : todo'[u] = todo[u]
         /\ todo' \in [Threads -> Seq([on : Adapters, req : Requests])]
         /\ connections' = connections /\ lock' = lock /\ kind' = kind
         /\ sticky' = sticky /\ crashed' = crashed /\ excuse' = excuse
<1>1. /\ todo[t] # <<>> /\ Head(todo[t]).req.what = "login"
      /\ todo' = [todo EXCEPT ![t] = Tail(@)]
  BY DEF RequestLogin
<1>2. /\ todo' \in [Threads -> Seq([on : Adapters, req : Requests])]
      /\ 1 \in DOMAIN todo[t] /\ Head(todo[t]) = todo[t][1]
      /\ Len(todo'[t]) = Len(todo[t]) - 1 /\ Len(todo[t]) \in Nat
      /\ todo'[t] = <<>> <=> Len(todo[t]) = 1
      /\ \A u \in Threads \ {t} : todo'[u] = todo[u]
  BY <1>1, TailTasks DEF IInv
<1>3. then[t] = "insert"
  BY <1>1, <1>2 DEF IInv, TodoShape, CallTodo
<1>4. own[t] \in Adapters /\ life[own[t]] = "made"
  BY <1>3 DEF IInv, OwnShape
<1>5. \A u \in Threads \ {t} : then[u] = "insert" => own[u] # own[t]
  BY <1>3 DEF IInv, OwnShape
<1>6. todo'[t] = <<>>
  <2>1. Len(todo[t]) <= 1 /\ Len(todo[t]) # 0
    <3>1. todo[t] \in Seq(Tasks)
      BY DEF IInv, TypeOK, Tasks
    <3> QED BY <1>1, <1>3, <3>1, EmptySeq DEF IInv, TodoShape, CallTodo
  <2> QED BY <1>2, <2>1
<1>7. /\ connections' = connections /\ lock' = lock /\ kind' = kind
      /\ sticky' = sticky /\ crashed' = crashed /\ excuse' = excuse
  BY DEF RequestLogin
<1> QED BY <1>2, <1>3, <1>4, <1>5, <1>6, <1>7

(* The login succeeds: the session is known to the adapter.                *)
LEMMA LoginDone ==
  ASSUME IInv, NEW t \in Threads, RequestLogin(t), NEW reached \in BOOLEAN,
         opened' = [opened EXCEPT ![own[t]] = reached /\ kind[own[t]] = "VMWARE"],
         session' = [session EXCEPT ![own[t]] = TRUE],
         life' = life, then' = then, own' = own, slot' = slot,
         disturbed' = disturbed, clean' = clean, missed' = missed
  PROVE  IInv'
<1>1. /\ then[t] = "insert" /\ own[t] \in Adapters /\ life[own[t]] = "made"
      /\ \A u \in Threads \ {t} : then[u] = "insert" => own[u] # own[t]
      /\ todo'[t] = <<>> /\ \A u \in Threads \ {t} : todo'[u] = todo[u]
      /\ todo' \in [Threads -> Seq([on : Adapters, req : Requests])]
      /\ connections' = connections /\ lock' = lock /\ kind' = kind
      /\ sticky' = sticky /\ crashed' = crashed /\ excuse' = excuse
  BY LoginFacts
<1>2. /\ \A b \in Adapters : b # own[t] =>
           opened'[b] = opened[b] /\ session'[b] = session[b]
      /\ session'[own[t]] /\ opened'[own[t]] => kind[own[t]] = "VMWARE"
      /\ session' \in [Adapters -> BOOLEAN]
      /\ opened' \in [Adapters -> BOOLEAN]
  <2>1. /\ session' \in [Adapters -> BOOLEAN]
        /\ opened' \in [Adapters -> BOOLEAN]
        /\ session'[own[t]] /\ (opened'[own[t]] => kind[own[t]] = "VMWARE")
    BY <1>1, Zenon DEF IInv, TypeOK
  <2>2. \A b \in Adapters : b # own[t] =>
           opened'[b] = opened[b] /\ session'[b] = session[b]
    BY <1>1, Zenon DEF IInv, TypeOK
  <2> QED BY <2>1, <2>2
<1>3. TypeOK'
  <2>1. /\ connections' \in [Ids -> Adapters \cup {NoAdapter}]
        /\ lock' \in Threads \cup {NoThread} /\ kind' \in [Adapters -> Kinds]
        /\ life' \in [Adapters -> {"free", "made", "kept", "dead"}]
        /\ sticky' \in [Adapters -> BOOLEAN] /\ crashed' \in BOOLEAN
    BY <1>1, Zenon DEF IInv, TypeOK
  <2>2. /\ then' \in [Threads ->
             {"idle", "insert", "erase", "destroy", "unlock", "return"}]
        /\ own' \in [Threads -> Adapters \cup {NoAdapter}]
        /\ slot' \in [Threads -> Ids \cup {<<>>}]
        /\ clean' \in [Threads -> SUBSET Adapters]
        /\ missed' \in [Threads -> SUBSET Adapters]
        /\ disturbed' \subseteq Adapters
        /\ excuse' \subseteq {"removal", "overlap"}
    BY <1>1, Zenon DEF IInv, TypeOK
  <2> QED BY <1>1, <1>2, <2>1, <2>2, Zenon DEF TypeOK
<1>4. TableShape' /\ OwnShape'
  BY <1>1 DEF IInv, TableShape, Connected, OwnShape
<1>5. DeletesLast(todo'[t]) /\ DOMAIN todo'[t] = {} /\ Len(todo'[t]) = 0
  BY <1>1 DEF DeletesLast
<1>6. TodoShape'
  <2>1. \A u \in Threads \ {t} :
          CallTodo(todo'[u], then'[u], own'[u], life')
    BY <1>1 DEF IInv, TodoShape, CallTodo
  <2> QED BY <1>1, <1>5, <2>1 DEF TodoShape, CallTodo, DeletesLast
<1>7. AloneShape'
  <2> SUFFICES ASSUME excuse = {}
               PROVE  AloneShape'
    BY <1>1 DEF AloneShape
  <2>1. \A u \in Threads : then[u] # "insert" =>
          \A n \in DOMAIN todo'[u] : life[todo'[u][n].on] = "kept"
    BY SMTT(20), <1>1 DEF IInv, AloneShape
  <2>2. Connected' = Connected
    BY <1>1 DEF Connected
  <2>3. ~crashed'
    BY <1>1, Zenon DEF IInv, AloneShape
  <2> QED BY <1>1, <2>1, <2>2, <2>3 DEF IInv, AloneShape
<1>8. SessionShape'
  <2>1. \A b \in Adapters :
          /\ opened'[b] => life'[b] # "free"
          /\ opened'[b] /\ ~Excused(b)' =>
               life'[b] # "dead" /\ session'[b] /\ kind'[b] = "VMWARE"
    <3> SUFFICES ASSUME NEW b \in Adapters
                 PROVE  /\ opened'[b] => life'[b] # "free"
                        /\ opened'[b] /\ ~Excused(b)' =>
                             /\ life'[b] # "dead" /\ session'[b]
                             /\ kind'[b] = "VMWARE"
      BY Zenon
    <3>1. CASE b = own[t]
      <4>1. life'[b] # "free" /\ life'[b] # "dead"
        BY <1>1, <3>1
      <4>2. session'[b] /\ (opened'[b] => kind'[b] = "VMWARE")
        BY <1>1, <1>2, <3>1, Zenon
      <4> QED BY <4>1, <4>2, Zenon
    <3>2. CASE b # own[t]
      <4>1. opened'[b] = opened[b] /\ session'[b] = session[b]
        BY <1>2, <3>2
      <4> QED BY <1>1, <4>1, Zenon DEF IInv, SessionShape, Excused
    <3> QED BY <3>1, <3>2
  <2>2. ASSUME NEW u \in Threads, then'[u] \in {"erase", "destroy"},
               todo'[u] = <<>>, opened'[own'[u]]
        PROVE  Excused(own[u])'
    <3>1. then[u] \in {"erase", "destroy"} /\ own[u] \in Adapters /\ u # t
      BY <1>1, <2>2 DEF IInv, OwnShape
    <3>2. own[u] # own[t]
      <4>1. then[u] = "destroy" => life[own[u]] = "kept"
        BY DEF IInv, OwnShape
      <4>2. then[u] = "erase" => life[own[u]] = "kept"
        BY <3>1, ManagerAssumption DEF IInv, OwnShape, TableShape, Connected
      <4> QED BY <1>1, <3>1, <4>1, <4>2
    <3>3. opened[own[u]] /\ todo[u] = <<>>
      BY <1>1, <1>2, <2>2, <3>1, <3>2
    <3>4. Excused(own[u])
      BY <3>1, <3>3, Zenon DEF IInv, SessionShape
    <3> QED BY <1>1, <3>4, Zenon DEF Excused
  <2> QED BY <2>1, <2>2, Zenon DEF SessionShape
<1>9. ShareShape'
  <2>1. Uses(t)' = {} /\ \A u \in Threads \ {t} : Uses(u)' = Uses(u)
    BY <1>1 DEF Uses
  <2>2. \A u, v \in Threads : u # v => Uses(u)' \cap Uses(v)' \subseteq disturbed'
    BY <2>1 DEF IInv, ShareShape
  <2>3. ASSUME NEW u \in Threads, NEW n \in DOMAIN todo'[u],
               todo'[u][n].on \in clean'[u], sticky'[todo'[u][n].on]
        PROVE  todo'[u][n].on \in disturbed' \/ todo'[u][n].req.verb = "DELETE"
    <3>1. u # t /\ todo'[u] = todo[u]
      BY <1>1, <1>5
    <3>2. n \in DOMAIN todo[u] /\ todo[u][n].on \in clean[u] /\ sticky[todo[u][n].on]
      BY <1>1, <2>3, <3>1
    <3>3. todo[u][n].on \in disturbed \/ todo[u][n].req.verb = "DELETE"
      BY <3>2, Zenon DEF IInv, ShareShape
    <3> QED BY <3>1, <3>3, Zenon
  <2> QED BY <2>2, <2>3 DEF ShareShape
<1>10. TrueMeansDone'
  BY Zenon DEF IInv, TrueMeansDone
<1> QED BY <1>3, <1>4, <1>6, <1>7, <1>8, <1>9, <1>10 DEF IInv
(* The login fails: the adapter, which only this call knows, is destroyed. *)
LEMMA LoginFailed ==
  ASSUME IInv, NEW t \in Threads, RequestLogin(t), NEW open \in BOOLEAN,
         opened' = [opened EXCEPT ![own[t]] = open], session' = session,
         life' = [life EXCEPT ![own[t]] = "dead"],
         disturbed' = disturbed \cup {own[t]}, Idle(t)
  PROVE  IInv'
<1>1. /\ then[t] = "insert" /\ own[t] \in Adapters /\ life[own[t]] = "made"
      /\ \A u \in Threads \ {t} : then[u] = "insert" => own[u] # own[t]
      /\ todo'[t] = <<>> /\ \A u \in Threads \ {t} : todo'[u] = todo[u]
      /\ todo' \in [Threads -> Seq([on : Adapters, req : Requests])]
      /\ connections' = connections /\ lock' = lock /\ kind' = kind
      /\ sticky' = sticky /\ crashed' = crashed /\ excuse' = excuse
  BY LoginFacts
<1>2. /\ then'[t] = "idle" /\ clean'[t] = {} /\ missed'[t] = {}
      /\ \A u \in Threads \ {t} : SameCall(u)
  <2>1. todo' = [todo EXCEPT ![t] = Tail(@)]
    BY DEF RequestLogin
  <2> QED BY <2>1, IdleEffect DEF IInv
<1>3. \A u \in Threads \ {t} :
        then'[u] = then[u] /\ own'[u] = own[u] /\ slot'[u] = slot[u]
  BY <1>2 DEF SameCall
<1>4. /\ \A b \in Adapters : b # own[t] =>
           opened'[b] = opened[b] /\ life'[b] = life[b]
      /\ life'[own[t]] = "dead" /\ own[t] \in disturbed'
      /\ opened' \in [Adapters -> BOOLEAN]
      /\ life' \in [Adapters -> {"free", "made", "kept", "dead"}]
  <2>1. opened' \in [Adapters -> BOOLEAN]
    BY <1>1, Zenon DEF IInv, TypeOK
  <2>2. \A b \in Adapters : b # own[t] => opened'[b] = opened[b]
    BY <1>1, Zenon DEF IInv, TypeOK
  <2>3. /\ \A b \in Adapters : b # own[t] => life'[b] = life[b]
        /\ life'[own[t]] = "dead" /\ own[t] \in disturbed'
        /\ life' \in [Adapters -> {"free", "made", "kept", "dead"}]
    BY <1>1 DEF IInv, TypeOK
  <2> QED BY <2>1, <2>2, <2>3
<1>5. TypeOK'
  <2>1. /\ then' \in [Threads ->
             {"idle", "insert", "erase", "destroy", "unlock", "return"}]
        /\ own' \in [Threads -> Adapters \cup {NoAdapter}]
        /\ slot' \in [Threads -> Ids \cup {<<>>}]
        /\ clean' \in [Threads -> SUBSET Adapters]
        /\ missed' \in [Threads -> SUBSET Adapters]
    BY IdleTypes DEF IInv
  <2>2. /\ connections' \in [Ids -> Adapters \cup {NoAdapter}]
        /\ lock' \in Threads \cup {NoThread} /\ kind' \in [Adapters -> Kinds]
        /\ session' \in [Adapters -> BOOLEAN]
        /\ sticky' \in [Adapters -> BOOLEAN] /\ crashed' \in BOOLEAN
    BY <1>1, Zenon DEF IInv, TypeOK
  <2>3. disturbed' \subseteq Adapters /\ excuse' \subseteq {"removal", "overlap"}
    BY <1>1 DEF IInv, TypeOK
  <2> QED BY <1>1, <1>4, <2>1, <2>2, <2>3, Zenon DEF TypeOK
<1>6. \A i \in Ids : connections[i] # own[t]
  BY <1>1, ManagerAssumption DEF IInv, TableShape, Connected
<1>7. TableShape'
  <2>1. \A i \in Connected : connections[i] \in Adapters /\ i \in Ids
    BY DEF Connected, IInv, TypeOK
  <2>2. Connected' = Connected
    BY <1>1 DEF Connected
  <2> QED BY <1>1, <1>4, <1>6, <2>1, <2>2 DEF IInv, TableShape
<1>8. OwnShape'
  <2>1. \A u \in Threads \ {t} :
          /\ then[u] \in {"erase", "destroy", "unlock"} <=> lock = u
          /\ then[u] \in {"insert", "erase", "destroy"} => slot[u] \in Ids
          /\ then[u] \in {"insert", "erase", "destroy", "return"} =>
               own[u] \in Adapters
          /\ then[u] = "insert" => life'[own[u]] = "made"
          /\ then[u] = "erase" => connections[slot[u]] = own[u]
          /\ then[u] = "destroy" =>
               life'[own[u]] = "kept" /\ \A i \in Ids : connections[i] # own[u]
          /\ then[u] = "return" => life'[own[u]] \in {"kept", "dead"}
    BY <1>1, <1>4 DEF IInv, OwnShape
  <2>2. lock # t
    BY <1>1 DEF IInv, OwnShape
  <2>3. \A u, v \in Threads : u # t /\ v # t /\
          then[u] = "insert" /\ then[v] = "insert" /\ own[u] = own[v] => u = v
    BY DEF IInv, OwnShape
  <2>4. /\ then'[t] \notin {"insert", "erase", "destroy", "unlock", "return"}
        /\ lock' # t
    BY <1>1, <1>2, <2>2
  <2>5. \A u \in Threads \ {t} :
          /\ then'[u] \in {"erase", "destroy", "unlock"} <=> lock' = u
          /\ then'[u] \in {"insert", "erase", "destroy"} => slot'[u] \in Ids
          /\ then'[u] \in {"insert", "erase", "destroy", "return"} =>
               own'[u] \in Adapters
          /\ then'[u] = "insert" => life'[own'[u]] = "made"
          /\ then'[u] = "erase" => connections'[slot'[u]] = own'[u]
          /\ then'[u] = "destroy" =>
               life'[own'[u]] = "kept" /\ \A i \in Ids : connections'[i] # own'[u]
          /\ then'[u] = "return" => life'[own'[u]] \in {"kept", "dead"}
    BY <1>1, <1>3, <2>1
  <2>6. \A u, v \in Threads :
          then'[u] = "insert" /\ then'[v] = "insert" /\ own'[u] = own'[v] => u = v
    BY <1>3, <2>3, <2>4
  <2> QED BY <2>4, <2>5, <2>6 DEF OwnShape
<1>9. DOMAIN todo'[t] = {}
  BY <1>1
<1>10. \A u \in Threads : \A n \in DOMAIN todo[u] : todo[u][n].on \in Adapters
  BY TaskTypes DEF IInv
<1>11. TodoShape'
  <2>1. \A b \in Adapters : life[b] \in {"kept", "dead"} =>
          life'[b] \in {"kept", "dead"}
    BY <1>4
  <2>2. \A u \in Threads : CallTodo(todo[u], then[u], own[u], life')
    BY <2>1, TodoStays DEF IInv, TodoShape
  <2>3. CallTodo(todo'[t], then'[t], own'[t], life')
    BY <1>1, <1>2, NoTodo
  <2> QED BY <1>1, <1>3, <2>2, <2>3, TodoNext
<1>12. AloneShape'
  <2> SUFFICES ASSUME excuse = {}
               PROVE  AloneShape'
    BY <1>1 DEF AloneShape
  <2>1. \A u \in Threads \ {t} :
          /\ then[u] \notin {"erase", "destroy", "insert"}
          /\ then[u] = "return" => life'[own[u]] = "kept"
          /\ \A n \in DOMAIN todo[u] : life'[todo[u][n].on] = "kept"
    BY <1>1, <1>4, <1>10 DEF IInv, AloneShape, OwnShape
  <2>2. Connected' = Connected
    BY <1>1 DEF Connected
  <2>3. ~crashed'
    BY <1>1, Zenon DEF IInv, AloneShape
  <2>4. \A i \in Connected : i[1] <= Cardinality(Connected)
    BY DEF IInv, AloneShape
  <2> QED BY SMTT(20), <1>1, <1>2, <1>3, <1>9, <2>1, <2>2, <2>3, <2>4 DEF AloneShape
<1>13. SessionShape'
  <2>1. \A b \in Adapters :
          /\ opened'[b] => life'[b] # "free"
          /\ opened'[b] /\ ~Excused(b)' =>
               life'[b] # "dead" /\ session'[b] /\ kind'[b] = "VMWARE"
    <3> SUFFICES ASSUME NEW b \in Adapters
                 PROVE  /\ opened'[b] => life'[b] # "free"
                        /\ opened'[b] /\ ~Excused(b)' =>
                             /\ life'[b] # "dead" /\ session'[b]
                             /\ kind'[b] = "VMWARE"
      BY Zenon
    <3>1. CASE b = own[t]
      <4>1. life'[b] # "free" /\ b \in disturbed'
        BY <1>4, <3>1
      <4> QED BY <4>1, Zenon DEF Excused
    <3>2. CASE b # own[t]
      <4>1. opened'[b] = opened[b] /\ life'[b] = life[b]
        BY <1>4, <3>2
      <4>2. Excused(b) => Excused(b)'
        BY <1>1, Zenon DEF Excused
      <4> QED BY <1>1, <4>1, <4>2, Zenon DEF IInv, SessionShape
    <3> QED BY <3>1, <3>2
  <2>2. ASSUME NEW u \in Threads, then'[u] \in {"erase", "destroy"},
               todo'[u] = <<>>, opened'[own'[u]]
        PROVE  Excused(own[u])'
    <3>1. u # t /\ own'[u] = own[u] /\ then[u] \in {"erase", "destroy"}
          /\ todo[u] = <<>>
      BY <1>1, <1>2, <1>3, <2>2
    <3>2. CASE own[u] = own[t]
      <4>1. own'[u] \in disturbed'
        BY <1>4, <3>1, <3>2
      <4> QED BY <4>1, Zenon DEF Excused
    <3>3. CASE own[u] # own[t]
      <4>1. own[u] \in Adapters
        BY <3>1 DEF IInv, OwnShape
      <4>2. opened[own[u]]
        BY <1>4, <2>2, <3>1, <3>3, <4>1
      <4>3. Excused(own[u])
        BY <3>1, <4>2, Zenon DEF IInv, SessionShape
      <4> QED BY <1>1, <3>1, <4>3, Zenon DEF Excused
    <3> QED BY <3>2, <3>3
  <2> QED BY <2>1, <2>2, Zenon DEF SessionShape
<1>14. ShareShape' /\ TrueMeansDone'
  BY <1>1, <1>2, IdleShares DEF IInv
<1> QED BY <1>5, <1>7, <1>8, <1>11, <1>12, <1>13, <1>14 DEF IInv

LEMMA RequestLoginStep ==
  ASSUME IInv, NEW t \in Threads, RequestLogin(t)
  PROVE  IInv'
<1>1. PICK reached \in BOOLEAN, answered \in BOOLEAN :
        /\ opened' = [opened EXCEPT ![own[t]] =
                        reached /\ kind[own[t]] = "VMWARE"]
        /\ IF reached /\ answered
           THEN /\ session' = [session EXCEPT ![own[t]] = TRUE]
                /\ life' = life /\ then' = then /\ own' = own /\ slot' = slot
                /\ disturbed' = disturbed /\ clean' = clean /\ missed' = missed
           ELSE /\ life' = [life EXCEPT ![own[t]] = "dead"]
                /\ disturbed' = disturbed \cup {own[t]}
                /\ Idle(t) /\ session' = session
  BY Zenon DEF RequestLogin
<1>2. CASE reached /\ answered
  BY <1>1, <1>2, LoginDone
<1>3. CASE ~(reached /\ answered)
  <2>1. (reached /\ kind[own[t]] = "VMWARE") \in BOOLEAN
    OBVIOUS
  <2> QED BY <1>1, <1>3, <2>1, LoginFailed
<1> QED BY <1>2, <1>3

-----------------------------------------------------------------------------
(* A call has made its requests.                                           *)
LEMMA FinishStep ==
  ASSUME IInv, NEW t \in Threads, Finish(t)
  PROVE  IInv'
<1>1. /\ todo[t] = <<>>
      /\ then[t] \in {"erase", "destroy", "unlock", "return"}
  BY DEF Finish
<1>2. CASE then[t] = "return" /\ life[own[t]] = "dead"
  <2>1. Crash
    BY <1>2 DEF Finish
  <2>2. excuse # {}
    BY <1>2 DEF IInv, AloneShape
  <2> QED BY <2>1, <2>2, CrashStep
<1>3. CASE ~(then[t] = "return" /\ life[own[t]] = "dead")
  <2> DEFINE ends == then[t] \in {"erase", "destroy"}
  <2>1. /\ connections' = IF then[t] = "erase"
                          THEN [connections EXCEPT ![slot[t]] = NoAdapter]
                          ELSE connections
        /\ lock' = (IF lock = t THEN NoThread ELSE lock)
        /\ IF ends
           THEN /\ life' = [life EXCEPT ![own[t]] = "dead"]
                /\ session' = [session EXCEPT ![own[t]] = FALSE]
           ELSE life' = life /\ session' = session
        /\ Idle(t)
        /\ kind' = kind /\ sticky' = sticky /\ todo' = todo
        /\ opened' = opened /\ crashed' = crashed /\ disturbed' = disturbed
        /\ excuse' = excuse
    BY <1>3, Zenon DEF Finish
  <2> DEFINE a == own[t]
  <2>2. /\ then'[t] = "idle" /\ clean'[t] = {} /\ missed'[t] = {}
        /\ \A u \in Threads \ {t} : SameCall(u)
    BY <2>1, IdleEffect DEF IInv
  <2>3. \A u \in Threads \ {t} :
          then'[u] = then[u] /\ own'[u] = own[u] /\ slot'[u] = slot[u]
    BY <2>2 DEF SameCall
  <2>4. ends => a \in Adapters /\ life[a] = "kept" /\ lock = t /\ slot[t] \in Ids
    BY ManagerAssumption DEF IInv, OwnShape, TableShape, Connected
  <2>5. \A u \in Threads \ {t} : then[u] \in {"erase", "destroy", "unlock"} =>
          lock = u /\ then[t] = "return"
    BY <1>1 DEF IInv, OwnShape
  <2>6. /\ \A b \in Adapters : life'[b] = IF ends /\ b = a THEN "dead" ELSE life[b]
        /\ \A b \in Adapters : ~(ends /\ b = a) => session'[b] = session[b]
        /\ life' \in [Adapters -> {"free", "made", "kept", "dead"}]
        /\ session' \in [Adapters -> BOOLEAN]
    <3>1. CASE ends
      <4>1. session' \in [Adapters -> BOOLEAN]
        BY <2>1, <2>4, <3>1, Zenon DEF IInv, TypeOK
      <4>2. \A b \in Adapters : b # a => session'[b] = session[b]
        BY <2>1, <2>4, <3>1, Zenon DEF IInv, TypeOK
      <4>3. /\ \A b \in Adapters : life'[b] = IF b = a THEN "dead" ELSE life[b]
            /\ life' \in [Adapters -> {"free", "made", "kept", "dead"}]
        BY <2>1, <2>4, <3>1 DEF IInv, TypeOK
      <4> QED BY <3>1, <4>1, <4>2, <4>3
    <3>2. CASE ~ends
      <4>1. life' = life /\ session' = session
        BY <2>1, <3>2
      <4>2. session' \in [Adapters -> BOOLEAN]
        BY <4>1, Zenon DEF IInv, TypeOK
      <4> QED BY <3>2, <4>1, <4>2 DEF IInv, TypeOK
    <3> QED BY <3>1, <3>2
  <2>7. /\ \A i \in Ids : connections'[i] =
             IF then[t] = "erase" /\ i = slot[t] THEN NoAdapter ELSE connections[i]
        /\ connections' \in [Ids -> Adapters \cup {NoAdapter}]
    BY <2>1, <2>4 DEF IInv, TypeOK
  <2>8. ends => \A i \in Ids : connections'[i] # a
    <3>1. CASE then[t] = "destroy"
      BY <2>7, <3>1 DEF IInv, OwnShape
    <3>2. CASE then[t] = "erase"
      <4>1. connections[slot[t]] = a /\ slot[t] \in Ids /\ a \in Adapters
        BY <2>4, <3>2 DEF IInv, OwnShape
      <4> QED BY <2>7, <3>2, <4>1, ManagerAssumption
              DEF IInv, TableShape, Connected
    <3> QED BY <3>1, <3>2
  <2>9. TypeOK'
    <3>1. /\ then' \in [Threads ->
               {"idle", "insert", "erase", "destroy", "unlock", "return"}]
          /\ own' \in [Threads -> Adapters \cup {NoAdapter}]
          /\ slot' \in [Threads -> Ids \cup {<<>>}]
          /\ clean' \in [Threads -> SUBSET Adapters]
          /\ missed' \in [Threads -> SUBSET Adapters]
      BY <2>1, IdleTypes DEF IInv
    <3>2. /\ kind' \in [Adapters -> Kinds]
          /\ sticky' \in [Adapters -> BOOLEAN]
          /\ opened' \in [Adapters -> BOOLEAN] /\ crashed' \in BOOLEAN
      BY <2>1, Zenon DEF IInv, TypeOK
    <3>3. /\ todo' \in [Threads -> Seq([on : Adapters, req : Requests])]
          /\ disturbed' \subseteq Adapters
          /\ excuse' \subseteq {"removal", "overlap"}
      BY <2>1, Zenon DEF IInv, TypeOK
    <3>4. lock' \in Threads \cup {NoThread}
      BY <2>1 DEF IInv, TypeOK
    <3> QED BY <2>6, <2>7, <3>1, <3>2, <3>3, <3>4, Zenon DEF TypeOK
  <2> HIDE DEF ends
  <2>10. TableShape'
    <3>1. Connected' \subseteq Connected
          /\ \A i \in Connected' : connections'[i] = connections[i]
      BY <2>7 DEF Connected
    <3>2. \A i \in Connected : connections[i] \in Adapters /\ i \in Ids
      BY DEF Connected, IInv, TypeOK
    <3>3. \A i \in Connected' : life'[connections'[i]] = "kept"
      BY <2>6, <2>8, <3>1, <3>2 DEF IInv, TableShape
    <3> QED BY <3>1, <3>3 DEF IInv, TableShape
  <2>11. OwnShape'
    <3>1. /\ then'[t] \notin {"insert", "erase", "destroy", "unlock", "return"}
          /\ lock' # t
      BY <2>1, <2>2, ManagerAssumption
    <3>2. \A u \in Threads \ {t} : lock' = u <=> lock = u
      BY <2>1, ManagerAssumption
    <3>3. ASSUME NEW u \in Threads \ {t}
          PROVE
          /\ then'[u] \in {"erase", "destroy", "unlock"} <=> lock' = u
          /\ then'[u] \in {"insert", "erase", "destroy"} => slot'[u] \in Ids
          /\ then'[u] \in {"insert", "erase", "destroy", "return"} =>
               own'[u] \in Adapters
          /\ then'[u] = "insert" => life'[own'[u]] = "made"
          /\ then'[u] = "erase" => connections'[slot'[u]] = own'[u]
          /\ then'[u] = "destroy" =>
               life'[own'[u]] = "kept" /\ \A i \in Ids : connections'[i] # own'[u]
          /\ then'[u] = "return" => life'[own'[u]] \in {"kept", "dead"}
      <4>1. /\ then'[u] \in {"erase", "destroy", "unlock"} <=> lock' = u
            /\ then'[u] \in {"insert", "erase", "destroy"} => slot'[u] \in Ids
            /\ then'[u] \in {"insert", "erase", "destroy", "return"} =>
                 own'[u] \in Adapters
        BY <2>3, <3>2 DEF IInv, OwnShape
      <4>2. then'[u] = "insert" => life'[own'[u]] = "made"
        BY <2>3, <2>4, <2>6 DEF IInv, OwnShape
      <4>3. then'[u] \in {"erase", "destroy"} => ~ends /\ then[t] = "return"
        BY <2>3, <2>5 DEF ends
      <4>4. then'[u] \in {"erase", "destroy"} =>
              connections' = connections /\ life' = life
        BY <2>1, <4>3
      <4>5. /\ then'[u] = "erase" => connections'[slot'[u]] = own'[u]
            /\ then'[u] = "destroy" =>
                 life'[own'[u]] = "kept" /\ \A i \in Ids : connections'[i] # own'[u]
        BY <2>3, <4>4 DEF IInv, OwnShape
      <4>6. then'[u] = "return" => life'[own'[u]] \in {"kept", "dead"}
        BY <2>3, <2>6 DEF IInv, OwnShape
      <4> QED BY <4>1, <4>2, <4>5, <4>6
    <3>4. \A u, v \in Threads :
            then'[u] = "insert" /\ then'[v] = "insert" /\ own'[u] = own'[v] => u = v
      BY <2>3, <3>1 DEF IInv, OwnShape
    <3> QED BY <3>1, <3>3, <3>4 DEF OwnShape
  <2>12. \A u \in Threads : \A n \in DOMAIN todo[u] : todo[u][n].on \in Adapters
    BY TaskTypes DEF IInv
  <2>13. DOMAIN todo[t] = {} /\ Len(todo[t]) = 0
    BY <1>1
  <2>14. TodoShape'
    <3>1. \A b \in Adapters : life[b] \in {"kept", "dead"} =>
            life'[b] \in {"kept", "dead"}
      BY <2>6
    <3>2. \A u \in Threads : CallTodo(todo[u], then[u], own[u], life')
      BY <3>1, TodoStays DEF IInv, TodoShape
    <3>3. CallTodo(todo'[t], then'[t], own'[t], life')
      BY <1>1, <2>1, <2>2, NoTodo
    <3> QED BY <2>1, <2>3, <3>2, <3>3, TodoNext
  <2>15. AloneShape'
    <3> SUFFICES ASSUME excuse = {}
                 PROVE  AloneShape'
      BY <2>1 DEF AloneShape
    <3>1. ~ends
      BY DEF IInv, AloneShape, ends
    <3>2. connections' = connections /\ life' = life
      BY <2>1, <3>1 DEF ends
    <3>3. Connected' = Connected
      BY <3>2 DEF Connected
    <3>4. ~crashed'
      BY <2>1, Zenon DEF IInv, AloneShape
    <3>5. \A i \in Connected : i[1] <= Cardinality(Connected)
      BY DEF IInv, AloneShape
    <3>6. \A u \in Threads \ {t} :
            /\ then[u] \notin {"erase", "destroy"}
            /\ then[u] = "insert" =>
                 /\ slot[u][1] = Cardinality(Connected) + 1
                 /\ \A v \in Threads \ {u} : then[v] # "insert"
            /\ then[u] = "return" => life[own[u]] = "kept"
            /\ then[u] # "insert" =>
                 \A n \in DOMAIN todo[u] : life[todo[u][n].on] = "kept"
      BY DEF IInv, AloneShape
    <3> QED BY <2>1, <2>2, <2>3, <2>13, <3>2, <3>3, <3>4, <3>5, <3>6
            DEF AloneShape
  <2>16. SessionShape'
    <3>1. \A b : Excused(b) => Excused(b)'
      BY <2>1, Zenon DEF Excused
    <3>2. ends /\ opened[a] => Excused(a)
      BY <1>1, Zenon DEF IInv, SessionShape, ends
    <3>3. \A b \in Adapters :
          /\ opened'[b] => life'[b] # "free"
          /\ opened'[b] /\ ~Excused(b)' =>
               life'[b] # "dead" /\ session'[b] /\ kind'[b] = "VMWARE"
      <4> SUFFICES ASSUME NEW b \in Adapters
                   PROVE  /\ opened'[b] => life'[b] # "free"
                          /\ opened'[b] /\ ~Excused(b)' =>
                               /\ life'[b] # "dead" /\ session'[b]
                               /\ kind'[b] = "VMWARE"
        BY Zenon
      <4>1. CASE ends /\ b = a
        <5>1. life'[b] # "free"
          BY <2>6, <4>1
        <5>2. opened'[b] => Excused(b)'
          BY <2>1, <3>1, <3>2, <4>1, Zenon
        <5> QED BY <5>1, <5>2, Zenon
      <4>2. CASE ~(ends /\ b = a)
        <5>1. life'[b] = life[b] /\ session'[b] = session[b]
          BY <2>6, <4>2
        <5> QED BY <2>1, <3>1, <5>1, Zenon DEF IInv, SessionShape
      <4> QED BY <4>1, <4>2
    <3>4. ASSUME NEW u \in Threads, then'[u] \in {"erase", "destroy"},
                 todo'[u] = <<>>, opened'[own'[u]]
          PROVE  Excused(own[u])'
      <4>1. u # t /\ own'[u] = own[u] /\ then[u] \in {"erase", "destroy"}
        BY <2>2, <2>3, <3>4
      <4>2. opened[own[u]] /\ todo[u] = <<>>
        BY <2>1, <3>4, <4>1
      <4>3. Excused(own[u])
        BY <4>1, <4>2, Zenon DEF IInv, SessionShape
      <4> QED BY <2>1, <4>1, <4>3, Zenon DEF Excused
    <3> QED BY <3>3, <3>4, Zenon DEF SessionShape
  <2>17. ShareShape' /\ TrueMeansDone'
    <3>1. todo'[t] = <<>> /\ disturbed \subseteq disturbed'
      BY <1>1, <2>1
    <3> QED BY <2>1, <2>2, <3>1, IdleShares DEF IInv
  <2> QED BY <2>9, <2>10, <2>11, <2>14, <2>15, <2>16, <2>17 DEF IInv
<1> QED BY <1>2, <1>3

-----------------------------------------------------------------------------
(* The theorems.                                                           *)

LEMMA InitHolds == Init => IInv
<1> SUFFICES ASSUME Init
             PROVE  IInv
  OBVIOUS
<1>1. TypeOK
  <2>1. /\ session \in [Adapters -> BOOLEAN] /\ sticky \in [Adapters -> BOOLEAN]
        /\ opened \in [Adapters -> BOOLEAN] /\ crashed \in BOOLEAN
    BY Zenon DEF Init
  <2>2. todo \in [Threads -> Seq([on : Adapters, req : Requests])]
    BY DEF Init
  <2>3. /\ connections \in [Ids -> Adapters \cup {NoAdapter}]
        /\ lock \in Threads \cup {NoThread} /\ kind \in [Adapters -> Kinds]
        /\ life \in [Adapters -> {"free", "made", "kept", "dead"}]
        /\ then \in [Threads ->
             {"idle", "insert", "erase", "destroy", "unlock", "return"}]
        /\ own \in [Threads -> Adapters \cup {NoAdapter}]
        /\ slot \in [Threads -> Ids \cup {<<>>}]
        /\ clean \in [Threads -> SUBSET Adapters]
        /\ missed \in [Threads -> SUBSET Adapters]
        /\ disturbed \subseteq Adapters
        /\ excuse \subseteq {"removal", "overlap"}
    BY DEF Init, Kinds
  <2> QED BY <2>1, <2>2, <2>3 DEF TypeOK
<1>2. Connected = {}
  BY DEF Init, Connected
<1>3. \A t \in Threads :
        todo[t] = <<>> /\ DOMAIN todo[t] = {} /\ then[t] = "idle"
  BY DEF Init
<1>4. TableShape
  BY <1>2 DEF TableShape
<1>5. OwnShape
  BY <1>3, ManagerAssumption DEF Init, OwnShape
<1>6. TodoShape
  BY <1>3 DEF TodoShape, CallTodo, DeletesLast
<1>7. AloneShape
  <2>1. ~crashed
    BY Zenon DEF Init
  <2> QED BY <1>2, <1>3, <2>1 DEF AloneShape
<1>8. SessionShape
  <2>1. \A a \in Adapters : ~opened[a]
    BY Zenon DEF Init
  <2>2. \A t \in Threads : then[t] \notin {"erase", "destroy"}
    BY <1>3
  <2> QED BY <2>1, <2>2, Zenon DEF SessionShape
<1>9. ShareShape
  BY <1>3 DEF ShareShape, Uses
<1>10. TrueMeansDone
  BY DEF Init, TrueMeansDone
<1> QED BY <1>1, <1>4, <1>5, <1>6, <1>7, <1>8, <1>9, <1>10 DEF IInv

LEMMA StepHolds == IInv /\ [Next]_vars => IInv'
<1> SUFFICES ASSUME IInv, [Next]_vars
             PROVE  IInv'
  OBVIOUS
<1>1. CASE Next
  <2>1. PICK t \in Threads : Start(t) \/ Step(t)
    BY <1>1 DEF Next
  <2>2. CASE Start(t)
    <3>1. CASE \E k \in Kinds, h \in Hosts : AddConnection(t, k, h)
      BY <3>1, AddConnectionStep
    <3>2. CASE \E kinds \in {Kinds} \cup {{k} : k \in Kinds} : ListVms(t, kinds)
      BY <3>2, ListVmsStep
    <3>3. CASE \E i \in Ids : RemoveConnection(t, i)
      BY <3>3, RemoveConnectionStep
    <3>4. CASE \E i \in Ids : \E op \in Operations, config \in BackupConfigs :
                 Call(t, i, op, config)
      BY <3>4, CallStep
    <3> QED BY <2>2, <3>1, <3>2, <3>3, <3>4, Zenon DEF Start
  <2>3. CASE Step(t)
    <3>1. CASE Insert(t)
      BY <3>1, InsertNewStep, InsertOverStep
    <3>2. CASE Request(t)
      BY <3>2, RequestStep
    <3>3. CASE RequestLogin(t)
      BY <3>3, RequestLoginStep
    <3>4. CASE Finish(t)
      BY <3>4, FinishStep
    <3> QED BY <2>3, <3>1, <3>2, <3>3, <3>4 DEF Step
  <2> QED BY <2>1, <2>2, <2>3
<1>2. CASE UNCHANGED vars
  <2>1. UNCHANGED <<connections, lock, adapters, calls, opened, history>>
    BY <1>2 DEF vars
  <2>2. crashed' = crashed
    BY <1>2 DEF vars
  <2>3. crashed' \in BOOLEAN
    BY <2>2, Zenon DEF IInv, TypeOK
  <2>4. crashed' => crashed \/ excuse # {}
    BY <2>2
  <2> QED BY <2>1, <2>3, <2>4, SameStep
<1> QED BY <1>1, <1>2

(* The inductive invariant holds in every state.                           *)
THEOREM Invariance == Spec => []IInv
BY InitHolds, StepHolds, PTL DEF Spec

(* Every variable of the manager and its adapters keeps its type.          *)
THEOREM TypeCorrect == Spec => []TypeOK
BY Invariance, PTL DEF IInv

(* Whatever the threads and hosts, the program comes to use a destroyed    *)
(* adapter only after a remove_connection or overlapping add_connections.  *)
THEOREM UseAfterFreeNeedsRemovalHolds == Spec => []UseAfterFreeNeedsRemoval
<1>1. IInv => UseAfterFreeNeedsRemoval
  BY DEF IInv, AloneShape, UseAfterFreeNeedsRemoval
<1> QED BY <1>1, Invariance, PTL

(* Every session that an adapter opened is closed when the adapter goes,   *)
(* unless a request was lost, two calls shared it or a DELETE stuck.       *)
THEOREM SessionsAreClosedHolds == Spec => []SessionsAreClosed
<1>1. IInv => SessionsAreClosed
  BY Zenon DEF IInv, SessionShape, Excused, SessionsAreClosed
<1> QED BY <1>1, Invariance, PTL

(* A call that says true has had its requests carried out, on an adapter   *)
(* that lost none, that no other call used and that removed no snapshot.   *)
THEOREM TrueMeansDoneHolds == Spec => []TrueMeansDone
<1>1. IInv => TrueMeansDone
  BY DEF IInv
<1> QED BY <1>1, Invariance, PTL
=============================================================================
