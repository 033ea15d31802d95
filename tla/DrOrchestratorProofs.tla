------------------------ MODULE DrOrchestratorProofs ------------------------
(***************************************************************************)
(* Proofs about DrOrchestrator for any number of calls, plans and seconds. *)
(***************************************************************************)
EXTENDS DrOrchestrator, SequenceTheorems, FiniteSetTheorems,
        WellFoundedInduction, TLAPS

(* A call that has entered its run finds a record under the run's id, at a *)
(* step of its plan, and one that has not entered owns no record.  Only a  *)
(* delayed step boots.                                                     *)
CallShape ==
  \A c \in Calls :
    /\ pc[c] \in {"idle", "enter"} =>
         step[c] = 1 /\ \A t \in Times : owner[t] # c
    /\ pc[c] \in {"step", "boot", "end"} => runs[id[c]] \in Runs
    /\ pc[c] \in {"boot", "end"} => step[c] <= Len(plan[c])
    /\ pc[c] = "boot" => plan[c][step[c]].delayed
    /\ began[c] <= now

IInv == TypeOK /\ CallShape

-----------------------------------------------------------------------------
(* Sequences.                                                              *)

LEMMA AppendKeeps ==
  ASSUME NEW S, NEW s \in Seq(S), NEW e \in S
  PROVE  /\ Append(s, e) \in Seq(S) /\ IsPrefix(s, Append(s, e))
         /\ IsPrefix(s, s)
<1>1. /\ Append(s, e) \in Seq(S) /\ Len(Append(s, e)) = Len(s) + 1
      /\ \A i \in 1..Len(s) : Append(s, e)[i] = s[i]
      /\ Len(s) \in Nat
  BY AppendProperties, LenProperties
<1>2. \A i \in 1..Len(s) : s[i] \in S
  BY ElementOfSeq
<1>3. /\ SubSeq(Append(s, e), 1, Len(s)) \in Seq(S)
      /\ Len(SubSeq(Append(s, e), 1, Len(s))) = Len(s)
      /\ \A i \in 1..Len(s) :
           SubSeq(Append(s, e), 1, Len(s))[i] = Append(s, e)[i]
  <2> DEFINE u == Append(s, e)
  <2>1. \A i \in 1..Len(s) : u[i] \in S
    BY <1>1, <1>2
  <2>2. Len(s) \in Int /\ 1 \in Int
    BY <1>1
  <2> HIDE DEF u
  <2>3. /\ SubSeq(u, 1, Len(s)) \in Seq(S)
        /\ Len(SubSeq(u, 1, Len(s))) = IF 1 <= Len(s) THEN Len(s) - 1 + 1 ELSE 0
        /\ \A i \in 1..(Len(s) - 1 + 1) : SubSeq(u, 1, Len(s))[i] = u[1 + i - 1]
    BY <2>1, <2>2, SubSeqProperties
  <2> QED BY <1>1, <2>3 DEF u
<1>4. SubSeq(Append(s, e), 1, Len(s)) = s
  BY <1>1, <1>3, SeqEqual
<1>5. SubSeq(s, 1, Len(s)) = s
  BY SubSeqFull
<1> QED BY <1>1, <1>4, <1>5 DEF IsPrefix

(* A sorted plan is a sequence of the plan's steps.                        *)
LEMMA SortedType ==
  ASSUME NEW p \in Plans, NEW q \in Sorted(p)
  PROVE  q \in Seq(Steps)
<1>1. Cardinality(p) \in Nat
  BY DrAssumption, FS_CardinalityType
<1>2. q \in [1..Cardinality(p) -> p]
  BY DEF Sorted, SetToSeqs
<1>3. p \subseteq Steps
  BY DEF Steps
<1> QED BY <1>1, <1>2, <1>3

(* The entries that a call makes at a step of its plan.                    *)
LEMMA EntryType ==
  ASSUME TypeOK, NEW c \in Calls, step[c] <= Len(plan[c]),
         NEW s \in {"RUNNING", "COMPLETED"}, NEW r \in Times
  PROVE  Entry(c, s, r) \in Results
<1>1. plan[c] \in Seq(Steps) /\ step[c] \in 1..Len(plan[c])
  BY DEF TypeOK
<1>2. plan[c][step[c]] \in Steps
  BY <1>1, ElementOfSeq
<1>3. plan[c][step[c]].vm \in Vms
  BY <1>2 DEF Steps, Vms
<1> QED BY <1>3 DEF Entry, Results

-----------------------------------------------------------------------------
(* Induction: a set of naturals that has a member has a least one, and one *)
(* that has 0 and each successor has every natural.                        *)
LEMMA LeastMember ==
  ASSUME NEW T, T \subseteq Nat, T # {}
  PROVE  \E x \in T : \A y \in T : x <= y
<1> DEFINE R == OpToRel(<, Nat)
<1>1. IsWellFoundedOn(R, Nat)
  BY NatLessThanWellFounded, Zenon
<1>2. \A a, b \in Nat : a < b => <<a, b>> \in R
  BY DEF OpToRel
<1> HIDE DEF R
<1>3. PICK x \in T : \A y \in T : ~ (<<y, x>> \in R)
  BY <1>1, WFMin
<1>4. \A y \in T : ~ (y < x)
  BY <1>2, <1>3
<1> QED BY <1>4

LEMMA SetInduction ==
  ASSUME NEW S, 0 \in S, \A n \in Nat : n \in S => n + 1 \in S
  PROVE  Nat \subseteq S
<1> SUFFICES ASSUME Nat \ S # {} PROVE FALSE
  OBVIOUS
<1>1. PICK x \in Nat \ S : \A y \in Nat \ S : x <= y
  BY LeastMember
<1> QED BY <1>1, x - 1 \in Nat

(* f adds up the times of s.                                               *)
Adds(f, s, n) ==
  /\ f \in [0..n -> Int] /\ f[0] = 0
  /\ \A i \in 1..n : f[i] = f[i - 1] + s[i].rto

LEMMA AddsExists ==
  ASSUME NEW s \in Seq(Results), \A e \in Results : e.rto \in Int
  PROVE  \E f : Adds(f, s, Len(s))
<1> DEFINE P == {n \in Nat : n <= Len(s) => \E f : Adds(f, s, n)}
<1>1. 0 \in P
  <2>1. Adds([i \in 0..0 |-> 0], s, 0)
    BY DEF Adds
  <2> QED BY <2>1
<1>2. ASSUME NEW n \in Nat, n \in P PROVE n + 1 \in P
  <2> SUFFICES ASSUME n + 1 <= Len(s) PROVE \E f : Adds(f, s, n + 1)
    OBVIOUS
  <2>1. n + 1 \in 1..Len(s) /\ Len(s) \in Nat
    BY LenProperties
  <2>2. s[n + 1].rto \in Int
    BY <2>1, ElementOfSeq
  <2>3. PICK f : Adds(f, s, n)
    BY <1>2, <2>1
  <2> DEFINE v == f[n] + s[n + 1].rto
             h == [i \in 0..(n + 1) |-> IF i = n + 1 THEN v ELSE f[i]]
  <2>4. v \in Int
    BY <2>2, <2>3 DEF Adds
  <2>5. h \in [0..(n + 1) -> Int] /\ h[0] = 0
    BY <2>3, <2>4 DEF Adds
  <2>6. ASSUME NEW i \in 1..(n + 1) PROVE h[i] = h[i - 1] + s[i].rto
    <3>1. i - 1 \in 0..n /\ h[i - 1] = f[i - 1]
      OBVIOUS
    <3>2. CASE i = n + 1
      BY <3>1, <3>2
    <3>3. CASE i # n + 1
      <4>1. i \in 1..n /\ h[i] = f[i]
        BY <3>3
      <4> QED BY <2>3, <3>1, <4>1 DEF Adds
    <3> QED BY <3>2, <3>3
  <2> HIDE DEF h
  <2> QED BY <2>5, <2>6 DEF Adds
<1> HIDE DEF P
<1>3. Nat \subseteq P
  BY <1>1, <1>2, SetInduction
<1>4. Len(s) \in Nat
  BY LenProperties
<1> QED BY <1>3, <1>4 DEF P

LEMMA AddsUnique ==
  ASSUME NEW s, NEW m \in Nat, NEW f, NEW g, Adds(f, s, m), Adds(g, s, m)
  PROVE  f = g
<1> DEFINE P == {n \in Nat : n <= m => f[n] = g[n]}
<1>1. 0 \in P
  BY DEF Adds
<1>2. ASSUME NEW n \in Nat, n \in P PROVE n + 1 \in P
  <2> SUFFICES ASSUME n + 1 <= m PROVE f[n + 1] = g[n + 1]
    OBVIOUS
  <2>1. n + 1 \in 1..m /\ (n + 1) - 1 = n /\ f[n] = g[n]
    BY <1>2
  <2> QED BY <2>1 DEF Adds
<1> HIDE DEF P
<1>3. Nat \subseteq P
  BY <1>1, <1>2, SetInduction
<1>4. \A n \in 0..m : f[n] = g[n]
  BY <1>3 DEF P
<1> QED BY <1>4 DEF Adds

LEMMA TotalAdds ==
  ASSUME NEW s \in Seq(Results), NEW f, Adds(f, s, Len(s))
  PROVE  Total(s) = f[Len(s)]
<1> DEFINE F(h) == h = [n \in 0..Len(s) |-> IF n = 0 THEN 0 ELSE h[n - 1] + s[n].rto]
           sum == CHOOSE h : F(h)
<1>1. Len(s) \in Nat
  BY LenProperties
<1>2. F(f)
  <2>1. \A n \in 0..Len(s) : f[n] = IF n = 0 THEN 0 ELSE f[n - 1] + s[n].rto
    BY DEF Adds
  <2> QED BY <2>1 DEF Adds
<1>3. F(sum)
  BY <1>2
<1>4. Total(s) = sum[Len(s)]
  BY DEF Total
<1> HIDE DEF sum
<1> DEFINE P == {n \in Nat : n <= Len(s) => sum[n] = f[n]}
<1>5. 0 \in P
  BY <1>1, <1>3 DEF Adds
<1>6. ASSUME NEW n \in Nat, n \in P PROVE n + 1 \in P
  <2> SUFFICES ASSUME n + 1 <= Len(s) PROVE sum[n + 1] = f[n + 1]
    OBVIOUS
  <2>1. n + 1 \in 1..Len(s) /\ (n + 1) - 1 = n /\ sum[n] = f[n] /\ n + 1 # 0
        /\ n + 1 \in 0..Len(s)
    BY <1>1, <1>6
  <2>2. sum[n + 1] = sum[n] + s[n + 1].rto
    BY <1>3, <2>1
  <2> QED BY <2>1, <2>2 DEF Adds
<1> HIDE DEF P
<1>7. Nat \subseteq P
  BY <1>5, <1>6, SetInduction
<1> QED BY <1>1, <1>4, <1>7 DEF P

(* The total of no entries, and of one more.                               *)
LEMMA TotalEmpty == Total(<<>>) = 0
<1>1. <<>> \in Seq(Results) /\ Len(<<>>) = 0
  BY EmptySeq
<1>2. Adds([i \in 0..0 |-> 0], <<>>, 0)
  BY DEF Adds
<1> HIDE DEF Adds
<1>3. Total(<<>>) = [i \in 0..0 |-> 0][0]
  BY <1>1, <1>2, TotalAdds
<1> QED BY <1>3

LEMMA TotalAppend ==
  ASSUME NEW s \in Seq(Results), NEW e \in Results, \A x \in Results : x.rto \in Int
  PROVE  Total(Append(s, e)) = Total(s) + e.rto
<1> DEFINE u == Append(s, e)
<1>1. /\ u \in Seq(Results) /\ Len(u) = Len(s) + 1 /\ Len(s) \in Nat
      /\ \A i \in 1..Len(s) : u[i] = s[i]
      /\ u[Len(s) + 1] = e
  BY AppendProperties, LenProperties
<1> HIDE DEF u
<1>2. PICK f : Adds(f, u, Len(u))
  BY <1>1, AddsExists
<1> DEFINE g == [i \in 0..Len(s) |-> f[i]]
<1>3. Adds(g, s, Len(s))
  <2>1. g \in [0..Len(s) -> Int] /\ g[0] = 0
    BY <1>1, <1>2 DEF Adds
  <2>2. ASSUME NEW i \in 1..Len(s) PROVE g[i] = g[i - 1] + s[i].rto
    <3>1. i \in 1..Len(u) /\ i - 1 \in 0..Len(s) /\ i \in 0..Len(s) /\ u[i] = s[i]
      BY <1>1
    <3> QED BY <1>2, <3>1 DEF Adds
  <2> HIDE DEF g
  <2> QED BY <2>1, <2>2 DEF Adds
<1>4. Total(u) = f[Len(u)] /\ Total(s) = g[Len(s)]
  BY <1>1, <1>2, <1>3, TotalAdds
<1>5. f[Len(u)] = f[Len(s)] + e.rto /\ g[Len(s)] = f[Len(s)]
  <2>1. Len(u) \in 1..Len(u) /\ Len(u) - 1 = Len(s) /\ Len(s) \in 0..Len(s)
    BY <1>1
  <2> QED BY <1>1, <1>2, <2>1 DEF Adds
<1> QED BY <1>4, <1>5 DEF u

LEMMA RankGrows ==
  ASSUME NEW S \in SUBSET Int, IsFiniteSet(S), NEW k \in Int, \A x \in S : x < k
  PROVE  /\ Cardinality(S \cup {k}) = Cardinality(S) + 1 /\ Cardinality(S) \in Nat
         /\ IsFiniteSet(S \cup {k})
         /\ Rank(S \cup {k}, k) = Cardinality(S) + 1
         /\ \A x \in S : /\ Rank(S \cup {k}, x) = Rank(S, x)
                         /\ Rank(S, x) \in Nat /\ Rank(S, x) <= Cardinality(S)
<1>1. k \notin S
  BY ~ (k < k)
<1>2. /\ Cardinality(S \cup {k}) = Cardinality(S) + 1 /\ Cardinality(S) \in Nat
      /\ IsFiniteSet(S \cup {k})
  BY <1>1, FS_AddElement, FS_CardinalityType
<1>3. {j \in S \cup {k} : j <= k} = S \cup {k}
  <2>1. \A j \in S \cup {k} : j <= k
    OBVIOUS
  <2> QED BY <2>1
<1>4. ASSUME NEW x \in S
      PROVE  /\ Rank(S \cup {k}, x) = Rank(S, x)
             /\ Rank(S, x) \in Nat /\ Rank(S, x) <= Cardinality(S)
  <2> DEFINE L == {j \in S : j <= x}
  <2>1. {j \in S \cup {k} : j <= x} = L
    OBVIOUS
  <2>2. L \in SUBSET S
    OBVIOUS
  <2> HIDE DEF L
  <2>3. IsFiniteSet(L) /\ Cardinality(L) <= Cardinality(S)
    BY <2>2, FS_Subset
  <2>4. Cardinality(L) \in Nat
    BY <2>3, FS_CardinalityType
  <2> QED BY <2>1, <2>3, <2>4 DEF Rank, L
<1> QED BY <1>2, <1>3, <1>4 DEF Rank

(* k is an integer above every member of the finite set S.                 *)
Above(k, S) ==
  S \in SUBSET Int /\ IsFiniteSet(S) /\ k \in Int /\ \A x \in S : x < k

(* Entries in order stay so when each side gets one more, after its others. *)
LEMMA InOrderGrows ==
  ASSUME NEW S, NEW k, NEW T, NEW n, NEW s, NEW u, NEW p,
         InOrder(S, s, T, p), Above(k, S), Above(n, T),
         u[k].vm = p[StepOf(n)].vm, u[k].status = StatusOf(n),
         \A i \in S : u[i] = s[i]
  PROVE  InOrder(S \cup {k}, u, T \cup {n}, p)
<1> DEFINE U == S \cup {k}
           V == T \cup {n}
<1>1. Cardinality(S) = Cardinality(T)
  BY DEF InOrder
<1>2. /\ Cardinality(U) = Cardinality(S) + 1 /\ Cardinality(S) \in Nat
      /\ Rank(U, k) = Cardinality(S) + 1
      /\ \A x \in S : /\ Rank(U, x) = Rank(S, x) /\ Rank(S, x) \in Nat
                      /\ Rank(S, x) <= Cardinality(S)
  BY RankGrows DEF Above
<1>3. /\ Cardinality(V) = Cardinality(T) + 1
      /\ Rank(V, n) = Cardinality(T) + 1
      /\ \A x \in T : /\ Rank(V, x) = Rank(T, x) /\ Rank(T, x) \in Nat
                      /\ Rank(T, x) <= Cardinality(T)
  BY RankGrows DEF Above
<1>4. ASSUME NEW x \in U, NEW y \in V, Rank(U, x) = Rank(V, y)
      PROVE  u[x].vm = p[StepOf(y)].vm /\ u[x].status = StatusOf(y)
  <2>1. CASE x = k
    <3>1. y = n
      BY <1>1, <1>2, <1>3, <1>4, <2>1
    <3> QED BY <2>1, <3>1
  <2>2. CASE x # k
    <3>1. x \in S /\ y \in T /\ Rank(S, x) = Rank(T, y)
      BY <1>1, <1>2, <1>3, <1>4, <2>2
    <3> QED BY <3>1 DEF InOrder
  <2> QED BY <2>1, <2>2
<1> QED BY <1>1, <1>2, <1>3, <1>4 DEF InOrder

-----------------------------------------------------------------------------
LEMMA InitEstablishes == Init => IInv
<1> SUFFICES ASSUME Init PROVE IInv
  OBVIOUS
<1>1. 0 \in Times /\ <<>> \in Seq(Steps) /\ Len(<<>>) = 0
  BY DrAssumption, EmptySeq DEF Times
<1>2. TypeOK
  BY <1>1 DEF Init, TypeOK
<1> QED BY <1>1, <1>2, DrAssumption DEF Init, IInv, CallShape, Times

-----------------------------------------------------------------------------
(* What a step does to the records.                                        *)

(* The record under id t stays a record, and loses no entry unless its     *)
(* owner changes.                                                          *)
Keeps(t) ==
  runs[t] \in Runs =>
    /\ runs'[t] \in Runs
    /\ owner'[t] = owner[t] => IsPrefix(runs[t].steps, runs'[t].steps)

Records == [Times -> Runs \cup {NoRun}]

LEMMA RecordAppend ==
  ASSUME NEW r \in Runs, NEW e \in Results
  PROVE  /\ [r EXCEPT !.steps = Append(@, e)] \in Runs
         /\ IsPrefix(r.steps, Append(r.steps, e))
<1>1. r.steps \in Seq(Results)
  BY DEF Runs
<1>2. Append(r.steps, e) \in Seq(Results) /\ IsPrefix(r.steps, Append(r.steps, e))
  BY <1>1, AppendKeeps
<1> QED BY <1>2 DEF Runs

LEMMA RecordStays ==
  ASSUME NEW r \in Runs
  PROVE  IsPrefix(r.steps, r.steps)
<1>1. r.steps \in Seq(Results)
  BY DEF Runs
<1>2. SubSeq(r.steps, 1, Len(r.steps)) = r.steps /\ Len(r.steps) \in Nat
  BY <1>1, SubSeqFull, LenProperties
<1> QED BY <1>2 DEF IsPrefix

LEMMA EnterKeeps ==
  ASSUME IInv, NEW c \in Calls, RunEnter(c)
  PROVE  runs' \in Records /\ \A t \in Times : Keeps(t)
<1> DEFINE new == [status |-> "RUNNING", steps |-> <<>>, rto |-> 0]
<1>1. <<>> \in Seq(Results)
  BY EmptySeq
<1>2. new \in Runs
  BY <1>1 DEF Runs
<1> HIDE DEF new
<1>3. /\ runs' = [runs EXCEPT ![id[c]] = new] /\ id[c] \in Times
      /\ owner' = [owner EXCEPT ![id[c]] = c]
  BY DEF RunEnter, IInv, TypeOK, new
<1>4. \A t \in Times : owner[t] # c
  BY DEF IInv, CallShape, RunEnter
<1>5. \A t \in Times : t # id[c] => runs'[t] = runs[t]
  BY <1>3 DEF IInv, TypeOK
<1>6. runs'[id[c]] = new /\ owner'[id[c]] = c
  BY <1>3 DEF IInv, TypeOK
<1>7. \A t \in Times : Keeps(t)
  BY <1>2, <1>4, <1>5, <1>6, RecordStays DEF Keeps
<1>8. runs' \in Records
  BY <1>2, <1>3 DEF IInv, TypeOK, Records
<1> QED BY <1>7, <1>8

LEMMA BootKeeps ==
  ASSUME IInv, NEW c \in Calls, StepBoot(c)
  PROVE  runs' \in Records /\ \A t \in Times : Keeps(t)
<1>1. runs \in Records /\ id[c] \in Times /\ runs[id[c]] \in Runs
  BY DEF IInv, TypeOK, CallShape, StepBoot, Records
<1>2. 0 \in Times
  BY DrAssumption DEF Times
<1> DEFINE e == Entry(c, "RUNNING", 0)
<1>3. e \in Results
  <2>1. step[c] <= Len(plan[c])
    BY DEF IInv, CallShape, StepBoot
  <2> QED BY <1>2, <2>1, EntryType DEF IInv
<1> HIDE DEF e
<1> DEFINE r == [runs[id[c]] EXCEPT !.steps = Append(@, e)]
<1>4. r \in Runs /\ IsPrefix(runs[id[c]].steps, r.steps)
  <2>1. r.steps = Append(runs[id[c]].steps, e)
    BY <1>1 DEF Runs
  <2> QED BY <1>1, <1>3, <2>1, RecordAppend
<1>5. runs' = runs \/ runs' = [runs EXCEPT ![id[c]] = r]
  BY DEF StepBoot, e
<1> HIDE DEF r
<1> QED BY <1>1, <1>4, <1>5, RecordStays DEF Keeps, Records

LEMMA EndKeeps ==
  ASSUME IInv, NEW c \in Calls, StepEnd(c)
  PROVE  runs' \in Records /\ \A t \in Times : Keeps(t)
<1>1. runs \in Records /\ id[c] \in Times /\ runs[id[c]] \in Runs
  BY DEF IInv, TypeOK, CallShape, StepEnd, Records
<1> DEFINE spent == now - began[c]
<1>2. spent \in Times /\ spent \in Nat
  <2>1. now \in Times /\ began[c] \in Times /\ began[c] <= now
    BY DEF IInv, TypeOK, CallShape
  <2> QED BY <2>1, DrAssumption DEF Times
<1> HIDE DEF spent
<1> DEFINE e == Entry(c, "COMPLETED", spent)
<1>3. e \in Results
  <2>1. step[c] <= Len(plan[c])
    BY DEF IInv, CallShape, StepEnd
  <2> QED BY <1>2, <2>1, EntryType DEF IInv
<1> HIDE DEF e
<1> DEFINE q == [runs[id[c]] EXCEPT !.steps = Append(@, e)]
           r == [q EXCEPT !.rto = @ + spent]
<1>4. q \in Runs /\ IsPrefix(runs[id[c]].steps, q.steps)
  <2>1. q.steps = Append(runs[id[c]].steps, e)
    BY <1>1 DEF Runs
  <2> QED BY <1>1, <1>3, <2>1, RecordAppend
<1>5. runs' = [runs EXCEPT ![id[c]] = r]
  <2>1. runs' = [runs EXCEPT ![id[c]].steps = Append(@, e), ![id[c]].rto = @ + spent]
    BY DEF StepEnd, e, spent
  <2> QED BY <1>1, <2>1 DEF Records
<1> HIDE DEF q
<1>6. r \in Runs /\ r.steps = q.steps
  BY <1>2, <1>4 DEF Runs
<1> HIDE DEF r
<1> QED BY <1>1, <1>4, <1>5, <1>6, RecordStays DEF Keeps, Records

(* A step that changes a record's status only.                             *)
LEMMA StatusKeeps ==
  ASSUME IInv, NEW i \in Times, runs[i] \in Runs, NEW s \in {"COMPLETED", "FAILED"},
         runs' = [runs EXCEPT ![i].status = s]
  PROVE  runs' \in Records /\ \A t \in Times : Keeps(t)
<1> DEFINE r == [runs[i] EXCEPT !.status = s]
<1>1. r \in Runs /\ r.steps = runs[i].steps
  BY DEF Runs
<1>2. runs' = [runs EXCEPT ![i] = r] /\ runs \in Records
  BY DEF IInv, TypeOK, Records
<1> HIDE DEF r
<1> QED BY <1>1, <1>2, RecordStays DEF Keeps, Records

LEMMA StepKeeps ==
  ASSUME IInv, [Next]_vars
  PROVE  runs' \in Records /\ \A t \in Times : Keeps(t)
<1>1. CASE runs' = runs
  BY <1>1, RecordStays DEF Keeps, Records, IInv, TypeOK
<1>2. ASSUME NEW c \in Calls, RunEnd(c)
      PROVE  runs' \in Records /\ \A t \in Times : Keeps(t)
  <2>1. /\ id[c] \in Times /\ runs[id[c]] \in Runs
        /\ runs' = [runs EXCEPT ![id[c]].status = "COMPLETED"]
    BY <1>2 DEF RunEnd, IInv, TypeOK, CallShape
  <2> QED BY <2>1, StatusKeeps
<1>3. ASSUME NEW t \in Times, CancelRun(t)
      PROVE  runs' \in Records /\ \A u \in Times : Keeps(u)
  <2>1. runs[t] \in Runs /\ runs' = [runs EXCEPT ![t].status = "FAILED"]
    BY <1>3 DEF CancelRun, IInv, TypeOK
  <2> QED BY <2>1, StatusKeeps
<1> QED
  BY <1>1, <1>2, <1>3, EnterKeeps, BootKeeps, EndKeeps
  DEF Next, RunStep, Tick, CreatePlan, UpdatePlan, DeletePlan, RunPlan,
      StepStart, vars

-----------------------------------------------------------------------------
LEMMA TypePreserved ==
  ASSUME IInv, [Next]_vars
  PROVE  TypeOK'
<1>1. TypeOK /\ CallShape
  BY DEF IInv
<1>2. runs' \in [Times -> Runs \cup {NoRun}]
  BY StepKeeps DEF Records
<1>3. now' \in Times
  <2>1. now' = now \/ (now < MaxTime /\ now' = now + 1)
    BY DEF Next, RunStep, Tick, CreatePlan, UpdatePlan, DeletePlan, CancelRun,
           RunPlan, RunEnter, StepStart, StepBoot, StepEnd, RunEnd, vars
  <2> QED BY <1>1, <2>1, DrAssumption DEF TypeOK, Times
<1>4. plans' \in [Times -> Seq(Steps) \cup {NoPlan}]
  <2>1. \/ plans' = plans
        \/ \E t \in Times, p \in Plans : \E q \in Sorted(p) :
             plans' = [plans EXCEPT ![t] = q]
        \/ \E t \in Times : plans' = [plans EXCEPT ![t] = NoPlan]
    <3>1. now \in Times
      BY <1>1 DEF TypeOK
    <3> QED
      BY <3>1
      DEF Next, RunStep, Tick, CreatePlan, UpdatePlan, DeletePlan, CancelRun,
          RunPlan, RunEnter, StepStart, StepBoot, StepEnd, RunEnd, vars
  <2> QED BY <1>1, <2>1, SortedType DEF TypeOK
<1>5. owner' \in [Times -> Calls \cup {NoCall}]
  <2>1. owner' = owner \/ \E c \in Calls : owner' = [owner EXCEPT ![id[c]] = c]
    BY DEF Next, RunStep, Tick, CreatePlan, UpdatePlan, DeletePlan, CancelRun,
           RunPlan, RunEnter, StepStart, StepBoot, StepEnd, RunEnd, vars
  <2> QED BY <1>1, <2>1 DEF TypeOK
<1>6. ASSUME NEW c \in Calls, NEW t \in Times, RunPlan(c, t) PROVE TypeOK'
  <2>1. <<>> \in Seq(Steps) /\ Len(<<>>) = 0
    BY EmptySeq
  <2>2. PICK p \in Seq(Steps) : plan' = [plan EXCEPT ![c] = p]
    BY <1>1, <1>6, <2>1 DEF RunPlan, TypeOK
  <2>3. plan' \in [Calls -> Seq(Steps)]
    BY <1>1, <2>2 DEF TypeOK
  <2>4. \A d \in Calls : step'[d] \in 1..(Len(plan'[d]) + 1)
    <3> SUFFICES ASSUME NEW d \in Calls PROVE step'[d] \in 1..(Len(plan'[d]) + 1)
      OBVIOUS
    <3>1. step' = step /\ Len(plan'[d]) \in Nat
      BY <1>6, <2>3, LenProperties DEF RunPlan
    <3>2. CASE d = c
      BY <1>1, <1>6, <3>1, <3>2 DEF CallShape, RunPlan
    <3>3. CASE d # c
      BY <1>1, <2>2, <3>1, <3>3 DEF TypeOK
    <3> QED BY <3>2, <3>3
  <2>5. watched' \in [Calls -> BOOLEAN]
    BY <1>1, <1>6 DEF RunPlan, TypeOK
  <2> QED
    BY <1>1, <1>2, <1>3, <1>4, <1>5, <1>6, <2>3, <2>4, <2>5
    DEF RunPlan, Goto, TypeOK
<1>7. ASSUME NEW c \in Calls, RunEnter(c) \/ StepStart(c) \/ StepBoot(c)
      PROVE  TypeOK'
  <2>1. began' \in [Calls -> Times]
    BY <1>1, <1>7 DEF RunEnter, StepStart, StepBoot, TypeOK
  <2>2. \E p \in {"step", "boot", "end"} : pc' = [pc EXCEPT ![c] = p]
    BY <1>7 DEF RunEnter, StepStart, StepBoot, Goto
  <2>3. pc' \in [Calls -> {"idle", "enter", "step", "boot", "end", "done"}]
    BY <1>1, <2>2 DEF TypeOK
  <2>4. UNCHANGED <<id, plan, step, watched, returned>>
    BY <1>7 DEF RunEnter, StepStart, StepBoot
  <2> QED
    BY <1>1, <1>2, <1>3, <1>4, <1>5, <2>1, <2>3, <2>4 DEF TypeOK
<1>8. ASSUME NEW c \in Calls, StepEnd(c) PROVE TypeOK'
  <2>1. step[c] <= Len(plan[c]) /\ Len(plan[c]) \in Nat /\ step[c] \in Nat
    BY <1>1, <1>8, LenProperties DEF StepEnd, TypeOK, CallShape
  <2>2. step' = [step EXCEPT ![c] = step[c] + 1] /\ plan' = plan
    BY <1>8 DEF StepEnd
  <2>3. /\ step' \in [Calls -> Nat]
        /\ \A d \in Calls : step'[d] \in 1..(Len(plan'[d]) + 1)
    BY <1>1, <2>1, <2>2 DEF TypeOK
  <2> QED
    BY <1>1, <1>2, <1>3, <1>4, <1>5, <1>8, <2>3 DEF StepEnd, Goto, TypeOK
<1>9. ASSUME NEW c \in Calls, RunEnd(c) PROVE TypeOK'
  <2>1. runs'[id[c]] \in Runs \cup {NoRun}
    BY <1>1, <1>2 DEF TypeOK
  <2> QED
    BY <1>1, <1>2, <1>3, <1>4, <1>5, <1>9, <2>1 DEF RunEnd, Goto, TypeOK
<1>10. CASE UNCHANGED callVars
  BY <1>1, <1>2, <1>3, <1>4, <1>5, <1>10 DEF TypeOK, callVars
<1> QED
  BY <1>6, <1>7, <1>8, <1>9, <1>10
  DEF Next, RunStep, Tick, CreatePlan, UpdatePlan, DeletePlan, CancelRun, vars

LEMMA CallPreserved ==
  ASSUME IInv, [Next]_vars
  PROVE  CallShape'
<1>1. TypeOK /\ CallShape /\ \A t \in Times : runs[t] \in Runs => runs'[t] \in Runs
  BY StepKeeps DEF IInv, Keeps
<1>2. now \in Int /\ now' \in Int /\ now <= now'
  <2>1. now' = now \/ now' = now + 1
    BY DEF Next, RunStep, Tick, CreatePlan, UpdatePlan, DeletePlan, CancelRun,
           RunPlan, RunEnter, StepStart, StepBoot, StepEnd, RunEnd, vars
  <2> QED BY <1>1, <2>1 DEF TypeOK, Times
<1>3. \A c \in Calls : began[c] \in Int /\ began[c] <= now'
  BY <1>1, <1>2 DEF TypeOK, CallShape, Times
<1>4. ASSUME NEW c \in Calls, NEW t \in Times, RunPlan(c, t) PROVE CallShape'
  <2>1. \A d \in Calls : d # c => pc'[d] = pc[d] /\ plan'[d] = plan[d]
                                 /\ id'[d] = id[d]
    BY <1>1, <1>4 DEF RunPlan, Goto, TypeOK
  <2>2. pc[c] = "idle" /\ pc'[c] = "enter"
        /\ UNCHANGED <<now, runs, step, began, owner>>
    BY <1>1, <1>4 DEF RunPlan, Goto, TypeOK
  <2> QED BY <1>1, <2>1, <2>2 DEF CallShape
<1>5. ASSUME NEW c \in Calls, RunEnter(c) PROVE CallShape'
  <2> DEFINE new == [status |-> "RUNNING", steps |-> <<>>, rto |-> 0]
  <2>1. /\ UNCHANGED <<now, id, plan, step, began>>
        /\ runs' = [runs EXCEPT ![id[c]] = new]
        /\ owner' = [owner EXCEPT ![id[c]] = c] /\ id[c] \in Times
        /\ pc' = [pc EXCEPT ![c] = "step"]
    BY <1>1, <1>5 DEF RunEnter, Goto, TypeOK
  <2>2. new \in Runs
    <3>1. <<>> \in Seq(Results)
      BY EmptySeq
    <3> QED BY <3>1 DEF Runs
  <2> HIDE DEF new
  <2>3. runs'[id[c]] \in Runs
    BY <1>1, <2>1, <2>2 DEF TypeOK
  <2> QED BY <1>1, <2>1, <2>3 DEF CallShape, TypeOK
<1>6. ASSUME NEW c \in Calls, StepStart(c) PROVE CallShape'
  <2>1. /\ UNCHANGED <<now, runs, id, plan, step, owner>>
        /\ began' = [began EXCEPT ![c] = now]
        /\ pc'[c] \in {"boot", "end"} /\ pc[c] = "step"
        /\ pc'[c] = "boot" => plan[c][step[c]].delayed
        /\ step[c] <= Len(plan[c])
        /\ \A d \in Calls : d # c => pc'[d] = pc[d]
    BY <1>1, <1>6 DEF StepStart, Goto, TypeOK
  <2>2. \A d \in Calls : began'[d] <= now'
    BY <1>1, <1>2, <1>3, <2>1 DEF TypeOK
  <2> QED BY <1>1, <2>1, <2>2 DEF CallShape
<1>7. ASSUME NEW c \in Calls, StepBoot(c) \/ StepEnd(c) \/ RunEnd(c)
      PROVE  CallShape'
  <2>1. /\ UNCHANGED <<now, id, plan, began, owner>>
        /\ pc[c] \in {"boot", "end", "step"}
        /\ pc'[c] \in {"end", "step", "done"}
        /\ pc'[c] = "end" => pc[c] = "boot" /\ step' = step
        /\ \A d \in Calls : d # c => pc'[d] = pc[d] /\ step'[d] = step[d]
    BY <1>1, <1>7 DEF StepBoot, StepEnd, RunEnd, Goto, TypeOK
  <2>2. \A d \in Calls : id[d] \in Times
    BY <1>1 DEF TypeOK
  <2> QED BY <1>1, <2>1, <2>2 DEF CallShape
<1>8. CASE UNCHANGED <<callVars, owner>>
  <2>1. \A d \in Calls : id[d] \in Times
    BY <1>1 DEF TypeOK
  <2> QED BY <1>1, <1>3, <1>8, <2>1 DEF CallShape, callVars
<1> QED
  BY <1>4, <1>5, <1>6, <1>7, <1>8
  DEF Next, RunStep, Tick, CreatePlan, UpdatePlan, DeletePlan, CancelRun, vars

THEOREM Invariance == Spec => []IInv
<1>1. IInv /\ [Next]_vars => IInv'
  BY TypePreserved, CallPreserved DEF IInv
<1> QED BY <1>1, InitEstablishes, PTL DEF Spec

(* Every variable of the orchestrator keeps its type.                      *)
THEOREM TypeCorrect == Spec => []TypeOK
<1>1. IInv => TypeOK
  BY DEF IInv
<1> QED BY <1>1, Invariance, PTL

(* No step takes an entry out of a run's record, cancelling and the change *)
(* of plans included; only a new run of the same second, which takes the   *)
(* record over, clears it.                                                 *)
THEOREM EntriesStayHolds == Spec => EntriesStay
<1>1. IInv /\ [Next]_vars =>
        [\A t \in Times :
           runs[t] # NoRun /\ owner'[t] = owner[t] =>
             IsPrefix(runs[t].steps, runs'[t].steps)]_vars
  <2> SUFFICES ASSUME IInv, [Next]_vars, NEW t \in Times,
                      runs[t] # NoRun, owner'[t] = owner[t]
               PROVE  IsPrefix(runs[t].steps, runs'[t].steps)
    OBVIOUS
  <2>1. runs[t] \in Runs
    BY DEF IInv, TypeOK
  <2> QED BY <2>1, StepKeeps DEF Keeps
<1> QED BY <1>1, Invariance, PTL DEF Spec, EntriesStay

-----------------------------------------------------------------------------
(* The call that owns a record has its id, and its record is one.          *)
OwnerShape ==
  \A t \in Times : owner[t] # NoCall => id[owner[t]] = t /\ runs[t] \in Runs

RInv == IInv /\ OwnerShape /\ LastRunIsRecorded

(* The numbers of the entries that a call has made.                        *)
LEMMA MadeShape ==
  ASSUME NEW c \in Calls, step[c] \in Nat
  PROVE  /\ Made(c) \in SUBSET Int /\ IsFiniteSet(Made(c))
         /\ \A n \in Made(c) : n < 2 * step[c]
         /\ pc[c] # "end" => \A n \in Made(c) : n < 2 * step[c] - 1
<1>1. /\ \A n \in Made(c) : n \in 1..(2 * step[c]) /\ n < 2 * step[c]
      /\ pc[c] # "end" => \A n \in Made(c) : n < 2 * step[c] - 1
  BY DEF Made
<1>2. Made(c) \in SUBSET (1..(2 * step[c]))
  BY <1>1
<1>3. IsFiniteSet(1..(2 * step[c]))
  BY FS_Interval
<1> QED BY <1>1, <1>2, <1>3, FS_Subset

LEMMA SameMade ==
  ASSUME NEW c \in Calls, step'[c] = step[c], plan'[c] = plan[c],
         watched'[c] = watched[c], pc'[c] = "end" <=> pc[c] = "end"
  PROVE  Made(c)' = Made(c)
BY DEF Made

LEMMA MadeMembers ==
  ASSUME NEW c \in Calls, step[c] \in Nat, NEW m
  PROVE  m \in Made(c) <=>
           \/ \E i \in 1..(step[c] - 1) : m = 2 * i
           \/ \E i \in 1..step[c] : /\ i = step[c] => pc[c] = "end"
                                  /\ watched[c] /\ plan[c][i].delayed
                                  /\ m = 2 * i - 1
BY DEF Made

(* The boot and the end of a step are the next things a call makes.        *)
LEMMA BootMade ==
  ASSUME NEW c \in Calls, step[c] \in Nat \ {0}, UNCHANGED <<step, plan, watched>>,
         pc[c] = "boot", pc'[c] = "end", watched[c], plan[c][step[c]].delayed
  PROVE  Made(c)' = Made(c) \cup {2 * step[c] - 1}
<1>1. \A m : m \in Made(c)' <=>
        \/ \E i \in 1..(step[c] - 1) : m = 2 * i
        \/ \E i \in 1..step[c] : watched[c] /\ plan[c][i].delayed /\ m = 2 * i - 1
  BY DEF Made
<1>2. 2 * step[c] - 1 \in Made(c)'
  BY <1>1
<1>3. ASSUME NEW m \in Made(c)', m \notin Made(c) PROVE m = 2 * step[c] - 1
  BY <1>1, <1>3, MadeMembers
<1>4. ASSUME NEW m \in Made(c) PROVE m \in Made(c)'
  BY <1>1, MadeMembers
<1> QED BY <1>2, <1>3, <1>4

LEMMA EndMade ==
  ASSUME NEW c \in Calls, step[c] \in Nat \ {0}, UNCHANGED <<plan, watched>>,
         pc[c] = "end", pc'[c] = "step", step'[c] = step[c] + 1
  PROVE  Made(c)' = Made(c) \cup {2 * step[c]}
<1>1. \A m : m \in Made(c)' <=>
        \/ \E i \in 1..step[c] : m = 2 * i
        \/ \E i \in 1..step[c] : watched[c] /\ plan[c][i].delayed /\ m = 2 * i - 1
  BY DEF Made
<1>2. 2 * step[c] \in Made(c)'
  BY <1>1
<1>3. ASSUME NEW m \in Made(c)', m \notin Made(c) PROVE m = 2 * step[c]
  BY <1>1, <1>3, MadeMembers
<1>4. ASSUME NEW m \in Made(c) PROVE m \in Made(c)'
  BY <1>1, MadeMembers
<1> QED BY <1>2, <1>3, <1>4

(* A record that gets no entry.                                            *)
LEMMA RecordedStays ==
  ASSUME NEW t \in Times, NEW c \in Calls, Recorded(t, c),
         Made(c)' = Made(c), plan'[c] = plan[c], runs'[t].steps = runs[t].steps
  PROVE  Recorded(t, c)'
<1>1. Mine(t, c)' = Mine(t, c)
  BY DEF Mine
<1> QED BY <1>1 DEF Recorded

(* A record that gets an entry of another call.                            *)
LEMMA RecordedOther ==
  ASSUME NEW t \in Times, NEW c \in Calls, Recorded(t, c), runs[t] \in Runs,
         Made(c)' = Made(c), plan'[c] = plan[c], NEW e \in Results, e.call # c,
         runs'[t].steps = Append(runs[t].steps, e)
  PROVE  Recorded(t, c)'
<1> DEFINE s == runs[t].steps
           u == runs'[t].steps
<1>1. s \in Seq(Results) /\ u = Append(s, e)
  BY DEF Runs
<1> HIDE DEF s, u
<1>2. /\ Len(u) = Len(s) + 1 /\ Len(s) \in Nat
      /\ \A i \in 1..Len(s) : u[i] = s[i]
      /\ u[Len(s) + 1] = e
      /\ DOMAIN u = 1..Len(u) /\ DOMAIN s = 1..Len(s)
  BY <1>1, AppendProperties, LenProperties
<1>3. Mine(t, c)' = Mine(t, c)
  <2>1. Mine(t, c)' = {k \in DOMAIN u : u[k].call = c}
    BY DEF Mine, u
  <2>2. Mine(t, c) = {k \in DOMAIN s : s[k].call = c}
    BY DEF Mine, s
  <2> QED BY <1>2, <2>1, <2>2
<1>4. \A k \in Mine(t, c) : u[k] = s[k]
  BY <1>2 DEF Mine, s
<1>5. \A S, T, p : (\A k \in S : u[k] = s[k]) /\ InOrder(S, s, T, p) => InOrder(S, u, T, p)
  BY DEF InOrder
<1>6. InOrder(Mine(t, c), s, Made(c), plan[c])
  BY DEF Recorded, s
<1>7. InOrder(Mine(t, c), u, Made(c), plan[c])
  BY <1>4, <1>5, <1>6
<1> QED BY <1>3, <1>7 DEF Recorded, u

(* A record that gets the next entry of its owner.                         *)
LEMMA RecordedGrows ==
  ASSUME NEW t \in Times, NEW c \in Calls, Recorded(t, c), runs[t] \in Runs,
         step[c] \in Nat, NEW n \in Int, \A m \in Made(c) : m < n,
         Made(c)' = Made(c) \cup {n}, plan'[c] = plan[c],
         NEW e \in Results, e.call = c,
         e.vm = plan[c][StepOf(n)].vm, e.status = StatusOf(n),
         runs'[t].steps = Append(runs[t].steps, e)
  PROVE  Recorded(t, c)'
<1> DEFINE s == runs[t].steps
           u == runs'[t].steps
           S == Mine(t, c)
           T == Made(c)
           k == Len(s) + 1
<1>1. s \in Seq(Results) /\ u = Append(s, e)
  BY DEF Runs
<1> HIDE DEF s, u
<1>2. /\ Len(u) = Len(s) + 1 /\ Len(s) \in Nat
      /\ \A i \in 1..Len(s) : u[i] = s[i]
      /\ u[Len(s) + 1] = e
      /\ DOMAIN u = 1..Len(u) /\ DOMAIN s = 1..Len(s)
  BY <1>1, AppendProperties, LenProperties
<1>3. Mine(t, c)' = S \cup {k}
  <2>1. Mine(t, c)' = {i \in DOMAIN u : u[i].call = c}
    BY DEF Mine, u
  <2>2. S = {i \in DOMAIN s : s[i].call = c}
    BY DEF Mine, s
  <2> QED BY <1>2, <2>1, <2>2
<1>4. S \in SUBSET (1..Len(s)) /\ \A i \in S : u[i] = s[i]
  BY <1>2 DEF Mine, s
<1>5. Above(k, S)
  <2>1. IsFiniteSet(1..Len(s))
    BY <1>2, FS_Interval
  <2> QED BY <1>2, <1>4, <2>1, FS_Subset DEF Above
<1>6. Above(n, T)
  BY MadeShape DEF Above
<1>7. InOrder(S, s, T, plan[c])
  BY DEF Recorded, s
<1>8. /\ u[k].vm = plan[c][StepOf(n)].vm /\ u[k].status = StatusOf(n)
      /\ \A i \in S : u[i] = s[i]
  BY <1>2, <1>4 DEF k
<1> HIDE DEF S, T, k
<1>9. InOrder(S \cup {k}, u, T \cup {n}, plan[c])
  BY <1>5, <1>6, <1>7, <1>8, InOrderGrows
<1> QED BY <1>3, <1>9 DEF Recorded, u, S, T, k

Recordings == OwnerShape /\ LastRunIsRecorded

(* A step that puts nothing in a record and makes nothing new.             *)
LEMMA NothingRecorded ==
  ASSUME RInv, owner' = owner,
         \A t \in Times :
           /\ runs[t] \in Runs => /\ runs'[t] \in Runs
                                  /\ runs'[t].steps = runs[t].steps
                                  /\ runs'[t].rto = runs[t].rto
           /\ runs'[t] # NoRun => runs[t] # NoRun,
         \A t \in Times : owner[t] # NoCall =>
           /\ id'[owner[t]] = id[owner[t]] /\ plan'[owner[t]] = plan[owner[t]]
           /\ Made(owner[t])' = Made(owner[t])
  PROVE  Recordings'
<1>1. \A t \in Times : runs[t] # NoRun => runs[t] \in Runs
  BY DEF RInv, IInv, TypeOK
<1>2. ASSUME NEW t \in Times, owner[t] # NoCall
      PROVE  id'[owner[t]] = t /\ runs'[t] \in Runs /\ Recorded(t, owner[t])'
  <2>1. /\ owner[t] \in Calls /\ id[owner[t]] = t /\ runs[t] \in Runs
        /\ Recorded(t, owner[t])
    BY <1>2 DEF RInv, IInv, TypeOK, OwnerShape, LastRunIsRecorded
  <2>2. PICK c \in Calls : c = owner[t]
    BY <2>1
  <2>3. Recorded(t, c)'
    BY <1>2, <2>1, <2>2, RecordedStays
  <2> QED BY <1>2, <2>1, <2>2, <2>3
<1>3. ASSUME NEW t \in Times, runs'[t] # NoRun
      PROVE  runs'[t].rto = Total(runs'[t].steps)
  BY <1>1, <1>3 DEF RInv, LastRunIsRecorded
<1> QED BY <1>2, <1>3 DEF Recordings, OwnerShape, LastRunIsRecorded

(* A step of call c that adds the entry numbered n to the record c writes. *)
LEMMA OneRecorded ==
  ASSUME RInv, NEW c \in Calls, owner' = owner, id' = id, plan' = plan,
         step[c] <= Len(plan[c]), runs[id[c]] \in Runs,
         NEW s \in {"RUNNING", "COMPLETED"}, NEW r \in Times, NEW rec \in Runs,
         rec.steps = Append(runs[id[c]].steps, Entry(c, s, r)),
         rec.rto = runs[id[c]].rto + r,
         runs' = [runs EXCEPT ![id[c]] = rec],
         \A d \in Calls : d # c => Made(d)' = Made(d),
         NEW n, Above(n, Made(c)), Made(c)' = Made(c) \cup {n},
         StepOf(n) = step[c], StatusOf(n) = s
  PROVE  Recordings'
<1> DEFINE i == id[c]
           e == Entry(c, s, r)
<1>1. TypeOK /\ i \in Times
  BY DEF RInv, IInv, TypeOK
<1>2. e \in Results
  BY <1>1, EntryType
<1>3. /\ e.call = c /\ e.vm = plan[c][StepOf(n)].vm /\ e.status = StatusOf(n)
      /\ e.rto = r
  BY DEF Entry
<1> HIDE DEF e
<1>4. /\ runs'[i] = rec /\ runs'[i].steps = Append(runs[i].steps, e)
      /\ \A t \in Times : t # i => runs'[t] = runs[t]
  BY <1>1 DEF TypeOK, e
<1>5. ASSUME NEW t \in Times, owner[t] # NoCall
      PROVE  id[owner[t]] = t /\ runs'[t] \in Runs /\ Recorded(t, owner[t])'
  <2>1. /\ owner[t] \in Calls /\ id[owner[t]] = t /\ runs[t] \in Runs
        /\ Recorded(t, owner[t])
    BY <1>1, <1>5 DEF RInv, TypeOK, OwnerShape, LastRunIsRecorded
  <2>2. PICK d \in Calls : d = owner[t]
    BY <2>1
  <2>3. Recorded(t, d) /\ step[d] \in Nat /\ plan'[d] = plan[d]
    BY <1>1, <2>1, <2>2 DEF TypeOK
  <2>4. CASE d = c
    <3>1. t = i /\ runs'[t].steps = Append(runs[t].steps, e)
      BY <1>4, <2>1, <2>2, <2>4
    <3>2. n \in Int /\ \A m \in Made(d) : m < n
      BY <2>4 DEF Above
    <3>3. Made(d)' = Made(d) \cup {n} /\ e.call = d /\ e.vm = plan[d][StepOf(n)].vm
      BY <1>3, <2>4
    <3>4. Recorded(t, d)'
      BY <1>2, <1>3, <2>1, <2>3, <3>1, <3>2, <3>3, RecordedGrows
    <3> QED BY <1>4, <2>1, <2>2, <3>1, <3>4
  <2>5. CASE d # c /\ t = i
    <3>1. runs'[t].steps = Append(runs[t].steps, e) /\ e.call # d
      BY <1>3, <1>4, <2>5
    <3>2. Recorded(t, d)'
      BY <1>2, <2>1, <2>3, <2>5, <3>1, RecordedOther
    <3> QED BY <1>4, <2>1, <2>2, <2>5, <3>2
  <2>6. CASE d # c /\ t # i
    <3>1. Recorded(t, d)'
      BY <1>4, <2>3, <2>6, RecordedStays
    <3> QED BY <1>4, <2>1, <2>2, <2>6, <3>1
  <2> QED BY <2>4, <2>5, <2>6
<1>6. ASSUME NEW t \in Times, runs'[t] # NoRun
      PROVE  runs'[t].rto = Total(runs'[t].steps)
  <2>1. CASE t = i
    <3>1. runs[i].steps \in Seq(Results) /\ runs[i].rto = Total(runs[i].steps)
      <4>1. runs[i] # NoRun
        BY NoRunAssumption
      <4> QED BY <1>1, <4>1 DEF RInv, LastRunIsRecorded, Runs
    <3>2. \A x \in Results : x.rto \in Int
      BY DrAssumption DEF Results, Times
    <3>3. Total(Append(runs[i].steps, e)) = Total(runs[i].steps) + e.rto
      BY <1>2, <3>1, <3>2, TotalAppend
    <3> QED BY <1>3, <1>4, <2>1, <3>1, <3>3
  <2>2. CASE t # i
    BY <1>4, <1>6, <2>2 DEF RInv, LastRunIsRecorded
  <2> QED BY <2>1, <2>2
<1> QED BY <1>5, <1>6 DEF Recordings, OwnerShape, LastRunIsRecorded

LEMMA RecordPreserved ==
  ASSUME RInv, [Next]_vars
  PROVE  Recordings'
<1>1. TypeOK /\ CallShape /\ OwnerShape /\ LastRunIsRecorded
  BY DEF RInv, IInv
<1>2. \A t \in Times : owner[t] # NoCall =>
        owner[t] \in Calls /\ pc[owner[t]] \notin {"idle", "enter"}
  BY <1>1 DEF TypeOK, CallShape
<1>3. ASSUME NEW c \in Calls, NEW t \in Times, RunPlan(c, t) PROVE Recordings'
  <2>1. \A d \in Calls : d # c =>
          /\ step'[d] = step[d] /\ plan'[d] = plan[d] /\ id'[d] = id[d]
          /\ watched'[d] = watched[d] /\ pc'[d] = pc[d]
    BY <1>1, <1>3 DEF RunPlan, Goto, TypeOK
  <2>2. \A d \in Calls : d # c => Made(d)' = Made(d)
    BY <2>1, SameMade
  <2>3. \A u \in Times : owner[u] # NoCall => owner[u] \in Calls /\ owner[u] # c
    BY <1>2, <1>3 DEF RunPlan
  <2>4. owner' = owner /\ runs' = runs
    BY <1>3 DEF RunPlan
  <2> QED BY <2>1, <2>2, <2>3, <2>4, NothingRecorded
<1>4. ASSUME NEW c \in Calls, StepStart(c) PROVE Recordings'
  <2>1. /\ UNCHANGED <<runs, id, plan, step, watched, owner>>
        /\ \A d \in Calls : d # c => pc'[d] = pc[d]
        /\ pc[c] = "step" /\ step[c] \in Nat
        /\ pc'[c] = "end" => ~ plan[c][step[c]].delayed
    BY <1>1, <1>4 DEF StepStart, Goto, TypeOK
  <2>2. \A d \in Calls : d # c => Made(d)' = Made(d)
    BY <2>1, SameMade
  <2>3. Made(c)' = Made(c)
    BY <2>1 DEF Made
  <2> QED BY <1>2, <2>1, <2>2, <2>3, NothingRecorded
<1>5. ASSUME UNCHANGED <<callVars, owner>>,
             \A t \in Times :
               /\ runs[t] \in Runs => /\ runs'[t] \in Runs
                                      /\ runs'[t].steps = runs[t].steps
                                      /\ runs'[t].rto = runs[t].rto
               /\ runs'[t] # NoRun => runs[t] # NoRun
      PROVE  Recordings'
  <2>1. \A d \in Calls : Made(d)' = Made(d)
    BY <1>5, SameMade DEF callVars
  <2>2. id' = id /\ plan' = plan /\ owner' = owner
    BY <1>5 DEF callVars
  <2> QED BY <1>2, <1>5, <2>1, <2>2, NothingRecorded
<1>6. ASSUME NEW i \in Times, runs[i] \in Runs,
             NEW s \in {"COMPLETED", "FAILED"},
             runs' = [runs EXCEPT ![i].status = s]
      PROVE  \A t \in Times :
               /\ runs[t] \in Runs => /\ runs'[t] \in Runs
                                      /\ runs'[t].steps = runs[t].steps
                                      /\ runs'[t].rto = runs[t].rto
               /\ runs'[t] # NoRun => runs[t] # NoRun
  <2> DEFINE r == [runs[i] EXCEPT !.status = s]
  <2>1. r \in Runs /\ r.steps = runs[i].steps /\ r.rto = runs[i].rto
    BY <1>6 DEF Runs
  <2>2. runs' = [runs EXCEPT ![i] = r] /\ runs \in Records
    BY <1>1, <1>6 DEF TypeOK, Records
  <2> HIDE DEF r
  <2>3. runs'[i] = r /\ \A t \in Times : t # i => runs'[t] = runs[t]
    BY <2>2 DEF Records
  <2>4. runs[i] # NoRun
    BY <1>6, NoRunAssumption
  <2> QED BY <2>1, <2>3, <2>4
<1>7. ASSUME NEW c \in Calls, RunEnd(c) PROVE Recordings'
  <2>1. /\ id[c] \in Times /\ runs[id[c]] \in Runs
        /\ runs' = [runs EXCEPT ![id[c]].status = "COMPLETED"]
        /\ UNCHANGED <<id, plan, step, watched, owner>>
        /\ \A d \in Calls : pc'[d] = "end" <=> pc[d] = "end"
    BY <1>1, <1>7 DEF RunEnd, Goto, TypeOK, CallShape
  <2>2. \A d \in Calls : Made(d)' = Made(d)
    BY <2>1, SameMade
  <2> QED BY <1>2, <1>6, <2>1, <2>2, NothingRecorded
<1>8. ASSUME NEW t \in Times, CancelRun(t) PROVE Recordings'
  <2>1. /\ runs[t] \in Runs /\ runs' = [runs EXCEPT ![t].status = "FAILED"]
        /\ UNCHANGED <<callVars, owner>>
    BY <1>1, <1>8 DEF CancelRun, TypeOK
  <2> QED BY <1>5, <1>6, <2>1
<1>9. ASSUME NEW c \in Calls, RunEnter(c) PROVE Recordings'
  <2> DEFINE new == [status |-> "RUNNING", steps |-> <<>>, rto |-> 0]
  <2>1. new \in Runs /\ new.steps = <<>> /\ new.rto = Total(new.steps)
    BY EmptySeq, TotalEmpty DEF Runs
  <2> HIDE DEF new
  <2> PICK i \in Times : i = id[c]
    BY <1>1 DEF TypeOK
  <2>2. /\ runs' = [runs EXCEPT ![i] = new]
        /\ owner' = [owner EXCEPT ![i] = c]
        /\ UNCHANGED <<id, plan, step, watched>>
        /\ step[c] = 1 /\ pc'[c] = "step"
        /\ \A d \in Calls : pc'[d] = "end" <=> pc[d] = "end"
    BY <1>1, <1>9 DEF RunEnter, Goto, TypeOK, CallShape, new
  <2>3. /\ runs'[i] = new /\ owner'[i] = c
        /\ \A t \in Times : t # i => runs'[t] = runs[t] /\ owner'[t] = owner[t]
    BY <1>1, <2>2 DEF TypeOK
  <2>4. \A d \in Calls : Made(d)' = Made(d)
    BY <2>2, SameMade
  <2>5. Recorded(i, c)'
    <3>1. Mine(i, c)' = {}
      <4>1. DOMAIN new.steps = {}
        BY <2>1
      <4> QED BY <2>3, <4>1 DEF Mine
    <3>2. Made(c)' = {}
      BY <2>2 DEF Made
    <3> QED BY <3>1, <3>2 DEF Recorded, InOrder
  <2>6. ASSUME NEW t \in Times, t # i, owner[t] # NoCall
        PROVE  id[owner[t]] = t /\ runs'[t] \in Runs /\ Recorded(t, owner[t])'
    <3>1. /\ owner[t] \in Calls /\ id[owner[t]] = t /\ runs[t] \in Runs
          /\ Recorded(t, owner[t])
      BY <1>1, <1>2, <2>6 DEF OwnerShape, LastRunIsRecorded
    <3>2. PICK d \in Calls : d = owner[t]
      BY <3>1
    <3>3. Recorded(t, d)'
      BY <2>2, <2>3, <2>4, <2>6, <3>1, <3>2, RecordedStays
    <3> QED BY <2>3, <2>6, <3>1, <3>2, <3>3
  <2>7. \A t \in Times : runs'[t] # NoRun => runs'[t].rto = Total(runs'[t].steps)
    BY <1>1, <2>1, <2>3 DEF LastRunIsRecorded
  <2> QED
    BY <2>1, <2>2, <2>3, <2>5, <2>6, <2>7 DEF Recordings, OwnerShape, LastRunIsRecorded
<1>10. ASSUME NEW c \in Calls, StepBoot(c) PROVE Recordings'
  <2>1. /\ step[c] <= Len(plan[c]) /\ runs[id[c]] \in Runs /\ step[c] \in Nat \ {0}
        /\ runs \in Records /\ 0 \in Times
        /\ UNCHANGED <<id, plan, step, watched, owner>>
        /\ pc[c] = "boot" /\ pc'[c] = "end"
        /\ \A d \in Calls : d # c => pc'[d] = pc[d]
    BY <1>1, <1>10, DrAssumption
    DEF StepBoot, Goto, TypeOK, CallShape, Records, Times
  <2>2. \A d \in Calls : d # c => Made(d)' = Made(d)
    BY <2>1, SameMade
  <2>3. plan[c][step[c]].delayed
    BY <1>1, <2>1 DEF CallShape
  <2>4. CASE ~ watched[c]
    <3>1. Made(c)' = Made(c) /\ runs' = runs
      BY <1>10, <2>1, <2>4 DEF Made, StepBoot
    <3> QED BY <1>2, <2>1, <2>2, <3>1, NothingRecorded
  <2>5. CASE watched[c]
    <3> DEFINE e == Entry(c, "RUNNING", 0)
               r == [runs[id[c]] EXCEPT !.steps = Append(@, e)]
               n == 2 * step[c] - 1
    <3>1. e \in Results
      BY <1>1, <2>1, EntryType
    <3>2. runs' = [runs EXCEPT ![id[c]].steps = Append(@, e)]
      BY <1>10, <2>5 DEF StepBoot
    <3> HIDE DEF e
    <3>3. /\ r \in Runs /\ r.steps = Append(runs[id[c]].steps, e)
          /\ r.rto = runs[id[c]].rto + 0
      <4>1. r \in Runs
        BY <2>1, <3>1, RecordAppend
      <4>2. r.steps = Append(runs[id[c]].steps, e) /\ r.rto = runs[id[c]].rto
        BY <2>1 DEF Runs
      <4>3. runs[id[c]].rto \in Nat
        BY <2>1 DEF Runs
      <4> QED BY <4>1, <4>2, <4>3
    <3>4. runs' = [runs EXCEPT ![id[c]] = r]
      BY <1>1, <2>1, <3>2 DEF Records
    <3> HIDE DEF r
    <3>5. Above(n, Made(c)) /\ StepOf(n) = step[c] /\ StatusOf(n) = "RUNNING"
      <4>1. /\ Made(c) \in SUBSET Int /\ IsFiniteSet(Made(c))
            /\ \A i \in Made(c) : i < n
        BY <2>1, MadeShape
      <4>2. n \in Int /\ StepOf(n) = step[c]
        BY <2>1 DEF StepOf
      <4>3. StatusOf(n) = "RUNNING"
        BY <2>1 DEF StatusOf
      <4> QED BY <4>1, <4>2, <4>3 DEF Above
    <3>6. Made(c)' = Made(c) \cup {n}
      BY <2>1, <2>3, <2>5, BootMade
    <3> HIDE DEF n
    <3> QED BY <2>1, <2>2, <3>3, <3>4, <3>5, <3>6, OneRecorded DEF e
  <2> QED BY <2>4, <2>5
<1>11. ASSUME NEW c \in Calls, StepEnd(c) PROVE Recordings'
  <2> DEFINE spent == now - began[c]
             e == Entry(c, "COMPLETED", spent)
             q == [runs[id[c]] EXCEPT !.steps = Append(@, e)]
             r == [q EXCEPT !.rto = @ + spent]
             n == 2 * step[c]
  <2>1. /\ step[c] <= Len(plan[c]) /\ runs[id[c]] \in Runs /\ step[c] \in Nat \ {0}
        /\ runs \in Records
        /\ UNCHANGED <<id, plan, watched, owner>>
        /\ pc[c] = "end" /\ pc'[c] = "step" /\ step'[c] = step[c] + 1
        /\ \A d \in Calls : d # c => pc'[d] = pc[d] /\ step'[d] = step[d]
    BY <1>1, <1>11 DEF StepEnd, Goto, TypeOK, CallShape, Records
  <2>2. spent \in Times /\ spent \in Nat
    <3>1. now \in Times /\ began[c] \in Times /\ began[c] <= now
      BY <1>1 DEF TypeOK, CallShape
    <3> QED BY <3>1, DrAssumption DEF Times
  <2>3. runs' = [runs EXCEPT ![id[c]].steps = Append(@, e), ![id[c]].rto = @ + spent]
    BY <1>11 DEF StepEnd
  <2> HIDE DEF spent
  <2>4. e \in Results
    BY <1>1, <2>1, <2>2, EntryType
  <2> HIDE DEF e
  <2>5. /\ q \in Runs /\ q.steps = Append(runs[id[c]].steps, e)
        /\ q.rto = runs[id[c]].rto
    BY <2>1, <2>4, RecordAppend DEF Runs
  <2>6. runs' = [runs EXCEPT ![id[c]] = r]
    BY <1>1, <2>1, <2>3 DEF Records
  <2> HIDE DEF q
  <2>7. r \in Runs /\ r.steps = Append(runs[id[c]].steps, e)
        /\ r.rto = runs[id[c]].rto + spent
    BY <2>2, <2>5 DEF Runs
  <2> HIDE DEF r
  <2>8. \A d \in Calls : d # c => Made(d)' = Made(d)
    BY <2>1, SameMade
  <2>9. Above(n, Made(c)) /\ StepOf(n) = step[c] /\ StatusOf(n) = "COMPLETED"
    <3>1. /\ Made(c) \in SUBSET Int /\ IsFiniteSet(Made(c))
          /\ \A i \in Made(c) : i < n
      BY <2>1, MadeShape
    <3>2. n \in Int /\ StepOf(n) = step[c]
      BY <2>1 DEF StepOf
    <3>3. StatusOf(n) = "COMPLETED"
      BY <2>1 DEF StatusOf
    <3> QED BY <3>1, <3>2, <3>3 DEF Above
  <2>10. Made(c)' = Made(c) \cup {n}
    BY <2>1, EndMade
  <2> HIDE DEF n
  <2> QED
    BY <2>1, <2>2, <2>6, <2>7, <2>8, <2>9, <2>10, OneRecorded DEF e
<1>12. CASE UNCHANGED <<callVars, owner, runs>>
  BY <1>5, <1>12
<1> QED
  BY <1>3, <1>4, <1>7, <1>8, <1>9, <1>10, <1>11, <1>12
  DEF Next, RunStep, Tick, CreatePlan, UpdatePlan, DeletePlan, vars

(* However plans are changed or deleted under a run, runs are cancelled,   *)
(* and runs of one second write to one record: the record under an id      *)
(* holds every entry of the call that entered it last, in the order of the *)
(* plan it began with, and its total is the sum of its entries' times.     *)
THEOREM LastRunIsRecordedHolds == Spec => []LastRunIsRecorded
<1>1. Init => RInv
  BY InitEstablishes DEF Init, RInv, OwnerShape, LastRunIsRecorded
<1>2. RInv /\ [Next]_vars => RInv'
  BY TypePreserved, CallPreserved, RecordPreserved DEF RInv, IInv, Recordings
<1>3. RInv => LastRunIsRecorded
  BY DEF RInv
<1> QED BY <1>1, <1>2, <1>3, PTL DEF Spec
=============================================================================
