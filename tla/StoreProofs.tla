----------------------------- MODULE StoreProofs ----------------------------
(***************************************************************************)
(* Proofs about the stores of MCServices: the chain of backups, the        *)
(* bitmaps, the extents of a repository and the ranges of changed blocks,  *)
(* for every value of their constants.                                     *)
(***************************************************************************)
EXTENDS MCServices, Sequences, FiniteSets, FiniteSetTheorems, SequenceTheorems,
        WellFoundedInduction, TLAPS

-----------------------------------------------------------------------------
(* Induction: a set of naturals that has a member has a least one, and one *)
(* that has 0 and each successor has every natural.                        *)
LEMMA LeastMember ==
  ASSUME NEW T, T \subseteq Nat, T # {}
  PROVE  \E x \in T : \A y \in T : x <= y
<1> DEFINE R == OpToRel(<, Nat)
<1>1. IsWellFoundedOn(R, Nat)
  BY NatLessThanWellFounded, Zenon
<1>2. \A a, b \in Nat : a < b => <<a, b>> \in R
  BY DEF OpToRel
<1> HIDE DEF R
<1>3. PICK x \in T : \A y \in T : ~ (<<y, x>> \in R)
  BY <1>1, WFMin
<1>4. \A y \in T : ~ (y < x)
  BY <1>2, <1>3
<1> QED BY <1>4

LEMMA SetInduction ==
  ASSUME NEW S, 0 \in S, \A n \in Nat : n \in S => n + 1 \in S
  PROVE  Nat \subseteq S
<1> SUFFICES ASSUME Nat \ S # {} PROVE FALSE
  OBVIOUS
<1>1. PICK x \in Nat \ S : \A y \in Nat \ S : x <= y
  BY LeastMember
<1> QED BY <1>1, x - 1 \in Nat

(* Recursion over 1..L: f begins with base and follows step; there is such *)
(* a function, and but one.                                                *)
Follows(f, base, step, L) ==
  f[0] = base /\ \A n \in 1..L : f[n] = step[<<n, f[n - 1]>>]

LEMMA RecursionExists ==
  ASSUME NEW S, NEW L \in Nat, NEW base \in S, NEW step,
         \A n \in 1..L : \A x \in S : step[<<n, x>>] \in S
  PROVE  \E f \in [0..L -> S] : Follows(f, base, step, L)
<1> DEFINE P == {k \in Nat : k <= L =>
                   \E f \in [0..k -> S] : Follows(f, base, step, k)}
<1>1. 0 \in P
  <2>1. /\ [n \in 0..0 |-> base] \in [0..0 -> S]
        /\ Follows([n \in 0..0 |-> base], base, step, 0)
    BY DEF Follows
  <2> QED BY <2>1
<1>2. ASSUME NEW k \in Nat, k \in P PROVE k + 1 \in P
  <2> SUFFICES ASSUME k + 1 <= L
               PROVE  \E f \in [0..(k + 1) -> S] : Follows(f, base, step, k + 1)
    OBVIOUS
  <2>1. k + 1 \in 1..L /\ k <= L
    OBVIOUS
  <2>2. PICK f \in [0..k -> S] : Follows(f, base, step, k)
    BY <1>2, <2>1
  <2> DEFINE v == step[<<k + 1, f[k]>>]
             h == [n \in 0..(k + 1) |-> IF n = k + 1 THEN v ELSE f[n]]
  <2>3. v \in S
    BY <2>1, <2>2
  <2>4. h \in [0..(k + 1) -> S] /\ h[0] = base
    BY <2>2, <2>3 DEF Follows
  <2>5. ASSUME NEW n \in 1..(k + 1) PROVE h[n] = step[<<n, h[n - 1]>>]
    <3>1. n - 1 \in 0..k /\ h[n - 1] = f[n - 1]
      OBVIOUS
    <3>2. CASE n = k + 1
      <4>1. h[n] = v /\ n - 1 = k
        BY <3>2
      <4> QED BY <3>1, <3>2, <4>1
    <3>3. CASE n # k + 1
      <4>1. n \in 1..k /\ h[n] = f[n]
        BY <3>3
      <4> QED BY <2>2, <3>1, <4>1 DEF Follows
    <3> QED BY <3>2, <3>3
  <2> HIDE DEF h
  <2> QED BY <2>4, <2>5 DEF Follows
<1> HIDE DEF P
<1>3. Nat \subseteq P
  BY <1>1, <1>2, SetInduction
<1> QED BY <1>3 DEF P

LEMMA RecursionAgrees ==
  ASSUME NEW L \in Nat, NEW f, NEW g, NEW base, NEW step,
         Follows(f, base, step, L), Follows(g, base, step, L)
  PROVE  \A n \in 0..L : f[n] = g[n]
<1> DEFINE P == {n \in Nat : n <= L => f[n] = g[n]}
<1>1. 0 \in P
  BY DEF Follows
<1>2. ASSUME NEW n \in Nat, n \in P PROVE n + 1 \in P
  <2> SUFFICES ASSUME n + 1 <= L PROVE f[n + 1] = g[n + 1]
    OBVIOUS
  <2>1. n + 1 \in 1..L /\ (n + 1) - 1 = n /\ f[n] = g[n]
    BY <1>2
  <2> QED BY <2>1 DEF Follows
<1> HIDE DEF P
<1>3. Nat \subseteq P
  BY <1>1, <1>2, SetInduction
<1> QED BY <1>3 DEF P

-----------------------------------------------------------------------------
(* The chain of backups.                                                   *)

LEMMA ChainMoves == [Next]_vars => Chain!Next \/ UNCHANGED chainVars
BY DEF Next, OthersKeep, vars, chainVars, CoreMain, CoreHeartbeat, CoreMonitor,
       CoreConnect, CoreSpeak, CoreSignal, AgentStep, ChainStep, BufferStep,
       DedupStep, VmStep, ChangedStep, EngineStep, ScaleStep,
       VerificationStep, ScannerStep, OracleStep, BitmapStep, RestoreStep

LEMMA ChainFacts ==
  /\ IsFiniteSet(Jobs) /\ Chain!None \notin Jobs
  /\ MaxDepth \in Nat \ {0} /\ MaxChain \in Nat /\ MaxLength \in Nat
BY ChainAssumption DEF Chain!None

LEMMA ChainCardinality == \A S : Chain!Cardinality(S) = Cardinality(S)
BY DEF Chain!Cardinality, Cardinality

(* A table: every parent is a job, or none.                                *)
IsTable(t) == \A j \in Jobs : t[j].parent \in Jobs \cup {Chain!None}
Table == [Jobs -> Chain!Rows \cup {Chain!NoRow}]

LEMMA NoRowFields ==
  Chain!NoRow.parent = Chain!None /\ Chain!NoRow.length = 0 /\ Chain!NoRow.type = ""
BY DEF Chain!NoRow

LEMMA NoRowBare == Chain!NoRow.parent = Chain!None /\ Chain!NoRow.length = 0
BY NoRowFields

LEMMA RowsAreTable ==
  ASSUME NEW t \in Table
  PROVE  IsTable(t)
<1> SUFFICES ASSUME NEW j \in Jobs PROVE t[j].parent \in Jobs \cup {Chain!None}
  BY DEF IsTable
<1>1. t[j] \in Chain!Rows \/ t[j] = Chain!NoRow
  BY DEF Table
<1>2. CASE t[j] \in Chain!Rows
  BY <1>2 DEF Chain!Rows
<1>3. CASE t[j] = Chain!NoRow
  BY <1>3, NoRowFields
<1> QED BY <1>1, <1>2, <1>3

(* The line of a job: it has the job and the parents of all its members,   *)
(* and is part of any set of jobs that has them.                           *)
LEMMA LineHas ==
  ASSUME NEW t, IsTable(t), NEW j \in Jobs
  PROVE  /\ Chain!LineIn(t, j) \subseteq Jobs /\ j \in Chain!LineIn(t, j)
         /\ Chain!Closed(t, Chain!LineIn(t, j))
BY DEF Chain!LineIn, Chain!Closed, IsTable

LEMMA LineIsLeast ==
  ASSUME NEW t, NEW j \in Jobs, NEW S \in SUBSET Jobs, j \in S, Chain!Closed(t, S)
  PROVE  Chain!LineIn(t, j) \subseteq S
BY DEF Chain!LineIn

LEMMA LineOfMember ==
  ASSUME NEW t, IsTable(t), NEW j \in Jobs, NEW k \in Chain!LineIn(t, j)
  PROVE  Chain!LineIn(t, k) \subseteq Chain!LineIn(t, j)
<1>1. Chain!LineIn(t, j) \in SUBSET Jobs /\ Chain!Closed(t, Chain!LineIn(t, j)) /\ k \in Jobs
  BY LineHas
<1> QED BY <1>1, LineIsLeast

(* It is the job's own and the line of its parent.                         *)
LEMMA LineStep ==
  ASSUME NEW t, IsTable(t), NEW j \in Jobs
  PROVE  /\ t[j].parent = Chain!None => Chain!LineIn(t, j) = {j}
         /\ t[j].parent # Chain!None =>
              /\ t[j].parent \in Jobs
              /\ Chain!LineIn(t, j) = {j} \cup Chain!LineIn(t, t[j].parent)
<1>1. /\ j \in Chain!LineIn(t, j) /\ Chain!Closed(t, Chain!LineIn(t, j))
      /\ Chain!LineIn(t, j) \subseteq Jobs
  BY LineHas
<1>2. CASE t[j].parent = Chain!None
  <2>1. Chain!Closed(t, {j})
    BY <1>2 DEF Chain!Closed
  <2> QED BY <1>1, <1>2, <2>1, LineIsLeast
<1>3. CASE t[j].parent # Chain!None
  <2> DEFINE p == t[j].parent
  <2>1. p \in Jobs /\ p \in Chain!LineIn(t, j)
    BY <1>1, <1>3 DEF IsTable, Chain!Closed
  <2>2. Chain!LineIn(t, p) \subseteq Chain!LineIn(t, j)
    BY <2>1, LineOfMember
  <2>3. /\ Chain!LineIn(t, p) \subseteq Jobs /\ p \in Chain!LineIn(t, p)
        /\ Chain!Closed(t, Chain!LineIn(t, p))
    BY <2>1, LineHas
  <2>4. Chain!Closed(t, {j} \cup Chain!LineIn(t, p))
    BY <2>3 DEF Chain!Closed
  <2>5. Chain!LineIn(t, j) \subseteq {j} \cup Chain!LineIn(t, p)
    BY <2>3, <2>4, LineIsLeast
  <2> QED BY <1>1, <1>3, <2>1, <2>2, <2>5
<1> QED BY <1>2, <1>3

LEMMA LineIsFinite ==
  ASSUME NEW t, IsTable(t), NEW j \in Jobs
  PROVE  IsFiniteSet(Chain!LineIn(t, j)) /\ Cardinality(Chain!LineIn(t, j)) \in Nat
<1>1. Chain!LineIn(t, j) \subseteq Jobs
  BY LineHas
<1>2. IsFiniteSet(Chain!LineIn(t, j))
  BY <1>1, ChainFacts, FS_Subset
<1> QED BY <1>2, FS_CardinalityType

(* A job that its parent leads back to is in a circle.                     *)
LEMMA LeadsBack ==
  ASSUME NEW t, IsTable(t), NEW j \in Jobs, t[j].parent # Chain!None,
         j \in Chain!LineIn(t, t[j].parent)
  PROVE  \A k \in Chain!LineIn(t, j) : t[k].parent # Chain!None
<1> DEFINE S == {k \in Jobs : j \in Chain!LineIn(t, k) /\ t[k].parent # Chain!None}
<1>1. j \in S
  BY LineHas
<1>2. Chain!Closed(t, S)
  <2> SUFFICES ASSUME NEW k \in S PROVE t[k].parent \in S
    BY DEF Chain!Closed
  <2>1. t[k].parent \in Jobs /\ Chain!LineIn(t, k) = {k} \cup Chain!LineIn(t, t[k].parent)
    BY LineStep
  <2>2. j \in Chain!LineIn(t, t[k].parent)
    BY <2>1
  <2>3. t[t[k].parent].parent # Chain!None
    <3>1. CASE t[k].parent = j
      BY <3>1
    <3>2. CASE t[k].parent # j
      <4>1. Chain!LineIn(t, t[k].parent) # {t[k].parent}
        BY <2>2, <3>2
      <4> QED BY <2>1, <4>1, LineStep
    <3> QED BY <3>1, <3>2
  <2> QED BY <2>1, <2>2, <2>3
<1>3. Chain!LineIn(t, j) \subseteq S
  BY <1>1, <1>2, LineIsLeast
<1> QED BY <1>3

(* A line does not depend on a row that is not in it.                      *)
LEMMA LineElsewhere ==
  ASSUME NEW t, NEW u, IsTable(t), IsTable(u), NEW j \in Jobs, NEW k \in Jobs,
         j \notin Chain!LineIn(t, k), \A i \in Jobs \ {j} : u[i].parent = t[i].parent
  PROVE  Chain!LineIn(u, k) = Chain!LineIn(t, k)
<1> DEFINE S == Chain!LineIn(t, k)
           T == Chain!LineIn(u, k)
<1>1. S \subseteq Jobs /\ k \in S /\ Chain!Closed(t, S)
  BY LineHas
<1>2. T \subseteq Jobs /\ k \in T /\ Chain!Closed(u, T)
  BY LineHas
<1>3. T \subseteq S
  <2>1. Chain!Closed(u, S)
    BY <1>1 DEF Chain!Closed
  <2> QED BY <1>1, <2>1, LineIsLeast
<1>4. Chain!Closed(t, T)
  <2>1. \A i \in T : i \in Jobs \ {j}
    BY <1>1, <1>3
  <2> QED BY <1>2, <2>1 DEF Chain!Closed
<1>5. S \subseteq T
  BY <1>2, <1>4, LineIsLeast
<1> QED BY <1>3, <1>5

-----------------------------------------------------------------------------
(* While nothing is written, the job in hand is on the line of the job that*)
(* was asked about; those before it have parents and are not full, and are *)
(* as many as the depth unless the line is a circle.                       *)
Passed == Chain!Line(answer.job) \ Chain!Line(check.job)
CheckShape ==
  check # Chain!Idle =>
    /\ answer.says = "nothing" /\ answer.job \in Jobs
    /\ check \in [at : {"job", "parent"}, job : Jobs, parent : Jobs \cup {Chain!None},
                 depth : 0..(MaxDepth - 1)]
    /\ check.at = "parent" => check.parent \in Jobs
    /\ ~changed =>
         /\ check.job \in Chain!Line(answer.job)
         /\ check.at = "parent" => rows[check.job].parent = check.parent
         /\ \A k \in Passed : rows[k].parent # Chain!None
         /\ Cardinality(Passed) >= check.depth \/ Chain!Circular(answer.job)

(* A length that was not lost is that of the line.                         *)
LengthShape ==
  \A j \in Jobs \ loose : Cardinality(Chain!Line(j)) <= rows[j].length + 1

ChainInv ==
  /\ rows \in Table /\ changed \in BOOLEAN /\ loose \subseteq Jobs
  /\ CheckShape /\ LengthShape
  /\ answer.says # "nothing" => answer.job \in Jobs
  /\ Chain!AnswersHold

-----------------------------------------------------------------------------
LEMMA ChainInitHolds == Chain!Init => ChainInv
<1> SUFFICES ASSUME Chain!Init PROVE ChainInv
  OBVIOUS
<1>1. rows \in Table /\ \A j \in Jobs : rows[j].parent = Chain!None /\ rows[j].length = 0
  BY NoRowFields DEF Chain!Init, Table
<1>2. ASSUME NEW j \in Jobs PROVE Cardinality(Chain!Line(j)) <= rows[j].length + 1
  <2>1. Chain!Line(j) = {j}
    BY <1>1, RowsAreTable, LineStep DEF Chain!Line
  <2>2. Cardinality({j}) = 1
    BY FS_Singleton
  <2> QED BY <1>1, <2>1, <2>2
<1>3. answer.says = "nothing" /\ check = Chain!Idle
  BY DEF Chain!Init, Chain!Silence
<1> QED
  BY <1>1, <1>2, <1>3 DEF Chain!Init, ChainInv, CheckShape, LengthShape,
     Chain!AnswersHold

(* A step that writes no rows and leaves what is loose.                    *)
LEMMA NoRowsWritten ==
  ASSUME ChainInv, UNCHANGED <<rows, loose>>
  PROVE  /\ rows' \in Table /\ loose' \subseteq Jobs /\ LengthShape'
         /\ \A j \in Jobs : Chain!Line(j)' = Chain!Line(j)
BY DEF ChainInv, LengthShape, Chain!Line, Chain!LineIn, Chain!Closed

(* An answer that is given, unless it was overtaken, holds.                *)
LEMMA ConcludeHolds ==
  ASSUME ChainInv, UNCHANGED <<rows, loose>>, check # Chain!Idle,
         NEW says, Chain!Conclude(says),
         ~changed => \/ says = "ok" /\ \/ \E k \in Chain!Line(answer.job) : Chain!Full(k)
                                       \/ Chain!Circular(answer.job)
                                       \/ ~Chain!IsShort(answer.job)
                     \/ says = "full" /\ \E k \in Chain!Line(answer.job) : Chain!Bare(k)
                     \/ says = "differential" /\ \E k \in Chain!Line(answer.job) : ~Chain!Has(k)
  PROVE  ChainInv'
<1>1. /\ rows' \in Table /\ loose' \subseteq Jobs /\ LengthShape'
      /\ rows' = rows /\ loose' = loose
  BY NoRowsWritten
<1>2. check' = Chain!Idle /\ changed' = FALSE
  BY DEF Chain!Conclude
<1>3. answer.job \in Jobs
  BY DEF ChainInv, CheckShape
<1>4. CASE changed
  <2>1. answer'.says = "nothing"
    BY <1>4 DEF Chain!Conclude, Chain!Silence
  <2> QED BY <1>1, <1>2, <2>1 DEF ChainInv, CheckShape, Chain!AnswersHold
<1>5. CASE ~changed
  <2>1. answer'.says = says /\ answer'.job = answer.job
    BY <1>5 DEF Chain!Conclude, Chain!Answer
  <2>2. Chain!AnswersHold'
    BY <1>1, <1>5, <2>1
    DEF Chain!AnswersHold, Chain!Line, Chain!Full, Chain!Bare, Chain!IsShort, Chain!Circular, Chain!Has
  <2> QED BY <1>1, <1>2, <1>3, <2>1, <2>2 DEF ChainInv, CheckShape
<1> QED BY <1>4, <1>5 DEF ChainInv

(* What is answered of the table at once.                                  *)
LEMMA AnsweredHolds ==
  ASSUME ChainInv, UNCHANGED <<rows, check, changed, loose>>, check = Chain!Idle,
         NEW j \in Jobs, NEW says, Chain!Answer(j, says),
         \/ says = "broken" /\ \E k \in Chain!Line(j) : ~Chain!Has(k)
         \/ says = "intact" /\ (Chain!IsShort(j) => \A k \in Chain!Line(j) : Chain!Has(k))
         \/ says = "extend" /\ (Chain!Has(j) =>
              j \in loose \/ Cardinality(Chain!Line(j)) <= MaxChain)
         \/ says = "force"
  PROVE  ChainInv'
<1>1. /\ rows' \in Table /\ loose' \subseteq Jobs /\ LengthShape'
      /\ rows' = rows /\ loose' = loose
  BY NoRowsWritten
<1>2. answer'.says = says /\ answer'.job = j
  BY DEF Chain!Answer
<1>3. Chain!AnswersHold'
  BY <1>1, <1>2, ChainCardinality DEF Chain!AnswersHold, Chain!Line,
     Chain!Full, Chain!Bare, Chain!IsShort, Chain!Circular, Chain!Has
<1> QED BY <1>1, <1>2, <1>3 DEF ChainInv, CheckShape

LEMMA VerifyHolds ==
  ASSUME ChainInv, NEW j \in Jobs, Chain!VerifyChainIntegrity(j)
  PROVE  ChainInv'
<1> DEFINE way == {k \in Chain!Line(j) : Cardinality(Chain!Line(j) \ Chain!Line(k)) < MaxDepth}
<1>1. IsTable(rows)
  BY RowsAreTable DEF ChainInv
<1>2. ASSUME Chain!IsShort(j), NEW k \in Chain!Line(j) PROVE k \in way
  <2>1. k \in Chain!Line(k) /\ k \in Jobs
    BY <1>1, LineHas DEF Chain!Line
  <2>2. IsFiniteSet(Chain!Line(j)) /\ Cardinality(Chain!Line(j)) \in Nat
    BY <1>1, LineIsFinite DEF Chain!Line
  <2>3. /\ IsFiniteSet(Chain!Line(j) \ {k})
        /\ Cardinality(Chain!Line(j) \ {k}) = Cardinality(Chain!Line(j)) - 1
    BY <2>2, FS_RemoveElement
  <2>4. Chain!Line(j) \ Chain!Line(k) \in SUBSET (Chain!Line(j) \ {k})
    BY <2>1
  <2>5. /\ Cardinality(Chain!Line(j) \ Chain!Line(k)) <= Cardinality(Chain!Line(j) \ {k})
        /\ Cardinality(Chain!Line(j) \ Chain!Line(k)) \in Nat
    BY <2>3, <2>4, FS_Subset, FS_CardinalityType
  <2> QED
    BY <1>2, <2>2, <2>3, <2>5, ChainFacts, ChainCardinality DEF Chain!IsShort
<1> DEFINE says == IF \A k \in way : Chain!Has(k) THEN "intact" ELSE "broken"
<1>3. check = Chain!Idle /\ Chain!Answer(j, says) /\ UNCHANGED <<rows, check, changed, loose>>
  BY ChainCardinality DEF Chain!VerifyChainIntegrity
<1>4. \/ says = "broken" /\ \E k \in Chain!Line(j) : ~Chain!Has(k)
      \/ says = "intact" /\ (Chain!IsShort(j) => \A k \in Chain!Line(j) : Chain!Has(k))
  BY <1>2
<1> HIDE DEF says
<1> QED BY <1>3, <1>4, AnsweredHolds

LEMMA ForceHolds ==
  ASSUME ChainInv, NEW j \in Jobs, Chain!ShouldForceFull(j)
  PROVE  ChainInv'
<1>1. check = Chain!Idle /\ UNCHANGED <<rows, check, changed, loose>>
  BY DEF Chain!ShouldForceFull
<1>2. PICK says \in {"force", "extend"} :
        /\ Chain!Has(j) => (says = "force" <=> rows[j].length >= MaxChain)
        /\ Chain!Answer(j, says)
  BY DEF Chain!ShouldForceFull
<1>3. CASE says = "force"
  BY <1>1, <1>2, <1>3, AnsweredHolds
<1>4. CASE says = "extend"
  <2>1. rows[j].length \in Int
    <3>1. rows[j] \in Chain!Rows \/ rows[j] = Chain!NoRow
      BY DEF ChainInv, Table
    <3>2. rows[j] \in Chain!Rows => rows[j].length \in Int
      BY ChainFacts DEF Chain!Rows
    <3> QED BY <3>1, <3>2, NoRowBare
  <2>2. Cardinality(Chain!Line(j)) \in Nat
    BY RowsAreTable, LineIsFinite DEF ChainInv, Chain!Line
  <2>3. j \in loose \/ Cardinality(Chain!Line(j)) <= rows[j].length + 1
    BY DEF ChainInv, LengthShape
  <2>4. Chain!Has(j) => ~ (rows[j].length >= MaxChain)
    BY <1>2, <1>4
  <2>5. Chain!Has(j) => j \in loose \/ Cardinality(Chain!Line(j)) <= MaxChain
    BY <2>1, <2>2, <2>3, <2>4, ChainFacts
  <2> QED BY <1>1, <1>2, <1>4, <2>5, AnsweredHolds
<1> QED BY <1>3, <1>4

LEMMA CheckChainHolds ==
  ASSUME ChainInv, NEW j \in Jobs, Chain!CheckChain(j)
  PROVE  ChainInv'
<1>1. /\ rows' \in Table /\ loose' \subseteq Jobs /\ LengthShape'
      /\ rows' = rows /\ loose' = loose
  BY NoRowsWritten DEF Chain!CheckChain
<1>2. /\ answer'.says = "nothing" /\ answer'.job = j
      /\ check' = [at |-> "job", job |-> j, parent |-> Chain!None, depth |-> 0]
      /\ changed' \in BOOLEAN
  BY DEF Chain!CheckChain, Chain!Answer, Chain!Idle, ChainInv
<1>3. j \in Chain!Line(j)'
  BY <1>1, RowsAreTable, LineHas DEF Chain!Line
<1>4. Passed' = {}
  BY <1>2 DEF Passed
<1>5. CheckShape'
  BY <1>2, <1>3, <1>4, FS_EmptySet, ChainFacts DEF CheckShape
<1> QED BY <1>1, <1>2, <1>5 DEF ChainInv, Chain!AnswersHold

LEMMA CheckJobHolds ==
  ASSUME ChainInv, Chain!CheckJob
  PROVE  ChainInv'
<1> DEFINE j == check.job
           row == rows[j]
<1>1. /\ check # Chain!Idle /\ check.at = "job" /\ j \in Jobs /\ answer.job \in Jobs
      /\ UNCHANGED <<rows, loose>> /\ IsTable(rows)
      /\ ~changed => j \in Chain!Line(answer.job)
  <2>1. check # Chain!Idle /\ UNCHANGED <<rows, loose>>
    BY DEF Chain!CheckJob, Chain!Idle
  <2>2. rows \in Table /\ CheckShape
    BY DEF ChainInv
  <2> QED BY <2>1, <2>2, RowsAreTable DEF Chain!CheckJob, CheckShape
<1>2. CASE row.type = "full"
  <2>1. Chain!Conclude("ok") /\ Chain!Full(j)
    BY <1>2 DEF Chain!CheckJob, Chain!Full
  <2> QED BY <1>1, <2>1, ConcludeHolds
<1>3. CASE row.type # "full" /\ row.parent = Chain!None
  <2>1. Chain!Conclude("full") /\ Chain!Bare(j)
    BY <1>3 DEF Chain!CheckJob, Chain!Full, Chain!Bare
  <2> QED BY <1>1, <2>1, ConcludeHolds
<1>4. CASE row.type # "full" /\ row.parent # Chain!None
  <2>1. /\ check' = [check EXCEPT !.at = "parent", !.parent = row.parent]
        /\ UNCHANGED <<answer, changed, rows, loose>>
    BY <1>4 DEF Chain!CheckJob
  <2>2. row.parent \in Jobs
    BY <1>1, <1>4 DEF IsTable
  <2>3. /\ check'.at = "parent" /\ check'.parent = row.parent /\ check'.job = j
        /\ check'.depth = check.depth
        /\ check' \in [at : {"job", "parent"}, job : Jobs, parent : Jobs \cup {Chain!None},
                      depth : 0..(MaxDepth - 1)]
    BY <1>1, <2>1, <2>2 DEF ChainInv, CheckShape
  <2>4. /\ rows' \in Table /\ loose' \subseteq Jobs /\ LengthShape'
        /\ answer' = answer /\ rows' = rows /\ changed' = changed
    BY <2>1, NoRowsWritten
  <2>5. CheckShape'
    <3>1. Passed' = Passed
      BY <2>3, <2>4 DEF Passed, Chain!Line
    <3>2. Chain!Circular(answer.job)' <=> Chain!Circular(answer.job)
      BY <2>4 DEF Chain!Circular, Chain!Line
    <3> QED
      BY <1>1, <2>2, <2>3, <2>4, <3>1, <3>2 DEF CheckShape, ChainInv,
         Chain!Line
  <2> QED BY <1>1, <2>4, <2>5 DEF ChainInv, Chain!AnswersHold, CheckShape
<1> QED BY <1>2, <1>3, <1>4

LEMMA CheckParentHolds ==
  ASSUME ChainInv, Chain!CheckParent
  PROVE  ChainInv'
<1>0. check.at = "parent" /\ UNCHANGED <<rows, loose>>
  BY Zenon DEF Chain!CheckParent
<1>1. /\ check # Chain!Idle /\ IsTable(rows) /\ CheckShape
      /\ check.job \in Jobs /\ check.parent \in Jobs /\ answer.job \in Jobs
      /\ check.depth \in 0..(MaxDepth - 1)
  <2>1. check # Chain!Idle
    BY <1>0 DEF Chain!Idle
  <2>2. rows \in Table /\ CheckShape
    BY DEF ChainInv
  <2> QED BY <1>0, <2>1, <2>2, RowsAreTable DEF CheckShape
<1> PICK j \in Jobs : j = check.job
  BY <1>1
<1> PICK p \in Jobs : p = check.parent
  BY <1>1
<1> PICK a \in Jobs : a = answer.job
  BY <1>1
<1> DEFINE Blank == rows[p].type = ""
<1> HIDE DEF Blank
<1>2. ASSUME ~changed
      PROVE  /\ j \in Chain!Line(a) /\ p \in Chain!Line(a) /\ p \in Chain!Line(p)
             /\ \A k \in Chain!Line(a) \ Chain!Line(p) : rows[k].parent # Chain!None
             /\ Cardinality(Chain!Line(a) \ Chain!Line(p)) >= check.depth + 1 \/ Chain!Circular(a)
  <2>1. /\ j \in Chain!Line(a) /\ rows[j].parent = p
        /\ \A k \in Chain!Line(a) \ Chain!Line(j) : rows[k].parent # Chain!None
        /\ Cardinality(Chain!Line(a) \ Chain!Line(j)) >= check.depth \/ Chain!Circular(a)
    BY <1>0, <1>1, <1>2 DEF CheckShape, Passed
  <2>2. p # Chain!None /\ Chain!Line(j) = {j} \cup Chain!Line(p)
    BY <1>1, <2>1, LineStep, ChainFacts DEF Chain!Line
  <2>3. p \in Chain!Line(p) /\ Chain!Line(j) \subseteq Chain!Line(a)
    BY <1>1, <2>1, LineHas, LineOfMember DEF Chain!Line
  <2>4. \A k \in Chain!Line(a) \ Chain!Line(p) : rows[k].parent # Chain!None
    BY <2>1, <2>2
  <2>5. CASE j \in Chain!Line(p)
    <3>1. \A k \in Chain!Line(j) : rows[k].parent # Chain!None
      BY <1>1, <2>1, <2>2, <2>5, LeadsBack DEF Chain!Line
    <3> QED BY <2>1, <2>2, <2>3, <2>4, <3>1 DEF Chain!Circular
  <2>6. CASE j \notin Chain!Line(p)
    <3> DEFINE P == Chain!Line(a) \ Chain!Line(j)
    <3>1. Chain!Line(a) \ Chain!Line(p) = P \cup {j} /\ j \notin P
      BY <2>1, <2>2, <2>6
    <3>0. P = Chain!Line(a) \ Chain!Line(j)
      OBVIOUS
    <3>2. IsFiniteSet(P)
      <4>1. IsFiniteSet(Chain!Line(a))
        BY <1>1, LineIsFinite DEF Chain!Line
      <4> QED BY <4>1, FS_Difference
    <3> HIDE DEF P
    <3>3. Cardinality(P \cup {j}) = Cardinality(P) + 1 /\ Cardinality(P) \in Nat
      BY <3>1, <3>2, FS_AddElement, FS_CardinalityType
    <3>4. Cardinality(Chain!Line(a) \ Chain!Line(p)) = Cardinality(P) + 1
      BY <3>1, <3>3
    <3>5. Cardinality(P) >= check.depth \/ Chain!Circular(a)
      BY <2>1, <3>0
    <3>6. Cardinality(Chain!Line(a) \ Chain!Line(p)) >= check.depth + 1 \/ Chain!Circular(a)
      BY <1>1, <3>3, <3>4, <3>5
    <3> QED BY <2>1, <2>2, <2>3, <2>4, <3>6
  <2> QED BY <2>5, <2>6
<1>3. CASE Blank
  <2>1. Chain!Conclude("differential")
    BY <1>3, Zenon DEF Chain!CheckParent, Blank
  <2>2. ~Chain!Has(p)
    <3>1. rows[p] \in Chain!Rows \/ rows[p] = Chain!NoRow
      BY <1>1 DEF ChainInv, Table
    <3>2. rows[p] \in Chain!Rows => rows[p].type \in {"full", "incremental"}
      BY DEF Chain!Rows
    <3>3. rows[p].type \notin {"full", "incremental"}
      BY <1>3, Zenon DEF Blank
    <3> QED BY <3>1, <3>2, <3>3, Zenon DEF Chain!Has
  <2> QED BY <1>0, <1>1, <1>2, <2>1, <2>2, ConcludeHolds
<1>4. CASE ~Blank /\ check.depth + 1 = MaxDepth
  <2>1. Chain!Conclude("ok")
    BY <1>4, Zenon DEF Chain!CheckParent, Blank
  <2>2. ASSUME ~changed, ~Chain!Circular(a) PROVE ~Chain!IsShort(a)
    <3> DEFINE P == Chain!Line(a) \ Chain!Line(p)
    <3>1. IsFiniteSet(Chain!Line(a)) /\ Cardinality(Chain!Line(a)) \in Nat
      BY <1>1, LineIsFinite DEF Chain!Line
    <3>2. Cardinality(P) >= MaxDepth /\ p \in Chain!Line(a) /\ p \in Chain!Line(p)
      BY <1>2, <1>4, <2>2
    <3>3. P \in SUBSET (Chain!Line(a) \ {p})
      BY <3>2
    <3>4. /\ IsFiniteSet(Chain!Line(a) \ {p})
          /\ Cardinality(Chain!Line(a) \ {p}) = Cardinality(Chain!Line(a)) - 1
      BY <3>1, <3>2, FS_RemoveElement
    <3>5. Cardinality(P) <= Cardinality(Chain!Line(a) \ {p}) /\ Cardinality(P) \in Nat
      BY <3>3, <3>4, FS_Subset, FS_CardinalityType
    <3> QED
      BY <3>1, <3>2, <3>4, <3>5, ChainFacts, ChainCardinality DEF Chain!IsShort
  <2> QED BY <1>0, <1>1, <2>1, <2>2, ConcludeHolds
<1>5. CASE ~Blank /\ check.depth + 1 # MaxDepth
  <2>1. /\ check' = [Chain!Idle EXCEPT !.at = "job", !.job = p, !.depth = check.depth + 1]
        /\ UNCHANGED <<answer, changed, rows, loose>>
    BY <1>5, Zenon DEF Chain!CheckParent, Blank
  <2>2. /\ check' = [at |-> "job", job |-> p, parent |-> Chain!None,
                     depth |-> check.depth + 1]
    BY <2>1 DEF Chain!Idle
  <2>3. check.depth + 1 \in 0..(MaxDepth - 1)
    BY <1>1, <1>5, ChainFacts
  <2>4. /\ rows' \in Table /\ loose' \subseteq Jobs /\ LengthShape'
        /\ answer' = answer /\ rows' = rows /\ changed' = changed
    BY <2>1, NoRowsWritten
  <2>5. CheckShape'
    <3>1. /\ Passed' = Chain!Line(a) \ Chain!Line(p)
          /\ Chain!Line(answer.job)' = Chain!Line(a)
      BY <2>2, <2>4 DEF Passed, Chain!Line
    <3>2. Chain!Circular(answer.job)' <=> Chain!Circular(answer.job)
      BY <2>4 DEF Chain!Circular, Chain!Line
    <3>3. ~changed =>
            /\ p \in Chain!Line(a) /\ \A k \in Passed' : rows[k].parent # Chain!None
            /\ Cardinality(Passed') >= check.depth + 1 \/ Chain!Circular(a)
      BY <1>2, <3>1
    <3> QED BY <1>1, <2>2, <2>3, <2>4, <3>1, <3>2, <3>3 DEF CheckShape
  <2> QED BY <1>1, <2>4, <2>5 DEF ChainInv, Chain!AnswersHold, CheckShape
<1> QED BY <1>3, <1>4, <1>5, Zenon

(* A row is written.  Those whose line leads there, and the job itself if  *)
(* its parent is missing or one of them, are loose afterwards.             *)
LEMMA RecordJobHolds ==
  ASSUME ChainInv, NEW j \in Jobs, NEW p \in (Jobs \ {j}) \cup {Chain!None},
         NEW type \in {"full", "incremental"}, Chain!RecordJob(j, p, type)
  PROVE  ChainInv'
<1> DEFINE there == p # Chain!None /\ Chain!Has(p)
           size == IF there THEN rows[p].length + 1 ELSE 0
           row == [parent |-> p, type |-> type, length |-> size]
           below == {k \in Jobs \ {j} : Chain!Has(k) /\ j \in Chain!Line(k)}
           torn == p # Chain!None /\ (~there \/ p \in loose \cup below)
<1>1. /\ size <= MaxLength /\ rows' = [rows EXCEPT ![j] = row]
      /\ loose' = (loose \ {j}) \cup below \cup (IF torn THEN {j} ELSE {})
      /\ changed' = (check # Chain!Idle) /\ check' = check
      /\ answer' = IF check = Chain!Idle THEN Chain!Silence ELSE answer
  BY DEF Chain!RecordJob
<1>2. rows \in Table /\ IsTable(rows) /\ loose \subseteq Jobs /\ LengthShape
  BY RowsAreTable DEF ChainInv
<1>3. \A k \in Jobs : rows[k].length \in Nat
  <2> SUFFICES ASSUME NEW k \in Jobs PROVE rows[k].length \in Nat
    OBVIOUS
  <2>1. rows[k] \in Chain!Rows \/ rows[k] = Chain!NoRow
    BY <1>2 DEF Table
  <2>2. rows[k] \in Chain!Rows => rows[k].length \in Nat
    BY ChainFacts DEF Chain!Rows
  <2> QED BY <2>1, <2>2, NoRowBare
<1>4. size \in Nat /\ row \in Chain!Rows
  <2>1. size \in Nat
    BY <1>3
  <2> HIDE DEF size
  <2> QED BY <1>1, <2>1, ChainFacts DEF Chain!Rows
<1>5. /\ rows' \in Table /\ rows'[j] = row /\ IsTable(rows')
      /\ \A k \in Jobs \ {j} : rows'[k] = rows[k]
  <2> HIDE DEF row
  <2>1. rows' \in Table
    BY <1>1, <1>2, <1>4 DEF Table
  <2> QED BY <1>1, <1>2, <2>1, RowsAreTable DEF Table
<1>6. ASSUME NEW k \in Jobs \ {j}, k \notin below PROVE Chain!Line(k)' = Chain!Line(k)
  <2>1. j \notin Chain!Line(k)
    <3>1. CASE Chain!Has(k)
      BY <1>6, <3>1
    <3>2. CASE ~Chain!Has(k)
      BY <1>2, <1>6, <3>2, NoRowBare, LineStep DEF Chain!Has, Chain!Line
    <3> QED BY <3>1, <3>2
  <2> QED BY <1>2, <1>5, <2>1, LineElsewhere DEF Chain!Line
<1>7. loose' \subseteq Jobs
  BY <1>1, <1>2
<1>8. LengthShape'
  <2> SUFFICES ASSUME NEW k \in Jobs, k \notin loose'
               PROVE  Cardinality(Chain!Line(k)') <= rows'[k].length + 1
    BY DEF LengthShape
  <2>1. CASE k # j
    <3>1. k \notin loose /\ k \notin below
      BY <1>1, <2>1
    <3> QED BY <1>2, <1>5, <1>6, <2>1, <3>1 DEF LengthShape
  <2>2. CASE k = j /\ p = Chain!None
    <3>1. Chain!Line(j)' = {j}
      BY <1>5, <2>2, LineStep DEF Chain!Line
    <3> QED BY <1>4, <1>5, <2>2, <3>1, FS_Singleton
  <2>3. CASE k = j /\ p # Chain!None
    <3>1. there /\ p \notin loose /\ p \notin below /\ p \in Jobs \ {j}
      BY <1>1, <2>3
    <3>2. Chain!Line(p)' = Chain!Line(p) /\ j \notin Chain!Line(p)
      BY <1>6, <3>1
    <3>3. Chain!Line(j)' = {j} \cup Chain!Line(p)
      BY <1>5, <2>3, <3>2, LineStep DEF Chain!Line
    <3>4. IsFiniteSet(Chain!Line(p)) /\ Cardinality(Chain!Line(p)) \in Nat
      BY <1>2, <3>1, LineIsFinite DEF Chain!Line
    <3>5. Cardinality(Chain!Line(p) \cup {j}) = Cardinality(Chain!Line(p)) + 1
      BY <3>2, <3>4, FS_AddElement
    <3>6. Cardinality(Chain!Line(p)) <= rows[p].length + 1
      BY <1>2, <3>1 DEF LengthShape
    <3>7. rows'[j].length = rows[p].length + 1 /\ rows[p].length \in Nat
      BY <1>3, <1>5, <3>1
    <3>8. Chain!Line(j)' = Chain!Line(p) \cup {j}
      BY <3>3
    <3> QED BY <2>3, <3>4, <3>5, <3>6, <3>7, <3>8
  <2> QED BY <2>1, <2>2, <2>3
<1>9. CheckShape' /\ changed' \in BOOLEAN
  BY <1>1 DEF ChainInv, CheckShape
<1>10. answer'.says = "nothing"
  BY <1>1 DEF ChainInv, CheckShape, Chain!Silence
<1> QED BY <1>5, <1>7, <1>8, <1>9, <1>10 DEF ChainInv, Chain!AnswersHold

LEMMA RebootHolds == ChainInv /\ Chain!Reboot => ChainInv'
<1> SUFFICES ASSUME Chain!Reboot PROVE ChainInv'
  OBVIOUS
<1>1. rows' \in Table /\ \A j \in Jobs : rows'[j].parent = Chain!None /\ rows'[j].length = 0
  BY NoRowBare DEF Chain!Reboot, Table
<1>2. ASSUME NEW j \in Jobs PROVE Cardinality(Chain!Line(j)') <= rows'[j].length + 1
  <2>1. Chain!Line(j)' = {j}
    BY <1>1, RowsAreTable, LineStep DEF Chain!Line
  <2>2. Cardinality({j}) = 1
    BY FS_Singleton
  <2> QED BY <1>1, <2>1, <2>2
<1>3. answer'.says = "nothing" /\ check' = Chain!Idle /\ loose' = {} /\ changed' = FALSE
  BY DEF Chain!Reboot, Chain!Silence
<1> QED
  BY <1>1, <1>2, <1>3 DEF ChainInv, CheckShape, LengthShape, Chain!AnswersHold

LEMMA ChainStepHolds == ChainInv /\ (Chain!Next \/ UNCHANGED chainVars) => ChainInv'
<1> SUFFICES ASSUME ChainInv, (Chain!Next \/ UNCHANGED chainVars) PROVE ChainInv'
  OBVIOUS
<1>1. CASE UNCHANGED chainVars
  <2>1. /\ rows' = rows /\ check' = check /\ answer' = answer
        /\ changed' = changed /\ loose' = loose
    BY <1>1 DEF chainVars
  <2>2. Chain!Circular(answer.job)' <=> Chain!Circular(answer.job)
    BY <2>1 DEF Chain!Circular, Chain!Line
  <2> QED
    BY <2>1, <2>2 DEF ChainInv, CheckShape, LengthShape, Chain!AnswersHold,
       Chain!Line, Passed,
       Chain!Full, Chain!Bare, Chain!IsShort, Chain!Has
<1>2. CASE Chain!Next
  BY <1>2, RecordJobHolds, CheckChainHolds, VerifyHolds, ForceHolds,
     CheckJobHolds, CheckParentHolds, RebootHolds DEF Chain!Next
<1> QED BY <1>1, <1>2
-----------------------------------------------------------------------------
(* Bitmaps of changed blocks.                                              *)

LEMMA BitmapMoves == [Next]_vars => Bitmap!Next \/ UNCHANGED bitmapVars
BY DEF Next, OthersKeep, vars, bitmapVars, CoreMain, CoreHeartbeat,
   CoreMonitor,
       CoreConnect, CoreSpeak, CoreSignal, AgentStep, ChainStep, BufferStep,
       DedupStep, VmStep, ChangedStep, EngineStep, ScaleStep,
       VerificationStep, ScannerStep, OracleStep, BitmapStep, RestoreStep

LEMMA BitmapFacts ==
  /\ MaxRun \in Nat \ {0} /\ Wrap \in Nat \ {0} /\ Totals \subseteq Nat
  /\ Bitmap!MaxTotal \in Nat
<1>1. Bitmap!MaxTotal \in Totals
  BY BitmapAssumption DEF Bitmap!MaxTotal
<1> QED BY <1>1, BitmapAssumption

LEMMA BitmapCardinality == \A S : Bitmap!Cardinality(S) = Cardinality(S)
BY DEF Bitmap!Cardinality, Cardinality

-----------------------------------------------------------------------------
(* Runs.                                                                   *)

RunsOf == [value : BOOLEAN, count : 1..MaxRun]

LEMMA FunctionIsSeq ==
  ASSUME NEW S, NEW n \in Nat, NEW f \in [1..n -> S]
  PROVE  f \in Seq(S) /\ Len(f) = n
<1>1. f \in Seq(S)
  BY SeqDef
<1>2. DOMAIN f = 1..Len(f) /\ Len(f) \in Nat
  BY <1>1, LenProperties
<1> QED BY <1>1, <1>2

LEMMA SeqIsFunction ==
  ASSUME NEW S, NEW s \in Seq(S)
  PROVE  /\ s \in [1..Len(s) -> S] /\ Len(s) \in Nat /\ DOMAIN s = 1..Len(s)
         /\ \A i \in 1..Len(s) : s[i] \in S
BY LenProperties, ElementOfSeq

LEMMA RepeatType ==
  ASSUME NEW r, r.value \in BOOLEAN, r.count \in Nat
  PROVE  Bitmap!Repeat(r) \in Seq(BOOLEAN) /\ Len(Bitmap!Repeat(r)) = r.count
<1>1. Bitmap!Repeat(r) \in [1..r.count -> BOOLEAN]
  BY DEF Bitmap!Repeat
<1> QED BY <1>1, FunctionIsSeq

LEMMA RepeatOfRun ==
  ASSUME NEW r \in RunsOf
  PROVE  Bitmap!Repeat(r) \in Seq(BOOLEAN)
<1>1. r.value \in BOOLEAN /\ r.count \in Nat
  BY BitmapFacts DEF RunsOf
<1> QED BY <1>1, RepeatType

(* One entry more at the end.                                              *)
LEMMA RepeatGrows ==
  ASSUME NEW S, NEW d \in Seq(S), NEW v \in S, NEW c \in Nat
  PROVE  d \o Bitmap!Repeat([value |-> v, count |-> c + 1])
           = Append(d \o Bitmap!Repeat([value |-> v, count |-> c]), v)
<1>0. PICK q, r : q = [value |-> v, count |-> c + 1] /\ r = [value |-> v, count |-> c]
  OBVIOUS
<1> DEFINE x == d \o Bitmap!Repeat(q)
           y == d \o Bitmap!Repeat(r)
           z == Append(y, v)
<1>1. Len(d) \in Nat
  BY LenProperties
<1>2. /\ Bitmap!Repeat(q) \in Seq(S) /\ Len(Bitmap!Repeat(q)) = c + 1
      /\ Bitmap!Repeat(r) \in Seq(S) /\ Len(Bitmap!Repeat(r)) = c
  <2>1. Bitmap!Repeat(q) \in [1..(c + 1) -> S] /\ Bitmap!Repeat(r) \in [1..c -> S]
    BY <1>0 DEF Bitmap!Repeat
  <2> QED BY <2>1, FunctionIsSeq
<1>3. /\ \A i \in 1..(c + 1) : Bitmap!Repeat(q)[i] = v
      /\ \A i \in 1..c : Bitmap!Repeat(r)[i] = v
  BY <1>0 DEF Bitmap!Repeat
<1>4. /\ x \in Seq(S) /\ Len(x) = Len(d) + (c + 1)
      /\ \A i \in 1..Len(x) :
           x[i] = IF i <= Len(d) THEN d[i] ELSE Bitmap!Repeat(q)[i - Len(d)]
  <2>1. Len(d) + Len(Bitmap!Repeat(q)) = Len(d) + (c + 1)
    BY <1>2
  <2> QED BY <1>2, <2>1, ConcatProperties
<1>5. /\ y \in Seq(S) /\ Len(y) = Len(d) + c
      /\ \A i \in 1..Len(y) :
           y[i] = IF i <= Len(d) THEN d[i] ELSE Bitmap!Repeat(r)[i - Len(d)]
  <2>1. Len(d) + Len(Bitmap!Repeat(r)) = Len(d) + c
    BY <1>2
  <2> QED BY <1>2, <2>1, ConcatProperties
<1> HIDE DEF x, y
<1>6. /\ z \in Seq(S) /\ Len(z) = Len(y) + 1
      /\ \A i \in 1..Len(y) : z[i] = y[i]
      /\ z[Len(y) + 1] = v
  BY <1>5, AppendProperties
<1> HIDE DEF z
<1>7. ASSUME NEW i \in 1..Len(x) PROVE x[i] = z[i]
  <2>1. CASE i <= Len(d)
    <3>1. i \in 1..Len(y)
      BY <1>1, <1>4, <1>5, <2>1
    <3> QED BY <1>4, <1>5, <1>6, <2>1, <3>1
  <2>2. CASE ~ (i <= Len(d)) /\ i # Len(y) + 1
    <3>0. i \in 1..(Len(d) + (c + 1)) /\ i # (Len(d) + c) + 1 /\ i > Len(d)
      BY <1>1, <1>4, <1>5, <2>2
    <3>1. i \in 1..Len(y) /\ i - Len(d) \in 1..c /\ i - Len(d) \in 1..(c + 1)
      BY <1>1, <1>5, <3>0
    <3> QED BY <1>3, <1>4, <1>5, <1>6, <2>2, <3>1
  <2>3. CASE ~ (i <= Len(d)) /\ i = Len(y) + 1
    <3>1. i - Len(d) \in 1..(c + 1)
      BY <1>1, <1>4, <1>5, <2>3
    <3> QED BY <1>3, <1>4, <1>6, <2>3, <3>1
  <2> QED BY <2>1, <2>2, <2>3
<1>8. Len(x) = Len(z)
  BY <1>1, <1>4, <1>5, <1>6
<1>9. x = z
  BY <1>4, <1>6, <1>7, <1>8, SeqEqual
<1> QED BY <1>0, <1>9 DEF x, y, z

(* f unpacks the first L of the runs rs.                                   *)
Unpacks(f, rs, L) ==
  /\ f \in [0..L -> Seq(BOOLEAN)] /\ f[0] = <<>>
  /\ \A n \in 1..L : f[n] = f[n - 1] \o Bitmap!Repeat(rs[n])

LEMMA UnpackExists ==
  ASSUME NEW rs \in Seq(RunsOf)
  PROVE  \E f : Unpacks(f, rs, Len(rs))
<1> DEFINE L == Len(rs)
           S == Seq(BOOLEAN)
           step == [p \in (1..L) \X S |-> p[2] \o Bitmap!Repeat(rs[p[1]])]
<1>1. L \in Nat /\ <<>> \in S
  BY LenProperties, EmptySeq
<1>2. ASSUME NEW n \in 1..L, NEW x \in S
      PROVE  step[<<n, x>>] \in S /\ step[<<n, x>>] = x \o Bitmap!Repeat(rs[n])
  <2>1. rs[n] \in RunsOf
    BY ElementOfSeq
  <2>2. Bitmap!Repeat(rs[n]) \in Seq(BOOLEAN)
    BY <2>1, RepeatOfRun
  <2>3. x \o Bitmap!Repeat(rs[n]) \in S
    BY <2>2, ConcatProperties
  <2> QED BY <2>3
<1> HIDE DEF step
<1>3. PICK f \in [0..L -> S] : Follows(f, <<>>, step, L)
  BY <1>1, <1>2, RecursionExists
<1>4. ASSUME NEW n \in 1..L PROVE f[n] = f[n - 1] \o Bitmap!Repeat(rs[n])
  <2>1. n - 1 \in 0..L
    BY <1>1
  <2> QED BY <1>2, <1>3, <2>1 DEF Follows
<1> QED BY <1>3, <1>4 DEF Unpacks, Follows

LEMMA DecompressUnpacks ==
  ASSUME NEW rs \in Seq(RunsOf), NEW f, Unpacks(f, rs, Len(rs))
  PROVE  Bitmap!Decompress(rs) = f[Len(rs)]
<1> DEFINE F(h) == h = [n \in 0..Len(rs) |->
                          IF n = 0 THEN <<>> ELSE h[n - 1] \o Bitmap!Repeat(rs[n])]
           of == CHOOSE h : F(h)
<1>1. Len(rs) \in Nat
  BY LenProperties
<1>2. F(f)
  <2>1. \A n \in 0..Len(rs) :
          f[n] = IF n = 0 THEN <<>> ELSE f[n - 1] \o Bitmap!Repeat(rs[n])
    <3> SUFFICES ASSUME NEW n \in 0..Len(rs)
                 PROVE  f[n] = IF n = 0 THEN <<>> ELSE f[n - 1] \o Bitmap!Repeat(rs[n])
      OBVIOUS
    <3>1. CASE n = 0
      BY <3>1 DEF Unpacks
    <3>2. CASE n # 0
      <4>1. n \in 1..Len(rs)
        BY <1>1, <3>2
      <4> QED BY <3>2, <4>1 DEF Unpacks
    <3> QED BY <3>1, <3>2
  <2> QED BY <2>1 DEF Unpacks
<1>3. F(of)
  BY <1>2
<1>4. Bitmap!Decompress(rs) = of[Len(rs)]
  BY DEF Bitmap!Decompress
<1> HIDE DEF of
<1> DEFINE P == {n \in Nat : n <= Len(rs) => of[n] = f[n]}
<1>5. 0 \in P
  BY <1>1, <1>3 DEF Unpacks
<1>6. ASSUME NEW n \in Nat, n \in P PROVE n + 1 \in P
  <2> SUFFICES ASSUME n + 1 <= Len(rs) PROVE of[n + 1] = f[n + 1]
    OBVIOUS
  <2>1. n + 1 \in 1..Len(rs) /\ (n + 1) - 1 = n /\ of[n] = f[n] /\ n + 1 # 0
        /\ n + 1 \in 0..Len(rs)
    BY <1>1, <1>6
  <2>2. of[n + 1] = of[n] \o Bitmap!Repeat(rs[n + 1])
    BY <1>3, <2>1
  <2> QED BY <2>1, <2>2 DEF Unpacks
<1> HIDE DEF P
<1>7. Nat \subseteq P
  BY <1>5, <1>6, SetInduction
<1> QED BY <1>1, <1>4, <1>7 DEF P

LEMMA DecompressType ==
  ASSUME NEW rs \in Seq(RunsOf)
  PROVE  Bitmap!Decompress(rs) \in Seq(BOOLEAN)
<1>1. PICK f : Unpacks(f, rs, Len(rs))
  BY UnpackExists
<1>2. Len(rs) \in 0..Len(rs)
  BY LenProperties
<1> QED BY <1>1, <1>2, DecompressUnpacks DEF Unpacks

LEMMA DecompressEmpty == Bitmap!Decompress(<<>>) = <<>>
<1>1. <<>> \in Seq(RunsOf) /\ Len(<<>>) = 0
  BY EmptySeq
<1>2. PICK f : Unpacks(f, <<>>, Len(<<>>))
  BY <1>1, UnpackExists
<1> QED BY <1>1, <1>2, DecompressUnpacks DEF Unpacks

(* A part of the runs unpacks to a part of the bitmap.                     *)
LEMMA DecompressPrefix ==
  ASSUME NEW rs \in Seq(RunsOf), NEW m \in 0..Len(rs), NEW f,
         Unpacks(f, rs, Len(rs)), NEW qs \in Seq(RunsOf), Len(qs) = m,
         \A i \in 1..m : qs[i] = rs[i]
  PROVE  Bitmap!Decompress(qs) = f[m]
<1> DEFINE g == [n \in 0..m |-> f[n]]
<1>1. Len(rs) \in Nat
  BY LenProperties
<1>2. g \in [0..m -> Seq(BOOLEAN)] /\ g[0] = <<>> /\ g[m] = f[m]
  BY <1>1 DEF Unpacks
<1>3. ASSUME NEW n \in 1..m PROVE g[n] = g[n - 1] \o Bitmap!Repeat(qs[n])
  <2>1. n \in 1..Len(rs) /\ n - 1 \in 0..m /\ n \in 0..m /\ qs[n] = rs[n]
    BY <1>1
  <2> QED BY <2>1 DEF Unpacks
<1> HIDE DEF g
<1>4. Unpacks(g, qs, Len(qs))
  BY <1>2, <1>3 DEF Unpacks
<1> QED BY <1>2, <1>4, DecompressUnpacks

LEMMA DecompressAppend ==
  ASSUME NEW rs \in Seq(RunsOf), NEW r \in RunsOf
  PROVE  Bitmap!Decompress(Append(rs, r)) = Bitmap!Decompress(rs) \o Bitmap!Repeat(r)
<1> DEFINE us == Append(rs, r)
<1>1. /\ us \in Seq(RunsOf) /\ Len(us) = Len(rs) + 1 /\ Len(rs) \in Nat
      /\ \A i \in 1..Len(rs) : us[i] = rs[i]
      /\ us[Len(rs) + 1] = r
  BY AppendProperties, LenProperties
<1> HIDE DEF us
<1>2. PICK f : Unpacks(f, us, Len(us))
  BY <1>1, UnpackExists
<1>3. Bitmap!Decompress(us) = f[Len(us)]
  BY <1>1, <1>2, DecompressUnpacks
<1>4. Bitmap!Decompress(rs) = f[Len(rs)]
  <2>1. Len(rs) \in 0..Len(us) /\ \A i \in 1..Len(rs) : rs[i] = us[i]
    BY <1>1
  <2> QED BY <1>1, <1>2, <2>1, DecompressPrefix
<1>5. f[Len(us)] = f[Len(rs)] \o Bitmap!Repeat(r)
  <2>1. Len(us) \in 1..Len(us) /\ Len(us) - 1 = Len(rs)
    BY <1>1
  <2> QED BY <1>1, <1>2, <2>1 DEF Unpacks
<1> QED BY <1>3, <1>4, <1>5 DEF us

LEMMA ModSmall == \A n, m \in Nat : n < m => n % m = n
OBVIOUS

(* An entry joins the last run, or begins one.                             *)
LEMMA ExtendCases ==
  ASSUME NEW rs \in Seq(RunsOf), NEW v \in BOOLEAN
  PROVE  \/ Bitmap!Extend(rs, v) = Append(rs, [value |-> v, count |-> 1])
         \/ \E front \in Seq(RunsOf), c \in 1..MaxRun :
              /\ c + 1 \in 1..MaxRun
              /\ rs = Append(front, [value |-> v, count |-> c])
              /\ Bitmap!Extend(rs, v) = Append(front, [value |-> v, count |-> c + 1])
<1> DEFINE n == Len(rs)
<1>1. CASE rs # <<>> /\ rs[n].value = v /\ rs[n].count < MaxRun
  <2>1. PICK front \in Seq(RunsOf), r \in RunsOf : rs = Append(front, r)
    BY <1>1, SequenceEmptyOrAppend
  <2> DEFINE c == r.count
             q == [value |-> v, count |-> c + 1]
             e == [rs EXCEPT ![n] = q]
             z == Append(front, q)
  <2>2. /\ n = Len(front) + 1 /\ Len(front) \in Nat /\ rs[n] = r
        /\ \A i \in 1..Len(front) : rs[i] = front[i]
    BY <2>1, AppendProperties, LenProperties
  <2>3. c \in 1..MaxRun /\ c + 1 \in 1..MaxRun /\ (c + 1) % (MaxRun + 1) = c + 1
    <3>1. c \in 1..MaxRun /\ c < MaxRun
      BY <1>1, <2>2 DEF RunsOf
    <3>2. c + 1 \in Nat /\ MaxRun + 1 \in Nat /\ c + 1 < MaxRun + 1
      BY <3>1, BitmapFacts
    <3> QED BY <3>1, <3>2, BitmapFacts, ModSmall
  <2>4. r = [value |-> v, count |-> c] /\ q \in RunsOf
    <3>1. r.value = v
      BY <1>1, <2>2
    <3> QED BY <2>3, <3>1 DEF RunsOf
  <2>5. Bitmap!Extend(rs, v) = e
    <3>1. [rs[n] EXCEPT !.count = (@ + 1) % (MaxRun + 1)] = q
      <4>1. [r EXCEPT !.count = (@ + 1) % (MaxRun + 1)]
              = [value |-> r.value, count |-> (c + 1) % (MaxRun + 1)]
        BY DEF RunsOf
      <4>2. r.value = v
        BY <1>1, <2>2
      <4> QED BY <2>2, <2>3, <4>1, <4>2
    <3>2. Bitmap!Extend(rs, v) =
            [rs EXCEPT ![n] = [rs[n] EXCEPT !.count = (@ + 1) % (MaxRun + 1)]]
      BY <1>1 DEF Bitmap!Extend
    <3> QED BY <3>1, <3>2
  <2> HIDE DEF q, c
  <2>6. /\ e \in Seq(RunsOf) /\ Len(e) = n /\ e[n] = q
        /\ \A i \in 1..Len(front) : e[i] = rs[i]
    <3>1. rs \in [1..n -> RunsOf] /\ n \in Nat /\ n \in 1..n
      BY <2>2, SeqIsFunction
    <3>2. e \in [1..n -> RunsOf]
      BY <2>4, <3>1
    <3>3. e[n] = q /\ \A i \in 1..Len(front) : e[i] = rs[i]
      BY <2>2, <3>1
    <3> HIDE DEF e
    <3> QED BY <3>1, <3>2, <3>3, FunctionIsSeq
  <2>7. /\ z \in Seq(RunsOf) /\ Len(z) = n /\ z[n] = q
        /\ \A i \in 1..Len(front) : z[i] = front[i]
    BY <2>2, <2>4, AppendProperties
  <2> HIDE DEF z, e
  <2>8. \A i \in 1..n : e[i] = z[i]
    BY <2>2, <2>6, <2>7
  <2>9. e = z
    BY <2>6, <2>7, <2>8, SeqEqual
  <2> QED BY <2>1, <2>3, <2>4, <2>5, <2>9 DEF z, q
<1>2. CASE ~ (rs # <<>> /\ rs[n].value = v /\ rs[n].count < MaxRun)
  BY <1>2 DEF Bitmap!Extend
<1> QED BY <1>1, <1>2

(* Either way it comes out at the end.                                     *)
LEMMA DecompressExtend ==
  ASSUME NEW rs \in Seq(RunsOf), NEW v \in BOOLEAN
  PROVE  /\ Bitmap!Extend(rs, v) \in Seq(RunsOf)
         /\ Bitmap!Decompress(Bitmap!Extend(rs, v)) = Append(Bitmap!Decompress(rs), v)
<1> DEFINE R(c) == [value |-> v, count |-> c]
<1>1. \A c \in 1..MaxRun : R(c) \in RunsOf
  BY DEF RunsOf
<1>2. CASE Bitmap!Extend(rs, v) = Append(rs, R(1))
  <2>1. R(1) \in RunsOf
    BY <1>1, BitmapFacts
  <2>2. Bitmap!Decompress(Append(rs, R(1))) = Bitmap!Decompress(rs) \o Bitmap!Repeat(R(1))
    BY <2>1, DecompressAppend
  <2>3. Bitmap!Decompress(rs) \in Seq(BOOLEAN)
    BY DecompressType
  <2>4. R(1) = [value |-> v, count |-> 0 + 1]
    OBVIOUS
  <2>5. Bitmap!Decompress(rs) \o Bitmap!Repeat(R(1)) = Append(Bitmap!Decompress(rs) \o Bitmap!Repeat(R(0)), v)
    BY <2>3, <2>4, RepeatGrows
  <2>6. Bitmap!Decompress(rs) \o Bitmap!Repeat(R(0)) = Bitmap!Decompress(rs)
    <3>1. Bitmap!Repeat(R(0)) \in Seq(BOOLEAN) /\ Len(Bitmap!Repeat(R(0))) = 0
      BY RepeatType
    <3>2. Bitmap!Repeat(R(0)) = <<>>
      BY <3>1, EmptySeq
    <3> QED BY <2>3, <3>2, ConcatEmptySeq
  <2>7. Append(rs, R(1)) \in Seq(RunsOf)
    BY <2>1, AppendProperties
  <2> QED BY <1>2, <2>2, <2>5, <2>6, <2>7
<1>3. ASSUME NEW front \in Seq(RunsOf), NEW c \in 1..MaxRun, c + 1 \in 1..MaxRun,
             rs = Append(front, R(c)), Bitmap!Extend(rs, v) = Append(front, R(c + 1))
      PROVE  /\ Bitmap!Extend(rs, v) \in Seq(RunsOf)
             /\ Bitmap!Decompress(Bitmap!Extend(rs, v)) = Append(Bitmap!Decompress(rs), v)
  <2>1. R(c) \in RunsOf /\ R(c + 1) \in RunsOf
    BY <1>1, <1>3
  <2>2. /\ Bitmap!Decompress(rs) = Bitmap!Decompress(front) \o Bitmap!Repeat(R(c))
        /\ Bitmap!Decompress(Bitmap!Extend(rs, v)) = Bitmap!Decompress(front) \o Bitmap!Repeat(R(c + 1))
    BY <1>3, <2>1, DecompressAppend
  <2>3. Bitmap!Decompress(front) \in Seq(BOOLEAN)
    BY DecompressType
  <2>4. Bitmap!Decompress(front) \o Bitmap!Repeat(R(c + 1)) =
          Append(Bitmap!Decompress(front) \o Bitmap!Repeat(R(c)), v)
    <3>1. c \in Nat
      BY BitmapFacts
    <3>2. PICK d \in Seq(BOOLEAN) : d = Bitmap!Decompress(front)
      BY <2>3
    <3>3. d \o Bitmap!Repeat(R(c + 1)) = Append(d \o Bitmap!Repeat(R(c)), v)
      BY <3>1, RepeatGrows
    <3> QED BY <3>2, <3>3
  <2>5. Append(front, R(c + 1)) \in Seq(RunsOf)
    BY <2>1, AppendProperties
  <2>6. Bitmap!Extend(rs, v) \in Seq(RunsOf)
    BY <1>3, <2>5
  <2>7. Bitmap!Decompress(Bitmap!Extend(rs, v)) = Append(Bitmap!Decompress(rs), v)
    BY <2>2, <2>4
  <2> QED BY <2>6, <2>7
<1>4. \/ Bitmap!Extend(rs, v) = Append(rs, R(1))
      \/ \E front \in Seq(RunsOf), c \in 1..MaxRun :
           /\ c + 1 \in 1..MaxRun
           /\ rs = Append(front, R(c)) /\ Bitmap!Extend(rs, v) = Append(front, R(c + 1))
  BY ExtendCases
<1> HIDE DEF R
<1> QED BY <1>2, <1>3, <1>4, Zenon

(* What was kept in runs comes out as it was.                              *)
LEMMA CompressOpens ==
  ASSUME NEW b \in Seq(BOOLEAN)
  PROVE  Bitmap!Compress(b) \in Seq(RunsOf) /\ Bitmap!Decompress(Bitmap!Compress(b)) = b
<1> DEFINE L == Len(b)
           S == Seq(RunsOf)
           F(h) == h = [n \in 0..L |->
                          IF n = 0 THEN <<>> ELSE Bitmap!Extend(h[n - 1], b[n])]
           of == CHOOSE h : F(h)
           step == [p \in (1..L) \X S |-> Bitmap!Extend(p[2], b[p[1]])]
<1>1. L \in Nat /\ <<>> \in S /\ \A n \in 1..L : b[n] \in BOOLEAN
  BY LenProperties, EmptySeq, ElementOfSeq
<1>2. ASSUME NEW n \in 1..L, NEW x \in S
      PROVE  step[<<n, x>>] \in S /\ step[<<n, x>>] = Bitmap!Extend(x, b[n])
  BY <1>1, DecompressExtend
<1> HIDE DEF step
<1>3. PICK f \in [0..L -> S] : Follows(f, <<>>, step, L)
  BY <1>1, <1>2, RecursionExists
<1>4. F(f)
  <2> SUFFICES ASSUME NEW n \in 0..L
               PROVE  f[n] = IF n = 0 THEN <<>> ELSE Bitmap!Extend(f[n - 1], b[n])
    OBVIOUS
  <2>1. CASE n = 0
    BY <1>3, <2>1 DEF Follows
  <2>2. CASE n # 0
    <3>1. n \in 1..L /\ n - 1 \in 0..L
      BY <1>1, <2>2
    <3>2. f[n - 1] \in S
      BY <3>1
    <3> QED BY <1>2, <1>3, <2>2, <3>1, <3>2 DEF Follows
  <2> QED BY <2>1, <2>2
<1>5. F(of)
  BY <1>4
<1>6. Bitmap!Compress(b) = of[L]
  BY DEF Bitmap!Compress
<1> HIDE DEF of
<1> DEFINE Opens(n) == /\ of[n] \in S
                       /\ Len(Bitmap!Decompress(of[n])) = n
                       /\ \A i \in 1..n : Bitmap!Decompress(of[n])[i] = b[i]
           P == {n \in Nat : n <= L => Opens(n)}
<1>7. 0 \in P
  <2>1. of[0] = <<>>
    BY <1>1, <1>5
  <2>2. Bitmap!Decompress(of[0]) = <<>> /\ of[0] \in S
    BY <1>1, <2>1, DecompressEmpty
  <2>3. Len(<<>>) = 0 /\ 1..0 = {}
    BY EmptySeq
  <2> QED BY <2>2, <2>3, Zenon
<1>8. ASSUME NEW n \in Nat, n \in P PROVE n + 1 \in P
  <2> SUFFICES ASSUME n + 1 <= L PROVE Opens(n + 1)
    OBVIOUS
  <2>1. n + 1 \in 1..L /\ (n + 1) - 1 = n /\ n + 1 # 0 /\ n + 1 \in 0..L
    BY <1>1
  <2>2. of[n] \in S /\ Opens(n)
    BY <1>8, <2>1
  <2>3. of[n + 1] = Bitmap!Extend(of[n], b[n + 1])
    BY <1>5, <2>1
  <2> DEFINE d == Bitmap!Decompress(of[n])
  <2>4. d \in Seq(BOOLEAN) /\ Len(d) = n /\ \A i \in 1..n : d[i] = b[i]
    BY <2>2, DecompressType
  <2>5. of[n + 1] \in S /\ Bitmap!Decompress(of[n + 1]) = Append(d, b[n + 1])
    BY <1>1, <2>1, <2>2, <2>3, DecompressExtend
  <2> HIDE DEF d
  <2>6. /\ Len(Append(d, b[n + 1])) = n + 1
        /\ \A i \in 1..n : Append(d, b[n + 1])[i] = d[i]
        /\ Append(d, b[n + 1])[n + 1] = b[n + 1]
    <3>1. b[n + 1] \in BOOLEAN
      BY <1>1, <2>1
    <3> QED BY <2>4, <3>1, AppendProperties
  <2>7. ASSUME NEW i \in 1..(n + 1) PROVE Append(d, b[n + 1])[i] = b[i]
    <3>1. CASE i = n + 1
      BY <2>6, <3>1
    <3>2. CASE i # n + 1
      <4>1. i \in 1..n
        BY <3>2
      <4> QED BY <2>4, <2>6, <4>1
    <3> QED BY <3>1, <3>2
  <2> QED BY <2>5, <2>6, <2>7
<1> HIDE DEF P
<1>9. Nat \subseteq P
  BY <1>7, <1>8, SetInduction
<1>10. Opens(L)
  BY <1>1, <1>9 DEF P
<1>11. Bitmap!Decompress(of[L]) \in Seq(BOOLEAN)
  BY <1>10, DecompressType
<1> QED BY <1>6, <1>10, <1>11, SeqEqual

(* x is the beginning of y.                                                *)
Begins(x, y) == Len(x) <= Len(y) /\ \A i \in 1..Len(x) : y[i] = x[i]

LEMMA DecompressPart ==
  ASSUME NEW rs \in Seq(RunsOf), NEW m \in 0..Len(rs)
  PROVE  /\ SubSeq(rs, 1, m) \in Seq(RunsOf)
         /\ Begins(Bitmap!Decompress(SubSeq(rs, 1, m)), Bitmap!Decompress(rs))
<1> DEFINE qs == SubSeq(rs, 1, m)
           L == Len(rs)
<1>1. L \in Nat /\ m \in Nat
  BY LenProperties
<1>2. qs \in Seq(RunsOf) /\ Len(qs) = m /\ \A i \in 1..m : qs[i] = rs[i]
  <2>1. \A i \in 1..m : rs[i] \in RunsOf
    BY <1>1, ElementOfSeq
  <2> QED BY <1>1, <2>1, SubSeqProperties
<1> HIDE DEF qs
<1>3. PICK f : Unpacks(f, rs, L)
  BY UnpackExists
<1>4. Bitmap!Decompress(rs) = f[L] /\ Bitmap!Decompress(qs) = f[m]
  BY <1>2, <1>3, DecompressUnpacks, DecompressPrefix
<1> DEFINE P == {n \in Nat : m + n <= L => Begins(f[m], f[m + n])}
<1>5. 0 \in P
  BY <1>1, <1>3, LenProperties DEF Unpacks, Begins
<1>6. ASSUME NEW n \in Nat, n \in P PROVE n + 1 \in P
  <2> SUFFICES ASSUME m + (n + 1) <= L PROVE Begins(f[m], f[m + (n + 1)])
    OBVIOUS
  <2>1. /\ m + (n + 1) \in 1..L /\ (m + (n + 1)) - 1 = m + n /\ m + n \in 0..L
        /\ m \in 0..L /\ Begins(f[m], f[m + n])
    BY <1>1, <1>6
  <2> DEFINE x == f[m]
             y == f[m + n]
             z == Bitmap!Repeat(rs[m + (n + 1)])
  <2>2. f[m + (n + 1)] = y \o z
    <3>1. PICK k \in 1..L : k = m + (n + 1)
      BY <2>1
    <3>2. f[k] = f[k - 1] \o Bitmap!Repeat(rs[k])
      BY <1>3 DEF Unpacks
    <3>3. k - 1 = m + n
      BY <2>1, <3>1
    <3> QED BY <3>1, <3>2, <3>3
  <2>3. x \in Seq(BOOLEAN) /\ y \in Seq(BOOLEAN) /\ z \in Seq(BOOLEAN)
    <3>1. rs[m + (n + 1)] \in RunsOf
      BY <2>1, ElementOfSeq
    <3>2. z \in Seq(BOOLEAN)
      BY <3>1, RepeatOfRun
    <3> QED BY <1>3, <2>1, <3>2 DEF Unpacks
  <2> HIDE DEF x, y, z
  <2>4. /\ Len(x) \in Nat /\ Len(y) \in Nat /\ Len(z) \in Nat
        /\ Len(y \o z) = Len(y) + Len(z)
        /\ \A i \in 1..Len(y) : (y \o z)[i] = y[i]
    BY <2>3, ConcatProperties, LenProperties
  <2>5. Begins(x, y)
    BY <2>1 DEF x, y
  <2>6. Begins(x, y \o z)
    BY <2>4, <2>5 DEF Begins
  <2> QED BY <2>2, <2>6 DEF x
<1> HIDE DEF P
<1>7. Nat \subseteq P
  BY <1>5, <1>6, SetInduction
<1>8. L - m \in Nat /\ m + (L - m) = L
  BY <1>1
<1>9. Begins(f[m], f[L])
  <2>1. m + (L - m) <= L => Begins(f[m], f[m + (L - m)])
    BY <1>7, <1>8 DEF P
  <2> QED BY <1>1, <1>8, <2>1
<1> QED BY <1>2, <1>4, <1>9 DEF qs

-----------------------------------------------------------------------------
(* Bitmaps.                                                                *)

LEMMA SetOfBits ==
  ASSUME NEW n \in Nat, NEW S, NEW b, b = [i \in 1..n |-> i \in S]
  PROVE  b \in Seq(BOOLEAN) /\ Len(b) = n /\ Bitmap!Set(b) = S \cap (1..n)
<1>1. b \in [1..n -> BOOLEAN]
  OBVIOUS
<1>2. Bitmap!Set(b) = S \cap (1..n)
  BY DEF Bitmap!Set
<1> QED BY <1>1, <1>2, FunctionIsSeq

LEMMA CleanBits ==
  ASSUME NEW n \in Nat, NEW b, b = [i \in 1..n |-> FALSE]
  PROVE  b \in Seq(BOOLEAN) /\ Len(b) = n /\ Bitmap!Set(b) = {}
<1>1. b \in [1..n -> BOOLEAN]
  OBVIOUS
<1>2. Bitmap!Set(b) = {}
  BY DEF Bitmap!Set
<1> QED BY <1>1, <1>2, FunctionIsSeq

LEMMA SetIsFinite ==
  ASSUME NEW b \in Seq(BOOLEAN)
  PROVE  /\ Bitmap!Set(b) \subseteq 1..Len(b) /\ IsFiniteSet(Bitmap!Set(b))
         /\ Cardinality(Bitmap!Set(b)) \in Nat
<1>1. DOMAIN b = 1..Len(b) /\ Len(b) \in Nat
  BY LenProperties
<1>2. Bitmap!Set(b) \in SUBSET (1..Len(b))
  BY <1>1 DEF Bitmap!Set
<1>3. IsFiniteSet(1..Len(b))
  BY <1>1, FS_Interval
<1>4. IsFiniteSet(Bitmap!Set(b))
  BY <1>2, <1>3, FS_Subset
<1> QED BY <1>2, <1>4, FS_CardinalityType

(* Two that agree as far as the shorter goes.                              *)
LEMMA SetOfBeginning ==
  ASSUME NEW x \in Seq(BOOLEAN), NEW y \in Seq(BOOLEAN), Begins(x, y)
  PROVE  Bitmap!Set(x) = Bitmap!Set(y) \cap (1..Len(x))
<1>1. /\ DOMAIN x = 1..Len(x) /\ DOMAIN y = 1..Len(y)
      /\ Len(x) \in Nat /\ Len(y) \in Nat
  BY LenProperties
<1>2. ASSUME NEW i \in 1..Len(x) PROVE i \in DOMAIN y /\ y[i] = x[i]
  BY <1>1 DEF Begins
<1> QED BY <1>1, <1>2 DEF Bitmap!Set

(* Every set entry is in a stretch.                                        *)
LEMMA StretchOf ==
  ASSUME total \in Nat, NEW b, Bitmap!Set(b) \subseteq 1..total, NEW i \in Bitmap!Set(b)
  PROVE  \E s \in Bitmap!Stretches(b) : i \in s[1]..s[2]
<1> DEFINE S == Bitmap!Set(b)
           T == {l \in 1..i : l..i \subseteq S}
           U == {n \in Nat : \E h \in i..total : n = total - h /\ i..h \subseteq S}
<1>0. i \in 1..total
  OBVIOUS
<1>1. PICK l \in T : \A x \in T : l <= x
  <2>1. i \in T
    BY <1>0
  <2>2. T \subseteq Nat
    BY <1>0
  <2> HIDE DEF T
  <2> QED BY <2>1, <2>2, LeastMember
<1>2. PICK n \in U : \A x \in U : n <= x
  <2>1. total - i \in U
    BY <1>0
  <2>2. U \subseteq Nat
    OBVIOUS
  <2> HIDE DEF U
  <2> QED BY <2>1, <2>2, LeastMember
<1>3. PICK h \in i..total : n = total - h /\ i..h \subseteq S
  BY <1>2
<1>4. l \in 1..total /\ h \in 1..total /\ l <= i /\ i <= h
  BY <1>0, <1>1, <1>3
<1>5. \A k \in l..h : k \in S
  BY <1>0, <1>1, <1>3, <1>4
<1>6. l - 1 \notin S \cap (1..total)
  <2> SUFFICES ASSUME l - 1 \in S, l - 1 \in 1..total PROVE FALSE
    OBVIOUS
  <2>1. l - 1 \in T
    <3>1. \A k \in (l - 1)..i : k = l - 1 \/ k \in l..i
      BY <1>0, <1>4
    <3> QED BY <1>1, <1>4, <3>1
  <2> QED BY <1>1, <1>4, <2>1
<1>7. h + 1 \notin S \cap (1..total)
  <2> SUFFICES ASSUME h + 1 \in S, h + 1 \in 1..total PROVE FALSE
    OBVIOUS
  <2>1. total - (h + 1) \in U
    <3>1. \A k \in i..(h + 1) : k = h + 1 \/ k \in i..h
      BY <1>0, <1>4
    <3>2. h + 1 \in i..total /\ i..(h + 1) \subseteq S
      BY <1>3, <1>4, <3>1
    <3> QED BY <3>2
  <2> QED BY <1>2, <1>3, <1>4, <2>1
<1>8. <<l, h>> \in Bitmap!Stretches(b)
  BY <1>4, <1>5, <1>6, <1>7 DEF Bitmap!Stretches
<1> QED BY <1>4, <1>8

(* What a query tells of a bitmap of the whole disk.                       *)
LEMMA StretchesTell ==
  ASSUME total \in Nat, NEW b, Bitmap!Set(b) \subseteq 1..total
  PROVE  \/ UNION {s[1]..((s[1] - 1) + ((s[2] - s[1] + 1) % Wrap)) :
                     s \in Bitmap!Stretches(b)} = Bitmap!Set(b)
         \/ \E i \in Bitmap!Set(b) : i..(i + Wrap - 1) \subseteq Bitmap!Set(b)
<1> DEFINE Told(s) == s[1]..((s[1] - 1) + ((s[2] - s[1] + 1) % Wrap))
<1>1. ASSUME NEW s \in Bitmap!Stretches(b)
      PROVE  /\ s[1] \in 1..total /\ s[2] \in 1..total /\ s[1] <= s[2]
             /\ s[1]..s[2] \subseteq Bitmap!Set(b)
  BY DEF Bitmap!Stretches
<1>2. CASE \E s \in Bitmap!Stretches(b) : s[2] - s[1] + 1 >= Wrap
  <2>1. PICK s \in Bitmap!Stretches(b) : s[2] - s[1] + 1 >= Wrap
    BY <1>2
  <2>2. PICK l, h \in 1..total : l = s[1] /\ h = s[2]
    BY <1>1
  <2>3. l \in l..h /\ l..(l + Wrap - 1) \subseteq l..h
    BY <1>1, <2>1, <2>2, BitmapFacts
  <2>4. l..h \subseteq Bitmap!Set(b)
    BY <1>1, <2>2
  <2> QED BY <2>3, <2>4
<1>3. CASE \A s \in Bitmap!Stretches(b) : ~ (s[2] - s[1] + 1 >= Wrap)
  <2>1. ASSUME NEW s \in Bitmap!Stretches(b) PROVE Told(s) = s[1]..s[2]
    <3>1. s[2] - s[1] + 1 \in Nat /\ s[2] - s[1] + 1 < Wrap
      BY <1>1, <1>3, BitmapFacts
    <3>2. (s[2] - s[1] + 1) % Wrap = s[2] - s[1] + 1
      BY <3>1, BitmapFacts, ModSmall
    <3>3. (s[1] - 1) + (s[2] - s[1] + 1) = s[2]
      BY <1>1
    <3> QED BY <3>2, <3>3
  <2> HIDE DEF Told
  <2>2. \A s \in Bitmap!Stretches(b) : Told(s) \subseteq Bitmap!Set(b)
    BY <1>1, <2>1
  <2>3. \A i \in Bitmap!Set(b) : \E s \in Bitmap!Stretches(b) : i \in Told(s)
    <3> SUFFICES ASSUME NEW i \in Bitmap!Set(b)
                 PROVE  \E s \in Bitmap!Stretches(b) : i \in Told(s)
      OBVIOUS
    <3>1. PICK s \in Bitmap!Stretches(b) : i \in s[1]..s[2]
      BY StretchOf
    <3> QED BY <2>1, <3>1
  <2>4. UNION {Told(s) : s \in Bitmap!Stretches(b)} = Bitmap!Set(b)
    BY <2>2, <2>3
  <2> QED BY <2>4 DEF Told
<1> QED BY <1>2, <1>3

(* What is kept opens to the beginning of what was to be kept, and in a    *)
(* table to all of it; a tracker's bitmap has what it was told, as far as  *)
(* it goes.                                                                *)
TrackerShape ==
  /\ bits \in Seq(BOOLEAN) /\ Len(bits) <= total
  /\ touched \subseteq 1..total
  /\ Bitmap!Set(bits) = touched \cap (1..Len(bits))
  /\ count = Cardinality(Bitmap!Set(bits))

BitmapInv ==
  /\ keeper \in {"tracker", "manager", "engine"} /\ total \in Nat
  /\ runs \in Seq(RunsOf) /\ origin \in Seq(BOOLEAN)
  /\ Bitmap!Set(Bitmap!Decompress(runs)) = Bitmap!Set(origin) \cap (1..Len(Bitmap!Decompress(runs)))
  /\ keeper # "tracker" =>
       Bitmap!Decompress(runs) = origin /\ (shown # <<>> => shown = <<Bitmap!Loaded>>)
  /\ keeper = "tracker" => TrackerShape
  /\ Bitmap!MarksAreTold

LEMMA BitmapInitHolds == Bitmap!Init => BitmapInv
<1> SUFFICES ASSUME Bitmap!Init PROVE BitmapInv
  OBVIOUS
<1>1. total \in Nat
  BY BitmapFacts DEF Bitmap!Init
<1>2. bits = [i \in 1..total |-> FALSE]
  BY DEF Bitmap!Init, Bitmap!Clean
<1>3. bits \in Seq(BOOLEAN) /\ Len(bits) = total /\ Bitmap!Set(bits) = {}
  BY <1>1, <1>2, CleanBits
<1>4. Cardinality({}) = 0
  BY FS_EmptySet
<1>5. TrackerShape
  BY <1>1, <1>3, <1>4 DEF Bitmap!Init, TrackerShape
<1>6. /\ runs \in Seq(RunsOf) /\ origin \in Seq(BOOLEAN)
      /\ Bitmap!Decompress(runs) = origin /\ Len(origin) = 0 /\ Bitmap!Set(origin) = {}
  BY DecompressEmpty, EmptySeq DEF Bitmap!Init, Bitmap!Set
<1>7. Bitmap!MarksAreTold
  BY <1>4, BitmapCardinality DEF Bitmap!Init, Bitmap!MarksAreTold
<1> QED BY <1>1, <1>5, <1>6, <1>7 DEF Bitmap!Init, BitmapInv

(* While the tracker has shown nothing since its bitmap changed.           *)
LEMMA TrackerStays ==
  ASSUME TrackerShape, shown = <<>>, ~outside, total \in Nat
  PROVE  Bitmap!MarksAreTold
<1>1. Len(bits) = total => touched = Bitmap!Set(bits)
  BY DEF TrackerShape
<1> QED BY <1>1, BitmapCardinality DEF TrackerShape, Bitmap!MarksAreTold

LEMMA MarkRangeHolds ==
  ASSUME BitmapInv, NEW first \in Nat, NEW last \in Nat, first >= 1,
         Bitmap!MarkRange(first, last)
  PROVE  BitmapInv'
<1> DEFINE range == first..(IF last < total THEN last ELSE total)
           D == 1..Len(bits)
<1>1. /\ keeper = "tracker" /\ ~outside /\ TrackerShape /\ total \in Nat
      /\ outside' = (range \ DOMAIN bits # {})
      /\ bits' = [i \in DOMAIN bits |-> bits[i] \/ i \in range]
      /\ count' = count + Cardinality((range \cap DOMAIN bits) \ Bitmap!Set(bits))
      /\ touched' = touched \cup range /\ shown' = <<>>
      /\ UNCHANGED <<keeper, total, runs, origin>>
  BY BitmapCardinality DEF Bitmap!MarkRange, BitmapInv
<1>2. /\ bits \in Seq(BOOLEAN) /\ DOMAIN bits = D /\ Len(bits) \in Nat
      /\ Len(bits) <= total /\ touched \subseteq 1..total
      /\ Bitmap!Set(bits) = touched \cap D /\ count = Cardinality(Bitmap!Set(bits))
  BY <1>1, LenProperties DEF TrackerShape
<1>3. range \subseteq 1..total
  BY <1>1
<1> HIDE DEF range
<1>4. bits' = [i \in D |-> i \in touched \cup range]
  <2>1. \A i \in D : bits[i] <=> i \in touched
    BY <1>2 DEF Bitmap!Set
  <2> QED BY <1>1, <1>2, <2>1
<1>5. /\ bits' \in Seq(BOOLEAN) /\ Len(bits') = Len(bits)
      /\ Bitmap!Set(bits') = (touched \cup range) \cap D
  <2>1. bits' \in [D -> BOOLEAN]
    BY <1>4
  <2>2. Bitmap!Set(bits') = (touched \cup range) \cap D
    BY <1>4 DEF Bitmap!Set
  <2> QED BY <1>2, <2>1, <2>2, FunctionIsSeq
<1>6. count' = Cardinality(Bitmap!Set(bits'))
  <2> DEFINE A == Bitmap!Set(bits)
             B == (range \cap D) \ Bitmap!Set(bits)
  <2>1. IsFiniteSet(A)
    BY <1>2, SetIsFinite
  <2>2. IsFiniteSet(B)
    <3>1. IsFiniteSet(D) /\ B \in SUBSET D
      BY <1>2, FS_Interval
    <3> QED BY <3>1, FS_Subset
  <2>3. A \cap B = {} /\ A \cup B = Bitmap!Set(bits')
    BY <1>2, <1>5
  <2>4. count' = Cardinality(A) + Cardinality(B)
    BY <1>1, <1>2
  <2> HIDE DEF A, B
  <2>5. Cardinality(A \cup B) = Cardinality(A) + Cardinality(B) - Cardinality(A \cap B)
    BY <2>1, <2>2, FS_Union
  <2>6. Cardinality(A) \in Nat /\ Cardinality(B) \in Nat
    BY <2>1, <2>2, FS_CardinalityType
  <2>7. Cardinality(A \cap B) = 0
    <3>1. Cardinality({}) = 0
      BY FS_EmptySet
    <3> QED BY <2>3, <3>1, Zenon
  <2>8. Cardinality(A \cup B) = Cardinality(Bitmap!Set(bits'))
    BY <2>3, Zenon
  <2> QED BY <2>4, <2>5, <2>6, <2>7, <2>8
<1>7. TrackerShape'
  BY <1>1, <1>2, <1>3, <1>5, <1>6 DEF TrackerShape
<1>8. outside' => Len(bits') < total'
  <2>1. ASSUME range \ D # {} PROVE Len(bits) < total
    <3>1. PICK x \in range : x \notin D
      BY <2>1
    <3>2. x \in 1..total
      BY <1>3
    <3> QED BY <1>1, <1>2, <3>1, <3>2
  <2> QED BY <1>1, <1>2, <1>5, <2>1
<1>9. Len(bits') = total' => touched' = Bitmap!Set(bits')
  BY <1>1, <1>2, <1>3, <1>5
<1>10. Bitmap!MarksAreTold'
  BY <1>1, <1>6, <1>8, <1>9, BitmapCardinality DEF Bitmap!MarksAreTold
<1> QED BY <1>1, <1>7, <1>10 DEF BitmapInv

LEMMA QueryHolds ==
  ASSUME BitmapInv, Bitmap!GetChangedBlocks
  PROVE  BitmapInv'
<1>1. /\ keeper = "tracker" /\ TrackerShape /\ total \in Nat
      /\ outside' = (total > Len(bits))
      /\ shown' = <<UNION {s[1]..((s[1] - 1) + ((s[2] - s[1] + 1) % Wrap)) :
                            s \in Bitmap!Stretches(bits)}>>
      /\ UNCHANGED <<keeper, total, bits, count, runs, touched, origin>>
  BY DEF Bitmap!GetChangedBlocks, BitmapInv
<1>2. TrackerShape'
  BY <1>1 DEF TrackerShape
<1>3. ASSUME Len(bits) = total
      PROVE  /\ count = Cardinality(touched)
             /\ \/ shown'[1] = touched
                \/ \E i \in touched : i..(i + Wrap - 1) \subseteq touched
  <2>1. touched = Bitmap!Set(bits) /\ Bitmap!Set(bits) \subseteq 1..total
    BY <1>1, <1>3 DEF TrackerShape
  <2> QED BY <1>1, <2>1, StretchesTell DEF TrackerShape
<1>4. outside' => Len(bits) < total
  BY <1>1, LenProperties DEF TrackerShape
<1>5. Bitmap!MarksAreTold'
  BY <1>1, <1>3, <1>4, BitmapCardinality DEF Bitmap!MarksAreTold
<1> QED BY <1>1, <1>2, <1>5 DEF BitmapInv

LEMMA ResetHolds ==
  ASSUME BitmapInv, Bitmap!Reset
  PROVE  BitmapInv'
<1>1. /\ keeper = "tracker" /\ ~outside /\ TrackerShape /\ total \in Nat
      /\ bits' = [i \in DOMAIN bits |-> FALSE]
      /\ count' = 0 /\ touched' = {} /\ shown' = <<>>
      /\ UNCHANGED <<keeper, total, runs, origin, outside>>
  BY DEF Bitmap!Reset, BitmapInv
<1>2. DOMAIN bits = 1..Len(bits) /\ Len(bits) \in Nat /\ Len(bits) <= total
  BY <1>1, LenProperties DEF TrackerShape
<1>3. bits' = [i \in 1..Len(bits) |-> FALSE]
  BY <1>1, <1>2
<1>4. bits' \in Seq(BOOLEAN) /\ Len(bits') = Len(bits) /\ Bitmap!Set(bits') = {}
  BY <1>2, <1>3, CleanBits
<1>5. TrackerShape'
  BY <1>1, <1>2, <1>4, FS_EmptySet DEF TrackerShape
<1>6. Bitmap!MarksAreTold'
  BY <1>1, <1>5, FS_EmptySet, BitmapCardinality DEF Bitmap!MarksAreTold
<1> QED BY <1>1, <1>5, <1>6 DEF BitmapInv

LEMMA MakeHolds ==
  ASSUME BitmapInv, NEW t \in Totals, Bitmap!Make(t)
  PROVE  BitmapInv'
<1>1. /\ keeper = "tracker" /\ ~outside /\ t \in Nat
      /\ total' = t /\ bits' = [i \in 1..t |-> FALSE]
      /\ count' = 0 /\ touched' = {} /\ shown' = <<>>
      /\ UNCHANGED <<keeper, runs, origin, outside>>
  BY BitmapFacts DEF Bitmap!Make, Bitmap!Clean
<1>2. bits' \in Seq(BOOLEAN) /\ Len(bits') = t /\ Bitmap!Set(bits') = {}
  BY <1>1, CleanBits
<1>3. TrackerShape'
  <2>1. Cardinality({}) = 0 /\ t <= t
    BY <1>1, FS_EmptySet
  <2>2. count' = Cardinality(Bitmap!Set(bits')) /\ Bitmap!Set(bits') = touched' \cap (1..Len(bits'))
    BY <1>1, <1>2, <2>1
  <2> QED BY <1>1, <1>2, <2>1, <2>2 DEF TrackerShape
<1>4. Bitmap!MarksAreTold'
  BY <1>1, <1>3, FS_EmptySet, BitmapCardinality DEF Bitmap!MarksAreTold
<1> QED BY <1>1, <1>3, <1>4 DEF BitmapInv

LEMMA SaveHolds ==
  ASSUME BitmapInv, Bitmap!Save
  PROVE  BitmapInv'
<1>1. /\ keeper = "tracker" /\ ~outside /\ TrackerShape /\ total \in Nat
      /\ origin' = [i \in 1..total |-> i \in touched] /\ shown' = <<>>
      /\ UNCHANGED <<keeper, total, bits, count, touched, outside>>
  BY DEF Bitmap!Save, BitmapInv
<1>2. PICK n \in 0..Len(Bitmap!Compress(bits)) : runs' = SubSeq(Bitmap!Compress(bits), 1, n)
  BY DEF Bitmap!Save
<1>3. /\ bits \in Seq(BOOLEAN) /\ Len(bits) <= total /\ Len(bits) \in Nat
      /\ Bitmap!Set(bits) = touched \cap (1..Len(bits))
  BY <1>1, LenProperties DEF TrackerShape
<1>4. Bitmap!Compress(bits) \in Seq(RunsOf) /\ Bitmap!Decompress(Bitmap!Compress(bits)) = bits
  BY <1>3, CompressOpens
<1>5. runs' \in Seq(RunsOf) /\ Begins(Bitmap!Decompress(runs'), bits)
  BY <1>2, <1>4, DecompressPart
<1>6. /\ origin' \in Seq(BOOLEAN) /\ Bitmap!Set(origin') = touched \cap (1..total)
  BY <1>1, SetOfBits
<1>7. Bitmap!Set(Bitmap!Decompress(runs')) = Bitmap!Set(bits) \cap (1..Len(Bitmap!Decompress(runs')))
  BY <1>3, <1>5, DecompressType, SetOfBeginning
<1>8. Len(Bitmap!Decompress(runs')) <= Len(bits) /\ Len(Bitmap!Decompress(runs')) \in Nat
  BY <1>5, DecompressType, LenProperties DEF Begins
<1>9. Bitmap!Set(Bitmap!Decompress(runs')) = Bitmap!Set(origin') \cap (1..Len(Bitmap!Decompress(runs')))
  <2> DEFINE m == Len(Bitmap!Decompress(runs'))
  <2>1. 1..m \subseteq 1..Len(bits) /\ 1..m \subseteq 1..total
    BY <1>1, <1>3, <1>8
  <2> QED BY <1>3, <1>6, <1>7, <2>1
<1>10. TrackerShape'
  BY <1>1 DEF TrackerShape
<1>11. Bitmap!MarksAreTold'
  <2>1. Len(bits) = total => touched = Bitmap!Set(bits)
    BY <1>1 DEF TrackerShape
  <2> QED
    BY <1>1, <2>1, BitmapCardinality DEF Bitmap!MarksAreTold, TrackerShape
<1> QED BY <1>1, <1>5, <1>6, <1>9, <1>10, <1>11 DEF BitmapInv

LEMMA LoadHolds ==
  ASSUME BitmapInv, Bitmap!Load
  PROVE  BitmapInv'
<1> DEFINE all == Bitmap!Decompress(runs)
           n == IF Len(all) < total THEN Len(all) ELSE total
           loaded == SubSeq(all, 1, n)
<1>1. /\ keeper = "tracker" /\ ~outside /\ total \in Nat
      /\ bits' = loaded /\ count' = Cardinality(Bitmap!Set(loaded))
      /\ touched' = Bitmap!Set(origin) \cap (1..total) /\ shown' = <<>>
      /\ UNCHANGED <<keeper, total, runs, origin, outside>>
  BY BitmapCardinality DEF Bitmap!Load, BitmapInv
<1>2. /\ all \in Seq(BOOLEAN) /\ Len(all) \in Nat
      /\ Bitmap!Set(all) = Bitmap!Set(origin) \cap (1..Len(all))
  BY DecompressType, LenProperties DEF BitmapInv
<1> HIDE DEF all
<1>3. n \in Nat /\ n <= Len(all) /\ n <= total
  BY <1>1, <1>2
<1> HIDE DEF n
<1>4. /\ loaded \in Seq(BOOLEAN) /\ Len(loaded) = n
      /\ \A i \in 1..n : all[i] = loaded[i]
  <2>1. \A i \in 1..n : all[i] \in BOOLEAN
    BY <1>2, <1>3, ElementOfSeq
  <2>2. /\ SubSeq(all, 1, n) \in Seq(BOOLEAN)
        /\ Len(SubSeq(all, 1, n)) = IF 1 <= n THEN n - 1 + 1 ELSE 0
        /\ \A i \in 1..(n - 1 + 1) : SubSeq(all, 1, n)[i] = all[1 + i - 1]
    <3>1. n \in Int /\ 1 \in Int
      BY <1>3
    <3> QED BY <2>1, <3>1, SubSeqProperties
  <2> QED BY <1>3, <2>2
<1> HIDE DEF loaded
<1>5. Bitmap!Set(loaded) = Bitmap!Set(all) \cap (1..n)
  BY <1>2, <1>3, <1>4, SetOfBeginning DEF Begins
<1>6. Bitmap!Set(loaded) = touched' \cap (1..n)
  BY <1>1, <1>2, <1>3, <1>5
<1>7. TrackerShape'
  BY <1>1, <1>3, <1>4, <1>6 DEF TrackerShape
<1>8. Len(bits') = total' => touched' = Bitmap!Set(bits')
  BY <1>1, <1>3, <1>4, <1>6
<1>9. Bitmap!MarksAreTold'
  BY <1>1, <1>8, BitmapCardinality DEF Bitmap!MarksAreTold
<1> QED BY <1>1, <1>7, <1>9 DEF BitmapInv

LEMMA SaveBitmapHolds ==
  ASSUME BitmapInv, NEW bitmap \in Bitmap!Bitmaps, Bitmap!SaveBitmap(bitmap)
  PROVE  BitmapInv'
<1>1. bitmap \in Seq(BOOLEAN)
  <2>1. PICK t \in Totals : bitmap \in [1..t -> BOOLEAN]
    BY DEF Bitmap!Bitmaps
  <2> QED BY <2>1, BitmapFacts, FunctionIsSeq
<1>2. /\ keeper # "tracker" /\ shown' = <<>> /\ UNCHANGED <<keeper, total>>
      /\ \/ runs' = Bitmap!Compress(bitmap) /\ origin' = bitmap
         \/ UNCHANGED <<runs, origin>>
  BY DEF Bitmap!SaveBitmap
<1>3. /\ runs' \in Seq(RunsOf) /\ Bitmap!Decompress(runs') = origin'
      /\ origin' \in Seq(BOOLEAN)
  <2>1. CASE runs' = Bitmap!Compress(bitmap) /\ origin' = bitmap
    BY <1>1, <2>1, CompressOpens
  <2>2. CASE UNCHANGED <<runs, origin>>
    BY <1>2, <2>2 DEF BitmapInv
  <2> QED BY <1>2, <2>1, <2>2
<1>4. Bitmap!Set(origin') = Bitmap!Set(origin') \cap (1..Len(origin'))
  BY <1>3, SetIsFinite
<1> QED
  BY <1>2, <1>3, <1>4, BitmapCardinality DEF BitmapInv, Bitmap!MarksAreTold

LEMMA LoadBitmapHolds ==
  ASSUME BitmapInv, Bitmap!LoadBitmap
  PROVE  BitmapInv'
<1>1. /\ keeper # "tracker" /\ shown' = <<Bitmap!Loaded>> /\ Bitmap!Loaded' = Bitmap!Loaded
      /\ UNCHANGED <<keeper, total, runs, origin>>
  BY DEF Bitmap!LoadBitmap, Bitmap!Loaded
<1> QED BY <1>1, BitmapCardinality DEF BitmapInv, Bitmap!MarksAreTold

LEMMA BitmapStepHolds == BitmapInv /\ (Bitmap!Next \/ UNCHANGED bitmapVars) => BitmapInv'
<1> SUFFICES ASSUME BitmapInv, Bitmap!Next \/ UNCHANGED bitmapVars PROVE BitmapInv'
  OBVIOUS
<1>1. CASE UNCHANGED bitmapVars
  <2>1. Bitmap!Loaded' = Bitmap!Loaded
    BY <1>1 DEF bitmapVars, Bitmap!Loaded
  <2> QED
    BY <1>1, <2>1, BitmapCardinality DEF bitmapVars, BitmapInv, TrackerShape,
       Bitmap!MarksAreTold
<1>2. ASSUME NEW first \in 1..Bitmap!MaxTotal, NEW last \in 1..Bitmap!MaxTotal, Bitmap!MarkRange(first, last)
      PROVE  BitmapInv'
  <2>1. first \in Nat /\ last \in Nat /\ first >= 1
    BY BitmapFacts
  <2> QED BY <1>2, <2>1, MarkRangeHolds
<1>3. CASE Bitmap!GetChangedBlocks \/ Bitmap!Reset \/ Bitmap!Save \/ Bitmap!Load \/ Bitmap!LoadBitmap
           \/ \E t \in Totals : Bitmap!Make(t)
  BY <1>3, QueryHolds, ResetHolds, SaveHolds, LoadHolds, LoadBitmapHolds,
     MakeHolds
<1>4. CASE \E bitmap \in Bitmap!Bitmaps : Bitmap!SaveBitmap(bitmap)
  BY <1>4, SaveBitmapHolds
<1> QED BY <1>1, <1>2, <1>3, <1>4 DEF Bitmap!Next

(* What a table gives is what was saved, as far as it gives any.           *)
LEMMA SavedIsLoaded == BitmapInv => Bitmap!LoadedWasSaved
<1> SUFFICES ASSUME BitmapInv, keeper # "tracker"
             PROVE  Bitmap!LoadedWasSaved
  BY DEF Bitmap!LoadedWasSaved
<1>1. /\ shown # <<>> => shown[1] = Bitmap!Loaded
      /\ Bitmap!Decompress(runs) = origin /\ origin \in Seq(BOOLEAN)
  BY DEF BitmapInv
<1>2. \A i \in DOMAIN Bitmap!Loaded : Bitmap!Loaded[i] <=> i \in Bitmap!Set(origin)
  BY <1>1 DEF Bitmap!Loaded, Bitmap!Resized, Bitmap!Set
<1>3. keeper = "engine" => Bitmap!Loaded = origin
  BY <1>1 DEF Bitmap!Loaded
<1>4. Bitmap!Set(Bitmap!Loaded) \in SUBSET Bitmap!Set(origin)
  BY <1>2 DEF Bitmap!Set
<1>5. /\ Cardinality(Bitmap!Set(Bitmap!Loaded)) <= Cardinality(Bitmap!Set(origin))
      /\ Cardinality(Bitmap!Set(Bitmap!Loaded)) \in Nat /\ Cardinality(Bitmap!Set(origin)) \in Nat
  <2>1. IsFiniteSet(Bitmap!Set(origin))
    BY <1>1, SetIsFinite
  <2> QED BY <1>4, <2>1, FS_Subset, FS_CardinalityType
<1>6. ASSUME NEW blocks \in Totals \cup {0}, NEW tenths \in 0..10,
             Bitmap!ShouldDoFull(blocks, tenths), origin # <<>>, blocks # 0
      PROVE  10 * Cardinality(Bitmap!Set(origin)) > tenths * blocks
  <2>1. blocks \in Nat /\ tenths \in Nat
    BY BitmapFacts
  <2>2. tenths * blocks \in Nat
    BY <2>1
  <2>3. 10 * Cardinality(Bitmap!Set(Bitmap!Loaded)) > tenths * blocks
    BY <1>6, BitmapCardinality DEF Bitmap!ShouldDoFull
  <2> HIDE DEF Bitmap!Loaded
  <2> DEFINE least == tenths * blocks
  <2>4. least \in Nat /\ 10 * Cardinality(Bitmap!Set(Bitmap!Loaded)) > least
    BY <2>2, <2>3
  <2> HIDE DEF least
  <2>5. 10 * Cardinality(Bitmap!Set(origin)) > least
    BY <1>5, <2>4
  <2> QED BY <2>5 DEF least
<1>7. shown # <<>> =>
        /\ keeper = "engine" => shown[1] = origin
        /\ \A i \in DOMAIN shown[1] : shown[1][i] <=> i \in Bitmap!Set(origin)
  BY <1>1, <1>2, <1>3
<1>8. \A blocks \in Totals \cup {0}, tenths \in 0..10 :
        Bitmap!ShouldDoFull(blocks, tenths) =>
          \/ origin = <<>> \/ blocks = 0
          \/ 10 * Cardinality(Bitmap!Set(origin)) > tenths * blocks
  BY <1>6
<1> QED BY <1>7, <1>8, BitmapCardinality DEF Bitmap!LoadedWasSaved

-----------------------------------------------------------------------------
(* What ChainManager and BitmapManager answer holds of the tables they     *)
(* answer from, however many backups there are, in whatever order they are *)
(* recorded while a chain is followed, and for bitmaps and runs of every   *)
(* length.                                                                 *)
THEOREM AnswersHoldHolds == Spec => []AnswersHold
<1>1. Init => ChainInv /\ BitmapInv
  BY ChainInitHolds, BitmapInitHolds DEF Init
<1>2. ChainInv /\ BitmapInv /\ [Next]_vars => ChainInv' /\ BitmapInv'
  BY ChainMoves, ChainStepHolds, BitmapMoves, BitmapStepHolds
<1>3. ChainInv /\ BitmapInv => AnswersHold
  BY SavedIsLoaded DEF ChainInv, AnswersHold
<1> QED BY <1>1, <1>2, <1>3, PTL DEF Spec

-----------------------------------------------------------------------------
(* The extents of a repository.                                            *)

LEMMA ScaleMoves == [Next]_vars => Scale!Next \/ UNCHANGED scaleVars
BY DEF Next, OthersKeep, vars, scaleVars, CoreMain, CoreHeartbeat, CoreMonitor,
       CoreConnect, CoreSpeak, CoreSignal, AgentStep, ChainStep, BufferStep,
       DedupStep, VmStep, ChangedStep, EngineStep, ScaleStep,
       VerificationStep, ScannerStep, OracleStep, BitmapStep, RestoreStep

LEMMA ScaleCardinality == \A S : Scale!Cardinality(S) = Cardinality(S)
BY DEF Scale!Cardinality, Cardinality

ExtentRecs == [id : ExtentIds, total : Int, used : Int,
               status : {"ONLINE", "away"}, fast : BOOLEAN]

(* f adds up the capacities of s.                                          *)
Sums(f, s, n) ==
  /\ f \in [0..n -> Int] /\ f[0] = 0
  /\ \A i \in 1..n : f[i] = f[i - 1] + s[i].total

LEMMA SumsExist ==
  ASSUME NEW s \in Seq(ExtentRecs)
  PROVE  \E f : Sums(f, s, Len(s))
<1> DEFINE L == Len(s)
           step == [p \in (1..L) \X Int |-> p[2] + s[p[1]].total]
<1>1. L \in Nat /\ 0 \in Int
  BY LenProperties
<1>2. ASSUME NEW n \in 1..L, NEW x \in Int
      PROVE  step[<<n, x>>] \in Int /\ step[<<n, x>>] = x + s[n].total
  <2>1. s[n] \in ExtentRecs
    BY ElementOfSeq
  <2>2. s[n].total \in Int
    BY <2>1 DEF ExtentRecs
  <2> QED BY <2>2
<1> HIDE DEF step
<1>3. PICK f \in [0..L -> Int] : Follows(f, 0, step, L)
  BY <1>1, <1>2, RecursionExists
<1>4. ASSUME NEW n \in 1..L PROVE f[n] = f[n - 1] + s[n].total
  <2>1. n - 1 \in 0..L
    BY <1>1
  <2> QED BY <1>2, <1>3, <2>1 DEF Follows
<1> QED BY <1>3, <1>4 DEF Sums, Follows

LEMMA TotalSums ==
  ASSUME NEW s \in Seq(ExtentRecs), NEW f, Sums(f, s, Len(s))
  PROVE  Scale!TotalOf(s) = f[Len(s)] /\ Scale!TotalOf(s) \in Int
<1> DEFINE F(h) == h = [n \in 0..Len(s) |->
                          IF n = 0 THEN 0 ELSE h[n - 1] + s[n].total]
           of == CHOOSE h : F(h)
<1>1. Len(s) \in Nat
  BY LenProperties
<1>2. F(f)
  <2>1. \A n \in 0..Len(s) : f[n] = IF n = 0 THEN 0 ELSE f[n - 1] + s[n].total
    BY DEF Sums
  <2> QED BY <2>1 DEF Sums
<1>3. F(of)
  BY <1>2
<1>4. Scale!TotalOf(s) = of[Len(s)]
  BY DEF Scale!TotalOf
<1> HIDE DEF of
<1> DEFINE P == {n \in Nat : n <= Len(s) => of[n] = f[n]}
<1>5. 0 \in P
  BY <1>1, <1>3 DEF Sums
<1>6. ASSUME NEW n \in Nat, n \in P PROVE n + 1 \in P
  <2> SUFFICES ASSUME n + 1 <= Len(s) PROVE of[n + 1] = f[n + 1]
    OBVIOUS
  <2>1. n + 1 \in 1..Len(s) /\ (n + 1) - 1 = n /\ of[n] = f[n] /\ n + 1 # 0
        /\ n + 1 \in 0..Len(s)
    BY <1>1, <1>6
  <2>2. of[n + 1] = of[n] + s[n + 1].total
    BY <1>3, <2>1
  <2> QED BY <2>1, <2>2 DEF Sums
<1> HIDE DEF P
<1>7. Nat \subseteq P
  BY <1>5, <1>6, SetInduction
<1>8. f[Len(s)] \in Int
  BY <1>1 DEF Sums
<1> QED BY <1>1, <1>4, <1>7, <1>8 DEF P

LEMMA TotalType ==
  ASSUME NEW s \in Seq(ExtentRecs)
  PROVE  Scale!TotalOf(s) \in Int
BY SumsExist, TotalSums

LEMMA TotalOfNone == Scale!TotalOf(<<>>) = 0
<1> DEFINE f == [n \in {0} |-> 0]
<1>1. <<>> \in Seq(ExtentRecs) /\ Len(<<>>) = 0
  BY EmptySeq
<1>2. f \in [0..0 -> Int] /\ f[0] = 0
  <2>1. 0..0 = {0}
    OBVIOUS
  <2> QED BY <2>1
<1> HIDE DEF f
<1>3. Sums(f, <<>>, Len(<<>>))
  BY <1>1, <1>2 DEF Sums
<1>4. Scale!TotalOf(<<>>) = f[Len(<<>>)]
  BY <1>1, <1>3, TotalSums
<1> QED BY <1>1, <1>2, <1>4

(* The total of as many extents of the same capacities, of one more, and   *)
(* of one less.                                                            *)
LEMMA TotalSame ==
  ASSUME NEW s \in Seq(ExtentRecs), NEW u \in Seq(ExtentRecs), Len(u) = Len(s),
         \A i \in 1..Len(s) : u[i].total = s[i].total
  PROVE  Scale!TotalOf(u) = Scale!TotalOf(s)
<1>1. PICK f : Sums(f, s, Len(s))
  BY SumsExist
<1>2. Sums(f, u, Len(u))
  BY <1>1 DEF Sums
<1> QED BY <1>1, <1>2, TotalSums

LEMMA TotalAppend ==
  ASSUME NEW s \in Seq(ExtentRecs), NEW x \in ExtentRecs
  PROVE  Scale!TotalOf(Append(s, x)) = Scale!TotalOf(s) + x.total
<1> DEFINE u == Append(s, x)
<1>1. /\ u \in Seq(ExtentRecs) /\ Len(u) = Len(s) + 1 /\ Len(s) \in Nat
      /\ \A i \in 1..Len(s) : u[i] = s[i]
      /\ u[Len(s) + 1] = x
  BY AppendProperties, LenProperties
<1> HIDE DEF u
<1>2. PICK f : Sums(f, u, Len(u))
  BY <1>1, SumsExist
<1> DEFINE g == [i \in 0..Len(s) |-> f[i]]
<1>3. Sums(g, s, Len(s))
  <2>1. g \in [0..Len(s) -> Int] /\ g[0] = 0
    BY <1>1, <1>2 DEF Sums
  <2>2. ASSUME NEW i \in 1..Len(s) PROVE g[i] = g[i - 1] + s[i].total
    <3>1. i \in 1..Len(u) /\ i - 1 \in 0..Len(s) /\ i \in 0..Len(s) /\ u[i] = s[i]
      BY <1>1
    <3> QED BY <1>2, <3>1 DEF Sums
  <2> HIDE DEF g
  <2> QED BY <2>1, <2>2 DEF Sums
<1>4. Scale!TotalOf(u) = f[Len(u)] /\ Scale!TotalOf(s) = g[Len(s)]
  BY <1>1, <1>2, <1>3, TotalSums
<1>5. f[Len(u)] = f[Len(s)] + x.total /\ g[Len(s)] = f[Len(s)]
  <2>1. Len(u) \in 1..Len(u) /\ Len(u) - 1 = Len(s) /\ Len(s) \in 0..Len(s)
    BY <1>1
  <2> QED BY <1>1, <1>2, <2>1 DEF Sums
<1> QED BY <1>4, <1>5 DEF u

LEMMA RemoveAtIs ==
  ASSUME NEW S, NEW s \in Seq(S), NEW i \in 1..Len(s)
  PROVE  /\ Scale!RemoveAt(s, i) \in Seq(S) /\ Len(Scale!RemoveAt(s, i)) = Len(s) - 1
         /\ \A k \in 1..(Len(s) - 1) :
              Scale!RemoveAt(s, i)[k] = IF k < i THEN s[k] ELSE s[k + 1]
<1> DEFINE a == SubSeq(s, 1, i - 1)
           b == SubSeq(s, i + 1, Len(s))
           u == a \o b
<1>1. Len(s) \in Nat /\ \A k \in 1..Len(s) : s[k] \in S
  BY LenProperties, ElementOfSeq
<1>2. /\ a \in Seq(S) /\ Len(a) = i - 1
      /\ \A k \in 1..(i - 1) : a[k] = s[k]
  <2>1. 1 \in Int /\ i - 1 \in Int /\ \A k \in 1..(i - 1) : s[k] \in S
    BY <1>1
  <2>2. /\ a \in Seq(S) /\ Len(a) = IF 1 <= i - 1 THEN (i - 1) - 1 + 1 ELSE 0
        /\ \A k \in 1..((i - 1) - 1 + 1) : a[k] = s[1 + k - 1]
    BY <2>1, SubSeqProperties
  <2> HIDE DEF a
  <2> QED BY <1>1, <2>2
<1>3. /\ b \in Seq(S) /\ Len(b) = Len(s) - i
      /\ \A k \in 1..(Len(s) - i) : b[k] = s[i + k]
  <2>1. i + 1 \in Int /\ Len(s) \in Int /\ \A k \in (i + 1)..Len(s) : s[k] \in S
    BY <1>1
  <2>2. /\ b \in Seq(S)
        /\ Len(b) = IF i + 1 <= Len(s) THEN Len(s) - (i + 1) + 1 ELSE 0
        /\ \A k \in 1..(Len(s) - (i + 1) + 1) : b[k] = s[(i + 1) + k - 1]
    BY <2>1, SubSeqProperties
  <2> HIDE DEF b
  <2>3. Len(b) = Len(s) - i
    BY <1>1, <2>2
  <2>4. ASSUME NEW k \in 1..(Len(s) - i) PROVE b[k] = s[i + k]
    <3>1. k \in 1..(Len(s) - (i + 1) + 1) /\ (i + 1) + k - 1 = i + k
      BY <1>1
    <3> QED BY <2>2, <3>1
  <2> QED BY <2>2, <2>3, <2>4
<1> HIDE DEF a, b
<1>4. /\ u \in Seq(S) /\ Len(u) = Len(s) - 1
      /\ \A k \in 1..(Len(s) - 1) : u[k] = IF k < i THEN a[k] ELSE b[k - (i - 1)]
  <2>1. Len(a) + Len(b) = Len(s) - 1
    BY <1>1, <1>2, <1>3
  <2>2. /\ u \in Seq(S) /\ Len(u) = Len(a) + Len(b)
        /\ \A k \in 1..(Len(a) + Len(b)) :
             u[k] = IF k <= Len(a) THEN a[k] ELSE b[k - Len(a)]
    BY <1>2, <1>3, ConcatProperties
  <2> HIDE DEF u
  <2> QED BY <1>1, <1>2, <2>1, <2>2
<1> HIDE DEF u
<1>5. ASSUME NEW k \in 1..(Len(s) - 1)
      PROVE  u[k] = IF k < i THEN s[k] ELSE s[k + 1]
  <2>1. CASE k < i
    <3>1. k \in 1..(i - 1)
      BY <1>1, <2>1
    <3> QED BY <1>2, <1>4, <2>1, <3>1
  <2>2. CASE ~ (k < i)
    <3>1. k - (i - 1) \in 1..(Len(s) - i) /\ i + (k - (i - 1)) = k + 1
      BY <1>1, <2>2
    <3> QED BY <1>3, <1>4, <2>2, <3>1
  <2> QED BY <2>1, <2>2
<1> QED BY <1>4, <1>5 DEF Scale!RemoveAt, u, a, b

LEMMA TotalRemove ==
  ASSUME NEW s \in Seq(ExtentRecs), NEW i \in 1..Len(s)
  PROVE  Scale!TotalOf(Scale!RemoveAt(s, i)) = Scale!TotalOf(s) - s[i].total
<1> DEFINE u == Scale!RemoveAt(s, i)
           t == s[i].total
<1>1. /\ u \in Seq(ExtentRecs) /\ Len(u) = Len(s) - 1
      /\ \A k \in 1..(Len(s) - 1) : u[k] = IF k < i THEN s[k] ELSE s[k + 1]
  BY RemoveAtIs
<1>2. Len(s) \in Nat /\ t \in Int
  <2>1. s[i] \in ExtentRecs
    BY ElementOfSeq
  <2> QED BY <2>1, LenProperties DEF ExtentRecs
<1>3. PICK f : Sums(f, s, Len(s))
  BY SumsExist
<1> HIDE DEF u, t
<1> DEFINE g == [k \in 0..(Len(s) - 1) |-> IF k < i THEN f[k] ELSE f[k + 1] - t]
<1>4. g \in [0..(Len(s) - 1) -> Int] /\ g[0] = 0
  BY <1>2, <1>3 DEF Sums
<1>5. f[i] = f[i - 1] + t
  BY <1>3 DEF Sums, t
<1>6. ASSUME NEW k \in 1..(Len(s) - 1) PROVE g[k] = g[k - 1] + u[k].total
  <2>0. k - 1 \in 0..(Len(s) - 1) /\ k \in 0..(Len(s) - 1) /\ k + 1 \in 1..Len(s)
        /\ k \in 1..Len(s)
    BY <1>2
  <2>1. /\ f[k] = f[k - 1] + s[k].total /\ f[k + 1] = f[k] + s[k + 1].total
        /\ f[k - 1] \in Int /\ f[k] \in Int /\ f[k + 1] \in Int
        /\ s[k].total \in Int /\ s[k + 1].total \in Int
    <3>1. (k + 1) - 1 = k /\ k - 1 \in 0..Len(s) /\ k + 1 \in 0..Len(s)
      BY <2>0
    <3>2. s[k] \in ExtentRecs /\ s[k + 1] \in ExtentRecs
      BY <2>0, ElementOfSeq
    <3>3. s[k].total \in Int /\ s[k + 1].total \in Int
      BY <3>2 DEF ExtentRecs
    <3>4. k \in 0..Len(s)
      BY <1>2, <2>0
    <3>5. f[k - 1] \in Int /\ f[k] \in Int /\ f[k + 1] \in Int
      BY <1>3, <3>1, <3>4 DEF Sums
    <3>6. f[k] = f[k - 1] + s[k].total
      BY <1>3, <2>0 DEF Sums
    <3>7. f[k + 1] = f[(k + 1) - 1] + s[k + 1].total
      BY <1>3, <2>0 DEF Sums
    <3> QED BY <3>1, <3>3, <3>5, <3>6, <3>7
  <2>2. CASE k < i
    <3>1. k - 1 < i
      BY <2>2
    <3>2. g[k] = f[k] /\ g[k - 1] = f[k - 1] /\ u[k] = s[k]
      BY <1>1, <2>0, <2>2, <3>1
    <3> HIDE DEF g
    <3> QED BY <2>1, <3>2
  <2>3. CASE k = i
    <3>1. ~ (k < i) /\ k - 1 < i
      BY <2>3
    <3>2. g[k] = f[k + 1] - t /\ g[k - 1] = f[k - 1] /\ u[k] = s[k + 1]
      BY <1>1, <2>0, <3>1
    <3>3. f[k] = f[k - 1] + t
      BY <1>5, <2>3
    <3>4. u[k].total = s[k + 1].total
      BY <3>2
    <3> HIDE DEF g
    <3>5. g[k] = ((f[k - 1] + t) + s[k + 1].total) - t
      BY <2>1, <3>2, <3>3
    <3>6. ((f[k - 1] + t) + s[k + 1].total) - t = f[k - 1] + s[k + 1].total
      <4>1. t \in Int
        BY <1>2
      <4>2. f[k - 1] \in Int
        BY <2>1
      <4>3. s[k + 1].total \in Int
        BY <2>1
      <4> QED BY <4>1, <4>2, <4>3
    <3>7. g[k] = g[k - 1] + s[k + 1].total
      BY <3>2, <3>5, <3>6
    <3> QED BY <3>4, <3>7
  <2>4. CASE k > i
    <3>1. (k - 1) + 1 = k /\ ~ (k < i) /\ ~ (k - 1 < i)
      BY <2>4
    <3>2. g[k] = f[k + 1] - t /\ g[k - 1] = f[k] - t /\ u[k] = s[k + 1]
      BY <1>1, <2>0, <3>1
    <3>3. u[k].total = s[k + 1].total
      BY <3>2
    <3> HIDE DEF g
    <3>4. g[k] = (f[k] + s[k + 1].total) - t
      BY <2>1, <3>2
    <3>5. (f[k] + s[k + 1].total) - t = (f[k] - t) + s[k + 1].total
      <4>1. t \in Int
        BY <1>2
      <4>2. f[k] \in Int
        BY <2>1
      <4>3. s[k + 1].total \in Int
        BY <2>1
      <4> QED BY <4>1, <4>2, <4>3
    <3>6. g[k] = g[k - 1] + s[k + 1].total
      BY <3>2, <3>4, <3>5
    <3> QED BY <3>3, <3>6
  <2> QED BY <2>2, <2>3, <2>4
<1>7. g[Len(s) - 1] = f[Len(s)] - t
  <2>1. Len(s) - 1 \in 0..(Len(s) - 1) /\ (Len(s) - 1) + 1 = Len(s)
    BY <1>2
  <2>2. CASE i = Len(s)
    <3>1. g[Len(s) - 1] = f[i - 1] /\ f[i - 1] \in Int
      BY <1>2, <1>3, <2>1, <2>2 DEF Sums
    <3> QED BY <1>2, <1>5, <2>2, <3>1
  <2>3. CASE i # Len(s)
    <3>1. ~ (Len(s) - 1 < i)
      BY <1>2, <2>3
    <3> QED BY <2>1, <3>1
  <2> QED BY <2>2, <2>3
<1> HIDE DEF g
<1>8. Sums(g, u, Len(u))
  BY <1>1, <1>4, <1>6 DEF Sums
<1>9. Scale!TotalOf(u) = g[Len(u)] /\ Scale!TotalOf(s) = f[Len(s)]
  BY <1>1, <1>3, <1>8, TotalSums
<1> QED BY <1>1, <1>7, <1>9 DEF u, t

-----------------------------------------------------------------------------
(* Turns: the place of i among the members of S, and who has had a turn    *)
(* more when the next is at p of n, after k of this round.                 *)

Rank(S, i) == Cardinality({k \in S : k < i})
Ahead(r, p, k, n) == (p - k <= r /\ r < p) \/ r >= p - k + n

LEMMA RankAdds ==
  ASSUME NEW S, S \in SUBSET Nat, IsFiniteSet(S), NEW i \in S
  PROVE  /\ Rank(S, i) \in Nat
         /\ IsFiniteSet({k \in S : k < i} \cup {i})
         /\ Cardinality({k \in S : k < i} \cup {i}) = Rank(S, i) + 1
<1> DEFINE B == {k \in S : k < i}
<1>1. IsFiniteSet(B) /\ i \notin B
  <2>1. B \in SUBSET S /\ i \notin B
    OBVIOUS
  <2> QED BY <2>1, FS_Subset
<1> HIDE DEF B
<1>2. /\ IsFiniteSet(B \cup {i}) /\ Cardinality(B \cup {i}) = Cardinality(B) + 1
      /\ Cardinality(B) \in Nat
  BY <1>1, FS_AddElement, FS_CardinalityType
<1> QED BY <1>2 DEF Rank, B

LEMMA RankBelow ==
  ASSUME NEW S, S \in SUBSET Nat, IsFiniteSet(S), NEW i \in S
  PROVE  Rank(S, i) \in 0..(Cardinality(S) - 1) /\ Cardinality(S) \in Nat \ {0}
<1> DEFINE B == {k \in S : k < i} \cup {i}
<1>1. B \in SUBSET S
  OBVIOUS
<1>2. Cardinality(B) = Rank(S, i) + 1 /\ Rank(S, i) \in Nat
  BY RankAdds
<1> HIDE DEF B
<1>3. Cardinality(B) <= Cardinality(S) /\ Cardinality(S) \in Nat
  BY <1>1, FS_Subset, FS_CardinalityType
<1> QED BY <1>2, <1>3

LEMMA RankIsOne ==
  ASSUME NEW S, S \in SUBSET Nat, IsFiniteSet(S), NEW i \in S, NEW j \in S,
         Rank(S, i) = Rank(S, j)
  PROVE  i = j
<1>1. ASSUME NEW a \in S, NEW b \in S, a < b PROVE Rank(S, a) < Rank(S, b)
  <2> DEFINE A == {k \in S : k < a} \cup {a}
             B == {k \in S : k < b}
  <2>1. A \in SUBSET B /\ B \in SUBSET S
    <3>1. a \in Nat /\ b \in Nat
      OBVIOUS
    <3>2. ASSUME NEW k \in S, k < a \/ k = a PROVE k < b
      <4>1. k \in Nat
        OBVIOUS
      <4> QED BY <1>1, <3>1, <3>2, <4>1
    <3> QED BY <3>2
  <2>2. Cardinality(A) = Rank(S, a) + 1 /\ Rank(S, a) \in Nat
    BY RankAdds
  <2> HIDE DEF A, B
  <2>3. Cardinality(A) <= Cardinality(B) /\ Cardinality(B) \in Nat
    BY <2>1, FS_Subset, FS_CardinalityType
  <2>4. Rank(S, b) = Cardinality(B)
    BY DEF Rank, B
  <2> QED BY <2>2, <2>3, <2>4
<1>2. Rank(S, i) \in Int /\ Rank(S, j) \in Int /\ i \in Nat /\ j \in Nat
  <2>1. Rank(S, i) \in Nat /\ Rank(S, j) \in Nat
    BY RankAdds
  <2> QED BY <2>1
<1>3. ~ (i < j)
  BY <1>1, <1>2
<1>4. ~ (j < i)
  BY <1>1, <1>2
<1> QED BY <1>2, <1>3, <1>4

LEMMA RankIsTaken ==
  ASSUME NEW S, S \in SUBSET Nat, IsFiniteSet(S), NEW n \in Nat, n < Cardinality(S)
  PROVE  \E i \in S : Rank(S, i) = n
<1> DEFINE P == {r \in Nat : r < Cardinality(S) => \E i \in S : Rank(S, i) = r}
<1>0. Cardinality(S) \in Nat
  BY FS_CardinalityType
<1>1. 0 \in P
  <2> SUFFICES ASSUME 0 < Cardinality(S) PROVE \E i \in S : Rank(S, i) = 0
    BY DEF P
  <2>1. S # {}
    BY <1>0, FS_EmptySet
  <2>2. PICK i \in S : \A k \in S : i <= k
    BY <2>1, LeastMember
  <2>3. {k \in S : k < i} = {}
    <3>1. ASSUME NEW k \in S, k < i PROVE FALSE
      <4>1. k \in Nat /\ i \in Nat /\ i <= k
        BY <2>2
      <4> QED BY <3>1, <4>1
    <3> QED BY <3>1
  <2> QED BY <2>3, FS_EmptySet DEF Rank
<1>2. ASSUME NEW r \in Nat, r \in P PROVE r + 1 \in P
  <2> SUFFICES ASSUME r + 1 < Cardinality(S) PROVE \E i \in S : Rank(S, i) = r + 1
    BY DEF P
  <2>1. PICK i \in S : Rank(S, i) = r
    BY <1>0, <1>2
  <2> DEFINE B == {k \in S : k < i} \cup {i}
             R == S \ B
  <2>2. Cardinality(B) = r + 1
    BY <2>1, RankAdds
  <2>3. R # {} /\ R \in SUBSET Nat
    <3>1. ASSUME R = {} PROVE FALSE
      <4>1. B = S
        BY <3>1
      <4> HIDE DEF B
      <4> QED BY <1>0, <2>2, <4>1
    <3> QED BY <3>1
  <2>4. PICK j \in R : \A k \in R : j <= k
    BY <2>3, LeastMember
  <2>5. {k \in S : k < j} = B
    <3>1. i \in Nat /\ j \in Nat /\ j \in S /\ i < j /\ \A k \in S : k \in Nat
      <4>1. j \in S /\ i \in Nat /\ j \in Nat /\ j # i /\ ~ (j < i)
        BY <2>4
      <4> QED BY <4>1
    <3>2. ASSUME NEW k \in S, k < j PROVE k \in B
      <4>1. k \in Nat /\ ~ (j <= k)
        BY <3>1, <3>2
      <4>2. k \notin R
        BY <2>4, <4>1
      <4> QED BY <4>2
    <3>3. ASSUME NEW k \in B PROVE k \in S /\ k < j
      BY <3>1
    <3> HIDE DEF B
    <3> QED BY <3>2, <3>3
  <2> QED BY <2>2, <2>4, <2>5 DEF Rank
<1> HIDE DEF P
<1>3. Nat \subseteq P
  BY <1>1, <1>2, SetInduction
<1> QED BY <1>3 DEF P

(* The counter goes round.                                                 *)
LEMMA Multiples ==
  ASSUME NEW n \in Nat \ {0}, NEW d \in Int, 0 - n < n * d, n * d < n
  PROVE  d = 0
<1>1. CASE d >= 1
  <2>1. n * d = n + n * (d - 1) /\ n * (d - 1) >= 0
    BY <1>1
  <2> QED BY <2>1
<1>2. CASE d <= 0 - 1
  <2>1. n * d = (0 - n) - n * (0 - d - 1) /\ n * (0 - d - 1) >= 0
    BY <1>2
  <2> QED BY <2>1
<1> QED BY <1>1, <1>2

LEMMA Division ==
  ASSUME NEW c \in Nat, NEW n \in Nat \ {0}
  PROVE  /\ c % n \in 0..(n - 1) /\ c \div n \in Int
         /\ c = n * (c \div n) + (c % n)
<1>1. c % n \in 0..(n - 1)
  OBVIOUS
<1>2. c \div n \in Int
  OBVIOUS
<1>3. c = n * (c \div n) + (c % n)
  OBVIOUS
<1> QED BY <1>1, <1>2, <1>3

LEMMA DivisionIsOne ==
  ASSUME NEW n \in Nat \ {0}, NEW q \in Int, NEW r \in 0..(n - 1),
         NEW p \in Int, NEW s \in 0..(n - 1), n * q + r = n * p + s
  PROVE  r = s
<1>1. n * (q - p) = s - r
  BY SMT
<1>2. q - p = 0
  BY <1>1, Multiples
<1> QED BY <1>2

(* Cutting on the way changes nothing.                                     *)
LEMMA CutOfCut ==
  ASSUME NEW n \in Nat \ {0}, NEW a \in Int, NEW b \in Int
  PROVE  ((a % n) + b) % n = (a + b) % n
<1>1. PICK r \in 0..(n - 1) : r = a % n
  OBVIOUS
<1>2. PICK q \in Int : q = a \div n
  OBVIOUS
<1>3. PICK s \in 0..(n - 1) : s = (r + b) % n
  OBVIOUS
<1>4. PICK p \in Int : p = (r + b) \div n
  OBVIOUS
<1>5. PICK t \in 0..(n - 1) : t = (a + b) % n
  OBVIOUS
<1>6. PICK m \in Int : m = (a + b) \div n
  OBVIOUS
<1>7. a = n * q + r
  BY <1>1, <1>2
<1>8. r + b = n * p + s
  BY <1>3, <1>4
<1>9. a + b = n * m + t
  BY <1>5, <1>6
<1>10. n * (q + p) + s = n * m + t
  <2>1. n * (q + p) = n * q + n * p
    OBVIOUS
  <2>2. PICK x \in Int : x = n * q
    OBVIOUS
  <2>3. PICK y \in Int : y = n * p
    OBVIOUS
  <2>4. PICK z \in Int : z = n * m
    OBVIOUS
  <2>5. a = x + r /\ r + b = y + s /\ a + b = z + t /\ n * (q + p) = x + y
    BY <1>7, <1>8, <1>9, <2>1, <2>2, <2>3, <2>4
  <2>6. x + y + s = z + t
    BY <2>5
  <2> QED BY <2>4, <2>5, <2>6
<1>11. q + p \in Int
  OBVIOUS
<1>12. s = t
  BY <1>10, <1>11, DivisionIsOne
<1> QED BY <1>1, <1>3, <1>5, <1>12

LEMMA NextTurn ==
  ASSUME NEW c \in Nat, NEW n \in Nat \ {0}
  PROVE  (c + 1) % n = IF (c % n) + 1 = n THEN 0 ELSE (c % n) + 1
<1>1. /\ c % n \in 0..(n - 1) /\ c \div n \in Int /\ c = n * (c \div n) + (c % n)
  BY Division
<1>2. /\ (c + 1) % n \in 0..(n - 1) /\ (c + 1) \div n \in Int
      /\ c + 1 = n * ((c + 1) \div n) + ((c + 1) % n)
  BY Division
<1>3. PICK q \in Int : q = c \div n
  BY <1>1
<1>4. PICK r \in 0..(n - 1) : r = c % n
  BY <1>1
<1>5. PICK p \in Int : p = (c + 1) \div n
  BY <1>2
<1>6. PICK s \in 0..(n - 1) : s = (c + 1) % n
  BY <1>2
<1>7. c = n * q + r /\ c + 1 = n * p + s
  BY <1>1, <1>2, <1>3, <1>4, <1>5, <1>6
<1>8. CASE r + 1 = n
  <2>1. n * (q + 1) + 0 = n * p + s
    BY <1>7, <1>8
  <2>2. 0 = s
    BY <2>1, DivisionIsOne
  <2> QED BY <1>4, <1>6, <1>8, <2>2
<1>9. CASE r + 1 # n
  <2>1. n * q + (r + 1) = n * p + s /\ r + 1 \in 0..(n - 1)
    BY <1>7, <1>9
  <2>2. r + 1 = s
    BY <2>1, DivisionIsOne
  <2> QED BY <1>4, <1>6, <1>9, <2>2
<1> QED BY <1>8, <1>9

On(xs) == {i \in DOMAIN xs : xs[i].status = "ONLINE"}
TurnsIn(s, xs, i) == {t \in DOMAIN s : s[t] = xs[i].id}
Single(xs) == \A i, j \in DOMAIN xs : xs[i].id = xs[j].id => i = j

(* Each of those online had m turns, and one more if it is ahead.          *)
Spread(xs, s, c) ==
  Single(xs) /\ On(xs) # {} =>
    \E m \in Nat, k \in 0..(Cardinality(On(xs)) - 1) : \A i \in On(xs) :
      Cardinality(TurnsIn(s, xs, i)) =
        m + IF Ahead(Rank(On(xs), i), c % Cardinality(On(xs)), k,
                     Cardinality(On(xs)))
            THEN 1 ELSE 0

LEMMA OnIsFinite ==
  ASSUME NEW xs \in Seq(ExtentRecs)
  PROVE  On(xs) \in SUBSET Nat /\ IsFiniteSet(On(xs)) /\ On(xs) \in SUBSET DOMAIN xs
<1>1. DOMAIN xs = 1..Len(xs) /\ Len(xs) \in Nat
  BY LenProperties
<1>2. IsFiniteSet(1..Len(xs))
  BY <1>1, FS_Interval
<1>3. On(xs) \in SUBSET (1..Len(xs))
  BY <1>1 DEF On
<1> QED BY <1>1, <1>2, <1>3, FS_Subset

LEMMA CountOn ==
  ASSUME NEW xs \in Seq(ExtentRecs), On(xs) # {}
  PROVE  /\ Cardinality(On(xs)) \in Nat \ {0}
         /\ \A i \in On(xs) : Rank(On(xs), i) \in 0..(Cardinality(On(xs)) - 1)
BY OnIsFinite, RankBelow

LEMMA NoTurnsSpread ==
  ASSUME NEW xs \in Seq(ExtentRecs), NEW c \in Nat
  PROVE  Spread(xs, <<>>, c)
<1> DEFINE n == Cardinality(On(xs))
<1> SUFFICES ASSUME On(xs) # {}
             PROVE  \E m \in Nat, k \in 0..(n - 1) : \A i \in On(xs) :
                      Cardinality(TurnsIn(<<>>, xs, i)) =
                        m + IF Ahead(Rank(On(xs), i), c % n, k, n) THEN 1 ELSE 0
  BY DEF Spread
<1>1. n \in Nat \ {0} /\ \A i \in On(xs) : Rank(On(xs), i) \in 0..(n - 1)
  BY CountOn
<1> HIDE DEF n
<1>2. c % n \in 0..(n - 1)
  BY <1>1, Division
<1>3. ASSUME NEW i \in On(xs)
      PROVE  /\ Cardinality(TurnsIn(<<>>, xs, i)) = 0
             /\ ~ Ahead(Rank(On(xs), i), c % n, 0, n)
  <2>1. TurnsIn(<<>>, xs, i) = {}
    BY DEF TurnsIn
  <2>2. Cardinality(TurnsIn(<<>>, xs, i)) = 0
    BY <2>1, FS_EmptySet
  <2>3. ASSUME NEW r \in 0..(n - 1), NEW p \in 0..(n - 1)
        PROVE  ~ Ahead(r, p, 0, n)
    BY <1>1 DEF Ahead
  <2> QED BY <1>1, <1>2, <2>2, <2>3
<1>4. \A i \in On(xs) :
        Cardinality(TurnsIn(<<>>, xs, i)) =
          0 + IF Ahead(Rank(On(xs), i), c % n, 0, n) THEN 1 ELSE 0
  BY <1>3
<1>5. 0 \in Nat /\ 0 \in 0..(n - 1)
  BY <1>1
<1> QED BY <1>4, <1>5

(* What the turn of rank p changes for the one of rank r.                  *)
LEMMA AheadMoves ==
  ASSUME NEW n \in Nat \ {0}, NEW p \in 0..(n - 1), NEW k \in 0..(n - 1),
         NEW r \in 0..(n - 1), NEW q \in 0..(n - 1),
         q = IF p + 1 = n THEN 0 ELSE p + 1
  PROVE  /\ ~ Ahead(p, p, k, n)
         /\ k + 1 < n => (Ahead(r, q, k + 1, n) <=> Ahead(r, p, k, n) \/ r = p)
         /\ k + 1 = n => /\ ~ Ahead(r, q, 0, n)
                         /\ r # p => Ahead(r, p, k, n)
BY DEF Ahead

LEMMA TurnAdds ==
  ASSUME NEW xs \in Seq(ExtentRecs), NEW s \in Seq(ExtentIds), NEW i \in On(xs),
         NEW j \in On(xs), Single(xs)
  PROVE  /\ Cardinality(TurnsIn(s, xs, j)) \in Nat
         /\ Cardinality(TurnsIn(Append(s, xs[i].id), xs, j)) =
              Cardinality(TurnsIn(s, xs, j)) + IF j = i THEN 1 ELSE 0
<1> DEFINE id == xs[i].id
           u == Append(s, id)
           T == TurnsIn(s, xs, j)
<1>1. i \in DOMAIN xs /\ j \in DOMAIN xs /\ (xs[j].id = id <=> j = i)
  BY DEF On, Single
<1>2. id \in ExtentIds
  <2>1. xs[i] \in ExtentRecs
    BY <1>1, ElementOfSeq, LenProperties
  <2> QED BY <2>1 DEF ExtentRecs
<1> HIDE DEF id
<1>3. /\ Len(s) \in Nat /\ DOMAIN s = 1..Len(s) /\ Len(s) + 1 \notin DOMAIN s
      /\ DOMAIN u = (DOMAIN s) \cup {Len(s) + 1}
      /\ \A t \in DOMAIN s : u[t] = s[t]
      /\ u[Len(s) + 1] = id
  <2>1. Len(s) \in Nat /\ DOMAIN s = 1..Len(s)
    BY LenProperties
  <2>2. /\ u \in Seq(ExtentIds) /\ Len(u) = Len(s) + 1
        /\ \A t \in 1..Len(s) : u[t] = s[t]
        /\ u[Len(s) + 1] = id
    BY <1>2, AppendProperties
  <2> HIDE DEF u
  <2>3. DOMAIN u = 1..(Len(s) + 1)
    BY <2>2, LenProperties
  <2>4. 1..(Len(s) + 1) = (1..Len(s)) \cup {Len(s) + 1} /\ Len(s) + 1 \notin 1..Len(s)
    BY <2>1
  <2> QED BY <2>1, <2>2, <2>3, <2>4
<1> HIDE DEF u
<1>4. IsFiniteSet(T) /\ Cardinality(T) \in Nat /\ Len(s) + 1 \notin T
  <2>1. T \in SUBSET (1..Len(s)) /\ Len(s) + 1 \notin T
    BY <1>3 DEF TurnsIn
  <2>2. IsFiniteSet(1..Len(s))
    BY <1>3, FS_Interval
  <2> QED BY <2>1, <2>2, FS_Subset, FS_CardinalityType
<1>5. CASE j = i
  <2>1. TurnsIn(u, xs, j) = T \cup {Len(s) + 1}
    BY <1>1, <1>3, <1>5 DEF TurnsIn
  <2>2. Cardinality(T \cup {Len(s) + 1}) = Cardinality(T) + 1
    BY <1>4, FS_AddElement
  <2>3. Cardinality(TurnsIn(u, xs, j)) = Cardinality(T) + 1
    BY <2>1, <2>2, Zenon
  <2> QED BY <1>4, <1>5, <2>3 DEF u, id
<1>6. CASE j # i
  <2>1. TurnsIn(u, xs, j) = T
    BY <1>1, <1>3, <1>6 DEF TurnsIn
  <2>2. Cardinality(TurnsIn(u, xs, j)) = Cardinality(T)
    BY <2>1, Zenon
  <2> QED BY <1>4, <1>6, <2>2 DEF u, id
<1> QED BY <1>5, <1>6

LEMMA TurnSpreads ==
  ASSUME NEW xs \in Seq(ExtentRecs), NEW s \in Seq(ExtentIds), NEW c \in Nat,
         NEW i \in On(xs), Rank(On(xs), i) = c % Cardinality(On(xs)),
         Spread(xs, s, c)
  PROVE  Spread(xs, Append(s, xs[i].id), c + 1)
<1> DEFINE n == Cardinality(On(xs))
           R(j) == Rank(On(xs), j)
           C(j) == Cardinality(TurnsIn(s, xs, j))
           D(j) == Cardinality(TurnsIn(Append(s, xs[i].id), xs, j))
<1> SUFFICES ASSUME Single(xs)
             PROVE  \E m \in Nat, k \in 0..(n - 1) : \A j \in On(xs) :
                      D(j) = m + IF Ahead(R(j), (c + 1) % n, k, n) THEN 1 ELSE 0
  BY DEF Spread
<1>1. n \in Nat \ {0} /\ \A j \in On(xs) : R(j) \in 0..(n - 1)
  BY CountOn
<1>2. \A j \in On(xs) : R(j) = R(i) <=> j = i
  BY OnIsFinite, RankIsOne
<1>3. PICK m \in Nat, k \in 0..(n - 1) : \A j \in On(xs) :
        C(j) = m + IF Ahead(R(j), c % n, k, n) THEN 1 ELSE 0
  BY DEF Spread
<1>4. \A j \in On(xs) : C(j) \in Nat /\ D(j) = C(j) + IF j = i THEN 1 ELSE 0
  BY TurnAdds
<1>5. R(i) = c % n
  OBVIOUS
<1> HIDE DEF n, R, C, D
<1>6. PICK p \in 0..(n - 1) : p = c % n
  BY <1>1, Division
<1>7. PICK q \in 0..(n - 1) : q = (c + 1) % n
  <2>1. c + 1 \in Nat
    OBVIOUS
  <2> QED BY <1>1, <2>1, Division
<1>8. q = IF p + 1 = n THEN 0 ELSE p + 1
  BY <1>1, <1>6, <1>7, NextTurn
<1>9. CASE k + 1 < n
  <2>1. ASSUME NEW j \in On(xs)
        PROVE  D(j) = m + IF Ahead(R(j), q, k + 1, n) THEN 1 ELSE 0
    <3>1. PICK r \in 0..(n - 1) : r = R(j)
      BY <1>1
    <3>2. /\ ~ Ahead(p, p, k, n)
          /\ Ahead(r, q, k + 1, n) <=> Ahead(r, p, k, n) \/ r = p
      BY <1>1, <1>8, <1>9, AheadMoves
    <3>3. r = p <=> j = i
      BY <1>2, <1>5, <1>6, <3>1
    <3>4. C(j) = m + IF Ahead(r, p, k, n) THEN 1 ELSE 0
      BY <1>3, <1>6, <3>1
    <3>5. D(j) = C(j) + IF j = i THEN 1 ELSE 0
      BY <1>4
    <3>6. CASE j = i
      <4>1. ~ Ahead(r, p, k, n) /\ Ahead(r, q, k + 1, n)
        BY <3>2, <3>3, <3>6
      <4> QED BY <3>1, <3>4, <3>5, <3>6, <4>1
    <3>7. CASE j # i
      <4>1. Ahead(r, p, k, n) <=> Ahead(r, q, k + 1, n)
        BY <3>2, <3>3, <3>7
      <4>2. CASE Ahead(r, p, k, n)
        BY <3>1, <3>4, <3>5, <3>7, <4>1, <4>2
      <4>3. CASE ~ Ahead(r, p, k, n)
        BY <3>1, <3>4, <3>5, <3>7, <4>1, <4>3
      <4> QED BY <4>2, <4>3
    <3> QED BY <3>6, <3>7
  <2>2. k + 1 \in 0..(n - 1)
    BY <1>1, <1>9
  <2> QED BY <1>7, <2>1, <2>2
<1>10. CASE k + 1 = n
  <2>1. ASSUME NEW j \in On(xs)
        PROVE  D(j) = (m + 1) + IF Ahead(R(j), q, 0, n) THEN 1 ELSE 0
    <3>1. PICK r \in 0..(n - 1) : r = R(j)
      BY <1>1
    <3>2. /\ ~ Ahead(p, p, k, n) /\ ~ Ahead(r, q, 0, n)
          /\ r # p => Ahead(r, p, k, n)
      <4>1. ~ Ahead(p, p, k, n)
        BY <1>1, <1>8, AheadMoves
      <4>2. k + 1 = n => ~ Ahead(r, q, 0, n)
        BY <1>1, <1>8, AheadMoves
      <4>3. k + 1 = n => (r # p => Ahead(r, p, k, n))
        BY <1>1, <1>8, AheadMoves
      <4> QED BY <1>10, <4>1, <4>2, <4>3
    <3>3. r = p <=> j = i
      BY <1>2, <1>5, <1>6, <3>1
    <3>4. C(j) = m + IF Ahead(r, p, k, n) THEN 1 ELSE 0
      BY <1>3, <1>6, <3>1
    <3>5. D(j) = C(j) + IF j = i THEN 1 ELSE 0
      BY <1>4
    <3>6. CASE j = i
      <4>1. ~ Ahead(r, p, k, n)
        BY <3>2, <3>3, <3>6
      <4> QED BY <3>1, <3>2, <3>4, <3>5, <3>6, <4>1
    <3>7. CASE j # i
      <4>1. Ahead(r, p, k, n)
        BY <3>2, <3>3, <3>7
      <4> QED BY <3>1, <3>2, <3>4, <3>5, <3>7, <4>1
    <3> QED BY <3>6, <3>7
  <2>2. 0 \in 0..(n - 1) /\ m + 1 \in Nat
    BY <1>1
  <2> QED BY <1>7, <2>1, <2>2
<1>11. k + 1 < n \/ k + 1 = n
  BY <1>1
<1> QED BY <1>9, <1>10, <1>11

LEMMA SpreadIsEven ==
  ASSUME NEW xs, NEW s, NEW c, Spread(xs, s, c), Single(xs),
         NEW i \in On(xs), NEW j \in On(xs)
  PROVE  Cardinality(TurnsIn(s, xs, i)) - Cardinality(TurnsIn(s, xs, j)) <= 1
<1> DEFINE A(m, k, h) == m + IF Ahead(Rank(On(xs), h), c % Cardinality(On(xs)), k,
                                      Cardinality(On(xs))) THEN 1 ELSE 0
<1>1. ASSUME NEW m \in Nat, NEW k, NEW h PROVE A(m, k, h) \in {m, m + 1}
  OBVIOUS
<1>2. PICK m \in Nat, k \in 0..(Cardinality(On(xs)) - 1) : \A h \in On(xs) :
        Cardinality(TurnsIn(s, xs, h)) = A(m, k, h)
  BY DEF Spread
<1> HIDE DEF A
<1>3. /\ Cardinality(TurnsIn(s, xs, i)) \in {m, m + 1}
      /\ Cardinality(TurnsIn(s, xs, j)) \in {m, m + 1}
  BY <1>1, <1>2
<1> QED BY <1>3

-----------------------------------------------------------------------------
(* The repository.                                                         *)

Placing ==
  written # Scale!NoWrite =>
    \/ written.extent \in written.online
    \/ /\ written.extent = Scale!Nowhere
       /\ \/ Scale!Online = {}
          \/ repo.policy = "CAPACITY_TIER" /\ Scale!Roomiest = {}

Repos == [policy : Scale!Policies \cup {"none"}, extents : Seq(ExtentRecs),
          capacity : Int]

ScaleInv ==
  /\ repo \in Repos
  /\ counter \in Nat /\ turns \in Seq(ExtentIds) /\ declared \in Int
  /\ repo.capacity = Scale!Cut(declared + Scale!TotalOf(repo.extents))
  /\ Placing
  /\ Spread(repo.extents, turns, counter)

LEMMA CutType == \A n \in Int : Scale!Cut(n) \in Int
BY ScaleAssumption DEF Scale!Cut

LEMMA CutSmall == Scale!Cut(0) = 0 /\ \A c \in Scale!Capacities : Scale!Cut(c) = c
<1>1. \A c \in {0, 2} : c \in Nat /\ c < Width /\ Width \in Nat
  BY ScaleAssumption
<1>2. \A c \in {0, 2} : c % Width = c
  BY <1>1, ModSmall
<1> QED BY <1>2 DEF Scale!Cut, Scale!Capacities

(* What is added to, or taken from, a size that was cut.                   *)
LEMMA CutAdds ==
  ASSUME NEW a \in Int, NEW b \in Int
  PROVE  /\ Scale!Cut(Scale!Cut(a) + b) = Scale!Cut(a + b)
         /\ Scale!Cut(Scale!Cut(a) - b) = Scale!Cut(a - b)
<1>1. Width \in Nat \ {0}
  BY ScaleAssumption
<1>2. ((a % Width) + b) % Width = (a + b) % Width
  BY <1>1, CutOfCut
<1>3. PICK c \in Int : c = 0 - b
  OBVIOUS
<1>4. ((a % Width) + c) % Width = (a + c) % Width
  BY <1>1, CutOfCut
<1>5. PICK r \in Int : r = a % Width
  BY <1>1
<1>6. r + c = r - b /\ a + c = a - b
  BY <1>3
<1> QED BY <1>2, <1>4, <1>5, <1>6 DEF Scale!Cut

LEMMA RepoFields ==
  ASSUME repo \in Repos
  PROVE  /\ repo.extents \in Seq(ExtentRecs) /\ repo.capacity \in Int
         /\ repo.policy \in Scale!Policies \cup {"none"}
         /\ Scale!Placed = 1..Len(repo.extents) /\ Len(repo.extents) \in Nat
         /\ Scale!Online = On(repo.extents) /\ Scale!Online \in SUBSET Scale!Placed
         /\ \A i \in Scale!Placed : repo.extents[i] \in ExtentRecs
<1>1. /\ repo.extents \in Seq(ExtentRecs) /\ repo.capacity \in Int
      /\ repo.policy \in Scale!Policies \cup {"none"}
  BY DEF Repos
<1>2. Scale!Placed = 1..Len(repo.extents) /\ Len(repo.extents) \in Nat
  BY <1>1, LenProperties DEF Scale!Placed
<1>3. Scale!Online = On(repo.extents) /\ Scale!Online \in SUBSET Scale!Placed
  BY DEF Scale!Online, On, Scale!Placed
<1>4. \A i \in Scale!Placed : repo.extents[i] \in ExtentRecs
  BY <1>1, <1>2, ElementOfSeq
<1> QED BY <1>1, <1>2, <1>3, <1>4

LEMMA ScaleShows == ScaleInv => Scale!WritesArePlaced
<1> SUFFICES ASSUME ScaleInv PROVE Scale!WritesArePlaced
  OBVIOUS
<1>1. /\ Placing
      /\ repo.capacity = Scale!Cut(declared + Scale!TotalOf(repo.extents))
      /\ Spread(repo.extents, turns, counter) /\ Scale!Online = On(repo.extents)
  BY RepoFields DEF ScaleInv
<1>2. ASSUME Scale!Distinct, NEW i \in Scale!Online, NEW j \in Scale!Online
      PROVE  Cardinality(Scale!TurnsOf(i)) - Cardinality(Scale!TurnsOf(j)) <= 1
  <2>1. Single(repo.extents)
    BY <1>2 DEF Scale!Distinct, Single, Scale!Placed
  <2>2. /\ Scale!TurnsOf(i) = TurnsIn(turns, repo.extents, i)
        /\ Scale!TurnsOf(j) = TurnsIn(turns, repo.extents, j)
    BY DEF Scale!TurnsOf, TurnsIn
  <2>3. i \in On(repo.extents) /\ j \in On(repo.extents)
    BY <1>1
  <2>4. Cardinality(TurnsIn(turns, repo.extents, i))
          - Cardinality(TurnsIn(turns, repo.extents, j)) <= 1
    BY <1>1, <2>1, <2>3, SpreadIsEven
  <2> QED BY <2>2, <2>4, Zenon
<1> QED
  BY <1>1, <1>2, ScaleCardinality, Zenon DEF Scale!WritesArePlaced, Placing

LEMMA ScaleStarts == Scale!Init => ScaleInv
<1> SUFFICES ASSUME Scale!Init PROVE ScaleInv
  OBVIOUS
<1>1. <<>> \in Seq(ExtentRecs) /\ <<>> \in Seq(ExtentIds) /\ Len(<<>>) = 0
  BY EmptySeq
<1>2. Scale!TotalOf(<<>>) = 0
  BY TotalOfNone
<1>3. repo = Scale!NoRepo /\ repo.extents = <<>> /\ repo.capacity = 0 /\ repo \in Repos
  BY <1>1 DEF Scale!Init, Scale!NoRepo, Repos
<1>4. Spread(repo.extents, turns, counter)
  BY <1>1, <1>3, NoTurnsSpread DEF Scale!Init
<1>5. repo.capacity = Scale!Cut(declared + Scale!TotalOf(repo.extents))
  BY <1>2, <1>3, CutSmall DEF Scale!Init
<1> QED BY <1>1, <1>3, <1>4, <1>5 DEF Scale!Init, ScaleInv, Placing

(* When the extents or their use change.                                   *)
LEMMA ForgetHolds ==
  ASSUME ScaleInv, Scale!Forget, UNCHANGED counter, repo' \in Repos, declared' \in Int,
         repo'.capacity = Scale!Cut(declared' + Scale!TotalOf(repo'.extents))
  PROVE  ScaleInv'
<1>1. turns' = <<>> /\ written' = Scale!NoWrite /\ counter' = counter /\ counter' \in Nat
  BY DEF Scale!Forget, ScaleInv
<1>2. repo'.extents \in Seq(ExtentRecs) /\ <<>> \in Seq(ExtentIds)
  BY EmptySeq DEF Repos
<1>3. Spread(repo'.extents, turns', counter')
  BY <1>1, <1>2, NoTurnsSpread
<1>4. Placing'
  BY <1>1 DEF Placing, Scale!NoWrite
<1> QED BY <1>1, <1>2, <1>3, <1>4 DEF ScaleInv, Scale!Cut

LEMMA FirstIsOne ==
  ASSUME NEW places, places \in SUBSET Nat, places # {}
  PROVE  Scale!First(places) \in places
BY LeastMember DEF Scale!First

LEMMA ExtentsAreRecs == Scale!Extents \in SUBSET ExtentRecs
<1>1. ASSUME NEW id \in ExtentIds, NEW used \in {1, 2, 3}
      PROVE  Scale!Extent(id, used) \in ExtentRecs
  <2>1. (used = 2) \in BOOLEAN /\ used \in Int
    OBVIOUS
  <2> QED BY <2>1 DEF Scale!Extent, ExtentRecs
<1> QED BY <1>1 DEF Scale!Extents

LEMMA CreateRepoHolds ==
  ASSUME ScaleInv, NEW policy \in Scale!Policies,
         NEW extents \in Scale!Declared,
         NEW capacity \in Scale!Capacities,
         Scale!CreateRepo(policy, extents, capacity)
  PROVE  ScaleInv'
<1>1. extents \in Seq(ExtentRecs)
  <2>1. CASE extents = <<>>
    BY <2>1, EmptySeq
  <2>2. CASE extents # <<>>
    <3>1. PICK id \in ExtentIds : extents = <<Scale!Extent(id, 1)>>
      BY <2>2 DEF Scale!Declared
    <3>2. Scale!Extent(id, 1) \in Scale!Extents
      BY DEF Scale!Extents
    <3>3. PICK x \in ExtentRecs : x = Scale!Extent(id, 1)
      BY <3>2, ExtentsAreRecs
    <3> QED BY <3>1, <3>3
  <2> QED BY <2>1, <2>2
<1>2. Scale!TotalOf(extents) \in Int
  BY <1>1, TotalType
<1>3. /\ repo' = [policy |-> policy, extents |-> extents, capacity |-> capacity]
      /\ declared' = capacity - Scale!TotalOf(extents) /\ Scale!Forget
      /\ UNCHANGED counter /\ capacity \in Int
  BY DEF Scale!CreateRepo, Scale!Capacities
<1>4. repo' \in Repos /\ repo'.extents = extents /\ repo'.capacity = capacity
  BY <1>1, <1>3 DEF Repos
<1>5. declared' \in Int
  BY <1>2, <1>3
<1>6. declared' + Scale!TotalOf(extents) = capacity
  BY <1>2, <1>3
<1>7. repo'.capacity = Scale!Cut(declared' + Scale!TotalOf(repo'.extents))
  BY <1>4, <1>6, CutSmall
<1> QED BY <1>3, <1>4, <1>5, <1>7, ForgetHolds

LEMMA DeleteRepoHolds ==
  ASSUME ScaleInv, Scale!DeleteRepo
  PROVE  ScaleInv'
<1>1. <<>> \in Seq(ExtentRecs) /\ Len(<<>>) = 0
  BY EmptySeq
<1>2. Scale!TotalOf(<<>>) = 0
  BY TotalOfNone
<1>3. repo' = Scale!NoRepo /\ declared' = 0 /\ Scale!Forget /\ UNCHANGED counter
  BY DEF Scale!DeleteRepo
<1>4. repo' \in Repos /\ repo'.extents = <<>> /\ repo'.capacity = 0
  BY <1>1, <1>3 DEF Repos, Scale!NoRepo
<1>5. repo'.capacity = Scale!Cut(declared' + Scale!TotalOf(repo'.extents))
  BY <1>2, <1>3, <1>4, CutSmall
<1> QED BY <1>3, <1>4, <1>5, ForgetHolds

LEMMA UpdateRepoHolds ==
  ASSUME ScaleInv, NEW policy \in Scale!Policies, Scale!UpdateRepo(policy)
  PROVE  ScaleInv'
<1>1. /\ repo' = [repo EXCEPT !.policy = policy] /\ repo \in Repos
      /\ Scale!Forget /\ UNCHANGED <<counter, declared>> /\ declared \in Int
      /\ repo.capacity = Scale!Cut(declared + Scale!TotalOf(repo.extents))
  BY DEF Scale!UpdateRepo, ScaleInv
<1>2. repo' \in Repos /\ repo'.extents = repo.extents /\ repo'.capacity = repo.capacity
  BY <1>1 DEF Repos
<1> QED BY <1>1, <1>2, ForgetHolds

LEMMA AddExtentHolds ==
  ASSUME ScaleInv, NEW x \in Scale!Extents, Scale!AddExtent(x)
  PROVE  ScaleInv'
<1>1. /\ repo' = [repo EXCEPT !.extents = Append(@, x), !.capacity = Scale!Cut(@ + x.total)]
      /\ repo \in Repos /\ Scale!Forget /\ UNCHANGED <<counter, declared>>
      /\ declared \in Int
      /\ repo.capacity = Scale!Cut(declared + Scale!TotalOf(repo.extents))
  BY DEF Scale!AddExtent, ScaleInv
<1>2. repo.extents \in Seq(ExtentRecs) /\ repo.capacity \in Int /\ x \in ExtentRecs
  BY <1>1, RepoFields, ExtentsAreRecs
<1>3. x.total \in Int /\ Scale!TotalOf(repo.extents) \in Int
  BY <1>2, TotalType DEF ExtentRecs
<1>4. Append(repo.extents, x) \in Seq(ExtentRecs)
  BY <1>2, AppendProperties
<1>5. /\ repo'.extents = Append(repo.extents, x)
      /\ repo'.capacity = Scale!Cut(repo.capacity + x.total)
      /\ repo' \in Repos
  <2>1. /\ Scale!Cut(repo.capacity + x.total) \in Int
        /\ repo.policy \in Scale!Policies \cup {"none"}
    BY <1>1, <1>2, <1>3, RepoFields, CutType
  <2>2. repo' = [policy |-> repo.policy, extents |-> Append(repo.extents, x),
                 capacity |-> Scale!Cut(repo.capacity + x.total)]
    BY <1>1 DEF Repos
  <2> QED BY <1>4, <2>1, <2>2 DEF Repos
<1>6. Scale!TotalOf(repo'.extents) = Scale!TotalOf(repo.extents) + x.total
  BY <1>2, <1>5, TotalAppend
<1>7. PICK sum \in Int : sum = declared + Scale!TotalOf(repo.extents)
  BY <1>1, <1>3
<1>8. Scale!Cut(Scale!Cut(sum) + x.total) = Scale!Cut(sum + x.total)
  BY <1>3, <1>7, CutAdds
<1>9. declared' + Scale!TotalOf(repo'.extents) = sum + x.total
  BY <1>1, <1>3, <1>6, <1>7
<1>10. repo'.capacity = Scale!Cut(declared' + Scale!TotalOf(repo'.extents))
  BY <1>1, <1>5, <1>7, <1>8, <1>9
<1> QED BY <1>1, <1>5, <1>10, ForgetHolds

LEMMA FirstOfIsPlaced ==
  ASSUME repo \in Repos, NEW id \in Scale!IdsOf(Scale!Placed)
  PROVE  Scale!FirstOf(id) \in 1..Len(repo.extents)
<1> DEFINE places == {i \in Scale!Placed : repo.extents[i].id = id}
<1>1. places # {} /\ places \in SUBSET (1..Len(repo.extents))
  BY RepoFields DEF Scale!IdsOf
<1>2. places \in SUBSET Nat
  BY <1>1
<1> HIDE DEF places
<1>3. Scale!First(places) \in places
  BY <1>1, <1>2, FirstIsOne
<1> QED BY <1>1, <1>3 DEF Scale!FirstOf, places

LEMMA RemoveExtentHolds ==
  ASSUME ScaleInv, NEW id \in ExtentIds, Scale!RemoveExtent(id)
  PROVE  ScaleInv'
<1>1. /\ id \in Scale!IdsOf(Scale!Placed) /\ repo \in Repos /\ Scale!Forget
      /\ UNCHANGED <<counter, declared>>
      /\ declared \in Int
      /\ repo.capacity = Scale!Cut(declared + Scale!TotalOf(repo.extents))
  BY DEF Scale!RemoveExtent, ScaleInv
<1>2. PICK i \in 1..Len(repo.extents) : i = Scale!FirstOf(id)
  BY <1>1, FirstOfIsPlaced
<1>3. repo' = [repo EXCEPT !.extents = Scale!RemoveAt(repo.extents, i),
                           !.capacity = Scale!Cut(repo.capacity
                                                  - repo.extents[i].total)]
  BY <1>2 DEF Scale!RemoveExtent, Scale!CapacityWithout
<1>4. /\ repo.extents \in Seq(ExtentRecs) /\ repo.capacity \in Int
      /\ repo.extents[i] \in ExtentRecs
  BY <1>1, RepoFields
<1>5. repo.extents[i].total \in Int /\ Scale!TotalOf(repo.extents) \in Int
  BY <1>4, TotalType DEF ExtentRecs
<1>6. Scale!RemoveAt(repo.extents, i) \in Seq(ExtentRecs)
  BY <1>4, RemoveAtIs
<1>7. /\ repo'.extents = Scale!RemoveAt(repo.extents, i)
      /\ repo'.capacity = Scale!Cut(repo.capacity - repo.extents[i].total)
      /\ repo' \in Repos
  <2>1. /\ Scale!Cut(repo.capacity - repo.extents[i].total) \in Int
        /\ repo.policy \in Scale!Policies \cup {"none"}
    <3>1. repo.capacity - repo.extents[i].total \in Int
      BY <1>4, <1>5
    <3> QED BY <1>1, <3>1, RepoFields, CutType, Zenon
  <2>2. repo' = [policy |-> repo.policy, extents |-> Scale!RemoveAt(repo.extents, i),
                 capacity |-> Scale!Cut(repo.capacity - repo.extents[i].total)]
    BY <1>1, <1>3 DEF Repos
  <2> QED BY <1>6, <2>1, <2>2 DEF Repos
<1>8. Scale!TotalOf(repo'.extents) = Scale!TotalOf(repo.extents) - repo.extents[i].total
  BY <1>4, <1>7, TotalRemove
<1>9. PICK sum \in Int : sum = declared + Scale!TotalOf(repo.extents)
  BY <1>1, <1>5
<1>10. PICK gone \in Int : gone = repo.extents[i].total
  BY <1>5
<1>11. Scale!Cut(Scale!Cut(sum) - gone) = Scale!Cut(sum - gone)
  BY CutAdds
<1>12. declared' + Scale!TotalOf(repo'.extents) = sum - gone
  BY <1>1, <1>5, <1>8, <1>9, <1>10
<1>13. repo'.capacity = Scale!Cut(declared' + Scale!TotalOf(repo'.extents))
  BY <1>1, <1>7, <1>9, <1>10, <1>11, <1>12
<1> QED BY <1>1, <1>7, <1>13, ForgetHolds

LEMMA SetStatusHolds ==
  ASSUME ScaleInv, NEW id \in ExtentIds, NEW to \in {"ONLINE", "away"},
         Scale!SetStatus(id, to)
  PROVE  ScaleInv'
<1>1. /\ id \in Scale!IdsOf(Scale!Placed) /\ repo \in Repos /\ Scale!Forget
      /\ UNCHANGED <<counter, declared>>
      /\ declared \in Int
      /\ repo.capacity = Scale!Cut(declared + Scale!TotalOf(repo.extents))
  BY DEF Scale!SetStatus, ScaleInv
<1>2. PICK i \in 1..Len(repo.extents) : i = Scale!FirstOf(id)
  BY <1>1, FirstOfIsPlaced
<1> DEFINE xs == repo.extents
           us == [xs EXCEPT ![i].status = to]
<1>3. repo' = [repo EXCEPT !.extents = us]
  BY <1>2 DEF Scale!SetStatus
<1>4. xs \in Seq(ExtentRecs) /\ \A k \in 1..Len(xs) : xs[k] \in ExtentRecs
  BY <1>1, RepoFields
<1>5. /\ us \in Seq(ExtentRecs) /\ Len(us) = Len(xs)
      /\ \A k \in 1..Len(xs) : us[k].total = xs[k].total
  <2>1. xs \in [1..Len(xs) -> ExtentRecs] /\ Len(xs) \in Nat
    BY <1>4, SeqIsFunction
  <2> HIDE DEF xs
  <2>2. [xs[i] EXCEPT !.status = to] \in ExtentRecs
    BY <1>4, <1>2 DEF ExtentRecs, xs
  <2>3. us \in [1..Len(xs) -> ExtentRecs]
    BY <2>1, <2>2
  <2>4. \A k \in 1..Len(xs) : us[k].total = xs[k].total
    BY <1>4, <2>1 DEF ExtentRecs
  <2> HIDE DEF us
  <2> QED BY <2>1, <2>3, <2>4, FunctionIsSeq
<1> HIDE DEF us
<1>6. Scale!TotalOf(us) = Scale!TotalOf(xs)
  BY <1>4, <1>5, TotalSame
<1>7. repo'.extents = us /\ repo'.capacity = repo.capacity /\ repo' \in Repos
  BY <1>1, <1>3, <1>5 DEF Repos
<1>8. repo'.capacity = Scale!Cut(declared' + Scale!TotalOf(repo'.extents))
  BY <1>1, <1>6, <1>7
<1> QED BY <1>1, <1>7, <1>8, ForgetHolds

(* Writes.                                                                 *)
LEMMA PlaceHolds ==
  ASSUME ScaleInv, UNCHANGED <<repo, declared>>, NEW i \in Scale!Online,
         Scale!Place(repo.extents[i].id), counter' \in Nat, turns' \in Seq(ExtentIds),
         Spread(repo.extents, turns', counter')
  PROVE  ScaleInv'
<1>1. written'.extent \in written'.online
  BY DEF Scale!Place, Scale!IdsOf
<1>2. Placing'
  BY <1>1 DEF Placing
<1> QED BY <1>2 DEF ScaleInv

LEMMA PlaceNowhereHolds ==
  ASSUME ScaleInv, UNCHANGED <<repo, counter, declared, turns>>, Scale!Place(Scale!Nowhere),
         Scale!Online = {} \/ (repo.policy = "CAPACITY_TIER" /\ Scale!Roomiest = {})
  PROVE  ScaleInv'
<1>1. written'.extent = Scale!Nowhere
  BY DEF Scale!Place
<1>2. Scale!Online' = Scale!Online /\ Scale!Roomiest' = Scale!Roomiest
  BY DEF Scale!Online, Scale!Placed, Scale!Roomiest, Scale!Room
<1>3. Placing'
  BY <1>1, <1>2 DEF Placing
<1> QED BY <1>3 DEF ScaleInv

LEMMA WriteInTurnHolds ==
  ASSUME ScaleInv, Scale!WriteInTurn
  PROVE  ScaleInv'
<1>1. Scale!RoundRobin /\ UNCHANGED <<repo, declared>>
  BY DEF Scale!WriteInTurn
<1>2. CASE Scale!Online = {}
  <2>1. Scale!Place(Scale!Nowhere) /\ UNCHANGED <<counter, turns>>
    BY <1>1, <1>2 DEF Scale!RoundRobin
  <2> QED BY <1>1, <1>2, <2>1, PlaceNowhereHolds
<1>3. CASE Scale!Online # {}
  <2> DEFINE xs == repo.extents
  <2>1. /\ xs \in Seq(ExtentRecs) /\ Scale!Online = On(xs) /\ counter \in Nat
        /\ turns \in Seq(ExtentIds) /\ Spread(xs, turns, counter)
        /\ \A i \in Scale!Online : xs[i] \in ExtentRecs
    BY RepoFields DEF ScaleInv
  <2>2. /\ Cardinality(Scale!Online) \in Nat \ {0} /\ Scale!Online \in SUBSET Nat
        /\ IsFiniteSet(Scale!Online)
    BY <1>3, <2>1, CountOn, OnIsFinite
  <2>3. counter % Cardinality(Scale!Online) \in Nat
        /\ counter % Cardinality(Scale!Online) < Cardinality(Scale!Online)
    <3>1. ASSUME NEW c \in Nat, NEW n \in Nat \ {0} PROVE c % n \in Nat /\ c % n < n
      BY Division
    <3> QED BY <2>1, <2>2, <3>1
  <2>4. \E i \in Scale!Online : Rank(Scale!Online, i) = counter % Cardinality(Scale!Online)
    BY <2>2, <2>3, RankIsTaken
  <2>5. PICK i \in Scale!Online :
          i = Scale!InTurn /\ Rank(Scale!Online, i) = counter % Cardinality(Scale!Online)
    BY <2>4, ScaleCardinality DEF Scale!InTurn, Rank
  <2>6. /\ counter' = counter + 1 /\ turns' = Append(turns, xs[i].id)
        /\ Scale!Place(xs[i].id)
    BY <1>1, <1>3, <2>5 DEF Scale!RoundRobin
  <2>7. xs[i].id \in ExtentIds
    BY <2>1 DEF ExtentRecs
  <2>8. counter' \in Nat /\ turns' \in Seq(ExtentIds)
    BY <2>1, <2>6, <2>7, AppendProperties
  <2>9. Spread(xs, turns', counter')
    BY <2>1, <2>5, <2>6, TurnSpreads
  <2> QED BY <1>1, <2>6, <2>8, <2>9, PlaceHolds
<1> QED BY <1>2, <1>3

LEMMA WriteToFastHolds ==
  ASSUME ScaleInv, Scale!WriteToFast
  PROVE  ScaleInv'
<1>1. /\ Scale!Fast # {} /\ Scale!Place(repo.extents[Scale!First(Scale!Fast)].id)
      /\ UNCHANGED <<repo, counter, declared, turns>>
  BY DEF Scale!WriteToFast
<1>2. Scale!Fast \in SUBSET Scale!Online /\ Scale!Fast \in SUBSET Nat
  BY RepoFields DEF Scale!Fast, ScaleInv
<1>3. Scale!First(Scale!Fast) \in Scale!Online
  BY <1>1, <1>2, FirstIsOne
<1>4. /\ counter' \in Nat /\ turns' \in Seq(ExtentIds)
      /\ Spread(repo.extents, turns', counter')
  BY <1>1 DEF ScaleInv
<1> QED BY <1>1, <1>3, <1>4, PlaceHolds

LEMMA WriteToRoomyHolds ==
  ASSUME ScaleInv, Scale!WriteToRoomy
  PROVE  ScaleInv'
<1>1. CASE Scale!Roomiest = {}
  <2>1. /\ Scale!Place(Scale!Nowhere) /\ repo.policy = "CAPACITY_TIER"
        /\ UNCHANGED <<repo, counter, declared, turns>>
    BY <1>1 DEF Scale!WriteToRoomy
  <2> QED BY <1>1, <2>1, PlaceNowhereHolds
<1>2. CASE Scale!Roomiest # {}
  <2>1. /\ Scale!Place(repo.extents[Scale!First(Scale!Roomiest)].id)
        /\ UNCHANGED <<repo, counter, declared, turns>>
    BY <1>2 DEF Scale!WriteToRoomy
  <2>2. Scale!Roomiest \in SUBSET Scale!Online /\ Scale!Roomiest \in SUBSET Nat
    BY RepoFields DEF Scale!Roomiest, ScaleInv
  <2>3. Scale!First(Scale!Roomiest) \in Scale!Online
    BY <1>2, <2>2, FirstIsOne
  <2>4. /\ counter' \in Nat /\ turns' \in Seq(ExtentIds)
        /\ Spread(repo.extents, turns', counter')
    BY <2>1 DEF ScaleInv
  <2> QED BY <2>1, <2>3, <2>4, PlaceHolds
<1> QED BY <1>1, <1>2

LEMMA AnotherWritesHolds ==
  ASSUME ScaleInv, Scale!AnotherWrites
  PROVE  ScaleInv'
<1>1. /\ counter' = counter + 1 /\ turns' = <<>>
      /\ UNCHANGED <<repo, written, declared>> /\ counter \in Nat
      /\ repo.extents \in Seq(ExtentRecs)
  BY RepoFields DEF Scale!AnotherWrites, ScaleInv
<1>2. counter' \in Nat /\ turns' \in Seq(ExtentIds)
  BY <1>1, EmptySeq
<1>3. Spread(repo.extents, turns', counter')
  BY <1>1, <1>2, NoTurnsSpread
<1>4. Placing'
  BY <1>1 DEF ScaleInv, Placing, Scale!Online, Scale!Placed, Scale!Roomiest,
     Scale!Room
<1> QED BY <1>1, <1>2, <1>3, <1>4 DEF ScaleInv

LEMMA ScaleStepHolds ==
  ScaleInv /\ (Scale!Next \/ UNCHANGED scaleVars) => ScaleInv'
<1> SUFFICES ASSUME ScaleInv, Scale!Next \/ UNCHANGED scaleVars PROVE ScaleInv'
  OBVIOUS
<1>1. CASE UNCHANGED scaleVars
  BY <1>1 DEF scaleVars, ScaleInv, Placing, Scale!Online, Scale!Placed,
     Scale!Roomiest, Scale!Room
<1>2. CASE \E policy \in Scale!Policies :
             \E extents \in Scale!Declared :
               \E capacity \in Scale!Capacities :
                 Scale!CreateRepo(policy, extents, capacity)
  BY <1>2, CreateRepoHolds
<1>3. CASE \E policy \in Scale!Policies : Scale!UpdateRepo(policy)
  BY <1>3, UpdateRepoHolds
<1>4. CASE Scale!DeleteRepo
  BY <1>4, DeleteRepoHolds
<1>5. CASE \E x \in Scale!Extents : Scale!AddExtent(x)
  BY <1>5, AddExtentHolds
<1>6. CASE \E id \in ExtentIds : Scale!RemoveExtent(id)
  BY <1>6, RemoveExtentHolds
<1>7. CASE \E id \in ExtentIds : Scale!EvacuateExtent(id)
  BY <1>7, SetStatusHolds DEF Scale!EvacuateExtent
<1>8. CASE \E id \in ExtentIds : Scale!SetMaintenanceMode(id)
  BY <1>8, SetStatusHolds DEF Scale!SetMaintenanceMode
<1>9. CASE Scale!WriteInTurn \/ Scale!WriteToFast \/ Scale!WriteToRoomy \/ Scale!AnotherWrites
  BY <1>9, WriteInTurnHolds, WriteToFastHolds, WriteToRoomyHolds,
     AnotherWritesHolds
<1> QED
  BY <1>1, <1>2, <1>3, <1>4, <1>5, <1>6, <1>7, <1>8, <1>9 DEF Scale!Next

-----------------------------------------------------------------------------
(* A write goes to an extent that is online, or to none when none can take *)
(* it; those in turn are spread evenly; and the capacity is what was       *)
(* declared and added, however many extents and turns there are.           *)
THEOREM WritesArePlacedHolds == Spec => []WritesArePlaced
<1>1. Init => ScaleInv
  BY ScaleStarts DEF Init
<1>2. ScaleInv /\ [Next]_vars => ScaleInv'
  BY ScaleMoves, ScaleStepHolds
<1>3. ScaleInv => WritesArePlaced
  BY ScaleShows DEF WritesArePlaced
<1> QED BY <1>1, <1>2, <1>3, PTL DEF Spec
-----------------------------------------------------------------------------
(* Ranges of changed blocks: those of QEMU are of one block, the others    *)
(* begin at 0.                                                             *)

LEMMA ChangedMoves == [Next]_vars => Changed!Next \/ UNCHANGED changedVars
BY DEF Next, OthersKeep, vars, changedVars, CoreMain, CoreHeartbeat,
       CoreMonitor, CoreConnect, CoreSpeak, CoreSignal, AgentStep, ChainStep,
       BufferStep, DedupStep, VmStep, ChangedStep, EngineStep, ScaleStep,
       VerificationStep, ScannerStep, OracleStep, BitmapStep, RestoreStep

LEMMA ChangedCardinality == \A S : Changed!Cardinality(S) = Cardinality(S)
BY DEF Changed!Cardinality, Cardinality

LEMMA ChangedFacts == Disks \subseteq Nat /\ Wrap \in Nat /\ Wrap > 1
BY ChangedAssumption, BitmapAssumption

RangesOf(m) ==
  {r \in [offset : Nat, size : 0..(Wrap - 1)] :
     IF m = "qemu" THEN r.size = 1 ELSE r.offset = 0}

LEMMA RangeFields ==
  ASSUME NEW m, NEW r \in RangesOf(m)
  PROVE  /\ r.offset \in Nat /\ r.size \in Nat /\ r.size < Wrap
         /\ r.offset + r.size \in Nat
         /\ m = "qemu" => r.size = 1
         /\ m # "qemu" => r.offset = 0
         /\ r = [offset |-> r.offset, size |-> r.size]
<1>1. r \in [offset : Nat, size : 0..(Wrap - 1)]
  BY DEF RangesOf
<1>2. r.offset \in Nat /\ r.size \in 0..(Wrap - 1)
  BY <1>1
<1>3. r = [offset |-> r.offset, size |-> r.size]
  BY <1>1
<1>4. r.size \in Nat /\ r.size < Wrap
  BY <1>2, ChangedFacts
<1> QED BY <1>2, <1>3, <1>4 DEF RangesOf

LEMMA CoveredIs ==
  ASSUME NEW S, NEW s \in Seq(S)
  PROVE  /\ \A b : b \in Changed!Covered(s) <=> \E i \in 1..Len(s) : b \in Changed!Cover(s[i])
         /\ \A i \in 1..Len(s) : s[i] \in S
         /\ Len(s) \in Nat /\ DOMAIN s = 1..Len(s)
<1>1. DOMAIN s = 1..Len(s) /\ Len(s) \in Nat /\ \A i \in 1..Len(s) : s[i] \in S
  BY LenProperties, ElementOfSeq
<1>2. \A b : b \in Changed!Covered(s) <=> \E i \in 1..Len(s) : b \in Changed!Cover(s[i])
  BY <1>1 DEF Changed!Covered
<1> QED BY <1>1, <1>2

LEMMA AddedIs ==
  ASSUME NEW m, NEW s \in Seq(RangesOf(m)), NEW r \in RangesOf(m)
  PROVE  /\ Changed!AddRange(s, r) \in Seq(RangesOf(m))
         /\ Changed!Covered(s) \subseteq Changed!Covered(Changed!AddRange(s, r))
         /\ Changed!Cover(r) \subseteq Changed!Covered(Changed!AddRange(s, r))
<1> DEFINE over == {i \in DOMAIN s : /\ s[i].offset <= r.offset
                                     /\ r.offset < s[i].offset + s[i].size}
<1>1. /\ DOMAIN s = 1..Len(s) /\ Len(s) \in Nat
      /\ \A i \in 1..Len(s) : s[i] \in RangesOf(m)
  BY CoveredIs
<1>2. CASE over = {}
  <2> DEFINE u == Append(s, r)
  <2>1. Changed!AddRange(s, r) = u
    BY <1>2 DEF Changed!AddRange
  <2>2. /\ u \in Seq(RangesOf(m)) /\ Len(u) = Len(s) + 1
        /\ \A i \in 1..Len(s) : u[i] = s[i]
        /\ u[Len(s) + 1] = r
    BY AppendProperties
  <2> HIDE DEF u
  <2>3. \A i \in 1..Len(s) : i \in 1..Len(u) /\ u[i] = s[i]
    BY <1>1, <2>2
  <2>4. Len(s) + 1 \in 1..Len(u)
    BY <1>1, <2>2
  <2>5. Changed!Covered(s) \subseteq Changed!Covered(u)
    BY <2>2, <2>3, CoveredIs
  <2>6. Changed!Cover(r) \subseteq Changed!Covered(u)
    BY <2>2, <2>4, CoveredIs
  <2> QED BY <2>1, <2>2, <2>5, <2>6
<1>3. CASE over # {}
  <2>1. over \in SUBSET Nat
    BY <1>1
  <2>2. PICK j \in over : \A l \in over : j <= l
    BY <1>3, <2>1, LeastMember
  <2> DEFINE i == CHOOSE k \in over : \A l \in over : k <= l
  <2>3. i \in over
    BY <2>2
  <2> HIDE DEF i
  <2>4. i \in 1..Len(s) /\ s[i] \in RangesOf(m)
    BY <1>1, <2>3
  <2>5. PICK o \in Nat, z \in Nat : o = s[i].offset /\ z = s[i].size
    BY <2>4, RangeFields
  <2>6. PICK ro \in Nat, rz \in Nat : ro = r.offset /\ rz = r.size
    BY RangeFields
  <2>7. o <= ro /\ ro < o + z
    BY <2>3, <2>5, <2>6
  <2>8. /\ z < Wrap /\ rz < Wrap
        /\ m = "qemu" => z = 1 /\ rz = 1
        /\ m # "qemu" => o = 0 /\ ro = 0
    BY <2>4, <2>5, <2>6, RangeFields
  <2> DEFINE end == Changed!Larger(o + z, ro + rz)
             e == end - o
             u == [s EXCEPT ![i].size = e]
  <2>9. /\ end \in Nat /\ end >= o + z /\ end >= ro + rz
        /\ end = o + z \/ end = ro + rz
    BY DEF Changed!Larger
  <2> HIDE DEF end
  <2>10. /\ e \in Nat /\ e < Wrap /\ o + e = end
         /\ m = "qemu" => e = 1
    <3>1. CASE m = "qemu"
      BY <2>7, <2>8, <2>9, <3>1, ChangedFacts
    <3>2. CASE m # "qemu"
      BY <2>7, <2>8, <2>9, <3>2, ChangedFacts
    <3> QED BY <3>1, <3>2
  <2>11. Changed!AddRange(s, r) = u
    <3>1. e % Wrap = e
      BY <2>10, ModSmall, ChangedFacts
    <3>2. Changed!AddRange(s, r) = [s EXCEPT ![i].size = e % Wrap]
      BY <1>3, <2>5, <2>6 DEF Changed!AddRange, i, end
    <3> HIDE DEF e
    <3> QED BY <3>1, <3>2
  <2>12. /\ u \in Seq(RangesOf(m)) /\ Len(u) = Len(s)
         /\ u[i] = [offset |-> o, size |-> e]
         /\ \A k \in 1..Len(s) : k # i => u[k] = s[k]
    <3> HIDE DEF e
    <3> DEFINE w == [offset |-> o, size |-> e]
    <3>1. s \in [1..Len(s) -> RangesOf(m)]
      BY SeqIsFunction
    <3>2. w \in RangesOf(m)
      <4>1. e \in 0..(Wrap - 1)
        BY <2>10, ChangedFacts
      <4> QED BY <2>8, <2>10, <4>1 DEF RangesOf
    <3>3. [s[i] EXCEPT !.size = e] = w
      <4>1. s[i] = [offset |-> o, size |-> z]
        BY <2>4, <2>5, RangeFields
      <4> QED BY <4>1
    <3>4. u = [s EXCEPT ![i] = w]
      BY <2>4, <3>1, <3>3
    <3> HIDE DEF w
    <3>5. u \in [1..Len(s) -> RangesOf(m)] /\ u[i] = w
          /\ \A k \in 1..Len(s) : k # i => u[k] = s[k]
      BY <2>4, <3>1, <3>2, <3>4
    <3> HIDE DEF u
    <3> QED BY <1>1, <3>5, FunctionIsSeq DEF w
  <2> HIDE DEF u, e
  <2>13. Changed!Cover(s[i]) \subseteq Changed!Cover(u[i]) /\ Changed!Cover(r) \subseteq Changed!Cover(u[i])
    <3>1. Changed!Cover(u[i]) = (o + 1)..(o + e)
      BY <2>12 DEF Changed!Cover
    <3>2. Changed!Cover(s[i]) = (o + 1)..(o + z) /\ Changed!Cover(r) = (ro + 1)..(ro + rz)
      BY <2>5, <2>6 DEF Changed!Cover
    <3>3. o + z <= o + e /\ ro + rz <= o + e
      BY <2>9, <2>10
    <3> QED BY <2>7, <2>10, <3>1, <3>2, <3>3
  <2>14. \A k \in 1..Len(s) : k \in 1..Len(u) /\ Changed!Cover(s[k]) \subseteq Changed!Cover(u[k])
    BY <2>12, <2>13
  <2>15. Changed!Covered(s) \subseteq Changed!Covered(u)
    BY <2>12, <2>14, CoveredIs
  <2>16. Changed!Cover(r) \subseteq Changed!Covered(u)
    BY <2>4, <2>12, <2>13, CoveredIs
  <2> QED BY <2>11, <2>12, <2>15, <2>16
<1> QED BY <1>2, <1>3

(* f joins the ranges of b to those of a.                                  *)
Joins(f, a, b, S) ==
  /\ f \in [0..Len(b) -> S] /\ f[0] = a
  /\ \A n \in 1..Len(b) : f[n] = Changed!AddRange(f[n - 1], b[n])

LEMMA JoinsExist ==
  ASSUME NEW m, NEW a \in Seq(RangesOf(m)), NEW b \in Seq(RangesOf(m))
  PROVE  \E f : Joins(f, a, b, Seq(RangesOf(m)))
<1> DEFINE L == Len(b)
           S == Seq(RangesOf(m))
           step == [p \in (1..L) \X S |-> Changed!AddRange(p[2], b[p[1]])]
<1>1. L \in Nat /\ \A n \in 1..L : b[n] \in RangesOf(m)
  BY CoveredIs
<1>2. ASSUME NEW n \in 1..L, NEW x \in S
      PROVE  step[<<n, x>>] \in S /\ step[<<n, x>>] = Changed!AddRange(x, b[n])
  <2>1. Changed!AddRange(x, b[n]) \in S
    BY <1>1, AddedIs
  <2> HIDE DEF S
  <2> QED BY <2>1
<1>3. a \in S
  OBVIOUS
<1> HIDE DEF step, S
<1>4. PICK f \in [0..L -> S] : Follows(f, a, step, L)
  BY <1>1, <1>2, <1>3, RecursionExists
<1>5. ASSUME NEW n \in 1..L PROVE f[n] = Changed!AddRange(f[n - 1], b[n])
  <2>1. n - 1 \in 0..L
    BY <1>1
  <2>2. f[n - 1] \in S
    BY <1>4, <2>1
  <2> QED BY <1>2, <1>4, <2>2 DEF Follows
<1> QED BY <1>4, <1>5 DEF Joins, Follows, S

LEMMA JoinedIs ==
  ASSUME NEW a, NEW S, NEW b, Len(b) \in Nat, NEW f, Joins(f, a, b, S)
  PROVE  Changed!Joined(a, b) = f[Len(b)]
<1> DEFINE F(h) == h = [n \in 0..Len(b) |->
                          IF n = 0 THEN a ELSE Changed!AddRange(h[n - 1], b[n])]
           of == CHOOSE h : F(h)
<1>2. F(f)
  <2>1. \A n \in 0..Len(b) : f[n] = IF n = 0 THEN a ELSE Changed!AddRange(f[n - 1], b[n])
    BY DEF Joins
  <2> QED BY <2>1 DEF Joins
<1>3. F(of)
  BY <1>2
<1>4. Changed!Joined(a, b) = of[Len(b)]
  BY DEF Changed!Joined
<1> HIDE DEF of
<1> DEFINE P == {n \in Nat : n <= Len(b) => of[n] = f[n]}
<1>5. 0 \in P
  BY <1>3 DEF Joins
<1>6. ASSUME NEW n \in Nat, n \in P PROVE n + 1 \in P
  <2> SUFFICES ASSUME n + 1 <= Len(b) PROVE of[n + 1] = f[n + 1]
    OBVIOUS
  <2>1. n + 1 \in 1..Len(b) /\ (n + 1) - 1 = n /\ of[n] = f[n] /\ n + 1 # 0
        /\ n + 1 \in 0..Len(b)
    BY <1>6
  <2>2. of[n + 1] = Changed!AddRange(of[n], b[n + 1])
    BY <1>3, <2>1
  <2>3. f[n + 1] = Changed!AddRange(f[n], b[n + 1])
    BY <2>1 DEF Joins
  <2> QED BY <2>1, <2>2, <2>3
<1> HIDE DEF P
<1>7. Nat \subseteq P
  BY <1>5, <1>6, SetInduction
<1> QED BY <1>4, <1>7 DEF P

LEMMA JoinedCovers ==
  ASSUME NEW m, NEW a \in Seq(RangesOf(m)), NEW b \in Seq(RangesOf(m))
  PROVE  /\ Changed!Joined(a, b) \in Seq(RangesOf(m))
         /\ Changed!Covered(a) \subseteq Changed!Covered(Changed!Joined(a, b))
         /\ Changed!Covered(b) \subseteq Changed!Covered(Changed!Joined(a, b))
<1> DEFINE S == Seq(RangesOf(m))
<1>1. Len(b) \in Nat /\ \A n \in 1..Len(b) : b[n] \in RangesOf(m)
  BY CoveredIs
<1>2. PICK f : Joins(f, a, b, S)
  BY JoinsExist
<1> HIDE DEF S
<1>3. Changed!Joined(a, b) = f[Len(b)] /\ f[Len(b)] \in S
  <2>1. Changed!Joined(a, b) = f[Len(b)]
    BY <1>1, <1>2, JoinedIs
  <2>2. Len(b) \in 0..Len(b) /\ f \in [0..Len(b) -> S]
    BY <1>1, <1>2 DEF Joins
  <2> QED BY <2>1, <2>2
<1> DEFINE P == {n \in Nat : n <= Len(b) =>
                   /\ Changed!Covered(a) \subseteq Changed!Covered(f[n])
                   /\ \A i \in 1..n : Changed!Cover(b[i]) \subseteq Changed!Covered(f[n])}
<1>4. 0 \in P
  BY <1>2 DEF Joins
<1>5. ASSUME NEW n \in Nat, n \in P PROVE n + 1 \in P
  <2> SUFFICES ASSUME n + 1 <= Len(b)
               PROVE  /\ Changed!Covered(a) \subseteq Changed!Covered(f[n + 1])
                      /\ \A i \in 1..(n + 1) : Changed!Cover(b[i]) \subseteq Changed!Covered(f[n + 1])
    BY DEF P
  <2>1. /\ n + 1 \in 1..Len(b) /\ (n + 1) - 1 = n /\ n \in 0..Len(b)
        /\ Changed!Covered(a) \subseteq Changed!Covered(f[n])
        /\ \A i \in 1..n : Changed!Cover(b[i]) \subseteq Changed!Covered(f[n])
    BY <1>1, <1>5
  <2>2. f[n + 1] = Changed!AddRange(f[n], b[n + 1]) /\ f[n] \in S
    BY <1>2, <2>1 DEF Joins
  <2>3. b[n + 1] \in RangesOf(m)
    BY <1>1, <2>1
  <2>4. /\ Changed!Covered(f[n]) \subseteq Changed!Covered(f[n + 1])
        /\ Changed!Cover(b[n + 1]) \subseteq Changed!Covered(f[n + 1])
    BY <2>2, <2>3, AddedIs DEF S
  <2>5. \A i \in 1..(n + 1) : i \in 1..n \/ i = n + 1
    OBVIOUS
  <2> QED BY <2>1, <2>4, <2>5
<1> HIDE DEF P
<1>6. Nat \subseteq P
  BY <1>4, <1>5, SetInduction
<1>7. /\ Changed!Covered(a) \subseteq Changed!Covered(f[Len(b)])
      /\ \A i \in 1..Len(b) : Changed!Cover(b[i]) \subseteq Changed!Covered(f[Len(b)])
  BY <1>1, <1>6 DEF P
<1>8. Changed!Covered(b) \subseteq Changed!Covered(f[Len(b)])
  BY <1>7, CoveredIs
<1> QED BY <1>3, <1>7, <1>8 DEF S

LEMMA MergedCovers ==
  ASSUME NEW m, NEW a \in Seq(RangesOf(m)), NEW b \in Seq(RangesOf(m)),
         NEW s \in Changed!MergeBitmaps(a, b)
  PROVE  /\ s \in Seq(RangesOf(m)) /\ Changed!Sorted(s)
         /\ Changed!Covered(a) \subseteq Changed!Covered(s) /\ Changed!Covered(b) \subseteq Changed!Covered(s)
<1> DEFINE all == Changed!Joined(a, b)
           D == DOMAIN all
<1>1. /\ all \in Seq(RangesOf(m))
      /\ Changed!Covered(a) \subseteq Changed!Covered(all) /\ Changed!Covered(b) \subseteq Changed!Covered(all)
  BY JoinedCovers
<1>2. /\ D = 1..Len(all) /\ Len(all) \in Nat
      /\ \A i \in D : all[i] \in RangesOf(m)
  BY <1>1, CoveredIs
<1>3. Changed!Sorted(s) /\ \E p \in Changed!Bijection(D, D) : s = [i \in D |-> all[p[i]]]
  BY DEF Changed!MergeBitmaps
<1> HIDE DEF all, D
<1>4. PICK p \in Changed!Bijection(D, D) : s = [i \in D |-> all[p[i]]]
  BY <1>3
<1>5. p \in [D -> D] /\ \A k \in D : \E i \in D : p[i] = k
  BY <1>4 DEF Changed!Bijection, Changed!Injection, Changed!Surjection
<1>6. s \in [1..Len(all) -> RangesOf(m)]
  BY <1>2, <1>4, <1>5
<1>7. s \in Seq(RangesOf(m)) /\ Len(s) = Len(all)
  BY <1>2, <1>6, FunctionIsSeq
<1>8. ASSUME NEW k \in 1..Len(all) PROVE \E i \in 1..Len(s) : s[i] = all[k]
  BY <1>2, <1>4, <1>5, <1>7
<1>9. Changed!Covered(all) \subseteq Changed!Covered(s)
  BY <1>1, <1>7, <1>8, CoveredIs
<1> QED BY <1>1, <1>3, <1>7, <1>9 DEF all

LEMMA ReadCovers ==
  ASSUME NEW m, NEW s \in Seq(RangesOf(m)), Changed!Sorted(s), disk \in Nat,
         NEW b \in Changed!Blocks, b \in Changed!Covered(s)
  PROVE  b \in Changed!ReadChangedBlocks(s)
<1> DEFINE past == {i \in DOMAIN s : s[i].offset + s[i].size > disk}
           last == IF past = {} THEN Len(s)
                   ELSE CHOOSE i \in past : \A j \in past : i <= j
           u == SubSeq(s, 1, last)
<1>1. /\ DOMAIN s = 1..Len(s) /\ Len(s) \in Nat
      /\ \A i \in 1..Len(s) : s[i] \in RangesOf(m)
  BY CoveredIs
<1>2. PICK k \in 1..Len(s) : b \in Changed!Cover(s[k])
  BY CoveredIs
<1>3. Changed!ReadChangedBlocks(s) = Changed!Covered(u) \cap Changed!Blocks
  BY DEF Changed!ReadChangedBlocks
<1>4. /\ last \in 0..Len(s)
      /\ past # {} => last \in past /\ \A j \in past : last <= j
  <2>1. CASE past = {}
    BY <1>1, <2>1
  <2>2. CASE past # {}
    <3>1. past \in SUBSET Nat
      BY <1>1
    <3> HIDE DEF past
    <3>2. PICK j \in past : \A l \in past : j <= l
      BY <2>2, <3>1, LeastMember
    <3>3. last \in past /\ \A l \in past : last <= l
      BY <2>2, <3>2
    <3> HIDE DEF last
    <3>4. last \in 1..Len(s)
      BY <1>1, <3>3 DEF past
    <3> QED BY <1>1, <3>3, <3>4
  <2> QED BY <2>1, <2>2
<1>5. past = {} => last = Len(s)
  OBVIOUS
<1> HIDE DEF last, past
<1>6. /\ u \in Seq(RangesOf(m)) /\ Len(u) = last
      /\ \A i \in 1..last : u[i] = s[i]
  <2>1. 1 \in Int /\ last \in Int /\ \A i \in 1..last : s[i] \in RangesOf(m)
    BY <1>1, <1>4
  <2>2. /\ u \in Seq(RangesOf(m)) /\ Len(u) = IF 1 <= last THEN last - 1 + 1 ELSE 0
        /\ \A i \in 1..(last - 1 + 1) : u[i] = s[1 + i - 1]
    BY <2>1, SubSeqProperties
  <2> HIDE DEF u
  <2> QED BY <1>1, <1>4, <2>2
<1> HIDE DEF u
<1>7. ASSUME NEW i \in 1..Len(s), i <= last, b \in Changed!Cover(s[i])
      PROVE  b \in Changed!Covered(u)
  <2>1. i \in 1..last
    BY <1>1, <1>4, <1>7
  <2> QED BY <1>6, <1>7, <2>1, CoveredIs
<1>8. CASE k <= last
  BY <1>2, <1>3, <1>7, <1>8
<1>9. CASE ~ (k <= last)
  <2>0. last \in Int /\ k \in Int /\ k <= Len(s) /\ Len(s) \in Int
    BY <1>1, <1>4
  <2>1. past # {} /\ last < k
    BY <1>5, <1>9, <2>0
  <2>2. last \in past
    BY <1>4, <2>1
  <2>3. last \in 1..Len(s) /\ s[last].offset + s[last].size > disk
    BY <1>1, <2>2 DEF past
  <2>4. s[last].offset <= s[k].offset
    BY <1>1, <2>1, <2>3 DEF Changed!Sorted
  <2>5. s[last] \in RangesOf(m) /\ s[k] \in RangesOf(m)
    BY <1>1, <2>3
  <2>6. PICK o \in Nat, z \in Nat : o = s[last].offset /\ z = s[last].size
    BY <2>5, RangeFields
  <2>7. PICK ko \in Nat, kz \in Nat : ko = s[k].offset /\ kz = s[k].size
    BY <2>5, RangeFields
  <2>8. b \in (ko + 1)..(ko + kz)
    BY <1>2, <2>7 DEF Changed!Cover
  <2>9. b \in 1..disk
    BY DEF Changed!Blocks
  <2>10. o + z > disk /\ o <= ko
    BY <2>3, <2>4, <2>6, <2>7
  <2>11. CASE m = "qemu"
    <3>1. z = 1 /\ kz = 1
      BY <2>5, <2>6, <2>7, <2>11, RangeFields
    <3> QED BY <2>8, <2>9, <2>10, <3>1
  <2>12. CASE m # "qemu"
    <3>1. o = 0
      BY <2>5, <2>6, <2>12, RangeFields
    <3>2. b \in (o + 1)..(o + z)
      BY <2>9, <2>10, <3>1
    <3>3. b \in Changed!Cover(s[last])
      BY <2>6, <3>2 DEF Changed!Cover
    <3>4. last <= last
      BY <1>4
    <3> QED BY <1>3, <1>7, <2>3, <3>3, <3>4
  <2> QED BY <2>11, <2>12
<1> QED BY <1>8, <1>9

(* The ranges that a detection reports.                                    *)
LEMMA NoRanges ==
  ASSUME NEW m
  PROVE  <<>> \in Seq(RangesOf(m)) /\ Changed!Covered(<<>>) = {} /\ Changed!Sorted(<<>>)
<1>1. <<>> \in Seq(RangesOf(m)) /\ Len(<<>>) = 0
  BY EmptySeq
<1>2. DOMAIN <<>> = {}
  OBVIOUS
<1>3. Changed!Covered(<<>>) = {}
  BY <1>2 DEF Changed!Covered
<1>4. Changed!Sorted(<<>>)
  BY <1>2 DEF Changed!Sorted
<1> QED BY <1>1, <1>3, <1>4

LEMMA PrefixIs ==
  ASSUME NEW n \in Nat, NEW m, m # "qemu"
  PROVE  /\ Changed!Prefix(n) \in Seq(RangesOf(m)) /\ Changed!AtLeastOne(n) \in Seq(RangesOf(m))
         /\ n < Wrap => 1..n \subseteq Changed!Covered(Changed!Prefix(n))
<1> DEFINE r == [offset |-> 0, size |-> n % Wrap]
<1>1. r \in RangesOf(m)
  BY ChangedFacts DEF RangesOf
<1>2. Changed!Prefix(n) = <<r>>
  BY DEF Changed!Prefix
<1> HIDE DEF r
<1>3. <<r>> \in Seq(RangesOf(m)) /\ Len(<<r>>) = 1 /\ <<r>>[1] = r
  BY <1>1
<1>4. Changed!AtLeastOne(n) \in Seq(RangesOf(m))
  BY <1>2, <1>3, NoRanges DEF Changed!AtLeastOne
<1>5. n < Wrap => 1..n \subseteq Changed!Covered(Changed!Prefix(n))
  <2> SUFFICES ASSUME n < Wrap PROVE 1..n \subseteq Changed!Covered(<<r>>)
    BY <1>2
  <2>1. Changed!Cover(r) = 1..n
    <3>1. n % Wrap = n
      BY ModSmall, ChangedFacts
    <3> QED BY <3>1 DEF Changed!Cover, r
  <2>2. 1 \in 1..Len(<<r>>)
    BY <1>3
  <2> QED BY <1>3, <2>1, <2>2, CoveredIs
<1> QED BY <1>2, <1>3, <1>4, <1>5

-----------------------------------------------------------------------------
(* Changed blocks.                                                         *)

ChangedInv ==
  /\ disk \in Nat /\ since \subseteq Changed!Blocks
  /\ held \in Seq(RangesOf(method)) /\ Changed!Sorted(held)
  /\ Changed!ChangesAreKept

LEMMA ChangedStarts == Changed!Init => ChangedInv
<1> SUFFICES ASSUME Changed!Init PROVE ChangedInv
  OBVIOUS
<1>1. disk \in Nat
  BY ChangedFacts DEF Changed!Init
<1>2. held = <<>> /\ since = Changed!Blocks
  BY DEF Changed!Init
<1>3. held \in Seq(RangesOf(method)) /\ Changed!Sorted(held)
  BY <1>2, NoRanges
<1>4. Changed!ChangesAreKept
  BY <1>2 DEF Changed!ChangesAreKept
<1> QED BY <1>1, <1>2, <1>3, <1>4 DEF ChangedInv

LEMMA TakeKeeps ==
  ASSUME ChangedInv, NEW ranges \in Seq(RangesOf(method)), Changed!Take(ranges)
  PROVE  /\ UNCHANGED <<method, disk, saved>> /\ Changed!Blocks' = Changed!Blocks
         /\ held' \in Seq(RangesOf(method')) /\ Changed!Sorted(held')
         /\ Changed!Covered(held) \subseteq Changed!Covered(held')
         /\ Changed!Covered(ranges) \subseteq Changed!Covered(held')
<1>1. /\ held' \in Changed!MergeBitmaps(held, ranges)
      /\ UNCHANGED <<method, disk, saved>>
  BY DEF Changed!Take
<1>2. held \in Seq(RangesOf(method))
  BY DEF ChangedInv
<1>3. Changed!Blocks' = Changed!Blocks
  BY <1>1 DEF Changed!Blocks
<1> QED BY <1>1, <1>2, <1>3, MergedCovers

LEMMA ReportHolds ==
  ASSUME ChangedInv, NEW ranges \in Seq(RangesOf(method)), Changed!Report(ranges)
  PROVE  ChangedInv'
<1>1. /\ Changed!Take(ranges) /\ since' = {}
      /\ missed' = missed \cup (since \ Changed!Covered(ranges))
  BY DEF Changed!Report
<1>2. /\ UNCHANGED <<method, disk, saved>> /\ Changed!Blocks' = Changed!Blocks
      /\ held' \in Seq(RangesOf(method')) /\ Changed!Sorted(held')
      /\ Changed!Covered(held) \subseteq Changed!Covered(held')
      /\ Changed!Covered(ranges) \subseteq Changed!Covered(held')
  BY <1>1, TakeKeeps
<1>3. /\ disk \in Nat /\ since \subseteq Changed!Blocks
      /\ Changed!Blocks \ (since \cup saved \cup Changed!Covered(held)) \subseteq missed
  BY DEF ChangedInv, Changed!ChangesAreKept
<1>5. Changed!Blocks' \ (since' \cup saved' \cup Changed!Covered(held)')
          \subseteq missed'
  BY <1>1, <1>2, <1>3
<1>7. Changed!ChangesAreKept'
  BY <1>5 DEF Changed!ChangesAreKept
<1> QED BY <1>1, <1>2, <1>3, <1>7 DEF ChangedInv

LEMMA TakeHolds ==
  ASSUME ChangedInv, NEW ranges \in Seq(RangesOf(method)), Changed!Take(ranges),
         UNCHANGED <<since, missed>>
  PROVE  ChangedInv'
<1>1. /\ UNCHANGED <<method, disk, saved>> /\ Changed!Blocks' = Changed!Blocks
      /\ held' \in Seq(RangesOf(method')) /\ Changed!Sorted(held')
      /\ Changed!Covered(held) \subseteq Changed!Covered(held')
  BY TakeKeeps
<1>2. /\ disk \in Nat /\ since \subseteq Changed!Blocks
      /\ Changed!Blocks \ (since \cup saved \cup Changed!Covered(held)) \subseteq missed
  BY DEF ChangedInv, Changed!ChangesAreKept
<1>3. Changed!Blocks' \ (since' \cup saved' \cup Changed!Covered(held)')
          \subseteq missed'
  BY <1>1, <1>2
<1>5. Changed!ChangesAreKept'
  BY <1>3 DEF Changed!ChangesAreKept
<1> QED BY <1>1, <1>2, <1>5 DEF ChangedInv

LEMMA SinceIsFinite ==
  ASSUME ChangedInv
  PROVE  Cardinality(since) \in Nat
<1>1. since \in SUBSET (1..disk) /\ disk \in Nat
  BY DEF ChangedInv, Changed!Blocks
<1>2. IsFiniteSet(1..disk)
  BY <1>1, FS_Interval
<1> QED BY <1>1, <1>2, FS_Subset, FS_CardinalityType

LEMMA DetectHolds ==
  ASSUME ChangedInv,
         \/ Changed!DetectTarIncremental \/ Changed!DetectSnapshot \/ Changed!DetectStatus
         \/ Changed!DetectFanotify \/ Changed!DetectFixed
  PROVE  ChangedInv'
<1>1. method # "qemu" /\ method # "readdir"
  BY DEF Changed!DetectTarIncremental, Changed!DetectSnapshot,
     Changed!DetectStatus, Changed!DetectFanotify,
         Changed!DetectFixed
<1>2. ASSUME NEW n \in Nat, Changed!Report(Changed!Prefix(n)) PROVE ChangedInv'
  BY <1>1, <1>2, PrefixIs, ReportHolds
<1>3. ASSUME NEW n \in Nat, Changed!Report(Changed!AtLeastOne(n)) PROVE ChangedInv'
  BY <1>1, <1>3, PrefixIs, ReportHolds
<1>4. ASSUME NEW n \in Nat, Changed!Take(Changed!AtLeastOne(n)), UNCHANGED <<since, missed>>
      PROVE  ChangedInv'
  BY <1>1, <1>4, PrefixIs, TakeHolds
<1>5. disk \in Nat /\ Cardinality(since) \in Nat
  BY SinceIsFinite DEF ChangedInv
<1>6. CASE Changed!DetectTarIncremental
  BY <1>3, <1>6 DEF Changed!DetectTarIncremental
<1>7. CASE Changed!DetectSnapshot
  <2>1. CASE Changed!Report(Changed!Prefix(disk))
    BY <1>2, <1>5, <2>1
  <2>2. CASE \E n \in {0} \cup Cardinality(since)..(disk + 1) : Changed!Report(Changed!Prefix(n))
    <3>1. PICK n \in {0} \cup Cardinality(since)..(disk + 1) : Changed!Report(Changed!Prefix(n))
      BY <2>2
    <3>2. n \in Nat
      BY <1>5
    <3> QED BY <1>2, <3>1, <3>2
  <2>3. CASE (\E n \in {0, 1} : Changed!Take(Changed!AtLeastOne(n))) /\ UNCHANGED <<since, missed>>
    BY <1>4, <2>3
  <2> QED
    BY <1>7, <2>1, <2>2, <2>3, ChangedCardinality DEF Changed!DetectSnapshot
<1>8. CASE Changed!DetectStatus
  BY <1>2, <1>8 DEF Changed!DetectStatus
<1>9. CASE Changed!DetectFanotify
  BY <1>3, <1>5, <1>9, ChangedCardinality DEF Changed!DetectFanotify
<1>10. CASE Changed!DetectFixed
  BY <1>2, <1>10 DEF Changed!DetectFixed
<1> QED BY <1>6, <1>7, <1>8, <1>9, <1>10

LEMMA DetectReaddirHolds ==
  ASSUME ChangedInv, Changed!DetectReaddir
  PROVE  ChangedInv'
<1>1. PICK n \in 0..(IF tree THEN disk ELSE 0) :
        Changed!Take(Changed!AtLeastOne(n)) /\ UNCHANGED <<since, missed>>
  BY DEF Changed!DetectReaddir
<1>2. method # "qemu" /\ n \in Nat
  BY DEF Changed!DetectReaddir, ChangedInv
<1>3. Changed!AtLeastOne(n) \in Seq(RangesOf(method))
  BY <1>2, PrefixIs
<1> QED BY <1>1, <1>3, TakeHolds

LEMMA DetectQemuHolds ==
  ASSUME ChangedInv, Changed!DetectQemu \/ Changed!DumpQemuDirtyBitmap
  PROVE  ChangedInv'
<1>1. method = "qemu" /\ <<>> \in Seq(RangesOf(method))
  BY NoRanges DEF Changed!DetectQemu, Changed!DumpQemuDirtyBitmap
<1>2. CASE Changed!Take(<<>>) /\ UNCHANGED <<since, missed>>
  BY <1>1, <1>2, TakeHolds
<1>3. CASE Changed!Report(<<>>)
  BY <1>1, <1>3, ReportHolds
<1>4. ASSUME NEW dirty \in Changed!SetToSeqs(since),
             Changed!Take([i \in DOMAIN dirty |-> [offset |-> dirty[i] - 1, size |-> 1]]),
             UNCHANGED <<since, missed>>
      PROVE  ChangedInv'
  <2> DEFINE ranges ==
               [i \in DOMAIN dirty |-> [offset |-> dirty[i] - 1, size |-> 1]]
  <2>1. Cardinality(since) \in Nat /\ since \in SUBSET (1..disk) /\ disk \in Nat
    BY SinceIsFinite DEF ChangedInv, Changed!Blocks
  <2>2. dirty \in [1..Cardinality(since) -> since]
    BY ChangedCardinality DEF Changed!SetToSeqs
  <2>3. ASSUME NEW i \in DOMAIN dirty
        PROVE  [offset |-> dirty[i] - 1, size |-> 1] \in RangesOf(method)
    <3>1. dirty[i] \in 1..disk
      BY <2>1, <2>2
    <3>2. dirty[i] - 1 \in Nat /\ 1 \in 0..(Wrap - 1)
      BY <2>1, <3>1, ChangedFacts
    <3> QED BY <1>1, <3>2 DEF RangesOf
  <2>4. ranges \in [1..Cardinality(since) -> RangesOf(method)]
    BY <2>2, <2>3
  <2> HIDE DEF ranges
  <2>5. ranges \in Seq(RangesOf(method))
    BY <2>1, <2>4, FunctionIsSeq
  <2> QED BY <1>4, <2>5, TakeHolds DEF ranges
<1>5. CASE Changed!DetectQemu
  BY <1>2, <1>3, <1>5 DEF Changed!DetectQemu
<1>6. CASE Changed!DumpQemuDirtyBitmap
  BY <1>2, <1>4, <1>6 DEF Changed!DumpQemuDirtyBitmap
<1> QED BY <1>5, <1>6

LEMMA ClearHolds ==
  ASSUME ChangedInv, Changed!ClearQemuDirtyBitmap
  PROVE  ChangedInv'
<1>1. /\ method = "qemu" /\ since' = {}
      /\ missed' = missed \cup (since \ (saved \cup Changed!Covered(held)))
      /\ UNCHANGED <<method, disk, marked, saved, held>>
      /\ Changed!Blocks' = Changed!Blocks /\ Changed!Covered(held)' = Changed!Covered(held)
      /\ Changed!Sorted(held)' = Changed!Sorted(held)
  BY DEF Changed!ClearQemuDirtyBitmap, Changed!Blocks, Changed!Covered,
     Changed!Cover, Changed!Sorted
<1>2. Changed!Blocks' \ (since' \cup saved' \cup Changed!Covered(held)')
          \subseteq missed'
  BY <1>1 DEF ChangedInv, Changed!ChangesAreKept
<1>3. Changed!ChangesAreKept'
  BY <1>1, <1>2 DEF Changed!ChangesAreKept
<1> QED BY <1>1, <1>3 DEF ChangedInv

LEMMA ReadHolds ==
  ASSUME ChangedInv, Changed!Read
  PROVE  ChangedInv'
<1> DEFINE got == Changed!ReadChangedBlocks(held)
<1>1. /\ held' = <<>> /\ Changed!Blocks' = Changed!Blocks
      /\ UNCHANGED <<method, disk, since>>
      /\ \/ saved' = saved /\ missed' = missed \cup (Changed!Covered(held) \cap Changed!Blocks)
         \/ saved' = saved \ got /\ missed' = missed \cup got
         \/ saved' = saved \cup got /\ missed' = missed \ got
  BY DEF Changed!Read, Changed!Blocks
<1>2. /\ disk \in Nat /\ held \in Seq(RangesOf(method)) /\ Changed!Sorted(held)
      /\ Changed!Blocks \ (since \cup saved \cup Changed!Covered(held)) \subseteq missed
      /\ since \subseteq Changed!Blocks
  BY DEF ChangedInv, Changed!ChangesAreKept
<1>3. \A b \in Changed!Blocks : b \in Changed!Covered(held) => b \in got
  BY <1>2, ReadCovers
<1> HIDE DEF got
<1>4. /\ held' \in Seq(RangesOf(method')) /\ Changed!Sorted(held)'
      /\ Changed!Covered(held)' = {}
  BY <1>1, NoRanges
<1>5. Changed!Blocks' \ (since' \cup saved' \cup Changed!Covered(held)') \subseteq missed'
  <2>1. CASE saved' = saved /\ missed' = missed \cup (Changed!Covered(held) \cap Changed!Blocks)
    BY <1>1, <1>2, <1>4, <2>1
  <2>2. CASE saved' = saved \ got /\ missed' = missed \cup got
    BY <1>1, <1>2, <1>3, <1>4, <2>2
  <2>3. CASE saved' = saved \cup got /\ missed' = missed \ got
    BY <1>1, <1>2, <1>3, <1>4, <2>3
  <2> QED BY <1>1, <2>1, <2>2, <2>3
<1>6. Changed!ChangesAreKept'
  BY <1>5 DEF Changed!ChangesAreKept
<1> QED BY <1>1, <1>2, <1>4, <1>6 DEF ChangedInv

LEMMA DropHolds ==
  ASSUME ChangedInv, Changed!Drop \/ Changed!Restart
  PROVE  ChangedInv'
<1>1. /\ held' = <<>> /\ Changed!Blocks' = Changed!Blocks
      /\ UNCHANGED <<method, disk, since, saved>>
      /\ missed' = missed \cup (Changed!Covered(held) \cap Changed!Blocks)
  BY DEF Changed!Drop, Changed!Restart, Changed!Blocks
<1>2. /\ held' \in Seq(RangesOf(method')) /\ Changed!Sorted(held)'
      /\ Changed!Covered(held)' = {}
  BY <1>1, NoRanges
<1>3. Changed!Blocks \ (since \cup saved \cup Changed!Covered(held)) \subseteq missed
  BY DEF ChangedInv, Changed!ChangesAreKept
<1>5. Changed!Blocks' \ (since' \cup saved' \cup Changed!Covered(held)') \subseteq missed'
  BY <1>1, <1>2, <1>3
<1>6. Changed!ChangesAreKept'
  BY <1>5 DEF Changed!ChangesAreKept
<1> QED BY <1>1, <1>2, <1>6 DEF ChangedInv

LEMMA ShrinkHolds ==
  ASSUME ChangedInv, Changed!Shrink \/ \E b \in Changed!Blocks : Changed!Change(b)
  PROVE  ChangedInv'
<1>1. /\ held \in Seq(RangesOf(method)) /\ Changed!Sorted(held) /\ disk \in Nat
      /\ since \subseteq Changed!Blocks
      /\ Changed!Blocks \ (since \cup saved \cup Changed!Covered(held)) \subseteq missed
  BY DEF ChangedInv, Changed!ChangesAreKept
<1>2. /\ UNCHANGED <<method, held>>
      /\ Changed!Covered(held)' = Changed!Covered(held) /\ Changed!Sorted(held)' = Changed!Sorted(held)
  BY DEF Changed!Shrink, Changed!Change, Changed!Covered, Changed!Cover,
     Changed!Sorted
<1>3. CASE Changed!Shrink
  <2>1. /\ method = "qemu" /\ disk' = disk - 1 /\ disk > 1
        /\ since' = since \ {disk} /\ saved' = saved \ {disk}
        /\ missed' = missed \ {disk}
    BY <1>3 DEF Changed!Shrink
  <2>2. Changed!Blocks' = Changed!Blocks \ {disk} /\ disk' \in Nat
    BY <1>1, <2>1 DEF Changed!Blocks
  <2>3. Changed!Blocks' \ (since' \cup saved' \cup Changed!Covered(held)')
          \subseteq missed'
    BY <1>1, <1>2, <2>1, <2>2
  <2>4. Changed!ChangesAreKept'
    BY <1>2, <2>1, <2>3 DEF Changed!ChangesAreKept
  <2> QED BY <1>1, <1>2, <2>1, <2>2, <2>4 DEF ChangedInv
<1>4. ASSUME NEW b \in Changed!Blocks, Changed!Change(b) PROVE ChangedInv'
  <2>1. /\ since' = since \cup {b} /\ saved' = saved \ {b} /\ disk' = disk
        /\ missed' = missed \ {b}
        /\ Changed!Blocks' = Changed!Blocks
    BY <1>4 DEF Changed!Change, Changed!Blocks
  <2>2. Changed!Blocks' \ (since' \cup saved' \cup Changed!Covered(held)')
          \subseteq missed'
    BY <1>1, <1>2, <2>1
  <2>3. Changed!ChangesAreKept'
    BY <1>1, <1>2, <2>1, <2>2 DEF Changed!ChangesAreKept
  <2> QED BY <1>1, <1>2, <2>1, <2>3 DEF ChangedInv
<1> QED BY <1>3, <1>4

LEMMA ChangedStepHolds ==
  ChangedInv /\ (Changed!Next \/ UNCHANGED changedVars) => ChangedInv'
<1> SUFFICES ASSUME ChangedInv, Changed!Next \/ UNCHANGED changedVars PROVE ChangedInv'
  OBVIOUS
<1>1. CASE UNCHANGED changedVars
  BY <1>1 DEF changedVars, ChangedInv, Changed!ChangesAreKept, Changed!Blocks,
     Changed!Covered, Changed!Cover, Changed!Sorted
<1>2. CASE \/ Changed!DetectTarIncremental \/ Changed!DetectSnapshot \/ Changed!DetectStatus
           \/ Changed!DetectFanotify \/ Changed!DetectFixed
  BY <1>2, DetectHolds
<1>3. CASE Changed!DetectReaddir \/ Changed!DetectQemu \/ Changed!DumpQemuDirtyBitmap
           \/ Changed!ClearQemuDirtyBitmap
  BY <1>3, DetectReaddirHolds, DetectQemuHolds, ClearHolds
<1>4. CASE Changed!Read \/ Changed!Drop \/ Changed!Restart \/ Changed!Shrink \/ \E b \in Changed!Blocks : Changed!Change(b)
  BY <1>4, ReadHolds, DropHolds, ShrinkHolds
<1> QED BY <1>1, <1>2, <1>3, <1>4 DEF Changed!Next

-----------------------------------------------------------------------------
(* The change of a block is awaiting detection, held or saved, unless a    *)
(* marker moved past that very change, it was dropped, or read as nothing  *)
(* or zeros, whatever ranges are joined and in whichever order those that  *)
(* begin at one place are sorted; and a tracker tells what it was told:    *)
(* ChangesAreKept, for every size of the source and width of a range.      *)
(* BitmapInv has the latter part as a conjunct.                            *)
THEOREM ChangesAreKeptHolds == Spec => []ChangesAreKept
<1>1. Init => ChangedInv /\ BitmapInv
  BY ChangedStarts, BitmapInitHolds DEF Init
<1>2. ChangedInv /\ BitmapInv /\ [Next]_vars => ChangedInv' /\ BitmapInv'
  BY ChangedMoves, ChangedStepHolds, BitmapMoves, BitmapStepHolds
<1>3. ChangedInv /\ BitmapInv => ChangesAreKept
  BY DEF ChangedInv, BitmapInv, ChangesAreKept
<1> QED BY <1>1, <1>2, <1>3, PTL DEF Spec
=============================================================================
