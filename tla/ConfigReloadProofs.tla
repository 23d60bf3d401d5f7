-------------------------- MODULE ConfigReloadProofs --------------------------
(***************************************************************************)
(* What the watcher guarantees, for any files and any number of saves: a   *)
(* permission comes only with a configuration that was validated, and no   *)
(* notified change is lost.                                                *)
(*                                                                         *)
(* The watcher works on copies, so the invariant speaks of them: what      *)
(* waits for the write lock was validated or grants nothing new, and as    *)
(* long as no notification is waiting it was made of the file as it is.    *)
(*                                                                         *)
(* Then, what a dispatch does: the plan is what sorting and the loop over  *)
(* the bindings make of them, and of the steps that the configuration      *)
(* wants each was made, still waits or was stopped by an earlier one.      *)
(***************************************************************************)
EXTENDS ConfigReload, FiniteSetTheorems, SequenceTheorems, WellFoundedInduction, TLAPS

Files == Startups \cup Contents \cup {Empty, Missing}

Types ==
    /\ file \in Files
    /\ saving \in Contents \cup {None}
    /\ notified \in Nat
    /\ daemon = "loading" => watcher = "off"

\* The state s is that of file f, or at least as strict.
Reflects(s, f) ==
    IF ProvidersValid(f) THEN s = StateOf(f, f.permits, TRUE)
    ELSE s.permits \subseteq f.permits

GrantsAreValid ==
    watcher = "installing" =>
        ProvidersValid(pending) \/ pending.permits \subseteq runtime.permits

NothingLost ==
    notified = 0 /\ ~missed /\ file.parses =>
       /\ watcher = "installing" => Reflects(pending, file)
       /\ watcher = "waiting" => Reflects(runtime, file)
       /\ watcher = "off" /\ daemon = "up" => Reflects(runtime, file)

IInv == Types /\ GrantsAreValid /\ NothingLost

-----------------------------------------------------------------------------
LEMMA InvInit == Init => IInv
  BY DEF Init, IInv, Types, Files, GrantsAreValid, NothingLost

\* The providers of a state are those of the file it is made of.
LEMMA ValidState ==
    ASSUME NEW f, NEW validated
    PROVE  ProvidersValid(StateOf(f, f.permits, validated)) <=> ProvidersValid(f)
  BY DEF ProvidersValid, StateOf

\* What is accepted of a file reflects it and grants nothing that was not
\* validated; what is not accepted was reflected before.
LEMMA AcceptedReflects ==
    ASSUME NEW f \in Files, f.parses
    PROVE  /\ Accepted(f) # None =>
                 /\ Reflects(Accepted(f), f)
                 /\ \/ ProvidersValid(Accepted(f))
                    \/ Accepted(f).permits \subseteq runtime.permits
           /\ Accepted(f) = None => Reflects(runtime, f)
<1>1. f \in Startups \cup Contents \cup {Empty} /\ f.permits \subseteq Permissions
  BY ContentAssumption DEF Files, Missing, Empty, IsContent
<1>2. CASE ProvidersValid(f)
  <2>1. Accepted(f) = StateOf(f, f.permits, TRUE)
    BY <1>2 DEF Accepted
  <2>2. Accepted(f) # None
    BY <1>1, <2>1, NoneAssumption
  <2> QED
    BY <1>2, <2>1, <2>2, ValidState DEF Reflects
<1>3. CASE ~ProvidersValid(f) /\ MoreRestrictive(runtime.permits, f.permits)
  <2> DEFINE kept == FailClosed(runtime.permits, f.permits)
  <2>1. Accepted(f) = StateOf(f, kept, FALSE)
    BY <1>3 DEF Accepted
  <2>2. kept \subseteq runtime.permits /\ kept \subseteq f.permits
    BY DEF FailClosed
  <2>3. Accepted(f) # None
    BY <1>1, <2>1, <2>2, NoneAssumption
  <2>4. Accepted(f).permits = kept
    BY <2>1 DEF StateOf
  <2> QED
    BY <1>3, <2>2, <2>3, <2>4 DEF Reflects
<1>4. CASE ~ProvidersValid(f) /\ ~MoreRestrictive(runtime.permits, f.permits)
  BY <1>4 DEF Accepted, MoreRestrictive, Reflects
<1> QED
  BY <1>2, <1>3, <1>4

LEMMA BecomesStep ==
    ASSUME IInv, NEW f \in Files, Becomes(f), saving' \in Contents \cup {None}
    PROVE  IInv'
<1> USE DEF Becomes, Watched, IInv
<1>1. Types'
  BY DEF Types
<1>2. GrantsAreValid'
  BY DEF GrantsAreValid, ProvidersValid
<1>3. NothingLost'
  <2>1. CASE Watched
    <3>1. notified' # 0
      BY <2>1 DEF Types
    <3> QED
      BY <3>1 DEF NothingLost
  <2>2. CASE ~Watched
    <3>1. missed'
      BY <2>2, Zenon
    <3> QED
      BY <3>1 DEF NothingLost
  <2> QED
    BY <2>1, <2>2
<1> QED
  BY <1>1, <1>2, <1>3

LEMMA LoadFileStep ==
    ASSUME IInv, LoadFile
    PROVE  IInv'
<1> USE DEF LoadFile, fileVars, IInv
<1>1. Types'
  BY DEF Types
<1>2. pending' # None => file.parses
  BY DEF Accepted
<1>3. GrantsAreValid'
  BY <1>2, AcceptedReflects DEF Types, GrantsAreValid
<1>4. NothingLost'
  BY AcceptedReflects DEF Types, NothingLost
<1> QED
  BY <1>1, <1>3, <1>4

LEMMA StartStep == ASSUME IInv, Start PROVE IInv'
<1> USE DEF Start, fileVars, IInv
<1>1. Types'
  BY DEF Types
<1>2. GrantsAreValid'
  BY DEF Types, GrantsAreValid
<1>3. NothingLost'
  BY DEF Types, NothingLost, Reflects
<1> QED
  BY <1>1, <1>2, <1>3

LEMMA InstallStep == ASSUME IInv, Install PROVE IInv'
<1> USE DEF Install, fileVars, IInv
<1>1. Types'
  BY DEF Types
<1>2. GrantsAreValid'
  BY DEF GrantsAreValid
<1>3. NothingLost'
  BY DEF NothingLost
<1> QED
  BY <1>1, <1>2, <1>3

LEMMA RegisterStep == ASSUME IInv, Register PROVE IInv'
  BY DEF Register, fileVars, IInv, Types, GrantsAreValid, NothingLost

LEMMA ReceiveStep == ASSUME IInv, Receive PROVE IInv'
  BY DEF Receive, IInv, Types, GrantsAreValid, NothingLost

LEMMA DeleteStep == ASSUME IInv, Delete PROVE IInv'
<1>1. ~Missing.parses
  BY Zenon DEF Missing, Empty
<1> QED
  BY <1>1 DEF Delete, MaySave, IInv, Types, Files, GrantsAreValid, NothingLost

LEMMA DispatchStep == ASSUME IInv, Dispatch PROVE IInv'
<1>1. UNCHANGED <<file, saving, notified, missed, daemon, watcher, pending, runtime>>
  BY DEF Dispatch, BeginDispatch, ExecuteAction, Report, EndDispatch, fileVars
<1> QED
  BY <1>1 DEF IInv, Types, GrantsAreValid, NothingLost

LEMMA InvStep == IInv /\ [Next]_vars => IInv'
<1> SUFFICES ASSUME IInv, [Next]_vars PROVE IInv'
  OBVIOUS
<1>1. CASE Rename
  BY <1>1, BecomesStep DEF Rename, IInv, Types, Files
<1>2. CASE Truncate
  BY <1>2, BecomesStep DEF Truncate, Files
<1>3. CASE Fill
  BY <1>3, BecomesStep DEF Fill, IInv, Types, Files
<1>4. CASE UNCHANGED vars
  BY <1>4 DEF vars, fileVars, IInv, Types, GrantsAreValid, NothingLost
<1> QED
  BY <1>1, <1>2, <1>3, <1>4, DeleteStep, StartStep, RegisterStep, ReceiveStep,
     LoadFileStep, InstallStep, DispatchStep
  DEF Next

LEMMA InvAlways == Spec => []IInv
  BY InvInit, InvStep, PTL DEF Spec

-----------------------------------------------------------------------------
\* No notified change of the configuration file is lost, however the watcher's
\* 100 ms, its wait for the write lock and the saves fall.
THEOREM NoChangeIsLost == Spec => []QuietMeansCurrent
<1>1. IInv => QuietMeansCurrent
  BY DEF IInv, NothingLost, Reflects, QuietMeansCurrent
<1> QED
  BY <1>1, InvAlways, PTL

\* fail_closed_security never grants: a permission is added to the running
\* daemon only together with bindings that were validated under it.
THEOREM GrantsAreValidated == Spec => PermissionsAreValidated
<1>1. ASSUME IInv, [Next]_vars, ~(runtime'.permits \subseteq runtime.permits)
      PROVE  ProvidersValid(runtime')
  <2>1. runtime' # runtime
    BY <1>1
  <2>2. CASE Start
    BY <2>1, <2>2, ValidState DEF Start
  <2>3. CASE Install
    BY <1>1, <2>3 DEF Install, IInv, GrantsAreValid
  <2>4. Start \/ Install
    BY <1>1, <2>1
    DEF Next, vars, Rename, Truncate, Fill, Delete, Becomes, Register, Receive,
        LoadFile, Dispatch, BeginDispatch, ExecuteAction, Report, EndDispatch
  <2> QED
    BY <2>2, <2>3, <2>4
<1> QED
  BY <1>1, InvAlways, PTL DEF Spec, PermissionsAreValidated

-----------------------------------------------------------------------------
(***************************************************************************)
(* The order of the bindings.                                              *)
(***************************************************************************)
Sortable(S) ==
    /\ IsFiniteSet(S)
    /\ \A b \in S : b.id \in Nat /\ b.priority \in Int
    /\ \A a, b \in S : a.id = b.id => a = b

\* The higher of two bindings has the smaller rank.
LEMMA RankOrders ==
    ASSUME NEW S, Sortable(S)
    PROVE  /\ \A b \in S : Rank(b, S) \in 1 .. Cardinality(S)
           /\ \A a, b \in S : Before(a, b) => Rank(a, S) < Rank(b, S)
           /\ \A a, b \in S : a # b => Rank(a, S) # Rank(b, S)
<1> DEFINE Above(b) == {a \in S : Before(a, b)}
<1>1. ASSUME NEW b \in S
      PROVE  /\ Above(b) \subseteq S /\ b \notin Above(b)
             /\ IsFiniteSet(Above(b)) /\ Cardinality(Above(b)) \in Nat
             /\ Rank(b, S) = Cardinality(Above(b)) + 1
  <2>1. Above(b) \subseteq S /\ b \notin Above(b)
    BY DEF Sortable, Before
  <2> QED
    BY <2>1, FS_Subset, FS_CardinalityType DEF Sortable, Rank
<1>2. ASSUME NEW a \in S, NEW b \in S, Before(a, b)
      PROVE  Above(a) \subseteq Above(b) /\ a \in Above(b)
    BY <1>2 DEF Sortable, Before
<1> HIDE DEF Above
<1>3. ASSUME NEW b \in S PROVE Rank(b, S) \in 1 .. Cardinality(S)
  <2>1. Cardinality(Above(b)) <= Cardinality(S) /\ Cardinality(S) \in Nat
    BY <1>1, FS_Subset, FS_CardinalityType DEF Sortable
  <2>2. Cardinality(Above(b)) # Cardinality(S)
    BY <1>1, FS_Subset, Zenon DEF Sortable
  <2> QED
    BY <1>1, <2>1, <2>2
<1>4. ASSUME NEW a \in S, NEW b \in S, Before(a, b)
      PROVE  Rank(a, S) < Rank(b, S)
  <2>1. Cardinality(Above(a)) <= Cardinality(Above(b))
    BY <1>1, <1>2, <1>4, FS_Subset
  <2>2. Cardinality(Above(a)) # Cardinality(Above(b))
    <3>1. Above(a) # Above(b)
      BY <1>1, <1>2, <1>4
    <3> QED
      BY <1>1, <1>2, <1>4, <3>1, FS_Subset, Zenon
  <2> QED
    BY <1>1, <2>1, <2>2
<1>5. ASSUME NEW a \in S, NEW b \in S, a # b
      PROVE  Rank(a, S) # Rank(b, S)
  <2>1. Before(a, b) \/ Before(b, a)
    BY <1>5 DEF Sortable, Before
  <2>2. Rank(a, S) \in Int /\ Rank(b, S) \in Int
    BY <1>1
  <2> QED
    BY <1>4, <2>1, <2>2
<1> QED
  BY <1>3, <1>4, <1>5

\* InOrder lists a set by rank.
LEMMA InOrderSorts ==
    ASSUME NEW S, Sortable(S)
    PROVE  /\ Cardinality(S) \in Nat
           /\ InOrder(S) \in [1 .. Cardinality(S) -> S]
           /\ \A b \in S : \E n \in 1 .. Cardinality(S) : InOrder(S)[n] = b
           /\ \A i, j \in 1 .. Cardinality(S) :
                 i < j <=> Before(InOrder(S)[i], InOrder(S)[j])
<1> DEFINE N == Cardinality(S)
           rank == [b \in S |-> Rank(b, S)]
<1>1. N \in Nat
  BY FS_CardinalityType DEF Sortable
<1>2. rank \in Injection(S, 1 .. N)
  <2>1. rank \in [S -> 1 .. N]
    BY RankOrders
  <2>2. IsInjective(rank)
    BY RankOrders, Zenon DEF IsInjective
  <2> QED
    BY <2>1, <2>2 DEF Injection
<1>3. IsFiniteSet(1 .. N) /\ Cardinality(1 .. N) = N
  BY <1>1, FS_Interval
<1>4. rank \in Surjection(S, 1 .. N)
  BY <1>2, <1>3, FS_Injection
<1>5. ASSUME NEW n \in 1 .. N
      PROVE  InOrder(S)[n] \in S /\ Rank(InOrder(S)[n], S) = n
  <2>1. PICK b \in S : rank[b] = n
    BY <1>4 DEF Surjection
  <2>2. Rank(b, S) = n
    BY <2>1
  <2>3. InOrder(S)[n] = CHOOSE c \in S : Rank(c, S) = n
    BY DEF InOrder
  <2> QED
    BY <2>2, <2>3, Zenon
<1>6. InOrder(S) \in [1 .. N -> S]
  BY <1>5 DEF InOrder
<1>7. ASSUME NEW b \in S PROVE \E n \in 1 .. N : InOrder(S)[n] = b
  <2>1. Rank(b, S) \in 1 .. N
    BY RankOrders
  <2> QED
    BY <1>5, <2>1, RankOrders, Zenon
<1>8. ASSUME NEW i \in 1 .. N, NEW j \in 1 .. N
      PROVE  i < j <=> Before(InOrder(S)[i], InOrder(S)[j])
  <2> DEFINE a == InOrder(S)[i]
             b == InOrder(S)[j]
  <2>1. a \in S /\ b \in S /\ Rank(a, S) = i /\ Rank(b, S) = j
    BY <1>5
  <2> HIDE DEF a, b
  <2>2. CASE i < j
    <3>1. a # b /\ ~Before(b, a)
      BY <2>1, <2>2, RankOrders
    <3>2. Before(a, b)
      BY <2>1, <3>1 DEF Sortable, Before
    <3> QED
      BY <2>2, <3>2 DEF a, b
  <2>3. CASE ~(i < j)
    <3>1. ~Before(a, b)
      BY <2>1, <2>3, RankOrders
    <3> QED
      BY <2>3, <3>1 DEF a, b
  <2> QED
    BY <2>2, <2>3
<1> QED
  BY <1>1, <1>6, <1>7, <1>8

-----------------------------------------------------------------------------
(***************************************************************************)
(* The loop of Engine::plan.                                               *)
(***************************************************************************)
\* A set of numbers that has 0 and with n also n + 1 has every number.
LEMMA Induction ==
    ASSUME NEW A, A \subseteq Nat, 0 \in A, \A n \in A : n + 1 \in A
    PROVE  A = Nat
<1> DEFINE T == Nat \ A
<1> SUFFICES ASSUME T # {} PROVE FALSE
  OBVIOUS
<1>1. PICK m \in T : \A n \in T : ~(<<n, m>> \in OpToRel(<, Nat))
  BY WFMin, NatLessThanWellFounded, Zenon
<1>2. m # 0 /\ m - 1 \in Nat /\ m - 1 \notin A
  <2>1. m \in Nat /\ m # 0
    OBVIOUS
  <2>2. m - 1 \in A => (m - 1) + 1 \in A
    OBVIOUS
  <2> QED
    BY <2>1, <2>2
<1>3. <<m - 1, m>> \in OpToRel(<, Nat)
  BY <1>2 DEF OpToRel
<1> QED
  BY <1>1, <1>2, <1>3

LEMMA MaxOf ==
    ASSUME NEW N \in Nat, NEW U \in SUBSET (1 .. N), U # {}
    PROVE  Max(U) \in U /\ \A u \in U : u <= Max(U)
<1> DEFINE T == {n \in Nat : \A u \in U : u <= n}
<1>1. N \in T
  OBVIOUS
<1>2. PICK m \in T : \A n \in T : ~(<<n, m>> \in OpToRel(<, Nat))
  BY <1>1, WFMin, NatLessThanWellFounded, Zenon
<1>3. m \in U
  <2>1. SUFFICES ASSUME m \notin U PROVE FALSE
    OBVIOUS
  <2>2. m - 1 \in T
    <3>1. PICK u \in U : TRUE
      OBVIOUS
    <3>2. u \in 1 .. N /\ u <= m /\ u # m /\ m \in Nat
      BY <2>1
    <3>3. m - 1 \in Nat
      BY <3>2
    <3>4. ASSUME NEW v \in U PROVE v <= m - 1
      BY <2>1, <3>2
    <3> QED
      BY <3>3, <3>4
  <2>3. <<m - 1, m>> \in OpToRel(<, Nat)
    BY <2>2 DEF OpToRel
  <2> QED
    BY <1>2, <2>2, <2>3
<1>4. \A u \in U : m >= u
  OBVIOUS
<1>5. Max(U) \in U /\ \A u \in U : Max(U) >= u
  BY <1>3, <1>4, Zenon DEF Max
<1> QED
  BY <1>5

\* What FoldLeft is defined by, for Consider.
Folds(iter, s, D) ==
    iter = [U \in D |-> IF U = {} THEN EmptyPlan
                        ELSE Consider(iter[U \ {Max(U)}], s[Max(U)])]

LEMMA ExistsFold ==
    ASSUME NEW N \in Nat, NEW s
    PROVE  \E iter : Folds(iter, s, SUBSET (1 .. N))
<1> DEFINE D(n) == SUBSET (1 .. n)
           A == {n \in Nat : \E iter : Folds(iter, s, D(n))}
<1>0. ASSUME NEW n \in Nat, NEW U \in D(n + 1), U # {}
      PROVE  U \ {Max(U)} \in D(n)
  <2>1. n + 1 \in Nat
    OBVIOUS
  <2>2. Max(U) \in U /\ \A u \in U : u <= Max(U)
    BY <1>0, <2>1, MaxOf
  <2>3. U \subseteq 1 .. (n + 1)
    OBVIOUS
  <2> DEFINE m == Max(U)
  <2> HIDE DEF m
  <2>4. ASSUME NEW u \in U, u # m PROVE u \in 1 .. n
    <3>1. m \in 1 .. (n + 1) /\ u \in 1 .. (n + 1) /\ u <= m
      BY <2>2, <2>3 DEF m
    <3> QED
      BY <2>4, <3>1
  <2> QED
    BY <2>4 DEF m
<1>1. 0 \in A
  <2> DEFINE g == [U \in D(0) |-> EmptyPlan]
  <2>1. D(0) = {{}}
    OBVIOUS
  <2>2. Folds(g, s, D(0))
    BY <2>1 DEF Folds
  <2> QED
    BY <2>2
<1>2. ASSUME NEW n \in A PROVE n + 1 \in A
  <2>1. PICK g : Folds(g, s, D(n))
    BY <1>2
  <2> DEFINE h == [U \in D(n + 1) |-> IF U = {} THEN EmptyPlan
                                      ELSE Consider(g[U \ {Max(U)}], s[Max(U)])]
  <2>2. ASSUME NEW U \in D(n) PROVE U \in D(n + 1) /\ h[U] = g[U]
    <3>1. U \in D(n + 1)
      OBVIOUS
    <3> QED
      BY <2>1, <3>1, Zenon DEF Folds
  <2>3. ASSUME NEW U \in D(n + 1), U # {}
        PROVE  g[U \ {Max(U)}] = h[U \ {Max(U)}]
    BY <1>0, <2>2, <2>3, Zenon
  <2>4. Folds(h, s, D(n + 1))
    BY <2>3, Zenon DEF Folds
  <2> HIDE DEF h
  <2>5. \E iter : Folds(iter, s, D(n + 1))
    BY <2>4
  <2> HIDE DEF D
  <2> QED
    BY <2>5
<1>3. A = Nat
  BY <1>1, <1>2, Induction, Zenon
<1> QED
  BY <1>3

\* The plan after each of the bindings.
LEMMA PlanGrows ==
    ASSUME NEW N \in Nat, NEW s, DOMAIN s = 1 .. N
    PROVE  \E p : /\ p[0] = EmptyPlan
                  /\ \A n \in 1 .. N : p[n] = Consider(p[n - 1], s[n])
                  /\ p[N] = FoldLeft(Consider, EmptyPlan, s)
<1> DEFINE D == SUBSET (1 .. N)
           iter == CHOOSE iter : Folds(iter, s, D)
           p == [n \in 0 .. N |-> iter[1 .. n]]
<1>1. Folds(iter, s, D)
  BY ExistsFold, Zenon
<1>2. FoldLeft(Consider, EmptyPlan, s) = iter[1 .. N]
  BY Zenon DEF FoldLeft, MapThenFoldSet, Folds
<1> HIDE DEF iter
<1>3. p[0] = EmptyPlan
  <2>1. 1 .. 0 = {} /\ {} \in D
    OBVIOUS
  <2>2. iter[{}] = EmptyPlan
    BY <1>1, <2>1, Zenon DEF Folds
  <2> QED
    BY <2>1, <2>2
<1>4. ASSUME NEW n \in 1 .. N
      PROVE  p[n] = Consider(p[n - 1], s[n])
  <2> DEFINE U == 1 .. n
  <2>1. U \in D /\ U # {}
    <3>1. n \in U /\ U \subseteq 1 .. N
      OBVIOUS
    <3> QED
      BY <3>1
  <2>2. Max(U) \in U /\ \A u \in U : u <= Max(U)
    BY <2>1, MaxOf, Zenon
  <2>3. Max(U) = n
    BY <2>2
  <2>4. U \ {n} = 1 .. (n - 1)
    OBVIOUS
  <2>5. iter[U] = Consider(iter[U \ {Max(U)}], s[Max(U)])
    BY <1>1, <2>1, Zenon DEF Folds
  <2>6. n \in 0 .. N /\ n - 1 \in 0 .. N
    OBVIOUS
  <2> QED
    BY <2>3, <2>4, <2>5, <2>6
<1>5. p[N] = iter[1 .. N]
  OBVIOUS
<1> HIDE DEF p
<1> QED
  BY <1>2, <1>3, <1>4, <1>5

Closes(b) == b.conditions = "met" /\ b.consume

\* No binding before place i consumes the event.
Open(s, i) == \A j \in 1 .. (i - 1) : ~Closes(s[j])

WellFormed(B) ==
    /\ IsFiniteSet(B)
    /\ \A b \in B : IsBinding(b)
    /\ \A a, b \in B : a.id = b.id => a = b

\* A plan is what the first n bindings say.
PlansTo(s, M, n, q) ==
    /\ q \in [bindings : Seq(M), open : BOOLEAN, failed : BOOLEAN]
    /\ q.failed <=> \E i \in 1 .. n : s[i].conditions = "error" /\ Open(s, i)
    /\ q.open <=> ~q.failed /\ Open(s, n + 1)
    /\ \A k \in 1 .. Len(q.bindings) : \E i \in 1 .. n : q.bindings[k] = s[i]
    /\ \A k, l \in 1 .. Len(q.bindings) : k < l => Before(q.bindings[k], q.bindings[l])
    /\ ~q.failed =>
          \A i \in 1 .. n : s[i].conditions = "met" /\ Open(s, i)
                               <=> \E k \in 1 .. Len(q.bindings) : q.bindings[k] = s[i]

LEMMA ConsiderNext ==
    ASSUME NEW M, WellFormed(M), NEW N \in Nat, NEW s \in [1 .. N -> M],
           \A i, j \in 1 .. N : i < j <=> Before(s[i], s[j]),
           NEW n \in 1 .. N, NEW q, PlansTo(s, M, n - 1, q)
    PROVE  PlansTo(s, M, n, Consider(q, s[n]))
<1> DEFINE b == s[n]
           r == Consider(q, b)
<1>1. /\ b \in M /\ b.consume \in BOOLEAN /\ b.conditions \in Verdicts
      /\ q \in [bindings : Seq(M), open : BOOLEAN, failed : BOOLEAN]
      /\ n - 1 \in Nat /\ n - 1 + 1 = n
  <2>1. b \in M
    OBVIOUS
  <2>2. b \in Bindings
    BY <2>1 DEF WellFormed, IsBinding
  <2>3. b.consume \in BOOLEAN /\ b.conditions \in Verdicts
    BY <2>2 DEF Bindings
  <2>4. q \in [bindings : Seq(M), open : BOOLEAN, failed : BOOLEAN]
    BY DEF PlansTo
  <2> QED
    BY <2>1, <2>3, <2>4
<1>2. \A i \in 1 .. n : i \in 1 .. (n - 1) \/ i = n
  OBVIOUS
<1>3. Open(s, n + 1) <=> Open(s, n) /\ ~Closes(b)
  <2>1. 1 .. (n + 1 - 1) = (1 .. (n - 1)) \cup {n}
    OBVIOUS
  <2> QED
    BY <2>1 DEF Open
<1>4. \A i \in 1 .. N : i # n => s[i] # b
  <2>1. ASSUME NEW i \in 1 .. N, i # n, s[i] = b PROVE FALSE
    <3>1. i < n \/ n < i
      BY <2>1
    <3>2. ~Before(b, b)
      BY <1>1 DEF Before, WellFormed, IsBinding, Bindings
    <3> QED
      BY <2>1, <3>1, <3>2
  <2> QED
    BY <2>1
<1> DEFINE Fails(m) == \E i \in 1 .. m : s[i].conditions = "error" /\ Open(s, i)
<1>7. Fails(n) <=> Fails(n - 1) \/ (b.conditions = "error" /\ Open(s, n))
  <2>1. 1 .. n = (1 .. (n - 1)) \cup {n}
    OBVIOUS
  <2> QED
    BY <2>1
<1>8. q.failed <=> Fails(n - 1)
  BY DEF PlansTo
<1> HIDE DEF Fails
<1>9. q.open <=> ~q.failed /\ Open(s, n)
  BY <1>1 DEF PlansTo
\* A plan with the same bindings.
<1>10. ASSUME NEW v \in [bindings : Seq(M), open : BOOLEAN, failed : BOOLEAN],
              v.bindings = q.bindings, ~v.failed => ~q.failed,
              v.failed <=> Fails(n), v.open <=> ~v.failed /\ Open(s, n + 1),
              ~v.failed => ~(b.conditions = "met" /\ Open(s, n))
       PROVE  PlansTo(s, M, n, v)
  <2>1. \A k \in 1 .. Len(q.bindings) : \E i \in 1 .. (n - 1) : q.bindings[k] = s[i]
    BY DEF PlansTo
  <2>2. \A k \in 1 .. Len(v.bindings) : \E i \in 1 .. n : v.bindings[k] = s[i]
    BY <1>10, <2>1
  <2>3. \A k \in 1 .. Len(q.bindings) : q.bindings[k] # b
    BY <1>4, <2>1
  <2>4. ASSUME ~v.failed, NEW i \in 1 .. n
        PROVE  s[i].conditions = "met" /\ Open(s, i)
                  <=> \E k \in 1 .. Len(v.bindings) : v.bindings[k] = s[i]
    <3>1. CASE i = n
      BY <1>10, <2>3, <2>4, <3>1
    <3>2. CASE i # n
      <4>1. i \in 1 .. (n - 1)
        BY <3>2
      <4> QED
        BY <1>10, <2>4, <4>1 DEF PlansTo
    <3> QED
      BY <3>1, <3>2
  <2>5. \A k, l \in 1 .. Len(v.bindings) : k < l => Before(v.bindings[k], v.bindings[l])
    BY <1>10 DEF PlansTo
  <2> QED
    BY <1>10, <2>2, <2>4, <2>5, Zenon DEF PlansTo, Fails
<1>5. CASE ~q.open
  <2>1. r = q
    BY <1>5, Zenon DEF Consider
  <2>2. q.failed <=> Fails(n)
    BY <1>5, <1>7, <1>8, <1>9
  <2>3. q.open <=> ~q.failed /\ Open(s, n + 1)
    BY <1>3, <1>5, <1>9
  <2>4. ~q.failed => ~(b.conditions = "met" /\ Open(s, n))
    BY <1>5, <1>9
  <2> QED
    BY <1>1, <1>10, <2>1, <2>2, <2>3, <2>4, Zenon
<1>6. CASE q.open
  <2>0. ~q.failed /\ Open(s, n)
    BY <1>6, <1>9
  <2>1. CASE b.conditions = "unmet"
    <3>1. r = q
      BY <2>1, Zenon DEF Consider
    <3>2. ~Closes(b)
      BY <2>1 DEF Closes
    <3>3. q.failed <=> Fails(n)
      BY <1>7, <1>8, <2>1
    <3>4. q.open <=> ~q.failed /\ Open(s, n + 1)
      BY <1>3, <1>6, <2>0, <3>2
    <3>5. b.conditions # "met"
      BY <2>1
    <3> QED
      BY <1>1, <1>10, <3>1, <3>3, <3>4, <3>5, Zenon
  <2>2. CASE b.conditions = "error"
    <3>1. r = [q EXCEPT !.open = FALSE, !.failed = TRUE]
      BY <1>6, <2>2 DEF Consider
    <3>2. /\ r \in [bindings : Seq(M), open : BOOLEAN, failed : BOOLEAN]
          /\ r.bindings = q.bindings /\ ~r.open /\ r.failed
      BY <1>1, <3>1
    <3>3. r.failed <=> Fails(n)
      BY <1>7, <2>0, <2>2, <3>2
    <3>4. r.open <=> ~r.failed /\ Open(s, n + 1)
      BY <3>2
    <3> HIDE DEF r
    <3>5. PlansTo(s, M, n, r)
      BY <1>10, <3>2, <3>3, <3>4, Zenon
    <3> QED
      BY <3>5 DEF r
  <2>3. CASE b.conditions = "met"
    <3>1. r = [q EXCEPT !.bindings = Append(q.bindings, b), !.open = ~b.consume]
      BY <1>6, <2>3 DEF Consider
    <3> DEFINE u == Append(q.bindings, b)
               L == Len(q.bindings)
    <3>2. /\ u \in Seq(M) /\ Len(u) = L + 1 /\ L \in Nat
          /\ \A k \in 1 .. L : u[k] = q.bindings[k]
          /\ u[L + 1] = b
      BY <1>1, AppendProperties, LenProperties
    <3> HIDE DEF u
    <3>3. /\ r \in [bindings : Seq(M), open : BOOLEAN, failed : BOOLEAN]
          /\ r.bindings = u /\ r.open = ~b.consume /\ ~r.failed
      BY <1>1, <2>0, <3>1, <3>2 DEF u
    <3>4. Closes(b) <=> b.consume
      BY <2>3 DEF Closes
    <3>5. r.failed <=> Fails(n)
      BY <1>7, <1>8, <2>0, <2>3, <3>3
    <3>6. r.open <=> ~r.failed /\ Open(s, n + 1)
      BY <1>3, <2>0, <3>3, <3>4
    <3> HIDE DEF r
    <3>7. \A k \in 1 .. Len(u) : k \in 1 .. L \/ k = L + 1
      BY <3>2
    <3>8. \A k \in 1 .. L : \E i \in 1 .. (n - 1) : u[k] = s[i]
      BY <3>2 DEF PlansTo
    <3>9. \A k \in 1 .. Len(u) : \E i \in 1 .. n : u[k] = s[i]
      BY <1>1, <1>2, <3>2, <3>7, <3>8
    <3>10. ASSUME NEW k \in 1 .. Len(u), NEW l \in 1 .. Len(u), k < l
           PROVE  Before(u[k], u[l])
      <4>1. CASE l \in 1 .. L
        <5>1. k \in 1 .. L
          BY <3>2, <3>10, <4>1
        <5> QED
          BY <3>2, <3>10, <4>1, <5>1 DEF PlansTo
      <4>2. CASE l = L + 1
        <5>1. k \in 1 .. L
          BY <3>2, <3>10, <4>2
        <5>2. PICK i \in 1 .. (n - 1) : u[k] = s[i]
          BY <3>8, <5>1
        <5>3. i \in 1 .. N /\ i < n
          OBVIOUS
        <5> QED
          BY <3>2, <4>2, <5>2, <5>3
      <4> QED
        BY <3>7, <4>1, <4>2
    <3>11. ASSUME NEW i \in 1 .. n
           PROVE  s[i].conditions = "met" /\ Open(s, i)
                     <=> \E k \in 1 .. Len(u) : u[k] = s[i]
      <4>1. CASE i = n
        <5>1. L + 1 \in 1 .. Len(u)
          BY <3>2
        <5> QED
          BY <2>0, <2>3, <3>2, <4>1, <5>1
      <4>2. CASE i # n
        <5>1. i \in 1 .. (n - 1) /\ i \in 1 .. N
          BY <4>2
        <5>2. (\E k \in 1 .. Len(u) : u[k] = s[i]) <=> (\E k \in 1 .. L : q.bindings[k] = s[i])
          <6>1. s[i] # b
            BY <1>4, <4>2, <5>1
          <6>2. 1 .. Len(u) = (1 .. L) \cup {L + 1}
            BY <3>2
          <6> QED
            BY <3>2, <6>1, <6>2
        <5> QED
          BY <2>0, <5>1, <5>2 DEF PlansTo
      <4> QED
        BY <4>1, <4>2
    <3>12. \A i \in 1 .. n : s[i].conditions = "met" /\ Open(s, i)
                                <=> \E k \in 1 .. Len(u) : u[k] = s[i]
      BY <3>11
    <3>13. \A k, l \in 1 .. Len(u) : k < l => Before(u[k], u[l])
      BY <3>10
    <3>14. PlansTo(s, M, n, r)
      BY <3>3, <3>5, <3>6, <3>9, <3>12, <3>13, Zenon DEF PlansTo, Fails
    <3> QED
      BY <3>14 DEF r
  <2> QED
    BY <1>1, <2>1, <2>2, <2>3 DEF Verdicts
<1> QED
  BY <1>5, <1>6

\* What no binding of higher rank keeps the event from.
InReach(B) ==
    {b \in B : /\ b.matches
               /\ \A c \in B : c.matches /\ c.conditions = "met" /\ Before(c, b) => ~c.consume}

Wanted(B) == {b \in InReach(B) : b.conditions = "met"}

\* Engine::plan fails exactly if a binding in reach has a condition that cannot
\* be evaluated, and otherwise plans what is wanted, in order.
LEMMA PlanIs ==
    ASSUME NEW B, WellFormed(B)
    PROVE  /\ PlanOf(B).failed \in BOOLEAN
           /\ PlanOf(B).failed <=> \E b \in InReach(B) : b.conditions = "error"
           /\ PlanOf(B).bindings \in Seq(Matching(B))
           /\ ~PlanOf(B).failed =>
                 /\ \A k \in DOMAIN PlanOf(B).bindings : PlanOf(B).bindings[k] \in Wanted(B)
                 /\ \A b \in Wanted(B) :
                       \E k \in DOMAIN PlanOf(B).bindings : PlanOf(B).bindings[k] = b
                 /\ \A k, l \in DOMAIN PlanOf(B).bindings :
                       k < l => Before(PlanOf(B).bindings[k], PlanOf(B).bindings[l])
<1> DEFINE M == Matching(B)
           N == Cardinality(M)
           s == InOrder(M)
           r == PlanOf(B)
<1>1. M \subseteq B /\ WellFormed(M) /\ \A b \in B : b \in M <=> b.matches
  <2>1. M \subseteq B /\ \A b \in B : b \in M <=> b.matches
    BY DEF Matching
  <2> QED
    BY <2>1, FS_Subset DEF WellFormed
<1>2. Sortable(M)
  BY <1>1 DEF WellFormed, Sortable, IsBinding, Bindings
<1> HIDE DEF M, N, s
<1>3. /\ N \in Nat /\ s \in [1 .. N -> M]
      /\ \A b \in M : \E n \in 1 .. N : s[n] = b
      /\ \A i, j \in 1 .. N : i < j <=> Before(s[i], s[j])
  BY <1>2, InOrderSorts DEF N, s
<1>4. DOMAIN s = 1 .. N
  BY <1>3
<1>5. PICK p : /\ p[0] = EmptyPlan
               /\ \A n \in 1 .. N : p[n] = Consider(p[n - 1], s[n])
               /\ p[N] = FoldLeft(Consider, EmptyPlan, s)
  BY <1>3, <1>4, PlanGrows
<1>6. r = p[N]
  BY <1>5 DEF PlanOf, s, M
<1> DEFINE A == {n \in Nat : n <= N => PlansTo(s, M, n, p[n])}
<1>7. 0 \in A
  <2> DEFINE e == <<>>
  <2>1. e \in Seq(M) /\ Len(e) = 0
    BY EmptySeq
  <2> HIDE DEF e
  <2>2. EmptyPlan = [bindings |-> e, open |-> TRUE, failed |-> FALSE]
    BY Zenon DEF EmptyPlan, e
  <2>3. 1 .. 0 = {} /\ 0 + 1 - 1 = 0
    OBVIOUS
  <2>4. PlansTo(s, M, 0, EmptyPlan)
    BY <2>1, <2>2, <2>3 DEF PlansTo, Open
  <2> QED
    BY <1>5, <2>4
<1>8. ASSUME NEW n \in A PROVE n + 1 \in A
  <2>1. n \in Nat
    OBVIOUS
  <2>2. ASSUME n + 1 <= N PROVE PlansTo(s, M, n + 1, p[n + 1])
    <3>1. n + 1 \in 1 .. N /\ n + 1 - 1 = n /\ n <= N
      BY <1>3, <2>1, <2>2
    <3>2. PlansTo(s, M, n + 1 - 1, p[n])
      BY <3>1
    <3>3. PlansTo(s, M, n + 1, Consider(p[n], s[n + 1]))
      <4>1. WellFormed(M)
        BY <1>1
      <4>2. \A i, j \in 1 .. N : i < j <=> Before(s[i], s[j])
        BY <1>3
      <4>3. N \in Nat /\ s \in [1 .. N -> M]
        BY <1>3
      <4>4. n + 1 \in 1 .. N
        BY <3>1
      <4>5. \A k \in 1 .. N : \A q : PlansTo(s, M, k - 1, q) => PlansTo(s, M, k, Consider(q, s[k]))
        BY <4>1, <4>2, <4>3, ConsiderNext
      <4> HIDE DEF A
      <4> QED
        BY <2>1, <3>1, <3>2, <4>4, <4>5
    <3> QED
      BY <1>5, <3>1, <3>3
  <2> HIDE DEF A
  <2> QED
    BY <2>1, <2>2 DEF A
<1>9. A = Nat
  <2> HIDE DEF A
  <2>1. A \subseteq Nat
    BY DEF A
  <2> QED
    BY <1>7, <1>8, <2>1, Induction, Zenon
<1>10. PlansTo(s, M, N, r)
  BY <1>3, <1>6, <1>9
<1> HIDE DEF A, r
<1>11. ASSUME NEW i \in 1 .. N
       PROVE  Open(s, i) <=> s[i] \in InReach(B)
  <2>1. s[i] \in B /\ s[i].matches
    BY <1>1, <1>3
  <2>2. ASSUME Open(s, i), NEW c \in B, c.matches, c.conditions = "met", Before(c, s[i])
        PROVE  ~c.consume
    <3>1. PICK j \in 1 .. N : s[j] = c
      BY <1>1, <1>3, <2>2
    <3>2. j \in 1 .. (i - 1)
      BY <1>3, <2>2, <3>1
    <3> QED
      BY <2>2, <3>1, <3>2 DEF Open, Closes
  <2>3. ASSUME s[i] \in InReach(B), NEW j \in 1 .. (i - 1)
        PROVE  ~Closes(s[j])
    <3>1. j \in 1 .. N /\ j < i
      BY <1>3
    <3>2. s[j] \in B /\ s[j].matches /\ Before(s[j], s[i])
      BY <1>1, <1>3, <3>1
    <3> QED
      BY <2>3, <3>2 DEF InReach, Closes
  <2>4. Open(s, i) => s[i] \in InReach(B)
    BY <2>1, <2>2 DEF InReach
  <2>5. s[i] \in InReach(B) => Open(s, i)
    BY <2>3 DEF Open
  <2> QED
    BY <2>4, <2>5
<1>12. \A b \in InReach(B) : b \in M
  BY <1>1 DEF InReach
<1>13. /\ r.failed \in BOOLEAN /\ r.bindings \in Seq(M)
       /\ DOMAIN r.bindings = 1 .. Len(r.bindings)
  <2>1. r \in [bindings : Seq(M), open : BOOLEAN, failed : BOOLEAN]
    BY <1>10, Zenon DEF PlansTo
  <2> QED
    BY <2>1, LenProperties
<1>14. r.failed <=> \E b \in InReach(B) : b.conditions = "error"
  <2>1. r.failed <=> \E i \in 1 .. N : s[i].conditions = "error" /\ Open(s, i)
    BY <1>10, Zenon DEF PlansTo
  <2> QED
    BY <1>3, <1>11, <1>12, <2>1
<1>15. ASSUME ~r.failed
       PROVE  /\ \A k \in DOMAIN r.bindings : r.bindings[k] \in Wanted(B)
              /\ \A b \in Wanted(B) : \E k \in DOMAIN r.bindings : r.bindings[k] = b
              /\ \A k, l \in DOMAIN r.bindings :
                    k < l => Before(r.bindings[k], r.bindings[l])
  <2>1. \A i \in 1 .. N : s[i].conditions = "met" /\ Open(s, i)
                             <=> \E k \in 1 .. Len(r.bindings) : r.bindings[k] = s[i]
    BY <1>10, <1>15, Zenon DEF PlansTo
  <2>2. \A k \in 1 .. Len(r.bindings) : \E i \in 1 .. N : r.bindings[k] = s[i]
    BY <1>10, Zenon DEF PlansTo
  <2>3. \A k, l \in 1 .. Len(r.bindings) : k < l => Before(r.bindings[k], r.bindings[l])
    BY <1>10, Zenon DEF PlansTo
  <2>4. ASSUME NEW k \in 1 .. Len(r.bindings) PROVE r.bindings[k] \in Wanted(B)
    BY <1>11, <2>1, <2>2 DEF Wanted
  <2>5. ASSUME NEW b \in Wanted(B) PROVE \E k \in 1 .. Len(r.bindings) : r.bindings[k] = b
    <3>1. b \in InReach(B) /\ b.conditions = "met"
      BY DEF Wanted
    <3>2. PICK i \in 1 .. N : s[i] = b
      BY <1>3, <1>12, <3>1
    <3> QED
      BY <1>11, <2>1, <3>1, <3>2
  <2> QED
    BY <1>13, <2>3, <2>4, <2>5
<1> QED
  BY <1>13, <1>14, <1>15 DEF r, M

-----------------------------------------------------------------------------
(***************************************************************************)
(* Engine::dispatch.  A step of a binding is named by the number of its    *)
(* actions that are left then.                                             *)
(***************************************************************************)
Outcome == [id : Nat, left : Nat, success : BOOLEAN]

\* What is left of b.
IsRest(p, b) ==
    /\ p = [b EXCEPT !.actions = p.actions]
    /\ Len(p.actions) \in 1 .. Len(b.actions)
    /\ \A m \in 1 .. Len(p.actions) :
          p.actions[m] = b.actions[Len(b.actions) - Len(p.actions) + m]

Waits(pl, b, l) == \E i \in DOMAIN pl : pl[i].id = b.id /\ l <= Len(pl[i].actions)

Ran(out, b, l) == \E i \in DOMAIN out : out[i].id = b.id /\ out[i].left = l

Precedes(W, o, b, l) ==
    \E c \in W : c.id = o.id /\ (Before(c, b) \/ (c = b /\ o.left > l))

PolicyIn(c, o) == c.actions[Len(c.actions) - o.left + 1].on_error

\* Outcome o keeps the later steps of b from being made.
Stops(W, o, b) ==
    /\ ~o.success
    /\ \E c \in W : /\ c.id = o.id
                    /\ \/ PolicyIn(c, o) = "stop-dispatch"
                       \/ PolicyIn(c, o) = "stop-binding" /\ c = b

Stopped(W, out, b, l) ==
    \E i \in DOMAIN out : Precedes(W, out[i], b, l) /\ Stops(W, out[i], b)

PlanFits(W, pl) ==
    /\ pl \in Seq(Bindings)
    /\ \A i \in DOMAIN pl : \E b \in W : IsRest(pl[i], b) /\ (i # 1 => pl[i] = b)
    /\ \A i, j \in DOMAIN pl : i < j => Before(pl[i], pl[j])

ReportFits(W, out) ==
    /\ out \in Seq(Outcome)
    /\ \A i \in DOMAIN out :
          \E b \in W : out[i].id = b.id /\ out[i].left \in 1 .. Len(b.actions)
    /\ \A i, j \in DOMAIN out : \A b \in W :
          i < j /\ out[j].id = b.id => Precedes(W, out[i], b, out[j].left)

\* Of the steps that are wanted, each was made, waits or was stopped by an
\* earlier one, and those that wait come after all that were made.
StepsFit(W, pl, out, b, l) ==
    /\ Waits(pl, b, l) => \A i \in DOMAIN out : Precedes(W, out[i], b, l)
    /\ Ran(out, b, l) \/ Waits(pl, b, l) \/ Stopped(W, out, b, l)
    /\ Ran(out, b, l) \/ Waits(pl, b, l) => ~Stopped(W, out, b, l)

Course(W, pl, out) ==
    /\ PlanFits(W, pl)
    /\ ReportFits(W, out)
    /\ \A b \in W : \A l \in 1 .. Len(b.actions) : StepsFit(W, pl, out, b, l)

\* A new plan is entirely to be run.
LEMMA CourseStarts ==
    ASSUME NEW B, WellFormed(B), ~PlanOf(B).failed
    PROVE  Course(Wanted(B), PlanOf(B).bindings, <<>>)
<1> DEFINE W == Wanted(B)
           pl == PlanOf(B).bindings
           none == <<>>
<1>1. W \subseteq B /\ Matching(B) \subseteq B /\ B \subseteq Bindings
  BY DEF Wanted, InReach, Matching, WellFormed, IsBinding
<1>2. /\ pl \in Seq(Bindings)
      /\ \A k \in DOMAIN pl : pl[k] \in W
      /\ \A b \in W : \E k \in DOMAIN pl : pl[k] = b
      /\ \A k, l \in DOMAIN pl : k < l => Before(pl[k], pl[l])
  BY <1>1, PlanIs, SeqMonotonic
<1>3. none \in Seq(Outcome) /\ DOMAIN none = {}
  BY EmptySeq, LenProperties
<1> HIDE DEF W, pl, none
<1>4. ASSUME NEW b \in W PROVE IsRest(b, b) /\ Len(b.actions) \in Nat \ {0}
  <2>1. b \in Bindings /\ b.actions # <<>>
    BY <1>1 DEF WellFormed, IsBinding
  <2>2. b.actions \in Seq(Action)
    BY <2>1 DEF Bindings
  <2>3. Len(b.actions) \in Nat \ {0}
    BY <2>1, <2>2, EmptySeq
  <2>4. b = [b EXCEPT !.actions = b.actions]
    BY <2>1 DEF Bindings
  <2> QED
    BY <2>3, <2>4 DEF IsRest
<1>5. PlanFits(W, pl)
  BY <1>2, <1>4 DEF PlanFits
<1>6. ReportFits(W, none)
  BY <1>3 DEF ReportFits
<1>7. ASSUME NEW b \in W, NEW l \in 1 .. Len(b.actions)
      PROVE  StepsFit(W, pl, none, b, l)
  <2>1. Waits(pl, b, l)
    BY <1>2, <1>4 DEF Waits
  <2> QED
    BY <1>3, <2>1 DEF StepsFit, Stopped
<1>8. Course(W, pl, none)
  BY <1>5, <1>6, <1>7 DEF Course
<1> QED
  BY <1>8 DEF W, pl, none

\* One more step was made, and the plan has lost it and what it stops.
LEMMA CourseGrows ==
    ASSUME NEW W, WellFormed(W), NEW pl, NEW out, Course(W, pl, out),
           NEW b \in W, NEW o \in Outcome, o.id = b.id, o.left \in 1 .. Len(b.actions),
           Waits(pl, b, o.left),
           \A c \in W : \A l \in 1 .. Len(c.actions) :
              Waits(pl, c, l) => (c = b /\ l = o.left) \/ Precedes(W, o, c, l),
           NEW new, PlanFits(W, new),
           \A c \in W : \A l \in 1 .. Len(c.actions) :
              Waits(new, c, l)
                 <=> Waits(pl, c, l) /\ ~(c = b /\ l = o.left) /\ ~Stops(W, o, c)
    PROVE  Course(W, new, Append(out, o))
<1> DEFINE report == Append(out, o)
           N == Len(out)
<1>1. /\ report \in Seq(Outcome) /\ N \in Nat /\ DOMAIN out = 1 .. N
      /\ DOMAIN report = (1 .. N) \cup {N + 1}
      /\ \A i \in 1 .. N : report[i] = out[i]
      /\ report[N + 1] = o
  <2>1. out \in Seq(Outcome)
    BY DEF Course, ReportFits
  <2>2. /\ report \in Seq(Outcome) /\ N \in Nat /\ Len(report) = N + 1
        /\ \A i \in 1 .. N : report[i] = out[i]
        /\ report[N + 1] = o
    BY <2>1, AppendProperties, LenProperties
  <2>3. DOMAIN report = 1 .. (N + 1) /\ DOMAIN out = 1 .. N
    BY <2>1, <2>2, LenProperties
  <2> HIDE DEF report, N
  <2> QED
    BY <2>2, <2>3
<1> HIDE DEF report, N
<1>2. \A i \in 1 .. N : Precedes(W, out[i], b, o.left)
  BY <1>1 DEF Course, StepsFit
<1>3. \A a, c \in W : a.id = c.id => a = c
  BY DEF WellFormed
<1>4. \A a, c \in W : Before(a, c) => ~Before(c, a) /\ a # c
  BY DEF WellFormed, IsBinding, Bindings, Before
<1>5. ReportFits(W, report)
  <2>1. \A i \in DOMAIN report :
           \E c \in W : report[i].id = c.id /\ report[i].left \in 1 .. Len(c.actions)
    BY <1>1 DEF Course, ReportFits
  <2>2. ASSUME NEW i \in DOMAIN report, NEW j \in DOMAIN report, NEW c \in W,
               i < j, report[j].id = c.id
        PROVE  Precedes(W, report[i], c, report[j].left)
    <3>1. i \in 1 .. N
      BY <1>1, <2>2
    <3>2. CASE j \in 1 .. N
      BY <1>1, <2>2, <3>1, <3>2 DEF Course, ReportFits
    <3>3. CASE j = N + 1
      <4>1. c = b
        BY <1>1, <1>3, <2>2, <3>3
      <4> QED
        BY <1>1, <1>2, <3>1, <3>3, <4>1
    <3> QED
      BY <1>1, <3>2, <3>3
  <2> QED
    BY <1>1, <2>1, <2>2, Zenon DEF ReportFits
<1>6. ASSUME NEW c \in W, NEW l \in 1 .. Len(c.actions)
      PROVE  StepsFit(W, new, report, c, l)
  <2>0. /\ Waits(pl, c, l) => \A i \in 1 .. N : Precedes(W, out[i], c, l)
        /\ Ran(out, c, l) \/ Waits(pl, c, l) \/ Stopped(W, out, c, l)
        /\ Ran(out, c, l) \/ Waits(pl, c, l) => ~Stopped(W, out, c, l)
    BY <1>1, <1>6, Zenon DEF Course, StepsFit
  <2>1. /\ Waits(new, c, l)
           <=> Waits(pl, c, l) /\ ~(c = b /\ l = o.left) /\ ~Stops(W, o, c)
        /\ Waits(pl, c, l) => (c = b /\ l = o.left) \/ Precedes(W, o, c, l)
        /\ c = b /\ l = o.left => Waits(pl, c, l)
    BY <1>6, Zenon
  <2>2. Ran(report, c, l) <=> Ran(out, c, l) \/ (c = b /\ l = o.left)
    BY <1>1, <1>3 DEF Ran
  <2>3. Stopped(W, report, c, l)
           <=> Stopped(W, out, c, l) \/ (Precedes(W, o, c, l) /\ Stops(W, o, c))
    BY <1>1 DEF Stopped
  <2>4. Waits(new, c, l) => \A i \in DOMAIN report : Precedes(W, report[i], c, l)
    BY <1>1, <2>0, <2>1
  <2>5. Ran(report, c, l) \/ Waits(new, c, l) \/ Stopped(W, report, c, l)
    BY <2>0, <2>1, <2>2, <2>3
  <2>6. Ran(out, c, l) => ~Precedes(W, o, c, l)
    <3>1. SUFFICES ASSUME NEW i \in 1 .. N, out[i].id = c.id, out[i].left = l,
                          Precedes(W, o, c, l)
                   PROVE  FALSE
      BY <1>1 DEF Ran
    <3>2. Before(b, c) \/ (b = c /\ o.left > l)
      BY <1>3, <3>1 DEF Precedes
    <3>3. Before(c, b) \/ (c = b /\ l > o.left)
      BY <1>2, <1>3, <3>1 DEF Precedes
    <3>4. l \in Int /\ o.left \in Int
      OBVIOUS
    <3> QED
      BY <1>4, <3>2, <3>3, <3>4
  <2>7. c = b /\ l = o.left => ~Precedes(W, o, c, l)
    BY <1>3, <1>4 DEF Precedes
  <2>8. Ran(report, c, l) \/ Waits(new, c, l) => ~Stopped(W, report, c, l)
    BY <2>0, <2>1, <2>2, <2>3, <2>6, <2>7
  <2> QED
    BY <2>4, <2>5, <2>8, Zenon DEF StepsFit
<1>7. Course(W, new, report)
  BY <1>5, <1>6, Zenon DEF Course
<1> QED
  BY <1>7 DEF report

\* The first binding of a plan and the rest of it.
LEMMA FirstOfPlan ==
    ASSUME NEW W, WellFormed(W), NEW pl, PlanFits(W, pl), pl # <<>>,
           NEW b \in W, IsRest(pl[1], b)
    PROVE  LET k == Len(pl[1].actions)
           IN  /\ 1 \in DOMAIN pl /\ pl[1].id = b.id
               /\ k \in 1 .. Len(b.actions)
               /\ pl[1].actions[1] = b.actions[Len(b.actions) - k + 1]
               /\ pl[1].actions[1] \in Action
               /\ \A i \in DOMAIN pl : i # 1 => pl[i] \in W /\ Before(b, pl[i])
               /\ \A l \in 1 .. Len(b.actions) : Waits(pl, b, l) <=> l <= k
               /\ \A c \in W : \A l : Waits(pl, c, l) /\ c # b => Before(b, c)
<1> DEFINE k == Len(pl[1].actions)
           rest == pl[1].actions
<1>1. pl \in Seq(Bindings) /\ DOMAIN pl = 1 .. Len(pl) /\ Len(pl) \in Nat \ {0}
  <2>1. pl \in Seq(Bindings)
    BY DEF PlanFits
  <2> QED
    BY <2>1, EmptySeq, LenProperties
<1>2. 1 \in DOMAIN pl
  BY <1>1
<1>3. b \in Bindings /\ W \subseteq Bindings
  BY DEF WellFormed, IsBinding
<1>4. pl[1].id = b.id /\ pl[1].priority = b.priority
  <2>1. pl[1] = [b EXCEPT !.actions = pl[1].actions]
    BY DEF IsRest
  <2> DEFINE x == pl[1]
  <2> HIDE DEF x
  <2>2. x = [b EXCEPT !.actions = x.actions]
    BY <2>1 DEF x
  <2>3. x.id = b.id /\ x.priority = b.priority
    BY <1>3, <2>2 DEF Bindings
  <2> QED
    BY <2>3 DEF x
<1>5. pl[1] \in Bindings /\ rest \in Seq(Action)
  <2>1. 1 \in 1 .. Len(pl)
    BY <1>1
  <2>2. pl[1] \in Bindings
    BY <1>1, <2>1, ElementOfSeq, Zenon
  <2> QED
    BY <2>2 DEF Bindings
<1>6. k \in 1 .. Len(b.actions) /\ rest[1] = b.actions[Len(b.actions) - k + 1]
  <2>1. k \in 1 .. Len(b.actions)
    BY DEF IsRest
  <2>2. 1 \in 1 .. k
    BY <2>1
  <2> QED
    BY <2>1, <2>2 DEF IsRest
<1>7. rest[1] \in Action
  <2>1. 1 \in 1 .. Len(rest)
    BY <1>6
  <2> QED
    BY <1>5, <2>1, ElementOfSeq, Zenon
<1> HIDE DEF k, rest
<1>8. ASSUME NEW i \in DOMAIN pl, i # 1 PROVE pl[i] \in W /\ Before(b, pl[i])
  <2>1. pl[i] \in W
    BY <1>8 DEF PlanFits
  <2>2. 1 < i
    BY <1>1, <1>8
  <2>3. Before(pl[1], pl[i])
    BY <1>2, <2>2 DEF PlanFits
  <2> QED
    BY <1>4, <2>1, <2>3 DEF Before
<1>9. \A a, c \in W : Before(a, c) => a # c
  BY <1>3 DEF Bindings, Before
<1>10. ASSUME NEW l \in 1 .. Len(b.actions)
       PROVE  Waits(pl, b, l) <=> l <= k
  <2>1. ASSUME NEW i \in DOMAIN pl, pl[i].id = b.id PROVE i = 1
    BY <1>8, <1>9, <2>1 DEF WellFormed
  <2> QED
    BY <1>2, <1>4, <2>1, Zenon DEF Waits, k
<1>11. ASSUME NEW c \in W, NEW l, Waits(pl, c, l), c # b
       PROVE  Before(b, c)
  <2>1. PICK i \in DOMAIN pl : pl[i].id = c.id
    BY <1>11 DEF Waits
  <2>2. i # 1
    BY <1>4, <1>11, <2>1 DEF WellFormed
  <2>3. pl[i] = c
    BY <1>8, <2>1, <2>2 DEF WellFormed
  <2> QED
    BY <1>8, <2>2, <2>3
<1> QED
  BY <1>2, <1>4, <1>6, <1>7, <1>8, <1>10, <1>11, Zenon DEF k, rest

\* Without its first binding.
LEMMA TailFits ==
    ASSUME NEW W, WellFormed(W), NEW pl, PlanFits(W, pl), pl # <<>>,
           NEW b \in W, IsRest(pl[1], b)
    PROVE  /\ PlanFits(W, Tail(pl))
           /\ \A c \in W : \A l : Waits(Tail(pl), c, l) <=> Waits(pl, c, l) /\ c # b
<1> DEFINE t == Tail(pl)
           N == Len(pl)
<1>1. pl \in Seq(Bindings)
  BY DEF PlanFits
<1>2. /\ N \in Nat \ {0} /\ DOMAIN pl = 1 .. N
      /\ t \in Seq(Bindings) /\ DOMAIN t = 1 .. (N - 1)
      /\ \A i \in 1 .. (N - 1) : t[i] = pl[i + 1]
  BY <1>1, EmptySeq, LenProperties, HeadTailProperties
<1>3. /\ pl[1].id = b.id
      /\ \A i \in 1 .. N : i # 1 => pl[i] \in W /\ Before(b, pl[i])
  BY <1>2, FirstOfPlan
<1>4. \A i \in 1 .. (N - 1) : i + 1 \in 1 .. N /\ i + 1 # 1
  BY <1>2
<1>5. \A c \in W : IsRest(c, c)
  <2>1. ASSUME NEW c \in W PROVE c = [c EXCEPT !.actions = c.actions] /\ Len(c.actions) \in Nat \ {0}
    <3>1. c \in Bindings /\ c.actions # <<>> /\ c.actions \in Seq(Action)
      BY DEF WellFormed, IsBinding, Bindings
    <3> QED
      BY <3>1, EmptySeq DEF Bindings
  <2> QED
    BY <2>1 DEF IsRest
<1> HIDE DEF t, N
<1>6. PlanFits(W, t)
  <2>1. \A i \in 1 .. (N - 1) : t[i] \in W
    BY <1>2, <1>3, <1>4
  <2>2. \A i, j \in 1 .. (N - 1) : i < j => Before(t[i], t[j])
    <3>1. ASSUME NEW i \in 1 .. (N - 1), NEW j \in 1 .. (N - 1), i < j
          PROVE  Before(t[i], t[j])
      <4>1. i + 1 \in DOMAIN pl /\ j + 1 \in DOMAIN pl /\ i + 1 < j + 1
        BY <1>2, <1>4, <3>1
      <4>2. Before(pl[i + 1], pl[j + 1])
        BY <4>1, Zenon DEF PlanFits
      <4> QED
        BY <1>2, <4>2
    <3> QED
      BY <3>1
  <2> QED
    BY <1>2, <1>5, <2>1, <2>2 DEF PlanFits
<1>7. ASSUME NEW c \in W, NEW l
      PROVE  Waits(t, c, l) <=> Waits(pl, c, l) /\ c # b
  <2>1. ASSUME Waits(t, c, l) PROVE Waits(pl, c, l) /\ c # b
    <3>1. PICK i \in 1 .. (N - 1) : t[i].id = c.id /\ l <= Len(t[i].actions)
      BY <1>2, <2>1 DEF Waits
    <3>2. pl[i + 1] = c
      BY <1>2, <1>3, <1>4, <3>1 DEF WellFormed
    <3>3. Before(b, c)
      BY <1>3, <1>4, <3>2
    <3>4. b # c
      BY <3>3 DEF Before, WellFormed, IsBinding, Bindings
    <3> QED
      BY <1>2, <1>4, <3>1, <3>4 DEF Waits
  <2>2. ASSUME Waits(pl, c, l), c # b PROVE Waits(t, c, l)
    <3>1. PICK i \in 1 .. N : pl[i].id = c.id /\ l <= Len(pl[i].actions)
      BY <1>2, <2>2 DEF Waits
    <3>2. i # 1
      BY <1>3, <2>2, <3>1 DEF WellFormed
    <3>3. i - 1 \in 1 .. (N - 1) /\ i - 1 + 1 = i
      BY <1>2, <3>2
    <3>4. t[i - 1] = pl[i]
      BY <1>2, <3>3
    <3> QED
      BY <1>2, <3>1, <3>3, <3>4 DEF Waits
  <2> QED
    BY <2>1, <2>2
<1> QED
  BY <1>6, <1>7 DEF t

\* Without the first action of its first binding.
LEMMA ShorterFits ==
    ASSUME NEW W, WellFormed(W), NEW pl, PlanFits(W, pl), pl # <<>>,
           NEW b \in W, IsRest(pl[1], b), Len(pl[1].actions) # 1
    PROVE  LET new == [pl EXCEPT ![1].actions = Tail(@)]
           IN  /\ PlanFits(W, new)
               /\ \A c \in W : \A l \in 1 .. Len(c.actions) :
                     Waits(new, c, l)
                        <=> Waits(pl, c, l) /\ ~(c = b /\ l = Len(pl[1].actions))
<1> DEFINE p == pl[1]
           k == Len(p.actions)
           q == [p EXCEPT !.actions = Tail(p.actions)]
           new == [pl EXCEPT ![1] = q]
           N == Len(pl)
<1>1. [pl EXCEPT ![1].actions = Tail(@)] = new
  OBVIOUS
<1>2. /\ pl \in Seq(Bindings) /\ N \in Nat \ {0} /\ DOMAIN pl = 1 .. N /\ 1 \in 1 .. N
      /\ p \in Bindings /\ p.actions \in Seq(Action)
  <2>1. pl \in Seq(Bindings)
    BY DEF PlanFits
  <2>2. N \in Nat \ {0} /\ DOMAIN pl = 1 .. N
    BY <2>1, EmptySeq, LenProperties
  <2>3. 1 \in 1 .. N
    BY <2>2
  <2>4. p \in Bindings
    BY <2>1, <2>3, ElementOfSeq, Zenon
  <2> QED
    BY <2>1, <2>2, <2>3, <2>4 DEF Bindings
<1>3. /\ p.id = b.id /\ k \in 1 .. Len(b.actions) /\ k # 1
      /\ \A i \in DOMAIN pl : i # 1 => pl[i] \in W /\ Before(b, pl[i])
  BY FirstOfPlan
<1>4. b \in Bindings /\ Len(b.actions) \in Nat
  <2>1. b \in Bindings /\ b.actions \in Seq(Action)
    BY DEF WellFormed, IsBinding, Bindings
  <2> QED
    BY <2>1, LenProperties
<1>5. /\ Tail(p.actions) \in Seq(Action) /\ Len(Tail(p.actions)) = k - 1
      /\ \A m \in 1 .. (k - 1) : Tail(p.actions)[m] = p.actions[m + 1]
  <2>1. p.actions # <<>>
    BY <1>2, <1>3, EmptySeq
  <2> QED
    BY <1>2, <2>1, HeadTailProperties
<1>6. /\ q \in Bindings /\ q.actions = Tail(p.actions)
      /\ q.id = p.id /\ q.priority = p.priority
  BY <1>2, <1>5 DEF Bindings
<1>7. q = [b EXCEPT !.actions = q.actions]
  <2> DEFINE t == Tail(p.actions)
  <2>1. p = [b EXCEPT !.actions = p.actions]
    BY DEF IsRest
  <2> HIDE DEF p, t
  <2>2. [p EXCEPT !.actions = t] = [b EXCEPT !.actions = t]
    BY <1>2, <1>4, <2>1 DEF Bindings
  <2> QED
    BY <1>6, <2>2 DEF t
<1> HIDE DEF q
<1>8. /\ new \in Seq(Bindings) /\ DOMAIN new = 1 .. N /\ new[1] = q
      /\ \A i \in 1 .. N : i # 1 => new[i] = pl[i]
  <2>1. new \in Seq(Bindings) /\ Len(new) = N
    BY <1>2, <1>6, ExceptSeq
  <2> QED
    BY <1>2, <2>1, LenProperties
<1> HIDE DEF new, p, k, N
<1>9. IsRest(q, b)
  <2>1. Len(q.actions) = k - 1 /\ k - 1 \in 1 .. Len(b.actions)
    BY <1>3, <1>4, <1>5, <1>6
  <2>2. ASSUME NEW m \in 1 .. (k - 1)
        PROVE  q.actions[m] = b.actions[Len(b.actions) - (k - 1) + m]
    <3>1. m + 1 \in 1 .. k
      BY <1>3
    <3>2. p.actions[m + 1] = b.actions[Len(b.actions) - k + (m + 1)]
      BY <3>1 DEF IsRest, p, k
    <3>3. Len(b.actions) - k + (m + 1) = Len(b.actions) - (k - 1) + m
      <4> DEFINE L == Len(b.actions)
      <4>1. L \in Int /\ k \in Int /\ m \in Int
        BY <1>3, <1>4
      <4> HIDE DEF L
      <4>2. L - k + (m + 1) = L - (k - 1) + m
        BY <4>1
      <4> QED
        BY <4>2 DEF L
    <3> QED
      BY <1>5, <1>6, <3>2, <3>3
  <2> QED
    BY <1>7, <2>1, <2>2 DEF IsRest
<1>10. PlanFits(W, new)
  <2>1. \A i \in 1 .. N : \E c \in W : IsRest(new[i], c) /\ (i # 1 => new[i] = c)
    BY <1>2, <1>8, <1>9 DEF PlanFits
  <2>2. \A i, j \in 1 .. N : i < j => Before(new[i], new[j])
    <3>1. ASSUME NEW i \in 1 .. N, NEW j \in 1 .. N, i < j PROVE Before(new[i], new[j])
      <4>1. Before(pl[i], pl[j])
        BY <1>2, <3>1 DEF PlanFits
      <4>2. j # 1
        BY <1>2, <3>1
      <4>3. new[i].id = pl[i].id /\ new[i].priority = pl[i].priority
        BY <1>6, <1>8 DEF p
      <4> QED
        BY <1>8, <4>1, <4>2, <4>3 DEF Before
    <3> QED
      BY <3>1
  <2> QED
    BY <1>8, <2>1, <2>2, Zenon DEF PlanFits
<1>11. ASSUME NEW c \in W, NEW l \in 1 .. Len(c.actions)
       PROVE  Waits(new, c, l) <=> Waits(pl, c, l) /\ ~(c = b /\ l = k)
  <2>1. CASE c = b
    <3>1. l \in 1 .. Len(b.actions)
      BY <2>1
    <3>2. Waits(pl, b, l) <=> l <= k
      BY <3>1, FirstOfPlan DEF p, k
    <3>3. Waits(new, b, l) <=> l <= k - 1
      <4>1. Len(new[1].actions) = k - 1 /\ IsRest(new[1], b)
        BY <1>5, <1>6, <1>8, <1>9
      <4>2. new # <<>>
        <5> DEFINE e == <<>>
        <5>1. DOMAIN e = {}
          OBVIOUS
        <5> HIDE DEF e
        <5>2. new # e
          BY <1>2, <1>8, <5>1
        <5> QED
          BY <5>2 DEF e
      <4> QED
        BY <1>10, <3>1, <4>1, <4>2, FirstOfPlan
    <3> QED
      BY <1>3, <2>1, <3>1, <3>2, <3>3
  <2>2. CASE c # b
    <3>1. ASSUME NEW i \in 1 .. N, pl[i].id = c.id PROVE i # 1
      BY <1>3, <2>2, <3>1 DEF WellFormed, p
    <3>2. ASSUME NEW i \in 1 .. N, new[i].id = c.id PROVE i # 1
      BY <1>3, <1>6, <1>8, <2>2, <3>2 DEF WellFormed
    <3> QED
      BY <1>2, <1>8, <2>2, <3>1, <3>2, Zenon DEF Waits
  <2> QED
    BY <2>1, <2>2
<1> QED
  BY <1>1, <1>10, <1>11 DEF p, k

\* Advance takes the next action from a plan and nothing else.
LEMMA AdvanceFits ==
    ASSUME NEW W, WellFormed(W), NEW pl, PlanFits(W, pl), pl # <<>>,
           NEW b \in W, IsRest(pl[1], b)
    PROVE  /\ PlanFits(W, Advance(pl))
           /\ \A c \in W : \A l \in 1 .. Len(c.actions) :
                 Waits(Advance(pl), c, l)
                    <=> Waits(pl, c, l) /\ ~(c = b /\ l = Len(pl[1].actions))
<1>1. CASE Len(pl[1].actions) = 1
  <2>1. Advance(pl) = Tail(pl)
    BY <1>1, Zenon DEF Advance
  <2>2. \A l \in 1 .. Len(b.actions) : Waits(pl, b, l) <=> l <= 1
    BY <1>1, FirstOfPlan
  <2>3. ASSUME NEW c \in W, NEW l \in 1 .. Len(c.actions)
        PROVE  Waits(Tail(pl), c, l) <=> Waits(pl, c, l) /\ ~(c = b /\ l = 1)
    <3>1. Waits(Tail(pl), c, l) <=> Waits(pl, c, l) /\ c # b
      BY TailFits
    <3>2. c = b /\ Waits(pl, c, l) => l = 1
      BY <2>2
    <3> QED
      BY <3>1, <3>2
  <2> QED
    BY <1>1, <2>1, <2>3, TailFits
<1>2. CASE Len(pl[1].actions) # 1
  <2> DEFINE new == [pl EXCEPT ![1].actions = Tail(@)]
  <2>1. Advance(pl) = new
    BY <1>2, Zenon DEF Advance
  <2>2. /\ PlanFits(W, new)
        /\ \A c \in W : \A l \in 1 .. Len(c.actions) :
              Waits(new, c, l) <=> Waits(pl, c, l) /\ ~(c = b /\ l = Len(pl[1].actions))
    BY <1>2, ShorterFits
  <2> HIDE DEF new
  <2> QED
    BY <2>1, <2>2
<1> QED
  BY <1>1, <1>2

\* Engine::dispatch makes the next step and follows its policy.
LEMMA CourseGoesOn ==
    ASSUME NEW W, WellFormed(W), NEW pl, NEW out, Course(W, pl, out), pl # <<>>,
           NEW success \in BOOLEAN
    PROVE  Course(W, IF success THEN Advance(pl) ELSE AfterFailure(pl),
                  Append(out, [id |-> pl[1].id, left |-> Len(pl[1].actions),
                               success |-> success]))
<1> DEFINE k == Len(pl[1].actions)
           P == pl[1].actions[1].on_error
           o == [id |-> pl[1].id, left |-> k, success |-> success]
           new == IF success THEN Advance(pl) ELSE AfterFailure(pl)
<1>1. PlanFits(W, pl)
  BY DEF Course
<1>2. PICK b \in W : IsRest(pl[1], b)
  <2>1. 1 \in DOMAIN pl
    <3>1. pl \in Seq(Bindings)
      BY <1>1 DEF PlanFits
    <3>2. Len(pl) \in Nat \ {0} /\ DOMAIN pl = 1 .. Len(pl)
      BY <3>1, EmptySeq, LenProperties
    <3> QED
      BY <3>2
  <2> QED
    BY <1>1, <2>1 DEF PlanFits
<1>3. /\ 1 \in DOMAIN pl /\ pl[1].id = b.id
      /\ k \in 1 .. Len(b.actions)
      /\ pl[1].actions[1] = b.actions[Len(b.actions) - k + 1]
      /\ pl[1].actions[1] \in Action
      /\ \A l \in 1 .. Len(b.actions) : Waits(pl, b, l) <=> l <= k
      /\ \A c \in W : \A l : Waits(pl, c, l) /\ c # b => Before(b, c)
  BY <1>1, <1>2, FirstOfPlan
<1>4. b \in Bindings /\ b.id \in Nat /\ Len(b.actions) \in Nat
  <2>1. b \in Bindings /\ b.actions \in Seq(Action) /\ b.id \in Nat
    BY DEF WellFormed, IsBinding, Bindings
  <2> QED
    BY <2>1, LenProperties
<1>5. o \in Outcome /\ o.id = b.id /\ o.left = k /\ o.success = success
  BY <1>3, <1>4 DEF Outcome
<1>6. P \in Policies /\ P = PolicyIn(b, o)
  BY <1>3, <1>5 DEF Action, PolicyIn
<1> HIDE DEF k, o, P
<1>7. \A c \in W : Stops(W, o, c)
                      <=> ~success /\ (P = "stop-dispatch" \/ (P = "stop-binding" /\ b = c))
  BY <1>5, <1>6 DEF Stops, WellFormed
<1>8. Waits(pl, b, o.left)
  BY <1>3, <1>4, <1>5
<1>9. \A c \in W : \A l \in 1 .. Len(c.actions) :
         Waits(pl, c, l) => (c = b /\ l = o.left) \/ Precedes(W, o, c, l)
  <2>1. ASSUME NEW c \in W, NEW l \in 1 .. Len(c.actions), Waits(pl, c, l)
        PROVE  (c = b /\ l = o.left) \/ Precedes(W, o, c, l)
    <3>1. CASE c = b
      <4>1. l <= k /\ l \in Int /\ k \in Int
        BY <1>3, <2>1, <3>1
      <4> QED
        BY <1>5, <3>1, <4>1 DEF Precedes
    <3>2. CASE c # b
      BY <1>3, <1>5, <2>1, <3>2 DEF Precedes
    <3> QED
      BY <3>1, <3>2
  <2> QED
    BY <2>1
<1>10. /\ PlanFits(W, new)
       /\ \A c \in W : \A l \in 1 .. Len(c.actions) :
             Waits(new, c, l)
                <=> Waits(pl, c, l) /\ ~(c = b /\ l = o.left) /\ ~Stops(W, o, c)
  <2>1. CASE success \/ P = "continue"
    <3>1. new = Advance(pl)
      BY <2>1 DEF AfterFailure, P
    <3>2. \A c \in W : ~Stops(W, o, c)
      BY <1>7, <2>1
    <3> QED
      BY <1>1, <1>2, <1>5, <3>1, <3>2, AdvanceFits DEF k
  <2>2. CASE ~success /\ P = "stop-binding"
    <3>1. new = Tail(pl)
      BY <2>2 DEF AfterFailure, P
    <3>2. \A c \in W : Stops(W, o, c) <=> c = b
      BY <1>7, <2>2
    <3> HIDE DEF new
    <3> QED
      BY <1>1, <1>2, <3>1, <3>2, TailFits
  <2>3. CASE ~success /\ P = "stop-dispatch"
    <3> DEFINE e == <<>>
    <3>1. new = e
      BY <2>3 DEF AfterFailure, P
    <3>2. e \in Seq(Bindings) /\ DOMAIN e = {}
      BY EmptySeq
    <3> HIDE DEF new, e
    <3>3. \A c \in W : Stops(W, o, c)
      BY <1>7, <2>3
    <3>4. PlanFits(W, e)
      BY <3>2 DEF PlanFits
    <3>5. \A c, l : ~Waits(e, c, l)
      BY <3>2 DEF Waits
    <3> QED
      BY <3>1, <3>3, <3>4, <3>5
  <2> QED
    BY <1>6, <2>1, <2>2, <2>3 DEF Policies
<1> HIDE DEF new
<1>11. Course(W, new, Append(out, o))
  BY <1>3, <1>5, <1>8, <1>9, <1>10, CourseGrows
<1> QED
  BY <1>11 DEF new, o, k

-----------------------------------------------------------------------------
(***************************************************************************)
(* The report and what the configuration says.                             *)
(***************************************************************************)
LEMMA BindingOf ==
    ASSUME WellFormed(runtime.bindings), NEW b \in runtime.bindings
    PROVE  Binding(b.id) = b
<1>1. \E c \in runtime.bindings : c.id = b.id
  OBVIOUS
<1>2. Binding(b.id) \in runtime.bindings /\ Binding(b.id).id = b.id
  BY <1>1, Zenon DEF Binding
<1> QED
  BY <1>2, Zenon DEF WellFormed

\* Places in a binding, counted from its front and from its end.
LEMMA EarlierIs ==
    ASSUME WellFormed(runtime.bindings), NEW W, W \subseteq runtime.bindings,
           ReportFits(W, outcomes), NEW b \in W, NEW n \in DOMAIN b.actions
    PROVE  LET l == Len(b.actions) - n + 1
           IN  /\ l \in 1 .. Len(b.actions)
               /\ \A i \in DOMAIN outcomes :
                     /\ outcomes[i] \in Earlier(b, n) <=> Precedes(W, outcomes[i], b, l)
                     /\ outcomes[i].id = b.id =>
                           (Number(b, outcomes[i]) = n <=> outcomes[i].left = l)
<1> DEFINE L == Len(b.actions)
           l == L - n + 1
<1>1. n \in 1 .. L /\ L \in Nat
  <2>1. b.actions \in Seq(Action)
    BY DEF WellFormed, IsBinding, Bindings
  <2> QED
    BY <2>1, LenProperties
<1>2. l \in 1 .. L
  BY <1>1
<1>3. ASSUME NEW i \in DOMAIN outcomes
      PROVE  /\ outcomes[i] \in Earlier(b, n) <=> Precedes(W, outcomes[i], b, l)
             /\ outcomes[i].id = b.id =>
                   (Number(b, outcomes[i]) = n <=> outcomes[i].left = l)
  <2> DEFINE o == outcomes[i]
  <2>1. PICK c \in W : o.id = c.id /\ o.left \in 1 .. Len(c.actions)
    BY DEF ReportFits
  <2>2. o \in ToSet(outcomes)
    BY DEF ToSet
  <2>3. o.left \in Nat
    BY <2>1
  <2>4. Number(b, o) = L - o.left + 1
    BY DEF Number
  <2> HIDE DEF o, L
  <2>5. (Number(b, o) = n <=> o.left = l) /\ (Number(b, o) < n <=> o.left > l)
    BY <1>1, <2>3, <2>4
  <2>6. Binding(o.id) = c
    BY <2>1, BindingOf
  <2>7. \A d \in W : d.id = o.id <=> d = c
    BY <2>1 DEF WellFormed
  <2>8. o \in Earlier(b, n) <=> Before(c, b) \/ (c = b /\ Number(b, o) < n)
    BY <2>2, <2>6, <2>7 DEF Earlier
  <2>9. Precedes(W, o, b, l) <=> Before(c, b) \/ (c = b /\ o.left > l)
    BY <2>7 DEF Precedes
  <2> QED
    BY <2>5, <2>8, <2>9 DEF o
<1> QED
  BY <1>2, <1>3

LEMMA ReachesIs ==
    ASSUME NEW b \in runtime.bindings
    PROVE  Reaches(b) <=> b \in InReach(runtime.bindings)
  BY Zenon DEF Reaches, InReach

\* A dispatch that has run to its end did what the configuration says.
LEMMA CourseEnds ==
    ASSUME WellFormed(runtime.bindings), NEW W, W = Wanted(runtime.bindings),
           Course(W, <<>>, outcomes)
    PROVE  /\ \A b \in runtime.bindings : \A n \in DOMAIN b.actions :
                 (\E o \in ToSet(outcomes) : o.id = b.id /\ Number(b, o) = n)
                    <=> /\ Reaches(b) /\ b.conditions = "met"
                        /\ \A o \in Earlier(b, n) :
                              \/ o.success
                              \/ Policy(o) = "continue"
                              \/ Policy(o) = "stop-binding" /\ o.id # b.id
           /\ \A i, j \in DOMAIN outcomes : i < j =>
                 outcomes[i] \in Earlier(Binding(outcomes[j].id),
                                         Number(Binding(outcomes[j].id), outcomes[j]))
<1>1. W \subseteq runtime.bindings /\ ReportFits(W, outcomes)
  BY DEF Wanted, InReach, Course
<1>2. outcomes \in Seq(Outcome)
  BY <1>1 DEF ReportFits
<1>3. ASSUME NEW i \in DOMAIN outcomes
      PROVE  \E c \in W : /\ outcomes[i].id = c.id /\ outcomes[i].left \in 1 .. Len(c.actions)
                          /\ Binding(outcomes[i].id) = c
                          /\ Policy(outcomes[i]) = PolicyIn(c, outcomes[i])
                          /\ PolicyIn(c, outcomes[i]) \in Policies
  <2>1. PICK c \in W : outcomes[i].id = c.id /\ outcomes[i].left \in 1 .. Len(c.actions)
    BY <1>1 DEF ReportFits
  <2>2. c \in runtime.bindings /\ Binding(outcomes[i].id) = c
    BY <1>1, <2>1, BindingOf
  <2>3. Policy(outcomes[i]) = PolicyIn(c, outcomes[i])
    BY <2>2, Zenon DEF Policy, PolicyIn, Number
  <2>4. c.actions \in Seq(Action)
    BY <2>2 DEF WellFormed, IsBinding, Bindings
  <2>5. Len(c.actions) - outcomes[i].left + 1 \in 1 .. Len(c.actions)
    BY <2>1, <2>4, LenProperties
  <2>6. c.actions[Len(c.actions) - outcomes[i].left + 1] \in Action
    BY <2>4, <2>5, ElementOfSeq, Zenon
  <2> QED
    BY <2>1, <2>2, <2>3, <2>6 DEF PolicyIn, Action
<1>4. ToSet(outcomes) = {outcomes[i] : i \in DOMAIN outcomes}
  BY DEF ToSet
<1>5. ASSUME NEW b \in runtime.bindings, NEW n \in DOMAIN b.actions
      PROVE  (\E o \in ToSet(outcomes) : o.id = b.id /\ Number(b, o) = n)
                <=> /\ Reaches(b) /\ b.conditions = "met"
                    /\ \A o \in Earlier(b, n) :
                          \/ o.success
                          \/ Policy(o) = "continue"
                          \/ Policy(o) = "stop-binding" /\ o.id # b.id
  <2>1. b \in W <=> Reaches(b) /\ b.conditions = "met"
    BY ReachesIs DEF Wanted
  <2>2. CASE b \notin W
    <3>1. \A i \in DOMAIN outcomes : outcomes[i].id # b.id
      BY <1>1, <1>3, <2>2 DEF WellFormed
    <3> QED
      BY <1>4, <2>1, <2>2, <3>1
  <2>3. CASE b \in W
    <3> DEFINE l == Len(b.actions) - n + 1
    <3>1. /\ l \in 1 .. Len(b.actions)
          /\ \A i \in DOMAIN outcomes :
                /\ outcomes[i] \in Earlier(b, n) <=> Precedes(W, outcomes[i], b, l)
                /\ outcomes[i].id = b.id =>
                      (Number(b, outcomes[i]) = n <=> outcomes[i].left = l)
      BY <1>1, <2>3, EarlierIs
    <3> HIDE DEF l
    <3>2. (\E o \in ToSet(outcomes) : o.id = b.id /\ Number(b, o) = n) <=> Ran(outcomes, b, l)
      BY <1>4, <3>1 DEF Ran
    <3>3. Ran(outcomes, b, l) <=> ~Stopped(W, outcomes, b, l)
      <4>1. StepsFit(W, <<>>, outcomes, b, l)
        BY <2>3, <3>1, Zenon DEF Course
      <4>2. ~Waits(<<>>, b, l)
        BY DEF Waits
      <4> QED
        BY <4>1, <4>2, Zenon DEF StepsFit
    <3>4. ASSUME NEW i \in DOMAIN outcomes
          PROVE  ~Stops(W, outcomes[i], b)
                    <=> \/ outcomes[i].success
                        \/ Policy(outcomes[i]) = "continue"
                        \/ Policy(outcomes[i]) = "stop-binding" /\ outcomes[i].id # b.id
      <4> DEFINE o == outcomes[i]
      <4>1. PICK c \in W : o.id = c.id /\ Policy(o) = PolicyIn(c, o) /\ PolicyIn(c, o) \in Policies
        BY <1>3
      <4> HIDE DEF o
      <4>2. \A d \in W : d.id = o.id <=> d = c
        BY <1>1, <4>1 DEF WellFormed
      <4>3. Stops(W, o, b) <=> /\ ~o.success
                               /\ \/ Policy(o) = "stop-dispatch"
                                  \/ Policy(o) = "stop-binding" /\ c = b
        BY <4>1, <4>2 DEF Stops
      <4>4. c = b <=> o.id = b.id
        BY <2>3, <4>1, <4>2
      <4>5. Policy(o) \in {"continue", "stop-binding", "stop-dispatch"}
        BY <4>1 DEF Policies
      <4>6. ~Stops(W, o, b)
               <=> \/ o.success
                   \/ Policy(o) = "continue"
                   \/ Policy(o) = "stop-binding" /\ o.id # b.id
        BY <4>3, <4>4, <4>5
      <4> QED
        BY <4>6 DEF o
    <3>5. Earlier(b, n) \subseteq ToSet(outcomes)
      BY DEF Earlier
    <3>6. ~Stopped(W, outcomes, b, l)
             <=> \A o \in Earlier(b, n) :
                    \/ o.success
                    \/ Policy(o) = "continue"
                    \/ Policy(o) = "stop-binding" /\ o.id # b.id
      BY <1>4, <3>1, <3>4, <3>5 DEF Stopped
    <3> QED
      BY <2>1, <2>3, <3>2, <3>3, <3>6
  <2> QED
    BY <2>2, <2>3
<1>6. ASSUME NEW i \in DOMAIN outcomes, NEW j \in DOMAIN outcomes, i < j
      PROVE  outcomes[i] \in Earlier(Binding(outcomes[j].id),
                                     Number(Binding(outcomes[j].id), outcomes[j]))
  <2> DEFINE o == outcomes[j]
  <2>1. PICK c \in W : /\ o.id = c.id /\ o.left \in 1 .. Len(c.actions)
                       /\ Binding(o.id) = c
    BY <1>3
  <2>2. Precedes(W, outcomes[i], c, o.left)
    BY <1>1, <1>6, <2>1 DEF ReportFits
  <2> DEFINE n == Number(c, o)
  <2>3. c.actions \in Seq(Action)
    BY <1>1 DEF WellFormed, IsBinding, Bindings
  <2>4. n \in DOMAIN c.actions /\ Len(c.actions) - n + 1 = o.left
    <3>1. Len(c.actions) \in Nat /\ DOMAIN c.actions = 1 .. Len(c.actions)
      BY <2>3, LenProperties
    <3>2. n = Len(c.actions) - o.left + 1
      BY DEF Number
    <3> DEFINE L == Len(c.actions)
               m == o.left
    <3> HIDE DEF L, m, n
    <3>3. L \in Nat /\ m \in 1 .. L /\ n = L - m + 1
      BY <2>1, <3>1, <3>2 DEF L, m
    <3>4. n \in 1 .. L /\ L - n + 1 = m
      BY <3>3
    <3> QED
      BY <3>1, <3>4 DEF L, m
  <2>5. outcomes[i] \in Earlier(c, n) <=> Precedes(W, outcomes[i], c, o.left)
    <3> HIDE DEF n, o
    <3> QED
      BY <1>1, <2>4, EarlierIs
  <2> QED
    BY <2>1, <2>2, <2>5
<1> QED
  BY <1>5, <1>6

-----------------------------------------------------------------------------
(***************************************************************************)
(* The engine in the daemon.                                               *)
(***************************************************************************)
StateOK(s) ==
    /\ s.permits \subseteq Permissions
    /\ s.validated => ProvidersValid(s)
    /\ WellFormed(s.bindings)

\* A save puts at most two notifications in the queue, one of them when a
\* truncated file is filled.
Counted ==
    /\ daemon \in {"loading", "up", "down"}
    /\ watcher \in {"off", "waiting", "sleeping", "installing", "failed"}
    /\ watcher = "installing" <=> pending # None
    /\ saves \in 0 .. MaxSaves
    /\ notified + (IF saving = None THEN 0 ELSE 1) <= 2 * saves

StatesOK == StateOK(runtime) /\ (pending # None => StateOK(pending))

Idle == plan = <<>> /\ outcomes = <<>> /\ ~failed

Fails(B) == \E b \in InReach(B) : b.conditions = "error"

Dispatching ==
    /\ stage \in {"idle", "acting", "done"} /\ failed \in BOOLEAN /\ supported \in BOOLEAN
    /\ daemon = "loading" => stage = "idle"
    /\ stage = "idle" => Idle
    /\ stage = "done" => plan = <<>>
    /\ stage # "idle" =>
          /\ failed <=> (~supported \/ Fails(runtime.bindings))
          /\ failed => plan = <<>> /\ outcomes = <<>>
          /\ ~failed => Course(Wanted(runtime.bindings), plan, outcomes)

Sound == Counted /\ StatesOK /\ Dispatching

LEMMA FilesAreContents ==
    ASSUME NEW f \in Files
    PROVE  f.permits \subseteq Permissions /\ WellFormed(f.bindings)
<1>1. CASE f \in Startups \cup Contents
  BY <1>1, ContentAssumption DEF IsContent, WellFormed
<1>2. CASE f \in {Empty, Missing}
  <2>1. f.permits = {} /\ f.bindings = {}
    BY <1>2 DEF Empty, Missing
  <2> QED
    BY <2>1, FS_EmptySet DEF WellFormed
<1> QED
  BY <1>1, <1>2 DEF Files

LEMMA StateOfIs ==
    ASSUME NEW f \in Files, NEW permits \in SUBSET Permissions, NEW validated,
           validated => ProvidersValid(f) /\ permits = f.permits
    PROVE  StateOK(StateOf(f, permits, validated))
  BY FilesAreContents, ValidState DEF StateOK, StateOf

LEMMA SoundInit == Init => Sound
<1> SUFFICES ASSUME Init PROVE Sound
  OBVIOUS
<1> USE DEF Init, DispatchInit
<1>1. Counted
  BY SaveAssumption DEF Counted
<1>2. StatesOK
  <2>1. StateOK(StateOf(Empty, {}, TRUE))
    <3>1. ProvidersValid(Empty) /\ Empty.permits = {} /\ Empty \in Files
      BY DEF ProvidersValid, Empty, Files
    <3> QED
      BY <3>1, StateOfIs
  <2> QED
    BY <2>1 DEF StatesOK
<1>3. Dispatching
  BY Zenon DEF Dispatching, Idle
<1> QED
  BY <1>1, <1>2, <1>3 DEF Sound

LEMMA SameDispatch ==
    ASSUME Dispatching, UNCHANGED dispatchVars, runtime' = runtime \/ stage = "idle",
           daemon' = "loading" => daemon = "loading"
    PROVE  Dispatching'
  BY DEF Dispatching, Idle, dispatchVars

LEMMA FileStep ==
    ASSUME IInv, Sound, Rename \/ Truncate \/ Fill \/ Delete
    PROVE  Sound'
<1>1. UNCHANGED <<daemon, watcher, pending, runtime, dispatchVars>>
  BY DEF Rename, Truncate, Fill, Delete, Becomes, dispatchVars
<1>2. Counted'
  <2>1. saves \in Nat /\ notified \in Nat /\ MaxSaves \in Nat
    BY SaveAssumption DEF IInv, Types, Sound, Counted
  <2>2. saves' \in 0 .. MaxSaves
    BY <2>1 DEF Rename, Truncate, Fill, Delete, MaySave, Sound, Counted
  <2>3. notified' + (IF saving' = None THEN 0 ELSE 1) <= 2 * saves'
    <3>1. CASE Rename
      BY <2>1, <3>1 DEF Rename, MaySave, Becomes, Sound, Counted
    <3>2. CASE Truncate
      BY <2>1, <3>2 DEF Truncate, MaySave, Becomes, Sound, Counted
    <3>3. CASE Fill
      BY <2>1, <3>3 DEF Fill, Becomes, Sound, Counted
    <3>4. CASE Delete
      BY <2>1, <3>4 DEF Delete, MaySave, Sound, Counted
    <3> QED
      BY <3>1, <3>2, <3>3, <3>4
  <2> QED
    BY <1>1, <2>2, <2>3 DEF Sound, Counted
<1>3. Dispatching'
  BY <1>1, SameDispatch DEF Sound
<1> QED
  BY <1>1, <1>2, <1>3 DEF Sound, StatesOK

LEMMA WatcherStep ==
    ASSUME IInv, Sound, Start \/ Register \/ Receive \/ LoadFile \/ Install
    PROVE  Sound'
<1>1. file \in Files /\ notified \in Nat
  BY DEF IInv, Types
<1>2. Counted'
  <2>1. saves \in Nat
    BY SaveAssumption DEF Sound, Counted
  <2>2. CASE Start
    BY <2>2 DEF Start, fileVars, Sound, Counted
  <2>3. CASE Register
    BY <2>3 DEF Register, fileVars, Sound, Counted
  <2>4. CASE Receive
    <3>1. notified' \in Nat /\ notified' <= notified
      BY <1>1, <2>4 DEF Receive
    <3>2. UNCHANGED <<saving, saves, daemon, pending>> /\ watcher = "waiting" /\ watcher' = "sleeping"
      BY <2>4 DEF Receive
    <3> QED
      <4>1. ASSUME NEW before \in Int, NEW after \in Int, NEW bound \in Int,
                   NEW extra \in Int, before + extra <= bound, after <= before
            PROVE  after + extra <= bound
        BY <4>1
      <4>2. PICK extra \in Int : extra = IF saving = None THEN 0 ELSE 1
        OBVIOUS
      <4>3. notified + extra <= 2 * saves
        BY <4>2 DEF Sound, Counted
      <4>4. notified \in Int /\ notified' \in Int /\ 2 * saves \in Int
        BY <1>1, <2>1, <3>1
      <4>5. notified' + extra <= 2 * saves
        BY <3>1, <4>1, <4>3, <4>4
      <4> QED
        BY <3>2, <4>2, <4>5 DEF Sound, Counted
  <2>5. CASE LoadFile
    <3>1. UNCHANGED <<saving, saves, notified, daemon>>
      BY <2>5 DEF LoadFile, fileVars
    <3>2. watcher' \in {"waiting", "installing"} /\ (watcher' = "installing" <=> pending' # None)
      BY <2>5 DEF LoadFile
    <3> QED
      BY <3>1, <3>2 DEF Sound, Counted
  <2>6. CASE Install
    BY <2>6 DEF Install, fileVars, Sound, Counted
  <2> QED
    BY <2>2, <2>3, <2>4, <2>5, <2>6
<1>3. StatesOK'
  <2>1. CASE Start
    BY <1>1, <2>1, StateOfIs, FilesAreContents DEF Start, Sound, StatesOK
  <2>2. CASE LoadFile
    <3>1. Accepted(file) # None => StateOK(Accepted(file))
      <4>1. FailClosed(runtime.permits, file.permits) \subseteq Permissions
        BY <1>1, FilesAreContents DEF FailClosed
      <4> QED
        BY <1>1, <4>1, StateOfIs, FilesAreContents DEF Accepted
    <3> QED
      BY <2>2, <3>1 DEF LoadFile, Sound, StatesOK
  <2>3. CASE Install
    BY <2>3 DEF Install, Sound, StatesOK, Counted
  <2>4. CASE Register \/ Receive
    BY <2>4 DEF Register, Receive, Sound, StatesOK
  <2> QED
    BY <2>1, <2>2, <2>3, <2>4
<1>4. Dispatching'
  <2>1. UNCHANGED dispatchVars
    BY DEF Start, Register, Receive, LoadFile, Install
  <2>2. runtime' = runtime \/ stage = "idle"
    BY DEF Start, Register, Receive, LoadFile, Install, Sound, Dispatching
  <2>3. daemon' = "loading" => daemon = "loading"
    BY DEF Start, Register, Receive, LoadFile, Install, fileVars
  <2> QED
    BY <2>1, <2>2, <2>3, SameDispatch DEF Sound
<1> QED
  BY <1>2, <1>3, <1>4 DEF Sound

LEMMA DispatchSound ==
    ASSUME IInv, Sound, Dispatch
    PROVE  Sound'
<1> DEFINE B == runtime.bindings
           W == Wanted(B)
<1>1. /\ UNCHANGED <<file, saving, saves, notified, daemon, watcher, pending, runtime>>
      /\ daemon = "up"
  BY DEF Dispatch, fileVars, BeginDispatch, ExecuteAction, Report, EndDispatch
<1>2. Counted' /\ StatesOK'
  BY <1>1 DEF Sound, Counted, StatesOK
<1>3. WellFormed(B)
  BY DEF Sound, StatesOK, StateOK
<1>4. WellFormed(W)
  <2>1. W \subseteq B
    BY DEF Wanted, InReach
  <2> QED
    BY <1>3, <2>1, FS_Subset DEF WellFormed
<1>5. Dispatching'
  <2>1. CASE BeginDispatch
    <3>1. /\ stage = "idle" /\ stage' = "acting" /\ outcomes' = outcomes
          /\ supported' \in BOOLEAN
          /\ failed' = (~supported' \/ PlanOf(B).failed)
          /\ plan' = IF ~supported' \/ PlanOf(B).failed THEN <<>> ELSE PlanOf(B).bindings
      BY <2>1 DEF BeginDispatch
    <3>2. outcomes = <<>>
      BY <3>1, Zenon DEF Sound, Dispatching, Idle
    <3>3. failed' \in BOOLEAN /\ (failed' <=> (~supported' \/ Fails(B)))
      <4>1. PlanOf(B).failed \in BOOLEAN /\ (PlanOf(B).failed <=> Fails(B))
        BY <1>3, PlanIs DEF Fails
      <4> QED
        BY <3>1, <4>1
    <3>4. failed' => plan' = <<>> /\ outcomes' = <<>>
      BY <3>1, <3>2, Zenon
    <3>5. ~failed' => Course(W, plan', outcomes')
      BY <1>3, <3>1, <3>2, CourseStarts, Zenon
    <3>6. stage' = "acting" /\ runtime' = runtime /\ daemon' # "loading"
      BY <1>1, <3>1
    <3> QED
      BY <3>1, <3>3, <3>4, <3>5, <3>6 DEF Dispatching
  <2>2. CASE ExecuteAction
    <3>1. /\ stage = "acting" /\ stage' = "acting" /\ plan # <<>> /\ failed' = failed
          /\ supported' = supported
          /\ \E success \in BOOLEAN :
                /\ plan' = IF success THEN Advance(plan) ELSE AfterFailure(plan)
                /\ outcomes' = Append(outcomes, [id |-> plan[1].id,
                                                 left |-> Len(plan[1].actions),
                                                 success |-> success])
      BY <2>2 DEF ExecuteAction
    <3>2. /\ ~failed /\ failed \in BOOLEAN /\ supported \in BOOLEAN
          /\ supported /\ ~Fails(B) /\ Course(W, plan, outcomes)
      BY <3>1, Zenon DEF Sound, Dispatching
    <3>3. Course(W, plan', outcomes')
      <4>1. PICK success \in BOOLEAN :
                /\ plan' = IF success THEN Advance(plan) ELSE AfterFailure(plan)
                /\ outcomes' = Append(outcomes, [id |-> plan[1].id,
                                                 left |-> Len(plan[1].actions),
                                                 success |-> success])
        BY <3>1, Zenon
      <4>2. Course(W, IF success THEN Advance(plan) ELSE AfterFailure(plan),
                   Append(outcomes, [id |-> plan[1].id, left |-> Len(plan[1].actions),
                                     success |-> success]))
        BY <1>4, <3>1, <3>2, CourseGoesOn, Zenon
      <4> QED
        BY <4>1, <4>2, Zenon
    <3>4. runtime' = runtime /\ daemon' # "loading"
      BY <1>1
    <3> QED
      BY <3>1, <3>2, <3>3, <3>4 DEF Dispatching
  <2>3. CASE Report
    <3>1. /\ stage = "acting" /\ stage' = "done" /\ plan = <<>>
          /\ plan' = plan /\ outcomes' = outcomes /\ failed' = failed
          /\ supported' = supported
      BY <2>3 DEF Report
    <3>2. runtime' = runtime /\ daemon' # "loading"
      BY <1>1
    <3> QED
      BY <3>1, <3>2 DEF Sound, Dispatching
  <2>4. CASE EndDispatch
    <3>1. /\ stage = "done" /\ stage' = "idle" /\ ~failed' /\ failed' \in BOOLEAN
          /\ supported' \in BOOLEAN /\ outcomes' = <<>> /\ plan' = plan
      BY <2>4 DEF EndDispatch
    <3>2. plan = <<>>
      BY <3>1, Zenon DEF Sound, Dispatching
    <3>3. Idle'
      BY <3>1, <3>2, Zenon DEF Idle
    <3> QED
      BY <3>1, <3>3 DEF Dispatching
  <2> QED
    BY <2>1, <2>2, <2>3, <2>4 DEF Dispatch
<1> QED
  BY <1>2, <1>5 DEF Sound

LEMMA SoundStep == IInv /\ Sound /\ [Next]_vars => Sound'
<1> SUFFICES ASSUME IInv, Sound, [Next]_vars PROVE Sound'
  OBVIOUS
<1>1. CASE UNCHANGED vars
  <2>1. UNCHANGED <<saving, saves, notified, daemon, watcher, pending, runtime, dispatchVars>>
    BY <1>1 DEF vars, fileVars
  <2>2. Dispatching'
    BY <2>1, SameDispatch DEF Sound
  <2> QED
    BY <2>1, <2>2 DEF Sound, Counted, StatesOK
<1> QED
  BY <1>1, FileStep, WatcherStep, DispatchSound DEF Next

LEMMA SoundAlways == Spec => []Sound
  BY InvAlways, SoundInit, SoundStep, PTL DEF Spec

-----------------------------------------------------------------------------
\* The daemon's variables stay well formed: at most two notifications for each
\* save, a state marked as validated only if its providers are, and a plan made
\* of nothing but bindings of the state that its dispatch holds.
THEOREM DaemonStateTypeCorrect == Spec => []TypeOK
<1>1. IInv /\ Sound => TypeOK
  <2> SUFFICES ASSUME IInv, Sound PROVE TypeOK
    OBVIOUS
  <2>1. notified \in 0 .. 2 * MaxSaves
    BY SaveAssumption DEF IInv, Types, Sound, Counted
  <2>2. \A s \in {runtime, pending} \ {None} :
           s.permits \subseteq Permissions /\ (s.validated => ProvidersValid(s))
    BY DEF Sound, StatesOK, StateOK
  <2>3. ASSUME NEW i \in DOMAIN plan
        PROVE  \E b \in runtime.bindings :
                  /\ [plan[i] EXCEPT !.actions = b.actions] = b
                  /\ plan[i].actions = b.actions \/ (i = 1 /\ IsSuffix(plan[i].actions, b.actions))
    <3>1. PlanFits(Wanted(runtime.bindings), plan)
      <4>1. plan # <<>>
        OBVIOUS
      <4> QED
        BY <4>1, Zenon DEF Sound, Dispatching, Idle, Course
    <3>2. PICK b \in runtime.bindings : IsRest(plan[i], b) /\ (i # 1 => plan[i] = b)
      BY <3>1 DEF PlanFits, Wanted, InReach
    <3>3. b \in Bindings
      BY DEF Sound, StatesOK, StateOK, WellFormed, IsBinding
    <3> DEFINE p == plan[i]
    <3> HIDE DEF p
    <3>4. p = [b EXCEPT !.actions = p.actions]
      BY <3>2 DEF IsRest, p
    <3>5. [p EXCEPT !.actions = b.actions] = b
      BY <3>3, <3>4 DEF Bindings
    <3>6. IsSuffix(p.actions, b.actions)
      <4> DEFINE s == p.actions
                 t == b.actions
      <4>1. Len(s) \in 1 .. Len(t) /\ \A m \in 1 .. Len(s) : s[m] = t[Len(t) - Len(s) + m]
        BY <3>2 DEF IsRest, p
      <4>2. t \in Seq(Action) /\ Len(t) \in Nat
        BY <3>3, LenProperties DEF Bindings
      <4> HIDE DEF s, t
      <4>3. \A m \in 1 .. Len(s) : Reverse(s)[m] = Reverse(t)[m]
        BY <4>1, <4>2 DEF Reverse
      <4>4. Len(Reverse(s)) = Len(s) /\ Len(Reverse(t)) = Len(t)
        BY <4>1, <4>2 DEF Reverse
      <4> QED
        BY <4>1, <4>2, <4>3, <4>4 DEF IsSuffix, IsPrefix, s, t
    <3> QED
      BY <3>2, <3>5, <3>6 DEF p
  <2> QED
    BY <2>1, <2>2, <2>3 DEF TypeOK, Sound, Counted, Dispatching
<1> QED
  BY <1>1, InvAlways, SoundAlways, PTL

\* What a dispatch runs is what the configuration says, for events of any
\* schema version, bindings in any number with any priorities, policies and
\* failures, and whatever reloads wait for it: Engine::plan with its sorting
\* and its early exits, and Engine::dispatch with its error policies.
THEOREM DispatchesFollowPolicy == Spec => []DispatchFollowsPolicy
<1>1. Sound => DispatchFollowsPolicy
  <2> SUFFICES ASSUME Sound, stage = "done" PROVE DispatchFollowsPolicy
    BY DEF DispatchFollowsPolicy
  <2> DEFINE B == runtime.bindings
  <2>1. /\ WellFormed(B) /\ (runtime.validated => ProvidersValid(runtime))
        /\ plan = <<>> /\ failed \in BOOLEAN
        /\ failed <=> (~supported \/ Fails(B))
        /\ supported \in BOOLEAN
        /\ failed => outcomes = <<>>
        /\ ~failed => Course(Wanted(B), plan, outcomes)
    BY DEF Sound, StatesOK, StateOK, Dispatching
  <2>2. failed = (~supported \/ \E b \in B : Reaches(b) /\ b.conditions = "error")
    <3>1. Fails(B) <=> \E b \in B : Reaches(b) /\ b.conditions = "error"
      BY ReachesIs DEF Fails, InReach
    <3> QED
      BY <2>1, <3>1
  <2>3. failed /\ supported => ~runtime.validated
    BY <2>1, <2>2 DEF ProvidersValid, WellFormed, IsBinding
  <2>4. CASE failed
    <3>1. ToSet(outcomes) = {} /\ DOMAIN outcomes = {}
      BY <2>1, <2>4 DEF ToSet
    <3> QED
      BY <2>2, <2>3, <2>4, <3>1 DEF DispatchFollowsPolicy
  <2>5. CASE ~failed
    <3>1. Course(Wanted(B), <<>>, outcomes)
      BY <2>1, <2>5, Zenon
    <3> QED
      BY <2>1, <2>2, <2>5, <3>1, CourseEnds DEF DispatchFollowsPolicy
  <2> QED
    BY <2>4, <2>5
<1> QED
  BY <1>1, SoundAlways, PTL
=============================================================================
