------------------------- MODULE TouchpadProxyProofs -------------------------
(***************************************************************************)
(* What the proxy promises the desktop, for every touchpad.                *)
(*                                                                         *)
(* A packet is folded over event by event, by the validator and by the     *)
(* kernel.  The first part says what a packet as a whole does to both: it  *)
(* ends the contacts that are gone, begins the new ones and moves the      *)
(* rest, slot by slot.  The second part is about what the proxy knows of   *)
(* the pad.  It is always a few events behind; Ahead is what it will know  *)
(* when it has read them, and that is the pad.  On the two rest three      *)
(* invariants: FInv, that every frame is valid because ids are given in    *)
(* order; KInv, that the router's mode is right about the fingers on the   *)
(* pad; and DInv, that what is shown was on the pad.                       *)
(***************************************************************************)
EXTENDS TouchpadProxy, TouchpadProofs

-----------------------------------------------------------------------------
(***************************************************************************)
(* Folds over a packet.                                                    *)
(***************************************************************************)
LEMMA MaxOf ==
    ASSUME NEW N \in Nat, NEW U \in SUBSET (1 .. N), U # {}
    PROVE  Max(U) \in U /\ \A u \in U : u <= Max(U)
<1> DEFINE T == {n \in Nat : \A u \in U : u <= n}
<1>1. N \in T
  OBVIOUS
<1>2. PICK m \in T : \A n \in T : ~(<<n, m>> \in OpToRel(<, Nat))
  BY <1>1, WFMin, NatLessThanWellFounded, Zenon
<1>3. m \in U
  <2>1. SUFFICES ASSUME m \notin U PROVE FALSE
    OBVIOUS
  <2>2. m - 1 \in T
    <3>1. PICK u \in U : TRUE
      OBVIOUS
    <3>2. u \in 1 .. N /\ u <= m /\ u # m /\ m \in Nat
      BY <2>1
    <3>3. m - 1 \in Nat
      BY <3>2
    <3>4. ASSUME NEW v \in U PROVE v <= m - 1
      BY <2>1, <3>2
    <3> QED
      BY <3>3, <3>4
  <2>3. <<m - 1, m>> \in OpToRel(<, Nat)
    BY <2>2 DEF OpToRel
  <2> QED
    BY <1>2, <2>2, <2>3
<1>4. \A u \in U : m >= u
  OBVIOUS
<1>5. Max(U) \in U /\ \A u \in U : Max(U) >= u
  BY <1>3, <1>4, Zenon DEF Max
<1> QED
  BY <1>5

\* What a left fold over 1 .. N is defined by, one step of which is Do.
Iterates(iter, Do, base, D) ==
    iter = [U \in D |-> IF U = {} THEN base ELSE Do[<<iter[U \ {Max(U)}], Max(U)>>]]

LEMMA ExistsIteration ==
    ASSUME NEW N \in Nat, NEW V, NEW Do \in [V \X (1 .. N) -> V], NEW base \in V
    PROVE  \E iter \in [SUBSET (1 .. N) -> V] : Iterates(iter, Do, base, SUBSET (1 .. N))
<1> DEFINE D(n) == SUBSET (1 .. n)
           Good(n) == n <= N =>
                         \E iter \in [D(n) -> V] : Iterates(iter, Do, base, D(n))
           A == {n \in Nat : Good(n)}
<1>0. ASSUME NEW n \in Nat, NEW U \in D(n + 1), U # {}
      PROVE  U \ {Max(U)} \in D(n)
  <2>1. n + 1 \in Nat
    OBVIOUS
  <2>2. Max(U) \in U /\ \A u \in U : u <= Max(U)
    BY <1>0, <2>1, MaxOf
  <2>3. U \subseteq 1 .. (n + 1)
    OBVIOUS
  <2> DEFINE m == Max(U)
  <2> HIDE DEF m
  <2>4. ASSUME NEW u \in U, u # m PROVE u \in 1 .. n
    <3>1. m \in 1 .. (n + 1) /\ u \in 1 .. (n + 1) /\ u <= m
      BY <2>2, <2>3 DEF m
    <3> QED
      BY <2>4, <3>1
  <2> QED
    BY <2>4 DEF m
<1>1. 0 \in A
  <2> DEFINE g == [U \in D(0) |-> base]
  <2>1. D(0) = {{}}
    OBVIOUS
  <2>2. Iterates(g, Do, base, D(0)) /\ g \in [D(0) -> V]
    BY <2>1 DEF Iterates
  <2> QED
    BY <2>2
<1>2. ASSUME NEW n \in A PROVE n + 1 \in A
  <2>0. n \in Nat /\ Good(n) /\ n + 1 \in Nat
    <3> HIDE DEF Good
    <3> QED
      BY <1>2
  <2> SUFFICES ASSUME n + 1 <= N
               PROVE  \E iter \in [D(n + 1) -> V] : Iterates(iter, Do, base, D(n + 1))
    <3>1. Good(n + 1)
      OBVIOUS
    <3> HIDE DEF Good
    <3> QED
      BY <2>0, <3>1
  <2>7. n <= N
    BY <2>0
  <2>1. PICK g \in [D(n) -> V] : Iterates(g, Do, base, D(n))
    BY <2>0, <2>7, Zenon
  <2> DEFINE h == [U \in D(n + 1) |-> IF U = {} THEN base
                                      ELSE Do[<<g[U \ {Max(U)}], Max(U)>>]]
  <2>2. ASSUME NEW U \in D(n) PROVE U \in D(n + 1) /\ h[U] = g[U]
    <3>1. U \in D(n + 1)
      OBVIOUS
    <3> QED
      BY <2>1, <3>1, Zenon DEF Iterates
  <2>3. ASSUME NEW U \in D(n + 1), U # {}
        PROVE  g[U \ {Max(U)}] = h[U \ {Max(U)}]
    BY <1>0, <2>2, <2>3, Zenon
  <2>4. Iterates(h, Do, base, D(n + 1))
    BY <2>3, Zenon DEF Iterates
  <2>5. ASSUME NEW U \in D(n + 1), U # {}
        PROVE  Do[<<g[U \ {Max(U)}], Max(U)>>] \in V
    <3>1. g[U \ {Max(U)}] \in V
      BY <1>0, <2>5, Zenon
    <3>2. n + 1 \in Nat
      OBVIOUS
    <3>3. Max(U) \in 1 .. (n + 1)
      BY <2>5, <3>2, MaxOf
    <3>4. Max(U) \in 1 .. N
      BY <3>3
    <3> QED
      BY <3>1, <3>4
  <2>6. h \in [D(n + 1) -> V]
    BY <2>5, Zenon
  <2> HIDE DEF h, D
  <2> QED
    BY <2>4, <2>6
<1>3. A = Nat
  BY <1>1, <1>2, Induction, Zenon
<1>4. Good(N)
  <2> HIDE DEF Good
  <2> QED
    BY <1>3
<1>5. N <= N
  OBVIOUS
<1> QED
  BY <1>4, <1>5, Zenon

LEMMA PrefixIs ==
    ASSUME NEW N \in Nat, NEW n \in 1 .. N
    PROVE  /\ 1 .. n \in SUBSET (1 .. N) /\ 1 .. n # {}
           /\ Max(1 .. n) = n
           /\ (1 .. n) \ {Max(1 .. n)} = 1 .. (n - 1)
<1> DEFINE U == 1 .. n
<1>1. U \in SUBSET (1 .. N) /\ U # {}
  <2>1. n \in U /\ U \subseteq 1 .. N
    OBVIOUS
  <2> QED
    BY <2>1
<1>2. Max(U) \in U /\ \A u \in U : u <= Max(U)
  BY <1>1, MaxOf, Zenon
<1>3. Max(U) = n
  BY <1>2
<1>4. U \ {n} = 1 .. (n - 1)
  OBVIOUS
<1> QED
  BY <1>1, <1>3, <1>4

\* Two runs of the same steps come to the same.
LEMMA SameRun ==
    ASSUME NEW N \in Nat, NEW p, NEW q, p[0] = q[0],
           \A n \in 1 .. N : p[n - 1] = q[n - 1] => p[n] = q[n]
    PROVE  \A n \in 0 .. N : p[n] = q[n]
<1> DEFINE A == {n \in Nat : n <= N => p[n] = q[n]}
<1>1. 0 \in A
  OBVIOUS
<1>2. ASSUME NEW n \in A PROVE n + 1 \in A
  <2>1. n + 1 <= N => n + 1 \in 1 .. N /\ (n + 1) - 1 = n
    OBVIOUS
  <2> QED
    BY <2>1
<1>3. A = Nat
  BY <1>1, <1>2, Induction, Zenon
<1> QED
  BY <1>3

-----------------------------------------------------------------------------
(***************************************************************************)
(* The validator and the kernel, event by event.                           *)
(***************************************************************************)
Ids == 1 .. MaxTrackingId

Contact == [id : Touches, x : Xs \cup {None}]

\* What the proxy sends.
OutEvents ==
    {Event("slot", s) : s \in Slots} \cup {Event("id", i) : i \in Ids \cup {-1}}
    \cup {Event("x", x) : x \in Xs} \cup {Event("button", b) : b \in 0 .. 1}
    \cup {Event("tool_up", n) : n \in 1 .. 5} \cup {Event("tool_down", n) : n \in 1 .. 5}

Checks == [ok : BOOLEAN, slot : Slots \cup {None}, ids : SomeSlots(Ids)]

Devices == [slot : Slots, ids : SomeSlots(Ids), x : [Slots -> Xs \cup {None}],
            tools : SUBSET (1 .. 5), button : BOOLEAN]

LEMMA WithoutIs ==
    ASSUME NEW R, NEW f \in SomeSlots(R), NEW s
    PROVE  /\ Without(f, s) \in SomeSlots(R)
           /\ DOMAIN Without(f, s) = DOMAIN f \ {s}
           /\ \A t \in DOMAIN f \ {s} : Without(f, s)[t] = f[t]
<1>1. DOMAIN f \subseteq Slots /\ f \in [DOMAIN f -> R]
  BY SomeSlotsIs
<1> DEFINE g == Without(f, s)
<1>2. DOMAIN g \subseteq Slots /\ g \in [DOMAIN g -> R]
  BY <1>1 DEF Without
<1>3. g \in SomeSlots(R)
  BY <1>2, SomeSlotsIs, Zenon
<1> QED
  BY <1>3 DEF Without

LEMMA WithIs ==
    ASSUME NEW R, NEW f \in SomeSlots(R), NEW s \in Slots, NEW c \in R
    PROVE  /\ With(f, s, c) \in SomeSlots(R)
           /\ DOMAIN With(f, s, c) = DOMAIN f \cup {s}
           /\ With(f, s, c)[s] = c
           /\ \A t \in DOMAIN f \ {s} : With(f, s, c)[t] = f[t]
<1>1. DOMAIN f \subseteq Slots /\ f \in [DOMAIN f -> R]
  BY SomeSlotsIs
<1> DEFINE g == With(f, s, c)
<1>2. DOMAIN g \subseteq Slots /\ g \in [DOMAIN g -> R]
  BY <1>1 DEF With
<1>3. g \in SomeSlots(R)
  BY <1>2, SomeSlotsIs, Zenon
<1> QED
  BY <1>3 DEF With

LEMMA WithId ==
    ASSUME NEW old \in SomeSlots(Ids), NEW s \in Slots, NEW i \in Ids
    PROVE  /\ DOMAIN With(old, s, i) = DOMAIN old \cup {s}
           /\ With(old, s, i)[s] = i
           /\ \A t \in DOMAIN old \ {s} : With(old, s, i)[t] = old[t]
  BY DEF With

LEMMA WithContact ==
    ASSUME NEW old \in SomeSlots(Contact), NEW s \in Slots, NEW c \in Contact
    PROVE  /\ With(old, s, c) \in SomeSlots(Contact)
           /\ DOMAIN With(old, s, c) = DOMAIN old \cup {s}
           /\ With(old, s, c)[s] = c
           /\ \A t \in DOMAIN old \ {s} : With(old, s, c)[t] = old[t]
<1>1. With(old, s, c) \in SomeSlots(Contact)
  BY WithIs, Zenon
<1> QED
  BY <1>1 DEF With

LEMMA CheckType ==
    ASSUME NEW v \in Checks, NEW e \in OutEvents
    PROVE  Check(v, e) \in Checks
<1>1. Without(v.ids, v.slot) \in SomeSlots(Ids)
  BY WithoutIs DEF Checks
<1>2. ASSUME e.code = "id", e.value >= 0, v.slot # None
      PROVE  With(v.ids, v.slot, e.value) \in SomeSlots(Ids)
  <2>1. e.value \in Ids /\ v.slot \in Slots /\ v.ids \in SomeSlots(Ids)
    BY <1>2 DEF OutEvents, Event, Checks
  <2> QED
    BY <2>1, WithIs
<1>3. e.code = "slot" => e.value \in Slots
  BY DEF OutEvents, Event
<1>4. e.code = "id" => e.value \in Int
  BY TrackingIdAssumption DEF OutEvents, Event, Ids
<1>5. CASE e.code = "id" /\ v.slot # None
  <2>1. CASE e.value < 0
    <3>1. Check(v, e) = [v EXCEPT !.ok = @ /\ v.slot \in DOMAIN v.ids,
                                  !.ids = Without(@, v.slot)]
      BY <1>5, <2>1 DEF Check
    <3>2. (v.ok /\ v.slot \in DOMAIN v.ids) \in BOOLEAN
      BY DEF Checks
    <3> QED
      BY <1>1, <3>1, <3>2 DEF Checks
  <2>2. CASE ~(e.value < 0)
    <3> DEFINE b == /\ v.ok
                    /\ v.slot \notin DOMAIN v.ids
                    /\ \A s \in DOMAIN v.ids : v.ids[s] # e.value
    <3>1. Check(v, e) = [v EXCEPT !.ok = b, !.ids = With(@, v.slot, e.value)]
      BY <1>5, <2>2, Zenon DEF Check
    <3>2. b \in BOOLEAN
      BY Zenon DEF Checks
    <3>3. e.value >= 0
      BY <1>4, <1>5, <2>2
    <3> HIDE DEF b
    <3> QED
      BY <1>2, <1>5, <3>1, <3>2, <3>3 DEF Checks
  <2> QED
    BY <2>1, <2>2
<1>6. CASE e.code = "id" /\ v.slot = None
  BY <1>6 DEF Check, Checks
<1>7. CASE e.code # "id"
  BY <1>3, <1>7 DEF Check, Checks
<1> QED
  BY <1>5, <1>6, <1>7

LEMMA ApplyType ==
    ASSUME NEW d \in Devices, NEW e \in OutEvents
    PROVE  Apply(d, e) \in Devices
<1>1. Without(d.ids, d.slot) \in SomeSlots(Ids)
  BY WithoutIs DEF Devices
<1>2. ASSUME e.code = "id", ~(e.value < 0)
      PROVE  With(d.ids, d.slot, e.value) \in SomeSlots(Ids)
  <2>1. e.value \in Ids /\ d.slot \in Slots /\ d.ids \in SomeSlots(Ids)
    BY <1>2 DEF OutEvents, Event, Devices
  <2> QED
    BY <2>1, WithIs
<1>3. CASE e.code = "slot"
  BY <1>3 DEF OutEvents, Event, Devices, Apply
<1>4. CASE e.code = "id"
  <2>1. CASE e.value < 0
    <3>1. Apply(d, e) = [d EXCEPT !.ids = Without(@, d.slot)]
      BY <1>4, <2>1 DEF Apply
    <3> QED
      BY <1>1, <3>1 DEF Devices
  <2>2. CASE ~(e.value < 0)
    <3>1. Apply(d, e) = [d EXCEPT !.ids = With(@, d.slot, e.value)]
      BY <1>4, <2>2 DEF Apply
    <3> QED
      BY <1>2, <1>4, <2>2, <3>1 DEF Devices
  <2> QED
    BY <2>1, <2>2
<1>5. CASE e.code = "x"
  BY <1>5 DEF OutEvents, Event, Devices, Apply
<1>6. CASE e.code = "button"
  BY <1>6 DEF OutEvents, Event, Devices, Apply
<1>7. CASE e.code \in {"tool_down", "tool_up"}
  BY <1>7 DEF OutEvents, Event, Devices, Apply
<1> QED
  BY <1>3, <1>4, <1>5, <1>6, <1>7 DEF OutEvents, Event

Checked(v, events) == FoldLeft(Check, v, events)

Applied(d, events) == FoldLeft(Apply, d, events)

\* The validator after each event of a packet.
LEMMA CheckRuns ==
    ASSUME NEW v \in Checks, NEW events \in Seq(OutEvents)
    PROVE  \E p : /\ p[0] = v
                  /\ \A n \in 1 .. Len(events) : p[n] = Check(p[n - 1], events[n])
                  /\ \A n \in 0 .. Len(events) : p[n] \in Checks
                  /\ p[Len(events)] = Checked(v, events)
<1> DEFINE N == Len(events)
           D == SUBSET (1 .. N)
           Do == [a \in Checks \X (1 .. N) |-> Check(a[1], events[a[2]])]
           Folds(i) == i = [U \in D |-> IF U = {} THEN v
                                ELSE Check(i[U \ {Max(U)}], events[Max(U)])]
           iter == CHOOSE i : Folds(i)
           p == [n \in 0 .. N |-> iter[1 .. n]]
<1>1. N \in Nat /\ DOMAIN events = 1 .. N
  OBVIOUS
<1>2. \A n \in 1 .. N : events[n] \in OutEvents
  OBVIOUS
<1>3. Do \in [Checks \X (1 .. N) -> Checks]
  BY <1>2, CheckType
<1>4. PICK i \in [D -> Checks] : Iterates(i, Do, v, D)
  BY <1>1, <1>3, ExistsIteration
<1>5. Folds(i)
  <2>1. ASSUME NEW U \in D, U # {}
        PROVE  Do[<<i[U \ {Max(U)}], Max(U)>>] = Check(i[U \ {Max(U)}], events[Max(U)])
    <3>1. Max(U) \in 1 .. N
      BY <1>1, <2>1, MaxOf
    <3>2. i[U \ {Max(U)}] \in Checks
      OBVIOUS
    <3> HIDE DEF D, N
    <3> QED
      BY <3>1, <3>2
  <2> HIDE DEF Do
  <2> QED
    BY <1>4, <2>1, Zenon DEF Iterates
<1>6. Folds(iter)
  <2> HIDE DEF Folds
  <2> QED
    BY <1>5, Zenon
<1>7. Checked(v, events) = iter[1 .. N]
  BY <1>1, Zenon DEF Checked, FoldLeft, MapThenFoldSet
<1> HIDE DEF iter
<1>8. p[0] = v
  <2>1. 1 .. 0 = {} /\ {} \in D
    OBVIOUS
  <2>2. iter[{}] = v
    BY <1>6, <2>1, Zenon
  <2> QED
    BY <2>1, <2>2
<1>9. ASSUME NEW n \in 1 .. N PROVE p[n] = Check(p[n - 1], events[n])
  <2>1. 1 .. n \in D /\ 1 .. n # {} /\ Max(1 .. n) = n /\ (1 .. n) \ {Max(1 .. n)} = 1 .. (n - 1)
    BY <1>1, PrefixIs
  <2>2. iter[1 .. n] = Check(iter[1 .. (n - 1)], events[n])
    BY <1>6, <2>1, Zenon
  <2>3. n \in 0 .. N /\ n - 1 \in 0 .. N
    BY <1>1
  <2> QED
    BY <2>2, <2>3
<1>10. p[N] = iter[1 .. N]
  BY <1>1
<1> DEFINE A == {n \in Nat : n <= N => p[n] \in Checks}
<1> HIDE DEF p
<1>11. A = Nat
  <2>1. 0 \in A
    BY <1>8
  <2>2. ASSUME NEW n \in A PROVE n + 1 \in A
    <3> SUFFICES ASSUME n + 1 <= N PROVE p[n + 1] \in Checks
      OBVIOUS
    <3>1. n + 1 \in 1 .. N /\ (n + 1) - 1 = n /\ p[n] \in Checks
      BY <1>1
    <3>2. p[n + 1] = Check(p[n], events[n + 1]) /\ events[n + 1] \in OutEvents
      BY <1>2, <1>9, <3>1
    <3> QED
      BY <3>1, <3>2, CheckType
  <2> QED
    BY <2>1, <2>2, Induction, Zenon
<1>12. \A n \in 0 .. N : p[n] \in Checks
  BY <1>1, <1>11
<1> QED
  BY <1>7, <1>8, <1>9, <1>10, <1>12
LEMMA CheckedIs ==
    ASSUME NEW v \in Checks, NEW events \in Seq(OutEvents)
    PROVE  /\ Checked(v, events) \in Checks
           /\ Len(events) = 0 => Checked(v, events) = v
           /\ Len(events) = 1 => Checked(v, events) = Check(v, events[1])
<1>1. PICK p : /\ p[0] = v
               /\ \A n \in 1 .. Len(events) : p[n] = Check(p[n - 1], events[n])
               /\ \A n \in 0 .. Len(events) : p[n] \in Checks
               /\ p[Len(events)] = Checked(v, events)
  BY CheckRuns
<1>2. Len(events) \in Nat
  OBVIOUS
<1>3. CASE Len(events) = 0
  BY <1>1, <1>3
<1>4. CASE Len(events) = 1
  <2>1. p[1] = Check(p[1 - 1], events[1]) /\ 1 - 1 = 0
    BY <1>1, <1>4
  <2> QED
    BY <1>1, <1>4, <2>1
<1>5. Checked(v, events) \in Checks
  BY <1>1, <1>2
<1> QED
  BY <1>3, <1>4, <1>5

LEMMA CheckedConcat ==
    ASSUME NEW v \in Checks, NEW s \in Seq(OutEvents), NEW t \in Seq(OutEvents)
    PROVE  Checked(v, s \o t) = Checked(Checked(v, s), t)
<1> DEFINE M == Len(s)
           N == Len(t)
<1>1. M \in Nat /\ N \in Nat /\ s \o t \in Seq(OutEvents) /\ Len(s \o t) = M + N
  OBVIOUS
<1>2. PICK p : /\ p[0] = v
               /\ \A n \in 1 .. (M + N) : p[n] = Check(p[n - 1], (s \o t)[n])
               /\ p[M + N] = Checked(v, s \o t)
  <2> DEFINE w == s \o t
  <2>1. w \in Seq(OutEvents) /\ Len(w) = M + N
    BY <1>1
  <2> HIDE DEF w, M, N
  <2>2. PICK p : /\ p[0] = v
                 /\ \A n \in 1 .. Len(w) : p[n] = Check(p[n - 1], w[n])
                 /\ p[Len(w)] = Checked(v, w)
    BY <2>1, CheckRuns
  <2> QED
    BY <2>1, <2>2, Zenon DEF w
<1>3. PICK q : /\ q[0] = v
               /\ \A n \in 1 .. M : q[n] = Check(q[n - 1], s[n])
               /\ q[M] = Checked(v, s)
  BY CheckRuns
<1>4. Checked(v, s) \in Checks
  BY CheckedIs
<1>5. PICK r : /\ r[0] = Checked(v, s)
               /\ \A n \in 1 .. N : r[n] = Check(r[n - 1], t[n])
               /\ r[N] = Checked(Checked(v, s), t)
  BY <1>4, CheckRuns
<1>6. p[M] = q[M]
  <2>1. ASSUME NEW n \in 1 .. M, p[n - 1] = q[n - 1] PROVE p[n] = q[n]
    <3>1. n \in 1 .. (M + N) /\ (s \o t)[n] = s[n]
      OBVIOUS
    <3> QED
      BY <1>2, <1>3, <2>1, <3>1
  <2>2. \A n \in 0 .. M : p[n] = q[n]
    <3>1. p[0] = q[0]
      BY <1>2, <1>3
    <3> HIDE DEF M
    <3> QED
      BY <1>1, <2>1, <3>1, SameRun, Zenon
  <2> QED
    BY <1>1, <2>2
<1> DEFINE h == [n \in 0 .. N |-> p[M + n]]
<1>7. h[N] = r[N]
  <2>1. ASSUME NEW n \in 1 .. N, h[n - 1] = r[n - 1] PROVE h[n] = r[n]
    <3>1. M + n \in 1 .. (M + N) /\ (s \o t)[M + n] = t[n] /\ (M + n) - 1 = M + (n - 1)
      OBVIOUS
    <3>2. h[n] = p[M + n] /\ h[n - 1] = p[M + (n - 1)]
      BY <1>1
    <3> HIDE DEF h
    <3> QED
      BY <1>2, <1>5, <2>1, <3>1, <3>2
  <2>2. h[0] = r[0]
    BY <1>1, <1>3, <1>5, <1>6
  <2>3. \A n \in 0 .. N : h[n] = r[n]
    <3> HIDE DEF N, h
    <3> QED
      BY <1>1, <2>1, <2>2, SameRun, Zenon
  <2> QED
    BY <1>1, <2>3
<1>8. h[N] = p[M + N]
  BY <1>1
<1> QED
  BY <1>2, <1>5, <1>7, <1>8

\* The kernel's view after each event of a packet.
LEMMA ApplyRuns ==
    ASSUME NEW d \in Devices, NEW events \in Seq(OutEvents)
    PROVE  \E p : /\ p[0] = d
                  /\ \A n \in 1 .. Len(events) : p[n] = Apply(p[n - 1], events[n])
                  /\ \A n \in 0 .. Len(events) : p[n] \in Devices
                  /\ p[Len(events)] = Applied(d, events)
<1> DEFINE N == Len(events)
           D == SUBSET (1 .. N)
           Do == [a \in Devices \X (1 .. N) |-> Apply(a[1], events[a[2]])]
           Folds(i) == i = [U \in D |-> IF U = {} THEN d
                                ELSE Apply(i[U \ {Max(U)}], events[Max(U)])]
           iter == CHOOSE i : Folds(i)
           p == [n \in 0 .. N |-> iter[1 .. n]]
<1>1. N \in Nat /\ DOMAIN events = 1 .. N
  OBVIOUS
<1>2. \A n \in 1 .. N : events[n] \in OutEvents
  OBVIOUS
<1>3. Do \in [Devices \X (1 .. N) -> Devices]
  BY <1>2, ApplyType
<1>4. PICK i \in [D -> Devices] : Iterates(i, Do, d, D)
  BY <1>1, <1>3, ExistsIteration
<1>5. Folds(i)
  <2>1. ASSUME NEW U \in D, U # {}
        PROVE  Do[<<i[U \ {Max(U)}], Max(U)>>] = Apply(i[U \ {Max(U)}], events[Max(U)])
    <3>1. Max(U) \in 1 .. N
      BY <1>1, <2>1, MaxOf
    <3>2. i[U \ {Max(U)}] \in Devices
      OBVIOUS
    <3> HIDE DEF D, N
    <3> QED
      BY <3>1, <3>2
  <2> HIDE DEF Do
  <2> QED
    BY <1>4, <2>1, Zenon DEF Iterates
<1>6. Folds(iter)
  <2> HIDE DEF Folds
  <2> QED
    BY <1>5, Zenon
<1>7. Applied(d, events) = iter[1 .. N]
  BY <1>1, Zenon DEF Applied, FoldLeft, MapThenFoldSet
<1> HIDE DEF iter
<1>8. p[0] = d
  <2>1. 1 .. 0 = {} /\ {} \in D
    OBVIOUS
  <2>2. iter[{}] = d
    BY <1>6, <2>1, Zenon
  <2> QED
    BY <2>1, <2>2
<1>9. ASSUME NEW n \in 1 .. N PROVE p[n] = Apply(p[n - 1], events[n])
  <2>1. 1 .. n \in D /\ 1 .. n # {} /\ Max(1 .. n) = n /\ (1 .. n) \ {Max(1 .. n)} = 1 .. (n - 1)
    BY <1>1, PrefixIs
  <2>2. iter[1 .. n] = Apply(iter[1 .. (n - 1)], events[n])
    BY <1>6, <2>1, Zenon
  <2>3. n \in 0 .. N /\ n - 1 \in 0 .. N
    BY <1>1
  <2> QED
    BY <2>2, <2>3
<1>10. p[N] = iter[1 .. N]
  BY <1>1
<1> DEFINE A == {n \in Nat : n <= N => p[n] \in Devices}
<1> HIDE DEF p
<1>11. A = Nat
  <2>1. 0 \in A
    BY <1>8
  <2>2. ASSUME NEW n \in A PROVE n + 1 \in A
    <3> SUFFICES ASSUME n + 1 <= N PROVE p[n + 1] \in Devices
      OBVIOUS
    <3>1. n + 1 \in 1 .. N /\ (n + 1) - 1 = n /\ p[n] \in Devices
      BY <1>1
    <3>2. p[n + 1] = Apply(p[n], events[n + 1]) /\ events[n + 1] \in OutEvents
      BY <1>2, <1>9, <3>1
    <3> QED
      BY <3>1, <3>2, ApplyType
  <2> QED
    BY <2>1, <2>2, Induction, Zenon
<1>12. \A n \in 0 .. N : p[n] \in Devices
  BY <1>1, <1>11
<1> QED
  BY <1>7, <1>8, <1>9, <1>10, <1>12
LEMMA AppliedIs ==
    ASSUME NEW d \in Devices, NEW events \in Seq(OutEvents)
    PROVE  /\ Applied(d, events) \in Devices
           /\ Len(events) = 0 => Applied(d, events) = d
           /\ Len(events) = 1 => Applied(d, events) = Apply(d, events[1])
<1>1. PICK p : /\ p[0] = d
               /\ \A n \in 1 .. Len(events) : p[n] = Apply(p[n - 1], events[n])
               /\ \A n \in 0 .. Len(events) : p[n] \in Devices
               /\ p[Len(events)] = Applied(d, events)
  BY ApplyRuns
<1>2. Len(events) \in Nat
  OBVIOUS
<1>3. CASE Len(events) = 0
  BY <1>1, <1>3
<1>4. CASE Len(events) = 1
  <2>1. p[1] = Apply(p[1 - 1], events[1]) /\ 1 - 1 = 0
    BY <1>1, <1>4
  <2> QED
    BY <1>1, <1>4, <2>1
<1>5. Applied(d, events) \in Devices
  BY <1>1, <1>2
<1> QED
  BY <1>3, <1>4, <1>5

LEMMA AppliedConcat ==
    ASSUME NEW d \in Devices, NEW s \in Seq(OutEvents), NEW t \in Seq(OutEvents)
    PROVE  Applied(d, s \o t) = Applied(Applied(d, s), t)
<1> DEFINE M == Len(s)
           N == Len(t)
<1>1. M \in Nat /\ N \in Nat /\ s \o t \in Seq(OutEvents) /\ Len(s \o t) = M + N
  OBVIOUS
<1>2. PICK p : /\ p[0] = d
               /\ \A n \in 1 .. (M + N) : p[n] = Apply(p[n - 1], (s \o t)[n])
               /\ p[M + N] = Applied(d, s \o t)
  <2> DEFINE w == s \o t
  <2>1. w \in Seq(OutEvents) /\ Len(w) = M + N
    BY <1>1
  <2> HIDE DEF w, M, N
  <2>2. PICK p : /\ p[0] = d
                 /\ \A n \in 1 .. Len(w) : p[n] = Apply(p[n - 1], w[n])
                 /\ p[Len(w)] = Applied(d, w)
    BY <2>1, ApplyRuns
  <2> QED
    BY <2>1, <2>2, Zenon DEF w
<1>3. PICK q : /\ q[0] = d
               /\ \A n \in 1 .. M : q[n] = Apply(q[n - 1], s[n])
               /\ q[M] = Applied(d, s)
  BY ApplyRuns
<1>4. Applied(d, s) \in Devices
  BY AppliedIs
<1>5. PICK r : /\ r[0] = Applied(d, s)
               /\ \A n \in 1 .. N : r[n] = Apply(r[n - 1], t[n])
               /\ r[N] = Applied(Applied(d, s), t)
  BY <1>4, ApplyRuns
<1>6. p[M] = q[M]
  <2>1. ASSUME NEW n \in 1 .. M, p[n - 1] = q[n - 1] PROVE p[n] = q[n]
    <3>1. n \in 1 .. (M + N) /\ (s \o t)[n] = s[n]
      OBVIOUS
    <3> QED
      BY <1>2, <1>3, <2>1, <3>1
  <2>2. \A n \in 0 .. M : p[n] = q[n]
    <3>1. p[0] = q[0]
      BY <1>2, <1>3
    <3> HIDE DEF M
    <3> QED
      BY <1>1, <2>1, <3>1, SameRun, Zenon
  <2> QED
    BY <1>1, <2>2
<1> DEFINE h == [n \in 0 .. N |-> p[M + n]]
<1>7. h[N] = r[N]
  <2>1. ASSUME NEW n \in 1 .. N, h[n - 1] = r[n - 1] PROVE h[n] = r[n]
    <3>1. M + n \in 1 .. (M + N) /\ (s \o t)[M + n] = t[n] /\ (M + n) - 1 = M + (n - 1)
      OBVIOUS
    <3>2. h[n] = p[M + n] /\ h[n - 1] = p[M + (n - 1)]
      BY <1>1
    <3> HIDE DEF h
    <3> QED
      BY <1>2, <1>5, <2>1, <3>1, <3>2
  <2>2. h[0] = r[0]
    BY <1>1, <1>3, <1>5, <1>6
  <2>3. \A n \in 0 .. N : h[n] = r[n]
    <3> HIDE DEF N, h
    <3> QED
      BY <1>1, <2>1, <2>2, SameRun, Zenon
  <2> QED
    BY <1>1, <2>3
<1>8. h[N] = p[M + N]
  BY <1>1
<1> QED
  BY <1>2, <1>5, <1>7, <1>8
-----------------------------------------------------------------------------
(***************************************************************************)
(* The events of one slot after the other.                                 *)
(***************************************************************************)
SlotCount == Cardinality(Slots)

LEMMA SlotsAre ==
    /\ SlotCount \in Nat \ {0}
    /\ Slots = 0 .. (SlotCount - 1)
    /\ \A s \in Slots : s \in Nat /\ s < SlotCount
<1>1. SlotCount \in Nat
  BY SlotAssumption, FS_CardinalityType DEF SlotCount
<1>2. Slots = 0 .. (SlotCount - 1) /\ 0 \in Slots
  BY SlotAssumption, SlotOrderAssumption DEF SlotCount
<1> QED
  BY <1>1, <1>2

LEMMA SlotBySlot ==
    ASSUME NEW E, NEW f \in [Slots -> Seq(E)]
    PROVE  \E flat : /\ flat[0] = <<>>
                     /\ \A s \in Slots : flat[s + 1] = flat[s] \o f[s]
                     /\ \A n \in 0 .. SlotCount : flat[n] \in Seq(E)
                     /\ flat[SlotCount] = EachSlot(f)
<1> DEFINE K == SlotCount
           q == [i \in 1 .. K |-> f[i - 1]]
           Flattens(g, n) == g = [i \in 1 .. n |-> IF i = 1 THEN q[i] ELSE g[i - 1] \o q[i]]
           Good(n) == \E g : Flattens(g, n)
           A == {n \in Nat : Good(n)}
<1>1. K \in Nat \ {0} /\ Slots = 0 .. (K - 1)
  BY SlotsAre
<1>2. q \in Seq(Seq(E)) /\ Len(q) = K
  <2>1. \A i \in 1 .. K : i - 1 \in Slots
    BY <1>1
  <2>2. q \in [1 .. K -> Seq(E)]
    BY <2>1
  <2> HIDE DEF q
  <2> QED
    BY <1>1, <2>2, LenProperties, SeqDef
<1> HIDE DEF q
<1>3. Good(0)
  <2> DEFINE g == [i \in 1 .. 0 |-> IF i = 1 THEN q[i] ELSE <<>>]
  <2>1. Flattens(g, 0)
    OBVIOUS
  <2> HIDE DEF g, Flattens
  <2> QED
    BY <2>1
<1>4. ASSUME NEW n \in Nat, Good(n) PROVE Good(n + 1)
  <2>1. PICK g : Flattens(g, n)
    BY <1>4
  <2> DEFINE h == [i \in 1 .. (n + 1) |-> IF i = 1 THEN q[i] ELSE g[i - 1] \o q[i]]
  <2>2. ASSUME NEW i \in 1 .. n PROVE i \in 1 .. (n + 1) /\ g[i] = h[i]
    <3>1. i \in 1 .. (n + 1)
      OBVIOUS
    <3>2. g[i] = IF i = 1 THEN q[i] ELSE g[i - 1] \o q[i]
      BY <2>1, Zenon
    <3> QED
      BY <3>1, <3>2, Zenon
  <2>3. ASSUME NEW i \in 1 .. (n + 1), i # 1 PROVE g[i - 1] = h[i - 1]
    <3>1. i - 1 \in 1 .. n
      BY <2>3
    <3> QED
      BY <2>2, <3>1, Zenon
  <2>4. Flattens(h, n + 1)
    BY <2>3, Zenon
  <2> HIDE DEF h, Flattens
  <2> QED
    BY <2>4
<1>5. Good(K)
  <2> HIDE DEF Good
  <2>1. 0 \in A /\ \A n \in A : n + 1 \in A
    BY <1>3, <1>4
  <2>2. A = Nat
    BY <2>1, Induction, Zenon
  <2> QED
    BY <1>1, <2>2
<1> DEFINE flatten == CHOOSE g : Flattens(g, K)
           flat == [n \in 0 .. K |-> IF n = 0 THEN <<>> ELSE flatten[n]]
<1>6. Flattens(flatten, K)
  BY <1>5, Zenon
<1>7. EachSlot(f) = flatten[K]
  BY <1>1, <1>2, Zenon DEF EachSlot, FlattenSeq, q, SlotCount
<1> HIDE DEF flatten
<1>8. ASSUME NEW s \in Slots PROVE flat[s + 1] = flat[s] \o f[s]
  <2>1. s \in 0 .. K /\ s + 1 \in 1 .. K /\ s + 1 \in 0 .. K /\ s + 1 # 0 /\ (s + 1) - 1 = s
    BY <1>1
  <2>2. flat[s + 1] = flatten[s + 1]
    BY <2>1
  <2>3. q[s + 1] = f[s]
    BY <2>1 DEF q
  <2>4. flatten[s + 1] = IF s + 1 = 1 THEN q[s + 1] ELSE flatten[s] \o q[s + 1]
    BY <1>6, <2>1, Zenon
  <2>5. CASE s = 0
    <3>1. <<>> \o f[s] = f[s]
      BY <2>1
    <3> QED
      BY <2>1, <2>2, <2>3, <2>4, <2>5, <3>1
  <2>6. CASE s # 0
    <3>1. flat[s] = flatten[s] /\ s + 1 # 1
      BY <2>1, <2>6
    <3> QED
      BY <2>2, <2>3, <2>4, <3>1
  <2> QED
    BY <2>5, <2>6
<1>9. flat[0] = <<>> /\ flat[K] = flatten[K]
  BY <1>1
<1> HIDE DEF flat
<1> DEFINE B == {n \in Nat : n <= K => flat[n] \in Seq(E)}
<1>10. B = Nat
  <2>1. 0 \in B
    <3>1. <<>> \in Seq(E)
      OBVIOUS
    <3> QED
      BY <1>9, <3>1
  <2>2. ASSUME NEW n \in B PROVE n + 1 \in B
    <3> SUFFICES ASSUME n + 1 <= K PROVE flat[n + 1] \in Seq(E)
      OBVIOUS
    <3>1. n \in Slots /\ flat[n] \in Seq(E)
      BY <1>1
    <3> QED
      <4>1. f[n] \in Seq(E) /\ flat[n + 1] = flat[n] \o f[n]
        BY <1>8, <3>1
      <4>2. flat[n] \o f[n] \in Seq(E)
        BY <3>1, <4>1, ConcatProperties
      <4> QED
        BY <4>1, <4>2, Zenon
  <2> QED
    BY <2>1, <2>2, Induction, Zenon
<1>11. \A n \in 0 .. K : flat[n] \in Seq(E)
  BY <1>1, <1>10
<1> QED
  BY <1>7, <1>8, <1>9, <1>11

LEMMA SlotInduction ==
    ASSUME NEW A, A \subseteq 0 .. SlotCount, 0 \in A, \A s \in Slots : s \in A => s + 1 \in A
    PROVE  A = 0 .. SlotCount
<1> DEFINE B == {n \in Nat : n <= SlotCount => n \in A}
<1>1. SlotCount \in Nat /\ \A n \in Nat : n < SlotCount => n \in Slots
  BY SlotsAre
<1>2. 0 \in B
  OBVIOUS
<1>3. ASSUME NEW n \in B PROVE n + 1 \in B
  <2> SUFFICES ASSUME n + 1 <= SlotCount PROVE n + 1 \in A
    OBVIOUS
  <2>1. n \in Slots /\ n \in A
    BY <1>1
  <2> QED
    BY <2>1
<1>4. B = Nat
  BY <1>2, <1>3, Induction, Zenon
<1>5. \A n \in 0 .. SlotCount : n \in A
  BY <1>1, <1>4
<1> QED
  BY <1>5

\* What is sent for each slot, one slot after the other.
LEMMA CheckSlotBySlot ==
    ASSUME NEW v \in Checks, NEW f \in [Slots -> Seq(OutEvents)]
    PROVE  /\ EachSlot(f) \in Seq(OutEvents)
           /\ \E c : /\ c[0] = v
                     /\ \A s \in Slots : c[s + 1] = Checked(c[s], f[s])
                     /\ \A n \in 0 .. SlotCount : c[n] \in Checks
                     /\ c[SlotCount] = Checked(v, EachSlot(f))
<1>1. PICK flat : /\ flat[0] = <<>>
                  /\ \A s \in Slots : flat[s + 1] = flat[s] \o f[s]
                  /\ \A n \in 0 .. SlotCount : flat[n] \in Seq(OutEvents)
                  /\ flat[SlotCount] = EachSlot(f)
  BY SlotBySlot, Zenon
<1> DEFINE c == [n \in 0 .. SlotCount |-> Checked(v, flat[n])]
<1>2. SlotCount \in Nat /\ \A s \in Slots : s \in 0 .. SlotCount /\ s + 1 \in 0 .. SlotCount
  BY SlotsAre
<1>3. 0 \in 0 .. SlotCount /\ SlotCount \in 0 .. SlotCount
  BY <1>2
<1>4. c[0] = v
  <2>1. <<>> \in Seq(OutEvents) /\ Len(<<>>) = 0
    OBVIOUS
  <2>2. Checked(v, <<>>) = v
    BY <2>1, CheckedIs
  <2> QED
    BY <1>1, <1>3, <2>2
<1>5. ASSUME NEW s \in Slots PROVE c[s + 1] = Checked(c[s], f[s])
  <2>1. s \in 0 .. SlotCount /\ s + 1 \in 0 .. SlotCount
    BY <1>2
  <2>2. Checked(v, flat[s] \o f[s]) = Checked(Checked(v, flat[s]), f[s])
    BY <1>1, <2>1, CheckedConcat
  <2> QED
    BY <1>1, <2>1, <2>2
<1>6. ASSUME NEW n \in 0 .. SlotCount PROVE c[n] \in Checks
  BY <1>1, CheckedIs
<1>7. c[SlotCount] = Checked(v, EachSlot(f)) /\ EachSlot(f) \in Seq(OutEvents)
  BY <1>1, <1>3
<1> HIDE DEF c
<1> QED
  BY <1>4, <1>5, <1>6, <1>7

LEMMA ApplySlotBySlot ==
    ASSUME NEW d \in Devices, NEW f \in [Slots -> Seq(OutEvents)]
    PROVE  /\ EachSlot(f) \in Seq(OutEvents)
           /\ \E c : /\ c[0] = d
                     /\ \A s \in Slots : c[s + 1] = Applied(c[s], f[s])
                     /\ \A n \in 0 .. SlotCount : c[n] \in Devices
                     /\ c[SlotCount] = Applied(d, EachSlot(f))
<1>1. PICK flat : /\ flat[0] = <<>>
                  /\ \A s \in Slots : flat[s + 1] = flat[s] \o f[s]
                  /\ \A n \in 0 .. SlotCount : flat[n] \in Seq(OutEvents)
                  /\ flat[SlotCount] = EachSlot(f)
  BY SlotBySlot, Zenon
<1> DEFINE c == [n \in 0 .. SlotCount |-> Applied(d, flat[n])]
<1>2. SlotCount \in Nat /\ \A s \in Slots : s \in 0 .. SlotCount /\ s + 1 \in 0 .. SlotCount
  BY SlotsAre
<1>3. 0 \in 0 .. SlotCount /\ SlotCount \in 0 .. SlotCount
  BY <1>2
<1>4. c[0] = d
  <2>1. <<>> \in Seq(OutEvents) /\ Len(<<>>) = 0
    OBVIOUS
  <2>2. Applied(d, <<>>) = d
    BY <2>1, AppliedIs
  <2> QED
    BY <1>1, <1>3, <2>2
<1>5. ASSUME NEW s \in Slots PROVE c[s + 1] = Applied(c[s], f[s])
  <2>1. s \in 0 .. SlotCount /\ s + 1 \in 0 .. SlotCount
    BY <1>2
  <2>2. Applied(d, flat[s] \o f[s]) = Applied(Applied(d, flat[s]), f[s])
    BY <1>1, <2>1, AppliedConcat
  <2> QED
    BY <1>1, <2>1, <2>2
<1>6. ASSUME NEW n \in 0 .. SlotCount PROVE c[n] \in Devices
  BY <1>1, AppliedIs
<1>7. c[SlotCount] = Applied(d, EachSlot(f)) /\ EachSlot(f) \in Seq(OutEvents)
  BY <1>1, <1>3
<1> HIDE DEF c
<1> QED
  BY <1>4, <1>5, <1>6, <1>7

-----------------------------------------------------------------------------
(***************************************************************************)
(* The packets of one slot.                                                *)
(***************************************************************************)
LEMMA TwoEvents ==
    ASSUME NEW a \in OutEvents, NEW b \in OutEvents
    PROVE  /\ <<a>> \in Seq(OutEvents) /\ <<b>> \in Seq(OutEvents)
           /\ <<a>> \o <<b>> = <<a, b>>
<1> DEFINE s == <<a>> \o <<b>>
           t == <<a, b>>
<1>1. <<a>> \in Seq(OutEvents) /\ <<b>> \in Seq(OutEvents) /\ t \in Seq(OutEvents)
  OBVIOUS
<1>2. s \in Seq(OutEvents) /\ Len(s) = 2 /\ s[1] = a /\ s[2] = b
  BY <1>1
<1>3. Len(t) = 2 /\ t[1] = a /\ t[2] = b
  OBVIOUS
<1> HIDE DEF s, t
<1>4. s = t
  BY <1>1, <1>2, <1>3, SeqEqual
<1> QED
  BY <1>1, <1>4 DEF s, t

LEMMA OneChecked ==
    ASSUME NEW v \in Checks, NEW e \in OutEvents
    PROVE  Checked(v, <<e>>) = Check(v, e)
<1>1. <<e>> \in Seq(OutEvents) /\ Len(<<e>>) = 1 /\ <<e>>[1] = e
  OBVIOUS
<1> DEFINE w == <<e>>
<1> HIDE DEF w
<1>2. w \in Seq(OutEvents) /\ Len(w) = 1 /\ w[1] = e
  BY <1>1 DEF w
<1>3. Checked(v, w) = Check(v, e)
  BY <1>2, CheckedIs
<1> QED
  BY <1>3 DEF w

LEMMA NoneChecked ==
    ASSUME NEW v \in Checks
    PROVE  Checked(v, <<>>) = v
<1> DEFINE w == <<>>
<1>1. w \in Seq(OutEvents) /\ Len(w) = 0
  OBVIOUS
<1> HIDE DEF w
<1>2. Checked(v, w) = v
  BY <1>1, CheckedIs
<1> QED
  BY <1>2 DEF w

LEMMA TwoChecked ==
    ASSUME NEW v \in Checks, NEW a \in OutEvents, NEW b \in OutEvents
    PROVE  Checked(v, <<a, b>>) = Check(Check(v, a), b)
<1>1. Checked(v, <<a>> \o <<b>>) = Checked(Checked(v, <<a>>), <<b>>)
  BY TwoEvents, CheckedConcat, Zenon
<1>2. Checked(v, <<a>>) = Check(v, a) /\ Check(v, a) \in Checks
  BY OneChecked, CheckType
<1>3. Checked(Check(v, a), <<b>>) = Check(Check(v, a), b)
  BY <1>2, OneChecked
<1> QED
  BY <1>1, <1>2, <1>3, TwoEvents, Zenon

LEMMA OneApplied ==
    ASSUME NEW d \in Devices, NEW e \in OutEvents
    PROVE  Applied(d, <<e>>) = Apply(d, e)
<1>1. <<e>> \in Seq(OutEvents) /\ Len(<<e>>) = 1 /\ <<e>>[1] = e
  OBVIOUS
<1> DEFINE w == <<e>>
<1> HIDE DEF w
<1>2. w \in Seq(OutEvents) /\ Len(w) = 1 /\ w[1] = e
  BY <1>1 DEF w
<1>3. Applied(d, w) = Apply(d, e)
  BY <1>2, AppliedIs
<1> QED
  BY <1>3 DEF w

LEMMA NoneApplied ==
    ASSUME NEW d \in Devices
    PROVE  Applied(d, <<>>) = d
<1> DEFINE w == <<>>
<1>1. w \in Seq(OutEvents) /\ Len(w) = 0
  OBVIOUS
<1> HIDE DEF w
<1>2. Applied(d, w) = d
  BY <1>1, AppliedIs
<1> QED
  BY <1>2 DEF w

LEMMA TwoApplied ==
    ASSUME NEW d \in Devices, NEW a \in OutEvents, NEW b \in OutEvents
    PROVE  Applied(d, <<a, b>>) = Apply(Apply(d, a), b)
<1>1. Applied(d, <<a>> \o <<b>>) = Applied(Applied(d, <<a>>), <<b>>)
  BY TwoEvents, AppliedConcat, Zenon
<1>2. Applied(d, <<a>>) = Apply(d, a) /\ Apply(d, a) \in Devices
  BY OneApplied, ApplyType
<1>3. Applied(Apply(d, a), <<b>>) = Apply(Apply(d, a), b)
  BY <1>2, OneApplied
<1> QED
  BY <1>1, <1>2, <1>3, TwoEvents, Zenon

LEMMA EventsAre ==
    /\ \A s \in Slots : Event("slot", s) \in OutEvents
    /\ Event("id", -1) \in OutEvents
    /\ \A i \in Ids : Event("id", i) \in OutEvents
    /\ \A x \in Xs : Event("x", x) \in OutEvents
    /\ \A b \in 0 .. 1 : Event("button", b) \in OutEvents
    /\ \A n \in 1 .. 5 : Event("tool_up", n) \in OutEvents /\ Event("tool_down", n) \in OutEvents
  BY DEF OutEvents

\* A contact ends.
LEMMA EndChecked ==
    ASSUME NEW v \in Checks, NEW s \in Slots
    PROVE  /\ <<Event("slot", s), Event("id", -1)>> \in Seq(OutEvents)
           /\ Checked(v, <<Event("slot", s), Event("id", -1)>>)
                = [ok |-> v.ok /\ s \in DOMAIN v.ids, slot |-> s, ids |-> Without(v.ids, s)]
<1> DEFINE a == Event("slot", s)
           b == Event("id", -1)
<1>1. a \in OutEvents /\ b \in OutEvents
  BY EventsAre
<1>2. Check(v, a) = [v EXCEPT !.slot = s]
  BY DEF Check, Event
<1>3. s # None
  BY SlotsAre, CoordinateAssumption
<1> DEFINE w == [v EXCEPT !.slot = s]
<1>4. w.slot = s /\ w.ids = v.ids /\ w.ok = v.ok /\ w = [ok |-> v.ok, slot |-> s, ids |-> v.ids]
  BY DEF Checks
<1>5. Check(w, b) = [w EXCEPT !.ok = @ /\ w.slot \in DOMAIN w.ids, !.ids = Without(@, w.slot)]
  BY <1>3, <1>4 DEF Check, Event
<1> HIDE DEF w
<1>6. Check(w, b) = [ok |-> v.ok /\ s \in DOMAIN v.ids, slot |-> s, ids |-> Without(v.ids, s)]
  BY <1>4, <1>5
<1>7. Checked(v, <<a, b>>) = Check(w, b)
  BY <1>1, <1>2, TwoChecked DEF w
<1>8. <<a, b>> \in Seq(OutEvents)
  BY <1>1
<1> QED
  BY <1>6, <1>7, <1>8

LEMMA EndApplied ==
    ASSUME NEW d \in Devices, NEW s \in Slots
    PROVE  Applied(d, <<Event("slot", s), Event("id", -1)>>)
             = [d EXCEPT !.slot = s, !.ids = Without(@, s)]
<1> DEFINE a == Event("slot", s)
           b == Event("id", -1)
<1>1. a \in OutEvents /\ b \in OutEvents
  BY EventsAre
<1>2. Apply(d, a) = [d EXCEPT !.slot = s]
  BY DEF Apply, Event
<1> DEFINE w == [d EXCEPT !.slot = s]
<1>3. w.slot = s /\ w.ids = d.ids
  BY DEF Devices
<1>4. Apply(w, b) = [w EXCEPT !.ids = Without(@, w.slot)]
  BY DEF Apply, Event
<1>5. Apply(w, b) = [d EXCEPT !.slot = s, !.ids = Without(@, s)]
  BY <1>3, <1>4 DEF Devices
<1> QED
  BY <1>1, <1>2, <1>5, TwoApplied

\* The coordinates of the slots once contact c is placed in slot s.
Moved(x, s, c) == IF c.x = None THEN x ELSE [x EXCEPT ![s] = c.x]

\* A coordinate, if it is known.
LEMMA PlacedIs ==
    ASSUME NEW c \in Contact
    PROVE  /\ Placed(c) \in Seq(OutEvents)
           /\ \A v \in Checks : v.slot # None => Checked(v, Placed(c)) = v
           /\ \A d \in Devices :
                 Applied(d, Placed(c)) = [d EXCEPT !.x = Moved(@, d.slot, c)]
<1> DEFINE e == Event("x", c.x)
<1>1. CASE c.x = None
  <2>1. Placed(c) = <<>> /\ <<>> \in Seq(OutEvents)
    BY <1>1 DEF Placed
  <2>2. \A d \in Devices : d = [d EXCEPT !.x = Moved(@, d.slot, c)]
    BY <1>1 DEF Devices, Moved
  <2> QED
    BY <2>1, <2>2, NoneChecked, NoneApplied, Zenon
<1>2. CASE c.x # None
  <2>1. e \in OutEvents /\ Placed(c) = <<e>>
    BY <1>2, EventsAre DEF Placed, Contact
  <2>2. <<e>> \in Seq(OutEvents)
    BY <2>1
  <2>3. ASSUME NEW v \in Checks, v.slot # None PROVE Check(v, e) = v
    BY <2>3 DEF Check, Event
  <2>4. ASSUME NEW d \in Devices
        PROVE  Apply(d, e) = [d EXCEPT !.x = Moved(@, d.slot, c)]
    BY <1>2 DEF Apply, Event, Moved
  <2> HIDE DEF e
  <2> QED
    BY <2>1, <2>2, <2>3, <2>4, OneChecked, OneApplied, Zenon
<1> QED
  BY <1>1, <1>2

\* A contact arrives.
LEMMA ArrivalChecked ==
    ASSUME NEW v \in Checks, NEW s \in Slots, NEW i \in Ids, NEW c \in Contact
    PROVE  /\ <<Event("slot", s), Event("id", i)>> \o Placed(c) \in Seq(OutEvents)
           /\ Checked(v, <<Event("slot", s), Event("id", i)>> \o Placed(c))
                = [ok   |-> /\ v.ok
                            /\ s \notin DOMAIN v.ids
                            /\ \A t \in DOMAIN v.ids : v.ids[t] # i,
                   slot |-> s,
                   ids  |-> With(v.ids, s, i)]
<1> DEFINE a == Event("slot", s)
           b == Event("id", i)
           ab == <<a, b>>
           ok == v.ok /\ s \notin DOMAIN v.ids /\ \A t \in DOMAIN v.ids : v.ids[t] # i
<1>1. a \in OutEvents /\ b \in OutEvents
  BY EventsAre
<1>2. Check(v, a) = [v EXCEPT !.slot = s]
  BY DEF Check, Event
<1>3. s # None
  BY SlotsAre, CoordinateAssumption
<1> DEFINE w == [v EXCEPT !.slot = s]
           u == Check(w, b)
<1>4. w.slot = s /\ w.ids = v.ids /\ w.ok = v.ok /\ w = [ok |-> v.ok, slot |-> s, ids |-> v.ids]
  BY DEF Checks
<1>5. w \in Checks
  BY DEF Checks
<1>6. ~(i < 0)
  BY TrackingIdAssumption DEF Ids
<1>7. u = [w EXCEPT !.ok = /\ @
                           /\ w.slot \notin DOMAIN w.ids
                           /\ \A t \in DOMAIN w.ids : w.ids[t] # i,
                    !.ids = With(@, w.slot, i)]
  BY <1>3, <1>4, <1>6 DEF Check, Event
<1>8. u = [ok |-> ok, slot |-> s, ids |-> With(v.ids, s, i)]
  <2> HIDE DEF w, u
  <2>1. (w.ok /\ w.slot \notin DOMAIN w.ids /\ \A t \in DOMAIN w.ids : w.ids[t] # i) = ok
    BY <1>4, Zenon
  <2> HIDE DEF ok
  <2> QED
    BY <1>4, <1>7, <2>1
<1>9. Checked(v, ab) = u /\ ab \in Seq(OutEvents)
  BY <1>1, <1>2, TwoChecked, TwoEvents DEF w
<1>10. u \in Checks /\ u.slot # None
  <2>1. u \in Checks
    BY <1>1, <1>5, CheckType
  <2> HIDE DEF u
  <2> QED
    BY <1>3, <1>8, <2>1
<1>11. Placed(c) \in Seq(OutEvents) /\ Checked(u, Placed(c)) = u
  BY <1>10, PlacedIs
<1> HIDE DEF ab, u
<1>12. Checked(v, ab \o Placed(c)) = u
  BY <1>9, <1>11, CheckedConcat
<1>13. ab \o Placed(c) \in Seq(OutEvents)
  BY <1>9, <1>11
<1> QED
  BY <1>8, <1>12, <1>13 DEF ab

LEMMA ArrivalApplied ==
    ASSUME NEW d \in Devices, NEW s \in Slots, NEW i \in Ids, NEW c \in Contact
    PROVE  LET w == Applied(d, <<Event("slot", s), Event("id", i)>> \o Placed(c))
           IN  /\ w.ids = With(d.ids, s, i)
               /\ w.tools = d.tools /\ w.button = d.button
               /\ \A t \in Slots : w.x[t] = IF t = s /\ c.x # None THEN c.x ELSE d.x[t]
<1> DEFINE a == Event("slot", s)
           b == Event("id", i)
           ab == <<a, b>>
           w == [d EXCEPT !.slot = s]
           u == Apply(w, b)
<1>1. a \in OutEvents /\ b \in OutEvents
  BY EventsAre
<1>2. Apply(d, a) = w
  BY DEF Apply, Event
<1>3. w.slot = s /\ w.ids = d.ids /\ w \in Devices
  BY DEF Devices
<1>4. ~(i < 0)
  BY TrackingIdAssumption DEF Ids
<1>5. u = [w EXCEPT !.ids = With(@, w.slot, i)]
  BY <1>4 DEF Apply, Event
<1>6. u = [d EXCEPT !.slot = s, !.ids = With(@, s, i)]
  BY <1>3, <1>5 DEF Devices
<1>7. u \in Devices
  BY <1>1, <1>3, ApplyType
<1>8. Applied(d, ab) = u /\ ab \in Seq(OutEvents)
  BY <1>1, <1>2, TwoApplied, TwoEvents
<1> HIDE DEF ab, u
<1>9. /\ Placed(c) \in Seq(OutEvents)
      /\ Applied(u, Placed(c)) = [u EXCEPT !.x = Moved(@, u.slot, c)]
  BY <1>7, PlacedIs
<1>10. Applied(d, ab \o Placed(c)) = Applied(u, Placed(c))
  BY <1>8, <1>9, AppliedConcat
<1>11. u.slot = s /\ u.x = d.x
  BY <1>6 DEF Devices
<1> DEFINE z == [u EXCEPT !.x = Moved(@, u.slot, c)]
<1>12. /\ z.ids = With(d.ids, s, i)
       /\ z.tools = d.tools /\ z.button = d.button
       /\ z.x = Moved(d.x, s, c)
  BY <1>6, <1>11 DEF Devices
<1>13. ASSUME NEW t \in Slots
       PROVE  Moved(d.x, s, c)[t] = IF t = s /\ c.x # None THEN c.x ELSE d.x[t]
  BY DEF Devices, Moved
<1> HIDE DEF z
<1>14. \A t \in Slots : z.x[t] = IF t = s /\ c.x # None THEN c.x ELSE d.x[t]
  BY <1>12, <1>13, Zenon
<1>15. Applied(d, ab \o Placed(c)) = z
  BY <1>9, <1>10 DEF z
<1> QED
  BY <1>12, <1>14, <1>15 DEF ab

\* A contact moves.
LEMMA MoveChecked ==
    ASSUME NEW v \in Checks, NEW s \in Slots, NEW c \in Contact
    PROVE  /\ <<Event("slot", s)>> \o Placed(c) \in Seq(OutEvents)
           /\ Checked(v, <<Event("slot", s)>> \o Placed(c)) = [v EXCEPT !.slot = s]
<1> DEFINE a == Event("slot", s)
           w == [v EXCEPT !.slot = s]
<1>1. a \in OutEvents
  BY EventsAre
<1>2. Check(v, a) = w
  BY DEF Check, Event
<1>3. w \in Checks /\ w.slot # None
  BY SlotsAre, CoordinateAssumption DEF Checks
<1>4. <<a>> \in Seq(OutEvents) /\ Checked(v, <<a>>) = w
  BY <1>1, <1>2, OneChecked, TwoEvents
<1> HIDE DEF a, w
<1>5. Placed(c) \in Seq(OutEvents) /\ Checked(w, Placed(c)) = w
  BY <1>3, PlacedIs
<1>6. Checked(v, <<a>> \o Placed(c)) = w
  BY <1>4, <1>5, CheckedConcat
<1>7. <<a>> \o Placed(c) \in Seq(OutEvents)
  BY <1>4, <1>5
<1> QED
  BY <1>6, <1>7 DEF a, w

LEMMA MoveApplied ==
    ASSUME NEW d \in Devices, NEW s \in Slots, NEW c \in Contact
    PROVE  LET w == Applied(d, <<Event("slot", s)>> \o Placed(c))
           IN  /\ w.ids = d.ids
               /\ w.tools = d.tools /\ w.button = d.button
               /\ \A t \in Slots : w.x[t] = IF t = s /\ c.x # None THEN c.x ELSE d.x[t]
<1> DEFINE a == Event("slot", s)
           one == <<a>>
           w == [d EXCEPT !.slot = s]
<1>1. a \in OutEvents
  BY EventsAre
<1>2. Apply(d, a) = w
  BY DEF Apply, Event
<1>3. w \in Devices /\ w.slot = s /\ w.x = d.x
  BY DEF Devices
<1>4. one \in Seq(OutEvents) /\ Applied(d, one) = w
  BY <1>1, <1>2, OneApplied, TwoEvents
<1> DEFINE z == [w EXCEPT !.x = Moved(@, w.slot, c)]
<1>5. /\ z.ids = d.ids
      /\ z.tools = d.tools /\ z.button = d.button
      /\ z.x = Moved(d.x, s, c)
  BY <1>3 DEF Devices
<1>8. ASSUME NEW t \in Slots
      PROVE  Moved(d.x, s, c)[t] = IF t = s /\ c.x # None THEN c.x ELSE d.x[t]
  BY DEF Devices, Moved
<1> HIDE DEF a, one, w
<1>6. /\ Placed(c) \in Seq(OutEvents)
      /\ Applied(w, Placed(c)) = [w EXCEPT !.x = Moved(@, w.slot, c)]
  BY <1>3, PlacedIs
<1>7. Applied(d, one \o Placed(c)) = Applied(w, Placed(c))
  BY <1>4, <1>6, AppliedConcat
<1> HIDE DEF z
<1>9. \A t \in Slots : z.x[t] = IF t = s /\ c.x # None THEN c.x ELSE d.x[t]
  BY <1>5, <1>8, Zenon
<1>10. Applied(d, one \o Placed(c)) = z
  BY <1>6, <1>7 DEF z
<1> QED
  BY <1>5, <1>9, <1>10 DEF one, a

-----------------------------------------------------------------------------
(***************************************************************************)
(* A packet from what is shown to what is desired.                         *)
(***************************************************************************)
Snapshots == [contacts : SomeSlots(Contact), button : BOOLEAN]

Gone(desired) == {s \in DOMAIN virtual.contacts : Leaves(desired, s)}

DepartureOf(desired, s) ==
    IF s \in Gone(desired) THEN <<Event("slot", s), Event("id", -1)>> ELSE <<>>

LEMMA DeparturesAre ==
    ASSUME NEW desired
    PROVE  /\ [s \in Slots |-> DepartureOf(desired, s)] \in [Slots -> Seq(OutEvents)]
           /\ Departures(desired) = EachSlot([s \in Slots |-> DepartureOf(desired, s)])
<1>1. <<>> \in Seq(OutEvents)
  OBVIOUS
<1>2. ASSUME NEW s \in Slots PROVE DepartureOf(desired, s) \in Seq(OutEvents)
  <2>1. <<Event("slot", s), Event("id", -1)>> \in Seq(OutEvents)
    <3>1. PICK v \in Checks : TRUE
      <4>1. [s0 \in {} |-> 0] \in SomeSlots(Ids)
        BY DEF SomeSlots
      <4>2. [ok |-> TRUE, slot |-> None, ids |-> [s0 \in {} |-> 0]] \in Checks
        BY <4>1 DEF Checks
      <4> QED
        BY <4>2
    <3> QED
      BY <3>1, EndChecked
  <2> QED
    BY <1>1, <2>1 DEF DepartureOf
<1>3. [s \in Slots |-> DepartureOf(desired, s)]
        = [s \in Slots |-> IF s \in DOMAIN virtual.contacts /\ Leaves(desired, s)
                           THEN <<Event("slot", s), Event("id", -1)>> ELSE <<>>]
  BY Zenon DEF DepartureOf, Gone
<1> QED
  BY <1>2, <1>3, Zenon DEF Departures

LEMMA DeparturesChecked ==
    ASSUME NEW desired, NEW v \in Checks, Gone(desired) \subseteq DOMAIN v.ids
    PROVE  LET w == Checked(v, Departures(desired))
           IN  /\ Departures(desired) \in Seq(OutEvents)
               /\ w \in Checks
               /\ w.ok = v.ok
               /\ DOMAIN w.ids = DOMAIN v.ids \ Gone(desired)
               /\ \A t \in DOMAIN w.ids : w.ids[t] = v.ids[t]
<1> DEFINE f == [s \in Slots |-> DepartureOf(desired, s)]
           gone == Gone(desired)
<1>1. f \in [Slots -> Seq(OutEvents)] /\ Departures(desired) = EachSlot(f)
  BY DeparturesAre
<1>2. PICK c : /\ c[0] = v
               /\ \A s \in Slots : c[s + 1] = Checked(c[s], f[s])
               /\ \A n \in 0 .. SlotCount : c[n] \in Checks
               /\ c[SlotCount] = Checked(v, EachSlot(f))
  BY <1>1, CheckSlotBySlot
<1>3. EachSlot(f) \in Seq(OutEvents)
  BY <1>1, CheckSlotBySlot
<1> DEFINE Is(n) == /\ c[n].ok = v.ok
                    /\ DOMAIN c[n].ids = DOMAIN v.ids \ {s \in gone : s < n}
                    /\ \A t \in DOMAIN c[n].ids : c[n].ids[t] = v.ids[t]
           A == {n \in 0 .. SlotCount : Is(n)}
<1>4. gone \subseteq DOMAIN v.ids /\ DOMAIN v.ids \subseteq Slots
  BY SomeSlotsIs DEF Checks
<1>5. ASSUME NEW s \in Slots, Is(s) PROVE Is(s + 1)
  <2>1. s \in 0 .. SlotCount /\ s + 1 \in 0 .. SlotCount /\ s \in Nat
    BY SlotsAre
  <2>2. c[s] \in Checks /\ c[s + 1] = Checked(c[s], DepartureOf(desired, s))
    BY <1>2, <2>1
  <2>3. \A t \in gone : t < s + 1 <=> t < s \/ t = s
    BY <1>4, <2>1, SlotsAre
  <2>4. CASE s \in gone
    <3>1. c[s + 1] = [ok |-> c[s].ok /\ s \in DOMAIN c[s].ids, slot |-> s, ids |-> Without(c[s].ids, s)]
      BY <2>2, <2>4, EndChecked DEF DepartureOf
    <3>2. s \in DOMAIN c[s].ids
      BY <1>4, <1>5, <2>1, <2>4
    <3>3. c[s].ids \in SomeSlots(Ids)
      BY <2>2 DEF Checks
    <3>4. /\ DOMAIN Without(c[s].ids, s) = DOMAIN c[s].ids \ {s}
          /\ \A t \in DOMAIN c[s].ids \ {s} : Without(c[s].ids, s)[t] = c[s].ids[t]
      BY <3>3, WithoutIs
    <3>5. c[s + 1].ids = Without(c[s].ids, s) /\ c[s + 1].ok = v.ok
      BY <1>5, <2>2, <3>1, <3>2 DEF Checks
    <3>6. DOMAIN c[s + 1].ids = DOMAIN v.ids \ {t \in gone : t < s + 1}
      BY <1>4, <1>5, <2>3, <2>4, <3>4, <3>5
    <3> QED
      BY <1>5, <3>4, <3>5, <3>6
  <2>5. CASE s \notin gone
    <3>1. c[s + 1] = c[s]
      BY <2>2, <2>5, NoneChecked DEF DepartureOf
    <3>2. {t \in gone : t < s + 1} = {t \in gone : t < s}
      BY <2>3, <2>5
    <3> QED
      BY <1>5, <3>1, <3>2
  <2> QED
    BY <2>4, <2>5
<1>6. Is(0)
  <2>1. {s \in gone : s < 0} = {}
    BY <1>4, SlotsAre
  <2> QED
    BY <1>2, <2>1
<1>7. Is(SlotCount)
  <2> HIDE DEF Is
  <2>1. 0 \in 0 .. SlotCount /\ SlotCount \in 0 .. SlotCount /\ \A s \in Slots : s + 1 \in 0 .. SlotCount
    BY SlotsAre
  <2>2. A = 0 .. SlotCount
    BY <1>5, <1>6, <2>1, SlotInduction
  <2> QED
    BY <2>1, <2>2
<1>8. {s \in gone : s < SlotCount} = gone
  BY <1>4, SlotsAre
<1>9. c[SlotCount] \in Checks
  BY <1>2, SlotsAre
<1> QED
  BY <1>1, <1>2, <1>3, <1>7, <1>8, <1>9

LEMMA DeparturesApplied ==
    ASSUME NEW desired, NEW d \in Devices, Gone(desired) \subseteq Slots
    PROVE  LET w == Applied(d, Departures(desired))
           IN  /\ w \in Devices
               /\ DOMAIN w.ids = DOMAIN d.ids \ Gone(desired)
               /\ \A t \in DOMAIN w.ids : w.ids[t] = d.ids[t]
               /\ w.x = d.x /\ w.tools = d.tools /\ w.button = d.button
<1> DEFINE f == [s \in Slots |-> DepartureOf(desired, s)]
           gone == Gone(desired)
<1>1. f \in [Slots -> Seq(OutEvents)] /\ Departures(desired) = EachSlot(f)
  BY DeparturesAre
<1>2. PICK c : /\ c[0] = d
               /\ \A s \in Slots : c[s + 1] = Applied(c[s], f[s])
               /\ \A n \in 0 .. SlotCount : c[n] \in Devices
               /\ c[SlotCount] = Applied(d, EachSlot(f))
  BY <1>1, ApplySlotBySlot
<1> DEFINE Is(n) == /\ DOMAIN c[n].ids = DOMAIN d.ids \ {s \in gone : s < n}
                    /\ \A t \in DOMAIN c[n].ids : c[n].ids[t] = d.ids[t]
                    /\ c[n].x = d.x /\ c[n].tools = d.tools /\ c[n].button = d.button
           A == {n \in 0 .. SlotCount : Is(n)}
<1>4. gone \subseteq Slots
  OBVIOUS
<1>5. ASSUME NEW s \in Slots, Is(s) PROVE Is(s + 1)
  <2>1. s \in 0 .. SlotCount /\ s + 1 \in 0 .. SlotCount /\ s \in Nat
    BY SlotsAre
  <2>2. c[s] \in Devices /\ c[s + 1] = Applied(c[s], DepartureOf(desired, s))
    BY <1>2, <2>1
  <2>3. \A t \in gone : t < s + 1 <=> t < s \/ t = s
    BY <1>4, <2>1, SlotsAre
  <2>4. CASE s \in gone
    <3>1. c[s + 1] = [c[s] EXCEPT !.slot = s, !.ids = Without(@, s)]
      BY <2>2, <2>4, EndApplied DEF DepartureOf
    <3>3. c[s].ids \in SomeSlots(Ids)
      BY <2>2 DEF Devices
    <3>4. /\ DOMAIN Without(c[s].ids, s) = DOMAIN c[s].ids \ {s}
          /\ \A t \in DOMAIN c[s].ids \ {s} : Without(c[s].ids, s)[t] = c[s].ids[t]
      BY <3>3, WithoutIs
    <3>5. /\ c[s + 1].ids = Without(c[s].ids, s) /\ c[s + 1].x = c[s].x
          /\ c[s + 1].tools = c[s].tools /\ c[s + 1].button = c[s].button
      BY <2>2, <3>1 DEF Devices
    <3>6. DOMAIN c[s + 1].ids = DOMAIN d.ids \ {t \in gone : t < s + 1}
      BY <1>4, <1>5, <2>3, <2>4, <3>4, <3>5
    <3> QED
      BY <1>5, <3>4, <3>5, <3>6
  <2>5. CASE s \notin gone
    <3>1. c[s + 1] = c[s]
      BY <2>2, <2>5, NoneApplied DEF DepartureOf
    <3>2. {t \in gone : t < s + 1} = {t \in gone : t < s}
      BY <2>3, <2>5
    <3> QED
      BY <1>5, <3>1, <3>2
  <2> QED
    BY <2>4, <2>5
<1>6. Is(0)
  <2>1. {s \in gone : s < 0} = {}
    BY <1>4, SlotsAre
  <2> QED
    BY <1>2, <2>1
<1>7. Is(SlotCount)
  <2> HIDE DEF Is
  <2>1. 0 \in 0 .. SlotCount /\ SlotCount \in 0 .. SlotCount /\ \A s \in Slots : s + 1 \in 0 .. SlotCount
    BY SlotsAre
  <2>2. A = 0 .. SlotCount
    BY <1>5, <1>6, <2>1, SlotInduction
  <2> QED
    BY <2>1, <2>2
<1>8. {s \in gone : s < SlotCount} = gone
  BY <1>4, SlotsAre
<1>9. c[SlotCount] \in Devices
  BY <1>2, SlotsAre
<1> QED
  BY <1>1, <1>2, <1>7, <1>8, <1>9

IdOf(desired, s) == Allocated(Cardinality({t \in New(desired) : t < s}))

LEMMA AllocatedType ==
    ASSUME virtual.next \in Ids, NEW k \in Nat
    PROVE  Allocated(k) \in Ids
<1>1. MaxTrackingId \in Nat /\ MaxTrackingId > 0
  BY TrackingIdAssumption
<1>2. virtual.next - 1 + k \in Nat
  BY <1>1 DEF Ids
<1> DEFINE n == virtual.next - 1 + k
<1> HIDE DEF n
<1>3. n % MaxTrackingId \in 0 .. (MaxTrackingId - 1)
  BY <1>1, <1>2 DEF n
<1> QED
  BY <1>1, <1>3 DEF Allocated, n, Ids

LEMMA NewAre ==
    ASSUME NEW desired \in Snapshots, virtual.next \in Ids
    PROVE  /\ DOMAIN desired.contacts \subseteq Slots
           /\ New(desired) \subseteq DOMAIN desired.contacts
           /\ \A s \in DOMAIN desired.contacts : desired.contacts[s] \in Contact
           /\ \A s : IdOf(desired, s) \in Ids
<1>1. DOMAIN desired.contacts \subseteq Slots /\ desired.contacts \in [DOMAIN desired.contacts -> Contact]
  <2>1. desired.contacts \in SomeSlots(Contact)
    BY DEF Snapshots
  <2> QED
    BY <2>1, SomeSlotsIs
<1>2. New(desired) \subseteq DOMAIN desired.contacts
  BY DEF New
<1>3. ASSUME NEW s PROVE IdOf(desired, s) \in Ids
  <2>1. {t \in New(desired) : t < s} \subseteq Slots
    BY <1>1, <1>2
  <2>2. Cardinality({t \in New(desired) : t < s}) \in Nat
    BY <2>1, FiniteSlots
  <2> QED
    BY <2>2, AllocatedType DEF IdOf
<1> QED
  BY <1>1, <1>2, <1>3

\* What is sent for a slot, as the lemmas above have it.
LEMMA ContactOfIs ==
    ASSUME NEW desired \in Snapshots, NEW s \in Slots
    PROVE  /\ s \notin DOMAIN desired.contacts => ContactOf(desired, s) = <<>>
           /\ s \in New(desired) =>
                 ContactOf(desired, s)
                   = <<Event("slot", s), Event("id", IdOf(desired, s))>> \o Placed(desired.contacts[s])
           /\ s \in DOMAIN desired.contacts \ New(desired) =>
                 ContactOf(desired, s)
                   = IF desired.contacts[s].x # virtual.contacts[s].x
                     THEN <<Event("slot", s)>> \o Placed(desired.contacts[s]) ELSE <<>>
<1>1. New(desired) \subseteq DOMAIN desired.contacts
  BY DEF New
<1> QED
  BY <1>1, Zenon DEF ContactOf, IdOf

LEMMA ContactsAre ==
    ASSUME NEW desired \in Snapshots, virtual.next \in Ids
    PROVE  /\ [s \in Slots |-> ContactOf(desired, s)] \in [Slots -> Seq(OutEvents)]
           /\ Contacts(desired) = EachSlot([s \in Slots |-> ContactOf(desired, s)])
<1>1. <<>> \in Seq(OutEvents)
  OBVIOUS
<1>2. PICK v \in Checks : TRUE
  <2>1. [s0 \in {} |-> 0] \in SomeSlots(Ids)
    BY DEF SomeSlots
  <2>2. [ok |-> TRUE, slot |-> None, ids |-> [s0 \in {} |-> 0]] \in Checks
    BY <2>1 DEF Checks
  <2> QED
    BY <2>2
<1>3. ASSUME NEW s \in Slots PROVE ContactOf(desired, s) \in Seq(OutEvents)
  <2>1. CASE s \notin DOMAIN desired.contacts
    BY <1>1, <2>1, ContactOfIs
  <2>2. CASE s \in New(desired)
    <3> DEFINE i == IdOf(desired, s)
               k == desired.contacts[s]
    <3>1. i \in Ids /\ k \in Contact
      BY <2>2, NewAre
    <3>2. ContactOf(desired, s) = <<Event("slot", s), Event("id", i)>> \o Placed(k)
      BY <2>2, ContactOfIs
    <3> HIDE DEF i, k
    <3>3. <<Event("slot", s), Event("id", i)>> \o Placed(k) \in Seq(OutEvents)
      BY <1>2, <3>1, ArrivalChecked
    <3> QED
      BY <3>2, <3>3
  <2>3. CASE s \in DOMAIN desired.contacts \ New(desired)
    <3>1. desired.contacts[s] \in Contact
      BY <2>3, NewAre
    <3>2. <<Event("slot", s)>> \o Placed(desired.contacts[s]) \in Seq(OutEvents)
      BY <1>2, <3>1, MoveChecked
    <3> QED
      BY <1>1, <2>3, <3>2, ContactOfIs
  <2> QED
    BY <2>1, <2>2, <2>3
<1> QED
  BY <1>3 DEF Contacts

\* The ids that a packet gives out are free.
Fresh(desired, ids) ==
    /\ New(desired) \cap DOMAIN ids = {}
    /\ \A s \in New(desired) :
          /\ \A t \in DOMAIN ids : ids[t] # IdOf(desired, s)
          /\ \A t \in New(desired) : IdOf(desired, t) = IdOf(desired, s) => t = s

LEMMA ContactsChecked ==
    ASSUME NEW desired \in Snapshots, virtual.next \in Ids, NEW v \in Checks
    PROVE  LET w == Checked(v, Contacts(desired))
           IN  /\ Contacts(desired) \in Seq(OutEvents)
               /\ w \in Checks
               /\ v.ok /\ Fresh(desired, v.ids) => w.ok
               /\ DOMAIN w.ids = DOMAIN v.ids \cup New(desired)
               /\ \A t \in New(desired) : w.ids[t] = IdOf(desired, t)
               /\ \A t \in DOMAIN v.ids \ New(desired) : w.ids[t] = v.ids[t]
<1> DEFINE f == [s \in Slots |-> ContactOf(desired, s)]
           new == New(desired)
           id(t) == IdOf(desired, t)
<1>1. f \in [Slots -> Seq(OutEvents)] /\ Contacts(desired) = EachSlot(f)
  BY ContactsAre
<1>2. PICK c : /\ c[0] = v
               /\ \A s \in Slots : c[s + 1] = Checked(c[s], f[s])
               /\ \A n \in 0 .. SlotCount : c[n] \in Checks
               /\ c[SlotCount] = Checked(v, EachSlot(f))
  BY <1>1, CheckSlotBySlot
<1>3. EachSlot(f) \in Seq(OutEvents)
  BY <1>1, CheckSlotBySlot
<1> DEFINE Is(n) == /\ v.ok /\ Fresh(desired, v.ids) => c[n].ok
                    /\ DOMAIN c[n].ids = DOMAIN v.ids \cup {s \in new : s < n}
                    /\ \A t \in new : t < n => c[n].ids[t] = id(t)
                    /\ \A t \in DOMAIN v.ids \ new : c[n].ids[t] = v.ids[t]
           A == {n \in 0 .. SlotCount : Is(n)}
<1>4. new \subseteq Slots /\ new \subseteq DOMAIN desired.contacts
  BY NewAre
<1>5. ASSUME NEW s \in Slots, Is(s) PROVE Is(s + 1)
  <2>1. s \in 0 .. SlotCount /\ s + 1 \in 0 .. SlotCount /\ s \in Nat
    BY SlotsAre
  <2>2. c[s] \in Checks /\ c[s + 1] = Checked(c[s], ContactOf(desired, s))
    BY <1>2, <2>1
  <2>3. \A t \in new : t < s + 1 <=> t < s \/ t = s
    BY <1>4, <2>1, SlotsAre
  <2>4. CASE s \in new
    <3> DEFINE i == id(s)
               k == desired.contacts[s]
    <3>1. i \in Ids /\ k \in Contact
      BY <2>4, NewAre
    <3>2. ContactOf(desired, s) = <<Event("slot", s), Event("id", i)>> \o Placed(k)
      BY <2>4, ContactOfIs
    <3> HIDE DEF i, k
    <3>3. c[s + 1] = [ok   |-> /\ c[s].ok
                               /\ s \notin DOMAIN c[s].ids
                               /\ \A t \in DOMAIN c[s].ids : c[s].ids[t] # i,
                      slot |-> s,
                      ids  |-> With(c[s].ids, s, i)]
      BY <2>2, <3>1, <3>2, ArrivalChecked
    <3>4. c[s].ids \in SomeSlots(Ids)
      BY <2>2 DEF Checks
    <3>5. /\ DOMAIN With(c[s].ids, s, i) = DOMAIN c[s].ids \cup {s}
          /\ With(c[s].ids, s, i)[s] = i
          /\ \A t \in DOMAIN c[s].ids \ {s} : With(c[s].ids, s, i)[t] = c[s].ids[t]
      BY <3>1, <3>4, WithId
    <3>6. /\ c[s + 1].ids = With(c[s].ids, s, i)
          /\ c[s + 1].ok = (/\ c[s].ok
                            /\ s \notin DOMAIN c[s].ids
                            /\ \A t \in DOMAIN c[s].ids : c[s].ids[t] # i)
      BY <3>3
    <3>7. v.ok /\ Fresh(desired, v.ids) => c[s + 1].ok
      <4> SUFFICES ASSUME v.ok, Fresh(desired, v.ids) PROVE c[s + 1].ok
        OBVIOUS
      <4>1. c[s].ok
        BY <1>5
      <4>2. s \notin DOMAIN c[s].ids
        <5>1. s \notin DOMAIN v.ids
          BY <2>4 DEF Fresh
        <5>2. ~(s < s)
          BY <2>1
        <5> QED
          BY <1>5, <5>1, <5>2
      <4>3. ASSUME NEW t \in DOMAIN c[s].ids PROVE c[s].ids[t] # i
        <5>1. CASE t \in new
          <6>1. t < s /\ t # s
            <7>1. t \notin DOMAIN v.ids
              BY <5>1 DEF Fresh
            <7>2. t < s
              BY <1>5, <4>3, <7>1
            <7> QED
              BY <1>4, <2>1, <5>1, <7>2, SlotsAre
          <6>2. c[s].ids[t] = id(t)
            BY <1>5, <5>1, <6>1
          <6>3. id(t) # id(s)
            BY <2>4, <5>1, <6>1 DEF Fresh
          <6> QED
            BY <6>2, <6>3 DEF i
        <5>2. CASE t \notin new
          <6>1. t \in DOMAIN v.ids \ new
            BY <1>5, <4>3, <5>2
          <6>2. c[s].ids[t] = v.ids[t]
            BY <1>5, <6>1
          <6>3. v.ids[t] # id(s)
            BY <2>4, <6>1 DEF Fresh
          <6> QED
            BY <6>2, <6>3 DEF i
        <5> QED
          BY <5>1, <5>2
      <4> QED
        BY <3>6, <4>1, <4>2, <4>3
    <3>8. DOMAIN c[s + 1].ids = DOMAIN v.ids \cup {t \in new : t < s + 1}
      BY <1>4, <1>5, <2>3, <2>4, <3>5, <3>6
    <3>9. ASSUME NEW t \in new, t < s + 1 PROVE c[s + 1].ids[t] = id(t)
      <4>1. CASE t = s
        BY <3>5, <3>6, <4>1 DEF i
      <4>2. CASE t # s
        BY <1>5, <2>3, <3>5, <3>6, <3>9, <4>2
      <4> QED
        BY <4>1, <4>2
    <3>10. ASSUME NEW t \in DOMAIN v.ids \ new PROVE c[s + 1].ids[t] = v.ids[t]
      BY <1>5, <2>4, <3>5, <3>6
    <3> QED
      BY <3>7, <3>8, <3>9, <3>10
  <2>5. CASE s \notin new
    <3>1. c[s + 1].ids = c[s].ids /\ c[s + 1].ok = c[s].ok
      <4>1. CASE ContactOf(desired, s) = <<>>
        BY <2>2, <4>1, NoneChecked
      <4>2. CASE ContactOf(desired, s) # <<>>
        <5>1. /\ ContactOf(desired, s) = <<Event("slot", s)>> \o Placed(desired.contacts[s])
              /\ s \in DOMAIN desired.contacts
          BY <2>5, <4>2, ContactOfIs
        <5>2. desired.contacts[s] \in Contact
          BY <5>1, NewAre
        <5>3. c[s + 1] = [c[s] EXCEPT !.slot = s]
          BY <2>2, <5>1, <5>2, MoveChecked
        <5> QED
          BY <2>2, <5>3 DEF Checks
      <4> QED
        BY <4>1, <4>2
    <3>2. \A t \in new : t < s + 1 <=> t < s
      BY <2>3, <2>5
    <3> HIDE DEF new
    <3> QED
      BY <1>5, <3>1, <3>2
  <2> QED
    BY <2>4, <2>5
<1>6. Is(0)
  <2>1. \A s \in new : ~(s < 0)
    BY <1>4, SlotsAre
  <2> QED
    BY <1>2, <2>1
<1>7. Is(SlotCount)
  <2> HIDE DEF Is
  <2>1. 0 \in 0 .. SlotCount /\ SlotCount \in 0 .. SlotCount /\ \A s \in Slots : s + 1 \in 0 .. SlotCount
    BY SlotsAre
  <2>2. A = 0 .. SlotCount
    BY <1>5, <1>6, <2>1, SlotInduction
  <2> QED
    BY <2>1, <2>2
<1>8. \A s \in new : s < SlotCount
  BY <1>4, SlotsAre
<1>9. c[SlotCount] \in Checks
  BY <1>2, SlotsAre
<1> QED
  BY <1>1, <1>2, <1>3, <1>7, <1>8, <1>9

\* The packet places this slot's contact.
Places(desired, s) ==
    /\ s \in DOMAIN desired.contacts
    /\ s \in New(desired) \/ desired.contacts[s].x # virtual.contacts[s].x
    /\ desired.contacts[s].x # None

LEMMA ContactsApplied ==
    ASSUME NEW desired \in Snapshots, virtual.next \in Ids, NEW d \in Devices
    PROVE  LET w == Applied(d, Contacts(desired))
           IN  /\ w \in Devices
               /\ DOMAIN w.ids = DOMAIN d.ids \cup New(desired)
               /\ \A t \in New(desired) : w.ids[t] = IdOf(desired, t)
               /\ \A t \in DOMAIN d.ids \ New(desired) : w.ids[t] = d.ids[t]
               /\ \A t \in Slots : w.x[t] = IF Places(desired, t) THEN desired.contacts[t].x ELSE d.x[t]
               /\ w.tools = d.tools /\ w.button = d.button
<1> DEFINE f == [s \in Slots |-> ContactOf(desired, s)]
           new == New(desired)
           id(t) == IdOf(desired, t)
           X(t) == desired.contacts[t].x
<1>1. f \in [Slots -> Seq(OutEvents)] /\ Contacts(desired) = EachSlot(f)
  BY ContactsAre
<1>2. PICK c : /\ c[0] = d
               /\ \A s \in Slots : c[s + 1] = Applied(c[s], f[s])
               /\ \A n \in 0 .. SlotCount : c[n] \in Devices
               /\ c[SlotCount] = Applied(d, EachSlot(f))
  BY <1>1, ApplySlotBySlot
<1> DEFINE Is(n) == /\ DOMAIN c[n].ids = DOMAIN d.ids \cup {s \in new : s < n}
                    /\ \A t \in new : t < n => c[n].ids[t] = id(t)
                    /\ \A t \in DOMAIN d.ids \ new : c[n].ids[t] = d.ids[t]
                    /\ \A t \in Slots :
                          c[n].x[t] = IF t < n /\ Places(desired, t) THEN X(t) ELSE d.x[t]
                    /\ c[n].tools = d.tools /\ c[n].button = d.button
           A == {n \in 0 .. SlotCount : Is(n)}
<1>4. new \subseteq Slots /\ new \subseteq DOMAIN desired.contacts
  BY NewAre
<1>5. ASSUME NEW s \in Slots, Is(s) PROVE Is(s + 1)
  <2>1. s \in 0 .. SlotCount /\ s + 1 \in 0 .. SlotCount /\ s \in Nat
    BY SlotsAre
  <2>2. c[s] \in Devices /\ c[s + 1] = Applied(c[s], ContactOf(desired, s))
    BY <1>2, <2>1
  <2>3. \A t \in Slots : (t < s + 1 <=> t < s \/ t = s) /\ ~(s < s)
    BY <2>1, SlotsAre
  <2> DEFINE k == desired.contacts[s]
  <2>4. CASE s \in new
    <3> DEFINE i == id(s)
    <3>1. i \in Ids /\ k \in Contact
      BY <2>4, NewAre
    <3>2. ContactOf(desired, s) = <<Event("slot", s), Event("id", i)>> \o Placed(k)
      BY <2>4, ContactOfIs
    <3>3. Places(desired, s) <=> k.x # None
      BY <1>4, <2>4 DEF Places
    <3> HIDE DEF i, k
    <3>5. c[s].ids \in SomeSlots(Ids)
      BY <2>2 DEF Devices
    <3>6. /\ DOMAIN With(c[s].ids, s, i) = DOMAIN c[s].ids \cup {s}
          /\ With(c[s].ids, s, i)[s] = i
          /\ \A t \in DOMAIN c[s].ids \ {s} : With(c[s].ids, s, i)[t] = c[s].ids[t]
      BY <3>1, <3>5, WithId
    <3>7. /\ c[s + 1].ids = With(c[s].ids, s, i)
          /\ c[s + 1].tools = c[s].tools /\ c[s + 1].button = c[s].button
          /\ \A t \in Slots : c[s + 1].x[t] = IF t = s /\ k.x # None THEN k.x ELSE c[s].x[t]
      BY <2>2, <3>1, <3>2, ArrivalApplied
    <3>8. DOMAIN c[s + 1].ids = DOMAIN d.ids \cup {t \in new : t < s + 1}
      BY <1>4, <1>5, <2>3, <2>4, <3>6, <3>7
    <3>9. ASSUME NEW t \in new, t < s + 1 PROVE c[s + 1].ids[t] = id(t)
      <4>1. CASE t = s
        BY <3>6, <3>7, <4>1 DEF i
      <4>2. CASE t # s
        BY <1>4, <1>5, <2>3, <3>6, <3>7, <3>9, <4>2
      <4> QED
        BY <4>1, <4>2
    <3>10. ASSUME NEW t \in DOMAIN d.ids \ new PROVE c[s + 1].ids[t] = d.ids[t]
      BY <1>5, <2>4, <3>6, <3>7
    <3>11. ASSUME NEW t \in Slots
           PROVE  c[s + 1].x[t] = IF t < s + 1 /\ Places(desired, t) THEN X(t) ELSE d.x[t]
      <4>1. CASE t = s
        BY <1>5, <2>3, <3>3, <3>7, <4>1 DEF k
      <4>2. CASE t # s
        BY <1>5, <2>3, <3>7, <4>2
      <4> QED
        BY <4>1, <4>2
    <3> QED
      BY <1>5, <3>7, <3>8, <3>9, <3>10, <3>11
  <2>5. CASE s \notin new
    <3>1. /\ c[s + 1].ids = c[s].ids /\ c[s + 1].tools = c[s].tools /\ c[s + 1].button = c[s].button
          /\ \A t \in Slots :
                c[s + 1].x[t] = IF t = s /\ Places(desired, s) THEN X(s) ELSE c[s].x[t]
      <4>1. CASE ContactOf(desired, s) = <<>> /\ ~Places(desired, s)
        BY <2>2, <4>1, NoneApplied
      <4>2. CASE ~(ContactOf(desired, s) = <<>> /\ ~Places(desired, s))
        <5>1. /\ ContactOf(desired, s) = <<Event("slot", s)>> \o Placed(k)
              /\ s \in DOMAIN desired.contacts
              /\ Places(desired, s) <=> k.x # None
          BY <2>5, <4>2, ContactOfIs DEF Places
        <5>2. k \in Contact
          BY <5>1, NewAre
        <5>3. /\ c[s + 1].ids = c[s].ids
              /\ c[s + 1].tools = c[s].tools /\ c[s + 1].button = c[s].button
              /\ \A t \in Slots : c[s + 1].x[t] = IF t = s /\ k.x # None THEN k.x ELSE c[s].x[t]
          BY <2>2, <5>1, <5>2, MoveApplied
        <5> QED
          BY <5>1, <5>3
      <4> QED
        BY <4>1, <4>2
    <3>2. \A t \in new : t < s + 1 <=> t < s
      BY <1>4, <2>3, <2>5
    <3>3. ASSUME NEW t \in Slots
          PROVE  c[s + 1].x[t] = IF t < s + 1 /\ Places(desired, t) THEN X(t) ELSE d.x[t]
      <4>1. CASE t = s
        BY <1>5, <2>3, <3>1, <4>1
      <4>2. CASE t # s
        BY <1>5, <2>3, <3>1, <4>2
      <4> QED
        BY <4>1, <4>2
    <3> HIDE DEF new, X
    <3> QED
      BY <1>5, <3>1, <3>2, <3>3
  <2> QED
    BY <2>4, <2>5
<1>6. Is(0)
  <2>1. \A s \in Slots : ~(s < 0)
    BY SlotsAre
  <2> QED
    BY <1>2, <1>4, <2>1
<1>7. Is(SlotCount)
  <2> HIDE DEF Is
  <2>1. 0 \in 0 .. SlotCount /\ SlotCount \in 0 .. SlotCount /\ \A s \in Slots : s + 1 \in 0 .. SlotCount
    BY SlotsAre
  <2>2. A = 0 .. SlotCount
    BY <1>5, <1>6, <2>1, SlotInduction
  <2> QED
    BY <2>1, <2>2
<1>8. \A s \in Slots : s < SlotCount
  BY SlotsAre
<1>9. c[SlotCount] \in Devices
  BY <1>2, SlotsAre
<1> QED
  BY <1>1, <1>2, <1>4, <1>7, <1>8, <1>9

\* The button and the tool keys are nothing to the validator.
LEMMA KeyChecked ==
    ASSUME NEW v \in Checks, NEW e \in OutEvents, e.code \in {"button", "tool_up", "tool_down"}
    PROVE  Check(v, e) = v
  BY DEF Check

LEMMA ToolKeyIs ==
    ASSUME NEW c \in {"tool_up", "tool_down"}, NEW n \in Nat
    PROVE  /\ ToolKey(c, n) \in Seq(OutEvents)
           /\ \A v \in Checks : Checked(v, ToolKey(c, n)) = v
           /\ \A d \in Devices :
                 LET w == Applied(d, ToolKey(c, n))
                 IN  /\ w.ids = d.ids /\ w.x = d.x /\ w.button = d.button
                     /\ c = "tool_up" => w.tools = d.tools \ {n}
                     /\ c = "tool_down" => w.tools = d.tools \cup ({n} \cap (1 .. 5))
<1>1. CASE n \in 1 .. 5
  <2> DEFINE e == Event(c, n)
  <2>1. e \in OutEvents /\ e.code = c /\ e.value = n
    BY <1>1, EventsAre DEF Event
  <2>2. ToolKey(c, n) = <<e>>
    BY <1>1 DEF ToolKey
  <2> HIDE DEF e
  <2>3. <<e>> \in Seq(OutEvents)
    BY <2>1
  <2>4. ASSUME NEW v \in Checks PROVE Checked(v, <<e>>) = v
    BY <2>1, OneChecked, KeyChecked
  <2>5. ASSUME NEW d \in Devices
        PROVE  LET w == Applied(d, <<e>>)
               IN  /\ w.ids = d.ids /\ w.x = d.x /\ w.button = d.button
                   /\ c = "tool_up" => w.tools = d.tools \ {n}
                   /\ c = "tool_down" => w.tools = d.tools \cup ({n} \cap (1 .. 5))
    <3>1. Applied(d, <<e>>) = Apply(d, e)
      BY <2>1, OneApplied
    <3>2. CASE c = "tool_up"
      <4>1. Apply(d, e) = [d EXCEPT !.tools = @ \ {n}]
        BY <2>1, <3>2 DEF Apply
      <4> QED
        BY <3>1, <3>2, <4>1 DEF Devices
    <3>3. CASE c = "tool_down"
      <4>1. Apply(d, e) = [d EXCEPT !.tools = @ \cup {n}]
        BY <2>1, <3>3 DEF Apply
      <4>2. {n} \cap (1 .. 5) = {n}
        BY <1>1
      <4> QED
        BY <3>1, <3>3, <4>1, <4>2 DEF Devices
    <3> QED
      BY <3>2, <3>3
  <2> QED
    BY <2>2, <2>3, <2>4, <2>5
<1>2. CASE n \notin 1 .. 5
  <2>1. ToolKey(c, n) = <<>> /\ <<>> \in Seq(OutEvents)
    BY <1>2 DEF ToolKey
  <2>2. ASSUME NEW d \in Devices
        PROVE  d.tools = d.tools \ {n} /\ d.tools = d.tools \cup ({n} \cap (1 .. 5))
    <3>1. d.tools \subseteq 1 .. 5
      BY DEF Devices
    <3> QED
      BY <1>2, <3>1
  <2> QED
    BY <2>1, <2>2, NoneChecked, NoneApplied
<1> QED
  BY <1>1, <1>2

LEMMA ButtonIs ==
    ASSUME NEW b \in BOOLEAN
    PROVE  LET e == Event("button", IF b THEN 1 ELSE 0)
           IN  /\ <<e>> \in Seq(OutEvents)
               /\ \A v \in Checks : Checked(v, <<e>>) = v
               /\ \A d \in Devices : Applied(d, <<e>>) = [d EXCEPT !.button = b]
<1> DEFINE e == Event("button", IF b THEN 1 ELSE 0)
<1>1. e \in OutEvents /\ e.code = "button" /\ (e.value = 1) = b
  BY EventsAre DEF Event
<1> HIDE DEF e
<1>2. <<e>> \in Seq(OutEvents)
  BY <1>1
<1>3. ASSUME NEW v \in Checks PROVE Checked(v, <<e>>) = v
  BY <1>1, OneChecked, KeyChecked
<1>4. ASSUME NEW d \in Devices PROVE Applied(d, <<e>>) = [d EXCEPT !.button = b]
  <2>1. Apply(d, e) = [d EXCEPT !.button = (e.value = 1)]
    BY <1>1 DEF Apply
  <2>2. [d EXCEPT !.button = (e.value = 1)] = [d EXCEPT !.button = b]
    BY <1>1, Zenon
  <2> QED
    BY <1>1, <2>1, <2>2, OneApplied
<1> QED
  BY <1>2, <1>3, <1>4 DEF e

LEMMA KeysAre ==
    ASSUME NEW desired \in Snapshots, virtual.contacts \in SomeSlots(Contact),
           virtual.button \in BOOLEAN
    PROVE  /\ Keys(desired) \in Seq(OutEvents)
           /\ \A v \in Checks : Checked(v, Keys(desired)) = v
           /\ \A d \in Devices :
                 LET w  == Applied(d, Keys(desired))
                     is == VirtualFingers(virtual)
                     to == VirtualFingers(desired)
                 IN  /\ w \in Devices
                     /\ w.ids = d.ids /\ w.x = d.x
                     /\ w.button = IF virtual.button = desired.button THEN d.button ELSE desired.button
                     /\ w.tools = IF is = to THEN d.tools
                                  ELSE (d.tools \ {is}) \cup ({to} \cap (1 .. 5))
<1> DEFINE is == VirtualFingers(virtual)
           to == VirtualFingers(desired)
           A == IF virtual.button = desired.button THEN <<>>
                ELSE <<Event("button", IF desired.button THEN 1 ELSE 0)>>
           U == ToolKey("tool_up", is)
           D == ToolKey("tool_down", to)
           B == IF is = to THEN <<>> ELSE U \o D
<1>1. Keys(desired) = A \o B
  BY DEF Keys
<1>2. is \in Nat /\ to \in Nat
  <2>1. DOMAIN virtual.contacts \subseteq Slots /\ DOMAIN desired.contacts \subseteq Slots
    BY SomeSlotsIs DEF Snapshots
  <2> QED
    BY <2>1, FiniteSlots DEF VirtualFingers
<1>3. desired.button \in BOOLEAN
  BY DEF Snapshots
<1>4. <<>> \in Seq(OutEvents)
  OBVIOUS
<1>5. /\ A \in Seq(OutEvents)
      /\ \A v \in Checks : Checked(v, A) = v
      /\ \A d \in Devices : /\ Applied(d, A).ids = d.ids /\ Applied(d, A).x = d.x
                            /\ Applied(d, A).tools = d.tools
                            /\ Applied(d, A).button = IF virtual.button = desired.button
                                                      THEN d.button ELSE desired.button
  <2>1. CASE virtual.button = desired.button
    <3>1. A = <<>>
      BY <2>1
    <3> HIDE DEF A
    <3> QED
      BY <1>4, <2>1, <3>1, NoneChecked, NoneApplied
  <2>2. CASE virtual.button # desired.button
    <3> DEFINE e == Event("button", IF desired.button THEN 1 ELSE 0)
    <3>1. A = <<e>>
      BY <2>2
    <3>2. /\ <<e>> \in Seq(OutEvents)
          /\ \A v \in Checks : Checked(v, <<e>>) = v
          /\ \A d \in Devices : Applied(d, <<e>>) = [d EXCEPT !.button = desired.button]
      BY <1>3, ButtonIs
    <3> HIDE DEF A, e
    <3>3. ASSUME NEW d \in Devices
          PROVE  /\ Applied(d, A).ids = d.ids /\ Applied(d, A).x = d.x
                 /\ Applied(d, A).tools = d.tools /\ Applied(d, A).button = desired.button
      BY <3>1, <3>2 DEF Devices
    <3> QED
      BY <2>2, <3>1, <3>2, <3>3
  <2> QED
    BY <2>1, <2>2
<1>6. /\ B \in Seq(OutEvents)
      /\ \A v \in Checks : Checked(v, B) = v
      /\ \A d \in Devices : /\ Applied(d, B).ids = d.ids /\ Applied(d, B).x = d.x
                            /\ Applied(d, B).button = d.button
                            /\ Applied(d, B).tools = IF is = to THEN d.tools
                                                     ELSE (d.tools \ {is}) \cup ({to} \cap (1 .. 5))
  <2>1. CASE is = to
    <3>1. B = <<>>
      BY <2>1
    <3> HIDE DEF B
    <3> QED
      BY <1>4, <2>1, <3>1, NoneChecked, NoneApplied
  <2>2. CASE is # to
    <3>1. B = U \o D
      BY <2>2
    <3>2. U \in Seq(OutEvents) /\ D \in Seq(OutEvents)
      BY <1>2, ToolKeyIs
    <3>3. ASSUME NEW v \in Checks PROVE Checked(v, U) = v /\ Checked(v, D) = v
      BY <1>2, ToolKeyIs
    <3>4. ASSUME NEW d \in Devices
          PROVE  /\ Applied(d, U).ids = d.ids /\ Applied(d, U).x = d.x
                 /\ Applied(d, U).button = d.button /\ Applied(d, U).tools = d.tools \ {is}
                 /\ Applied(d, D).ids = d.ids /\ Applied(d, D).x = d.x
                 /\ Applied(d, D).button = d.button
                 /\ Applied(d, D).tools = d.tools \cup ({to} \cap (1 .. 5))
      BY <1>2, ToolKeyIs
    <3> HIDE DEF U, D, B, is, to
    <3>5. ASSUME NEW v \in Checks PROVE Checked(v, U \o D) = v
      BY <3>2, <3>3, CheckedConcat
    <3>6. ASSUME NEW d \in Devices
          PROVE  Applied(d, U \o D) = Applied(Applied(d, U), D) /\ Applied(d, U) \in Devices
      BY <3>2, AppliedConcat, AppliedIs
    <3>7. U \o D \in Seq(OutEvents)
      BY <3>2
    <3> QED
      BY <2>2, <3>1, <3>4, <3>5, <3>6, <3>7
  <2> QED
    BY <2>1, <2>2
<1> HIDE DEF A, B, is, to
<1>7. ASSUME NEW v \in Checks PROVE Checked(v, A \o B) = v
  BY <1>5, <1>6, CheckedConcat
<1>8. ASSUME NEW d \in Devices
      PROVE  Applied(d, A \o B) = Applied(Applied(d, A), B) /\ Applied(d, A) \in Devices
             /\ Applied(Applied(d, A), B) \in Devices
  BY <1>5, <1>6, AppliedConcat, AppliedIs
<1>9. A \o B \in Seq(OutEvents)
  BY <1>5, <1>6
<1>10. ASSUME NEW d \in Devices
       PROVE  /\ Applied(d, A \o B).ids = d.ids /\ Applied(d, A \o B).x = d.x
              /\ Applied(d, A \o B).button = IF virtual.button = desired.button
                                             THEN d.button ELSE desired.button
              /\ Applied(d, A \o B).tools = IF is = to THEN d.tools
                                            ELSE (d.tools \ {is}) \cup ({to} \cap (1 .. 5))
  <2> DEFINE a == Applied(d, A)
  <2>1. /\ a.ids = d.ids /\ a.x = d.x /\ a.tools = d.tools
        /\ a.button = IF virtual.button = desired.button THEN d.button ELSE desired.button
    BY <1>5
  <2>2. a \in Devices /\ Applied(d, A \o B) = Applied(a, B)
    BY <1>8
  <2> HIDE DEF a
  <2>3. /\ Applied(a, B).ids = a.ids /\ Applied(a, B).x = a.x
        /\ Applied(a, B).button = a.button
        /\ Applied(a, B).tools = IF is = to THEN a.tools
                                 ELSE (a.tools \ {is}) \cup ({to} \cap (1 .. 5))
    BY <1>6, <2>2
  <2> QED
    BY <2>1, <2>2, <2>3
<1>11. /\ Keys(desired) \in Seq(OutEvents)
       /\ \A v \in Checks : Checked(v, Keys(desired)) = v
  BY <1>1, <1>7, <1>9
<1>12. ASSUME NEW d \in Devices
       PROVE  /\ Applied(d, Keys(desired)) \in Devices
              /\ Applied(d, Keys(desired)).ids = d.ids /\ Applied(d, Keys(desired)).x = d.x
              /\ Applied(d, Keys(desired)).button = IF virtual.button = desired.button
                                                   THEN d.button ELSE desired.button
              /\ Applied(d, Keys(desired)).tools = IF is = to THEN d.tools
                                                  ELSE (d.tools \ {is}) \cup ({to} \cap (1 .. 5))
  <2>1. Applied(d, Keys(desired)) = Applied(d, A \o B)
    BY <1>1
  <2>2. Applied(d, A \o B) \in Devices
    BY <1>8
  <2> QED
    BY <1>10, <2>1, <2>2
<1> QED
  BY <1>11, <1>12 DEF is, to

-----------------------------------------------------------------------------
(***************************************************************************)
(* What a packet does to the views of the virtual touchpad.                *)
(***************************************************************************)
Virtuals == [contacts : SomeSlots(Contact), button : BOOLEAN, next : Ids]

\* The contacts that stay when the desktop is to see the desired ones.
Kept(desired) == DOMAIN desired.contacts \ New(desired)

LEMMA GoneNewKept ==
    ASSUME virtual \in Virtuals, NEW desired \in Snapshots
    PROVE  /\ DOMAIN virtual.contacts \subseteq Slots /\ DOMAIN desired.contacts \subseteq Slots
           /\ Gone(desired) \subseteq DOMAIN virtual.contacts
           /\ New(desired) \subseteq DOMAIN desired.contacts
           /\ Kept(desired) = DOMAIN virtual.contacts \ Gone(desired)
           /\ \A s \in Kept(desired) : desired.contacts[s].id = virtual.contacts[s].id
           /\ \A s \in New(desired) : \/ s \notin DOMAIN virtual.contacts
                                      \/ desired.contacts[s].id # virtual.contacts[s].id
<1>1. virtual.contacts \in SomeSlots(Contact) /\ desired.contacts \in SomeSlots(Contact)
  BY DEF Virtuals, Snapshots
<1>2. DOMAIN virtual.contacts \subseteq Slots /\ DOMAIN desired.contacts \subseteq Slots
  BY <1>1, SomeSlotsIs
<1> QED
  BY <1>2 DEF Gone, New, Kept, Leaves, Arrives

LEMMA SynthesizeType ==
    ASSUME virtual \in Virtuals, NEW desired \in Snapshots
    PROVE  /\ Departures(desired) \in Seq(OutEvents)
           /\ Contacts(desired) \in Seq(OutEvents)
           /\ Keys(desired) \in Seq(OutEvents)
           /\ Synthesize(desired) \in Seq(OutEvents)
           /\ \A v \in Checks :
                 Checked(v, Synthesize(desired))
                   = Checked(Checked(Checked(v, Departures(desired)), Contacts(desired)), Keys(desired))
           /\ \A d \in Devices :
                 Applied(d, Synthesize(desired))
                   = Applied(Applied(Applied(d, Departures(desired)), Contacts(desired)), Keys(desired))
<1>0. virtual.next \in Ids /\ virtual.contacts \in SomeSlots(Contact) /\ virtual.button \in BOOLEAN
  BY DEF Virtuals
<1> DEFINE D == Departures(desired)
           C == Contacts(desired)
           K == Keys(desired)
<1>1. D \in Seq(OutEvents)
  <2> DEFINE f == [s \in Slots |-> DepartureOf(desired, s)]
  <2>1. f \in [Slots -> Seq(OutEvents)] /\ D = EachSlot(f)
    BY DeparturesAre
  <2> HIDE DEF f, D
  <2>2. PICK flat : /\ \A n \in 0 .. SlotCount : flat[n] \in Seq(OutEvents)
                    /\ flat[SlotCount] = EachSlot(f)
    BY <2>1, SlotBySlot
  <2>3. SlotCount \in 0 .. SlotCount
    BY SlotsAre
  <2> QED
    BY <2>1, <2>2, <2>3
<1>2. C \in Seq(OutEvents)
  <2> DEFINE f == [s \in Slots |-> ContactOf(desired, s)]
  <2>1. f \in [Slots -> Seq(OutEvents)] /\ C = EachSlot(f)
    BY <1>0, ContactsAre
  <2> HIDE DEF f, C
  <2>2. PICK flat : /\ \A n \in 0 .. SlotCount : flat[n] \in Seq(OutEvents)
                    /\ flat[SlotCount] = EachSlot(f)
    BY <2>1, SlotBySlot
  <2>3. SlotCount \in 0 .. SlotCount
    BY SlotsAre
  <2> QED
    BY <2>1, <2>2, <2>3
<1>3. K \in Seq(OutEvents)
  BY <1>0, KeysAre
<1>4. Synthesize(desired) = (D \o C) \o K
  BY DEF Synthesize
<1> HIDE DEF D, C, K
<1>5. D \o C \in Seq(OutEvents) /\ (D \o C) \o K \in Seq(OutEvents)
  BY <1>1, <1>2, <1>3
<1>6. ASSUME NEW v \in Checks
      PROVE  Checked(v, (D \o C) \o K) = Checked(Checked(Checked(v, D), C), K)
  <2>1. Checked(v, (D \o C) \o K) = Checked(Checked(v, D \o C), K)
    BY <1>3, <1>5, CheckedConcat
  <2>2. Checked(v, D \o C) = Checked(Checked(v, D), C)
    BY <1>1, <1>2, CheckedConcat
  <2> QED
    BY <2>1, <2>2
<1>7. ASSUME NEW d \in Devices
      PROVE  Applied(d, (D \o C) \o K) = Applied(Applied(Applied(d, D), C), K)
  <2>1. Applied(d, (D \o C) \o K) = Applied(Applied(d, D \o C), K)
    BY <1>3, <1>5, AppliedConcat
  <2>2. Applied(d, D \o C) = Applied(Applied(d, D), C)
    BY <1>1, <1>2, AppliedConcat
  <2> QED
    BY <2>1, <2>2
<1> QED
  BY <1>1, <1>2, <1>3, <1>4, <1>5, <1>6, <1>7 DEF D, C, K

\* The new ids are none of those that stay, and no two are the same.
NewIds(desired) ==
    \A s \in New(desired) :
        /\ \A t \in Kept(desired) : active[t] # IdOf(desired, s)
        /\ \A t \in New(desired) : IdOf(desired, t) = IdOf(desired, s) => t = s

\* While the validator knows the contacts of the synthesizer, it knows them
\* after the packet.
LEMMA PacketChecked ==
    ASSUME virtual \in Virtuals, NEW desired \in Snapshots,
           active \in SomeSlots(Ids), DOMAIN active = DOMAIN virtual.contacts
    PROVE  LET ids == Validate(Synthesize(desired)).ids
           IN  /\ NewIds(desired) => Validate(Synthesize(desired)).ok
               /\ DOMAIN ids = DOMAIN desired.contacts
               /\ \A t \in New(desired) : ids[t] = IdOf(desired, t)
               /\ \A t \in Kept(desired) : ids[t] = active[t]
<1> DEFINE v == [ok |-> TRUE, slot |-> None, ids |-> active]
           v1 == Checked(v, Departures(desired))
           v2 == Checked(v1, Contacts(desired))
           v3 == Checked(v2, Keys(desired))
<1>0. virtual.next \in Ids /\ virtual.contacts \in SomeSlots(Contact) /\ virtual.button \in BOOLEAN
  BY DEF Virtuals
<1>1. v \in Checks /\ v.ok /\ v.ids = active
  BY DEF Checks
<1>2. Validate(Synthesize(desired)) = Checked(v, Synthesize(desired))
  BY DEF Validate, Checked
<1> HIDE DEF v
<1>3. Validate(Synthesize(desired)) = v3
  BY <1>1, <1>2, SynthesizeType
<1>4. Gone(desired) \subseteq DOMAIN v.ids
  BY <1>1, GoneNewKept
<1>5. /\ v1 \in Checks /\ v1.ok
      /\ DOMAIN v1.ids = Kept(desired)
      /\ \A t \in Kept(desired) : v1.ids[t] = active[t]
  <2>1. /\ v1 \in Checks /\ v1.ok = v.ok
        /\ DOMAIN v1.ids = DOMAIN v.ids \ Gone(desired)
        /\ \A t \in DOMAIN v1.ids : v1.ids[t] = v.ids[t]
    BY <1>1, <1>4, DeparturesChecked
  <2> HIDE DEF v1
  <2>2. DOMAIN v.ids \ Gone(desired) = Kept(desired)
    BY <1>1, GoneNewKept
  <2> QED
    BY <1>1, <2>1, <2>2
<1> HIDE DEF v1
<1>6. /\ v2 \in Checks
      /\ Fresh(desired, v1.ids) => v2.ok
      /\ DOMAIN v2.ids = DOMAIN v1.ids \cup New(desired)
      /\ \A t \in New(desired) : v2.ids[t] = IdOf(desired, t)
      /\ \A t \in DOMAIN v1.ids \ New(desired) : v2.ids[t] = v1.ids[t]
  BY <1>0, <1>5, ContactsChecked
<1> HIDE DEF v2
<1>7. v3 = v2
  BY <1>0, <1>6, KeysAre
<1>8. NewIds(desired) => Fresh(desired, v1.ids)
  BY <1>5 DEF NewIds, Fresh, Kept
<1>9. DOMAIN v2.ids = DOMAIN desired.contacts
  BY <1>5, <1>6, GoneNewKept DEF Kept
<1>10. \A t \in Kept(desired) : v2.ids[t] = active[t]
  BY <1>5, <1>6 DEF Kept
<1> HIDE DEF v3
<1> QED
  BY <1>3, <1>6, <1>7, <1>8, <1>9, <1>10

\* What the kernel holds of the virtual touchpad after a packet it accepts.
LEMMA PacketApplied ==
    ASSUME virtual \in Virtuals, NEW desired \in Snapshots, device \in Devices
    PROVE  LET d  == Emitted(Synthesize(desired))
               is == VirtualFingers(virtual)
               to == VirtualFingers(desired)
           IN  /\ d \in Devices
               /\ DOMAIN d.ids = (DOMAIN device.ids \ Gone(desired)) \cup New(desired)
               /\ \A t \in New(desired) : d.ids[t] = IdOf(desired, t)
               /\ \A t \in DOMAIN device.ids \ (Gone(desired) \cup New(desired)) :
                     d.ids[t] = device.ids[t]
               /\ \A t \in Slots :
                     d.x[t] = IF Places(desired, t) THEN desired.contacts[t].x ELSE device.x[t]
               /\ d.button = IF virtual.button = desired.button THEN device.button
                             ELSE desired.button
               /\ d.tools = IF is = to THEN device.tools
                            ELSE (device.tools \ {is}) \cup ({to} \cap (1 .. 5))
<1> DEFINE d1 == Applied(device, Departures(desired))
           d2 == Applied(d1, Contacts(desired))
           d3 == Applied(d2, Keys(desired))
           is == VirtualFingers(virtual)
           to == VirtualFingers(desired)
<1>0. virtual.next \in Ids /\ virtual.contacts \in SomeSlots(Contact) /\ virtual.button \in BOOLEAN
  BY DEF Virtuals
<1>1. Emitted(Synthesize(desired)) = Applied(device, Synthesize(desired))
  BY DEF Emitted, Applied
<1>2. Emitted(Synthesize(desired)) = d3
  BY <1>1, SynthesizeType
<1>3. Gone(desired) \subseteq Slots
  BY GoneNewKept
<1>4. /\ d1 \in Devices
      /\ DOMAIN d1.ids = DOMAIN device.ids \ Gone(desired)
      /\ \A t \in DOMAIN d1.ids : d1.ids[t] = device.ids[t]
      /\ d1.x = device.x /\ d1.tools = device.tools /\ d1.button = device.button
  BY <1>3, DeparturesApplied
<1> HIDE DEF d1
<1>5. /\ d2 \in Devices
      /\ DOMAIN d2.ids = DOMAIN d1.ids \cup New(desired)
      /\ \A t \in New(desired) : d2.ids[t] = IdOf(desired, t)
      /\ \A t \in DOMAIN d1.ids \ New(desired) : d2.ids[t] = d1.ids[t]
      /\ \A t \in Slots : d2.x[t] = IF Places(desired, t) THEN desired.contacts[t].x ELSE d1.x[t]
      /\ d2.tools = d1.tools /\ d2.button = d1.button
  BY <1>0, <1>4, ContactsApplied
<1> HIDE DEF d2
<1>6. /\ d3 \in Devices
      /\ d3.ids = d2.ids /\ d3.x = d2.x
      /\ d3.button = IF virtual.button = desired.button THEN d2.button ELSE desired.button
      /\ d3.tools = IF is = to THEN d2.tools ELSE (d2.tools \ {is}) \cup ({to} \cap (1 .. 5))
  BY <1>0, <1>5, KeysAre
<1> HIDE DEF d3, is, to
<1>7. \A t \in Slots :
         d3.x[t] = IF Places(desired, t) THEN desired.contacts[t].x ELSE device.x[t]
  BY <1>4, <1>5, <1>6
<1>8. \A t \in DOMAIN device.ids \ (Gone(desired) \cup New(desired)) : d3.ids[t] = device.ids[t]
  BY <1>4, <1>5, <1>6
<1>9. /\ DOMAIN d3.ids = (DOMAIN device.ids \ Gone(desired)) \cup New(desired)
      /\ \A t \in New(desired) : d3.ids[t] = IdOf(desired, t)
  BY <1>4, <1>5, <1>6
<1>10. /\ d3.button = IF virtual.button = desired.button THEN device.button ELSE desired.button
       /\ d3.tools = IF is = to THEN device.tools
                     ELSE (device.tools \ {is}) \cup ({to} \cap (1 .. 5))
  BY <1>4, <1>5, <1>6
<1> QED
  BY <1>2, <1>6, <1>7, <1>8, <1>9, <1>10 DEF is, to

-----------------------------------------------------------------------------
(***************************************************************************)
(* The type invariant.                                                     *)
(***************************************************************************)
Physicals == [slot : Slots, contacts : SomeSlots(Contact), tools : SUBSET (1 .. 5),
              button : BOOLEAN]

ProxyTypes ==
    /\ PadTypes /\ wire \in Seq(AllEvents)
    /\ click \in BOOLEAN
    /\ physical \in Physicals
    /\ mode \in {"forwarding", "pending", "suppressing"}
    /\ waited \in 0 .. Window
    /\ virtual \in Virtuals
    /\ active \in SomeSlots(Ids)
    /\ device \in Devices
    /\ session \in {"open", "failed", "released", "unreleased", "closed"}
    /\ twoFor \in (0 .. Window) \cup {None}

\* While frames go through, synthesizer, validator and kernel agree.
ViewsAgree ==
    session = "open" =>
        /\ device.ids = active /\ DOMAIN active = DOMAIN virtual.contacts
        /\ device.button = virtual.button
        /\ device.tools = (1 .. 5) \cap {VirtualFingers(virtual)}

TInv == ProxyTypes /\ ViewsAgree

LEMMA TInvTypeOK == TInv => TypeOK
<1> SUFFICES ASSUME TInv PROVE TypeOK
  OBVIOUS
<1> USE DEF TInv, ProxyTypes
<1>1. physical.slot \in Slots /\ physical.contacts \in SomeSlots(Contact)
  BY DEF Physicals
<1>2. virtual.next \in 1 .. MaxTrackingId
  BY DEF Virtuals, Ids
<1> QED
  BY <1>1, <1>2 DEF TypeOK, ViewsAgree, Contact, Shown

\* PhysicalState after one event.
Seen(p, e) ==
    CASE e.code = "slot" -> [p EXCEPT !.slot = e.value]
      [] e.code = "id" -> [p EXCEPT !.contacts =
                              IF e.value < 0 THEN Without(@, p.slot)
                              ELSE With(@, p.slot, [id |-> e.value, x |-> None])]
      [] e.code = "x" -> IF p.slot \in DOMAIN p.contacts
                         THEN [p EXCEPT !.contacts[p.slot].x = e.value] ELSE p
      [] e.code = "button" -> [p EXCEPT !.button = (e.value = 1)]
      [] e.code = "tool_down" -> [p EXCEPT !.tools = @ \cup {e.value}]
      [] e.code = "tool_up" -> [p EXCEPT !.tools = @ \ {e.value}]
      [] OTHER -> p

\* What an event says of the contacts, the button and the keys.
LEMMA SeenIs ==
    ASSUME NEW p \in Physicals, NEW e \in AllEvents
    PROVE  /\ Seen(p, e) \in Physicals
           /\ Seen(p, e).slot = IF e.code = "slot" THEN e.value ELSE p.slot
           /\ Seen(p, e).button = IF e.code = "button" THEN e.value = 1 ELSE p.button
           /\ Seen(p, e).tools = IF e.code = "tool_up" THEN p.tools \ {e.value}
                                 ELSE IF e.code = "tool_down" THEN p.tools \cup {e.value}
                                 ELSE p.tools
           /\ DOMAIN Seen(p, e).contacts =
                 IF e.code # "id" THEN DOMAIN p.contacts
                 ELSE IF e.value < 0 THEN DOMAIN p.contacts \ {p.slot}
                 ELSE DOMAIN p.contacts \cup {p.slot}
           /\ \A s \in DOMAIN p.contacts \ {p.slot} : Seen(p, e).contacts[s] = p.contacts[s]
           /\ e.code \notin {"id", "x"} => Seen(p, e).contacts = p.contacts
           /\ e.code = "id" /\ ~(e.value < 0) =>
                 Seen(p, e).contacts[p.slot] = [id |-> e.value, x |-> None]
           /\ e.code = "x" /\ p.slot \in DOMAIN p.contacts =>
                 Seen(p, e).contacts[p.slot] = [id |-> p.contacts[p.slot].id, x |-> e.value]
<1> DEFINE q == Seen(p, e)
<1>1. /\ p.slot \in Slots /\ p.contacts \in SomeSlots(Contact)
      /\ p.tools \subseteq 1 .. 5 /\ p.button \in BOOLEAN
  BY DEF Physicals
<1>2. CASE e.code = "slot"
  <2>1. q = [p EXCEPT !.slot = e.value] /\ e.value \in Slots
    BY <1>2 DEF Seen, AllEvents, Event
  <2> QED
    BY <1>1, <1>2, <2>1 DEF Physicals
<1>3. CASE e.code = "id" /\ e.value < 0
  <2>1. q = [p EXCEPT !.contacts = Without(@, p.slot)]
    BY <1>3 DEF Seen
  <2>2. /\ Without(p.contacts, p.slot) \in SomeSlots(Contact)
        /\ DOMAIN Without(p.contacts, p.slot) = DOMAIN p.contacts \ {p.slot}
        /\ \A t \in DOMAIN p.contacts \ {p.slot} : Without(p.contacts, p.slot)[t] = p.contacts[t]
    BY <1>1, WithoutIs
  <2> QED
    BY <1>1, <1>3, <2>1, <2>2 DEF Physicals
<1>4. CASE e.code = "id" /\ ~(e.value < 0)
  <2> DEFINE c == [id |-> e.value, x |-> None]
  <2>1. q = [p EXCEPT !.contacts = With(@, p.slot, c)]
    BY <1>4 DEF Seen
  <2>2. c \in Contact
    <3>1. e.value \in Touches
      BY <1>4 DEF AllEvents, Event
    <3> QED
      BY <3>1 DEF Contact
  <2> HIDE DEF c
  <2>3. /\ With(p.contacts, p.slot, c) \in SomeSlots(Contact)
        /\ DOMAIN With(p.contacts, p.slot, c) = DOMAIN p.contacts \cup {p.slot}
        /\ With(p.contacts, p.slot, c)[p.slot] = c
        /\ \A t \in DOMAIN p.contacts \ {p.slot} : With(p.contacts, p.slot, c)[t] = p.contacts[t]
    BY <1>1, <2>2, WithContact, Zenon
  <2>4. q.contacts[p.slot] = c
    BY <2>1, <2>3 DEF Physicals
  <2>5. q.contacts[p.slot] = [id |-> e.value, x |-> None]
    BY <2>4 DEF c
  <2> QED
    BY <1>1, <1>4, <2>1, <2>3, <2>5 DEF Physicals
<1>5. CASE e.code = "x" /\ p.slot \in DOMAIN p.contacts
  <2>1. q = [p EXCEPT !.contacts[p.slot].x = e.value] /\ e.value \in Xs
    BY <1>5 DEF Seen, AllEvents, Event
  <2>2. DOMAIN p.contacts \subseteq Slots /\ p.contacts \in [DOMAIN p.contacts -> Contact]
    BY <1>1, SomeSlotsIs
  <2> DEFINE f == [p.contacts EXCEPT ![p.slot].x = e.value]
  <2>3. /\ DOMAIN f = DOMAIN p.contacts /\ f \in [DOMAIN f -> Contact]
        /\ f[p.slot] = [id |-> p.contacts[p.slot].id, x |-> e.value]
        /\ \A s \in DOMAIN p.contacts \ {p.slot} : f[s] = p.contacts[s]
    BY <1>5, <2>1, <2>2 DEF Contact
  <2>4. q = [p EXCEPT !.contacts = f]
    BY <2>1
  <2> HIDE DEF f
  <2>5. f \in SomeSlots(Contact)
    BY <2>2, <2>3, SomeSlotsIs
  <2> QED
    BY <1>1, <1>5, <2>3, <2>4, <2>5 DEF Physicals
<1>6. CASE e.code = "button"
  <2>1. q = [p EXCEPT !.button = (e.value = 1)]
    BY <1>6 DEF Seen
  <2> QED
    BY <1>1, <1>6, <2>1 DEF Physicals
<1>7. CASE e.code \in {"tool_up", "tool_down"}
  <2>1. /\ e.value \in 1 .. 5
        /\ e.code = "tool_up" => q = [p EXCEPT !.tools = @ \ {e.value}]
        /\ e.code = "tool_down" => q = [p EXCEPT !.tools = @ \cup {e.value}]
    BY <1>7 DEF Seen, AllEvents, Event
  <2> QED
    BY <1>1, <1>7, <2>1 DEF Physicals
<1>8. CASE \/ e.code \notin {"slot", "id", "x", "button", "tool_up", "tool_down"}
           \/ e.code = "x" /\ p.slot \notin DOMAIN p.contacts
  <2>1. q = p
    BY <1>8 DEF Seen
  <2> QED
    BY <1>1, <1>8, <2>1
<1> QED
  BY <1>2, <1>3, <1>4, <1>5, <1>6, <1>7, <1>8

\* Reading an event is Seen: the actions that read but FinishFrame.
Reads == SelectSlot \/ TrackingId \/ Position \/ Key

LEMMA ReadsAre ==
    ASSUME ProxyTypes, Reads
    PROVE  /\ wire # <<>> /\ wire' = Tail(wire)
           /\ Head(wire) \in AllEvents /\ wire' \in Seq(AllEvents)
           /\ Head(wire).code # "syn"
           /\ physical' = Seen(physical, Head(wire))
           /\ physical' \in Physicals
           /\ session = "open"
           /\ UNCHANGED <<padVars, click, mode, waited, virtual, active, session, device, history>>
<1> USE DEF ProxyTypes
<1> DEFINE e == Head(wire)
<1>1. PICK code \in {"slot", "id", "x", "button", "tool_up", "tool_down"} : Consume(code)
  BY DEF Reads, SelectSlot, TrackingId, Position, Key
<1>2. wire # <<>> /\ wire' = Tail(wire) /\ e.code = code
  BY <1>1 DEF Consume, Read
<1>3. /\ session = "open"
      /\ UNCHANGED <<padVars, click, mode, waited, virtual, active, session, device, history>>
  BY <1>1 DEF Consume, Read
<1>4. e \in AllEvents /\ wire' \in Seq(AllEvents)
  BY <1>2
<1>5. physical' = Seen(physical, e)
  <2>1. CASE SelectSlot
    <3>1. e.code = "slot" /\ physical' = [physical EXCEPT !.slot = e.value]
      BY <2>1 DEF SelectSlot, Consume, Read, Value
    <3> QED
      BY <3>1 DEF Seen
  <2>2. CASE TrackingId
    <3>1. e.code = "id"
          /\ physical' = [physical EXCEPT !.contacts =
                             IF e.value < 0 THEN Without(@, physical.slot)
                             ELSE With(@, physical.slot, [id |-> e.value, x |-> None])]
      BY <2>2 DEF TrackingId, Consume, Read, Value
    <3> QED
      BY <3>1 DEF Seen
  <2>3. CASE Position
    <3>1. e.code = "x"
          /\ physical' = IF physical.slot \in DOMAIN physical.contacts
                         THEN [physical EXCEPT !.contacts[physical.slot].x = e.value] ELSE physical
      BY <2>3 DEF Position, Consume, Read, Value
    <3> QED
      BY <3>1 DEF Seen
  <2>4. CASE Consume("button") /\ physical' = [physical EXCEPT !.button = (Value = 1)]
    <3>1. e.code = "button" /\ physical' = [physical EXCEPT !.button = (e.value = 1)]
      BY <2>4 DEF Consume, Read, Value
    <3> QED
      BY <3>1 DEF Seen
  <2>5. CASE Consume("tool_down") /\ physical' = [physical EXCEPT !.tools = @ \cup {Value}]
    <3>1. e.code = "tool_down" /\ physical' = [physical EXCEPT !.tools = @ \cup {e.value}]
      BY <2>5 DEF Consume, Read, Value
    <3> QED
      BY <3>1 DEF Seen
  <2>6. CASE Consume("tool_up") /\ physical' = [physical EXCEPT !.tools = @ \ {Value}]
    <3>1. e.code = "tool_up" /\ physical' = [physical EXCEPT !.tools = @ \ {e.value}]
      BY <2>6 DEF Consume, Read, Value
    <3> QED
      BY <3>1 DEF Seen
  <2> QED
    BY <2>1, <2>2, <2>3, <2>4, <2>5, <2>6 DEF Reads, Key
<1>6. physical' \in Physicals
  BY <1>4, <1>5, SeenIs
<1> QED
  BY <1>2, <1>3, <1>4, <1>5, <1>6

\* What the steps of the pad leave alone, and what they send.
PadSteps == ChangeSlot \/ Click \/ EndReport

LEMMA PadStepsAre ==
    ASSUME ProxyTypes, PadSteps
    PROVE  /\ session = "open" /\ wire = <<>>
           /\ PadTypes' /\ wire' \in Seq(AllEvents)
           /\ click' \in BOOLEAN
           /\ waited' \in 0 .. Window
           /\ twoFor' \in (0 .. Window) \cup {None}
           /\ UNCHANGED <<physical, mode, virtual, active, session, device,
                          rejected, refused, before, settled, hidden>>
<1> USE DEF ProxyTypes
<1>1. CASE ChangeSlot
  <2>1. PadTypes' /\ wire' \in Seq(AllEvents)
    BY <1>1, TouchChangesTypes DEF ChangeSlot
  <2> QED
    BY <1>1, <2>1 DEF ChangeSlot, TouchChanges, proxyVars, history
<1>2. CASE Click
  <2>1. PadTypes'
    BY <1>2 DEF Click, padVars, PadTypes
  <2>2. Event("button", IF click THEN 0 ELSE 1) \in AllEvents
    BY DEF AllEvents
  <2>3. wire' = <<Event("button", IF click THEN 0 ELSE 1)>>
    BY <1>2 DEF Click
  <2> QED
    BY <1>2, <2>1, <2>2, <2>3 DEF Click, proxyVars, history
<1>3. CASE EndReport
  <2>1. PadTypes' /\ wire' \in Seq(AllEvents)
    BY <1>3, ReportEndsTypes DEF EndReport
  <2>2. PICK d \in 0 .. Window :
           /\ waited' = IF mode = "pending" THEN UpTo(Window, waited + d) ELSE waited
           /\ twoFor' = IF twoFor = None THEN None ELSE UpTo(Window, twoFor + d)
    BY <1>3 DEF EndReport
  <2>3. Window \in Nat
    BY WindowAssumption
  <2>4. waited' \in 0 .. Window
    BY <2>2, <2>3 DEF UpTo
  <2>5. twoFor' \in (0 .. Window) \cup {None}
    BY <2>2, <2>3 DEF UpTo
  <2> QED
    BY <1>3, <2>1, <2>4, <2>5 DEF EndReport, ReportEnds
<1> QED
  BY <1>1, <1>2, <1>3 DEF PadSteps

LEMMA RouteIs ==
    ASSUME ProxyTypes
    PROVE  /\ Route.desired \in Snapshots
           /\ Route.mode \in {"forwarding", "pending", "suppressing"}
           /\ Nobody \in Snapshots /\ DOMAIN Nobody.contacts = {} /\ ~Nobody.button
           /\ Snapshot \in Snapshots
           /\ PendingSnapshot \in Snapshots
<1> USE DEF ProxyTypes
<1>0. /\ physical.contacts \in SomeSlots(Contact) /\ physical.button \in BOOLEAN
      /\ DOMAIN physical.contacts \subseteq Slots
      /\ physical.contacts \in [DOMAIN physical.contacts -> Contact]
  BY SomeSlotsIs DEF Physicals
<1>1. Snapshot \in Snapshots
  BY <1>0 DEF Snapshot, Snapshots
<1>2. Nobody \in Snapshots /\ DOMAIN Nobody.contacts = {} /\ ~Nobody.button
  <2>1. NoContacts \in SomeSlots(Contact) /\ DOMAIN NoContacts = {}
    BY SomeSlotsIs DEF NoContacts
  <2> QED
    BY <2>1 DEF Nobody, Snapshots
<1>3. PendingSnapshot \in Snapshots
  <2> DEFINE same == {s \in DOMAIN virtual.contacts \cap DOMAIN physical.contacts :
                         physical.contacts[s].id = virtual.contacts[s].id}
             f == [s \in same |-> physical.contacts[s]]
  <2>1. same \subseteq DOMAIN physical.contacts
    OBVIOUS
  <2>2. PendingSnapshot = [contacts |-> f, button |-> same # {} /\ physical.button]
    BY DEF PendingSnapshot
  <2> HIDE DEF same
  <2>3. DOMAIN f \subseteq Slots /\ f \in [DOMAIN f -> Contact]
    BY <1>0, <2>1
  <2>4. f \in SomeSlots(Contact)
    BY <2>3, SomeSlotsIs
  <2> QED
    BY <1>0, <2>2, <2>4 DEF Snapshots
<1>4. /\ Route.desired \in {Snapshot, Nobody, PendingSnapshot}
      /\ Route.mode \in {"forwarding", "pending", "suppressing"}
  BY DEF Route, Routed
<1> QED
  BY <1>1, <1>2, <1>3, <1>4

LEMMA SynthesizedType ==
    ASSUME virtual \in Virtuals, NEW desired \in Snapshots
    PROVE  /\ Synthesized(desired) \in Virtuals
           /\ Synthesized(desired).contacts = desired.contacts
           /\ Synthesized(desired).button = desired.button
           /\ Synthesized(desired).next = Allocated(Cardinality(New(desired)))
<1>1. New(desired) \subseteq Slots
  BY GoneNewKept
<1>2. Allocated(Cardinality(New(desired))) \in Ids
  BY <1>1, FiniteSlots, AllocatedType DEF Virtuals
<1> QED
  BY <1>2 DEF Synthesized, Virtuals, Snapshots

\* A packet leaves the views well formed, whatever becomes of it.
LEMMA SendTypes ==
    ASSUME ProxyTypes, NEW desired \in Snapshots, NEW ok, NEW failed, Send(desired, ok, failed)
    PROVE  /\ virtual' = Synthesized(desired) /\ virtual' \in Virtuals
           /\ active' \in SomeSlots(Ids)
           /\ device' \in Devices
           /\ session' \in {ok, failed}
<1> USE DEF ProxyTypes
<1>1. virtual' = Synthesized(desired) /\ virtual' \in Virtuals
  BY SynthesizedType DEF Send
<1>2. Validate(Synthesize(desired)) \in Checks
  <2> DEFINE v == [ok |-> TRUE, slot |-> None, ids |-> active]
  <2>1. v \in Checks
    BY DEF Checks
  <2>2. Validate(Synthesize(desired)) = Checked(v, Synthesize(desired))
    BY DEF Validate, Checked
  <2> HIDE DEF v
  <2> QED
    BY <2>1, <2>2, SynthesizeType, CheckedIs
<1>3. Validate(Synthesize(desired)).ids \in SomeSlots(Ids)
  BY <1>2 DEF Checks
<1>4. Emitted(Synthesize(desired)) \in Devices
  BY PacketApplied
<1> QED
  BY <1>1, <1>3, <1>4 DEF Send

\* A packet that gets through leaves the views agreeing, if they did before.
LEMMA SendAgrees ==
    ASSUME ProxyTypes, NEW desired \in Snapshots, NEW ok, NEW failed, Send(desired, ok, failed),
           ok # failed, session' = ok,
           device.ids = active, DOMAIN active = DOMAIN virtual.contacts,
           device.button = virtual.button,
           device.tools = (1 .. 5) \cap {VirtualFingers(virtual)}
    PROVE  /\ device'.ids = active' /\ DOMAIN active' = DOMAIN virtual'.contacts
           /\ device'.button = virtual'.button
           /\ device'.tools = (1 .. 5) \cap {VirtualFingers(virtual')}
           /\ UNCHANGED <<rejected, refused>>
           /\ virtual' = Synthesized(desired)
           /\ DOMAIN active' = DOMAIN desired.contacts
           /\ device' = Emitted(Synthesize(desired))
           /\ \A s \in Kept(desired) : active'[s] = active[s]
           /\ \A s \in New(desired) : active'[s] = IdOf(desired, s)
<1> USE DEF ProxyTypes
<1> DEFINE ids == Validate(Synthesize(desired)).ids
           d == Emitted(Synthesize(desired))
           is == VirtualFingers(virtual)
           to == VirtualFingers(desired)
<1>1. /\ virtual' = Synthesized(desired) /\ active' = ids /\ device' = d
      /\ UNCHANGED <<rejected, refused>>
  BY DEF Send
<1>2. /\ DOMAIN ids = DOMAIN desired.contacts
      /\ \A t \in New(desired) : ids[t] = IdOf(desired, t)
      /\ \A t \in Kept(desired) : ids[t] = active[t]
  BY PacketChecked
<1>3. /\ d \in Devices
      /\ DOMAIN d.ids = (DOMAIN device.ids \ Gone(desired)) \cup New(desired)
      /\ \A t \in New(desired) : d.ids[t] = IdOf(desired, t)
      /\ \A t \in DOMAIN device.ids \ (Gone(desired) \cup New(desired)) :
            d.ids[t] = device.ids[t]
      /\ d.button = IF virtual.button = desired.button THEN device.button ELSE desired.button
      /\ d.tools = IF is = to THEN device.tools
                   ELSE (device.tools \ {is}) \cup ({to} \cap (1 .. 5))
  BY PacketApplied
<1>4. /\ Synthesized(desired).contacts = desired.contacts
      /\ Synthesized(desired).button = desired.button
  BY SynthesizedType
<1>5. VirtualFingers(virtual') = to
  BY <1>1, <1>4 DEF VirtualFingers
<1>6. ids \in SomeSlots(Ids) /\ d.ids \in SomeSlots(Ids)
  BY <1>1, <1>3, SendTypes DEF Devices
<1> HIDE DEF ids, d, is, to
<1>7. d.ids = ids
  <2>1. DOMAIN d.ids = DOMAIN ids
    BY <1>2, <1>3, GoneNewKept DEF Kept
  <2>2. \A t \in DOMAIN ids : d.ids[t] = ids[t]
    BY <1>2, <1>3, GoneNewKept DEF Kept
  <2> DEFINE f == d.ids
             D == DOMAIN ids
  <2>3. f \in [DOMAIN f -> Ids] /\ ids \in [DOMAIN ids -> Ids]
    BY <1>6, SomeSlotsIs
  <2> HIDE DEF f
  <2>4. f = ids
    BY <2>1, <2>2, <2>3 DEF f
  <2> QED
    BY <2>4 DEF f
<1>8. d.tools = (1 .. 5) \cap {to}
  BY <1>3 DEF is
<1>9. d.button = desired.button
  BY <1>3
<1> QED
  BY <1>1, <1>2, <1>4, <1>5, <1>7, <1>8, <1>9 DEF d

LEMMA TInvInit == Init => TInv
<1> SUFFICES ASSUME Init PROVE TInv
  OBVIOUS
<1> USE DEF Init
<1>1. PadTypes /\ wire \in Seq(AllEvents)
  BY PadTypesInit
<1>2. NoContacts \in SomeSlots(Contact) /\ NoContacts \in SomeSlots(Ids) /\ DOMAIN NoContacts = {}
  BY SomeSlotsIs DEF NoContacts
<1>3. physical \in Physicals
  BY <1>2, SlotAssumption DEF Physicals
<1>4. virtual \in Virtuals
  BY <1>2, TrackingIdAssumption DEF Virtuals, Ids
<1>5. device \in Devices
  BY <1>2, SlotAssumption DEF Devices
<1>6. ProxyTypes
  BY <1>1, <1>2, <1>3, <1>4, <1>5, WindowAssumption DEF ProxyTypes
<1>7. VirtualFingers(virtual) = 0
  BY <1>2, FS_EmptySet DEF VirtualFingers
<1>8. ViewsAgree
  BY <1>2, <1>7 DEF ViewsAgree
<1> QED
  BY <1>6, <1>8 DEF TInv

LEMMA FrameTypes ==
    ASSUME TInv, FinishFrame
    PROVE  TInv'
<1> USE DEF TInv
<1>1. /\ session = "open" /\ Read("syn") /\ mode' = Route.mode
      /\ waited' = IF mode # "pending" /\ mode' = "pending" THEN 0 ELSE waited
      /\ Send(Route.desired, "open", "failed")
      /\ twoFor' = IF Fingers # 2 THEN None ELSE IF twoFor = None THEN 0 ELSE twoFor
      /\ UNCHANGED <<click, physical>>
  BY DEF FinishFrame
<1>2. PadTypes' /\ wire' \in Seq(AllEvents)
  BY <1>1, ReadTypes DEF ProxyTypes
<1>3. Route.desired \in Snapshots /\ Route.mode \in {"forwarding", "pending", "suppressing"}
  BY RouteIs
<1>4. /\ virtual' \in Virtuals /\ active' \in SomeSlots(Ids) /\ device' \in Devices
      /\ session' \in {"open", "failed"}
  BY <1>1, <1>3, SendTypes
<1>5. waited' \in 0 .. Window /\ twoFor' \in (0 .. Window) \cup {None}
  BY <1>1, WindowAssumption DEF ProxyTypes
<1>6. ProxyTypes'
  BY <1>1, <1>2, <1>3, <1>4, <1>5 DEF ProxyTypes
<1>7. ASSUME session' = "open" PROVE ViewsAgree'
  <2>1. /\ device'.ids = active' /\ DOMAIN active' = DOMAIN virtual'.contacts
        /\ device'.button = virtual'.button
        /\ device'.tools = (1 .. 5) \cap {VirtualFingers(virtual')}
    BY <1>1, <1>3, <1>7, SendAgrees DEF ViewsAgree
  <2> QED
    BY <2>1 DEF ViewsAgree, VirtualFingers
<1>8. ViewsAgree'
  BY <1>7 DEF ViewsAgree
<1> QED
  BY <1>6, <1>8

LEMMA TInvNext == TInv /\ [Next]_vars => TInv'
<1> SUFFICES ASSUME TInv, [Next]_vars PROVE TInv'
  OBVIOUS
<1> USE DEF TInv
<1>1. CASE PadSteps
  <2>1. /\ PadTypes' /\ wire' \in Seq(AllEvents) /\ click' \in BOOLEAN
        /\ waited' \in 0 .. Window /\ twoFor' \in (0 .. Window) \cup {None}
        /\ UNCHANGED <<physical, mode, virtual, active, session, device>>
    BY <1>1, PadStepsAre
  <2> QED
    BY <2>1 DEF ProxyTypes, ViewsAgree, VirtualFingers
<1>2. CASE Reads
  <2>1. /\ wire' \in Seq(AllEvents) /\ physical' \in Physicals
        /\ UNCHANGED <<padVars, click, mode, waited, virtual, active, session, device, twoFor>>
    BY <1>2, ReadsAre DEF history
  <2>2. PadTypes'
    BY <2>1 DEF ProxyTypes, PadTypes, padVars
  <2> QED
    BY <2>1, <2>2 DEF ProxyTypes, ViewsAgree, VirtualFingers
<1>3. CASE FinishFrame
  BY <1>3, FrameTypes
<1>4. CASE ReleaseAll
  <2>1. /\ Send(Nobody, "released", "unreleased")
        /\ UNCHANGED <<padVars, wire, click, physical, mode, waited, twoFor>>
    BY <1>4 DEF ReleaseAll
  <2>2. /\ virtual' \in Virtuals /\ active' \in SomeSlots(Ids) /\ device' \in Devices
        /\ session' \in {"released", "unreleased"}
    BY <2>1, RouteIs, SendTypes
  <2>3. PadTypes'
    BY <2>1 DEF ProxyTypes, PadTypes, padVars
  <2> QED
    BY <2>1, <2>2, <2>3 DEF ProxyTypes, ViewsAgree
<1>5. CASE Drop
  <2>1. /\ session' = "closed" /\ virtual' = Synthesized(Nobody)
        /\ device' = [device EXCEPT !.ids = NoContacts, !.tools = {}, !.button = FALSE]
        /\ active' \in {Validate(Synthesize(Nobody)).ids, active}
        /\ UNCHANGED <<padVars, wire, click, physical, mode, waited, twoFor>>
    BY <1>5 DEF Drop, history
  <2>2. virtual' \in Virtuals
    BY <2>1, RouteIs, SynthesizedType DEF ProxyTypes
  <2>3. NoContacts \in SomeSlots(Ids)
    BY SomeSlotsIs DEF NoContacts
  <2>4. device' \in Devices
    BY <2>1, <2>3 DEF ProxyTypes, Devices
  <2>5. Validate(Synthesize(Nobody)).ids \in SomeSlots(Ids)
    <3> DEFINE v == [ok |-> TRUE, slot |-> None, ids |-> active]
    <3>1. v \in Checks
      BY DEF Checks, ProxyTypes
    <3>2. Validate(Synthesize(Nobody)) = Checked(v, Synthesize(Nobody))
      BY DEF Validate, Checked
    <3> HIDE DEF v
    <3>3. Validate(Synthesize(Nobody)) \in Checks
      BY <3>1, <3>2, RouteIs, SynthesizeType, CheckedIs DEF ProxyTypes
    <3> QED
      BY <3>3 DEF Checks
  <2>6. PadTypes'
    BY <2>1 DEF ProxyTypes, PadTypes, padVars
  <2> QED
    BY <2>1, <2>2, <2>4, <2>5, <2>6 DEF ProxyTypes, ViewsAgree
<1>6. CASE UNCHANGED vars
  BY <1>6 DEF vars, padVars, proxyVars, history, ProxyTypes, PadTypes, ViewsAgree, VirtualFingers
<1> QED
  BY <1>1, <1>2, <1>3, <1>4, <1>5, <1>6 DEF Next, PadSteps, Reads

LEMMA TInvAlways == Spec => []TInv
<1>1. Init => TInv
  BY TInvInit
<1>2. TInv /\ [Next]_vars => TInv'
  BY TInvNext
<1> QED
  BY <1>1, <1>2, PTL DEF Spec

\* The proxy's variables are well formed, and while frames go through,
\* synthesizer, validator and kernel agree on the virtual touchpad.
THEOREM ProxyTypeCorrect == Spec => []TypeOK
<1>1. TInv => TypeOK
  BY TInvTypeOK
<1> QED
  BY <1>1, TInvAlways, PTL

-----------------------------------------------------------------------------
(***************************************************************************)
(* What the unread events have to tell: the state they will leave          *)
(* PhysicalState in.  The proxy is a few events behind the pad; once it    *)
(* has read them it is not.                                                *)
(***************************************************************************)
\* After at most four events, as many as a change or the end of a report has.
After(p, w) ==
    LET p1 == IF Len(w) >= 1 THEN Seen(p, w[1]) ELSE p
        p2 == IF Len(w) >= 2 THEN Seen(p1, w[2]) ELSE p1
        p3 == IF Len(w) >= 3 THEN Seen(p2, w[3]) ELSE p2
    IN  IF Len(w) >= 4 THEN Seen(p3, w[4]) ELSE p3

Ahead == After(physical, wire)

\* SYN_REPORT ends a report.
Shape(w) ==
    /\ Len(w) <= 4
    /\ \A i \in 1 .. Len(w) : w[i].code = "syn" => i = Len(w)

Silent(w) == \A i \in 1 .. Len(w) : w[i].code # "syn"

LEMMA ReadAhead ==
    ASSUME NEW p, NEW w \in Seq(AllEvents), w # <<>>, Shape(w)
    PROVE  /\ After(Seen(p, Head(w)), Tail(w)) = After(p, w)
           /\ Shape(Tail(w))
           /\ Head(w).code = "syn" => Tail(w) = <<>> /\ w = <<Head(w)>>
           /\ Silent(w) => Silent(Tail(w))
<1> DEFINE e == Head(w)
           t == Tail(w)
<1>1. /\ Len(w) \in 1 .. 4 /\ Len(t) = Len(w) - 1
      /\ e = w[1] /\ \A i \in 1 .. Len(t) : t[i] = w[i + 1]
      /\ t \in Seq(AllEvents)
  <2>1. Len(w) \in Nat /\ Len(w) # 0 /\ Len(w) <= 4
    BY DEF Shape
  <2>2. /\ Len(t) = Len(w) - 1 /\ e = w[1] /\ t \in Seq(AllEvents)
        /\ \A i \in 1 .. Len(t) : t[i] = w[i + 1]
    BY <2>1
  <2> QED
    BY <2>1, <2>2
<1> HIDE DEF e, t
<1>2. After(Seen(p, e), t) = After(p, w)
  <2>1. CASE Len(w) = 1
    BY <1>1, <2>1 DEF After
  <2>2. CASE Len(w) = 2
    BY <1>1, <2>2 DEF After
  <2>3. CASE Len(w) = 3
    BY <1>1, <2>3 DEF After
  <2>4. CASE Len(w) = 4
    BY <1>1, <2>4 DEF After
  <2> QED
    BY <1>1, <2>1, <2>2, <2>3, <2>4
<1>3. Shape(t)
  BY <1>1 DEF Shape
<1>4. Silent(w) => Silent(t)
  BY <1>1 DEF Silent
<1>5. e.code = "syn" => t = <<>> /\ w = <<e>>
  <2> SUFFICES ASSUME e.code = "syn" PROVE t = <<>> /\ w = <<e>>
    OBVIOUS
  <2>1. Len(w) = 1 /\ Len(t) = 0
    BY <1>1 DEF Shape
  <2> QED
    BY <1>1, <2>1
<1> QED
  BY <1>2, <1>3, <1>4, <1>5 DEF e, t

LEMMA PrependAhead ==
    ASSUME NEW p, NEW e \in AllEvents, NEW h, h = <<>> \/ h = <<e>>, NEW t \in Seq(AllEvents),
           Shape(t), Len(t) <= 3, e.code # "syn"
    PROVE  /\ h \o t \in Seq(AllEvents) /\ Len(h \o t) <= Len(t) + 1
           /\ Shape(h \o t)
           /\ Silent(t) => Silent(h \o t)
           /\ h = <<>> => After(p, h \o t) = After(p, t)
           /\ h # <<>> => After(p, h \o t) = After(Seen(p, e), t)
<1>1. CASE h = <<>>
  <2>1. h \o t = t /\ Len(t) <= Len(t) + 1
    BY <1>1
  <2> QED
    BY <1>1, <2>1
<1>2. CASE h = <<e>>
  <2> DEFINE w == <<e>> \o t
  <2>1. /\ w \in Seq(AllEvents) /\ Len(w) = Len(t) + 1 /\ w # <<>>
        /\ Head(w) = e /\ Tail(w) = t
        /\ w[1] = e /\ \A i \in 1 .. Len(t) : w[i + 1] = t[i]
    OBVIOUS
  <2>0. h \o t = w /\ h # <<>>
    BY <1>2
  <2> HIDE DEF w
  <2>2. ASSUME NEW i \in 1 .. Len(w), i # 1
        PROVE  i - 1 \in 1 .. Len(t) /\ w[i] = t[i - 1]
    <3>1. i - 1 \in 1 .. Len(t) /\ w[(i - 1) + 1] = t[i - 1] /\ (i - 1) + 1 = i
      BY <2>1, <2>2
    <3> QED
      BY <3>1
  <2>3. Shape(w)
    <3>1. ASSUME NEW i \in 1 .. Len(w), w[i].code = "syn" PROVE i = Len(w)
      <4>1. i # 1
        BY <2>1, <3>1
      <4>2. i - 1 \in 1 .. Len(t) /\ t[i - 1].code = "syn"
        BY <2>2, <3>1, <4>1
      <4>3. i - 1 = Len(t)
        BY <4>2 DEF Shape
      <4> QED
        BY <2>1, <4>3
    <3> QED
      BY <2>1, <3>1 DEF Shape
  <2>4. After(p, w) = After(Seen(p, e), t)
    BY <2>1, <2>3, ReadAhead
  <2>5. ASSUME Silent(t) PROVE Silent(w)
    <3>1. ASSUME NEW i \in 1 .. Len(w) PROVE w[i].code # "syn"
      <4>1. CASE i = 1
        BY <2>1, <4>1
      <4>2. CASE i # 1
        BY <2>2, <2>5, <4>2 DEF Silent
      <4> QED
        BY <4>1, <4>2
    <3> QED
      BY <3>1 DEF Silent
  <2> QED
    BY <2>0, <2>1, <2>3, <2>4, <2>5
<1> QED
  BY <1>1, <1>2

LEMMA AnnounceAhead ==
    ASSUME ProxyTypes, NEW s \in Slots, NEW c \in BOOLEAN, NEW e \in AllEvents, e.code = "id",
           NEW x \in Xs, NEW y \in Ys, Announce(s, IF c THEN <<>> ELSE <<e>>, x, y)
    PROVE  LET p1 == IF announced = s THEN physical ELSE Seen(physical, Event("slot", s))
               p2 == IF c THEN p1 ELSE Seen(p1, e)
           IN  /\ After(physical, wire') = IF last[s].x = x THEN p2 ELSE Seen(p2, Event("x", x))
               /\ Shape(wire') /\ Silent(wire')
<1> DEFINE p1 == IF announced = s THEN physical ELSE Seen(physical, Event("slot", s))
           p2 == IF c THEN p1 ELSE Seen(p1, e)
           p3 == IF last[s].x = x THEN p2 ELSE Seen(p2, Event("x", x))
           a == Event("slot", s)
           f == Event("x", x)
           g == Event("y", y)
           A == IF announced = s THEN <<>> ELSE <<a>>
           E == IF c THEN <<>> ELSE <<e>>
           F == IF last[s].x = x THEN <<>> ELSE <<f>>
           G == IF last[s].y = y THEN <<>> ELSE <<g>>
           FG == F \o G
           EFG == E \o FG
           w == A \o EFG
<1>1. wire' = ((A \o E) \o F) \o G
  BY DEF Announce
<1>2. /\ a \in AllEvents /\ f \in AllEvents /\ g \in AllEvents
      /\ a.code = "slot" /\ f.code = "x" /\ g.code = "y"
  BY DEF AllEvents, Event
<1>3. Seen(physical, a) = Seen(physical, Event("slot", s)) /\ \A p : Seen(p, f) = Seen(p, Event("x", x))
  OBVIOUS
<1> HIDE DEF a, f, g
<1>4. /\ A \in Seq(AllEvents) /\ E \in Seq(AllEvents) /\ F \in Seq(AllEvents)
      /\ G \in Seq(AllEvents)
  BY <1>2
<1>5. /\ A = <<>> \/ A = <<a>>
      /\ E = <<>> \/ E = <<e>>
      /\ F = <<>> \/ F = <<f>>
      /\ A = <<>> <=> announced = s
      /\ E = <<>> <=> c
      /\ F = <<>> <=> last[s].x = x
  OBVIOUS
<1>6. Len(G) <= 1 /\ Silent(G) /\ Shape(G) /\ \A p : After(p, G) = p
  <2>1. \A p : Seen(p, g) = p
    BY <1>2 DEF Seen
  <2>2. CASE G = <<>>
    BY <2>2 DEF Silent, Shape, After
  <2>3. CASE G = <<g>>
    BY <1>2, <2>1, <2>3 DEF Silent, Shape, After
  <2> QED
    BY <2>2, <2>3
<1> HIDE DEF A, E, F, G
<1>7. wire' = w
  BY <1>1, <1>4
<1>8. /\ FG \in Seq(AllEvents) /\ Len(FG) <= 2 /\ Silent(FG) /\ Shape(FG)
      /\ \A p : /\ F = <<>> => After(p, FG) = p
                /\ F # <<>> => After(p, FG) = Seen(p, f)
  <2>1. /\ f \in AllEvents /\ f.code # "syn" /\ (F = <<>> \/ F = <<f>>)
        /\ G \in Seq(AllEvents) /\ Len(G) <= 3 /\ Shape(G)
    BY <1>2, <1>4, <1>5, <1>6
  <2>2. ASSUME NEW p
        PROVE  /\ F \o G \in Seq(AllEvents) /\ Len(F \o G) <= Len(G) + 1
               /\ Shape(F \o G)
               /\ Silent(G) => Silent(F \o G)
               /\ F = <<>> => After(p, F \o G) = After(p, G)
               /\ F # <<>> => After(p, F \o G) = After(Seen(p, f), G)
    <3>1. /\ F \o G \in Seq(AllEvents) /\ Len(F \o G) <= Len(G) + 1
          /\ Shape(F \o G)
          /\ Silent(G) => Silent(F \o G)
      BY <2>1, PrependAhead
    <3>2. F = <<>> => After(p, F \o G) = After(p, G)
      BY <2>1, PrependAhead
    <3>3. F # <<>> => After(p, F \o G) = After(Seen(p, f), G)
      BY <2>1, PrependAhead
    <3> QED
      BY <3>1, <3>2, <3>3
  <2> QED
    BY <1>4, <1>6, <2>2
<1> HIDE DEF FG
<1>9. /\ EFG \in Seq(AllEvents) /\ Len(EFG) <= 3 /\ Silent(EFG) /\ Shape(EFG)
      /\ \A p : /\ E = <<>> => After(p, EFG) = After(p, FG)
                /\ E # <<>> => After(p, EFG) = After(Seen(p, e), FG)
  <2>1. Len(FG) <= 3 /\ e.code # "syn"
    BY <1>8
  <2>2. ASSUME NEW p
        PROVE  /\ E \o FG \in Seq(AllEvents) /\ Len(E \o FG) <= Len(FG) + 1
               /\ Shape(E \o FG)
               /\ Silent(FG) => Silent(E \o FG)
               /\ E = <<>> => After(p, E \o FG) = After(p, FG)
               /\ E # <<>> => After(p, E \o FG) = After(Seen(p, e), FG)
    BY <1>5, <1>8, <2>1, PrependAhead
  <2> QED
    BY <1>8, <2>2
<1> HIDE DEF EFG
<1>10. /\ Silent(w) /\ Shape(w)
       /\ \A p : /\ A = <<>> => After(p, w) = After(p, EFG)
                 /\ A # <<>> => After(p, w) = After(Seen(p, a), EFG)
  <2>1. Len(EFG) <= 3 /\ a.code # "syn"
    BY <1>2, <1>9
  <2>2. ASSUME NEW p
        PROVE  /\ A \o EFG \in Seq(AllEvents) /\ Len(A \o EFG) <= Len(EFG) + 1
               /\ Shape(A \o EFG)
               /\ Silent(EFG) => Silent(A \o EFG)
               /\ A = <<>> => After(p, A \o EFG) = After(p, EFG)
               /\ A # <<>> => After(p, A \o EFG) = After(Seen(p, a), EFG)
    BY <1>2, <1>5, <1>9, <2>1, PrependAhead
  <2> QED
    BY <1>9, <2>2
<1> HIDE DEF w
<1>11. After(physical, w) = After(p1, EFG)
  BY <1>3, <1>5, <1>10
<1> HIDE DEF p1
<1>12. After(p1, EFG) = After(p2, FG)
  BY <1>5, <1>9
<1> HIDE DEF p2
<1>13. After(p2, FG) = p3
  BY <1>3, <1>5, <1>8
<1> QED
  BY <1>7, <1>10, <1>11, <1>12, <1>13 DEF p1, p2

\* A slot event comes to select the slot, and no other.
LEMMA SlotSeen ==
    ASSUME NEW p \in Physicals, NEW s \in Slots
    PROVE  /\ Seen(p, Event("slot", s)) \in Physicals
           /\ Seen(p, Event("slot", s)).slot = s
           /\ Seen(p, Event("slot", s)).contacts = p.contacts
           /\ Seen(p, Event("slot", s)).tools = p.tools
           /\ Seen(p, Event("slot", s)).button = p.button
<1> DEFINE e == Event("slot", s)
<1>1. e \in AllEvents /\ e.code = "slot" /\ e.value = s
  BY DEF AllEvents, Event
<1> HIDE DEF e
<1> QED
  BY <1>1, SeenIs DEF e

\* What a coordinate changes.
LEMMA PlaceSeen ==
    ASSUME NEW p \in Physicals, NEW x \in Xs
    PROVE  LET q == Seen(p, Event("x", x))
           IN  /\ q \in Physicals /\ q.slot = p.slot /\ q.tools = p.tools /\ q.button = p.button
               /\ DOMAIN q.contacts = DOMAIN p.contacts
               /\ \A t \in DOMAIN p.contacts \ {p.slot} : q.contacts[t] = p.contacts[t]
               /\ p.slot \in DOMAIN p.contacts =>
                     q.contacts[p.slot].id = p.contacts[p.slot].id /\ q.contacts[p.slot].x = x
<1> DEFINE e == Event("x", x)
           q == Seen(p, e)
<1>1. e \in AllEvents /\ e.code = "x" /\ e.value = x
  BY DEF AllEvents, Event
<1> HIDE DEF e
<1>2. /\ q \in Physicals /\ q.slot = p.slot /\ q.tools = p.tools /\ q.button = p.button
      /\ DOMAIN q.contacts = DOMAIN p.contacts
      /\ \A t \in DOMAIN p.contacts \ {p.slot} : q.contacts[t] = p.contacts[t]
  BY <1>1, SeenIs
<1>3. p.slot \in DOMAIN p.contacts => q.contacts[p.slot] = [id |-> p.contacts[p.slot].id, x |-> x]
  BY <1>1, SeenIs
<1> HIDE DEF q
<1>4. p.slot \in DOMAIN p.contacts =>
         q.contacts[p.slot].id = p.contacts[p.slot].id /\ q.contacts[p.slot].x = x
  BY <1>3
<1> QED
  BY <1>2, <1>4 DEF q, e

\* The report of a change tells of the slot s that changed.  It is read into
\* slot z, which is s if the proxy knows the slot that was announced last.
Lands(s, z, a) ==
    /\ touches' = touches + 1
    /\ s \in DOMAIN pad' /\ z \in DOMAIN a.contacts
    /\ pad'[s].id = touches' /\ a.contacts[z].id = touches'
    /\ a.contacts[z].x \in {None, pad'[s].x}

Moves(s, z, a) ==
    /\ touches' = touches
    /\ s \in DOMAIN pad /\ s \in DOMAIN pad' /\ pad'[s].id = pad[s].id
    /\ z \in DOMAIN a.contacts <=> z \in DOMAIN physical.contacts
    /\ z \in DOMAIN a.contacts =>
          /\ a.contacts[z].id = physical.contacts[z].id
          /\ \/ a.contacts[z].x = pad'[s].x
             \/ a.contacts[z].x = physical.contacts[z].x /\ pad'[s].x = pad[s].x

Lifts(s, z, a) ==
    /\ touches' = touches
    /\ s \notin DOMAIN pad' /\ z \notin DOMAIN a.contacts

LEMMA ChangeAhead ==
    ASSUME ProxyTypes, ChangeSlot
    PROVE  /\ Shape(wire') /\ Silent(wire')
           /\ \E s \in Slots, z \in Slots :
                 LET a == After(physical, wire')
                 IN  /\ announced' = s /\ a.slot = z
                     /\ physical.slot = announced => z = s
                     /\ a.tools = physical.tools /\ a.button = physical.button
                     /\ DOMAIN a.contacts \ {z} = DOMAIN physical.contacts \ {z}
                     /\ \A t \in DOMAIN physical.contacts \ {z} : a.contacts[t] = physical.contacts[t]
                     /\ DOMAIN pad' \ {s} = DOMAIN pad \ {s}
                     /\ \A t \in DOMAIN pad \ {s} : pad'[t] = pad[t]
                     /\ Lands(s, z, a) \/ Moves(s, z, a) \/ Lifts(s, z, a)
<1> USE DEF ProxyTypes
<1>0. TouchChanges
  BY DEF ChangeSlot
<1> PICK s \in Slots \ reported : Land(s) \/ Move(s) \/ Lift(s)
  BY <1>0 DEF TouchChanges
<1> DEFINE p1 == IF announced = s THEN physical ELSE Seen(physical, Event("slot", s))
           z  == p1.slot
           a  == After(physical, wire')
<1>1. /\ p1 \in Physicals /\ z \in Slots
      /\ physical.slot = announced => z = s
      /\ p1.contacts = physical.contacts /\ p1.tools = physical.tools /\ p1.button = physical.button
      /\ p1.contacts \in SomeSlots(Contact)
  BY SlotSeen DEF Physicals
<1> DEFINE Same == /\ Shape(wire') /\ Silent(wire')
                   /\ announced' = s /\ a.slot = z
                   /\ a.tools = physical.tools /\ a.button = physical.button
                   /\ DOMAIN a.contacts \ {z} = DOMAIN physical.contacts \ {z}
                   /\ \A t \in DOMAIN physical.contacts \ {z} : a.contacts[t] = physical.contacts[t]
                   /\ DOMAIN pad' \ {s} = DOMAIN pad \ {s}
                   /\ \A t \in DOMAIN pad \ {s} : pad'[t] = pad[t]
<1>2. CASE Land(s)
  <2>1. PICK p \in Points :
           /\ pad' = [t \in DOMAIN pad \cup {s} |->
                         IF t = s THEN [id |-> touches', x |-> p.x, y |-> p.y] ELSE pad[t]]
           /\ Announce(s, <<Event("id", touches')>>, p.x, p.y)
    BY <1>2 DEF Land
  <2> DEFINE e  == Event("id", touches')
             p2 == Seen(p1, e)
  <2>2. touches' = touches + 1 /\ touches' \in Touches /\ ~(touches' < 0)
    BY <1>2, BoundAssumption DEF Land, PadTypes, Touches
  <2>3. e \in AllEvents /\ e.code = "id" /\ e.value = touches'
    BY <2>2 DEF AllEvents, Event
  <2>4. Announce(s, IF FALSE THEN <<>> ELSE <<e>>, p.x, p.y) /\ p.x \in Xs /\ p.y \in Ys
    BY <2>1 DEF Points
  <2> HIDE DEF e
  <2>5. /\ a = IF last[s].x = p.x THEN p2 ELSE Seen(p2, Event("x", p.x))
        /\ Shape(wire') /\ Silent(wire')
    BY <2>3, <2>4, AnnounceAhead
  <2> HIDE DEF p1, a
  <2>6. /\ p2 \in Physicals /\ p2.slot = z /\ p2.tools = p1.tools /\ p2.button = p1.button
        /\ DOMAIN p2.contacts = DOMAIN p1.contacts \cup {z}
        /\ \A t \in DOMAIN p1.contacts \ {z} : p2.contacts[t] = p1.contacts[t]
        /\ p2.contacts[z] = [id |-> touches', x |-> None]
    <3>1. ~(e.value < 0)
      BY <2>2, <2>3
    <3>2. /\ p2 \in Physicals /\ p2.slot = z /\ p2.tools = p1.tools /\ p2.button = p1.button
          /\ DOMAIN p2.contacts = DOMAIN p1.contacts \cup {z}
      BY <1>1, <2>3, <3>1, SeenIs
    <3>3. \A t \in DOMAIN p1.contacts \ {z} : p2.contacts[t] = p1.contacts[t]
      BY <1>1, <2>3, <3>1, SeenIs
    <3>4. p2.contacts[z] = [id |-> e.value, x |-> None]
      BY <1>1, <2>3, <3>1, SeenIs
    <3> QED
      BY <2>3, <3>2, <3>3, <3>4
  <2> HIDE DEF p2
  <2>7. /\ a \in Physicals /\ a.slot = z /\ a.tools = p2.tools /\ a.button = p2.button
        /\ DOMAIN a.contacts = DOMAIN p2.contacts
        /\ \A t \in DOMAIN p2.contacts \ {z} : a.contacts[t] = p2.contacts[t]
        /\ a.contacts[z].id = touches' /\ a.contacts[z].x \in {None, p.x}
    <3>1. CASE last[s].x = p.x
      BY <2>5, <2>6, <3>1
    <3>2. CASE last[s].x # p.x
      <4>1. a = Seen(p2, Event("x", p.x)) /\ p2.slot \in DOMAIN p2.contacts
        BY <2>5, <2>6, <3>2
      <4> QED
        BY <2>4, <2>6, <4>1, PlaceSeen
    <3> QED
      BY <3>1, <3>2
  <2>8. s \in DOMAIN pad' /\ pad'[s].id = touches' /\ pad'[s].x = p.x
    BY <2>1
  <2>9. /\ DOMAIN pad' \ {s} = DOMAIN pad \ {s}
        /\ \A t \in DOMAIN pad \ {s} : pad'[t] = pad[t]
    BY <2>1
  <2>10. Lands(s, z, a)
    BY <2>2, <2>6, <2>7, <2>8 DEF Lands
  <2>11. announced' = s
    BY <2>1 DEF Announce
  <2>12. Same
    BY <1>1, <2>5, <2>6, <2>7, <2>9, <2>11
  <2> HIDE DEF z
  <2> QED
    BY <1>1, <2>10, <2>12 DEF a
<1>3. CASE Move(s)
  <2>1. PICK p \in Points :
           /\ pad' = [pad EXCEPT ![s].x = p.x, ![s].y = p.y]
           /\ Announce(s, <<>>, p.x, p.y)
    BY <1>3 DEF Move
  <2> DEFINE e == Event("id", -1)
  <2>2. s \in DOMAIN pad /\ touches' = touches
    BY <1>3 DEF Move
  <2>3. e \in AllEvents /\ e.code = "id"
    BY DEF AllEvents, Event
  <2>4. Announce(s, IF TRUE THEN <<>> ELSE <<e>>, p.x, p.y) /\ p.x \in Xs /\ p.y \in Ys
    BY <2>1 DEF Points
  <2> HIDE DEF e
  <2>5. /\ a = IF last[s].x = p.x THEN p1 ELSE Seen(p1, Event("x", p.x))
        /\ Shape(wire') /\ Silent(wire')
    BY <2>3, <2>4, AnnounceAhead
  <2> HIDE DEF p1, a
  <2>6. /\ DOMAIN pad' = DOMAIN pad
        /\ pad'[s].id = pad[s].id /\ pad'[s].x = p.x
        /\ \A t \in DOMAIN pad \ {s} : pad'[t] = pad[t]
    BY <2>1, <2>2 DEF PadTypes, Finger
  <2>7. last[s].x = pad[s].x
    BY <2>2 DEF PadTypes
  <2>8. /\ a.slot = z /\ a.tools = p1.tools /\ a.button = p1.button
        /\ DOMAIN a.contacts = DOMAIN p1.contacts
        /\ \A t \in DOMAIN p1.contacts \ {z} : a.contacts[t] = p1.contacts[t]
        /\ z \in DOMAIN p1.contacts =>
              /\ a.contacts[z].id = p1.contacts[z].id
              /\ a.contacts[z].x = p.x \/ (a.contacts[z].x = p1.contacts[z].x /\ last[s].x = p.x)
    <3>1. CASE last[s].x = p.x
      BY <2>5, <3>1
    <3>2. CASE last[s].x # p.x
      <4>1. a = Seen(p1, Event("x", p.x))
        BY <2>5, <3>2
      <4> QED
        BY <1>1, <2>4, <4>1, PlaceSeen
    <3> QED
      BY <3>1, <3>2
  <2>9. Moves(s, z, a)
    BY <1>1, <2>2, <2>6, <2>7, <2>8 DEF Moves
  <2>10. announced' = s
    BY <2>1 DEF Announce
  <2>11. Same
    BY <1>1, <2>5, <2>6, <2>8, <2>10
  <2> HIDE DEF z
  <2> QED
    BY <1>1, <2>9, <2>11 DEF a
<1>4. CASE Lift(s)
  <2> DEFINE e  == Event("id", -1)
             p2 == Seen(p1, e)
             x  == last[s].x
             y  == last[s].y
  <2>1. /\ pad' = [t \in DOMAIN pad \ {s} |-> pad[t]]
        /\ Announce(s, <<e>>, x, y)
        /\ touches' = touches
    BY <1>4 DEF Lift
  <2>3. e \in AllEvents /\ e.code = "id" /\ e.value < 0
    <3>1. e \in AllEvents
      BY DEF AllEvents
    <3>2. e.code = "id" /\ e.value = -1
      BY DEF Event
    <3> QED
      BY <3>1, <3>2
  <2>4. Announce(s, IF FALSE THEN <<>> ELSE <<e>>, x, y) /\ x \in Xs /\ y \in Ys
    BY <2>1 DEF Points, PadTypes
  <2> HIDE DEF e
  <2>5. a = p2 /\ Shape(wire') /\ Silent(wire')
    <3> HIDE DEF y
    <3>1. /\ a = IF last[s].x = x THEN p2 ELSE Seen(p2, Event("x", x))
          /\ Shape(wire') /\ Silent(wire')
      BY <2>3, <2>4, AnnounceAhead
    <3> QED
      BY <3>1
  <2> HIDE DEF p1, a
  <2>6. /\ p2.slot = z /\ p2.tools = p1.tools /\ p2.button = p1.button
        /\ DOMAIN p2.contacts = DOMAIN p1.contacts \ {z}
        /\ \A t \in DOMAIN p1.contacts \ {z} : p2.contacts[t] = p1.contacts[t]
    BY <1>1, <2>3, SeenIs
  <2> HIDE DEF p2
  <2>7. /\ s \notin DOMAIN pad' /\ DOMAIN pad' \ {s} = DOMAIN pad \ {s}
        /\ \A t \in DOMAIN pad \ {s} : pad'[t] = pad[t]
    BY <2>1
  <2>8. Lifts(s, z, a)
    BY <2>1, <2>5, <2>6, <2>7 DEF Lifts
  <2>9. announced' = s
    BY <2>1 DEF Announce
  <2>10. Same
    BY <1>1, <2>5, <2>6, <2>7, <2>9
  <2> HIDE DEF z
  <2> QED
    BY <1>1, <2>8, <2>10 DEF a
<1> QED
  BY <1>2, <1>3, <1>4

LEMMA ReportAhead ==
    ASSUME ProxyTypes, EndReport
    PROVE  LET a == After(physical, wire')
           IN  /\ Shape(wire')
               /\ counted' = Fingers' /\ UNCHANGED <<pad, touches, announced>>
               /\ a.slot = physical.slot /\ a.contacts = physical.contacts
               /\ a.button = physical.button
               /\ a.tools = IF counted' = counted THEN physical.tools
                            ELSE (physical.tools \ {counted}) \cup ({counted'} \cap (1 .. 5))
<1> USE DEF ProxyTypes
<1> DEFINE count == counted'
           u == Event("tool_up", counted)
           d == Event("tool_down", count)
           z == Event("syn", 0)
           U == IF count = counted \/ counted \notin 1 .. 5 THEN <<>> ELSE <<u>>
           D == IF count = counted \/ count \notin 1 .. 5 THEN <<>> ELSE <<d>>
           Z == <<z>>
           DZ == D \o Z
           w == U \o DZ
           p1 == IF U = <<>> THEN physical ELSE Seen(physical, u)
           p2 == IF D = <<>> THEN p1 ELSE Seen(p1, d)
<1>1. /\ counted' = Fingers' /\ UNCHANGED <<pad, touches, announced>>
      /\ wire' = (IF count = counted THEN <<>>
                  ELSE ToolKey("tool_up", counted) \o ToolKey("tool_down", count)) \o Z
  BY DEF EndReport, ReportEnds, Fingers
<1>2. wire' = (U \o D) \o Z
  BY <1>1 DEF ToolKey
<1>3. /\ z \in AllEvents
      /\ U = <<>> \/ (U = <<u>> /\ u \in AllEvents /\ u.code = "tool_up" /\ u.value = counted)
      /\ D = <<>> \/ (D = <<d>> /\ d \in AllEvents /\ d.code = "tool_down" /\ d.value = count)
      /\ U = <<>> <=> count = counted \/ counted \notin 1 .. 5
      /\ D = <<>> <=> count = counted \/ count \notin 1 .. 5
  BY DEF AllEvents, Event
<1>4. Len(Z) <= 3 /\ Z \in Seq(AllEvents) /\ Shape(Z) /\ \A p : After(p, Z) = p
  <2>1. \A p : Seen(p, z) = p
    BY DEF Seen, Event
  <2>2. Len(Z) = 1 /\ Z[1] = z
    OBVIOUS
  <2>3. Z \in Seq(AllEvents)
    BY <1>3
  <2> HIDE DEF Z, z
  <2> QED
    BY <2>1, <2>2, <2>3 DEF Shape, After
<1> HIDE DEF Z, z, u, d, U, D
<1>5. U \in Seq(AllEvents) /\ D \in Seq(AllEvents)
  <2>1. <<>> \in Seq(AllEvents)
    OBVIOUS
  <2>2. U = <<u>> /\ u \in AllEvents => U \in Seq(AllEvents)
    OBVIOUS
  <2>3. D = <<d>> /\ d \in AllEvents => D \in Seq(AllEvents)
    OBVIOUS
  <2> QED
    BY <1>3, <2>1, <2>2, <2>3
<1>6. wire' = w
  BY <1>2, <1>4, <1>5
<1>7. DZ \in Seq(AllEvents) /\ Len(DZ) <= 3 /\ Shape(DZ) /\ After(p1, DZ) = p2
  <2> HIDE DEF p1
  <2>1. CASE D = <<>>
    <3>1. DZ = Z
      BY <1>4, <2>1
    <3> QED
      BY <1>4, <2>1, <3>1
  <2>2. CASE D # <<>>
    <3>1. (D = <<>> \/ D = <<d>>) /\ d \in AllEvents /\ d.code # "syn"
      BY <1>3, <2>2
    <3>2. /\ D \o Z \in Seq(AllEvents) /\ Len(D \o Z) <= Len(Z) + 1
          /\ Shape(D \o Z)
      BY <1>4, <3>1, PrependAhead
    <3>3. D # <<>> => After(p1, D \o Z) = After(Seen(p1, d), Z)
      BY <1>4, <3>1, PrependAhead
    <3>4. Len(Z) = 1
      BY DEF Z
    <3> QED
      BY <1>4, <2>2, <3>2, <3>3, <3>4
  <2> QED
    BY <2>1, <2>2
<1> HIDE DEF DZ, p2
<1>8. Shape(w) /\ After(physical, w) = p2
  <2>1. CASE U = <<>>
    <3>1. w = DZ
      BY <1>7, <2>1
    <3> QED
      BY <1>7, <2>1, <3>1
  <2>2. CASE U # <<>>
    <3>1. (U = <<>> \/ U = <<u>>) /\ u \in AllEvents /\ u.code # "syn"
      BY <1>3, <2>2
    <3>2. Shape(U \o DZ)
      BY <1>7, <3>1, PrependAhead
    <3>3. U # <<>> => After(physical, U \o DZ) = After(Seen(physical, u), DZ)
      BY <1>7, <3>1, PrependAhead
    <3> QED
      BY <1>7, <2>2, <3>2, <3>3
  <2> QED
    BY <2>1, <2>2
<1> HIDE DEF w
<1>9. /\ p1 \in Physicals /\ p1.slot = physical.slot /\ p1.contacts = physical.contacts
      /\ p1.button = physical.button
      /\ p1.tools = IF count = counted THEN physical.tools ELSE physical.tools \ {counted}
  <2>1. CASE U = <<>>
    <3>1. physical.tools \subseteq 1 .. 5
      BY DEF Physicals
    <3>2. counted \notin 1 .. 5 => physical.tools \ {counted} = physical.tools
      BY <3>1
    <3> QED
      BY <1>3, <2>1, <3>2
  <2>2. CASE U # <<>>
    <3>1. /\ u \in AllEvents /\ u.code = "tool_up" /\ u.value = counted /\ count # counted
          /\ p1 = Seen(physical, u)
      BY <1>3, <2>2
    <3> HIDE DEF p1
    <3> QED
      BY <3>1, SeenIs
  <2> QED
    BY <2>1, <2>2
<1> HIDE DEF p1
<1>10. /\ p2.slot = physical.slot /\ p2.contacts = physical.contacts
       /\ p2.button = physical.button
       /\ p2.tools = IF count = counted THEN physical.tools
                     ELSE (physical.tools \ {counted}) \cup ({count} \cap (1 .. 5))
  <2>1. CASE D = <<>>
    <3>1. p2 = p1
      BY <2>1 DEF p2
    <3>2. count # counted => {count} \cap (1 .. 5) = {}
      BY <1>3, <2>1
    <3> QED
      BY <1>9, <3>1, <3>2
  <2>2. CASE D # <<>>
    <3>1. /\ d \in AllEvents /\ d.code = "tool_down" /\ d.value = count /\ count # counted
          /\ {count} \cap (1 .. 5) = {count}
      BY <1>3, <2>2
    <3>2. p2 = Seen(p1, d)
      BY <2>2 DEF p2
    <3>3. /\ p2.slot = p1.slot /\ p2.contacts = p1.contacts /\ p2.button = p1.button
          /\ p2.tools = p1.tools \cup {count}
      BY <1>9, <3>1, <3>2, SeenIs
    <3> QED
      BY <1>9, <3>1, <3>3
  <2> QED
    BY <2>1, <2>2
<1> QED
  BY <1>1, <1>6, <1>8, <1>10

LEMMA ClickAhead ==
    ASSUME ProxyTypes, Click
    PROVE  LET a == After(physical, wire')
           IN  /\ Shape(wire') /\ Silent(wire') /\ UNCHANGED padVars
               /\ a.slot = physical.slot /\ a.contacts = physical.contacts
               /\ a.tools = physical.tools /\ a.button = click'
<1> USE DEF ProxyTypes
<1> DEFINE e == Event("button", IF click THEN 0 ELSE 1)
<1>1. e \in AllEvents /\ e.code = "button" /\ (e.value = 1) = click'
  BY DEF Click, AllEvents, Event
<1>2. wire' = <<e>> /\ UNCHANGED padVars
  BY DEF Click
<1> HIDE DEF e
<1>3. Shape(wire') /\ Silent(wire') /\ After(physical, wire') = Seen(physical, e)
  BY <1>1, <1>2 DEF Shape, Silent, After
<1> DEFINE q == Seen(physical, e)
<1>4. /\ q.slot = physical.slot /\ q.contacts = physical.contacts /\ q.tools = physical.tools
      /\ q.button = (e.value = 1)
  BY <1>1, SeenIs
<1> HIDE DEF q
<1>5. q.button = click'
  BY <1>1, <1>4, Zenon
<1> QED
  BY <1>2, <1>3, <1>4, <1>5 DEF q

LEMMA QuietAhead ==
    ASSUME wire = <<>>
    PROVE  Ahead = physical /\ Silent(wire)
  BY DEF Ahead, After, Silent

\* Reading does not change what the proxy will know.
LEMMA ReadsAhead ==
    ASSUME ProxyTypes, Shape(wire), Reads
    PROVE  Ahead' = Ahead /\ Shape(wire') /\ (Silent(wire) => Silent(wire'))
<1>1. /\ wire # <<>> /\ wire' = Tail(wire) /\ physical' = Seen(physical, Head(wire))
      /\ wire \in Seq(AllEvents)
  BY ReadsAre DEF ProxyTypes
<1>2. /\ After(Seen(physical, Head(wire)), Tail(wire)) = After(physical, wire)
      /\ Shape(Tail(wire))
      /\ Silent(wire) => Silent(Tail(wire))
  BY <1>1, ReadAhead
<1> QED
  BY <1>1, <1>2 DEF Ahead

\* At the end of a report the proxy knows what there is to know.
LEMMA FrameAhead ==
    ASSUME ProxyTypes, Shape(wire), FinishFrame
    PROVE  /\ wire' = <<>> /\ ~Silent(wire) /\ Shape(wire')
           /\ Ahead = physical /\ Ahead' = physical
           /\ UNCHANGED <<padVars, click, physical>>
<1>1. /\ wire # <<>> /\ wire' = Tail(wire) /\ Head(wire).code = "syn"
      /\ wire \in Seq(AllEvents) /\ UNCHANGED <<padVars, click, physical>>
  BY DEF FinishFrame, Read, ProxyTypes
<1>2. Tail(wire) = <<>> /\ wire = <<Head(wire)>>
  BY <1>1, ReadAhead
<1>3. Len(wire) = 1 /\ wire[1] = Head(wire)
  BY <1>1, <1>2
<1>4. Ahead = physical
  <2>1. Seen(physical, wire[1]) = physical
    BY <1>1, <1>3 DEF Seen
  <2> QED
    BY <1>3, <2>1 DEF Ahead, After
<1>5. ~Silent(wire)
  BY <1>1, <1>3 DEF Silent
<1>6. Ahead' = physical /\ Shape(wire')
  BY <1>1, <1>2 DEF Ahead, After, Shape
<1> QED
  BY <1>1, <1>2, <1>4, <1>5, <1>6

-----------------------------------------------------------------------------
(***************************************************************************)
(* Every frame is valid.  What the validator might object to is a tracking *)
(* id that is taken; the ids are given in order, and as long as the pad    *)
(* has not handed out more than there are, none comes round again.         *)
(***************************************************************************)
\* The contacts the pad has told of that are not shown: those that would get
\* an id if they were.
Unshown ==
    {s \in DOMAIN Ahead.contacts :
        ~ /\ s \in DOMAIN virtual.contacts
          /\ virtual.contacts[s].id = Ahead.contacts[s].id}

NumberedUpTo(n) ==
    /\ virtual.next = (n % MaxTrackingId) + 1
    /\ \A s \in DOMAIN active : active[s] \in 1 .. n
    /\ mode # "suppressing" => n + Cardinality(Unshown) <= touches

IdsInOrder == session = "open" => \E n \in 0 .. touches : NumberedUpTo(n)

LEMMA AheadType ==
    ASSUME ProxyTypes, Shape(wire)
    PROVE  Ahead \in Physicals /\ DOMAIN Ahead.contacts \subseteq Slots
           /\ Ahead.contacts \in [DOMAIN Ahead.contacts -> Contact]
<1>1. wire \in Seq(AllEvents) /\ physical \in Physicals
  BY DEF ProxyTypes
<1>2. Len(wire) \in Nat
  BY <1>1
<1> DEFINE p1 == IF Len(wire) >= 1 THEN Seen(physical, wire[1]) ELSE physical
           p2 == IF Len(wire) >= 2 THEN Seen(p1, wire[2]) ELSE p1
           p3 == IF Len(wire) >= 3 THEN Seen(p2, wire[3]) ELSE p2
           p4 == IF Len(wire) >= 4 THEN Seen(p3, wire[4]) ELSE p3
<1>3. Ahead = p4
  BY DEF Ahead, After
<1>4. ASSUME NEW p \in Physicals, NEW i \in 1 .. Len(wire) PROVE Seen(p, wire[i]) \in Physicals
  <2>1. wire[i] \in AllEvents
    BY <1>1
  <2> QED
    BY <2>1, SeenIs
<1>5. p1 \in Physicals
  BY <1>1, <1>2, <1>4
<1> HIDE DEF p1
<1>6. p2 \in Physicals
  BY <1>2, <1>4, <1>5
<1> HIDE DEF p2
<1>7. p3 \in Physicals
  BY <1>2, <1>4, <1>6
<1> HIDE DEF p3
<1>9. p4 \in Physicals
  BY <1>2, <1>4, <1>7
<1> HIDE DEF p4
<1>8. Ahead.contacts \in SomeSlots(Contact)
  BY <1>3, <1>9 DEF Physicals
<1> QED
  BY <1>3, <1>8, <1>9, SomeSlotsIs

LEMMA NextIds ==
    ASSUME NEW M \in Nat \ {0}, NEW n \in Nat, NEW k \in Nat, n + k <= M
    PROVE  /\ \A j \in 0 .. (k - 1) : ((((n % M) + 1) - 1 + j) % M) + 1 = n + j + 1
           /\ ((((n % M) + 1) - 1 + k) % M) + 1 = ((n + k) % M) + 1
<1>1. ASSUME NEW a \in Nat, a < M PROVE a % M = a
  BY <1>1
<1>2. M % M = 0
  OBVIOUS
<1>3. CASE n < M
  <2>1. n % M = n
    BY <1>1, <1>3
  <2>2. ASSUME NEW j \in 0 .. (k - 1) PROVE (n + j) % M = n + j
    <3>1. n + j \in Nat /\ n + j < M
      OBVIOUS
    <3> QED
      BY <1>1, <3>1
  <2>3. ((n % M) + 1) - 1 + k = n + k
    BY <2>1
  <2>4. \A j \in 0 .. (k - 1) : ((n % M) + 1) - 1 + j = n + j
    BY <2>1
  <2> QED
    BY <2>2, <2>3, <2>4
<1>4. CASE n = M
  <2>1. k = 0 /\ n % M = 0
    BY <1>2, <1>4
  <2>2. ((n % M) + 1) - 1 + k = 0 /\ n + k = M
    BY <1>4, <2>1
  <2>3. 0 % M = 0
    BY <1>1
  <2> QED
    BY <1>2, <2>1, <2>2, <2>3
<1> QED
  BY <1>3, <1>4

\* The ids of the new contacts are the numbers after n.
LEMMA NewIdsInOrder ==
    ASSUME virtual \in Virtuals, NEW desired \in Snapshots, NEW n \in Nat,
           virtual.next = (n % MaxTrackingId) + 1,
           n + Cardinality(New(desired)) <= MaxTrackingId
    PROVE  /\ Cardinality(New(desired)) \in Nat
           /\ \A s \in New(desired) : IdOf(desired, s) \in (n + 1) .. (n + Cardinality(New(desired)))
           /\ \A s, t \in New(desired) : IdOf(desired, t) = IdOf(desired, s) => t = s
           /\ Allocated(Cardinality(New(desired))) = ((n + Cardinality(New(desired))) % MaxTrackingId) + 1
<1> DEFINE new == New(desired)
           k == Cardinality(new)
           below(s) == {t \in new : t < s}
           M == MaxTrackingId
<1>1. new \subseteq Slots /\ IsFiniteSet(new) /\ k \in Nat
  BY GoneNewKept, FiniteSlots
<1>2. M \in Nat \ {0}
  BY TrackingIdAssumption
<1>3. /\ \A j \in 0 .. (k - 1) : Allocated(j) = n + j + 1
      /\ Allocated(k) = ((n + k) % M) + 1
  <2>1. /\ \A j \in 0 .. (k - 1) : ((((n % M) + 1) - 1 + j) % M) + 1 = n + j + 1
        /\ ((((n % M) + 1) - 1 + k) % M) + 1 = ((n + k) % M) + 1
    <3> HIDE DEF k, M
    <3>1. n + k <= M
      BY DEF k, M
    <3> QED
      BY <1>1, <1>2, <3>1, NextIds
  <2> HIDE DEF k
  <2> QED
    BY <2>1 DEF Allocated
<1> HIDE DEF new
<1>4. ASSUME NEW s \in new
      PROVE  /\ IsFiniteSet(below(s)) /\ Cardinality(below(s)) \in 0 .. (k - 1)
  <2>1. below(s) \subseteq new /\ s \notin below(s)
    BY <1>1, SlotsAre
  <2>2. IsFiniteSet(below(s)) /\ Cardinality(below(s)) \in Nat /\ Cardinality(below(s)) <= k
        /\ (Cardinality(below(s)) = k => below(s) = new)
    BY <1>1, <2>1, FS_Subset, FS_CardinalityType
  <2>3. below(s) # new
    BY <2>1
  <2> HIDE DEF below, k
  <2> QED
    BY <1>1, <2>2, <2>3
<1>5. ASSUME NEW s \in new PROVE IdOf(desired, s) = n + Cardinality(below(s)) + 1
  <2>1. IdOf(desired, s) = Allocated(Cardinality(below(s)))
    BY DEF IdOf, new
  <2> HIDE DEF below, k
  <2> QED
    BY <1>3, <1>4, <2>1
<1>6. ASSUME NEW s \in new, NEW t \in new, s < t
      PROVE  Cardinality(below(s)) < Cardinality(below(t))
  <2>1. below(s) \subseteq below(t) /\ s \in below(t) /\ s \notin below(s)
    <3>1. \A u \in new : u \in Nat
      BY <1>1, SlotsAre
    <3> QED
      BY <1>6, <3>1
  <2>2. Cardinality(below(s)) <= Cardinality(below(t))
        /\ (Cardinality(below(s)) = Cardinality(below(t)) => below(s) = below(t))
    BY <1>4, <2>1, FS_Subset
  <2>3. below(s) # below(t)
    BY <2>1
  <2>4. Cardinality(below(s)) \in Nat /\ Cardinality(below(t)) \in Nat
    BY <1>4, FS_CardinalityType
  <2> HIDE DEF below
  <2> QED
    BY <2>2, <2>3, <2>4
<1> HIDE DEF below
<1>7. ASSUME NEW s \in new PROVE IdOf(desired, s) \in (n + 1) .. (n + k)
  <2> HIDE DEF k
  <2> QED
    BY <1>1, <1>4, <1>5
<1>8. ASSUME NEW s \in new, NEW t \in new, IdOf(desired, t) = IdOf(desired, s) PROVE t = s
  <2>1. Cardinality(below(s)) \in Nat /\ Cardinality(below(t)) \in Nat
    BY <1>4
  <2>2. Cardinality(below(s)) = Cardinality(below(t))
    BY <1>5, <1>8, <2>1
  <2>3. ~(s < t) /\ ~(t < s)
    BY <1>6, <2>1, <2>2
  <2>4. s \in Nat /\ t \in Nat
    BY <1>1, SlotsAre
  <2> QED
    BY <2>3, <2>4
<1> QED
  BY <1>1, <1>3, <1>7, <1>8 DEF new

LEMMA CardinalityUpTo ==
    ASSUME NEW S, NEW T, IsFiniteSet(T), NEW z
    PROVE  /\ S \subseteq T => Cardinality(S) \in Nat /\ Cardinality(S) <= Cardinality(T)
           /\ S \subseteq T \cup {z} => Cardinality(S) \in Nat /\ Cardinality(S) <= Cardinality(T) + 1
<1>1. IsFiniteSet(T \cup {z}) /\ Cardinality(T) \in Nat
      /\ Cardinality(T \cup {z}) \in Nat /\ Cardinality(T \cup {z}) <= Cardinality(T) + 1
  <2>1. IsFiniteSet(T \cup {z}) /\ Cardinality(T \cup {z}) = IF z \in T THEN Cardinality(T) ELSE Cardinality(T) + 1
    BY FS_AddElement
  <2>2. Cardinality(T) \in Nat
    BY FS_CardinalityType
  <2> QED
    BY <2>1, <2>2
<1>2. ASSUME S \subseteq T PROVE Cardinality(S) \in Nat /\ Cardinality(S) <= Cardinality(T)
  BY <1>2, FS_Subset, FS_CardinalityType
<1>3. ASSUME S \subseteq T \cup {z}
      PROVE  Cardinality(S) \in Nat /\ Cardinality(S) <= Cardinality(T) + 1
  <2>1. Cardinality(S) \in Nat /\ Cardinality(S) <= Cardinality(T \cup {z})
    BY <1>1, <1>3, FS_Subset, FS_CardinalityType
  <2> QED
    BY <1>1, <2>1
<1> QED
  BY <1>2, <1>3

LEMMA UnshownFinite ==
    ASSUME ProxyTypes, Shape(wire)
    PROVE  Unshown \subseteq Slots /\ IsFiniteSet(Unshown) /\ Cardinality(Unshown) \in Nat
<1>1. Unshown \subseteq Slots
  BY AheadType DEF Unshown
<1> QED
  BY <1>1, FiniteSlots

\* The pad's steps: who lands may be waiting for an id, and nobody else.
LEMMA PadStepsNumber ==
    ASSUME TInv, Shape(wire), IdsInOrder, PadSteps
    PROVE  IdsInOrder' /\ Shape(wire')
<1> USE DEF TInv
<1>1. /\ session = "open" /\ wire = <<>> /\ Ahead = physical
      /\ UNCHANGED <<physical, mode, virtual, active, session>>
      /\ Ahead' = After(physical, wire')
  BY PadStepsAre, QuietAhead DEF Ahead
<1> DEFINE a == After(physical, wire')
           U == {s \in DOMAIN a.contacts :
                    ~ /\ s \in DOMAIN virtual.contacts
                      /\ virtual.contacts[s].id = a.contacts[s].id}
<1>2. Unshown' = U
  BY <1>1 DEF Unshown
<1>3. /\ Unshown = {s \in DOMAIN physical.contacts :
                       ~ /\ s \in DOMAIN virtual.contacts
                         /\ virtual.contacts[s].id = physical.contacts[s].id}
      /\ IsFiniteSet(Unshown) /\ Cardinality(Unshown) \in Nat
  BY <1>1, UnshownFinite DEF Unshown
<1>4. /\ Shape(wire')
      /\ \E z : \/ touches' = touches /\ U \subseteq Unshown
                \/ touches' = touches + 1 /\ U \subseteq Unshown \cup {z}
  <2>1. CASE ChangeSlot
    <3>1. Shape(wire')
      BY <2>1, ChangeAhead
    <3>2. PICK s \in Slots, z \in Slots :
             /\ DOMAIN a.contacts \ {z} = DOMAIN physical.contacts \ {z}
             /\ \A t \in DOMAIN physical.contacts \ {z} : a.contacts[t] = physical.contacts[t]
             /\ Lands(s, z, a) \/ Moves(s, z, a) \/ Lifts(s, z, a)
      BY <2>1, ChangeAhead
    <3> HIDE DEF a
    <3>3. U \subseteq Unshown \cup {z}
      BY <1>3, <3>2
    <3>4. CASE Lands(s, z, a)
      BY <3>1, <3>3, <3>4 DEF Lands
    <3>5. CASE Moves(s, z, a)
      <4>1. U \subseteq Unshown
        BY <1>3, <3>2, <3>5 DEF Moves
      <4> QED
        BY <3>1, <3>5, <4>1 DEF Moves
    <3>6. CASE Lifts(s, z, a)
      <4>1. U \subseteq Unshown
        BY <1>3, <3>2, <3>6 DEF Lifts
      <4> QED
        BY <3>1, <3>6, <4>1 DEF Lifts
    <3> QED
      BY <3>2, <3>4, <3>5, <3>6
  <2>2. CASE Click
    <3>1. Shape(wire') /\ a.contacts = physical.contacts /\ touches' = touches
      BY <2>2, ClickAhead DEF padVars
    <3> QED
      BY <1>3, <3>1
  <2>3. CASE EndReport
    <3>1. Shape(wire') /\ a.contacts = physical.contacts /\ touches' = touches
      BY <2>3, ReportAhead
    <3> QED
      BY <1>3, <3>1
  <2> QED
    BY <2>1, <2>2, <2>3 DEF PadSteps
<1> HIDE DEF U
<1>5. /\ touches \in Nat /\ touches' \in Nat /\ touches <= touches'
      /\ Cardinality(U) \in Nat
      /\ Cardinality(U) <= Cardinality(Unshown) + (touches' - touches)
  <2>1. touches \in Nat
    BY DEF ProxyTypes, PadTypes
  <2>2. CASE touches' = touches /\ U \subseteq Unshown
    BY <1>3, <2>1, <2>2, CardinalityUpTo
  <2>3. ASSUME NEW z, touches' = touches + 1 /\ U \subseteq Unshown \cup {z}
        PROVE  /\ touches' \in Nat /\ touches <= touches' /\ Cardinality(U) \in Nat
               /\ Cardinality(U) <= Cardinality(Unshown) + (touches' - touches)
    <3>1. Cardinality(U) \in Nat /\ Cardinality(U) <= Cardinality(Unshown) + 1
      BY <1>3, <2>3, CardinalityUpTo
    <3> QED
      BY <1>3, <2>1, <2>3, <3>1
  <2> QED
    BY <1>4, <2>1, <2>2, <2>3
<1>6. PICK n \in 0 .. touches : NumberedUpTo(n)
  BY <1>1 DEF IdsInOrder
<1>7. n \in 0 .. touches'
  BY <1>5
<1>8. /\ virtual'.next = (n % MaxTrackingId) + 1
      /\ \A s \in DOMAIN active' : active'[s] \in 1 .. n
  BY <1>1, <1>6 DEF NumberedUpTo
<1>9. ASSUME mode' # "suppressing" PROVE n + Cardinality(Unshown') <= touches'
  <2>1. n + Cardinality(Unshown) <= touches
    BY <1>1, <1>6, <1>9 DEF NumberedUpTo
  <2> QED
    BY <1>2, <1>3, <1>5, <2>1
<1>10. NumberedUpTo(n)'
  BY <1>8, <1>9 DEF NumberedUpTo
<1> QED
  BY <1>4, <1>7, <1>10 DEF IdsInOrder

LEMMA RouteCases ==
    /\ mode = "suppressing" =>
          /\ Route.desired = Nobody
          /\ Route.mode = IF SeenFingers = 0 THEN "forwarding" ELSE "suppressing"
    /\ mode # "suppressing" =>
          \/ /\ SeenFingers >= 3
             /\ Route.mode = "suppressing" /\ Route.desired = Nobody
          \/ /\ ~(SeenFingers >= 3)
             /\ SeenFingers < 2 \/ (mode = "pending" /\ waited >= Window)
             /\ Route.mode = "forwarding" /\ Route.desired = Snapshot
          \/ /\ ~(SeenFingers >= 3) /\ ~(SeenFingers < 2)
             /\ Route.mode = "pending" /\ Route.desired = PendingSnapshot
  BY DEF Route, Routed

\* The fingers counted are as many as the contacts or as a tool key has,
\* whichever is more.
LEMMA SeenFingersIs ==
    ASSUME physical \in Physicals
    PROVE  LET reports == physical.tools \cup {Cardinality(DOMAIN physical.contacts)}
           IN  /\ SeenFingers \in reports /\ SeenFingers \in Nat
               /\ \A n \in reports : n <= SeenFingers
               /\ Cardinality(DOMAIN physical.contacts) \in Nat
               /\ SeenFingers = 0 => DOMAIN physical.contacts = {}
<1> DEFINE c == Cardinality(DOMAIN physical.contacts)
           K == physical.tools
           R == K \cup {c}
<1>1. K \subseteq 1 .. 5 /\ DOMAIN physical.contacts \subseteq Slots
  BY SomeSlotsIs DEF Physicals
<1>2. IsFiniteSet(DOMAIN physical.contacts) /\ c \in Nat
  BY <1>1, FiniteSlots
<1>3. SeenFingers = CHOOSE n \in R : \A m \in R : m <= n
  BY DEF SeenFingers
<1> HIDE DEF c, K
<1>4. \E n \in R : \A m \in R : m <= n
  <2>1. CASE K = {}
    BY <1>2, <2>1
  <2>2. CASE K # {}
    <3>1. \E k \in K : \A m \in K : m <= k
      <4>1. CASE 5 \in K
        BY <1>1, <4>1
      <4>2. CASE 4 \in K /\ 5 \notin K
        BY <1>1, <4>2
      <4>3. CASE 3 \in K /\ 4 \notin K /\ 5 \notin K
        BY <1>1, <4>3
      <4>4. CASE 2 \in K /\ 3 \notin K /\ 4 \notin K /\ 5 \notin K
        BY <1>1, <4>4
      <4>5. CASE K = {1}
        BY <4>5
      <4> QED
        <5>1. 2 \notin K /\ 3 \notin K /\ 4 \notin K /\ 5 \notin K => K = {1}
          <6> SUFFICES ASSUME 2 \notin K, 3 \notin K, 4 \notin K, 5 \notin K PROVE K = {1}
            OBVIOUS
          <6>1. \A m \in K : m = 1
            BY <1>1
          <6> QED
            BY <2>2, <6>1
        <5> QED
          BY <4>1, <4>2, <4>3, <4>4, <4>5, <5>1
    <3>2. PICK k \in K : \A m \in K : m <= k
      BY <3>1
    <3>3. k \in Nat
      BY <1>1
    <3>4. CASE c <= k
      BY <3>2, <3>4
    <3>5. CASE ~(c <= k)
      <4>1. \A m \in K : m <= c
        BY <1>1, <1>2, <3>2, <3>3, <3>5
      <4> QED
        BY <1>2, <4>1
    <3> QED
      BY <3>4, <3>5
  <2> QED
    BY <2>1, <2>2
<1>5. SeenFingers \in R /\ \A m \in R : m <= SeenFingers
  BY <1>3, <1>4
<1>6. SeenFingers \in Nat
  BY <1>1, <1>2, <1>5
<1>7. SeenFingers = 0 => DOMAIN physical.contacts = {}
  <2>1. SeenFingers = 0 => c = 0
    BY <1>2, <1>5
  <2> QED
    BY <1>2, <2>1, FS_EmptySet DEF c
<1> QED
  BY <1>2, <1>5, <1>6, <1>7 DEF c, K

LEMMA NewOf ==
    /\ New(Nobody) = {}
    /\ New(PendingSnapshot) = {}
    /\ New(Snapshot) = {s \in DOMAIN physical.contacts :
                           ~ /\ s \in DOMAIN virtual.contacts
                             /\ virtual.contacts[s].id = physical.contacts[s].id}
<1>1. New(Nobody) = {}
  BY DEF New, Nobody, NoContacts
<1>2. New(Snapshot) = {s \in DOMAIN physical.contacts :
                          ~ /\ s \in DOMAIN virtual.contacts
                            /\ virtual.contacts[s].id = physical.contacts[s].id}
  <2>1. Snapshot.contacts = physical.contacts
    BY DEF Snapshot
  <2> QED
    BY <2>1 DEF New, Arrives, Leaves
<1>3. New(PendingSnapshot) = {}
  <2> DEFINE same == {s \in DOMAIN virtual.contacts \cap DOMAIN physical.contacts :
                         physical.contacts[s].id = virtual.contacts[s].id}
  <2>1. PendingSnapshot.contacts = [s \in same |-> physical.contacts[s]]
    BY DEF PendingSnapshot
  <2>2. ASSUME NEW s \in DOMAIN PendingSnapshot.contacts
        PROVE  /\ s \in DOMAIN virtual.contacts
               /\ PendingSnapshot.contacts[s].id = virtual.contacts[s].id
    BY <2>1
  <2> QED
    BY <2>2 DEF New, Arrives, Leaves
<1> QED
  BY <1>1, <1>2, <1>3

\* The contacts of the desired snapshots are the pad's, as far as it is known.
LEMMA DesiredContacts ==
    ASSUME ProxyTypes
    PROVE  LET desired == Route.desired
           IN  /\ DOMAIN desired.contacts \subseteq DOMAIN physical.contacts
               /\ \A s \in DOMAIN desired.contacts : desired.contacts[s] = physical.contacts[s]
<1>1. Route.desired \in {Nobody, Snapshot, PendingSnapshot}
  BY RouteCases
<1> QED
  BY <1>1 DEF Nobody, NoContacts, Snapshot, PendingSnapshot

\* A frame gives the next ids, and leaves enough for those that wait.
LEMMA FrameNumbers ==
    ASSUME TInv, Shape(wire), IdsInOrder, MaxTouches <= MaxTrackingId, FinishFrame
    PROVE  /\ NewIds(Route.desired)
           /\ \A s \in New(Route.desired) : \A t \in DOMAIN active : active[t] # IdOf(Route.desired, s)
           /\ IdsInOrder'
<1> USE DEF TInv
<1> DEFINE desired == Route.desired
           new == New(desired)
           k == Cardinality(new)
           waits == {s \in DOMAIN physical.contacts :
                        ~ /\ s \in DOMAIN virtual.contacts
                          /\ virtual.contacts[s].id = physical.contacts[s].id}
<1>1. /\ session = "open" /\ mode' = Route.mode /\ Send(desired, "open", "failed")
      /\ virtual \in Virtuals /\ desired \in Snapshots /\ physical \in Physicals
      /\ DOMAIN active = DOMAIN virtual.contacts
      /\ touches' = touches
  BY RouteIs DEF FinishFrame, ProxyTypes, ViewsAgree, Read, padVars
<1>2. Ahead = physical /\ Ahead' = physical
  BY FrameAhead
<1>3. PICK n \in 0 .. touches : NumberedUpTo(n)
  BY <1>1 DEF IdsInOrder
<1>4. /\ virtual.next = (n % MaxTrackingId) + 1
      /\ \A s \in DOMAIN active : active[s] \in 1 .. n
      /\ mode # "suppressing" => n + Cardinality(waits) <= touches
  BY <1>2, <1>3 DEF NumberedUpTo, Unshown
<1>5. touches \in Nat /\ touches <= MaxTrackingId /\ n \in Nat /\ n <= touches
      /\ IsFiniteSet(waits) /\ Cardinality(waits) \in Nat
  <2>1. touches \in 0 .. MaxTouches /\ MaxTouches \in Nat
    BY BoundAssumption DEF ProxyTypes, PadTypes
  <2>2. MaxTrackingId \in Nat
    BY TrackingIdAssumption
  <2>3. waits = Unshown
    BY <1>2 DEF Unshown
  <2> HIDE DEF waits
  <2>4. IsFiniteSet(waits) /\ Cardinality(waits) \in Nat
    BY <2>3, UnshownFinite
  <2> QED
    BY <2>1, <2>2, <2>4
<1>6. /\ mode = "suppressing" => new = {}
      /\ mode # "suppressing" => new = {} \/ new = waits
  BY RouteCases, NewOf
<1> HIDE DEF waits, new, desired
<1>7. k \in Nat /\ n + k <= touches
  <2>1. CASE new = {}
    <3>1. k = 0
      BY <2>1, FS_EmptySet
    <3> QED
      BY <1>5, <3>1
  <2>2. CASE new = waits /\ mode # "suppressing"
    BY <1>4, <1>5, <2>2
  <2> QED
    BY <1>6, <2>1, <2>2
<1>8. /\ \A s \in new : IdOf(desired, s) \in (n + 1) .. (n + k)
      /\ \A s, t \in new : IdOf(desired, t) = IdOf(desired, s) => t = s
      /\ Allocated(k) = ((n + k) % MaxTrackingId) + 1
  <2>1. n + Cardinality(New(desired)) <= MaxTrackingId
    <3> HIDE DEF k
    <3>1. n + k <= MaxTrackingId
      BY <1>5, <1>7, TrackingIdAssumption
    <3> QED
      BY <3>1 DEF k, new
  <2> QED
    BY <1>1, <1>4, <1>5, <2>1, NewIdsInOrder DEF new
<1> HIDE DEF k
<1>9. \A s \in new : \A t \in DOMAIN active : active[t] # IdOf(desired, s)
  BY <1>4, <1>5, <1>7, <1>8
<1>10. NewIds(desired)
  <2>1. Kept(desired) \subseteq DOMAIN active
    BY <1>1, GoneNewKept
  <2> QED
    BY <1>8, <1>9, <2>1 DEF NewIds, new
<1> PICK m \in Nat : m = n + k
  BY <1>5, <1>7
<1>11. ASSUME session' = "open" PROVE NumberedUpTo(m)' /\ m \in 0 .. touches'
  <2>1. /\ virtual' = Synthesized(desired)
        /\ DOMAIN active' = DOMAIN desired.contacts
        /\ \A s \in Kept(desired) : active'[s] = active[s]
        /\ \A s \in New(desired) : active'[s] = IdOf(desired, s)
    BY <1>1, <1>11, SendAgrees DEF ViewsAgree
  <2>2. virtual'.next = Allocated(k) /\ virtual'.contacts = desired.contacts
    BY <1>1, <2>1, SynthesizedType DEF k, new
  <2>3. ASSUME NEW s \in DOMAIN active' PROVE active'[s] \in 1 .. m
    <3>1. CASE s \in new
      BY <1>5, <1>7, <1>8, <2>1, <3>1 DEF new
    <3>2. CASE s \in Kept(desired)
      <4>1. s \in DOMAIN active
        BY <1>1, <3>2, GoneNewKept
      <4> QED
        BY <1>4, <1>5, <1>7, <2>1, <3>2, <4>1
    <3> QED
      BY <2>1, <3>1, <3>2 DEF Kept, new
  <2>4. ASSUME mode' # "suppressing" PROVE m + Cardinality(Unshown') <= touches'
    <3>1. Unshown' = {s \in DOMAIN physical.contacts :
                         ~ /\ s \in DOMAIN desired.contacts
                           /\ desired.contacts[s].id = physical.contacts[s].id}
      BY <1>2, <2>2 DEF Unshown
    <3>2. CASE DOMAIN physical.contacts = {} \/ desired = Snapshot
      <4>1. Unshown' = {}
        BY <3>1, <3>2 DEF Snapshot
      <4>2. Cardinality(Unshown') = 0
        BY <4>1, FS_EmptySet
      <4> QED
        BY <1>1, <1>5, <1>7, <4>2
    <3>3. CASE mode # "suppressing" /\ desired = PendingSnapshot
      <4>1. new = {} /\ k = 0
        BY <3>3, NewOf, FS_EmptySet DEF new, k
      <4>2. Unshown' = waits
        BY <3>1, <3>3 DEF PendingSnapshot, waits
      <4> QED
        BY <1>1, <1>4, <1>5, <3>3, <4>1, <4>2
    <3>4. CASE mode = "suppressing"
      <4>1. SeenFingers = 0
        BY <1>1, <2>4, <3>4, RouteCases
      <4> QED
        BY <1>1, <3>2, <4>1, SeenFingersIs
    <3>5. CASE mode # "suppressing"
      <4>1. desired = Snapshot \/ desired = PendingSnapshot
        BY <1>1, <2>4, <3>5, RouteCases DEF desired
      <4> QED
        BY <3>2, <3>3, <3>5, <4>1
    <3> QED
      BY <3>4, <3>5
  <2>5. m \in 0 .. touches'
    BY <1>1, <1>5, <1>7
  <2> QED
    BY <1>8, <2>2, <2>3, <2>4, <2>5 DEF NumberedUpTo
<1>12. IdsInOrder'
  <2>1. ASSUME session' = "open" PROVE \E l \in 0 .. touches' : NumberedUpTo(l)'
    BY <1>11, <2>1
  <2> QED
    BY <2>1 DEF IdsInOrder, NumberedUpTo
<1> QED
  BY <1>9, <1>10, <1>12 DEF desired, new

Valid ==
    /\ ~rejected
    /\ session = "failed" => refused
    /\ session \in {"open", "failed"} => DOMAIN active = DOMAIN virtual.contacts
    /\ ReleaseLeavesNothing

FInv == TInv /\ Shape(wire) /\ IdsInOrder /\ Valid

LEMMA SendValid ==
    ASSUME ProxyTypes, NEW desired \in Snapshots, NewIds(desired),
           DOMAIN active = DOMAIN virtual.contacts,
           NEW ok, NEW failed, ok # failed, Send(desired, ok, failed)
    PROVE  /\ rejected' = rejected
           /\ session' = failed => refused'
           /\ refused => refused'
           /\ DOMAIN active' = DOMAIN virtual'.contacts
<1> USE DEF ProxyTypes
<1>1. Validate(Synthesize(desired)).ok
      /\ DOMAIN Validate(Synthesize(desired)).ids = DOMAIN desired.contacts
  BY PacketChecked
<1>2. Synthesized(desired).contacts = desired.contacts
  BY SynthesizedType
<1> QED
  BY <1>1, <1>2 DEF Send

LEMMA EmptyViews ==
    ASSUME NEW d \in Devices, DOMAIN d.ids = {}, ~d.button, d.tools = {}
    PROVE  Clear(d)
<1>1. d.ids \in [DOMAIN d.ids -> Ids]
  BY SomeSlotsIs DEF Devices
<1> DEFINE f == d.ids
<1>2. f \in [{} -> Ids] /\ NoContacts \in [{} -> Ids]
  BY <1>1 DEF NoContacts
<1> HIDE DEF f
<1>3. f = NoContacts
  BY <1>2
<1> QED
  BY <1>3 DEF Clear, f

LEMMA NobodyNew == NewIds(Nobody)
  BY NewOf DEF NewIds

LEMMA ReleaseValid ==
    ASSUME TInv, Valid, ReleaseAll
    PROVE  Valid'
<1> USE DEF TInv
<1>1. /\ session \in {"open", "failed"} /\ Send(Nobody, "released", "unreleased")
      /\ DOMAIN active = DOMAIN virtual.contacts /\ ~rejected
      /\ Nobody \in Snapshots /\ DOMAIN Nobody.contacts = {} /\ ~Nobody.button
  BY RouteIs DEF ReleaseAll, Valid
<1>2. rejected' = rejected /\ (refused => refused')
  BY <1>1, NobodyNew, SendValid
<1>3. session' \in {"released", "unreleased"} /\ device' \in Devices
  BY <1>1, SendTypes
<1>4. ASSUME session' = "released", ~refused' PROVE Clear(device')
  <2>1. session = "open"
    BY <1>1, <1>2, <1>4 DEF Valid
  <2>2. /\ device'.ids = active' /\ DOMAIN active' = DOMAIN virtual'.contacts
        /\ device'.button = virtual'.button
        /\ device'.tools = (1 .. 5) \cap {VirtualFingers(virtual')}
        /\ virtual' = Synthesized(Nobody)
    BY <1>1, <1>4, <2>1, SendAgrees DEF ViewsAgree
  <2>3. virtual'.contacts = Nobody.contacts /\ virtual'.button = Nobody.button
    BY <1>1, <2>2, SynthesizedType DEF ProxyTypes
  <2>4. VirtualFingers(virtual') = 0
    BY <1>1, <2>3, FS_EmptySet DEF VirtualFingers
  <2>5. DOMAIN device'.ids = {} /\ ~device'.button /\ device'.tools = {}
    BY <1>1, <2>2, <2>3, <2>4
  <2> QED
    BY <1>3, <2>5, EmptyViews
<1> QED
  BY <1>1, <1>2, <1>3, <1>4 DEF Valid, ReleaseLeavesNothing, Clear

LEMMA FInvInit == Init => FInv
<1> SUFFICES ASSUME Init PROVE FInv
  OBVIOUS
<1>1. TInv
  BY TInvInit
<1>2. wire = <<>> /\ Shape(wire) /\ Ahead = physical
  BY QuietAhead DEF Init, PadInit, Shape
<1>3. /\ physical.contacts = NoContacts /\ virtual.next = 1 /\ active = NoContacts
      /\ DOMAIN NoContacts = {} /\ virtual.contacts = NoContacts
  BY DEF Init, NoContacts
<1>4. Unshown = {} /\ Cardinality({}) = 0
  BY <1>2, <1>3, FS_EmptySet DEF Unshown
<1>5. touches \in Nat
  BY <1>1 DEF TInv, ProxyTypes, PadTypes
<1>6. 0 % MaxTrackingId = 0
  BY TrackingIdAssumption
<1>7. NumberedUpTo(0)
  BY <1>3, <1>4, <1>5, <1>6 DEF NumberedUpTo
<1>8. IdsInOrder
  BY <1>5, <1>7 DEF IdsInOrder
<1>9. Valid
  BY <1>3 DEF Init, Valid, ReleaseLeavesNothing
<1> QED
  BY <1>1, <1>2, <1>8, <1>9 DEF FInv

LEMMA FInvNext ==
    ASSUME MaxTouches <= MaxTrackingId
    PROVE  FInv /\ [Next]_vars => FInv'
<1> SUFFICES ASSUME FInv, [Next]_vars PROVE FInv'
  OBVIOUS
<1> USE DEF FInv
<1>1. TInv'
  BY TInvNext
<1>2. ProxyTypes
  BY DEF TInv
<1>3. CASE PadSteps
  <2>1. /\ session = "open"
        /\ UNCHANGED <<virtual, active, session, device, rejected, refused>>
    BY <1>2, <1>3, PadStepsAre
  <2>2. Valid'
    BY <2>1 DEF Valid, ReleaseLeavesNothing, Clear
  <2> QED
    BY <1>1, <1>3, <2>2, PadStepsNumber
<1>4. CASE Reads
  <2>1. /\ UNCHANGED <<touches, mode, virtual, active, session, device, rejected, refused>>
    BY <1>2, <1>4, ReadsAre DEF history, padVars
  <2>2. Ahead' = Ahead /\ Shape(wire')
    BY <1>2, <1>4, ReadsAhead
  <2>3. Unshown' = Unshown
    BY <2>1, <2>2 DEF Unshown
  <2>4. IdsInOrder'
    BY <2>1, <2>3 DEF IdsInOrder, NumberedUpTo
  <2>5. Valid'
    BY <2>1 DEF Valid, ReleaseLeavesNothing, Clear
  <2> QED
    BY <1>1, <2>2, <2>4, <2>5
<1>5. CASE FinishFrame
  <2>1. NewIds(Route.desired) /\ IdsInOrder'
    BY <1>5, FrameNumbers
  <2>2. Shape(wire')
    BY <1>2, <1>5, FrameAhead
  <2>3. /\ session = "open" /\ Send(Route.desired, "open", "failed")
        /\ Route.desired \in Snapshots /\ DOMAIN active = DOMAIN virtual.contacts
    BY <1>2, <1>5, RouteIs DEF FinishFrame, Valid
  <2>4. /\ rejected' = rejected
        /\ session' = "failed" => refused'
        /\ DOMAIN active' = DOMAIN virtual'.contacts
    BY <1>2, <2>1, <2>3, SendValid
  <2>5. session' \in {"open", "failed"}
    BY <1>2, <2>3, SendTypes
  <2>6. Valid'
    BY <2>4, <2>5 DEF Valid, ReleaseLeavesNothing
  <2> QED
    BY <1>1, <2>1, <2>2, <2>6
<1>6. CASE ReleaseAll
  <2>1. Valid'
    BY <1>6, ReleaseValid
  <2>2. wire' = wire
    BY <1>6 DEF ReleaseAll
  <2>3. session' # "open"
    BY <1>2, <1>6, RouteIs, SendTypes DEF ReleaseAll
  <2> QED
    BY <1>1, <2>1, <2>2, <2>3 DEF IdsInOrder
<1>7. CASE Drop
  <2>1. session' = "closed" /\ wire' = wire /\ rejected' = rejected
    BY <1>7 DEF Drop, history
  <2> QED
    BY <1>1, <2>1 DEF IdsInOrder, Valid, ReleaseLeavesNothing
<1>8. CASE UNCHANGED vars
  <2>1. UNCHANGED <<touches, mode, virtual, active, session, device, rejected, refused, wire, physical>>
    BY <1>8 DEF vars, padVars, proxyVars, history
  <2>2. Unshown' = Unshown
    BY <2>1 DEF Unshown, Ahead
  <2>3. IdsInOrder'
    BY <2>1, <2>2 DEF IdsInOrder, NumberedUpTo
  <2>4. Valid'
    BY <2>1 DEF Valid, ReleaseLeavesNothing, Clear
  <2> QED
    BY <1>1, <2>1, <2>3, <2>4
<1> QED
  BY <1>3, <1>4, <1>5, <1>6, <1>7, <1>8 DEF Next, PadSteps, Reads

LEMMA FInvAlways ==
    ASSUME MaxTouches <= MaxTrackingId
    PROVE  Spec => []FInv
<1>1. Init => FInv
  BY FInvInit
<1>2. FInv /\ [Next]_vars => FInv'
  BY FInvNext
<1> QED
  BY <1>1, <1>2, PTL DEF Spec

\* As long as the pad has not handed out more tracking ids than there are, the
\* proxy's validator never refuses a frame of its own synthesizer
\* (OutputValidator::validate).  Beyond that an id that is still shown could
\* come round again.
THEOREM FramesNeverRejected ==
    ASSUME MaxTouches <= MaxTrackingId
    PROVE  Spec => []FramesAreValid
<1>1. FInv => FramesAreValid
  BY DEF FInv, Valid, FramesAreValid
<1>2. Spec => []FInv
  BY FInvAlways
<1> QED
  BY <1>1, <1>2, PTL

\* A release that got through leaves nothing down on the virtual touchpad
\* (TouchpadPassthrough::release_all), while tracking ids last.
THEOREM ReleaseIsClean ==
    ASSUME MaxTouches <= MaxTrackingId
    PROVE  Spec => []ReleaseLeavesNothing
<1>1. FInv => ReleaseLeavesNothing
  BY DEF FInv, Valid
<1>2. Spec => []FInv
  BY FInvAlways
<1> QED
  BY <1>1, <1>2, PTL

-----------------------------------------------------------------------------
(***************************************************************************)
(* What the proxy knows of the pad.  A pad that was in use at the opening  *)
(* is known only in part; once it has been clear it is known completely,   *)
(* but for the coordinates the kernel has not announced again.             *)
(***************************************************************************)
\* At the end of a report the tool keys have shown all fingers.
Counts == ~Silent(wire) => counted = Fingers

Tracks ==
    /\ Ahead.slot = announced
    /\ DOMAIN Ahead.contacts \subseteq DOMAIN pad
    /\ \A s \in DOMAIN Ahead.contacts :
          /\ Ahead.contacts[s].id = pad[s].id
          /\ Ahead.contacts[s].x \in {None, pad[s].x}
    /\ Ahead.tools \subseteq {counted}
    /\ Ahead.button => click
    /\ settled => /\ DOMAIN pad \subseteq DOMAIN Ahead.contacts
                  /\ click => Ahead.button
                  /\ {counted} \cap (1 .. 5) \subseteq Ahead.tools

LEMMA NoFingers ==
    ASSUME ProxyTypes
    PROVE  /\ Cardinality(DOMAIN pad) \in Nat /\ Fingers \in Nat
           /\ Fingers = Cardinality(DOMAIN pad) + untracked
           /\ Fingers = 0 => DOMAIN pad = {}
<1>1. DOMAIN pad \subseteq Slots /\ untracked \in Nat
  BY DEF ProxyTypes, PadTypes
<1>2. IsFiniteSet(DOMAIN pad) /\ Cardinality(DOMAIN pad) \in Nat
  BY <1>1, FiniteSlots
<1>3. Cardinality(DOMAIN pad) = 0 => DOMAIN pad = {}
  BY <1>2, FS_EmptySet
<1> QED
  BY <1>1, <1>2, <1>3 DEF Fingers

LEMMA TracksInit ==
    ASSUME AnnouncedSlots = {0}, Init
    PROVE  Tracks /\ Counts /\ Shape(wire)
<1>1. wire = <<>> /\ Shape(wire) /\ Ahead = physical /\ Silent(wire)
  BY QuietAhead DEF Init, PadInit, Shape
<1>2. /\ announced = 0 /\ counted = Fingers /\ physical.slot = 0
      /\ DOMAIN physical.contacts = {} /\ physical.tools = {} /\ ~physical.button
      /\ settled = (Fingers = 0 /\ ~click)
  BY DEF Init, PadInit, NoContacts
<1>3. ProxyTypes
  BY TInvInit DEF TInv
<1>4. Fingers = 0 => DOMAIN pad = {}
  BY <1>3, NoFingers
<1>5. settled => /\ DOMAIN pad \subseteq DOMAIN Ahead.contacts
                 /\ click => Ahead.button
                 /\ {counted} \cap (1 .. 5) \subseteq Ahead.tools
  <2>1. settled => Fingers = 0 /\ ~click
    BY <1>2
  <2>2. Fingers = 0 => {counted} \cap (1 .. 5) = {}
    BY <1>2
  <2> QED
    BY <1>4, <2>1, <2>2
<1>6. /\ Ahead.slot = announced
      /\ DOMAIN Ahead.contacts = {} /\ Ahead.tools = {} /\ ~Ahead.button
  BY <1>1, <1>2
<1> QED
  BY <1>1, <1>5, <1>6 DEF Tracks, Counts

LEMMA ChangeTracks ==
    ASSUME ProxyTypes, Tracks, ChangeSlot
    PROVE  Tracks' /\ Counts' /\ Shape(wire')
<1>1. /\ Ahead = physical /\ physical' = physical
      /\ UNCHANGED <<untracked, counted, click, settled>>
  BY QuietAhead DEF ChangeSlot, TouchChanges, proxyVars, history
<1> DEFINE a == After(physical, wire')
<1>2. Ahead' = a
  BY <1>1 DEF Ahead
<1>3. Shape(wire') /\ Silent(wire')
  BY ChangeAhead
<1>4. PICK s \in Slots :
         /\ announced' = s /\ a.slot = s
         /\ a.tools = physical.tools /\ a.button = physical.button
         /\ DOMAIN a.contacts \ {s} = DOMAIN physical.contacts \ {s}
         /\ \A t \in DOMAIN physical.contacts \ {s} : a.contacts[t] = physical.contacts[t]
         /\ DOMAIN pad' \ {s} = DOMAIN pad \ {s}
         /\ \A t \in DOMAIN pad \ {s} : pad'[t] = pad[t]
         /\ Lands(s, s, a) \/ Moves(s, s, a) \/ Lifts(s, s, a)
  <2>1. physical.slot = announced
    BY <1>1 DEF Tracks
  <2> QED
    BY <2>1, ChangeAhead
<1> HIDE DEF a
<1> DEFINE c == physical.contacts
           k == a.contacts
<1>5. /\ DOMAIN c \subseteq DOMAIN pad
      /\ \A t \in DOMAIN c : c[t].id = pad[t].id /\ c[t].x \in {None, pad[t].x}
      /\ physical.tools \subseteq {counted}
      /\ physical.button => click
      /\ settled => /\ DOMAIN pad \subseteq DOMAIN c
                    /\ click => physical.button
                    /\ {counted} \cap (1 .. 5) \subseteq physical.tools
  BY <1>1 DEF Tracks
<1>6. /\ DOMAIN k \ {s} = DOMAIN c \ {s}
      /\ \A t \in DOMAIN c \ {s} : k[t] = c[t]
  BY <1>4
<1>7. /\ s \in DOMAIN k => s \in DOMAIN pad'
      /\ s \in DOMAIN k => k[s].id = pad'[s].id /\ k[s].x \in {None, pad'[s].x}
      /\ settled /\ s \in DOMAIN pad' => s \in DOMAIN k
  <2>1. CASE Lands(s, s, a)
    BY <2>1 DEF Lands
  <2>2. CASE Moves(s, s, a)
    BY <1>5, <2>2 DEF Moves
  <2>3. CASE Lifts(s, s, a)
    BY <2>3 DEF Lifts
  <2> QED
    BY <1>4, <2>1, <2>2, <2>3
<1> HIDE DEF c, k
<1>8. DOMAIN k \subseteq DOMAIN pad'
  BY <1>4, <1>5, <1>6, <1>7
<1>9. ASSUME NEW t \in DOMAIN k PROVE k[t].id = pad'[t].id /\ k[t].x \in {None, pad'[t].x}
  <2>1. CASE t = s
    BY <1>7, <2>1
  <2>2. CASE t # s
    <3>1. t \in DOMAIN c \ {s} /\ t \in DOMAIN pad \ {s}
      BY <1>5, <1>6, <2>2
    <3>2. k[t] = c[t] /\ pad'[t] = pad[t]
      BY <1>4, <1>6, <3>1
    <3> QED
      BY <1>5, <3>1, <3>2
  <2> QED
    BY <2>1, <2>2
<1>10. settled => DOMAIN pad' \subseteq DOMAIN k
  BY <1>4, <1>5, <1>6, <1>7
<1>11. /\ DOMAIN Ahead'.contacts \subseteq DOMAIN pad'
       /\ \A t \in DOMAIN Ahead'.contacts :
             Ahead'.contacts[t].id = pad'[t].id /\ Ahead'.contacts[t].x \in {None, pad'[t].x}
       /\ settled' => DOMAIN pad' \subseteq DOMAIN Ahead'.contacts
  BY <1>1, <1>2, <1>8, <1>9, <1>10 DEF k
<1>12. /\ Ahead'.slot = announced'
       /\ Ahead'.tools \subseteq {counted'}
       /\ Ahead'.button => click'
       /\ settled' => /\ click' => Ahead'.button
                      /\ {counted'} \cap (1 .. 5) \subseteq Ahead'.tools
  BY <1>1, <1>2, <1>4, <1>5
<1> QED
  BY <1>3, <1>11, <1>12 DEF Tracks, Counts

LEMMA ReportTracks ==
    ASSUME ProxyTypes, Tracks, EndReport
    PROVE  Tracks' /\ Counts' /\ Shape(wire')
<1> DEFINE a == After(physical, wire')
<1>1. Ahead = physical /\ physical' = physical /\ UNCHANGED <<click, settled>>
  BY QuietAhead DEF EndReport, ReportEnds
<1>2. Ahead' = a
  BY <1>1 DEF Ahead
<1>3. /\ Shape(wire')
      /\ counted' = Fingers' /\ UNCHANGED <<pad, touches, announced>>
      /\ a.slot = physical.slot /\ a.contacts = physical.contacts
      /\ a.button = physical.button
      /\ a.tools = IF counted' = counted THEN physical.tools
                   ELSE (physical.tools \ {counted}) \cup ({counted'} \cap (1 .. 5))
  BY ReportAhead
<1> HIDE DEF a
<1>4. /\ Ahead'.tools \subseteq {counted'}
      /\ settled => {counted'} \cap (1 .. 5) \subseteq Ahead'.tools
  BY <1>1, <1>2, <1>3 DEF Tracks
<1> QED
  BY <1>1, <1>2, <1>3, <1>4 DEF Tracks, Counts

LEMMA ClickTracks ==
    ASSUME ProxyTypes, Tracks, Click
    PROVE  Tracks' /\ Counts' /\ Shape(wire')
<1> DEFINE a == After(physical, wire')
<1>1. Ahead = physical /\ physical' = physical /\ UNCHANGED settled
  BY QuietAhead DEF Click, proxyVars, history
<1>2. Ahead' = a
  BY <1>1 DEF Ahead
<1>3. /\ Shape(wire') /\ Silent(wire') /\ UNCHANGED <<pad, announced, counted>>
      /\ a.slot = physical.slot /\ a.contacts = physical.contacts
      /\ a.tools = physical.tools /\ a.button = click'
  BY ClickAhead DEF padVars
<1> HIDE DEF a
<1> QED
  BY <1>1, <1>2, <1>3 DEF Tracks, Counts

LEMMA FrameTracks ==
    ASSUME ProxyTypes, Tracks, Counts, Shape(wire), FinishFrame
    PROVE  Tracks' /\ Counts' /\ Shape(wire')
<1>1. /\ wire' = <<>> /\ ~Silent(wire) /\ Shape(wire') /\ Ahead' = Ahead
      /\ UNCHANGED <<pad, announced, counted, click>>
      /\ settled' = (settled \/ (Fingers = 0 /\ ~click))
  BY FrameAhead DEF FinishFrame, padVars
<1>2. Silent(wire')
  BY <1>1 DEF Silent
<1>3. Fingers = 0 => DOMAIN pad = {} /\ {counted} \cap (1 .. 5) = {}
  <2>1. Fingers = 0 => DOMAIN pad = {} /\ counted = 0
    BY <1>1, NoFingers DEF Counts
  <2> QED
    BY <2>1
<1>4. settled' => /\ DOMAIN pad \subseteq DOMAIN Ahead.contacts
                  /\ click => Ahead.button
                  /\ {counted} \cap (1 .. 5) \subseteq Ahead.tools
  <2>1. CASE settled
    BY <2>1 DEF Tracks
  <2>2. CASE Fingers = 0 /\ ~click
    BY <1>3, <2>2
  <2> QED
    BY <1>1, <2>1, <2>2
<1> QED
  BY <1>1, <1>2, <1>4 DEF Tracks, Counts

\* After a report of a session whose pad was clear once, the proxy counts the
\* fingers as far as its decision goes: the tool keys show up to five, and
\* beyond those at least three have a slot.
LEMMA SettledFingers ==
    ASSUME ProxyTypes, Tracks, Counts, Shape(wire), FinishFrame, settled', MaxUntracked <= 3
    PROVE  /\ SeenFingers \in Nat /\ Fingers \in Nat
           /\ DOMAIN physical.contacts = DOMAIN pad /\ physical.button = click
           /\ Cardinality(DOMAIN physical.contacts) <= SeenFingers
           /\ SeenFingers = 0 <=> Fingers = 0
           /\ SeenFingers >= 3 <=> Fingers >= 3
           /\ Fingers < 3 => SeenFingers = Fingers
<1> DEFINE c == Cardinality(DOMAIN physical.contacts)
           K == physical.tools
           S == SeenFingers
           F == Fingers
<1>1. Tracks'
  BY FrameTracks
<1>2. /\ Ahead' = physical /\ UNCHANGED <<pad, click, counted>> /\ ~Silent(wire)
  BY FrameAhead DEF padVars
<1>3. /\ DOMAIN physical.contacts = DOMAIN pad /\ physical.button \in BOOLEAN /\ click \in BOOLEAN
      /\ physical.button => click
      /\ click => physical.button
      /\ K \subseteq {counted} /\ {counted} \cap (1 .. 5) \subseteq K
      /\ physical \in Physicals /\ K \subseteq 1 .. 5
  BY <1>1, <1>2 DEF Tracks, ProxyTypes, Physicals
<1>4. counted = F
  BY <1>2 DEF Counts
<1>5. F = c + untracked /\ c \in Nat /\ F \in Nat /\ untracked \in Nat /\ untracked <= 3
  BY <1>3, NoFingers, BoundAssumption DEF ProxyTypes, PadTypes
<1>6. /\ S \in K \cup {c} /\ S \in Nat
      /\ \A n \in K \cup {c} : n <= S
  BY <1>3, SeenFingersIs
<1> HIDE DEF c, K, S, F
<1>7. K = {F} \cap (1 .. 5)
  BY <1>3, <1>4
<1>8. S \in {F, c} /\ c <= S
  BY <1>6, <1>7
<1>9. F \in 1 .. 5 => S = F
  <2>1. F \in 1 .. 5 => F \in K
    BY <1>7
  <2>2. F \in K => F <= S
    BY <1>6
  <2> QED
    BY <1>5, <1>6, <1>8, <2>1, <2>2
<1>10. F \notin 1 .. 5 => S = c
  <2>1. F \notin 1 .. 5 => K = {}
    BY <1>7
  <2> QED
    BY <1>6, <2>1
<1>11. S = 0 <=> F = 0
  BY <1>5, <1>8, <1>9, <1>10
<1>12. S >= 3 <=> F >= 3
  BY <1>5, <1>8, <1>9, <1>10
<1>13. F < 3 => S = F
  BY <1>5, <1>8, <1>9, <1>10
<1> QED
  BY <1>3, <1>5, <1>6, <1>8, <1>11, <1>12, <1>13 DEF c, S, F

-----------------------------------------------------------------------------
(***************************************************************************)
(* What the router shows: nothing while three fingers suppress, and two    *)
(* fingers when they have been there for the whole window.                 *)
(***************************************************************************)
Modes ==
    session = "open" =>
        /\ settled => (hidden <=> mode = "suppressing")
        /\ mode = "suppressing" => DOMAIN virtual.contacts = {} /\ ~virtual.button
        /\ settled /\ mode = "pending" => twoFor # None /\ waited <= twoFor

LEMMA ReportModes ==
    ASSUME ProxyTypes, Modes, EndReport
    PROVE  Modes'
<1>1. PICK d \in 0 .. Window :
         /\ waited' = IF mode = "pending" THEN UpTo(Window, waited + d) ELSE waited
         /\ twoFor' = IF twoFor = None THEN None ELSE UpTo(Window, twoFor + d)
  BY DEF EndReport
<1>2. UNCHANGED <<mode, virtual, session, settled, hidden>>
  BY DEF EndReport
<1>3. waited \in 0 .. Window /\ twoFor \in (0 .. Window) \cup {None} /\ Window \in Nat
      /\ None \notin Int
  BY WindowAssumption, CoordinateAssumption DEF ProxyTypes
<1>4. ASSUME mode = "pending", twoFor # None, waited <= twoFor
      PROVE  twoFor' # None /\ waited' <= twoFor'
  BY <1>1, <1>3, <1>4 DEF UpTo
<1> QED
  BY <1>2, <1>4 DEF Modes

LEMMA FrameModes ==
    ASSUME ProxyTypes, Modes, Tracks, Counts, Shape(wire), FinishFrame, MaxUntracked <= 3,
           session' = "open"
    PROVE  Modes'
<1> DEFINE S == SeenFingers
           F == Fingers
           desired == Route.desired
<1>1. /\ session = "open" /\ mode' = Route.mode
      /\ waited' = IF mode # "pending" /\ mode' = "pending" THEN 0 ELSE waited
      /\ settled' = (settled \/ (F = 0 /\ ~click))
      /\ hidden' = (F >= 3 \/ (hidden /\ F > 0))
      /\ twoFor' = IF F # 2 THEN None ELSE IF twoFor = None THEN 0 ELSE twoFor
      /\ virtual' = Synthesized(desired)
  BY DEF FinishFrame, Send
<1>2. /\ virtual'.contacts = desired.contacts /\ virtual'.button = desired.button
      /\ DOMAIN Nobody.contacts = {} /\ ~Nobody.button
  BY <1>1, RouteIs, SynthesizedType DEF ProxyTypes
<1>3. /\ mode = "suppressing" =>
            /\ desired = Nobody
            /\ mode' = IF S = 0 THEN "forwarding" ELSE "suppressing"
      /\ mode # "suppressing" =>
            \/ S >= 3 /\ mode' = "suppressing" /\ desired = Nobody
            \/ /\ ~(S >= 3) /\ (S < 2 \/ (mode = "pending" /\ waited >= Window))
               /\ mode' = "forwarding"
            \/ ~(S >= 3) /\ ~(S < 2) /\ mode' = "pending"
  BY <1>1, RouteCases
<1>4. mode' = "suppressing" => DOMAIN virtual'.contacts = {} /\ ~virtual'.button
  BY <1>2, <1>3
<1>5. waited \in 0 .. Window /\ twoFor \in (0 .. Window) \cup {None} /\ None \notin Int
      /\ Window \in Nat
  BY WindowAssumption, CoordinateAssumption DEF ProxyTypes
<1>6. ASSUME settled'
      PROVE  /\ hidden' <=> mode' = "suppressing"
             /\ mode' = "pending" => twoFor' # None /\ waited' <= twoFor'
  <2>1. /\ S \in Nat /\ F \in Nat
        /\ S = 0 <=> F = 0
        /\ S >= 3 <=> F >= 3
        /\ F < 3 => S = F
    BY <1>6, SettledFingers
  <2> HIDE DEF S, F, desired
  <2>2. CASE F = 0
    <3>1. S = 0 /\ ~(S >= 3) /\ S < 2 /\ ~(F >= 3) /\ ~(F > 0)
      BY <2>1, <2>2
    <3>2. mode' = "forwarding"
      BY <1>3, <3>1
    <3>3. ~hidden'
      BY <1>1, <3>1
    <3> QED
      BY <3>2, <3>3
  <2>3. CASE F # 0
    <3>0. settled
      BY <1>1, <1>6, <2>3
    <3>1. settled /\ F > 0
      BY <2>1, <2>3, <3>0
    <3>2. /\ hidden <=> mode = "suppressing"
          /\ mode = "pending" => twoFor # None /\ waited <= twoFor
      BY <1>1, <3>1 DEF Modes
    <3>3. mode' = "suppressing" <=> mode = "suppressing" \/ S >= 3
      <4>1. S # 0
        BY <2>1, <2>3
      <4>2. mode = "suppressing" => mode' = "suppressing"
        BY <1>3, <4>1
      <4>3. mode # "suppressing" => (mode' = "suppressing" <=> S >= 3)
        BY <1>3
      <4> QED
        BY <4>2, <4>3
    <3>4. hidden' <=> mode' = "suppressing"
      BY <1>1, <2>1, <3>1, <3>2, <3>3
    <3>5. ASSUME mode' = "pending" PROVE twoFor' # None /\ waited' <= twoFor'
      <4>1. ~(S >= 3) /\ ~(S < 2)
        BY <1>3, <3>5
      <4>2. F = 2
        BY <2>1, <4>1
      <4>3. CASE mode = "pending"
        <5>1. twoFor' = twoFor /\ waited' = waited
          BY <1>1, <3>2, <4>2, <4>3
        <5> QED
          BY <3>2, <4>3, <5>1
      <4>4. CASE mode # "pending"
        <5>1. waited' = 0 /\ twoFor' = IF twoFor = None THEN 0 ELSE twoFor
          BY <1>1, <3>5, <4>2, <4>4
        <5>2. twoFor' \in 0 .. Window
          BY <1>5, <5>1
        <5> QED
          BY <1>5, <5>1, <5>2
      <4> QED
        BY <4>3, <4>4
    <3> QED
      BY <3>4, <3>5
  <2> QED
    BY <2>2, <2>3
<1> QED
  BY <1>4, <1>6 DEF Modes

KInv == TInv /\ Shape(wire) /\ Tracks /\ Counts /\ Modes

\* What is so at the opening and goes on through every step.
LEMMA KInvInit ==
    ASSUME AnnouncedSlots = {0}
    PROVE  Init => KInv
<1> SUFFICES ASSUME Init PROVE KInv
  OBVIOUS
<1>1. TInv /\ Tracks /\ Counts /\ Shape(wire)
  BY TInvInit, TracksInit
<1>2. Fingers \in Nat
  BY <1>1, NoFingers DEF TInv
<1>3. mode = "forwarding" /\ settled = (Fingers = 0 /\ ~click) /\ hidden = (Fingers >= 3)
  BY DEF Init
<1>4. settled => ~hidden
  <2>1. ~(Fingers = 0 /\ Fingers >= 3)
    BY <1>2
  <2> QED
    BY <1>3, <2>1
<1>5. Modes
  BY <1>3, <1>4 DEF Modes
<1> QED
  BY <1>1, <1>5 DEF KInv

LEMMA KInvNext ==
    ASSUME MaxUntracked <= 3
    PROVE  KInv /\ [Next]_vars => KInv'
<1> SUFFICES ASSUME KInv, [Next]_vars PROVE KInv'
  OBVIOUS
<1> USE DEF KInv
<1>1. TInv'
  BY TInvNext
<1>2. ProxyTypes
  BY DEF TInv
<1>3. CASE ChangeSlot
  <2>1. Tracks' /\ Counts' /\ Shape(wire')
    BY <1>2, <1>3, ChangeTracks
  <2>2. Modes'
    BY <1>3 DEF ChangeSlot, proxyVars, history, Modes
  <2> QED
    BY <1>1, <2>1, <2>2
<1>4. CASE Click
  <2>1. Tracks' /\ Counts' /\ Shape(wire')
    BY <1>2, <1>4, ClickTracks
  <2>2. Modes'
    BY <1>4 DEF Click, proxyVars, history, Modes
  <2> QED
    BY <1>1, <2>1, <2>2
<1>5. CASE EndReport
  <2>1. Tracks' /\ Counts' /\ Shape(wire')
    BY <1>2, <1>5, ReportTracks
  <2>2. Modes'
    BY <1>2, <1>5, ReportModes
  <2> QED
    BY <1>1, <2>1, <2>2
<1>6. CASE Reads
  <2>1. Ahead' = Ahead /\ Shape(wire') /\ (Silent(wire) => Silent(wire'))
    BY <1>2, <1>6, ReadsAhead
  <2>2. UNCHANGED <<padVars, click, mode, waited, virtual, session, history>>
    BY <1>2, <1>6, ReadsAre
  <2>3. Tracks' /\ Modes'
    BY <2>1, <2>2 DEF Tracks, Modes, padVars, history
  <2>4. Counts'
    BY <2>1, <2>2 DEF Counts, padVars, Fingers
  <2> QED
    BY <1>1, <2>1, <2>3, <2>4
<1>7. CASE FinishFrame
  <2>1. Tracks' /\ Counts' /\ Shape(wire')
    BY <1>2, <1>7, FrameTracks
  <2>2. session' = "open" => Modes'
    BY <1>2, <1>7, FrameModes
  <2> QED
    BY <1>1, <2>1, <2>2 DEF Modes
<1>8. CASE ReleaseAll \/ Drop
  <2>1. UNCHANGED <<padVars, wire, click, physical, settled>>
    BY <1>8 DEF ReleaseAll, Drop, history
  <2>2. session' # "open"
    BY <1>2, <1>8, RouteIs, SendTypes DEF ReleaseAll, Drop
  <2>3. Ahead' = Ahead
    BY <2>1 DEF Ahead
  <2>4. Tracks' /\ Counts' /\ Modes' /\ Shape(wire')
    BY <2>1, <2>2, <2>3 DEF Tracks, Counts, Modes, padVars, Fingers
  <2> QED
    BY <1>1, <2>4
<1>9. CASE UNCHANGED vars
  <2>1. UNCHANGED <<padVars, wire, click, physical, mode, waited, virtual, session, history>>
    BY <1>9 DEF vars, proxyVars
  <2>2. Ahead' = Ahead
    BY <2>1 DEF Ahead
  <2>3. Tracks' /\ Modes' /\ Shape(wire')
    BY <2>1, <2>2 DEF Tracks, Modes, padVars, history
  <2>4. Counts'
    BY <2>1 DEF Counts, padVars, Fingers
  <2> QED
    BY <1>1, <2>3, <2>4
<1> QED
  BY <1>3, <1>4, <1>5, <1>6, <1>7, <1>8, <1>9 DEF Next, Reads

LEMMA KInvAlways ==
    ASSUME AnnouncedSlots = {0}, MaxUntracked <= 3
    PROVE  Spec => []KInv
<1>1. Init => KInv
  BY KInvInit
<1>2. KInv /\ [Next]_vars => KInv'
  BY KInvNext
<1> QED
  BY <1>1, <1>2, PTL DEF Spec

\* Once a third finger was down nothing of the session is shown until every
\* finger is up (TouchpadRouter::finish_frame, Suppressing).  The pad is one
\* whose last announced slot is the one PhysicalState assumes, and with at most
\* three fingers that have no slot: there is no tool key for six.
THEOREM ThreeFingersNeverShown ==
    ASSUME AnnouncedSlots = {0}, MaxUntracked <= 3
    PROVE  Spec => []ThreeFingersHidden
<1>1. KInv => ThreeFingersHidden
  <2> SUFFICES ASSUME KInv, settled, hidden, session = "open" PROVE Clear(device)
    BY DEF ThreeFingersHidden
  <2>1. DOMAIN virtual.contacts = {} /\ ~virtual.button
    BY DEF KInv, Modes
  <2>2. VirtualFingers(virtual) = 0
    BY <2>1, FS_EmptySet DEF VirtualFingers
  <2>3. DOMAIN device.ids = {} /\ ~device.button /\ device.tools = {}
    BY <2>1, <2>2 DEF KInv, TInv, ViewsAgree
  <2>4. device \in Devices
    BY DEF KInv, TInv, ProxyTypes
  <2> QED
    BY <2>3, <2>4, EmptyViews
<1>2. Spec => []KInv
  BY KInvAlways
<1> QED
  BY <1>1, <1>2, PTL

\* A frame reaches the desktop as a whole or not at all.
LEMMA FrameShown ==
    ASSUME TInv, FinishFrame
    PROVE  \/ device' = device
           \/ /\ session' = "open" /\ Shown' = DOMAIN Route.desired.contacts
              /\ device' = Emitted(Synthesize(Route.desired))
<1> USE DEF TInv
<1>1. session = "open" /\ Send(Route.desired, "open", "failed") /\ Route.desired \in Snapshots
  BY RouteIs DEF FinishFrame
<1>2. device' = device \/ (session' = "open" /\ device' = Emitted(Synthesize(Route.desired)))
  BY <1>1 DEF Send
<1>3. ASSUME session' = "open" PROVE Shown' = DOMAIN Route.desired.contacts
  <2>1. device'.ids = active' /\ DOMAIN active' = DOMAIN Route.desired.contacts
    BY <1>1, <1>3, SendAgrees DEF ViewsAgree
  <2> QED
    BY <2>1 DEF Shown
<1> QED
  BY <1>2, <1>3

\* A release takes contacts away and brings none.
LEMMA ReleaseShown ==
    ASSUME TInv, ReleaseAll \/ Drop
    PROVE  Shown' \subseteq Shown
<1> USE DEF TInv
<1>1. CASE ReleaseAll
  <2>1. Send(Nobody, "released", "unreleased") /\ Nobody \in Snapshots
    BY <1>1, RouteIs DEF ReleaseAll
  <2>2. device' = device \/ device' = Emitted(Synthesize(Nobody))
    BY <2>1 DEF Send
  <2>3. DOMAIN Emitted(Synthesize(Nobody)).ids = (DOMAIN device.ids \ Gone(Nobody)) \cup New(Nobody)
    BY <2>1, PacketApplied DEF ProxyTypes
  <2>4. New(Nobody) = {}
    BY NewOf
  <2> QED
    BY <2>2, <2>3, <2>4 DEF Shown
<1>2. CASE Drop
  <2>1. device' = [device EXCEPT !.ids = NoContacts, !.tools = {}, !.button = FALSE]
    BY <1>2 DEF Drop
  <2>2. device'.ids = NoContacts
    BY <2>1 DEF ProxyTypes, Devices
  <2> QED
    BY <2>2 DEF Shown, NoContacts
<1> QED
  BY <1>1, <1>2

LEMMA ShownFinite ==
    ASSUME ProxyTypes
    PROVE  IsFiniteSet(Shown) /\ Cardinality(Shown) \in Nat
<1>1. device.ids \in SomeSlots(Ids)
  BY DEF ProxyTypes, Devices
<1> DEFINE f == device.ids
<1>2. DOMAIN f \subseteq Slots
  BY <1>1, SomeSlotsIs
<1> HIDE DEF f
<1>3. IsFiniteSet(DOMAIN f) /\ Cardinality(DOMAIN f) \in Nat
  BY <1>2, SlotAssumption, FS_Subset, FS_CardinalityType
<1> QED
  BY <1>3 DEF f, Shown

\* A frame that shows two fingers is one of an arbitration that has ended, if
\* the frame before did not show two.
LEMMA FrameWaits ==
    ASSUME KInv, MaxUntracked <= 3, FinishFrame, settled',
           Shown' = DOMAIN Route.desired.contacts, Cardinality(Shown') >= 2, session = "open"
    PROVE  Cardinality(Shown) >= 2 \/ (Cardinality(Shown') = 2 /\ twoFor' = Window)
<1> USE DEF KInv
<1> DEFINE desired == Route.desired
           S == SeenFingers
           F == Fingers
<1>1. ProxyTypes
  BY DEF TInv
<1>2. /\ S \in Nat /\ F \in Nat
      /\ Cardinality(DOMAIN physical.contacts) <= S
      /\ S = 0 <=> F = 0
      /\ F < 3 => S = F
      /\ S >= 3 <=> F >= 3
  BY <1>1, SettledFingers
<1>3. Cardinality({}) = 0
  BY FS_EmptySet
<1>4. Shown = DOMAIN virtual.contacts
  BY DEF TInv, ViewsAgree, Shown
<1>5. CASE desired = Nobody
  <2>1. Shown' = {}
    BY <1>1, <1>5, RouteIs
  <2>2. Cardinality(Shown') = 0
    BY <1>3, <2>1
  <2> QED
    BY <2>2
<1>6. CASE desired = PendingSnapshot
  <2>1. Shown' \subseteq Shown
    BY <1>4, <1>6 DEF PendingSnapshot
  <2>2. IsFiniteSet(Shown) /\ Cardinality(Shown) \in Nat
    BY <1>1, ShownFinite
  <2>3. Cardinality(Shown') <= Cardinality(Shown) /\ Cardinality(Shown') \in Nat
    BY <2>1, <2>2, FS_Subset, FS_CardinalityType
  <2> QED
    BY <2>2, <2>3
<1>7. CASE /\ mode # "suppressing" /\ ~(S >= 3)
           /\ S < 2 \/ (mode = "pending" /\ waited >= Window)
           /\ desired = Snapshot
  <2>1. Shown' = DOMAIN physical.contacts
    BY <1>7 DEF Snapshot
  <2>2. Cardinality(DOMAIN physical.contacts) \in Nat
    BY <1>1, SeenFingersIs DEF ProxyTypes
  <2> DEFINE n == Cardinality(DOMAIN physical.contacts)
  <2> HIDE DEF n, S, F, desired
  <2>3. n \in Nat /\ n >= 2 /\ n <= S
    BY <1>2, <2>1, <2>2 DEF n
  <2>4. n = 2 /\ S = 2 /\ F = 2
    BY <1>2, <1>7, <2>3
  <2>5. mode = "pending" /\ waited >= Window
    BY <1>7, <2>4
  <2>6. settled
    <3>1. settled' = (settled \/ (F = 0 /\ ~click))
      BY DEF FinishFrame, F
    <3>2. ~(F = 0)
      BY <2>4
    <3> QED
      BY <3>1, <3>2
  <2>7. twoFor # None /\ waited <= twoFor
    BY <2>5, <2>6 DEF Modes
  <2>8. twoFor \in (0 .. Window) \cup {None} /\ waited \in 0 .. Window /\ Window \in Nat
    BY <1>1, WindowAssumption DEF ProxyTypes
  <2>9. twoFor' = twoFor
    BY <2>4, <2>7 DEF FinishFrame, F
  <2>10. twoFor' = Window
    BY <2>5, <2>7, <2>8, <2>9
  <2> QED
    BY <2>1, <2>4, <2>10 DEF n
<1> QED
  BY <1>5, <1>6, <1>7, RouteCases

\* No snapshot that is shown has a third contact: three or more are suppressed,
\* and a pending one has what is shown already.
AtMostTwo == Cardinality(Shown) \in 0 .. 2

LEMMA RoutedAtMostTwo ==
    ASSUME TInv, AtMostTwo, session = "open"
    PROVE  Cardinality(DOMAIN Route.desired.contacts) \in 0 .. 2
<1>1. ProxyTypes
  BY DEF TInv
<1>2. Shown = DOMAIN virtual.contacts
  BY DEF TInv, ViewsAgree, Shown
<1>3. CASE Route.desired = Nobody
  <2>1. DOMAIN Nobody.contacts = {}
    BY DEF Nobody, NoContacts
  <2> QED
    BY <1>3, <2>1, FS_EmptySet
<1>4. CASE Route.desired = PendingSnapshot
  <2> DEFINE D == DOMAIN Route.desired.contacts
  <2>1. D \subseteq Shown
    BY <1>2, <1>4 DEF PendingSnapshot
  <2> HIDE DEF D
  <2>2. IsFiniteSet(Shown) /\ Cardinality(Shown) \in Nat
    BY <1>1, ShownFinite
  <2>3. Cardinality(D) <= Cardinality(Shown) /\ Cardinality(D) \in Nat
    BY <2>1, <2>2, FS_Subset, FS_CardinalityType
  <2>4. Cardinality(D) \in 0 .. 2
    BY <2>2, <2>3 DEF AtMostTwo
  <2> QED
    BY <2>4 DEF D
<1>5. CASE Route.desired = Snapshot /\ ~(SeenFingers >= 3)
  <2> DEFINE n == Cardinality(DOMAIN physical.contacts)
  <2>1. n \in Nat /\ SeenFingers \in Nat /\ n <= SeenFingers
    BY <1>1, SeenFingersIs DEF ProxyTypes
  <2>2. DOMAIN Route.desired.contacts = DOMAIN physical.contacts
    BY <1>5 DEF Snapshot
  <2>3. n \in 0 .. 2
    BY <1>5, <2>1
  <2> QED
    BY <2>2, <2>3
<1> QED
  BY <1>3, <1>4, <1>5, RouteCases

LEMMA AtMostTwoInit == Init => AtMostTwo
<1> SUFFICES ASSUME Init PROVE AtMostTwo
  OBVIOUS
<1>1. Shown = {}
  BY DEF Init, Shown, NoContacts
<1> QED
  BY <1>1, FS_EmptySet DEF AtMostTwo

LEMMA AtMostTwoNext == TInv /\ AtMostTwo /\ [Next]_vars => AtMostTwo'
<1> SUFFICES ASSUME TInv, AtMostTwo, [Next]_vars PROVE AtMostTwo'
  OBVIOUS
<1>1. ProxyTypes
  BY DEF TInv
<1>2. CASE device' = device
  BY <1>2 DEF AtMostTwo, Shown
<1>3. CASE FinishFrame
  <2>1. session = "open"
    BY <1>3 DEF FinishFrame
  <2>2. device' = device \/ Shown' = DOMAIN Route.desired.contacts
    BY <1>3, FrameShown
  <2> QED
    BY <1>2, <2>1, <2>2, RoutedAtMostTwo DEF AtMostTwo
<1>4. CASE ReleaseAll \/ Drop
  <2>1. Shown' \subseteq Shown
    BY <1>4, ReleaseShown
  <2>2. IsFiniteSet(Shown) /\ Cardinality(Shown) \in Nat
    BY <1>1, ShownFinite
  <2>3. Cardinality(Shown') <= Cardinality(Shown) /\ Cardinality(Shown') \in Nat
    BY <2>1, <2>2, FS_Subset, FS_CardinalityType
  <2> QED
    BY <2>2, <2>3 DEF AtMostTwo
<1>5. CASE PadSteps
  BY <1>1, <1>2, <1>5, PadStepsAre
<1>6. CASE Reads
  BY <1>1, <1>2, <1>6, ReadsAre
<1>7. CASE UNCHANGED vars
  BY <1>2, <1>7 DEF vars
<1> QED
  BY <1>3, <1>4, <1>5, <1>6, <1>7 DEF Next, PadSteps, Reads

\* The desktop is shown a second finger only when the pad has shown two for
\* the whole window (PendingTwo), and never a third, on such a pad.
THEOREM TwoFingersArbitrated ==
    ASSUME AnnouncedSlots = {0}, MaxUntracked <= 3
    PROVE  Spec => TwoFingersWait
<1> DEFINE A == settled' /\ Cardinality(Shown') >= 2 =>
                    /\ Cardinality(Shown') = 2
                    /\ Cardinality(Shown) = 2 \/ twoFor' = Window
<1>1. KInv /\ AtMostTwo /\ [Next]_vars => [A]_vars
  <2> SUFFICES ASSUME KInv, AtMostTwo, Next, settled', Cardinality(Shown') >= 2
               PROVE  /\ Cardinality(Shown') = 2
                      /\ Cardinality(Shown) = 2 \/ twoFor' = Window
    OBVIOUS
  <2>1. TInv /\ ProxyTypes
    BY DEF KInv, TInv
  <2>2. Cardinality(Shown) \in 0 .. 2 /\ Cardinality(Shown') \in 0 .. 2
    BY <2>1, AtMostTwoNext DEF AtMostTwo
  <2>3. Cardinality(Shown') = 2
    BY <2>2
  <2>4. CASE Cardinality(Shown) >= 2
    BY <2>2, <2>3, <2>4
  <2>5. CASE device' = device
    BY <2>3, <2>5 DEF Shown
  <2>6. CASE FinishFrame
    <3>1. session = "open"
      BY <2>6 DEF FinishFrame
    <3>2. device' = device \/ Shown' = DOMAIN Route.desired.contacts
      BY <2>1, <2>6, FrameShown
    <3> QED
      BY <2>3, <2>4, <2>5, <2>6, <3>1, <3>2, FrameWaits
  <2>7. CASE ReleaseAll \/ Drop
    <3>1. Shown' \subseteq Shown
      BY <2>1, <2>7, ReleaseShown
    <3>2. IsFiniteSet(Shown) /\ Cardinality(Shown) \in Nat
      BY <2>1, ShownFinite
    <3>3. Cardinality(Shown') <= Cardinality(Shown) /\ Cardinality(Shown') \in Nat
      BY <3>1, <3>2, FS_Subset, FS_CardinalityType
    <3> QED
      BY <2>3, <2>4, <3>2, <3>3
  <2>8. CASE PadSteps
    BY <2>1, <2>5, <2>8, PadStepsAre
  <2>9. CASE Reads
    BY <2>1, <2>5, <2>9, ReadsAre
  <2> QED
    BY <2>6, <2>7, <2>8, <2>9 DEF Next, PadSteps, Reads
<1>2. Spec => []KInv
  BY KInvAlways
<1>3. Spec => []AtMostTwo
  BY AtMostTwoInit, AtMostTwoNext, TInvAlways, PTL DEF Spec
<1>4. Spec => [][A]_vars
  BY <1>1, <1>2, <1>3, PTL DEF Spec
<1> QED
  BY <1>4 DEF TwoFingersWait

-----------------------------------------------------------------------------
(***************************************************************************)
(* What is shown is what is on the pad.                                    *)
(***************************************************************************)
\* A contact that is shown was a finger at the last report, and the desktop
\* has its coordinate.
ShownIsKnown ==
    session = "open" =>
        \A s \in DOMAIN virtual.contacts :
            /\ s \in DOMAIN before /\ before[s].id = virtual.contacts[s].id
            /\ virtual.contacts[s].x # None => device.x[s] = virtual.contacts[s].x

DInv == KInv /\ FInv /\ ShownIsKnown

\* A frame that is shown: what of it is on the pad, where and by which ids.
LEMMA FrameFollows ==
    ASSUME DInv, FinishFrame, session' = "open", MaxTouches <= MaxTrackingId
    PROVE  LET desired == Route.desired
           IN  /\ virtual'.contacts = desired.contacts /\ virtual'.button = desired.button
               /\ device'.button = desired.button
               /\ Shown' = DOMAIN desired.contacts /\ Shown = DOMAIN virtual.contacts
               /\ \A s \in DOMAIN desired.contacts :
                     /\ s \in Slots /\ s \in DOMAIN physical.contacts /\ s \in DOMAIN pad
                     /\ desired.contacts[s] = physical.contacts[s]
                     /\ desired.contacts[s].id = pad[s].id
                     /\ desired.contacts[s].x \in {None, pad[s].x}
                     /\ desired.contacts[s].x # None => device'.x[s] = desired.contacts[s].x
               /\ \A s \in Kept(desired) : device'.ids[s] = device.ids[s]
               /\ \A s \in New(desired) \cap Shown : device'.ids[s] # device.ids[s]
<1> USE DEF DInv, KInv, TInv
<1> DEFINE desired == Route.desired
<1>1. /\ session = "open" /\ Send(desired, "open", "failed") /\ desired \in Snapshots
      /\ ProxyTypes /\ virtual \in Virtuals /\ device \in Devices
      /\ DOMAIN active = DOMAIN virtual.contacts /\ device.ids = active
  BY RouteIs DEF FinishFrame, ProxyTypes, ViewsAgree
<1>2. /\ device'.ids = active' /\ device'.button = virtual'.button
      /\ virtual' = Synthesized(desired)
      /\ DOMAIN active' = DOMAIN desired.contacts
      /\ device' = Emitted(Synthesize(desired))
      /\ \A s \in Kept(desired) : active'[s] = active[s]
      /\ \A s \in New(desired) : active'[s] = IdOf(desired, s)
  BY <1>1, SendAgrees DEF ViewsAgree
<1>3. virtual'.contacts = desired.contacts /\ virtual'.button = desired.button
  BY <1>1, <1>2, SynthesizedType
<1>4. \A s \in New(desired) : \A t \in DOMAIN active : active[t] # IdOf(desired, s)
  BY FrameNumbers DEF FInv
<1>5. /\ DOMAIN desired.contacts \subseteq DOMAIN physical.contacts
      /\ \A s \in DOMAIN desired.contacts : desired.contacts[s] = physical.contacts[s]
  BY <1>1, DesiredContacts
<1>6. Ahead = physical
  BY <1>1, FrameAhead
<1>7. \A t \in Slots :
         device'.x[t] = IF Places(desired, t) THEN desired.contacts[t].x ELSE device.x[t]
  BY <1>1, <1>2, PacketApplied
<1>8. /\ DOMAIN virtual.contacts \subseteq Slots /\ DOMAIN desired.contacts \subseteq Slots
      /\ New(desired) \subseteq DOMAIN desired.contacts
      /\ Kept(desired) \subseteq DOMAIN virtual.contacts
  BY <1>1, GoneNewKept
<1> HIDE DEF desired
<1>9. ASSUME NEW s \in DOMAIN desired.contacts
      PROVE  /\ s \in Slots /\ s \in DOMAIN physical.contacts /\ s \in DOMAIN pad
             /\ desired.contacts[s] = physical.contacts[s]
             /\ desired.contacts[s].id = pad[s].id
             /\ desired.contacts[s].x \in {None, pad[s].x}
  BY <1>5, <1>6, <1>8, <1>9 DEF Tracks
<1>10. ASSUME NEW s \in DOMAIN desired.contacts, desired.contacts[s].x # None
       PROVE  device'.x[s] = desired.contacts[s].x
  <2>1. s \in Slots
    BY <1>8
  <2>2. CASE Places(desired, s)
    BY <1>7, <2>1, <2>2
  <2>3. CASE ~Places(desired, s)
    <3>1. s \notin New(desired) /\ desired.contacts[s].x = virtual.contacts[s].x
      BY <1>10, <2>3 DEF Places
    <3>2. s \in DOMAIN virtual.contacts
      BY <1>8, <3>1 DEF Kept
    <3>3. device.x[s] = virtual.contacts[s].x
      BY <1>1, <1>10, <3>1, <3>2 DEF ShownIsKnown
    <3>4. device'.x[s] = device.x[s]
      BY <1>7, <2>1, <2>3
    <3> QED
      BY <3>1, <3>3, <3>4
  <2> QED
    BY <2>2, <2>3
<1>11. Shown' = DOMAIN desired.contacts /\ Shown = DOMAIN virtual.contacts
  BY <1>1, <1>2 DEF Shown
<1>12. ASSUME NEW s \in Kept(desired) PROVE device'.ids[s] = device.ids[s]
  BY <1>1, <1>2
<1>13. ASSUME NEW s \in New(desired) \cap Shown PROVE device'.ids[s] # device.ids[s]
  <2>1. s \in DOMAIN active /\ s \in New(desired)
    BY <1>1, <1>11
  <2>2. active[s] # IdOf(desired, s) /\ active'[s] = IdOf(desired, s)
    BY <1>2, <1>4, <2>1
  <2> QED
    BY <1>1, <1>2, <2>2
<1> QED
  BY <1>2, <1>3, <1>9, <1>10, <1>11, <1>12, <1>13 DEF desired

LEMMA DInvInit ==
    ASSUME AnnouncedSlots = {0}
    PROVE  Init => DInv
<1> SUFFICES ASSUME Init PROVE DInv
  OBVIOUS
<1>1. KInv /\ FInv
  BY KInvInit, FInvInit
<1>2. DOMAIN virtual.contacts = {}
  BY DEF Init, NoContacts
<1> QED
  BY <1>1, <1>2 DEF DInv, ShownIsKnown

LEMMA DInvNext ==
    ASSUME MaxUntracked <= 3, MaxTouches <= MaxTrackingId
    PROVE  DInv /\ [Next]_vars => DInv'
<1> SUFFICES ASSUME DInv, [Next]_vars PROVE DInv'
  OBVIOUS
<1>1. KInv' /\ FInv'
  BY KInvNext, FInvNext DEF DInv
<1>2. ProxyTypes
  BY DEF DInv, KInv, TInv
<1>3. CASE FinishFrame
  <2>1. before' = pad
    BY <1>3 DEF FinishFrame
  <2>2. ASSUME session' = "open", NEW s \in DOMAIN virtual'.contacts
        PROVE  /\ s \in DOMAIN before' /\ before'[s].id = virtual'.contacts[s].id
               /\ virtual'.contacts[s].x # None => device'.x[s] = virtual'.contacts[s].x
    BY <1>3, <2>1, <2>2, FrameFollows
  <2>3. ShownIsKnown'
    BY <2>2 DEF ShownIsKnown
  <2> QED
    BY <1>1, <2>3 DEF DInv
<1>4. CASE ReleaseAll \/ Drop
  <2>1. session' # "open"
    BY <1>2, <1>4, RouteIs, SendTypes DEF ReleaseAll, Drop
  <2> QED
    BY <1>1, <2>1 DEF DInv, ShownIsKnown
<1>5. CASE UNCHANGED <<virtual, device, session, before>>
  BY <1>1, <1>5 DEF DInv, ShownIsKnown
<1>6. CASE PadSteps
  BY <1>2, <1>5, <1>6, PadStepsAre
<1>7. CASE Reads
  BY <1>2, <1>5, <1>7, ReadsAre DEF history
<1>8. CASE UNCHANGED vars
  BY <1>5, <1>8 DEF vars, proxyVars, history
<1> QED
  BY <1>3, <1>4, <1>6, <1>7, <1>8 DEF Next, PadSteps, Reads

LEMMA DInvAlways ==
    ASSUME AnnouncedSlots = {0}, MaxUntracked <= 3, MaxTouches <= MaxTrackingId
    PROVE  Spec => []DInv
<1>1. Init => DInv
  BY DInvInit
<1>2. DInv /\ [Next]_vars => DInv'
  BY DInvNext
<1> QED
  BY <1>1, <1>2, PTL DEF Spec

\* After every report of a session no third finger took part in, the desktop
\* sees the pad: which fingers, where, which are the same, and the button
\* (VirtualSynthesizer::synthesize), on such a pad and while tracking ids last.
THEOREM DesktopSeesPad ==
    ASSUME AnnouncedSlots = {0}, MaxUntracked <= 3, MaxTouches <= MaxTrackingId
    PROVE  Spec => DesktopFollowsPad
<1> DEFINE P == wire # <<>> /\ Head(wire).code = "syn" /\ session' = "open"
                /\ settled /\ ~hidden /\ ~hidden'
           Q == /\ Shown' \subseteq DOMAIN pad
                /\ Fingers <= 1 => Shown' = DOMAIN pad /\ device'.button = click
                /\ \A s \in Shown' :
                      physical.contacts[s].x # None => device'.x[s] = pad[s].x
                /\ \A s \in Shown \cap Shown' :
                      device.ids[s] = device'.ids[s] <=>
                          s \in DOMAIN before /\ before[s].id = pad[s].id
<1>1. ASSUME DInv, Next, P PROVE Q
  <2> DEFINE desired == Route.desired
  <2>1. TInv /\ ProxyTypes /\ Shape(wire)
    BY <1>1 DEF DInv, KInv, TInv
  <2>2. FinishFrame
    <3>1. ~PadSteps /\ ~Reads
      BY <1>1, <2>1, PadStepsAre, ReadsAre
    <3>2. ~(ReleaseAll \/ Drop)
      <4>1. ReleaseAll \/ Drop => session' # "open"
        BY <2>1, RouteIs, SendTypes DEF ReleaseAll, Drop
      <4>2. session' = "open"
        BY <1>1
      <4> QED
        BY <4>1, <4>2
    <3> QED
      BY <1>1, <3>1, <3>2 DEF Next, PadSteps, Reads
  <2>3. session = "open" /\ settled' /\ desired \in Snapshots /\ virtual \in Virtuals
    BY <1>1, <2>1, <2>2, RouteIs DEF FinishFrame, ProxyTypes
  <2>4. /\ device'.button = desired.button
        /\ Shown' = DOMAIN desired.contacts /\ Shown = DOMAIN virtual.contacts
        /\ \A s \in DOMAIN desired.contacts :
              /\ s \in Slots /\ s \in DOMAIN physical.contacts /\ s \in DOMAIN pad
              /\ desired.contacts[s] = physical.contacts[s]
              /\ desired.contacts[s].id = pad[s].id
              /\ desired.contacts[s].x \in {None, pad[s].x}
              /\ desired.contacts[s].x # None => device'.x[s] = desired.contacts[s].x
        /\ \A s \in Kept(desired) : device'.ids[s] = device.ids[s]
        /\ \A s \in New(desired) \cap Shown : device'.ids[s] # device.ids[s]
    BY <1>1, <2>2, FrameFollows
  <2>5. /\ SeenFingers \in Nat /\ Fingers \in Nat
        /\ DOMAIN physical.contacts = DOMAIN pad /\ physical.button = click
        /\ Fingers < 3 => SeenFingers = Fingers
    BY <1>1, <2>1, <2>2, <2>3, SettledFingers DEF DInv, KInv
  <2>6. mode # "suppressing"
    BY <1>1, <2>3 DEF DInv, KInv, Modes
  <2> HIDE DEF desired
  <2>7. Shown' \subseteq DOMAIN pad
    BY <2>4
  <2>8. ASSUME Fingers <= 1 PROVE Shown' = DOMAIN pad /\ device'.button = click
    <3>1. ~(SeenFingers >= 3) /\ SeenFingers < 2
      BY <2>5, <2>8
    <3>2. desired = Snapshot
      BY <2>6, <3>1, RouteCases DEF desired
    <3> QED
      BY <2>4, <2>5, <3>2 DEF Snapshot
  <2>9. ASSUME NEW s \in Shown', physical.contacts[s].x # None
        PROVE  device'.x[s] = pad[s].x
    BY <2>4, <2>9
  <2>10. ASSUME NEW s \in Shown \cap Shown'
         PROVE  device.ids[s] = device'.ids[s] <=>
                    s \in DOMAIN before /\ before[s].id = pad[s].id
    <3>1. s \in DOMAIN before /\ before[s].id = virtual.contacts[s].id
      BY <1>1, <2>3, <2>4 DEF DInv, ShownIsKnown
    <3>2. desired.contacts[s].id = pad[s].id /\ s \in DOMAIN desired.contacts
      BY <2>4
    <3>3. CASE s \in New(desired)
      <4>1. device'.ids[s] # device.ids[s]
        BY <2>4, <3>3
      <4>2. desired.contacts[s].id # virtual.contacts[s].id
        BY <2>3, <2>4, <3>3, GoneNewKept
      <4> QED
        BY <3>1, <3>2, <4>1, <4>2
    <3>4. CASE s \notin New(desired)
      <4>1. s \in Kept(desired)
        BY <3>2, <3>4 DEF Kept
      <4>2. device'.ids[s] = device.ids[s]
        BY <2>4, <4>1
      <4>3. desired.contacts[s].id = virtual.contacts[s].id
        BY <2>3, <4>1, GoneNewKept
      <4> QED
        BY <3>1, <3>2, <4>2, <4>3
    <3> QED
      BY <3>3, <3>4
  <2> QED
    BY <2>7, <2>8, <2>9, <2>10
<1>2. DInv /\ [Next]_vars => [P => Q]_vars
  BY <1>1
<1>3. Spec => []DInv
  BY DInvAlways
<1>4. Spec => [][P => Q]_vars
  BY <1>2, <1>3, PTL DEF Spec
<1> QED
  BY <1>4 DEF DesktopFollowsPad
==============================================================================
