------------------------ MODULE DragRecognizerProofs ------------------------
(***************************************************************************)
(* The recognizer, for any rules, any frames and sessions of any length:   *)
(* it implements DragLifecycle, its drags are earned and their motion adds *)
(* up, and so are its swipes and holds.                                    *)
(*                                                                         *)
(* update_drag carries a candidate along; DragFollowsHold judges by all    *)
(* frames of the session.  Watched relates the two: the candidate stands   *)
(* for a stretch of frames that ends with the last one.  The segments of   *)
(* the classification stand for stretches too: DoneAre and OpenIs are the  *)
(* invariant of the loop that builds them.                                 *)
(***************************************************************************)
EXTENDS DragRecognizer, SequenceTheorems, WellFoundedInduction, TLAPS

FrameSet == [phase : {"begin", "update"}, fingers : 1 .. 5, complete : BOOLEAN,
             point : Int \cup {NoPoint}, ids : Contacts, time : Nat \cup {NoTime}]

Types ==
    /\ session \in Seq(FrameSet) /\ Len(session) <= MaxFrames
    /\ candidate \in DragCandidate \cup {Nothing}
    /\ active \in ActiveDrag \cup {Nothing}
    /\ claimed \in BOOLEAN
    /\ streams \in Nat
    /\ travelled \in Int

\* A drag belongs to a claimed session, and accounts for its motion.
Dragging ==
    active # Nothing =>
        /\ claimed /\ candidate = Nothing /\ session # <<>>
        /\ active.stream = streams
        /\ travelled = active.last - active.origin
        /\ active.last = session[Len(session)].point

\* The frames that candidate c stands for: those from i on.
Steady(frames, c, i) ==
    \A m \in i .. Len(frames) :
        /\ Usable(frames[m], Drags[c.rule].fingers, Drags[c.rule].strict)
        /\ frames[m].ids = c.ids

\* From frame i to frame j the fingers rested.
Rests(frames, rule, i, j) ==
    /\ frames[j].time - frames[i].time >= rule.minHold
    /\ \A m \in i .. j : Dist(frames[i].point, frames[m].point) <= rule.maxHoldDistance

\* Not long enough so far, or exactly up to frame j.
Unarmed(frames, c, i) ==
    \A m \in i .. Len(frames) :
        /\ frames[m].time - frames[i].time < Drags[c.rule].minHold
        /\ Dist(frames[i].point, frames[m].point) <= Drags[c.rule].maxHoldDistance

Armed(frames, c, i, j) ==
    /\ frames[j].point = c.armed
    /\ Rests(frames, Drags[c.rule], i, j)
    /\ \A m \in i .. j - 1 : ~Rests(frames, Drags[c.rule], i, m)

StandsFor(frames, c) ==
    \E i \in 1 .. Len(frames) :
        /\ Steady(frames, c, i)
        /\ c.start = frames[i].time /\ c.from = frames[i].point
        /\ c.armed = NoPoint => Unarmed(frames, c, i)
        /\ c.armed # NoPoint => \E j \in i .. Len(frames) : Armed(frames, c, i, j)

Watched ==
    candidate # Nothing => active = Nothing /\ ~claimed /\ StandsFor(session, candidate)

IInv == Types /\ Dragging /\ Watched

-----------------------------------------------------------------------------
(***************************************************************************)
(* What a frame does.                                                      *)
(***************************************************************************)
\* What a rule that watches asks of frame f.
Suits(f, i) ==
    /\ i \in DOMAIN Drags
    /\ Usable(f, Drags[i].fingers, Drags[i].strict)

Moved(f, a) == [a EXCEPT !.last = f.point]
Update(f, a) == DragEvent("update", Moved(f, a), f.point - a.last)

Continues(f, a, k) ==
    /\ a # Nothing /\ f.point # NoPoint
    /\ active' = Moved(f, a)
    /\ candidate' = Nothing /\ claimed' = k /\ streams' = streams
    /\ travelled' = travelled + (f.point - a.last)
    /\ out' = <<Update(f, a)>>

\* Neither a drag nor a candidate is left.
NothingLeft == candidate' = Nothing /\ active' = Nothing /\ streams' = streams

BreaksOff(a) ==
    /\ a # Nothing
    /\ NothingLeft /\ claimed' = TRUE
    /\ out' = Finish("cancel", a)

Ignores(a, k) ==
    /\ a = Nothing
    /\ NothingLeft /\ claimed' = k
    /\ out' = <<>>

\* A candidate is left: a new one, or the old one a frame later.
Watches(f, c, a, k) ==
    /\ a = Nothing /\ ~k
    /\ active' = Nothing /\ claimed' = FALSE /\ streams' = streams
    /\ out' = <<>>
    /\ \E i \in DOMAIN Drags :
          /\ Suits(f, i)
          /\ \/ candidate' = NewCandidate(i, f)
             \/ /\ c # Nothing /\ c.rule = i /\ c.ids = f.ids
                /\ c.armed = NoPoint => Dist(c.from, f.point) <= Drags[i].maxHoldDistance
                /\ candidate' = Arm(c, f)

Begins(f, c, a, k) ==
    /\ a = Nothing /\ ~k
    /\ candidate' = Nothing /\ claimed' = TRUE /\ streams' = streams + 1
    /\ c # Nothing /\ Suits(f, c.rule) /\ c.ids = f.ids
    /\ c.armed = NoPoint => Dist(c.from, f.point) <= Drags[c.rule].maxHoldDistance
    /\ LET held == Arm(c, f)
       IN  /\ held.armed # NoPoint
           /\ Dist(held.armed, f.point) >= Drags[c.rule].minDragDistance
           /\ active' = NewDrag(held, f)
           /\ travelled' = f.point - held.armed
           /\ out' = <<DragEvent("begin", active', travelled')>>

Joins(f, frames, c, a, k) ==
    /\ session' = Append(frames, f)
    /\ active' = Nothing => travelled' = 0
    /\ \/ Continues(f, a, k) \/ BreaksOff(a) \/ Ignores(a, k)
       \/ Watches(f, c, a, k) \/ Begins(f, c, a, k)

-----------------------------------------------------------------------------
\* validate() admits one enabled rule for a number of fingers.
LEMMA OneRule ==
    ASSUME NEW f, RulesFor(f) # {}
    PROVE  /\ FirstOf(RulesFor(f)) \in RulesFor(f)
           /\ RulesFor(f) \subseteq DOMAIN Drags
<1>1. PICK i \in RulesFor(f) : TRUE
  OBVIOUS
<1>2. \A j \in RulesFor(f) : j = i
  BY <1>1, RuleAssumption DEF RulesFor
<1>3. i \in Nat
  BY <1>1, RuleAssumption DEF RulesFor
<1>4. \A j \in RulesFor(f) : i <= j
  BY <1>2, <1>3
<1> QED
  BY <1>1, <1>2, <1>4 DEF FirstOf, RulesFor

LEMMA OneEvent ==
    ASSUME NEW e
    PROVE  /\ <<>> \o <<e>> = <<e>> /\ <<>> \o <<>> = <<>> /\ <<e>> \o <<>> = <<e>>
           /\ <<e>> # <<>> /\ Len(<<e>>) = 1 /\ <<e>>[1] = e
<1>1. <<e>> \in Seq({e}) /\ <<>> \in Seq({e})
  OBVIOUS
<1> QED
  BY <1>1, ConcatEmptySeq

LEMMA RuleTypes ==
    ASSUME NEW i \in DOMAIN Drags
    PROVE  /\ Drags[i].minHold \in Nat \ {0}
           /\ Drags[i].maxHoldDistance \in Nat /\ Drags[i].minDragDistance \in Nat
<1>1. Drags \in Seq(DragRule)
  BY RuleAssumption
<1>2. Drags[i] \in DragRule
  BY <1>1
<1> QED
  BY <1>2 DEF DragRule

\* update_drag, its early returns resolved.
LEMMA UpdateShape ==
    ASSUME NEW f \in FrameSet, NEW c, NEW a, NEW k
    PROVE  \/ /\ a # Nothing /\ f.point # NoPoint
              /\ UpdateDrag(f, c, a, k) = Result(c, Moved(f, a), k, <<Update(f, a)>>)
           \/ /\ a # Nothing
              /\ UpdateDrag(f, c, a, k) = Result(c, Nothing, TRUE, Finish("cancel", a))
           \/ a = Nothing /\ UpdateDrag(f, c, a, k) = Result(Nothing, Nothing, k, <<>>)
           \/ /\ a = Nothing /\ ~k
              /\ \E i \in DOMAIN Drags : Suits(f, i) /\ UpdateDrag(f, c, a, k) = Watch(f, c, i)
<1>1. f.phase # "end"
  BY DEF FrameSet
<1>2. CASE a # Nothing
  BY <1>1, <1>2 DEF UpdateDrag, Continue, StillDragging, Usable, Moved, Update
<1>3. CASE a = Nothing /\ (k \/ RulesFor(f) = {} \/ f.time = NoTime \/ f.point = NoPoint)
  BY <1>3 DEF UpdateDrag
<1>4. CASE a = Nothing /\ ~(k \/ RulesFor(f) = {} \/ f.time = NoTime \/ f.point = NoPoint)
  <2>1. UpdateDrag(f, c, a, k) = Watch(f, c, FirstOf(RulesFor(f)))
    BY <1>1, <1>4 DEF UpdateDrag
  <2>2. FirstOf(RulesFor(f)) \in RulesFor(f) /\ RulesFor(f) \subseteq DOMAIN Drags
    BY <1>4, OneRule
  <2>3. Suits(f, FirstOf(RulesFor(f)))
    BY <1>4, <2>2 DEF Suits, Usable, RulesFor
  <2> QED
    BY <1>4, <2>1, <2>2, <2>3
<1> QED
  BY <1>2, <1>3, <1>4

\* A frame that does not end the session, after what is carried along from the
\* frames before it: c, a and k.
LEMMA AcceptJoins ==
    ASSUME IInv, NEW f \in FrameSet, NEW frames, NEW c, NEW a, NEW k \in BOOLEAN,
           a # Nothing => c = Nothing /\ k,
           a \in ActiveDrag \cup {Nothing}, c \in DragCandidate \cup {Nothing},
           Accept(f, frames, c, a, k, <<>>)
    PROVE  Joins(f, frames, c, a, k)
<1> DEFINE u == UpdateDrag(f, c, a, k)
<1>1. f.phase # "end"
  BY DEF FrameSet
<1>2. /\ session' = Append(frames, f)
      /\ candidate' = u.candidate /\ active' = u.active /\ claimed' = (TRUE /\ u.claimed)
      /\ out' = <<>> \o u.events
      /\ streams' = IF a = Nothing /\ u.active # Nothing THEN streams + 1 ELSE streams
      /\ travelled' = Travel(travelled, u.active, <<>> \o u.events)
  BY <1>1 DEF Accept
<1>3. active' = Nothing => travelled' = 0
  BY <1>2 DEF Travel
<1> HIDE DEF u
<1>4. CASE a # Nothing /\ f.point # NoPoint /\ u = Result(c, Moved(f, a), k, <<Update(f, a)>>)
  <2>1. /\ candidate' = Nothing /\ active' = Moved(f, a) /\ claimed' = k
        /\ out' = <<Update(f, a)>> /\ streams' = streams
        /\ travelled' = Travel(travelled, Moved(f, a), <<Update(f, a)>>)
    BY <1>2, <1>4, OneEvent DEF Result
  <2>2. Moved(f, a) # Nothing
    <3>1. Moved(f, a) \in ActiveDrag
      BY <1>4 DEF Moved, ActiveDrag, FrameSet
    <3> QED
      BY <3>1, NullAssumption
  <2>3. Update(f, a).kind = "update" /\ Update(f, a).delta = f.point - a.last
    BY DEF Update, DragEvent
  <2>4. travelled' = travelled + (f.point - a.last)
    BY <2>1, <2>2, <2>3, OneEvent DEF Travel
  <2> QED
    BY <1>2, <1>3, <1>4, <2>1, <2>4 DEF Joins, Continues
<1>5. CASE a # Nothing /\ u = Result(c, Nothing, TRUE, Finish("cancel", a))
  <2>1. <<>> \o Finish("cancel", a) = Finish("cancel", a)
    BY OneEvent DEF Finish
  <2> QED
    BY <1>2, <1>3, <1>5, <2>1 DEF Joins, BreaksOff, NothingLeft, Result
<1>6. CASE a = Nothing /\ u = Result(Nothing, Nothing, k, <<>>)
  BY <1>2, <1>3, <1>6, OneEvent DEF Joins, Ignores, NothingLeft, Result
<1>7. ASSUME a = Nothing, ~k, NEW i \in DOMAIN Drags, Suits(f, i), u = Watch(f, c, i)
      PROVE  Joins(f, frames, c, a, k)
  <2> DEFINE held == Arm(c, f)
             drag == NewDrag(held, f)
             begin == DragEvent("begin", drag, f.point - held.armed)
  <2>1. CASE u = Result(NewCandidate(i, f), Nothing, FALSE, <<>>)
    BY <1>2, <1>3, <1>7, <2>1, OneEvent DEF Joins, Watches, Result
  <2>2. CASE /\ c # Nothing /\ c.rule = i /\ c.ids = f.ids
             /\ c.armed = NoPoint => Dist(c.from, f.point) <= Drags[i].maxHoldDistance
             /\ u = Result(held, Nothing, FALSE, <<>>)
    BY <1>2, <1>3, <1>7, <2>2, OneEvent DEF Joins, Watches, Result
  <2>3. CASE /\ c # Nothing /\ c.rule = i /\ c.ids = f.ids
             /\ c.armed = NoPoint => Dist(c.from, f.point) <= Drags[i].maxHoldDistance
             /\ held.armed # NoPoint
             /\ ~(Dist(held.armed, f.point) < Drags[i].minDragDistance)
             /\ u = Result(Nothing, drag, TRUE, <<begin>>)
    <3>1. held \in DragCandidate /\ held.rule = c.rule
      BY <1>7, <2>3 DEF Arm, DragCandidate, Suits, Usable, FrameSet
    <3>2. held.armed \in Int /\ f.point \in Int
      BY <1>7, <2>3, <3>1 DEF DragCandidate, Suits, Usable, FrameSet
    <3>3. drag \in ActiveDrag
      BY <3>1, <3>2 DEF NewDrag, ActiveDrag, DragCandidate, IInv, Types
    <3>4. drag # Nothing
      BY <3>3, NullAssumption
    <3>5. begin.kind = "begin" /\ begin.delta = f.point - held.armed
      BY DEF DragEvent
    <3>6. /\ candidate' = Nothing /\ active' = drag /\ claimed' = TRUE
          /\ out' = <<begin>> /\ streams' = streams + 1
          /\ travelled' = Travel(travelled, drag, <<begin>>)
      <4>1. /\ u.candidate = Nothing /\ u.active = drag /\ u.claimed = TRUE
            /\ u.events = <<begin>>
        BY <2>3 DEF Result
      <4>2. <<>> \o u.events = <<begin>>
        BY <4>1, OneEvent
      <4> HIDE DEF drag, begin
      <4> QED
        BY <1>2, <1>7, <3>4, <4>1, <4>2
    <3>7. travelled' = f.point - held.armed
      BY <3>4, <3>5, <3>6, OneEvent DEF Travel
    <3>8. Dist(held.armed, f.point) \in Int /\ Drags[i].minDragDistance \in Int
      BY <3>2, RuleTypes DEF Dist
    <3>9. Begins(f, c, a, k)
      BY <1>7, <2>3, <3>6, <3>7, <3>8 DEF Begins
    <3> QED
      BY <1>2, <1>3, <3>9 DEF Joins
  <2> QED
    <3>1. CASE c = Nothing \/ c.rule # i \/ c.ids # f.ids
      BY <1>7, <2>1, <3>1 DEF Watch
    <3>2. CASE /\ ~(c = Nothing \/ c.rule # i \/ c.ids # f.ids)
               /\ c.armed = NoPoint /\ Dist(c.from, f.point) > Drags[i].maxHoldDistance
      BY <1>7, <2>1, <3>2 DEF Watch
    <3>3. CASE /\ ~(c = Nothing \/ c.rule # i \/ c.ids # f.ids)
               /\ ~(c.armed = NoPoint /\ Dist(c.from, f.point) > Drags[i].maxHoldDistance)
      <4>1. c.armed = NoPoint => Dist(c.from, f.point) <= Drags[i].maxHoldDistance
        <5>1. c.from \in Int /\ f.point \in Int /\ Drags[i].maxHoldDistance \in Int
          BY <1>7, <3>3, RuleTypes DEF DragCandidate, Suits, Usable, FrameSet
        <5> QED
          BY <3>3, <5>1 DEF Dist
      <4>2. u = IF held.armed = NoPoint \/ Dist(held.armed, f.point) < Drags[i].minDragDistance
                THEN Result(held, Nothing, FALSE, <<>>)
                ELSE Result(Nothing, drag, TRUE, <<begin>>)
        BY <1>7, <3>3 DEF Watch
      <4> HIDE DEF held, drag, begin
      <4> QED
        BY <2>2, <2>3, <3>3, <4>1, <4>2
    <3> QED
      BY <3>1, <3>2, <3>3
<1> USE DEF u
<1>8. \/ a # Nothing /\ f.point # NoPoint /\ u = Result(c, Moved(f, a), k, <<Update(f, a)>>)
      \/ a # Nothing /\ u = Result(c, Nothing, TRUE, Finish("cancel", a))
      \/ a = Nothing /\ u = Result(Nothing, Nothing, k, <<>>)
      \/ a = Nothing /\ ~k /\ \E i \in DOMAIN Drags : Suits(f, i) /\ u = Watch(f, c, i)
  BY ONLY f \in FrameSet, UpdateShape DEF u
<1> HIDE DEF u
<1> QED
  BY <1>4, <1>5, <1>6, <1>7, <1>8

-----------------------------------------------------------------------------
(***************************************************************************)
(* The stretch of frames a candidate stands for.                           *)
(***************************************************************************)
LEMMA Appended ==
    ASSUME NEW frames \in Seq(FrameSet), NEW f \in FrameSet
    PROVE  /\ Append(frames, f) \in Seq(FrameSet) /\ Append(frames, f) # <<>>
           /\ Len(frames) \in Nat /\ Len(Append(frames, f)) = Len(frames) + 1
           /\ Append(frames, f)[Len(frames) + 1] = f
           /\ \A i \in 1 .. Len(frames) : Append(frames, f)[i] = frames[i]
                                         /\ frames[i] \in FrameSet
  BY AppendProperties, ElementOfSeq, LenProperties

LEMMA UsableTypes ==
    ASSUME NEW f \in FrameSet, NEW fingers, NEW strict, Usable(f, fingers, strict)
    PROVE  f.time \in Nat /\ f.point \in Int
  BY DEF Usable, FrameSet

LEMMA NewStands ==
    ASSUME NEW frames \in Seq(FrameSet), NEW f \in FrameSet,
           NEW i \in DOMAIN Drags, Suits(f, i)
    PROVE  /\ NewCandidate(i, f) \in DragCandidate
           /\ StandsFor(Append(frames, f), NewCandidate(i, f))
<1> DEFINE c == NewCandidate(i, f)
           n == Len(frames) + 1
           all == Append(frames, f)
<1>1. f.time \in Nat /\ f.point \in Int /\ f.ids \in Contacts
  BY UsableTypes DEF Suits, FrameSet
<1>2. c \in DragCandidate /\ c.rule = i /\ c.armed = NoPoint /\ c.ids = f.ids
      /\ c.start = f.time /\ c.from = f.point
  BY <1>1 DEF NewCandidate, DragCandidate
<1>3. Len(all) = n /\ all[n] = f /\ n \in Nat \ {0}
  BY Appended
<1>4. n \in 1 .. Len(all) /\ \A m \in n .. Len(all) : m = n
  BY <1>3
<1> HIDE DEF c, n, all
<1>5. Steady(all, c, n)
  BY <1>2, <1>3, <1>4 DEF Steady, Suits
<1>6. Unarmed(all, c, n)
  BY <1>1, <1>2, <1>3, <1>4, RuleTypes DEF Unarmed, Dist
<1>7. StandsFor(all, c)
  BY <1>2, <1>3, <1>4, <1>5, <1>6 DEF StandsFor
<1> QED
  BY <1>2, <1>7 DEF c, all

LEMMA OldStands ==
    ASSUME NEW frames \in Seq(FrameSet), NEW f \in FrameSet,
           NEW c \in DragCandidate, StandsFor(frames, c),
           Suits(f, c.rule), c.ids = f.ids,
           c.armed = NoPoint => Dist(c.from, f.point) <= Drags[c.rule].maxHoldDistance
    PROVE  /\ Arm(c, f) \in DragCandidate
           /\ StandsFor(Append(frames, f), Arm(c, f))
<1> DEFINE held == Arm(c, f)
           rule == Drags[c.rule]
           n == Len(frames) + 1
           all == Append(frames, f)
<1>1. f.time \in Nat /\ f.point \in Int /\ f.point # NoPoint
  BY UsableTypes, NullAssumption DEF Suits
<1>2. c.rule \in DOMAIN Drags /\ c.armed \in Int \cup {NoPoint}
      /\ c.start \in Nat /\ c.from \in Int
  BY DEF DragCandidate
<1>3. /\ held \in DragCandidate /\ held.rule = c.rule /\ held.ids = c.ids
      /\ held.start = c.start /\ held.from = c.from
      /\ c.armed # NoPoint => held = c
      /\ c.armed = NoPoint => held.armed = IF f.time - c.start >= rule.minHold
                                           THEN f.point ELSE NoPoint
  BY <1>1, <1>2 DEF Arm, DragCandidate
<1>4. /\ Len(all) = n /\ all[n] = f /\ n \in Nat
      /\ \A m \in 1 .. n - 1 : all[m] = frames[m] /\ frames[m] \in FrameSet
  BY Appended
<1>5. /\ rule.minHold \in Nat \ {0}
      /\ rule.maxHoldDistance \in Nat /\ rule.minDragDistance \in Nat
  BY <1>2, RuleTypes
<1>6. PICK i \in 1 .. n - 1 :
         /\ Steady(frames, c, i)
         /\ c.start = frames[i].time /\ c.from = frames[i].point
         /\ c.armed = NoPoint => Unarmed(frames, c, i)
         /\ c.armed # NoPoint => \E j \in i .. n - 1 : Armed(frames, c, i, j)
  BY <1>4 DEF StandsFor
<1> HIDE DEF held, all
<1>7. \A m \in i .. n - 1 : frames[m].time \in Nat /\ frames[m].point \in Int
  BY <1>4, <1>6, UsableTypes DEF Steady
<1>8. i \in 1 .. n /\ i # n /\ all[i] = frames[i]
  BY <1>4, <1>6
<1>9. Steady(all, held, i)
  <2>1. \A m \in i .. n - 1 :
           /\ Usable(all[m], rule.fingers, rule.strict)
           /\ all[m].ids = held.ids
    BY <1>3, <1>4, <1>6 DEF Steady
  <2>2. Usable(all[n], rule.fingers, rule.strict) /\ all[n].ids = held.ids
    BY <1>3, <1>4 DEF Suits
  <2>3. \A m \in i .. Len(all) : m \in i .. n - 1 \/ m = n
    BY <1>4, <1>6
  <2> QED
    BY <1>3, <2>1, <2>2, <2>3 DEF Steady
<1>10. ASSUME held.armed = NoPoint => Unarmed(all, held, i),
              held.armed # NoPoint => \E j \in i .. Len(all) : Armed(all, held, i, j)
       PROVE  StandsFor(all, held)
  <2>1. i \in 1 .. Len(all) /\ held.start = all[i].time /\ held.from = all[i].point
    BY <1>3, <1>4, <1>6, <1>8
  <2> QED
    BY <1>9, <1>10, <2>1 DEF StandsFor
<1>11. ASSUME c.armed # NoPoint
       PROVE  StandsFor(all, held)
  <2>1. PICK j \in i .. n - 1 : Armed(frames, c, i, j)
    BY <1>6, <1>11
  <2>2. \A m \in i .. j : Rests(frames, rule, i, m) <=> Rests(all, rule, i, m)
    BY <1>4, <1>6, <2>1 DEF Rests
  <2>3. Armed(all, held, i, j)
    BY <1>3, <1>4, <1>6, <1>11, <2>1, <2>2 DEF Armed
  <2>4. j \in i .. Len(all) /\ held.armed # NoPoint
    BY <1>3, <1>4, <1>11, <2>1
  <2> QED
    BY <1>10, <2>3, <2>4
<1>12. ASSUME c.armed = NoPoint /\ f.time - c.start >= rule.minHold
       PROVE  StandsFor(all, held)
  <2>1. Rests(all, rule, i, n)
    <3>1. \A m \in i .. n - 1 : Dist(all[i].point, all[m].point) <= rule.maxHoldDistance
      BY <1>4, <1>6, <1>8, <1>12 DEF Unarmed
    <3>2. Dist(all[i].point, all[n].point) <= rule.maxHoldDistance
      BY <1>4, <1>6, <1>8, <1>12
    <3> QED
      BY <1>4, <1>6, <1>8, <1>12, <3>1, <3>2 DEF Rests
  <2>2. \A m \in i .. n - 1 : ~Rests(all, rule, i, m)
    <3> SUFFICES ASSUME NEW m \in i .. n - 1 PROVE ~Rests(all, rule, i, m)
      OBVIOUS
    <3>1. frames[m].time - frames[i].time < rule.minHold
      BY <1>4, <1>6, <1>12 DEF Unarmed
    <3>2. all[m] = frames[m] /\ i \in i .. n - 1
      BY <1>4, <1>6
    <3>3. frames[m].time \in Nat /\ frames[i].time \in Nat
      BY <1>7, <3>2
    <3> QED
      BY <1>5, <1>8, <3>1, <3>2, <3>3 DEF Rests
  <2>3. Armed(all, held, i, n)
    BY <1>3, <1>4, <1>12, <2>1, <2>2 DEF Armed
  <2>4. n \in i .. Len(all)
    BY <1>4, <1>6
  <2>5. held.armed # NoPoint
    BY <1>1, <1>3, <1>12
  <2> QED
    BY <1>10, <2>3, <2>4, <2>5
<1>13. ASSUME c.armed = NoPoint /\ ~(f.time - c.start >= rule.minHold)
       PROVE  StandsFor(all, held)
  <2>1. Unarmed(all, held, i)
    <3>1. all[n].time - all[i].time < rule.minHold
      BY <1>1, <1>2, <1>4, <1>5, <1>6, <1>8, <1>13
    <3>2. Dist(all[i].point, all[n].point) <= rule.maxHoldDistance
      BY <1>4, <1>6, <1>8, <1>13
    <3>3. \A m \in i .. n - 1 :
             /\ all[m].time - all[i].time < rule.minHold
             /\ Dist(all[i].point, all[m].point) <= rule.maxHoldDistance
      BY <1>4, <1>6, <1>8, <1>13 DEF Unarmed
    <3> QED
      BY <1>3, <1>4, <1>6, <3>1, <3>2, <3>3 DEF Unarmed
  <2>2. held.armed = NoPoint
    BY <1>3, <1>13
  <2> QED
    BY <1>10, <2>1, <2>2
<1>14. StandsFor(all, held)
  BY <1>11, <1>12, <1>13, Zenon
<1> QED
  BY <1>3, <1>14 DEF held, all

\* A candidate that is armed and has moved on far enough has earned its drag.
LEMMA Earned ==
    ASSUME NEW frames \in Seq(FrameSet), NEW c \in DragCandidate, StandsFor(frames, c),
           c.armed # NoPoint,
           Dist(c.armed, frames[Len(frames)].point) >= Drags[c.rule].minDragDistance
    PROVE  HeldThenMoved(frames, Drags[c.rule])
<1>1. PICK i \in 1 .. Len(frames) :
         Steady(frames, c, i) /\ \E j \in i .. Len(frames) : Armed(frames, c, i, j)
  BY DEF StandsFor
<1>2. PICK j \in i .. Len(frames) : Armed(frames, c, i, j)
  BY <1>1
<1>3. i \in i .. Len(frames)
  BY <1>1, LenProperties
<1>4. \A m \in i .. Len(frames) :
         /\ Usable(frames[m], Drags[c.rule].fingers, Drags[c.rule].strict)
         /\ frames[m].ids = frames[i].ids
  BY <1>1, <1>3 DEF Steady
<1> QED
  BY <1>1, <1>2, <1>4 DEF HeldThenMoved, Armed, Rests

-----------------------------------------------------------------------------
(***************************************************************************)
(* The calls.                                                              *)
(***************************************************************************)
\* A first frame gives up what is left of another session and may be watched.
Opens(f) ==
    /\ session' = Append(<<>>, f)
    /\ active' = Nothing /\ claimed' = FALSE /\ streams' = streams /\ travelled' = 0
    /\ out' = CancelActive(active)
    /\ \/ candidate' = Nothing
       \/ \E i \in DOMAIN Drags : Suits(f, i) /\ candidate' = NewCandidate(i, f)

\* Whatever was going on is over.
Over ==
    /\ session' = <<>> /\ claimed' = FALSE
    /\ NothingLeft /\ travelled' = 0

\* A last frame ends the drag, or the session is classified unless claimed.
Closes ==
    /\ Over
    /\ \/ active # Nothing /\ out' = Finish("end", active)
       \/ active = Nothing /\ out' = <<>>
       \/ /\ active = Nothing /\ ~claimed
          /\ \E g : g.kind \in {"swipe", "hold"} /\ out' = <<g>>

LEMMA FrameTypes ==
    ASSUME NEW phase \in {"begin", "update"}, NEW s \in Shapes, NEW n \in Nat
    PROVE  Frame(phase, s, n) \in FrameSet
  BY ShapeAssumption DEF Frame, FrameSet, Contacts

LEMMA BeginOpens ==
    ASSUME IInv, PushBegin
    PROVE  \E f \in FrameSet : Opens(f)
<1>1. PICK f \in FirstFrames : Push(f)
  BY DEF PushBegin
<1>2. f \in FrameSet /\ f.phase = "begin"
  BY <1>1, FrameTypes DEF FirstFrames, Frame
<1> DEFINE u == UpdateDrag(f, Nothing, Nothing, FALSE)
<1>3. Accept(f, <<>>, Nothing, Nothing, FALSE, CancelActive(active))
  BY <1>1, <1>2 DEF Push
<1>4. /\ session' = Append(<<>>, f)
      /\ candidate' = u.candidate /\ active' = u.active /\ claimed' = (TRUE /\ u.claimed)
      /\ out' = CancelActive(active) \o u.events
      /\ streams' = IF u.active # Nothing THEN streams + 1 ELSE streams
      /\ travelled' = Travel(travelled, u.active, CancelActive(active) \o u.events)
  BY <1>2, <1>3 DEF Accept
<1>5. CancelActive(active) \o <<>> = CancelActive(active)
  BY OneEvent DEF CancelActive, Finish
<1>6. \/ u = Result(Nothing, Nothing, FALSE, <<>>)
      \/ \E i \in DOMAIN Drags :
            Suits(f, i) /\ u = Result(NewCandidate(i, f), Nothing, FALSE, <<>>)
  <2>1. \A i : Watch(f, Nothing, i) = Result(NewCandidate(i, f), Nothing, FALSE, <<>>)
    BY DEF Watch
  <2>2. \/ u = Result(Nothing, Nothing, FALSE, <<>>)
        \/ \E i \in DOMAIN Drags : Suits(f, i) /\ u = Watch(f, Nothing, i)
    BY ONLY <1>2, UpdateShape DEF u
  <2> QED
    BY ONLY <2>1, <2>2
<1> HIDE DEF u
<1>7. u.active = Nothing /\ u.claimed = FALSE /\ u.events = <<>>
  BY <1>6 DEF Result
<1>8. \/ u.candidate = Nothing
      \/ \E i \in DOMAIN Drags : Suits(f, i) /\ u.candidate = NewCandidate(i, f)
  BY <1>6 DEF Result
<1>9. Opens(f)
  BY <1>4, <1>5, <1>7, <1>8 DEF Opens, Travel
<1> QED
  BY <1>2, <1>9

LEMMA UpdateJoins ==
    ASSUME IInv, PushUpdate
    PROVE  \E f \in FrameSet : Joins(f, session, candidate, active, claimed)
<1>1. PICK s \in Shapes : Push(Frame("update", s, Len(session) + 1))
  BY DEF PushUpdate
<1> DEFINE f == Frame("update", s, Len(session) + 1)
<1>2. Len(session) + 1 \in Nat
  BY LenProperties DEF IInv, Types
<1>3. f \in FrameSet /\ f.phase = "update" /\ f.fingers # 0
  BY <1>2, FrameTypes, ShapeAssumption DEF Frame
<1> HIDE DEF f
<1>4. Accept(f, session, candidate, active, claimed, <<>>)
  BY <1>1, <1>3 DEF Push, f
<1>5. /\ active # Nothing => candidate = Nothing /\ claimed
      /\ active \in ActiveDrag \cup {Nothing} /\ candidate \in DragCandidate \cup {Nothing}
      /\ claimed \in BOOLEAN
  BY DEF IInv, Types, Dragging
<1> QED
  BY <1>3, <1>4, <1>5, AcceptJoins

LEMMA Gestures ==
    ASSUME NEW frames
    PROVE  \/ Classify(frames) = <<>>
           \/ \E g : g.kind \in {"swipe", "hold"} /\ Classify(frames) = <<g>>
<1> DEFINE Swipe(r, d) == [kind |-> "swipe", rule |-> r, direction |-> d]
           Hold(r) == [kind |-> "hold", rule |-> r, direction |-> ""]
<1>1. \/ Classify(frames) = <<>>
      \/ \E r, d : Classify(frames) = <<Swipe(r, d)>>
      \/ \E r : Classify(frames) = <<Hold(r)>>
  BY Zenon DEF Classify
<1>2. \A r, d : Swipe(r, d).kind = "swipe" /\ Hold(r).kind = "hold"
  OBVIOUS
<1> HIDE DEF Swipe, Hold
<1> QED
  BY <1>1, <1>2

LEMMA EndCloses ==
    ASSUME IInv, PushEnd
    PROVE  \/ /\ session = <<>> /\ out' = <<>>
              /\ UNCHANGED <<session, candidate, active, claimed, streams, travelled>>
           \/ session # <<>> /\ Closes
<1>1. PICK timed \in BOOLEAN : Push(LastFrame(timed, Len(session) + 1))
  BY DEF PushEnd
<1> DEFINE f == LastFrame(timed, Len(session) + 1)
           u == UpdateDrag(f, candidate, active, claimed)
<1>2. f.phase = "end" /\ f.fingers = 0
  BY DEF LastFrame
<1> HIDE DEF f
<1>3. CASE session = <<>>
  BY <1>1, <1>2, <1>3 DEF Push, f
<1>4. CASE session # <<>>
  <2>1. Accept(f, session, candidate, active, claimed, <<>>)
    BY <1>1, <1>2, <1>4 DEF Push, f
  <2>2. /\ session' = <<>> /\ candidate' = Nothing /\ active' = Nothing /\ claimed' = FALSE
        /\ out' = IF ~u.claimed THEN (<<>> \o u.events) \o Classify(Append(session, f))
                  ELSE <<>> \o u.events
        /\ streams' = IF active = Nothing /\ u.active # Nothing THEN streams + 1 ELSE streams
        /\ travelled' = Travel(travelled, Nothing, <<>> \o u.events)
    BY <1>2, <2>1 DEF Accept
  <2>3. u = IF active # Nothing THEN Result(candidate, Nothing, TRUE, Finish("end", active))
            ELSE Result(Nothing, Nothing, claimed, <<>>)
    BY <1>2 DEF UpdateDrag, Continue
  <2> HIDE DEF u
  <2>4. Over
    BY <2>2, <2>3 DEF Over, NothingLeft, Result, Travel
  <2>5. CASE active # Nothing
    <3>1. u.claimed = TRUE /\ u.events = Finish("end", active)
      BY <2>3, <2>5 DEF Result
    <3>2. <<>> \o Finish("end", active) = Finish("end", active)
      BY OneEvent DEF Finish
    <3> QED
      BY <1>4, <2>2, <2>4, <2>5, <3>1, <3>2 DEF Closes
  <2>6. CASE active = Nothing
    <3>1. u.claimed = claimed /\ u.events = <<>>
      BY <2>3, <2>6 DEF Result
    <3>2. <<>> \o <<>> = <<>>
      BY OneEvent
    <3>3. <<>> \o Classify(Append(session, f)) = Classify(Append(session, f))
      BY OneEvent, Gestures
    <3>4. out' = IF ~claimed THEN Classify(Append(session, f)) ELSE <<>>
      BY <2>2, <3>1, <3>2, <3>3
    <3> QED
      BY <1>4, <2>4, <2>6, <3>4, Gestures DEF Closes
  <2> QED
    BY <2>5, <2>6
<1> QED
  BY <1>3, <1>4

LEMMA CancelIsOver == Cancel => Over /\ out' = CancelActive(active)
  BY DEF Cancel, Over, NothingLeft

-----------------------------------------------------------------------------
(***************************************************************************)
(* The invariant.                                                          *)
(***************************************************************************)
LEMMA NoSession ==
    <<>> \in Seq(FrameSet) /\ Len(<<>>) <= MaxFrames /\ FALSE \in BOOLEAN
    /\ 0 \in Nat /\ 0 \in Int
  BY EmptySeq, MaxFramesAssumption

LEMMA InvInit == Init => IInv
<1> SUFFICES ASSUME Init PROVE IInv
  OBVIOUS
<1>1. Types
  BY NoSession, Zenon DEF Init, Types
<1> QED
  BY <1>1 DEF Init, IInv, Dragging, Watched

LEMMA OverKeeps == ASSUME IInv, Over PROVE IInv'
<1>1. streams' \in Nat /\ travelled' \in Int
  BY DEF IInv, Types, Over, NothingLeft
<1>2. Types'
  BY <1>1, NoSession, Zenon DEF Types, Over, NothingLeft
<1> QED
  BY <1>2 DEF IInv, Dragging, Watched, Over, NothingLeft

LEMMA OpensKeeps ==
    ASSUME IInv, NEW f \in FrameSet, Opens(f)
    PROVE  IInv'
<1>1. <<>> \in Seq(FrameSet) /\ Len(<<>>) = 0
  BY EmptySeq
<1>2. session' \in Seq(FrameSet) /\ Len(session') <= MaxFrames
  BY <1>1, Appended, MaxFramesAssumption DEF Opens
<1>3. candidate' # Nothing => candidate' \in DragCandidate /\ StandsFor(session', candidate')
  BY <1>1, NewStands DEF Opens
<1>4. /\ active' = Nothing /\ claimed' = FALSE /\ streams' = streams /\ travelled' = 0
      /\ streams \in Nat
  BY DEF Opens, IInv, Types
<1>5. Types'
  <2>1. active' \in ActiveDrag \cup {Nothing}
    BY <1>4
  <2>2. candidate' \in DragCandidate \cup {Nothing}
    BY <1>3
  <2>3. streams' \in Nat /\ travelled' \in Int
    BY <1>4
  <2>4. claimed' \in BOOLEAN
    BY <1>4, Zenon
  <2> QED
    BY <1>2, <2>1, <2>2, <2>3, <2>4 DEF Types
<1> QED
  BY <1>3, <1>4, <1>5 DEF IInv, Dragging, Watched

LEMMA DragTypes ==
    ASSUME NEW a \in ActiveDrag
    PROVE  a.stream \in Nat \ {0} /\ a.origin \in Int /\ a.last \in Int /\ a # Nothing
  BY NullAssumption DEF ActiveDrag

LEMMA MovedTypes ==
    ASSUME NEW f \in FrameSet, f.point # NoPoint, NEW a \in ActiveDrag
    PROVE  /\ f.point \in Int
           /\ Moved(f, a) \in ActiveDrag /\ Moved(f, a).last = f.point
           /\ Moved(f, a).stream = a.stream /\ Moved(f, a).origin = a.origin
  BY DEF ActiveDrag, Moved, FrameSet

\* A drag that begins has been earned.
LEMMA BeginsEarned ==
    ASSUME IInv, NEW f \in FrameSet, session' = Append(session, f),
           Begins(f, candidate, active, claimed)
    PROVE  /\ active' \in ActiveDrag /\ active'.stream = streams + 1
           /\ active'.rule = candidate.rule
           /\ active'.last = f.point /\ travelled' = active'.last - active'.origin
           /\ travelled' \in Int
           /\ HeldThenMoved(session', Drags[active'.rule])
<1> DEFINE held == Arm(candidate, f)
<1>1. candidate \in DragCandidate /\ StandsFor(session, candidate)
      /\ session \in Seq(FrameSet) /\ streams \in Nat
  BY DEF Begins, IInv, Types, Watched
<1>2. held \in DragCandidate /\ StandsFor(session', held)
  BY <1>1, OldStands DEF Begins
<1>3. held.rule = candidate.rule
  BY <1>1 DEF Arm, DragCandidate
<1>4. held.armed # NoPoint /\ Dist(held.armed, f.point) >= Drags[candidate.rule].minDragDistance
      /\ active' = NewDrag(held, f) /\ travelled' = f.point - held.armed
  BY DEF Begins
<1> HIDE DEF held
<1>5. f.point \in Int /\ held.armed \in Int
  BY <1>2, <1>4, UsableTypes DEF DragCandidate, Begins, Suits
<1>6. session' \in Seq(FrameSet) /\ session'[Len(session')] = f
  BY <1>1, Appended
<1>7. HeldThenMoved(session', Drags[held.rule])
  BY <1>2, <1>3, <1>4, <1>6, Earned
<1> QED
  BY <1>1, <1>2, <1>3, <1>4, <1>5, <1>7 DEF NewDrag, ActiveDrag, DragCandidate

LEMMA JoinsKeeps ==
    ASSUME IInv, Len(session) < MaxFrames, NEW f \in FrameSet,
           Joins(f, session, candidate, active, claimed)
    PROVE  IInv'
<1>1. /\ session' = Append(session, f) /\ session' \in Seq(FrameSet)
      /\ session' # <<>> /\ Len(session') <= MaxFrames
      /\ session'[Len(session')] = f
  <2>1. session \in Seq(FrameSet) /\ session' = Append(session, f)
    BY DEF IInv, Types, Joins
  <2> QED
    BY <2>1, Appended, MaxFramesAssumption
<1>2. active' = Nothing => travelled' = 0
  BY DEF Joins
<1>3. /\ candidate \in DragCandidate \cup {Nothing} /\ active \in ActiveDrag \cup {Nothing}
      /\ claimed \in BOOLEAN /\ streams \in Nat /\ travelled \in Int
  BY DEF IInv, Types
<1>4. ASSUME NEW a \in ActiveDrag, active' = a, candidate' = Nothing, claimed' = TRUE,
             streams' \in Nat, a.stream = streams', a.last = f.point,
             travelled' = a.last - a.origin
      PROVE  IInv'
  <2>1. travelled' \in Int /\ a # Nothing
    BY <1>4, DragTypes
  <2>2. Types'
    BY <1>1, <1>4, <2>1, Zenon DEF Types
  <2> QED
    BY <1>1, <1>4, <2>1, <2>2 DEF IInv, Dragging, Watched
<1>5. ASSUME active' = Nothing, candidate' = Nothing, claimed' \in BOOLEAN, streams' = streams
      PROVE  IInv'
  <2>1. travelled' \in Int /\ streams' \in Nat
    BY <1>2, <1>3, <1>5
  <2>2. Types'
    BY <1>1, <1>5, <2>1, Zenon DEF Types
  <2> QED
    BY <1>5, <2>2 DEF IInv, Dragging, Watched
<1>6. CASE Continues(f, active, claimed)
  <2>1. /\ active \in ActiveDrag /\ claimed
        /\ active.stream = streams /\ travelled = active.last - active.origin
    BY <1>3, <1>6 DEF Continues, IInv, Dragging
  <2>2. /\ active' = Moved(f, active) /\ candidate' = Nothing /\ claimed' = claimed
        /\ streams' = streams /\ travelled' = travelled + (f.point - active.last)
        /\ f.point # NoPoint
    BY <1>6 DEF Continues
  <2>3. /\ f.point \in Int
        /\ Moved(f, active) \in ActiveDrag /\ Moved(f, active).last = f.point
        /\ Moved(f, active).stream = active.stream
        /\ Moved(f, active).origin = active.origin
    BY <2>1, <2>2, MovedTypes
  <2>4. travelled' = f.point - active.origin
    BY <2>1, <2>2, <2>3, DragTypes
  <2>5. claimed' = TRUE
    BY <1>3, <2>1, <2>2
  <2> QED
    BY <1>3, <1>4, <2>1, <2>2, <2>3, <2>4, <2>5
<1>7. CASE BreaksOff(active) \/ Ignores(active, claimed)
  <2>1. claimed' \in BOOLEAN
    BY <1>3, <1>7, Zenon DEF BreaksOff, Ignores
  <2> QED
    BY <1>5, <1>7, <2>1 DEF BreaksOff, Ignores, NothingLeft
<1>8. CASE Watches(f, candidate, active, claimed)
  <2>1. active' = Nothing /\ claimed' = FALSE /\ streams' = streams
    BY <1>8 DEF Watches
  <2>2. PICK i \in DOMAIN Drags :
           /\ Suits(f, i)
           /\ \/ candidate' = NewCandidate(i, f)
              \/ /\ candidate # Nothing /\ candidate.rule = i /\ candidate.ids = f.ids
                 /\ candidate.armed = NoPoint =>
                       Dist(candidate.from, f.point) <= Drags[i].maxHoldDistance
                 /\ candidate' = Arm(candidate, f)
    BY <1>8 DEF Watches
  <2>3. candidate' \in DragCandidate /\ StandsFor(session', candidate')
    <3>1. session \in Seq(FrameSet) /\ (candidate # Nothing => StandsFor(session, candidate))
      BY DEF IInv, Types, Watched
    <3>2. CASE candidate' = NewCandidate(i, f)
      BY <1>1, <2>2, <3>1, <3>2, NewStands
    <3>3. CASE /\ candidate # Nothing /\ candidate.rule = i /\ candidate.ids = f.ids
               /\ candidate.armed = NoPoint =>
                     Dist(candidate.from, f.point) <= Drags[i].maxHoldDistance
               /\ candidate' = Arm(candidate, f)
      BY <1>1, <1>3, <2>2, <3>1, <3>3, OldStands
    <3> QED
      BY <2>2, <3>2, <3>3
  <2>4. travelled' \in Int /\ streams' \in Nat
    BY <1>2, <1>3, <2>1
  <2>5. Types'
    BY <1>1, <2>1, <2>3, <2>4, Zenon DEF Types
  <2> QED
    BY <2>1, <2>3, <2>5 DEF IInv, Dragging, Watched
<1>9. CASE Begins(f, candidate, active, claimed)
  <2>1. /\ active' \in ActiveDrag /\ active'.stream = streams + 1
        /\ active'.last = f.point /\ travelled' = active'.last - active'.origin
    BY <1>1, <1>9, BeginsEarned
  <2>2. candidate' = Nothing /\ claimed' = TRUE /\ streams' = streams + 1
    BY <1>9 DEF Begins
  <2> QED
    BY <1>3, <1>4, <2>1, <2>2
<1> QED
  BY <1>6, <1>7, <1>8, <1>9 DEF Joins

LEMMA InvStep == IInv /\ [Next]_vars => IInv'
<1> SUFFICES ASSUME IInv, [Next]_vars PROVE IInv'
  OBVIOUS
<1>1. CASE PushBegin
  BY <1>1, BeginOpens, OpensKeeps
<1>2. CASE PushUpdate
  <2>1. Len(session) < MaxFrames
    BY <1>2 DEF PushUpdate
  <2> QED
    BY <1>2, <2>1, UpdateJoins, JoinsKeeps
<1>3. CASE PushEnd
  <2>1. CASE /\ session = <<>>
             /\ UNCHANGED <<session, candidate, active, claimed, streams, travelled>>
    BY <2>1 DEF IInv, Types, Dragging, Watched
  <2>2. CASE Closes
    BY <2>2, OverKeeps DEF Closes
  <2> QED
    BY <1>3, <2>1, <2>2, EndCloses
<1>4. CASE Cancel
  BY <1>4, CancelIsOver, OverKeeps
<1>5. CASE UNCHANGED vars
  BY <1>5 DEF vars, IInv, Types, Dragging, Watched
<1> QED
  BY <1>1, <1>2, <1>3, <1>4, <1>5 DEF Next

LEMMA InvAlways == Spec => []IInv
  BY InvInit, InvStep, PTL DEF Spec

-----------------------------------------------------------------------------
\* The recognizer's parts agree: a drag is active only in a session it has
\* claimed and never beside a candidate, which watches the contacts of the last
\* frame (update_drag hands both on by value, and push stores them).
THEOREM RecognizerTypeCorrect == Spec => []TypeOK
<1>1. IInv => TypeOK
  <2> SUFFICES ASSUME IInv PROVE TypeOK
    OBVIOUS
  <2>1. ASSUME candidate # Nothing
        PROVE  session # <<>> /\ candidate.ids = session[Len(session)].ids
    <3>1. PICK i \in 1 .. Len(session) : Steady(session, candidate, i)
      BY <2>1 DEF IInv, Watched, StandsFor
    <3>2. Len(session) \in i .. Len(session) /\ Len(session) # 0
      BY <3>1, LenProperties DEF IInv, Types
    <3> QED
      BY <3>1, <3>2, EmptySeq DEF Steady
  <2> QED
    BY <2>1 DEF IInv, Types, Dragging, Watched, TypeOK
<1> QED
  BY <1>1, InvAlways, PTL

\* The deltas reported for a drag add up to the way from its origin to where
\* the fingers are (ActiveDrag::event and the updates of last_point).
THEOREM MotionAlwaysAddsUp == Spec => []MotionAddsUp
<1>1. IInv => MotionAddsUp
  BY DEF IInv, Dragging, MotionAddsUp
<1> QED
  BY <1>1, InvAlways, PTL

\* A drag begins only after a stable hold followed by movement, as all the
\* frames of the session tell (update_drag's candidate stands for them).
THEOREM DragsAreEarned == Spec => DragFollowsHold
<1>1. IInv /\ [Next]_vars =>
         [active = Nothing /\ active' # Nothing =>
             HeldThenMoved(session', Drags[active'.rule])]_vars
  <2> SUFFICES ASSUME IInv, Next, active = Nothing, active' # Nothing
               PROVE  HeldThenMoved(session', Drags[active'.rule])
    OBVIOUS
  <2>1. ~PushBegin
    BY BeginOpens DEF Opens
  <2>2. ~PushEnd /\ ~Cancel
    BY EndCloses, CancelIsOver DEF Closes, Over, NothingLeft
  <2>3. PICK f \in FrameSet : Joins(f, session, candidate, active, claimed)
    BY <2>1, <2>2, UpdateJoins DEF Next
  <2>4. Begins(f, candidate, active, claimed) /\ session' = Append(session, f)
    BY <2>3 DEF Joins, Continues, BreaksOff, Ignores, Watches, NothingLeft
  <2> QED
    BY <2>4, BeginsEarned
<1> QED
  BY <1>1, InvAlways, PTL DEF Spec, DragFollowsHold

-----------------------------------------------------------------------------
(***************************************************************************)
(* The refinement.                                                         *)
(***************************************************************************)
LEMMA SeenNothing == Seen(<<>>) = <<>>
  BY DEF Seen

LEMMA SeenOne ==
    ASSUME NEW e
    PROVE  Seen(<<e>>) = <<[kind |-> e.kind,
                            stream |-> IF e.kind \in {"swipe", "hold"} THEN 0 ELSE e.stream]>>
  BY DEF Seen

LEMMA SeenDrag ==
    ASSUME NEW kind, kind \notin {"swipe", "hold"}, NEW a, NEW delta
    PROVE  Seen(<<DragEvent(kind, a, delta)>>) = Lifecycle!One(kind, a.stream)
<1> DEFINE e == DragEvent(kind, a, delta)
<1>1. e.kind = kind /\ e.stream = a.stream
  BY DEF DragEvent
<1> HIDE DEF e
<1>2. Seen(<<e>>) = <<[kind |-> kind, stream |-> a.stream]>>
  BY <1>1, SeenOne
<1> QED
  BY <1>2 DEF e, Lifecycle!One

Open(a) == IF a = Nothing THEN 0 ELSE a.stream

LEMMA SeenCancel ==
    ASSUME IInv
    PROVE  Seen(CancelActive(active)) =
              IF Open(active) = 0 THEN <<>> ELSE Lifecycle!One("cancel", Open(active))
<1>1. CASE active = Nothing
  BY <1>1, SeenNothing DEF CancelActive, Open
<1>2. CASE active # Nothing
  <2>1. active \in ActiveDrag /\ active.stream # 0
    BY <1>2, DragTypes DEF IInv, Types
  <2> QED
    BY <1>2, <2>1, SeenDrag DEF CancelActive, Finish, Open
<1> QED
  BY <1>1, <1>2

LEMMA LifecycleInit == Init => Lifecycle!Init
  BY SeenNothing DEF Init, Lifecycle!Init, Lifecycle!Silence

\* A first frame: what was going on is given up.
LEMMA OpensLands ==
    ASSUME IInv, NEW f \in FrameSet, Opens(f)
    PROVE  Lifecycle!Land
<1>1. session' # <<>>
  BY EmptySeq, Appended DEF Opens
<1>2. Seen(out') = IF Open(active) = 0 THEN <<>> ELSE Lifecycle!One("cancel", Open(active))
  BY SeenCancel DEF Opens
<1> QED
  BY <1>1, <1>2 DEF Opens, Open, Lifecycle!Land, Lifecycle!Silence

\* A frame of a session: an event of the open drag, a begin, or nothing.
LEMMA JoinsStays ==
    ASSUME IInv, NEW f \in FrameSet, Joins(f, session, candidate, active, claimed)
    PROVE  Lifecycle!Stay
<1>1. session' # <<>>
  BY Appended DEF Joins, IInv, Types
<1>2. /\ active # Nothing => claimed /\ active \in ActiveDrag /\ active.stream \in Nat \ {0}
      /\ claimed \in BOOLEAN
  BY DragTypes DEF IInv, Types, Dragging
<1>3. CASE Continues(f, active, claimed)
  <2>1. /\ active' = Moved(f, active) /\ claimed' = claimed /\ streams' = streams
        /\ out' = <<Update(f, active)>> /\ active # Nothing /\ f.point # NoPoint
    BY <1>3 DEF Continues
  <2>2. Moved(f, active) # Nothing /\ Moved(f, active).stream = active.stream
    BY <1>2, <2>1, MovedTypes, DragTypes
  <2>3. Seen(out') = Lifecycle!One("update", active.stream)
    BY <2>1, <2>2, SeenDrag DEF Update
  <2> QED
    BY <1>1, <1>2, <2>1, <2>2, <2>3 DEF Lifecycle!Stay
<1>4. CASE BreaksOff(active)
  <2>1. Seen(out') = Lifecycle!One("cancel", active.stream)
    BY <1>4, SeenDrag DEF BreaksOff, Finish
  <2> QED
    BY <1>1, <1>2, <1>4, <2>1 DEF BreaksOff, NothingLeft, Lifecycle!Stay
<1>5. CASE Ignores(active, claimed)
  BY <1>1, <1>5, SeenNothing DEF Ignores, NothingLeft, Lifecycle!Stay, Lifecycle!Silence
<1>6. CASE Watches(f, candidate, active, claimed)
  BY <1>1, <1>2, <1>6, SeenNothing DEF Watches, Lifecycle!Stay, Lifecycle!Silence
<1>7. CASE Begins(f, candidate, active, claimed)
  <2>1. active' \in ActiveDrag /\ active'.stream = streams + 1
    BY <1>7, BeginsEarned DEF Joins
  <2>2. active' # Nothing
    BY <2>1, DragTypes
  <2>3. /\ active = Nothing /\ ~claimed /\ claimed' = TRUE /\ streams' = streams + 1
        /\ \E d : out' = <<DragEvent("begin", active', d)>>
    BY <1>7 DEF Begins
  <2>4. Seen(out') = Lifecycle!One("begin", streams + 1)
    BY <2>1, <2>3, SeenDrag
  <2> QED
    BY <1>1, <2>1, <2>2, <2>3, <2>4 DEF Lifecycle!Stay
<1> QED
  BY <1>3, <1>4, <1>5, <1>6, <1>7 DEF Joins

\* A last frame: the end of the drag, or at most one gesture.
LEMMA ClosesLeaves ==
    ASSUME IInv, session # <<>>, Closes
    PROVE  Lifecycle!Leave
<1>1. /\ session' = <<>> /\ active' = Nothing /\ claimed' = FALSE /\ streams' = streams
  BY DEF Closes, Over, NothingLeft
<1>2. CASE active # Nothing /\ out' = Finish("end", active)
  <2>1. active.stream # 0
    BY <1>2, DragTypes DEF IInv, Types
  <2>2. Seen(out') = Lifecycle!One("end", active.stream)
    BY <1>2, SeenDrag DEF Finish
  <2> QED
    BY <1>1, <1>2, <2>1, <2>2 DEF Lifecycle!Leave
<1>3. CASE active = Nothing /\ out' = <<>>
  BY <1>1, <1>3, SeenNothing DEF Lifecycle!Leave, Lifecycle!Silence
<1>4. ASSUME active = Nothing, ~claimed, NEW g, g.kind \in {"swipe", "hold"}, out' = <<g>>
      PROVE  Lifecycle!Leave
  <2>1. Seen(out') = <<[kind |-> g.kind, stream |-> 0]>>
    BY <1>4, SeenOne
  <2>2. Seen(out') = Lifecycle!One(g.kind, 0)
    BY <2>1 DEF Lifecycle!One
  <2> QED
    BY <1>1, <1>4, <2>2 DEF Lifecycle!Leave
<1> QED
  BY <1>2, <1>3, <1>4 DEF Closes

LEMMA CancelAbandons ==
    ASSUME IInv, Cancel
    PROVE  Lifecycle!Abandon
<1>1. Over /\ Seen(out') = IF Open(active) = 0 THEN <<>>
                           ELSE Lifecycle!One("cancel", Open(active))
  BY CancelIsOver, SeenCancel
<1> QED
  BY <1>1 DEF Over, NothingLeft, Open, Lifecycle!Abandon, Lifecycle!Silence

\* Every call is a step of the lifecycle: streams open one at a time, always
\* close, and keep gestures out of their session (push and cancel).
THEOREM RecognizerImplementsLifecycle == Spec => ImplementsLifecycle
<1>1. IInv /\ [Next]_vars => [Lifecycle!Next]_(Lifecycle!vars)
  <2> SUFFICES ASSUME IInv, [Next]_vars PROVE [Lifecycle!Next]_(Lifecycle!vars)
    OBVIOUS
  <2>1. CASE PushBegin
    BY <2>1, BeginOpens, OpensLands DEF Lifecycle!Next
  <2>2. CASE PushUpdate
    BY <2>2, UpdateJoins, JoinsStays DEF Lifecycle!Next
  <2>3. CASE PushEnd
    <3>1. CASE /\ session = <<>> /\ out' = <<>>
               /\ UNCHANGED <<session, candidate, active, claimed, streams, travelled>>
      BY <3>1, SeenNothing DEF Lifecycle!Next, Lifecycle!Idle, Lifecycle!Silence
    <3>2. CASE session # <<>> /\ Closes
      BY <3>2, ClosesLeaves DEF Lifecycle!Next
    <3> QED
      BY <2>3, <3>1, <3>2, EndCloses
  <2>4. CASE Cancel
    BY <2>4, CancelAbandons DEF Lifecycle!Next
  <2>5. CASE UNCHANGED vars
    BY <2>5 DEF vars, Lifecycle!vars
  <2> QED
    BY <2>1, <2>2, <2>3, <2>4, <2>5 DEF Next
<1> QED
  BY <1>1, LifecycleInit, InvAlways, PTL DEF Spec, ImplementsLifecycle, Lifecycle!Spec

-----------------------------------------------------------------------------
(***************************************************************************)
(* The segments of a session.                                              *)
(***************************************************************************)
\* A set of numbers that has 0 and with n also n + 1 has every number.
LEMMA Induction ==
    ASSUME NEW A, A \subseteq Nat, 0 \in A, \A n \in A : n + 1 \in A
    PROVE  A = Nat
<1> DEFINE T == Nat \ A
<1> SUFFICES ASSUME T # {} PROVE FALSE
  OBVIOUS
<1>1. PICK m \in T : \A n \in T : ~(<<n, m>> \in OpToRel(<, Nat))
  BY WFMin, NatLessThanWellFounded, Zenon
<1>2. m # 0 /\ m - 1 \in Nat /\ m - 1 \notin A
  <2>1. m \in Nat /\ m # 0
    OBVIOUS
  <2>2. m - 1 \in A => (m - 1) + 1 \in A
    OBVIOUS
  <2> QED
    BY <2>1, <2>2
<1>3. <<m - 1, m>> \in OpToRel(<, Nat)
  BY <1>2 DEF OpToRel
<1> QED
  BY <1>1, <1>2, <1>3

Empty == [done |-> <<>>, open |-> Nothing]

\* What the loop of best_segment_metrics is defined by.
Builds(b, frames, fingers, strict, N) ==
    b = [n \in 0 .. N |-> IF n = 0 THEN Empty
                          ELSE BuildStep(frames[n], b[n - 1], fingers, strict)]

LEMMA ExistsBuilds ==
    ASSUME NEW frames, NEW fingers, NEW strict, NEW N \in Nat
    PROVE  \E b : Builds(b, frames, fingers, strict, N)
<1> DEFINE A == {n \in Nat : \E b : Builds(b, frames, fingers, strict, n)}
<1>1. 0 \in A
  <2> DEFINE g == [n \in 0 .. 0 |-> Empty]
  <2>1. \A n \in 0 .. 0 : n = 0
    OBVIOUS
  <2>2. Builds(g, frames, fingers, strict, 0)
    BY <2>1, Zenon DEF Builds
  <2> QED
    BY <2>2
<1>2. ASSUME NEW n \in A PROVE n + 1 \in A
  <2>1. PICK g : Builds(g, frames, fingers, strict, n)
    BY <1>2
  <2> DEFINE h == [k \in 0 .. (n + 1) |-> IF k = 0 THEN Empty
                      ELSE BuildStep(frames[k], g[k - 1], fingers, strict)]
  <2>2. ASSUME NEW k \in 0 .. n PROVE h[k] = g[k]
    <3>1. k \in 0 .. (n + 1)
      OBVIOUS
    <3> QED
      BY <2>1, <3>1, Zenon DEF Builds
  <2>3. ASSUME NEW k \in 0 .. (n + 1), k # 0 PROVE g[k - 1] = h[k - 1]
    <3>1. k - 1 \in 0 .. n
      BY <2>3
    <3> HIDE DEF h
    <3> QED
      BY <2>2, <3>1
  <2>4. Builds(h, frames, fingers, strict, n + 1)
    BY <2>3, Zenon DEF Builds
  <2> HIDE DEF h
  <2> QED
    BY <2>4
<1> HIDE DEF A
<1>3. A = Nat
  BY <1>1, <1>2, Induction DEF A
<1> QED
  BY <1>3 DEF A

\* The segments that are done, and the open one, after each of the frames.
LEMMA SegmentsGrow ==
    ASSUME NEW frames, NEW fingers, NEW strict, Len(frames) \in Nat
    PROVE  \E b : /\ b[0] = Empty
                  /\ \A n \in 1 .. Len(frames) :
                        b[n] = BuildStep(frames[n], b[n - 1], fingers, strict)
                  /\ SegmentsOf(frames, fingers, strict)
                        = Close(b[Len(frames)].done, b[Len(frames)].open)
<1> DEFINE N == Len(frames)
           b == CHOOSE b : Builds(b, frames, fingers, strict, N)
<1>1. Builds(b, frames, fingers, strict, N)
  BY ExistsBuilds
<1>2. SegmentsOf(frames, fingers, strict) = Close(b[N].done, b[N].open)
  BY Zenon DEF SegmentsOf, Builds, Empty
<1> HIDE DEF b
<1>3. ASSUME NEW n \in 0 .. N
      PROVE  b[n] = IF n = 0 THEN Empty
                    ELSE BuildStep(frames[n], b[n - 1], fingers, strict)
  BY <1>1, Zenon DEF Builds
<1>4. 0 \in 0 .. N /\ \A n \in 1 .. N : n \in 0 .. N /\ n # 0
  OBVIOUS
<1> QED
  BY <1>2, <1>3, <1>4, Zenon

\* What a session's frames are like: those with fingers have their place as time.
Dated(frames) ==
    /\ Len(frames) \in Nat /\ DOMAIN frames = 1 .. Len(frames)
    /\ \A n \in DOMAIN frames : frames[n].fingers # 0 =>
          frames[n] \in FrameSet /\ frames[n].time \in {n, NoTime}

IsRule(rule) == rule.fingers \in 1 .. 5

Uses(f, rule) == Usable(f, rule.fingers, rule.strict)

Same(frames, rule, i, j) ==
    \A m \in i .. j : Uses(frames[m], rule) /\ frames[m].ids = frames[i].ids

\* The frames from i to j show the same contacts, and j's do from i on.
Run(frames, rule, i, j) ==
    /\ i \in 1 .. j
    /\ Same(frames, rule, i, j)
    /\ i = 1 \/ ~Same(frames, rule, i - 1, j)

\* m is the measure of the frames from i to j.
Measures(frames, i, j, m) ==
    /\ m \in Metrics
    /\ m.points = j - i + 1
    /\ m.duration = frames[j].time - frames[i].time
    /\ m.dx = frames[j].point - frames[i].point

\* The open segment after frame n stands for the run that ends there, if one does.
Covers(frames, i, n, seg) ==
    /\ seg \in Segment
    /\ seg.ids = frames[n].ids /\ seg.points = n - i + 1
    /\ seg.start = frames[i].time /\ seg.last = frames[n].time
    /\ seg.from = frames[i].point /\ seg.to = frames[n].point

OpenIs(frames, rule, n, seg) ==
    IF n = 0 \/ ~Uses(frames[n], rule) THEN seg = Nothing
    ELSE \E i \in 1 .. n : Run(frames, rule, i, n) /\ Covers(frames, i, n, seg)

\* The segments done after frame n are the stretches that ended before it.
DoneAre(frames, rule, n, done) ==
    /\ done \in Seq(Metrics)
    /\ \A k \in DOMAIN done : \E r \in Stretches(frames, rule) :
          r[2] < n /\ Measures(frames, r[1], r[2], done[k])
    /\ \A r \in Stretches(frames, rule) : r[2] < n =>
          \E k \in DOMAIN done : Measures(frames, r[1], r[2], done[k])

LEMMA StretchIs ==
    ASSUME NEW frames, NEW rule, Dated(frames), NEW i \in Nat, NEW j \in Nat
    PROVE  <<i, j>> \in Stretches(frames, rule) <=>
              /\ i < j /\ j <= Len(frames)
              /\ Run(frames, rule, i, j)
              /\ j = Len(frames) \/ ~Same(frames, rule, i, j + 1)
<1>1. Stretches(frames, rule) =
        {r \in (DOMAIN frames) \X (DOMAIN frames) :
            /\ r[1] < r[2] /\ Same(frames, rule, r[1], r[2])
            /\ r[1] = 1 \/ ~Same(frames, rule, r[1] - 1, r[2])
            /\ r[2] = Len(frames) \/ ~Same(frames, rule, r[1], r[2] + 1)}
  BY Zenon DEF Stretches, Same, Uses
<1>2. DOMAIN frames = 1 .. Len(frames) /\ Len(frames) \in Nat
  BY DEF Dated
<1> DEFINE P(a, b) ==
              /\ a < b /\ Same(frames, rule, a, b)
              /\ a = 1 \/ ~Same(frames, rule, a - 1, b)
              /\ b = Len(frames) \/ ~Same(frames, rule, a, b + 1)
<1>3. Stretches(frames, rule) =
        {r \in (1 .. Len(frames)) \X (1 .. Len(frames)) : P(r[1], r[2])}
  BY <1>1, <1>2, Zenon
<1>4. P(i, j) <=> /\ i < j /\ Same(frames, rule, i, j)
                  /\ i = 1 \/ ~Same(frames, rule, i - 1, j)
                  /\ j = Len(frames) \/ ~Same(frames, rule, i, j + 1)
  OBVIOUS
<1> HIDE DEF P
<1>5. <<i, j>> \in Stretches(frames, rule) <=>
        i \in 1 .. Len(frames) /\ j \in 1 .. Len(frames) /\ P(i, j)
  BY <1>3
<1>6. i \in 1 .. Len(frames) /\ j \in 1 .. Len(frames) /\ i < j
        <=> i \in 1 .. j /\ i < j /\ j <= Len(frames)
  BY <1>2
<1> QED
  BY <1>4, <1>5, <1>6, Zenon DEF Run

LEMMA StretchPairs ==
    ASSUME NEW frames, NEW rule, Dated(frames), NEW r \in Stretches(frames, rule)
    PROVE  r[1] \in Nat /\ r[2] \in Nat /\ r = <<r[1], r[2]>>
  BY DEF Stretches, Dated

LEMMA UsedTypes ==
    ASSUME NEW frames, NEW rule, Dated(frames), IsRule(rule),
           NEW n \in 1 .. Len(frames), Uses(frames[n], rule)
    PROVE  /\ frames[n].time = n /\ frames[n].time \in Nat
           /\ frames[n].point \in Int /\ frames[n].ids \in Contacts
<1>1. frames[n].fingers # 0 /\ n \in DOMAIN frames
  BY DEF Uses, Usable, IsRule, Dated
<1>2. frames[n] \in FrameSet /\ frames[n].time \in {n, NoTime}
  BY <1>1 DEF Dated
<1> QED
  BY <1>2 DEF Uses, Usable, FrameSet

\* Only one run ends at a frame.
LEMMA OneRun ==
    ASSUME NEW frames, NEW rule, NEW n \in Nat, NEW i, NEW k,
           Run(frames, rule, i, n), Run(frames, rule, k, n)
    PROVE  i = k
<1>1. ASSUME NEW a, NEW b, Run(frames, rule, a, n), Run(frames, rule, b, n), a < b
      PROVE  FALSE
  <2>1. a \in 1 .. n /\ b \in 1 .. n /\ b # 1 /\ b - 1 \in a .. n
    BY <1>1 DEF Run
  <2>2. \A m \in a .. n : Uses(frames[m], rule) /\ frames[m].ids = frames[a].ids
    BY <1>1 DEF Run, Same
  <2>3. \A m \in (b - 1) .. n : m \in a .. n
    BY <2>1
  <2>4. Same(frames, rule, b - 1, n)
    BY <2>1, <2>2, <2>3 DEF Same
  <2> QED
    BY <1>1, <2>1, <2>4 DEF Run
<1>2. i \in 1 .. n /\ k \in 1 .. n
  BY DEF Run
<1> QED
  BY <1>1, <1>2

\* What ends a run: a frame that is not used or shows other contacts.
LEMMA RunEnds ==
    ASSUME NEW frames, NEW rule, NEW i \in Nat, NEW n \in Nat, Run(frames, rule, i, n)
    PROVE  /\ i \in 1 .. n /\ Uses(frames[n], rule) /\ Uses(frames[i], rule)
           /\ frames[n].ids = frames[i].ids
           /\ Same(frames, rule, i, n + 1) <=>
                 Uses(frames[n + 1], rule) /\ frames[n + 1].ids = frames[n].ids
           /\ Same(frames, rule, i, n + 1) => Run(frames, rule, i, n + 1)
<1>1. i \in 1 .. n /\ n \in i .. n /\ i \in i .. n
  BY DEF Run
<1>2. Uses(frames[n], rule) /\ Uses(frames[i], rule) /\ frames[n].ids = frames[i].ids
  BY <1>1 DEF Run, Same
<1>3. \A m : m \in i .. (n + 1) <=> m \in i .. n \/ m = n + 1
  BY <1>1
<1>4. Same(frames, rule, i, n + 1) <=>
        Uses(frames[n + 1], rule) /\ frames[n + 1].ids = frames[n].ids
  BY <1>2, <1>3 DEF Run, Same
<1>5. ASSUME i # 1 PROVE ~Same(frames, rule, i - 1, n + 1)
  <2>1. \A m \in (i - 1) .. n : m \in (i - 1) .. (n + 1)
    BY <1>1
  <2>2. ~Same(frames, rule, i - 1, n)
    BY <1>5 DEF Run
  <2> QED
    BY <2>1, <2>2 DEF Same
<1>6. Same(frames, rule, i, n + 1) => Run(frames, rule, i, n + 1)
  BY <1>1, <1>5 DEF Run
<1> QED
  BY <1>1, <1>2, <1>4, <1>6

\* A run that begins at its frame.
LEMMA NewRun ==
    ASSUME NEW frames, NEW rule, NEW n \in Nat, Uses(frames[n + 1], rule),
           n = 0 \/ ~Uses(frames[n], rule) \/ frames[n + 1].ids # frames[n].ids
    PROVE  Run(frames, rule, n + 1, n + 1)
<1>1. \A m \in (n + 1) .. (n + 1) : m = n + 1
  OBVIOUS
<1>2. ASSUME n # 0 PROVE ~Same(frames, rule, n, n + 1)
  <2>1. n \in n .. (n + 1) /\ n + 1 \in n .. (n + 1)
    OBVIOUS
  <2> QED
    BY <1>2, <2>1 DEF Same
<1>3. n + 1 \in 1 .. (n + 1) /\ (n + 1) - 1 = n
  OBVIOUS
<1>4. Same(frames, rule, n + 1, n + 1)
  BY <1>1 DEF Same
<1> QED
  BY <1>2, <1>3, <1>4 DEF Run

LEMMA RunStretch ==
    ASSUME NEW frames, NEW rule, Dated(frames), NEW r \in Stretches(frames, rule)
    PROVE  /\ r[1] \in Nat /\ r[2] \in Nat /\ r[1] < r[2] /\ r[2] <= Len(frames)
           /\ Run(frames, rule, r[1], r[2])
           /\ r[2] = Len(frames) \/ ~Same(frames, rule, r[1], r[2] + 1)
  BY StretchPairs, StretchIs

LEMMA SegmentMeasured ==
    ASSUME NEW frames, NEW rule, Dated(frames), IsRule(rule),
           NEW n \in 1 .. Len(frames), NEW i, Run(frames, rule, i, n),
           NEW seg, Covers(frames, i, n, seg)
    PROVE  /\ seg # Nothing
           /\ Counts(seg) <=> i < n
           /\ Measures(frames, i, n, Measure(seg))
<1>1. n \in Nat /\ Len(frames) \in Nat /\ i \in 1 .. n
  BY DEF Dated, Run
<1>2. Uses(frames[n], rule) /\ Uses(frames[i], rule)
  <2>1. i \in Nat
    BY <1>1
  <2> QED
    BY <1>1, <2>1, RunEnds, Zenon
<1>3. /\ frames[n].time = n /\ frames[i].time = i
      /\ frames[n].point \in Int /\ frames[i].point \in Int
  BY <1>1, <1>2, UsedTypes
<1>4. seg \in Segment /\ seg # Nothing
  BY NullAssumption DEF Covers
<1>5. seg.points = n - i + 1 /\ seg.start = i /\ seg.last = n
  BY <1>3 DEF Covers
<1>6. Counts(seg) <=> i < n
  BY <1>1, <1>4, <1>5 DEF Counts
<1>7. seg.path \in Nat
  BY <1>4 DEF Segment
<1>8. Measure(seg) \in Metrics
  BY <1>1, <1>3, <1>5, <1>7 DEF Measure, Metrics, Covers
<1> QED
  BY <1>3, <1>4, <1>6, <1>8 DEF Measure, Measures, Covers

\* What is done when the open segment is closed.
LEMMA CloseIs ==
    ASSUME NEW frames, NEW rule, Dated(frames), IsRule(rule),
           NEW n \in Nat, n < Len(frames),
           NEW done, DoneAre(frames, rule, n, done),
           NEW seg, OpenIs(frames, rule, n, seg),
           \/ n = 0 \/ ~Uses(frames[n], rule) \/ ~Uses(frames[n + 1], rule)
           \/ frames[n + 1].ids # frames[n].ids
    PROVE  DoneAre(frames, rule, n + 1, Close(done, seg))
<1> DEFINE S == Stretches(frames, rule)
<1>1. \A r \in S : /\ r[1] \in Nat /\ r[2] \in Nat /\ r[1] < r[2]
                   /\ Run(frames, rule, r[1], r[2])
  BY RunStretch
<1>2. \A r \in S : r[2] < n => r[2] < n + 1
  BY <1>1
<1>3. \A r \in S : r[2] < n + 1 => r[2] < n \/ r[2] = n
  BY <1>1
<1>4. Len(frames) \in Nat
  BY DEF Dated
<1>5. CASE \A r \in S : r[2] # n
  <2>1. CASE ~Counts(seg)
    <3>1. Close(done, seg) = done
      BY <2>1 DEF Close
    <3> QED
      BY <1>2, <1>3, <1>5, <3>1 DEF DoneAre
  <2>2. CASE Counts(seg)
    <3>1. seg # Nothing
      BY <2>2 DEF Counts
    <3>2. n # 0 /\ Uses(frames[n], rule)
      BY <3>1 DEF OpenIs
    <3>3. PICK i \in 1 .. n : Run(frames, rule, i, n) /\ Covers(frames, i, n, seg)
      BY <3>2 DEF OpenIs
    <3>4. n \in 1 .. Len(frames)
      BY <1>4, <3>2
    <3>5. i < n
      BY <2>2, <3>3, <3>4, SegmentMeasured
    <3>6. ~Same(frames, rule, i, n + 1)
      BY <3>2, <3>3, RunEnds
    <3>7. <<i, n>> \in S
      BY <3>3, <3>5, <3>6, StretchIs
    <3> QED
      BY <1>5, <3>7
  <2> QED
    BY <2>1, <2>2
<1>6. CASE \E r \in S : r[2] = n
  <2>1. PICK r \in S : r[2] = n
    BY <1>6
  <2>2. Run(frames, rule, r[1], n) /\ r[1] \in Nat /\ r[1] < n
    BY <1>1, <2>1
  <2>3. n # 0 /\ Uses(frames[n], rule) /\ n \in 1 .. Len(frames)
    <3>1. n # 0 /\ n \in 1 .. Len(frames)
      BY <1>4, <2>2
    <3>2. Uses(frames[n], rule)
      BY <2>2, RunEnds, Zenon
    <3> QED
      BY <3>1, <3>2
  <2>4. PICK i \in 1 .. n : Run(frames, rule, i, n) /\ Covers(frames, i, n, seg)
    BY <2>3 DEF OpenIs
  <2>5. i = r[1]
    BY <2>2, <2>4, OneRun
  <2> DEFINE m == Measure(seg)
  <2>6. Counts(seg) /\ Measures(frames, i, n, m)
    BY <2>2, <2>3, <2>4, <2>5, SegmentMeasured
  <2> HIDE DEF m
  <2> DEFINE more == Close(done, seg)
  <2>7. more = Append(done, m)
    BY <2>6 DEF Close, m
  <2>8. m \in Metrics /\ done \in Seq(Metrics)
    BY <2>6 DEF Measures, DoneAre
  <2> HIDE DEF more
  <2>9. /\ more \in Seq(Metrics) /\ Len(done) \in Nat
        /\ DOMAIN more = 1 .. Len(done) + 1 /\ DOMAIN done = 1 .. Len(done)
        /\ more[Len(done) + 1] = m
        /\ \A k \in 1 .. Len(done) : more[k] = done[k]
    BY <2>7, <2>8, AppendProperties, LenProperties
  <2>10. ASSUME NEW k \in DOMAIN more
         PROVE  \E q \in S : q[2] < n + 1 /\ Measures(frames, q[1], q[2], more[k])
    <3>1. CASE k = Len(done) + 1
      BY <2>1, <2>5, <2>6, <2>9, <3>1
    <3>2. CASE k # Len(done) + 1
      <4>1. k \in DOMAIN done /\ more[k] = done[k]
        BY <2>9, <3>2
      <4>2. \E q \in S : q[2] < n /\ Measures(frames, q[1], q[2], done[k])
        BY <4>1 DEF DoneAre
      <4> QED
        BY <1>2, <4>1, <4>2
    <3> QED
      BY <3>1, <3>2
  <2>11. ASSUME NEW q \in S, q[2] < n + 1
         PROVE  \E k \in DOMAIN more : Measures(frames, q[1], q[2], more[k])
    <3>1. CASE q[2] = n
      <4>1. q[1] = i
        BY <1>1, <2>4, <3>1, OneRun
      <4>2. Len(done) + 1 \in DOMAIN more
        BY <2>9
      <4> QED
        BY <2>6, <2>9, <3>1, <4>1, <4>2
    <3>2. CASE q[2] < n
      <4>1. PICK k \in DOMAIN done : Measures(frames, q[1], q[2], done[k])
        BY <3>2 DEF DoneAre
      <4>2. k \in DOMAIN more /\ more[k] = done[k]
        BY <2>9
      <4> QED
        BY <4>1, <4>2
    <3> QED
      BY <1>3, <2>11, <3>1, <3>2
  <2> QED
    BY <2>9, <2>10, <2>11 DEF DoneAre, more
<1> QED
  BY <1>5, <1>6

\* A segment that begins, and one that goes on.
LEMMA NewCovers ==
    ASSUME NEW frames, NEW rule, Dated(frames), IsRule(rule),
           NEW n \in 1 .. Len(frames), Uses(frames[n], rule)
    PROVE  Covers(frames, n, n, NewSegment(frames[n]))
<1>1. /\ frames[n].time \in Nat /\ frames[n].point \in Int /\ frames[n].ids \in Contacts
  BY UsedTypes
<1>2. n - n + 1 = 1
  BY DEF Dated
<1> QED
  BY <1>1, <1>2 DEF Covers, NewSegment, Segment

LEMMA ExtendCovers ==
    ASSUME NEW frames, NEW rule, Dated(frames), IsRule(rule),
           NEW n \in Nat, n + 1 <= Len(frames), Uses(frames[n + 1], rule),
           NEW i \in 1 .. n, NEW seg, Covers(frames, i, n, seg),
           frames[n + 1].ids = frames[n].ids
    PROVE  Covers(frames, i, n + 1, Extend(seg, frames[n + 1]))
<1> DEFINE f == frames[n + 1]
<1>1. n + 1 \in 1 .. Len(frames)
  BY DEF Dated
<1>2. f.time \in Nat /\ f.point \in Int
  BY <1>1, UsedTypes
<1> HIDE DEF f
<1>3. seg \in Segment /\ seg.points = n - i + 1
  BY DEF Covers
<1>4. seg.points + 1 = (n + 1) - i + 1 /\ seg.points + 1 \in Nat
  BY <1>3
<1>5. seg.path + Dist(seg.to, f.point) \in Nat
  BY <1>2, <1>3 DEF Segment, Dist
<1>6. Extend(seg, f) \in Segment
  BY <1>2, <1>3, <1>4, <1>5 DEF Extend, Segment
<1>7. /\ Extend(seg, f).ids = seg.ids /\ Extend(seg, f).points = seg.points + 1
      /\ Extend(seg, f).start = seg.start /\ Extend(seg, f).last = f.time
      /\ Extend(seg, f).from = seg.from /\ Extend(seg, f).to = f.point
  BY <1>3 DEF Extend, Segment
<1> QED
  BY <1>4, <1>6, <1>7 DEF Covers, f

LEMMA BuildKeeps ==
    ASSUME NEW frames, NEW rule, Dated(frames), IsRule(rule),
           NEW n \in Nat, n < Len(frames),
           NEW done, DoneAre(frames, rule, n, done),
           NEW open, OpenIs(frames, rule, n, open)
    PROVE  \E d, o :
              /\ BuildStep(frames[n + 1], [done |-> done, open |-> open],
                           rule.fingers, rule.strict) = [done |-> d, open |-> o]
              /\ DoneAre(frames, rule, n + 1, d) /\ OpenIs(frames, rule, n + 1, o)
<1> DEFINE f == frames[n + 1]
           acc == [done |-> done, open |-> open]
           next == BuildStep(f, acc, rule.fingers, rule.strict)
<1>1. n + 1 \in 1 .. Len(frames) /\ n + 1 # 0 /\ n + 1 \in Nat
  BY DEF Dated
<1>2. next = IF ~Uses(f, rule) THEN [done |-> Close(done, open), open |-> Nothing]
             ELSE IF open = Nothing THEN [done |-> done, open |-> NewSegment(f)]
             ELSE IF open.ids # f.ids
             THEN [done |-> Close(done, open), open |-> NewSegment(f)]
             ELSE [done |-> done, open |-> Extend(open, f)]
  BY DEF BuildStep, Uses
<1> HIDE DEF next, acc
<1>3. CASE ~Uses(f, rule)
  <2>1. next = [done |-> Close(done, open), open |-> Nothing]
    BY <1>2, <1>3
  <2>2. OpenIs(frames, rule, n + 1, Nothing)
    BY <1>3 DEF OpenIs
  <2>3. DoneAre(frames, rule, n + 1, Close(done, open))
    BY <1>3, CloseIs
  <2> QED
    BY <2>1, <2>2, <2>3, Zenon DEF next, acc
<1>4. ASSUME Uses(f, rule), n = 0 \/ ~Uses(frames[n], rule) \/ f.ids # frames[n].ids
      PROVE  /\ OpenIs(frames, rule, n + 1, NewSegment(f))
             /\ DoneAre(frames, rule, n + 1, Close(done, open))
  <2>1. Run(frames, rule, n + 1, n + 1)
    BY <1>4, NewRun
  <2>2. Covers(frames, n + 1, n + 1, NewSegment(f))
    BY <1>1, <1>4, NewCovers
  <2>3. n + 1 \in 1 .. n + 1
    OBVIOUS
  <2>4. OpenIs(frames, rule, n + 1, NewSegment(f))
    BY <1>1, <1>4, <2>1, <2>2, <2>3, Zenon DEF OpenIs
  <2> QED
    BY <1>4, <2>4, CloseIs
<1>5. CASE Uses(f, rule) /\ open = Nothing
  <2>1. next = [done |-> done, open |-> NewSegment(f)]
    BY <1>2, <1>5
  <2>2. n = 0 \/ ~Uses(frames[n], rule)
    <3>1. ASSUME NEW i, Covers(frames, i, n, open) PROVE FALSE
      BY <1>5, <3>1, NullAssumption DEF Covers
    <3> QED
      BY <3>1 DEF OpenIs
  <2>3. Close(done, open) = done
    BY <1>5 DEF Close, Counts
  <2> QED
    BY <1>4, <1>5, <2>1, <2>2, <2>3, Zenon DEF next, acc
<1>6. CASE Uses(f, rule) /\ open # Nothing
  <2>1. n # 0 /\ Uses(frames[n], rule)
    BY <1>6 DEF OpenIs
  <2>2. PICK i \in 1 .. n : Run(frames, rule, i, n) /\ Covers(frames, i, n, open)
    BY <2>1 DEF OpenIs
  <2>3. open.ids = frames[n].ids
    BY <2>2 DEF Covers
  <2>4. CASE open.ids # f.ids
    <3>1. next = [done |-> Close(done, open), open |-> NewSegment(f)]
      BY <1>2, <1>6, <2>4
    <3> QED
      BY <1>4, <1>6, <2>3, <2>4, <3>1, Zenon DEF next, acc
  <2>5. CASE open.ids = f.ids
    <3>1. next = [done |-> done, open |-> Extend(open, f)]
      BY <1>2, <1>6, <2>5
    <3>2. i \in Nat /\ i \in 1 .. n + 1
      BY <2>2
    <3>3. Same(frames, rule, i, n + 1)
      BY <1>6, <2>2, <2>3, <2>5, <3>2, RunEnds, Zenon
    <3>4. Run(frames, rule, i, n + 1)
      BY <2>2, <3>2, <3>3, RunEnds, Zenon
    <3>5. Covers(frames, i, n + 1, Extend(open, f))
      <4>1. n + 1 <= Len(frames) /\ f.ids = frames[n].ids /\ Uses(f, rule)
        BY <1>1, <1>6, <2>3, <2>5
      <4> QED
        BY <2>2, <4>1, ExtendCovers, Zenon
    <3>6. OpenIs(frames, rule, n + 1, Extend(open, f))
      BY <1>1, <1>6, <3>2, <3>4, <3>5, Zenon DEF OpenIs
    <3>7. ASSUME NEW r \in Stretches(frames, rule), r[2] < n + 1
          PROVE  r[2] < n
      <4>1. /\ r[1] \in Nat /\ r[2] \in Nat /\ r[2] <= Len(frames)
            /\ Run(frames, rule, r[1], r[2])
            /\ r[2] = Len(frames) \/ ~Same(frames, rule, r[1], r[2] + 1)
        BY RunStretch
      <4>2. ASSUME r[2] = n PROVE FALSE
        <5>1. r[1] = i
          BY <2>2, <4>1, <4>2, OneRun
        <5> QED
          BY <3>3, <4>1, <4>2, <5>1
      <4> QED
        BY <3>7, <4>1, <4>2
    <3>8. \A r \in Stretches(frames, rule) : r[2] < n => r[2] < n + 1
      BY RunStretch
    <3>9. DoneAre(frames, rule, n + 1, done)
      BY <3>7, <3>8 DEF DoneAre
    <3> QED
      BY <3>1, <3>6, <3>9, Zenon DEF next, acc
  <2> QED
    BY <2>4, <2>5
<1> QED
  BY <1>3, <1>5, <1>6

\* The loop invariant at the end: the segments of a session whose last frame
\* shows no fingers are its stretches.
LEMMA SegmentsAre ==
    ASSUME NEW frames, NEW rule, Dated(frames), IsRule(rule), frames # <<>>,
           ~Uses(frames[Len(frames)], rule)
    PROVE  DoneAre(frames, rule, Len(frames),
                   SegmentsOf(frames, rule.fingers, rule.strict))
<1> DEFINE N == Len(frames)
           IsAt(n, b) == \E d, o : /\ b = [done |-> d, open |-> o]
                                   /\ DoneAre(frames, rule, n, d)
                                   /\ OpenIs(frames, rule, n, o)
<1>1. N \in Nat
  BY DEF Dated
<1>2. PICK b : /\ b[0] = Empty
               /\ \A n \in 1 .. N :
                     b[n] = BuildStep(frames[n], b[n - 1], rule.fingers, rule.strict)
               /\ SegmentsOf(frames, rule.fingers, rule.strict)
                     = Close(b[N].done, b[N].open)
  BY <1>1, SegmentsGrow
<1> DEFINE A == {n \in Nat : n <= N => IsAt(n, b[n])}
<1>3. 0 \in A
  <2>1. DoneAre(frames, rule, 0, <<>>)
    <3>1. \A r \in Stretches(frames, rule) : ~(r[2] < 0)
      BY RunStretch
    <3>2. <<>> \in Seq(Metrics) /\ DOMAIN <<>> = {}
      BY EmptySeq
    <3> QED
      BY <3>1, <3>2 DEF DoneAre
  <2>2. OpenIs(frames, rule, 0, Nothing)
    BY DEF OpenIs
  <2>3. IsAt(0, b[0])
    BY <1>2, <2>1, <2>2, Zenon DEF Empty
  <2> QED
    BY <2>3
<1>4. ASSUME NEW n \in A PROVE n + 1 \in A
  <2>1. CASE n < N
    <3>1. n \in Nat /\ n + 1 \in 1 .. N /\ (n + 1) - 1 = n
      BY <1>1, <2>1
    <3>2. IsAt(n, b[n])
      <4> HIDE DEF IsAt
      <4> QED
        BY <1>1, <2>1
    <3>3. PICK d, o : /\ b[n] = [done |-> d, open |-> o]
                      /\ DoneAre(frames, rule, n, d) /\ OpenIs(frames, rule, n, o)
      BY <3>2
    <3>4. b[n + 1] = BuildStep(frames[n + 1], [done |-> d, open |-> o],
                               rule.fingers, rule.strict)
      BY <1>2, <3>1, <3>3, Zenon
    <3>5. IsAt(n + 1, b[n + 1])
      <4>1. PICK e, p : /\ BuildStep(frames[n + 1], [done |-> d, open |-> o],
                                     rule.fingers, rule.strict) = [done |-> e, open |-> p]
                        /\ DoneAre(frames, rule, n + 1, e)
                        /\ OpenIs(frames, rule, n + 1, p)
        <5>1. n \in Nat /\ n < Len(frames)
          BY <2>1, <3>1
        <5> QED
          BY <3>3, <5>1, BuildKeeps, Zenon
      <4> QED
        BY <3>4, <4>1
    <3> HIDE DEF IsAt
    <3> QED
      BY <3>1, <3>5
  <2>2. CASE ~(n < N)
    <3> HIDE DEF IsAt
    <3> QED
      BY <1>1, <2>2
  <2> QED
    BY <2>1, <2>2
<1>5. N \in A
  <2> HIDE DEF A
  <2>1. A = Nat
    <3>1. A \subseteq Nat
      BY DEF A
    <3> QED
      BY <1>3, <1>4, <3>1, Induction
  <2> QED
    BY <1>1, <2>1
<1>6. PICK d, o : /\ b[N] = [done |-> d, open |-> o]
                  /\ DoneAre(frames, rule, N, d) /\ OpenIs(frames, rule, N, o)
  <2>1. IsAt(N, b[N])
    <3> HIDE DEF IsAt
    <3> QED
      BY <1>1, <1>5
  <2> QED
    BY <2>1
<1>7. o = Nothing
  BY <1>6 DEF OpenIs
<1>8. Close(d, o) = d
  BY <1>7 DEF Close, Counts
<1>9. b[N].done = d /\ b[N].open = o
  BY <1>6
<1> QED
  BY <1>2, <1>6, <1>8, <1>9, Zenon

-----------------------------------------------------------------------------
(***************************************************************************)
(* Which segment and which rule.                                           *)
(***************************************************************************)
LEMMA LongerOrders ==
    ASSUME NEW a \in Metrics, NEW b \in Metrics, NEW c \in Metrics
    PROVE  /\ Longer(a, b) => ~Longer(b, a) /\ b.duration <= a.duration
           /\ ~Longer(a, b) => a.duration <= b.duration
           /\ ~Longer(a, b) /\ ~Longer(b, c) => ~Longer(a, c)
           /\ ~Longer(a, b) /\ Longer(c, b) => Longer(c, a)
           /\ Longer(a, b) /\ ~Longer(c, b) => Longer(a, c)
<1>1. /\ a.duration \in Int /\ b.duration \in Int /\ c.duration \in Int
      /\ a.points \in Int /\ b.points \in Int /\ c.points \in Int
  BY DEF Metrics
<1> QED
  BY <1>1 DEF Longer

\* max_by finds a segment, and none is longer.
LEMMA LastLongestIs ==
    ASSUME NEW segs \in Seq(Metrics), segs # <<>>
    PROVE  /\ LastLongest(segs) \in DOMAIN segs
           /\ \A j \in DOMAIN segs :
                 segs[j].duration <= segs[LastLongest(segs)].duration
<1> DEFINE N == Len(segs)
           Best(i, n) ==
              /\ i \in 1 .. n
              /\ \A j \in 1 .. n : ~Longer(segs[j], segs[i])
              /\ \A j \in 1 .. n : j > i => Longer(segs[i], segs[j])
           A == {n \in Nat : n \in 1 .. N => \E i : Best(i, n)}
<1>1. N \in Nat /\ N # 0 /\ DOMAIN segs = 1 .. N /\ \A n \in 1 .. N : segs[n] \in Metrics
  BY LenProperties, EmptySeq, ElementOfSeq
<1>2. 0 \in A
  OBVIOUS
<1>3. ASSUME NEW n \in A PROVE n + 1 \in A
  <2>1. n \in Nat /\ n + 1 \in Nat
    OBVIOUS
  <2>2. CASE n + 1 \notin 1 .. N
    BY <2>1, <2>2
  <2>3. CASE n + 1 \in 1 .. N /\ n = 0
    <3>1. \A j \in 1 .. 1 : j = 1
      OBVIOUS
    <3>2. ~Longer(segs[1], segs[1])
      BY <1>1, <2>3, LongerOrders
    <3>3. Best(1, 1)
      BY <3>1, <3>2
    <3> HIDE DEF Best
    <3> QED
      BY <2>1, <2>3, <3>3
  <2>4. CASE n + 1 \in 1 .. N /\ n # 0
    <3>1. n \in 1 .. N
      BY <1>1, <2>1, <2>4
    <3>2. PICK i : Best(i, n)
      BY <3>1
    <3>3. \A j : j \in 1 .. n + 1 <=> j \in 1 .. n \/ j = n + 1
      BY <2>1
    <3>4. i \in 1 .. N /\ i < n + 1 /\ i \in Nat /\ \A j \in 1 .. n : j \in 1 .. N /\ j < n + 1
      BY <1>1, <2>1, <3>1, <3>2
    <3>5. CASE Longer(segs[i], segs[n + 1])
      <4>1. ~Longer(segs[n + 1], segs[i])
        BY <1>1, <2>4, <3>4, <3>5, LongerOrders
      <4>2. Best(i, n + 1)
        BY <3>2, <3>3, <3>5, <4>1
      <4> HIDE DEF Best
      <4> QED
        BY <2>1, <4>2
    <3>6. CASE ~Longer(segs[i], segs[n + 1])
      <4>1. ASSUME NEW j \in 1 .. n PROVE ~Longer(segs[j], segs[n + 1])
        BY <1>1, <2>4, <3>2, <3>4, <3>6, LongerOrders
      <4>2. ~Longer(segs[n + 1], segs[n + 1])
        BY <1>1, <2>4, LongerOrders
      <4>3. \A j \in 1 .. n + 1 : ~(j > n + 1)
        BY <2>1
      <4>4. Best(n + 1, n + 1)
        BY <2>1, <3>3, <4>1, <4>2, <4>3
      <4> HIDE DEF Best
      <4> QED
        BY <2>1, <4>4
    <3> QED
      BY <3>5, <3>6
  <2> QED
    BY <2>2, <2>3, <2>4
<1>4. A = Nat
  <2> HIDE DEF A
  <2>1. A \subseteq Nat
    BY DEF A
  <2> QED
    BY <1>2, <1>3, <2>1, Induction
<1>5. \E i : Best(i, N)
  BY <1>1, <1>4
<1>6. Best(LastLongest(segs), N)
  BY <1>1, <1>5, Zenon DEF LastLongest
<1> HIDE DEF Best
<1>7. ASSUME NEW j \in 1 .. N
      PROVE  segs[j].duration <= segs[LastLongest(segs)].duration
  BY <1>1, <1>6, LongerOrders DEF Best
<1> QED
  BY <1>1, <1>6, <1>7 DEF Best

\* compare_candidates finds a rule among those that match.
LEMMA WinnerIs ==
    ASSUME NEW N \in Nat, NEW metrics, NEW matching \in SUBSET (1 .. N), matching # {},
           \A i \in matching : metrics[i] \in Metrics
    PROVE  Winner(metrics, matching) \in matching
<1> DEFINE Wins(i, j) == \/ Longer(metrics[i], metrics[j])
                         \/ ~Longer(metrics[j], metrics[i]) /\ i < j
           Best(i, n) == /\ i \in matching /\ i <= n
                         /\ \A j \in matching : j # i /\ j <= n => Wins(i, j)
           A == {n \in Nat : (\E j \in matching : j <= n) => \E i : Best(i, n)}
<1>1. \A i \in matching : i \in Nat /\ 1 <= i /\ i <= N
  OBVIOUS
<1>2. 0 \in A
  BY <1>1
<1>3. ASSUME NEW n \in A PROVE n + 1 \in A
  <2>1. n \in Nat /\ n + 1 \in Nat
    OBVIOUS
  <2>2. \A j \in matching : j <= n + 1 <=> j <= n \/ j = n + 1
    BY <1>1, <2>1
  <2>3. CASE n + 1 \notin matching
    <3>1. \A i : Best(i, n) => Best(i, n + 1)
      BY <1>1, <2>2, <2>3
    <3>2. (\E j \in matching : j <= n + 1) => \E i : Best(i, n)
      <4> HIDE DEF Best
      <4> QED
        BY <2>2, <2>3
    <3> HIDE DEF Best
    <3> QED
      BY <2>1, <3>1, <3>2
  <2>4. CASE n + 1 \in matching /\ ~\E j \in matching : j <= n
    <3>1. Best(n + 1, n + 1)
      BY <2>1, <2>2, <2>4
    <3> HIDE DEF Best
    <3> QED
      BY <2>1, <3>1
  <2>5. CASE n + 1 \in matching /\ \E j \in matching : j <= n
    <3>1. PICK i : Best(i, n)
      <4> HIDE DEF Best
      <4> QED
        BY <2>5
    <3>2. i \in matching /\ i < n + 1 /\ metrics[i] \in Metrics
          /\ metrics[n + 1] \in Metrics
      BY <1>1, <2>1, <2>5, <3>1
    <3>3. CASE Longer(metrics[n + 1], metrics[i])
      <4>1. ASSUME NEW j \in matching, j # n + 1, j <= n + 1 PROVE Wins(n + 1, j)
        <5>1. j = i \/ ~Longer(metrics[j], metrics[i])
          <6>1. CASE j = i
            BY <6>1
          <6>2. CASE j # i
            <7>1. Wins(i, j)
              BY <2>2, <3>1, <4>1, <6>2
            <7> QED
              BY <3>2, <7>1, LongerOrders
          <6> QED
            BY <6>1, <6>2
        <5>2. Longer(metrics[n + 1], metrics[j])
          BY <3>2, <3>3, <5>1, LongerOrders
        <5> QED
          BY <5>2
      <4>2. Best(n + 1, n + 1)
        <5> HIDE DEF Wins
        <5> QED
          BY <2>1, <2>5, <4>1
      <4> HIDE DEF Best
      <4> QED
        BY <2>1, <4>2
    <3>4. CASE ~Longer(metrics[n + 1], metrics[i])
      <4>1. Best(i, n + 1)
        <5>1. Wins(i, n + 1)
          BY <3>2, <3>4
        <5>2. i <= n + 1
          BY <1>1, <2>1, <3>2
        <5> HIDE DEF Wins
        <5> QED
          BY <2>2, <3>1, <5>1, <5>2
      <4> HIDE DEF Best
      <4> QED
        BY <2>1, <4>1
    <3> QED
      BY <3>3, <3>4
  <2> QED
    BY <2>3, <2>4, <2>5
<1>4. A = Nat
  <2> HIDE DEF A
  <2>1. A \subseteq Nat
    BY DEF A
  <2> QED
    BY <1>2, <1>3, <2>1, Induction
<1>5. \E i : Best(i, N)
  <2>1. \E j \in matching : j <= N
    BY <1>1
  <2> HIDE DEF Best
  <2> QED
    BY <1>4, <2>1
<1>6. \E i \in matching : \A j \in matching \ {i} : Wins(i, j)
  <2> HIDE DEF Wins
  <2> QED
    BY <1>1, <1>5
<1> QED
  BY <1>6, Zenon DEF Winner

\* The best segment is a longest stretch, if there is one.
LEMMA BestIs ==
    ASSUME NEW frames, NEW rule, Dated(frames), IsRule(rule), frames # <<>>,
           ~Uses(frames[Len(frames)], rule)
    PROVE  LET m == BestSegment(frames, rule.fingers, rule.strict)
           IN  /\ m # Nothing => \E r \in Longest(frames, rule) :
                                    Measures(frames, r[1], r[2], m)
               /\ Stretches(frames, rule) # {} => m # Nothing
<1> DEFINE segs == SegmentsOf(frames, rule.fingers, rule.strict)
           m == BestSegment(frames, rule.fingers, rule.strict)
           k == LastLongest(segs)
           S == Stretches(frames, rule)
<1>1. DoneAre(frames, rule, Len(frames), segs)
  BY SegmentsAre
<1>2. m = IF segs = <<>> THEN Nothing ELSE segs[k]
  BY Zenon DEF BestSegment
<1> HIDE DEF segs, m
<1>3. ASSUME NEW r \in S PROVE r[2] < Len(frames)
  <2>1. /\ r[1] \in Nat /\ r[2] \in Nat /\ r[2] <= Len(frames)
        /\ Run(frames, rule, r[1], r[2]) /\ Len(frames) \in Nat
    BY RunStretch DEF Dated
  <2>2. Uses(frames[r[2]], rule)
    BY <2>1, RunEnds, Zenon
  <2> QED
    BY <2>1, <2>2
<1>4. segs \in Seq(Metrics)
  BY <1>1 DEF DoneAre
<1>5. CASE segs = <<>>
  <2>1. DOMAIN segs = {}
    BY <1>5, EmptySeq
  <2>2. S = {}
    BY <1>1, <1>3, <2>1 DEF DoneAre
  <2> QED
    BY <1>2, <1>5, <2>2 DEF m
<1>6. CASE segs # <<>>
  <2>1. /\ k \in DOMAIN segs
        /\ \A j \in DOMAIN segs : segs[j].duration <= segs[k].duration
    BY <1>4, <1>6, LastLongestIs
  <2> HIDE DEF k
  <2>2. m = segs[k] /\ m \in Metrics /\ m # Nothing
    BY <1>2, <1>4, <1>6, <2>1, ElementOfSeq, NullAssumption
  <2>3. PICK r \in S : Measures(frames, r[1], r[2], segs[k])
    BY <1>1, <2>1 DEF DoneAre
  <2>4. ASSUME NEW q \in S PROVE Lasts(frames, q) <= Lasts(frames, r)
    <3>1. PICK j \in DOMAIN segs : Measures(frames, q[1], q[2], segs[j])
      BY <1>1, <1>3 DEF DoneAre
    <3>2. segs[j].duration = Lasts(frames, q) /\ segs[k].duration = Lasts(frames, r)
      BY <2>3, <3>1 DEF Measures, Lasts
    <3> QED
      BY <2>1, <3>2
  <2>5. r \in Longest(frames, rule)
    BY <2>4, Zenon DEF Longest
  <2> QED
    BY <2>2, <2>3, <2>5 DEF m
<1> QED
  BY <1>5, <1>6

\* The last frame shows no fingers: it adds nothing to the stretches.
LEMMA LastIsApart ==
    ASSUME NEW frames \in Seq(FrameSet), NEW f, f.fingers = 0,
           \A n \in DOMAIN frames : frames[n].time \in {n, NoTime},
           NEW rule, IsRule(rule)
    PROVE  LET F == Append(frames, f)
           IN  /\ Dated(frames) /\ Dated(F) /\ F # <<>> /\ ~Uses(F[Len(F)], rule)
               /\ Stretches(F, rule) = Stretches(frames, rule)
               /\ Longest(F, rule) = Longest(frames, rule)
               /\ \A i \in 1 .. Len(frames) : F[i] = frames[i]
<1> DEFINE F == Append(frames, f)
           N == Len(frames)
           T == FrameSet \cup {f}
<1>1. N \in Nat /\ DOMAIN frames = 1 .. N /\ \A n \in 1 .. N : frames[n] \in FrameSet
  BY LenProperties, ElementOfSeq
<1>2. /\ Len(F) = N + 1 /\ DOMAIN F = 1 .. N + 1 /\ F[N + 1] = f
      /\ \A i \in 1 .. N : F[i] = frames[i]
  <2>1. frames \in Seq(T) /\ f \in T
    BY <1>1, SeqDef
  <2> QED
    BY <2>1, AppendProperties, LenProperties
<1>3. F # <<>>
  <2> HIDE DEF F
  <2>1. Len(F) # 0 /\ Len(<<>>) = 0
    BY <1>1, <1>2
  <2> QED
    BY <2>1
<1> HIDE DEF F
<1>4. ~Uses(f, rule)
  BY DEF Uses, Usable, IsRule
<1>5. Dated(frames)
  BY <1>1 DEF Dated
<1>6. Dated(F)
  <2>1. ASSUME NEW n \in 1 .. N + 1, F[n].fingers # 0
        PROVE  F[n] \in FrameSet /\ F[n].time \in {n, NoTime}
    <3>1. n # N + 1
      BY <1>2, <2>1
    <3>2. n \in 1 .. N
      BY <1>1, <3>1
    <3> QED
      BY <1>1, <1>2, <3>2
  <2> QED
    BY <1>1, <1>2, <2>1 DEF Dated
<1>7. ASSUME NEW i \in Nat, NEW j \in Nat, i >= 1, j <= N
      PROVE  Same(F, rule, i, j) <=> Same(frames, rule, i, j)
  <2>1. CASE i \in 1 .. N
    <3>1. \A m \in i .. j : F[m] = frames[m]
      BY <1>1, <1>2, <2>1, <1>7
    <3>2. F[i] = frames[i]
      BY <1>2, <2>1
    <3> QED
      BY <3>1, <3>2, Zenon DEF Same
  <2>2. CASE i \notin 1 .. N
    <3>1. \A m : m \notin i .. j
      BY <1>1, <1>7, <2>2
    <3> QED
      BY <3>1, Zenon DEF Same
  <2> QED
    BY <2>1, <2>2
<1>8. ASSUME NEW i \in Nat, i <= N + 1
      PROVE  ~Same(F, rule, i, N + 1)
  <2>1. N + 1 \in i .. N + 1
    BY <1>1, <1>8
  <2> QED
    BY <1>2, <1>4, <2>1 DEF Same
<1>9. ASSUME NEW i \in Nat, NEW j \in Nat
      PROVE  <<i, j>> \in Stretches(F, rule) <=> <<i, j>> \in Stretches(frames, rule)
  <2>1. CASE j <= N /\ i \in 1 .. j
    <3>1. Run(F, rule, i, j) <=> Run(frames, rule, i, j)
      <4>1. i # 1 => i - 1 \in Nat /\ i - 1 >= 1
        BY <2>1
      <4>2. Same(F, rule, i, j) <=> Same(frames, rule, i, j)
        BY <1>7, <2>1
      <4>3. i # 1 => (Same(F, rule, i - 1, j) <=> Same(frames, rule, i - 1, j))
        BY <1>7, <2>1, <4>1
      <4> QED
        BY <4>2, <4>3, Zenon DEF Run
    <3>2. j = N => ~Same(F, rule, i, j + 1)
      BY <1>1, <1>8, <2>1
    <3>3. j # N => (Same(F, rule, i, j + 1) <=> Same(frames, rule, i, j + 1))
      <4>1. ASSUME j # N PROVE j + 1 \in Nat /\ j + 1 <= N
        <5> HIDE DEF N
        <5> QED
          BY <1>1, <2>1, <4>1
      <4> QED
        BY <1>7, <2>1, <4>1
    <3>4. j # Len(F) /\ j <= Len(F) /\ j <= Len(frames)
      BY <1>1, <1>2, <2>1
    <3> QED
      BY <1>5, <1>6, <3>1, <3>2, <3>3, <3>4, StretchIs
  <2>2. CASE ~(j <= N /\ i \in 1 .. j)
    <3>1. <<i, j>> \notin Stretches(frames, rule)
      BY <1>5, <2>2, StretchIs DEF Run
    <3>2. ASSUME <<i, j>> \in Stretches(F, rule) PROVE FALSE
      <4>1. j <= N + 1 /\ i \in 1 .. j /\ Same(F, rule, i, j)
        BY <1>2, <1>6, <3>2, StretchIs DEF Run
      <4>2. j = N + 1
        BY <1>1, <2>2, <4>1
      <4> QED
        BY <1>8, <4>1, <4>2
    <3> QED
      BY <3>1, <3>2
  <2> QED
    BY <2>1, <2>2
<1>10. Stretches(F, rule) = Stretches(frames, rule)
  <2>1. ASSUME NEW r \in Stretches(F, rule) PROVE r \in Stretches(frames, rule)
    BY <1>6, <1>9, StretchPairs
  <2>2. ASSUME NEW r \in Stretches(frames, rule) PROVE r \in Stretches(F, rule)
    BY <1>5, <1>9, StretchPairs
  <2> QED
    BY <2>1, <2>2, Zenon
<1>11. \A r \in Stretches(frames, rule) : Lasts(F, r) = Lasts(frames, r)
  <2> SUFFICES ASSUME NEW r \in Stretches(frames, rule)
               PROVE  Lasts(F, r) = Lasts(frames, r)
    OBVIOUS
  <2>1. r[1] \in 1 .. N /\ r[2] \in 1 .. N
    BY <1>1, <1>5, RunStretch DEF Run
  <2> QED
    BY <1>2, <2>1 DEF Lasts
<1>12. Longest(F, rule) = Longest(frames, rule)
  <2> DEFINE S == Stretches(frames, rule)
  <2>1. Longest(F, rule) = {r \in S : \A q \in S : Lasts(F, q) <= Lasts(F, r)}
    BY <1>10 DEF Longest
  <2>2. Longest(frames, rule) = {r \in S : \A q \in S : Lasts(frames, q) <= Lasts(frames, r)}
    BY DEF Longest
  <2> HIDE DEF S
  <2>3. \A r \in S : Lasts(F, r) = Lasts(frames, r)
    BY <1>11 DEF S
  <2> QED
    BY <2>1, <2>2, <2>3
<1> QED
  BY <1>2, <1>3, <1>4, <1>5, <1>6, <1>10, <1>12 DEF F

\* What the measure of a stretch says of the frames at its ends.
LEMMA MeasureSays ==
    ASSUME NEW frames, NEW rule, Dated(frames), IsRule(rule),
           NEW r \in Stretches(frames, rule), NEW m, Measures(frames, r[1], r[2], m)
    PROVE  /\ m.duration = Lasts(frames, r)
           /\ m.dx = Way(frames, r)
           /\ Magnitude(m.dx) = Dist(frames[r[1]].point, frames[r[2]].point)
<1>1. /\ r[1] \in Nat /\ r[2] \in Nat /\ r[1] < r[2] /\ r[2] <= Len(frames)
      /\ Run(frames, rule, r[1], r[2]) /\ Len(frames) \in Nat
  BY RunStretch DEF Dated
<1>2. r[1] \in 1 .. Len(frames) /\ r[2] \in 1 .. Len(frames)
  BY <1>1 DEF Run
<1>3. Uses(frames[r[1]], rule) /\ Uses(frames[r[2]], rule)
  BY <1>1, RunEnds, Zenon
<1>4. frames[r[1]].point \in Int /\ frames[r[2]].point \in Int
  BY <1>2, <1>3, UsedTypes
<1> QED
  BY <1>4 DEF Measures, Lasts, Way, Magnitude, Dist

LEMMA SwipeRules ==
    \A i \in DOMAIN Swipes : IsRule(Swipes[i])
<1>1. \A i \in DOMAIN Swipes : Swipes[i] \in SwipeRule
  BY RuleAssumption, ElementOfSeq, LenProperties
<1> QED
  BY <1>1 DEF IsRule, SwipeRule

LEMMA HoldRules ==
    \A i \in DOMAIN Holds : IsRule(Holds[i])
<1>1. \A i \in DOMAIN Holds : Holds[i] \in HoldRule
  BY RuleAssumption, ElementOfSeq, LenProperties
<1> QED
  BY <1>1 DEF IsRule, HoldRule

\* What GesturesAreEarned asks of the gestures g of a session.
Earns(frames, g) ==
    /\ \A n \in DOMAIN g : g[n].kind = "swipe" =>
          \E i \in DOMAIN Swipes : \E r \in Longest(frames, Swipes[i]) :
             /\ Swipes[i].enabled /\ Swipes[i].id = g[n].rule
             /\ SwipesAlong(frames, Swipes[i], r)
             /\ g[n].direction = Direction(Way(frames, r))
    /\ \A n \in DOMAIN g : g[n].kind = "hold" =>
          \E i \in DOMAIN Holds : \E r \in Longest(frames, Holds[i]) :
             /\ Holds[i].enabled /\ Holds[i].id = g[n].rule
             /\ HoldsAlong(frames, Holds[i], r)
    /\ (\E i \in DOMAIN Holds :
          /\ Holds[i].enabled
          /\ Longest(frames, Holds[i]) # {}
          /\ \A r \in Longest(frames, Holds[i]) : HoldsAlong(frames, Holds[i], r))
       => g # <<>>

\* classify_completed_session: gestures are earned, and a hold is not passed over.
LEMMA ClassifyEarns ==
    ASSUME NEW frames \in Seq(FrameSet), NEW f, f.fingers = 0,
           \A n \in DOMAIN frames : frames[n].time \in {n, NoTime}
    PROVE  Earns(frames, Classify(Append(frames, f)))
<1> DEFINE F == Append(frames, f)
           Best(rule) == BestSegment(F, rule.fingers, rule.strict)
           swipe == [i \in DOMAIN Swipes |->
                        BestSegment(F, Swipes[i].fingers, Swipes[i].strict)]
           hold == [i \in DOMAIN Holds |->
                        BestSegment(F, Holds[i].fingers, Holds[i].strict)]
           swiped == {i \in DOMAIN Swipes : Swipes[i].enabled /\ IsSwipe(Swipes[i], swipe[i])}
           held == {i \in DOMAIN Holds : Holds[i].enabled /\ IsHold(Holds[i], hold[i])}
           s == Winner(swipe, swiped)
           h == Winner(hold, held)
           g == Classify(F)
           Swipe(i) == [kind |-> "swipe", rule |-> Swipes[i].id,
                        direction |-> Direction(swipe[i].dx)]
           Hold(i) == [kind |-> "hold", rule |-> Holds[i].id, direction |-> ""]
<1>1. g = IF swiped # {} THEN <<Swipe(s)>> ELSE IF held # {} THEN <<Hold(h)>> ELSE <<>>
  BY Zenon DEF Classify
<1>2. ASSUME NEW rule, IsRule(rule)
      PROVE  /\ Best(rule) # Nothing => \E r \in Longest(frames, rule) :
                   /\ Best(rule) \in Metrics
                   /\ Best(rule).duration = Lasts(frames, r)
                   /\ Best(rule).dx = Way(frames, r)
                   /\ Magnitude(Best(rule).dx)
                         = Dist(frames[r[1]].point, frames[r[2]].point)
             /\ Longest(frames, rule) # {} => Best(rule) # Nothing
  <2>1. /\ Dated(frames) /\ Dated(F) /\ F # <<>> /\ ~Uses(F[Len(F)], rule)
        /\ Stretches(F, rule) = Stretches(frames, rule)
        /\ Longest(F, rule) = Longest(frames, rule)
        /\ \A i \in 1 .. Len(frames) : F[i] = frames[i]
    BY <1>2, LastIsApart
  <2> DEFINE m == Best(rule)
  <2>2. /\ m # Nothing => \E r \in Longest(F, rule) : Measures(F, r[1], r[2], m)
        /\ Stretches(F, rule) # {} => m # Nothing
    BY <1>2, <2>1, BestIs
  <2> HIDE DEF F, m
  <2>3. Longest(frames, rule) \subseteq Stretches(frames, rule)
    BY Zenon DEF Longest
  <2>4. ASSUME m # Nothing
        PROVE  \E r \in Longest(frames, rule) :
                   /\ m \in Metrics
                   /\ m.duration = Lasts(frames, r)
                   /\ m.dx = Way(frames, r)
                   /\ Magnitude(m.dx) = Dist(frames[r[1]].point, frames[r[2]].point)
    <3>1. PICK r \in Longest(frames, rule) : Measures(F, r[1], r[2], m)
      BY <2>1, <2>2, <2>4
    <3>2. r \in Stretches(frames, rule)
      BY <2>3
    <3>3. r[1] \in 1 .. Len(frames) /\ r[2] \in 1 .. Len(frames)
      <4>1. /\ r[1] \in Nat /\ r[2] \in Nat /\ r[1] < r[2] /\ r[2] <= Len(frames)
            /\ Run(frames, rule, r[1], r[2]) /\ Len(frames) \in Nat
        BY <2>1, <3>2, RunStretch DEF Dated
      <4> QED
        BY <4>1 DEF Run
    <3>4. Measures(frames, r[1], r[2], m)
      BY <2>1, <3>1, <3>3 DEF Measures
    <3>5. m \in Metrics
      BY <3>1 DEF Measures
    <3> QED
      BY <1>2, <2>1, <3>2, <3>4, <3>5, MeasureSays
  <2> QED
    BY <2>1, <2>2, <2>3, <2>4 DEF m
<1>3. \A i \in DOMAIN Swipes : swipe[i] = Best(Swipes[i])
  OBVIOUS
<1>4. \A i \in DOMAIN Holds : hold[i] = Best(Holds[i])
  OBVIOUS
<1> HIDE DEF Best, swipe, hold, g
<1>5. ASSUME NEW i \in swiped
      PROVE  /\ i \in DOMAIN Swipes /\ Swipes[i].enabled /\ swipe[i] \in Metrics
             /\ \E r \in Longest(frames, Swipes[i]) :
                   /\ SwipesAlong(frames, Swipes[i], r)
                   /\ swipe[i].dx = Way(frames, r)
  <2>1. /\ i \in DOMAIN Swipes /\ Swipes[i].enabled /\ IsSwipe(Swipes[i], swipe[i])
        /\ IsRule(Swipes[i]) /\ swipe[i] = Best(Swipes[i])
    BY <1>3, SwipeRules
  <2>2. PICK r \in Longest(frames, Swipes[i]) :
           /\ swipe[i] \in Metrics
           /\ swipe[i].duration = Lasts(frames, r)
           /\ swipe[i].dx = Way(frames, r)
           /\ Magnitude(swipe[i].dx) = Dist(frames[r[1]].point, frames[r[2]].point)
    BY <1>2, <2>1, Zenon DEF IsSwipe
  <2>3. SwipesAlong(frames, Swipes[i], r)
    BY <2>1, <2>2, Zenon DEF IsSwipe, SwipesAlong
  <2> QED
    BY <2>1, <2>2, <2>3
<1>6. ASSUME NEW i \in held
      PROVE  /\ i \in DOMAIN Holds /\ Holds[i].enabled /\ hold[i] \in Metrics
             /\ \E r \in Longest(frames, Holds[i]) : HoldsAlong(frames, Holds[i], r)
  <2>1. /\ i \in DOMAIN Holds /\ Holds[i].enabled /\ IsHold(Holds[i], hold[i])
        /\ IsRule(Holds[i]) /\ hold[i] = Best(Holds[i])
    BY <1>4, HoldRules
  <2>2. PICK r \in Longest(frames, Holds[i]) :
           /\ hold[i] \in Metrics
           /\ hold[i].duration = Lasts(frames, r)
           /\ Magnitude(hold[i].dx) = Dist(frames[r[1]].point, frames[r[2]].point)
    BY <1>2, <2>1, Zenon DEF IsHold
  <2>3. HoldsAlong(frames, Holds[i], r)
    BY <2>1, <2>2, Zenon DEF IsHold, HoldsAlong
  <2> QED
    BY <2>1, <2>2, <2>3
<1>7. swiped # {} => s \in swiped
  <2>1. Len(Swipes) \in Nat /\ swiped \in SUBSET (1 .. Len(Swipes))
    BY RuleAssumption, LenProperties
  <2>2. \A i \in swiped : swipe[i] \in Metrics
    BY <1>5
  <2> HIDE DEF swiped
  <2> QED
    BY <2>1, <2>2, WinnerIs
<1>8. held # {} => h \in held
  <2>1. Len(Holds) \in Nat /\ held \in SUBSET (1 .. Len(Holds))
    BY RuleAssumption, LenProperties
  <2>2. \A i \in held : hold[i] \in Metrics
    BY <1>6
  <2> HIDE DEF held
  <2> QED
    BY <2>1, <2>2, WinnerIs
<1>9. \A i : /\ Swipe(i).kind = "swipe" /\ Swipe(i).rule = Swipes[i].id
             /\ Swipe(i).direction = Direction(swipe[i].dx)
             /\ Hold(i).kind = "hold" /\ Hold(i).rule = Holds[i].id
  OBVIOUS
<1>10. ASSUME NEW i \in DOMAIN Holds, Holds[i].enabled, Longest(frames, Holds[i]) # {},
              \A r \in Longest(frames, Holds[i]) : HoldsAlong(frames, Holds[i], r)
       PROVE  i \in held
  <2>1. hold[i] = Best(Holds[i]) /\ IsRule(Holds[i])
    BY <1>4, HoldRules
  <2>2. hold[i] # Nothing
    BY <1>2, <1>10, <2>1
  <2>3. PICK r \in Longest(frames, Holds[i]) :
           /\ hold[i].duration = Lasts(frames, r)
           /\ Magnitude(hold[i].dx) = Dist(frames[r[1]].point, frames[r[2]].point)
    BY <1>2, <2>1, <2>2, Zenon
  <2>4. IsHold(Holds[i], hold[i])
    BY <1>10, <2>2, <2>3, Zenon DEF IsHold, HoldsAlong
  <2> QED
    BY <1>10, <2>4
<1> HIDE DEF Swipe, Hold, s, h
<1>11. CASE swiped # {}
  <2>1. s \in swiped /\ g = <<Swipe(s)>>
    BY <1>1, <1>7, <1>11
  <2>2. DOMAIN g = {1} /\ g[1] = Swipe(s) /\ g # <<>>
    BY <2>1
  <2>3. s \in DOMAIN Swipes /\ Swipes[s].enabled
        /\ \E r \in Longest(frames, Swipes[s]) :
              SwipesAlong(frames, Swipes[s], r) /\ swipe[s].dx = Way(frames, r)
    BY <1>5, <2>1
  <2>4. /\ g[1].kind = "swipe" /\ g[1].rule = Swipes[s].id
        /\ g[1].direction = Direction(swipe[s].dx)
    BY <1>9, <2>2
  <2> HIDE DEF swiped, held
  <2> QED
    BY <2>2, <2>3, <2>4 DEF Earns, g, F
<1>12. CASE swiped = {} /\ held # {}
  <2>1. h \in held /\ g = <<Hold(h)>>
    BY <1>1, <1>8, <1>12
  <2>2. DOMAIN g = {1} /\ g[1] = Hold(h) /\ g # <<>>
    BY <2>1
  <2>3. h \in DOMAIN Holds /\ Holds[h].enabled
        /\ \E r \in Longest(frames, Holds[h]) : HoldsAlong(frames, Holds[h], r)
    BY <1>6, <2>1
  <2>4. g[1].kind = "hold" /\ g[1].rule = Holds[h].id
    BY <1>9, <2>2
  <2> HIDE DEF swiped, held
  <2> QED
    BY <2>2, <2>3, <2>4 DEF Earns, g, F
<1>13. CASE swiped = {} /\ held = {}
  <2>1. g = <<>>
    BY <1>1, <1>13
  <2>2. DOMAIN g = {}
    BY <2>1, EmptySeq
  <2>3. ~\E i \in DOMAIN Holds :
          /\ Holds[i].enabled
          /\ Longest(frames, Holds[i]) # {}
          /\ \A r \in Longest(frames, Holds[i]) : HoldsAlong(frames, Holds[i], r)
    BY <1>10, <1>13
  <2> HIDE DEF swiped, held
  <2> QED
    BY <2>2, <2>3 DEF Earns, g, F
<1> QED
  BY <1>11, <1>12, <1>13

-----------------------------------------------------------------------------
(***************************************************************************)
(* Gestures are earned.                                                    *)
(***************************************************************************)
\* The times of a session's frames are their places.
InTime == \A n \in DOMAIN session : session[n].time \in {n, NoTime}

LEMMA InTimeStep == IInv /\ InTime /\ [Next]_vars => InTime'
<1> SUFFICES ASSUME IInv, InTime, [Next]_vars PROVE InTime'
  OBVIOUS
<1>1. ASSUME NEW frames \in Seq(FrameSet), NEW phase, NEW s, NEW n, n = Len(frames) + 1,
             \A k \in DOMAIN frames : frames[k].time \in {k, NoTime},
             Frame(phase, s, n) \in FrameSet,
             session' = Append(frames, Frame(phase, s, n))
      PROVE  InTime'
  <2> DEFINE f == Frame(phase, s, n)
  <2>1. f.time \in {n, NoTime}
    BY DEF Frame
  <2> HIDE DEF f
  <2>2. /\ DOMAIN session' = 1 .. Len(frames) + 1 /\ DOMAIN frames = 1 .. Len(frames)
        /\ Len(frames) \in Nat /\ session'[n] = f
        /\ \A k \in 1 .. Len(frames) : session'[k] = frames[k]
    BY <1>1, AppendProperties, LenProperties DEF f
  <2>3. ASSUME NEW k \in DOMAIN session' PROVE session'[k].time \in {k, NoTime}
    <3>1. k = n \/ k \in DOMAIN frames
      BY <1>1, <2>2
    <3> QED
      BY <1>1, <2>1, <2>2, <3>1
  <2> QED
    BY <2>3 DEF InTime
<1>2. ASSUME session' = <<>> PROVE InTime'
  BY <1>2, EmptySeq DEF InTime
<1>3. CASE PushBegin
  <2>1. PICK s \in Shapes : Push(Frame("begin", s, 1))
    BY <1>3 DEF PushBegin, FirstFrames
  <2> DEFINE f == Frame("begin", s, 1)
  <2>2. f \in FrameSet /\ f.phase = "begin"
    BY FrameTypes DEF Frame
  <2> HIDE DEF f
  <2>3. session' = Append(<<>>, f)
    BY <2>1, <2>2 DEF Push, Accept, f
  <2>4. <<>> \in Seq(FrameSet) /\ 1 = Len(<<>>) + 1 /\ DOMAIN <<>> = {}
    BY EmptySeq
  <2> QED
    BY <1>1, <2>2, <2>3, <2>4 DEF f
<1>4. CASE PushUpdate
  <2>1. PICK s \in Shapes : Push(Frame("update", s, Len(session) + 1))
    BY <1>4 DEF PushUpdate
  <2> DEFINE f == Frame("update", s, Len(session) + 1)
  <2>2. session \in Seq(FrameSet) /\ Len(session) + 1 \in Nat
    BY LenProperties DEF IInv, Types
  <2>3. f \in FrameSet /\ f.phase = "update" /\ f.fingers # 0
    BY <2>2, FrameTypes, ShapeAssumption DEF Frame
  <2> HIDE DEF f
  <2>4. session' = Append(session, f)
    BY <2>1, <2>3 DEF Push, Accept, f
  <2> QED
    BY <1>1, <2>2, <2>3, <2>4 DEF f, InTime
<1>5. CASE PushEnd
  BY <1>2, <1>5, EndCloses DEF Closes, Over, InTime
<1>6. CASE Cancel
  BY <1>2, <1>6 DEF Cancel
<1>7. CASE UNCHANGED vars
  BY <1>7 DEF vars, InTime
<1> QED
  BY <1>3, <1>4, <1>5, <1>6, <1>7 DEF Next

LEMMA InTimeAlways == Spec => [](IInv /\ InTime)
<1>1. Init => InTime
  BY EmptySeq DEF Init, InTime
<1> QED
  BY <1>1, InvInit, InvStep, InTimeStep, PTL DEF Spec

\* What a session that no drag claimed ends with is what its frames earn
\* (push and classify_completed_session).
LEMMA EndClassifies ==
    ASSUME IInv, PushEnd, session # <<>>, ~claimed
    PROVE  \E f : f.fingers = 0 /\ out' = Classify(Append(session, f))
<1>1. PICK timed \in BOOLEAN : Push(LastFrame(timed, Len(session) + 1))
  BY DEF PushEnd
<1> DEFINE f == LastFrame(timed, Len(session) + 1)
           u == UpdateDrag(f, candidate, active, claimed)
<1>2. f.phase = "end" /\ f.fingers = 0
  BY DEF LastFrame
<1> HIDE DEF f
<1>3. active = Nothing
  BY DEF IInv, Dragging
<1>4. Accept(f, session, candidate, active, claimed, <<>>)
  BY <1>1, <1>2 DEF Push, f
<1>5. u.claimed = FALSE /\ u.events = <<>>
  BY <1>2, <1>3 DEF UpdateDrag, Result
<1>6. out' = (<<>> \o u.events) \o Classify(Append(session, f))
  BY <1>2, <1>4, <1>5 DEF Accept
<1>7. <<>> \o <<>> = <<>>
  BY OneEvent
<1>8. <<>> \o Classify(Append(session, f)) = Classify(Append(session, f))
  BY OneEvent, Gestures
<1> HIDE DEF u
<1>9. out' = Classify(Append(session, f))
  BY <1>5, <1>6, <1>7, <1>8
<1> QED
  BY <1>2, <1>9

\* Swipes and holds are earned by a longest stretch of the session, and a hold
\* that every longest stretch satisfies is not passed over in silence
\* (best_segment_metrics and compare_candidates, judged by all frames).
THEOREM ClassificationIsEarned == Spec => GesturesAreEarned
<1>1. IInv /\ InTime /\ [Next]_vars =>
        [PushEnd /\ session # <<>> /\ ~claimed => Earns(session, out')]_vars
  <2> SUFFICES ASSUME IInv, InTime, PushEnd, session # <<>>, ~claimed
               PROVE  Earns(session, out')
    OBVIOUS
  <2>1. PICK f : f.fingers = 0 /\ out' = Classify(Append(session, f))
    BY EndClassifies
  <2>2. session \in Seq(FrameSet)
    BY DEF IInv, Types
  <2> QED
    BY <2>1, <2>2, ClassifyEarns DEF InTime
<1> QED
  BY <1>1, InTimeAlways, PTL DEF Spec, GesturesAreEarned, Earns
=============================================================================
