-------------------------- MODULE DragDaemonProofs --------------------------
(***************************************************************************)
(* The drag from the finger to the button, in the order of its modules:    *)
(* the provider's state machine (PointerDrag), the motion and the provider *)
(* as both at once (PointerMotion, PointerProvider), and the daemon that   *)
(* many clients share (DragDaemon).                                        *)
(***************************************************************************)
EXTENDS DragDaemon, PointerProvider, TLAPS, SequenceTheorems

-----------------------------------------------------------------------------
(***************************************************************************)
(* The pointer provider is well formed and knows what it holds pressed,    *)
(* for any number of streams, buttons and refused emissions.               *)
(*                                                                         *)
(* PTypeOK and ButtonsFollowState are inductive together.  A plan emits    *)
(* one of four command lists (PlanShape), so that a step is one of those   *)
(* applied in full, or a failure that leaves the provider idle.            *)
(***************************************************************************)
Inv == PTypeOK /\ ButtonsFollowState

\* The lists that leave the drag as it is, and those of a release and of a
\* begin: a begin gives the old button back first, if there is one.
Keeps(p) ==
    /\ p.cmds = <<>> \/ p.cmds = <<Move>>
    /\ p.next \in DragState
    /\ p.next.stream = state.stream
    /\ p.next.button = state.button

Lets(p) ==
    /\ p.cmds = <<Release(state.button)>>
    /\ state.button # NoButton
    /\ p.next = Idle

Grabs(p, b) ==
    /\ \/ state.button = NoButton /\ p.cmds = <<Press(b)>>
       \/ state.button = NoButton /\ p.cmds = <<Press(b), Move>>
       \/ state.button # NoButton /\ p.cmds = <<Release(state.button), Press(b)>>
       \/ state.button # NoButton /\ p.cmds = <<Release(state.button), Press(b), Move>>
    /\ p.next \in DragState
    /\ p.next.stream # NoStream
    /\ p.next.button = b

\* Appending to short command lists, element by element.
LEMMA ConcatOne ==
    ASSUME NEW S, NEW x \in S, NEW y \in S
    PROVE  <<x>> \o <<y>> = <<x, y>>
<1> DEFINE s == <<x>> \o <<y>>
           t == <<x, y>>
<1>1. <<x>> \in Seq(S) /\ <<y>> \in Seq(S) /\ t \in Seq(S)
  OBVIOUS
<1>2. s \in Seq(S) /\ Len(s) = 2 /\ s[1] = x /\ s[2] = y
  BY <1>1
<1>3. Len(t) = 2 /\ t[1] = x /\ t[2] = y
  OBVIOUS
<1> HIDE DEF s, t
<1>4. s = t
  BY <1>1, <1>2, <1>3, SeqEqual
<1> QED
  BY <1>4 DEF s, t

LEMMA ConcatTwo ==
    ASSUME NEW S, NEW x \in S, NEW y \in S, NEW z \in S
    PROVE  <<x, y>> \o <<z>> = <<x, y, z>>
<1> DEFINE s == <<x, y>> \o <<z>>
           t == <<x, y, z>>
<1>1. <<x, y>> \in Seq(S) /\ <<z>> \in Seq(S) /\ t \in Seq(S)
  OBVIOUS
<1>2. s \in Seq(S) /\ Len(s) = 3 /\ s[1] = x /\ s[2] = y /\ s[3] = z
  BY <1>1
<1>3. Len(t) = 3 /\ t[1] = x /\ t[2] = y /\ t[3] = z
  OBVIOUS
<1> HIDE DEF s, t
<1>4. s = t
  BY <1>1, <1>2, <1>3, SeqEqual
<1> QED
  BY <1>4 DEF s, t

LEMMA IdleType == Idle \in DragState
  BY DEF Idle, DragState

\* What a begin, an update and a release can plan in a well-formed state.
LEMMA BeginShape ==
    ASSUME PTypeOK, NEW e \in Events, NEW b \in Buttons,
           PlanBegin(state, e, b).ok
    PROVE  \/ Keeps(PlanBegin(state, e, b))
           \/ Grabs(PlanBegin(state, e, b), b)
<1> DEFINE p == PlanBegin(state, e, b)
<1> USE DEF PTypeOK, DragState, Events
<1>1. e.stream # NoStream /\ e.stream \in Streams
  BY DEF PlanBegin, Refuse
<1>2. CASE e.stream = state.stream
  <2>1. p = Plan(<<>>, [state EXCEPT !.last = e])
    BY <1>1, <1>2 DEF PlanBegin
  <2> QED
    BY <2>1 DEF Keeps, Plan
<1>3. CASE e.stream # state.stream
  <2> DEFINE next == [stream |-> e.stream, button |-> b, last |-> e]
  <2>1. p = Plan((IF state.button = NoButton THEN <<>> ELSE <<Release(state.button)>>)
                    \o <<Press(b)>> \o MoveCmds(e), next)
    BY <1>1, <1>3 DEF PlanBegin, Refuse
  <2>2. next \in DragState /\ next.stream # NoStream /\ next.button = b
    BY <1>1
  <2>3. \/ state.button = NoButton /\ p.cmds = <<Press(b)>>
        \/ state.button = NoButton /\ p.cmds = <<Press(b), Move>>
        \/ state.button # NoButton /\ p.cmds = <<Release(state.button), Press(b)>>
        \/ state.button # NoButton /\ p.cmds = <<Release(state.button), Press(b), Move>>
    <3> DEFINE old == IF state.button = NoButton THEN <<>>
                      ELSE <<Release(state.button)>>
               r == Release(state.button)
               q == Press(b)
    <3>1. p.cmds = old \o <<q>> \o MoveCmds(e)
      BY <2>1 DEF Plan
    <3>2. MoveCmds(e) = <<>> \/ MoveCmds(e) = <<Move>>
      BY DEF MoveCmds
    <3> HIDE DEF p, q, r
    <3> DEFINE S == {q, r, Move}
    <3>4. /\ <<q>> \in Seq(S)
          /\ <<r, q>> \in Seq(S)
      OBVIOUS
    <3>5. <<>> \o <<q>> = <<q>> /\ <<q>> \o <<>> = <<q>> /\ <<r, q>> \o <<>> = <<r, q>>
      BY <3>4, ConcatEmptySeq
    <3>3. /\ <<>> \o <<q>> \o <<>> = <<q>>
          /\ <<>> \o <<q>> \o <<Move>> = <<q, Move>>
          /\ <<r>> \o <<q>> \o <<>> = <<r, q>>
          /\ <<r>> \o <<q>> \o <<Move>> = <<r, q, Move>>
      <4>0. q \in S /\ r \in S /\ Move \in S
        OBVIOUS
      <4> HIDE DEF S
      <4>1. <<q>> \o <<Move>> = <<q, Move>>
        BY <4>0, ConcatOne
      <4>2. <<r>> \o <<q>> = <<r, q>>
        BY <4>0, ConcatOne
      <4>3. <<r, q>> \o <<Move>> = <<r, q, Move>>
        BY <4>0, ConcatTwo
      <4> QED
        BY <3>5, <4>1, <4>2, <4>3
    <3> QED
      BY <3>1, <3>2, <3>3 DEF q, r
  <2>4. p.next = next
    BY <2>1 DEF Plan
  <2> QED
    BY <2>2, <2>3, <2>4 DEF Grabs
<1> QED
  BY <1>2, <1>3

LEMMA UpdateShape ==
    ASSUME PTypeOK, NEW e \in Events, NEW b \in Buttons,
           PlanUpdate(state, e, b).ok
    PROVE  Keeps(PlanUpdate(state, e, b))
<1>1. PlanUpdate(state, e, b) = Plan(MoveCmds(e), [state EXCEPT !.last = e])
  BY DEF PlanUpdate, Refuse
<1> QED
  BY <1>1 DEF Keeps, Plan, MoveCmds, PTypeOK, DragState

LEMMA ReleaseShape ==
    ASSUME PTypeOK, NEW e \in Events,
           PlanRelease(state, e).ok
    PROVE  \/ Keeps(PlanRelease(state, e))
           \/ Lets(PlanRelease(state, e))
<1> DEFINE p == PlanRelease(state, e)
<1>1. CASE p = Plan(<<>>, state)
  BY <1>1 DEF Keeps, Plan, PTypeOK
<1>2. CASE p # Plan(<<>>, state)
  <2>1. /\ state.stream # NoStream
        /\ p = Plan(IF state.button = NoButton THEN <<>>
                    ELSE <<Release(state.button)>>, Idle)
    BY <1>2 DEF PlanRelease, Refuse
  <2> QED
    BY <2>1 DEF Lets, Plan, PTypeOK
<1> QED
  BY <1>1, <1>2

LEMMA PlanShape ==
    ASSUME PTypeOK, NEW e \in Events, NEW b \in Buttons,
           PlanEvent(state, e, b).ok
    PROVE  LET p == PlanEvent(state, e, b)
           IN  Keeps(p) \/ Lets(p) \/ Grabs(p, b)
<1>1. CASE state.last = e
  BY <1>1 DEF PlanEvent, Keeps, Plan, PTypeOK
<1>2. CASE state.last # e /\ e.phase = "begin"
  <2>1. PlanEvent(state, e, b) = PlanBegin(state, e, b)
    BY <1>2 DEF PlanEvent
  <2> QED
    BY <2>1, BeginShape
<1>3. CASE state.last # e /\ e.phase = "update"
  <2>1. PlanEvent(state, e, b) = PlanUpdate(state, e, b)
    BY <1>3 DEF PlanEvent
  <2> QED
    BY <2>1, UpdateShape
<1>4. CASE state.last # e /\ e.phase \in {"end", "cancel"}
  <2>1. PlanEvent(state, e, b) = PlanRelease(state, e)
    BY <1>4 DEF PlanEvent
  <2> QED
    BY <2>1, ReleaseShape
<1>5. CASE state.last # e /\ e.phase \notin {"begin", "update", "end", "cancel"}
  BY <1>5 DEF PlanEvent, Refuse
<1> QED
  BY <1>1, <1>2, <1>3, <1>4, <1>5

\* Applying any prefix of a plan only presses and releases known buttons.
LEMMA PrefixType ==
    ASSUME PTypeOK, NEW b \in Buttons, NEW p,
           Keeps(p) \/ Lets(p) \/ Grabs(p, b),
           NEW n \in 0 .. Len(p.cmds)
    PROVE  ApplyPrefix(down, p.cmds, n) \subseteq Buttons
<1>1. CASE Keeps(p)
  BY <1>1 DEF Keeps, ApplyPrefix, Apply, Move, PTypeOK
<1>2. CASE Lets(p)
  BY <1>2 DEF Lets, ApplyPrefix, Apply, Release, PTypeOK
<1>3. CASE Grabs(p, b)
  BY <1>3 DEF Grabs, ApplyPrefix, Apply, Release, Press, Move, PTypeOK
<1> QED
  BY <1>1, <1>2, <1>3

\* A plan applied in full leaves down what its next state holds.
LEMMA FullPlan ==
    ASSUME Inv, NEW b \in Buttons, NEW p,
           Keeps(p) \/ Lets(p) \/ Grabs(p, b),
           EmitAll(p.cmds, p.next)
    PROVE  Inv'
<1> USE NoneAssumption
<1>1. /\ down' = ApplyPrefix(down, p.cmds, Len(p.cmds))
      /\ created' = (created \/ p.cmds # <<>>)
      /\ state' = p.next
      /\ stranded' = stranded
      /\ faults' = faults
  BY DEF EmitAll
<1>2. CASE Keeps(p)
  <2>1. down' = down
    BY <1>1, <1>2 DEF Keeps, ApplyPrefix, Apply, Move
  <2> QED
    BY <1>1, <1>2, <2>1 DEF Keeps, Inv, PTypeOK, ButtonsFollowState
<1>3. CASE Lets(p)
  <2>1. down' = down \ {state.button}
    BY <1>1, <1>3 DEF Lets, ApplyPrefix, Apply, Release
  <2> QED
    BY <1>1, <1>3, <2>1, IdleType
    DEF Lets, Inv, PTypeOK, ButtonsFollowState, Idle, Held
<1>4. CASE Grabs(p, b)
  <2>1. down' = (down \ {state.button}) \cup {b}
    <3>1. down \subseteq Buttons
      BY DEF Inv, PTypeOK
    <3>2. CASE state.button = NoButton /\ p.cmds = <<Press(b)>>
      <4>1. down' = down \cup {b}
        BY <1>1, <3>2 DEF ApplyPrefix, Apply, Press
      <4> QED
        BY <3>1, <3>2, <4>1
    <3>3. CASE state.button = NoButton /\ p.cmds = <<Press(b), Move>>
      <4>1. down' = down \cup {b}
        BY <1>1, <3>3 DEF ApplyPrefix, Apply, Press, Move
      <4> QED
        BY <3>1, <3>3, <4>1
    <3>4. CASE p.cmds = <<Release(state.button), Press(b)>>
      BY <1>1, <3>4 DEF ApplyPrefix, Apply, Press, Release
    <3>5. CASE p.cmds = <<Release(state.button), Press(b), Move>>
      BY <1>1, <3>5 DEF ApplyPrefix, Apply, Press, Release, Move
    <3> QED
      BY <1>4, <3>2, <3>3, <3>4, <3>5 DEF Grabs
  <2>2. /\ p.cmds # <<>>
        /\ p.next \in DragState /\ p.next.stream # NoStream /\ p.next.button = b
    BY <1>4 DEF Grabs
  <2>3. created' \in BOOLEAN /\ created'
    BY <1>1, <2>2
  <2>4. PTypeOK'
    BY <1>1, <2>1, <2>2, <2>3 DEF Inv, PTypeOK
  <2>5. ButtonsFollowState'
    BY <1>1, <2>1, <2>2 DEF Inv, PTypeOK, ButtonsFollowState, Held
  <2> QED
    BY <2>4, <2>5 DEF Inv
<1> QED
  BY <1>2, <1>3, <1>4

LEMMA ExecuteDragStep ==
    ASSUME Inv, NEW e \in Events, NEW b \in Buttons, ExecuteDrag(e, b)
    PROVE  Inv'
<1> USE FaultAssumption, NoneAssumption
<1> DEFINE p == PlanEvent(state, e, b)
<1>1. CASE ~p.ok
  BY <1>1 DEF ExecuteDrag, pvars, Inv, PTypeOK, ButtonsFollowState
<1>2. CASE p.ok
  <2>1. Keeps(p) \/ Lets(p) \/ Grabs(p, b)
    BY <1>2, PlanShape DEF Inv
  <2>2. ExecutePlan(p)
    BY <1>2 DEF ExecuteDrag
  <2> HIDE DEF p
  <2>3. CASE EmitAll(p.cmds, p.next)
    BY <2>1, <2>3, FullPlan
  <2>4. CASE OpenFails(p.cmds)
    BY <2>4, IdleType DEF OpenFails, Inv, PTypeOK, ButtonsFollowState, Idle, Held
  <2>5. CASE EmitFails(p.cmds)
    <3>1. /\ created' \in BOOLEAN /\ created'
          /\ stranded' \in BOOLEAN
          /\ state' = Idle /\ down' = {}
          /\ faults' \in 0 .. MaxFaults
      <4>1. stranded' = FALSE /\ created' = TRUE /\ state' = Idle /\ down' = {}
        BY <2>5 DEF EmitFails
      <4>2. faults' \in 0 .. MaxFaults
        BY <2>5 DEF EmitFails, Inv, PTypeOK
      <4>3. stranded' \in BOOLEAN
        BY <4>1, Zenon
      <4> QED
        BY <4>1, <4>2, <4>3
    <3> QED
      BY <3>1, IdleType DEF Inv, PTypeOK, ButtonsFollowState, Idle, Held
  <2>6. CASE EmitAndReleaseFail(p.cmds)
    <3>1. PICK n \in 0 .. Len(p.cmds) - 1 : down' = ApplyPrefix(down, p.cmds, n)
      BY <2>6 DEF EmitAndReleaseFail
    <3>2. Len(p.cmds) \in Nat
      BY <2>1 DEF Keeps, Lets, Grabs
    <3>3. down' \subseteq Buttons
      BY <2>1, <3>1, <3>2, PrefixType DEF Inv
    <3> QED
      BY <2>6, <3>3, IdleType
      DEF EmitAndReleaseFail, Inv, PTypeOK, ButtonsFollowState, Idle, Held
  <2> QED
    BY <2>2, <2>3, <2>4, <2>5, <2>6 DEF ExecutePlan
<1> QED
  BY <1>1, <1>2

LEMMA InvInit == PInit => Inv
<1> SUFFICES ASSUME PInit PROVE Inv
  OBVIOUS
<1>1. created \in BOOLEAN /\ stranded \in BOOLEAN
  BY Zenon DEF PInit
<1>2. faults \in 0 .. MaxFaults
  BY FaultAssumption DEF PInit
<1>3. state \in DragState /\ state.stream = NoStream /\ state.button = NoButton
  BY IdleType DEF PInit, Idle
<1>4. down = {}
  BY DEF PInit
<1> QED
  BY <1>1, <1>2, <1>3, <1>4 DEF Inv, PTypeOK, ButtonsFollowState, Held

LEMMA InvStep == Inv /\ [PNext]_pvars => Inv'
<1> SUFFICES ASSUME Inv, [PNext]_pvars PROVE Inv'
  OBVIOUS
<1>1. ASSUME NEW e \in Events, NEW b \in Buttons, ExecuteDrag(e, b) PROVE Inv'
  BY <1>1, ExecuteDragStep
<1>2. CASE ReplaceProvider
  BY <1>2, IdleType, NoneAssumption
  DEF ReplaceProvider, Inv, PTypeOK, ButtonsFollowState, Idle, Held
<1>3. CASE UNCHANGED pvars
  BY <1>3 DEF pvars, Inv, PTypeOK, ButtonsFollowState
<1> QED
  BY <1>1, <1>2, <1>3 DEF PNext

LEMMA InvAlways == PSpec => []Inv
  BY InvInit, InvStep, PTL DEF PSpec

\* PointerDragState is always well formed, so the error "active state is
\* missing its stream id" of plan_update is unreachable.
THEOREM PointerTypeCorrect == PSpec => []PTypeOK
<1>1. Inv => PTypeOK
  BY DEF Inv
<1> QED
  BY <1>1, InvAlways, PTL

\* The provider never loses sight of a pressed button: what is down is what
\* the active drag holds, up to an emergency release the device refused.
THEOREM ProviderHoldsWhatIsDown == PSpec => []ButtonsFollowState
<1>1. Inv => ButtonsFollowState
  BY DEF Inv
<1> QED
  BY <1>1, InvAlways, PTL

-----------------------------------------------------------------------------
(***************************************************************************)
(* The motion by itself, and the provider as both of its halves at once,   *)
(* for every value of the constants, so that PointerTypeCorrect,           *)
(* ProviderHoldsWhatIsDown, MotionTypeCorrect and PointerNeverDrifts, each *)
(* proved of one half, hold of the whole.                                  *)
(*                                                                         *)
(* Of the motion the argument is that of the rounding: a rounded value is  *)
(* at most half a unit away, so the residual is at most half a unit, and   *)
(* the balance between what was asked for and what was emitted is restored *)
(* by every step that is not clamped and starts again after one that is.   *)
(* That the halves agree on the active drag needs the well-formed state of *)
(* PointerDrag: a plan keeps the stream, gives it up, or takes another.    *)
(***************************************************************************)
-----------------------------------------------------------------------------
(***************************************************************************)
(* PointerMotion.                                                          *)
(***************************************************************************)
\* Euclidean division by a positive divisor brackets the dividend.
LEMMA DivBounds ==
    ASSUME NEW n \in Nat, NEW d \in Nat \ {0}
    PROVE  /\ n \div d \in Int
           /\ d * (n \div d) <= n
           /\ n < d * (n \div d) + d
  BY Z3

\* Round (f64::round) is off by at most half a unit.
LEMMA RoundNear ==
    ASSUME NEW x \in Int
    PROVE  /\ Round(x) \in Int
           /\ 2 * (x - Unit * Round(x)) <= Unit
           /\ -Unit <= 2 * (x - Unit * Round(x))
<1> USE UnitAssumption
<1> DEFINE d == 2 * Unit
<1>0. d \in Nat \ {0}
  OBVIOUS
<1>1. CASE x >= 0
  <2> DEFINE n == 2 * x + Unit
             q == n \div d
  <2>1. n \in Nat
    BY <1>1
  <2>2. q \in Int /\ d * q <= n /\ n < d * q + d
    BY <1>0, <2>1, DivBounds
  <2>3. Round(x) = q
    BY <1>1 DEF Round
  <2>4. d * q = 2 * (Unit * q)
    BY <2>2
  <2> HIDE DEF q
  <2> QED
    BY <2>2, <2>3, <2>4
<1>2. CASE ~(x >= 0)
  <2> DEFINE n == Unit - 2 * x
             q == n \div d
  <2>1. n \in Nat
    BY <1>2
  <2>2. q \in Int /\ d * q <= n /\ n < d * q + d
    BY <1>0, <2>1, DivBounds
  <2>3. Round(x) = -q
    BY <1>2 DEF Round
  <2>4. d * q = 2 * (Unit * q) /\ Unit * (-q) = -(Unit * q)
    BY <2>2
  <2> HIDE DEF q
  <2> QED
    BY <2>2, <2>3, <2>4
<1> QED
  BY <1>1, <1>2

\* Clamping stays an integer.
LEMMA ClampInt == ASSUME NEW n \in Int PROVE Clamp(n) \in Int
  BY MaxDeltaAssumption DEF Clamp

\* At rest nothing is owed.
LEMMA AtRest == residual = 0 /\ wanted = 0 /\ moved = 0 => NoDrift
<1> SUFFICES ASSUME residual = 0, wanted = 0, moved = 0 PROVE NoDrift
  OBVIOUS
<1>1. Unit \in Int /\ Unit > 0
  BY UnitAssumption
<1>2. Unit * moved = 0
  BY <1>1
<1>3. wanted = Unit * moved + residual
  BY <1>2
<1>4. 2 * residual <= Unit /\ -Unit <= 2 * residual
  BY <1>1
<1> QED
  BY <1>3, <1>4 DEF NoDrift

LEMMA AtRestNext == residual' = 0 /\ wanted' = 0 /\ moved' = 0 => NoDrift'
<1> SUFFICES ASSUME residual' = 0, wanted' = 0, moved' = 0 PROVE NoDrift'
  OBVIOUS
<1>1. Unit \in Int /\ Unit > 0
  BY UnitAssumption
<1>2. Unit * moved' = 0
  BY <1>1
<1>3. wanted' = Unit * moved' + residual'
  BY <1>2
<1>4. 2 * residual' <= Unit /\ -Unit <= 2 * residual'
  BY <1>1
<1> QED
  BY <1>3, <1>4 DEF NoDrift

\* One step of the motion keeps the balance: what is left over is at most
\* half a unit, and equals what was asked for minus what was emitted.
LEMMA ScaleAxisBalances ==
    ASSUME NEW d \in Int, NEW r \in Int, NEW w \in Int, NEW m \in Int,
           w = Unit * m + r,
           ScaleAxis(d, r, w, m)
    PROVE  /\ residual' \in Int /\ wanted' \in Int /\ moved' \in Int
           /\ NoDrift'
<1> USE UnitAssumption
<1> DEFINE x == d + r
<1>1. x \in Int
  OBVIOUS
<1>2. /\ Round(x) \in Int
      /\ 2 * (x - Unit * Round(x)) <= Unit
      /\ -Unit <= 2 * (x - Unit * Round(x))
  BY <1>1, RoundNear
<1>3. CASE Round(x) = Step(x)
  <2>1. /\ residual' = x - Unit * Round(x)
        /\ wanted' = w + d
        /\ moved' = m + Round(x)
    BY <1>3 DEF ScaleAxis, Left
  <2>2. Unit * (m + Round(x)) = Unit * m + Unit * Round(x)
    BY <1>2
  <2>3. wanted' = Unit * moved' + residual'
    BY <1>2, <2>1, <2>2
  <2>4. residual' \in Int /\ wanted' \in Int /\ moved' \in Int
    BY <1>1, <1>2, <2>1
  <2> QED
    BY <1>2, <2>1, <2>3, <2>4 DEF NoDrift
<1>4. CASE Round(x) # Step(x)
  <2>1. residual' = 0 /\ wanted' = 0 /\ moved' = 0
    BY <1>4 DEF ScaleAxis, Left
  <2> QED
    BY <2>1, AtRestNext
<1> QED
  BY <1>3, <1>4

Balanced == MotionTypeOK /\ NoDrift

LEMMA BalancedInit == MotionInit => Balanced
<1> SUFFICES ASSUME MotionInit PROVE Balanced
  OBVIOUS
<1>1. NoDrift
  BY AtRest DEF MotionInit
<1>2. active \in BOOLEAN
  BY Zenon DEF MotionInit
<1>3. /\ residual \in Int /\ wanted \in Int /\ moved \in Int
      /\ ~active => residual = 0
  BY DEF MotionInit
<1> QED
  BY <1>1, <1>2, <1>3, Zenon DEF Balanced, MotionTypeOK

LEMMA BalancedStep == Balanced /\ [MotionNext]_motionVars => Balanced'
<1> SUFFICES ASSUME Balanced, [MotionNext]_motionVars PROVE Balanced'
  OBVIOUS
<1> USE UnitAssumption, DeltasAssumption DEF Balanced, MotionTypeOK
<1>1. ASSUME NEW d \in Deltas, Begin(d) PROVE Balanced'
  <2>1. ScaleAxis(d, 0, 0, 0) /\ 0 = Unit * 0 + 0 /\ d \in Int
    BY <1>1 DEF Begin
  <2>2. residual' \in Int /\ wanted' \in Int /\ moved' \in Int /\ NoDrift'
    BY <2>1, ScaleAxisBalances
  <2> QED
    BY <1>1, <2>2 DEF Begin
<1>2. ASSUME NEW d \in Deltas, Update(d) PROVE Balanced'
  <2>1. ScaleAxis(d, residual, wanted, moved) /\ d \in Int
    BY <1>2 DEF Update
  <2>2. wanted = Unit * moved + residual
    BY DEF NoDrift
  <2>3. residual' \in Int /\ wanted' \in Int /\ moved' \in Int /\ NoDrift'
    BY <2>1, <2>2, ScaleAxisBalances
  <2> QED
    BY <1>2, <2>3 DEF Update
<1>3. CASE Finish
  <2>1. NoDrift'
    BY <1>3, AtRestNext DEF Finish
  <2>2. active' \in BOOLEAN
    BY <1>3, Zenon DEF Finish
  <2>3. /\ residual' \in Int /\ wanted' \in Int /\ moved' \in Int
        /\ ~active' => residual' = 0
    BY <1>3 DEF Finish
  <2> QED
    BY <2>1, <2>2, <2>3, Zenon
<1>4. CASE UNCHANGED motionVars
  BY <1>4 DEF motionVars, NoDrift
<1> QED
  BY <1>1, <1>2, <1>3, <1>4 DEF MotionNext

LEMMA BalancedAlways == MotionSpec => []Balanced
  BY BalancedInit, BalancedStep, PTL DEF MotionSpec

\* The residual is an integer number of parts, and an idle provider carries
\* none over (PointerDragState::default).
THEOREM MotionTypeCorrect == MotionSpec => []MotionTypeOK
  BY BalancedAlways, PTL DEF Balanced

\* The pointer follows the finger to within half a step between clamps, for
\* every scale resolution, clamp and delta (scale_axis, residual_x).
THEOREM PointerNeverDrifts == MotionSpec => []NoDrift
  BY BalancedAlways, PTL DEF Balanced

-----------------------------------------------------------------------------
(***************************************************************************)
(* PointerProvider.                                                        *)
(***************************************************************************)
Agree == active <=> state.stream # NoStream

PInv == Inv /\ Agree

\* A stream that was not active is one the residual starts afresh for.
FreshStart ==
    state'.stream \notin {NoStream, state.stream} => \E d \in Deltas : Begin(d)

\* An execution is one of uinput.drag and one of the rounding, or nothing.
LEMMA ExecuteHalves ==
    ASSUME NEW e \in Events, NEW b \in Buttons, NEW d \in Deltas,
           Execute(e, b, d)
    PROVE  /\ ExecuteDrag(e, b)
           /\ [MotionNext]_motionVars
<1> DEFINE p == PlanEvent(state, e, b)
<1>1. CASE ~p.ok
  BY <1>1 DEF Execute, ExecuteDrag, providerVars, pvars, motionVars
<1>2. CASE p.ok /\ EmitAll(p.cmds, p.next) /\ InstallResidual(e, p, d)
  <2>1. ExecuteDrag(e, b)
    BY <1>2 DEF ExecuteDrag, ExecutePlan
  <2>2. Begin(d) \/ Update(d) \/ Finish \/ UNCHANGED motionVars
    BY <1>2 DEF InstallResidual
  <2> QED
    BY <2>1, <2>2 DEF MotionNext
<1>3. CASE p.ok /\ EmissionFails(p)
  BY <1>3 DEF EmissionFails, ExecuteDrag, ExecutePlan, MotionNext
<1> QED
  BY <1>1, <1>2, <1>3 DEF Execute

LEMMA StepHalves ==
    [ProviderNext]_providerVars => [PNext]_pvars /\ [MotionNext]_motionVars
<1> SUFFICES ASSUME [ProviderNext]_providerVars
             PROVE  [PNext]_pvars /\ [MotionNext]_motionVars
  OBVIOUS
<1>1. ASSUME NEW e \in Events, NEW b \in Buttons, NEW d \in Deltas,
             Execute(e, b, d)
      PROVE  [PNext]_pvars /\ [MotionNext]_motionVars
  BY <1>1, ExecuteHalves DEF PNext
<1>2. CASE Replace
  BY <1>2 DEF Replace, PNext, MotionNext
<1>3. CASE UNCHANGED providerVars
  BY <1>3 DEF providerVars
<1> QED
  BY <1>1, <1>2, <1>3 DEF ProviderNext

\* What a plan that is carried out does to the active drag, in both halves.
LEMMA InstallAgrees ==
    ASSUME PInv, NEW e \in Events, NEW b \in Buttons, NEW d \in Deltas,
           PlanEvent(state, e, b).ok,
           state' = PlanEvent(state, e, b).next,
           InstallResidual(e, PlanEvent(state, e, b), d)
    PROVE  Agree' /\ FreshStart
<1> DEFINE p == PlanEvent(state, e, b)
<1>1. PTypeOK
  BY DEF PInv, Inv
<1>2. Keeps(p) \/ Lets(p) \/ Grabs(p, b)
  BY <1>1, PlanShape
<1>3. CASE Starts(e, p)
  BY <1>3 DEF Starts, InstallResidual, Begin, Agree, FreshStart
<1>4. CASE ~Starts(e, p) /\ Moves(e, p)
  <2>1. p = PlanUpdate(state, e, b)
    BY <1>4 DEF Moves, PlanEvent
  <2>2. state'.stream = state.stream
    BY <1>1, <2>1, UpdateShape DEF Keeps
  <2>3. active' = active
    BY <1>4 DEF InstallResidual, Update
  <2> QED
    BY <2>2, <2>3 DEF PInv, Agree, FreshStart
<1>5. CASE ~Starts(e, p) /\ ~Moves(e, p) /\ p.next = Idle
  BY <1>5 DEF InstallResidual, Finish, Idle, Agree, FreshStart
<1>6. CASE ~Starts(e, p) /\ ~Moves(e, p) /\ p.next # Idle
  <2>1. state'.stream = state.stream
    BY <1>2, <1>6 DEF Keeps, Lets, Grabs, Starts
  <2>2. active' = active
    BY <1>6 DEF InstallResidual, motionVars
  <2> QED
    BY <2>1, <2>2 DEF PInv, Agree, FreshStart
<1> QED
  BY <1>3, <1>4, <1>5, <1>6

\* A step that gives the drag up gives it up in both halves.
LEMMA GiveUpAgrees ==
    ASSUME state' = Idle, Finish
    PROVE  Agree' /\ FreshStart
  BY DEF Finish, Idle, Agree, FreshStart

LEMMA StepAgrees ==
    ASSUME PInv, [ProviderNext]_providerVars
    PROVE  Agree' /\ (FreshStart \/ UNCHANGED providerVars)
<1>1. ASSUME NEW e \in Events, NEW b \in Buttons, NEW d \in Deltas,
             Execute(e, b, d)
      PROVE  Agree' /\ (FreshStart \/ UNCHANGED providerVars)
  <2> DEFINE p == PlanEvent(state, e, b)
  <2>1. CASE ~p.ok
    BY <1>1, <2>1 DEF Execute, providerVars, pvars, motionVars, PInv, Agree
  <2>2. CASE p.ok /\ EmitAll(p.cmds, p.next) /\ InstallResidual(e, p, d)
    BY <2>2, InstallAgrees DEF EmitAll
  <2>3. CASE p.ok /\ EmissionFails(p)
    BY <2>3, GiveUpAgrees
    DEF EmissionFails, OpenFails, EmitFails, EmitAndReleaseFail
  <2> QED
    BY <1>1, <2>1, <2>2, <2>3 DEF Execute
<1>2. CASE Replace
  BY <1>2, GiveUpAgrees DEF Replace, ReplaceProvider
<1>3. CASE UNCHANGED providerVars
  BY <1>3 DEF providerVars, pvars, motionVars, PInv, Agree
<1> QED
  BY <1>1, <1>2, <1>3 DEF ProviderNext

LEMMA PInvInit == ProviderInit => PInv
  BY InvInit DEF ProviderInit, PInv, Agree, PInit, MotionInit, Idle

LEMMA PInvStep == PInv /\ [ProviderNext]_providerVars => PInv'
  BY StepHalves, StepAgrees, InvStep DEF PInv

\* One execution of uinput.drag moves the button, the stream and the residual
\* of one drag together, whatever is refused: the provider implements both
\* halves (PointerDragState is one struct, replaced as a whole).
THEOREM ProviderIsBothHalves == ProviderSpec => HalvesAgree
<1>1. PInv => Agree
  BY DEF PInv
<1>2. PInv /\ [ProviderNext]_providerVars => [FreshStart]_providerVars
  BY StepAgrees
<1> QED
  BY <1>1, <1>2, PInvInit, PInvStep, StepHalves, PTL
  DEF ProviderSpec, HalvesAgree, Agree, FreshStart

\* The provider as a whole is well formed, knows what it holds pressed, and
\* loses no motion.
THEOREM ProviderIsSafe ==
    ProviderSpec => [](PTypeOK /\ ButtonsFollowState /\ MotionTypeOK /\ NoDrift)
<1>1. PInv => PTypeOK /\ ButtonsFollowState
  BY DEF PInv, Inv
<1>2. ProviderInit => Balanced
  BY BalancedInit DEF ProviderInit
<1>3. Balanced /\ [ProviderNext]_providerVars => Balanced'
  BY StepHalves, BalancedStep DEF motionVars
<1>4. Balanced => MotionTypeOK /\ NoDrift
  BY DEF Balanced
<1> QED
  BY <1>1, <1>2, <1>3, <1>4, PInvInit, PInvStep, PTL DEF ProviderSpec

-----------------------------------------------------------------------------
(***************************************************************************)
(* Who is answerable for a drag, for any number of clients, streams,       *)
(* configurations, reloads and refused emissions.                          *)
(*                                                                         *)
(* DragOwned alone is not inductive: a connection that is about to track   *)
(* another drag, or to forget this one, is answerable for it only until    *)
(* its dispatch is over.  Owner leaves such connections out.  It is kept   *)
(* because a begin that is executed makes its own connection an owner, and *)
(* because what makes a connection forget a drag (an end, a cancel, a      *)
(* begin) also ends it in the provider or gives the button to another,     *)
(* unless the event is refused or does not reach it: the lines of a client *)
(* are not refused (LinesOK), nor is an event taken for a repetition that  *)
(* is none (LastOK); a begin reaches the provider if a drag is active      *)
(* (RouteOK); and the end and the cancel do because the configuration      *)
(* binds the release phases, or else the drag is not forgotten.            *)
(***************************************************************************)
\* A begin has a stream and well-formed motion, and a cleanup a drag to cancel.
GoodLines ==
    {l \in Lines : l \in Events /\ l.phase = "begin" =>
                      l.stream # NoStream /\ l.motion # "malformed"}

LinesOK ==
    \A c \in Clients :
        /\ inbox[c] \in Seq(GoodLines)
        /\ job[c] \in GoodLines \cup {NoEvent}
        /\ pc[c] \in {"lock", "exec", "done"} => job[c] # NoEvent
        /\ closing[c] /\ pc[c] # "closed" => tracked[c] # NoEvent

\* The event remembered by an active drag is one of its own, but not its last;
\* without a drag there is none.
LastOK ==
    IF state.stream = NoStream THEN state.last = NoEvent
    ELSE /\ state.last \in Events
         /\ state.last.stream = state.stream
         /\ state.last.phase \in {"begin", "update"}

\* A drag is only active under a configuration that leads begins to it.
RouteOK == state.stream # NoStream => config["begin"].route = "drag"

\* Connection c is answerable for stream s, and will still be when the
\* dispatch that it is ending is over.
Owner(c, s) ==
    /\ pc[c] # "closed"
    /\ \/ /\ pc[c] = "done" /\ ~closing[c]
          /\ job[c] \in Events /\ job[c].phase = "begin" /\ job[c].stream = s
       \/ /\ StreamOf(tracked[c]) = s
          /\ pc[c] = "done" => ~closing[c] /\ StreamOf(Remembered(c)) = s

Owned ==
    BindsReleases(config) /\ state.stream # NoStream =>
        \E c \in Clients : Owner(c, state.stream)

DInv ==
    /\ TypeOK /\ ButtonsFollowState
    /\ LinesOK /\ LastOK /\ RouteOK /\ Owned

-----------------------------------------------------------------------------
\* What executing an event does to the active drag: a begin takes it over, an
\* end or a refused emission gives it up, and everything else leaves it alone.
TakesOver(e) == e.phase = "begin" /\ e.stream # NoStream /\ state'.stream = e.stream

GivesUp(e) ==
    /\ state' = Idle
    /\ faults' > faults \/ (e.phase \in {"end", "cancel"} /\ e.stream = state.stream)

LeavesAlone(e) ==
    /\ state'.stream = state.stream
    /\ e.phase \in {"end", "cancel"} => e.stream # state.stream \/ state.stream = NoStream
    /\ e.phase = "begin" => e.stream = NoStream \/ e.motion = "malformed"

LEMMA PlanEffect ==
    ASSUME PTypeOK, LastOK, NEW e \in Events, NEW b \in Buttons,
           state' = PlanEvent(state, e, b).next
    PROVE  /\ \/ TakesOver(e)
              \/ state' = Idle /\ e.phase \in {"end", "cancel"} /\ e.stream = state.stream
              \/ LeavesAlone(e)
           /\ LastOK'
<1> USE DEF TakesOver, LeavesAlone, Plan, Refuse, PTypeOK, DragState
<1> USE NoneAssumption
<1>1. CASE state.last = e
  <2>1. state' = state
    BY <1>1 DEF PlanEvent
  <2>2. state.stream # NoStream
    BY <1>1, EventAssumption DEF LastOK
  <2> QED
    BY <2>1, <2>2, <1>1 DEF LastOK
<1>2. CASE state.last # e /\ e.phase = "begin"
  <2>1. state' = PlanBegin(state, e, b).next
    BY <1>2 DEF PlanEvent
  <2> QED
    BY <1>2, <2>1 DEF PlanBegin, LastOK
<1>3. CASE state.last # e /\ e.phase = "update"
  <2>1. state' = PlanUpdate(state, e, b).next
    BY <1>3 DEF PlanEvent
  <2> QED
    BY <1>3, <2>1 DEF PlanUpdate, LastOK
<1>4. CASE state.last # e /\ e.phase \in {"end", "cancel"}
  <2>1. state' = PlanRelease(state, e).next
    BY <1>4 DEF PlanEvent
  <2> QED
    BY <1>4, <2>1 DEF PlanRelease, LastOK, Idle
<1>5. CASE state.last # e /\ e.phase \notin {"begin", "update", "end", "cancel"}
  BY <1>5 DEF PlanEvent, LastOK
<1> QED
  BY <1>1, <1>2, <1>3, <1>4, <1>5

LEMMA DragEffect ==
    ASSUME Inv, LastOK, NEW e \in Events, NEW b \in Buttons, ExecuteDrag(e, b)
    PROVE  /\ TakesOver(e) \/ GivesUp(e) \/ LeavesAlone(e)
           /\ Inv' /\ LastOK'
<1> DEFINE p == PlanEvent(state, e, b)
<1>1. Inv'
  BY ExecuteDragStep
<1>2. CASE ~p.ok
  <2>1. p.next = state /\ state' = state
    BY <1>2 DEF ExecuteDrag, pvars, PlanEvent, PlanBegin, PlanUpdate, PlanRelease,
                Plan, Refuse
  <2> QED
    BY <1>1, <2>1, PlanEffect DEF Inv, GivesUp
<1>3. CASE p.ok /\ EmitAll(p.cmds, p.next)
  <2>1. state' = p.next
    BY <1>3 DEF EmitAll
  <2> QED
    BY <1>1, <2>1, PlanEffect DEF Inv, GivesUp
<1>4. CASE p.ok /\ (OpenFails(p.cmds) \/ EmitFails(p.cmds) \/ EmitAndReleaseFail(p.cmds))
  <2>1. state' = Idle /\ faults' > faults
    BY <1>4 DEF OpenFails, EmitFails, EmitAndReleaseFail, Inv, PTypeOK
  <2> QED
    BY <1>1, <2>1 DEF GivesUp, LastOK, Idle
<1> QED
  BY <1>2, <1>3, <1>4 DEF ExecuteDrag, ExecutePlan

-----------------------------------------------------------------------------
\* Tracking an event yields an event or nothing.
LEMMA TrackType ==
    ASSUME NEW a \in Events \cup {NoEvent}, NEW e \in Lines \cup {NoEvent}
    PROVE  Track(a, e) \in Events \cup {NoEvent}
<1>1. CASE StreamOf(e) = NoStream
  BY <1>1 DEF Track
<1>2. CASE StreamOf(e) # NoStream
  <2>1. e \in Events
    BY <1>2 DEF StreamOf
  <2> QED
    BY <1>2, <2>1 DEF Track
<1> QED
  BY <1>1, <1>2

\* Only a begin, and the end or the cancel of the drag tracked, can make a
\* connection forget that drag.
LEMMA TrackForgets ==
    ASSUME NEW a \in Events \cup {NoEvent}, NEW e \in Lines,
           NEW s \in Streams, StreamOf(a) = s, StreamOf(Track(a, e)) # s
    PROVE  /\ e \in Events
           /\ \/ e.phase = "begin" /\ e.stream # s
              \/ e.phase \in {"end", "cancel"} /\ e.stream = s
<1> USE NoneAssumption
<1>1. StreamOf(e) # NoStream
  BY DEF Track
<1>2. e \in Events /\ StreamOf(e) = e.stream
  BY <1>1 DEF StreamOf
<1>3. CASE e.phase = "begin"
  <2>1. Track(a, e) = e
    BY <1>1, <1>3 DEF Track
  <2> QED
    BY <1>2, <1>3, <2>1
<1>4. CASE e.phase = "update"
  <2>1. Track(a, e) = e \/ Track(a, e) = a
    BY <1>1, <1>4 DEF Track
  <2>2. Track(a, e) = e => StreamOf(a) = e.stream \/ a = e
    BY <1>1, <1>4 DEF Track
  <2> QED
    BY <1>2, <2>1, <2>2
<1>5. CASE e.phase \notin {"begin", "update"}
  BY <1>1, <1>2, <1>5 DEF Track
<1> QED
  BY <1>3, <1>4, <1>5

LEMMA CancelType ==
    ASSUME NEW a \in Events
    PROVE  /\ CancelOf(a) \in GoodLines \cap Events
           /\ CancelOf(a).phase = "cancel"
           /\ CancelOf(a).stream = a.stream
  BY DEF CancelOf, GoodLines, Lines, Events, Phases, Motions

LEMMA GoodLinesAreLines == \A q \in Seq(GoodLines) : q \in Seq(Lines)
  BY SeqMonotonic DEF GoodLines

-----------------------------------------------------------------------------
LEMMA DInvInit == Init => DInv
<1> SUFFICES ASSUME Init PROVE DInv
  OBVIOUS
<1> USE DEF Init
<1>1. Inv
  BY InvInit
<1>2. state = Idle
  BY DEF PInit
<1>3. TypeOK
  <2>1. PTypeOK /\ config \in Configs /\ reloads \in 0 .. MaxReloads
    BY <1>1, ReloadAssumption DEF Inv
  <2>2. inbox \in [Clients -> Seq(Lines)]
    BY EmptySeq
  <2>3. running \in BOOLEAN /\ closing \in [Clients -> BOOLEAN]
    BY Zenon
  <2> QED
    BY <2>1, <2>2, <2>3 DEF TypeOK, Steps
<1>4. LinesOK
  <2>1. \A c \in Clients : inbox[c] = <<>> /\ job[c] = NoEvent /\ pc[c] = "read"
    OBVIOUS
  <2> QED
    BY <2>1, EmptySeq DEF LinesOK
<1> QED
  BY <1>1, <1>2, <1>3, <1>4 DEF DInv, Inv, LastOK, RouteOK, Owned, Idle

\* A step of a client adds good lines and changes nothing of the daemon's.
ClientOnly ==
    /\ UNCHANGED <<pvars, taskVars, configVars, running, held>>
    /\ mode' \in [Clients -> {"ready", "waiting", "leaving", "gone"}]
    /\ sending' \in [Clients -> Streams \cup {NoStream}]
    /\ used' \in SUBSET Streams
    /\ inbox' \in [Clients -> Seq(GoodLines)]

LEMMA ClientOnlyKeeps ==
    ASSUME DInv, ClientOnly
    PROVE  DInv'
<1> USE DEF ClientOnly, DInv, pvars, taskVars, configVars
<1>1. TypeOK'
  <2>1. inbox' \in [Clients -> Seq(Lines)]
    BY GoodLinesAreLines
  <2> QED
    BY <2>1 DEF TypeOK, PTypeOK
<1>2. LinesOK'
  BY DEF LinesOK
<1>3. ButtonsFollowState' /\ LastOK' /\ RouteOK'
  BY DEF ButtonsFollowState, LastOK, RouteOK
<1>4. Owned'
  BY DEF Owned, Owner, Remembered, Rejected
<1> QED
  BY <1>1, <1>2, <1>3, <1>4

LEMMA InboxType ==
    ASSUME DInv
    PROVE  inbox \in [Clients -> Seq(GoodLines)]
  BY DEF DInv, TypeOK, LinesOK

LEMMA SendType ==
    ASSUME DInv, NEW c \in Clients, NEW l \in GoodLines, Send(c, l)
    PROVE  inbox' \in [Clients -> Seq(GoodLines)]
<1>1. inbox \in [Clients -> Seq(GoodLines)]
  BY InboxType
<1>2. Append(inbox[c], l) \in Seq(GoodLines)
  BY <1>1, AppendProperties
<1> QED
  BY <1>1, <1>2 DEF Send

LEMMA LineType ==
    ASSUME NEW s \in Streams, NEW i \in Copies
    PROVE  /\ Line("begin", s, "some", i) \in GoodLines
           /\ \A ph \in {"update", "end", "cancel"}, m \in {"some", "none"} :
                 Line(ph, s, m, i) \in GoodLines
  BY NoneAssumption DEF Line, GoodLines, Lines, Events, Phases, Motions

LEMMA ClientKeeps ==
    ASSUME DInv, NEW c \in Clients, Client(c)
    PROVE  DInv'
<1> SUFFICES ClientOnly
  BY ClientOnlyKeeps
<1>0. /\ mode \in [Clients -> {"ready", "waiting", "leaving", "gone"}]
      /\ sending \in [Clients -> Streams \cup {NoStream}]
      /\ used \in SUBSET Streams
      /\ inbox \in [Clients -> Seq(GoodLines)]
  BY InboxType DEF DInv, TypeOK
<1>1. CASE ClientBegin(c)
  <2>1. PICK s \in Streams \ used, i \in Copies :
           /\ Send(c, Line("begin", s, "some", i))
           /\ used' = used \cup {s}
           /\ sending' = [sending EXCEPT ![c] = s]
    BY <1>1 DEF ClientBegin
  <2>2. inbox' \in [Clients -> Seq(GoodLines)]
    BY <2>1, LineType, SendType
  <2> QED
    BY <1>0, <1>1, <2>1, <2>2 DEF ClientBegin, ClientOnly
<1>2. CASE ClientUpdate(c)
  <2>1. PICK i \in Copies : Send(c, Line("update", sending[c], "some", i))
    BY <1>2 DEF ClientUpdate
  <2>2. sending[c] \in Streams
    BY <1>0, <1>2 DEF ClientUpdate
  <2>3. inbox' \in [Clients -> Seq(GoodLines)]
    BY <2>1, <2>2, LineType, SendType
  <2> QED
    BY <1>0, <1>2, <2>3 DEF ClientUpdate, ClientOnly, clientVars
<1>3. CASE ClientEnd(c)
  <2>1. PICK ph \in {"end", "cancel"}, i \in Copies :
           Send(c, Line(ph, sending[c], "none", i))
    BY <1>3 DEF ClientEnd
  <2>2. sending[c] \in Streams
    BY <1>0, <1>3 DEF ClientEnd
  <2>3. inbox' \in [Clients -> Seq(GoodLines)]
    BY <2>1, <2>2, LineType, SendType
  <2> QED
    BY <1>0, <1>3, <2>3 DEF ClientEnd, ClientOnly
<1>4. CASE ClientTask(c)
  <2>1. Task \in GoodLines
    BY TaskAssumption DEF GoodLines, Lines
  <2>2. inbox' \in [Clients -> Seq(GoodLines)]
    BY <1>4, <2>1, SendType DEF ClientTask
  <2> QED
    BY <1>0, <1>4, <2>2 DEF ClientTask, ClientOnly
<1>5. CASE ClientGivesUp(c)
  <2>1. PICK i \in Copies : Send(c, Line("cancel", sending[c], "none", i))
    BY <1>5 DEF ClientGivesUp
  <2>2. sending[c] \in Streams
    BY <1>0, <1>5 DEF ClientGivesUp
  <2>3. inbox' \in [Clients -> Seq(GoodLines)]
    BY <2>1, <2>2, LineType, SendType
  <2> QED
    BY <1>0, <1>5, <2>3 DEF ClientGivesUp, ClientOnly
<1>6. CASE ClientGoes(c)
  BY <1>0, <1>6 DEF ClientGoes, ClientOnly
<1> QED
  BY <1>1, <1>2, <1>3, <1>4, <1>5, <1>6 DEF Client

-----------------------------------------------------------------------------
\* A step of connection c that leaves the provider and the configuration
\* alone.  What remains to be shown of it: its own variables are well formed,
\* and it is still answerable for what it was answerable for.
TaskOnly(c) ==
    /\ UNCHANGED <<pvars, sending, used, configVars, running, held>>
    /\ mode' \in [Clients -> {"ready", "waiting", "leaving", "gone"}]
    /\ inbox' \in [Clients -> Seq(GoodLines)]
    /\ pc' \in [Clients -> Steps] /\ \A d \in Clients \ {c} : pc'[d] = pc[d]
    /\ job' \in [Clients -> GoodLines \cup {NoEvent}]
    /\ \A d \in Clients \ {c} : job'[d] = job[d]
    /\ tracked' \in [Clients -> Events \cup {NoEvent}]
    /\ \A d \in Clients \ {c} : tracked'[d] = tracked[d]
    /\ closing' \in [Clients -> BOOLEAN]
    /\ \A d \in Clients \ {c} : closing'[d] = closing[d]
    /\ pc'[c] \in {"lock", "exec", "done"} => job'[c] # NoEvent
    /\ closing'[c] => /\ pc'[c] \in {"lock", "exec", "done", "closed"}
                      /\ pc'[c] # "closed" =>
                            tracked'[c] # NoEvent /\ job'[c] = CancelOf(tracked'[c])
    /\ BindsReleases(config) /\ state.stream # NoStream /\ Owner(c, state.stream) =>
          Owner(c, state.stream)'

LEMMA TaskOnlyKeeps ==
    ASSUME DInv, NEW c \in Clients, TaskOnly(c)
    PROVE  DInv'
<1> USE DEF TaskOnly, DInv
<1>0. UNCHANGED <<pvars, sending, used, configVars, running, held>> /\ state' = state
  BY DEF pvars
<1>1. TypeOK'
  <2>1. inbox' \in [Clients -> Seq(Lines)]
    BY GoodLinesAreLines
  <2>2. job' \in [Clients -> Lines \cup {NoEvent}]
    BY DEF GoodLines
  <2>3. \A d \in Clients : closing'[d] =>
           /\ pc'[d] \in {"lock", "exec", "done", "closed"}
           /\ pc'[d] # "closed" => job'[d] = CancelOf(tracked'[d])
    BY DEF TypeOK
  <2>4. /\ PTypeOK' /\ sending' \in [Clients -> Streams \cup {NoStream}]
        /\ used' \in SUBSET Streams /\ config' \in Configs
        /\ pending' \in Configs \cup {NoConfig} /\ reloads' \in 0 .. MaxReloads
        /\ running' \in BOOLEAN /\ held' \subseteq Streams
    BY <1>0 DEF TypeOK, PTypeOK, pvars, configVars
  <2> QED
    BY <2>1, <2>2, <2>3, <2>4 DEF TypeOK
<1>2. LinesOK'
  BY DEF LinesOK
<1>3. ButtonsFollowState' /\ LastOK' /\ RouteOK'
  BY <1>0 DEF ButtonsFollowState, LastOK, RouteOK, pvars, configVars
<1>4. ASSUME BindsReleases(config), state.stream # NoStream
      PROVE  \E d \in Clients : Owner(d, state.stream)'
  <2>1. PICK d \in Clients : Owner(d, state.stream)
    BY <1>4 DEF Owned
  <2>2. CASE d = c
    BY <1>4, <2>1, <2>2
  <2>3. CASE d # c
    <3>1. /\ pc'[d] = pc[d] /\ job'[d] = job[d]
          /\ tracked'[d] = tracked[d] /\ closing'[d] = closing[d]
      BY <2>3
    <3>2. config' = config
      BY <1>0 DEF configVars
    <3> QED
      BY <1>0, <2>1, <3>1, <3>2 DEF Owner, Remembered, Rejected
  <2> QED
    BY <2>2, <2>3
<1>5. Owned'
  BY <1>0, <1>4 DEF Owned, configVars
<1> QED
  BY <1>1, <1>2, <1>3, <1>5

\* The types of the task variables, as TaskOnly has them.
LEMMA TaskTypes ==
    ASSUME DInv
    PROVE  /\ mode \in [Clients -> {"ready", "waiting", "leaving", "gone"}]
           /\ inbox \in [Clients -> Seq(GoodLines)]
           /\ pc \in [Clients -> Steps]
           /\ job \in [Clients -> GoodLines \cup {NoEvent}]
           /\ tracked \in [Clients -> Events \cup {NoEvent}]
           /\ closing \in [Clients -> BOOLEAN]
           /\ \A c \in Clients :
                 /\ pc[c] \in {"lock", "exec", "done"} => job[c] # NoEvent
                 /\ closing[c] =>
                      /\ pc[c] \in {"lock", "exec", "done", "closed"}
                      /\ pc[c] # "closed" =>
                            tracked[c] # NoEvent /\ job[c] = CancelOf(tracked[c])
<1>1. inbox \in [Clients -> Seq(GoodLines)]
  BY InboxType
<1>2. job \in [Clients -> GoodLines \cup {NoEvent}]
  BY DEF DInv, TypeOK, LinesOK
<1> QED
  BY <1>1, <1>2 DEF DInv, TypeOK, LinesOK

LEMMA ReadLineKeeps ==
    ASSUME DInv, NEW c \in Clients, ReadLine(c)
    PROVE  DInv'
<1> SUFFICES TaskOnly(c)
  BY TaskOnlyKeeps
<1> USE DEF ReadLine, Goto
<1>1. Head(inbox[c]) \in GoodLines /\ Tail(inbox[c]) \in Seq(GoodLines)
  BY TaskTypes, HeadTailProperties
<1>2. Head(inbox[c]) # NoEvent
  BY <1>1, EventAssumption, TaskAssumption DEF GoodLines, Lines
<1>3. inbox' \in [Clients -> Seq(GoodLines)] /\ job' \in [Clients -> GoodLines \cup {NoEvent}]
  BY <1>1, TaskTypes
<1>4. ~closing[c]
  BY TaskTypes
<1>5. Owner(c, state.stream) => Owner(c, state.stream)'
  BY TaskTypes DEF Owner, pvars
<1> QED
  BY <1>2, <1>3, <1>4, <1>5, TaskTypes DEF TaskOnly, Steps, clientVars

LEMMA TakeReadLockKeeps ==
    ASSUME DInv, NEW c \in Clients, TakeReadLock(c)
    PROVE  DInv'
<1> SUFFICES TaskOnly(c)
  BY TaskOnlyKeeps
<1> USE DEF TakeReadLock, Goto
<1>1. Owner(c, state.stream) => Owner(c, state.stream)'
  BY TaskTypes DEF Owner, pvars
<1> QED
  BY <1>1, TaskTypes DEF TaskOnly, Steps, clientVars

\* Leaving the read loop, from where a line is awaited or an answer written.
LEMMA LeaveLoopKeeps ==
    ASSUME DInv, NEW c \in Clients, pc[c] \in {"read", "write"}, LeaveLoop(c)
    PROVE  DInv'
<1> SUFFICES TaskOnly(c)
  BY TaskOnlyKeeps
<1>0. inbox' \in [Clients -> Seq(GoodLines)]
  BY TaskTypes, EmptySeq DEF LeaveLoop
<1>1. CASE tracked[c] = NoEvent
  <2>1. /\ pc' = [pc EXCEPT ![c] = "closed"] /\ job' = job /\ tracked' = tracked
        /\ closing' = [closing EXCEPT ![c] = TRUE]
        /\ UNCHANGED <<pvars, clientVars, configVars, running, held>>
    BY <1>1 DEF LeaveLoop, Goto
  <2>2. state.stream # NoStream => ~Owner(c, state.stream)
    BY <1>1, EventAssumption DEF Owner, StreamOf
  <2> QED
    BY <1>0, <2>1, <2>2, TaskTypes DEF TaskOnly, Steps, clientVars
<1>2. CASE tracked[c] # NoEvent
  <2>1. /\ pc' = [pc EXCEPT ![c] = "lock"] /\ tracked' = tracked
        /\ job' = [job EXCEPT ![c] = CancelOf(tracked[c])]
        /\ closing' = [closing EXCEPT ![c] = TRUE]
        /\ UNCHANGED <<pvars, clientVars, configVars, running, held>>
    BY <1>2 DEF LeaveLoop, Goto
  <2>2. CancelOf(tracked[c]) \in GoodLines \cap Events
    BY <1>2, TaskTypes, CancelType
  <2>3. CancelOf(tracked[c]) # NoEvent
    BY <2>2, EventAssumption
  <2>4. Owner(c, state.stream) => Owner(c, state.stream)'
    BY <2>1, TaskTypes DEF Owner, pvars
  <2>5. pc'[c] = "lock" /\ closing'[c] /\ job'[c] = CancelOf(tracked'[c])
        /\ job'[c] # NoEvent /\ tracked'[c] # NoEvent
    BY <1>2, <2>1, <2>3, TaskTypes
  <2>6. job' \in [Clients -> GoodLines \cup {NoEvent}]
    BY <2>1, <2>2, TaskTypes
  <2> QED
    BY <1>0, <2>1, <2>4, <2>5, <2>6, TaskTypes DEF TaskOnly, Steps, clientVars
<1> QED
  BY <1>1, <1>2

LEMMA WriteAnswerKeeps ==
    ASSUME DInv, NEW c \in Clients, WriteAnswer(c)
    PROVE  DInv'
<1> SUFFICES TaskOnly(c)
  BY TaskOnlyKeeps
<1> USE DEF WriteAnswer, Goto
<1>1. ~closing[c]
  BY TaskTypes
<1>2. mode' \in [Clients -> {"ready", "waiting", "leaving", "gone"}]
  BY TaskTypes
<1>3. Owner(c, state.stream) => Owner(c, state.stream)'
  BY TaskTypes DEF Owner, pvars
<1> QED
  BY <1>1, <1>2, <1>3, TaskTypes DEF TaskOnly, Steps

LEMMA RememberedType ==
    ASSUME DInv, NEW c \in Clients
    PROVE  Remembered(c) \in Events \cup {NoEvent}
  BY TaskTypes, TrackType DEF Remembered, GoodLines

LEMMA FinishJobKeeps ==
    ASSUME DInv, NEW c \in Clients, FinishJob(c)
    PROVE  DInv'
<1> SUFFICES TaskOnly(c)
  BY TaskOnlyKeeps
<1> DEFINE t == IF closing[c] THEN tracked[c] ELSE Remembered(c)
<1>1. /\ pc' = [pc EXCEPT ![c] = IF closing[c] THEN "closed" ELSE "write"]
      /\ job' = [job EXCEPT ![c] = NoEvent]
      /\ closing' = closing
      /\ UNCHANGED <<pvars, clientVars, inbox, configVars, running, held>>
      /\ running /\ pc[c] = "done"
  BY DEF FinishJob, Goto
<1>2. Remembered(c) \in Events \cup {NoEvent}
  BY RememberedType
<1>3. tracked' = [tracked EXCEPT ![c] = t] /\ t \in Events \cup {NoEvent}
  BY <1>2, TaskTypes DEF FinishJob
<1>4. ASSUME state.stream # NoStream, Owner(c, state.stream)
      PROVE  Owner(c, state.stream)'
  <2>1. ~closing[c]
    BY <1>1, <1>4 DEF Owner
  <2>2. tracked'[c] = Remembered(c)
    BY <1>3, <2>1, TaskTypes
  <2>3. StreamOf(Remembered(c)) = state.stream
    <3>1. CASE job[c] \in Events /\ job[c].phase = "begin" /\ job[c].stream = state.stream
      <4>1. ~Rejected(c)
        BY <1>4, <3>1 DEF DInv, RouteOK, Rejected
      <4> QED
        BY <1>4, <3>1, <4>1 DEF Remembered, Track, StreamOf
    <3> QED
      BY <1>1, <1>4, <3>1 DEF Owner
  <2>4. pc'[c] = "write" /\ state' = state
    BY <1>1, <2>1, TaskTypes DEF pvars
  <2> QED
    BY <2>2, <2>3, <2>4 DEF Owner
<1> HIDE DEF t
<1> QED
  BY <1>1, <1>3, <1>4, TaskTypes DEF TaskOnly, Steps, clientVars

\* A child awaited by process.run: its event has no stream.
LEMMA ChildExitsKeeps ==
    ASSUME DInv, NEW c \in Clients, ChildExits(c)
    PROVE  DInv'
<1> SUFFICES TaskOnly(c)
  BY TaskOnlyKeeps
<1> USE DEF ChildExits, Goto
<1>1. Task \notin Events /\ Task # NoEvent
  BY TaskAssumption
<1>2. ~closing[c]
  BY <1>1, TaskTypes, CancelType
<1>3. ASSUME state.stream # NoStream, Owner(c, state.stream)
      PROVE  Owner(c, state.stream)'
  <2>1. StreamOf(tracked[c]) = state.stream /\ tracked[c] # NoEvent
    BY <1>3, EventAssumption DEF Owner, StreamOf
  <2>2. Remembered(c)' = tracked[c]
    BY <1>1, TaskTypes DEF Remembered, Rejected, Track, StreamOf
  <2> QED
    BY <1>2, <2>1, <2>2, TaskTypes DEF Owner, pvars
<1> QED
  BY <1>1, <1>3, TaskTypes DEF TaskOnly, Steps, clientVars

\* An event that makes its connection forget stream s reaches the pointer, if
\* the release phases are bound and s is active.
LEMMA ForgettingReaches ==
    ASSUME DInv, NEW c \in Clients, pc[c] = "exec", job[c] \in Events,
           BindsReleases(config), state.stream # NoStream,
           StreamOf(tracked[c]) = state.stream,
           closing[c] \/ StreamOf(Remembered(c)) # state.stream
    PROVE  /\ config[job[c].phase].route = "drag"
           /\ \/ job[c].phase = "begin" /\ job[c].stream # state.stream
              \/ job[c].phase \in {"end", "cancel"} /\ job[c].stream = state.stream
<1>1. state.stream \in Streams
  BY DEF DInv, TypeOK, PTypeOK, DragState
<1>2. tracked[c] \in Events /\ tracked[c].stream = state.stream
  BY TaskTypes DEF StreamOf
<1>3. config \in [Phases -> [route : Routes, button : Buttons]]
  BY ConfigAssumption DEF DInv, TypeOK
<1>4. CASE closing[c]
  <2>1. job[c].phase = "cancel" /\ job[c].stream = state.stream
    BY <1>2, <1>4, TaskTypes, CancelType
  <2> QED
    BY <2>1 DEF BindsReleases
<1>5. CASE ~closing[c]
  <2>1. ~Rejected(c) /\ StreamOf(Track(tracked[c], job[c])) # state.stream
    BY <1>5 DEF Remembered
  <2>2. \/ job[c].phase = "begin" /\ job[c].stream # state.stream
        \/ job[c].phase \in {"end", "cancel"} /\ job[c].stream = state.stream
    BY <1>1, <1>2, <2>1, TrackForgets DEF Lines
  <2>3. job[c] # Task
    BY TaskAssumption
  <2>4. config["end"].route \in Routes
    BY <1>3 DEF Phases
  <2>5. config[job[c].phase].route # "error"
    BY <2>1, <2>3 DEF Rejected
  <2>6. CASE job[c].phase = "begin"
    BY <2>2, <2>6 DEF DInv, RouteOK
  <2>7. CASE job[c].phase = "end"
    BY <2>2, <2>4, <2>5, <2>7 DEF BindsReleases, Routes
  <2>8. CASE job[c].phase = "cancel"
    BY <2>2, <2>8 DEF BindsReleases
  <2> QED
    BY <2>2, <2>6, <2>7, <2>8
<1> QED
  BY <1>4, <1>5

\* What an execution does for who is answerable.
LEMMA ExecutedOwned ==
    ASSUME DInv, NEW c \in Clients, pc[c] = "exec", job[c] \in Events,
           IF config[job[c].phase].route = "drag"
           THEN TakesOver(job[c]) \/ GivesUp(job[c]) \/ LeavesAlone(job[c])
           ELSE state' = state,
           pc' = [pc EXCEPT ![c] = "done"],
           UNCHANGED <<job, tracked, closing, config>>
    PROVE  Owned'
<1> USE DEF TakesOver, GivesUp, LeavesAlone
<1>1. pc'[c] = "done" /\ \A d \in Clients \ {c} : pc'[d] = pc[d]
  BY TaskTypes
<1>2. CASE config[job[c].phase].route = "drag" /\ TakesOver(job[c])
  <2>1. ~closing[c]
    BY <1>2, TaskTypes, CancelType, EventAssumption
  <2>2. /\ pc'[c] # "closed" /\ ~closing'[c]
        /\ job'[c] \in Events /\ job'[c].phase = "begin" /\ job'[c].stream = state'.stream
    BY <1>1, <1>2, <2>1
  <2> QED
    BY <1>1, <2>2 DEF Owned, Owner
<1>3. CASE config[job[c].phase].route = "drag" /\ GivesUp(job[c])
  BY <1>3 DEF Owned, Idle
<1>4. ASSUME \/ config[job[c].phase].route # "drag" /\ state' = state
             \/ config[job[c].phase].route = "drag" /\ LeavesAlone(job[c]),
             BindsReleases(config), state.stream # NoStream
      PROVE  \E d \in Clients : Owner(d, state.stream)'
  <2>0. UNCHANGED state.stream
    BY <1>4
  <2>1. PICK d \in Clients : Owner(d, state.stream)
    BY <1>4 DEF DInv, Owned
  <2>2. CASE d # c
    <3>1. Remembered(d)' = Remembered(d)
      BY DEF Remembered, Rejected
    <3> QED
      BY <1>1, <2>0, <2>1, <2>2, <3>1 DEF Owner
  <2>3. CASE d = c
    <3>1. StreamOf(tracked[c]) = state.stream
      BY <2>1, <2>3 DEF Owner
    <3>2. job[c].phase = "begin" => job[c].stream # NoStream /\ job[c].motion # "malformed"
      BY EventAssumption, TaskTypes DEF GoodLines
    <3>3. ~closing[c] /\ StreamOf(Remembered(c)) = state.stream
      BY <1>4, <3>1, <3>2, ForgettingReaches
    <3>4. Remembered(c)' = Remembered(c)
      BY DEF Remembered, Rejected
    <3> QED
      BY <1>1, <2>0, <3>1, <3>3, <3>4 DEF Owner
  <2> QED
    BY <2>2, <2>3
<1>5. CASE \/ config[job[c].phase].route # "drag" /\ state' = state
           \/ config[job[c].phase].route = "drag" /\ LeavesAlone(job[c])
  <2>1. state'.stream = state.stream
    BY <1>5
  <2> QED
    BY <1>4, <1>5, <2>1 DEF Owned
<1> QED
  BY <1>2, <1>3, <1>5

\* What an execution does to the provider, whatever its phase is bound to.
LEMMA ExecuteJobEffect ==
    ASSUME DInv, NEW c \in Clients, ExecuteJob(c)
    PROVE  /\ job[c] \in Events
           /\ Inv' /\ LastOK'
           /\ IF config[job[c].phase].route = "drag"
              THEN TakesOver(job[c]) \/ GivesUp(job[c]) \/ LeavesAlone(job[c])
              ELSE UNCHANGED pvars
<1> DEFINE bound == config[job[c].phase]
<1>1. job[c] \in Events
  BY TaskTypes DEF ExecuteJob, GoodLines, Lines
<1>2. job[c].phase \in Phases
  BY <1>1 DEF Events
<1>3. bound.button \in Buttons
  BY <1>2, ConfigAssumption DEF DInv, TypeOK
<1>4. CASE bound.route = "drag"
  <2>1. ExecuteDrag(job[c], bound.button)
    BY <1>4 DEF ExecuteJob
  <2> HIDE DEF bound
  <2>2. /\ TakesOver(job[c]) \/ GivesUp(job[c]) \/ LeavesAlone(job[c])
        /\ Inv' /\ LastOK'
    BY <1>1, <1>3, <2>1, DragEffect DEF DInv, Inv, TypeOK
  <2> QED
    BY <1>1, <1>4, <2>2 DEF bound
<1>5. CASE bound.route # "drag"
  <2>1. UNCHANGED pvars
    BY <1>5 DEF ExecuteJob
  <2>2. Inv' /\ LastOK'
    BY <2>1 DEF DInv, TypeOK, Inv, PTypeOK, ButtonsFollowState, LastOK, pvars
  <2> QED
    BY <1>1, <1>5, <2>1, <2>2
<1> QED
  BY <1>4, <1>5

LEMMA ExecuteJobKeeps ==
    ASSUME DInv, NEW c \in Clients, ExecuteJob(c)
    PROVE  DInv'
<1>0. /\ pc' = [pc EXCEPT ![c] = "done"] /\ pc[c] = "exec"
      /\ held' = held \cup ({state'.stream} \ {NoStream})
      /\ UNCHANGED <<clientVars, inbox, job, tracked, closing, configVars, running>>
  BY DEF ExecuteJob, Goto
<1>1. /\ job[c] \in Events
      /\ Inv' /\ LastOK'
      /\ IF config[job[c].phase].route = "drag"
         THEN TakesOver(job[c]) \/ GivesUp(job[c]) \/ LeavesAlone(job[c])
         ELSE UNCHANGED pvars
  BY ExecuteJobEffect
<1>2. Owned'
  <2>1. config[job[c].phase].route # "drag" => state' = state
    BY <1>1 DEF pvars
  <2> QED
    BY <1>0, <1>1, <2>1, ExecutedOwned DEF configVars
<1>3. TypeOK'
  <2>1. PTypeOK' /\ pc' \in [Clients -> Steps]
    BY <1>0, <1>1, TaskTypes DEF Inv, Steps
  <2>2. \A d \in Clients : closing'[d] =>
           /\ pc'[d] \in {"lock", "exec", "done", "closed"}
           /\ pc'[d] # "closed" => job'[d] = CancelOf(tracked'[d])
    BY <1>0, TaskTypes
  <2>3. held' \subseteq Streams
    BY <1>0, <2>1 DEF DInv, TypeOK, PTypeOK, DragState
  <2> QED
    BY <1>0, <2>1, <2>2, <2>3 DEF TypeOK, DInv, clientVars, configVars
<1>4. LinesOK'
  BY <1>0, TaskTypes DEF LinesOK
<1>5. RouteOK'
  BY <1>0, <1>1 DEF DInv, RouteOK, TakesOver, GivesUp, LeavesAlone, Idle, configVars, pvars
<1> QED
  BY <1>1, <1>2, <1>3, <1>4, <1>5 DEF DInv, Inv

LEMMA ConnectionKeeps ==
    ASSUME DInv, NEW c \in Clients, Connection(c)
    PROVE  DInv'
<1>1. CASE EndOfStream(c)
  BY <1>1, LeaveLoopKeeps DEF EndOfStream
<1>2. CASE WriteFails(c)
  BY <1>2, LeaveLoopKeeps DEF WriteFails
<1>3. CASE ReadFails(c)
  BY <1>3, LeaveLoopKeeps DEF ReadFails
<1> QED
  BY <1>1, <1>2, <1>3, ReadLineKeeps, TakeReadLockKeeps, ExecuteJobKeeps, FinishJobKeeps,
     WriteAnswerKeeps DEF Connection

-----------------------------------------------------------------------------
LEMMA QueueReloadKeeps ==
    ASSUME DInv, QueueReload
    PROVE  DInv'
<1> USE DEF QueueReload, DInv, pvars, clientVars, taskVars
<1>1. reloads' \in 0 .. MaxReloads
  BY ReloadAssumption DEF TypeOK
<1>2. TypeOK'
  BY <1>1 DEF TypeOK, PTypeOK
<1>3. LinesOK' /\ ButtonsFollowState' /\ LastOK' /\ RouteOK'
  BY DEF LinesOK, ButtonsFollowState, LastOK, RouteOK
<1>4. Owned'
  BY DEF Owned, Owner, Remembered, Rejected
<1> QED
  BY <1>2, <1>3, <1>4

LEMMA InstallReloadKeeps ==
    ASSUME DInv, InstallReload
    PROVE  DInv'
<1> USE DEF InstallReload, DInv, clientVars, taskVars
<1>1. state' = Idle /\ Inv'
  BY InvStep DEF ReplaceProvider, PNext, TypeOK, Inv
<1>2. TypeOK'
  BY <1>1 DEF TypeOK, Inv
<1>3. LinesOK'
  BY DEF LinesOK
<1>4. ButtonsFollowState' /\ LastOK' /\ RouteOK' /\ Owned'
  BY <1>1 DEF Inv, LastOK, RouteOK, Owned, Idle
<1> QED
  BY <1>2, <1>3, <1>4

LEMMA NothingOwnedChanges ==
    ASSUME DInv, running' \in BOOLEAN,
           UNCHANGED <<pvars, clientVars, inbox, taskVars, configVars, held>>
    PROVE  DInv'
<1> USE DEF DInv, pvars, clientVars, taskVars, configVars
<1>1. TypeOK' /\ LinesOK'
  BY DEF TypeOK, PTypeOK, LinesOK
<1>2. ButtonsFollowState' /\ LastOK' /\ RouteOK'
  BY DEF ButtonsFollowState, LastOK, RouteOK
<1>3. Owned'
  BY DEF Owned, Owner, Remembered, Rejected
<1> QED
  BY <1>1, <1>2, <1>3

LEMMA DInvStep == DInv /\ [Next]_vars => DInv'
<1> SUFFICES ASSUME DInv, [Next]_vars PROVE DInv'
  OBVIOUS
<1>1. ASSUME NEW c \in Clients, Client(c) \/ Connection(c) \/ ChildExits(c)
      PROVE  DInv'
  BY <1>1, ClientKeeps, ConnectionKeeps, ChildExitsKeeps
<1>2. CASE QueueReload
  BY <1>2, QueueReloadKeeps
<1>3. CASE InstallReload
  BY <1>3, InstallReloadKeeps
<1>4. CASE Shutdown
  <2>1. running' \in BOOLEAN
    BY <1>4, Zenon DEF Shutdown
  <2> QED
    BY <1>4, <2>1, NothingOwnedChanges DEF Shutdown
<1>5. CASE UNCHANGED vars
  <2>1. running' \in BOOLEAN
    BY <1>5 DEF vars, DInv, TypeOK
  <2> QED
    BY <1>5, <2>1, NothingOwnedChanges DEF vars
<1> QED
  BY <1>1, <1>2, <1>3, <1>4, <1>5 DEF Next

LEMMA DInvAlways == Spec => []DInv
  BY DInvInit, DInvStep, PTL DEF Spec

-----------------------------------------------------------------------------
\* The daemon's variables are well formed: a connection that has left its loop
\* works on the cancel of the drag it tracked and on nothing else.
THEOREM DaemonTypeCorrect == Spec => []TypeOK
<1>1. DInv => TypeOK
  BY DEF DInv
<1> QED
  BY <1>1, DInvAlways, PTL

\* The provider of the daemon knows what it holds pressed, reloads included.
THEOREM DaemonHoldsWhatIsDown == Spec => []ButtonsFollowState
<1>1. DInv => ButtonsFollowState
  BY DEF DInv
<1> QED
  BY <1>1, DInvAlways, PTL

\* However many clients there are and whatever is refused, reloaded or lost, a
\* drag the provider holds a button for belongs to a connection that will
\* cancel it (track_client_drag, cancel_client_drag).
THEOREM NoDragIsOrphaned == Spec => []DragOwned
<1>1. ASSUME NEW c \in Clients, NEW s, Owner(c, s)
      PROVE  Answers(c, s)
  BY <1>1 DEF Owner, Answers, StreamOf
<1>2. DInv => DragOwned
  BY <1>1 DEF DInv, Owned, DragOwned
<1> QED
  BY <1>2, DInvAlways, PTL

\* A step other than an execution or an installed reload leaves the provider
\* and the configuration as they are.
LEMMA OthersLeaveAlone ==
    ASSUME DInv, [Next]_vars,
           ~(pending # NoConfig /\ pending' = NoConfig /\ InstallReload),
           \A c \in Clients : ~ExecuteJob(c)
    PROVE  UNCHANGED <<pvars, config>>
<1>1. ASSUME NEW c \in Clients, Client(c) PROVE UNCHANGED <<pvars, config>>
  BY <1>1 DEF Client, ClientBegin, ClientUpdate, ClientEnd, ClientTask, ClientGivesUp,
     ClientGoes, configVars
<1>2. ASSUME NEW c \in Clients, Connection(c) PROVE UNCHANGED <<pvars, config>>
  BY <1>2 DEF Connection, ReadLine, EndOfStream, ReadFails, WriteFails, LeaveLoop, TakeReadLock,
     FinishJob, WriteAnswer, configVars
<1>3. ASSUME NEW c \in Clients, ChildExits(c) PROVE UNCHANGED <<pvars, config>>
  BY <1>3 DEF ChildExits, configVars
<1>4. ~InstallReload
  BY DEF InstallReload
<1> QED
  BY <1>1, <1>2, <1>3, <1>4 DEF Next, vars, QueueReload, Shutdown, configVars

\* A late cancel, or the cleanup of a dead connection, never ends the drag of
\* another client.
THEOREM OthersNeverEndADrag == Spec => OnlyOwnEventsEndADrag
<1>1. ASSUME DInv, [Next]_vars, NEW s \in Streams,
             state.stream = s, state'.stream = NoStream
      PROVE  \/ faults' > faults
             \/ pending # NoConfig /\ pending' = NoConfig
             \/ \E c \in Clients :
                   /\ pc[c] = "exec" /\ pc'[c] = "done"
                   /\ StreamOf(job[c]) = s
                   /\ job[c].phase \in {"end", "cancel"}
  <2>1. state.stream # NoStream
    BY <1>1, NoneAssumption
  <2>2. CASE pending # NoConfig /\ pending' = NoConfig
    BY <2>2
  <2>3. CASE \E c \in Clients : ExecuteJob(c)
    <3>1. PICK c \in Clients : ExecuteJob(c)
      BY <2>3
    <3>2. /\ job[c] \in Events
          /\ IF config[job[c].phase].route = "drag"
             THEN TakesOver(job[c]) \/ GivesUp(job[c]) \/ LeavesAlone(job[c])
             ELSE UNCHANGED pvars
      BY <1>1, <3>1, ExecuteJobEffect
    <3>3. ~UNCHANGED pvars
      BY <1>1, <2>1 DEF pvars
    <3>4. TakesOver(job[c]) \/ GivesUp(job[c]) \/ LeavesAlone(job[c])
      BY <3>2, <3>3
    <3>5. GivesUp(job[c])
      BY <1>1, <2>1, <3>4 DEF TakesOver, LeavesAlone
    <3>6. pc[c] = "exec" /\ pc'[c] = "done" /\ StreamOf(job[c]) = job[c].stream
      BY <1>1, <3>1, <3>2, TaskTypes DEF ExecuteJob, Goto, StreamOf
    <3> QED
      BY <1>1, <3>5, <3>6 DEF GivesUp
  <2>4. CASE ~(pending # NoConfig /\ pending' = NoConfig) /\ ~\E c \in Clients : ExecuteJob(c)
    BY <1>1, <2>1, <2>4, OthersLeaveAlone DEF pvars
  <2> QED
    BY <2>2, <2>3, <2>4
<1>2. ASSUME DInv, [Next]_vars
      PROVE  \A s \in Streams :
                state.stream = s /\ state'.stream = NoStream =>
                    \/ faults' > faults
                    \/ pending # NoConfig /\ pending' = NoConfig
                    \/ \E c \in Clients :
                          /\ pc[c] = "exec" /\ pc'[c] = "done"
                          /\ StreamOf(job[c]) = s
                          /\ job[c].phase \in {"end", "cancel"}
  BY <1>1, <1>2
<1> QED
  BY <1>2, DInvAlways, PTL DEF Spec, OnlyOwnEventsEndADrag

-----------------------------------------------------------------------------
(***************************************************************************)
(* A drag that lost the button stays without it: only an executed begin    *)
(* gives the button to a stream, and as each client begins under a stream  *)
(* of its own there is one begin of it under way, in an inbox or in a      *)
(* task, until it is executed, and none after that (BeginsOK).  What a     *)
(* cleanup sends is no begin.                                              *)
(***************************************************************************)
IsBegin(l, s) == l \in Events /\ l.phase = "begin" /\ l.stream = s

\* The begin of s is under way at connection c: in place i of its inbox, or,
\* for i = 0, read and not yet executed.
Begins(c, i, s) ==
    IF i = 0
    THEN pc[c] \in {"lock", "exec"} /\ IsBegin(job[c], s)
    ELSE i \in 1 .. Len(inbox[c]) /\ IsBegin(inbox[c][i], s)

BeginsOK ==
    /\ held \subseteq used
    /\ state.stream \in held \cup {NoStream}
    /\ \A s \in Streams, c \in Clients, i \in Nat :
          Begins(c, i, s) => s \in used \ held
    /\ \A s \in Streams, c, d \in Clients, i, j \in Nat :
          Begins(c, i, s) /\ Begins(d, j, s) => c = d /\ i = j

LEMMA BeginsInit == Init => BeginsOK
<1> SUFFICES ASSUME Init PROVE BeginsOK
  OBVIOUS
<1>1. \A c \in Clients : pc[c] = "read" /\ Len(inbox[c]) = 0
  BY EmptySeq DEF Init
<1>2. \A c \in Clients, i \in Nat, s \in Streams : ~Begins(c, i, s)
  BY <1>1 DEF Begins
<1> QED
  BY <1>2 DEF BeginsOK, Init, PInit, Idle

\* A step after which every begin under way was so before, where it is or, for
\* connection c, one place further back.
LEMMA BeginsAdvance ==
    ASSUME BeginsOK, NEW c \in Clients, NEW k \in {0, 1},
           held' = held, used' = used, state'.stream \in {state.stream, NoStream},
           \A d \in Clients, i \in Nat, s \in Streams :
              Begins(d, i, s)' => Begins(d, IF d = c THEN i + k ELSE i, s)
    PROVE  BeginsOK'
<1> DEFINE at(d, i) == IF d = c THEN i + k ELSE i
<1>1. \A d \in Clients, i \in Nat : at(d, i) \in Nat
  OBVIOUS
<1>2. \A d, e \in Clients, i, j \in Nat : d = e /\ at(d, i) = at(e, j) => i = j
  OBVIOUS
<1>3. \A d \in Clients, i \in Nat, s \in Streams : Begins(d, i, s)' => Begins(d, at(d, i), s)
  OBVIOUS
<1> HIDE DEF at
<1>4. ASSUME NEW s \in Streams, NEW d \in Clients, NEW i \in Nat, Begins(d, i, s)'
      PROVE  s \in used' \ held'
  BY <1>1, <1>3, <1>4 DEF BeginsOK
<1>5. ASSUME NEW s \in Streams, NEW d \in Clients, NEW e \in Clients,
             NEW i \in Nat, NEW j \in Nat, Begins(d, i, s)', Begins(e, j, s)'
      PROVE  d = e /\ i = j
  <2>1. Begins(d, at(d, i), s) /\ Begins(e, at(e, j), s)
    BY <1>3, <1>5
  <2>2. d = e /\ at(d, i) = at(e, j)
    BY <1>1, <2>1 DEF BeginsOK
  <2> QED
    BY <1>2, <2>2
<1>6. held' \subseteq used' /\ state'.stream \in held' \cup {NoStream}
  BY DEF BeginsOK
<1> QED
  BY <1>4, <1>5, <1>6 DEF BeginsOK

\* The same where every begin stays where it is.
LEMMA BeginsStay ==
    ASSUME BeginsOK,
           held' = held, used' = used, state'.stream \in {state.stream, NoStream},
           \A d \in Clients, i \in Nat, s \in Streams : Begins(d, i, s)' => Begins(d, i, s)
    PROVE  BeginsOK'
<1>1. ASSUME NEW s \in Streams, NEW d \in Clients, NEW i \in Nat, Begins(d, i, s)'
      PROVE  s \in used' \ held'
  BY <1>1 DEF BeginsOK
<1>2. ASSUME NEW s \in Streams, NEW d \in Clients, NEW e \in Clients,
             NEW i \in Nat, NEW j \in Nat, Begins(d, i, s)', Begins(e, j, s)'
      PROVE  d = e /\ i = j
  BY <1>2 DEF BeginsOK
<1>3. held' \subseteq used' /\ state'.stream \in held' \cup {NoStream}
  BY DEF BeginsOK
<1> QED
  BY <1>1, <1>2, <1>3 DEF BeginsOK

\* What a client sends: its own place in the queue, behind all others.
LEMMA SentLast ==
    ASSUME DInv, NEW c \in Clients, NEW l \in GoodLines, Send(c, l),
           UNCHANGED <<pc, job>>,
           NEW d \in Clients, NEW i \in Nat, NEW s \in Streams, Begins(d, i, s)'
    PROVE  \/ Begins(d, i, s)
           \/ d = c /\ i = Len(inbox[c]) + 1 /\ IsBegin(l, s)
<1>1. inbox[c] \in Seq(GoodLines) /\ inbox' = [inbox EXCEPT ![c] = Append(inbox[c], l)]
  BY InboxType DEF Send
<1>2. CASE i = 0
  BY <1>2 DEF Begins
<1>3. CASE i # 0 /\ d # c
  <2>1. inbox'[d] = inbox[d]
    BY <1>1, <1>3, InboxType
  <2> QED
    BY <1>3, <2>1 DEF Begins
<1>4. CASE i # 0 /\ d = c
  <2>1. inbox'[c] = Append(inbox[c], l)
    BY <1>1, InboxType
  <2>2. i \in 1 .. Len(Append(inbox[c], l)) /\ IsBegin(Append(inbox[c], l)[i], s)
    BY <1>4, <2>1 DEF Begins
  <2>3. /\ Len(Append(inbox[c], l)) = Len(inbox[c]) + 1 /\ Len(inbox[c]) \in Nat
        /\ \A n \in 1 .. Len(inbox[c]) : Append(inbox[c], l)[n] = inbox[c][n]
        /\ Append(inbox[c], l)[Len(inbox[c]) + 1] = l
    BY <1>1, AppendProperties, LenProperties
  <2>4. CASE i = Len(inbox[c]) + 1
    BY <1>4, <2>2, <2>3, <2>4
  <2>5. CASE i # Len(inbox[c]) + 1
    <3>1. i \in 1 .. Len(inbox[c])
      BY <2>2, <2>3, <2>5
    <3> QED
      BY <1>4, <2>2, <2>3, <3>1 DEF Begins
  <2> QED
    BY <2>4, <2>5
<1> QED
  BY <1>2, <1>3, <1>4

LEMMA ClientBegins ==
    ASSUME DInv, BeginsOK, NEW c \in Clients, Client(c)
    PROVE  BeginsOK'
<1>1. CASE ClientBegin(c)
  <2>1. PICK t \in Streams \ used, k \in Copies :
           /\ Send(c, Line("begin", t, "some", k))
           /\ used' = used \cup {t}
    BY <1>1 DEF ClientBegin
  <2> DEFINE l == Line("begin", t, "some", k)
  <2>2. /\ l \in GoodLines /\ \A s : IsBegin(l, s) => s = t
        /\ UNCHANGED <<pc, job, held, state>>
    BY <1>1, <2>1, LineType DEF IsBegin, Line, ClientBegin, taskVars, pvars
  <2> HIDE DEF l
  <2>3. ASSUME NEW d \in Clients, NEW i \in Nat, NEW s \in Streams, Begins(d, i, s)'
        PROVE  Begins(d, i, s) \/ (d = c /\ i = Len(inbox[c]) + 1 /\ s = t)
    BY <2>1, <2>2, <2>3, SentLast DEF l
  <2>4. held \subseteq used /\ t \notin held
    BY <2>1 DEF BeginsOK
  <2>5. ASSUME NEW s \in Streams, NEW d \in Clients, NEW i \in Nat, Begins(d, i, s)'
        PROVE  s \in used' \ held'
    BY <2>1, <2>2, <2>3, <2>4, <2>5 DEF BeginsOK
  <2>6. ASSUME NEW s \in Streams, NEW d \in Clients, NEW e \in Clients,
               NEW i \in Nat, NEW j \in Nat, Begins(d, i, s)', Begins(e, j, s)'
        PROVE  d = e /\ i = j
    <3>1. CASE s = t
      <4>1. ~Begins(d, i, s) /\ ~Begins(e, j, s)
        BY <2>1, <3>1 DEF BeginsOK
      <4> QED
        BY <2>3, <2>6, <4>1
    <3>2. CASE s # t
      <4>1. Begins(d, i, s) /\ Begins(e, j, s)
        BY <2>3, <2>6, <3>2
      <4> QED
        BY <4>1 DEF BeginsOK
    <3> QED
      BY <3>1, <3>2
  <2>7. held' \subseteq used' /\ state'.stream \in held' \cup {NoStream}
    BY <2>1, <2>2 DEF BeginsOK
  <2> QED
    BY <2>5, <2>6, <2>7 DEF BeginsOK
<1>2. CASE ClientUpdate(c) \/ ClientEnd(c) \/ ClientTask(c) \/ ClientGivesUp(c)
  <2>1. sending[c] \in Streams \/ ClientTask(c)
    BY <1>2 DEF ClientUpdate, ClientEnd, ClientGivesUp, DInv, TypeOK
  <2>2. PICK l \in GoodLines : Send(c, l) /\ \A s : ~IsBegin(l, s)
    <3>1. CASE ClientTask(c)
      BY <3>1, TaskAssumption DEF ClientTask, GoodLines, Lines, IsBegin
    <3>2. CASE ~ClientTask(c)
      <4>1. PICK ph \in {"update", "end", "cancel"}, m \in {"some", "none"}, k \in Copies :
               Send(c, Line(ph, sending[c], m, k))
        BY <1>2, <3>2 DEF ClientUpdate, ClientEnd, ClientGivesUp
      <4> QED
        BY <2>1, <3>2, <4>1, LineType DEF IsBegin, Line
    <3> QED
      BY <3>1, <3>2
  <2>3. UNCHANGED <<pc, job, held, used, state>>
    BY <1>2 DEF ClientUpdate, ClientEnd, ClientTask, ClientGivesUp, taskVars, pvars
  <2> QED
    BY <2>2, <2>3, SentLast, BeginsStay
<1>3. CASE ClientGoes(c)
  <2>1. UNCHANGED <<pc, job, inbox, held, used, state>>
    BY <1>3 DEF ClientGoes, taskVars, pvars
  <2> QED
    BY <2>1, BeginsStay DEF Begins
<1> QED
  BY <1>1, <1>2, <1>3 DEF Client

\* The line a task reads moves to the front, and its begin with it.
LEMMA ReadLineBegins ==
    ASSUME DInv, BeginsOK, NEW c \in Clients, ReadLine(c)
    PROVE  BeginsOK'
<1>1. /\ inbox[c] \in Seq(GoodLines) /\ inbox[c] # <<>>
      /\ job' = [job EXCEPT ![c] = Head(inbox[c])]
      /\ inbox' = [inbox EXCEPT ![c] = Tail(inbox[c])]
      /\ pc' = [pc EXCEPT ![c] = "lock"]
      /\ UNCHANGED <<pvars, clientVars, held>>
  BY InboxType DEF ReadLine, Goto
<1>2. /\ Len(inbox[c]) \in Nat /\ Len(inbox[c]) >= 1 /\ Head(inbox[c]) = inbox[c][1]
      /\ Len(Tail(inbox[c])) = Len(inbox[c]) - 1
      /\ \A n \in 1 .. Len(inbox[c]) - 1 : Tail(inbox[c])[n] = inbox[c][n + 1]
  BY <1>1, HeadTailProperties, EmptySeq, LenProperties
<1>3. ASSUME NEW d \in Clients, NEW i \in Nat, NEW s \in Streams, Begins(d, i, s)'
      PROVE  Begins(d, IF d = c THEN i + 1 ELSE i, s)
  <2>1. CASE d # c
    <3>1. pc'[d] = pc[d] /\ job'[d] = job[d] /\ inbox'[d] = inbox[d]
      BY <1>1, <2>1, TaskTypes
    <3> QED
      BY <1>3, <2>1, <3>1 DEF Begins
  <2>2. CASE d = c /\ i = 0
    <3>1. IsBegin(inbox[c][1], s)
      BY <1>1, <1>2, <1>3, <2>2, TaskTypes DEF Begins
    <3> QED
      BY <1>2, <2>2, <3>1 DEF Begins
  <2>3. CASE d = c /\ i # 0
    <3>1. i \in 1 .. Len(Tail(inbox[c])) /\ IsBegin(Tail(inbox[c])[i], s)
      BY <1>1, <1>3, <2>3, TaskTypes DEF Begins
    <3>2. i + 1 \in 1 .. Len(inbox[c]) /\ IsBegin(inbox[c][i + 1], s) /\ i + 1 # 0
      BY <1>2, <3>1
    <3> QED
      BY <2>3, <3>2 DEF Begins
  <2> QED
    BY <2>1, <2>2, <2>3
<1>4. held' = held /\ used' = used /\ state' = state
  BY <1>1 DEF pvars, clientVars
<1> QED
  BY <1>3, <1>4, BeginsAdvance

\* An executed begin is no longer under way, and only it gives the button to
\* a stream that does not have it.
LEMMA ExecuteJobBegins ==
    ASSUME DInv, BeginsOK, NEW c \in Clients, ExecuteJob(c)
    PROVE  /\ BeginsOK'
           /\ \/ state'.stream \in {state.stream, NoStream}
              \/ state'.stream \in Streams /\ Begins(c, 0, state'.stream)
<1>1. /\ pc' = [pc EXCEPT ![c] = "done"] /\ pc[c] = "exec"
      /\ held' = held \cup ({state'.stream} \ {NoStream})
      /\ UNCHANGED <<inbox, job, used>>
  BY DEF ExecuteJob, Goto, clientVars
<1>2. ASSUME NEW d \in Clients, NEW i \in Nat, NEW s \in Streams, Begins(d, i, s)'
      PROVE  Begins(d, i, s) /\ ~(d = c /\ i = 0)
  BY <1>1, <1>2, TaskTypes DEF Begins
<1>3. \/ state'.stream \in {state.stream, NoStream}
      \/ state'.stream \in Streams /\ Begins(c, 0, state'.stream)
  <2>1. /\ job[c] \in Events
        /\ \/ TakesOver(job[c]) \/ GivesUp(job[c]) \/ LeavesAlone(job[c])
           \/ UNCHANGED pvars
    BY ExecuteJobEffect
  <2>2. CASE TakesOver(job[c])
    <3>1. state'.stream = job[c].stream /\ job[c].stream \in Streams /\ job[c].phase = "begin"
      BY <2>1, <2>2 DEF TakesOver, Events
    <3> QED
      BY <1>1, <2>1, <3>1 DEF Begins, IsBegin
  <2> QED
    BY <2>1, <2>2 DEF GivesUp, LeavesAlone, Idle, pvars
<1>4. ASSUME NEW s \in Streams, NEW d \in Clients, NEW i \in Nat, Begins(d, i, s)'
      PROVE  s \in used' \ held'
  <2>1. Begins(d, i, s) /\ ~(d = c /\ i = 0)
    BY <1>2, <1>4
  <2>2. s \in used \ held
    BY <2>1 DEF BeginsOK
  <2>3. ASSUME state'.stream = s PROVE FALSE
    <3>1. state.stream # s /\ s # NoStream
      BY <2>2, NoneAssumption DEF BeginsOK
    <3>2. Begins(c, 0, s)
      BY <1>3, <2>3, <3>1
    <3> QED
      BY <2>1, <3>2 DEF BeginsOK
  <2> QED
    BY <1>1, <2>2, <2>3
<1>5. ASSUME NEW s \in Streams, NEW d \in Clients, NEW e \in Clients,
             NEW i \in Nat, NEW j \in Nat, Begins(d, i, s)', Begins(e, j, s)'
      PROVE  d = e /\ i = j
  BY <1>2, <1>5 DEF BeginsOK
<1>6. state'.stream \in used' \cup {NoStream}
  BY <1>1, <1>3 DEF BeginsOK
<1>7. held' \subseteq used' /\ state'.stream \in held' \cup {NoStream}
  BY <1>1, <1>6 DEF BeginsOK
<1> QED
  BY <1>3, <1>4, <1>5, <1>7 DEF BeginsOK

\* No other step of a connection adds a begin: a cleanup is a cancel.
LEMMA ConnectionBegins ==
    ASSUME DInv, BeginsOK, NEW c \in Clients,
           Connection(c) \/ ChildExits(c), ~ExecuteJob(c)
    PROVE  BeginsOK'
<1>1. CASE ReadLine(c)
  BY <1>1, ReadLineBegins
<1>2. CASE EndOfStream(c) \/ ReadFails(c) \/ WriteFails(c)
  <2>1. LeaveLoop(c)
    BY <1>2 DEF EndOfStream, ReadFails, WriteFails
  <2>2. /\ inbox' = [inbox EXCEPT ![c] = <<>>]
        /\ UNCHANGED <<held, used, state>>
        /\ \A d \in Clients \ {c} : pc'[d] = pc[d] /\ job'[d] = job[d]
        /\ pc'[c] = "closed" \/ (tracked[c] # NoEvent /\ job'[c] = CancelOf(tracked[c]))
    BY <2>1, TaskTypes DEF LeaveLoop, Goto, pvars, clientVars
  <2>3. \A s \in Streams : ~Begins(c, 0, s)'
    BY <2>2, TaskTypes, CancelType DEF Begins, IsBegin
  <2>4. inbox'[c] = <<>> /\ \A d \in Clients \ {c} : inbox'[d] = inbox[d]
    BY <2>2, InboxType
  <2>5. ASSUME NEW d \in Clients, NEW i \in Nat, NEW s \in Streams, Begins(d, i, s)'
        PROVE  Begins(d, i, s)
    <3>1. CASE d = c
      BY <2>3, <2>4, <2>5, <3>1, EmptySeq DEF Begins
    <3>2. CASE d # c
      BY <2>2, <2>4, <2>5, <3>2 DEF Begins
    <3> QED
      BY <3>1, <3>2
  <2> QED
    BY <2>2, <2>5, BeginsStay
<1>3. CASE TakeReadLock(c) \/ WriteAnswer(c) \/ FinishJob(c) \/ ChildExits(c)
  <2>1. /\ UNCHANGED <<inbox, held, used, state>>
        /\ \A d \in Clients \ {c} : pc'[d] = pc[d] /\ job'[d] = job[d]
        /\ \/ pc[c] = "lock" /\ job'[c] = job[c]
           \/ pc'[c] \notin {"lock", "exec"}
    BY <1>3, TaskTypes
    DEF TakeReadLock, WriteAnswer, FinishJob, ChildExits, Goto, pvars, clientVars
  <2>2. ASSUME NEW d \in Clients, NEW i \in Nat, NEW s \in Streams, Begins(d, i, s)'
        PROVE  Begins(d, i, s)
    BY <2>1, <2>2 DEF Begins
  <2> QED
    BY <2>1, <2>2, BeginsStay
<1> QED
  BY <1>1, <1>2, <1>3 DEF Connection

\* One step: begins stay unique, and a stream is given the button at most once.
LEMMA BeginsStep ==
    ASSUME DInv, BeginsOK, [Next]_vars
    PROVE  /\ BeginsOK'
           /\ \A s \in held : state'.stream = s => state.stream = s
<1>1. CASE \E c \in Clients : ExecuteJob(c)
  <2>1. PICK c \in Clients : ExecuteJob(c)
    BY <1>1
  <2>2. held \subseteq Streams
    BY DEF DInv, TypeOK
  <2> QED
    BY <2>1, <2>2, ExecuteJobBegins, NoneAssumption DEF BeginsOK
<1>2. CASE ~\E c \in Clients : ExecuteJob(c)
  <2>1. BeginsOK'
    <3>1. ASSUME NEW c \in Clients, Client(c) \/ Connection(c) \/ ChildExits(c)
          PROVE  BeginsOK'
      BY <1>2, <3>1, ClientBegins, ConnectionBegins
    <3>2. CASE QueueReload \/ InstallReload \/ Shutdown \/ UNCHANGED vars
      <4>1. /\ UNCHANGED <<pc, job, inbox, used, held>>
            /\ state'.stream \in {state.stream, NoStream}
        BY <3>2 DEF QueueReload, InstallReload, ReplaceProvider, Shutdown, Idle,
           vars, pvars, clientVars, taskVars
      <4> QED
        BY <4>1, BeginsStay DEF Begins
    <3> QED
      BY <3>1, <3>2 DEF Next
  <2>2. state' = state \/ state' = Idle
    <3>1. CASE InstallReload
      BY <3>1 DEF InstallReload, ReplaceProvider
    <3>2. CASE ~InstallReload
      BY <1>2, <3>2, OthersLeaveAlone DEF pvars
    <3> QED
      BY <3>1, <3>2
  <2>3. held \subseteq Streams
    BY DEF DInv, TypeOK
  <2> QED
    BY <2>1, <2>2, <2>3, NoneAssumption DEF Idle
<1> QED
  BY <1>1, <1>2

\* Whatever takes the button from a stream, an update still under way, a line
\* queued before or the cleanup of a connection does not give it back.
THEOREM LostDragsAreOver == Spec => LostDragsStayLost
<1>1. DInv /\ BeginsOK /\ [Next]_vars => BeginsOK'
  BY BeginsStep
<1>2. DInv /\ BeginsOK /\ [Next]_vars =>
         \A s \in held : state'.stream = s => state.stream = s
  BY BeginsStep
<1> QED
  BY <1>1, <1>2, BeginsInit, DInvAlways, PTL DEF Spec, LostDragsStayLost
=============================================================================
