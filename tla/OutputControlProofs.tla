------------------------ MODULE OutputControlProofs -------------------------
(***************************************************************************)
(* Theorems about OutputControl, for any number of outputs, any widths,    *)
(* periods, speeds, frames and goals.                                      *)
(***************************************************************************)
EXTENDS OutputControl, TLAPS

-----------------------------------------------------------------------------
(* Arithmetic *)

\* A conversion to the width of a position yields a position.
LEMMA Int16Range == \A x \in Int : Int16(x) \in Value
<1> SUFFICES ASSUME NEW x \in Int PROVE Int16(x) \in Value
  OBVIOUS
<1> DEFINE m == 2 * One
<1>1. One \in Nat \ {0} /\ m \in Nat \ {0}
  BY WidthAssumption
<1>2. (x + One) % m \in 0..(m - 1)
  <2> HIDE DEF m
  <2> QED BY <1>1
<1> QED BY <1>1, <1>2 DEF Int16, Value

\* A position in a frame's move is a position, whatever the clock says.
LEMMA InterpolateRange ==
  ASSUME NEW from \in Value, NEW to \in Value, NEW t \in Clock,
         NEW total \in Clock, total > 0
  PROVE  Interpolate(from, to, t, total) \in Value
<1>1. One \in Nat \ {0} /\ ClockModulus \in Nat \ {0}
  BY WidthAssumption
<1>2. from \in Int /\ to \in Int /\ t \in Int /\ total \in Nat \ {0}
  BY <1>1 DEF Value, Clock
<1>3. Half(from) \in Int /\ Half(to) \in Int
  BY <1>2 DEF Half
<1>4. RC_VALUE_MAX * t \in Int
  BY <1>1, <1>2 DEF RC_VALUE_MAX
<1>5. (RC_VALUE_MAX * t) % ClockModulus \in Int
  BY <1>1, <1>4
<1>6. Elapsed(t, total) \in Int
  BY <1>2, <1>5 DEF Elapsed
<1>7. Int16(Elapsed(t, total)) \in Int
  BY <1>1, <1>6, Int16Range DEF Value
<1>8. ASSUME NEW a \in Int, NEW b \in Int PROVE Dsp16Mul(a, b) \in Int
  <2>1. a * b \in Int
    OBVIOUS
  <2> QED BY <1>1, <2>1 DEF Dsp16Mul
<1>9. Dsp16Mul(Half(to) - Half(from), Int16(Elapsed(t, total))) \in Int
  <2>1. Half(to) - Half(from) \in Int
    BY <1>3
  <2> QED BY <1>7, <1>8, <2>1
<1> QED BY <1>2, <1>9, Int16Range DEF Interpolate

\* A step of the speed limit stays in range and within the speed.
LEMMA SpeedLimitRange ==
  ASSUME NEW o \in Output, NEW goal \in Value, outputs[o].value \in Value
  PROVE  /\ SpeedLimit(o, goal) \in Value
         /\ MaxSpeed[o] > 0 =>
               Distance(SpeedLimit(o, goal), outputs[o].value)
                   <= SPEED_COEF * MaxSpeed[o]
<1> DEFINE current == outputs[o].value
           step == SPEED_COEF * MaxSpeed[o]
<1>1. One \in Nat \ {0} /\ SPEED_COEF \in Nat /\ MaxSpeed[o] \in Nat
  BY WidthAssumption, CommandAssumption
<1>2. step \in Nat
  BY <1>1
<1>3. current \in Value
  OBVIOUS
<1> HIDE DEF current, step
<1>4. SpeedLimit(o, goal) =
        IF MaxSpeed[o] = 0 THEN goal
        ELSE IF current < goal THEN Smaller(current + step, goal)
        ELSE Greater(current - step, goal)
  BY DEF SpeedLimit, current, step
<1>5. SpeedLimit(o, goal) \in Value
  BY <1>1, <1>2, <1>3, <1>4 DEF Value, Smaller, Greater
<1>6. ASSUME MaxSpeed[o] > 0
      PROVE  Distance(SpeedLimit(o, goal), current) <= step
  BY <1>1, <1>2, <1>3, <1>4, <1>6 DEF Value, Smaller, Greater, Distance
<1> QED BY <1>5, <1>6 DEF current, step

-----------------------------------------------------------------------------
(* The inductive invariant *)

\* The packet a handler is reading is of the kind it takes.
PacketOK ==
    /\ comm_pc = "goals" => packet \in GoalPackets
    /\ comm_pc \in {"times", "previous", "active_bm", "position"} =>
          packet \in Frames
    /\ comm_pc \in {"times", "previous", "active_bm", "position"} =>
          ind \in Output

\* The mutex is held from the first goal of a packet to the last.
GoalsLocked ==
    /\ api_mutex <=> comm_pc = "goals"
    /\ ~api_mutex => goals = whole

IInv == TypeOK /\ PacketOK /\ GoalsLocked

\* There is an output 0.
LEMMA ZeroIsOutput == 0 \in Output /\ MAX_OUT_NB \in Nat \ {0}
  BY OutputAssumption DEF Output

\* The invariant holds at start-up (core.c:333-346).
LEMMA InitIInv == Init => IInv
<1> SUFFICES ASSUME Init PROVE IInv
  OBVIOUS
<1>1. One \in Nat \ {0} /\ ClockModulus \in Nat \ {0} /\ Period \in Nat
        /\ MaxCommands \in Nat
  BY WidthAssumption
<1>2. 0 \in Value /\ 0 \in Clock
  BY <1>1 DEF Value, Clock
<1>3. TypeOK
  BY <1>1, <1>2, ZeroIsOutput DEF Init, TypeOK
<1>4. PacketOK
  BY DEF Init, PacketOK
<1>5. GoalsLocked
  BY DEF Init, GoalsLocked
<1> QED BY <1>3, <1>4, <1>5 DEF IInv

\* What a run of the core task computes for an output is in range.
LEMMA NewOutputRange ==
  ASSUME TypeOK, NEW o \in Output
  PROVE  /\ NewOutput(o) \in [value : Value, active : BOOLEAN]
         /\ MaxSpeed[o] > 0 =>
               Distance(NewOutput(o).value, outputs[o].value)
                   <= SPEED_COEF * MaxSpeed[o]
<1>1. outputs[o] \in [value : Value, active : BOOLEAN]
  BY DEF TypeOK
<1>2. next[o] \in Value /\ previous[o] \in Value /\ goals[o] \in Value
  BY DEF TypeOK
<1>3. age \in Clock /\ duration \in Clock
  BY DEF TypeOK
<1>4. FramePosition(o) \in Value
  <2>1. CASE age >= duration
    BY <1>2, <2>1 DEF FramePosition
  <2>2. CASE ~(age >= duration)
    <3>1. age \in Nat /\ duration \in Nat
      BY <1>3, WidthAssumption DEF Clock
    <3>2. duration > 0
      BY <2>2, <3>1
    <3> QED BY <1>2, <1>3, <2>2, <3>2, InterpolateRange DEF FramePosition
  <2> QED BY <2>1, <2>2
<1>5. Commanded(o) \in Value
  BY <1>2, <1>4 DEF Commanded
<1>6. CASE o \in active_bm \union controlled_bm
  <2>1. NewOutput(o) = [value |-> SpeedLimit(o, Commanded(o)),
                        active |-> TRUE]
    BY <1>6 DEF NewOutput
  <2>2. outputs[o].value \in Value
    BY <1>1
  <2> QED BY <1>5, <2>1, <2>2, SpeedLimitRange
<1>7. CASE o \notin active_bm \union controlled_bm
  <2>1. NewOutput(o) = [outputs[o] EXCEPT !.active = FALSE]
    BY <1>7 DEF NewOutput
  <2>2. NewOutput(o).value = outputs[o].value
    BY <1>1, <2>1
  <2>3. MaxSpeed[o] \in Nat /\ SPEED_COEF \in Nat
    BY WidthAssumption, CommandAssumption
  <2>4. SPEED_COEF * MaxSpeed[o] >= 0
    BY <2>3
  <2>5. outputs[o].value \in Int
    BY <1>1, WidthAssumption DEF Value
  <2>6. Distance(outputs[o].value, outputs[o].value) = 0
    BY <2>5 DEF Distance
  <2>7. NewOutput(o) \in [value : Value, active : BOOLEAN]
    BY <1>1, <2>1
  <2> QED BY <2>2, <2>4, <2>6, <2>7
<1> QED BY <1>6, <1>7

\* Writing one component of a table of positions.
LEMMA WritePosition ==
  ASSUME NEW f \in [Output -> Value], NEW i \in Output, NEW v \in Value
  PROVE  [f EXCEPT ![i] = v] \in [Output -> Value]
  OBVIOUS

\* The position a handler reads next.
LEMMA NextInd ==
  ASSUME NEW i \in Output
  PROVE  /\ i + 1 \in 0..MAX_OUT_NB
         /\ i + 1 < MAX_OUT_NB => i + 1 \in Output
  BY OutputAssumption DEF Output

\* Every step of the two tasks and of the clock keeps the invariant.
LEMMA StepIInv == IInv /\ [Next]_vars => IInv'
<1> SUFFICES ASSUME IInv, [Next]_vars PROVE IInv'
  OBVIOUS
<1> USE DEF IInv
<1>0. 0 \in Output /\ 0 \in 0..MAX_OUT_NB
  BY ZeroIsOutput
<1>1. CASE CoreRun
  <2>1. \A o \in Output : NewOutput(o) \in [value : Value, active : BOOLEAN]
    BY NewOutputRange
  <2>2. outputs' \in [Output -> [value : Value, active : BOOLEAN]]
    BY <1>1, <2>1 DEF CoreRun
  <2>3. phase' \in 0..Period /\ torn' \in BOOLEAN
    BY <1>1, WidthAssumption DEF CoreRun, TypeOK
  <2>4. UNCHANGED <<control, age, frame, comm>>
    BY <1>1 DEF CoreRun
  <2>5. TypeOK'
    BY <2>2, <2>3, <2>4 DEF TypeOK, control, frame, comm
  <2>6. PacketOK' /\ GoalsLocked'
    BY <2>4 DEF PacketOK, GoalsLocked, control, comm
  <2> QED BY <2>5, <2>6
<1>2. CASE Tick
  <2>1. phase' \in 0..Period
    BY <1>2, WidthAssumption DEF Tick, Due, TypeOK
  <2>2. age' \in Clock
    <3>1. age \in Nat /\ ClockModulus \in Nat \ {0}
      BY WidthAssumption DEF TypeOK, Clock
    <3>2. (age + 1) % ClockModulus \in Clock
      BY <3>1 DEF Clock
    <3> QED BY <1>2, <3>2 DEF Tick, TypeOK
  <2>3. UNCHANGED <<outputs, control, frame, comm, torn>>
    BY <1>2 DEF Tick
  <2>4. TypeOK'
    BY <2>1, <2>2, <2>3 DEF TypeOK, control, frame, comm
  <2>5. PacketOK' /\ GoalsLocked'
    BY <2>3 DEF PacketOK, GoalsLocked, control, comm
  <2> QED BY <2>4, <2>5
<1>3. CASE WriteGoal
  <2>1. packet \in GoalPackets /\ ind \in Output
    BY <1>3 DEF WriteGoal, PacketOK
  <2>2. ind \in DOMAIN packet => packet[ind] \in Value
    BY <2>1, CommandAssumption
  <2>3. goals' \in [Output -> Value]
    BY <1>3, <2>1, <2>2, WritePosition DEF WriteGoal, TypeOK
  <2>4. ind' \in 0..MAX_OUT_NB
    BY <1>3, <2>1, NextInd DEF WriteGoal
  <2>5. UNCHANGED <<phase, outputs, controlled_bm, api_mutex, whole, age,
                    frame, comm_pc, packet, commands, torn>>
    BY <1>3 DEF WriteGoal
  <2>6. TypeOK'
    BY <2>3, <2>4, <2>5 DEF TypeOK, frame
  <2>7. comm_pc = "goals" /\ api_mutex
    BY <1>3 DEF WriteGoal, GoalsLocked
  <2>8. PacketOK' /\ GoalsLocked'
    BY <2>5, <2>7 DEF PacketOK, GoalsLocked
  <2> QED BY <2>6, <2>8
<1>4. CASE GoalsWritten
  <2>1. /\ ~api_mutex' /\ whole' = goals /\ goals' = goals
        /\ comm_pc' = "idle" /\ ind' = 0
    BY <1>4 DEF GoalsWritten, HandlerEnds
  <2>2. UNCHANGED <<phase, outputs, controlled_bm, age, frame, commands,
                    torn>>
    BY <1>4 DEF GoalsWritten
  <2>3. api_mutex' \in BOOLEAN
    BY <1>4 DEF GoalsWritten
  <2>4. TypeOK'
    BY <1>0, <2>1, <2>2, <2>3 DEF TypeOK, frame
  <2>5. PacketOK' /\ GoalsLocked'
    BY <2>1 DEF PacketOK, GoalsLocked
  <2> QED BY <2>4, <2>5
<1>5. CASE LoadDuration
  <2>1. packet \in Frames /\ ind \in Output
    BY <1>5 DEF LoadDuration, PacketOK
  <2>2. packet.duration \in Clock
    BY <2>1, CommandAssumption DEF Frame
  <2>3. /\ duration' = packet.duration /\ comm_pc' = "previous"
        /\ UNCHANGED <<phase, outputs, control, age, previous, active_bm,
                       next, packet, ind, commands, torn>>
    BY <1>5 DEF LoadDuration
  <2>4. TypeOK'
    BY <2>2, <2>3 DEF TypeOK, control
  <2>5. ~api_mutex
    BY <1>5 DEF LoadDuration, GoalsLocked
  <2>6. PacketOK' /\ GoalsLocked'
    BY <2>1, <2>3, <2>5 DEF PacketOK, GoalsLocked, control
  <2> QED BY <2>4, <2>6
<1>6. CASE LoadPrevious
  <2>1. packet \in Frames /\ ind \in Output /\ ~api_mutex
    BY <1>6 DEF LoadPrevious, PacketOK, GoalsLocked
  <2>2. outputs[ind].value \in Value
    BY <2>1 DEF TypeOK
  <2>3. previous' \in [Output -> Value]
    BY <1>6, <2>1, <2>2, WritePosition DEF LoadPrevious, TypeOK
  <2>4. ind' \in Output /\ ind' \in 0..MAX_OUT_NB
    BY <1>0, <1>6, <2>1, NextInd DEF LoadPrevious
  <2>5. comm_pc' \in {"previous", "active_bm"}
    BY <1>6 DEF LoadPrevious
  <2>6. UNCHANGED <<phase, outputs, control, age, duration, active_bm, next,
                    packet, commands, torn>>
    BY <1>6 DEF LoadPrevious
  <2>7. TypeOK'
    BY <2>3, <2>4, <2>5, <2>6 DEF TypeOK, control
  <2>8. GoalsLocked'
    BY <2>1, <2>5, <2>6 DEF GoalsLocked, control
  <2>9. PacketOK'
    BY <2>1, <2>4, <2>5, <2>6 DEF PacketOK
  <2> QED BY <2>7, <2>8, <2>9
<1>7. CASE LoadActiveBm
  <2>1. packet \in Frames /\ ind \in Output /\ ~api_mutex
    BY <1>7 DEF LoadActiveBm, PacketOK, GoalsLocked
  <2>2. packet.active_bm \in SUBSET Output
    BY <2>1, CommandAssumption DEF Frame
  <2>3. /\ active_bm' = packet.active_bm /\ comm_pc' = "position"
        /\ UNCHANGED <<phase, outputs, control, age, duration, previous,
                       next, packet, ind, commands, torn>>
    BY <1>7 DEF LoadActiveBm
  <2>4. TypeOK'
    BY <2>2, <2>3 DEF TypeOK, control
  <2>5. PacketOK' /\ GoalsLocked'
    BY <2>1, <2>3 DEF PacketOK, GoalsLocked, control
  <2> QED BY <2>4, <2>5
<1>8. CASE LoadPosition
  <2>1. packet \in Frames /\ ind \in Output /\ ~api_mutex
    BY <1>8 DEF LoadPosition, PacketOK, GoalsLocked
  <2>2. packet.position[ind] \in Value
    BY <2>1, CommandAssumption DEF Frame
  <2>3. next' \in [Output -> Value]
    BY <1>8, <2>1, <2>2, WritePosition DEF LoadPosition, TypeOK
  <2>4. \/ comm_pc' = comm_pc /\ packet' = packet /\ ind' \in Output
              /\ ind' \in 0..MAX_OUT_NB
        \/ comm_pc' = "idle" /\ ind' = 0
    BY <1>8, <2>1, NextInd DEF LoadPosition, HandlerEnds
  <2>5. UNCHANGED <<phase, outputs, control, age, duration, previous,
                    active_bm, commands, torn>>
    BY <1>8 DEF LoadPosition
  <2>6. TypeOK'
    BY <1>0, <2>3, <2>4, <2>5 DEF TypeOK, control
  <2>7. comm_pc = "position"
    BY <1>8 DEF LoadPosition
  <2>8. GoalsLocked'
    BY <2>1, <2>4, <2>5, <2>7 DEF GoalsLocked, control
  <2>9. PacketOK'
    BY <2>1, <2>4, <2>7 DEF PacketOK
  <2> QED BY <2>6, <2>8, <2>9
<1>9. CASE ReceiveGoals
  <2> PICK g \in GoalPackets :
        /\ Receive("goals", g)
        /\ api_mutex' = TRUE
        /\ UNCHANGED <<phase, outputs, goals, controlled_bm, whole, age,
                       frame, torn>>
    BY <1>9 DEF ReceiveGoals
  <2>1. /\ comm_pc' = "goals" /\ packet' = g /\ ind' = 0
        /\ commands' \in 0..MaxCommands
    BY WidthAssumption DEF Receive, TypeOK
  <2>2. TypeOK'
    BY <1>0, <2>1 DEF TypeOK, frame
  <2>3. PacketOK' /\ GoalsLocked'
    BY <2>1 DEF PacketOK, GoalsLocked
  <2> QED BY <2>2, <2>3
<1>10. CASE SetControlBm
  <2> PICK bm \in ControlMasks :
        /\ commands < MaxCommands
        /\ commands' = commands + 1
        /\ controlled_bm' = bm
        /\ UNCHANGED <<phase, outputs, goals, api_mutex, whole, age, frame,
                       comm_pc, packet, ind, torn>>
    BY <1>10 DEF SetControlBm
  <2>1. bm \in SUBSET Output /\ commands' \in 0..MaxCommands
    BY WidthAssumption, CommandAssumption DEF TypeOK
  <2>2. TypeOK'
    BY <2>1 DEF TypeOK, frame
  <2>3. PacketOK' /\ GoalsLocked'
    BY DEF PacketOK, GoalsLocked
  <2> QED BY <2>2, <2>3
<1>11. CASE LoadFrame
  <2> PICK f \in Frames :
        /\ Receive("times", f)
        /\ age' = 0
        /\ torn' = FALSE
        /\ UNCHANGED <<phase, outputs, control, frame>>
    BY <1>11 DEF LoadFrame
  <2>1. /\ comm_pc' = "times" /\ packet' = f /\ ind' = 0
        /\ commands' \in 0..MaxCommands /\ comm_pc = "idle"
    BY WidthAssumption DEF Receive, TypeOK
  <2>2. age' \in Clock
    BY WidthAssumption DEF Clock
  <2>3. TypeOK'
    BY <1>0, <2>1, <2>2 DEF TypeOK, frame, control
  <2>4. PacketOK' /\ GoalsLocked'
    BY <1>0, <2>1 DEF PacketOK, GoalsLocked, control
  <2> QED BY <2>3, <2>4
<1>12. CASE DisableFrame
  <2>1. commands' \in 0..MaxCommands /\ active_bm' \in SUBSET Output
    BY <1>12, WidthAssumption DEF DisableFrame, TypeOK
  <2>2. UNCHANGED <<phase, outputs, control, age, duration, previous, next,
                    comm_pc, packet, ind, torn>>
    BY <1>12 DEF DisableFrame
  <2>3. TypeOK'
    BY <2>1, <2>2 DEF TypeOK, control
  <2>4. PacketOK' /\ GoalsLocked'
    BY <2>2 DEF PacketOK, GoalsLocked, control
  <2> QED BY <2>3, <2>4
<1>13. CASE UNCHANGED vars
  BY <1>13 DEF vars, control, frame, comm, TypeOK, PacketOK, GoalsLocked
<1> QED
  BY <1>1, <1>2, <1>3, <1>4, <1>5, <1>6, <1>7, <1>8, <1>9, <1>10, <1>11,
     <1>12, <1>13 DEF Next, CommStep, Command

-----------------------------------------------------------------------------
(* The theorems *)

\* The invariant everything below follows from: the types, the packet being
\* copied, and the goals changing only under api_ctrl_mutex.
THEOREM Invariance == Spec => []IInv
  BY InitIInv, StepIInv, PTL DEF Spec

\* Every position, time and mask keeps the width the code gives it: the
\* products, halves and speed steps of out_ctrl.c and frame_ctrl.c never leave
\* an output outside rc_value_t.
THEOREM TypeCorrect == Spec => []TypeOK
  BY Invariance, PTL DEF IInv

\* The goals of one packet take effect in the same period (api_ctrl.c:52).
THEOREM GoalsTogether == Spec => GoalsMoveTogether
<1>1. IInv /\ [Next]_vars => [phase' < phase => goals = whole]_vars
  <2> SUFFICES ASSUME IInv, Next, phase' < phase PROVE goals = whole
    BY DEF vars
  <2>1. CASE CoreRun
    BY <2>1 DEF CoreRun, IInv, GoalsLocked
  <2>2. CASE ~CoreRun
    <3>1. phase \in Int
      BY WidthAssumption DEF IInv, TypeOK
    <3>2. phase' = phase \/ phase' = phase + 1
      BY <2>2 DEF Next, CommStep, Command, Tick, WriteGoal, GoalsWritten,
         LoadDuration, LoadPrevious, LoadActiveBm, LoadPosition,
         ReceiveGoals, SetControlBm, LoadFrame, DisableFrame
    <3> QED BY <3>1, <3>2
  <2> QED BY <2>1, <2>2
<1> QED BY <1>1, Invariance, PTL DEF Spec, GoalsMoveTogether

\* No output exceeds its speed limit, whatever the host sends (out_ctrl.c:26).
THEOREM SpeedLimited == Spec => SpeedIsLimited
<1> DEFINE Limited ==
      \A o \in Output : MaxSpeed[o] > 0 =>
          Distance(outputs'[o].value, outputs[o].value)
              <= SPEED_COEF * MaxSpeed[o]
<1>1. IInv /\ [Next]_vars => [Limited]_vars
  <2> SUFFICES ASSUME IInv, Next PROVE Limited
    BY DEF vars
  <2>1. CASE CoreRun
    BY <2>1, NewOutputRange DEF CoreRun, IInv
  <2>2. CASE ~CoreRun
    <3>1. UNCHANGED outputs
      BY <2>2 DEF Next, CommStep, Command, Tick, WriteGoal, GoalsWritten,
         LoadDuration, LoadPrevious, LoadActiveBm, LoadPosition,
         ReceiveGoals, SetControlBm, LoadFrame, DisableFrame
    <3> SUFFICES ASSUME NEW o \in Output, MaxSpeed[o] > 0
                 PROVE  Distance(outputs'[o].value, outputs[o].value)
                            <= SPEED_COEF * MaxSpeed[o]
      OBVIOUS
    <3>2. outputs[o].value \in Int
      BY WidthAssumption DEF IInv, TypeOK, Value
    <3>3. Distance(outputs[o].value, outputs[o].value) = 0
      BY <3>2 DEF Distance
    <3>4. SPEED_COEF * MaxSpeed[o] >= 0
      BY WidthAssumption, CommandAssumption
    <3> QED BY <3>1, <3>3, <3>4
  <2> QED BY <2>1, <2>2
<1> QED BY <1>1, Invariance, PTL DEF Spec, SpeedIsLimited
-----------------------------------------------------------------------------
(* The way of a frame: arithmetic *)

\* Euclid's division, of negative numbers too.
LEMMA DivProperty ==
  ASSUME NEW a \in Int, NEW n \in Nat \ {0}
  PROVE  /\ a \div n \in Int
         /\ n * (a \div n) <= a
         /\ a < n * (a \div n) + n
  BY Z3

\* Products keep the order.
LEMMA ProductMonotone ==
  ASSUME NEW n \in Nat, NEW p \in Int, NEW q \in Int, p <= q
  PROVE  n * p <= n * q
  BY Z3

\* A larger dividend has no smaller quotient.
LEMMA DivMonotone ==
  ASSUME NEW a \in Int, NEW b \in Int, a <= b, NEW n \in Nat \ {0}
  PROVE  a \div n <= b \div n
<1> DEFINE p == a \div n
           q == b \div n
<1>1. p \in Int /\ q \in Int /\ n * p <= a /\ b < n * q + n
  BY DivProperty
<1> HIDE DEF p, q
<1>2. SUFFICES ASSUME q + 1 <= p PROVE FALSE
  BY <1>1 DEF p, q
<1>3. n * (q + 1) <= n * p
  BY <1>1, <1>2, ProductMonotone
<1>4. n * (q + 1) = n * q + n
  BY <1>1, Z3
<1>5. n * p \in Int /\ n * q \in Int
  BY <1>1, Z3
<1> QED BY <1>1, <1>3, <1>4, <1>5

\* Whole multiples divide evenly.
LEMMA DivMultiple ==
  ASSUME NEW a \in Int, NEW n \in Nat \ {0}
  PROVE  (a * n) \div n = a
  BY Z3

\* Halves lose a half at most, towards 0, and keep the order.
LEMMA HalfIs ==
  ASSUME NEW v \in Int
  PROVE  /\ Half(v) \in Int
         /\ v >= 0 => v - 2 * Half(v) \in {0, 1}
         /\ v <= 0 => v - 2 * Half(v) \in {-1, 0}
  BY DEF Half

\* The same for two positions.
LEMMA HalfMonotone ==
  ASSUME NEW a \in Int, NEW b \in Int, a <= b
  PROVE  Half(a) <= Half(b)
  BY HalfIs

\* A position needs no conversion.
LEMMA Int16Is ==
  ASSUME NEW x \in Value
  PROVE  Int16(x) = x
<1> DEFINE y == x + One
           m == 2 * One
<1>1. One \in Nat \ {0} /\ x \in Int /\ y \in 0..(m - 1) /\ m \in Nat \ {0}
  BY WidthAssumption DEF Value
<1> HIDE DEF m, y
<1>2. y % m = y
  BY <1>1, Z3
<1> QED BY <1>1, <1>2 DEF Int16, y, m

\* How far a frame has got is a fraction of 1.0 that only grows.
LEMMA ElapsedIs ==
  ASSUME NEW total \in Nat \ {0}, RC_VALUE_MAX * total < ClockModulus,
         NEW t \in Nat, t < total
  PROVE  /\ Elapsed(t, total) \in 0..RC_VALUE_MAX
         /\ Int16(Elapsed(t, total)) = Elapsed(t, total)
         /\ Elapsed(t, total) = (RC_VALUE_MAX * t) \div total
         /\ RC_VALUE_MAX * t \in Nat
<1> DEFINE c == RC_VALUE_MAX
           x == c * t
<1>1. /\ c \in Nat /\ One \in Nat \ {0} /\ c = One - 1
      /\ ClockModulus \in Nat \ {0}
  BY WidthAssumption DEF RC_VALUE_MAX
<1> HIDE DEF c
<1>2. x \in Nat /\ x <= c * total /\ c * total \in Int
  <2>1. c * t <= c * total
    BY <1>1, ProductMonotone
  <2> QED BY <1>1, <2>1, Z3
<1>3. c * total < ClockModulus
  BY DEF c
<1> HIDE DEF x
<1>4. x % ClockModulus = x
  <2>1. x \in 0..(ClockModulus - 1)
    BY <1>1, <1>2, <1>3
  <2> QED BY <1>1, <2>1, Z3
<1>5. x \div total \in Nat
  BY <1>2, Z3
<1>6. x \div total <= c
  <2>1. (c * total) \div total = c
    BY <1>1, DivMultiple
  <2> QED BY <1>2, <2>1, DivMonotone
<1>7. Elapsed(t, total) = x \div total
  BY <1>4 DEF Elapsed, x, c
<1>8. Elapsed(t, total) \in 0..c
  BY <1>1, <1>5, <1>6, <1>7
<1>9. Elapsed(t, total) \in Value
  BY <1>1, <1>8 DEF Value
<1> QED BY <1>2, <1>7, <1>8, <1>9, Int16Is DEF x, c

\* It grows with time.
LEMMA ElapsedGrows ==
  ASSUME NEW total \in Nat \ {0}, RC_VALUE_MAX * total < ClockModulus,
         NEW t \in Nat, NEW u \in Nat, t <= u, u < total
  PROVE  Elapsed(t, total) <= Elapsed(u, total)
<1>1. t < total
  OBVIOUS
<1>2. /\ Elapsed(t, total) = (RC_VALUE_MAX * t) \div total
      /\ Elapsed(u, total) = (RC_VALUE_MAX * u) \div total
      /\ RC_VALUE_MAX * t \in Nat /\ RC_VALUE_MAX * u \in Nat
  BY <1>1, ElapsedIs
<1>3. RC_VALUE_MAX \in Nat
  BY WidthAssumption DEF RC_VALUE_MAX
<1>4. RC_VALUE_MAX * t <= RC_VALUE_MAX * u
  BY <1>3, ProductMonotone
<1> QED BY <1>2, <1>4, DivMonotone

\* A fraction of a difference goes no further than the difference, and one
\* upwards stays a step short of it.
LEMMA ShareIs ==
  ASSUME NEW d \in Int, NEW e \in 0..RC_VALUE_MAX
  PROVE  /\ Dsp16Mul(d, e) \in Int
         /\ d = 0 => Dsp16Mul(d, e) = 0
         /\ d > 0 => Dsp16Mul(d, e) \in 0..(d - 1)
         /\ d < 0 => Dsp16Mul(d, e) \in d..0
<1> DEFINE x == d * e
           m == x \div One
<1>1. One \in Nat \ {0} /\ e \in Nat /\ e <= One - 1
  BY WidthAssumption DEF RC_VALUE_MAX
<1>2. x \in Int
  BY <1>1, Z3
<1> HIDE DEF x
<1>3. m \in Int /\ One * m <= x /\ x < One * m + One /\ One * m \in Int
  BY <1>1, <1>2, DivProperty
<1>4. m = Dsp16Mul(d, e)
  BY DEF Dsp16Mul, x
<1> HIDE DEF m
<1>5. ASSUME d = 0 PROVE m = 0
  <2>1. x = 0
    BY <1>1, <1>5, Z3 DEF x
  <2> QED BY <1>1, <1>3, <2>1, Z3
<1>6. ASSUME d > 0 PROVE m \in 0..(d - 1)
  <2>1. 0 <= x /\ x < One * d
    BY <1>1, <1>6, Z3 DEF x
  <2>2. m >= 0
    <3>1. SUFFICES ASSUME m <= -1 PROVE FALSE
      BY <1>3
    <3>2. One * m <= One * (-1) /\ One * (-1) = -One
      BY <1>1, <1>3, <3>1, ProductMonotone
    <3> QED BY <1>1, <1>2, <1>3, <2>1, <3>2
  <2>3. m < d
    <3>1. SUFFICES ASSUME d <= m PROVE FALSE
      BY <1>3
    <3>2. One * d <= One * m
      BY <1>1, <1>3, <3>1, ProductMonotone
    <3> QED BY <1>1, <1>2, <1>3, <2>1, <3>2, Z3
  <2> QED BY <1>3, <2>2, <2>3
<1>7. ASSUME d < 0 PROVE m \in d..0
  <2>1. x <= 0 /\ One * d <= x
    BY <1>1, <1>7, Z3 DEF x
  <2>2. m <= 0
    <3>1. SUFFICES ASSUME 1 <= m PROVE FALSE
      BY <1>3
    <3>2. One * 1 <= One * m /\ One * 1 = One
      BY <1>1, <1>3, <3>1, ProductMonotone
    <3> QED BY <1>1, <1>2, <1>3, <2>1, <3>2
  <2>3. d <= m
    <3>1. SUFFICES ASSUME m + 1 <= d PROVE FALSE
      BY <1>3
    <3>2. One * (m + 1) <= One * d /\ One * (m + 1) = One * m + One
      BY <1>1, <1>3, <3>1, ProductMonotone, Z3
    <3> QED BY <1>1, <1>2, <1>3, <2>1, <3>2, Z3
  <2> QED BY <1>3, <2>2, <2>3
<1> QED BY <1>3, <1>4, <1>5, <1>6, <1>7

\* A larger fraction goes further.
LEMMA ShareGrows ==
  ASSUME NEW d \in Int, NEW e \in 0..RC_VALUE_MAX,
         NEW f \in 0..RC_VALUE_MAX, e <= f
  PROVE  /\ d >= 0 => Dsp16Mul(d, e) <= Dsp16Mul(d, f)
         /\ d <= 0 => Dsp16Mul(d, f) <= Dsp16Mul(d, e)
<1>1. One \in Nat \ {0} /\ e \in Nat /\ f \in Nat
  BY WidthAssumption DEF RC_VALUE_MAX
<1>2. d * e \in Int /\ d * f \in Int
  BY <1>1, Z3
<1>3. d >= 0 => d * e <= d * f
  BY <1>1, Z3
<1>4. d <= 0 => d * f <= d * e
  BY <1>1, Z3
<1> QED BY <1>1, <1>2, <1>3, <1>4, DivMonotone DEF Dsp16Mul
-----------------------------------------------------------------------------
(* The way of a frame *)

\* frame_ctrl_update, from one position to another.
Way(from, to, t, total) ==
    IF t >= total THEN to ELSE Interpolate(from, to, t, total)

\* Where an output may be that has followed the frame until t: between the
\* start and where the frame is, or, on the way down, where it has been at its
\* lowest.
Behind(v, from, to, t, total) ==
    IF from <= to THEN from <= v /\ v <= Way(from, to, t, total)
    ELSE /\ v <= from
         /\ (IF t < total THEN Way(from, to, t, total) ELSE to - 1) <= v

\* Neither the halves nor the product leave the way by more than one, and that
\* only downwards, so that the sum needs no conversion.
LEMMA InterpolateIs ==
  ASSUME NEW from \in Value, NEW to \in Value, to > -One,
         NEW total \in Nat \ {0}, RC_VALUE_MAX * total < ClockModulus,
         NEW t \in Nat, t < total
  PROVE  /\ Interpolate(from, to, t, total) =
                from + 2 * Dsp16Mul(Half(to) - Half(from), Elapsed(t, total))
         /\ Interpolate(from, to, t, total) \in Int
         /\ from <= to => Interpolate(from, to, t, total) \in from..to
         /\ to < from => Interpolate(from, to, t, total) \in (to - 1)..from
<1> DEFINE e == Elapsed(t, total)
           d == Half(to) - Half(from)
           m == Dsp16Mul(d, e)
           r == from + 2 * m
<1>1. One \in Nat \ {0} /\ from \in Int /\ to \in Int
  BY WidthAssumption DEF Value
<1>2. e \in 0..RC_VALUE_MAX /\ Int16(e) = e
  BY ElapsedIs
<1>3. d \in Int /\ Half(to) \in Int /\ Half(from) \in Int
  BY <1>1, HalfIs
<1> HIDE DEF e
<1>4. /\ m \in Int
      /\ d = 0 => m = 0
      /\ d > 0 => m \in 0..(d - 1)
      /\ d < 0 => m \in d..0
  <2> HIDE DEF d
  <2> QED BY <1>2, <1>3, ShareIs
<1>5. Interpolate(from, to, t, total) = Int16(r)
  BY <1>2 DEF Interpolate, e
<1> HIDE DEF m
<1>6. from <= to => r \in from..to
  <2>1. SUFFICES ASSUME from <= to PROVE r \in from..to
    OBVIOUS
  <2>2. Half(from) <= Half(to)
    BY <1>1, <2>1, HalfMonotone
  <2>3. 2 * Half(to) <= to + 1 /\ 2 * Half(from) >= from - 1
    BY <1>1, <1>3, HalfIs
  <2> QED BY <1>1, <1>3, <1>4, <2>1, <2>2, <2>3
<1>7. to < from => r \in (to - 1)..from
  <2>1. SUFFICES ASSUME to < from PROVE r \in (to - 1)..from
    OBVIOUS
  <2>2. Half(to) <= Half(from)
    BY <1>1, <2>1, HalfMonotone
  <2>3. 2 * Half(to) - 2 * Half(from) >= (to - from) - 1
    <3>1. CASE from < 0
      BY <1>1, <1>3, <2>1, <3>1, HalfIs
    <3>2. CASE from >= 0
      <4>1. from - 2 * Half(from) \in {0, 1}
        BY <1>1, <3>2, HalfIs
      <4>2. to - 2 * Half(to) \in {-1, 0, 1}
        BY <1>1, HalfIs
      <4> QED BY <1>1, <1>3, <4>1, <4>2
    <3> QED BY <1>1, <3>1, <3>2
  <2> QED BY <1>1, <1>3, <1>4, <2>1, <2>2, <2>3
<1>8. r \in Value /\ r \in Int
  BY <1>1, <1>4, <1>6, <1>7 DEF Value
<1>9. Interpolate(from, to, t, total) = r
  <2> HIDE DEF r
  <2> QED BY <1>5, <1>8, Int16Is
<1>10. r = from + 2 * Dsp16Mul(Half(to) - Half(from), Elapsed(t, total))
  BY DEF m, e
<1> HIDE DEF r
<1> QED BY <1>6, <1>7, <1>8, <1>9, <1>10

\* So the way stays between its ends, but for the one below.
LEMMA WayIs ==
  ASSUME NEW from \in Value, NEW to \in Value, to > -One,
         NEW total \in Nat, RC_VALUE_MAX * total < ClockModulus, NEW t \in Nat
  PROVE  /\ Way(from, to, t, total) \in Int
         /\ from <= to => Way(from, to, t, total) \in from..to
         /\ to < from => Way(from, to, t, total) \in (to - 1)..from
         /\ t >= total => Way(from, to, t, total) = to
<1>1. from \in Int /\ to \in Int
  BY WidthAssumption DEF Value
<1>2. CASE t >= total
  BY <1>1, <1>2 DEF Way
<1>3. CASE ~(t >= total)
  <2>1. t < total /\ total \in Nat \ {0}
    BY <1>3
  <2> QED BY <1>3, <2>1, InterpolateIs DEF Way
<1> QED BY <1>2, <1>3

\* And it leads on: while the frame moves it does not turn back.
LEMMA WayGrows ==
  ASSUME NEW from \in Value, NEW to \in Value, to > -One,
         NEW total \in Nat, RC_VALUE_MAX * total < ClockModulus,
         NEW t \in Nat, NEW u \in Nat, t <= u, u < total
  PROVE  /\ from <= to => Way(from, to, t, total) <= Way(from, to, u, total)
         /\ to < from => Way(from, to, u, total) <= Way(from, to, t, total)
<1> DEFINE d == Half(to) - Half(from)
           e == Elapsed(t, total)
           f == Elapsed(u, total)
<1>1. from \in Int /\ to \in Int /\ total \in Nat \ {0} /\ t < total
      /\ ~(t >= total) /\ ~(u >= total)
  BY WidthAssumption DEF Value
<1>2. Half(to) \in Int /\ Half(from) \in Int
  BY <1>1, HalfIs
<1>3. e \in 0..RC_VALUE_MAX /\ f \in 0..RC_VALUE_MAX /\ e <= f
  BY <1>1, ElapsedIs, ElapsedGrows
<1>4. /\ Way(from, to, t, total) = from + 2 * Dsp16Mul(d, e)
      /\ Way(from, to, u, total) = from + 2 * Dsp16Mul(d, f)
  BY <1>1, InterpolateIs DEF Way
<1>5. (from <= to => d >= 0) /\ (to < from => d <= 0) /\ d \in Int
  BY <1>1, <1>2, HalfMonotone
<1> HIDE DEF d, e, f
<1>6. /\ Dsp16Mul(d, e) \in Int /\ Dsp16Mul(d, f) \in Int
      /\ d >= 0 => Dsp16Mul(d, e) <= Dsp16Mul(d, f)
      /\ d <= 0 => Dsp16Mul(d, f) <= Dsp16Mul(d, e)
  BY <1>3, <1>5, ShareIs, ShareGrows
<1> QED BY <1>1, <1>4, <1>5, <1>6

\* An output is behind at the start, whenever the frame is complete.
LEMMA BehindStart ==
  ASSUME NEW from \in Value, NEW to \in Value, to > -One,
         NEW total \in Nat, RC_VALUE_MAX * total < ClockModulus, NEW t \in Nat
  PROVE  Behind(from, from, to, t, total)
<1>1. from \in Int /\ to \in Int
  BY WidthAssumption DEF Value
<1> QED BY <1>1, WayIs DEF Behind

\* It stays behind as time passes.
LEMMA BehindTick ==
  ASSUME NEW from \in Value, NEW to \in Value, to > -One,
         NEW total \in Nat, RC_VALUE_MAX * total < ClockModulus,
         NEW t \in Nat, NEW u \in Nat, t <= u, NEW v \in Int,
         Behind(v, from, to, t, total)
  PROVE  Behind(v, from, to, u, total)
<1>1. from \in Int /\ to \in Int
  BY WidthAssumption DEF Value
<1> DEFINE a == Way(from, to, t, total)
           b == Way(from, to, u, total)
<1>2. /\ a \in Int /\ b \in Int
      /\ from <= to => a \in from..to /\ b \in from..to
      /\ to < from => a \in (to - 1)..from /\ b \in (to - 1)..from
      /\ t >= total => a = to
      /\ u >= total => b = to
  BY WayIs
<1>3. u < total => /\ from <= to => a <= b
                   /\ to < from => b <= a
  BY WayGrows
<1>4. IF from <= to THEN from <= v /\ v <= a
      ELSE v <= from /\ (IF t < total THEN a ELSE to - 1) <= v
  BY DEF Behind
<1> HIDE DEF a, b
<1>5. CASE from <= to
  <2>1. v <= b
    BY <1>1, <1>2, <1>3, <1>4, <1>5
  <2> QED BY <1>4, <1>5, <2>1 DEF Behind, b
<1>6. CASE ~(from <= to)
  <2>1. v <= from /\ (IF u < total THEN b ELSE to - 1) <= v
    BY <1>1, <1>2, <1>3, <1>4, <1>6
  <2> QED BY <1>6, <2>1 DEF Behind, b
<1> QED BY <1>5, <1>6

\* A step towards the frame leaves it behind, and on course.
LEMMA BehindRun ==
  ASSUME NEW from \in Value, NEW to \in Value, to > -One,
         NEW total \in Nat, RC_VALUE_MAX * total < ClockModulus,
         NEW t \in Nat, NEW v \in Int, Behind(v, from, to, t, total),
         NEW w \in Int,
         Smaller(v, Way(from, to, t, total)) <= w,
         w <= Greater(v, Way(from, to, t, total))
  PROVE  /\ Behind(w, from, to, t, total)
         /\ w \in (Smaller(v, to) - 1)..(Greater(v, to) + 1)
<1>1. from \in Int /\ to \in Int
  BY WidthAssumption DEF Value
<1> DEFINE a == Way(from, to, t, total)
<1>2. /\ a \in Int
      /\ from <= to => a \in from..to
      /\ to < from => a \in (to - 1)..from
      /\ t >= total => a = to
  BY WayIs
<1>3. IF from <= to THEN from <= v /\ v <= a
      ELSE v <= from /\ (IF t < total THEN a ELSE to - 1) <= v
  BY DEF Behind
<1>4. /\ Smaller(v, a) <= w /\ w <= Greater(v, a)
  OBVIOUS
<1> HIDE DEF a
<1>5. CASE from <= to
  <2>1. /\ from <= w /\ w <= a
        /\ w \in (Smaller(v, to) - 1)..(Greater(v, to) + 1)
    BY <1>1, <1>2, <1>3, <1>4, <1>5 DEF Smaller, Greater
  <2> QED BY <1>5, <2>1 DEF Behind, a
<1>6. CASE ~(from <= to)
  <2>1. /\ w <= from /\ (IF t < total THEN a ELSE to - 1) <= w
        /\ w \in (Smaller(v, to) - 1)..(Greater(v, to) + 1)
    BY <1>1, <1>2, <1>3, <1>4, <1>6 DEF Smaller, Greater
  <2> QED BY <1>6, <2>1 DEF Behind, a
<1> QED BY <1>5, <1>6

\* The speed limit keeps an output between its position and its goal.
LEMMA SpeedLimitBetween ==
  ASSUME NEW o \in Output, NEW goal \in Int, outputs[o].value \in Int
  PROVE  /\ SpeedLimit(o, goal) \in Int
         /\ Smaller(outputs[o].value, goal) <= SpeedLimit(o, goal)
         /\ SpeedLimit(o, goal) <= Greater(outputs[o].value, goal)
<1> DEFINE current == outputs[o].value
           step == SPEED_COEF * MaxSpeed[o]
<1>1. SPEED_COEF \in Nat /\ MaxSpeed[o] \in Nat
  BY WidthAssumption, CommandAssumption
<1>2. step \in Nat /\ current \in Int
  BY <1>1
<1> HIDE DEF current, step
<1>3. SpeedLimit(o, goal) =
        IF MaxSpeed[o] = 0 THEN goal
        ELSE IF current < goal THEN Smaller(current + step, goal)
        ELSE Greater(current - step, goal)
  BY DEF SpeedLimit, current, step
<1>4. /\ SpeedLimit(o, goal) \in Int
      /\ Smaller(current, goal) <= SpeedLimit(o, goal)
      /\ SpeedLimit(o, goal) <= Greater(current, goal)
  BY <1>2, <1>3 DEF Smaller, Greater
<1> QED BY <1>4 DEF current
-----------------------------------------------------------------------------
(* The inductive invariant of a frame's move *)

Loading == {"times", "previous", "active_bm", "position"}

\* get_current_pos_frame has copied the outputs it has come to.
StartIsPresent ==
    /\ comm_pc = "previous" =>
          \A i \in Output : i < ind => previous[i] = outputs[i].value
    /\ comm_pc \in {"active_bm", "position"} =>
          \A i \in Output : previous[i] = outputs[i].value

\* The frame has been copied as far as the handler has come.
FrameIsCopied ==
    comm_pc = "position" =>
        /\ active_bm = packet.active_bm
        /\ \A i \in Output : i < ind => next[i] = packet.position[i]

\* The outputs of a complete frame are on its way.
AllBehind ==
    \A o \in active_bm :
        /\ next[o] > -One
        /\ Behind(outputs[o].value, previous[o], next[o], age, duration)

\* The clock has not turned, and the product does not.
NothingWraps ==
    /\ age <= MaxAge
    /\ RC_VALUE_MAX * duration < ClockModulus

CourseInv ==
    /\ NothingWraps
    /\ comm_pc \in {"times", "active_bm"} => ind = 0
    /\ ~torn => /\ StartIsPresent
                /\ FrameIsCopied
                /\ comm_pc \notin Loading => AllBehind

\* It holds at start-up, when no frame is loaded.
LEMMA InitCourse == Init /\ CourseFits => CourseInv
<1> SUFFICES ASSUME Init, CourseFits PROVE CourseInv
  OBVIOUS
<1>1. RC_VALUE_MAX * 0 = 0 /\ ClockModulus > 0 /\ MaxAge >= 0
  BY WidthAssumption DEF RC_VALUE_MAX
<1> QED BY <1>1 DEF Init, CourseInv, NothingWraps, StartIsPresent,
          FrameIsCopied, AllBehind, Loading

\* What the lemmas of the way ask of a frame that has been loaded.
LEMMA FrameIsWay ==
  ASSUME TypeOK, NothingWraps, NEW o \in active_bm
  PROVE  /\ o \in Output /\ previous[o] \in Value /\ next[o] \in Value
         /\ outputs[o].value \in Int /\ age \in Nat /\ duration \in Nat
         /\ RC_VALUE_MAX * duration < ClockModulus
         /\ FramePosition(o) = Way(previous[o], next[o], age, duration)
<1>1. o \in Output
  BY DEF TypeOK
<1>2. age \in Nat /\ duration \in Nat
  BY WidthAssumption DEF TypeOK, Clock
<1>3. outputs[o].value \in Int
  BY <1>1, WidthAssumption DEF TypeOK, Value
<1> QED BY <1>1, <1>2, <1>3 DEF TypeOK, NothingWraps, FramePosition, Way

\* A run of the core task moves the outputs of a frame along its way.
LEMMA RunFollows ==
  ASSUME TypeOK, NothingWraps, AllBehind, CoreRun
  PROVE  AllBehind' /\ OnCourse
<1>1. UNCHANGED <<age, duration, previous, active_bm, next>>
  BY DEF CoreRun, frame
<1>2. ASSUME NEW o \in active_bm
      PROVE  /\ next[o] > -One
             /\ Behind(outputs'[o].value, previous[o], next[o], age, duration)
             /\ outputs'[o].value \in
                    (Smaller(outputs[o].value, next[o]) - 1)
                       ..(Greater(outputs[o].value, next[o]) + 1)
  <2> DEFINE v == outputs[o].value
             a == Way(previous[o], next[o], age, duration)
             w == SpeedLimit(o, a)
  <2>1. /\ o \in Output /\ previous[o] \in Value /\ next[o] \in Value
        /\ v \in Int /\ age \in Nat /\ duration \in Nat
        /\ RC_VALUE_MAX * duration < ClockModulus
        /\ FramePosition(o) = a
    BY <1>2, FrameIsWay
  <2>2. next[o] > -One /\ Behind(v, previous[o], next[o], age, duration)
    BY <1>2 DEF AllBehind
  <2>3. a \in Int
    BY <2>1, <2>2, WayIs
  <2>4. outputs'[o].value = w
    <3>1. NewOutput(o) = [value |-> SpeedLimit(o, FramePosition(o)),
                          active |-> TRUE]
      BY <1>2 DEF NewOutput, Commanded
    <3>2. outputs'[o] = NewOutput(o)
      BY <2>1 DEF CoreRun
    <3> QED BY <2>1, <3>1, <3>2
  <2>5. w \in Int /\ Smaller(v, a) <= w /\ w <= Greater(v, a)
    BY <2>1, <2>3, SpeedLimitBetween
  <2> HIDE DEF v, w
  <2>6. /\ Behind(w, previous[o], next[o], age, duration)
        /\ w \in (Smaller(v, next[o]) - 1)..(Greater(v, next[o]) + 1)
    BY <2>1, <2>2, <2>5, BehindRun
  <2> QED BY <2>2, <2>4, <2>6 DEF v
<1>3. AllBehind'
  BY <1>1, <1>2 DEF AllBehind
<1>4. OnCourse
  BY <1>2 DEF OnCourse
<1> QED BY <1>3, <1>4

\* As time passes the outputs stay behind the frame.
LEMMA TickFollows ==
  ASSUME TypeOK, NothingWraps, MaxAge < ClockModulus, Tick
  PROVE  NothingWraps' /\ (AllBehind => AllBehind')
<1>1. UNCHANGED <<outputs, duration, previous, active_bm, next>>
  BY DEF Tick, frame
<1>2. age \in Nat /\ MaxAge \in Nat /\ ClockModulus \in Nat
  BY WidthAssumption DEF TypeOK, Clock
<1>3. age' \in Nat /\ age <= age' /\ age' <= MaxAge
  <2>1. CASE age < MaxAge
    <3>1. (age + 1) % ClockModulus = age + 1
      BY <1>2, <2>1
    <3> QED BY <1>2, <2>1, <3>1 DEF Tick
  <2>2. CASE ~(age < MaxAge)
    BY <1>2, <2>2 DEF Tick, NothingWraps
  <2> QED BY <2>1, <2>2
<1>4. NothingWraps'
  BY <1>1, <1>3 DEF NothingWraps
<1>5. ASSUME AllBehind, NEW o \in active_bm
      PROVE  Behind(outputs[o].value, previous[o], next[o], age', duration)
  <2>1. /\ previous[o] \in Value /\ next[o] \in Value
        /\ outputs[o].value \in Int /\ duration \in Nat
        /\ RC_VALUE_MAX * duration < ClockModulus
    BY <1>5, FrameIsWay
  <2>2. /\ next[o] > -One
        /\ Behind(outputs[o].value, previous[o], next[o], age, duration)
    BY <1>5 DEF AllBehind
  <2> QED BY <1>2, <1>3, <2>1, <2>2, BehindTick
<1>6. AllBehind => AllBehind'
  BY <1>1, <1>5 DEF AllBehind
<1> QED BY <1>4, <1>6

\* The last position copied completes the frame.
LEMMA LoadedIsBehind ==
  ASSUME TypeOK, PacketOK, NothingWraps, StartIsPresent, FrameIsCopied,
         CourseFits, LoadPosition, ~(ind + 1 < MAX_OUT_NB)
  PROVE  AllBehind'
<1>1. /\ comm_pc = "position" /\ packet \in Frames /\ ind \in Output
      /\ active_bm = packet.active_bm
      /\ \A i \in Output : i < ind => next[i] = packet.position[i]
      /\ \A i \in Output : previous[i] = outputs[i].value
  BY DEF LoadPosition, PacketOK, FrameIsCopied, StartIsPresent
<1>2. next' = [next EXCEPT ![ind] = packet.position[ind]]
      /\ UNCHANGED <<outputs, age, duration, previous, active_bm>>
  BY DEF LoadPosition
<1>3. ASSUME NEW o \in active_bm
      PROVE  /\ next'[o] > -One
             /\ Behind(outputs[o].value, previous[o], next'[o], age, duration)
  <2>1. /\ o \in Output /\ previous[o] \in Value
        /\ age \in Nat /\ duration \in Nat
        /\ RC_VALUE_MAX * duration < ClockModulus
    BY <1>3, FrameIsWay
  <2>2. next'[o] = packet.position[o]
    <3>1. o < ind \/ o = ind
      BY <1>1, <2>1, OutputAssumption DEF Output
    <3> QED BY <1>1, <1>2, <2>1, <3>1 DEF TypeOK
  <2>3. packet.position[o] \in Value /\ packet.position[o] > -One
    BY <1>1, <1>3, <2>1, CommandAssumption DEF Frame, CourseFits
  <2>4. outputs[o].value = previous[o]
    BY <1>1, <2>1
  <2> QED BY <2>1, <2>2, <2>3, <2>4, BehindStart
<1> QED BY <1>2, <1>3 DEF AllBehind

\* Every step keeps it.
LEMMA StepCourse ==
  ASSUME CourseFits, IInv, CourseInv, [Next]_vars
  PROVE  CourseInv'
<1>1. TypeOK /\ PacketOK /\ NothingWraps
  BY DEF IInv, CourseInv
<1>2. 0 \in Output /\ MAX_OUT_NB \in Nat \ {0}
  BY ZeroIsOutput
<1>3. CASE CoreRun
  <2>1. /\ UNCHANGED <<age, duration, comm_pc, ind>>
        /\ torn' = (torn \/ comm_pc \in Loading)
    BY <1>3 DEF CoreRun, frame, comm, Loading
  <2>2. NothingWraps' /\ (comm_pc' \in {"times", "active_bm"} => ind' = 0)
    BY <1>1, <2>1 DEF CourseInv, NothingWraps
  <2>3. ASSUME ~torn' PROVE StartIsPresent' /\ FrameIsCopied' /\ AllBehind'
    <3>1. ~torn /\ comm_pc \notin Loading
      BY <2>1, <2>3
    <3>2. AllBehind
      BY <3>1 DEF CourseInv
    <3>3. AllBehind'
      BY <1>1, <1>3, <3>2, RunFollows
    <3>4. StartIsPresent' /\ FrameIsCopied'
      BY <2>1, <3>1 DEF StartIsPresent, FrameIsCopied, Loading
    <3> QED BY <3>3, <3>4
  <2> QED BY <2>2, <2>3 DEF CourseInv
<1>4. CASE Tick
  <2>1. MaxAge < ClockModulus
    BY DEF CourseFits
  <2>2. NothingWraps' /\ (AllBehind => AllBehind')
    BY <1>1, <1>4, <2>1, TickFollows
  <2>3. UNCHANGED <<outputs, previous, active_bm, next, comm_pc, packet, ind,
                    torn>>
    BY <1>4 DEF Tick, frame, comm
  <2>4. StartIsPresent' = StartIsPresent /\ FrameIsCopied' = FrameIsCopied
    BY <2>3 DEF StartIsPresent, FrameIsCopied
  <2> QED BY <2>2, <2>3, <2>4 DEF CourseInv
<1>5. CASE LoadDuration
  <2>1. comm_pc = "times" /\ packet \in Frames /\ ind = 0
    BY <1>1, <1>5 DEF LoadDuration, PacketOK, CourseInv
  <2>2. /\ duration' = packet.duration /\ comm_pc' = "previous"
        /\ UNCHANGED <<age, ind>>
    BY <1>5 DEF LoadDuration
  <2>3. NothingWraps'
    BY <1>1, <2>1, <2>2 DEF NothingWraps, CourseFits
  <2>4. StartIsPresent' /\ FrameIsCopied'
    BY <2>1, <2>2 DEF StartIsPresent, FrameIsCopied, Output
  <2> QED BY <2>2, <2>3, <2>4 DEF CourseInv, Loading
<1>6. CASE LoadPrevious
  <2>1. /\ comm_pc = "previous" /\ ind \in Output
        /\ previous' = [previous EXCEPT ![ind] = outputs[ind].value]
        /\ UNCHANGED <<outputs, age, duration, torn>>
    BY <1>1, <1>6 DEF LoadPrevious, PacketOK
  <2>2. NothingWraps'
    BY <1>1, <2>1 DEF NothingWraps
  <2>3. \/ ind + 1 < MAX_OUT_NB /\ ind' = ind + 1 /\ comm_pc' = "previous"
        \/ ind + 1 >= MAX_OUT_NB /\ ind' = 0 /\ comm_pc' = "active_bm"
    BY <1>2, <1>6, <2>1 DEF LoadPrevious, Output
  <2>4. ASSUME ~torn PROVE StartIsPresent' /\ FrameIsCopied'
    <3>1. \A i \in Output : i < ind => previous[i] = outputs[i].value
      BY <2>1, <2>4 DEF CourseInv, StartIsPresent
    <3>2. ASSUME NEW i \in Output, i < ind + 1
          PROVE  previous'[i] = outputs'[i].value
      <4>1. i < ind \/ i = ind
        BY <1>2, <2>1, <3>2 DEF Output
      <4> QED BY <1>1, <2>1, <3>1, <4>1 DEF TypeOK
    <3>3. \A i \in Output : ind + 1 >= MAX_OUT_NB => i < ind + 1
      BY <1>2, <2>1 DEF Output
    <3> QED BY <2>3, <3>2, <3>3 DEF StartIsPresent, FrameIsCopied
  <2> QED BY <2>1, <2>2, <2>3, <2>4 DEF CourseInv, Loading
<1>7. CASE LoadActiveBm
  <2>1. /\ comm_pc = "active_bm" /\ ind = 0 /\ active_bm' = packet.active_bm
        /\ comm_pc' = "position"
        /\ UNCHANGED <<outputs, age, duration, previous, next, packet, ind,
                       torn>>
    BY <1>7 DEF LoadActiveBm, CourseInv
  <2>2. NothingWraps'
    BY <1>1, <2>1 DEF NothingWraps
  <2>3. ASSUME ~torn PROVE StartIsPresent' /\ FrameIsCopied'
    BY <1>2, <2>1, <2>3 DEF CourseInv, StartIsPresent, FrameIsCopied, Output
  <2> QED BY <2>1, <2>2, <2>3 DEF CourseInv, Loading
<1>8. CASE LoadPosition
  <2>1. /\ comm_pc = "position" /\ ind \in Output
        /\ next' = [next EXCEPT ![ind] = packet.position[ind]]
        /\ UNCHANGED <<outputs, age, duration, previous, active_bm, torn>>
    BY <1>1, <1>8 DEF LoadPosition, PacketOK
  <2>2. NothingWraps'
    BY <1>1, <2>1 DEF NothingWraps
  <2>3. CASE ind + 1 < MAX_OUT_NB
    <3>1. ind' = ind + 1 /\ comm_pc' = "position" /\ packet' = packet
      BY <1>8, <2>1, <2>3 DEF LoadPosition
    <3>2. ASSUME ~torn PROVE StartIsPresent' /\ FrameIsCopied'
      <4>1. /\ active_bm = packet.active_bm
            /\ \A i \in Output : i < ind => next[i] = packet.position[i]
            /\ \A i \in Output : previous[i] = outputs[i].value
        BY <2>1, <3>2 DEF CourseInv, StartIsPresent, FrameIsCopied
      <4>2. ASSUME NEW i \in Output, i < ind + 1
            PROVE  next'[i] = packet.position[i]
        <5>1. i < ind \/ i = ind
          BY <1>2, <2>1, <4>2 DEF Output
        <5> QED BY <1>1, <2>1, <4>1, <5>1 DEF TypeOK
      <4> QED BY <2>1, <3>1, <4>1, <4>2 DEF StartIsPresent, FrameIsCopied
    <3> QED BY <2>1, <2>2, <3>1, <3>2 DEF CourseInv, Loading
  <2>4. CASE ~(ind + 1 < MAX_OUT_NB)
    <3>1. comm_pc' = "idle"
      BY <1>8, <2>4 DEF LoadPosition, HandlerEnds
    <3>2. ~torn => AllBehind'
      BY <1>1, <1>8, <2>4, LoadedIsBehind DEF CourseInv
    <3> QED BY <2>1, <2>2, <3>1, <3>2
            DEF CourseInv, StartIsPresent, FrameIsCopied
  <2> QED BY <2>3, <2>4
<1>9. CASE LoadFrame
  <2>1. /\ comm_pc' = "times" /\ ind' = 0 /\ age' = 0 /\ duration' = duration
    BY <1>9 DEF LoadFrame, Receive, frame
  <2>2. NothingWraps'
    BY <1>1, <2>1, WidthAssumption DEF NothingWraps
  <2> QED BY <2>1, <2>2 DEF CourseInv, StartIsPresent, FrameIsCopied, Loading
<1>10. CASE DisableFrame
  <2>1. /\ comm_pc = "idle" /\ active_bm' = {}
        /\ UNCHANGED <<age, duration, comm_pc, ind>>
    BY <1>10 DEF DisableFrame
  <2>2. NothingWraps'
    BY <1>1, <2>1 DEF NothingWraps
  <2> QED BY <2>1, <2>2
          DEF CourseInv, StartIsPresent, FrameIsCopied, AllBehind
<1>11. CASE \/ WriteGoal \/ GoalsWritten \/ ReceiveGoals \/ SetControlBm
            \/ UNCHANGED vars
  <2>1. UNCHANGED <<outputs, age, duration, previous, active_bm, next, torn>>
    BY <1>11 DEF WriteGoal, GoalsWritten, ReceiveGoals, SetControlBm, vars,
       frame
  <2>2. \/ UNCHANGED <<comm_pc, packet, ind>>
        \/ comm_pc \notin Loading /\ comm_pc' \notin Loading
    BY <1>11 DEF WriteGoal, GoalsWritten, ReceiveGoals, SetControlBm, vars,
       comm, Receive, HandlerEnds, Loading
  <2>3. NothingWraps' /\ AllBehind' = AllBehind
    BY <1>1, <2>1 DEF NothingWraps, AllBehind
  <2>4. CASE UNCHANGED <<comm_pc, packet, ind>>
    BY <2>1, <2>3, <2>4 DEF CourseInv, StartIsPresent, FrameIsCopied
  <2>5. CASE comm_pc \notin Loading /\ comm_pc' \notin Loading
    BY <2>1, <2>3, <2>5 DEF CourseInv, StartIsPresent, FrameIsCopied, Loading
  <2> QED BY <2>2, <2>4, <2>5
<1> QED
  BY <1>3, <1>4, <1>5, <1>6, <1>7, <1>8, <1>9, <1>10, <1>11
     DEF Next, CommStep, Command

\* A frame whose loading no run of the core task has torn takes its outputs
\* where it says, and nowhere else (frame_ctrl.c:27, :62).
THEOREM CourseKept ==
  ASSUME CourseFits
  PROVE  Spec => FrameStaysOnCourse
<1> DEFINE Kept == phase' < phase /\ ~torn /\ ~torn' => OnCourse
<1>1. Init => CourseInv
  BY InitCourse
<1>2. IInv /\ CourseInv /\ [Next]_vars => CourseInv'
  BY StepCourse
<1>3. IInv /\ CourseInv /\ [Next]_vars => [Kept]_vars
  <2> SUFFICES ASSUME IInv, CourseInv, Next, phase' < phase, ~torn, ~torn'
               PROVE  OnCourse
    BY DEF vars
  <2>1. CASE CoreRun
    <3>1. comm_pc \notin Loading
      BY <2>1 DEF CoreRun, Loading
    <3>2. TypeOK /\ NothingWraps /\ AllBehind
      BY <3>1 DEF IInv, CourseInv
    <3> QED BY <2>1, <3>2, RunFollows
  <2>2. CASE ~CoreRun
    <3>1. phase \in Int
      BY WidthAssumption DEF IInv, TypeOK
    <3>2. phase' = phase \/ phase' = phase + 1
      BY <2>2 DEF Next, CommStep, Command, Tick, WriteGoal, GoalsWritten,
         LoadDuration, LoadPrevious, LoadActiveBm, LoadPosition,
         ReceiveGoals, SetControlBm, LoadFrame, DisableFrame
    <3> QED BY <3>1, <3>2
  <2> QED BY <2>1, <2>2
<1>4. QED
  BY <1>1, <1>2, <1>3, Invariance, PTL DEF Spec, FrameStaysOnCourse
=============================================================================
