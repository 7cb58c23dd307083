--------------------------- MODULE ServoOutProofs ---------------------------
(***************************************************************************)
(* Proofs about ServoOut for any number of outputs, any number of queues,  *)
(* any pin table and any commands: the generator stays inside its array,   *)
(* and the interrupt never shares an array with it; what it plays are the  *)
(* commanded pulses, if they fit the period.  Then about                   *)
(* OutputCalib, which decides the widths it plays, for any bounds, any     *)
(* values the host asks for and any width of the integers.                 *)
(***************************************************************************)
EXTENDS ServoOut, OutputCalib, Sequences, FiniteSetTheorems,
        WellFoundedInduction, TLAPS

\* A non-empty set of naturals has a least element, which Min returns.
LEMMA MinOfNaturals ==
    ASSUME NEW S \in SUBSET Nat, S # {}
    PROVE  Min(S) \in S /\ \A n \in S : Min(S) <= n
<1> DEFINE Less == OpToRel(<, Nat)
<1>1. IsWellFoundedOn(Less, Nat)
  BY NatLessThanWellFounded
<1>2. ASSUME NEW m \in Nat, NEW n \in Nat, n < m
      PROVE  <<n, m>> \in Less
  BY <1>2 DEF OpToRel
<1> HIDE DEF Less
<1>3. PICK m \in S : \A n \in S : <<n, m>> \notin Less
  BY <1>1, WFMin
<1>4. ASSUME NEW n \in S, n < m
      PROVE  FALSE
  <2>1. m \in Nat /\ n \in Nat
    OBVIOUS
  <2>2. <<n, m>> \in Less
    BY <1>2, <1>4, <2>1
  <2> QED
    BY <1>3, <2>2
<1>5. \A n \in S : m <= n
  BY <1>4
<1> QED
  BY <1>5 DEF Min

\* The next waiting time is bounded, and it is that of a running servo unless
\* no servo is left.
LEMMA NextTimeLeft ==
    ASSUME TypeOK, FindNextTimeLeft # MAX_UINT16
    PROVE  /\ FindNextTimeLeft \in 0..MaxServoPulse
           /\ \E s \in Running(finished) : time_left[s] = FindNextTimeLeft
           /\ \A s \in Running(finished) : FindNextTimeLeft <= time_left[s]
<1> DEFINE Times == {MAX_UINT16} \cup {time_left[s] : s \in Running(finished)}
<1>1. Times \in SUBSET Nat /\ Times # {}
  BY PulseAssumption DEF TypeOK, Running
<1>2. FindNextTimeLeft \in Times /\ \A t \in Times : FindNextTimeLeft <= t
  BY <1>1, MinOfNaturals DEF FindNextTimeLeft
<1> QED
  BY <1>2 DEF TypeOK, Running

\* The servos are finitely many.
LEMMA ServoFinite ==
    /\ IsFiniteSet(Servo)
    /\ Cardinality(Servo) = SERVO_MAX_NB
<1>1. 0 \in Int /\ SERVO_MAX_NB - 1 \in Int
  BY SizeAssumption
<1> QED
  BY <1>1, FS_Interval, SizeAssumption DEF Servo

\* The servos a frame has finished can be counted, and are no more than there are.
LEMMA FinishedCard ==
    ASSUME NEW done \in SUBSET Servo
    PROVE  /\ IsFiniteSet(done)
           /\ Cardinality(done) \in 0..SERVO_MAX_NB
           /\ done # Servo => Cardinality(done) < SERVO_MAX_NB
<1>1. IsFiniteSet(done) /\ Cardinality(done) <= Cardinality(Servo)
         /\ (Cardinality(Servo) = Cardinality(done) => Servo = done)
  BY ServoFinite, FS_Subset
<1>2. Cardinality(done) \in Nat
  BY <1>1, FS_CardinalityType
<1> QED
  BY <1>1, <1>2, ServoFinite, SizeAssumption

\* An iteration of the generator finishes at least one servo more.
LEMMA FinishedGrows ==
    ASSUME TypeOK, FindNextTimeLeft # MAX_UINT16,
           NEW ended, ended = {s \in Running(finished) :
                                    time_left[s] = FindNextTimeLeft}
    PROVE  /\ finished \cup ended \in SUBSET Servo
           /\ Cardinality(finished \cup ended) >= Cardinality(finished) + 1
           /\ finished # Servo
<1>1. PICK s \in Running(finished) : time_left[s] = FindNextTimeLeft
  BY NextTimeLeft
<1>2. s \in ended /\ s \in Servo /\ s \notin finished
  BY <1>1 DEF Running
<1>3. finished \cup {s} \in SUBSET Servo /\ finished \cup ended \in SUBSET Servo
  BY <1>2 DEF TypeOK, Running
<1>4. Cardinality(finished \cup {s}) = Cardinality(finished) + 1
  BY <1>2, FS_AddElement, FinishedCard DEF TypeOK
<1>5. Cardinality(finished \cup {s}) <= Cardinality(finished \cup ended)
  <2>1. IsFiniteSet(finished \cup ended)
    BY <1>3, FinishedCard
  <2>2. finished \cup {s} \in SUBSET (finished \cup ended)
    BY <1>2
  <2> QED
    BY <2>1, <2>2, FS_Subset
<1>6. /\ Cardinality(finished) \in Nat
      /\ Cardinality(finished \cup ended) \in Nat
  BY <1>3, FinishedCard DEF TypeOK
<1> QED
  BY <1>2, <1>3, <1>4, <1>5, <1>6

-----------------------------------------------------------------------------
(* What the assignments keep well typed *)

\* The timer registers are 16 bits wide: what is left after wrapping fits.
LEMMA WrapType ==
    ASSUME NEW n \in Int
    PROVE  n % (MAX_UINT16 + 1) \in Uint16
BY PulseAssumption DEF Uint16

\* A legal pulse, and a whole frame, fit the timer (servo_out_bb.c:63).
LEMMA PulsesFit ==
    /\ DefaultRaw \in Uint16
    /\ \A n \in Nat : n <= MaxServoPulse => n \in Uint16
    /\ \A n \in Uint16 : n \in Nat
BY PulseAssumption DEF Uint16

\* The value the core task asks for, a 16 bit rc_raw_t, is an integer (servo_out_bb.c:377).
LEMMA Int16IsInt == Int16Value \subseteq Int
<1>1. PICK highest \in Int : highest = 32767
  OBVIOUS
<1>2. Int16Value = -32768..highest
  BY <1>1 DEF Int16Value
<1> QED
  BY <1>2

\* What set_value stores is a legal pulse width (servo_out_bb.c:379-386).
LEMMA ClampType ==
    ASSUME NEW v \in Int16Value
    PROVE  Clamp(v) \in MinServoPulse..MaxServoPulse
<1>1. v \in Int
  BY Int16IsInt
<1>2. MinServoPulse \in Int /\ MaxServoPulse \in Int /\ MinServoPulse <= MaxServoPulse
  BY PulseAssumption
<1> QED
  BY <1>1, <1>2 DEF Clamp

\* A toggle mask is a set of servos.
LEMMA MaskType ==
    ASSUME NEW servos, servo_active \in SUBSET Servo
    PROVE  ToggleMask(servos) \in SUBSET ToggleBits
BY DEF ToggleMask, ToggleBits

\* Writing the mask of one step leaves a step array well typed.
LEMMA WriteToggle ==
    ASSUME NEW array \in [Address -> Step], NEW a \in Address,
           NEW mask \in SUBSET ToggleBits
    PROVE  [array EXCEPT ![a].gpio_toggle = mask] \in [Address -> Step]
BY DEF Step

\* Writing the time of one step leaves a step array well typed.
LEMMA WriteTime ==
    ASSUME NEW array \in [Address -> Step], NEW a \in Address,
           NEW ticks \in Uint16
    PROVE  [array EXCEPT ![a].time_to_next_step = ticks] \in [Address -> Step]
BY DEF Step

-----------------------------------------------------------------------------
(* The inductive invariant *)

\* The invariant holds once servobb_init has run.
LEMMA Initially == Init => IInv
<1> SUFFICES ASSUME Init PROVE IInv
  OBVIOUS
<1> USE SizeAssumption, PulseAssumption
<1>1. RefreshPeriod % (MAX_UINT16 + 1) \in Uint16
  BY WrapType
<1>2. steps \in [Address -> Step]
  <2>1. 0 \in Uint16
    BY DEF Uint16
  <2> QED
    BY <1>1, <2>1 DEF Init, Step
<1>3. Cardinality({}) = 0
  BY FS_EmptySet
<1>4. TypeOK
  <2>1. rc \in Uint16
    <3>1. rc = DefaultRaw
      BY DEF Init
    <3> QED
      BY <3>1, PulsesFit
  <2>2. 0 \in Address
    BY DEF Address, StepNb
  <2>3. timer_value \in [Servo -> MinServoPulse..MaxServoPulse]
    BY DEF Init
  <2>4. generated \in [{StepBuffer1, StepBuffer2} ->
            [pulse : [Servo -> MinServoPulse..MaxServoPulse],
             active : SUBSET Servo]]
    BY <2>3 DEF Init
  <2>5. time_left \in [Servo -> 0..MaxServoPulse] /\ high \in [Pins -> Nat]
    BY DEF Init
  <2> QED
    BY <1>2, <2>1, <2>2, <2>3, <2>4, <2>5 DEF Init, TypeOK, StepBuffer1
<1>5. ArraysAreNotShared
  BY DEF Init, ArraysAreNotShared, StepNb, StepBuffer1, StepBuffer2
<1>6. PointersFollowTask
  BY <1>3 DEF Init, PointersFollowTask, SwapPending, StepNb, StepBuffer1
<1> QED
  BY <1>4, <1>5, <1>6 DEF IInv

\* Every step of the core task and of the interrupt keeps it.
LEMMA Inductive == IInv /\ [Next]_vars => IInv'
<1> SUFFICES ASSUME IInv, [Next]_vars PROVE IInv'
  OBVIOUS
<1> USE SizeAssumption, PulseAssumption
<1> USE DEF IInv, StepNb, StepBuffer1, StepBuffer2, Address
<1>1. CASE UNCHANGED vars
  BY <1>1 DEF vars, task, current, next, signal, TypeOK, ArraysAreNotShared,
     PointersFollowTask, SwapPending, FindNextTimeLeft, FreeArray
<1>2. ASSUME NEW command \in Commands, SetOutputs(command)
      PROVE  IInv'
  <2>1. timer_value' \in [Servo -> MinServoPulse..MaxServoPulse]
    <3>1. ASSUME NEW s \in Servo
          PROVE  /\ Clamp(command[s].value) \in MinServoPulse..MaxServoPulse
                 /\ timer_value[s] \in MinServoPulse..MaxServoPulse
      BY ClampType, CommandAssumption DEF TypeOK
    <3> QED
      BY <1>2, <3>1 DEF SetOutputs
  <2> QED
    BY <1>2, <2>1 DEF SetOutputs, current, next, signal, TypeOK,
       ArraysAreNotShared, PointersFollowTask, SwapPending, FreeArray
<1>3. CASE KeepOutputs
  BY <1>3 DEF KeepOutputs, task, current, next, signal, TypeOK,
     ArraysAreNotShared, PointersFollowTask, SwapPending, FreeArray
<1>4. CASE ApplyBusy
  BY <1>4 DEF ApplyBusy, task, current, next, signal, TypeOK,
     ArraysAreNotShared, PointersFollowTask, SwapPending, FreeArray
<1>5. CASE ApplyBegin
  <2>1. FreeArray \in {StepBuffer1, StepBuffer2} /\ FreeArray \in Address
        /\ FreeArray # current_step_first
    BY DEF FreeArray, TypeOK
  <2>2. steps' \in [Address -> Step]
    BY <1>5, <2>1, MaskType, WriteToggle DEF ApplyBegin, TypeOK
  <2>3. TypeOK'
    <3>1. generated' \in [{StepBuffer1, StepBuffer2} ->
            [pulse : [Servo -> MinServoPulse..MaxServoPulse],
             active : SUBSET Servo]]
      BY <1>5, <2>1 DEF ApplyBegin, TypeOK
    <3>2. time_left' \in [Servo -> 0..MaxServoPulse]
      <4>1. ASSUME NEW s \in Servo
            PROVE  timer_value[s] \in 0..MaxServoPulse
        BY DEF TypeOK
      <4> QED
        BY <1>5, <4>1 DEF ApplyBegin, TypeOK
    <3>3. UNCHANGED <<timer_value, servo_active, current, next, signal,
                      irq_enabled>>
      BY <1>5 DEF ApplyBegin
    <3>4. /\ new_first' \in {StepBuffer1, StepBuffer2}
          /\ new_step' \in Address
          /\ finished' \in SUBSET Servo
          /\ refresh_period_needed' \in Int
          /\ pc' = "generate"
      BY <1>5, <2>1 DEF ApplyBegin
    <3> QED
      BY <2>2, <3>1, <3>2, <3>3, <3>4 DEF TypeOK, current, next, signal
  <2>4. ArraysAreNotShared'
    BY <1>5, <2>1 DEF ApplyBegin, ArraysAreNotShared, current, next,
       SwapPending, PointersFollowTask
  <2>5. Cardinality({}) = 0
    BY FS_EmptySet
  <2>6. PointersFollowTask'
    BY <1>5, <2>1, <2>5 DEF ApplyBegin, PointersFollowTask, current, next,
       SwapPending, FreeArray
  <2> QED
    BY <2>3, <2>4, <2>6
<1>6. CASE GenerateStep
  <2> DEFINE least == FindNextTimeLeft
             ended == {s \in Running(finished) : time_left[s] = least}
             started == Running(finished \cup ended) \ Running(finished)
  <2>1. /\ least \in 0..MaxServoPulse
        /\ \A s \in Running(finished) : least <= time_left[s]
    BY <1>6, NextTimeLeft DEF GenerateStep
  <2>2. /\ finished \cup ended \in SUBSET Servo
        /\ Cardinality(finished \cup ended) >= Cardinality(finished) + 1
        /\ finished # Servo
    BY <1>6, FinishedGrows DEF GenerateStep
  <2>3. /\ Cardinality(finished) \in 0..(SERVO_MAX_NB - 1)
        /\ Cardinality(finished \cup ended) \in 0..SERVO_MAX_NB
    BY <2>2, FinishedCard DEF TypeOK
  <2>4. /\ new_first \in {StepBuffer1, StepBuffer2}
        /\ new_step \in new_first..(new_first + Cardinality(finished))
        /\ new_step + 1 \in Address
    <3>1. pc = "generate"
      BY <1>6 DEF GenerateStep
    <3>2. new_first \in {StepBuffer1, StepBuffer2}
      BY DEF TypeOK
    <3>3. new_step \in new_first..(new_first + Cardinality(finished))
      BY <3>1 DEF PointersFollowTask
    <3> QED
      BY <2>3, <3>2, <3>3
  <2>5. ToggleMask(ended \cup started) \in SUBSET ToggleBits
    BY MaskType DEF TypeOK
  <2> HIDE DEF started
  <2>6. /\ finished' = finished \cup ended
        /\ new_step' = new_step + 1
        /\ steps' = [steps EXCEPT
              ![new_step].time_to_next_step = least,
              ![new_step + 1].gpio_toggle = ToggleMask(ended \cup started)]
        /\ refresh_period_needed' = refresh_period_needed - least
        /\ time_left' = [s \in Servo |->
              IF s \in Running(finished) THEN time_left[s] - least
                                         ELSE time_left[s]]
    BY <1>6 DEF GenerateStep, started
  <2> HIDE DEF least, ended
  <2>7. steps' \in [Address -> Step]
    <3> DEFINE timed == [steps EXCEPT ![new_step].time_to_next_step = least]
    <3>1. new_step \in Address /\ least \in Uint16 /\ steps \in [Address -> Step]
      <4>1. new_step \in Address /\ steps \in [Address -> Step]
        BY DEF TypeOK
      <4>2. least \in Uint16
        BY <2>1, PulsesFit
      <4> QED
        BY <4>1, <4>2
    <3>2. timed \in [Address -> Step]
      BY <3>1, WriteTime
    <3>3. steps' = [timed EXCEPT ![new_step + 1].gpio_toggle =
                                        ToggleMask(ended \cup started)]
      BY <2>6
    <3> QED
      BY <2>4, <2>5, <3>2, <3>3, WriteToggle
  <2>8. time_left' \in [Servo -> 0..MaxServoPulse]
    <3>1. ASSUME NEW s \in Servo
          PROVE  /\ time_left[s] \in 0..MaxServoPulse
                 /\ s \in Running(finished) =>
                        time_left[s] - least \in 0..MaxServoPulse
      BY <2>1 DEF TypeOK
    <3> QED
      BY <2>6, <3>1
  <2>9. TypeOK'
    <3>1. UNCHANGED <<timer_value, servo_active, new_first, pc, current, next,
                      signal, irq_enabled, generated>>
      BY <1>6 DEF GenerateStep
    <3>2. refresh_period_needed' \in Int
      <4>1. refresh_period_needed \in Int
        BY DEF TypeOK
      <4> QED
        BY <2>1, <2>6, <4>1
    <3>3. finished' \in SUBSET Servo /\ new_step' \in Address
      BY <2>2, <2>4, <2>6
    <3> QED
      BY <2>7, <2>8, <3>1, <3>2, <3>3 DEF TypeOK, current, next, signal
  <2>10. ArraysAreNotShared'
    BY <1>6 DEF GenerateStep, ArraysAreNotShared, current, next
  <2>11. PointersFollowTask'
    <3>1. UNCHANGED <<new_first, pc, current, next, irq_enabled>>
      BY <1>6 DEF GenerateStep
    <3>2. new_step' \in new_first..(new_first + Cardinality(finished'))
      BY <2>2, <2>3, <2>4, <2>6
    <3> QED
      BY <3>1, <3>2 DEF PointersFollowTask, current, next, SwapPending, FreeArray
  <2> QED
    BY <2>9, <2>10, <2>11
<1>7. CASE GenerateLast
  <2>1. refresh_period_needed % (MAX_UINT16 + 1) \in Uint16
    BY WrapType DEF TypeOK
  <2>2. steps' \in [Address -> Step]
    BY <1>7, <2>1, WriteTime DEF GenerateLast, TypeOK
  <2> QED
    BY <1>7, <2>2 DEF GenerateLast, task, current, next, signal, TypeOK,
       ArraysAreNotShared, PointersFollowTask, SwapPending, FreeArray
<1>8. CASE DisableInterrupt
  BY <1>8 DEF DisableInterrupt, task, current, next, signal, TypeOK,
     ArraysAreNotShared, PointersFollowTask, SwapPending, FreeArray
<1>9. CASE SwapFirst
  BY <1>9 DEF SwapFirst, task, current, next, signal, TypeOK,
     ArraysAreNotShared, PointersFollowTask, SwapPending, FreeArray
<1>10. CASE SwapLast
  <2>1. Cardinality(finished) \in 0..SERVO_MAX_NB
    BY FinishedCard DEF TypeOK
  <2>2. new_step \in new_first..(new_first + StepNb - 1)
    BY <1>10, <2>1 DEF SwapLast, PointersFollowTask, TypeOK
  <2> QED
    BY <1>10, <2>2 DEF SwapLast, task, current, next, signal, TypeOK,
       ArraysAreNotShared, PointersFollowTask, SwapPending, FreeArray
<1>11. CASE EnableInterrupt
  BY <1>11 DEF EnableInterrupt, task, current, next, signal, TypeOK,
     ArraysAreNotShared, PointersFollowTask, SwapPending, FreeArray
<1>12. CASE ServoHardTcIrq
  <2> DEFINE step == steps[current_step]
  <2>1. step \in Step
    BY DEF TypeOK
  <2>2. /\ step.time_to_next_step \in 0..MAX_UINT16
        /\ step.gpio_toggle \in SUBSET ToggleBits
    BY <2>1 DEF Step, Uint16
  <2>3. pins' \in SUBSET ToggleBits
    BY <1>12, <2>2 DEF ServoHardTcIrq, SymDiff, TypeOK
  <2> HIDE DEF step
  <2>4. high' \in [Pins -> Nat] /\ frame_time' \in Nat
    <3>1. ASSUME NEW p \in Pins
          PROVE  high[p] \in Nat
      BY DEF TypeOK
    <3>2. step.time_to_next_step \in Nat
      BY <2>2, PulsesFit DEF Uint16
    <3>3. frame_time \in Nat
      BY DEF TypeOK
    <3> QED
      BY <1>12, <3>1, <3>2, <3>3 DEF ServoHardTcIrq, MeasureSignal, step
  <2>5. /\ current_step' \in current_step_first'..current_step_last'
        /\ current_step_last' < current_step_first' + StepNb
        /\ current_step' \in Address /\ current_step_last' \in Address
        /\ current_step_first' \in {StepBuffer1, StepBuffer2}
        /\ ~SwapPending => /\ current_step_first' = current_step_first
                           /\ current_step_last' = current_step_last
        /\ (~SwapPending)' => next_step_last = current_step_last'
    BY <1>12 DEF ServoHardTcIrq, AdvanceStep, TypeOK, ArraysAreNotShared,
       PointersFollowTask, SwapPending, next
  <2>6. TypeOK'
    BY <1>12, <2>2, <2>3, <2>4, <2>5 DEF ServoHardTcIrq, TypeOK, task, next,
       step, Uint16
  <2>7. ArraysAreNotShared'
    BY <1>12, <2>5 DEF ServoHardTcIrq, ArraysAreNotShared, PointersFollowTask,
       SwapPending, task, next
  <2>8. PointersFollowTask'
    BY <1>12, <2>5 DEF ServoHardTcIrq, PointersFollowTask, SwapPending,
       FreeArray, task, next
  <2> QED
    BY <2>6, <2>7, <2>8
<1> QED
  BY <1>1, <1>2, <1>3, <1>4, <1>5, <1>6, <1>7, <1>8, <1>9, <1>10, <1>11, <1>12
     DEF Next, CoreTask

\* The invariant everything below follows from.
THEOREM Invariance == Spec => []IInv
<1>1. Init => IInv
  BY Initially
<1>2. IInv /\ [Next]_vars => IInv'
  BY Inductive
<1> QED
  BY <1>1, <1>2, PTL DEF Spec

\* Every variable keeps its type, for every number of outputs and queues.
THEOREM TypeCorrect == Spec => []TypeOK
<1>1. IInv => TypeOK
  BY DEF IInv
<1> QED
  BY <1>1, Invariance, PTL

\* The array the interrupt plays is never the one the task fills, and the
\* interrupt stays inside its array (servobb_apply_values and the handler).
THEOREM Exclusion == Spec => []ArraysAreNotShared
<1>1. IInv => ArraysAreNotShared
  BY DEF IInv
<1> QED
  BY <1>1, Invariance, PTL

\* generate_servo_step never writes past SERVO_MAX_NB+1 steps: an iteration
\* that opens one more step has finished one more servo.
THEOREM NoOverrun == Spec => []StepArrayNeverOverruns
<1>1. IInv => StepArrayNeverOverruns
  <2> SUFFICES ASSUME IInv, pc = "generate", FindNextTimeLeft # MAX_UINT16
               PROVE  new_step + 1 < new_first + StepNb
    BY DEF StepArrayNeverOverruns
  <2>1. finished # Servo
    BY FinishedGrows DEF IInv
  <2>2. Cardinality(finished) \in 0..(SERVO_MAX_NB - 1)
    BY <2>1, FinishedCard, SizeAssumption DEF IInv, TypeOK
  <2> QED
    BY <2>2, SizeAssumption DEF IInv, PointersFollowTask, TypeOK, StepNb,
       StepBuffer1, StepBuffer2
<1> QED
  BY <1>1, Invariance, PTL

-----------------------------------------------------------------------------
(* The two arrays implement the mailbox of whole frames *)

\* The steps of a complete array, from first to last, are a frame of at most
\* StepNb steps.
LEMMA FrameOf ==
    ASSUME steps \in [Address -> Step],
           NEW first \in Address, NEW last \in Address,
           last \in first..(first + StepNb - 1)
    PROVE  /\ StepsBetween(first, last) \in Seq(Step)
           /\ Len(StepsBetween(first, last)) = last - first + 1
           /\ Len(StepsBetween(first, last)) \in 1..StepNb
           /\ StepsBetween(first, last) # <<>>
<1> DEFINE n == last - first + 1
<1>1. n \in 1..StepNb /\ n \in Nat
  BY SizeAssumption DEF Address, StepNb
<1>2. \A i \in 1..n : first + i - 1 \in Address
  BY SizeAssumption DEF Address, StepNb
<1>3. StepsBetween(first, last) \in [1..n -> Step]
  BY <1>2 DEF StepsBetween
<1> HIDE DEF n
<1>4. StepsBetween(first, last) \in Seq(Step)
  BY <1>1, <1>3
<1>5. Len(StepsBetween(first, last)) = n
  BY <1>1, <1>3, <1>4
<1>6. StepsBetween(first, last) # <<>>
  BY <1>1, <1>5
<1> QED
  BY <1>1, <1>4, <1>5, <1>6 DEF n

\* Writing one array leaves the steps of the other one alone.
LEMMA FrameKept ==
    ASSUME IInv, NEW a \in Address, NEW b \in Address,
           a \in FreeArray..(FreeArray + StepNb - 1),
           b \in FreeArray..(FreeArray + StepNb - 1),
           \A x \in Address : x \notin {a, b} => steps'[x] = steps[x],
           UNCHANGED current
    PROVE  UNCHANGED StepsBetween(current_step_first, current_step_last)
<1>1. /\ current_step_first \in {StepBuffer1, StepBuffer2}
      /\ current_step_last \in Address
      /\ current_step_last < current_step_first + StepNb
  BY DEF IInv, TypeOK, ArraysAreNotShared
<1>2. ASSUME NEW i \in 1..(current_step_last - current_step_first + 1)
      PROVE  /\ current_step_first + i - 1 \in Address
             /\ current_step_first + i - 1 \notin {a, b}
  BY <1>1, SizeAssumption
     DEF FreeArray, Address, StepNb, StepBuffer1, StepBuffer2
<1> QED
  BY <1>2 DEF StepsBetween, current

\* The interrupt plays whole posted frames, in order and one at a time: the
\* double buffer is indistinguishable from the mailbox of FrameMailbox.
THEOREM Refinement == Spec => ImplementsMailbox
<1> USE SizeAssumption
<1>1. Init => Mailbox!Init
  <2> SUFFICES ASSUME Init PROVE Mailbox!Init
    OBVIOUS
  <2>1. TypeOK
    BY Initially DEF IInv
  <2>2. rc \in Nat
    BY <2>1, PulseAssumption DEF TypeOK, Uint16
  <2>3. /\ current_step_first = 0 /\ current_step_last = 0 /\ current_step = 0
        /\ next_step_first = 0 /\ pins = {}
    BY DEF Init, StepBuffer1
  <2>4. /\ StepsBetween(0, 0) \in Seq(Step)
        /\ Len(StepsBetween(0, 0)) = 1
        /\ Len(StepsBetween(0, 0)) \in 1..StepNb
    <3>1. 0 \in Address /\ 0 \in 0..(0 + StepNb - 1)
      BY DEF Address, StepNb
    <3>2. steps \in [Address -> Step]
      BY <2>1 DEF TypeOK
    <3>3. /\ StepsBetween(0, 0) \in Seq(Step)
          /\ Len(StepsBetween(0, 0)) = 0 - 0 + 1
          /\ Len(StepsBetween(0, 0)) \in 1..StepNb
      BY <3>1, <3>2, FrameOf
    <3> QED
      BY <3>3
  <2> QED
    BY <2>2, <2>3, <2>4 DEF Mailbox!Init, Mailbox!IsFrame
<1>2. IInv /\ [Next]_vars => [Mailbox!Next]_(Mailbox!vars)
  <2> SUFFICES ASSUME IInv, [Next]_vars
               PROVE  Mailbox!Next \/ UNCHANGED Mailbox!vars
    OBVIOUS
  <2>1. CASE \/ UNCHANGED vars \/ KeepOutputs \/ ApplyBusy
             \/ \E command \in Commands : SetOutputs(command)
    <3>1. UNCHANGED <<current, next, signal, steps>>
      BY <2>1 DEF vars, KeepOutputs, ApplyBusy, SetOutputs
    <3>2. (pc # "swap_last" /\ pc' # "swap_last") \/ pc' = pc
      BY <2>1 DEF vars, KeepOutputs, ApplyBusy, SetOutputs
    <3> QED
      BY <3>1, <3>2 DEF Mailbox!vars, StepsBetween, current, next, signal
  <2>2. CASE ApplyBegin
    <3>1. /\ FreeArray \in Address
          /\ FreeArray \in FreeArray..(FreeArray + StepNb - 1)
      BY DEF FreeArray, Address, StepNb, StepBuffer1, StepBuffer2
    <3>2. UNCHANGED <<current, next, signal>> /\ ~SwapPending
      BY <2>2 DEF ApplyBegin
    <3>3. \A x \in Address : x # FreeArray => steps'[x] = steps[x]
      BY <2>2 DEF ApplyBegin, IInv, TypeOK
    <3>4. UNCHANGED StepsBetween(current_step_first, current_step_last)
      BY <3>1, <3>2, <3>3, FrameKept
    <3> QED
      BY <3>2, <3>4 DEF Mailbox!vars, SwapPending, current, next, signal
  <2>3. CASE GenerateStep
    <3>1. /\ new_step \in FreeArray..(FreeArray + StepNb - 1)
          /\ new_step + 1 \in FreeArray..(FreeArray + StepNb - 1)
          /\ new_step \in Address /\ new_step + 1 \in Address
          /\ ~SwapPending
      <4>1. pc = "generate" /\ FindNextTimeLeft # MAX_UINT16
        BY <2>3 DEF GenerateStep
      <4>2. Cardinality(finished) \in 0..(SERVO_MAX_NB - 1)
        <5>1. finished # Servo
          BY <4>1, FinishedGrows DEF IInv
        <5> QED
          BY <5>1, FinishedCard DEF IInv, TypeOK
      <4>3. /\ new_step \in new_first..(new_first + Cardinality(finished))
            /\ new_first = FreeArray /\ ~SwapPending
        BY <4>1 DEF IInv, PointersFollowTask
      <4> QED
        BY <4>2, <4>3
           DEF FreeArray, Address, StepNb, StepBuffer1, StepBuffer2
    <3>2. UNCHANGED <<current, next, signal>>
      BY <2>3 DEF GenerateStep
    <3>3. \A x \in Address : x \notin {new_step, new_step + 1} =>
                steps'[x] = steps[x]
      BY <2>3 DEF GenerateStep, IInv, TypeOK
    <3>4. UNCHANGED StepsBetween(current_step_first, current_step_last)
      BY <3>1, <3>2, <3>3, FrameKept
    <3> QED
      BY <3>1, <3>2, <3>4 DEF Mailbox!vars, SwapPending, current, next, signal
  <2>4. CASE GenerateLast
    <3>1. /\ new_step \in FreeArray..(FreeArray + StepNb - 1)
          /\ new_step \in Address
          /\ ~SwapPending
      <4>1. pc = "generate"
        BY <2>4 DEF GenerateLast
      <4>2. Cardinality(finished) \in 0..SERVO_MAX_NB
        BY FinishedCard DEF IInv, TypeOK
      <4>3. /\ new_step \in new_first..(new_first + Cardinality(finished))
            /\ new_first = FreeArray /\ ~SwapPending
        BY <4>1 DEF IInv, PointersFollowTask
      <4> QED
        BY <4>2, <4>3
           DEF FreeArray, Address, StepNb, StepBuffer1, StepBuffer2
    <3>2. UNCHANGED <<current, next, signal>>
      BY <2>4 DEF GenerateLast
    <3>3. \A x \in Address : x # new_step => steps'[x] = steps[x]
      BY <2>4 DEF GenerateLast, IInv, TypeOK
    <3>4. UNCHANGED StepsBetween(current_step_first, current_step_last)
      BY <3>1, <3>2, <3>3, FrameKept
    <3> QED
      BY <3>1, <3>2, <3>4 DEF Mailbox!vars, SwapPending, current, next, signal
  <2>5. CASE DisableInterrupt \/ EnableInterrupt
    <3>1. UNCHANGED <<current, next, signal, steps>>
          /\ pc # "swap_last" /\ pc' # "swap_last"
      BY <2>5 DEF DisableInterrupt, EnableInterrupt
    <3> QED
      BY <3>1 DEF Mailbox!vars, StepsBetween, current, next, signal
  <2>6. CASE SwapFirst
    <3>1. UNCHANGED <<current, signal, steps>> /\ ~SwapPending
          /\ pc' = "swap_last"
      BY <2>6 DEF SwapFirst, IInv, PointersFollowTask
    <3> QED
      BY <3>1 DEF Mailbox!vars, StepsBetween, SwapPending, current, signal
  <2>7. CASE SwapLast
    <3>1. /\ UNCHANGED <<current, signal, steps, next_step_first>>
          /\ pc = "swap_last" /\ pc' = "enable"
          /\ SwapPending /\ next_step_first = new_first
          /\ next_step_last' = new_step
      BY <2>7 DEF SwapLast, IInv, PointersFollowTask
    <3>2. /\ new_first \in Address /\ new_step \in Address
          /\ new_step \in new_first..(new_first + StepNb - 1)
      <4>1. Cardinality(finished) \in 0..SERVO_MAX_NB
        BY FinishedCard DEF IInv, TypeOK
      <4> QED
        BY <3>1, <4>1 DEF IInv, PointersFollowTask, TypeOK, Address, StepNb,
           StepBuffer1, StepBuffer2
    <3>3. /\ StepsBetween(new_first, new_step) \in Seq(Step)
          /\ Len(StepsBetween(new_first, new_step)) \in 1..StepNb
      BY <3>2, FrameOf DEF IInv, TypeOK
    <3>4. StepsBetween(next_step_first, next_step_last)'
                = StepsBetween(new_first, new_step)
      BY <3>1 DEF StepsBetween
    <3>5. Mailbox!Post
      BY <3>1, <3>3, <3>4 DEF Mailbox!Post, Mailbox!IsFrame, StepsBetween,
         SwapPending, current, signal
    <3> QED
      BY <3>5 DEF Mailbox!Next
  <2>8. CASE ServoHardTcIrq
    <3> DEFINE playing == StepsBetween(current_step_first, current_step_last)
               at == current_step - current_step_first + 1
    <3>1. /\ pc # "swap_last" /\ pc' = pc
          /\ UNCHANGED <<steps, next>>
          /\ current_step \in current_step_first..current_step_last
          /\ current_step_last < current_step_first + StepNb
          /\ current_step_first \in {StepBuffer1, StepBuffer2}
          /\ current_step_last \in Address
          /\ ~SwapPending => next_step_last = current_step_last
      BY <2>8 DEF ServoHardTcIrq, IInv, TypeOK, ArraysAreNotShared,
         PointersFollowTask
    <3>2. /\ Len(playing) = current_step_last - current_step_first + 1
          /\ playing[at] = steps[current_step]
      <4>1. /\ current_step_first \in Address
            /\ current_step_last \in
                    current_step_first..(current_step_first + StepNb - 1)
        BY <3>1 DEF Address, StepNb, StepBuffer1, StepBuffer2
      <4>2. Len(playing) = current_step_last - current_step_first + 1
        BY <3>1, <4>1, FrameOf DEF IInv, TypeOK
      <4>3. /\ at \in 1..(current_step_last - current_step_first + 1)
            /\ current_step_first + at - 1 = current_step
        BY <3>1, <4>1 DEF Address
      <4> QED
        BY <4>2, <4>3 DEF StepsBetween
    <3>3. Mailbox!Emit(playing[at])
      BY <2>8, <3>2 DEF Mailbox!Emit, Mailbox!SymDiff, ServoHardTcIrq, SymDiff
    <3>4. CASE current_step < current_step_last
      <4>1. /\ current_step' = current_step + 1
            /\ UNCHANGED <<current_step_first, current_step_last>>
        BY <2>8, <3>1, <3>4 DEF ServoHardTcIrq, AdvanceStep, Address,
           StepBuffer1, StepBuffer2, StepNb
      <4>2. /\ at < Len(playing) /\ at' = at + 1
            /\ UNCHANGED playing
        BY <3>1, <3>2, <3>4, <4>1 DEF StepsBetween, Address, StepBuffer1,
           StepBuffer2, StepNb
      <4>3. UNCHANGED (IF current_step_first = next_step_first
                          \/ pc = "swap_last"
                       THEN <<>>
                       ELSE StepsBetween(next_step_first, next_step_last))
        BY <3>1, <4>1 DEF StepsBetween, next
      <4> QED
        BY <3>3, <4>2, <4>3 DEF Mailbox!Next, Mailbox!Play
    <3>5. CASE ~(current_step < current_step_last)
      <4>1. /\ current_step = current_step_last
            /\ current_step' = next_step_first
            /\ current_step_first' = next_step_first
            /\ current_step_last' = next_step_last
        BY <2>8, <3>1, <3>5 DEF ServoHardTcIrq, AdvanceStep, Address,
           StepBuffer1, StepBuffer2, StepNb
      <4>2. at = Len(playing)
        BY <3>2, <4>1
      <4>3. at' = 1
        <5>1. next_step_first \in {StepBuffer1, StepBuffer2}
          BY DEF IInv, TypeOK
        <5> QED
          BY <4>1, <5>1 DEF StepBuffer1, StepBuffer2, StepNb
      <4>4. playing' = StepsBetween(next_step_first, next_step_last)
        BY <3>1, <4>1 DEF StepsBetween
      <4>5. StepsBetween(next_step_first, next_step_last) # <<>>
        <5>1. /\ next_step_first \in Address /\ next_step_last \in Address
              /\ next_step_last \in
                    next_step_first..(next_step_first + StepNb - 1)
          BY <3>1 DEF IInv, TypeOK, PointersFollowTask, Address, StepNb,
             StepBuffer1, StepBuffer2
        <5> QED
          BY <5>1, FrameOf DEF IInv, TypeOK
      <4>6. ~SwapPending => playing' = playing
        BY <3>1, <4>4 DEF SwapPending
      <4>7. current_step_first' = next_step_first'
        BY <3>1, <4>1 DEF next
      <4> QED
        BY <3>1, <3>3, <4>2, <4>3, <4>4, <4>5, <4>6, <4>7
           DEF Mailbox!Next, Mailbox!PlayLast, SwapPending
    <3> QED
      BY <3>4, <3>5
  <2> QED
    BY <2>1, <2>2, <2>3, <2>4, <2>5, <2>6, <2>7, <2>8 DEF Next, CoreTask
<1> QED
  BY <1>1, <1>2, Invariance, PTL DEF Spec, ImplementsMailbox, Mailbox!Spec

-----------------------------------------------------------------------------
(* Frames are faithful: the invariant *)

\* One address past each array, for the time at which its last step ends.
Moment == 0..(2 * StepNb)

\* The array plays the frame: clock is the time each step begins at, and an
\* active output rises at one step and falls at another, its pulse later.
Timetable(array, first, last, frame, clock, rise, fall) ==
    /\ clock[first] = 0
    /\ clock[last + 1] = RefreshPeriod
    /\ \A a \in first..last :
            clock[a + 1] = clock[a] + array[a].time_to_next_step
    /\ \A a \in first..last : \A s \in Servo :
            ToggleBit(s) \in array[a].gpio_toggle
                <=> s \in frame.active /\ (rise[s] = a \/ fall[s] = a)
    /\ \A s \in frame.active :
            /\ first <= rise[s] /\ rise[s] < fall[s] /\ fall[s] <= last
            /\ clock[fall[s]] = clock[rise[s]] + frame.pulse[s]

Whole(array, first, last, frame) ==
    \E clock \in [Moment -> Int], rise \in [Servo -> Moment],
       fall \in [Servo -> Moment] :
        Timetable(array, first, last, frame, clock, rise, fall)

\* The part of a frame played so far is on the pins.
Played(frame, clock, rise, fall) ==
    /\ \A s \in Servo :
            ToggleBit(s) \in pins
                <=> /\ s \in frame.active
                    /\ rise[s] < current_step /\ current_step <= fall[s]
    /\ current_step # current_step_first =>
            /\ frame_time = clock[current_step]
            /\ \A s \in Servo :
                high[IO_BB_PINS[s]] =
                    IF s \notin frame.active \/ current_step <= rise[s] THEN 0
                    ELSE IF current_step <= fall[s]
                    THEN clock[current_step] - clock[rise[s]]
                    ELSE frame.pulse[s]

Playing ==
    \E clock \in [Moment -> Int], rise \in [Servo -> Moment],
       fall \in [Servo -> Moment] :
        /\ Timetable(steps, current_step_first, current_step_last,
                     generated[current_step_first], clock, rise, fall)
        /\ Played(generated[current_step_first], clock, rise, fall)

\* The part of a frame generated so far: the servos that are finished have both
\* edges, those that run have the first one and what is left of their pulses,
\* and no pulse has begun after the time that leaves room for its queue.
Filled(begin, clock, rise, fall) ==
    /\ clock[new_first] = 0
    /\ clock[new_step] = RefreshPeriod - refresh_period_needed
    /\ 0 <= clock[new_step] /\ clock[new_step] <= RefreshPeriod
    /\ \A a \in new_first..(new_step - 1) :
            clock[a + 1] = clock[a] + steps[a].time_to_next_step
    /\ \A a \in new_first..new_step : \A s \in Servo :
            ToggleBit(s) \in steps[a].gpio_toggle
                <=> /\ s \in servo_active
                    /\ \/ s \in finished \cup Running(finished) /\ rise[s] = a
                       \/ s \in finished /\ fall[s] = a
    /\ \A s \in finished :
            /\ new_first <= rise[s] /\ rise[s] < fall[s] /\ fall[s] <= new_step
            /\ clock[fall[s]] = clock[rise[s]] + timer_value[s]
    /\ \A s \in Running(finished) :
            /\ new_first <= rise[s] /\ rise[s] <= new_step
            /\ clock[new_step] = clock[rise[s]] + timer_value[s] - time_left[s]
            /\ time_left[s] > 0
    /\ \A s \in Servo \ (finished \cup Running(finished)) :
            time_left[s] = timer_value[s]
    /\ \A s \in finished \cup Running(finished) : clock[rise[s]] <= begin[s]

QueuesInTurn ==
    \A s \in finished : \A t \in Servo :
        Queue(t) = Queue(s) /\ t < s => t \in finished

Filling(begin) ==
    pc = "generate" =>
        /\ generated[new_first] =
                [pulse |-> timer_value, active |-> servo_active]
        /\ QueuesInTurn
        /\ \E clock \in [Moment -> Int], rise \in [Servo -> Moment],
              fall \in [Servo -> Moment] : Filled(begin, clock, rise, fall)

\* Between the generator and the interrupt a frame is whole.
HandedOver ==
    /\ pc \in {"disable", "swap_first", "swap_last"} =>
            Whole(steps, new_first, new_step, generated[new_first])
    /\ SwapPending /\ pc # "swap_last" =>
            Whole(steps, next_step_first, next_step_last,
                  generated[next_step_first])

WidthsAreAsked == \A s \in Servo : timer_value[s] \in Widths(s)

FrameInv(begin) == WidthsAreAsked /\ Playing /\ Filling(begin) /\ HandedOver

\* A frame depends on its own steps only.
LEMMA TimetableKept ==
    ASSUME NEW array, NEW other, NEW first \in Address, NEW last \in Address,
           NEW frame, NEW clock, NEW rise, NEW fall,
           \A a \in first..last : other[a] = array[a],
           Timetable(array, first, last, frame, clock, rise, fall)
    PROVE  Timetable(other, first, last, frame, clock, rise, fall)
BY DEF Timetable

LEMMA WholeKept ==
    ASSUME NEW array, NEW other, NEW first \in Address, NEW last \in Address,
           NEW frame,
           \A a \in first..last : other[a] = array[a],
           Whole(array, first, last, frame)
    PROVE  Whole(other, first, last, frame)
<1>1. PICK clock \in [Moment -> Int], rise \in [Servo -> Moment],
           fall \in [Servo -> Moment] :
                Timetable(array, first, last, frame, clock, rise, fall)
  BY DEF Whole
<1>2. Timetable(other, first, last, frame, clock, rise, fall)
  BY <1>1, TimetableKept
<1> QED
  BY <1>2 DEF Whole

\* What the core task writes in the free array is not being played.
LEMMA PlayingKept ==
    ASSUME Playing, UNCHANGED <<current, signal>>,
           current_step_first \in Address, current_step_last \in Address,
           generated'[current_step_first] = generated[current_step_first],
           \A a \in current_step_first..current_step_last : steps'[a] = steps[a]
    PROVE  Playing'
<1> DEFINE frame == generated[current_step_first]
<1>1. PICK clock \in [Moment -> Int], rise \in [Servo -> Moment],
           fall \in [Servo -> Moment] :
             /\ Timetable(steps, current_step_first, current_step_last,
                          frame, clock, rise, fall)
             /\ Played(frame, clock, rise, fall)
  BY DEF Playing
<1>2. Timetable(steps', current_step_first, current_step_last, frame,
                clock, rise, fall)
  BY <1>1, TimetableKept
<1>3. UNCHANGED <<current_step, current_step_first, current_step_last, pins, high,
                  frame_time>>
  BY DEF current, signal
<1>4. frame' = frame
  BY <1>3
<1> HIDE DEF frame
<1>5. Played(frame, clock, rise, fall)'
  BY <1>1, <1>3, <1>4 DEF Played
<1>6. Timetable(steps', current_step_first', current_step_last', frame',
                clock, rise, fall)
  BY <1>2, <1>3, <1>4
<1> QED
  BY <1>5, <1>6 DEF Playing, frame

-----------------------------------------------------------------------------
(* The interrupt *)

\* Outputs with pins of their own have bits of their own.
LEMMA BitsAreDistinct ==
    ASSUME PinsFit
    PROVE  /\ \A s \in Servo : ToggleBit(s) = IO_BB_PINS[s] /\ IO_BB_PINS[s] \in Pins
           /\ \A s, t \in Servo : ToggleBit(s) = ToggleBit(t) => s = t
<1>1. \A n \in Nat : n < 32 => n % 32 = n
  OBVIOUS
<1>2. \A s \in Servo : ToggleBit(s) = IO_BB_PINS[s]
  BY <1>1, PinAssumption DEF PinsFit, ToggleBit
<1> QED
  BY <1>2 DEF PinsFit, Pins

LEMMA MaskHas ==
    ASSUME PinsFit, NEW servos \in SUBSET Servo, NEW s \in Servo
    PROVE  ToggleBit(s) \in ToggleMask(servos) <=> s \in servos /\ s \in servo_active
BY BitsAreDistinct DEF ToggleMask

\* What the interrupt leaves on the pins and on the clock, one step later.
LEMMA StepIsPlayed ==
    ASSUME IInv, PinsFit, ServoHardTcIrq,
           NEW frame, frame.active \in SUBSET Servo, frame.pulse \in [Servo -> Nat],
           NEW clock \in [Moment -> Int],
           NEW rise \in [Servo -> Moment], NEW fall \in [Servo -> Moment],
           Timetable(steps, current_step_first, current_step_last, frame,
                     clock, rise, fall),
           Played(frame, clock, rise, fall)
    PROVE  /\ \A s \in Servo :
                ToggleBit(s) \in pins'
                    <=> /\ s \in frame.active
                        /\ rise[s] < current_step + 1 /\ current_step + 1 <= fall[s]
           /\ frame_time' = clock[current_step + 1]
           /\ \A s \in Servo :
                high'[IO_BB_PINS[s]] =
                    IF s \notin frame.active \/ current_step + 1 <= rise[s] THEN 0
                    ELSE IF current_step + 1 <= fall[s]
                    THEN clock[current_step + 1] - clock[rise[s]]
                    ELSE frame.pulse[s]
<1> DEFINE a == current_step
           step == steps[a]
           first == current_step_first
<1>1. /\ first \in Nat /\ current_step_last \in Nat
      /\ a \in first..current_step_last /\ a \in Nat
      /\ a \in Moment /\ a + 1 \in Moment
  BY SizeAssumption DEF IInv, TypeOK, ArraysAreNotShared, StepBuffer1,
     StepBuffer2, StepNb, Address, Moment
<1>2. /\ \A s \in Servo :
            ToggleBit(s) \in step.gpio_toggle
                <=> s \in frame.active /\ (rise[s] = a \/ fall[s] = a)
      /\ \A s \in frame.active :
            /\ first <= rise[s] /\ rise[s] < fall[s]
            /\ fall[s] <= current_step_last
            /\ clock[fall[s]] = clock[rise[s]] + frame.pulse[s]
      /\ clock[a + 1] = clock[a] + step.time_to_next_step
      /\ clock[first] = 0
  BY <1>1 DEF Timetable
<1>3. \A s \in Servo : rise[s] \in Int /\ fall[s] \in Int
  BY SizeAssumption DEF Moment, StepNb
<1>4. step.time_to_next_step \in Int
  <2>1. step \in Step
    BY DEF IInv, TypeOK
  <2> QED
    BY <2>1, PulseAssumption DEF Step, Uint16
<1>5. /\ pins' = SymDiff(pins, step.gpio_toggle)
      /\ high' = [p \in Pins |->
              (IF a = first THEN 0 ELSE high[p])
              + (IF p \in pins' THEN step.time_to_next_step ELSE 0)]
      /\ frame_time' = (IF a = first THEN 0 ELSE frame_time)
                            + step.time_to_next_step
  BY DEF ServoHardTcIrq, MeasureSignal
<1>6. \A s \in Servo :
        ToggleBit(s) \in pins
            <=> s \in frame.active /\ rise[s] < a /\ a <= fall[s]
  BY DEF Played
<1>7. /\ clock[a] \in Int /\ clock[a + 1] \in Int
      /\ \A s \in Servo : clock[rise[s]] \in Int /\ clock[fall[s]] \in Int
                          /\ frame.pulse[s] \in Int
  <2>1. clock[a] \in Int /\ clock[a + 1] \in Int
    BY <1>1
  <2>2. ASSUME NEW s \in Servo
        PROVE  /\ rise[s] \in Moment /\ fall[s] \in Moment
               /\ frame.pulse[s] \in Nat
    OBVIOUS
  <2> QED
    BY <2>1, <2>2
<1>8. a # first =>
        /\ frame_time = clock[a]
        /\ \A s \in Servo :
            high[IO_BB_PINS[s]] =
                IF s \notin frame.active \/ a <= rise[s] THEN 0
                ELSE IF a <= fall[s] THEN clock[a] - clock[rise[s]]
                ELSE frame.pulse[s]
  BY DEF Played
<1>9. a \in Int /\ first \in Int /\ first <= a
  BY <1>1
<1> HIDE DEF a, step, first
<1>10. ASSUME NEW s \in Servo
       PROVE  ToggleBit(s) \in pins'
                <=> s \in frame.active /\ rise[s] < a + 1 /\ a + 1 <= fall[s]
  <2>1. ToggleBit(s) \in pins' <=> ~(ToggleBit(s) \in pins <=> ToggleBit(s) \in step.gpio_toggle)
    BY <1>5 DEF SymDiff
  <2>2. CASE s \in frame.active
    <3>1. ToggleBit(s) \in pins <=> rise[s] < a /\ a <= fall[s]
      BY <1>6, <2>2
    <3>2. ToggleBit(s) \in step.gpio_toggle <=> rise[s] = a \/ fall[s] = a
      BY <1>2, <2>2
    <3>3. rise[s] < fall[s] /\ rise[s] \in Int /\ fall[s] \in Int
      BY <1>2, <1>3, <2>2
    <3> QED
      BY <1>9, <2>1, <2>2, <3>1, <3>2, <3>3
  <2>3. CASE s \notin frame.active
    BY <1>2, <1>6, <2>1, <2>3
  <2> QED
    BY <2>2, <2>3
<1>11. frame_time' = clock[a + 1]
  BY <1>2, <1>4, <1>5, <1>7, <1>8
<1>12. ASSUME NEW s \in Servo
       PROVE  high'[IO_BB_PINS[s]] =
                IF s \notin frame.active \/ a + 1 <= rise[s] THEN 0
                ELSE IF a + 1 <= fall[s] THEN clock[a + 1] - clock[rise[s]]
                ELSE frame.pulse[s]
  <2> DEFINE before == IF a = first THEN 0 ELSE high[IO_BB_PINS[s]]
             more == IF IO_BB_PINS[s] \in pins' THEN step.time_to_next_step ELSE 0
  <2>1. high'[IO_BB_PINS[s]] = before + more
    BY <1>5, BitsAreDistinct
  <2>2. IO_BB_PINS[s] \in pins'
            <=> s \in frame.active /\ rise[s] < a + 1 /\ a + 1 <= fall[s]
    BY <1>10, BitsAreDistinct
  <2>3. CASE s \in frame.active
    <3>1. /\ first <= rise[s] /\ rise[s] < fall[s]
          /\ clock[fall[s]] = clock[rise[s]] + frame.pulse[s]
          /\ rise[s] \in Int /\ fall[s] \in Int
      BY <1>2, <1>3, <2>3
    <3>2. before = IF a <= rise[s] THEN 0
                   ELSE IF a <= fall[s] THEN clock[a] - clock[rise[s]]
                   ELSE frame.pulse[s]
      <4>1. CASE a = first
        BY <1>9, <3>1, <4>1
      <4>2. CASE a # first
        BY <1>8, <2>3, <4>2
      <4> QED
        BY <4>1, <4>2
    <3>3. more = IF rise[s] < a + 1 /\ a + 1 <= fall[s]
                 THEN step.time_to_next_step ELSE 0
      BY <2>2, <2>3
    <3>4. /\ clock[a] \in Int /\ clock[a + 1] \in Int /\ clock[rise[s]] \in Int
          /\ clock[fall[s]] \in Int /\ frame.pulse[s] \in Int
          /\ step.time_to_next_step \in Int
          /\ clock[a + 1] = clock[a] + step.time_to_next_step
      BY <1>2, <1>4, <1>7
    <3> HIDE DEF before, more
    <3>5. CASE a < rise[s]
      BY <1>9, <2>1, <2>3, <3>1, <3>2, <3>3, <3>5
    <3>6. CASE a = rise[s]
      BY <1>9, <2>1, <2>3, <3>1, <3>2, <3>3, <3>4, <3>6
    <3>7. CASE rise[s] < a /\ a < fall[s]
      BY <1>9, <2>1, <2>3, <3>1, <3>2, <3>3, <3>4, <3>7
    <3>8. CASE a = fall[s]
      BY <1>9, <2>1, <2>3, <3>1, <3>2, <3>3, <3>4, <3>8
    <3>9. CASE a > fall[s]
      BY <1>9, <2>1, <2>3, <3>1, <3>2, <3>3, <3>4, <3>9
    <3> QED
      BY <1>9, <3>1, <3>5, <3>6, <3>7, <3>8, <3>9
  <2>4. CASE s \notin frame.active
    <3>1. before = 0
      BY <1>8, <2>4
    <3>2. more = 0
      BY <2>2, <2>4
    <3> QED
      BY <2>1, <2>4, <3>1, <3>2
  <2> QED
    BY <2>3, <2>4
<1> QED
  BY <1>10, <1>11, <1>12 DEF a

\* A frame played to its end has been played as it was commanded.
LEMMA FrameIsPlayed ==
    ASSUME IInv, PinsFit, Playing, FrameEnds
    PROVE  LET from == generated[current_step_first]
           IN  /\ pins' = {}
               /\ frame_time' = RefreshPeriod
               /\ \A s \in Servo : high'[IO_BB_PINS[s]] =
                      IF s \in from.active THEN from.pulse[s] ELSE 0
<1> DEFINE frame == generated[current_step_first]
<1>1. PICK clock \in [Moment -> Int], rise \in [Servo -> Moment],
           fall \in [Servo -> Moment] :
             /\ Timetable(steps, current_step_first, current_step_last,
                          frame, clock, rise, fall)
             /\ Played(frame, clock, rise, fall)
  BY DEF Playing
<1>2. frame.active \in SUBSET Servo /\ frame.pulse \in [Servo -> Nat]
  BY PulseAssumption DEF IInv, TypeOK
<1> HIDE DEF frame
<1>3. /\ \A s \in frame.active : rise[s] < fall[s] /\ fall[s] <= current_step_last
      /\ clock[current_step_last + 1] = RefreshPeriod
  BY <1>1 DEF Timetable
<1>4. current_step = current_step_last /\ ServoHardTcIrq
  BY DEF FrameEnds
<1>5. current_step \in Int /\ \A s \in Servo : rise[s] \in Int /\ fall[s] \in Int
  BY SizeAssumption DEF IInv, TypeOK, Moment, Address, StepNb
<1>6. /\ \A s \in Servo :
            ToggleBit(s) \in pins'
                <=> /\ s \in frame.active
                    /\ rise[s] < current_step + 1 /\ current_step + 1 <= fall[s]
      /\ frame_time' = clock[current_step + 1]
      /\ \A s \in Servo :
            high'[IO_BB_PINS[s]] =
                IF s \notin frame.active \/ current_step + 1 <= rise[s] THEN 0
                ELSE IF current_step + 1 <= fall[s]
                THEN clock[current_step + 1] - clock[rise[s]]
                ELSE frame.pulse[s]
  BY <1>1, <1>2, <1>4, StepIsPlayed
<1>7. pins' = {}
  <2>1. \A s \in Servo : ToggleBit(s) \notin pins'
    BY <1>2, <1>3, <1>4, <1>5, <1>6
  <2>2. pins' \in SUBSET ToggleBits
    BY <1>4, Inductive DEF Next, IInv, TypeOK
  <2> QED
    BY <2>1, <2>2 DEF ToggleBits
<1>8. ASSUME NEW s \in Servo
      PROVE  high'[IO_BB_PINS[s]] = IF s \in frame.active THEN frame.pulse[s] ELSE 0
  BY <1>2, <1>3, <1>4, <1>5, <1>6
<1> QED
  BY <1>3, <1>4, <1>6, <1>7, <1>8 DEF frame

\* An interrupt plays on in its array, and begins the next one with pins low.
LEMMA PlayingIrq ==
    ASSUME IInv, PinsFit, Playing, HandedOver, ServoHardTcIrq
    PROVE  Playing' /\ HandedOver'
<1> DEFINE frame == generated[current_step_first]
<1>1. PICK clock \in [Moment -> Int], rise \in [Servo -> Moment],
           fall \in [Servo -> Moment] :
             /\ Timetable(steps, current_step_first, current_step_last,
                          frame, clock, rise, fall)
             /\ Played(frame, clock, rise, fall)
  BY DEF Playing
<1>2. frame.active \in SUBSET Servo /\ frame.pulse \in [Servo -> Nat]
  BY PulseAssumption DEF IInv, TypeOK
<1>3. UNCHANGED <<steps, generated, pc, new_first, new_step, next_step_first,
                  next_step_last>>
  BY DEF ServoHardTcIrq, task, next
<1>4. pc \notin {"swap_first", "swap_last", "enable"}
  BY DEF ServoHardTcIrq, IInv, PointersFollowTask
<1>5. /\ current_step \in current_step_first..current_step_last
      /\ current_step_first \in Nat /\ current_step_last \in Nat
  BY SizeAssumption DEF IInv, TypeOK, ArraysAreNotShared, StepBuffer1,
     StepBuffer2, StepNb, Address
<1> HIDE DEF frame
<1>6. CASE current_step # current_step_last
  <2>1. /\ current_step' = current_step + 1
        /\ UNCHANGED <<current_step_first, current_step_last>>
    BY <1>5, <1>6 DEF ServoHardTcIrq, AdvanceStep
  <2>2. Played(frame, clock, rise, fall)'
    BY <1>1, <1>2, <1>3, <1>5, <2>1, StepIsPlayed DEF Played, frame
  <2>3. frame' = frame
    BY <1>3, <2>1 DEF frame
  <2>4. Timetable(steps', current_step_first', current_step_last', frame',
                  clock, rise, fall)
    BY <1>1, <1>3, <2>1, <2>3
  <2>5. Playing'
    BY <2>2, <2>3, <2>4 DEF Playing, frame
  <2>6. HandedOver'
    BY <1>3, <2>1 DEF HandedOver, SwapPending
  <2> QED
    BY <2>5, <2>6
<1>7. CASE current_step = current_step_last
  <2>1. /\ current_step' = next_step_first
        /\ current_step_first' = next_step_first
        /\ current_step_last' = next_step_last
    BY <1>5, <1>7 DEF ServoHardTcIrq, AdvanceStep
  <2>2. Whole(steps, next_step_first, next_step_last, generated[next_step_first])
    <3>1. CASE SwapPending
      BY <1>4, <3>1 DEF HandedOver
    <3>2. CASE ~SwapPending
      <4>1. next_step_first = current_step_first /\ next_step_last = current_step_last
        BY <3>2 DEF SwapPending, IInv, PointersFollowTask
      <4> QED
        BY <1>1, <4>1 DEF Whole, frame
    <3> QED
      BY <3>1, <3>2
  <2>3. pins' = {}
    BY <1>7, FrameIsPlayed DEF FrameEnds
  <2>4. PICK clock2 \in [Moment -> Int], rise2 \in [Servo -> Moment],
             fall2 \in [Servo -> Moment] :
                Timetable(steps, next_step_first, next_step_last,
                          generated[next_step_first], clock2, rise2, fall2)
    BY <2>2 DEF Whole
  <2>5. Timetable(steps', current_step_first', current_step_last',
                  generated'[current_step_first'], clock2, rise2, fall2)
    BY <1>3, <2>1, <2>4
  <2>6. Played(generated[current_step_first], clock2, rise2, fall2)'
    <3>1. \A s \in generated[next_step_first].active : next_step_first <= rise2[s]
      BY <2>4 DEF Timetable
    <3>2. /\ next_step_first \in Int /\ \A s \in Servo : rise2[s] \in Int
          /\ generated[next_step_first].active \in SUBSET Servo
      BY SizeAssumption DEF IInv, TypeOK, StepBuffer1, StepBuffer2, StepNb, Moment
    <3>3. /\ generated' = generated
          /\ current_step_first' = next_step_first
          /\ current_step' = current_step_first'
      BY <1>3, <2>1
    <3>4. \A s \in Servo : s \in generated[next_step_first].active =>
              ~(rise2[s] < next_step_first)
      BY <3>1, <3>2
    <3>5. \A s \in Servo : ToggleBit(s) \notin pins'
      BY <2>3
    <3> QED
      BY <3>3, <3>4, <3>5 DEF Played
  <2>7. Playing'
    BY <2>5, <2>6 DEF Playing
  <2>8. ~SwapPending' /\ pc \notin {"swap_first", "swap_last"}
    BY <1>3, <1>4, <2>1 DEF SwapPending
  <2>9. HandedOver'
    BY <1>3, <2>8 DEF HandedOver
  <2> QED
    BY <2>7, <2>9
<1> QED
  BY <1>6, <1>7

-----------------------------------------------------------------------------
(* The queues *)

\* Products of naturals keep the order.
LEMMA ProductMonotone ==
  ASSUME NEW n \in Nat, NEW p \in Nat, NEW q \in Nat, p <= q
  PROVE  n * p <= n * q
  BY Z3

\* Numbers that leave the same remainder are a whole number of turns apart.
LEMMA TurnsApart ==
    ASSUME NEW n \in Nat \ {0}, NEW a \in Nat, NEW b \in Nat,
           a % n = b % n, a < b
    PROVE  a + n <= b /\ (b - n) % n = b % n
<1> DEFINE p == a \div n
           q == b \div n
           r == b % n
<1>1. /\ p \in Nat /\ q \in Nat /\ r \in Nat /\ r < n
      /\ a = n * p + r /\ b = n * q + r
  BY Z3
<1> HIDE DEF p, q, r
<1>3. p < q
  <2> SUFFICES ASSUME q <= p PROVE FALSE
    BY <1>1
  <2>1. n * q <= n * p
    BY <1>1, ProductMonotone
  <2>2. n * q \in Nat /\ n * p \in Nat
    BY <1>1
  <2> QED
    BY <1>1, <2>1, <2>2
<1>4. n * (p + 1) <= n * q
  BY <1>1, <1>3, ProductMonotone
<1>5. n * (p + 1) = n * p + n /\ n * p \in Nat /\ n * q \in Nat
  BY <1>1
<1>6. a + n <= b
  BY <1>1, <1>4, <1>5
<1>7. (b - n) % n = r
  <2> DEFINE x == (b - n) \div n
             y == (b - n) % n
  <2>1. b - n \in Nat
    BY <1>1, <1>6
  <2>2. x \in Nat /\ y \in Nat /\ y < n /\ b - n = n * x + y
    BY <2>1, Z3
  <2> HIDE DEF x, y
  <2>3. n * (x + 1) = n * x + n /\ n * (q + 1) = n * q + n /\ n * (x + 2) = n * x + 2 * n
        /\ n * x \in Nat
    BY <1>1, <2>2
  <2>4. CASE x + 1 < q
    <3>1. n * (x + 2) <= n * q
      BY <1>1, <2>2, <2>4, ProductMonotone
    <3> QED
      BY <1>1, <1>5, <2>2, <2>3, <3>1
  <2>5. CASE q < x + 1
    <3>1. n * (q + 1) <= n * (x + 1)
      BY <1>1, <2>2, <2>5, ProductMonotone
    <3> QED
      BY <1>1, <1>5, <2>2, <2>3, <3>1
  <2>6. CASE q = x + 1
    BY <1>1, <1>5, <2>2, <2>3, <2>6 DEF y
  <2> QED
    BY <1>1, <2>2, <2>4, <2>5, <2>6
<1> QED
  BY <1>6, <1>7 DEF r

\* The servo ahead in a queue is MAX_QUEUE_NB before.
LEMMA ServoAhead ==
    ASSUME NEW s \in Servo, NEW t \in Servo, Queue(t) = Queue(s), t < s
    PROVE  /\ s - MAX_QUEUE_NB \in Servo
           /\ Queue(s - MAX_QUEUE_NB) = Queue(s)
           /\ t <= s - MAX_QUEUE_NB
<1>1. s \in Nat /\ t \in Nat /\ MAX_QUEUE_NB \in Nat \ {0} /\ SERVO_MAX_NB \in Nat
  BY SizeAssumption DEF Servo
<1>2. t + MAX_QUEUE_NB <= s /\ (s - MAX_QUEUE_NB) % MAX_QUEUE_NB = s % MAX_QUEUE_NB
  <2>1. t % MAX_QUEUE_NB = s % MAX_QUEUE_NB
    BY DEF Queue
  <2> QED
    BY <1>1, <2>1, TurnsApart
<1> QED
  BY <1>1, <1>2 DEF Servo, Queue

\* When pulses end, the queues' other heads run on and the servos right behind
\* the ended ones start.
LEMMA HeadsFollow ==
    ASSUME finished \in SUBSET Servo, QueuesInTurn,
           NEW ended \in SUBSET Running(finished)
    PROVE  /\ Running(finished \cup ended) \in SUBSET (Servo \ (finished \cup ended))
           /\ Running(finished) \ ended \in SUBSET Running(finished \cup ended)
           /\ \A s \in Running(finished \cup ended) \ Running(finished) :
                    s - MAX_QUEUE_NB \in ended
           /\ \A s \in finished \cup ended : \A t \in Servo :
                    Queue(t) = Queue(s) /\ t < s => t \in finished \cup ended
<1> DEFINE done == finished \cup ended
<1>1. \A s \in Servo : s \in Int
  BY SizeAssumption DEF Servo
<1>2. Running(done) \in SUBSET (Servo \ done)
  BY DEF Running
<1>3. Running(finished) \ ended \in SUBSET Running(done)
  BY DEF Running
<1>4. ASSUME NEW s \in Running(done) \ Running(finished)
      PROVE  s - MAX_QUEUE_NB \in ended
  <2>1. s \in Servo \ done
    BY DEF Running
  <2>2. PICK t \in Servo \ finished : Queue(t) = Queue(s) /\ t < s
    BY <1>1, <2>1 DEF Running
  <2>3. /\ s - MAX_QUEUE_NB \in Servo
        /\ Queue(s - MAX_QUEUE_NB) = Queue(s)
        /\ t <= s - MAX_QUEUE_NB
    BY <2>1, <2>2, ServoAhead
  <2>4. s - MAX_QUEUE_NB \notin finished
    <3>1. t = s - MAX_QUEUE_NB \/ t < s - MAX_QUEUE_NB
      BY <1>1, <2>2, <2>3
    <3> QED
      BY <2>2, <2>3, <3>1 DEF QueuesInTurn
  <2>5. s - MAX_QUEUE_NB < s
    BY <1>1, <2>1, SizeAssumption
  <2>6. s - MAX_QUEUE_NB \in done
    <3> SUFFICES ASSUME s - MAX_QUEUE_NB \notin done PROVE FALSE
      OBVIOUS
    <3>1. s <= s - MAX_QUEUE_NB
      BY <2>3 DEF Running
    <3> QED
      BY <1>1, <2>1, <2>3, <2>5, <3>1
  <2> QED
    BY <2>4, <2>6
<1>5. ASSUME NEW s \in done, NEW t \in Servo, Queue(t) = Queue(s), t < s
      PROVE  t \in done
  <2>1. CASE s \in finished
    BY <1>5, <2>1 DEF QueuesInTurn
  <2>2. CASE s \in ended
    <3>1. s \in Servo /\ \A u \in Servo \ finished : Queue(u) = Queue(s) => s <= u
      BY <2>2 DEF Running
    <3>2. ~(s <= t)
      BY <1>1, <1>5, <3>1
    <3> QED
      BY <1>5, <3>1, <3>2
  <2> QED
    BY <2>1, <2>2
<1> QED
  BY <1>2, <1>3, <1>4, <1>5

\* When the generator's loop ends every servo is finished.
LEMMA NoneIsLeft ==
    ASSUME TypeOK, FindNextTimeLeft = MAX_UINT16
    PROVE  Running(finished) = {} /\ finished = Servo
<1> DEFINE Times == {MAX_UINT16} \cup {time_left[s] : s \in Running(finished)}
<1>1. Running(finished) = {}
  <2> SUFFICES ASSUME NEW s \in Running(finished) PROVE FALSE
    OBVIOUS
  <2>1. Times \in SUBSET Nat /\ Times # {}
    BY PulseAssumption DEF TypeOK, Running
  <2>2. \A t \in Times : MAX_UINT16 <= t
    BY <2>1, MinOfNaturals DEF FindNextTimeLeft
  <2>3. MAX_UINT16 <= time_left[s] /\ time_left[s] \in 0..MaxServoPulse
    BY <2>2 DEF TypeOK, Running
  <2> QED
    BY <2>3, PulseAssumption
<1>2. finished = Servo
  <2> SUFFICES ASSUME Servo \ finished # {} PROVE FALSE
    BY DEF TypeOK
  <2>1. Servo \ finished \in SUBSET Nat
    BY SizeAssumption DEF Servo
  <2>2. PICK m \in Servo \ finished : \A t \in Servo \ finished : m <= t
    BY <2>1, MinOfNaturals
  <2>3. m \in Running(finished)
    BY <2>2 DEF Running
  <2> QED
    BY <1>1, <2>3
<1> QED
  BY <1>1, <1>2

-----------------------------------------------------------------------------
(* The generator *)

\* Where the generator writes, and that it writes in the free array.
LEMMA WritePosition ==
    ASSUME IInv, pc = "generate"
    PROVE  /\ new_first \in Nat /\ new_step \in Nat /\ new_first <= new_step
           /\ new_step < new_first + StepNb
           /\ new_first \in {StepBuffer1, StepBuffer2}
           /\ \A a \in new_first..(new_step + 1) : a \in Moment /\ a \in Nat
           /\ \A a \in new_first..new_step : a \in Address
           /\ FindNextTimeLeft # MAX_UINT16 => new_step + 1 \in Address
           /\ current_step_first # new_first /\ ~SwapPending
           /\ current_step_first \in Address /\ current_step_last \in Address
           /\ \A a \in current_step_first..current_step_last :
                    /\ a \in Address /\ a # new_step
                    /\ FindNextTimeLeft # MAX_UINT16 => a # new_step + 1
<1> USE SizeAssumption DEF StepNb, StepBuffer1, StepBuffer2, Address
<1>1. Cardinality(finished) \in 0..SERVO_MAX_NB
  BY FinishedCard DEF IInv, TypeOK
<1>2. ASSUME FindNextTimeLeft # MAX_UINT16
      PROVE  Cardinality(finished) \in 0..(SERVO_MAX_NB - 1)
  <2>1. finished # Servo
    BY <1>2, FinishedGrows DEF IInv
  <2> QED
    BY <2>1, FinishedCard DEF IInv, TypeOK
<1>3. /\ new_step \in new_first..(new_first + Cardinality(finished))
      /\ new_first = FreeArray /\ ~SwapPending
      /\ current_step_first \in {StepBuffer1, StepBuffer2}
      /\ current_step_last \in Address
      /\ current_step_last < current_step_first + StepNb
  BY DEF IInv, TypeOK, PointersFollowTask, ArraysAreNotShared
<1>4. /\ new_first \in {StepBuffer1, StepBuffer2} /\ new_first # current_step_first
  BY <1>3 DEF FreeArray
<1>5. new_first \in Nat /\ new_step \in Nat /\ new_first <= new_step
        /\ new_step < new_first + StepNb
        /\ (FindNextTimeLeft # MAX_UINT16 => new_step + 1 < new_first + StepNb)
  BY <1>1, <1>2, <1>3, <1>4
<1>6. \A a \in new_first..(new_step + 1) : a \in Moment /\ a \in Nat
  BY <1>4, <1>5 DEF Moment
<1>7. /\ \A a \in new_first..new_step : a \in Address
      /\ FindNextTimeLeft # MAX_UINT16 => new_step + 1 \in Address
  BY <1>4, <1>5
<1>8. \A a \in current_step_first..current_step_last :
            /\ a \in Address /\ a # new_step
            /\ FindNextTimeLeft # MAX_UINT16 => a # new_step + 1
  BY <1>3, <1>4, <1>5
<1> QED
  BY <1>3, <1>4, <1>5, <1>6, <1>7, <1>8

\* The first step starts the head of every queue at the time 0.
LEMMA FillingBegins ==
    ASSUME IInv, PinsFit, NEW begin \in [Servo -> Nat], ApplyBegin
    PROVE  Filling(begin)'
<1>1. PICK target \in {StepBuffer1, StepBuffer2} :
        target = FreeArray /\ target \in Address /\ target \in Moment /\ target \in Nat
  BY SizeAssumption DEF FreeArray, StepBuffer1, StepBuffer2, Address, Moment, StepNb
<1>2. /\ new_first' = target /\ new_step' = target
      /\ steps' = [steps EXCEPT ![target].gpio_toggle = ToggleMask(Running({}))]
      /\ generated' = [generated EXCEPT ![target] =
                   [pulse |-> timer_value, active |-> servo_active]]
      /\ time_left' = timer_value
      /\ finished' = {}
      /\ refresh_period_needed' = RefreshPeriod
      /\ pc' = "generate"
      /\ UNCHANGED <<timer_value, servo_active>>
  BY <1>1 DEF ApplyBegin
<1>3. steps \in [Address -> Step]
        /\ generated \in [{StepBuffer1, StepBuffer2} ->
            [pulse : [Servo -> MinServoPulse..MaxServoPulse],
             active : SUBSET Servo]]
  BY DEF IInv, TypeOK
<1>4. steps'[target].gpio_toggle = ToggleMask(Running({}))
  BY <1>1, <1>2, <1>3 DEF Step
<1>5. Running(finished)' = Running({})
  BY <1>2 DEF Running
<1>6. Running({}) \in SUBSET Servo
  BY DEF Running
<1>7. \A s \in Servo : ToggleBit(s) \in steps'[target].gpio_toggle
            <=> s \in Running({}) /\ s \in servo_active
  BY <1>4, <1>6, MaskHas
<1>8. \A s \in Servo : timer_value[s] \in Nat /\ timer_value[s] > 0 /\ begin[s] \in Nat
  BY PulseAssumption DEF IInv, TypeOK
<1>9. PICK clock \in [Moment -> Int] : clock = [a \in Moment |-> 0]
  <2>1. [a \in Moment |-> 0] \in [Moment -> Int]
    OBVIOUS
  <2> QED
    BY <2>1
<1>10. PICK edges \in [Servo -> Moment] : edges = [s \in Servo |-> target]
  BY <1>1
<1>11. RefreshPeriod \in Nat
  BY PulseAssumption
<1>12. Filled(begin, clock, edges, edges)'
  <2>1. /\ clock[target] = RefreshPeriod - RefreshPeriod
        /\ 0 <= clock[target] /\ clock[target] <= RefreshPeriod
        /\ target..(target - 1) = {} /\ target..target = {target}
    BY <1>1, <1>9, <1>11
  <2>2. \A s \in Running({}) :
            /\ target <= edges[s] /\ edges[s] <= target
            /\ clock[target] = clock[edges[s]] + timer_value[s] - timer_value[s]
            /\ timer_value[s] > 0
            /\ clock[edges[s]] <= begin[s]
    BY <1>1, <1>6, <1>8, <1>9, <1>10
  <2>3. \A a \in target..target : \A s \in Servo :
            ToggleBit(s) \in steps'[a].gpio_toggle
                <=> /\ s \in servo_active
                    /\ \/ s \in {} \cup Running({}) /\ edges[s] = a
                       \/ s \in {} /\ edges[s] = a
    BY <1>7, <1>10, <2>1
  <2>4. \A s \in Servo \ ({} \cup Running({})) : timer_value[s] = timer_value[s]
    OBVIOUS
  <2> QED
    BY <1>1, <1>2, <1>5, <1>9, <2>1, <2>2, <2>3 DEF Filled
<1>13. generated'[target] = [pulse |-> timer_value, active |-> servo_active]
  BY <1>1, <1>2, <1>3
<1>14. QueuesInTurn'
  BY <1>2 DEF QueuesInTurn
<1> QED
  BY <1>2, <1>12, <1>13, <1>14 DEF Filling

\* An iteration ends the shortest pulses and starts the ones behind them.
LEMMA FillingGoesOn ==
    ASSUME IInv, PinsFit, NEW begin \in [Servo -> Nat], PulsesFollow(begin),
           WidthsAreAsked, Filling(begin), GenerateStep
    PROVE  Filling(begin)'
<1> USE DEF Moment
<1>1. PICK n \in Nat, first \in Nat, least \in Int, done \in SUBSET Servo,
           heads \in SUBSET Servo :
        /\ n = new_step /\ first = new_first /\ least = FindNextTimeLeft
        /\ done = finished /\ heads = Running(finished)
  <2>1. new_step \in Nat /\ new_first \in Nat
    BY WritePosition DEF GenerateStep
  <2>2. FindNextTimeLeft \in Int
    BY NextTimeLeft, PulseAssumption DEF IInv, GenerateStep
  <2> QED
    BY <2>1, <2>2 DEF IInv, TypeOK, Running
<1>2. PICK ended \in SUBSET heads, started \in SUBSET Servo :
        /\ ended = {s \in heads : time_left[s] = least}
        /\ started = Running(done \cup ended) \ heads
  BY DEF Running
<1>3. /\ pc = "generate" /\ pc' = "generate"
      /\ FindNextTimeLeft # MAX_UINT16
      /\ new_first' = first /\ new_step' = n + 1
      /\ steps' = [steps EXCEPT
              ![n].time_to_next_step = least,
              ![n + 1].gpio_toggle = ToggleMask(ended \cup started)]
      /\ refresh_period_needed' = refresh_period_needed - least
      /\ time_left' = [s \in Servo |->
              IF s \in heads THEN time_left[s] - least ELSE time_left[s]]
      /\ finished' = done \cup ended
      /\ UNCHANGED <<timer_value, servo_active, generated>>
  BY <1>1, <1>2 DEF GenerateStep
<1>4. /\ first <= n /\ n \in Address /\ n + 1 \in Address
      /\ \A a \in first..(n + 1) : a \in Moment /\ a \in Nat
      /\ \A a \in first..n : a \in Address
  BY <1>1, <1>3, WritePosition
<1>5. /\ generated[first] = [pulse |-> timer_value, active |-> servo_active]
      /\ QueuesInTurn
  BY <1>1, <1>3 DEF Filling
<1>6. PICK clock \in [Moment -> Int], rise \in [Servo -> Moment],
           fall \in [Servo -> Moment] : Filled(begin, clock, rise, fall)
  BY <1>3 DEF Filling
<1>7. /\ heads \in SUBSET (Servo \ done)
      /\ Running(finished)' = (heads \ ended) \cup started
      /\ started \in SUBSET (Servo \ (done \cup heads))
      /\ \A s \in started : s - MAX_QUEUE_NB \in ended
      /\ QueuesInTurn'
  <2>1. Running(finished)' = Running(done \cup ended)
    BY <1>3 DEF Running
  <2>2. /\ Running(done \cup ended) \in SUBSET (Servo \ (done \cup ended))
        /\ heads \ ended \in SUBSET Running(done \cup ended)
        /\ \A s \in Running(done \cup ended) \ heads : s - MAX_QUEUE_NB \in ended
        /\ \A s \in done \cup ended : \A t \in Servo :
                Queue(t) = Queue(s) /\ t < s => t \in done \cup ended
    BY <1>1, <1>5, HeadsFollow
  <2>3. heads \in SUBSET (Servo \ done)
    BY <1>1 DEF Running
  <2> QED
    BY <1>2, <1>3, <2>1, <2>2, <2>3 DEF QueuesInTurn
<1>8. PICK clock2 \in [Moment -> Int], rise2 \in [Servo -> Moment],
           fall2 \in [Servo -> Moment] :
        /\ clock2 = [clock EXCEPT ![n + 1] = clock[n] + least]
        /\ rise2 = [s \in Servo |-> IF s \in started THEN n + 1 ELSE rise[s]]
        /\ fall2 = [s \in Servo |-> IF s \in ended THEN n + 1 ELSE fall[s]]
  <2>1. n \in Moment /\ n + 1 \in Moment
    BY <1>4
  <2>2. clock[n] + least \in Int
    BY <2>1
  <2> HIDE DEF Moment
  <2> QED
    BY <2>1, <2>2
<1>9. /\ \A a \in first..n : clock2[a] = clock[a]
      /\ clock2[n + 1] = clock[n] + least
      /\ \A s \in Servo : /\ rise2[s] = IF s \in started THEN n + 1 ELSE rise[s]
                          /\ fall2[s] = IF s \in ended THEN n + 1 ELSE fall[s]
  BY <1>4, <1>8
<1>10. /\ clock[first] = 0
       /\ clock[n] = RefreshPeriod - refresh_period_needed
       /\ 0 <= clock[n] /\ clock[n] <= RefreshPeriod
       /\ \A a \in first..(n - 1) : clock[a + 1] = clock[a] + steps[a].time_to_next_step
       /\ \A a \in first..n : \A s \in Servo :
            ToggleBit(s) \in steps[a].gpio_toggle
                <=> /\ s \in servo_active
                    /\ \/ s \in done \cup heads /\ rise[s] = a
                       \/ s \in done /\ fall[s] = a
       /\ \A s \in done :
            /\ first <= rise[s] /\ rise[s] < fall[s] /\ fall[s] <= n
            /\ clock[fall[s]] = clock[rise[s]] + timer_value[s]
       /\ \A s \in heads :
            /\ first <= rise[s] /\ rise[s] <= n
            /\ clock[n] = clock[rise[s]] + timer_value[s] - time_left[s]
            /\ time_left[s] > 0
       /\ \A s \in Servo \ (done \cup heads) : time_left[s] = timer_value[s]
       /\ \A s \in done \cup heads : clock[rise[s]] <= begin[s]
  BY <1>1, <1>6 DEF Filled
<1>11. /\ least \in Nat
       /\ \A s \in heads : least <= time_left[s]
       /\ \E s \in heads : time_left[s] = least
  BY <1>1, <1>3, NextTimeLeft, PulseAssumption DEF IInv
<1>12. ASSUME NEW s \in Servo
       PROVE  /\ timer_value[s] \in Nat /\ timer_value[s] > 0
              /\ time_left[s] \in Nat /\ begin[s] \in Nat
              /\ rise[s] \in Nat /\ fall[s] \in Nat
  <2>1. /\ timer_value[s] \in MinServoPulse..MaxServoPulse
        /\ time_left[s] \in 0..MaxServoPulse
    BY DEF IInv, TypeOK
  <2>2. /\ \A i \in MinServoPulse..MaxServoPulse : i \in Nat /\ i > 0
        /\ \A i \in 0..MaxServoPulse : i \in Nat
    BY PulseAssumption
  <2>3. rise[s] \in Moment /\ fall[s] \in Moment
    <3> HIDE DEF Moment
    <3> QED
      OBVIOUS
  <2>4. \A a \in Moment : a \in Nat
    BY SizeAssumption DEF StepNb
  <2> QED
    BY <2>1, <2>2, <2>3, <2>4
<1>13. \A a \in first..(n + 1) : clock[a] \in Int /\ clock2[a] \in Int
  BY <1>4
<1> HIDE DEF Moment
<1>14. /\ refresh_period_needed \in Int /\ RefreshPeriod \in Nat
  BY PulseAssumption DEF IInv, TypeOK
<1>15. /\ \A a \in Address : a # n => steps'[a].time_to_next_step = steps[a].time_to_next_step
       /\ steps'[n].time_to_next_step = least
       /\ \A a \in Address : a # n + 1 => steps'[a].gpio_toggle = steps[a].gpio_toggle
       /\ steps'[n + 1].gpio_toggle = ToggleMask(ended \cup started)
  <2>1. steps \in [Address -> Step]
    BY DEF IInv, TypeOK
  <2>2. n # n + 1
    OBVIOUS
  <2> QED
    BY <1>3, <1>4, <2>1, <2>2 DEF Step
\* The clock
<1>16. /\ clock2[first] = 0
       /\ clock2[n + 1] = RefreshPeriod - refresh_period_needed'
       /\ \A a \in first..n : clock2[a + 1] = clock2[a] + steps'[a].time_to_next_step
  <2>1. clock2[first] = 0
    BY <1>4, <1>9, <1>10
  <2>2. clock2[n + 1] = RefreshPeriod - refresh_period_needed'
    BY <1>3, <1>4, <1>9, <1>10, <1>11, <1>14
  <2>3. ASSUME NEW a \in first..n
        PROVE  clock2[a + 1] = clock2[a] + steps'[a].time_to_next_step
    <3>1. CASE a = n
      BY <1>4, <1>9, <1>15, <3>1
    <3>2. CASE a # n
      <4>1. a \in first..(n - 1) /\ a + 1 \in first..n /\ a \in Address
        BY <1>4, <3>2
      <4> QED
        BY <1>9, <1>10, <1>15, <3>2, <4>1
    <3> QED
      BY <3>1, <3>2
  <2> QED
    BY <2>1, <2>2, <2>3
\* The pulses that ended
<1>17. ASSUME NEW s \in done \cup ended
       PROVE  /\ first <= rise2[s] /\ rise2[s] < fall2[s] /\ fall2[s] <= n + 1
              /\ clock2[fall2[s]] = clock2[rise2[s]] + timer_value[s]
              /\ rise2[s] = rise[s] /\ s \in Servo
  <2>1. s \in Servo /\ s \notin started /\ rise2[s] = rise[s]
    BY <1>2, <1>7, <1>9
  <2>2. CASE s \in ended
    <3>1. /\ first <= rise[s] /\ rise[s] <= n
          /\ clock[n] = clock[rise[s]] + timer_value[s] - least
          /\ fall2[s] = n + 1
      <4>1. s \in heads /\ time_left[s] = least
        BY <1>2, <2>2
      <4>2. fall2[s] = n + 1
        BY <1>9, <2>1, <2>2
      <4> QED
        BY <1>10, <4>1, <4>2
    <3>2. rise[s] \in first..n /\ n \in first..n
      BY <1>4, <1>12, <2>1, <3>1
    <3>3. clock2[rise[s]] = clock[rise[s]] /\ clock[rise[s]] \in Int /\ clock[n] \in Int
      BY <1>4, <1>9, <1>13, <3>2
    <3> QED
      BY <1>9, <1>11, <1>12, <2>1, <3>1, <3>2, <3>3
  <2>3. CASE s \notin ended
    <3>1. /\ s \in done /\ fall2[s] = fall[s]
          /\ first <= rise[s] /\ rise[s] < fall[s] /\ fall[s] <= n
          /\ clock[fall[s]] = clock[rise[s]] + timer_value[s]
      BY <1>9, <1>10, <2>1, <2>3
    <3>2. rise[s] \in first..n /\ fall[s] \in first..n
      BY <1>4, <1>12, <2>1, <3>1
    <3> QED
      BY <1>9, <2>1, <3>1, <3>2
  <2> QED
    BY <2>2, <2>3
\* The pulses that go on or start
<1>18. ASSUME NEW s \in (heads \ ended) \cup started
       PROVE  /\ first <= rise2[s] /\ rise2[s] <= n + 1
              /\ clock2[n + 1] = clock2[rise2[s]] + timer_value[s] - time_left'[s]
              /\ time_left'[s] > 0
              /\ s \in Servo
  <2>1. s \in Servo
    OBVIOUS
  <2>2. CASE s \in started
    <3>1. /\ s \notin heads /\ s \notin done /\ rise2[s] = n + 1
          /\ time_left'[s] = timer_value[s]
      BY <1>3, <1>7, <1>9, <1>10, <2>1, <2>2
    <3>2. clock2[n + 1] \in Int /\ n + 1 >= first
      BY <1>4, <1>13
    <3> QED
      BY <1>4, <1>12, <2>1, <3>1, <3>2
  <2>3. CASE s \in heads \ ended
    <3>1. /\ s \notin started /\ rise2[s] = rise[s]
          /\ time_left'[s] = time_left[s] - least
          /\ time_left[s] # least /\ least <= time_left[s]
          /\ first <= rise[s] /\ rise[s] <= n
          /\ clock[n] = clock[rise[s]] + timer_value[s] - time_left[s]
      BY <1>2, <1>3, <1>7, <1>9, <1>10, <1>11, <2>1, <2>3
    <3>2. rise[s] \in first..n /\ n \in first..n
      BY <1>4, <1>12, <2>1, <3>1
    <3>3. clock2[rise[s]] = clock[rise[s]] /\ clock[rise[s]] \in Int /\ clock[n] \in Int
      BY <1>4, <1>9, <1>13, <3>2
    <3> QED
      BY <1>9, <1>11, <1>12, <2>1, <3>1, <3>2, <3>3
  <2> QED
    BY <2>2, <2>3
\* The room of the queues
<1>19. ASSUME NEW s \in heads
       PROVE  /\ clock[n] + time_left[s] <= RefreshPeriod
              /\ s + MAX_QUEUE_NB \in Servo =>
                    clock[n] + time_left[s] <= begin[s + MAX_QUEUE_NB]
  <2>1. /\ s \in Servo /\ timer_value[s] \in Widths(s)
        /\ clock[n] = clock[rise[s]] + timer_value[s] - time_left[s]
        /\ clock[rise[s]] <= begin[s]
        /\ first <= rise[s] /\ rise[s] <= n
    BY <1>10 DEF WidthsAreAsked
  <2>2. /\ begin[s] + timer_value[s] <= RefreshPeriod
        /\ s + MAX_QUEUE_NB \in Servo =>
                begin[s] + timer_value[s] <= begin[s + MAX_QUEUE_NB]
    BY <2>1 DEF PulsesFollow
  <2>3. rise[s] \in first..(n + 1) /\ n \in first..(n + 1)
    BY <1>4, <1>12, <2>1
  <2>4. clock[rise[s]] \in Int /\ clock[n] \in Int
    BY <1>13, <2>3
  <2> QED
    BY <1>12, <1>14, <2>1, <2>2, <2>4
<1>20. 0 <= clock2[n + 1] /\ clock2[n + 1] <= RefreshPeriod
  <2>1. clock2[n + 1] <= RefreshPeriod
    BY <1>9, <1>11, <1>19
  <2>2. n \in first..(n + 1)
    BY <1>4
  <2>3. clock[n] \in Int
    BY <1>13, <2>2
  <2> QED
    BY <1>9, <1>10, <1>11, <2>1, <2>3
<1>21. ASSUME NEW s \in (done \cup ended) \cup ((heads \ ended) \cup started)
       PROVE  clock2[rise2[s]] <= begin[s]
  <2>1. CASE s \in started
    <3>1. s - MAX_QUEUE_NB \in ended /\ s \in Servo
      BY <1>7, <2>1
    <3>2. /\ s - MAX_QUEUE_NB \in heads
          /\ time_left[s - MAX_QUEUE_NB] = least
      BY <1>2, <3>1
    <3>3. (s - MAX_QUEUE_NB) + MAX_QUEUE_NB = s
      BY <3>1, SizeAssumption DEF Servo
    <3>4. clock[n] + least <= begin[s]
      BY <1>19, <3>1, <3>2, <3>3
    <3> QED
      BY <1>9, <2>1, <3>1, <3>4
  <2>2. CASE s \notin started
    <3>1. s \in done \cup heads /\ s \in Servo /\ rise2[s] = rise[s]
      BY <1>2, <1>9, <2>2
    <3>2. first <= rise[s] /\ rise[s] <= n
      <4>1. n \in Nat /\ rise[s] \in Nat /\ fall[s] \in Nat
        BY <1>12, <3>1
      <4> QED
        BY <1>10, <3>1, <4>1
    <3>3. rise[s] \in first..n
      BY <1>12, <3>1, <3>2
    <3> QED
      BY <1>9, <1>10, <3>1, <3>3
  <2> QED
    BY <2>1, <2>2
\* The toggles
<1>22. ASSUME NEW a \in first..(n + 1), NEW s \in Servo
       PROVE  ToggleBit(s) \in steps'[a].gpio_toggle
                <=> /\ s \in servo_active
                    /\ \/ s \in (done \cup ended) \cup ((heads \ ended) \cup started)
                            /\ rise2[s] = a
                       \/ s \in done \cup ended /\ fall2[s] = a
  <2>1. CASE a = n + 1
    <3>1. ToggleBit(s) \in steps'[a].gpio_toggle
            <=> s \in ended \cup started /\ s \in servo_active
      BY <1>15, <2>1, MaskHas
    <3>2. s \in (done \cup ended) \cup ((heads \ ended) \cup started) =>
            (rise2[s] = n + 1 <=> s \in started)
      <4>1. ASSUME s \in done \cup heads PROVE rise[s] < n + 1
        BY <1>10, <1>12, <4>1
      <4> QED
        BY <1>2, <1>9, <1>12, <4>1
    <3>3. s \in done \cup ended => (fall2[s] = n + 1 <=> s \in ended)
      BY <1>9, <1>10, <1>12
    <3> QED
      BY <1>2, <2>1, <3>1, <3>2, <3>3
  <2>2. CASE a # n + 1
    <3>1. a \in first..n /\ a \in Address /\ a \in Int /\ a < n + 1
      BY <1>4, <2>2
    <3>2. ToggleBit(s) \in steps'[a].gpio_toggle
                <=> /\ s \in servo_active
                    /\ \/ s \in done \cup heads /\ rise[s] = a
                       \/ s \in done /\ fall[s] = a
      BY <1>10, <1>15, <2>2, <3>1
    <3>3. s \in (done \cup ended) \cup ((heads \ ended) \cup started) /\ rise2[s] = a
            <=> s \in done \cup heads /\ rise[s] = a
      BY <1>2, <1>7, <1>9, <2>2, <3>1
    <3>4. s \in done \cup ended /\ fall2[s] = a <=> s \in done /\ fall[s] = a
      BY <1>2, <1>7, <1>9, <2>2, <3>1
    <3> QED
      BY <3>2, <3>3, <3>4
  <2> QED
    BY <2>1, <2>2
\* What has not started yet
<1>23. \A s \in Servo \ ((done \cup ended) \cup ((heads \ ended) \cup started)) :
            time_left'[s] = timer_value[s]
  BY <1>2, <1>3, <1>10
<1>24. Filled(begin, clock2, rise2, fall2)'
  <2>1. (n + 1) - 1 = n
    OBVIOUS
  <2> QED
    BY <1>3, <1>7, <1>16, <1>17, <1>18, <1>20, <1>21, <1>22, <1>23, <2>1 DEF Filled
<1> QED
  BY <1>3, <1>5, <1>7, <1>24 DEF Filling

\* The last step waits for the rest of the period, which is not negative.
LEMMA FillingEnds ==
    ASSUME IInv, NEW begin, RefreshPeriod <= MAX_UINT16,
           Filling(begin), GenerateLast
    PROVE  Whole(steps', new_first, new_step, generated[new_first])
<1>1. /\ pc = "generate" /\ FindNextTimeLeft = MAX_UINT16
      /\ steps' = [steps EXCEPT ![new_step].time_to_next_step =
                                    refresh_period_needed % (MAX_UINT16 + 1)]
  BY DEF GenerateLast
<1>2. /\ new_first \in Nat /\ new_step \in Nat /\ new_first <= new_step
      /\ \A a \in new_first..(new_step + 1) : a \in Moment /\ a \in Nat
      /\ \A a \in new_first..new_step : a \in Address
  BY <1>1, WritePosition
<1>3. PICK clock \in [Moment -> Int], rise \in [Servo -> Moment],
           fall \in [Servo -> Moment] : Filled(begin, clock, rise, fall)
  BY <1>1 DEF Filling
<1>4. generated[new_first] = [pulse |-> timer_value, active |-> servo_active]
  BY <1>1 DEF Filling
<1>5. Running(finished) = {} /\ finished = Servo
  BY <1>1, NoneIsLeft DEF IInv
<1>6. servo_active \in SUBSET Servo
  BY DEF IInv, TypeOK
<1>7. PICK clock2 \in [Moment -> Int] :
            clock2 = [clock EXCEPT ![new_step + 1] = RefreshPeriod]
  <2>1. RefreshPeriod \in Int
    BY PulseAssumption
  <2> QED
    BY <2>1
<1>8. /\ \A a \in new_first..new_step : clock2[a] = clock[a] /\ clock[a] \in Int
      /\ clock2[new_step + 1] = RefreshPeriod
      /\ new_step \in new_first..new_step /\ new_first \in new_first..new_step
  BY <1>2, <1>7
<1>9. /\ clock[new_first] = 0
      /\ clock[new_step] = RefreshPeriod - refresh_period_needed
      /\ 0 <= clock[new_step] /\ clock[new_step] <= RefreshPeriod
      /\ \A a \in new_first..(new_step - 1) :
            clock[a + 1] = clock[a] + steps[a].time_to_next_step
      /\ \A a \in new_first..new_step : \A s \in Servo :
            ToggleBit(s) \in steps[a].gpio_toggle
                <=> s \in servo_active /\ (rise[s] = a \/ fall[s] = a)
      /\ \A s \in Servo :
            /\ new_first <= rise[s] /\ rise[s] < fall[s] /\ fall[s] <= new_step
            /\ clock[fall[s]] = clock[rise[s]] + timer_value[s]
  BY <1>3, <1>5 DEF Filled
<1>10. \A s \in Servo : rise[s] \in Int /\ fall[s] \in Int
  BY SizeAssumption DEF Moment, StepNb
<1>11. \A i \in Nat : i <= MAX_UINT16 => i % (MAX_UINT16 + 1) = i
  BY PulseAssumption
<1>12. refresh_period_needed % (MAX_UINT16 + 1) = refresh_period_needed
  <2>1. refresh_period_needed \in Int /\ RefreshPeriod \in Nat /\ MAX_UINT16 \in Nat
    BY PulseAssumption DEF IInv, TypeOK
  <2>2. clock[new_step] \in Int
    BY <1>8
  <2>3. refresh_period_needed \in Nat /\ refresh_period_needed <= MAX_UINT16
    BY <1>9, <2>1, <2>2
  <2> QED
    BY <1>11, <2>3
<1>13. /\ \A a \in Address : steps'[a].gpio_toggle = steps[a].gpio_toggle
       /\ \A a \in Address : a # new_step =>
                steps'[a].time_to_next_step = steps[a].time_to_next_step
       /\ steps'[new_step].time_to_next_step = refresh_period_needed
  BY <1>1, <1>2, <1>8, <1>12 DEF IInv, TypeOK, Step
<1>14. ASSUME NEW a \in new_first..new_step
       PROVE  clock2[a + 1] = clock2[a] + steps'[a].time_to_next_step
  <2>1. CASE a = new_step
    <3>1. refresh_period_needed \in Int /\ RefreshPeriod \in Nat
      BY PulseAssumption DEF IInv, TypeOK
    <3>2. clock2[new_step] = RefreshPeriod - refresh_period_needed
      BY <1>8, <1>9
    <3>3. clock2[new_step + 1] = clock2[new_step] + refresh_period_needed
      BY <1>8, <3>1, <3>2
    <3> QED
      BY <1>13, <2>1, <3>3
  <2>2. CASE a # new_step
    <3>1. a \in new_first..(new_step - 1) /\ a + 1 \in new_first..new_step /\ a \in Address
      BY <1>2, <2>2
    <3> QED
      BY <1>8, <1>9, <1>13, <2>2, <3>1
  <2> QED
    BY <2>1, <2>2
<1>15. ASSUME NEW s \in Servo
       PROVE  clock2[fall[s]] = clock2[rise[s]] + timer_value[s]
  <2>1. rise[s] \in new_first..new_step /\ fall[s] \in new_first..new_step
    BY <1>2, <1>9, <1>10
  <2> QED
    BY <1>8, <1>9, <2>1
<1>16. clock2[new_first] = 0 /\ clock2[new_step + 1] = RefreshPeriod
  BY <1>8, <1>9
<1>17. Timetable(steps', new_first, new_step,
                 [pulse |-> timer_value, active |-> servo_active],
                 clock2, rise, fall)
  BY <1>2, <1>6, <1>9, <1>13, <1>14, <1>15, <1>16 DEF Timetable
<1> QED
  BY <1>4, <1>17 DEF Whole

-----------------------------------------------------------------------------
(* Frames are faithful *)

\* At start-up the array that only waits is being played.
LEMMA FrameInitially ==
    ASSUME Init, NEW begin, RefreshPeriod <= MAX_UINT16
    PROVE  FrameInv(begin)
<1>1. WidthsAreAsked
  BY DEF Init, WidthsAreAsked, Widths
<1>2. Filling(begin) /\ ~SwapPending /\ pc = "set"
  BY DEF Init, Filling, SwapPending
<1>3. HandedOver
  BY <1>2 DEF HandedOver
<1>4. /\ current_step = 0 /\ current_step_first = 0 /\ current_step_last = 0
      /\ generated[0].active = {} /\ pins = {}
      /\ steps[0].gpio_toggle = {}
      /\ steps[0].time_to_next_step = RefreshPeriod % (MAX_UINT16 + 1)
  BY SizeAssumption DEF Init, StepBuffer1, StepBuffer2, StepNb, Address
<1>5. RefreshPeriod % (MAX_UINT16 + 1) = RefreshPeriod /\ RefreshPeriod \in Nat
  BY PulseAssumption
<1>6. PICK clock \in [Moment -> Int] :
            clock = [a \in Moment |-> IF a = 0 THEN 0 ELSE RefreshPeriod]
  <2>1. [a \in Moment |-> IF a = 0 THEN 0 ELSE RefreshPeriod] \in [Moment -> Int]
    BY <1>5
  <2> QED
    BY <2>1
<1>7. 0 \in Moment /\ 1 \in Moment
  BY SizeAssumption DEF Moment, StepNb
<1>8. PICK edges \in [Servo -> Moment] : edges = [s \in Servo |-> 0]
  BY <1>7
<1>9. /\ clock[0] = 0 /\ clock[0 + 1] = RefreshPeriod
      /\ clock[0 + 1] = clock[0] + steps[0].time_to_next_step
      /\ 0..0 = {0}
  BY <1>4, <1>5, <1>6, <1>7
<1>10. Timetable(steps, current_step_first, current_step_last,
                 generated[current_step_first], clock, edges, edges)
  BY <1>4, <1>9 DEF Timetable
<1>11. Played(generated[current_step_first], clock, edges, edges)
  BY <1>4 DEF Played
<1>12. Playing
  BY <1>10, <1>11 DEF Playing
<1> QED
  BY <1>1, <1>2, <1>3, <1>12 DEF FrameInv

\* Every step keeps it.
LEMMA FrameStep ==
    ASSUME NEW begin \in [Servo -> Nat], PinsFit, RefreshPeriod <= MAX_UINT16,
           PulsesFollow(begin), IInv, FrameInv(begin), [Next]_vars
    PROVE  FrameInv(begin)'
<1> USE DEF FrameInv
<1>1. /\ current_step_first \in Address /\ current_step_last \in Address
      /\ current_step_first \in {StepBuffer1, StepBuffer2}
      /\ generated \in [{StepBuffer1, StepBuffer2} ->
            [pulse : [Servo -> MinServoPulse..MaxServoPulse],
             active : SUBSET Servo]]
  BY SizeAssumption DEF IInv, TypeOK, StepBuffer1, StepBuffer2, Address, StepNb
<1>2. CASE UNCHANGED vars
  <2>1. UNCHANGED <<task, current, next, signal, steps, pc, generated>>
    BY <1>2 DEF vars
  <2>2. Playing'
    BY <1>1, <2>1, PlayingKept
  <2>3. Filling(begin)'
    <3>1. UNCHANGED <<timer_value, servo_active, time_left, finished,
                      refresh_period_needed, new_first, new_step, steps, pc, generated>>
      BY <2>1 DEF task
    <3>2. UNCHANGED Running(finished)
      BY <3>1 DEF Running
    <3> QED
      BY <3>1, <3>2 DEF Filling, Filled, QueuesInTurn
  <2> QED
    BY <2>1, <2>2, <2>3 DEF WidthsAreAsked, HandedOver, SwapPending, task, current, next
<1>3. ASSUME NEW command \in Commands, SetOutputs(command)
      PROVE  FrameInv(begin)'
  <2>1. UNCHANGED <<current, next, signal, steps, generated>> /\ pc = "set" /\ pc' = "apply"
    BY <1>3 DEF SetOutputs
  <2>2. Playing'
    BY <1>1, <2>1, PlayingKept
  <2>3. WidthsAreAsked'
    BY <1>3 DEF SetOutputs, WidthsAreAsked, Widths
  <2>4. HandedOver'
    BY <2>1 DEF HandedOver, SwapPending, current, next
  <2> QED
    BY <2>1, <2>2, <2>3, <2>4 DEF Filling
<1>4. CASE KeepOutputs \/ ApplyBusy \/ EnableInterrupt
  <2>1. /\ UNCHANGED <<task, current, next, signal, steps, generated>>
        /\ pc \in {"set", "apply", "enable"} /\ pc' \in {"set", "apply"}
    BY <1>4 DEF KeepOutputs, ApplyBusy, EnableInterrupt
  <2>2. Playing'
    BY <1>1, <2>1, PlayingKept
  <2>3. WidthsAreAsked'
    BY <2>1 DEF WidthsAreAsked, task
  <2>4. HandedOver'
    BY <2>1 DEF HandedOver, SwapPending, current, next
  <2> QED
    BY <2>1, <2>2, <2>3, <2>4 DEF Filling
<1>5. CASE ApplyBegin
  <2>1. /\ UNCHANGED <<timer_value, current, next, signal>> /\ ~SwapPending /\ pc' = "generate"
        /\ steps' = [steps EXCEPT ![FreeArray].gpio_toggle = ToggleMask(Running({}))]
        /\ generated' = [generated EXCEPT ![FreeArray] =
                   [pulse |-> timer_value, active |-> servo_active]]
    BY <1>5 DEF ApplyBegin
  <2>2. \A a \in current_step_first..current_step_last : a \in Address /\ a # FreeArray
    BY SizeAssumption DEF IInv, TypeOK, ArraysAreNotShared, FreeArray, StepBuffer1,
       StepBuffer2, Address, StepNb
  <2>3. FreeArray # current_step_first
    BY SizeAssumption DEF FreeArray, StepBuffer1, StepBuffer2, StepNb
  <2>4. \A a \in current_step_first..current_step_last : steps'[a] = steps[a]
    BY <2>1, <2>2 DEF IInv, TypeOK
  <2>5. generated'[current_step_first] = generated[current_step_first]
    BY <1>1, <2>1, <2>3
  <2>6. Playing'
    BY <1>1, <2>1, <2>4, <2>5, PlayingKept
  <2>7. HandedOver' /\ WidthsAreAsked'
    BY <2>1 DEF HandedOver, WidthsAreAsked, SwapPending, current, next
  <2> QED
    BY <1>5, <2>6, <2>7, FillingBegins
<1>6. CASE GenerateStep
  <2>1. /\ UNCHANGED <<timer_value, current, next, signal, generated, pc>>
        /\ pc = "generate" /\ FindNextTimeLeft # MAX_UINT16
        /\ \A a \in Address : a # new_step /\ a # new_step + 1 => steps'[a] = steps[a]
    BY <1>6 DEF GenerateStep, IInv, TypeOK
  <2>2. /\ ~SwapPending
        /\ \A a \in current_step_first..current_step_last : steps'[a] = steps[a]
    BY <2>1, WritePosition
  <2>3. Playing'
    BY <1>1, <2>1, <2>2, PlayingKept
  <2>4. HandedOver' /\ WidthsAreAsked'
    BY <2>1, <2>2 DEF HandedOver, WidthsAreAsked, SwapPending, current, next
  <2> QED
    BY <1>6, <2>3, <2>4, FillingGoesOn
<1>7. CASE GenerateLast
  <2>1. /\ UNCHANGED <<timer_value, current, next, signal, generated, new_first, new_step>>
        /\ pc = "generate" /\ pc' = "disable"
        /\ \A a \in Address : a # new_step => steps'[a] = steps[a]
    BY <1>7 DEF GenerateLast, task, IInv, TypeOK
  <2>2. /\ ~SwapPending
        /\ \A a \in current_step_first..current_step_last : steps'[a] = steps[a]
    BY <2>1, WritePosition
  <2>3. Playing'
    BY <1>1, <2>1, <2>2, PlayingKept
  <2>4. Whole(steps', new_first, new_step, generated[new_first])
    BY <1>7, FillingEnds
  <2>5. HandedOver' /\ WidthsAreAsked' /\ Filling(begin)'
    BY <2>1, <2>2, <2>4 DEF HandedOver, WidthsAreAsked, Filling, SwapPending, current, next
  <2> QED
    BY <2>3, <2>5
<1>8. CASE DisableInterrupt \/ SwapFirst
  <2>1. /\ UNCHANGED <<task, current, signal, steps, generated>>
        /\ pc \in {"disable", "swap_first"} /\ pc' \in {"swap_first", "swap_last"}
        /\ pc' = "swap_first" => UNCHANGED next
        /\ ~SwapPending
    BY <1>8 DEF DisableInterrupt, SwapFirst, IInv, PointersFollowTask
  <2>2. Playing'
    BY <1>1, <2>1, PlayingKept
  <2>3. HandedOver' /\ WidthsAreAsked' /\ Filling(begin)'
    BY <2>1 DEF HandedOver, WidthsAreAsked, Filling, SwapPending, task, current, next
  <2> QED
    BY <2>2, <2>3
<1>9. CASE SwapLast
  <2>1. /\ UNCHANGED <<task, current, signal, steps, generated, next_step_first>>
        /\ pc = "swap_last" /\ pc' = "enable"
        /\ next_step_last' = new_step /\ next_step_first = new_first
    BY <1>9 DEF SwapLast, IInv, PointersFollowTask
  <2>2. Playing'
    BY <1>1, <2>1, PlayingKept
  <2>3. HandedOver' /\ WidthsAreAsked' /\ Filling(begin)'
    BY <2>1 DEF HandedOver, WidthsAreAsked, Filling, task
  <2> QED
    BY <2>2, <2>3
<1>10. CASE ServoHardTcIrq
  <2>1. UNCHANGED <<task, pc, generated, steps>> /\ pc \notin {"swap_first", "swap_last", "enable"}
    BY <1>10 DEF ServoHardTcIrq, IInv, PointersFollowTask
  <2>2. WidthsAreAsked'
    BY <2>1 DEF WidthsAreAsked, task
  <2>3. Filling(begin)'
    <3>1. UNCHANGED <<timer_value, servo_active, time_left, finished,
                      refresh_period_needed, new_first, new_step, steps, pc, generated>>
      BY <2>1 DEF task
    <3>2. UNCHANGED Running(finished)
      BY <3>1 DEF Running
    <3> QED
      BY <3>1, <3>2 DEF Filling, Filled, QueuesInTurn
  <2> QED
    BY <1>10, <2>2, <2>3, PlayingIrq
<1> QED
  BY <1>2, <1>3, <1>4, <1>5, <1>6, <1>7, <1>8, <1>9, <1>10 DEF Next, CoreTask

\* What leaves the board is what was commanded: if outputs have pins of their
\* own on port 0 and the pulses of each queue fit the period one behind the
\* other (begin says when), every frame the interrupt plays to its end has put
\* on every active output one pulse of exactly the commanded length and nothing
\* on the others, in exactly one period, with all pins low at the end.  For any
\* number of outputs, queues and commands, whatever the task does meanwhile.
THEOREM PulsesAreExact ==
    ASSUME NEW begin \in [Servo -> Nat], PinsFit, RefreshPeriod <= MAX_UINT16,
           PulsesFollow(begin)
    PROVE  Spec => FramesAreFaithful
<1>1. Init => FrameInv(begin)
  BY FrameInitially
<1>2. IInv /\ FrameInv(begin) /\ [Next]_vars => FrameInv(begin)'
  BY FrameStep
<1>3. IInv /\ FrameInv(begin) =>
        [FrameEnds =>
           LET from == generated[current_step_first]
           IN  /\ pins' = {}
               /\ frame_time' = RefreshPeriod
               /\ \A s \in Servo : high'[IO_BB_PINS[s]] =
                      IF s \in from.active THEN from.pulse[s] ELSE 0]_vars
  BY FrameIsPlayed DEF FrameInv
<1> QED
  BY <1>1, <1>2, <1>3, Invariance, PTL DEF Spec, FramesAreFaithful

-----------------------------------------------------------------------------
(* OutputCalib: division *)

\* Euclid's division, which the rest follows from.
LEMMA DivProperty ==
  ASSUME NEW a \in Nat, NEW n \in Nat \ {0}
  PROVE  /\ a \div n \in Nat
         /\ n * (a \div n) <= a
         /\ a < n * (a \div n) + n
  BY Z3

\* A larger dividend has no smaller quotient.
LEMMA DivMonotone ==
  ASSUME NEW a \in Nat, NEW b \in Nat, a <= b, NEW n \in Nat \ {0}
  PROVE  a \div n <= b \div n
<1> DEFINE p == a \div n
           q == b \div n
<1>1. p \in Nat /\ q \in Nat /\ n * p <= a /\ b < n * q + n
  BY DivProperty
<1> HIDE DEF p, q
<1>2. SUFFICES ASSUME q + 1 <= p PROVE FALSE
  BY <1>1 DEF p, q
<1>3. n * (q + 1) <= n * p
  BY <1>1, <1>2, ProductMonotone
<1>4. n * (q + 1) = n * q + n
  BY <1>1
<1> QED BY <1>1, <1>3, <1>4

\* The division of C keeps the order, on both sides of 0.
LEMMA QuotientMonotone ==
  ASSUME NEW a \in Int, NEW b \in Int, a <= b, NEW n \in Nat \ {0}
  PROVE  /\ Quotient(a, n) \in Int /\ Quotient(b, n) \in Int
         /\ Quotient(a, n) <= Quotient(b, n)
<1>1. CASE a >= 0
  <2>1. a \in Nat /\ b \in Nat /\ ~(a < 0) /\ ~(b < 0)
    BY <1>1
  <2> QED BY <2>1, DivProperty, DivMonotone DEF Quotient
<1>2. CASE a < 0 /\ b >= 0
  <2>1. -a \in Nat /\ b \in Nat /\ ~(b < 0)
    BY <1>2
  <2>2. (-a) \div n \in Nat /\ b \div n \in Nat
    BY <2>1, DivProperty
  <2> QED BY <1>2, <2>1, <2>2 DEF Quotient
<1>3. CASE b < 0
  <2>1. -a \in Nat /\ -b \in Nat /\ -b <= -a /\ a < 0
    BY <1>3
  <2>2. (-a) \div n \in Nat /\ (-b) \div n \in Nat /\ (-b) \div n <= (-a) \div n
    BY <2>1, DivProperty, DivMonotone
  <2> QED BY <1>3, <2>1, <2>2 DEF Quotient
<1> QED BY <1>1, <1>2, <1>3

-----------------------------------------------------------------------------
(* The conversion to an output, for any calibration *)

\* A conversion to int16_t yields an int16_t, whatever the operand.
LEMMA Int16Range == \A x \in Int : Int16(x) \in Raw
<1> SUFFICES ASSUME NEW x \in Int PROVE Int16(x) \in Raw
  OBVIOUS
<1> DEFINE m == 2 * RawHalf
<1>1. RawHalf \in Nat \ {0} /\ m \in Nat \ {0}
  BY RawAssumption
<1>2. (x + RawHalf) % m \in 0..(m - 1)
  <2> HIDE DEF m
  <2> QED BY <1>1
<1> QED BY <1>1, <1>2 DEF Int16, Raw

\* And leaves alone what fits.
LEMMA Int16Same == \A x \in Raw : Int16(x) = x
<1> SUFFICES ASSUME NEW x \in Raw PROVE Int16(x) = x
  OBVIOUS
<1> DEFINE m == 2 * RawHalf
           y == x + RawHalf
<1>1. RawHalf \in Nat \ {0} /\ m \in Nat \ {0} /\ x \in Int
  BY RawAssumption DEF Raw
<1>2. y \in Nat /\ y < m
  BY <1>1 DEF Raw
<1>3. y % m = y
  <2> HIDE DEF m, y
  <2> QED BY <1>1, <1>2
<1> QED BY <1>1, <1>3 DEF Int16

\* The width of an angle is an int16_t, whatever the calibration.
LEMMA CentredRange ==
  ASSUME NEW cal \in OutputCalib, NEW pos \in Raw
  PROVE  Centred(cal, pos) \in Raw
<1>1. Quotient(pos * cal.angle_180, RawHalf) \in Int
  <2>1. pos * cal.angle_180 \in Int
    BY RawAssumption DEF OutputCalib, Raw
  <2>2. RawHalf \in Nat \ {0}
    BY RawAssumption
  <2> QED BY <2>1, <2>2, QuotientMonotone
<1>2. Int16(Quotient(pos * cal.angle_180, RawHalf)) \in Int
  BY <1>1, Int16Range, RawAssumption DEF Raw
<1>3. cal.subtrim \in Int
  BY RawAssumption DEF OutputCalib, Raw
<1> QED BY <1>2, <1>3, Int16Range DEF Centred

\* The width sent is between the limits of the servo, whatever the angle and
\* whatever wraps on the way.
THEOREM OutputInLimits ==
  ASSUME NEW cal \in OutputCalib, cal.min <= cal.max, NEW pos \in Raw
  PROVE  OutputRcToRaw(cal, pos) \in cal.min..cal.max
<1>1. Centred(cal, pos) \in Raw
  BY CentredRange
<1>2. Centred(cal, pos) \in Int /\ cal.min \in Int /\ cal.max \in Int
  BY <1>1, RawAssumption DEF OutputCalib, Raw
<1> QED BY <1>2 DEF OutputRcToRaw

\* A part of a turn is no more than a turn: nothing wraps before the middle is
\* added.
LEMMA PartOfTurn ==
  ASSUME NEW pos \in Raw, NEW angle \in Raw
  PROVE  /\ Quotient(pos * angle, RawHalf) \in Int
         /\ Size(Quotient(pos * angle, RawHalf)) <= Size(angle)
<1>1. pos \in Int /\ angle \in Int /\ RawHalf \in Nat \ {0}
        /\ -RawHalf <= pos /\ pos <= RawHalf
  BY RawAssumption DEF Raw
<1> DEFINE n == Size(pos)
           a == Size(angle)
           p == n * a
<1>2. n \in Nat /\ n <= RawHalf /\ a \in Nat
  BY <1>1 DEF Size
<1>3. pos * angle = p \/ pos * angle = -p
  BY <1>1 DEF Size
<1> HIDE DEF n, a
<1>4. p \in Nat /\ p <= RawHalf * a
  <2>1. a * n <= a * RawHalf
    BY <1>1, <1>2, ProductMonotone
  <2>2. a * n = n * a /\ a * RawHalf = RawHalf * a /\ n * a \in Nat
    BY <1>1, <1>2
  <2> QED BY <2>1, <2>2
<1> HIDE DEF p
<1>5. p \div RawHalf \in Nat /\ p \div RawHalf <= a
  <2> DEFINE q == p \div RawHalf
  <2>1. q \in Nat /\ RawHalf * q <= p
    BY <1>1, <1>4, DivProperty
  <2> HIDE DEF q
  <2>2. SUFFICES ASSUME a + 1 <= q PROVE FALSE
    BY <1>2, <2>1 DEF q
  <2>3. RawHalf * (a + 1) <= RawHalf * q
    BY <1>1, <1>2, <2>1, <2>2, ProductMonotone
  <2>4. RawHalf * (a + 1) = RawHalf * a + RawHalf /\ RawHalf * a \in Nat
          /\ RawHalf * q \in Nat
    BY <1>1, <1>2, <2>1
  <2> QED BY <1>1, <1>4, <2>1, <2>3, <2>4
<1>6. Quotient(pos * angle, RawHalf) \in {p \div RawHalf, -(p \div RawHalf)}
  <2>1. CASE pos * angle = p
    BY <1>4, <2>1 DEF Quotient
  <2>2. CASE pos * angle = -p /\ p # 0
    <3>1. -p < 0 /\ -(-p) = p
      BY <1>4, <2>2
    <3> QED BY <2>2, <3>1 DEF Quotient
  <2>3. CASE pos * angle = -p /\ p = 0
    <3>1. pos * angle = p
      BY <2>3
    <3> QED BY <1>4, <3>1 DEF Quotient
  <2> QED BY <1>3, <2>1, <2>2, <2>3
<1> QED BY <1>2, <1>5, <1>6 DEF Size, a

\* With a legal calibration the width of an angle is exact before the limits.
LEMMA CentredIsExact ==
  ASSUME NEW cal \in OutputCalib, Legal(cal), NEW pos \in Raw
  PROVE  Centred(cal, pos) = Quotient(pos * cal.angle_180, RawHalf) + cal.subtrim
<1> DEFINE q == Quotient(pos * cal.angle_180, RawHalf)
<1>1. /\ cal.angle_180 \in Raw /\ cal.angle_180 \in Int
      /\ cal.subtrim \in Int /\ RawHalf \in Nat \ {0}
  BY RawAssumption DEF OutputCalib, Raw
<1>2. q \in Int /\ Size(q) <= Size(cal.angle_180)
  BY <1>1, PartOfTurn
<1> HIDE DEF q
<1>3. q \in Raw /\ q + cal.subtrim \in Raw
  BY <1>1, <1>2 DEF Legal, Size, Raw
<1>4. Int16(q) = q /\ Int16(q + cal.subtrim) = q + cal.subtrim
  BY <1>3, Int16Same
<1> QED BY <1>4 DEF Centred, q

\* With a legal calibration a larger angle never gives a shorter pulse, or a
\* longer one for a servo mounted the other way round (calibration.c:83).
THEOREM OutputMonotone ==
  ASSUME NEW cal \in OutputCalib, Legal(cal),
         NEW rc1 \in Raw, NEW rc2 \in Raw, rc1 <= rc2
  PROVE  /\ OutputRcToRaw(cal, rc1) \in Int /\ OutputRcToRaw(cal, rc2) \in Int
         /\ IF cal.angle_180 >= 0
            THEN OutputRcToRaw(cal, rc1) <= OutputRcToRaw(cal, rc2)
            ELSE OutputRcToRaw(cal, rc2) <= OutputRcToRaw(cal, rc1)
<1> DEFINE angle == cal.angle_180
           q(pos) == Quotient(pos * angle, RawHalf)
<1>1. /\ angle \in Int /\ cal.subtrim \in Int /\ RawHalf \in Nat \ {0}
      /\ rc1 \in Int /\ rc2 \in Int
      /\ cal.min \in Int /\ cal.max \in Int /\ cal.min <= cal.max
  BY RawAssumption DEF OutputCalib, Raw, Legal
<1>2. Centred(cal, rc1) = q(rc1) + cal.subtrim
        /\ Centred(cal, rc2) = q(rc2) + cal.subtrim
  BY CentredIsExact
<1> HIDE DEF angle
<1>3. rc1 * angle \in Int /\ rc2 * angle \in Int
  BY <1>1
<1>4. q(rc1) \in Int /\ q(rc2) \in Int
  BY <1>1, <1>3, QuotientMonotone
<1>5. CASE angle >= 0
  <2>1. rc1 * angle <= rc2 * angle
    <3>1. angle * (rc2 - rc1) \in Nat
      BY <1>1, <1>5
    <3> QED BY <1>1, <3>1
  <2>2. q(rc1) <= q(rc2)
    BY <1>1, <1>3, <2>1, QuotientMonotone
  <2> HIDE DEF q
  <2> QED BY <1>1, <1>2, <1>4, <1>5, <2>2 DEF OutputRcToRaw, angle
<1>6. CASE angle < 0
  <2>1. rc2 * angle <= rc1 * angle
    <3>1. (-angle) * (rc2 - rc1) \in Nat
      BY <1>1, <1>6
    <3> QED BY <1>1, <3>1
  <2>2. q(rc2) <= q(rc1)
    BY <1>1, <1>3, <2>1, QuotientMonotone
  <2> HIDE DEF q
  <2> QED BY <1>1, <1>2, <1>4, <1>6, <2>2 DEF OutputRcToRaw, angle
<1> QED BY <1>1, <1>5, <1>6 DEF angle

-----------------------------------------------------------------------------
(* Arithmetic *)

\* What is stored for an output is within its bounds, and no farther from a
\* width within the bounds than what was asked for.
LEMMA ClampRange ==
  ASSUME NEW v \in Int
  PROVE  /\ ClampWidth(v) \in Width
         /\ \A w \in Width : Distance(ClampWidth(v), w) <= Distance(v, w)
  BY CalibAssumption, RawAssumption DEF ClampWidth, Width, Distance

\* The conversion yields an integer, whatever the calibration.
LEMMA RcToRawRange ==
  ASSUME NEW c \in OutputCalib, NEW pos \in Raw
  PROVE  OutputRcToRaw(c, pos) \in Int
<1>1. c.min \in Int /\ c.max \in Int
  BY RawAssumption DEF OutputCalib, Raw
<1>2. Centred(c, pos) \in Int
  BY CentredRange, RawAssumption DEF Raw
<1> QED BY <1>1, <1>2 DEF OutputRcToRaw

\* One step of a calibration is a small one, even when the difference to the
\* value asked for wraps.
LEMMA SmallStep ==
  ASSUME NEW w \in Width, raw \in Raw
  PROVE  /\ NextWidth(w) \in Int
         /\ Distance(NextWidth(w), w) <= MAX_CALIB_DIFF
<1> DEFINE diff == Int16(raw - w)
<1>1. w \in Int /\ raw \in Int /\ MAX_CALIB_DIFF \in Nat /\ RawHalf \in Nat
  BY CalibAssumption, RawAssumption DEF Width, Raw
<1>2. diff \in Int
  BY <1>1, Int16Range DEF Raw
<1> HIDE DEF diff
<1>3. \A d \in Int : d <= MAX_CALIB_DIFF /\ -MAX_CALIB_DIFF <= d
                        => Int16(w + d) = w + d
  <2> SUFFICES ASSUME NEW d \in Int, d <= MAX_CALIB_DIFF, -MAX_CALIB_DIFF <= d
               PROVE  w + d \in Raw
    BY Int16Same
  <2> QED BY <1>1, CalibAssumption DEF Width, Raw
<1>4. w - MAX_CALIB_DIFF = w + (-MAX_CALIB_DIFF)
  BY <1>1
<1>5. NextWidth(w) = IF diff > MAX_CALIB_DIFF THEN Int16(w + MAX_CALIB_DIFF)
                     ELSE IF diff < -MAX_CALIB_DIFF
                     THEN Int16(w - MAX_CALIB_DIFF)
                     ELSE Int16(w + diff)
  BY DEF NextWidth, diff
<1>6. CASE diff > MAX_CALIB_DIFF
  <2>1. NextWidth(w) = w + MAX_CALIB_DIFF
    BY <1>1, <1>3, <1>5, <1>6
  <2> QED BY <1>1, <2>1 DEF Distance
<1>7. CASE diff < -MAX_CALIB_DIFF
  <2>1. ~(diff > MAX_CALIB_DIFF)
    BY <1>1, <1>2, <1>7
  <2>2. NextWidth(w) = w + (-MAX_CALIB_DIFF)
    BY <1>1, <1>3, <1>4, <1>5, <1>7, <2>1
  <2> QED BY <1>1, <2>2 DEF Distance
<1>8. CASE ~(diff > MAX_CALIB_DIFF) /\ ~(diff < -MAX_CALIB_DIFF)
  <2>1. NextWidth(w) = w + diff
    BY <1>1, <1>2, <1>3, <1>5, <1>8
  <2> QED BY <1>1, <1>2, <1>8, <2>1 DEF Distance
<1> QED BY <1>6, <1>7, <1>8

-----------------------------------------------------------------------------
(* The invariant *)

\* The width kept for an output, active or not, is the last one it was sent.
Retained == sent = width

CalibInv == CalibTypeOK /\ Retained

\* The invariant holds at start-up.
LEMMA CalibInitInv == CalibInit => CalibInv
<1> SUFFICES ASSUME CalibInit PROVE CalibInv
  OBVIOUS
<1>1. 0 \in Raw
  BY RawAssumption DEF Raw
<1>2. width \in [Output -> Width]
  BY CalibAssumption DEF CalibInit
<1> QED BY <1>1, <1>2, CalibAssumption DEF CalibInit, CalibInv, CalibTypeOK, Retained

\* Storing new values keeps widths in bounds and remembered.
LEMMA SetValuesRange ==
  ASSUME CalibInv, NEW value, NEW on \in SUBSET Output,
         \A o \in on : value[o] \in Int,
         SetValues(value, on)
  PROVE  /\ width' \in [Output -> Width]
         /\ sent' = width'
         /\ active' \subseteq Output
<1>1. \A o \in Output : (IF o \in on THEN ClampWidth(value[o]) ELSE width[o]) \in Width
  BY ClampRange DEF CalibInv, CalibTypeOK
<1>2. width' \in [Output -> Width]
  BY <1>1 DEF SetValues
<1>3. \A o \in Output : width'[o] = IF o \in on THEN ClampWidth(value[o]) ELSE width[o]
  BY DEF SetValues
<1>4. \A o \in Output : (IF o \in on THEN width'[o] ELSE sent[o]) = width'[o]
  BY <1>3 DEF CalibInv, Retained
<1>5. sent' = [o \in Output |-> width'[o]]
  BY <1>4 DEF SetValues
<1>6. sent' = width'
  BY <1>2, <1>5
<1> QED BY <1>2, <1>6 DEF SetValues

\* Every step keeps the invariant.
LEMMA CalibStepInv == CalibInv /\ [CalibNext]_calibVars => CalibInv'
<1> SUFFICES ASSUME CalibInv, [CalibNext]_calibVars PROVE CalibInv'
  OBVIOUS
<1>1. CASE CoreNormal
  <2>1. PICK pos \in [Output -> Positions], on \in SUBSET enabled :
            SetValues([o \in Output |-> OutputRcToRaw(calib[o], pos[o])], on)
    BY <1>1 DEF CoreNormal
  <2> DEFINE value == [o \in Output |-> OutputRcToRaw(calib[o], pos[o])]
  <2>2. on \in SUBSET Output
    BY DEF CalibInv, CalibTypeOK
  <2>3. \A o \in on : value[o] \in Int
    <3> SUFFICES ASSUME NEW o \in on PROVE value[o] \in Int
      OBVIOUS
    <3>1. o \in Output /\ calib[o] \in OutputCalib /\ pos[o] \in Raw
      BY <2>1, <2>2, CalibAssumption DEF CalibInv, CalibTypeOK
    <3> QED BY <3>1, RcToRawRange
  <2>4. /\ width' \in [Output -> Width]
        /\ sent' = width'
        /\ active' \subseteq Output
    <3> HIDE DEF value
    <3> QED BY <2>1, <2>2, <2>3, SetValuesRange DEF value
  <2> QED BY <1>1, <2>4 DEF CoreNormal, CalibInv, CalibTypeOK, Retained
<1>2. CASE CoreOutputCalib
  <2> DEFINE value == [o \in Output |-> IF o = out_no THEN NextWidth(width[o])
                                       ELSE 0]
             on == enabled \cap {out_no}
  <2>1. on \in SUBSET Output
    BY DEF CalibInv, CalibTypeOK
  <2>2. \A o \in on : value[o] \in Int
    BY <2>1, SmallStep DEF CalibInv, CalibTypeOK
  <2>3. SetValues(value, on)
    BY <1>2 DEF CoreOutputCalib
  <2> HIDE DEF value, on
  <2>4. /\ width' \in [Output -> Width]
        /\ sent' = width'
        /\ active' \subseteq Output
    BY <2>1, <2>2, <2>3, SetValuesRange
  <2> QED BY <1>2, <2>4 DEF CoreOutputCalib, CalibInv, CalibTypeOK, Retained
<1>3. CASE SetMode
  BY <1>3, CalibAssumption
     DEF SetMode, Receive, pulses, CalibInv, CalibTypeOK, Retained
<1>4. CASE SetActiveBm
  BY <1>4, CalibAssumption
     DEF SetActiveBm, Receive, pulses, CalibInv, CalibTypeOK, Retained
<1>8. CASE SetOutputCalib
  <2>1. PICK first \in Output, last \in Output, new \in [Output -> OutputCalibs] :
            calib' = [o \in Output |-> IF o \in first..last THEN new[o] ELSE calib[o]]
    BY <1>8 DEF SetOutputCalib
  <2>2. calib' \in [Output -> OutputCalibs]
    BY <2>1 DEF CalibInv, CalibTypeOK
  <2> QED BY <1>8, <2>2, CalibAssumption
          DEF SetOutputCalib, Receive, pulses, CalibInv, CalibTypeOK, Retained
<1>5. CASE SetOutNo
  <2>1. PICK o \in Output, v \in RawValues :
            /\ out_no' = o
            /\ packet' = v
    BY <1>5 DEF SetOutNo
  <2>2. v \in Raw
    BY CalibAssumption
  <2> QED BY <1>5, <2>1, <2>2, CalibAssumption
          DEF SetOutNo, Receive, pulses, CalibInv, CalibTypeOK, Retained
<1>6. CASE SetRaw
  BY <1>6 DEF SetRaw, pulses, CalibInv, CalibTypeOK, Retained
<1>7. CASE UNCHANGED calibVars
  BY <1>7 DEF calibVars, pulses, CalibInv, CalibTypeOK, Retained
<1> QED BY <1>1, <1>2, <1>3, <1>4, <1>5, <1>6, <1>7, <1>8 DEF CalibNext

-----------------------------------------------------------------------------
(* The theorems *)

\* The types, and that a silent output keeps its last width.
THEOREM CalibInvariance == CalibSpec => []CalibInv
  BY CalibInitInv, CalibStepInv, PTL DEF CalibSpec

\* Whatever the host asks for, and whatever wraps on the way, the widths stay
\* within the bounds of servo_out_bb.c:379-386.
THEOREM WidthsInBounds == CalibSpec => []CalibTypeOK
  BY CalibInvariance, PTL DEF CalibInv

\* A servo being calibrated never moves faster than MAX_CALIB_DIFF per period
\* from where its last pulse left it (calibration.c:176).
THEOREM CalibrationIsSlow == CalibSpec => PulsesMoveSlowly
<1> DEFINE Slow == \A o \in active' :
                      Distance(width'[o], sent[o]) <= MAX_CALIB_DIFF
<1>1. CalibInv /\ [CalibNext]_calibVars => [CoreOutputCalib => Slow]_calibVars
  <2> SUFFICES ASSUME CalibInv, CoreOutputCalib, NEW o \in active'
               PROVE  Distance(width'[o], sent[o]) <= MAX_CALIB_DIFF
    OBVIOUS
  <2>1. o \in enabled /\ o = out_no /\ o \in Output
    BY DEF CoreOutputCalib, SetValues, CalibInv, CalibTypeOK
  <2>2. width[o] \in Width /\ raw \in Raw /\ sent[o] = width[o]
    BY <2>1 DEF CalibInv, CalibTypeOK, Retained
  <2>3. width'[o] = ClampWidth(NextWidth(width[o]))
    BY <2>1 DEF CoreOutputCalib, SetValues
  <2>4. /\ NextWidth(width[o]) \in Int
        /\ Distance(NextWidth(width[o]), width[o]) <= MAX_CALIB_DIFF
    BY <2>2, SmallStep
  <2>5. /\ ClampWidth(NextWidth(width[o])) \in Width
        /\ Distance(ClampWidth(NextWidth(width[o])), width[o])
              <= Distance(NextWidth(width[o]), width[o])
    BY <2>2, <2>4, ClampRange
  <2>6. width[o] \in Int /\ ClampWidth(NextWidth(width[o])) \in Int
          /\ MAX_CALIB_DIFF \in Int
    BY <2>2, <2>5, CalibAssumption DEF Width
  <2>7. Distance(ClampWidth(NextWidth(width[o])), width[o]) \in Int
          /\ Distance(NextWidth(width[o]), width[o]) \in Int
    BY <2>4, <2>6 DEF Distance
  <2> QED BY <2>2, <2>3, <2>4, <2>5, <2>6, <2>7
<1> QED BY <1>1, CalibInvariance, PTL DEF CalibSpec, PulsesMoveSlowly

\* With any legal calibration the host may have stored, a larger angle never
\* gives a shorter pulse, or a longer one the other way round, and no angle
\* leaves the limits of the servo (calibration.c:83).
THEOREM AnglesAreFollowed == CalibSpec => []PulsesFollowAngles
<1>1. CalibTypeOK => PulsesFollowAngles
  <2> SUFFICES ASSUME CalibTypeOK, NEW o \in Output,
                      NEW rc1 \in Positions, NEW rc2 \in Positions,
                      Legal(calib[o]), rc1 <= rc2
               PROVE  /\ Pulse(o, rc1) \in ClampWidth(calib[o].min)..ClampWidth(calib[o].max)
                      /\ IF calib[o].angle_180 >= 0 THEN Pulse(o, rc1) <= Pulse(o, rc2)
                         ELSE Pulse(o, rc2) <= Pulse(o, rc1)
    BY DEF PulsesFollowAngles
  <2> DEFINE c == calib[o]
  <2>1. c \in OutputCalib /\ rc1 \in Raw /\ rc2 \in Raw
    BY CalibAssumption DEF CalibTypeOK
  <2> HIDE DEF c
  <2>2. c.min \in Int /\ c.max \in Int /\ c.min <= c.max
    BY <2>1, RawAssumption DEF OutputCalib, Raw, Legal, c
  <2>3. OutputRcToRaw(c, rc1) \in c.min..c.max
    BY <2>1, <2>2, OutputInLimits
  <2>4. /\ OutputRcToRaw(c, rc1) \in Int /\ OutputRcToRaw(c, rc2) \in Int
        /\ IF c.angle_180 >= 0
           THEN OutputRcToRaw(c, rc1) <= OutputRcToRaw(c, rc2)
           ELSE OutputRcToRaw(c, rc2) <= OutputRcToRaw(c, rc1)
    BY <2>1, OutputMonotone DEF c
  <2>5. \A v \in Int, w \in Int : /\ ClampWidth(v) \in Int /\ ClampWidth(w) \in Int
                                  /\ v <= w => ClampWidth(v) <= ClampWidth(w)
    BY CalibAssumption DEF ClampWidth
  <2>6. Pulse(o, rc1) = ClampWidth(OutputRcToRaw(c, rc1))
          /\ Pulse(o, rc2) = ClampWidth(OutputRcToRaw(c, rc2))
    BY DEF Pulse, c
  <2> QED BY <2>2, <2>3, <2>4, <2>5, <2>6 DEF c
<1> QED BY <1>1, WidthsInBounds, PTL
=============================================================================
