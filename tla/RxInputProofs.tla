---------------------------- MODULE RxInputProofs ----------------------------
(***************************************************************************)
(* Theorems about RxInput, for any size of the FIFO, any signal, any timer *)
(* and any delay of the core task.                                         *)
(***************************************************************************)
EXTENDS RxInput, TLAPS

-----------------------------------------------------------------------------
(* Indexes that turn *)

\* Euclid's division.
LEMMA ModProperty ==
  ASSUME NEW a \in Nat, NEW f \in Nat \ {0}
  PROVE  /\ a % f \in 0..(f - 1)
         /\ \E q \in Nat : a = f * q + (a % f)
<1>1. a % f \in 0..(f - 1)
  BY Z3
<1>2. a \div f \in Nat
  BY Z3
<1>3. a = f * (a \div f) + (a % f)
  BY Z3
<1> QED BY <1>1, <1>2, <1>3

\* There is only one remainder.
LEMMA ModUnique ==
  ASSUME NEW a \in Nat, NEW f \in Nat \ {0}, NEW q \in Nat, NEW r \in 0..(f - 1),
         a = f * q + r
  PROVE  a % f = r
  BY Z3

\* The index after that of a number is that of the number after it.
LEMMA ModNext ==
  ASSUME NEW a \in Nat, NEW f \in Nat \ {0}
  PROVE  ((a % f) + 1) % f = (a + 1) % f
<1>1. PICK q \in Nat : a = f * q + (a % f)
  BY ModProperty
<1> DEFINE r == a % f
<1>2. r \in 0..(f - 1) /\ a = f * q + r
  BY <1>1, ModProperty
<1> HIDE DEF r
<1>3. CASE r = f - 1
  <2>1. f = f * 1 + 0 /\ a + 1 = f * (q + 1) + 0
    BY <1>2, <1>3
  <2>2. 0 \in 0..(f - 1) /\ a + 1 \in Nat /\ q + 1 \in Nat /\ 1 \in Nat /\ f \in Nat
    OBVIOUS
  <2>3. f % f = 0
    BY <2>1, <2>2, ModUnique
  <2>4. (a + 1) % f = 0
    BY <2>1, <2>2, ModUnique
  <2> QED BY <1>2, <1>3, <2>3, <2>4 DEF r
<1>4. CASE r # f - 1
  <2>1. r + 1 \in 0..(f - 1) /\ a + 1 = f * q + (r + 1) /\ r + 1 = f * 0 + (r + 1)
    BY <1>2, <1>4
  <2>2. (a + 1) % f = r + 1 /\ (r + 1) % f = r + 1
    BY <1>2, <2>1, ModUnique
  <2> QED BY <2>2 DEF r
<1> QED BY <1>3, <1>4

\* A whole turn comes back to the same index.
LEMMA ModTurn ==
  ASSUME NEW a \in Nat, NEW f \in Nat \ {0}
  PROVE  (a + f) % f = a % f
<1>1. PICK q \in Nat : a = f * q + (a % f)
  BY ModProperty
<1> DEFINE r == a % f
<1>2. r \in 0..(f - 1) /\ a = f * q + r
  BY <1>1, ModProperty
<1> HIDE DEF r
<1>3. a + f = f * (q + 1) + r
  BY <1>2
<1>4. (a + f) % f = r
  BY <1>2, <1>3, ModUnique
<1> QED BY <1>4 DEF r

\* Numbers less than a turn apart do not share an index.
LEMMA ModDistinct ==
  ASSUME NEW a \in Nat, NEW b \in Nat, NEW f \in Nat \ {0},
         a <= b, b - a < f, a % f = b % f
  PROVE  a = b
<1>1. PICK p \in Nat : a = f * p + (a % f)
  BY ModProperty
<1>2. PICK q \in Nat : b = f * q + (b % f)
  BY ModProperty
<1> DEFINE r == a % f
<1>3. r \in 0..(f - 1) /\ a = f * p + r /\ b = f * q + r
  BY <1>1, <1>2, ModProperty
<1> HIDE DEF r
<1>4. CASE q <= p
  <2>1. f * q <= f * p
    BY <1>4, Z3
  <2> QED BY <1>3, <2>1
<1>5. CASE p + 1 <= q
  <2>1. f * (p + 1) <= f * q
    BY <1>5, Z3
  <2>2. f * (p + 1) = f * p + f
    OBVIOUS
  <2> QED BY <1>3, <2>1, <2>2
<1> QED BY <1>4, <1>5

\* The same of a difference, which may be negative.
LEMMA ModPropertyInt ==
  ASSUME NEW a \in Int, NEW f \in Nat \ {0}
  PROVE  /\ a % f \in 0..(f - 1)
         /\ \E q \in Int : a = f * q + (a % f)
<1>1. a % f \in 0..(f - 1)
  BY Z3
<1>2. a \div f \in Int
  BY Z3
<1>3. a = f * (a \div f) + (a % f)
  BY Z3
<1> QED BY <1>1, <1>2, <1>3

\* There is only one remainder.
LEMMA ModUniqueInt ==
  ASSUME NEW a \in Int, NEW f \in Nat \ {0}, NEW q \in Int, NEW r \in 0..(f - 1),
         a = f * q + r
  PROVE  a % f = r
  BY Z3

\* Turns do not show.
LEMMA ModShift ==
  ASSUME NEW b \in Int, NEW f \in Nat \ {0}, NEW q \in Int
  PROVE  (f * q + b) % f = b % f
<1> DEFINE r == b % f
<1>1. r \in 0..(f - 1)
  BY ModPropertyInt
<1>2. PICK p \in Int : b = f * p + r
  BY ModPropertyInt
<1> HIDE DEF r
<1>3. f * q + b = f * (p + q) + r /\ p + q \in Int
  BY <1>1, <1>2, Z3
<1>4. (f * (p + q) + r) % f = r
  BY <1>1, <1>2, ModUniqueInt
<1> QED BY <1>3, <1>4 DEF r

-----------------------------------------------------------------------------
(* The invariant *)

\* The part of the types that only says what is true or false.
Booleans ==
    /\ pin \in BOOLEAN /\ flag \in BOOLEAN /\ prev_level \in BOOLEAN
    /\ active \in BOOLEAN /\ gap \in BOOLEAN

\* The indexes are the numbers of the entries, turned: one at least is in the
\* FIFO, and no more than it holds.
IndexInv ==
    /\ irq_fifo_idx = Len(captured) % FIFO_SIZE
    /\ pop_fifo_idx = popped % FIFO_SIZE
    /\ irq_fifo_idx_copy = copied % FIFO_SIZE
    /\ Len(captured) - popped \in 1..FIFO_SIZE

\* Edges that will be stored before the transmitter moves the pin again.
Pending == IF irq_pc = "level" THEN IF flag THEN 2 ELSE 1
           ELSE IF irq_pc = "clear" \/ flag THEN 1 ELSE 0

\* While the core task runs the FIFO does not fill, and what it has seen of it
\* is still there.
RunInv ==
    /\ core_pc # "sleep" => Len(captured) + Pending - popped <= FIFO_SIZE
    /\ core_pc = "compare" => copied \in (popped + 1)..Len(captured)

\* The levels of the last entries stored are in their slots.
ContentInv ==
    \A k \in 1..Len(captured) :
        Len(captured) - k < FIFO_SIZE =>
            irq_fifo[(k - 1) % FIFO_SIZE].high = captured[k].high

\* LastLevelIsPins, between two accesses of the handler.
LevelInv ==
    irq_pc = "idle" /\ ~flag /\ Len(captured) > 1 =>
        captured[Len(captured)].high = pin

IInv == TypeOK /\ IndexInv /\ RunInv /\ ContentInv /\ LevelInv

-----------------------------------------------------------------------------
(* The invariant is kept *)

\* A remainder is one, whatever the sign of the dividend.
LEMMA ModRange ==
  ASSUME NEW a \in Int, NEW f \in Nat \ {0}
  PROVE  a % f \in 0..(f - 1)
  BY Z3

\* The index after a slot's is a slot's.
LEMMA NextSlot ==
  ASSUME NEW i \in Slot
  PROVE  IncFifoIndex(i) \in Slot
<1>1. i + 1 \in Int /\ FIFO_SIZE \in Nat \ {0}
  BY FifoAssumption DEF Slot
<1> QED BY <1>1, ModRange DEF IncFifoIndex, Slot

\* Time passes on the timer.
LEMMA PassRange ==
  ASSUME now \in Time, NEW ticks \in Int, Pass(ticks)
  PROVE  now' \in Time
<1>1. now + ticks \in Int /\ TimerModulus \in Nat \ {0}
  BY FifoAssumption DEF Time
<1> QED BY <1>1, ModRange DEF Pass, Time

\* Every step keeps the Boolean variables Boolean.
LEMMA StepBooleans == TypeOK /\ [Next]_vars => Booleans'
<1> SUFFICES ASSUME TypeOK, [Next]_vars PROVE Booleans'
  OBVIOUS
<1> USE DEF TypeOK, Booleans, Edge, world, fifo, ppm, lock, core, Fall, Rise, Overrun, ProcessPpm, CheckPpmActivity
<1>1. CASE Transmit
  BY <1>1 DEF Transmit
<1>2. CASE Silence
  BY <1>2 DEF Silence
<1>3. CASE Bounce
  BY <1>3 DEF Bounce
<1>4. CASE IrqReadTime
  BY <1>4 DEF IrqReadTime
<1>5. CASE IrqClearFlag
  BY <1>5 DEF IrqClearFlag
<1>6. CASE IrqReadLevel
  BY <1>6 DEF IrqReadLevel
<1>7. CASE CopyFifoIndex
  BY <1>7 DEF CopyFifoIndex
<1>8. CASE PopEdge
  BY <1>8 DEF PopEdge
<1>9. CASE FinishInput
  BY <1>9 DEF FinishInput
<1>10. CASE UNCHANGED vars
  BY <1>10 DEF vars
<1> QED BY <1>1, <1>2, <1>3, <1>4, <1>5, <1>6, <1>7, <1>8, <1>9, <1>10
        DEF Next, GpioLevelIrq, ProcessInput

\* Every step keeps the types.
LEMMA StepTypes == TypeOK /\ [Next]_vars => TypeOK'
<1> SUFFICES ASSUME TypeOK, [Next]_vars PROVE TypeOK'
  OBVIOUS
<1>0. Booleans'
  BY StepBooleans
<1> USE <1>0, FifoAssumption
<1> USE DEF TypeOK, Booleans, world, fifo, ppm, lock, core
<1>1. CASE Transmit
  <2>1. CASE Fall
    <3>1. now' \in Time
      BY <2>1, PassRange DEF Fall
    <3> QED BY <1>1, <2>1, <3>1, SignalAssumption DEF Transmit, Fall, TxLast
  <2>2. CASE Rise
    <3>1. now' \in Time
      BY <2>2, PassRange, SignalAssumption DEF Rise
    <3>2. tx_high' \in Int
      <4>1. \A w \in IF tx_channel > TxLast THEN SyncWidths
                                          ELSE Widths[tx_channel + 1] : w \in Int
        <5>1. CASE tx_channel > TxLast
          BY <5>1, SignalAssumption
        <5>2. CASE ~(tx_channel > TxLast)
          <6>1. tx_channel + 1 \in 1..Len(Widths)
            BY <5>2, SignalAssumption DEF TxLast
          <6>2. Widths[tx_channel + 1] \subseteq Nat
            BY <6>1, SignalAssumption
          <6> QED BY <5>2, <6>2
        <5> QED BY <5>1, <5>2
      <4>2. PICK w \in IF tx_channel > TxLast THEN SyncWidths
                                             ELSE Widths[tx_channel + 1] :
                  tx_high' = w - LowTime
        BY <2>2 DEF Rise
      <4>3. LowTime \in Int
        BY SignalAssumption
      <4>4. w \in Int
        BY <4>1, <4>2
      <4> QED BY <4>2, <4>3, <4>4
    <3> QED BY <1>1, <2>2, <3>1, <3>2 DEF Transmit, Rise
  <2> QED BY <1>1, <2>1, <2>2 DEF Transmit
<1>2. CASE Silence
  <2>1. now' \in Time
    BY <1>2, PassRange, SignalAssumption DEF Silence
  <2> QED BY <1>2, <2>1 DEF Silence
<1>3. CASE Bounce
  <2>1. now' \in Time
    BY <1>3, PassRange, SignalAssumption DEF Bounce
  <2> QED BY <1>3, <2>1 DEF Bounce
<1>4. CASE IrqReadTime
  BY <1>4 DEF IrqReadTime, Edge
<1>5. CASE IrqClearFlag
  BY <1>5 DEF IrqClearFlag
<1>6. CASE IrqReadLevel
  <2>1. irq_fifo' \in [Slot -> Edge]
    BY <1>6 DEF IrqReadLevel, Edge
  <2>2. captured' \in Seq(Edge) /\ backlog' \in Int
    BY <1>6, <2>1 DEF IrqReadLevel
  <2>3. irq_fifo_idx' \in Slot
    BY <1>6, NextSlot DEF IrqReadLevel
  <2>4. popped' \in Nat /\ locked' \in Int
    <3>1. \/ popped' = popped + FIFO_SIZE /\ locked' = -1
          \/ UNCHANGED <<popped, lock>>
      BY <1>6 DEF IrqReadLevel, Overrun
    <3> QED BY <3>1
  <2> QED BY <1>6, <2>1, <2>2, <2>3, <2>4 DEF IrqReadLevel
<1>7. CASE CopyFifoIndex
  <2>1. now' \in Time
    BY <1>7, PassRange, SignalAssumption DEF CopyFifoIndex
  <2> QED BY <1>7, <2>1 DEF CopyFifoIndex
<1>8. CASE PopEdge
  <2>1. pop_fifo_idx' \in Slot
    BY <1>8, NextSlot DEF PopEdge
  <2> DEFINE edge == irq_fifo[pop_fifo_idx]
  <2>2. edge \in Edge
    OBVIOUS
  <2>3. PulseWidth(edge) \in Time
    <3>1. edge.time - last_toggle_time \in Int /\ TimerModulus \in Nat \ {0}
      BY <2>2 DEF Edge, Time
    <3> QED BY <3>1, ModRange DEF PulseWidth, Time
  <2> HIDE DEF edge
  <2>4. /\ last_toggle_time' \in Time /\ since' \in Nat
        /\ index' \in Channel /\ locked' \in Int
        /\ pulse_tick' \in [Channel -> Time]
    <3>1. ProcessPpm(edge)
      BY <1>8 DEF PopEdge, edge
    <3>2. NextIndex \in Channel /\ 0 \in Channel
      BY DEF NextIndex, Channel
    <3>3. NextLocked(PulseWidth(edge)) \in Int
      BY DEF NextLocked
    <3> QED BY <2>2, <2>3, <3>1, <3>2, <3>3 DEF ProcessPpm, Edge
  <2> QED BY <1>8, <2>1, <2>4 DEF PopEdge
<1>9. CASE FinishInput
  BY <1>9 DEF FinishInput, CheckPpmActivity
<1>10. CASE UNCHANGED vars
  BY <1>10 DEF vars
<1> QED BY <1>1, <1>2, <1>3, <1>4, <1>5, <1>6, <1>7, <1>8, <1>9, <1>10
        DEF Next, GpioLevelIrq, ProcessInput

\* Every step keeps the indexes with the numbers.
LEMMA StepIndex == IInv /\ [Next]_vars => IndexInv'
<1> SUFFICES ASSUME IInv, [Next]_vars PROVE IndexInv'
  OBVIOUS
<1>0. /\ Len(captured) \in Nat /\ popped \in Nat /\ copied \in Nat
      /\ FIFO_SIZE \in Nat \ {0} /\ FIFO_SIZE > 1
  BY FifoAssumption DEF IInv, TypeOK
<1> USE DEF IInv, IndexInv, world, fifo, ppm, lock, core
<1>1. CASE Transmit
  BY <1>1 DEF Transmit
<1>2. CASE Silence
  BY <1>2 DEF Silence
<1>3. CASE Bounce
  BY <1>3 DEF Bounce
<1>4. CASE IrqReadTime
  BY <1>4 DEF IrqReadTime
<1>5. CASE IrqClearFlag
  BY <1>5 DEF IrqClearFlag
<1>6. CASE IrqReadLevel
  <2>1. Len(captured') = Len(captured) + 1
    BY <1>6 DEF IrqReadLevel, TypeOK
  <2>2. irq_fifo_idx' = Len(captured') % FIFO_SIZE
    BY <1>6, <1>0, <2>1, ModNext DEF IrqReadLevel, IncFifoIndex
  <2>3. CASE Len(captured) + 1 - popped > FIFO_SIZE
    <3>1. popped' = popped + FIFO_SIZE
      BY <1>6, <2>3 DEF IrqReadLevel, Overrun
    <3>2. popped' % FIFO_SIZE = popped % FIFO_SIZE
      BY <1>0, <3>1, ModTurn
    <3>3. Len(captured') - popped' \in 1..FIFO_SIZE
      BY <1>0, <2>1, <2>3, <3>1
    <3> QED BY <1>6, <2>2, <3>2, <3>3 DEF IrqReadLevel
  <2>4. CASE ~(Len(captured) + 1 - popped > FIFO_SIZE)
    <3>1. popped' = popped
      BY <1>6, <2>4 DEF IrqReadLevel, Overrun
    <3>2. Len(captured') - popped' \in 1..FIFO_SIZE
      BY <1>0, <2>1, <2>4, <3>1
    <3> QED BY <1>6, <2>2, <3>1, <3>2 DEF IrqReadLevel
  <2> QED BY <2>3, <2>4
<1>7. CASE CopyFifoIndex
  BY <1>7 DEF CopyFifoIndex
<1>8. CASE PopEdge
  <2>1. popped' = popped + 1 /\ captured' = captured
    BY <1>8 DEF PopEdge
  <2>2. pop_fifo_idx' = popped' % FIFO_SIZE
    BY <1>8, <1>0, <2>1, ModNext DEF PopEdge, IncFifoIndex
  <2>3. copied # popped + 1
    BY <1>8, <1>0, ModNext DEF PopEdge, FifoEmpty, IncFifoIndex
  <2>4. Len(captured) - (popped + 1) \in 1..FIFO_SIZE
    BY <1>8, <1>0, <2>3 DEF PopEdge, RunInv
  <2> QED BY <1>8, <2>1, <2>2, <2>4 DEF PopEdge
<1>9. CASE FinishInput
  BY <1>9 DEF FinishInput
<1>10. CASE UNCHANGED vars
  BY <1>10 DEF vars
<1> QED BY <1>1, <1>2, <1>3, <1>4, <1>5, <1>6, <1>7, <1>8, <1>9, <1>10
        DEF Next, GpioLevelIrq, ProcessInput

\* Every step of a run leaves it what it has seen.
LEMMA StepRun == IInv /\ [Next]_vars => RunInv'
<1> SUFFICES ASSUME IInv, [Next]_vars PROVE RunInv'
  OBVIOUS
<1>0. /\ Len(captured) \in Nat /\ popped \in Nat /\ copied \in Nat
      /\ FIFO_SIZE \in Nat \ {0} /\ FIFO_SIZE > 1
  BY FifoAssumption DEF IInv, TypeOK
<1> USE <1>0
<1> USE DEF IInv, RunInv, world, fifo, ppm, lock, core
<1>1. CASE Transmit
  <2>1. /\ irq_pc = "idle" /\ irq_pc' = "idle" /\ flag' = TRUE
        /\ core_pc # "sleep" => Len(captured) + 1 - popped <= FIFO_SIZE
        /\ UNCHANGED <<captured, popped, copied, core_pc>>
    BY <1>1 DEF Transmit, Fall, Rise, Quiet, Room
  <2>2. Pending' = 1
    BY <2>1 DEF Pending
  <2> QED BY <2>1, <2>2
<1>2. CASE Silence
  BY <1>2 DEF Silence, Pending
<1>3. CASE Bounce
  <2>1. /\ irq_pc' = irq_pc /\ flag' = TRUE
        /\ UNCHANGED <<captured, popped, copied, core_pc>>
        /\ core_pc # "sleep" =>
              Len(captured) + (IF irq_pc = "level" THEN 2 ELSE 1) - popped <= FIFO_SIZE
    BY <1>3 DEF Bounce, Room
  <2>2. Pending' = IF irq_pc = "level" THEN 2 ELSE 1
    BY <2>1 DEF Pending
  <2> QED BY <2>1, <2>2
<1>4. CASE IrqReadTime
  BY <1>4 DEF IrqReadTime, Pending
<1>5. CASE IrqClearFlag
  BY <1>5 DEF IrqClearFlag, Pending
<1>6. CASE IrqReadLevel
  <2>1. Len(captured') = Len(captured) + 1 /\ UNCHANGED <<core_pc, copied>>
    BY <1>6 DEF IrqReadLevel, TypeOK
  <2>2. Pending' \in Nat /\ Pending = Pending' + 1
    BY <1>6 DEF IrqReadLevel, Pending
  <2>3. CASE core_pc # "sleep"
    <3>1. Len(captured) + 1 - popped <= FIFO_SIZE
      BY <2>2, <2>3
    <3>2. popped' = popped
      BY <1>6, <3>1 DEF IrqReadLevel, Overrun
    <3> QED BY <2>1, <2>2, <2>3, <3>2
  <2> QED BY <2>1, <2>3
<1>7. CASE CopyFifoIndex
  <2>1. /\ copied' = Len(captured) /\ UNCHANGED <<captured, popped, irq_pc, flag>>
        /\ irq_pc = "idle" /\ (flag => Len(captured) - popped < FIFO_SIZE)
    BY <1>7 DEF CopyFifoIndex
  <2>2. Pending' = IF flag THEN 1 ELSE 0
    BY <2>1 DEF Pending
  <2>3. Len(captured) - popped \in 1..FIFO_SIZE
    BY DEF IndexInv
  <2> QED BY <2>1, <2>2, <2>3
<1>8. CASE PopEdge
  <2>1. /\ popped' = popped + 1 /\ core_pc = "compare" /\ core_pc' = "idle"
        /\ UNCHANGED <<captured, irq_pc, flag>>
    BY <1>8 DEF PopEdge
  <2>2. Pending' = Pending /\ Pending \in Nat
    BY <2>1 DEF Pending
  <2> QED BY <2>1, <2>2
<1>9. CASE FinishInput
  BY <1>9 DEF FinishInput, Pending
<1>10. CASE UNCHANGED vars
  BY <1>10 DEF vars, Pending
<1> QED BY <1>1, <1>2, <1>3, <1>4, <1>5, <1>6, <1>7, <1>8, <1>9, <1>10
        DEF Next, GpioLevelIrq, ProcessInput

\* Every step leaves the last level stored the pin's, or an interrupt pending.
LEMMA StepLevel == IInv /\ [Next]_vars => LevelInv'
<1> SUFFICES ASSUME IInv, [Next]_vars PROVE LevelInv'
  OBVIOUS
<1> USE DEF IInv, LevelInv, world, fifo, ppm, lock, core
<1>1. CASE Transmit
  <2>1. flag' = TRUE
    BY <1>1 DEF Transmit, Fall, Rise
  <2> QED BY <2>1
<1>2. CASE Silence
  BY <1>2 DEF Silence
<1>3. CASE Bounce
  BY <1>3 DEF Bounce
<1>4. CASE IrqReadTime
  BY <1>4 DEF IrqReadTime
<1>5. CASE IrqClearFlag
  BY <1>5 DEF IrqClearFlag
<1>6. CASE IrqReadLevel
  <2>1. captured' = Append(captured, irq_fifo'[irq_fifo_idx]) /\ pin' = pin
        /\ irq_fifo'[irq_fifo_idx].high = pin
    BY <1>6 DEF IrqReadLevel, TypeOK, Edge
  <2>2. captured'[Len(captured')] = irq_fifo'[irq_fifo_idx]
    BY <1>6, <2>1 DEF TypeOK
  <2> QED BY <2>1, <2>2
<1>7. CASE CopyFifoIndex
  BY <1>7 DEF CopyFifoIndex
<1>8. CASE PopEdge
  BY <1>8 DEF PopEdge
<1>9. CASE FinishInput
  BY <1>9 DEF FinishInput
<1>10. CASE UNCHANGED vars
  BY <1>10 DEF vars
<1> QED BY <1>1, <1>2, <1>3, <1>4, <1>5, <1>6, <1>7, <1>8, <1>9, <1>10
        DEF Next, GpioLevelIrq, ProcessInput

\* Every step keeps the levels of the last entries in their slots.
LEMMA StepContent == IInv /\ [Next]_vars => ContentInv'
<1> SUFFICES ASSUME IInv, [Next]_vars PROVE ContentInv'
  OBVIOUS
<1>0. /\ Len(captured) \in Nat /\ popped \in Nat /\ copied \in Nat
      /\ FIFO_SIZE \in Nat \ {0} /\ FIFO_SIZE > 1
  BY FifoAssumption DEF IInv, TypeOK
<1> USE DEF IInv, ContentInv, world, fifo, ppm, lock, core
<1>1. CASE Transmit
  BY <1>1 DEF Transmit, Fall, Rise
<1>2. CASE Silence
  BY <1>2 DEF Silence
<1>3. CASE Bounce
  BY <1>3 DEF Bounce
<1>4. CASE IrqReadTime
  <2>1. captured' = captured
    BY <1>4 DEF IrqReadTime
  <2>2. \A i \in Slot : irq_fifo'[i].high = irq_fifo[i].high
    BY <1>4 DEF IrqReadTime, TypeOK, Edge
  <2>3. \A k \in 1..Len(captured) : (k - 1) % FIFO_SIZE \in Slot
    <3> SUFFICES ASSUME NEW k \in 1..Len(captured) PROVE (k - 1) % FIFO_SIZE \in Slot
      OBVIOUS
    <3>1. k - 1 \in Int
      BY <1>0
    <3> QED BY <1>0, <3>1, ModRange DEF Slot
  <2> QED BY <2>1, <2>2, <2>3
<1>5. CASE IrqClearFlag
  BY <1>5 DEF IrqClearFlag
<1>6. CASE IrqReadLevel
  <2>1. /\ irq_fifo' = [irq_fifo EXCEPT ![irq_fifo_idx].high = pin]
        /\ captured' = Append(captured, irq_fifo'[irq_fifo_idx])
        /\ irq_fifo_idx \in Slot /\ irq_fifo \in [Slot -> Edge]
        /\ irq_fifo_idx = Len(captured) % FIFO_SIZE
        /\ captured \in Seq(Edge) /\ irq_fifo'[irq_fifo_idx] \in Edge
    BY <1>6 DEF IrqReadLevel, TypeOK, IndexInv, Edge
  <2>2. Len(captured') = Len(captured) + 1
    BY <2>1
  <2> SUFFICES ASSUME NEW k \in 1..Len(captured'), Len(captured') - k < FIFO_SIZE
               PROVE  irq_fifo'[(k - 1) % FIFO_SIZE].high = captured'[k].high
    BY DEF ContentInv
  <2>3. CASE k = Len(captured')
    BY <1>0, <2>1, <2>2, <2>3
  <2>4. CASE k # Len(captured')
    <3>1. k \in 1..Len(captured) /\ k - 1 \in Nat /\ Len(captured) - k < FIFO_SIZE
      BY <1>0, <2>2, <2>4
    <3>2. (k - 1) % FIFO_SIZE # Len(captured) % FIFO_SIZE
      <4>1. k - 1 <= Len(captured) /\ Len(captured) - (k - 1) < FIFO_SIZE
        BY <1>0, <2>2, <3>1
      <4>2. k - 1 # Len(captured)
        BY <1>0, <3>1
      <4>3. (k - 1) % FIFO_SIZE = Len(captured) % FIFO_SIZE => k - 1 = Len(captured)
        BY <1>0, <3>1, <4>1, ModDistinct
      <4> QED BY <4>2, <4>3
    <3>3. (k - 1) % FIFO_SIZE \in Slot
      BY <1>0, <3>1, ModRange DEF Slot
    <3>4. irq_fifo'[(k - 1) % FIFO_SIZE] = irq_fifo[(k - 1) % FIFO_SIZE]
      BY <2>1, <3>2, <3>3
    <3>5. captured'[k] = captured[k]
      BY <2>1, <3>1
    <3> QED BY <3>1, <3>4, <3>5
  <2> QED BY <2>3, <2>4
<1>7. CASE CopyFifoIndex
  BY <1>7 DEF CopyFifoIndex
<1>8. CASE PopEdge
  BY <1>8 DEF PopEdge
<1>9. CASE FinishInput
  BY <1>9 DEF FinishInput
<1>10. CASE UNCHANGED vars
  BY <1>10 DEF vars
<1> QED BY <1>1, <1>2, <1>3, <1>4, <1>5, <1>6, <1>7, <1>8, <1>9, <1>10
        DEF Next, GpioLevelIrq, ProcessInput

\* Every step keeps the invariant.
LEMMA StepIInv == IInv /\ [Next]_vars => IInv'
  BY StepTypes, StepIndex, StepRun, StepLevel, StepContent DEF IInv

\* The invariant holds at start-up.
LEMMA InitIInv == Init => IInv
<1> SUFFICES ASSUME Init PROVE IInv
  OBVIOUS
<1>0. FIFO_SIZE \in Nat \ {0} /\ FIFO_SIZE > 1 /\ FIFO_SIZE \in Nat
  BY FifoAssumption
<1>1. pin \in BOOLEAN /\ flag \in BOOLEAN /\ prev_level \in BOOLEAN
      /\ active \in BOOLEAN /\ gap \in BOOLEAN
  BY DEF Init
<1>2. captured \in Seq(Edge) /\ Len(captured) = 1
      /\ captured[1] = [time |-> 0, high |-> FALSE]
  BY FifoAssumption DEF Init, Edge, Time
<1>3. irq_fifo \in [Slot -> Edge] /\ pulse_tick \in [Channel -> Time]
  BY FifoAssumption DEF Init, Edge, Time
<1>4. tx_channel \in 0..(TxLast + 1) /\ tx_high \in Int
  BY SignalAssumption DEF Init
<1>5. /\ 0 \in Slot /\ 1 \in Slot /\ 0 \in Channel /\ 0 \in Time
      /\ now \in Time
  BY <1>0, FifoAssumption DEF Init, Slot, Channel, Time
<1>6. TypeOK
  BY <1>1, <1>2, <1>3, <1>4, <1>5 DEF Init, TypeOK
<1>7. 0 % FIFO_SIZE = 0 /\ 1 % FIFO_SIZE = 1
  <2>1. 0 = FIFO_SIZE * 0 + 0 /\ 1 = FIFO_SIZE * 0 + 1
        /\ 0 \in 0..(FIFO_SIZE - 1) /\ 1 \in 0..(FIFO_SIZE - 1)
    BY <1>0
  <2> QED BY <1>0, <2>1, ModUnique
<1>8. IndexInv
  BY <1>0, <1>2, <1>7 DEF Init, IndexInv
<1>9. ContentInv
  <2> SUFFICES ASSUME NEW k \in 1..Len(captured)
               PROVE  irq_fifo[(k - 1) % FIFO_SIZE].high = captured[k].high
    BY DEF ContentInv
  <2>1. k = 1 /\ k - 1 = 0
    BY <1>2
  <2>2. (k - 1) % FIFO_SIZE = 0
    BY <1>7, <2>1
  <2>3. irq_fifo[0] = captured[1]
    BY <1>2, <1>5 DEF Init
  <2> QED BY <2>1, <2>2, <2>3
<1>10. RunInv /\ LevelInv
  BY <1>2 DEF Init, RunInv, LevelInv
<1> QED BY <1>6, <1>8, <1>9, <1>10 DEF IInv

\* The invariant holds in every behaviour.
LEMMA Invariant == Spec => []IInv
  BY InitIInv, StepIInv, PTL DEF Spec

-----------------------------------------------------------------------------
(* Theorems *)

\* Every variable keeps its type; the indexes stay inside the buffer.
THEOREM TypeCorrect == Spec => []TypeOK
  BY Invariant, PTL DEF IInv

\* rx_input.c:154: with the flag cleared before the level is read, the last
\* level stored is the pin's, whatever glitches come between the accesses.
THEOREM LastLevel == Spec => []LastLevelIsPins
<1>1. IInv => LastLevelIsPins
  BY DEF IInv, LevelInv, LastLevelIsPins, Quiet
<1> QED BY <1>1, Invariant, PTL

\* What a step may do to the entries left in the FIFO.
LEMMA PopStep ==
  IInv /\ [Next]_vars =>
       /\ pop_fifo_idx' # pop_fifo_idx =>
            /\ popped' = popped + 1
            /\ prev_level' = captured[popped + 1].high
       /\ pop_fifo_idx' = pop_fifo_idx /\ popped' # popped =>
            popped' = popped + FIFO_SIZE /\ core_pc = "sleep"
       /\ core_pc = "compare" /\ core_pc' = "sleep" => popped = copied - 1
<1> SUFFICES ASSUME IInv, [Next]_vars
             PROVE  /\ pop_fifo_idx' # pop_fifo_idx =>
                         /\ popped' = popped + 1
                         /\ prev_level' = captured[popped + 1].high
                    /\ pop_fifo_idx' = pop_fifo_idx /\ popped' # popped =>
                         popped' = popped + FIFO_SIZE /\ core_pc = "sleep"
                    /\ core_pc = "compare" /\ core_pc' = "sleep" =>
                         popped = copied - 1
  OBVIOUS
<1> USE DEF core
<1>0. /\ Len(captured) \in Nat /\ popped \in Nat /\ copied \in Nat
      /\ FIFO_SIZE \in Nat \ {0} /\ FIFO_SIZE > 1
      /\ Len(captured) - popped \in 1..FIFO_SIZE
  BY FifoAssumption DEF IInv, TypeOK, IndexInv
<1>1. CASE PopEdge
  <2>1. /\ popped' = popped + 1 /\ core_pc = "compare" /\ core_pc' = "idle"
        /\ prev_level' = irq_fifo[popped % FIFO_SIZE].high
    BY <1>1 DEF PopEdge, ProcessPpm, IInv, IndexInv
  <2>2. copied \in (popped + 1)..Len(captured) /\ copied # popped + 1
    BY <1>0, <1>1, <2>1, ModNext
       DEF PopEdge, FifoEmpty, IncFifoIndex, IInv, RunInv, IndexInv
  <2>3. popped + 1 \in 1..Len(captured) /\ Len(captured) - (popped + 1) < FIFO_SIZE
    BY <1>0, <2>2
  <2>4. irq_fifo[((popped + 1) - 1) % FIFO_SIZE].high = captured[popped + 1].high
    BY <2>3 DEF IInv, ContentInv
  <2>5. (popped + 1) - 1 = popped
    BY <1>0
  <2>6. pop_fifo_idx' # pop_fifo_idx
    <3>1. pop_fifo_idx' = (popped + 1) % FIFO_SIZE /\ pop_fifo_idx = popped % FIFO_SIZE
      BY <1>0, <1>1, ModNext DEF PopEdge, IncFifoIndex, IInv, IndexInv
    <3>2. popped <= popped + 1 /\ (popped + 1) - popped < FIFO_SIZE
          /\ popped + 1 \in Nat /\ popped # popped + 1
      BY <1>0
    <3>3. popped % FIFO_SIZE # (popped + 1) % FIFO_SIZE
      BY <1>0, <3>2, ModDistinct
    <3> QED BY <3>1, <3>3
  <2> QED BY <2>1, <2>4, <2>5, <2>6
<1>2. CASE IrqReadLevel
  <2>1. UNCHANGED <<pop_fifo_idx, core_pc>>
    BY <1>2 DEF IrqReadLevel
  <2>2. CASE Len(captured) + 1 - popped > FIFO_SIZE
    <3>1. popped' = popped + FIFO_SIZE
      BY <1>2, <2>2 DEF IrqReadLevel, Overrun
    <3>2. Pending \in Nat \ {0}
      BY <1>2 DEF IrqReadLevel, Pending
    <3>3. core_pc = "sleep"
      BY <1>0, <2>2, <3>2 DEF IInv, RunInv
    <3> QED BY <2>1, <3>1, <3>3
  <2>3. CASE ~(Len(captured) + 1 - popped > FIFO_SIZE)
    <3>1. popped' = popped
      BY <1>2, <2>3 DEF IrqReadLevel, Overrun
    <3> QED BY <2>1, <3>1
  <2> QED BY <2>2, <2>3
<1>3. CASE FinishInput
  <2>1. /\ UNCHANGED <<pop_fifo_idx, popped>>
        /\ copied % FIFO_SIZE = (popped + 1) % FIFO_SIZE
        /\ copied \in (popped + 1)..Len(captured)
    BY <1>0, <1>3, ModNext
       DEF FinishInput, FifoEmpty, IncFifoIndex, IInv, IndexInv, RunInv
  <2>2. popped + 1 \in Nat /\ popped + 1 <= copied /\ copied - (popped + 1) < FIFO_SIZE
    BY <1>0, <2>1
  <2>3. popped + 1 = copied
    BY <1>0, <2>1, <2>2, ModDistinct
  <2> QED BY <1>0, <2>1, <2>3
<1>4. CASE Transmit \/ Silence \/ Bounce \/ IrqReadTime \/ IrqClearFlag
           \/ CopyFifoIndex \/ UNCHANGED vars
  <2>1. UNCHANGED <<pop_fifo_idx, popped>> /\ (core_pc' = core_pc \/ core_pc' = "compare")
    BY <1>4 DEF Transmit, Silence, Bounce, IrqReadTime, IrqClearFlag, CopyFifoIndex, vars
  <2> QED BY <2>1
<1> QED BY <1>1, <1>2, <1>3, <1>4 DEF Next, GpioLevelIrq, ProcessInput

\* rx_ppm_input_process_input: the core task takes what was stored in the order it was,
\* once; only a FIFO that fills while it sleeps loses edges, a whole turn of
\* them.
THEOREM PopsOrdered == Spec => PopsInOrder
  BY PopStep, Invariant, PTL DEF Spec, PopsInOrder

-----------------------------------------------------------------------------
(* A silent transmitter *)

\* The time since the falling edge of l, n periods before the timer shows t.
Before(t, l, n) == (t - l - n * Period) % TimerModulus

\* The same at the core task's check before the last n.
Offset(n) == Before(now, last_toggle_time, n)

\* Nothing is stored any more; the first run takes what was, and those after it
\* find the FIFO drained.
DrainInv ==
    /\ silence >= -1
    /\ silence >= 0 => Quiet /\ ~Glitching
    /\ silence >= 0 /\ core_pc = "compare" => copied = Len(captured)
    /\ silence >= 1 => core_pc # "idle" /\ popped = Len(captured) - 1

\* As long as the input is active every check came too early to notice; from
\* there on to the next check the last one is a period ago.
OffsetInv ==
    active => \A n \in 1..silence :
        Offset(IF core_pc = "sleep" THEN n - 1 ELSE n) <= Inactivity

SilenceInv == IInv /\ DrainInv /\ OffsetInv

\* The core task is done when it has left a single entry of those it has seen.
LEMMA EmptyIsOneLeft ==
  ASSUME IInv, core_pc = "compare"
  PROVE  FifoEmpty <=> copied = popped + 1
<1>0. FIFO_SIZE \in Nat \ {0} /\ FIFO_SIZE > 1
  BY FifoAssumption
<1>1. /\ popped \in Nat /\ copied \in Nat /\ Len(captured) \in Nat
      /\ pop_fifo_idx = popped % FIFO_SIZE
      /\ irq_fifo_idx_copy = copied % FIFO_SIZE
      /\ Len(captured) - popped \in 1..FIFO_SIZE
      /\ copied \in (popped + 1)..Len(captured)
  BY DEF IInv, TypeOK, IndexInv, RunInv
<1>2. IncFifoIndex(pop_fifo_idx) = (popped + 1) % FIFO_SIZE
  BY <1>0, <1>1, ModNext DEF IncFifoIndex
<1>3. popped + 1 \in Nat /\ popped + 1 <= copied /\ copied - (popped + 1) < FIFO_SIZE
  BY <1>0, <1>1
<1>4. ASSUME (popped + 1) % FIFO_SIZE = copied % FIFO_SIZE
      PROVE  popped + 1 = copied
  BY <1>0, <1>1, <1>3, <1>4, ModDistinct
<1> QED BY <1>1, <1>2, <1>4 DEF FifoEmpty

\* Once the transmitter is silent only the core task moves on.
LEMMA StepDrain == IInv /\ DrainInv /\ [Next]_vars => DrainInv'
<1> SUFFICES ASSUME IInv, DrainInv, [Next]_vars PROVE DrainInv'
  OBVIOUS
<1>0. /\ IInv /\ DrainInv
      /\ silence \in Int /\ popped \in Nat /\ Len(captured) \in Nat /\ copied \in Nat
  BY DEF IInv, TypeOK
<1>1. CASE Transmit \/ Bounce
  BY <1>0, <1>1 DEF Transmit, Bounce, DrainInv, core
<1>2. CASE Silence
  BY <1>0, <1>2 DEF Silence, DrainInv, Quiet, Glitching, core
<1>3. CASE IrqReadTime \/ IrqClearFlag
  BY <1>0, <1>3 DEF IrqReadTime, IrqClearFlag, DrainInv, Quiet, core
<1>4. CASE IrqReadLevel
  BY <1>0, <1>4 DEF IrqReadLevel, DrainInv, Quiet
<1>5. CASE CopyFifoIndex
  BY <1>0, <1>5 DEF CopyFifoIndex, DrainInv, Quiet, Glitching, fifo
<1>6. CASE PopEdge
  <2>1. copied # popped + 1
    BY <1>0, <1>6, EmptyIsOneLeft DEF PopEdge
  <2>2. silence < 1
    BY <1>0, <1>6, <2>1 DEF PopEdge, DrainInv
  <2> QED BY <1>0, <1>6, <2>2 DEF PopEdge, DrainInv, Quiet, Glitching, world
<1>7. CASE FinishInput
  <2>1. copied = popped + 1
    BY <1>0, <1>7, EmptyIsOneLeft DEF FinishInput
  <2> QED BY <1>0, <1>7, <2>1 DEF FinishInput, DrainInv, Quiet, Glitching, world
<1>8. CASE UNCHANGED vars
  BY <1>0, <1>8 DEF DrainInv, Quiet, Glitching, vars, world, core, fifo
<1> QED BY <1>1, <1>2, <1>3, <1>4, <1>5, <1>6, <1>7, <1>8 DEF Next, GpioLevelIrq, ProcessInput

\* A period later the same check is one period further back.
LEMMA OffsetShift ==
  ASSUME NEW t \in Int, NEW l \in Int, NEW n \in Int
  PROVE  Before((t + Period) % TimerModulus, l, n) = Before(t, l, n - 1)
<1> DEFINE p == Period
           m == TimerModulus
<1>0. p \in Int /\ m \in Nat \ {0}
  BY FifoAssumption, SignalAssumption
<1> HIDE DEF p, m
<1> DEFINE s == t + p
           u == s % m
           c == n * p
           x == u - l - c
           y == t - l - (c - p)
<1>1. s \in Int
  BY <1>0
<1>2. c \in Int /\ (n - 1) * p = c - p
  BY <1>0, Z3
<1> HIDE DEF s
<1>3. PICK q \in Int : s = m * q + u
  BY <1>0, <1>1, ModPropertyInt
<1>4. u \in Int
  BY <1>0, <1>1, ModPropertyInt
<1> HIDE DEF u, c
<1>5. PICK k \in Int : k = -q
  OBVIOUS
<1>6. m * k = -(m * q) /\ m * q \in Int
  BY <1>0, <1>5, Z3
<1>7. x \in Int /\ y \in Int /\ x = m * k + y
  BY <1>0, <1>2, <1>3, <1>4, <1>6 DEF s
<1> HIDE DEF x, y
<1>8. x % m = y % m
  <2>1. (m * k + y) % m = y % m
    BY <1>0, <1>7, ModShift
  <2> QED BY <2>1, <1>7
<1> QED BY <1>2, <1>8 DEF x, y, u, s, c, p, m, Before

\* The core task alone moves what the offsets are made of.
LEMMA SilentStep ==
  ASSUME DrainInv, silence >= 0, Next
  PROVE  CopyFifoIndex \/ PopEdge \/ FinishInput
<1>0. silence # -1
  OBVIOUS
<1>1. Quiet /\ ~Glitching /\ ~flag /\ irq_pc = "idle"
  BY DEF DrainInv, Quiet
<1>2. ~Transmit /\ ~Silence /\ ~Bounce /\ ~GpioLevelIrq
  BY <1>0, <1>1 DEF Transmit, Silence, Bounce, GpioLevelIrq, IrqReadTime, IrqClearFlag, IrqReadLevel
<1> QED BY <1>2 DEF Next, ProcessInput

\* Each check adds one offset to those seen in time, and only a falling edge
\* starts anew.
LEMMA StepOffset == SilenceInv /\ [Next]_vars => OffsetInv'
<1> SUFFICES ASSUME SilenceInv, [Next]_vars PROVE OffsetInv'
  OBVIOUS
<1>0. /\ IInv /\ DrainInv /\ OffsetInv
      /\ now \in Time /\ last_toggle_time \in Time /\ silence \in Int
  BY DEF SilenceInv, IInv, TypeOK
<1>t. /\ TimerModulus \in Nat \ {0} /\ Period \in Int
      /\ now \in Int /\ last_toggle_time \in Int
  BY <1>0, FifoAssumption, SignalAssumption DEF Time
<1>1. ASSUME silence < 0, Next PROVE OffsetInv'
  <2>1. silence = -1
    BY <1>0, <1>1 DEF DrainInv
  <2>2. silence' = -1 \/ silence' = 0
    <3>1. CASE Transmit \/ Bounce \/ GpioLevelIrq
      BY <2>1, <3>1 DEF Transmit, Bounce, GpioLevelIrq, IrqReadTime, IrqClearFlag, IrqReadLevel
    <3>2. CASE Silence
      BY <3>2 DEF Silence
    <3>3. CASE ProcessInput
      BY <2>1, <3>3 DEF ProcessInput, CopyFifoIndex, PopEdge, FinishInput
    <3> QED BY <1>1, <3>1, <3>2, <3>3 DEF Next
  <2> QED BY <2>2 DEF OffsetInv
<1>2. ASSUME silence >= 0, CopyFifoIndex PROVE OffsetInv'
  <2> SUFFICES ASSUME active', NEW n \in 1..silence'
               PROVE  Offset(n)' <= Inactivity
    BY <1>2 DEF OffsetInv, CopyFifoIndex
  <2>1. /\ silence' = silence /\ active
        /\ last_toggle_time' = last_toggle_time
    BY <1>2 DEF CopyFifoIndex, ppm
  <2>2. silence >= 1 /\ n \in 1..silence /\ n \in Int
    BY <1>0, <2>1
  <2>3. core_pc = "sleep"
    BY <1>0, <1>2, <2>2 DEF CopyFifoIndex, DrainInv
  <2>4. now' = (now + Period) % TimerModulus
    BY <1>0, <1>2, <2>1, <2>2, <2>3 DEF CopyFifoIndex, Pass
  <2>5. Offset(n)' = Before((now + Period) % TimerModulus, last_toggle_time, n)
    BY <2>1, <2>4 DEF Offset
  <2>6. Before((now + Period) % TimerModulus, last_toggle_time, n)
            = Before(now, last_toggle_time, n - 1)
    BY <1>t, <2>2, OffsetShift
  <2>7. Offset(n - 1) <= Inactivity
    BY <1>0, <2>1, <2>2, <2>3 DEF OffsetInv
  <2> QED BY <2>5, <2>6, <2>7 DEF Offset
<1>3. ASSUME silence >= 0, PopEdge PROVE OffsetInv'
  <2>1. copied # popped + 1
    BY <1>0, <1>3, EmptyIsOneLeft DEF PopEdge
  <2>2. popped \in Nat /\ Len(captured) \in Nat
    BY <1>0 DEF IInv, TypeOK
  <2>3. silence' = 0
    BY <1>0, <1>3, <2>1, <2>2 DEF PopEdge, DrainInv
  <2> QED BY <2>3 DEF OffsetInv
<1>4. ASSUME silence >= 0, FinishInput PROVE OffsetInv'
  <2> SUFFICES ASSUME active', NEW n \in 1..silence'
               PROVE  Offset(n - 1)' <= Inactivity
    BY <1>4 DEF OffsetInv, FinishInput
  <2>1. /\ active /\ now' = now
        /\ last_toggle_time' = last_toggle_time /\ core_pc = "compare"
        /\ (now - last_toggle_time) % TimerModulus <= Inactivity
    BY <1>4 DEF FinishInput, CheckPpmActivity, world
  <2>2. silence' = silence + 1
    BY <1>0, <1>4, <2>1 DEF FinishInput
  <2>3. Offset(n - 1)' = Offset(n - 1)
    BY <2>1 DEF Offset
  <2>4. CASE n = 1
    <3>1. now - last_toggle_time - (n - 1) * Period = now - last_toggle_time
      BY <1>t, <2>4
    <3> QED BY <2>1, <2>3, <3>1 DEF Offset, Before
  <2>5. CASE n # 1
    <3>1. n - 1 \in 1..silence
      BY <1>0, <2>2, <2>5
    <3>2. Offset(n - 1) <= Inactivity
      BY <1>0, <2>1, <3>1 DEF OffsetInv
    <3> QED BY <2>3, <3>2
  <2> QED BY <2>4, <2>5
<1>5. ASSUME UNCHANGED vars PROVE OffsetInv'
  <2>1. /\ now' = now /\ last_toggle_time' = last_toggle_time /\ silence' = silence
        /\ (active <=> active') /\ core_pc' = core_pc
    BY <1>5 DEF vars, world, core, ppm
  <2> QED BY <1>0, <2>1 DEF OffsetInv, Offset
<1> QED BY <1>0, <1>1, <1>2, <1>3, <1>4, <1>5, SilentStep

\* The values of the source: a timer of 16 bits, INACTIVITY_TIMEOUT_TICK, and the
\* core task's period, in ticks.
SourceTiming == TimerModulus = 65536 /\ Inactivity = 46875 /\ Period = 26250

\* Of five checks a period apart one at least comes after the timeout and before
\* the timer has turned.
LEMMA OneOfFive ==
  ASSUME NEW t \in Int, NEW l \in Int
  PROVE  \E n \in 0..4 : (t - l - n * 26250) % 65536 > 46875
<1>1. ~ (/\ (t - l - 0 * 26250) % 65536 <= 46875
      /\ (t - l - 1 * 26250) % 65536 <= 46875
      /\ (t - l - 2 * 26250) % 65536 <= 46875
      /\ (t - l - 3 * 26250) % 65536 <= 46875
      /\ (t - l - 4 * 26250) % 65536 <= 46875)
  BY Z3
<1> QED BY <1>1, Z3

\* rx_input.c:209: the difference of two 16-bit times forgets the timer's turns, and
\* yet four runs of the core task are enough to notice that the signal is lost.
THEOREM LossDetected == ASSUME SourceTiming PROVE Spec => []LossIsDetected
<1>1. Init => SilenceInv
  <2>1. Init => DrainInv /\ OffsetInv
    BY DEF Init, DrainInv, OffsetInv
  <2> QED BY <2>1, InitIInv DEF SilenceInv
<1>2. SilenceInv /\ [Next]_vars => SilenceInv'
  BY StepIInv, StepDrain, StepOffset DEF SilenceInv
<1>3. SilenceInv => LossIsDetected
  <2> SUFFICES ASSUME SilenceInv, active, silence >= 5 PROVE FALSE
    BY DEF LossIsDetected, SilenceInv, IInv, TypeOK
  <2>1. /\ silence \in Int /\ now \in Time /\ last_toggle_time \in Time
        /\ core_pc \in {"sleep", "idle", "compare"}
        /\ OffsetInv
    BY DEF SilenceInv, IInv, TypeOK
  <2>2. now \in Int /\ last_toggle_time \in Int
    BY <2>1, FifoAssumption DEF Time
  <2>3. CASE core_pc = "sleep"
    <3>1. ASSUME NEW n \in 0..4
          PROVE  (now - last_toggle_time - n * 26250) % 65536 <= 46875
      <4>1. n + 1 \in 1..silence /\ (n + 1) - 1 = n
        BY <2>1
      <4>2. Offset(n) <= Inactivity
        BY <2>1, <2>3, <4>1 DEF OffsetInv
      <4> QED BY <4>2 DEF Offset, Before, SourceTiming
    <3> QED BY <2>2, <3>1, OneOfFive
  <2>4. CASE core_pc # "sleep"
    <3> DEFINE t == now - 26250
    <3>1. ASSUME NEW n \in 0..4
          PROVE  (t - last_toggle_time - n * 26250) % 65536 <= 46875
      <4>1. n + 1 \in 1..silence
        BY <2>1
      <4>2. Offset(n + 1) <= Inactivity
        BY <2>1, <2>4, <4>1 DEF OffsetInv
      <4>3. now - last_toggle_time - (n + 1) * 26250 = t - last_toggle_time - n * 26250
        BY <2>2
      <4> QED BY <4>2, <4>3 DEF Offset, Before, SourceTiming
    <3>2. t \in Int
      BY <2>2
    <3> HIDE DEF t
    <3> QED BY <2>2, <3>1, <3>2, OneOfFive
  <2> QED BY <2>3, <2>4
<1> QED BY <1>1, <1>2, <1>3, PTL DEF Spec

-----------------------------------------------------------------------------
(* Channels are not shifted: the invariant *)

\* The channel sent after channel c, and the widths its pulse may have.
After(c) == IF c = TxLast + 1 THEN 0 ELSE c + 1

WidthsOf(c) == IF c > TxLast THEN SyncWidths ELSE Widths[c + 1]

\* The edges of the signal so far: those stored, and the one being stored.
Sent == IF Quiet THEN captured ELSE Append(captured, [time |-> now, high |-> pin])

\* The times of the last entries are in their slots, but for the one the
\* handler is filling again.
TimeInv ==
    \A k \in 1..Len(captured) :
        Len(captured) - k < (IF irq_pc = "idle" THEN FIFO_SIZE ELSE FIFO_SIZE - 1) =>
            irq_fifo[(k - 1) % FIFO_SIZE].time = captured[k].time

\* On a clean signal the handler stores each edge at the time it came.
HandlerInv ==
    glitches = 0 =>
        /\ irq_pc = "level" => ~flag
        /\ irq_pc # "idle" => irq_fifo[irq_fifo_idx].time = now

\* Levels alternate, and if chan[k] is the channel whose pulse edge k ends, pulses
\* follow in the order of channels with the widths of their channels.
Pulses(edges, chan) ==
    /\ \A k \in 2..(Len(edges) - 1) : edges[k + 1].high <=> ~edges[k].high
    /\ \A k \in 2..(Len(edges) - 2) : ~edges[k].high =>
           /\ chan[k + 2] = After(chan[k])
           /\ (edges[k + 2].time - edges[k].time) % TimerModulus
                   \in WidthsOf(chan[k + 2])

\* Where the transmitter stands in the pulse it is sending.
Transmitter(edges, chan) ==
    silence = -1 =>
        /\ Len(edges) >= 2 => edges[Len(edges)] = [time |-> now, high |-> pin]
        /\ Len(edges) >= 2 /\ ~pin => tx_channel = After(chan[Len(edges)])
        /\ Len(edges) >= 3 /\ pin =>
               /\ tx_channel = After(chan[Len(edges) - 1])
               /\ ((now + tx_high) - edges[Len(edges) - 1].time) % TimerModulus
                       \in WidthsOf(tx_channel)

\* Where the decoder stands: unless edges were lost since, it is one edge or two
\* past the falling edge it has measured from, and when it is locked its index is
\* the channel sent from there.
Decoder(chan) ==
    /\ since > 0 => since < popped
    /\ ~gap /\ popped > 0 => prev_level = captured[popped].high
    /\ since > 0 /\ ~gap =>
           /\ popped \in {since + 1, since + 2}
           /\ ~captured[since + 1].high
           /\ last_toggle_time = captured[since + 1].time
    /\ locked # -1 =>
           /\ since > 0 /\ ~gap
           /\ locked = After(chan[since + 1])
           /\ index = locked

ChannelInv ==
    glitches = 0 =>
        \E chan \in [Nat -> 0..(TxLast + 1)] :
            Pulses(Sent, chan) /\ Transmitter(Sent, chan) /\ Decoder(chan)

SignalInv == IInv /\ DrainInv /\ TimeInv /\ HandlerInv /\ ChannelInv

-----------------------------------------------------------------------------
(* Channels are not shifted: what is stored *)

\* A time that has turned gives the same differences.
LEMMA ModMinus ==
  ASSUME NEW a \in Int, NEW b \in Int, NEW f \in Nat \ {0}
  PROVE  ((a % f) - b) % f = (a - b) % f
<1> DEFINE r == a % f
<1>1. r \in Int
  BY ModPropertyInt
<1>2. PICK q \in Int : a = f * q + r
  BY ModPropertyInt
<1> HIDE DEF r
<1>3. a - b = f * q + (r - b) /\ r - b \in Int
  <2>1. f * q \in Int
    BY <1>2, Z3
  <2> QED BY <1>1, <1>2, <2>1
<1>4. (f * q + (r - b)) % f = (r - b) % f
  BY <1>2, <1>3, ModShift
<1> QED BY <1>3, <1>4 DEF r

\* The width of a pulse whose high part was cut to leave room for its low part.
LEMMA PulseModulo ==
  ASSUME NEW t \in Int, NEW l \in Int, NEW f \in Nat \ {0}, NEW w \in 0..(f - 1)
  PROVE  ((((t + l) % f) + (w - l)) - t) % f = w
<1> DEFINE r == (t + l) % f
<1>1. t + l \in Int
  OBVIOUS
<1>2. r \in Int
  BY <1>1, ModPropertyInt
<1>3. PICK q \in Int : t + l = f * q + r
  BY <1>1, ModPropertyInt
<1> HIDE DEF r
<1>4. PICK p \in Int : p = -q
  OBVIOUS
<1>5. f * p = -(f * q) /\ f * q \in Int
  BY <1>3, <1>4, Z3
<1>6. (r + (w - l)) - t = f * p + w /\ (r + (w - l)) - t \in Int
  BY <1>2, <1>3, <1>5
<1>7. ((r + (w - l)) - t) % f = w
  BY <1>4, <1>6, ModUniqueInt
<1> QED BY <1>7 DEF r

\* The slot of an entry.
LEMMA SlotOf ==
  ASSUME NEW k \in Int
  PROVE  (k - 1) % FIFO_SIZE \in Slot
<1>1. k - 1 \in Int /\ FIFO_SIZE \in Nat \ {0}
  BY FifoAssumption
<1> QED BY <1>1, ModRange DEF Slot

\* The entry that a full FIFO would overwrite is one turn behind.
LEMMA OtherSlot ==
  ASSUME IInv, NEW k \in 1..Len(captured), Len(captured) - k < FIFO_SIZE - 1
  PROVE  (k - 1) % FIFO_SIZE # irq_fifo_idx
<1>0. /\ Len(captured) \in Nat /\ FIFO_SIZE \in Nat \ {0} /\ FIFO_SIZE > 1
      /\ irq_fifo_idx = Len(captured) % FIFO_SIZE
  BY FifoAssumption DEF IInv, TypeOK, IndexInv
<1>1. /\ k - 1 \in Nat /\ k - 1 <= Len(captured) /\ Len(captured) - (k - 1) < FIFO_SIZE
      /\ k - 1 # Len(captured)
  BY <1>0
<1>2. (k - 1) % FIFO_SIZE = Len(captured) % FIFO_SIZE => k - 1 = Len(captured)
  BY <1>0, <1>1, ModDistinct
<1> QED BY <1>0, <1>1, <1>2

\* Every step keeps the times of the last entries in their slots.
LEMMA StepTime == IInv /\ TimeInv /\ [Next]_vars => TimeInv'
<1> SUFFICES ASSUME IInv, TimeInv, [Next]_vars PROVE TimeInv'
  OBVIOUS
<1>0. /\ Len(captured) \in Nat /\ FIFO_SIZE \in Nat \ {0} /\ FIFO_SIZE > 1
      /\ irq_fifo_idx \in Slot /\ irq_fifo \in [Slot -> Edge] /\ captured \in Seq(Edge)
  BY FifoAssumption DEF IInv, TypeOK
<1>1. CASE Transmit \/ Silence \/ Bounce \/ PopEdge \/ FinishInput \/ CopyFifoIndex
           \/ UNCHANGED vars
  <2>1. UNCHANGED <<irq_fifo, captured, irq_pc>>
    <3>1. CASE Transmit \/ Silence \/ Bounce
      BY <3>1 DEF Transmit, Silence, Bounce, fifo
    <3>2. CASE PopEdge \/ FinishInput \/ CopyFifoIndex
      BY <3>2 DEF PopEdge, FinishInput, CopyFifoIndex, fifo
    <3>3. CASE UNCHANGED vars
      BY <3>3 DEF vars, fifo
    <3> QED BY <1>1, <3>1, <3>2, <3>3
  <2> QED BY <2>1 DEF TimeInv
<1>2. CASE IrqReadTime
  <2>1. /\ irq_pc = "idle" /\ irq_pc' = "clear" /\ captured' = captured
        /\ irq_fifo' = [irq_fifo EXCEPT ![irq_fifo_idx].time = now]
    BY <1>2 DEF IrqReadTime
  <2> SUFFICES ASSUME NEW k \in 1..Len(captured), Len(captured) - k < FIFO_SIZE - 1
               PROVE  irq_fifo'[(k - 1) % FIFO_SIZE].time = captured[k].time
    BY <2>1 DEF TimeInv
  <2>2. (k - 1) % FIFO_SIZE # irq_fifo_idx /\ (k - 1) % FIFO_SIZE \in Slot
    BY OtherSlot, SlotOf
  <2>3. irq_fifo'[(k - 1) % FIFO_SIZE] = irq_fifo[(k - 1) % FIFO_SIZE]
    BY <1>0, <2>1, <2>2
  <2>4. Len(captured) - k < FIFO_SIZE
    BY <1>0
  <2> QED BY <2>1, <2>3, <2>4 DEF TimeInv
<1>3. CASE IrqReadLevel
  <2>1. /\ irq_pc = "level" /\ irq_pc' = "idle"
        /\ irq_fifo' = [irq_fifo EXCEPT ![irq_fifo_idx].high = pin]
        /\ captured' = Append(captured, irq_fifo'[irq_fifo_idx])
        /\ irq_fifo_idx = Len(captured) % FIFO_SIZE
        /\ irq_fifo'[irq_fifo_idx] \in Edge
    BY <1>3 DEF IrqReadLevel, IInv, TypeOK, IndexInv, Edge
  <2>2. Len(captured') = Len(captured) + 1
    BY <1>0, <2>1
  <2> SUFFICES ASSUME NEW k \in 1..Len(captured'), Len(captured') - k < FIFO_SIZE
               PROVE  irq_fifo'[(k - 1) % FIFO_SIZE].time = captured'[k].time
    BY <2>1 DEF TimeInv
  <2>3. CASE k = Len(captured')
    BY <1>0, <2>1, <2>2, <2>3
  <2>4. CASE k # Len(captured')
    <3>1. k \in 1..Len(captured) /\ Len(captured) - k < FIFO_SIZE - 1
      BY <1>0, <2>2, <2>4
    <3>2. (k - 1) % FIFO_SIZE # irq_fifo_idx /\ (k - 1) % FIFO_SIZE \in Slot
      BY <3>1, OtherSlot, SlotOf
    <3>3. irq_fifo'[(k - 1) % FIFO_SIZE] = irq_fifo[(k - 1) % FIFO_SIZE]
      BY <1>0, <2>1, <3>2
    <3>4. captured'[k] = captured[k]
      BY <1>0, <2>1, <3>1
    <3> QED BY <2>1, <3>1, <3>3, <3>4 DEF TimeInv
  <2> QED BY <2>3, <2>4
<1>4. CASE IrqClearFlag
  BY <1>4 DEF IrqClearFlag, TimeInv, fifo
<1> QED BY <1>1, <1>2, <1>3, <1>4 DEF Next, GpioLevelIrq, ProcessInput

\* On a clean signal nothing moves while an edge is being stored.
LEMMA StepHandler ==
  IInv /\ DrainInv /\ HandlerInv /\ [Next]_vars => HandlerInv'
<1> SUFFICES ASSUME IInv, DrainInv, HandlerInv, [Next]_vars, glitches' = 0
             PROVE  /\ irq_pc' = "level" => ~flag'
                    /\ irq_pc' # "idle" => irq_fifo'[irq_fifo_idx'].time = now'
  BY DEF HandlerInv
<1>0. /\ glitches \in Nat /\ irq_fifo_idx \in Slot /\ irq_fifo \in [Slot -> Edge]
  BY DEF IInv, TypeOK
<1>1. CASE Transmit \/ Silence \/ CopyFifoIndex
  <2>1. irq_pc = "idle" /\ irq_pc' = irq_pc
    BY <1>1 DEF Transmit, Fall, Rise, Silence, CopyFifoIndex, Quiet
  <2> QED BY <2>1
<1>2. CASE Bounce
  BY <1>0, <1>2 DEF Bounce
<1>3. CASE IrqReadTime
  <2>1. /\ irq_pc' = "clear" /\ UNCHANGED <<irq_fifo_idx, now>>
        /\ irq_fifo' = [irq_fifo EXCEPT ![irq_fifo_idx].time = now]
    BY <1>3 DEF IrqReadTime, world
  <2> QED BY <1>0, <2>1 DEF Edge
<1>4. CASE IrqClearFlag
  BY <1>4 DEF IrqClearFlag, HandlerInv, world, fifo
<1>5. CASE IrqReadLevel
  BY <1>5 DEF IrqReadLevel
<1>6. CASE PopEdge \/ FinishInput
  BY <1>6 DEF PopEdge, FinishInput, fifo
<1>7. CASE UNCHANGED vars
  BY <1>7 DEF HandlerInv, vars, world, fifo
<1> QED BY <1>1, <1>2, <1>3, <1>4, <1>5, <1>6, <1>7 DEF Next, GpioLevelIrq, ProcessInput

-----------------------------------------------------------------------------
(* Channels are not shifted: the signal *)

\* The edges of the signal begin with those stored.
LEMMA SentIs ==
  ASSUME IInv
  PROVE  /\ Sent \in Seq(Edge) /\ captured \in Seq(Edge)
         /\ Len(captured) \in Nat /\ Len(captured) >= 1
         /\ Len(Sent) \in Nat /\ Len(Sent) >= Len(captured)
         /\ \A k \in 1..Len(captured) : Sent[k] = captured[k]
<1>1. /\ captured \in Seq(Edge) /\ popped \in Nat
      /\ [time |-> now, high |-> pin] \in Edge
      /\ Len(captured) - popped \in 1..FIFO_SIZE
  BY DEF IInv, TypeOK, IndexInv, Edge
<1>2. Len(captured) \in Nat /\ FIFO_SIZE \in Nat
  BY <1>1, FifoAssumption
<1>3. CASE Quiet
  BY <1>1, <1>2, <1>3 DEF Sent
<1>4. CASE ~Quiet
  <2>1. Sent = Append(captured, [time |-> now, high |-> pin])
    BY <1>4 DEF Sent
  <2> QED BY <1>1, <1>2, <2>1
<1> QED BY <1>3, <1>4

\* Only the transmitter makes edges; to store one does not change it.
LEMMA SentKept ==
  ASSUME IInv, DrainInv, HandlerInv, glitches = 0, glitches' = 0, [Next]_vars, ~Transmit
  PROVE  Sent' = Sent
<1>0. glitches \in Nat /\ irq_fifo_idx \in Slot /\ irq_fifo \in [Slot -> Edge]
  BY DEF IInv, TypeOK
<1>1. CASE Silence
  <2>1. Quiet /\ UNCHANGED <<captured, flag, irq_pc>>
    BY <1>1 DEF Silence, fifo
  <2> QED BY <2>1 DEF Sent, Quiet
<1>2. CASE Bounce
  BY <1>0, <1>2 DEF Bounce
<1>3. CASE IrqReadTime \/ IrqClearFlag
  <2>1. ~Quiet /\ ~Quiet' /\ UNCHANGED <<captured, now, pin>>
    BY <1>3 DEF IrqReadTime, IrqClearFlag, Quiet, world, fifo
  <2> QED BY <2>1 DEF Sent
<1>4. CASE IrqReadLevel
  <2>1. /\ irq_pc = "level" /\ irq_pc' = "idle" /\ flag' = flag
        /\ irq_fifo' = [irq_fifo EXCEPT ![irq_fifo_idx].high = pin]
        /\ captured' = Append(captured, irq_fifo'[irq_fifo_idx])
    BY <1>4 DEF IrqReadLevel
  <2>2. ~flag /\ irq_fifo[irq_fifo_idx].time = now
    BY <2>1 DEF HandlerInv
  <2>3. irq_fifo'[irq_fifo_idx] = [time |-> now, high |-> pin]
    BY <1>0, <2>1, <2>2 DEF Edge
  <2>4. ~Quiet /\ Quiet'
    BY <2>1, <2>2 DEF Quiet
  <2> QED BY <2>1, <2>3, <2>4 DEF Sent
<1>5. CASE CopyFifoIndex
  <2>1. /\ UNCHANGED <<captured, pin, flag, irq_pc>>
        /\ silence > 0 \/ UNCHANGED now
    BY <1>5 DEF CopyFifoIndex, fifo
  <2>2. CASE UNCHANGED now
    BY <2>1, <2>2 DEF Sent, Quiet
  <2>3. CASE silence > 0
    <3>1. Quiet
      BY <2>3 DEF DrainInv, IInv, TypeOK
    <3> QED BY <2>1, <3>1 DEF Sent, Quiet
  <2> QED BY <2>1, <2>2, <2>3
<1>6. CASE PopEdge \/ FinishInput
  <2>1. UNCHANGED <<captured, now, pin, flag, irq_pc>>
    BY <1>6 DEF PopEdge, FinishInput, world, fifo
  <2> QED BY <2>1 DEF Sent, Quiet
<1>7. CASE UNCHANGED vars
  <2>1. UNCHANGED <<captured, now, pin, flag, irq_pc>>
    BY <1>7 DEF vars, world, fifo
  <2> QED BY <2>1 DEF Sent, Quiet
<1> QED BY <1>1, <1>2, <1>3, <1>4, <1>5, <1>6, <1>7 DEF Next, GpioLevelIrq, ProcessInput

\* What the transmitter adds to them.
LEMMA SentGrows ==
  ASSUME Transmit
  PROVE  /\ Sent = captured /\ silence = -1
         /\ Sent' = Append(Sent, [time |-> now', high |-> pin'])
         /\ UNCHANGED <<captured, popped, prev_level, last_toggle_time, index, since,
                        locked, gap, silence>>
<1>1. /\ Quiet /\ flag' = TRUE /\ UNCHANGED captured
  BY DEF Transmit, Fall, Rise, fifo
<1>2. Sent = captured /\ ~Quiet'
  BY <1>1 DEF Sent, Quiet
<1>3. Sent' = Append(captured, [time |-> now', high |-> pin'])
  BY <1>1, <1>2 DEF Sent
<1> QED BY <1>1, <1>2, <1>3 DEF Transmit, ppm, lock

\* An edge more: it has the other level, and where it ends a pulse the next channel
\* and its width.
Follows(s, chan, e, c) ==
    /\ Len(s) >= 2 => (e.high <=> ~s[Len(s)].high)
    /\ Len(s) >= 3 /\ ~s[Len(s) - 1].high =>
           /\ c = After(chan[Len(s) - 1])
           /\ (e.time - s[Len(s) - 1].time) % TimerModulus \in WidthsOf(c)

\* What appending does.
LEMMA AppendIs ==
  ASSUME NEW S, NEW s \in Seq(S), NEW e \in S
  PROVE  /\ Len(s) \in Nat /\ Append(s, e) \in Seq(S)
         /\ Len(Append(s, e)) = Len(s) + 1 /\ Append(s, e)[Len(s) + 1] = e
         /\ \A k \in 1..Len(s) : Append(s, e)[k] = s[k]
  OBVIOUS

\* It keeps pulses in order.
LEMMA PulsesAppend ==
  ASSUME NEW s \in Seq(Edge), NEW e \in Edge, NEW c,
         NEW chan, NEW chan1, Pulses(s, chan), Follows(s, chan, e, c),
         chan1[Len(s) + 1] = c, \A k \in 1..Len(s) : chan1[k] = chan[k]
  PROVE  Pulses(Append(s, e), chan1)
<1> DEFINE n == Len(s)
           s1 == Append(s, e)
<1>1. /\ n \in Nat /\ Len(s1) = n + 1 /\ s1[n + 1] = e
      /\ \A k \in 1..n : s1[k] = s[k]
  BY AppendIs
<1>2. chan1[n + 1] = c /\ \A k \in 1..n : chan1[k] = chan[k]
  OBVIOUS
<1>h. /\ n >= 2 => (e.high <=> ~s[n].high)
      /\ \A k \in 2..(n - 1) : s[k + 1].high <=> ~s[k].high
  BY DEF Pulses, Follows
<1>w. /\ n >= 3 /\ ~s[n - 1].high =>
             /\ c = After(chan[n - 1])
             /\ (e.time - s[n - 1].time) % TimerModulus \in WidthsOf(c)
      /\ \A k \in 2..(n - 2) : ~s[k].high =>
             /\ chan[k + 2] = After(chan[k])
             /\ (s[k + 2].time - s[k].time) % TimerModulus \in WidthsOf(chan[k + 2])
  BY DEF Pulses, Follows
<1> HIDE DEF n, s1
<1>3. ASSUME NEW k \in 2..(Len(s1) - 1)
      PROVE  s1[k + 1].high <=> ~s1[k].high
  <2>1. k \in 1..n /\ k + 1 \in 1..(n + 1) /\ s1[k] = s[k]
    BY <1>1
  <2>2. CASE k = n
    BY <1>1, <1>h, <2>1, <2>2
  <2>3. CASE k # n
    <3>1. k \in 2..(n - 1) /\ k + 1 \in 1..n
      BY <1>1, <2>1, <2>3
    <3> QED BY <1>1, <1>h, <2>1, <3>1
  <2> QED BY <2>2, <2>3
<1>4. ASSUME NEW k \in 2..(Len(s1) - 2), ~s1[k].high
      PROVE  /\ chan1[k + 2] = After(chan1[k])
             /\ (s1[k + 2].time - s1[k].time) % TimerModulus \in WidthsOf(chan1[k + 2])
  <2>1. k \in 1..n /\ s1[k] = s[k] /\ chan1[k] = chan[k]
    BY <1>1, <1>2
  <2>2. CASE k = n - 1
    <3>1. k + 2 = n + 1 /\ n >= 3
      BY <1>1, <2>1, <2>2
    <3>2. s1[k + 2] = e /\ chan1[k + 2] = c
      BY <1>1, <1>2, <3>1
    <3> QED BY <1>4, <1>w, <2>1, <2>2, <3>1, <3>2
  <2>3. CASE k # n - 1
    <3>1. k \in 2..(n - 2) /\ k + 2 \in 1..n
      BY <1>1, <2>1, <2>3
    <3>2. s1[k + 2] = s[k + 2] /\ chan1[k + 2] = chan[k + 2]
      BY <1>1, <1>2, <3>1
    <3> QED BY <1>4, <1>w, <2>1, <3>1, <3>2
  <2> QED BY <2>2, <2>3
<1>5. Pulses(s1, chan1)
  BY <1>3, <1>4 DEF Pulses
<1> QED BY <1>5 DEF s1

\* The widths sent, as numbers that do not turn the timer.
LEMMA WidthsFit ==
  ASSUME SignalFits, NEW c \in 0..(TxLast + 1), NEW w \in WidthsOf(c)
  PROVE  /\ w \in 0..(TimerModulus - 1)
         /\ w > FrameStartPulse <=> c = TxLast + 1
<1>1. TxLast + 1 = Len(Widths) /\ Len(Widths) \in Nat /\ c \in Nat
      /\ FrameStartPulse \in Nat /\ TimerModulus \in Nat
  BY SignalAssumption, FifoAssumption DEF TxLast
<1>2. CASE c = TxLast + 1
  BY <1>1, <1>2, SignalAssumption DEF SignalFits, WidthsOf, TxLast
<1>3. CASE c # TxLast + 1
  <2>0. DOMAIN Widths = 1..Len(Widths)
    BY SignalAssumption
  <2>1. c + 1 \in DOMAIN Widths /\ ~(c > TxLast)
    <3>1. c <= TxLast + 1 /\ TxLast \in Int
      BY <1>1 DEF TxLast
    <3>2. c + 1 \in 1..Len(Widths) /\ ~(c > TxLast)
      BY <1>1, <1>3, <3>1
    <3> QED BY <2>0, <3>2
  <2>2. w \in Widths[c + 1] /\ Widths[c + 1] \subseteq Nat
    BY <2>1, SignalAssumption DEF WidthsOf
  <2>3. w <= FrameStartPulse /\ FrameStartPulse < TimerModulus
    BY <2>1, <2>2 DEF SignalFits
  <2> QED BY <1>1, <1>3, <2>2, <2>3
<1> QED BY <1>2, <1>3
-----------------------------------------------------------------------------
(* Channels are not shifted: the transmitter *)

\* A falling edge ends the pulse of the transmitter's channel.
LEMMA FallStep ==
  ASSUME IInv, Transmit, Fall, NEW chan, NEW chan1,
         Pulses(Sent, chan), Transmitter(Sent, chan),
         chan1[Len(Sent) + 1] = tx_channel, \A k \in 1..Len(Sent) : chan1[k] = chan[k]
  PROVE  Pulses(Sent, chan1)' /\ Transmitter(Sent, chan1)'
<1>1. PICK s \in Seq(Edge) : s = Sent
  BY SentIs
<1>2. PICK n \in Nat : n = Len(s)
  BY <1>1
<1>3. PICK e \in Edge : e = [time |-> now', high |-> pin']
  <2>1. now' \in Time /\ pin' \in BOOLEAN
    BY StepTypes DEF IInv, TypeOK, Next
  <2> QED BY <2>1 DEF Edge
<1>4. PICK c : c = tx_channel
  OBVIOUS
<1>5. /\ Sent' = Append(s, e) /\ silence = -1
      /\ pin /\ pin' = FALSE /\ now' = (now + tx_high) % TimerModulus
      /\ tx_channel' = After(c)
  BY <1>1, <1>3, <1>4, SentGrows DEF Fall, Pass, After
<1>6. /\ n >= 2 => s[n] = [time |-> now, high |-> pin]
      /\ n >= 3 => /\ c = After(chan[n - 1])
                   /\ ((now + tx_high) - s[n - 1].time) % TimerModulus \in WidthsOf(c)
  BY <1>1, <1>2, <1>4, <1>5 DEF Transmitter
<1>7. Follows(s, chan, e, c)
  <2>1. ASSUME n >= 2 PROVE e.high <=> ~s[n].high
    BY <1>3, <1>5, <1>6, <2>1
  <2>2. ASSUME n >= 3
        PROVE  (e.time - s[n - 1].time) % TimerModulus \in WidthsOf(c)
    <3>1. n - 1 \in 1..n
      BY <2>2
    <3>2. s[n - 1] \in Edge
      BY <1>2, <3>1
    <3>3. /\ s[n - 1].time \in Int /\ now + tx_high \in Int
          /\ TimerModulus \in Nat \ {0}
      BY <3>2, FifoAssumption DEF Edge, Time, IInv, TypeOK
    <3>4. e.time = (now + tx_high) % TimerModulus
      BY <1>3, <1>5
    <3>5. (e.time - s[n - 1].time) % TimerModulus
              = ((now + tx_high) - s[n - 1].time) % TimerModulus
      <4> DEFINE a == now + tx_high
                 b == s[n - 1].time
      <4>1. a \in Int /\ b \in Int /\ e.time = a % TimerModulus
        BY <3>3, <3>4
      <4> HIDE DEF a, b
      <4>2. ((a % TimerModulus) - b) % TimerModulus = (a - b) % TimerModulus
        BY <3>3, <4>1, ModMinus
      <4>3. (e.time - b) % TimerModulus = (a - b) % TimerModulus
        BY <4>1, <4>2, Zenon
      <4> QED BY <4>3 DEF a, b
    <3> QED BY <1>6, <2>2, <3>5
  <2> QED BY <1>2, <1>6, <2>1, <2>2 DEF Follows
<1>8. Pulses(Append(s, e), chan1)
  BY <1>1, <1>2, <1>4, <1>7, PulsesAppend
<1>9. /\ Len(Append(s, e)) = n + 1 /\ Append(s, e)[n + 1] = e
      /\ chan1[n + 1] = c
  BY <1>1, <1>2, <1>4, AppendIs
<1>10. Transmitter(Sent, chan1)'
  BY <1>3, <1>5, <1>9 DEF Transmitter
<1> QED BY <1>5, <1>8, <1>10 DEF Pulses

\* A rising edge ends its low part; the width is chosen.
LEMMA RiseStep ==
  ASSUME SignalFits, IInv, Transmit, Rise, NEW chan, NEW chan1,
         Pulses(Sent, chan), Transmitter(Sent, chan),
         chan1[Len(Sent) + 1] = tx_channel, \A k \in 1..Len(Sent) : chan1[k] = chan[k]
  PROVE  Pulses(Sent, chan1)' /\ Transmitter(Sent, chan1)'
<1>1. PICK s \in Seq(Edge) : s = Sent
  BY SentIs
<1>2. PICK n \in Nat : n = Len(s)
  BY <1>1
<1>3. PICK e \in Edge : e = [time |-> now', high |-> pin']
  <2>1. now' \in Time /\ pin' \in BOOLEAN
    BY StepTypes DEF IInv, TypeOK, Next
  <2> QED BY <2>1 DEF Edge
<1>4. PICK c \in 0..(TxLast + 1) : c = tx_channel
  BY DEF IInv, TypeOK
<1>5. /\ Sent' = Append(s, e) /\ silence = -1
      /\ ~pin /\ pin' = TRUE /\ now' = (now + LowTime) % TimerModulus
      /\ tx_channel' = c
  BY <1>1, <1>3, <1>4, SentGrows DEF Rise, Pass
<1>6. PICK w \in WidthsOf(c) : tx_high' = w - LowTime
  BY <1>4 DEF Rise, WidthsOf
<1>7. n >= 2 => s[n] = [time |-> now, high |-> pin] /\ c = After(chan[n])
  BY <1>1, <1>2, <1>4, <1>5 DEF Transmitter
<1>8. Follows(s, chan, e, c)
  <2>1. ASSUME n >= 2 PROVE (e.high <=> ~s[n].high) /\ ~s[n].high
    BY <1>3, <1>5, <1>7, <2>1
  <2>2. ASSUME n >= 3 PROVE s[n - 1].high
    <3>1. n - 1 \in 2..(n - 1) /\ (n - 1) + 1 = n
      BY <2>2
    <3>2. s[(n - 1) + 1].high <=> ~s[n - 1].high
      BY <1>1, <1>2, <3>1 DEF Pulses
    <3> QED BY <2>1, <2>2, <3>1, <3>2
  <2> QED BY <1>2, <2>1, <2>2 DEF Follows
<1>9. Pulses(Append(s, e), chan1)
  BY <1>1, <1>2, <1>4, <1>8, PulsesAppend
<1>10. /\ Len(Append(s, e)) = n + 1 /\ Append(s, e)[n + 1] = e
       /\ n >= 1 => Append(s, e)[n] = s[n] /\ chan1[n] = chan[n]
  BY <1>1, <1>2, AppendIs
<1>11. ((now' + tx_high') - now) % TimerModulus = w
  <2>1. /\ now \in Int /\ LowTime \in Int /\ TimerModulus \in Nat \ {0}
    BY FifoAssumption, SignalAssumption DEF IInv, TypeOK, Time
  <2>2. w \in 0..(TimerModulus - 1)
    BY WidthsFit
  <2> QED BY <1>5, <1>6, <2>1, <2>2, PulseModulo
<1>12. Transmitter(Sent, chan1)'
  <2>1. (n + 1) - 1 = n /\ (n + 1 >= 3 => n >= 2) /\ (n >= 2 => n >= 1)
    OBVIOUS
  <2>2. ASSUME n >= 2
        PROVE  /\ c = After(chan1[n])
               /\ Append(s, e)[n].time = now
    BY <1>7, <1>10, <2>1, <2>2
  <2> QED BY <1>3, <1>5, <1>6, <1>10, <1>11, <2>1, <2>2 DEF Transmitter
<1> QED BY <1>5, <1>9, <1>12 DEF Pulses

\* What is stored more does not move the decoder.
LEMMA DecoderKept ==
  ASSUME IInv, NEW chan, NEW chan1, Decoder(chan),
         \A k \in 1..Len(captured) : chan1[k] = chan[k],
         \A k \in 1..Len(captured) : captured'[k] = captured[k],
         UNCHANGED <<popped, prev_level, last_toggle_time, index, since, locked, gap>>
  PROVE  Decoder(chan1)'
<1>1. /\ popped \in Nat /\ since \in Nat /\ Len(captured) \in Nat
      /\ popped + 1 <= Len(captured)
  BY FifoAssumption DEF IInv, TypeOK, IndexInv
<1>2. popped > 0 => captured'[popped] = captured[popped]
  BY <1>1
<1>3. since > 0 => /\ captured'[since + 1] = captured[since + 1]
                   /\ chan1[since + 1] = chan[since + 1]
  <2>1. since > 0 => since + 1 \in 1..Len(captured)
    BY <1>1 DEF Decoder
  <2> QED BY <2>1
<1> QED BY <1>2, <1>3 DEF Decoder
-----------------------------------------------------------------------------
(* Channels are not shifted: the decoder *)

\* The entry the core task takes is the next one stored.
LEMMA NextEntry ==
  ASSUME IInv, TimeInv, PopEdge
  PROVE  /\ popped \in Nat /\ popped + 1 \in 1..Len(captured)
         /\ popped' = popped + 1 /\ captured' = captured
         /\ irq_fifo[pop_fifo_idx] \in Edge
         /\ irq_fifo[pop_fifo_idx] = captured[popped + 1]
         /\ Sent[popped + 1] = captured[popped + 1]
<1>1. /\ popped \in Nat /\ Len(captured) \in Nat /\ captured \in Seq(Edge)
      /\ pop_fifo_idx = popped % FIFO_SIZE /\ pop_fifo_idx \in Slot
      /\ irq_fifo \in [Slot -> Edge]
      /\ Len(captured) - popped \in 1..FIFO_SIZE /\ FIFO_SIZE \in Nat
  BY FifoAssumption DEF IInv, TypeOK, IndexInv
<1>2. irq_pc = "idle" /\ popped' = popped + 1 /\ captured' = captured
  BY DEF PopEdge, fifo
<1>3. /\ popped + 1 \in 1..Len(captured) /\ Len(captured) - (popped + 1) < FIFO_SIZE
      /\ (popped + 1) - 1 = popped
  BY <1>1
<1>4. /\ irq_fifo[pop_fifo_idx].time = captured[popped + 1].time
      /\ irq_fifo[pop_fifo_idx].high = captured[popped + 1].high
  BY <1>1, <1>2, <1>3 DEF TimeInv, IInv, ContentInv
<1>5. irq_fifo[pop_fifo_idx] \in Edge /\ captured[popped + 1] \in Edge
  BY <1>1, <1>3
<1>6. irq_fifo[pop_fifo_idx] = captured[popped + 1]
  BY <1>4, <1>5 DEF Edge
<1> QED BY <1>1, <1>2, <1>3, <1>5, <1>6, SentIs

\* One edge past the falling one the level is high, two past it the next entry is
\* the falling edge that ends the pulse.
LEMMA NextFall ==
  ASSUME IInv, TimeInv, PopEdge, NEW chan, Pulses(Sent, chan), Decoder(chan),
         since > 0, ~gap
  PROVE  \/ popped = since + 1 /\ ~prev_level /\ captured[popped + 1].high
         \/ /\ popped = since + 2 /\ prev_level /\ ~captured[popped + 1].high
            /\ chan[popped + 1] = After(chan[since + 1])
            /\ PulseWidth(captured[popped + 1]) \in WidthsOf(chan[popped + 1])
<1>1. PICK s \in Seq(Edge) : s = Sent
  BY SentIs
<1>2. /\ popped \in {since + 1, since + 2} /\ prev_level = captured[popped].high
      /\ ~captured[since + 1].high /\ last_toggle_time = captured[since + 1].time
      /\ since \in Nat /\ popped \in Nat /\ popped > 0
  BY NextEntry DEF Decoder, IInv, TypeOK
<1>3. /\ Len(captured) \in Nat /\ Len(s) \in Nat /\ Len(s) >= Len(captured)
      /\ popped + 1 \in 1..Len(captured)
      /\ \A k \in 1..Len(captured) : s[k] = captured[k]
  BY <1>1, SentIs, NextEntry
<1>4. CASE popped = since + 1
  <2>1. since + 1 \in 2..(Len(s) - 1) /\ since + 1 \in 1..Len(captured)
    BY <1>2, <1>3, <1>4
  <2>2. s[(since + 1) + 1].high <=> ~s[since + 1].high
    BY <1>1, <2>1 DEF Pulses
  <2>3. s[since + 1] = captured[since + 1] /\ s[popped + 1] = captured[popped + 1]
    BY <1>3, <2>1
  <2> QED BY <1>2, <1>4, <2>2, <2>3
<1>5. CASE popped = since + 2
  <2>1. /\ since + 1 \in 2..(Len(s) - 2) /\ since + 1 \in 2..(Len(s) - 1)
        /\ since + 2 \in 2..(Len(s) - 1)
        /\ since + 1 \in 1..Len(captured) /\ since + 2 \in 1..Len(captured)
        /\ (since + 1) + 1 = popped /\ (since + 2) + 1 = popped + 1
        /\ (since + 1) + 2 = popped + 1
    BY <1>2, <1>3, <1>5
  <2>2. /\ s[popped].high <=> ~s[since + 1].high
        /\ s[popped + 1].high <=> ~s[popped].high
    <3>1. /\ s[(since + 1) + 1].high <=> ~s[since + 1].high
          /\ s[(since + 2) + 1].high <=> ~s[since + 2].high
      BY <1>1, <2>1 DEF Pulses
    <3> QED BY <1>5, <2>1, <3>1
  <2>3. /\ s[since + 1] = captured[since + 1] /\ s[popped] = captured[popped]
        /\ s[popped + 1] = captured[popped + 1]
    BY <1>3, <1>5, <2>1
  <2>4. prev_level /\ ~captured[popped + 1].high
    BY <1>2, <2>2, <2>3
  <2>5. /\ chan[(since + 1) + 2] = After(chan[since + 1])
        /\ (s[(since + 1) + 2].time - s[since + 1].time) % TimerModulus
                \in WidthsOf(chan[(since + 1) + 2])
    <3>1. ~s[since + 1].high
      BY <1>2, <2>3
    <3> QED BY <1>1, <2>1, <3>1 DEF Pulses
  <2>6. /\ chan[popped + 1] = After(chan[since + 1])
        /\ PulseWidth(captured[popped + 1]) \in WidthsOf(chan[popped + 1])
    BY <1>2, <2>1, <2>3, <2>5 DEF PulseWidth
  <2> QED BY <1>5, <2>4, <2>6
<1> QED BY <1>2, <1>4, <1>5

\* After channel c comes the channel after it, unless c is the separator.
LEMMA AfterIs ==
  ASSUME NEW c \in 0..(TxLast + 1)
  PROVE  /\ TxLast + 1 = Len(Widths) /\ Len(Widths) \in Nat
         /\ After(c) \in 0..Len(Widths) /\ c \in 0..Len(Widths)
         /\ c = Len(Widths) => After(c) = 0
         /\ c # Len(Widths) => After(c) = c + 1
         /\ c # Len(Widths) =>
                /\ c + 1 \in DOMAIN Widths
                /\ WidthsOf(c) = Widths[c + 1]
<1>1. TxLast + 1 = Len(Widths) /\ Len(Widths) \in Nat /\ TxLast \in Int
  BY SignalAssumption DEF TxLast
<1>2. c \in 0..Len(Widths)
  BY <1>1
<1>3. DOMAIN Widths = 1..Len(Widths)
  BY SignalAssumption
<1>4. c # Len(Widths) => c + 1 \in 1..Len(Widths) /\ ~(c > TxLast)
  BY <1>1, <1>2
<1> QED BY <1>1, <1>2, <1>3, <1>4 DEF After, WidthsOf

\* What a pulse of the signal makes of the index, and what it must.
LEMMA Measured ==
  ASSUME SignalFits, IInv, PopEdge, NEW c \in 0..(TxLast + 1),
         NEW edge, edge = irq_fifo[pop_fifo_idx],
         PulseWidth(edge) \in WidthsOf(c), since > 0, ~gap,
         prev_level, ~edge.high,
         locked # -1 => locked = c /\ index = locked
  PROVE  /\ locked' # -1 => locked' = After(c) /\ index' = locked'
         /\ locked # -1 =>
              \/ /\ index = locked
                 /\ index' = index + 1
                 /\ index + 1 \in DOMAIN Widths
                 /\ pulse_tick'[index] \in Widths[index + 1]
              \/ /\ locked = Len(Widths)
                 /\ index' = 0
                 /\ UNCHANGED pulse_tick
<1>1. PICK w \in WidthsOf(c) : w = PulseWidth(edge)
  OBVIOUS
<1>2. /\ locked \in Int /\ index \in Channel /\ pulse_tick \in [Channel -> Time]
      /\ MAX_PPM_CHANNEL \in Nat
  BY FifoAssumption DEF IInv, TypeOK
<1>3. /\ w > FrameStartPulse <=> c = Len(Widths)
      /\ TxLast + 1 = Len(Widths) /\ Len(Widths) \in Nat
  BY WidthsFit, AfterIs
<1>4. /\ IF w > FrameStartPulse
         THEN index' = 0 /\ UNCHANGED pulse_tick
         ELSE /\ pulse_tick' = [pulse_tick EXCEPT ![index] = w]
              /\ index' = NextIndex
      /\ locked' = NextLocked(w)
  BY <1>1 DEF PopEdge, ProcessPpm
<1>5. CASE c = Len(Widths)
  <2>1. index' = 0 /\ pulse_tick' = pulse_tick /\ locked' = 0 /\ After(c) = 0
    BY <1>3, <1>4, <1>5, AfterIs DEF NextLocked
  <2> QED BY <1>5, <2>1
<1>6. CASE c # Len(Widths)
  <2>1. /\ pulse_tick' = [pulse_tick EXCEPT ![index] = w] /\ index' = NextIndex
        /\ locked' = IF locked = -1 THEN -1 ELSE locked + 1
        /\ After(c) = c + 1 /\ c + 1 \in DOMAIN Widths /\ WidthsOf(c) = Widths[c + 1]
        /\ c \in 0..Len(Widths)
    BY <1>3, <1>4, <1>6, AfterIs DEF NextLocked
  <2>2. CASE locked = -1
    BY <2>1, <2>2
  <2>3. CASE locked # -1
    <3>1. index = c /\ locked = c /\ locked' = c + 1
      BY <2>1, <2>3
    <3>2. Len(Widths) < MAX_PPM_CHANNEL
      BY DEF SignalFits
    <3>3. index' = index + 1
      BY <1>2, <1>3, <1>6, <2>1, <3>1, <3>2 DEF NextIndex
    <3>4. pulse_tick'[index] = w
      BY <1>2, <2>1
    <3> QED BY <2>1, <3>1, <3>3, <3>4
  <2> QED BY <2>2, <2>3
<1> QED BY <1>5, <1>6

\* The channels are all numbers a channel may have.
LEMMA PopStepDecoder ==
  ASSUME SignalFits, IInv, TimeInv, PopEdge, NEW chan \in [Nat -> 0..(TxLast + 1)],
         Pulses(Sent, chan), Decoder(chan)
  PROVE  Decoder(chan)'
<1>1. PICK edge \in Edge : edge = irq_fifo[pop_fifo_idx] /\ edge = captured[popped + 1]
  BY NextEntry
<1>2. /\ popped \in Nat /\ popped' = popped + 1 /\ captured' = captured
      /\ since \in Nat /\ popped' - 1 = popped /\ popped' > 0
  <2>1. since \in Nat
    BY DEF IInv, TypeOK
  <2>2. popped \in Nat /\ popped' = popped + 1 /\ captured' = captured
    BY NextEntry
  <2> QED BY <2>1, <2>2
<1>3. prev_level' = edge.high /\ prev_level' = captured'[popped'].high
  BY <1>1, <1>2 DEF PopEdge, ProcessPpm
<1>4. CASE prev_level /\ ~edge.high
  <2>1. /\ last_toggle_time' = edge.time /\ gap' = FALSE /\ since' = popped
        /\ locked' = NextLocked(PulseWidth(edge))
    BY <1>1, <1>4 DEF PopEdge, ProcessPpm
  <2>2. /\ since' > 0 => since' < popped'
        /\ popped' \in {since' + 1, since' + 2}
        /\ ~captured'[since' + 1].high
        /\ last_toggle_time' = captured'[since' + 1].time
    BY <1>1, <1>2, <1>4, <2>1
  <2>3. CASE since > 0 /\ ~gap
    <3>1. /\ chan[popped + 1] = After(chan[since + 1])
          /\ PulseWidth(edge) \in WidthsOf(chan[popped + 1])
      BY <1>1, <1>4, <2>3, NextFall
    <3>2. PICK c \in 0..(TxLast + 1) : c = chan[popped + 1]
      BY <1>2
    <3>3. locked # -1 => locked = c /\ index = locked
      BY <3>1, <3>2 DEF Decoder
    <3>4. locked' # -1 => locked' = After(c) /\ index' = locked'
      BY <1>1, <1>4, <2>3, <3>1, <3>2, <3>3, Measured
    <3>5. since' > 0
      BY <2>1, <2>3, <1>2 DEF Decoder
    <3> QED BY <1>3, <2>1, <2>2, <3>2, <3>4, <3>5 DEF Decoder
  <2>4. CASE ~(since > 0 /\ ~gap)
    <3>1. locked = -1
      BY <2>4 DEF Decoder
    <3>2. locked' = -1
      BY <2>1, <2>4, <3>1 DEF NextLocked
    <3> QED BY <1>3, <2>1, <2>2, <3>2 DEF Decoder
  <2> QED BY <2>3, <2>4
<1>5. CASE ~(prev_level /\ ~edge.high)
  <2>1. UNCHANGED <<last_toggle_time, index, since, locked, gap>>
    BY <1>1, <1>5 DEF PopEdge, ProcessPpm, lock
  <2>2. since > 0 => since' < popped'
    BY <1>2, <2>1 DEF Decoder
  <2>3. since > 0 /\ ~gap => popped' \in {since + 1, since + 2}
    <3>1. since > 0 /\ ~gap => popped = since + 1
      BY <1>1, <1>5, NextFall
    <3> QED BY <1>2, <3>1
  <2> QED BY <1>2, <1>3, <2>1, <2>2, <2>3 DEF Decoder
<1> QED BY <1>4, <1>5
\* Every step keeps the channels.
LEMMA StepChannel == ASSUME SignalFits PROVE SignalInv /\ [Next]_vars => ChannelInv'
<1> SUFFICES ASSUME SignalInv, [Next]_vars, glitches' = 0
             PROVE  \E chan \in [Nat -> 0..(TxLast + 1)] :
                        (Pulses(Sent, chan) /\ Transmitter(Sent, chan) /\ Decoder(chan))'
  BY DEF ChannelInv
<1>0. IInv /\ DrainInv /\ TimeInv /\ HandlerInv /\ ChannelInv
  BY DEF SignalInv
<1>1. glitches = 0
  <2>1. glitches \in Nat
    BY <1>0 DEF IInv, TypeOK
  <2>2. glitches' = glitches \/ glitches' = glitches + 1
    <3>1. CASE Bounce
      BY <3>1 DEF Bounce
    <3>2. CASE Transmit \/ Silence \/ GpioLevelIrq \/ UNCHANGED vars
      BY <3>2 DEF Transmit, Silence, GpioLevelIrq, IrqReadTime, IrqClearFlag,
                  IrqReadLevel, vars, world
    <3>3. CASE ProcessInput
      BY <3>3 DEF ProcessInput, CopyFifoIndex, PopEdge, FinishInput, world
    <3> QED BY <3>1, <3>2, <3>3 DEF Next
  <2> QED BY <2>1, <2>2
<1>2. PICK chan \in [Nat -> 0..(TxLast + 1)] :
          Pulses(Sent, chan) /\ Transmitter(Sent, chan) /\ Decoder(chan)
  BY <1>0, <1>1 DEF ChannelInv
<1>3. CASE Transmit
  <2>1. PICK n \in Nat : n = Len(Sent) /\ n >= Len(captured)
    BY <1>0, SentIs
  <2>2. PICK c \in 0..(TxLast + 1) : c = tx_channel
    BY <1>0 DEF IInv, TypeOK
  <2> DEFINE chan1 == [chan EXCEPT ![n + 1] = c]
  <2>3. /\ chan1 \in [Nat -> 0..(TxLast + 1)]
        /\ chan1[n + 1] = c /\ \A k \in 1..n : chan1[k] = chan[k]
    BY <2>2
  <2> HIDE DEF chan1
  <2>4. Pulses(Sent, chan1)' /\ Transmitter(Sent, chan1)'
    <3>1. chan1[Len(Sent) + 1] = tx_channel /\ \A k \in 1..Len(Sent) : chan1[k] = chan[k]
      BY <2>1, <2>2, <2>3
    <3> QED BY <1>0, <1>2, <1>3, <3>1, FallStep, RiseStep DEF Transmit
  <2>5. Decoder(chan1)'
    <3>1. Len(captured) \in Nat
      BY <1>0, SentIs
    <3>2. \A k \in 1..Len(captured) : chan1[k] = chan[k]
      BY <2>1, <2>3, <3>1
    <3> QED BY <1>0, <1>2, <1>3, <3>2, SentGrows, DecoderKept
  <2> QED BY <2>3, <2>4, <2>5
<1>4. CASE ~Transmit
  <2>1. Sent' = Sent
    BY <1>0, <1>1, <1>4, SentKept
  <2>2. Pulses(Sent, chan)'
    BY <1>2, <2>1 DEF Pulses
  <2>3. Transmitter(Sent, chan)'
    <3>1. ASSUME silence' = -1
          PROVE  silence = -1 /\ UNCHANGED <<now, pin, tx_channel, tx_high>>
      <4>1. silence \in Int
        BY <1>0 DEF IInv, TypeOK
      <4>2. CASE Silence
        BY <3>1, <4>2 DEF Silence
      <4>3. CASE Bounce
        BY <1>0, <1>1, <4>3 DEF Bounce
      <4>4. CASE GpioLevelIrq \/ UNCHANGED vars
        BY <3>1, <4>4 DEF GpioLevelIrq, IrqReadTime, IrqClearFlag, IrqReadLevel, vars,
                          world
      <4>5. CASE CopyFifoIndex
        BY <3>1, <4>5 DEF CopyFifoIndex
      <4>6. CASE PopEdge
        BY <3>1, <4>6 DEF PopEdge, world
      <4>7. CASE FinishInput
        <5>1. silence = -1
          BY <1>0, <3>1, <4>1, <4>7 DEF FinishInput, DrainInv
        <5> QED BY <4>7, <5>1 DEF FinishInput, world
      <4> QED BY <1>4, <4>2, <4>3, <4>4, <4>5, <4>6, <4>7 DEF Next, ProcessInput
    <3> QED BY <1>2, <2>1, <3>1 DEF Transmitter
  <2>4. Decoder(chan)'
    <3>1. CASE Silence \/ IrqReadTime \/ IrqClearFlag \/ CopyFifoIndex \/ FinishInput
               \/ UNCHANGED vars
      <4>1. UNCHANGED <<captured, popped, prev_level, last_toggle_time, index, since,
                        locked, gap>>
        <5>1. CASE Silence \/ IrqReadTime \/ IrqClearFlag
          BY <5>1 DEF Silence, IrqReadTime, IrqClearFlag, fifo, ppm, lock
        <5>2. CASE CopyFifoIndex \/ FinishInput
          BY <5>2 DEF CopyFifoIndex, FinishInput, CheckPpmActivity, fifo, ppm, lock
        <5>3. CASE UNCHANGED vars
          BY <5>3 DEF vars, fifo, ppm, lock
        <5> QED BY <3>1, <5>1, <5>2, <5>3
      <4> QED BY <1>0, <1>2, <4>1, DecoderKept
    <3>2. CASE Bounce
      BY <1>0, <1>1, <3>2 DEF Bounce
    <3>3. CASE IrqReadLevel
      <4>1. /\ UNCHANGED <<prev_level, last_toggle_time, index, since>>
            /\ \/ popped' = popped + FIFO_SIZE /\ locked' = -1 /\ gap' = TRUE
               \/ UNCHANGED <<popped, locked, gap>>
            /\ captured' = Append(captured, irq_fifo'[irq_fifo_idx])
        BY <3>3 DEF IrqReadLevel, Overrun, ppm, lock
      <4>2. CASE UNCHANGED <<popped, locked, gap>>
        <5>1. captured \in Seq(Edge)
          BY <1>0 DEF IInv, TypeOK
        <5>2. irq_fifo'[irq_fifo_idx] \in Edge
          BY <1>0, StepTypes, <3>3 DEF IInv, TypeOK
        <5>3. \A k \in 1..Len(captured) : captured'[k] = captured[k]
          BY <4>1, <5>1, <5>2, AppendIs
        <5> QED BY <1>0, <1>2, <4>1, <4>2, <5>3, DecoderKept
      <4>3. CASE popped' = popped + FIFO_SIZE /\ locked' = -1 /\ gap' = TRUE
        <5>1. popped \in Nat /\ since \in Nat /\ FIFO_SIZE \in Nat
          BY <1>0, FifoAssumption DEF IInv, TypeOK
        <5>2. since' > 0 => since' < popped'
          BY <1>2, <4>1, <4>3, <5>1 DEF Decoder
        <5> QED BY <4>3, <5>2 DEF Decoder
      <4> QED BY <4>1, <4>2, <4>3
    <3>4. CASE PopEdge
      BY <1>0, <1>2, <3>4, PopStepDecoder
    <3> QED BY <1>4, <3>1, <3>2, <3>3, <3>4 DEF Next, GpioLevelIrq, ProcessInput
  <2> QED BY <2>2, <2>3, <2>4
<1> QED BY <1>3, <1>4

-----------------------------------------------------------------------------
(* Channels are not shifted *)

\* rx_ppm_input_process_input: if separators are longer than FRAME_START_PULSE and
\* channels are not, no pulse is as long as a turn of the timer and the decoder has room
\* for the channels sent, then on a signal without glitches each pulse measured after a
\* separator is stored for the channel it was sent for, with a width that channel
\* sends: with a FIFO of any size, any number of channels, any widths and any delays of
\* the core task, and after edges were lost from the next separator on.
THEOREM ChannelsStay == ASSUME SignalFits PROVE Spec => ChannelsNotShifted
<1>1. Init => SignalInv
  <2> SUFFICES ASSUME Init PROVE SignalInv
    OBVIOUS
  <2>1. IInv /\ DrainInv /\ HandlerInv
    BY InitIInv DEF Init, DrainInv, HandlerInv
  <2>2. TimeInv
    <3> SUFFICES ASSUME NEW k \in 1..Len(captured)
                 PROVE  irq_fifo[(k - 1) % FIFO_SIZE].time = captured[k].time
      BY DEF TimeInv
    <3>1. k = 1 /\ (k - 1) % FIFO_SIZE \in Slot
      BY SlotOf DEF Init
    <3> QED BY <3>1 DEF Init
  <2>3. ChannelInv
    <3>1. 0 \in 0..(TxLast + 1)
      BY SignalAssumption DEF TxLast
    <3> DEFINE chan == [k \in Nat |-> 0]
    <3>2. chan \in [Nat -> 0..(TxLast + 1)]
      BY <3>1
    <3> HIDE DEF chan
    <3>3. Sent = captured /\ Len(captured) = 1
      BY DEF Init, Sent, Quiet
    <3>4. Pulses(Sent, chan) /\ Transmitter(Sent, chan)
      BY <3>3 DEF Pulses, Transmitter
    <3>5. Decoder(chan)
      BY DEF Init, Decoder
    <3> QED BY <3>2, <3>4, <3>5 DEF ChannelInv
  <2> QED BY <2>1, <2>2, <2>3 DEF SignalInv
<1>2. SignalInv /\ [Next]_vars => SignalInv'
  <2>1. IInv /\ DrainInv /\ [Next]_vars => DrainInv'
    BY StepDrain
  <2> QED BY <2>1, StepIInv, StepTime, StepHandler, StepChannel DEF SignalInv
<1>3. SignalInv /\ [Next]_vars =>
        (since' # since /\ locked # -1 /\ glitches = 0 =>
            \/ /\ index = locked
               /\ index' = index + 1
               /\ index + 1 \in DOMAIN Widths
               /\ pulse_tick'[index] \in Widths[index + 1]
            \/ /\ locked = Len(Widths)
               /\ index' = 0
               /\ UNCHANGED pulse_tick)
  <2> SUFFICES ASSUME SignalInv, [Next]_vars, since' # since, locked # -1, glitches = 0
               PROVE  \/ /\ index = locked
                         /\ index' = index + 1
                         /\ index + 1 \in DOMAIN Widths
                         /\ pulse_tick'[index] \in Widths[index + 1]
                      \/ /\ locked = Len(Widths)
                         /\ index' = 0
                         /\ UNCHANGED pulse_tick
    OBVIOUS
  <2>0. IInv /\ TimeInv /\ ChannelInv
    BY DEF SignalInv
  <2>1. PopEdge
    <3>1. ~Transmit /\ ~Silence /\ ~Bounce /\ ~GpioLevelIrq /\ ~UNCHANGED vars
      BY DEF Transmit, Silence, Bounce, GpioLevelIrq, IrqReadTime, IrqClearFlag,
             IrqReadLevel, vars, ppm
    <3>2. ~CopyFifoIndex /\ ~FinishInput
      BY DEF CopyFifoIndex, FinishInput, CheckPpmActivity, ppm
    <3> QED BY <3>1, <3>2 DEF Next, ProcessInput
  <2>2. PICK chan \in [Nat -> 0..(TxLast + 1)] : Pulses(Sent, chan) /\ Decoder(chan)
    BY <2>0 DEF ChannelInv
  <2>3. PICK edge \in Edge : edge = irq_fifo[pop_fifo_idx] /\ edge = captured[popped + 1]
    BY <2>0, <2>1, NextEntry
  <2>4. prev_level /\ ~edge.high
    BY <2>1, <2>3 DEF PopEdge, ProcessPpm
  <2>5. /\ since > 0 /\ ~gap
        /\ locked = After(chan[since + 1]) /\ index = locked
    BY <2>2 DEF Decoder
  <2>6. /\ chan[popped + 1] = After(chan[since + 1])
        /\ PulseWidth(edge) \in WidthsOf(chan[popped + 1])
    BY <2>0, <2>1, <2>2, <2>3, <2>4, <2>5, NextFall
  <2>7. PICK c \in 0..(TxLast + 1) : c = chan[popped + 1]
    <3>1. popped + 1 \in Nat
      BY <2>0 DEF IInv, TypeOK
    <3> QED BY <2>2, <3>1
  <2>8. locked = c /\ index = locked
    BY <2>5, <2>6, <2>7
  <2> QED BY <2>0, <2>1, <2>3, <2>4, <2>5, <2>6, <2>7, <2>8, Measured
<1> QED BY <1>1, <1>2, <1>3, PTL DEF Spec, ChannelsNotShifted
=============================================================================
