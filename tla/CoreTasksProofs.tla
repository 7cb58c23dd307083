--------------------------- MODULE CoreTasksProofs --------------------------
(***************************************************************************)
(* Theorems about CoreTasks, for any configuration, any measures, any size *)
(* of endpoint and of replies, and any number of commands.                 *)
(***************************************************************************)
EXTENDS CoreTasks, TLAPS

-----------------------------------------------------------------------------
(* Division *)

\* Euclid's division, which the rest follows from.
LEMMA DivProperty ==
  ASSUME NEW a \in Nat, NEW n \in Nat \ {0}
  PROVE  /\ a \div n \in Nat
         /\ n * (a \div n) <= a
         /\ a < n * (a \div n) + n
  BY Z3

\* Products of naturals keep the order.
LEMMA ProductMonotone ==
  ASSUME NEW n \in Nat, NEW p \in Nat, NEW q \in Nat, p <= q
  PROVE  n * p <= n * q
  BY Z3

\* A larger dividend has no smaller quotient.
LEMMA DivMonotone ==
  ASSUME NEW a \in Nat, NEW b \in Nat, a <= b, NEW n \in Nat \ {0}
  PROVE  a \div n <= b \div n
<1> DEFINE p == a \div n
           q == b \div n
<1>1. p \in Nat /\ q \in Nat /\ n * p <= a /\ b < n * q + n
  BY DivProperty
<1> HIDE DEF p, q
<1>2. SUFFICES ASSUME q + 1 <= p PROVE FALSE
  BY <1>1 DEF p, q
<1>3. n * (q + 1) <= n * p
  BY <1>1, <1>2, ProductMonotone
<1>4. n * (q + 1) = n * q + n
  BY <1>1
<1> QED BY <1>1, <1>3, <1>4

\* A part of a whole, in units of n: less than n.
LEMMA Share ==
  ASSUME NEW part \in Nat, NEW whole \in Nat, part < whole, NEW n \in Nat \ {0}
  PROVE  (part * n) \div whole \in 0..(n - 1)
<1> DEFINE q == (part * n) \div whole
<1>1. part * n \in Nat /\ whole \in Nat \ {0}
  BY SMT
<1>2. q \in Nat /\ whole * q <= part * n
  BY <1>1, DivProperty
<1> HIDE DEF q
<1>3. part * n < whole * n
  BY SMT
<1>4. SUFFICES ASSUME n <= q PROVE FALSE
  BY <1>2 DEF q
<1>5. whole * n <= whole * q
  BY <1>2, <1>4, ProductMonotone
<1>6. whole * n \in Nat /\ whole * q \in Nat
  BY <1>2, SMT
<1> QED BY <1>1, <1>2, <1>3, <1>5, <1>6

\* The division of C keeps the order, on both sides of 0.
LEMMA QuotientMonotone ==
  ASSUME NEW a \in Int, NEW b \in Int, a <= b, NEW n \in Nat \ {0}
  PROVE  /\ Quotient(a, n) \in Int /\ Quotient(b, n) \in Int
         /\ Quotient(a, n) <= Quotient(b, n)
<1>1. CASE a >= 0
  <2>1. a \in Nat /\ b \in Nat /\ ~(a < 0) /\ ~(b < 0)
    BY <1>1
  <2> QED BY <2>1, DivProperty, DivMonotone DEF Quotient
<1>2. CASE a < 0 /\ b >= 0
  <2>1. -a \in Nat /\ b \in Nat /\ ~(b < 0)
    BY <1>2
  <2>2. (-a) \div n \in Nat /\ b \div n \in Nat
    BY <2>1, DivProperty
  <2> QED BY <1>2, <2>1, <2>2 DEF Quotient
<1>3. CASE b < 0
  <2>1. -a \in Nat /\ -b \in Nat /\ -b <= -a /\ a < 0
    BY <1>3
  <2>2. (-a) \div n \in Nat /\ (-b) \div n \in Nat /\ (-b) \div n <= (-a) \div n
    BY <2>1, DivProperty, DivMonotone
  <2> QED BY <1>3, <2>1, <2>2 DEF Quotient
<1> QED BY <1>1, <1>2, <1>3

-----------------------------------------------------------------------------
(* The conversion of an input, for any calibration *)

\* And leaves alone what fits.
LEMMA Int16Same == \A x \in Raw : Int16(x) = x
<1> SUFFICES ASSUME NEW x \in Raw PROVE Int16(x) = x
  OBVIOUS
<1> DEFINE m == 2 * RawHalf
           y == x + RawHalf
<1>1. RawHalf \in Nat \ {0} /\ m \in Nat \ {0} /\ x \in Int
  BY RawAssumption DEF Raw
<1>2. y \in Nat /\ y < m
  BY <1>1 DEF Raw
<1>3. y % m = y
  <2> HIDE DEF m, y
  <2> QED BY <1>1, <1>2
<1> QED BY <1>1, <1>3 DEF Int16

\* Whatever the calibration, its middle outside its limits included, a measure
\* between the limits is converted without a division by zero, to the left of
\* the middle or to its right, and the result fits.
THEOREM InputFits ==
  ASSUME NEW cal \in InputCalib, NEW raw \in Raw,
         cal.min < raw, raw < cal.max
  PROVE  /\ raw >= cal.mid => Ratio(cal, raw) \in 0..RC_VALUE_MAX
         /\ raw < cal.mid => Ratio(cal, raw) \in (-RC_VALUE_MAX)..0
<1> DEFINE mid == cal.mid
<1>1. /\ RawHalf \in Nat \ {0} /\ raw \in Int /\ mid \in Int
      /\ cal.min \in Int /\ cal.max \in Int
  BY RawAssumption DEF InputCalib, Raw
<1>2. CASE raw >= mid
  <2> DEFINE part == raw - mid
             whole == cal.max - mid
  <2>1. part \in Nat /\ whole \in Nat /\ part < whole
    BY <1>1, <1>2
  <2> HIDE DEF part, whole
  <2>2. (part * RawHalf) \div whole \in 0..(RawHalf - 1)
    BY <1>1, <2>1, Share
  <2>3. part * RawHalf \in Nat
    BY <1>1, <2>1
  <2>4. Quotient(part * RawHalf, whole) = (part * RawHalf) \div whole
    BY <2>3 DEF Quotient
  <2>5. Ratio(cal, raw) = Quotient(part * RawHalf, whole)
    BY <1>2 DEF Ratio, part, whole
  <2> QED BY <1>1, <1>2, <2>2, <2>4, <2>5 DEF RC_VALUE_MAX
<1>3. CASE raw < mid
  <2> DEFINE part == mid - raw
             whole == mid - cal.min
  <2>1. part \in Nat /\ part # 0 /\ whole \in Nat /\ part < whole
    BY <1>1, <1>3
  <2>2. raw - mid = -part /\ ~(raw >= mid)
    BY <1>1, <1>3
  <2>3. Ratio(cal, raw) = Quotient((-part) * RawHalf, whole)
    BY <2>2 DEF Ratio
  <2> HIDE DEF part, whole
  <2>4. (part * RawHalf) \div whole \in 0..(RawHalf - 1)
    BY <1>1, <2>1, Share
  <2>5. (-part) * RawHalf = -(part * RawHalf) /\ part * RawHalf \in Nat
          /\ part * RawHalf > 0
    BY <1>1, <2>1
  <2>6. Quotient((-part) * RawHalf, whole) = -((part * RawHalf) \div whole)
    BY <2>5 DEF Quotient
  <2> QED BY <1>1, <1>3, <2>3, <2>4, <2>6 DEF RC_VALUE_MAX
<1> QED BY <1>1, <1>2, <1>3

\* A longer pulse of the receiver never gives a smaller value, whatever the
\* calibration: not where the two functions meet, nor at the limits, nor when
\* these are in the wrong order (calibration.c:52, after a reset).
THEOREM InputMonotone ==
  ASSUME NEW cal \in InputCalib, NEW raw1 \in Raw, NEW raw2 \in Raw, raw1 <= raw2
  PROVE  InputRawToRc(cal, raw1) <= InputRawToRc(cal, raw2)
<1>1. /\ RawHalf \in Nat \ {0} /\ raw1 \in Int /\ raw2 \in Int
      /\ cal.min \in Int /\ cal.mid \in Int /\ cal.max \in Int
  BY RawAssumption DEF InputCalib, Raw
<1>2. \A raw \in Raw : /\ raw <= cal.min => InputRawToRc(cal, raw) = RC_VALUE_MIN
                       /\ raw > cal.min /\ raw >= cal.max
                             => InputRawToRc(cal, raw) = RC_VALUE_MAX
                       /\ raw > cal.min /\ raw < cal.max
                             => InputRawToRc(cal, raw) = Ratio(cal, raw)
                       /\ InputRawToRc(cal, raw) \in Raw
  <2> SUFFICES ASSUME NEW raw \in Raw
               PROVE  /\ raw <= cal.min => InputRawToRc(cal, raw) = RC_VALUE_MIN
                      /\ raw > cal.min /\ raw >= cal.max
                            => InputRawToRc(cal, raw) = RC_VALUE_MAX
                      /\ raw > cal.min /\ raw < cal.max
                            => InputRawToRc(cal, raw) = Ratio(cal, raw)
                      /\ InputRawToRc(cal, raw) \in Raw
    OBVIOUS
  <2>1. raw \in Int /\ RC_VALUE_MIN \in Raw /\ RC_VALUE_MAX \in Raw
    BY <1>1 DEF Raw, RC_VALUE_MIN, RC_VALUE_MAX
  <2>2. raw > cal.min /\ raw < cal.max => Ratio(cal, raw) \in Raw
    BY <1>1, <2>1, InputFits DEF Raw, RC_VALUE_MAX
  <2>3. CASE raw <= cal.min
    BY <1>1, <2>1, <2>3 DEF InputRawToRc
  <2>4. CASE raw > cal.min /\ raw >= cal.max
    BY <1>1, <2>1, <2>4 DEF InputRawToRc
  <2>5. CASE raw > cal.min /\ raw < cal.max
    <3>1. InputRawToRc(cal, raw) = Int16(Ratio(cal, raw))
      BY <1>1, <2>1, <2>5 DEF InputRawToRc
    <3>2. Int16(Ratio(cal, raw)) = Ratio(cal, raw)
      BY <2>2, <2>5, Int16Same
    <3> QED BY <1>1, <2>1, <2>2, <2>5, <3>1, <3>2
  <2> QED BY <1>1, <2>1, <2>3, <2>4, <2>5
<1>3. RC_VALUE_MIN \in Int /\ RC_VALUE_MAX \in Int
        /\ \A x \in Raw : RC_VALUE_MIN <= x /\ x <= RC_VALUE_MAX /\ x \in Int
  BY <1>1 DEF Raw, RC_VALUE_MIN, RC_VALUE_MAX
<1>4. CASE raw1 <= cal.min
  BY <1>2, <1>3, <1>4
<1>5. CASE raw1 > cal.min /\ raw2 >= cal.max
  <2>1. raw2 > cal.min
    BY <1>1, <1>5
  <2> QED BY <1>2, <1>3, <1>5, <2>1
<1>6. CASE raw1 > cal.min /\ raw2 < cal.max
  <2>1. raw1 > cal.min /\ raw1 < cal.max /\ raw2 > cal.min /\ raw2 < cal.max
    BY <1>1, <1>6
  <2>2. Ratio(cal, raw1) <= Ratio(cal, raw2)
    <3>1. CASE raw1 >= cal.mid
      <4> DEFINE n == cal.max - cal.mid
                 a == (raw1 - cal.mid) * RawHalf
                 b == (raw2 - cal.mid) * RawHalf
      <4>1. n \in Nat \ {0} /\ raw2 >= cal.mid
        BY <1>1, <2>1, <3>1
      <4>2. a \in Int /\ b \in Int /\ a <= b
        <5>1. RawHalf * (raw1 - cal.mid) <= RawHalf * (raw2 - cal.mid)
          BY <1>1, <3>1, <4>1, ProductMonotone
        <5> QED BY <1>1, <5>1
      <4>3. Ratio(cal, raw1) = Quotient(a, n) /\ Ratio(cal, raw2) = Quotient(b, n)
        BY <3>1, <4>1 DEF Ratio
      <4> HIDE DEF n, a, b
      <4> QED BY <4>1, <4>2, <4>3, QuotientMonotone
    <3>2. CASE raw1 < cal.mid /\ raw2 >= cal.mid
      <4>1. Ratio(cal, raw1) \in (-RC_VALUE_MAX)..0
              /\ Ratio(cal, raw2) \in 0..RC_VALUE_MAX
        BY <2>1, <3>2, InputFits
      <4> QED BY <1>3, <4>1
    <3>3. CASE raw2 < cal.mid
      <4> DEFINE n == cal.mid - cal.min
                 a == (raw1 - cal.mid) * RawHalf
                 b == (raw2 - cal.mid) * RawHalf
      <4>1. n \in Nat \ {0} /\ ~(raw1 >= cal.mid) /\ ~(raw2 >= cal.mid)
        BY <1>1, <2>1, <3>3
      <4>2. a \in Int /\ b \in Int /\ a <= b
        <5>1. RawHalf * (cal.mid - raw2) <= RawHalf * (cal.mid - raw1)
          <6>1. cal.mid - raw2 \in Nat /\ cal.mid - raw1 \in Nat
                  /\ cal.mid - raw2 <= cal.mid - raw1 /\ RawHalf \in Nat
            BY <1>1, <3>3
          <6> QED BY <6>1, ProductMonotone
        <5> QED BY <1>1, <5>1
      <4>3. Ratio(cal, raw1) = Quotient(a, n) /\ Ratio(cal, raw2) = Quotient(b, n)
        BY <4>1 DEF Ratio
      <4> HIDE DEF n, a, b
      <4> QED BY <4>1, <4>2, <4>3, QuotientMonotone
    <3> QED BY <1>1, <3>1, <3>2, <3>3
  <2> QED BY <1>2, <2>1, <2>2
<1> QED BY <1>1, <1>4, <1>5, <1>6

-----------------------------------------------------------------------------
(* The invariant *)

\* A mutex is held inside a handler only, by those that write or reset in
\* particular, and while it is held the core task misses no more periods than
\* the watchdog counts.
MutexInv ==
    /\ held # "none" => comm_pc \in {"write", "send", "reset"} /\ late <= dog + 1
    /\ comm_pc \in {"write", "reset"} => held = "sysconf_mutex"

\* A reply being sent has packets left.
SendInv == comm_pc = "send" => left > 0

\* A configuration that is not being written is one that was.
WholeInv == comm_pc # "write" => items = committed

\* A run in progress belongs to a period that is due, and a calibration run has
\* the bounds as they are.
RunInv ==
    /\ core # "copy" => late > 0
    /\ core = "INPUT_CALIB" => mode = "INPUT_CALIB" /\ copy.calib = calib

\* Once reset, the bounds are those of what was measured.
BoundsInv ==
    /\ comm_pc \in {"take", "reset"} => mode = "INPUT_CALIB"
    /\ comm_pc \notin {"take", "reset"} /\ (mode = "INPUT_CALIB" \/ seen # {}) =>
          /\ calib.min \in seen \cup {DEFAULT_MAX_VALUE}
          /\ calib.max \in seen \cup {DEFAULT_MIN_VALUE}
          /\ \A raw \in seen : calib.min <= raw /\ raw <= calib.max

IInv == TypeOK /\ MutexInv /\ SendInv /\ WholeInv /\ RunInv /\ BoundsInv

-----------------------------------------------------------------------------
(* The invariant is kept *)

\* Widened bounds are bounds of what was measured and of the new measure.
LEMMA DetectedBounds ==
  ASSUME NEW c \in Calib, NEW raw \in RawValues
  PROVE  /\ DetectBounds(c, raw) \in Calib
         /\ DetectBounds(c, raw).min \in {c.min, raw}
         /\ DetectBounds(c, raw).max \in {c.max, raw}
         /\ DetectBounds(c, raw).min <= c.min /\ DetectBounds(c, raw).min <= raw
         /\ c.max <= DetectBounds(c, raw).max /\ raw <= DetectBounds(c, raw).max
<1> DEFINE Bound == RawValues \cup {DEFAULT_MIN_VALUE, DEFAULT_MAX_VALUE}
<1>1. \A b \in Bound : b \in Int
  BY CalibAssumption, RawAssumption DEF Raw
<1>2. c.min \in Bound /\ c.max \in Bound /\ raw \in Bound
  BY DEF Calib
<1> DEFINE low == Smaller(c.min, raw)
           high == Greater(c.max, raw)
<1>3. low \in {c.min, raw} /\ low <= c.min /\ low <= raw
  BY <1>1, <1>2 DEF Smaller
<1>4. high \in {c.max, raw} /\ c.max <= high /\ raw <= high
  BY <1>1, <1>2 DEF Greater
<1>5. DetectBounds(c, raw) = [min |-> low, max |-> high]
  BY DEF DetectBounds
<1>6. [min |-> low, max |-> high] \in Calib
  BY <1>2, <1>3, <1>4 DEF Calib
<1> HIDE DEF low, high
<1> QED BY <1>3, <1>4, <1>5, <1>6

\* What a start leaves in memory has its type.
LEMMA StartTypes ==
  /\ Start.mode \in Mode
  /\ Start.items \in [Item -> Version]
  /\ Start.calib \in Calib
  /\ Start.seen = {}
  /\ Start.mode = "NORMAL"
  BY ConfAssumption DEF Start, Mode, Calib

\* The invariant holds at start-up.
LEMMA InitIInv == Init => IInv
<1> SUFFICES ASSUME Init PROVE IInv
  OBVIOUS
<1>1. mode = "NORMAL" /\ seen = {} /\ items = committed
  BY StartTypes DEF Init
<1>2. /\ mode \in Mode /\ items \in [Item -> Version] /\ calib \in Calib
      /\ committed \in [Item -> Version]
      /\ copy \in [items : [Item -> Version], calib : Calib]
  BY StartTypes DEF Init
<1>3. alive \in BOOLEAN /\ tick_used \in BOOLEAN
  BY DEF Init
<1>4. TypeOK
  BY <1>1, <1>2, <1>3, ConfAssumption, TimeAssumption DEF Init, TypeOK
<1> QED BY <1>1, <1>4 DEF Init, IInv, MutexInv, SendInv, WholeInv, RunInv, BoundsInv

\* Every step keeps the types.
LEMMA StepTypes == IInv /\ [Next]_vars => TypeOK'
<1> SUFFICES ASSUME IInv, [Next]_vars PROVE TypeOK'
  OBVIOUS
<1> USE TimeAssumption DEF IInv, TypeOK, host, comm, task, conf
<1>1. CASE CoreCopy
  BY <1>1 DEF CoreCopy
<1>2. CASE RunOutputs
  BY <1>2 DEF RunOutputs, CoreEnds, CoreReady
<1>3. CASE RunInputCalib
  BY <1>3, DetectedBounds DEF RunInputCalib, CoreEnds, CoreReady
<1>4. CASE SetConf
  BY <1>4, ConfAssumption DEF SetConf, Receive, HandlerGoesOn, Item
<1>5. CASE WriteItem
  BY <1>5, ConfAssumption DEF WriteItem, HandlerGoesOn, Item
<1>6. CASE ConfWritten
  <2>1. alive' \in BOOLEAN /\ tick_used' \in BOOLEAN
    BY <1>6 DEF ConfWritten, HandlerEnds
  <2> QED BY <1>6, <2>1 DEF ConfWritten, HandlerEnds
<1>7. CASE RequestConf
  BY <1>7 DEF RequestConf, Request, Receive, HandlerGoesOn
<1>8. CASE RequestGoals
  BY <1>8 DEF RequestGoals, Request, Receive, HandlerGoesOn
<1>9. CASE RequestValues
  BY <1>9 DEF RequestValues, Request, Receive, HandlerGoesOn
<1>10. CASE SendPacket
  <2>1. alive' \in BOOLEAN /\ tick_used' \in BOOLEAN
    BY <1>10 DEF SendPacket, HandlerEnds, HandlerGoesOn
  <2> QED BY <1>10, <2>1 DEF SendInv, SendPacket, HandlerEnds, HandlerGoesOn
<1>11. CASE SetGoal
  <2>1. alive' \in BOOLEAN /\ tick_used' \in BOOLEAN
    BY <1>11 DEF SetGoal, Receive, HandlerEnds
  <2> QED BY <1>11, <2>1 DEF SetGoal, Receive, HandlerEnds
<1>12. CASE SetMode
  <2>1. alive' \in BOOLEAN /\ tick_used' \in BOOLEAN
    BY <1>12 DEF SetMode, Receive, HandlerEnds, HandlerGoesOn
  <2> QED BY <1>12, <2>1 DEF SetMode, Receive, HandlerEnds, HandlerGoesOn
<1>13. CASE TakeForReset
  BY <1>13 DEF TakeForReset, HandlerGoesOn
<1>14. CASE ResetInputCalib
  <2>1. alive' \in BOOLEAN /\ tick_used' \in BOOLEAN
    BY <1>14 DEF ResetInputCalib, HandlerEnds
  <2> QED BY <1>14, <2>1 DEF ResetInputCalib, HandlerEnds, Calib
<1>15. CASE Tick
  <2>1. alive' \in BOOLEAN /\ tick_used' \in BOOLEAN
    BY <1>15 DEF Tick, commIdle
  <2>2. late' <= WatchdogDelay + 1
    <3>1. late = 0 \/ CoreBlocked
      BY <1>15 DEF Tick, CoreReady
    <3>2. CoreBlocked => late <= dog + 1
      BY DEF CoreBlocked, MutexInv
    <3> QED BY <1>15, <3>1, <3>2 DEF Tick, Running
  <2> QED BY <1>15, <2>1, <2>2 DEF Tick, Running, Smaller
<1>16. CASE HostReads
  BY <1>16 DEF HostReads
<1>17. CASE HostStops
  <2>1. alive' \in BOOLEAN
    BY <1>17 DEF HostStops
  <2> QED BY <1>17, <2>1 DEF HostStops
<1>18. CASE WatchdogReset
  <2>1. alive' \in BOOLEAN /\ tick_used' \in BOOLEAN
    BY <1>18 DEF WatchdogReset
  <2>2. mode' \in Mode /\ items' \in [Item -> Version] /\ calib' \in Calib
    BY <1>18, StartTypes DEF WatchdogReset
  <2>3. /\ committed' \in [Item -> Version] /\ seen' = {}
        /\ copy' \in [items : [Item -> Version], calib : Calib]
    BY <1>18, StartTypes DEF WatchdogReset
  <2> QED BY <1>18, <2>1, <2>2, <2>3, ConfAssumption DEF WatchdogReset
<1>19. CASE UNCHANGED vars
  BY <1>19 DEF vars
<1> QED BY <1>1, <1>2, <1>3, <1>4, <1>5, <1>6, <1>7, <1>8, <1>9, <1>10, <1>11,
           <1>12, <1>13, <1>14, <1>15, <1>16, <1>17, <1>18, <1>19
        DEF Next, Core, Comm

\* Every step keeps the mutex with the handlers that hold it.
LEMMA StepMutex == IInv /\ [Next]_vars => MutexInv'
<1> SUFFICES ASSUME IInv, [Next]_vars PROVE MutexInv'
  OBVIOUS
<1> USE DEF IInv, TypeOK, MutexInv, CommRuns, CoreReady, CoreBlocked, commIdle, host, comm, task, conf
<1>1. CASE CoreCopy
  BY <1>1 DEF CoreCopy
<1>2. CASE RunOutputs
  BY <1>2 DEF RunOutputs, CoreEnds
<1>3. CASE RunInputCalib
  BY <1>3 DEF RunInputCalib, CoreEnds
<1>4. CASE SetConf
  BY <1>4, TimeAssumption DEF SetConf, Receive, HandlerGoesOn
<1>5. CASE WriteItem
  BY <1>5 DEF WriteItem, HandlerGoesOn
<1>6. CASE ConfWritten
  BY <1>6 DEF ConfWritten, HandlerEnds
<1>7. CASE RequestConf
  BY <1>7 DEF RequestConf, Request, Receive, HandlerGoesOn
<1>8. CASE RequestGoals
  BY <1>8 DEF RequestGoals, Request, Receive, HandlerGoesOn
<1>9. CASE RequestValues
  BY <1>9 DEF RequestValues, Request, Receive, HandlerGoesOn
<1>10. CASE SendPacket
  BY <1>10 DEF SendPacket, HandlerEnds, HandlerGoesOn
<1>11. CASE SetGoal
  BY <1>11 DEF SetGoal, Receive, HandlerEnds
<1>12. CASE SetMode
  BY <1>12 DEF SetMode, Receive, HandlerEnds, HandlerGoesOn
<1>13. CASE TakeForReset
  BY <1>13 DEF TakeForReset, HandlerGoesOn
<1>14. CASE ResetInputCalib
  BY <1>14 DEF ResetInputCalib, HandlerEnds
<1>15. CASE Tick
  BY <1>15 DEF Tick
<1>16. CASE HostReads
  BY <1>16 DEF HostReads
<1>17. CASE HostStops
  BY <1>17 DEF HostStops
<1>18. CASE WatchdogReset
  BY <1>18 DEF WatchdogReset
<1>19. CASE UNCHANGED vars
  BY <1>19 DEF vars
<1> QED BY <1>1, <1>2, <1>3, <1>4, <1>5, <1>6, <1>7, <1>8, <1>9, <1>10, <1>11, <1>12,
           <1>13, <1>14, <1>15, <1>16, <1>17, <1>18, <1>19
        DEF Next, Core, Comm

\* Every step leaves a reply being sent with its packets.
LEMMA StepSend == IInv /\ [Next]_vars => SendInv'
<1> SUFFICES ASSUME IInv, [Next]_vars PROVE SendInv'
  OBVIOUS
<1> USE DEF IInv, TypeOK, SendInv, host, comm, task, conf
<1>1. CASE CoreCopy
  BY <1>1 DEF CoreCopy
<1>2. CASE RunOutputs
  BY <1>2 DEF RunOutputs, CoreEnds
<1>3. CASE RunInputCalib
  BY <1>3 DEF RunInputCalib, CoreEnds
<1>4. CASE SetConf
  BY <1>4 DEF SetConf, Receive, HandlerGoesOn
<1>5. CASE WriteItem
  BY <1>5 DEF WriteItem, HandlerGoesOn
<1>6. CASE ConfWritten
  BY <1>6 DEF ConfWritten, HandlerEnds
<1>7. CASE RequestConf
  BY <1>7, TimeAssumption DEF RequestConf, Request, Receive, HandlerGoesOn
<1>8. CASE RequestGoals
  BY <1>8 DEF RequestGoals, Request, Receive, HandlerGoesOn
<1>9. CASE RequestValues
  BY <1>9 DEF RequestValues, Request, Receive, HandlerGoesOn
<1>10. CASE SendPacket
  BY <1>10 DEF SendPacket, HandlerEnds, HandlerGoesOn
<1>11. CASE SetGoal
  BY <1>11 DEF SetGoal, Receive, HandlerEnds
<1>12. CASE SetMode
  BY <1>12 DEF SetMode, Receive, HandlerEnds, HandlerGoesOn
<1>13. CASE TakeForReset
  BY <1>13 DEF TakeForReset, HandlerGoesOn
<1>14. CASE ResetInputCalib
  BY <1>14 DEF ResetInputCalib, HandlerEnds
<1>15. CASE Tick
  BY <1>15 DEF Tick
<1>16. CASE HostReads
  BY <1>16 DEF HostReads
<1>17. CASE HostStops
  BY <1>17 DEF HostStops
<1>18. CASE WatchdogReset
  BY <1>18 DEF WatchdogReset
<1>19. CASE UNCHANGED vars
  BY <1>19 DEF vars
<1> QED BY <1>1, <1>2, <1>3, <1>4, <1>5, <1>6, <1>7, <1>8, <1>9, <1>10, <1>11, <1>12,
           <1>13, <1>14, <1>15, <1>16, <1>17, <1>18, <1>19
        DEF Next, Core, Comm

\* Every step that ends a write commits it.
LEMMA StepWhole == IInv /\ [Next]_vars => WholeInv'
<1> SUFFICES ASSUME IInv, [Next]_vars PROVE WholeInv'
  OBVIOUS
<1> USE DEF IInv, WholeInv, commIdle, host, comm, task, conf
<1>1. CASE CoreCopy
  BY <1>1 DEF CoreCopy
<1>2. CASE RunOutputs
  BY <1>2 DEF RunOutputs, CoreEnds
<1>3. CASE RunInputCalib
  BY <1>3 DEF RunInputCalib, CoreEnds
<1>4. CASE SetConf
  BY <1>4 DEF SetConf, Receive, HandlerGoesOn
<1>5. CASE WriteItem
  BY <1>5 DEF WriteItem, HandlerGoesOn
<1>6. CASE ConfWritten
  BY <1>6 DEF ConfWritten, HandlerEnds
<1>7. CASE RequestConf
  BY <1>7 DEF RequestConf, Request, Receive, HandlerGoesOn
<1>8. CASE RequestGoals
  BY <1>8 DEF RequestGoals, Request, Receive, HandlerGoesOn
<1>9. CASE RequestValues
  BY <1>9 DEF RequestValues, Request, Receive, HandlerGoesOn
<1>10. CASE SendPacket
  BY <1>10 DEF SendPacket, HandlerEnds, HandlerGoesOn
<1>11. CASE SetGoal
  BY <1>11 DEF SetGoal, Receive, HandlerEnds
<1>12. CASE SetMode
  BY <1>12 DEF SetMode, Receive, HandlerEnds, HandlerGoesOn
<1>13. CASE TakeForReset
  BY <1>13 DEF TakeForReset, HandlerGoesOn
<1>14. CASE ResetInputCalib
  BY <1>14 DEF ResetInputCalib, HandlerEnds
<1>15. CASE Tick
  BY <1>15 DEF Tick
<1>16. CASE HostReads
  BY <1>16 DEF HostReads
<1>17. CASE HostStops
  BY <1>17 DEF HostStops
<1>18. CASE WatchdogReset
  BY <1>18 DEF WatchdogReset
<1>19. CASE UNCHANGED vars
  BY <1>19 DEF vars
<1> QED BY <1>1, <1>2, <1>3, <1>4, <1>5, <1>6, <1>7, <1>8, <1>9, <1>10, <1>11, <1>12,
           <1>13, <1>14, <1>15, <1>16, <1>17, <1>18, <1>19
        DEF Next, Core, Comm

\* Every step leaves a run in progress with the mode and the bounds it read.
LEMMA StepRun == IInv /\ [Next]_vars => RunInv'
<1> SUFFICES ASSUME IInv, [Next]_vars PROVE RunInv'
  OBVIOUS
<1> USE DEF IInv, RunInv, task, conf
<1>1. CASE CoreCopy
  BY <1>1 DEF CoreCopy, CoreReady, TypeOK, Mode
<1>2. CASE RunOutputs
  BY <1>2 DEF RunOutputs, CoreEnds
<1>3. CASE RunInputCalib
  BY <1>3 DEF RunInputCalib, CoreEnds
<1>4. CASE SetConf
  BY <1>4 DEF SetConf
<1>5. CASE WriteItem
  BY <1>5 DEF WriteItem
<1>6. CASE ConfWritten
  BY <1>6 DEF ConfWritten
<1>7. CASE RequestConf
  BY <1>7 DEF RequestConf, Request
<1>8. CASE RequestGoals
  BY <1>8 DEF RequestGoals, Request
<1>9. CASE RequestValues
  BY <1>9 DEF RequestValues, Request
<1>10. CASE SendPacket
  BY <1>10 DEF SendPacket
<1>11. CASE SetGoal
  BY <1>11 DEF SetGoal
<1>12. CASE SetMode
  <2>1. core # "INPUT_CALIB"
    BY <1>12 DEF SetMode, Receive, CommRuns, CoreReady, CoreBlocked
  <2> QED BY <1>12, <2>1 DEF SetMode
<1>13. CASE TakeForReset
  BY <1>13 DEF TakeForReset
<1>14. CASE ResetInputCalib
  <2>1. core # "INPUT_CALIB"
    BY <1>14 DEF ResetInputCalib, CommRuns, CoreReady, CoreBlocked
  <2> QED BY <1>14, <2>1 DEF ResetInputCalib
<1>15. CASE Tick
  BY <1>15 DEF Tick, TypeOK
<1>16. CASE HostReads
  BY <1>16 DEF HostReads
<1>17. CASE HostStops
  BY <1>17 DEF HostStops
<1>18. CASE WatchdogReset
  BY <1>18 DEF WatchdogReset
<1>19. CASE UNCHANGED vars
  BY <1>19 DEF vars
<1> QED BY <1>1, <1>2, <1>3, <1>4, <1>5, <1>6, <1>7, <1>8, <1>9, <1>10, <1>11, <1>12,
           <1>13, <1>14, <1>15, <1>16, <1>17, <1>18, <1>19
        DEF Next, Core, Comm

\* Every step keeps the bounds those of what was measured.
LEMMA StepBounds == IInv /\ [Next]_vars => BoundsInv'
<1> SUFFICES ASSUME IInv, [Next]_vars PROVE BoundsInv'
  OBVIOUS
<1> USE DEF IInv, RunInv, MutexInv, BoundsInv, CommRuns, CoreReady, CoreBlocked, commIdle, host, comm, task, conf
<1>1. CASE CoreCopy
  BY <1>1 DEF CoreCopy
<1>2. CASE RunOutputs
  BY <1>2 DEF RunOutputs, CoreEnds
<1>3. CASE RunInputCalib
  <2>1. /\ mode = "INPUT_CALIB" /\ copy.calib = calib /\ calib \in Calib
        /\ comm_pc' = comm_pc /\ mode' = mode
    BY <1>3 DEF RunInputCalib, TypeOK
  <2>2. CASE UNCHANGED <<calib, seen>>
    BY <2>1, <2>2
  <2>3. CASE \E raw \in RawValues :
               /\ seen' = seen \cup {raw}
               /\ calib' = IF DetectBounds(copy.calib, raw) # copy.calib
                           THEN DetectBounds(copy.calib, raw) ELSE calib
    <3>1. PICK raw \in RawValues : /\ seen' = seen \cup {raw}
                                   /\ calib' = DetectBounds(calib, raw)
      BY <2>1, <2>3
    <3>2. /\ calib'.min \in {calib.min, raw} /\ calib'.max \in {calib.max, raw}
          /\ calib'.min <= calib.min /\ calib'.min <= raw
          /\ calib.max <= calib'.max /\ raw <= calib'.max
      BY <2>1, <3>1, DetectedBounds
    <3>3. \A b \in RawValues \cup {DEFAULT_MIN_VALUE, DEFAULT_MAX_VALUE} : b \in Int
      BY CalibAssumption, RawAssumption DEF Raw
    <3>4. /\ seen \subseteq RawValues
          /\ \A b \in seen \cup {raw, calib.min, calib.max, calib'.min, calib'.max} :
                b \in Int
      BY <2>1, <3>2, <3>3 DEF TypeOK, Calib
    <3>5. CASE comm_pc \notin {"take", "reset"}
      <4>1. \A b \in seen' : calib'.min <= b /\ b <= calib'.max
        BY <2>1, <3>1, <3>2, <3>4, <3>5
      <4> QED BY <2>1, <3>1, <3>2, <3>5, <4>1
    <3> QED BY <2>1, <3>5
  <2> QED BY <1>3, <2>2, <2>3 DEF RunInputCalib
<1>4. CASE SetConf
  BY <1>4 DEF SetConf, Receive, HandlerGoesOn
<1>5. CASE WriteItem
  BY <1>5 DEF WriteItem, HandlerGoesOn
<1>6. CASE ConfWritten
  BY <1>6 DEF ConfWritten, HandlerEnds
<1>7. CASE RequestConf
  BY <1>7 DEF RequestConf, Request, Receive, HandlerGoesOn
<1>8. CASE RequestGoals
  BY <1>8 DEF RequestGoals, Request, Receive, HandlerGoesOn
<1>9. CASE RequestValues
  BY <1>9 DEF RequestValues, Request, Receive, HandlerGoesOn
<1>10. CASE SendPacket
  BY <1>10 DEF SendPacket, HandlerEnds, HandlerGoesOn
<1>11. CASE SetGoal
  BY <1>11 DEF SetGoal, Receive, HandlerEnds
<1>12. CASE SetMode
  BY <1>12 DEF SetMode, Receive, HandlerEnds, HandlerGoesOn
<1>13. CASE TakeForReset
  BY <1>13 DEF TakeForReset, HandlerGoesOn
<1>14. CASE ResetInputCalib
  BY <1>14 DEF ResetInputCalib, HandlerEnds
<1>15. CASE Tick
  BY <1>15 DEF Tick
<1>16. CASE HostReads
  BY <1>16 DEF HostReads
<1>17. CASE HostStops
  BY <1>17 DEF HostStops
<1>18. CASE WatchdogReset
  BY <1>18, StartTypes DEF WatchdogReset
<1>19. CASE UNCHANGED vars
  BY <1>19 DEF vars
<1> QED BY <1>1, <1>2, <1>3, <1>4, <1>5, <1>6, <1>7, <1>8, <1>9, <1>10, <1>11, <1>12,
           <1>13, <1>14, <1>15, <1>16, <1>17, <1>18, <1>19
        DEF Next, Core, Comm

\* Every step keeps the invariant.
LEMMA StepIInv == IInv /\ [Next]_vars => IInv'
  BY StepTypes, StepMutex, StepSend, StepWhole, StepRun, StepBounds DEF IInv

\* The invariant holds in every behaviour.
LEMMA Invariant == Spec => []IInv
  BY InitIInv, StepIInv, PTL DEF Spec

-----------------------------------------------------------------------------
(* Theorems *)

\* Every variable keeps its type, and the core task misses no more periods in a
\* row than the watchdog allows.
THEOREM TypeCorrect == Spec => []TypeOK
  BY Invariant, PTL DEF IInv

\* A copy that changes is that of a configuration nobody is writing.
LEMMA CopyIsWhole ==
  IInv /\ [Next]_vars => (copy' # copy => copy'.items = committed')
<1> SUFFICES ASSUME IInv, [Next]_vars, copy' # copy
             PROVE  copy'.items = committed'
  OBVIOUS
<1>1. CoreCopy \/ WatchdogReset
  BY DEF Next, Core, Comm, RunOutputs, RunInputCalib, SetConf, WriteItem,
         ConfWritten, RequestConf, RequestGoals, RequestValues, Request,
         SendPacket, SetGoal, SetMode, TakeForReset, ResetInputCalib, Tick,
         HostReads, HostStops, vars
<1>2. CASE CoreCopy
  <2>1. comm_pc # "write"
    BY <1>2 DEF CoreCopy, CoreReady, CoreBlocked, IInv, MutexInv
  <2> QED BY <1>2, <2>1 DEF CoreCopy, IInv, WholeInv, conf
<1>3. CASE WatchdogReset
  BY <1>3 DEF WatchdogReset
<1> QED BY <1>1, <1>2, <1>3

\* sys_conf_copy: the core task works on whole configurations.
THEOREM ConfigurationsAreWhole == Spec => ConfigIsWhole
  BY Invariant, CopyIsWhole, PTL DEF Spec, ConfigIsWhole

\* input_calib_core_run: no measure is lost, and none survives the reset.
THEOREM Measured == Spec => []BoundsAreMeasured
<1>1. IInv => BoundsAreMeasured
  BY DEF IInv, BoundsInv, BoundsAreMeasured
<1> QED BY <1>1, Invariant, PTL

\* The first run of the normal mode after a calibration.
LEMMA FullScale ==
  IInv /\ CoreCopy /\ core' = "NORMAL" =>
      /\ \A raw \in RawValues, other \in RawValues :
            raw <= other => InputValue(raw)' <= InputValue(other)'
      /\ \A low \in seen, high \in seen :
            /\ \A raw \in seen : low <= raw /\ raw <= high
            /\ low < DEFAULT_MIDDLE_VALUE /\ DEFAULT_MIDDLE_VALUE < high
            => /\ InputValue(low)' = RC_VALUE_MIN
               /\ InputValue(high)' = RC_VALUE_MAX
<1> SUFFICES ASSUME IInv, CoreCopy, core' = "NORMAL"
             PROVE  /\ \A raw \in RawValues, other \in RawValues :
                          raw <= other => InputValue(raw)' <= InputValue(other)'
                    /\ \A low \in seen, high \in seen :
                          /\ \A raw \in seen : low <= raw /\ raw <= high
                          /\ low < DEFAULT_MIDDLE_VALUE
                          /\ DEFAULT_MIDDLE_VALUE < high
                          => /\ InputValue(low)' = RC_VALUE_MIN
                             /\ InputValue(high)' = RC_VALUE_MAX
  OBVIOUS
<1> DEFINE c == [min |-> calib.min, mid |-> DEFAULT_MIDDLE_VALUE,
                 max |-> calib.max]
<1>1. copy'.calib = calib
  BY DEF CoreCopy
<1>2. \A raw : InputValue(raw)' = InputRawToRc(c, raw)
  BY <1>1 DEF InputValue
<1>3. /\ calib \in Calib /\ seen \subseteq RawValues /\ RawValues \subseteq Raw
      /\ {DEFAULT_MIN_VALUE, DEFAULT_MIDDLE_VALUE, DEFAULT_MAX_VALUE} \subseteq Raw
  BY CalibAssumption DEF IInv, TypeOK
<1>4. c \in InputCalib
  BY <1>3 DEF Calib, InputCalib
<1>5. ASSUME NEW raw \in RawValues, NEW other \in RawValues, raw <= other
      PROVE  InputValue(raw)' <= InputValue(other)'
  <2>1. InputRawToRc(c, raw) <= InputRawToRc(c, other)
    BY <1>3, <1>4, <1>5, InputMonotone
  <2> QED BY <1>2, <2>1
<1>6. ASSUME NEW low \in seen, NEW high \in seen,
             \A raw \in seen : low <= raw /\ raw <= high,
             low < DEFAULT_MIDDLE_VALUE, DEFAULT_MIDDLE_VALUE < high
      PROVE  InputValue(low)' = RC_VALUE_MIN /\ InputValue(high)' = RC_VALUE_MAX
  <2>1. mode = "NORMAL"
    BY DEF CoreCopy
  <2>2. /\ calib.min \in seen \cup {DEFAULT_MAX_VALUE} /\ calib.min <= low
        /\ calib.max \in seen \cup {DEFAULT_MIN_VALUE} /\ high <= calib.max
    BY <2>1 DEF IInv, BoundsInv
  <2>3. \A b \in seen \cup {DEFAULT_MIN_VALUE, DEFAULT_MIDDLE_VALUE,
                            DEFAULT_MAX_VALUE} : b \in Int
    BY <1>3, RawAssumption DEF Raw
  <2>4. calib.min = low /\ calib.max = high
    BY <1>6, <2>2, <2>3, CalibAssumption
  <2>5. InputRawToRc(c, low) = RC_VALUE_MIN
    BY <2>3, <2>4 DEF InputRawToRc
  <2>6. InputRawToRc(c, high) = RC_VALUE_MAX
    BY <1>6, <2>3, <2>4 DEF InputRawToRc
  <2> QED BY <1>2, <2>5, <2>6
<1> QED BY <1>5, <1>6

\* calibration.c:60: whatever happened during the calibration, the first run
\* of the normal mode keeps the order of the measures, and the extreme ones
\* get their full scale.
THEOREM CalibrationIsUsed == Spec => MeasuresReachFullScale
<1> DEFINE Use == CoreCopy /\ core' = "NORMAL" =>
              /\ \A raw \in RawValues, other \in RawValues :
                    raw <= other => InputValue(raw)' <= InputValue(other)'
              /\ \A low \in seen, high \in seen :
                    /\ \A raw \in seen : low <= raw /\ raw <= high
                    /\ low < DEFAULT_MIDDLE_VALUE /\ DEFAULT_MIDDLE_VALUE < high
                    => /\ InputValue(low)' = RC_VALUE_MIN
                       /\ InputValue(high)' = RC_VALUE_MAX
<1>1. IInv /\ [Next]_vars => Use
  BY FullScale
<1> HIDE DEF Use
<1>2. Spec => [][Use]_vars
  BY <1>1, Invariant, PTL DEF Spec
<1> QED BY <1>2, PTL DEF Use, MeasuresReachFullScale

-----------------------------------------------------------------------------
(* The watchdog and a host that reads *)

\* What the watchdog may have counted while a live host is being answered: the
\* packets it has read, the one it is expected to read, and the period that
\* began while none was waited for.
Used == IF tick_used THEN 1 ELSE 0
Expected == IF tx = Banks THEN waited ELSE ReadDelay
Budget(packets) == (ReplyPackets - packets) * ReadDelay

DogInv ==
    /\ comm_pc = "idle" => dog = 0 /\ ~tick_used
    /\ alive /\ comm_pc \in {"write", "take", "reset"} => dog <= Used
    /\ alive /\ comm_pc = "send" => dog <= Budget(left) + Expected + Used

\* A packet more is worth one delay more.
LEMMA BudgetGrows ==
  ASSUME NEW packets \in 1..ReplyPackets
  PROVE  /\ Budget(packets) \in Nat
         /\ Budget(packets - 1) = Budget(packets) + ReadDelay
         /\ Budget(packets) + ReadDelay <= ReplyPackets * ReadDelay
<1>1. ReplyPackets \in Nat /\ ReadDelay \in Nat /\ packets \in Nat
  BY TimeAssumption
<1>2. PICK n \in Nat : n = ReplyPackets - packets
  BY <1>1
<1>3. n * ReadDelay \in Nat /\ (n + 1) * ReadDelay = n * ReadDelay + ReadDelay
  BY <1>1, <1>2
<1>4. (packets - 1) * ReadDelay \in Nat
  BY <1>1
<1>5. ReplyPackets * ReadDelay
        = n * ReadDelay + ReadDelay + (packets - 1) * ReadDelay
  BY <1>1, <1>2
<1> QED BY <1>1, <1>2, <1>3, <1>4, <1>5 DEF Budget

\* The host's deadline bounds what it is expected to take.
LEMMA ExpectedRange == TypeOK => Expected \in 0..ReadDelay /\ Used \in 0..1
  BY TimeAssumption DEF TypeOK, Expected, Used

\* Every step keeps the count of the watchdog within the budget.
LEMMA StepDog == IInv /\ DogInv /\ [Next]_vars => DogInv'
<1> SUFFICES ASSUME IInv, DogInv, [Next]_vars PROVE DogInv'
  OBVIOUS
<1> USE DEF host, comm, task, conf
<1>0. /\ dog \in Nat /\ waited \in 0..ReadDelay /\ ReadDelay \in Nat \ {0}
      /\ left \in 0..ReplyPackets /\ tick_used \in BOOLEAN
      /\ Expected \in 0..ReadDelay /\ Used \in 0..1
  BY TimeAssumption, ExpectedRange DEF IInv, TypeOK
<1>1. CASE /\ UNCHANGED <<comm_pc, left, tx, waited, alive, dog, tick_used>>
  BY <1>1 DEF DogInv, Used, Expected, Budget
<1>2. CASE HandlerEnds
  BY <1>2 DEF HandlerEnds, DogInv
<1>3. CASE Receive /\ HandlerGoesOn /\ comm_pc' # "send"
  BY <1>0, <1>3 DEF Receive, commIdle, HandlerGoesOn, DogInv, Used
<1>4. CASE Receive /\ HandlerGoesOn /\ comm_pc' = "send" /\ left' \in 1..ReplyPackets
           /\ TypeOK'
  <2>1. Expected' \in 0..ReadDelay /\ Used' \in 0..1
    BY <1>4, TimeAssumption DEF TypeOK, Expected, Used
  <2>2. Budget(left)' \in Nat
    BY <1>4, BudgetGrows DEF Budget
  <2>3. dog' = 0
    BY <1>4 DEF Receive, commIdle, HandlerGoesOn, DogInv
  <2> QED BY <1>4, <2>1, <2>2, <2>3 DEF DogInv
<1>5. CASE WriteItem
  BY <1>5 DEF WriteItem, HandlerGoesOn, DogInv, Used
<1>6. CASE TakeForReset
  BY <1>6 DEF TakeForReset, HandlerGoesOn, DogInv, Used
<1>7. CASE SendPacket
  <2>1. CASE left = 1
    BY <1>2, <1>7, <2>1 DEF SendPacket
  <2>2. CASE left # 1
    <3>1. /\ left \in 1..ReplyPackets /\ left' = left - 1
          /\ left - 1 \in 1..ReplyPackets /\ comm_pc = "send"
          /\ comm_pc' = "send" /\ UNCHANGED <<alive, dog, tick_used>>
      BY <1>0, <1>7, <2>2, TimeAssumption
         DEF SendPacket, HandlerGoesOn, IInv, SendInv
    <3>2. /\ Budget(left)' = Budget(left) + ReadDelay /\ Budget(left) \in Nat
      BY <3>1, BudgetGrows DEF Budget
    <3>3. Expected' \in 0..ReadDelay
      BY <1>7, StepTypes, TimeAssumption DEF TypeOK, Expected
    <3>4. Used' = Used
      BY <3>1 DEF Used
    <3> QED BY <1>0, <3>1, <3>2, <3>3, <3>4 DEF DogInv
  <2> QED BY <2>1, <2>2
<1>8. CASE Tick
  <2>1. CASE commIdle
    BY <1>8, <2>1 DEF Tick, DogInv, commIdle
  <2>2. CASE Waiting /\ alive
    <3>1. /\ dog' = dog + 1 /\ tick_used' = tick_used /\ waited' = waited + 1
          /\ UNCHANGED <<tx, left, comm_pc, alive>> /\ comm_pc = "send" /\ tx = Banks
      BY <1>0, <1>8, <2>2, TimeAssumption DEF Tick, Waiting, commIdle, Smaller
    <3>2. Expected' = Expected + 1 /\ Used' = Used /\ Budget(left)' = Budget(left)
      BY <3>1 DEF Expected, Used, Budget
    <3>3. left \in 1..ReplyPackets
      BY <1>0, <3>1, TimeAssumption DEF IInv, SendInv
    <3>4. Budget(left) \in Nat
      BY <3>3, BudgetGrows
    <3> QED BY <1>0, <3>1, <3>2, <3>4 DEF DogInv
  <2>3. CASE ~commIdle /\ ~Waiting
    <3>1. /\ dog' = dog + 1 /\ tick_used = FALSE /\ tick_used' = TRUE
          /\ UNCHANGED <<tx, left, comm_pc, alive>>
      BY <1>0, <1>8, <2>3 DEF Tick
    <3>2. Used = 0 /\ Used' = 1
      BY <3>1 DEF Used
    <3>3. CASE comm_pc = "send"
      <4>1. Expected = ReadDelay /\ Expected' = ReadDelay
        BY <2>3, <3>1, <3>3 DEF Waiting, Expected
      <4>2. left \in 1..ReplyPackets
        BY <1>0, <3>3, TimeAssumption DEF IInv, SendInv
      <4>3. Budget(left) \in Nat /\ Budget(left)' = Budget(left)
        BY <3>1, <4>2, BudgetGrows DEF Budget
      <4> QED BY <1>0, <3>1, <3>2, <3>3, <4>1, <4>3 DEF DogInv
    <3>4. CASE comm_pc # "send"
      BY <1>0, <2>3, <3>1, <3>2, <3>4 DEF DogInv, commIdle
    <3> QED BY <3>3, <3>4
  <2>4. CASE Waiting /\ ~alive
    BY <1>8, <2>4 DEF Tick, Waiting, DogInv
  <2> QED BY <2>1, <2>2, <2>3, <2>4
<1>9. CASE HostReads
  <2>1. /\ UNCHANGED <<comm_pc, left, alive, dog, tick_used>>
        /\ Expected' = ReadDelay
    BY <1>9, TimeAssumption DEF HostReads, Expected, IInv, TypeOK
  <2>2. Used' = Used /\ Budget(left)' = Budget(left)
    BY <2>1 DEF Used, Budget
  <2>3. comm_pc = "send" => Budget(left) \in Nat
    BY <1>0, BudgetGrows, TimeAssumption DEF IInv, SendInv
  <2> QED BY <1>0, <2>1, <2>2, <2>3 DEF DogInv
<1>10. CASE HostStops
  BY <1>10 DEF HostStops, DogInv
<1>11. CASE WatchdogReset
  BY <1>11 DEF WatchdogReset, DogInv
<1>12. CASE CoreCopy \/ RunOutputs \/ RunInputCalib \/ UNCHANGED vars
  BY <1>1, <1>12 DEF CoreCopy, RunOutputs, RunInputCalib, vars
<1>13. CASE SetConf \/ SetMode
  BY <1>2, <1>3, <1>13 DEF SetConf, SetMode
<1>14. CASE RequestConf \/ RequestGoals \/ RequestValues
  BY <1>4, <1>14, StepTypes, TimeAssumption
     DEF RequestConf, RequestGoals, RequestValues, Request
<1>15. CASE ConfWritten \/ SetGoal \/ ResetInputCalib
  BY <1>2, <1>15 DEF ConfWritten, SetGoal, ResetInputCalib
<1> QED BY <1>5, <1>6, <1>7, <1>8, <1>9, <1>10, <1>11, <1>12, <1>13, <1>14, <1>15
        DEF Next, Core, Comm

\* main.c:69: a host that reads each packet within ReadDelay is never the cause
\* of a reset, as long as the longest reply, read that slowly, is shorter than
\* the watchdog's delay by more than a period.
THEOREM ReadingHostIsServed ==
  ASSUME ReplyPackets * ReadDelay + 1 < WatchdogDelay
  PROVE  Spec => LiveHostIsNotReset
<1>1. Init => DogInv
  BY DEF Init, DogInv
<1> DEFINE InTime == alive => dog < WatchdogDelay
<1>2. IInv /\ DogInv => InTime
  <2> SUFFICES ASSUME IInv, DogInv, alive PROVE dog < WatchdogDelay
    OBVIOUS
  <2>1. /\ dog \in Nat /\ left \in 0..ReplyPackets
        /\ Expected \in 0..ReadDelay /\ Used \in 0..1
        /\ ReplyPackets * ReadDelay \in Nat
        /\ ReadDelay \in Nat /\ WatchdogDelay \in Nat
    BY TimeAssumption, ExpectedRange DEF IInv, TypeOK
  <2>2. CASE comm_pc = "send"
    <3>1. left \in 1..ReplyPackets
      BY <2>1, <2>2, TimeAssumption DEF IInv, SendInv
    <3>2. Budget(left) \in Nat
          /\ Budget(left) + ReadDelay <= ReplyPackets * ReadDelay
      BY <3>1, BudgetGrows
    <3> QED BY <2>1, <2>2, <3>2 DEF DogInv
  <2>3. CASE comm_pc # "send"
    <3>1. dog <= 1
      BY <2>1, <2>3 DEF DogInv, IInv, TypeOK
    <3> QED BY <2>1, <3>1
  <2> QED BY <2>2, <2>3
<1>3. InTime /\ InTime' /\ [Next]_vars => (alive => dog' < WatchdogDelay)
  <2> SUFFICES ASSUME InTime, InTime', [Next]_vars, alive
               PROVE  dog' < WatchdogDelay
    OBVIOUS
  <2>1. CASE alive'
    BY <2>1
  <2>2. CASE ~alive'
    <3>1. HostStops
      BY <2>2 DEF Next, Core, Comm, CoreCopy, RunOutputs, RunInputCalib, SetConf,
             WriteItem, ConfWritten, RequestConf, RequestGoals, RequestValues,
             Request, SendPacket, SetGoal, SetMode, TakeForReset,
             ResetInputCalib, Tick, HostReads, WatchdogReset, vars, host
    <3>2. dog' = dog
      BY <3>1 DEF HostStops
    <3> QED BY <3>2
  <2> QED BY <2>1, <2>2
<1> HIDE DEF InTime
<1>4. Spec => []InTime
  BY <1>1, <1>2, StepDog, Invariant, PTL DEF Spec
<1> QED BY <1>3, <1>4, PTL DEF Spec, LiveHostIsNotReset
=============================================================================
