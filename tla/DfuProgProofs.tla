---------------------------- MODULE DfuProgProofs ---------------------------
(***************************************************************************)
(* Theorems about DfuProg, for any sizes of the memories, of their pages   *)
(* and of a transfer, any hex files, any number of faults and of runs.     *)
(***************************************************************************)
EXTENDS DfuProg, WellFoundedInduction, TLAPS

-----------------------------------------------------------------------------
(* Arithmetic                                                               *)

\* The sizes are naturals, and the flash has more than a page.
LEMMA Sizes ==
  /\ PageSize \in Nat /\ PageSize > 2 /\ Pages \in Nat /\ Pages > 1
  /\ BootSize \in Nat /\ BootSize > 0 /\ BootSize + 2 <= PageSize
  /\ UserSize \in Nat /\ UserSize > 0 /\ UserSize <= PageSize /\ UserSize <= MaxTransfer
  /\ MaxTransfer \in Nat
  /\ End \in Nat /\ 2 * PageSize <= End
<1>1. /\ PageSize \in Nat /\ BootSize \in Nat /\ BootSize > 0 /\ BootSize + 2 <= PageSize
      /\ Pages \in Nat /\ Pages > 1 /\ MaxTransfer \in Nat
      /\ UserSize \in Nat /\ UserSize > 0 /\ UserSize <= MaxTransfer /\ UserSize <= PageSize
  BY DfuProgAssumption DEF Least
<1>2. Pages * PageSize \in Nat /\ 2 * PageSize <= Pages * PageSize
  <2>1. (Pages - 2) * PageSize \in Nat
    BY <1>1
  <2>2. Pages * PageSize = (Pages - 2) * PageSize + 2 * PageSize
    BY <1>1
  <2> QED BY <1>1, <2>1, <2>2
<1> QED BY <1>1, <1>2 DEF End

\* A page is a whole one.
LEMMA WholePages ==
  ASSUME NEW m \in Nat
  PROVE  /\ m * PageSize \in Nat /\ (m + 1) * PageSize = m * PageSize + PageSize
         /\ m * PageSize < End => m < Pages
         /\ m < Pages => m * PageSize + PageSize <= End
         /\ m * PageSize <= End => m <= Pages
<1>1. PageSize \in Nat \ {0} /\ Pages \in Nat /\ End = Pages * PageSize
  BY Sizes DEF End
<1>2. m * PageSize \in Nat /\ (m + 1) * PageSize = m * PageSize + PageSize
  BY <1>1
<1>3. m < Pages => m * PageSize + PageSize <= End
  <2>1. SUFFICES ASSUME m < Pages PROVE (m + 1) * PageSize <= Pages * PageSize
    BY <1>1, <1>2
  <2>2. (Pages - (m + 1)) * PageSize \in Nat
    BY <1>1, <2>1
  <2>3. Pages * PageSize = (Pages - (m + 1)) * PageSize + (m + 1) * PageSize
    BY <1>1, <2>1
  <2>4. (m + 1) * PageSize \in Nat /\ Pages * PageSize \in Nat
    BY <1>1
  <2> QED BY <2>2, <2>3, <2>4
<1>4. m >= Pages => m * PageSize >= End
  <2>1. SUFFICES ASSUME m >= Pages PROVE m * PageSize >= Pages * PageSize
    BY <1>1
  <2>2. (m - Pages) * PageSize \in Nat
    BY <1>1, <2>1
  <2>3. m * PageSize = (m - Pages) * PageSize + Pages * PageSize
    BY <1>1, <2>1
  <2> QED BY <1>1, <1>2, <2>2, <2>3
<1>5. m > Pages => m * PageSize > End
  <2>1. SUFFICES ASSUME m > Pages PROVE m * PageSize > Pages * PageSize
    BY <1>1
  <2>2. (m - Pages - 1) * PageSize \in Nat
    BY <1>1, <2>1
  <2>3. m * PageSize = (m - Pages - 1) * PageSize + Pages * PageSize + PageSize
    BY <1>1, <2>1
  <2>4. Pages * PageSize \in Nat
    BY <1>1
  <2> QED BY <1>1, <1>2, <2>2, <2>3, <2>4
<1>6. End \in Nat
  BY Sizes
<1> HIDE DEF End
<1> QED BY <1>1, <1>2, <1>3, <1>4, <1>5, <1>6

\* The offset of an address in its page.
LEMMA OffsetInPage ==
  ASSUME NEW m \in Nat, NEW a \in Nat,
         m * PageSize <= a, a < m * PageSize + PageSize
  PROVE  a % PageSize = a - m * PageSize
<1> DEFINE q == a \div PageSize
           r == a % PageSize
<1>1. PageSize \in Nat \ {0}
  BY Sizes
<1>2. /\ q \in Nat /\ r \in 0 .. PageSize - 1
      /\ a = PageSize * q + r
  BY <1>1
<1> HIDE DEF q, r
<1>3. m * PageSize = PageSize * m /\ PageSize * m \in Nat /\ PageSize * q \in Nat
  BY <1>1, <1>2
<1>4. ~ (q < m)
  <2>1. SUFFICES ASSUME q < m PROVE FALSE
    OBVIOUS
  <2>2. PageSize * (m - q - 1) \in Nat
    BY <1>1, <1>2, <2>1
  <2>3. PageSize * m = PageSize * (m - q - 1) + PageSize * q + PageSize
    BY <1>1, <1>2, <2>1
  <2> QED BY <1>1, <1>2, <1>3, <2>2, <2>3
<1>5. ~ (m < q)
  <2>1. SUFFICES ASSUME m < q PROVE FALSE
    OBVIOUS
  <2>2. PageSize * (q - m - 1) \in Nat
    BY <1>1, <1>2, <2>1
  <2>3. PageSize * q = PageSize * (q - m - 1) + PageSize * m + PageSize
    BY <1>1, <1>2, <2>1
  <2> QED BY <1>1, <1>2, <1>3, <2>2, <2>3
<1>6. q = m
  BY <1>2, <1>4, <1>5
<1> QED BY <1>2, <1>3, <1>6 DEF r

\* A set of naturals that is not empty has a least element, which Min returns.
LEMMA LeastElement ==
  ASSUME NEW T, T \subseteq Nat, T # {}
  PROVE  Min(T) \in T /\ \A n \in T : Min(T) <= n
<1> DEFINE Less == OpToRel(<, Nat)
<1>1. IsWellFoundedOn(Less, Nat)
  BY NatLessThanWellFounded
<1>2. \A m, n \in Nat : n < m => <<n, m>> \in Less
  BY DEF OpToRel
<1> HIDE DEF Less
<1>3. PICK m \in T : \A n \in T : ~ (<<n, m>> \in Less)
  BY <1>1, WFMin
<1>4. \A n \in T : ~ (n < m)
  BY <1>2, <1>3
<1>5. \A n \in T : m <= n
  BY <1>4
<1> QED BY <1>5 DEF Min

-----------------------------------------------------------------------------
(* The hex file                                                             *)

\* A function that is defined from its value at n - 1 exists.
LEMMA Recursion ==
  ASSUME NEW S, NEW base \in S, NEW N \in Nat, NEW step \in [1 .. N -> [S -> S]]
  PROVE  \E f \in [0 .. N -> S] : /\ f[0] = base
                                  /\ \A n \in 1 .. N : f[n] = step[n][f[n - 1]]
<1> DEFINE Upto(m) == \E f \in [0 .. m -> S] :
                         /\ f[0] = base
                         /\ \A n \in 1 .. m : f[n] = step[n][f[n - 1]]
           Bad == {m \in 0 .. N : ~ Upto(m)}
<1>1. Upto(0)
  <2> DEFINE f == [n \in 0 .. 0 |-> base]
  <2>1. f \in [0 .. 0 -> S] /\ f[0] = base
    OBVIOUS
  <2>2. \A n \in 1 .. 0 : f[n] = step[n][f[n - 1]]
    OBVIOUS
  <2> HIDE DEF f
  <2> QED BY <2>1, <2>2
<1>2. ASSUME NEW m \in 1 .. N, Upto(m - 1)
      PROVE  Upto(m)
  <2>1. PICK f \in [0 .. m - 1 -> S] : /\ f[0] = base
                                       /\ \A n \in 1 .. m - 1 : f[n] = step[n][f[n - 1]]
    BY <1>2
  <2> DEFINE g == [n \in 0 .. m |-> IF n = m THEN step[m][f[m - 1]] ELSE f[n]]
  <2>2. f[m - 1] \in S
    BY <2>1
  <2>3. step[m][f[m - 1]] \in S
    BY <2>2
  <2>4. g \in [0 .. m -> S]
    BY <2>1, <2>3
  <2>5. g[m] = step[m][f[m - 1]] /\ \A n \in 0 .. m - 1 : g[n] = f[n]
    OBVIOUS
  <2> HIDE DEF g
  <2>6. g[0] = base
    BY <2>1, <2>5
  <2>7. \A n \in 1 .. m : g[n] = step[n][g[n - 1]]
    <3> SUFFICES ASSUME NEW n \in 1 .. m PROVE g[n] = step[n][g[n - 1]]
      OBVIOUS
    <3>1. g[n - 1] = f[n - 1]
      BY <2>5
    <3>2. CASE n = m
      BY <2>5, <3>1, <3>2
    <3>3. CASE n # m
      <4>1. n \in 1 .. m - 1 /\ n \in 0 .. m - 1
        BY <3>3
      <4> QED BY <2>1, <2>5, <3>1, <4>1
    <3> QED BY <3>2, <3>3
  <2> QED BY <2>4, <2>6, <2>7
<1> HIDE DEF Upto
<1>3. Bad = {}
  <2>1. SUFFICES ASSUME Bad # {} PROVE FALSE
    OBVIOUS
  <2> DEFINE m == Min(Bad)
  <2>2. m \in Bad /\ \A n \in Bad : m <= n
    <3>1. Bad \subseteq Nat
      OBVIOUS
    <3> HIDE DEF Bad
    <3> QED BY <2>1, <3>1, LeastElement
  <2> HIDE DEF m
  <2>3. m \in 1 .. N /\ ~ Upto(m)
    BY <1>1, <2>2
  <2>4. Upto(m - 1)
    BY <2>2, <2>3
  <2> QED BY <1>2, <2>3, <2>4
<1>4. Upto(N)
  BY <1>3
<1> QED BY <1>4 DEF Upto

\* The states that intel_hex_to_buffer goes through.
Images(size) == UNION {[D -> Byte] : D \in SUBSET (0 .. size - 1)}
Loading(size) == [offset : Nat, memory : Images(size), state : {"reading", "loaded", "error"}]
Unread == [offset |-> 0, memory |-> Nothing, state |-> "reading"]

\* A line leads from one to another, and an image stays within its size.
LEMMA RecordType ==
  ASSUME NEW size \in Nat, NEW acc \in Loading(size), NEW r \in Record
  PROVE  ProcessRecord(size, acc, r) \in Loading(size)
<1> DEFINE base  == acc.offset + r.address
           bytes == [a \in base .. base + Len(r.data) - 1 |-> r.data[a - base + 1]]
<1>1. base \in Nat /\ r.data \in Seq(Byte) /\ Len(r.data) \in Nat /\ acc.offset \in Nat
      /\ acc.memory \in Images(size)
  BY DEF Loading, Record
<1>2. r.address % Space \in Nat
  BY DfuProgAssumption DEF Record
<1>3. ASSUME DOMAIN bytes \subseteq 0 .. size - 1
      PROVE  Over(bytes, acc.memory) \in Images(size)
  <2> DEFINE image == Over(bytes, acc.memory)
  <2>1. PICK D \in SUBSET (0 .. size - 1) : acc.memory \in [D -> Byte]
    BY <1>1 DEF Images
  <2>2. bytes \in [DOMAIN bytes -> Byte]
    <3> HIDE DEF base
    <3> QED BY <1>1
  <2> HIDE DEF bytes
  <2>3. image \in [DOMAIN bytes \cup D -> Byte]
    BY <2>1, <2>2 DEF Over
  <2>4. DOMAIN bytes \cup D \in SUBSET (0 .. size - 1)
    BY <1>3
  <2> QED BY <2>3, <2>4 DEF Images
<1> HIDE DEF base
<1>4. ProcessRecord(size, acc, r) =
        IF acc.state # "reading" THEN acc
        ELSE IF ~ r.valid \/ (r.type = 0 /\ ~ (DOMAIN bytes \subseteq 0 .. size - 1))
        THEN [acc EXCEPT !.state = "error"]
        ELSE CASE r.type = 0 -> [acc EXCEPT !.memory = Over(bytes, @)]
             [] r.type = 1 -> [acc EXCEPT !.state = "loaded"]
             [] r.type \in {2, 4, 5} -> [acc EXCEPT !.offset = r.address % Space]
             [] r.type = 3 -> acc
  BY DEF ProcessRecord, base
<1> HIDE DEF bytes
<1>5. r.type \in 0 .. 5
  BY DEF Record
<1> QED BY <1>2, <1>3, <1>4, <1>5 DEF Loading

\* Reading a file is the sequence of the states that its lines lead through.
LEMMA ReadingSteps ==
  ASSUME NEW file \in Files, NEW size \in {End, UserSize}
  PROVE  \E read \in [0 .. Len(file) -> Loading(size)] :
           /\ read[0] = Unread
           /\ \A n \in 1 .. Len(file) : read[n] = ProcessRecord(size, read[n - 1], file[n])
           /\ Loaded[size][file] = read[Len(file)]
<1> DEFINE N == Len(file)
           Step(f) == f = [n \in 0 .. N |->
                             IF n = 0 THEN Unread ELSE ProcessRecord(size, f[n - 1], file[n])]
<1>1. file \in Seq(Record) /\ N \in Nat /\ size \in Nat
  BY DfuProgAssumption, Sizes
<1>2. Unread \in Loading(size)
  <2>1. Nothing \in [{} -> Byte]
    BY DEF Nothing
  <2>2. Nothing \in Images(size)
    BY <2>1 DEF Images
  <2> QED BY <2>2 DEF Unread, Loading
<1>3. \A n \in 1 .. N : file[n] \in Record
  BY <1>1
<1> HIDE DEF N
<1>4. PICK read \in [0 .. N -> Loading(size)] :
        /\ read[0] = Unread
        /\ \A n \in 1 .. N : read[n] = ProcessRecord(size, read[n - 1], file[n])
  <2> DEFINE step == [n \in 1 .. N |-> [acc \in Loading(size) |->
                                       ProcessRecord(size, acc, file[n])]]
  <2>1. step \in [1 .. N -> [Loading(size) -> Loading(size)]]
    BY <1>1, <1>3, RecordType
  <2>2. \A acc \in Loading(size), n \in 1 .. N :
          step[n][acc] = ProcessRecord(size, acc, file[n])
    OBVIOUS
  <2> HIDE DEF step
  <2> DEFINE S == Loading(size)
             base == Unread
  <2>3. PICK f \in [0 .. N -> S] :
          f[0] = base /\ \A n \in 1 .. N : f[n] = step[n][f[n - 1]]
    <3>1. base \in S /\ N \in Nat /\ step \in [1 .. N -> [S -> S]]
      BY <1>1, <1>2, <2>1
    <3> HIDE DEF S, base
    <3> QED BY <3>1, Recursion
  <2>4. \A n \in 1 .. N : f[n - 1] \in Loading(size)
    BY <1>1
  <2>5. \A n \in 1 .. N : f[n] = ProcessRecord(size, f[n - 1], file[n])
    BY <2>2, <2>3, <2>4
  <2> QED BY <2>3, <2>5
<1>5. Step(read)
  BY <1>1, <1>4
<1> DEFINE f == CHOOSE g : Step(g)
<1>6. Step(f)
  BY <1>5
<1>7. Loaded[size][file] = f[N]
  <2>1. Loaded[size][file] = intel_hex_to_buffer(file, size)
    BY DEF Loaded
  <2>2. intel_hex_to_buffer(file, size) = f[N]
    BY DEF intel_hex_to_buffer, Unread, N
  <2> QED BY <2>1, <2>2
<1> HIDE DEF f
<1>8. /\ f[0] = Unread
      /\ \A n \in 1 .. N : f[n] = ProcessRecord(size, f[n - 1], file[n])
  BY <1>1, <1>6
<1>9. f \in [0 .. N -> Loading(size)]
  <2> DEFINE Bad == {n \in 0 .. N : f[n] \notin Loading(size)}
             m == Min(Bad)
  <2>1. Bad = {}
    <3>1. SUFFICES ASSUME Bad # {} PROVE FALSE
      OBVIOUS
    <3>2. m \in Bad /\ \A n \in Bad : m <= n
      <4>1. Bad \subseteq Nat
        BY <1>1
      <4> HIDE DEF Bad
      <4> QED BY <3>1, <4>1, LeastElement
    <3> HIDE DEF m
    <3>3. m \in 1 .. N /\ f[m - 1] \in Loading(size)
      BY <1>1, <1>2, <1>8, <3>2
    <3> QED BY <1>1, <1>3, <1>8, <3>2, <3>3, RecordType
  <2> QED BY <1>6, <2>1
<1> QED BY <1>7, <1>8, <1>9 DEF N

\* An image stays within the size that it was read for.
LEMMA ImageType ==
  ASSUME NEW file \in Files, NEW size \in {End, UserSize}
  PROVE  Loaded[size][file] \in Loading(size)
<1>1. Len(file) \in Nat
  BY DfuProgAssumption
<1> QED BY <1>1, ReadingSteps

\* The base address changes at the records that set it.
LEMMA BaseSteps ==
  ASSUME NEW file \in Seq(Record)
  PROVE  /\ BaseAt(file, 0) = 0
         /\ \A n \in 1 .. Len(file) :
              BaseAt(file, n) = IF file[n].type \in {2, 4} THEN file[n].address % Space
                                ELSE BaseAt(file, n - 1)
<1> DEFINE bases(i) == {j \in 1 .. i : file[j].type \in {2, 4}}
<1>1. BaseAt(file, 0) = 0
  <2>1. bases(0) = {}
    OBVIOUS
  <2> QED BY <2>1 DEF BaseAt
<1>2. ASSUME NEW n \in 1 .. Len(file), file[n].type \in {2, 4}
      PROVE  BaseAt(file, n) = file[n].address % Space
  <2>1. n \in bases(n) /\ bases(n) \subseteq 1 .. n
    BY <1>2
  <2>2. Max(bases(n)) = n
    <3> HIDE DEF bases
    <3>1. \A m \in bases(n) : (\A y \in bases(n) : m >= y) => m = n
      BY <2>1
    <3>2. \A y \in bases(n) : n >= y
      BY <2>1
    <3> QED BY <2>1, <3>1, <3>2 DEF Max
  <2> QED BY <2>1, <2>2 DEF BaseAt
<1>3. ASSUME NEW n \in 1 .. Len(file), file[n].type \notin {2, 4}
      PROVE  BaseAt(file, n) = BaseAt(file, n - 1)
  <2>1. bases(n) = bases(n - 1)
    BY <1>3
  <2> QED BY <2>1 DEF BaseAt
<1> QED BY <1>1, <1>2, <1>3

\* Byte k of line i, and whether a start address is among the first n lines.
Says(file, i, k) == <<BaseAt(file, i) + file[i].address + k - 1, file[i].data[k]>>
Behind(file, n)  == \E i \in 1 .. n : file[i].type = 5

\* The lines of a file and their bytes.
LEMMA FileLines ==
  ASSUME NEW file \in Files
  PROVE  /\ file \in Seq(Record) /\ Len(file) \in Nat
         /\ \A n \in 1 .. Len(file) : /\ file[n] \in Record /\ file[n].type \in 0 .. 5
                                     /\ file[n].address \in Nat /\ Len(file[n].data) \in Nat
         /\ \A p \in Contents(file) : \E i \in 1 .. Len(file) :
              file[i].type = 0 /\ \E k \in 1 .. Len(file[i].data) : p = Says(file, i, k)
         /\ \A i \in 1 .. Len(file) : file[i].type = 0 =>
              \A k \in 1 .. Len(file[i].data) : Says(file, i, k) \in Contents(file)
<1>1. file \in Seq(Record) /\ Len(file) \in Nat
  BY DfuProgAssumption
<1>2. ASSUME NEW n \in 1 .. Len(file)
      PROVE  /\ file[n] \in Record /\ file[n].type \in 0 .. 5
             /\ file[n].address \in Nat /\ Len(file[n].data) \in Nat
  <2>1. file[n] \in Record
    BY <1>1
  <2>2. file[n].type \in 0 .. 5 /\ file[n].address \in Nat /\ file[n].data \in Seq(Byte)
    BY <2>1 DEF Record
  <2> QED BY <2>1, <2>2
<1>3. \A p \in Contents(file) : \E i \in 1 .. Len(file) :
        file[i].type = 0 /\ \E k \in 1 .. Len(file[i].data) : p = Says(file, i, k)
  BY DEF Contents, Says
<1>4. \A i \in 1 .. Len(file) : file[i].type = 0 =>
        \A k \in 1 .. Len(file[i].data) : Says(file, i, k) \in Contents(file)
  BY DEF Contents, Says
<1> QED BY <1>1, <1>2, <1>3, <1>4

\* What the first n lines of a file have led to.
Partly(file, n, acc) ==
  /\ acc.state = "reading" => acc.offset = BaseAt(file, n) \/ Behind(file, n)
  /\ acc.state = "loaded"  => n = Len(file)
  /\ acc.state # "error" =>
       /\ \A a \in DOMAIN acc.memory : <<a, acc.memory[a]>> \in Contents(file)
       /\ \A i \in 1 .. n : file[i].type = 0 =>
            \A k \in 1 .. Len(file[i].data) : Says(file, i, k)[1] \in DOMAIN acc.memory

\* A regular file is read into what its lines say.
LEMMA RegularReading ==
  ASSUME NEW file \in Files, Regular(file), NEW size \in {End, UserSize}
  PROVE  \E read \in [0 .. Len(file) -> Loading(size)] :
           /\ read[0] = Unread
           /\ \A n \in 1 .. Len(file) : read[n] = ProcessRecord(size, read[n - 1], file[n])
           /\ Loaded[size][file] = read[Len(file)]
           /\ \A n \in 0 .. Len(file) : Partly(file, n, read[n])
<1> DEFINE N == Len(file)
<1>1. file \in Seq(Record) /\ N \in Nat
  BY FileLines
<1>2. \A n \in 1 .. N : /\ file[n] \in Record /\ file[n].type \in 0 .. 5
                        /\ file[n].address \in Nat /\ Len(file[n].data) \in Nat
  BY FileLines
<1>3. PICK read \in [0 .. N -> Loading(size)] :
        /\ read[0] = Unread
        /\ \A n \in 1 .. N : read[n] = ProcessRecord(size, read[n - 1], file[n])
        /\ Loaded[size][file] = read[N]
  BY ReadingSteps
<1>5. \A i \in 1 .. N : file[i].type = 0 =>
        \A k \in 1 .. Len(file[i].data) : Says(file, i, k) \in Contents(file)
  BY FileLines
<1> USE DEF Says, Behind, Partly
<1>6. Partly(file, 0, read[0])
  <2>1. read[0].memory = [a \in {} |-> {}] /\ read[0].offset = 0 /\ read[0].state = "reading"
    BY <1>3 DEF Unread, Nothing
  <2>2. DOMAIN read[0].memory = {}
    BY <2>1
  <2>3. BaseAt(file, 0) = 0
    BY <1>1, BaseSteps
  <2> QED BY <2>1, <2>2, <2>3
<1>7. ASSUME NEW n \in 1 .. N, Partly(file, n - 1, read[n - 1])
      PROVE  Partly(file, n, read[n])
  <2> DEFINE acc == read[n - 1]
             r == file[n]
             base == acc.offset + r.address
             bytes == [a \in base .. base + Len(r.data) - 1 |-> r.data[a - base + 1]]
  <2>1. /\ read[n] = ProcessRecord(size, acc, r) /\ acc \in Loading(size)
        /\ r.type \in 0 .. 5 /\ n \in Nat /\ n - 1 \in Nat /\ n - 1 # N
    BY <1>1, <1>2, <1>3
  <2>2. read[n] =
          IF acc.state # "reading" THEN acc
          ELSE IF ~ r.valid \/ (r.type = 0 /\ ~ (DOMAIN bytes \subseteq 0 .. size - 1))
          THEN [acc EXCEPT !.state = "error"]
          ELSE CASE r.type = 0 -> [acc EXCEPT !.memory = Over(bytes, @)]
               [] r.type = 1 -> [acc EXCEPT !.state = "loaded"]
               [] r.type \in {2, 4, 5} -> [acc EXCEPT !.offset = r.address % Space]
               [] r.type = 3 -> acc
    BY <2>1 DEF ProcessRecord
  <2>3. BaseAt(file, n) = IF r.type \in {2, 4} THEN r.address % Space
                          ELSE BaseAt(file, n - 1)
    BY <1>1, BaseSteps
  <2>4. Behind(file, n) <=> Behind(file, n - 1) \/ r.type = 5
    BY <2>1
  <2>5. r.type = 0 => ~ Behind(file, n - 1)
    BY <2>1 DEF Regular
  <2>6. r.type = 1 => n = N
    BY DEF Regular
  <2>7. \A i \in 1 .. n : i \in 1 .. n - 1 \/ i = n
    BY <2>1
  <2> HIDE DEF acc, bytes, Behind
  <2>8. CASE acc.state # "reading" \/ read[n].state = "error"
    <3>1. acc.state # "loaded"
      BY <1>7, <2>1 DEF acc
    <3>2. read[n].state = "error"
      BY <2>1, <2>2, <2>8, <3>1 DEF Loading
    <3> QED BY <3>2
  <2>9. CASE acc.state = "reading" /\ r.type = 0 /\ read[n].state # "error"
    <3>1. read[n] = [acc EXCEPT !.memory = Over(bytes, @)]
      BY <2>1, <2>2, <2>9 DEF Loading
    <3>2. /\ read[n].state = "reading" /\ read[n].offset = acc.offset
          /\ read[n].memory = Over(bytes, acc.memory)
      BY <2>1, <2>9, <3>1 DEF Loading
    <3>3. acc.offset = BaseAt(file, n)
      BY <1>7, <2>3, <2>5, <2>9 DEF acc
    <3>4. acc.offset \in Nat /\ base \in Nat /\ base = BaseAt(file, n) + r.address
          /\ Len(r.data) \in Nat
      BY <1>2, <2>1, <3>3 DEF Loading
    <3>5. DOMAIN bytes = base .. base + Len(r.data) - 1
          /\ \A a \in DOMAIN bytes : bytes[a] = r.data[a - base + 1]
      BY DEF bytes
    <3>6. ASSUME NEW a \in DOMAIN bytes
          PROVE  <<a, bytes[a]>> \in Contents(file)
      <4> DEFINE k == a - base + 1
      <4>1. k \in 1 .. Len(r.data) /\ a = base + k - 1 /\ bytes[a] = r.data[k]
        <5>1. a \in base .. base + Len(r.data) - 1 /\ bytes[a] = r.data[k]
          BY <3>5
        <5>2. PICK from, long \in Nat : from = base /\ long = Len(r.data)
          BY <3>4
        <5>3. a \in from .. from + long - 1 /\ k = a - from + 1
          BY <5>1, <5>2
        <5>4. k \in 1 .. long /\ a = from + k - 1
          <6> HIDE DEF k
          <6> QED BY <5>3
        <5> QED BY <5>1, <5>2, <5>4
      <4>2. <<a, bytes[a]>> = Says(file, n, k)
        BY <3>4, <4>1
      <4> QED BY <1>5, <2>9, <4>1, <4>2
    <3>7. ASSUME NEW k \in 1 .. Len(r.data)
          PROVE  Says(file, n, k)[1] \in DOMAIN bytes
      BY <3>4, <3>5
    <3>8. /\ DOMAIN read[n].memory = DOMAIN bytes \cup DOMAIN acc.memory
          /\ \A a \in DOMAIN bytes : read[n].memory[a] = bytes[a]
          /\ \A a \in DOMAIN acc.memory \ DOMAIN bytes : read[n].memory[a] = acc.memory[a]
      BY <3>2 DEF Over
    <3> HIDE DEF base
    <3>9. /\ \A a \in DOMAIN acc.memory : <<a, acc.memory[a]>> \in Contents(file)
          /\ \A i \in 1 .. n - 1 : file[i].type = 0 =>
               \A k \in 1 .. Len(file[i].data) : Says(file, i, k)[1] \in DOMAIN acc.memory
      BY <1>7, <2>9 DEF acc
    <3> HIDE DEF Says
    <3>10. \A a \in DOMAIN read[n].memory : <<a, read[n].memory[a]>> \in Contents(file)
      BY <3>6, <3>8, <3>9
    <3>11. \A i \in 1 .. n : file[i].type = 0 =>
             \A k \in 1 .. Len(file[i].data) : Says(file, i, k)[1] \in DOMAIN read[n].memory
      BY <2>7, <3>7, <3>8, <3>9
    <3> QED BY <3>2, <3>3, <3>10, <3>11
  <2>10. CASE acc.state = "reading" /\ r.type # 0 /\ read[n].state # "error"
    <3>1. read[n].memory = acc.memory
      BY <2>1, <2>2, <2>10 DEF Loading
    <3>2. read[n].state = "loaded" => n = N
      BY <2>1, <2>2, <2>6, <2>10 DEF Loading
    <3>3. read[n].state = "reading" => read[n].offset = BaseAt(file, n) \/ Behind(file, n)
      <4>1. CASE r.type \in {2, 4, 5}
        BY <2>1, <2>2, <2>3, <2>4, <2>10, <4>1 DEF Loading
      <4>2. CASE r.type = 3
        <5>1. read[n] = acc
          BY <2>1, <2>2, <2>10, <4>2 DEF Loading
        <5>2. acc.offset = BaseAt(file, n - 1) \/ Behind(file, n - 1)
          BY <1>7, <2>10 DEF acc
        <5> QED BY <2>3, <2>4, <4>2, <5>1, <5>2
      <4>3. CASE r.type = 1
        BY <2>1, <2>2, <2>10, <4>3 DEF Loading
      <4> QED BY <2>1, <2>10, <4>1, <4>2, <4>3
    <3> HIDE DEF Says
    <3>4. /\ \A a \in DOMAIN acc.memory : <<a, acc.memory[a]>> \in Contents(file)
          /\ \A i \in 1 .. n - 1 : file[i].type = 0 =>
               \A k \in 1 .. Len(file[i].data) : Says(file, i, k)[1] \in DOMAIN acc.memory
      BY <1>7, <2>10 DEF acc
    <3> QED BY <2>7, <2>10, <3>1, <3>2, <3>3, <3>4
  <2> QED BY <2>8, <2>9, <2>10
<1>8. \A n \in 0 .. N : Partly(file, n, read[n])
  <2> HIDE DEF Partly
  <2> DEFINE Bad == {n \in 0 .. N : ~ Partly(file, n, read[n])}
             m == Min(Bad)
  <2>1. SUFFICES ASSUME Bad # {} PROVE FALSE
    BY <1>1
  <2>2. m \in Bad /\ \A n \in Bad : m <= n
    <3>1. Bad \subseteq Nat
      BY <1>1
    <3> HIDE DEF Bad
    <3> QED BY <2>1, <3>1, LeastElement
  <2> HIDE DEF m
  <2>3. m \in 1 .. N /\ m - 1 \in 0 .. N /\ m - 1 < m
    BY <1>1, <1>6, <2>2
  <2>4. Partly(file, m - 1, read[m - 1])
    BY <2>2, <2>3
  <2> QED BY <1>7, <2>2, <2>3, <2>4
<1> QED BY <1>3, <1>8

\* What is loaded from a regular file is what the file says, byte by byte.
LEMMA LoadedIsContents ==
  ASSUME NEW file \in Files, Regular(file), NEW size \in {End, UserSize},
         Loaded[size][file].state = "loaded"
  PROVE  LET memory == Loaded[size][file].memory
         IN /\ \A a \in DOMAIN memory : <<a, memory[a]>> \in Contents(file)
            /\ \A c \in Contents(file) : c[1] \in DOMAIN memory /\ memory[c[1]] = c[2]
<1> DEFINE memory == Loaded[size][file].memory
<1>1. Len(file) \in Nat
  BY FileLines
<1>2. Partly(file, Len(file), Loaded[size][file])
  BY <1>1, RegularReading
<1>3. \A a \in DOMAIN memory : <<a, memory[a]>> \in Contents(file)
  BY <1>2 DEF Partly
<1>4. ASSUME NEW c \in Contents(file)
      PROVE  c[1] \in DOMAIN memory /\ memory[c[1]] = c[2]
  <2>1. PICK i \in 1 .. Len(file) :
          file[i].type = 0 /\ \E k \in 1 .. Len(file[i].data) : c = Says(file, i, k)
    BY FileLines
  <2>2. c[1] \in DOMAIN memory
    BY <1>2, <2>1 DEF Partly
  <2> DEFINE d == <<c[1], memory[c[1]]>>
  <2>3. d \in Contents(file) /\ d[1] = c[1] /\ d[2] = memory[c[1]]
    BY <1>3, <2>2
  <2> HIDE DEF d
  <2> QED BY <2>2, <2>3 DEF Regular
<1> QED BY <1>3, <1>4

\* A file that a memory can be written from is loaded.
LEMMA WritableLoads ==
  ASSUME NEW file \in Files, NEW size \in {End, UserSize}, Writable(file, size)
  PROVE  Loaded[size][file].state = "loaded"
<1> DEFINE N == Len(file)
<1>1. /\ Regular(file) /\ \A i \in 1 .. N : file[i].valid
      /\ \E i \in 1 .. N : file[i].type = 1
      /\ \A c \in Contents(file) : c[1] < size
  BY DEF Writable
<1>2. /\ file \in Seq(Record) /\ N \in Nat
      /\ \A n \in 1 .. N : file[n].type \in 0 .. 5 /\ file[n].address \in Nat
                           /\ Len(file[n].data) \in Nat
  BY FileLines
<1>3. PICK read \in [0 .. N -> Loading(size)] :
        /\ read[0] = Unread
        /\ \A n \in 1 .. N : read[n] = ProcessRecord(size, read[n - 1], file[n])
        /\ Loaded[size][file] = read[N]
        /\ \A n \in 0 .. N : Partly(file, n, read[n])
  BY <1>1, RegularReading
<1>4. N \in 1 .. N /\ file[N].type = 1 /\ \A n \in 1 .. N - 1 : file[n].type # 1
  BY <1>1, <1>2 DEF Regular
<1>5. ASSUME NEW n \in 1 .. N, read[n - 1].state = "reading"
      PROVE  read[n].state = IF file[n].type = 1 THEN "loaded" ELSE "reading"
  <2> DEFINE acc == read[n - 1]
             r == file[n]
             base == acc.offset + r.address
             bytes == [a \in base .. base + Len(r.data) - 1 |-> r.data[a - base + 1]]
  <2>1. /\ read[n] = ProcessRecord(size, acc, r) /\ acc \in Loading(size)
        /\ r.type \in 0 .. 5 /\ n \in Nat /\ n - 1 \in 0 .. N /\ r.valid
    <3>1. n \in Nat /\ n - 1 \in 0 .. N
      BY <1>2
    <3>2. read[n] = ProcessRecord(size, acc, r) /\ acc \in Loading(size)
      BY <1>3, <3>1
    <3> QED BY <1>1, <1>2, <3>1, <3>2
  <2>2. read[n] =
          IF acc.state # "reading" THEN acc
          ELSE IF ~ r.valid \/ (r.type = 0 /\ ~ (DOMAIN bytes \subseteq 0 .. size - 1))
          THEN [acc EXCEPT !.state = "error"]
          ELSE CASE r.type = 0 -> [acc EXCEPT !.memory = Over(bytes, @)]
               [] r.type = 1 -> [acc EXCEPT !.state = "loaded"]
               [] r.type \in {2, 4, 5} -> [acc EXCEPT !.offset = r.address % Space]
               [] r.type = 3 -> acc
    BY <2>1 DEF ProcessRecord
  <2>3. ASSUME r.type = 0 PROVE DOMAIN bytes \subseteq 0 .. size - 1
    <3>1. ~ Behind(file, n - 1)
      BY <2>1, <2>3, <1>1 DEF Regular, Behind
    <3>2. acc.offset = BaseAt(file, n - 1)
      BY <1>3, <1>5, <2>1, <3>1 DEF Partly
    <3>3. BaseAt(file, n) = BaseAt(file, n - 1)
      BY <1>2, <2>3, BaseSteps
    <3>4. PICK from, long \in Nat : from = base /\ long = Len(r.data)
      BY <1>2, <2>1 DEF Loading
    <3>5. base = BaseAt(file, n) + r.address
      BY <3>2, <3>3
    <3>6. ASSUME NEW a \in DOMAIN bytes PROVE a \in 0 .. size - 1
      <4>1. a \in from .. from + long - 1
        BY <3>4
      <4> DEFINE k == a - from + 1
      <4>2. k \in 1 .. long /\ a = from + k - 1 /\ a \in Nat
        BY <4>1
      <4>3. Says(file, n, k) \in Contents(file)
        BY <2>3, <3>4, <4>2, FileLines
      <4>4. Says(file, n, k)[1] = a
        BY <3>4, <3>5, <4>2 DEF Says
      <4>5. a < size /\ size \in Nat
        BY <1>1, <4>3, <4>4, Sizes
      <4> QED BY <4>2, <4>5
    <3> QED BY <3>6
  <2> HIDE DEF bytes
  <2> QED BY <1>5, <2>1, <2>2, <2>3 DEF Loading
<1>6. \A n \in 0 .. N - 1 : read[n].state = "reading"
  <2> DEFINE Bad == {n \in 0 .. N - 1 : read[n].state # "reading"}
             m == Min(Bad)
  <2>1. SUFFICES ASSUME Bad # {} PROVE FALSE
    OBVIOUS
  <2>2. m \in Bad /\ \A n \in Bad : m <= n
    <3>1. Bad \subseteq Nat
      BY <1>2
    <3> HIDE DEF Bad
    <3> QED BY <2>1, <3>1, LeastElement
  <2> HIDE DEF m
  <2>3. m \in 1 .. N - 1 /\ m - 1 \in 0 .. N - 1 /\ m \in 1 .. N /\ m - 1 < m
    BY <1>2, <1>3, <2>2 DEF Unread
  <2>4. read[m - 1].state = "reading"
    BY <2>2, <2>3
  <2> QED BY <1>4, <1>5, <2>2, <2>3, <2>4
<1> QED BY <1>2, <1>3, <1>4, <1>5, <1>6

-----------------------------------------------------------------------------
(* Transfers                                                                *)

\* Stalling changes the state and the status of the device alone.
LEMMA StalledType ==
  ASSUME NEW d \in Device
  PROVE  /\ Stalled(d) \in Device
         /\ Stalled(d).unit = d.unit /\ Stalled(d).page = d.page /\ Stalled(d).memory = d.memory
         /\ Stalled(d).state = "GONE" <=> d.state = "GONE"
         /\ d.state = "BUSY" => Stalled(d).state = "ERROR"
  BY DEF Stalled, Device, States

\* A request is accepted, refused or lost; with nothing wrong its answer says which.
LEMMA TransferOut ==
  ASSUME TypeOK, NEW accepted \in BOOLEAN, NEW next \in Device, NEW ok, NEW stall, NEW lost,
         dfu_transfer_out(accepted, next, ok, stall, lost)
  PROVE  /\ dev' \in Device /\ faults' \in 0 .. MaxFaults /\ clean' \in BOOLEAN
         /\ dev' \in {dev, Stalled(dev)} \/ (accepted /\ dev' = next)
         /\ pc' \in {ok, stall, lost}
         /\ pc' = ok => ok \in {stall, lost} \/ (accepted /\ dev' = next)
         /\ clean' => clean /\ IF accepted THEN dev' = next /\ pc' = ok
                               ELSE dev' = Stalled(dev) /\ pc' = stall
<1>1. dev \in Device /\ faults \in 0 .. MaxFaults /\ clean \in BOOLEAN /\ MaxFaults \in Nat
  BY DfuProgAssumption DEF TypeOK
<1>2. Stalled(dev) \in Device
  BY <1>1, StalledType
<1>3. CASE IF accepted THEN Answered(next, ok) ELSE Answered(Stalled(dev), stall)
  BY <1>1, <1>2, <1>3 DEF Answered
<1>a. CanFail => faults + 1 \in 0 .. MaxFaults
  BY <1>1 DEF CanFail
<1>4. CASE Fault({Stalled(dev)}, stall)
  BY <1>1, <1>2, <1>a, <1>4 DEF Fault
<1>5. CASE Fault({dev, IF accepted THEN next ELSE dev}, lost)
  BY <1>1, <1>2, <1>a, <1>5 DEF Fault
<1> QED BY <1>3, <1>4, <1>5 DEF dfu_transfer_out

\* The device after a DNLOAD that it accepted.
Sent(d) == [d EXCEPT !.state = IF @ = "IDLE" THEN "DNLOAD_IDLE" ELSE @]

\* What a device is after a block of data: only its state differs.
LEMMA SentType ==
  ASSUME NEW d \in Device
  PROVE  /\ Sent(d) \in Device
         /\ Sent(d).unit = d.unit /\ Sent(d).page = d.page /\ Sent(d).memory = d.memory
         /\ Sent(d).status = d.status
         /\ Sent(d).state = IF d.state = "IDLE" THEN "DNLOAD_IDLE" ELSE d.state
  BY DEF Sent, Device, States

\* The tool goes on after a DNLOAD when the device was ready and did what was asked,
\* and a device that is ready does it when nothing goes wrong.
LEMMA Download ==
  ASSUME TypeOK, NEW next \in Device, NEW ok, NEW stall, ok # stall, ok # "failed",
         dfu_download(next, ok, stall)
  PROVE  /\ dev' \in Device /\ faults' \in 0 .. MaxFaults /\ clean' \in BOOLEAN
         /\ dev'.memory \in {dev.memory, next.memory}
         /\ dev'.state = "GONE" => dev.state = "GONE" \/ next.state = "GONE"
         /\ pc' \in {ok, stall, "failed"}
         /\ pc' = ok => /\ dev.state \in Ready
                        /\ dev'.unit = next.unit /\ dev'.page = next.page
                        /\ dev'.memory = next.memory /\ dev'.status = next.status
                        /\ dev'.state = IF next.state = "IDLE" THEN "DNLOAD_IDLE" ELSE next.state
         /\ clean' => clean
         /\ clean' /\ dev.state \in Ready => pc' = ok
<1>1. dfu_transfer_out(dev.state \in Ready, Sent(next), ok, stall, "failed")
  BY DEF dfu_download, Sent
<1>2. dev \in Device /\ (dev.state \in Ready) \in BOOLEAN /\ Sent(next) \in Device
  BY SentType DEF TypeOK
<1>3. /\ dev' \in Device /\ faults' \in 0 .. MaxFaults /\ clean' \in BOOLEAN
      /\ dev' \in {dev, Stalled(dev)} \/ (dev.state \in Ready /\ dev' = Sent(next))
      /\ pc' \in {ok, stall, "failed"}
      /\ pc' = ok => ok \in {stall, "failed"} \/ (dev.state \in Ready /\ dev' = Sent(next))
      /\ clean' => clean /\ IF dev.state \in Ready THEN dev' = Sent(next) /\ pc' = ok
                            ELSE dev' = Stalled(dev) /\ pc' = stall
  <2> DEFINE accepted == dev.state \in Ready
             after == Sent(next)
  <2>1. accepted \in BOOLEAN /\ after \in Device
    BY <1>2
  <2>2. dfu_transfer_out(accepted, after, ok, stall, "failed")
    BY <1>1
  <2> HIDE DEF accepted, after
  <2>3. /\ dev' \in Device /\ faults' \in 0 .. MaxFaults /\ clean' \in BOOLEAN
        /\ dev' \in {dev, Stalled(dev)} \/ (accepted /\ dev' = after)
        /\ pc' \in {ok, stall, "failed"}
        /\ pc' = ok => ok \in {stall, "failed"} \/ (accepted /\ dev' = after)
        /\ clean' => clean /\ IF accepted THEN dev' = after /\ pc' = ok
                              ELSE dev' = Stalled(dev) /\ pc' = stall
    BY <2>1, <2>2, TransferOut
  <2> QED BY <2>3 DEF accepted, after
<1> QED BY <1>2, <1>3, SentType, StalledType

\* A status tells the truth, or arrives as an error or too short.
LEMMA StatusReply ==
  ASSUME TypeOK, NEW r, dfu_get_status(r)
  PROVE  /\ dev' \in Device /\ faults' \in 0 .. MaxFaults /\ clean' \in BOOLEAN
         /\ dev'.unit = dev.unit /\ dev'.page = dev.page /\ dev'.memory = dev.memory
         /\ dev'.status = dev.status
         /\ dev'.state = IF dev.state = "SYNC" THEN "DNLOAD_IDLE" ELSE dev.state
         /\ r.code \in {0, -2} /\ r.status \in {"OK", "ERROR"}
         /\ r.state \in {dev.state, "ERROR"}
         /\ r.status = "OK" => dev.status = "OK" /\ r.state = dev.state
         /\ clean' => clean /\ r.code = 0 /\ r.status = dev.status /\ r.state = dev.state
<1>1. dev \in Device /\ faults \in 0 .. MaxFaults /\ clean \in BOOLEAN /\ MaxFaults \in Nat
  BY DfuProgAssumption DEF TypeOK
<1>2. dev' = [dev EXCEPT !.state = IF @ = "SYNC" THEN "DNLOAD_IDLE" ELSE @]
  BY DEF dfu_get_status
<1>3. /\ dev' \in Device /\ dev'.unit = dev.unit /\ dev'.page = dev.page
      /\ dev'.memory = dev.memory /\ dev'.status = dev.status
      /\ dev'.state = IF dev.state = "SYNC" THEN "DNLOAD_IDLE" ELSE dev.state
  BY <1>1, <1>2 DEF Device, States
<1>4. r \in StatusReplies
  BY DEF dfu_get_status
<1>5. dev.status \in {"OK", "ERROR"}
  BY <1>1 DEF Device
<1>6. CASE r = [code |-> 0, status |-> dev.status, state |-> dev.state, fault |-> FALSE]
  BY <1>1, <1>3, <1>5, <1>6 DEF dfu_get_status
<1>7. CASE /\ CanFail
           /\ r \in {[code |-> 0,  status |-> "ERROR", state |-> "ERROR", fault |-> TRUE],
                     [code |-> -2, status |-> "ERROR", state |-> "ERROR", fault |-> TRUE]}
  <2>1. r.fault = TRUE /\ r.status = "ERROR" /\ r.state = "ERROR" /\ r.code \in {0, -2}
    BY <1>7
  <2>2. faults' = faults + 1 /\ clean' = FALSE
    BY <1>1, <2>1 DEF dfu_get_status
  <2>3. faults' \in 0 .. MaxFaults
    BY <1>1, <1>7, <2>2 DEF CanFail
  <2>4. r.code = 0 => r.status # "OK"
    BY <2>1
  <2>5. clean' \in BOOLEAN /\ ~ clean'
    BY <2>2
  <2> QED BY <1>3, <2>1, <2>3, <2>5
<1> QED BY <1>4, <1>6, <1>7 DEF StatusReplies

-----------------------------------------------------------------------------
(* The invariant                                                            *)

Preparing == {"make_idle", "clear", "clear_again", "abort", "detach", "reset"}
Erasing   == {"erase", "erase_status", "check_select", "check_page", "check", "check_status"}
Writing   == {"select", "select_page0", "find", "next_page", "reselect",
              "block", "block_clear", "block_status"}
Reading   == {"read_select", "read_page", "read", "upload"}
Leaving   == {"start_app", "manifest", "reset_command"}

IsWrite == args.command \in {"flash", "user"}
IsDump  == args.command \in {"dump", "udump"}

\* What the command is about: a memory, and the addresses of it.
Unit   == IF OnUserPage(args.command) THEN "user" ELSE "flash"
Bottom == IF OnUserPage(args.command) THEN 0 ELSE BootSize
Top    == IF OnUserPage(args.command) THEN UserSize ELSE End
Area   == Bottom .. Top - 1

\* Each transfer belongs to the commands that make it, on a device that is there.
CommandInv ==
  /\ pc \in Ended \cup Preparing \cup {"execute"} \cup Erasing \cup Writing \cup Reading
              \cup Leaving
  /\ pc \in Erasing => args.command = "erase"
  /\ pc \in Writing => IsWrite
  /\ pc \in {"select_page0", "find", "next_page", "reselect"} => args.command = "flash"
  /\ pc \in Reading => IsWrite \/ IsDump
  /\ pc = "read_page" => ~ OnUserPage(args.command)
  /\ pc \in Leaving => args.command \in {"start_app", "reset"}
  /\ pc \notin Ended => dev.state # "GONE"

\* The loops that count their retries have one left.
RetryInv ==
  pc \in Preparing \cup {"erase", "erase_status", "check_status"} => retries >= 1

\* The image is the file's, and what it may not contain was dropped on request.
ImageInv ==
  pc \in Writing \cup Reading \cup {"done"} /\ IsWrite =>
    LET loaded == Loaded[Top][args.file]
    IN /\ loaded.state = "loaded"
       /\ hex = [a \in DOMAIN loaded.memory \cap Area |-> loaded.memory[a]]
       /\ DOMAIN loaded.memory \subseteq Area \/ args.skip

\* The device has the memory and the page selected that the tool means.
SelectionInv ==
  /\ pc \in {"check_page", "check", "select_page0", "find", "next_page", "reselect", "block",
             "block_status", "read_page", "read", "upload"} => dev.unit = Unit
  /\ pc \in {"check", "find", "block", "block_status", "read", "upload"} =>
       OnUserPage(args.command) \/ dev.page = mem_page

\* A block is set bytes of one page of the flash, or is on the user page.
BlockInv ==
  /\ pc \in {"select", "select_page0"} => mem_page = 0
  /\ pc \in {"find", "next_page"} => mem_page * PageSize <= first
  /\ pc \in {"block", "block_status"} =>
       /\ first < last /\ last <= Top
       /\ args.command = "flash" =>
            /\ mem_page * PageSize <= first /\ last <= mem_page * PageSize + PageSize
            /\ first .. last - 1 \subseteq DOMAIN hex

\* A chunk is what is left of one page.
ChunkInv ==
  pc \in {"read_page", "read", "upload"} =>
    /\ Bottom <= first /\ first < last
    /\ IF OnUserPage(args.command) THEN first = 0 /\ last = UserSize
       ELSE mem_page < Pages /\ mem_page * PageSize <= first
              /\ last = mem_page * PageSize + PageSize

\* What was read back of the addresses below n.
Copied(n) ==
  /\ IsDump =>
       /\ DOMAIN buffer \subseteq Bottom .. n - 1
       /\ partial \/ DOMAIN buffer = Bottom .. n - 1
       /\ \A a \in DOMAIN buffer : buffer[a] = dev.memory[Unit][a]
  /\ IsWrite =>
       /\ DOMAIN buffer = Area
       /\ \A a \in Area : \/ a < n /\ buffer[a] = dev.memory[Unit][a]
                          \/ (a < n => partial) /\ buffer[a] = {}

BufferInv ==
  /\ pc \in Preparing \cup {"execute"} => buffer = Nothing /\ mem_page = 0
  /\ pc \in Writing \cup {"read_select"} => Copied(Bottom)
  /\ pc \in {"read_page", "read", "upload"} => Copied(first)
  /\ pc = "done" /\ (IsDump \/ (IsWrite /\ ~ args.suppress)) => Copied(Top)
  /\ pc = "done" /\ IsWrite /\ ~ args.suppress => Matches(buffer)

BlankBelow(n) == \A a \in Application : a < n => dev.memory["flash"][a] = Blank

\* A blank check that goes on, or that ends well, found the pages behind it blank.
BlankInv ==
  /\ pc \in {"check_page", "check"} =>
       /\ first = BootSize + mem_page * PageSize /\ first < End - 1
       /\ dev.state = "ERROR" \/ BlankBelow(mem_page * PageSize)
  /\ pc = "check_status" => dev.status = "ERROR" \/ BlankBelow(End - BootSize)
  /\ pc = "done" /\ args.command = "erase" => BlankBelow(End - BootSize)

\* With nothing to disturb it, the tool has retries enough to make the device idle,
\* and the device stays ready.
CalmInv ==
  clean =>
    /\ pc = "make_idle" =>
         \/ retries = 4
         \/ retries = 3 /\ dev.state \in {"IDLE", "ERROR", "APP_DETACH"}
         \/ retries >= 2 /\ dev.state = "IDLE" /\ dev.status = "OK"
    /\ pc = "clear"  => retries \in 3 .. 4 /\ dev.state \in {"ERROR", "IDLE"}
    /\ pc = "abort"  => retries = 4 /\ dev.state \in {"DNLOAD_IDLE", "UPLOAD_IDLE", "BUSY"}
    /\ pc = "detach" => retries = 4 /\ dev.state = "APP_IDLE"
    /\ pc # "clear_again"
    /\ pc = "execute" => dev.state = "IDLE" /\ dev.status = "OK"
    /\ pc \in Erasing \cup Reading \cup Leaving /\ ~ IsWrite =>
         /\ dev.status = "OK"
         /\ IF pc = "upload" THEN dev.state = "UPLOAD_IDLE" ELSE dev.state \in Ready
    /\ pc \in Erasing \ {"erase"} => BlankBelow(End)
    /\ pc = "no_device" => dev.state = "GONE"
    /\ pc = "failed" => IsWrite

IInv == /\ TypeOK /\ CommandInv /\ RetryInv /\ ImageInv /\ SelectionInv /\ BlockInv
        /\ ChunkInv /\ BufferInv /\ BlankInv /\ CalmInv

-----------------------------------------------------------------------------
(* The invariant holds at the start and is kept                             *)

\* Most of the invariant is about the transfers of a command.
LEMMA BetweenCommands ==
  ASSUME pc' \in Preparing \cup {"execute"} \cup (Ended \ {"done"}),
         pc' \in Preparing \cup {"execute"} => buffer' = Nothing /\ mem_page' = 0
  PROVE  ImageInv' /\ SelectionInv' /\ BlockInv' /\ ChunkInv' /\ BufferInv' /\ BlankInv'
<1>1. pc' \notin Writing \cup Reading \cup {"done", "check_page", "check", "check_status"}
  BY DEF Preparing, Ended, Writing, Reading
<1>2. ImageInv' /\ SelectionInv' /\ BlockInv' /\ ChunkInv' /\ BlankInv'
  BY <1>1 DEF ImageInv, SelectionInv, BlockInv, ChunkInv, BlankInv, Writing, Reading
<1>3. BufferInv'
  BY <1>1 DEF BufferInv, Writing, Reading
<1> QED BY <1>2, <1>3

\* A run that fails leaves nothing to keep, but it does not fail by itself.
LEMMA FailedStep ==
  ASSUME TypeOK', pc' = "failed", clean' => IsWrite'
  PROVE  IInv'
<1>1. pc' \in Ended \ {"done"} /\ pc' \notin Preparing \cup {"execute"}
  BY DEF Ended, Preparing
<1>2. ImageInv' /\ SelectionInv' /\ BlockInv' /\ ChunkInv' /\ BufferInv' /\ BlankInv'
  BY <1>1, BetweenCommands
<1>3. CommandInv' /\ RetryInv' /\ CalmInv'
  BY DEF CommandInv, RetryInv, CalmInv, Ended, Preparing, Erasing, Writing, Reading, Leaving
<1> QED BY <1>2, <1>3 DEF IInv

\* The invariant holds before a tool is started.
LEMMA InitIInv == Init => IInv
<1> SUFFICES ASSUME Init PROVE IInv
  OBVIOUS
<1>1. TypeOK
  <2>1. dev \in Device
    <3> DEFINE flash(old) == [a \in 0 .. End - 1 |-> IF a \in Bootloader THEN Blank ELSE old]
               user(old)  == [a \in 0 .. UserSize - 1 |-> Blank \ old]
    <3>1. PICK old \in {Blank, {}} :
            dev \in [state : States, status : {"OK", "ERROR"}, unit : {"flash"}, page : {0},
                     memory : {[flash |-> flash(old), user |-> user(old)]}]
      BY DEF Init
    <3>2. flash(old) \in [0 .. End - 1 -> Byte] /\ user(old) \in [0 .. UserSize - 1 -> Byte]
      BY DEF Byte, Blank
    <3>3. 0 \in 0 .. Pages
      BY Sizes
    <3> HIDE DEF flash, user
    <3> QED BY <3>1, <3>2, <3>3 DEF Device
  <2>2. args \in CommandLines
    BY DEF Init, CommandLines
  <2>3. DOMAIN Nothing = {}
    BY DEF Nothing
  <2>4. /\ DOMAIN hex \subseteq 0 .. End - 1 /\ DOMAIN buffer \subseteq 0 .. End - 1
        /\ clean \in BOOLEAN /\ partial \in BOOLEAN
    BY <2>3 DEF Init
  <2>5. first = 0 /\ last = 0 /\ mem_page = 0 /\ retries = 0 /\ faults = 0 /\ sessions = 0
    BY DEF Init
  <2>6. /\ first \in 0 .. 2 * End /\ last \in 0 .. End /\ mem_page \in 0 .. Pages
        /\ retries \in 0 .. 20 /\ faults \in 0 .. MaxFaults /\ sessions \in 0 .. MaxSessions
    BY <2>5, Sizes, DfuProgAssumption
  <2> QED BY <2>1, <2>2, <2>4, <2>6 DEF TypeOK
<1>2. pc = "off" /\ clean = TRUE
  BY DEF Init
<1>3. CommandInv /\ RetryInv /\ ImageInv /\ SelectionInv /\ BlockInv /\ ChunkInv /\ BlankInv
  BY <1>2 DEF CommandInv, RetryInv, ImageInv, SelectionInv, BlockInv, ChunkInv, BlankInv,
              Ended, Preparing, Erasing, Writing, Reading, Leaving
<1>4. BufferInv /\ CalmInv
  BY <1>2 DEF BufferInv, CalmInv, Preparing, Erasing, Writing, Reading, Leaving
<1> QED BY <1>1, <1>3, <1>4 DEF IInv

\* Starting a tool keeps the invariant.
LEMMA StartStep == ASSUME IInv, Start PROVE IInv'
<1>1. TypeOK'
  <2>1. DOMAIN Nothing = {}
    BY DEF Nothing
  <2>2. sessions' \in 0 .. MaxSessions
    BY DfuProgAssumption DEF IInv, TypeOK, Start
  <2>3. /\ DOMAIN hex' \subseteq 0 .. End - 1 /\ DOMAIN buffer' \subseteq 0 .. End - 1
        /\ clean' \in BOOLEAN /\ partial' \in BOOLEAN
    BY <2>1 DEF Start
  <2>4. first' = 0 /\ last' = 0 /\ mem_page' = 0 /\ retries' = 4
    BY DEF Start
  <2>5. /\ first' \in 0 .. 2 * End /\ last' \in 0 .. End /\ mem_page' \in 0 .. Pages
        /\ retries' \in 0 .. 20
    BY <2>4, Sizes
  <2>6. dev' \in Device /\ args' \in CommandLines /\ faults' \in 0 .. MaxFaults
    BY DEF IInv, TypeOK, Start
  <2> QED BY <2>2, <2>3, <2>5, <2>6 DEF TypeOK
<1>2. /\ pc' \in {"make_idle", "no_device"} /\ buffer' = Nothing /\ retries' = 4
      /\ mem_page' = 0
      /\ dev'.state = "GONE" <=> pc' = "no_device"
  BY DEF Start
<1>3. pc' \in Preparing \cup {"execute"} \cup (Ended \ {"done"})
  BY <1>2 DEF Preparing, Ended
<1>4. ImageInv' /\ SelectionInv' /\ BlockInv' /\ ChunkInv' /\ BufferInv' /\ BlankInv'
  BY <1>2, <1>3, BetweenCommands
<1>5. CommandInv' /\ RetryInv' /\ CalmInv'
  BY <1>2, <1>3 DEF CommandInv, RetryInv, CalmInv, Ended, Preparing, Erasing, Writing, Reading,
                    Leaving
<1> QED BY <1>1, <1>4, <1>5 DEF IInv

\* So does killing it,
LEMMA KillStep == ASSUME IInv, Kill PROVE IInv'
<1>1. TypeOK'
  BY DEF IInv, TypeOK, Kill, loops
<1>2. pc' = "killed"
  BY DEF Kill
<1>3. pc' \in Ended \ {"done"} /\ pc' \notin Preparing \cup {"execute"}
  BY <1>2 DEF Preparing, Ended
<1>4. ImageInv' /\ SelectionInv' /\ BlockInv' /\ ChunkInv' /\ BufferInv' /\ BlankInv'
  BY <1>3, BetweenCommands
<1>5. CommandInv' /\ RetryInv' /\ CalmInv'
  BY <1>2, <1>3 DEF CommandInv, RetryInv, CalmInv, Ended, Preparing, Erasing, Writing, Reading,
                    Leaving
<1> QED BY <1>1, <1>4, <1>5 DEF IInv

\* A status that the device is asked for, and the request that its state needs.
LEMMA MakeIdleStep == ASSUME IInv, dfu_make_idle PROVE IInv'
<1>1. PICK r \in StatusReplies :
        /\ dfu_get_status(r)
        /\ pc' = CASE r.code # 0 -> "clear_again"
                   [] r.code = 0 /\ r.state = "IDLE" /\ r.status = "OK" -> "execute"
                   [] r.code = 0 /\ (r.state = "ERROR" \/ (r.state = "IDLE" /\ r.status # "OK"))
                        -> "clear"
                   [] r.code = 0 /\ r.state \in {"SYNC", "DNLOAD_IDLE", "UPLOAD_IDLE", "BUSY"}
                        -> "abort"
                   [] r.code = 0 /\ r.state = "APP_IDLE" -> "detach"
                   [] r.code = 0 /\ r.state \in {"APP_DETACH", "WAIT_RESET"} -> "reset"
  BY DEF dfu_make_idle
<1>2. /\ pc = "make_idle" /\ buffer = Nothing /\ mem_page = 0 /\ retries >= 1
      /\ dev \in Device /\ dev.state \in States \ {"GONE"}
  BY DEF IInv, TypeOK, CommandInv, RetryInv, BufferInv, dfu_make_idle, Preparing, Ended, Device
<1>3. UNCHANGED <<args, hex, first, last, mem_page, retries, buffer, sessions, partial>>
  BY DEF dfu_make_idle, loops
<1>4. /\ dev' \in Device /\ faults' \in 0 .. MaxFaults /\ clean' \in BOOLEAN
      /\ dev'.status = dev.status
      /\ dev'.state = IF dev.state = "SYNC" THEN "DNLOAD_IDLE" ELSE dev.state
      /\ r.code \in {0, -2} /\ r.status \in {"OK", "ERROR"} /\ r.state \in {dev.state, "ERROR"}
      /\ r.status = "OK" => dev.status = "OK" /\ r.state = dev.state
      /\ clean' => clean /\ r.code = 0 /\ r.status = dev.status /\ r.state = dev.state
  BY <1>1, StatusReply DEF IInv
<1>5. TypeOK'
  BY <1>3, <1>4 DEF IInv, TypeOK
<1>6. r.state \in States \ {"GONE"}
  BY <1>2, <1>4 DEF States
<1>7. pc' \in Preparing \cup {"execute"}
  BY <1>1, <1>4, <1>6 DEF States, Preparing
<1>8. ImageInv' /\ SelectionInv' /\ BlockInv' /\ ChunkInv' /\ BufferInv' /\ BlankInv'
  BY <1>2, <1>3, <1>7, BetweenCommands
<1>9. CommandInv' /\ RetryInv'
  BY <1>2, <1>3, <1>4, <1>7 DEF CommandInv, RetryInv, Ended, Preparing, Erasing, Writing,
                                Reading, Leaving
<1>10. CalmInv'
  <2> SUFFICES ASSUME clean' PROVE CalmInv'
    BY DEF CalmInv
  <2>1. /\ clean /\ r.code = 0 /\ r.status = dev.status /\ r.state = dev.state
        /\ \/ retries = 4
           \/ retries = 3 /\ dev.state \in {"IDLE", "ERROR", "APP_DETACH"}
           \/ retries >= 2 /\ dev.state = "IDLE" /\ dev.status = "OK"
    BY <1>2, <1>4 DEF IInv, CalmInv
  <2>2. /\ pc' = "clear"  => retries \in 3 .. 4 /\ dev'.state \in {"ERROR", "IDLE"}
        /\ pc' = "abort"  => retries = 4 /\ dev'.state \in {"DNLOAD_IDLE", "UPLOAD_IDLE", "BUSY"}
        /\ pc' = "detach" => retries = 4 /\ dev'.state = "APP_IDLE"
        /\ pc' # "clear_again" /\ pc' # "make_idle"
        /\ pc' = "execute" => dev'.state = "IDLE" /\ dev'.status = "OK"
    BY <1>1, <1>4, <1>6, <2>1 DEF States
  <2> QED BY <1>3, <1>7, <2>2 DEF CalmInv, Preparing, Erasing, Reading, Leaving
<1> QED BY <1>5, <1>8, <1>9, <1>10 DEF IInv

\* With four tries and no fault, two requests at most make the device idle.
LEMMA RequestStep == ASSUME IInv, MakeIdleRequest PROVE IInv'
<1> DEFINE next == IF retries > 1 \/ pc = "clear_again" THEN "make_idle" ELSE "no_device"
           idle == [dev EXCEPT !.state = "IDLE"]
           cleared == [dev EXCEPT !.state = "IDLE", !.status = "OK"]
           detached == [dev EXCEPT !.state = "APP_DETACH"]
<1>1. /\ pc \in {"clear", "clear_again", "abort", "detach"}
      /\ retries' = IF pc = "clear_again" THEN retries ELSE retries - 1
      /\ UNCHANGED <<args, hex, first, last, mem_page, buffer, sessions, partial>>
  BY DEF MakeIdleRequest
<1>2. /\ TypeOK /\ buffer = Nothing /\ mem_page = 0 /\ retries \in 1 .. 20
      /\ dev \in Device /\ dev.state # "GONE"
  BY <1>1 DEF IInv, TypeOK, CommandInv, RetryInv, BufferInv, Preparing, Ended
<1>3. /\ idle \in Device /\ idle.state = "IDLE"
      /\ cleared \in Device /\ cleared.state = "IDLE" /\ cleared.status = "OK"
      /\ detached \in Device /\ detached.state = "APP_DETACH"
  BY <1>2 DEF Device, States
<1>4. Stalled(dev).state # "GONE" /\ (dev.state = "BUSY" => Stalled(dev).state = "ERROR")
  BY <1>2, StalledType
<1> HIDE DEF next, idle, cleared, detached
<1>5. PICK accepted \in BOOLEAN, after \in Device :
        /\ dfu_transfer_out(accepted, after, next, next, next)
        /\ after.state # "GONE"
        /\ pc \in {"clear", "clear_again"} =>
             /\ (accepted <=> dev.state \in {"ERROR", "IDLE"})
             /\ after.state = "IDLE" /\ after.status = "OK"
        /\ pc = "abort" =>
             /\ (accepted <=> dev.state \in {"IDLE", "DNLOAD_IDLE", "UPLOAD_IDLE", "SYNC"})
             /\ after.state = "IDLE"
        /\ pc = "detach" => (accepted <=> dev.state = "APP_IDLE") /\ after.state = "APP_DETACH"
  <2>1. CASE pc \in {"clear", "clear_again"}
    <3>1. dfu_transfer_out(dev.state \in {"ERROR", "IDLE"}, cleared, next, next, next)
      BY <2>1 DEF MakeIdleRequest, dfu_clear_status, cleared, next
    <3>2. (dev.state \in {"ERROR", "IDLE"}) \in BOOLEAN
      OBVIOUS
    <3> QED BY <1>3, <2>1, <3>1, <3>2
  <2>2. CASE pc = "abort"
    <3>1. dfu_transfer_out(dev.state \in {"IDLE", "DNLOAD_IDLE", "UPLOAD_IDLE", "SYNC"}, idle,
                           next, next, next)
      BY <2>2 DEF MakeIdleRequest, dfu_abort, idle, next
    <3>2. (dev.state \in {"IDLE", "DNLOAD_IDLE", "UPLOAD_IDLE", "SYNC"}) \in BOOLEAN
      OBVIOUS
    <3> QED BY <1>3, <2>2, <3>1, <3>2
  <2>3. CASE pc = "detach"
    <3>1. dfu_transfer_out(dev.state = "APP_IDLE", detached, next, next, next)
      BY <2>3 DEF MakeIdleRequest, dfu_detach, detached, next
    <3>2. (dev.state = "APP_IDLE") \in BOOLEAN
      OBVIOUS
    <3> QED BY <1>3, <2>3, <3>1, <3>2
  <2> QED BY <1>1, <2>1, <2>2, <2>3
<1>6. /\ dev' \in Device /\ faults' \in 0 .. MaxFaults /\ clean' \in BOOLEAN
      /\ dev' \in {dev, Stalled(dev), after}
      /\ pc' = next
      /\ clean' => clean /\ IF accepted THEN dev' = after ELSE dev' = Stalled(dev)
  BY <1>2, <1>5, TransferOut
<1>7. TypeOK'
  BY <1>1, <1>2, <1>6 DEF TypeOK
<1>8. /\ pc' \in {"make_idle", "no_device"} /\ buffer' = Nothing /\ mem_page' = 0
      /\ dev'.state # "GONE"
      /\ pc' = "make_idle" => retries' >= 1
      /\ pc' = "no_device" => retries = 1 /\ pc # "clear_again"
  BY <1>1, <1>2, <1>4, <1>5, <1>6 DEF next
<1>9. pc' \in Preparing \cup {"execute"} \cup (Ended \ {"done"})
  BY <1>8 DEF Preparing, Ended
<1>10. ImageInv' /\ SelectionInv' /\ BlockInv' /\ ChunkInv' /\ BufferInv' /\ BlankInv'
  BY <1>8, <1>9, BetweenCommands
<1>11. CommandInv' /\ RetryInv'
  BY <1>8 DEF CommandInv, RetryInv, Ended, Preparing, Erasing, Writing, Reading, Leaving
<1>12. CalmInv'
  <2> SUFFICES ASSUME clean' PROVE CalmInv'
    BY DEF CalmInv
  <2>1. /\ clean /\ pc # "clear_again"
        /\ IF accepted THEN dev' = after ELSE dev' = Stalled(dev)
        /\ pc = "clear"  => retries \in 3 .. 4 /\ dev.state \in {"ERROR", "IDLE"}
        /\ pc = "abort"  => retries = 4 /\ dev.state \in {"DNLOAD_IDLE", "UPLOAD_IDLE", "BUSY"}
        /\ pc = "detach" => retries = 4 /\ dev.state = "APP_IDLE"
    BY <1>6 DEF IInv, CalmInv
  <2>2. /\ pc' = "make_idle"
        /\ \/ retries' = 3 /\ dev'.state \in {"IDLE", "ERROR", "APP_DETACH"}
           \/ retries' >= 2 /\ dev'.state = "IDLE" /\ dev'.status = "OK"
    <3>1. CASE pc = "clear"
      <4>1. accepted /\ dev' = after /\ after.state = "IDLE" /\ after.status = "OK"
        BY <1>5, <2>1, <3>1
      <4>2. retries' \in 2 .. 3 /\ pc' = "make_idle"
        BY <1>1, <1>8, <2>1, <3>1
      <4> QED BY <4>1, <4>2
    <3>2. CASE pc = "abort"
      <4>1. IF accepted THEN dev'.state = "IDLE" ELSE dev'.state = "ERROR"
        BY <1>4, <1>5, <2>1, <3>2
      <4>2. retries' = 3 /\ pc' = "make_idle"
        BY <1>1, <1>8, <2>1, <3>2
      <4> QED BY <4>1, <4>2
    <3>3. CASE pc = "detach"
      <4>1. dev'.state = "APP_DETACH"
        BY <1>5, <2>1, <3>3
      <4>2. retries' = 3 /\ pc' = "make_idle"
        BY <1>1, <1>8, <2>1, <3>3
      <4> QED BY <4>1, <4>2
    <3> QED BY <1>1, <2>1, <3>1, <3>2, <3>3
  <2> QED BY <2>2 DEF CalmInv, Erasing, Reading, Leaving
<1> QED BY <1>7, <1>10, <1>11, <1>12 DEF IInv

\* returning the device to its idle state,
LEMMA ResetStep == ASSUME IInv, MakeIdleReset PROVE IInv'
<1> DEFINE found == [dev EXCEPT !.state = "IDLE", !.status = "OK", !.unit = "flash", !.page = 0]
<1>1. /\ pc = "reset" /\ pc' = "make_idle" /\ retries' = 4
      /\ UNCHANGED <<args, hex, first, last, mem_page, buffer, sessions, partial>>
      /\ Answered(found, "make_idle") \/ Fault({dev}, "make_idle")
  BY DEF MakeIdleReset, Answered, Fault
<1>2. /\ found \in Device /\ found.state = "IDLE" /\ found.status = "OK"
      /\ dev \in Device /\ dev.state # "GONE" /\ faults \in 0 .. MaxFaults /\ clean \in BOOLEAN
  <2>1. 0 \in 0 .. Pages /\ dev \in Device
    BY Sizes DEF IInv, TypeOK
  <2> QED BY <1>1, <2>1 DEF Device, States, IInv, TypeOK, CommandInv, Ended
<1> HIDE DEF found
<1>a. /\ dev' \in Device /\ dev'.state # "GONE" /\ faults' \in 0 .. MaxFaults
      /\ clean' \in BOOLEAN
  <2>1. CASE Answered(found, "make_idle")
    BY <1>2, <2>1 DEF Answered
  <2>2. CASE Fault({dev}, "make_idle")
    <3>1. dev' = dev /\ faults' = faults + 1 /\ faults < MaxFaults /\ clean' = FALSE
      BY <2>2 DEF Fault, CanFail
    <3>2. faults' \in 0 .. MaxFaults
      BY <1>2, <3>1, DfuProgAssumption
    <3> QED BY <1>2, <3>1, <3>2
  <2> QED BY <1>1, <2>1, <2>2
<1>3. TypeOK'
  BY <1>1, <1>a DEF IInv, TypeOK
<1>4. buffer' = Nothing /\ mem_page' = 0 /\ pc' \in Preparing
  BY <1>1 DEF IInv, BufferInv, Preparing
<1>5. ImageInv' /\ SelectionInv' /\ BlockInv' /\ ChunkInv' /\ BufferInv' /\ BlankInv'
  BY <1>4, BetweenCommands
<1>6. CommandInv' /\ RetryInv' /\ CalmInv'
  BY <1>1, <1>a DEF CommandInv, RetryInv, CalmInv, Ended, Preparing, Erasing, Writing, Reading,
                    Leaving
<1> QED BY <1>3, <1>5, <1>6 DEF IInv

\* The command that the arguments name begins, a write with the image of its file.
LEMMA CommandStep == ASSUME IInv, execute_command PROVE IInv'
<1>1. /\ pc = "execute" /\ pc' \in {"erase", "select", "failed", "read_select", "start_app",
                                    "reset_command"}
      /\ UNCHANGED <<dev, args, first, last, mem_page, faults, sessions, clean, partial>>
  BY DEF execute_command, execute_erase, execute_flash_normal, execute_flash_user_page, Image,
         execute_dump_normal, execute_dump_user_page, Execute
<1>2. TypeOK /\ buffer = Nothing /\ mem_page = 0 /\ dev.state # "GONE" /\ args \in CommandLines
      /\ (clean => dev.state = "IDLE" /\ dev.status = "OK")
  BY <1>1 DEF IInv, TypeOK, BufferInv, CommandInv, CalmInv, Ended, Preparing
<1>3. ASSUME pc' \in {"erase", "read_select", "start_app", "reset_command"},
             UNCHANGED <<hex, buffer>>, retries' = retries \/ retries' = 10,
             pc' = "erase" => args.command = "erase" /\ retries' = 10,
             pc' = "read_select" => IsDump,
             pc' \in {"start_app", "reset_command"} => args.command \in {"start_app", "reset"}
      PROVE  IInv'
  <2>1. TypeOK'
    BY <1>1, <1>2, <1>3 DEF TypeOK
  <2>2. CommandInv' /\ RetryInv'
    BY <1>1, <1>2, <1>3 DEF CommandInv, RetryInv, IsWrite, IsDump, Ended, Preparing, Erasing,
                            Writing, Reading, Leaving
  <2>3. ImageInv' /\ SelectionInv' /\ BlockInv' /\ ChunkInv' /\ BlankInv'
    BY <1>1, <1>3 DEF ImageInv, SelectionInv, BlockInv, ChunkInv, BlankInv, IsWrite, IsDump,
                      Writing, Reading
  <2>4. pc' = "read_select" => Copied(Bottom)'
    <3>1. DOMAIN Nothing = {}
      BY DEF Nothing
    <3>2. Bottom \in Nat /\ Bottom .. Bottom - 1 = {}
      BY Sizes DEF Bottom
    <3> QED BY <1>1, <1>2, <1>3, <3>1, <3>2 DEF Copied, IsWrite, IsDump, Bottom
  <2>5. BufferInv'
    BY <1>3, <2>4 DEF BufferInv, Preparing, Writing
  <2>6. CalmInv'
    BY <1>1, <1>2, <1>3 DEF CalmInv, IsWrite, Ready, Erasing, Reading, Leaving
  <2> QED BY <2>1, <2>2, <2>3, <2>5, <2>6 DEF IInv
<1>4. ASSUME NEW size \in {End, UserSize}, NEW dropped, NEW command, NEW addresses,
             Image(command, size, dropped, addresses), args.command = command, IsWrite,
             size = Top, addresses = Area, dropped = (0 .. Top - 1) \ Area
      PROVE  IInv'
  <2> DEFINE loaded == Loaded[size][args.file]
             overlap == DOMAIN loaded.memory \cap dropped
  <2>1. args.file \in Files /\ loaded \in Loading(size)
    <3>1. args.file \in Files
      BY <1>2, <1>4 DEF CommandLines, IsWrite
    <3> QED BY <3>1, ImageType
  <2>2. DOMAIN loaded.memory \subseteq 0 .. size - 1
    BY <2>1 DEF Loading, Images
  <2> HIDE DEF loaded
  <2>3. CASE pc' = "failed"
    <3>1. UNCHANGED <<hex, buffer, retries>>
      BY <1>4, <2>3 DEF Image, Execute
    <3>2. TypeOK'
      BY <1>1, <1>2, <3>1 DEF TypeOK
    <3>3. IsWrite'
      BY <1>1, <1>4 DEF IsWrite
    <3> QED BY <2>3, <3>2, <3>3, FailedStep
  <2>4. CASE pc' # "failed"
    <3>1. /\ loaded.state = "loaded" /\ (overlap = {} \/ args.skip)
          /\ pc' = "select" /\ retries' = retries
          /\ hex' = [a \in DOMAIN loaded.memory \ overlap |-> loaded.memory[a]]
          /\ buffer' = [a \in addresses |-> {}]
      BY <1>4, <2>4 DEF Image, Execute, loaded
    <3>2. /\ DOMAIN loaded.memory \ overlap = DOMAIN loaded.memory \cap Area
          /\ overlap = {} => DOMAIN loaded.memory \subseteq Area
      BY <1>4, <2>2
    <3> HIDE DEF overlap
    <3>3. DOMAIN hex' \subseteq 0 .. End - 1 /\ DOMAIN buffer' \subseteq 0 .. End - 1
      <4>1. Area \subseteq 0 .. End - 1
        BY Sizes DEF Area, Bottom, Top
      <4> QED BY <1>4, <3>1, <3>2, <4>1
    <3>4. TypeOK'
      BY <1>1, <1>2, <3>1, <3>3 DEF TypeOK
    <3>5. CommandInv' /\ RetryInv'
      BY <1>1, <1>2, <1>4, <3>1 DEF CommandInv, RetryInv, IsWrite, Ended, Preparing, Erasing,
                                    Writing, Reading, Leaving
    <3>6. ImageInv'
      BY <1>1, <1>4, <3>1, <3>2 DEF ImageInv, Area, Bottom, Top, loaded
    <3>7. SelectionInv' /\ BlockInv' /\ ChunkInv' /\ BlankInv'
      BY <1>1, <1>2, <3>1 DEF SelectionInv, BlockInv, ChunkInv, BlankInv
    <3>8. Copied(Bottom)'
      <4>1. ~ IsDump' /\ Area' = Area
        BY <1>1, <1>4 DEF IsWrite, IsDump, Area, Bottom, Top
      <4>2. \A a \in Area : ~ (a < Bottom)
        BY Sizes DEF Area, Bottom, Top
      <4>3. Bottom' = Bottom
        BY <1>1 DEF Bottom
      <4> QED BY <1>4, <3>1, <4>1, <4>2, <4>3 DEF Copied
    <3>9. BufferInv'
      BY <3>1, <3>8 DEF BufferInv, Preparing
    <3>10. CalmInv'
      BY <3>1 DEF CalmInv, Erasing, Reading, Leaving
    <3> QED BY <3>4, <3>5, <3>6, <3>7, <3>9, <3>10 DEF IInv
  <2> QED BY <2>3, <2>4
<1>5. CASE execute_erase
  BY <1>3, <1>5 DEF execute_erase, Execute
<1>6. CASE execute_flash_normal
  <2>1. args.command = "flash"
    BY <1>6 DEF execute_flash_normal
  <2>2. /\ IsWrite /\ Top = End /\ Area = Application
        /\ Bootloader = (0 .. Top - 1) \ Area
    BY <2>1, Sizes DEF IsWrite, Top, Area, Bottom, Application, Bootloader, OnUserPage
  <2>3. Image("flash", End, Bootloader, Application)
    BY <1>6 DEF execute_flash_normal
  <2> QED BY <1>4, <2>1, <2>2, <2>3
<1>7. CASE execute_flash_user_page
  <2>1. args.command = "user"
    BY <1>7 DEF execute_flash_user_page
  <2>2. /\ IsWrite /\ Top = UserSize /\ Area = 0 .. UserSize - 1
        /\ {} = (0 .. Top - 1) \ Area
    BY <2>1, Sizes DEF IsWrite, Top, Area, Bottom, OnUserPage
  <2>3. Image("user", UserSize, {}, 0 .. UserSize - 1)
    BY <1>7 DEF execute_flash_user_page
  <2> QED BY <1>4, <2>1, <2>2, <2>3
<1>8. CASE execute_dump_normal \/ execute_dump_user_page
  BY <1>3, <1>8 DEF execute_dump_normal, execute_dump_user_page, Execute, IsDump
<1>9. CASE /\ Execute("start_app", "start_app") \/ Execute("reset", "reset_command")
           /\ UNCHANGED <<hex, buffer, retries>>
  BY <1>3, <1>9 DEF Execute
<1> QED BY <1>5, <1>6, <1>7, <1>8, <1>9 DEF execute_command

\* A loop that waits for the status goes on with a device that says it is well.
LEMMA Awaited ==
  ASSUME TypeOK, retries >= 1, NEW ok, ok \notin {"failed", pc}, pc # "failed", AwaitStatus(ok)
  PROVE  /\ dev' \in Device /\ faults' \in 0 .. MaxFaults /\ clean' \in BOOLEAN
         /\ dev'.unit = dev.unit /\ dev'.page = dev.page /\ dev'.memory = dev.memory
         /\ dev'.status = dev.status
         /\ dev'.state = IF dev.state = "SYNC" THEN "DNLOAD_IDLE" ELSE dev.state
         /\ retries' \in 0 .. 20
         /\ pc' \in {ok, "failed", pc}
         /\ pc' = pc => retries' >= 1
         /\ pc' = ok => dev.status = "OK"
         /\ clean' => clean /\ (dev.status = "OK" => pc' = ok)
<1>1. PICK r : /\ dfu_get_status(r)
               /\ retries' = IF r.code = 0 THEN 0 ELSE retries - 1
               /\ pc' = CASE r.code = 0 /\ r.status = "OK" -> ok
                          [] r.code = 0 /\ r.status # "OK" -> "failed"
                          [] r.code # 0 -> IF retries > 1 THEN pc ELSE "failed"
  BY DEF AwaitStatus
<1>2. /\ dev' \in Device /\ faults' \in 0 .. MaxFaults /\ clean' \in BOOLEAN
      /\ dev'.unit = dev.unit /\ dev'.page = dev.page /\ dev'.memory = dev.memory
      /\ dev'.status = dev.status
      /\ dev'.state = IF dev.state = "SYNC" THEN "DNLOAD_IDLE" ELSE dev.state
      /\ r.code \in {0, -2} /\ r.status \in {"OK", "ERROR"}
      /\ r.status = "OK" => dev.status = "OK" /\ r.state = dev.state
      /\ clean' => clean /\ r.code = 0 /\ r.status = dev.status /\ r.state = dev.state
  BY <1>1, StatusReply
<1>3. retries \in 1 .. 20
  BY DEF TypeOK
<1>4. CASE r.code = 0 /\ r.status = "OK"
  BY <1>1, <1>2, <1>3, <1>4
<1>5. CASE r.code = 0 /\ r.status # "OK"
  BY <1>1, <1>2, <1>3, <1>5
<1>6. CASE r.code # 0
  <2>1. retries' = retries - 1 /\ pc' = IF retries > 1 THEN pc ELSE "failed"
    BY <1>1, <1>6
  <2>2. ~ clean'
    BY <1>2, <1>6
  <2> QED BY <1>2, <1>3, <2>1, <2>2
<1> QED BY <1>4, <1>5, <1>6

\* An erasure that spares `kept`.
LEMMA ErasedType ==
  ASSUME NEW d \in Device, NEW kept
  PROVE  /\ Erased(d, kept) \in Device
         /\ Erased(d, kept).state = d.state /\ Erased(d, kept).status = d.status
         /\ Erased(d, kept).memory["user"] = d.memory["user"]
         /\ \A a \in 0 .. End - 1 :
              Erased(d, kept).memory["flash"][a] =
                IF a \in Application \ kept THEN Blank ELSE d.memory["flash"][a]
<1> DEFINE flash == [a \in DOMAIN d.memory["flash"] |->
                       IF a \in Application \ kept THEN Blank ELSE d.memory["flash"][a]]
<1>1. /\ d.memory \in [flash : [0 .. End - 1 -> Byte], user : [0 .. UserSize - 1 -> Byte]]
      /\ d.memory["flash"] \in [0 .. End - 1 -> Byte]
  BY DEF Device
<1>2. /\ flash \in [0 .. End - 1 -> Byte]
      /\ \A a \in 0 .. End - 1 :
           flash[a] = IF a \in Application \ kept THEN Blank ELSE d.memory["flash"][a]
  BY <1>1 DEF Byte, Blank
<1>3. Erased(d, kept) = [d EXCEPT !.memory = [d.memory EXCEPT !["flash"] = flash]]
  BY DEF Erased, Device
<1> HIDE DEF flash
<1>4. [d.memory EXCEPT !["flash"] = flash]
        \in [flash : [0 .. End - 1 -> Byte], user : [0 .. UserSize - 1 -> Byte]]
  BY <1>1, <1>2
<1>5. /\ [d.memory EXCEPT !["flash"] = flash]["flash"] = flash
      /\ [d.memory EXCEPT !["flash"] = flash]["user"] = d.memory["user"]
  BY <1>1
<1> QED BY <1>2, <1>3, <1>4, <1>5 DEF Device

\* What is about other commands is left alone.
LEMMA OtherCommands ==
  ASSUME pc' \in Erasing \cup Leaving \cup {"done"}, ~ IsWrite', ~ IsDump'
  PROVE  ImageInv' /\ BlockInv' /\ ChunkInv' /\ BufferInv'
  BY DEF ImageInv, BlockInv, ChunkInv, BufferInv, Erasing, Leaving, Preparing, Writing, Reading

\* erasing the flash,
LEMMA EraseStep == ASSUME IInv, atmel_erase_flash PROVE IInv'
<1>1. /\ pc \in {"erase", "erase_status"}
      /\ UNCHANGED <<args, hex, first, last, mem_page, buffer, sessions, partial>>
  BY DEF atmel_erase_flash
<1>2. /\ TypeOK /\ dev \in Device /\ args.command = "erase" /\ retries \in 1 .. 20
      /\ dev.state # "GONE"
      /\ clean => dev.status = "OK" /\ dev.state \in Ready
  BY <1>1 DEF IInv, TypeOK, CommandInv, RetryInv, CalmInv, IsWrite, Erasing, Ended
<1>3. ~ IsWrite' /\ ~ IsDump'
  BY <1>1, <1>2 DEF IsWrite, IsDump
<1>4. ASSUME dev' \in Device, faults' \in 0 .. MaxFaults, clean' \in BOOLEAN,
             retries' \in 0 .. 20, dev'.state # "GONE",
             pc' \in {"erase_status", "check_select"},
             pc' = "erase_status" => retries' >= 1,
             clean' => dev'.status = "OK" /\ dev'.state \in Ready /\ BlankBelow(End)'
      PROVE  IInv'
  <2>1. TypeOK'
    BY <1>1, <1>2, <1>4 DEF TypeOK
  <2>2. CommandInv' /\ RetryInv'
    BY <1>1, <1>2, <1>4 DEF CommandInv, RetryInv, Ended, Preparing, Erasing, Writing,
                            Reading, Leaving
  <2>3. ImageInv' /\ BlockInv' /\ ChunkInv' /\ BufferInv'
    BY <1>3, <1>4, OtherCommands DEF Erasing
  <2>4. SelectionInv' /\ BlankInv'
    BY <1>4 DEF SelectionInv, BlankInv
  <2>5. CalmInv'
    BY <1>3, <1>4 DEF CalmInv, Erasing
  <2> QED BY <2>1, <2>2, <2>3, <2>4, <2>5 DEF IInv
<1>5. ASSUME dev' \in Device, faults' \in 0 .. MaxFaults, clean' \in BOOLEAN,
             retries' \in 0 .. 20, pc' = "failed", ~ clean'
      PROVE  IInv'
  <2>1. TypeOK'
    BY <1>1, <1>2, <1>5 DEF TypeOK
  <2> QED BY <1>5, <2>1, FailedStep
<1>6. CASE pc = "erase"
  <2>1. retries' = retries
    BY <1>6 DEF atmel_erase_flash
  <2>2. CASE dfu_download(Erased(dev, {}), "erase_status", "failed")
    <3> DEFINE erased == Erased(dev, {})
    <3>1. /\ erased \in Device /\ erased.state = dev.state /\ erased.status = dev.status
          /\ \A a \in 0 .. End - 1 : a \in Application => erased.memory["flash"][a] = Blank
      BY <1>2, ErasedType
    <3>2. dfu_download(erased, "erase_status", "failed")
      BY <2>2
    <3> HIDE DEF erased
    <3>3. /\ dev' \in Device /\ faults' \in 0 .. MaxFaults /\ clean' \in BOOLEAN
          /\ dev'.state = "GONE" => dev.state = "GONE" \/ erased.state = "GONE"
          /\ pc' \in {"erase_status", "failed"}
          /\ pc' = "erase_status" =>
               /\ dev'.memory = erased.memory /\ dev'.status = erased.status
               /\ dev'.state = IF erased.state = "IDLE" THEN "DNLOAD_IDLE" ELSE erased.state
          /\ clean' => clean
          /\ clean' /\ dev.state \in Ready => pc' = "erase_status"
      BY <1>2, <3>1, <3>2, Download
    <3>4. CASE pc' = "failed"
      BY <1>2, <1>5, <2>1, <3>3, <3>4
    <3>5. CASE pc' = "erase_status"
      <4>1. BlankBelow(End)'
        <5>1. \A a \in Application : a \in 0 .. End - 1
          BY Sizes DEF Application
        <5> QED BY <3>1, <3>3, <3>5, <5>1 DEF BlankBelow
      <4> QED BY <1>2, <1>4, <2>1, <3>1, <3>3, <3>5, <4>1 DEF Ready
    <3> QED BY <3>3, <3>4, <3>5
  <2>3. ASSUME NEW a \in Application, Fault({Erased(dev, {a})}, "erase_status")
        PROVE  IInv'
    <3>1. Erased(dev, {a}) \in Device /\ Erased(dev, {a}).state = dev.state
      BY <1>2, ErasedType
    <3>2. dev' = Erased(dev, {a}) /\ pc' = "erase_status" /\ clean' = FALSE
          /\ faults' = faults + 1 /\ faults < MaxFaults
      BY <2>3 DEF Fault, CanFail
    <3>3. faults' \in 0 .. MaxFaults
      BY <1>2, <3>2, DfuProgAssumption DEF TypeOK
    <3>4. clean' \in BOOLEAN /\ ~ clean'
      BY <3>2
    <3>5. dev' \in Device /\ dev'.state # "GONE" /\ retries' \in 1 .. 20
      BY <1>2, <2>1, <3>1, <3>2
    <3> QED BY <1>4, <3>2, <3>3, <3>4, <3>5
  <2> QED BY <1>6, <2>2, <2>3 DEF atmel_erase_flash
<1>7. CASE pc = "erase_status"
  <2>1. AwaitStatus("check_select")
    BY <1>7 DEF atmel_erase_flash
  <2>2. /\ dev' \in Device /\ faults' \in 0 .. MaxFaults /\ clean' \in BOOLEAN
        /\ dev'.memory = dev.memory /\ dev'.status = dev.status
        /\ dev'.state = IF dev.state = "SYNC" THEN "DNLOAD_IDLE" ELSE dev.state
        /\ retries' \in 0 .. 20
        /\ pc' \in {"check_select", "failed", "erase_status"}
        /\ pc' = "erase_status" => retries' >= 1
        /\ clean' => clean /\ (dev.status = "OK" => pc' = "check_select")
    BY <1>2, <1>7, <2>1, Awaited
  <2>3. clean => BlankBelow(End)
    BY <1>7 DEF IInv, CalmInv, Erasing
  <2>4. clean' => BlankBelow(End)'
    BY <2>2, <2>3 DEF BlankBelow
  <2>5. CASE pc' = "failed"
    BY <1>2, <1>5, <2>2, <2>5
  <2>6. CASE pc' # "failed"
    BY <1>2, <1>4, <2>2, <2>4, <2>6 DEF Ready
  <2> QED BY <2>5, <2>6
<1> QED BY <1>1, <1>6, <1>7

\* A blank check of the offsets up to `size` tells whether they are blank.
LEMMA CheckedType ==
  ASSUME NEW d \in Device, NEW size
  PROVE  /\ Checked(d, size) \in Device
         /\ Checked(d, size).unit = d.unit /\ Checked(d, size).page = d.page
         /\ Checked(d, size).memory = d.memory
         /\ \/ /\ Checked(d, size) = d
               /\ \A a \in 0 .. size : Where(d, a) \in Application =>
                                         d.memory["flash"][Where(d, a)] = Blank
            \/ /\ Checked(d, size).state = "ERROR" /\ Checked(d, size).status = "ERROR"
               /\ \E a \in 0 .. size : /\ Where(d, a) \in Application
                                       /\ d.memory["flash"][Where(d, a)] # Blank
<1> DEFINE blank == \A a \in 0 .. size : Where(d, a) \in Application =>
                                           d.memory["flash"][Where(d, a)] = Blank
           error == [d EXCEPT !.state = "ERROR", !.status = "ERROR"]
<1>1. Checked(d, size) = IF blank THEN d ELSE error
  BY DEF Checked
<1>2. /\ error \in Device /\ error.unit = d.unit /\ error.page = d.page
      /\ error.memory = d.memory /\ error.state = "ERROR" /\ error.status = "ERROR"
  BY DEF Device, States
<1> HIDE DEF error
<1>3. CASE blank
  BY <1>1, <1>3
<1>4. CASE ~ blank
  BY <1>1, <1>2, <1>4
<1> QED BY <1>3, <1>4

\* The pages are checked one by one, the last one up to where `first` is at the top.
LEMMA BlankCheckStep == ASSUME IInv, atmel_blank_check PROVE IInv'
<1>1. /\ pc \in {"check_select", "check_page", "check", "check_status"}
      /\ UNCHANGED <<args, hex, last, buffer, sessions, partial>>
  BY DEF atmel_blank_check
<1>2. /\ TypeOK /\ dev \in Device /\ args.command = "erase" /\ dev.state # "GONE"
      /\ retries \in 0 .. 20 /\ mem_page \in 0 .. Pages /\ first \in 0 .. 2 * End
      /\ clean => dev.status = "OK" /\ dev.state \in Ready /\ BlankBelow(End)
  BY <1>1 DEF IInv, TypeOK, CommandInv, CalmInv, IsWrite, Erasing, Ended
<1>3. ~ IsWrite' /\ ~ IsDump' /\ Unit' = "flash" /\ Unit = "flash"
  BY <1>1, <1>2 DEF IsWrite, IsDump, Unit, OnUserPage
<1>4. ASSUME dev' \in Device, faults' \in 0 .. MaxFaults, clean' \in BOOLEAN,
             first' \in 0 .. 2 * End, mem_page' \in 0 .. Pages, retries' \in 0 .. 20,
             dev'.state # "GONE", pc' \in {"check_page", "check", "check_status", "done"},
             pc' = "check_status" => retries' >= 1,
             pc' \in {"check_page", "check"} => dev'.unit = "flash",
             pc' = "check" => dev'.page = mem_page',
             BlankInv',
             clean' => dev'.status = "OK" /\ dev'.state \in Ready /\ dev'.memory = dev.memory,
             clean' => clean
      PROVE  IInv'
  <2>1. TypeOK'
    BY <1>1, <1>2, <1>4 DEF TypeOK
  <2>2. CommandInv' /\ RetryInv'
    BY <1>1, <1>2, <1>4 DEF CommandInv, RetryInv, Ended, Preparing, Erasing, Writing,
                            Reading, Leaving
  <2>3. ImageInv' /\ BlockInv' /\ ChunkInv' /\ BufferInv'
    BY <1>3, <1>4, OtherCommands DEF Erasing
  <2>4. SelectionInv'
    BY <1>3, <1>4 DEF SelectionInv
  <2>5. clean' => BlankBelow(End)'
    BY <1>2, <1>4 DEF BlankBelow
  <2>6. CalmInv'
    BY <1>4, <2>5 DEF CalmInv
  <2> QED BY <1>4, <2>1, <2>2, <2>3, <2>4, <2>6 DEF IInv
<1>5. ASSUME dev' \in Device, faults' \in 0 .. MaxFaults, clean' \in BOOLEAN,
             first' \in 0 .. 2 * End, mem_page' \in 0 .. Pages, retries' \in 0 .. 20,
             pc' = "failed", ~ clean'
      PROVE  IInv'
  <2>1. TypeOK'
    BY <1>1, <1>2, <1>5 DEF TypeOK
  <2> QED BY <1>5, <2>1, FailedStep
<1>6. CASE pc = "check_select"
  <2> DEFINE next == [dev EXCEPT !.unit = "flash"]
  <2>1. next \in Device /\ next.unit = "flash" /\ next.memory = dev.memory
        /\ next.state = dev.state /\ next.status = dev.status
    BY <1>2 DEF Device
  <2>2. /\ dfu_download(next, "check_page", "failed")
        /\ first' = BootSize /\ mem_page' = 0 /\ retries' = retries
    BY <1>6 DEF atmel_blank_check
  <2> HIDE DEF next
  <2>3. /\ dev' \in Device /\ faults' \in 0 .. MaxFaults /\ clean' \in BOOLEAN
        /\ dev'.memory \in {dev.memory, next.memory}
        /\ dev'.state = "GONE" => dev.state = "GONE" \/ next.state = "GONE"
        /\ pc' \in {"check_page", "failed"}
        /\ pc' = "check_page" =>
             /\ dev'.unit = next.unit /\ dev'.status = next.status
             /\ dev'.state = IF next.state = "IDLE" THEN "DNLOAD_IDLE" ELSE next.state
        /\ clean' => clean
        /\ clean' /\ dev.state \in Ready => pc' = "check_page"
    BY <1>2, <2>1, <2>2, Download
  <2>4. /\ first' \in 0 .. 2 * End /\ mem_page' \in 0 .. Pages
        /\ first' = BootSize + mem_page' * PageSize /\ first' < End - 1
        /\ mem_page' * PageSize = 0
    BY <2>2, Sizes
  <2>5. BlankBelow(mem_page * PageSize)'
    <3>1. \A a \in Application : ~ (a < 0)
      BY Sizes DEF Application
    <3> QED BY <2>4, <3>1 DEF BlankBelow
  <2>6. CASE pc' = "failed"
    BY <1>2, <1>5, <2>2, <2>3, <2>4, <2>6
  <2>7. CASE pc' = "check_page"
    <3>1. BlankInv'
      BY <2>4, <2>5, <2>7 DEF BlankInv
    <3> QED BY <1>2, <1>4, <2>1, <2>2, <2>3, <2>4, <2>7, <3>1 DEF Ready
  <2> QED BY <2>3, <2>6, <2>7
<1>7. CASE pc = "check_page"
  <2> DEFINE next == [dev EXCEPT !.page = mem_page]
  <2>1. next \in Device /\ next.unit = dev.unit /\ next.memory = dev.memory
        /\ next.state = dev.state /\ next.status = dev.status /\ next.page = mem_page
    BY <1>2 DEF Device
  <2>2. dfu_download(next, "check", "failed") /\ UNCHANGED <<first, mem_page, retries>>
    BY <1>7 DEF atmel_blank_check
  <2> HIDE DEF next
  <2>3. /\ dev' \in Device /\ faults' \in 0 .. MaxFaults /\ clean' \in BOOLEAN
        /\ dev'.memory \in {dev.memory, next.memory}
        /\ dev'.state = "GONE" => dev.state = "GONE" \/ next.state = "GONE"
        /\ pc' \in {"check", "failed"}
        /\ pc' = "check" =>
             /\ dev.state \in Ready /\ dev'.unit = next.unit /\ dev'.page = next.page
             /\ dev'.status = next.status
             /\ dev'.state = IF next.state = "IDLE" THEN "DNLOAD_IDLE" ELSE next.state
        /\ clean' => clean
        /\ clean' /\ dev.state \in Ready => pc' = "check"
    BY <1>2, <2>1, <2>2, Download
  <2>4. /\ first = BootSize + mem_page * PageSize /\ first < End - 1
        /\ dev.state = "ERROR" \/ BlankBelow(mem_page * PageSize)
        /\ dev.unit = "flash"
    BY <1>3, <1>7 DEF IInv, BlankInv, SelectionInv
  <2>5. CASE pc' = "failed"
    BY <1>2, <1>5, <2>2, <2>3, <2>5
  <2>6. CASE pc' = "check"
    <3>1. BlankBelow(mem_page * PageSize)
      BY <2>3, <2>4, <2>6 DEF Ready
    <3>2. BlankBelow(mem_page * PageSize)' /\ UNCHANGED <<first, mem_page>>
      BY <2>1, <2>2, <2>3, <3>1 DEF BlankBelow
    <3>3. BlankInv'
      BY <2>4, <2>6, <3>2 DEF BlankInv
    <3> QED BY <1>2, <1>4, <2>1, <2>2, <2>3, <2>4, <2>6, <3>3 DEF Ready
  <2> QED BY <2>3, <2>5, <2>6
<1>8. CASE pc = "check"
  <2> DEFINE size == CheckSize(first)
             next == Checked(dev, size)
             ok   == IF first + size + 1 < End - 1 THEN "check_page" ELSE "check_status"
             low  == mem_page * PageSize
             BlankAfter(n) == \A a \in Application : a < n => dev'.memory["flash"][a] = Blank
  <2>1. /\ dfu_download(next, ok, "failed")
        /\ first' = first + size + 1 /\ mem_page' = mem_page + 1 /\ retries' = 20
    BY <1>8 DEF atmel_blank_check
  <2>2. /\ first = BootSize + low /\ first < End - 1
        /\ dev.state = "ERROR" \/ BlankBelow(low)
        /\ dev.unit = "flash" /\ dev.page = mem_page
    BY <1>2, <1>3, <1>8 DEF IInv, BlankInv, SelectionInv, OnUserPage
  <2>3. size = IF End - 1 - first < PageSize - 1 THEN End - 1 - first ELSE PageSize - 1
    BY DEF CheckSize, Least
  <2>4. \A a : Where(dev, a) = low + a
    BY <2>2 DEF Where
  <2>5. /\ next \in Device /\ next.unit = dev.unit /\ next.memory = dev.memory
        /\ \/ /\ next = dev
              /\ \A a \in 0 .. size : Where(dev, a) \in Application =>
                                        dev.memory["flash"][Where(dev, a)] = Blank
           \/ /\ next.state = "ERROR" /\ next.status = "ERROR"
              /\ \E a \in 0 .. size : /\ Where(dev, a) \in Application
                                      /\ dev.memory["flash"][Where(dev, a)] # Blank
    BY <1>2, CheckedType
  <2>6. ok \in {"check_page", "check_status"}
    OBVIOUS
  <2> HIDE DEF next, ok, size
  <2>7. /\ dev' \in Device /\ faults' \in 0 .. MaxFaults /\ clean' \in BOOLEAN
        /\ dev'.memory \in {dev.memory, next.memory}
        /\ dev'.state = "GONE" => dev.state = "GONE" \/ next.state = "GONE"
        /\ pc' \in {ok, "failed"}
        /\ pc' = ok =>
             /\ dev.state \in Ready /\ dev'.unit = next.unit /\ dev'.status = next.status
             /\ dev'.state = IF next.state = "IDLE" THEN "DNLOAD_IDLE" ELSE next.state
        /\ clean' => clean
        /\ clean' /\ dev.state \in Ready => pc' = ok
    <3>1. ok # "failed" /\ TypeOK
      BY <1>2, <2>6
    <3> QED BY <3>1, <2>1, <2>5, Download
  <2>8. /\ low \in Nat /\ (mem_page + 1) * PageSize = low + PageSize
        /\ mem_page < Pages /\ low + PageSize <= End
        /\ mem_page + 1 < Pages => low + 2 * PageSize <= End
        /\ mem_page + 1 \in 0 .. Pages
    <3>1. mem_page \in Nat /\ mem_page + 1 \in Nat
      BY <1>2, Sizes
    <3>2. /\ low \in Nat /\ (mem_page + 1) * PageSize = low + PageSize
          /\ low < End => mem_page < Pages
          /\ mem_page < Pages => low + PageSize <= End
          /\ mem_page + 1 < Pages => (mem_page + 1) * PageSize + PageSize <= End
      BY <3>1, WholePages
    <3>3. low < End
      BY <2>2, <3>2, Sizes
    <3> HIDE DEF low
    <3> QED BY <1>2, <3>1, <3>2, <3>3, Sizes
  <2> HIDE DEF low
  <2>9. /\ mem_page + 1 = Pages => low + PageSize = End
        /\ size \in Nat /\ first' \in 0 .. 2 * End /\ mem_page' \in 0 .. Pages
        /\ mem_page' * PageSize = low + PageSize
        /\ first' < End - 1 => size = PageSize - 1 /\ first' = BootSize + low + PageSize
        /\ ~ (first' < End - 1) => low + size + 1 >= End - BootSize
    <3>1. mem_page + 1 = Pages => low + PageSize = End
      BY <2>8 DEF End
    <3>2. /\ PageSize \in Nat /\ PageSize > 2 /\ BootSize \in Nat /\ BootSize + 2 <= PageSize
          /\ End \in Nat /\ 2 * PageSize <= End
      BY Sizes
    <3>3. /\ first \in Nat /\ size \in Nat /\ first + size + 1 <= End
      BY <2>2, <2>3, <2>8, <3>2
    <3>4. first' < End - 1 => size = PageSize - 1 /\ first' = BootSize + low + PageSize
      BY <2>1, <2>2, <2>3, <2>8, <3>2
    <3>5. mem_page + 1 < Pages => size = PageSize - 1 /\ first' = BootSize + low + PageSize
                                    /\ low + 2 * PageSize <= End
      BY <2>1, <2>2, <2>3, <2>8, <3>2
    <3>6. mem_page + 1 < Pages \/ mem_page + 1 = Pages
      BY <2>8, Sizes
    <3>7. ~ (first' < End - 1) => low + size + 1 >= End - BootSize
      BY <2>1, <2>2, <2>3, <2>8, <3>1, <3>2, <3>5, <3>6
    <3>8. first' \in 0 .. 2 * End /\ mem_page' \in 0 .. Pages
      BY <2>1, <2>8, <3>2, <3>3
    <3>9. mem_page' * PageSize = low + PageSize
      BY <2>1, <2>8
    <3> QED BY <3>1, <3>3, <3>4, <3>7, <3>8, <3>9
  <2>10. ASSUME clean' PROVE next = dev
    <3>1. clean /\ BlankBelow(End)
      BY <1>2, <2>7, <2>10
    <3>2. \A a \in Application : dev.memory["flash"][a] = Blank
      BY <3>1, Sizes DEF BlankBelow, Application
    <3> QED BY <2>5, <3>2
  <2>11. ASSUME pc' = ok, dev'.state # "ERROR" PROVE BlankAfter(low + size + 1)
    <3>1. next = dev /\ BlankBelow(low)
      BY <2>2, <2>5, <2>7, <2>11 DEF Ready
    <3>2. \A a \in 0 .. size : low + a \in Application => dev.memory["flash"][low + a] = Blank
      BY <2>4, <2>5, <2>7, <2>11
    <3>3. SUFFICES ASSUME NEW a \in Application, a < low + size + 1
                   PROVE  dev.memory["flash"][a] = Blank
      BY <2>5, <2>7
    <3>4. a \in Nat
      BY Sizes DEF Application
    <3>5. CASE a < low
      BY <3>1, <3>5 DEF BlankBelow
    <3>6. CASE ~ (a < low)
      <4>1. a - low \in 0 .. size /\ low + (a - low) = a
        BY <2>8, <2>9, <3>3, <3>4, <3>6
      <4> QED BY <3>2, <4>1
    <3> QED BY <3>5, <3>6
  <2>12. CASE pc' = "failed"
    <3>1. retries' \in 0 .. 20 /\ ~ clean'
      BY <1>2, <2>1, <2>6, <2>7, <2>12
    <3> QED BY <1>5, <2>7, <2>9, <2>12, <3>1
  <2>13. CASE pc' = ok
    <3>1. ok = IF first' < End - 1 THEN "check_page" ELSE "check_status"
      BY <2>1 DEF ok
    <3>2. ASSUME pc' = "check_page"
          PROVE  /\ first' = BootSize + mem_page' * PageSize /\ first' < End - 1
                 /\ dev'.state = "ERROR" \/ BlankAfter(mem_page' * PageSize)
      <4>1. first' < End - 1
        BY <2>13, <3>1, <3>2
      <4>2. low + size + 1 = mem_page' * PageSize /\ first' = BootSize + mem_page' * PageSize
        <5>1. size = PageSize - 1 /\ first' = BootSize + low + PageSize
          BY <2>9, <4>1
        <5>2. /\ low + size + 1 = low + PageSize
              /\ BootSize + low + PageSize = BootSize + (low + PageSize)
          BY <2>8, <5>1, Sizes
        <5> QED BY <2>9, <5>1, <5>2
      <4> QED BY <2>11, <2>13, <4>1, <4>2
    <3>3. ASSUME pc' = "check_status"
          PROVE  dev'.status = "ERROR" \/ BlankAfter(End - BootSize)
      <4>1. low + size + 1 >= End - BootSize
        BY <2>9, <2>13, <3>1, <3>3
      <4>2. dev'.status = "ERROR" \/ BlankAfter(low + size + 1)
        BY <2>5, <2>7, <2>11, <2>13 DEF Ready
      <4>3. \A a \in Application : a < End - BootSize => a < low + size + 1
        BY <2>8, <2>9, <4>1, Sizes DEF Application
      <4> QED BY <4>2, <4>3
    <3>4. BlankInv'
      BY <2>6, <2>13, <3>2, <3>3 DEF BlankInv, BlankBelow
    <3>5. /\ dev'.state # "GONE" /\ retries' \in 1 .. 20
          /\ pc' \in {"check_page", "check_status"} /\ dev'.unit = "flash"
      BY <1>2, <2>1, <2>2, <2>5, <2>6, <2>7, <2>13
    <3>6. clean' => dev'.status = "OK" /\ dev'.state \in Ready /\ dev'.memory = dev.memory
      BY <1>2, <2>7, <2>10, <2>13 DEF Ready
    <3> QED BY <1>4, <2>7, <2>9, <3>4, <3>5, <3>6
  <2> QED BY <2>7, <2>12, <2>13
<1>9. CASE pc = "check_status"
  <2>1. AwaitStatus("done") /\ UNCHANGED <<first, mem_page>>
    BY <1>9 DEF atmel_blank_check
  <2>2. retries \in 1 .. 20
    BY <1>2, <1>9 DEF IInv, RetryInv
  <2>3. /\ dev' \in Device /\ faults' \in 0 .. MaxFaults /\ clean' \in BOOLEAN
        /\ dev'.memory = dev.memory /\ dev'.status = dev.status
        /\ dev'.state = IF dev.state = "SYNC" THEN "DNLOAD_IDLE" ELSE dev.state
        /\ retries' \in 0 .. 20
        /\ pc' \in {"done", "failed", "check_status"}
        /\ pc' = "check_status" => retries' >= 1
        /\ pc' = "done" => dev.status = "OK"
        /\ clean' => clean /\ (dev.status = "OK" => pc' = "done")
    BY <1>2, <1>9, <2>1, <2>2, Awaited
  <2>4. dev.status = "ERROR" \/ BlankBelow(End - BootSize)
    BY <1>9 DEF IInv, BlankInv
  <2>5. BlankInv'
    BY <1>9, <2>3, <2>4 DEF BlankInv, BlankBelow
  <2>6. CASE pc' = "failed"
    BY <1>2, <1>5, <2>1, <2>3, <2>6
  <2>7. CASE pc' # "failed"
    BY <1>2, <1>4, <2>1, <2>3, <2>5, <2>7 DEF Ready
  <2> QED BY <2>6, <2>7
<1> QED BY <1>1, <1>6, <1>7, <1>8, <1>9

\* A step of a write that does not fail and keeps what the device has selected and
\* the place in the image that the block comes from.
LEMMA WritingStep ==
  ASSUME IInv, pc \in Writing,
         UNCHANGED <<args, hex, retries, buffer, sessions, partial>>,
         dev' \in Device, faults' \in 0 .. MaxFaults, clean' \in BOOLEAN, clean' => clean,
         first' \in 0 .. 2 * End, last' \in 0 .. End, mem_page' \in 0 .. Pages,
         dev'.state # "GONE",
         pc' \in Writing \cup {"read_select"} \/ (pc' = "done" /\ args.suppress),
         pc' \in {"select_page0", "find", "next_page", "reselect"} => args.command = "flash",
         SelectionInv', BlockInv'
  PROVE  IInv'
<1>1. IsWrite /\ IsWrite' /\ ~ IsDump' /\ args'.command # "erase"
  BY DEF IInv, CommandInv, IsWrite, IsDump
<1>2. TypeOK'
  BY DEF IInv, TypeOK
<1>3. CommandInv' /\ RetryInv'
  BY <1>1 DEF CommandInv, RetryInv, Ended, Preparing, Erasing, Writing, Reading, Leaving
<1>4. ImageInv'
  BY <1>1 DEF IInv, ImageInv, Area, Bottom, Top
<1>5. ChunkInv' /\ BlankInv' /\ CalmInv'
  BY <1>1 DEF ChunkInv, BlankInv, CalmInv, Writing, Erasing, Reading, Leaving
<1>6. Copied(Bottom)'
  <2>1. Area' = Area /\ Bottom' = Bottom
    BY DEF Area, Bottom, Top
  <2>2. \A a \in Area : ~ (a < Bottom)
    BY Sizes DEF Area, Bottom, Top
  <2>3. Copied(Bottom)
    BY DEF IInv, BufferInv
  <2> QED BY <1>1, <2>1, <2>2, <2>3 DEF Copied
<1>7. BufferInv'
  BY <1>1, <1>6 DEF BufferInv, Preparing, Writing, Reading
<1> QED BY <1>2, <1>3, <1>4, <1>5, <1>7 DEF IInv

\* A write that fails.
LEMMA WriteFails ==
  ASSUME IInv, pc \in Writing, pc' = "failed",
         UNCHANGED <<args, hex, retries, buffer, sessions, partial>>,
         dev' \in Device, faults' \in 0 .. MaxFaults, clean' \in BOOLEAN,
         first' \in 0 .. 2 * End, last' \in 0 .. End, mem_page' \in 0 .. Pages
  PROVE  IInv'
<1>1. TypeOK'
  BY DEF IInv, TypeOK
<1>2. IsWrite'
  BY DEF IInv, CommandInv, IsWrite
<1> QED BY <1>1, <1>2, FailedStep

\* The memory and the page that a write is about are selected.
LEMMA SelectStep == ASSUME IInv, atmel_select PROVE IInv'
<1>1. /\ pc \in {"select", "select_page0"}
      /\ UNCHANGED <<args, hex, mem_page, retries, buffer, sessions, partial>>
  BY DEF atmel_select
<1>2. /\ TypeOK /\ dev \in Device /\ dev.state # "GONE" /\ mem_page = 0 /\ pc \in Writing
      /\ first \in 0 .. 2 * End /\ last \in 0 .. End /\ mem_page \in 0 .. Pages
      /\ pc = "select_page0" => args.command = "flash"
  BY <1>1 DEF IInv, TypeOK, CommandInv, BlockInv, Ended, Writing
<1>3. ASSUME NEW next \in Device, next.state = dev.state,
             NEW ok \in {"select_page0", "find", "block"},
             dfu_download(next, ok, "failed"),
             first' \in 0 .. 2 * End, last' \in 0 .. End,
             ok # "block" => args.command = "flash" /\ next.unit = "flash",
             ok = "find" => next.page = 0 /\ first' = BootSize,
             ok = "block" => args.command = "user" /\ next.unit = "user" /\ first' = 0
                             /\ last' = UserSize
      PROVE  IInv'
  <2>1. /\ dev' \in Device /\ faults' \in 0 .. MaxFaults /\ clean' \in BOOLEAN
        /\ dev'.state = "GONE" => dev.state = "GONE" \/ next.state = "GONE"
        /\ pc' \in {ok, "failed"}
        /\ pc' = ok => dev'.unit = next.unit /\ dev'.page = next.page
        /\ clean' => clean
    BY <1>2, <1>3, Download
  <2>2. CASE pc' = "failed"
    BY <1>1, <1>2, <1>3, <2>1, <2>2, WriteFails DEF IInv
  <2>3. CASE pc' = ok
    <3>1. SelectionInv'
      BY <1>1, <1>2, <1>3, <2>1, <2>3 DEF SelectionInv, Unit, OnUserPage
    <3>2. BlockInv'
      <4>1. 0 * PageSize = 0 /\ BootSize \in Nat /\ UserSize > 0 /\ mem_page' = 0
        BY <1>1, <1>2, Sizes
      <4>2. CASE ok \in {"select_page0", "find"}
        <5>1. mem_page' * PageSize = 0
          BY <4>1
        <5>2. ok = "find" => mem_page' * PageSize <= first'
          BY <1>3, <4>1, <5>1
        <5> QED BY <2>3, <4>1, <4>2, <5>2 DEF BlockInv
      <4>3. CASE ok = "block"
        <5>1. args'.command = "user" /\ Top' = UserSize
          BY <1>1, <1>3, <4>3 DEF Top, OnUserPage
        <5>2. first' < last' /\ last' <= Top'
          BY <1>3, <4>1, <4>3, <5>1, Sizes
        <5> QED BY <2>3, <4>3, <5>1, <5>2 DEF BlockInv
      <4> QED BY <4>2, <4>3
    <3>3. pc' \in Writing
      BY <1>3, <2>3 DEF Writing
    <3> QED BY <1>1, <1>2, <1>3, <2>1, <2>3, <3>1, <3>2, <3>3, WritingStep
  <2> QED BY <2>1, <2>2, <2>3
<1>4. CASE pc = "select" /\ args.command = "flash"
  <2> DEFINE next == [dev EXCEPT !.unit = "flash"]
  <2>1. next \in Device /\ next.state = dev.state /\ next.unit = "flash"
    BY <1>2 DEF Device
  <2>2. dfu_download(next, "select_page0", "failed") /\ UNCHANGED <<first, last>>
    BY <1>4 DEF atmel_select
  <2> HIDE DEF next
  <2> QED BY <1>2, <1>3, <1>4, <2>1, <2>2
<1>5. CASE pc = "select_page0"
  <2> DEFINE next == [dev EXCEPT !.page = 0]
  <2>1. next \in Device /\ next.state = dev.state /\ next.page = 0 /\ next.unit = dev.unit
    BY <1>2 DEF Device
  <2>2. dfu_download(next, "find", "failed") /\ first' = BootSize /\ last' = last
    BY <1>5 DEF atmel_select
  <2>3. BootSize \in 0 .. 2 * End
    BY Sizes
  <2>4. next.unit = "flash"
    BY <1>2, <1>5, <2>1 DEF IInv, SelectionInv, Unit, OnUserPage
  <2> HIDE DEF next
  <2> QED BY <1>2, <1>3, <1>5, <2>1, <2>2, <2>3, <2>4
<1>6. CASE pc = "select" /\ args.command = "user"
  <2> DEFINE next == [dev EXCEPT !.unit = "user"]
  <2>1. next \in Device /\ next.state = dev.state /\ next.unit = "user"
    BY <1>2 DEF Device
  <2>2. dfu_download(next, "block", "failed") /\ first' = 0 /\ last' = UserSize
    BY <1>6 DEF atmel_select
  <2>3. 0 \in 0 .. 2 * End /\ UserSize \in 0 .. End
    BY Sizes
  <2> HIDE DEF next
  <2> QED BY <1>2, <1>3, <1>6, <2>1, <2>2, <2>3
<1> QED BY <1>4, <1>5, <1>6 DEF atmel_select

\* The next run of set bytes, or its part on the page that is selected.
LEMMA FindStep == ASSUME IInv, FindBlock PROVE IInv'
<1> DEFINE valid == {a \in DOMAIN hex : a >= first /\ a < End}
           from  == Min(valid)
           stops == {a \in from .. End : a \notin DOMAIN hex \/ a = End}
           to    == Min(stops)
           edge  == PageSize * (1 + mem_page)
           low   == mem_page * PageSize
<1>1. /\ pc = "find" /\ pc \in Writing
      /\ UNCHANGED <<dev, args, hex, retries, buffer, faults, sessions, clean, partial>>
  BY DEF FindBlock, Writing
<1>2. /\ TypeOK /\ dev \in Device /\ dev.state # "GONE" /\ args.command = "flash"
      /\ first \in 0 .. 2 * End /\ last \in 0 .. End /\ mem_page \in 0 .. Pages
      /\ DOMAIN hex \subseteq 0 .. End - 1
      /\ faults \in 0 .. MaxFaults /\ clean \in BOOLEAN
      /\ low <= first /\ dev.unit = Unit /\ dev.page = mem_page
  BY <1>1 DEF IInv, TypeOK, CommandInv, BlockInv, SelectionInv, Ended, OnUserPage
<1>3. Unit' = Unit /\ Top' = Top /\ Top = End
  BY <1>1, <1>2 DEF Unit, Top, OnUserPage
<1>4. CASE valid = {}
  <2>1. /\ pc' = IF mem_page > 0 THEN "reselect" ELSE Verify
        /\ first' = End /\ UNCHANGED <<last, mem_page>>
    BY <1>4 DEF FindBlock
  <2>2. /\ pc' \in Writing \cup {"read_select"} \/ (pc' = "done" /\ args.suppress)
        /\ pc' \in {"reselect", "read_select", "done"}
    BY <2>1 DEF Verify, Writing
  <2>3. SelectionInv' /\ BlockInv'
    BY <1>1, <1>2, <1>3, <2>2 DEF SelectionInv, BlockInv
  <2>4. first' \in 0 .. 2 * End
    BY <2>1, Sizes
  <2> QED BY <1>1, <1>2, <2>1, <2>2, <2>3, <2>4, WritingStep
<1>5. CASE valid # {}
  <2>1. /\ first' = from
        /\ last' = IF edge <= to /\ from < edge THEN edge ELSE to
        /\ IF edge <= to /\ from >= edge
           THEN pc' = "next_page" /\ mem_page' = mem_page + 1
           ELSE pc' = "block" /\ UNCHANGED mem_page
    BY <1>5 DEF FindBlock
  <2>2. from \in valid
    <3>1. valid \subseteq Nat
      BY <1>2
    <3> HIDE DEF valid
    <3> QED BY <1>5, <3>1, LeastElement
  <2>3. from \in DOMAIN hex /\ first <= from /\ from < End /\ from \in Nat /\ End \in Nat
    BY <1>2, <2>2, Sizes
  <2> HIDE DEF from
  <2>4. to \in stops /\ \A a \in stops : to <= a
    <3>1. stops \subseteq Nat /\ End \in stops
      BY <2>3
    <3>2. stops # {}
      BY <3>1
    <3> HIDE DEF stops
    <3> QED BY <3>1, <3>2, LeastElement
  <2>5. /\ to \in Nat /\ from < to /\ to <= End
        /\ \A a \in from .. to - 1 : a \in DOMAIN hex
    <3>1. to \in from .. End /\ (to \notin DOMAIN hex \/ to = End)
      BY <2>4
    <3>2. ASSUME NEW a \in from .. to - 1 PROVE a \in DOMAIN hex
      <4>1. a \in from .. End /\ ~ (to <= a)
        BY <2>3, <3>1
      <4> QED BY <2>4, <4>1
    <3> HIDE DEF to
    <3> QED BY <2>3, <3>1, <3>2
  <2> HIDE DEF to, valid
  <2>6. /\ edge = low + PageSize /\ low \in Nat /\ PageSize \in Nat
        /\ edge < End => mem_page + 1 < Pages
    <3>1. mem_page \in Nat /\ mem_page + 1 \in Nat
      BY <1>2
    <3>2. /\ low \in Nat /\ (mem_page + 1) * PageSize = low + PageSize
          /\ (mem_page + 1) * PageSize < End => mem_page + 1 < Pages
      BY <3>1, WholePages
    <3>3. edge = (mem_page + 1) * PageSize /\ PageSize \in Nat
      BY <3>1, Sizes
    <3> QED BY <3>2, <3>3
  <2>7. (mem_page + 1) * PageSize = edge
    BY <1>2, Sizes
  <2> HIDE DEF edge, low
  <2>8. first' \in 0 .. 2 * End
    BY <2>1, <2>3
  <2>9. CASE edge <= to /\ from >= edge
    <3>1. /\ pc' = "next_page" /\ mem_page' = mem_page + 1 /\ last' = to
      BY <2>1, <2>3, <2>6, <2>9
    <3>2. mem_page' \in 0 .. Pages /\ last' \in 0 .. End
      BY <1>2, <2>3, <2>5, <2>6, <2>9, <3>1, Sizes
    <3>3. mem_page' * PageSize <= first'
      BY <2>1, <2>7, <2>9, <3>1
    <3>4. SelectionInv' /\ BlockInv'
      BY <1>1, <1>2, <1>3, <3>1, <3>3 DEF SelectionInv, BlockInv
    <3>5. pc' \in Writing
      BY <3>1 DEF Writing
    <3> QED BY <1>1, <1>2, <2>8, <3>1, <3>2, <3>4, <3>5, WritingStep
  <2>10. CASE ~ (edge <= to /\ from >= edge)
    <3>1. /\ pc' = "block" /\ mem_page' = mem_page
          /\ first' < last' /\ last' <= to /\ last' <= edge /\ last' \in Nat
      BY <2>1, <2>3, <2>5, <2>6, <2>10
    <3>2. last' \in 0 .. End
      BY <2>3, <2>5, <3>1
    <3>3. /\ mem_page' * PageSize = low /\ low <= first'
          /\ last' <= low + PageSize
      <4>1. mem_page' * PageSize = low
        BY <3>1 DEF low
      <4>2. low <= first'
        <5>1. low <= first /\ first \in Nat
          BY <1>2, Sizes
        <5> QED BY <2>1, <2>3, <2>6, <5>1
      <4>3. last' <= low + PageSize
        BY <2>6, <3>1
      <4> QED BY <4>1, <4>2, <4>3
    <3>4. first' .. last' - 1 \subseteq DOMAIN hex'
      <4>1. ASSUME NEW a \in first' .. last' - 1 PROVE a \in from .. to - 1
        BY <2>1, <2>3, <2>5, <3>1
      <4> QED BY <1>1, <2>5, <4>1
    <3>5. BlockInv'
      <4>1. last' <= Top'
        BY <1>3, <2>3, <3>2
      <4> QED BY <3>1, <3>3, <3>4, <4>1 DEF BlockInv
    <3>6. SelectionInv'
      BY <1>1, <1>2, <1>3, <3>1 DEF SelectionInv
    <3>7. pc' \in Writing
      BY <3>1 DEF Writing
    <3> QED BY <1>1, <1>2, <2>8, <3>1, <3>2, <3>5, <3>6, <3>7, WritingStep
  <2> QED BY <2>9, <2>10
<1> QED BY <1>4, <1>5

\* selecting a page,
LEMMA SelectPageStep == ASSUME IInv, atmel_select_page PROVE IInv'
<1> DEFINE next(page) == [dev EXCEPT !.page = page]
<1>1. /\ pc \in {"next_page", "reselect"}
      /\ UNCHANGED <<args, hex, first, last, mem_page, retries, buffer, sessions, partial>>
      /\ \/ pc = "next_page" /\ dfu_download(next(mem_page), "find", "failed")
         \/ pc = "reselect"  /\ dfu_download(next(0), Verify, "failed")
  BY DEF atmel_select_page, loops
<1>2. /\ TypeOK /\ dev \in Device /\ dev.state # "GONE" /\ pc \in Writing
      /\ args.command = "flash"
      /\ first \in 0 .. 2 * End /\ last \in 0 .. End /\ mem_page \in 0 .. Pages
      /\ dev.unit = Unit /\ (pc = "next_page" => mem_page * PageSize <= first)
  BY <1>1 DEF IInv, TypeOK, CommandInv, BlockInv, SelectionInv, Ended, Writing
<1>3. 0 \in 0 .. Pages
  BY Sizes
<1>4. ASSUME NEW page \in 0 .. Pages
      PROVE  /\ next(page) \in Device /\ next(page).state = dev.state
             /\ next(page).unit = dev.unit /\ next(page).page = page
  BY <1>2 DEF Device
<1> HIDE DEF next
<1>5. Unit' = Unit
  BY <1>1 DEF Unit
<1>6. CASE pc = "next_page"
  <2>1. /\ dev' \in Device /\ faults' \in 0 .. MaxFaults /\ clean' \in BOOLEAN
        /\ dev'.state = "GONE" => dev.state = "GONE" \/ next(mem_page).state = "GONE"
        /\ pc' \in {"find", "failed"}
        /\ pc' = "find" => dev'.unit = next(mem_page).unit /\ dev'.page = next(mem_page).page
        /\ clean' => clean
    BY <1>1, <1>2, <1>4, <1>6, Download
  <2>2. CASE pc' = "failed"
    BY <1>1, <1>2, <2>1, <2>2, WriteFails
  <2>3. CASE pc' = "find"
    <3>1. dev'.unit = Unit' /\ dev'.page = mem_page' /\ dev'.state # "GONE"
      BY <1>1, <1>2, <1>4, <1>5, <2>1, <2>3
    <3>2. SelectionInv' /\ BlockInv'
      BY <1>1, <1>2, <1>6, <2>3, <3>1 DEF SelectionInv, BlockInv
    <3>3. pc' \in Writing
      BY <2>3 DEF Writing
    <3> QED BY <1>1, <1>2, <2>1, <2>3, <3>1, <3>2, <3>3, WritingStep
  <2> QED BY <2>1, <2>2, <2>3
<1>7. CASE pc = "reselect"
  <2>1. Verify # "failed" /\ (Verify = "read_select" \/ (Verify = "done" /\ args.suppress))
    BY DEF Verify
  <2>2. /\ dev' \in Device /\ faults' \in 0 .. MaxFaults /\ clean' \in BOOLEAN
        /\ dev'.state = "GONE" => dev.state = "GONE" \/ next(0).state = "GONE"
        /\ pc' \in {Verify, "failed"}
        /\ clean' => clean
    BY <1>1, <1>2, <1>3, <1>4, <1>7, <2>1, Download
  <2>3. CASE pc' = "failed"
    BY <1>1, <1>2, <2>2, <2>3, WriteFails
  <2>4. CASE pc' # "failed"
    <3>1. pc' = "read_select" \/ (pc' = "done" /\ args.suppress)
      BY <2>1, <2>2, <2>4
    <3>2. SelectionInv' /\ BlockInv'
      BY <3>1 DEF SelectionInv, BlockInv
    <3> QED BY <1>1, <1>2, <1>3, <1>4, <2>2, <3>1, <3>2, WritingStep
  <2> QED BY <2>3, <2>4
<1> QED BY <1>1, <1>6, <1>7

\* What programming the bytes from a place of the page on makes of the byte at an address.
ByteWritten(d, from, bytes, a) ==
  \/ /\ Programmed(d, from, bytes).memory[d.unit][a] = d.memory[d.unit][a]
     /\ \A i \in 1 .. Len(bytes) : a # Where(d, (from + i - 1) % PageSize)
  \/ \E i \in 1 .. Len(bytes) :
       /\ a = Where(d, (from + i - 1) % PageSize)
       /\ Programmed(d, from, bytes).memory[d.unit][a] = d.memory[d.unit][a] \cap bytes[i]

\* Programming the bytes changes the memory that is selected, at their addresses.
LEMMA ProgrammedType ==
  ASSUME NEW d \in Device, NEW from, NEW bytes
  PROVE  /\ Programmed(d, from, bytes) \in Device
         /\ Programmed(d, from, bytes).state = d.state
         /\ Programmed(d, from, bytes).status = d.status
         /\ Programmed(d, from, bytes).unit = d.unit
         /\ Programmed(d, from, bytes).page = d.page
         /\ \A unit \in {"flash", "user"} : unit # d.unit =>
              Programmed(d, from, bytes).memory[unit] = d.memory[unit]
         /\ \A a \in DOMAIN d.memory[d.unit] : ByteWritten(d, from, bytes, a)
<1> DEFINE value(a) == IF \E i \in 1 .. Len(bytes) : a = Where(d, (from + i - 1) % PageSize)
                       THEN d.memory[d.unit][a] \cap
                              bytes[CHOOSE i \in 1 .. Len(bytes) :
                                      a = Where(d, (from + i - 1) % PageSize)]
                       ELSE d.memory[d.unit][a]
           bytesAfter == [a \in DOMAIN d.memory[d.unit] |-> value(a)]
           after == [d.memory EXCEPT ![d.unit] = bytesAfter]
<1>1. \A a \in DOMAIN d.memory[d.unit] : value(a) \subseteq d.memory[d.unit][a]
  OBVIOUS
<1>2. ASSUME NEW a \in DOMAIN d.memory[d.unit]
      PROVE  \/ /\ value(a) = d.memory[d.unit][a]
                /\ \A i \in 1 .. Len(bytes) : a # Where(d, (from + i - 1) % PageSize)
             \/ \E i \in 1 .. Len(bytes) : /\ a = Where(d, (from + i - 1) % PageSize)
                                           /\ value(a) = d.memory[d.unit][a] \cap bytes[i]
  <2> DEFINE At(i) == a = Where(d, (from + i - 1) % PageSize)
             old == d.memory[d.unit][a]
             S == 1 .. Len(bytes)
             chosen == CHOOSE i \in S : At(i)
  <2>1. value(a) = IF \E i \in S : At(i) THEN old \cap bytes[chosen] ELSE old
    OBVIOUS
  <2> HIDE DEF At, old, S, value
  <2>2. (\E i \in S : At(i)) => chosen \in S /\ At(chosen)
    OBVIOUS
  <2> HIDE DEF chosen
  <2>3. \/ value(a) = old /\ \A i \in S : ~ At(i)
        \/ \E i \in S : At(i) /\ value(a) = old \cap bytes[i]
    BY <2>1, <2>2
  <2> QED BY <2>3 DEF At, old, S
<1>3. Programmed(d, from, bytes) = [d EXCEPT !.memory = after]
  BY DEF Programmed, Device
<1> HIDE DEF value
<1>4. /\ d.memory \in [flash : [0 .. End - 1 -> Byte], user : [0 .. UserSize - 1 -> Byte]]
      /\ d.unit \in {"flash", "user"}
  BY DEF Device
<1>5. /\ d.unit = "flash" => d.memory[d.unit] \in [0 .. End - 1 -> Byte]
      /\ d.unit = "user"  => d.memory[d.unit] \in [0 .. UserSize - 1 -> Byte]
  BY <1>4
<1>6. /\ d.unit = "flash" => bytesAfter \in [0 .. End - 1 -> Byte]
      /\ d.unit = "user"  => bytesAfter \in [0 .. UserSize - 1 -> Byte]
  BY <1>1, <1>5 DEF Byte
<1>7. \A a \in DOMAIN d.memory[d.unit] : bytesAfter[a] = value(a)
  OBVIOUS
<1> HIDE DEF bytesAfter
<1>8. /\ after \in [flash : [0 .. End - 1 -> Byte], user : [0 .. UserSize - 1 -> Byte]]
      /\ after[d.unit] = bytesAfter
      /\ \A unit \in {"flash", "user"} : unit # d.unit => after[unit] = d.memory[unit]
  BY <1>4, <1>6
<1> HIDE DEF after
<1>9. /\ [d EXCEPT !.memory = after] \in Device
      /\ [d EXCEPT !.memory = after].memory = after
      /\ [d EXCEPT !.memory = after].state = d.state
      /\ [d EXCEPT !.memory = after].status = d.status
      /\ [d EXCEPT !.memory = after].unit = d.unit
      /\ [d EXCEPT !.memory = after].page = d.page
  BY <1>8 DEF Device
<1>10. \A a \in DOMAIN d.memory[d.unit] : ByteWritten(d, from, bytes, a)
  BY <1>2, <1>3, <1>7, <1>8, <1>9 DEF ByteWritten
<1> QED BY <1>3, <1>8, <1>9, <1>10

\* A block is sent, and the next bytes follow when its status says that it was written.
LEMMA FlashBlockStep == ASSUME IInv, atmel_flash_block PROVE IInv'
<1>1. /\ pc \in {"block", "block_clear", "block_status"} /\ pc \in Writing
      /\ UNCHANGED <<args, hex, last, mem_page, retries, buffer, sessions, partial>>
  BY DEF atmel_flash_block, Writing
<1>2. /\ TypeOK /\ dev \in Device /\ dev.state # "GONE" /\ args.command \in {"flash", "user"}
      /\ first \in 0 .. 2 * End /\ last \in 0 .. End /\ mem_page \in 0 .. Pages
      /\ faults \in 0 .. MaxFaults /\ clean \in BOOLEAN
  BY <1>1 DEF IInv, TypeOK, CommandInv, IsWrite, Ended
<1>3. Unit' = Unit /\ Top' = Top
  BY <1>1 DEF Unit, Top
<1>4. CASE pc = "block"
  <2> DEFINE next == Programmed(dev, first % PageSize, Block)
  <2>1. next \in Device /\ next.state = dev.state /\ next.unit = dev.unit /\ next.page = dev.page
    BY <1>2, ProgrammedType
  <2>2. /\ first' = first
        /\ \/ dfu_download(next, "block_status", "block_clear")
           \/ Fault({[dev EXCEPT !.state = "DNLOAD_IDLE"],
                     [dev EXCEPT !.state = "ERROR", !.status = "ERROR"]}, "block_status")
    BY <1>4 DEF atmel_flash_block
  <2> HIDE DEF next
  <2>3. ASSUME dev' \in Device, dev'.state # "GONE", faults' \in 0 .. MaxFaults,
               clean' \in BOOLEAN, clean' => clean,
               pc' = "block_clear"
                 \/ (pc' = "block_status" /\ dev'.unit = dev.unit /\ dev'.page = dev.page)
        PROVE  IInv'
    <3>1. SelectionInv'
      BY <1>1, <1>3, <1>4, <2>3 DEF IInv, SelectionInv
    <3>2. BlockInv'
      BY <1>1, <1>3, <1>4, <2>2, <2>3 DEF IInv, BlockInv
    <3>3. pc' \in Writing
      BY <2>3 DEF Writing
    <3> QED BY <1>1, <1>2, <2>2, <2>3, <3>1, <3>2, <3>3, WritingStep
  <2>4. CASE dfu_download(next, "block_status", "block_clear")
    <3>1. /\ dev' \in Device /\ faults' \in 0 .. MaxFaults /\ clean' \in BOOLEAN
          /\ dev'.state = "GONE" => dev.state = "GONE" \/ next.state = "GONE"
          /\ pc' \in {"block_status", "block_clear", "failed"}
          /\ pc' = "block_status" => dev'.unit = next.unit /\ dev'.page = next.page
          /\ clean' => clean
      BY <1>2, <2>1, <2>4, Download
    <3>2. CASE pc' = "failed"
      BY <1>1, <1>2, <2>2, <3>1, <3>2, WriteFails
    <3>3. CASE pc' # "failed"
      BY <1>2, <2>1, <2>3, <3>1, <3>3
    <3> QED BY <3>2, <3>3
  <2>5. CASE Fault({[dev EXCEPT !.state = "DNLOAD_IDLE"],
                    [dev EXCEPT !.state = "ERROR", !.status = "ERROR"]}, "block_status")
    <3>1. /\ dev' \in {[dev EXCEPT !.state = "DNLOAD_IDLE"],
                       [dev EXCEPT !.state = "ERROR", !.status = "ERROR"]}
          /\ pc' = "block_status" /\ clean' = FALSE /\ faults' = faults + 1 /\ faults < MaxFaults
      BY <2>5 DEF Fault, CanFail
    <3>2. /\ dev' \in Device /\ dev'.unit = dev.unit /\ dev'.page = dev.page
          /\ dev'.state # "GONE"
      BY <1>2, <3>1 DEF Device, States
    <3>3. faults' \in 0 .. MaxFaults
      <4>1. faults' = faults + 1 /\ faults < MaxFaults
        BY <3>1
      <4> QED BY <1>2, <4>1, DfuProgAssumption
    <3>4. clean' \in BOOLEAN /\ ~ clean'
      BY <3>1
    <3> QED BY <2>3, <3>1, <3>2, <3>3, <3>4
  <2> QED BY <2>2, <2>4, <2>5
<1>5. CASE pc = "block_clear"
  <2> DEFINE cleared == [dev EXCEPT !.state = "IDLE", !.status = "OK"]
             accepted == dev.state \in {"ERROR", "IDLE"}
  <2>1. cleared \in Device
    BY <1>2 DEF Device, States
  <2>a. accepted \in BOOLEAN
    OBVIOUS
  <2>2. dfu_transfer_out(accepted, cleared, "failed", "failed", "failed") /\ first' = first
    BY <1>5 DEF atmel_flash_block, dfu_clear_status
  <2> HIDE DEF cleared, accepted
  <2>3. /\ dev' \in Device /\ faults' \in 0 .. MaxFaults /\ clean' \in BOOLEAN
        /\ pc' \in {"failed"}
    BY <1>2, <2>1, <2>a, <2>2, TransferOut
  <2> QED BY <1>1, <1>2, <2>2, <2>3, WriteFails
<1>6. CASE pc = "block_status"
  <2>1. PICK r \in StatusReplies :
          /\ dfu_get_status(r)
          /\ IF r.code = 0 /\ r.status = "OK"
             THEN /\ first' = first + BlockLength
                  /\ pc' = CASE first' < last -> "block"
                             [] first' = last /\ args.command = "flash" -> "find"
                             [] first' = last /\ args.command = "user"  -> Verify
             ELSE pc' = "failed" /\ UNCHANGED first
    BY <1>6 DEF atmel_flash_block
  <2>2. /\ dev' \in Device /\ faults' \in 0 .. MaxFaults /\ clean' \in BOOLEAN
        /\ dev'.unit = dev.unit /\ dev'.page = dev.page
        /\ dev'.state = IF dev.state = "SYNC" THEN "DNLOAD_IDLE" ELSE dev.state
        /\ clean' => clean
    BY <1>2, <2>1, StatusReply
  <2>3. CASE ~ (r.code = 0 /\ r.status = "OK")
    <3>1. pc' = "failed" /\ first' = first
      BY <2>1, <2>3
    <3> QED BY <1>1, <1>2, <2>2, <3>1, WriteFails
  <2>4. CASE r.code = 0 /\ r.status = "OK"
    <3>1. /\ first < last /\ last <= Top
          /\ args.command = "flash" =>
               /\ mem_page * PageSize <= first /\ last <= mem_page * PageSize + PageSize
               /\ first .. last - 1 \subseteq DOMAIN hex
          /\ dev.unit = Unit /\ (OnUserPage(args.command) \/ dev.page = mem_page)
      BY <1>6 DEF IInv, BlockInv, SelectionInv
    <3>2. /\ first' \in Nat /\ first' <= last /\ first < first' /\ first' \in 0 .. 2 * End
          /\ last' = last
      <4>1. MaxTransfer \in Nat /\ MaxTransfer > 0 /\ End \in Nat
        BY Sizes
      <4> QED BY <1>1, <1>2, <2>1, <2>4, <3>1, <4>1 DEF BlockLength, Least
    <3>3. /\ first' < last => pc' = "block"
          /\ first' = last => pc' = IF args.command = "flash" THEN "find" ELSE Verify
      BY <1>2, <2>1, <2>4
    <3>4. Verify = "read_select" \/ (Verify = "done" /\ args.suppress)
      BY DEF Verify
    <3>5. /\ pc' \in {"block", "find", "read_select"} \/ (pc' = "done" /\ args.suppress)
          /\ pc' = "find" => args.command = "flash"
      BY <1>2, <3>2, <3>3, <3>4
    <3>6. pc' = "block" => first' < last
      BY <1>2, <3>2, <3>3, <3>4
    <3>7. args.command = "flash" => mem_page' * PageSize <= first'
                                      /\ last' <= mem_page' * PageSize + PageSize
      <4>1. mem_page * PageSize \in Nat
        BY <1>2, Sizes
      <4> QED BY <1>1, <1>2, <3>1, <3>2, <4>1
    <3>8. args.command = "flash" => first' .. last' - 1 \subseteq DOMAIN hex'
      BY <1>1, <1>2, <3>1, <3>2
    <3>9. BlockInv'
      BY <1>1, <1>3, <3>1, <3>5, <3>6, <3>7, <3>8 DEF BlockInv
    <3>10. SelectionInv'
      BY <1>1, <1>3, <2>2, <3>1, <3>5 DEF SelectionInv, OnUserPage
    <3>11. pc' \in Writing \cup {"read_select"} \/ (pc' = "done" /\ args.suppress)
      BY <3>5 DEF Writing
    <3> QED BY <1>1, <1>2, <2>2, <3>2, <3>5, <3>9, <3>10, <3>11, WritingStep
  <2> QED BY <2>3, <2>4
<1> QED BY <1>1, <1>4, <1>5, <1>6

\* A step of the reading that does not fail and keeps what it read in its place.
LEMMA ReadingStep ==
  ASSUME IInv, pc \in Reading,
         UNCHANGED <<args, hex, retries, sessions>>,
         dev' \in Device, faults' \in 0 .. MaxFaults, clean' \in BOOLEAN, partial' \in BOOLEAN,
         first' \in 0 .. 2 * End, last' \in 0 .. End, mem_page' \in 0 .. Pages,
         DOMAIN buffer' \subseteq 0 .. End - 1, dev'.state # "GONE",
         pc' \in {"read_page", "read", "upload", "done"},
         pc' = "read_page" => ~ OnUserPage(args.command),
         pc' = "done" => Copied(Top)' /\ (IsWrite' => Matches(buffer)'),
         pc' # "done" => Copied(first)',
         SelectionInv', ChunkInv',
         clean' /\ pc' # "done" /\ ~ IsWrite =>
           /\ dev'.status = "OK"
           /\ IF pc' = "upload" THEN dev'.state = "UPLOAD_IDLE" ELSE dev'.state \in Ready
  PROVE  IInv'
<1>1. /\ IsWrite \/ IsDump
      /\ (IsWrite' <=> IsWrite) /\ (IsDump' <=> IsDump) /\ args' = args
      /\ args.command # "erase"
  BY DEF IInv, CommandInv, IsWrite, IsDump
<1>2. TypeOK'
  BY DEF IInv, TypeOK
<1>3. CommandInv' /\ RetryInv'
  BY <1>1 DEF CommandInv, RetryInv, Ended, Preparing, Erasing, Writing, Reading, Leaving
<1>4. ImageInv'
  BY <1>1 DEF IInv, ImageInv, Area, Bottom, Top
<1>5. BlockInv' /\ BlankInv'
  BY <1>1 DEF BlockInv, BlankInv
<1>6. BufferInv'
  BY DEF BufferInv, Preparing, Writing
<1>7. CalmInv'
  <2>1. CASE pc' = "done"
    BY <2>1 DEF CalmInv, Erasing, Reading, Leaving
  <2>2. CASE pc' # "done"
    <3>1. clean' /\ ~ IsWrite' =>
            /\ dev'.status = "OK"
            /\ IF pc' = "upload" THEN dev'.state = "UPLOAD_IDLE" ELSE dev'.state \in Ready
      BY <1>1, <2>2
    <3>2. pc' \in {"read_page", "read", "upload"}
      BY <2>2
    <3> QED BY <3>1, <3>2 DEF CalmInv, Erasing
  <2> QED BY <2>1, <2>2
<1> QED BY <1>2, <1>3, <1>4, <1>5, <1>6, <1>7 DEF IInv

\* A reading that fails, which only a write does when nothing went wrong.
LEMMA ReadFails ==
  ASSUME IInv, pc' = "failed", UNCHANGED <<args, hex, retries, sessions>>,
         dev' \in Device, faults' \in 0 .. MaxFaults, clean' \in BOOLEAN, partial' \in BOOLEAN,
         first' \in 0 .. 2 * End, last' \in 0 .. End, mem_page' \in 0 .. Pages,
         DOMAIN buffer' \subseteq 0 .. End - 1, clean' => IsWrite
  PROVE  IInv'
<1>1. TypeOK'
  BY DEF IInv, TypeOK
<1>2. clean' => IsWrite'
  BY DEF IsWrite
<1> QED BY <1>1, <1>2, FailedStep

\* What every transfer of the reading finds.
LEMMA ReadingState ==
  ASSUME IInv, pc \in Reading
  PROVE  /\ TypeOK /\ dev \in Device /\ dev.state # "GONE" /\ (IsWrite \/ IsDump)
         /\ first \in 0 .. 2 * End /\ last \in 0 .. End /\ mem_page \in 0 .. Pages
         /\ faults \in 0 .. MaxFaults /\ clean \in BOOLEAN /\ partial \in BOOLEAN
         /\ DOMAIN buffer \subseteq 0 .. End - 1
         /\ clean /\ ~ IsWrite =>
              /\ dev.status = "OK"
              /\ IF pc = "upload" THEN dev.state = "UPLOAD_IDLE" ELSE dev.state \in Ready
  BY DEF IInv, TypeOK, CommandInv, CalmInv, Reading, Ended

\* What was read stays true while the memory and the buffer stay as they are.
LEMMA StillCopied ==
  ASSUME UNCHANGED <<args, buffer, partial>>, dev'.memory = dev.memory
  PROVE  /\ Copied(Bottom) => Copied(Bottom)'
         /\ Copied(first) /\ first' = first => Copied(first)'
         /\ Copied(Bottom) /\ first' = Bottom => Copied(first)'
  BY DEF Copied, IsDump, IsWrite, Area, Bottom, Top, Unit

\* The memory is selected, and its first page is where the reading begins.
LEMMA ReadSelectStep == ASSUME IInv, ReadSelect PROVE IInv'
<1> DEFINE next(unit) == [dev EXCEPT !.unit = unit]
<1>1. /\ pc = "read_select" /\ pc \in Reading /\ mem_page' = 0
      /\ UNCHANGED <<args, hex, retries, buffer, sessions, partial>>
      /\ IF OnUserPage(args.command)
         THEN /\ dfu_download(next("user"), "read", "failed")
              /\ first' = 0 /\ last' = UserSize
         ELSE /\ dfu_download(next("flash"), "read_page", "failed")
              /\ first' = BootSize /\ last' = PageSize
  BY DEF ReadSelect, Reading
<1>2. /\ TypeOK /\ dev \in Device /\ dev.state # "GONE" /\ (IsWrite \/ IsDump)
      /\ partial \in BOOLEAN /\ DOMAIN buffer \subseteq 0 .. End - 1
      /\ clean /\ ~ IsWrite => dev.status = "OK" /\ dev.state \in Ready
  BY <1>1, ReadingState
<1>3. ASSUME NEW unit \in {"flash", "user"}
      PROVE  /\ next(unit) \in Device /\ next(unit).unit = unit
             /\ next(unit).state = dev.state /\ next(unit).memory = dev.memory
             /\ next(unit).status = dev.status
  BY <1>2 DEF Device
<1>4. /\ first' \in 0 .. 2 * End /\ last' \in 0 .. End /\ mem_page' \in 0 .. Pages
      /\ first' = Bottom /\ first' < last' /\ mem_page' < Pages
      /\ mem_page' * PageSize = 0 /\ 0 <= first'
  BY <1>1, Sizes DEF Bottom
<1>5. Copied(Bottom)
  BY <1>1 DEF IInv, BufferInv
<1>6. Unit' = Unit /\ Bottom' = Bottom
  BY <1>1 DEF Unit, Bottom
<1> HIDE DEF next
<1>7. ASSUME NEW ok, NEW unit \in {"flash", "user"}, dfu_download(next(unit), ok, "failed"),
             \/ ok = "read" /\ OnUserPage(args.command) /\ unit = "user"
             \/ ok = "read_page" /\ ~ OnUserPage(args.command) /\ unit = "flash"
      PROVE  IInv'
  <2>1. /\ dev' \in Device /\ faults' \in 0 .. MaxFaults /\ clean' \in BOOLEAN
        /\ dev'.memory \in {dev.memory, next(unit).memory}
        /\ dev'.state = "GONE" => dev.state = "GONE" \/ next(unit).state = "GONE"
        /\ pc' \in {ok, "failed"}
        /\ pc' = ok =>
             /\ dev'.unit = next(unit).unit /\ dev'.status = next(unit).status
             /\ dev'.state = IF next(unit).state = "IDLE" THEN "DNLOAD_IDLE"
                             ELSE next(unit).state
        /\ clean' => clean
        /\ clean' /\ dev.state \in Ready => pc' = ok
    BY <1>2, <1>3, <1>7, Download
  <2>2. CASE pc' = "failed"
    <3>1. clean' => IsWrite
      BY <1>2, <1>7, <2>1, <2>2
    <3>2. partial' \in BOOLEAN /\ DOMAIN buffer' \subseteq 0 .. End - 1
      BY <1>1, <1>2
    <3> QED BY <1>1, <1>4, <2>1, <2>2, <3>1, <3>2, ReadFails
  <2>3. CASE pc' = ok
    <3>1. dev'.unit = Unit /\ dev'.memory = dev.memory /\ dev'.state # "GONE"
      BY <1>2, <1>3, <1>7, <2>1, <2>3 DEF Unit
    <3>2. SelectionInv'
      BY <1>1, <1>6, <1>7, <2>3, <3>1 DEF SelectionInv
    <3>3. ChunkInv'
      <4>1. CASE OnUserPage(args.command)
        <5>1. first' = 0 /\ last' = UserSize /\ OnUserPage(args'.command)
          BY <1>1, <4>1
        <5> QED BY <1>4, <1>6, <5>1 DEF ChunkInv
      <4>2. CASE ~ OnUserPage(args.command)
        <5>1. last' = mem_page' * PageSize + PageSize /\ ~ OnUserPage(args'.command)
          BY <1>1, <1>4, <4>2, Sizes
        <5>2. mem_page' * PageSize <= first'
          BY <1>4
        <5>3. Bottom' <= first'
          BY <1>4, <1>6
        <5> QED BY <1>4, <5>1, <5>2, <5>3 DEF ChunkInv
      <4> QED BY <4>1, <4>2
    <3>4. Copied(first)'
      BY <1>1, <1>4, <1>5, <3>1, StillCopied
    <3>5. clean' /\ ~ IsWrite => dev'.status = "OK" /\ dev'.state \in Ready
      BY <1>2, <1>3, <2>1, <2>3 DEF Ready
    <3>6. partial' \in BOOLEAN /\ DOMAIN buffer' \subseteq 0 .. End - 1
      BY <1>1, <1>2
    <3>7. pc' \in {"read_page", "read"} /\ (pc' = "read_page" => ~ OnUserPage(args.command))
      BY <1>7, <2>3
    <3> QED BY <1>1, <1>4, <2>1, <3>1, <3>2, <3>3, <3>4, <3>5, <3>6, <3>7, ReadingStep
  <2> QED BY <2>1, <2>2, <2>3
<1> QED BY <1>1, <1>7

\* The page, and then the command to read the chunk, are sent.
LEMMA ReadRequestStep ==
  ASSUME IInv, NEW next \in Device, NEW ok,
         \/ pc = "read_page" /\ ok = "read" /\ next.page = mem_page /\ next.state = dev.state
         \/ pc = "read" /\ ok = "upload" /\ next.page = dev.page /\ next.state = "UPLOAD_IDLE",
         next.unit = dev.unit, next.memory = dev.memory, next.status = dev.status,
         dfu_download(next, ok, "failed"),
         UNCHANGED <<args, hex, first, last, mem_page, retries, buffer, sessions, partial>>
  PROVE  IInv'
<1>1. pc \in Reading /\ pc \in {"read_page", "read"} /\ ok \in {"read", "upload"}
  BY DEF Reading
<1>2. /\ TypeOK /\ dev \in Device /\ dev.state # "GONE" /\ (IsWrite \/ IsDump)
      /\ first \in 0 .. 2 * End /\ last \in 0 .. End /\ mem_page \in 0 .. Pages
      /\ partial \in BOOLEAN /\ DOMAIN buffer \subseteq 0 .. End - 1
      /\ clean /\ ~ IsWrite => dev.status = "OK" /\ dev.state \in Ready
  BY <1>1, ReadingState
<1>3. /\ dev' \in Device /\ faults' \in 0 .. MaxFaults /\ clean' \in BOOLEAN
      /\ dev'.memory = dev.memory
      /\ dev'.state = "GONE" => dev.state = "GONE" \/ next.state = "GONE"
      /\ pc' \in {ok, "failed"}
      /\ pc' = ok =>
           /\ dev'.unit = next.unit /\ dev'.page = next.page /\ dev'.status = next.status
           /\ dev'.state = IF next.state = "IDLE" THEN "DNLOAD_IDLE" ELSE next.state
      /\ clean' => clean
      /\ clean' /\ dev.state \in Ready => pc' = ok
  <2>1. ok # "failed"
    BY <1>1
  <2> QED BY <1>2, <2>1, Download
<1>4. CASE pc' = "failed"
  <2>1. clean' => IsWrite
    BY <1>1, <1>2, <1>3, <1>4
  <2>2. /\ partial' \in BOOLEAN /\ DOMAIN buffer' \subseteq 0 .. End - 1
        /\ first' \in 0 .. 2 * End /\ last' \in 0 .. End /\ mem_page' \in 0 .. Pages
    BY <1>2
  <2> QED BY <1>3, <1>4, <2>1, <2>2, ReadFails
<1>5. CASE pc' = ok
  <2>1. /\ dev.unit = Unit /\ (pc = "read" => OnUserPage(args.command) \/ dev.page = mem_page)
        /\ Copied(first)
    BY <1>1 DEF IInv, SelectionInv, BufferInv
  <2>2. dev'.unit = Unit' /\ (OnUserPage(args'.command) \/ dev'.page = mem_page')
    BY <1>3, <1>5, <2>1 DEF Unit
  <2>3. SelectionInv'
    BY <1>1, <1>5, <2>2 DEF SelectionInv
  <2>4. ChunkInv'
    BY <1>1, <1>5 DEF IInv, ChunkInv, Bottom
  <2>5. Copied(first)'
    BY <1>3, <2>1, StillCopied
  <2>6. clean' /\ ~ IsWrite =>
          /\ dev'.status = "OK"
          /\ IF pc' = "upload" THEN dev'.state = "UPLOAD_IDLE" ELSE dev'.state \in Ready
    BY <1>1, <1>2, <1>3, <1>5 DEF Ready
  <2>7. /\ partial' \in BOOLEAN /\ DOMAIN buffer' \subseteq 0 .. End - 1
        /\ first' \in 0 .. 2 * End /\ last' \in 0 .. End /\ mem_page' \in 0 .. Pages
        /\ dev'.state # "GONE" /\ pc' \in {"read", "upload"}
    BY <1>1, <1>2, <1>3, <1>5
  <2> QED BY <1>1, <1>3, <2>3, <2>4, <2>5, <2>6, <2>7, ReadingStep
<1> QED BY <1>3, <1>4, <1>5

\* reading a page,
LEMMA ReadPageStep == ASSUME IInv, ReadPage PROVE IInv'
<1> DEFINE next == [dev EXCEPT !.page = mem_page]
<1>1. dev \in Device /\ mem_page \in 0 .. Pages
  BY DEF IInv, TypeOK
<1>2. /\ next \in Device /\ next.page = mem_page /\ next.unit = dev.unit
      /\ next.state = dev.state /\ next.memory = dev.memory /\ next.status = dev.status
  BY <1>1 DEF Device
<1>3. /\ pc = "read_page" /\ dfu_download(next, "read", "failed")
      /\ UNCHANGED <<args, hex, first, last, mem_page, retries, buffer, sessions, partial>>
  BY DEF ReadPage, loops
<1> HIDE DEF next
<1> QED BY <1>2, <1>3, ReadRequestStep

\* and the command to read.
LEMMA ReadCommandStep == ASSUME IInv, ReadCommand PROVE IInv'
<1> DEFINE next == [dev EXCEPT !.state = "UPLOAD_IDLE"]
<1>1. dev \in Device
  BY DEF IInv, TypeOK
<1>2. /\ next \in Device /\ next.page = dev.page /\ next.unit = dev.unit
      /\ next.state = "UPLOAD_IDLE" /\ next.memory = dev.memory /\ next.status = dev.status
  BY <1>1 DEF Device, States
<1>3. /\ pc = "read" /\ dfu_download(next, "upload", "failed")
      /\ UNCHANGED <<args, hex, first, last, mem_page, retries, buffer, sessions, partial>>
  BY DEF ReadCommand, loops
<1> HIDE DEF next
<1> QED BY <1>2, <1>3, ReadRequestStep

\* A chunk lies in the memory that is read, each byte of it at its address.
LEMMA ChunkPlace ==
  ASSUME IInv, pc = "upload"
  PROVE  /\ first \in Nat /\ last \in Nat /\ Bottom <= first /\ first < last /\ last <= Top
         /\ \A a \in first .. last - 1 : Where(dev, a % PageSize) = a
<1> DEFINE low == mem_page * PageSize
<1>1. /\ dev.unit = Unit /\ (OnUserPage(args.command) \/ dev.page = mem_page)
      /\ Bottom <= first /\ first < last
      /\ IF OnUserPage(args.command) THEN first = 0 /\ last = UserSize
         ELSE mem_page < Pages /\ low <= first /\ last = low + PageSize
      /\ first \in 0 .. 2 * End /\ last \in 0 .. End /\ mem_page \in 0 .. Pages
  BY DEF IInv, TypeOK, SelectionInv, ChunkInv
<1>2. /\ PageSize \in Nat /\ PageSize > 0 /\ UserSize \in Nat /\ UserSize <= PageSize
      /\ End \in Nat /\ Pages \in Nat
  BY Sizes
<1>3. first \in Nat /\ last \in Nat /\ mem_page \in Nat /\ low \in Nat
  <2>1. first \in Nat /\ last \in Nat /\ mem_page \in Nat
    BY <1>1, <1>2
  <2> QED BY <2>1, WholePages
<1>4. last <= Top
  BY <1>1, <1>2, <1>3 DEF Top
<1>5. ASSUME NEW a \in first .. last - 1 PROVE Where(dev, a % PageSize) = a
  <2>1. a \in Nat
    BY <1>3
  <2>2. CASE OnUserPage(args.command)
    <3>1. 0 * PageSize = 0 /\ 0 <= a /\ a < 0 + PageSize /\ 0 \in Nat
      BY <1>1, <1>2, <2>1, <2>2
    <3>2. a % PageSize = a - 0 * PageSize
      <4>1. 0 * PageSize <= a /\ a < 0 * PageSize + PageSize
        BY <3>1
      <4> QED BY <2>1, <3>1, <4>1, OffsetInPage
    <3>3. a % PageSize = a /\ dev.unit = "user"
      BY <1>1, <2>1, <2>2, <3>1, <3>2 DEF Unit
    <3> QED BY <3>3 DEF Where
  <2>3. CASE ~ OnUserPage(args.command)
    <3>1. low <= a /\ a < low + PageSize
      BY <1>1, <1>2, <1>3, <2>1, <2>3
    <3>2. a % PageSize = a - mem_page * PageSize
      BY <1>3, <2>1, <3>1, OffsetInPage
    <3>3. dev.unit = "flash" /\ dev.page = mem_page
      BY <1>1, <2>3 DEF Unit
    <3> HIDE DEF low
    <3>4. Where(dev, a % PageSize) = low + (a - low)
      BY <3>2, <3>3 DEF Where, low
    <3> QED BY <1>3, <2>1, <3>4
  <2> QED BY <2>2, <2>3
<1> QED BY <1>1, <1>3, <1>4, <1>5

\* A chunk, or the beginning of it, is added to what was read.
LEMMA UploadStep == ASSUME IInv, dfu_upload PROVE IInv'
<1> DEFINE size == Least(last - first, MaxTransfer)
           Got(n) == Over([a \in first .. first + n - 1 |->
                             dev.memory[dev.unit][Where(dev, a % PageSize)]], buffer)
           next(n) == IF first + size < last THEN "read"
                      ELSE IF first + size < Top THEN "read_page" ELSE Compared(Got(n))
           low == mem_page * PageSize
<1>1. /\ pc = "upload" /\ pc \in Reading
      /\ \/ /\ Answered([dev EXCEPT !.state = "IDLE"], next(size))
            /\ buffer' = Got(size) /\ UNCHANGED partial
         \/ \E n \in 0 .. size - 1 :
              /\ Fault({[dev EXCEPT !.state = "IDLE"]}, next(n))
              /\ buffer' = Got(n) /\ partial' = TRUE
         \/ Fault({dev, Stalled(dev)}, "failed") /\ UNCHANGED <<buffer, partial>>
      /\ first' = first + size
      /\ IF first' = last /\ first' < Top
         THEN mem_page' = mem_page + 1 /\ last' = Least(Top, first' + PageSize)
         ELSE UNCHANGED <<mem_page, last>>
      /\ UNCHANGED <<args, hex, retries, sessions>>
  BY DEF dfu_upload, Top, Reading
<1>2. /\ TypeOK /\ dev \in Device /\ dev.state # "GONE" /\ (IsWrite \/ IsDump)
      /\ first \in 0 .. 2 * End /\ last \in 0 .. End /\ mem_page \in 0 .. Pages
      /\ faults \in 0 .. MaxFaults /\ clean \in BOOLEAN /\ partial \in BOOLEAN
      /\ DOMAIN buffer \subseteq 0 .. End - 1
      /\ clean /\ ~ IsWrite => dev.status = "OK"
  BY <1>1, ReadingState
<1>3. /\ dev.unit = Unit /\ (OnUserPage(args.command) \/ dev.page = mem_page)
      /\ Bottom <= first /\ first < last
      /\ IF OnUserPage(args.command) THEN first = 0 /\ last = UserSize
         ELSE mem_page < Pages /\ low <= first /\ last = low + PageSize
      /\ Copied(first)
  BY <1>1 DEF IInv, SelectionInv, ChunkInv, BufferInv
<1>4. /\ PageSize \in Nat /\ PageSize > 0 /\ UserSize \in Nat /\ UserSize <= PageSize
      /\ MaxTransfer \in Nat /\ MaxTransfer > 0 /\ End \in Nat /\ Pages \in Nat
      /\ Bottom \in Nat /\ Top \in Nat /\ Top <= End
  BY Sizes DEF Bottom, Top
<1>5. /\ size \in Nat /\ size > 0 /\ first + size <= last
  BY <1>2, <1>3, <1>4 DEF Least
<1>6. /\ first \in Nat /\ last \in Nat /\ last <= Top /\ low \in Nat
      /\ ~ OnUserPage(args.command) /\ last < Top =>
           /\ mem_page + 1 < Pages /\ (mem_page + 1) * PageSize = last
           /\ last + PageSize <= Top
  <2>1. first \in Nat /\ last \in Nat /\ mem_page \in Nat /\ mem_page + 1 \in Nat
    BY <1>2, <1>4
  <2>2. low \in Nat /\ (mem_page + 1) * PageSize = low + PageSize
        /\ (mem_page < Pages => low + PageSize <= End)
    BY <2>1, WholePages
  <2>3. CASE OnUserPage(args.command)
    BY <1>3, <1>4, <2>1, <2>2, <2>3 DEF Top
  <2>4. CASE ~ OnUserPage(args.command)
    <3>1. Top = End /\ last = (mem_page + 1) * PageSize /\ last <= End
      BY <1>3, <2>2, <2>4 DEF Top
    <3>2. last < End => mem_page + 1 < Pages /\ last + PageSize <= End
      <4>1. /\ (mem_page + 1) * PageSize < End => mem_page + 1 < Pages
            /\ mem_page + 1 < Pages => (mem_page + 1) * PageSize + PageSize <= End
        BY <2>1, WholePages
      <4> QED BY <3>1, <4>1
    <3> QED BY <2>1, <2>2, <2>4, <3>1, <3>2
  <2> QED BY <2>3, <2>4
<1>7. /\ first' \in 0 .. 2 * End /\ last' \in 0 .. End /\ mem_page' \in 0 .. Pages
      /\ first' \in Nat /\ Bottom <= first' /\ first' <= Top
  <2>1. first' \in Nat /\ Bottom <= first' /\ first' <= Top /\ first' \in 0 .. 2 * End
    <3>1. first' = first + size
      BY <1>1
    <3> QED BY <1>3, <1>4, <1>5, <1>6, <3>1
  <2>2. CASE first' = last /\ first' < Top
    <3>1. ~ OnUserPage(args.command)
      BY <1>3, <1>4, <2>2 DEF Top
    <3>2. last' = last + PageSize /\ mem_page' = mem_page + 1
      <4>1. mem_page' = mem_page + 1 /\ last' = Least(Top, last + PageSize)
        BY <1>1, <2>2
      <4>2. PICK l \in Nat : l = last + PageSize /\ l <= Top
        BY <1>4, <1>6, <2>2, <3>1
      <4> QED BY <1>4, <4>1, <4>2 DEF Least
    <3> QED BY <1>2, <1>4, <1>6, <2>1, <2>2, <3>1, <3>2
  <2>3. CASE ~ (first' = last /\ first' < Top)
    BY <1>1, <1>2, <2>1, <2>3
  <2> QED BY <2>2, <2>3
<1>8. /\ Unit' = Unit /\ Bottom' = Bottom /\ Top' = Top /\ Area' = Area
      /\ IsWrite' = IsWrite /\ IsDump' = IsDump /\ args' = args /\ hex' = hex
  BY <1>1 DEF Unit, Bottom, Top, Area, IsWrite, IsDump
<1>9. \A a \in first .. last - 1 : Where(dev, a % PageSize) = a
  BY <1>1, ChunkPlace
<1>10. /\ [dev EXCEPT !.state = "IDLE"] \in Device
       /\ [dev EXCEPT !.state = "IDLE"].unit = dev.unit
       /\ [dev EXCEPT !.state = "IDLE"].page = dev.page
       /\ [dev EXCEPT !.state = "IDLE"].memory = dev.memory
       /\ [dev EXCEPT !.state = "IDLE"].status = dev.status
       /\ [dev EXCEPT !.state = "IDLE"].state = "IDLE"
  BY <1>2 DEF Device, States
<1>11. ASSUME NEW n \in 0 .. size
       PROVE  /\ DOMAIN Got(n) = (first .. first + n - 1) \cup DOMAIN buffer
              /\ \A a \in first .. first + n - 1 : Got(n)[a] = dev.memory[Unit][a]
              /\ \A a \in DOMAIN buffer :
                   a \notin first .. first + n - 1 => Got(n)[a] = buffer[a]
  <2> DEFINE read == [a \in first .. first + n - 1 |->
                        dev.memory[dev.unit][Where(dev, a % PageSize)]]
  <2>1. DOMAIN read = first .. first + n - 1
    OBVIOUS
  <2>2. ASSUME NEW a \in first .. first + n - 1 PROVE read[a] = dev.memory[Unit][a]
    <3>1. a \in first .. last - 1
      BY <1>5, <1>6
    <3> QED BY <1>3, <1>9, <3>1
  <2> HIDE DEF read
  <2>3. Got(n) = Over(read, buffer)
    BY DEF read
  <2>4. /\ DOMAIN Over(read, buffer) = DOMAIN read \cup DOMAIN buffer
        /\ \A a \in DOMAIN read \cup DOMAIN buffer :
             Over(read, buffer)[a] = IF a \in DOMAIN read THEN read[a] ELSE buffer[a]
    BY DEF Over
  <2> QED BY <2>1, <2>2, <2>3, <2>4
<1> HIDE DEF size, Got, next, low
\* The upload was answered with n bytes.
<1>12. ASSUME NEW n \in 0 .. size, dev' = [dev EXCEPT !.state = "IDLE"], pc' = next(n),
              buffer' = Got(n), faults' \in 0 .. MaxFaults, clean' \in BOOLEAN,
              clean' => clean, partial' \in BOOLEAN, partial => partial',
              n = size \/ partial'
       PROVE  IInv'
  <2>1. /\ dev' \in Device /\ dev'.state = "IDLE" /\ dev'.memory = dev.memory
        /\ dev'.unit = dev.unit /\ dev'.page = dev.page /\ dev'.status = dev.status
    BY <1>10, <1>12
  <2>2. n \in Nat /\ first + n <= first' /\ first + n <= last
    BY <1>1, <1>5, <1>6
  <2>3. Copied(first)'
    <3>1. ASSUME IsDump
          PROVE  /\ DOMAIN buffer' \subseteq Bottom .. first' - 1
                 /\ partial' \/ DOMAIN buffer' = Bottom .. first' - 1
                 /\ \A a \in DOMAIN buffer' : buffer'[a] = dev'.memory[Unit][a]
      <4>1. /\ DOMAIN buffer \subseteq Bottom .. first - 1
            /\ partial \/ DOMAIN buffer = Bottom .. first - 1
            /\ \A a \in DOMAIN buffer : buffer[a] = dev.memory[Unit][a]
        BY <1>3, <3>1 DEF Copied
      <4>2. DOMAIN buffer' \subseteq Bottom .. first' - 1
        <5>1. DOMAIN buffer' = (first .. first + n - 1) \cup DOMAIN buffer
          BY <1>11, <1>12
        <5>2. /\ first .. first + n - 1 \subseteq Bottom .. first' - 1
              /\ Bottom .. first - 1 \subseteq Bottom .. first' - 1
          <6>1. PICK end \in Nat : end = first'
            BY <1>7
          <6>2. /\ Bottom \in Nat /\ first \in Nat /\ n \in Nat
                /\ Bottom <= first /\ first + n <= end
            BY <1>3, <1>4, <1>6, <2>2, <6>1
          <6>3. /\ first .. first + n - 1 \subseteq Bottom .. end - 1
                /\ Bottom .. first - 1 \subseteq Bottom .. end - 1
            BY <6>2
          <6> QED BY <6>1, <6>3
        <5> QED BY <4>1, <5>1, <5>2
      <4>3. ASSUME ~ partial' PROVE DOMAIN buffer' = Bottom .. first' - 1
        <5>1. DOMAIN buffer = Bottom .. first - 1 /\ n = size /\ first' = first + n
          BY <1>1, <1>12, <4>1, <4>3
        <5>2. (first .. first + n - 1) \cup (Bottom .. first - 1) = Bottom .. first + n - 1
          BY <1>3, <1>4, <1>6, <2>2
        <5>3. DOMAIN buffer' = (first .. first + n - 1) \cup DOMAIN buffer
          BY <1>11, <1>12
        <5>4. first + n - 1 = first' - 1
          BY <1>6, <2>2, <5>1
        <5>5. DOMAIN buffer' = Bottom .. first + n - 1
          BY <5>1, <5>2, <5>3
        <5> QED BY <5>4, <5>5
      <4>4. \A a \in DOMAIN buffer' : buffer'[a] = dev'.memory[Unit][a]
        <5> SUFFICES ASSUME NEW a \in DOMAIN Got(n)
                     PROVE  Got(n)[a] = dev.memory[Unit][a]
          BY <1>12, <2>1
        <5>1. CASE a \in first .. first + n - 1
          BY <1>11, <5>1
        <5>2. CASE a \notin first .. first + n - 1
          <6>1. a \in DOMAIN buffer
            BY <1>11, <5>2
          <6>2. Got(n)[a] = buffer[a]
            BY <1>11, <5>2, <6>1
          <6> QED BY <4>1, <6>1, <6>2
        <5> QED BY <5>1, <5>2
      <4> QED BY <1>12, <4>2, <4>3, <4>4
    <3>2. ASSUME IsWrite
          PROVE  /\ DOMAIN buffer' = Area
                 /\ \A a \in Area : \/ a < first' /\ buffer'[a] = dev'.memory[Unit][a]
                                    \/ (a < first' => partial') /\ buffer'[a] = {}
      <4>1. /\ DOMAIN buffer = Area
            /\ \A a \in Area : \/ a < first /\ buffer[a] = dev.memory[Unit][a]
                               \/ (a < first => partial) /\ buffer[a] = {}
        BY <1>3, <3>2 DEF Copied
      <4>2. first .. first + n - 1 \subseteq Area
        BY <1>3, <1>4, <1>6, <2>2 DEF Area
      <4>3. DOMAIN buffer' = Area
        BY <1>11, <1>12, <4>1, <4>2
      <4>4. ASSUME NEW a \in Area
            PROVE  \/ a < first' /\ buffer'[a] = dev'.memory[Unit][a]
                   \/ (a < first' => partial') /\ buffer'[a] = {}
        <5>1. a \in Nat
          BY <1>4 DEF Area
        <5>2. CASE a \in first .. first + n - 1
          <6>1. a < first'
            BY <1>7, <2>2, <5>1, <5>2, <1>6
          <6> QED BY <1>11, <1>12, <2>1, <5>2, <6>1
        <5>3. CASE a \notin first .. first + n - 1
          <6>1. buffer'[a] = buffer[a]
            BY <1>11, <1>12, <4>1, <5>3
          <6>2. CASE a < first /\ buffer[a] = dev.memory[Unit][a]
            <7>1. a < first'
              BY <1>6, <1>7, <2>2, <5>1, <6>2
            <7> QED BY <2>1, <6>1, <6>2, <7>1
          <6>3. CASE (a < first => partial) /\ buffer[a] = {}
            <7>1. ASSUME a < first', ~ partial' PROVE a < first
              BY <1>1, <1>6, <1>7, <1>12, <2>2, <5>1, <5>3, <7>1
            <7> QED BY <1>12, <6>1, <6>3, <7>1
          <6> QED BY <4>1, <6>2, <6>3
        <5> QED BY <5>2, <5>3
      <4> QED BY <4>3, <4>4
    <3> QED BY <1>8, <3>1, <3>2 DEF Copied
  <2>4. DOMAIN buffer' \subseteq 0 .. End - 1
    <3>1. first .. first + n - 1 \subseteq 0 .. End - 1
      BY <1>4, <1>6, <2>2
    <3> QED BY <1>2, <1>11, <1>12, <3>1
  <2>5. CASE first + size < last
    <3>1. pc' = "read"
      BY <1>12, <2>5 DEF next
    <3>2. UNCHANGED <<mem_page, last>> /\ first' < last'
      BY <1>1, <1>6, <1>7, <2>5
    <3>3. SelectionInv'
      BY <1>3, <1>8, <2>1, <3>1, <3>2 DEF SelectionInv
    <3>4. ChunkInv'
      <4>1. CASE OnUserPage(args.command)
        <5>1. first + size >= last
          BY <1>3, <1>4, <1>5, <4>1, Sizes DEF size, Least
        <5> QED BY <1>5, <1>6, <2>5, <5>1
      <4>2. CASE ~ OnUserPage(args.command)
        <5>1. mem_page' * PageSize = low /\ mem_page' < Pages
          BY <1>3, <3>2, <4>2 DEF low
        <5>2. low <= first' /\ last' = low + PageSize
          BY <1>3, <1>6, <1>7, <2>2, <3>2, <4>2
        <5> QED BY <1>7, <1>8, <3>2, <4>2, <5>1, <5>2 DEF ChunkInv
      <4> QED BY <4>1, <4>2
    <3>5. clean' /\ pc' # "done" /\ ~ IsWrite => dev'.status = "OK" /\ dev'.state \in Ready
      BY <1>2, <1>12, <2>1 DEF Ready
    <3> QED BY <1>1, <1>7, <1>12, <2>1, <2>3, <2>4, <3>1, <3>3, <3>4, <3>5, ReadingStep
  <2>6. CASE ~ (first + size < last) /\ first + size < Top
    <3>1. pc' = "read_page" /\ first' = last /\ first' < Top
      BY <1>1, <1>5, <1>6, <1>12, <2>6 DEF next
    <3>2. ~ OnUserPage(args.command)
      BY <1>3, <1>4, <3>1 DEF Top
    <3>3. mem_page' = mem_page + 1 /\ last' = last + PageSize
      BY <1>1, <1>4, <1>6, <3>1, <3>2 DEF Least
    <3>4. mem_page' < Pages /\ mem_page' * PageSize = last
      BY <1>6, <3>1, <3>2, <3>3
    <3>5. ChunkInv'
      <4>1. first' < last' /\ Bottom' <= first'
        BY <1>4, <1>6, <1>7, <1>8, <3>1, <3>3
      <4>2. mem_page' * PageSize <= first' /\ last' = mem_page' * PageSize + PageSize
        BY <1>6, <3>1, <3>3, <3>4
      <4> QED BY <1>8, <3>2, <3>4, <4>1, <4>2 DEF ChunkInv
    <3>6. SelectionInv'
      BY <1>3, <1>8, <2>1, <3>1 DEF SelectionInv
    <3>7. clean' /\ pc' # "done" /\ ~ IsWrite => dev'.status = "OK" /\ dev'.state \in Ready
      BY <1>2, <1>12, <2>1 DEF Ready
    <3> QED BY <1>1, <1>7, <1>12, <2>1, <2>3, <2>4, <3>1, <3>2, <3>5, <3>6, <3>7, ReadingStep
  <2>7. CASE ~ (first + size < last) /\ ~ (first + size < Top)
    <3>1. pc' = Compared(Got(n)) /\ first' = Top
      BY <1>1, <1>4, <1>5, <1>6, <1>12, <2>7 DEF next
    <3>2. CASE IsDump \/ Matches(Got(n))
      <4>1. pc' = "done"
        BY <3>1, <3>2 DEF Compared, IsDump
      <4>2. Copied(Top)'
        BY <1>8, <2>3, <3>1 DEF Copied
      <4>3. IsWrite' => Matches(buffer)'
        <5>1. IsWrite => ~ IsDump
          BY DEF IsWrite, IsDump
        <5> QED BY <1>8, <1>12, <3>2, <5>1 DEF Matches
      <4>4. SelectionInv' /\ ChunkInv'
        BY <4>1 DEF SelectionInv, ChunkInv
      <4> QED BY <1>1, <1>7, <1>12, <2>1, <2>4, <4>1, <4>2, <4>3, <4>4, ReadingStep
    <3>3. CASE ~ IsDump /\ ~ Matches(Got(n))
      <4>1. pc' = "failed" /\ IsWrite
        BY <1>2, <3>1, <3>3 DEF Compared, IsDump
      <4> QED BY <1>1, <1>7, <1>12, <2>1, <2>4, <4>1, ReadFails
    <3> QED BY <3>2, <3>3
  <2> QED BY <2>5, <2>6, <2>7
<1>13. CASE /\ Answered([dev EXCEPT !.state = "IDLE"], next(size))
            /\ buffer' = Got(size) /\ UNCHANGED partial
  <2>1. /\ dev' = [dev EXCEPT !.state = "IDLE"] /\ pc' = next(size)
        /\ faults' = faults /\ clean' = clean
    BY <1>13 DEF Answered
  <2>2. size \in 0 .. size
    BY <1>5
  <2> QED BY <1>2, <1>12, <1>13, <2>1, <2>2
<1>14. CASE \E n \in 0 .. size - 1 :
              /\ Fault({[dev EXCEPT !.state = "IDLE"]}, next(n))
              /\ buffer' = Got(n) /\ partial' = TRUE
  <2>1. PICK n \in 0 .. size - 1 : /\ Fault({[dev EXCEPT !.state = "IDLE"]}, next(n))
                                   /\ buffer' = Got(n) /\ partial' = TRUE
    BY <1>14
  <2>2. /\ dev' = [dev EXCEPT !.state = "IDLE"] /\ pc' = next(n)
        /\ faults' = faults + 1 /\ faults < MaxFaults /\ clean' = FALSE
    BY <2>1 DEF Fault, CanFail
  <2>3. faults' \in 0 .. MaxFaults
    <3>1. faults' = faults + 1 /\ faults < MaxFaults
      BY <2>2
    <3> QED BY <1>2, <3>1, DfuProgAssumption
  <2>4. clean' \in BOOLEAN /\ ~ clean' /\ partial' \in BOOLEAN /\ partial'
    BY <2>1, <2>2
  <2>5. n \in 0 .. size
    BY <1>5
  <2> QED BY <1>12, <2>1, <2>2, <2>3, <2>4, <2>5
<1>15. CASE Fault({dev, Stalled(dev)}, "failed") /\ UNCHANGED <<buffer, partial>>
  <2>1. /\ dev' \in {dev, Stalled(dev)} /\ pc' = "failed"
        /\ faults' = faults + 1 /\ faults < MaxFaults /\ clean' = FALSE
    BY <1>15 DEF Fault, CanFail
  <2>2. dev' \in Device
    BY <1>2, <2>1, StalledType
  <2>3. faults' \in 0 .. MaxFaults
    <3>1. faults' = faults + 1 /\ faults < MaxFaults
      BY <2>1
    <3> QED BY <1>2, <3>1, DfuProgAssumption
  <2>4. clean' \in BOOLEAN /\ ~ clean'
    BY <2>1
  <2>5. partial' \in BOOLEAN /\ DOMAIN buffer' \subseteq 0 .. End - 1
    BY <1>2, <1>15
  <2> QED BY <1>1, <1>7, <2>1, <2>2, <2>3, <2>4, <2>5, ReadFails
<1> QED BY <1>1, <1>13, <1>14, <1>15

\* The application starts, or the chip is reset, when the device takes the commands.
LEMMA StartAppStep == ASSUME IInv, atmel_start_app PROVE IInv'
<1> DEFINE gone == [dev EXCEPT !.state = "GONE"]
           reset(state) == [dev EXCEPT !.state = state, !.unit = "flash", !.page = 0]
<1>1. /\ pc \in {"start_app", "manifest", "reset_command"} /\ pc \in Leaving
      /\ UNCHANGED <<args, hex, first, last, mem_page, retries, buffer, sessions, partial>>
      /\ \/ pc = "start_app" /\ dfu_download(dev, "manifest", "failed")
         \/ pc = "manifest" /\ dfu_download(gone, "done", "failed")
         \/ /\ pc = "reset_command"
            /\ \E state \in {"GONE", "IDLE"} : dfu_download(reset(state), "done", "failed")
  BY DEF atmel_start_app, loops, Leaving
<1>2. /\ TypeOK /\ dev \in Device /\ dev.state # "GONE"
      /\ args.command \in {"start_app", "reset"}
      /\ clean => dev.status = "OK" /\ dev.state \in Ready
  BY <1>1 DEF IInv, TypeOK, CommandInv, CalmInv, Ended, Leaving, IsWrite
<1>3. ~ IsWrite' /\ ~ IsDump' /\ args'.command \in {"start_app", "reset"}
  BY <1>1, <1>2 DEF IsWrite, IsDump
<1>4. gone \in Device /\ \A state \in {"GONE", "IDLE"} : reset(state) \in Device
  <2>1. 0 \in 0 .. Pages
    BY Sizes
  <2> QED BY <1>2, <2>1 DEF Device, States
<1> HIDE DEF gone, reset
<1>5. PICK next \in Device, ok \in {"manifest", "done"} :
        /\ dfu_download(next, ok, "failed")
        /\ ok = "manifest" => next = dev
  BY <1>1, <1>2, <1>4
<1>6. /\ dev' \in Device /\ faults' \in 0 .. MaxFaults /\ clean' \in BOOLEAN
      /\ dev'.state = "GONE" => dev.state = "GONE" \/ next.state = "GONE"
      /\ pc' \in {ok, "failed"}
      /\ pc' = ok =>
           /\ dev'.status = next.status
           /\ dev'.state = IF next.state = "IDLE" THEN "DNLOAD_IDLE" ELSE next.state
      /\ clean' => clean
      /\ clean' /\ dev.state \in Ready => pc' = ok
  <2>1. ok # "failed"
    BY <1>5
  <2> QED BY <1>2, <1>5, <2>1, Download
<1>7. TypeOK'
  BY <1>1, <1>2, <1>6 DEF TypeOK
<1>8. CASE pc' = "failed"
  <2>1. ~ clean'
    BY <1>2, <1>5, <1>6, <1>8
  <2> QED BY <1>7, <1>8, <2>1, FailedStep
<1>9. CASE pc' = ok
  <2>1. pc' \in {"manifest", "done"}
    BY <1>5, <1>9
  <2>2. ASSUME pc' = "manifest"
        PROVE  /\ dev'.state # "GONE"
               /\ clean' => dev'.status = "OK" /\ dev'.state \in Ready
    BY <1>2, <1>5, <1>6, <1>9, <2>2 DEF Ready
  <2>3. CommandInv' /\ RetryInv'
    BY <1>3, <2>1, <2>2 DEF CommandInv, RetryInv, Ended, Preparing, Erasing, Writing, Reading,
                            Leaving
  <2>4. ImageInv' /\ BlockInv' /\ ChunkInv' /\ BufferInv'
    BY <1>3, <2>1, OtherCommands DEF Leaving
  <2>5. SelectionInv' /\ BlankInv'
    BY <1>3, <2>1 DEF SelectionInv, BlankInv
  <2>6. CalmInv'
    BY <2>1, <2>2 DEF CalmInv, Erasing, Reading, Leaving
  <2> QED BY <1>7, <2>3, <2>4, <2>5, <2>6 DEF IInv
<1> QED BY <1>6, <1>8, <1>9

\* Every step keeps the invariant.
LEMMA NextIInv == IInv /\ [Next]_vars => IInv'
<1> SUFFICES ASSUME IInv, [Next]_vars PROVE IInv'
  OBVIOUS
<1>1. CASE Start
  BY <1>1, StartStep
<1>2. CASE Kill
  BY <1>2, KillStep
<1>3. CASE dfu_make_idle \/ MakeIdleRequest \/ MakeIdleReset \/ execute_command
  BY <1>3, MakeIdleStep, RequestStep, ResetStep, CommandStep
<1>4. CASE atmel_erase_flash \/ atmel_blank_check
  BY <1>4, EraseStep, BlankCheckStep
<1>5. CASE atmel_select \/ FindBlock \/ atmel_select_page \/ atmel_flash_block
  BY <1>5, SelectStep, FindStep, SelectPageStep, FlashBlockStep
<1>6. CASE ReadSelect \/ ReadPage \/ ReadCommand \/ dfu_upload \/ atmel_start_app
  BY <1>6, ReadSelectStep, ReadPageStep, ReadCommandStep, UploadStep, StartAppStep
<1>7. CASE UNCHANGED vars
  <2>1. UNCHANGED <<dev, args, pc, hex, first, last, mem_page, retries, buffer, faults, sessions,
                    clean, partial>>
    BY <1>7 DEF vars, loops
  <2>2. TypeOK' /\ CommandInv' /\ RetryInv' /\ ImageInv' /\ SelectionInv'
    BY <2>1 DEF IInv, TypeOK, CommandInv, RetryInv, ImageInv, SelectionInv, IsWrite, IsDump,
                Area, Bottom, Top, Unit
  <2>3. BlockInv' /\ ChunkInv' /\ BlankInv' /\ CalmInv'
    BY <2>1 DEF IInv, BlockInv, ChunkInv, BlankInv, CalmInv, BlankBelow, IsWrite, Bottom, Top
  <2>4. BufferInv'
    BY <2>1 DEF IInv, BufferInv, Copied, Matches, IsWrite, IsDump, Area, Bottom, Top, Unit
  <2> QED BY <2>2, <2>3, <2>4 DEF IInv
<1> QED BY <1>1, <1>2, <1>3, <1>4, <1>5, <1>6, <1>7 DEF Next, Tool

\* The invariant holds in every behaviour.
LEMMA Invariance == Spec => []IInv
BY InitIInv, NextIInv, PTL DEF Spec

-----------------------------------------------------------------------------
(* Theorems                                                                 *)

\* Every variable has its type.
THEOREM TypeCorrect == Spec => []TypeOK
BY Invariance, PTL DEF IInv

\* An erasure reported good left the application blank, but for its last bytes.
THEOREM ErasureIsBlank == Spec => []ErasedIsBlank
<1>1. IInv => ErasedIsBlank
  <2> SUFFICES ASSUME IInv, pc = "done", args.command = "erase",
                      NEW a \in Application, a + BootSize < End
               PROVE  dev.memory["flash"][a] = Blank
    BY DEF ErasedIsBlank
  <2>1. BlankBelow(End - BootSize)
    BY DEF IInv, BlankInv
  <2>2. a < End - BootSize
    BY Sizes DEF Application
  <2> QED BY <2>1, <2>2 DEF BlankBelow
<1> QED BY <1>1, Invariance, PTL

\* A dump reported good is the memory that was asked for, byte by byte.
THEOREM DumpIsRight == Spec => []DumpIsTheMemory
<1>1. IInv => DumpIsTheMemory
  <2> SUFFICES ASSUME IInv, pc = "done", IsDump, ~ partial PROVE DumpIsTheMemory
    BY DEF DumpIsTheMemory, IsDump
  <2>1. Copied(Top)
    BY DEF IInv, BufferInv
  <2>2. /\ DOMAIN buffer = Bottom .. Top - 1
        /\ \A a \in DOMAIN buffer : buffer[a] = dev.memory[Unit][a]
    BY <2>1 DEF Copied
  <2>3. CASE args.command = "udump"
    BY <2>2, <2>3 DEF DumpIsTheMemory, Bottom, Top, Unit, OnUserPage
  <2>4. CASE args.command = "dump"
    BY <2>2, <2>4 DEF DumpIsTheMemory, Bottom, Top, Unit, OnUserPage, Application
  <2> QED BY <2>3, <2>4 DEF IsDump
<1> QED BY <1>1, Invariance, PTL

\* A write that was validated left every byte of its file in the device, for files
\* that set no byte twice to different values.
THEOREM ValidatedIsWritten ==
  ASSUME \A file \in Files : Regular(file)
  PROVE  Spec => []ValidatedImageIsWritten
<1>1. IInv => ValidatedImageIsWritten
  <2> SUFFICES ASSUME IInv, pc = "done", IsWrite, ~ args.suppress,
                      NEW c \in Contents(args.file)
               PROVE  \/ c[2] = Blank
                      \/ c[2] = {} /\ partial
                      \/ args.command = "flash" /\ args.skip /\ c[1] \in Bootloader
                      \/ dev.memory[Unit][c[1]] = c[2]
    BY DEF ValidatedImageIsWritten, IsWrite, Unit, OnUserPage
  <2> DEFINE loaded == Loaded[Top][args.file]
  <2>1. args.file \in Files /\ Top \in {End, UserSize}
    BY DEF IInv, TypeOK, CommandLines, IsWrite, Top
  <2>2. /\ loaded.state = "loaded"
        /\ hex = [a \in DOMAIN loaded.memory \cap Area |-> loaded.memory[a]]
        /\ DOMAIN loaded.memory \subseteq Area \/ args.skip
    BY DEF IInv, ImageInv
  <2>3. c[1] \in DOMAIN loaded.memory /\ loaded.memory[c[1]] = c[2]
    <3>1. Regular(args.file)
      BY <2>1
    <3> QED BY <2>1, <2>2, <3>1, LoadedIsContents
  <2>4. DOMAIN loaded.memory \subseteq 0 .. Top - 1
    <3>1. loaded \in Loading(Top)
      BY <2>1, ImageType
    <3> HIDE DEF loaded
    <3> QED BY <3>1 DEF Loading, Images
  <2> HIDE DEF loaded
  <2>5. Copied(Top) /\ Matches(buffer)
    BY DEF IInv, BufferInv
  <2>6. CASE c[1] \in Area
    <3>1. c[1] \in DOMAIN hex /\ hex[c[1]] = c[2] /\ c[1] \in DOMAIN buffer
      BY <2>2, <2>3, <2>5, <2>6 DEF Copied
    <3>2. c[2] # Blank => buffer[c[1]] = c[2]
      BY <2>5, <3>1 DEF Matches
    <3>3. c[1] < Top
      BY <2>6, Sizes DEF Area, Bottom, Top
    <3>4. \/ buffer[c[1]] = dev.memory[Unit][c[1]]
          \/ partial /\ buffer[c[1]] = {}
      BY <2>5, <2>6, <3>3 DEF Copied
    <3> QED BY <3>2, <3>4
  <2>7. CASE c[1] \notin Area
    <3>1. args.skip /\ c[1] \in 0 .. Top - 1
      BY <2>2, <2>3, <2>4, <2>7
    <3>2. args.command = "flash"
      BY <2>7, <3>1 DEF Area, Bottom, OnUserPage, IsWrite
    <3>3. c[1] \in Bootloader
      BY <2>7, <3>1, <3>2, Sizes DEF Area, Bottom, Top, OnUserPage, Bootloader
    <3> QED BY <3>1, <3>2, <3>3
  <2> QED BY <2>6, <2>7
<1> QED BY <1>1, Invariance, PTL

\* A request that leaves the memory alone does so however it ends.
LEMMA DownloadKeeps ==
  ASSUME dev \in Device, NEW next \in Device, next.memory = dev.memory, NEW ok, NEW stall,
         dfu_download(next, ok, stall)
  PROVE  dev'.memory = dev.memory
<1>1. dfu_transfer_out(dev.state \in Ready, Sent(next), ok, stall, "failed")
  BY DEF dfu_download, Sent
<1>2. dev' \in {dev, Stalled(dev), Sent(next)}
  BY <1>1 DEF dfu_transfer_out, Answered, Fault
<1>3. Stalled(dev).memory = dev.memory /\ Sent(next).memory = dev.memory
  BY StalledType, SentType
<1> QED BY <1>2, <1>3

\* Only an erasure and a block that is sent change a memory.
LEMMA MemoryKept ==
  ASSUME IInv, Next, pc \notin {"erase", "block"}
  PROVE  dev'.memory = dev.memory
<1>1. dev \in Device /\ mem_page \in 0 .. Pages /\ 0 \in 0 .. Pages
  BY Sizes DEF IInv, TypeOK
<1>2. \A state \in States :
        LET next == [dev EXCEPT !.state = state]
        IN next \in Device /\ next.memory = dev.memory
  BY <1>1 DEF Device
<1>3. \A unit \in {"flash", "user"} :
        LET next == [dev EXCEPT !.unit = unit]
        IN next \in Device /\ next.memory = dev.memory
  BY <1>1 DEF Device
<1>4. \A page \in 0 .. Pages :
        LET next == [dev EXCEPT !.page = page]
        IN next \in Device /\ next.memory = dev.memory
  BY <1>1 DEF Device
<1>6. LET next == [dev EXCEPT !.state = "IDLE", !.status = "OK"]
      IN next \in Device /\ next.memory = dev.memory
  BY <1>1 DEF Device, States
<1>7. Stalled(dev).memory = dev.memory
  BY <1>1, StalledType
<1>8. ASSUME NEW r, dfu_get_status(r) PROVE dev'.memory = dev.memory
  BY <1>1, <1>8 DEF dfu_get_status, Device
<1>9. CASE Start \/ Kill \/ FindBlock
  BY <1>9 DEF Start, Kill, FindBlock
<1>10. CASE dfu_make_idle
  BY <1>8, <1>10 DEF dfu_make_idle
<1>11. CASE MakeIdleRequest
  <2>1. dev' \in {dev, Stalled(dev), [dev EXCEPT !.state = "IDLE"],
                  [dev EXCEPT !.state = "IDLE", !.status = "OK"],
                  [dev EXCEPT !.state = "APP_DETACH"]}
    BY <1>11 DEF MakeIdleRequest, dfu_clear_status, dfu_abort, dfu_detach, dfu_transfer_out,
                 Answered, Fault
  <2> QED BY <1>2, <1>6, <1>7, <2>1 DEF States
<1>12. CASE MakeIdleReset
  BY <1>1, <1>12 DEF MakeIdleReset, Answered, Fault, Device
<1>13. CASE execute_command
  BY <1>13 DEF execute_command, execute_erase, execute_flash_normal, execute_flash_user_page,
               Image, execute_dump_normal, execute_dump_user_page, Execute
<1>14. CASE atmel_erase_flash
  BY <1>8, <1>14 DEF atmel_erase_flash, AwaitStatus
<1>15. CASE atmel_blank_check
  <2>1. CASE pc = "check_select"
    BY <1>1, <1>3, <1>15, <2>1, DownloadKeeps DEF atmel_blank_check
  <2>2. CASE pc = "check_page"
    BY <1>1, <1>4, <1>15, <2>2, DownloadKeeps DEF atmel_blank_check
  <2>3. CASE pc = "check"
    <3> DEFINE next == Checked(dev, CheckSize(first))
    <3>1. next \in Device /\ next.memory = dev.memory
      BY <1>1, CheckedType
    <3>2. \E ok : dfu_download(next, ok, "failed")
      BY <1>15, <2>3 DEF atmel_blank_check
    <3> HIDE DEF next
    <3> QED BY <1>1, <3>1, <3>2, DownloadKeeps
  <2>4. CASE pc = "check_status"
    BY <1>8, <1>15, <2>4 DEF atmel_blank_check, AwaitStatus
  <2> QED BY <1>15, <2>1, <2>2, <2>3, <2>4 DEF atmel_blank_check
<1>16. CASE atmel_select
  <2>1. \/ \E unit \in {"flash", "user"}, ok \in {"select_page0", "block"} :
             dfu_download([dev EXCEPT !.unit = unit], ok, "failed")
        \/ dfu_download([dev EXCEPT !.page = 0], "find", "failed")
    BY <1>16 DEF atmel_select
  <2> QED BY <1>1, <1>3, <1>4, <2>1, DownloadKeeps
<1>17. CASE atmel_select_page
  <2>1. \E page \in 0 .. Pages, ok \in {"find", Verify} :
          dfu_download([dev EXCEPT !.page = page], ok, "failed")
    BY <1>1, <1>17 DEF atmel_select_page
  <2> QED BY <1>1, <1>4, <2>1, DownloadKeeps
<1>18. CASE atmel_flash_block
  <2>1. CASE pc = "block_clear"
    <3>1. dev' \in {dev, Stalled(dev), [dev EXCEPT !.state = "IDLE", !.status = "OK"]}
      BY <1>18, <2>1 DEF atmel_flash_block, dfu_clear_status, dfu_transfer_out, Answered, Fault
    <3> QED BY <1>6, <1>7, <3>1
  <2>2. CASE pc = "block_status"
    BY <1>8, <1>18, <2>2 DEF atmel_flash_block
  <2> QED BY <1>18, <2>1, <2>2 DEF atmel_flash_block
<1>19. CASE ReadSelect
  <2>1. \E unit \in {"flash", "user"}, ok \in {"read", "read_page"} :
          dfu_download([dev EXCEPT !.unit = unit], ok, "failed")
    BY <1>19 DEF ReadSelect
  <2> QED BY <1>1, <1>3, <2>1, DownloadKeeps
<1>20. CASE ReadPage
  BY <1>1, <1>4, <1>20, DownloadKeeps DEF ReadPage
<1>21. CASE ReadCommand
  <2>1. dfu_download([dev EXCEPT !.state = "UPLOAD_IDLE"], "upload", "failed")
    BY <1>21 DEF ReadCommand
  <2>2. "UPLOAD_IDLE" \in States
    BY DEF States
  <2> QED BY <1>1, <1>2, <2>1, <2>2, DownloadKeeps
<1>22. CASE dfu_upload
  <2>1. dev' \in {dev, Stalled(dev), [dev EXCEPT !.state = "IDLE"]}
    BY <1>22 DEF dfu_upload, Answered, Fault
  <2>2. "IDLE" \in States
    BY DEF States
  <2> QED BY <1>2, <1>7, <2>1, <2>2
<1>23. CASE atmel_start_app
  <2>1. \/ dfu_download(dev, "manifest", "failed")
        \/ dfu_download([dev EXCEPT !.state = "GONE"], "done", "failed")
        \/ \E state \in {"GONE", "IDLE"} :
             dfu_download([dev EXCEPT !.state = state, !.unit = "flash", !.page = 0],
                          "done", "failed")
    BY <1>23 DEF atmel_start_app
  <2>2. {"GONE", "IDLE"} \subseteq States
    BY DEF States
  <2>3. PICK next \in Device, ok \in {"manifest", "done"} :
          next.memory = dev.memory /\ dfu_download(next, ok, "failed")
    <3>1. CASE dfu_download(dev, "manifest", "failed")
      BY <1>1, <3>1
    <3>2. CASE dfu_download([dev EXCEPT !.state = "GONE"], "done", "failed")
      <4> DEFINE gone == [dev EXCEPT !.state = "GONE"]
      <4>1. gone \in Device /\ gone.memory = dev.memory
        BY <1>2, <2>2
      <4>2. dfu_download(gone, "done", "failed")
        BY <3>2
      <4> HIDE DEF gone
      <4> QED BY <4>1, <4>2
    <3>3. ASSUME NEW state \in {"GONE", "IDLE"},
                 dfu_download([dev EXCEPT !.state = state, !.unit = "flash", !.page = 0],
                              "done", "failed")
          PROVE  \E next \in Device, ok \in {"manifest", "done"} :
                   /\ next.memory = dev.memory /\ dfu_download(next, ok, "failed")
      <4> DEFINE reset == [dev EXCEPT !.state = state, !.unit = "flash", !.page = 0]
      <4>1. reset \in Device /\ reset.memory = dev.memory
        BY <1>1, <2>2 DEF Device
      <4>2. dfu_download(reset, "done", "failed")
        BY <3>3
      <4> HIDE DEF reset
      <4> QED BY <4>1, <4>2
    <3> QED BY <2>1, <3>1, <3>2, <3>3
  <2> QED BY <1>1, <2>3, DownloadKeeps
<1> QED BY <1>9, <1>10, <1>11, <1>12, <1>13, <1>14, <1>15, <1>16, <1>17, <1>18, <1>19, <1>20,
           <1>21, <1>22, <1>23 DEF Next, Tool

\* Each byte of a block goes to its address in the memory that the write is about.
LEMMA BlockBytes ==
  ASSUME IInv, pc = "block"
  PROVE  /\ Len(Block) = BlockLength /\ BlockLength \in Nat
         /\ \A i \in 1 .. Len(Block) :
              /\ Where(dev, ((first % PageSize) + i - 1) % PageSize) = first + i - 1
              /\ first + i - 1 \in Nat
              /\ args.command = "flash" => first + i - 1 \in DOMAIN hex
              /\ Block[i] = IF first + i - 1 \in DOMAIN hex THEN hex[first + i - 1] ELSE Blank
<1> DEFINE low == mem_page * PageSize
<1>1. /\ dev.unit = Unit /\ first < last /\ last <= Top /\ args.command \in {"flash", "user"}
      /\ args.command = "flash" =>
           /\ low <= first /\ last <= low + PageSize
           /\ first .. last - 1 \subseteq DOMAIN hex
           /\ dev.page = mem_page
      /\ first \in 0 .. 2 * End /\ last \in 0 .. End /\ mem_page \in 0 .. Pages
  BY DEF IInv, TypeOK, CommandInv, BlockInv, SelectionInv, Writing, IsWrite, OnUserPage
<1>2. /\ PageSize \in Nat /\ PageSize > 0 /\ End \in Nat /\ UserSize \in Nat
      /\ UserSize <= PageSize /\ MaxTransfer \in Nat /\ MaxTransfer > 0 /\ Pages \in Nat
  BY Sizes
<1>3. first \in Nat /\ last \in Nat /\ mem_page \in Nat /\ low \in Nat
  <2>1. mem_page \in Nat
    BY <1>1, <1>2
  <2> QED BY <1>1, <1>2, <2>1
<1>4. BlockLength \in Nat /\ BlockLength <= last - first
  BY <1>2, <1>1, <1>3 DEF BlockLength, Least
<1>5. Len(Block) = BlockLength
  <2> DEFINE byte(i) == IF first + i - 1 \in DOMAIN hex THEN hex[first + i - 1] ELSE Blank
             S == {byte(i) : i \in 1 .. BlockLength}
  <2>1. Block \in [1 .. BlockLength -> S]
    BY DEF Block
  <2> HIDE DEF S
  <2>2. Block \in Seq(S)
    BY <1>4, <2>1
  <2> QED BY <1>4, <2>1, <2>2
<1> HIDE DEF low
<1>6. SUFFICES ASSUME NEW i \in 1 .. BlockLength
               PROVE  /\ Where(dev, ((first % PageSize) + i - 1) % PageSize) = first + i - 1
                      /\ first + i - 1 \in Nat
                      /\ args.command = "flash" => first + i - 1 \in DOMAIN hex
                      /\ Block[i] = IF first + i - 1 \in DOMAIN hex THEN hex[first + i - 1]
                                    ELSE Blank
  BY <1>4, <1>5
<1>7. /\ i \in Nat /\ 1 <= i /\ first + i - 1 \in Nat /\ first + i - 1 < last
      /\ first + i - 1 \in first .. last - 1
  BY <1>3, <1>4
<1>8. Block[i] = IF first + i - 1 \in DOMAIN hex THEN hex[first + i - 1] ELSE Blank
  BY DEF Block
<1>9. CASE args.command = "flash"
  <2>1. dev.unit = "flash" /\ dev.page = mem_page /\ low <= first /\ last <= low + PageSize
    BY <1>1, <1>9 DEF Unit, OnUserPage
  <2>2. first % PageSize = first - low
    <3>1. first < low + PageSize
      BY <1>1, <1>2, <1>3, <2>1
    <3> QED BY <1>3, <2>1, <3>1, OffsetInPage DEF low
  <2>3. first - low + (i - 1) \in 0 .. PageSize - 1
    BY <1>2, <1>3, <1>7, <2>1
  <2>4. (first - low + (i - 1)) % PageSize = first - low + (i - 1)
    BY <1>2, <2>3
  <2>5. ((first % PageSize) + i - 1) % PageSize = first - low + (i - 1)
    BY <2>2, <2>4
  <2>6. Where(dev, ((first % PageSize) + i - 1) % PageSize) = low + (first - low + (i - 1))
    BY <2>1, <2>5 DEF Where, low
  <2>7. low + (first - low + (i - 1)) = first + i - 1
    BY <1>3, <1>7
  <2> QED BY <1>1, <1>7, <1>8, <1>9, <2>6, <2>7
<1>10. CASE args.command = "user"
  <2>1. dev.unit = "user" /\ last <= UserSize
    BY <1>1, <1>10 DEF Unit, Top, OnUserPage
  <2>2. first % PageSize = first
    <3>1. first \in 0 .. PageSize - 1
      BY <1>1, <1>2, <1>3, <2>1
    <3> QED BY <1>2, <3>1
  <2>3. first + (i - 1) \in 0 .. PageSize - 1
    BY <1>2, <1>3, <1>7, <2>1
  <2>4. (first + (i - 1)) % PageSize = first + (i - 1)
    BY <1>2, <2>3
  <2>5. ((first % PageSize) + i - 1) % PageSize = first + (i - 1)
    BY <2>2, <2>4
  <2> QED BY <1>7, <1>8, <1>10, <2>1, <2>5 DEF Where
<1> QED BY <1>1, <1>9, <1>10

\* A write changes bytes of its image alone, each towards its value, and an erasure
\* and a write leave the boot loader as it is.
THEOREM OnlyImage == Spec => OnlyTheImageIsWritten
<1> DEFINE Touches(unit, a) ==
             \/ pc = "erase" /\ unit = "flash" /\ a \notin Bootloader
             \/ /\ pc = "block" /\ unit = (IF args.command = "user" THEN "user" ELSE "flash")
                /\ a \in DOMAIN hex /\ dev'.memory[unit][a] = dev.memory[unit][a] \cap hex[a]
                /\ unit = "flash" => a \notin Bootloader
<1>1. ASSUME IInv, Next, NEW unit \in {"flash", "user"}, NEW a \in DOMAIN dev.memory[unit],
             dev'.memory[unit][a] # dev.memory[unit][a]
      PROVE  Touches(unit, a)
  <2>1. dev \in Device /\ TypeOK
    BY <1>1 DEF IInv, TypeOK
  <2>2. /\ dev.memory["flash"] \in [0 .. End - 1 -> Byte]
        /\ dev.memory["user"] \in [0 .. UserSize - 1 -> Byte]
    BY <2>1 DEF Device
  <2>3. CASE pc = "erase"
    <3>1. PICK kept : dev'.memory \in {dev.memory, Erased(dev, kept).memory}
      <4>1. atmel_erase_flash
        BY <1>1, <2>3 DEF Next, Tool, Start, Kill, dfu_make_idle, MakeIdleRequest,
             MakeIdleReset, execute_command, execute_erase, execute_flash_normal,
             execute_flash_user_page, Image, execute_dump_normal, execute_dump_user_page,
             Execute, atmel_blank_check, atmel_select, FindBlock, atmel_select_page,
             atmel_flash_block, ReadSelect, ReadPage, ReadCommand, dfu_upload,
             atmel_start_app, Ended
      <4>2. CASE dfu_download(Erased(dev, {}), "erase_status", "failed")
        <5>1. Erased(dev, {}) \in Device
          BY <2>1, ErasedType
        <5> QED BY <2>1, <4>2, <5>1, Download
      <4>3. CASE \E b \in Application : Fault({Erased(dev, {b})}, "erase_status")
        BY <4>3 DEF Fault
      <4> QED BY <2>3, <4>1, <4>2, <4>3 DEF atmel_erase_flash
    <3>2. /\ Erased(dev, kept).memory["user"] = dev.memory["user"]
          /\ \A b \in 0 .. End - 1 :
               Erased(dev, kept).memory["flash"][b] =
                 IF b \in Application \ kept THEN Blank ELSE dev.memory["flash"][b]
      BY <2>1, ErasedType
    <3>3. unit = "flash" /\ a \in Application
      BY <1>1, <2>2, <3>1, <3>2
    <3>4. a \notin Bootloader
      BY <3>3, Sizes DEF Application, Bootloader
    <3> QED BY <2>3, <3>3, <3>4
  <2>4. CASE pc = "block"
    <3> DEFINE next == Programmed(dev, first % PageSize, Block)
    <3>1. /\ next \in Device
          /\ \A u \in {"flash", "user"} : u # dev.unit => next.memory[u] = dev.memory[u]
          /\ \A b \in DOMAIN dev.memory[dev.unit] :
               \/ next.memory[dev.unit][b] = dev.memory[dev.unit][b]
               \/ \E i \in 1 .. Len(Block) :
                    /\ b = Where(dev, ((first % PageSize) + i - 1) % PageSize)
                    /\ next.memory[dev.unit][b] = dev.memory[dev.unit][b] \cap Block[i]
      BY <2>1, ProgrammedType DEF ByteWritten
    <3>2. dev'.memory \in {dev.memory, next.memory}
      <4>1. atmel_flash_block
        BY <1>1, <2>4 DEF Next, Tool, Start, Kill, dfu_make_idle, MakeIdleRequest,
             MakeIdleReset, execute_command, execute_erase, execute_flash_normal,
             execute_flash_user_page, Image, execute_dump_normal, execute_dump_user_page,
             Execute, atmel_erase_flash, atmel_blank_check, atmel_select, FindBlock,
             atmel_select_page, ReadSelect, ReadPage, ReadCommand, dfu_upload,
             atmel_start_app, Ended
      <4>2. CASE dfu_download(next, "block_status", "block_clear")
        <5> HIDE DEF next
        <5> QED BY <2>1, <3>1, <4>2, Download
      <4>3. CASE Fault({[dev EXCEPT !.state = "DNLOAD_IDLE"],
                        [dev EXCEPT !.state = "ERROR", !.status = "ERROR"]}, "block_status")
        BY <2>1, <4>3 DEF Fault, Device
      <4> QED BY <2>4, <4>1, <4>2, <4>3 DEF atmel_flash_block
    <3>3. unit = dev.unit /\ dev'.memory = next.memory
      BY <1>1, <3>1, <3>2
    <3> HIDE DEF next
    <3>4. PICK i \in 1 .. Len(Block) :
            /\ a = Where(dev, ((first % PageSize) + i - 1) % PageSize)
            /\ dev'.memory[unit][a] = dev.memory[unit][a] \cap Block[i]
      BY <1>1, <3>1, <3>3
    <3>5. /\ a = first + i - 1
          /\ args.command = "flash" => a \in DOMAIN hex
          /\ Block[i] = IF a \in DOMAIN hex THEN hex[a] ELSE Blank
      BY <1>1, <2>4, <3>4, BlockBytes
    <3>6. a \in DOMAIN hex
      <4>1. dev.memory[unit][a] \in Byte
        BY <1>1, <2>2
      <4> QED BY <1>1, <3>4, <3>5, <4>1 DEF Byte, Blank
    <3>7. unit = Unit /\ args.command \in {"flash", "user"}
      BY <1>1, <2>4, <3>3 DEF IInv, SelectionInv, CommandInv, Writing, IsWrite
    <3>8. a \in Area
      BY <1>1, <2>4, <3>6, <3>7 DEF IInv, ImageInv, Writing, IsWrite
    <3>9. unit = "flash" => a \notin Bootloader
      BY <3>7, <3>8, Sizes DEF Unit, OnUserPage, Area, Bottom, Bootloader
    <3> QED BY <2>4, <3>4, <3>5, <3>6, <3>7, <3>9 DEF Unit, OnUserPage
  <2>5. CASE pc \notin {"erase", "block"}
    BY <1>1, <2>5, MemoryKept
  <2> QED BY <2>3, <2>4, <2>5
<1>2. IInv /\ [Next]_vars =>
        [\A unit \in {"flash", "user"} : \A a \in DOMAIN dev.memory[unit] :
           dev'.memory[unit][a] # dev.memory[unit][a] => Touches(unit, a)]_vars
  BY <1>1
<1> QED BY <1>2, Invariance, PTL DEF Spec, OnlyTheImageIsWritten

-----------------------------------------------------------------------------
(* A write that nothing disturbs                                            *)

\* Of the image below n, the memory has no bit that the image has not.
WrittenBelow(n) == \A a \in DOMAIN hex : a < n => dev.memory[Unit][a] \subseteq hex[a]

\* The device takes every block of the write, and what it then lacks of the image is
\* what programming cannot set.
CalmWrite ==
  /\ ~ partial /\ pc # "block_clear"
  /\ pc \in Writing \cup Reading =>
       /\ dev.status = "OK"
       /\ IF pc = "upload" THEN dev.state = "UPLOAD_IDLE" ELSE dev.state \in Ready
  /\ pc \in {"find", "next_page", "block"} => WrittenBelow(first)
  /\ pc = "block_status" => WrittenBelow(first + BlockLength)
  /\ pc \in {"block", "block_status"} /\ args.command = "user" => last = UserSize
  /\ pc \in {"reselect"} \cup Reading => WrittenBelow(Top)
  /\ pc \in Reading => ~ args.suppress
  /\ pc = "failed" => FileAtFault \/ (~ args.suppress /\ NeedsErasing)

CalmWriteInv == clean /\ IsWrite => CalmWrite

\* Most of it is about the transfers of the write.
LEMMA CalmBefore ==
  ASSUME pc' \in Preparing \cup {"execute", "done", "no_device", "killed"}, ~ partial'
  PROVE  CalmWrite'
  BY DEF CalmWrite, Preparing, Writing, Reading

\* The addresses of an image, and where its bytes come from.
LEMMA ImagePlace ==
  ASSUME IInv, IsWrite, pc \in Writing \cup Reading
  PROVE  /\ args.file \in Files /\ Top \in {End, UserSize} /\ Top \in Nat /\ Bottom \in Nat
         /\ dev.memory[Unit] \in [0 .. Top - 1 -> Byte] /\ Unit \in {"flash", "user"}
         /\ \A a \in DOMAIN hex : a \in Nat /\ Bottom <= a /\ a < Top
         /\ Regular(args.file) => \A a \in DOMAIN hex : <<a, hex[a]>> \in Contents(args.file)
<1> DEFINE loaded == Loaded[Top][args.file]
<1>1. args.file \in Files /\ Top \in {End, UserSize} /\ Unit \in {"flash", "user"}
  BY DEF IInv, TypeOK, CommandLines, IsWrite, Top, Unit
<1>2. Top \in Nat /\ Bottom \in Nat
  BY <1>1, Sizes DEF Bottom
<1>3. dev.memory[Unit] \in [0 .. Top - 1 -> Byte]
  BY DEF IInv, TypeOK, Device, Unit, Top
<1>4. /\ loaded.state = "loaded"
      /\ hex = [a \in DOMAIN loaded.memory \cap Area |-> loaded.memory[a]]
  BY DEF IInv, ImageInv
<1>5. ASSUME Regular(args.file), NEW a \in DOMAIN hex
      PROVE  <<a, hex[a]>> \in Contents(args.file)
  <2>1. <<a, loaded.memory[a]>> \in Contents(args.file)
    BY <1>1, <1>4, <1>5, LoadedIsContents
  <2> HIDE DEF loaded
  <2> QED BY <1>4, <2>1
<1>6. \A a \in DOMAIN hex : a \in Nat /\ Bottom <= a /\ a < Top
  BY <1>2, <1>4 DEF Area
<1> QED BY <1>1, <1>2, <1>3, <1>5, <1>6

\* A request that is answered, and that the tool goes on from.
LEMMA CalmDownload ==
  ASSUME IInv, CalmWriteInv, clean', IsWrite, pc \in (Writing \cup Reading) \ {"upload"},
         NEW next \in Device, next.status = dev.status,
         NEW ok, NEW stall, ok # stall, ok # "failed", dfu_download(next, ok, stall)
  PROVE  /\ CalmWrite /\ pc' = ok /\ dev'.status = "OK" /\ dev'.memory = next.memory
         /\ next.state = dev.state => dev'.state \in Ready
         /\ next.state = "UPLOAD_IDLE" => dev'.state = "UPLOAD_IDLE"
<1>1. /\ clean' => clean
      /\ clean' /\ dev.state \in Ready => pc' = ok
      /\ pc' = ok =>
           /\ dev'.memory = next.memory /\ dev'.status = next.status
           /\ dev'.state = IF next.state = "IDLE" THEN "DNLOAD_IDLE" ELSE next.state
  BY Download DEF IInv
<1>2. CalmWrite
  BY <1>1 DEF CalmWriteInv
<1>3. dev.status = "OK" /\ dev.state \in Ready
  BY <1>2 DEF CalmWrite
<1> QED BY <1>1, <1>2, <1>3 DEF Ready

\* The file of a write that does not begin is at fault.
LEMMA CalmCommand ==
  ASSUME IInv, CalmWriteInv, execute_command
  PROVE  CalmWriteInv'
<1> SUFFICES ASSUME clean', IsWrite' PROVE CalmWrite'
  BY DEF CalmWriteInv
<1>1. pc = "execute" /\ UNCHANGED <<dev, args, clean, partial>>
  BY DEF execute_command, execute_erase, execute_flash_normal, execute_flash_user_page, Image,
         execute_dump_normal, execute_dump_user_page, Execute
<1>2. /\ IsWrite /\ ~ partial /\ dev.status = "OK" /\ dev.state \in Ready
      /\ args.file \in Files /\ Top \in {End, UserSize}
  BY <1>1 DEF CalmWriteInv, CalmWrite, IInv, CalmInv, TypeOK, CommandLines, IsWrite, Ready, Top
<1> DEFINE loaded == Loaded[Top][args.file]
           dropped == IF args.command = "flash" THEN Bootloader ELSE {}
           overlap == DOMAIN loaded.memory \cap dropped
<1>3. pc' = IF loaded.state = "loaded" /\ (overlap = {} \/ args.skip) THEN "select" ELSE "failed"
  <2>1. CASE args.command = "flash"
    <3>1. Image("flash", End, Bootloader, Application) /\ Top = End /\ dropped = Bootloader
      BY <2>1 DEF execute_command, execute_erase, execute_flash_normal, execute_flash_user_page,
                  execute_dump_normal, execute_dump_user_page, Execute, Top, OnUserPage
    <3> QED BY <3>1 DEF Image, Execute
  <2>2. CASE args.command = "user"
    <3>1. /\ Image("user", UserSize, {}, 0 .. UserSize - 1) /\ Top = UserSize /\ dropped = {}
      BY <2>2 DEF execute_command, execute_erase, execute_flash_normal, execute_flash_user_page,
                  execute_dump_normal, execute_dump_user_page, Execute, Top, OnUserPage
    <3> QED BY <3>1 DEF Image, Execute
  <2> QED BY <1>2, <2>1, <2>2 DEF IsWrite
<1>4. CASE pc' = "select"
  BY <1>1, <1>2, <1>4 DEF CalmWrite, Reading
<1>5. CASE pc' # "select"
  <2>1. pc' = "failed" /\ ~ (loaded.state = "loaded" /\ (overlap = {} \/ args.skip))
    BY <1>3, <1>5
  <2>2. FileAtFault
    <3>1. SUFFICES ASSUME ~ FileAtFault PROVE FALSE
      OBVIOUS
    <3>2. /\ Writable(args.file, Top)
          /\ args.command = "flash" /\ ~ args.skip =>
               \A c \in Contents(args.file) : c[1] \notin Bootloader
      BY <1>2, <3>1 DEF FileAtFault, Top, OnUserPage, IsWrite
    <3>3. loaded.state = "loaded" /\ Regular(args.file)
      BY <1>2, <3>2, WritableLoads DEF Writable
    <3>4. \A a \in DOMAIN loaded.memory : <<a, loaded.memory[a]>> \in Contents(args.file)
      BY <1>2, <3>3, LoadedIsContents
    <3> HIDE DEF loaded
    <3>5. args.command = "flash" /\ ~ args.skip /\ overlap # {}
      BY <2>1, <3>3
    <3>6. PICK a \in DOMAIN loaded.memory : a \in Bootloader
      BY <3>5
    <3> QED BY <3>2, <3>4, <3>5, <3>6
  <2>3. FileAtFault'
    BY <1>1, <2>2 DEF FileAtFault
  <2> QED BY <1>1, <1>2, <2>1, <2>3 DEF CalmWrite, Writing, Reading
<1> QED BY <1>4, <1>5

\* Nothing of the image lies below its memory,
LEMMA CalmSelect ==
  ASSUME IInv, CalmWriteInv, atmel_select
  PROVE  CalmWriteInv'
<1> SUFFICES ASSUME clean', IsWrite' PROVE CalmWrite'
  BY DEF CalmWriteInv
<1>1. /\ pc \in {"select", "select_page0"} /\ pc \in (Writing \cup Reading) \ {"upload"}
      /\ UNCHANGED <<args, hex, partial>> /\ IsWrite /\ dev \in Device
  BY DEF atmel_select, Writing, Reading, IsWrite, IInv, TypeOK
<1>2. \A a \in DOMAIN hex : a \in Nat /\ Bottom <= a
  BY <1>1, ImagePlace
<1>3. CASE pc = "select" /\ args.command = "flash"
  <2> DEFINE next == [dev EXCEPT !.unit = "flash"]
  <2>1. next \in Device /\ next.state = dev.state /\ next.status = dev.status
    BY <1>1 DEF Device
  <2>2. dfu_download(next, "select_page0", "failed")
    BY <1>3 DEF atmel_select
  <2> HIDE DEF next
  <2>3. /\ CalmWrite /\ pc' = "select_page0" /\ dev'.status = "OK" /\ dev'.state \in Ready
    BY <1>1, <2>1, <2>2, CalmDownload
  <2> QED BY <1>1, <2>3 DEF CalmWrite, Reading
<1>4. CASE pc = "select_page0"
  <2> DEFINE next == [dev EXCEPT !.page = 0]
  <2>1. next \in Device /\ next.state = dev.state /\ next.status = dev.status
    <3>1. 0 \in 0 .. Pages
      BY Sizes
    <3> QED BY <1>1, <3>1 DEF Device
  <2>2. dfu_download(next, "find", "failed") /\ first' = BootSize
    BY <1>4 DEF atmel_select
  <2> HIDE DEF next
  <2>3. /\ CalmWrite /\ pc' = "find" /\ dev'.status = "OK" /\ dev'.state \in Ready
    BY <1>1, <2>1, <2>2, CalmDownload
  <2>4. WrittenBelow(first)'
    <3>1. Bottom = BootSize
      BY <1>4 DEF IInv, CommandInv, Bottom, OnUserPage
    <3> QED BY <1>1, <1>2, <2>2, <3>1, Sizes DEF WrittenBelow
  <2> QED BY <1>1, <2>3, <2>4 DEF CalmWrite, Reading
<1>5. CASE pc = "select" /\ args.command = "user"
  <2> DEFINE next == [dev EXCEPT !.unit = "user"]
  <2>1. next \in Device /\ next.state = dev.state /\ next.status = dev.status
    BY <1>1 DEF Device
  <2>2. dfu_download(next, "block", "failed") /\ first' = 0 /\ last' = UserSize
    BY <1>5 DEF atmel_select
  <2> HIDE DEF next
  <2>3. /\ CalmWrite /\ pc' = "block" /\ dev'.status = "OK" /\ dev'.state \in Ready
    BY <1>1, <2>1, <2>2, CalmDownload
  <2>4. WrittenBelow(first)'
    BY <1>1, <1>2, <2>2 DEF WrittenBelow
  <2> QED BY <1>1, <2>2, <2>3, <2>4 DEF CalmWrite, Reading
<1> QED BY <1>3, <1>4, <1>5 DEF atmel_select

\* nor between the end of a run of set bytes and the beginning of the next,
LEMMA CalmFind ==
  ASSUME IInv, CalmWriteInv, FindBlock
  PROVE  CalmWriteInv'
<1> SUFFICES ASSUME clean', IsWrite' PROVE CalmWrite'
  BY DEF CalmWriteInv
<1> DEFINE valid == {a \in DOMAIN hex : a >= first /\ a < End}
           from  == Min(valid)
<1>1. /\ pc = "find" /\ pc \in Writing \cup Reading
      /\ UNCHANGED <<dev, args, hex, clean, partial>> /\ IsWrite
      /\ args.command = "flash" /\ Top = End /\ first \in Nat
  <2>1. /\ pc = "find" /\ UNCHANGED <<dev, args, hex, clean, partial>>
    BY DEF FindBlock
  <2>2. first \in Nat
    BY Sizes DEF IInv, TypeOK
  <2> QED BY <2>1, <2>2 DEF Writing, IsWrite, IInv, CommandInv, Top, OnUserPage
<1>2. CalmWrite /\ WrittenBelow(first) /\ dev.status = "OK" /\ dev.state \in Ready /\ ~ partial
  BY <1>1 DEF CalmWriteInv, CalmWrite
<1>3. \A a \in DOMAIN hex : a \in Nat /\ a < End
  BY <1>1, ImagePlace
<1>4. CASE valid = {}
  <2>1. pc' \in {"reselect", Verify}
    BY <1>4 DEF FindBlock
  <2>2. WrittenBelow(Top)'
    <3>1. \A a \in DOMAIN hex : a < first
      BY <1>1, <1>3, <1>4
    <3> QED BY <1>1, <1>2, <3>1 DEF WrittenBelow, Unit
  <2>3. pc' \in {"reselect", "read_select", "done"} /\ (pc' = "read_select" => ~ args.suppress)
    BY <2>1 DEF Verify
  <2> QED BY <1>1, <1>2, <2>2, <2>3 DEF CalmWrite, Reading
<1>5. CASE valid # {}
  <2>1. first' = from /\ pc' \in {"next_page", "block"}
    BY <1>5 DEF FindBlock
  <2>2. \A a \in valid : from <= a
    <3>1. valid \subseteq Nat
      BY <1>3
    <3> HIDE DEF valid
    <3> QED BY <1>5, <3>1, LeastElement
  <2>3. from \in Nat
    <3>1. valid \subseteq Nat
      BY <1>3
    <3> HIDE DEF valid
    <3> QED BY <1>5, <3>1, LeastElement
  <2> HIDE DEF from
  <2>4. \A a \in DOMAIN hex : a < from => a < first
    BY <1>1, <1>3, <2>2, <2>3
  <2>5. WrittenBelow(first)'
    BY <1>1, <1>2, <2>1, <2>4 DEF WrittenBelow, Unit
  <2> QED BY <1>1, <1>2, <2>1, <2>5 DEF CalmWrite, Reading
<1> QED BY <1>4, <1>5

\* and a page that is selected changes no memory.
LEMMA CalmSelectPage ==
  ASSUME IInv, CalmWriteInv, atmel_select_page
  PROVE  CalmWriteInv'
<1> SUFFICES ASSUME clean', IsWrite' PROVE CalmWrite'
  BY DEF CalmWriteInv
<1>1. /\ pc \in {"next_page", "reselect"} /\ pc \in (Writing \cup Reading) \ {"upload"}
      /\ UNCHANGED <<args, hex, first, partial>> /\ IsWrite
      /\ dev \in Device /\ mem_page \in 0 .. Pages /\ 0 \in 0 .. Pages
  BY Sizes DEF atmel_select_page, loops, Writing, Reading, IsWrite, IInv, TypeOK
<1>2. PICK page \in 0 .. Pages :
        \/ pc = "next_page" /\ dfu_download([dev EXCEPT !.page = page], "find", "failed")
        \/ pc = "reselect"  /\ dfu_download([dev EXCEPT !.page = page], Verify, "failed")
  BY <1>1 DEF atmel_select_page
<1> DEFINE next == [dev EXCEPT !.page = page]
           ok == IF pc = "next_page" THEN "find" ELSE Verify
<1>3. /\ next \in Device /\ next.state = dev.state /\ next.status = dev.status
      /\ next.memory = dev.memory
  BY <1>1 DEF Device
<1>4. dfu_download(next, ok, "failed") /\ ok # "failed"
  BY <1>2 DEF Verify
<1> HIDE DEF next
<1>5. /\ CalmWrite /\ pc' = ok /\ dev'.status = "OK" /\ dev'.state \in Ready
      /\ dev'.memory = dev.memory
  <2> HIDE DEF ok
  <2> QED BY <1>1, <1>3, <1>4, CalmDownload
<1>6. CASE pc = "next_page"
  <2>1. pc' = "find" /\ WrittenBelow(first)
    BY <1>5, <1>6 DEF CalmWrite
  <2>2. WrittenBelow(first)'
    BY <1>1, <1>5, <2>1 DEF WrittenBelow, Unit
  <2> QED BY <1>1, <1>5, <2>1, <2>2 DEF CalmWrite, Reading
<1>7. CASE pc = "reselect"
  <2>1. pc' \in {"read_select", "done"} /\ (pc' = "read_select" => ~ args.suppress)
    BY <1>5, <1>7 DEF Verify
  <2>2. WrittenBelow(Top)
    BY <1>5, <1>7 DEF CalmWrite
  <2>3. WrittenBelow(Top)'
    BY <1>1, <1>5, <2>2 DEF WrittenBelow, Unit, Top
  <2> QED BY <1>1, <1>5, <2>1, <2>3 DEF CalmWrite, Reading
<1> QED BY <1>1, <1>6, <1>7

\* A block that the device takes leaves none of its bytes with a bit too many.
LEMMA CalmBlock ==
  ASSUME IInv, CalmWriteInv, atmel_flash_block
  PROVE  CalmWriteInv'
<1> SUFFICES ASSUME clean', IsWrite' PROVE CalmWrite'
  BY DEF CalmWriteInv
<1>1. /\ pc \in {"block", "block_clear", "block_status"}
      /\ pc \in (Writing \cup Reading) \ {"upload"}
      /\ UNCHANGED <<args, hex, last, partial>> /\ IsWrite
      /\ TypeOK /\ dev \in Device /\ (dev.unit = Unit \/ pc = "block_clear")
      /\ first \in Nat /\ last \in Nat /\ MaxTransfer \in Nat
  <2>1. first \in Nat /\ last \in Nat /\ MaxTransfer \in Nat
    BY Sizes DEF IInv, TypeOK
  <2> QED BY <2>1 DEF atmel_flash_block, Writing, Reading, IsWrite, IInv, TypeOK, SelectionInv
<1>2. /\ Top \in Nat /\ dev.memory[Unit] \in [0 .. Top - 1 -> Byte] /\ Unit \in {"flash", "user"}
      /\ \A a \in DOMAIN hex : a \in Nat /\ a < Top
  BY <1>1, ImagePlace
<1>3. CASE pc = "block"
  <2> DEFINE next == Programmed(dev, first % PageSize, Block)
             At(a, i) == a = Where(dev, ((first % PageSize) + i - 1) % PageSize)
             old == dev.memory[Unit]
             new == next.memory[Unit]
  <2>1. dfu_download(next, "block_status", "block_clear") /\ first' = first
    BY <1>3 DEF atmel_flash_block, Fault
  <2>2. /\ next \in Device /\ next.state = dev.state /\ next.status = dev.status
        /\ \A a \in DOMAIN old :
             \/ new[a] = old[a] /\ \A i \in 1 .. Len(Block) : ~ At(a, i)
             \/ \E i \in 1 .. Len(Block) : At(a, i) /\ new[a] = old[a] \cap Block[i]
    <3>1. dev \in Device /\ dev.unit = Unit
      BY <1>1, <1>3
    <3>2. next \in Device /\ next.state = dev.state /\ next.status = dev.status
      BY <3>1, ProgrammedType
    <3>3. \A a \in DOMAIN dev.memory[dev.unit] :
            ByteWritten(dev, first % PageSize, Block, a)
      BY <3>1, ProgrammedType
    <3> QED BY <3>1, <3>2, <3>3 DEF ByteWritten
  <2>3. /\ Len(Block) = BlockLength /\ BlockLength \in Nat
        /\ \A i \in 1 .. Len(Block) :
             /\ Where(dev, ((first % PageSize) + i - 1) % PageSize) = first + i - 1
             /\ Block[i] = IF first + i - 1 \in DOMAIN hex THEN hex[first + i - 1] ELSE Blank
    BY <1>3, BlockBytes
  <2>4. \A i \in 1 .. Len(Block) : \A a : At(a, i) <=> a = first + i - 1
    BY <2>3
  <2> HIDE DEF next, At
  <2>5. /\ CalmWrite /\ pc' = "block_status" /\ dev'.status = "OK" /\ dev'.state \in Ready
        /\ dev'.memory = next.memory
    BY <1>1, <2>1, <2>2, CalmDownload
  <2>6. WrittenBelow(first)
    BY <1>3, <2>5 DEF CalmWrite
  <2>7. ASSUME NEW a \in DOMAIN hex, a < first + BlockLength
        PROVE  new[a] \subseteq hex[a]
    <3>1. a \in DOMAIN old /\ a \in Nat
      BY <1>2
    <3>2. CASE a < first
      <4>1. new[a] \subseteq old[a]
        BY <2>2, <3>1
      <4> QED BY <2>6, <3>2, <4>1 DEF WrittenBelow
    <3>3. CASE ~ (a < first)
      <4> DEFINE i == a - first + 1
      <4>1. i \in 1 .. Len(Block) /\ a = first + i - 1
        BY <1>1, <2>3, <2>7, <3>1, <3>3
      <4>2. PICK j \in 1 .. Len(Block) : At(a, j) /\ new[a] = old[a] \cap Block[j]
        BY <2>2, <2>4, <3>1, <4>1
      <4>3. a = first + j - 1
        BY <2>4, <4>2
      <4>4. Block[j] = hex[a]
        BY <2>3, <4>3
      <4> QED BY <4>2, <4>4
    <3> QED BY <3>2, <3>3
  <2>8. BlockLength' = BlockLength /\ Unit' = Unit
    BY <1>1, <2>1 DEF BlockLength, Unit
  <2>9. WrittenBelow(first + BlockLength)'
    BY <1>1, <2>1, <2>5, <2>7, <2>8 DEF WrittenBelow
  <2>10. args'.command = "user" => last' = UserSize
    BY <1>1, <1>3, <2>5 DEF CalmWrite
  <2> QED BY <1>1, <2>5, <2>9, <2>10 DEF CalmWrite, Reading
<1>4. CASE pc = "block_clear"
  <2>1. clean' => clean
    BY <1>4 DEF atmel_flash_block, dfu_clear_status, dfu_transfer_out, Answered, Fault
  <2> QED BY <1>1, <1>4, <2>1 DEF CalmWriteInv, CalmWrite
<1>5. CASE pc = "block_status"
  <2>1. PICK r \in StatusReplies :
          /\ dfu_get_status(r)
          /\ IF r.code = 0 /\ r.status = "OK"
             THEN /\ first' = first + BlockLength
                  /\ pc' = CASE first' < last -> "block"
                             [] first' = last /\ args.command = "flash" -> "find"
                             [] first' = last /\ args.command = "user"  -> Verify
             ELSE pc' = "failed" /\ UNCHANGED first
    BY <1>5 DEF atmel_flash_block
  <2>2. /\ dev'.memory = dev.memory /\ dev'.status = dev.status
        /\ dev'.state = IF dev.state = "SYNC" THEN "DNLOAD_IDLE" ELSE dev.state
        /\ clean /\ r.code = 0 /\ r.status = dev.status
    BY <1>1, <2>1, StatusReply
  <2>3. /\ CalmWrite /\ WrittenBelow(first + BlockLength) /\ ~ partial
        /\ dev.status = "OK" /\ dev.state \in Ready
        /\ args.command = "user" => last = UserSize
    BY <1>1, <1>5, <2>2 DEF CalmWriteInv, CalmWrite
  <2>4. dev'.status = "OK" /\ dev'.state \in Ready
    BY <2>2, <2>3 DEF Ready
  <2>5. /\ first' = first + BlockLength
        /\ pc' = CASE first' < last -> "block"
                   [] first' = last /\ args.command = "flash" -> "find"
                   [] first' = last /\ args.command = "user"  -> Verify
    BY <2>1, <2>2, <2>3
  <2>6. first' \in Nat /\ first' <= last
    <3>1. first < last
      BY <1>5 DEF IInv, BlockInv
    <3> QED BY <1>1, <2>5, <3>1 DEF BlockLength, Least
  <2>7. WrittenBelow(first)'
    BY <1>1, <2>2, <2>3, <2>5 DEF WrittenBelow, Unit
  <2>8. CASE first' < last
    <3>1. pc' = "block" /\ (args'.command = "user" => last' = UserSize)
      BY <1>1, <2>3, <2>5, <2>6, <2>8
    <3> QED BY <1>1, <2>3, <2>4, <2>7, <3>1 DEF CalmWrite, Reading
  <2>9. CASE first' = last /\ args.command = "flash"
    <3>1. pc' = "find"
      BY <2>5, <2>6, <2>9
    <3> QED BY <1>1, <2>3, <2>4, <2>7, <3>1 DEF CalmWrite, Reading
  <2>10. CASE first' = last /\ args.command = "user"
    <3>1. pc' = Verify /\ first' = Top'
      BY <1>1, <2>3, <2>5, <2>6, <2>10 DEF Top, OnUserPage
    <3>2. pc' \in {"read_select", "done"} /\ (pc' = "read_select" => ~ args.suppress)
      BY <3>1 DEF Verify
    <3>3. WrittenBelow(Top)'
      BY <2>7, <3>1 DEF WrittenBelow
    <3> QED BY <1>1, <2>3, <2>4, <3>2, <3>3 DEF CalmWrite, Reading
  <2> QED BY <1>1, <2>6, <2>8, <2>9, <2>10 DEF IsWrite
<1> QED BY <1>1, <1>3, <1>4, <1>5

\* Reading back changes nothing,
LEMMA CalmReading ==
  ASSUME IInv, CalmWriteInv, ReadSelect \/ ReadPage \/ ReadCommand
  PROVE  CalmWriteInv'
<1> SUFFICES ASSUME clean', IsWrite' PROVE CalmWrite'
  BY DEF CalmWriteInv
<1>1. /\ pc \in {"read_select", "read_page", "read"} /\ pc \in Reading
      /\ pc \in (Writing \cup Reading) \ {"upload"}
      /\ UNCHANGED <<args, hex, partial>> /\ IsWrite /\ dev \in Device /\ mem_page \in 0 .. Pages
  BY DEF ReadSelect, ReadPage, ReadCommand, loops, Writing, Reading, IsWrite, IInv, TypeOK
<1>2. PICK next \in Device, ok \in {"read_page", "read", "upload"} :
        /\ dfu_download(next, ok, "failed")
        /\ next.status = dev.status /\ next.memory = dev.memory
        /\ next.state = IF ok = "upload" THEN "UPLOAD_IDLE" ELSE dev.state
  <2>1. CASE ReadSelect
    <3> DEFINE next == [dev EXCEPT !.unit = Unit]
    <3>1. /\ next \in Device /\ next.status = dev.status /\ next.memory = dev.memory
          /\ next.state = dev.state
      BY <1>1 DEF Device, Unit
    <3>2. \E ok \in {"read_page", "read"} : dfu_download(next, ok, "failed")
      BY <2>1 DEF ReadSelect, Unit
    <3> HIDE DEF next
    <3> QED BY <3>1, <3>2
  <2>2. CASE ReadPage
    <3> DEFINE next == [dev EXCEPT !.page = mem_page]
    <3>1. /\ next \in Device /\ next.status = dev.status /\ next.memory = dev.memory
          /\ next.state = dev.state
      BY <1>1 DEF Device
    <3>2. dfu_download(next, "read", "failed")
      BY <2>2 DEF ReadPage
    <3> HIDE DEF next
    <3> QED BY <3>1, <3>2
  <2>3. CASE ReadCommand
    <3> DEFINE next == [dev EXCEPT !.state = "UPLOAD_IDLE"]
    <3>1. /\ next \in Device /\ next.status = dev.status /\ next.memory = dev.memory
          /\ next.state = "UPLOAD_IDLE"
      BY <1>1 DEF Device, States
    <3>2. dfu_download(next, "upload", "failed")
      BY <2>3 DEF ReadCommand
    <3> HIDE DEF next
    <3> QED BY <3>1, <3>2
  <2> QED BY <2>1, <2>2, <2>3
<1>3. /\ CalmWrite /\ pc' = ok /\ dev'.status = "OK" /\ dev'.memory = dev.memory
      /\ IF pc' = "upload" THEN dev'.state = "UPLOAD_IDLE" ELSE dev'.state \in Ready
  <2>1. ok # "failed"
    BY <1>2
  <2> QED BY <1>1, <1>2, <2>1, CalmDownload
<1>4. WrittenBelow(Top) /\ ~ args.suppress /\ ~ partial
  BY <1>1, <1>3 DEF CalmWrite
<1>5. WrittenBelow(Top)'
  BY <1>1, <1>3, <1>4 DEF WrittenBelow, Unit, Top
<1> QED BY <1>1, <1>2, <1>3, <1>4, <1>5 DEF CalmWrite, Reading

\* and what differs from the image is a byte that lacks bits of it.
LEMMA CalmUpload ==
  ASSUME IInv, CalmWriteInv, dfu_upload
  PROVE  CalmWriteInv'
<1> SUFFICES ASSUME clean', IsWrite' PROVE CalmWrite'
  BY DEF CalmWriteInv
<1> DEFINE size == Least(last - first, MaxTransfer)
           read == [a \in first .. first + size - 1 |->
                      dev.memory[dev.unit][Where(dev, a % PageSize)]]
           got  == Over(read, buffer)
<1>1. /\ pc = "upload" /\ pc \in Reading /\ pc \in Writing \cup Reading
      /\ UNCHANGED <<args, hex>> /\ IsWrite /\ dev \in Device
      /\ dev.unit = Unit /\ Copied(first)
  BY DEF dfu_upload, Reading, IsWrite, IInv, TypeOK, SelectionInv, BufferInv
<1>2. /\ dev' = [dev EXCEPT !.state = "IDLE"] /\ clean /\ UNCHANGED partial
      /\ pc' = IF first + size < last THEN "read"
               ELSE IF first + size < Top THEN "read_page" ELSE Compared(got)
  BY DEF dfu_upload, Answered, Fault, Top
<1>3. /\ dev'.state \in Ready /\ dev'.status = dev.status /\ dev'.memory = dev.memory
  BY <1>1, <1>2 DEF Device, Ready
<1>4. /\ dev.status = "OK" /\ WrittenBelow(Top) /\ ~ args.suppress /\ ~ partial
  BY <1>1, <1>2 DEF CalmWriteInv, CalmWrite
<1>5. WrittenBelow(Top)'
  BY <1>1, <1>3, <1>4 DEF WrittenBelow, Unit, Top
<1>6. CASE pc' \in {"read", "read_page"}
  BY <1>1, <1>2, <1>3, <1>4, <1>5, <1>6 DEF CalmWrite, Reading
<1>7. CASE pc' = "done"
  BY <1>2, <1>4, <1>7, CalmBefore
<1>8. CASE pc' \notin {"read", "read_page", "done"}
  <2>1. /\ pc' = "failed" /\ ~ Matches(got)
        /\ ~ (first + size < last) /\ ~ (first + size < Top)
    BY <1>2, <1>8 DEF Compared
  <2>2. /\ first \in Nat /\ last \in Nat /\ first < last
        /\ \A a \in first .. last - 1 : Where(dev, a % PageSize) = a
    BY <1>1, ChunkPlace
  <2>3. /\ Top \in Nat /\ dev.memory[Unit] \in [0 .. Top - 1 -> Byte]
        /\ \A a \in DOMAIN hex : a \in Nat /\ Bottom <= a /\ a < Top
        /\ Regular(args.file) => \A a \in DOMAIN hex : <<a, hex[a]>> \in Contents(args.file)
    BY <1>1, ImagePlace
  <2>4. size \in Nat /\ first + size <= last
    BY <2>2, Sizes DEF Least
  <2>5. \A a \in first .. first + size - 1 : read[a] = dev.memory[Unit][a]
    <3>1. \A a \in first .. first + size - 1 : a \in first .. last - 1
      BY <2>2, <2>4
    <3> QED BY <1>1, <2>2, <3>1
  <2>6. /\ DOMAIN read = first .. first + size - 1
        /\ \A a \in DOMAIN got :
             got[a] = IF a \in DOMAIN read THEN read[a] ELSE buffer[a]
        /\ DOMAIN got = DOMAIN read \cup DOMAIN buffer
    BY DEF Over
  <2>7. PICK a \in DOMAIN hex : a \in DOMAIN got /\ hex[a] # Blank /\ got[a] # hex[a]
    BY <2>1 DEF Matches
  <2> HIDE DEF size, read, got
  <2>8. got[a] = dev.memory[Unit][a]
    <3>1. CASE a \in DOMAIN read
      BY <2>5, <2>6, <2>7, <3>1
    <3>2. CASE a \notin DOMAIN read
      <4>1. a < first /\ a \in Area
        BY <1>1, <2>1, <2>2, <2>3, <2>4, <2>6, <2>7, <3>2 DEF Copied
      <4>2. buffer[a] = dev.memory[Unit][a]
        BY <1>1, <1>4, <4>1 DEF Copied
      <4> QED BY <2>6, <2>7, <3>2, <4>2
    <3> QED BY <3>1, <3>2
  <2>9. ~ (hex[a] \subseteq dev.memory[Unit][a])
    <3>1. dev.memory[Unit][a] \subseteq hex[a]
      BY <1>4, <2>3 DEF WrittenBelow
    <3> QED BY <2>7, <2>8, <3>1
  <2>10. ASSUME Regular(args.file) PROVE NeedsErasing
    <3> DEFINE c == <<a, hex[a]>>
    <3>1. c \in Contents(args.file) /\ c[1] = a /\ c[2] = hex[a]
      BY <2>3, <2>10
    <3>2. a \in DOMAIN dev.memory[Unit] /\ (Unit = "flash" => a \notin Bootloader)
      BY <2>3, Sizes DEF Bottom, Bootloader, Unit
    <3>3. Unit = IF args.command = "user" THEN "user" ELSE "flash"
      BY <1>1 DEF Unit, OnUserPage, IsWrite
    <3> HIDE DEF c
    <3> QED BY <2>7, <2>9, <3>1, <3>2, <3>3 DEF NeedsErasing
  <2>11. FileAtFault \/ NeedsErasing
    BY <2>10 DEF FileAtFault, Writable
  <2>12. FileAtFault' \/ NeedsErasing'
    BY <1>1, <1>3, <2>11 DEF FileAtFault, NeedsErasing
  <2> QED BY <1>1, <1>2, <1>4, <2>1, <2>12 DEF CalmWrite, Writing, Reading
<1> QED BY <1>6, <1>7, <1>8

\* Every step keeps it: what is not a write, and what comes before one, does not matter.
LEMMA CalmWriteStep == IInv /\ CalmWriteInv /\ [Next]_vars => CalmWriteInv'
<1> SUFFICES ASSUME IInv, CalmWriteInv, [Next]_vars PROVE CalmWriteInv'
  OBVIOUS
<1>1. CASE Start
  <2>1. pc' \in {"make_idle", "no_device"} /\ ~ partial'
    BY <1>1 DEF Start
  <2> QED BY <2>1, CalmBefore DEF CalmWriteInv, Preparing
<1>2. ASSUME UNCHANGED <<args, partial>>, clean' => clean,
             pc' \in Preparing \cup {"execute", "no_device", "killed"}
      PROVE  CalmWriteInv'
  BY <1>2, CalmBefore DEF CalmWriteInv, CalmWrite, IsWrite
<1>3. CASE Kill
  BY <1>2, <1>3 DEF Kill
<1>4. CASE dfu_make_idle
  <2>1. PICK r \in StatusReplies :
          /\ dfu_get_status(r)
          /\ pc' = CASE r.code # 0 -> "clear_again"
                     [] r.code = 0 /\ r.state = "IDLE" /\ r.status = "OK" -> "execute"
                     [] r.code = 0 /\ (r.state = "ERROR" \/ (r.state = "IDLE" /\ r.status # "OK"))
                          -> "clear"
                     [] r.code = 0 /\ r.state \in {"SYNC", "DNLOAD_IDLE", "UPLOAD_IDLE", "BUSY"}
                          -> "abort"
                     [] r.code = 0 /\ r.state = "APP_IDLE" -> "detach"
                     [] r.code = 0 /\ r.state \in {"APP_DETACH", "WAIT_RESET"} -> "reset"
    BY <1>4 DEF dfu_make_idle
  <2>2. dev.state \in States \ {"GONE"}
    BY <1>4 DEF dfu_make_idle, IInv, TypeOK, Device, CommandInv, Ended
  <2>3. /\ clean' => clean
        /\ r.code \in {0, -2} /\ r.status \in {"OK", "ERROR"} /\ r.state \in {dev.state, "ERROR"}
    BY <2>1, StatusReply DEF IInv
  <2>4. pc' \in Preparing \cup {"execute"}
    BY <2>1, <2>2, <2>3 DEF States, Preparing
  <2> QED BY <1>2, <1>4, <2>3, <2>4 DEF dfu_make_idle
<1>5. CASE MakeIdleRequest
  <2>1. /\ clean' => clean
        /\ pc' \in {"make_idle", "no_device"}
    BY <1>5 DEF MakeIdleRequest, dfu_clear_status, dfu_abort, dfu_detach, dfu_transfer_out,
                Answered, Fault
  <2> QED BY <1>2, <1>5, <2>1 DEF MakeIdleRequest, Preparing
<1>6. CASE MakeIdleReset
  BY <1>2, <1>6 DEF MakeIdleReset, Answered, Fault, Preparing
<1>7. CASE atmel_erase_flash \/ atmel_blank_check \/ atmel_start_app
  <2>1. pc \in Erasing \cup Leaving /\ args' = args
    BY <1>7 DEF atmel_erase_flash, atmel_blank_check, atmel_start_app, Erasing, Leaving
  <2>2. ~ IsWrite'
    BY <2>1 DEF IInv, CommandInv, IsWrite
  <2> QED BY <2>2 DEF CalmWriteInv
<1>8. CASE execute_command \/ atmel_select \/ FindBlock \/ atmel_select_page
             \/ atmel_flash_block
  BY <1>8, CalmCommand, CalmSelect, CalmFind, CalmSelectPage, CalmBlock
<1>9. CASE ReadSelect \/ ReadPage \/ ReadCommand \/ dfu_upload
  BY <1>9, CalmReading, CalmUpload
<1>10. CASE UNCHANGED vars
  <2>1. UNCHANGED <<dev, args, pc, hex, first, last, clean, partial>>
    BY <1>10 DEF vars, loops
  <2> QED BY <2>1 DEF CalmWriteInv, CalmWrite, WrittenBelow, BlockLength, FileAtFault,
                      NeedsErasing, IsWrite, Unit, Top
<1> QED BY <1>1, <1>3, <1>4, <1>5, <1>6, <1>7, <1>8, <1>9, <1>10 DEF Next, Tool

\* A tool that nothing disturbs makes the device idle from every state, within the
\* retries that it has, and ends well; a write, too, unless its file is at fault or its
\* validation meets a memory that lacked bits of the image.
THEOREM UndisturbedSucceed == Spec => []UndisturbedRunsSucceed
<1>1. Init => CalmWriteInv
  BY CalmBefore DEF Init, CalmWriteInv, CalmWrite, IsWrite, Writing, Reading
<1>2. IInv /\ CalmWriteInv => UndisturbedRunsSucceed
  BY DEF IInv, CalmInv, CalmWriteInv, CalmWrite, UndisturbedRunsSucceed, IsWrite
<1> QED BY <1>1, <1>2, CalmWriteStep, Invariance, PTL DEF Spec

=============================================================================
