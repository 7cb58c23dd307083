---------------------------- MODULE HostApiProofs ----------------------------
(***************************************************************************)
(* Theorems about HostApi, for arrays and packets of any size, endpoints   *)
(* that hold any number of packets and any calls.                          *)
(***************************************************************************)
EXTENDS HostApi, Integers, FiniteSetTheorems, FunctionTheorems,
        SequenceTheorems, WellFoundedInduction, TLAPS

-----------------------------------------------------------------------------
(* Constants *)

\* One call of several asks for the most items.
LEMMA LongestCall == \E c \in Calls : \A d \in Calls : d.nb <= c.nb
<1> DEFINE Longest(T) == \E c \in T : \A d \in T : d.nb <= c.nb
           Bad == {n \in Nat : \E T \in SUBSET Calls :
                      T # {} /\ Cardinality(T) = n /\ ~Longest(T)}
<1>0. \A c \in Calls : c.nb \in Nat
  BY CallsAssumption DEF ConfCalls, CalibCalls, ValueCalls, ActiveCalls
<1>f. ASSUME NEW T \in SUBSET Calls
      PROVE  IsFiniteSet(T) /\ Cardinality(T) \in Nat
  <2>1. IsFiniteSet(T)
    BY CallsAssumption, FS_Subset
  <2> QED BY <2>1, FS_CardinalityType
<1>1. Bad = {}
  <2> SUFFICES ASSUME Bad # {} PROVE FALSE
    OBVIOUS
  <2> DEFINE Less == OpToRel(<, Nat)
  <2>1. IsWellFoundedOn(Less, Nat)
    BY NatLessThanWellFounded
  <2>2. ASSUME NEW m \in Nat, NEW n \in Nat, n < m
        PROVE  <<n, m>> \in Less
    BY <2>2 DEF OpToRel
  <2> HIDE DEF Less
  <2>3. PICK m \in Bad : \A n \in Bad : <<n, m>> \notin Less
    <3>1. Bad \in SUBSET Nat
      OBVIOUS
    <3> HIDE DEF Bad
    <3> QED BY <2>1, <3>1, WFMin
  <2>4. PICK T \in SUBSET Calls : T # {} /\ Cardinality(T) = m /\ ~Longest(T)
    BY <2>3
  <2>5. PICK x \in T : TRUE
    BY <2>4
  <2> DEFINE U == T \ {x}
  <2>6. U \in SUBSET Calls /\ Cardinality(U) = m - 1 /\ m - 1 \in Nat
    <3>1. IsFiniteSet(T) /\ Cardinality(T) \in Nat /\ Cardinality(T) # 0
      BY <1>f, <2>4, FS_EmptySet
    <3>2. Cardinality(T \ {x}) = Cardinality(T) - 1
      BY <2>5, <3>1, FS_RemoveElement
    <3> QED BY <2>4, <3>1, <3>2
  <2>7. m - 1 \notin Bad
    <3>1. m \in Nat /\ m - 1 \in Nat /\ m - 1 < m
      BY <2>3, <2>6
    <3>2. <<m - 1, m>> \in Less
      BY <2>2, <3>1
    <3> QED BY <2>3, <3>2
  <2>8. U = {} \/ Longest(U)
    BY <2>6, <2>7
  <2>9. CASE U = {}
    <3>1. \A d \in T : d = x
      BY <2>9
    <3> QED BY <1>0, <2>4, <2>5, <3>1
  <2>10. CASE Longest(U)
    <3>1. PICK c \in U : \A d \in U : d.nb <= c.nb
      BY <2>10
    <3>2. \A d \in T : d = x \/ d \in U
      OBVIOUS
    <3>3. x.nb \in Nat /\ c.nb \in Nat /\ c \in T /\ \A d \in T : d.nb \in Nat
      BY <1>0, <2>5, <3>1
    <3>4. CASE x.nb <= c.nb
      BY <2>4, <3>1, <3>2, <3>3, <3>4
    <3>5. CASE c.nb < x.nb
      <4>1. \A d \in T : d.nb <= x.nb
        BY <3>1, <3>2, <3>3, <3>5
      <4> QED BY <2>4, <2>5, <4>1
    <3> QED BY <3>3, <3>4, <3>5
  <2> QED BY <2>8, <2>9, <2>10
<1>2. Cardinality(Calls) \in Nat /\ Calls \in SUBSET Calls /\ Calls # {}
  BY <1>f, CallsAssumption
<1>3. Longest(Calls)
  BY <1>1, <1>2
<1> QED BY <1>3

\* The array of the caller holds what any call asks for.
LEMMA MaxNbType == MaxNb \in Nat \ {0} /\ \A c \in Calls : c.nb \in 1..MaxNb
<1> DEFINE Nbs == {c.nb : c \in Calls}
<1>0. \A c \in Calls : c.nb \in Nat \ {0}
  BY CallsAssumption DEF ConfCalls, CalibCalls, ValueCalls, ActiveCalls
<1>1. PICK c \in Calls : \A d \in Calls : d.nb <= c.nb
  BY LongestCall
<1>2. c.nb \in Nbs /\ \A n \in Nbs : n \in Nat \ {0} /\ c.nb >= n
  BY <1>0, <1>1
<1> HIDE DEF Nbs
<1>3. Max(Nbs) \in Nbs /\ \A n \in Nbs : Max(Nbs) >= n
  BY <1>2 DEF Max
<1>4. MaxNb = Max(Nbs)
  BY DEF MaxNb, Nbs
<1>5. MaxNb \in Nat \ {0}
  BY <1>2, <1>3, <1>4
<1>6. \A d \in Calls : d.nb \in Nbs
  BY DEF Nbs
<1> QED BY <1>0, <1>2, <1>3, <1>4, <1>5, <1>6

\* The history has room for the items of the board and those of the caller.
LEMMA MaxItemType ==
    MaxItem \in Nat /\ MaxNb <= MaxItem /\ \A kind \in Kind : ItemNb(kind) \in 1..MaxItem
<1>1. BoardNb \in Nat \ {0} /\ MaxNb \in Nat \ {0}
  BY LayoutAssumption, MaxNbType
<1> DEFINE S == {MaxNb, BoardNb}
<1>2. \E x \in S : \A y \in S : x >= y
  BY <1>1
<1> HIDE DEF S
<1>3. Max(S) \in S /\ \A y \in S : Max(S) >= y
  BY <1>2 DEF Max
<1>4. MaxItem \in Nat /\ MaxNb <= MaxItem /\ BoardNb <= MaxItem
  BY <1>1, <1>3 DEF S, MaxItem
<1> QED BY <1>1, <1>4 DEF Kind, ItemNb

-----------------------------------------------------------------------------
(* Packets *)

\* Items of a kind before the j-th packet of its array.
First(kind, j) == (j - 1) * PacketItems(kind)

\* Euclid's division.
LEMMA Division ==
  ASSUME NEW a \in Nat, NEW f \in Nat \ {0}
  PROVE  a \div f \in Nat /\ f * (a \div f) <= a /\ a < f * (a \div f) + f
  BY Z3

\* Every packet but the last one is full, and the last one is not empty.
LEMMA Layout ==
  ASSUME NEW kind \in Kind
  PROVE  /\ ItemNb(kind) \in Nat \ {0} /\ PacketItems(kind) \in Nat \ {0}
         /\ PacketItems(kind) <= BoardNb + PerPacket
         /\ PacketNb(kind) \in Nat \ {0}
         /\ First(kind, 1) = 0
         /\ \A j \in 1..PacketNb(kind) : First(kind, j) \in 0..(ItemNb(kind) - 1)
         /\ \A j \in 1..(PacketNb(kind) - 1) :
               /\ First(kind, j + 1) = First(kind, j) + PacketItems(kind)
               /\ First(kind, j) <= LastIndex(kind) - PacketItems(kind)
         /\ LastIndex(kind) = First(kind, PacketNb(kind))
         /\ ItemNb(kind) <= LastIndex(kind) + PacketItems(kind)
         /\ kind \in {"value", "active"} => PacketNb(kind) = 1
<1> DEFINE n == ItemNb(kind)
           f == PacketItems(kind)
           p == PacketNb(kind)
<1>1. n \in Nat \ {0} /\ f \in Nat \ {0} /\ f <= BoardNb + PerPacket
  BY LayoutAssumption DEF Kind, ItemNb, PacketItems
<1>2. p = (n + f - 1) \div f
  BY DEF PacketNb
<1>3. kind \in {"value", "active"} => f = n
  BY DEF PacketItems
<1>4. /\ LastIndex(kind) = (p - 1) * f
      /\ \A j : First(kind, j) = (j - 1) * f
  BY DEF LastIndex, First
<1> HIDE DEF n, f, p
<1> DEFINE a == n + f - 1
<1>5. a \in Nat /\ p = a \div f
  BY <1>1, <1>2
<1>6. p \in Nat /\ f * p <= a /\ a < f * p + f
  <2> HIDE DEF a
  <2> QED BY <1>1, <1>5, Division
<1>7. p # 0
  BY <1>1, <1>6, Z3
<1>8. (p - 1) * f < n /\ n <= (p - 1) * f + f /\ (p - 1) * f \in Nat
  <2>1. (p - 1) * f = f * p - f /\ f * p \in Nat
    BY <1>1, <1>6, Z3
  <2>2. f * p >= f
    BY <1>1, <1>6, <1>7, Z3
  <2> QED BY <1>1, <1>6, <2>1, <2>2
<1>9. ASSUME NEW j \in 1..p PROVE (j - 1) * f \in Nat /\ (j - 1) * f <= (p - 1) * f
  BY <1>1, <1>6, Z3
<1>10. ASSUME NEW j \in 1..(p - 1)
       PROVE  /\ ((j + 1) - 1) * f = (j - 1) * f + f
              /\ (j - 1) * f <= (p - 1) * f - f
  <2>1. ((j + 1) - 1) * f = (j - 1) * f + f /\ (j - 1) * f \in Nat
    BY <1>1, <1>6, Z3
  <2>2. (j + 1) \in 1..p
    BY <1>6
  <2>3. ((j + 1) - 1) * f <= (p - 1) * f
    BY <1>9, <2>2
  <2> QED BY <1>1, <1>8, <2>1, <2>3
<1>11. f = n => p = 1
  <2> SUFFICES ASSUME f = n, p >= 2 PROVE FALSE
    BY <1>6, <1>7
  <2>1. (p - 1) * f >= f
    BY <1>1, <1>6, Z3
  <2> QED BY <1>1, <1>8, <2>1
<1>12. (1 - 1) * f = 0
  BY <1>1
<1>13. n = ItemNb(kind) /\ f = PacketItems(kind) /\ p = PacketNb(kind)
  BY DEF n, f, p
<1>14. \A j \in 1..p : First(kind, j) \in 0..(n - 1)
  BY <1>1, <1>4, <1>8, <1>9
<1>15. \A j \in 1..(p - 1) : /\ First(kind, j + 1) = First(kind, j) + f
                             /\ First(kind, j) <= LastIndex(kind) - f
  BY <1>4, <1>10
<1> QED BY <1>1, <1>3, <1>4, <1>6, <1>7, <1>8, <1>11, <1>12, <1>13, <1>14, <1>15

-----------------------------------------------------------------------------
(* Writes on their way to the board *)

CommandSet == [op : {"set", "get"}, kind : Kind, index : Nat, len : Nat]

One(command, kind, i) == IF Writes(command, kind, i) THEN 1 ELSE 0

\* Commands of a sequence that write an item.
Writers(s, kind, i) == {j \in DOMAIN s : Writes(s[j], kind, i)}

\* The writes of an item in a stream can be counted.
LEMMA WritersFinite ==
  ASSUME NEW s \in Seq(CommandSet), NEW kind, NEW i
  PROVE  /\ IsFiniteSet(Writers(s, kind, i))
         /\ Cardinality(Writers(s, kind, i)) \in Nat
         /\ WritesIn(s, kind, i) = Cardinality(Writers(s, kind, i))
<1>1. DOMAIN s = 1..Len(s) /\ Len(s) \in Int /\ 1 \in Int
  OBVIOUS
<1>2. IsFiniteSet(DOMAIN s)
  BY <1>1, FS_Interval
<1>3. Writers(s, kind, i) \in SUBSET (DOMAIN s)
  BY DEF Writers
<1>4. IsFiniteSet(Writers(s, kind, i))
  BY <1>2, <1>3, FS_Subset
<1>5. WritesIn(s, kind, i) = Cardinality(Writers(s, kind, i))
  BY DEF Writers, WritesIn
<1> QED BY <1>4, <1>5, FS_CardinalityType

\* A command sent is one more of them, if it is one of them.
LEMMA WritersAppend ==
  ASSUME NEW s \in Seq(CommandSet), NEW c \in CommandSet, NEW kind, NEW i
  PROVE  WritesIn(Append(s, c), kind, i) = WritesIn(s, kind, i) + One(c, kind, i)
<1> DEFINE W == Writers(s, kind, i)
           n == Len(s) + 1
           V == Writers(Append(s, c), kind, i)
<1>1. n \notin W /\ IsFiniteSet(W) /\ Cardinality(W) \in Nat
  <2>1. n \notin W
    BY DEF Writers
  <2> QED BY <2>1, WritersFinite
<1>2. V = IF Writes(c, kind, i) THEN W \cup {n} ELSE W
  <2>1. /\ DOMAIN Append(s, c) = 1..n /\ Append(s, c)[n] = c
        /\ DOMAIN s = 1..Len(s) /\ Len(s) \in Nat
        /\ \A j \in 1..Len(s) : Append(s, c)[j] = s[j]
    OBVIOUS
  <2>2. \A j : j \in 1..n <=> j \in 1..Len(s) \/ j = n
    BY <2>1
  <2> QED BY <2>1, <2>2 DEF Writers
<1>w. WritesIn(s, kind, i) = Cardinality(W) /\ WritesIn(Append(s, c), kind, i) = Cardinality(V)
  BY DEF Writers, WritesIn
<1> HIDE DEF W, n, V
<1>3. CASE Writes(c, kind, i)
  <2>1. Cardinality(W \cup {n}) = Cardinality(W) + 1
    BY <1>1, FS_AddElement
  <2> QED BY <1>2, <1>3, <1>w, <2>1 DEF One
<1>4. CASE ~Writes(c, kind, i)
  BY <1>1, <1>2, <1>4, <1>w DEF One
<1> QED BY <1>3, <1>4

\* A command taken is one less.
LEMMA WritersTail ==
  ASSUME NEW s \in Seq(CommandSet), s # <<>>, NEW kind, NEW i
  PROVE  WritesIn(s, kind, i) = WritesIn(Tail(s), kind, i) + One(Head(s), kind, i)
<1> DEFINE W == Writers(s, kind, i)
           V == Writers(Tail(s), kind, i)
           R == W \ {1}
           f == [j \in V |-> j + 1]
<1>1. IsFiniteSet(W) /\ Cardinality(W) \in Nat
  BY WritersFinite
<1>2. Tail(s) \in Seq(CommandSet)
  OBVIOUS
<1>3. IsFiniteSet(V) /\ Cardinality(V) \in Nat
  BY <1>2, WritersFinite
<1>4. /\ DOMAIN s = 1..Len(s) /\ Len(s) \in Nat /\ Len(s) >= 1
      /\ DOMAIN Tail(s) = 1..(Len(s) - 1)
      /\ \A j \in 1..(Len(s) - 1) : Tail(s)[j] = s[j + 1]
      /\ Head(s) = s[1]
  OBVIOUS
<1>5. \A j \in 1..(Len(s) - 1) : j \in V <=> j + 1 \in R
  BY <1>4 DEF Writers
<1>6. V \subseteq 1..(Len(s) - 1) /\ R \subseteq 2..Len(s)
  BY <1>4 DEF Writers
<1>7. 1 \in W <=> Writes(Head(s), kind, i)
  BY <1>4 DEF Writers
<1>w. WritesIn(s, kind, i) = Cardinality(W) /\ WritesIn(Tail(s), kind, i) = Cardinality(V)
  BY DEF Writers, WritesIn
<1> HIDE DEF W, V
<1>8. \A j \in V : j + 1 \in R /\ j \in Nat
  BY <1>4, <1>5, <1>6
<1>9. \A m \in R : \E j \in V : m = j + 1
  <2> TAKE m \in R
  <2>1. m - 1 \in 1..(Len(s) - 1) /\ (m - 1) + 1 = m
    BY <1>4, <1>6
  <2> QED BY <1>5, <2>1
<1>10. f \in [V -> R]
  BY <1>8
<1>11. \A a, b \in V : f[a] = f[b] => a = b
  BY <1>8
<1>12. \A m \in R : \E j \in V : f[j] = m
  BY <1>9
<1> HIDE DEF R, f
<1>13. ExistsBijection(V, R)
  <2>1. f \in Bijection(V, R)
    BY <1>10, <1>11, <1>12, Fun_IsBij
  <2> QED BY <2>1, Fun_ExistsBij
<1>14. Cardinality(R) = Cardinality(V)
  BY <1>3, <1>13, FS_Bijection
<1>15. Cardinality(R) = IF 1 \in W THEN Cardinality(W) - 1 ELSE Cardinality(W)
  BY <1>1, FS_RemoveElement DEF R
<1> QED BY <1>1, <1>3, <1>7, <1>w, <1>14, <1>15 DEF One

\* An empty endpoint holds none.
LEMMA WritersEmpty ==
  ASSUME NEW kind, NEW i PROVE WritesIn(<<>>, kind, i) = 0
<1>1. Writers(<<>>, kind, i) = {}
  BY DEF Writers
<1>2. WritesIn(<<>>, kind, i) = Cardinality(Writers(<<>>, kind, i))
  BY DEF Writers, WritesIn
<1> QED BY <1>1, <1>2, FS_EmptySet

-----------------------------------------------------------------------------
(* The invariant *)

\* A read of fixed-point values asks for no more of them than the board has.
ValuesFit == \A c \in Calls : c.kind = "value" => c.nb <= BoardNb

Version == 0..(MaxVersion + MaxCalls)
Item == [kind : Kind \cup {"none"}, version : Version]
PacketSet == [kind : Kind, index : Nat, versions : Seq(Version)]

\* The j-th packet of an array.
IsFragment(packet, kind, j) ==
    /\ packet.kind = kind /\ packet.index = First(kind, j)
    /\ Len(packet.versions) =
          Smaller(PacketItems(kind), ItemNb(kind) - First(kind, j))

FromBoard(packet) ==
    \E kind \in Kind : \E j \in 1..PacketNb(kind) : IsFragment(packet, kind, j)

\* The types, of what TypeOK leaves out too; the packets are whole.
TypeInv ==
    /\ call \in Calls
    /\ step \in {"idle", "send", "receive", "ok", "error"}
    /\ ind \in 0..(MaxNb + PerPacket)
    /\ data \in [1..MaxNb -> Item]
    /\ out \in Seq(CommandSet) /\ Len(out) <= Banks
    /\ in \in Seq(PacketSet) /\ Len(in) <= Banks
    /\ reply \in Seq(PacketSet)
    /\ DOMAIN mem = Kind
    /\ \A kind \in Kind : mem[kind] \in [1..ItemNb(kind) -> Nat]
    /\ since \in [1..MaxItem -> Version]
    /\ calls \in 0..MaxCalls

Flags == connected \in BOOLEAN /\ failed \in BOOLEAN /\ short \in BOOLEAN

PacketInv ==
    /\ \A j \in 1..Len(out) :
          /\ out[j].index + out[j].len <= MaxNb
          /\ out[j].op = "set" => out[j].kind \in {"conf", "active"}
    /\ \A m \in 1..Len(in) : FromBoard(in[m])
    /\ \A m \in 1..Len(reply) : FromBoard(reply[m])

\* How far the call in progress is.
CallInv ==
    /\ call.op = "set" => ind <= call.nb
    /\ step = "send" => /\ calls >= 1
                        /\ call.op = "set" => ind < call.nb
                        /\ call.op = "get" => ind = 0
    /\ step = "receive" => /\ call.op = "get" /\ ind < call.nb
                           /\ call.kind \in {"value", "active"} => ind = 0

\* Versions stay in their bounds: what the board writes is counted by
\* MaxVersion, what the host writes by its calls, each of which writes an item
\* once at most.
BoundInv ==
    /\ \A kind \in {"calib", "value"} : \A i \in 1..ItemNb(kind) :
          mem[kind][i] = mem[kind][1] /\ mem[kind][i] <= MaxVersion
    /\ \A kind \in {"conf", "active"} : \A i \in 1..ItemNb(kind) :
          mem[kind][i] + Pending(kind, i) <= calls
    /\ step = "send" /\ call.op = "set" => \A i \in 1..ItemNb(call.kind) :
          i > ind => mem[call.kind][i] + Pending(call.kind, i) < calls

\* The items sent are written once, or about to be, and the others are not.
WriteInv ==
    connected /\ step # "idle" /\ call.op = "set" =>
        \A i \in 1..ItemNb(call.kind) :
            mem[call.kind][i] + Pending(call.kind, i)
                = since[i] + (IF i <= ind THEN 1 ELSE 0)

\* A board that was reset has lost its packets.
LostInv == ~connected => out = <<>> /\ in = <<>> /\ reply = <<>>

\* The board holds what the call found, once it has handled what it is sent.
Reached ==
    \A i \in 1..ItemNb(call.kind) : mem[call.kind][i] + Pending(call.kind, i) >= since[i]

OnlyWrites == \A j \in 1..Len(out) : out[j].op = "set"

\* The request is on its way, the last command sent.
Asked ==
    /\ in = <<>> /\ reply = <<>> /\ out # <<>> /\ ind = 0 /\ Reached
    /\ out[Len(out)].op = "get" /\ out[Len(out)].kind = call.kind
    /\ \A j \in 1..(Len(out) - 1) : out[j].op = "set"

\* A packet of the reply, of items the call found or newer ones.
Fresh(packet, j) ==
    /\ IsFragment(packet, call.kind, j)
    /\ \A i \in 1..Len(packet.versions) : packet.versions[i] >= since[packet.index + i]

\* The first r packets of the reply have been read, and the others follow in order.
Answered(r) ==
    /\ out = <<>>
    /\ Len(in) + Len(reply) = PacketNb(call.kind) - r
    /\ r < PacketNb(call.kind) => ind = First(call.kind, r + 1)
    /\ \A m \in 1..Len(in) : Fresh(in[m], r + m)
    /\ \A m \in 1..Len(reply) : Fresh(reply[m], r + Len(in) + m)
    /\ \A i \in 1..ind : Current(i)

\* How far a read is.
Reading ==
    /\ connected
    /\ step # "receive" => in = <<>> /\ reply = <<>> /\ OnlyWrites
    /\ step = "send" /\ call.op = "get" => Reached
    /\ step = "receive" => Asked \/ \E r \in 0..PacketNb(call.kind) : Answered(r)
    /\ step = "ok" /\ call.op = "get" => \A i \in 1..call.nb : Current(i)

\* That is so as long as no call has failed and no packet was left unread.
ReadInv == ~failed /\ ~short => Reading

IInv ==
    /\ TypeInv /\ Flags /\ PacketInv /\ CallInv
    /\ BoundInv /\ WriteInv /\ LostInv /\ ReadInv

-----------------------------------------------------------------------------
(* What the parts of the invariant say of a state *)

\* The board writes the arrays that the host does not.
LEMMA CallFacts ==
  ASSUME NEW c \in Calls
  PROVE  /\ c.op \in {"set", "get"} /\ c.kind \in Kind /\ c.nb \in 1..MaxNb
         /\ c.op = "set" => c.kind \in {"conf", "active"}
         /\ c.kind = "active" => c.nb = 1
  BY CallsAssumption, MaxNbType DEF ConfCalls, CalibCalls, ValueCalls, ActiveCalls, Kind

\* No packet in flight writes a calibration or a value.
LEMMA NoWrite ==
  ASSUME TypeInv, PacketInv, NEW kind \in {"calib", "value"}, NEW i
  PROVE  WritesIn(out, kind, i) = 0
<1>1. out \in Seq(CommandSet) /\ DOMAIN out = 1..Len(out)
  BY DEF TypeInv
<1>2. \A j \in 1..Len(out) : ~Writes(out[j], kind, i)
  BY DEF PacketInv, Writes
<1>3. Writers(out, kind, i) = {}
  BY <1>1, <1>2 DEF Writers
<1> QED BY <1>1, <1>3, WritersFinite, FS_EmptySet

\* The number of writes is a natural number.
LEMMA WritesType ==
  ASSUME NEW s \in Seq(CommandSet), NEW kind, NEW i
  PROVE  WritesIn(s, kind, i) \in Nat
  BY WritersFinite

\* A version, those on their way included, is within the bounds.
LEMMA VersionBound ==
  ASSUME TypeInv, PacketInv, BoundInv, NEW kind \in Kind, NEW i \in 1..ItemNb(kind)
  PROVE  mem[kind][i] + WritesIn(out, kind, i) \in Version /\ mem[kind][i] \in Version
<1>1. /\ mem[kind][i] \in Nat /\ calls \in Nat /\ calls <= MaxCalls
      /\ WritesIn(out, kind, i) \in Nat /\ MaxCalls \in Nat /\ MaxVersion \in Nat
  <2>1. calls \in Nat /\ calls <= MaxCalls /\ MaxCalls \in Nat /\ MaxVersion \in Nat
    BY CallsAssumption DEF TypeInv
  <2>2. mem[kind][i] \in Nat
    BY DEF TypeInv
  <2>3. WritesIn(out, kind, i) \in Nat
    BY WritesType DEF TypeInv
  <2> QED BY <2>1, <2>2, <2>3
<1>2. CASE kind \in {"calib", "value"}
  <2>1. mem[kind][i] <= MaxVersion
    BY <1>2 DEF BoundInv
  <2>2. WritesIn(out, kind, i) = 0
    BY <1>2, NoWrite
  <2> QED BY <1>1, <2>1, <2>2 DEF Version
<1>3. CASE kind \in {"conf", "active"}
  <2>1. mem[kind][i] + WritesIn(out, kind, i) <= calls
    BY <1>3 DEF BoundInv, Pending
  <2> QED BY <1>1, <2>1 DEF Version
<1> QED BY <1>2, <1>3 DEF Kind

\* pc_comm_send_member_of_struct_array: the j-th packet holds its items.
LEMMA FragmentIs ==
  ASSUME NEW kind \in Kind, NEW j \in 1..PacketNb(kind),
         mem[kind] \in [1..ItemNb(kind) -> Version],
         NEW p, p = Fragment(kind, First(kind, j))
  PROVE  /\ p \in PacketSet /\ IsFragment(p, kind, j)
         /\ \A i \in 1..Len(p.versions) :
               /\ p.index + i \in 1..ItemNb(kind)
               /\ p.versions[i] = mem[kind][p.index + i]
<1> DEFINE n == ItemNb(kind)
           f == PacketItems(kind)
           first == First(kind, j)
           last == Smaller(first + f, n)
           m == mem[kind]
           v == SubSeq(m, first + 1, last)
<1>1. n \in Nat \ {0} /\ f \in Nat \ {0} /\ first \in 0..(n - 1)
  BY Layout
<1>2. /\ last \in 1..n /\ last >= first + 1
      /\ last - first = Smaller(f, n - first)
  BY <1>1 DEF Smaller
<1>3. p = [kind |-> kind, index |-> first, versions |-> v]
  BY DEF Fragment
<1>4. m \in [1..n -> Version]
  OBVIOUS
<1> HIDE DEF n, f, first, last, m
<1>5. /\ v \in Seq(Version) /\ Len(v) = last - first
      /\ \A i \in 1..(last - first) : v[i] = m[first + i]
  <2>1. first + 1 \in Int /\ last \in Int /\ (first + 1)..last \subseteq 1..n
    BY <1>1, <1>2
  <2>2. \A i \in (first + 1)..last : m[i] \in Version
    BY <1>4, <2>1
  <2>3. /\ v \in Seq(Version)
        /\ Len(v) = IF first + 1 <= last THEN last - (first + 1) + 1 ELSE 0
        /\ \A i \in 1..(last - (first + 1) + 1) : v[i] = m[(first + 1) + i - 1]
    BY <2>1, <2>2, SubSeqProperties
  <2>4. last - (first + 1) + 1 = last - first /\ first + 1 <= last
    BY <1>1, <1>2
  <2>5. \A i \in 1..(last - first) : (first + 1) + i - 1 = first + i
    BY <1>1, <1>2
  <2> QED BY <2>3, <2>4, <2>5
<1> HIDE DEF v
<1>6. p \in PacketSet /\ p.kind = kind /\ p.index = first /\ p.versions = v
  BY <1>1, <1>3, <1>5 DEF PacketSet
<1>7. Len(p.versions) = Smaller(f, n - first)
  BY <1>2, <1>5, <1>6
<1>8. \A i \in 1..Len(p.versions) :
         p.index + i \in 1..n /\ p.versions[i] = m[p.index + i]
  BY <1>1, <1>2, <1>5, <1>6
<1> QED BY <1>6, <1>7, <1>8 DEF n, f, first, m, IsFragment

\* The reply to a request.
LEMMA FragmentsAre ==
  ASSUME NEW kind \in Kind, mem[kind] \in [1..ItemNb(kind) -> Version],
         NEW s, s = Fragments(kind)
  PROVE  /\ s \in Seq(PacketSet) /\ Len(s) = PacketNb(kind) /\ s # <<>>
         /\ \A j \in 1..PacketNb(kind) :
               /\ IsFragment(s[j], kind, j)
               /\ \A i \in 1..Len(s[j].versions) :
                     /\ s[j].index + i \in 1..ItemNb(kind)
                     /\ s[j].versions[i] = mem[kind][s[j].index + i]
<1>1. PacketNb(kind) \in Nat \ {0}
  BY Layout
<1>2. s = [j \in 1..PacketNb(kind) |-> Fragment(kind, First(kind, j))]
  BY DEF Fragments, First
<1>3. ASSUME NEW j \in 1..PacketNb(kind)
      PROVE  /\ s[j] \in PacketSet /\ IsFragment(s[j], kind, j)
             /\ \A i \in 1..Len(s[j].versions) :
                   /\ s[j].index + i \in 1..ItemNb(kind)
                   /\ s[j].versions[i] = mem[kind][s[j].index + i]
  <2>1. s[j] = Fragment(kind, First(kind, j))
    BY <1>2
  <2> QED BY <2>1, FragmentIs
<1>4. s \in [1..PacketNb(kind) -> PacketSet] /\ DOMAIN s = 1..PacketNb(kind)
  BY <1>2, <1>3
<1>5. s \in Seq(PacketSet) /\ Len(s) = PacketNb(kind)
  BY <1>1, <1>4
<1>6. s # <<>>
  BY <1>1, <1>5
<1> QED BY <1>3, <1>5, <1>6

\* What is counted in a packet, and what it leaves in the caller's array.
LEMMA CountedType ==
  ASSUME TypeInv, CallInv, step = "receive", NEW p \in PacketSet, FromBoard(p),
         call.kind \in {"active", p.kind}
  PROVE  /\ Counted(p) \in Nat
         /\ ind + Counted(p) \in 0..(MaxNb + PerPacket)
<1>1. /\ call.kind \in Kind /\ call.nb \in 1..MaxNb /\ ind \in Nat /\ ind < call.nb
      /\ MaxNb \in Nat /\ PerPacket \in Nat /\ p.index \in Nat
      /\ p.versions \in Seq(Version) /\ Len(p.versions) \in Nat
      /\ call.kind \in {"value", "active"} => ind = 0
  BY CallFacts, MaxNbType, LayoutAssumption DEF TypeInv, CallInv, PacketSet
<1>2. CASE call.kind = "active"
  BY <1>1, <1>2, LayoutAssumption DEF Counted
<1>3. CASE call.kind = "value"
  <2>1. Counted(p) \in 0..call.nb
    BY <1>1, <1>3 DEF Counted, ParseCount, Smaller
  <2> QED BY <1>1, <1>3, <2>1
<1>4. CASE call.kind \in {"conf", "calib"}
  <2>1. PICK j \in 1..PacketNb(p.kind) : IsFragment(p, p.kind, j)
    BY DEF FromBoard, IsFragment
  <2>2. p.kind = call.kind /\ PacketItems(p.kind) = PerPacket
    BY <1>4 DEF PacketItems
  <2>3. Len(p.versions) <= PerPacket
    <3>1. First(p.kind, j) \in 0..(ItemNb(p.kind) - 1) /\ ItemNb(p.kind) \in Nat
      BY <1>1, <2>1, <2>2, Layout
    <3> QED BY <1>1, <2>1, <2>2, <3>1 DEF IsFragment, Smaller
  <2>4. Counted(p) \in 0..PerPacket
    <3>1. Counted(p) = DefragmentCount(p)
      BY <1>4 DEF Counted
    <3>2. PICK m \in Nat : m = Len(p.versions) /\ m <= PerPacket
      BY <1>1, <2>3
    <3>3. PICK rest \in Int : /\ rest = call.nb - p.index
                              /\ p.index <= call.nb => 0 <= rest
      BY <1>1
    <3>4. DefragmentCount(p) \in {m, IF m < rest THEN m ELSE rest}
            /\ (~(p.index <= call.nb) => DefragmentCount(p) = m)
      BY <3>2, <3>3 DEF DefragmentCount, Smaller
    <3> QED BY <1>1, <3>1, <3>2, <3>3, <3>4
  <2> QED BY <1>1, <2>4
<1> QED BY <1>1, <1>2, <1>3, <1>4 DEF Kind

\* What a packet stores are items.
LEMMA StoredType ==
  ASSUME TypeInv, NEW p \in PacketSet, Counted(p) \in Nat
  PROVE  Stored(p) \in [1..MaxNb -> Item]
<1>1. NoItem \in Item
  BY CallsAssumption DEF NoItem, Item, Version
<1>2. /\ p.kind \in Kind /\ p.index \in Nat /\ p.versions \in Seq(Version)
      /\ MaxNb \in Nat /\ data \in [1..MaxNb -> Item]
  BY MaxNbType DEF PacketSet, TypeInv
<1>3. ASSUME NEW i \in 1..MaxNb, ~(i <= p.index \/ i > p.index + Counted(p)),
             ~(i > p.index + Len(p.versions))
      PROVE  [kind |-> p.kind, version |-> p.versions[i - p.index]] \in Item
  <2>1. i - p.index \in 1..Len(p.versions)
    BY <1>2, <1>3
  <2>2. p.versions[i - p.index] \in Version
    BY <1>2, <2>1
  <2> QED BY <1>2, <2>2 DEF Item
<1> QED BY <1>1, <1>2, <1>3 DEF Stored

-----------------------------------------------------------------------------
(* Every step keeps the types and the packets *)

\* What a write sends: at least one item, and no more than are left.
LEMMA DataSent ==
  ASSUME TypeInv, CallInv, SendData
  PROVE  \E len \in 1..PacketItems(call.kind) :
            /\ ind + len <= call.nb /\ ind' = ind + len
            /\ out' = Append(out, Command("set", call.kind, ind, len))
            /\ Command("set", call.kind, ind, len) \in CommandSet
<1> DEFINE len == Smaller(PacketItems(call.kind), call.nb - ind)
<1>1. /\ call.kind \in Kind /\ call.nb \in Nat /\ ind \in Nat /\ ind < call.nb
      /\ PacketItems(call.kind) \in Nat \ {0}
  BY CallFacts, Layout DEF TypeInv, CallInv, SendData
<1>2. len \in 1..PacketItems(call.kind) /\ ind + len <= call.nb
  BY <1>1 DEF Smaller
<1>3. /\ out' = Append(out, Command("set", call.kind, ind, len))
      /\ ind' = ind + len
  BY DEF SendData
<1> HIDE DEF len
<1>4. Command("set", call.kind, ind, len) \in CommandSet
  BY <1>1, <1>2 DEF Command, CommandSet
<1> QED BY <1>2, <1>3, <1>4

\* A read adds its request to the stream.
LEMMA RequestSent ==
  ASSUME TypeInv, SendRequest
  PROVE  /\ Command("get", call.kind, 0, 0) \in CommandSet
         /\ out' = Append(out, Command("get", call.kind, 0, 0))
<1>1. call.kind \in Kind
  BY CallFacts DEF TypeInv
<1> QED BY <1>1 DEF SendRequest, Command, CommandSet

\* Every step keeps the flags Boolean.
LEMMA StepFlags == Flags /\ [Next]_vars => Flags'
<1> SUFFICES ASSUME Flags, [Next]_vars PROVE Flags'
  OBVIOUS
<1>1. CASE Call
  BY Zenon, <1>1 DEF Flags, Call
<1>2. CASE SendData
  BY Zenon, <1>2 DEF Flags, SendData
<1>3. CASE SendRequest
  BY Zenon, <1>3 DEF Flags, SendRequest
<1>4. CASE Receive
  <2>1. short' = (short \/ (step' = "ok" /\ call.nb <= LastIndex(call.kind)))
    BY Zenon, <1>4 DEF Receive
  <2>2. short' \in BOOLEAN
    BY Zenon, <2>1
  <2> QED BY Zenon, <1>4, <2>2 DEF Flags, Receive
<1>5. CASE Timeout
  BY Zenon, <1>5 DEF Flags, Timeout
<1>6. CASE Connect
  BY Zenon, <1>6 DEF Flags, Connect
<1>7. CASE Handle \/ SendPacket \/ WatchdogReset
  BY Zenon, <1>7 DEF Flags, Handle, SendPacket, WatchdogReset
<1>8. ASSUME NEW kind, Change(kind) PROVE Flags'
  BY Zenon, <1>8 DEF Flags, Change
<1>9. CASE UNCHANGED vars
  BY Zenon, <1>9 DEF Flags, vars
<1> QED BY <1>1, <1>2, <1>3, <1>4, <1>5, <1>6, <1>7, <1>8, <1>9 DEF Next, Library

\* Every step keeps the types.
LEMMA StepTypes == IInv /\ [Next]_vars => TypeInv'
<1> SUFFICES ASSUME IInv, [Next]_vars PROVE TypeInv'
  OBVIOUS
<1>0. TypeInv /\ PacketInv /\ CallInv /\ BoundInv
  BY DEF IInv
<1>t. /\ call \in Calls /\ ind \in 0..(MaxNb + PerPacket)
      /\ step \in {"idle", "send", "receive", "ok", "error"}
      /\ data \in [1..MaxNb -> Item]
      /\ out \in Seq(CommandSet) /\ Len(out) <= Banks
      /\ in \in Seq(PacketSet) /\ Len(in) <= Banks
      /\ reply \in Seq(PacketSet)
      /\ DOMAIN mem = Kind
      /\ \A kind \in Kind : mem[kind] \in [1..ItemNb(kind) -> Nat]
      /\ since \in [1..MaxItem -> Version]
      /\ calls \in 0..MaxCalls
  BY <1>0 DEF TypeInv
<1>c. /\ MaxNb \in Nat /\ MaxCalls \in Nat /\ MaxVersion \in Nat
      /\ Banks \in Nat /\ PerPacket \in Nat
  BY MaxNbType, CallsAssumption, LayoutAssumption
<1>1. CASE Call
  <2>1. PICK c \in Calls : c = call'
    BY <1>1 DEF Call
  <2>2. c.kind \in Kind
    BY CallFacts
  <2>3. data' \in [1..MaxNb -> Item]
    <3>1. NoItem \in Item
      BY <1>c DEF NoItem, Item, Version
    <3> QED BY <1>1, <3>1 DEF Call
  <2>4. since' \in [1..MaxItem -> Version]
    <3>1. since' = [i \in 1..MaxItem |-> IF i > ItemNb(c.kind) THEN 0
                      ELSE mem[c.kind][i] + WritesIn(out, c.kind, i)]
      BY <1>1, <2>1 DEF Call, Pending
    <3>2. ASSUME NEW i \in 1..MaxItem, ~(i > ItemNb(c.kind))
          PROVE  mem[c.kind][i] + WritesIn(out, c.kind, i) \in Version
      <4>1. ItemNb(c.kind) \in Nat
        BY <2>2, Layout
      <4>2. i \in 1..ItemNb(c.kind)
        BY <3>2, <4>1, MaxItemType
      <4> QED BY <1>0, <2>2, <4>2, VersionBound
    <3>3. 0 \in Version
      BY <1>c DEF Version
    <3> QED BY <3>1, <3>2, <3>3
  <2>5. calls' \in 0..MaxCalls /\ ind' \in 0..(MaxNb + PerPacket) /\ step' = "send"
    BY <1>t, <1>c, <1>1 DEF Call
  <2>6. UNCHANGED <<out, in, reply, mem>>
    BY <1>1 DEF Call, board
  <2> QED BY <1>t, <2>1, <2>3, <2>4, <2>5, <2>6 DEF TypeInv
<1>2. CASE SendData
  <2>1. PICK len \in 1..PacketItems(call.kind) :
            /\ ind + len <= call.nb /\ ind' = ind + len
            /\ out' = Append(out, Command("set", call.kind, ind, len))
            /\ Command("set", call.kind, ind, len) \in CommandSet
    BY <1>0, <1>2, DataSent
  <2>2. out' \in Seq(CommandSet) /\ Len(out') = Len(out) + 1
    BY <1>t, <2>1
  <2>3. ind' \in 0..(MaxNb + PerPacket)
    BY <1>t, <1>c, <2>1, CallFacts
  <2>4. Len(out') <= Banks /\ step' \in {"send", "ok"}
        /\ UNCHANGED <<call, data, since, calls, in, reply, mem>>
    BY <1>t, <1>c, <1>2, <2>2 DEF SendData, board
  <2> QED BY <1>t, <2>2, <2>3, <2>4 DEF TypeInv
<1>3. CASE SendRequest
  <2>1. out' \in Seq(CommandSet) /\ Len(out') = Len(out) + 1
    <3>1. /\ Command("get", call.kind, 0, 0) \in CommandSet
          /\ out' = Append(out, Command("get", call.kind, 0, 0))
      BY <1>0, <1>3, RequestSent
    <3> QED BY <1>t, <3>1
  <2>2. Len(out') <= Banks /\ step' = "receive"
        /\ UNCHANGED <<call, ind, data, since, calls, in, reply, mem>>
    BY <1>t, <1>c, <1>3, <2>1 DEF SendRequest, host, board
  <2> QED BY <1>t, <2>1, <2>2 DEF TypeInv
<1>4. CASE Receive
  <2>1. in # <<>> /\ in' = Tail(in) /\ Head(in) = in[1] /\ step = "receive"
        /\ UNCHANGED <<call, out, reply, mem, since, calls>>
    BY <1>t, <1>4 DEF Receive, board
  <2>2. in' \in Seq(PacketSet) /\ Len(in') <= Banks /\ Head(in) \in PacketSet
    BY <1>t, <1>c, <2>1
  <2>3. FromBoard(Head(in))
    BY <1>0, <1>t, <2>1 DEF PacketInv
  <2>4. CASE call.kind \in {"active", Head(in).kind}
    <3>1. /\ Counted(Head(in)) \in Nat
          /\ ind + Counted(Head(in)) \in 0..(MaxNb + PerPacket)
      BY <1>0, <2>1, <2>2, <2>3, <2>4, CountedType
    <3>2. Stored(Head(in)) \in [1..MaxNb -> Item]
      BY <1>0, <2>2, <3>1, StoredType
    <3>3. data' = Stored(Head(in)) /\ ind' = ind + Counted(Head(in))
          /\ step' \in {"receive", "ok"}
      BY <1>4, <2>4 DEF Receive
    <3> QED BY <1>t, <2>1, <2>2, <3>1, <3>2, <3>3 DEF TypeInv
  <2>5. CASE ~(call.kind \in {"active", Head(in).kind})
    <3>1. UNCHANGED <<data, ind, step>>
      BY <1>4, <2>5 DEF Receive
    <3> QED BY <1>t, <2>1, <2>2, <3>1 DEF TypeInv
  <2> QED BY <2>4, <2>5
<1>5. CASE Timeout \/ Connect
  <2>1. step' \in {"idle", "error"} /\ UNCHANGED <<call, ind, data, since, calls, out, in, reply, mem>>
    BY <1>5 DEF Timeout, Connect, host, board
  <2> QED BY <1>t, <2>1 DEF TypeInv
<1>6. CASE Handle
  <2>1. /\ out # <<>> /\ out' = Tail(out) /\ Head(out) \in CommandSet
        /\ UNCHANGED <<call, ind, data, since, calls, step, in>>
    BY <1>t, <1>6 DEF Handle, host
  <2>2. out' \in Seq(CommandSet) /\ Len(out') <= Banks
    BY <1>t, <1>c, <2>1
  <2>3. PICK c \in CommandSet : c = Head(out)
    BY <2>1
  <2>4. c.kind \in Kind
    BY DEF CommandSet
  <2>5. CASE c.op = "set"
    <3>1. mem' = [mem EXCEPT ![c.kind] = Store(c)] /\ reply' = reply
      BY <1>6, <2>3, <2>5 DEF Handle
    <3>2. Store(c) \in [1..ItemNb(c.kind) -> Nat]
      <4>1. mem[c.kind] \in [1..ItemNb(c.kind) -> Nat]
        BY <1>t, <2>4
      <4>2. ASSUME NEW i \in 1..ItemNb(c.kind)
            PROVE  mem[c.kind][i] + (IF Writes(c, c.kind, i) THEN 1 ELSE 0) \in Nat
        <5>1. mem[c.kind][i] \in Nat
          BY <4>1
        <5> QED BY <5>1
      <4> QED BY <4>2 DEF Store
    <3>3. DOMAIN mem' = Kind /\ \A kind \in Kind : mem'[kind] \in [1..ItemNb(kind) -> Nat]
      BY <1>t, <2>4, <3>1, <3>2
    <3> QED BY <1>t, <2>1, <2>2, <3>1, <3>3 DEF TypeInv
  <2>6. CASE c.op # "set"
    <3>1. reply' = Fragments(c.kind) /\ mem' = mem
      BY <1>6, <2>3, <2>6 DEF Handle
    <3>2. mem[c.kind] \in [1..ItemNb(c.kind) -> Version]
      BY <1>0, <1>t, <2>4, VersionBound
    <3>3. reply' \in Seq(PacketSet)
      BY <2>4, <3>1, <3>2, FragmentsAre
    <3> QED BY <1>t, <2>1, <2>2, <3>1, <3>3 DEF TypeInv
  <2> QED BY <2>5, <2>6
<1>7. CASE SendPacket
  <2>1. /\ Head(reply) \in PacketSet /\ in' = Append(in, Head(reply)) /\ reply' = Tail(reply)
        /\ Len(in) < Banks /\ reply # <<>>
        /\ UNCHANGED <<call, ind, data, since, calls, step, out, mem>>
    BY <1>t, <1>7 DEF SendPacket, host
  <2>2. in' \in Seq(PacketSet) /\ Len(in') <= Banks /\ reply' \in Seq(PacketSet)
    BY <1>t, <1>c, <2>1
  <2> QED BY <1>t, <2>1, <2>2 DEF TypeInv
<1>8. ASSUME NEW kind \in {"calib", "value"}, Change(kind) PROVE TypeInv'
  <2>1. mem' = [mem EXCEPT ![kind] = [i \in DOMAIN mem[kind] |-> mem[kind][i] + 1]]
        /\ UNCHANGED <<call, ind, data, since, calls, step, out, in, reply>>
    BY <1>8 DEF Change, host
  <2>2. kind \in Kind
    BY DEF Kind
  <2>3. [i \in DOMAIN mem[kind] |-> mem[kind][i] + 1] \in [1..ItemNb(kind) -> Nat]
    <3>1. mem[kind] \in [1..ItemNb(kind) -> Nat]
      BY <1>t, <2>2
    <3>2. ASSUME NEW i \in 1..ItemNb(kind) PROVE mem[kind][i] + 1 \in Nat
      <4>1. mem[kind][i] \in Nat
        BY <3>1
      <4> QED BY <4>1
    <3> QED BY <3>1, <3>2
  <2>4. DOMAIN mem' = Kind /\ \A k \in Kind : mem'[k] \in [1..ItemNb(k) -> Nat]
    BY <1>t, <2>1, <2>2, <2>3
  <2> QED BY <1>t, <2>1, <2>4 DEF TypeInv
<1>9. CASE WatchdogReset
  <2>1. /\ out' = <<>> /\ in' = <<>> /\ reply' = <<>> /\ mem' = Start
        /\ UNCHANGED <<call, ind, data, since, calls, step>>
    BY <1>9 DEF WatchdogReset, host
  <2>2. DOMAIN mem' = Kind /\ \A k \in Kind : mem'[k] \in [1..ItemNb(k) -> Nat]
    BY <2>1 DEF Start
  <2>3. out' \in Seq(CommandSet) /\ Len(out') <= Banks /\ in' \in Seq(PacketSet)
        /\ Len(in') <= Banks /\ reply' \in Seq(PacketSet)
    BY <1>c, <2>1
  <2> QED BY <1>t, <2>1, <2>2, <2>3 DEF TypeInv
<1>10. CASE UNCHANGED vars
  BY <1>t, <1>10 DEF TypeInv, vars, board
<1> QED BY <1>1, <1>2, <1>3, <1>4, <1>5, <1>6, <1>7, <1>8, <1>9, <1>10 DEF Next, Library

\* Commands stay within the caller's array, and the board sends whole packets.
LEMMA StepPackets == IInv /\ [Next]_vars => PacketInv'
<1> SUFFICES ASSUME IInv, [Next]_vars PROVE PacketInv'
  OBVIOUS
<1>0. TypeInv /\ PacketInv /\ CallInv /\ BoundInv
  BY DEF IInv
<1>t. /\ out \in Seq(CommandSet) /\ in \in Seq(PacketSet) /\ reply \in Seq(PacketSet)
      /\ call \in Calls /\ ind \in Nat /\ MaxNb \in Nat
  BY <1>0, MaxNbType, LayoutAssumption DEF TypeInv
<1>c. call.kind \in Kind /\ call.nb \in 1..MaxNb
      /\ (call.op = "set" => call.kind \in {"conf", "active"})
  BY <1>t, CallFacts
<1>p. /\ \A j \in 1..Len(out) :
            /\ out[j].index + out[j].len <= MaxNb
            /\ out[j].op = "set" => out[j].kind \in {"conf", "active"}
      /\ \A m \in 1..Len(in) : FromBoard(in[m])
      /\ \A m \in 1..Len(reply) : FromBoard(reply[m])
  BY <1>0 DEF PacketInv
<1>1. CASE Call \/ Timeout \/ Connect \/ (\E kind \in {"calib", "value"} : Change(kind))
           \/ UNCHANGED vars
  <2>1. UNCHANGED <<out, in, reply>>
    BY <1>1 DEF Call, Timeout, Connect, Change, vars, board
  <2> QED BY <1>p, <2>1 DEF PacketInv
<1>2. CASE SendData
  <2>1. PICK len \in 1..PacketItems(call.kind) :
            /\ ind + len <= call.nb
            /\ out' = Append(out, Command("set", call.kind, ind, len))
            /\ Command("set", call.kind, ind, len) \in CommandSet
    BY <1>0, <1>2, DataSent
  <2>2. PICK c \in CommandSet : c = Command("set", call.kind, ind, len)
    BY <2>1
  <2>3. /\ c.index + c.len <= MaxNb
        /\ c.op = "set" => c.kind \in {"conf", "active"}
    BY <1>t, <1>c, <1>2, <2>1, <2>2 DEF Command, SendData
  <2>4. UNCHANGED <<in, reply>>
    BY <1>2 DEF SendData, board
  <2>5. ASSUME NEW j \in 1..Len(out')
        PROVE  /\ out'[j].index + out'[j].len <= MaxNb
               /\ out'[j].op = "set" => out'[j].kind \in {"conf", "active"}
    <3>1. out' = Append(out, c)
      BY <2>1, <2>2
    <3>2. (j \in 1..Len(out) /\ out'[j] = out[j]) \/ out'[j] = c
      BY <1>t, <3>1
    <3> QED BY <1>p, <2>3, <3>2
  <2> QED BY <1>p, <2>4, <2>5 DEF PacketInv
<1>3. CASE SendRequest
  <2>1. PICK c \in CommandSet : c = Command("get", call.kind, 0, 0) /\ out' = Append(out, c)
    BY <1>0, <1>3, RequestSent
  <2>2. c.index + c.len <= MaxNb /\ c.op # "set"
    BY <1>t, <2>1 DEF Command
  <2>3. UNCHANGED <<in, reply>>
    BY <1>3 DEF SendRequest, board
  <2>4. ASSUME NEW j \in 1..Len(out')
        PROVE  /\ out'[j].index + out'[j].len <= MaxNb
               /\ out'[j].op = "set" => out'[j].kind \in {"conf", "active"}
    <3>1. (j \in 1..Len(out) /\ out'[j] = out[j]) \/ out'[j] = c
      BY <1>t, <2>1
    <3> QED BY <1>p, <2>2, <3>1
  <2> QED BY <1>p, <2>3, <2>4 DEF PacketInv
<1>4. CASE Receive
  <2>1. in # <<>> /\ in' = Tail(in) /\ UNCHANGED <<out, reply>>
    BY <1>4 DEF Receive, board
  <2>2. \A m \in 1..Len(in') : m + 1 \in 1..Len(in) /\ in'[m] = in[m + 1]
    BY <1>t, <2>1
  <2> QED BY <1>p, <2>1, <2>2 DEF PacketInv
<1>5. CASE Handle
  <2>1. out # <<>> /\ out' = Tail(out) /\ UNCHANGED in
    BY <1>5 DEF Handle
  <2>2. \A j \in 1..Len(out') : j + 1 \in 1..Len(out) /\ out'[j] = out[j + 1]
    BY <1>t, <2>1
  <2>3. PICK c \in CommandSet : c = Head(out)
    BY <1>t, <2>1
  <2>4. \A m \in 1..Len(reply') : FromBoard(reply'[m])
    <3>1. CASE c.op = "set"
      BY <1>p, <1>5, <2>3, <3>1 DEF Handle
    <3>2. CASE c.op # "set"
      <4>1. reply' = Fragments(c.kind) /\ c.kind \in Kind
        BY <1>5, <2>3, <3>2 DEF Handle, CommandSet
      <4>2. mem[c.kind] \in [1..ItemNb(c.kind) -> Version]
        BY <1>0, <4>1, VersionBound DEF TypeInv
      <4>3. Len(reply') = PacketNb(c.kind)
            /\ \A j \in 1..PacketNb(c.kind) : IsFragment(reply'[j], c.kind, j)
        BY <4>1, <4>2, FragmentsAre
      <4> QED BY <4>1, <4>3 DEF FromBoard
    <3> QED BY <3>1, <3>2
  <2> QED BY <1>p, <2>1, <2>2, <2>4 DEF PacketInv
<1>6. CASE SendPacket
  <2>1. reply # <<>> /\ in' = Append(in, Head(reply)) /\ reply' = Tail(reply) /\ UNCHANGED out
    BY <1>6 DEF SendPacket
  <2>2. \A m \in 1..Len(reply') : m + 1 \in 1..Len(reply) /\ reply'[m] = reply[m + 1]
    BY <1>t, <2>1
  <2>3. \A m \in 1..Len(in') : (m \in 1..Len(in) /\ in'[m] = in[m]) \/ in'[m] = reply[1]
    BY <1>t, <2>1
  <2>4. 1 \in 1..Len(reply)
    BY <1>t, <2>1
  <2> QED BY <1>p, <2>1, <2>2, <2>3, <2>4 DEF PacketInv
<1>7. CASE WatchdogReset
  <2>1. out' = <<>> /\ in' = <<>> /\ reply' = <<>>
    BY <1>7 DEF WatchdogReset
  <2> QED BY <2>1 DEF PacketInv
<1> QED BY <1>1, <1>2, <1>3, <1>4, <1>5, <1>6, <1>7 DEF Next, Library

-----------------------------------------------------------------------------
(* Every step keeps the calls, the counts and the writes *)

\* Every step keeps what is known of the call being made.
LEMMA StepCall == ValuesFit /\ IInv /\ [Next]_vars => CallInv'
<1> SUFFICES ASSUME ValuesFit, IInv, [Next]_vars PROVE CallInv'
  OBVIOUS
<1>0. TypeInv /\ PacketInv /\ CallInv
  BY DEF IInv
<1>t. /\ in \in Seq(PacketSet) /\ call \in Calls /\ ind \in Nat /\ calls \in Nat
      /\ call.kind \in Kind /\ call.nb \in Nat /\ call.op \in {"set", "get"}
  BY <1>0, CallFacts, MaxNbType, LayoutAssumption DEF TypeInv
<1>1. CASE Call
  BY <1>t, <1>1, CallFacts DEF Call, CallInv
<1>2. CASE SendData
  <2>1. PICK len \in 1..PacketItems(call.kind) : ind + len <= call.nb /\ ind' = ind + len
    BY <1>0, <1>2, DataSent
  <2>2. UNCHANGED <<call, calls>> /\ step = "send" /\ call.op = "set"
        /\ step' = IF ind' < call.nb THEN "send" ELSE "ok"
    BY <1>2 DEF SendData
  <2> QED BY <1>0, <1>t, <2>1, <2>2 DEF CallInv
<1>3. CASE SendRequest
  BY <1>0, <1>t, <1>3, CallFacts, MaxNbType DEF SendRequest, CallInv, host
<1>4. CASE Receive
  <2>1. step = "receive" /\ in # <<>> /\ UNCHANGED <<call, calls>> /\ call.op = "get"
    BY <1>0, <1>4 DEF Receive, CallInv
  <2>2. CASE ~(call.kind \in {"active", Head(in).kind})
    <3>1. UNCHANGED <<ind, step>>
      BY <1>4, <2>2 DEF Receive
    <3> QED BY <1>0, <2>1, <3>1 DEF CallInv
  <2>3. CASE call.kind \in {"active", Head(in).kind}
    <3>1. ind' = ind + Counted(Head(in)) /\ step' = IF ind' < call.nb THEN "receive" ELSE "ok"
      BY <1>4, <2>3 DEF Receive
    <3>2. call.kind \in {"value", "active"} => step' = "ok"
      <4>1. CASE call.kind = "active"
        BY <1>0, <1>t, <2>1, <3>1, <4>1, CallFacts DEF Counted, CallInv
      <4>2. CASE call.kind = "value"
        <5>1. PICK p \in PacketSet : p = Head(in) /\ FromBoard(p)
          BY <1>0, <1>t, <2>1 DEF PacketInv
        <5>2. PICK j \in 1..PacketNb("value") : IsFragment(p, "value", j)
          BY <2>3, <4>2, <5>1 DEF FromBoard, IsFragment
        <5>3. j = 1 /\ First("value", 1) = 0 /\ BoardNb \in Nat
          BY Layout, LayoutAssumption DEF Kind
        <5>4. p.index = 0 /\ Len(p.versions) = BoardNb
          BY <5>2, <5>3 DEF IsFragment, PacketItems, ItemNb, Smaller
        <5>5. call.nb <= BoardNb
          BY <1>t, <4>2 DEF ValuesFit
        <5>6. Counted(p) = call.nb
          BY <1>t, <4>2, <5>3, <5>4, <5>5 DEF Counted, ParseCount, Smaller
        <5> QED BY <1>t, <3>1, <5>1, <5>6
      <4> QED BY <4>1, <4>2
    <3> QED BY <2>1, <3>1, <3>2 DEF CallInv
  <2> QED BY <2>2, <2>3
<1>5. CASE Timeout \/ Connect
  BY <1>0, <1>t, <1>5 DEF Timeout, Connect, CallInv, host
<1>6. CASE Handle \/ SendPacket \/ WatchdogReset \/ (\E kind \in {"calib", "value"} : Change(kind))
           \/ UNCHANGED vars
  <2>1. UNCHANGED <<call, ind, calls, step>>
    BY <1>6 DEF Handle, SendPacket, WatchdogReset, Change, vars, host
  <2> QED BY <1>0, <2>1 DEF CallInv
<1> QED BY <1>1, <1>2, <1>3, <1>4, <1>5, <1>6 DEF Next, Library

\* A board that is reset has empty endpoints, until it is opened again.
LEMMA StepLost == IInv /\ [Next]_vars => LostInv'
<1> SUFFICES ASSUME LostInv, [Next]_vars PROVE LostInv'
  BY DEF IInv
<1>1. CASE SendData \/ SendRequest \/ Receive \/ Handle \/ SendPacket
  <2>1. connected'
    BY <1>1 DEF SendData, SendRequest, Receive, Handle, SendPacket
  <2> QED BY <2>1 DEF LostInv
<1>2. CASE Call \/ Timeout \/ (\E kind \in {"calib", "value"} : Change(kind)) \/ UNCHANGED vars
  <2>1. UNCHANGED <<out, in, reply>> /\ (connected' <=> connected)
    BY <1>2 DEF Call, Timeout, Change, vars, board
  <2> QED BY <2>1 DEF LostInv
<1>3. CASE Connect
  BY <1>3 DEF Connect, LostInv
<1>4. CASE WatchdogReset
  BY <1>4 DEF WatchdogReset, LostInv
<1> QED BY <1>1, <1>2, <1>3, <1>4 DEF Next, Library

\* A command handled is in the array instead of on its way.
LEMMA HandleMoves ==
  ASSUME TypeInv, Handle, NEW kind \in Kind, NEW i \in 1..ItemNb(kind)
  PROVE  /\ mem'[kind][i] + WritesIn(out', kind, i) = mem[kind][i] + WritesIn(out, kind, i)
         /\ mem'[kind][i] \in Nat
<1>1. /\ out \in Seq(CommandSet) /\ out # <<>> /\ out' = Tail(out) /\ Tail(out) \in Seq(CommandSet)
      /\ DOMAIN mem = Kind /\ mem[kind] \in [1..ItemNb(kind) -> Nat]
  BY DEF TypeInv, Handle
<1>2. PICK c \in CommandSet : c = Head(out)
  BY <1>1
<1>3. /\ WritesIn(out, kind, i) = WritesIn(out', kind, i) + One(c, kind, i)
      /\ WritesIn(out', kind, i) \in Nat /\ mem[kind][i] \in Nat /\ One(c, kind, i) \in Nat
  <2>1. WritesIn(out, kind, i) = WritesIn(Tail(out), kind, i) + One(Head(out), kind, i)
    BY <1>1, WritersTail
  <2>2. WritesIn(Tail(out), kind, i) \in Nat
    BY <1>1, WritesType
  <2>3. mem[kind][i] \in Nat
    BY <1>1
  <2> QED BY <1>1, <1>2, <2>1, <2>2, <2>3 DEF One
<1>4. mem'[kind][i] = mem[kind][i] + One(c, kind, i)
  <2>1. CASE c.op = "set"
    <3>1. mem' = [mem EXCEPT ![c.kind] = Store(c)]
      BY <1>2, <2>1 DEF Handle
    <3>2. CASE kind = c.kind
      <4>1. mem'[kind] = Store(c)
        BY <1>1, <3>1, <3>2
      <4>2. Store(c)[i] = mem[kind][i] + (IF Writes(c, kind, i) THEN 1 ELSE 0)
        BY <3>2 DEF Store
      <4> QED BY <4>1, <4>2 DEF One
    <3>3. CASE kind # c.kind
      <4>1. mem'[kind] = mem[kind] /\ ~Writes(c, kind, i)
        BY <1>1, <3>1, <3>3 DEF Writes
      <4> QED BY <1>3, <4>1 DEF One
    <3> QED BY <3>2, <3>3
  <2>2. CASE c.op # "set"
    <3>1. mem' = mem /\ ~Writes(c, kind, i)
      BY <1>2, <2>2 DEF Handle, Writes
    <3> QED BY <1>3, <3>1 DEF One
  <2> QED BY <2>1, <2>2
<1> QED BY <1>3, <1>4

\* The items of a packet sent are on their way once more.
LEMMA DataAdds ==
  ASSUME TypeInv, CallInv, SendData, NEW kind, NEW i \in Nat
  PROVE  /\ WritesIn(out', kind, i) = WritesIn(out, kind, i)
               + (IF kind = call.kind /\ i > ind /\ i <= ind' THEN 1 ELSE 0)
         /\ ind' \in Nat /\ ind' > ind /\ ind' <= call.nb
<1>1. PICK len \in 1..PacketItems(call.kind) :
            /\ ind + len <= call.nb /\ ind' = ind + len
            /\ out' = Append(out, Command("set", call.kind, ind, len))
            /\ Command("set", call.kind, ind, len) \in CommandSet
  BY DataSent
<1>2. PICK c \in CommandSet : c = Command("set", call.kind, ind, len)
  BY <1>1
<1>3. out \in Seq(CommandSet) /\ ind \in Nat /\ call.nb \in Nat
  BY CallFacts, MaxNbType, LayoutAssumption DEF TypeInv
<1>4. WritesIn(out', kind, i) = WritesIn(out, kind, i) + One(c, kind, i)
  <2>1. WritesIn(Append(out, c), kind, i) = WritesIn(out, kind, i) + One(c, kind, i)
    BY <1>3, WritersAppend
  <2> QED BY <1>1, <1>2, <2>1
<1>5. len \in Nat \ {0}
  BY <1>3, CallFacts, Layout DEF TypeInv
<1>6. Writes(c, kind, i) <=> kind = call.kind /\ i > ind /\ i <= ind'
  BY <1>1, <1>2, <1>3, <1>5 DEF Command, Writes
<1> QED BY <1>1, <1>3, <1>4, <1>5, <1>6 DEF One

\* A request writes nothing.
LEMMA RequestAdds ==
  ASSUME TypeInv, SendRequest, NEW kind, NEW i
  PROVE  WritesIn(out', kind, i) = WritesIn(out, kind, i)
<1>1. /\ Command("get", call.kind, 0, 0) \in CommandSet
      /\ out' = Append(out, Command("get", call.kind, 0, 0))
  BY RequestSent
<1>2. PICK c \in CommandSet : c = Command("get", call.kind, 0, 0)
  BY <1>1
<1>3. out \in Seq(CommandSet) /\ WritesIn(out, kind, i) \in Nat
  BY WritesType DEF TypeInv
<1>4. WritesIn(Append(out, c), kind, i) = WritesIn(out, kind, i) + One(c, kind, i)
  BY <1>3, WritersAppend
<1>5. ~Writes(c, kind, i)
  BY <1>2 DEF Command, Writes
<1> QED BY <1>1, <1>2, <1>3, <1>4, <1>5 DEF One

\* The core task writes what the host does not.
LEMMA ChangeAdds ==
  ASSUME TypeInv, NEW k \in {"calib", "value"}, Change(k),
         NEW kind \in Kind, NEW i \in 1..ItemNb(kind)
  PROVE  /\ mem'[kind][i] = mem[kind][i] + (IF kind = k THEN 1 ELSE 0)
         /\ out' = out /\ mem[k][1] < MaxVersion
<1>1. /\ mem' = [mem EXCEPT ![k] = [j \in DOMAIN mem[k] |-> mem[k][j] + 1]]
      /\ out' = out /\ mem[k][1] < MaxVersion
  BY DEF Change
<1>2. DOMAIN mem = Kind /\ mem[kind] \in [1..ItemNb(kind) -> Nat]
  BY DEF TypeInv
<1>3. mem[kind][i] \in Nat /\ DOMAIN mem[kind] = 1..ItemNb(kind)
  BY <1>2
<1>4. CASE kind = k
  <2>1. mem'[kind] = [j \in DOMAIN mem[kind] |-> mem[kind][j] + 1]
    BY <1>1, <1>2, <1>4
  <2> QED BY <1>1, <1>3, <1>4, <2>1
<1>5. CASE kind # k
  BY <1>1, <1>2, <1>3, <1>5
<1> QED BY <1>4, <1>5

\* A reset clears the arrays and the endpoints.
LEMMA ResetClears ==
  ASSUME WatchdogReset, NEW kind \in Kind, NEW i \in 1..ItemNb(kind)
  PROVE  mem'[kind][i] = 0 /\ WritesIn(out', kind, i) = 0
<1>1. mem' = Start /\ out' = <<>>
  BY DEF WatchdogReset
<1> QED BY <1>1, WritersEmpty DEF Start

\* What a step changes of an array and of the writes on their way to it.
LEMMA OtherSteps ==
  ASSUME Call \/ Receive \/ Timeout \/ Connect \/ SendPacket \/ UNCHANGED vars
  PROVE  mem' = mem /\ out' = out
  BY DEF Call, Receive, Timeout, Connect, SendPacket, vars, board

\* Every step keeps the bound on the writes.
LEMMA StepBound == IInv /\ [Next]_vars => BoundInv'
<1> SUFFICES ASSUME IInv, [Next]_vars PROVE BoundInv'
  OBVIOUS
<1>0. TypeInv /\ PacketInv /\ CallInv /\ BoundInv
  BY DEF IInv
<1>t. /\ out \in Seq(CommandSet) /\ call \in Calls /\ ind \in Nat /\ calls \in Nat
      /\ \A kind \in Kind : \A i \in 1..ItemNb(kind) : mem[kind][i] \in Nat
      /\ \A kind \in Kind : \A i \in 1..ItemNb(kind) : WritesIn(out, kind, i) \in Nat
      /\ \A kind \in Kind : 1 \in 1..ItemNb(kind)
      /\ MaxVersion \in Nat
  <2>0. MaxVersion \in Nat /\ MaxCalls \in Nat /\ MaxNb \in Nat /\ PerPacket \in Nat
    BY CallsAssumption, MaxNbType, LayoutAssumption
  <2>1. /\ out \in Seq(CommandSet) /\ call \in Calls /\ ind \in Nat /\ calls \in Nat
        /\ \A kind \in Kind : mem[kind] \in [1..ItemNb(kind) -> Nat]
    BY <1>0, <2>0 DEF TypeInv
  <2>4. \A kind \in Kind : \A i \in 1..ItemNb(kind) : mem[kind][i] \in Nat
    BY <2>1
  <2>2. \A kind \in Kind : \A i \in 1..ItemNb(kind) : WritesIn(out, kind, i) \in Nat
    BY <2>1, WritesType
  <2>3. \A kind \in Kind : 1 \in 1..ItemNb(kind)
    BY Layout
  <2> QED BY <2>0, <2>1, <2>2, <2>3, <2>4
<1>k. Kind = {"conf", "active", "calib", "value"}
  BY DEF Kind
<1>b. /\ \A kind \in {"calib", "value"} : \A i \in 1..ItemNb(kind) :
            mem[kind][i] = mem[kind][1] /\ mem[kind][i] <= MaxVersion
      /\ \A kind \in {"conf", "active"} : \A i \in 1..ItemNb(kind) :
            mem[kind][i] + WritesIn(out, kind, i) <= calls
      /\ step = "send" /\ call.op = "set" => \A i \in 1..ItemNb(call.kind) :
            i > ind => mem[call.kind][i] + WritesIn(out, call.kind, i) < calls
  BY <1>0 DEF BoundInv, Pending
\* The arrays of the board.
<1>1. ASSUME NEW kind \in {"calib", "value"}, NEW i \in 1..ItemNb(kind)
      PROVE  mem'[kind][i] = mem'[kind][1] /\ mem'[kind][i] <= MaxVersion
  <2>0. kind \in Kind /\ kind \notin {"conf", "active"} /\ 1 \in 1..ItemNb(kind)
    BY <1>k, <1>t
  <2>1. CASE Call \/ Receive \/ Timeout \/ Connect \/ SendPacket \/ UNCHANGED vars
    BY <1>b, <2>1, OtherSteps
  <2>2. CASE SendData \/ SendRequest
    <3>1. mem' = mem
      BY <2>2 DEF SendData, SendRequest, board
    <3> QED BY <1>b, <3>1
  <2>3. CASE Handle
    <3>1. mem'[kind] = mem[kind]
      <4>1. PICK c \in CommandSet : c = Head(out) /\ c = out[1] /\ 1 \in 1..Len(out)
        BY <1>t, <2>3 DEF Handle
      <4>2. CASE c.op = "set"
        <5>1. c.kind # kind
          BY <1>0, <2>0, <4>1, <4>2 DEF PacketInv
        <5>2. mem' = [mem EXCEPT ![c.kind] = Store(c)]
          BY <2>3, <4>1, <4>2 DEF Handle
        <5>3. kind \in DOMAIN mem
          BY <1>0, <2>0 DEF TypeInv
        <5> QED BY <5>1, <5>2, <5>3
      <4>3. CASE c.op # "set"
        BY <2>3, <4>1, <4>3 DEF Handle
      <4> QED BY <4>2, <4>3
    <3> QED BY <1>b, <3>1
  <2>4. ASSUME NEW k \in {"calib", "value"}, Change(k)
        PROVE  mem'[kind][i] = mem'[kind][1] /\ mem'[kind][i] <= MaxVersion
    <3>1. /\ mem'[kind][i] = mem[kind][i] + (IF kind = k THEN 1 ELSE 0)
          /\ mem'[kind][1] = mem[kind][1] + (IF kind = k THEN 1 ELSE 0)
          /\ mem[k][1] < MaxVersion
      BY <1>0, <2>0, <2>4, ChangeAdds
    <3>2. /\ mem[kind][i] = mem[kind][1] /\ mem[kind][i] <= MaxVersion
          /\ mem[kind][i] \in Nat
      BY <1>b, <1>t, <2>0
    <3> QED BY <1>t, <3>1, <3>2
  <2>5. CASE WatchdogReset
    BY <1>t, <2>0, <2>5, ResetClears
  <2> QED BY <2>1, <2>2, <2>3, <2>4, <2>5 DEF Next, Library
\* The arrays of the host.
<1>2. ASSUME NEW kind \in {"conf", "active"}, NEW i \in 1..ItemNb(kind)
      PROVE  mem'[kind][i] + WritesIn(out', kind, i) <= calls'
  <2>0. /\ kind \in Kind /\ kind \notin {"calib", "value"} /\ i \in Nat
        /\ mem[kind][i] + WritesIn(out, kind, i) <= calls
        /\ mem[kind][i] \in Nat /\ WritesIn(out, kind, i) \in Nat
    BY <1>k, <1>b, <1>t
  <2>1. CASE Call \/ Receive \/ Timeout \/ Connect \/ SendPacket \/ UNCHANGED vars
    <3>1. calls' \in {calls, calls + 1}
      BY <2>1 DEF Call, Receive, Timeout, Connect, SendPacket, vars, host
    <3> QED BY <1>t, <2>0, <2>1, <3>1, OtherSteps
  <2>2. CASE SendData
    <3>1. mem' = mem /\ calls' = calls /\ step = "send" /\ call.op = "set"
      BY <2>2 DEF SendData, board
    <3>2. /\ WritesIn(out', kind, i) = WritesIn(out, kind, i)
               + (IF kind = call.kind /\ i > ind /\ i <= ind' THEN 1 ELSE 0)
      BY <1>0, <2>0, <2>2, DataAdds
    <3>3. CASE kind = call.kind /\ i > ind
      <4>1. mem[kind][i] + WritesIn(out, kind, i) < calls
        BY <1>b, <3>1, <3>3
      <4> QED BY <1>t, <2>0, <3>1, <3>2, <4>1
    <3>4. CASE ~(kind = call.kind /\ i > ind)
      BY <2>0, <3>1, <3>2, <3>4
    <3> QED BY <3>3, <3>4
  <2>3. CASE SendRequest
    <3>1. mem' = mem /\ calls' = calls
      BY <2>3 DEF SendRequest, host, board
    <3>2. WritesIn(out', kind, i) = WritesIn(out, kind, i)
      BY <1>0, <2>3, RequestAdds
    <3> QED BY <2>0, <3>1, <3>2
  <2>4. CASE Handle
    <3>1. calls' = calls
      BY <2>4 DEF Handle, host
    <3> QED BY <1>0, <2>0, <2>4, <3>1, HandleMoves
  <2>5. ASSUME NEW k \in {"calib", "value"}, Change(k)
        PROVE  mem'[kind][i] + WritesIn(out', kind, i) <= calls'
    <3>1. calls' = calls
      BY <2>5 DEF Change, host
    <3>2. kind # k
      BY <2>0
    <3>3. mem'[kind][i] = mem[kind][i] + (IF kind = k THEN 1 ELSE 0) /\ out' = out
      BY <1>0, <2>0, <2>5, ChangeAdds
    <3> QED BY <2>0, <3>1, <3>2, <3>3
  <2>6. CASE WatchdogReset
    <3>1. calls' = calls
      BY <2>6 DEF WatchdogReset, host
    <3>2. mem'[kind][i] = 0 /\ WritesIn(out', kind, i) = 0
      BY <2>0, <2>6, ResetClears
    <3> QED BY <1>t, <3>1, <3>2
  <2> QED BY <2>1, <2>2, <2>3, <2>4, <2>5, <2>6 DEF Next, Library
\* What a write has still to send.
<1>3. ASSUME step' = "send", call'.op = "set", NEW i \in 1..ItemNb(call'.kind), i > ind'
      PROVE  mem'[call'.kind][i] + WritesIn(out', call'.kind, i) < calls'
  <2>1. CASE Call
    <3>1. PICK c \in Calls : c = call'
      BY <2>1 DEF Call
    <3>2. c.kind \in {"conf", "active"}
      BY <1>3, <3>1, CallFacts
    <3>3. mem[c.kind][i] + WritesIn(out, c.kind, i) <= calls
      BY <1>3, <1>b, <3>1, <3>2
    <3>4. calls' = calls + 1 /\ mem' = mem /\ out' = out
      BY <2>1, OtherSteps DEF Call
    <3>5. mem[c.kind][i] \in Nat /\ WritesIn(out, c.kind, i) \in Nat
      BY <1>3, <1>k, <1>t, <3>1, <3>2
    <3> QED BY <1>t, <3>1, <3>3, <3>4, <3>5
  <2>2. CASE ~Call
    <3>1. call' = call /\ calls' = calls /\ step = "send" /\ (ind' = ind \/ SendData)
      <4>1. CASE SendData
        BY <1>3, <4>1 DEF SendData
      <4>2. CASE SendRequest \/ Timeout \/ Connect \/ Receive
        BY <1>0, <1>3, <4>2 DEF SendRequest, Timeout, Connect, Receive, host, CallInv
      <4>3. CASE Handle \/ SendPacket \/ WatchdogReset \/ (\E kind \in {"calib", "value"} : Change(kind))
                 \/ UNCHANGED vars
        BY <1>3, <4>3 DEF Handle, SendPacket, WatchdogReset, Change, vars, host
      <4> QED BY <2>2, <4>1, <4>2, <4>3 DEF Next, Library
    <3>2. PICK kind \in {"conf", "active"} : kind = call.kind
      BY <1>3, <1>t, <3>1, CallFacts
    <3>3. /\ kind \in Kind /\ kind \notin {"calib", "value"}
          /\ i \in 1..ItemNb(kind) /\ i \in Nat /\ kind = call'.kind
          /\ mem[kind][i] \in Nat /\ WritesIn(out, kind, i) \in Nat
      BY <1>3, <1>k, <1>t, <3>1, <3>2
    <3>4. i > ind => mem[kind][i] + WritesIn(out, kind, i) < calls
      BY <1>3, <1>b, <3>1, <3>2, <3>3
    <3>5. CASE SendData
      <4>1. /\ WritesIn(out', kind, i) = WritesIn(out, kind, i)
                 + (IF kind = call.kind /\ i > ind /\ i <= ind' THEN 1 ELSE 0)
            /\ ind' > ind /\ ind' \in Nat /\ mem' = mem
        <5>1. mem' = mem
          BY <3>5 DEF SendData, board
        <5> QED BY <1>0, <3>3, <3>5, <5>1, DataAdds
      <4> QED BY <1>3, <1>t, <3>1, <3>3, <3>4, <4>1
    <3>6. CASE Handle
      <4>1. mem'[kind][i] + WritesIn(out', kind, i) = mem[kind][i] + WritesIn(out, kind, i)
        BY <1>0, <3>3, <3>6, HandleMoves
      <4>2. ind' = ind
        BY <3>6 DEF Handle, host
      <4> QED BY <1>3, <3>1, <3>3, <3>4, <4>1, <4>2
    <3>7. ASSUME NEW k \in {"calib", "value"}, Change(k)
          PROVE  mem'[kind][i] + WritesIn(out', kind, i) < calls'
      <4>1. mem'[kind][i] = mem[kind][i] + (IF kind = k THEN 1 ELSE 0) /\ out' = out
        BY <1>0, <3>3, <3>7, ChangeAdds
      <4>2. kind # k /\ ind' = ind
        BY <3>3, <3>7 DEF Change, host
      <4> QED BY <1>3, <3>1, <3>3, <3>4, <4>1, <4>2
    <3>8. CASE WatchdogReset
      <4>1. mem'[kind][i] = 0 /\ WritesIn(out', kind, i) = 0
        BY <3>3, <3>8, ResetClears
      <4>2. calls >= 1
        BY <1>0, <3>1 DEF CallInv
      <4> QED BY <1>t, <3>1, <3>3, <4>1, <4>2
    <3>9. CASE SendPacket \/ UNCHANGED vars
      <4>1. ind' = ind
        BY <3>9 DEF SendPacket, vars, host
      <4> QED BY <1>3, <3>1, <3>3, <3>4, <3>9, <4>1, OtherSteps
    <3>10. ~SendRequest /\ ~Timeout /\ ~Connect /\ ~Receive
      BY <1>3, <3>1 DEF SendRequest, Timeout, Connect, Receive
    <3> QED BY <2>2, <3>3, <3>5, <3>6, <3>7, <3>8, <3>9, <3>10 DEF Next, Library
  <2> QED BY <2>1, <2>2
<1> QED BY <1>1, <1>2, <1>3 DEF BoundInv, Pending


\* An item is written when its packet is sent, and never but once.
LEMMA StepWrite == IInv /\ [Next]_vars => WriteInv'
<1> SUFFICES ASSUME IInv, [Next]_vars,
                    connected', step' # "idle", call'.op = "set",
                    NEW i \in 1..ItemNb(call'.kind)
             PROVE  mem'[call'.kind][i] + WritesIn(out', call'.kind, i)
                       = since'[i] + (IF i <= ind' THEN 1 ELSE 0)
  BY DEF WriteInv, Pending
<1>0. TypeInv /\ PacketInv /\ CallInv /\ WriteInv
  BY DEF IInv
<1>k. Kind = {"conf", "active", "calib", "value"}
  BY DEF Kind
<1>1. CASE Call
  <2>1. PICK c \in Calls : c = call'
    BY <1>1 DEF Call
  <2>2. /\ c.kind \in Kind /\ ItemNb(c.kind) \in Nat /\ i \in 1..MaxItem
        /\ i \in 1..ItemNb(c.kind)
    BY <2>1, CallFacts, MaxItemType
  <2>3. since'[i] = mem[c.kind][i] + WritesIn(out, c.kind, i)
    <3>1. since' = [n \in 1..MaxItem |-> IF n > ItemNb(c.kind) THEN 0
                      ELSE mem[c.kind][n] + WritesIn(out, c.kind, n)]
      BY <1>1, <2>1 DEF Call, Pending
    <3> QED BY <2>2, <3>1
  <2>4. mem' = mem /\ out' = out /\ ind' = 0
    BY <1>1, OtherSteps DEF Call
  <2>5. mem[c.kind][i] \in Nat /\ WritesIn(out, c.kind, i) \in Nat
    <3>1. mem[c.kind] \in [1..ItemNb(c.kind) -> Nat] /\ out \in Seq(CommandSet)
      BY <1>0, <2>2 DEF TypeInv
    <3>2. mem[c.kind][i] \in Nat
      BY <2>2, <3>1
    <3> QED BY <3>1, <3>2, WritesType
  <2> QED BY <2>1, <2>2, <2>3, <2>4, <2>5
<1>2. CASE ~Call
  <2>1. call' = call /\ since' = since /\ connected /\ step # "idle" /\ ~Connect /\ ~WatchdogReset
    <3>1. CASE Library \/ Handle \/ SendPacket
      <4>1. CASE SendData \/ SendRequest \/ Receive
        BY <1>0, <4>1 DEF SendData, SendRequest, Receive, Connect, WatchdogReset, host, InCall
      <4>2. CASE Timeout
        <5>1. call' = call /\ since' = since /\ (connected' <=> connected) /\ step # "idle"
          BY <4>2 DEF Timeout, host, InCall
        <5>2. ~Connect /\ ~WatchdogReset
          BY <5>1 DEF Connect, WatchdogReset
        <5> QED BY <5>1, <5>2
      <4>3. CASE Handle \/ SendPacket
        BY <4>3 DEF Handle, SendPacket, Connect, WatchdogReset, host
      <4> QED BY <3>1, <4>1, <4>2, <4>3 DEF Library
    <3>2. ASSUME NEW kind \in {"calib", "value"}, Change(kind)
          PROVE  call' = call /\ since' = since /\ (connected' <=> connected) /\ step' = step
      BY <3>2 DEF Change, host
    <3>3. CASE UNCHANGED vars
      BY <3>3 DEF vars, Connect, WatchdogReset
    <3>4. ~Connect /\ ~WatchdogReset
      BY DEF Connect, WatchdogReset
    <3> QED BY <1>2, <3>1, <3>2, <3>3, <3>4 DEF Next
  <2>2. PICK kind \in {"conf", "active"} : kind = call.kind
    <3>1. call \in Calls
      BY <1>0 DEF TypeInv
    <3> QED BY <2>1, <3>1, CallFacts
  <2>3. /\ kind \in Kind /\ kind \notin {"calib", "value"} /\ kind = call'.kind
        /\ i \in 1..ItemNb(kind) /\ i \in Nat
    BY <1>k, <2>1, <2>2
  <2>4. /\ mem[kind][i] \in Nat /\ WritesIn(out, kind, i) \in Nat
        /\ since[i] \in Nat /\ ind \in Nat
    <3>1. /\ mem[kind] \in [1..ItemNb(kind) -> Nat] /\ out \in Seq(CommandSet)
          /\ since \in [1..MaxItem -> Version] /\ ind \in 0..(MaxNb + PerPacket)
      BY <1>0, <2>3 DEF TypeInv
    <3>2. /\ i \in 1..MaxItem /\ MaxNb \in Nat /\ PerPacket \in Nat
          /\ MaxVersion \in Nat /\ MaxCalls \in Nat
      BY <2>3, MaxItemType, MaxNbType, LayoutAssumption, CallsAssumption
    <3>3. mem[kind][i] \in Nat
      BY <2>3, <3>1
    <3>4. since[i] \in Version
      BY <3>1, <3>2
    <3> QED BY <3>1, <3>2, <3>3, <3>4, WritesType DEF Version
  <2>5. mem[kind][i] + WritesIn(out, kind, i) = since[i] + (IF i <= ind THEN 1 ELSE 0)
    BY <1>0, <2>1, <2>2, <2>3 DEF WriteInv, Pending
  <2>6. SUFFICES mem'[kind][i] + WritesIn(out', kind, i)
                    = since[i] + (IF i <= ind' THEN 1 ELSE 0)
    BY <2>1, <2>3
  <2>7. CASE SendData
    <3>1. /\ WritesIn(out', kind, i) = WritesIn(out, kind, i)
                 + (IF kind = call.kind /\ i > ind /\ i <= ind' THEN 1 ELSE 0)
          /\ ind' > ind /\ ind' \in Nat
      BY <1>0, <2>3, <2>7, DataAdds
    <3>2. mem'[kind][i] = mem[kind][i]
      BY <2>7 DEF SendData, board
    <3>3. CASE i <= ind
      BY <2>3, <2>4, <2>5, <3>1, <3>2, <3>3
    <3>4. CASE i > ind /\ i <= ind'
      <4>1. kind = call.kind
        BY <2>2
      <4>2. WritesIn(out', kind, i) = WritesIn(out, kind, i) + 1
        BY <3>1, <3>4, <4>1
      <4>3. mem[kind][i] + WritesIn(out, kind, i) = since[i]
        BY <2>3, <2>4, <2>5, <3>4
      <4> QED BY <2>3, <2>4, <3>2, <3>4, <4>2, <4>3
    <3>5. CASE i > ind'
      BY <2>3, <2>4, <2>5, <3>1, <3>2, <3>5
    <3> QED BY <2>3, <2>4, <3>1, <3>3, <3>4, <3>5
  <2>8. CASE Handle
    <3>1. mem'[kind][i] + WritesIn(out', kind, i) = mem[kind][i] + WritesIn(out, kind, i)
      BY <1>0, <2>3, <2>8, HandleMoves
    <3>2. ind' = ind
      BY <2>8 DEF Handle, host
    <3> QED BY <2>5, <3>1, <3>2
  <2>9. ASSUME NEW k \in {"calib", "value"}, Change(k)
        PROVE  mem'[kind][i] + WritesIn(out', kind, i) = since[i] + (IF i <= ind' THEN 1 ELSE 0)
    <3>1. mem'[kind][i] = mem[kind][i] + (IF kind = k THEN 1 ELSE 0) /\ out' = out
      BY <1>0, <2>3, <2>9, ChangeAdds
    <3>2. kind # k /\ ind' = ind
      BY <2>3, <2>9 DEF Change, host
    <3> QED BY <2>4, <2>5, <3>1, <3>2
  <2>10. CASE Timeout \/ SendPacket \/ UNCHANGED vars
    <3>1. ind' = ind /\ mem' = mem /\ out' = out
      BY <2>10, OtherSteps DEF Timeout, SendPacket, vars, host
    <3> QED BY <2>5, <3>1
  <2>11. ~SendRequest /\ ~Receive
    BY <1>0, <2>1 DEF SendRequest, Receive, CallInv
  <2> QED BY <1>2, <2>1, <2>7, <2>8, <2>9, <2>10, <2>11 DEF Next, Library
<1> QED BY <1>1, <1>2

-----------------------------------------------------------------------------
(* Every step keeps what a read relies on *)

\* The types the steps of a read need.
LEMMA ReadTypes ==
  ASSUME TypeInv
  PROVE  /\ out \in Seq(CommandSet) /\ in \in Seq(PacketSet) /\ reply \in Seq(PacketSet)
         /\ call \in Calls /\ call.kind \in Kind /\ call.nb \in 1..MaxNb
         /\ call.op \in {"set", "get"} /\ MaxNb \in Nat /\ ind \in Nat
         /\ data \in [1..MaxNb -> Item]
         /\ \A i \in 1..ItemNb(call.kind) :
               /\ mem[call.kind][i] \in Nat /\ WritesIn(out, call.kind, i) \in Nat
               /\ i \in 1..MaxItem /\ since[i] \in Nat
<1>1. /\ out \in Seq(CommandSet) /\ in \in Seq(PacketSet) /\ reply \in Seq(PacketSet)
      /\ call \in Calls /\ ind \in 0..(MaxNb + PerPacket) /\ data \in [1..MaxNb -> Item]
      /\ since \in [1..MaxItem -> Version]
      /\ \A kind \in Kind : mem[kind] \in [1..ItemNb(kind) -> Nat]
  BY DEF TypeInv
<1>2. /\ MaxNb \in Nat /\ PerPacket \in Nat /\ MaxVersion \in Nat /\ MaxCalls \in Nat
  BY MaxNbType, LayoutAssumption, CallsAssumption
<1>3. call.kind \in Kind /\ call.nb \in 1..MaxNb /\ call.op \in {"set", "get"}
  BY <1>1, CallFacts
<1>4. ASSUME NEW i \in 1..ItemNb(call.kind)
      PROVE  /\ mem[call.kind][i] \in Nat /\ WritesIn(out, call.kind, i) \in Nat
             /\ i \in 1..MaxItem /\ since[i] \in Nat
  <2>1. mem[call.kind] \in [1..ItemNb(call.kind) -> Nat]
    BY <1>1, <1>3
  <2>2. mem[call.kind][i] \in Nat
    BY <2>1
  <2>3. i \in 1..MaxItem
    BY <1>3, MaxItemType
  <2>4. since[i] \in Version
    BY <1>1, <2>3
  <2> QED BY <1>1, <1>2, <2>2, <2>3, <2>4, WritesType DEF Version
<1> QED BY <1>1, <1>2, <1>3, <1>4

\* A new call keeps what is known of a read,
LEMMA ReadCall == TypeInv /\ Reading /\ Call => Reading'
<1> SUFFICES ASSUME TypeInv, Reading, Call PROVE Reading'
  OBVIOUS
<1>1. PICK c \in Calls : c = call'
  BY DEF Call
<1>2. /\ UNCHANGED <<out, in, reply, mem, connected>> /\ step' = "send" /\ step # "receive"
  BY DEF Call, board, InCall
<1>3. since' = [i \in 1..MaxItem |-> IF i > ItemNb(c.kind) THEN 0
                   ELSE mem[c.kind][i] + WritesIn(out, c.kind, i)]
  BY <1>1 DEF Call, Pending
<1>4. ASSUME NEW i \in 1..ItemNb(c.kind)
      PROVE  mem[c.kind][i] + WritesIn(out, c.kind, i) >= since'[i]
  <2>1. c.kind \in Kind
    BY CallFacts
  <2>2. i \in 1..MaxItem /\ i <= ItemNb(c.kind) /\ ItemNb(c.kind) \in Nat
    BY <2>1, MaxItemType
  <2>3. since'[i] = mem[c.kind][i] + WritesIn(out, c.kind, i)
    BY <1>3, <2>2
  <2>4. mem[c.kind] \in [1..ItemNb(c.kind) -> Nat] /\ out \in Seq(CommandSet)
    BY <2>1 DEF TypeInv
  <2>5. mem[c.kind][i] \in Nat /\ WritesIn(out, c.kind, i) \in Nat
    BY <2>4, WritesType
  <2> QED BY <2>3, <2>5
<1>5. Reached'
  BY <1>1, <1>2, <1>4 DEF Reached, Pending
<1> QED BY <1>2, <1>5 DEF Reading, OnlyWrites

\* so do the data of a write,
LEMMA ReadSendData == TypeInv /\ CallInv /\ Reading /\ SendData => Reading'
<1> SUFFICES ASSUME TypeInv, CallInv, Reading, SendData PROVE Reading'
  OBVIOUS
<1>1. PICK len : out' = Append(out, Command("set", call.kind, ind, len))
  BY DataSent
<1>2. PICK c : c = Command("set", call.kind, ind, len)
  OBVIOUS
<1>3. c.op = "set"
  BY <1>2 DEF Command
<1>4. /\ UNCHANGED <<call, in, reply, connected>> /\ step' \in {"send", "ok"}
      /\ step = "send" /\ call.op = "set"
  BY DEF SendData, board
<1>5. in = <<>> /\ reply = <<>> /\ \A j \in 1..Len(out) : out[j].op = "set"
  BY <1>4 DEF Reading, OnlyWrites
<1>6. \A j \in 1..Len(out') : out'[j].op = "set"
  <2>1. out \in Seq(CommandSet) /\ out' = Append(out, c)
    BY <1>1, <1>2 DEF TypeInv
  <2>2. \A j \in 1..Len(out') : (j \in 1..Len(out) /\ out'[j] = out[j]) \/ out'[j] = c
    BY <2>1
  <2> QED BY <1>3, <1>5, <2>2
<1> QED BY <1>4, <1>5, <1>6 DEF Reading, OnlyWrites

\* and a request.
LEMMA ReadSendRequest == TypeInv /\ CallInv /\ Reading /\ SendRequest => Reading'
<1> SUFFICES ASSUME TypeInv, CallInv, Reading, SendRequest PROVE Reading'
  OBVIOUS
<1>1. PICK c \in CommandSet : c = Command("get", call.kind, 0, 0) /\ out' = Append(out, c)
  BY RequestSent
<1>2. c.op = "get" /\ c.kind = call.kind
  BY <1>1 DEF Command
<1>3. /\ UNCHANGED <<call, ind, since, in, reply, mem, connected>> /\ step' = "receive"
      /\ step = "send" /\ call.op = "get"
  BY DEF SendRequest, board, host
<1>4. /\ in = <<>> /\ reply = <<>> /\ \A j \in 1..Len(out) : out[j].op = "set"
      /\ Reached /\ connected /\ ind = 0
  BY <1>3 DEF Reading, OnlyWrites, CallInv
<1>5. Reached'
  <2>1. \A i : WritesIn(out', call.kind, i) = WritesIn(out, call.kind, i)
    BY RequestAdds
  <2> QED BY <1>3, <1>4, <2>1 DEF Reached, Pending
<1>6. /\ out' # <<>> /\ out'[Len(out')] = c
      /\ \A j \in 1..(Len(out') - 1) : out'[j].op = "set"
  <2>1. out \in Seq(CommandSet)
    BY DEF TypeInv
  <2>2. Len(out') = Len(out) + 1 /\ out'[Len(out) + 1] = c /\ Len(out) \in Nat
        /\ \A j \in 1..Len(out) : out'[j] = out[j]
    BY <1>1, <2>1
  <2>3. out' # <<>>
    BY <1>1, <2>1
  <2> QED BY <1>4, <2>2, <2>3
<1>7. Asked'
  BY <1>2, <1>3, <1>4, <1>5, <1>6 DEF Asked
<1> QED BY <1>3, <1>4, <1>7 DEF Reading

\* A packet is stored after those before it, whatever the call reads.
LEMMA InPlace ==
  ASSUME ValuesFit, TypeInv, CallInv, step = "receive", NEW p \in PacketSet,
         NEW j \in 1..PacketNb(call.kind), Fresh(p, j), ind = First(call.kind, j)
  PROVE  /\ Counted(p) = Smaller(Len(p.versions), call.nb - ind)
         /\ Counted(p) \in 1..(call.nb - ind)
         /\ \A i \in 1..ind : Stored(p)[i] = data[i]
         /\ \A i \in (ind + 1)..(ind + Counted(p)) :
               Stored(p)[i].kind = call.kind /\ Stored(p)[i].version >= since[i]
<1> DEFINE n == ItemNb(call.kind)
           f == PacketItems(call.kind)
           len == Len(p.versions)
           c == Counted(p)
<1>1. /\ call.kind \in Kind /\ call.nb \in 1..MaxNb /\ ind \in Nat /\ MaxNb \in Nat
      /\ call \in Calls
  BY ReadTypes
<1>2. /\ n \in Nat \ {0} /\ f \in Nat \ {0} /\ ind \in 0..(n - 1)
      /\ call.kind \in {"value", "active"} => f = n
  BY <1>1, Layout DEF PacketItems
<1>3. /\ p.kind = call.kind /\ p.index = ind /\ len = Smaller(f, n - ind) /\ ind < call.nb
      /\ \A i \in 1..len : p.versions[i] >= since[ind + i]
      /\ call.kind \in {"value", "active"} => ind = 0
  BY DEF Fresh, IsFragment, CallInv
<1>4. p.versions \in Seq(Version) /\ len \in 1..f /\ len <= n - ind
  BY <1>2, <1>3 DEF PacketSet, Smaller
<1>5. c = Smaller(len, call.nb - ind)
  <2>1. CASE call.kind \in {"conf", "calib"}
    BY <1>1, <1>3, <1>4, <2>1 DEF Counted, DefragmentCount
  <2>2. CASE call.kind = "value"
    <3>1. call.nb <= n
      BY <1>1, <2>2 DEF ValuesFit, ItemNb
    <3>2. len = n
      BY <1>2, <1>3, <2>2 DEF Smaller
    <3> QED BY <1>1, <1>2, <1>3, <1>4, <2>2, <3>1, <3>2 DEF Counted, ParseCount, Smaller
  <2>3. CASE call.kind = "active"
    <3>1. call.nb = 1 /\ n = 1
      BY <1>1, <2>3, CallFacts DEF ItemNb
    <3>2. len = 1
      BY <1>2, <1>3, <2>3, <3>1 DEF Smaller
    <3> QED BY <1>3, <2>3, <3>1, <3>2 DEF Counted, Smaller
  <2> QED BY <1>1, <2>1, <2>2, <2>3 DEF Kind
<1>6. c \in 1..(call.nb - ind) /\ c <= len
  BY <1>1, <1>3, <1>4, <1>5 DEF Smaller
<1>7. ASSUME NEW i \in 1..MaxNb
      PROVE  Stored(p)[i] =
               IF i <= ind \/ i > ind + c THEN data[i]
               ELSE IF i > ind + len THEN NoItem
               ELSE [kind |-> call.kind, version |-> p.versions[i - ind]]
  BY <1>3 DEF Stored
<1> HIDE DEF n, f, len, c
<1>8. \A i \in 1..ind : Stored(p)[i] = data[i]
  <2> TAKE i \in 1..ind
  <2>1. i \in 1..MaxNb /\ i <= ind
    BY <1>1, <1>3
  <2> QED BY <1>7, <2>1
<1>9. ASSUME NEW i \in (ind + 1)..(ind + c)
      PROVE  Stored(p)[i].kind = call.kind /\ Stored(p)[i].version >= since[i]
  <2>0. /\ i \in Nat /\ ind \in Nat /\ i > ind /\ i <= ind + c
        /\ c \in Nat /\ c <= len /\ ind + c <= call.nb /\ call.nb <= MaxNb
        /\ len \in Nat /\ call.nb \in Nat /\ MaxNb \in Nat
    <3>1. call.nb \in Nat /\ c \in Nat /\ ind + c <= call.nb /\ call.nb <= MaxNb
      BY <1>1, <1>6
    <3>2. len \in Nat
      BY <1>2, <1>4
    <3> QED BY <1>1, <1>6, <3>1, <3>2
  <2>1. /\ i \in 1..MaxNb /\ ~(i <= ind \/ i > ind + c) /\ ~(i > ind + len)
        /\ i - ind \in 1..len /\ ind + (i - ind) = i
    BY <2>0
  <2>2. Stored(p)[i] = [kind |-> call.kind, version |-> p.versions[i - ind]]
    BY <1>7, <2>1
  <2>3. p.versions[i - ind] >= since[i]
    BY <1>3, <2>1
  <2> QED BY <2>2, <2>3
<1> QED BY <1>5, <1>6, <1>8, <1>9 DEF len, c

\* The next packet of the reply is read; the last one ends the call.
LEMMA ReadReceive ==
  ValuesFit /\ TypeInv /\ CallInv /\ Reading /\ Receive /\ ~short' => Reading'
<1> SUFFICES ASSUME ValuesFit, TypeInv, CallInv, Reading, Receive, ~short' PROVE Reading'
  OBVIOUS
<1> DEFINE n == ItemNb(call.kind)
           f == PacketItems(call.kind)
           P == PacketNb(call.kind)
           L == LastIndex(call.kind)
<1>1. /\ in \in Seq(PacketSet) /\ call.kind \in Kind /\ call.nb \in 1..MaxNb
      /\ MaxNb \in Nat /\ ind \in Nat /\ data \in [1..MaxNb -> Item]
      /\ reply \in Seq(PacketSet)
  BY ReadTypes
<1>2. /\ step = "receive" /\ connected /\ in # <<>> /\ in' = Tail(in)
      /\ UNCHANGED <<call, out, reply, mem, connected, since>>
      /\ (step' = "ok" => ~(call.nb <= L))
  BY DEF Receive, board
<1>3. PICK r \in 0..P : Answered(r)
  BY <1>2 DEF Reading, Asked
<1>4. /\ out = <<>> /\ Len(in) + Len(reply) = P - r
      /\ r < P => ind = First(call.kind, r + 1)
      /\ \A m \in 1..Len(in) : Fresh(in[m], r + m)
      /\ \A m \in 1..Len(reply) : Fresh(reply[m], r + Len(in) + m)
      /\ \A i \in 1..ind : Current(i)
  BY <1>3 DEF Answered
<1>5. /\ Head(in) = in[1] /\ Head(in) \in PacketSet /\ Len(in) \in Nat \ {0}
      /\ Len(in') = Len(in) - 1 /\ \A m \in 1..Len(in') : in'[m] = in[m + 1]
      /\ Len(reply) \in Nat
  BY <1>1, <1>2
<1>6. /\ n \in Nat \ {0} /\ f \in Nat \ {0} /\ P \in Nat \ {0}
      /\ \A j \in 1..P : First(call.kind, j) \in 0..(n - 1)
      /\ \A j \in 1..(P - 1) : /\ First(call.kind, j + 1) = First(call.kind, j) + f
                               /\ First(call.kind, j) <= L - f
      /\ L = First(call.kind, P)
  BY <1>1, Layout
<1>7. r + 1 \in 1..P /\ r < P /\ ind = First(call.kind, r + 1)
  BY <1>4, <1>5, <1>6
<1>8. PICK p \in PacketSet : p = Head(in)
  BY <1>5
<1>9. Fresh(p, r + 1)
  BY <1>4, <1>5, <1>8
<1>10. /\ Counted(p) = Smaller(Len(p.versions), call.nb - ind)
       /\ Counted(p) \in 1..(call.nb - ind)
       /\ \A i \in 1..ind : Stored(p)[i] = data[i]
       /\ \A i \in (ind + 1)..(ind + Counted(p)) :
             Stored(p)[i].kind = call.kind /\ Stored(p)[i].version >= since[i]
  BY <1>2, <1>7, <1>9, InPlace
<1>11. /\ data' = Stored(p) /\ ind' = ind + Counted(p)
       /\ step' = IF ind' < call.nb THEN "receive" ELSE "ok"
  <2>1. call.kind \in {"active", p.kind}
    BY <1>9 DEF Fresh, IsFragment
  <2> QED BY <1>8, <2>1 DEF Receive
<1>12. PICK c \in 1..(call.nb - ind) : c = Counted(p)
  BY <1>10
<1>13. Len(p.versions) = Smaller(f, n - ind)
  BY <1>7, <1>9 DEF Fresh, IsFragment
<1> HIDE DEF n, f, P, L
<1>14. ind' = ind + c /\ c >= 1 /\ ind + c <= call.nb /\ c <= f /\ c \in Nat /\ call.nb \in Nat
  <2>1. call.nb \in Nat /\ c \in Nat /\ c >= 1 /\ ind + c <= call.nb
    BY <1>1, <1>12
  <2>2. ind \in 0..(n - 1)
    BY <1>6, <1>7
  <2>3. Len(p.versions) \in Nat /\ Len(p.versions) <= f
    BY <1>6, <1>13, <2>2 DEF Smaller
  <2>4. c = Smaller(Len(p.versions), call.nb - ind)
    BY <1>10, <1>12
  <2>5. c <= f
    <3>1. PICK m \in Nat, rest \in Int : /\ m = Len(p.versions) /\ m <= f
                                         /\ rest = call.nb - ind
      BY <1>1, <2>1, <2>3
    <3>2. c = IF m < rest THEN m ELSE rest
      BY <2>4, <3>1 DEF Smaller
    <3> QED BY <1>6, <3>1, <3>2
  <2> QED BY <1>11, <1>12, <2>1, <2>5
<1>15. ASSUME NEW i \in 1..ind' PROVE data'[i].kind = call.kind /\ data'[i].version >= since[i]
  <2>1. CASE i <= ind
    <3>1. i \in 1..ind
      BY <1>1, <1>14, <2>1
    <3>2. data'[i] = data[i]
      BY <1>10, <1>11, <3>1
    <3> QED BY <1>4, <3>1, <3>2 DEF Current
  <2>2. CASE i > ind
    <3>1. i \in (ind + 1)..(ind + c)
      BY <1>1, <1>14, <2>2
    <3> QED BY <1>10, <1>11, <1>12, <3>1
  <2> QED BY <1>1, <1>14, <2>1, <2>2
<1>16. \A i \in 1..ind' : Current(i)'
  BY <1>2, <1>15 DEF Current
<1>17. CASE ind' < call.nb
  <2>1. step' = "receive"
    BY <1>11, <1>17
  <2>2. r + 1 < P => ind' = First(call.kind, (r + 1) + 1)
    <3> SUFFICES ASSUME r + 1 < P PROVE ind' = First(call.kind, (r + 1) + 1)
      OBVIOUS
    <3>1. r + 1 \in 1..(P - 1) /\ (r + 1) + 1 \in 1..P
      BY <1>6, <1>7
    <3>2. First(call.kind, (r + 1) + 1) = ind + f /\ ind + f <= n - 1
      <4>1. First(call.kind, (r + 1) + 1) \in 0..(n - 1)
        BY <1>6, <3>1
      <4>2. First(call.kind, (r + 1) + 1) = First(call.kind, r + 1) + f
        BY <1>6, <3>1
      <4> QED BY <1>1, <1>6, <1>7, <4>1, <4>2
    <3>3. Len(p.versions) = f
      BY <1>1, <1>6, <1>13, <3>2 DEF Smaller
    <3>4. c = f
      <4>1. c = Smaller(f, call.nb - ind)
        BY <1>10, <1>12, <3>3
      <4>2. ind + c < call.nb
        BY <1>14, <1>17
      <4>3. f \in Nat /\ call.nb \in Nat /\ ind \in Nat
        BY <1>1, <1>6, <1>14
      <4> QED BY <4>1, <4>2, <4>3 DEF Smaller
    <3> QED BY <1>14, <3>2, <3>4
  <2>3. \A m \in 1..Len(in') : Fresh(in'[m], (r + 1) + m)
    <3> TAKE m \in 1..Len(in')
    <3>1. m + 1 \in 1..Len(in) /\ in'[m] = in[m + 1] /\ r + (m + 1) = (r + 1) + m
      BY <1>5
    <3>2. Fresh(in[m + 1], r + (m + 1))
      BY <1>4, <3>1
    <3> QED BY <3>1, <3>2
  <2>4. \A m \in 1..Len(reply') : Fresh(reply'[m], (r + 1) + Len(in') + m)
    <3> TAKE m \in 1..Len(reply')
    <3>1. (r + 1) + Len(in') + m = r + Len(in) + m
      BY <1>5
    <3> QED BY <1>2, <1>4, <3>1
  <2>5. Len(in') + Len(reply') = P - (r + 1) /\ r + 1 \in 0..P
    BY <1>2, <1>4, <1>5, <1>6, <1>7
  <2>6. PICK q \in 0..P : q = r + 1
    BY <2>5
  <2>7. /\ (\A m \in 1..Len(in) : Fresh(in[m], q + m))'
        /\ (\A m \in 1..Len(reply) : Fresh(reply[m], q + Len(in) + m))'
    BY <1>2, <2>3, <2>4, <2>6 DEF Fresh
  <2>8. Answered(q)'
    BY <1>2, <1>4, <1>16, <2>2, <2>5, <2>6, <2>7 DEF Answered, P
  <2> QED BY <1>2, <2>1, <2>6, <2>8 DEF Reading, P
<1>18. CASE ~(ind' < call.nb)
  <2>1. step' = "ok" /\ call.nb > L /\ ind' = call.nb
    <3>1. step' = "ok" /\ ~(call.nb <= L)
      BY <1>2, <1>11, <1>18 DEF L
    <3>2. L \in Nat
      BY <1>6
    <3> QED BY <1>1, <1>14, <1>18, <3>1, <3>2
  <2>2. r + 1 = P
    <3> SUFFICES ASSUME r + 1 # P PROVE FALSE
      OBVIOUS
    <3>1. r + 1 \in 1..(P - 1)
      BY <1>6, <1>7
    <3>2. First(call.kind, r + 1) <= L - f /\ L \in Nat
      BY <1>6, <3>1
    <3>3. ind + f <= L
      BY <1>1, <1>6, <1>7, <3>2
    <3>4. ind + c = call.nb
      BY <1>14, <2>1
    <3> QED BY <1>1, <1>6, <1>14, <2>1, <3>2, <3>3, <3>4
  <2>3. in' = <<>> /\ reply' = <<>>
    <3>1. Len(in') = 0 /\ Len(reply) = 0
      BY <1>4, <1>5, <1>6, <2>2
    <3>2. in' \in Seq(PacketSet)
      BY <1>1, <1>2
    <3> QED BY <1>1, <1>2, <3>1, <3>2
  <2>4. OnlyWrites'
    BY <1>2, <1>4 DEF OnlyWrites
  <2> QED BY <1>2, <1>16, <2>1, <2>3, <2>4 DEF Reading
<1> QED BY <1>17, <1>18

\* The board takes the writes, then the request, whose reply holds what the
\* call found or what was written since.
LEMMA ReadHandle == TypeInv /\ PacketInv /\ BoundInv /\ Reading /\ Handle => Reading'
<1> SUFFICES ASSUME TypeInv, PacketInv, BoundInv, Reading, Handle PROVE Reading'
  OBVIOUS
<1>1. /\ out \in Seq(CommandSet) /\ call.kind \in Kind /\ ind \in Nat
      /\ \A i \in 1..ItemNb(call.kind) : /\ mem[call.kind][i] \in Nat
                                         /\ WritesIn(out, call.kind, i) \in Nat
                                         /\ since[i] \in Nat
  BY ReadTypes
<1>2. /\ out # <<>> /\ out' = Tail(out) /\ reply = <<>> /\ connected
      /\ UNCHANGED <<call, ind, data, since, step, in, connected>>
  BY DEF Handle, host
<1>3. PICK c \in CommandSet : c = Head(out)
  BY <1>1, <1>2
<1>4. /\ c = out[1] /\ Len(out) \in Nat \ {0} /\ Len(out') = Len(out) - 1
      /\ \A j \in 1..Len(out') : out'[j] = out[j + 1]
      /\ out' \in Seq(CommandSet)
  BY <1>1, <1>2, <1>3
<1>5. c.op = "set" => reply' = reply
  BY <1>3 DEF Handle
<1>6. Reached => Reached'
  <2>1. \A i \in 1..ItemNb(call.kind) :
           mem'[call.kind][i] + WritesIn(out', call.kind, i)
              = mem[call.kind][i] + WritesIn(out, call.kind, i)
    BY <1>1, HandleMoves
  <2> QED BY <1>2, <2>1 DEF Reached, Pending
<1>7. CASE step # "receive"
  <2>1. in = <<>> /\ \A j \in 1..Len(out) : out[j].op = "set"
    BY <1>7 DEF Reading, OnlyWrites
  <2>2. c.op = "set" /\ OnlyWrites'
    <3>1. \A j \in 1..Len(out') : j + 1 \in 1..Len(out)
      BY <1>4
    <3> QED BY <1>4, <2>1, <3>1 DEF OnlyWrites
  <2>3. \A i \in 1..call.nb : Current(i) => Current(i)'
    BY <1>2 DEF Current
  <2> QED BY <1>2, <1>5, <1>6, <1>7, <2>1, <2>2, <2>3 DEF Reading
<1>8. CASE step = "receive"
  <2>1. Asked
    <3>1. ASSUME NEW r, Answered(r) PROVE FALSE
      BY <1>2, <3>1 DEF Answered
    <3> QED BY <1>8, <3>1 DEF Reading
  <2>2. /\ in = <<>> /\ ind = 0 /\ Reached
        /\ out[Len(out)].op = "get" /\ out[Len(out)].kind = call.kind
        /\ \A j \in 1..(Len(out) - 1) : out[j].op = "set"
    BY <2>1 DEF Asked
  <2>3. CASE Len(out) > 1
    <3>1. c.op = "set"
      BY <1>4, <2>2, <2>3
    <3>2. /\ out'[Len(out')] = out[Len(out)] /\ out' # <<>>
          /\ \A j \in 1..(Len(out') - 1) : out'[j].op = "set"
      <4>1. Len(out') \in 1..Len(out') /\ Len(out') + 1 = Len(out)
        BY <1>4, <2>3
      <4>2. \A j \in 1..(Len(out') - 1) :
               j \in 1..Len(out') /\ j + 1 \in 1..(Len(out) - 1)
        BY <1>4
      <4>3. out' # <<>>
        BY <1>4, <2>3
      <4> QED BY <1>4, <2>2, <4>1, <4>2, <4>3
    <3>3. Asked'
      BY <1>2, <1>5, <1>6, <2>2, <3>1, <3>2 DEF Asked
    <3> QED BY <1>2, <1>8, <3>3 DEF Reading
  <2>4. CASE Len(out) = 1
    <3>1. c.op = "get" /\ c.kind = call.kind
      BY <1>4, <2>2, <2>4
    <3>2. reply' = Fragments(call.kind) /\ mem' = mem
      BY <1>3, <3>1 DEF Handle
    <3>3. out' = <<>>
      BY <1>4, <2>4
    <3>4. mem[call.kind] \in [1..ItemNb(call.kind) -> Version]
      <4>1. mem[call.kind] \in [1..ItemNb(call.kind) -> Nat]
        BY <1>1 DEF TypeInv
      <4>2. \A i \in 1..ItemNb(call.kind) : mem[call.kind][i] \in Version
        BY <1>1, VersionBound
      <4> QED BY <4>1, <4>2
    <3>5. /\ Len(reply') = PacketNb(call.kind)
          /\ \A j \in 1..PacketNb(call.kind) :
                /\ IsFragment(reply'[j], call.kind, j)
                /\ \A i \in 1..Len(reply'[j].versions) :
                      /\ reply'[j].index + i \in 1..ItemNb(call.kind)
                      /\ reply'[j].versions[i] = mem[call.kind][reply'[j].index + i]
      BY <1>1, <3>2, <3>4, FragmentsAre
    <3>6. \A i \in 1..ItemNb(call.kind) : mem[call.kind][i] >= since[i]
      <4> TAKE i \in 1..ItemNb(call.kind)
      <4>1. mem'[call.kind][i] + WritesIn(out', call.kind, i) >= since[i]
        BY <1>2, <1>6, <2>2 DEF Reached, Pending
      <4>2. WritesIn(out', call.kind, i) = 0
        BY <3>3, WritersEmpty
      <4> QED BY <1>1, <3>2, <4>1, <4>2
    <3>7. PICK r \in 0..PacketNb(call.kind) : r = 0
      BY <1>1, Layout
    <3>8. PacketNb(call.kind) \in Nat \ {0} /\ First(call.kind, r + 1) = 0
      BY <1>1, <3>7, Layout
    <3>9. Len(in') = 0 /\ in' = <<>>
      BY <1>2, <2>2
    <3>10. (\A m \in 1..Len(reply) : Fresh(reply[m], r + Len(in) + m))'
      <4>1. ASSUME NEW m \in 1..Len(reply')
            PROVE  /\ IsFragment(reply'[m], call.kind, r + Len(in') + m)
                   /\ \A i \in 1..Len(reply'[m].versions) :
                         reply'[m].versions[i] >= since[reply'[m].index + i]
        <5>1. m \in 1..PacketNb(call.kind) /\ r + Len(in') + m = m
          BY <3>5, <3>7, <3>8, <3>9
        <5>2. ASSUME NEW i \in 1..Len(reply'[m].versions)
              PROVE  reply'[m].versions[i] >= since[reply'[m].index + i]
          <6>1. /\ reply'[m].index + i \in 1..ItemNb(call.kind)
                /\ reply'[m].versions[i] = mem[call.kind][reply'[m].index + i]
            BY <3>5, <5>1
          <6> QED BY <3>6, <6>1
        <5> QED BY <3>5, <5>1, <5>2
      <4> QED BY <1>2, <4>1 DEF Fresh
    <3>11. /\ Len(in') + Len(reply') = PacketNb(call'.kind) - r
           /\ ind' = First(call'.kind, r + 1) /\ ind' = 0
      BY <1>2, <2>2, <3>5, <3>7, <3>8, <3>9
    <3>12. Answered(r)'
      BY <3>3, <3>9, <3>10, <3>11 DEF Answered
    <3> QED BY <1>2, <1>8, <3>12 DEF Reading
  <2> QED BY <1>4, <2>3, <2>4
<1> QED BY <1>7, <1>8

\* The board sends the packets of the reply in order.
LEMMA ReadSendPacket == TypeInv /\ Reading /\ SendPacket => Reading'
<1> SUFFICES ASSUME TypeInv, Reading, SendPacket PROVE Reading'
  OBVIOUS
<1>1. /\ reply # <<>> /\ in' = Append(in, Head(reply)) /\ reply' = Tail(reply)
      /\ UNCHANGED <<call, ind, data, since, out, step, connected>> /\ connected
  BY DEF SendPacket, host
<1>2. step = "receive"
  BY <1>1 DEF Reading
<1>3. PICK r \in 0..PacketNb(call.kind) : Answered(r)
  BY <1>1, <1>2 DEF Reading, Asked
<1>4. /\ out = <<>> /\ Len(in) + Len(reply) = PacketNb(call.kind) - r
      /\ r < PacketNb(call.kind) => ind = First(call.kind, r + 1)
      /\ \A m \in 1..Len(in) : Fresh(in[m], r + m)
      /\ \A m \in 1..Len(reply) : Fresh(reply[m], r + Len(in) + m)
      /\ \A i \in 1..ind : Current(i)
  BY <1>3 DEF Answered
<1>5. in \in Seq(PacketSet) /\ reply \in Seq(PacketSet) /\ PacketNb(call.kind) \in Nat
  BY ReadTypes, Layout
<1>6. PICK p : p = reply[1]
  OBVIOUS
<1>7. /\ Len(in) \in Nat /\ Len(reply) \in Nat \ {0} /\ in' = Append(in, p)
      /\ Len(in') = Len(in) + 1 /\ Len(reply') = Len(reply) - 1
      /\ \A m \in 1..Len(in) : in'[m] = in[m]
      /\ in'[Len(in) + 1] = p
      /\ \A m \in 1..Len(reply') : reply'[m] = reply[m + 1]
  <2>1. p \in PacketSet /\ Head(reply) = p
    BY <1>1, <1>5, <1>6
  <2> QED BY <1>1, <1>5, <2>1
<1>8. ASSUME NEW m \in 1..Len(in') PROVE Fresh(in'[m], r + m)
  <2>1. CASE m \in 1..Len(in)
    BY <1>4, <1>7, <2>1
  <2>2. CASE m = Len(in) + 1
    <3>1. Fresh(p, r + Len(in) + 1)
      BY <1>4, <1>6, <1>7
    <3>2. r + Len(in) + 1 = r + m
      BY <1>7, <2>2
    <3> QED BY <1>7, <2>2, <3>1, <3>2
  <2> QED BY <1>7, <2>1, <2>2
<1>9. ASSUME NEW m \in 1..Len(reply') PROVE Fresh(reply'[m], r + Len(in') + m)
  <2>1. /\ m + 1 \in 1..Len(reply) /\ reply'[m] = reply[m + 1]
        /\ r + Len(in) + (m + 1) = r + Len(in') + m
    BY <1>7
  <2>2. Fresh(reply[m + 1], r + Len(in) + (m + 1))
    BY <1>4, <2>1
  <2> QED BY <2>1, <2>2
<1>10. /\ (\A m \in 1..Len(in) : Fresh(in[m], r + m))'
       /\ (\A m \in 1..Len(reply) : Fresh(reply[m], r + Len(in) + m))'
       /\ (\A i \in 1..ind : Current(i))'
  BY <1>1, <1>4, <1>8, <1>9 DEF Fresh, Current
<1>11. Len(in') + Len(reply') = PacketNb(call.kind) - r
  BY <1>4, <1>5, <1>7
<1>12. Answered(r)'
  BY <1>1, <1>4, <1>10, <1>11 DEF Answered
<1> QED BY <1>1, <1>2, <1>12 DEF Reading

\* What the board writes of itself only makes its items newer.
LEMMA ReadChange ==
  ASSUME TypeInv, PacketInv, Reading, NEW k \in {"calib", "value"}, Change(k)
  PROVE  Reading'
<1>1. UNCHANGED <<call, ind, data, since, step, out, in, reply, connected>>
  BY DEF Change, host
<1>2. Reached => Reached'
  <2> SUFFICES ASSUME Reached, NEW i \in 1..ItemNb(call.kind)
               PROVE  mem'[call.kind][i] + WritesIn(out', call.kind, i) >= since[i]
    BY <1>1 DEF Reached, Pending
  <2>1. /\ mem[call.kind][i] \in Nat /\ WritesIn(out, call.kind, i) \in Nat
        /\ since[i] \in Nat /\ call.kind \in Kind
    BY ReadTypes
  <2>2. /\ mem'[call.kind][i] = mem[call.kind][i] + (IF call.kind = k THEN 1 ELSE 0)
        /\ out' = out
    BY <2>1, ChangeAdds
  <2>3. mem[call.kind][i] + WritesIn(out, call.kind, i) >= since[i]
    BY DEF Reached, Pending
  <2> QED BY <2>1, <2>2, <2>3
<1>3. Asked => Asked'
  BY <1>1, <1>2 DEF Asked
<1>4. ASSUME NEW r, Answered(r) PROVE Answered(r)'
  BY <1>1, <1>4 DEF Answered, Fresh, Current
<1>5. \A i \in 1..call.nb : Current(i) => Current(i)'
  BY <1>1 DEF Current
<1> QED BY <1>1, <1>2, <1>3, <1>4, <1>5 DEF Reading, OnlyWrites

\* Every step keeps what is known of a read.
LEMMA StepRead == ValuesFit /\ IInv /\ [Next]_vars => ReadInv'
<1> SUFFICES ASSUME ValuesFit, IInv, [Next]_vars, ~failed', ~short' PROVE Reading'
  BY DEF ReadInv
<1>0. TypeInv /\ PacketInv /\ CallInv /\ BoundInv /\ LostInv /\ ReadInv
  BY DEF IInv
<1>1. CASE Connect
  <2>1. out' = <<>> /\ in' = <<>> /\ reply' = <<>>
    BY <1>0, <1>1 DEF Connect, LostInv, board
  <2>2. connected' /\ step' = "idle"
    BY <1>1 DEF Connect
  <2> QED BY <2>1, <2>2 DEF Reading, OnlyWrites
<1>2. ASSUME ~Connect PROVE ~failed /\ ~short
  <2>1. CASE Call \/ SendData \/ SendRequest
    BY <2>1 DEF Call, SendData, SendRequest
  <2>6. CASE Receive
    <3>1. failed' = failed /\ short' = (short \/ (step' = "ok" /\ call.nb <= LastIndex(call.kind)))
      BY Zenon, <2>6 DEF Receive
    <3> QED BY Zenon, <3>1
  <2>2. CASE Handle \/ SendPacket \/ WatchdogReset
    BY <2>2 DEF Handle, SendPacket, WatchdogReset
  <2>3. CASE \E kind \in {"calib", "value"} : Change(kind)
    BY <2>3 DEF Change
  <2>4. ~Timeout
    BY DEF Timeout
  <2>5. CASE UNCHANGED vars
    BY <2>5 DEF vars
  <2> QED BY <1>2, <2>1, <2>2, <2>3, <2>4, <2>5, <2>6 DEF Next, Library
<1>3. CASE ~Connect
  <2>1. Reading /\ ~Timeout
    BY <1>0, <1>2, <1>3 DEF ReadInv, Timeout
  <2>2. CASE Call
    BY <1>0, <2>1, <2>2, ReadCall
  <2>3. CASE SendData
    BY <1>0, <2>1, <2>3, ReadSendData
  <2>4. CASE SendRequest
    BY <1>0, <2>1, <2>4, ReadSendRequest
  <2>5. CASE Receive
    BY <1>0, <2>1, <2>5, ReadReceive
  <2>6. CASE Handle
    BY <1>0, <2>1, <2>6, ReadHandle
  <2>7. CASE SendPacket
    BY <1>0, <2>1, <2>7, ReadSendPacket
  <2>8. ~WatchdogReset
    BY <2>1 DEF WatchdogReset, Reading
  <2>9. ASSUME NEW k \in {"calib", "value"}, Change(k) PROVE Reading'
    BY <1>0, <2>1, <2>9, ReadChange
  <2>10. CASE UNCHANGED vars
    <3>1. UNCHANGED <<call, step, ind, data, out, in, reply, mem, connected, since>>
      BY <2>10 DEF vars, board
    <3>2. ASSUME NEW r, Answered(r) PROVE Answered(r)'
      BY <3>1, <3>2 DEF Answered, Fresh, Current
    <3>3. (Reached => Reached') /\ (Asked => Asked')
      BY <3>1 DEF Asked, Reached, Pending
    <3> QED BY <2>1, <3>1, <3>2, <3>3 DEF Reading, OnlyWrites, Current
  <2> QED BY <1>3, <2>1, <2>2, <2>3, <2>4, <2>5, <2>6, <2>7, <2>8, <2>9, <2>10
      DEF Next, Library
<1> QED BY <1>1, <1>3

-----------------------------------------------------------------------------
(* Theorems *)

\* The invariant holds at the start.
LEMMA InitIInv == Init => IInv
<1> SUFFICES ASSUME Init PROVE IInv
  OBVIOUS
<1>1. /\ call \in Calls /\ step = "idle" /\ ind = 0
      /\ data = [i \in 1..MaxNb |-> NoItem] /\ out = <<>> /\ in = <<>> /\ reply = <<>>
      /\ mem = Start /\ connected = TRUE /\ since = [i \in 1..MaxItem |-> 0]
      /\ failed = FALSE /\ short = FALSE /\ calls = 0
  BY CallsAssumption DEF Init
<1>2. /\ MaxNb \in Nat /\ PerPacket \in Nat /\ Banks \in Nat
      /\ MaxVersion \in Nat /\ MaxCalls \in Nat
  BY MaxNbType, LayoutAssumption, CallsAssumption
<1>3. \A kind \in Kind : \A i \in 1..ItemNb(kind) : mem[kind][i] = 0
  BY <1>1 DEF Start
<1>4. TypeInv
  <2>1. data \in [1..MaxNb -> Item]
    BY <1>1, <1>2 DEF NoItem, Item, Version
  <2>2. since \in [1..MaxItem -> Version]
    BY <1>1, <1>2 DEF Version
  <2>3. DOMAIN mem = Kind /\ \A kind \in Kind : mem[kind] \in [1..ItemNb(kind) -> Nat]
    BY <1>1 DEF Start
  <2> QED BY <1>1, <1>2, <2>1, <2>2, <2>3 DEF TypeInv
<1>5. PacketInv /\ LostInv /\ WriteInv
  BY <1>1 DEF PacketInv, LostInv, WriteInv
<1>6. CallInv
  BY <1>1, CallFacts, MaxNbType DEF CallInv
<1>7. BoundInv
  <2>1. \A kind, i : WritesIn(out, kind, i) = 0
    BY <1>1, WritersEmpty
  <2>2. \A kind \in Kind : 1 \in 1..ItemNb(kind)
    BY Layout
  <2>3. \A kind \in {"calib", "value", "conf", "active"} : kind \in Kind
    BY DEF Kind
  <2> QED BY <1>1, <1>2, <1>3, <2>1, <2>2, <2>3 DEF BoundInv, Pending
<1>8. ReadInv
  BY <1>1 DEF ReadInv, Reading, OnlyWrites
<1> QED BY <1>1, <1>4, <1>5, <1>6, <1>7, <1>8 DEF IInv, Flags

\* The invariant holds in every behaviour.
LEMMA Invariant == ASSUME ValuesFit PROVE Spec => []IInv
<1>1. ASSUME IInv, [Next]_vars PROVE IInv'
  BY <1>1, StepFlags, StepTypes, StepPackets, StepCall, StepBound, StepWrite,
     StepLost, StepRead DEF IInv
<1> QED BY <1>1, InitIInv, PTL DEF Spec

\* The invariant includes the types.
LEMMA TypesHold == IInv => TypeOK
<1> SUFFICES ASSUME IInv PROVE TypeOK
  OBVIOUS
<1>0. TypeInv /\ Flags /\ PacketInv /\ BoundInv
  BY DEF IInv
<1>1. /\ call \in Calls /\ step \in {"idle", "send", "receive", "ok", "error"}
      /\ ind \in 0..(MaxNb + PerPacket) /\ data \in [1..MaxNb -> Item]
      /\ Len(out) <= Banks /\ Len(in) <= Banks /\ since \in [1..MaxItem -> Version]
  BY <1>0 DEF TypeInv
<1>2. \A j \in DOMAIN out : out[j].index + out[j].len <= MaxNb
  BY <1>0 DEF TypeInv, PacketInv
<1>3. \A kind \in Kind : mem[kind] \in [1..ItemNb(kind) -> Version]
  <2> TAKE kind \in Kind
  <2>1. mem[kind] \in [1..ItemNb(kind) -> Nat]
    BY <1>0 DEF TypeInv
  <2>2. \A i \in 1..ItemNb(kind) : mem[kind][i] \in Version
    BY <1>0, VersionBound
  <2> QED BY <2>1, <2>2
<1>4. {connected, failed, short} \subseteq BOOLEAN
  BY Zenon, <1>0 DEF Flags
<1> QED BY <1>1, <1>2, <1>3, <1>4 DEF TypeOK, Item, Version

\* Every variable keeps its type whatever the program calls and the board
\* does: no packet is written over one that was not read, none writes beyond the
\* caller's array, and no version outgrows the writes.
THEOREM TypeCorrect == ASSUME ValuesFit PROVE Spec => []TypeOK
BY Invariant, TypesHold, PTL

\* openscb_utils.c:78, send_array and scb_send_*: a write reaches every item
\* of the board once, in order, and one that fails a prefix of them.
THEOREM PrefixesWritten == ASSUME ValuesFit PROVE Spec => []WritesArePrefixes
<1>1. IInv => WritesArePrefixes
  BY TypesHold DEF IInv, WriteInv, WritesArePrefixes
<1> QED BY <1>1, Invariant, PTL

\* openscb_utils.c:231 and 266, receive_array and scb_recv_*: as long as every
\* call succeeded and read every packet of its reply, a read that succeeds has
\* filled the caller's array with what the board held when it was called or
\* later, and leaves nothing in the endpoints.
THEOREM CurrentRead == ASSUME ValuesFit PROVE Spec => []ReadsAreCurrent
<1>1. IInv => ReadsAreCurrent
  <2> SUFFICES ASSUME IInv, ~failed, ~short
               PROVE  /\ step = "ok" /\ call.op = "get" => \A i \in 1..call.nb : Current(i)
                      /\ connected
                      /\ ~InCall => /\ in = <<>> /\ reply = <<>>
                                    /\ \A i \in DOMAIN out : out[i].op = "set"
    BY DEF ReadsAreCurrent
  <2>1. Reading
    BY DEF IInv, ReadInv
  <2>2. DOMAIN out = 1..Len(out)
    BY DEF IInv, TypeInv
  <2> QED BY <2>1, <2>2 DEF Reading, OnlyWrites, InCall
<1> QED BY <1>1, Invariant, PTL
=============================================================================
