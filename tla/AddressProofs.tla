--------------------------- MODULE AddressProofs ---------------------------
(***************************************************************************)
(* endpoint::to_string, parse, fill and the constructor from a sockaddr    *)
(* agree, for every address of either kind and every port.                 *)
(*                                                                         *)
(* The loops of v6::to_string are recursive functions.  What they compute  *)
(* is proved by induction over the words of the address, which rests on    *)
(* LeastNat: a set of natural numbers has a least element.                 *)
(***************************************************************************)
EXTENDS Addresses, SequenceTheorems, WellFoundedInduction, TLAPS

Byte == {n \in Nat : n <= 255}
Word == {n \in Nat : n <= 65535}
V4Address == [1 .. 4 -> Byte]
V6Address == [1 .. 8 -> Word]

\* Every endpoint there can be, whatever the program sets.
AnyEndpoint ==
  [type : {"AF_INET"}, m_addr : V4Address, m_port : Word]
  \cup [type : {"AF_INET6"}, m_addr : V6Address, m_port : Word]

-----------------------------------------------------------------------------
(* Induction, and sequences.                                               *)

\* A set of natural numbers has a least element.
LEMMA LeastNat ==
  ASSUME NEW T \in SUBSET Nat, T # {}
  PROVE  \E n \in T : \A m \in T : n <= m
<1> DEFINE R == {ss \in Nat \X Nat : ss[1] < ss[2]}
<1>1. IsWellFoundedOn(R, Nat)
  BY NatLessThanWellFounded DEF OpToRel
<1> HIDE DEF R
<1>2. PICK n \in T : \A m \in T : ~(<<m, n>> \in R)
  BY <1>1, WFMin
<1>3. \A m \in T : ~(m < n)
  BY <1>2 DEF R
<1> QED BY <1>3

\* What 0 has, and n + 1 has when n has it, every natural number has.
LEMMA NatSet ==
  ASSUME NEW S, 0 \in S, \A n \in Nat : n \in S => n + 1 \in S
  PROVE  Nat \subseteq S
<1> SUFFICES ASSUME NEW k \in Nat, k \notin S PROVE FALSE
  OBVIOUS
<1> DEFINE T == {n \in Nat : n \notin S}
<1>1. PICK n \in T : \A m \in T : n <= m
  BY LeastNat
<1>2. n # 0 /\ n - 1 \in Nat /\ n - 1 \in S
  BY <1>1
<1> QED BY <1>2

\* A function on 1 .. n is a sequence of length n.
LEMMA Listed ==
  ASSUME NEW S, NEW n \in Nat, NEW f \in [1 .. n -> S]
  PROVE  f \in Seq(S) /\ Len(f) = n
<1>1. f \in Seq(S)
  BY SeqDef
<1>2. DOMAIN f = 1 .. Len(f) /\ Len(f) \in Nat /\ DOMAIN f = 1 .. n
  BY <1>1, LenProperties
<1> QED BY <1>1, <1>2

-----------------------------------------------------------------------------
(* Byte order.                                                             *)

\* htons twice is the identity, and a word stored in network order has its
\* high byte first.
LEMMA NetworkOrder ==
  ASSUME NEW x \in Word
  PROVE  /\ swap16(x) \in Word
         /\ store16(swap16(x))[1] = x \div 256
         /\ store16(swap16(x))[2] = x % 256
         /\ x = (x \div 256) * 256 + (x % 256)
         /\ swap16(x \div 256 + 256 * (x % 256)) = x
<1>1. x \div 256 \in Byte /\ x % 256 \in Byte /\ x = (x \div 256) * 256 + (x % 256)
  BY DEF Word, Byte
<1>2. swap16(x) % 256 = x \div 256 /\ swap16(x) \div 256 = x % 256 /\ swap16(x) \in Word
  <2> DEFINE hi == x \div 256
             lo == x % 256
  <2>1. hi \in Nat /\ hi <= 255 /\ lo \in Nat /\ lo <= 255
    BY <1>1 DEF Byte
  <2>2. swap16(x) = lo * 256 + hi
    BY DEF swap16
  <2> HIDE DEF hi, lo
  <2>3. (lo * 256 + hi) % 256 = hi /\ (lo * 256 + hi) \div 256 = lo
    BY <2>1
  <2>4. lo * 256 + hi \in Word
    BY <2>1 DEF Word
  <2>5. swap16(x) % 256 = hi /\ swap16(x) \div 256 = lo /\ swap16(x) \in Word
    BY <2>2, <2>3, <2>4, Zenon
  <2> QED BY <2>5 DEF hi, lo
<1>3. store16(swap16(x)) = <<x \div 256, x % 256>>
  BY <1>2 DEF store16
<1>4. swap16(x \div 256 + 256 * (x % 256)) = x
  <2> DEFINE hi == x \div 256
             lo == x % 256
  <2>1. /\ hi \in Nat /\ hi <= 255 /\ lo \in Nat /\ lo <= 255
        /\ x = hi * 256 + lo
    BY <1>1 DEF Byte
  <2> HIDE DEF hi, lo
  <2>2. (hi + 256 * lo) % 256 = hi /\ (hi + 256 * lo) \div 256 = lo
    BY <2>1
  <2>3. swap16(hi + 256 * lo) = x
    BY <2>1, <2>2 DEF swap16
  <2> QED BY <2>3 DEF hi, lo
<1> QED BY <1>1, <1>2, <1>3, <1>4

\* The bytes of a v6 address in a sockaddr.
LEMMA V6Bytes ==
  ASSUME NEW w \in V6Address, NEW i \in 1 .. 8
  PROVE  /\ FillV6(w)[2 * i - 1] = w[i] \div 256
         /\ FillV6(w)[2 * i] = w[i] % 256
<1>1. w[i] \in Word
  BY DEF V6Address
<1>2. /\ 2 * i - 1 \in 1 .. 16 /\ 2 * i \in 1 .. 16
      /\ (2 * i - 1 + 1) \div 2 = i /\ (2 * i + 1) \div 2 = i
      /\ 2 - ((2 * i - 1) % 2) = 1 /\ 2 - ((2 * i) % 2) = 2
  OBVIOUS
<1>3. /\ FillV6(w)[2 * i - 1] = store16(swap16(w[i]))[1]
      /\ FillV6(w)[2 * i] = store16(swap16(w[i]))[2]
  BY <1>2 DEF FillV6, Bytes
<1> QED BY <1>1, <1>3, NetworkOrder

\* Four bytes reversed twice.
LEMMA ReverseTwice ==
  ASSUME NEW b \in V4Address
  PROVE  Reverse(Reverse(b)) = b
<1>1. b \in Seq(Byte) /\ Len(b) = 4
  <2>1. b \in [1 .. 4 -> Byte] /\ 4 \in Nat
    BY DEF V4Address
  <2>2. b \in Seq(Byte)
    BY <2>1, Listed
  <2>3. Len(b) = 4
    BY <2>1, Listed
  <2> QED BY <2>2, <2>3
<1>2. \A s : Len(s) = 4 => Reverse(s) = [i \in 1 .. 4 |-> s[4 - i + 1]]
  BY DEF Reverse
<1>3. Reverse(b) = [i \in 1 .. 4 |-> b[5 - i]] /\ Len(Reverse(b)) = 4
  <2>1. Reverse(b) = [i \in 1 .. 4 |-> b[4 - i + 1]]
    BY <1>1, <1>2
  <2> QED BY <2>1
<1>4. Reverse(Reverse(b)) = [i \in 1 .. 4 |-> Reverse(b)[4 - i + 1]]
  BY <1>2, <1>3
<1>5. \A i \in 1 .. 4 : Reverse(b)[4 - i + 1] = b[i]
  BY <1>3
<1> QED BY <1>4, <1>5 DEF V4Address

\* endpoint::fill and the constructor from a sockaddr_storage.
LEMMA SockaddrLemma ==
  ASSUME NEW e \in AnyEndpoint
  PROVE  /\ FromStorage(FillStorage(e)) = e
         /\ e.m_port = FillStorage(e).port[1] * 256 + FillStorage(e).port[2]
         /\ e.type = "AF_INET6" =>
              \A i \in 1 .. 8 : e.m_addr[i] = FillStorage(e).addr[2 * i - 1] * 256
                                              + FillStorage(e).addr[2 * i]
<1> DEFINE s == FillStorage(e)
<1>1. e.m_port \in Word
  BY DEF AnyEndpoint
<1>2. s.port = store16(swap16(e.m_port)) /\ s.ss_family = e.type
  BY DEF FillStorage
<1>3. s.port[1] = e.m_port \div 256 /\ s.port[2] = e.m_port % 256
  BY <1>1, <1>2, NetworkOrder
<1>4. swap16(load16(s.port, 1)) = e.m_port
  <2>1. load16(s.port, 1) = e.m_port \div 256 + 256 * (e.m_port % 256)
    BY <1>3 DEF load16
  <2> QED BY <1>1, <2>1, NetworkOrder
<1>5. CASE e.type = "AF_INET"
  <2>1. e \in [type : {"AF_INET"}, m_addr : V4Address, m_port : Word]
    BY <1>5 DEF AnyEndpoint
  <2>2. s.addr = Reverse(Reverse(e.m_addr))
    BY <1>5 DEF FillStorage, FillV4
  <2>3. s.addr = e.m_addr /\ Reverse(Reverse(s.addr)) = e.m_addr
    BY <2>1, <2>2, ReverseTwice
  <2>4. FromStorage(s) = [type |-> "AF_INET", m_addr |-> e.m_addr, m_port |-> e.m_port]
    BY <1>2, <1>4, <1>5, <2>3 DEF FromStorage
  <2>5. e = [type |-> "AF_INET", m_addr |-> e.m_addr, m_port |-> e.m_port]
    BY <2>1
  <2> QED BY <1>1, <1>3, <1>5, <2>4, <2>5, NetworkOrder
<1>6. CASE e.type = "AF_INET6"
  <2>1. e \in [type : {"AF_INET6"}, m_addr : V6Address, m_port : Word]
    BY <1>6 DEF AnyEndpoint
  <2>2. s.addr = FillV6(e.m_addr)
    BY <1>6 DEF FillStorage
  <2>3. ASSUME NEW i \in 1 .. 8
        PROVE  /\ swap16(load16(s.addr, 2 * i - 1)) = e.m_addr[i]
               /\ e.m_addr[i] = s.addr[2 * i - 1] * 256 + s.addr[2 * i]
    <3>1. e.m_addr[i] \in Word
      BY <2>1 DEF V6Address
    <3>2. s.addr[2 * i - 1] = e.m_addr[i] \div 256 /\ s.addr[2 * i] = e.m_addr[i] % 256
      BY <2>1, <2>2, V6Bytes
    <3>3. load16(s.addr, 2 * i - 1) = e.m_addr[i] \div 256 + 256 * (e.m_addr[i] % 256)
      <4>1. 2 * i - 1 + 1 = 2 * i
        OBVIOUS
      <4> QED BY <3>2, <4>1 DEF load16
    <3> QED BY <3>1, <3>2, <3>3, NetworkOrder
  <2>4. [i \in 1 .. 8 |-> swap16(load16(s.addr, 2 * i - 1))] = e.m_addr
    BY <2>1, <2>3 DEF V6Address
  <2>5. FromStorage(s) = [type |-> "AF_INET6", m_addr |-> e.m_addr, m_port |-> e.m_port]
    BY <1>2, <1>4, <1>6, <2>4 DEF FromStorage
  <2>6. e = [type |-> "AF_INET6", m_addr |-> e.m_addr, m_port |-> e.m_port]
    BY <2>1
  <2> QED BY <1>1, <1>3, <2>3, <2>5, <2>6, NetworkOrder
<1> QED BY <1>5, <1>6 DEF AnyEndpoint
-----------------------------------------------------------------------------
(* The longest run of zeros.                                               *)

\* The recursive function of ZeroRun has the values its definition says.
LEMMA ZeroRunTable ==
  ASSUME NEW w \in V6Address
  PROVE  \E z : /\ ZeroRun(w) = z[8]
                /\ z = [i \in 0 .. 8 |->
                         IF i = 0 THEN [length |-> 0, index |-> 1, run |-> 0]
                         ELSE LongerRun(z[i - 1], i, IF w[i] = 0 THEN z[i - 1].run + 1 ELSE 0)]
<1> DEFINE first == [length |-> 0, index |-> 1, run |-> 0]
           Step(f, i) == IF i = 0 THEN first
                         ELSE LongerRun(f[i - 1], i, IF w[i] = 0 THEN f[i - 1].run + 1 ELSE 0)
           Table(f, n) == f = [i \in 0 .. n |-> Step(f, i)]
           S == {n \in Nat : \E f : Table(f, n)}
           z == CHOOSE f : Table(f, 8)
<1>1. ZeroRun(w) = z[8]
  BY DEF ZeroRun
<1>2. 0 \in S
  <2>1. Table([i \in 0 .. 0 |-> first], 0)
    OBVIOUS
  <2> QED BY <2>1
<1>3. ASSUME NEW n \in Nat, n \in S PROVE n + 1 \in S
  <2>1. PICK f : Table(f, n)
    BY <1>3
  <2> DEFINE g == [i \in 0 .. n + 1 |-> IF i = n + 1 THEN Step(f, n + 1) ELSE f[i]]
  <2>2. ASSUME NEW i \in 0 .. n + 1 PROVE g[i] = Step(g, i)
    <3>1. i # 0 => i - 1 \in 0 .. n + 1 /\ g[i - 1] = f[i - 1]
      OBVIOUS
    <3>2. Step(g, i) = Step(f, i)
      BY <3>1
    <3>3. i # n + 1 => f[i] = Step(f, i)
      BY <2>1
    <3> QED BY <3>2, <3>3
  <2>3. g = [i \in 0 .. n + 1 |-> g[i]]
    OBVIOUS
  <2> HIDE DEF g
  <2>4. Table(g, n + 1)
    BY <2>2, <2>3
  <2> QED BY <2>4
<1>4. \E f : Table(f, 8)
  <2>1. Nat \subseteq S
    BY <1>2, <1>3, NatSet
  <2> QED BY <2>1
<1>5. Table(z, 8)
  BY <1>4
<1> QED BY <1>1, <1>5
\* Words a to b of w are zero.
Zeros(w, a, b) == \A j \in 1 .. 8 : a <= j /\ j <= b => w[j] = 0

\* What the loop knows after i words: z.run zeros end at word i, and z.length
\* from z.index is the first of the longest runs so far.
KnowsRuns(w, i, z) ==
  /\ z \in [length : Nat, index : Nat, run : Nat]
  /\ z.run <= i /\ Zeros(w, i - z.run + 1, i)
  /\ z.run = i \/ w[i - z.run] # 0
  /\ z.length = 0 => z.index = 1
  /\ 1 <= z.index /\ z.index + z.length <= i + 1
  /\ Zeros(w, z.index, z.index + z.length - 1)
  /\ \A a, b \in 1 .. 8 :
       a <= b /\ b <= i /\ Zeros(w, a, b) =>
         \/ b - a + 1 < z.length
         \/ b - a + 1 = z.length /\ z.index <= a

\* One step of the loop.
LEMMA ZeroRunStep ==
  ASSUME NEW w \in V6Address, NEW i \in 1 .. 8, NEW z, KnowsRuns(w, i - 1, z)
  PROVE  KnowsRuns(w, i, LongerRun(z, i, IF w[i] = 0 THEN z.run + 1 ELSE 0))
<1> DEFINE run == IF w[i] = 0 THEN z.run + 1 ELSE 0
<1>1. /\ z \in [length : Nat, index : Nat, run : Nat]
      /\ z.run <= i - 1 /\ Zeros(w, i - 1 - z.run + 1, i - 1)
      /\ z.run = i - 1 \/ w[i - 1 - z.run] # 0
      /\ z.length = 0 => z.index = 1
      /\ 1 <= z.index /\ z.index + z.length <= i - 1 + 1
      /\ Zeros(w, z.index, z.index + z.length - 1)
  BY DEF KnowsRuns
<1>2. \A a, b \in 1 .. 8 :
        a <= b /\ b <= i - 1 /\ Zeros(w, a, b) =>
          \/ b - a + 1 < z.length
          \/ b - a + 1 = z.length /\ z.index <= a
  BY DEF KnowsRuns
<1>3. run \in Nat /\ run <= i /\ Zeros(w, i - run + 1, i)
  BY <1>1 DEF Zeros
<1>4. run = i \/ w[i - run] # 0
  <2>1. CASE w[i] = 0
    BY <1>1, <2>1
  <2>2. CASE w[i] # 0
    BY <2>2
  <2> QED BY <2>1, <2>2
<1>5. ASSUME NEW a \in 1 .. 8, NEW b \in 1 .. 8, a <= b, b <= i, Zeros(w, a, b)
      PROVE  \/ b <= i - 1
             \/ b = i /\ i - run < a
  <2>1. b = i /\ run # i => ~(a <= i - run)
    <3>1. i - run \in Int /\ (run # i => i - run \in 1 .. 8)
      BY <1>3
    <3> QED BY <1>3, <1>4, <1>5, <3>1 DEF Zeros
  <2> QED BY <1>3, <1>5, <2>1
<1> HIDE DEF run
<1>6. CASE run > z.length
  <2> DEFINE y == [length |-> run, index |-> i - run + 1, run |-> run]
  <2>1. LongerRun(z, i, run) = y
    BY <1>6 DEF LongerRun
  <2>2. /\ y \in [length : Nat, index : Nat, run : Nat]
        /\ y.length = run /\ y.index = i - run + 1 /\ y.run = run
        /\ run # 0
    BY <1>1, <1>3, <1>6
  <2>3. Zeros(w, y.index, y.index + y.length - 1)
    BY <1>3, <2>2 DEF Zeros
  <2>4. ASSUME NEW a \in 1 .. 8, NEW b \in 1 .. 8, a <= b, b <= i, Zeros(w, a, b)
        PROVE  \/ b - a + 1 < y.length
               \/ b - a + 1 = y.length /\ y.index <= a
    <3>1. CASE b <= i - 1
      BY <1>1, <1>2, <1>3, <1>6, <2>2, <2>4, <3>1
    <3>2. CASE b = i /\ i - run < a
      BY <1>3, <2>2, <3>2
    <3> QED BY <1>5, <2>4, <3>1, <3>2
  <2> HIDE DEF y
  <2>5. KnowsRuns(w, i, y)
    BY <1>3, <1>4, <2>2, <2>3, <2>4 DEF KnowsRuns
  <2> QED BY <2>1, <2>5 DEF run
<1>7. CASE ~(run > z.length)
  <2> DEFINE y == [z EXCEPT !.run = run]
  <2>1. LongerRun(z, i, run) = y
    BY <1>7 DEF LongerRun
  <2>2. /\ y \in [length : Nat, index : Nat, run : Nat]
        /\ y.length = z.length /\ y.index = z.index /\ y.run = run
    BY <1>1, <1>3
  <2>3. ASSUME NEW a \in 1 .. 8, NEW b \in 1 .. 8, a <= b, b <= i, Zeros(w, a, b)
        PROVE  \/ b - a + 1 < y.length
               \/ b - a + 1 = y.length /\ y.index <= a
    <3>1. CASE b <= i - 1
      BY <1>2, <2>2, <2>3, <3>1
    <3>2. CASE b = i /\ i - run < a
      <4>1. z.length \in Nat /\ z.index \in Nat /\ z.index + z.length <= i
        BY <1>1
      <4>2. run <= z.length
        BY <1>3, <1>7, <4>1
      <4>3. b - a + 1 <= run
        BY <1>3, <3>2
      <4>4. b - a + 1 < z.length \/ (b - a + 1 = z.length /\ z.index <= a)
        BY <1>3, <3>2, <4>1, <4>2, <4>3
      <4> QED BY <2>2, <4>4
    <3> QED BY <1>5, <2>3, <3>1, <3>2
  <2> HIDE DEF y
  <2>4. y.index + y.length <= i + 1 /\ (y.length = 0 => y.index = 1) /\ 1 <= y.index
    BY <1>1, <2>2
  <2>5. Zeros(w, y.index, y.index + y.length - 1)
    BY <1>1, <2>2
  <2>6. KnowsRuns(w, i, y)
    BY <1>3, <1>4, <2>2, <2>3, <2>4, <2>5 DEF KnowsRuns
  <2> QED BY <2>1, <2>6 DEF run
<1> QED BY <1>6, <1>7

\* The loop finds the first of the longest runs of zeros.
LEMMA ZeroRunLemma ==
  ASSUME NEW w \in V6Address
  PROVE  KnowsRuns(w, 8, ZeroRun(w))
<1>1. PICK z : /\ ZeroRun(w) = z[8]
               /\ z = [i \in 0 .. 8 |->
                        IF i = 0 THEN [length |-> 0, index |-> 1, run |-> 0]
                        ELSE LongerRun(z[i - 1], i, IF w[i] = 0 THEN z[i - 1].run + 1 ELSE 0)]
  BY ZeroRunTable
<1> DEFINE S == {n \in Nat : n <= 8 => KnowsRuns(w, n, z[n])}
<1>2. 0 \in S
  <2>1. z[0] = [length |-> 0, index |-> 1, run |-> 0]
    BY <1>1
  <2>2. KnowsRuns(w, 0, z[0])
    BY <2>1 DEF KnowsRuns, Zeros
  <2> QED BY <2>2
<1>3. ASSUME NEW n \in Nat, n \in S PROVE n + 1 \in S
  <2> SUFFICES ASSUME n + 1 <= 8 PROVE KnowsRuns(w, n + 1, z[n + 1])
    OBVIOUS
  <2> DEFINE m == n + 1
  <2>1. m \in 1 .. 8 /\ m - 1 = n /\ m \in 0 .. 8 /\ m # 0
    OBVIOUS
  <2>2. KnowsRuns(w, m - 1, z[m - 1])
    BY <1>3, <2>1
  <2> HIDE DEF m
  <2>3. z[m] = LongerRun(z[m - 1], m, IF w[m] = 0 THEN z[m - 1].run + 1 ELSE 0)
    BY <1>1, <2>1
  <2>4. KnowsRuns(w, m, z[m])
    BY <2>1, <2>2, <2>3, ZeroRunStep
  <2> QED BY <2>4 DEF m
<1>4. Nat \subseteq S
  BY <1>2, <1>3, NatSet
<1>5. 8 \in Nat
  OBVIOUS
<1> QED BY <1>1, <1>4, <1>5
-----------------------------------------------------------------------------
(* The text of a v6 address.                                               *)

\* Words a to b of an address.
LEMMA Words ==
  ASSUME NEW w \in V6Address, NEW a \in 1 .. 9, NEW b \in 0 .. 8
  PROVE  /\ SubSeq(w, a, b) \in Seq(Word)
         /\ Len(SubSeq(w, a, b)) = IF a <= b THEN b - a + 1 ELSE 0
         /\ \A j \in 1 .. b - a + 1 : SubSeq(w, a, b)[j] = w[a + j - 1]
<1>1. \A i \in a .. b : w[i] \in Word
  BY DEF V6Address
<1> QED BY <1>1, SubSeqProperties

\* The symbols of Joined(s).
LEMMA JoinedLemma ==
  ASSUME NEW s \in Seq(Word)
  PROVE  /\ Joined(s) \in Seq(Int)
         /\ Len(Joined(s)) = IF Len(s) = 0 THEN 0 ELSE 2 * Len(s) - 1
         /\ \A i \in 1 .. 2 * Len(s) - 1 :
              Joined(s)[i] = IF i % 2 = 1 THEN s[(i + 1) \div 2] ELSE CO
         /\ s = <<>> => Joined(s) = <<>>
<1> DEFINE n == IF Len(s) = 0 THEN 0 ELSE 2 * Len(s) - 1
           f == [i \in 1 .. n |-> IF i % 2 = 1 THEN s[(i + 1) \div 2] ELSE CO]
<1>1. Len(s) \in Nat /\ n \in Nat
  OBVIOUS
<1>2. 1 .. 2 * Len(s) - 1 = 1 .. n
  BY <1>1
<1>3. Joined(s) = f
  BY <1>2 DEF Joined
<1>4. ASSUME NEW i \in 1 .. n PROVE f[i] \in Int
  <2>1. i % 2 = 1 => (i + 1) \div 2 \in 1 .. Len(s)
    BY <1>1
  <2>2. i % 2 = 1 => s[(i + 1) \div 2] \in Word
    BY <2>1, ElementOfSeq
  <2> QED BY <2>2 DEF Word, CO
<1>5. f \in [1 .. n -> Int]
  BY <1>4
<1>6. f \in Seq(Int)
  BY <1>1, <1>5, Listed
<1>7. Len(f) = n
  BY <1>1, <1>5, Listed
<1>8. s = <<>> => Joined(s) = <<>>
  <2>1. s = <<>> => n = 0
    OBVIOUS
  <2> HIDE DEF f
  <2>2. n = 0 => f = <<>>
    BY <1>6, <1>7
  <2> QED BY <1>3, <2>1, <2>2
<1> QED BY <1>2, <1>3, <1>6, <1>7, <1>8

\* The first word of a sequence, and the colon before the others.
LEMMA JoinedStep ==
  ASSUME NEW w \in V6Address, NEW i \in 1 .. 8, NEW k \in i .. 8
  PROVE  Joined(SubSeq(w, i, k)) =
           <<w[i]>> \o (IF i < k THEN <<CO>> ELSE <<>>) \o Joined(SubSeq(w, i + 1, k))
<1> DEFINE l == SubSeq(w, i, k)
           r == SubSeq(w, i + 1, k)
           p == <<w[i]>> \o (IF i < k THEN <<CO>> ELSE <<>>)
<1>1. k \in 1 .. 8 /\ i + 1 \in 1 .. 9 /\ w[i] \in Int
  BY DEF V6Address, Word
<1>2. /\ l \in Seq(Word) /\ Len(l) = k - i + 1
      /\ \A j \in 1 .. k - i + 1 : l[j] = w[i + j - 1]
  BY <1>1, Words
<1>3. /\ r \in Seq(Word) /\ Len(r) = k - i
      /\ \A j \in 1 .. k - i : r[j] = w[i + j]
  <2>1. \A j \in 1 .. k - i : i + 1 + j - 1 = i + j
    OBVIOUS
  <2>2. /\ r \in Seq(Word) /\ Len(r) = IF i + 1 <= k THEN k - (i + 1) + 1 ELSE 0
        /\ \A j \in 1 .. k - (i + 1) + 1 : r[j] = w[i + 1 + j - 1]
    BY <1>1, Words
  <2> QED BY <1>1, <2>1, <2>2
<1> HIDE DEF l, r
<1>4. /\ p \in Seq(Int) /\ Len(p) = (IF i < k THEN 2 ELSE 1)
      /\ p[1] = w[i] /\ (i < k => p[2] = CO)
  BY <1>1 DEF CO
<1> HIDE DEF p
<1>5. /\ Joined(l) \in Seq(Int) /\ Len(Joined(l)) = 2 * (k - i) + 1
      /\ \A n \in 1 .. 2 * (k - i) + 1 :
           Joined(l)[n] = IF n % 2 = 1 THEN l[(n + 1) \div 2] ELSE CO
  <2>1. Len(l) # 0 /\ 2 * Len(l) - 1 = 2 * (k - i) + 1
    BY <1>1, <1>2
  <2> QED BY <1>2, <2>1, JoinedLemma, Zenon
<1>6. /\ Joined(r) \in Seq(Int) /\ Len(Joined(r)) = IF i < k THEN 2 * (k - i) - 1 ELSE 0
      /\ \A n \in 1 .. 2 * (k - i) - 1 :
           Joined(r)[n] = IF n % 2 = 1 THEN r[(n + 1) \div 2] ELSE CO
  <2>1. (i < k <=> Len(r) # 0) /\ 2 * Len(r) - 1 = 2 * (k - i) - 1
    BY <1>1, <1>3
  <2> QED BY <1>3, <2>1, JoinedLemma, Zenon
<1>7. /\ p \o Joined(r) \in Seq(Int)
      /\ Len(p \o Joined(r)) = 2 * (k - i) + 1
      /\ \A n \in 1 .. 2 * (k - i) + 1 :
           (p \o Joined(r))[n] = IF n <= Len(p) THEN p[n] ELSE Joined(r)[n - Len(p)]
  <2>1. Len(p) + Len(Joined(r)) = 2 * (k - i) + 1
    BY <1>1, <1>4, <1>6
  <2>2. /\ p \o Joined(r) \in Seq(Int)
        /\ Len(p \o Joined(r)) = Len(p) + Len(Joined(r))
        /\ \A n \in 1 .. Len(p) + Len(Joined(r)) :
             (p \o Joined(r))[n] = IF n <= Len(p) THEN p[n] ELSE Joined(r)[n - Len(p)]
    BY <1>4, <1>6, ConcatProperties
  <2> QED BY <2>1, <2>2, Zenon
<1>8. ASSUME NEW n \in 1 .. 2 * (k - i) + 1
      PROVE  Joined(l)[n] = (p \o Joined(r))[n]
  <2>1. CASE n = 1
    <3>1. (p \o Joined(r))[1] = w[i]
      BY <1>1, <1>4, <1>7, <2>1
    <3>2. 1 % 2 = 1 /\ (1 + 1) \div 2 = 1 /\ 1 \in 1 .. k - i + 1 /\ i + 1 - 1 = i
      BY <1>1
    <3>3. Joined(l)[1] = l[1] /\ l[1] = w[i]
      BY <1>2, <1>5, <2>1, <3>2
    <3> QED BY <2>1, <3>1, <3>3
  <2>2. CASE n = 2
    BY <1>1, <1>4, <1>5, <1>7, <2>2
  <2>3. CASE n > 2
    <3>1. i < k /\ n - 2 \in 1 .. 2 * (k - i) - 1 /\ n % 2 = (n - 2) % 2
      BY <1>1, <2>3
    <3>2. (p \o Joined(r))[n] = Joined(r)[n - 2]
      <4>1. Len(p) = 2 /\ ~(n <= Len(p))
        BY <1>4, <2>3, <3>1
      <4> QED BY <1>7, <4>1
    <3>3. CASE n % 2 = 1
      <4>1. /\ (n + 1) \div 2 \in 1 .. k - i + 1 /\ (n - 2 + 1) \div 2 \in 1 .. k - i
            /\ i + (n + 1) \div 2 - 1 = i + (n - 2 + 1) \div 2
        BY <1>1, <2>3, <3>1, <3>3
      <4>2. Joined(l)[n] = w[i + (n + 1) \div 2 - 1]
        BY <1>2, <1>5, <3>3, <4>1
      <4>3. Joined(r)[n - 2] = w[i + (n - 2 + 1) \div 2]
        BY <1>3, <1>6, <3>1, <3>3, <4>1
      <4> QED BY <3>2, <4>1, <4>2, <4>3
    <3>4. CASE n % 2 # 1
      BY <1>5, <1>6, <3>1, <3>2, <3>4
    <3> QED BY <3>3, <3>4
  <2>4. n = 1 \/ n = 2 \/ n > 2
    BY <1>1
  <2> QED BY <2>1, <2>2, <2>3, <2>4, Zenon
<1>9. Joined(l) = p \o Joined(r)
  BY <1>5, <1>7, <1>8, SeqEqual
<1> QED BY <1>9 DEF l, r, p
\* What the second loop writes from word i on.
Body(w, i) ==
  LET z == ZeroRun(w) IN
  IF z.length > 1 /\ i <= z.index
  THEN Joined(SubSeq(w, i, z.index - 1)) \o <<CO, CO>>
       \o Joined(SubSeq(w, z.index + z.length, 8))
  ELSE Joined(SubSeq(w, i, 8))

\* One step of the second loop, the rest of the text being f.
OutStep(w, f, i) ==
  LET z == ZeroRun(w) IN
  IF i = 9 THEN <<>>
  ELSE IF i = z.index /\ z.length > 1 THEN <<CO, CO>> \o f[i + z.length]
  ELSE <<w[i]>> \o (IF ColonAfter(i, z) THEN <<CO>> ELSE <<>>) \o f[i + 1]

\* Where the gap is.
LEMMA GapBounds ==
  ASSUME NEW w \in V6Address
  PROVE  LET z == ZeroRun(w) IN
         /\ z.length \in 0 .. 8 /\ z.index \in 1 .. 9 /\ z.index + z.length <= 9
         /\ z.length > 1 => /\ z.index \in 1 .. 7 /\ z.index + z.length \in 3 .. 9
                            /\ z.index - 1 \in 0 .. 6
BY ZeroRunLemma DEF KnowsRuns

\* The words of a part of an address, joined, are a sequence.
LEMMA JoinedWords ==
  ASSUME NEW w \in V6Address, NEW a \in 1 .. 9, NEW b \in 0 .. 8
  PROVE  /\ Joined(SubSeq(w, a, b)) \in Seq(Int)
         /\ b < a => Joined(SubSeq(w, a, b)) = <<>>
<1>1. SubSeq(w, a, b) \in Seq(Word) /\ (b < a => Len(SubSeq(w, a, b)) = 0)
  BY Words
<1>2. b < a => SubSeq(w, a, b) = <<>>
  BY <1>1, EmptySeq
<1> QED BY <1>1, <1>2, JoinedLemma

\* Body does what the loop does.
LEMMA BodyStep ==
  ASSUME NEW w \in V6Address, NEW i \in 1 .. 9
  PROVE  Body(w, i) = OutStep(w, [j \in 1 .. 9 |-> Body(w, j)], i)
<1> DEFINE z == ZeroRun(w)
           p == z.index
           m == z.length
           g == [j \in 1 .. 9 |-> Body(w, j)]
           right == Joined(SubSeq(w, p + m, 8))
<1>1. /\ m \in 0 .. 8 /\ p \in 1 .. 9 /\ p + m <= 9
      /\ m > 1 => p \in 1 .. 7 /\ p + m \in 3 .. 9 /\ p - 1 \in 0 .. 6
  BY GapBounds
<1>2. ASSUME NEW j \in 1 .. 9
      PROVE  /\ g[j] = Body(w, j)
             /\ m > 1 /\ j <= p =>
                  g[j] = Joined(SubSeq(w, j, p - 1)) \o <<CO, CO>> \o right
             /\ ~(m > 1 /\ j <= p) => g[j] = Joined(SubSeq(w, j, 8))
  BY DEF Body, right
<1>3. OutStep(w, g, i) =
        IF i = 9 THEN <<>>
        ELSE IF i = p /\ m > 1 THEN <<CO, CO>> \o g[i + m]
        ELSE <<w[i]>> \o (IF i < 8 /\ (i + 1 # p \/ m <= 1) THEN <<CO>> ELSE <<>>) \o g[i + 1]
  BY DEF OutStep, ColonAfter
<1> HIDE DEF z, p, m, g, right
<1>4. CASE i = 9
  <2>1. ~(m > 1 /\ i <= p) /\ 8 < i /\ 8 \in 0 .. 8
    BY <1>1, <1>4
  <2>2. Joined(SubSeq(w, i, 8)) = <<>>
    BY <2>1, JoinedWords
  <2> QED BY <1>2, <1>3, <1>4, <2>1, <2>2 DEF g
<1>5. CASE i # 9 /\ i = p /\ m > 1
  <2>1. i + m \in 1 .. 9 /\ ~(i + m <= p) /\ i <= p /\ p - 1 < i /\ p - 1 \in 0 .. 8
    BY <1>1, <1>5
  <2>2. g[i + m] = right
    BY <1>2, <1>5, <2>1 DEF right
  <2>3. Joined(SubSeq(w, i, p - 1)) = <<>>
    BY <2>1, JoinedWords
  <2>4. <<>> \o <<CO, CO>> = <<CO, CO>>
    BY DEF CO
  <2>5. g[i] = <<CO, CO>> \o right
    BY <1>2, <1>5, <2>1, <2>3, <2>4
  <2> QED BY <1>2, <1>3, <1>5, <2>2, <2>5 DEF g
<1>6. CASE i # 9 /\ m > 1 /\ i < p
  <2>1. /\ i \in 1 .. 8 /\ p - 1 \in i .. 8 /\ i + 1 \in 1 .. 9 /\ i + 1 <= p /\ i <= p
        /\ p - 1 \in 0 .. 8 /\ p + m \in 1 .. 9 /\ 8 \in 0 .. 8
        /\ (i < 8 /\ (i + 1 # p \/ m <= 1) <=> i < p - 1)
    BY <1>1, <1>6
  <2> DEFINE head == <<w[i]>> \o (IF i < p - 1 THEN <<CO>> ELSE <<>>)
             left == Joined(SubSeq(w, i + 1, p - 1))
  <2>2. Joined(SubSeq(w, i, p - 1)) = head \o left
    BY <2>1, JoinedStep
  <2>3. OutStep(w, g, i) = head \o g[i + 1]
    <3>1. ~(i = p /\ m > 1)
      BY <1>1, <1>6
    <3>2. (IF i < 8 /\ (i + 1 # p \/ m <= 1) THEN <<CO>> ELSE <<>>)
            = (IF i < p - 1 THEN <<CO>> ELSE <<>>)
      BY <2>1, Zenon
    <3> QED BY <1>3, <1>6, <3>1, <3>2, Zenon
  <2>4. g[i + 1] = left \o <<CO, CO>> \o right
    BY <1>2, <1>6, <2>1
  <2>5. head \in Seq(Int) /\ <<CO, CO>> \in Seq(Int)
    BY <2>1 DEF CO, V6Address, Word
  <2>6. left \in Seq(Int) /\ right \in Seq(Int)
    BY <2>1, JoinedWords DEF right
  <2> HIDE DEF head, left
  <2>7. head \o (left \o <<CO, CO>> \o right) = head \o left \o <<CO, CO>> \o right
    <3> DEFINE gap == <<CO, CO>>
    <3>1. gap \in Seq(Int) /\ left \o gap \in Seq(Int)
      BY <2>5, <2>6, ConcatProperties
    <3> HIDE DEF gap
    <3>2. head \o (left \o gap \o right) = head \o (left \o gap) \o right
      BY <2>5, <2>6, <3>1
    <3>3. head \o (left \o gap) = head \o left \o gap
      BY <2>5, <2>6, <3>1
    <3>4. head \o (left \o gap \o right) = head \o left \o gap \o right
      BY <3>2, <3>3
    <3> QED BY <3>4 DEF gap
  <2>8. g[i] = head \o left \o <<CO, CO>> \o right
    BY <1>2, <1>6, <2>1, <2>2
  <2>9. g[i] = OutStep(w, g, i)
    BY <2>3, <2>4, <2>7, <2>8
  <2> QED BY <1>2, <2>9 DEF g
<1>7. CASE i # 9 /\ (m <= 1 \/ p < i)
  <2>1. /\ i \in 1 .. 8 /\ 8 \in i .. 8 /\ i + 1 \in 1 .. 9
        /\ ~(m > 1 /\ i <= p) /\ ~(m > 1 /\ i + 1 <= p) /\ ~(i = p /\ m > 1)
        /\ (i < 8 /\ (i + 1 # p \/ m <= 1) <=> i < 8)
    BY <1>1, <1>7
  <2>2. Joined(SubSeq(w, i, 8)) =
          <<w[i]>> \o (IF i < 8 THEN <<CO>> ELSE <<>>) \o Joined(SubSeq(w, i + 1, 8))
    BY <2>1, JoinedStep
  <2>3. g[i + 1] = Joined(SubSeq(w, i + 1, 8)) /\ g[i] = Joined(SubSeq(w, i, 8))
    BY <1>2, <2>1
  <2>4. OutStep(w, g, i) = <<w[i]>> \o (IF i < 8 THEN <<CO>> ELSE <<>>) \o g[i + 1]
    BY <1>3, <1>7, <2>1
  <2> QED BY <1>2, <2>2, <2>3, <2>4 DEF g
<1> QED BY <1>1, <1>4, <1>5, <1>6, <1>7

\* The text of a v6 address, without its brackets, is Body from the first word.
LEMMA V6TextLemma ==
  ASSUME NEW w \in V6Address
  PROVE  V6Text(w) = <<LB>> \o Body(w, 1) \o <<RB>>
<1> DEFINE g == [j \in 1 .. 9 |-> Body(w, j)]
           Loop(f) == f = [i \in 1 .. 9 |-> OutStep(w, f, i)]
           out == CHOOSE f : Loop(f)
<1>1. V6Text(w) = <<LB>> \o out[1] \o <<RB>>
  BY DEF V6Text, OutStep
<1>2. Loop(g)
  <2>1. g = [i \in 1 .. 9 |-> g[i]]
    OBVIOUS
  <2>2. \A i \in 1 .. 9 : g[i] = OutStep(w, g, i)
    BY BodyStep
  <2> HIDE DEF g
  <2> QED BY <2>1, <2>2
<1>3. Loop(out)
  BY <1>2
<1> HIDE DEF out, g
<1> DEFINE T == {d \in Nat : d <= 8 /\ out[9 - d] # g[9 - d]}
<1>4. T = {}
  <2> SUFFICES ASSUME T # {} PROVE FALSE
    OBVIOUS
  <2>1. PICK d \in T : \A n \in T : d <= n
    BY LeastNat
  <2> DEFINE i == 9 - d
             z == ZeroRun(w)
  <2>2. i \in 1 .. 9 /\ out[i] # g[i]
    BY <2>1
  <2>3. \A j \in 1 .. 9 : j > i => out[j] = g[j]
    <3> SUFFICES ASSUME NEW j \in 1 .. 9, j > i PROVE out[j] = g[j]
      OBVIOUS
    <3>1. 9 - j \in Nat /\ 9 - j <= 8 /\ 9 - j < d /\ 9 - (9 - j) = j
      BY <2>1
    <3> QED BY <2>1, <3>1
  <2>4. out[i] = OutStep(w, out, i) /\ g[i] = OutStep(w, g, i)
    BY <1>2, <1>3, <2>2
  <2>5. z.length \in 0 .. 8 /\ z.index + z.length <= 9
    BY GapBounds
  <2> HIDE DEF i, z
  <2>6. CASE i = 9
    BY <2>2, <2>4, <2>6 DEF OutStep
  <2>7. CASE i # 9 /\ i = z.index /\ z.length > 1
    <3>1. i + z.length \in 1 .. 9 /\ i + z.length > i
      BY <2>2, <2>5, <2>7
    <3>2. out[i + z.length] = g[i + z.length]
      BY <2>3, <3>1
    <3> QED BY <2>2, <2>4, <2>7, <3>2 DEF OutStep, z
  <2>8. CASE i # 9 /\ ~(i = z.index /\ z.length > 1)
    <3>1. i + 1 \in 1 .. 9 /\ i + 1 > i
      BY <2>2, <2>8
    <3>2. out[i + 1] = g[i + 1]
      BY <2>3, <3>1
    <3> QED BY <2>2, <2>4, <2>8, <3>2 DEF OutStep, z
  <2> QED BY <2>6, <2>7, <2>8
<1>5. out[1] = g[1]
  <2>1. 8 \in Nat /\ 8 <= 8 /\ 9 - 8 = 1
    OBVIOUS
  <2> QED BY <1>4, <2>1
<1>6. g[1] = Body(w, 1)
  BY DEF g
<1> QED BY <1>1, <1>5, <1>6
-----------------------------------------------------------------------------
(* inet_pton reads what the second loop writes.                            *)

\* Joined words are numerals with colons between them, and are read back.
LEMMA JoinedReads ==
  ASSUME NEW s \in Seq(Word)
  PROVE  /\ Joined(s) \in Seq(Int)
         /\ \A i \in 1 .. Len(Joined(s)) :
              /\ i % 2 = 1 => Joined(s)[i] \in Word
              /\ i % 2 # 1 => Joined(s)[i] = CO
         /\ Joined(s) = <<>> \/ Alternates(Joined(s), CO)
         /\ Joined(s) = <<>> <=> s = <<>>
         /\ Joined(s) # <<>> => Len(Joined(s)) % 2 = 1
         /\ Numerals(Joined(s)) = s
<1> DEFINE j == Joined(s)
           n == Len(s)
<1>1. /\ j \in Seq(Int) /\ n \in Nat /\ Len(j) = IF n = 0 THEN 0 ELSE 2 * n - 1
      /\ \A i \in 1 .. 2 * n - 1 : j[i] = IF i % 2 = 1 THEN s[(i + 1) \div 2] ELSE CO
      /\ s = <<>> => j = <<>>
  BY JoinedLemma
<1>2. (n = 0 <=> s = <<>>) /\ \A i \in 1 .. n : s[i] \in Word
  BY ElementOfSeq
<1>3. s \in [1 .. n -> Word]
  BY LenProperties
<1> HIDE DEF j, n
<1>4. ASSUME NEW i \in 1 .. Len(j)
      PROVE  /\ i % 2 = 1 => j[i] \in Word
             /\ i % 2 # 1 => j[i] = CO
  <2>1. n # 0 /\ i \in 1 .. 2 * n - 1
    BY <1>1
  <2>2. i % 2 = 1 => (i + 1) \div 2 \in 1 .. n
    BY <1>1, <2>1
  <2> QED BY <1>1, <1>2, <2>1, <2>2
<1>5. (j = <<>> <=> s = <<>>) /\ (j # <<>> => Len(j) % 2 = 1)
  <2>1. n # 0 => (2 * n - 1) % 2 = 1 /\ 2 * n - 1 # 0
    BY <1>1
  <2> QED BY <1>1, <1>2, <2>1
<1>6. j = <<>> \/ Alternates(j, CO)
  <2>1. DOMAIN j = 1 .. Len(j)
    BY <1>1
  <2> QED BY <1>4, <1>5, <2>1 DEF Alternates, Word
<1>7. Numerals(j) = s
  <2>1. (Len(j) + 1) \div 2 = n
    BY <1>1
  <2>2. Numerals(j) = [i \in 1 .. n |-> j[2 * i - 1]]
    BY <2>1 DEF Numerals
  <2>3. ASSUME NEW i \in 1 .. n PROVE j[2 * i - 1] = s[i]
    <3>1. /\ 2 * i - 1 \in 1 .. 2 * n - 1 /\ (2 * i - 1) % 2 = 1
          /\ (2 * i - 1 + 1) \div 2 = i
      BY <1>1
    <3> QED BY <1>1, <3>1
  <2> QED BY <1>3, <2>2, <2>3
<1> QED BY <1>1, <1>4, <1>5, <1>6, <1>7 DEF j

\* A text of words and colons has no symbol inet_pton refuses.
LEMMA NoBadSymbol ==
  ASSUME NEW t, \A i \in DOMAIN t : t[i] \in Word \/ t[i] = CO
  PROVE  ~\E i \in DOMAIN t : t[i] > 65535 \/ t[i] \in {LB, RB, DOT}
BY DEF Word, CO, LB, RB, DOT

\* The text of an address without brackets: words and colons, and a colon
\* among the last two.
V6Symbols(t) ==
  /\ t \in Seq(Int) /\ Len(t) >= 2
  /\ \A i \in DOMAIN t : t[i] \in Word \/ t[i] = CO
  /\ t[Len(t)] = CO \/ t[Len(t) - 1] = CO

\* Eight words and no gap.
LEMMA ReadsWithoutGap ==
  ASSUME NEW w \in V6Address
  PROVE  PtonV6(Joined(w)) = Ok(w) /\ V6Symbols(Joined(w))
<1> DEFINE t == Joined(w)
           gaps == {i \in 1 .. Len(t) - 1 : t[i] = CO /\ t[i + 1] = CO}
<1>1. w \in Seq(Word)
  BY Listed DEF V6Address
<1>2. Len(w) = 8
  BY Listed DEF V6Address
<1>3. /\ t \in Seq(Int)
      /\ \A i \in 1 .. Len(t) : (i % 2 = 1 => t[i] \in Word) /\ (i % 2 # 1 => t[i] = CO)
      /\ t = <<>> \/ Alternates(t, CO)
      /\ t = <<>> <=> w = <<>>
      /\ Numerals(t) = w
  BY <1>1, JoinedReads
<1>4. Len(t) = 15
  <2>1. Len(t) = IF Len(w) = 0 THEN 0 ELSE 2 * Len(w) - 1
    BY <1>1, JoinedLemma
  <2> HIDE DEF t
  <2> QED BY <1>2, <2>1
<1> HIDE DEF t
<1>5. gaps = {}
  <2> SUFFICES ASSUME NEW i \in 1 .. Len(t) - 1 PROVE ~(t[i] = CO /\ t[i + 1] = CO)
    OBVIOUS
  <2>1. (i % 2 = 1 \/ (i + 1) % 2 = 1) /\ i \in 1 .. Len(t) /\ i + 1 \in 1 .. Len(t)
    BY <1>4
  <2> QED BY <1>3, <2>1 DEF Word, CO
<1>6. ~\E i \in DOMAIN t : t[i] > 65535 \/ t[i] \in {LB, RB, DOT}
  <2>1. \A i \in DOMAIN t : t[i] \in Word \/ t[i] = CO
    BY <1>3
  <2> QED BY <2>1, NoBadSymbol
<1>7. Alternates(t, CO)
  <2>1. t # <<>>
    BY <1>4, EmptySeq
  <2> QED BY <1>3, <2>1, Zenon
<1>8. V6Symbols(t)
  <2>1. \A i \in DOMAIN t : t[i] \in Word \/ t[i] = CO
    BY <1>3
  <2>2. 14 \in 1 .. Len(t) /\ 14 % 2 # 1 /\ 15 - 1 = 14
    BY <1>4
  <2>3. t[Len(t) - 1] = CO
    BY <1>3, <1>4, <2>2
  <2> QED BY <1>3, <1>4, <2>1, <2>3 DEF V6Symbols
<1>9. PtonV6(t) = Ok(w)
  BY <1>3, <1>4, <1>5, <1>6, <1>7 DEF PtonV6
<1> QED BY <1>8, <1>9 DEF t

\* Fewer than eight words, and the gap between them.
LEMMA ReadsWithGap ==
  ASSUME NEW l \in Seq(Word), NEW r \in Seq(Word), Len(l) + Len(r) < 8
  PROVE  LET t == Joined(l) \o <<CO, CO>> \o Joined(r) IN
         /\ PtonV6(t) = Ok(l \o [i \in 1 .. 8 - (Len(l) + Len(r)) |-> 0] \o r)
         /\ V6Symbols(t)
<1> DEFINE jl == Joined(l)
           jr == Joined(r)
           t == jl \o <<CO, CO>> \o jr
           a == Len(jl)
           c == Len(jr)
           gaps == {i \in 1 .. Len(t) - 1 : t[i] = CO /\ t[i + 1] = CO}
           gap == CHOOSE i \in gaps : TRUE
           left == SubSeq(t, 1, gap - 1)
           right == SubSeq(t, gap + 2, Len(t))
<1>1. /\ jl \in Seq(Int)
      /\ \A i \in 1 .. Len(jl) : (i % 2 = 1 => jl[i] \in Word) /\ (i % 2 # 1 => jl[i] = CO)
      /\ jl = <<>> \/ Alternates(jl, CO)
      /\ jl # <<>> => Len(jl) % 2 = 1
      /\ Numerals(jl) = l
  BY JoinedReads
<1>2. /\ jr \in Seq(Int)
      /\ \A i \in 1 .. Len(jr) : (i % 2 = 1 => jr[i] \in Word) /\ (i % 2 # 1 => jr[i] = CO)
      /\ jr = <<>> \/ Alternates(jr, CO)
      /\ jr # <<>> => Len(jr) % 2 = 1
      /\ Numerals(jr) = r
  BY JoinedReads
<1> HIDE DEF jl, jr
<1>3. a \in Nat /\ c \in Nat /\ (a = 0 \/ a % 2 = 1)
  BY <1>1, <1>2
<1>4. /\ t \in Seq(Int) /\ Len(t) = a + 2 + c
      /\ \A i \in 1 .. a : t[i] = jl[i]
      /\ t[a + 1] = CO /\ t[a + 2] = CO
      /\ \A i \in 1 .. c : t[a + 2 + i] = jr[i]
  <2> DEFINE two == <<CO, CO>>
  <2>1. two \in Seq(Int) /\ Len(two) = 2 /\ two[1] = CO /\ two[2] = CO
    BY DEF CO
  <2> HIDE DEF two
  <2>2. /\ jl \o two \in Seq(Int) /\ Len(jl \o two) = a + 2
        /\ \A i \in 1 .. a + 2 : (jl \o two)[i] = IF i <= a THEN jl[i] ELSE two[i - a]
    <3>1. /\ jl \o two \in Seq(Int) /\ Len(jl \o two) = Len(jl) + Len(two)
          /\ \A i \in 1 .. Len(jl) + Len(two) :
               (jl \o two)[i] = IF i <= Len(jl) THEN jl[i] ELSE two[i - Len(jl)]
      BY <1>1, <2>1, ConcatProperties
    <3> QED BY <2>1, <3>1, Zenon
  <2> DEFINE x == jl \o two
  <2>3. /\ x \in Seq(Int) /\ Len(x) = a + 2
        /\ \A i \in 1 .. a : x[i] = jl[i]
        /\ x[a + 1] = CO /\ x[a + 2] = CO
    <3> HIDE DEF x
    <3>1. /\ \A i \in 1 .. a : i \in 1 .. a + 2 /\ i <= a
          /\ a + 1 \in 1 .. a + 2 /\ a + 2 \in 1 .. a + 2
          /\ ~(a + 1 <= a) /\ ~(a + 2 <= a) /\ a + 1 - a = 1 /\ a + 2 - a = 2
      BY <1>3
    <3> HIDE DEF a
    <3>2. \A i \in 1 .. a : x[i] = jl[i]
      BY <2>2, <3>1 DEF x
    <3>3. x[a + 1] = CO
      <4> DEFINE k == a + 1
      <4>1. k \in 1 .. a + 2 /\ ~(k <= a) /\ k - a = 1
        BY <1>3
      <4> HIDE DEF k
      <4>2. x[k] = two[1]
        BY <2>2, <4>1 DEF x
      <4> QED BY <2>1, <4>2 DEF k
    <3>4. x[a + 2] = CO
      BY <1>3, <2>1, <2>2, <3>1 DEF x
    <3> QED BY <2>2, <3>2, <3>3, <3>4 DEF x
  <2> HIDE DEF x, a, c
  <2>4. /\ x \o jr \in Seq(Int) /\ Len(x \o jr) = a + 2 + c
        /\ \A i \in 1 .. a + 2 + c :
             (x \o jr)[i] = IF i <= a + 2 THEN x[i] ELSE jr[i - (a + 2)]
    <3>1. /\ x \o jr \in Seq(Int) /\ Len(x \o jr) = Len(x) + Len(jr)
          /\ \A i \in 1 .. Len(x) + Len(jr) :
               (x \o jr)[i] = IF i <= Len(x) THEN x[i] ELSE jr[i - Len(x)]
      BY <1>2, <2>3, ConcatProperties
    <3> QED BY <2>3, <3>1, Zenon DEF c
  <2> DEFINE y == x \o jr
  <2>5. /\ y \in Seq(Int) /\ Len(y) = a + 2 + c
        /\ \A i \in 1 .. a + 2 : y[i] = x[i]
        /\ \A i \in 1 .. c : y[a + 2 + i] = jr[i]
    <3>1. /\ \A i \in 1 .. a + 2 : i \in 1 .. a + 2 + c /\ i <= a + 2
          /\ \A i \in 1 .. c : /\ a + 2 + i \in 1 .. a + 2 + c /\ ~(a + 2 + i <= a + 2)
                               /\ a + 2 + i - (a + 2) = i
      BY <1>3
    <3>2. \A i \in 1 .. a + 2 : y[i] = x[i]
      BY <2>4, <3>1
    <3>3. ASSUME NEW i \in 1 .. c PROVE y[a + 2 + i] = jr[i]
      <4> DEFINE k == a + 2 + i
      <4>1. k \in 1 .. a + 2 + c /\ ~(k <= a + 2) /\ k - (a + 2) = i
        BY <1>3
      <4> HIDE DEF k
      <4>2. y[k] = jr[i]
        BY <2>4, <4>1
      <4> QED BY <4>2 DEF k
    <3> QED BY <2>4, <3>2, <3>3
  <2> HIDE DEF y
  <2>6. t = y
    BY DEF t, x, y, two
  <2>7. /\ \A i \in 1 .. a : i \in 1 .. a + 2
        /\ a + 1 \in 1 .. a + 2 /\ a + 2 \in 1 .. a + 2
    BY <1>3
  <2> QED BY <2>3, <2>5, <2>6, <2>7
<1> HIDE DEF t, a, c
<1>5. ASSUME NEW i \in 1 .. Len(t)
      PROVE  /\ i \in 1 .. a => t[i] = jl[i]
             /\ i \notin 1 .. a /\ i # a + 1 /\ i # a + 2 =>
                  i - (a + 2) \in 1 .. c /\ t[i] = jr[i - (a + 2)]
  <2>1. i \notin 1 .. a /\ i # a + 1 /\ i # a + 2 =>
          i - (a + 2) \in 1 .. c /\ a + 2 + (i - (a + 2)) = i
    BY <1>3, <1>4
  <2> QED BY <1>4, <2>1
<1>6. \A i \in DOMAIN t : t[i] \in Word \/ t[i] = CO
  <2>1. DOMAIN t = 1 .. Len(t)
    BY <1>4
  <2>2. ASSUME NEW i \in 1 .. Len(t) PROVE t[i] \in Word \/ t[i] = CO
    <3>1. CASE i \in 1 .. a
      BY <1>1, <1>5, <3>1 DEF a
    <3>2. CASE i \notin 1 .. a /\ i # a + 1 /\ i # a + 2
      BY <1>2, <1>5, <3>2 DEF c
    <3>3. CASE i = a + 1 \/ i = a + 2
      BY <1>4, <3>3
    <3> QED BY <3>1, <3>2, <3>3
  <2> QED BY <2>1, <2>2
<1>7. ASSUME NEW i \in 1 .. Len(t) - 1
      PROVE  t[i] = CO /\ t[i + 1] = CO <=> i = a + 1
  <2>1. i \in 1 .. Len(t) /\ i + 1 \in 1 .. Len(t)
    BY <1>3, <1>4
  <2>2. CASE i = a + 1
    <3>1. i + 1 = a + 2
      BY <1>3, <2>2
    <3> QED BY <1>4, <2>2, <3>1
  <2>3. CASE i < a
    <3>1. i \in 1 .. a /\ i + 1 \in 1 .. a /\ (i % 2 = 1 \/ (i + 1) % 2 = 1) /\ i # a + 1
      BY <1>3, <2>3
    <3>2. t[i] = jl[i] /\ t[i + 1] = jl[i + 1]
      BY <1>4, <3>1
    <3> QED BY <1>1, <3>1, <3>2 DEF a, Word, CO
  <2>4. CASE i = a
    <3>1. i \in 1 .. a /\ i % 2 = 1 /\ i # a + 1
      BY <1>3, <2>4
    <3>2. t[i] = jl[i] /\ jl[i] \in Word
      BY <1>1, <1>4, <3>1 DEF a
    <3> QED BY <3>1, <3>2 DEF Word, CO
  <2>5. CASE i = a + 2
    <3>1. 1 \in 1 .. c /\ i + 1 = a + 2 + 1 /\ 1 % 2 = 1 /\ i # a + 1
      BY <1>3, <1>4, <2>5
    <3>2. t[i + 1] = jr[1] /\ jr[1] \in Word
      BY <1>2, <1>4, <3>1 DEF c
    <3> QED BY <3>1, <3>2 DEF Word, CO
  <2>6. CASE i > a + 2
    <3> DEFINE k == i - (a + 2)
    <3>1. /\ k \in 1 .. c /\ k + 1 \in 1 .. c
          /\ a + 2 + k = i /\ a + 2 + (k + 1) = i + 1 /\ i # a + 1
      <4>1. i \in Nat /\ i <= a + 2 + c - 1
        BY <1>3, <1>4
      <4> QED BY <1>3, <2>6, <4>1
    <3>2. k % 2 = 1 \/ (k + 1) % 2 = 1
      BY <3>1
    <3> HIDE DEF k
    <3>3. t[i] = jr[k] /\ t[i + 1] = jr[k + 1]
      BY <1>4, <3>1
    <3> QED BY <1>2, <3>1, <3>2, <3>3 DEF c, Word, CO
  <2> QED BY <1>3, <2>2, <2>3, <2>4, <2>5, <2>6
<1>8. gaps = {a + 1}
  <2>1. a + 1 \in 1 .. Len(t) - 1
    BY <1>3, <1>4
  <2> QED BY <1>7, <2>1
<1>9. gap = a + 1
  BY <1>8
<1> HIDE DEF gaps, gap
<1>10. left = jl
  <2>1. gap - 1 = a
    BY <1>3, <1>9
  <2>2. t \in Seq(Int) /\ a <= Len(t)
    BY <1>3, <1>4
  <2>3. SubSeq(t, 1, a) \in Seq(Int) /\ Len(SubSeq(t, 1, a)) = a
    BY <1>3, <2>2
  <2>4. ASSUME NEW i \in 1 .. a PROVE SubSeq(t, 1, a)[i] = t[i]
    <3> DEFINE k == 1
    <3>1. k + i - 1 = i /\ k \in Nat /\ k > 0 /\ i \in 1 .. a - k + 1
      BY <1>3
    <3> HIDE DEF k
    <3>2. SubSeq(t, k, a)[i] = t[k + i - 1]
      BY <1>3, <2>2, <3>1
    <3> QED BY <3>1, <3>2 DEF k
  <2>5. \A i \in 1 .. a : SubSeq(t, 1, a)[i] = jl[i]
    BY <1>4, <2>4
  <2>6. SubSeq(t, 1, a) = jl
    BY <1>1, <2>3, <2>5, SeqEqual DEF a
  <2> QED BY <2>1, <2>6
<1>11. right = jr
  <2> DEFINE k == a + 3
             n == Len(t)
  <2>1. gap + 2 = k /\ t \in Seq(Int) /\ k \in Nat /\ k > 0 /\ n \in Nat /\ n - k + 1 = c
    BY <1>3, <1>4, <1>9
  <2>2. \A i \in 1 .. c : k + i - 1 = a + 2 + i /\ k + i - 1 \in 1 .. n
    BY <1>3, <1>4
  <2> HIDE DEF k
  <2>3. SubSeq(t, k, n) \in Seq(Int) /\ Len(SubSeq(t, k, n)) = c
    BY <1>3, <2>1
  <2>4. \A i \in 1 .. c : SubSeq(t, k, n)[i] = t[k + i - 1]
    BY <1>3, <2>1
  <2>5. \A i \in 1 .. c : SubSeq(t, k, n)[i] = jr[i]
    BY <1>4, <2>2, <2>4
  <2>6. SubSeq(t, k, n) = jr
    BY <1>2, <2>3, <2>5, SeqEqual DEF c
  <2> QED BY <2>1, <2>6
<1>12. ~\E i \in DOMAIN t : t[i] > 65535 \/ t[i] \in {LB, RB, DOT}
  BY <1>6, NoBadSymbol
<1>13. PtonV6(t) = Ok(l \o [i \in 1 .. 8 - (Len(l) + Len(r)) |-> 0] \o r)
  <2>1. gaps # {} /\ \A i, j \in gaps : i = j
    BY <1>8
  <2>2. \A side \in {left, right} : side = <<>> \/ Alternates(side, CO)
    <3> HIDE DEF left, right
    <3> QED BY <1>1, <1>2, <1>10, <1>11, Zenon
  <2>3. Numerals(left) = l /\ Numerals(right) = r
    BY <1>1, <1>2, <1>10, <1>11
  <2> DEFINE n == Len(Numerals(left)) + Len(Numerals(right))
  <2>4. Len(l) + Len(r) = n /\ n < 8
    BY <2>3
  <2>5. PtonV6(t) = Ok(Numerals(left)
          \o [i \in 1 .. 8 - n |-> 0]
          \o Numerals(right))
    <3>1. PtonV6(t) =
            IF \E i \in DOMAIN t : t[i] > 65535 \/ t[i] \in {LB, RB, DOT} THEN BadFormat
            ELSE IF gaps = {} /\ Alternates(t, CO) /\ Len(t) = 15 THEN Ok(Numerals(t))
            ELSE IF /\ gaps # {} /\ (\A i, j \in gaps : i = j) /\ n < 8
                    /\ \A side \in {left, right} : side = <<>> \/ Alternates(side, CO)
            THEN Ok(Numerals(left) \o [i \in 1 .. 8 - n |-> 0] \o Numerals(right))
            ELSE BadFormat
      BY DEF PtonV6, gaps, gap
    <3> HIDE DEF left, right, n
    <3>2. PtonV6(t) =
            IF gaps = {} /\ Alternates(t, CO) /\ Len(t) = 15 THEN Ok(Numerals(t))
            ELSE IF /\ gaps # {} /\ (\A i, j \in gaps : i = j) /\ n < 8
                    /\ \A side \in {left, right} : side = <<>> \/ Alternates(side, CO)
            THEN Ok(Numerals(left) \o [i \in 1 .. 8 - n |-> 0] \o Numerals(right))
            ELSE BadFormat
      BY <1>12, <3>1
    <3> HIDE DEF gaps
    <3>3. ~(gaps = {} /\ Alternates(t, CO) /\ Len(t) = 15)
      BY <2>1
    <3>4. /\ gaps # {} /\ (\A i, j \in gaps : i = j) /\ n < 8
          /\ \A side \in {left, right} : side = <<>> \/ Alternates(side, CO)
      BY <2>1, <2>2, <2>4
    <3> QED BY <3>2, <3>3, <3>4
  <2> QED BY <2>3, <2>5
<1>14. V6Symbols(t)
  <2>1. CASE c = 0
    BY <1>3, <1>4, <1>6, <2>1 DEF V6Symbols
  <2>2. CASE c = 1
    <3>1. Len(t) - 1 = a + 2 /\ Len(t) >= 2
      BY <1>3, <1>4, <2>2
    <3> QED BY <1>4, <1>6, <3>1 DEF V6Symbols
  <2>3. CASE c > 1
    <3>1. jr # <<>>
      BY <2>3, EmptySeq DEF c
    <3>2. c % 2 = 1
      BY <1>2, <3>1 DEF c
    <3>3. c - 1 \in 1 .. c /\ (c - 1) % 2 # 1 /\ a + 2 + (c - 1) = Len(t) - 1 /\ Len(t) >= 2
      <4>1. (c - 1) % 2 # 1
        BY <1>3, <3>2
      <4>2. Len(t) = a + 2 + c
        BY <1>4
      <4> QED BY <1>3, <2>3, <4>1, <4>2
    <3>4. t[a + 2 + (c - 1)] = jr[c - 1] /\ jr[c - 1] = CO
      BY <1>2, <1>4, <3>3 DEF c
    <3> QED BY <1>4, <1>6, <3>3, <3>4 DEF V6Symbols
  <2> QED BY <1>3, <2>1, <2>2, <2>3
<1> QED BY <1>13, <1>14 DEF t, jl, jr
\* inet_pton reads the text of an address as that address.
LEMMA BodyReads ==
  ASSUME NEW w \in V6Address
  PROVE  PtonV6(Body(w, 1)) = Ok(w) /\ V6Symbols(Body(w, 1))
<1> DEFINE z == ZeroRun(w)
           p == z.index
           m == z.length
           l == SubSeq(w, 1, p - 1)
           r == SubSeq(w, p + m, 8)
<1>1. /\ m \in 0 .. 8 /\ p \in 1 .. 9 /\ p + m <= 9
      /\ m > 1 => p \in 1 .. 7 /\ p + m \in 3 .. 9 /\ p - 1 \in 0 .. 6
  BY GapBounds
<1>2. \A j \in 1 .. 8 : p <= j /\ j < p + m => w[j] = 0
  <2>1. Zeros(w, p, p + m - 1)
    BY ZeroRunLemma DEF KnowsRuns
  <2> QED BY <1>1, <2>1 DEF Zeros
<1>3. w \in Seq(Word)
  BY Listed DEF V6Address
<1>4. Len(w) = 8
  BY Listed DEF V6Address
<1>5. CASE m > 1
  <2>1. Body(w, 1) = Joined(l) \o <<CO, CO>> \o Joined(r)
    BY <1>1, <1>5 DEF Body
  <2> HIDE DEF z, p, m
  <2>2. /\ 1 \in 1 .. 9 /\ p - 1 \in 0 .. 8 /\ p + m \in 1 .. 9 /\ 8 \in 0 .. 8
        /\ (IF 1 <= p - 1 THEN p - 1 - 1 + 1 ELSE 0) = p - 1
        /\ (IF p + m <= 8 THEN 8 - (p + m) + 1 ELSE 0) = 9 - (p + m)
    BY <1>1, <1>5
  <2>3. /\ l \in Seq(Word) /\ Len(l) = p - 1
        /\ \A j \in 1 .. p - 1 - 1 + 1 : l[j] = w[1 + j - 1]
    BY <2>2, Words
  <2>4. /\ r \in Seq(Word) /\ Len(r) = 9 - (p + m)
        /\ \A j \in 1 .. 8 - (p + m) + 1 : r[j] = w[p + m + j - 1]
    <3> DEFINE q == p + m
    <3>1. q \in 1 .. 9 /\ (IF q <= 8 THEN 8 - q + 1 ELSE 0) = 9 - q
      BY <2>2
    <3> HIDE DEF q
    <3>2. /\ SubSeq(w, q, 8) \in Seq(Word) /\ Len(SubSeq(w, q, 8)) = 9 - q
          /\ \A j \in 1 .. 8 - q + 1 : SubSeq(w, q, 8)[j] = w[q + j - 1]
      BY <2>2, <3>1, Words
    <3> QED BY <3>2 DEF q
  <2> HIDE DEF l, r
  <2>5. Len(l) + Len(r) < 8 /\ 8 - (Len(l) + Len(r)) = m
    <3>1. p - 1 + (9 - (p + m)) = 8 - m /\ 8 - m < 8 /\ 8 - (8 - m) = m
      BY <1>1, <1>5
    <3> QED BY <2>3, <2>4, <3>1
  <2> DEFINE zeros == [i \in 1 .. m |-> 0]
             x == l \o zeros
             y == x \o r
  <2>6. PtonV6(Body(w, 1)) = Ok(y) /\ V6Symbols(Body(w, 1))
    BY <2>1, <2>3, <2>4, <2>5, ReadsWithGap
  <2>7. zeros \in [1 .. m -> Word] /\ m \in Nat
    BY <1>1 DEF Word
  <2>8. zeros \in Seq(Word)
    BY <2>7, Listed
  <2>9. Len(zeros) = m
    BY <2>7, Listed
  <2>10. /\ x \in Seq(Word) /\ Len(x) = p - 1 + m
         /\ \A i \in 1 .. Len(l) + Len(zeros) :
              x[i] = IF i <= Len(l) THEN l[i] ELSE zeros[i - Len(l)]
    <3> HIDE DEF zeros
    <3>1. /\ x \in Seq(Word) /\ Len(x) = Len(l) + Len(zeros)
          /\ \A i \in 1 .. Len(l) + Len(zeros) :
              x[i] = IF i <= Len(l) THEN l[i] ELSE zeros[i - Len(l)]
      BY <2>3, <2>8, ConcatProperties
    <3> QED BY <2>3, <2>9, <3>1
  <2>11. ASSUME NEW i \in 1 .. p - 1 + m PROVE x[i] = w[i]
    <3>1. i \in 1 .. Len(l) + Len(zeros) /\ i \in 1 .. 8
      BY <1>1, <1>5, <2>3, <2>9
    <3>2. CASE i <= Len(l)
      <4>1. i \in 1 .. p - 1 - 1 + 1 /\ 1 + i - 1 = i
        BY <1>1, <1>5, <2>3, <3>2
      <4>2. l[i] = w[i]
        BY <2>3, <4>1
      <4> HIDE DEF x, zeros
      <4> QED BY <2>10, <3>1, <3>2, <4>2
    <3>3. CASE ~(i <= Len(l))
      <4>1. i - Len(l) \in 1 .. m /\ p <= i /\ i < p + m
        BY <1>1, <1>5, <2>3, <3>3
      <4>2. zeros[i - Len(l)] = 0 /\ w[i] = 0
        BY <1>2, <3>1, <4>1
      <4> HIDE DEF x, zeros
      <4> QED BY <2>10, <3>1, <3>3, <4>2
    <3> QED BY <3>2, <3>3
  <2> HIDE DEF zeros, x
  <2>12. /\ y \in Seq(Word) /\ Len(y) = Len(x) + Len(r)
         /\ \A i \in 1 .. Len(x) + Len(r) :
              y[i] = IF i <= Len(x) THEN x[i] ELSE r[i - Len(x)]
    BY <2>4, <2>10, ConcatProperties
  <2> HIDE DEF y
  <2>13. Len(y) = 8
    BY <1>1, <1>5, <2>4, <2>10, <2>12
  <2>14. ASSUME NEW i \in 1 .. Len(y) PROVE y[i] = w[i]
    <3>1. CASE i <= Len(x)
      BY <2>10, <2>11, <2>12, <3>1
    <3>2. CASE ~(i <= Len(x))
      <4> DEFINE k == i - Len(x)
      <4>1. k \in 1 .. 8 - (p + m) + 1 /\ p + m + k - 1 = i
        BY <1>1, <1>5, <2>10, <2>13, <3>2
      <4> HIDE DEF k
      <4>2. r[k] = w[i]
        BY <2>4, <4>1
      <4> QED BY <2>12, <3>2, <4>2 DEF k
    <3> QED BY <3>1, <3>2
  <2>15. y = w
    BY <1>3, <1>4, <2>12, <2>13, <2>14, SeqEqual
  <2> QED BY <2>6, <2>15
<1>6. CASE ~(m > 1)
  <2>1. Body(w, 1) = Joined(SubSeq(w, 1, 8))
    BY <1>6 DEF Body
  <2>2. SubSeq(w, 1, 8) = w
    BY <1>3, <1>4, SubSeqFull
  <2> QED BY <2>1, <2>2, ReadsWithoutGap
<1> QED BY <1>5, <1>6
-----------------------------------------------------------------------------
(* The recommended text.                                                   *)

\* The runs of two zero words or more.
RunsOf(w) ==
  {r \in (1 .. 8) \X (1 .. 8) : r[1] < r[2] /\ \A i \in r[1] .. r[2] : w[i] = 0}

\* r is the first of the longest of them.
BestRun(w, r) ==
  \A q \in RunsOf(w) :
    \/ q[2] - q[1] < r[2] - r[1]
    \/ q[2] - q[1] = r[2] - r[1] /\ r[1] <= q[1]

\* The first loop finds that run, if there is one.
LEMMA RunsLemma ==
  ASSUME NEW w \in V6Address
  PROVE  LET z == ZeroRun(w) IN
         /\ RunsOf(w) = {} <=> ~(z.length > 1)
         /\ z.length > 1 =>
              (CHOOSE r \in RunsOf(w) : BestRun(w, r)) = <<z.index, z.index + z.length - 1>>
<1> DEFINE z == ZeroRun(w)
           p == z.index
           m == z.length
           u == <<p, p + m - 1>>
<1>1. /\ m \in 0 .. 8 /\ p \in 1 .. 9 /\ p + m <= 9
      /\ m > 1 => p \in 1 .. 7 /\ p + m \in 3 .. 9 /\ p - 1 \in 0 .. 6
  BY GapBounds
<1>2. /\ Zeros(w, p, p + m - 1)
      /\ \A a, b \in 1 .. 8 : a <= b /\ b <= 8 /\ Zeros(w, a, b) =>
           \/ b - a + 1 < m
           \/ b - a + 1 = m /\ p <= a
  BY ZeroRunLemma DEF KnowsRuns
<1> HIDE DEF z, p, m
<1>3. ASSUME NEW r \in RunsOf(w)
      PROVE  /\ r[1] \in 1 .. 8 /\ r[2] \in 1 .. 8 /\ r[1] < r[2] /\ r = <<r[1], r[2]>>
             /\ \/ r[2] - r[1] + 1 < m
                \/ r[2] - r[1] + 1 = m /\ p <= r[1]
  <2>1. /\ r \in (1 .. 8) \X (1 .. 8) /\ r[1] < r[2]
        /\ \A i \in r[1] .. r[2] : w[i] = 0
    BY DEF RunsOf
  <2>2. r[1] \in 1 .. 8 /\ r[2] \in 1 .. 8 /\ r = <<r[1], r[2]>>
    BY <2>1
  <2>3. Zeros(w, r[1], r[2])
    BY <2>1, <2>2 DEF Zeros
  <2> QED BY <1>2, <2>1, <2>2, <2>3
<1>4. CASE ~(m > 1)
  <2>1. RunsOf(w) = {}
    <3> SUFFICES ASSUME NEW r \in RunsOf(w) PROVE FALSE
      OBVIOUS
    <3> QED BY <1>1, <1>3, <1>4
  <2> QED BY <1>4, <2>1 DEF z, m
<1>5. CASE m > 1
  <2>1. u[1] = p /\ u[2] = p + m - 1 /\ p \in 1 .. 8 /\ p + m - 1 \in 1 .. 8 /\ p < p + m - 1
    BY <1>1, <1>5
  <2>2. u \in (1 .. 8) \X (1 .. 8)
    BY <2>1
  <2> HIDE DEF u
  <2>3. \A i \in u[1] .. u[2] : w[i] = 0
    BY <1>2, <2>1 DEF Zeros
  <2>4. u \in RunsOf(w)
    BY <2>1, <2>2, <2>3 DEF RunsOf
  <2>5. BestRun(w, u)
    <3> SUFFICES ASSUME NEW q \in RunsOf(w)
                 PROVE  \/ q[2] - q[1] < u[2] - u[1]
                        \/ q[2] - q[1] = u[2] - u[1] /\ u[1] <= q[1]
      BY DEF BestRun
    <3>1. u[2] - u[1] = m - 1
      BY <1>1, <2>1
    <3> QED BY <1>1, <1>3, <2>1, <3>1
  <2>6. ASSUME NEW r \in RunsOf(w), BestRun(w, r) PROVE r = u
    <3>1. \/ u[2] - u[1] < r[2] - r[1]
          \/ u[2] - u[1] = r[2] - r[1] /\ r[1] <= u[1]
      BY <2>4, <2>6 DEF BestRun
    <3>2. r[1] = p /\ r[2] = p + m - 1
      BY <1>1, <1>3, <2>1, <3>1
    <3> QED BY <1>3, <3>2 DEF u
  <2>7. (CHOOSE r \in RunsOf(w) : BestRun(w, r)) = u
    BY <2>4, <2>5, <2>6
  <2> QED BY <1>5, <2>4, <2>7 DEF z, m, p, u
<1> QED BY <1>4, <1>5

\* Brackets around a text, and what is between them.
LEMMA Brackets ==
  ASSUME NEW s \in Seq(Int)
  PROVE  LET t == <<LB>> \o s \o <<RB>> IN
         /\ t \in Seq(Int) /\ Len(t) = Len(s) + 2
         /\ t[1] = LB /\ t[Len(t)] = RB
         /\ \A i \in 1 .. Len(s) : t[i + 1] = s[i]
         /\ Bracketed(t) /\ Inner(t) = s
<1> DEFINE lb == <<LB>>
           rb == <<RB>>
           x == lb \o s
           t == x \o rb
           n == Len(s)
<1>1. /\ Len(lb) = 1 /\ lb[1] = LB
      /\ Len(rb) = 1 /\ rb[1] = RB /\ n \in Nat
  OBVIOUS
<1>2. lb \in Seq(Int)
  BY DEF LB
<1>3. rb \in Seq(Int)
  BY DEF RB
<1> HIDE DEF lb, rb
<1>4. x \in Seq(Int)
  BY <1>2
<1>5. /\ Len(x) = Len(lb) + Len(s)
      /\ \A i \in 1 .. Len(lb) : x[i] = lb[i]
      /\ \A i \in 1 .. Len(s) : x[Len(lb) + i] = s[i]
  <2>1. Len(x) = Len(lb) + Len(s)
    BY <1>2
  <2>2. \A i \in 1 .. Len(lb) : x[i] = lb[i]
    BY <1>2
  <2>3. \A i \in 1 .. Len(s) : x[Len(lb) + i] = s[i]
    BY <1>2
  <2> QED BY <2>1, <2>2, <2>3
<1> HIDE DEF x
<1>6. /\ t \in Seq(Int) /\ Len(t) = Len(x) + Len(rb)
      /\ \A i \in 1 .. Len(x) : t[i] = x[i]
      /\ \A i \in 1 .. Len(rb) : t[Len(x) + i] = rb[i]
  <2>1. t \in Seq(Int) /\ Len(t) = Len(x) + Len(rb)
    BY <1>3, <1>4
  <2>2. \A i \in 1 .. Len(x) : t[i] = x[i]
    BY <1>3, <1>4
  <2>3. \A i \in 1 .. Len(rb) : t[Len(x) + i] = rb[i]
    BY <1>3, <1>4
  <2> QED BY <2>1, <2>2, <2>3
<1> HIDE DEF t
<1>7. /\ Len(t) = n + 2 /\ t[1] = LB /\ t[n + 2] = RB
      /\ \A i \in 1 .. n : t[i + 1] = s[i]
  <2>1. Len(x) = n + 1 /\ Len(t) = n + 2
    BY <1>1, <1>5, <1>6
  <2>2. /\ 1 \in 1 .. Len(lb) /\ 1 \in 1 .. Len(x) /\ 1 \in 1 .. Len(rb)
        /\ Len(x) + 1 = n + 2
    BY <1>1, <2>1
  <2>3. \A i \in 1 .. n : i + 1 \in 1 .. Len(x) /\ Len(lb) + i = i + 1
    BY <1>1, <2>1
  <2>4. t[1] = LB
    BY <1>1, <1>5, <1>6, <2>2
  <2>5. t[n + 2] = RB
    BY <1>1, <1>6, <2>2
  <2>6. \A i \in 1 .. n : t[i + 1] = s[i]
    BY <1>5, <1>6, <2>3
  <2> QED BY <2>1, <2>4, <2>5, <2>6
<1>8. Bracketed(t)
  BY <1>1, <1>6, <1>7 DEF Bracketed, Last
<1>9. Inner(t) = s
  <2>1. Len(t) - 1 = n + 1
    BY <1>1, <1>7
  <2>2. SubSeq(t, 2, n + 1) \in Seq(Int) /\ Len(SubSeq(t, 2, n + 1)) = n
    BY <1>1, <1>6, <1>7
  <2>3. \A i \in 1 .. n : SubSeq(t, 2, n + 1)[i] = s[i]
    BY <1>1, <1>6, <1>7
  <2>4. SubSeq(t, 2, n + 1) = s
    BY <2>2, <2>3, SeqEqual
  <2> QED BY <2>1, <2>4 DEF Inner
<1> QED BY <1>6, <1>7, <1>8, <1>9 DEF t, x, lb, rb

\* CanonicalV6Text of any address.
LEMMA CanonicalLemma ==
  ASSUME NEW w \in V6Address
  PROVE  Inner(V6Text(w)) =
           LET best == CHOOSE r \in RunsOf(w) : BestRun(w, r) IN
           IF RunsOf(w) = {} THEN Joined(w)
           ELSE Joined(SubSeq(w, 1, best[1] - 1)) \o <<CO, CO>>
                \o Joined(SubSeq(w, best[2] + 1, 8))
<1> DEFINE z == ZeroRun(w)
           best == CHOOSE r \in RunsOf(w) : BestRun(w, r)
<1>1. Inner(V6Text(w)) = Body(w, 1)
  <2>1. Body(w, 1) \in Seq(Int)
    BY BodyReads DEF V6Symbols
  <2> QED BY <2>1, V6TextLemma, Brackets
<1>2. CASE ~(z.length > 1)
  <2>1. w \in Seq(Word)
    BY Listed DEF V6Address
  <2>2. Len(w) = 8
    BY Listed DEF V6Address
  <2>3. SubSeq(w, 1, 8) = w
    BY <2>1, <2>2, SubSeqFull
  <2> QED BY <1>1, <1>2, <2>3, RunsLemma DEF Body
<1>3. CASE z.length > 1
  <2>1. z.index \in 1 .. 7 /\ z.length \in 0 .. 8
    BY <1>3, GapBounds
  <2>2. RunsOf(w) # {} /\ best = <<z.index, z.index + z.length - 1>>
    BY <1>3, RunsLemma
  <2>3. best[1] - 1 = z.index - 1 /\ best[2] + 1 = z.index + z.length
    <3> HIDE DEF best
    <3>1. best[1] = z.index /\ best[2] = z.index + z.length - 1
      BY <2>2
    <3> QED BY <2>1, <3>1
  <2>4. Body(w, 1) = Joined(SubSeq(w, 1, z.index - 1)) \o <<CO, CO>>
                     \o Joined(SubSeq(w, z.index + z.length, 8))
    BY <1>3, <2>1 DEF Body
  <2> QED BY <1>1, <2>2, <2>3, <2>4
<1> QED BY <1>2, <1>3
-----------------------------------------------------------------------------
(* parse reads what to_string writes.                                      *)

\* The last colon of a text.
LEMMA LastColonIs ==
  ASSUME NEW s \in Seq(Int), NEW k \in 1 .. Len(s), s[k] = CO,
         \A i \in 1 .. Len(s) : i > k => s[i] # CO
  PROVE  LastColon(s) = k
<1> DEFINE I == {i \in 1 .. Len(s) : s[i] = CO}
<1>1. k \in I /\ \A i \in I : k >= i /\ i \in Int
  OBVIOUS
<1>2. LastColon(s) = IF I # {} THEN Max(I) ELSE 0
  BY DEF LastColon, SelectLastInSeq
<1> HIDE DEF I
<1>3. Max(I) = k
  <2>1. \A x \in I : (\A y \in I : x >= y) => x = k
    BY <1>1
  <2> QED BY <1>1, <2>1 DEF Max
<1> QED BY <1>1, <1>2, <1>3

\* There is none.
LEMMA NoColon ==
  ASSUME NEW s \in Seq(Int), \A i \in 1 .. Len(s) : s[i] # CO
  PROVE  LastColon(s) = 0
<1> DEFINE I == {i \in 1 .. Len(s) : s[i] = CO}
<1>1. I = {}
  OBVIOUS
<1>2. LastColon(s) = IF I # {} THEN Max(I) ELSE 0
  BY DEF LastColon, SelectLastInSeq
<1> QED BY <1>1, <1>2

\* A number after a text: where parse splits it.
LEMMA WithPort ==
  ASSUME NEW s \in Seq(Int), NEW n \in Nat
  PROVE  LET t == s \o <<CO, Dec + n>> IN
         /\ t \in Seq(Int) /\ Len(t) = Len(s) + 2
         /\ \A i \in 1 .. Len(s) : t[i] = s[i]
         /\ LastColon(t) = Len(s) + 1 /\ Last(t) = Dec + n
         /\ SubSeq(t, 1, LastColon(t) - 1) = s
         /\ stoul(SubSeq(t, LastColon(t) + 1, Len(t))) = [status |-> "ok", value |-> n]
<1> DEFINE two == <<CO, Dec + n>>
           t == s \o two
           m == Len(s)
<1>1. two \in Seq(Int)
  BY DEF CO, Dec
<1>2. Len(two) = 2 /\ two[1] = CO /\ two[2] = Dec + n
  OBVIOUS
<1> HIDE DEF two
<1>3. t \in Seq(Int) /\ Len(t) = Len(s) + Len(two)
  BY <1>1
<1>4. \A i \in 1 .. Len(s) : t[i] = s[i]
  BY <1>1
<1>5. \A i \in 1 .. Len(two) : t[Len(s) + i] = two[i]
  BY <1>1
<1>6. Len(t) = m + 2 /\ m \in Nat
  BY <1>2, <1>3
<1>7. t[m + 1] = CO /\ t[m + 2] = Dec + n
  <2>1. 1 \in 1 .. Len(two) /\ 2 \in 1 .. Len(two)
    BY <1>2
  <2> HIDE DEF t
  <2> QED BY <1>2, <1>5, <2>1
<1> HIDE DEF t
<1>8. LastColon(t) = m + 1
  <2>1. m + 1 \in 1 .. Len(t)
    BY <1>6
  <2>2. \A i \in 1 .. Len(t) : i > m + 1 => t[i] # CO
    <3> SUFFICES ASSUME NEW i \in 1 .. Len(t), i > m + 1 PROVE t[i] # CO
      OBVIOUS
    <3>1. i = m + 2
      BY <1>6
    <3> QED BY <1>7, <3>1 DEF CO, Dec
  <2> QED BY <1>3, <1>7, <2>1, <2>2, LastColonIs
<1>9. Last(t) = Dec + n
  BY <1>6, <1>7 DEF Last
<1>10. SubSeq(t, 1, m) = s
  <2>1. SubSeq(t, 1, m) \in Seq(Int) /\ Len(SubSeq(t, 1, m)) = m
    BY <1>3, <1>6
  <2>2. \A i \in 1 .. m : SubSeq(t, 1, m)[i] = s[i]
    BY <1>3, <1>4, <1>6
  <2> QED BY <2>1, <2>2, SeqEqual
<1>11. stoul(SubSeq(t, m + 2, Len(t))) = [status |-> "ok", value |-> n]
  <2> DEFINE u == SubSeq(t, m + 2, Len(t))
  <2>1. u \in Seq(Int) /\ Len(u) = 1 /\ u[1] = Dec + n
    <3> DEFINE k == Len(t)
    <3>1. m + 2 = k /\ k \in 1 .. Len(t) /\ k \in Nat
      BY <1>6
    <3>2. SubSeq(t, k, k) \in Seq(Int)
      BY <1>3, <3>1
    <3>3. Len(SubSeq(t, k, k)) = 1 /\ SubSeq(t, k, k)[1] = t[k]
      BY <1>3, <3>1
    <3> QED BY <1>7, <3>1, <3>2, <3>3
  <2> HIDE DEF u
  <2>2. u # <<>> /\ ~(u[1] < 0) /\ u[1] >= Dec /\ u[1] - Dec = n
    <3>1. u # <<>>
      <4>1. Len(u) # Len(<<>>)
        BY <2>1
      <4> QED BY <4>1
    <3>2. u[1] = Dec + n
      BY <2>1
    <3>3. ~(u[1] < 0) /\ u[1] >= Dec /\ u[1] - Dec = n
      BY <3>2 DEF Dec
    <3> QED BY <3>1, <3>3
  <2>3. stoul(u) = [status |-> "ok", value |-> n]
    BY <2>2 DEF stoul
  <2> QED BY <2>3 DEF u
<1>12. m + 1 - 1 = m /\ m + 1 + 1 = m + 2
  BY <1>6
<1> QED BY <1>3, <1>4, <1>6, <1>8, <1>9, <1>10, <1>11, <1>12 DEF t, two

\* The text of a v4 address is no v6 address, and is read as that address.
LEMMA V4Reads ==
  ASSUME NEW b \in V4Address
  PROVE  LET t == V4Text(b) IN
         /\ t \in Seq(Int) /\ Len(t) = 7 /\ t[1] > 65535
         /\ \A i \in 1 .. 7 : t[i] # CO
         /\ Last(t) # RB /\ PtonV4(t) = Ok(b)
<1> DEFINE t == V4Text(b)
<1>1. \A i \in 1 .. 4 : b[i] \in Nat /\ b[i] <= 255
  BY DEF V4Address, Byte
<1>2. t = <<Dec + b[1], DOT, Dec + b[2], DOT, Dec + b[3], DOT, Dec + b[4]>>
  BY DEF V4Text
<1>3. t \in Seq(Int)
  BY <1>1, <1>2 DEF Dec, DOT
<1>4. /\ Len(t) = 7 /\ t[1] = Dec + b[1] /\ t[2] = DOT /\ t[3] = Dec + b[2] /\ t[4] = DOT
      /\ t[5] = Dec + b[3] /\ t[6] = DOT /\ t[7] = Dec + b[4]
  BY <1>2
<1> HIDE DEF t
<1>5. \A i \in 1 .. 7 : i = 1 \/ i = 2 \/ i = 3 \/ i = 4 \/ i = 5 \/ i = 6 \/ i = 7
  OBVIOUS
<1>6. Alternates(t, DOT)
  <2>1. DOMAIN t = 1 .. 7
    BY <1>3, <1>4
  <2>2. ASSUME NEW i \in 1 .. 7 PROVE IF i % 2 = 1 THEN t[i] >= 0 ELSE t[i] = DOT
    BY <1>1, <1>4, <1>5 DEF Dec
  <2> QED BY <1>4, <2>1, <2>2 DEF Alternates
<1>7. \A x \in {t[1], t[3], t[5], t[7]} : Dec <= x /\ x <= Dec + 255
  BY <1>1, <1>4 DEF Dec
<1>8. [i \in 1 .. 4 |-> t[2 * i - 1] - Dec] = b
  <2>1. ASSUME NEW i \in 1 .. 4 PROVE t[2 * i - 1] - Dec = b[i]
    <3>1. i = 1 \/ i = 2 \/ i = 3 \/ i = 4
      OBVIOUS
    <3> QED BY <1>1, <1>4, <3>1 DEF Dec
  <2> QED BY <2>1 DEF V4Address
<1>9. PtonV4(t) = Ok(b)
  BY <1>4, <1>6, <1>7, <1>8 DEF PtonV4
<1>10. \A i \in 1 .. 7 : t[i] # CO
  BY <1>1, <1>4, <1>5 DEF Dec, DOT, CO
<1>11. t[1] > 65535 /\ Last(t) # RB
  BY <1>1, <1>4 DEF Dec, RB, Last
<1> QED BY <1>3, <1>4, <1>9, <1>10, <1>11 DEF t
\* The text of a v6 address, with and without its brackets.
LEMMA V6Reads ==
  ASSUME NEW w \in V6Address
  PROVE  LET t == V6Text(w) IN
         /\ t \in Seq(Int) /\ Len(t) >= 4 /\ t[1] = LB /\ Last(t) = RB
         /\ Bracketed(t) /\ Inner(t) = Body(w, 1)
         /\ ParseV6(t) = Ok(w) /\ ParseV6(Body(w, 1)) = Ok(w)
<1> DEFINE b == Body(w, 1)
           t == V6Text(w)
<1>1. PtonV6(b) = Ok(w) /\ V6Symbols(b)
  BY BodyReads
<1>2. /\ b \in Seq(Int) /\ Len(b) >= 2
      /\ \A i \in DOMAIN b : b[i] \in Word \/ b[i] = CO
  BY <1>1 DEF V6Symbols
<1>3. t = <<LB>> \o b \o <<RB>>
  BY V6TextLemma
<1> HIDE DEF b, t
<1>4. /\ t \in Seq(Int) /\ Len(t) = Len(b) + 2 /\ t[1] = LB /\ t[Len(t)] = RB
      /\ Bracketed(t) /\ Inner(t) = b
  BY <1>2, <1>3, Brackets
<1>5. Len(t) >= 4
  BY <1>2, <1>4
<1>6. Ok(w).status = "ok"
  BY DEF Ok
<1>7. ParseV6(t) = Ok(w)
  BY <1>1, <1>4, <1>5, <1>6 DEF ParseV6
<1>8. ~Bracketed(b)
  <2>1. 1 \in DOMAIN b
    BY <1>2
  <2>2. b[1] # LB
    BY <1>2, <2>1 DEF Word, CO, LB
  <2> QED BY <2>2 DEF Bracketed
<1>9. ParseV6(b) = Ok(w)
  BY <1>1, <1>2, <1>8 DEF ParseV6
<1> QED BY <1>4, <1>5, <1>7, <1>9 DEF b, t, Last

\* inet_pton takes no text for a v6 address that starts with a bracket or with
\* a decimal number.
LEMMA FirstSymbolRefused ==
  ASSUME NEW t \in Seq(Int), Len(t) > 0, t[1] > 65535 \/ t[1] = LB
  PROVE  PtonV6(t) = BadFormat
<1>1. 1 \in DOMAIN t
  OBVIOUS
<1>2. \E i \in DOMAIN t : t[i] > 65535 \/ t[i] \in {LB, RB, DOT}
  BY <1>1
<1> QED BY <1>2 DEF PtonV6

\* The text of an endpoint's address, and the endpoint with another port.
AddressText(e) == IF e.type = "AF_INET" THEN V4Text(e.m_addr) ELSE V6Text(e.m_addr)
At(e, n) == [type |-> e.type, m_addr |-> e.m_addr, m_port |-> n]

\* An endpoint is of one of two kinds.
LEMMA Kinds ==
  ASSUME NEW e \in AnyEndpoint
  PROVE  /\ \/ e.type = "AF_INET" /\ e.m_addr \in V4Address
            \/ e.type = "AF_INET6" /\ e.m_addr \in V6Address
         /\ e.m_port \in Word /\ e = At(e, e.m_port)
BY DEF AnyEndpoint, At

\* The address alone: port 0.
LEMMA AddressReads ==
  ASSUME NEW e \in AnyEndpoint
  PROVE  /\ AddressText(e) \in Seq(Int)
         /\ parse(AddressText(e)) = [status |-> "ok", endpoint |-> At(e, 0)]
<1> DEFINE t == AddressText(e)
           a == e.m_addr
<1>1. CASE e.type = "AF_INET" /\ a \in V4Address
  <2>1. t = V4Text(a)
    BY <1>1 DEF AddressText
  <2>2. /\ t \in Seq(Int) /\ Len(t) = 7 /\ t[1] > 65535
        /\ (\A i \in 1 .. 7 : t[i] # CO) /\ PtonV4(t) = Ok(a)
    BY <1>1, <2>1, V4Reads
  <2> HIDE DEF t
  <2>3. PtonV6(t) = BadFormat
    <3>1. t \in Seq(Int) /\ Len(t) > 0 /\ t[1] > 65535
      BY <2>2
    <3> QED BY <3>1, FirstSymbolRefused
  <2>4. ParseV6(t).status # "ok"
    <3>1. ~(Len(t) < 2) /\ ~Bracketed(t)
      BY <2>2 DEF Bracketed, LB
    <3> QED BY <2>3, <3>1 DEF ParseV6, BadFormat
  <2>5. PtonV4(t).status = "ok"
    BY <2>2 DEF Ok
  <2>6. ParseWhole(t) = Made("AF_INET", Ok(a), 0)
    BY <2>2, <2>4, <2>5 DEF ParseWhole
  <2>7. LastColon(t) = 0
    <3>1. t \in Seq(Int) /\ \A i \in 1 .. Len(t) : t[i] # CO
      BY <2>2
    <3> QED BY <3>1, NoColon
  <2>8. parse(t) = Made("AF_INET", Ok(a), 0)
    BY <2>6, <2>7 DEF parse
  <2>9. Made("AF_INET", Ok(a), 0) = [status |-> "ok", endpoint |-> At(e, 0)]
    BY <1>1 DEF Made, Ok, At
  <2> QED BY <2>2, <2>8, <2>9 DEF t
<1>2. CASE e.type = "AF_INET6" /\ a \in V6Address
  <2>1. t = V6Text(a)
    BY <1>2 DEF AddressText
  <2>2. t \in Seq(Int) /\ Last(t) = RB /\ ParseV6(t) = Ok(a)
    BY <1>2, <2>1, V6Reads
  <2> HIDE DEF t
  <2>3. ParseV6(t).status = "ok"
    BY <2>2 DEF Ok
  <2>4. ParseWhole(t) = Made("AF_INET6", Ok(a), 0)
    BY <2>2, <2>3 DEF ParseWhole
  <2>5. parse(t) = Made("AF_INET6", Ok(a), 0)
    BY <2>2, <2>4 DEF parse
  <2>6. Made("AF_INET6", Ok(a), 0) = [status |-> "ok", endpoint |-> At(e, 0)]
    BY <1>2 DEF Made, Ok, At
  <2> QED BY <2>2, <2>5, <2>6 DEF t
<1> QED BY <1>1, <1>2, Kinds

\* The address and a number: the number is the port, or all is refused.
LEMMA NumberReads ==
  ASSUME NEW e \in AnyEndpoint, NEW n \in Nat
  PROVE  parse(AddressText(e) \o <<CO, Dec + n>>)
           = IF n <= 65535 THEN [status |-> "ok", endpoint |-> At(e, n)] ELSE BadFormat
<1> DEFINE s == AddressText(e)
           t == s \o <<CO, Dec + n>>
           a == e.m_addr
           sep == LastColon(t)
           port == stoul(SubSeq(t, sep + 1, Len(t)))
           ip == SubSeq(t, 1, sep - 1)
           r == IF Bracketed(ip) THEN ParseV6(Inner(ip)) ELSE PtonV4(ip)
           v6 == Bracketed(ip)
<1>1. s \in Seq(Int)
  BY AddressReads
<1>2. /\ t \in Seq(Int) /\ Len(t) = Len(s) + 2 /\ sep = Len(s) + 1 /\ Last(t) = Dec + n
      /\ \A i \in 1 .. Len(s) : t[i] = s[i]
      /\ ip = s /\ port = [status |-> "ok", value |-> n]
  BY <1>1, WithPort
<1>3. parse(t) =
        IF sep = 0 \/ Last(t) = RB THEN ParseWhole(t)
        ELSE IF port.status = "throws" THEN [status |-> "terminate"]
        ELSE IF PortFits(port.value) /\ r.status = "ok"
        THEN Made(IF v6 THEN "AF_INET6" ELSE "AF_INET", r, port.value)
        ELSE ParseWhole(t)
  BY DEF parse
<1> HIDE DEF sep, port, ip, r, v6, t
<1>4. sep # 0 /\ Last(t) # RB
  <2>1. Dec + n # RB
    BY DEF Dec, RB
  <2> QED BY <1>1, <1>2, <2>1
<1>5. port.status # "throws" /\ port.value = n
  BY <1>2
<1>6. /\ r = Ok(a) /\ (IF v6 THEN "AF_INET6" ELSE "AF_INET") = e.type
      /\ Len(s) >= 4 /\ (s[1] > 65535 \/ s[1] = LB) /\ (Len(s) = 7 \/ s[1] = LB)
  <2>1. CASE e.type = "AF_INET" /\ a \in V4Address
    <3>1. s = V4Text(a)
      BY <2>1 DEF AddressText
    <3>2. Len(s) = 7 /\ s[1] > 65535 /\ PtonV4(s) = Ok(a)
      BY <2>1, <3>1, V4Reads
    <3>3. ~Bracketed(s)
      <4> HIDE DEF s
      <4> QED BY <3>2 DEF Bracketed, LB
    <3> QED BY <1>2, <2>1, <3>2, <3>3 DEF r, v6
  <2>2. CASE e.type = "AF_INET6" /\ a \in V6Address
    <3>1. s = V6Text(a)
      BY <2>2 DEF AddressText
    <3>2. Len(s) >= 4 /\ s[1] = LB /\ Bracketed(s) /\ ParseV6(Inner(s)) = Ok(a)
      BY <2>2, <3>1, V6Reads
    <3> QED BY <1>2, <2>2, <3>2 DEF r, v6
  <2> QED BY <2>1, <2>2, Kinds
<1> HIDE DEF s
<1>7. CASE n <= 65535
  <2>1. PortFits(port.value) /\ r.status = "ok"
    BY <1>5, <1>6, <1>7 DEF PortFits, Ok
  <2>2. parse(t) = Made(e.type, Ok(a), n)
    BY <1>3, <1>4, <1>5, <1>6, <2>1
  <2>3. n % 65536 = n
    BY <1>7
  <2>4. Made(e.type, Ok(a), n) = [status |-> "ok", endpoint |-> At(e, n)]
    BY <2>3 DEF Made, Ok, At
  <2> QED BY <1>7, <2>2, <2>4 DEF t, s
<1>8. CASE ~(n <= 65535)
  <2>1. ~PortFits(port.value)
    BY <1>5, <1>8 DEF PortFits
  <2>2. parse(t) = ParseWhole(t)
    BY <1>3, <1>4, <1>5, <2>1
  <2>3. t[1] = s[1] /\ Len(t) > 0 /\ ~(Len(t) < 2) /\ Len(t) = Len(s) + 2
    <3>1. 1 \in 1 .. Len(s)
      BY <1>1, <1>6
    <3>2. t[1] = s[1] /\ Len(t) = Len(s) + 2
      BY <1>2, <3>1
    <3>3. Len(s) \in Nat /\ Len(s) >= 4
      BY <1>1, <1>6
    <3>4. Len(s) + 2 > 0 /\ ~(Len(s) + 2 < 2)
      BY <3>3
    <3> QED BY <3>2, <3>4
  <2>4. PtonV6(t) = BadFormat
    BY <1>2, <1>6, <2>3, FirstSymbolRefused
  <2>5. ~Bracketed(t)
    BY <1>4 DEF Bracketed
  <2>6. ParseV6(t).status # "ok"
    BY <2>3, <2>4, <2>5 DEF ParseV6, BadFormat
  <2>7. PtonV4(t) = BadFormat
    <3>1. CASE Len(s) = 7
      BY <1>1, <2>3, <3>1 DEF PtonV4
    <3>2. CASE s[1] = LB
      <4>1. 1 \in DOMAIN t /\ 1 % 2 = 1 /\ ~(t[1] >= 0)
        BY <1>2, <2>3, <3>2 DEF LB
      <4>2. ~Alternates(t, DOT)
        BY <4>1 DEF Alternates
      <4> QED BY <4>2 DEF PtonV4
    <3> QED BY <1>6, <3>1, <3>2
  <2>8. ParseWhole(t) = BadFormat
    BY <2>6, <2>7 DEF ParseWhole, BadFormat
  <2> QED BY <1>8, <2>2, <2>8 DEF t, s
<1> QED BY <1>7, <1>8
\* A v6 address without brackets, which parse first takes for an address and
\* a port.
LEMMA BareReads ==
  ASSUME NEW w \in V6Address
  PROVE  LET bare == Inner(V6Text(w)) IN
         IF Last(bare) = CO \/ Lead(Last(bare)) >= 10
         THEN parse(bare).status = "terminate"
         ELSE parse(bare) = [status |-> "ok",
                             endpoint |-> [type |-> "AF_INET6", m_addr |-> w, m_port |-> 0]]
<1> DEFINE b == Inner(V6Text(w))
           n == Len(b)
           sep == LastColon(b)
           port == stoul(SubSeq(b, sep + 1, Len(b)))
           ip == SubSeq(b, 1, sep - 1)
           r == IF Bracketed(ip) THEN ParseV6(Inner(ip)) ELSE PtonV4(ip)
           v6 == Bracketed(ip)
<1>1. ParseV6(b) = Ok(w) /\ V6Symbols(b)
  BY V6Reads, BodyReads
<1> HIDE DEF b
<1>2. /\ b \in Seq(Int) /\ n \in Nat /\ n >= 2
      /\ (b[n] = CO \/ b[n - 1] = CO)
  BY <1>1 DEF V6Symbols
<1>3. \A i \in 1 .. n : b[i] \in Word \/ b[i] = CO
  <2>1. DOMAIN b = 1 .. n
    BY <1>2
  <2> QED BY <1>1, <2>1 DEF V6Symbols
<1>4. Last(b) = b[n] /\ Last(b) # RB
  <2>1. n \in 1 .. n
    BY <1>2
  <2> QED BY <1>3, <2>1 DEF Last, Word, CO, RB
<1>5. parse(b) =
        IF sep = 0 \/ Last(b) = RB THEN ParseWhole(b)
        ELSE IF port.status = "throws" THEN [status |-> "terminate"]
        ELSE IF PortFits(port.value) /\ r.status = "ok"
        THEN Made(IF v6 THEN "AF_INET6" ELSE "AF_INET", r, port.value)
        ELSE ParseWhole(b)
  BY DEF parse
<1> HIDE DEF n, port, ip, r, v6
<1>6. CASE b[n] = CO
  <2>1. sep = n
    <3>1. n \in 1 .. Len(b) /\ \A i \in 1 .. Len(b) : i > n => b[i] # CO
      BY <1>2 DEF n
    <3> QED BY <1>2, <1>6, <3>1, LastColonIs
  <2> HIDE DEF sep
  <2>2. SubSeq(b, sep + 1, Len(b)) = <<>>
    <3>1. sep + 1 \in Int /\ Len(b) \in Int /\ Len(b) < sep + 1
      BY <1>2, <2>1 DEF n
    <3> QED BY <3>1, SubSeqEmpty
  <2>3. port.status = "throws"
    BY <2>2 DEF port, stoul
  <2>4. sep # 0
    BY <1>2, <2>1
  <2>5. parse(b) = [status |-> "terminate"]
    BY <1>4, <1>5, <2>3, <2>4
  <2> QED BY <1>4, <1>6, <2>5 DEF b
<1>7. CASE b[n] # CO
  <2>1. n \in 1 .. n /\ n - 1 \in 1 .. n
    BY <1>2
  <2>2. b[n - 1] = CO /\ b[n] \in Word
    BY <1>2, <1>3, <1>7, <2>1
  <2>3. sep = n - 1
    <3>1. \A i \in 1 .. n : i > n - 1 => i = n
      BY <1>2
    <3>2. n - 1 \in 1 .. Len(b) /\ \A i \in 1 .. Len(b) : i > n - 1 => b[i] # CO
      BY <1>7, <2>1, <3>1 DEF n
    <3> QED BY <1>2, <2>2, <3>2, LastColonIs
  <2> HIDE DEF sep
  <2> DEFINE u == SubSeq(b, sep + 1, Len(b))
  <2>4. u # <<>> /\ u[1] = b[n]
    <3>1. sep + 1 = n /\ Len(b) = n
      BY <1>2, <2>3 DEF n
    <3>2. Len(SubSeq(b, n, n)) = 1 /\ SubSeq(b, n, n)[1] = b[n]
      BY <1>2, <2>1
    <3>3. SubSeq(b, n, n) # <<>>
      <4>1. Len(SubSeq(b, n, n)) # Len(<<>>)
        BY <3>2
      <4> QED BY <4>1
    <3> QED BY <3>1, <3>2, <3>3
  <2> HIDE DEF u
  <2>5. ~(u[1] < 0) /\ ~(u[1] >= Dec)
    BY <2>2, <2>4 DEF Word, Dec
  <2>6. port = stoul(u)
    BY DEF port, u
  <2>7. sep # 0
    BY <1>2, <2>3
  <2>8. CASE Lead(b[n]) >= 10
    <3>1. port.status = "throws"
      BY <2>4, <2>5, <2>6, <2>8 DEF stoul
    <3>2. parse(b) = [status |-> "terminate"]
      BY <1>4, <1>5, <2>7, <3>1
    <3> QED BY <1>4, <2>8, <3>2 DEF b
  <2>9. CASE ~(Lead(b[n]) >= 10)
    <3>1. port = [status |-> "ok", value |-> Lead(u[1])]
      BY <2>4, <2>5, <2>6, <2>9 DEF stoul
    <3>2. ip \in Seq(Int) /\ \A i \in 1 .. Len(ip) : ip[i] \in Word \/ ip[i] = CO
      <4> DEFINE k == sep - 1
      <4>1. k \in Nat /\ k <= n /\ k <= Len(b)
        BY <1>2, <2>3 DEF n
      <4> HIDE DEF k
      <4>2. SubSeq(b, 1, k) \in Seq(Int) /\ Len(SubSeq(b, 1, k)) = k
        BY <1>2, <4>1
      <4>3. ASSUME NEW i \in 1 .. k PROVE SubSeq(b, 1, k)[i] = b[i]
        <5> DEFINE o == 1
        <5>1. o + i - 1 = i /\ o \in Nat /\ o > 0 /\ i \in 1 .. k - o + 1
          BY <4>1
        <5> HIDE DEF o
        <5>2. SubSeq(b, o, k)[i] = b[o + i - 1]
          BY <1>2, <4>1, <5>1
        <5> QED BY <5>1, <5>2 DEF o
      <4>4. \A i \in 1 .. k : i \in 1 .. n
        BY <1>2, <4>1
      <4> QED BY <1>3, <4>2, <4>3, <4>4 DEF ip, k
    <3>3. ~Bracketed(ip)
      <4> SUFFICES ASSUME Len(ip) > 0 PROVE ip[1] # LB
        BY DEF Bracketed
      <4>1. 1 \in 1 .. Len(ip)
        BY <3>2
      <4> QED BY <3>2, <4>1 DEF Word, CO, LB
    <3>4. PtonV4(ip) = BadFormat
      <4>1. Len(ip) = 7 => ~(Dec <= ip[1])
        <5> SUFFICES ASSUME Len(ip) = 7 PROVE ~(Dec <= ip[1])
          OBVIOUS
        <5>1. 1 \in 1 .. Len(ip)
          OBVIOUS
        <5> QED BY <3>2, <5>1 DEF Word, CO, Dec
      <4> QED BY <4>1 DEF PtonV4
    <3>5. r.status # "ok"
      BY <3>3, <3>4 DEF r, BadFormat
    <3>6. parse(b) = ParseWhole(b)
      BY <1>4, <1>5, <2>7, <3>1, <3>5
    <3>7. ParseV6(b).status = "ok"
      BY <1>1 DEF Ok
    <3>8. ParseWhole(b) = Made("AF_INET6", Ok(w), 0)
      BY <1>1, <3>7 DEF ParseWhole
    <3>9. Made("AF_INET6", Ok(w), 0) =
            [status |-> "ok", endpoint |-> [type |-> "AF_INET6", m_addr |-> w, m_port |-> 0]]
      BY DEF Made, Ok
    <3> QED BY <1>4, <1>7, <2>9, <3>6, <3>8, <3>9 DEF b
  <2> QED BY <2>8, <2>9
<1> QED BY <1>6, <1>7
-----------------------------------------------------------------------------
(* The texts and the memory a program can meet.                            *)

\* What the storage holds was filled from an endpoint.
StorageInv ==
  \/ storage = [ss_family |-> "none"]
  \/ \E e \in AnyEndpoint : storage = FillStorage(e)

\* A text is what to_string has written, or an address with a number after it.
TextInv ==
  \/ text = <<>> /\ number = None
  \/ \E e \in AnyEndpoint : text = to_string(e) /\ number = None
  \/ \E e \in AnyEndpoint :
       number \in Nat /\ text = AddressText(e) \o <<CO, Dec + number>>

AddressInv == endpoint \in AnyEndpoint /\ StorageInv /\ TextInv

\* What the constructors make is an endpoint, and so it is with another port.
LEMMA EndpointsAreAny ==
  /\ Endpoints \subseteq AnyEndpoint
  /\ NewAddresses \subseteq AnyEndpoint
  /\ Ports \subseteq Word
<1>1. /\ V4Addresses \subseteq V4Address /\ V6Addresses \subseteq V6Address
      /\ Ports \subseteq Word /\ NewAddresses \subseteq Endpoints
  BY AddressAssumption DEF V4Address, V6Address, Byte, Word
<1> QED BY <1>1 DEF Endpoints, AnyEndpoint

\* An endpoint with another port.
LEMMA Renumbered ==
  ASSUME NEW e \in AnyEndpoint, NEW n \in Word
  PROVE  [e EXCEPT !.m_port = n] = At(e, n) /\ At(e, n) \in AnyEndpoint
BY DEF AnyEndpoint, At

\* to_string of an endpoint with port 0 is the text of its address.
LEMMA NoPortText ==
  ASSUME NEW e \in AnyEndpoint, e.m_port = 0
  PROVE  to_string(e) = AddressText(e)
<1>1. AddressText(e) \in Seq(Int)
  BY AddressReads
<1>2. to_string(e) = AddressText(e) \o <<>>
  BY DEF to_string, AddressText
<1> HIDE DEF AddressText
<1> QED BY <1>1, <1>2, ConcatEmptySeq

\* parse reads what to_string writes.
LEMMA ToStringReads ==
  ASSUME NEW e \in AnyEndpoint
  PROVE  parse(to_string(e)) = [status |-> "ok", endpoint |-> e]
<1>1. e.m_port \in Word /\ e = At(e, e.m_port)
  BY Kinds
<1>2. CASE e.m_port = 0
  BY <1>1, <1>2, NoPortText, AddressReads
<1>3. CASE e.m_port # 0
  <2>1. to_string(e) = AddressText(e) \o <<CO, Dec + e.m_port>>
    BY <1>3 DEF to_string, AddressText
  <2>2. e.m_port \in Nat /\ e.m_port <= 65535
    BY <1>1 DEF Word
  <2>3. parse(to_string(e)) = [status |-> "ok", endpoint |-> At(e, e.m_port)]
    BY <2>1, <2>2, NumberReads
  <2> QED BY <1>1, <2>3
<1> QED BY <1>2, <1>3

\* What parse makes of the text a program has is an endpoint.
LEMMA ParsedIsEndpoint ==
  ASSUME TextInv, text # <<>>, parse(text).status = "ok"
  PROVE  parse(text).endpoint \in AnyEndpoint
<1>1. CASE \E e \in AnyEndpoint : text = to_string(e) /\ number = None
  BY <1>1, ToStringReads
<1>2. CASE \E e \in AnyEndpoint :
             number \in Nat /\ text = AddressText(e) \o <<CO, Dec + number>>
  <2>1. PICK e \in AnyEndpoint :
          number \in Nat /\ text = AddressText(e) \o <<CO, Dec + number>>
    BY <1>2
  <2>2. parse(text) = IF number <= 65535
                      THEN [status |-> "ok", endpoint |-> At(e, number)] ELSE BadFormat
    BY <2>1, NumberReads
  <2>3. BadFormat.status # "ok"
    BY DEF BadFormat
  <2>4. number <= 65535
    BY <2>2, <2>3
  <2>5. number \in Word
    BY <2>1, <2>4 DEF Word
  <2>6. parse(text).endpoint = At(e, number)
    BY <2>2, <2>4
  <2> QED BY <2>5, <2>6, Renumbered
<1> QED BY <1>1, <1>2 DEF TextInv

\* Where every program starts.
LEMMA AddressInitHolds == AddressInit => AddressInv
BY EndpointsAreAny DEF AddressInit, AddressInv, StorageInv, TextInv

\* Every call leaves an endpoint, a filled storage and a readable text.
LEMMA AddressStep == AddressInv /\ [AddressNext]_addressVars => AddressInv'
<1> SUFFICES ASSUME AddressInv, [AddressNext]_addressVars PROVE AddressInv'
  OBVIOUS
<1>1. endpoint \in AnyEndpoint /\ StorageInv /\ TextInv
  BY DEF AddressInv
<1>2. UNCHANGED storage => StorageInv'
  BY <1>1 DEF StorageInv
<1>3. UNCHANGED <<text, number>> => TextInv'
  BY <1>1 DEF TextInv
<1>4. ASSUME NEW a \in NewAddresses, set_address(a) PROVE AddressInv'
  <2>1. a \in AnyEndpoint /\ endpoint.m_port \in Word
    BY <1>1, EndpointsAreAny, Kinds
  <2>2. endpoint' \in AnyEndpoint
    BY <1>4, <2>1, Renumbered DEF set_address
  <2> QED BY <1>2, <1>3, <1>4, <2>2 DEF set_address, AddressInv
<1>5. ASSUME NEW p \in Ports, set_port(p) PROVE AddressInv'
  <2>1. endpoint' \in AnyEndpoint
    BY <1>1, <1>5, EndpointsAreAny, Renumbered DEF set_port
  <2> QED BY <1>2, <1>3, <1>5, <2>1 DEF set_port, AddressInv
<1>6. CASE fill
  <2>1. StorageInv'
    BY <1>1, <1>6 DEF fill, StorageInv
  <2> QED BY <1>1, <1>3, <1>6, <2>1 DEF fill, AddressInv
<1>7. CASE FromSockaddr
  <2>1. PICK e \in AnyEndpoint : storage = FillStorage(e)
    <3>1. [ss_family |-> "none"].ss_family = "none"
      OBVIOUS
    <3> QED BY <1>1, <1>7, <3>1 DEF StorageInv, FromSockaddr
  <2>2. endpoint' \in AnyEndpoint
    BY <1>7, <2>1, SockaddrLemma DEF FromSockaddr
  <2> QED BY <1>2, <1>3, <1>7, <2>2 DEF FromSockaddr, AddressInv
<1>8. CASE GetText
  <2>1. TextInv'
    BY <1>1, <1>8 DEF GetText, TextInv
  <2> QED BY <1>1, <1>2, <1>8, <2>1 DEF GetText, AddressInv
<1>9. CASE ParseText
  <2>1. endpoint' \in AnyEndpoint
    BY <1>1, <1>9, ParsedIsEndpoint DEF ParseText
  <2> QED BY <1>2, <1>3, <1>9, <2>1 DEF ParseText, AddressInv
<1>10. ASSUME NEW n \in Numbers, AppendNumber(n) PROVE AddressInv'
  <2>1. n \in Nat /\ number' = n /\ text' = to_string(endpoint) \o <<CO, Dec + n>>
    BY <1>10, AddressAssumption DEF AppendNumber
  <2>2. to_string(endpoint) = AddressText(endpoint)
    BY <1>1, <1>10, NoPortText DEF AppendNumber
  <2>3. TextInv'
    BY <1>1, <2>1, <2>2 DEF TextInv
  <2> QED BY <1>1, <1>2, <1>10, <2>3 DEF AppendNumber, AddressInv
<1>11. CASE UNCHANGED addressVars
  BY <1>1, <1>2, <1>3, <1>11 DEF addressVars, AddressInv
<1> QED BY <1>4, <1>5, <1>6, <1>7, <1>8, <1>9, <1>10, <1>11 DEF AddressNext

\* The endpoint is always one of either kind, the storage one that was filled,
\* and the text one that was written.
THEOREM AddressInvariant == AddressSpec => []AddressInv
BY AddressInitHolds, AddressStep, PTL DEF AddressSpec

-----------------------------------------------------------------------------
(* The properties of the runs, for every address, port and number.         *)

\* endpoint::parse reads what endpoint::to_string writes.
THEOREM ReadsBackHolds == AddressSpec => []EndpointReadsBack
<1>1. AddressInv => EndpointReadsBack
  BY ToStringReads DEF AddressInv, EndpointReadsBack
<1> QED BY <1>1, AddressInvariant, PTL

\* v6::to_string leaves out the first of the longest runs of zeros, and only it.
THEOREM CanonicalHolds == AddressSpec => []CanonicalV6Text
<1>1. AddressInv => CanonicalV6Text
  <2> SUFFICES ASSUME AddressInv, endpoint.type = "AF_INET6" PROVE CanonicalV6Text
    BY DEF CanonicalV6Text
  <2>1. endpoint.m_addr \in V6Address
    BY Kinds DEF AddressInv
  <2> QED BY <2>1, CanonicalLemma DEF CanonicalV6Text, RunsOf, BestRun
<1> QED BY <1>1, AddressInvariant, PTL

\* endpoint::fill writes network order, and the constructor reads it.
THEOREM NetworkOrderHolds == AddressSpec => []SockaddrInNetworkOrder
<1>1. AddressInv => SockaddrInNetworkOrder
  BY SockaddrLemma DEF AddressInv, SockaddrInNetworkOrder
<1> QED BY <1>1, AddressInvariant, PTL

\* A number after an address is its port, or the text is refused.
THEOREM NoPortIsCutHolds == AddressSpec => []NoPortIsCut
<1>1. AddressInv => NoPortIsCut
  <2> SUFFICES ASSUME AddressInv, number # None PROVE NoPortIsCut
    BY DEF NoPortIsCut
  <2>1. PICK e \in AnyEndpoint :
          number \in Nat /\ text = AddressText(e) \o <<CO, Dec + number>>
    BY DEF AddressInv, TextInv
  <2>2. parse(text) = IF number <= 65535
                      THEN [status |-> "ok", endpoint |-> At(e, number)] ELSE BadFormat
    BY <2>1, NumberReads
  <2> QED BY <2>2 DEF NoPortIsCut, At
<1> QED BY <1>1, AddressInvariant, PTL

\* A v6 address without brackets is read with port 0, or parse throws.
THEOREM BareV6Holds == AddressSpec => []BareV6Text
<1>1. AddressInv => BareV6Text
  <2> SUFFICES ASSUME AddressInv, endpoint.type = "AF_INET6" PROVE BareV6Text
    BY DEF BareV6Text
  <2>1. endpoint \in AnyEndpoint /\ endpoint.m_addr \in V6Address /\ 0 \in Word
    BY Kinds DEF AddressInv, Word
  <2>2. [endpoint EXCEPT !.m_port = 0] =
          [type |-> "AF_INET6", m_addr |-> endpoint.m_addr, m_port |-> 0]
    BY <2>1, Renumbered DEF At
  <2> QED BY <2>1, <2>2, BareReads DEF BareV6Text
<1> QED BY <1>1, AddressInvariant, PTL
=============================================================================
