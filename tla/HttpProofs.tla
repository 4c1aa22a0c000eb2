----------------------------- MODULE HttpProofs -----------------------------
(***************************************************************************)
(* What request::create and response::create read of a message that was    *)
(* serialised or received, for every message the program can build.        *)
(*                                                                         *)
(* The loops of the code are recursive functions.  Each has a lemma that   *)
(* gives its values turn by turn (FlattenLoop, CutLoop, ...); what it      *)
(* computes is proved by induction over the turns, which rests on          *)
(* LeastNat: a set of natural numbers has a least element.                 *)
(***************************************************************************)
EXTENDS HttpMessages, SequenceTheorems, FiniteSetTheorems, WellFoundedInduction, TLAPS

Text == Seq(Nat)

-----------------------------------------------------------------------------
(* Induction, and sequences.                                               *)

\* A set of natural numbers has a least element.
LEMMA LeastNat ==
  ASSUME NEW T \in SUBSET Nat, T # {}
  PROVE  \E n \in T : \A m \in T : n <= m
<1> DEFINE R == {ss \in Nat \X Nat : ss[1] < ss[2]}
<1>1. IsWellFoundedOn(R, Nat)
  BY NatLessThanWellFounded DEF OpToRel
<1> HIDE DEF R
<1>2. PICK n \in T : \A m \in T : ~(<<m, n>> \in R)
  BY <1>1, WFMin
<1>3. \A m \in T : ~(m < n)
  BY <1>2 DEF R
<1> QED BY <1>3

\* What 0 has, and n + 1 has when n has it, every natural number has.
LEMMA NatSet ==
  ASSUME NEW S, 0 \in S, \A n \in Nat : n \in S => n + 1 \in S
  PROVE  Nat \subseteq S
<1> SUFFICES ASSUME NEW k \in Nat, k \notin S PROVE FALSE
  OBVIOUS
<1> DEFINE T == {n \in Nat : n \notin S}
<1>1. PICK n \in T : \A m \in T : n <= m
  BY LeastNat
<1>2. n # 0 /\ n - 1 \in Nat /\ n - 1 \in S
  BY <1>1
<1> QED BY <1>2

\* A function on 1 .. n is a sequence of length n.
LEMMA Listed ==
  ASSUME NEW S, NEW n \in Nat, NEW f \in [1 .. n -> S]
  PROVE  f \in Seq(S) /\ Len(f) = n
<1>1. f \in Seq(S)
  BY SeqDef
<1>2. DOMAIN f = 1 .. Len(f) /\ Len(f) \in Nat /\ DOMAIN f = 1 .. n
  BY <1>1, LenProperties
<1> QED BY <1>1, <1>2

\* The least element of a set.
LEMMA MinIs ==
  ASSUME NEW T \in SUBSET Nat, NEW m \in T, \A k \in T : m <= k
  PROVE  Min(T) = m
<1>1. \A x \in T : (\A y \in T : x =< y) => x = m
  OBVIOUS
<1> QED BY <1>1 DEF Min

-----------------------------------------------------------------------------
(* The loops, turn by turn.                                                *)

\* The turns of Pieces.
LEMMA CutLoop ==
  ASSUME NEW s, NEW c, Len(s) \in Nat
  PROVE  \E z : /\ Pieces(s, c) = z[Len(s)].pieces
                /\ z[0] = [left |-> s, pieces |-> <<>>]
                /\ \A i \in 1 .. Len(s) : z[i] = CutOne(z[i - 1], c)
<1> DEFINE start == [left |-> s, pieces |-> <<>>]
           Step(x, i) == CutOne(x, c)
           Turn(f, i) == IF i = 0 THEN start ELSE Step(f[i - 1], i)
           Table(f, n) == f = [i \in 0 .. n |-> Turn(f, i)]
           S == {n \in Nat : \E f : Table(f, n)}
           z == CHOOSE f : Table(f, Len(s))
<1>1. Pieces(s, c) = z[Len(s)].pieces
  BY DEF Pieces
<1> HIDE DEF start, Step
<1>2. 0 \in S
  <2>1. Table([i \in 0 .. 0 |-> start], 0)
    OBVIOUS
  <2> QED BY <2>1
<1>3. ASSUME NEW n \in Nat, n \in S PROVE n + 1 \in S
  <2>1. PICK f : Table(f, n)
    BY <1>3
  <2> DEFINE g == [i \in 0 .. n + 1 |-> IF i = n + 1 THEN Turn(f, n + 1) ELSE f[i]]
  <2>2. ASSUME NEW i \in 0 .. n + 1 PROVE g[i] = Turn(g, i)
    <3>1. i # 0 => i - 1 \in 0 .. n + 1 /\ g[i - 1] = f[i - 1]
      OBVIOUS
    <3>2. Turn(g, i) = Turn(f, i)
      BY <3>1
    <3>3. i # n + 1 => f[i] = Turn(f, i)
      BY <2>1
    <3> QED BY <3>2, <3>3
  <2>3. g = [i \in 0 .. n + 1 |-> g[i]]
    OBVIOUS
  <2> HIDE DEF g
  <2>4. Table(g, n + 1)
    BY <2>2, <2>3
  <2> QED BY <2>4
<1>4. \E f : Table(f, Len(s))
  <2>1. Nat \subseteq S
    BY <1>2, <1>3, NatSet
  <2> QED BY <2>1
<1>5. Table(z, Len(s))
  BY <1>4
<1> HIDE DEF z
<1>6. z[0] = start /\ \A i \in 1 .. Len(s) : z[i] = Step(z[i - 1], i)
  BY <1>5
<1> QED BY <1>1, <1>6 DEF start, Step

\* The turns of url_decode.
LEMMA DecodeLoop ==
  ASSUME NEW url, Len(url) \in Nat
  PROVE  \E z : /\ url_decode(url) = z[Len(url)].result
                /\ z[0] = [it |-> 1, result |-> <<>>]
                /\ \A i \in 1 .. Len(url) : z[i] = DecodeOne(url, z[i - 1])
<1> DEFINE start == [it |-> 1, result |-> <<>>]
           Step(x, i) == DecodeOne(url, x)
           Turn(f, i) == IF i = 0 THEN start ELSE Step(f[i - 1], i)
           Table(f, n) == f = [i \in 0 .. n |-> Turn(f, i)]
           S == {n \in Nat : \E f : Table(f, n)}
           z == CHOOSE f : Table(f, Len(url))
<1>1. url_decode(url) = z[Len(url)].result
  BY DEF url_decode
<1> HIDE DEF start, Step
<1>2. 0 \in S
  <2>1. Table([i \in 0 .. 0 |-> start], 0)
    OBVIOUS
  <2> QED BY <2>1
<1>3. ASSUME NEW n \in Nat, n \in S PROVE n + 1 \in S
  <2>1. PICK f : Table(f, n)
    BY <1>3
  <2> DEFINE g == [i \in 0 .. n + 1 |-> IF i = n + 1 THEN Turn(f, n + 1) ELSE f[i]]
  <2>2. ASSUME NEW i \in 0 .. n + 1 PROVE g[i] = Turn(g, i)
    <3>1. i # 0 => i - 1 \in 0 .. n + 1 /\ g[i - 1] = f[i - 1]
      OBVIOUS
    <3>2. Turn(g, i) = Turn(f, i)
      BY <3>1
    <3>3. i # n + 1 => f[i] = Turn(f, i)
      BY <2>1
    <3> QED BY <3>2, <3>3
  <2>3. g = [i \in 0 .. n + 1 |-> g[i]]
    OBVIOUS
  <2> HIDE DEF g
  <2>4. Table(g, n + 1)
    BY <2>2, <2>3
  <2> QED BY <2>4
<1>4. \E f : Table(f, Len(url))
  <2>1. Nat \subseteq S
    BY <1>2, <1>3, NatSet
  <2> QED BY <2>1
<1>5. Table(z, Len(url))
  BY <1>4
<1> HIDE DEF z
<1>6. z[0] = start /\ \A i \in 1 .. Len(url) : z[i] = Step(z[i - 1], i)
  BY <1>5
<1> QED BY <1>1, <1>6 DEF start, Step

\* The turns of header_map::get.
LEMMA GetLoop ==
  ASSUME NEW map, NEW key, Len(map) \in Nat
  PROVE  \E z : /\ get(map, key) = z[Len(map)]
                /\ z[0] = <<>>
                /\ \A i \in 1 .. Len(map) : z[i] = IF map[i].key = key THEN Append(z[i - 1], map[i].value) ELSE z[i - 1]
<1> DEFINE start == <<>>
           Step(x, i) == IF map[i].key = key THEN Append(x, map[i].value) ELSE x
           Turn(f, i) == IF i = 0 THEN start ELSE Step(f[i - 1], i)
           Table(f, n) == f = [i \in 0 .. n |-> Turn(f, i)]
           S == {n \in Nat : \E f : Table(f, n)}
           z == CHOOSE f : Table(f, Len(map))
<1>1. get(map, key) = z[Len(map)]
  BY DEF get
<1> HIDE DEF start, Step
<1>2. 0 \in S
  <2>1. Table([i \in 0 .. 0 |-> start], 0)
    OBVIOUS
  <2> QED BY <2>1
<1>3. ASSUME NEW n \in Nat, n \in S PROVE n + 1 \in S
  <2>1. PICK f : Table(f, n)
    BY <1>3
  <2> DEFINE g == [i \in 0 .. n + 1 |-> IF i = n + 1 THEN Turn(f, n + 1) ELSE f[i]]
  <2>2. ASSUME NEW i \in 0 .. n + 1 PROVE g[i] = Turn(g, i)
    <3>1. i # 0 => i - 1 \in 0 .. n + 1 /\ g[i - 1] = f[i - 1]
      OBVIOUS
    <3>2. Turn(g, i) = Turn(f, i)
      BY <3>1
    <3>3. i # n + 1 => f[i] = Turn(f, i)
      BY <2>1
    <3> QED BY <3>2, <3>3
  <2>3. g = [i \in 0 .. n + 1 |-> g[i]]
    OBVIOUS
  <2> HIDE DEF g
  <2>4. Table(g, n + 1)
    BY <2>2, <2>3
  <2> QED BY <2>4
<1>4. \E f : Table(f, Len(map))
  <2>1. Nat \subseteq S
    BY <1>2, <1>3, NatSet
  <2> QED BY <2>1
<1>5. Table(z, Len(map))
  BY <1>4
<1> HIDE DEF z
<1>6. z[0] = start /\ \A i \in 1 .. Len(map) : z[i] = Step(z[i - 1], i)
  BY <1>5
<1> QED BY <1>1, <1>6 DEF start, Step

\* The turns of header_map::create.
LEMMA HeadersLoop ==
  ASSUME NEW text, NEW lines, lines = Pieces(text, LINE_END), Len(lines) \in Nat
  PROVE  \E z : /\ CreateHeaders(text) = z[Len(lines)]
                /\ z[0] = [status |-> "ok", map |-> <<>>]
                /\ \A i \in 1 .. Len(lines) : z[i] = AddLine(z[i - 1], lines[i])
<1> DEFINE start == [status |-> "ok", map |-> <<>>]
           Step(x, i) == AddLine(x, lines[i])
           Turn(f, i) == IF i = 0 THEN start ELSE Step(f[i - 1], i)
           Table(f, n) == f = [i \in 0 .. n |-> Turn(f, i)]
           S == {n \in Nat : \E f : Table(f, n)}
           z == CHOOSE f : Table(f, Len(lines))
<1>1. CreateHeaders(text) = z[Len(lines)]
  BY DEF CreateHeaders
<1> HIDE DEF start, Step
<1>2. 0 \in S
  <2>1. Table([i \in 0 .. 0 |-> start], 0)
    OBVIOUS
  <2> QED BY <2>1
<1>3. ASSUME NEW n \in Nat, n \in S PROVE n + 1 \in S
  <2>1. PICK f : Table(f, n)
    BY <1>3
  <2> DEFINE g == [i \in 0 .. n + 1 |-> IF i = n + 1 THEN Turn(f, n + 1) ELSE f[i]]
  <2>2. ASSUME NEW i \in 0 .. n + 1 PROVE g[i] = Turn(g, i)
    <3>1. i # 0 => i - 1 \in 0 .. n + 1 /\ g[i - 1] = f[i - 1]
      OBVIOUS
    <3>2. Turn(g, i) = Turn(f, i)
      BY <3>1
    <3>3. i # n + 1 => f[i] = Turn(f, i)
      BY <2>1
    <3> QED BY <3>2, <3>3
  <2>3. g = [i \in 0 .. n + 1 |-> g[i]]
    OBVIOUS
  <2> HIDE DEF g
  <2>4. Table(g, n + 1)
    BY <2>2, <2>3
  <2> QED BY <2>4
<1>4. \E f : Table(f, Len(lines))
  <2>1. Nat \subseteq S
    BY <1>2, <1>3, NatSet
  <2> QED BY <2>1
<1>5. Table(z, Len(lines))
  BY <1>4
<1> HIDE DEF z
<1>6. z[0] = start /\ \A i \in 1 .. Len(lines) : z[i] = Step(z[i - 1], i)
  BY <1>5
<1> QED BY <1>1, <1>6 DEF start, Step

\* The turns of the loop over the query.
LEMMA QueryLoop ==
  ASSUME NEW args, NEW pieces, pieces = Pieces(args, AMP), Len(pieces) \in Nat
  PROVE  \E z : /\ ParseQuery(args) = z[Len(pieces)]
                /\ z[0] = <<>>
                /\ \A i \in 1 .. Len(pieces) : z[i] = AddParameter(z[i - 1], pieces[i])
<1> DEFINE start == <<>>
           Step(x, i) == AddParameter(x, pieces[i])
           Turn(f, i) == IF i = 0 THEN start ELSE Step(f[i - 1], i)
           Table(f, n) == f = [i \in 0 .. n |-> Turn(f, i)]
           S == {n \in Nat : \E f : Table(f, n)}
           z == CHOOSE f : Table(f, Len(pieces))
<1>1. ParseQuery(args) = z[Len(pieces)]
  BY DEF ParseQuery
<1> HIDE DEF start, Step
<1>2. 0 \in S
  <2>1. Table([i \in 0 .. 0 |-> start], 0)
    OBVIOUS
  <2> QED BY <2>1
<1>3. ASSUME NEW n \in Nat, n \in S PROVE n + 1 \in S
  <2>1. PICK f : Table(f, n)
    BY <1>3
  <2> DEFINE g == [i \in 0 .. n + 1 |-> IF i = n + 1 THEN Turn(f, n + 1) ELSE f[i]]
  <2>2. ASSUME NEW i \in 0 .. n + 1 PROVE g[i] = Turn(g, i)
    <3>1. i # 0 => i - 1 \in 0 .. n + 1 /\ g[i - 1] = f[i - 1]
      OBVIOUS
    <3>2. Turn(g, i) = Turn(f, i)
      BY <3>1
    <3>3. i # n + 1 => f[i] = Turn(f, i)
      BY <2>1
    <3> QED BY <3>2, <3>3
  <2>3. g = [i \in 0 .. n + 1 |-> g[i]]
    OBVIOUS
  <2> HIDE DEF g
  <2>4. Table(g, n + 1)
    BY <2>2, <2>3
  <2> QED BY <2>4
<1>4. \E f : Table(f, Len(pieces))
  <2>1. Nat \subseteq S
    BY <1>2, <1>3, NatSet
  <2> QED BY <2>1
<1>5. Table(z, Len(pieces))
  BY <1>4
<1> HIDE DEF z
<1>6. z[0] = start /\ \A i \in 1 .. Len(pieces) : z[i] = Step(z[i - 1], i)
  BY <1>5
<1> QED BY <1>1, <1>6 DEF start, Step

\* The turns of FlattenSeq.
LEMMA FlattenLoop ==
  ASSUME NEW seqs, Len(seqs) \in Nat \ {0}
  PROVE  \E z : /\ FlattenSeq(seqs) = z[Len(seqs)]
                /\ z[1] = seqs[1]
                /\ \A i \in 2 .. Len(seqs) : z[i] = z[i - 1] \o seqs[i]
<1> DEFINE start == seqs[1]
           Step(x, i) == x \o seqs[i]
           Turn(f, i) == IF i = 1 THEN start ELSE Step(f[i - 1], i)
           Table(f, n) == f = [i \in 1 .. n |-> Turn(f, i)]
           S == {n \in Nat : \E f : Table(f, n)}
           z == CHOOSE f : Table(f, Len(seqs))
<1>1. FlattenSeq(seqs) = z[Len(seqs)]
  BY DEF FlattenSeq
<1> HIDE DEF start, Step
<1>2. 0 \in S
  <2>1. Table([i \in 1 .. 0 |-> start], 0)
    OBVIOUS
  <2> QED BY <2>1
<1>3. ASSUME NEW n \in Nat, n \in S PROVE n + 1 \in S
  <2>1. PICK f : Table(f, n)
    BY <1>3
  <2> DEFINE g == [i \in 1 .. n + 1 |-> IF i = n + 1 THEN Turn(f, n + 1) ELSE f[i]]
  <2>2. ASSUME NEW i \in 1 .. n + 1 PROVE g[i] = Turn(g, i)
    <3>1. i # 1 => i - 1 \in 1 .. n + 1 /\ g[i - 1] = f[i - 1]
      OBVIOUS
    <3>2. Turn(g, i) = Turn(f, i)
      BY <3>1
    <3>3. i # n + 1 => f[i] = Turn(f, i)
      BY <2>1
    <3> QED BY <3>2, <3>3
  <2>3. g = [i \in 1 .. n + 1 |-> g[i]]
    OBVIOUS
  <2> HIDE DEF g
  <2>4. Table(g, n + 1)
    BY <2>2, <2>3
  <2> QED BY <2>4
<1>4. \E f : Table(f, Len(seqs))
  <2>1. Nat \subseteq S
    BY <1>2, <1>3, NatSet
  <2> QED BY <2>1
<1>5. Table(z, Len(seqs))
  BY <1>4
<1> HIDE DEF z
<1>6. z[1] = start /\ \A i \in 2 .. Len(seqs) : z[i] = Step(z[i - 1], i)
  BY <1>5
<1> QED BY <1>1, <1>6 DEF start, Step

-----------------------------------------------------------------------------
(* Texts: finding, cutting and joining.                                    *)

\* A text that is one text, a character the first does not have, and another.
LEMMA Split ==
  ASSUME NEW a \in Text, NEW b \in Text, NEW c \in Nat,
         \A i \in 1 .. Len(a) : a[i] # c
  PROVE  /\ a \o <<c>> \o b \in Text
         /\ Len(a \o <<c>> \o b) = Len(a) + 1 + Len(b)
         /\ Len(a \o <<c>> \o b) > Len(b) /\ a \o <<c>> \o b # <<>>
         /\ find(a \o <<c>> \o b, c) = Len(a) + 1 /\ Len(a) + 1 # 0
         /\ Before(a \o <<c>> \o b, c) = a
         /\ After(a \o <<c>> \o b, c) = b
<1> DEFINE s == a \o <<c>> \o b
           at == {i \in 1 .. Len(s) : s[i] = c}
<1>1. /\ s \in Text /\ Len(s) = Len(a) + 1 + Len(b)
      /\ Len(a) \in Nat /\ Len(b) \in Nat
  BY DEF Text
<1>2. /\ \A i \in 1 .. Len(a) : s[i] = a[i]
      /\ s[Len(a) + 1] = c
      /\ \A i \in 1 .. Len(b) : s[Len(a) + 1 + i] = b[i]
  BY DEF Text
<1> HIDE DEF s
<1>3. Len(a) + 1 \in at /\ at \in SUBSET Nat /\ \A k \in at : Len(a) + 1 <= k
  BY <1>1, <1>2
<1>4. find(s, c) = Len(a) + 1
  BY <1>3, MinIs DEF find
<1>5. Before(s, c) = a
  <2>1. Before(s, c) = SubSeq(s, 1, Len(a))
    BY <1>1, <1>4 DEF Before
  <2>2. Len(SubSeq(s, 1, Len(a))) = Len(a) /\ SubSeq(s, 1, Len(a)) \in Seq(Nat)
    BY <1>1 DEF Text
  <2>3. \A i \in 1 .. Len(a) : SubSeq(s, 1, Len(a))[i] = a[i]
    BY <1>1, <1>2 DEF Text
  <2> QED BY <2>1, <2>2, <2>3, SeqEqual DEF Text
<1>6. After(s, c) = b
  <2>1. After(s, c) = SubSeq(s, Len(a) + 2, Len(a) + 1 + Len(b))
    BY <1>1, <1>4 DEF After
  <2>2. /\ Len(SubSeq(s, Len(a) + 2, Len(a) + 1 + Len(b))) = Len(b)
        /\ SubSeq(s, Len(a) + 2, Len(a) + 1 + Len(b)) \in Seq(Nat)
    BY <1>1 DEF Text
  <2>3. \A i \in 1 .. Len(b) : SubSeq(s, Len(a) + 2, Len(a) + 1 + Len(b))[i] = b[i]
    BY <1>1, <1>2 DEF Text
  <2> QED BY <2>1, <2>2, <2>3, SeqEqual DEF Text
<1>7. Len(s) > Len(b) /\ s # <<>> /\ Len(a) + 1 # 0
  BY <1>1
<1> QED BY <1>1, <1>4, <1>5, <1>6, <1>7 DEF s

\* A text without the character.
LEMMA NoSplit ==
  ASSUME NEW a \in Text, NEW c, \A i \in 1 .. Len(a) : a[i] # c
  PROVE  find(a, c) = 0 /\ Before(a, c) = a /\ After(a, c) = a
<1>1. find(a, c) = 0
  BY DEF find
<1>2. SubSeq(a, 1, Len(a)) = a
  BY SubSeqFull DEF Text
<1> QED BY <1>1, <1>2 DEF Before, After

\* R[k] is what the texts from the k-th on are, joined by a character none of
\* them has; the last one is not empty.
JoinedBy(R, ss, c) ==
  /\ ss \in Seq(Text) /\ Len(ss) # 0 /\ ss[Len(ss)] # <<>>
  /\ \A k \in 1 .. Len(ss) : \A i \in 1 .. Len(ss[k]) : ss[k][i] # c
  /\ R[Len(ss)] = ss[Len(ss)]
  /\ \A k \in 1 .. Len(ss) : R[k] \in Text
  /\ \A k \in 1 .. Len(ss) - 1 : R[k] = ss[k] \o <<c>> \o R[k + 1]

\* The pieces of joined texts are the texts.
LEMMA PiecesLemma ==
  ASSUME NEW ss, NEW c \in Nat, NEW R, JoinedBy(R, ss, c)
  PROVE  Pieces(R[1], c) = ss
<1> DEFINE n == Len(ss)
           left(i) == IF i < n THEN R[i + 1] ELSE <<>>
           pieces(i) == SubSeq(ss, 1, IF i < n THEN i ELSE n)
<1>0. ss \in Seq(Text)
  BY DEF JoinedBy
<1>1. n \in Nat /\ n # 0 /\ ss[n] \in Text /\ \A k \in 1 .. n : ss[k] \in Text
  BY DEF JoinedBy
<1>11. \A k \in 1 .. n : R[k] \in Text
  BY DEF JoinedBy
<1>12. ASSUME NEW k \in 1 .. n PROVE ss[k] \in Text /\ \A i \in 1 .. Len(ss[k]) : ss[k][i] # c
  BY DEF JoinedBy
<1>13. ASSUME NEW k \in 1 .. n - 1
       PROVE  /\ R[k] = ss[k] \o <<c>> \o R[k + 1]
              /\ R[k] \in Text /\ R[k + 1] \in Text
              /\ Len(R[k]) > Len(R[k + 1]) /\ R[k] # <<>>
              /\ find(R[k], c) # 0
              /\ Before(R[k], c) = ss[k] /\ After(R[k], c) = R[k + 1]
  <2>1. k \in 1 .. n /\ k + 1 \in 1 .. n
    BY <1>1
  <2>2. R[k] = ss[k] \o <<c>> \o R[k + 1]
    BY DEF JoinedBy
  <2>3. R[k] \in Text /\ R[k + 1] \in Text
    BY <1>11, <2>1
  <2>4. ss[k] \in Text /\ \A i \in 1 .. Len(ss[k]) : ss[k][i] # c
    BY <1>12, <2>1
  <2> DEFINE a == ss[k]
             b == R[k + 1]
  <2>5. a \in Text /\ b \in Text /\ (\A i \in 1 .. Len(a) : a[i] # c) /\ R[k] = a \o <<c>> \o b
    BY <2>2, <2>3, <2>4
  <2> HIDE DEF a, b
  <2>6. /\ Len(R[k]) > Len(b) /\ R[k] # <<>> /\ find(R[k], c) # 0
        /\ Before(R[k], c) = a /\ After(R[k], c) = b
    BY <2>5, Split
  <2> QED BY <2>2, <2>3, <2>6 DEF a, b
<1>14. /\ R[n] \in Text /\ R[n] = ss[n] /\ R[n] # <<>>
       /\ find(R[n], c) = 0 /\ Before(R[n], c) = ss[n]
  <2>1. R[n] = ss[n] /\ ss[n] # <<>>
    BY DEF JoinedBy
  <2>2. \A i \in 1 .. Len(ss[n]) : ss[n][i] # c
    BY <1>1, <1>12
  <2> QED BY <1>1, <2>1, <2>2, NoSplit
<1>2. ASSUME NEW k \in 1 .. n
      PROVE  R[k] # <<>>
  <2>1. CASE k = n
    BY <2>1, <1>14
  <2>2. CASE k # n
    <3>1. k \in 1 .. n - 1
      BY <1>1, <2>2
    <3> QED BY <3>1, <1>13
  <2> QED BY <2>1, <2>2
<1>3. Len(R[1]) \in Nat /\ n <= Len(R[1])
  <2> DEFINE S == {j \in Nat : j < n => j + 1 <= Len(R[n - j])}
  <2>1. 0 \in S
    <3>1. Len(R[n]) \in Nat /\ Len(R[n]) # 0
      BY <1>14 DEF Text
    <3> QED BY <3>1, <1>1
  <2>2. ASSUME NEW j \in Nat, j \in S PROVE j + 1 \in S
    <3> SUFFICES ASSUME j + 1 < n PROVE j + 2 <= Len(R[n - (j + 1)])
      OBVIOUS
    <3> DEFINE k == n - (j + 1)
    <3>1. k \in 1 .. n - 1 /\ k + 1 = n - j /\ k \in 1 .. n /\ k + 1 \in 1 .. n
      BY <1>1
    <3> HIDE DEF k
    <3> DEFINE m == Len(R[k + 1])
               l == Len(R[k])
    <3>2. l > m
      BY <3>1, <1>13
    <3>3. l \in Nat /\ m \in Nat
      BY <3>1, <1>13 DEF Text
    <3>4. j + 1 <= m
      BY <2>2, <3>1, <1>1
    <3> HIDE DEF m, l
    <3>5. j + 2 <= l
      BY <3>2, <3>3, <3>4
    <3> QED BY <3>5 DEF k, l
  <2> HIDE DEF S
  <2>3. n - 1 \in S
    BY <1>1, <2>1, <2>2, NatSet
  <2>4. n <= Len(R[1])
    BY <2>3, <1>1 DEF S
  <2>5. R[1] \in Text
    BY <1>1, <1>11
  <2> QED BY <2>4, <2>5 DEF Text
<1>4. PICK z : /\ Pieces(R[1], c) = z[Len(R[1])].pieces
               /\ z[0] = [left |-> R[1], pieces |-> <<>>]
               /\ \A i \in 1 .. Len(R[1]) : z[i] = CutOne(z[i - 1], c)
  BY <1>3, CutLoop
<1> DEFINE S == {i \in Nat : i <= Len(R[1]) => z[i] = [left |-> left(i), pieces |-> pieces(i)]}
<1>5. 0 \in S
  <2>1. left(0) = R[1] /\ pieces(0) = <<>>
    BY <1>1
  <2> QED BY <1>4, <2>1
<1>6. ASSUME NEW i \in Nat, i \in S PROVE i + 1 \in S
  <2> SUFFICES ASSUME i + 1 <= Len(R[1])
               PROVE  z[i + 1] = [left |-> left(i + 1), pieces |-> pieces(i + 1)]
    OBVIOUS
  <2>1. /\ z[i] = [left |-> left(i), pieces |-> pieces(i)]
        /\ z[i + 1] = CutOne(z[i], c)
    <3>1. i + 1 \in 1 .. Len(R[1]) /\ (i + 1) - 1 = i /\ i <= Len(R[1])
      BY <1>3
    <3> QED BY <1>4, <1>6, <3>1
  <2>2. CASE i >= n
    <3>1. left(i) = <<>> /\ left(i + 1) = <<>> /\ pieces(i + 1) = pieces(i)
      BY <2>2, <1>1
    <3> HIDE DEF left, pieces
    <3> QED BY <2>1, <3>1 DEF CutOne
  <2>3. CASE i < n
    <3>1. left(i) = R[i + 1] /\ i + 1 \in 1 .. n /\ R[i + 1] # <<>> /\ ss[i + 1] \in Text
      BY <2>3, <1>1, <1>2
    <3>2. pieces(i) = SubSeq(ss, 1, i) /\ pieces(i + 1) = SubSeq(ss, 1, i + 1)
      BY <2>3, <1>1
    <3>3. pieces(i + 1) = Append(pieces(i), ss[i + 1])
      BY <3>1, <3>2, <1>0, <1>1
    <3>4. CASE i + 1 < n
      <4>1. i + 1 \in 1 .. n - 1 /\ (i + 1) + 1 = i + 2
        BY <1>1, <3>4
      <4>2. /\ find(R[i + 1], c) # 0
            /\ Before(R[i + 1], c) = ss[i + 1] /\ After(R[i + 1], c) = R[i + 2]
        BY <4>1, <1>13
      <4>3. left(i + 1) = R[i + 2]
        BY <3>4
      <4> HIDE DEF left, pieces
      <4>4. left(i) # <<>> /\ find(left(i), c) # 0 /\ Before(left(i), c) = ss[i + 1]
            /\ After(left(i), c) = left(i + 1)
        BY <3>1, <4>1, <4>2, <4>3
      <4>5. z[i + 1] = CutOne([left |-> left(i), pieces |-> pieces(i)], c)
        BY <2>1
      <4> QED BY <3>3, <4>4, <4>5 DEF CutOne
    <3>5. CASE i + 1 = n
      <4>2. find(R[i + 1], c) = 0 /\ Before(R[i + 1], c) = ss[i + 1]
        BY <3>5, <1>14
      <4>3. left(i + 1) = <<>>
        BY <3>5
      <4> HIDE DEF left, pieces
      <4>4. left(i) # <<>> /\ find(left(i), c) = 0 /\ Before(left(i), c) = ss[i + 1]
        BY <3>1, <4>2
      <4>5. z[i + 1] = CutOne([left |-> left(i), pieces |-> pieces(i)], c)
        BY <2>1
      <4> QED BY <3>3, <4>3, <4>4, <4>5 DEF CutOne
    <3> QED BY <2>3, <3>4, <3>5, <1>1
  <2> QED BY <2>2, <2>3, <1>1
<1> HIDE DEF S
<1>7. Len(R[1]) \in S
  BY <1>3, <1>5, <1>6, NatSet
<1>8. z[Len(R[1])].pieces = SubSeq(ss, 1, n)
  BY <1>7, <1>3, <1>1 DEF S
<1>9. SubSeq(ss, 1, n) = ss
  BY <1>0, SubSeqFull
<1> QED BY <1>4, <1>8, <1>9

\* Texts put together are a text, in whichever order it is done.
LEMMA ConcatTexts ==
  ASSUME NEW x \in Text, NEW y \in Text, NEW z \in Text
  PROVE  x \o y \in Text /\ y \o z \in Text /\ (x \o y) \o z = x \o (y \o z)
BY ConcatAssociative, SMTT(20) DEF Text

\* Concatenation is associative.
LEMMA Reassociate ==
  ASSUME NEW x \in Text, NEW y \in Text, NEW z \in Text
  PROVE  (x \o y) \o z = x \o (y \o z)
BY ConcatTexts

\* A sequence of texts flattened is the first of them and the rest flattened.
LEMMA FlattenFirst ==
  ASSUME NEW ss \in Seq(Text), Len(ss) # 0
  PROVE  FlattenSeq(ss) = ss[1] \o FlattenSeq(Tail(ss)) /\ FlattenSeq(ss) \in Text
<1> DEFINE n == Len(ss)
           ts == Tail(ss)
<1>1. n \in Nat \ {0}
  OBVIOUS
<1>6. \A i \in 1 .. n : ss[i] \in Text
  OBVIOUS
<1>2. ts \in Seq(Text) /\ Len(ts) = n - 1 /\ \A i \in 1 .. n - 1 : ts[i] = ss[i + 1]
  BY <1>1
<1>3. PICK z : /\ FlattenSeq(ss) = z[n] /\ z[1] = ss[1]
               /\ \A i \in 2 .. n : z[i] = z[i - 1] \o ss[i]
  BY <1>1, FlattenLoop
<1>4. CASE n = 1
  <2>1. ts = <<>>
    <3>1. Len(ts) = 0 /\ ts \in Seq(Text)
      BY <1>2, <1>4
    <3> HIDE DEF ts
    <3> QED BY <3>1
  <2>2. FlattenSeq(ts) = <<>>
    BY <2>1 DEF FlattenSeq
  <2>3. ss[1] \o <<>> = ss[1] /\ ss[1] \in Text
    BY <1>1, <1>4, <1>6 DEF Text
  <2> QED BY <1>3, <1>4, <2>2, <2>3
<1>5. CASE n # 1
  <2>0. n - 2 \in Nat /\ 1 \in 1 .. n /\ 2 \in 1 .. n /\ 2 \in 2 .. n /\ 1 \in 1 .. n - 1
    <3>1. \A m \in Nat \ {0} : m # 1 => m - 2 \in Nat /\ m >= 2
      OBVIOUS
    <3>2. n - 2 \in Nat /\ n >= 2
      BY <1>1, <1>5, <3>1
    <3> HIDE DEF n
    <3> QED BY <1>1, <3>2
  <2>1. PICK y : /\ FlattenSeq(ts) = y[Len(ts)] /\ y[1] = ts[1]
                 /\ \A i \in 2 .. Len(ts) : y[i] = y[i - 1] \o ts[i]
    <3>1. Len(ts) \in Nat \ {0}
      BY <1>2, <2>0
    <3> HIDE DEF ts, n
    <3> QED BY <3>1, FlattenLoop
  <2>2. /\ FlattenSeq(ts) = y[n - 1] /\ y[1] = ss[2]
        /\ \A i \in 2 .. n - 1 : y[i] = y[i - 1] \o ss[i + 1]
    <3>1. \A i \in 2 .. n - 1 : i \in 1 .. n - 1
      BY <2>0
    <3>2. Len(ts) = n - 1 /\ ts[1] = ss[2] /\ \A i \in 2 .. n - 1 : ts[i] = ss[i + 1]
      BY <1>2, <2>0, <3>1
    <3> HIDE DEF ts, n
    <3> QED BY <2>1, <3>2
  <2> HIDE DEF ts
  <2>3. ss[1] \in Text /\ ss[2] \in Text
    BY <1>6, <2>0
  <2> DEFINE S == {i \in Nat : i + 1 < n => /\ y[i + 1] \in Text
                                             /\ z[i + 2] = ss[1] \o y[i + 1]}
  <2>4. 0 \in S
    <3>1. z[2] = z[1] \o ss[2]
      <4>1. 2 - 1 = 1
        OBVIOUS
      <4> HIDE DEF n
      <4> QED BY <1>3, <2>0, <4>1
    <3>2. y[1] \in Text /\ z[2] = ss[1] \o y[1]
      BY <3>1, <2>2, <2>3, <1>3
    <3>3. 0 + 1 = 1 /\ 0 + 2 = 2 /\ 0 \in Nat
      OBVIOUS
    <3> HIDE DEF n
    <3> QED BY <3>2, <3>3
  <2>5. ASSUME NEW i \in Nat, i \in S PROVE i + 1 \in S
    <3> DEFINE a == ss[1]
               b == y[i + 1]
               d == ss[i + 3]
    <3>1. CASE i + 2 < n
      <4>1. b \in Text /\ z[i + 2] = a \o b
        <5>1. i + 1 < n
          BY <3>1, <1>1
        <5> HIDE DEF n
        <5> QED BY <2>5, <5>1
      <4>2. y[i + 2] = b \o d /\ z[i + 3] = z[i + 2] \o d
        <5>1. /\ i + 2 \in 2 .. n - 1 /\ (i + 2) - 1 = i + 1 /\ (i + 2) + 1 = i + 3
              /\ i + 3 \in 2 .. n /\ (i + 3) - 1 = i + 2
          BY <1>1, <3>1
        <5> QED BY <5>1, <1>3, <2>2
      <4>3. a \in Text /\ d \in Text
        <5>1. i + 3 \in 1 .. n
          BY <1>1, <3>1
        <5> QED BY <5>1, <1>6, <2>3
      <4> HIDE DEF a, b, d
      <4>4. b \o d \in Text /\ (a \o b) \o d = a \o (b \o d)
        BY <4>1, <4>3, ConcatTexts
      <4>5. y[i + 2] \in Text /\ z[i + 3] = a \o y[i + 2]
        BY <4>1, <4>2, <4>4
      <4>6. (i + 1) + 1 = i + 2 /\ (i + 1) + 2 = i + 3 /\ i + 1 \in Nat
        OBVIOUS
      <4> QED BY <4>5, <4>6 DEF a
    <3>2. CASE ~(i + 2 < n)
      <4>1. ~((i + 1) + 1 < n)
        BY <3>2, <1>1
      <4>2. i + 1 \in Nat
        OBVIOUS
      <4> HIDE DEF n
      <4> QED BY <4>1, <4>2
    <3> QED BY <3>1, <3>2
  <2> HIDE DEF S
  <2>6. n - 2 \in S
    <3> HIDE DEF n
    <3> QED BY <2>0, <2>4, <2>5, NatSet
  <2>7. y[n - 1] \in Text /\ z[n] = ss[1] \o y[n - 1]
    <3>1. (n - 2) + 1 = n - 1 /\ (n - 2) + 2 = n /\ n - 1 < n
      BY <1>1
    <3> HIDE DEF n
    <3> QED BY <2>6, <3>1 DEF S
  <2>8. ss[1] \o FlattenSeq(ts) \in Text
    BY <2>2, <2>3, <2>7 DEF Text
  <2> QED BY <2>2, <1>3, <2>7, <2>8 DEF ts
<1> QED BY <1>4, <1>5

\* The texts from the i-th on, flattened, for every i.
LEMMA FlattenTable ==
  ASSUME NEW ss \in Seq(Text)
  PROVE  \E R : /\ R[1] = FlattenSeq(ss)
                /\ R[Len(ss) + 1] = <<>>
                /\ \A k \in 1 .. Len(ss) + 1 : R[k] \in Text
                /\ \A k \in 1 .. Len(ss) : R[k] = ss[k] \o R[k + 1]
<1> DEFINE n == Len(ss)
           R == [k \in 1 .. n + 1 |-> FlattenSeq(SubSeq(ss, k, n))]
<1>1. n \in Nat
  OBVIOUS
<1>2. R[1] = FlattenSeq(ss)
  <2>1. SubSeq(ss, 1, n) = ss
    BY SubSeqFull
  <2>2. R[1] = FlattenSeq(SubSeq(ss, 1, n))
    BY <1>1
  <2> QED BY <2>1, <2>2
<1>3. R[n + 1] = <<>>
  <2>1. SubSeq(ss, n + 1, n) = <<>>
    BY <1>1
  <2>2. R[n + 1] = FlattenSeq(SubSeq(ss, n + 1, n))
    BY <1>1
  <2>3. FlattenSeq(<<>>) = <<>>
    BY DEF FlattenSeq
  <2> QED BY <2>1, <2>2, <2>3
<1>4. ASSUME NEW k \in 1 .. n
      PROVE  R[k] \in Text /\ R[k] = ss[k] \o R[k + 1]
  <2> DEFINE us == SubSeq(ss, k, n)
  <2>1. us \in Seq(Text) /\ Len(us) # 0 /\ us[1] = ss[k] /\ Tail(us) = SubSeq(ss, k + 1, n)
    <3>1. us \in Seq(Text) /\ Len(us) = n - k + 1 /\ us[1] = ss[k]
      BY <1>1
    <3>2. Tail(us) = SubSeq(us, 2, Len(us))
      BY <3>1, <1>1, TailIsSubSeq
    <3>3. Tail(us) = SubSeq(ss, k + 1, n)
      BY <1>1, <3>1
    <3> QED BY <3>1, <3>3, <1>1
  <2>2. R[k] = FlattenSeq(us) /\ R[k + 1] = FlattenSeq(SubSeq(ss, k + 1, n))
    BY <1>1
  <2> HIDE DEF us, R
  <2> QED BY <2>1, <2>2, FlattenFirst
<1>5. \A k \in 1 .. n + 1 : R[k] \in Text
  <2>1. <<>> \in Text
    BY DEF Text
  <2> HIDE DEF R
  <2> SUFFICES ASSUME NEW k \in 1 .. n + 1 PROVE R[k] \in Text
    OBVIOUS
  <2>2. k = n + 1 \/ k \in 1 .. n
    BY <1>1
  <2> QED BY <2>1, <2>2, <1>3, <1>4
<1> HIDE DEF R
<1> QED BY <1>2, <1>3, <1>4, <1>5

-----------------------------------------------------------------------------
(* Header maps.                                                            *)

\* A text without a line end.
Line == {v \in Text : \A i \in 1 .. Len(v) : v[i] # LINE_END}

Name == {<<Host>>, <<ContentLength>>}
Header == [key : Name, value : Line]

\* A multimap is sorted.
HeaderMap ==
  {m \in Seq(Header) :
     \A i, j \in 1 .. Len(m) : i <= j => m[i].key[1] <= m[j].key[1]}

\* Names are ordered by their symbol, which is a number.
LEMMA NameOrder ==
  /\ \A k \in Name : k[1] \in Nat /\ k = <<k[1]>> /\ k[1] # COLON /\ k[1] # LINE_END
  /\ \A k, l \in Name : k[1] = l[1] => k = l
  /\ \A h \in Header : h.key \in Name /\ h.value \in Line
BY DEF Name, Header, Host, ContentLength, COLON, LINE_END

\* The place of a name in a map.
LEMMA UpperBound ==
  ASSUME NEW m \in HeaderMap, NEW k \in Name
  PROVE  /\ upper_bound(m, k) \in 1 .. Len(m) + 1
         /\ \A i \in 1 .. Len(m) : i < upper_bound(m, k) => m[i].key[1] <= k[1]
         /\ \A i \in 1 .. Len(m) : i >= upper_bound(m, k) => m[i].key[1] > k[1]
<1> DEFINE n == Len(m)
           at(i) == m[i].key[1]
           T == {i \in 1 .. n : at(i) > k[1]} \cup {n + 1}
<1>1. n \in Nat /\ k[1] \in Nat /\ \A i \in 1 .. n : at(i) \in Nat
  <2>1. m \in Seq(Header)
    BY DEF HeaderMap
  <2>2. \A i \in 1 .. n : m[i] \in Header
    BY <2>1
  <2> QED BY <2>1, <2>2, NameOrder
<1>2. \A i, j \in 1 .. n : i <= j => at(i) <= at(j)
  BY DEF HeaderMap
<1>3. upper_bound(m, k) = Min(T)
  BY DEF upper_bound
<1> HIDE DEF n, at
<1>4. PICK p \in T : \A i \in T : p <= i
  <2>1. T \in SUBSET Nat /\ T # {}
    BY <1>1
  <2> HIDE DEF T
  <2> QED BY <2>1, LeastNat
<1>5. Min(T) = p
  <2>1. T \in SUBSET Nat
    BY <1>1
  <2> HIDE DEF T
  <2> QED BY <2>1, <1>4, MinIs
<1>6. p \in 1 .. n + 1
  BY <1>1
<1>7. ASSUME NEW i \in 1 .. n, i < p PROVE at(i) <= k[1]
  <2>1. i \notin T
    BY <1>1, <1>4, <1>6, <1>7
  <2> QED BY <1>1, <2>1
<1>8. ASSUME NEW i \in 1 .. n, i >= p PROVE at(i) > k[1]
  <2>1. p \in 1 .. n /\ at(p) > k[1]
    BY <1>1, <1>4, <1>6, <1>8
  <2>2. at(p) <= at(i)
    BY <1>2, <1>8, <2>1
  <2> QED BY <1>1, <2>1, <2>2
<1> QED BY <1>3, <1>5, <1>6, <1>7, <1>8 DEF n, at

\* add() puts a header in the place of its name.
LEMMA AddLemma ==
  ASSUME NEW m \in HeaderMap, NEW k \in Name, NEW v \in Line
  PROVE  LET p == upper_bound(m, k) IN
         /\ add(m, k, v) \in HeaderMap
         /\ Len(add(m, k, v)) = Len(m) + 1
         /\ add(m, k, v)[p] = [key |-> k, value |-> v]
         /\ \A i \in 1 .. p - 1 : add(m, k, v)[i] = m[i]
         /\ \A i \in p + 1 .. Len(m) + 1 : add(m, k, v)[i] = m[i - 1]
<1> DEFINE n == Len(m)
           p == upper_bound(m, k)
           h == [key |-> k, value |-> v]
           a == add(m, k, v)
           left == SubSeq(m, 1, p - 1)
           right == SubSeq(m, p, n)
<1>1. m \in Seq(Header) /\ n \in Nat /\ h \in Header
  BY DEF HeaderMap, Header
<1>2. p \in 1 .. n + 1
  BY UpperBound
<1>3. a = left \o <<h>> \o right
  BY DEF add, InsertAt
<1> HIDE DEF p, h, a
<1>4. /\ left \in Seq(Header) /\ Len(left) = p - 1
      /\ \A i \in 1 .. p - 1 : left[i] = m[i]
  BY <1>1, <1>2
<1>5. /\ right \in Seq(Header) /\ Len(right) = n - p + 1
      /\ \A i \in 1 .. n - p + 1 : right[i] = m[p + i - 1]
  BY <1>1, <1>2
<1> HIDE DEF left, right, n
<1>6. a \in Seq(Header) /\ Len(a) = n + 1
  <2>1. <<h>> \in Seq(Header) /\ Len(<<h>>) = 1
    BY <1>1
  <2>2. left \o <<h>> \in Seq(Header) /\ Len(left \o <<h>>) = p
    BY <1>1, <1>2, <1>4, <2>1
  <2> DEFINE b == left \o <<h>>
  <2>3. b \in Seq(Header) /\ Len(b) = p /\ a = b \o right
    BY <1>3, <2>2
  <2> HIDE DEF b
  <2>4. a \in Seq(Header) /\ Len(a) = Len(b) + Len(right)
    BY <1>5, <2>3, ConcatProperties
  <2> QED BY <1>1, <1>2, <1>5, <2>3, <2>4
<1>7. \A i \in 1 .. p - 1 : a[i] = m[i]
  BY <1>1, <1>2, <1>3, <1>4, <1>5
<1>8. a[p] = h
  BY <1>1, <1>2, <1>3, <1>4, <1>5
<1>9. ASSUME NEW i \in p + 1 .. n + 1 PROVE a[i] = m[i - 1]
  <2>1. a[i] = right[i - p]
    BY <1>1, <1>2, <1>3, <1>4, <1>5
  <2>2. i - p \in 1 .. n - p + 1 /\ p + (i - p) - 1 = i - 1
    BY <1>1, <1>2
  <2> QED BY <2>1, <2>2, <1>5
<1>10. ASSUME NEW i \in 1 .. n + 1, NEW j \in 1 .. n + 1, i <= j
       PROVE  a[i].key[1] <= a[j].key[1]
  <2> DEFINE key(q) == m[q].key[1]
  <2>1. /\ \A q \in 1 .. n : q < p => key(q) <= k[1]
        /\ \A q \in 1 .. n : q >= p => key(q) > k[1]
    BY UpperBound DEF p, n
  <2>2. \A q, r \in 1 .. n : q <= r => key(q) <= key(r)
    BY DEF HeaderMap, n
  <2>3. k[1] \in Nat /\ \A q \in 1 .. n : key(q) \in Nat
    <3>1. \A q \in 1 .. n : m[q] \in Header
      BY <1>1 DEF n
    <3> QED BY <3>1, NameOrder
  <2>4. a[p].key[1] = k[1]
    BY <1>8 DEF h
  <2>5. \A q \in 1 .. p - 1 : a[q].key[1] = key(q) /\ q \in 1 .. n
    BY <1>1, <1>2, <1>7
  <2>6. \A q \in p + 1 .. n + 1 : a[q].key[1] = key(q - 1) /\ q - 1 \in 1 .. n /\ q - 1 >= p
    BY <1>1, <1>2, <1>9
  <2> HIDE DEF key
  <2>7. CASE i < p
    <3>1. i \in 1 .. p - 1
      BY <1>1, <1>2, <2>7
    <3>2. CASE j < p
      <4>1. j \in 1 .. p - 1
        BY <1>1, <1>2, <3>2
      <4> QED BY <3>1, <4>1, <2>5, <2>2, <1>10
    <3>3. CASE j = p
      BY <3>1, <3>3, <2>1, <2>4, <2>5, <1>2
    <3>4. CASE j > p
      <4>1. j \in p + 1 .. n + 1
        BY <1>1, <1>2, <3>4
      <4>2. i <= j - 1
        BY <1>1, <1>2, <3>1, <4>1
      <4> QED BY <3>1, <4>1, <4>2, <2>5, <2>6, <2>2
    <3> QED BY <1>2, <3>2, <3>3, <3>4
  <2>8. CASE i = p
    <3>1. CASE j = p
      BY <2>8, <3>1, <2>4, <2>3
    <3>2. CASE j > p
      <4>1. j \in p + 1 .. n + 1
        BY <1>1, <1>2, <3>2
      <4> QED BY <2>8, <4>1, <2>1, <2>3, <2>4, <2>6
    <3> QED BY <1>2, <1>10, <2>8, <3>1, <3>2
  <2>9. CASE i > p
    <3>1. i \in p + 1 .. n + 1 /\ j \in p + 1 .. n + 1 /\ i - 1 <= j - 1
      BY <1>1, <1>2, <1>10, <2>9
    <3> QED BY <3>1, <2>6, <2>2
  <2> QED BY <1>2, <2>7, <2>8, <2>9
<1>11. a \in HeaderMap
  BY <1>6, <1>10 DEF HeaderMap
<1> QED BY <1>6, <1>7, <1>8, <1>9, <1>11 DEF a, p, h, n

\* The header added last is the last of its name.
LEMMA GetLast ==
  ASSUME NEW m \in HeaderMap, NEW k \in Name, NEW v \in Line
  PROVE  get(add(m, k, v), k) # <<>> /\ Last(get(add(m, k, v), k)) = v
<1> DEFINE a == add(m, k, v)
           n == Len(m)
           p == upper_bound(m, k)
<1>1. /\ n \in Nat /\ p \in 1 .. n + 1 /\ Len(a) = n + 1 /\ a \in HeaderMap
      /\ a[p] = [key |-> k, value |-> v]
      /\ \A i \in p + 1 .. n + 1 : a[i] = m[i - 1]
  BY AddLemma, UpperBound DEF HeaderMap
<1>2. ASSUME NEW i \in p + 1 .. n + 1 PROVE a[i].key # k
  <2>1. i - 1 \in 1 .. n /\ i - 1 >= p
    BY <1>1
  <2>2. m[i - 1].key[1] > k[1]
    BY <2>1, UpperBound
  <2>3. k[1] \in Nat
    BY NameOrder
  <2> QED BY <1>1, <2>2, <2>3
<1>3. \A i \in 1 .. n + 1 : a[i].value \in Line
  <2>1. a \in Seq(Header)
    BY <1>1 DEF HeaderMap
  <2> HIDE DEF a, n
  <2> QED BY <2>1, <1>1, NameOrder
<1> HIDE DEF a, n, p
<1>4. PICK z : /\ get(a, k) = z[Len(a)]
               /\ z[0] = <<>>
               /\ \A i \in 1 .. Len(a) : z[i] = IF a[i].key = k THEN Append(z[i - 1], a[i].value)
                                                               ELSE z[i - 1]
  <2>1. Len(a) \in Nat
    BY <1>1
  <2> QED BY <2>1, GetLoop
<1> DEFINE S == {i \in Nat : i <= n + 1 => z[i] \in Seq(Line)}
<1>5. Nat \subseteq S
  <2>1. 0 \in S
    <3>1. z[0] \in Seq(Line)
      BY <1>4
    <3> QED BY <3>1
  <2>2. ASSUME NEW i \in Nat, i \in S PROVE i + 1 \in S
    <3> SUFFICES ASSUME i + 1 <= n + 1 PROVE z[i + 1] \in Seq(Line)
      OBVIOUS
    <3>1. z[i] \in Seq(Line) /\ i + 1 \in 1 .. n + 1 /\ (i + 1) - 1 = i
      BY <1>1, <2>2
    <3>2. z[i + 1] = Append(z[i], a[i + 1].value) \/ z[i + 1] = z[i]
      BY <3>1, <1>1, <1>4
    <3>3. a[i + 1].value \in Line
      BY <3>1, <1>3
    <3> QED BY <3>1, <3>2, <3>3
  <2> HIDE DEF S
  <2> QED BY <2>1, <2>2, NatSet
<1>6. z[p - 1] \in Seq(Line) /\ z[p] = Append(z[p - 1], v)
  <2>1. p - 1 \in Nat /\ p - 1 <= n + 1 /\ p \in 1 .. Len(a)
    BY <1>1
  <2>2. a[p].key = k /\ a[p].value = v
    BY <1>1
  <2> QED BY <2>1, <2>2, <1>4, <1>5
<1> DEFINE U == {i \in Nat : p + i <= n + 1 => z[p + i] = z[p]}
<1>7. Nat \subseteq U
  <2>1. 0 \in U
    BY <1>1
  <2>2. ASSUME NEW i \in Nat, i \in U PROVE i + 1 \in U
    <3> SUFFICES ASSUME p + (i + 1) <= n + 1 PROVE z[p + (i + 1)] = z[p]
      OBVIOUS
    <3>1. /\ p + (i + 1) \in p + 1 .. n + 1 /\ p + (i + 1) \in 1 .. Len(a)
          /\ (p + (i + 1)) - 1 = p + i /\ p + i <= n + 1
      BY <1>1
    <3>2. z[p + (i + 1)] = z[p + i]
      BY <3>1, <1>2, <1>4
    <3> QED BY <3>1, <3>2, <2>2
  <2> HIDE DEF U
  <2> QED BY <2>1, <2>2, NatSet
<1>8. get(a, k) = Append(z[p - 1], v)
  <2>1. n + 1 - p \in Nat /\ p + (n + 1 - p) = n + 1
    BY <1>1
  <2>2. n + 1 - p \in U
    BY <2>1, <1>7
  <2>3. z[p + (n + 1 - p)] = z[p]
    BY <2>1, <2>2, <1>1
  <2> QED BY <2>1, <2>3, <1>1, <1>4, <1>6
<1>9. ASSUME NEW s \in Seq(Line) PROVE Append(s, v) # <<>> /\ Last(Append(s, v)) = v
  BY DEF Last
<1> QED BY <1>6, <1>8, <1>9 DEF a

\* A header that belongs after all others is put there.
LEMMA AddAtEnd ==
  ASSUME NEW m \in HeaderMap, NEW h \in Header,
         \A i \in 1 .. Len(m) : m[i].key[1] <= h.key[1]
  PROVE  add(m, h.key, h.value) = Append(m, h)
<1> DEFINE n == Len(m)
           p == upper_bound(m, h.key)
           a == add(m, h.key, h.value)
<1>1. h.key \in Name /\ h.value \in Line /\ h.key[1] \in Nat
  BY NameOrder
<1>2. h = [key |-> h.key, value |-> h.value]
  BY DEF Header
<1>3. m \in Seq(Header) /\ n \in Nat
  BY DEF HeaderMap
<1>4. p = n + 1
  <2>1. p \in 1 .. n + 1 /\ \A i \in 1 .. n : i >= p => m[i].key[1] > h.key[1]
    BY <1>1, UpperBound
  <2>2. \A i \in 1 .. n : m[i].key[1] \in Nat
    <3>1. \A i \in 1 .. n : m[i] \in Header
      BY <1>3
    <3> QED BY <3>1, NameOrder
  <2> HIDE DEF p
  <2>3. p \notin 1 .. n
    BY <2>1, <2>2, <1>1
  <2> QED BY <2>1, <2>3, <1>3
<1>5. /\ a \in HeaderMap /\ Len(a) = n + 1 /\ a[p] = h
      /\ \A i \in 1 .. p - 1 : a[i] = m[i]
  BY <1>1, <1>2, AddLemma
<1>6. a \in Seq(Header)
  BY <1>5 DEF HeaderMap
<1> HIDE DEF a, p
<1>7. /\ Append(m, h) \in Seq(Header) /\ Len(Append(m, h)) = n + 1
      /\ Append(m, h)[n + 1] = h /\ \A i \in 1 .. n : Append(m, h)[i] = m[i]
  BY <1>3
<1>8. \A i \in 1 .. n + 1 : a[i] = Append(m, h)[i]
  BY <1>3, <1>4, <1>5, <1>7
<1> QED BY <1>5, <1>6, <1>7, <1>8, SeqEqual DEF a

-----------------------------------------------------------------------------
(* The head of a message.                                                  *)

RawLine(k, r) == k \o <<COLON>> \o r
HeaderLine(h) == h.key \o <<COLON, SP>> \o h.value

\* Two symbols are one after the other.
LEMMA TwoSymbols ==
  ASSUME NEW a \in Nat, NEW b \in Nat
  PROVE  <<a>> \o <<b>> = <<a, b>>
<1> DEFINE s == <<a>> \o <<b>>
           t == <<a, b>>
<1>1. s \in Seq(Nat) /\ t \in Seq(Nat) /\ Len(s) = 2 /\ Len(t) = 2
  OBVIOUS
<1>2. \A i \in 1 .. 2 : s[i] = t[i]
  OBVIOUS
<1> HIDE DEF s, t
<1>3. s = t
  BY <1>1, <1>2, SeqEqual
<1> QED BY <1>3 DEF s, t

\* A line with a name: what follows the colon is read without its first
\* character; when nothing does the colon is the last character.
LEMMA RawLineRead ==
  ASSUME NEW k \in Name, NEW r \in Line
  PROVE  LET l == RawLine(k, r) IN
         /\ l \in Line /\ l # <<>>
         /\ find(l, COLON) # 0 /\ (find(l, COLON) = Len(l) <=> r = <<>>)
         /\ Before(l, COLON) = k
         /\ r # <<>> => HeaderValue(l) = Tail(r)
<1> DEFINE x == k[1]
           l == <<x>> \o <<COLON>> \o r
<1>1. /\ k = <<x>> /\ x \in Nat /\ x # COLON /\ x # LINE_END
      /\ r \in Text /\ Len(r) \in Nat /\ \A i \in 1 .. Len(r) : r[i] # LINE_END
  BY NameOrder DEF Line, Text
<1>2. COLON \in Nat /\ COLON # LINE_END
  BY DEF COLON, LINE_END
<1>3. RawLine(k, r) = l
  BY <1>1 DEF RawLine
<1> HIDE DEF x
<1>4. <<x>> \in Text /\ Len(<<x>>) = 1 /\ \A i \in 1 .. Len(<<x>>) : <<x>>[i] # COLON
  BY <1>1 DEF Text
<1>5. /\ l \in Text /\ Len(l) = Len(r) + 2 /\ find(l, COLON) = 2
      /\ Before(l, COLON) = <<x>>
  <2>1. /\ <<x>> \o <<COLON>> \o r \in Text
        /\ Len(<<x>> \o <<COLON>> \o r) = Len(<<x>>) + 1 + Len(r)
        /\ find(<<x>> \o <<COLON>> \o r, COLON) = Len(<<x>>) + 1
        /\ Before(<<x>> \o <<COLON>> \o r, COLON) = <<x>>
    BY <1>1, <1>2, <1>4, Split
  <2> HIDE DEF l
  <2>2. /\ l \in Text /\ Len(l) = 1 + 1 + Len(r) /\ find(l, COLON) = 1 + 1
        /\ Before(l, COLON) = <<x>>
    BY <2>1, <1>4 DEF l
  <2> QED BY <2>2, <1>1
<1>6. l[1] = x /\ l[2] = COLON /\ \A i \in 1 .. Len(r) : l[i + 2] = r[i]
  BY <1>1, <1>2 DEF Text
<1> HIDE DEF l
<1>7. \A i \in 1 .. Len(l) : l[i] # LINE_END
  <2> SUFFICES ASSUME NEW i \in 1 .. Len(l) PROVE l[i] # LINE_END
    OBVIOUS
  <2>1. i = 1 \/ i = 2 \/ i - 2 \in 1 .. Len(r)
    BY <1>1, <1>5
  <2>2. CASE i - 2 \in 1 .. Len(r)
    <3>1. l[(i - 2) + 2] = r[i - 2] /\ (i - 2) + 2 = i
      BY <2>2, <1>6
    <3> QED BY <3>1, <2>2, <1>1
  <2> QED BY <2>1, <2>2, <1>1, <1>2, <1>6
<1>8. ASSUME r # <<>> PROVE HeaderValue(l) = Tail(r)
  <2>0. Len(r) # 0
    BY <1>1, <1>8 DEF Text
  <2>1. HeaderValue(l) = SubSeq(l, 4, Len(r) + 2)
    BY <1>5 DEF HeaderValue
  <2>2. /\ Tail(r) \in Text /\ Len(Tail(r)) = Len(r) - 1
        /\ \A i \in 1 .. Len(r) - 1 : Tail(r)[i] = r[i + 1]
    BY <1>1, <2>0 DEF Text
  <2>3. /\ SubSeq(l, 4, Len(r) + 2) \in Text /\ Len(SubSeq(l, 4, Len(r) + 2)) = Len(r) - 1
        /\ \A i \in 1 .. Len(r) - 1 : SubSeq(l, 4, Len(r) + 2)[i] = l[i + 3]
    BY <1>1, <1>5, <2>0 DEF Text
  <2>4. ASSUME NEW i \in 1 .. Len(r) - 1 PROVE l[i + 3] = r[i + 1]
    <3>1. i + 1 \in 1 .. Len(r) /\ (i + 1) + 2 = i + 3
      BY <1>1
    <3> QED BY <3>1, <1>6
  <2>5. SubSeq(l, 4, Len(r) + 2) = Tail(r)
    BY <2>2, <2>3, <2>4, <1>1, SeqEqual DEF Text
  <2> QED BY <2>1, <2>5
<1>9. l # <<>> /\ l \in Line /\ find(l, COLON) # 0 /\ (find(l, COLON) = Len(l) <=> r = <<>>)
  <2>1. Len(r) = 0 <=> r = <<>>
    BY <1>1 DEF Text
  <2> QED BY <1>1, <1>5, <1>7, <2>1 DEF Line
<1> QED BY <1>1, <1>3, <1>5, <1>8, <1>9

\* A line that was written is a line with a name and a value.
LEMMA LineRead ==
  ASSUME NEW h \in Header
  PROVE  LET l == HeaderLine(h) IN
         /\ l \in Line /\ l # <<>>
         /\ find(l, COLON) # 0 /\ find(l, COLON) # Len(l)
         /\ Before(l, COLON) = h.key /\ HeaderValue(l) = h.value
<1> DEFINE k == h.key
           x == k[1]
           v == h.value
           r == <<SP>> \o v
<1>1. /\ k \in Name /\ k = <<x>> /\ x \in Nat
      /\ v \in Text /\ Len(v) \in Nat /\ \A i \in 1 .. Len(v) : v[i] # LINE_END
  BY NameOrder DEF Line, Text
<1>2. COLON \in Nat /\ SP \in Nat /\ SP # LINE_END
  BY DEF COLON, SP, LINE_END
<1>3. HeaderLine(h) = RawLine(k, r)
  <2>1. HeaderLine(h) = k \o <<COLON, SP>> \o v
    BY DEF HeaderLine
  <2> HIDE DEF k, x, v
  <2>2. <<x>> \o <<COLON, SP>> \o v = <<x>> \o <<COLON>> \o (<<SP>> \o v)
    BY <1>1, <1>2 DEF Text
  <2> QED BY <1>1, <2>1, <2>2 DEF RawLine
<1> HIDE DEF k, x, v
<1>4. /\ r \in Text /\ Len(r) = Len(v) + 1 /\ \A i \in 1 .. Len(r) : r[i] # LINE_END
      /\ \A i \in 1 .. Len(v) : r[i + 1] = v[i]
  BY <1>1, <1>2 DEF Text
<1> HIDE DEF r
<1>5. r \in Line /\ r # <<>>
  BY <1>1, <1>4 DEF Line
<1>6. Tail(r) = v
  <2>1. /\ Tail(r) \in Text /\ Len(Tail(r)) = Len(v)
        /\ \A i \in 1 .. Len(v) : Tail(r)[i] = r[i + 1]
    BY <1>1, <1>4 DEF Text
  <2> QED BY <1>1, <1>4, <2>1, SeqEqual DEF Text
<1> QED BY <1>1, <1>3, <1>5, <1>6, RawLineRead DEF k, v

\* Lines without an empty one among them, and without the last line end.
Block ==
  {t \in Text :
     /\ t # <<>> /\ t[1] # LINE_END /\ t[Len(t)] # LINE_END
     /\ \A i \in 1 .. Len(t) - 1 : ~(t[i] = LINE_END /\ t[i + 1] = LINE_END)}

\* A line is a block.
LEMMA LineIsBlock ==
  ASSUME NEW a \in Line, a # <<>>
  PROVE  a \in Block
<1>1. a \in Text /\ Len(a) \in Nat /\ Len(a) # 0 /\ \A i \in 1 .. Len(a) : a[i] # LINE_END
  BY DEF Line, Text
<1>2. 1 \in 1 .. Len(a) /\ Len(a) \in 1 .. Len(a)
  BY <1>1
<1>3. \A i \in 1 .. Len(a) - 1 : i \in 1 .. Len(a)
  BY <1>1
<1> QED BY <1>1, <1>2, <1>3 DEF Block

\* A line before a block makes a block.
LEMMA LongerBlock ==
  ASSUME NEW a \in Line, a # <<>>, NEW b \in Block
  PROVE  a \o <<LINE_END>> \o b \in Block
<1> DEFINE n == Len(a)
           m == Len(b)
           t == a \o <<LINE_END>> \o b
<1>1. a \in Text /\ n \in Nat /\ n # 0 /\ \A i \in 1 .. n : a[i] # LINE_END
  BY DEF Line, Text
<1>2. /\ b \in Text /\ m \in Nat /\ m # 0 /\ b[1] # LINE_END /\ b[m] # LINE_END
      /\ \A i \in 1 .. m - 1 : ~(b[i] = LINE_END /\ b[i + 1] = LINE_END)
  BY DEF Block, Text
<1>3. LINE_END \in Nat
  BY DEF LINE_END
<1>4. /\ t \in Text /\ Len(t) = n + 1 + m
      /\ \A i \in 1 .. n : t[i] = a[i]
      /\ t[n + 1] = LINE_END
      /\ \A i \in 1 .. m : t[n + 1 + i] = b[i]
  BY <1>1, <1>2, <1>3 DEF Text
<1> HIDE DEF t, n, m
<1>5. t # <<>> /\ t[1] # LINE_END /\ t[Len(t)] # LINE_END
  <2>1. Len(t) # 0 /\ 1 \in 1 .. n /\ m \in 1 .. m
    BY <1>1, <1>2, <1>4
  <2> QED BY <2>1, <1>1, <1>2, <1>4
<1>6. ASSUME NEW i \in 1 .. Len(t) - 1, t[i] = LINE_END, t[i + 1] = LINE_END PROVE FALSE
  <2>1. i \in 1 .. n \/ i = n + 1 \/ i - n - 1 \in 1 .. m - 1
    BY <1>1, <1>2, <1>4
  <2>2. CASE i \in 1 .. n
    BY <2>2, <1>1, <1>4, <1>6
  <2>3. CASE i = n + 1
    <3>1. t[n + 1 + 1] = b[1] /\ i + 1 = n + 1 + 1
      BY <2>3, <1>1, <1>2, <1>4
    <3> QED BY <3>1, <1>2, <1>6
  <2>4. CASE i - n - 1 \in 1 .. m - 1
    <3> DEFINE j == i - n - 1
    <3>1. j \in 1 .. m - 1 /\ j \in 1 .. m /\ j + 1 \in 1 .. m /\ n + 1 + j = i /\ n + 1 + (j + 1) = i + 1
      BY <2>4, <1>1, <1>2, <1>4
    <3> HIDE DEF j
    <3>2. t[n + 1 + j] = b[j] /\ t[n + 1 + (j + 1)] = b[j + 1]
      BY <3>1, <1>4
    <3> QED BY <3>1, <3>2, <1>2, <1>6
  <2> QED BY <2>1, <2>2, <2>3, <2>4
<1> QED BY <1>4, <1>5, <1>6 DEF Block, t

\* What is before an empty line is the head.
LEMMA HeadIs ==
  ASSUME NEW a \in Block, NEW b \in Text
  PROVE  HeadOf(a \o <<LINE_END>> \o (<<LINE_END>> \o b)) = a
<1> DEFINE n == Len(a)
           t == a \o <<LINE_END>> \o (<<LINE_END>> \o b)
           ends == {i \in 1 .. Len(t) - 1 : t[i] = LINE_END /\ t[i + 1] = LINE_END}
<1>1. /\ a \in Text /\ n \in Nat /\ n # 0 /\ a[n] # LINE_END
      /\ \A i \in 1 .. n - 1 : ~(a[i] = LINE_END /\ a[i + 1] = LINE_END)
  BY DEF Block, Text
<1>2. LINE_END \in Nat
  BY DEF LINE_END
<1>3. /\ t \in Text /\ Len(t) = n + 2 + Len(b) /\ Len(b) \in Nat
      /\ \A i \in 1 .. n : t[i] = a[i]
      /\ t[n + 1] = LINE_END /\ t[n + 2] = LINE_END
  BY <1>1, <1>2 DEF Text
<1> HIDE DEF t, n
<1>4. n + 1 \in ends /\ ends \in SUBSET Nat
  BY <1>1, <1>3
<1>5. ASSUME NEW k \in ends PROVE n + 1 <= k
  <2> SUFFICES ASSUME k < n + 1 PROVE FALSE
    BY <1>1
  <2>1. k = n \/ k \in 1 .. n - 1
    BY <1>1
  <2>2. CASE k = n
    BY <2>2, <1>1, <1>3
  <2>3. CASE k \in 1 .. n - 1
    <3>1. k \in 1 .. n /\ k + 1 \in 1 .. n
      BY <2>3, <1>1
    <3> QED BY <3>1, <2>3, <1>1, <1>3
  <2> QED BY <2>1, <2>2, <2>3
<1>6. Min(ends) = n + 1
  <2> HIDE DEF ends
  <2> QED BY <1>4, <1>5, MinIs
<1>7. HeadOf(t) = SubSeq(t, 1, n)
  <2>1. HeadOf(t) = SubSeq(t, 1, Min(ends) - 1)
    BY <1>4 DEF HeadOf
  <2>2. (n + 1) - 1 = n
    BY <1>1
  <2> QED BY <2>1, <2>2, <1>6
<1>8. SubSeq(t, 1, n) = a
  <2>1. SubSeq(t, 1, n) \in Text /\ Len(SubSeq(t, 1, n)) = n
        /\ \A i \in 1 .. n : SubSeq(t, 1, n)[i] = a[i]
    BY <1>1, <1>3 DEF Text
  <2> QED BY <2>1, <1>1, SeqEqual DEF Text, n
<1> QED BY <1>7, <1>8 DEF t

\* Without its last symbol.
LEMMA FrontIs ==
  ASSUME NEW a \in Text, NEW c \in Nat
  PROVE  a \o <<c>> \in Text /\ a \o <<c>> # <<>> /\ Front(a \o <<c>>) = a
<1> DEFINE t == a \o <<c>>
<1>1. /\ t \in Text /\ Len(t) = Len(a) + 1 /\ Len(a) \in Nat
      /\ \A i \in 1 .. Len(a) : t[i] = a[i]
  BY DEF Text
<1> HIDE DEF t
<1>2. Front(t) = SubSeq(t, 1, Len(a))
  BY <1>1 DEF Front
<1>3. /\ SubSeq(t, 1, Len(a)) \in Text /\ Len(SubSeq(t, 1, Len(a))) = Len(a)
      /\ \A i \in 1 .. Len(a) : SubSeq(t, 1, Len(a))[i] = a[i]
  BY <1>1 DEF Text
<1>4. Front(t) = a
  BY <1>2, <1>3, SeqEqual DEF Text
<1>5. t # <<>>
  BY <1>1
<1> QED BY <1>1, <1>4, <1>5 DEF t

\* The first headers of a map are a map.
LEMMA PartOfMap ==
  ASSUME NEW m \in HeaderMap, NEW i \in 0 .. Len(m) - 1
  PROVE  /\ SubSeq(m, 1, i) \in HeaderMap /\ m[i + 1] \in Header
         /\ add(SubSeq(m, 1, i), m[i + 1].key, m[i + 1].value) = SubSeq(m, 1, i + 1)
<1> DEFINE a == SubSeq(m, 1, i)
           h == m[i + 1]
<1>1. m \in Seq(Header) /\ Len(m) \in Nat
  BY DEF HeaderMap
<1>2. h \in Header
  BY <1>1
<1>3. /\ a \in Seq(Header) /\ Len(a) = i
      /\ \A j \in 1 .. i : a[j] = m[j] /\ j \in 1 .. Len(m) /\ j <= i + 1
  BY <1>1
<1>4. i + 1 \in 1 .. Len(m)
  BY <1>1
<1>5. \A j, k \in 1 .. Len(m) : j <= k => m[j].key[1] <= m[k].key[1]
  BY DEF HeaderMap
<1>6. SubSeq(m, 1, i + 1) = Append(a, h)
  BY <1>1
<1> HIDE DEF a
<1>7. a \in HeaderMap
  BY <1>3, <1>5 DEF HeaderMap
<1>8. \A j \in 1 .. Len(a) : a[j].key[1] <= h.key[1]
  BY <1>3, <1>4, <1>5
<1> HIDE DEF h
<1>9. add(a, h.key, h.value) = Append(a, h)
  BY <1>2, <1>7, <1>8, AddAtEnd
<1> QED BY <1>2, <1>6, <1>7, <1>9 DEF a, h

\* Lines, each with its line end, are a block and a line end; the block is cut
\* into the lines again.
LEMMA LinesJoined ==
  ASSUME NEW n \in Nat \ {0}, NEW ls \in [1 .. n -> Line], \A i \in 1 .. n : ls[i] # <<>>
  PROVE  \E t \in Block :
           /\ FlattenSeq([i \in 1 .. n |-> ls[i] \o <<LINE_END>>]) = t \o <<LINE_END>>
           /\ Pieces(t, LINE_END) = ls /\ Len(ls) = n
<1> DEFINE fs == [i \in 1 .. n |-> ls[i] \o <<LINE_END>>]
<1>1. n \in Nat \ {0}
  OBVIOUS
<1>2. LINE_END \in Nat
  BY DEF LINE_END
<1>3. ASSUME NEW i \in 1 .. n
      PROVE  /\ ls[i] \in Line /\ ls[i] # <<>> /\ ls[i] \in Text
             /\ fs[i] = ls[i] \o <<LINE_END>> /\ fs[i] \in Text
             /\ \A j \in 1 .. Len(ls[i]) : ls[i][j] # LINE_END
  <2>1. ls[i] \in Line /\ ls[i] # <<>> /\ fs[i] = ls[i] \o <<LINE_END>>
    OBVIOUS
  <2> HIDE DEF fs
  <2>2. ls[i] \in Text /\ \A j \in 1 .. Len(ls[i]) : ls[i][j] # LINE_END
    BY <2>1 DEF Line
  <2>3. ls[i] \o <<LINE_END>> \in Text
    BY <2>2, <1>2, FrontIs
  <2> QED BY <2>1, <2>2, <2>3
<1>5. /\ fs \in Seq(Text) /\ Len(fs) = n
      /\ ls \in Seq(Text) /\ Len(ls) = n
  <2>1. fs \in [1 .. n -> Text] /\ ls \in [1 .. n -> Text]
    <3>1. \A i \in 1 .. n : fs[i] \in Text /\ ls[i] \in Text
      BY <1>3
    <3> QED BY <3>1
  <2> HIDE DEF fs
  <2> QED BY <2>1, <1>1, Listed
<1> HIDE DEF fs
<1>6. PICK F : /\ F[1] = FlattenSeq(fs)
               /\ F[n + 1] = <<>>
               /\ \A k \in 1 .. n + 1 : F[k] \in Text
               /\ \A k \in 1 .. n : F[k] = fs[k] \o F[k + 1]
  <2>1. \E R : /\ R[1] = FlattenSeq(fs)
               /\ R[Len(fs) + 1] = <<>>
               /\ \A k \in 1 .. Len(fs) + 1 : R[k] \in Text
               /\ \A k \in 1 .. Len(fs) : R[k] = fs[k] \o R[k + 1]
    BY <1>5, FlattenTable
  <2> QED BY <1>5, <2>1
<1> DEFINE R == [k \in 1 .. n |-> Front(F[k])]
           Good(k) == R[k] \in Block /\ F[k] = R[k] \o <<LINE_END>>
<1>7. R[n] = ls[n] /\ Good(n)
  <2> DEFINE a == ls[n]
  <2>0. n \in 1 .. n
    BY <1>1
  <2>1. F[n] = fs[n] \o F[n + 1] /\ R[n] = Front(F[n]) /\ fs[n] = a \o <<LINE_END>>
    BY <2>0, <1>3, <1>6
  <2>2. a \in Line /\ a # <<>> /\ a \in Text /\ fs[n] \in Text
    BY <1>1, <1>3
  <2> HIDE DEF a, R
  <2>3. fs[n] \o <<>> = fs[n]
    BY <2>2 DEF Text
  <2>4. F[n] = a \o <<LINE_END>>
    BY <2>1, <2>3, <1>6
  <2>5. R[n] = a
    BY <2>1, <2>2, <2>4, <1>2, FrontIs
  <2>6. a \in Block
    BY <2>2, LineIsBlock
  <2> QED BY <2>4, <2>5, <2>6 DEF a
<1>8. ASSUME NEW k \in 1 .. n - 1, Good(k + 1)
      PROVE  Good(k) /\ R[k] = ls[k] \o <<LINE_END>> \o R[k + 1]
  <2> DEFINE a == ls[k]
             b == R[k + 1]
  <2>1. k \in 1 .. n
    BY <1>1
  <2>2. F[k] = fs[k] \o F[k + 1] /\ R[k] = Front(F[k]) /\ fs[k] = a \o <<LINE_END>>
    BY <2>1, <1>3, <1>6
  <2>3. a \in Line /\ a # <<>> /\ a \in Text
    BY <2>1, <1>3
  <2>4. b \in Block /\ F[k + 1] = b \o <<LINE_END>>
    BY <1>8
  <2> HIDE DEF a, b, R
  <2>5. b \in Text /\ <<LINE_END>> \in Text
    BY <2>4, <1>2 DEF Block, Text
  <2> DEFINE t == a \o <<LINE_END>> \o b
  <2>6. t \in Block
    BY <2>3, <2>4, LongerBlock
  <2>7. F[k] = t \o <<LINE_END>>
    <3>1. a \o <<LINE_END>> \in Text
      BY <2>3, <2>5, ConcatTexts
    <3>2. (a \o <<LINE_END>>) \o (b \o <<LINE_END>>) = t \o <<LINE_END>>
      BY <3>1, <2>5, ConcatTexts
    <3> QED BY <3>2, <2>2, <2>4
  <2>8. t \in Text
    BY <2>6 DEF Block
  <2> HIDE DEF t
  <2>9. R[k] = t
    BY <2>2, <2>7, <2>8, <1>2, FrontIs
  <2> QED BY <2>6, <2>7, <2>9 DEF t, a, b
<1> HIDE DEF R
<1>9. \A k \in 1 .. n : Good(k)
  <2> HIDE DEF Good
  <2> DEFINE S == {j \in Nat : j < n => Good(n - j)}
  <2>1. 0 \in S
    BY <1>1, <1>7
  <2>2. ASSUME NEW j \in Nat, j \in S PROVE j + 1 \in S
    <3> SUFFICES ASSUME j + 1 < n PROVE Good(n - (j + 1))
      OBVIOUS
    <3> DEFINE k == n - (j + 1)
    <3>1. k \in 1 .. n - 1 /\ k + 1 = n - j /\ j < n
      BY <1>1
    <3> HIDE DEF k
    <3>2. Good(k + 1)
      BY <2>2, <3>1
    <3>3. Good(k)
      BY <3>1, <3>2, <1>8
    <3> QED BY <3>3 DEF k
  <2> HIDE DEF S
  <2>3. Nat \subseteq S
    BY <2>1, <2>2, NatSet
  <2> SUFFICES ASSUME NEW k \in 1 .. n PROVE Good(k)
    OBVIOUS
  <2>4. n - k \in S /\ n - k < n /\ n - (n - k) = k
    BY <1>1, <2>3
  <2> QED BY <2>4 DEF S
<1>10. JoinedBy(R, ls, LINE_END)
  <2>1. ls \in Seq(Text) /\ Len(ls) # 0 /\ ls[Len(ls)] # <<>>
    BY <1>1, <1>3, <1>5
  <2>2. \A k \in 1 .. Len(ls) : \A i \in 1 .. Len(ls[k]) : ls[k][i] # LINE_END
    BY <1>3, <1>5
  <2>3. R[Len(ls)] = ls[Len(ls)]
    BY <1>5, <1>7
  <2>4. \A k \in 1 .. Len(ls) : R[k] \in Text
    BY <1>5, <1>9 DEF Block
  <2>5. \A k \in 1 .. Len(ls) - 1 : R[k] = ls[k] \o <<LINE_END>> \o R[k + 1]
    <3>1. \A k \in 1 .. n - 1 : k + 1 \in 1 .. n
      BY <1>1
    <3> QED BY <3>1, <1>5, <1>8, <1>9
  <2> QED BY <2>1, <2>2, <2>3, <2>4, <2>5 DEF JoinedBy
<1>11. Pieces(R[1], LINE_END) = ls
  BY <1>2, <1>10, PiecesLemma
<1>12. R[1] \in Block /\ F[1] = R[1] \o <<LINE_END>>
  BY <1>1, <1>9
<1> QED BY <1>5, <1>6, <1>11, <1>12 DEF fs

\* Lines that have the names and the values of a map are read as the map.
LEMMA LinesRead ==
  ASSUME NEW m \in HeaderMap, NEW ls, Len(ls) = Len(m), NEW t, Pieces(t, LINE_END) = ls,
         \A i \in 1 .. Len(m) :
           /\ find(ls[i], COLON) # 0 /\ find(ls[i], COLON) # Len(ls[i])
           /\ Before(ls[i], COLON) = m[i].key /\ HeaderValue(ls[i]) = m[i].value
  PROVE  CreateHeaders(t) = [status |-> "ok", map |-> m]
<1> DEFINE n == Len(m)
<1>1. m \in Seq(Header) /\ n \in Nat
  BY DEF HeaderMap
<1>2. PICK z : /\ CreateHeaders(t) = z[n]
               /\ z[0] = [status |-> "ok", map |-> <<>>]
               /\ \A i \in 1 .. n : z[i] = AddLine(z[i - 1], ls[i])
  <2>1. Len(ls) \in Nat
    BY <1>1
  <2> QED BY <2>1, HeadersLoop
<1> DEFINE S == {i \in Nat : i <= n => z[i] = [status |-> "ok", map |-> SubSeq(m, 1, i)]}
<1>3. 0 \in S
  <2>1. SubSeq(m, 1, 0) = <<>>
    BY <1>1
  <2> QED BY <1>2, <2>1
<1>4. ASSUME NEW i \in Nat, i \in S PROVE i + 1 \in S
  <2> SUFFICES ASSUME i + 1 <= n PROVE z[i + 1] = [status |-> "ok", map |-> SubSeq(m, 1, i + 1)]
    OBVIOUS
  <2> DEFINE h == m[i + 1]
             l == ls[i + 1]
             p == SubSeq(m, 1, i)
  <2>1. i <= n /\ i + 1 \in 1 .. n /\ (i + 1) - 1 = i /\ i \in 0 .. n - 1
    BY <1>1
  <2>2. z[i] = [status |-> "ok", map |-> p]
    BY <1>4, <2>1
  <2>3. z[i + 1] = AddLine(z[i], l)
    BY <1>2, <2>1
  <2>4. add(p, h.key, h.value) = SubSeq(m, 1, i + 1)
    BY <2>1, PartOfMap
  <2>5. /\ find(l, COLON) # 0 /\ find(l, COLON) # Len(l)
        /\ Before(l, COLON) = h.key /\ HeaderValue(l) = h.value
    BY <2>1
  <2> HIDE DEF h, p, l
  <2>6. AddLine([status |-> "ok", map |-> p], l)
          = [status |-> "ok", map |-> add(p, h.key, h.value)]
    BY <2>5 DEF AddLine
  <2> QED BY <2>2, <2>3, <2>4, <2>6
<1> HIDE DEF S
<1>5. n \in S
  BY <1>1, <1>3, <1>4, NatSet
<1>6. z[n] = [status |-> "ok", map |-> SubSeq(m, 1, n)]
  BY <1>1, <1>5 DEF S
<1>7. SubSeq(m, 1, n) = m
  BY <1>1, SubSeqFull
<1> QED BY <1>2, <1>6, <1>7

\* The headers that were written are read, in their order.
LEMMA HeadersRead ==
  ASSUME NEW m \in HeaderMap, Len(m) # 0
  PROVE  \E t \in Block : /\ SerializeHeaders(m) = t \o <<LINE_END>>
                          /\ CreateHeaders(t) = [status |-> "ok", map |-> m]
<1> DEFINE n == Len(m)
           ls == [i \in 1 .. n |-> HeaderLine(m[i])]
<1>1. m \in Seq(Header) /\ n \in Nat \ {0} /\ DOMAIN m = 1 .. n
  BY DEF HeaderMap
<1>2. ASSUME NEW i \in 1 .. n
      PROVE  /\ ls[i] \in Line /\ ls[i] # <<>> /\ ls[i] = HeaderLine(m[i])
             /\ find(ls[i], COLON) # 0 /\ find(ls[i], COLON) # Len(ls[i])
             /\ Before(ls[i], COLON) = m[i].key /\ HeaderValue(ls[i]) = m[i].value
  <2>1. m[i] \in Header /\ ls[i] = HeaderLine(m[i])
    BY <1>1
  <2> HIDE DEF ls
  <2> QED BY <2>1, LineRead
<1>3. SerializeHeaders(m) = FlattenSeq([i \in 1 .. n |-> ls[i] \o <<LINE_END>>])
  BY <1>1 DEF SerializeHeaders, HeaderLine
<1>4. ls \in [1 .. n -> Line]
  BY <1>2
<1> HIDE DEF ls, n
<1>5. PICK t \in Block :
         /\ FlattenSeq([i \in 1 .. n |-> ls[i] \o <<LINE_END>>]) = t \o <<LINE_END>>
         /\ Pieces(t, LINE_END) = ls /\ Len(ls) = n
  BY <1>1, <1>2, <1>4, LinesJoined
<1>6. CreateHeaders(t) = [status |-> "ok", map |-> m]
  BY <1>2, <1>5, LinesRead DEF n
<1> QED BY <1>3, <1>5, <1>6

\* The headers of a peer, which give what follows their colons.
PeerMap(h) == [i \in DOMAIN h |-> [key |-> <<Host>>, value |-> Tail(h[i])]]
PeerLines(h) == FlattenSeq([i \in DOMAIN h |-> <<Host, COLON>> \o h[i] \o <<LINE_END>>])

\* They are a map when something does.
LEMMA PeerMapIs ==
  ASSUME NEW h \in Seq(Line), \A i \in DOMAIN h : h[i] # <<>>
  PROVE  PeerMap(h) \in HeaderMap /\ Len(PeerMap(h)) = Len(h)
<1> DEFINE m == PeerMap(h)
<1>1. Len(h) \in Nat /\ DOMAIN h = 1 .. Len(h)
  OBVIOUS
<1>2. ASSUME NEW i \in 1 .. Len(h) PROVE m[i] \in Header /\ m[i].key = <<Host>>
  <2>1. h[i] \in Text /\ Len(h[i]) \in Nat /\ Len(h[i]) # 0
        /\ \A j \in 1 .. Len(h[i]) : h[i][j] # LINE_END
    <3>1. h[i] \in Line /\ h[i] # <<>>
      BY <1>1
    <3> DEFINE r == h[i]
    <3> HIDE DEF r
    <3>2. r \in Text /\ Len(r) \in Nat /\ Len(r) # 0 /\ \A j \in 1 .. Len(r) : r[j] # LINE_END
      BY <3>1 DEF Line, Text, r
    <3> QED BY <3>2 DEF r
  <2> DEFINE r == h[i]
  <2>2. m[i] = [key |-> <<Host>>, value |-> Tail(r)]
    BY <1>1 DEF PeerMap
  <2> HIDE DEF r, m
  <2>3. /\ Tail(r) \in Text /\ Len(Tail(r)) = Len(r) - 1
        /\ \A j \in 1 .. Len(r) - 1 : Tail(r)[j] = r[j + 1] /\ j + 1 \in 1 .. Len(r)
    BY <2>1 DEF Text, r
  <2>4. Tail(r) \in Line
    BY <2>1, <2>3 DEF Line, r
  <2> QED BY <2>2, <2>4 DEF Header, Name
<1>3. m \in [1 .. Len(h) -> Header]
  <2>1. m = [i \in 1 .. Len(h) |-> m[i]]
    BY <1>1 DEF PeerMap
  <2> HIDE DEF m
  <2> QED BY <1>2, <2>1
<1> HIDE DEF m
<1>4. m \in Seq(Header) /\ Len(m) = Len(h)
  BY <1>1, <1>3, Listed
<1>5. \A i \in 1 .. Len(h) : m[i].key[1] = Host
  <2>1. \A k : k = <<Host>> => k[1] = Host
    OBVIOUS
  <2> QED BY <1>2, <2>1
<1>6. Host <= Host
  BY DEF Host
<1>7. m \in HeaderMap
  BY <1>4, <1>5, <1>6 DEF HeaderMap
<1> QED BY <1>4, <1>7 DEF m

\* What create() makes of the headers of a peer: the first that has nothing
\* after its colon makes substr() throw, and all of them are read when none
\* has.
LEMMA PeerHeadersRead ==
  ASSUME NEW h \in Seq(Line), Len(h) # 0
  PROVE  \E t \in Block :
           /\ PeerLines(h) = t \o <<LINE_END>>
           /\ (\E i \in DOMAIN h : h[i] = <<>>) => CreateHeaders(t) = [status |-> "throws"]
           /\ (\A i \in DOMAIN h : h[i] # <<>>) =>
                CreateHeaders(t) = [status |-> "ok", map |-> PeerMap(h)]
<1> DEFINE n == Len(h)
           ls == [i \in 1 .. n |-> RawLine(<<Host>>, h[i])]
<1>1. n \in Nat \ {0} /\ DOMAIN h = 1 .. n
  OBVIOUS
<1>2. ASSUME NEW i \in 1 .. n
      PROVE  /\ ls[i] \in Line /\ ls[i] # <<>> /\ ls[i] = RawLine(<<Host>>, h[i])
             /\ find(ls[i], COLON) # 0 /\ (find(ls[i], COLON) = Len(ls[i]) <=> h[i] = <<>>)
             /\ Before(ls[i], COLON) = <<Host>>
             /\ h[i] # <<>> => HeaderValue(ls[i]) = Tail(h[i])
  <2>1. h[i] \in Line /\ <<Host>> \in Name /\ ls[i] = RawLine(<<Host>>, h[i])
    BY DEF Name
  <2> HIDE DEF ls
  <2> QED BY <2>1, RawLineRead
<1>3. PeerLines(h) = FlattenSeq([i \in 1 .. n |-> ls[i] \o <<LINE_END>>])
  <2>1. <<Host>> \o <<COLON>> = <<Host, COLON>>
    <3>1. Host \in Nat /\ COLON \in Nat
      BY DEF Host, COLON
    <3> QED BY <3>1, TwoSymbols
  <2>2. \A i \in 1 .. n : <<Host, COLON>> \o h[i] \o <<LINE_END>> = ls[i] \o <<LINE_END>>
    BY <2>1 DEF RawLine
  <2> HIDE DEF ls
  <2>3. [i \in DOMAIN h |-> <<Host, COLON>> \o h[i] \o <<LINE_END>>]
          = [i \in 1 .. n |-> ls[i] \o <<LINE_END>>]
    BY <1>1, <2>2
  <2> QED BY <2>3 DEF PeerLines
<1>4. ls \in [1 .. n -> Line]
  BY <1>2
<1> HIDE DEF ls, n
<1>5. PICK t \in Block :
         /\ FlattenSeq([i \in 1 .. n |-> ls[i] \o <<LINE_END>>]) = t \o <<LINE_END>>
         /\ Pieces(t, LINE_END) = ls /\ Len(ls) = n
  BY <1>1, <1>2, <1>4, LinesJoined
<1>6. ASSUME \A i \in DOMAIN h : h[i] # <<>>
      PROVE  CreateHeaders(t) = [status |-> "ok", map |-> PeerMap(h)]
  <2> DEFINE m == PeerMap(h)
  <2>1. m \in HeaderMap /\ Len(m) = n
    BY <1>6, PeerMapIs DEF n
  <2>2. \A i \in 1 .. n : m[i].key = <<Host>> /\ m[i].value = Tail(h[i])
    BY <1>1 DEF PeerMap
  <2> HIDE DEF m
  <2>3. \A i \in 1 .. n :
          /\ find(ls[i], COLON) # 0 /\ find(ls[i], COLON) # Len(ls[i])
          /\ Before(ls[i], COLON) = m[i].key /\ HeaderValue(ls[i]) = m[i].value
    BY <1>1, <1>2, <1>6, <2>2
  <2> QED BY <1>5, <2>1, <2>3, LinesRead DEF m
<1>7. ASSUME NEW e \in DOMAIN h, h[e] = <<>>
      PROVE  CreateHeaders(t) = [status |-> "throws"]
  <2> DEFINE E == {i \in 1 .. n : h[i] = <<>>}
  <2>1. PICK k \in E : \A i \in E : k <= i
    <3>1. E \in SUBSET Nat /\ e \in E
      BY <1>1, <1>7
    <3> HIDE DEF E
    <3> QED BY <3>1, LeastNat
  <2>2. k \in 1 .. n /\ h[k] = <<>> /\ \A i \in 1 .. n : i < k => h[i] # <<>>
    BY <1>1, <2>1
  <2> HIDE DEF E
  <2>3. PICK z : /\ CreateHeaders(t) = z[n]
                 /\ z[0] = [status |-> "ok", map |-> <<>>]
                 /\ \A i \in 1 .. n : z[i] = AddLine(z[i - 1], ls[i])
    <3>1. Len(ls) \in Nat /\ Len(ls) = n /\ ls = Pieces(t, LINE_END)
      BY <1>1, <1>5
    <3>2. \E z : /\ CreateHeaders(t) = z[Len(ls)]
                 /\ z[0] = [status |-> "ok", map |-> <<>>]
                 /\ \A i \in 1 .. Len(ls) : z[i] = AddLine(z[i - 1], ls[i])
      BY <3>1, HeadersLoop
    <3> QED BY <3>1, <3>2
  <2> DEFINE S == {i \in Nat : i <= n =>
                     /\ i < k => z[i].status = "ok"
                     /\ i >= k => z[i] = [status |-> "throws"]}
  <2>4. 0 \in S
    BY <2>2, <2>3
  <2>5. ASSUME NEW i \in Nat, i \in S PROVE i + 1 \in S
    <3> SUFFICES ASSUME i + 1 <= n
                 PROVE  /\ i + 1 < k => z[i + 1].status = "ok"
                        /\ i + 1 >= k => z[i + 1] = [status |-> "throws"]
      OBVIOUS
    <3>1. i + 1 \in 1 .. n /\ (i + 1) - 1 = i /\ i <= n
      BY <1>1
    <3>2. z[i + 1] = AddLine(z[i], ls[i + 1])
      BY <2>3, <3>1
    <3>3. (i < k => z[i].status = "ok") /\ (i >= k => z[i] = [status |-> "throws"])
      BY <2>5, <3>1
    <3>4. /\ find(ls[i + 1], COLON) # 0
          /\ find(ls[i + 1], COLON) = Len(ls[i + 1]) <=> h[i + 1] = <<>>
      BY <1>2, <3>1
    <3>5. CASE i + 1 < k
      BY <2>2, <3>1, <3>2, <3>3, <3>4, <3>5 DEF AddLine
    <3>6. CASE i + 1 = k
      BY <2>2, <3>1, <3>2, <3>3, <3>4, <3>6 DEF AddLine
    <3>7. CASE i + 1 > k
      <4>1. i >= k
        BY <2>2, <3>7
      <4>2. AddLine([status |-> "throws"], ls[i + 1]) = [status |-> "throws"]
        BY DEF AddLine
      <4> QED BY <3>2, <3>3, <3>7, <4>1, <4>2, <2>2
    <3> QED BY <2>2, <3>5, <3>6, <3>7
  <2> HIDE DEF S
  <2>6. n \in S
    BY <1>1, <2>4, <2>5, NatSet
  <2> QED BY <1>1, <2>2, <2>3, <2>6 DEF S
<1> QED BY <1>3, <1>5, <1>6, <1>7

\* A map without headers is written as nothing.
LEMMA NoHeaders ==
  SerializeHeaders(<<>>) = <<>>
<1> DEFINE f == [i \in DOMAIN <<>> |->
                   <<>>[i].key \o <<COLON, SP>> \o <<>>[i].value \o <<LINE_END>>]
<1>1. SerializeHeaders(<<>>) = FlattenSeq(f)
  BY DEF SerializeHeaders
<1>2. DOMAIN f = 1 .. 0 /\ f = [i \in 1 .. 0 |-> f[i]]
  OBVIOUS
<1> HIDE DEF f
<1>3. f \in [1 .. 0 -> Nat]
  BY <1>2
<1>4. f \in Seq(Nat) /\ Len(f) = 0
  BY <1>3, Listed
<1>5. f = <<>>
  BY <1>4
<1> QED BY <1>1, <1>5 DEF FlattenSeq

\* A message: its first line, the lines of the headers, an empty line, the
\* content.
Parts(line, H, content) == line \o <<LINE_END>> \o H \o <<LINE_END>> \o content
Message(line, m, content) == Parts(line, SerializeHeaders(m), content)

\* The head is found, and refused when there are no headers.
LEMMA PartsRead ==
  ASSUME NEW line \in Line, line # <<>>, NEW H \in Text, NEW content \in Text
  PROVE  LET t == Parts(line, H, content) IN
         /\ H = <<>> => CreateHead(t) = [status |-> "invalid"]
         /\ \A b \in Block : H = b \o <<LINE_END>> =>
              CreateHead(t) =
                IF CreateHeaders(b).status # "ok" THEN CreateHeaders(b)
                ELSE [status |-> "ok", fields |-> Fields(line), map |-> CreateHeaders(b).map]
<1> DEFINE t == Parts(line, H, content)
           rest == <<LINE_END>> \o content
<1>1. LINE_END \in Nat /\ <<LINE_END>> \in Text
  BY DEF LINE_END, Text
<1>2. line \in Text /\ line \in Block /\ \A i \in 1 .. Len(line) : line[i] # LINE_END
  BY LineIsBlock DEF Line
<1>3. rest \in Text
  BY <1>1 DEF Text
<1>4. ASSUME H = <<>> PROVE CreateHead(t) = [status |-> "invalid"]
  <2>1. t = line \o <<LINE_END>> \o rest
    <3>1. t = line \o <<LINE_END>> \o <<>> \o <<LINE_END>> \o content
      BY <1>4 DEF Parts
    <3>2. line \o <<LINE_END>> \in Text
      BY <1>1, <1>2, ConcatTexts
    <3>3. line \o <<LINE_END>> \o <<>> = line \o <<LINE_END>>
      BY <3>2 DEF Text
    <3>4. (line \o <<LINE_END>>) \o <<LINE_END>> \o content = (line \o <<LINE_END>>) \o rest
      BY <1>1, <3>2, ConcatTexts
    <3> QED BY <3>1, <3>3, <3>4
  <2>2. HeadOf(t) = line
    BY <1>2, <2>1, HeadIs
  <2>3. find(line, LINE_END) = 0
    BY <1>2, NoSplit
  <2> QED BY <2>2, <2>3 DEF CreateHead, FirstLineFound
<1>5. ASSUME NEW b \in Block, H = b \o <<LINE_END>>
      PROVE  CreateHead(t) =
               IF CreateHeaders(b).status # "ok" THEN CreateHeaders(b)
               ELSE [status |-> "ok", fields |-> Fields(line), map |-> CreateHeaders(b).map]
  <2> DEFINE head == line \o <<LINE_END>> \o b
  <2>3. b \in Text
    BY DEF Block
  <2>4. line \o <<LINE_END>> \in Text /\ head \in Text
    BY <1>1, <1>2, <2>3, ConcatTexts
  <2>5. t = head \o <<LINE_END>> \o rest
    <3>1. t = line \o <<LINE_END>> \o (b \o <<LINE_END>>) \o <<LINE_END>> \o content
      BY <1>5 DEF Parts
    <3>2. (line \o <<LINE_END>>) \o (b \o <<LINE_END>>) = head \o <<LINE_END>>
      BY <1>1, <2>3, <2>4, ConcatTexts
    <3>3. head \o <<LINE_END>> \in Text
      BY <1>1, <2>4, ConcatTexts
    <3>4. (head \o <<LINE_END>>) \o <<LINE_END>> \o content = (head \o <<LINE_END>>) \o rest
      BY <1>1, <3>3, ConcatTexts
    <3> HIDE DEF head, t
    <3> QED BY <3>1, <3>2, <3>4
  <2>6. HeadOf(t) = head
    <3>1. head \in Block
      BY LongerBlock
    <3> HIDE DEF head
    <3> QED BY <2>5, <3>1, HeadIs
  <2>7. /\ find(head, LINE_END) # 0
        /\ Before(head, LINE_END) = line /\ After(head, LINE_END) = b
    BY <1>1, <1>2, <2>3, Split
  <2> HIDE DEF head, t
  <2> QED BY <2>6, <2>7 DEF CreateHead, FirstLineFound
<1> QED BY <1>4, <1>5

\* The headers of a map are no text, or a block and a line end.
LEMMA SerializedHeaders ==
  ASSUME NEW m \in HeaderMap
  PROVE  /\ SerializeHeaders(m) \in Text
         /\ m = <<>> => SerializeHeaders(m) = <<>>
         /\ m # <<>> => \E b \in Block : /\ SerializeHeaders(m) = b \o <<LINE_END>>
                                         /\ CreateHeaders(b) = [status |-> "ok", map |-> m]
<1>1. CASE m = <<>>
  <2>1. <<>> \in Text
    BY DEF Text
  <2> QED BY <1>1, <2>1, NoHeaders
<1>2. CASE m # <<>>
  <2>1. Len(m) # 0
    <3>1. m \in Seq(Header)
      BY DEF HeaderMap
    <3> QED BY <3>1, <1>2
  <2>2. PICK b \in Block : /\ SerializeHeaders(m) = b \o <<LINE_END>>
                           /\ CreateHeaders(b) = [status |-> "ok", map |-> m]
    BY <2>1, HeadersRead
  <2>3. b \o <<LINE_END>> \in Text
    <3>1. b \in Text /\ LINE_END \in Nat
      BY DEF Block, LINE_END
    <3> QED BY <3>1, FrontIs
  <2> QED BY <1>2, <2>2, <2>3
<1> QED BY <1>1, <1>2

\* The first line and the headers are read as they were written, unless there
\* are no headers.
LEMMA HeadRead ==
  ASSUME NEW line \in Line, line # <<>>, NEW m \in HeaderMap, NEW content \in Text
  PROVE  LET t == Message(line, m, content) IN
         /\ m = <<>> => CreateHead(t) = [status |-> "invalid"]
         /\ m # <<>> => CreateHead(t) = [status |-> "ok", fields |-> Fields(line), map |-> m]
<1>1. CASE m = <<>>
  BY <1>1, SerializedHeaders, PartsRead DEF Message
<1>2. CASE m # <<>>
  <2>1. PICK b \in Block : /\ SerializeHeaders(m) = b \o <<LINE_END>>
                           /\ CreateHeaders(b) = [status |-> "ok", map |-> m]
    BY <1>2, SerializedHeaders
  <2>2. SerializeHeaders(m) \in Text
    BY SerializedHeaders
  <2>3. CreateHeaders(b).status = "ok" /\ CreateHeaders(b).map = m
    BY <2>1
  <2> QED BY <1>2, <2>1, <2>2, <2>3, PartsRead DEF Message
<1> QED BY <1>1, <1>2

-----------------------------------------------------------------------------
(* The first line.                                                         *)

\* A line of three fields, of which the first two have no blank.
LEMMA FieldsRead ==
  ASSUME NEW a \in Text, NEW b \in Text, NEW v \in Text,
         \A i \in 1 .. Len(a) : a[i] # SP, \A i \in 1 .. Len(b) : b[i] # SP
  PROVE  Fields(a \o <<SP>> \o b \o <<SP>> \o v) = <<a, b, v>>
<1> DEFINE rest == b \o <<SP>> \o v
           line == a \o <<SP>> \o rest
<1>1. SP \in Nat /\ <<SP>> \in Text
  BY DEF SP, Text
<1>2. /\ rest \in Text /\ find(rest, SP) # 0
      /\ Before(rest, SP) = b /\ After(rest, SP) = v
  BY <1>1, Split
<1>3. line = a \o <<SP>> \o b \o <<SP>> \o v
  <2>1. a \o <<SP>> \in Text /\ b \o <<SP>> \in Text
    BY <1>1, ConcatTexts
  <2> DEFINE aa == a \o <<SP>>
             bb == b \o <<SP>>
  <2>2. aa \o (bb \o v) = (aa \o bb) \o v
    <3>1. aa \in Text /\ bb \in Text
      BY <2>1
    <3> HIDE DEF aa, bb
    <3> QED BY <3>1, ConcatTexts, SMTT(20)
  <2>3. (a \o <<SP>>) \o (b \o <<SP>>) = a \o <<SP>> \o b \o <<SP>>
    BY <1>1, <2>1, ConcatTexts, SMTT(20)
  <2> QED BY <2>2, <2>3
<1> HIDE DEF rest
<1>4. find(line, SP) # 0 /\ Before(line, SP) = a /\ After(line, SP) = rest
  BY <1>1, <1>2, Split
<1> HIDE DEF line
<1>5. Fields(line) = <<a, b, v>>
  BY <1>2, <1>4 DEF Fields
<1> QED BY <1>3, <1>5

\* A sequence of texts of an alphabet, flattened from the i-th text on.
LEMMA FlattenIn ==
  ASSUME NEW A \in SUBSET Nat, NEW ss \in Seq(Seq(A))
  PROVE  \E R : /\ R[1] = FlattenSeq(ss)
                /\ R[Len(ss) + 1] = <<>>
                /\ \A k \in 1 .. Len(ss) + 1 : R[k] \in Seq(A)
                /\ \A k \in 1 .. Len(ss) : R[k] = ss[k] \o R[k + 1]
<1> DEFINE n == Len(ss)
<1>1. ss \in Seq(Text) /\ n \in Nat /\ \A k \in 1 .. n : ss[k] \in Seq(A)
  <2>1. n \in Nat /\ ss \in [1 .. n -> Seq(A)]
    BY LenProperties
  <2>2. Seq(A) \subseteq Text
    BY SeqMonotonic DEF Text
  <2>3. ss \in [1 .. n -> Text]
    BY <2>1, <2>2
  <2> QED BY <2>1, <2>3, Listed
<1>2. PICK R : /\ R[1] = FlattenSeq(ss)
               /\ R[n + 1] = <<>>
               /\ \A k \in 1 .. n + 1 : R[k] \in Text
               /\ \A k \in 1 .. n : R[k] = ss[k] \o R[k + 1]
  BY <1>1, FlattenTable
<1> HIDE DEF n
<1> DEFINE S == {j \in Nat : j <= n => R[n + 1 - j] \in Seq(A)}
<1>3. 0 \in S
  <2>1. n + 1 - 0 = n + 1 /\ <<>> \in Seq(A)
    BY <1>1
  <2> QED BY <1>2, <2>1
<1>4. ASSUME NEW j \in Nat, j \in S PROVE j + 1 \in S
  <2> SUFFICES ASSUME j + 1 <= n PROVE R[n + 1 - (j + 1)] \in Seq(A)
    OBVIOUS
  <2> DEFINE k == n - j
  <2>1. k \in 1 .. n /\ k + 1 = n + 1 - j /\ k = n + 1 - (j + 1)
    BY <1>1
  <2>2. R[k + 1] \in Seq(A)
    BY <1>1, <1>4, <2>1
  <2>3. R[k] = ss[k] \o R[k + 1] /\ ss[k] \in Seq(A)
    BY <1>1, <1>2, <2>1
  <2> HIDE DEF k
  <2>4. R[k] \in Seq(A)
    BY <2>2, <2>3
  <2> QED BY <2>1, <2>4
<1>5. Nat \subseteq S
  BY <1>3, <1>4, NatSet
<1>6. ASSUME NEW k \in 1 .. n + 1 PROVE R[k] \in Seq(A)
  <2>1. n + 1 - k \in Nat /\ n + 1 - k <= n /\ n + 1 - (n + 1 - k) = k
    BY <1>1
  <2> QED BY <1>5, <2>1
<1> QED BY <1>2, <1>6 DEF n

-----------------------------------------------------------------------------
(* URL encoding.                                                           *)

Byte == 0 .. 127
Value == Seq(Byte)

Escape(ch) == <<PERCENT, to_hex(ch \div 16), to_hex(ch % 16)>>

\* The characters an encoded text is made of.
EncodedChar == {ch \in Byte : Unreserved(ch) \/ ch = PERCENT}

\* R[k] codes the text s from its k-th character on: each stands for itself,
\* but for a % and a +, or is escaped.
CodesFrom(R, s) ==
  /\ R[Len(s) + 1] = <<>>
  /\ \A k \in 1 .. Len(s) + 1 : R[k] \in Text
  /\ \A k \in 1 .. Len(s) :
       \/ s[k] \notin {PERCENT, PLUS} /\ R[k] = <<s[k]>> \o R[k + 1]
       \/ R[k] = Escape(s[k]) \o R[k + 1]

Coded(t, s) == s \in Value /\ \E R : R[1] = t /\ CodesFrom(R, s)

\* What is escaped is an encoded text, and from_hex undoes to_hex.
LEMMA EscapeIs ==
  ASSUME NEW ch \in Byte
  PROVE  /\ Escape(ch) \in Seq(EncodedChar) /\ Escape(ch) \in Text
         /\ Len(Escape(ch)) = 3 /\ Escape(ch)[1] = PERCENT
         /\ from_hex(Escape(ch)[2]) * 16 + from_hex(Escape(ch)[3]) = ch
<1> DEFINE hi == ch \div 16
           lo == ch % 16
<1>1. hi \in 0 .. 7 /\ lo \in 0 .. 15 /\ ch = hi * 16 + lo
  BY DEF Byte
<1> HIDE DEF hi, lo
<1>2. \A d \in 0 .. 15 : to_hex(d) \in (48 .. 57) \cup (97 .. 102) /\ from_hex(to_hex(d)) = d
  BY DEF to_hex, from_hex
<1>3. \A d \in 0 .. 15 : to_hex(d) \in EncodedChar
  BY <1>2 DEF EncodedChar, Unreserved, Byte
<1>4. PERCENT \in EncodedChar
  BY DEF EncodedChar, PERCENT, Byte
<1>5. EncodedChar \subseteq Nat
  BY DEF EncodedChar, Byte
<1>6. Escape(ch) = <<PERCENT, to_hex(hi), to_hex(lo)>>
  BY DEF Escape, hi, lo
<1>7. to_hex(hi) \in EncodedChar /\ to_hex(lo) \in EncodedChar
  BY <1>1, <1>3
<1>8. from_hex(to_hex(hi)) = hi /\ from_hex(to_hex(lo)) = lo
  BY <1>1, <1>2
<1> DEFINE x == to_hex(hi)
           y == to_hex(lo)
<1>9. /\ x \in EncodedChar /\ y \in EncodedChar
      /\ from_hex(x) * 16 + from_hex(y) = ch /\ Escape(ch) = <<PERCENT, x, y>>
  BY <1>1, <1>6, <1>7, <1>8
<1> HIDE DEF x, y
<1>10. <<PERCENT, x, y>> \in Seq(EncodedChar) /\ <<PERCENT, x, y>> \in Text
  BY <1>4, <1>5, <1>9 DEF Text
<1> QED BY <1>9, <1>10

\* url_decode() undoes a coding.
LEMMA Decoded ==
  ASSUME NEW t, NEW s, Coded(t, s)
  PROVE  t \in Text /\ url_decode(t) = s
<1> DEFINE n == Len(s)
           N == Len(t)
<1>1. PICK R : R[1] = t /\ CodesFrom(R, s)
  BY DEF Coded
<1>2. /\ s \in Value /\ n \in Nat /\ \A k \in 1 .. n : s[k] \in Byte
      /\ \A k \in 1 .. n + 1 : R[k] \in Text
      /\ R[n + 1] = <<>>
  BY <1>1 DEF Coded, CodesFrom, Value
<1>3. t \in Text /\ N \in Nat
  BY <1>1, <1>2 DEF Text
<1>4. ASSUME NEW k \in 1 .. n
      PROVE  \E P \in Text : /\ R[k] = P \o R[k + 1]
                             /\ \/ s[k] \notin {PERCENT, PLUS} /\ P = <<s[k]>>
                                \/ P = Escape(s[k])
  <2> DEFINE ch == s[k]
  <2>0. ch \in Byte /\ ch \in Nat
    <3>1. ch \in Byte
      BY <1>2
    <3> HIDE DEF ch
    <3> QED BY <3>1 DEF Byte
  <2>1. s[k] \in Byte /\ <<s[k]>> \in Text
    <3> HIDE DEF ch
    <3>1. <<ch>> \in Text
      BY <2>0 DEF Text
    <3> QED BY <2>0, <3>1 DEF ch
  <2>2. Escape(s[k]) \in Text
    BY <2>1, EscapeIs
  <2>3. \/ s[k] \notin {PERCENT, PLUS} /\ R[k] = <<s[k]>> \o R[k + 1]
        \/ R[k] = Escape(s[k]) \o R[k + 1]
    BY <1>1 DEF CodesFrom
  <2> QED BY <2>1, <2>2, <2>3
<1> DEFINE from(m) == N - Len(R[m])
<1>5. ASSUME NEW k \in 1 .. n, NEW P \in Text, R[k] = P \o R[k + 1]
      PROVE  /\ R[k] \in Text /\ R[k + 1] \in Text
             /\ Len(R[k]) \in Nat /\ Len(R[k + 1]) \in Nat /\ Len(P) \in Nat
             /\ Len(R[k]) = Len(P) + Len(R[k + 1])
             /\ \A i \in 1 .. Len(P) : R[k][i] = P[i]
             /\ \A i \in 1 .. Len(R[k + 1]) : R[k][Len(P) + i] = R[k + 1][i]
  <2> DEFINE b == R[k + 1]
  <2>1. k + 1 \in 1 .. n + 1 /\ k \in 1 .. n + 1
    BY <1>2
  <2>2. b \in Text /\ R[k] = P \o b /\ R[k] \in Text
    BY <1>2, <1>5, <2>1
  <2> HIDE DEF b
  <2>3. /\ Len(R[k]) \in Nat /\ Len(b) \in Nat /\ Len(P) \in Nat
        /\ Len(R[k]) = Len(P) + Len(b)
        /\ \A i \in 1 .. Len(P) : R[k][i] = P[i]
        /\ \A i \in 1 .. Len(b) : R[k][Len(P) + i] = b[i]
    BY <2>2 DEF Text
  <2> QED BY <2>2, <2>3 DEF b
\* What is left is the end of the text.
<1> DEFINE End(m) == /\ Len(R[m]) \in Nat /\ Len(R[m]) <= N - (m - 1)
                     /\ \A i \in 1 .. Len(R[m]) : t[from(m) + i] = R[m][i]
<1> HIDE DEF End
<1>6. \A k \in 1 .. n + 1 : End(k)
  <2> DEFINE S == {j \in Nat : j <= n => End(j + 1)}
  <2>1. 0 \in S
    <3>1. from(1) = 0 /\ Len(R[1]) = N /\ N - (1 - 1) = N
      BY <1>1, <1>3
    <3>2. End(1)
      BY <1>1, <1>3, <3>1 DEF End
    <3>3. 0 + 1 = 1
      OBVIOUS
    <3> QED BY <3>2, <3>3
  <2>2. ASSUME NEW j \in Nat, j \in S PROVE j + 1 \in S
    <3> SUFFICES ASSUME j + 1 <= n PROVE End(j + 1 + 1)
      OBVIOUS
    <3> DEFINE k == j + 1
               L == Len(R[k])
               M == Len(R[k + 1])
    <3>1. k \in 1 .. n /\ End(k)
      <4>1. j <= n /\ k \in 1 .. n
        BY <1>2
      <4> QED BY <2>2, <4>1
    <3>2. PICK P \in Text : /\ R[k] = P \o R[k + 1]
                            /\ \/ s[k] \notin {PERCENT, PLUS} /\ P = <<s[k]>>
                               \/ P = Escape(s[k])
      BY <1>4, <3>1
    <3>3. /\ L \in Nat /\ M \in Nat /\ Len(P) \in Nat /\ L = Len(P) + M
          /\ \A i \in 1 .. M : R[k][Len(P) + i] = R[k + 1][i]
      BY <1>5, <3>1, <3>2
    <3>4. Len(P) >= 1
      <4>1. s[k] \in Byte
        BY <1>2, <3>1
      <4>2. Len(Escape(s[k])) = 3
        BY <4>1, EscapeIs
      <4> DEFINE ch == s[k]
                 e == Escape(s[k])
      <4>3. P = <<ch>> \/ P = e
        BY <3>2
      <4>4. Len(e) = 3
        BY <4>2
      <4> HIDE DEF ch, e
      <4>5. Len(<<ch>>) = 1
        OBVIOUS
      <4>6. P = <<ch>> => Len(P) = 1
        BY <4>5
      <4>7. P = e => Len(P) = 3
        BY <4>4
      <4> QED BY <4>3, <4>6, <4>7
    <3> HIDE DEF L, M, k
    <3>50. L <= N - (k - 1) /\ \A i \in 1 .. L : t[from(k) + i] = R[k][i]
      BY <3>1 DEF L, End
    <3>5. M <= N - ((k + 1) - 1)
      BY <1>3, <3>1, <3>3, <3>4, <3>50
    <3>6. ASSUME NEW i \in 1 .. M PROVE t[from(k + 1) + i] = R[k + 1][i]
      <4>1. Len(P) + i \in 1 .. L /\ from(k + 1) + i = from(k) + (Len(P) + i)
        BY <1>3, <3>3 DEF L, M
      <4>2. t[from(k) + (Len(P) + i)] = R[k][Len(P) + i]
        BY <3>50, <4>1
      <4> QED BY <3>3, <4>1, <4>2
    <3>7. End(k + 1)
      <4>1. Len(R[k + 1]) \in Nat /\ Len(R[k + 1]) <= N - ((k + 1) - 1)
        BY <3>3, <3>5 DEF M
      <4>2. \A i \in 1 .. Len(R[k + 1]) : t[from(k + 1) + i] = R[k + 1][i]
        BY <3>6 DEF M
      <4> QED BY <4>1, <4>2 DEF End
    <3> QED BY <3>7 DEF k
  <2>3. Nat \subseteq S
    BY <2>1, <2>2, NatSet
  <2>4. ASSUME NEW k \in 1 .. n + 1 PROVE End(k)
    <3>1. k - 1 \in Nat /\ k - 1 <= n /\ k - 1 + 1 = k
      BY <1>2
    <3> QED BY <2>3, <3>1
  <2> QED BY <2>4
<1>7. n <= N
  <2>1. Len(R[n + 1]) <= N - (n + 1 - 1) /\ Len(R[n + 1]) = 0
    <3>1. n + 1 \in 1 .. n + 1
      BY <1>2
    <3>2. End(n + 1)
      BY <1>6, <3>1
    <3>3. Len(<<>>) = 0 /\ Len(R[n + 1]) <= N - (n + 1 - 1)
      BY <3>2 DEF End
    <3> QED BY <1>2, <3>3
  <2> QED BY <1>2, <1>3, <2>1
<1>8. PICK z : /\ url_decode(t) = z[N].result
               /\ z[0] = [it |-> 1, result |-> <<>>]
               /\ \A i \in 1 .. N : z[i] = DecodeOne(t, z[i - 1])
  BY <1>3, DecodeLoop
<1> DEFINE turn(j) == IF j <= n THEN [it |-> from(j + 1) + 1, result |-> SubSeq(s, 1, j)]
                      ELSE [it |-> N + 1, result |-> s]
\* One turn, of a character and of what is left.
<1>9. ASSUME NEW j \in Nat, j + 1 <= n, z[j] = turn(j), z[j + 1] = DecodeOne(t, z[j])
      PROVE  z[j + 1] = turn(j + 1)
  <2> DEFINE k == j + 1
             L == Len(R[k])
             M == Len(R[k + 1])
             it == from(k) + 1
             got == SubSeq(s, 1, j)
             now == [it |-> it, result |-> got]
  <2>1. k \in 1 .. n /\ z[j] = now
    BY <1>2, <1>9
  <2>2. Append(got, s[k]) = SubSeq(s, 1, k)
    BY <1>2, <2>1, SubSeqRecursiveSecond DEF Value
  <2>3. PICK P \in Text : /\ R[k] = P \o R[k + 1]
                          /\ \/ s[k] \notin {PERCENT, PLUS} /\ P = <<s[k]>>
                             \/ P = Escape(s[k])
    BY <1>4, <2>1
  <2>4. /\ L \in Nat /\ M \in Nat /\ Len(P) \in Nat /\ L = Len(P) + M
        /\ \A i \in 1 .. Len(P) : R[k][i] = P[i]
    BY <1>5, <2>1, <2>3
  <2>5. L <= N /\ \A i \in 1 .. L : t[from(k) + i] = R[k][i]
    <3>1. End(k)
      BY <1>2, <1>6, <2>1
    <3>2. L <= N - (k - 1) /\ \A i \in 1 .. L : t[from(k) + i] = R[k][i]
      BY <3>1 DEF End
    <3> HIDE DEF L, k
    <3>3. L <= N
      <4>1. k - 1 >= 0 /\ k \in Nat
        BY <2>1 DEF k
      <4> QED BY <1>3, <2>4, <3>2, <4>1
    <3> QED BY <3>2, <3>3
  <2>6. it = N - L + 1
    OBVIOUS
  <2>7. ASSUME NEW i \in 1 .. Len(P) PROVE t[N - L + i] = P[i]
    <3>1. i \in 1 .. L /\ R[k][i] = P[i] /\ N - L = from(k)
      BY <2>4
    <3> QED BY <2>5, <3>1
  <2> HIDE DEF L, M, it, got, k
  <2>8. z[k] = DecodeOne(t, now) /\ now.it = it /\ now.result = got
    BY <1>9, <2>1 DEF k
  <2>9. turn(k) = [it |-> N - M + 1, result |-> SubSeq(s, 1, k)]
    BY <2>1 DEF M, k
  <2> HIDE DEF now
  <2>10. CASE s[k] \notin {PERCENT, PLUS} /\ P = <<s[k]>>
    <3>1. Len(P) = 1 /\ P[1] = s[k]
      BY <2>10
    <3>2. t[it] = s[k] /\ ~(it > N) /\ it + 1 = N - M + 1
      BY <1>3, <2>4, <2>5, <2>6, <2>7, <3>1
    <3>3. DecodeOne(t, now) = [it |-> it + 1, result |-> Append(got, s[k])]
      BY <2>8, <2>10, <3>2 DEF DecodeOne
    <3> QED BY <2>2, <2>8, <2>9, <3>2, <3>3 DEF k
  <2>11. CASE P = Escape(s[k])
    <3>1. /\ Len(P) = 3 /\ P[1] = PERCENT
          /\ from_hex(P[2]) * 16 + from_hex(P[3]) = s[k]
      BY <1>2, <2>1, <2>11, EscapeIs
    <3>2. /\ t[it] = PERCENT /\ t[it + 1] = P[2] /\ t[it + 2] = P[3]
          /\ ~(it > N) /\ ~(it + 2 > N) /\ it + 3 = N - M + 1
      <4>1. 1 \in 1 .. Len(P) /\ 2 \in 1 .. Len(P) /\ 3 \in 1 .. Len(P)
        BY <3>1
      <4>2. /\ N - L + 1 = it /\ N - L + 2 = it + 1 /\ N - L + 3 = it + 2
            /\ ~(it > N) /\ ~(it + 2 > N) /\ it + 3 = N - M + 1
        BY <1>3, <2>4, <2>5, <2>6, <3>1
      <4>3. /\ t[N - L + 1] = P[1] /\ t[N - L + 2] = P[2] /\ t[N - L + 3] = P[3]
        BY <2>7, <4>1
      <4> QED BY <3>1, <4>2, <4>3
    <3>3. DecodeOne(t, now) = [it |-> it + 3, result |-> Append(got, s[k])]
      BY <2>8, <3>1, <3>2 DEF DecodeOne
    <3> QED BY <2>2, <2>8, <2>9, <3>2, <3>3, SMTT(20) DEF k
  <2> QED BY <2>3, <2>10, <2>11
<1>10. SubSeq(s, 1, n) = s /\ from(n + 1) = N
  BY <1>2, <1>3, SubSeqFull DEF Value
<1>11. ASSUME NEW j \in Nat, n <= j, z[j] = turn(j), z[j + 1] = DecodeOne(t, z[j])
       PROVE  z[j + 1] = turn(j + 1)
  <2>1. turn(j) = [it |-> N + 1, result |-> s]
    <3>1. j <= n => j = n
      BY <1>2, <1>11
    <3> QED BY <1>10, <3>1
  <2>2. turn(j + 1) = [it |-> N + 1, result |-> s]
    BY <1>2, <1>11
  <2>3. DecodeOne(t, z[j]) = z[j]
    <3>1. z[j] = [it |-> N + 1, result |-> s]
      BY <1>11, <2>1
    <3> HIDE DEF turn
    <3>2. z[j].it = N + 1 /\ N + 1 > N
      BY <1>3, <3>1
    <3> QED BY <3>2 DEF DecodeOne
  <2> QED BY <1>11, <2>1, <2>2, <2>3, SMTT(20)
<1>12. Nat \subseteq {j \in Nat : j <= N => z[j] = turn(j)}
  <2> DEFINE S == {j \in Nat : j <= N => z[j] = turn(j)}
  <2>1. 0 \in S
    <3>1. from(1) + 1 = 1 /\ SubSeq(s, 1, 0) = <<>> /\ 0 <= n
      BY <1>1, <1>2, <1>3
    <3> HIDE DEF from
    <3>2. turn(0) = [it |-> 1, result |-> <<>>]
      BY <3>1
    <3> QED BY <1>8, <3>2
  <2> HIDE DEF turn
  <2>2. ASSUME NEW j \in Nat, j \in S PROVE j + 1 \in S
    <3> SUFFICES ASSUME j + 1 <= N PROVE z[j + 1] = turn(j + 1)
      OBVIOUS
    <3>1. z[j] = turn(j) /\ j + 1 \in 1 .. N /\ j + 1 - 1 = j
      BY <1>3, <2>2
    <3>2. z[j + 1] = DecodeOne(t, z[j])
      BY <1>8, <3>1
    <3>3. j + 1 <= n \/ n <= j
      BY <1>2
    <3> QED BY <1>9, <1>11, <3>1, <3>2, <3>3
  <2>3. Nat \subseteq S
    BY <2>1, <2>2, NatSet
  <2> QED BY <2>3
<1>13. turn(N).result = s
  <2>1. N <= n => N = n
    BY <1>2, <1>3, <1>7
  <2> QED BY <1>10, <2>1
<1>14. z[N] = turn(N)
  <2> HIDE DEF turn
  <2> QED BY <1>3, <1>12
<1> QED BY <1>3, <1>8, <1>13, <1>14

\* What an encoded text is made of has no meaning in a first line.
LEMMA EncodedChars ==
  /\ EncodedChar \subseteq Byte /\ EncodedChar \subseteq Nat /\ Byte \subseteq Nat
  /\ \A ch \in EncodedChar : ch \notin {0, SP, AMP, PLUS, EQ, QUERY, LINE_END}
  /\ LINE_END \notin Byte
  /\ Value \subseteq Text
  /\ \A x \in Value : x \in Line
<1>1. /\ EncodedChar \subseteq Byte /\ EncodedChar \subseteq Nat /\ Byte \subseteq Nat
      /\ LINE_END \notin Byte
  BY DEF EncodedChar, Byte, LINE_END
<1>2. \A ch \in EncodedChar : ch \notin {0, SP, AMP, PLUS, EQ, QUERY, LINE_END}
  BY DEF EncodedChar, Unreserved, PERCENT, SP, AMP, PLUS, EQ, QUERY, LINE_END
<1>3. Value \subseteq Text
  BY <1>1, SeqMonotonic DEF Value, Text
<1>4. ASSUME NEW x \in Value PROVE x \in Line
  <2>1. \A i \in 1 .. Len(x) : x[i] \in Byte
    BY DEF Value
  <2>2. \A i \in 1 .. Len(x) : x[i] # LINE_END
    BY <1>1, <2>1
  <2> QED BY <1>3, <2>2 DEF Line
<1> QED BY <1>1, <1>2, <1>3, <1>4

\* The empty text codes itself, and a character that is no % and no +.
LEMMA CodedSelf ==
  /\ Coded(<<>>, <<>>)
  /\ \A ch \in Byte : ch \notin {PERCENT, PLUS} => Coded(<<ch>>, <<ch>>)
<1>1. Coded(<<>>, <<>>)
  <2> DEFINE R == [k \in {1} |-> <<>>]
  <2>1. R[1] = <<>> /\ Len(<<>>) = 0 /\ <<>> \in Text /\ <<>> \in Value
    BY DEF Text, Value
  <2>2. CodesFrom(R, <<>>)
    <3> HIDE DEF R
    <3> QED BY <2>1 DEF CodesFrom
  <2> QED BY <2>1, <2>2 DEF Coded
<1>2. ASSUME NEW ch \in Byte, ch \notin {PERCENT, PLUS} PROVE Coded(<<ch>>, <<ch>>)
  <2> DEFINE R == [k \in {1, 2} |-> IF k = 1 THEN <<ch>> ELSE <<>>]
             x == <<ch>>
  <2>1. R[1] = x /\ R[2] = <<>>
    OBVIOUS
  <2>2. ch \in Nat /\ Len(x) = 1 /\ x[1] = ch
    BY DEF Byte
  <2>3. x \in Text /\ <<>> \in Text /\ x \in Value /\ x \o <<>> = x
    BY <2>2 DEF Text, Value
  <2> HIDE DEF R
  <2>4. CodesFrom(R, x)
    <3>1. \A k \in 1 .. 2 : R[k] \in Text
      <4>1. \A k \in 1 .. 2 : k = 1 \/ k = 2
        OBVIOUS
      <4> QED BY <2>1, <2>3, <4>1
    <3>2. R[1] = <<x[1]>> \o R[2] /\ x[1] \notin {PERCENT, PLUS}
      BY <1>2, <2>1, <2>2, <2>3
    <3>3. \A k \in 1 .. 1 : k = 1 /\ k + 1 = 2
      OBVIOUS
    <3> HIDE DEF x
    <3>4. R[Len(x) + 1] = <<>> /\ \A k \in 1 .. Len(x) + 1 : R[k] \in Text
      BY <2>1, <2>2, <3>1
    <3>5. \A k \in 1 .. Len(x) : R[k] = <<x[k]>> \o R[k + 1] /\ x[k] \notin {PERCENT, PLUS}
      <4>1. 1 + 1 = 2
        OBVIOUS
      <4> QED BY <2>2, <3>2, <3>3, <4>1
    <3> QED BY <3>4, <3>5 DEF CodesFrom
  <2> HIDE DEF x
  <2>5. Coded(x, x)
    BY <2>1, <2>3, <2>4 DEF Coded
  <2> QED BY <2>5 DEF x
<1> QED BY <1>1, <1>2

\* What codes two texts, put together, codes the two put together.
LEMMA CodedJoin ==
  ASSUME NEW t, NEW s, NEW u, NEW r, Coded(t, s), Coded(u, r)
  PROVE  Coded(t \o u, s \o r)
<1> DEFINE n == Len(s)
           m == Len(r)
<1>1. PICK P : P[1] = t /\ CodesFrom(P, s)
  BY DEF Coded
<1>2. PICK Q : Q[1] = u /\ CodesFrom(Q, r)
  BY DEF Coded
<1>3. s \in Seq(Byte) /\ r \in Seq(Byte) /\ n \in Nat /\ m \in Nat
  BY DEF Coded, Value
<1>4. /\ P[n + 1] = <<>> /\ Q[m + 1] = <<>>
      /\ \A k \in 1 .. n + 1 : P[k] \in Text
      /\ \A k \in 1 .. m + 1 : Q[k] \in Text
  BY <1>1, <1>2 DEF CodesFrom
<1>5. /\ \A k \in 1 .. n : \/ s[k] \notin {PERCENT, PLUS} /\ P[k] = <<s[k]>> \o P[k + 1]
                           \/ P[k] = Escape(s[k]) \o P[k + 1]
      /\ \A k \in 1 .. m : \/ r[k] \notin {PERCENT, PLUS} /\ Q[k] = <<r[k]>> \o Q[k + 1]
                           \/ Q[k] = Escape(r[k]) \o Q[k + 1]
  BY <1>1, <1>2 DEF CodesFrom
<1>6. u \in Text
  BY <1>2, <1>3, <1>4
<1> DEFINE v == s \o r
           R == [k \in 1 .. n + m + 1 |-> IF k <= n THEN P[k] \o u ELSE Q[k - n]]
<1>7. /\ v \in Value /\ Len(v) = n + m
      /\ \A k \in 1 .. n : v[k] = s[k]
      /\ \A k \in 1 .. m : v[n + k] = r[k]
  BY <1>3 DEF Value
<1> HIDE DEF n, m, v
<1>8. /\ \A k \in 1 .. n : R[k] = P[k] \o u
      /\ \A k \in 1 .. m + 1 : R[n + k] = Q[k]
  BY <1>3
<1>9. R[n + 1] = P[n + 1] \o u
  <2>1. R[n + 1] = Q[1]
    BY <1>3, <1>8
  <2>2. <<>> \o u = u
    BY <1>6 DEF Text
  <2> QED BY <1>2, <1>4, <2>1, <2>2
<1>10. \A k \in 1 .. n + 1 : R[k] = P[k] \o u
  <2>1. \A k \in 1 .. n + 1 : k \in 1 .. n \/ k = n + 1
    BY <1>3
  <2> QED BY <1>8, <1>9, <2>1
<1> HIDE DEF R
<1>11. R[1] = t \o u
  <2>1. 1 \in 1 .. n + 1
    BY <1>3
  <2> QED BY <1>1, <1>10, <2>1
<1>12. R[n + m + 1] = <<>>
  <2>1. n + m + 1 = n + (m + 1) /\ m + 1 \in 1 .. m + 1
    BY <1>3
  <2> QED BY <1>4, <1>8, <2>1
<1>13. ASSUME NEW k \in 1 .. n + m + 1 PROVE R[k] \in Text
  <2>1. CASE k <= n
    <3>1. k \in 1 .. n + 1 /\ P[k] \in Text
      BY <1>3, <1>4, <2>1
    <3> QED BY <1>6, <1>10, <3>1, ConcatTexts
  <2>2. CASE k > n
    <3>1. k - n \in 1 .. m + 1 /\ n + (k - n) = k
      BY <1>3, <2>2
    <3> QED BY <1>4, <1>8, <3>1
  <2> QED BY <1>3, <2>1, <2>2
<1>14. ASSUME NEW k \in 1 .. n + m
       PROVE  \/ v[k] \notin {PERCENT, PLUS} /\ R[k] = <<v[k]>> \o R[k + 1]
              \/ R[k] = Escape(v[k]) \o R[k + 1]
  <2>1. CASE k <= n
    <3>1. k \in 1 .. n /\ k \in 1 .. n + 1 /\ k + 1 \in 1 .. n + 1
      BY <1>3, <2>1
    <3>2. v[k] = s[k] /\ s[k] \in Byte
      BY <1>3, <1>7, <3>1 DEF n
    <3> DEFINE ch == s[k]
               b == P[k + 1]
    <3>3. <<ch>> \in Text /\ Escape(ch) \in Text /\ b \in Text
      <4>1. ch \in Byte /\ ch \in Nat /\ b \in Text
        BY <1>4, <3>1, <3>2, EncodedChars
      <4> HIDE DEF ch, b
      <4> QED BY <4>1, EscapeIs DEF Text
    <3>4. R[k] = P[k] \o u /\ R[k + 1] = b \o u
      BY <1>10, <3>1
    <3>5. \/ ch \notin {PERCENT, PLUS} /\ P[k] = <<ch>> \o b
          \/ P[k] = Escape(ch) \o b
      BY <1>5, <3>1
    <3> HIDE DEF ch, b
    <3>6. (<<ch>> \o b) \o u = <<ch>> \o (b \o u)
      BY <1>6, <3>3, ConcatTexts
    <3>7. (Escape(ch) \o b) \o u = Escape(ch) \o (b \o u)
      BY <1>6, <3>3, ConcatTexts
    <3> QED BY <3>2, <3>4, <3>5, <3>6, <3>7 DEF ch
  <2>2. CASE k > n
    <3> DEFINE j == k - n
    <3>1. j \in 1 .. m /\ j \in 1 .. m + 1 /\ j + 1 \in 1 .. m + 1 /\ n + j = k /\ n + (j + 1) = k + 1
      BY <1>3, <2>2
    <3> HIDE DEF j
    <3>2. R[k] = Q[j] /\ R[k + 1] = Q[j + 1] /\ v[k] = r[j]
      BY <1>7, <1>8, <3>1
    <3> QED BY <1>5, <3>1, <3>2
  <2>3. k <= n \/ k > n
    BY <1>3
  <2> QED BY <2>1, <2>2, <2>3
<1>15. CodesFrom(R, v)
  BY <1>7, <1>12, <1>13, <1>14 DEF CodesFrom
<1> QED BY <1>7, <1>11, <1>15 DEF Coded, v

\* url_encode() codes its argument, in characters without a meaning, and puts
\* a NUL at the end.
LEMMA EncodeIs ==
  ASSUME NEW v \in Value
  PROVE  \E e \in Seq(EncodedChar) : url_encode(v) = e \o <<0>> /\ Coded(e, v)
<1> DEFINE n == Len(v)
           f == [i \in DOMAIN v |->
                   IF Unreserved(v[i]) THEN <<v[i]>>
                   ELSE <<PERCENT, to_hex(v[i] \div 16), to_hex(v[i] % 16)>>]
<1>1. v \in Seq(Byte) /\ n \in Nat /\ DOMAIN v = 1 .. n /\ \A i \in 1 .. n : v[i] \in Byte
  BY DEF Value
<1>2. url_encode(v) = Append(FlattenSeq(f), 0)
  BY DEF url_encode
<1>3. f = [i \in 1 .. n |-> IF Unreserved(v[i]) THEN <<v[i]>> ELSE Escape(v[i])]
  BY <1>1 DEF Escape
<1> HIDE DEF f
<1>4. ASSUME NEW i \in 1 .. n
      PROVE  /\ f[i] = IF Unreserved(v[i]) THEN <<v[i]>> ELSE Escape(v[i])
             /\ f[i] \in Seq(EncodedChar)
  <2> DEFINE ch == v[i]
  <2>1. ch \in Byte
    BY <1>1
  <2>2. f[i] = IF Unreserved(ch) THEN <<ch>> ELSE Escape(ch)
    BY <1>3
  <2> HIDE DEF ch
  <2>3. Unreserved(ch) => ch \in EncodedChar
    BY <2>1 DEF EncodedChar
  <2>4. <<ch>> \in Seq({ch})
    OBVIOUS
  <2>5. Unreserved(ch) => <<ch>> \in Seq(EncodedChar)
    BY <2>3
  <2>6. Escape(ch) \in Seq(EncodedChar)
    BY <2>1, EscapeIs
  <2> QED BY <2>2, <2>5, <2>6 DEF ch
<1>5. f \in [1 .. n -> Seq(EncodedChar)]
  <2>1. f = [i \in 1 .. n |-> f[i]]
    BY <1>3
  <2> QED BY <1>4, <2>1
<1>6. f \in Seq(Seq(EncodedChar)) /\ Len(f) = n
  BY <1>1, <1>5, Listed
<1>7. PICK R : /\ R[1] = FlattenSeq(f)
               /\ R[n + 1] = <<>>
               /\ \A k \in 1 .. n + 1 : R[k] \in Seq(EncodedChar)
               /\ \A k \in 1 .. n : R[k] = f[k] \o R[k + 1]
  <2> HIDE DEF n
  <2>1. EncodedChar \in SUBSET Nat
    BY EncodedChars
  <2> QED BY <1>6, <2>1, FlattenIn
<1>8. CodesFrom(R, v)
  <2>1. \A k \in 1 .. n + 1 : R[k] \in Text
    BY <1>7, EncodedChars, SeqMonotonic DEF Text
  <2>2. ASSUME NEW k \in 1 .. n
        PROVE  \/ v[k] \notin {PERCENT, PLUS} /\ R[k] = <<v[k]>> \o R[k + 1]
               \/ R[k] = Escape(v[k]) \o R[k + 1]
    <3>1. R[k] = f[k] \o R[k + 1]
      BY <1>7
    <3>2. Unreserved(v[k]) => v[k] \notin {PERCENT, PLUS}
      <4> DEFINE ch == v[k]
      <4>1. ch \in Byte
        BY <1>1
      <4> HIDE DEF ch
      <4>2. Unreserved(ch) => ch \notin {PERCENT, PLUS}
        BY <4>1 DEF Unreserved, PERCENT, PLUS, Byte
      <4> QED BY <4>2 DEF ch
    <3> QED BY <1>4, <3>1, <3>2
  <2> QED BY <1>7, <2>1, <2>2 DEF CodesFrom
<1>9. R[1] \in Seq(EncodedChar) /\ R[1] \in Seq(Nat)
  <2>1. 1 \in 1 .. n + 1
    BY <1>1
  <2> QED BY <1>7, <2>1, EncodedChars, SeqMonotonic
<1>10. Append(R[1], 0) = R[1] \o <<0>>
  BY <1>9, AppendIsConcat
<1> QED BY <1>2, <1>7, <1>8, <1>9, <1>10 DEF Coded

-----------------------------------------------------------------------------
(* The query.                                                              *)

QueryChar == EncodedChar \cup {0, EQ}

\* m_parameters: any names and values that were coded, finitely many.
ParameterMap ==
  {f \in UNION {[D -> Value] : D \in SUBSET Value} : IsFiniteSet(DOMAIN f)}

\* A text without the character is one piece.
LEMMA OnePiece ==
  ASSUME NEW F \in Text, NEW c \in Nat, F # <<>>, \A i \in 1 .. Len(F) : F[i] # c
  PROVE  Pieces(F, c) = <<F>>
<1> DEFINE ss == <<F>>
<1>1. ss \in Seq(Text) /\ Len(ss) = 1 /\ ss[1] = F
  OBVIOUS
<1>2. \A k \in 1 .. 1 : k = 1
  OBVIOUS
<1> HIDE DEF ss
<1>3. JoinedBy(ss, ss, c)
  <2>1. \A k \in 1 .. Len(ss) : \A i \in 1 .. Len(ss[k]) : ss[k][i] # c
    BY <1>1, <1>2
  <2>2. \A k \in 1 .. Len(ss) : ss[k] \in Text
    BY <1>1, <1>2
  <2>3. \A k \in 1 .. Len(ss) - 1 : FALSE
    BY <1>1
  <2>4. Len(ss) # 0 /\ ss[Len(ss)] # <<>>
    BY <1>1
  <2> QED BY <1>1, <2>1, <2>2, <2>3, <2>4 DEF JoinedBy
<1> QED BY <1>1, <1>3, PiecesLemma DEF ss

\* Of a piece with a name, a = and a coded value, the value is decoded.
LEMMA ParameterRead ==
  ASSUME NEW name \in Text, \A i \in 1 .. Len(name) : name[i] # EQ,
         NEW rest, NEW s, Coded(rest, s), NEW map
  PROVE  AddParameter(map, name \o <<EQ>> \o rest) = SetParameter(map, name, s)
<1>1. rest \in Text /\ url_decode(rest) = s
  BY Decoded
<1> DEFINE data == name \o <<EQ>> \o rest
<1>2. EQ \in Nat
  BY DEF EQ
<1>3. find(data, EQ) # 0 /\ Before(data, EQ) = name /\ After(data, EQ) = rest
  BY <1>1, <1>2, Split
<1> HIDE DEF data
<1>4. AddParameter(map, data) = SetParameter(map, name, s)
  BY <1>1, <1>3 DEF AddParameter
<1> QED BY <1>4 DEF data

\* A map of one parameter.
Only(k, s) == [x \in {k} |-> s]

\* Parameters that run together are one.
LEMMA QueryOfOne ==
  ASSUME NEW name \in Text, \A i \in 1 .. Len(name) : name[i] # EQ,
         NEW rest, NEW s, Coded(rest, s),
         \A i \in 1 .. Len(name \o <<EQ>> \o rest) : (name \o <<EQ>> \o rest)[i] # AMP
  PROVE  ParseQuery(name \o <<EQ>> \o rest) = Only(name, s)
<1> DEFINE F == name \o <<EQ>> \o rest
<1>1. AMP \in Nat /\ EQ \in Nat /\ rest \in Text
  BY Decoded DEF AMP, EQ
<1>2. F # <<>> /\ F \in Text
  BY <1>1, Split
<1>20. \A i \in 1 .. Len(F) : F[i] # AMP
  OBVIOUS
<1>21. AddParameter(<<>>, F) = SetParameter(<<>>, name, s)
  BY ParameterRead
<1> HIDE DEF F
<1>3. Pieces(F, AMP) = <<F>>
  BY <1>1, <1>2, <1>20, OnePiece
<1>4. Len(Pieces(F, AMP)) = 1 /\ Pieces(F, AMP)[1] = F
  BY <1>3
<1> DEFINE pieces == Pieces(F, AMP)
<1>5. PICK z : /\ ParseQuery(F) = z[Len(pieces)]
               /\ z[0] = <<>>
               /\ \A i \in 1 .. Len(pieces) : z[i] = AddParameter(z[i - 1], pieces[i])
  <2>1. Len(pieces) \in Nat
    BY <1>4
  <2> QED BY <2>1, QueryLoop
<1>6. z[1] = AddParameter(<<>>, F) /\ ParseQuery(F) = z[1]
  <2> HIDE DEF pieces
  <2>1. Len(pieces) = 1 /\ pieces[1] = F
    BY <1>4 DEF pieces
  <2>2. 1 \in 1 .. 1 /\ 1 - 1 = 0
    OBVIOUS
  <2> QED BY <1>5, <2>1, <2>2
<1>7. SetParameter(<<>>, name, s) = [k \in {name} |-> s]
  <2>1. DOMAIN <<>> \cup {name} = {name}
    OBVIOUS
  <2>2. SetParameter(<<>>, name, s) = [k \in {name} |-> IF k = name THEN s ELSE <<>>[k]]
    BY <2>1 DEF SetParameter
  <2> QED BY <2>2
<1> QED BY <1>6, <1>7, <1>21 DEF F, Only

\* What serialize() makes of one parameter.
Parameter(k, v) == url_encode(k) \o <<EQ>> \o url_encode(v)

\* A parameter is a name and a coded value, each with a NUL at its end, and
\* the whole of it codes a text too.
LEMMA ParameterIs ==
  ASSUME NEW k \in Value, NEW v \in Value
  PROVE  /\ url_encode(k) \in Text /\ url_encode(k) \in Value
         /\ \A i \in 1 .. Len(url_encode(k)) : url_encode(k)[i] # EQ
         /\ Coded(url_encode(v), Append(v, 0)) /\ url_encode(v) \in Text
         /\ Parameter(k, v) \in Seq(QueryChar)
         /\ \E s : Coded(Parameter(k, v), s)
<1>1. PICK d \in Seq(EncodedChar) : url_encode(k) = d \o <<0>> /\ Coded(d, k)
  BY EncodeIs
<1>2. PICK e \in Seq(EncodedChar) : url_encode(v) = e \o <<0>> /\ Coded(e, v)
  BY EncodeIs
<1>3. /\ 0 \in Byte /\ EQ \in Byte /\ 0 # EQ /\ 0 \notin {PERCENT, PLUS} /\ EQ \notin {PERCENT, PLUS}
  BY DEF Byte, EQ, PERCENT, PLUS
<1>4. Coded(<<0>>, <<0>>) /\ Coded(<<EQ>>, <<EQ>>)
  BY <1>3, CodedSelf
<1>5. Coded(url_encode(k), k \o <<0>>) /\ Coded(url_encode(v), v \o <<0>>)
  BY <1>1, <1>2, <1>4, CodedJoin
<1>6. v \o <<0>> = Append(v, 0)
  BY <1>3, AppendIsConcat DEF Value
<1>7. Coded(Parameter(k, v), (k \o <<0>>) \o <<EQ>> \o (v \o <<0>>))
  BY <1>4, <1>5, CodedJoin DEF Parameter
<1> DEFINE a == url_encode(k)
           b == url_encode(v)
<1>8. a \in Seq(QueryChar) /\ b \in Seq(QueryChar) /\ a \in Value /\ b \in Value
  <2>1. d \in Seq(QueryChar) /\ e \in Seq(QueryChar) /\ d \in Seq(Byte) /\ e \in Seq(Byte)
    BY EncodedChars, SeqMonotonic DEF QueryChar
  <2>2. <<0>> \in Seq({0})
    OBVIOUS
  <2>3. <<0>> \in Seq(QueryChar) /\ <<0>> \in Seq(Byte)
    BY <1>3 DEF QueryChar
  <2> QED BY <1>1, <1>2, <2>1, <2>3 DEF Value
<1>9. a \in Text /\ b \in Text
  BY <1>8, EncodedChars
<1>10. \A i \in 1 .. Len(a) : a[i] # EQ
  <2>0. d \in Seq(Nat)
    BY EncodedChars, SeqMonotonic
  <2>1. d \in Seq(Nat) /\ Len(d) \in Nat /\ \A i \in 1 .. Len(d) : d[i] \in EncodedChar
    BY <2>0
  <2>2. /\ Len(a) = Len(d) + 1 /\ a[Len(d) + 1] = 0
        /\ \A i \in 1 .. Len(d) : a[i] = d[i]
    BY <1>1, <2>1
  <2> HIDE DEF a
  <2>3. ASSUME NEW i \in 1 .. Len(a) PROVE a[i] # EQ
    <3>1. i \in 1 .. Len(d) \/ i = Len(d) + 1
      BY <2>1, <2>2
    <3>2. i \in 1 .. Len(d) => a[i] \in EncodedChar
      BY <2>1, <2>2
    <3> QED BY <1>3, <2>2, <3>1, <3>2, EncodedChars
  <2> QED BY <2>3
<1>11. Parameter(k, v) \in Seq(QueryChar)
  <2>1. <<EQ>> \in Seq({EQ}) /\ EQ \in QueryChar
    BY DEF QueryChar
  <2>2. <<EQ>> \in Seq(QueryChar)
    BY <2>1
  <2> HIDE DEF a, b
  <2>3. a \o <<EQ>> \o b \in Seq(QueryChar)
    BY <1>8, <2>2
  <2> QED BY <2>3 DEF a, b, Parameter
<1> QED BY <1>5, <1>6, <1>7, <1>8, <1>9, <1>10, <1>11

\* The parameters serialize() writes, in the order of the map.
Parameters(map, order) ==
  FlattenSeq([i \in DOMAIN order |->
       url_encode(order[i]) \o <<EQ>> \o url_encode(map[order[i]])])

\* Parameters, of which there is one at least, run together to one name, that
\* of the first, and a coded value: its own, with the NUL, if it is the only one.
LEMMA ParametersAre ==
  ASSUME NEW map \in ParameterMap, NEW order \in Seq(DOMAIN map), Len(order) # 0
  PROVE  LET k == order[1] IN
         \E rest, s :
           /\ Coded(rest, s)
           /\ Parameters(map, order) = url_encode(k) \o <<EQ>> \o rest
           /\ Parameters(map, order) \in Seq(QueryChar)
           /\ Len(order) = 1 => s = Append(map[k], 0)
<1> DEFINE n == Len(order)
           k(i) == order[i]
           v(i) == map[order[i]]
           f == [i \in DOMAIN order |->
                   url_encode(order[i]) \o <<EQ>> \o url_encode(map[order[i]])]
<1>1. map \in [DOMAIN map -> Value] /\ DOMAIN map \subseteq Value
  BY DEF ParameterMap
<1>2. n \in Nat /\ DOMAIN order = 1 .. n /\ \A i \in 1 .. n : order[i] \in DOMAIN map
  OBVIOUS
<1>3. \A i \in 1 .. n : k(i) \in Value /\ v(i) \in Value
  BY <1>1, <1>2
<1>4. f = [i \in 1 .. n |-> Parameter(k(i), v(i))]
  BY <1>2 DEF Parameter
<1>5. Parameters(map, order) = FlattenSeq(f)
  BY DEF Parameters
<1> HIDE DEF n, k, v, f
<1>6. \A i \in 1 .. n : f[i] = Parameter(k(i), v(i))
  BY <1>4
<1>7. \A i \in 1 .. n : f[i] \in Seq(QueryChar) /\ \E s : Coded(f[i], s)
  BY <1>3, <1>6, ParameterIs
<1>8. f \in Seq(Seq(QueryChar)) /\ Len(f) = n
  <2>1. f \in [1 .. n -> Seq(QueryChar)]
    <3>1. f = [i \in 1 .. n |-> f[i]]
      BY <1>4
    <3> QED BY <1>7, <3>1
  <2> QED BY <1>2, <2>1, Listed
<1>9. QueryChar \in SUBSET Nat
  <2>1. EncodedChar \subseteq Nat /\ 0 \in Nat /\ EQ \in Nat
    BY EncodedChars DEF EQ
  <2> QED BY <2>1 DEF QueryChar
<1>10. PICK R : /\ R[1] = FlattenSeq(f)
                /\ R[n + 1] = <<>>
                /\ \A i \in 1 .. n + 1 : R[i] \in Seq(QueryChar)
                /\ \A i \in 1 .. n : R[i] = f[i] \o R[i + 1]
  BY <1>8, <1>9, FlattenIn
<1>11. \A i \in 1 .. n + 1 : \E s : Coded(R[i], s)
  <2> DEFINE Has(i) == \E s : Coded(R[i], s)
             S == {j \in Nat : j <= n => Has(n + 1 - j)}
  <2>1. Has(n + 1)
    BY <1>10, CodedSelf
  <2>2. ASSUME NEW i \in 1 .. n, Has(i + 1) PROVE Has(i)
    <3>1. PICK s : Coded(R[i + 1], s)
      BY <2>2
    <3>2. PICK r : Coded(f[i], r)
      BY <1>7
    <3>3. Coded(f[i] \o R[i + 1], r \o s)
      BY <3>1, <3>2, CodedJoin
    <3> QED BY <1>10, <3>3
  <2> HIDE DEF Has
  <2>3. 0 \in S
    <3>1. n + 1 - 0 = n + 1
      BY <1>2
    <3> QED BY <2>1, <3>1
  <2>4. ASSUME NEW j \in Nat, j \in S PROVE j + 1 \in S
    <3> SUFFICES ASSUME j + 1 <= n PROVE Has(n + 1 - (j + 1))
      OBVIOUS
    <3> DEFINE i == n - j
    <3>1. i \in 1 .. n /\ i + 1 = n + 1 - j /\ i = n + 1 - (j + 1) /\ j <= n
      BY <1>2
    <3> HIDE DEF i
    <3>2. Has(i + 1)
      BY <2>4, <3>1
    <3> QED BY <2>2, <3>1, <3>2
  <2>5. Nat \subseteq S
    BY <2>3, <2>4, NatSet
  <2>6. ASSUME NEW i \in 1 .. n + 1 PROVE Has(i)
    <3>1. n + 1 - i \in Nat /\ n + 1 - i <= n /\ n + 1 - (n + 1 - i) = i
      BY <1>2
    <3> QED BY <2>5, <3>1
  <2> QED BY <2>6 DEF Has
<1>12. n # 0 /\ 1 \in 1 .. n /\ 1 \in 1 .. n + 1 /\ 2 \in 1 .. n + 1
  BY <1>2 DEF n
<1> DEFINE a == url_encode(k(1))
           b == url_encode(v(1))
           d == R[2]
<1>13. a \in Text /\ b \in Text /\ Coded(b, Append(v(1), 0)) /\ f[1] = a \o <<EQ>> \o b
  BY <1>3, <1>6, <1>12, ParameterIs DEF Parameter
<1>14. PICK s : Coded(d, s)
  BY <1>11, <1>12
<1>15. d \in Text /\ R[1] = f[1] \o d /\ 1 + 1 = 2
  <2>1. d \in Seq(QueryChar)
    BY <1>10, <1>12
  <2>2. \A i \in 1 .. n : R[i] = f[i] \o R[i + 1]
    BY <1>10
  <2>3. R[1] = f[1] \o R[1 + 1]
    BY <1>12, <2>2
  <2>4. d \in Text
    BY <1>9, <2>1, SeqMonotonic DEF Text
  <2> QED BY <2>3, <2>4
<1>16. Coded(b \o d, Append(v(1), 0) \o s)
  BY <1>13, <1>14, CodedJoin
<1>17. n = 1 => Append(v(1), 0) \o s = Append(v(1), 0)
  <2> SUFFICES ASSUME n = 1 PROVE Append(v(1), 0) \o s = Append(v(1), 0)
    OBVIOUS
  <2>1. d = <<>> /\ 1 + 1 = 2
    BY <1>10
  <2>2. url_decode(d) = s /\ url_decode(<<>>) = <<>>
    BY <1>14, CodedSelf, Decoded
  <2>3. v(1) \in Seq(Byte) /\ 0 \in Byte
    BY <1>3, <1>12 DEF Value, Byte
  <2>4. Append(v(1), 0) \in Seq(Byte)
    BY <2>3
  <2> QED BY <2>1, <2>2, <2>4, ConcatEmptySeq
<1> HIDE DEF a, b, d
<1>18. R[1] = a \o <<EQ>> \o (b \o d)
  <2>1. <<EQ>> \in Text
    BY DEF Text, EQ
  <2>2. a \o <<EQ>> \in Text
    BY <1>13, <2>1, ConcatTexts
  <2>3. (a \o <<EQ>>) \o b \o d = (a \o <<EQ>>) \o (b \o d)
    BY <1>13, <1>15, <2>2, ConcatTexts
  <2> QED BY <1>13, <1>15, <2>3
<1>19. Parameters(map, order) = R[1] /\ R[1] \in Seq(QueryChar)
  BY <1>5, <1>10, <1>12
<1> QED BY <1>16, <1>17, <1>18, <1>19 DEF a, k, v, n

\* What a query is made of has no meaning in a first line, and no &.
LEMMA QueryChars ==
  ASSUME NEW F \in Seq(QueryChar)
  PROVE  /\ F \in Text
         /\ \A i \in 1 .. Len(F) : F[i] \notin {SP, AMP, QUERY, LINE_END}
<1>1. EncodedChar \subseteq Nat /\ 0 \in Nat /\ EQ \in Nat
  BY EncodedChars DEF EQ
<1>2. QueryChar \subseteq Nat
  BY <1>1 DEF QueryChar
<1>3. F \in Text
  BY <1>2, SeqMonotonic DEF Text
<1>4. \A i \in 1 .. Len(F) : F[i] \in QueryChar
  OBVIOUS
<1>5. \A ch \in QueryChar : ch \notin {SP, AMP, QUERY, LINE_END}
  <2>1. 0 \notin {SP, AMP, QUERY, LINE_END} /\ EQ \notin {SP, AMP, QUERY, LINE_END}
    BY DEF SP, AMP, QUERY, LINE_END, EQ
  <2> QED BY <2>1, EncodedChars DEF QueryChar
<1> QED BY <1>3, <1>4, <1>5

\* How a map of parameters can be iterated.
LEMMA OrdersAre ==
  ASSUME NEW map \in ParameterMap, NEW order \in SetToSeqs(DOMAIN map)
  PROVE  /\ order \in Seq(DOMAIN map)
         /\ Len(order) = 0 <=> map = <<>>
         /\ order = <<>> <=> map = <<>>
         /\ \A k : DOMAIN map = {k} => Len(order) = 1
<1> DEFINE N == Cardinality(DOMAIN map)
<1>1. IsFiniteSet(DOMAIN map)
  BY DEF ParameterMap
<1>2. N \in Nat
  BY <1>1, FS_CardinalityType
<1>3. order \in [1 .. N -> DOMAIN map]
  BY DEF SetToSeqs
<1>4. order \in Seq(DOMAIN map) /\ Len(order) = N
  <2> HIDE DEF N
  <2> QED BY <1>2, <1>3, Listed
<1>5. N = 0 <=> DOMAIN map = {}
  BY <1>1, FS_EmptySet
<1>6. map = [x \in DOMAIN map |-> map[x]]
  BY DEF ParameterMap
<1>7. DOMAIN map = {} <=> map = <<>>
  <2>1. DOMAIN <<>> = {} /\ <<>> = [x \in {} |-> <<>>[x]]
    OBVIOUS
  <2> QED BY <1>6, <2>1
<1>8. Len(order) = 0 <=> order = <<>>
  BY <1>4
<1>9. \A k : DOMAIN map = {k} => N = 1
  BY FS_Singleton
<1> QED BY <1>4, <1>5, <1>7, <1>8, <1>9

-----------------------------------------------------------------------------
(* Messages.                                                               *)

Versions == {<<>>, <<Version>>, <<OldVersion>>}
Path == Seq(Character \ {SP, QUERY})

\* The objects of a program.
Request ==
  [m_method : 0 .. 8, m_version : Versions, m_path : Path,
   m_headers : HeaderMap, m_parameters : ParameterMap]
Code == 0 .. 999
Content == Seq(Character)
Response ==
  [m_version : Versions, m_code : Code, m_headers : HeaderMap,
   m_content : Content]

\* Texts of a program are lines.
LEMMA TextsAreLines ==
  /\ Character \subseteq Byte /\ Seq(Character) \subseteq Value
  /\ Seq(Character) \subseteq Line /\ Seq(Character) \subseteq Text
  /\ \A v \in Versions : v \in Line /\ \A i \in 1 .. Len(v) : v[i] # SP
  /\ \A p \in Path : p \in Line /\ \A i \in 1 .. Len(p) : p[i] \notin {SP, QUERY}
<1>1. Character \subseteq Byte
  BY DEF Character, Byte
<1>2. Seq(Character) \subseteq Value
  BY <1>1, SeqMonotonic DEF Value
<1>3. \A v \in Versions : v \in Line /\ \A i \in 1 .. Len(v) : v[i] # SP
  <2>1. \A v \in Versions : v \in Text /\ \A i \in 1 .. Len(v) : v[i] \in {320, 322}
    <3>1. <<>> \in Text /\ \A i \in 1 .. Len(<<>>) : FALSE
      BY DEF Text
    <3>2. \A n \in {320, 322} : <<n>> \in Text /\ \A i \in 1 .. Len(<<n>>) : <<n>>[i] = n
      BY DEF Text
    <3> QED BY <3>1, <3>2 DEF Versions, Version, OldVersion
  <2>2. \A n \in {320, 322} : n # SP /\ n # LINE_END
    BY DEF SP, LINE_END
  <2> QED BY <2>1, <2>2 DEF Line
<1>4. ASSUME NEW p \in Path
      PROVE  p \in Line /\ \A i \in 1 .. Len(p) : p[i] \notin {SP, QUERY}
  <2>1. p \in Seq(Character)
    <3>1. Character \ {SP, QUERY} \subseteq Character
      OBVIOUS
    <3> QED BY <3>1, SeqMonotonic DEF Path
  <2>2. \A i \in 1 .. Len(p) : p[i] \in Character \ {SP, QUERY}
    BY DEF Path
  <2> QED BY <1>2, <2>1, <2>2, EncodedChars
<1> QED BY <1>1, <1>2, <1>3, <1>4, EncodedChars

\* Lines put together are a line.
LEMMA LongerLine ==
  ASSUME NEW a \in Line, NEW b \in Line
  PROVE  a \o b \in Line
<1>1. /\ a \in Text /\ b \in Text
      /\ \A i \in 1 .. Len(a) : a[i] # LINE_END
      /\ \A i \in 1 .. Len(b) : b[i] # LINE_END
  BY DEF Line
<1> DEFINE s == a \o b
<1>2. /\ s \in Text /\ Len(a) \in Nat /\ Len(b) \in Nat /\ Len(s) = Len(a) + Len(b)
      /\ \A i \in 1 .. Len(a) : s[i] = a[i]
      /\ \A i \in 1 .. Len(b) : s[Len(a) + i] = b[i]
  BY <1>1 DEF Text
<1> HIDE DEF s
<1>3. ASSUME NEW i \in 1 .. Len(s) PROVE s[i] # LINE_END
  <2>1. CASE i <= Len(a)
    BY <1>1, <1>2, <2>1
  <2>2. CASE i > Len(a)
    <3>1. i - Len(a) \in 1 .. Len(b) /\ Len(a) + (i - Len(a)) = i
      BY <1>2, <2>2
    <3> QED BY <1>1, <1>2, <3>1
  <2> QED BY <1>2, <2>1, <2>2
<1>4. s \in Line
  BY <1>2, <1>3 DEF Line
<1> QED BY <1>4 DEF s

\* A line of one symbol.
LEMMA OneSymbol ==
  ASSUME NEW c \in Nat, c # LINE_END
  PROVE  <<c>> \in Line /\ <<c>> # <<>> /\ \A i \in 1 .. Len(<<c>>) : <<c>>[i] = c
<1>1. <<c>> \in Text /\ \A i \in 1 .. Len(<<c>>) : <<c>>[i] = c
  BY DEF Text
<1> QED BY <1>1 DEF Line

\* The first line of a request.
LEMMA RequestLine ==
  ASSUME NEW m \in 0 .. 8, NEW v \in Versions, NEW target \in Line,
         \A i \in 1 .. Len(target) : target[i] # SP
  PROVE  LET line == MethodText(m) \o <<SP>> \o target \o <<SP>> \o v IN
         /\ line \in Line /\ line # <<>>
         /\ Fields(line) = <<MethodText(m), target, v>>
         /\ CreateMethod(MethodText(m)) = m
<1> DEFINE a == MethodText(m)
           line == a \o <<SP>> \o target \o <<SP>> \o v
<1>1. /\ MethodWord + m \in Nat /\ MethodWord + m # SP /\ MethodWord + m # LINE_END
      /\ SP \in Nat /\ SP # LINE_END
  BY DEF MethodWord, SP, LINE_END
<1>2. a \in Line /\ (\A i \in 1 .. Len(a) : a[i] # SP) /\ a[1] = MethodWord + m
  <2>1. a = <<MethodWord + m>>
    BY DEF MethodText
  <2> HIDE DEF a
  <2>2. a[1] = MethodWord + m
    BY <2>1
  <2> QED BY <1>1, <2>1, <2>2, OneSymbol
<1>3. CreateMethod(a) = m
  <2>1. a[1] - MethodWord = m
    BY <1>2 DEF MethodWord
  <2> QED BY <2>1 DEF CreateMethod
<1>4. <<SP>> \in Line /\ v \in Line
  BY <1>1, OneSymbol, TextsAreLines
<1> HIDE DEF a
<1>5. line \in Line
  BY <1>2, <1>4, LongerLine
<1>6. a \in Text /\ target \in Text /\ v \in Text /\ <<SP>> \in Text
  BY <1>2, <1>4 DEF Line
<1>7. Fields(line) = <<a, target, v>>
  BY <1>2, <1>6, FieldsRead
<1>8. line # <<>>
  <2>1. a \o <<SP>> \o target \in Text /\ a \o <<SP>> \in Text
    BY <1>6, ConcatTexts
  <2> DEFINE b == a \o <<SP>> \o target
  <2> HIDE DEF b
  <2>2. b \o <<SP>> \o v # <<>>
    <3>1. b \in Text
      BY <2>1 DEF b
    <3>2. Len(b \o <<SP>> \o v) >= 1
      BY <1>6, <3>1 DEF Text
    <3> QED BY <3>2
  <2> QED BY <2>2 DEF b
<1> QED BY <1>3, <1>5, <1>7, <1>8 DEF a

\* A target with a query, or without.
LEMMA TargetRead ==
  ASSUME NEW p \in Path, NEW F \in Line, \A i \in 1 .. Len(F) : F[i] # SP
  PROVE  /\ p \in Line /\ (\A i \in 1 .. Len(p) : p[i] # SP)
         /\ find(p, QUERY) = 0 /\ Before(p, QUERY) = p
         /\ LET target == p \o <<QUERY>> \o F IN
            /\ target \in Line /\ (\A i \in 1 .. Len(target) : target[i] # SP)
            /\ find(target, QUERY) # 0
            /\ Before(target, QUERY) = p /\ After(target, QUERY) = F
<1> DEFINE target == p \o <<QUERY>> \o F
<1>1. p \in Line /\ p \in Text /\ \A i \in 1 .. Len(p) : p[i] # SP /\ p[i] # QUERY
  BY TextsAreLines DEF Line
<1>2. F \in Text /\ QUERY \in Nat /\ QUERY # SP /\ QUERY # LINE_END
  BY DEF Line, QUERY, SP, LINE_END
<1>3. find(p, QUERY) = 0 /\ Before(p, QUERY) = p
  BY <1>1, NoSplit
<1>4. /\ find(target, QUERY) # 0
      /\ Before(target, QUERY) = p /\ After(target, QUERY) = F
  BY <1>1, <1>2, Split
<1>5. target \in Line
  BY <1>1, <1>2, OneSymbol, LongerLine
<1>6. \A i \in 1 .. Len(target) : target[i] # SP
  <2>1. /\ Len(p) \in Nat /\ Len(F) \in Nat
        /\ Len(target) = Len(p) + 1 + Len(F)
        /\ \A i \in 1 .. Len(p) : target[i] = p[i]
        /\ target[Len(p) + 1] = QUERY
        /\ \A i \in 1 .. Len(F) : target[Len(p) + 1 + i] = F[i]
    BY <1>1, <1>2 DEF Text
  <2> HIDE DEF target
  <2> TAKE i \in 1 .. Len(target)
  <2>2. CASE i <= Len(p) + 1
    <3>1. i \in 1 .. Len(p) \/ i = Len(p) + 1
      BY <2>1, <2>2
    <3> QED BY <1>1, <1>2, <2>1, <3>1
  <2>3. CASE i > Len(p) + 1
    <3> DEFINE j == i - (Len(p) + 1)
    <3>1. j \in 1 .. Len(F) /\ Len(p) + 1 + j = i
      BY <2>1, <2>3
    <3> HIDE DEF j
    <3> QED BY <2>1, <3>1
  <2> QED BY <2>1, <2>2, <2>3
<1> QED BY <1>1, <1>3, <1>4, <1>5, <1>6

\* What is read of a request, whatever its target and its headers.
LEMMA PartsOfRequest ==
  ASSUME NEW m \in 0 .. 8, NEW v \in Versions, NEW H \in Text,
         NEW target \in Line, \A i \in 1 .. Len(target) : target[i] # SP,
         kind = "request"
  PROVE  LET t == Parts(MethodText(m) \o <<SP>> \o target \o <<SP>> \o v, H, <<>>)
             q == IF find(target, QUERY) = 0 THEN <<>>
                  ELSE ParseQuery(After(target, QUERY))
             object(h) == [m_method |-> m, m_path |-> Before(target, QUERY),
                           m_version |-> v, m_headers |-> h, m_parameters |-> q]
         IN /\ H = <<>> => create(t) = [status |-> "invalid"]
            /\ \A b \in Block : H = b \o <<LINE_END>> =>
                 /\ CreateHeaders(b) = [status |-> "throws"] =>
                      create(t) = [status |-> "throws"]
                 /\ \A h : CreateHeaders(b) = [status |-> "ok", map |-> h] =>
                      create(t) = [status |-> "ok", object |-> object(h)]
<1> DEFINE line == MethodText(m) \o <<SP>> \o target \o <<SP>> \o v
           t == Parts(line, H, <<>>)
           fields == <<MethodText(m), target, v>>
           q == IF find(target, QUERY) = 0 THEN <<>>
                ELSE ParseQuery(After(target, QUERY))
           object(h) == [m_method |-> m, m_path |-> Before(target, QUERY),
                         m_version |-> v, m_headers |-> h, m_parameters |-> q]
<1>1. /\ line \in Line /\ line # <<>> /\ Fields(line) = fields
      /\ CreateMethod(MethodText(m)) = m
  BY RequestLine
<1>2. <<>> \in Text
  BY DEF Text
<1>3. ASSUME NEW h PROVE BuildRequest(fields, h) = object(h)
  <2>1. fields[1] = MethodText(m) /\ fields[2] = target /\ fields[3] = v
    OBVIOUS
  <2> HIDE DEF fields
  <2> QED BY <1>1, <2>1 DEF BuildRequest
<1> HIDE DEF fields, object, line
<1>4. /\ H = <<>> => CreateHead(t) = [status |-> "invalid"]
      /\ \A b \in Block : H = b \o <<LINE_END>> =>
           CreateHead(t) =
             IF CreateHeaders(b).status # "ok" THEN CreateHeaders(b)
             ELSE [status |-> "ok", fields |-> fields, map |-> CreateHeaders(b).map]
  BY <1>1, <1>2, PartsRead
<1> HIDE DEF t
<1>5. H = <<>> => create(t) = [status |-> "invalid"]
  BY <1>4 DEF create
<1>6. ASSUME NEW b \in Block, H = b \o <<LINE_END>>, CreateHeaders(b) = [status |-> "throws"]
      PROVE  create(t) = [status |-> "throws"]
  <2>1. CreateHead(t) = [status |-> "throws"]
    BY <1>4, <1>6
  <2> QED BY <2>1 DEF create
<1>7. ASSUME NEW b \in Block, H = b \o <<LINE_END>>, NEW h,
             CreateHeaders(b) = [status |-> "ok", map |-> h]
      PROVE  create(t) = [status |-> "ok", object |-> object(h)]
  <2>1. CreateHead(t) = [status |-> "ok", fields |-> fields, map |-> h]
    BY <1>4, <1>7
  <2> QED BY <2>1, <1>3 DEF create
<1> QED BY <1>5, <1>6, <1>7 DEF t, line, object

\* What is read of a request with the headers of a map.
LEMMA RequestRead ==
  ASSUME NEW m \in 0 .. 8, NEW v \in Versions, NEW h \in HeaderMap,
         NEW target \in Line, \A i \in 1 .. Len(target) : target[i] # SP,
         kind = "request"
  PROVE  LET t == Message(MethodText(m) \o <<SP>> \o target \o <<SP>> \o v, h, <<>>)
             q == IF find(target, QUERY) = 0 THEN <<>>
                  ELSE ParseQuery(After(target, QUERY))
             object == [m_method |-> m, m_path |-> Before(target, QUERY),
                        m_version |-> v, m_headers |-> h, m_parameters |-> q]
         IN /\ h = <<>> => create(t) = [status |-> "invalid"]
            /\ h # <<>> => create(t) = [status |-> "ok", object |-> object]
<1>1. SerializeHeaders(h) \in Text /\ (h = <<>> => SerializeHeaders(h) = <<>>)
  BY SerializedHeaders
<1>2. CASE h = <<>>
  BY <1>1, <1>2, PartsOfRequest DEF Message
<1>3. CASE h # <<>>
  <2>1. PICK b \in Block : /\ SerializeHeaders(h) = b \o <<LINE_END>>
                           /\ CreateHeaders(b) = [status |-> "ok", map |-> h]
    BY <1>3, SerializedHeaders
  <2> QED BY <1>1, <1>3, <2>1, PartsOfRequest DEF Message
<1> QED BY <1>2, <1>3

\* What serialize() writes of a request is a message whose target is the path,
\* and a query when there are parameters.
LEMMA RequestIsMessage ==
  ASSUME NEW r \in Request, NEW order \in SetToSeqs(DOMAIN r.m_parameters)
  PROVE  LET F == Parameters(r.m_parameters, order)
             target == IF order = <<>> THEN r.m_path ELSE r.m_path \o <<QUERY>> \o F
         IN SerializeRequest(r, order) =
              Message(MethodText(r.m_method) \o <<SP>> \o target \o <<SP>> \o r.m_version,
                      r.m_headers, <<>>)
<1> DEFINE F == Parameters(r.m_parameters, order)
           target == IF order = <<>> THEN r.m_path ELSE r.m_path \o <<QUERY>> \o F
           mark == IF order = <<>> THEN <<>> ELSE <<QUERY>>
           a == MethodText(r.m_method) \o <<SP>>
           line == a \o target \o <<SP>> \o r.m_version
           H == SerializeHeaders(r.m_headers)
           p == r.m_path
<1>0. /\ r.m_method \in 0 .. 8 /\ r.m_version \in Versions /\ p \in Path
      /\ r.m_headers \in HeaderMap /\ r.m_parameters \in ParameterMap
  BY DEF Request
<1>1. SerializeRequest(r, order) =
        a \o p \o mark \o F \o <<SP>> \o r.m_version \o <<LINE_END>> \o H \o <<LINE_END>>
  BY DEF SerializeRequest, Parameters
<1>2. p \in Text /\ r.m_version \in Text
  BY <1>0, TextsAreLines DEF Line
<1>3. <<SP>> \in Text /\ <<QUERY>> \in Text /\ <<LINE_END>> \in Text /\ <<>> \in Text
  BY DEF Text, SP, QUERY, LINE_END
<1>4. a \in Text
  <2>1. MethodWord + r.m_method \in Nat
    BY <1>0 DEF MethodWord
  <2> DEFINE w == MethodWord + r.m_method
  <2>2. w \in Nat
    BY <2>1
  <2> HIDE DEF w
  <2>3. <<w>> \in Text
    BY <2>2 DEF Text
  <2> QED BY <1>3, <2>3, ConcatTexts DEF MethodText, w
<1>5. mark \in Text
  BY <1>3
<1>6. F \in Text /\ (order = <<>> => F = <<>>)
  <2>1. /\ order \in Seq(DOMAIN r.m_parameters)
        /\ Len(order) = 0 <=> order = <<>>
    BY <1>0, OrdersAre
  <2>2. CASE Len(order) # 0
    <3>1. F \in Seq(QueryChar)
      BY <1>0, <2>1, <2>2, ParametersAre
    <3> QED BY <2>1, <2>2, <3>1, QueryChars
  <2>3. CASE Len(order) = 0
    <3> DEFINE f == [i \in DOMAIN order |->
                       url_encode(order[i]) \o <<EQ>> \o url_encode(r.m_parameters[order[i]])]
    <3>1. F = FlattenSeq(f)
      BY DEF Parameters
    <3>2. DOMAIN f = 1 .. 0
      BY <2>1, <2>3
    <3> HIDE DEF f
    <3>3. f = <<>>
      <4>1. f \in [1 .. 0 -> Nat]
        <5>1. f = [i \in DOMAIN order |-> f[i]]
          BY DEF f
        <5>2. DOMAIN order = 1 .. 0
          BY <2>1, <2>3
        <5> QED BY <5>1, <5>2
      <4>2. f \in Seq(Nat) /\ Len(f) = 0
        BY <4>1, Listed
      <4> QED BY <4>2
    <3> HIDE DEF F
    <3>4. F = <<>>
      BY <3>1, <3>3 DEF FlattenSeq
    <3> QED BY <1>3, <3>4
  <2> QED BY <2>2, <2>3
<1> HIDE DEF F, a, H, p
<1>7. a \o p \o mark \o F = a \o target
  <2>1. CASE order = <<>>
    <3>1. mark = <<>> /\ F = <<>> /\ target = p
      BY <1>6, <2>1 DEF p
    <3>2. a \o p \in Text
      BY <1>2, <1>4, ConcatTexts
    <3>3. \A x \in Text : x \o <<>> = x
      BY DEF Text
    <3> HIDE DEF mark, target
    <3> QED BY <3>1, <3>2, <3>3
  <2>2. CASE order # <<>>
    <3>1. mark = <<QUERY>> /\ target = p \o mark \o F
      BY <2>2 DEF p
    <3> HIDE DEF mark, target
    <3>2. p \o mark \in Text /\ (a \o p) \o mark = a \o (p \o mark)
      BY <1>2, <1>4, <1>5, ConcatTexts
    <3>3. (a \o (p \o mark)) \o F = a \o ((p \o mark) \o F)
      BY <1>4, <1>6, <3>2, ConcatTexts
    <3> QED BY <3>1, <3>2, <3>3
  <2> QED BY <2>1, <2>2
<1>8. SerializeRequest(r, order) = line \o <<LINE_END>> \o H \o <<LINE_END>>
  <2> HIDE DEF mark, target
  <2> QED BY <1>1, <1>7
<1>9. target \in Text
  <2>1. p \o <<QUERY>> \in Text
    BY <1>2, <1>3, ConcatTexts
  <2>2. p \o <<QUERY>> \o F \in Text
    BY <1>6, <2>1, ConcatTexts
  <2> QED BY <1>2, <2>2 DEF p
<1>10. H \in Text
  BY <1>0, SerializedHeaders DEF H
<1>11. line \o <<LINE_END>> \o H \o <<LINE_END>> \in Text
  <2> HIDE DEF target
  <2>1. a \o target \in Text
    BY <1>4, <1>9, ConcatTexts
  <2>2. a \o target \o <<SP>> \in Text
    BY <1>3, <2>1, ConcatTexts
  <2>3. line \in Text
    BY <1>2, <2>2, ConcatTexts
  <2> HIDE DEF line
  <2>4. line \o <<LINE_END>> \in Text
    BY <1>3, <2>3, ConcatTexts
  <2>5. line \o <<LINE_END>> \o H \in Text
    BY <1>10, <2>4, ConcatTexts
  <2> QED BY <1>3, <2>5, ConcatTexts
<1> HIDE DEF target
<1>12. Message(line, r.m_headers, <<>>) = line \o <<LINE_END>> \o H \o <<LINE_END>>
  <2> HIDE DEF line
  <2>1. \A x \in Text : x \o <<>> = x
    BY DEF Text
  <2> QED BY <1>11, <2>1 DEF Message, Parts, H
<1> QED BY <1>8, <1>12 DEF a, target, F, p

\* Of a name and a value that were coded.
LEMMA OneParameter ==
  ASSUME NEW k \in Value, NEW s \in Value
  PROVE  Only(k, s) \in ParameterMap /\ DOMAIN Only(k, s) = {k} /\ Only(k, s)[k] = s
<1>1. Only(k, s) \in [{k} -> Value] /\ {k} \in SUBSET Value
  BY DEF Only
<1>2. DOMAIN Only(k, s) = {k} /\ IsFiniteSet({k}) /\ Only(k, s)[k] = s
  BY FS_Singleton DEF Only
<1> QED BY <1>1, <1>2 DEF ParameterMap

\* The empty map.
LEMMA NoParameter ==
  <<>> \in ParameterMap
<1>1. <<>> \in [{} -> Value] /\ {} \in SUBSET Value /\ DOMAIN <<>> = {}
  OBVIOUS
<1> QED BY <1>1, FS_EmptySet DEF ParameterMap

\* What is read of a request that was serialised.
LEMMA RequestWritten ==
  ASSUME NEW r \in Request, NEW order \in SetToSeqs(DOMAIN r.m_parameters),
         kind = "request"
  PROVE  LET t == SerializeRequest(r, order)
             names == DOMAIN r.m_parameters
         IN \E q \in ParameterMap :
              /\ r.m_headers = <<>> => create(t) = [status |-> "invalid"]
              /\ r.m_headers # <<>> =>
                   create(t) = [status |-> "ok", object |-> [r EXCEPT !.m_parameters = q]]
              /\ r.m_parameters = <<>> => q = <<>>
              /\ r.m_parameters # <<>> =>
                   \E k \in names :
                     /\ DOMAIN q = {url_encode(k)}
                     /\ names = {k} => q[url_encode(k)] = Append(r.m_parameters[k], 0)
<1> DEFINE map == r.m_parameters
           F == Parameters(map, order)
           target == IF order = <<>> THEN r.m_path ELSE r.m_path \o <<QUERY>> \o F
           t == SerializeRequest(r, order)
           q == IF find(target, QUERY) = 0 THEN <<>>
                ELSE ParseQuery(After(target, QUERY))
           object == [m_method |-> r.m_method, m_path |-> Before(target, QUERY),
                      m_version |-> r.m_version, m_headers |-> r.m_headers,
                      m_parameters |-> q]
           Params == /\ q \in ParameterMap
                     /\ map = <<>> => q = <<>>
                     /\ map # <<>> =>
                          \E k \in DOMAIN map :
                            /\ DOMAIN q = {url_encode(k)}
                            /\ DOMAIN map = {k} => q[url_encode(k)] = Append(map[k], 0)
           Good == /\ Params /\ target \in Line /\ (\A i \in 1 .. Len(target) : target[i] # SP)
                   /\ Before(target, QUERY) = r.m_path
<1>0. /\ r.m_method \in 0 .. 8 /\ r.m_version \in Versions /\ r.m_path \in Path
      /\ r.m_headers \in HeaderMap /\ map \in ParameterMap
      /\ r = [m_method |-> r.m_method, m_path |-> r.m_path, m_version |-> r.m_version,
              m_headers |-> r.m_headers, m_parameters |-> r.m_parameters]
  BY DEF Request
<1>1. /\ order \in Seq(DOMAIN map)
      /\ Len(order) = 0 <=> map = <<>>
      /\ order = <<>> <=> map = <<>>
      /\ \A k : DOMAIN map = {k} => Len(order) = 1
  BY <1>0, OrdersAre
<1>2. ASSUME order = <<>> PROVE Good
  <2>1. target = r.m_path
    BY <1>2
  <2>2. <<>> \in Line /\ \A i \in 1 .. Len(<<>>) : <<>>[i] # SP
    BY DEF Line, Text
  <2>3. /\ r.m_path \in Line /\ (\A i \in 1 .. Len(r.m_path) : r.m_path[i] # SP)
        /\ find(r.m_path, QUERY) = 0 /\ Before(r.m_path, QUERY) = r.m_path
    BY <1>0, <2>2, TargetRead
  <2>4. q = <<>>
    <3> HIDE DEF target
    <3> QED BY <2>1, <2>3
  <2>5. Params
    <3> HIDE DEF q, map
    <3> QED BY <1>1, <1>2, <2>4, NoParameter
  <2> HIDE DEF Params, q, target
  <2> QED BY <2>1, <2>3, <2>5
<1>3. ASSUME order # <<>> PROVE Good
  <2>1. target = r.m_path \o <<QUERY>> \o F
    BY <1>3
  <2> DEFINE k == order[1]
  <2>2. Len(order) # 0 /\ Len(order) \in Nat
    BY <1>1, <1>3
  <2>3. k \in DOMAIN map
    BY <1>1, <2>2
  <2>4. PICK rest, s :
           /\ Coded(rest, s)
           /\ F = url_encode(k) \o <<EQ>> \o rest
           /\ F \in Seq(QueryChar)
           /\ Len(order) = 1 => s = Append(map[k], 0)
    BY <1>0, <1>1, <2>2, ParametersAre
  <2>5. F \in Text /\ \A i \in 1 .. Len(F) : F[i] \notin {SP, AMP, QUERY, LINE_END}
    BY <2>4, QueryChars
  <2>6. F \in Line
    BY <2>5 DEF Line
  <2> HIDE DEF F
  <2>7. /\ target \in Line /\ (\A i \in 1 .. Len(target) : target[i] # SP)
        /\ find(target, QUERY) # 0
        /\ Before(target, QUERY) = r.m_path /\ After(target, QUERY) = F
    <3> DEFINE p == r.m_path
    <3>1. p \in Path /\ target = p \o <<QUERY>> \o F
      BY <1>0, <2>1
    <3> HIDE DEF p, target
    <3>2. \A i \in 1 .. Len(F) : F[i] # SP
      BY <2>5
    <3>3. /\ p \o <<QUERY>> \o F \in Line
          /\ (\A i \in 1 .. Len(p \o <<QUERY>> \o F) : (p \o <<QUERY>> \o F)[i] # SP)
          /\ find(p \o <<QUERY>> \o F, QUERY) # 0
          /\ Before(p \o <<QUERY>> \o F, QUERY) = p /\ After(p \o <<QUERY>> \o F, QUERY) = F
      BY <2>6, <3>1, <3>2, TargetRead
    <3> QED BY <3>1, <3>3 DEF p
  <2>8. q = ParseQuery(F)
    <3> HIDE DEF target
    <3> QED BY <2>7
  <2>9. k \in Value /\ map[k] \in Value
    BY <1>0, <2>3 DEF ParameterMap
  <2> HIDE DEF k, target, map
  <2>10. /\ url_encode(k) \in Text /\ url_encode(k) \in Value
         /\ \A i \in 1 .. Len(url_encode(k)) : url_encode(k)[i] # EQ
    BY <2>9, ParameterIs
  <2>11. q = Only(url_encode(k), s)
    <3>1. \A i \in 1 .. Len(F) : F[i] # AMP
      BY <2>5
    <3>2. ParseQuery(F) = Only(url_encode(k), s)
      <4> DEFINE name == url_encode(k)
      <4>1. name \in Text /\ (\A i \in 1 .. Len(name) : name[i] # EQ) /\ F = name \o <<EQ>> \o rest
        BY <2>4, <2>10
      <4>2. Coded(rest, s) /\ F \in Text
        BY <2>4, <2>5
      <4> HIDE DEF name
      <4>3. ParseQuery(F) = Only(name, s)
        BY <3>1, <4>1, <4>2, QueryOfOne
      <4> QED BY <4>3 DEF name
    <3> QED BY <2>8, <3>2
  <2>12. s \in Value
    BY <2>4 DEF Coded
  <2>13. Params
    <3>1. q \in ParameterMap
      BY <2>10, <2>11, <2>12, OneParameter
    <3>2. DOMAIN q = {url_encode(k)} /\ q[url_encode(k)] = s
      BY <2>10, <2>11, <2>12, OneParameter
    <3>3. DOMAIN map = {k} => s = Append(map[k], 0)
      BY <1>1, <2>4
    <3> HIDE DEF q
    <3> QED BY <1>1, <1>3, <2>3, <3>1, <3>2, <3>3
  <2> HIDE DEF Params, q
  <2> QED BY <2>7, <2>13
<1> HIDE DEF Good
<1>4. /\ Params /\ target \in Line /\ (\A i \in 1 .. Len(target) : target[i] # SP)
      /\ Before(target, QUERY) = r.m_path
  <2> HIDE DEF Params, target
  <2> QED BY <1>2, <1>3 DEF Good
<1>5. t = Message(MethodText(r.m_method) \o <<SP>> \o target \o <<SP>> \o r.m_version,
                  r.m_headers, <<>>)
  BY RequestIsMessage
<1>6. /\ r.m_headers = <<>> => create(t) = [status |-> "invalid"]
      /\ r.m_headers # <<>> => create(t) = [status |-> "ok", object |-> object]
  <2> HIDE DEF Params, target, t
  <2> QED BY <1>0, <1>4, <1>5, RequestRead
<1>7. object = [r EXCEPT !.m_parameters = q]
  <2> HIDE DEF q, target, map
  <2> QED BY <1>0, <1>4
<1> HIDE DEF q, target, object, t
<1> QED BY <1>4, <1>6, <1>7 DEF t

\* What is read of a response that was serialised.
LEMMA ResponseWritten ==
  ASSUME NEW r \in Response, kind = "response"
  PROVE  LET t == SerializeResponse(r) IN
         /\ r.m_headers = <<>> => create(t) = [status |-> "invalid"]
         /\ r.m_headers # <<>> =>
              create(t) = [status |-> "ok", object |-> [r EXCEPT !.m_content = <<>>]]
<1> DEFINE t == SerializeResponse(r)
           v == r.m_version
           code == to_string(r.m_code)
           h == r.m_headers
           ok == <<OK>>
           line == v \o <<SP>> \o code \o <<SP>> \o ok
           fields == <<v, code, ok>>
           object == [r EXCEPT !.m_content = <<>>]
<1>1. /\ v \in Versions /\ r.m_code \in 0 .. 999 /\ h \in HeaderMap
      /\ r.m_content \in Text
  <2>1. v \in Versions /\ r.m_code \in Code /\ h \in HeaderMap /\ r.m_content \in Content
    BY DEF Response
  <2> QED BY <2>1, TextsAreLines DEF Code, Content
<1>2. v \in Line /\ \A i \in 1 .. Len(v) : v[i] # SP
  BY <1>1, TextsAreLines
<1>3. code \in Line /\ (\A i \in 1 .. Len(code) : code[i] # SP) /\ code[1] - Numeral = r.m_code
  <2> DEFINE c == r.m_code
             w == Numeral + c
  <2>0. c \in 0 .. 999
    BY <1>1
  <2>1. w \in Nat /\ w # LINE_END /\ w # SP /\ w - Numeral = c
    <3> HIDE DEF c
    <3> QED BY <2>0 DEF Numeral, LINE_END, SP
  <2>2. code = <<w>>
    BY DEF to_string
  <2> HIDE DEF w, code
  <2>3. code[1] = w
    BY <2>2
  <2> QED BY <2>1, <2>2, <2>3, OneSymbol
<1>4. ok \in Line /\ <<SP>> \in Line
  <2>1. OK \in Nat /\ OK # LINE_END /\ SP \in Nat /\ SP # LINE_END
    BY DEF OK, SP, LINE_END
  <2> QED BY <2>1, OneSymbol
<1>5. <<SP, OK, LINE_END>> = <<SP>> \o ok \o <<LINE_END>>
  OBVIOUS
<1> HIDE DEF v, code, ok, h
<1>6. v \in Text /\ code \in Text /\ ok \in Text /\ <<SP>> \in Text
  BY <1>2, <1>3, <1>4 DEF Line
<1>7. Fields(line) = fields
  BY <1>2, <1>3, <1>6, FieldsRead
<1>8. line \in Line
  BY <1>2, <1>3, <1>4, LongerLine
<1> DEFINE a == v \o <<SP>> \o code
<1>9. a \in Text /\ <<LINE_END>> \in Text
  <2>1. v \o <<SP>> \in Text
    BY <1>6, ConcatTexts
  <2> QED BY <1>6, <2>1, ConcatTexts DEF Text, LINE_END
<1>10. a \o <<SP, OK, LINE_END>> = line \o <<LINE_END>>
  <2> HIDE DEF a
  <2>0. a \in Text /\ <<SP>> \in Text
    BY <1>6, <1>9
  <2>1. <<SP>> \o ok \in Text /\ (a \o <<SP>>) \o ok = a \o (<<SP>> \o ok)
    BY <1>6, <2>0, ConcatTexts, SMTT(20)
  <2>2. (a \o (<<SP>> \o ok)) \o <<LINE_END>> = a \o ((<<SP>> \o ok) \o <<LINE_END>>)
    BY <1>9, <2>1, ConcatTexts
  <2> QED BY <1>5, <2>1, <2>2 DEF a
<1>11. t = Message(line, h, r.m_content)
  BY <1>10 DEF SerializeResponse, Message, Parts, v, code, h
<1>12. line # <<>>
  <2> HIDE DEF a
  <2>1. a \o <<SP>> \in Text
    BY <1>6, <1>9, ConcatTexts
  <2>2. Len(a \o <<SP>> \o ok) = Len(a) + 1 + Len(ok) /\ Len(a) \in Nat /\ Len(ok) \in Nat
    BY <1>6, <1>9 DEF Text
  <2>3. a \o <<SP>> \o ok # <<>>
    BY <2>2
  <2> QED BY <2>3 DEF a
<1>13. BuildResponse(fields, h) = object
  <2>1. fields[1] = v /\ fields[2] = code
    OBVIOUS
  <2> HIDE DEF fields
  <2>2. BuildResponse(fields, h) =
          [m_version |-> v, m_code |-> r.m_code, m_headers |-> h, m_content |-> <<>>]
    BY <1>3, <2>1 DEF BuildResponse
  <2> QED BY <2>2 DEF Response, v, h
<1> HIDE DEF fields, object, line, a, t
<1>14. /\ h = <<>> => CreateHead(t) = [status |-> "invalid"]
       /\ h # <<>> => CreateHead(t) = [status |-> "ok", fields |-> fields, map |-> h]
  BY <1>1, <1>7, <1>8, <1>11, <1>12, HeadRead
<1>15. h = <<>> => create(t) = [status |-> "invalid"]
  BY <1>14 DEF create
<1>16. h # <<>> => create(t) = [status |-> "ok", object |-> object]
  BY <1>13, <1>14 DEF create
<1> QED BY <1>14, <1>15, <1>16 DEF t, h, object

-----------------------------------------------------------------------------
(* Requests of a peer.                                                     *)

Enc(s) == Front(url_encode(s))
Piece(k, v) == Enc(k) \o <<EQ>> \o Enc(v)
PeerQuery == Seq(Seq(Character) \X Seq(Character))
PeerChar == EncodedChar \cup {EQ, AMP, QUERY}

\* What separates two pieces, and a piece.
LEMMA SepPiece ==
  ASSUME NEW c \in Nat, NEW d \in Text, NEW e \in Text
  PROVE  <<c>> \o d \o <<EQ>> \o e = <<c>> \o (d \o <<EQ>> \o e)
<1> DEFINE a == <<c>>
           b == <<EQ>>
<1>1. a \in Text /\ b \in Text
  BY DEF Text, EQ
<1> HIDE DEF a, b
<1> DEFINE x == d \o b
<1>2. a \o d \o b = a \o x
  BY <1>1, Reassociate
<1>3. x \in Text
  BY <1>1 DEF Text
<1> HIDE DEF x
<1>4. (a \o x) \o e = a \o (x \o e)
  BY <1>1, <1>3, Reassociate
<1> QED BY <1>2, <1>4 DEF a, b, x

\* The name and the value of a piece are encoded, without the NUL.
LEMMA PieceIs ==
  ASSUME NEW k \in Seq(Character), NEW v \in Seq(Character)
  PROVE  /\ k \in Value /\ v \in Value
         /\ Enc(k) \in Text /\ Enc(k) \in Value /\ url_decode(Enc(k)) = k
         /\ \A i \in 1 .. Len(Enc(k)) : Enc(k)[i] # EQ
         /\ Enc(v) \in Text /\ Coded(Enc(v), v)
         /\ Piece(k, v) \in Text /\ Piece(k, v) # <<>>
         /\ \A i \in 1 .. Len(Piece(k, v)) : Piece(k, v)[i] # AMP
         /\ \A c \in {AMP, QUERY} :
              /\ <<c>> \o Enc(k) \o <<EQ>> \o Enc(v) = <<c>> \o Piece(k, v)
              /\ <<c>> \o Piece(k, v) \in Seq(PeerChar)
<1>1. k \in Value /\ v \in Value
  BY TextsAreLines
<1>2. PICK d \in Seq(EncodedChar) : url_encode(k) = d \o <<0>> /\ Coded(d, k)
  BY <1>1, EncodeIs
<1>3. PICK e \in Seq(EncodedChar) : url_encode(v) = e \o <<0>> /\ Coded(e, v)
  BY <1>1, EncodeIs
<1>4. d \in Text /\ e \in Text /\ d \in Value
  BY EncodedChars, SeqMonotonic DEF Text, Value
<1>5. Enc(k) = d /\ Enc(v) = e
  BY <1>2, <1>3, <1>4, FrontIs DEF Enc
<1>6. \A i \in 1 .. Len(d) : d[i] # EQ /\ d[i] # AMP
  <2>1. \A i \in 1 .. Len(d) : d[i] \in EncodedChar
    OBVIOUS
  <2> QED BY <2>1, EncodedChars
<1>7. \A i \in 1 .. Len(e) : e[i] # AMP
  <2>1. \A i \in 1 .. Len(e) : e[i] \in EncodedChar
    OBVIOUS
  <2> QED BY <2>1, EncodedChars
<1>8. EQ \in Nat /\ EQ # AMP /\ <<EQ>> \in Text
  BY DEF EQ, AMP, Text
<1> DEFINE s == d \o <<EQ>> \o e
<1>9. Piece(k, v) = s
  BY <1>5 DEF Piece
<1>10. s \in Text /\ s # <<>>
  BY <1>4, <1>6, <1>8, Split
<1>11. \A i \in 1 .. Len(s) : s[i] # AMP
  <2>1. /\ Len(d) \in Nat /\ Len(e) \in Nat
        /\ Len(s) = Len(d) + 1 + Len(e)
        /\ \A i \in 1 .. Len(d) : s[i] = d[i]
        /\ s[Len(d) + 1] = EQ
        /\ \A i \in 1 .. Len(e) : s[Len(d) + 1 + i] = e[i]
    BY <1>4, <1>8 DEF Text
  <2> HIDE DEF s
  <2> TAKE i \in 1 .. Len(s)
  <2>2. CASE i <= Len(d) + 1
    <3>1. i \in 1 .. Len(d) \/ i = Len(d) + 1
      BY <2>1, <2>2
    <3> QED BY <1>6, <1>8, <2>1, <3>1
  <2>3. CASE i > Len(d) + 1
    <3> DEFINE j == i - (Len(d) + 1)
    <3>1. j \in 1 .. Len(e) /\ Len(d) + 1 + j = i
      BY <2>1, <2>3
    <3> HIDE DEF j
    <3> QED BY <1>7, <2>1, <3>1
  <2> QED BY <2>1, <2>2, <2>3
<1>12. ASSUME NEW c \in {AMP, QUERY}
       PROVE  /\ <<c>> \o d \o <<EQ>> \o e = <<c>> \o s
              /\ <<c>> \o s \in Seq(PeerChar)
  <2>1. c \in Nat /\ c \in PeerChar /\ EQ \in PeerChar
    BY DEF AMP, QUERY, PeerChar
  <2>2. <<c>> \in Text /\ <<c>> \in Seq(PeerChar) /\ <<EQ>> \in Seq(PeerChar)
    BY <2>1 DEF Text
  <2>3. <<c>> \o d \o <<EQ>> \o e = <<c>> \o s
    BY <1>4, <2>1, SepPiece
  <2>5. d \in Seq(PeerChar) /\ e \in Seq(PeerChar)
    BY SeqMonotonic DEF PeerChar
  <2>6. d \o <<EQ>> \in Seq(PeerChar)
    BY <2>2, <2>5, ConcatProperties
  <2>7. s \in Seq(PeerChar)
    BY <2>5, <2>6, ConcatProperties
  <2> HIDE DEF s
  <2>8. <<c>> \o s \in Seq(PeerChar)
    BY <2>2, <2>7, ConcatProperties
  <2> QED BY <2>3, <2>8 DEF s
<1>13. url_decode(d) = k
  BY <1>2, Decoded
<1> HIDE DEF s
<1> QED BY <1>1, <1>3, <1>4, <1>5, <1>6, <1>9, <1>10, <1>11, <1>12, <1>13

\* Two names that are encoded alike are the same.
LEMMA EncOnce ==
  ASSUME NEW k \in Seq(Character), NEW l \in Seq(Character), Enc(k) = Enc(l)
  PROVE  k = l
<1>1. url_decode(Enc(k)) = k /\ url_decode(Enc(l)) = l
  BY PieceIs
<1> QED BY <1>1

\* What the map of parameters is after the first n pairs of the query.
UpTo(q, n, map) ==
  /\ map \in ParameterMap
  /\ DOMAIN map = {Enc(q[i][1]) : i \in 1 .. n}
  /\ \A i \in 1 .. n :
       (\A j \in 1 .. n : j > i => q[j][1] # q[i][1]) => map[Enc(q[i][1])] = q[i][2]

\* A parameter that is set leaves a map.
LEMMA SetParameterIs ==
  ASSUME NEW map \in ParameterMap, NEW k \in Value, NEW v \in Value
  PROVE  SetParameter(map, k, v) \in ParameterMap
<1> DEFINE new == SetParameter(map, k, v)
<1>1. new = [x \in DOMAIN map \cup {k} |-> IF x = k THEN v ELSE map[x]]
  BY DEF SetParameter
<1> HIDE DEF new
<1>2. IsFiniteSet(DOMAIN map) /\ \A x \in DOMAIN map : map[x] \in Value /\ x \in Value
  BY DEF ParameterMap
<1>3. DOMAIN new = DOMAIN map \cup {k}
  BY <1>1
<1>4. IsFiniteSet(DOMAIN new)
  BY <1>2, <1>3, FS_AddElement
<1>5. DOMAIN new \in SUBSET Value
  BY <1>2, <1>3
<1>6. new \in [DOMAIN new -> Value]
  BY <1>1, <1>2, <1>3
<1>7. new \in ParameterMap
  BY <1>4, <1>5, <1>6 DEF ParameterMap
<1> QED BY <1>7 DEF new

\* One more pair.
LEMMA OneMore ==
  ASSUME NEW q \in PeerQuery, NEW n \in Nat, n + 1 <= Len(q), NEW map, UpTo(q, n, map)
  PROVE  UpTo(q, n + 1, SetParameter(map, Enc(q[n + 1][1]), q[n + 1][2]))
<1> DEFINE m == n + 1
           name(i) == q[i][1]
           value(i) == q[i][2]
           k == Enc(name(m))
           new == SetParameter(map, k, value(m))
<1>1. ASSUME NEW i \in 1 .. m
      PROVE  name(i) \in Seq(Character) /\ value(i) \in Seq(Character)
  <2>1. q[i] \in Seq(Character) \X Seq(Character)
    <3>1. i \in 1 .. Len(q)
      BY DEF PeerQuery
    <3> QED BY <3>1 DEF PeerQuery
  <2> QED BY <2>1
<1>2. \A i \in 1 .. m : Enc(name(i)) \in Value /\ value(i) \in Value
  BY <1>1, PieceIs
<1>3. m \in 1 .. m /\ \A i \in 1 .. m : i \in 1 .. n \/ i = m
  OBVIOUS
<1>4. new = [x \in DOMAIN map \cup {k} |-> IF x = k THEN value(m) ELSE map[x]]
  BY DEF SetParameter
<1>5. /\ map \in ParameterMap
      /\ DOMAIN map = {Enc(name(i)) : i \in 1 .. n}
      /\ \A i \in 1 .. n :
           (\A j \in 1 .. n : j > i => name(j) # name(i)) => map[Enc(name(i))] = value(i)
  BY DEF UpTo
<1> HIDE DEF m, name, value, new
<1>6. DOMAIN new = DOMAIN map \cup {k}
  BY <1>4
<1>7. DOMAIN new = {Enc(name(i)) : i \in 1 .. m}
  <2>1. \A i \in 1 .. n : i \in 1 .. m
    BY DEF m
  <2> QED BY <1>3, <1>5, <1>6, <2>1
<1>8. new \in ParameterMap
  <2>1. k \in Value /\ value(m) \in Value
    BY <1>2, <1>3
  <2> QED BY <1>5, <2>1, SetParameterIs DEF new
<1>9. ASSUME NEW i \in 1 .. m, \A j \in 1 .. m : j > i => name(j) # name(i)
      PROVE  new[Enc(name(i))] = value(i)
  <2>1. CASE i = m
    BY <1>4, <2>1
  <2>2. CASE i \in 1 .. n
    <3>1. m > i /\ \A j \in 1 .. n : j \in 1 .. m
      BY <2>2 DEF m
    <3>2. name(m) # name(i)
      BY <1>3, <1>9, <3>1
    <3>3. Enc(name(i)) # k
      BY <1>1, <1>3, <3>2, EncOnce
    <3>4. map[Enc(name(i))] = value(i) /\ Enc(name(i)) \in DOMAIN map
      BY <1>5, <1>9, <2>2, <3>1
    <3> QED BY <1>4, <3>3, <3>4
  <2> QED BY <1>3, <2>1, <2>2
<1>10. UpTo(q, m, new)
  BY <1>7, <1>8, <1>9 DEF UpTo, name, value
<1> QED BY <1>10 DEF m, name, value, new

\* The query of a peer, behind the ?, is parameters with an & between them;
\* they are read one by one.
LEMMA PeerQueryRead ==
  ASSUME NEW q \in PeerQuery, Len(q) # 0
  PROVE  LET pairs == [i \in DOMAIN q |-> (IF i = 1 THEN <<QUERY>> ELSE <<AMP>>)
                         \o Enc(q[i][1]) \o <<EQ>> \o Enc(q[i][2])]
         IN \E args \in Line :
              /\ FlattenSeq(pairs) = <<QUERY>> \o args
              /\ \A i \in 1 .. Len(args) : args[i] # SP
              /\ UpTo(q, Len(q), ParseQuery(args))
<1> DEFINE n == Len(q)
           sep(i) == IF i = 1 THEN QUERY ELSE AMP
           piece(i) == Piece(q[i][1], q[i][2])
           pairs == [i \in DOMAIN q |-> (IF i = 1 THEN <<QUERY>> ELSE <<AMP>>)
                       \o Enc(q[i][1]) \o <<EQ>> \o Enc(q[i][2])]
           ss == [i \in 1 .. n |-> piece(i)]
<1>1. n \in Nat /\ n # 0 /\ DOMAIN q = 1 .. n
  BY DEF PeerQuery
<1>2. ASSUME NEW i \in 1 .. n
      PROVE  q[i][1] \in Seq(Character) /\ q[i][2] \in Seq(Character)
  <2>1. q[i] \in Seq(Character) \X Seq(Character)
    BY DEF PeerQuery
  <2> QED BY <2>1
<1>3. ASSUME NEW i \in 1 .. n
      PROVE  /\ pairs[i] = <<sep(i)>> \o piece(i) /\ pairs[i] \in Seq(PeerChar)
             /\ ss[i] = piece(i) /\ piece(i) \in Text /\ piece(i) # <<>>
             /\ \A j \in 1 .. Len(piece(i)) : piece(i)[j] # AMP
  <2> DEFINE k == q[i][1]
             v == q[i][2]
  <2>1. k \in Seq(Character) /\ v \in Seq(Character)
    BY <1>2
  <2>2. pairs[i] = <<sep(i)>> \o Enc(k) \o <<EQ>> \o Enc(v)
    BY <1>1
  <2>3. sep(i) \in {AMP, QUERY}
    OBVIOUS
  <2>4. piece(i) = Piece(k, v) /\ ss[i] = piece(i)
    OBVIOUS
  <2> DEFINE c == sep(i)
             s == piece(i)
  <2> HIDE DEF k, v, sep, piece, ss, pairs
  <2>5. /\ s = Piece(k, v) /\ ss[i] = s /\ c \in {AMP, QUERY}
        /\ pairs[i] = <<c>> \o Enc(k) \o <<EQ>> \o Enc(v)
    BY <2>2, <2>3, <2>4
  <2> HIDE DEF c, s
  <2>6. /\ s \in Text /\ s # <<>> /\ \A j \in 1 .. Len(s) : s[j] # AMP
        /\ \A d \in {AMP, QUERY} :
             /\ <<d>> \o Enc(k) \o <<EQ>> \o Enc(v) = <<d>> \o s
             /\ <<d>> \o s \in Seq(PeerChar)
    <3> DEFINE P == Piece(k, v)
    <3>1. /\ P \in Text /\ P # <<>> /\ \A j \in 1 .. Len(P) : P[j] # AMP
          /\ \A d \in {AMP, QUERY} :
               /\ <<d>> \o Enc(k) \o <<EQ>> \o Enc(v) = <<d>> \o P
               /\ <<d>> \o P \in Seq(PeerChar)
      BY <2>1, PieceIs
    <3> HIDE DEF P
    <3> QED BY <2>5, <3>1 DEF P
  <2>7. pairs[i] = <<c>> \o s /\ pairs[i] \in Seq(PeerChar)
    BY <2>5, <2>6
  <2> QED BY <2>5, <2>6, <2>7 DEF c, s
<1>4. pairs = [i \in 1 .. n |-> pairs[i]] /\ ss = [i \in 1 .. n |-> ss[i]]
  BY <1>1
<1> HIDE DEF n, piece, pairs, ss
<1>5. pairs \in Seq(Seq(PeerChar)) /\ Len(pairs) = n /\ ss \in Seq(Text) /\ Len(ss) = n
  <2>1. pairs \in [1 .. n -> Seq(PeerChar)]
    BY <1>3, <1>4
  <2>2. ss \in [1 .. n -> Text]
    BY <1>3, <1>4
  <2> QED BY <1>1, <2>1, <2>2, Listed
<1>6. PeerChar \in SUBSET Nat
  BY EncodedChars DEF PeerChar, EQ, AMP, QUERY
<1>7. PICK R : /\ R[1] = FlattenSeq(pairs)
               /\ R[n + 1] = <<>>
               /\ \A i \in 1 .. n + 1 : R[i] \in Seq(PeerChar)
               /\ \A i \in 1 .. n : R[i] = pairs[i] \o R[i + 1]
  <2>1. pairs \in Seq(Seq(PeerChar)) /\ Len(pairs) = n
    BY <1>5
  <2> QED BY <1>6, <2>1, FlattenIn
<1>8. \A i \in 1 .. n + 1 : R[i] \in Text
  BY <1>6, <1>7, SeqMonotonic DEF Text
<1> DEFINE T == [i \in 1 .. n |-> ss[i] \o R[i + 1]]
<1>9. ASSUME NEW i \in 1 .. n
      PROVE  /\ T[i] = ss[i] \o R[i + 1] /\ T[i] \in Text
             /\ R[i] = <<sep(i)>> \o T[i]
  <2> DEFINE a == ss[i]
             b == R[i + 1]
             c == sep(i)
  <2>1. i + 1 \in 1 .. n + 1
    BY <1>1
  <2>2. /\ a \in Text /\ b \in Text /\ c \in Nat
        /\ R[i] = (<<c>> \o a) \o b /\ T[i] = a \o b
    <3>1. c \in Nat
      BY DEF AMP, QUERY
    <3>2. R[i] = pairs[i] \o b /\ pairs[i] = <<c>> \o a /\ a \in Text
      BY <1>3, <1>7
    <3> QED BY <1>8, <2>1, <3>1, <3>2
  <2> HIDE DEF a, b, c, T
  <2>3. <<c>> \in Text
    BY <2>2 DEF Text
  <2>4. a \o b \in Text /\ (<<c>> \o a) \o b = <<c>> \o (a \o b)
    BY <2>2, <2>3, ConcatTexts
  <2> QED BY <2>2, <2>4 DEF a, b, c
<1> HIDE DEF T
<1>10. JoinedBy(T, ss, AMP)
  <2>1. Len(ss) # 0 /\ ss[Len(ss)] # <<>> /\ T[Len(ss)] = ss[Len(ss)]
    <3>1. n \in 1 .. n
      BY <1>1
    <3>2. ss[n] # <<>> /\ ss[n] \in Text /\ T[n] = ss[n] \o R[n + 1]
      BY <1>3, <1>9, <3>1
    <3>3. \A x \in Text : x \o <<>> = x
      BY DEF Text
    <3> QED BY <1>1, <1>5, <1>7, <3>2, <3>3
  <2>2. ASSUME NEW i \in 1 .. n PROVE \A j \in 1 .. Len(ss[i]) : ss[i][j] # AMP
    <3> DEFINE s == piece(i)
    <3>1. ss[i] = s /\ \A j \in 1 .. Len(s) : s[j] # AMP
      BY <1>3
    <3> HIDE DEF s
    <3> QED BY <3>1
  <2>3. \A i \in 1 .. n : T[i] \in Text
    BY <1>9
  <2>4. ASSUME NEW i \in 1 .. n - 1 PROVE T[i] = ss[i] \o <<AMP>> \o T[i + 1]
    <3> DEFINE a == ss[i]
               b == T[i + 1]
               c == R[i + 1]
    <3>1. i \in 1 .. n /\ i + 1 \in 1 .. n /\ i + 1 # 1
      BY <1>1
    <3>2. T[i] = a \o c /\ a \in Text /\ b \in Text
      BY <1>3, <1>9, <3>1
    <3>3. c = <<AMP>> \o b
      BY <1>9, <3>1
    <3> HIDE DEF a, b, c
    <3>4. <<AMP>> \in Text
      BY DEF AMP, Text
    <3>5. (a \o <<AMP>>) \o b = a \o (<<AMP>> \o b)
      BY <3>2, <3>4, ConcatTexts
    <3> QED BY <3>2, <3>3, <3>5 DEF a, b
  <2> QED BY <1>5, <2>1, <2>2, <2>3, <2>4 DEF JoinedBy
<1> DEFINE args == T[1]
<1>11. args \in Text /\ R[1] = <<QUERY>> \o args /\ R[1] \in Seq(PeerChar)
  <2>1. 1 \in 1 .. n /\ 1 \in 1 .. n + 1
    BY <1>1
  <2> QED BY <1>7, <1>9, <2>1
<1>12. args \in Line /\ \A i \in 1 .. Len(args) : args[i] # SP
  <2> HIDE DEF args
  <2>1. /\ Len(args) \in Nat /\ Len(<<QUERY>> \o args) = Len(args) + 1
        /\ \A i \in 1 .. Len(args) : (<<QUERY>> \o args)[i + 1] = args[i]
    BY <1>11 DEF Text, QUERY
  <2>2. ASSUME NEW i \in 1 .. Len(args) PROVE args[i] \in PeerChar
    <3>1. i + 1 \in 1 .. Len(R[1]) /\ R[1][i + 1] = args[i]
      BY <1>11, <2>1
    <3>2. \A j \in 1 .. Len(R[1]) : R[1][j] \in PeerChar
      BY <1>11
    <3> QED BY <3>1, <3>2
  <2>3. \A c \in PeerChar : c # SP /\ c # LINE_END
    <3>1. \A c \in {EQ, AMP, QUERY} : c # SP /\ c # LINE_END
      BY DEF EQ, AMP, QUERY, SP, LINE_END
    <3> QED BY <3>1, EncodedChars DEF PeerChar
  <2> QED BY <1>11, <2>2, <2>3 DEF Line
<1>13. Pieces(args, AMP) = ss
  <2>1. AMP \in Nat
    BY DEF AMP
  <2> QED BY <1>10, <2>1, PiecesLemma
<1> HIDE DEF args
<1>14. PICK z : /\ ParseQuery(args) = z[n]
                /\ z[0] = <<>>
                /\ \A i \in 1 .. n : z[i] = AddParameter(z[i - 1], ss[i])
  <2>1. ss = Pieces(args, AMP) /\ Len(ss) = n /\ n \in Nat
    BY <1>1, <1>5, <1>13
  <2> QED BY <2>1, QueryLoop
<1>15. ASSUME NEW i \in 1 .. n
       PROVE  z[i] = SetParameter(z[i - 1], Enc(q[i][1]), q[i][2])
  <2> DEFINE k == q[i][1]
             v == q[i][2]
  <2>1. k \in Seq(Character) /\ v \in Seq(Character)
    BY <1>2
  <2>2. z[i] = AddParameter(z[i - 1], ss[i]) /\ ss[i] = Piece(k, v)
    BY <1>3, <1>14 DEF piece
  <2> HIDE DEF k, v
  <2>3. /\ Enc(k) \in Text /\ \A j \in 1 .. Len(Enc(k)) : Enc(k)[j] # EQ
        /\ Coded(Enc(v), v)
    BY <2>1, PieceIs
  <2>4. AddParameter(z[i - 1], Enc(k) \o <<EQ>> \o Enc(v)) = SetParameter(z[i - 1], Enc(k), v)
    BY <2>3, ParameterRead
  <2> QED BY <2>2, <2>4 DEF k, v, Piece
<1>16. Nat \subseteq {j \in Nat : j <= n => UpTo(q, j, z[j])}
  <2> DEFINE S == {j \in Nat : j <= n => UpTo(q, j, z[j])}
  <2>1. 0 \in S
    <3>1. DOMAIN <<>> = {} /\ {Enc(q[i][1]) : i \in 1 .. 0} = {} /\ 1 .. 0 = {}
      OBVIOUS
    <3>2. UpTo(q, 0, <<>>)
      BY <3>1, NoParameter DEF UpTo
    <3> QED BY <1>14, <3>2
  <2>2. ASSUME NEW j \in Nat, j \in S PROVE j + 1 \in S
    <3> SUFFICES ASSUME j + 1 <= n PROVE UpTo(q, j + 1, z[j + 1])
      OBVIOUS
    <3>1. j + 1 \in 1 .. n /\ (j + 1) - 1 = j /\ j <= n
      BY <1>1
    <3>2. z[j + 1] = SetParameter(z[j], Enc(q[j + 1][1]), q[j + 1][2])
      BY <1>15, <3>1
    <3>3. UpTo(q, j, z[j])
      BY <2>2, <3>1
    <3> QED BY <3>2, <3>3, OneMore DEF n
  <2> QED BY <2>1, <2>2, NatSet
<1>17. UpTo(q, n, ParseQuery(args))
  BY <1>1, <1>14, <1>16
<1>18. FlattenSeq(pairs) = <<QUERY>> \o args
  BY <1>7, <1>11
<1> QED BY <1>12, <1>17, <1>18 DEF pairs, n

\* What is read of a request of a peer.
LEMMA PeerRead ==
  ASSUME NEW p \in Path, NEW q \in PeerQuery, NEW h \in Seq(Line), kind = "request"
  PROVE  LET t == PeerText(p, q, h) IN
         \E got :
           /\ UpTo(q, Len(q), got)
           /\ h = <<>> => create(t) = [status |-> "invalid"]
           /\ (\E i \in DOMAIN h : h[i] = <<>>) => create(t) = [status |-> "throws"]
           /\ h # <<>> /\ (\A i \in DOMAIN h : h[i] # <<>>) =>
                create(t) = [status |-> "ok",
                             object |-> [m_method |-> 0, m_path |-> p,
                                         m_version |-> <<Version>>, m_headers |-> PeerMap(h),
                                         m_parameters |-> got]]
<1> DEFINE t == PeerText(p, q, h)
           pairs == [i \in DOMAIN q |-> (IF i = 1 THEN <<QUERY>> ELSE <<AMP>>)
                       \o Enc(q[i][1]) \o <<EQ>> \o Enc(q[i][2])]
           FP == FlattenSeq(pairs)
           HS == PeerLines(h)
           a == MethodText(0) \o <<SP>>
           v == <<Version>>
           Target(x) == /\ x \in Line /\ (\A i \in 1 .. Len(x) : x[i] # SP)
                        /\ Before(x, QUERY) = p
                        /\ (a \o p) \o FP = a \o x
                        /\ UpTo(q, Len(q), IF find(x, QUERY) = 0 THEN <<>>
                                           ELSE ParseQuery(After(x, QUERY)))
<1>1. t = a \o p \o FP \o <<SP, Version, LINE_END>> \o HS \o <<LINE_END>>
  BY DEF PeerText, PeerLines, Enc
<1>2. v \in Versions /\ v \in Text /\ <<SP>> \in Text /\ <<LINE_END>> \in Text /\ <<QUERY>> \in Text
  BY DEF Versions, Version, Text, SP, LINE_END, QUERY
<1>3. a \in Text
  BY DEF Text, MethodText, MethodWord, SP
<1>4. <<SP, Version, LINE_END>> = <<SP>> \o v \o <<LINE_END>>
  OBVIOUS
<1>5. p \in Text
  BY TextsAreLines DEF Line
<1> HIDE DEF t, FP, HS, a, v
<1>6. \E x : Target(x)
  <2>1. CASE Len(q) = 0
    <3>1. <<>> \in Line /\ \A i \in 1 .. Len(<<>>) : <<>>[i] # SP
      BY DEF Line, Text
    <3>2. /\ p \in Line /\ (\A i \in 1 .. Len(p) : p[i] # SP)
          /\ find(p, QUERY) = 0 /\ Before(p, QUERY) = p
      BY <3>1, TargetRead
    <3>3. q = <<>> /\ DOMAIN q = 1 .. 0
      BY <2>1 DEF PeerQuery
    <3>4. FP = <<>>
      <4>1. pairs = [i \in 1 .. 0 |-> pairs[i]]
        BY <3>3
      <4> HIDE DEF pairs
      <4>2. pairs \in [1 .. 0 -> Nat]
        BY <4>1
      <4>3. pairs \in Seq(Nat) /\ Len(pairs) = 0
        BY <4>2, Listed
      <4>4. pairs = <<>>
        BY <4>3
      <4> QED BY <4>4 DEF FP, FlattenSeq
    <3>5. a \o p \in Text /\ \A x \in Text : x \o <<>> = x
      BY <1>3, <1>5, ConcatTexts DEF Text
    <3>6. (a \o p) \o FP = a \o p
      BY <3>4, <3>5
    <3>7. UpTo(q, Len(q), <<>>)
      <4>1. DOMAIN <<>> = {} /\ {Enc(q[i][1]) : i \in 1 .. 0} = {} /\ 1 .. 0 = {}
        OBVIOUS
      <4> QED BY <2>1, <4>1, NoParameter DEF UpTo
    <3>8. Target(p)
      BY <3>2, <3>6, <3>7
    <3> HIDE DEF Target
    <3> QED BY <3>8
  <2>2. CASE Len(q) # 0
    <3>1. PICK args \in Line : /\ FP = <<QUERY>> \o args
                               /\ \A i \in 1 .. Len(args) : args[i] # SP
                               /\ UpTo(q, Len(q), ParseQuery(args))
      BY <2>2, PeerQueryRead DEF FP
    <3> DEFINE x == p \o <<QUERY>> \o args
    <3>2. /\ x \in Line /\ (\A i \in 1 .. Len(x) : x[i] # SP)
          /\ find(x, QUERY) # 0
          /\ Before(x, QUERY) = p /\ After(x, QUERY) = args
      BY <3>1, TargetRead
    <3>3. args \in Text
      BY DEF Line
    <3>4. (a \o p) \o (<<QUERY>> \o args) = a \o x
      <4> DEFINE m == <<QUERY>>
                 b == a \o p
                 c == p \o m
      <4>1. m \in Text /\ b \in Text /\ c \in Text
        BY <1>2, <1>3, <1>5, ConcatTexts
      <4>2. b \o m = a \o c
        <5> HIDE DEF m
        <5> QED BY <1>3, <1>5, <4>1, Reassociate
      <4> HIDE DEF b, c, m
      <4>3. (b \o m) \o args = b \o (m \o args)
        BY <3>3, <4>1, Reassociate
      <4>4. (a \o c) \o args = a \o (c \o args)
        BY <1>3, <3>3, <4>1, Reassociate
      <4> QED BY <4>2, <4>3, <4>4 DEF b, c, m
    <3> HIDE DEF x
    <3>5. Target(x)
      BY <3>1, <3>2, <3>4
    <3> HIDE DEF Target
    <3> QED BY <3>5
  <2>3. Len(q) \in Nat
    BY DEF PeerQuery
  <2> QED BY <2>1, <2>2
<1>7. PICK x : Target(x)
  BY <1>6
<1> DEFINE line == a \o x \o <<SP>> \o v
           got == IF find(x, QUERY) = 0 THEN <<>> ELSE ParseQuery(After(x, QUERY))
<1>8. Len(h) # 0 <=> h # <<>>
  OBVIOUS
<1>9. HS \in Text /\ (h = <<>> => HS = <<>>)
  <2>1. CASE h = <<>>
    <3> DEFINE f == [i \in DOMAIN h |-> <<Host, COLON>> \o h[i] \o <<LINE_END>>]
    <3>1. f = [i \in 1 .. 0 |-> f[i]]
      BY <2>1
    <3>2. HS = FlattenSeq(f)
      BY DEF HS, PeerLines
    <3> HIDE DEF f
    <3>3. f \in [1 .. 0 -> Nat]
      BY <3>1
    <3>4. f \in Seq(Nat) /\ Len(f) = 0
      BY <3>3, Listed
    <3>5. f = <<>>
      BY <3>4
    <3> QED BY <3>2, <3>5 DEF FlattenSeq, Text
  <2>2. CASE h # <<>>
    <3>1. PICK b \in Block : HS = b \o <<LINE_END>>
      BY <1>8, <2>2, PeerHeadersRead DEF HS
    <3>2. b \in Text
      BY DEF Block
    <3> QED BY <1>2, <2>2, <3>1, <3>2, ConcatTexts
  <2> QED BY <2>1, <2>2
<1>10. t = Parts(line, HS, <<>>)
  <2> DEFINE y == a \o x
             e == <<LINE_END>>
             b == <<SP>>
  <2>1. x \in Text
    BY <1>7 DEF Line
  <2>2. y \in Text /\ e \in Text /\ b \in Text
    BY <1>2, <1>3, <2>1, ConcatTexts
  <2>3. t = y \o (b \o v \o e) \o HS \o e
    BY <1>1, <1>4, <1>7
  <2>4. line = y \o b \o v
    OBVIOUS
  <2> HIDE DEF y, e, b, Target, line
  <2> DEFINE c == b \o v
             l == y \o b \o v
  <2>5. c \in Text
    BY <1>2, <2>2, ConcatTexts
  <2>6. y \o c = l
    <3>1. v \in Text /\ y \in Text /\ b \in Text
      BY <1>2, <2>2
    <3>2. (y \o b) \o v = y \o (b \o v)
      BY <3>1, Reassociate
    <3> QED BY <3>2
  <2> HIDE DEF c, l
  <2>7. l \in Text
    BY <2>2, <2>5, <2>6, ConcatTexts
  <2>8. (y \o c) \o e = y \o (c \o e)
    BY <2>2, <2>5, Reassociate
  <2>9. t = l \o e \o HS \o e
    BY <2>3, <2>6, <2>8 DEF c
  <2>10. l \o e \o HS \o e \in Text
    <3>1. l \o e \in Text
      BY <2>2, <2>7, ConcatTexts
    <3>2. l \o e \o HS \in Text
      BY <1>9, <3>1, ConcatTexts
    <3> QED BY <2>2, <3>2, ConcatTexts
  <2>11. Parts(line, HS, <<>>) = l \o e \o HS \o e \o <<>>
    BY <2>4 DEF Parts, e, l
  <2>12. \A s \in Text : s \o <<>> = s
    BY DEF Text
  <2> QED BY <2>9, <2>10, <2>11, <2>12
<1>11. 0 \in 0 .. 8
  OBVIOUS
<1> DEFINE object(m) == [m_method |-> 0, m_path |-> Before(x, QUERY), m_version |-> v,
                         m_headers |-> m, m_parameters |-> got]
<1>12. /\ HS = <<>> => create(t) = [status |-> "invalid"]
       /\ \A b \in Block : HS = b \o <<LINE_END>> =>
            /\ CreateHeaders(b) = [status |-> "throws"] =>
                 create(t) = [status |-> "throws"]
            /\ \A m : CreateHeaders(b) = [status |-> "ok", map |-> m] =>
                 create(t) = [status |-> "ok", object |-> object(m)]
  <2>1. x \in Line /\ (\A i \in 1 .. Len(x) : x[i] # SP)
    BY <1>7
  <2>2. t = Parts(MethodText(0) \o <<SP>> \o x \o <<SP>> \o v, HS, <<>>)
    BY <1>10 DEF a
  <2> HIDE DEF Target, line
  <2>3. v \in Versions /\ HS \in Text /\ 0 \in 0 .. 8
    BY <1>2, <1>9
  <2>4. HS = <<>> => create(t) = [status |-> "invalid"]
    BY <2>1, <2>2, <2>3, PartsOfRequest
  <2>5. ASSUME NEW b \in Block, HS = b \o <<LINE_END>>,
               CreateHeaders(b) = [status |-> "throws"]
        PROVE  create(t) = [status |-> "throws"]
    BY <2>1, <2>2, <2>3, <2>5, PartsOfRequest
  <2>6. ASSUME NEW b \in Block, HS = b \o <<LINE_END>>, NEW m,
               CreateHeaders(b) = [status |-> "ok", map |-> m]
        PROVE  create(t) = [status |-> "ok", object |-> object(m)]
    <3> DEFINE f == IF find(x, QUERY) = 0 THEN <<>> ELSE ParseQuery(After(x, QUERY))
               g == Before(x, QUERY)
               T == Parts(MethodText(0) \o <<SP>> \o x \o <<SP>> \o v, HS, <<>>)
    <3>1. \A y : CreateHeaders(b) = [status |-> "ok", map |-> y] =>
            create(T) = [status |-> "ok",
                         object |-> [m_method |-> 0, m_path |-> g, m_version |-> v,
                                     m_headers |-> y, m_parameters |-> f]]
      BY <2>1, <2>3, <2>6, PartsOfRequest
    <3> HIDE DEF f, g, T
    <3>2. create(T) = [status |-> "ok",
                       object |-> [m_method |-> 0, m_path |-> g, m_version |-> v,
                                   m_headers |-> m, m_parameters |-> f]]
      BY <2>6, <3>1
    <3> QED BY <2>2, <3>2 DEF f, g, T
  <2> HIDE DEF object
  <2> QED BY <2>4, <2>5, <2>6
<1>13. UpTo(q, Len(q), got) /\ Before(x, QUERY) = p
  BY <1>7
<1> HIDE DEF Target, line, got
<1>14. h = <<>> => create(t) = [status |-> "invalid"]
  BY <1>9, <1>12
<1>15. ASSUME h # <<>>
       PROVE  /\ (\E i \in DOMAIN h : h[i] = <<>>) => create(t) = [status |-> "throws"]
              /\ (\A i \in DOMAIN h : h[i] # <<>>) =>
                   create(t) = [status |-> "ok", object |-> object(PeerMap(h))]
  <2>1. PICK b \in Block :
           /\ HS = b \o <<LINE_END>>
           /\ (\E i \in DOMAIN h : h[i] = <<>>) => CreateHeaders(b) = [status |-> "throws"]
           /\ (\A i \in DOMAIN h : h[i] # <<>>) =>
                CreateHeaders(b) = [status |-> "ok", map |-> PeerMap(h)]
    BY <1>8, <1>15, PeerHeadersRead DEF HS
  <2> HIDE DEF object
  <2> QED BY <1>12, <2>1
<1>16. (\E i \in DOMAIN h : h[i] = <<>>) => h # <<>>
  OBVIOUS
<1> QED BY <1>13, <1>14, <1>15, <1>16 DEF t, v

-----------------------------------------------------------------------------
(* The inductive invariant.                                                *)

ObjectOf == IF kind = "request" THEN Request ELSE Response

HttpTypeOK ==
  /\ kind \in {"request", "response"}
  /\ objects \in [Objects -> ObjectOf] /\ sent \in ObjectOf
  /\ origin \in {"none", "written", "received"}

\* What was written is `sent`, and back is what create() makes of it.  The
\* length of a response was added last.
WireWritten ==
  Written =>
    /\ back = create(wire)
    /\ kind = "request" =>
         \E order \in SetToSeqs(DOMAIN sent.m_parameters) :
           wire = SerializeRequest(sent, order)
    /\ kind = "response" =>
         /\ wire = SerializeResponse(sent)
         /\ \E m \in HeaderMap :
              sent.m_headers = add(m, <<ContentLength>>, to_string(Len(sent.m_content)))

\* What was received is a request of a peer with the query and the headers.
WireReceived ==
  Received =>
    /\ kind = "request" /\ back = create(wire)
    /\ query \in Queries /\ values \in HeaderTexts
    /\ \E p \in Paths : wire = PeerText(p, query, values)

HttpInv == HttpTypeOK /\ WireWritten /\ WireReceived

\* What the assumption says, in the sets of the proofs.
LEMMA ProgramTexts ==
  /\ \A m \in Methods : m \in 0 .. 8
  /\ \A c \in Codes : c \in 0 .. 999
  /\ \A s \in Texts : s \in Value /\ s \in Line /\ s \in Seq(Character)
  /\ \A p \in Paths : p \in Path
  /\ \A q \in Queries : q \in PeerQuery
  /\ \A h \in HeaderTexts : h \in Seq(Line)
<1>1. \A h \in HeaderTexts : h \in Seq(Line)
  BY HttpAssumption, TextsAreLines, SeqMonotonic
<1> QED BY <1>1, HttpAssumption, TextsAreLines DEF Path, PeerQuery

\* A length is a value of a header.
LEMMA LengthIsLine ==
  ASSUME NEW s \in Seq(Character)
  PROVE  to_string(Len(s)) \in Line
<1>1. Numeral + Len(s) \in Nat /\ Numeral + Len(s) # LINE_END
  BY DEF Numeral, LINE_END
<1> QED BY <1>1, OneSymbol DEF to_string

\* A response with its length is a response with headers.
LEMMA WithLengthIs ==
  ASSUME NEW r \in Response
  PROVE  /\ WithLength(r) \in Response
         /\ \E m \in HeaderMap :
              WithLength(r).m_headers =
                add(m, <<ContentLength>>, to_string(Len(WithLength(r).m_content)))
<1> DEFINE n == to_string(Len(r.m_content))
           h == add(r.m_headers, <<ContentLength>>, n)
<1>1. r.m_headers \in HeaderMap /\ r.m_content \in Seq(Character)
  BY DEF Response, Content
<1>2. n \in Line /\ <<ContentLength>> \in Name
  BY <1>1, LengthIsLine DEF Name
<1>3. WithLength(r) = [r EXCEPT !.m_headers = h]
  BY DEF WithLength
<1> HIDE DEF n
<1>4. h \in HeaderMap
  BY <1>1, <1>2, AddLemma
<1> HIDE DEF h
<1>5. WithLength(r) \in Response
  <2>1. [r EXCEPT !.m_headers = h] \in Response
    BY <1>4 DEF Response
  <2> QED BY <1>3, <2>1
<1>6. WithLength(r).m_headers = h /\ WithLength(r).m_content = r.m_content
  BY <1>3 DEF Response
<1> QED BY <1>1, <1>5, <1>6 DEF h, n

\* A message that was written is read as a message of the same class.
LEMMA WrittenRead ==
  ASSUME HttpTypeOK, WireWritten, Written
  PROVE  /\ back.status = IF sent.m_headers = <<>> THEN "invalid" ELSE "ok"
         /\ back.status = "ok" => back.object \in ObjectOf
         /\ back.status = "ok" /\ kind = "response" =>
              back.object = [sent EXCEPT !.m_content = <<>>]
         /\ back.status = "ok" /\ kind = "request" =>
              \E q \in ParameterMap :
                /\ back.object = [sent EXCEPT !.m_parameters = q]
                /\ sent.m_parameters = <<>> => q = <<>>
                /\ sent.m_parameters # <<>> =>
                     \E k \in DOMAIN sent.m_parameters :
                       /\ DOMAIN q = {url_encode(k)}
                       /\ DOMAIN sent.m_parameters = {k} =>
                            q[url_encode(k)] = Append(sent.m_parameters[k], 0)
<1>1. back = create(wire)
  BY DEF WireWritten
<1>2. CASE kind = "request"
  <2>1. sent \in Request
    BY <1>2 DEF HttpTypeOK, ObjectOf
  <2>2. PICK order \in SetToSeqs(DOMAIN sent.m_parameters) :
               wire = SerializeRequest(sent, order)
    BY <1>2 DEF WireWritten
  <2>3. PICK q \in ParameterMap :
               /\ sent.m_headers = <<>> => create(wire) = [status |-> "invalid"]
               /\ sent.m_headers # <<>> =>
                    create(wire) = [status |-> "ok", object |-> [sent EXCEPT !.m_parameters = q]]
               /\ sent.m_parameters = <<>> => q = <<>>
               /\ sent.m_parameters # <<>> =>
                    \E k \in DOMAIN sent.m_parameters :
                      /\ DOMAIN q = {url_encode(k)}
                      /\ DOMAIN sent.m_parameters = {k} =>
                           q[url_encode(k)] = Append(sent.m_parameters[k], 0)
    BY <1>2, <2>1, <2>2, RequestWritten
  <2>4. back.status = IF sent.m_headers = <<>> THEN "invalid" ELSE "ok"
    BY <1>1, <2>3
  <2>5. back.status = "ok" => back.object = [sent EXCEPT !.m_parameters = q]
    BY <1>1, <2>3
  <2>6. [sent EXCEPT !.m_parameters = q] \in Request
    BY <2>1 DEF Request
  <2> QED BY <1>2, <2>3, <2>4, <2>5, <2>6 DEF ObjectOf
<1>3. CASE kind = "response"
  <2>1. sent \in Response
    BY <1>3 DEF HttpTypeOK, ObjectOf
  <2>2. wire = SerializeResponse(sent)
    BY <1>3 DEF WireWritten
  <2>3. /\ sent.m_headers = <<>> => create(wire) = [status |-> "invalid"]
        /\ sent.m_headers # <<>> =>
             create(wire) = [status |-> "ok", object |-> [sent EXCEPT !.m_content = <<>>]]
    BY <1>3, <2>1, <2>2, ResponseWritten
  <2>4. back.status = IF sent.m_headers = <<>> THEN "invalid" ELSE "ok"
    BY <1>1, <2>3
  <2>5. back.status = "ok" => back.object = [sent EXCEPT !.m_content = <<>>]
    BY <1>1, <2>3
  <2>6. [sent EXCEPT !.m_content = <<>>] \in Response
    <3>1. <<>> \in Content
      BY DEF Content
    <3> QED BY <2>1, <3>1 DEF Response
  <2> QED BY <1>3, <2>4, <2>5, <2>6 DEF ObjectOf
<1> QED BY <1>2, <1>3 DEF HttpTypeOK

\* A request of a peer is read, with its headers and the parameters of its
\* query, when it has headers and something follows every colon.
LEMMA ReceivedRead ==
  ASSUME WireReceived, Received
  PROVE  /\ back.status =
              IF values = <<>> THEN "invalid"
              ELSE IF \E i \in DOMAIN values : values[i] = <<>> THEN "throws" ELSE "ok"
         /\ back.status = "ok" =>
              /\ back.object \in ObjectOf
              /\ back.object.m_headers = PeerMap(values)
              /\ UpTo(query, Len(query), back.object.m_parameters)
<1> DEFINE empty == \E i \in DOMAIN values : values[i] = <<>>
<1>1. /\ kind = "request" /\ back = create(wire)
      /\ query \in PeerQuery /\ values \in Seq(Line)
  BY ProgramTexts DEF WireReceived
<1>2. PICK p \in Path : wire = PeerText(p, query, values)
  BY ProgramTexts DEF WireReceived
<1>3. PICK got :
         /\ UpTo(query, Len(query), got)
         /\ values = <<>> => create(wire) = [status |-> "invalid"]
         /\ empty => create(wire) = [status |-> "throws"]
         /\ values # <<>> /\ ~empty =>
              create(wire) = [status |-> "ok",
                              object |-> [m_method |-> 0, m_path |-> p,
                                          m_version |-> <<Version>>,
                                          m_headers |-> PeerMap(values),
                                          m_parameters |-> got]]
  BY <1>1, <1>2, PeerRead
<1>4. values = <<>> => ~empty
  OBVIOUS
<1>5. ~empty => PeerMap(values) \in HeaderMap
  BY <1>1, PeerMapIs
<1> HIDE DEF empty
<1> DEFINE r == [m_method |-> 0, m_path |-> p, m_version |-> <<Version>>,
                 m_headers |-> PeerMap(values), m_parameters |-> got]
<1>6. ~empty => r \in Request
  <2>1. <<Version>> \in Versions /\ got \in ParameterMap
    BY <1>3 DEF Versions, UpTo
  <2> QED BY <1>5, <2>1 DEF Request
<1>7. r.m_parameters = got /\ r.m_headers = PeerMap(values)
  OBVIOUS
<1>8. values # <<>> /\ ~empty => back = [status |-> "ok", object |-> r]
  BY <1>1, <1>3
<1> HIDE DEF r
<1>9. back.status = IF values = <<>> THEN "invalid" ELSE IF empty THEN "throws" ELSE "ok"
  BY <1>1, <1>3, <1>4, <1>8
<1>10. back.status = "ok" => back.object = r /\ ~empty
  BY <1>8, <1>9
<1> QED BY <1>1, <1>3, <1>6, <1>7, <1>9, <1>10 DEF ObjectOf, empty

-----------------------------------------------------------------------------
(* The theorems.                                                           *)

\* What the constructors and a move leave are objects.
LEMMA DefaultIs ==
  ASSUME kind \in {"request", "response"}
  PROVE  Default \in ObjectOf /\ Emptied \in ObjectOf
<1>1. /\ <<>> \in HeaderMap /\ <<>> \in Path /\ <<>> \in Content
      /\ <<>> \in Versions /\ <<Version>> \in Versions
      /\ <<>> \in ParameterMap /\ 0 \in 0 .. 8 /\ 200 \in Code /\ 0 \in Code
  <2>1. <<>> \in Seq(Header) /\ 1 .. Len(<<>>) = {}
    OBVIOUS
  <2> QED BY <2>1, NoParameter DEF HeaderMap, Path, Versions, Code, Content
<1>2. CASE kind = "request"
  <2>1. DefaultRequest \in Request
    BY <1>1 DEF DefaultRequest, Request
  <2>2. [DefaultRequest EXCEPT !.m_version = <<>>] \in Request
    BY <1>1, <2>1 DEF Request
  <2> QED BY <1>2, <2>1, <2>2 DEF Default, Emptied, ObjectOf
<1>3. CASE kind = "response"
  <2>1. DefaultResponse \in Response
    BY <1>1 DEF DefaultResponse, Response
  <2> DEFINE r == [DefaultResponse EXCEPT !.m_version = <<>>]
  <2>2. r \in Response
    BY <1>1, <2>1 DEF Response
  <2> HIDE DEF r
  <2>3. [r EXCEPT !.m_code = 0] \in Response
    BY <1>1, <2>2 DEF Response
  <2>4. [DefaultResponse EXCEPT !.m_version = <<>>, !.m_code = 0] = [r EXCEPT !.m_code = 0]
    BY DEF r
  <2> QED BY <1>3, <2>1, <2>3, <2>4 DEF Default, Emptied, ObjectOf
<1> QED BY <1>2, <1>3

\* The invariant holds in the initial states.
LEMMA HttpInvInit ==
  HttpInit => HttpInv
<1> SUFFICES ASSUME HttpInit PROVE HttpInv
  OBVIOUS
<1>1. kind \in {"request", "response"} /\ origin = "none"
  BY DEF HttpInit
<1>2. Default \in ObjectOf
  BY <1>1, DefaultIs
<1>3. HttpTypeOK
  BY <1>1, <1>2 DEF HttpInit, HttpTypeOK
<1> QED BY <1>1, <1>3 DEF HttpInv, WireWritten, WireReceived, Written, Received

\* A step that changes objects only leaves what is known of the text.
LEMMA SameWire ==
  ASSUME HttpInv, UNCHANGED <<kind, wireVars>>, objects' \in [Objects -> ObjectOf]
  PROVE  HttpInv'
<1>1. /\ kind' = kind /\ wire' = wire /\ back' = back /\ origin' = origin
      /\ sent' = sent /\ query' = query /\ values' = values
  BY DEF wireVars
<1>2. ObjectOf' = ObjectOf
  BY <1>1 DEF ObjectOf
<1>3. HttpTypeOK'
  BY <1>1, <1>2 DEF HttpInv, HttpTypeOK
<1>4. create(wire)' = create(wire)
  BY <1>1 DEF create
<1>5. WireWritten'
  BY <1>1, <1>4 DEF HttpInv, WireWritten, Written
<1>6. WireReceived'
  BY <1>1, <1>4 DEF HttpInv, WireReceived, Received
<1> QED BY <1>3, <1>5, <1>6 DEF HttpInv

\* A setter of request leaves the text alone, and its object a request.
LEMMA SetRequestStep ==
  ASSUME HttpInv, NEW o \in Objects, SetRequest(o)
  PROVE  HttpInv'
<1>1. kind = "request" /\ UNCHANGED <<kind, wireVars>>
  BY DEF SetRequest, Call
<1>2. objects \in [Objects -> Request] /\ ObjectOf = Request
  BY <1>1 DEF HttpInv, HttpTypeOK, ObjectOf
<1>3. ASSUME NEW m \in Methods, Call([objects EXCEPT ![o].m_method = m])
      PROVE  objects' \in [Objects -> Request]
  BY <1>2, <1>3, ProgramTexts DEF Call, Request
<1>4. ASSUME Call([objects EXCEPT ![o].m_version = <<OldVersion>>])
      PROVE  objects' \in [Objects -> Request]
  <2>1. <<OldVersion>> \in Versions
    BY DEF Versions
  <2> DEFINE v == <<OldVersion>>
  <2> HIDE DEF v
  <2> QED BY <1>2, <1>4, <2>1 DEF Call, Request, v
<1>5. ASSUME NEW p \in Paths, Call([objects EXCEPT ![o].m_path = p])
      PROVE  objects' \in [Objects -> Request]
  BY <1>2, <1>5, ProgramTexts DEF Call, Request
<1>6. ASSUME NEW k \in Texts, NEW v \in Texts,
             Call([objects EXCEPT ![o].m_parameters = SetParameter(@, k, v)])
      PROVE  objects' \in [Objects -> Request]
  <2>1. objects[o].m_parameters \in ParameterMap
    BY <1>2 DEF Request
  <2> DEFINE q == SetParameter(objects[o].m_parameters, k, v)
  <2>2. q \in ParameterMap
    BY <2>1, ProgramTexts, SetParameterIs
  <2>3. objects' = [objects EXCEPT ![o].m_parameters = q]
    BY <1>6 DEF Call
  <2> HIDE DEF q
  <2> QED BY <1>2, <2>2, <2>3 DEF Request
<1>7. objects' \in [Objects -> Request]
  BY <1>3, <1>4, <1>5, <1>6 DEF SetRequest
<1> QED BY <1>1, <1>2, <1>7, SameWire

\* A setter of response leaves the text alone, and its object a response.
LEMMA SetResponseStep ==
  ASSUME HttpInv, NEW o \in Objects, SetResponse(o)
  PROVE  HttpInv'
<1>1. kind = "response" /\ UNCHANGED <<kind, wireVars>>
  BY DEF SetResponse, Call
<1>2. objects \in [Objects -> Response] /\ ObjectOf = Response
  BY <1>1 DEF HttpInv, HttpTypeOK, ObjectOf
<1>3. ASSUME NEW c \in Codes, Call([objects EXCEPT ![o].m_code = c])
      PROVE  objects' \in [Objects -> Response]
  <2>1. c \in Code
    BY HttpAssumption DEF Code
  <2>2. objects[o] \in Response /\ objects' = [objects EXCEPT ![o].m_code = c]
    BY <1>2, <1>3 DEF Call
  <2>3. [objects[o] EXCEPT !.m_code = c] \in Response
    BY <2>1, <2>2 DEF Response
  <2>4. objects' = [objects EXCEPT ![o] = [objects[o] EXCEPT !.m_code = c]]
    BY <2>2
  <2> DEFINE r == [objects[o] EXCEPT !.m_code = c]
  <2> HIDE DEF r
  <2> QED BY <1>2, <2>3, <2>4 DEF r
<1>4. ASSUME Call([objects EXCEPT ![o].m_version = <<OldVersion>>])
      PROVE  objects' \in [Objects -> Response]
  <2>1. <<OldVersion>> \in Versions
    BY DEF Versions
  <2> DEFINE v == <<OldVersion>>
  <2> HIDE DEF v
  <2>2. objects[o] \in Response /\ objects' = [objects EXCEPT ![o].m_version = v]
    BY <1>2, <1>4 DEF Call, v
  <2>3. [objects[o] EXCEPT !.m_version = v] \in Response
    BY <2>1, <2>2 DEF Response, v
  <2>4. objects' = [objects EXCEPT ![o] = [objects[o] EXCEPT !.m_version = v]]
    BY <2>2
  <2> DEFINE r == [objects[o] EXCEPT !.m_version = v]
  <2> HIDE DEF r
  <2> QED BY <1>2, <2>3, <2>4 DEF r
<1>5. ASSUME NEW s \in Texts, Call([objects EXCEPT ![o].m_content = s])
      PROVE  objects' \in [Objects -> Response]
  <2>1. s \in Content
    BY ProgramTexts DEF Content
  <2>2. objects[o] \in Response /\ objects' = [objects EXCEPT ![o].m_content = s]
    BY <1>2, <1>5 DEF Call
  <2>3. [objects[o] EXCEPT !.m_content = s] \in Response
    BY <2>1, <2>2 DEF Response
  <2>4. objects' = [objects EXCEPT ![o] = [objects[o] EXCEPT !.m_content = s]]
    BY <2>2
  <2> DEFINE r == [objects[o] EXCEPT !.m_content = s]
  <2> HIDE DEF r
  <2> QED BY <1>2, <2>3, <2>4 DEF r
<1>6. ASSUME NEW s \in Texts,
             Call([objects EXCEPT ![o].m_headers = add(@, <<Host>>, s)])
      PROVE  objects' \in [Objects -> Response]
  <2>1. objects[o].m_headers \in HeaderMap
    BY <1>2 DEF Response
  <2> DEFINE h == add(objects[o].m_headers, <<Host>>, s)
  <2>2. s \in Line /\ <<Host>> \in Name
    BY ProgramTexts DEF Name
  <2>3. h \in HeaderMap
    BY <2>1, <2>2, AddLemma
  <2>4. objects' = [objects EXCEPT ![o].m_headers = h]
    BY <1>6 DEF Call
  <2> HIDE DEF h
  <2>5. objects[o] \in Response
    BY <1>2
  <2>6. [objects[o] EXCEPT !.m_headers = h] \in Response
    BY <2>3, <2>5 DEF Response
  <2>7. objects' = [objects EXCEPT ![o] = [objects[o] EXCEPT !.m_headers = h]]
    BY <2>4
  <2> DEFINE r == [objects[o] EXCEPT !.m_headers = h]
  <2> HIDE DEF r
  <2> QED BY <1>2, <2>6, <2>7 DEF r
<1>7. objects' \in [Objects -> Response]
  BY <1>3, <1>4, <1>5, <1>6 DEF SetResponse
<1> QED BY <1>1, <1>2, <1>7, SameWire

\* serialize() writes a text of an object, and create() is given that text.
LEMMA SerializeStep ==
  ASSUME HttpInv, NEW o \in Objects, Serialize(o)
  PROVE  HttpInv'
<1>1. /\ kind' = kind /\ origin' = "written" /\ sent' = objects'[o] /\ query' = query
      /\ kind \in {"request", "response"} /\ objects \in [Objects -> ObjectOf]
  BY DEF Serialize, Call, HttpInv, HttpTypeOK
<1>2. ObjectOf' = ObjectOf
  BY <1>1 DEF ObjectOf
<1>3. \A t : back' = create(t) /\ wire' = t => back' = create(wire)'
  BY <1>1 DEF create
<1>4. WireReceived'
  BY <1>1 DEF WireReceived, Received
<1>5. CASE kind = "request"
  <2>1. objects' = objects
    BY <1>5 DEF Serialize, Call
  <2>2. PICK order \in SetToSeqs(DOMAIN objects[o].m_parameters) :
               Publish(SerializeRequest(objects[o], order))
    BY <1>5 DEF Serialize
  <2>3. HttpTypeOK'
    BY <1>1, <1>2, <2>1 DEF HttpTypeOK
  <2>4. back' = create(wire)'
    BY <1>3, <2>2 DEF Publish
  <2>5. wire' = SerializeRequest(sent', order) /\ order \in SetToSeqs(DOMAIN sent'.m_parameters)
    BY <1>1, <2>1, <2>2 DEF Publish
  <2>6. WireWritten'
    BY <1>1, <1>5, <2>4, <2>5 DEF WireWritten
  <2> QED BY <1>4, <2>3, <2>6 DEF HttpInv
<1>6. CASE kind = "response"
  <2> DEFINE r == WithLength(objects[o])
  <2>1. ObjectOf = Response /\ objects \in [Objects -> Response]
    BY <1>1, <1>6 DEF ObjectOf
  <2>2. /\ r \in Response
        /\ \E m \in HeaderMap :
             r.m_headers = add(m, <<ContentLength>>, to_string(Len(r.m_content)))
    BY <2>1, WithLengthIs
  <2>3. objects' = [objects EXCEPT ![o] = r] /\ Publish(SerializeResponse(r))
    BY <1>6 DEF Serialize, Call
  <2> HIDE DEF r
  <2>4. objects' \in [Objects -> Response] /\ sent' = r
    BY <1>1, <2>1, <2>2, <2>3
  <2>5. HttpTypeOK'
    BY <1>1, <1>2, <2>1, <2>2, <2>4 DEF HttpTypeOK
  <2>6. back' = create(wire)' /\ wire' = SerializeResponse(r)
    BY <1>3, <2>3 DEF Publish
  <2>7. WireWritten'
    BY <1>1, <1>6, <2>2, <2>4, <2>6 DEF WireWritten
  <2> QED BY <1>4, <2>5, <2>7 DEF HttpInv
<1> QED BY <1>1, <1>5, <1>6

\* A text received is the peer's, and create() is given that text.
LEMMA ReceiveStep ==
  ASSUME HttpInv, NEW p \in Paths, NEW q \in Queries, NEW h \in HeaderTexts, Receive(p, q, h)
  PROVE  HttpInv'
<1>1. /\ kind = "request" /\ kind' = kind /\ objects' = objects /\ sent' = sent
      /\ query' = q /\ values' = h /\ origin' = "received"
      /\ wire' = PeerText(p, q, h) /\ back' = create(PeerText(p, q, h))
  BY DEF Receive, Call, Publish
<1>2. ObjectOf' = ObjectOf
  BY <1>1 DEF ObjectOf
<1>3. HttpTypeOK'
  BY <1>1, <1>2 DEF HttpInv, HttpTypeOK
<1>4. back' = create(wire)'
  BY <1>1 DEF create
<1>5. WireReceived'
  BY <1>1, <1>4 DEF WireReceived
<1>6. WireWritten'
  BY <1>1 DEF WireWritten, Written
<1> QED BY <1>3, <1>5, <1>6 DEF HttpInv

\* An object read back is of the class, because create() reads only those.
LEMMA ReadBackStep ==
  ASSUME HttpInv, NEW o \in Objects, ReadBack(o)
  PROVE  HttpInv'
<1>1. UNCHANGED <<kind, wireVars>> /\ objects \in [Objects -> ObjectOf]
  BY DEF ReadBack, Call, HttpInv, HttpTypeOK
<1>2. Written \/ Received
  BY DEF ReadBack, HttpInv, HttpTypeOK, Written, Received
<1>3. back.status = "ok" => back.object \in ObjectOf
  BY <1>2, WrittenRead, ReceivedRead DEF HttpInv
<1>4. objects' = IF back.status = "ok" THEN [objects EXCEPT ![o] = back.object] ELSE objects
  BY DEF ReadBack, Call
<1>5. objects' \in [Objects -> ObjectOf]
  BY <1>1, <1>3, <1>4
<1> QED BY <1>1, <1>5, SameWire

\* Copies, moves and assignments exchange objects of the class.
LEMMA CopyStep ==
  ASSUME HttpInv, NEW a \in Objects, NEW b \in Objects,
         Copy(a, b) \/ Move(a, b) \/ MoveAssign(a, b)
  PROVE  HttpInv'
<1>1. UNCHANGED <<kind, wireVars>> /\ objects \in [Objects -> ObjectOf]
  BY DEF Copy, Move, MoveAssign, Call, HttpInv, HttpTypeOK
<1>2. Emptied \in ObjectOf
  BY DefaultIs DEF HttpInv, HttpTypeOK
<1>3. \/ objects' = [objects EXCEPT ![b] = objects[a]]
      \/ objects' = [objects EXCEPT ![b] = objects[a], ![a] = Emptied]
      \/ objects' = [objects EXCEPT ![b] = objects[a], ![a] = objects[b]]
  BY DEF Copy, Move, MoveAssign, Call
<1>4. objects' \in [Objects -> ObjectOf]
  BY <1>1, <1>2, <1>3
<1> QED BY <1>1, <1>4, SameWire

\* Every object is well formed, and what is known of the text is how it came
\* about: serialize() or a peer.
THEOREM HttpInvariant == HttpSpec => []HttpInv
<1>1. HttpInit => HttpInv
  BY HttpInvInit
<1>2. HttpInv /\ [HttpNext]_httpVars => HttpInv'
  <2> SUFFICES ASSUME HttpInv, [HttpNext]_httpVars PROVE HttpInv'
    OBVIOUS
  <2>1. ASSUME NEW o \in Objects,
               SetRequest(o) \/ SetResponse(o) \/ Serialize(o) \/ ReadBack(o)
        PROVE  HttpInv'
    BY <2>1, SetRequestStep, SetResponseStep, SerializeStep, ReadBackStep
  <2>2. ASSUME NEW a \in Objects, NEW b \in Objects,
               Copy(a, b) \/ Move(a, b) \/ MoveAssign(a, b)
        PROVE  HttpInv'
    BY <2>2, CopyStep
  <2>3. ASSUME NEW p \in Paths, NEW q \in Queries, NEW h \in HeaderTexts, Receive(p, q, h)
        PROVE  HttpInv'
    BY <2>3, ReceiveStep
  <2>4. CASE UNCHANGED httpVars
    <3>1. UNCHANGED <<kind, wireVars>> /\ objects' \in [Objects -> ObjectOf]
      BY <2>4 DEF httpVars, HttpInv, HttpTypeOK
    <3> QED BY <3>1, SameWire
  <2> QED BY <2>1, <2>2, <2>3, <2>4 DEF HttpNext
<1> QED BY <1>1, <1>2, PTL DEF HttpSpec

\* The last Content-Length of a response that was serialised is the length of
\* its content, whatever headers it had.
THEOREM LengthOfResponse == HttpSpec => []LastLengthIsRight
<1>1. HttpInv => LastLengthIsRight
  <2> SUFFICES ASSUME HttpInv, Written, kind = "response"
               PROVE  /\ get(sent.m_headers, <<ContentLength>>) # <<>>
                      /\ Last(get(sent.m_headers, <<ContentLength>>))
                           = to_string(Len(sent.m_content))
    BY DEF LastLengthIsRight
  <2> DEFINE n == to_string(Len(sent.m_content))
  <2>1. PICK m \in HeaderMap : sent.m_headers = add(m, <<ContentLength>>, n)
    BY DEF HttpInv, WireWritten
  <2>2. sent.m_content \in Seq(Character)
    BY DEF HttpInv, HttpTypeOK, ObjectOf, Response, Content
  <2>3. n \in Line /\ <<ContentLength>> \in Name
    BY <2>2, LengthIsLine DEF Name
  <2> HIDE DEF n
  <2>4. /\ get(add(m, <<ContentLength>>, n), <<ContentLength>>) # <<>>
        /\ Last(get(add(m, <<ContentLength>>, n), <<ContentLength>>)) = n
    BY <2>3, GetLast
  <2> QED BY <2>1, <2>4 DEF n
<1> QED BY <1>1, HttpInvariant, PTL

\* Whatever is done with the objects, create() refuses a text that was
\* serialised only when it has no header; of a peer's text it throws exactly
\* when nothing follows the colon of a header, and reads all its headers
\* otherwise.
THEOREM OutcomeOfCreate == HttpSpec => []CreateOutcome
<1>1. HttpInv => CreateOutcome
  <2> SUFFICES ASSUME HttpInv PROVE CreateOutcome
    OBVIOUS
  <2>1. Written => back.status = IF sent.m_headers = <<>> THEN "invalid" ELSE "ok"
    BY WrittenRead DEF HttpInv
  <2>2. Received =>
          /\ back.status =
               IF values = <<>> THEN "invalid"
               ELSE IF \E i \in DOMAIN values : values[i] = <<>> THEN "throws" ELSE "ok"
          /\ back.status = "ok" => back.object.m_headers = PeerMap(values)
    BY ReceivedRead DEF HttpInv
  <2> QED BY <2>1, <2>2 DEF CreateOutcome, PeerMap
<1> QED BY <1>1, HttpInvariant, PTL

\* The first line and the headers of a message, whatever was done with its
\* object before, are read as they were serialised.
THEOREM ReadsBack == HttpSpec => []MessageReadsBack
<1>1. HttpInv => MessageReadsBack
  <2> SUFFICES ASSUME HttpInv, Written, back.status = "ok" PROVE MessageReadsBack
    BY DEF MessageReadsBack
  <2>1. CASE kind = "response"
    <3>1. back.object = [sent EXCEPT !.m_content = <<>>]
      BY <2>1, WrittenRead DEF HttpInv
    <3> QED BY <2>1, <3>1 DEF MessageReadsBack
  <2>2. CASE kind = "request"
    <3>1. PICK q \in ParameterMap :
                 /\ back.object = [sent EXCEPT !.m_parameters = q]
                 /\ sent.m_parameters = <<>> => q = <<>>
      BY <2>2, WrittenRead DEF HttpInv
    <3>2. sent \in Request
      BY <2>2 DEF HttpInv, HttpTypeOK, ObjectOf
    <3>3. /\ back.object.m_parameters = q
          /\ [back.object EXCEPT !.m_parameters = <<>>] = [sent EXCEPT !.m_parameters = <<>>]
      BY <3>1, <3>2 DEF Request
    <3> QED BY <2>2, <3>1, <3>3 DEF MessageReadsBack
  <2> QED BY <2>1, <2>2 DEF HttpInv, HttpTypeOK
<1> QED BY <1>1, HttpInvariant, PTL

\* Of the parameters of a request that was serialised one is found, with a
\* name that is still encoded.
THEOREM OneParameterIsRead == HttpSpec => []ParametersRunTogether
<1>1. HttpInv => ParametersRunTogether
  <2> SUFFICES ASSUME HttpInv, Written, kind = "request", back.status = "ok",
                      sent.m_parameters # <<>>
               PROVE  LET got == back.object.m_parameters
                          names == DOMAIN sent.m_parameters
                      IN \E k \in names :
                           /\ DOMAIN got = {url_encode(k)}
                           /\ names = {k} =>
                                got[url_encode(k)] = Append(sent.m_parameters[k], 0)
    BY DEF ParametersRunTogether
  <2>1. PICK q \in ParameterMap :
               /\ back.object = [sent EXCEPT !.m_parameters = q]
               /\ \E k \in DOMAIN sent.m_parameters :
                    /\ DOMAIN q = {url_encode(k)}
                    /\ DOMAIN sent.m_parameters = {k} =>
                         q[url_encode(k)] = Append(sent.m_parameters[k], 0)
    BY WrittenRead DEF HttpInv
  <2>2. sent \in Request
    BY DEF HttpInv, HttpTypeOK, ObjectOf
  <2>3. back.object.m_parameters = q
    BY <2>1, <2>2 DEF Request
  <2> QED BY <2>1, <2>3
<1> QED BY <1>1, HttpInvariant, PTL

\* Of the query of a peer every name is found, with the decoded form of its
\* last value.
THEOREM QueryIsRead == HttpSpec => []QueryIsUnderstood
<1>1. HttpInv => QueryIsUnderstood
  <2> SUFFICES ASSUME HttpInv, Received, back.status = "ok" PROVE QueryIsUnderstood
    BY DEF QueryIsUnderstood
  <2> DEFINE got == back.object.m_parameters
  <2>1. UpTo(query, Len(query), got)
    BY ReceivedRead DEF HttpInv
  <2>2. query \in PeerQuery
    BY ProgramTexts DEF HttpInv, WireReceived
  <2>3. DOMAIN query = 1 .. Len(query)
    BY <2>2 DEF PeerQuery
  <2> QED BY <2>1, <2>3 DEF QueryIsUnderstood, UpTo, Enc
<1> QED BY <1>1, HttpInvariant, PTL

=============================================================================
