------------------------- MODULE RSXProcessor_proofs -------------------------
(***************************************************************************)
(* Proofs about the command buffer and the RSXProcessor for every capacity,*)
(* every set of methods and data words, and every history of writes, reads,*)
(* peeks, clears and submissions: the positions stay inside the buffer, the*)
(* buffer is a queue of the commands written, and the draw state follows   *)
(* the commands processed.                                                 *)
(*                                                                         *)
(* The buffer holds nothing but words, so what makes it readable is that   *)
(* the headers form a chain: from the read position, each header's count   *)
(* leads to the next header and in the end to the write position.          *)
(***************************************************************************)
EXTENDS RSXProcessor, TLAPS, WellFoundedInduction, SequenceTheorems

Slots == 0 .. (Capacity \div 4 - 1)

\* BufferTypeOK of a value.
BufOK(b) ==
    /\ b \in [allocated : BOOLEAN, words : [Slots -> Word], pos : 0 .. Room,
              next : 0 .. Room]
    /\ b.next <= b.pos
    /\ b.pos > 0 => b.allocated

\* The commands as they can be read back.
Storable == {Stored(method, data) : method \in Methods, data \in Data}

After(b, p) == p + 1 + CountAt(b, p)

\* H is a set of header positions: it leads from the read position to the write
\* position, and at each of its positions there is a command that was written.
Chain(b, H) ==
    /\ H \in SUBSET (0 .. b.pos) /\ b.next \in H /\ b.pos \in H
    /\ \A p \in H : p < b.pos => CommandAt(b, p) \in Storable /\ After(b, p) \in H

Chained(b) == \E H \in SUBSET Nat : Chain(b, H)
-----------------------------------------------------------------------------
(* Arithmetic. *)

LEMMA LeastElement ==
  ASSUME NEW S \in SUBSET Nat, S # {}
  PROVE  \E m \in S : \A n \in S : m <= n
<1> DEFINE R == OpToRel(<, Nat)
<1>1. R = {ss \in Nat \X Nat : ss[1] < ss[2]}
  BY DEF OpToRel
<1>2. IsWellFoundedOn(R, Nat)
  BY NatLessThanWellFounded
<1> HIDE DEF R
<1>3. PICK x \in S : \A y \in S : ~ (<<y, x>> \in R)
  BY <1>2, WFMin
<1>4. ASSUME NEW y \in S
      PROVE  x <= y
  <2>1. y < x => <<y, x>> \in R
    BY <1>1
  <2>2. x \in Nat /\ y \in Nat /\ ~ (y < x)
    BY <1>3, <2>1
  <2> QED BY <2>2
<1> QED BY <1>4

\* A nonempty set of numbers up to n has a greatest.
LEMMA GreatestElement ==
  ASSUME NEW n \in Nat, NEW S \in SUBSET (0 .. n), S # {}
  PROVE  \E m \in S : \A k \in S : k <= m
<1> DEFINE T == {n - k : k \in S}
<1>1. T \in SUBSET Nat /\ T # {}
  <2>1. PICK k \in S : TRUE
    OBVIOUS
  <2>2. n - k \in T
    BY <2>1
  <2> QED BY <2>2
<1>2. PICK t \in T : \A u \in T : t <= u
  BY <1>1, LeastElement
<1>3. PICK m \in S : t = n - m
  BY <1>2
<1>4. ASSUME NEW k \in S PROVE k <= m
  <2>1. t <= n - k
    BY <1>2
  <2> QED BY <1>3, <2>1
<1> QED BY <1>4

\* What is put into a header comes out of it.
LEMMA HeaderFields ==
  ASSUME NEW x \in Nat, NEW n \in 0 .. (CountBase - 1)
  PROVE  /\ (x * CountBase + n) \div CountBase = x
         /\ (x * CountBase + n) % CountBase = n
<1>1. CountBase \in Nat /\ CountBase > 0
  BY BufferAssumption
<1>2. x * CountBase \in Nat
  BY <1>1, SMT
<1> QED BY <1>1, <1>2, SMT

LEMMA HeaderInWord ==
  ASSUME NEW method \in Nat, NEW n \in 0 .. (CountBase - 1)
  PROVE  /\ Header(method, n) \in Word
         /\ Header(method, n) \div CountBase = method % MethodBase
         /\ Header(method, n) % CountBase = n
<1> DEFINE x == method % MethodBase
<1>1. CountBase \in Nat \ {0} /\ MethodBase \in Nat \ {0}
  BY BufferAssumption
<1>2. x \in 0 .. (MethodBase - 1)
  BY <1>1
<1>3. Header(method, n) = x * CountBase + n
  BY DEF Header
<1> HIDE DEF x
<1>4. x * CountBase <= (MethodBase - 1) * CountBase /\ x * CountBase \in Nat
  BY <1>1, <1>2, SMT
<1>5. (MethodBase - 1) * CountBase = MethodBase * CountBase - CountBase
  BY <1>1, SMT
<1>6. MethodBase * CountBase \in Nat
  BY <1>1, SMT
<1>7. x * CountBase + n \in Word
  BY <1>1, <1>4, <1>5, <1>6 DEF Word
<1> QED BY <1>2, <1>3, <1>7, HeaderFields DEF x

\* Below the write position there are words.
LEMMA SlotFacts ==
  ASSUME NEW b, BufOK(b), NEW p \in 0 .. (b.pos - 1)
  PROVE  /\ p \in Slots /\ b.words[p] \in Nat
         /\ CountAt(b, p) \in Nat /\ After(b, p) \in Nat /\ After(b, p) > p
<1>1. b.pos \in 0 .. Room /\ b.words \in [Slots -> Word]
  BY DEF BufOK
<1>2. Capacity \in Nat /\ CountBase \in Nat \ {0}
  BY BufferAssumption
<1>3. p \in Slots
  BY <1>1, <1>2, SMT DEF Room, Slots
<1>4. b.words[p] \in Nat
  BY <1>1, <1>3 DEF Word
<1>5. CountAt(b, p) \in Nat
  BY <1>2, <1>4 DEF CountAt
<1> QED BY <1>3, <1>4, <1>5 DEF After
-----------------------------------------------------------------------------
(***************************************************************************)
(* Pending is a recursive function.  Its equation holds because each call  *)
(* is for a later position: a function that satisfies it from some         *)
(* position on can be extended by one position.                            *)
(***************************************************************************)
Step(b, f, p) ==
    IF p >= b.pos THEN <<>>
    ELSE <<CommandAt(b, p)>> \o (IF After(b, p) <= b.pos THEN f[After(b, p)] ELSE <<>>)

IsWalk(b, from, f) == f = [p \in from .. b.pos |-> Step(b, f, p)]

Walk(b) == CHOOSE f : IsWalk(b, 0, f)

LEMMA PendingIsWalk == ASSUME NEW b PROVE Pending(b) = Walk(b)[b.next]
BY DEF Pending, Walk, IsWalk, Step, After

LEMMA WalkExists ==
  ASSUME NEW b, BufOK(b)
  PROVE  \E f : IsWalk(b, 0, f)
<1> DEFINE Bad == {n \in 0 .. b.pos : ~ \E f : IsWalk(b, b.pos - n, f)}
<1>1. b.pos \in Nat
  BY DEF BufOK
<1>2. SUFFICES ASSUME Bad # {} PROVE FALSE
  BY <1>1
<1>3. PICK n \in Bad : \A m \in Bad : n <= m
  <2>1. Bad \in SUBSET Nat
    OBVIOUS
  <2> HIDE DEF Bad
  <2> QED BY <1>2, <2>1, LeastElement
<1>4. n # 0
  <2>1. IsWalk(b, b.pos, [p \in b.pos .. b.pos |-> <<>>])
    BY <1>1 DEF IsWalk, Step
  <2> QED BY <1>1, <1>3, <2>1
<1>5. n - 1 \in 0 .. b.pos /\ n - 1 \notin Bad
  BY <1>1, <1>3, <1>4
<1> DEFINE s == b.pos - n
<1>6. s \in Nat /\ s < b.pos /\ b.pos - (n - 1) = s + 1
  BY <1>1, <1>3, <1>4
<1>7. PICK g : IsWalk(b, s + 1, g)
  BY <1>5, <1>6
<1> HIDE DEF s
<1> DEFINE f == [p \in s .. b.pos |-> IF p = s THEN Step(b, g, p) ELSE g[p]]
<1>8. ASSUME NEW p \in s .. b.pos PROVE Step(b, g, p) = Step(b, f, p)
  <2>1. CASE p >= b.pos
    BY <2>1 DEF Step
  <2>2. CASE ~(p >= b.pos)
    <3>1. p \in 0 .. (b.pos - 1) /\ p >= s
      BY <1>1, <1>6, <2>2
    <3>2. After(b, p) \in Nat /\ After(b, p) > s
      BY <1>6, <3>1, SlotFacts
    <3>3. After(b, p) <= b.pos => f[After(b, p)] = g[After(b, p)]
      BY <1>1, <1>6, <3>2
    <3> HIDE DEF f
    <3> QED BY <3>3 DEF Step
  <2> QED BY <2>1, <2>2
<1>9. ASSUME NEW p \in s .. b.pos PROVE f[p] = Step(b, f, p)
  <2>1. CASE p = s
    BY <1>8, <2>1
  <2>2. CASE p # s
    <3>1. p \in (s + 1) .. b.pos
      BY <1>1, <1>6, <2>2
    <3>2. g[p] = Step(b, g, p)
      BY <1>7, <3>1 DEF IsWalk
    <3>3. f[p] = g[p]
      BY <2>2
    <3> HIDE DEF f
    <3> QED BY <1>8, <3>2, <3>3
  <2> QED BY <2>1, <2>2
<1>10. f = [p \in s .. b.pos |-> f[p]]
  OBVIOUS
<1>11. IsWalk(b, s, f)
  <2> HIDE DEF f
  <2> QED BY <1>9, <1>10 DEF IsWalk
<1> QED BY <1>3, <1>11 DEF s

LEMMA WalkEquation ==
  ASSUME NEW b, BufOK(b)
  PROVE  \A p \in 0 .. b.pos : Walk(b)[p] = Step(b, Walk(b), p)
<1>1. IsWalk(b, 0, Walk(b))
  BY WalkExists DEF Walk
<1> QED BY <1>1 DEF IsWalk

\* Along the chain the commands come one by one, the last ends at the write
\* position.
LEMMA NextHeader ==
  ASSUME NEW b, BufOK(b), NEW H, Chain(b, H), NEW p \in H, p # b.pos
  PROVE  /\ p \in 0 .. (b.pos - 1)
         /\ After(b, p) \in H /\ After(b, p) \in Nat
         /\ After(b, p) > p /\ After(b, p) <= b.pos
         /\ CommandAt(b, p) \in Storable
         /\ Walk(b)[p] = <<CommandAt(b, p)>> \o Walk(b)[After(b, p)]
<1>1. b.pos \in Nat /\ p \in 0 .. b.pos
  BY DEF BufOK, Chain
<1>2. p \in 0 .. (b.pos - 1)
  BY <1>1
<1>3. After(b, p) \in H /\ After(b, p) \in 0 .. b.pos /\ CommandAt(b, p) \in Storable
  <2>1. p < b.pos
    BY <1>1, <1>2
  <2>2. After(b, p) \in H /\ CommandAt(b, p) \in Storable
    BY <2>1 DEF Chain
  <2>3. H \subseteq 0 .. b.pos
    BY DEF Chain
  <2> QED BY <2>2, <2>3
<1>4. After(b, p) > p
  BY <1>2, SlotFacts
<1>5. Walk(b)[p] = Step(b, Walk(b), p)
  BY <1>1, WalkEquation
<1>6. ~ (p >= b.pos) /\ After(b, p) <= b.pos
  BY <1>1, <1>2, <1>3
<1>7. Walk(b)[p] = <<CommandAt(b, p)>> \o Walk(b)[After(b, p)]
  BY <1>5, <1>6 DEF Step
<1> QED BY <1>1, <1>2, <1>3, <1>4, <1>7

LEMMA WalkEnd ==
  ASSUME NEW b, BufOK(b)
  PROVE  Walk(b)[b.pos] = <<>>
<1>1. b.pos \in 0 .. b.pos
  BY DEF BufOK
<1>2. Walk(b)[b.pos] = Step(b, Walk(b), b.pos)
  BY <1>1, WalkEquation
<1>3. b.pos >= b.pos
  BY <1>1
<1> QED BY <1>2, <1>3 DEF Step

\* Induction along a chain, from the write position back to the read position.
LEMMA ChainInduction ==
  ASSUME NEW b, BufOK(b), NEW H, Chain(b, H), NEW S, b.pos \in S,
         \A p \in H : p # b.pos /\ After(b, p) \in S => p \in S
  PROVE  \A p \in H : p \in S
<1> DEFINE Bad == {p \in H : p \notin S}
<1>1. b.pos \in Nat /\ Bad \in SUBSET (0 .. b.pos)
  <2>1. b.pos \in Nat
    BY DEF BufOK
  <2>2. H \subseteq 0 .. b.pos
    BY DEF Chain
  <2> QED BY <2>1, <2>2
<1>2. SUFFICES ASSUME Bad # {} PROVE FALSE
  OBVIOUS
<1>3. PICK p \in Bad : \A q \in Bad : q <= p
  <2> HIDE DEF Bad
  <2> QED BY <1>1, <1>2, GreatestElement
<1>4. p \in H /\ p # b.pos /\ p \notin S
  BY <1>3
<1>5. p \in Nat /\ After(b, p) \in H /\ After(b, p) \in Nat /\ After(b, p) > p
  <2> HIDE DEF Bad
  <2>1. p \in 0 .. (b.pos - 1)
    BY <1>4, NextHeader
  <2>2. p \in Nat
    BY <1>1, <2>1
  <2> QED BY <1>4, <2>2, NextHeader
<1>6. After(b, p) \notin Bad
  <2> HIDE DEF Bad
  <2> QED BY <1>3, <1>5
<1> QED BY <1>4, <1>5, <1>6

LEMMA WalkType ==
  ASSUME NEW b, BufOK(b), NEW H, Chain(b, H)
  PROVE  \A p \in H : Walk(b)[p] \in Seq(Storable)
<1> DEFINE S == {p \in H : Walk(b)[p] \in Seq(Storable)}
<1>1. b.pos \in S
  BY WalkEnd, EmptySeq DEF Chain
<1>2. ASSUME NEW p \in H, p # b.pos, After(b, p) \in S PROVE p \in S
  <2>1. Walk(b)[After(b, p)] \in Seq(Storable)
    BY <1>2
  <2>2. <<CommandAt(b, p)>> \in Seq(Storable)
    <3>1. CommandAt(b, p) \in Storable
      BY <1>2, NextHeader
    <3> HIDE DEF S
    <3> QED BY <3>1
  <2>3. Walk(b)[p] = <<CommandAt(b, p)>> \o Walk(b)[After(b, p)]
    BY <1>2, NextHeader
  <2>4. <<CommandAt(b, p)>> \o Walk(b)[After(b, p)] \in Seq(Storable)
    BY <2>1, <2>2, ConcatProperties
  <2> QED BY <2>3, <2>4
<1>3. \A p \in H : p \in S
  <2> HIDE DEF S
  <2> QED BY <1>1, <1>2, ChainInduction
<1> QED BY <1>3
-----------------------------------------------------------------------------
(* writeCommand. *)

\* A command to write has the words it says it has.
LEMMA DataFacts ==
  ASSUME NEW d \in Data
  PROVE  /\ d \in Seq(Words) /\ d \in Seq(Word)
         /\ Len(d) \in DataLengths /\ DOMAIN d = 1 .. Len(d)
<1>1. PICK n \in DataLengths : d \in [1 .. n -> Words]
  BY DEF Data
<1>2. n \in Nat /\ Words \subseteq Word
  BY BufferAssumption DEF Word
<1>3. d \in Seq(Words) /\ Len(d) = n
  BY <1>1, <1>2
<1>4. d \in Seq(Word)
  BY <1>2, <1>3, SeqMonotonic
<1> QED BY <1>1, <1>2, <1>3, <1>4

LEMMA StoredFacts ==
  ASSUME NEW m \in Methods, NEW d \in Data
  PROVE  Stored(m, d) \in Storable
BY DEF Storable

\* What writing a command that fits does to the words.
LEMMA WrittenWords ==
  ASSUME NEW b, BufOK(b), NEW m \in Methods, NEW d \in Data, Fits(b, Len(d)),
         NEW c, c = Written(b, m, d)
  PROVE  /\ BufOK(c) /\ c.allocated /\ c.next = b.next
         /\ c.pos = b.pos + 1 + Len(d)
         /\ c.words[b.pos] = Header(m, Len(d))
         /\ \A i \in 1 .. Len(d) : c.words[b.pos + i] = d[i]
         /\ \A p \in 0 .. (b.pos - 1) : c.words[p] = b.words[p]
         /\ Len(d) \in 0 .. (CountBase - 1)
<1>1. /\ b \in [allocated : BOOLEAN, words : [Slots -> Word], pos : 0 .. Room,
                next : 0 .. Room]
      /\ b.pos \in Nat /\ b.next <= b.pos
  BY DEF BufOK
<1>2. d \in Seq(Word) /\ Len(d) \in Nat /\ DOMAIN d = 1 .. Len(d)
  BY DataFacts, BufferAssumption
<1>3. Capacity \in Nat /\ CountBase \in Nat /\ Capacity <= 4 * CountBase
  BY BufferAssumption
<1>4. 4 * (b.pos + 1 + Len(d)) < Capacity
  BY DEF Fits
<1>5. b.pos + 1 + Len(d) \in 0 .. Room /\ \A k \in 0 .. (b.pos + Len(d)) : k \in Slots
  BY <1>1, <1>2, <1>3, <1>4, SMT DEF Room, Slots
<1>6. Len(d) \in 0 .. (CountBase - 1)
  BY <1>1, <1>2, <1>3, <1>4, SMT
<1> DEFINE w == [i \in Slots |->
                   IF i = b.pos THEN Header(m, Len(d))
                   ELSE IF i - b.pos \in DOMAIN d THEN d[i - b.pos]
                   ELSE b.words[i]]
<1>7. c = [allocated |-> TRUE, words |-> w, pos |-> b.pos + 1 + Len(d),
           next |-> b.next]
  <2>1. b = [allocated |-> b.allocated, words |-> b.words, pos |-> b.pos,
             next |-> b.next]
    BY <1>1
  <2>2. DOMAIN b.words = Slots
    BY <1>1
  <2>3. c = [[b EXCEPT !.allocated = TRUE] EXCEPT !.words = w,
                                                  !.pos = b.pos + 1 + Len(d)]
    BY <1>1, <2>2 DEF Written, Allocated
  <2> HIDE DEF w
  <2> QED BY <1>1, <2>1, <2>3
<1>8. ASSUME NEW i \in Slots PROVE w[i] \in Word
  <2>1. CASE i = b.pos
    <3>1. m \in Nat
      BY BufferAssumption
    <3> QED BY <1>6, <2>1, <3>1, HeaderInWord
  <2>2. CASE i # b.pos /\ i - b.pos \in DOMAIN d
    BY <1>2, <2>2
  <2>3. CASE i # b.pos /\ i - b.pos \notin DOMAIN d
    BY <1>1, <2>3
  <2> QED BY <2>1, <2>2, <2>3
<1>9. w \in [Slots -> Word]
  BY <1>8
<1>10. \A i \in 1 .. Len(d) : w[b.pos + i] = d[i]
  <2> TAKE i \in 1 .. Len(d)
  <2> HIDE DEF w
  <2>1. b.pos + i \in Slots /\ b.pos + i # b.pos /\ (b.pos + i) - b.pos = i
    <3>1. b.pos + i \in 0 .. (b.pos + Len(d))
      BY <1>1, <1>2
    <3> QED BY <1>1, <1>5, <3>1
  <2> USE DEF w
  <2> QED BY <1>2, <2>1
<1>11. \A p \in 0 .. (b.pos - 1) : w[p] = b.words[p]
  <2> TAKE p \in 0 .. (b.pos - 1)
  <2> HIDE DEF w
  <2>1. p \in Slots /\ p # b.pos /\ p - b.pos \notin 1 .. Len(d)
    <3>1. p \in 0 .. (b.pos + Len(d))
      BY <1>1, <1>2
    <3> QED BY <1>1, <1>2, <1>5, <3>1
  <2> USE DEF w
  <2> QED BY <1>2, <2>1
<1>12. w[b.pos] = Header(m, Len(d))
  <2> HIDE DEF w
  <2>1. b.pos \in Slots
    <3>1. b.pos \in 0 .. (b.pos + Len(d))
      BY <1>1, <1>2
    <3> QED BY <1>5, <3>1
  <2> USE DEF w
  <2> QED BY <2>1
<1>13. BufOK(c)
  <2> HIDE DEF w
  <2> QED BY <1>1, <1>2, <1>5, <1>7, <1>9 DEF BufOK
<1> HIDE DEF w
<1> QED BY <1>6, <1>7, <1>10, <1>11, <1>12, <1>13

\* Writing leaves the commands before it alone, and reads as the command.
LEMMA WrittenCommands ==
  ASSUME NEW b, BufOK(b), NEW m \in Methods, NEW d \in Data, Fits(b, Len(d)),
         NEW c, c = Written(b, m, d)
  PROVE  /\ CommandAt(c, b.pos) = Stored(m, d) /\ After(c, b.pos) = c.pos
         /\ \A p \in 0 .. (b.pos - 1) :
              After(b, p) <= b.pos => /\ CommandAt(c, p) = CommandAt(b, p)
                                      /\ After(c, p) = After(b, p)
<1>1. m \in Nat /\ Len(d) \in Nat /\ d \in Seq(Word)
  BY BufferAssumption, DataFacts
<1>2. CountAt(c, b.pos) = Len(d) /\ c.words[b.pos] \div CountBase = m % MethodBase
  BY <1>1, WrittenWords, HeaderInWord DEF CountAt
<1>3. [i \in 1 .. Len(d) |-> c.words[b.pos + i]] = d
  <2>1. \A i \in 1 .. Len(d) : c.words[b.pos + i] = d[i]
    BY WrittenWords
  <2>2. d = [i \in 1 .. Len(d) |-> d[i]]
    BY <1>1
  <2> QED BY <2>1, <2>2
<1>4. CommandAt(c, b.pos) = Stored(m, d)
  BY <1>2, <1>3 DEF CommandAt, Stored
<1>5. After(c, b.pos) = c.pos
  BY <1>2, WrittenWords DEF After
<1>6. ASSUME NEW p \in 0 .. (b.pos - 1), After(b, p) <= b.pos
      PROVE  CommandAt(c, p) = CommandAt(b, p) /\ After(c, p) = After(b, p)
  <2>1. c.words[p] = b.words[p]
    BY WrittenWords
  <2>2. CountAt(c, p) = CountAt(b, p) /\ CountAt(b, p) \in Nat
    BY <2>1, SlotFacts DEF CountAt
  <2>3. ASSUME NEW i \in 1 .. CountAt(b, p) PROVE c.words[p + i] = b.words[p + i]
    <3>1. b.pos \in Nat
      BY DEF BufOK
    <3>2. p + i \in 0 .. (b.pos - 1)
      BY <1>6, <2>2, <3>1 DEF After
    <3> QED BY <3>2, WrittenWords
  <2>4. CommandAt(c, p) = CommandAt(b, p)
    BY <2>1, <2>2, <2>3 DEF CommandAt
  <2> QED BY <2>2, <2>4 DEF After
<1> QED BY <1>4, <1>5, <1>6

\* The chain is longer by the command, and what is read along it too.
LEMMA WrittenChain ==
  ASSUME NEW b, BufOK(b), NEW H, Chain(b, H),
         NEW m \in Methods, NEW d \in Data, Fits(b, Len(d)),
         NEW c, c = Written(b, m, d)
  PROVE  Chain(c, H \cup {c.pos})
<1>1. /\ b.pos \in Nat /\ c.pos \in Nat /\ b.pos < c.pos
      /\ BufOK(c) /\ c.next = b.next
  <2>1. Len(d) \in Nat /\ b.pos \in Nat
    BY BufferAssumption, DataFacts DEF BufOK
  <2>2. BufOK(c) /\ c.next = b.next /\ c.pos = b.pos + 1 + Len(d)
    BY WrittenWords
  <2> QED BY <2>1, <2>2
<1>2. H \subseteq 0 .. b.pos /\ b.next \in H
  BY DEF Chain
<1>3. H \cup {c.pos} \in SUBSET (0 .. c.pos)
  <2>1. 0 .. b.pos \subseteq 0 .. c.pos /\ c.pos \in 0 .. c.pos
    BY <1>1
  <2> QED BY <1>2, <2>1
<1>4. ASSUME NEW p \in H \cup {c.pos}, p < c.pos
      PROVE  CommandAt(c, p) \in Storable /\ After(c, p) \in H \cup {c.pos}
  <2>1. p \in H
    BY <1>1, <1>4
  <2>2. CASE p = b.pos
    BY <2>2, WrittenCommands, StoredFacts
  <2>3. CASE p # b.pos
    <3>1. /\ p \in 0 .. (b.pos - 1) /\ After(b, p) <= b.pos
          /\ CommandAt(b, p) \in Storable /\ After(b, p) \in H
      BY <2>1, <2>3, NextHeader
    <3> QED BY <3>1, WrittenCommands
  <2> QED BY <2>2, <2>3
<1> QED BY <1>1, <1>2, <1>3, <1>4 DEF Chain

LEMMA AppendAfter ==
  ASSUME NEW T, NEW x \in T, NEW t \in Seq(T), NEW e \in T
  PROVE  Append(<<x>> \o t, e) = <<x>> \o Append(t, e)
<1>1. <<x>> \in Seq(T) /\ <<e>> \in Seq(T)
  OBVIOUS
<1>2. <<x>> \o t \in Seq(T)
  BY <1>1, ConcatProperties
<1>3. Append(t, e) = t \o <<e>>
  BY AppendIsConcat
<1>4. Append(<<x>> \o t, e) = (<<x>> \o t) \o <<e>>
  BY <1>2, AppendIsConcat
<1>5. (<<x>> \o t) \o <<e>> = <<x>> \o (t \o <<e>>)
  BY <1>1, ConcatAssociative
<1> QED BY <1>3, <1>4, <1>5

LEMMA WrittenWalk ==
  ASSUME NEW b, BufOK(b), NEW H, Chain(b, H),
         NEW m \in Methods, NEW d \in Data, Fits(b, Len(d)),
         NEW c, c = Written(b, m, d)
  PROVE  \A p \in H : Walk(c)[p] = Append(Walk(b)[p], Stored(m, d))
<1> DEFINE S == {p \in H : Walk(c)[p] = Append(Walk(b)[p], Stored(m, d))}
<1> DEFINE s == Stored(m, d)
<1>1. /\ BufOK(c) /\ Chain(c, H \cup {c.pos}) /\ s \in Storable
      /\ b.pos \in H /\ b.pos # c.pos
  <2>1. Len(d) \in Nat /\ b.pos \in Nat
    BY BufferAssumption, DataFacts DEF BufOK
  <2>2. BufOK(c) /\ c.pos = b.pos + 1 + Len(d)
    BY WrittenWords
  <2>3. Chain(c, H \cup {c.pos})
    BY WrittenChain
  <2> QED BY <2>1, <2>2, <2>3, StoredFacts DEF Chain
<1>2. \A p \in H : p # c.pos
  <2>1. H \subseteq 0 .. b.pos
    BY DEF Chain
  <2>2. Len(d) \in Nat /\ b.pos \in Nat
    BY BufferAssumption, DataFacts DEF BufOK
  <2>3. c.pos = b.pos + 1 + Len(d)
    BY WrittenWords
  <2> QED BY <2>1, <2>2, <2>3
<1>3. ASSUME NEW p \in H
      PROVE  Walk(c)[p] = <<CommandAt(c, p)>> \o Walk(c)[After(c, p)]
  BY <1>1, <1>2, NextHeader
<1>4. b.pos \in S
  <2>1. Walk(c)[b.pos] = <<s>> \o <<>>
    <3>1. CommandAt(c, b.pos) = s /\ After(c, b.pos) = c.pos
      BY WrittenCommands
    <3>2. Walk(c)[c.pos] = <<>>
      BY <1>1, WalkEnd
    <3> HIDE DEF s
    <3> QED BY <1>1, <1>3, <3>1, <3>2
  <2>2. Walk(b)[b.pos] = <<>>
    BY WalkEnd
  <2>3. <<s>> \o <<>> = <<s>> /\ Append(<<>>, s) = <<s>>
    <3> HIDE DEF s
    <3>1. <<s>> \in Seq(Storable)
      BY <1>1
    <3> QED BY <3>1, ConcatEmptySeq
  <2> QED BY <1>1, <2>1, <2>2, <2>3
<1>5. ASSUME NEW p \in H, p # b.pos, After(b, p) \in S PROVE p \in S
  <2> DEFINE q == After(b, p)
  <2>1. /\ p \in 0 .. (b.pos - 1) /\ q <= b.pos /\ q \in H
        /\ CommandAt(b, p) \in Storable
        /\ Walk(b)[p] = <<CommandAt(b, p)>> \o Walk(b)[q]
    BY <1>5, NextHeader
  <2>2. Walk(c)[p] = <<CommandAt(b, p)>> \o Walk(c)[q]
    BY <1>3, <2>1, WrittenCommands
  <2>3. Walk(c)[q] = Append(Walk(b)[q], s)
    BY <1>5
  <2>4. Walk(b)[q] \in Seq(Storable)
    BY <2>1, WalkType
  <2> HIDE DEF q, s
  <2>5. Append(Walk(b)[p], s) = <<CommandAt(b, p)>> \o Append(Walk(b)[q], s)
    BY <1>1, <2>1, <2>4, AppendAfter
  <2>6. Walk(c)[p] = Append(Walk(b)[p], s)
    BY <2>2, <2>3, <2>5
  <2> QED BY <1>5, <2>6 DEF s
<1>6. \A p \in H : p \in S
  <2> HIDE DEF S
  <2> QED BY <1>4, <1>5, ChainInduction
<1> QED BY <1>6
-----------------------------------------------------------------------------
(* What every operation does to a buffer that can be read, and to Pending. *)
Readable(b) == BufOK(b) /\ Chained(b)

LEMMA PendingType ==
  ASSUME NEW b, Readable(b)
  PROVE  Pending(b) \in Seq(Storable)
<1>1. PICK H \in SUBSET Nat : Chain(b, H)
  BY DEF Readable, Chained
<1>2. b.next \in H /\ BufOK(b)
  BY <1>1 DEF Chain, Readable
<1> QED BY <1>1, <1>2, WalkType, PendingIsWalk

LEMMA NothingPending ==
  ASSUME NEW b, Readable(b), ~ HasCommand(b)
  PROVE  b.next = b.pos /\ Pending(b) = <<>>
<1>1. b.next = b.pos /\ BufOK(b)
  BY DEF Readable, BufOK, HasCommand
<1>2. Walk(b)[b.pos] = <<>>
  BY <1>1, WalkEnd
<1> QED BY <1>1, <1>2, PendingIsWalk

LEMMA NewBufferReadable == Readable(NewBuffer) /\ Pending(NewBuffer) = <<>>
<1>1. Room \in Nat /\ 0 \in Word
  <2>1. Capacity \in Nat /\ MethodBase \in Nat \ {0} /\ CountBase \in Nat \ {0}
    BY BufferAssumption
  <2>2. MethodBase * CountBase \in Nat /\ MethodBase * CountBase > 0
    BY <2>1, SMT
  <2> QED BY <2>1, <2>2, SMT DEF Room, Word
<1>2. BufOK(NewBuffer)
  BY <1>1 DEF BufOK, NewBuffer, Slots
<1>3. NewBuffer.pos = 0 /\ NewBuffer.next = 0
  BY DEF NewBuffer
<1>4. Chain(NewBuffer, {0})
  BY <1>3 DEF Chain
<1>5. Readable(NewBuffer)
  BY <1>2, <1>4 DEF Readable, Chained
<1> QED BY <1>3, <1>5, NothingPending DEF HasCommand

\* clear: one header position, where reading and writing begin again.
LEMMA ClearedReadable ==
  ASSUME NEW b, Readable(b)
  PROVE  /\ Readable(Cleared(b)) /\ Pending(Cleared(b)) = <<>>
         /\ Cleared(b).pos = 0
<1> DEFINE c == Cleared(b)
<1>1. BufOK(b)
  BY DEF Readable
<1>2. Room \in Nat
  BY BufferAssumption, SMT DEF Room
<1>3. BufOK(c) /\ c.pos = 0 /\ c.next = 0
  <2>1. b \in [allocated : BOOLEAN, words : [Slots -> Word], pos : 0 .. Room,
               next : 0 .. Room]
    BY <1>1 DEF BufOK
  <2>2. c = [[b EXCEPT !.pos = 0] EXCEPT !.next = 0] /\ 0 \in 0 .. Room
    BY <1>2 DEF Cleared
  <2>3. c.pos = 0 /\ c.next = 0
    BY <2>1, <2>2
  <2>4. c \in [allocated : BOOLEAN, words : [Slots -> Word], pos : 0 .. Room,
               next : 0 .. Room]
    BY <2>1, <2>2, Zenon
  <2> QED BY <2>3, <2>4 DEF BufOK
<1> HIDE DEF c
<1>4. Chain(c, {0})
  BY <1>3 DEF Chain
<1>5. Readable(c)
  BY <1>3, <1>4 DEF Readable, Chained
<1>6. Pending(c) = <<>>
  BY <1>3, <1>5, NothingPending DEF HasCommand
<1> QED BY <1>3, <1>5, <1>6 DEF c

\* The same words and write position read the same along the same chain.
LEMMA SameWords ==
  ASSUME NEW b, BufOK(b), NEW H, Chain(b, H), NEW c, BufOK(c),
         c.words = b.words, c.pos = b.pos, c.next \in H
  PROVE  Chain(c, H) /\ \A p \in H : Walk(c)[p] = Walk(b)[p]
<1>1. \A p : CommandAt(c, p) = CommandAt(b, p) /\ After(c, p) = After(b, p)
  BY DEF CommandAt, CountAt, After
<1>2. Chain(c, H)
  BY <1>1 DEF Chain
<1> DEFINE S == {p \in H : Walk(c)[p] = Walk(b)[p]}
<1>3. b.pos \in S
  <2>1. b.pos \in H
    BY DEF Chain
  <2>2. Walk(b)[b.pos] = <<>> /\ Walk(c)[c.pos] = <<>>
    BY WalkEnd
  <2> QED BY <2>1, <2>2
<1>4. ASSUME NEW p \in H, p # b.pos, After(b, p) \in S PROVE p \in S
  <2>1. Walk(b)[p] = <<CommandAt(b, p)>> \o Walk(b)[After(b, p)]
    BY <1>4, NextHeader
  <2>2. Walk(c)[p] = <<CommandAt(c, p)>> \o Walk(c)[After(c, p)]
    BY <1>2, <1>4, NextHeader
  <2>3. Walk(c)[After(b, p)] = Walk(b)[After(b, p)]
    BY <1>4
  <2>4. CommandAt(c, p) = CommandAt(b, p) /\ After(c, p) = After(b, p)
    BY <1>1
  <2>5. Walk(c)[p] = Walk(b)[p]
    BY <2>1, <2>2, <2>3, <2>4
  <2> QED BY <1>4, <2>5
<1>5. \A p \in H : p \in S
  <2> HIDE DEF S
  <2> QED BY <1>3, <1>4, ChainInduction
<1> QED BY <1>2, <1>5

LEMMA AllocatedReadable ==
  ASSUME NEW b, Readable(b)
  PROVE  /\ Readable(Allocated(b)) /\ Pending(Allocated(b)) = Pending(b)
         /\ Allocated(b).pos = b.pos /\ Allocated(b).next = b.next
<1> DEFINE c == Allocated(b)
<1>1. BufOK(b)
  BY DEF Readable
<1>2. /\ BufOK(c) /\ c.words = b.words
      /\ c.pos = b.pos /\ c.next = b.next
  BY <1>1 DEF BufOK, Allocated
<1> HIDE DEF c
<1>3. PICK H \in SUBSET Nat : Chain(b, H)
  BY DEF Readable, Chained
<1>4. b.next \in H
  BY <1>3 DEF Chain
<1>5. Chain(c, H) /\ Walk(c)[b.next] = Walk(b)[b.next]
  BY <1>1, <1>2, <1>3, <1>4, SameWords
<1>6. Readable(c)
  BY <1>2, <1>5 DEF Readable, Chained
<1> QED BY <1>2, <1>5, <1>6, PendingIsWalk DEF c

LEMMA WrittenReadable ==
  ASSUME NEW b, Readable(b), NEW m \in Methods, NEW d \in Data
  PROVE  LET c == Written(b, m, d)
         IN  /\ Readable(c) /\ c.next = b.next
             /\ Fits(b, Len(d)) =>
                  /\ c.pos = b.pos + 1 + Len(d)
                  /\ Pending(c) = Append(Pending(b), Stored(m, d))
             /\ ~ Fits(b, Len(d)) =>
                  c.pos = b.pos /\ Pending(c) = Pending(b)
<1> DEFINE c == Written(b, m, d)
<1>1. CASE ~ Fits(b, Len(d))
  <2>1. c = Allocated(b)
    BY <1>1 DEF Written
  <2> HIDE DEF c
  <2>2. Readable(c) /\ c.next = b.next /\ c.pos = b.pos /\ Pending(c) = Pending(b)
    BY <2>1, AllocatedReadable
  <2> QED BY <1>1, <2>2 DEF c
<1>2. CASE Fits(b, Len(d))
  <2>1. BufOK(b)
    BY DEF Readable
  <2>2. PICK H \in SUBSET Nat : Chain(b, H)
    BY DEF Readable, Chained
  <2>3. b.next \in H
    BY <2>2 DEF Chain
  <2>4. c = Written(b, m, d)
    OBVIOUS
  <2> HIDE DEF c
  <2>5. BufOK(c) /\ c.next = b.next /\ c.pos = b.pos + 1 + Len(d)
    BY <1>2, <2>1, <2>4, WrittenWords
  <2>6. Chain(c, H \cup {c.pos})
    BY <1>2, <2>1, <2>2, <2>4, WrittenChain
  <2>7. c.pos \in Nat
    BY <2>5 DEF BufOK
  <2>8. H \cup {c.pos} \in SUBSET Nat
    BY <2>2, <2>7
  <2>9. Readable(c)
    BY <2>5, <2>6, <2>8 DEF Readable, Chained
  <2>10. Walk(c)[b.next] = Append(Walk(b)[b.next], Stored(m, d))
    BY <1>2, <2>1, <2>2, <2>3, <2>4, WrittenWalk
  <2>11. Pending(c) = Append(Pending(b), Stored(m, d))
    BY <2>5, <2>10, PendingIsWalk
  <2> QED BY <1>2, <2>5, <2>9, <2>11 DEF c
<1> QED BY <1>1, <1>2

\* readCommand takes the first of the pending commands.
LEMMA ReadReadable ==
  ASSUME NEW b, Readable(b), HasCommand(b)
  PROVE  /\ Readable(AfterRead(b)) /\ AfterRead(b).pos = b.pos
         /\ AfterRead(b).next = After(b, b.next)
         /\ CommandAt(b, b.next) \in Storable
         /\ Pending(b) = <<CommandAt(b, b.next)>> \o Pending(AfterRead(b))
         /\ Peeked(b) = CommandAt(b, b.next)
<1> DEFINE c == AfterRead(b)
<1>1. BufOK(b) /\ b.next # b.pos
  BY DEF Readable, HasCommand, BufOK
<1>2. PICK H \in SUBSET Nat : Chain(b, H)
  BY DEF Readable, Chained
<1>3. b.next \in H
  BY <1>2 DEF Chain
<1>4. /\ b.next \in 0 .. (b.pos - 1)
      /\ After(b, b.next) \in H /\ After(b, b.next) \in Nat
      /\ After(b, b.next) <= b.pos
      /\ CommandAt(b, b.next) \in Storable
      /\ Walk(b)[b.next] = <<CommandAt(b, b.next)>> \o Walk(b)[After(b, b.next)]
  BY <1>1, <1>2, <1>3, NextHeader
<1>5. /\ b \in [allocated : BOOLEAN, words : [Slots -> Word], pos : 0 .. Room,
                next : 0 .. Room]
      /\ b.pos > 0 => b.allocated
  BY <1>1 DEF BufOK
<1>6. c = [b EXCEPT !.next = After(b, b.next)]
  BY <1>5 DEF AfterRead, After
<1>7. After(b, b.next) \in 0 .. Room
  <2>1. b.pos \in Int /\ b.pos <= Room /\ Room \in Int
    BY <1>5, BufferAssumption, SMT DEF Room
  <2> HIDE DEF c
  <2> QED BY <1>4, <2>1
<1> HIDE DEF c
<1>8. /\ BufOK(c) /\ c.words = b.words /\ c.pos = b.pos
      /\ c.next = After(b, b.next)
  BY <1>4, <1>5, <1>6, <1>7 DEF BufOK
<1>9. Chain(c, H) /\ Walk(c)[c.next] = Walk(b)[c.next]
  BY <1>1, <1>2, <1>4, <1>8, SameWords
<1>10. Readable(c)
  BY <1>8, <1>9 DEF Readable, Chained
<1>11. Pending(b) = <<CommandAt(b, b.next)>> \o Pending(c)
  BY <1>4, <1>8, <1>9, PendingIsWalk
<1>12. Peeked(b) = CommandAt(b, b.next)
  <2>1. CountAt(b, b.next) \in Nat
    BY <1>1, <1>4, SlotFacts
  <2>2. ASSUME NEW i \in 1 .. CountAt(b, b.next) PROVE b.next + i < b.pos
    <3>1. b.next \in Nat /\ b.pos \in Nat
      BY <1>5
    <3> QED BY <1>4, <2>1, <3>1 DEF After
  <2> DEFINE k == b.next
             n == CountAt(b, k)
             old == [i \in 1 .. n |-> b.words[k + i]]
             new == [i \in DOMAIN old |-> IF k + i < b.pos THEN old[i] ELSE 0]
  <2>3. new = old
    BY <2>2
  <2>4. CommandAt(b, k) = [method |-> b.words[k] \div CountBase, data |-> old]
    BY DEF CommandAt
  <2>5. Peeked(b) = [CommandAt(b, k) EXCEPT !.data = new]
    <3>1. CommandAt(b, k).data = old
      BY <2>4
    <3> QED BY <3>1 DEF Peeked
  <2> HIDE DEF old, new
  <2>6. Peeked(b) = [method |-> b.words[k] \div CountBase, data |-> new]
    BY <2>4, <2>5
  <2> QED BY <2>3, <2>4, <2>6
<1> QED BY <1>4, <1>8, <1>10, <1>11, <1>12 DEF c
-----------------------------------------------------------------------------
(***************************************************************************)
(* The inductive invariant.  Both buffers can be read; the processor's own *)
(* is empty between submissions; and processCommands, which was let in     *)
(* with room for everything pending, keeps that room.                      *)
(***************************************************************************)
DrawStates == [clearColor : Color, blendSrc : Factor, blendDst : Factor,
               blendEquation : Words \cup {Add}, culling : BOOLEAN]

Backgrounds == {Rgb(color) : color \in Color} \cup {RendererColor}

BuffersInv == Readable(buffer) /\ Readable(own) /\ own.next = own.pos

StateInv ==
    /\ draw \in DrawStates /\ background \in Backgrounds
    /\ processing \in BOOLEAN /\ processed \in Seq(Storable)

RoomInv ==
    /\ Len(processed) <= MaxProcessed
    /\ processing => Len(processed) + Len(Pending(buffer)) <= MaxProcessed

ProcInv == BuffersInv /\ StateInv /\ RoomInv

LEMMA IssuedFacts ==
  ASSUME NEW c \in Issued \cup Submitted
  PROVE  c.method \in Methods /\ c.data \in Data
BY MethodAssumption

\* submitCommand: what it writes to the empty buffer it reads back.
LEMMA SubmitReadable ==
  ASSUME NEW b, Readable(b), b.next = b.pos, NEW m \in Methods, NEW d \in Data,
         NEW w, w = Written(b, m, d),
         NEW c, c = IF HasCommand(w) THEN AfterRead(w) ELSE w
  PROVE  Readable(c) /\ c.next = c.pos
<1>1. Readable(w) /\ w.next = b.next
  BY WrittenReadable
<1>2. CASE ~ HasCommand(w)
  BY <1>1, <1>2, NothingPending
<1>3. CASE HasCommand(w)
  <2>1. Readable(c) /\ c.next = After(w, w.next) /\ c.pos = w.pos
    BY <1>1, <1>3, ReadReadable
  <2>2. b.pos \in Nat
    BY DEF Readable, BufOK
  <2>3. Fits(b, Len(d))
    <3>1. SUFFICES ASSUME ~ Fits(b, Len(d)) PROVE FALSE
      OBVIOUS
    <3>2. w.pos = b.pos
      BY <3>1, WrittenReadable
    <3> QED BY <1>1, <1>3, <2>2, <3>2 DEF HasCommand
  <2>4. BufOK(b)
    BY DEF Readable
  <2>5. After(w, b.pos) = w.pos
    BY <2>3, <2>4, WrittenCommands
  <2> QED BY <1>1, <2>1, <2>5
<1> QED BY <1>2, <1>3

LEMMA BuffersInitially == ProcInit => BuffersInv
<1> SUFFICES ASSUME ProcInit PROVE BuffersInv
  OBVIOUS
<1>1. buffer = NewBuffer /\ own = NewBuffer
  BY DEF ProcInit, Init
<1>2. NewBuffer.next = NewBuffer.pos
  BY DEF NewBuffer
<1> QED BY <1>1, <1>2, NewBufferReadable DEF BuffersInv

\* The steps on the caller's buffer.
LEMMA WriteStep ==
  ASSUME Readable(buffer), NEW c \in Issued, WriteCommand(c.method, c.data)
  PROVE  Readable(buffer')
BY IssuedFacts, WrittenReadable DEF WriteCommand

LEMMA ReadStep ==
  ASSUME Readable(buffer), ReadCommand
  PROVE  /\ Readable(buffer') /\ cmd' \in Storable
         /\ Pending(buffer) = <<cmd'>> \o Pending(buffer')
         /\ buffer'.pos = buffer.pos
BY ReadReadable DEF ReadCommand

LEMMA EmptyStep ==
  ASSUME Readable(buffer), ReadNothing
  PROVE  /\ Readable(buffer') /\ Pending(buffer') = Pending(buffer)
         /\ buffer'.pos = buffer.pos
BY AllocatedReadable DEF ReadNothing

LEMMA ClearStep ==
  ASSUME Readable(buffer), Clear
  PROVE  Readable(buffer') /\ Pending(buffer') = <<>> /\ buffer'.pos = 0
BY ClearedReadable DEF Clear

LEMMA BuffersNext == BuffersInv /\ [ProcNext]_procVars => BuffersInv'
<1> SUFFICES ASSUME BuffersInv, [ProcNext]_procVars PROVE BuffersInv'
  OBVIOUS
<1>1. Readable(buffer) /\ Readable(own) /\ own.next = own.pos
  BY DEF BuffersInv
<1> DEFINE Good == Readable(buffer') /\ Readable(own') /\ own'.next = own'.pos
<1>2. CASE /\ \/ \E c \in Issued : WriteCommand(c.method, c.data)
              \/ PeekCommand \/ Clear
           /\ UNCHANGED own
  <2>1. Readable(buffer')
    BY <1>1, <1>2, WriteStep, ClearStep DEF PeekCommand
  <2> QED BY <1>1, <1>2, <2>1 DEF BuffersInv
<1>3. CASE ProcessCommands
  BY <1>1, <1>3 DEF ProcessCommands, BuffersInv
<1>4. CASE ProcessOne
  BY <1>1, <1>4, ReadStep DEF ProcessOne, BuffersInv
<1>5. CASE ProcessingEnds
  BY <1>1, <1>5, EmptyStep DEF ProcessingEnds, BuffersInv
<1>6. ASSUME NEW c \in Submitted, SubmitCommand(c.method, c.data)
      PROVE  BuffersInv'
  <2> DEFINE w == Written(own, c.method, c.data)
  <2>1. own' = (IF HasCommand(w) THEN AfterRead(w) ELSE w) /\ buffer' = buffer
    BY <1>6 DEF SubmitCommand
  <2>2. Readable(own') /\ own'.next = own'.pos
    BY <1>1, <2>1, IssuedFacts, SubmitReadable
  <2> QED BY <1>1, <2>1, <2>2 DEF BuffersInv
<1>7. ASSUME NEW color \in Words, DrawClearScreen(color) PROVE BuffersInv'
  BY <1>1, <1>7 DEF DrawClearScreen, BuffersInv
<1>8. CASE UNCHANGED procVars
  BY <1>1, <1>8 DEF procVars, BuffersInv
<1> QED BY <1>2, <1>3, <1>4, <1>5, <1>6, <1>7, <1>8 DEF ProcNext

THEOREM OwnBufferAlwaysDrained == ProcSpec => []OwnBufferDrained
<1>1. BuffersInv => OwnBufferDrained
  BY DEF BuffersInv, OwnBufferDrained
<1> QED BY <1>1, BuffersInitially, BuffersNext, PTL DEF ProcSpec

LEMMA BuffersAlways == ProcSpec => []BuffersInv
BY BuffersInitially, BuffersNext, PTL DEF ProcSpec

LEMMA BuffersTyped == BuffersInv => BufferTypeOK
<1> SUFFICES ASSUME BuffersInv PROVE BufferTypeOK
  OBVIOUS
<1>1. BufOK(buffer)
  BY DEF BuffersInv, Readable
<1>2. /\ buffer.allocated \in BOOLEAN /\ buffer.words \in [Slots -> Word]
      /\ buffer.pos \in 0 .. Room /\ buffer.next \in 0 .. Room
      /\ buffer.next <= buffer.pos /\ (buffer.pos > 0 => buffer.allocated)
  BY <1>1 DEF BufOK
<1>3. buffer.next \in 0 .. buffer.pos
  BY <1>2
<1> QED BY <1>2, <1>3, Zenon DEF BufferTypeOK, Slots

\* The positions stay inside the array, for every capacity.
THEOREM PositionsInside == ProcSpec => []BufferTypeOK
BY BuffersTyped, BuffersAlways, PTL
-----------------------------------------------------------------------------
(* The draw state. *)

LEMMA StorableFacts ==
  ASSUME NEW c \in Storable
  PROVE  /\ c.data \in Seq(Words) /\ Len(c.data) \in Nat
         /\ Operand(c) \in Words \cup {0}
         /\ Len(c.data) >= 1 => c.data # <<>> /\ c.data[1] \in Words
         /\ Len(c.data) >= 2 => c.data[2] \in Words
         /\ c.data # <<>> <=> Len(c.data) > 0
<1>1. PICK m \in Methods, d \in Data : c = Stored(m, d)
  BY DEF Storable
<1>2. c.data = d
  BY <1>1 DEF Stored
<1>3. d \in Seq(Words) /\ Len(d) \in Nat
  BY DataFacts
<1>4. d # <<>> <=> Len(d) > 0
  BY <1>3, EmptySeq
<1>5. (Len(d) >= 1 => d[1] \in Words) /\ (Len(d) >= 2 => d[2] \in Words)
  BY <1>3
<1> QED BY <1>2, <1>3, <1>4, <1>5 DEF Operand

LEMMA MethodsDiffer ==
  /\ ClearColor # BlendFunc /\ ClearColor # BlendEquation /\ ClearColor # CullFace
  /\ BlendFunc # BlendEquation /\ BlendFunc # CullFace /\ BlendEquation # CullFace
<1> DEFINE method == <<ClearColor, BlendFunc, BlendEquation, CullFace>>
<1>1. \A i, j \in 1 .. 4 : method[i] = method[j] => i = j
  BY MethodAssumption
<1>2. /\ method[1] = ClearColor /\ method[2] = BlendFunc
      /\ method[3] = BlendEquation /\ method[4] = CullFace
  OBVIOUS
<1> HIDE DEF method
<1>3. 1 \in 1 .. 4 /\ 2 \in 1 .. 4 /\ 3 \in 1 .. 4 /\ 4 \in 1 .. 4
  OBVIOUS
<1> QED BY <1>1, <1>2, <1>3

\* The fields of the draw state after a command.
LEMMA HandleFields ==
  ASSUME NEW d \in DrawStates, NEW c \in Storable
  PROVE  Handle(d, c) =
           [clearColor |-> IF c.method = ClearColor THEN Operand(c) ELSE d.clearColor,
            blendSrc |-> IF c.method = BlendFunc /\ Len(c.data) > 1
                         THEN c.data[1] ELSE d.blendSrc,
            blendDst |-> IF c.method = BlendFunc /\ Len(c.data) > 1
                         THEN c.data[2] ELSE d.blendDst,
            blendEquation |-> IF c.method = BlendEquation /\ Len(c.data) > 0
                              THEN c.data[1] ELSE d.blendEquation,
            culling |-> IF c.method = CullFace /\ Len(c.data) > 0
                        THEN c.data[1] # FrontAndBack ELSE d.culling]
<1>1. d = [clearColor |-> d.clearColor, blendSrc |-> d.blendSrc,
           blendDst |-> d.blendDst, blendEquation |-> d.blendEquation,
           culling |-> d.culling]
  BY DEF DrawStates
<1>2. /\ Len(c.data) >= 2 <=> Len(c.data) > 1
      /\ c.data # <<>> <=> Len(c.data) > 0
  BY StorableFacts
<1>3. CASE c.method = ClearColor
  BY <1>1, <1>3, MethodsDiffer DEF Handle
<1>4. CASE c.method = BlendFunc /\ Len(c.data) > 1
  BY <1>1, <1>2, <1>4, MethodsDiffer DEF Handle
<1>5. CASE c.method = BlendEquation /\ Len(c.data) > 0
  BY <1>1, <1>2, <1>5, MethodsDiffer DEF Handle
<1>6. CASE c.method = CullFace /\ Len(c.data) > 0
  BY <1>1, <1>2, <1>6, MethodsDiffer DEF Handle
<1>7. CASE /\ c.method # ClearColor /\ ~ (c.method = BlendFunc /\ Len(c.data) > 1)
           /\ ~ (c.method = BlendEquation /\ Len(c.data) > 0)
           /\ ~ (c.method = CullFace /\ Len(c.data) > 0)
  BY <1>1, <1>2, <1>7 DEF Handle
<1> QED BY <1>3, <1>4, <1>5, <1>6, <1>7

LEMMA HandleType ==
  ASSUME NEW d \in DrawStates, NEW c \in Storable
  PROVE  Handle(d, c) \in DrawStates
<1>1. /\ d.clearColor \in Color /\ d.blendSrc \in Factor /\ d.blendDst \in Factor
      /\ d.blendEquation \in Words \cup {Add} /\ d.culling \in BOOLEAN
  BY DEF DrawStates
<1>2. /\ Operand(c) \in Color
      /\ Len(c.data) > 1 => c.data[1] \in Factor /\ c.data[2] \in Factor
      /\ Len(c.data) > 0 => c.data[1] \in Words \cup {Add}
  BY StorableFacts DEF Color, Factor
<1> DEFINE color == IF c.method = ClearColor THEN Operand(c) ELSE d.clearColor
           src == IF c.method = BlendFunc /\ Len(c.data) > 1
                  THEN c.data[1] ELSE d.blendSrc
           dst == IF c.method = BlendFunc /\ Len(c.data) > 1
                  THEN c.data[2] ELSE d.blendDst
           equation == IF c.method = BlendEquation /\ Len(c.data) > 0
                       THEN c.data[1] ELSE d.blendEquation
           cull == IF c.method = CullFace /\ Len(c.data) > 0
                   THEN c.data[1] # FrontAndBack ELSE d.culling
<1>3. color \in Color /\ src \in Factor /\ dst \in Factor
  BY <1>1, <1>2
<1>4. equation \in Words \cup {Add}
  BY <1>1, <1>2
<1>5. cull \in BOOLEAN
  BY <1>1, Zenon
<1>6. Handle(d, c) = [clearColor |-> color, blendSrc |-> src, blendDst |-> dst,
                      blendEquation |-> equation, culling |-> cull]
  BY HandleFields, Zenon
<1> HIDE DEF color, src, dst, equation, cull
<1>7. [clearColor |-> color, blendSrc |-> src, blendDst |-> dst,
       blendEquation |-> equation, culling |-> cull] \in DrawStates
  BY <1>3, <1>4, <1>5 DEF DrawStates
<1> QED BY <1>6, <1>7

LEMMA StateInitially == ProcInit => StateInv
<1> SUFFICES ASSUME ProcInit PROVE StateInv
  OBVIOUS
<1>1. /\ draw = InitialDraw /\ background = RendererColor
      /\ processing = FALSE /\ processed = <<>>
  BY DEF ProcInit
<1>2. draw \in DrawStates
  BY <1>1, Zenon DEF InitialDraw, DrawStates, Color, Factor
<1>3. processed \in Seq(Storable)
  BY <1>1, EmptySeq
<1> QED BY <1>1, <1>2, <1>3, Zenon DEF StateInv, Backgrounds

LEMMA StateNext == BuffersInv /\ StateInv /\ [ProcNext]_procVars => StateInv'
<1> SUFFICES ASSUME BuffersInv, StateInv, [ProcNext]_procVars PROVE StateInv'
  OBVIOUS
<1>1. Readable(buffer)
  BY DEF BuffersInv
<1>2. /\ draw \in DrawStates /\ background \in Backgrounds
      /\ processing \in BOOLEAN /\ processed \in Seq(Storable)
  BY DEF StateInv
<1>3. CASE UNCHANGED <<draw, background, processing, processed>>
  BY <1>2, <1>3 DEF StateInv
<1>4. CASE ProcessCommands
  BY <1>2, <1>4 DEF ProcessCommands, StateInv
<1>5. CASE ProcessOne
  <2>1. /\ cmd' \in Storable /\ draw' = Handle(draw, cmd')
        /\ background' = Background(background, cmd')
        /\ processed' = Append(processed, cmd') /\ processing' = processing
    BY <1>1, <1>5, ReadStep DEF ProcessOne
  <2>2. draw' \in DrawStates
    BY <1>2, <2>1, HandleType
  <2>3. background' \in Backgrounds
    <3>1. Operand(cmd') \in Color
      BY <2>1, StorableFacts DEF Color
    <3> QED BY <1>2, <2>1, <3>1 DEF Background, Backgrounds
  <2>4. processed' \in Seq(Storable)
    BY <1>2, <2>1, AppendProperties
  <2> QED BY <1>2, <2>1, <2>2, <2>3, <2>4 DEF StateInv
<1>6. CASE ProcessingEnds
  BY <1>2, <1>6 DEF ProcessingEnds, StateInv
<1>7. ASSUME NEW color \in Words, DrawClearScreen(color) PROVE StateInv'
  <2>1. background' \in Backgrounds
    BY <1>7 DEF DrawClearScreen, Backgrounds, Color
  <2> QED BY <1>2, <1>7, <2>1 DEF DrawClearScreen, StateInv
<1> QED BY <1>3, <1>4, <1>5, <1>6, <1>7 DEF ProcNext, procVars, SubmitCommand

LEMMA RoomInitially == ProcInit => RoomInv
<1> SUFFICES ASSUME ProcInit PROVE RoomInv
  OBVIOUS
<1>1. processing = FALSE /\ processed = <<>> /\ MaxProcessed \in Nat
  BY MethodAssumption DEF ProcInit
<1>2. Len(processed) = 0
  BY <1>1
<1> QED BY <1>1, <1>2 DEF RoomInv

LEMMA RoomNext ==
  BuffersInv /\ StateInv /\ RoomInv /\ [ProcNext]_procVars => RoomInv'
<1> SUFFICES ASSUME BuffersInv, StateInv, RoomInv, [ProcNext]_procVars
             PROVE  RoomInv'
  OBVIOUS
<1>1. Readable(buffer) /\ processed \in Seq(Storable) /\ Len(processed) \in Nat
  BY DEF BuffersInv, StateInv
<1>2. /\ Len(processed) <= MaxProcessed /\ MaxProcessed \in Nat
      /\ processing => Len(processed) + Len(Pending(buffer)) <= MaxProcessed
  BY MethodAssumption DEF RoomInv
<1>3. CASE ~ processing /\ UNCHANGED <<processing, processed>>
  BY <1>2, <1>3 DEF RoomInv
<1>4. CASE UNCHANGED <<buffer, processing, processed>>
  BY <1>2, <1>4 DEF RoomInv
<1>5. CASE ProcessCommands
  BY <1>2, <1>5 DEF ProcessCommands, RoomInv
<1>6. CASE ProcessOne
  <2>1. /\ cmd' \in Storable /\ processing /\ Readable(buffer')
        /\ processed' = Append(processed, cmd')
        /\ Pending(buffer) = <<cmd'>> \o Pending(buffer')
    BY <1>1, <1>6, ReadStep DEF ProcessOne
  <2>2. Pending(buffer') \in Seq(Storable)
    BY <2>1, PendingType
  <2>3. <<cmd'>> \in Seq(Storable) /\ Len(<<cmd'>>) = 1
    BY <2>1
  <2>4. Len(Pending(buffer)) = 1 + Len(Pending(buffer'))
    BY <2>1, <2>2, <2>3, ConcatProperties
  <2>5. Len(processed') = Len(processed) + 1
    BY <1>1, <2>1, AppendProperties
  <2>6. Len(Pending(buffer')) \in Nat
    BY <2>2
  <2>7. /\ Len(processed') <= MaxProcessed
        /\ Len(processed') + Len(Pending(buffer')) <= MaxProcessed
    BY <1>1, <1>2, <2>1, <2>4, <2>5, <2>6
  <2> QED BY <2>7 DEF RoomInv
<1>7. CASE ProcessingEnds
  BY <1>2, <1>7 DEF ProcessingEnds, RoomInv
<1>8. ASSUME NEW color \in Words, DrawClearScreen(color) PROVE RoomInv'
  BY <1>3, <1>8 DEF DrawClearScreen
<1>9. ASSUME NEW c \in Submitted, SubmitCommand(c.method, c.data) PROVE RoomInv'
  BY <1>3, <1>9 DEF SubmitCommand
<1> QED BY <1>3, <1>4, <1>5, <1>6, <1>7, <1>8, <1>9 DEF ProcNext, procVars

LEMMA ProcAlways == ProcSpec => []ProcInv
<1>1. ProcInit => ProcInv
  BY BuffersInitially, StateInitially, RoomInitially DEF ProcInv
<1>2. ProcInv /\ [ProcNext]_procVars => ProcInv'
  BY BuffersNext, StateNext, RoomNext DEF ProcInv
<1> QED BY <1>1, <1>2, PTL DEF ProcSpec

\* Every component of the processor's state has its type, and processCommands
\* never does more than there was room for when it began.
THEOREM ProcessorTyped == ProcSpec => []ProcTypeOK
<1>1. ProcInv => ProcTypeOK
  <2> SUFFICES ASSUME ProcInv PROVE ProcTypeOK
    OBVIOUS
  <2>1. BufferTypeOK
    BY BuffersTyped DEF ProcInv
  <2>2. own.pos \in 0 .. Room /\ own.next \in 0 .. own.pos
    <3>1. BufOK(own)
      BY DEF ProcInv, BuffersInv, Readable
    <3>2. own.pos \in 0 .. Room /\ own.next \in 0 .. Room /\ own.next <= own.pos
      BY <3>1 DEF BufOK
    <3> QED BY <3>2
  <2> QED BY <2>1, <2>2, Zenon
          DEF ProcInv, StateInv, RoomInv, ProcTypeOK, DrawStates, Backgrounds
<1> QED BY <1>1, ProcAlways, PTL
-----------------------------------------------------------------------------
(***************************************************************************)
(* The registers.  Setters is the set of commands that set a register and  *)
(* value the function from such a command to what it sets; LastValue is    *)
(* the value of the greatest index that holds a setter.                    *)
(***************************************************************************)
Setting(q, setters) == {i \in DOMAIN q : q[i] \in setters}
Latest(I) == CHOOSE i \in I : \A j \in I : j <= i

Register(q, setters, value, initial) ==
    IF Setting(q, setters) = {} THEN initial
    ELSE value[q[Latest(Setting(q, setters))]]

LEMMA RegisterOfAppend ==
  ASSUME NEW q \in Seq(Storable), NEW c \in Storable,
         NEW setters, NEW value, NEW initial
  PROVE  Register(Append(q, c), setters, value, initial) =
           IF c \in setters THEN value[c] ELSE Register(q, setters, value, initial)
<1> DEFINE n == Len(q)
           r == Append(q, c)
           I == Setting(q, setters)
           J == Setting(r, setters)
<1>1. /\ n \in Nat /\ DOMAIN q = 1 .. n /\ DOMAIN r = 1 .. (n + 1)
      /\ r[n + 1] = c /\ \A i \in 1 .. n : r[i] = q[i]
  <2>1. r \in Seq(Storable) /\ Len(r) = n + 1
    BY AppendProperties
  <2> QED BY <2>1, AppendProperties, LenProperties
<1> HIDE DEF n, r
<1>2. /\ I \subseteq 1 .. n /\ J \subseteq 1 .. (n + 1)
      /\ \A i \in 1 .. n : i \in J <=> i \in I
      /\ n + 1 \in J <=> c \in setters
  BY <1>1 DEF Setting
<1> HIDE DEF I, J
<1>3. CASE c \in setters
  <2>1. n + 1 \in J /\ \A j \in J : j <= n + 1
    BY <1>1, <1>2, <1>3
  <2>2. Latest(J) \in J /\ \A j \in J : j <= Latest(J)
    BY <2>1 DEF Latest
  <2>3. Latest(J) = n + 1
    <3>1. Latest(J) \in Nat
      <4>1. Latest(J) \in 1 .. (n + 1)
        BY <1>2, <2>2
      <4> QED BY <1>1, <4>1
    <3>2. Latest(J) <= n + 1 /\ n + 1 <= Latest(J)
      BY <2>1, <2>2
    <3> QED BY <1>1, <3>1, <3>2
  <2> QED BY <1>1, <1>3, <2>1, <2>3 DEF Register, J, r
<1>4. CASE c \notin setters
  <2>1. J = I
    <3>1. \A j \in J : j \in 1 .. n
      <4> TAKE j \in J
      <4>1. j \in 1 .. (n + 1) /\ j # n + 1
        BY <1>2, <1>4
      <4> QED BY <1>1, <4>1
    <3> QED BY <1>2, <3>1
  <2>2. CASE I = {}
    BY <1>4, <2>1, <2>2 DEF Register, I, J, r
  <2>3. CASE I # {}
    <3>1. I \in SUBSET (0 .. n)
      BY <1>1, <1>2
    <3>2. \E i \in I : \A j \in I : j <= i
      BY <1>1, <2>3, <3>1, GreatestElement
    <3>3. Latest(I) \in I
      BY <3>2 DEF Latest
    <3>4. r[Latest(I)] = q[Latest(I)]
      BY <1>1, <1>2, <3>3
    <3> QED BY <1>4, <2>1, <2>3, <3>4 DEF Register, I, J, r
  <2> QED BY <2>2, <2>3
<1> QED BY <1>3, <1>4

LEMMA RegisterAtFirst ==
  ASSUME NEW setters, NEW value, NEW initial
  PROVE  Register(<<>>, setters, value, initial) = initial
BY DEF Register, Setting

SetColor    == {c \in Storable : c.method = ClearColor}
SetBlending == {c \in Storable : c.method = BlendFunc /\ Len(c.data) > 1}
SetEquation == {c \in Storable : c.method = BlendEquation /\ Len(c.data) > 0}
SetCulling  == {c \in Storable : c.method = CullFace /\ Len(c.data) > 0}

OperandOf  == [c \in Storable |-> Operand(c)]
FactorsOf  == [c \in Storable |-> <<c.data[1], c.data[2]>>]
EquationOf == [c \in Storable |-> c.data[1]]
CullingOf  == [c \in Storable |-> c.data[1] # FrontAndBack]

LastWritten(d, q) ==
    /\ d.clearColor = Register(q, SetColor, OperandOf, AlphaBase - 1)
    /\ <<d.blendSrc, d.blendDst>> =
         Register(q, SetBlending, FactorsOf, <<SrcAlpha, OneMinusSrcAlpha>>)
    /\ d.blendEquation = Register(q, SetEquation, EquationOf, Add)
    /\ d.culling = Register(q, SetCulling, CullingOf, TRUE)

LEMMA LastWrittenInitially == LastWritten(InitialDraw, <<>>)
BY RegisterAtFirst DEF LastWritten, InitialDraw

LEMMA LastWrittenHandled ==
  ASSUME NEW d \in DrawStates, NEW q \in Seq(Storable), LastWritten(d, q),
         NEW c \in Storable
  PROVE  LastWritten(Handle(d, c), Append(q, c))
<1> DEFINE e == Handle(d, c)
           r == Append(q, c)
<1>1. /\ e.clearColor = (IF c \in SetColor THEN Operand(c) ELSE d.clearColor)
      /\ e.blendSrc = (IF c \in SetBlending THEN c.data[1] ELSE d.blendSrc)
      /\ e.blendDst = (IF c \in SetBlending THEN c.data[2] ELSE d.blendDst)
      /\ e.blendEquation = (IF c \in SetEquation THEN c.data[1] ELSE d.blendEquation)
      /\ e.culling = (IF c \in SetCulling THEN c.data[1] # FrontAndBack ELSE d.culling)
  BY HandleFields DEF SetColor, SetBlending, SetEquation, SetCulling
<1> HIDE DEF e, r
<1>2. e.clearColor = Register(r, SetColor, OperandOf, AlphaBase - 1)
  BY <1>1, RegisterOfAppend DEF LastWritten, OperandOf, r
<1>3. <<e.blendSrc, e.blendDst>> =
        Register(r, SetBlending, FactorsOf, <<SrcAlpha, OneMinusSrcAlpha>>)
  BY <1>1, RegisterOfAppend DEF LastWritten, FactorsOf, r
<1>4. e.blendEquation = Register(r, SetEquation, EquationOf, Add)
  BY <1>1, RegisterOfAppend DEF LastWritten, EquationOf, r
<1>5. e.culling = Register(r, SetCulling, CullingOf, TRUE)
  <2>1. Register(r, SetCulling, CullingOf, TRUE) =
          IF c \in SetCulling THEN CullingOf[c]
          ELSE Register(q, SetCulling, CullingOf, TRUE)
    <3>1. ASSUME NEW initial
          PROVE  Register(r, SetCulling, CullingOf, initial) =
                   IF c \in SetCulling THEN CullingOf[c]
                   ELSE Register(q, SetCulling, CullingOf, initial)
      BY RegisterOfAppend DEF r
    <3> QED BY <3>1, Zenon
  <2>2. CullingOf[c] = (c.data[1] # FrontAndBack)
    BY Zenon DEF CullingOf
  <2>3. d.culling = Register(q, SetCulling, CullingOf, TRUE)
    BY DEF LastWritten
  <2>4. CASE c \in SetCulling
    BY <1>1, <2>1, <2>2, <2>4, Zenon
  <2>5. CASE c \notin SetCulling
    BY <1>1, <2>1, <2>3, <2>5, Zenon
  <2> QED BY <2>4, <2>5
<1> QED BY <1>2, <1>3, <1>4, <1>5 DEF LastWritten, e, r

LEMMA LastWrittenIs ==
  StateInv /\ LastWritten(draw, processed) => DrawStateIsLastWritten
<1> SUFFICES ASSUME StateInv, LastWritten(draw, processed)
             PROVE  DrawStateIsLastWritten
  OBVIOUS
<1>1. \A i \in DOMAIN processed : processed[i] \in Storable
  BY DEF StateInv
<1>2. /\ {i \in DOMAIN processed : processed[i].method = ClearColor}
           = Setting(processed, SetColor)
      /\ {i \in DOMAIN processed : processed[i].method = BlendFunc
                                   /\ Len(processed[i].data) > 1}
           = Setting(processed, SetBlending)
      /\ {i \in DOMAIN processed : processed[i].method = BlendEquation
                                   /\ Len(processed[i].data) > 0}
           = Setting(processed, SetEquation)
      /\ {i \in DOMAIN processed : processed[i].method = CullFace
                                   /\ Len(processed[i].data) > 0}
           = Setting(processed, SetCulling)
  BY <1>1 DEF Setting, SetColor, SetBlending, SetEquation, SetCulling
<1>3. ASSUME NEW setters, Setting(processed, setters) # {}
      PROVE  processed[Latest(Setting(processed, setters))] \in Storable
  <2> DEFINE I == Setting(processed, setters)
  <2>1. Len(processed) \in Nat /\ DOMAIN processed = 1 .. Len(processed)
    BY DEF StateInv
  <2>2. I \in SUBSET (0 .. Len(processed))
    BY <2>1 DEF Setting
  <2>3. I \subseteq DOMAIN processed
    BY DEF Setting
  <2> HIDE DEF I
  <2>4. I # {}
    BY <1>3 DEF I
  <2>5. \E i \in I : \A j \in I : j <= i
    BY <2>1, <2>2, <2>4, GreatestElement
  <2>6. Latest(I) \in I
    BY <2>5 DEF Latest
  <2> QED BY <1>1, <2>3, <2>6 DEF I
<1>4. draw.clearColor =
        LastValue(LAMBDA c : c.method = ClearColor, Operand, AlphaBase - 1)
  BY <1>2, <1>3 DEF LastWritten, LastValue, Register, Latest, OperandOf
<1>5. <<draw.blendSrc, draw.blendDst>> =
        LastValue(LAMBDA c : c.method = BlendFunc /\ Len(c.data) > 1,
                  LAMBDA c : <<c.data[1], c.data[2]>>,
                  <<SrcAlpha, OneMinusSrcAlpha>>)
  BY <1>2, <1>3 DEF LastWritten, LastValue, Register, Latest, FactorsOf
<1>6. draw.blendEquation =
        LastValue(LAMBDA c : c.method = BlendEquation /\ Len(c.data) > 0,
                  LAMBDA c : c.data[1], Add)
  BY <1>2, <1>3 DEF LastWritten, LastValue, Register, Latest, EquationOf
<1>7. draw.culling =
        LastValue(LAMBDA c : c.method = CullFace /\ Len(c.data) > 0,
                  LAMBDA c : c.data[1] # FrontAndBack, TRUE)
  BY <1>2, <1>3 DEF LastWritten, LastValue, Register, Latest, CullingOf
<1> QED BY <1>4, <1>5, <1>6, <1>7 DEF DrawStateIsLastWritten

\* Whatever is written, cleared, peeked at or submitted in between, each
\* register of the draw state has the value of the last command processed that
\* sets it.
THEOREM DrawStateFollows == ProcSpec => []DrawStateIsLastWritten
<1> DEFINE Followed == LastWritten(draw, processed)
<1>1. ProcInit => Followed
  BY LastWrittenInitially DEF ProcInit
<1>2. ProcInv /\ Followed /\ [ProcNext]_procVars => Followed'
  <2> SUFFICES ASSUME ProcInv, Followed, [ProcNext]_procVars PROVE Followed'
    OBVIOUS
  <2>1. CASE UNCHANGED <<draw, processed>>
    BY <2>1
  <2>2. CASE ProcessOne
    <3>1. draw \in DrawStates /\ processed \in Seq(Storable)
      BY DEF ProcInv, StateInv
    <3>2. Readable(buffer)
      BY DEF ProcInv, BuffersInv
    <3>3. /\ cmd' \in Storable /\ draw' = Handle(draw, cmd')
          /\ processed' = Append(processed, cmd')
      BY <2>2, <3>2, ReadStep DEF ProcessOne
    <3>4. LastWritten(Handle(draw, cmd'), Append(processed, cmd'))
      BY <3>1, <3>3, LastWrittenHandled
    <3> QED BY <3>3, <3>4
  <2> QED BY <2>1, <2>2 DEF ProcNext, procVars, ProcessCommands, ProcessingEnds,
                            SubmitCommand, DrawClearScreen
<1>3. ProcInv /\ Followed => DrawStateIsLastWritten
  BY LastWrittenIs DEF ProcInv
<1> HIDE DEF Followed
<1> QED BY <1>1, <1>2, <1>3, ProcAlways, PTL DEF ProcSpec
-----------------------------------------------------------------------------
(***************************************************************************)
(* The refinement: with Pending(buffer) for the queue and the write        *)
(* position for what is used, every step of the processor is a step of     *)
(* RSXQueue or leaves it alone.                                            *)
(***************************************************************************)
LEMMA PrependedHeadTail ==
  ASSUME NEW T, NEW x \in T, NEW t \in Seq(T)
  PROVE  LET s == <<x>> \o t IN s # <<>> /\ Head(s) = x /\ Tail(s) = t
<1> DEFINE s == <<x>> \o t
<1>1. <<x>> \in Seq(T) /\ Len(<<x>>) = 1 /\ <<x>>[1] = x /\ Len(t) \in Nat
  OBVIOUS
<1>2. /\ s \in Seq(T) /\ Len(s) = 1 + Len(t)
      /\ \A i \in 1 .. (1 + Len(t)) : s[i] = IF i <= 1 THEN <<x>>[i] ELSE t[i - 1]
  BY <1>1, ConcatProperties
<1> HIDE DEF s
<1>3. s # <<>>
  BY <1>1, <1>2, EmptySeq
<1>4. Head(s) = x
  BY <1>1, <1>2, <1>3
<1>5. /\ Tail(s) \in Seq(T) /\ Len(Tail(s)) = Len(t)
      /\ \A i \in 1 .. Len(t) : Tail(s)[i] = s[i + 1]
  BY <1>1, <1>2, <1>3, HeadTailProperties
<1>6. \A i \in 1 .. Len(t) : Tail(s)[i] = t[i]
  BY <1>1, <1>2, <1>5
<1>7. Tail(s) = t
  BY <1>5, <1>6, SeqEqual
<1> QED BY <1>3, <1>4, <1>7 DEF s

LEMMA HeadPending ==
  ASSUME NEW b, Readable(b), HasCommand(b)
  PROVE  /\ Pending(b) # <<>> /\ Head(Pending(b)) = CommandAt(b, b.next)
         /\ Tail(Pending(b)) = Pending(AfterRead(b))
<1>1. /\ Readable(AfterRead(b)) /\ CommandAt(b, b.next) \in Storable
      /\ Pending(b) = <<CommandAt(b, b.next)>> \o Pending(AfterRead(b))
  BY ReadReadable
<1>2. Pending(AfterRead(b)) \in Seq(Storable)
  BY <1>1, PendingType
<1> QED BY <1>1, <1>2, PrependedHeadTail

LEMMA QueueWrites ==
  ASSUME Readable(buffer), NEW c \in Issued, WriteCommand(c.method, c.data)
  PROVE  [Queue!Next]_Queue!vars
<1> DEFINE m == c.method
           d == c.data
           s == Stored(m, d)
<1>1. m \in Methods /\ d \in Data
  BY IssuedFacts
<1>2. buffer' = Written(buffer, m, d) /\ cmd' = cmd
  BY DEF WriteCommand
<1> HIDE DEF m, d
<1>3. CASE ~ Fits(buffer, Len(d))
  <2>1. buffer'.pos = buffer.pos /\ Pending(buffer') = Pending(buffer)
    BY <1>1, <1>2, <1>3, WrittenReadable
  <2> QED BY <1>2, <2>1 DEF Queue!vars
<1>4. CASE Fits(buffer, Len(d))
  <2>1. /\ Readable(buffer') /\ buffer'.pos = buffer.pos + 1 + Len(d)
        /\ Pending(buffer') = Append(Pending(buffer), s)
    BY <1>1, <1>2, <1>4, WrittenReadable
  <2>2. buffer.pos \in Nat /\ Len(d) \in Nat /\ buffer'.pos <= Room
    BY <1>1, <2>1, DataFacts, BufferAssumption DEF Readable, BufOK
  <2>3. Queue!Length(s) = 1 + Len(d)
    BY DEF Queue!Length, Stored
  <2>4. Queue!Write(s)
    BY <1>2, <2>1, <2>2, <2>3 DEF Queue!Write
  <2>5. s \in {Stored(method, data) : method \in Methods, data \in Data}
    BY <1>1
  <2> HIDE DEF s
  <2> QED BY <2>4, <2>5 DEF Queue!Next
<1> QED BY <1>3, <1>4

LEMMA QueueReads ==
  ASSUME Readable(buffer), ReadCommand
  PROVE  Queue!Read
<1>1. HasCommand(buffer) /\ buffer' = AfterRead(buffer)
      /\ cmd' = CommandAt(buffer, buffer.next)
  BY DEF ReadCommand
<1>2. buffer'.pos = buffer.pos
  BY ReadStep
<1>3. /\ Pending(buffer) # <<>> /\ cmd' = Head(Pending(buffer))
      /\ Pending(buffer') = Tail(Pending(buffer))
  BY <1>1, HeadPending
<1> QED BY <1>2, <1>3 DEF Queue!Read

LEMMA QueuePeeks ==
  ASSUME Readable(buffer), PeekCommand
  PROVE  Queue!Peek
<1>1. HasCommand(buffer) /\ cmd' = Peeked(buffer) /\ buffer' = buffer
  BY DEF PeekCommand
<1>2. cmd' = CommandAt(buffer, buffer.next)
  BY <1>1, ReadReadable
<1>3. Pending(buffer) # <<>> /\ cmd' = Head(Pending(buffer))
  BY <1>1, <1>2, HeadPending
<1> QED BY <1>1, <1>3 DEF Queue!Peek

LEMMA QueueInitially == ProcInit => Queue!Init
<1> SUFFICES ASSUME ProcInit PROVE Queue!Init
  OBVIOUS
<1>1. buffer = NewBuffer /\ cmd = [method |-> 0, data |-> <<>>]
  BY DEF ProcInit, Init
<1>2. NewBuffer.pos = 0
  BY DEF NewBuffer
<1> QED BY <1>1, <1>2, NewBufferReadable DEF Queue!Init

LEMMA QueueNext ==
  BuffersInv /\ [ProcNext]_procVars => [Queue!Next]_Queue!vars
<1> SUFFICES ASSUME BuffersInv, [ProcNext]_procVars
             PROVE  [Queue!Next]_Queue!vars
  OBVIOUS
<1>1. Readable(buffer)
  BY DEF BuffersInv
<1>2. CASE UNCHANGED <<buffer, cmd>>
  BY <1>2 DEF Queue!vars
<1>3. CASE \E c \in Issued : WriteCommand(c.method, c.data)
  BY <1>1, <1>3, QueueWrites
<1>4. CASE PeekCommand
  BY <1>1, <1>4, QueuePeeks DEF Queue!Next
<1>5. CASE Clear
  <2>1. Queue!Clear
    BY <1>1, <1>5, ClearStep DEF Clear, Queue!Clear
  <2> QED BY <2>1 DEF Queue!Next
<1>6. CASE ProcessOne
  BY <1>1, <1>6, QueueReads DEF ProcessOne, Queue!Next
<1>7. CASE ProcessingEnds
  <2>1. ReadNothing /\ cmd' = cmd
    BY <1>7 DEF ProcessingEnds, ReadNothing
  <2>2. Pending(buffer') = Pending(buffer) /\ buffer'.pos = buffer.pos
    BY <1>1, <2>1, EmptyStep
  <2> QED BY <2>1, <2>2 DEF Queue!vars
<1> QED BY <1>2, <1>3, <1>4, <1>5, <1>6, <1>7
        DEF ProcNext, procVars, ProcessCommands, SubmitCommand, DrawClearScreen

\* The words of the buffer are a queue of commands: what is written is read
\* back whole, once and in order, and what does not fit is dropped whole.
THEOREM BufferIsQueue == ProcSpec => ImplementsQueue
<1>1. Queue!Init /\ [][Queue!Next]_Queue!vars => ImplementsQueue
  BY DEF ImplementsQueue, Queue!Spec
<1> QED BY <1>1, QueueInitially, QueueNext, BuffersAlways, PTL DEF ProcSpec
=============================================================================
