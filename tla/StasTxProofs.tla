---------------------------- MODULE StasTxProofs ----------------------------
(***************************************************************************)
(* Facts about sequences, sums of satoshis, outputs on the chain, the      *)
(* totals of sets of them, and the types of what the builders return.      *)
(* Sums are reasoned about by induction over the length of a sequence or   *)
(* the size of a set, in the form "a set of naturals that contains 0 and   *)
(* with every n also n + 1 contains every natural"; a total does not       *)
(* depend on the order in which the fold takes the outputs.                *)
(***************************************************************************)
EXTENDS StasBuilders, SequenceTheorems, FiniteSetTheorems, WellFoundedInduction,
        TLAPS

\* Induction over the naturals for a set.
LEMMA NatSetInduction ==
  ASSUME NEW T, 0 \in T, \A n \in Nat : n \in T => n + 1 \in T
  PROVE  Nat \subseteq T
<1> DEFINE R == OpToRel(<, Nat)
           U == Nat \ T
<1>1. IsWellFoundedOn(R, Nat)
  BY NatLessThanWellFounded
<1>2. SUFFICES ASSUME U # {} PROVE FALSE
  OBVIOUS
<1>3. PICK m \in U : \A y \in U : <<y, m>> \notin R
  <2>1. U \subseteq Nat
    OBVIOUS
  <2> HIDE DEF R, U
  <2> QED BY <1>1, <1>2, <2>1, WFMin
<1>4. m - 1 \in U
  OBVIOUS
<1>5. <<m - 1, m>> \in R
  BY <1>4 DEF OpToRel
<1> QED BY <1>3, <1>4, <1>5

-----------------------------------------------------------------------------
(* The partial sums that SumSatoshis defines recursively *)

IsUpTo(f, s, n) ==
    f = [k \in 0..n |-> IF k = 0 THEN 0 ELSE f[k - 1] + s[k].satoshis]

\* A function of partial sums exists for every length.
LEMMA UpToExists ==
  ASSUME NEW s, NEW N \in Nat
  PROVE  \E f : IsUpTo(f, s, N)
<1> DEFINE T == {n \in Nat : \E f : IsUpTo(f, s, n)}
<1>1. 0 \in T
  <2>1. IsUpTo([k \in 0..0 |-> 0], s, 0)
    BY DEF IsUpTo
  <2> QED BY <2>1
<1>2. ASSUME NEW n \in Nat, n \in T PROVE n + 1 \in T
  <2>1. PICK f : IsUpTo(f, s, n)
    BY <1>2
  <2> DEFINE g == [k \in 0..(n + 1) |->
                     IF k <= n THEN f[k] ELSE f[n] + s[n + 1].satoshis]
  <2>2. ASSUME NEW k \in 0..(n + 1)
        PROVE  g[k] = IF k = 0 THEN 0 ELSE g[k - 1] + s[k].satoshis
    <3>1. CASE k = 0
      BY <2>1, <3>1 DEF IsUpTo
    <3>2. CASE k \in 1..n
      BY <2>1, <3>2 DEF IsUpTo
    <3>3. CASE k = n + 1
      BY <2>1, <3>3
    <3> QED BY <3>1, <3>2, <3>3
  <2>3. IsUpTo(g, s, n + 1)
    BY <2>2 DEF IsUpTo
  <2> QED BY <2>3
<1>3. Nat \subseteq T
  <2> HIDE DEF T
  <2> QED BY <1>1, <1>2, NatSetInduction
<1> QED BY <1>3

\* SumSatoshis is the last partial sum.
LEMMA SumIsLastPartialSum ==
  ASSUME NEW S, NEW s \in Seq(S)
  PROVE  \E f : IsUpTo(f, s, Len(s)) /\ SumSatoshis(s) = f[Len(s)]
<1> DEFINE f == CHOOSE g : IsUpTo(g, s, Len(s))
<1>1. IsUpTo(f, s, Len(s))
  BY UpToExists
<1>2. SumSatoshis(s) = f[Len(s)]
  BY Zenon DEF SumSatoshis, IsUpTo
<1> QED BY <1>1, <1>2

\* A sum of natural amounts is a natural number.
LEMMA SumSatoshisType ==
  ASSUME NEW S, NEW s \in Seq(S), \A x \in S : x.satoshis \in Nat
  PROVE  SumSatoshis(s) \in Nat
<1>1. PICK f : IsUpTo(f, s, Len(s)) /\ SumSatoshis(s) = f[Len(s)]
  BY SumIsLastPartialSum
<1> DEFINE T == {n \in Nat : n <= Len(s) => f[n] \in Nat}
<1>2. 0 \in T
  BY <1>1 DEF IsUpTo
<1>3. ASSUME NEW n \in Nat, n \in T PROVE n + 1 \in T
  <2>1. SUFFICES ASSUME n + 1 <= Len(s) PROVE f[n + 1] \in Nat
    OBVIOUS
  <2>2. n + 1 \in 1..Len(s) /\ n + 1 \in 0..Len(s) /\ f[n] \in Nat
    BY <1>3, <2>1
  <2>3. f[n + 1] = f[n] + s[n + 1].satoshis
    BY <1>1, <2>2 DEF IsUpTo
  <2>4. s[n + 1].satoshis \in Nat
    BY <2>2, ElementOfSeq
  <2> QED BY <2>2, <2>3, <2>4
<1>4. Nat \subseteq T
  <2> HIDE DEF T
  <2> QED BY <1>2, <1>3, NatSetInduction
<1> QED BY <1>1, <1>4, LenProperties

-----------------------------------------------------------------------------
(* Sequences *)

\* A function on 1..n is a sequence.
LEMMA FunctionIsSeq ==
  ASSUME NEW S, NEW n \in Nat, NEW f \in [1..n -> S]
  PROVE  f \in Seq(S) /\ Len(f) = n
  OBVIOUS

LEMMA SingletonSeq ==
  ASSUME NEW S, NEW x \in S
  PROVE  <<x>> \in Seq(S) /\ Len(<<x>>) = 1 /\ <<x>>[1] = x /\ DOMAIN <<x>> = 1..1
  OBVIOUS

\* The head of a sequence put behind one element, whatever that element is.
LEMMA SeqHead ==
  ASSUME NEW x, NEW T, NEW t \in Seq(T)
  PROVE  (<<x>> \o t)[1] = x /\ 1 \in DOMAIN (<<x>> \o t)
<1> DEFINE S == T \cup {x}
<1>1. <<x>> \in Seq(S) /\ Len(<<x>>) = 1 /\ <<x>>[1] = x
  BY SingletonSeq
<1>2. t \in Seq(S) /\ Len(t) \in Nat
  BY SeqMonotonic, LenProperties
<1> HIDE DEF S
<1> QED BY <1>1, <1>2, ConcatProperties

\* The same for the head of two elements.
LEMMA PairHead ==
  ASSUME NEW x, NEW y, NEW T, NEW t \in Seq(T)
  PROVE  (<<x, y>> \o t)[1] = x /\ 1 \in DOMAIN (<<x, y>> \o t)
<1> DEFINE S == T \cup {x, y}
           h == <<x, y>>
<1>1. h \in Seq(S) /\ Len(h) = 2 /\ h[1] = x
  OBVIOUS
<1>2. t \in Seq(S) /\ Len(t) \in Nat
  BY SeqMonotonic, LenProperties
<1> HIDE DEF S, h
<1>3. /\ h \o t \in Seq(S) /\ Len(h \o t) = Len(h) + Len(t)
      /\ \A i \in 1..(Len(h) + Len(t)) :
            (h \o t)[i] = IF i <= Len(h) THEN h[i] ELSE t[i - Len(h)]
  <2>1. h \in Seq(S) /\ t \in Seq(S)
    BY <1>1, <1>2
  <2> QED BY <2>1, ConcatProperties
<1>4. DOMAIN (h \o t) = 1..Len(h \o t)
  <2>1. h \o t \in Seq(S)
    BY <1>3
  <2> QED BY <2>1, LenProperties
<1> QED BY <1>1, <1>2, <1>3, <1>4 DEF h

LEMMA PairIsConcat ==
  ASSUME NEW S, NEW x \in S, NEW y \in S
  PROVE  <<x, y>> = <<x>> \o <<y>>
<1> DEFINE a == Append(<<x>>, y)
           p == <<x, y>>
<1>1. p \in Seq(S) /\ Len(p) = 2 /\ p[1] = x /\ p[2] = y
  OBVIOUS
<1>2. <<x>> \in Seq(S) /\ Len(<<x>>) = 1 /\ <<x>>[1] = x
  OBVIOUS
<1>3. a \in Seq(S) /\ Len(a) = 2 /\ a[1] = x /\ a[2] = y
  BY <1>2, AppendProperties
<1>4. a = <<x>> \o <<y>>
  BY <1>2, AppendIsConcat
<1> HIDE DEF a, p
<1>5. a = p
  <2>1. \A i \in 1..Len(a) : a[i] = p[i]
    BY <1>1, <1>3
  <2>2. a \in Seq(S) /\ p \in Seq(S) /\ Len(a) = Len(p)
    BY <1>1, <1>3
  <2> QED BY <2>1, <2>2, SeqEqual
<1> QED BY <1>4, <1>5 DEF p

-----------------------------------------------------------------------------
(* Sums *)

\* Only the amounts matter.
LEMMA SumOfSameAmounts ==
  ASSUME NEW S, NEW s \in Seq(S), NEW T, NEW t \in Seq(T), Len(s) = Len(t),
         \A i \in 1..Len(s) : s[i].satoshis = t[i].satoshis
  PROVE  SumSatoshis(s) = SumSatoshis(t)
<1>1. PICK f : IsUpTo(f, s, Len(s)) /\ SumSatoshis(s) = f[Len(s)]
  BY SumIsLastPartialSum
<1>2. PICK g : IsUpTo(g, t, Len(t)) /\ SumSatoshis(t) = g[Len(t)]
  BY SumIsLastPartialSum
<1> DEFINE n == Len(s)
           R == {k \in Nat : k <= n => f[k] = g[k]}
<1>3. n \in Nat
  BY LenProperties
<1>4. /\ \A k \in 0..n : f[k] = IF k = 0 THEN 0 ELSE f[k - 1] + s[k].satoshis
      /\ \A k \in 0..n : g[k] = IF k = 0 THEN 0 ELSE g[k - 1] + t[k].satoshis
      /\ \A k \in 1..n : s[k].satoshis = t[k].satoshis
      /\ SumSatoshis(s) = f[n] /\ SumSatoshis(t) = g[n]
  BY <1>1, <1>2 DEF IsUpTo
<1> HIDE DEF n
<1>5. 0 \in R
  BY <1>3, <1>4
<1>6. ASSUME NEW k \in Nat, k \in R PROVE k + 1 \in R
  <2>1. SUFFICES ASSUME k + 1 <= n PROVE f[k + 1] = g[k + 1]
    OBVIOUS
  <2>2. k + 1 \in 1..n /\ k + 1 \in 0..n /\ f[k] = g[k] /\ (k + 1) - 1 = k
    BY <1>3, <1>6, <2>1
  <2>3. f[k + 1] = f[k] + s[k + 1].satoshis /\ g[k + 1] = g[k] + t[k + 1].satoshis
    BY <1>4, <2>2
  <2> QED BY <1>4, <2>2, <2>3
<1>7. Nat \subseteq R
  <2> HIDE DEF R
  <2> QED BY <1>5, <1>6, NatSetInduction
<1> QED BY <1>3, <1>4, <1>7

LEMMA SumOfShort ==
  /\ SumSatoshis(<<>>) = 0
  /\ \A x : x.satoshis \in Nat => SumSatoshis(<<x>>) = x.satoshis
<1>1. SumSatoshis(<<>>) = 0
  <2>1. <<>> \in Seq({}) /\ Len(<<>>) = 0
    BY EmptySeq
  <2>2. PICK f : IsUpTo(f, <<>>, 0) /\ SumSatoshis(<<>>) = f[0]
    BY <2>1, SumIsLastPartialSum
  <2> QED BY <2>2 DEF IsUpTo
<1>2. ASSUME NEW x, x.satoshis \in Nat PROVE SumSatoshis(<<x>>) = x.satoshis
  <2>1. <<x>> \in Seq({x}) /\ Len(<<x>>) = 1 /\ <<x>>[1] = x
    BY SingletonSeq
  <2>2. PICK f : IsUpTo(f, <<x>>, 1) /\ SumSatoshis(<<x>>) = f[1]
    BY <2>1, SumIsLastPartialSum
  <2>3. f[0] = 0 /\ f[1] = f[0] + <<x>>[1].satoshis
    BY <2>2 DEF IsUpTo
  <2> QED BY <1>2, <2>1, <2>2, <2>3
<1> QED BY <1>1, <1>2

LEMMA SumOfConcat ==
  ASSUME NEW S, NEW s \in Seq(S), NEW t \in Seq(S), \A x \in S : x.satoshis \in Nat
  PROVE  SumSatoshis(s \o t) = SumSatoshis(s) + SumSatoshis(t)
<1> DEFINE c == s \o t
           m == Len(s)
           n == Len(t)
<1>1. /\ c \in Seq(S) /\ Len(c) = m + n /\ m \in Nat /\ n \in Nat
      /\ \A i \in 1..m : c[i] = s[i]
      /\ \A i \in 1..n : c[m + i] = t[i] /\ t[i].satoshis \in Nat
  <2>1. /\ c \in Seq(S) /\ Len(c) = m + n
        /\ \A i \in 1..m : c[i] = s[i]
        /\ \A i \in 1..n : c[m + i] = t[i]
    OBVIOUS
  <2>2. m \in Nat /\ n \in Nat
    BY LenProperties
  <2>3. \A i \in 1..n : t[i].satoshis \in Nat
    BY ElementOfSeq
  <2> QED BY <2>1, <2>2, <2>3
<1>2. PICK f : IsUpTo(f, s, m) /\ SumSatoshis(s) = f[m]
  BY SumIsLastPartialSum
<1>3. PICK g : IsUpTo(g, t, n) /\ SumSatoshis(t) = g[n]
  BY SumIsLastPartialSum
<1>4. PICK h : IsUpTo(h, c, Len(c)) /\ SumSatoshis(c) = h[Len(c)]
  BY <1>1, SumIsLastPartialSum
<1>5. SumSatoshis(s) \in Nat
  BY SumSatoshisType
<1> HIDE DEF c, m, n
<1>6. /\ \A k \in 0..m : f[k] = IF k = 0 THEN 0 ELSE f[k - 1] + s[k].satoshis
      /\ \A k \in 0..n : g[k] = IF k = 0 THEN 0 ELSE g[k - 1] + t[k].satoshis
      /\ \A k \in 0..(m + n) : h[k] = IF k = 0 THEN 0 ELSE h[k - 1] + c[k].satoshis
      /\ SumSatoshis(c) = h[m + n]
  BY <1>1, <1>2, <1>3, <1>4 DEF IsUpTo
<1> DEFINE F == {k \in Nat : k <= m => h[k] = f[k]}
           G == {k \in Nat : k <= n => h[m + k] = f[m] + g[k] /\ g[k] \in Nat}
<1>7. Nat \subseteq F
  <2>1. 0 \in F
    BY <1>1, <1>6
  <2>2. ASSUME NEW k \in Nat, k \in F PROVE k + 1 \in F
    <3>1. SUFFICES ASSUME k + 1 <= m PROVE h[k + 1] = f[k + 1]
      OBVIOUS
    <3>2. /\ k + 1 \in 1..m /\ k + 1 \in 0..m /\ k + 1 \in 0..(m + n)
          /\ h[k] = f[k] /\ (k + 1) - 1 = k
      BY <1>1, <2>2, <3>1
    <3>3. f[k + 1] = f[k] + s[k + 1].satoshis /\ h[k + 1] = h[k] + c[k + 1].satoshis
      BY <1>6, <3>2
    <3> QED BY <1>1, <3>2, <3>3
  <2> HIDE DEF F
  <2> QED BY <2>1, <2>2, NatSetInduction
<1>8. Nat \subseteq G
  <2>1. 0 \in G
    <3>1. h[m] = f[m] /\ g[0] = 0 /\ f[m] \in Nat
      BY <1>1, <1>2, <1>5, <1>6, <1>7
    <3> QED BY <1>1, <3>1
  <2>2. ASSUME NEW k \in Nat, k \in G PROVE k + 1 \in G
    <3>1. SUFFICES ASSUME k + 1 <= n
                   PROVE  h[m + (k + 1)] = f[m] + g[k + 1] /\ g[k + 1] \in Nat
      OBVIOUS
    <3>2. /\ k + 1 \in 1..n /\ k + 1 \in 0..n /\ m + (k + 1) \in 0..(m + n)
          /\ h[m + k] = f[m] + g[k] /\ g[k] \in Nat
          /\ (k + 1) - 1 = k /\ (m + (k + 1)) - 1 = m + k /\ m + (k + 1) # 0
      BY SMTT(40), <1>1, <2>2, <3>1
    <3>3. g[k + 1] = g[k] + t[k + 1].satoshis
          /\ h[m + (k + 1)] = h[m + k] + c[m + (k + 1)].satoshis
      BY <1>6, <3>2
    <3>4. c[m + (k + 1)].satoshis = t[k + 1].satoshis /\ t[k + 1].satoshis \in Nat
      BY <1>1, <3>2
    <3> QED BY <1>2, <1>5, <3>2, <3>3, <3>4
  <2> HIDE DEF G
  <2> QED BY <2>1, <2>2, NatSetInduction
<1> QED BY <1>1, <1>2, <1>3, <1>6, <1>8 DEF c

\* The covenant adds up to four amounts.
LEMMA SegmentTotalIsSum ==
  ASSUME NEW S, NEW segs \in Seq(S), \A x \in S : x.satoshis \in Nat, Len(segs) \in 0..4
  PROVE  SegmentTotal(segs) = SumSatoshis(segs)
<1> DEFINE n == Len(segs)
<1>1. PICK f : IsUpTo(f, segs, n) /\ SumSatoshis(segs) = f[n]
  BY SumIsLastPartialSum
<1>2. DOMAIN segs = 1..n /\ \A i \in 1..n : segs[i].satoshis \in Nat
  BY LenProperties, ElementOfSeq
<1>3. \A k \in 0..n : f[k] = IF k = 0 THEN 0 ELSE f[k - 1] + segs[k].satoshis
  BY <1>1 DEF IsUpTo
<1>4. n \in 0..4
  OBVIOUS
<1> HIDE DEF n
<1>5. f[0] = 0 /\ \A k \in 1..n : f[k] = f[k - 1] + segs[k].satoshis
  BY <1>3, <1>4
<1>6. CASE n = 0
  BY <1>1, <1>2, <1>5, <1>6 DEF SegmentTotal
<1>7. CASE n = 1
  <2>1. f[1] = segs[1].satoshis
    BY <1>2, <1>5, <1>7
  <2> QED BY <1>1, <1>2, <1>7, <2>1 DEF SegmentTotal
<1>8. CASE n = 2
  <2>1. f[1] = f[0] + segs[1].satoshis /\ f[2] = f[1] + segs[2].satoshis
    BY <1>5, <1>8
  <2> QED BY <1>1, <1>2, <1>5, <1>8, <2>1 DEF SegmentTotal
<1>9. CASE n = 3
  <2>1. /\ f[1] = f[0] + segs[1].satoshis /\ f[2] = f[1] + segs[2].satoshis
        /\ f[3] = f[2] + segs[3].satoshis
    BY <1>5, <1>9
  <2> QED BY <1>1, <1>2, <1>5, <1>9, <2>1 DEF SegmentTotal
<1>10. CASE n = 4
  <2>1. /\ f[1] = f[0] + segs[1].satoshis /\ f[2] = f[1] + segs[2].satoshis
        /\ f[3] = f[2] + segs[3].satoshis /\ f[4] = f[3] + segs[4].satoshis
    BY <1>5, <1>10
  <2> QED BY <1>1, <1>2, <1>5, <1>10, <2>1 DEF SegmentTotal
<1> QED BY <1>4, <1>6, <1>7, <1>8, <1>9, <1>10

\* All but the last.
LEMMA FrontOfAppend ==
  ASSUME NEW S, NEW s \in Seq(S), NEW x \in S
  PROVE  Front(Append(s, x)) = s /\ Front(s \o <<x>>) = s
<1> DEFINE a == Append(s, x)
           m == Len(s)
<1>1. /\ a \in Seq(S) /\ Len(a) = m + 1 /\ m \in Nat
      /\ \A i \in 1..m : a[i] = s[i]
  BY AppendProperties, LenProperties
<1>2. Front(a) = SubSeq(a, 1, m)
  BY <1>1 DEF Front
<1>3. \A i \in 1..m : s[i] \in S
  BY ElementOfSeq
<1>4. a = s \o <<x>>
  BY AppendIsConcat
<1> HIDE DEF a, m
<1>5. \A i \in 1..m : a[i] \in S
  BY <1>1, <1>3
<1>6. SubSeq(a, 1, m) \in Seq(S) /\ Len(SubSeq(a, 1, m)) = m
      /\ \A i \in 1..m : SubSeq(a, 1, m)[i] = s[i]
  BY <1>1, <1>5, SubSeqProperties
<1>7. SubSeq(a, 1, m) = s
  BY <1>6, SeqEqual DEF m
<1> QED BY <1>2, <1>4, <1>7 DEF a

-----------------------------------------------------------------------------
(* The chain *)

\* What is handed to the builders.
UtxoRecords == [op: Outpoints, out: Outputs]

OutputOf(ch, op) == ch[op.txid].outs[op.vout + 1]

\* An outpoint the chain created is the place of an output.
LEMMA CreatedType ==
  ASSUME NEW ch \in Seq(Txs), NEW op \in Created(ch)
  PROVE  /\ op \in Outpoints
         /\ op.txid \in DOMAIN ch /\ ch[op.txid] \in Txs
         /\ op.vout + 1 \in DOMAIN ch[op.txid].outs
         /\ ch[op.txid].outs[op.vout + 1] \in Outputs
<1>1. PICK t \in DOMAIN ch :
          op \in {[txid |-> t, vout |-> k - 1] : k \in DOMAIN ch[t].outs}
  BY DEF Created
<1>2. PICK k \in DOMAIN ch[t].outs : op = [txid |-> t, vout |-> k - 1]
  BY <1>1
<1>3. t \in 1..Len(ch) /\ ch[t] \in Txs
  BY LenProperties, ElementOfSeq
<1>4. ch[t].outs \in Seq(Outputs)
  BY <1>3 DEF Txs
<1>5. k \in 1..Len(ch[t].outs) /\ ch[t].outs[k] \in Outputs
  BY <1>4, LenProperties, ElementOfSeq
<1>6. t \in Nat \ {0} /\ k - 1 \in Nat
  BY <1>3, <1>5, <1>4, LenProperties
<1> QED BY <1>2, <1>3, <1>5, <1>6 DEF Outpoints

LEMMA CreatedPlace ==
  ASSUME NEW ch \in Seq(Txs), NEW t \in DOMAIN ch, NEW k \in DOMAIN ch[t].outs
  PROVE  [txid |-> t, vout |-> k - 1] \in Created(ch)
  BY DEF Created

\* A confirmed transaction leaves every older output in its place.
LEMMA AppendKeepsOutputs ==
  ASSUME NEW ch \in Seq(Txs), NEW tx \in Txs, NEW op \in Created(ch)
  PROVE  /\ op \in Created(Append(ch, tx))
         /\ Append(ch, tx)[op.txid] = ch[op.txid]
<1>1. op \in Outpoints /\ op.txid \in 1..Len(ch)
      /\ op.vout + 1 \in DOMAIN ch[op.txid].outs
  BY CreatedType, LenProperties
<1>2. /\ Append(ch, tx) \in Seq(Txs)
      /\ Len(Append(ch, tx)) = Len(ch) + 1
      /\ Append(ch, tx)[op.txid] = ch[op.txid]
  BY <1>1, AppendProperties
<1>3. op.txid \in DOMAIN Append(ch, tx)
  BY <1>1, <1>2, LenProperties
<1>4. op = [txid |-> op.txid, vout |-> (op.vout + 1) - 1]
  BY <1>1 DEF Outpoints
<1>5. [txid |-> op.txid, vout |-> (op.vout + 1) - 1] \in Created(Append(ch, tx))
  BY <1>1, <1>2, <1>3, CreatedPlace
<1> QED BY <1>2, <1>4, <1>5

-----------------------------------------------------------------------------
(* Sums over finite sets: the function that the folds define recursively *)

Pick(s) == CHOOSE x \in s : TRUE

\* f adds up the weights of every set of dom, one picked element after the other.
AddsUp(f, w, dom) ==
    f = [s \in dom |-> IF s = {} THEN 0 ELSE w[Pick(s)] + f[s \ {Pick(s)}]]

SubsetsUpTo(U, n) == {s \in SUBSET U : Cardinality(s) <= n}

LEMMA SumExists ==
  ASSUME NEW w, NEW U, IsFiniteSet(U)
  PROVE  \E f : AddsUp(f, w, SUBSET U)
<1> DEFINE T == {n \in Nat : \E f : AddsUp(f, w, SubsetsUpTo(U, n))}
<1>1. \A s \in SUBSET U : /\ IsFiniteSet(s) /\ Cardinality(s) \in Nat
                          /\ Cardinality(s) <= Cardinality(U)
                          /\ Cardinality(s) = 0 <=> s = {}
                          /\ s # {} =>
                                /\ Pick(s) \in s /\ s \ {Pick(s)} \in SUBSET U
                                /\ Cardinality(s \ {Pick(s)}) = Cardinality(s) - 1
  <2>1. ASSUME NEW s \in SUBSET U
        PROVE  IsFiniteSet(s) /\ Cardinality(s) <= Cardinality(U)
    BY FS_Subset
  <2>2. ASSUME NEW s \in SUBSET U, s # {} PROVE Pick(s) \in s
    BY <2>2 DEF Pick
  <2>3. ASSUME NEW s \in SUBSET U, s # {}
        PROVE  Cardinality(s \ {Pick(s)}) = Cardinality(s) - 1
    BY <2>1, <2>2, <2>3, FS_RemoveElement
  <2> QED BY <2>1, <2>2, <2>3, FS_CardinalityType, FS_EmptySet
<1>2. 0 \in T
  <2> DEFINE f == [s \in SubsetsUpTo(U, 0) |-> 0]
  <2>1. ASSUME NEW s \in SubsetsUpTo(U, 0) PROVE s = {}
    <3>1. s \in SUBSET U /\ Cardinality(s) <= 0
      BY DEF SubsetsUpTo
    <3>2. Cardinality(s) \in Nat /\ (Cardinality(s) = 0 <=> s = {})
      BY <1>1, <3>1
    <3> QED BY <3>1, <3>2
  <2>2. AddsUp(f, w, SubsetsUpTo(U, 0))
    BY <2>1 DEF AddsUp
  <2> HIDE DEF f
  <2> QED BY <2>2
<1>3. ASSUME NEW n \in Nat, n \in T PROVE n + 1 \in T
  <2>1. PICK f : AddsUp(f, w, SubsetsUpTo(U, n))
    BY <1>3
  <2> DEFINE g == [s \in SubsetsUpTo(U, n + 1) |->
                     IF s = {} THEN 0 ELSE w[Pick(s)] + f[s \ {Pick(s)}]]
  <2>2. ASSUME NEW s \in SubsetsUpTo(U, n + 1), s # {}
        PROVE  s \ {Pick(s)} \in SubsetsUpTo(U, n)
    BY <1>1, <2>2 DEF SubsetsUpTo
  <2>3. ASSUME NEW s \in SubsetsUpTo(U, n)
        PROVE  s \in SubsetsUpTo(U, n + 1) /\ g[s] = f[s]
    <3>1. s \in SubsetsUpTo(U, n + 1)
      <4>1. s \in SUBSET U /\ Cardinality(s) <= n
        BY DEF SubsetsUpTo
      <4>2. Cardinality(s) \in Nat
        BY <1>1, <4>1
      <4>3. Cardinality(s) <= n + 1
        BY <4>1, <4>2
      <4> QED BY <4>1, <4>3 DEF SubsetsUpTo
    <3>2. f[s] = IF s = {} THEN 0 ELSE w[Pick(s)] + f[s \ {Pick(s)}]
      BY <2>1 DEF AddsUp
    <3> QED BY <3>1, <3>2
  <2>4. ASSUME NEW s \in SubsetsUpTo(U, n + 1)
        PROVE  g[s] = IF s = {} THEN 0 ELSE w[Pick(s)] + g[s \ {Pick(s)}]
    <3>1. s # {} => g[s \ {Pick(s)}] = f[s \ {Pick(s)}]
      BY <2>2, <2>3
    <3> QED BY <3>1
  <2>5. AddsUp(g, w, SubsetsUpTo(U, n + 1))
    BY <2>4 DEF AddsUp
  <2> HIDE DEF g
  <2> QED BY <2>5
<1>4. Nat \subseteq T
  <2> HIDE DEF T
  <2> QED BY <1>2, <1>3, NatSetInduction
<1>5. Cardinality(U) \in T
  BY <1>1, <1>4
<1>6. SubsetsUpTo(U, Cardinality(U)) = SUBSET U
  BY <1>1 DEF SubsetsUpTo
<1> QED BY <1>5, <1>6

LEMMA PickRemoves ==
  ASSUME NEW s, IsFiniteSet(s), s # {}
  PROVE  /\ Pick(s) \in s
         /\ IsFiniteSet(s \ {Pick(s)})
         /\ Cardinality(s) \in Nat /\ Cardinality(s \ {Pick(s)}) \in Nat
         /\ Cardinality(s) = Cardinality(s \ {Pick(s)}) + 1
<1>1. Pick(s) \in s
  BY DEF Pick
<1>2. /\ IsFiniteSet(s \ {Pick(s)})
      /\ Cardinality(s \ {Pick(s)}) = Cardinality(s) - 1
  BY <1>1, FS_RemoveElement
<1>3. Cardinality(s) \in Nat /\ Cardinality(s \ {Pick(s)}) \in Nat
  BY <1>2, FS_CardinalityType
<1> QED BY <1>1, <1>2, <1>3

\* SumFunctionOnSet is the value of such a function.
LEMMA SumAddsUp ==
  ASSUME NEW w, NEW S, IsFiniteSet(S)
  PROVE  \E f : AddsUp(f, w, SUBSET S) /\ SumFunctionOnSet(w, S) = f[S]
<1> DEFINE f == CHOOSE g : AddsUp(g, w, SUBSET S)
<1>1. AddsUp(f, w, SUBSET S)
  BY SumExists
<1>2. SumFunctionOnSet(w, S) = f[S]
  BY Zenon DEF SumFunctionOnSet, FoldFunctionOnSet, MapThenFoldSet, AddsUp, Pick
<1> QED BY <1>1, <1>2

\* The function of a larger set gives the sum of a smaller one too, and only the
\* weights of its elements matter.
LEMMA SumOfSubset ==
  ASSUME NEW w, NEW v, NEW U, NEW f, AddsUp(f, w, SUBSET U),
         NEW ops \in SUBSET U, IsFiniteSet(ops), \A x \in ops : v[x] = w[x]
  PROVE  SumFunctionOnSet(v, ops) = f[ops]
<1>1. PICK g : AddsUp(g, v, SUBSET ops) /\ SumFunctionOnSet(v, ops) = g[ops]
  BY SumAddsUp
<1> DEFINE T == {n \in Nat : \A s \in SUBSET ops : Cardinality(s) = n => g[s] = f[s]}
<1>2. \A s \in SUBSET ops : IsFiniteSet(s) /\ Cardinality(s) \in Nat
  BY FS_Subset, FS_CardinalityType
<1>3. 0 \in T
  <2>1. ASSUME NEW s \in SUBSET ops, Cardinality(s) = 0 PROVE g[s] = f[s]
    <3>1. s = {}
      BY <1>2, <2>1, FS_EmptySet
    <3> QED BY <1>1, <3>1 DEF AddsUp
  <2> QED BY <2>1
<1>4. ASSUME NEW n \in Nat, n \in T PROVE n + 1 \in T
  <2>1. ASSUME NEW s \in SUBSET ops, Cardinality(s) = n + 1 PROVE g[s] = f[s]
    <3>1. s # {}
      <4>1. IsFiniteSet(s) /\ n + 1 # 0
        BY <1>2
      <4>2. Cardinality(s) # 0
        BY <2>1, <4>1
      <4> QED BY <4>1, <4>2, FS_EmptySet
    <3>2. /\ s \ {Pick(s)} \in SUBSET ops /\ Cardinality(s \ {Pick(s)}) = n
          /\ Pick(s) \in ops
      BY <1>2, <2>1, <3>1, PickRemoves
    <3>3. g[s \ {Pick(s)}] = f[s \ {Pick(s)}]
      BY <1>4, <3>2
    <3>4. /\ g[s] = v[Pick(s)] + g[s \ {Pick(s)}]
          /\ f[s] = w[Pick(s)] + f[s \ {Pick(s)}]
      BY <1>1, <3>1 DEF AddsUp
    <3> QED BY <3>2, <3>3, <3>4
  <2> QED BY <2>1
<1>5. Nat \subseteq T
  <2> HIDE DEF T
  <2> QED BY <1>3, <1>4, NatSetInduction
<1>6. g[ops] = f[ops]
  BY <1>2, <1>5
<1> QED BY <1>1, <1>6

LEMMA SumOfSame ==
  ASSUME NEW w, NEW v, NEW S, IsFiniteSet(S), \A x \in S : v[x] = w[x]
  PROVE  SumFunctionOnSet(v, S) = SumFunctionOnSet(w, S)
<1>1. PICK f : AddsUp(f, w, SUBSET S) /\ SumFunctionOnSet(w, S) = f[S]
  BY SumAddsUp
<1>2. SumFunctionOnSet(v, S) = f[S]
  BY <1>1, SumOfSubset
<1> QED BY <1>1, <1>2

\* The equations of the recursion.
LEMMA SumEmpty ==
  ASSUME NEW w
  PROVE  SumFunctionOnSet(w, {}) = 0
<1>1. PICK f : AddsUp(f, w, SUBSET {}) /\ SumFunctionOnSet(w, {}) = f[{}]
  BY SumAddsUp, FS_EmptySet
<1> QED BY <1>1 DEF AddsUp

LEMMA SumStep ==
  ASSUME NEW w, NEW S, IsFiniteSet(S), S # {}
  PROVE  SumFunctionOnSet(w, S) = w[Pick(S)] + SumFunctionOnSet(w, S \ {Pick(S)})
<1> DEFINE R == S \ {Pick(S)}
<1>1. IsFiniteSet(R) /\ R \in SUBSET S
  BY PickRemoves
<1>2. PICK f : AddsUp(f, w, SUBSET S) /\ SumFunctionOnSet(w, S) = f[S]
  BY SumAddsUp
<1>3. SumFunctionOnSet(w, R) = f[R]
  <2> HIDE DEF R
  <2> QED BY <1>1, <1>2, SumOfSubset
<1>4. f[S] = w[Pick(S)] + f[R]
  BY <1>2 DEF AddsUp
<1> QED BY <1>2, <1>3, <1>4

-----------------------------------------------------------------------------
(* The amounts of sets of outputs *)

Amount(ch, op) == OutputOf(ch, op).satoshis

Total(ch, ops) == MapThenSumSet(LAMBDA op : OutputOf(ch, op).satoshis, ops)

\* The same recursion with the amounts of outputs for weights.
TotalsUp(f, ch, dom) ==
    f = [s \in dom |-> IF s = {} THEN 0 ELSE Amount(ch, Pick(s)) + f[s \ {Pick(s)}]]

LEMMA TotalIsSum ==
  ASSUME NEW ch, NEW U, NEW ops \in SUBSET U, IsFiniteSet(ops)
  PROVE  Total(ch, ops) = SumFunctionOnSet([op \in U |-> Amount(ch, op)], ops)
<1> DEFINE w == [op \in U |-> Amount(ch, op)]
           f == CHOOSE g : TotalsUp(g, ch, SUBSET ops)
<1>1. \A s \in SUBSET ops : s # {} => w[Pick(s)] = Amount(ch, Pick(s))
  BY DEF Pick
<1> HIDE DEF w
<1>2. \A g : TotalsUp(g, ch, SUBSET ops) <=> AddsUp(g, w, SUBSET ops)
  BY <1>1 DEF TotalsUp, AddsUp
<1>3. AddsUp(f, w, SUBSET ops)
  <2>1. \E g : AddsUp(g, w, SUBSET ops)
    BY SumExists
  <2>2. TotalsUp(f, ch, SUBSET ops)
    BY <1>2, <2>1
  <2> QED BY <1>2, <2>2
<1>4. Total(ch, ops) = f[ops]
  BY Zenon DEF Total, MapThenSumSet, MapThenFoldSet, TotalsUp, Pick, Amount
<1> HIDE DEF f
<1>5. SumFunctionOnSet(w, ops) = f[ops]
  <2>1. ops \in SUBSET ops
    OBVIOUS
  <2> QED BY <1>3, <2>1, SumOfSubset
<1>6. Total(ch, ops) = SumFunctionOnSet(w, ops)
  BY <1>4, <1>5
<1> QED BY <1>6 DEF w

LEMMA TotalEmpty ==
  ASSUME NEW ch
  PROVE  Total(ch, {}) = 0
<1>1. Total(ch, {}) = SumFunctionOnSet([op \in {} |-> Amount(ch, op)], {})
  BY TotalIsSum, FS_EmptySet
<1> QED BY <1>1, SumEmpty

LEMMA TotalStep ==
  ASSUME NEW ch, NEW ops, IsFiniteSet(ops), ops # {}
  PROVE  Total(ch, ops) = Amount(ch, Pick(ops)) + Total(ch, ops \ {Pick(ops)})
<1> DEFINE w == [op \in ops |-> Amount(ch, op)]
           p == Pick(ops)
<1>1. IsFiniteSet(ops \ {p}) /\ p \in ops /\ ops \ {p} \in SUBSET ops
  BY PickRemoves
<1>2. Total(ch, ops) = SumFunctionOnSet(w, ops)
  BY TotalIsSum
<1>3. Total(ch, ops \ {p}) = SumFunctionOnSet(w, ops \ {p})
  BY <1>1, TotalIsSum
<1>4. w[p] = Amount(ch, p)
  BY <1>1
<1> HIDE DEF w
<1>5. SumFunctionOnSet(w, ops) = w[p] + SumFunctionOnSet(w, ops \ {p})
  BY SumStep
<1> QED BY <1>2, <1>3, <1>4, <1>5

LEMMA TotalType ==
  ASSUME NEW ch, NEW ops, IsFiniteSet(ops), \A op \in ops : Amount(ch, op) \in Nat
  PROVE  Total(ch, ops) \in Nat
<1> DEFINE T == {n \in Nat : \A s \in SUBSET ops : Cardinality(s) = n => Total(ch, s) \in Nat}
<1>1. \A s \in SUBSET ops : IsFiniteSet(s) /\ Cardinality(s) \in Nat
  BY FS_Subset, FS_CardinalityType
<1>2. 0 \in T
  <2>1. ASSUME NEW s \in SUBSET ops, Cardinality(s) = 0 PROVE Total(ch, s) \in Nat
    <3>1. s = {}
      BY <1>1, <2>1, FS_EmptySet
    <3> QED BY <3>1, TotalEmpty
  <2> QED BY <2>1
<1>3. ASSUME NEW n \in Nat, n \in T PROVE n + 1 \in T
  <2>1. ASSUME NEW s \in SUBSET ops, Cardinality(s) = n + 1 PROVE Total(ch, s) \in Nat
    <3>1. s # {} /\ IsFiniteSet(s)
      BY <1>1, <2>1, FS_EmptySet
    <3>2. /\ Pick(s) \in ops /\ s \ {Pick(s)} \in SUBSET ops
          /\ Cardinality(s \ {Pick(s)}) = n
      <4>1. /\ Pick(s) \in s
            /\ Cardinality(s) = Cardinality(s \ {Pick(s)}) + 1
            /\ Cardinality(s \ {Pick(s)}) \in Nat
        BY <3>1, PickRemoves
      <4> QED BY <2>1, <4>1
    <3>3. Total(ch, s \ {Pick(s)}) \in Nat
      BY <1>3, <3>2
    <3> QED BY <3>1, <3>2, <3>3, TotalStep
  <2> QED BY <2>1
<1>4. Nat \subseteq T
  <2> HIDE DEF T
  <2> QED BY <1>2, <1>3, NatSetInduction
<1> QED BY <1>1, <1>4

\* Any element may be taken first.
LEMMA TotalRemove ==
  ASSUME NEW ch, NEW ops, IsFiniteSet(ops), \A op \in ops : Amount(ch, op) \in Nat,
         NEW x \in ops
  PROVE  Total(ch, ops) = Amount(ch, x) + Total(ch, ops \ {x})
<1> DEFINE T == {n \in Nat : \A s \in SUBSET ops : Cardinality(s) = n =>
                    \A y \in s : Total(ch, s) = Amount(ch, y) + Total(ch, s \ {y})}
<1>1. \A s \in SUBSET ops : IsFiniteSet(s) /\ Cardinality(s) \in Nat /\ Total(ch, s) \in Nat
  BY FS_Subset, FS_CardinalityType, TotalType
<1>2. 0 \in T
  BY <1>1, FS_EmptySet
<1>3. ASSUME NEW n \in Nat, n \in T PROVE n + 1 \in T
  <2>1. ASSUME NEW s \in SUBSET ops, Cardinality(s) = n + 1, NEW y \in s
        PROVE  Total(ch, s) = Amount(ch, y) + Total(ch, s \ {y})
    <3> DEFINE p == Pick(s)
               q == Pick(s \ {y})
    <3>1. IsFiniteSet(s) /\ p \in s /\ Cardinality(s \ {p}) = n
      BY <1>1, <2>1, PickRemoves
    <3>2. Total(ch, s) = Amount(ch, p) + Total(ch, s \ {p})
      BY <3>1, TotalStep
    <3> HIDE DEF p, q
    <3>3. CASE y = p
      BY <3>2, <3>3
    <3>4. CASE y # p
      <4>1. Total(ch, s \ {p}) = Amount(ch, y) + Total(ch, (s \ {p}) \ {y})
        BY <1>3, <3>1, <3>4
      <4>2. Cardinality(s \ {y}) = n
        BY <2>1, <3>1, FS_RemoveElement
      <4>3. Total(ch, s \ {y}) = Amount(ch, p) + Total(ch, (s \ {y}) \ {p})
        BY <1>3, <3>1, <3>4, <4>2
      <4>4. (s \ {p}) \ {y} = (s \ {y}) \ {p} /\ (s \ {p}) \ {y} \in SUBSET ops
        OBVIOUS
      <4>5. /\ Total(ch, (s \ {p}) \ {y}) \in Nat
            /\ Amount(ch, p) \in Nat /\ Amount(ch, y) \in Nat
        BY <1>1, <3>1, <4>4
      <4> QED BY <3>2, <4>1, <4>3, <4>4, <4>5
    <3> QED BY <3>3, <3>4
  <2> QED BY <2>1
<1>4. Nat \subseteq T
  <2> HIDE DEF T
  <2> QED BY <1>2, <1>3, NatSetInduction
<1> QED BY <1>1, <1>4

LEMMA TotalOfOne ==
  ASSUME NEW ch, NEW op, Amount(ch, op) \in Nat
  PROVE  Total(ch, {op}) = Amount(ch, op)
<1>1. IsFiniteSet({op}) /\ {op} \ {op} = {}
  BY FS_Singleton
<1>2. Total(ch, {op}) = Amount(ch, op) + Total(ch, {op} \ {op})
  BY <1>1, TotalRemove
<1> QED BY <1>1, <1>2, TotalEmpty

\* Outputs that are in only one of two sets count once.
LEMMA TotalUnion ==
  ASSUME NEW ch, NEW A, NEW B, IsFiniteSet(A), IsFiniteSet(B), A \cap B = {},
         \A op \in A \cup B : Amount(ch, op) \in Nat
  PROVE  Total(ch, A \cup B) = Total(ch, A) + Total(ch, B)
<1> DEFINE T == {n \in Nat : \A s \in SUBSET B : Cardinality(s) = n =>
                    Total(ch, A \cup s) = Total(ch, A) + Total(ch, s)}
<1>1. \A s \in SUBSET B : /\ IsFiniteSet(s) /\ Cardinality(s) \in Nat
                          /\ Total(ch, s) \in Nat
  BY FS_Subset, FS_CardinalityType, TotalType
<1>2. Total(ch, A) \in Nat
  BY TotalType
<1>3. 0 \in T
  <2>1. ASSUME NEW s \in SUBSET B, Cardinality(s) = 0
        PROVE  Total(ch, A \cup s) = Total(ch, A) + Total(ch, s)
    <3>1. s = {} /\ A \cup s = A
      BY <1>1, <2>1, FS_EmptySet
    <3> QED BY <1>2, <3>1, TotalEmpty
  <2> QED BY <2>1
<1>4. ASSUME NEW n \in Nat, n \in T PROVE n + 1 \in T
  <2>1. ASSUME NEW s \in SUBSET B, Cardinality(s) = n + 1
        PROVE  Total(ch, A \cup s) = Total(ch, A) + Total(ch, s)
    <3>1. IsFiniteSet(s) /\ s # {}
      <4>1. IsFiniteSet(s) /\ n + 1 # 0
        BY <1>1
      <4>2. Cardinality(s) # 0
        BY <2>1, <4>1
      <4> QED BY <4>1, <4>2, FS_EmptySet
    <3> DEFINE p == Pick(s)
               rest == s \ {p}
    <3>2. p \in s /\ rest \in SUBSET B /\ Cardinality(rest) = n
      <4>1. /\ p \in s /\ Cardinality(s) = Cardinality(rest) + 1
            /\ Cardinality(rest) \in Nat
        BY <3>1, PickRemoves
      <4> QED BY <2>1, <4>1
    <3> HIDE DEF p
    <3>3. Total(ch, A \cup rest) = Total(ch, A) + Total(ch, rest)
      BY <1>4, <3>2
    <3>4. Total(ch, s) = Amount(ch, p) + Total(ch, rest)
      BY <3>1, <3>2, TotalRemove
    <3>5. Total(ch, A \cup s) = Amount(ch, p) + Total(ch, A \cup rest)
      <4>1. IsFiniteSet(A \cup s)
        BY <3>1, FS_Union
      <4>2. (A \cup s) \ {p} = A \cup rest
        BY <3>2
      <4>3. p \in A \cup s /\ \A op \in A \cup s : Amount(ch, op) \in Nat
        BY <3>2
      <4>4. Total(ch, A \cup s) = Amount(ch, p) + Total(ch, (A \cup s) \ {p})
        BY <4>1, <4>3, TotalRemove
      <4> QED BY <4>2, <4>4
    <3>6. Amount(ch, p) \in Nat /\ Total(ch, rest) \in Nat
      BY <1>1, <3>2
    <3> HIDE DEF rest
    <3> QED BY <1>2, <3>3, <3>4, <3>5, <3>6
  <2> QED BY <2>1
<1>5. Nat \subseteq T
  <2> HIDE DEF T
  <2> QED BY <1>3, <1>4, NatSetInduction
<1> QED BY <1>1, <1>5

\* Only the amounts of the outputs matter.
LEMMA TotalOfSameAmounts ==
  ASSUME NEW ch, NEW other, NEW ops, IsFiniteSet(ops),
         \A op \in ops : Amount(other, op) = Amount(ch, op)
  PROVE  Total(other, ops) = Total(ch, ops)
<1> DEFINE T == {n \in Nat : \A s \in SUBSET ops : Cardinality(s) = n =>
                    Total(other, s) = Total(ch, s)}
<1>1. \A s \in SUBSET ops : IsFiniteSet(s) /\ Cardinality(s) \in Nat
  BY FS_Subset, FS_CardinalityType
<1>2. 0 \in T
  <2>1. ASSUME NEW s \in SUBSET ops, Cardinality(s) = 0
        PROVE  Total(other, s) = Total(ch, s)
    <3>1. s = {}
      BY <1>1, <2>1, FS_EmptySet
    <3> QED BY <3>1, TotalEmpty
  <2> QED BY <2>1
<1>3. ASSUME NEW n \in Nat, n \in T PROVE n + 1 \in T
  <2>1. ASSUME NEW s \in SUBSET ops, Cardinality(s) = n + 1
        PROVE  Total(other, s) = Total(ch, s)
    <3>1. IsFiniteSet(s) /\ s # {}
      <4>1. IsFiniteSet(s) /\ n + 1 # 0
        BY <1>1
      <4>2. Cardinality(s) # 0
        BY <2>1, <4>1
      <4> QED BY <4>1, <4>2, FS_EmptySet
    <3>2. Pick(s) \in s /\ s \ {Pick(s)} \in SUBSET ops /\ Cardinality(s \ {Pick(s)}) = n
      <4>1. /\ Pick(s) \in s /\ Cardinality(s) = Cardinality(s \ {Pick(s)}) + 1
            /\ Cardinality(s \ {Pick(s)}) \in Nat
        BY <3>1, PickRemoves
      <4> QED BY <2>1, <4>1
    <3>3. Total(other, s \ {Pick(s)}) = Total(ch, s \ {Pick(s)})
      BY <1>3, <3>2
    <3>4. Amount(other, Pick(s)) = Amount(ch, Pick(s))
      BY <3>2
    <3> QED BY <3>1, <3>3, <3>4, TotalStep
  <2> QED BY <2>1
<1>4. Nat \subseteq T
  <2> HIDE DEF T
  <2> QED BY <1>2, <1>3, NatSetInduction
<1> QED BY <1>1, <1>4

\* Sums over the classes of a partition add up to the sum over all.
ClassOf(ops, key, i) == {op \in ops : key[op] = i}

LEMMA TotalOfClasses ==
  ASSUME NEW ch, NEW I, IsFiniteSet(I), NEW ops, IsFiniteSet(ops),
         \A op \in ops : Amount(ch, op) \in Nat,
         NEW key, \A op \in ops : key[op] \in I,
         NEW w, \A i \in I : w[i] = Total(ch, ClassOf(ops, key, i))
  PROVE  SumFunctionOnSet(w, I) = Total(ch, ops)
<1> DEFINE Of(S) == {op \in ops : key[op] \in S}
           Class(i) == ClassOf(ops, key, i)
           T == {n \in Nat : \A S \in SUBSET I : Cardinality(S) = n =>
                    SumFunctionOnSet(w, S) = Total(ch, Of(S))}
<1>1. \A S \in SUBSET I : IsFiniteSet(S) /\ Cardinality(S) \in Nat
  BY FS_Subset, FS_CardinalityType
<1>2. \A s \in SUBSET ops : IsFiniteSet(s)
  BY FS_Subset
<1>3. 0 \in T
  <2>1. ASSUME NEW S \in SUBSET I, Cardinality(S) = 0
        PROVE  SumFunctionOnSet(w, S) = Total(ch, Of(S))
    <3>1. S = {}
      BY <1>1, <2>1, FS_EmptySet
    <3>2. Of(S) = {}
      BY <3>1
    <3> HIDE DEF Of
    <3> QED BY <3>1, <3>2, SumEmpty, TotalEmpty
  <2> QED BY <2>1
<1>4. ASSUME NEW n \in Nat, n \in T PROVE n + 1 \in T
  <2>1. ASSUME NEW S \in SUBSET I, Cardinality(S) = n + 1
        PROVE  SumFunctionOnSet(w, S) = Total(ch, Of(S))
    <3> DEFINE i == Pick(S)
               R == S \ {Pick(S)}
    <3>1. S # {}
      <4>1. n + 1 # 0
        OBVIOUS
      <4> QED BY <1>1, <2>1, <4>1, FS_EmptySet
    <3>2. /\ i \in I /\ R \in SUBSET I /\ Cardinality(R) = n
          /\ S = R \cup {i} /\ i \notin R
      BY <1>1, <2>1, <3>1, PickRemoves
    <3>3. SumFunctionOnSet(w, S) = w[i] + SumFunctionOnSet(w, R)
      BY <1>1, <3>1, SumStep
    <3> HIDE DEF i, R
    <3>4. SumFunctionOnSet(w, R) = Total(ch, Of(R))
      BY <1>4, <3>2
    <3>5. /\ Of(S) = Class(i) \cup Of(R) /\ Class(i) \cap Of(R) = {}
          /\ IsFiniteSet(Class(i)) /\ IsFiniteSet(Of(R))
          /\ \A op \in Class(i) \cup Of(R) : Amount(ch, op) \in Nat
      BY <1>2, <3>2 DEF ClassOf
    <3>6. w[i] = Total(ch, Class(i))
      BY <3>2
    <3> HIDE DEF Class, Of
    <3>7. Total(ch, Class(i) \cup Of(R)) = Total(ch, Class(i)) + Total(ch, Of(R))
      BY <3>5, TotalUnion
    <3> QED BY <3>3, <3>4, <3>5, <3>6, <3>7
  <2> QED BY <2>1
<1>5. Nat \subseteq T
  <2> HIDE DEF T
  <2> QED BY <1>3, <1>4, NatSetInduction
<1>6. SumFunctionOnSet(w, I) = Total(ch, Of(I))
  BY <1>1, <1>5
<1>7. Of(I) = ops
  OBVIOUS
<1> HIDE DEF Of
<1> QED BY <1>6, <1>7

\* More outputs, more satoshis.
LEMMA TotalOfMore ==
  ASSUME NEW ch, NEW A, NEW B, A \subseteq B, IsFiniteSet(B),
         \A op \in B : Amount(ch, op) \in Nat
  PROVE  Total(ch, A) \in Nat /\ Total(ch, B) \in Nat /\ Total(ch, A) <= Total(ch, B)
<1> DEFINE C == B \ A
<1>1. IsFiniteSet(A) /\ IsFiniteSet(C)
  BY FS_Subset
<1>2. A \cap C = {} /\ A \cup C = B
  OBVIOUS
<1> HIDE DEF C
<1>3. Total(ch, A \cup C) = Total(ch, A) + Total(ch, C)
  BY <1>1, <1>2, TotalUnion
<1>4. Total(ch, A) \in Nat /\ Total(ch, C) \in Nat
  BY <1>1, <1>2, TotalType
<1>5. Total(ch, B) = Total(ch, A) + Total(ch, C)
  BY <1>2, <1>3
<1> QED BY <1>4, <1>5

\* The places of the first n outputs of a transaction.
OutPlaces(t, n) == {[txid |-> t, vout |-> k - 1] : k \in 1..n}

LEMMA PlacesNext ==
  ASSUME NEW t, NEW n \in Nat
  PROVE  /\ IsFiniteSet(OutPlaces(t, n))
         /\ OutPlaces(t, n + 1) = OutPlaces(t, n) \cup {[txid |-> t, vout |-> n]}
         /\ [txid |-> t, vout |-> n] \notin OutPlaces(t, n)
         /\ OutPlaces(t, 0) = {}
<1> DEFINE T == {m \in Nat : IsFiniteSet(OutPlaces(t, m))}
<1>1. ASSUME NEW m \in Nat
      PROVE  /\ OutPlaces(t, m + 1) = OutPlaces(t, m) \cup {[txid |-> t, vout |-> m]}
             /\ [txid |-> t, vout |-> m] \notin OutPlaces(t, m)
  <2>1. 1..(m + 1) = 1..m \cup {m + 1} /\ (m + 1) - 1 = m
    OBVIOUS
  <2>2. \A k \in 1..m : k - 1 # m
    OBVIOUS
  <2> QED BY <2>1, <2>2 DEF OutPlaces
<1>2. OutPlaces(t, 0) = {}
  BY DEF OutPlaces
<1>3. 0 \in T
  BY <1>2, FS_EmptySet
<1>4. ASSUME NEW m \in Nat, m \in T PROVE m + 1 \in T
  <2>1. IsFiniteSet(OutPlaces(t, m) \cup {[txid |-> t, vout |-> m]})
    BY <1>4, FS_AddElement
  <2>2. IsFiniteSet(OutPlaces(t, m + 1))
    BY <1>1, <2>1
  <2> QED BY <2>2
<1>5. Nat \subseteq T
  <2> HIDE DEF T
  <2> QED BY <1>3, <1>4, NatSetInduction
<1> QED BY <1>1, <1>2, <1>5

\* The outputs of a transaction hold what is written in a list of amounts.
LEMMA TotalOfPlaces ==
  ASSUME NEW ch, NEW t, NEW S, NEW list \in Seq(S), \A x \in S : x.satoshis \in Nat,
         \A k \in 1..Len(list) :
            Amount(ch, [txid |-> t, vout |-> k - 1]) = list[k].satoshis
  PROVE  Total(ch, OutPlaces(t, Len(list))) = SumSatoshis(list)
<1> DEFINE n == Len(list)
<1>1. PICK f : IsUpTo(f, list, n) /\ SumSatoshis(list) = f[n]
  BY SumIsLastPartialSum
<1>2. n \in Nat /\ \A k \in 1..n : list[k].satoshis \in Nat
  BY LenProperties, ElementOfSeq
<1>3. /\ \A k \in 0..n : f[k] = IF k = 0 THEN 0 ELSE f[k - 1] + list[k].satoshis
      /\ \A k \in 1..n : Amount(ch, [txid |-> t, vout |-> k - 1]) = list[k].satoshis
  BY <1>1 DEF IsUpTo
<1> HIDE DEF n
<1> DEFINE T == {m \in Nat : m <= n => /\ Total(ch, OutPlaces(t, m)) = f[m]
                                       /\ Total(ch, OutPlaces(t, m)) \in Nat
                                       /\ \A op \in OutPlaces(t, m) : Amount(ch, op) \in Nat}
<1>4. 0 \in T
  <2>1. f[0] = 0
    BY <1>2, <1>3
  <2>2. OutPlaces(t, 0) = {}
    BY PlacesNext
  <2>3. Total(ch, OutPlaces(t, 0)) = 0
    BY <2>2, TotalEmpty
  <2> QED BY <2>1, <2>2, <2>3
<1>5. ASSUME NEW m \in Nat, m \in T PROVE m + 1 \in T
  <2> DEFINE place == [txid |-> t, vout |-> m]
  <2>1. SUFFICES ASSUME m + 1 <= n
                 PROVE  /\ Total(ch, OutPlaces(t, m + 1)) = f[m + 1]
                        /\ Total(ch, OutPlaces(t, m + 1)) \in Nat
                        /\ \A op \in OutPlaces(t, m + 1) : Amount(ch, op) \in Nat
    OBVIOUS
  <2>2. /\ m + 1 \in 1..n /\ m + 1 \in 0..n /\ (m + 1) - 1 = m /\ m + 1 # 0
        /\ Total(ch, OutPlaces(t, m)) = f[m] /\ f[m] \in Nat
        /\ \A op \in OutPlaces(t, m) : Amount(ch, op) \in Nat
    BY <1>2, <1>5, <2>1
  <2>3. f[m + 1] = f[m] + list[m + 1].satoshis
    BY <1>3, <2>2
  <2>4. Amount(ch, place) = list[m + 1].satoshis /\ Amount(ch, place) \in Nat
    BY <1>2, <1>3, <2>2
  <2> HIDE DEF place
  <2>5. /\ IsFiniteSet(OutPlaces(t, m)) /\ place \notin OutPlaces(t, m)
        /\ OutPlaces(t, m + 1) = OutPlaces(t, m) \cup {place}
    BY PlacesNext DEF place
  <2>6. /\ IsFiniteSet({place}) /\ OutPlaces(t, m) \cap {place} = {}
        /\ \A op \in OutPlaces(t, m) \cup {place} : Amount(ch, op) \in Nat
    BY <2>2, <2>4, <2>5, FS_Singleton
  <2>7. Total(ch, OutPlaces(t, m) \cup {place})
          = Total(ch, OutPlaces(t, m)) + Total(ch, {place})
    BY <2>5, <2>6, TotalUnion
  <2>8. Total(ch, {place}) = Amount(ch, place)
    BY <2>4, TotalOfOne
  <2>9. Total(ch, OutPlaces(t, m + 1)) = f[m] + list[m + 1].satoshis
    BY <2>2, <2>4, <2>5, <2>7, <2>8
  <2>10. f[m] + list[m + 1].satoshis \in Nat
    BY <2>2, <2>4
  <2>11. \A op \in OutPlaces(t, m + 1) : Amount(ch, op) \in Nat
    BY <2>5, <2>6
  <2> QED BY <2>3, <2>9, <2>10, <2>11
<1>6. Nat \subseteq T
  <2> HIDE DEF T
  <2> QED BY <1>4, <1>5, NatSetInduction
<1>7. Total(ch, OutPlaces(t, n)) = f[n]
  BY <1>2, <1>6
<1> QED BY <1>1, <1>7 DEF n

\* An output of the chain holds a natural amount.
LEMMA AmountType ==
  ASSUME NEW ch \in Seq(Txs), NEW op \in Created(ch)
  PROVE  Amount(ch, op) \in Nat
  BY CreatedType DEF Amount, OutputOf, Outputs

\* The outputs of all owners are all outputs.
LEMMA OwnersAddUp ==
  ASSUME NEW ch \in Seq(Txs), NEW ops, ops \subseteq Created(ch), IsFiniteSet(ops),
         IsFiniteSet(Keys), NEW bal, DOMAIN bal = Keys,
         \A k \in Keys : bal[k] = Total(ch, {op \in ops : OutputOf(ch, op).pkh = k})
  PROVE  SumFunction(bal) = Total(ch, ops)
<1> DEFINE owner == [op \in ops |-> OutputOf(ch, op).pkh]
<1>1. \A op \in ops : Amount(ch, op) \in Nat
  BY AmountType
<1>2. \A op \in ops : owner[op] \in Keys
  BY CreatedType DEF OutputOf, Outputs
<1>3. \A k \in Keys : ClassOf(ops, owner, k) = {op \in ops : OutputOf(ch, op).pkh = k}
  BY DEF ClassOf
<1> HIDE DEF owner
<1>4. \A k \in Keys : bal[k] = Total(ch, ClassOf(ops, owner, k))
  BY <1>3
<1>5. SumFunctionOnSet(bal, Keys) = Total(ch, ops)
  BY <1>1, <1>2, <1>4, TotalOfClasses
<1>6. SumFunction(bal) = SumFunctionOnSet(bal, DOMAIN bal)
  BY Zenon DEF SumFunction, SumFunctionOnSet, FoldFunction, FoldFunctionOnSet
<1> QED BY <1>5, <1>6

-----------------------------------------------------------------------------
(* Types of what the builders return *)

\* A payment: none or one UTXO.
IsPay(pay) == pay = <<>> \/ \E v \in UtxoRecords : pay = <<v>>

LEMMA UtxoSeqType ==
  ASSUME NEW utxos \in Seq(UtxoRecords)
  PROVE  /\ Ops(utxos) \in Seq(Outpoints)
         /\ Outs(utxos) \in Seq(Outputs)
         /\ PlainUnlocks(utxos) \in Seq(Unlocks)
         /\ SumSatoshis(Outs(utxos)) \in Nat
<1> DEFINE n == Len(utxos)
<1>1. n \in Nat /\ DOMAIN utxos = 1..n /\ \A i \in 1..n : utxos[i] \in UtxoRecords
  BY LenProperties, ElementOfSeq
<1>2. /\ Ops(utxos) \in [1..n -> Outpoints]
      /\ Outs(utxos) \in [1..n -> Outputs]
      /\ PlainUnlocks(utxos) \in [1..n -> Unlocks]
  BY <1>1 DEF Ops, Outs, PlainUnlocks, UtxoRecords, Unlocks
<1>3. /\ Ops(utxos) \in Seq(Outpoints)
      /\ Outs(utxos) \in Seq(Outputs)
      /\ PlainUnlocks(utxos) \in Seq(Unlocks)
  BY <1>1, <1>2, FunctionIsSeq
<1>4. \A x \in Outputs : x.satoshis \in Nat
  BY DEF Outputs
<1> QED BY <1>3, <1>4, SumSatoshisType

LEMMA PayType ==
  ASSUME NEW pay, IsPay(pay)
  PROVE  /\ pay \in Seq(UtxoRecords)
         /\ Ops(pay) \in Seq(Outpoints)
         /\ Outs(pay) \in Seq(Outputs)
         /\ PlainUnlocks(pay) \in Seq(Unlocks)
         /\ SumSatoshis(Outs(pay)) \in Nat
<1>1. pay \in Seq(UtxoRecords)
  BY SingletonSeq, EmptySeq DEF IsPay
<1> QED BY <1>1, UtxoSeqType

\* One token input, its payment, typed outputs and segments.
LEMMA ChangeType ==
  ASSUME NEW pay, IsPay(pay), ChangeCovered(pay)
  PROVE  /\ ChangeOutputs(pay) \in Seq(Outputs)
         /\ ChangeSegments(pay) \in Seq(Segments)
<1>1. CASE pay = <<>>
  BY <1>1, EmptySeq DEF ChangeOutputs, ChangeSegments
<1>2. CASE pay # <<>>
  <2>1. PICK v \in UtxoRecords : pay = <<v>>
    BY <1>2 DEF IsPay
  <2>2. pay[1].out.pkh \in Keys
    BY <2>1 DEF UtxoRecords, Outputs
  <2>3. ChangeSatoshis(pay) \in Nat
    BY <1>2, PayType, FeeAssumption DEF ChangeSatoshis, ChangeCovered
  <2>4. /\ P2pkhOut(pay[1].out.pkh, ChangeSatoshis(pay)) \in Outputs
        /\ Segment(pay[1].out.pkh, ChangeSatoshis(pay)) \in Segments
    BY <2>2, <2>3 DEF P2pkhOut, Segment, Outputs, Segments
  <2> QED BY <1>2, <2>4, SingletonSeq DEF ChangeOutputs, ChangeSegments
<1> QED BY <1>1, <1>2

LEMMA UnlockType ==
  ASSUME NEW pay, IsPay(pay), NEW segments \in Seq(Segments)
  PROVE  /\ partialSTASUnlockingScript(segments, pay) \in Unlocks
         /\ \A other \in Outpoints, n \in Nat :
               partialStasMergeScript(segments, pay, other, n) \in Unlocks
<1>1. NilSegment \in Segments
  BY DEF NilSegment, Segment, Segments
<1>2. Append(segments, NilSegment) \in Seq(Segments)
  BY <1>1, AppendProperties
<1>3. Funding(pay) \in Outpoints \cup [txid: {0}, vout: Nat]
  <2>1. CASE pay = <<>>
    BY <2>1 DEF Funding, NoOutpoint
  <2>2. CASE pay # <<>>
    <3>1. PICK v \in UtxoRecords : pay = <<v>>
      BY <2>2 DEF IsPay
    <3>2. pay[1].op \in Outpoints
      BY <3>1 DEF UtxoRecords
    <3> QED BY <2>2, <3>2 DEF Funding, reverseEndian, Outpoints
  <2> QED BY <2>1, <2>2
<1> QED BY <1>2, <1>3
        DEF partialSTASUnlockingScript, partialStasMergeScript, Unlocks, NoOutpoint

LEMMA BasicTxType ==
  ASSUME NEW u \in UtxoRecords, NEW pay, IsPay(pay), ChangeCovered(pay),
         NEW outs \in Seq(Outputs), NEW segments \in Seq(Segments)
  PROVE  BasicTx(u, outs, segments, pay) \in BuiltTxs
<1>1. <<u.op>> \o Ops(pay) \in Seq(Outpoints)
  <2>1. <<u.op>> \in Seq(Outpoints)
    BY SingletonSeq DEF UtxoRecords
  <2> QED BY <2>1, PayType, ConcatProperties
<1>2. outs \o ChangeOutputs(pay) \in Seq(Outputs)
  BY ChangeType, ConcatProperties
<1>3. segments \o ChangeSegments(pay) \in Seq(Segments)
  BY ChangeType, ConcatProperties
<1>4. <<partialSTASUnlockingScript(segments \o ChangeSegments(pay), pay)>>
        \o PlainUnlocks(pay) \in Seq(Unlocks)
  <2>1. partialSTASUnlockingScript(segments \o ChangeSegments(pay), pay) \in Unlocks
    BY <1>3, UnlockType
  <2>2. <<partialSTASUnlockingScript(segments \o ChangeSegments(pay), pay)>>
          \in Seq(Unlocks)
    BY <2>1, SingletonSeq
  <2> QED BY <2>2, PayType, ConcatProperties
<1> QED BY <1>1, <1>2, <1>4 DEF BasicTx, BuiltTxs

LEMMA StasOutputsType ==
  ASSUME NEW tok \in Tokens \cup {NoTok}, NEW dests \in Seq(Destinations)
  PROVE  /\ StasOutputs(tok, dests) \in Seq(Outputs)
         /\ dests \in Seq(Segments)
<1>1. /\ Len(dests) \in Nat /\ DOMAIN dests = 1..Len(dests)
      /\ \A k \in 1..Len(dests) : dests[k] \in Destinations
  BY LenProperties, ElementOfSeq
<1>2. StasOutputs(tok, dests) \in [1..Len(dests) -> Outputs]
  BY <1>1 DEF StasOutputs, StasOut, Outputs, Destinations
<1>3. Destinations \subseteq Segments
  BY DEF Destinations, Segments
<1> QED BY <1>1, <1>2, <1>3, FunctionIsSeq, SeqMonotonic

LEMMA TransferType ==
  ASSUME NEW u \in UtxoRecords, NEW dest \in Keys, NEW pay, IsPay(pay),
         transferGuards(u, dest, pay)
  PROVE  transferTx(u, dest, pay) \in BuiltTxs
<1>1. /\ StasOut(dest, u.out.tok, u.out.satoshis) \in Outputs
      /\ Segment(dest, u.out.satoshis) \in Segments
  BY DEF UtxoRecords, Outputs, StasOut, Segment, Segments
<1> QED BY <1>1, SingletonSeq, BasicTxType DEF transferTx, transferGuards

LEMMA SplitType ==
  ASSUME NEW u \in UtxoRecords, NEW dests \in Seq(Destinations),
         NEW pay, IsPay(pay), splitGuards(u, dests, pay)
  PROVE  splitTx(u, dests, pay) \in BuiltTxs
<1>1. u.out.tok \in Tokens \cup {NoTok}
  BY DEF UtxoRecords, Outputs
<1> QED BY <1>1, StasOutputsType, BasicTxType DEF splitTx, splitGuards

LEMMA RedeemType ==
  ASSUME NEW u \in UtxoRecords, NEW key \in Keys, NEW pay, IsPay(pay),
         redeemGuards(pay)
  PROVE  redeemTx(u, key, pay) \in BuiltTxs
<1>1. /\ P2pkhOut(key, u.out.satoshis) \in Outputs
      /\ Segment(key, u.out.satoshis) \in Segments
  BY DEF UtxoRecords, Outputs, P2pkhOut, Segment, Segments
<1> QED BY <1>1, SingletonSeq, BasicTxType DEF redeemTx, redeemGuards

LEMMA RedeemSplitType ==
  ASSUME NEW u \in UtxoRecords, NEW key \in Keys, NEW dests \in Seq(Destinations),
         NEW pay, IsPay(pay), redeemSplitGuards(u, dests, pay)
  PROVE  redeemSplitTx(u, key, dests, pay) \in BuiltTxs
<1>1. u.out.tok \in Tokens \cup {NoTok} /\ u.out.satoshis \in Nat
  BY DEF UtxoRecords, Outputs
<1>2. SumSatoshis(dests) \in Nat
  <2>1. \A x \in Destinations : x.satoshis \in Nat
    BY DEF Destinations
  <2> QED BY <2>1, SumSatoshisType
<1>3. redeemSats(u, dests) \in Nat
  BY <1>1, <1>2 DEF redeemSats, redeemSplitGuards
<1>4. /\ P2pkhOut(key, redeemSats(u, dests)) \in Outputs
      /\ Segment(key, redeemSats(u, dests)) \in Segments
  BY <1>3 DEF Outputs, P2pkhOut, Segment, Segments
<1>5. /\ <<P2pkhOut(key, redeemSats(u, dests))>> \in Seq(Outputs)
      /\ <<Segment(key, redeemSats(u, dests))>> \in Seq(Segments)
  BY <1>4, SingletonSeq
<1>6. /\ <<P2pkhOut(key, redeemSats(u, dests))>> \o StasOutputs(u.out.tok, dests)
           \in Seq(Outputs)
      /\ <<Segment(key, redeemSats(u, dests))>> \o dests \in Seq(Segments)
  BY <1>1, <1>5, StasOutputsType, ConcatProperties
<1> QED BY <1>6, BasicTxType DEF redeemSplitTx, redeemSplitGuards

\* The serialised parent has finitely many copies of the token's script tail.
LEMMA CopiesType ==
  ASSUME NEW ch \in Seq(Txs), NEW op \in Created(ch), NEW tok
  PROVE  Cardinality(TailCopies(ch, op.txid, tok)) \in Nat
<1> DEFINE tx == ch[op.txid]
           copies == TailCopies(ch, op.txid, tok)
<1>1. tx \in Txs
  BY CreatedType
<1>2. PICK n \in Nat, k \in Nat : DOMAIN tx.outs = 1..n /\ DOMAIN tx.ins = 1..k
  BY <1>1, LenProperties DEF Txs
<1>3. copies \subseteq {"out", "in"} \X (1..(n + k))
  <2>1. 1..n \subseteq 1..(n + k) /\ 1..k \subseteq 1..(n + k)
    OBVIOUS
  <2>2. ASSUME NEW x \in copies PROVE x \in {"out", "in"} \X (1..(n + k))
    <3>1. (\E i \in 1..n : x = <<"out", i>>) \/ (\E i \in 1..k : x = <<"in", i>>)
      BY <1>2, <2>2, Zenon DEF TailCopies
    <3>2. CASE \E i \in 1..n : x = <<"out", i>>
      BY <2>1, <3>2
    <3>3. CASE \E i \in 1..k : x = <<"in", i>>
      BY <2>1, <3>3
    <3> QED BY <3>1, <3>2, <3>3
  <2> QED BY <2>2
<1>4. IsFiniteSet({"out", "in"} \X (1..(n + k)))
  <2>1. IsFiniteSet(1..(n + k))
    <3>1. 1 \in Int /\ n + k \in Int
      OBVIOUS
    <3> QED BY <3>1, FS_Interval
  <2>2. IsFiniteSet({"out", "in"})
    <3>1. {"out", "in"} = {"out"} \cup {"in"}
      OBVIOUS
    <3>2. IsFiniteSet({"out"})
      BY FS_Singleton
    <3>3. IsFiniteSet({"out"} \cup {"in"})
      BY <3>2, FS_AddElement
    <3> QED BY <3>1, <3>3
  <2> QED BY <2>1, <2>2, FS_Product
<1>5. Cardinality(copies) \in Nat
  BY <1>3, <1>4, FS_Subset, FS_CardinalityType
<1> QED BY <1>5

LEMMA PiecesType ==
  ASSUME NEW ch \in Seq(Txs), NEW u \in UtxoRecords, u.op \in Created(ch)
  PROVE  Pieces(ch, u) \in Nat
<1>1. Cardinality(TailCopies(ch, u.op.txid, u.out.tok)) \in Nat
  BY CopiesType
<1> QED BY <1>1 DEF Pieces, numberOfPieces

LEMMA MergeTxType ==
  ASSUME NEW ch \in Seq(Txs), NEW u1 \in UtxoRecords, NEW u2 \in UtxoRecords,
         u1.op \in Created(ch), u2.op \in Created(ch),
         NEW dests \in Seq(Destinations), NEW pay, IsPay(pay), ChangeCovered(pay)
  PROVE  MergeTxOf(ch, u1, u2, dests, pay) \in BuiltTxs
<1>1. <<u1.op, u2.op>> \o Ops(pay) \in Seq(Outpoints)
  <2>1. <<u1.op, u2.op>> \in Seq(Outpoints)
    BY DEF UtxoRecords
  <2> QED BY <2>1, PayType, ConcatProperties
<1>2. StasOutputs(u1.out.tok, dests) \o ChangeOutputs(pay) \in Seq(Outputs)
  BY StasOutputsType, ChangeType, ConcatProperties DEF UtxoRecords, Outputs
<1>3. dests \o ChangeSegments(pay) \in Seq(Segments)
  BY StasOutputsType, ChangeType, ConcatProperties DEF UtxoRecords, Outputs
<1>4. ASSUME NEW o \in UtxoRecords, o.op \in Created(ch)
      PROVE  partialStasMergeScript(dests \o ChangeSegments(pay), pay, o.op,
                                    Pieces(ch, o)) \in Unlocks
  BY <1>3, <1>4, PiecesType, UnlockType DEF UtxoRecords
<1>5. MergeTxOf(ch, u1, u2, dests, pay).unlock \in Seq(Unlocks)
  <2> DEFINE Un(o) == partialStasMergeScript(dests \o ChangeSegments(pay), pay, o.op,
                                             Pieces(ch, o))
  <2>1. Un(u2) \in Unlocks /\ Un(u1) \in Unlocks
    BY <1>4
  <2> HIDE DEF Un
  <2>2. <<Un(u2), Un(u1)>> \in Seq(Unlocks)
    BY <2>1
  <2>3. <<Un(u2), Un(u1)>> \o PlainUnlocks(pay) \in Seq(Unlocks)
    BY <2>2, PayType, ConcatProperties
  <2> QED BY <2>3 DEF MergeTxOf, Un
<1> QED BY <1>1, <1>2, <1>5 DEF MergeTxOf, BuiltTxs

LEMMA IssueType ==
  ASSUME NEW u \in UtxoRecords, NEW info \in Seq(IssueInfos), NEW pay, IsPay(pay),
         NEW isSplittable \in BOOLEAN, NEW symbol \in Symbols,
         issueGuards(u, info, pay, symbol)
  PROVE  issueTx(u, info, pay, isSplittable, symbol) \in BuiltTxs
<1> DEFINE tx == issueTx(u, info, pay, isSplittable, symbol)
           Issued == [k \in DOMAIN info |->
                        StasOut(info[k].addr,
                                [red |-> u.out.pkh, symbol |-> symbol,
                                 isSplittable |-> isSplittable, data |-> info[k].data],
                                info[k].satoshis)]
<1>1. ChangeCovered(pay)
  BY DEF issueGuards
<1>2. /\ Len(info) \in Nat /\ DOMAIN info = 1..Len(info)
      /\ \A k \in 1..Len(info) : info[k] \in IssueInfos
  BY LenProperties, ElementOfSeq
<1>3. Issued \in [1..Len(info) -> Outputs]
  BY <1>2 DEF StasOut, Outputs, IssueInfos, UtxoRecords, Tokens
<1>4. Issued \o ChangeOutputs(pay) \in Seq(Outputs)
  BY <1>1, <1>2, <1>3, FunctionIsSeq, ChangeType, ConcatProperties
<1>5. <<u.op>> \o Ops(pay) \in Seq(Outpoints)
  <2>1. <<u.op>> \in Seq(Outpoints)
    BY SingletonSeq DEF UtxoRecords
  <2> QED BY <2>1, PayType, ConcatProperties
<1>6. <<PlainUnlock>> \o PlainUnlocks(pay) \in Seq(Unlocks)
  <2>1. <<PlainUnlock>> \in Seq(Unlocks)
    BY SingletonSeq DEF Unlocks
  <2> QED BY <2>1, PayType, ConcatProperties
<1> QED BY <1>4, <1>5, <1>6 DEF issueTx, BuiltTxs

LEMMA ContractType ==
  ASSUME NEW inputs \in Seq(UtxoRecords), NEW pay, IsPay(pay),
         NEW symbol \in Symbols, NEW data \in Data,
         NEW perToken \in Nat, NEW amount \in Nat,
         contractGuards(inputs, pay, perToken, amount)
  PROVE  contractTx(inputs, pay, symbol, data, amount) \in BuiltTxs
<1> DEFINE change == contractChange(inputs, pay, amount)
           schema == [red |-> inputs[1].out.pkh, symbol |-> symbol,
                      isSplittable |-> TRUE, data |-> data]
           backed == [kind |-> "contract", pkh |-> inputs[1].out.pkh, tok |-> schema,
                      satoshis |-> amount]
<1>1. inputs[1].out.pkh \in Keys
  <2>1. inputs # <<>> /\ 1 \in 1..Len(inputs)
    BY LenProperties, EmptySeq DEF contractGuards
  <2>2. inputs[1] \in UtxoRecords
    BY <2>1, ElementOfSeq
  <2> QED BY <2>2 DEF UtxoRecords, Outputs
<1>2. change \in Outputs
  <2>1. /\ SumSatoshis(Outs(inputs)) \in Nat /\ SumSatoshis(Outs(pay)) \in Nat
        /\ Fee \in Nat /\ change.satoshis >= 0
    BY UtxoSeqType, PayType, FeeAssumption DEF contractGuards
  <2>2. CASE pay = <<>>
    BY <1>1, <2>1, <2>2 DEF contractChange, P2pkhOut, Outputs
  <2>3. CASE pay # <<>>
    <3>1. pay[1].out.pkh \in Keys
      BY <2>3 DEF IsPay, UtxoRecords, Outputs
    <3> QED BY <2>1, <2>3, <3>1 DEF contractChange, P2pkhOut, Outputs
  <2> QED BY <2>2, <2>3
<1>3. backed \in Outputs
  BY <1>1 DEF Outputs, Tokens
<1>4. <<backed, change>> \in Seq(Outputs)
  <2> HIDE DEF backed, change
  <2> QED BY <1>2, <1>3
<1>5. /\ Ops(inputs) \o Ops(pay) \in Seq(Outpoints)
      /\ PlainUnlocks(inputs) \o PlainUnlocks(pay) \in Seq(Unlocks)
  BY UtxoSeqType, PayType, ConcatProperties
<1> QED BY <1>4, <1>5 DEF contractTx, BuiltTxs

=============================================================================
