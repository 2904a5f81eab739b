--------------------------- MODULE FeeEstimateProofs ---------------------------
(***************************************************************************)
(* The fee pays for the final transaction, whatever the sizes of scripts   *)
(* and however long the chain of merges and swaps behind a token.          *)
(***************************************************************************)
EXTENDS FeeEstimate, TLAPS

\* A length prefix takes one to five bytes.
LEMMA PrefixBounds ==
    ASSUME NEW n \in Nat
    PROVE  VarInt(n) \in 1..5 /\ PushHeader(n) \in 1..5
BY DEF VarInt, PushHeader

\* From 256 bytes on the prefix of a script and the one of a push are as long.
LEMMA LongPrefix ==
    ASSUME NEW n \in Nat, n >= 256
    PROVE  PushHeader(n) = VarInt(n)
BY DEF VarInt, PushHeader

\* One output more makes the prefix of their number longer at 252 only, or
\* where nobody can count so many.
LEMMA CountPrefix ==
    ASSUME NEW n \in Nat
    PROVE  /\ n # 252 /\ n # 65535 => VarInt(n + 1) = VarInt(n)
           /\ VarInt(n + 1) <= VarInt(n) + 2
BY DEF VarInt

\* Rounding up never loses: an estimate that covers the size, pays for it.
LEMMA FeePays ==
    ASSUME NEW estimate \in Nat, NEW size \in Int, size <= estimate
    PROVE  fee(estimate) * PerByte >= size * Sats
<1> DEFINE q == (estimate * 50 + 999) \div 1000
<1>1. q \in Int /\ estimate * 50 + 999 <= q * 1000 + 999
  BY SMT
<1> QED
  BY <1>1 DEF fee, Sats, PerByte

-----------------------------------------------------------------------------
(* What is known of the transactions a token comes from *)

\* Enough bytes are left when the copies of the script tail are cut out: every
\* copy has a header and 23 bytes before it.
Roomy(n, tx) ==
    /\ tx \in [size: Nat, copies: Nat, nesting: Nat, mergeable: BOOLEAN]
    /\ tx.mergeable => Rest(n, tx) >= 90 + 4 * tx.copies

IInv ==
    /\ script \in ScriptSizes
    /\ DOMAIN parents = 1..2
    /\ \A i \in 1..2 : Roomy(script, parents[i])
    /\ FeeCoversSize

LEMMA IssueRoomy ==
    ASSUME NEW n \in Nat, n >= 1432, NEW count \in Nat \ {0}
    PROVE  Roomy(n, IssueParent(n, count))
<1> DEFINE outputs == count * (8 + VarInt(n) + n)
           v == VarInt(count + 1)
           size == 4 + 1 + 2 * 148 + v + (outputs + 34) + 4
<1>1. VarInt(n) \in 1..5 /\ v \in 1..5
  BY PrefixBounds
<1>2. VarInt(25) = 1 /\ VarInt(107) = 1
  BY DEF VarInt
<1>3. outputs = count * (8 + VarInt(n)) + count * n /\ count * n \in Nat
      /\ count * (8 + VarInt(n)) \in Nat /\ count * (8 + VarInt(n)) >= count * 8
  BY <1>1
<1>4. count * (n - 23) = count * n - count * 23
  BY SMT
<1>5. outputs \in Nat
  BY <1>3
<1>6. PlainSize(2, count, IssueOutputs(n, count)) = size
  BY <1>1, <1>2, <1>5 DEF PlainSize, IssueOutputs, TxBytes, Input, Output,
     ChangeOutput, P2PKH_LOCKING_SCRIPT_BYTES, P2PKH_UNLOCKING_SCRIPT_BYTES
<1>7. IssueParent(n, count) = [size |-> size, copies |-> count, nesting |-> 0,
                               mergeable |-> TRUE]
  BY ZenonT(60), <1>6 DEF IssueParent, ParentTx
<1>8. size \in Nat /\ size - count * (n - 23) >= 90 + 4 * count
  BY <1>1, <1>3, <1>4
<1> QED
  BY <1>7, <1>8 DEF Roomy, Rest, Tail

\* Three kinds of token transaction, their unlocking data as long as it must be.
LEMMA BasicRoomy ==
    ASSUME NEW n \in Nat, n >= 1432, NEW toks \in 0..4, NEW plain \in 0..1,
           NEW a \in 1..8, NEW f \in 1..5
    PROVE  Roomy(n, ParentTx(BasicSize(n, toks, plain, a, f), toks + 1, 0, TRUE))
<1> DEFINE unlock == BasicUnlock(n, toks + plain + 1, a, f)
           v == VarInt(n)
           size == BasicSize(n, toks, plain, a, f)
<1>1. v \in 1..5 /\ VarInt(toks + plain + 1) \in 1..5
  BY PrefixBounds
<1>2. VarInt(25) = 1 /\ VarInt(107) = 1
  BY DEF VarInt
<1>3. Preimage(n) \in Nat /\ Preimage(n) = 156 + v + n
  BY <1>1 DEF Preimage
<1>4. PushHeader(Preimage(n)) \in 1..5
  BY <1>3, PrefixBounds
<1>5. unlock \in Nat /\ unlock >= Preimage(n)
  BY <1>3, <1>4 DEF BasicUnlock, Segments, PushOf, P2PKH_UNLOCKING_SCRIPT_BYTES
<1>6. VarInt(unlock) \in 1..5
  BY <1>5, PrefixBounds
<1>7. toks \in {0, 1, 2, 3, 4} /\ plain \in {0, 1}
  OBVIOUS
<1>8. size = 4 + 1 + (40 + VarInt(unlock) + unlock + 148) + VarInt(toks + plain + 1)
               + (toks * (8 + v + n) + plain * 34 + 34) + 4
  BY <1>1, <1>2 DEF BasicSize, TxBytes, Input, BasicOutputs, Output, ChangeOutput,
     P2PKH_LOCKING_SCRIPT_BYTES, P2PKH_UNLOCKING_SCRIPT_BYTES
<1>9. size \in Nat /\ size - (toks + 1) * (n - 23) >= 90 + 4 * (toks + 1)
  <2> HIDE DEF unlock, v, size
  <2> QED
    BY <1>1, <1>3, <1>5, <1>6, <1>7, <1>8
<1> QED
  BY <1>9 DEF Roomy, Rest, Tail, ParentTx

\* Facts about one side of a merge.
LEMMA MergeUnlockSize ==
    ASSUME NEW n \in Nat, n >= 1432, NEW tx, Roomy(n, tx), tx.mergeable,
           NEW outCount \in 2..3, NEW a \in 1..8, NEW f \in 1..5
    PROVE  /\ Rest(n, tx) \in Nat /\ tx.copies \in Nat
           /\ MergeUnlock(n, tx, outCount, a, f) \in Nat
           /\ MergeUnlock(n, tx, outCount, a, f) >= Preimage(n)
           /\ MergeUnlock(n, tx, outCount, a, f)
                <= Rest(n, tx) + 5 * tx.copies
                     + (VarInt(Preimage(n)) + Preimage(n)) + 239
           /\ VarInt(MergeUnlock(n, tx, outCount, a, f)) \in 1..5
           /\ extraBytesForPieces(n, tx) = 2 * Rest(n, tx) + tx.copies + 8
<1> DEFINE r == Rest(n, tx)
           c == tx.copies
           h == PushHeader(r)
           pre == Preimage(n)
           unlock == MergeUnlock(n, tx, outCount, a, f)
<1>1. c \in Nat /\ tx.size \in Nat
  BY DEF Roomy
<1>2. c * (n - 23) \in Int
  BY <1>1
<1>3. r \in Nat
  BY <1>1, <1>2 DEF Roomy, Rest, Tail
<1>4. h \in 1..5
  BY <1>3, PrefixBounds
<1>5. pre \in Nat /\ pre >= 256
  <2>1. VarInt(n) \in 1..5
    BY PrefixBounds
  <2> QED
    BY <2>1 DEF Preimage
<1>6. PushHeader(pre) = VarInt(pre) /\ VarInt(pre) \in 1..5
  BY <1>5, LongPrefix, PrefixBounds
<1>7. h \in {1, 2, 3, 4, 5} /\ outCount \in {2, 3}
  BY <1>4
<1>8. unlock = outCount * (a + 21) + f + 33 + 1 + r + (c + 1) * h + 1
                 + (PushHeader(pre) + pre) + 107
  BY DEF MergeUnlock, Segments, PushOf, P2PKH_UNLOCKING_SCRIPT_BYTES
<1>9. unlock \in Nat /\ unlock >= pre /\ unlock <= r + 5 * c + (VarInt(pre) + pre) + 239
  <2> HIDE DEF unlock, r, c, h, pre
  <2> QED
    BY <1>1, <1>3, <1>5, <1>6, <1>7, <1>8
<1>10. VarInt(unlock) \in 1..5
  BY <1>9, PrefixBounds
<1>11. extraBytesForPieces(n, tx) = 2 * r + c + 8
  BY DEF extraBytesForPieces
<1> QED
  BY <1>1, <1>3, <1>9, <1>10, <1>11

\* The estimate of a merge counts the hexadecimal text of the pieces, twice what
\* they need: that is what pays for the second unlocking script's segments.
LEMMA MergeCovered ==
    ASSUME NEW n \in Nat, n >= 1432, NEW tx1, NEW tx2,
           Roomy(n, tx1), Roomy(n, tx2), tx1.mergeable, tx2.mergeable,
           NEW toks \in 1..2, NEW a \in 1..8, NEW f \in 1..5, NEW nesting \in Nat
    PROVE  LET size == MergeSize(n, tx1, tx2, toks, a, f)
               estimate == handleChangeForMerge(n, tx1, tx2, toks)
           IN /\ size \in Nat /\ estimate \in Nat /\ size <= estimate
              /\ Roomy(n, ParentTx(size, toks + 2, nesting, TRUE))
<1> DEFINE u1 == MergeUnlock(n, tx1, toks + 1, a, f)
           u2 == MergeUnlock(n, tx2, toks + 1, a, f)
           r1 == Rest(n, tx1)
           r2 == Rest(n, tx2)
           c1 == tx1.copies
           c2 == tx2.copies
           pre == Preimage(n)
           v == VarInt(n)
           w == VarInt(toks + 1)
           outputs == toks * (8 + v + n) + 34
           size == MergeSize(n, tx1, tx2, toks, a, f)
           estimate == handleChangeForMerge(n, tx1, tx2, toks)
<1>1. toks + 1 \in 2..3 /\ toks \in {1, 2}
  OBVIOUS
<1>2. /\ r1 \in Nat /\ u1 \in Nat /\ u1 >= pre /\ VarInt(u1) \in 1..5
      /\ u1 <= r1 + 5 * c1 + (VarInt(pre) + pre) + 239
      /\ extraBytesForPieces(n, tx1) = 2 * r1 + c1 + 8 /\ c1 \in Nat
  BY <1>1, MergeUnlockSize
<1>3. /\ r2 \in Nat /\ u2 \in Nat /\ u2 >= pre /\ VarInt(u2) \in 1..5
      /\ u2 <= r2 + 5 * c2 + (VarInt(pre) + pre) + 239
      /\ extraBytesForPieces(n, tx2) = 2 * r2 + c2 + 8 /\ c2 \in Nat
  BY <1>1, MergeUnlockSize
<1>4. r1 >= 90 + 4 * c1 /\ r2 >= 90 + 4 * c2
  BY DEF Roomy
<1>5. v \in 1..5 /\ w \in 1..5
  BY PrefixBounds
<1>6. pre = 156 + v + n /\ pre \in Nat
  BY <1>5 DEF Preimage
<1>7. VarInt(pre) \in 1..5
  BY <1>6, PrefixBounds
<1>8. VarInt(25) = 1 /\ VarInt(107) = 1 /\ VarInt(0) = 1
  BY DEF VarInt
<1>9. BasicOutputs(n, toks, 0) = outputs /\ outputs \in Nat
  BY <1>1, <1>5, <1>8 DEF BasicOutputs, Output, ChangeOutput, P2PKH_LOCKING_SCRIPT_BYTES
<1>10. size = 4 + 1 + ((40 + VarInt(u2) + u2) + (40 + VarInt(u1) + u1) + 148)
                + w + outputs + 4
  BY <1>8, <1>9 DEF MergeSize, TxBytes, Input, P2PKH_UNLOCKING_SCRIPT_BYTES
<1>11. estimate = 4 + 1 + 123 + w + outputs + 4 + 85
                    + (2 * r1 + c1 + 8) + (2 * r2 + c2 + 8)
                    + (VarInt(pre) + pre) * 2 + 107 + 214
  BY <1>2, <1>3, <1>5, <1>6, <1>7, <1>8, <1>9 DEF handleChangeForMerge, TxBytes,
     Input, P2PKH_UNLOCKING_SCRIPT_BYTES
<1> HIDE DEF u1, u2, r1, r2, c1, c2, pre, v, w, size, estimate
<1>12. size \in Nat /\ estimate \in Nat
  BY <1>2, <1>3, <1>5, <1>6, <1>7, <1>9, <1>10, <1>11
<1>13. size <= estimate
  <2>1. u1 + u2 + VarInt(u1) + VarInt(u2)
          <= r1 + r2 + 5 * c1 + 5 * c2 + 2 * (VarInt(pre) + pre) + 488
    BY <1>2, <1>3, <1>6, <1>7
  <2>2. r1 + r2 >= 180 + 4 * c1 + 4 * c2
    BY <1>2, <1>3, <1>4
  <2> QED
    BY <2>1, <2>2, <1>2, <1>3, <1>5, <1>6, <1>7, <1>9, <1>10, <1>11
<1>14. size - (toks + 2) * (n - 23) >= 90 + 4 * (toks + 2)
  BY <1>1, <1>2, <1>3, <1>5, <1>6, <1>10
<1>15. Roomy(n, ParentTx(size, toks + 2, nesting, TRUE))
  BY <1>12, <1>14 DEF Roomy, Rest, Tail, ParentTx
<1> QED
  BY ZenonT(60), <1>12, <1>13, <1>15 DEF size, estimate

-----------------------------------------------------------------------------
(* The other estimates *)

\* contract and issue forget that one output more may need a longer count.
LEMMA PlainCovered ==
    ASSUME NEW count \in Nat, NEW outputs \in Nat
    PROVE  /\ PlainSize(2, count, outputs) \in Nat
           /\ PlainEstimate(2, count, outputs) \in Nat
           /\ PlainSize(2, count, outputs) <= PlainEstimate(2, count, outputs) + 2
           /\ count \notin {252, 65535} =>
                PlainSize(2, count, outputs) <= PlainEstimate(2, count, outputs)
<1>1. VarInt(25) = 1 /\ VarInt(107) = 1 /\ VarInt(0) = 1
  BY DEF VarInt
<1>2. /\ VarInt(count) \in 1..5 /\ VarInt(count + 1) \in 1..5
      /\ VarInt(count + 1) <= VarInt(count) + 2
      /\ count \notin {252, 65535} => VarInt(count + 1) = VarInt(count)
  BY PrefixBounds, CountPrefix
<1> QED
  BY <1>1, <1>2 DEF PlainSize, PlainEstimate, TxBytes, Input, Output, ChangeOutput,
     P2PKH_LOCKING_SCRIPT_BYTES, P2PKH_UNLOCKING_SCRIPT_BYTES

LEMMA IssueCovered ==
    ASSUME NEW n \in Nat, NEW count \in Nat \ {0}
    PROVE  /\ PlainSize(2, count, IssueOutputs(n, count)) \in Nat
           /\ PlainEstimate(2, count, IssueOutputs(n, count)) \in Nat
           /\ PlainSize(2, count, IssueOutputs(n, count))
                <= PlainEstimate(2, count, IssueOutputs(n, count)) + 2
           /\ count \notin {252, 65535} =>
                PlainSize(2, count, IssueOutputs(n, count))
                  <= PlainEstimate(2, count, IssueOutputs(n, count))
<1> DEFINE outputs == IssueOutputs(n, count)
<1>1. Output(n) \in Nat
  BY PrefixBounds DEF Output
<1>2. outputs \in Nat
  BY <1>1 DEF IssueOutputs
<1> HIDE DEF outputs
<1>3. /\ PlainSize(2, count, outputs) \in Nat
      /\ PlainEstimate(2, count, outputs) \in Nat
      /\ PlainSize(2, count, outputs) <= PlainEstimate(2, count, outputs) + 2
      /\ count \notin {252, 65535} =>
           PlainSize(2, count, outputs) <= PlainEstimate(2, count, outputs)
  BY <1>2, PlainCovered
<1> QED
  BY <1>3 DEF outputs

\* Of the 28 bytes an output is given, its segment takes up to 29; what is left
\* over elsewhere is enough for five of them.
LEMMA BasicCovered ==
    ASSUME NEW n \in Nat, n >= 1432, NEW toks \in 0..4, NEW plain \in 0..1,
           toks + plain \in 1..4, NEW a \in 1..8, NEW f \in 1..5
    PROVE  /\ BasicSize(n, toks, plain, a, f) \in Nat
           /\ handleChange(n, toks, plain) \in Nat
           /\ BasicSize(n, toks, plain, a, f) <= handleChange(n, toks, plain)
<1> DEFINE count == toks + plain + 1
           pre == Preimage(n)
           unlock == BasicUnlock(n, count, a, f)
           w == VarInt(count)
           outputs == BasicOutputs(n, toks, plain)
           size == BasicSize(n, toks, plain, a, f)
           estimate == handleChange(n, toks, plain)
<1>1. VarInt(n) \in 1..5 /\ w \in 1..5 /\ count \in {2, 3, 4, 5}
  BY PrefixBounds
<1>2. VarInt(25) = 1 /\ VarInt(107) = 1 /\ VarInt(0) = 1
  BY DEF VarInt
<1>3. pre \in Nat /\ pre >= 256
  BY <1>1 DEF Preimage
<1>4. PushHeader(pre) = VarInt(pre) /\ VarInt(pre) \in 1..5
  BY <1>3, LongPrefix, PrefixBounds
<1>5. toks \in {0, 1, 2, 3, 4} /\ plain \in {0, 1}
  OBVIOUS
<1>6. outputs \in Nat
  BY <1>1, <1>2, <1>5 DEF BasicOutputs, Output, ChangeOutput, P2PKH_LOCKING_SCRIPT_BYTES
<1>7. unlock = count * (a + 21) + f + 33 + 1 + (VarInt(pre) + pre) + 107
  BY <1>4 DEF BasicUnlock, Segments, PushOf, P2PKH_UNLOCKING_SCRIPT_BYTES
<1>8. unlock \in Nat
  BY <1>1, <1>3, <1>4, <1>7
<1>9. VarInt(unlock) \in 1..5
  BY <1>8, PrefixBounds
<1>10. size = 4 + 1 + (40 + VarInt(unlock) + unlock + 148) + w + outputs + 4
  BY <1>2, <1>6 DEF BasicSize, TxBytes, Input, P2PKH_UNLOCKING_SCRIPT_BYTES
<1>11. estimate = 4 + 1 + 82 + w + outputs + 4 + 6 + count * 28 + 9 + 33
                    + VarInt(pre) + pre + 107 + 107
  BY <1>1, <1>2, <1>3, <1>4, <1>6 DEF handleChange, TxBytes, Input,
     P2PKH_UNLOCKING_SCRIPT_BYTES
<1> HIDE DEF pre, unlock, w, outputs, size, estimate
<1>12. unlock + VarInt(unlock) <= count * 28 + (VarInt(pre) + pre) + 156
  BY <1>1, <1>3, <1>4, <1>7, <1>9
<1>13. size \in Nat /\ estimate \in Nat /\ size <= estimate
  BY <1>1, <1>3, <1>4, <1>6, <1>8, <1>9, <1>10, <1>11, <1>12
<1> QED
  BY <1>13 DEF size, estimate

\* Sides of a swap, and what they need to be unlocked.
Sides(n) == {side \in [token: BOOLEAN, script: Nat, parent: Nat] :
                side.script = IF side.token THEN n ELSE 25}

LEMMA SwapUnlockSize ==
    ASSUME NEW n \in Nat, n >= 1432, NEW side \in Sides(n),
           NEW counterparty \in Sides(n), NEW a \in 1..8
    PROVE  /\ SwapUnlock(n, side, counterparty, a) \in Nat
           /\ VarInt(SwapUnlock(n, side, counterparty, a)) \in 1..5
           /\ side.token => SwapUnlock(n, side, counterparty, a)
                <= counterparty.parent + (VarInt(Preimage(n)) + Preimage(n)) + 235
<1> DEFINE pre == Preimage(n)
           unlock == SwapUnlock(n, side, counterparty, a)
<1>1. VarInt(n) \in 1..5
  BY PrefixBounds
<1>2. pre \in Nat /\ pre >= 256
  BY <1>1 DEF Preimage
<1>3. PushHeader(pre) = VarInt(pre) /\ VarInt(pre) \in 1..5
  BY <1>2, LongPrefix, PrefixBounds
<1>4. counterparty.parent \in Nat /\ side.token \in BOOLEAN
  BY DEF Sides
<1>5. PushHeader(counterparty.parent) \in 1..5
  BY <1>4, PrefixBounds
<1>6. unlock = IF side.token
                 THEN 3 * (a + 21) + 1 + 33 + 1
                        + (PushHeader(counterparty.parent) + counterparty.parent)
                        + 1 + (VarInt(pre) + pre) + 107
                 ELSE 107
  BY <1>3 DEF SwapUnlock, Segments, PushOf, P2PKH_UNLOCKING_SCRIPT_BYTES
<1> HIDE DEF pre, unlock
<1>7. unlock \in Nat /\ (side.token =>
            unlock <= counterparty.parent + (VarInt(pre) + pre) + 235)
  BY <1>2, <1>3, <1>4, <1>5, <1>6
<1>8. VarInt(unlock) \in 1..5
  BY <1>7, PrefixBounds
<1> QED
  BY <1>7, <1>8 DEF unlock, pre

LEMMA SwapSizeType ==
    ASSUME NEW n \in Nat, n >= 1432, NEW maker \in Sides(n), NEW taker \in Sides(n),
           NEW a \in 1..8, NEW form
    PROVE  /\ SwapSize(n, maker, taker, a) \in Nat
           /\ handleChangeForSwap(n, form, maker, taker) \in Nat
<1>1. /\ SwapUnlock(n, maker, taker, a) \in Nat
      /\ SwapUnlock(n, taker, maker, a) \in Nat
      /\ VarInt(SwapUnlock(n, maker, taker, a)) \in 1..5
      /\ VarInt(SwapUnlock(n, taker, maker, a)) \in 1..5
  BY SwapUnlockSize
<1>2. /\ maker.script \in Nat /\ taker.script \in Nat
      /\ maker.token \in BOOLEAN /\ taker.token \in BOOLEAN
      /\ maker.parent \in Nat /\ taker.parent \in Nat
  BY DEF Sides
<1>3. /\ VarInt(maker.script) \in 1..5 /\ VarInt(taker.script) \in 1..5
      /\ VarInt(25) \in 1..5 /\ VarInt(107) \in 1..5 /\ VarInt(0) \in 1..5
      /\ VarInt(3) \in 1..5 /\ VarInt(n) \in 1..5
  BY <1>2, PrefixBounds
<1>4. SwapOutputBytes(maker, taker) \in Nat
  BY <1>2, <1>3 DEF SwapOutputBytes, Output, ChangeOutput, P2PKH_LOCKING_SCRIPT_BYTES
<1>5. SwapSize(n, maker, taker, a) \in Nat
  BY <1>1, <1>3, <1>4 DEF SwapSize, TxBytes, Input, P2PKH_UNLOCKING_SCRIPT_BYTES
<1>6. Preimage(n) \in Nat
  BY <1>3 DEF Preimage
<1>7. VarInt(Preimage(n)) \in 1..5
  BY <1>6, PrefixBounds
<1>8. /\ StasInputs(maker, taker) \in 0..2
      /\ SwapExtra(form, maker) \in Nat /\ SwapExtra(form, taker) \in Nat
  BY <1>2 DEF StasInputs, SwapExtra
<1>9. \A u \in {0, 107} : Input(u) \in Nat
  BY <1>3 DEF Input
<1> DEFINE held == TakerHolds(form, taker)
<1>10. Input(held) \in Nat /\ Input(25) \in Nat
  <2>1. held \in {taker.script, 0}
    BY DEF TakerHolds
  <2> HIDE DEF held
  <2> QED BY <1>2, <1>3, <2>1 DEF Input
<1>11. StasInputs(maker, taker) \in {0, 1, 2}
  BY <1>8
<1>12. handleChangeForSwap(n, form, maker, taker) \in Nat
  <2> DEFINE u == IF form = "signed" THEN 107 ELSE 0
  <2>1. Input(u) \in Nat
    BY <1>9
  <2>2. handleChangeForSwap(n, form, maker, taker) =
          4 + 1 + (Input(u) + Input(held) + Input(25)) + VarInt(3)
            + SwapOutputBytes(maker, taker) + 4
            + StasInputs(maker, taker) * 222
            + SwapExtra(form, maker) + SwapExtra(form, taker)
            + StasInputs(maker, taker) * (VarInt(Preimage(n)) + Preimage(n))
            + (3 - StasInputs(maker, taker)) * 107
    BY <1>3, <1>4, <1>6, <1>7, <1>8, <1>10, <1>11, <2>1 DEF handleChangeForSwap, TxBytes,
       P2PKH_UNLOCKING_SCRIPT_BYTES, P2PKH_LOCKING_SCRIPT_BYTES
  <2> QED
    BY <2>1, <2>2, <1>3, <1>4, <1>6, <1>7, <1>8, <1>10, <1>11
<1> QED
  BY <1>5, <1>12

\* An unsigned offer of a token for a token: both parents are counted, and the
\* locking script that still lies in the taker's input pays for the rest.
LEMMA SwapCovered ==
    ASSUME NEW n \in Nat, n >= 1432, NEW maker \in Sides(n), NEW taker \in Sides(n),
           maker.token, taker.token, NEW a \in 1..8
    PROVE  SwapSize(n, maker, taker, a)
             <= handleChangeForSwap(n, "unsigned", maker, taker)
<1> DEFINE u1 == SwapUnlock(n, maker, taker, a)
           u2 == SwapUnlock(n, taker, maker, a)
           q == VarInt(Preimage(n)) + Preimage(n)
           outputs == SwapOutputBytes(maker, taker)
<1>1. /\ maker.script = n /\ taker.script = n
      /\ maker.parent \in Nat /\ taker.parent \in Nat
  BY DEF Sides
<1>2. /\ u1 \in Nat /\ VarInt(u1) \in 1..5 /\ u1 <= taker.parent + q + 235
      /\ u2 \in Nat /\ VarInt(u2) \in 1..5 /\ u2 <= maker.parent + q + 235
  BY SwapUnlockSize
<1>3. VarInt(25) = 1 /\ VarInt(107) = 1 /\ VarInt(0) = 1 /\ VarInt(n) \in 1..5
      /\ VarInt(3) = 1
  BY PrefixBounds DEF VarInt
<1>4. Preimage(n) \in Nat
  BY <1>3 DEF Preimage
<1>5. q \in Nat
  BY <1>4, PrefixBounds
<1>6. outputs \in Nat
  BY <1>1, <1>3 DEF SwapOutputBytes, Output, ChangeOutput, P2PKH_LOCKING_SCRIPT_BYTES
<1>7. SwapSize(n, maker, taker, a) =
        5 + ((40 + VarInt(u1) + u1) + (40 + VarInt(u2) + u2) + 148) + 1 + outputs + 4
  BY <1>2, <1>3, <1>6 DEF SwapSize, TxBytes, Input, P2PKH_UNLOCKING_SCRIPT_BYTES
<1>8. handleChangeForSwap(n, "unsigned", maker, taker) =
        5 + (41 + (40 + VarInt(n) + n) + 66) + 1 + outputs + 4
          + 444 + maker.parent + taker.parent + 2 * q + 107
  <2>1. StasInputs(maker, taker) = 2
    BY DEF StasInputs
  <2>2. /\ SwapExtra("unsigned", maker) = maker.parent
        /\ SwapExtra("unsigned", taker) = taker.parent
    BY DEF SwapExtra
  <2>3. TakerHolds("unsigned", taker) = n
    BY <1>1 DEF TakerHolds
  <2> QED
    BY <2>1, <2>2, <2>3, <1>1, <1>3, <1>5, <1>6 DEF handleChangeForSwap, TxBytes, Input,
       P2PKH_UNLOCKING_SCRIPT_BYTES, P2PKH_LOCKING_SCRIPT_BYTES
<1> HIDE DEF u1, u2, q, outputs
<1> QED
  BY <1>1, <1>2, <1>3, <1>5, <1>6, <1>7, <1>8

-----------------------------------------------------------------------------
(* The theorem *)

LEMMA InitInv == Init => IInv
<1> SUFFICES ASSUME Init PROVE IInv
  OBVIOUS
<1>1. script \in ScriptSizes /\ script \in Nat /\ script >= 1432
  BY ScriptAssumption DEF Init
<1>2. PICK count \in IssueCounts : parents = [i \in 1..2 |-> IssueParent(script, count)]
  BY DEF Init
<1>3. count \in Nat \ {0}
  BY CountsAssumption
<1>4. Roomy(script, IssueParent(script, count))
  BY <1>1, <1>3, IssueRoomy
<1>5. FeeCoversSize
  BY DEF Init, FeeCoversSize
<1> QED
  BY <1>1, <1>2, <1>4, <1>5 DEF IInv

\* A call whose estimate covers the size.
LEMMA CoveredStep ==
    ASSUME NEW op, NEW outCount, NEW estimate \in Nat, NEW size \in Nat,
           Estimated(op, outCount, estimate, size),
           op \in {"contract", "issue", "basic", "merge", "unsigned"} =>
             size - (IF op = "issue" /\ outCount \in {253, 65536} THEN 2 ELSE 0)
               <= estimate
    PROVE  FeeCoversSize'
<1>1. last' = [op |-> op, outCount |-> outCount, fee |-> fee(estimate), size |-> size]
  BY DEF Estimated
<1>2. CASE op \in {"contract", "issue", "basic", "merge", "unsigned"}
  <2> DEFINE paid == size - (IF op = "issue" /\ outCount \in {253, 65536} THEN 2 ELSE 0)
  <2>1. paid \in Int /\ paid <= estimate
    BY <1>2
  <2>2. fee(estimate) * PerByte >= paid * Sats
    BY <2>1, FeePays
  <2> QED
    BY <1>1, <2>2 DEF FeeCoversSize, RatePaid, UncountedBytes
<1>3. CASE op \notin {"contract", "issue", "basic", "merge", "unsigned"}
  BY <1>1, <1>3 DEF FeeCoversSize
<1> QED
  BY <1>2, <1>3

\* What TLC cannot enumerate: any script, any number of outputs, any nesting.
LEMMA NextInv == IInv /\ [Next]_vars => IInv'
<1> SUFFICES ASSUME IInv, [Next]_vars PROVE IInv'
  OBVIOUS
<1> DEFINE n == script
<1>1. n \in ScriptSizes /\ n \in Nat /\ n >= 1432
  BY ScriptAssumption DEF IInv
<1>2. /\ DOMAIN parents = 1..2
      /\ Roomy(n, parents[1]) /\ Roomy(n, parents[2])
  BY DEF IInv
<1>3. /\ \A i \in 1..2 : parents[i].size \in Nat
      /\ NextNesting \in Nat
  BY <1>2 DEF Roomy, NextNesting
<1>4. CASE Contract
  <2>1. PICK bytes \in SchemaSizes :
          /\ Estimated("contract", 2, PlainEstimate(2, 1, Output(bytes)),
                       PlainSize(2, 1, Output(bytes)))
          /\ UNCHANGED <<script, parents>>
    BY <1>4 DEF Contract
  <2>2. Output(bytes) \in Nat
    BY CountsAssumption, PrefixBounds DEF Output
  <2>3. FeeCoversSize'
    BY <2>1, <2>2, PlainCovered, CoveredStep
  <2> QED
    BY <2>1, <2>3 DEF IInv
<1>5. CASE Issue
  <2>1. PICK count \in IssueCounts :
          /\ Estimated("issue", count + 1,
                       PlainEstimate(2, count, IssueOutputs(n, count)),
                       PlainSize(2, count, IssueOutputs(n, count)))
          /\ parents' = [i \in 1..2 |-> IssueParent(n, count)]
          /\ UNCHANGED script
    BY <1>5 DEF Issue
  <2>2. count \in Nat \ {0}
    BY CountsAssumption
  <2>4. FeeCoversSize'
    <3>1. /\ PlainSize(2, count, IssueOutputs(n, count)) \in Nat
          /\ PlainEstimate(2, count, IssueOutputs(n, count)) \in Nat
          /\ PlainSize(2, count, IssueOutputs(n, count))
               <= PlainEstimate(2, count, IssueOutputs(n, count)) + 2
          /\ count \notin {252, 65535} =>
               PlainSize(2, count, IssueOutputs(n, count))
                 <= PlainEstimate(2, count, IssueOutputs(n, count))
      BY <1>1, <2>2, IssueCovered
    <3>2. count \in {252, 65535} <=> count + 1 \in {253, 65536}
      BY <2>2
    <3> QED
      BY <2>1, <3>1, <3>2, CoveredStep
  <2>5. Roomy(n, IssueParent(n, count))
    BY <1>1, <2>2, IssueRoomy
  <2> QED
    BY <1>1, <2>1, <2>4, <2>5 DEF IInv
<1>6. ASSUME NEW i \in 1..2, Basic(i)
      PROVE  IInv'
  <2>1. PICK toks \in 0..4, plain \in 0..1, a \in AmountBytes, f \in VoutBytes :
          /\ toks + plain \in 1..4
          /\ Estimated("basic", toks + plain + 1, handleChange(n, toks, plain),
                       BasicSize(n, toks, plain, a, f))
          /\ parents' = IF toks = 0 THEN parents
                        ELSE [parents EXCEPT ![i] =
                                ParentTx(BasicSize(n, toks, plain, a, f),
                                         toks + 1, 0, TRUE)]
          /\ UNCHANGED script
    BY <1>6 DEF Basic
  <2>2. a \in 1..8 /\ f \in 1..5
    BY PushAssumption
  <2>3. FeeCoversSize'
    BY SMTT(40), <1>1, <2>1, <2>2, BasicCovered, CoveredStep
  <2>4. Roomy(n, ParentTx(BasicSize(n, toks, plain, a, f), toks + 1, 0, TRUE))
    BY ZenonT(60), <1>1, <2>2, BasicRoomy
  <2>5. DOMAIN parents' = 1..2 /\ \A j \in 1..2 : Roomy(n, parents'[j])
    <3> DEFINE new == ParentTx(BasicSize(n, toks, plain, a, f), toks + 1, 0, TRUE)
    <3>1. parents' = parents \/ parents' = [parents EXCEPT ![i] = new]
      BY <2>1
    <3>2. Roomy(n, new)
      BY <2>4
    <3> HIDE DEF new
    <3> QED
      BY <1>2, <3>1, <3>2
  <2> QED
    BY ZenonT(60), <1>1, <2>1, <2>3, <2>5 DEF IInv
<1>7. CASE Merge
  <2>1. PICK toks \in 1..2, a \in AmountBytes, f \in VoutBytes :
          /\ parents[1].mergeable /\ parents[2].mergeable
          /\ Estimated("merge", toks + 1,
                       handleChangeForMerge(n, parents[1], parents[2], toks),
                       MergeSize(n, parents[1], parents[2], toks, a, f))
          /\ parents' = [i \in 1..2 |->
                            ParentTx(MergeSize(n, parents[1], parents[2], toks, a, f),
                                     toks + 2, NextNesting, TRUE)]
          /\ UNCHANGED script
    BY <1>7 DEF Merge
  <2>2. a \in 1..8 /\ f \in 1..5
    BY PushAssumption
  <2>3. LET size == MergeSize(n, parents[1], parents[2], toks, a, f)
            estimate == handleChangeForMerge(n, parents[1], parents[2], toks)
        IN /\ size \in Nat /\ estimate \in Nat /\ size <= estimate
           /\ Roomy(n, ParentTx(size, toks + 2, NextNesting, TRUE))
    BY ZenonT(60), <1>1, <1>2, <1>3, <2>1, <2>2, MergeCovered
  <2>4. FeeCoversSize'
    BY <2>1, <2>3, CoveredStep
  <2> QED
    BY ZenonT(60), <1>1, <2>1, <2>3, <2>4 DEF IInv
<1>8. ASSUME NEW form \in {"signed", "unsigned"}, NEW op,
             NEW maker \in Sides(n), NEW taker \in Sides(n),
             SwapOf(form, op, maker, taker),
             op \in {"native", form},
             op # "native" => maker.token /\ taker.token
      PROVE  IInv'
  <2>1. PICK a \in AmountBytes :
          /\ Estimated(op, 3, handleChangeForSwap(n, form, maker, taker),
                       SwapSize(n, maker, taker, a))
          /\ parents' = [i \in 1..2 |->
                            ParentTx(SwapSize(n, maker, taker, a), 1, NextNesting, FALSE)]
          /\ UNCHANGED script
    BY <1>8 DEF SwapOf
  <2>2. a \in 1..8
    BY PushAssumption
  <2>3. /\ SwapSize(n, maker, taker, a) \in Nat
        /\ handleChangeForSwap(n, form, maker, taker) \in Nat
    BY <1>1, <2>2, SwapSizeType
  <2>4. op = "unsigned" => SwapSize(n, maker, taker, a)
                             <= handleChangeForSwap(n, form, maker, taker)
    BY <1>1, <1>8, <2>2, SwapCovered
  <2>5. FeeCoversSize'
    BY <1>8, <2>1, <2>3, <2>4, CoveredStep
  <2>6. Roomy(n, ParentTx(SwapSize(n, maker, taker, a), 1, NextNesting, FALSE))
    BY <1>3, <2>3 DEF Roomy, ParentTx
  <2> QED
    BY ZenonT(60), <1>1, <2>1, <2>5, <2>6 DEF IInv
<1>9. ASSUME NEW form \in {"signed", "unsigned"},
             SwapTokens(form) \/ SwapForNative(form) \/ SwapForToken(form)
      PROVE  IInv'
  <2>1. \A i \in 1..2 : /\ TokenSide(n, parents[i]) \in Sides(n)
                         /\ TokenSide(n, parents[i]).token
    <3> TAKE i \in 1..2
    <3> DEFINE side == TokenSide(n, parents[i])
    <3>1. side = [token |-> TRUE, script |-> n, parent |-> parents[i].size]
      BY Zenon DEF TokenSide
    <3>2. side.token
      <4>1. side.token = TRUE
        BY <3>1, SMT
      <4> QED
        BY <4>1, Zenon
    <3>3. side \in [token: BOOLEAN, script: Nat, parent: Nat]
      BY <1>1, <1>3, <3>1
    <3>4. side.script = n
      BY <3>1
    <3> QED
      BY <3>2, <3>3, <3>4, Zenon DEF Sides
  <2>2. \A bytes \in NativeParents : NativeSide(bytes) \in Sides(n)
    BY CountsAssumption DEF NativeSide, Sides, P2PKH_LOCKING_SCRIPT_BYTES
  <2>3. CASE SwapTokens(form)
    BY <1>8, <2>1, <2>3 DEF SwapTokens
  <2>4. CASE SwapForNative(form)
    BY <1>8, <2>1, <2>2, <2>4 DEF SwapForNative
  <2>5. CASE SwapForToken(form)
    BY <1>8, <2>1, <2>2, <2>5 DEF SwapForToken
  <2> QED
    BY <1>9, <2>3, <2>4, <2>5
<1>10. CASE UNCHANGED vars
  BY <1>10 DEF vars, IInv, FeeCoversSize, RatePaid, UncountedBytes
<1> QED
  BY <1>4, <1>5, <1>6, <1>7, <1>9, <1>10 DEF Next

\* In every history the fee pays the configured rate for what is broadcast: for
\* all operations on one token, merges of any nesting, and swaps of two tokens
\* from an unsigned offer (handleChange and its variants).
THEOREM FeeSufficient == Spec => []FeeCoversSize
<1>1. Spec => []IInv
  BY InitInv, NextInv, PTL DEF Spec
<1>2. IInv => FeeCoversSize
  BY DEF IInv
<1> QED
  BY <1>1, <1>2, PTL
=============================================================================
