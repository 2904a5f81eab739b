---------------------------- MODULE SupplyProofs ----------------------------
(***************************************************************************)
(* No token satoshi of TokenLedger is lost or made, for every value of the *)
(* constants, and the ledger implements the abstract supply.  The first    *)
(* part follows the three amounts of a token, which are totals of sets of  *)
(* outputs, through a confirmed transaction; the second maps every step of *)
(* the ledger to one of the supply.                                        *)
(***************************************************************************)
EXTENDS TokenLedgerProofs

-----------------------------------------------------------------------------
(* The three amounts of a token *)

IssuedOps(tok) == {op \in TokenOutputs : ChainOutput(op).tok = tok /\ ~TokenTx(op.txid)}

HeldOps(tok) == {op \in Holdings : ChainOutput(op).tok = tok}

\* An output at the place of a redemption, in a transaction that spends tok.
Redeems(ch, op, tok) ==
    /\ ch[op.txid].outs # <<>>
    /\ OutputOf(ch, op).kind = "p2pkh" /\ OutputOf(ch, op).pkh = tok.red
    /\ \E i \in DOMAIN ch[op.txid].ins :
           IsStas(OutputOf(ch, ch[op.txid].ins[i]), tok)

FirstOf(t) == [txid |-> t, vout |-> 0]

RedeemedOps(ch, tok) == {op \in {FirstOf(t) : t \in DOMAIN ch} : Redeems(ch, op, tok)}

LEMMA AmountsAreTotals ==
  ASSUME NEW tok
  PROVE  /\ IssuedAmount(tok) = Total(chain, IssuedOps(tok))
         /\ OutstandingAmount(tok) = Total(chain, HeldOps(tok))
         /\ RedeemedAmount(tok) = Total(chain, RedeemedOps(chain, tok))
         /\ IssuedAmount(tok)' = Total(chain', IssuedOps(tok)')
         /\ OutstandingAmount(tok)' = Total(chain', HeldOps(tok)')
         /\ RedeemedAmount(tok)' = Total(chain', RedeemedOps(chain', tok))
<1>1. IssuedAmount(tok) = Total(chain, IssuedOps(tok))
  BY Zenon DEF IssuedAmount, IssuedOps, SumOver, Total,
               MapThenSumSet, MapThenFoldSet, ChainOutput, OutputOf
<1>2. IssuedAmount(tok)' = Total(chain', IssuedOps(tok)')
  BY Zenon DEF IssuedAmount, IssuedOps, SumOver, Total,
               MapThenSumSet, MapThenFoldSet, ChainOutput, OutputOf
<1>3. OutstandingAmount(tok) = Total(chain, HeldOps(tok))
  BY Zenon DEF OutstandingAmount, HeldOps, SumOver, Total,
               MapThenSumSet, MapThenFoldSet, ChainOutput, OutputOf
<1>4. OutstandingAmount(tok)' = Total(chain', HeldOps(tok)')
  BY Zenon DEF OutstandingAmount, HeldOps, SumOver, Total,
               MapThenSumSet, MapThenFoldSet, ChainOutput, OutputOf
<1>5. RedeemedAmount(tok) = Total(chain, RedeemedOps(chain, tok))
  BY Zenon DEF RedeemedAmount, RedeemedOps, Redeems, FirstOf, SumOver, Total,
               MapThenSumSet, MapThenFoldSet, ChainOutput, OutputOf
<1>6. RedeemedAmount(tok)' = Total(chain', RedeemedOps(chain', tok))
  BY Zenon DEF RedeemedAmount, RedeemedOps, Redeems, FirstOf, SumOver, Total,
               MapThenSumSet, MapThenFoldSet, ChainOutput, OutputOf
<1> QED BY <1>1, <1>2, <1>3, <1>4, <1>5, <1>6

-----------------------------------------------------------------------------
(* How a confirmed transaction moves outputs *)

LEMMA ConfirmHoldings ==
  ASSUME LedgerInv, InputsCreated, NEW tx \in BuiltTxs, Built(chain, tx), Confirm(tx)
  PROVE  /\ Holdings' = {op \in Holdings : \A i \in DOMAIN tx.ins : op # tx.ins[i]}
                           \cup TokenOutpoints(tx, Len(chain) + 1)
         /\ DOMAIN chain' = DOMAIN chain \cup {Len(chain) + 1}
<1> DEFINE last == Len(chain) + 1
           new == TokenOutpoints(tx, last)
<1>1. TokenOutputs' = TokenOutputs \cup new /\ \A op \in new : op.txid = last
  BY ConfirmOrigins
<1>2. /\ chain'[last] = [ins |-> tx.ins, outs |-> tx.outs]
      /\ \A t \in DOMAIN chain : chain'[t] = chain[t]
      /\ \A op \in Created(chain) : op.txid \in DOMAIN chain
  BY ConfirmLengthens
<1>3. DOMAIN chain' = DOMAIN chain \cup {last} /\ last \notin DOMAIN chain
  <2>1. chain \in Seq(Txs) /\ DOMAIN chain' = DOMAIN chain \cup {last}
    BY ConfirmLengthens
  <2> QED BY <2>1, LenProperties
<1>4. /\ Holdings' = {op \in TokenOutputs' : op \notin Spent(chain')}
      /\ Holdings = {op \in TokenOutputs : op \notin Spent(chain)}
  BY DEF Holdings, TokenOutputs, Unspent
<1>5. Spent(chain) \subseteq Created(chain)
  BY DEF Spent, ToSet, InputsCreated, InputsExist
<1> HIDE DEF last, new
<1>6. Spent(chain') = Spent(chain) \cup {tx.ins[i] : i \in DOMAIN tx.ins}
  BY <1>2, <1>3 DEF Spent, ToSet
<1>7. \A op \in new : op \notin Created(chain)
  BY <1>1, <1>2, <1>3
<1>8. \A op \in new : op \notin Spent(chain')
  BY <1>5, <1>6, <1>7 DEF Built
<1>9. Holdings' = {op \in Holdings : \A i \in DOMAIN tx.ins : op # tx.ins[i]} \cup new
  BY <1>1, <1>4, <1>6, <1>8
<1> QED BY <1>3, <1>9 DEF last, new

\* What the transactions before it redeemed stays, its own first output joins.
LEMMA ConfirmRedeems ==
  ASSUME LedgerInv, InputsCreated, NEW tx \in BuiltTxs, Built(chain, tx), Confirm(tx),
         NEW tok
  PROVE  LET first == FirstOf(Len(chain) + 1)
         IN RedeemedOps(chain', tok)
              = RedeemedOps(chain, tok)
                  \cup (IF Redeems(chain', first, tok) THEN {first} ELSE {})
<1> DEFINE last == Len(chain) + 1
<1>1. DOMAIN chain' = DOMAIN chain \cup {last}
  BY ConfirmHoldings
<1>2. /\ \A t \in DOMAIN chain : chain'[t] = chain[t]
      /\ \A op \in Created(chain) : OutputOf(chain', op) = OutputOf(chain, op)
  BY ConfirmLengthens
<1>3. ASSUME NEW t \in DOMAIN chain
      PROVE  Redeems(chain', FirstOf(t), tok) <=> Redeems(chain, FirstOf(t), tok)
  <2>1. FirstOf(t).txid = t /\ FirstOf(t).vout = 0
    BY DEF FirstOf
  <2>2. chain'[t] = chain[t]
    BY <1>2
  <2>3. OutputOf(chain', FirstOf(t)) = OutputOf(chain, FirstOf(t))
    BY <2>1, <2>2 DEF OutputOf
  <2>4. \A i \in DOMAIN chain[t].ins :
           OutputOf(chain', chain[t].ins[i]) = OutputOf(chain, chain[t].ins[i])
    BY <1>2 DEF InputsCreated, InputsExist
  <2> QED BY <2>1, <2>2, <2>3, <2>4 DEF Redeems
<1>4. \A t \in DOMAIN chain' : FirstOf(t) \in {FirstOf(x) : x \in DOMAIN chain'}
  OBVIOUS
<1> HIDE DEF last
<1>5. RedeemedOps(chain', tok)
        = RedeemedOps(chain, tok)
            \cup (IF Redeems(chain', FirstOf(last), tok) THEN {FirstOf(last)} ELSE {})
  BY <1>1, <1>3 DEF RedeemedOps
<1> QED BY <1>5 DEF last

LEMMA CreatedFinite ==
  ASSUME LedgerInv, IsFiniteSet(Created(chain)), NEW tx \in BuiltTxs, Confirm(tx)
  PROVE  IsFiniteSet(Created(chain'))
<1>1. PICK m \in Nat : DOMAIN tx.outs = 1..m
  BY LenProperties DEF BuiltTxs
<1>2. Created(chain') = Created(chain) \cup OutPlaces(Len(chain) + 1, m)
  BY <1>1, ConfirmLengthens DEF OutPlaces
<1>3. IsFiniteSet(OutPlaces(Len(chain) + 1, m))
  BY PlacesNext
<1> QED BY <1>2, <1>3, FS_Union

-----------------------------------------------------------------------------
(* A transaction that spends a token *)

SpentOps(ch, tx) == {tx.ins[i] : i \in SpentTokens(ch, tx)}

SegmentsOf(tx) == Front(tx.unlock[1].pairs)

\* The segments of the first input say what becomes of every token input: the
\* covenant compares their sum with what it and the merged input hold.
LEMMA SpentTotal ==
  ASSUME LedgerInv, NEW tx \in BuiltTxs, Built(chain, tx), NetworkAccepts(chain, tx),
         SpentTokens(chain, tx) # {}
  PROVE  /\ SegmentsOf(tx) \in Seq(Segments) /\ Len(SegmentsOf(tx)) \in 1..4
         /\ tx.outs = CovenantOutputs(OutputOf(chain, tx.ins[1]).tok, SegmentsOf(tx),
                                      Last(tx.unlock[1].pairs))
         /\ 1 \in DOMAIN tx.ins
         /\ \A op \in SpentOps(chain, tx) :
               IsStas(OutputOf(chain, op), OutputOf(chain, tx.ins[1]).tok)
         /\ SpentOps(chain, tx) \subseteq Holdings
         /\ IsFiniteSet(SpentOps(chain, tx))
         /\ Total(chain, SpentOps(chain, tx)) = SumSatoshis(SegmentsOf(tx))
<1> DEFINE u == tx.unlock[1]
           segs == Front(u.pairs)
           prev == OutputOf(chain, tx.ins[1])
           gone == SpentOps(chain, tx)
<1>1. /\ 1 \in DOMAIN tx.ins /\ prev.kind = "stas"
      /\ SpendsWhole(chain, tx)
      /\ \A i \in DOMAIN tx.ins : tx.ins[i] \in Created(chain)
      /\ \A i \in SpentTokens(chain, tx) :
            i \in DOMAIN tx.ins /\ OutputOf(chain, tx.ins[i]).kind = "stas"
  BY DEF Built, SpendsFirst, SpentTokens
<1>2. u.type \in {"basic", "merge"} /\ u.pairs \in Seq(Segments)
  <2>1. 1 \in DOMAIN tx.unlock /\ u.type \in {"basic", "merge"}
    BY <1>1 DEF SpendsWhole
  <2>2. u \in Unlocks
    BY <2>1, LenProperties, ElementOfSeq DEF BuiltTxs
  <2>3. u # PlainUnlock
    BY <2>1 DEF PlainUnlock
  <2> QED BY <2>1, <2>2, <2>3 DEF Unlocks
<1>3. CovenantHolds(chain, tx, 1)
  BY <1>1 DEF NetworkAccepts, ScriptsHold, OutputOf, Utxo
<1>4. /\ Len(segs) \in 1..4
      /\ SegmentTotal(segs)
           = prev.satoshis + (IF u.type = "merge" THEN OutputOf(chain, u.other).satoshis ELSE 0)
      /\ tx.outs = CovenantOutputs(prev.tok, segs, Last(u.pairs))
      /\ u.type = "merge" => IsStas(OutputOf(chain, u.other), prev.tok)
  <2>1. /\ Len(segs) \in 1..(IF prev.tok.isSplittable THEN MaxSegments ELSE 1)
        /\ Balanced(segs, prev.satoshis
                            + (IF u.type = "merge" THEN OutputOf(chain, u.other).satoshis ELSE 0))
        /\ tx.outs = CovenantOutputs(prev.tok, segs, Last(u.pairs))
        /\ u.type = "merge" => MergeProof(chain, u, prev.tok)
    BY <1>3 DEF CovenantHolds, OutputOf, Utxo
  <2>2. Len(segs) \in 1..4
    <3> DEFINE n == Len(segs)
    <3>1. n \in 1..1 \/ n \in 1..4
      BY <2>1 DEF MaxSegments
    <3> HIDE DEF n
    <3>2. n \in 1..4
      BY <3>1
    <3> QED BY <3>2 DEF n
  <2> QED BY <2>1, <2>2 DEF Balanced, MergeProof, OutputOf, Utxo
<1>5. segs \in Seq(Segments)
  <2> DEFINE n == Len(u.pairs) - 1
  <2>1. n \in Int /\ n + 1 = Len(u.pairs) /\ segs = SubSeq(u.pairs, 1, n)
    BY <1>2, LenProperties DEF Front
  <2>2. \A j \in 1..n : u.pairs[j] \in Segments
    BY <1>2, <2>1, ElementOfSeq
  <2> QED BY <1>2, <2>1, <2>2, SubSeqProperties
<1>6. SegmentTotal(segs) = SumSatoshis(segs)
  <2>1. \A x \in Segments : x.satoshis \in Nat
    BY DEF Segments
  <2>2. Len(segs) \in 0..4
    <3> DEFINE n == Len(segs)
    <3>1. n \in 1..4
      BY <1>4
    <3> HIDE DEF n
    <3>2. n \in 0..4
      BY <3>1
    <3> QED BY <3>2 DEF n
  <2> HIDE DEF segs
  <2> QED BY <1>5, <2>1, <2>2, SegmentTotalIsSum
<1>7. gone \subseteq Holdings
  BY <1>1 DEF SpentOps, NetworkAccepts, Holdings, ChainOutput, OutputOf
<1>8. \A i \in SpentTokens(chain, tx) : Amount(chain, tx.ins[i]) \in Nat
  BY <1>1, AmountType DEF LedgerInv, TypeOK
<1> HIDE DEF segs, u, prev
<1>9. CASE u.type = "basic"
  <2>1. SpentTokens(chain, tx) = {1}
    BY <1>1, <1>9 DEF SpendsWhole, u
  <2>2. gone = {tx.ins[1]}
    BY <2>1 DEF SpentOps
  <2>3. Total(chain, gone) = Amount(chain, tx.ins[1])
    BY <1>8, <2>1, <2>2, TotalOfOne
  <2>4. Amount(chain, tx.ins[1]) = prev.satoshis /\ prev.satoshis \in Nat
    BY <1>8, <2>1 DEF Amount, prev
  <2>5. Total(chain, gone) = SumSatoshis(segs)
    BY <1>4, <1>6, <1>9, <2>3, <2>4
  <2>6. \A op \in gone : IsStas(OutputOf(chain, op), prev.tok)
    BY <1>1, <2>2 DEF IsStas, prev
  <2>7. IsFiniteSet({tx.ins[1]})
    BY FS_Singleton
  <2>8. IsFiniteSet(gone)
    BY <2>2, <2>7
  <2> QED BY <1>1, <1>4, <1>5, <1>7, <2>5, <2>6, <2>8 DEF SegmentsOf, segs, u, prev
<1>10. CASE u.type = "merge"
  <2>1. SpentTokens(chain, tx) = {1, 2} /\ u.other = tx.ins[2]
    BY <1>1, <1>10 DEF SpendsWhole, u
  <2>2. gone = {tx.ins[1]} \cup {tx.ins[2]}
    BY <2>1 DEF SpentOps
  <2>3. tx.ins[1] # tx.ins[2]
    BY <1>1, <2>1 DEF NetworkAccepts
  <2>4. /\ Amount(chain, tx.ins[1]) \in Nat /\ Amount(chain, tx.ins[2]) \in Nat
        /\ Amount(chain, tx.ins[1]) = prev.satoshis
        /\ Amount(chain, tx.ins[2]) = OutputOf(chain, u.other).satoshis
    BY <1>8, <2>1 DEF Amount, prev
  <2>5. /\ IsFiniteSet({tx.ins[1]}) /\ IsFiniteSet({tx.ins[2]})
        /\ {tx.ins[1]} \cap {tx.ins[2]} = {}
    BY <2>3, FS_Singleton
  <2>6. Total(chain, gone) = Total(chain, {tx.ins[1]}) + Total(chain, {tx.ins[2]})
    BY <2>2, <2>4, <2>5, TotalUnion
  <2>7. Total(chain, gone) = SumSatoshis(segs)
    BY <1>4, <1>6, <1>10, <2>4, <2>6, TotalOfOne
  <2>8. \A op \in gone : IsStas(OutputOf(chain, op), prev.tok)
    BY <1>1, <1>4, <1>10, <2>1, <2>2 DEF IsStas, prev
  <2>9. IsFiniteSet({tx.ins[1]} \cup {tx.ins[2]})
    BY <2>5, FS_Union
  <2>10. IsFiniteSet(gone)
    BY <2>2, <2>9
  <2> QED BY <1>1, <1>4, <1>5, <1>7, <2>7, <2>8, <2>10 DEF SegmentsOf, segs, u, prev
<1> QED BY <1>2, <1>9, <1>10 DEF u

\* What the covenant rebuilds from the segments: outputs of the token, except
\* that the first one may pay to the issuer.
LEMMA NewTotal ==
  ASSUME LedgerInv, InputsCreated, NEW tx \in BuiltTxs, Built(chain, tx), Confirm(tx),
         NetworkAccepts(chain, tx), SpentTokens(chain, tx) # {}
  PROVE  LET tok == OutputOf(chain, tx.ins[1]).tok
             new == TokenOutpoints(tx, Len(chain) + 1)
             first == FirstOf(Len(chain) + 1)
             cashed == IF Redeems(chain', first, tok) THEN {first} ELSE {}
         IN /\ \A op \in new : OutputOf(chain', op).tok = tok
            /\ new \cap cashed = {}
            /\ new \cup cashed = OutPlaces(Len(chain) + 1, Len(SegmentsOf(tx)))
            /\ Total(chain', new \cup cashed) = SumSatoshis(SegmentsOf(tx))
<1> DEFINE last == Len(chain) + 1
           tok == OutputOf(chain, tx.ins[1]).tok
           new == TokenOutpoints(tx, last)
           first == FirstOf(last)
           cashed == IF Redeems(chain', first, tok) THEN {first} ELSE {}
           segs == SegmentsOf(tx)
           n == Len(segs)
<1>1. /\ segs \in Seq(Segments) /\ n \in 1..4
      /\ tx.outs = CovenantOutputs(tok, segs, Last(tx.unlock[1].pairs))
      /\ 1 \in DOMAIN tx.ins
      /\ \A op \in SpentOps(chain, tx) : IsStas(OutputOf(chain, op), tok)
  BY SpentTotal
<1> HIDE DEF segs
<1>2. /\ \A k \in 1..n : /\ k \in DOMAIN tx.outs
                         /\ tx.outs[k] = CovenantOutput(tok, k, segs[k])
      /\ \A k \in DOMAIN tx.outs : tx.outs[k].kind = "stas" => k \in 1..n
      /\ \A k \in DOMAIN tx.outs : tx.outs[k].kind = "stas" => tx.outs[k].tok = tok
  <2> DEFINE change == Last(tx.unlock[1].pairs)
             outs == CovenantOutputs(tok, segs, change)
  <2>1. Len(segs) \in Nat
    BY <1>1
  <2> HIDE DEF tok, change
  <2>2. /\ \A k \in 1..Len(segs) : /\ k \in DOMAIN outs
                                   /\ outs[k] = CovenantOutput(tok, k, segs[k])
        /\ \A k \in DOMAIN outs : outs[k].kind = "stas" =>
              /\ k \in 1..Len(segs)
              /\ outs[k].tok = tok /\ outs[k].satoshis = segs[k].satoshis
    BY <2>1, CovenantOutputsShape
  <2>3. tx.outs = outs
    BY <1>1 DEF change
  <2> HIDE DEF outs
  <2> QED BY <2>2, <2>3
<1>3. /\ chain'[last] = [ins |-> tx.ins, outs |-> tx.outs]
      /\ \A op \in Created(chain) : OutputOf(chain', op) = OutputOf(chain, op)
  BY ConfirmLengthens
<1>4. /\ \A op \in new :
            /\ op.txid = last /\ op.vout + 1 \in DOMAIN tx.outs
            /\ op = [txid |-> last, vout |-> (op.vout + 1) - 1]
            /\ tx.outs[op.vout + 1].kind = "stas"
            /\ OutputOf(chain', op) = tx.outs[op.vout + 1]
  BY ConfirmOrigins
<1>5. \A k \in 1..n : OutputOf(chain', [txid |-> last, vout |-> k - 1]) = tx.outs[k]
  BY <1>3 DEF OutputOf
<1>6. /\ chain'[first.txid].outs = tx.outs /\ chain'[first.txid].ins = tx.ins
      /\ OutputOf(chain', first) = tx.outs[1]
      /\ tx.outs # <<>> /\ first = [txid |-> last, vout |-> 1 - 1]
  <2>1. first.txid = last /\ first = [txid |-> last, vout |-> 1 - 1]
    BY DEF FirstOf
  <2>2. 1 \in 1..n
    <3>1. n \in 1..4
      BY <1>1
    <3> HIDE DEF n
    <3> QED BY <3>1
  <2>3. 1 \in DOMAIN tx.outs
    BY <1>2, <2>2
  <2>4. tx.outs # <<>>
    BY <2>3
  <2>5. OutputOf(chain', first) = tx.outs[1]
    BY <1>5, <2>1, <2>2
  <2>6. chain'[first.txid].outs = tx.outs /\ chain'[first.txid].ins = tx.ins
    BY <1>3, <2>1
  <2> QED BY <2>1, <2>4, <2>5, <2>6
<1>7. \E i \in DOMAIN tx.ins : IsStas(OutputOf(chain', tx.ins[i]), tok)
  <2>1. 1 \in SpentTokens(chain, tx) /\ tx.ins[1] \in Created(chain)
    BY <1>1 DEF Built, SpendsFirst
  <2>2. IsStas(OutputOf(chain, tx.ins[1]), tok)
    BY <1>1, <2>1 DEF SpentOps
  <2> QED BY <1>1, <1>3, <2>1, <2>2
<1> HIDE DEF tok
<1>8. Redeems(chain', first, tok) <=> tx.outs[1].kind = "p2pkh" /\ tx.outs[1].pkh = tok.red
  BY <1>6, <1>7 DEF Redeems
<1> DEFINE place(k) == [txid |-> last, vout |-> k - 1]
<1>9. /\ new = {place(k) : k \in {j \in 1..n : tx.outs[j].kind = "stas"}}
      /\ OutPlaces(last, n) = {place(k) : k \in 1..n}
  <2>1. ASSUME NEW op \in new PROVE \E k \in 1..n : tx.outs[k].kind = "stas" /\ op = place(k)
    BY <1>2, <1>4
  <2>2. ASSUME NEW k \in 1..n, tx.outs[k].kind = "stas" PROVE place(k) \in new
    <3>1. k \in DOMAIN tx.outs /\ place(k).vout + 1 = k
      BY <1>1, <1>2
    <3> QED BY <2>2, <3>1 DEF TokenOutpoints
  <2> HIDE DEF new
  <2> QED BY <2>1, <2>2 DEF OutPlaces
<1>10. /\ \A k \in 1..n : tx.outs[k].satoshis = segs[k].satoshis
       /\ \A k \in 1..n : tx.outs[k].kind # "stas" =>
              k = 1 /\ tx.outs[1].kind = "p2pkh" /\ tx.outs[1].pkh = tok.red
  <2>1. ASSUME NEW k \in 1..n
        PROVE  /\ tx.outs[k].satoshis = segs[k].satoshis
               /\ tx.outs[k].kind # "stas" =>
                     k = 1 /\ tx.outs[k].kind = "p2pkh" /\ tx.outs[k].pkh = tok.red
    <3>1. tx.outs[k] = CovenantOutput(tok, k, segs[k])
      BY <1>2
    <3> QED BY <3>1 DEF CovenantOutput, P2pkhOut, StasOut
  <2> HIDE DEF n
  <2> QED BY <2>1
<1>11. cashed = {place(k) : k \in {j \in 1..n : tx.outs[j].kind # "stas"}}
  <2>1. 1 \in 1..n
    BY <1>1
  <2>2. CASE tx.outs[1].kind = "stas"
    <3>1. cashed = {}
      BY <1>8, <2>2
    <3>2. \A k \in 1..n : tx.outs[k].kind = "stas"
      BY <1>10, <2>2
    <3> HIDE DEF cashed
    <3> QED BY <3>1, <3>2
  <2>3. CASE tx.outs[1].kind # "stas"
    <3>1. cashed = {place(1)}
      BY <1>6, <1>8, <1>10, <2>1, <2>3
    <3>2. {j \in 1..n : tx.outs[j].kind # "stas"} = {1}
      BY <1>10, <2>1, <2>3
    <3> HIDE DEF cashed
    <3> QED BY <3>1, <3>2
  <2> QED BY <2>2, <2>3
<1> HIDE DEF n, new, cashed
<1>12. new \cup cashed = OutPlaces(last, n)
  BY <1>9, <1>11
<1>13. new \cap cashed = {}
  <2>1. ASSUME NEW op \in new, op \in cashed PROVE FALSE
    <3>1. PICK j \in 1..n : tx.outs[j].kind = "stas" /\ op = place(j)
      BY <1>9
    <3>2. PICK k \in 1..n : tx.outs[k].kind # "stas" /\ op = place(k)
      BY <1>11, <2>1
    <3>3. j \in Int /\ k \in Int /\ j - 1 = k - 1
      BY <3>1, <3>2
    <3>4. j = k
      BY <3>3
    <3> QED BY <3>1, <3>2, <3>4
  <2> QED BY <2>1
<1>14. Total(chain', OutPlaces(last, n)) = SumSatoshis(segs)
  <2>1. \A x \in Segments : x.satoshis \in Nat
    BY DEF Segments
  <2>2. \A k \in 1..Len(segs) :
           Amount(chain', [txid |-> last, vout |-> k - 1]) = segs[k].satoshis
    BY <1>5, <1>10 DEF Amount, n
  <2> HIDE DEF last
  <2> QED BY <1>1, <2>1, <2>2, TotalOfPlaces DEF n
<1>15. \A op \in new : OutputOf(chain', op).tok = tok
  BY <1>2, <1>4
<1> QED BY <1>12, <1>13, <1>14, <1>15 DEF tok, new, cashed, segs, n

-----------------------------------------------------------------------------
(* What a confirmed transaction does to the three amounts *)

Balances(tok) == IssuedAmount(tok) = OutstandingAmount(tok) + RedeemedAmount(tok)

SupplyInv == IsFiniteSet(Created(chain)) /\ \A tok : Balances(tok)

NewOf(tx, tok) ==
    {op \in TokenOutpoints(tx, Len(chain) + 1) : OutputOf(chain', op).tok = tok}

\* Older outputs keep their amounts.
LEMMA OlderTotal ==
  ASSUME LedgerInv, IsFiniteSet(Created(chain)), NEW tx \in BuiltTxs, Confirm(tx),
         NEW ops, ops \subseteq Created(chain)
  PROVE  /\ IsFiniteSet(ops)
         /\ \A op \in ops : Amount(chain, op) \in Nat /\ Amount(chain', op) \in Nat
         /\ Total(chain, ops) \in Nat
         /\ Total(chain', ops) = Total(chain, ops)
<1>1. IsFiniteSet(ops)
  BY FS_Subset
<1>2. \A op \in ops : Amount(chain, op) \in Nat /\ Amount(chain', op) = Amount(chain, op)
  BY AmountType, ConfirmLengthens DEF Amount, LedgerInv, TypeOK
<1>3. Total(chain, ops) \in Nat
  BY <1>1, <1>2, TotalType
<1>4. Total(chain', ops) = Total(chain, ops)
  BY <1>1, <1>2, TotalOfSameAmounts
<1> QED BY <1>1, <1>2, <1>3, <1>4

\* Outputs count as issued when their transaction spends no token.
LEMMA ConfirmIssued ==
  ASSUME LedgerInv, InputsCreated, NEW tx \in BuiltTxs, Built(chain, tx), Confirm(tx),
         NEW tok
  PROVE  IssuedOps(tok)' = IssuedOps(tok)
                             \cup (IF SpentTokens(chain, tx) = {} THEN NewOf(tx, tok) ELSE {})
<1> DEFINE last == Len(chain) + 1
           new == TokenOutpoints(tx, last)
<1>1. /\ TokenOutputs' = TokenOutputs \cup new
      /\ \A op \in new : op.txid = last
  BY ConfirmOrigins
<1>2. /\ \A t \in DOMAIN chain : SpendsToken(chain', t) <=> SpendsToken(chain, t)
      /\ SpendsToken(chain', last) <=> SpentTokens(chain, tx) # {}
  BY ConfirmedTx
<1>3. \A op \in TokenOutputs :
         op.txid \in DOMAIN chain /\ OutputOf(chain', op) = OutputOf(chain, op)
  BY ConfirmLengthens DEF TokenOutputs
<1>4. /\ IssuedOps(tok) = {op \in TokenOutputs : /\ OutputOf(chain, op).tok = tok
                                                 /\ ~SpendsToken(chain, op.txid)}
      /\ IssuedOps(tok)' = {op \in TokenOutputs' : /\ OutputOf(chain', op).tok = tok
                                                   /\ ~SpendsToken(chain', op.txid)}
  BY DEF IssuedOps, ChainOutput, OutputOf, TokenTx, SpendsToken
<1>5. NewOf(tx, tok) = {op \in new : OutputOf(chain', op).tok = tok}
  BY DEF NewOf
<1> HIDE DEF last, new
<1> QED BY <1>1, <1>2, <1>3, <1>4, <1>5

LEMMA ConfirmHeld ==
  ASSUME LedgerInv, InputsCreated, NEW tx \in BuiltTxs, Built(chain, tx), Confirm(tx),
         NEW tok
  PROVE  /\ HeldOps(tok)' = {op \in HeldOps(tok) : \A i \in DOMAIN tx.ins : op # tx.ins[i]}
                              \cup NewOf(tx, tok)
         /\ NewOf(tx, tok) \subseteq Created(chain')
         /\ NewOf(tx, tok) \cap Created(chain) = {}
<1> DEFINE last == Len(chain) + 1
           new == TokenOutpoints(tx, last)
<1>1. Holdings' = {op \in Holdings : \A i \in DOMAIN tx.ins : op # tx.ins[i]} \cup new
  BY ConfirmHoldings
<1>2. /\ TokenOutputs' = TokenOutputs \cup new
      /\ \A op \in new : op.txid = last
  BY ConfirmOrigins
<1>3. /\ HeldOps(tok) = {op \in Holdings : OutputOf(chain, op).tok = tok}
      /\ HeldOps(tok)' = {op \in Holdings' : OutputOf(chain', op).tok = tok}
  BY DEF HeldOps, ChainOutput, OutputOf
<1>4. \A op \in Holdings : OutputOf(chain', op) = OutputOf(chain, op)
  BY ConfirmLengthens DEF Holdings, Unspent
<1>5. NewOf(tx, tok) = {op \in new : OutputOf(chain', op).tok = tok}
  BY DEF NewOf
<1>6. \A op \in Created(chain) : op.txid # last
  <2>1. \A op \in Created(chain) : op.txid \in DOMAIN chain
    BY ConfirmLengthens
  <2>2. last \notin DOMAIN chain
    BY LenProperties DEF LedgerInv, TypeOK
  <2> QED BY <2>1, <2>2
<1>7. TokenOutputs' \subseteq Created(chain')
  BY DEF TokenOutputs
<1> HIDE DEF last, new
<1> QED BY <1>1, <1>2, <1>3, <1>4, <1>5, <1>6, <1>7

LEMMA RedeemedCreated ==
  ASSUME NEW ch \in Seq(Txs), NEW tok
  PROVE  RedeemedOps(ch, tok) \subseteq Created(ch)
<1> SUFFICES ASSUME NEW op \in RedeemedOps(ch, tok) PROVE op \in Created(ch)
  OBVIOUS
<1>1. PICK t \in DOMAIN ch : op = FirstOf(t)
  BY DEF RedeemedOps
<1>2. op.txid = t /\ op = [txid |-> t, vout |-> 1 - 1]
  BY <1>1 DEF FirstOf
<1>3. ch[t].outs # <<>>
  BY <1>2 DEF RedeemedOps, Redeems
<1>4. ch[t].outs \in Seq(Outputs)
  <2>1. ch[t] \in Txs
    BY LenProperties, ElementOfSeq
  <2> QED BY <2>1 DEF Txs
<1>5. 1 \in DOMAIN ch[t].outs
  BY <1>3, <1>4, LenProperties, EmptySeq
<1> QED BY <1>2, <1>5, CreatedPlace

LEMMA OpsCreated ==
  ASSUME LedgerInv, NEW tok
  PROVE  /\ IssuedOps(tok) \subseteq Created(chain) /\ HeldOps(tok) \subseteq Created(chain)
         /\ RedeemedOps(chain, tok) \subseteq Created(chain)
  BY RedeemedCreated
     DEF IssuedOps, TokenOutputs, HeldOps, Holdings, Unspent, LedgerInv, TypeOK

\* Issuing adds the same outputs to what was issued and to what is held.
LEMMA IssueAdds ==
  ASSUME LedgerInv, InputsCreated, IsFiniteSet(Created(chain)),
         NEW tx \in BuiltTxs, Built(chain, tx), Confirm(tx), SpentTokens(chain, tx) = {},
         NEW tok
  PROVE  LET n == Total(chain', NewOf(tx, tok))
         IN /\ n \in Nat /\ IssuedAmount(tok) \in Nat
            /\ OutstandingAmount(tok) \in Nat /\ RedeemedAmount(tok) \in Nat
            /\ IssuedAmount(tok)' = IssuedAmount(tok) + n
            /\ OutstandingAmount(tok)' = OutstandingAmount(tok) + n
            /\ RedeemedAmount(tok)' = RedeemedAmount(tok)
<1> DEFINE first == FirstOf(Len(chain) + 1)
           old(ops) == ops \subseteq Created(chain)
<1>1. IssuedOps(tok)' = IssuedOps(tok) \cup NewOf(tx, tok)
  BY ConfirmIssued
<1>2. HeldOps(tok)' = HeldOps(tok) \cup NewOf(tx, tok)
  <2>1. \A op \in HeldOps(tok) : \A i \in DOMAIN tx.ins : op # tx.ins[i]
    BY DEF SpentTokens, HeldOps, Holdings, ChainOutput, OutputOf
  <2> QED BY <2>1, ConfirmHeld
<1>3. RedeemedOps(chain', tok) = RedeemedOps(chain, tok)
  <2>1. chain'[first.txid].ins = tx.ins
    <3>1. chain'[Len(chain) + 1] = [ins |-> tx.ins, outs |-> tx.outs]
      BY ConfirmLengthens
    <3> QED BY <3>1 DEF FirstOf
  <2>2. \A i \in DOMAIN tx.ins : ~IsStas(OutputOf(chain', tx.ins[i]), tok)
    BY ConfirmLengthens DEF Built, SpentTokens, IsStas
  <2>3. ~Redeems(chain', first, tok)
    BY <2>1, <2>2 DEF Redeems
  <2> QED BY <2>3, ConfirmRedeems
<1>4. /\ IssuedOps(tok) \subseteq Created(chain) /\ HeldOps(tok) \subseteq Created(chain)
      /\ RedeemedOps(chain, tok) \subseteq Created(chain)
  BY OpsCreated
<1>5. /\ IsFiniteSet(NewOf(tx, tok)) /\ NewOf(tx, tok) \cap Created(chain) = {}
      /\ \A op \in NewOf(tx, tok) : Amount(chain', op) \in Nat
  <2>1. IsFiniteSet(Created(chain')) /\ NewOf(tx, tok) \subseteq Created(chain')
    BY CreatedFinite, ConfirmHeld
  <2>2. chain' \in Seq(Txs)
    BY ConfirmLengthens
  <2>3. IsFiniteSet(NewOf(tx, tok))
    BY <2>1, FS_Subset
  <2> QED BY <2>1, <2>2, <2>3, AmountType, ConfirmHeld
<1> DEFINE n == Total(chain', NewOf(tx, tok))
<1>6. n \in Nat
  BY <1>5, TotalType
<1>7. Total(chain', IssuedOps(tok)') = Total(chain, IssuedOps(tok)) + n
  <2>1. /\ IsFiniteSet(IssuedOps(tok)) /\ \A op \in IssuedOps(tok) : Amount(chain', op) \in Nat
        /\ Total(chain', IssuedOps(tok)) = Total(chain, IssuedOps(tok))
    BY <1>4, OlderTotal
  <2>2. Total(chain', IssuedOps(tok) \cup NewOf(tx, tok)) = Total(chain', IssuedOps(tok)) + n
    BY <1>4, <1>5, <2>1, TotalUnion
  <2> QED BY <1>1, <2>1, <2>2
<1>8. Total(chain', HeldOps(tok)') = Total(chain, HeldOps(tok)) + n
  <2>1. /\ IsFiniteSet(HeldOps(tok)) /\ \A op \in HeldOps(tok) : Amount(chain', op) \in Nat
        /\ Total(chain', HeldOps(tok)) = Total(chain, HeldOps(tok))
    BY <1>4, OlderTotal
  <2>2. Total(chain', HeldOps(tok) \cup NewOf(tx, tok)) = Total(chain', HeldOps(tok)) + n
    BY <1>4, <1>5, <2>1, TotalUnion
  <2> QED BY <1>2, <2>1, <2>2
<1>9. Total(chain', RedeemedOps(chain', tok)) = Total(chain, RedeemedOps(chain, tok))
  BY <1>3, <1>4, OlderTotal
<1>10. /\ Total(chain, IssuedOps(tok)) \in Nat /\ Total(chain, HeldOps(tok)) \in Nat
       /\ Total(chain, RedeemedOps(chain, tok)) \in Nat
  BY <1>4, OlderTotal
<1> HIDE DEF n
<1>11. /\ IssuedAmount(tok)' = IssuedAmount(tok) + n
       /\ OutstandingAmount(tok)' = OutstandingAmount(tok) + n
       /\ RedeemedAmount(tok)' = RedeemedAmount(tok)
  BY <1>7, <1>8, <1>9, AmountsAreTotals
<1>12. /\ IssuedAmount(tok) \in Nat /\ OutstandingAmount(tok) \in Nat
       /\ RedeemedAmount(tok) \in Nat
  BY <1>10, AmountsAreTotals
<1> QED BY <1>6, <1>11, <1>12 DEF n

LEMMA IssueBalances ==
  ASSUME LedgerInv, InputsCreated, IsFiniteSet(Created(chain)),
         NEW tx \in BuiltTxs, Built(chain, tx), Confirm(tx), SpentTokens(chain, tx) = {},
         NEW tok, Balances(tok)
  PROVE  Balances(tok)'
<1>1. PICK n \in Nat : /\ OutstandingAmount(tok) \in Nat /\ RedeemedAmount(tok) \in Nat
                       /\ IssuedAmount(tok)' = IssuedAmount(tok) + n
                       /\ OutstandingAmount(tok)' = OutstandingAmount(tok) + n
                       /\ RedeemedAmount(tok)' = RedeemedAmount(tok)
  BY IssueAdds
<1>2. IssuedAmount(tok)' = OutstandingAmount(tok)' + RedeemedAmount(tok)'
  BY <1>1 DEF Balances
<1> QED BY <1>2 DEF Balances

\* A spent token is held again by the new outputs or was paid to its issuer;
\* every other token is left alone.
LEMMA SpendBalances ==
  ASSUME LedgerInv, InputsCreated, IsFiniteSet(Created(chain)),
         NEW tx \in BuiltTxs, Built(chain, tx), NetworkAccepts(chain, tx), Confirm(tx),
         SpentTokens(chain, tx) # {}, NEW tok, Balances(tok)
  PROVE  Balances(tok)'
<1> DEFINE spent == OutputOf(chain, tx.ins[1]).tok
           gone == SpentOps(chain, tx)
           new == TokenOutpoints(tx, Len(chain) + 1)
           first == FirstOf(Len(chain) + 1)
           cashed == IF Redeems(chain', first, tok) THEN {first} ELSE {}
<1>1. /\ 1 \in DOMAIN tx.ins /\ gone \subseteq Holdings /\ IsFiniteSet(gone)
      /\ \A op \in gone : IsStas(OutputOf(chain, op), spent)
      /\ Total(chain, gone) = SumSatoshis(SegmentsOf(tx))
  BY SpentTotal
<1>2. \A op \in new : OutputOf(chain', op).tok = spent
  BY NewTotal
<1>3. IssuedOps(tok)' = IssuedOps(tok)
  BY ConfirmIssued
<1>4. /\ HeldOps(tok)' = {op \in HeldOps(tok) : op \notin gone} \cup NewOf(tx, tok)
      /\ NewOf(tx, tok) \cap Created(chain) = {} /\ NewOf(tx, tok) \subseteq Created(chain')
  <2>1. ASSUME NEW op \in HeldOps(tok)
        PROVE  (\A i \in DOMAIN tx.ins : op # tx.ins[i]) <=> op \notin gone
    <3>1. OutputOf(chain, op).kind = "stas"
      BY DEF HeldOps, Holdings, ChainOutput, OutputOf
    <3> QED BY <3>1 DEF SpentOps, SpentTokens
  <2> HIDE DEF gone
  <2>2. /\ HeldOps(tok)' = {op \in HeldOps(tok) : \A i \in DOMAIN tx.ins : op # tx.ins[i]}
                             \cup NewOf(tx, tok)
        /\ NewOf(tx, tok) \cap Created(chain) = {} /\ NewOf(tx, tok) \subseteq Created(chain')
    BY ConfirmHeld
  <2> QED BY <2>1, <2>2
<1>5. RedeemedOps(chain', tok) = RedeemedOps(chain, tok) \cup cashed
  BY ConfirmRedeems
<1>6. /\ IssuedOps(tok) \subseteq Created(chain) /\ HeldOps(tok) \subseteq Created(chain)
      /\ RedeemedOps(chain, tok) \subseteq Created(chain)
  BY OpsCreated
<1>7. Total(chain', IssuedOps(tok)') = Total(chain, IssuedOps(tok))
  BY <1>3, <1>6, OlderTotal
<1>8. /\ Total(chain, IssuedOps(tok)) \in Nat /\ Total(chain, HeldOps(tok)) \in Nat
      /\ Total(chain, RedeemedOps(chain, tok)) \in Nat
      /\ Total(chain', RedeemedOps(chain, tok)) = Total(chain, RedeemedOps(chain, tok))
      /\ Total(chain', HeldOps(tok)) = Total(chain, HeldOps(tok))
  BY <1>6, OlderTotal
<1>9. CASE tok # spent
  <2>1. HeldOps(tok)' = HeldOps(tok)
    <3>1. NewOf(tx, tok) = {}
      BY <1>2, <1>9 DEF NewOf
    <3>2. \A op \in HeldOps(tok) : op \notin gone
      BY <1>1, <1>9 DEF HeldOps, ChainOutput, OutputOf, IsStas
    <3> HIDE DEF gone
    <3> QED BY <1>4, <3>1, <3>2
  <2>2. cashed = {}
    <3>1. chain'[first.txid].ins = tx.ins
      <4>1. chain'[Len(chain) + 1] = [ins |-> tx.ins, outs |-> tx.outs]
        BY ConfirmLengthens
      <4> QED BY <4>1 DEF FirstOf
    <3>2. \A i \in DOMAIN tx.ins : ~IsStas(OutputOf(chain', tx.ins[i]), tok)
      <4>1. ASSUME NEW i \in DOMAIN tx.ins, IsStas(OutputOf(chain', tx.ins[i]), tok)
            PROVE  FALSE
        <5>1. tx.ins[i] \in Created(chain)
          BY DEF Built
        <5>2. IsStas(OutputOf(chain, tx.ins[i]), tok)
          BY <4>1, <5>1, ConfirmLengthens
        <5>3. tx.ins[i] \in gone
          BY <5>2 DEF SpentOps, SpentTokens, IsStas
        <5> QED BY <1>1, <1>9, <5>2, <5>3 DEF IsStas
      <4> QED BY <4>1
    <3>3. ~Redeems(chain', first, tok)
      BY <3>1, <3>2 DEF Redeems
    <3> QED BY <3>3
  <2> HIDE DEF cashed
  <2>3. RedeemedOps(chain', tok) = RedeemedOps(chain, tok)
    BY <1>5, <2>2
  <2>4. IssuedAmount(tok)' = OutstandingAmount(tok)' + RedeemedAmount(tok)'
    BY <1>7, <1>8, <2>1, <2>3, AmountsAreTotals DEF Balances
  <2> QED BY <2>4 DEF Balances
<1>10. CASE tok = spent
  <2> DEFINE kept == {op \in HeldOps(tok) : op \notin gone}
  <2>1. NewOf(tx, tok) = new
    BY <1>2, <1>10 DEF NewOf
  <2>2. /\ new \cap cashed = {}
        /\ new \cup cashed = OutPlaces(Len(chain) + 1, Len(SegmentsOf(tx)))
        /\ Total(chain', new \cup cashed) = SumSatoshis(SegmentsOf(tx))
    BY <1>10, NewTotal
  <2>3. gone \subseteq HeldOps(tok)
    BY <1>1, <1>10 DEF HeldOps, ChainOutput, OutputOf, IsStas
  <2>4. /\ new \subseteq Created(chain') /\ cashed \subseteq Created(chain')
        /\ new \cap Created(chain) = {} /\ cashed \cap Created(chain) = {}
    <3>1. cashed \subseteq Created(chain')
      <4>1. RedeemedOps(chain', tok) \subseteq Created(chain')
        <5>1. chain' \in Seq(Txs)
          BY ConfirmLengthens
        <5> QED BY <5>1, RedeemedCreated
      <4> HIDE DEF cashed
      <4> QED BY <1>5, <4>1
    <3>2. first \notin Created(chain)
      <4>1. \A op \in Created(chain) : op.txid \in DOMAIN chain
        BY ConfirmLengthens
      <4>2. first.txid \notin DOMAIN chain
        BY LenProperties DEF FirstOf, LedgerInv, TypeOK
      <4> QED BY <4>1, <4>2
    <3> QED BY <1>4, <2>1, <3>1, <3>2
  <2> HIDE DEF new, cashed, gone
  <2>5. /\ IsFiniteSet(new) /\ IsFiniteSet(cashed)
        /\ \A op \in new \cup cashed : Amount(chain', op) \in Nat
    <3>1. IsFiniteSet(Created(chain')) /\ chain' \in Seq(Txs)
      BY CreatedFinite, ConfirmLengthens
    <3>2. IsFiniteSet(new) /\ IsFiniteSet(cashed)
      BY <2>4, <3>1, FS_Subset
    <3> QED BY <2>4, <3>1, <3>2, AmountType
  <2>6. /\ Total(chain', new) \in Nat /\ Total(chain', cashed) \in Nat
        /\ Total(chain', new) + Total(chain', cashed) = Total(chain, gone)
    <3>1. Total(chain', new) \in Nat /\ Total(chain', cashed) \in Nat
      BY <2>5, TotalType
    <3>2. Total(chain', new \cup cashed) = Total(chain', new) + Total(chain', cashed)
      BY <2>2, <2>5, TotalUnion
    <3> QED BY <1>1, <2>2, <3>1, <3>2
  <2>7. /\ kept \subseteq Created(chain) /\ gone \subseteq Created(chain)
        /\ kept \cup gone = HeldOps(tok) /\ kept \cap gone = {}
    BY <1>6, <2>3
  <2>8. HeldOps(tok)' = kept \cup new
    BY <1>4, <2>1
  <2> HIDE DEF kept
  <2>9. /\ IsFiniteSet(kept) /\ IsFiniteSet(gone)
        /\ \A op \in kept : Amount(chain, op) \in Nat /\ Amount(chain', op) \in Nat
        /\ \A op \in gone : Amount(chain, op) \in Nat
        /\ Total(chain, kept) \in Nat /\ Total(chain, gone) \in Nat
        /\ Total(chain', kept) = Total(chain, kept)
    BY <2>7, OlderTotal
  <2>10. Total(chain, HeldOps(tok)) = Total(chain, kept) + Total(chain, gone)
    <3>1. \A op \in kept \cup gone : Amount(chain, op) \in Nat
      BY <2>9
    <3>2. Total(chain, kept \cup gone) = Total(chain, kept) + Total(chain, gone)
      BY <2>7, <2>9, <3>1, TotalUnion
    <3> QED BY <2>7, <3>2
  <2>11. Total(chain', HeldOps(tok)') = Total(chain, kept) + Total(chain', new)
    <3>1. kept \cap new = {} /\ \A op \in kept \cup new : Amount(chain', op) \in Nat
      BY <2>4, <2>5, <2>7, <2>9
    <3>2. Total(chain', kept \cup new) = Total(chain', kept) + Total(chain', new)
      BY <2>5, <2>9, <3>1, TotalUnion
    <3> QED BY <2>8, <2>9, <3>2
  <2>12. Total(chain', RedeemedOps(chain', tok))
           = Total(chain, RedeemedOps(chain, tok)) + Total(chain', cashed)
    <3> DEFINE before == RedeemedOps(chain, tok)
    <3>1. /\ IsFiniteSet(before) /\ \A op \in before : Amount(chain', op) \in Nat
      BY <1>6, OlderTotal
    <3>2. before \cap cashed = {} /\ \A op \in before \cup cashed : Amount(chain', op) \in Nat
      BY <1>6, <2>4, <2>5, <3>1
    <3>3. RedeemedOps(chain', tok) = before \cup cashed
      BY <1>5
    <3>4. Total(chain', before) = Total(chain, before)
      BY <1>8
    <3> HIDE DEF before
    <3>5. Total(chain', before \cup cashed) = Total(chain', before) + Total(chain', cashed)
      BY <2>5, <3>1, <3>2, TotalUnion
    <3> QED BY <3>3, <3>4, <3>5 DEF before
  <2>13. IssuedAmount(tok)' = OutstandingAmount(tok)' + RedeemedAmount(tok)'
    BY <1>7, <1>8, <2>6, <2>9, <2>10, <2>11, <2>12, AmountsAreTotals DEF Balances
  <2> QED BY <2>13 DEF Balances
<1> QED BY <1>9, <1>10

-----------------------------------------------------------------------------
(* The supply is kept *)

LEMMA InitSupply == Init => SupplyInv
<1> SUFFICES ASSUME Init PROVE SupplyInv
  OBVIOUS
<1>1. TokenOutputs = {} /\ chain \in Seq(Txs)
  BY InitInv DEF LedgerInv, TypeOK, OriginsKnown, Init
<1>2. DOMAIN chain = {1} /\ chain[1].ins = <<>> /\ chain[1].outs = Genesis
  BY DEF Init
<1>3. IsFiniteSet(Created(chain))
  <2>1. PICK m \in Nat : DOMAIN Genesis = 1..m
    BY GenesisAssumption, LenProperties
  <2>2. Created(chain) = OutPlaces(1, m)
    BY ZenonT(60), <1>2, <2>1 DEF Created, OutPlaces
  <2>3. IsFiniteSet(OutPlaces(1, m))
    BY PlacesNext
  <2> QED BY <2>2, <2>3
<1>4. ASSUME NEW tok PROVE Balances(tok)
  <2>1. IssuedOps(tok) = {} /\ HeldOps(tok) = {}
    BY <1>1 DEF IssuedOps, HeldOps, Holdings, TokenOutputs, Unspent
  <2>2. RedeemedOps(chain, tok) = {}
    BY <1>2 DEF RedeemedOps, Redeems, FirstOf
  <2>3. Total(chain, {}) = 0
    BY TotalEmpty
  <2> QED BY <2>1, <2>2, <2>3, AmountsAreTotals DEF Balances
<1> QED BY <1>3, <1>4 DEF SupplyInv

LEMMA NextKeepsSupply ==
  LedgerInv /\ HistoryInv /\ SupplyInv /\ [Next]_vars => SupplyInv'
<1> SUFFICES ASSUME LedgerInv, HistoryInv, SupplyInv, [Next]_vars PROVE SupplyInv'
  OBVIOUS
<1>1. CASE chain' = chain
  <2>1. ASSUME NEW tok PROVE Balances(tok)'
    <3>1. /\ IssuedOps(tok)' = IssuedOps(tok) /\ HeldOps(tok)' = HeldOps(tok)
          /\ RedeemedOps(chain', tok) = RedeemedOps(chain, tok)
      BY <1>1 DEF IssuedOps, HeldOps, TokenOutputs, Holdings, ChainOutput, TokenTx
    <3>2. Balances(tok)
      BY DEF SupplyInv
    <3>3. IssuedAmount(tok)' = OutstandingAmount(tok)' + RedeemedAmount(tok)'
      BY <1>1, <3>1, <3>2, AmountsAreTotals DEF Balances
    <3> QED BY <3>3 DEF Balances
  <2> QED BY <1>1, <2>1 DEF SupplyInv
<1>2. ASSUME NEW tx \in BuiltTxs, Built(chain, tx), NetworkAccepts(chain, tx), Confirm(tx)
      PROVE  SupplyInv'
  <2>1. IsFiniteSet(Created(chain'))
    BY <1>2, CreatedFinite DEF SupplyInv
  <2>2. ASSUME NEW tok PROVE Balances(tok)'
    BY <1>2, IssueBalances, SpendBalances DEF SupplyInv, HistoryInv
  <2> QED BY <2>1, <2>2 DEF SupplyInv
<1> QED BY <1>1, <1>2, StepConfirmsOrNot

\* Whatever calls interleave and however long the chain grows, the satoshis
\* issue() put into a token are at every moment those that its unspent outputs
\* hold plus those that redeem() and redeemSplit() paid to the issuer.
THEOREM SupplyKept == Spec => []SupplyConserved
<1>1. Init => SupplyInv
  BY InitSupply
<1>2. LedgerInv /\ HistoryInv /\ SupplyInv /\ [Next]_vars => SupplyInv'
  BY NextKeepsSupply
<1>3. SupplyInv => SupplyConserved
  BY DEF SupplyInv, Balances, SupplyConserved
<1> QED BY <1>1, <1>2, <1>3, LedgerInvariant, HistoryInvariant, PTL DEF Spec

-----------------------------------------------------------------------------
(* What the transactions of the three kinds of calls look like *)

\* Output k belongs to a key that an ordinary input belongs to.
PaidBack(ch, tx, k) ==
    \E i \in DOMAIN tx.ins :
        /\ OutputOf(ch, tx.ins[i]).kind = "p2pkh"
        /\ OutputOf(ch, tx.ins[i]).pkh = tx.outs[k].pkh

\* contract(): ordinary satoshis become a contract and change.
Backs(ch, tx) ==
    /\ \A i \in DOMAIN tx.ins : OutputOf(ch, tx.ins[i]).kind = "p2pkh"
    /\ DOMAIN tx.outs = 1..2
    /\ tx.outs[1].kind = "contract" /\ tx.outs[2].kind = "p2pkh"
    /\ tx.outs[1].satoshis > 0 /\ tx.outs[1].tok.symbol \in Symbols
    /\ \A k \in 1..2 : PaidBack(ch, tx, k)

\* issue(): a contract becomes tokens of its key and symbol.
MintsAs(ch, tx, issued) ==
    LET contract == OutputOf(ch, tx.ins[1])
    IN /\ contract.kind = "contract"
       /\ \A i \in DOMAIN tx.ins \ {1} : OutputOf(ch, tx.ins[i]).kind = "p2pkh"
       /\ SumSatoshis(issued) = contract.satoshis
       /\ \A k \in DOMAIN issued :
             /\ k \in DOMAIN tx.outs
             /\ tx.outs[k].kind = "stas" /\ tx.outs[k].satoshis = issued[k].satoshis
             /\ tx.outs[k].tok \in Tokens
             /\ tx.outs[k].tok.red = contract.pkh
             /\ tx.outs[k].tok.symbol = contract.tok.symbol
       /\ \A k \in DOMAIN tx.outs : k \notin DOMAIN issued =>
             tx.outs[k].kind = "p2pkh" /\ PaidBack(ch, tx, k)

Mints(ch, tx) == \E issued \in Seq(IssueInfos) : MintsAs(ch, tx, issued)

\* The other calls: tokens of one holder, the payment and its change.
Moves(ch, tx) ==
    /\ OutputOf(ch, tx.ins[1]).kind = "stas"
    /\ \A i \in DOMAIN tx.ins :
          \/ OutputOf(ch, tx.ins[i]).kind = "p2pkh"
          \/ /\ OutputOf(ch, tx.ins[i]).kind = "stas"
             /\ OutputOf(ch, tx.ins[i]).pkh = OutputOf(ch, tx.ins[1]).pkh
    /\ \A k \in DOMAIN tx.outs \ {1} :
          tx.outs[k].kind = "p2pkh" => PaidBack(ch, tx, k)

Shaped(ch, tx) == Backs(ch, tx) \/ Mints(ch, tx) \/ Moves(ch, tx)

-----------------------------------------------------------------------------
(* The builders *)

\* Inputs: what is spent, then the payment.
PaysWith(ch, ops, first, pay) ==
    /\ \A i \in DOMAIN first : i \in DOMAIN ops /\ ops[i] = first[i]
    /\ \A i \in DOMAIN ops : i \notin DOMAIN first => OutputOf(ch, ops[i]).kind = "p2pkh"
    /\ pay # <<>> =>
          \E i \in DOMAIN ops : /\ OutputOf(ch, ops[i]).kind = "p2pkh"
                                /\ OutputOf(ch, ops[i]).pkh = pay[1].out.pkh

LEMMA PaymentFollows ==
  ASSUME chain \in Seq(Txs), NEW pay \in Payments, NEW first \in Seq(Created(chain))
  PROVE  PaysWith(chain, first \o Ops(pay), first, pay)
<1> DEFINE last == Ops(pay)
           ops == first \o last
<1>1. PICK m \in 0..1 : /\ last \in Seq(Created(chain)) /\ Len(last) = m
                        /\ \A i \in 1..m : OutputOf(chain, last[i]).kind = "p2pkh"
  BY PaymentInputs
<1>2. pay # <<>> => last[1] = pay[1].op /\ OutputOf(chain, last[1]) = pay[1].out /\ m = 1
  <2>1. SUFFICES ASSUME pay # <<>>
                 PROVE  last[1] = pay[1].op /\ OutputOf(chain, last[1]) = pay[1].out /\ m = 1
    OBVIOUS
  <2>2. pay \in Seq(UtxoRecords) /\ IsPay(pay) /\ FromChain(chain, pay)
    BY PaymentsFromChain
  <2>3. 1 \in DOMAIN pay /\ DOMAIN last = DOMAIN pay /\ last[1] = pay[1].op
    BY <2>1, <2>2 DEF IsPay, Ops
  <2>4. DOMAIN last = 1..m
    <3>1. last \in Seq(Created(chain)) /\ Len(last) = m
      BY <1>1
    <3> QED BY <3>1, LenProperties
  <2>5. OutputOf(chain, pay[1].op) = pay[1].out
    BY <2>2, <2>3 DEF FromChain
  <2>6. m = 1
    BY <2>3, <2>4
  <2> QED BY <2>3, <2>5, <2>6
<1>3. PICK n \in Nat : DOMAIN first = 1..n /\ Len(first) = n
  BY LenProperties
<1>4. ops = first \o last
  OBVIOUS
<1> HIDE DEF last, ops
<1>5. /\ ops \in Seq(Created(chain)) /\ Len(ops) = n + m
      /\ \A i \in 1..(n + m) : ops[i] = IF i <= n THEN first[i] ELSE last[i - n]
  <2>1. last \in Seq(Created(chain)) /\ Len(last) = m
    BY <1>1
  <2> QED BY <1>3, <1>4, <2>1, ConcatProperties
<1>6. DOMAIN ops = 1..(n + m)
  <2>1. ops \in Seq(Created(chain)) /\ Len(ops) = n + m
    BY <1>5
  <2> QED BY <2>1, LenProperties
<1>7. \A i \in DOMAIN first : i \in DOMAIN ops /\ ops[i] = first[i]
  BY <1>3, <1>5, <1>6
<1>8. \A i \in DOMAIN ops : i \notin DOMAIN first => OutputOf(chain, ops[i]).kind = "p2pkh"
  <2>1. ASSUME NEW i \in DOMAIN ops, i \notin DOMAIN first
        PROVE  OutputOf(chain, ops[i]).kind = "p2pkh"
    <3>1. i - n \in 1..m /\ ops[i] = last[i - n]
      BY <1>3, <1>5, <1>6, <2>1
    <3> QED BY <1>1, <3>1
  <2> QED BY <2>1
<1>9. pay # <<>> =>
         \E i \in DOMAIN ops : /\ OutputOf(chain, ops[i]).kind = "p2pkh"
                               /\ OutputOf(chain, ops[i]).pkh = pay[1].out.pkh
  <2>1. SUFFICES ASSUME pay # <<>>
                 PROVE  \E i \in DOMAIN ops : /\ OutputOf(chain, ops[i]).kind = "p2pkh"
                                              /\ OutputOf(chain, ops[i]).pkh = pay[1].out.pkh
    OBVIOUS
  <2>2. m = 1 /\ OutputOf(chain, last[1]).pkh = pay[1].out.pkh
    BY <1>2, <2>1
  <2>3. n + 1 \in DOMAIN ops /\ ops[n + 1] = last[1]
    BY <1>5, <1>6, <2>2
  <2>4. OutputOf(chain, last[1]).kind = "p2pkh"
    BY <1>1, <2>2
  <2> QED BY <2>2, <2>3, <2>4
<1> QED BY <1>4, <1>7, <1>8, <1>9 DEF PaysWith, last

\* Outputs: what the call is about, then the change.
ChangeAfter(all, outs, pay) ==
    /\ \A k \in DOMAIN outs : k \in DOMAIN all /\ all[k] = outs[k]
    /\ \A k \in DOMAIN all : k \notin DOMAIN outs =>
          pay # <<>> /\ all[k].kind = "p2pkh" /\ all[k].pkh = pay[1].out.pkh

LEMMA ChangeFollows ==
  ASSUME NEW outs \in Seq(Outputs), NEW pay, IsPay(pay), ChangeCovered(pay)
  PROVE  ChangeAfter(outs \o ChangeOutputs(pay), outs, pay)
<1> DEFINE change == ChangeOutputs(pay)
           all == outs \o change
<1>1. PICK n \in Nat : DOMAIN outs = 1..n /\ Len(outs) = n
  BY LenProperties
<1>2. change \in Seq(Outputs)
  BY ChangeType
<1>3. \A i \in 1..Len(change) :
         pay # <<>> /\ change[i].kind = "p2pkh" /\ change[i].pkh = pay[1].out.pkh
  BY DEF ChangeOutputs, P2pkhOut
<1>4. all = outs \o change
  OBVIOUS
<1> HIDE DEF change, all
<1>5. PICK m \in Nat : Len(change) = m
  BY <1>2, LenProperties
<1>6. /\ all \in Seq(Outputs) /\ Len(all) = n + m
      /\ \A i \in 1..(n + m) : all[i] = IF i <= n THEN outs[i] ELSE change[i - n]
  BY <1>1, <1>2, <1>4, <1>5, ConcatProperties
<1>7. DOMAIN all = 1..(n + m)
  <2>1. all \in Seq(Outputs) /\ Len(all) = n + m
    BY <1>6
  <2> QED BY <2>1, LenProperties
<1>8. \A k \in DOMAIN outs : k \in DOMAIN all /\ all[k] = outs[k]
  BY <1>1, <1>6, <1>7
<1>9. ASSUME NEW k \in DOMAIN all, k \notin DOMAIN outs
      PROVE  pay # <<>> /\ all[k].kind = "p2pkh" /\ all[k].pkh = pay[1].out.pkh
  <2>1. k - n \in 1..m /\ all[k] = change[k - n]
    BY <1>1, <1>6, <1>7, <1>9
  <2> QED BY <1>3, <1>5, <2>1
<1> QED BY <1>4, <1>8, <1>9 DEF ChangeAfter, change

\* Change goes back to the key that paid.
LEMMA ChangeIsPaidBack ==
  ASSUME NEW ch, NEW tx, NEW first, NEW outs, NEW pay,
         PaysWith(ch, tx.ins, first, pay), ChangeAfter(tx.outs, outs, pay),
         NEW k \in DOMAIN tx.outs, k \notin DOMAIN outs
  PROVE  tx.outs[k].kind = "p2pkh" /\ PaidBack(ch, tx, k)
  BY DEF PaysWith, ChangeAfter, PaidBack

LEMMA BasicTxShaped ==
  ASSUME LedgerInv, NEW u \in Utxos("stas"), NEW pay \in Payments, ChangeCovered(pay),
         NEW outs \in Seq(Outputs), NEW segments,
         \A k \in DOMAIN outs : outs[k].kind = "p2pkh" => k = 1
  PROVE  Shaped(chain, BasicTx(u, outs, segments, pay))
<1> DEFINE tx == BasicTx(u, outs, segments, pay)
           first == <<u.op>>
<1>1. chain \in Seq(Txs) /\ IsPay(pay)
  BY UtxosType DEF LedgerInv, TypeOK
<1>2. u.op \in Created(chain) /\ OutputOf(chain, u.op).kind = "stas"
  BY <1>1, UtxosType DEF OutputOf, ChainOutput
<1>3. tx.ins = first \o Ops(pay) /\ tx.outs = outs \o ChangeOutputs(pay)
  BY DEF BasicTx
<1>4. first \in Seq(Created(chain)) /\ DOMAIN first = 1..1 /\ first[1] = u.op
  BY <1>2, SingletonSeq
<1> HIDE DEF tx, first
<1>5. PaysWith(chain, tx.ins, first, pay) /\ ChangeAfter(tx.outs, outs, pay)
  BY <1>1, <1>3, <1>4, PaymentFollows, ChangeFollows
<1>6. tx.ins[1] = u.op /\ \A i \in DOMAIN tx.ins \ {1} : OutputOf(chain, tx.ins[i]).kind = "p2pkh"
  BY <1>4, <1>5 DEF PaysWith
<1>7. ASSUME NEW k \in DOMAIN tx.outs \ {1}, tx.outs[k].kind = "p2pkh"
      PROVE  PaidBack(chain, tx, k)
  <2>1. k \notin DOMAIN outs
    BY <1>5, <1>7 DEF ChangeAfter
  <2> QED BY <1>5, <2>1, ChangeIsPaidBack
<1>8. Moves(chain, tx)
  BY <1>2, <1>6, <1>7 DEF Moves
<1> QED BY <1>8 DEF Shaped, tx

LEMMA MergeTxShaped ==
  ASSUME LedgerInv, NEW u1 \in Utxos("stas"), NEW u2 \in Utxos("stas"),
         NEW pay \in Payments, NEW dests \in Seq(Destinations),
         mergeGuards(chain, u1, u2, dests, pay)
  PROVE  Shaped(chain, MergeTxOf(chain, u1, u2, dests, pay))
<1> DEFINE tx == MergeTxOf(chain, u1, u2, dests, pay)
           first == <<u1.op, u2.op>>
           outs == StasOutputs(u1.out.tok, dests)
<1>1. chain \in Seq(Txs) /\ IsPay(pay) /\ ChangeCovered(pay) /\ SameScript(u1, u2)
  BY UtxosType DEF LedgerInv, TypeOK, mergeGuards
<1>2. /\ \A u \in Utxos("stas") :
            /\ u.op \in Created(chain) /\ OutputOf(chain, u.op).kind = "stas"
            /\ u.out = OutputOf(chain, u.op)
            /\ u.out.tok \in Tokens \cup {NoTok}
  BY <1>1, UtxosType DEF OutputOf, ChainOutput, UtxoRecords, Outputs
<1>3. tx.ins = first \o Ops(pay) /\ tx.outs = outs \o ChangeOutputs(pay)
  BY DEF MergeTxOf
<1>4. /\ first \in Seq(Created(chain)) /\ DOMAIN first = 1..2
      /\ first[1] = u1.op /\ first[2] = u2.op
  BY <1>2
<1>5. outs \in Seq(Outputs) /\ \A k \in DOMAIN outs : outs[k].kind = "stas"
  <2>1. outs \in Seq(Outputs)
    BY <1>2, StasOutputsType
  <2> QED BY <2>1 DEF StasOutputs, StasOut
<1> HIDE DEF tx, first, outs
<1>6. PaysWith(chain, tx.ins, first, pay) /\ ChangeAfter(tx.outs, outs, pay)
  BY <1>1, <1>3, <1>4, <1>5, PaymentFollows, ChangeFollows
<1>7. /\ tx.ins[1] = u1.op /\ tx.ins[2] = u2.op
      /\ \A i \in DOMAIN tx.ins : i # 1 /\ i # 2 => OutputOf(chain, tx.ins[i]).kind = "p2pkh"
  BY <1>4, <1>6 DEF PaysWith
<1>8. ASSUME NEW k \in DOMAIN tx.outs, tx.outs[k].kind = "p2pkh"
      PROVE  PaidBack(chain, tx, k)
  <2>1. k \notin DOMAIN outs
    BY <1>5, <1>6, <1>8 DEF ChangeAfter
  <2> QED BY <1>6, <2>1, ChangeIsPaidBack
<1>9. /\ OutputOf(chain, tx.ins[1]).kind = "stas" /\ OutputOf(chain, tx.ins[2]).kind = "stas"
      /\ OutputOf(chain, tx.ins[2]).pkh = OutputOf(chain, tx.ins[1]).pkh
  BY <1>1, <1>2, <1>7 DEF SameScript
<1>10. Moves(chain, tx)
  BY <1>7, <1>8, <1>9 DEF Moves
<1> QED BY <1>10 DEF Shaped, tx

LEMMA IssueTxShaped ==
  ASSUME LedgerInv, NEW u \in Utxos("contract"), NEW info \in Seq(IssueInfos),
         NEW pay \in Payments, NEW isSplittable \in BOOLEAN, NEW symbol \in Symbols,
         issueGuards(u, info, pay, symbol)
  PROVE  Shaped(chain, issueTx(u, info, pay, isSplittable, symbol))
<1> DEFINE tx == issueTx(u, info, pay, isSplittable, symbol)
           first == <<u.op>>
           tok(k) == [red |-> u.out.pkh, symbol |-> symbol,
                      isSplittable |-> isSplittable, data |-> info[k].data]
           issued == [k \in DOMAIN info |->
                        StasOut(info[k].addr, tok(k), info[k].satoshis)]
<1>1. /\ chain \in Seq(Txs) /\ IsPay(pay) /\ ChangeCovered(pay)
      /\ u.out.tok.symbol = symbol /\ SumSatoshis(info) = u.out.satoshis
  BY UtxosType DEF LedgerInv, TypeOK, issueGuards
<1>2. /\ u.op \in Created(chain) /\ u.out = OutputOf(chain, u.op) /\ u.out.kind = "contract"
      /\ u.out.pkh \in Keys
  BY <1>1, UtxosType DEF OutputOf, ChainOutput, UtxoRecords, Outputs
<1>3. tx.ins = first \o Ops(pay) /\ tx.outs = issued \o ChangeOutputs(pay)
  BY DEF issueTx
<1>4. first \in Seq(Created(chain)) /\ DOMAIN first = 1..1 /\ first[1] = u.op
  BY <1>2, SingletonSeq
<1>5. /\ issued \in Seq(Outputs) /\ DOMAIN issued = DOMAIN info
      /\ \A k \in DOMAIN info :
            /\ issued[k].kind = "stas" /\ issued[k].satoshis = info[k].satoshis
            /\ issued[k].tok \in Tokens
            /\ issued[k].tok.red = u.out.pkh /\ issued[k].tok.symbol = symbol
  <2>1. PICK n \in Nat : DOMAIN info = 1..n /\ \A k \in 1..n : info[k] \in IssueInfos
    BY LenProperties, ElementOfSeq
  <2>2. \A k \in 1..n : tok(k) \in Tokens
    BY <1>2, <2>1 DEF Tokens, IssueInfos
  <2>3. \A k \in 1..n : /\ issued[k] = StasOut(info[k].addr, tok(k), info[k].satoshis)
                        /\ tok(k).red = u.out.pkh /\ tok(k).symbol = symbol
    BY <2>1
  <2>4. DOMAIN issued = 1..n
    BY <2>1
  <2>5. issued = [k \in 1..n |-> StasOut(info[k].addr, tok(k), info[k].satoshis)]
    BY <2>1
  <2> HIDE DEF tok, issued
  <2>6. ASSUME NEW k \in 1..n PROVE issued[k] \in Outputs
    <3>1. info[k].addr \in Keys /\ info[k].satoshis \in Nat
      BY <2>1 DEF IssueInfos
    <3>2. StasOut(info[k].addr, tok(k), info[k].satoshis) \in Outputs
      BY <2>2, <3>1 DEF StasOut, Outputs
    <3> QED BY <2>3, <3>2
  <2>7. issued \in [1..n -> Outputs]
    BY <2>5, <2>6
  <2>8. issued \in Seq(Outputs)
    BY <2>7, FunctionIsSeq
  <2> QED BY <2>1, <2>2, <2>3, <2>4, <2>8 DEF StasOut
<1> HIDE DEF tx, first, issued
<1>6. PaysWith(chain, tx.ins, first, pay) /\ ChangeAfter(tx.outs, issued, pay)
  BY <1>1, <1>3, <1>4, <1>5, PaymentFollows, ChangeFollows
<1>7. tx.ins[1] = u.op /\ \A i \in DOMAIN tx.ins \ {1} : OutputOf(chain, tx.ins[i]).kind = "p2pkh"
  BY <1>4, <1>6 DEF PaysWith
<1>8. \A k \in DOMAIN tx.outs : k \notin DOMAIN info =>
         tx.outs[k].kind = "p2pkh" /\ PaidBack(chain, tx, k)
  BY <1>5, <1>6, ChangeIsPaidBack
<1>9. \A k \in DOMAIN info : k \in DOMAIN tx.outs /\ tx.outs[k] = issued[k]
  BY <1>5, <1>6 DEF ChangeAfter
<1>10. MintsAs(chain, tx, info)
  BY <1>1, <1>2, <1>5, <1>7, <1>8, <1>9 DEF MintsAs
<1> QED BY <1>10 DEF Shaped, Mints, tx

LEMMA ContractTxShaped ==
  ASSUME LedgerInv, NEW inputs \in Seq(Utxos("p2pkh")), NEW pay \in Payments,
         NEW symbol \in Symbols, NEW data, NEW perToken, NEW amount \in Nat,
         contractGuards(inputs, pay, perToken, amount)
  PROVE  Shaped(chain, contractTx(inputs, pay, symbol, data, amount))
<1> DEFINE tx == contractTx(inputs, pay, symbol, data, amount)
           first == Ops(inputs)
           change == contractChange(inputs, pay, amount)
<1>1. chain \in Seq(Txs) /\ inputs # <<>> /\ amount > 0
  BY DEF LedgerInv, TypeOK, contractGuards
<1>2. PICK n \in Nat : DOMAIN inputs = 1..n /\ Len(inputs) = n
  BY LenProperties
<1>3. n > 0
  <2>1. n # 0
    BY <1>1, <1>2, EmptySeq
  <2> QED BY <2>1
<1>4. \A i \in 1..n : inputs[i] \in Utxos("p2pkh")
  BY <1>2, ElementOfSeq
<1>5. /\ first \in Seq(Created(chain)) /\ DOMAIN first = 1..n
      /\ \A i \in 1..n : /\ OutputOf(chain, first[i]).kind = "p2pkh"
                         /\ OutputOf(chain, first[i]).pkh = inputs[i].out.pkh
  <2>1. \A u \in Utxos("p2pkh") :
           /\ u.op \in Created(chain)
           /\ OutputOf(chain, u.op) = u.out /\ u.out.kind = "p2pkh"
    BY <1>1, UtxosType DEF OutputOf, ChainOutput
  <2>2. DOMAIN first = 1..n /\ first = [i \in 1..n |-> inputs[i].op]
    BY <1>2 DEF Ops
  <2> HIDE DEF first
  <2>3. first \in [1..n -> Created(chain)]
    BY <1>4, <2>1, <2>2
  <2>4. first \in Seq(Created(chain))
    BY <2>3, FunctionIsSeq
  <2> QED BY <1>4, <2>1, <2>2, <2>4
<1>6. /\ tx.ins = first \o Ops(pay)
      /\ change.kind = "p2pkh"
      /\ change.pkh = IF pay = <<>> THEN inputs[1].out.pkh ELSE pay[1].out.pkh
      /\ DOMAIN tx.outs = 1..2 /\ tx.outs[2] = change
      /\ tx.outs[1].kind = "contract" /\ tx.outs[1].pkh = inputs[1].out.pkh
      /\ tx.outs[1].satoshis = amount /\ tx.outs[1].tok.symbol = symbol
  BY DEF contractTx, contractChange, P2pkhOut
<1> HIDE DEF tx, first, change
<1>7. PaysWith(chain, tx.ins, first, pay)
  BY <1>1, <1>5, <1>6, PaymentFollows
<1>8. \A i \in DOMAIN tx.ins : OutputOf(chain, tx.ins[i]).kind = "p2pkh"
  BY <1>5, <1>7 DEF PaysWith
<1>9. /\ 1 \in DOMAIN tx.ins /\ OutputOf(chain, tx.ins[1]).kind = "p2pkh"
      /\ OutputOf(chain, tx.ins[1]).pkh = inputs[1].out.pkh
  BY <1>3, <1>5, <1>7 DEF PaysWith
<1>10. PaidBack(chain, tx, 1) /\ PaidBack(chain, tx, 2)
  BY <1>6, <1>7, <1>9 DEF PaidBack, PaysWith
<1>11. \A k \in 1..2 : PaidBack(chain, tx, k)
  BY <1>10
<1>12. Backs(chain, tx)
  BY <1>1, <1>6, <1>8, <1>11 DEF Backs
<1> QED BY <1>12 DEF Shaped, tx

-----------------------------------------------------------------------------
(* The steps *)

JobsShaped == \A c \in Calls : jobs[c].phase # "idle" => Shaped(chain, jobs[c].tx)

LEMMA AwaitKeepsShape ==
  ASSUME LedgerInv, JobsShaped, NEW c \in Calls, NEW tx, Shaped(chain, tx),
         NEW awaits, Await(c, tx, awaits)
  PROVE  JobsShaped'
<1>1. /\ jobs' = [jobs EXCEPT ![c] = [phase |-> "signing", tx |-> tx, awaits |-> awaits]]
      /\ chain' = chain
  BY DEF Await
<1>2. ASSUME NEW d \in Calls, jobs'[d].phase # "idle" PROVE Shaped(chain, jobs'[d].tx)
  <2>1. CASE d = c
    BY <1>1, <2>1 DEF LedgerInv, TypeOK
  <2>2. CASE d # c
    BY <1>1, <1>2, <2>2 DEF LedgerInv, TypeOK, JobsShaped
  <2> QED BY <2>1, <2>2
<1> QED BY <1>1, <1>2 DEF JobsShaped

LEMMA StartKeepsShape ==
  ASSUME LedgerInv, JobsShaped, NEW c \in Calls, Start(c)
  PROVE  JobsShaped'
<1>0. \A kind : \A u \in Utxos(kind) :
         /\ u.out.satoshis \in Nat /\ u.out.tok \in Tokens \cup {NoTok}
         /\ u \in UtxoRecords
  BY PaymentsFromChain DEF LedgerInv, TypeOK, UtxoRecords, Outputs
<1>1. CASE Contract(c)
  <2>0. PICK u \in Utxos("p2pkh"), pay \in Payments, symbol \in Symbols, data \in Data :
          \E more \in {<<>>} \cup {<<v>> : v \in Utxos("p2pkh") \ {u}} :
          \E perToken \in SatsPerToken, amount \in TokenAmounts :
             LET inputs == <<u>> \o more
             IN /\ \A i \in DOMAIN inputs : inputs[i].out.pkh = u.out.pkh
                /\ ToSet(inputs) \cap ToSet(pay) = {}
                /\ contractGuards(inputs, pay, perToken, amount)
                /\ Await(c, contractTx(inputs, pay, symbol, data, amount),
                         [i \in DOMAIN pay |-> "payment"] \o <<"owner">>)
    BY <1>1, Zenon DEF Contract
  <2>1. PICK more \in {<<>>} \cup {<<v>> : v \in Utxos("p2pkh") \ {u}},
             perToken \in SatsPerToken, amount \in TokenAmounts :
          /\ contractGuards(<<u>> \o more, pay, perToken, amount)
          /\ Await(c, contractTx(<<u>> \o more, pay, symbol, data, amount),
                   [i \in DOMAIN pay |-> "payment"] \o <<"owner">>)
    BY <2>0, Zenon
  <2> DEFINE inputs == <<u>> \o more
  <2>2. inputs \in Seq(Utxos("p2pkh"))
    <3>1. <<u>> \in Seq(Utxos("p2pkh")) /\ more \in Seq(Utxos("p2pkh"))
      BY SingletonSeq, EmptySeq
    <3> QED BY <3>1, ConcatProperties
  <2>3. contractGuards(inputs, pay, perToken, amount) /\ amount \in Nat
    BY <2>1, AmountsAssumption
  <2> HIDE DEF inputs
  <2>4. Shaped(chain, contractTx(inputs, pay, symbol, data, amount))
    BY <2>2, <2>3, ContractTxShaped
  <2> QED BY <2>1, <2>4, AwaitKeepsShape DEF inputs
<1>2. CASE Issue(c)
  <2>1. PICK u \in Utxos("contract"), pay \in Payments, info \in IssueLists,
             isSplittable \in BOOLEAN, symbol \in Symbols :
          /\ issueGuards(u, info, pay, symbol)
          /\ Await(c, issueTx(u, info, pay, isSplittable, symbol), OwnerThenPayment(1, pay))
    BY <1>2 DEF Issue
  <2>2. info \in Seq(IssueInfos)
    BY ListsAssumption
  <2>3. Shaped(chain, issueTx(u, info, pay, isSplittable, symbol))
    BY <2>1, <2>2, IssueTxShaped
  <2> QED BY <2>1, <2>3, AwaitKeepsShape
<1>3. CASE Transfer(c)
  <2>1. PICK u \in Utxos("stas"), dest \in Keys, pay \in Payments :
          /\ transferGuards(u, dest, pay)
          /\ Await(c, transferTx(u, dest, pay), OwnerThenPayment(1, pay))
    BY <1>3 DEF Transfer
  <2> DEFINE out == StasOut(dest, u.out.tok, u.out.satoshis)
             seg == Segment(dest, u.out.satoshis)
             outs == <<out>>
  <2>2. out \in Outputs /\ out.kind = "stas"
    BY <1>0 DEF StasOut, Outputs
  <2>3. transferTx(u, dest, pay) = BasicTx(u, outs, <<seg>>, pay) /\ ChangeCovered(pay)
    BY <2>1 DEF transferTx, transferGuards
  <2> HIDE DEF out
  <2>4. outs \in Seq(Outputs) /\ \A k \in DOMAIN outs : outs[k].kind = "p2pkh" => k = 1
    BY <2>2, SingletonSeq
  <2> HIDE DEF seg, outs
  <2>5. Shaped(chain, transferTx(u, dest, pay))
    BY <2>3, <2>4, BasicTxShaped
  <2> QED BY <2>1, <2>5, AwaitKeepsShape
<1>4. CASE Split(c)
  <2>1. PICK u \in Utxos("stas"), dests \in DestLists, pay \in Payments :
          /\ splitGuards(u, dests, pay)
          /\ Await(c, splitTx(u, dests, pay), OwnerThenPayment(1, pay))
    BY <1>4 DEF Split
  <2> DEFINE outs == StasOutputs(u.out.tok, dests)
  <2>2. outs \in Seq(Outputs)
    BY <1>0, ListsAssumption, StasOutputsType
  <2>3. \A k \in DOMAIN outs : outs[k].kind = "p2pkh" => k = 1
    BY DEF StasOutputs, StasOut
  <2>4. splitTx(u, dests, pay) = BasicTx(u, outs, dests, pay) /\ ChangeCovered(pay)
    BY <2>1 DEF splitTx, splitGuards
  <2> HIDE DEF outs
  <2>5. Shaped(chain, splitTx(u, dests, pay))
    BY <2>2, <2>3, <2>4, BasicTxShaped
  <2> QED BY <2>1, <2>5, AwaitKeepsShape
<1>5. CASE Redeem(c)
  <2>1. PICK u \in Utxos("stas"), key \in Keys, pay \in Payments :
          /\ redeemGuards(pay)
          /\ Await(c, redeemTx(u, key, pay), OwnerThenPayment(1, pay))
    BY <1>5 DEF Redeem
  <2> DEFINE out == P2pkhOut(key, u.out.satoshis)
             seg == Segment(key, u.out.satoshis)
             outs == <<out>>
  <2>2. out \in Outputs
    BY <1>0 DEF P2pkhOut, Outputs
  <2>3. redeemTx(u, key, pay) = BasicTx(u, outs, <<seg>>, pay) /\ ChangeCovered(pay)
    BY <2>1 DEF redeemTx, redeemGuards
  <2> HIDE DEF out
  <2>4. outs \in Seq(Outputs) /\ \A k \in DOMAIN outs : outs[k].kind = "p2pkh" => k = 1
    BY <2>2, SingletonSeq
  <2> HIDE DEF seg, outs
  <2>5. Shaped(chain, redeemTx(u, key, pay))
    BY <2>3, <2>4, BasicTxShaped
  <2> QED BY <2>1, <2>5, AwaitKeepsShape
<1>6. CASE RedeemSplit(c)
  <2>1. PICK u \in Utxos("stas"), key \in Keys, dests \in DestLists, pay \in Payments :
          /\ redeemSplitGuards(u, dests, pay)
          /\ Await(c, redeemSplitTx(u, key, dests, pay), OwnerThenPayment(1, pay))
    BY <1>6 DEF RedeemSplit
  <2> DEFINE out == P2pkhOut(key, redeemSats(u, dests))
             segs == <<Segment(key, redeemSats(u, dests))>> \o dests
             tokens == StasOutputs(u.out.tok, dests)
             outs == <<out>> \o tokens
  <2>2. dests \in Seq(Destinations)
    BY ListsAssumption
  <2>3. tokens \in Seq(Outputs) /\ \A k \in DOMAIN tokens : tokens[k].kind = "stas"
    <3>1. tokens \in Seq(Outputs)
      BY <1>0, <2>2, StasOutputsType
    <3> QED BY <3>1 DEF StasOutputs, StasOut
  <2>4. redeemSats(u, dests) \in Nat
    <3>1. \A x \in Destinations : x.satoshis \in Nat
      BY DEF Destinations
    <3> QED BY <1>0, <2>1, <2>2, <3>1, SumSatoshisType DEF redeemSats, redeemSplitGuards
  <2>5. out \in Outputs
    BY <2>4 DEF P2pkhOut, Outputs
  <2>6. redeemSplitTx(u, key, dests, pay) = BasicTx(u, outs, segs, pay) /\ ChangeCovered(pay)
    BY <2>1 DEF redeemSplitTx, redeemSplitGuards
  <2> HIDE DEF out, segs, tokens
  <2>7. <<out>> \in Seq(Outputs) /\ Len(<<out>>) = 1
    BY <2>5, SingletonSeq
  <2>8. PICK n \in Nat : Len(tokens) = n /\ DOMAIN tokens = 1..n
    BY <2>3, LenProperties
  <2>9. /\ outs \in Seq(Outputs) /\ Len(outs) = 1 + n
        /\ \A k \in 1..(1 + n) : outs[k] = IF k <= 1 THEN <<out>>[k] ELSE tokens[k - 1]
    BY <2>3, <2>7, <2>8, ConcatProperties
  <2>10. DOMAIN outs = 1..(1 + n)
    <3>1. outs \in Seq(Outputs) /\ Len(outs) = 1 + n
      BY <2>9
    <3> QED BY <3>1, LenProperties
  <2>11. \A k \in DOMAIN outs : outs[k].kind = "p2pkh" => k = 1
    <3>1. ASSUME NEW k \in DOMAIN outs, k # 1 PROVE outs[k].kind # "p2pkh"
      <4>1. k - 1 \in 1..n /\ outs[k] = tokens[k - 1]
        BY <2>9, <2>10, <3>1
      <4> QED BY <2>3, <2>8, <4>1
    <3> QED BY <3>1
  <2>12. outs \in Seq(Outputs)
    BY <2>9
  <2> HIDE DEF outs
  <2>13. Shaped(chain, redeemSplitTx(u, key, dests, pay))
    BY <2>6, <2>11, <2>12, BasicTxShaped
  <2> QED BY <2>1, <2>13, AwaitKeepsShape
<1>7. CASE Merge(c)
  <2>1. PICK u1 \in Utxos("stas"), u2 \in Utxos("stas"), dest \in Keys, pay \in Payments :
          /\ mergeGuards(chain, u1, u2, mergeDests(u1, u2, dest), pay)
          /\ Await(c, mergeTx(chain, u1, u2, dest, pay), OwnerThenPayment(2, pay))
    BY <1>7 DEF Merge
  <2>2. mergeDests(u1, u2, dest) \in Seq(Destinations)
    <3>1. Segment(dest, u1.out.satoshis + u2.out.satoshis) \in Destinations
      BY <1>0 DEF Segment, Destinations
    <3> QED BY <3>1, SingletonSeq DEF mergeDests
  <2>3. Shaped(chain, mergeTx(chain, u1, u2, dest, pay))
    BY <2>1, <2>2, MergeTxShaped DEF mergeTx
  <2> QED BY <2>1, <2>3, AwaitKeepsShape
<1>8. CASE MergeSplit(c)
  <2>1. PICK u1 \in Utxos("stas"), u2 \in Utxos("stas"), dests \in DestLists,
             pay \in Payments :
          /\ mergeGuards(chain, u1, u2, dests, pay)
          /\ Await(c, mergeSplitTx(chain, u1, u2, dests, pay), OwnerThenPayment(2, pay))
    BY <1>8 DEF MergeSplit
  <2>2. dests \in Seq(Destinations)
    BY <2>1, ListsAssumption
  <2>3. Shaped(chain, mergeSplitTx(chain, u1, u2, dests, pay))
    BY <2>1, <2>2, MergeTxShaped DEF mergeSplitTx
  <2> QED BY <2>1, <2>3, AwaitKeepsShape
<1> QED BY <1>1, <1>2, <1>3, <1>4, <1>5, <1>6, <1>7, <1>8 DEF Start

LEMMA SettleKeepsShape ==
  ASSUME LedgerInv, JobsShaped, NEW c \in Calls,
         CallbackSigns(c) \/ CallbackRejects(c) \/ BroadcastRefused(c)
  PROVE  JobsShaped'
<1>1. chain' = chain
  BY DEF CallbackSigns, CallbackRejects, BroadcastRefused
<1>2. ASSUME NEW d \in Calls, jobs'[d].phase # "idle"
      PROVE  jobs'[d].tx = jobs[d].tx /\ jobs[d].phase # "idle"
  <2>1. CASE d # c
    BY <1>2, <2>1 DEF CallbackSigns, CallbackRejects, BroadcastRefused, LedgerInv, TypeOK
  <2>2. CASE d = c /\ CallbackSigns(c)
    <3>1. jobs[c] \in Jobs /\ jobs[c].phase = "signing"
      BY <2>2 DEF CallbackSigns, LedgerInv, TypeOK
    <3> QED BY <2>2, <3>1 DEF CallbackSigns, LedgerInv, TypeOK, Jobs
  <2>3. CASE d = c /\ (CallbackRejects(c) \/ BroadcastRefused(c))
    BY <1>2, <2>3 DEF CallbackRejects, BroadcastRefused, IdleJob, LedgerInv, TypeOK
  <2> QED BY <2>1, <2>2, <2>3
<1> QED BY <1>1, <1>2 DEF JobsShaped

\* Older outputs do not change, so neither does what a transaction looks like.
LEMMA ShapeStays ==
  ASSUME LedgerInv, NEW tx \in BuiltTxs, Confirm(tx),
         NEW other \in BuiltTxs, Built(chain, other), Shaped(chain, other)
  PROVE  Shaped(chain', other)
<1>1. \A i \in DOMAIN other.ins : OutputOf(chain', other.ins[i]) = OutputOf(chain, other.ins[i])
  BY ConfirmLengthens DEF Built
<1>2. 1 \in DOMAIN other.ins
  BY LenProperties, EmptySeq DEF Built, BuiltTxs
<1>3. \A k : PaidBack(chain', other, k) <=> PaidBack(chain, other, k)
  BY <1>1 DEF PaidBack
<1>4. CASE Backs(chain, other)
  BY <1>1, <1>3, <1>4 DEF Shaped, Backs
<1>5. CASE Mints(chain, other)
  <2>1. PICK issued \in Seq(IssueInfos) : MintsAs(chain, other, issued)
    BY <1>5 DEF Mints
  <2>2. MintsAs(chain', other, issued)
    BY <1>1, <1>2, <1>3, <2>1 DEF MintsAs
  <2> QED BY <2>2 DEF Shaped, Mints
<1>6. CASE Moves(chain, other)
  BY <1>1, <1>2, <1>3, <1>6 DEF Shaped, Moves
<1> QED BY <1>4, <1>5, <1>6 DEF Shaped

LEMMA ConfirmKeepsShape ==
  ASSUME LedgerInv, JobsShaped, NEW c \in Calls,
         BroadcastAccepted(c) \/ BroadcastAnswerLost(c)
  PROVE  JobsShaped' /\ Shaped(chain, jobs[c].tx)
<1>1. /\ jobs[c].tx \in BuiltTxs /\ Confirm(jobs[c].tx)
      /\ \A d \in Calls : jobs'[d].phase # "idle" => jobs'[d] = jobs[d] /\ jobs[d].phase # "idle"
  BY BroadcastConfirms
<1>2. Shaped(chain, jobs[c].tx)
  BY DEF BroadcastAccepted, BroadcastAnswerLost, JobsShaped
<1>3. ASSUME NEW d \in Calls, jobs'[d].phase # "idle" PROVE Shaped(chain', jobs'[d].tx)
  <2>1. /\ jobs'[d].tx = jobs[d].tx
        /\ Built(chain, jobs[d].tx) /\ Shaped(chain, jobs[d].tx)
        /\ jobs[d].tx \in BuiltTxs
    BY <1>1, <1>3 DEF LedgerInv, TypeOK, Jobs, JobsBuilt, JobsShaped
  <2>2. Shaped(chain', jobs[d].tx)
    BY <1>1, <2>1, ShapeStays
  <2> QED BY <2>1, <2>2
<1> QED BY <1>2, <1>3 DEF JobsShaped

-----------------------------------------------------------------------------
(* Who owns what *)

\* Ordinary and backing satoshis belong to keys that had satoshis at the start,
\* so every token has such a key for its redemption key.
Issuing(out) ==
    /\ out.kind = "stas" => out.tok \in AllTokens
    /\ out.kind = "contract" => out.satoshis > 0 /\ out.tok.symbol \in Symbols
    /\ out.kind # "stas" => out.pkh \in Issuers

IssuersOnly == \A op \in Created(chain) : Issuing(OutputOf(chain, op))

ShapeInv == JobsShaped /\ IssuersOnly

\* The covenant lets a transaction that spends a token have outputs of that
\* token, one payment to its issuer, and change.
LEMMA TokenTxOutputs ==
  ASSUME LedgerInv, NEW tx \in BuiltTxs, Built(chain, tx), NetworkAccepts(chain, tx),
         SpentTokens(chain, tx) # {}, NEW k \in DOMAIN tx.outs
  PROVE  LET tok == OutputOf(chain, tx.ins[1]).tok
         IN /\ tx.outs[k].kind \in {"stas", "p2pkh"}
            /\ tx.outs[k].kind = "stas" => tx.outs[k].tok = tok
            /\ tx.outs[k].kind = "p2pkh" /\ k = 1 => tx.outs[k].pkh = tok.red
<1> DEFINE tok == OutputOf(chain, tx.ins[1]).tok
           segs == SegmentsOf(tx)
           change == Last(tx.unlock[1].pairs)
           tail == IF change = NilSegment THEN <<>>
                   ELSE <<P2pkhOut(change.pkh, change.satoshis)>>
           head == [j \in 1..Len(segs) |-> CovenantOutput(tok, j, segs[j])]
<1>1. /\ Len(segs) \in 1..4 /\ segs \in Seq(Segments)
      /\ tx.outs = CovenantOutputs(tok, segs, change)
  BY SpentTotal
<1>2. tx.outs = head \o tail
  BY <1>1 DEF CovenantOutputs
<1>3. PICK n \in 1..4 : Len(segs) = n
  BY <1>1
<1>4. \A j \in 1..n : head[j] = CovenantOutput(tok, j, segs[j])
  BY <1>3
<1> DEFINE S == {head[j] : j \in 1..n} \cup {P2pkhOut(change.pkh, change.satoshis)}
<1>5. head \in Seq(S) /\ Len(head) = n
  <2>1. head \in [1..n -> S]
    BY <1>3
  <2> HIDE DEF head, S
  <2> QED BY <2>1, FunctionIsSeq
<1>6. tail \in Seq(S) /\ \A i \in 1..Len(tail) : tail[i].kind = "p2pkh"
  <2>1. P2pkhOut(change.pkh, change.satoshis) \in S
    OBVIOUS
  <2> HIDE DEF S
  <2> QED BY <2>1, SingletonSeq, EmptySeq DEF P2pkhOut
<1> HIDE DEF tok, segs, change, tail, head, S
<1>7. PICK m \in Nat : Len(tail) = m
  BY <1>6, LenProperties
<1>8. /\ Len(tx.outs) = n + m /\ tx.outs \in Seq(S)
      /\ \A i \in 1..(n + m) : tx.outs[i] = IF i <= n THEN head[i] ELSE tail[i - n]
  BY <1>2, <1>5, <1>6, <1>7, ConcatProperties
<1>9. k \in 1..(n + m)
  <2>1. tx.outs \in Seq(S) /\ Len(tx.outs) = n + m
    BY <1>8
  <2> QED BY <2>1, LenProperties
<1>10. CASE k <= n
  <2>1. k \in 1..n /\ tx.outs[k] = CovenantOutput(tok, k, segs[k])
    BY <1>4, <1>8, <1>9, <1>10
  <2> QED BY <2>1 DEF CovenantOutput, P2pkhOut, StasOut, tok
<1>11. CASE ~(k <= n)
  <2>1. k - n \in 1..m /\ tx.outs[k] = tail[k - n] /\ k # 1
    BY <1>8, <1>9, <1>11
  <2>2. tx.outs[k].kind = "p2pkh"
    BY <1>6, <1>7, <2>1
  <2> QED BY <2>1, <2>2
<1> QED BY <1>10, <1>11

LEMMA OutputsIssuing ==
  ASSUME LedgerInv, IssuersOnly, NEW tx \in BuiltTxs, Built(chain, tx),
         NetworkAccepts(chain, tx), Shaped(chain, tx), NEW k \in DOMAIN tx.outs
  PROVE  Issuing(tx.outs[k])
<1>1. /\ 1 \in DOMAIN tx.ins /\ \A i \in DOMAIN tx.ins : Issuing(OutputOf(chain, tx.ins[i]))
  BY LenProperties, EmptySeq DEF Built, BuiltTxs, IssuersOnly
<1>2. \A j : PaidBack(chain, tx, j) => tx.outs[j].pkh \in Issuers
  BY <1>1 DEF PaidBack, Issuing
<1>3. CASE Backs(chain, tx)
  <2>1. k = 1 \/ k = 2
    BY <1>3 DEF Backs
  <2>2. PaidBack(chain, tx, k)
    BY <1>3, <2>1 DEF Backs
  <2> QED BY <1>2, <1>3, <2>1, <2>2 DEF Backs, Issuing
<1>4. CASE Mints(chain, tx)
  <2>1. PICK issued \in Seq(IssueInfos) : MintsAs(chain, tx, issued)
    BY <1>4 DEF Mints
  <2>2. OutputOf(chain, tx.ins[1]).pkh \in Issuers
    BY <1>1, <2>1 DEF MintsAs, Issuing
  <2>3. CASE k \in DOMAIN issued
    BY <2>1, <2>2, <2>3 DEF MintsAs, Issuing, AllTokens
  <2>4. CASE k \notin DOMAIN issued
    BY <1>2, <2>1, <2>4 DEF MintsAs, Issuing
  <2> QED BY <2>3, <2>4
<1>5. CASE Moves(chain, tx)
  <2> DEFINE tok == OutputOf(chain, tx.ins[1]).tok
  <2>1. SpentTokens(chain, tx) # {}
    BY <1>1, <1>5 DEF Moves, SpentTokens
  <2>2. tok \in AllTokens /\ tok.red \in Issuers
    BY <1>1, <1>5 DEF Moves, Issuing, AllTokens
  <2>3. /\ tx.outs[k].kind \in {"stas", "p2pkh"}
        /\ tx.outs[k].kind = "stas" => tx.outs[k].tok = tok
        /\ tx.outs[k].kind = "p2pkh" /\ k = 1 => tx.outs[k].pkh = tok.red
    BY <2>1, TokenTxOutputs
  <2>4. tx.outs[k].kind = "p2pkh" /\ k # 1 => tx.outs[k].pkh \in Issuers
    BY <1>2, <1>5 DEF Moves
  <2> HIDE DEF tok
  <2> QED BY <2>2, <2>3, <2>4 DEF Issuing
<1> QED BY <1>3, <1>4, <1>5 DEF Shaped

LEMMA ConfirmKeepsIssuing ==
  ASSUME LedgerInv, IssuersOnly, NEW tx \in BuiltTxs, Built(chain, tx), Confirm(tx),
         NetworkAccepts(chain, tx), Shaped(chain, tx)
  PROVE  IssuersOnly'
<1> DEFINE last == Len(chain) + 1
<1>1. /\ chain'[last] = [ins |-> tx.ins, outs |-> tx.outs]
      /\ \A op \in Created(chain) : OutputOf(chain', op) = OutputOf(chain, op)
      /\ Created(chain') = Created(chain) \cup
            {[txid |-> last, vout |-> k - 1] : k \in DOMAIN tx.outs}
  BY ConfirmLengthens
<1>2. PICK n \in Nat : DOMAIN tx.outs = 1..n
  BY LenProperties DEF BuiltTxs
<1>3. \A k \in 1..n : OutputOf(chain', [txid |-> last, vout |-> k - 1]) = tx.outs[k]
  BY <1>1 DEF OutputOf
<1>4. \A k \in DOMAIN tx.outs : Issuing(tx.outs[k])
  BY OutputsIssuing
<1> HIDE DEF last
<1>5. \A op \in Created(chain') : Issuing(OutputOf(chain', op))
  BY <1>1, <1>2, <1>3, <1>4 DEF IssuersOnly
<1>6. \A out : Issuing(out)' <=> Issuing(out)
  BY DEF Issuing, AllTokens, Issuers
<1> QED BY <1>5 DEF IssuersOnly, Issuing, AllTokens, Issuers

LEMMA InitShape ==
  ASSUME \A n \in DOMAIN Genesis : Genesis[n].kind = "p2pkh", Init
  PROVE  ShapeInv
<1>1. JobsShaped
  BY DEF Init, IdleJob, JobsShaped
<1>2. chain = <<[ins |-> <<>>, outs |-> Genesis]>> /\ chain \in Seq(Txs)
  BY InitInv DEF Init, LedgerInv, TypeOK
<1>3. ASSUME NEW op \in Created(chain) PROVE Issuing(OutputOf(chain, op))
  <2>1. op.txid \in DOMAIN chain /\ op.vout + 1 \in DOMAIN chain[op.txid].outs
    BY <1>2, CreatedType
  <2>2. op.txid = 1 /\ chain[op.txid].outs = Genesis
    BY <1>2, <2>1
  <2>3. PICK n \in DOMAIN Genesis : OutputOf(chain, op) = Genesis[n]
    BY <2>1, <2>2 DEF OutputOf
  <2> QED BY <2>3 DEF Issuing, Issuers
<1> QED BY <1>1, <1>3 DEF ShapeInv, IssuersOnly

LEMMA NextKeepsShape ==
  LedgerInv /\ ShapeInv /\ [Next]_vars => ShapeInv'
<1> SUFFICES ASSUME LedgerInv, ShapeInv, [Next]_vars PROVE ShapeInv'
  OBVIOUS
<1>0. chain' = chain => IssuersOnly'
  BY DEF ShapeInv, IssuersOnly, Issuing, AllTokens, Issuers
<1>1. CASE UNCHANGED vars
  BY <1>0, <1>1 DEF vars, ShapeInv, JobsShaped
<1>2. ASSUME NEW c \in Calls, Start(c) PROVE ShapeInv'
  BY <1>0, <1>2, StartKeepsShape, StartLeavesChain DEF ShapeInv
<1>3. ASSUME NEW c \in Calls, CallbackSigns(c) \/ CallbackRejects(c) \/ BroadcastRefused(c)
      PROVE  ShapeInv'
  BY <1>0, <1>3, SettleKeepsShape, SettleKeepsInv DEF ShapeInv
<1>4. ASSUME NEW c \in Calls, BroadcastAccepted(c) \/ BroadcastAnswerLost(c)
      PROVE  ShapeInv'
  <2>1. JobsShaped' /\ Shaped(chain, jobs[c].tx)
    BY <1>4, ConfirmKeepsShape DEF ShapeInv
  <2>2. /\ jobs[c].tx \in BuiltTxs /\ Built(chain, jobs[c].tx)
        /\ NetworkAccepts(chain, jobs[c].tx) /\ Confirm(jobs[c].tx)
    BY <1>4, BroadcastConfirms
  <2>3. IssuersOnly'
    BY <2>1, <2>2, ConfirmKeepsIssuing DEF ShapeInv
  <2> QED BY <2>1, <2>3 DEF ShapeInv
<1> QED BY <1>1, <1>2, <1>3, <1>4 DEF Next, Progress

-----------------------------------------------------------------------------
(* The amounts of the supply as totals *)

ContractOps(b) ==
    {op \in Unspent(chain) : /\ OutputOf(chain, op).kind = "contract"
                             /\ OutputOf(chain, op).pkh = b.red
                             /\ OutputOf(chain, op).tok.symbol = b.symbol}

OwnedOps(tok, k) == {op \in HeldOps(tok) : OutputOf(chain, op).pkh = k}

LEMMA BackingIsTotal ==
  /\ Backing = [b \in AllBackings |-> Total(chain, ContractOps(b))]
  /\ Backing' = [b \in AllBackings |-> Total(chain', ContractOps(b)')]
<1> DEFINE contracts == {op \in Unspent(chain) : ChainOutput(op).kind = "contract"}
           of(b) == {op \in contracts : /\ ChainOutput(op).pkh = b.red
                                        /\ ChainOutput(op).tok.symbol = b.symbol}
<1>1. ASSUME NEW b PROVE SumOver(of(b)) = Total(chain, ContractOps(b))
  <2>1. of(b) = ContractOps(b)
    BY DEF ContractOps, ChainOutput, OutputOf
  <2> HIDE DEF of
  <2> QED BY <2>1, Zenon DEF SumOver, Total, MapThenSumSet, MapThenFoldSet, ChainOutput, OutputOf
<1>2. ASSUME NEW b PROVE SumOver(of(b))' = Total(chain', ContractOps(b)')
  <2>1. of(b)' = ContractOps(b)'
    BY DEF ContractOps, ChainOutput, OutputOf
  <2> HIDE DEF of
  <2> QED BY <2>1, Zenon DEF SumOver, Total, MapThenSumSet, MapThenFoldSet, ChainOutput, OutputOf
<1>3. Backing = [b \in AllBackings |-> SumOver(of(b))]
  BY DEF Backing
<1>4. Backing' = [b \in AllBackings |-> SumOver(of(b))']
  BY DEF Backing, AllBackings, Issuers
<1> HIDE DEF of
<1> QED BY <1>1, <1>2, <1>3, <1>4

LEMMA BalanceIsTotal ==
  /\ Balance = [tok \in AllTokens |-> [k \in Keys |-> Total(chain, OwnedOps(tok, k))]]
  /\ Balance' = [tok \in AllTokens |-> [k \in Keys |-> Total(chain', OwnedOps(tok, k)')]]
<1> DEFINE of(tok, k) == {op \in {x \in Holdings : ChainOutput(x).tok = tok} :
                            ChainOutput(op).pkh = k}
<1>1. ASSUME NEW tok, NEW k PROVE SumOver(of(tok, k)) = Total(chain, OwnedOps(tok, k))
  <2>1. of(tok, k) = OwnedOps(tok, k)
    BY DEF OwnedOps, HeldOps, ChainOutput, OutputOf
  <2> HIDE DEF of
  <2> QED BY <2>1, Zenon DEF SumOver, Total, MapThenSumSet, MapThenFoldSet, ChainOutput, OutputOf
<1>2. ASSUME NEW tok, NEW k PROVE SumOver(of(tok, k))' = Total(chain', OwnedOps(tok, k)')
  <2>1. of(tok, k)' = OwnedOps(tok, k)'
    BY DEF OwnedOps, HeldOps, ChainOutput, OutputOf
  <2> HIDE DEF of
  <2> QED BY <2>1, Zenon DEF SumOver, Total, MapThenSumSet, MapThenFoldSet, ChainOutput, OutputOf
<1>3. Balance = [tok \in AllTokens |-> [k \in Keys |-> SumOver(of(tok, k))]]
  BY DEF Balance
<1>4. Balance' = [tok \in AllTokens |-> [k \in Keys |-> SumOver(of(tok, k))']]
  BY DEF Balance, AllTokens, Issuers
<1> HIDE DEF of
<1> QED BY <1>1, <1>2, <1>3, <1>4

LEMMA OpsOwned ==
  ASSUME LedgerInv, NEW tok
  PROVE  /\ \A k : OwnedOps(tok, k) \subseteq Created(chain)
         /\ \A b : ContractOps(b) \subseteq Created(chain)
         /\ \A op \in HeldOps(tok) : OutputOf(chain, op).pkh \in Keys
<1>1. HeldOps(tok) \subseteq Created(chain)
  BY OpsCreated
<1>2. \A op \in Created(chain) : OutputOf(chain, op).pkh \in Keys
  BY CreatedType DEF LedgerInv, TypeOK, OutputOf, Outputs
<1> QED BY <1>1, <1>2 DEF OwnedOps, ContractOps, Unspent

\* The holders of a token hold together what is outstanding.
LEMMA HoldersHoldAll ==
  ASSUME IsFiniteSet(Keys), chain \in Seq(Txs), chain' \in Seq(Txs),
         IsFiniteSet(Created(chain)), IsFiniteSet(Created(chain')), NEW tok \in AllTokens
  PROVE  /\ SumFunction(Balance[tok]) = OutstandingAmount(tok)
         /\ SumFunction((Balance')[tok]) = OutstandingAmount(tok)'
<1> DEFINE ops == HeldOps(tok)
           later == HeldOps(tok)'
           now == Balance[tok]
           then == (Balance')[tok]
<1>1. ops \subseteq Created(chain) /\ later \subseteq Created(chain')
  BY DEF HeldOps, Holdings, Unspent
<1>2. IsFiniteSet(ops) /\ IsFiniteSet(later)
  BY <1>1, FS_Subset
<1>3. /\ DOMAIN now = Keys
      /\ \A k \in Keys : now[k] = Total(chain, {op \in ops : OutputOf(chain, op).pkh = k})
  BY BalanceIsTotal DEF OwnedOps
<1>4. /\ DOMAIN then = Keys
      /\ \A k \in Keys : then[k] = Total(chain', {op \in later : OutputOf(chain', op).pkh = k})
  BY BalanceIsTotal DEF OwnedOps, OutputOf
<1> HIDE DEF now, then, ops, later
<1>5. SumFunction(now) = Total(chain, ops)
  BY <1>1, <1>2, <1>3, OwnersAddUp
<1>6. SumFunction(then) = Total(chain', later)
  BY <1>1, <1>2, <1>4, OwnersAddUp
<1> QED BY <1>5, <1>6, AmountsAreTotals DEF ops, later, now, then

-----------------------------------------------------------------------------
(* How a confirmed transaction moves them *)

NewPlaces(tx) == {[txid |-> Len(chain) + 1, vout |-> k - 1] : k \in DOMAIN tx.outs}

LEMMA ConfirmUnspent ==
  ASSUME LedgerInv, InputsCreated, NEW tx \in BuiltTxs, Built(chain, tx), Confirm(tx)
  PROVE  /\ Unspent(chain') = {op \in Unspent(chain) : \A i \in DOMAIN tx.ins : op # tx.ins[i]}
                                \cup NewPlaces(tx)
         /\ \A op \in NewPlaces(tx) : op \in Created(chain') /\ op \notin Created(chain)
         /\ \A k \in DOMAIN tx.outs :
               OutputOf(chain', [txid |-> Len(chain) + 1, vout |-> k - 1]) = tx.outs[k]
<1> DEFINE last == Len(chain) + 1
<1>1. /\ chain'[last] = [ins |-> tx.ins, outs |-> tx.outs]
      /\ \A t \in DOMAIN chain : chain'[t] = chain[t]
      /\ \A op \in Created(chain) : op.txid \in DOMAIN chain
      /\ Created(chain') = Created(chain) \cup NewPlaces(tx)
  BY ConfirmLengthens DEF NewPlaces
<1>2. DOMAIN chain' = DOMAIN chain \cup {last} /\ last \notin DOMAIN chain
  <2>1. DOMAIN chain' = DOMAIN chain \cup {last}
    BY ConfirmHoldings
  <2>2. last \notin DOMAIN chain
    BY LenProperties DEF LedgerInv, TypeOK
  <2> QED BY <2>1, <2>2
<1>3. \A op \in NewPlaces(tx) : op.txid = last
  BY DEF NewPlaces
<1>4. PICK n \in Nat : DOMAIN tx.outs = 1..n
  BY LenProperties DEF BuiltTxs
<1>5. \A k \in 1..n : OutputOf(chain', [txid |-> last, vout |-> k - 1]) = tx.outs[k]
  BY <1>1 DEF OutputOf
<1>6. Spent(chain) \subseteq Created(chain)
  BY DEF Spent, ToSet, InputsCreated, InputsExist
<1>7. \A i \in DOMAIN tx.ins : tx.ins[i] \in Created(chain)
  BY DEF Built
<1>8. \A op \in NewPlaces(tx) : op \notin Created(chain)
  BY <1>1, <1>2, <1>3
<1> HIDE DEF last
<1>9. Spent(chain') = Spent(chain) \cup {tx.ins[i] : i \in DOMAIN tx.ins}
  BY <1>1, <1>2 DEF Spent, ToSet
<1>10. Unspent(chain') = {op \in Unspent(chain) : \A i \in DOMAIN tx.ins : op # tx.ins[i]}
                           \cup NewPlaces(tx)
  BY <1>1, <1>6, <1>7, <1>8, <1>9 DEF Unspent
<1> QED BY <1>1, <1>4, <1>5, <1>8, <1>10 DEF last

\* Contracts come and go with the outputs and inputs of that kind.
LEMMA ConfirmContracts ==
  ASSUME LedgerInv, InputsCreated, NEW tx \in BuiltTxs, Built(chain, tx), Confirm(tx), NEW b
  PROVE  LET backs(op) == /\ OutputOf(chain', op).kind = "contract"
                          /\ OutputOf(chain', op).pkh = b.red
                          /\ OutputOf(chain', op).tok.symbol = b.symbol
         IN ContractOps(b)' = {op \in ContractOps(b) : \A i \in DOMAIN tx.ins : op # tx.ins[i]}
                                \cup {op \in NewPlaces(tx) : backs(op)}
<1>1. Unspent(chain') = {op \in Unspent(chain) : \A i \in DOMAIN tx.ins : op # tx.ins[i]}
                          \cup NewPlaces(tx)
  BY ConfirmUnspent
<1>2. \A op \in Unspent(chain) : OutputOf(chain', op) = OutputOf(chain, op)
  BY ConfirmLengthens DEF Unspent
<1>3. ContractOps(b)' = {op \in Unspent(chain') : /\ OutputOf(chain', op).kind = "contract"
                                                  /\ OutputOf(chain', op).pkh = b.red
                                                  /\ OutputOf(chain', op).tok.symbol = b.symbol}
  BY DEF ContractOps, OutputOf
<1> QED BY <1>1, <1>2, <1>3 DEF ContractOps

LEMMA ConfirmOwned ==
  ASSUME LedgerInv, InputsCreated, NEW tx \in BuiltTxs, Built(chain, tx), Confirm(tx),
         NEW tok, NEW k
  PROVE  OwnedOps(tok, k)' = {op \in OwnedOps(tok, k) : \A i \in DOMAIN tx.ins : op # tx.ins[i]}
                               \cup {op \in NewOf(tx, tok) : OutputOf(chain', op).pkh = k}
<1>1. HeldOps(tok)' = {op \in HeldOps(tok) : \A i \in DOMAIN tx.ins : op # tx.ins[i]}
                        \cup NewOf(tx, tok)
  BY ConfirmHeld
<1>2. \A op \in HeldOps(tok) : OutputOf(chain', op) = OutputOf(chain, op)
  BY ConfirmLengthens, OpsCreated
<1>3. OwnedOps(tok, k)' = {op \in HeldOps(tok)' : OutputOf(chain', op).pkh = k}
  BY DEF OwnedOps, OutputOf
<1> QED BY <1>1, <1>2, <1>3 DEF OwnedOps

\* What is there, what comes, what is left and what went.
Accounts(before, came, after, went) ==
    /\ before \in Nat /\ came \in Nat /\ after \in Nat /\ went \in Nat
    /\ before + came = after + went

LEMMA ConfirmAccounts ==
  ASSUME LedgerInv, IsFiniteSet(Created(chain)), NEW tx \in BuiltTxs, Confirm(tx),
         NEW old, old \subseteq Created(chain), NEW gone, gone \subseteq old,
         NEW new, new \subseteq Created(chain'), new \cap Created(chain) = {},
         NEW later, later = {op \in old : op \notin gone} \cup new
  PROVE  Accounts(Total(chain, old), Total(chain', new), Total(chain', later), Total(chain, gone))
<1> DEFINE kept == {op \in old : op \notin gone}
<1>1. /\ kept \subseteq Created(chain) /\ gone \subseteq Created(chain)
      /\ kept \cup gone = old /\ kept \cap gone = {} /\ kept \cap new = {}
      /\ later = kept \cup new
  OBVIOUS
<1> HIDE DEF kept
<1>2. /\ IsFiniteSet(kept) /\ IsFiniteSet(gone)
      /\ \A op \in kept : Amount(chain, op) \in Nat /\ Amount(chain', op) \in Nat
      /\ \A op \in gone : Amount(chain, op) \in Nat
      /\ Total(chain, kept) \in Nat /\ Total(chain, gone) \in Nat
      /\ Total(chain', kept) = Total(chain, kept)
  BY <1>1, OlderTotal
<1>3. IsFiniteSet(new) /\ (\A op \in new : Amount(chain', op) \in Nat) /\ Total(chain', new) \in Nat
  <2>1. IsFiniteSet(Created(chain')) /\ chain' \in Seq(Txs)
    BY CreatedFinite, ConfirmLengthens
  <2>2. IsFiniteSet(new)
    BY <2>1, FS_Subset
  <2>3. \A op \in new : Amount(chain', op) \in Nat
    BY <2>1, AmountType
  <2> QED BY <2>2, <2>3, TotalType
<1>4. Total(chain, old) = Total(chain, kept) + Total(chain, gone)
  <2>1. \A op \in kept \cup gone : Amount(chain, op) \in Nat
    BY <1>2
  <2>2. Total(chain, kept \cup gone) = Total(chain, kept) + Total(chain, gone)
    BY <1>1, <1>2, <2>1, TotalUnion
  <2> QED BY <1>1, <2>2
<1>5. Total(chain', later) = Total(chain, kept) + Total(chain', new)
  <2>1. \A op \in kept \cup new : Amount(chain', op) \in Nat
    BY <1>2, <1>3
  <2>2. Total(chain', kept \cup new) = Total(chain', kept) + Total(chain', new)
    BY <1>1, <1>2, <1>3, <2>1, TotalUnion
  <2> QED BY <1>1, <1>2, <2>2
<1> QED BY <1>2, <1>3, <1>4, <1>5 DEF Accounts

SpentOf(ops, tx) == {op \in ops : \E i \in DOMAIN tx.ins : op = tx.ins[i]}

NewContracts(tx, b) ==
    {op \in NewPlaces(tx) : /\ OutputOf(chain', op).kind = "contract"
                            /\ OutputOf(chain', op).pkh = b.red
                            /\ OutputOf(chain', op).tok.symbol = b.symbol}

NewOwned(tx, tok, k) == {op \in NewOf(tx, tok) : OutputOf(chain', op).pkh = k}

LEMMA BackingAccounts ==
  ASSUME LedgerInv, InputsCreated, IsFiniteSet(Created(chain)),
         NEW tx \in BuiltTxs, Built(chain, tx), Confirm(tx), NEW b \in AllBackings
  PROVE  Accounts(Backing[b], Total(chain', NewContracts(tx, b)),
                  (Backing')[b], Total(chain, SpentOf(ContractOps(b), tx)))
<1> DEFINE old == ContractOps(b)
           gone == SpentOf(old, tx)
           new == NewContracts(tx, b)
<1>1. old \subseteq Created(chain) /\ gone \subseteq old
  BY OpsOwned DEF SpentOf
<1>2. new \subseteq Created(chain') /\ new \cap Created(chain) = {}
  BY ConfirmUnspent DEF NewContracts
<1>3. ContractOps(b)' = {op \in old : op \notin gone} \cup new
  BY ConfirmContracts DEF NewContracts, SpentOf
<1>4. Backing[b] = Total(chain, old) /\ (Backing')[b] = Total(chain', ContractOps(b)')
  BY BackingIsTotal
<1> HIDE DEF old, gone, new
<1>5. Accounts(Total(chain, old), Total(chain', new), Total(chain', ContractOps(b)'),
               Total(chain, gone))
  BY <1>1, <1>2, <1>3, ConfirmAccounts
<1> QED BY <1>4, <1>5 DEF old, gone, new

LEMMA BalanceAccounts ==
  ASSUME LedgerInv, InputsCreated, IsFiniteSet(Created(chain)),
         NEW tx \in BuiltTxs, Built(chain, tx), Confirm(tx), NEW tok \in AllTokens, NEW k \in Keys
  PROVE  Accounts(Balance[tok][k], Total(chain', NewOwned(tx, tok, k)),
                  (Balance')[tok][k], Total(chain, SpentOf(OwnedOps(tok, k), tx)))
<1> DEFINE old == OwnedOps(tok, k)
           gone == SpentOf(old, tx)
           new == NewOwned(tx, tok, k)
<1>1. old \subseteq Created(chain) /\ gone \subseteq old
  BY OpsOwned DEF SpentOf
<1>2. new \subseteq Created(chain') /\ new \cap Created(chain) = {}
  BY ConfirmHeld DEF NewOwned
<1>3. OwnedOps(tok, k)' = {op \in old : op \notin gone} \cup new
  BY ConfirmOwned DEF NewOwned, SpentOf
<1>4. Balance[tok][k] = Total(chain, old) /\ (Balance')[tok][k] = Total(chain', OwnedOps(tok, k)')
  BY BalanceIsTotal
<1> HIDE DEF old, gone, new
<1>5. Accounts(Total(chain, old), Total(chain', new), Total(chain', OwnedOps(tok, k)'),
               Total(chain, gone))
  BY <1>1, <1>2, <1>3, ConfirmAccounts
<1> QED BY <1>4, <1>5 DEF old, gone, new

\* Nothing there, nothing counted.
LEMMA NothingCounts ==
  ASSUME NEW before, NEW came, NEW after, NEW went, Accounts(before, came, after, went)
  PROVE  /\ went = 0 => after >= before
         /\ went = 0 /\ came = 0 => after = before
  BY DEF Accounts

-----------------------------------------------------------------------------
(* The steps of the ledger are steps of the supply *)

LEMMA SupplySums ==
  ASSUME NEW w
  PROVE  Supply!SumFunction(w) = SumFunction(w) /\ Supply!Total(w) = SumFunction(w)
<1>1. Supply!SumFunction(w) = SumFunction(w)
  BY Zenon DEF SumFunction, SumFunctionOnSet, FoldFunctionOnSet, MapThenFoldSet,
               Supply!SumFunction, Supply!SumFunctionOnSet, Supply!FoldFunctionOnSet,
               Supply!MapThenFoldSet
<1> QED BY <1>1 DEF Supply!Total

TokensOf(b) == {tok \in AllTokens : [red |-> tok.red, symbol |-> tok.symbol] = b}

\* A transaction that spends no token takes none from anybody and redeems none.
LEMMA NobodyLoses ==
  ASSUME LedgerInv, InputsCreated, IsFiniteSet(Created(chain)),
         NEW tx \in BuiltTxs, Built(chain, tx), Confirm(tx), SpentTokens(chain, tx) = {}
  PROVE  /\ \A tok \in AllTokens, k \in Keys :
               Accounts(Balance[tok][k], Total(chain', NewOwned(tx, tok, k)),
                        (Balance')[tok][k], 0)
         /\ [t \in AllTokens |-> RedeemedAmount(t)'] = [t \in AllTokens |-> RedeemedAmount(t)]
<1>1. ASSUME NEW tok \in AllTokens, NEW k \in Keys
      PROVE  Accounts(Balance[tok][k], Total(chain', NewOwned(tx, tok, k)), (Balance')[tok][k], 0)
  <2>1. SpentOf(OwnedOps(tok, k), tx) = {}
    BY DEF SpentOf, OwnedOps, HeldOps, Holdings, SpentTokens, ChainOutput, OutputOf
  <2> QED BY <2>1, BalanceAccounts, TotalEmpty
<1>2. \A tok : RedeemedAmount(tok)' = RedeemedAmount(tok)
  BY IssueAdds
<1> QED BY <1>1, <1>2

\* A contract() puts its satoshis behind one symbol.
LEMMA BackStep ==
  ASSUME LedgerInv, InputsCreated, IsFiniteSet(Created(chain)), IssuersOnly,
         NEW tx \in BuiltTxs, Built(chain, tx), Confirm(tx), NetworkAccepts(chain, tx),
         Backs(chain, tx)
  PROVE  Supply!Back
<1> DEFINE last == Len(chain) + 1
           place == [txid |-> last, vout |-> 1 - 1]
           other == [txid |-> last, vout |-> 2 - 1]
           b == [red |-> tx.outs[1].pkh, symbol |-> tx.outs[1].tok.symbol]
<1>1. SpentTokens(chain, tx) = {}
  BY DEF Backs, SpentTokens
<1>2. b \in AllBackings
  <2>1. Issuing(tx.outs[1])
    BY OutputsIssuing DEF Shaped, Backs
  <2> QED BY <2>1 DEF Backs, Issuing, AllBackings
<1>3. 1 \in DOMAIN tx.outs /\ 2 \in DOMAIN tx.outs /\ DOMAIN tx.outs = {1, 2}
  <2>1. DOMAIN tx.outs = 1..2
    BY DEF Backs
  <2> QED BY <2>1
<1>4. /\ NewPlaces(tx) = {place, other}
      /\ OutputOf(chain', place) = tx.outs[1] /\ OutputOf(chain', other) = tx.outs[2]
  <2>1. NewPlaces(tx) = {place, other}
    BY <1>3 DEF NewPlaces
  <2>2. \A k \in DOMAIN tx.outs : OutputOf(chain', [txid |-> last, vout |-> k - 1]) = tx.outs[k]
    BY ConfirmUnspent
  <2> QED BY <1>3, <2>1, <2>2
<1>5. /\ tx.outs[1].kind = "contract" /\ tx.outs[2].kind = "p2pkh"
      /\ tx.outs[1].satoshis > 0 /\ tx.outs[1].satoshis \in Nat
  <2>1. tx.outs \in Seq(Outputs)
    BY DEF BuiltTxs
  <2>2. tx.outs[1] \in Outputs
    BY <1>3, <2>1, LenProperties, ElementOfSeq
  <2>3. tx.outs[1].satoshis \in Nat
    BY <2>2 DEF Outputs
  <2> QED BY <2>3 DEF Backs
<1> HIDE DEF place, other, last
<1>6. ASSUME NEW tok \in AllTokens, NEW k \in Keys PROVE (Balance')[tok][k] = Balance[tok][k]
  <2>1. NewOf(tx, tok) = {}
    <3>1. \A j \in DOMAIN tx.outs : tx.outs[j].kind # "stas"
      BY <1>3, <1>5
    <3>2. \A op \in TokenOutpoints(tx, Len(chain) + 1) : FALSE
      <4>1. \A j \in DOMAIN tx.outs : j \in Int
        BY <1>3
      <4> QED BY <3>1, <4>1 DEF TokenOutpoints
    <3> QED BY <3>2 DEF NewOf
  <2>2. NewOwned(tx, tok, k) = {}
    BY <2>1 DEF NewOwned
  <2>3. Accounts(Balance[tok][k], 0, (Balance')[tok][k], 0)
    <3>1. Accounts(Balance[tok][k], Total(chain', NewOwned(tx, tok, k)), (Balance')[tok][k], 0)
      BY <1>1, NobodyLoses
    <3> QED BY <2>2, <3>1, TotalEmpty
  <2> QED BY <2>3, NothingCounts
<1>7. Balance' = Balance
  BY <1>6, BalanceIsTotal
<1>8. ASSUME NEW o \in AllBackings
      PROVE  Accounts(Backing[o], Total(chain', NewContracts(tx, o)), (Backing')[o], 0)
  <2>1. SpentOf(ContractOps(o), tx) = {}
    BY DEF SpentOf, ContractOps, Backs
  <2> QED BY <2>1, BackingAccounts, TotalEmpty
<1>9. (Backing')[b] > Backing[b]
  <2>1. NewContracts(tx, b) = {place}
    BY <1>4, <1>5 DEF NewContracts
  <2>2. Amount(chain', place) = tx.outs[1].satoshis
    BY <1>4 DEF Amount
  <2>3. Total(chain', {place}) = tx.outs[1].satoshis
    BY <1>5, <2>2, TotalOfOne
  <2> HIDE DEF b
  <2>4. Accounts(Backing[b], tx.outs[1].satoshis, (Backing')[b], 0)
    BY <1>2, <1>8, <2>1, <2>3
  <2> QED BY <1>5, <2>4 DEF Accounts
<1>10. ASSUME NEW o \in AllBackings \ {b} PROVE (Backing')[o] = Backing[o]
  <2>1. NewContracts(tx, o) = {}
    <3>1. o = [red |-> o.red, symbol |-> o.symbol] /\ o # b
      BY DEF AllBackings
    <3> QED BY <1>4, <1>5, <3>1 DEF NewContracts
  <2>2. Accounts(Backing[o], 0, (Backing')[o], 0)
    BY <1>8, <2>1, TotalEmpty
  <2> QED BY <2>2, NothingCounts
<1>11. [t \in AllTokens |-> RedeemedAmount(t)]' = [t \in AllTokens |-> RedeemedAmount(t)]
  <2>1. [t \in AllTokens |-> RedeemedAmount(t)]' = [t \in AllTokens |-> RedeemedAmount(t)']
    BY DEF AllTokens, Issuers
  <2> QED BY <1>1, <2>1, NobodyLoses
<1> HIDE DEF b
<1> QED BY <1>2, <1>7, <1>9, <1>10, <1>11 DEF Supply!Back

\* Minting adds up what the tokens of a backing gain.
LEMMA MintedIsSum ==
  ASSUME IsFiniteSet(Tokens), NEW b, NEW before, NEW after, NEW w,
         \A t \in TokensOf(b) : SumFunction(after[t]) - SumFunction(before[t]) = w[t]
  PROVE  /\ IsFiniteSet(TokensOf(b))
         /\ Supply!Minted(before, after, b) = SumFunctionOnSet(w, TokensOf(b))
<1> DEFINE v == [t \in TokensOf(b) |-> Supply!Total(after[t]) - Supply!Total(before[t])]
<1>1. IsFiniteSet(TokensOf(b))
  <2>1. TokensOf(b) \subseteq Tokens
    BY DEF TokensOf, AllTokens
  <2> QED BY <2>1, FS_Subset
<1>2. Supply!Minted(before, after, b) = Supply!SumFunction(v)
  BY DEF Supply!Minted, Supply!BackingOf, TokensOf
<1>3. \A x : Supply!Total(x) = SumFunction(x)
  BY SupplySums
<1>4. \A t \in TokensOf(b) : v[t] = w[t]
  BY <1>3
<1>5. DOMAIN v = TokensOf(b)
  OBVIOUS
<1> HIDE DEF v
<1>6. Supply!SumFunction(v) = SumFunction(v)
  BY SupplySums
<1>7. SumFunction(v) = SumFunctionOnSet(v, DOMAIN v)
  BY Zenon DEF SumFunction, SumFunctionOnSet, FoldFunction, FoldFunctionOnSet
<1>8. SumFunctionOnSet(v, TokensOf(b)) = SumFunctionOnSet(w, TokensOf(b))
  BY <1>1, <1>4, SumOfSame
<1> QED BY <1>1, <1>2, <1>5, <1>6, <1>7, <1>8

\* The new tokens of an issue all have the key and symbol of its contract.
LEMMA MintedTokens ==
  ASSUME LedgerInv, IssuersOnly, NEW tx \in BuiltTxs, Built(chain, tx), Confirm(tx),
         NEW issued \in Seq(IssueInfos), MintsAs(chain, tx, issued)
  PROVE  LET contract == OutputOf(chain, tx.ins[1])
             new == TokenOutpoints(tx, Len(chain) + 1)
         IN /\ contract.satoshis \in Nat /\ contract.satoshis > 0
            /\ [red |-> contract.pkh, symbol |-> contract.tok.symbol] \in AllBackings
            /\ \A op \in new :
                  OutputOf(chain', op).tok
                    \in TokensOf([red |-> contract.pkh, symbol |-> contract.tok.symbol])
            /\ IsFiniteSet(new) /\ \A op \in new : Amount(chain', op) \in Nat
            /\ Total(chain', new) = contract.satoshis
<1> DEFINE contract == OutputOf(chain, tx.ins[1])
           last == Len(chain) + 1
           new == TokenOutpoints(tx, last)
           n == Len(issued)
<1>1. /\ 1 \in DOMAIN tx.ins /\ tx.ins[1] \in Created(chain) /\ Issuing(contract)
      /\ contract \in Outputs
  <2>1. 1 \in DOMAIN tx.ins
    BY LenProperties, EmptySeq DEF Built, BuiltTxs
  <2>2. tx.ins[1] \in Created(chain)
    BY <2>1 DEF Built
  <2>3. contract \in Outputs
    BY <2>2, CreatedType DEF LedgerInv, TypeOK, OutputOf
  <2> QED BY <2>1, <2>2, <2>3 DEF IssuersOnly
<1>2. /\ contract.kind = "contract" /\ SumSatoshis(issued) = contract.satoshis
      /\ \A k \in DOMAIN issued :
            /\ k \in DOMAIN tx.outs
            /\ tx.outs[k].kind = "stas" /\ tx.outs[k].satoshis = issued[k].satoshis
            /\ tx.outs[k].tok \in Tokens
            /\ tx.outs[k].tok.red = contract.pkh
            /\ tx.outs[k].tok.symbol = contract.tok.symbol
      /\ \A k \in DOMAIN tx.outs : k \notin DOMAIN issued => tx.outs[k].kind = "p2pkh"
  BY DEF MintsAs
<1>3. /\ contract.satoshis \in Nat /\ contract.satoshis > 0
      /\ contract.pkh \in Issuers /\ contract.tok.symbol \in Symbols
  BY <1>1, <1>2 DEF Issuing, Outputs
<1>4. /\ \A op \in new :
            /\ op.txid = last /\ op.vout + 1 \in DOMAIN tx.outs
            /\ op = [txid |-> last, vout |-> (op.vout + 1) - 1]
            /\ tx.outs[op.vout + 1].kind = "stas"
            /\ OutputOf(chain', op) = tx.outs[op.vout + 1]
      /\ TokenOutputs' = TokenOutputs \cup new
  BY ConfirmOrigins
<1>5. chain'[last] = [ins |-> tx.ins, outs |-> tx.outs] /\ chain' \in Seq(Txs)
  BY ConfirmLengthens
<1>6. DOMAIN issued = 1..n /\ n \in Nat
  BY LenProperties
<1>7. \A k \in 1..n : OutputOf(chain', [txid |-> last, vout |-> k - 1]) = tx.outs[k]
  BY <1>5 DEF OutputOf
<1> HIDE DEF contract, n
<1>8. new = OutPlaces(last, n)
  <2>1. ASSUME NEW op \in new PROVE op \in OutPlaces(last, n)
    <3>1. op.vout + 1 \in 1..n
      BY <1>2, <1>4, <1>6
    <3> QED BY <1>4, <3>1 DEF OutPlaces
  <2>2. ASSUME NEW op \in OutPlaces(last, n) PROVE op \in new
    <3>1. PICK k \in 1..n : op = [txid |-> last, vout |-> k - 1]
      BY DEF OutPlaces
    <3>2. k \in DOMAIN tx.outs /\ tx.outs[k].kind = "stas" /\ op.vout + 1 = k
      BY <1>2, <1>6, <3>1
    <3> QED BY <3>1, <3>2 DEF TokenOutpoints
  <2> QED BY <2>1, <2>2
<1>9. \A op \in new : /\ OutputOf(chain', op).tok \in Tokens
                      /\ OutputOf(chain', op).tok.red = contract.pkh
                      /\ OutputOf(chain', op).tok.symbol = contract.tok.symbol
  BY <1>2, <1>4
<1>10. \A op \in new : Amount(chain', op) \in Nat
  <2>1. new \subseteq Created(chain')
    BY <1>4 DEF TokenOutputs
  <2> QED BY <1>5, <2>1, AmountType
<1>11. Total(chain', OutPlaces(last, n)) = SumSatoshis(issued)
  <2>1. \A x \in IssueInfos : x.satoshis \in Nat
    BY DEF IssueInfos
  <2>2. \A k \in 1..Len(issued) :
           Amount(chain', [txid |-> last, vout |-> k - 1]) = issued[k].satoshis
    BY <1>2, <1>6, <1>7 DEF Amount, n
  <2> HIDE DEF last
  <2> QED BY <2>1, <2>2, TotalOfPlaces DEF n
<1>12. IsFiniteSet(OutPlaces(last, n))
  BY <1>6, PlacesNext
<1> HIDE DEF new, last
<1>13. [red |-> contract.pkh, symbol |-> contract.tok.symbol] \in AllBackings
  BY <1>3 DEF AllBackings
<1>14. \A op \in new : OutputOf(chain', op).tok
                          \in TokensOf([red |-> contract.pkh, symbol |-> contract.tok.symbol])
  BY <1>3, <1>9 DEF TokensOf, AllTokens
<1> QED BY <1>2, <1>3, <1>8, <1>10, <1>11, <1>12, <1>13, <1>14 DEF new, last, contract

\* An issue() takes one contract's satoshis and adds them to tokens of its key
\* and symbol.
LEMMA MintStep ==
  ASSUME LedgerInv, InputsCreated, IsFiniteSet(Created(chain)), IssuersOnly,
         IsFiniteSet(Keys), IsFiniteSet(Tokens),
         NEW tx \in BuiltTxs, Built(chain, tx), Confirm(tx), NetworkAccepts(chain, tx),
         Mints(chain, tx)
  PROVE  Supply!Mint
<1>1. PICK issued \in Seq(IssueInfos) : MintsAs(chain, tx, issued)
  BY DEF Mints
<1> DEFINE contract == OutputOf(chain, tx.ins[1])
           b == [red |-> contract.pkh, symbol |-> contract.tok.symbol]
           last == Len(chain) + 1
           new == TokenOutpoints(tx, last)
<1>2. /\ contract.satoshis \in Nat /\ contract.satoshis > 0 /\ b \in AllBackings
      /\ \A op \in new : OutputOf(chain', op).tok \in TokensOf(b)
      /\ IsFiniteSet(new) /\ \A op \in new : Amount(chain', op) \in Nat
      /\ Total(chain', new) = contract.satoshis
  BY <1>1, MintedTokens
<1>3. /\ 1 \in DOMAIN tx.ins /\ contract.kind = "contract"
      /\ \A i \in DOMAIN tx.ins : i # 1 => OutputOf(chain, tx.ins[i]).kind = "p2pkh"
      /\ \A k \in DOMAIN tx.outs : tx.outs[k].kind # "contract"
  <2>1. 1 \in DOMAIN tx.ins
    BY LenProperties, EmptySeq DEF Built, BuiltTxs
  <2>2. \A k \in DOMAIN tx.outs : tx.outs[k].kind # "contract"
    BY <1>1 DEF MintsAs
  <2> QED BY <1>1, <2>1, <2>2 DEF MintsAs
<1>4. SpentTokens(chain, tx) = {}
  BY <1>3 DEF SpentTokens
<1>5. \A o : NewContracts(tx, o) = {}
  <2>1. \A op \in NewPlaces(tx) : OutputOf(chain', op).kind # "contract"
    BY <1>3, ConfirmUnspent DEF NewPlaces
  <2> QED BY <2>1 DEF NewContracts
<1>6. SpentOf(ContractOps(b), tx) = {tx.ins[1]}
  <2>1. tx.ins[1] \in Unspent(chain)
    BY <1>3 DEF NetworkAccepts
  <2>2. tx.ins[1] \in ContractOps(b)
    BY <1>3, <2>1 DEF ContractOps
  <2>3. \A op \in SpentOf(ContractOps(b), tx) : op = tx.ins[1]
    BY <1>3 DEF SpentOf, ContractOps
  <2> HIDE DEF b
  <2> QED BY <1>3, <2>2, <2>3 DEF SpentOf
<1>7. Total(chain, {tx.ins[1]}) = contract.satoshis
  <2>1. Amount(chain, tx.ins[1]) = contract.satoshis
    BY DEF Amount
  <2> QED BY <1>2, <2>1, TotalOfOne
<1>8. \A o \in AllBackings \ {b} : SpentOf(ContractOps(o), tx) = {}
  <2>1. ASSUME NEW o \in AllBackings \ {b}, NEW op \in SpentOf(ContractOps(o), tx) PROVE FALSE
    <3>1. op = tx.ins[1]
      BY <1>3 DEF SpentOf, ContractOps
    <3>2. contract.pkh = o.red /\ contract.tok.symbol = o.symbol
      BY <3>1 DEF SpentOf, ContractOps
    <3>3. o = [red |-> o.red, symbol |-> o.symbol]
      BY DEF AllBackings
    <3> QED BY <3>2, <3>3
  <2> QED BY <2>1
<1>9. /\ (Backing')[b] \in Nat /\ Backing[b] = (Backing')[b] + contract.satoshis
  <2> HIDE DEF b, contract
  <2>1. Accounts(Backing[b], Total(chain', NewContracts(tx, b)), (Backing')[b],
                 Total(chain, SpentOf(ContractOps(b), tx)))
    BY <1>2, BackingAccounts
  <2>2. Accounts(Backing[b], 0, (Backing')[b], contract.satoshis)
    BY <1>5, <1>6, <1>7, <2>1, TotalEmpty
  <2> QED BY <2>2 DEF Accounts
<1>10. \A o \in AllBackings \ {b} : (Backing')[o] = Backing[o]
  <2>1. ASSUME NEW o \in AllBackings \ {b} PROVE (Backing')[o] = Backing[o]
    <3>1. Accounts(Backing[o], Total(chain', NewContracts(tx, o)), (Backing')[o],
                   Total(chain, SpentOf(ContractOps(o), tx)))
      BY BackingAccounts
    <3>2. Accounts(Backing[o], 0, (Backing')[o], 0)
      BY <1>5, <1>8, <3>1, TotalEmpty
    <3> QED BY <3>2, NothingCounts
  <2> QED BY <2>1
<1>11. \A tok \in AllTokens, k \in Keys : (Balance')[tok][k] >= Balance[tok][k]
  BY <1>4, NobodyLoses, NothingCounts
<1>12. \A tok \in AllTokens :
          SumFunction((Balance')[tok]) - SumFunction(Balance[tok]) = Total(chain', NewOf(tx, tok))
  <2>1. ASSUME NEW tok \in AllTokens
        PROVE  SumFunction((Balance')[tok]) - SumFunction(Balance[tok])
                 = Total(chain', NewOf(tx, tok))
    <3>1. /\ chain \in Seq(Txs) /\ chain' \in Seq(Txs) /\ IsFiniteSet(Created(chain'))
      BY ConfirmLengthens, CreatedFinite DEF LedgerInv, TypeOK
    <3>2. /\ SumFunction(Balance[tok]) = OutstandingAmount(tok)
          /\ SumFunction((Balance')[tok]) = OutstandingAmount(tok)'
      BY <3>1, HoldersHoldAll
    <3>3. /\ Total(chain', NewOf(tx, tok)) \in Nat /\ OutstandingAmount(tok) \in Nat
          /\ OutstandingAmount(tok)' = OutstandingAmount(tok) + Total(chain', NewOf(tx, tok))
      BY <1>4, IssueAdds
    <3> QED BY <3>2, <3>3
  <2> QED BY <2>1
<1> DEFINE key == [op \in new |-> OutputOf(chain', op).tok]
           gains == [t \in AllTokens |-> Total(chain', NewOf(tx, t))]
<1>13. /\ \A op \in new : key[op] \in TokensOf(b)
       /\ \A t : ClassOf(new, key, t) = NewOf(tx, t)
  BY <1>2 DEF ClassOf, NewOf
<1>14. \A o : \A t \in TokensOf(o) : t \in AllTokens /\ gains[t] = Total(chain', NewOf(tx, t))
  BY DEF TokensOf
<1> HIDE DEF key, gains, new, b, contract, last
<1>15. ASSUME NEW o
       PROVE  /\ IsFiniteSet(TokensOf(o))
              /\ Supply!Minted(Balance, Balance', o) = SumFunctionOnSet(gains, TokensOf(o))
  BY <1>12, <1>14, MintedIsSum
<1>16. Supply!Minted(Balance, Balance', b) = contract.satoshis
  <2>1. \A t \in TokensOf(b) : gains[t] = Total(chain', ClassOf(new, key, t))
    BY <1>13, <1>14
  <2>2. SumFunctionOnSet(gains, TokensOf(b)) = Total(chain', new)
    BY <1>2, <1>13, <1>15, <2>1, TotalOfClasses
  <2> QED BY <1>2, <1>15, <2>2
<1>17. ASSUME NEW o \in AllBackings \ {b} PROVE Supply!Minted(Balance, Balance', o) = 0
  <2>1. \A t \in TokensOf(o) : NewOf(tx, t) = {}
    BY <1>13 DEF ClassOf, TokensOf
  <2> DEFINE none == {}
  <2>2. IsFiniteSet(none) /\ \A op \in none : Amount(chain', op) \in Nat
    BY FS_EmptySet
  <2>3. \A t : ClassOf(none, key, t) = none
    BY DEF ClassOf
  <2>4. Total(chain', none) = 0
    BY TotalEmpty
  <2>5. (\A op \in none : key[op] \in TokensOf(o))
        /\ \A t \in TokensOf(o) : NewOf(tx, t) = none
    BY <2>1
  <2> HIDE DEF none
  <2>6. \A t \in TokensOf(o) : gains[t] = Total(chain', ClassOf(none, key, t))
    BY <1>14, <2>3, <2>5
  <2>7. SumFunctionOnSet(gains, TokensOf(o)) = Total(chain', none)
    BY <1>15, <2>2, <2>5, <2>6, TotalOfClasses
  <2> QED BY <1>15, <2>4, <2>7
<1>18. [t \in AllTokens |-> RedeemedAmount(t)]' = [t \in AllTokens |-> RedeemedAmount(t)]
  <2>1. [t \in AllTokens |-> RedeemedAmount(t)]' = [t \in AllTokens |-> RedeemedAmount(t)']
    BY DEF AllTokens, Issuers
  <2> QED BY <1>4, <2>1, NobodyLoses
<1>19. /\ (Backing')[b] < Backing[b]
       /\ Supply!Minted(Balance, Balance', b) = Backing[b] - (Backing')[b]
  BY <1>2, <1>9, <1>16
<1> QED BY <1>2, <1>10, <1>11, <1>17, <1>18, <1>19 DEF Supply!Mint

\* A transaction that spends a token issues nothing and takes back no redemption.
LEMMA SpendAmounts ==
  ASSUME LedgerInv, InputsCreated, IsFiniteSet(Created(chain)),
         NEW tx \in BuiltTxs, Built(chain, tx), Confirm(tx), SpentTokens(chain, tx) # {},
         NEW tok
  PROVE  /\ IssuedAmount(tok)' = IssuedAmount(tok)
         /\ RedeemedAmount(tok) \in Nat /\ RedeemedAmount(tok)' \in Nat
         /\ RedeemedAmount(tok)' >= RedeemedAmount(tok)
         /\ OutstandingAmount(tok) \in Nat /\ OutstandingAmount(tok)' \in Nat
<1>1. /\ IssuedOps(tok) \subseteq Created(chain) /\ HeldOps(tok) \subseteq Created(chain)
      /\ RedeemedOps(chain, tok) \subseteq Created(chain)
  BY OpsCreated
<1>2. chain' \in Seq(Txs) /\ IsFiniteSet(Created(chain'))
  BY ConfirmLengthens, CreatedFinite
<1>3. IssuedOps(tok)' = IssuedOps(tok)
  BY ConfirmIssued
<1>4. /\ RedeemedOps(chain, tok) \subseteq RedeemedOps(chain', tok)
      /\ RedeemedOps(chain', tok) \subseteq Created(chain')
  BY <1>2, ConfirmRedeems, RedeemedCreated
<1>5. HeldOps(tok)' \subseteq Created(chain')
  BY DEF HeldOps, Holdings, Unspent
<1>6. /\ Total(chain', IssuedOps(tok)) = Total(chain, IssuedOps(tok))
      /\ Total(chain, HeldOps(tok)) \in Nat
      /\ Total(chain', RedeemedOps(chain, tok)) = Total(chain, RedeemedOps(chain, tok))
  BY <1>1, OlderTotal
<1>7. /\ IsFiniteSet(RedeemedOps(chain', tok)) /\ IsFiniteSet(HeldOps(tok)')
      /\ \A op \in RedeemedOps(chain', tok) : Amount(chain', op) \in Nat
      /\ \A op \in HeldOps(tok)' : Amount(chain', op) \in Nat
  <2>1. IsFiniteSet(RedeemedOps(chain', tok)) /\ IsFiniteSet(HeldOps(tok)')
    BY <1>2, <1>4, <1>5, FS_Subset
  <2> QED BY <1>2, <1>4, <1>5, <2>1, AmountType
<1>8. /\ Total(chain', RedeemedOps(chain, tok)) \in Nat
      /\ Total(chain', RedeemedOps(chain', tok)) \in Nat
      /\ Total(chain', RedeemedOps(chain, tok)) <= Total(chain', RedeemedOps(chain', tok))
  BY <1>4, <1>7, TotalOfMore
<1>9. Total(chain', HeldOps(tok)') \in Nat
  BY <1>7, TotalType
<1>10. /\ RedeemedAmount(tok) = Total(chain', RedeemedOps(chain, tok))
       /\ RedeemedAmount(tok)' = Total(chain', RedeemedOps(chain', tok))
       /\ IssuedAmount(tok)' = IssuedAmount(tok)
       /\ OutstandingAmount(tok) \in Nat /\ OutstandingAmount(tok)' \in Nat
  BY <1>3, <1>6, <1>9, AmountsAreTotals
<1> QED BY <1>8, <1>10

\* Every other transaction spends one token of one owner; nobody else loses any,
\* and what the token's holders lose together was redeemed.
LEMMA MoveStep ==
  ASSUME LedgerInv, InputsCreated, SupplyInv, SupplyInv', IssuersOnly, IsFiniteSet(Keys),
         NEW tx \in BuiltTxs, Built(chain, tx), Confirm(tx), NetworkAccepts(chain, tx),
         Moves(chain, tx)
  PROVE  Supply!MoveOrRedeem
<1> DEFINE spent == OutputOf(chain, tx.ins[1])
<1>1. PICK tok \in AllTokens, giver \in Keys :
         /\ 1 \in DOMAIN tx.ins /\ spent.kind = "stas" /\ spent.tok = tok
         /\ \A i \in DOMAIN tx.ins :
               \/ OutputOf(chain, tx.ins[i]).kind = "p2pkh"
               \/ /\ OutputOf(chain, tx.ins[i]).kind = "stas"
                  /\ OutputOf(chain, tx.ins[i]).pkh = giver
  <2>1. 1 \in DOMAIN tx.ins
    BY LenProperties, EmptySeq DEF Built, BuiltTxs
  <2>2. tx.ins[1] \in Created(chain)
    BY <2>1 DEF Built
  <2>3. spent \in Outputs /\ Issuing(spent)
    BY <2>2, CreatedType DEF LedgerInv, TypeOK, OutputOf, IssuersOnly
  <2>4. spent.kind = "stas"
    BY DEF Moves
  <2>5. spent.tok \in AllTokens /\ spent.pkh \in Keys
    BY <2>3, <2>4 DEF Issuing, Outputs
  <2> QED BY <2>1, <2>4, <2>5 DEF Moves
<1>2. SpentTokens(chain, tx) # {}
  BY <1>1 DEF SpentTokens
<1>3. /\ \A k \in DOMAIN tx.outs : tx.outs[k].kind # "contract"
      /\ \A op \in SpentOps(chain, tx) : OutputOf(chain, op).tok = tok
      /\ \A op \in TokenOutpoints(tx, Len(chain) + 1) : OutputOf(chain', op).tok = tok
  <2>1. \A k \in DOMAIN tx.outs : tx.outs[k].kind # "contract"
    BY <1>2, TokenTxOutputs
  <2>2. \A op \in SpentOps(chain, tx) : OutputOf(chain, op).tok = tok
    BY <1>1, <1>2, SpentTotal DEF IsStas
  <2>3. \A op \in TokenOutpoints(tx, Len(chain) + 1) : OutputOf(chain', op).tok = tok
    BY <1>1, <1>2, NewTotal
  <2> QED BY <2>1, <2>2, <2>3
<1> HIDE DEF spent
<1>4. IsFiniteSet(Created(chain)) /\ \A t : Balances(t) /\ Balances(t)'
  BY DEF SupplyInv
<1>5. ASSUME NEW b \in AllBackings PROVE (Backing')[b] = Backing[b]
  <2>1. \A op \in NewPlaces(tx) : OutputOf(chain', op).kind # "contract"
    BY <1>3, ConfirmUnspent DEF NewPlaces
  <2>2. NewContracts(tx, b) = {} /\ SpentOf(ContractOps(b), tx) = {}
    BY <1>1, <2>1 DEF NewContracts, SpentOf, ContractOps
  <2>3. Accounts(Backing[b], Total(chain', NewContracts(tx, b)), (Backing')[b],
                 Total(chain, SpentOf(ContractOps(b), tx)))
    BY <1>4, BackingAccounts
  <2>4. Accounts(Backing[b], 0, (Backing')[b], 0)
    BY <2>2, <2>3, TotalEmpty
  <2> QED BY <2>4, NothingCounts
<1>6. Backing' = Backing
  BY <1>5, BackingIsTotal
<1>7. ASSUME NEW s \in AllTokens \ {tok}, NEW k \in Keys
      PROVE  (Balance')[s][k] = Balance[s][k]
  <2>1. NewOwned(tx, s, k) = {}
    BY <1>3 DEF NewOwned, NewOf
  <2>2. SpentOf(OwnedOps(s, k), tx) = {}
    <3>1. ASSUME NEW op \in SpentOf(OwnedOps(s, k), tx) PROVE FALSE
      <4>1. OutputOf(chain, op).kind = "stas" /\ OutputOf(chain, op).tok = s
        BY DEF SpentOf, OwnedOps, HeldOps, Holdings, ChainOutput, OutputOf
      <4>2. op \in SpentOps(chain, tx)
        BY <4>1 DEF SpentOf, SpentOps, SpentTokens
      <4> QED BY <1>3, <4>1, <4>2
    <3> QED BY <3>1
  <2>3. Accounts(Balance[s][k], Total(chain', NewOwned(tx, s, k)), (Balance')[s][k],
                 Total(chain, SpentOf(OwnedOps(s, k), tx)))
    BY <1>4, BalanceAccounts
  <2>4. Accounts(Balance[s][k], 0, (Balance')[s][k], 0)
    BY <2>1, <2>2, <2>3, TotalEmpty
  <2> QED BY <2>4, NothingCounts
<1>8. ASSUME NEW s \in AllTokens \ {tok} PROVE (Balance')[s] = Balance[s]
  <2>1. /\ Balance[s] = [k \in Keys |-> Balance[s][k]]
        /\ (Balance')[s] = [k \in Keys |-> (Balance')[s][k]]
    BY BalanceIsTotal
  <2> QED BY <1>7, <2>1
<1>9. ASSUME NEW k \in Keys \ {giver} PROVE (Balance')[tok][k] >= Balance[tok][k]
  <2>1. SpentOf(OwnedOps(tok, k), tx) = {}
    <3>1. ASSUME NEW op \in SpentOf(OwnedOps(tok, k), tx) PROVE FALSE
      <4>1. OutputOf(chain, op).kind = "stas" /\ OutputOf(chain, op).pkh = k
        BY DEF SpentOf, OwnedOps, HeldOps, Holdings, ChainOutput, OutputOf
      <4> QED BY <1>1, <4>1 DEF SpentOf
    <3> QED BY <3>1
  <2>2. Accounts(Balance[tok][k], Total(chain', NewOwned(tx, tok, k)), (Balance')[tok][k],
                 Total(chain, SpentOf(OwnedOps(tok, k), tx)))
    BY <1>1, <1>4, BalanceAccounts
  <2>3. Accounts(Balance[tok][k], Total(chain', NewOwned(tx, tok, k)), (Balance')[tok][k], 0)
    BY <2>1, <2>2, TotalEmpty
  <2> QED BY <2>3, NothingCounts
<1>10. \A t \in AllTokens : /\ SumFunction(Balance[t]) = OutstandingAmount(t)
                            /\ SumFunction((Balance')[t]) = OutstandingAmount(t)'
  <2>1. /\ chain \in Seq(Txs) /\ chain' \in Seq(Txs) /\ IsFiniteSet(Created(chain'))
    BY <1>4, ConfirmLengthens, CreatedFinite DEF LedgerInv, TypeOK
  <2> QED BY <1>4, <2>1, HoldersHoldAll
<1>11. \A t : /\ IssuedAmount(t)' = IssuedAmount(t)
              /\ RedeemedAmount(t) \in Nat /\ RedeemedAmount(t)' \in Nat
              /\ RedeemedAmount(t)' >= RedeemedAmount(t)
              /\ OutstandingAmount(t) \in Nat /\ OutstandingAmount(t)' \in Nat
  BY <1>2, <1>4, SpendAmounts
<1>12. \A t : OutstandingAmount(t)' + RedeemedAmount(t)' = OutstandingAmount(t) + RedeemedAmount(t)
  BY <1>4, <1>11 DEF Balances
<1>13. \A s \in AllTokens \ {tok} : RedeemedAmount(s)' = RedeemedAmount(s)
  <2>1. ASSUME NEW s \in AllTokens \ {tok} PROVE RedeemedAmount(s)' = RedeemedAmount(s)
    <3>1. OutstandingAmount(s)' = OutstandingAmount(s)
      BY <1>8, <1>10
    <3> QED BY <1>11, <1>12, <3>1
  <2> QED BY <2>1
<1> DEFINE was == [t \in AllTokens |-> RedeemedAmount(t)]
           is == [t \in AllTokens |-> RedeemedAmount(t)']
<1>14. ([t \in AllTokens |-> RedeemedAmount(t)])' = is
  BY DEF AllTokens, Issuers
<1>15. /\ is[tok] >= was[tok]
       /\ Supply!Total((Balance')[tok]) + is[tok] = Supply!Total(Balance[tok]) + was[tok]
       /\ \A s \in AllTokens \ {tok} : is[s] = was[s]
  <2>1. is[tok] = RedeemedAmount(tok)' /\ was[tok] = RedeemedAmount(tok)
    BY <1>1
  <2>2. /\ Supply!Total((Balance')[tok]) = OutstandingAmount(tok)'
        /\ Supply!Total(Balance[tok]) = OutstandingAmount(tok)
    BY <1>1, <1>10, SupplySums
  <2>3. \A s \in AllTokens \ {tok} : is[s] = was[s]
    BY <1>13
  <2> HIDE DEF is, was
  <2> QED BY <1>11, <1>12, <2>1, <2>2, <2>3
<1> HIDE DEF is, was
<1>16. \E x \in AllTokens, g \in Keys :
         /\ \A k \in Keys \ {g} : (Balance')[x][k] >= Balance[x][k]
         /\ is[x] >= was[x]
         /\ Supply!Total((Balance')[x]) + is[x] = Supply!Total(Balance[x]) + was[x]
         /\ \A s \in AllTokens \ {x} : (Balance')[s] = Balance[s] /\ is[s] = was[s]
  BY <1>1, <1>8, <1>9, <1>15
<1> QED BY <1>6, <1>14, <1>16, Zenon DEF Supply!MoveOrRedeem, was

\* Steps that confirm no transaction change nothing of it.
LEMMA SupplyStays ==
  ASSUME chain' = chain
  PROVE  UNCHANGED Supply!supplyVars
<1>1. \A b : ContractOps(b)' = ContractOps(b)
  BY DEF ContractOps
<1>2. \A tok, k : OwnedOps(tok, k)' = OwnedOps(tok, k)
  BY DEF OwnedOps, HeldOps, Holdings, ChainOutput
<1>3. Backing' = Backing
  BY <1>1, BackingIsTotal
<1>4. Balance' = Balance
  BY <1>2, BalanceIsTotal
<1>5. \A tok : RedeemedAmount(tok)' = RedeemedAmount(tok)
  BY AmountsAreTotals
<1>6. [t \in AllTokens |-> RedeemedAmount(t)]' = [t \in AllTokens |-> RedeemedAmount(t)]
  <2>1. [t \in AllTokens |-> RedeemedAmount(t)]' = [t \in AllTokens |-> RedeemedAmount(t)']
    BY DEF AllTokens, Issuers
  <2> QED BY <1>5, <2>1
<1> QED BY <1>3, <1>4, <1>6, Zenon DEF Supply!supplyVars

LEMMA InitMaps ==
  ASSUME \A n \in DOMAIN Genesis : Genesis[n].kind = "p2pkh", Init
  PROVE  Supply!SupplyInit
<1>1. \A op \in Created(chain) : OutputOf(chain, op).kind = "p2pkh"
  <2>1. chain = <<[ins |-> <<>>, outs |-> Genesis]>> /\ chain \in Seq(Txs)
    BY InitInv DEF Init, LedgerInv, TypeOK
  <2>2. ASSUME NEW op \in Created(chain) PROVE OutputOf(chain, op).kind = "p2pkh"
    <3>1. op.txid \in DOMAIN chain /\ op.vout + 1 \in DOMAIN chain[op.txid].outs
      BY <2>1, CreatedType
    <3>2. op.txid = 1 /\ chain[op.txid].outs = Genesis
      BY <2>1, <3>1
    <3> QED BY <3>1, <3>2 DEF OutputOf
  <2> QED BY <2>2
<1>2. (\A b : ContractOps(b) = {}) /\ \A tok, k : OwnedOps(tok, k) = {}
  BY <1>1 DEF ContractOps, OwnedOps, HeldOps, Holdings, Unspent, ChainOutput, OutputOf
<1>3. Total(chain, {}) = 0
  BY TotalEmpty
<1>4. Backing = [b \in AllBackings |-> 0]
  BY <1>2, <1>3, BackingIsTotal
<1>5. Balance = [tok \in AllTokens |-> [k \in Keys |-> 0]]
  BY <1>2, <1>3, BalanceIsTotal
<1>6. \A tok : RedeemedAmount(tok) = 0
  <2>1. \A tok : RedeemedOps(chain, tok) = {}
    BY DEF Init, RedeemedOps, Redeems, FirstOf
  <2> QED BY <1>3, <2>1, AmountsAreTotals
<1> QED BY <1>4, <1>5, <1>6 DEF Supply!SupplyInit

LEMMA NextMaps ==
  ASSUME IsFiniteSet(Keys), IsFiniteSet(Tokens), LedgerInv, HistoryInv,
         SupplyInv, SupplyInv', ShapeInv, [Next]_vars
  PROVE  [Supply!SupplyNext]_Supply!supplyVars
<1>1. CASE chain' = chain
  BY <1>1, SupplyStays
<1>2. ASSUME NEW c \in Calls, BroadcastAccepted(c) \/ BroadcastAnswerLost(c)
      PROVE  Supply!SupplyNext
  <2>0. PICK tx : tx = jobs[c].tx
    OBVIOUS
  <2>1. Shaped(chain, tx)
    BY <1>2, <2>0, ConfirmKeepsShape DEF ShapeInv
  <2>2. /\ tx \in BuiltTxs /\ Built(chain, tx)
        /\ NetworkAccepts(chain, tx) /\ Confirm(tx)
    BY <1>2, <2>0, BroadcastConfirms
  <2>3. InputsCreated /\ IssuersOnly /\ IsFiniteSet(Created(chain))
    BY DEF HistoryInv, ShapeInv, SupplyInv
  <2>4. CASE Backs(chain, tx)
    BY <2>2, <2>3, <2>4, BackStep DEF Supply!SupplyNext
  <2>5. CASE Mints(chain, tx)
    BY <2>2, <2>3, <2>5, MintStep DEF Supply!SupplyNext
  <2>6. CASE Moves(chain, tx)
    BY <2>2, <2>3, <2>6, MoveStep DEF Supply!SupplyNext
  <2> QED BY <2>1, <2>4, <2>5, <2>6 DEF Shaped
<1>3. ASSUME NEW c \in Calls,
             Start(c) \/ CallbackSigns(c) \/ CallbackRejects(c) \/ BroadcastRefused(c)
      PROVE  chain' = chain
  BY <1>3, StartLeavesChain DEF CallbackSigns, CallbackRejects, BroadcastRefused
<1>4. UNCHANGED vars => chain' = chain
  BY DEF vars
<1> QED BY <1>1, <1>2, <1>3, <1>4 DEF Next, Progress

\* Whatever calls interleave, the ledger does to backing, balances and
\* redemptions only what the abstract supply allows: contract() puts satoshis
\* behind a symbol, issue() mints exactly those, and every other confirmed
\* transaction moves one token of one giver or redeems it.
THEOREM SupplyImplemented ==
  ASSUME IsFiniteSet(Keys), IsFiniteSet(Tokens),
         \A n \in DOMAIN Genesis : Genesis[n].kind = "p2pkh"
  PROVE  Spec => ImplementsSupply
<1>1. Init => ShapeInv /\ Supply!SupplyInit
  BY InitShape, InitMaps
<1>2. LedgerInv /\ ShapeInv /\ [Next]_vars => ShapeInv'
  BY NextKeepsShape
<1>3. LedgerInv /\ HistoryInv /\ SupplyInv /\ [Next]_vars => SupplyInv'
  BY NextKeepsSupply
<1>4. LedgerInv /\ HistoryInv /\ SupplyInv /\ SupplyInv' /\ ShapeInv /\ [Next]_vars
        => [Supply!SupplyNext]_Supply!supplyVars
  BY NextMaps
<1>5. Init => SupplyInv
  BY InitSupply
<1> QED BY <1>1, <1>2, <1>3, <1>4, <1>5, LedgerInvariant, HistoryInvariant, PTL
        DEF Spec, ImplementsSupply, Supply!SupplySpec

=============================================================================
