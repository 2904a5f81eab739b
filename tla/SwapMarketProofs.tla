-------------------------- MODULE SwapMarketProofs --------------------------
(***************************************************************************)
(* Theorems about SwapMarket for every value of its constants: makers get  *)
(* what they wanted and takers get all of what was offered, for any number *)
(* of offers, takers and amounts, proper or not; a swap that keeps to its  *)
(* offer is accepted, and pays its commission twice.                       *)
(***************************************************************************)
EXTENDS SwapMarket, StasTxProofs, FiniteSetTheorems

-----------------------------------------------------------------------------
(* What the functions of swap.js return *)

\* Concatenation and short sequences.
LEMMA ConcatParts ==
  ASSUME NEW S, NEW l \in Seq(S), NEW r \in Seq(S)
  PROVE  /\ l \o r \in Seq(S) /\ Len(l \o r) = Len(l) + Len(r)
         /\ \A i \in 1..Len(l) : (l \o r)[i] = l[i]
         /\ \A i \in 1..Len(r) : (l \o r)[Len(l) + i] = r[i]
  OBVIOUS

LEMMA SeqOfThree ==
  ASSUME NEW S, NEW s \in Seq(S), Len(s) = 3
  PROVE  s = <<s[1], s[2], s[3]>>
  OBVIOUS

LEMMA ConcatOneTwo ==
  ASSUME NEW S, NEW l \in Seq(S), NEW r \in Seq(S)
  PROVE  Len(l) = 1 /\ Len(r) = 2 => l \o r = <<l[1], r[1], r[2]>>
<1> DEFINE c == l \o r
<1>1. /\ c \in Seq(S) /\ Len(c) = Len(l) + Len(r)
      /\ \A i \in 1..Len(l) : c[i] = l[i]
      /\ \A i \in 1..Len(r) : c[Len(l) + i] = r[i]
  BY ConcatParts
<1> HAVE Len(l) = 1 /\ Len(r) = 2
<1> HIDE DEF c
<1>2. c \in Seq(S) /\ Len(c) = 3 /\ c[1] = l[1]
  BY <1>1
<1>3. c[1 + 1] = r[1] /\ c[1 + 2] = r[2]
  BY <1>1
<1>4. c = <<c[1], c[2], c[3]>>
  BY <1>2, SeqOfThree
<1>5. c = <<l[1], r[1], r[2]>>
  BY <1>2, <1>3, <1>4
<1> QED BY <1>5 DEF c

\* What stands behind two elements does not move them.
LEMMA ConcatTwo ==
  ASSUME NEW S, NEW l \in Seq(S), NEW r \in Seq(S)
  PROVE  Len(l) \in Nat /\ Len(l) >= 2 =>
            /\ l \o r \in Seq(S) /\ Len(l \o r) \in Nat /\ Len(l \o r) >= 2
            /\ (l \o r)[1] = l[1] /\ (l \o r)[2] = l[2]
<1> DEFINE c == l \o r
<1>1. /\ c \in Seq(S) /\ Len(c) = Len(l) + Len(r)
      /\ \A i \in 1..Len(l) : c[i] = l[i]
  BY ConcatParts
<1> HAVE Len(l) \in Nat /\ Len(l) >= 2
<1> HIDE DEF c
<1>2. /\ c \in Seq(S) /\ Len(c) \in Nat /\ Len(c) >= 2
      /\ c[1] = l[1] /\ c[2] = l[2]
  BY <1>1, LenProperties
<1> QED BY <1>2 DEF c

LEMMA Triple ==
  ASSUME NEW S, NEW a \in S, NEW b \in S, NEW c \in S
  PROVE  /\ <<a>> \o <<b, c>> = <<a, b, c>>
         /\ <<a, b, c>> \in Seq(S) /\ Len(<<a, b, c>>) = 3
         /\ DOMAIN <<a, b, c>> = 1..3
<1>1. /\ <<a>> \in Seq(S) /\ Len(<<a>>) = 1 /\ <<a>>[1] = a
      /\ <<b, c>> \in Seq(S) /\ Len(<<b, c>>) = 2
      /\ <<b, c>>[1] = b /\ <<b, c>>[2] = c
      /\ <<a, b, c>> \in Seq(S) /\ Len(<<a, b, c>>) = 3
  OBVIOUS
<1>2. <<a>> \o <<b, c>> = <<<<a>>[1], <<b, c>>[1], <<b, c>>[2]>>
  BY <1>1, ConcatOneTwo
<1>3. DOMAIN <<a, b, c>> = 1..3
  BY <1>1, LenProperties
<1> QED BY <1>1, <1>2, <1>3

\* The inputs of a swap, and its first two outputs.
Shape(body, ops, wantedOut, givenOut) ==
    /\ body.ins = ops /\ body.ins \in Seq(Outpoints)
    /\ body.outs \in Seq(Outputs) /\ 2 \in DOMAIN body.outs
    /\ body.outs[1] = wantedOut /\ body.outs[2] = givenOut

\* A swap keeps the offer in front: its input and its output.
LEMMA SwapBodyShape ==
  ASSUME NEW offer, NEW op \in Outpoints, NEW w \in Outputs,
         offer.ins = <<op>>, offer.outs = <<w>>,
         NEW makerOut \in Outputs, NEW u2 \in UtxoRecords, NEW pay \in UtxoRecords,
         NEW satoshis \in Nat, NEW comm \in Commissions, SwapChange(pay, comm) >= 1
  PROVE  Shape(swapBody(offer, makerOut, u2, satoshis, comm, pay),
               <<op, u2.op, pay.op>>, w, WithOwner(makerOut, u2.out.pkh, satoshis))
<1> DEFINE given == WithOwner(makerOut, u2.out.pkh, satoshis)
           change == P2pkhOut(pay.out.pkh, SwapChange(pay, comm))
           front == <<w>> \o <<given>>
           middle == front \o CommissionOutputs(comm)
           tx == swapBody(offer, makerOut, u2, satoshis, comm, pay)
<1>1. u2.op \in Outpoints /\ pay.op \in Outpoints
  BY DEF UtxoRecords
<1>2. tx.ins = <<op, u2.op, pay.op>> /\ tx.ins \in Seq(Outpoints)
  BY <1>1, Triple DEF swapBody
<1>3. given \in Outputs
  BY DEF WithOwner, Outputs, UtxoRecords
<1>4. change \in Outputs
  <2>1. SwapChange(pay, comm) \in Nat
    BY FeeAssumption DEF SwapChange, UtxoRecords, Outputs, Commissions
  <2> QED BY <2>1 DEF P2pkhOut, Outputs, UtxoRecords
<1>5. CommissionOutputs(comm) \in Seq(Outputs)
  <2>1. CASE hasCommission(comm)
    <3>1. P2pkhOut(comm.pkh, comm.satoshis) \in Outputs
      BY <2>1 DEF hasCommission, P2pkhOut, Outputs, Commissions
    <3> QED BY <2>1, <3>1, SingletonSeq DEF CommissionOutputs
  <2>2. CASE ~hasCommission(comm)
    BY <2>2, EmptySeq DEF CommissionOutputs
  <2> QED BY <2>1, <2>2
<1>6. tx.outs = middle \o <<change>>
  BY DEF swapBody
<1> HIDE DEF given, change, tx
<1>7. /\ front \in Seq(Outputs) /\ Len(front) \in Nat /\ Len(front) >= 2
      /\ front[1] = w /\ front[2] = given
  BY <1>3
<1>8. /\ middle \in Seq(Outputs) /\ Len(middle) \in Nat /\ Len(middle) >= 2
      /\ middle[1] = w /\ middle[2] = given
  <2> HIDE DEF front
  <2> QED BY <1>5, <1>7, ConcatTwo
<1>9. /\ tx.outs \in Seq(Outputs) /\ Len(tx.outs) \in Nat /\ Len(tx.outs) >= 2
      /\ tx.outs[1] = w /\ tx.outs[2] = given
  <2> HIDE DEF middle
  <2>1. <<change>> \in Seq(Outputs)
    BY <1>4, SingletonSeq
  <2> QED BY <1>6, <1>8, <2>1, ConcatTwo
<1>10. 2 \in DOMAIN tx.outs
  BY <1>9, LenProperties
<1> QED BY <1>2, <1>9, <1>10 DEF Shape, given, tx

\* Signatures and unlocking data.
LEMMA SignType ==
  ASSUME NEW prev \in Outputs, NEW tx,
         tx.ins \in Seq(Outpoints), tx.outs \in Seq(Outputs)
  PROVE  SignAll(prev, tx) \in Sigs
  BY DEF SignAll, Sigs, Outputs

LEMMA SwapUnlockType ==
  ASSUME NEW tx, tx.outs \in Seq(Outputs), NEW pay \in UtxoRecords,
         NEW other \in Outpoints, NEW value \in Nat
  PROVE  swapUnlock(tx, pay, other, value) \in SwapUnlocks
<1>1. swapSegments(tx) \in Seq(Segments)
  <2>1. /\ Len(tx.outs) \in Nat /\ DOMAIN tx.outs = 1..Len(tx.outs)
        /\ \A k \in 1..Len(tx.outs) : tx.outs[k] \in Outputs
    BY LenProperties, ElementOfSeq
  <2>2. swapSegments(tx) \in [1..Len(tx.outs) -> Segments]
    BY <2>1 DEF swapSegments, Segment, Segments, Outputs
  <2> QED BY <2>1, <2>2, FunctionIsSeq
<1>2. Funding(<<pay>>) \in Outpoints \cup [txid: {0}, vout: Nat]
  BY DEF Funding, reverseEndian, Outpoints, UtxoRecords
<1> QED BY <1>1, <1>2 DEF swapUnlock, SwapUnlocks

\* A transaction with three signatures and three unlocking scripts.
LEMMA SwapTxType ==
  ASSUME NEW ins \in Seq(Outpoints), NEW outs \in Seq(Outputs),
         NEW s1 \in Sigs, NEW s2 \in Sigs, NEW s3 \in Sigs,
         NEW l1 \in SwapUnlocks, NEW l2 \in SwapUnlocks, NEW l3 \in SwapUnlocks
  PROVE  [ins |-> ins, outs |-> outs, sigs |-> <<s1, s2, s3>>,
          unlock |-> <<l1, l2, l3>>] \in SwapTxs
  BY Triple DEF SwapTxs

LEMMA WantedOutputType ==
  ASSUME NEW maker \in Keys, NEW wanted \in Wanted
  PROVE  makerWantedOutput(maker, wanted) \in Outputs
  BY DEF makerWantedOutput, Wanted, P2pkhOut, StasOut, Outputs

-----------------------------------------------------------------------------
(* The inductive invariant *)

\* A published offer names an output of the chain and asks for what was wanted.
OfferOf(ch, offer) ==
    /\ offer.utxo.op \in Created(ch)
    /\ offer.utxo.out = OutputOf(ch, offer.utxo.op)
    /\ offer.tx.ins = <<offer.utxo.op>>
    /\ offer.tx.outs = <<makerWantedOutput(offer.utxo.out.pkh, offer.wanted)>>

OffersKept == \A o \in Offers : offers[o].phase # "none" => OfferOf(chain, offers[o])

\* What every form of an answer leaves of the offer.  The amount of the second
\* output may still be anything; but a maker who completed an unsigned offer
\* signed for an input of just that amount.
Answering(ch, offer, take) ==
    LET tx == take.tx
    IN /\ \E op2, op3 \in Created(ch), satoshis \in Nat :
             /\ tx.ins = <<offer.utxo.op, op2, op3>>
             /\ tx.outs[2] = WithOwner(offer.utxo.out, OutputOf(ch, op2).pkh, satoshis)
       /\ 2 \in DOMAIN tx.outs
       /\ tx.outs[1] = makerWantedOutput(offer.utxo.out.pkh, offer.wanted)
       /\ 1 \in DOMAIN tx.sigs /\ 1 \in DOMAIN tx.unlock
       /\ offer.phase = "unsigned" /\ take.phase = "returned" =>
             tx.sigs[1].prev.satoshis = tx.outs[2].satoshis

AnswerKnown(ch, published, take) ==
    \E o \in Offers : published[o].phase # "none" /\ Answering(ch, published[o], take)

AnswersKept ==
    \A t \in Takes : takes[t].phase # "idle" => AnswerKnown(chain, offers, takes[t])

MarketInv == TypeOK /\ OffersKept /\ AnswersKept

-----------------------------------------------------------------------------
(* Steps of the participants *)

LEMMA UtxoType ==
  ASSUME NEW ch \in Seq(Txs), NEW op \in Created(ch)
  PROVE  /\ Utxo(ch, op) \in UtxoRecords
         /\ Utxo(ch, op).op = op /\ Utxo(ch, op).out = OutputOf(ch, op)
         /\ OutputOf(ch, op) \in Outputs
  BY CreatedType DEF Utxo, UtxoRecords, OutputOf

LEMMA TradeableType ==
  ASSUME chain \in Seq(Txs)
  PROVE  /\ \A u \in Tradeable : /\ u \in UtxoRecords /\ u.op \in Created(chain)
                                 /\ u.out = OutputOf(chain, u.op)
         /\ \A traded : \A u \in Payments(traded) :
                /\ u \in UtxoRecords /\ u.op \in Created(chain)
                /\ u.out = OutputOf(chain, u.op)
<1>1. \A u \in UnspentUtxos : /\ u \in UtxoRecords /\ u.op \in Created(chain)
                              /\ u.out = OutputOf(chain, u.op)
  BY UtxoType DEF UnspentUtxos, Unspent
<1> QED BY <1>1 DEF Tradeable, Payments

LEMMA PublishedType ==
  ASSUME TypeOK, NEW o \in Offers, offers[o].phase # "none"
  PROVE  offers[o] \in PublishedOffers
  BY DEF TypeOK, NoOffer

\* A maker publishes.
LEMMA PublishKeepsInv ==
  ASSUME MarketInv, NEW o \in Offers, offers[o].phase = "none",
         NEW phase \in {"signed", "unsigned"}, NEW u \in Tradeable,
         NEW wanted \in WantedInfos, NEW sig \in Sigs,
         Publish(o, phase, u, wanted,
                 [ins |-> offerTx(u, wanted).ins, outs |-> offerTx(u, wanted).outs,
                  sig |-> sig])
  PROVE  MarketInv'
<1> DEFINE tx == [ins |-> offerTx(u, wanted).ins, outs |-> offerTx(u, wanted).outs,
                  sig |-> sig]
           offer == [phase |-> phase, utxo |-> u, wanted |-> wanted, tx |-> tx]
           w == makerWantedOutput(u.out.pkh, wanted)
<1>1. offers' = [offers EXCEPT ![o] = offer] /\ chain' = chain /\ takes' = takes
  BY DEF Publish
<1>2. /\ u \in UtxoRecords /\ u.op \in Created(chain)
      /\ u.out = OutputOf(chain, u.op) /\ chain \in Seq(Txs)
  BY TradeableType DEF MarketInv, TypeOK
<1>3. u.op \in Outpoints /\ u.out \in Outputs /\ wanted \in Wanted /\ w \in Outputs
  <2>1. u.op \in Outpoints /\ u.out \in Outputs /\ u.out.pkh \in Keys
    BY <1>2 DEF UtxoRecords, Outputs
  <2>2. wanted \in Wanted
    BY ArgumentsAssumption
  <2> QED BY <2>1, <2>2, WantedOutputType
<1>4. tx.ins = <<u.op>> /\ tx.outs = <<w>> /\ tx.sig = sig
  BY DEF offerTx
<1>5. offer \in PublishedOffers
  <2>1. <<u.op>> \in Seq(Outpoints) /\ <<w>> \in Seq(Outputs)
    BY <1>3, SingletonSeq
  <2>2. tx \in [ins: Seq(Outpoints), outs: Seq(Outputs), sig: Sigs]
    BY <2>1 DEF offerTx
  <2>3. u \in [op: Outpoints, out: Outputs]
    BY <1>2 DEF UtxoRecords
  <2> HIDE DEF tx
  <2> QED BY <1>3, <2>2, <2>3 DEF PublishedOffers
<1>6. OfferOf(chain, offer)
  <2> HIDE DEF tx, w
  <2> QED BY <1>2, <1>4 DEF OfferOf, w
<1> HIDE DEF offer
<1>7. TypeOK'
  BY <1>1, <1>5 DEF MarketInv, TypeOK
<1>8. OffersKept'
  BY <1>1, <1>6 DEF MarketInv, OffersKept, TypeOK
<1>9. AnswersKept'
  <2>1. ASSUME NEW t \in Takes, takes[t].phase # "idle"
        PROVE  AnswerKnown(chain, offers', takes[t])
    <3>1. PICK q \in Offers : /\ offers[q].phase # "none"
                              /\ Answering(chain, offers[q], takes[t])
      BY <2>1 DEF MarketInv, AnswersKept, AnswerKnown
    <3>2. offers'[q] = offers[q]
      BY <1>1, <3>1 DEF MarketInv, TypeOK
    <3> QED BY <3>1, <3>2 DEF AnswerKnown
  <2> QED BY <1>1, <2>1 DEF AnswersKept
<1> QED BY <1>7, <1>8, <1>9 DEF MarketInv

\* A participant passes on a transaction that answers an offer.
LEMMA HoldKeepsInv ==
  ASSUME MarketInv, NEW t \in Takes, NEW tx \in SwapTxs,
         NEW phase \in {"idle", "sent", "returned"}, Hold(t, phase, tx),
         phase # "idle" =>
            AnswerKnown(chain, offers, [phase |-> phase, tx |-> tx])
  PROVE  MarketInv'
<1> DEFINE take == [phase |-> phase, tx |-> tx]
<1>1. takes' = [takes EXCEPT ![t] = take] /\ chain' = chain /\ offers' = offers
  BY DEF Hold
<1>2. take \in [phase: {"idle", "sent", "returned"}, tx: SwapTxs] /\ take.phase = phase
  OBVIOUS
<1> HIDE DEF take
<1>3. TypeOK'
  BY <1>1, <1>2 DEF MarketInv, TypeOK
<1>4. OffersKept'
  BY <1>1 DEF MarketInv, OffersKept
<1>5. AnswersKept'
  <2>1. ASSUME NEW s \in Takes, takes'[s].phase # "idle"
        PROVE  AnswerKnown(chain, offers, takes'[s])
    <3>1. CASE s = t
      BY <1>1, <1>2, <2>1, <3>1 DEF MarketInv, TypeOK, take
    <3>2. CASE s # t
      BY <1>1, <2>1, <3>2 DEF MarketInv, TypeOK, AnswersKept
    <3> QED BY <3>1, <3>2
  <2> QED BY <1>1, <2>1 DEF AnswersKept
<1> QED BY <1>3, <1>4, <1>5 DEF MarketInv

-----------------------------------------------------------------------------
(* Answers *)

ChainUtxos(ch) ==
    {u \in UtxoRecords : u.op \in Created(ch) /\ u.out = OutputOf(ch, u.op)}

BodyOf(offer, u2, satoshis, comm, pay) ==
    swapBody(offer.tx, offer.utxo.out, u2, satoshis, comm, pay)

\* An answer keeps the offer and takes what is offered.
KeepsOffer(body, offer, u2, satoshis, pay) ==
    Shape(body, <<offer.utxo.op, u2.op, pay.op>>,
          makerWantedOutput(offer.utxo.out.pkh, offer.wanted),
          WithOwner(offer.utxo.out, u2.out.pkh, satoshis))

\* Signatures and unlocking data of a swap that keeps an offer in front.
LEMMA AnswerParts ==
  ASSUME NEW ch \in Seq(Txs), NEW offer \in PublishedOffers, OfferOf(ch, offer),
         NEW u2 \in ChainUtxos(ch), NEW pay \in ChainUtxos(ch), NEW satoshis \in Nat,
         NEW comm \in Commissions, SwapChange(pay, comm) >= 1
  PROVE  LET body == BodyOf(offer, u2, satoshis, comm, pay)
         IN /\ KeepsOffer(body, offer, u2, satoshis, pay)
            /\ \A u \in UtxoRecords : SignAll(u.out, body) \in Sigs
            /\ \A other \in Outpoints, value \in Nat :
                  swapUnlock(body, pay, other, value) \in SwapUnlocks
            /\ takerUnlock(body, u2, pay) \in SwapUnlocks
            /\ makerUnlock(body, offer.utxo.out, u2, satoshis, pay) \in SwapUnlocks
<1> DEFINE body == BodyOf(offer, u2, satoshis, comm, pay)
           w == makerWantedOutput(offer.utxo.out.pkh, offer.wanted)
<1>1. /\ offer.utxo.op \in Outpoints /\ offer.utxo.out \in Outputs
      /\ offer.utxo.out.pkh \in Keys /\ offer.wanted \in Wanted
  BY DEF PublishedOffers, Outputs
<1>2. w \in Outputs
  BY <1>1, WantedOutputType
<1>3. /\ u2 \in UtxoRecords /\ pay \in UtxoRecords
      /\ u2.op \in Outpoints /\ u2.out.satoshis \in Nat
  BY DEF ChainUtxos, UtxoRecords, Outputs
<1>4. /\ KeepsOffer(body, offer, u2, satoshis, pay)
      /\ body.ins = <<offer.utxo.op, u2.op, pay.op>>
      /\ body.ins \in Seq(Outpoints) /\ body.outs \in Seq(Outputs)
  <2>1. offer.tx.ins = <<offer.utxo.op>> /\ offer.tx.outs = <<w>>
    BY DEF OfferOf
  <2> HIDE DEF w
  <2>2. Shape(swapBody(offer.tx, offer.utxo.out, u2, satoshis, comm, pay),
              <<offer.utxo.op, u2.op, pay.op>>, w,
              WithOwner(offer.utxo.out, u2.out.pkh, satoshis))
    BY <1>1, <1>2, <1>3, <2>1, SwapBodyShape
  <2>3. KeepsOffer(body, offer, u2, satoshis, pay)
    BY <2>2 DEF KeepsOffer, BodyOf, w
  <2> HIDE DEF body
  <2> QED BY <2>3 DEF KeepsOffer, Shape
<1> HIDE DEF body, w
<1>5. \A u \in UtxoRecords : SignAll(u.out, body) \in Sigs
  BY <1>4, SignType DEF UtxoRecords
<1>6. \A other \in Outpoints, value \in Nat :
         swapUnlock(body, pay, other, value) \in SwapUnlocks
  BY <1>3, <1>4, SwapUnlockType
<1>7. PlainUnlock \in SwapUnlocks
  BY DEF SwapUnlocks
<1>8. takerUnlock(body, u2, pay) \in SwapUnlocks
  <2>1. body.ins[1] \in Outpoints
    BY <1>1, <1>4
  <2> QED BY <1>3, <1>6, <1>7, <2>1 DEF takerUnlock
<1>9. makerUnlock(body, offer.utxo.out, u2, satoshis, pay) \in SwapUnlocks
  BY <1>3, <1>6, <1>7 DEF makerUnlock
<1> QED BY <1>4, <1>5, <1>6, <1>8, <1>9 DEF body, w

\* What a taker makes of an offer answers it.
LEMMA AnswerMade ==
  ASSUME NEW ch \in Seq(Txs), NEW offer \in PublishedOffers, OfferOf(ch, offer),
         NEW u2 \in ChainUtxos(ch), NEW pay \in ChainUtxos(ch), NEW satoshis \in Nat,
         NEW comm \in Commissions, SwapChange(pay, comm) >= 1,
         NEW s1 \in Sigs, NEW s2 \in Sigs, NEW s3 \in Sigs,
         NEW l1 \in SwapUnlocks, NEW l2 \in SwapUnlocks, NEW l3 \in SwapUnlocks,
         NEW phase \in {"sent", "returned"},
         offer.phase = "unsigned" => phase = "sent"
  PROVE  LET body == BodyOf(offer, u2, satoshis, comm, pay)
             tx == [ins |-> body.ins, outs |-> body.outs,
                    sigs |-> <<s1, s2, s3>>, unlock |-> <<l1, l2, l3>>]
         IN tx \in SwapTxs /\ Answering(ch, offer, [phase |-> phase, tx |-> tx])
<1> DEFINE body == BodyOf(offer, u2, satoshis, comm, pay)
           tx == [ins |-> body.ins, outs |-> body.outs,
                  sigs |-> <<s1, s2, s3>>, unlock |-> <<l1, l2, l3>>]
           take == [phase |-> phase, tx |-> tx]
<1>1. /\ body.ins = <<offer.utxo.op, u2.op, pay.op>>
      /\ body.ins \in Seq(Outpoints) /\ body.outs \in Seq(Outputs)
      /\ 2 \in DOMAIN body.outs
      /\ body.outs[1] = makerWantedOutput(offer.utxo.out.pkh, offer.wanted)
      /\ body.outs[2] = WithOwner(offer.utxo.out, u2.out.pkh, satoshis)
  <2>1. KeepsOffer(body, offer, u2, satoshis, pay)
    BY AnswerParts
  <2> HIDE DEF body
  <2> QED BY <2>1 DEF KeepsOffer, Shape
<1> HIDE DEF body
<1>2. tx \in SwapTxs
  BY <1>1, SwapTxType
<1>3. 1 \in DOMAIN tx.sigs /\ 1 \in DOMAIN tx.unlock
  OBVIOUS
<1>4. \E op2, op3 \in Created(ch), sat \in Nat :
         /\ tx.ins = <<offer.utxo.op, op2, op3>>
         /\ tx.outs[2] = WithOwner(offer.utxo.out, OutputOf(ch, op2).pkh, sat)
  <2>1. /\ u2.op \in Created(ch) /\ pay.op \in Created(ch)
        /\ u2.out = OutputOf(ch, u2.op)
    BY DEF ChainUtxos
  <2> QED BY <1>1, <2>1
<1>5. take.tx = tx /\ (offer.phase = "unsigned" => take.phase # "returned")
  OBVIOUS
<1>6. 2 \in DOMAIN tx.outs
      /\ tx.outs[1] = makerWantedOutput(offer.utxo.out.pkh, offer.wanted)
  BY <1>1
<1> HIDE DEF tx, take
<1>7. Answering(ch, offer, take)
  BY <1>3, <1>4, <1>5, <1>6 DEF Answering
<1> QED BY <1>2, <1>7 DEF tx, take, body

\* A taker's choice has its type.
LEMMA AnswersType ==
  ASSUME MarketInv, NEW o \in Offers, offers[o].phase # "none",
         NEW comm, NEW a \in Answers(o, comm)
  PROVE  /\ chain \in Seq(Txs)
         /\ offers[o] \in PublishedOffers /\ OfferOf(chain, offers[o])
         /\ a.give \in ChainUtxos(chain) /\ a.pay \in ChainUtxos(chain)
         /\ a.satoshis \in Nat
<1>1. chain \in Seq(Txs)
  BY DEF MarketInv, TypeOK
<1>2. offers[o] \in PublishedOffers /\ OfferOf(chain, offers[o])
  BY PublishedType DEF MarketInv, OffersKept
<1>3. /\ a.give \in Tradeable /\ a.pay \in Payments({})
      /\ a.satoshis \in TakerAmounts \cup {offers[o].utxo.out.satoshis}
  BY DEF Answers
<1>4. offers[o].utxo.out.satoshis \in Nat
  BY <1>2 DEF PublishedOffers, Outputs
<1> QED BY <1>1, <1>2, <1>3, <1>4, TradeableType, ArgumentsAssumption DEF ChainUtxos

LEMMA NoCommissionType ==
  NoCommission \in Commissions
  BY DEF NoCommission, Commissions

LEMMA PlainTypes ==
  PlainUnlock \in SwapUnlocks /\ NoSig \in Sigs
  BY DEF SwapUnlocks, Sigs

LEMMA AcceptKeepsInv ==
  ASSUME MarketInv, NEW t \in Takes, AcceptSwapOffer(t)
  PROVE  MarketInv'
<1>1. PICK o \in Published("signed"), comm \in CommissionInfos : \E a \in Answers(o, comm) :
         /\ acceptSwapOfferGuards(offers[o].tx, offers[o].utxo.out, a.give,
                                  a.satoshis, comm, a.pay)
         /\ Hold(t, "returned",
                 acceptSwapOffer(offers[o].tx, offers[o].utxo.out, a.give,
                                 a.satoshis, comm, a.pay))
  BY DEF AcceptSwapOffer
<1>2. PICK a \in Answers(o, comm) :
         /\ acceptSwapOfferGuards(offers[o].tx, offers[o].utxo.out, a.give,
                                  a.satoshis, comm, a.pay)
         /\ Hold(t, "returned",
                 acceptSwapOffer(offers[o].tx, offers[o].utxo.out, a.give,
                                 a.satoshis, comm, a.pay))
  BY <1>1
<1> DEFINE body == BodyOf(offers[o], a.give, a.satoshis, comm, a.pay)
           s2 == SignAll(a.give.out, body)
           s3 == SignAll(a.pay.out, body)
           l1 == makerUnlock(body, offers[o].utxo.out, a.give, a.satoshis, a.pay)
           l2 == takerUnlock(body, a.give, a.pay)
           tx == [ins |-> body.ins, outs |-> body.outs,
                  sigs |-> <<offers[o].tx.sig, s2, s3>>, unlock |-> <<l1, l2, PlainUnlock>>]
<1>3. o \in Offers /\ offers[o].phase = "signed" /\ comm \in Commissions
  BY ArgumentsAssumption DEF Published
<1>4. /\ chain \in Seq(Txs)
      /\ offers[o] \in PublishedOffers /\ OfferOf(chain, offers[o])
      /\ a.give \in ChainUtxos(chain) /\ a.pay \in ChainUtxos(chain)
      /\ a.satoshis \in Nat
  BY <1>3, AnswersType
<1>5. SwapChange(a.pay, comm) >= 1
  BY <1>2 DEF acceptSwapOfferGuards
<1>6. acceptSwapOffer(offers[o].tx, offers[o].utxo.out, a.give, a.satoshis, comm, a.pay) = tx
  BY DEF acceptSwapOffer, BodyOf
<1>7. s2 \in Sigs /\ s3 \in Sigs /\ l1 \in SwapUnlocks /\ l2 \in SwapUnlocks
  <2>1. a.give \in UtxoRecords /\ a.pay \in UtxoRecords
    BY <1>4 DEF ChainUtxos
  <2> QED BY <1>3, <1>4, <1>5, <2>1, AnswerParts
<1>8. offers[o].tx.sig \in Sigs
  BY <1>4 DEF PublishedOffers
<1> HIDE DEF s2, s3, l1, l2
<1>9. tx \in SwapTxs /\ Answering(chain, offers[o], [phase |-> "returned", tx |-> tx])
  BY <1>3, <1>4, <1>5, <1>7, <1>8, PlainTypes, AnswerMade DEF BodyOf
<1> HIDE DEF tx
<1>10. AnswerKnown(chain, offers, [phase |-> "returned", tx |-> tx])
  BY <1>3, <1>9 DEF AnswerKnown
<1> QED BY <1>2, <1>6, <1>9, <1>10, HoldKeepsInv

LEMMA AcceptUnsignedKeepsInv ==
  ASSUME MarketInv, NEW t \in Takes, AcceptUnsignedSwapOffer(t)
  PROVE  MarketInv'
<1>1. PICK o \in Published("unsigned") : \E a \in Answers(o, NoCommission) :
         /\ acceptUnsignedSwapOfferGuards(offers[o].tx, a.give, a.satoshis, a.pay)
         /\ Hold(t, "sent",
                 acceptUnsignedSwapOffer(offers[o].tx, offers[o].utxo.out, a.give,
                 a.satoshis, a.pay))
  BY DEF AcceptUnsignedSwapOffer
<1>2. PICK a \in Answers(o, NoCommission) :
         /\ acceptUnsignedSwapOfferGuards(offers[o].tx, a.give, a.satoshis, a.pay)
         /\ Hold(t, "sent",
                 acceptUnsignedSwapOffer(offers[o].tx, offers[o].utxo.out, a.give,
                 a.satoshis, a.pay))
  BY <1>1
<1> DEFINE body == BodyOf(offers[o], a.give, a.satoshis, NoCommission, a.pay)
           s2 == SignAll(a.give.out, body)
           s3 == SignAll(a.pay.out, body)
           l2 == takerUnlock(body, a.give, a.pay)
           tx == [ins |-> body.ins, outs |-> body.outs,
                  sigs |-> <<NoSig, s2, s3>>,
                  unlock |-> <<PlainUnlock, l2, PlainUnlock>>]
<1>3. o \in Offers /\ offers[o].phase = "unsigned"
  BY DEF Published
<1>4. /\ chain \in Seq(Txs)
      /\ offers[o] \in PublishedOffers /\ OfferOf(chain, offers[o])
      /\ a.give \in ChainUtxos(chain) /\ a.pay \in ChainUtxos(chain)
      /\ a.satoshis \in Nat
  BY <1>3, AnswersType
<1>5. SwapChange(a.pay, NoCommission) >= 1 /\ NoCommission \in Commissions
  BY <1>2, NoCommissionType DEF acceptUnsignedSwapOfferGuards
<1>6. acceptUnsignedSwapOffer(offers[o].tx, offers[o].utxo.out, a.give,
        a.satoshis, a.pay) = tx
  BY DEF acceptUnsignedSwapOffer, BodyOf
<1>7. s2 \in Sigs /\ s3 \in Sigs /\ l2 \in SwapUnlocks
  <2>1. a.give \in UtxoRecords /\ a.pay \in UtxoRecords
    BY <1>4 DEF ChainUtxos
  <2> QED BY <1>4, <1>5, <2>1, AnswerParts, PlainTypes
<1> HIDE DEF s2, s3, l2
<1>8. tx \in SwapTxs /\ Answering(chain, offers[o], [phase |-> "sent", tx |-> tx])
  BY <1>4, <1>5, <1>7, PlainTypes, AnswerMade
<1> HIDE DEF tx
<1>9. AnswerKnown(chain, offers, [phase |-> "sent", tx |-> tx])
  BY <1>3, <1>8 DEF AnswerKnown
<1> QED BY <1>2, <1>6, <1>8, <1>9, HoldKeepsInv

LEMMA AcceptNativeKeepsInv ==
  ASSUME MarketInv, NEW t \in Takes, AcceptUnsignedNativeSwapOffer(t)
  PROVE  MarketInv'
<1>1. PICK o \in Published("unsigned") : \E a \in Answers(o, NoCommission) :
         /\ acceptUnsignedNativeSwapOfferGuards(a.satoshis, a.pay)
         /\ Hold(t, "sent",
                 acceptUnsignedNativeSwapOffer(offers[o].tx, offers[o].utxo.out, a.give,
                 a.satoshis, a.pay))
  BY DEF AcceptUnsignedNativeSwapOffer
<1>2. PICK a \in Answers(o, NoCommission) :
         /\ acceptUnsignedNativeSwapOfferGuards(a.satoshis, a.pay)
         /\ Hold(t, "sent",
                 acceptUnsignedNativeSwapOffer(offers[o].tx, offers[o].utxo.out, a.give,
                 a.satoshis, a.pay))
  BY <1>1
<1> DEFINE body == BodyOf(offers[o], a.give, a.satoshis, NoCommission, a.pay)
           s2 == SignAll(a.give.out, body)
           s3 == SignAll(a.pay.out, body)
           l2 == PlainUnlock
           tx == [ins |-> body.ins, outs |-> body.outs,
                  sigs |-> <<NoSig, s2, s3>>,
                  unlock |-> <<PlainUnlock, l2, PlainUnlock>>]
<1>3. o \in Offers /\ offers[o].phase = "unsigned"
  BY DEF Published
<1>4. /\ chain \in Seq(Txs)
      /\ offers[o] \in PublishedOffers /\ OfferOf(chain, offers[o])
      /\ a.give \in ChainUtxos(chain) /\ a.pay \in ChainUtxos(chain)
      /\ a.satoshis \in Nat
  BY <1>3, AnswersType
<1>5. SwapChange(a.pay, NoCommission) >= 1 /\ NoCommission \in Commissions
  BY <1>2, NoCommissionType DEF acceptUnsignedNativeSwapOfferGuards
<1>6. acceptUnsignedNativeSwapOffer(offers[o].tx, offers[o].utxo.out, a.give,
        a.satoshis, a.pay) = tx
  BY DEF acceptUnsignedNativeSwapOffer, BodyOf
<1>7. s2 \in Sigs /\ s3 \in Sigs /\ l2 \in SwapUnlocks
  <2>1. a.give \in UtxoRecords /\ a.pay \in UtxoRecords
    BY <1>4 DEF ChainUtxos
  <2> QED BY <1>4, <1>5, <2>1, AnswerParts, PlainTypes
<1> HIDE DEF s2, s3, l2
<1>8. tx \in SwapTxs /\ Answering(chain, offers[o], [phase |-> "sent", tx |-> tx])
  BY <1>4, <1>5, <1>7, PlainTypes, AnswerMade
<1> HIDE DEF tx
<1>9. AnswerKnown(chain, offers, [phase |-> "sent", tx |-> tx])
  BY <1>3, <1>8 DEF AnswerKnown
<1> QED BY <1>2, <1>6, <1>8, <1>9, HoldKeepsInv

\* The first signature and the first unlocking script are replaced.
Replaced(tx, sig, un) == [tx EXCEPT !.sigs[1] = sig, !.unlock[1] = un]

LEMMA ReplaceFirst ==
  ASSUME NEW I, NEW O, NEW S, NEW U, NEW tx \in [ins: I, outs: O, sigs: S, unlock: U],
         NEW sig, NEW un
  PROVE  LET done == Replaced(tx, sig, un)
         IN /\ done.ins = tx.ins /\ done.outs = tx.outs
            /\ done.sigs = [tx.sigs EXCEPT ![1] = sig]
            /\ done.unlock = [tx.unlock EXCEPT ![1] = un]
            /\ done = [ins |-> done.ins, outs |-> done.outs, sigs |-> done.sigs,
                       unlock |-> done.unlock]
<1> DEFINE done == Replaced(tx, sig, un)
<1>1. done.ins = tx.ins /\ done.outs = tx.outs
  BY DEF Replaced
<1>2. done.sigs = [tx.sigs EXCEPT ![1] = sig]
  BY DEF Replaced
<1>3. done.unlock = [tx.unlock EXCEPT ![1] = un]
  BY DEF Replaced
<1>4. DOMAIN done = {"ins", "outs", "sigs", "unlock"} /\ done = [x \in DOMAIN done |-> done[x]]
  BY DEF Replaced
<1> HIDE DEF done
<1>5. done = [ins |-> done.ins, outs |-> done.outs, sigs |-> done.sigs,
              unlock |-> done.unlock]
  BY <1>4
<1> QED BY <1>1, <1>2, <1>3, <1>5 DEF done

\* The maker completes an answer: outputs and inputs stay, and his signature is
\* for an input that holds the amount of the second output.
LEMMA MakerSignsKeepsInv ==
  ASSUME MarketInv, NEW t \in Takes, MakerSigns(t)
  PROVE  MarketInv'
<1> DEFINE tx == takes[t].tx
           makerOut == Utxo(chain, tx.ins[1]).out
           pay == Utxo(chain, tx.ins[3])
           signed == makerSignedOutput(makerOut, tx)
           sig == SignAll(signed, tx)
           un == IF makerOut.kind = "stas"
                   THEN swapUnlock(tx, pay, tx.ins[2], signed.satoshis) ELSE PlainUnlock
           done == Replaced(tx, sig, un)
<1>1. takes[t].phase = "sent" /\ Hold(t, "returned", done)
  BY DEF MakerSigns, makerSignSwapOffer, Replaced
<1>2. tx \in SwapTxs /\ chain \in Seq(Txs)
  BY DEF MarketInv, TypeOK
<1>3. PICK o \in Offers : offers[o].phase # "none" /\ Answering(chain, offers[o], takes[t])
  BY <1>1 DEF MarketInv, AnswersKept, AnswerKnown
<1>4. PICK op2 \in Created(chain), op3 \in Created(chain), satoshis \in Nat :
         /\ tx.ins = <<offers[o].utxo.op, op2, op3>>
         /\ tx.outs[2] = WithOwner(offers[o].utxo.out, OutputOf(chain, op2).pkh, satoshis)
  BY <1>3 DEF Answering
<1>5. /\ 2 \in DOMAIN tx.outs /\ 1 \in DOMAIN tx.sigs /\ 1 \in DOMAIN tx.unlock
      /\ tx.outs[1] = makerWantedOutput(offers[o].utxo.out.pkh, offers[o].wanted)
  BY <1>3 DEF Answering
<1>6. offers[o].utxo.op \in Created(chain)
  BY <1>3 DEF MarketInv, OffersKept, OfferOf
<1> HIDE DEF tx
<1>7. makerOut \in Outputs /\ pay \in UtxoRecords /\ tx.ins[2] \in Outpoints
  <2>1. tx.ins[1] = offers[o].utxo.op /\ tx.ins[2] = op2 /\ tx.ins[3] = op3
    BY <1>4
  <2>2. Utxo(chain, tx.ins[1]) \in UtxoRecords /\ Utxo(chain, tx.ins[3]) \in UtxoRecords
    BY <1>2, <1>6, <2>1, UtxoType
  <2>3. op2 \in Outpoints
    BY <1>2, CreatedType
  <2> QED BY <2>1, <2>2, <2>3 DEF UtxoRecords
<1> HIDE DEF makerOut, pay
<1>8. /\ tx.ins \in Seq(Outpoints) /\ tx.outs \in Seq(Outputs)
      /\ tx.sigs \in Seq(Sigs) /\ tx.unlock \in Seq(SwapUnlocks)
  BY <1>2 DEF SwapTxs
<1>9. signed \in Outputs /\ signed.satoshis = tx.outs[2].satoshis
      /\ tx.outs[2].satoshis \in Nat
  <2>1. tx.outs[2] \in Outputs
    BY <1>5, <1>8, LenProperties, ElementOfSeq
  <2> QED BY <1>7, <2>1 DEF makerSignedOutput, Outputs
<1> HIDE DEF signed
<1>10. sig \in Sigs /\ sig.prev.satoshis = tx.outs[2].satoshis
  BY <1>8, <1>9, SignType DEF SignAll
<1>11. un \in SwapUnlocks
  BY <1>7, <1>8, <1>9, SwapUnlockType, PlainTypes
<1> HIDE DEF sig, un
<1>12. /\ done.ins = tx.ins /\ done.outs = tx.outs
       /\ done.sigs = [tx.sigs EXCEPT ![1] = sig]
       /\ done.unlock = [tx.unlock EXCEPT ![1] = un]
       /\ done = [ins |-> done.ins, outs |-> done.outs, sigs |-> done.sigs,
                  unlock |-> done.unlock]
  BY SMTT(40), <1>2, ReplaceFirst DEF SwapTxs
<1> HIDE DEF done
<1>13. /\ done.sigs \in Seq(Sigs) /\ 1 \in DOMAIN done.sigs /\ done.sigs[1] = sig
       /\ done.unlock \in Seq(SwapUnlocks) /\ 1 \in DOMAIN done.unlock
  <2>1. 1 \in 1..Len(tx.sigs) /\ 1 \in 1..Len(tx.unlock)
    BY <1>5, <1>8, LenProperties
  <2>2. done.sigs \in Seq(Sigs) /\ done.unlock \in Seq(SwapUnlocks)
    BY <1>8, <1>10, <1>11, <1>12, <2>1, ExceptSeq
  <2>3. DOMAIN done.sigs = DOMAIN tx.sigs /\ DOMAIN done.unlock = DOMAIN tx.unlock
        /\ done.sigs[1] = sig
    BY <1>5, <1>12
  <2> QED BY <1>5, <2>2, <2>3
<1>14. done \in SwapTxs
  BY <1>8, <1>12, <1>13 DEF SwapTxs
<1>15. Answering(chain, offers[o], [phase |-> "returned", tx |-> done])
  BY <1>4, <1>5, <1>10, <1>12, <1>13 DEF Answering
<1>16. AnswerKnown(chain, offers, [phase |-> "returned", tx |-> done])
  BY <1>3, <1>15 DEF AnswerKnown
<1> QED BY <1>1, <1>14, <1>16, HoldKeepsInv

\* One call for both parties agrees on an offer and answers it.
LEMMA AllInOneKeepsInv ==
  ASSUME MarketInv, NEW t \in Takes, AllInOneSwap(t)
  PROVE  MarketInv'
<1>1. PICK o \in Offers, u1, u2 \in Tradeable, wanted \in WantedInfos :
         \E pay \in Payments({u1.op, u2.op}) :
           /\ MayTake(t)
           /\ offers[o].phase = "none"
           /\ u1.out.kind = "stas" /\ u2.out.kind = "stas"
           /\ u1.out.pkh # u2.out.pkh
           /\ ProperTakers => ProperOffer(u1, wanted) /\ Carries(u2.out, wanted)
           /\ allInOneSwapGuards(u1, wanted, u2, u1.out.satoshis, pay)
           /\ offers' = [offers EXCEPT ![o] =
                [phase |-> "agreed", utxo |-> u1, wanted |-> wanted,
                 tx |-> createUnsignedSwapOffer(u1, wanted)]]
           /\ takes' = [takes EXCEPT ![t] =
                [phase |-> "returned",
                 tx |-> allInOneSwap(u1, wanted, u2, u1.out.satoshis, pay)]]
           /\ UNCHANGED chain
  BY Zenon DEF AllInOneSwap
<1>2. PICK pay \in Payments({u1.op, u2.op}) :
         /\ offers[o].phase = "none"
         /\ allInOneSwapGuards(u1, wanted, u2, u1.out.satoshis, pay)
         /\ offers' = [offers EXCEPT ![o] =
              [phase |-> "agreed", utxo |-> u1, wanted |-> wanted,
               tx |-> createUnsignedSwapOffer(u1, wanted)]]
         /\ takes' = [takes EXCEPT ![t] =
              [phase |-> "returned",
               tx |-> allInOneSwap(u1, wanted, u2, u1.out.satoshis, pay)]]
         /\ chain' = chain
  BY <1>1
<1>2a. SwapChange(pay, NoCommission) >= 1
  BY <1>2 DEF allInOneSwapGuards
<1> DEFINE offer == [phase |-> "agreed", utxo |-> u1, wanted |-> wanted,
                     tx |-> createUnsignedSwapOffer(u1, wanted)]
           body == BodyOf(offer, u2, u1.out.satoshis, NoCommission, pay)
           s1 == SignAll(u1.out, body)
           s2 == SignAll(u2.out, body)
           s3 == SignAll(pay.out, body)
           l1 == swapUnlock(body, pay, u2.op, u1.out.satoshis)
           l2 == swapUnlock(body, pay, u1.op, u2.out.satoshis)
           tx == [ins |-> body.ins, outs |-> body.outs, sigs |-> <<s1, s2, s3>>,
                  unlock |-> <<l1, l2, PlainUnlock>>]
           take == [phase |-> "returned", tx |-> tx]
           w == makerWantedOutput(u1.out.pkh, wanted)
<1>3. chain \in Seq(Txs)
  BY DEF MarketInv, TypeOK
<1>4. /\ u1 \in ChainUtxos(chain) /\ u2 \in ChainUtxos(chain) /\ pay \in ChainUtxos(chain)
  BY <1>3, TradeableType DEF ChainUtxos
<1>5. /\ u1 \in UtxoRecords /\ u1.op \in Created(chain) /\ u1.out = OutputOf(chain, u1.op)
      /\ u2 \in UtxoRecords /\ pay \in UtxoRecords
      /\ u1.op \in Outpoints /\ u1.out \in Outputs /\ u1.out.satoshis \in Nat
      /\ u2.op \in Outpoints /\ u2.out.satoshis \in Nat /\ u1.out.pkh \in Keys
  BY <1>4 DEF ChainUtxos, UtxoRecords, Outputs
<1>6. wanted \in Wanted /\ w \in Outputs
  BY <1>5, ArgumentsAssumption, WantedOutputType
<1>7. createUnsignedSwapOffer(u1, wanted) = [ins |-> <<u1.op>>, outs |-> <<w>>, sig |-> NoSig]
  BY DEF createUnsignedSwapOffer, offerTx
<1>8. offer \in PublishedOffers
  <2>1. <<u1.op>> \in Seq(Outpoints) /\ <<w>> \in Seq(Outputs) /\ NoSig \in Sigs
    BY <1>5, <1>6, SingletonSeq, PlainTypes
  <2>2. createUnsignedSwapOffer(u1, wanted)
          \in [ins: Seq(Outpoints), outs: Seq(Outputs), sig: Sigs]
    BY <1>7, <2>1
  <2>3. u1 \in [op: Outpoints, out: Outputs]
    BY <1>5 DEF UtxoRecords
  <2> QED BY <1>6, <2>2, <2>3 DEF PublishedOffers
<1>9. OfferOf(chain, offer)
  <2> HIDE DEF w
  <2> QED BY <1>5, <1>7 DEF OfferOf, w
<1>10. /\ offer.phase = "agreed"
       /\ allInOneSwap(u1, wanted, u2, u1.out.satoshis, pay) = tx
  <2>1. swapBody(offerTx(u1, wanted), u1.out, u2, u1.out.satoshis, NoCommission, pay) = body
    BY DEF swapBody, BodyOf, offerTx, createUnsignedSwapOffer
  <2> QED BY <2>1 DEF allInOneSwap
<1>11. /\ s1 \in Sigs /\ s2 \in Sigs /\ s3 \in Sigs
       /\ l1 \in SwapUnlocks /\ l2 \in SwapUnlocks
  <2> HIDE DEF offer
  <2> QED BY <1>2a, <1>3, <1>4, <1>5, <1>8, <1>9, NoCommissionType, AnswerParts
<1> HIDE DEF offer, s1, s2, s3, l1, l2
<1>12. tx \in SwapTxs /\ Answering(chain, offer, take)
  BY <1>2a, <1>3, <1>4, <1>5, <1>8, <1>9, <1>10, <1>11, NoCommissionType, PlainTypes,
     AnswerMade
<1>13. take \in [phase: {"idle", "sent", "returned"}, tx: SwapTxs]
  <2> HIDE DEF tx
  <2> QED BY <1>12
<1>14. /\ offers' = [offers EXCEPT ![o] = offer] /\ takes' = [takes EXCEPT ![t] = take]
       /\ chain' = chain /\ offers[o].phase = "none"
  BY <1>2, <1>10 DEF offer
<1> HIDE DEF take, tx
<1>15. TypeOK'
  BY <1>8, <1>13, <1>14 DEF MarketInv, TypeOK
<1>16. OffersKept'
  BY <1>9, <1>14 DEF MarketInv, TypeOK, OffersKept
<1>17. AnswersKept'
  <2>1. ASSUME NEW s \in Takes, takes'[s].phase # "idle"
        PROVE  AnswerKnown(chain, offers', takes'[s])
    <3>1. CASE s = t
      <4>1. takes'[s] = take /\ offers'[o] = offer
        BY <1>14, <3>1 DEF MarketInv, TypeOK
      <4> QED BY <1>10, <1>12, <4>1 DEF AnswerKnown
    <3>2. CASE s # t
      <4>1. takes'[s] = takes[s]
        BY <1>14, <3>2 DEF MarketInv, TypeOK
      <4>2. PICK q \in Offers : /\ offers[q].phase # "none"
                                /\ Answering(chain, offers[q], takes[s])
        BY <2>1, <4>1 DEF MarketInv, AnswersKept, AnswerKnown
      <4>3. offers'[q] = offers[q]
        BY <1>14, <4>2 DEF MarketInv, TypeOK
      <4> QED BY <4>1, <4>2, <4>3 DEF AnswerKnown
    <3> QED BY <3>1, <3>2
  <2> QED BY <1>14, <2>1 DEF AnswersKept
<1> QED BY <1>15, <1>16, <1>17 DEF MarketInv

-----------------------------------------------------------------------------
(* The chain grows *)

LEMMA GrowthKeeps ==
  ASSUME NEW ch \in Seq(Txs), NEW entry \in Txs
  PROVE  /\ \A op \in Created(ch) :
               /\ op \in Created(Append(ch, entry))
               /\ OutputOf(Append(ch, entry), op) = OutputOf(ch, op)
         /\ \A offer : OfferOf(ch, offer) => OfferOf(Append(ch, entry), offer)
         /\ \A published, take : AnswerKnown(ch, published, take)
                                   => AnswerKnown(Append(ch, entry), published, take)
<1> DEFINE longer == Append(ch, entry)
<1>1. ASSUME NEW op \in Created(ch)
      PROVE  op \in Created(longer) /\ OutputOf(longer, op) = OutputOf(ch, op)
  BY AppendKeepsOutputs DEF OutputOf
<1> HIDE DEF longer
<1>2. ASSUME NEW offer, OfferOf(ch, offer) PROVE OfferOf(longer, offer)
  BY <1>1, <1>2 DEF OfferOf
<1>3. ASSUME NEW published, NEW take, AnswerKnown(ch, published, take)
      PROVE  AnswerKnown(longer, published, take)
  <2>1. PICK o \in Offers : /\ published[o].phase # "none"
                            /\ Answering(ch, published[o], take)
    BY <1>3 DEF AnswerKnown
  <2> DEFINE offer == published[o]
  <2>2. PICK op2 \in Created(ch), op3 \in Created(ch), satoshis \in Nat :
           /\ take.tx.ins = <<offer.utxo.op, op2, op3>>
           /\ take.tx.outs[2] = WithOwner(offer.utxo.out, OutputOf(ch, op2).pkh, satoshis)
    BY <2>1 DEF Answering
  <2>3. op2 \in Created(longer) /\ op3 \in Created(longer)
        /\ OutputOf(longer, op2) = OutputOf(ch, op2)
    BY <1>1
  <2>4. \E p2, p3 \in Created(longer), sat \in Nat :
           /\ take.tx.ins = <<offer.utxo.op, p2, p3>>
           /\ take.tx.outs[2] = WithOwner(offer.utxo.out, OutputOf(longer, p2).pkh, sat)
    BY <2>2, <2>3
  <2>5. Answering(longer, offer, take)
    BY <2>1, <2>4 DEF Answering
  <2> QED BY <2>1, <2>5 DEF AnswerKnown
<1> QED BY <1>1, <1>2, <1>3 DEF longer

LEMMA ConfirmKeepsInv ==
  ASSUME MarketInv, NEW entry \in Txs, chain' = Append(chain, entry), offers' = offers,
         takes' = takes \/ \E t \in Takes : takes' = [takes EXCEPT ![t] = IdleTake]
  PROVE  MarketInv'
<1>1. chain \in Seq(Txs) /\ chain' \in Seq(Txs)
  BY AppendProperties DEF MarketInv, TypeOK
<1>2. IdleTake \in [phase: {"idle", "sent", "returned"}, tx: SwapTxs]
      /\ IdleTake.phase = "idle"
  BY EmptySeq DEF IdleTake, NoSwap, SwapTxs
<1>3. TypeOK'
  BY <1>1, <1>2 DEF MarketInv, TypeOK
<1>4. OffersKept'
  BY <1>1, GrowthKeeps DEF MarketInv, OffersKept
<1>5. AnswersKept'
  <2>1. ASSUME NEW s \in Takes, takes'[s].phase # "idle"
        PROVE  AnswerKnown(chain', offers', takes'[s])
    <3>1. takes'[s] = takes[s]
      BY <1>2, <2>1 DEF MarketInv, TypeOK
    <3>2. AnswerKnown(chain, offers, takes[s])
      BY <2>1, <3>1 DEF MarketInv, AnswersKept
    <3> QED BY <1>1, <3>1, <3>2, GrowthKeeps
  <2> QED BY <2>1 DEF AnswersKept
<1> QED BY <1>3, <1>4, <1>5 DEF MarketInv

-----------------------------------------------------------------------------
(* The invariant *)

\* A withdrawn output is spent by a transaction with no other input.
LEMMA WithdrawnType ==
  ASSUME NEW u \in UtxoRecords, u.out.pkh \in Traders, NEW tx \in SpentElsewhere(u)
  PROVE  [ins |-> tx.ins, outs |-> tx.outs] \in Txs /\ tx.ins = <<u.op>>
<1>1. u.op \in Outpoints /\ u.out \in Outputs /\ <<u.op>> \in Seq(Outpoints)
  BY SingletonSeq DEF UtxoRecords
<1>2. CASE u.out.kind = "stas"
  <2>1. PICK k \in Traders : tx = transferTx(u, k, <<>>)
    BY <1>2 DEF SpentElsewhere
  <2> DEFINE out == StasOut(k, u.out.tok, u.out.satoshis)
  <2>2. out \in Outputs /\ <<out>> \in Seq(Outputs)
    <3>1. out \in Outputs
      BY <1>1, ArgumentsAssumption DEF StasOut, Outputs
    <3> QED BY <3>1, SingletonSeq
  <2>3. Ops(<<>>) = <<>> /\ ChangeOutputs(<<>>) = <<>>
    BY DEF Ops, ChangeOutputs
  <2>4. tx.ins = <<u.op>> \o <<>> /\ tx.outs = <<out>> \o <<>>
    BY <2>1, <2>3 DEF transferTx, BasicTx
  <2> HIDE DEF out
  <2>5. tx.ins = <<u.op>> /\ tx.outs = <<out>>
    BY <1>1, <2>2, <2>4, ConcatEmptySeq
  <2> QED BY <1>1, <2>2, <2>5 DEF Txs
<1>3. CASE u.out.kind # "stas"
  <2>1. tx.ins = <<u.op>> /\ tx.outs = <<u.out>>
    BY <1>3 DEF SpentElsewhere
  <2>2. <<u.out>> \in Seq(Outputs)
    BY <1>1, SingletonSeq
  <2> QED BY <1>1, <2>1, <2>2 DEF Txs
<1> QED BY <1>2, <1>3

LEMMA WithdrawEffect ==
  ASSUME chain \in Seq(Txs), Withdraw
  PROVE  \E entry \in Txs : /\ chain' = Append(chain, entry) /\ Len(entry.ins) = 1
                            /\ offers' = offers /\ takes' = takes
<1>1. PICK u \in Tradeable : \E tx \in SpentElsewhere(u) :
         /\ chain' = Append(chain, [ins |-> tx.ins, outs |-> tx.outs])
         /\ offers' = offers /\ takes' = takes
  BY DEF Withdraw
<1>2. PICK tx \in SpentElsewhere(u) :
         /\ chain' = Append(chain, [ins |-> tx.ins, outs |-> tx.outs])
         /\ offers' = offers /\ takes' = takes
  BY <1>1
<1>3. u \in UtxoRecords /\ u.out.pkh \in Traders /\ u.op \in Outpoints
  BY TradeableType DEF Tradeable, UtxoRecords
<1>4. [ins |-> tx.ins, outs |-> tx.outs] \in Txs /\ tx.ins = <<u.op>>
  BY <1>3, WithdrawnType
<1>5. Len(tx.ins) = 1
  BY <1>3, <1>4, SingletonSeq
<1> QED BY <1>2, <1>4, <1>5

LEMMA AcceptedEffect ==
  ASSUME TypeOK, NEW t \in Takes, BroadcastAccepted(t)
  PROVE  \E entry \in Txs : /\ entry = [ins |-> takes[t].tx.ins, outs |-> takes[t].tx.outs]
                            /\ chain' = Append(chain, entry)
                            /\ offers' = offers
                            /\ takes' = [takes EXCEPT ![t] = IdleTake]
<1>1. takes[t].tx \in SwapTxs
  BY DEF TypeOK
<1> QED BY <1>1 DEF SwapTxs, Txs, BroadcastAccepted

LEMMA OffersKeepInv ==
  ASSUME MarketInv, NEW o \in Offers, CreateSwapOffer(o) \/ CreateUnsignedSwapOffer(o)
  PROVE  MarketInv'
<1>1. CASE CreateSwapOffer(o)
  <2>1. PICK u \in Tradeable, wanted \in WantedInfos :
           /\ offers[o].phase = "none"
           /\ Publish(o, "signed", u, wanted, createSwapOffer(u, wanted))
    BY <1>1 DEF CreateSwapOffer
  <2> DEFINE sig == SignSingle(u.out, offerTx(u, wanted))
             w == makerWantedOutput(u.out.pkh, wanted)
  <2>2. u.op \in Outpoints /\ u.out \in Outputs /\ w \in Outputs /\ u.out.pkh \in Keys
    <3>1. u \in UtxoRecords
      BY TradeableType DEF MarketInv, TypeOK
    <3>2. u.out \in Outputs /\ u.op \in Outpoints /\ u.out.pkh \in Keys
      BY <3>1 DEF UtxoRecords, Outputs
    <3> QED BY <3>2, ArgumentsAssumption, WantedOutputType
  <2>3. sig \in Sigs
    <3> HIDE DEF w
    <3>1. <<u.op>> \in Seq(Outpoints) /\ <<u.op>>[1] = u.op
          /\ <<w>> \in Seq(Outputs) /\ <<w>>[1] = w
      BY <2>2, SingletonSeq
    <3>2. sig = [by |-> u.out.pkh, prev |-> u.out, scope |-> "single",
                 ins |-> <<u.op>>, outs |-> <<w>>]
      BY <3>1 DEF SignSingle, offerTx, w
    <3> QED BY <2>2, <3>1, <3>2 DEF Sigs
  <2>4. createSwapOffer(u, wanted)
          = [ins |-> offerTx(u, wanted).ins, outs |-> offerTx(u, wanted).outs, sig |-> sig]
    BY DEF createSwapOffer
  <2> HIDE DEF sig
  <2> QED BY <2>1, <2>3, <2>4, PublishKeepsInv
<1>2. CASE CreateUnsignedSwapOffer(o)
  <2>1. PICK u \in Tradeable, wanted \in WantedInfos :
           /\ offers[o].phase = "none"
           /\ Publish(o, "unsigned", u, wanted, createUnsignedSwapOffer(u, wanted))
    BY <1>2 DEF CreateUnsignedSwapOffer
  <2>2. createUnsignedSwapOffer(u, wanted)
          = [ins |-> offerTx(u, wanted).ins, outs |-> offerTx(u, wanted).outs,
             sig |-> NoSig]
    BY DEF createUnsignedSwapOffer
  <2> QED BY <2>1, <2>2, PlainTypes, PublishKeepsInv
<1> QED BY <1>1, <1>2

LEMMA InitInv == Init => MarketInv
<1> SUFFICES ASSUME Init PROVE MarketInv
  OBVIOUS
<1>1. chain \in Seq(Txs)
  <2>1. /\ Len(Genesis) \in Nat /\ DOMAIN Genesis = 1..Len(Genesis)
        /\ \A t \in 1..Len(Genesis) : Genesis[t] \in Seq(Outputs)
    BY GenesisAssumption, LenProperties, ElementOfSeq
  <2>2. <<>> \in Seq(Outpoints)
    BY EmptySeq
  <2>3. chain \in [1..Len(Genesis) -> Txs]
    BY <2>1, <2>2 DEF Init, Txs
  <2> QED BY <2>1, <2>3, FunctionIsSeq
<1>2. IdleTake \in [phase: {"idle", "sent", "returned"}, tx: SwapTxs]
      /\ IdleTake.phase = "idle"
  BY EmptySeq DEF IdleTake, NoSwap, SwapTxs
<1>3. TypeOK
  BY <1>1, <1>2 DEF Init, TypeOK
<1>4. OffersKept
  BY DEF Init, OffersKept, NoOffer
<1>5. AnswersKept
  BY <1>2 DEF Init, AnswersKept
<1> QED BY <1>3, <1>4, <1>5 DEF MarketInv

LEMMA NextKeepsInv == MarketInv /\ [Next]_vars => MarketInv'
<1> SUFFICES ASSUME MarketInv, [Next]_vars PROVE MarketInv'
  OBVIOUS
<1>1. CASE UNCHANGED vars
  BY <1>1 DEF vars, MarketInv, TypeOK, OffersKept, AnswersKept
<1>2. CASE \E o \in Offers : CreateSwapOffer(o) \/ CreateUnsignedSwapOffer(o)
  BY <1>2, OffersKeepInv
<1>3. CASE \E t \in Takes : Answer(t)
  BY <1>3, AcceptKeepsInv, AcceptUnsignedKeepsInv, AcceptNativeKeepsInv,
     AllInOneKeepsInv DEF Answer
<1>4. ASSUME NEW t \in Takes, Finish(t) PROVE MarketInv'
  <2>1. NoSwap \in SwapTxs
    BY EmptySeq DEF NoSwap, SwapTxs
  <2>2. CASE MakerDeclines(t) \/ BroadcastRefused(t)
    <3>1. Hold(t, "idle", NoSwap)
      BY <2>2 DEF MakerDeclines, BroadcastRefused
    <3> QED BY <2>1, <3>1, HoldKeepsInv
  <2>3. CASE BroadcastAccepted(t)
    BY <2>3, AcceptedEffect, ConfirmKeepsInv DEF MarketInv
  <2> QED BY <1>4, <2>2, <2>3, MakerSignsKeepsInv DEF Finish
<1>5. CASE Withdraw
  BY <1>5, WithdrawEffect, ConfirmKeepsInv DEF MarketInv, TypeOK
<1> QED BY <1>1, <1>2, <1>3, <1>4, <1>5 DEF Next

\* Every published offer names an output of the chain and asks for what its maker
\* wanted; every answer under way leaves the offer's input and output in front,
\* and a maker who completed an unsigned offer signed for the amount that the
\* second output pays out.
THEOREM MarketInvariant == Spec => []MarketInv
<1>1. Init => MarketInv
  BY InitInv
<1>2. MarketInv /\ [Next]_vars => MarketInv'
  BY NextKeepsInv
<1> QED BY <1>1, <1>2, PTL DEF Spec

\* The types of chain, offers and answers hold for every number of them.
THEOREM MarketTypeCorrect == Spec => []TypeOK
<1>1. MarketInv => TypeOK
  BY DEF MarketInv
<1> QED BY <1>1, MarketInvariant, PTL

-----------------------------------------------------------------------------
(* What confirmed swaps brought *)

Honoured(ch, published, entry) ==
    \E o \in Offers :
        /\ published[o].phase # "none" /\ published[o].utxo.op = entry.ins[1]
        /\ entry.outs[1] = makerWantedOutput(OutputOf(ch, entry.ins[1]).pkh,
                                             published[o].wanted)

OnlyUnsigned(published, op) ==
    \A o \in Offers :
        published[o].phase # "none" /\ published[o].utxo.op = op
            => published[o].phase = "unsigned"

Received(ch, published, entry) ==
    LET given == OutputOf(ch, entry.ins[1])
    IN given.kind = "stas" \/ OnlyUnsigned(published, entry.ins[1])
         => entry.outs[2] = WithOwner(given, OutputOf(ch, entry.ins[2]).pkh, given.satoshis)

SwapKept(ch, published, entry) ==
    /\ entry.ins[1] \in Created(ch) /\ entry.ins[2] \in Created(ch)
    /\ Honoured(ch, published, entry)
    /\ Received(ch, published, entry)

SwapHistory(ch, published) ==
    \A t \in DOMAIN ch : Len(ch[t].ins) = 3 => SwapKept(ch, published, ch[t])

\* What a confirmed swap brought stays what it is: the chain only grows, ...
LEMMA GrowthKeepsSwap ==
  ASSUME NEW ch \in Seq(Txs), NEW new \in Txs, NEW published, NEW entry,
         SwapKept(ch, published, entry)
  PROVE  SwapKept(Append(ch, new), published, entry)
<1> DEFINE longer == Append(ch, new)
<1>1. /\ entry.ins[1] \in Created(longer) /\ entry.ins[2] \in Created(longer)
      /\ OutputOf(longer, entry.ins[1]) = OutputOf(ch, entry.ins[1])
      /\ OutputOf(longer, entry.ins[2]) = OutputOf(ch, entry.ins[2])
  BY GrowthKeeps DEF SwapKept
<1> HIDE DEF longer
<1>2. SwapKept(longer, published, entry)
  BY <1>1 DEF SwapKept, Honoured, Received
<1> QED BY <1>2 DEF longer

LEMMA AppendKeepsHistory ==
  ASSUME NEW ch \in Seq(Txs), NEW new \in Txs, NEW published,
         SwapHistory(ch, published), Len(new.ins) = 3 => SwapKept(ch, published, new)
  PROVE  SwapHistory(Append(ch, new), published)
<1> SUFFICES ASSUME NEW t \in DOMAIN Append(ch, new), Len(Append(ch, new)[t].ins) = 3
             PROVE  SwapKept(Append(ch, new), published, Append(ch, new)[t])
  BY DEF SwapHistory
<1>1. /\ Append(ch, new) \in Seq(Txs) /\ Len(ch) \in Nat
      /\ Len(Append(ch, new)) = Len(ch) + 1 /\ DOMAIN ch = 1..Len(ch)
      /\ Append(ch, new)[Len(ch) + 1] = new
      /\ \A i \in 1..Len(ch) : Append(ch, new)[i] = ch[i]
  BY AppendProperties, LenProperties
<1>2. t \in 1..(Len(ch) + 1)
  BY <1>1, LenProperties
<1>3. CASE t \in 1..Len(ch)
  <2>1. Append(ch, new)[t] = ch[t] /\ t \in DOMAIN ch
    BY <1>1, <1>3
  <2>2. SwapKept(ch, published, ch[t])
    BY <2>1 DEF SwapHistory
  <2> QED BY <2>1, <2>2, GrowthKeepsSwap
<1>4. CASE t = Len(ch) + 1
  BY <1>1, <1>4, GrowthKeepsSwap
<1> QED BY <1>1, <1>2, <1>3, <1>4

\* ... and an offer, once published, is neither changed nor taken back.
LEMMA PublishKeepsHistory ==
  ASSUME NEW ch, NEW published, DOMAIN published = Offers, NEW o \in Offers,
         published[o].phase = "none", NEW offer, SwapHistory(ch, published)
  PROVE  SwapHistory(ch, [published EXCEPT ![o] = offer])
<1> DEFINE after == [published EXCEPT ![o] = offer]
<1>1. \A q \in Offers : published[q].phase # "none" => after[q] = published[q]
  OBVIOUS
<1> HIDE DEF after
<1>2. ASSUME NEW entry, SwapKept(ch, published, entry)
      PROVE  SwapKept(ch, after, entry)
  <2>1. Honoured(ch, after, entry)
    BY <1>1, <1>2 DEF SwapKept, Honoured
  <2>2. OnlyUnsigned(after, entry.ins[1]) => OnlyUnsigned(published, entry.ins[1])
    BY <1>1 DEF OnlyUnsigned
  <2>3. Received(ch, after, entry)
    BY <1>2, <2>2 DEF SwapKept, Received
  <2> QED BY <1>2, <2>1, <2>3 DEF SwapKept
<1>3. SwapHistory(ch, after)
  BY <1>2 DEF SwapHistory
<1> QED BY <1>3 DEF after

\* The covenant of the maker's token pays its whole amount into output 2.
LEMMA CovenantGivesAll ==
  ASSUME NEW ch, NEW tx, SwapCovenantHolds(ch, tx, 1),
         Utxo(ch, tx.ins[1]).out \in Outputs
  PROVE  tx.outs[2].satoshis = Utxo(ch, tx.ins[1]).out.satoshis
<1> DEFINE segs == Front(tx.unlock[1].pairs)
           last == Last(tx.unlock[1].pairs)
           makerOut == Utxo(ch, tx.ins[1]).out
           takerOut == Utxo(ch, tx.ins[2]).out
           n == Len(segs)
           outs == [k \in 1..n |-> SwapOutput(makerOut.tok.red, makerOut, takerOut, k, segs[k])]
           change == P2pkhOut(last.pkh, last.satoshis)
           S == {outs[k] : k \in 1..n} \cup {change}
<1>1. /\ n \in MinSwapSegments..MaxSegments
      /\ segs[2].satoshis = makerOut.satoshis
      /\ tx.outs = SwapOutputs(makerOut.tok.red, makerOut, takerOut, segs, last)
  BY DEF SwapCovenantHolds, MakerAssetWhole
<1>2. tx.outs = outs \o <<change>>
  BY <1>1 DEF SwapOutputs
<1>3. makerOut \in Outputs
  OBVIOUS
<1> HIDE DEF segs, last, makerOut, takerOut
<1>4. n \in Nat /\ n >= 2
  BY <1>1 DEF MinSwapSegments, MaxSegments
<1> HIDE DEF n
<1>5. outs[2] = WithOwner(makerOut, segs[2].pkh, segs[2].satoshis)
  BY <1>4 DEF SwapOutput
<1>6. outs[2].satoshis = makerOut.satoshis
  BY <1>1, <1>3, <1>5 DEF WithOwner, Outputs
<1>7. outs \in [1..n -> S] /\ change \in S
  OBVIOUS
<1> HIDE DEF outs, change, S
<1>8. outs \in Seq(S) /\ Len(outs) = n /\ <<change>> \in Seq(S)
  BY <1>4, <1>7, FunctionIsSeq, SingletonSeq
<1>9. (outs \o <<change>>)[2] = outs[2]
  <2>1. Len(outs) \in Nat /\ Len(outs) >= 2 => (outs \o <<change>>)[2] = outs[2]
    BY <1>8, ConcatTwo
  <2> QED BY <1>4, <1>8, <2>1
<1> QED BY <1>2, <1>6, <1>9 DEF makerOut

\* What a node accepts keeps the promises of the offer it answers.
LEMMA AcceptedKeepsOffer ==
  ASSUME MarketInv, NEW t \in Takes, takes[t].phase = "returned",
         SwapAccepted(chain, takes[t].tx), NEW entry,
         entry.ins = takes[t].tx.ins, entry.outs = takes[t].tx.outs
  PROVE  SwapKept(chain, offers, entry)
<1> DEFINE tx == takes[t].tx
<1>1. chain \in Seq(Txs) /\ tx \in SwapTxs
  BY DEF MarketInv, TypeOK
<1>2. PICK o \in Offers : offers[o].phase # "none" /\ Answering(chain, offers[o], takes[t])
  BY DEF MarketInv, AnswersKept, AnswerKnown
<1> DEFINE offer == offers[o]
           given == offer.utxo.out
<1>3. PICK op2 \in Created(chain), op3 \in Created(chain), satoshis \in Nat :
         /\ tx.ins = <<offer.utxo.op, op2, op3>>
         /\ tx.outs[2] = WithOwner(given, OutputOf(chain, op2).pkh, satoshis)
  BY <1>2 DEF Answering
<1>4. /\ tx.outs[1] = makerWantedOutput(given.pkh, offer.wanted)
      /\ 1 \in DOMAIN tx.sigs
      /\ offer.phase = "unsigned" => tx.sigs[1].prev.satoshis = tx.outs[2].satoshis
  BY <1>2 DEF Answering
<1>5. offer.utxo.op \in Created(chain) /\ given = OutputOf(chain, offer.utxo.op)
  BY <1>2 DEF MarketInv, OffersKept, OfferOf
<1>6. /\ \A i \in DOMAIN tx.ins : SigHolds(chain, tx, i, tx.sigs[i])
      /\ \A i \in DOMAIN tx.ins :
            Utxo(chain, tx.ins[i]).out.kind = "stas" => SwapCovenantHolds(chain, tx, i)
  BY DEF SwapAccepted
<1>7. entry.ins = tx.ins /\ entry.outs = tx.outs
  OBVIOUS
<1> HIDE DEF tx, given
<1>8. tx.ins[1] = offer.utxo.op /\ tx.ins[2] = op2 /\ 1 \in DOMAIN tx.ins
  BY <1>3
<1>9. Utxo(chain, tx.ins[1]).out = given /\ given \in Outputs
  BY <1>1, <1>5, <1>8, UtxoType
<1>10. WithOwner(given, OutputOf(chain, op2).pkh, satoshis).satoshis = satoshis
  BY <1>9 DEF WithOwner, Outputs
<1>11. CASE given.kind = "stas"
  <2>1. SwapCovenantHolds(chain, tx, 1)
    BY <1>6, <1>8, <1>9, <1>11
  <2>2. tx.outs[2].satoshis = given.satoshis
    BY <1>9, <2>1, CovenantGivesAll
  <2>3. satoshis = given.satoshis
    BY <1>3, <1>10, <2>2
  <2>4. Received(chain, offers, entry)
    BY <1>3, <1>5, <1>7, <1>8, <2>3 DEF Received
  <2>5. Honoured(chain, offers, entry)
    BY <1>2, <1>4, <1>5, <1>7, <1>8 DEF Honoured
  <2> QED BY <1>3, <1>5, <1>7, <1>8, <2>4, <2>5 DEF SwapKept
<1>12. CASE given.kind # "stas"
  <2>1. OnlyUnsigned(offers, offer.utxo.op) => satoshis = given.satoshis
    <3> SUFFICES ASSUME OnlyUnsigned(offers, offer.utxo.op) PROVE satoshis = given.satoshis
      OBVIOUS
    <3>1. offer.phase = "unsigned"
      BY <1>2 DEF OnlyUnsigned
    <3>2. tx.sigs[1].prev = given
      BY <1>6, <1>8, <1>9 DEF SigHolds
    <3> QED BY <1>3, <1>4, <1>10, <3>1, <3>2
  <2>2. Received(chain, offers, entry)
    BY <1>3, <1>5, <1>7, <1>8, <1>12, <2>1 DEF Received
  <2>3. Honoured(chain, offers, entry)
    BY <1>2, <1>4, <1>5, <1>7, <1>8 DEF Honoured
  <2> QED BY <1>3, <1>5, <1>7, <1>8, <2>2, <2>3 DEF SwapKept
<1> QED BY <1>11, <1>12

LEMMA InitHistory == Init => SwapHistory(chain, offers)
<1> SUFFICES ASSUME Init, NEW t \in DOMAIN chain PROVE Len(chain[t].ins) # 3
  BY DEF SwapHistory
<1>1. chain[t].ins = <<>>
  BY DEF Init
<1> QED BY <1>1

LEMMA NextKeepsHistory ==
  ASSUME MarketInv, SwapHistory(chain, offers), [Next]_vars
  PROVE  SwapHistory(chain', offers')
<1>1. chain \in Seq(Txs) /\ DOMAIN offers = Offers
  BY DEF MarketInv, TypeOK
<1>2. ASSUME chain' = chain, NEW o \in Offers, offers[o].phase = "none", NEW offer,
             offers' = [offers EXCEPT ![o] = offer]
      PROVE  SwapHistory(chain', offers')
  BY <1>1, <1>2, PublishKeepsHistory
<1>3. ASSUME chain' = chain, offers' = offers
      PROVE  SwapHistory(chain', offers')
  BY <1>3
<1>4. CASE UNCHANGED vars
  BY <1>3, <1>4 DEF vars
<1>5. ASSUME NEW o \in Offers, CreateSwapOffer(o) \/ CreateUnsignedSwapOffer(o)
      PROVE  SwapHistory(chain', offers')
  <2>1. \E offer : /\ chain' = chain /\ offers[o].phase = "none"
                   /\ offers' = [offers EXCEPT ![o] = offer]
    BY <1>5 DEF CreateSwapOffer, CreateUnsignedSwapOffer, Publish
  <2> QED BY <1>2, <2>1
<1>6. ASSUME NEW t \in Takes, Answer(t)
      PROVE  SwapHistory(chain', offers')
  <2>1. CASE AcceptSwapOffer(t) \/ AcceptUnsignedSwapOffer(t)
               \/ AcceptUnsignedNativeSwapOffer(t)
    BY <1>3, <2>1 DEF AcceptSwapOffer, AcceptUnsignedSwapOffer,
       AcceptUnsignedNativeSwapOffer, Hold
  <2>2. CASE AllInOneSwap(t)
    <3>1. PICK o \in Offers : \E offer : /\ chain' = chain /\ offers[o].phase = "none"
                                         /\ offers' = [offers EXCEPT ![o] = offer]
      BY ZenonT(60), <2>2 DEF AllInOneSwap
    <3>2. PICK offer : /\ chain' = chain /\ offers[o].phase = "none"
                       /\ offers' = [offers EXCEPT ![o] = offer]
      BY <3>1
    <3> QED BY <1>2, <3>2
  <2> QED BY <1>6, <2>1, <2>2 DEF Answer
<1>7. ASSUME NEW t \in Takes, Finish(t)
      PROVE  SwapHistory(chain', offers')
  <2>1. CASE MakerSigns(t) \/ MakerDeclines(t) \/ BroadcastRefused(t)
    BY <1>3, <2>1 DEF MakerSigns, MakerDeclines, BroadcastRefused, Hold
  <2>2. CASE BroadcastAccepted(t)
    <3>1. PICK entry \in Txs :
             /\ entry = [ins |-> takes[t].tx.ins, outs |-> takes[t].tx.outs]
             /\ chain' = Append(chain, entry) /\ offers' = offers
      BY <2>2, AcceptedEffect DEF MarketInv
    <3>2. SwapKept(chain, offers, entry)
      BY <2>2, <3>1, AcceptedKeepsOffer DEF BroadcastAccepted
    <3> QED BY <1>1, <3>1, <3>2, AppendKeepsHistory
  <2> QED BY <1>7, <2>1, <2>2 DEF Finish
<1>8. CASE Withdraw
  <2>1. PICK entry \in Txs : /\ chain' = Append(chain, entry) /\ Len(entry.ins) = 1
                             /\ offers' = offers
    BY <1>1, <1>8, WithdrawEffect
  <2>2. Len(entry.ins) = 3 => SwapKept(chain, offers, entry)
    BY <2>1
  <2>3. chain' = Append(chain, entry) /\ offers' = offers
    BY <2>1
  <2>4. SwapHistory(Append(chain, entry), offers)
    BY <1>1, <2>2, AppendKeepsHistory
  <2> QED BY <2>3, <2>4
<1> QED BY <1>4, <1>5, <1>6, <1>7, <1>8 DEF Next

LEMMA HistoryInvariant == Spec => []SwapHistory(chain, offers)
<1>1. Init => SwapHistory(chain, offers)
  BY InitHistory
<1>2. MarketInv /\ SwapHistory(chain, offers) /\ [Next]_vars
        => SwapHistory(chain, offers)'
  BY NextKeepsHistory
<1> QED BY <1>1, <1>2, MarketInvariant, PTL DEF Spec

\* An offered output that went into a swap brought its owner what one of his
\* offers for it wanted, script and amount: for any number of offers and takers,
\* proper or careless, and any interleaving of answers and withdrawals.
THEOREM OffersHonoured == Spec => []OfferHonoured
<1>1. SwapHistory(chain, offers) => OfferHonoured
  BY DEF SwapHistory, SwapKept, Honoured, OfferHonoured, SwapIds, OffersOf,
     ChainOutput, OutputOf
<1> QED BY <1>1, HistoryInvariant, PTL

\* A taker received the whole of what the maker's input held, when that was a
\* token or every offer for it was unsigned: the covenant, or the amount inside
\* the maker's signature, refuses everything else.
THEOREM TakersReceiveAll == Spec => []TakerReceivesAll
<1>1. SwapHistory(chain, offers) => TakerReceivesAll
  BY DEF SwapHistory, SwapKept, Received, OnlyUnsigned, TakerReceivesAll, SwapIds,
     OffersOf, ChainOutput, OutputOf
<1> QED BY <1>1, HistoryInvariant, PTL

-----------------------------------------------------------------------------
(* Swaps that keep to an offer *)

\* What the parties of a proper swap agree on: m is offered, g given for it,
\* p pays.
Terms(m, g, p, wanted, comm) ==
    /\ m.op # g.op /\ m.op # p.op /\ g.op # p.op
    /\ m.out.kind # "contract" /\ p.out.kind = "p2pkh"
    /\ Carries(g.out, wanted)
    /\ g.out.satoshis = wanted.satoshis + comm.satoshis
    /\ comm.satoshis > 0 => comm.pkh # NoKey /\ g.out.kind = "p2pkh"
    /\ ProperOffer(m, wanted)
    /\ SwapChange(p, comm) >= 1

\* Everything but the change.
MainOuts(m, g, wanted, comm) ==
    (<<makerWantedOutput(m.out.pkh, wanted)>>
        \o <<WithOwner(m.out, g.out.pkh, m.out.satoshis)>>)
      \o CommissionOutputs(comm)

ProperBody(tx, m, g, p, wanted, comm) ==
    /\ tx.ins = <<m.op, g.op, p.op>>
    /\ tx.outs = MainOuts(m, g, wanted, comm)
                   \o <<P2pkhOut(p.out.pkh, SwapChange(p, comm))>>

\* The taker's part is complete as soon as the transaction leaves his hands, the
\* maker's when it is returned.
ProperSwap(phase, tx, m, g, p, wanted, comm) ==
    /\ Terms(m, g, p, wanted, comm)
    /\ ProperBody(tx, m, g, p, wanted, comm)
    /\ DOMAIN tx.sigs = 1..3 /\ DOMAIN tx.unlock = 1..3
    /\ tx.sigs[2] = SignAll(g.out, tx) /\ tx.sigs[3] = SignAll(p.out, tx)
    /\ tx.unlock[2] = takerUnlock(tx, g, p)
    /\ phase = "returned" =>
          /\ tx.sigs[1] \in {SignSingle(m.out, tx), SignAll(m.out, tx)}
          /\ tx.unlock[1] = makerUnlock(tx, m.out, g, m.out.satoshis, p)

KnownCommissions == CommissionInfos \cup {NoCommission}

ProperTake(ch, take) ==
    \E m, g, p \in ChainUtxos(ch), wanted \in WantedInfos, comm \in KnownCommissions :
        ProperSwap(take.phase, take.tx, m, g, p, wanted, comm)

\* Signed offers carry the signature for their one input and output.
ProperPublished(offer) ==
    /\ offer.utxo.out.kind # "contract"
    /\ offer.wanted \in WantedInfos
    /\ ProperOffer(offer.utxo, offer.wanted)
    /\ offer.phase = "signed" => offer.tx.sig = SignSingle(offer.utxo.out, offer.tx)

ProperInv ==
    /\ MarketInv
    /\ \A o \in Offers : offers[o].phase # "none" => ProperPublished(offers[o])
    /\ \A t \in Takes : takes[t].phase # "idle" => ProperTake(chain, takes[t])

-----------------------------------------------------------------------------
(* Amounts *)

LEMMA TermTypes ==
  ASSUME NEW ch \in Seq(Txs), NEW m \in ChainUtxos(ch), NEW g \in ChainUtxos(ch),
         NEW p \in ChainUtxos(ch), NEW wanted \in WantedInfos, NEW comm \in KnownCommissions
  PROVE  /\ \A u \in {m, g, p} : /\ u.op \in Outpoints /\ u.out \in Outputs
                                 /\ u.out.pkh \in Keys /\ u.out.satoshis \in Nat
                                 /\ u.op \in Created(ch) /\ u.out = OutputOf(ch, u.op)
         /\ wanted \in Wanted /\ wanted.satoshis \in Nat
         /\ comm \in Commissions /\ comm.satoshis \in Nat
<1>1. \A u \in ChainUtxos(ch) : /\ u.op \in Outpoints /\ u.out \in Outputs
                                /\ u.out.pkh \in Keys /\ u.out.satoshis \in Nat
                                /\ u.op \in Created(ch) /\ u.out = OutputOf(ch, u.op)
  BY DEF ChainUtxos, UtxoRecords, Outputs
<1>2. wanted \in Wanted /\ wanted.satoshis \in Nat
  BY ArgumentsAssumption DEF Wanted
<1>3. comm \in Commissions /\ comm.satoshis \in Nat
  BY ArgumentsAssumption, NoCommissionType DEF KnownCommissions, Commissions
<1> QED BY <1>1, <1>2, <1>3

\* The outputs of a proper swap one by one.
LEMMA MainOutsShape ==
  ASSUME NEW ch \in Seq(Txs), NEW m \in ChainUtxos(ch), NEW g \in ChainUtxos(ch),
         NEW p \in ChainUtxos(ch), NEW wanted \in WantedInfos, NEW comm \in KnownCommissions,
         Terms(m, g, p, wanted, comm)
  PROVE  LET main == MainOuts(m, g, wanted, comm)
             w == makerWantedOutput(m.out.pkh, wanted)
             given == WithOwner(m.out, g.out.pkh, m.out.satoshis)
             c == P2pkhOut(comm.pkh, comm.satoshis)
             change == P2pkhOut(p.out.pkh, SwapChange(p, comm))
         IN /\ w \in Outputs /\ given \in Outputs /\ change \in Outputs
            /\ w.satoshis = wanted.satoshis /\ given.satoshis = m.out.satoshis
            /\ main \in Seq(Outputs) /\ main[1] = w /\ main[2] = given
            /\ comm.satoshis = 0 => Len(main) = 2
            /\ comm.satoshis > 0 => Len(main) = 3 /\ main[3] = c /\ c \in Outputs
            /\ SumSatoshis(main) = wanted.satoshis + m.out.satoshis + comm.satoshis
<1> DEFINE w == makerWantedOutput(m.out.pkh, wanted)
           given == WithOwner(m.out, g.out.pkh, m.out.satoshis)
           c == P2pkhOut(comm.pkh, comm.satoshis)
           change == P2pkhOut(p.out.pkh, SwapChange(p, comm))
           front == <<w>> \o <<given>>
           rest == CommissionOutputs(comm)
           main == MainOuts(m, g, wanted, comm)
<1>1. /\ m.out \in Outputs /\ m.out.pkh \in Keys /\ g.out.pkh \in Keys
      /\ p.out.pkh \in Keys /\ p.out.satoshis \in Nat /\ m.out.satoshis \in Nat
      /\ wanted \in Wanted /\ wanted.satoshis \in Nat
      /\ comm \in Commissions /\ comm.satoshis \in Nat
  BY TermTypes
<1>2. w \in Outputs /\ w.satoshis = wanted.satoshis
  BY <1>1, WantedOutputType DEF makerWantedOutput, P2pkhOut, StasOut
<1>3. given \in Outputs /\ given.satoshis = m.out.satoshis
  BY <1>1 DEF WithOwner, Outputs
<1>4. change \in Outputs
  <2>1. SwapChange(p, comm) \in Nat
    BY <1>1, FeeAssumption DEF SwapChange, Terms
  <2> QED BY <1>1, <2>1 DEF P2pkhOut, Outputs
<1>5. \/ comm.satoshis = 0 /\ rest = <<>>
      \/ comm.satoshis > 0 /\ rest = <<c>> /\ c \in Outputs /\ c.satoshis = comm.satoshis
  <2>1. CASE comm.satoshis = 0
    BY <2>1 DEF CommissionOutputs, hasCommission
  <2>2. CASE comm.satoshis > 0
    <3>1. comm.pkh # NoKey /\ comm.pkh \in Keys
      BY <1>1, <2>2 DEF Terms, Commissions
    <3> QED BY <1>1, <2>2, <3>1 DEF CommissionOutputs, hasCommission, P2pkhOut, Outputs
  <2> QED BY <1>1, <2>1, <2>2
<1>6. main = front \o rest
  BY DEF MainOuts
<1> HIDE DEF w, given, c, change, rest, main
<1>7. <<w>> \in Seq(Outputs) /\ <<given>> \in Seq(Outputs)
      /\ SumSatoshis(<<w>>) = w.satoshis /\ SumSatoshis(<<given>>) = given.satoshis
  BY <1>1, <1>2, <1>3, SingletonSeq, SumOfShort
<1>8. /\ front \in Seq(Outputs) /\ Len(front) = 2 /\ front[1] = w /\ front[2] = given
  BY <1>2, <1>3
<1>9. SumSatoshis(front) = wanted.satoshis + m.out.satoshis
  <2>1. \A x \in Outputs : x.satoshis \in Nat
    BY DEF Outputs
  <2>2. SumSatoshis(front) = SumSatoshis(<<w>>) + SumSatoshis(<<given>>)
    BY <1>7, <2>1, SumOfConcat
  <2> QED BY <1>2, <1>3, <1>7, <2>2
<1> HIDE DEF front
<1>10. CASE comm.satoshis = 0
  <2>1. main = front
    <3>1. rest = <<>>
      BY <1>5, <1>10
    <3>2. main = front \o <<>>
      BY <1>6, <3>1
    <3> QED BY <1>8, <3>2, ConcatEmptySeq
  <2> QED BY <1>1, <1>2, <1>3, <1>4, <1>8, <1>9, <1>10, <2>1
          DEF w, given, c, change, main
<1>11. CASE comm.satoshis > 0
  <2>1. rest = <<c>> /\ c \in Outputs /\ c.satoshis = comm.satoshis
    BY <1>5, <1>11
  <2>2. <<c>> \in Seq(Outputs) /\ Len(<<c>>) = 1 /\ <<c>>[1] = c
        /\ SumSatoshis(<<c>>) = c.satoshis
    BY <1>1, <2>1, SingletonSeq, SumOfShort
  <2>3. main = front \o <<c>>
    BY <1>6, <2>1
  <2>4. /\ main \in Seq(Outputs) /\ Len(main) = 3
        /\ main[1] = w /\ main[2] = given /\ main[3] = c
    <3>1. /\ main \in Seq(Outputs) /\ Len(main) = Len(front) + Len(<<c>>)
          /\ \A i \in 1..Len(front) : main[i] = front[i]
          /\ \A i \in 1..Len(<<c>>) : main[Len(front) + i] = <<c>>[i]
      BY <1>8, <2>2, <2>3, ConcatParts
    <3>2. main[2 + 1] = <<c>>[1]
      BY <1>8, <2>2, <3>1
    <3> QED BY <1>8, <2>2, <3>1, <3>2
  <2>5. SumSatoshis(main) = SumSatoshis(front) + SumSatoshis(<<c>>)
    <3>1. \A x \in Outputs : x.satoshis \in Nat
      BY DEF Outputs
    <3> QED BY <1>8, <2>2, <2>3, <3>1, SumOfConcat
  <2> QED BY <1>1, <1>2, <1>3, <1>4, <1>9, <1>11, <2>1, <2>2, <2>4, <2>5
          DEF w, given, c, change, main
<1> QED BY <1>1, <1>10, <1>11

LEMMA SwapOutsShape ==
  ASSUME NEW ch \in Seq(Txs), NEW m \in ChainUtxos(ch), NEW g \in ChainUtxos(ch),
         NEW p \in ChainUtxos(ch), NEW wanted \in WantedInfos, NEW comm \in KnownCommissions,
         Terms(m, g, p, wanted, comm), NEW tx, ProperBody(tx, m, g, p, wanted, comm)
  PROVE  /\ comm.satoshis = 0 => Len(tx.outs) = 3
         /\ comm.satoshis > 0 => Len(tx.outs) = 4 /\ tx.outs[3].satoshis = comm.satoshis
         /\ tx.outs \in Seq(Outputs)
         /\ SumSatoshis(tx.outs) = wanted.satoshis + m.out.satoshis + p.out.satoshis - Fee
<1> DEFINE main == MainOuts(m, g, wanted, comm)
           change == P2pkhOut(p.out.pkh, SwapChange(p, comm))
<1>1. /\ main \in Seq(Outputs) /\ change \in Outputs
      /\ comm.satoshis = 0 => Len(main) = 2
      /\ comm.satoshis > 0 => Len(main) = 3 /\ main[3].satoshis = comm.satoshis
      /\ SumSatoshis(main) = wanted.satoshis + m.out.satoshis + comm.satoshis
  <2> DEFINE c == P2pkhOut(comm.pkh, comm.satoshis)
  <2>1. /\ main \in Seq(Outputs) /\ change \in Outputs
        /\ comm.satoshis = 0 => Len(main) = 2
        /\ comm.satoshis > 0 => Len(main) = 3 /\ main[3] = c
        /\ SumSatoshis(main) = wanted.satoshis + m.out.satoshis + comm.satoshis
    BY MainOutsShape
  <2>2. c.satoshis = comm.satoshis
    BY DEF P2pkhOut
  <2> HIDE DEF main, change, c
  <2> QED BY <2>1, <2>2
<1>2. /\ m.out.satoshis \in Nat /\ p.out.satoshis \in Nat /\ wanted.satoshis \in Nat
      /\ comm.satoshis \in Nat
  BY TermTypes
<1>3. change.satoshis = p.out.satoshis - comm.satoshis - Fee
  BY DEF P2pkhOut, SwapChange
<1>4. tx.outs = main \o <<change>>
  BY DEF ProperBody
<1> DEFINE outs == tx.outs
<1> HIDE DEF main, change
<1>5. <<change>> \in Seq(Outputs) /\ Len(<<change>>) = 1
      /\ SumSatoshis(<<change>>) = change.satoshis
  <2>1. change.satoshis \in Nat
    BY <1>1 DEF Outputs
  <2> QED BY <1>1, <2>1, SingletonSeq, SumOfShort
<1>6. outs = main \o <<change>>
  BY <1>4
<1> HIDE DEF outs
<1>7. /\ outs \in Seq(Outputs) /\ Len(outs) = Len(main) + Len(<<change>>)
      /\ \A i \in 1..Len(main) : outs[i] = main[i]
  BY <1>1, <1>5, <1>6, ConcatParts
<1>8. ASSUME comm.satoshis = 0 PROVE Len(outs) = 3
  <2>1. Len(main) = 2
    BY <1>1, <1>8
  <2> QED BY <1>5, <1>7, <2>1
<1>9. ASSUME comm.satoshis > 0 PROVE Len(outs) = 4 /\ outs[3].satoshis = comm.satoshis
  <2>1. Len(main) = 3 /\ main[3].satoshis = comm.satoshis
    BY <1>1, <1>9
  <2>2. 3 \in 1..Len(main)
    BY <2>1
  <2>3. outs[3] = main[3]
    BY <1>7, <2>2
  <2> QED BY <1>5, <1>7, <2>1, <2>3
<1>10. SumSatoshis(outs) = SumSatoshis(main) + SumSatoshis(<<change>>)
  <2>1. \A x \in Outputs : x.satoshis \in Nat
    BY DEF Outputs
  <2> QED BY <1>1, <1>5, <1>6, <2>1, SumOfConcat
<1>11. SumSatoshis(outs) = wanted.satoshis + m.out.satoshis + p.out.satoshis - Fee
  <2> DEFINE a == wanted.satoshis + m.out.satoshis + comm.satoshis
             b == p.out.satoshis - comm.satoshis - Fee
  <2>1. SumSatoshis(outs) = a + b
    BY <1>1, <1>3, <1>5, <1>10
  <2>2. a + b = wanted.satoshis + m.out.satoshis + p.out.satoshis - Fee
    BY <1>2, FeeAssumption
  <2> QED BY <2>1, <2>2
<1> QED BY <1>7, <1>8, <1>9, <1>11 DEF outs

\* What three inputs hold.
LEMMA SumOfThree ==
  ASSUME NEW a, NEW b, NEW c,
         a.satoshis \in Nat, b.satoshis \in Nat, c.satoshis \in Nat
  PROVE  SumSatoshis(<<a, b, c>>) = a.satoshis + b.satoshis + c.satoshis
<1> DEFINE S == {a, b, c}
<1>1. /\ <<a>> \in Seq(S) /\ <<b>> \in Seq(S) /\ <<c>> \in Seq(S) /\ <<b, c>> \in Seq(S)
      /\ <<b, c>> = <<b>> \o <<c>> /\ <<a, b, c>> = <<a>> \o <<b, c>>
  <2>1. a \in S /\ b \in S /\ c \in S
    OBVIOUS
  <2> HIDE DEF S
  <2> QED BY <2>1, SingletonSeq, PairIsConcat, Triple
<1>2. \A x \in S : x.satoshis \in Nat
  OBVIOUS
<1> HIDE DEF S
<1>3. /\ SumSatoshis(<<b, c>>) = SumSatoshis(<<b>>) + SumSatoshis(<<c>>)
      /\ SumSatoshis(<<a, b, c>>) = SumSatoshis(<<a>>) + SumSatoshis(<<b, c>>)
  BY <1>1, <1>2, SumOfConcat
<1> QED BY <1>3, SumOfShort

Held(ch, tx) == SumSatoshis([i \in DOMAIN tx.ins |-> Utxo(ch, tx.ins[i]).out])

LEMMA SwapInsHold ==
  ASSUME NEW ch \in Seq(Txs), NEW m \in ChainUtxos(ch), NEW g \in ChainUtxos(ch),
         NEW p \in ChainUtxos(ch), NEW tx, tx.ins = <<m.op, g.op, p.op>>
  PROVE  /\ DOMAIN tx.ins = 1..3
         /\ Utxo(ch, tx.ins[1]) = m /\ Utxo(ch, tx.ins[2]) = g /\ Utxo(ch, tx.ins[3]) = p
         /\ Held(ch, tx) = m.out.satoshis + g.out.satoshis + p.out.satoshis
<1>1. \A u \in ChainUtxos(ch) : /\ u.op \in Outpoints /\ u.out.satoshis \in Nat
                                /\ Utxo(ch, u.op) = u
  BY DEF ChainUtxos, UtxoRecords, Outputs, Utxo, OutputOf
<1>2. /\ DOMAIN tx.ins = 1..3
      /\ tx.ins[1] = m.op /\ tx.ins[2] = g.op /\ tx.ins[3] = p.op
  BY <1>1, Triple
<1>3. [i \in DOMAIN tx.ins |-> Utxo(ch, tx.ins[i]).out] = <<m.out, g.out, p.out>>
  <2> DEFINE f == [i \in 1..3 |-> Utxo(ch, tx.ins[i]).out]
             S == {m.out, g.out, p.out}
  <2>1. f[1] = m.out /\ f[2] = g.out /\ f[3] = p.out
    BY <1>1, <1>2
  <2>2. f \in [1..3 -> S]
    BY <1>1, <1>2
  <2> HIDE DEF f, S
  <2>3. f \in Seq(S) /\ Len(f) = 3
    <3>1. 3 \in Nat
      OBVIOUS
    <3> QED BY <2>2, <3>1, FunctionIsSeq
  <2>4. f = <<f[1], f[2], f[3]>>
    BY <2>3, SeqOfThree
  <2>5. f = <<m.out, g.out, p.out>>
    BY <2>1, <2>4
  <2> QED BY <1>2, <2>5 DEF f
<1>4. /\ m.out.satoshis \in Nat /\ g.out.satoshis \in Nat /\ p.out.satoshis \in Nat
  BY <1>1
<1>5. SumSatoshis(<<m.out, g.out, p.out>>) = m.out.satoshis + g.out.satoshis + p.out.satoshis
  BY <1>4, SumOfThree
<1>6. /\ Utxo(ch, tx.ins[1]) = m /\ Utxo(ch, tx.ins[2]) = g /\ Utxo(ch, tx.ins[3]) = p
  BY <1>1, <1>2
<1> QED BY <1>2, <1>3, <1>5, <1>6 DEF Held

LEMMA ProperPaidTwice ==
  ASSUME NEW ch \in Seq(Txs), NEW take, ProperTake(ch, take)
  PROVE  LET tx == take.tx
             commission == IF Len(tx.outs) = 4 THEN tx.outs[3].satoshis ELSE 0
         IN Held(ch, tx) = SumSatoshis(tx.outs) + Fee + commission
<1>1. PICK m, g, p \in ChainUtxos(ch), wanted \in WantedInfos, comm \in KnownCommissions :
         ProperSwap(take.phase, take.tx, m, g, p, wanted, comm)
  BY Zenon DEF ProperTake
<1> DEFINE tx == take.tx
           commission == IF Len(tx.outs) = 4 THEN tx.outs[3].satoshis ELSE 0
<1>2. /\ Terms(m, g, p, wanted, comm) /\ ProperBody(tx, m, g, p, wanted, comm)
      /\ tx.ins = <<m.op, g.op, p.op>>
      /\ g.out.satoshis = wanted.satoshis + comm.satoshis
  BY <1>1 DEF ProperSwap, ProperBody, Terms
<1>3. Held(ch, tx) = m.out.satoshis + g.out.satoshis + p.out.satoshis
  BY <1>2, SwapInsHold
<1>4. SumSatoshis(tx.outs) = wanted.satoshis + m.out.satoshis + p.out.satoshis - Fee
  BY <1>2, SwapOutsShape
<1>5. /\ m.out.satoshis \in Nat /\ p.out.satoshis \in Nat /\ wanted.satoshis \in Nat
      /\ comm.satoshis \in Nat
  BY TermTypes
<1>6. commission = comm.satoshis
  <2>1. CASE comm.satoshis = 0
    <3>1. Len(tx.outs) = 3
      BY <1>2, <2>1, SwapOutsShape
    <3> QED BY <2>1, <3>1
  <2>2. CASE comm.satoshis > 0
    <3>1. Len(tx.outs) = 4 /\ tx.outs[3].satoshis = comm.satoshis
      BY <1>2, <2>2, SwapOutsShape
    <3> QED BY <3>1
  <2> QED BY <1>5, <2>1, <2>2
<1> HIDE DEF commission
<1>7. Held(ch, tx) = SumSatoshis(tx.outs) + Fee + commission
  <2> DEFINE total == m.out.satoshis + g.out.satoshis + p.out.satoshis
             paid == wanted.satoshis + m.out.satoshis + p.out.satoshis - Fee
  <2>1. g.out.satoshis = wanted.satoshis + comm.satoshis
    BY <1>2
  <2>2. total = paid + Fee + comm.satoshis
    BY SMTT(40), <1>5, <2>1, FeeAssumption
  <2> HIDE DEF total, paid, tx
  <2> QED BY <1>3, <1>4, <1>6, <2>2 DEF total, paid
<1> QED BY <1>7 DEF commission

-----------------------------------------------------------------------------
(* Steps of proper parties *)

LEMMA ProperTakeGrows ==
  ASSUME NEW ch \in Seq(Txs), NEW entry \in Txs, NEW take, ProperTake(ch, take)
  PROVE  ProperTake(Append(ch, entry), take)
<1> DEFINE longer == Append(ch, entry)
<1>1. \A op \in Created(ch) : op \in Created(longer) /\ OutputOf(longer, op) = OutputOf(ch, op)
  BY GrowthKeeps
<1> HIDE DEF longer
<1>2. ChainUtxos(ch) \subseteq ChainUtxos(longer)
  BY <1>1 DEF ChainUtxos
<1>3. PICK m, g, p \in ChainUtxos(ch), wanted \in WantedInfos, comm \in KnownCommissions :
         ProperSwap(take.phase, take.tx, m, g, p, wanted, comm)
  BY Zenon DEF ProperTake
<1>4. m \in ChainUtxos(longer) /\ g \in ChainUtxos(longer) /\ p \in ChainUtxos(longer)
  BY <1>2, <1>3
<1>5. ProperTake(longer, take)
  BY Zenon, <1>3, <1>4 DEF ProperTake
<1> QED BY <1>5 DEF longer

\* The body of an answer that takes all of what is offered.
LEMMA ProperMade ==
  ASSUME NEW m, NEW g, NEW p, NEW wanted, NEW comm, Terms(m, g, p, wanted, comm),
         NEW offer, offer.ins = <<m.op>>,
         offer.outs = <<makerWantedOutput(m.out.pkh, wanted)>>,
         m.op \in Outpoints, g.op \in Outpoints, p.op \in Outpoints,
         NEW body, body = swapBody(offer, m.out, g, m.out.satoshis, comm, p),
         NEW phase, NEW s1, NEW l1,
         phase = "returned" =>
            /\ s1 \in {SignSingle(m.out, body), SignAll(m.out, body)}
            /\ l1 = makerUnlock(body, m.out, g, m.out.satoshis, p)
  PROVE  ProperSwap(phase,
                    [ins |-> body.ins, outs |-> body.outs,
                     sigs |-> <<s1, SignAll(g.out, body), SignAll(p.out, body)>>,
                     unlock |-> <<l1, takerUnlock(body, g, p), PlainUnlock>>],
                    m, g, p, wanted, comm)
<1> DEFINE s2 == SignAll(g.out, body)
           s3 == SignAll(p.out, body)
           l2 == takerUnlock(body, g, p)
           tx == [ins |-> body.ins, outs |-> body.outs,
                  sigs |-> <<s1, s2, s3>>, unlock |-> <<l1, l2, PlainUnlock>>]
<1>1. body.ins = <<m.op, g.op, p.op>>
  BY Triple DEF swapBody
<1>2. body.outs = MainOuts(m, g, wanted, comm) \o <<P2pkhOut(p.out.pkh, SwapChange(p, comm))>>
  BY DEF swapBody, MainOuts
<1>3. tx.ins = body.ins /\ tx.outs = body.outs
  OBVIOUS
<1>4. /\ DOMAIN tx.sigs = 1..3 /\ DOMAIN tx.unlock = 1..3
      /\ tx.sigs[1] = s1 /\ tx.sigs[2] = s2 /\ tx.sigs[3] = s3
      /\ tx.unlock[1] = l1 /\ tx.unlock[2] = l2
  OBVIOUS
<1> HIDE DEF s2, s3, l2
<1> HIDE DEF tx
<1>5. \A out : SignAll(out, tx) = SignAll(out, body) /\ SignSingle(out, tx) = SignSingle(out, body)
  BY <1>3 DEF SignAll, SignSingle
<1>6. /\ takerUnlock(tx, g, p) = takerUnlock(body, g, p)
      /\ makerUnlock(tx, m.out, g, m.out.satoshis, p)
           = makerUnlock(body, m.out, g, m.out.satoshis, p)
  BY <1>3 DEF takerUnlock, makerUnlock, swapUnlock, swapSegments
<1>7. ProperBody(tx, m, g, p, wanted, comm)
  BY <1>1, <1>2, <1>3 DEF ProperBody
<1>8. /\ tx.sigs[2] = SignAll(g.out, tx) /\ tx.sigs[3] = SignAll(p.out, tx)
      /\ tx.unlock[2] = takerUnlock(tx, g, p)
  BY <1>4, <1>5, <1>6 DEF s2, s3, l2
<1>9. phase = "returned" =>
         /\ tx.sigs[1] \in {SignSingle(m.out, tx), SignAll(m.out, tx)}
         /\ tx.unlock[1] = makerUnlock(tx, m.out, g, m.out.satoshis, p)
  BY <1>4, <1>5, <1>6
<1>10. ProperSwap(phase, tx, m, g, p, wanted, comm)
  BY <1>4, <1>7, <1>8, <1>9 DEF ProperSwap
<1> QED BY <1>10 DEF tx, s2, s3, l2

LEMMA ThreeDistinct ==
  ASSUME NEW a, NEW b, NEW c, Cardinality({a, b, c}) = 3
  PROVE  a # b /\ a # c /\ b # c
<1>1. \A x, y : IsFiniteSet({x}) /\ Cardinality({x}) = 1
                /\ IsFiniteSet({x, y}) /\ Cardinality({x, y}) \in {1, 2}
  <2> TAKE x, y
  <2>1. IsFiniteSet({x}) /\ Cardinality({x}) = 1
    BY FS_Singleton
  <2>2. {x, y} = {x} \cup {y}
    OBVIOUS
  <2>3. IsFiniteSet({x} \cup {y})
        /\ Cardinality({x} \cup {y}) = IF y \in {x} THEN Cardinality({x}) ELSE Cardinality({x}) + 1
    BY <2>1, FS_AddElement
  <2> QED BY <2>1, <2>2, <2>3
<1>2. ASSUME a = b \/ a = c \/ b = c PROVE FALSE
  <2>1. \/ {a, b, c} = {a, c} \/ {a, b, c} = {a, b}
    BY <1>2
  <2>2. Cardinality({a, b, c}) \in {1, 2}
    BY <1>1, <2>1
  <2> QED BY <2>2
<1> QED BY <1>2

LEMMA OfferedType ==
  ASSUME ProperInv, NEW o \in Offers, offers[o].phase # "none"
  PROVE  /\ offers[o].utxo \in ChainUtxos(chain) /\ offers[o].wanted \in WantedInfos
         /\ ProperPublished(offers[o]) /\ chain \in Seq(Txs)
         /\ offers[o].tx.ins = <<offers[o].utxo.op>>
         /\ offers[o].tx.outs = <<makerWantedOutput(offers[o].utxo.out.pkh, offers[o].wanted)>>
<1>1. offers[o] \in PublishedOffers /\ OfferOf(chain, offers[o]) /\ chain \in Seq(Txs)
  BY PublishedType DEF ProperInv, MarketInv, OffersKept, TypeOK
<1>2. offers[o].utxo \in UtxoRecords
  BY <1>1 DEF PublishedOffers, UtxoRecords
<1>3. ProperPublished(offers[o])
  BY DEF ProperInv
<1> QED BY <1>1, <1>2, <1>3 DEF OfferOf, ChainUtxos, ProperPublished

\* What a proper taker chooses keeps to the offer.
LEMMA AnswerTerms ==
  ASSUME ProperInv, ProperTakers, NEW o \in Offers, offers[o].phase # "none",
         NEW comm \in KnownCommissions, NEW a \in Answers(o, comm),
         SwapChange(a.pay, comm) >= 1
  PROVE  /\ a.give \in ChainUtxos(chain) /\ a.pay \in ChainUtxos(chain)
         /\ a.satoshis = offers[o].utxo.out.satoshis
         /\ Terms(offers[o].utxo, a.give, a.pay, offers[o].wanted, comm)
<1>1. a.give \in ChainUtxos(chain) /\ a.pay \in ChainUtxos(chain)
  BY AnswersType DEF ProperInv
<1>2. /\ a.pay \in Payments({})
      /\ Carries(a.give.out, offers[o].wanted)
      /\ Cardinality({a.give.op, offers[o].utxo.op, a.pay.op}) = 3
      /\ a.satoshis = offers[o].utxo.out.satoshis
      /\ a.give.out.satoshis = offers[o].wanted.satoshis + comm.satoshis
      /\ comm.satoshis > 0 => comm.pkh # NoKey /\ a.give.out.kind = "p2pkh"
  BY DEF Answers
<1>3. a.pay.out.kind = "p2pkh"
  BY <1>2 DEF Payments
<1>4. /\ a.give.op # offers[o].utxo.op /\ a.give.op # a.pay.op
      /\ offers[o].utxo.op # a.pay.op
  BY <1>2, ThreeDistinct
<1>5. ProperPublished(offers[o])
  BY OfferedType
<1> QED BY <1>1, <1>2, <1>3, <1>4, <1>5 DEF Terms, ProperPublished

LEMMA HoldKeepsProper ==
  ASSUME ProperInv, MarketInv', NEW t \in Takes, NEW tx, NEW phase, Hold(t, phase, tx),
         phase # "idle" => ProperTake(chain, [phase |-> phase, tx |-> tx])
  PROVE  ProperInv'
<1> DEFINE take == [phase |-> phase, tx |-> tx]
<1>1. takes' = [takes EXCEPT ![t] = take] /\ chain' = chain /\ offers' = offers
  BY DEF Hold
<1>2. take.phase = phase /\ DOMAIN takes = Takes
  BY DEF ProperInv, MarketInv, TypeOK
<1> HIDE DEF take
<1>3. ASSUME NEW s \in Takes, takes'[s].phase # "idle" PROVE ProperTake(chain, takes'[s])
  <2>1. CASE s = t
    BY <1>1, <1>2, <1>3, <2>1 DEF take
  <2>2. CASE s # t
    BY <1>1, <1>2, <1>3, <2>2 DEF ProperInv
  <2> QED BY <2>1, <2>2
<1> QED BY <1>1, <1>3 DEF ProperInv

LEMMA PublishKeepsProper ==
  ASSUME ProperInv, MarketInv', NEW o \in Offers, NEW offer,
         offers' = [offers EXCEPT ![o] = offer], ProperPublished(offer), chain' = chain,
         \A s \in Takes : takes'[s].phase # "idle" => ProperTake(chain, takes'[s])
  PROVE  ProperInv'
<1>1. DOMAIN offers = Offers
  BY DEF ProperInv, MarketInv, TypeOK
<1>2. ASSUME NEW q \in Offers, offers'[q].phase # "none" PROVE ProperPublished(offers'[q])
  BY <1>1, <1>2 DEF ProperInv
<1> QED BY <1>2 DEF ProperInv

LEMMA ConfirmKeepsProper ==
  ASSUME ProperInv, MarketInv', NEW entry \in Txs, chain' = Append(chain, entry),
         offers' = offers,
         takes' = takes \/ \E t \in Takes : takes' = [takes EXCEPT ![t] = IdleTake]
  PROVE  ProperInv'
<1>1. chain \in Seq(Txs) /\ DOMAIN takes = Takes
  BY DEF ProperInv, MarketInv, TypeOK
<1>2. ASSUME NEW s \in Takes, takes'[s].phase # "idle" PROVE ProperTake(chain', takes'[s])
  <2>1. takes'[s] = takes[s]
    BY <1>1, <1>2 DEF IdleTake
  <2>2. ProperTake(chain, takes[s])
    BY <1>2, <2>1 DEF ProperInv
  <2> QED BY <1>1, <2>1, <2>2, ProperTakeGrows
<1> QED BY <1>2 DEF ProperInv

LEMMA CreateOffersKeepProper ==
  ASSUME ProperInv, MarketInv', ProperTakers, NEW o \in Offers,
         CreateSwapOffer(o) \/ CreateUnsignedSwapOffer(o)
  PROVE  ProperInv'
<1>1. ASSUME NEW u \in Tradeable, NEW wanted \in WantedInfos, ProperOffer(u, wanted),
             NEW phase \in {"signed", "unsigned"}, NEW tx,
             phase = "signed" => tx.sig = SignSingle(u.out, tx),
             Publish(o, phase, u, wanted, tx)
      PROVE  ProperInv'
  <2> DEFINE offer == [phase |-> phase, utxo |-> u, wanted |-> wanted, tx |-> tx]
  <2>1. offers' = [offers EXCEPT ![o] = offer] /\ chain' = chain /\ takes' = takes
    BY <1>1 DEF Publish
  <2>2. u.out.kind # "contract"
    BY DEF Tradeable
  <2>3. ProperPublished(offer)
    BY <1>1, <2>2 DEF ProperPublished
  <2> HIDE DEF offer
  <2>4. \A s \in Takes : takes'[s].phase # "idle" => ProperTake(chain, takes'[s])
    BY <2>1 DEF ProperInv
  <2> QED BY <2>1, <2>3, <2>4, PublishKeepsProper
<1>2. CASE CreateSwapOffer(o)
  <2>1. PICK u \in Tradeable, wanted \in WantedInfos :
           /\ ProperOffer(u, wanted)
           /\ Publish(o, "signed", u, wanted, createSwapOffer(u, wanted))
    BY <1>2 DEF CreateSwapOffer
  <2> DEFINE tx == createSwapOffer(u, wanted)
  <2>2. tx.sig = SignSingle(u.out, tx)
    BY DEF createSwapOffer, SignSingle
  <2> HIDE DEF tx
  <2> QED BY <1>1, <2>1, <2>2 DEF tx
<1>3. CASE CreateUnsignedSwapOffer(o)
  <2>1. PICK u \in Tradeable, wanted \in WantedInfos :
           /\ ProperOffer(u, wanted)
           /\ Publish(o, "unsigned", u, wanted, createUnsignedSwapOffer(u, wanted))
    BY <1>3 DEF CreateUnsignedSwapOffer
  <2> QED BY <1>1, <2>1
<1> QED BY <1>2, <1>3

\* An offer and the answer a taker makes of it, as one proper take.
LEMMA ProperAnswer ==
  ASSUME ProperInv, ProperTakers, NEW o \in Offers, offers[o].phase # "none",
         NEW comm \in KnownCommissions, NEW a \in Answers(o, comm),
         SwapChange(a.pay, comm) >= 1, NEW phase \in {"sent", "returned"},
         NEW body, body = BodyOf(offers[o], a.give, a.satoshis, comm, a.pay),
         NEW s1, NEW l1,
         phase = "returned" =>
            /\ offers[o].phase = "signed" /\ s1 = offers[o].tx.sig
            /\ l1 = makerUnlock(body, offers[o].utxo.out, a.give, a.satoshis, a.pay),
         NEW tx,
         tx = [ins |-> body.ins, outs |-> body.outs,
               sigs |-> <<s1, SignAll(a.give.out, body), SignAll(a.pay.out, body)>>,
               unlock |-> <<l1, takerUnlock(body, a.give, a.pay), PlainUnlock>>]
  PROVE  ProperTake(chain, [phase |-> phase, tx |-> tx])
<1> DEFINE m == offers[o].utxo
           wanted == offers[o].wanted
           w == makerWantedOutput(m.out.pkh, wanted)
<1>1. /\ m \in ChainUtxos(chain) /\ wanted \in WantedInfos /\ ProperPublished(offers[o])
      /\ chain \in Seq(Txs)
      /\ offers[o].tx.ins = <<m.op>> /\ offers[o].tx.outs = <<w>>
  BY OfferedType
<1>2. /\ a.give \in ChainUtxos(chain) /\ a.pay \in ChainUtxos(chain)
      /\ a.satoshis = m.out.satoshis /\ Terms(m, a.give, a.pay, wanted, comm)
  BY AnswerTerms
<1>3. m.op \in Outpoints /\ a.give.op \in Outpoints /\ a.pay.op \in Outpoints
  BY <1>1, <1>2 DEF ChainUtxos, UtxoRecords
<1>4. body = swapBody(offers[o].tx, m.out, a.give, m.out.satoshis, comm, a.pay)
  BY <1>2 DEF BodyOf
<1>5. phase = "returned" =>
         /\ s1 \in {SignSingle(m.out, body), SignAll(m.out, body)}
         /\ l1 = makerUnlock(body, m.out, a.give, m.out.satoshis, a.pay)
  <2> SUFFICES ASSUME phase = "returned"
               PROVE  /\ s1 = SignSingle(m.out, body)
                      /\ l1 = makerUnlock(body, m.out, a.give, m.out.satoshis, a.pay)
    OBVIOUS
  <2>1. s1 = SignSingle(m.out, offers[o].tx)
    BY <1>1 DEF ProperPublished
  <2>2. body.ins[1] = offers[o].tx.ins[1] /\ body.outs[1] = offers[o].tx.outs[1]
    <3>1. KeepsOffer(body, offers[o], a.give, a.satoshis, a.pay)
      <4>1. /\ offers[o] \in PublishedOffers /\ OfferOf(chain, offers[o])
            /\ a.satoshis \in Nat /\ comm \in Commissions
        <5>1. MarketInv
          BY DEF ProperInv
        <5> QED BY <1>1, <1>2, <5>1, AnswersType, TermTypes
      <4> QED BY <1>1, <1>2, <4>1, AnswerParts
    <3>2. body.ins = <<m.op, a.give.op, a.pay.op>> /\ body.outs[1] = w
      BY <3>1 DEF KeepsOffer, Shape
    <3> HIDE DEF w
    <3> QED BY <1>1, <1>3, <3>2, Triple, SingletonSeq
  <2>3. SignSingle(m.out, offers[o].tx) = SignSingle(m.out, body)
    BY <2>2 DEF SignSingle
  <2> QED BY <1>2, <2>1, <2>3
<1> HIDE DEF m, wanted, w
<1>6. ProperSwap(phase, tx, m, a.give, a.pay, wanted, comm)
  BY <1>1, <1>2, <1>3, <1>4, <1>5, ProperMade DEF w
<1> DEFINE take == [phase |-> phase, tx |-> tx]
<1>7. take.phase = phase /\ take.tx = tx
  OBVIOUS
<1> HIDE DEF take
<1>8. ProperTake(chain, take)
  BY <1>1, <1>2, <1>6, <1>7 DEF ProperTake
<1> QED BY <1>8 DEF take

LEMMA AcceptKeepsProper ==
  ASSUME ProperInv, MarketInv', ProperTakers, NEW t \in Takes, AcceptSwapOffer(t)
  PROVE  ProperInv'
<1>1. PICK o \in Published("signed"), comm \in CommissionInfos : \E a \in Answers(o, comm) :
         /\ acceptSwapOfferGuards(offers[o].tx, offers[o].utxo.out, a.give,
                                  a.satoshis, comm, a.pay)
         /\ Hold(t, "returned",
                 acceptSwapOffer(offers[o].tx, offers[o].utxo.out, a.give,
                                 a.satoshis, comm, a.pay))
  BY DEF AcceptSwapOffer
<1>2. PICK a \in Answers(o, comm) :
         /\ acceptSwapOfferGuards(offers[o].tx, offers[o].utxo.out, a.give,
                                  a.satoshis, comm, a.pay)
         /\ Hold(t, "returned",
                 acceptSwapOffer(offers[o].tx, offers[o].utxo.out, a.give,
                                 a.satoshis, comm, a.pay))
  BY <1>1
<1> DEFINE body == BodyOf(offers[o], a.give, a.satoshis, comm, a.pay)
           l1 == makerUnlock(body, offers[o].utxo.out, a.give, a.satoshis, a.pay)
           tx == acceptSwapOffer(offers[o].tx, offers[o].utxo.out, a.give,
                                 a.satoshis, comm, a.pay)
<1>3. o \in Offers /\ offers[o].phase = "signed" /\ comm \in KnownCommissions
  BY DEF Published, KnownCommissions
<1>4. SwapChange(a.pay, comm) >= 1
  BY <1>2 DEF acceptSwapOfferGuards
<1>5. tx = [ins |-> body.ins, outs |-> body.outs,
            sigs |-> <<offers[o].tx.sig, SignAll(a.give.out, body), SignAll(a.pay.out, body)>>,
            unlock |-> <<l1, takerUnlock(body, a.give, a.pay), PlainUnlock>>]
  BY DEF acceptSwapOffer, BodyOf
<1> HIDE DEF tx
<1>6. ProperTake(chain, [phase |-> "returned", tx |-> tx])
  BY <1>3, <1>4, <1>5, ProperAnswer
<1> QED BY <1>2, <1>6, HoldKeepsProper DEF tx

LEMMA AcceptUnsignedKeepsProper ==
  ASSUME ProperInv, MarketInv', ProperTakers, NEW t \in Takes,
         AcceptUnsignedSwapOffer(t)
  PROVE  ProperInv'
<1>1. PICK o \in Published("unsigned") : \E a \in Answers(o, NoCommission) :
         /\ acceptUnsignedSwapOfferGuards(offers[o].tx, a.give, a.satoshis, a.pay)
         /\ Hold(t, "sent",
                 acceptUnsignedSwapOffer(offers[o].tx, offers[o].utxo.out, a.give,
                                         a.satoshis, a.pay))
  BY DEF AcceptUnsignedSwapOffer
<1>2. PICK a \in Answers(o, NoCommission) :
         /\ acceptUnsignedSwapOfferGuards(offers[o].tx, a.give, a.satoshis, a.pay)
         /\ Hold(t, "sent",
                 acceptUnsignedSwapOffer(offers[o].tx, offers[o].utxo.out, a.give,
                                         a.satoshis, a.pay))
  BY <1>1
<1> DEFINE body == BodyOf(offers[o], a.give, a.satoshis, NoCommission, a.pay)
           tx == acceptUnsignedSwapOffer(offers[o].tx, offers[o].utxo.out, a.give,
                                         a.satoshis, a.pay)
<1>3. o \in Offers /\ offers[o].phase # "none" /\ NoCommission \in KnownCommissions
  BY DEF Published, KnownCommissions
<1>4. SwapChange(a.pay, NoCommission) >= 1
  BY <1>2 DEF acceptUnsignedSwapOfferGuards
<1>5. tx = [ins |-> body.ins, outs |-> body.outs,
            sigs |-> <<NoSig, SignAll(a.give.out, body), SignAll(a.pay.out, body)>>,
            unlock |-> <<PlainUnlock, takerUnlock(body, a.give, a.pay), PlainUnlock>>]
  BY DEF acceptUnsignedSwapOffer, BodyOf
<1> HIDE DEF tx
<1>6. ProperTake(chain, [phase |-> "sent", tx |-> tx])
  BY <1>3, <1>4, <1>5, ProperAnswer
<1> QED BY <1>2, <1>6, HoldKeepsProper DEF tx

LEMMA AcceptNativeKeepsProper ==
  ASSUME ProperInv, MarketInv', ProperTakers, NEW t \in Takes,
         AcceptUnsignedNativeSwapOffer(t)
  PROVE  ProperInv'
<1>1. PICK o \in Published("unsigned") : \E a \in Answers(o, NoCommission) :
         /\ a.give.out.kind = "p2pkh"
         /\ acceptUnsignedNativeSwapOfferGuards(a.satoshis, a.pay)
         /\ Hold(t, "sent",
                 acceptUnsignedNativeSwapOffer(offers[o].tx, offers[o].utxo.out, a.give,
                                               a.satoshis, a.pay))
  BY DEF AcceptUnsignedNativeSwapOffer
<1>2. PICK a \in Answers(o, NoCommission) :
         /\ a.give.out.kind = "p2pkh"
         /\ acceptUnsignedNativeSwapOfferGuards(a.satoshis, a.pay)
         /\ Hold(t, "sent",
                 acceptUnsignedNativeSwapOffer(offers[o].tx, offers[o].utxo.out, a.give,
                                               a.satoshis, a.pay))
  BY <1>1
<1> DEFINE body == BodyOf(offers[o], a.give, a.satoshis, NoCommission, a.pay)
           tx == acceptUnsignedNativeSwapOffer(offers[o].tx, offers[o].utxo.out, a.give,
                                               a.satoshis, a.pay)
<1>3. o \in Offers /\ offers[o].phase # "none" /\ NoCommission \in KnownCommissions
  BY DEF Published, KnownCommissions
<1>4. SwapChange(a.pay, NoCommission) >= 1
  BY <1>2 DEF acceptUnsignedNativeSwapOfferGuards
<1>5. tx = [ins |-> body.ins, outs |-> body.outs,
            sigs |-> <<NoSig, SignAll(a.give.out, body), SignAll(a.pay.out, body)>>,
            unlock |-> <<PlainUnlock, takerUnlock(body, a.give, a.pay), PlainUnlock>>]
  BY <1>2 DEF acceptUnsignedNativeSwapOffer, BodyOf, takerUnlock
<1> HIDE DEF tx
<1>6. ProperTake(chain, [phase |-> "sent", tx |-> tx])
  BY <1>3, <1>4, <1>5, ProperAnswer
<1> QED BY <1>2, <1>6, HoldKeepsProper DEF tx

\* The amount of the second output is what the maker's input holds, so the
\* signature that is made for it fits.
LEMMA MakerSignsKeepsProper ==
  ASSUME ProperInv, MarketInv', NEW t \in Takes, MakerSigns(t)
  PROVE  ProperInv'
<1> DEFINE tx == takes[t].tx
           makerOut == Utxo(chain, tx.ins[1]).out
           pay == Utxo(chain, tx.ins[3])
           done == makerSignSwapOffer(tx, makerOut, pay)
<1>1. takes[t].phase = "sent" /\ Hold(t, "returned", done)
  BY DEF MakerSigns
<1>2. ProperTake(chain, takes[t]) /\ chain \in Seq(Txs) /\ tx \in SwapTxs
  BY <1>1 DEF ProperInv, MarketInv, TypeOK
<1>3. PICK m, g, p \in ChainUtxos(chain), wanted \in WantedInfos, comm \in KnownCommissions :
         ProperSwap(takes[t].phase, tx, m, g, p, wanted, comm)
  BY Zenon, <1>2 DEF ProperTake
<1>4. /\ Terms(m, g, p, wanted, comm) /\ ProperBody(tx, m, g, p, wanted, comm)
      /\ DOMAIN tx.sigs = 1..3 /\ DOMAIN tx.unlock = 1..3
      /\ tx.sigs[2] = SignAll(g.out, tx) /\ tx.sigs[3] = SignAll(p.out, tx)
      /\ tx.unlock[2] = takerUnlock(tx, g, p)
  BY <1>3 DEF ProperSwap
<1>5. tx.ins = <<m.op, g.op, p.op>>
  BY <1>4 DEF ProperBody
<1>6. makerOut = m.out /\ pay = p /\ tx.ins[2] = g.op
  <2>1. Utxo(chain, tx.ins[1]) = m /\ Utxo(chain, tx.ins[3]) = p
    BY <1>2, <1>5, SwapInsHold
  <2> QED BY <1>5, <2>1
<1>7. makerSignedOutput(makerOut, tx) = m.out
  <2>1. tx.outs[2].satoshis = m.out.satoshis
    <3> DEFINE main == MainOuts(m, g, wanted, comm)
               change == P2pkhOut(p.out.pkh, SwapChange(p, comm))
               given == WithOwner(m.out, g.out.pkh, m.out.satoshis)
    <3>1. /\ main \in Seq(Outputs) /\ main[2] = given /\ change \in Outputs
          /\ given.satoshis = m.out.satoshis
      BY <1>2, <1>4, MainOutsShape
    <3>2. Len(main) >= 2
      <4>1. comm.satoshis \in Nat
        BY <1>2, TermTypes
      <4>2. comm.satoshis = 0 => Len(main) = 2
        BY <1>2, <1>4, MainOutsShape
      <4>3. comm.satoshis > 0 => Len(main) = 3
        BY <1>2, <1>4, MainOutsShape
      <4> DEFINE n == Len(main)
      <4>4. /\ comm.satoshis = 0 => n = 2
            /\ comm.satoshis > 0 => n = 3
        BY <4>2, <4>3
      <4> HIDE DEF n
      <4>5. n >= 2
        BY <4>1, <4>4
      <4> QED BY <4>5 DEF n
    <3>3. tx.outs = main \o <<change>>
      BY <1>4 DEF ProperBody
    <3> HIDE DEF main, change, given
    <3>4. <<change>> \in Seq(Outputs) /\ Len(main) \in Nat
      BY <3>1, SingletonSeq, LenProperties
    <3>5. (main \o <<change>>)[2] = main[2]
      BY <3>1, <3>2, <3>4, ConcatTwo
    <3> QED BY <3>1, <3>3, <3>5
  <2>2. m.out \in Outputs
    BY <1>2, TermTypes
  <2>3. [m.out EXCEPT !.satoshis = m.out.satoshis] = m.out
    BY <2>2 DEF Outputs
  <2> QED BY <1>6, <2>1, <2>3 DEF makerSignedOutput
<1> DEFINE sig == SignAll(m.out, tx)
           un == makerUnlock(tx, m.out, g, m.out.satoshis, p)
<1>8. done = Replaced(tx, sig, un)
  BY <1>6, <1>7 DEF makerSignSwapOffer, Replaced, makerUnlock
<1> HIDE DEF sig, un, makerOut, pay, done
<1>9. /\ done.ins = tx.ins /\ done.outs = tx.outs
      /\ done.sigs = [tx.sigs EXCEPT ![1] = sig]
      /\ done.unlock = [tx.unlock EXCEPT ![1] = un]
  <2> DEFINE answer == tx
  <2>1. answer \in [ins: Seq(Outpoints), outs: Seq(Outputs), sigs: Seq(Sigs),
                    unlock: Seq(SwapUnlocks)]
    BY <1>2 DEF SwapTxs
  <2>2. done = Replaced(answer, sig, un)
    BY <1>8
  <2> HIDE DEF answer
  <2>3. /\ done.ins = answer.ins /\ done.outs = answer.outs
        /\ done.sigs = [answer.sigs EXCEPT ![1] = sig]
        /\ done.unlock = [answer.unlock EXCEPT ![1] = un]
    BY SMTT(40), <2>1, <2>2, ReplaceFirst
  <2> QED BY <2>3 DEF answer
<1>10. /\ DOMAIN done.sigs = 1..3 /\ DOMAIN done.unlock = 1..3
       /\ done.sigs[1] = sig /\ done.sigs[2] = tx.sigs[2] /\ done.sigs[3] = tx.sigs[3]
       /\ done.unlock[1] = un /\ done.unlock[2] = tx.unlock[2]
  BY <1>4, <1>9
<1> HIDE DEF tx
<1>11. /\ \A out : SignAll(out, done) = SignAll(out, tx)
       /\ takerUnlock(done, g, p) = takerUnlock(tx, g, p)
       /\ makerUnlock(done, m.out, g, m.out.satoshis, p) = un
  BY <1>9 DEF SignAll, takerUnlock, makerUnlock, swapUnlock, swapSegments, un
<1>12. ProperBody(done, m, g, p, wanted, comm)
  BY <1>4, <1>9 DEF ProperBody
<1>13. ProperSwap("returned", done, m, g, p, wanted, comm)
  BY <1>4, <1>10, <1>11, <1>12 DEF ProperSwap, sig
<1> DEFINE take == [phase |-> "returned", tx |-> done]
<1>14. take.phase = "returned" /\ take.tx = done
  OBVIOUS
<1> HIDE DEF take
<1>15. ProperTake(chain, take)
  BY <1>3, <1>13, <1>14 DEF ProperTake
<1> QED BY <1>1, <1>15, HoldKeepsProper DEF take, done, tx, makerOut, pay

LEMMA AllInOneKeepsProper ==
  ASSUME ProperInv, MarketInv', ProperTakers, NEW t \in Takes, AllInOneSwap(t)
  PROVE  ProperInv'
<1>1. PICK o \in Offers, u1, u2 \in Tradeable, wanted \in WantedInfos :
         \E pay \in Payments({u1.op, u2.op}) :
           /\ MayTake(t)
           /\ offers[o].phase = "none"
           /\ u1.out.kind = "stas" /\ u2.out.kind = "stas"
           /\ u1.out.pkh # u2.out.pkh
           /\ ProperTakers => ProperOffer(u1, wanted) /\ Carries(u2.out, wanted)
           /\ allInOneSwapGuards(u1, wanted, u2, u1.out.satoshis, pay)
           /\ offers' = [offers EXCEPT ![o] =
                [phase |-> "agreed", utxo |-> u1, wanted |-> wanted,
                 tx |-> createUnsignedSwapOffer(u1, wanted)]]
           /\ takes' = [takes EXCEPT ![t] =
                [phase |-> "returned",
                 tx |-> allInOneSwap(u1, wanted, u2, u1.out.satoshis, pay)]]
           /\ UNCHANGED chain
  BY Zenon DEF AllInOneSwap
<1>2. PICK pay \in Payments({u1.op, u2.op}) :
         /\ u1.out.kind = "stas" /\ u2.out.kind = "stas"
         /\ u1.out.pkh # u2.out.pkh
         /\ ProperOffer(u1, wanted) /\ Carries(u2.out, wanted)
         /\ allInOneSwapGuards(u1, wanted, u2, u1.out.satoshis, pay)
         /\ offers' = [offers EXCEPT ![o] =
              [phase |-> "agreed", utxo |-> u1, wanted |-> wanted,
               tx |-> createUnsignedSwapOffer(u1, wanted)]]
         /\ takes' = [takes EXCEPT ![t] =
              [phase |-> "returned",
               tx |-> allInOneSwap(u1, wanted, u2, u1.out.satoshis, pay)]]
         /\ chain' = chain
  BY <1>1
<1> DEFINE offer == [phase |-> "agreed", utxo |-> u1, wanted |-> wanted,
                     tx |-> createUnsignedSwapOffer(u1, wanted)]
           body == swapBody(offerTx(u1, wanted), u1.out, u2, u1.out.satoshis,
                            NoCommission, pay)
           l1 == makerUnlock(body, u1.out, u2, u1.out.satoshis, pay)
           tx == allInOneSwap(u1, wanted, u2, u1.out.satoshis, pay)
           take == [phase |-> "returned", tx |-> tx]
<1>3. chain \in Seq(Txs) /\ NoCommission \in KnownCommissions /\ NoCommission.satoshis = 0
  BY DEF ProperInv, MarketInv, TypeOK, KnownCommissions, NoCommission
<1>4. /\ u1 \in ChainUtxos(chain) /\ u2 \in ChainUtxos(chain) /\ pay \in ChainUtxos(chain)
  BY <1>3, TradeableType DEF ChainUtxos
<1>5. /\ u1.op \in Outpoints /\ u2.op \in Outpoints /\ pay.op \in Outpoints
      /\ u1.op # u2.op /\ u1.op # pay.op /\ u2.op # pay.op
      /\ u1.out.kind # "contract" /\ pay.out.kind = "p2pkh"
  BY <1>2, <1>4 DEF ChainUtxos, UtxoRecords, Tradeable, Payments
<1>6. /\ wanted.satoshis = u2.out.satoshis /\ SwapChange(pay, NoCommission) >= 1
      /\ wanted.satoshis \in Nat
  BY <1>2, ArgumentsAssumption DEF allInOneSwapGuards, Wanted
<1>7. Terms(u1, u2, pay, wanted, NoCommission)
  BY <1>2, <1>3, <1>5, <1>6 DEF Terms
<1>8. /\ offerTx(u1, wanted).ins = <<u1.op>>
      /\ offerTx(u1, wanted).outs = <<makerWantedOutput(u1.out.pkh, wanted)>>
  BY DEF offerTx
<1>9. u2.out.kind = "stas" /\ body.ins[1] = u1.op
  <2>1. body.ins = <<u1.op, u2.op, pay.op>>
    BY <1>5, <1>8, Triple DEF swapBody
  <2> HIDE DEF body
  <2> QED BY <1>2, <2>1
<1>10. tx = [ins |-> body.ins, outs |-> body.outs,
             sigs |-> <<SignAll(u1.out, body), SignAll(u2.out, body), SignAll(pay.out, body)>>,
             unlock |-> <<l1, takerUnlock(body, u2, pay), PlainUnlock>>]
  <2>1. /\ l1 = swapUnlock(body, pay, u2.op, u1.out.satoshis)
        /\ takerUnlock(body, u2, pay) = swapUnlock(body, pay, u1.op, u2.out.satoshis)
    BY <1>2, <1>9 DEF makerUnlock, takerUnlock
  <2> HIDE DEF l1
  <2> QED BY <2>1 DEF allInOneSwap
<1> DEFINE s1 == SignAll(u1.out, body)
<1>11. s1 \in {SignSingle(u1.out, body), SignAll(u1.out, body)}
  OBVIOUS
<1> HIDE DEF body, l1, tx, s1
<1>12. ProperSwap("returned", tx, u1, u2, pay, wanted, NoCommission)
  BY <1>5, <1>7, <1>8, <1>10, <1>11, ProperMade DEF body, l1, s1
<1>13. take.phase = "returned" /\ take.tx = tx /\ DOMAIN takes = Takes
  BY DEF ProperInv, MarketInv, TypeOK
<1>14. takes' = [takes EXCEPT ![t] = take] /\ offers' = [offers EXCEPT ![o] = offer]
  BY <1>2 DEF tx
<1> HIDE DEF take
<1>15. ProperTake(chain, take)
  BY <1>1, <1>3, <1>4, <1>12, <1>13 DEF ProperTake
<1>16. \A s \in Takes : takes'[s].phase # "idle" => ProperTake(chain, takes'[s])
  BY <1>13, <1>14, <1>15 DEF ProperInv
<1>17. ProperPublished(offer)
  BY <1>2, <1>5 DEF ProperPublished
<1> HIDE DEF offer
<1> QED BY <1>2, <1>14, <1>16, <1>17, PublishKeepsProper

LEMMA NextKeepsProper == ProperTakers /\ ProperInv /\ [Next]_vars => ProperInv'
<1> SUFFICES ASSUME ProperTakers, ProperInv, [Next]_vars PROVE ProperInv'
  OBVIOUS
<1>1. MarketInv'
  BY NextKeepsInv DEF ProperInv
<1>2. CASE UNCHANGED vars
  BY <1>1, <1>2 DEF vars, ProperInv
<1>3. CASE \E o \in Offers : CreateSwapOffer(o) \/ CreateUnsignedSwapOffer(o)
  BY <1>1, <1>3, CreateOffersKeepProper
<1>4. CASE \E t \in Takes : Answer(t)
  BY <1>1, <1>4, AcceptKeepsProper, AcceptUnsignedKeepsProper, AcceptNativeKeepsProper,
     AllInOneKeepsProper DEF Answer
<1>5. ASSUME NEW t \in Takes, Finish(t) PROVE ProperInv'
  <2>1. CASE MakerDeclines(t) \/ BroadcastRefused(t)
    <3>1. Hold(t, "idle", NoSwap)
      BY <2>1 DEF MakerDeclines, BroadcastRefused
    <3> QED BY <1>1, <3>1, HoldKeepsProper
  <2>2. CASE BroadcastAccepted(t)
    BY <1>1, <2>2, AcceptedEffect, ConfirmKeepsProper DEF ProperInv, MarketInv
  <2> QED BY <1>1, <1>5, <2>1, <2>2, MakerSignsKeepsProper DEF Finish
<1>6. CASE Withdraw
  BY <1>1, <1>6, WithdrawEffect, ConfirmKeepsProper DEF ProperInv, MarketInv, TypeOK
<1> QED BY <1>2, <1>3, <1>4, <1>5, <1>6 DEF Next

LEMMA InitProper == Init => ProperInv
<1> SUFFICES ASSUME Init PROVE ProperInv
  OBVIOUS
<1>1. MarketInv
  BY InitInv
<1>2. \A o \in Offers : offers[o].phase = "none"
  BY DEF Init, NoOffer
<1>3. \A t \in Takes : takes[t].phase = "idle"
  BY DEF Init, IdleTake
<1> QED BY <1>1, <1>2, <1>3 DEF ProperInv

LEMMA ProperInvariant ==
  ASSUME ProperTakers
  PROVE  Spec => []ProperInv
<1>1. Init => ProperInv
  BY InitProper
<1>2. ProperInv /\ [Next]_vars => ProperInv'
  BY NextKeepsProper
<1> QED BY <1>1, <1>2, PTL DEF Spec

\* Between proper parties the miner gets the fee and the commission once more, in
\* every form of a swap and for any amounts: the commission is demanded of what
\* the taker gives, and taken off the change as well (swap.js:306, 1483).
THEOREM CommissionsPaidTwice ==
  ASSUME ProperTakers
  PROVE  Spec => []CommissionPaidTwice
<1>1. ProperInv => CommissionPaidTwice
  <2> SUFFICES ASSUME ProperInv, NEW t \in Takes, takes[t].phase # "idle"
               PROVE  LET tx == takes[t].tx
                          commission == IF Len(tx.outs) = 4 THEN tx.outs[3].satoshis ELSE 0
                      IN SumSatoshis([i \in DOMAIN tx.ins |-> ChainOutput(tx.ins[i])])
                           = SumSatoshis(tx.outs) + Fee + commission
    BY DEF CommissionPaidTwice
  <2>1. ProperTake(chain, takes[t]) /\ chain \in Seq(Txs)
    BY DEF ProperInv, MarketInv, TypeOK
  <2>2. Held(chain, takes[t].tx)
          = SumSatoshis([i \in DOMAIN takes[t].tx.ins |-> ChainOutput(takes[t].tx.ins[i])])
    BY DEF Held, Utxo, ChainOutput
  <2> QED BY <2>1, <2>2, ProperPaidTwice
<1> QED BY <1>1, ProperInvariant, PTL

-----------------------------------------------------------------------------
(* What a node says to a proper swap *)

OrdinaryOut(out) == out.satoshis > 0 /\ (out.kind = "p2pkh" => out.tok = NoTok)

OrdinaryTx(tx) ==
    /\ Len(tx.ins) <= MaxParentInputs
    /\ Len(tx.outs) <= MaxParentVout + 1
    /\ \A k \in DOMAIN tx.outs : OrdinaryOut(tx.outs[k])

OrdinaryChain(ch) == \A t \in DOMAIN ch : OrdinaryTx(ch[t])

\* Funding outpoints keep their bytes, makers want something, and the first
\* transactions have four outputs at most and nothing empty in them.
OrdinaryStart ==
    /\ ProperTakers
    /\ LeadingZeroTxids = {}
    /\ \A wanted \in WantedInfos : wanted.satoshis > 0
    /\ \A t \in DOMAIN Genesis :
          /\ Len(Genesis[t]) <= MaxParentVout + 1
          /\ \A k \in DOMAIN Genesis[t] : OrdinaryOut(Genesis[t][k])

LEMMA OrdinaryUtxo ==
  ASSUME NEW ch \in Seq(Txs), OrdinaryChain(ch), NEW u \in ChainUtxos(ch)
  PROVE  OrdinaryOut(u.out) /\ InReach(ch, u.op)
<1>1. u.op \in Created(ch) /\ u.out = OutputOf(ch, u.op)
  BY DEF ChainUtxos
<1>2. /\ u.op \in Outpoints /\ u.op.txid \in DOMAIN ch /\ ch[u.op.txid] \in Txs
      /\ u.op.vout + 1 \in DOMAIN ch[u.op.txid].outs
  BY <1>1, CreatedType
<1>3. OrdinaryTx(ch[u.op.txid])
  BY <1>2 DEF OrdinaryChain
<1>4. OrdinaryOut(u.out)
  BY <1>1, <1>2, <1>3 DEF OrdinaryTx, OutputOf
<1> DEFINE outs == ch[u.op.txid].outs
<1>5. outs \in Seq(Outputs) /\ u.op.vout \in Nat
  BY <1>2 DEF Txs, Outpoints
<1>6. u.op.vout + 1 <= Len(outs) /\ Len(outs) \in Nat /\ Len(outs) <= MaxParentVout + 1
  <2>1. u.op.vout + 1 \in DOMAIN outs
    BY <1>2
  <2>2. Len(outs) <= MaxParentVout + 1
    BY <1>3 DEF OrdinaryTx
  <2> HIDE DEF outs
  <2> QED BY <1>5, <2>1, <2>2, LenProperties
<1>7. u.op.vout <= MaxParentVout
  BY <1>5, <1>6 DEF MaxParentVout
<1>8. Len(ch[u.op.txid].ins) <= MaxParentInputs
  BY <1>3 DEF OrdinaryTx
<1> QED BY <1>4, <1>7, <1>8 DEF InReach

\* The segments that stand for the outputs in front of the change.
LEMMA SegmentsInFront ==
  ASSUME NEW main \in Seq(Outputs), NEW change \in Outputs, NEW tx,
         tx.outs = main \o <<change>>
  PROVE  LET segs == Front(swapSegments(tx))
         IN /\ Len(segs) = Len(main) /\ DOMAIN segs = 1..Len(main)
            /\ \A k \in 1..Len(main) : segs[k] = Segment(main[k].pkh, main[k].satoshis)
            /\ Last(swapSegments(tx)) = Segment(change.pkh, change.satoshis)
<1> DEFINE outs == main \o <<change>>
           n == Len(main)
           pairs == [k \in DOMAIN outs |-> Segment(outs[k].pkh, outs[k].satoshis)]
<1>1. <<change>> \in Seq(Outputs) /\ Len(<<change>>) = 1 /\ <<change>>[1] = change
  BY SingletonSeq
<1>2. /\ outs \in Seq(Outputs) /\ Len(outs) = n + Len(<<change>>)
      /\ \A k \in 1..n : outs[k] = main[k]
      /\ \A k \in 1..Len(<<change>>) : outs[n + k] = <<change>>[k]
  <2> HIDE DEF outs
  <2> QED BY <1>1, ConcatParts DEF outs
<1>3. swapSegments(tx) = pairs
  BY DEF swapSegments
<1>4. n \in Nat
  BY LenProperties
<1> HIDE DEF outs, n
<1>5. outs[n + 1] = change /\ Len(outs) = n + 1
  BY <1>1, <1>2, <1>4
<1>6. DOMAIN outs = 1..(n + 1)
  BY <1>2, <1>5, LenProperties
<1>7. pairs \in [1..(n + 1) -> {pairs[k] : k \in 1..(n + 1)}]
      /\ \A k \in 1..(n + 1) : pairs[k] = Segment(outs[k].pkh, outs[k].satoshis)
  BY <1>6
<1> DEFINE S == {pairs[k] : k \in 1..(n + 1)}
<1> HIDE DEF pairs, S
<1>8. pairs \in Seq(S) /\ Len(pairs) = n + 1
  <2>1. n + 1 \in Nat /\ pairs \in [1..(n + 1) -> S]
    BY <1>4, <1>7 DEF S
  <2> QED BY <2>1, FunctionIsSeq
<1> DEFINE segs == SubSeq(pairs, 1, n)
<1>9. Front(pairs) = segs /\ Last(pairs) = pairs[n + 1]
  <2>1. (n + 1) - 1 = n
    BY <1>4
  <2> QED BY <1>8, <2>1 DEF Front, Last
<1>10. /\ segs \in Seq(S) /\ Len(segs) = (IF 1 <= n THEN n - 1 + 1 ELSE 0)
       /\ \A k \in 1..(n - 1 + 1) : segs[k] = pairs[1 + k - 1]
  <2>1. \A k \in 1..n : pairs[k] \in S
    BY <1>4 DEF S
  <2>2. 1 \in Int /\ n \in Int
    BY <1>4
  <2> QED BY <2>1, <2>2, SubSeqProperties
<1> HIDE DEF segs
<1>11. Len(segs) = n /\ \A k \in 1..n : segs[k] = pairs[k]
  BY <1>4, <1>10
<1>12. DOMAIN segs = 1..n
  BY <1>10, <1>11, LenProperties
<1>13. ASSUME NEW k \in 1..n PROVE segs[k] = Segment(main[k].pkh, main[k].satoshis)
  <2>1. k \in 1..(n + 1)
    BY <1>4
  <2>2. segs[k] = pairs[k] /\ outs[k] = main[k]
    BY <1>2, <1>11
  <2>3. pairs[k] = Segment(outs[k].pkh, outs[k].satoshis)
    BY <1>7, <2>1
  <2> QED BY <2>2, <2>3
<1>14. Last(pairs) = Segment(change.pkh, change.satoshis)
  BY <1>4, <1>5, <1>7, <1>9
<1> QED BY <1>3, <1>9, <1>11, <1>12, <1>13, <1>14 DEF n

LEMMA OwnerReplaced ==
  ASSUME NEW o \in Outputs, NEW pkh, NEW sat
  PROVE  WithOwner(o, pkh, sat) = [kind |-> o.kind, pkh |-> pkh, tok |-> o.tok,
                                   satoshis |-> sat]
<1> DEFINE r == WithOwner(o, pkh, sat)
<1>1. DOMAIN r = {"kind", "pkh", "tok", "satoshis"} /\ r = [x \in DOMAIN r |-> r[x]]
  BY DEF WithOwner, Outputs
<1>2. r.kind = o.kind /\ r.pkh = pkh /\ r.tok = o.tok /\ r.satoshis = sat
  BY DEF WithOwner, Outputs
<1> HIDE DEF r
<1>3. r = [kind |-> r.kind, pkh |-> r.pkh, tok |-> r.tok, satoshis |-> r.satoshis]
  BY <1>1
<1> QED BY <1>2, <1>3 DEF r

\* The covenant rebuilds just the outputs of a proper swap.
LEMMA ProperOutputs ==
  ASSUME NEW ch \in Seq(Txs), OrdinaryChain(ch), NEW m \in ChainUtxos(ch),
         NEW g \in ChainUtxos(ch), NEW p \in ChainUtxos(ch), NEW wanted \in WantedInfos,
         NEW comm \in KnownCommissions, Terms(m, g, p, wanted, comm),
         NEW red, \/ m.out.kind = "stas" /\ red = m.out.tok.red
                  \/ g.out.kind = "stas" /\ red = g.out.tok.red,
         NEW k \in 1..Len(MainOuts(m, g, wanted, comm))
  PROVE  LET out == MainOuts(m, g, wanted, comm)[k]
         IN SwapOutput(red, m.out, g.out, k, Segment(out.pkh, out.satoshis)) = out
<1> DEFINE main == MainOuts(m, g, wanted, comm)
           w == makerWantedOutput(m.out.pkh, wanted)
           given == WithOwner(m.out, g.out.pkh, m.out.satoshis)
           c == P2pkhOut(comm.pkh, comm.satoshis)
           n == Len(main)
           Rebuilt(j, out) == SwapOutput(red, m.out, g.out, j, Segment(out.pkh, out.satoshis))
<1>1. /\ m.out \in Outputs /\ g.out \in Outputs /\ m.out.pkh \in Keys
      /\ wanted \in Wanted /\ comm.satoshis \in Nat
  BY TermTypes
<1>2. /\ main[1] = w /\ main[2] = given
      /\ comm.satoshis = 0 => n = 2
      /\ comm.satoshis > 0 => n = 3 /\ main[3] = c
  BY MainOutsShape
<1>3. OrdinaryOut(g.out)
  BY OrdinaryUtxo
<1>5. \A o \in Outputs : \A pkh, sat :
         WithOwner(o, pkh, sat) = [kind |-> o.kind, pkh |-> pkh, tok |-> o.tok,
                                   satoshis |-> sat]
  BY OwnerReplaced
<1>6. Rebuilt(2, given) = given
  BY <1>1, <1>5 DEF SwapOutput, Segment
<1>7. Rebuilt(1, w) = w
  <2>1. CASE wanted.type = "native"
    <3>1. g.out.kind = "p2pkh" /\ g.out.tok = NoTok
      BY <1>3, <2>1 DEF Terms, Carries, OrdinaryOut
    <3>2. w = P2pkhOut(m.out.pkh, wanted.satoshis)
      BY <2>1 DEF makerWantedOutput
    <3>3. WithOwner(g.out, w.pkh, w.satoshis) = w /\ P2pkhOut(w.pkh, w.satoshis) = w
      BY <1>1, <1>5, <3>1, <3>2 DEF P2pkhOut
    <3> QED BY <3>3 DEF SwapOutput, Segment
  <2>2. CASE wanted.type = "token"
    <3>1. g.out.kind = "stas" /\ g.out.tok = wanted.tok
      BY <2>2 DEF Terms, Carries, IsStas
    <3>2. w = StasOut(m.out.pkh, wanted.tok, wanted.satoshis)
      BY <2>2 DEF makerWantedOutput
    <3>3. m.out.pkh # red
      BY <2>2, <3>1 DEF Terms, ProperOffer
    <3>4. w.pkh = m.out.pkh /\ WithOwner(g.out, w.pkh, w.satoshis) = w
      BY <1>1, <1>5, <3>1, <3>2 DEF StasOut
    <3> QED BY <3>3, <3>4 DEF SwapOutput, Segment
  <2>3. wanted.type \in {"native", "token"}
    BY <1>1 DEF Wanted
  <2> QED BY <2>1, <2>2, <2>3
<1>8. ASSUME comm.satoshis > 0 PROVE Rebuilt(3, c) = c
  <2>1. g.out.kind = "p2pkh" /\ g.out.tok = NoTok
    BY <1>3, <1>8 DEF Terms, OrdinaryOut
  <2>2. WithOwner(g.out, c.pkh, c.satoshis) = c
    BY <1>1, <1>5, <2>1 DEF P2pkhOut
  <2> QED BY <2>2 DEF SwapOutput, Segment
<1>9. CASE comm.satoshis = 0
  <2>1. n = 2
    BY <1>2, <1>9
  <2>2. k \in 1..n
    OBVIOUS
  <2> HIDE DEF n, w, given
  <2>3. k = 1 \/ k = 2
    BY <2>1, <2>2
  <2>4. Rebuilt(k, main[k]) = main[k]
    <3> HIDE DEF main, Rebuilt
    <3> QED BY <1>2, <1>6, <1>7, <2>3
  <2> QED BY <2>4
<1>10. CASE comm.satoshis > 0
  <2>1. n = 3 /\ main[3] = c
    BY <1>2, <1>10
  <2>2. k \in 1..n
    OBVIOUS
  <2> HIDE DEF n, w, given, c
  <2>3. k = 1 \/ k = 2 \/ k = 3
    BY <2>1, <2>2
  <2>4. Rebuilt(k, main[k]) = main[k]
    <3> HIDE DEF main, Rebuilt
    <3> QED BY <1>2, <1>6, <1>7, <1>8, <1>10, <2>1, <2>3
  <2> QED BY <2>4
<1> QED BY <1>1, <1>9, <1>10

\* The outputs in front of the change are ordinary, too.
LEMMA ProperOuts ==
  ASSUME NEW ch \in Seq(Txs), OrdinaryChain(ch), NEW m \in ChainUtxos(ch),
         NEW g \in ChainUtxos(ch), NEW p \in ChainUtxos(ch), NEW wanted \in WantedInfos,
         wanted.satoshis > 0, NEW comm \in KnownCommissions,
         Terms(m, g, p, wanted, comm)
  PROVE  LET main == MainOuts(m, g, wanted, comm)
             n == Len(main)
         IN /\ main \in Seq(Outputs) /\ n \in 2..3
            /\ n = 3 => g.out.kind = "p2pkh" /\ main[3].satoshis = comm.satoshis
            /\ n = 2 => comm.satoshis = 0
            /\ main[1].satoshis = wanted.satoshis /\ main[2].satoshis = m.out.satoshis
            /\ \A k \in 1..n : OrdinaryOut(main[k])
<1> DEFINE main == MainOuts(m, g, wanted, comm)
           w == makerWantedOutput(m.out.pkh, wanted)
           given == WithOwner(m.out, g.out.pkh, m.out.satoshis)
           c == P2pkhOut(comm.pkh, comm.satoshis)
           n == Len(main)
<1>1. /\ m.out \in Outputs /\ wanted \in Wanted /\ comm.satoshis \in Nat
  BY TermTypes
<1>2. /\ main \in Seq(Outputs) /\ main[1] = w /\ main[2] = given
      /\ w.satoshis = wanted.satoshis /\ given.satoshis = m.out.satoshis
      /\ comm.satoshis = 0 => n = 2
      /\ comm.satoshis > 0 => n = 3 /\ main[3] = c
  BY MainOutsShape
<1>3. OrdinaryOut(m.out)
  BY OrdinaryUtxo
<1>4. OrdinaryOut(given)
  BY <1>1, <1>3, OwnerReplaced DEF OrdinaryOut
<1>5. OrdinaryOut(w)
  BY <1>1 DEF OrdinaryOut, makerWantedOutput, Wanted, P2pkhOut, StasOut
<1>6. comm.satoshis > 0 => OrdinaryOut(c) /\ c.satoshis = comm.satoshis
  BY DEF OrdinaryOut, P2pkhOut
<1> HIDE DEF n, w, given, c
<1>7. CASE comm.satoshis = 0
  <2>1. n = 2
    BY <1>2, <1>7
  <2>2. ASSUME NEW k \in 1..n PROVE OrdinaryOut(main[k])
    <3>1. k = 1 \/ k = 2
      BY <2>1, <2>2
    <3> HIDE DEF main
    <3> QED BY <1>2, <1>4, <1>5, <3>1
  <2> HIDE DEF main
  <2> QED BY <1>2, <1>7, <2>1, <2>2 DEF n, main
<1>8. CASE comm.satoshis > 0
  <2>1. n = 3 /\ main[3] = c
    BY <1>2, <1>8
  <2>2. ASSUME NEW k \in 1..n PROVE OrdinaryOut(main[k])
    <3>1. k = 1 \/ k = 2 \/ k = 3
      BY <2>1, <2>2
    <3> HIDE DEF main
    <3> QED BY <1>2, <1>4, <1>5, <1>6, <1>8, <2>1, <3>1
  <2>3. g.out.kind = "p2pkh"
    BY <1>8 DEF Terms
  <2> HIDE DEF main
  <2> QED BY <1>2, <1>6, <1>8, <2>1, <2>2, <2>3 DEF n, main
<1> QED BY <1>1, <1>7, <1>8

LEMMA ConcatTwoOne ==
  ASSUME NEW S, NEW l \in Seq(S), NEW r \in Seq(S)
  PROVE  Len(l) = 2 /\ Len(r) = 1 => l \o r = <<l[1], l[2], r[1]>>
<1> DEFINE c == l \o r
<1>1. /\ c \in Seq(S) /\ Len(c) = Len(l) + Len(r)
      /\ \A i \in 1..Len(l) : c[i] = l[i]
      /\ \A i \in 1..Len(r) : c[Len(l) + i] = r[i]
  BY ConcatParts
<1> HAVE Len(l) = 2 /\ Len(r) = 1
<1> HIDE DEF c
<1>2. c \in Seq(S) /\ Len(c) = 3 /\ c[1] = l[1] /\ c[2] = l[2]
  BY <1>1
<1>3. c[2 + 1] = r[1]
  BY <1>1
<1>4. c = <<c[1], c[2], c[3]>>
  BY <1>2, SeqOfThree
<1>5. c = <<l[1], l[2], r[1]>>
  BY <1>2, <1>3, <1>4
<1> QED BY <1>5 DEF c

\* The covenant of either token input lets a proper swap pass.
LEMMA ProperCovenant ==
  ASSUME OrdinaryStart, NEW ch \in Seq(Txs), OrdinaryChain(ch), NEW m \in ChainUtxos(ch),
         NEW g \in ChainUtxos(ch), NEW p \in ChainUtxos(ch), NEW wanted \in WantedInfos,
         NEW comm \in KnownCommissions, Terms(m, g, p, wanted, comm),
         NEW tx, ProperBody(tx, m, g, p, wanted, comm),
         NEW i \in 1..2, NEW this, this = (IF i = 1 THEN m.out ELSE g.out),
         NEW other, other = (IF i = 1 THEN g.op ELSE m.op),
         this.kind = "stas",
         tx.unlock[i] = swapUnlock(tx, p, other, this.satoshis)
  PROVE  SwapCovenantHolds(ch, tx, i)
<1> DEFINE main == MainOuts(m, g, wanted, comm)
           change == P2pkhOut(p.out.pkh, SwapChange(p, comm))
           n == Len(main)
           u == tx.unlock[i]
           segs == Front(u.pairs)
           last == Last(u.pairs)
<1>1. /\ u.type = "swap" /\ u.pairs = swapSegments(tx) /\ u.funding = Funding(<<p>>)
      /\ u.other = other /\ u.value = this.satoshis
  BY DEF swapUnlock
<1>2. wanted.satoshis > 0 /\ LeadingZeroTxids = {}
  BY DEF OrdinaryStart
<1>3. /\ main \in Seq(Outputs) /\ n \in 2..3
      /\ n = 3 => g.out.kind = "p2pkh" /\ main[3].satoshis = comm.satoshis
      /\ n = 2 => comm.satoshis = 0
      /\ main[1].satoshis = wanted.satoshis /\ main[2].satoshis = m.out.satoshis
      /\ \A k \in 1..n : OrdinaryOut(main[k])
  BY <1>2, ProperOuts
<1>4. change \in Outputs
  BY MainOutsShape
<1>5. tx.outs = main \o <<change>> /\ tx.ins = <<m.op, g.op, p.op>>
  BY DEF ProperBody
<1>6. /\ Len(segs) = n /\ DOMAIN segs = 1..n
      /\ \A k \in 1..n : segs[k] = Segment(main[k].pkh, main[k].satoshis)
      /\ last = Segment(change.pkh, change.satoshis)
  <2> HIDE DEF main, change
  <2>1. /\ Len(Front(swapSegments(tx))) = Len(main)
        /\ DOMAIN Front(swapSegments(tx)) = 1..Len(main)
        /\ \A k \in 1..Len(main) :
              Front(swapSegments(tx))[k] = Segment(main[k].pkh, main[k].satoshis)
        /\ Last(swapSegments(tx)) = Segment(change.pkh, change.satoshis)
    BY <1>3, <1>4, <1>5, SegmentsInFront
  <2> QED BY <1>1, <2>1
<1>7. /\ Utxo(ch, tx.ins[1]) = m /\ Utxo(ch, tx.ins[2]) = g
      /\ tx.ins[1] = m.op /\ tx.ins[2] = g.op
  BY <1>5, SwapInsHold
<1>8. /\ m.op \in Outpoints /\ g.op \in Outpoints /\ p.op \in Outpoints
      /\ m.out.satoshis \in Nat /\ g.out.satoshis \in Nat /\ wanted.satoshis \in Nat
      /\ comm.satoshis \in Nat
  BY TermTypes
<1>9. u.other = tx.ins[3 - i]
  BY <1>1, <1>7
<1>10. tx.ins = <<tx.ins[1], tx.ins[2]>> \o FundingInputs(u)
  <2>1. u.funding = p.op /\ p.op # NoOutpoint
    <3>1. Funding(<<p>>) = [txid |-> p.op.txid, vout |-> p.op.vout]
      BY <1>2 DEF Funding, reverseEndian
    <3>2. [txid |-> p.op.txid, vout |-> p.op.vout] = p.op /\ p.op.txid # 0
      BY <1>8 DEF Outpoints
    <3> QED BY <1>1, <3>1, <3>2 DEF NoOutpoint
  <2>2. FundingInputs(u) = <<p.op>>
    BY <2>1 DEF FundingInputs
  <2>3. /\ <<m.op, g.op>> \in Seq(Outpoints) /\ Len(<<m.op, g.op>>) = 2
        /\ <<m.op, g.op>>[1] = m.op /\ <<m.op, g.op>>[2] = g.op
        /\ <<p.op>> \in Seq(Outpoints) /\ Len(<<p.op>>) = 1 /\ <<p.op>>[1] = p.op
    BY <1>8
  <2>4. <<m.op, g.op>> \o <<p.op>> = <<m.op, g.op, p.op>>
    BY <2>3, ConcatTwoOne
  <2> QED BY <1>5, <1>7, <2>2, <2>4
<1>11. InReach(ch, u.other)
  BY <1>1, OrdinaryUtxo
<1>12. /\ Len(segs) \in MinSwapSegments..MaxSegments
       /\ Len(segs) > MinSwapSegments => i = 1 \/ this.tok.isSplittable
  <2> HIDE DEF n, segs
  <2>1. n = 3 => i = 1
    BY <1>3
  <2>2. n = 2 \/ n = 3
    BY <1>3
  <2> QED BY <1>6, <2>1, <2>2 DEF MinSwapSegments, MaxSegments
<1>13. \A k \in DOMAIN segs : segs[k].satoshis > 0
  <2> HIDE DEF n, segs, main
  <2> QED BY <1>3, <1>6 DEF Segment, OrdinaryOut
<1>14. /\ segs[1].satoshis = wanted.satoshis /\ segs[2].satoshis = m.out.satoshis
       /\ n = 3 => segs[3].satoshis = comm.satoshis
  <2> HIDE DEF n, segs, main
  <2>1. 1 \in 1..n /\ 2 \in 1..n /\ (n = 3 => 3 \in 1..n)
    BY <1>3
  <2> QED BY <1>3, <1>6, <2>1 DEF Segment
<1>15. MakerAssetWhole(segs, m.out)
  BY <1>14 DEF MakerAssetWhole
<1>16. TakerAssetWhole(segs, g.out)
  <2>1. g.out.satoshis = wanted.satoshis + comm.satoshis
    BY DEF Terms
  <2>2. n = 2 \/ n = 3
    <3> HIDE DEF n
    <3> QED BY <1>3
  <2> HIDE DEF n, segs, main
  <2>3. CASE n = 2
    <3>1. DOMAIN segs = 1..2
      BY <1>6, <2>3
    <3>2. SegmentTotal(segs) = wanted.satoshis + m.out.satoshis
      BY <1>8, <1>14, <3>1 DEF SegmentTotal
    <3> QED BY <1>3, <1>8, <1>14, <2>1, <2>3, <3>2 DEF TakerAssetWhole, TakerTotal
  <2>4. CASE n = 3
    <3>1. DOMAIN segs = 1..3
      BY <1>6, <2>4
    <3>2. SegmentTotal(segs) = wanted.satoshis + m.out.satoshis + comm.satoshis
      BY <1>8, <1>14, <2>4, <3>1 DEF SegmentTotal
    <3> QED BY <1>8, <1>14, <2>1, <3>2 DEF TakerAssetWhole, TakerTotal
  <2> QED BY <2>2, <2>3, <2>4
<1>17. tx.outs = SwapOutputs(this.tok.red, m.out, g.out, segs, last)
  <2> DEFINE rebuilt == [k \in 1..Len(segs) |->
                            SwapOutput(this.tok.red, m.out, g.out, k, segs[k])]
  <2>1. rebuilt = main
    <3>1. ASSUME NEW k \in 1..n
          PROVE  SwapOutput(this.tok.red, m.out, g.out, k, segs[k]) = main[k]
      <4>1. \/ m.out.kind = "stas" /\ this.tok.red = m.out.tok.red
            \/ g.out.kind = "stas" /\ this.tok.red = g.out.tok.red
        OBVIOUS
      <4>2. ASSUME NEW red, \/ m.out.kind = "stas" /\ red = m.out.tok.red
                            \/ g.out.kind = "stas" /\ red = g.out.tok.red
            PROVE  SwapOutput(red, m.out, g.out, k, Segment(main[k].pkh, main[k].satoshis))
                     = main[k]
        BY <4>2, ProperOutputs
      <4>3. SwapOutput(this.tok.red, m.out, g.out, k, Segment(main[k].pkh, main[k].satoshis))
              = main[k]
        <5> HIDE DEF main
        <5> QED BY <4>1, <4>2
      <4> HIDE DEF main, segs
      <4> QED BY <1>6, <4>3
    <3>2. main = [k \in 1..n |-> main[k]]
      <4> HIDE DEF main
      <4>1. DOMAIN main = 1..n
        BY <1>3, LenProperties
      <4> QED BY <1>3, <4>1
    <3> HIDE DEF main, n, segs
    <3> QED BY <1>6, <3>1, <3>2
  <2>2. P2pkhOut(last.pkh, last.satoshis) = change
    BY <1>6 DEF Segment, P2pkhOut
  <2>3. SwapOutputs(this.tok.red, m.out, g.out, segs, last)
          = rebuilt \o <<P2pkhOut(last.pkh, last.satoshis)>>
    BY DEF SwapOutputs
  <2> HIDE DEF rebuilt, main, change, segs, last
  <2> QED BY <1>5, <2>1, <2>2, <2>3
<1>18. Utxo(ch, tx.ins[1]).out = m.out /\ Utxo(ch, tx.ins[2]).out = g.out
  BY <1>7
<1>19. tx.unlock[i] = u
  OBVIOUS
<1> HIDE DEF main, change, n, u
<1> QED BY <1>1, <1>9, <1>10, <1>11, <1>12, <1>13, <1>15, <1>16, <1>17, <1>18, <1>19
        DEF SwapCovenantHolds

LEMMA ProperAccepted ==
  ASSUME OrdinaryStart, NEW ch \in Seq(Txs), OrdinaryChain(ch), NEW take,
         take.phase = "returned", ProperTake(ch, take),
         \A i \in DOMAIN take.tx.ins : take.tx.ins[i] \in Unspent(ch)
  PROVE  SwapAccepted(ch, take.tx)
<1>1. PICK m, g, p \in ChainUtxos(ch), wanted \in WantedInfos, comm \in KnownCommissions :
         ProperSwap(take.phase, take.tx, m, g, p, wanted, comm)
  BY Zenon DEF ProperTake
<1> DEFINE tx == take.tx
<1>2. /\ Terms(m, g, p, wanted, comm) /\ ProperBody(tx, m, g, p, wanted, comm)
      /\ tx.sigs[1] \in {SignSingle(m.out, tx), SignAll(m.out, tx)}
      /\ tx.sigs[2] = SignAll(g.out, tx) /\ tx.sigs[3] = SignAll(p.out, tx)
      /\ tx.unlock[1] = makerUnlock(tx, m.out, g, m.out.satoshis, p)
      /\ tx.unlock[2] = takerUnlock(tx, g, p)
      /\ tx.ins = <<m.op, g.op, p.op>>
  BY <1>1 DEF ProperSwap, ProperBody
<1> HIDE DEF tx
<1>3. /\ DOMAIN tx.ins = 1..3
      /\ Utxo(ch, tx.ins[1]) = m /\ Utxo(ch, tx.ins[2]) = g /\ Utxo(ch, tx.ins[3]) = p
      /\ tx.ins[1] = m.op /\ tx.ins[2] = g.op /\ tx.ins[3] = p.op
  BY <1>2, SwapInsHold
<1>4. \A i, j \in DOMAIN tx.ins : tx.ins[i] = tx.ins[j] => i = j
  <2>1. m.op # g.op /\ m.op # p.op /\ g.op # p.op
    BY <1>2 DEF Terms
  <2>2. 1..3 = {1, 2, 3}
    OBVIOUS
  <2> QED BY <1>3, <2>1, <2>2
<1>5. SumSatoshis([i \in DOMAIN tx.ins |-> Utxo(ch, tx.ins[i]).out]) >= SumSatoshis(tx.outs)
  <2> DEFINE commission == IF Len(tx.outs) = 4 THEN tx.outs[3].satoshis ELSE 0
  <2>1. Held(ch, tx) = m.out.satoshis + g.out.satoshis + p.out.satoshis
    BY <1>2, SwapInsHold
  <2>2. SumSatoshis(tx.outs) = wanted.satoshis + m.out.satoshis + p.out.satoshis - Fee
    BY <1>2, SwapOutsShape
  <2>3. /\ m.out.satoshis \in Nat /\ p.out.satoshis \in Nat /\ wanted.satoshis \in Nat
        /\ comm.satoshis \in Nat /\ g.out.satoshis = wanted.satoshis + comm.satoshis
    BY <1>2, TermTypes DEF Terms
  <2>4. Held(ch, tx) >= SumSatoshis(tx.outs)
    BY SMTT(40), <2>1, <2>2, <2>3, FeeAssumption
  <2> QED BY <2>4 DEF Held
<1>6. \A i \in DOMAIN tx.ins : SigHolds(ch, tx, i, tx.sigs[i])
  <2>1. SigHolds(ch, tx, 1, tx.sigs[1])
    BY <1>2, <1>3 DEF SigHolds, SignSingle, SignAll
  <2>2. SigHolds(ch, tx, 2, tx.sigs[2]) /\ SigHolds(ch, tx, 3, tx.sigs[3])
    BY <1>2, <1>3 DEF SigHolds, SignAll
  <2>3. 1..3 = {1, 2, 3}
    OBVIOUS
  <2> QED BY <1>3, <2>1, <2>2, <2>3
<1>7. ASSUME m.out.kind = "stas" PROVE SwapCovenantHolds(ch, tx, 1)
  <2>1. tx.unlock[1] = swapUnlock(tx, p, g.op, m.out.satoshis)
    BY <1>2, <1>7 DEF makerUnlock
  <2> DEFINE i == 1
             this == m.out
             other == g.op
  <2>2. /\ i \in 1..2 /\ this = (IF i = 1 THEN m.out ELSE g.out)
        /\ other = (IF i = 1 THEN g.op ELSE m.op) /\ this.kind = "stas"
        /\ tx.unlock[i] = swapUnlock(tx, p, other, this.satoshis)
    BY <1>7, <2>1
  <2> HIDE DEF i, this, other
  <2>3. SwapCovenantHolds(ch, tx, i)
    BY <1>2, <2>2, ProperCovenant
  <2> QED BY <2>3 DEF i
<1>8. ASSUME g.out.kind = "stas" PROVE SwapCovenantHolds(ch, tx, 2)
  <2>1. tx.unlock[2] = swapUnlock(tx, p, m.op, g.out.satoshis)
    BY <1>2, <1>3, <1>8 DEF takerUnlock
  <2> DEFINE i == 2
             this == g.out
             other == m.op
  <2>2. /\ i \in 1..2 /\ this = (IF i = 1 THEN m.out ELSE g.out)
        /\ other = (IF i = 1 THEN g.op ELSE m.op) /\ this.kind = "stas"
        /\ tx.unlock[i] = swapUnlock(tx, p, other, this.satoshis)
    BY <1>8, <2>1
  <2> HIDE DEF i, this, other
  <2>3. SwapCovenantHolds(ch, tx, i)
    BY <1>2, <2>2, ProperCovenant
  <2> QED BY <2>3 DEF i
<1>9. \A i \in DOMAIN tx.ins :
         Utxo(ch, tx.ins[i]).out.kind = "stas" => SwapCovenantHolds(ch, tx, i)
  <2>1. p.out.kind # "stas"
    BY <1>2 DEF Terms
  <2>2. 1..3 = {1, 2, 3}
    OBVIOUS
  <2> QED BY <1>3, <1>7, <1>8, <2>1, <2>2
<1>10. \A i \in DOMAIN tx.ins : tx.ins[i] \in Unspent(ch)
  BY DEF tx
<1>11. SwapAccepted(ch, tx)
  BY <1>4, <1>5, <1>6, <1>9, <1>10 DEF SwapAccepted
<1> QED BY <1>11 DEF tx

-----------------------------------------------------------------------------
(* What gets onto the chain is ordinary *)

LEMMA ProperEntryOrdinary ==
  ASSUME OrdinaryStart, NEW ch \in Seq(Txs), OrdinaryChain(ch), NEW take,
         ProperTake(ch, take), NEW entry,
         entry.ins = take.tx.ins, entry.outs = take.tx.outs
  PROVE  OrdinaryTx(entry)
<1>1. PICK m, g, p \in ChainUtxos(ch), wanted \in WantedInfos, comm \in KnownCommissions :
         ProperSwap(take.phase, take.tx, m, g, p, wanted, comm)
  BY Zenon DEF ProperTake
<1> DEFINE main == MainOuts(m, g, wanted, comm)
           change == P2pkhOut(p.out.pkh, SwapChange(p, comm))
           n == Len(main)
           outs == entry.outs
<1>2. /\ Terms(m, g, p, wanted, comm)
      /\ entry.ins = <<m.op, g.op, p.op>> /\ outs = main \o <<change>>
  BY <1>1 DEF ProperSwap, ProperBody
<1>3. Len(entry.ins) <= MaxParentInputs
  <2>1. m.op \in Outpoints /\ g.op \in Outpoints /\ p.op \in Outpoints
    BY TermTypes
  <2>2. Len(entry.ins) = 3
    BY <1>2, <2>1, Triple
  <2> QED BY <2>2 DEF MaxParentInputs
<1>4. wanted.satoshis > 0
  BY DEF OrdinaryStart
<1>5. main \in Seq(Outputs) /\ n \in 2..3 /\ \A k \in 1..n : OrdinaryOut(main[k])
  BY <1>2, <1>4, ProperOuts
<1>6. change \in Outputs /\ OrdinaryOut(change)
  <2>1. change \in Outputs
    BY <1>2, MainOutsShape
  <2>2. change.satoshis >= 1 /\ change.tok = NoTok
    BY <1>2 DEF Terms, P2pkhOut
  <2>3. change.satoshis > 0
    BY <2>1, <2>2 DEF Outputs
  <2> QED BY <2>1, <2>2, <2>3 DEF OrdinaryOut
<1>7. <<change>> \in Seq(Outputs) /\ Len(<<change>>) = 1 /\ <<change>>[1] = change
  BY <1>6, SingletonSeq
<1> HIDE DEF main, change, outs
<1>8. /\ outs \in Seq(Outputs) /\ Len(outs) = Len(main) + Len(<<change>>)
      /\ \A k \in 1..Len(main) : outs[k] = main[k]
      /\ \A k \in 1..Len(<<change>>) : outs[Len(main) + k] = <<change>>[k]
  BY <1>2, <1>5, <1>7, ConcatParts
<1>9. /\ Len(outs) = n + 1 /\ \A k \in 1..n : outs[k] = main[k]
      /\ outs[n + 1] = change
  BY <1>7, <1>8
<1>10. DOMAIN outs = 1..(n + 1)
  BY <1>8, <1>9, LenProperties
<1> HIDE DEF n
<1>11. Len(outs) <= MaxParentVout + 1
  BY <1>5, <1>9 DEF MaxParentVout
<1>12. \A k \in DOMAIN outs : OrdinaryOut(outs[k])
  <2> SUFFICES ASSUME NEW k \in 1..(n + 1) PROVE OrdinaryOut(outs[k])
    BY <1>10
  <2>1. k \in 1..n \/ k = n + 1
    BY <1>5
  <2> QED BY <1>5, <1>6, <1>9, <2>1
<1> QED BY <1>3, <1>11, <1>12 DEF OrdinaryTx, outs

LEMMA OrdinaryAppend ==
  ASSUME NEW ch \in Seq(Txs), OrdinaryChain(ch), NEW entry \in Txs, OrdinaryTx(entry)
  PROVE  OrdinaryChain(Append(ch, entry))
<1> DEFINE longer == Append(ch, entry)
           n == Len(ch)
<1>1. /\ longer \in Seq(Txs) /\ Len(longer) = n + 1
      /\ \A t \in 1..n : longer[t] = ch[t]
      /\ longer[n + 1] = entry
  BY AppendProperties
<1>2. n \in Nat /\ DOMAIN ch = 1..n
  BY LenProperties
<1> HIDE DEF longer, n
<1>3. DOMAIN longer = 1..(n + 1)
  BY <1>1, LenProperties
<1>4. ASSUME NEW t \in 1..(n + 1) PROVE OrdinaryTx(longer[t])
  <2>1. t \in 1..n \/ t = n + 1
    BY <1>2
  <2> QED BY <1>1, <1>2, <2>1 DEF OrdinaryChain
<1>5. OrdinaryChain(longer)
  BY <1>3, <1>4 DEF OrdinaryChain
<1> QED BY <1>5 DEF longer

\* An owner who withdraws keeps the amount.
LEMMA WithdrawOrdinary ==
  ASSUME chain \in Seq(Txs), OrdinaryChain(chain), Withdraw
  PROVE  OrdinaryChain(chain')
<1>1. PICK u \in Tradeable : \E tx \in SpentElsewhere(u) :
         chain' = Append(chain, [ins |-> tx.ins, outs |-> tx.outs])
  BY DEF Withdraw
<1>2. PICK tx \in SpentElsewhere(u) :
         chain' = Append(chain, [ins |-> tx.ins, outs |-> tx.outs])
  BY <1>1
<1> DEFINE entry == [ins |-> tx.ins, outs |-> tx.outs]
<1>3. u \in ChainUtxos(chain) /\ u \in UtxoRecords /\ u.out.pkh \in Traders
  BY TradeableType DEF Tradeable, ChainUtxos
<1>4. entry \in Txs /\ entry.ins = <<u.op>> /\ entry.outs = tx.outs
  BY <1>3, WithdrawnType
<1>5. u.op \in Outpoints /\ u.out \in Outputs /\ OrdinaryOut(u.out)
  BY <1>3, OrdinaryUtxo DEF UtxoRecords
<1>6. \E out \in Outputs : tx.outs = <<out>> /\ OrdinaryOut(out)
  <2>1. CASE u.out.kind = "stas"
    <3>1. PICK k \in Traders : tx = transferTx(u, k, <<>>)
      BY <2>1 DEF SpentElsewhere
    <3> DEFINE out == StasOut(k, u.out.tok, u.out.satoshis)
    <3>2. out \in Outputs /\ OrdinaryOut(out)
      BY <1>5, ArgumentsAssumption DEF StasOut, Outputs, OrdinaryOut
    <3>3. tx.outs = <<out>> \o <<>>
      BY <3>1 DEF transferTx, BasicTx, ChangeOutputs
    <3> HIDE DEF out
    <3>4. tx.outs = <<out>>
      BY <3>2, <3>3, SingletonSeq, ConcatEmptySeq
    <3> QED BY <3>2, <3>4
  <2>2. CASE u.out.kind # "stas"
    BY <1>5, <2>2 DEF SpentElsewhere
  <2> QED BY <2>1, <2>2
<1>7. OrdinaryTx(entry)
  <2>1. PICK out \in Outputs : tx.outs = <<out>> /\ OrdinaryOut(out)
    BY <1>6
  <2>2. Len(entry.ins) = 1 /\ Len(entry.outs) = 1 /\ DOMAIN entry.outs = {1}
        /\ entry.outs[1] = out
    BY <1>4, <1>5, <2>1, SingletonSeq
  <2> HIDE DEF entry
  <2> QED BY <2>1, <2>2 DEF OrdinaryTx, MaxParentInputs, MaxParentVout
<1> HIDE DEF entry
<1> QED BY <1>2, <1>4, <1>7, OrdinaryAppend DEF entry

LEMMA InitOrdinary == OrdinaryStart /\ Init => OrdinaryChain(chain)
<1> SUFFICES ASSUME OrdinaryStart, Init, NEW t \in DOMAIN chain PROVE OrdinaryTx(chain[t])
  BY DEF OrdinaryChain
<1>1. t \in DOMAIN Genesis /\ chain[t].ins = <<>> /\ chain[t].outs = Genesis[t]
  BY DEF Init
<1>2. Len(<<>>) <= MaxParentInputs
  BY DEF MaxParentInputs
<1> QED BY <1>1, <1>2 DEF OrdinaryStart, OrdinaryTx

LEMMA NextKeepsOrdinary ==
  ASSUME OrdinaryStart, ProperInv, OrdinaryChain(chain), [Next]_vars
  PROVE  OrdinaryChain(chain')
<1>1. chain \in Seq(Txs) /\ TypeOK
  BY DEF ProperInv, MarketInv, TypeOK
<1>2. ASSUME chain' = chain PROVE OrdinaryChain(chain')
  BY <1>2
<1>3. CASE UNCHANGED vars
  BY <1>2, <1>3 DEF vars
<1>4. ASSUME NEW o \in Offers, CreateSwapOffer(o) \/ CreateUnsignedSwapOffer(o)
      PROVE  OrdinaryChain(chain')
  BY <1>2, <1>4 DEF CreateSwapOffer, CreateUnsignedSwapOffer, Publish
<1>5. ASSUME NEW t \in Takes, Answer(t) PROVE OrdinaryChain(chain')
  <2>1. CASE AcceptSwapOffer(t) \/ AcceptUnsignedSwapOffer(t)
               \/ AcceptUnsignedNativeSwapOffer(t)
    BY <1>2, <2>1 DEF AcceptSwapOffer, AcceptUnsignedSwapOffer,
       AcceptUnsignedNativeSwapOffer, Hold
  <2>2. CASE AllInOneSwap(t)
    BY <1>2, <2>2, ZenonT(60) DEF AllInOneSwap
  <2> QED BY <1>5, <2>1, <2>2 DEF Answer
<1>6. ASSUME NEW t \in Takes, Finish(t) PROVE OrdinaryChain(chain')
  <2>1. CASE MakerSigns(t) \/ MakerDeclines(t) \/ BroadcastRefused(t)
    BY <1>2, <2>1 DEF MakerSigns, MakerDeclines, BroadcastRefused, Hold
  <2>2. CASE BroadcastAccepted(t)
    <3>1. PICK entry \in Txs :
             /\ entry = [ins |-> takes[t].tx.ins, outs |-> takes[t].tx.outs]
             /\ chain' = Append(chain, entry)
      BY <1>1, <2>2, AcceptedEffect
    <3>2. ProperTake(chain, takes[t])
      BY <2>2 DEF BroadcastAccepted, ProperInv
    <3>3. entry.ins = takes[t].tx.ins /\ entry.outs = takes[t].tx.outs
      BY <3>1
    <3>4. OrdinaryTx(entry)
      BY <1>1, <3>2, <3>3, ProperEntryOrdinary
    <3> QED BY <1>1, <3>1, <3>4, OrdinaryAppend
  <2> QED BY <1>6, <2>1, <2>2 DEF Finish
<1>7. CASE Withdraw
  BY <1>1, <1>7, WithdrawOrdinary
<1> QED BY <1>3, <1>4, <1>5, <1>6, <1>7 DEF Next

\* A swap whose amounts are the ones of the offer is accepted while its inputs are
\* unspent: signed, unsigned or in one call, for any tokens and amounts, with a
\* commission on top of ordinary satoshis, and for what earlier swaps handed out
\* (swap.js:306, 1027, 1483).
THEOREM ProperSwapsAccepted ==
  ASSUME OrdinaryStart
  PROVE  Spec => []ProperSwapAccepted
<1>1. Init => OrdinaryChain(chain)
  BY InitOrdinary
<1>2. ProperInv /\ OrdinaryChain(chain) /\ [Next]_vars => OrdinaryChain(chain)'
  BY NextKeepsOrdinary
<1>3. ProperInv /\ OrdinaryChain(chain) => ProperSwapAccepted
  <2> SUFFICES ASSUME ProperInv, OrdinaryChain(chain), NEW t \in Takes,
                      takes[t].phase = "returned",
                      \A i \in DOMAIN takes[t].tx.ins : takes[t].tx.ins[i] \in Unspent(chain)
               PROVE  SwapAccepted(chain, takes[t].tx)
    BY DEF ProperSwapAccepted
  <2>1. ProperTake(chain, takes[t]) /\ chain \in Seq(Txs)
    BY DEF ProperInv, MarketInv, TypeOK
  <2> QED BY <2>1, ProperAccepted
<1>4. Spec => []ProperInv
  <2>1. ProperTakers
    BY DEF OrdinaryStart
  <2> QED BY <2>1, ProperInvariant
<1> QED BY <1>1, <1>2, <1>3, <1>4, PTL DEF Spec

=============================================================================
