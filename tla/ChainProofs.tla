----------------------------- MODULE ChainProofs -----------------------------
(***************************************************************************)
(* Lemmas about the transactions that builders make from the outputs of a  *)
(* chain, whoever calls the builders and whenever signatures come: what    *)
(* they spend, what they pay, that the covenant agrees with them, and that *)
(* none of this changes when other transactions are confirmed.             *)
(***************************************************************************)
EXTENDS Chain, StasTxProofs

-----------------------------------------------------------------------------
(* What callers hand in *)

\* What the callers hand in are outputs of the chain with their places.
LEMMA UtxosType ==
  ASSUME chain \in Seq(Txs)
  PROVE  /\ \A kind : Utxos(kind) \subseteq UtxoRecords
         /\ \A kind : \A u \in Utxos(kind) :
               /\ u.op \in Created(chain)
               /\ u.out = ChainOutput(u.op) /\ u.out.kind = kind
         /\ \A pay \in Payments :
               /\ IsPay(pay)
               /\ \A i \in DOMAIN Ops(pay) :
                     /\ Ops(pay)[i] \in Created(chain)
                     /\ ChainOutput(Ops(pay)[i]).kind = "p2pkh"
<1>1. ASSUME NEW op \in Unspent(chain)
      PROVE  Utxo(chain, op) \in UtxoRecords
  BY <1>1, CreatedType DEF Unspent, Utxo, UtxoRecords
<1>2. ASSUME NEW kind PROVE Utxos(kind) \subseteq UtxoRecords
  BY <1>1 DEF Utxos
<1>3. ASSUME NEW kind, NEW u \in Utxos(kind)
      PROVE  /\ u.op \in Created(chain)
             /\ u.out = ChainOutput(u.op) /\ u.out.kind = kind
  BY <1>3 DEF Utxos, Utxo, Unspent, ChainOutput
<1>4. ASSUME NEW pay \in Payments
      PROVE  /\ IsPay(pay)
             /\ \A i \in DOMAIN Ops(pay) :
                   /\ Ops(pay)[i] \in Created(chain)
                   /\ ChainOutput(Ops(pay)[i]).kind = "p2pkh"
  <2>1. CASE pay = <<>>
    BY <2>1 DEF IsPay, Ops
  <2>2. ASSUME NEW u \in Utxos("p2pkh"), pay = <<u>>
        PROVE  /\ IsPay(pay)
               /\ \A i \in DOMAIN Ops(pay) :
                     /\ Ops(pay)[i] \in Created(chain)
                     /\ ChainOutput(Ops(pay)[i]).kind = "p2pkh"
    BY <1>2, <1>3, <2>2 DEF IsPay, Ops
  <2> QED BY <2>1, <2>2 DEF Payments
<1> QED BY <1>2, <1>3, <1>4

-----------------------------------------------------------------------------
(* What builders guarantee of the inputs and tokens of a transaction *)

SpentTokens(ch, tx) ==
    {i \in DOMAIN tx.ins : OutputOf(ch, tx.ins[i]).kind = "stas"}

\* A transaction that spends no token creates tokens only from a contract of
\* the same key and symbol.
FromContract(ch, tx) ==
    \A k \in DOMAIN tx.outs :
        tx.outs[k].kind = "stas" =>
            LET parent == OutputOf(ch, tx.ins[1])
            IN /\ parent.kind = "contract"
               /\ parent.pkh = tx.outs[k].tok.red
               /\ parent.tok.symbol = tx.outs[k].tok.symbol

\* The first unlocking script names every token input of the transaction.
SpendsWhole(ch, tx) ==
    /\ 1 \in DOMAIN tx.unlock
    /\ \/ tx.unlock[1].type = "basic" /\ SpentTokens(ch, tx) = {1}
       \/ /\ tx.unlock[1].type = "merge" /\ SpentTokens(ch, tx) = {1, 2}
          /\ tx.unlock[1].other = tx.ins[2]

\* One that spends a token spends one first, gives none to the issuer, and
\* spends a token that must not be split alone and without a merge script.
SpendsFirst(ch, tx) ==
    /\ 1 \in SpentTokens(ch, tx)
    /\ \A k \in DOMAIN tx.outs :
          tx.outs[k].kind = "stas" => tx.outs[k].pkh # tx.outs[k].tok.red
    /\ ~OutputOf(ch, tx.ins[1]).tok.isSplittable =>
          /\ SpentTokens(ch, tx) = {1}
          /\ 1 \in DOMAIN tx.unlock /\ tx.unlock[1].type = "basic"
    /\ SpendsWhole(ch, tx)

\* What every builder guarantees of the transaction a call holds.
Built(ch, tx) ==
    /\ tx.ins # <<>>
    /\ \A i \in DOMAIN tx.ins : tx.ins[i] \in Created(ch)
    /\ SpentTokens(ch, tx) = {} => FromContract(ch, tx)
    /\ SpentTokens(ch, tx) # {} => SpendsFirst(ch, tx)

\* One token input and its payment.
LEMMA BasicTxBuilt ==
  ASSUME chain \in Seq(Txs), NEW u \in Utxos("stas"), NEW pay \in Payments,
         NEW outs \in Seq(Outputs), NEW segments, ChangeCovered(pay),
         \A k \in DOMAIN outs :
            outs[k].kind = "stas" => outs[k].pkh # outs[k].tok.red
  PROVE  Built(chain, BasicTx(u, outs, segments, pay))
<1> DEFINE tx == BasicTx(u, outs, segments, pay)
<1>1. /\ u \in UtxoRecords /\ u.op \in Created(chain) /\ IsPay(pay)
      /\ ChainOutput(u.op).kind = "stas"
  BY UtxosType
<1>2. PICK m \in Nat : /\ DOMAIN Ops(pay) = 1..m /\ Ops(pay) \in Seq(Outpoints)
                       /\ Len(Ops(pay)) = m
  BY <1>1, PayType, LenProperties
<1>3. /\ DOMAIN tx.ins = 1..(m + 1) /\ tx.ins[1] = u.op
      /\ \A i \in 2..(m + 1) : tx.ins[i] = Ops(pay)[i - 1]
  <2>1. <<u.op>> \in Seq(Outpoints) /\ Len(<<u.op>>) = 1 /\ <<u.op>>[1] = u.op
    BY <1>1 DEF UtxoRecords
  <2>2. tx.ins = <<u.op>> \o Ops(pay)
    BY DEF BasicTx
  <2> HIDE DEF tx
  <2>3. tx.ins \in Seq(Outpoints) /\ Len(tx.ins) = 1 + m
    BY <1>2, <2>1, <2>2, ConcatProperties
  <2> QED BY <1>2, <2>1, <2>2, <2>3, ConcatProperties, LenProperties
<1>4. \A i \in 2..(m + 1) : /\ tx.ins[i] \in Created(chain)
                            /\ ChainOutput(tx.ins[i]).kind = "p2pkh"
  BY <1>2, <1>3, UtxosType
<1>5. SpentTokens(chain, tx) = {1}
  <2> HIDE DEF tx
  <2>1. ASSUME NEW i \in DOMAIN tx.ins
        PROVE  ChainOutput(tx.ins[i]).kind = "stas" <=> i = 1
    <3>1. i = 1 \/ i \in 2..(m + 1)
      BY <1>3
    <3> QED BY <1>1, <1>3, <1>4, <3>1
  <2>2. 1 \in DOMAIN tx.ins
    BY <1>3
  <2> QED BY <2>1, <2>2, Zenon DEF SpentTokens, OutputOf, ChainOutput
<1>6. \A k \in DOMAIN tx.outs :
         tx.outs[k].kind = "stas" => tx.outs[k].pkh # tx.outs[k].tok.red
  <2>1. PICK n \in Nat : DOMAIN outs = 1..n /\ n = Len(outs)
    BY LenProperties
  <2>2. ChangeOutputs(pay) \in Seq(Outputs)
        /\ \A k \in 1..Len(ChangeOutputs(pay)) : ChangeOutputs(pay)[k].kind = "p2pkh"
    BY <1>1, ChangeType DEF ChangeOutputs, P2pkhOut
  <2>3. tx.outs = outs \o ChangeOutputs(pay)
    BY DEF BasicTx
  <2> HIDE DEF tx
  <2>4. tx.outs \in Seq(Outputs) /\ Len(tx.outs) = n + Len(ChangeOutputs(pay))
    BY <2>1, <2>2, <2>3, ConcatProperties
  <2>5. ASSUME NEW k \in DOMAIN tx.outs, tx.outs[k].kind = "stas"
        PROVE  tx.outs[k].pkh # tx.outs[k].tok.red
    <3>1. k \in 1..(n + Len(ChangeOutputs(pay))) /\ Len(ChangeOutputs(pay)) \in Nat
      BY <2>2, <2>4, LenProperties
    <3>2. CASE k <= n
      BY <2>1, <2>2, <2>3, <2>5, <3>1, <3>2, ConcatProperties
    <3>3. CASE k > n
      <4>1. tx.outs[k] = ChangeOutputs(pay)[k - n] /\ k - n \in 1..Len(ChangeOutputs(pay))
        BY <2>1, <2>2, <2>3, <3>1, <3>3, ConcatProperties
      <4> QED BY <2>2, <2>5, <4>1
    <3> QED BY <2>1, <3>1, <3>2, <3>3
  <2> QED BY <2>5
<1>7. 1 \in DOMAIN tx.unlock /\ tx.unlock[1].type = "basic"
  <2>1. PlainUnlocks(pay) \in Seq(Unlocks)
    BY <1>1, PayType
  <2> DEFINE un == partialSTASUnlockingScript(segments \o ChangeSegments(pay), pay)
  <2>2. tx.unlock = <<un>> \o PlainUnlocks(pay)
    BY DEF BasicTx
  <2>3. un.type = "basic"
    BY DEF partialSTASUnlockingScript
  <2> HIDE DEF un, tx
  <2>4. /\ (<<un>> \o PlainUnlocks(pay))[1] = un
        /\ 1 \in DOMAIN (<<un>> \o PlainUnlocks(pay))
    BY <2>1, SeqHead
  <2> QED BY <2>2, <2>3, <2>4
<1>8. tx.ins # <<>>
  BY <1>3
<1> HIDE DEF tx
<1>9. SpendsFirst(chain, tx)
  BY <1>5, <1>6, <1>7 DEF SpendsFirst, SpendsWhole
<1>10. \A i \in DOMAIN tx.ins : tx.ins[i] \in Created(chain)
  <2>1. ASSUME NEW i \in DOMAIN tx.ins PROVE tx.ins[i] \in Created(chain)
    <3>1. i = 1 \/ i \in 2..(m + 1)
      BY <1>3
    <3> QED BY <1>1, <1>3, <1>4, <3>1
  <2> QED BY <2>1
<1>11. Built(chain, tx)
  BY <1>5, <1>8, <1>9, <1>10 DEF Built
<1> QED BY <1>11 DEF tx

\* Outputs followed by change: what holds of token outputs is up to the former.
LEMMA ChangeIsPlain ==
  ASSUME NEW outs \in Seq(Outputs), NEW pay, IsPay(pay), ChangeCovered(pay),
         NEW k \in DOMAIN (outs \o ChangeOutputs(pay)),
         (outs \o ChangeOutputs(pay))[k].kind = "stas"
  PROVE  k \in DOMAIN outs /\ (outs \o ChangeOutputs(pay))[k] = outs[k]
<1> DEFINE all == outs \o ChangeOutputs(pay)
           change == ChangeOutputs(pay)
<1>1. PICK n \in Nat : DOMAIN outs = 1..n /\ n = Len(outs)
  BY LenProperties
<1>2. change \in Seq(Outputs) /\ \A i \in 1..Len(change) : change[i].kind = "p2pkh"
  BY ChangeType DEF ChangeOutputs, P2pkhOut
<1> HIDE DEF change
<1>3. all \in Seq(Outputs) /\ Len(all) = n + Len(change)
  BY <1>1, <1>2, ConcatProperties DEF change
<1>4. k \in 1..(n + Len(change)) /\ Len(change) \in Nat
  BY <1>2, <1>3, LenProperties DEF change
<1>5. CASE k <= n
  BY <1>1, <1>2, <1>4, <1>5, ConcatProperties DEF change
<1>6. CASE k > n
  <2>1. all[k] = change[k - n] /\ k - n \in 1..Len(change)
    BY <1>1, <1>2, <1>4, <1>6, ConcatProperties DEF change
  <2> QED BY <1>2, <2>1 DEF change
<1> QED BY <1>1, <1>4, <1>5, <1>6

\* Two token inputs and their payment.
LEMMA MergeTxBuilt ==
  ASSUME chain \in Seq(Txs), NEW u1 \in Utxos("stas"), NEW u2 \in Utxos("stas"),
         NEW dests \in Seq(Destinations), NEW pay \in Payments,
         mergeGuards(chain, u1, u2, dests, pay)
  PROVE  Built(chain, MergeTxOf(chain, u1, u2, dests, pay))
<1> DEFINE tx == MergeTxOf(chain, u1, u2, dests, pay)
           outs == StasOutputs(u1.out.tok, dests)
<1>1. /\ u1 \in UtxoRecords /\ u1.op \in Created(chain) /\ IsPay(pay)
      /\ u2 \in UtxoRecords /\ u2.op \in Created(chain)
      /\ u1.out = ChainOutput(u1.op) /\ u1.out.kind = "stas"
      /\ u2.out = ChainOutput(u2.op) /\ u2.out.kind = "stas"
      /\ u1.out.tok.isSplittable /\ ChangeCovered(pay)
      /\ \A i \in DOMAIN Ops(pay) : /\ Ops(pay)[i] \in Created(chain)
                                    /\ ChainOutput(Ops(pay)[i]).kind = "p2pkh"
  BY UtxosType DEF mergeGuards
<1>2. /\ tx.ins[1] = u1.op /\ 1 \in DOMAIN tx.ins
      /\ tx.ins[2] = u2.op /\ 2 \in DOMAIN tx.ins
      /\ \A i \in DOMAIN tx.ins : /\ tx.ins[i] \in Created(chain)
                                  /\ i \in {1, 2} \/ ChainOutput(tx.ins[i]).kind = "p2pkh"
  <2> DEFINE two == <<u1.op, u2.op>>
  <2>1. two \in Seq(Created(chain)) /\ Len(two) = 2 /\ two[1] = u1.op /\ two[2] = u2.op
    BY <1>1
  <2>2. PICK m \in Nat : DOMAIN Ops(pay) = 1..m
    BY <1>1, PayType, LenProperties
  <2>3. Ops(pay) \in [1..m -> Created(chain)]
    BY <1>1, <2>2 DEF Ops
  <2>4. Ops(pay) \in Seq(Created(chain)) /\ Len(Ops(pay)) = m
    BY <2>3, FunctionIsSeq
  <2>5. tx.ins = two \o Ops(pay)
    BY DEF MergeTxOf
  <2> HIDE DEF tx, two
  <2>6. /\ two \o Ops(pay) \in Seq(Created(chain))
         /\ Len(two \o Ops(pay)) = Len(two) + Len(Ops(pay))
         /\ \A i \in 1..(Len(two) + Len(Ops(pay))) :
               (two \o Ops(pay))[i] = IF i <= Len(two) THEN two[i] ELSE Ops(pay)[i - Len(two)]
    <3>1. two \in Seq(Created(chain)) /\ Ops(pay) \in Seq(Created(chain))
      BY <2>1, <2>4
    <3> QED BY <3>1, ConcatProperties
  <2>7. /\ tx.ins \in Seq(Created(chain)) /\ Len(tx.ins) = 2 + m
        /\ \A i \in 1..(2 + m) : tx.ins[i] = IF i <= 2 THEN two[i] ELSE Ops(pay)[i - 2]
    BY <2>1, <2>4, <2>5, <2>6
  <2>8. /\ DOMAIN tx.ins = 1..(2 + m)
        /\ \A i \in DOMAIN tx.ins : tx.ins[i] \in Created(chain)
    BY <2>7, LenProperties, ElementOfSeq
  <2>9. /\ tx.ins[1] = u1.op /\ tx.ins[2] = u2.op
        /\ \A i \in 3..(2 + m) : tx.ins[i] = Ops(pay)[i - 2]
    BY <2>1, <2>7
  <2>10. \A i \in 3..(2 + m) : ChainOutput(tx.ins[i]).kind = "p2pkh"
    <3> SUFFICES ASSUME NEW i \in 3..(2 + m)
                 PROVE  ChainOutput(tx.ins[i]).kind = "p2pkh"
      OBVIOUS
    <3>1. i - 2 \in DOMAIN Ops(pay)
      BY <2>2
    <3>2. tx.ins[i] = Ops(pay)[i - 2]
      BY <2>9
    <3>3. ChainOutput(Ops(pay)[i - 2]).kind = "p2pkh"
      BY <1>1, <3>1
    <3> QED BY <3>2, <3>3
  <2> QED BY <2>8, <2>9, <2>10
<1>3. \A k \in DOMAIN tx.outs :
         tx.outs[k].kind = "stas" => tx.outs[k].pkh # tx.outs[k].tok.red
  <2>1. outs \in Seq(Outputs)
    BY <1>1, StasOutputsType DEF UtxoRecords, Outputs
  <2>2. \A k \in DOMAIN outs : outs[k].pkh # outs[k].tok.red
    BY DEF mergeGuards, NotToIssuer, StasOutputs, StasOut
  <2> HIDE DEF outs
  <2>3. tx.outs = outs \o ChangeOutputs(pay)
    BY DEF MergeTxOf, outs
  <2> HIDE DEF tx
  <2> QED BY <1>1, <2>1, <2>2, <2>3, ChangeIsPlain
<1>4. 1 \in DOMAIN tx.unlock /\ tx.unlock[1].type = "merge" /\ tx.unlock[1].other = u2.op
  <2> DEFINE Un(o) == partialStasMergeScript(dests \o ChangeSegments(pay), pay, o.op,
                                             Pieces(chain, o))
  <2>1. tx.unlock = <<Un(u2), Un(u1)>> \o PlainUnlocks(pay)
    BY DEF MergeTxOf
  <2>2. Un(u2).type = "merge" /\ Un(u2).other = u2.op
    BY DEF partialStasMergeScript
  <2>3. PlainUnlocks(pay) \in Seq(Unlocks)
    BY <1>1, PayType
  <2> HIDE DEF tx, Un
  <2> QED BY <2>1, <2>2, <2>3, PairHead
<1> HIDE DEF tx
<1>5. SpentTokens(chain, tx) = {1, 2}
  <2>1. ASSUME NEW i \in DOMAIN tx.ins
        PROVE  ChainOutput(tx.ins[i]).kind = "stas" <=> i \in {1, 2}
    <3>1. CASE i \in {1, 2}
      BY <1>1, <1>2, <3>1
    <3>2. CASE i \notin {1, 2}
      BY <1>2, <3>2
    <3> QED BY <3>1, <3>2
  <2>2. 1 \in DOMAIN tx.ins /\ 2 \in DOMAIN tx.ins
    BY <1>2
  <2> QED BY <2>1, <2>2, Zenon DEF SpentTokens, OutputOf, ChainOutput
<1>6. SpendsFirst(chain, tx)
  BY <1>1, <1>2, <1>3, <1>5, <1>4 DEF SpendsFirst, SpendsWhole, OutputOf, ChainOutput
<1>7. Built(chain, tx)
  BY <1>2, <1>5, <1>6 DEF Built
<1> QED BY <1>7 DEF tx

LEMMA IssueTxBuilt ==
  ASSUME chain \in Seq(Txs), NEW u \in Utxos("contract"), NEW info \in Seq(IssueInfos),
         NEW pay \in Payments, NEW isSplittable \in BOOLEAN, NEW symbol \in Symbols,
         issueGuards(u, info, pay, symbol)
  PROVE  Built(chain, issueTx(u, info, pay, isSplittable, symbol))
<1> DEFINE tx == issueTx(u, info, pay, isSplittable, symbol)
           outs == [k \in DOMAIN info |->
                      StasOut(info[k].addr,
                              [red |-> u.out.pkh, symbol |-> symbol,
                               isSplittable |-> isSplittable, data |-> info[k].data],
                              info[k].satoshis)]
<1>1. /\ u \in UtxoRecords /\ u.op \in Created(chain) /\ IsPay(pay)
      /\ u.out = ChainOutput(u.op) /\ u.out.kind = "contract"
      /\ u.out.tok.symbol = symbol /\ ChangeCovered(pay)
      /\ \A i \in DOMAIN Ops(pay) : /\ Ops(pay)[i] \in Created(chain)
                                    /\ ChainOutput(Ops(pay)[i]).kind = "p2pkh"
  BY UtxosType DEF issueGuards
<1>2. /\ tx.ins[1] = u.op /\ 1 \in DOMAIN tx.ins
      /\ \A i \in DOMAIN tx.ins : /\ tx.ins[i] \in Created(chain)
                                  /\ ChainOutput(tx.ins[i]).kind # "stas"
  <2> DEFINE Plain == {op \in Created(chain) : ChainOutput(op).kind # "stas"}
  <2>1. u.op \in Plain
    BY <1>1
  <2>2. <<u.op>> \in Seq(Plain) /\ Len(<<u.op>>) = 1 /\ <<u.op>>[1] = u.op
    BY <2>1, SingletonSeq
  <2>3. PICK m \in Nat : DOMAIN Ops(pay) = 1..m
    BY <1>1, PayType, LenProperties
  <2>4. Ops(pay) \in [1..m -> Plain]
    BY <1>1, <2>3 DEF Ops
  <2>5. tx.ins = <<u.op>> \o Ops(pay)
    BY DEF issueTx
  <2> HIDE DEF tx, Plain
  <2>6. Ops(pay) \in Seq(Plain) /\ Len(Ops(pay)) = m
    BY <2>4, FunctionIsSeq
  <2>7. tx.ins \in Seq(Plain) /\ Len(tx.ins) = 1 + m /\ tx.ins[1] = u.op
    BY <2>2, <2>5, <2>6, ConcatProperties
  <2>8. 1 \in DOMAIN tx.ins /\ \A i \in DOMAIN tx.ins : tx.ins[i] \in Plain
    BY <2>7, LenProperties, ElementOfSeq
  <2> QED BY <2>7, <2>8 DEF Plain
<1>3. FromContract(chain, tx)
  <2>1. PICK n \in Nat : DOMAIN info = 1..n /\ \A k \in 1..n : info[k] \in IssueInfos
    BY LenProperties, ElementOfSeq
  <2>2. outs \in [1..n -> Outputs]
    BY <1>1, <2>1 DEF StasOut, Outputs, IssueInfos, UtxoRecords, Tokens
  <2>3. /\ outs \in Seq(Outputs)
        /\ \A k \in DOMAIN outs : /\ outs[k].tok.red = u.out.pkh
                                  /\ outs[k].tok.symbol = symbol
    BY <2>1, <2>2, FunctionIsSeq DEF StasOut
  <2> HIDE DEF outs
  <2>4. tx.outs = outs \o ChangeOutputs(pay)
    BY DEF issueTx, outs
  <2> HIDE DEF tx
  <2>5. ASSUME NEW k \in DOMAIN tx.outs, tx.outs[k].kind = "stas"
        PROVE  tx.outs[k].tok.red = u.out.pkh /\ tx.outs[k].tok.symbol = symbol
    BY <1>1, <2>3, <2>4, <2>5, ChangeIsPlain
  <2> QED BY <1>1, <1>2, <2>5 DEF FromContract, OutputOf, ChainOutput
<1> HIDE DEF tx
<1>4. SpentTokens(chain, tx) = {}
  BY <1>2 DEF SpentTokens, OutputOf, ChainOutput
<1>5. Built(chain, tx)
  BY <1>2, <1>3, <1>4 DEF Built
<1> QED BY <1>5 DEF tx

LEMMA ContractTxBuilt ==
  ASSUME chain \in Seq(Txs), NEW inputs \in Seq(Utxos("p2pkh")), inputs # <<>>,
         NEW pay \in Payments, NEW symbol, NEW data, NEW amount
  PROVE  Built(chain, contractTx(inputs, pay, symbol, data, amount))
<1> DEFINE tx == contractTx(inputs, pay, symbol, data, amount)
           Plain == {op \in Created(chain) : ChainOutput(op).kind # "stas"}
<1>1. PICK n \in Nat : DOMAIN inputs = 1..n /\ n > 0
                       /\ \A i \in 1..n : inputs[i] \in Utxos("p2pkh")
  BY LenProperties, ElementOfSeq, EmptySeq
<1>2. Ops(inputs) \in [1..n -> Plain]
  BY <1>1, UtxosType DEF Ops
<1>3. PICK m \in Nat : DOMAIN Ops(pay) = 1..m
  BY PayType, UtxosType, LenProperties
<1>4. Ops(pay) \in [1..m -> Plain]
  BY <1>3, UtxosType DEF Ops
<1>5. tx.ins = Ops(inputs) \o Ops(pay)
  BY DEF contractTx
<1>6. \A k \in DOMAIN tx.outs : tx.outs[k].kind # "stas"
  BY DEF contractTx, contractChange, P2pkhOut
<1> HIDE DEF tx, Plain
<1>7. /\ Ops(inputs) \in Seq(Plain) /\ Len(Ops(inputs)) = n
      /\ Ops(pay) \in Seq(Plain) /\ Len(Ops(pay)) = m
  BY <1>2, <1>4, FunctionIsSeq
<1>8. tx.ins \in Seq(Plain) /\ Len(tx.ins) = n + m
  BY <1>5, <1>7, ConcatProperties
<1>9. tx.ins # <<>> /\ \A i \in DOMAIN tx.ins : tx.ins[i] \in Plain
  BY <1>1, <1>8, LenProperties, ElementOfSeq, EmptySeq
<1>10. SpentTokens(chain, tx) = {}
  BY <1>9 DEF SpentTokens, OutputOf, ChainOutput, Plain
<1>11. Built(chain, tx)
  BY <1>6, <1>9, <1>10 DEF Built, FromContract, Plain
<1> QED BY <1>11 DEF tx

-----------------------------------------------------------------------------
(* A longer chain *)

\* Inputs name outputs that exist, so an older transaction reads the same on
\* every longer chain.
InputsExist ==
    \A t \in DOMAIN chain : \A i \in DOMAIN chain[t].ins : chain[t].ins[i] \in Created(chain)

\* The outputs that were there stay in their places.
LEMMA ConfirmEffect ==
  ASSUME chain \in Seq(Txs), NEW tx \in BuiltTxs, AddToChain(tx)
  PROVE  /\ chain' \in Seq(Txs)
         /\ Len(chain) + 1 \in DOMAIN chain'
         /\ chain'[Len(chain) + 1] = [ins |-> tx.ins, outs |-> tx.outs]
         /\ \A t \in DOMAIN chain : chain'[t] = chain[t]
         /\ \A op \in Created(chain) : /\ op \in Created(chain')
                                       /\ op.txid \in DOMAIN chain
                                       /\ chain'[op.txid] = chain[op.txid]
                                       /\ OutputOf(chain', op) = OutputOf(chain, op)
         /\ Created(chain') = Created(chain) \cup
               {[txid |-> Len(chain) + 1, vout |-> k - 1] : k \in DOMAIN tx.outs}
<1> DEFINE rec == [ins |-> tx.ins, outs |-> tx.outs]
           new == Len(chain) + 1
<1>1. rec \in Txs /\ chain \in Seq(Txs)
  BY DEF BuiltTxs, Txs
<1>2. chain' = Append(chain, rec)
  BY DEF AddToChain
<1>3. /\ chain' \in Seq(Txs) /\ Len(chain') = new /\ chain'[new] = rec
      /\ \A t \in 1..Len(chain) : chain'[t] = chain[t]
  BY <1>1, <1>2, AppendProperties
<1>4. DOMAIN chain' = 1..new /\ DOMAIN chain = 1..Len(chain) /\ Len(chain) \in Nat
  BY <1>1, <1>3, LenProperties
<1>5. \A op \in Created(chain) : /\ op \in Created(chain')
                                 /\ op.txid \in DOMAIN chain
                                 /\ chain'[op.txid] = chain[op.txid]
                                 /\ OutputOf(chain', op) = OutputOf(chain, op)
  BY <1>1, <1>2, AppendKeepsOutputs, CreatedType DEF OutputOf
<1>6. Created(chain') = Created(chain) \cup
         {[txid |-> new, vout |-> k - 1] : k \in DOMAIN tx.outs}
  <2> DEFINE Places(t, outs) == {[txid |-> t, vout |-> k - 1] : k \in DOMAIN outs}
  <2>1. Created(chain') = UNION {Places(t, chain'[t].outs) : t \in DOMAIN chain'}
        /\ Created(chain) = UNION {Places(t, chain[t].outs) : t \in DOMAIN chain}
    BY DEF Created
  <2>2. DOMAIN chain' = DOMAIN chain \cup {new}
    BY <1>4
  <2>3. \A t \in DOMAIN chain : chain'[t] = chain[t]
    BY <1>3, <1>4
  <2>4. chain'[new].outs = tx.outs
    BY <1>3
  <2> HIDE DEF Places, new
  <2>5. Created(chain') = Created(chain) \cup Places(new, tx.outs)
    BY <2>1, <2>2, <2>3, <2>4
  <2> QED BY <2>5 DEF Places
<1>7. new \in DOMAIN chain' /\ \A t \in DOMAIN chain : chain'[t] = chain[t]
  BY <1>3, <1>4
<1> QED BY <1>3, <1>5, <1>6, <1>7

LEMMA LongerChain ==
  ASSUME chain \in Seq(Txs), NEW tx \in BuiltTxs, AddToChain(tx)
  PROVE  DOMAIN chain' = DOMAIN chain \cup {Len(chain) + 1}
<1>1. [ins |-> tx.ins, outs |-> tx.outs] \in Txs
  BY DEF BuiltTxs, Txs
<1>2. chain' \in Seq(Txs) /\ Len(chain') = Len(chain) + 1
  BY <1>1, AppendProperties DEF AddToChain
<1> QED BY <1>2, LenProperties

LEMMA InputsStayOnChain ==
  ASSUME chain \in Seq(Txs), InputsExist,
         NEW tx \in BuiltTxs, Built(chain, tx), AddToChain(tx)
  PROVE  InputsExist'
<1> DEFINE last == Len(chain) + 1
<1>1. /\ chain'[last] = [ins |-> tx.ins, outs |-> tx.outs]
      /\ \A t \in DOMAIN chain : chain'[t] = chain[t]
      /\ \A op \in Created(chain) : op \in Created(chain')
  BY ConfirmEffect
<1>2. DOMAIN chain' = DOMAIN chain \cup {last}
  BY LongerChain
<1> HIDE DEF last
<1>3. ASSUME NEW t \in DOMAIN chain', NEW i \in DOMAIN chain'[t].ins
      PROVE  chain'[t].ins[i] \in Created(chain')
  <2>1. CASE t \in DOMAIN chain
    BY <1>1, <1>3, <2>1 DEF InputsExist
  <2>2. CASE t = last
    BY <1>1, <1>3, <2>2 DEF Built
  <2> QED BY <1>2, <2>1, <2>2
<1> QED BY <1>3 DEF InputsExist

LEMMA SpendsSame ==
  ASSUME chain \in Seq(Txs), NEW tx \in BuiltTxs, AddToChain(tx),
         NEW other, \A i \in DOMAIN other.ins : other.ins[i] \in Created(chain)
  PROVE  SpentTokens(chain', other) = SpentTokens(chain, other)
<1>1. \A i \in DOMAIN other.ins :
         OutputOf(chain', other.ins[i]) = OutputOf(chain, other.ins[i])
  BY ConfirmEffect
<1> QED BY <1>1 DEF SpentTokens

\* A transaction that was built before is as good after another one.
LEMMA BuiltStaysBuilt ==
  ASSUME chain \in Seq(Txs), NEW tx \in BuiltTxs, AddToChain(tx),
         NEW other \in BuiltTxs, Built(chain, other)
  PROVE  Built(chain', other)
<1>1. \A i \in DOMAIN other.ins :
          /\ other.ins[i] \in Created(chain')
          /\ OutputOf(chain', other.ins[i]) = OutputOf(chain, other.ins[i])
  BY ConfirmEffect DEF Built
<1>2. SpentTokens(chain', other) = SpentTokens(chain, other)
  BY <1>1 DEF SpentTokens
<1>3. CASE SpentTokens(chain, other) = {}
  <2>1. 1 \in DOMAIN other.ins
    BY LenProperties, EmptySeq DEF Built, BuiltTxs
  <2> QED BY <1>1, <1>2, <1>3, <2>1 DEF Built, FromContract
<1>4. CASE SpentTokens(chain, other) # {}
  <2>1. 1 \in DOMAIN other.ins
    BY <1>4 DEF Built, SpendsFirst, SpentTokens
  <2> QED BY <1>1, <1>2, <1>4, <2>1 DEF Built, SpendsFirst, SpendsWhole
<1> QED BY <1>3, <1>4

-----------------------------------------------------------------------------
(* The outputs that the covenant rebuilds *)

LEMMA CovenantOutputsShape ==
  ASSUME NEW tok, NEW segs, Len(segs) \in Nat, NEW change
  PROVE  /\ \A k \in 1..Len(segs) :
               /\ k \in DOMAIN CovenantOutputs(tok, segs, change)
               /\ CovenantOutputs(tok, segs, change)[k] = CovenantOutput(tok, k, segs[k])
         /\ \A k \in DOMAIN CovenantOutputs(tok, segs, change) :
               CovenantOutputs(tok, segs, change)[k].kind = "stas" =>
                  /\ k \in 1..Len(segs)
                  /\ CovenantOutputs(tok, segs, change)[k].tok = tok
                  /\ CovenantOutputs(tok, segs, change)[k].satoshis = segs[k].satoshis
<1> DEFINE n == Len(segs)
           out == P2pkhOut(change.pkh, change.satoshis)
           T == {CovenantOutput(tok, k, segs[k]) : k \in 1..n} \cup {out}
           main == [k \in 1..n |-> CovenantOutput(tok, k, segs[k])]
           rest == IF change = NilSegment THEN <<>> ELSE <<out>>
           all == CovenantOutputs(tok, segs, change)
<1>1. main \in [1..n -> T] /\ \A k \in 1..n : main[k] = CovenantOutput(tok, k, segs[k])
  OBVIOUS
<1>2. out \in T /\ out.kind = "p2pkh"
  BY DEF P2pkhOut
<1>3. all = main \o rest
  BY DEF CovenantOutputs
<1>4. \A k \in 1..n : main[k].kind = "stas" =>
                          main[k].tok = tok /\ main[k].satoshis = segs[k].satoshis
  BY <1>1 DEF CovenantOutput, P2pkhOut, StasOut
<1>5. CASE rest = <<>>
  <2> HIDE DEF main, all, T, rest, out
  <2>1. main \in Seq(T) /\ Len(main) = n
    BY <1>1, FunctionIsSeq
  <2>2. all = main
    BY <1>3, <1>5, <2>1, ConcatEmptySeq
  <2>3. DOMAIN all = 1..n
    BY <2>1, <2>2, LenProperties
  <2>4. \A k \in 1..n : all[k] = CovenantOutput(tok, k, segs[k])
    BY <1>1, <2>2 DEF main
  <2> QED BY <1>4, <2>2, <2>3, <2>4 DEF all
<1>6. CASE rest = <<out>>
  <2> HIDE DEF main, all, T, rest, out, n
  <2>1. main \in Seq(T) /\ Len(main) = n /\ n \in Nat
    BY <1>1, FunctionIsSeq DEF n
  <2>2. <<out>> \in Seq(T) /\ Len(<<out>>) = 1 /\ <<out>>[1] = out
    BY <1>2, SingletonSeq
  <2>3. all = main \o <<out>>
    BY <1>3, <1>6
  <2>4. all \in Seq(T) /\ Len(all) = n + 1 /\ all[n + 1] = out
        /\ \A k \in 1..n : all[k] = main[k]
    <3>1. all \in Seq(T) /\ Len(all) = n + 1
      BY <2>1, <2>2, <2>3, ConcatProperties
    <3>2. \A k \in 1..n : all[k] = main[k]
      BY <2>1, <2>2, <2>3, ConcatProperties
    <3>3. all[n + 1] = <<out>>[(n + 1) - n] /\ (n + 1) - n = 1
      BY <2>1, <2>2, <2>3, ConcatProperties
    <3> QED BY <2>2, <3>1, <3>2, <3>3
  <2>5. \A k \in 1..n : k \in DOMAIN all /\ all[k] = CovenantOutput(tok, k, segs[k])
    <3>1. DOMAIN all = 1..(n + 1)
      BY <2>4, LenProperties
    <3> QED BY <1>1, <2>1, <2>4, <3>1 DEF main, n
  <2>6. ASSUME NEW k \in DOMAIN all, all[k].kind = "stas" PROVE k \in 1..n
    <3>1. k \in 1..(n + 1)
      BY <2>1, <2>4, LenProperties
    <3>2. k # n + 1
      BY <1>2, <2>4, <2>6
    <3> QED BY <2>1, <3>1, <3>2
  <2> QED BY <1>4, <2>4, <2>5, <2>6 DEF all, n
<1> QED BY <1>5, <1>6

\* Every token output carries on the token of the first input; a token that
\* must not be split goes undivided into one output.
LEMMA CovenantKeepsToken ==
  ASSUME NEW ch, NEW tx, CovenantHolds(ch, tx, 1)
  PROVE  LET prev == OutputOf(ch, tx.ins[1])
         IN /\ \A k \in DOMAIN tx.outs :
                  tx.outs[k].kind = "stas" => tx.outs[k].tok = prev.tok
            /\ ~prev.tok.isSplittable /\ tx.unlock[1].type = "basic"
                 /\ prev.satoshis \in Nat /\ tx.unlock[1].pairs \in Seq(Segments) =>
                  \A k \in DOMAIN tx.outs :
                     tx.outs[k].kind = "stas" =>
                        k = 1 /\ tx.outs[k].satoshis = prev.satoshis
<1> DEFINE prev == OutputOf(ch, tx.ins[1])
           u == tx.unlock[1]
           segs == Front(u.pairs)
           change == Last(u.pairs)
<1>1. /\ Len(segs) \in 1..(IF prev.tok.isSplittable THEN MaxSegments ELSE 1)
      /\ Balanced(segs, prev.satoshis + (IF u.type = "merge"
                                         THEN Utxo(ch, u.other).out.satoshis ELSE 0))
      /\ tx.outs = CovenantOutputs(prev.tok, segs, change)
      /\ \A k \in DOMAIN segs : segs[k].satoshis > 0
  BY DEF CovenantHolds, OutputOf, Utxo
<1> HIDE DEF prev, u, segs, change
<1>2. Len(segs) \in Nat
  BY <1>1 DEF MaxSegments
<1>3. \A k \in DOMAIN tx.outs :
         tx.outs[k].kind = "stas" =>
            /\ k \in 1..Len(segs)
            /\ tx.outs[k].tok = prev.tok /\ tx.outs[k].satoshis = segs[k].satoshis
  <2> DEFINE outs == CovenantOutputs(prev.tok, segs, change)
  <2>1. \A k \in DOMAIN outs :
           outs[k].kind = "stas" =>
              /\ k \in 1..Len(segs)
              /\ outs[k].tok = prev.tok /\ outs[k].satoshis = segs[k].satoshis
    BY <1>2, CovenantOutputsShape
  <2>2. tx.outs = outs
    BY <1>1
  <2> HIDE DEF outs
  <2> QED BY <2>1, <2>2
<1>4. ASSUME ~prev.tok.isSplittable, u.type = "basic", prev.satoshis \in Nat,
             u.pairs \in Seq(Segments),
             NEW k \in DOMAIN tx.outs, tx.outs[k].kind = "stas"
      PROVE  k = 1 /\ tx.outs[k].satoshis = prev.satoshis
  <2>1. Len(segs) = 1
    <3>1. Len(segs) \in 1..1
      BY <1>1, <1>4
    <3> QED BY <3>1
  <2>2. k = 1 /\ tx.outs[1].satoshis = segs[1].satoshis
    BY <1>3, <1>4, <2>1
  <2>3. segs \in Seq(Segments)
    <3> DEFINE n == Len(u.pairs) - 1
    <3>1. n \in Int /\ n + 1 = Len(u.pairs) /\ segs = SubSeq(u.pairs, 1, n)
      BY <1>4, LenProperties DEF segs, Front
    <3>2. \A j \in 1..n : u.pairs[j] \in Segments
      BY <1>4, <3>1, ElementOfSeq
    <3> QED BY <1>4, <3>1, <3>2, SubSeqProperties
  <2>4. DOMAIN segs = 1..1 /\ segs[1].satoshis \in Nat
    <3>1. DOMAIN segs = 1..1
      BY <2>1, <2>3, LenProperties
    <3>2. segs[1] \in Segments
      <4>1. 1 \in 1..Len(segs)
        BY <2>1
      <4> QED BY <2>3, <4>1, ElementOfSeq
    <3> QED BY <3>1, <3>2 DEF Segments
  <2>5. SegmentTotal(segs) = segs[1].satoshis
    BY <2>4 DEF SegmentTotal
  <2>6. SegmentTotal(segs) = prev.satoshis
    BY <1>1, <1>4 DEF Balanced
  <2> QED BY <2>2, <2>5, <2>6
<1>5. \A k \in DOMAIN tx.outs :
         tx.outs[k].kind = "stas" => tx.outs[k].tok = prev.tok
  BY <1>3
<1> QED BY <1>4, <1>5 DEF prev, u

-----------------------------------------------------------------------------
(* What a transaction pays to the miner *)
(* Builders do not compare the destinations with the token input, so what   *)
(* holds of a transaction that a call has built is only that its fee would  *)
(* be right if its segments added up; that they do is what the covenant     *)
(* checks before the node takes it.                                         *)

\* The outputs that a list of outpoints names.
Ins(ch, ops) == [i \in DOMAIN ops |-> OutputOf(ch, ops[i])]

\* What a transaction leaves to the miner.
Paid(ch, tx) == SumSatoshis(Ins(ch, tx.ins)) - SumSatoshis(tx.outs)

\* What the covenant expects the segments of the first input to add up to.
TokenValue(ch, tx) ==
    OutputOf(ch, tx.ins[1]).satoshis
      + (IF tx.unlock[1].type = "merge"
           THEN OutputOf(ch, tx.unlock[1].other).satoshis ELSE 0)

\* A transaction that spends no token pays the fee or nothing.
PlainSound(ch, tx) == Paid(ch, tx) \in {0, Fee}

\* One that spends a token does so if its segments add up.
TokenSound(ch, tx) ==
    LET segs == Front(tx.unlock[1].pairs)
    IN /\ segs \in Seq(Segments)
       /\ tx.unlock[1].type = "merge" => tx.unlock[1].other \in Created(ch)
       /\ Paid(ch, tx) + (SumSatoshis(segs) - TokenValue(ch, tx)) \in {0, Fee}

Sound(ch, tx) ==
    /\ SpentTokens(ch, tx) = {} => PlainSound(ch, tx)
    /\ SpentTokens(ch, tx) # {} => TokenSound(ch, tx)

LEMMA InsType ==
  ASSUME NEW ch \in Seq(Txs), NEW a \in Seq(Created(ch))
  PROVE  /\ Ins(ch, a) \in Seq(Outputs) /\ Len(Ins(ch, a)) = Len(a)
         /\ \A i \in 1..Len(a) : Ins(ch, a)[i] = OutputOf(ch, a[i])
         /\ SumSatoshis(Ins(ch, a)) \in Nat
<1>1. /\ Len(a) \in Nat /\ DOMAIN a = 1..Len(a)
      /\ \A i \in 1..Len(a) : a[i] \in Created(ch)
  BY LenProperties, ElementOfSeq
<1>2. \A i \in 1..Len(a) : OutputOf(ch, a[i]) \in Outputs
  BY <1>1, CreatedType DEF OutputOf
<1>3. Ins(ch, a) \in [1..Len(a) -> Outputs]
  BY <1>1, <1>2 DEF Ins
<1>4. Ins(ch, a) \in Seq(Outputs) /\ Len(Ins(ch, a)) = Len(a)
  BY <1>1, <1>3, FunctionIsSeq
<1>5. \A x \in Outputs : x.satoshis \in Nat
  BY DEF Outputs
<1>6. \A i \in 1..Len(a) : Ins(ch, a)[i] = OutputOf(ch, a[i])
  BY <1>1 DEF Ins
<1> QED BY <1>4, <1>5, <1>6, SumSatoshisType

LEMMA InsConcat ==
  ASSUME NEW ch \in Seq(Txs), NEW a \in Seq(Created(ch)), NEW b \in Seq(Created(ch))
  PROVE  SumSatoshis(Ins(ch, a \o b))
           = SumSatoshis(Ins(ch, a)) + SumSatoshis(Ins(ch, b))
<1> DEFINE c == a \o b
           IA == Ins(ch, a)
           IB == Ins(ch, b)
           IC == Ins(ch, c)
<1>1. /\ c \in Seq(Created(ch)) /\ Len(c) = Len(a) + Len(b)
      /\ \A i \in 1..Len(a) : c[i] = a[i]
      /\ \A i \in (Len(a) + 1)..(Len(a) + Len(b)) : c[i] = b[i - Len(a)]
  BY ConcatProperties
<1>2. /\ IA \in Seq(Outputs) /\ Len(IA) = Len(a)
      /\ \A i \in 1..Len(a) : IA[i] = OutputOf(ch, a[i])
      /\ IB \in Seq(Outputs) /\ Len(IB) = Len(b)
      /\ \A i \in 1..Len(b) : IB[i] = OutputOf(ch, b[i])
  BY InsType
<1>3. /\ IC \in Seq(Outputs) /\ Len(IC) = Len(c)
      /\ \A i \in 1..Len(c) : IC[i] = OutputOf(ch, c[i])
  BY <1>1, InsType
<1>4. Len(a) \in Nat /\ Len(b) \in Nat
  BY LenProperties
<1> HIDE DEF c, IA, IB, IC
<1>5. /\ IA \o IB \in Seq(Outputs) /\ Len(IA \o IB) = Len(a) + Len(b)
      /\ \A i \in 1..Len(a) : (IA \o IB)[i] = IA[i]
      /\ \A i \in (Len(a) + 1)..(Len(a) + Len(b)) : (IA \o IB)[i] = IB[i - Len(a)]
  <2>1. /\ IA \o IB \in Seq(Outputs) /\ Len(IA \o IB) = Len(IA) + Len(IB)
        /\ \A i \in 1..(Len(IA) + Len(IB)) :
              (IA \o IB)[i] = IF i <= Len(IA) THEN IA[i] ELSE IB[i - Len(IA)]
    <3>1. IA \in Seq(Outputs) /\ IB \in Seq(Outputs)
      BY <1>2
    <3> QED BY <3>1, ConcatProperties
  <2> QED BY <1>2, <1>4, <2>1
<1>6. ASSUME NEW i \in 1..(Len(a) + Len(b)) PROVE IC[i].satoshis = (IA \o IB)[i].satoshis
  <2>0. i \in 1..Len(c)
    BY <1>1
  <2>1. CASE i \in 1..Len(a)
    <3>1. (IA \o IB)[i] = OutputOf(ch, a[i])
      BY <1>2, <1>5, <2>1
    <3>2. IC[i] = OutputOf(ch, a[i])
      BY <1>1, <1>3, <2>0, <2>1
    <3> QED BY <3>1, <3>2
  <2>2. CASE i \in (Len(a) + 1)..(Len(a) + Len(b))
    <3>1. i - Len(a) \in 1..Len(b)
      BY <1>4, <2>2
    <3>2. (IA \o IB)[i] = OutputOf(ch, b[i - Len(a)])
      BY <1>2, <1>5, <2>2, <3>1
    <3>3. IC[i] = OutputOf(ch, b[i - Len(a)])
      BY <1>1, <1>3, <2>0, <2>2
    <3> QED BY <3>2, <3>3
  <2>3. i \in 1..Len(a) \/ i \in (Len(a) + 1)..(Len(a) + Len(b))
    <3> QED BY <1>4, SMT
  <2> QED BY <2>1, <2>2, <2>3
<1>7. SumSatoshis(IC) = SumSatoshis(IA \o IB)
  BY <1>1, <1>3, <1>5, <1>6, SumOfSameAmounts
<1>8. \A x \in Outputs : x.satoshis \in Nat
  BY DEF Outputs
<1>9. SumSatoshis(IA \o IB) = SumSatoshis(IA) + SumSatoshis(IB)
  BY <1>2, <1>8, SumOfConcat
<1> QED BY <1>7, <1>9 DEF c, IA, IB, IC

\* UTXO records that callers took from the chain.
FromChain(ch, utxos) ==
    \A i \in DOMAIN utxos :
        utxos[i].op \in Created(ch) /\ utxos[i].out = OutputOf(ch, utxos[i].op)

LEMMA UtxosSum ==
  ASSUME NEW ch \in Seq(Txs), NEW utxos \in Seq(UtxoRecords), FromChain(ch, utxos)
  PROVE  /\ Ops(utxos) \in Seq(Created(ch))
         /\ SumSatoshis(Ins(ch, Ops(utxos))) = SumSatoshis(Outs(utxos))
         /\ SumSatoshis(Outs(utxos)) \in Nat
<1>1. Len(utxos) \in Nat /\ DOMAIN utxos = 1..Len(utxos)
  BY LenProperties
<1>2. Ops(utxos) \in [1..Len(utxos) -> Created(ch)]
  BY <1>1 DEF Ops, FromChain
<1>3. Ops(utxos) \in Seq(Created(ch))
  BY <1>1, <1>2, FunctionIsSeq
<1>4. Ins(ch, Ops(utxos)) = Outs(utxos)
  BY <1>1 DEF Ins, Ops, Outs, FromChain
<1> QED BY <1>3, <1>4, UtxoSeqType

LEMMA PaymentsFromChain ==
  ASSUME chain \in Seq(Txs)
  PROVE  /\ \A kind : \A u \in Utxos(kind) :
               /\ u \in UtxoRecords
               /\ u.op \in Created(chain) /\ u.out = OutputOf(chain, u.op)
         /\ \A pay \in Payments :
               pay \in Seq(UtxoRecords) /\ IsPay(pay) /\ FromChain(chain, pay)
<1>1. \A kind : \A u \in Utxos(kind) :
         /\ u \in UtxoRecords
         /\ u.op \in Created(chain) /\ u.out = OutputOf(chain, u.op)
  BY UtxosType DEF ChainOutput, OutputOf
<1>2. ASSUME NEW pay \in Payments
      PROVE  pay \in Seq(UtxoRecords) /\ IsPay(pay) /\ FromChain(chain, pay)
  <2>1. IsPay(pay)
    BY UtxosType
  <2>2. pay \in Seq(UtxoRecords)
    BY <2>1, PayType
  <2>3. CASE pay = <<>>
    BY <2>1, <2>2, <2>3 DEF FromChain
  <2>4. ASSUME NEW u \in Utxos("p2pkh"), pay = <<u>>
        PROVE  FromChain(chain, pay)
    <3>1. u.op \in Created(chain) /\ u.out = OutputOf(chain, u.op)
      BY <1>1
    <3> QED BY <2>4, <3>1 DEF FromChain
  <2> QED BY <2>1, <2>2, <2>3, <2>4 DEF Payments
<1> QED BY <1>1, <1>2

\* The change is what the payment holds, less the fee.
LEMMA ChangePays ==
  ASSUME NEW pay, IsPay(pay), ChangeCovered(pay)
  PROVE  /\ SumSatoshis(ChangeOutputs(pay)) \in Nat
         /\ SumSatoshis(Outs(pay)) \in Nat
         /\ SumSatoshis(Outs(pay)) - SumSatoshis(ChangeOutputs(pay)) \in {0, Fee}
<1>1. SumSatoshis(Outs(pay)) \in Nat /\ Fee \in Nat
  BY PayType, FeeAssumption
<1>2. CASE pay = <<>>
  <2>1. Outs(pay) = <<>> /\ ChangeOutputs(pay) = <<>>
    BY <1>2 DEF Outs, ChangeOutputs
  <2> QED BY <2>1, SumOfShort
<1>3. CASE pay # <<>>
  <2> DEFINE change == P2pkhOut(pay[1].out.pkh, ChangeSatoshis(pay))
  <2>1. ChangeOutputs(pay) = <<change>>
    BY <1>3 DEF ChangeOutputs
  <2>2. /\ change.satoshis = SumSatoshis(Outs(pay)) - Fee
        /\ change.satoshis \in Nat
    BY <1>1, <1>3 DEF P2pkhOut, ChangeSatoshis, ChangeCovered
  <2> HIDE DEF change
  <2>3. SumSatoshis(ChangeOutputs(pay)) = change.satoshis
    BY <2>1, <2>2, SumOfShort
  <2> QED BY <1>1, <2>2, <2>3
<1> QED BY <1>2, <1>3

\* The segments that a script carries besides the change.
LEMMA SegmentsOfUnlock ==
  ASSUME NEW pay, IsPay(pay), ChangeCovered(pay), NEW segments \in Seq(Segments)
  PROVE  LET all == segments \o ChangeSegments(pay)
         IN Front(IF pay = <<>> THEN Append(all, NilSegment) ELSE all) = segments
<1>1. NilSegment \in Segments
  BY DEF NilSegment, Segment, Segments
<1>2. CASE pay = <<>>
  <2>1. segments \o ChangeSegments(pay) = segments
    BY <1>2, ConcatEmptySeq DEF ChangeSegments
  <2> QED BY <1>1, <1>2, <2>1, FrontOfAppend
<1>3. CASE pay # <<>>
  <2> DEFINE seg == Segment(pay[1].out.pkh, ChangeSatoshis(pay))
  <2>1. ChangeSegments(pay) = <<seg>>
    BY <1>3 DEF ChangeSegments
  <2>2. seg \in Segments
    <3>1. pay[1].out.pkh \in Keys
      BY <1>3 DEF IsPay, UtxoRecords, Outputs
    <3>2. ChangeSatoshis(pay) \in Nat
      BY <1>3, PayType, FeeAssumption DEF ChangeSatoshis, ChangeCovered
    <3> QED BY <3>1, <3>2 DEF Segment, Segments
  <2> HIDE DEF seg
  <2> QED BY <1>3, <2>1, <2>2, FrontOfAppend
<1> QED BY <1>2, <1>3

\* What is left when segments account for the tokens is left of the payment.
LEMMA RestOfPayment ==
  ASSUME NEW value \in Nat, NEW segs \in Nat, NEW brought \in Nat, NEW change \in Nat,
         brought - change \in {0, Fee}
  PROVE  ((value + brought) - (segs + change)) + (segs - value) \in {0, Fee}
<1>1. ((value + brought) - (segs + change)) + (segs - value) = brought - change
  OBVIOUS
<1> QED BY <1>1

LEMMA BasicTxSound ==
  ASSUME chain \in Seq(Txs), NEW u \in Utxos("stas"), NEW pay \in Payments, ChangeCovered(pay),
         NEW outs \in Seq(Outputs), NEW segments \in Seq(Segments),
         SumSatoshis(outs) = SumSatoshis(segments)
  PROVE  Sound(chain, BasicTx(u, outs, segments, pay))
<1> DEFINE tx == BasicTx(u, outs, segments, pay)
           all == segments \o ChangeSegments(pay)
           un == partialSTASUnlockingScript(all, pay)
<1>1. chain \in Seq(Txs)
  OBVIOUS
<1>2. /\ u.op \in Created(chain) /\ u.out = OutputOf(chain, u.op)
      /\ u.out.satoshis \in Nat /\ u.out.kind = "stas"
      /\ IsPay(pay) /\ pay \in Seq(UtxoRecords) /\ FromChain(chain, pay)
  <2>1. u.out.kind = "stas"
    BY <1>1, UtxosType
  <2> QED BY <1>1, <2>1, PaymentsFromChain DEF UtxoRecords, Outputs
<1>3. /\ Ops(pay) \in Seq(Created(chain))
      /\ SumSatoshis(Ins(chain, Ops(pay))) = SumSatoshis(Outs(pay))
  BY <1>1, <1>2, UtxosSum
<1>4. SumSatoshis(Ins(chain, tx.ins)) = u.out.satoshis + SumSatoshis(Outs(pay))
  <2>1. <<u.op>> \in Seq(Created(chain))
    BY <1>2, SingletonSeq
  <2>2. Ins(chain, <<u.op>>) = <<u.out>>
    BY <1>2 DEF Ins
  <2>3. SumSatoshis(Ins(chain, <<u.op>>)) = u.out.satoshis
    BY <1>2, <2>2, SumOfShort
  <2>4. SumSatoshis(Ins(chain, <<u.op>> \o Ops(pay)))
          = SumSatoshis(Ins(chain, <<u.op>>)) + SumSatoshis(Ins(chain, Ops(pay)))
    BY <1>1, <1>3, <2>1, InsConcat
  <2>5. tx.ins = <<u.op>> \o Ops(pay)
    BY DEF BasicTx
  <2> QED BY <1>3, <2>3, <2>4, <2>5
<1>5. SumSatoshis(tx.outs) = SumSatoshis(outs) + SumSatoshis(ChangeOutputs(pay))
  <2>1. \A x \in Outputs : x.satoshis \in Nat
    BY DEF Outputs
  <2>2. tx.outs = outs \o ChangeOutputs(pay)
    BY DEF BasicTx
  <2> HIDE DEF tx
  <2> QED BY <1>2, <2>1, <2>2, ChangeType, SumOfConcat
<1>6. tx.ins[1] = u.op /\ 1 \in DOMAIN tx.ins
  <2>1. tx.ins = <<u.op>> \o Ops(pay)
    BY DEF BasicTx
  <2> HIDE DEF tx
  <2> QED BY <1>3, <2>1, SeqHead
<1>7. tx.unlock[1] = un
  <2>1. tx.unlock = <<un>> \o PlainUnlocks(pay)
    BY DEF BasicTx
  <2>2. PlainUnlocks(pay) \in Seq(Unlocks)
    BY <1>2, PayType
  <2> HIDE DEF tx, un
  <2> QED BY <2>1, <2>2, SeqHead
<1>8. un.type = "basic" /\ Front(un.pairs) = segments
  <2>1. /\ un.type = "basic"
        /\ un.pairs = IF pay = <<>> THEN Append(all, NilSegment) ELSE all
    BY DEF partialSTASUnlockingScript
  <2> HIDE DEF un
  <2> QED BY <1>2, <2>1, SegmentsOfUnlock
<1>9. /\ SumSatoshis(ChangeOutputs(pay)) \in Nat /\ SumSatoshis(Outs(pay)) \in Nat
      /\ SumSatoshis(Outs(pay)) - SumSatoshis(ChangeOutputs(pay)) \in {0, Fee}
  BY <1>2, ChangePays
<1>10. SumSatoshis(segments) \in Nat
  <2>1. \A x \in Segments : x.satoshis \in Nat
    BY DEF Segments
  <2> QED BY <2>1, SumSatoshisType
<1> HIDE DEF tx, un, all
<1>11. TokenValue(chain, tx) = u.out.satoshis
  BY <1>2, <1>6, <1>7, <1>8 DEF TokenValue
<1>12. Paid(chain, tx) + (SumSatoshis(segments) - TokenValue(chain, tx)) \in {0, Fee}
  <2> DEFINE brought == SumSatoshis(Outs(pay))
             change == SumSatoshis(ChangeOutputs(pay))
             value == u.out.satoshis
             segs == SumSatoshis(segments)
  <2>1. Paid(chain, tx) = (value + brought) - (segs + change)
    BY <1>4, <1>5 DEF Paid
  <2>2. /\ value \in Nat /\ segs \in Nat /\ brought \in Nat /\ change \in Nat
        /\ brought - change \in {0, Fee} /\ TokenValue(chain, tx) = value
    BY <1>2, <1>9, <1>10, <1>11
  <2> HIDE DEF brought, change, value, segs
  <2>3. ((value + brought) - (segs + change)) + (segs - value) \in {0, Fee}
    BY <2>2, RestOfPayment
  <2> QED BY <2>1, <2>2, <2>3 DEF segs
<1>13. TokenSound(chain, tx)
  BY <1>7, <1>8, <1>12 DEF TokenSound
<1>14. SpentTokens(chain, tx) # {}
  BY <1>2, <1>6 DEF SpentTokens
<1> QED BY <1>13, <1>14 DEF Sound, tx

\* The token outputs hold what their destinations say.
LEMMA StasOutputsSum ==
  ASSUME NEW tok \in Tokens \cup {NoTok}, NEW dests \in Seq(Destinations)
  PROVE  SumSatoshis(StasOutputs(tok, dests)) = SumSatoshis(dests)
<1>1. Len(dests) \in Nat /\ DOMAIN dests = 1..Len(dests)
  BY LenProperties
<1>2. StasOutputs(tok, dests) \in Seq(Outputs)
  BY StasOutputsType
<1>3. /\ DOMAIN StasOutputs(tok, dests) = 1..Len(dests)
      /\ \A i \in 1..Len(dests) :
            StasOutputs(tok, dests)[i].satoshis = dests[i].satoshis
  BY <1>1 DEF StasOutputs, StasOut
<1>4. Len(StasOutputs(tok, dests)) = Len(dests)
  BY <1>1, <1>2, <1>3, LenProperties
<1> QED BY <1>2, <1>3, <1>4, SumOfSameAmounts

LEMMA MergeTxSound ==
  ASSUME chain \in Seq(Txs), NEW u1 \in Utxos("stas"), NEW u2 \in Utxos("stas"),
         NEW pay \in Payments, ChangeCovered(pay), NEW dests \in Seq(Destinations)
  PROVE  Sound(chain, MergeTxOf(chain, u1, u2, dests, pay))
<1> DEFINE tx == MergeTxOf(chain, u1, u2, dests, pay)
           all == dests \o ChangeSegments(pay)
           un == partialStasMergeScript(all, pay, u2.op, Pieces(chain, u2))
           un2 == partialStasMergeScript(all, pay, u1.op, Pieces(chain, u1))
           outs == StasOutputs(u1.out.tok, dests)
<1>1. chain \in Seq(Txs)
  OBVIOUS
<1>2. /\ u1.op \in Created(chain) /\ u1.out = OutputOf(chain, u1.op)
      /\ u1.out.satoshis \in Nat /\ u1.out.kind = "stas"
      /\ u1.out.tok \in Tokens \cup {NoTok}
      /\ u2.op \in Created(chain) /\ u2.out = OutputOf(chain, u2.op)
      /\ u2.out.satoshis \in Nat
      /\ IsPay(pay) /\ pay \in Seq(UtxoRecords) /\ FromChain(chain, pay)
  <2>1. u1.out.kind = "stas"
    BY <1>1, UtxosType
  <2> QED BY <1>1, <2>1, PaymentsFromChain DEF UtxoRecords, Outputs
<1>3. /\ Ops(pay) \in Seq(Created(chain))
      /\ SumSatoshis(Ins(chain, Ops(pay))) = SumSatoshis(Outs(pay))
  BY <1>1, <1>2, UtxosSum
<1>4. SumSatoshis(Ins(chain, <<u1.op, u2.op>>)) = u1.out.satoshis + u2.out.satoshis
  <2>1. <<u1.op>> \in Seq(Created(chain)) /\ <<u2.op>> \in Seq(Created(chain))
    BY <1>2, SingletonSeq
  <2>2. Ins(chain, <<u1.op>>) = <<u1.out>> /\ Ins(chain, <<u2.op>>) = <<u2.out>>
    BY <1>2 DEF Ins
  <2>3. <<u1.op, u2.op>> = <<u1.op>> \o <<u2.op>>
    BY <1>2, PairIsConcat
  <2>4. SumSatoshis(Ins(chain, <<u1.op>> \o <<u2.op>>))
          = SumSatoshis(Ins(chain, <<u1.op>>)) + SumSatoshis(Ins(chain, <<u2.op>>))
    BY <1>1, <2>1, InsConcat
  <2>5. /\ SumSatoshis(Ins(chain, <<u1.op>>)) = u1.out.satoshis
        /\ SumSatoshis(Ins(chain, <<u2.op>>)) = u2.out.satoshis
    BY <1>2, <2>2, SumOfShort
  <2> QED BY <2>3, <2>4, <2>5
<1>5. SumSatoshis(Ins(chain, tx.ins))
        = (u1.out.satoshis + u2.out.satoshis) + SumSatoshis(Outs(pay))
  <2>1. <<u1.op, u2.op>> \in Seq(Created(chain))
    BY <1>2
  <2>2. SumSatoshis(Ins(chain, <<u1.op, u2.op>> \o Ops(pay)))
          = SumSatoshis(Ins(chain, <<u1.op, u2.op>>)) + SumSatoshis(Ins(chain, Ops(pay)))
    BY <1>1, <1>3, <2>1, InsConcat
  <2>3. tx.ins = <<u1.op, u2.op>> \o Ops(pay)
    BY DEF MergeTxOf
  <2> QED BY <1>3, <1>4, <2>2, <2>3
<1>6. SumSatoshis(tx.outs) = SumSatoshis(dests) + SumSatoshis(ChangeOutputs(pay))
  <2>1. \A x \in Outputs : x.satoshis \in Nat
    BY DEF Outputs
  <2>2. tx.outs = outs \o ChangeOutputs(pay)
    BY DEF MergeTxOf
  <2>3. outs \in Seq(Outputs) /\ SumSatoshis(outs) = SumSatoshis(dests)
    BY <1>2, StasOutputsType, StasOutputsSum
  <2> HIDE DEF tx, outs
  <2>4. SumSatoshis(outs \o ChangeOutputs(pay))
          = SumSatoshis(outs) + SumSatoshis(ChangeOutputs(pay))
    BY <1>2, <2>1, <2>3, ChangeType, SumOfConcat
  <2> QED BY <2>2, <2>3, <2>4
<1>7. tx.ins[1] = u1.op /\ 1 \in DOMAIN tx.ins
  <2>1. tx.ins = <<u1.op, u2.op>> \o Ops(pay)
    BY DEF MergeTxOf
  <2> HIDE DEF tx
  <2> QED BY <1>3, <2>1, PairHead
<1>8. tx.unlock[1] = un
  <2>1. tx.unlock = <<un, un2>> \o PlainUnlocks(pay)
    BY DEF MergeTxOf
  <2>2. PlainUnlocks(pay) \in Seq(Unlocks)
    BY <1>2, PayType
  <2> HIDE DEF tx, un, un2
  <2> QED BY <2>1, <2>2, PairHead
<1>9. dests \in Seq(Segments)
  BY <1>2, StasOutputsType
<1>10. un.type = "merge" /\ un.other = u2.op /\ Front(un.pairs) = dests
  <2>1. /\ un.type = "merge" /\ un.other = u2.op
        /\ un.pairs = IF pay = <<>> THEN Append(all, NilSegment) ELSE all
    BY DEF partialStasMergeScript
  <2> HIDE DEF un
  <2> QED BY <1>2, <1>9, <2>1, SegmentsOfUnlock
<1>11. /\ SumSatoshis(ChangeOutputs(pay)) \in Nat /\ SumSatoshis(Outs(pay)) \in Nat
       /\ SumSatoshis(Outs(pay)) - SumSatoshis(ChangeOutputs(pay)) \in {0, Fee}
  BY <1>2, ChangePays
<1>12. SumSatoshis(dests) \in Nat
  <2>1. \A x \in Destinations : x.satoshis \in Nat
    BY DEF Destinations
  <2> QED BY <2>1, SumSatoshisType
<1> HIDE DEF tx, un, un2, all, outs
<1>13. TokenValue(chain, tx) = u1.out.satoshis + u2.out.satoshis
  BY <1>2, <1>7, <1>8, <1>10 DEF TokenValue
<1>14. Paid(chain, tx) + (SumSatoshis(dests) - TokenValue(chain, tx)) \in {0, Fee}
  <2> DEFINE brought == SumSatoshis(Outs(pay))
             change == SumSatoshis(ChangeOutputs(pay))
             value == u1.out.satoshis + u2.out.satoshis
             segs == SumSatoshis(dests)
  <2>1. Paid(chain, tx) = (value + brought) - (segs + change)
    BY <1>5, <1>6 DEF Paid
  <2>2. value \in Nat
    BY <1>2
  <2>3. /\ segs \in Nat /\ brought \in Nat /\ change \in Nat
        /\ brought - change \in {0, Fee} /\ TokenValue(chain, tx) = value
    BY <1>11, <1>12, <1>13
  <2> HIDE DEF brought, change, value, segs
  <2>4. ((value + brought) - (segs + change)) + (segs - value) \in {0, Fee}
    BY <2>2, <2>3, RestOfPayment
  <2> QED BY <2>1, <2>3, <2>4 DEF segs
<1>15. TokenSound(chain, tx)
  BY <1>2, <1>8, <1>9, <1>10, <1>14 DEF TokenSound
<1>16. SpentTokens(chain, tx) # {}
  BY <1>2, <1>7 DEF SpentTokens
<1> QED BY <1>15, <1>16 DEF Sound, tx

\* Of a transaction that spends no token it suffices to know the sums.
LEMMA PlainTxSound ==
  ASSUME chain \in Seq(Txs), NEW tx,
         \A i \in DOMAIN tx.ins : OutputOf(chain, tx.ins[i]).kind # "stas",
         Paid(chain, tx) \in {0, Fee}
  PROVE  Sound(chain, tx)
  BY Zenon DEF Sound, PlainSound, SpentTokens

\* Inputs of two lists of ordinary outputs.
LEMMA TwoLists ==
  ASSUME chain \in Seq(Txs), NEW kind, kind # "stas", NEW inputs \in Seq(Utxos(kind)),
         NEW pay \in Payments
  PROVE  /\ SumSatoshis(Ins(chain, Ops(inputs) \o Ops(pay)))
               = SumSatoshis(Outs(inputs)) + SumSatoshis(Outs(pay))
         /\ SumSatoshis(Outs(inputs)) \in Nat /\ SumSatoshis(Outs(pay)) \in Nat
         /\ \A i \in DOMAIN (Ops(inputs) \o Ops(pay)) :
               OutputOf(chain, (Ops(inputs) \o Ops(pay))[i]).kind # "stas"
<1> DEFINE Plain == {op \in Created(chain) : OutputOf(chain, op).kind # "stas"}
<1>1. chain \in Seq(Txs)
  OBVIOUS
<1>2. /\ Len(inputs) \in Nat /\ DOMAIN inputs = 1..Len(inputs)
      /\ \A i \in 1..Len(inputs) : inputs[i] \in Utxos(kind)
  BY LenProperties, ElementOfSeq
<1>3. \A u \in Utxos(kind) : u \in UtxoRecords /\ u.op \in Plain
                             /\ u.op \in Created(chain) /\ u.out = OutputOf(chain, u.op)
  BY <1>1, UtxosType, PaymentsFromChain
<1>4. inputs \in Seq(UtxoRecords) /\ FromChain(chain, inputs)
  <2>1. Utxos(kind) \subseteq UtxoRecords
    BY <1>3
  <2> QED BY <1>2, <1>3, <2>1, SeqMonotonic DEF FromChain
<1>5. pay \in Seq(UtxoRecords) /\ FromChain(chain, pay)
  BY <1>1, PaymentsFromChain
<1>6. /\ Ops(inputs) \in Seq(Created(chain))
      /\ SumSatoshis(Ins(chain, Ops(inputs))) = SumSatoshis(Outs(inputs))
      /\ SumSatoshis(Outs(inputs)) \in Nat
  BY <1>1, <1>4, UtxosSum
<1>7. /\ Ops(pay) \in Seq(Created(chain))
      /\ SumSatoshis(Ins(chain, Ops(pay))) = SumSatoshis(Outs(pay))
      /\ SumSatoshis(Outs(pay)) \in Nat
  BY <1>1, <1>5, UtxosSum
<1>8. SumSatoshis(Ins(chain, Ops(inputs) \o Ops(pay)))
        = SumSatoshis(Outs(inputs)) + SumSatoshis(Outs(pay))
  BY <1>1, <1>6, <1>7, InsConcat
<1>9. Ops(inputs) \in Seq(Plain)
  <2>1. Ops(inputs) \in [1..Len(inputs) -> Plain]
    BY <1>2, <1>3 DEF Ops
  <2> HIDE DEF Plain
  <2> QED BY <1>2, <2>1, FunctionIsSeq
<1>10. Ops(pay) \in Seq(Plain)
  <2>1. PICK m \in Nat : DOMAIN Ops(pay) = 1..m /\ DOMAIN pay = 1..m
    BY <1>5, LenProperties DEF Ops
  <2>2. Ops(pay) \in [1..m -> Plain]
    BY <1>1, <2>1, UtxosType DEF Ops, OutputOf, ChainOutput
  <2> HIDE DEF Plain
  <2> QED BY <2>2, FunctionIsSeq
<1>11. \A i \in DOMAIN (Ops(inputs) \o Ops(pay)) : (Ops(inputs) \o Ops(pay))[i] \in Plain
  <2> HIDE DEF Plain
  <2>1. Ops(inputs) \o Ops(pay) \in Seq(Plain)
    BY <1>9, <1>10, ConcatProperties
  <2> QED BY <2>1, LenProperties, ElementOfSeq
<1> QED BY <1>6, <1>7, <1>8, <1>11

LEMMA IssueTxSound ==
  ASSUME chain \in Seq(Txs), NEW u \in Utxos("contract"), NEW info \in Seq(IssueInfos),
         NEW pay \in Payments, NEW isSplittable \in BOOLEAN, NEW symbol \in Symbols,
         issueGuards(u, info, pay, symbol)
  PROVE  Sound(chain, issueTx(u, info, pay, isSplittable, symbol))
<1> DEFINE tx == issueTx(u, info, pay, isSplittable, symbol)
           issued == [k \in DOMAIN info |->
                      StasOut(info[k].addr,
                              [red |-> u.out.pkh, symbol |-> symbol,
                               isSplittable |-> isSplittable, data |-> info[k].data],
                              info[k].satoshis)]
<1>1. /\ chain \in Seq(Txs) /\ u \in UtxoRecords /\ u.out \in Outputs
      /\ u.out.satoshis \in Nat /\ IsPay(pay) /\ ChangeCovered(pay)
      /\ SumSatoshis(info) = u.out.satoshis
  BY PaymentsFromChain DEF UtxoRecords, Outputs, issueGuards
<1>2. /\ SumSatoshis(Ins(chain, tx.ins)) = u.out.satoshis + SumSatoshis(Outs(pay))
      /\ SumSatoshis(Outs(pay)) \in Nat
      /\ \A i \in DOMAIN tx.ins : OutputOf(chain, tx.ins[i]).kind # "stas"
  <2>1. <<u>> \in Seq(Utxos("contract"))
    BY SingletonSeq
  <2>2. Ops(<<u>>) = <<u.op>> /\ Outs(<<u>>) = <<u.out>>
    BY DEF Ops, Outs
  <2>3. SumSatoshis(<<u.out>>) = u.out.satoshis
    BY <1>1, SumOfShort
  <2>4. tx.ins = <<u.op>> \o Ops(pay)
    BY DEF issueTx
  <2> HIDE DEF tx
  <2>5. "contract" # "stas"
    OBVIOUS
  <2>6. /\ SumSatoshis(Ins(chain, Ops(<<u>>) \o Ops(pay)))
              = SumSatoshis(Outs(<<u>>)) + SumSatoshis(Outs(pay))
        /\ SumSatoshis(Outs(pay)) \in Nat
        /\ \A i \in DOMAIN (Ops(<<u>>) \o Ops(pay)) :
              OutputOf(chain, (Ops(<<u>>) \o Ops(pay))[i]).kind # "stas"
    BY <2>1, <2>5, TwoLists
  <2> QED BY <2>2, <2>3, <2>4, <2>6
<1>3. SumSatoshis(tx.outs) = u.out.satoshis + SumSatoshis(ChangeOutputs(pay))
  <2>1. /\ Len(info) \in Nat /\ DOMAIN info = 1..Len(info)
        /\ \A k \in 1..Len(info) : info[k] \in IssueInfos
    BY LenProperties, ElementOfSeq
  <2>2. issued \in [1..Len(info) -> Outputs]
        /\ \A k \in 1..Len(info) : issued[k].satoshis = info[k].satoshis
    BY <1>1, <2>1 DEF StasOut, Outputs, IssueInfos, Tokens
  <2>3. tx.outs = issued \o ChangeOutputs(pay)
    BY DEF issueTx
  <2>4. \A x \in Outputs : x.satoshis \in Nat
    BY DEF Outputs
  <2> HIDE DEF tx, issued
  <2>5. issued \in Seq(Outputs) /\ Len(issued) = Len(info)
    BY <2>1, <2>2, FunctionIsSeq
  <2>6. \A k \in 1..Len(issued) : issued[k].satoshis = info[k].satoshis
    BY <2>2, <2>5
  <2>7. SumSatoshis(issued) = SumSatoshis(info)
    BY <2>5, <2>6, SumOfSameAmounts
  <2>8. SumSatoshis(issued \o ChangeOutputs(pay))
          = SumSatoshis(issued) + SumSatoshis(ChangeOutputs(pay))
    <3>1. issued \in Seq(Outputs)
      BY <2>5
    <3> QED BY <1>1, <2>4, <3>1, ChangeType, SumOfConcat
  <2> QED BY <1>1, <2>3, <2>7, <2>8
<1>4. /\ SumSatoshis(ChangeOutputs(pay)) \in Nat
      /\ SumSatoshis(Outs(pay)) - SumSatoshis(ChangeOutputs(pay)) \in {0, Fee}
  BY <1>1, ChangePays
<1> HIDE DEF tx, issued
<1>5. Paid(chain, tx) \in {0, Fee}
  BY <1>1, <1>2, <1>3, <1>4, FeeAssumption DEF Paid
<1> QED BY <1>2, <1>5, PlainTxSound DEF tx

LEMMA ContractTxSound ==
  ASSUME chain \in Seq(Txs), NEW inputs \in Seq(Utxos("p2pkh")), NEW pay \in Payments,
         NEW symbol, NEW data, NEW perToken, NEW amount \in Nat,
         contractGuards(inputs, pay, perToken, amount)
  PROVE  Sound(chain, contractTx(inputs, pay, symbol, data, amount))
<1> DEFINE tx == contractTx(inputs, pay, symbol, data, amount)
           change == contractChange(inputs, pay, amount)
           total == SumSatoshis(Outs(inputs)) + SumSatoshis(Outs(pay))
<1>1. /\ SumSatoshis(Ins(chain, tx.ins)) = total
      /\ SumSatoshis(Outs(inputs)) \in Nat /\ SumSatoshis(Outs(pay)) \in Nat
      /\ \A i \in DOMAIN tx.ins : OutputOf(chain, tx.ins[i]).kind # "stas"
  <2>1. tx.ins = Ops(inputs) \o Ops(pay)
    BY DEF contractTx
  <2>2. "p2pkh" # "stas"
    OBVIOUS
  <2> HIDE DEF tx
  <2> QED BY <2>1, <2>2, TwoLists
<1>2. /\ change.satoshis = IF pay = <<>> THEN total - amount ELSE total - (Fee + amount)
      /\ change.satoshis \in Nat
  BY <1>1, FeeAssumption DEF contractChange, P2pkhOut, contractGuards
<1>3. SumSatoshis(tx.outs) = amount + change.satoshis
  <2>1. PICK backed : backed.satoshis = amount /\ tx.outs = <<backed, change>>
    BY DEF contractTx
  <2> HIDE DEF tx, change
  <2> DEFINE S == {backed, change}
  <2>2. \A x \in S : x.satoshis \in Nat
    BY <1>2, <2>1
  <2>3. <<backed>> \in Seq(S) /\ <<change>> \in Seq(S)
    BY SingletonSeq
  <2>4. <<backed, change>> = <<backed>> \o <<change>>
    BY PairIsConcat
  <2> HIDE DEF S
  <2>5. SumSatoshis(<<backed>> \o <<change>>) = SumSatoshis(<<backed>>) + SumSatoshis(<<change>>)
    BY <2>2, <2>3, SumOfConcat
  <2>6. SumSatoshis(<<backed>>) = amount /\ SumSatoshis(<<change>>) = change.satoshis
    BY <1>2, <2>1, SumOfShort
  <2> QED BY <2>1, <2>4, <2>5, <2>6
<1> HIDE DEF tx, change
<1>4. Paid(chain, tx) \in {0, Fee}
  BY <1>1, <1>2, <1>3, FeeAssumption DEF Paid
<1> QED BY <1>1, <1>4, PlainTxSound DEF tx

\* Outputs keep their amounts, so fees computed before are right after it.
LEMMA ConfirmKeepsPaid ==
  ASSUME chain \in Seq(Txs), NEW tx \in BuiltTxs, AddToChain(tx), NEW other,
         \A i \in DOMAIN other.ins : other.ins[i] \in Created(chain)
  PROVE  Paid(chain', other) = Paid(chain, other)
<1>1. \A i \in DOMAIN other.ins :
         OutputOf(chain', other.ins[i]) = OutputOf(chain, other.ins[i])
  BY ConfirmEffect
<1>2. Ins(chain', other.ins) = Ins(chain, other.ins)
  BY <1>1 DEF Ins
<1> QED BY <1>2 DEF Paid

LEMMA SoundStaysSound ==
  ASSUME chain \in Seq(Txs), NEW tx \in BuiltTxs, AddToChain(tx),
         NEW other \in BuiltTxs, Built(chain, other), Sound(chain, other)
  PROVE  Sound(chain', other)
<1>1. \A i \in DOMAIN other.ins : other.ins[i] \in Created(chain)
  BY DEF Built
<1>2. Paid(chain', other) = Paid(chain, other)
  BY <1>1, ConfirmKeepsPaid
<1>3. \A op \in Created(chain) : /\ op \in Created(chain')
                                /\ OutputOf(chain', op) = OutputOf(chain, op)
  BY ConfirmEffect
<1>4. SpentTokens(chain', other) = SpentTokens(chain, other)
  BY <1>1, <1>3 DEF SpentTokens
<1>5. ASSUME SpentTokens(chain, other) # {}, TokenSound(chain, other)
      PROVE  TokenSound(chain', other)
  <2>1. other.ins[1] \in Created(chain)
    BY <1>1, <1>5 DEF Built, SpendsFirst, SpentTokens
  <2>2. TokenValue(chain', other) = TokenValue(chain, other)
    BY <1>3, <1>5, <2>1 DEF TokenValue, TokenSound
  <2> QED BY <1>2, <1>3, <1>5, <2>2 DEF TokenSound
<1> QED BY <1>2, <1>4, <1>5 DEF Sound, PlainSound

\* The covenant adds up the segments, so what it accepts pays the right fee.
LEMMA AcceptedPays ==
  ASSUME NEW tx \in BuiltTxs, chain \in Seq(Txs), Built(chain, tx), Sound(chain, tx),
         ScriptsHold(chain, tx)
  PROVE  Paid(chain, tx) \in {0, Fee}
<1>1. CASE SpentTokens(chain, tx) = {}
  BY <1>1 DEF Sound, PlainSound
<1>2. CASE SpentTokens(chain, tx) # {}
  <2> DEFINE segs == Front(tx.unlock[1].pairs)
  <2>1. 1 \in DOMAIN tx.ins /\ OutputOf(chain, tx.ins[1]).kind = "stas"
    BY <1>2 DEF Built, SpendsFirst, SpentTokens
  <2>2. CovenantHolds(chain, tx, 1)
    BY <2>1 DEF ScriptsHold, OutputOf, Utxo
  <2>3. /\ Len(segs) \in 1..(IF OutputOf(chain, tx.ins[1]).tok.isSplittable
                             THEN MaxSegments ELSE 1)
        /\ SegmentTotal(segs) = TokenValue(chain, tx)
    BY <2>2 DEF CovenantHolds, Balanced, TokenValue, OutputOf, Utxo
  <2>4. /\ segs \in Seq(Segments)
        /\ Paid(chain, tx) + (SumSatoshis(segs) - TokenValue(chain, tx)) \in {0, Fee}
    BY <1>2 DEF Sound, TokenSound
  <2>5. Len(segs) \in 0..4
    <3> DEFINE n == Len(segs)
    <3>1. n \in 1..1 \/ n \in 1..4
      BY <2>3 DEF MaxSegments
    <3> HIDE DEF n
    <3>2. n \in 0..4
      BY <3>1
    <3> QED BY <3>2 DEF n
  <2>6. \A x \in Segments : x.satoshis \in Nat
    BY DEF Segments
  <2> HIDE DEF segs
  <2>7. SegmentTotal(segs) = SumSatoshis(segs) /\ SumSatoshis(segs) \in Nat
    BY <2>4, <2>5, <2>6, SegmentTotalIsSum, SumSatoshisType
  <2>8. Paid(chain, tx) \in Int
    <3>1. tx.ins \in Seq(Created(chain))
      <4>1. tx.ins \in [1..Len(tx.ins) -> Created(chain)] /\ Len(tx.ins) \in Nat
        BY LenProperties DEF Built, BuiltTxs
      <4> QED BY <4>1, FunctionIsSeq
    <3>2. SumSatoshis(Ins(chain, tx.ins)) \in Nat
      BY <3>1, InsType
    <3>3. tx.outs \in Seq(Outputs) /\ \A x \in Outputs : x.satoshis \in Nat
      BY DEF BuiltTxs, Outputs
    <3>4. SumSatoshis(tx.outs) \in Nat
      BY <3>3, SumSatoshisType
    <3> QED BY <3>2, <3>4 DEF Paid
  <2> QED BY <2>3, <2>4, <2>7, <2>8, FeeAssumption
<1> QED BY <1>1, <1>2

-----------------------------------------------------------------------------
(* What makes a transaction acceptable *)
(* Two computations have to agree: the one of the builder, which writes     *)
(* outputs and segments, and the one of the covenant, which rebuilds the    *)
(* outputs from the segments.  A merge adds a third: the pieces into which  *)
(* the parents of the inputs are cut must not be too many, and how many     *)
(* there are depends on how these parents were made.                        *)

MergesTokens(ch, tx) == SpentTokens(ch, tx) # {} /\ tx.unlock[1].type = "merge"

\* The covenant of a merge can take in the transaction that created op.
Reachable(ch, op) ==
    /\ Cardinality(TailCopies(ch, op.txid, OutputOf(ch, op).tok)) < MaxPieces
    /\ Len(ch[op.txid].ins) <= MaxParentInputs
    /\ op.vout <= MaxParentVout

Distinct(ops) == \A i, j \in DOMAIN ops : ops[i] = ops[j] => i = j

\* What the network demands of a transaction of unspent inputs, but for the
\* amounts, which Sound settles.
Passes(ch, tx) ==
    /\ Distinct(tx.ins)
    /\ ScriptsHold(ch, tx)
    /\ \A i \in SpentTokens(ch, tx) :
          tx.unlock[i].type = "merge" => tx.unlock[i].other \in Created(ch)

Acceptable(ch, tx) ==
    (MergesTokens(ch, tx) => Reachable(ch, tx.ins[1]) /\ Reachable(ch, tx.ins[2]))
        => Passes(ch, tx)

\* What proper arguments add to Built and Sound.
TxGood(ch, tx) ==
    /\ Len(tx.ins) <= MaxParentInputs
    /\ SpentTokens(ch, tx) = {} =>
          \A k \in DOMAIN tx.outs : tx.outs[k].kind = "stas" => tx.outs[k].satoshis > 0
    /\ Acceptable(ch, tx)

\* The size of a confirmed transaction, as far as it concerns later merges.
TxBounded(ch, tx) ==
    /\ Len(tx.ins) <= MaxParentInputs
    /\ SpentTokens(ch, tx) \subseteq {1, 2}
    /\ \A k \in DOMAIN tx.outs :
          tx.outs[k].kind = "stas" =>
             /\ tx.outs[k].satoshis > 0
             /\ SpentTokens(ch, tx) # {} => k <= MaxSegments

ChainBounded == \A t \in DOMAIN chain : TxBounded(chain, chain[t])

\* Its tokens lie where the covenant of a merge finds them.
FewTokens(tx) ==
    \A k \in DOMAIN tx.outs : tx.outs[k].kind = "stas" => k <= MaxParentVout + 1

\* Good transactions that merge nothing; and one that merges two UTXOs.
GoodAlone(ch, tx) == TxGood(ch, tx) /\ ~MergesTokens(ch, tx)
GoodMerge(ch, tx, u1, u2) ==
    TxGood(ch, tx) /\ tx.ins[1] = u1.op /\ tx.ins[2] = u2.op

-----------------------------------------------------------------------------
(* Which parents a merge can take in *)

\* Four outputs and two inputs of the token at most.
LEMMA FewCopies ==
  ASSUME NEW copies, copies \subseteq ({"out"} \X (1..4)) \cup ({"in"} \X (1..2))
  PROVE  Cardinality(copies) < MaxPieces
<1> DEFINE A == {"out"} \X (1..4)
           B == {"in"} \X (1..2)
<1>1. /\ IsFiniteSet(1..4) /\ Cardinality(1..4) = 4
      /\ IsFiniteSet(1..2) /\ Cardinality(1..2) = 2
  <2>1. ASSUME NEW n \in Nat PROVE IsFiniteSet(1..n) /\ Cardinality(1..n) = n
    <3>1. 1 \in Int /\ n \in Int
      OBVIOUS
    <3>2. /\ IsFiniteSet(1..n)
          /\ Cardinality(1..n) = IF 1 > n THEN 0 ELSE n - 1 + 1
      BY <3>1, FS_Interval
    <3> QED BY <3>2
  <2> QED BY <2>1
<1>2. /\ IsFiniteSet({"out"}) /\ Cardinality({"out"}) = 1
      /\ IsFiniteSet({"in"}) /\ Cardinality({"in"}) = 1
  BY FS_Singleton
<1>3. IsFiniteSet(A) /\ Cardinality(A) = 4
  <2>1. IsFiniteSet({"out"} \X (1..4))
        /\ Cardinality({"out"} \X (1..4)) = Cardinality({"out"}) * Cardinality(1..4)
    BY <1>1, <1>2, FS_Product
  <2> QED BY <1>1, <1>2, <2>1
<1>4. IsFiniteSet(B) /\ Cardinality(B) = 2
  <2>1. IsFiniteSet({"in"} \X (1..2))
        /\ Cardinality({"in"} \X (1..2)) = Cardinality({"in"}) * Cardinality(1..2)
    BY <1>1, <1>2, FS_Product
  <2> QED BY <1>1, <1>2, <2>1
<1> HIDE DEF A, B
<1>5. /\ IsFiniteSet(A \cup B)
      /\ Cardinality(A \cup B) = Cardinality(A) + Cardinality(B) - Cardinality(A \cap B)
  BY <1>3, <1>4, FS_Union
<1>6. Cardinality(A \cap B) \in Nat
  <2>1. A \cap B \in SUBSET A
    OBVIOUS
  <2> QED BY <1>3, <2>1, FS_Subset, FS_CardinalityType
<1>7. IsFiniteSet(copies) /\ Cardinality(copies) <= Cardinality(A \cup B)
  <2>1. copies \in SUBSET (A \cup B)
    BY DEF A, B
  <2> QED BY <1>5, <2>1, FS_Subset
<1>8. Cardinality(copies) \in Nat
  BY <1>7, FS_CardinalityType
<1> QED BY <1>3, <1>4, <1>5, <1>6, <1>7, <1>8 DEF MaxPieces

\* Every token output can be merged but those of an issue() of more than four
\* outputs.
LEMMA MostAreReachable ==
  ASSUME chain \in Seq(Txs), ChainBounded, NEW op \in TokenOutputs,
         FewTokens(chain[op.txid]) \/ SpentTokens(chain, chain[op.txid]) # {}
  PROVE  Reachable(chain, op)
<1> DEFINE t == op.txid
           tx == chain[op.txid]
           tok == OutputOf(chain, op).tok
           copies == TailCopies(chain, op.txid, tok)
<1>1. /\ t \in DOMAIN chain /\ tx \in Txs /\ op.vout \in Nat
      /\ op.vout + 1 \in DOMAIN tx.outs /\ tx.outs[op.vout + 1].kind = "stas"
  BY CreatedType DEF TokenOutputs, ChainOutput, Outpoints
<1>2. TxBounded(chain, tx)
  BY <1>1 DEF ChainBounded
<1>3. DOMAIN tx.outs = 1..Len(tx.outs) /\ Len(tx.outs) \in Nat
  BY <1>1, LenProperties DEF Txs
<1>4. \A k \in DOMAIN tx.outs : tx.outs[k].kind = "stas" => k \in 1..4
  <2>1. CASE FewTokens(tx)
    BY <1>3, <2>1 DEF FewTokens, MaxParentVout
  <2>2. CASE SpentTokens(chain, tx) # {}
    BY <1>2, <1>3, <2>2 DEF TxBounded, MaxSegments
  <2> QED BY <2>1, <2>2
<1>5. op.vout <= MaxParentVout
  BY <1>1, <1>4 DEF MaxParentVout
<1>6. copies \subseteq ({"out"} \X (1..4)) \cup ({"in"} \X (1..2))
  <2>1. ASSUME NEW x \in copies
        PROVE  \/ \E k \in 1..4 : x = <<"out", k>>
               \/ \E k \in 1..2 : x = <<"in", k>>
    <3>1. \/ \E k \in DOMAIN tx.outs : IsStas(tx.outs[k], tok) /\ x = <<"out", k>>
          \/ \E k \in DOMAIN tx.ins :
                IsStas(Utxo(chain, tx.ins[k]).out, tok) /\ x = <<"in", k>>
      BY <2>1, Zenon DEF TailCopies
    <3>2. ASSUME NEW k \in DOMAIN tx.ins, IsStas(Utxo(chain, tx.ins[k]).out, tok)
          PROVE  k \in 1..2
      <4>1. k \in SpentTokens(chain, tx)
        BY <3>2 DEF SpentTokens, IsStas, Utxo, OutputOf
      <4> QED BY <1>2, <4>1 DEF TxBounded
    <3> QED BY <1>4, <3>1, <3>2 DEF IsStas
  <2> HIDE DEF copies
  <2> QED BY <2>1
<1>7. Cardinality(copies) < MaxPieces
  BY <1>6, FewCopies
<1> QED BY <1>2, <1>5, <1>7 DEF Reachable, TxBounded

-----------------------------------------------------------------------------
(* Other transactions do not change what the network thinks of one *)

LEMMA ConfirmKeepsReachable ==
  ASSUME chain \in Seq(Txs), InputsExist, NEW tx \in BuiltTxs, AddToChain(tx),
         NEW op \in Created(chain)
  PROVE  /\ \A tok : TailCopies(chain', op.txid, tok) = TailCopies(chain, op.txid, tok)
         /\ Reachable(chain', op) <=> Reachable(chain, op)
<1>1. /\ op.txid \in DOMAIN chain /\ chain'[op.txid] = chain[op.txid]
      /\ OutputOf(chain', op) = OutputOf(chain, op)
  BY ConfirmEffect
<1>2. \A i \in DOMAIN chain[op.txid].ins :
         OutputOf(chain', chain[op.txid].ins[i]) = OutputOf(chain, chain[op.txid].ins[i])
  BY <1>1, ConfirmEffect DEF InputsExist
<1>3. ASSUME NEW tok
      PROVE  TailCopies(chain', op.txid, tok) = TailCopies(chain, op.txid, tok)
  <2>1. {i \in DOMAIN chain'[op.txid].ins :
            IsStas(Utxo(chain', chain'[op.txid].ins[i]).out, tok)}
          = {i \in DOMAIN chain[op.txid].ins :
                IsStas(Utxo(chain, chain[op.txid].ins[i]).out, tok)}
    BY <1>1, <1>2 DEF Utxo, OutputOf
  <2> QED BY <1>1, <2>1 DEF TailCopies
<1> QED BY <1>1, <1>3 DEF Reachable

LEMMA ConfirmKeepsScripts ==
  ASSUME chain \in Seq(Txs), InputsExist, NEW tx \in BuiltTxs, AddToChain(tx),
         NEW other, \A i \in DOMAIN other.ins : other.ins[i] \in Created(chain),
         NEW i \in SpentTokens(chain, other), CovenantHolds(chain, other, i),
         other.unlock[i].type = "merge" => other.unlock[i].other \in Created(chain)
  PROVE  CovenantHolds(chain', other, i)
<1> DEFINE u == other.unlock[i]
           this == other.ins[i]
<1>1. /\ this \in Created(chain)
      /\ Utxo(chain', this).out = Utxo(chain, this).out
  BY ConfirmEffect DEF SpentTokens, Utxo, OutputOf
<1>2. ASSUME u.type = "merge"
      PROVE  /\ Utxo(chain', u.other).out = Utxo(chain, u.other).out
             /\ chain'[u.other.txid] = chain[u.other.txid]
             /\ \A tok : TailCopies(chain', u.other.txid, tok)
                            = TailCopies(chain, u.other.txid, tok)
  BY <1>2, ConfirmEffect, ConfirmKeepsReachable DEF Utxo, OutputOf
<1>3. ASSUME u.type = "merge", NEW tok, MergeProof(chain, u, tok)
      PROVE  MergeProof(chain', u, tok)
  <2> HIDE DEF u
  <2> QED BY <1>2, <1>3 DEF MergeProof
<1> HIDE DEF u, this
<1> QED BY <1>1, <1>2, <1>3, Zenon DEF CovenantHolds, u, this

\* Reachable, and with it what a merge needs, is settled when a call starts.
LEMMA TxStaysGood ==
  ASSUME chain \in Seq(Txs), InputsExist, NEW tx \in BuiltTxs, AddToChain(tx),
         NEW other \in BuiltTxs, Built(chain, other), TxGood(chain, other)
  PROVE  TxGood(chain', other)
<1>1. \A i \in DOMAIN other.ins :
         /\ other.ins[i] \in Created(chain)
         /\ chain'[other.ins[i].txid] = chain[other.ins[i].txid]
         /\ OutputOf(chain', other.ins[i]) = OutputOf(chain, other.ins[i])
  BY ConfirmEffect DEF Built
<1>2. SpentTokens(chain', other) = SpentTokens(chain, other)
  BY <1>1 DEF SpentTokens
<1>3. MergesTokens(chain', other) <=> MergesTokens(chain, other)
  BY <1>2 DEF MergesTokens
<1>4. MergesTokens(chain, other) => 1 \in DOMAIN other.ins /\ 2 \in DOMAIN other.ins
  BY DEF MergesTokens, Built, SpendsFirst, SpendsWhole, SpentTokens
<1>5. ASSUME MergesTokens(chain, other), NEW i \in 1..2
      PROVE  /\ Reachable(chain', other.ins[i]) <=> Reachable(chain, other.ins[i])
             /\ chain'[other.ins[i].txid] = chain[other.ins[i].txid]
  <2>1. i \in DOMAIN other.ins
    BY <1>4, <1>5
  <2> QED BY <1>1, <2>1, ConfirmKeepsReachable
<1>6. ASSUME Passes(chain, other) PROVE Passes(chain', other)
  <2>1. \A i \in SpentTokens(chain, other) : CovenantHolds(chain, other, i)
    BY <1>6 DEF Passes, ScriptsHold, SpentTokens, Utxo, OutputOf
  <2>2. \A i \in SpentTokens(chain, other) : CovenantHolds(chain', other, i)
    BY <1>1, <1>6, <2>1, ConfirmKeepsScripts DEF Passes
  <2>3. ScriptsHold(chain', other)
    BY <1>2, <2>2, Zenon DEF ScriptsHold, SpentTokens, Utxo, OutputOf
  <2>4. \A op \in Created(chain) : op \in Created(chain')
    BY ConfirmEffect
  <2> QED BY <1>2, <1>6, <2>3, <2>4 DEF Passes
<1>7. Acceptable(chain', other)
  BY <1>3, <1>5, <1>6 DEF TxGood, Acceptable
<1> QED BY <1>2, <1>3, <1>5, <1>7 DEF TxGood

-----------------------------------------------------------------------------
(* A confirmed transaction *)

\* The covenant lets through four token outputs, each with an amount.
LEMMA CovenantBounds ==
  ASSUME NEW ch, NEW tx, CovenantHolds(ch, tx, 1),
         Front(tx.unlock[1].pairs) \in Seq(Segments),
         NEW k \in DOMAIN tx.outs, tx.outs[k].kind = "stas"
  PROVE  tx.outs[k].satoshis > 0 /\ k <= MaxSegments
<1> DEFINE prev == OutputOf(ch, tx.ins[1])
           segs == Front(tx.unlock[1].pairs)
           change == Last(tx.unlock[1].pairs)
           outs == CovenantOutputs(prev.tok, segs, change)
<1>1. /\ Len(segs) \in 1..(IF prev.tok.isSplittable THEN MaxSegments ELSE 1)
      /\ \A j \in DOMAIN segs : segs[j].satoshis > 0
      /\ tx.outs = outs
  BY DEF CovenantHolds, OutputOf, Utxo
<1>2. Len(segs) \in 1..4
  <2> DEFINE n == Len(segs)
  <2>1. n \in 1..1 \/ n \in 1..4
    BY <1>1 DEF MaxSegments
  <2> HIDE DEF n
  <2>2. n \in 1..4
    BY <2>1
  <2> QED BY <2>2 DEF n
<1> HIDE DEF prev, segs, change
<1>3. outs[k].kind = "stas" =>
         k \in 1..Len(segs) /\ outs[k].satoshis = segs[k].satoshis
  <2> DEFINE tok == prev.tok
  <2>1. Len(segs) \in Nat /\ k \in DOMAIN CovenantOutputs(tok, segs, change)
    BY <1>1, <1>2
  <2> HIDE DEF tok
  <2>2. CovenantOutputs(tok, segs, change)[k].kind = "stas" =>
           /\ k \in 1..Len(segs)
           /\ CovenantOutputs(tok, segs, change)[k].tok = tok
           /\ CovenantOutputs(tok, segs, change)[k].satoshis = segs[k].satoshis
    BY <2>1, CovenantOutputsShape
  <2> QED BY <2>2 DEF tok
<1>4. DOMAIN segs = 1..Len(segs)
  BY LenProperties DEF segs
<1> HIDE DEF outs
<1>5. k \in 1..Len(segs) /\ tx.outs[k].satoshis = segs[k].satoshis
  BY <1>1, <1>3
<1>6. k <= 4
  <2> DEFINE n == Len(segs)
  <2>1. n \in 1..4 /\ k \in 1..n
    BY <1>2, <1>5
  <2> HIDE DEF n
  <2> QED BY <2>1
<1> QED BY <1>1, <1>4, <1>5, <1>6 DEF MaxSegments

LEMMA AcceptedIsBounded ==
  ASSUME NEW tx \in BuiltTxs, Built(chain, tx), Sound(chain, tx), TxGood(chain, tx),
         ScriptsHold(chain, tx)
  PROVE  TxBounded(chain, tx)
<1>1. CASE SpentTokens(chain, tx) = {}
  BY <1>1 DEF TxGood, TxBounded
<1>2. CASE SpentTokens(chain, tx) # {}
  <2>1. SpentTokens(chain, tx) \subseteq {1, 2} /\ 1 \in SpentTokens(chain, tx)
    BY <1>2 DEF Built, SpendsFirst, SpendsWhole
  <2>2. CovenantHolds(chain, tx, 1)
    BY <2>1 DEF ScriptsHold, SpentTokens, OutputOf, Utxo
  <2>3. Front(tx.unlock[1].pairs) \in Seq(Segments)
    BY <1>2 DEF Sound, TokenSound
  <2>4. \A k \in DOMAIN tx.outs :
           tx.outs[k].kind = "stas" => tx.outs[k].satoshis > 0 /\ k <= MaxSegments
    BY <2>2, <2>3, CovenantBounds
  <2> QED BY <2>1, <2>4 DEF TxGood, TxBounded
<1> QED BY <1>1, <1>2

LEMMA ChainStaysBounded ==
  ASSUME chain \in Seq(Txs), InputsExist, ChainBounded, NEW tx \in BuiltTxs,
         Built(chain, tx), Sound(chain, tx), TxGood(chain, tx), ScriptsHold(chain, tx),
         AddToChain(tx)
  PROVE  ChainBounded'
<1> DEFINE last == Len(chain) + 1
<1>1. /\ chain'[last] = [ins |-> tx.ins, outs |-> tx.outs]
      /\ \A t \in DOMAIN chain : chain'[t] = chain[t]
  BY ConfirmEffect
<1>2. DOMAIN chain' = DOMAIN chain \cup {last}
  BY LongerChain
<1> HIDE DEF last
<1>3. ASSUME NEW t \in DOMAIN chain' PROVE TxBounded(chain', chain'[t])
  <2>1. CASE t \in DOMAIN chain
    <3>1. SpentTokens(chain', chain[t]) = SpentTokens(chain, chain[t])
      BY <2>1, SpendsSame DEF InputsExist
    <3>2. TxBounded(chain, chain[t])
      BY <2>1 DEF ChainBounded
    <3> QED BY <1>1, <2>1, <3>1, <3>2 DEF TxBounded
  <2>2. CASE t = last
    <3>1. TxBounded(chain, tx)
      BY AcceptedIsBounded
    <3>2. SpentTokens(chain', tx) = SpentTokens(chain, tx)
      BY SpendsSame DEF Built
    <3>3. chain'[t].ins = tx.ins /\ chain'[t].outs = tx.outs
      BY <1>1, <2>2
    <3>4. SpentTokens(chain', chain'[t]) = SpentTokens(chain, tx)
      BY <3>2, <3>3 DEF SpentTokens
    <3> QED BY <3>1, <3>3, <3>4 DEF TxBounded
  <2> QED BY <1>2, <2>1, <2>2
<1> QED BY <1>3 DEF ChainBounded

-----------------------------------------------------------------------------
(* The builder and the covenant agree *)

\* What a builder pays and what it tells the covenant to expect.
Covers(tok, segments, value, outs) ==
    /\ segments \in Seq(Segments) /\ outs \in Seq(Outputs)
    /\ Len(segments) \in 1..(IF tok.isSplittable THEN MaxSegments ELSE 1)
    /\ \A k \in 1..Len(segments) : segments[k].satoshis > 0
    /\ SumSatoshis(segments) = value
    /\ Len(outs) = Len(segments)
    /\ \A k \in 1..Len(segments) : outs[k] = CovenantOutput(tok, k, segments[k])

\* What the covenant finds, whatever the kind of spending.
Settled(tok, u, value, outs) ==
    LET segs == Front(u.pairs)
    IN /\ Len(segs) \in 1..(IF tok.isSplittable THEN MaxSegments ELSE 1)
       /\ \A k \in DOMAIN segs : segs[k].satoshis > 0
       /\ Balanced(segs, value)
       /\ outs = CovenantOutputs(tok, segs, Last(u.pairs))

LEMMA LastOfAppend ==
  ASSUME NEW S, NEW s \in Seq(S), NEW x \in S
  PROVE  Last(Append(s, x)) = x /\ Last(s \o <<x>>) = x
<1>1. /\ Len(Append(s, x)) = Len(s) + 1
      /\ Append(s, x)[Len(s) + 1] = x
  BY AppendProperties
<1>2. Append(s, x) = s \o <<x>>
  BY AppendIsConcat
<1> QED BY <1>1, <1>2 DEF Last

\* The last segment is the change, or nil where there is none.
LEMMA ChangeOfUnlock ==
  ASSUME NEW pay, IsPay(pay), ChangeCovered(pay), NEW segments \in Seq(Segments)
  PROVE  LET all == segments \o ChangeSegments(pay)
             change == Last(IF pay = <<>> THEN Append(all, NilSegment) ELSE all)
         IN (IF change = NilSegment THEN <<>>
             ELSE <<P2pkhOut(change.pkh, change.satoshis)>>) = ChangeOutputs(pay)
<1>1. NilSegment \in Segments
  BY DEF NilSegment, Segment, Segments
<1>2. CASE pay = <<>>
  <2>1. segments \o ChangeSegments(pay) = segments
    BY <1>2, ConcatEmptySeq DEF ChangeSegments
  <2>2. Last(Append(segments, NilSegment)) = NilSegment
    BY <1>1, LastOfAppend
  <2>3. ChangeOutputs(pay) = <<>>
    BY <1>2 DEF ChangeOutputs
  <2> QED BY <1>2, <2>1, <2>2, <2>3
<1>3. CASE pay # <<>>
  <2> DEFINE seg == Segment(pay[1].out.pkh, ChangeSatoshis(pay))
  <2>1. ChangeSegments(pay) = <<seg>>
    BY <1>3 DEF ChangeSegments
  <2>2. ChangeSatoshis(pay) \in Nat /\ ChangeSatoshis(pay) >= 1
    BY <1>3, PayType, FeeAssumption DEF ChangeSatoshis, ChangeCovered
  <2>3. seg \in Segments
    <3>1. pay[1].out.pkh \in Keys
      BY <1>3 DEF IsPay, UtxoRecords, Outputs
    <3> QED BY <2>2, <3>1 DEF Segment, Segments
  <2>4. seg.pkh = pay[1].out.pkh /\ seg.satoshis = ChangeSatoshis(pay) /\ seg # NilSegment
    BY <2>2 DEF Segment, NilSegment
  <2>5. ChangeOutputs(pay) = <<P2pkhOut(seg.pkh, seg.satoshis)>>
    BY <1>3, <2>4 DEF ChangeOutputs
  <2> HIDE DEF seg
  <2>6. Last(segments \o <<seg>>) = seg
    BY <2>3, LastOfAppend
  <2> QED BY <1>3, <2>1, <2>4, <2>5, <2>6
<1> QED BY <1>2, <1>3

\* What the builder covers, the covenant finds settled.
LEMMA UnlockSettles ==
  ASSUME NEW pay, IsPay(pay), ChangeCovered(pay),
         NEW tok, NEW segments, NEW value, NEW outs, Covers(tok, segments, value, outs),
         NEW u, LET all == segments \o ChangeSegments(pay)
                IN u.pairs = IF pay = <<>> THEN Append(all, NilSegment) ELSE all
  PROVE  Settled(tok, u, value, outs \o ChangeOutputs(pay))
<1> DEFINE change == Last(u.pairs)
           main == [k \in 1..Len(segments) |-> CovenantOutput(tok, k, segments[k])]
<1>1. /\ segments \in Seq(Segments) /\ outs \in Seq(Outputs)
      /\ Len(segments) \in Nat /\ DOMAIN segments = 1..Len(segments)
      /\ DOMAIN outs = 1..Len(segments)
  BY LenProperties DEF Covers
<1>2. Front(u.pairs) = segments
  BY <1>1, SegmentsOfUnlock
<1>3. (IF change = NilSegment THEN <<>>
       ELSE <<P2pkhOut(change.pkh, change.satoshis)>>) = ChangeOutputs(pay)
  BY <1>1, ChangeOfUnlock
<1>4. outs = main
  <2>1. outs = [k \in 1..Len(segments) |-> outs[k]]
    BY <1>1
  <2> QED BY <2>1 DEF Covers
<1>5. Balanced(segments, value)
  <2>1. Len(segments) \in 0..4
    <3> DEFINE n == Len(segments)
    <3>1. n \in 1..1 \/ n \in 1..4
      BY DEF Covers, MaxSegments
    <3> HIDE DEF n
    <3>2. n \in 0..4
      BY <3>1
    <3> QED BY <3>2 DEF n
  <2>2. \A x \in Segments : x.satoshis \in Nat
    BY DEF Segments
  <2>3. SegmentTotal(segments) = SumSatoshis(segments)
    BY <1>1, <2>1, <2>2, SegmentTotalIsSum
  <2> QED BY <2>3 DEF Balanced, Covers
<1> HIDE DEF change
<1>6. outs \o ChangeOutputs(pay) = CovenantOutputs(tok, segments, change)
  BY <1>3, <1>4 DEF CovenantOutputs
<1>7. Settled(tok, u, value, outs \o ChangeOutputs(pay))
  BY <1>1, <1>2, <1>5, <1>6 DEF Settled, Covers, change
<1> QED BY <1>7

\* The funding outpoint in the unlocking data is the one of the payment.
LEMMA FundingIsPayment ==
  ASSUME LeadingZeroTxids = {}, NEW pay, IsPay(pay), NEW u, u.funding = Funding(pay)
  PROVE  FundingInputs(u) = Ops(pay)
<1>1. CASE pay = <<>>
  BY <1>1 DEF Funding, FundingInputs, Ops
<1>2. CASE pay # <<>>
  <2>1. PICK v \in UtxoRecords : pay = <<v>>
    BY <1>2 DEF IsPay
  <2>2. v.op \in Outpoints
    BY DEF UtxoRecords
  <2>3. Funding(pay) = [txid |-> v.op.txid, vout |-> v.op.vout]
    BY <1>2, <2>1 DEF Funding, reverseEndian
  <2>4. Funding(pay) = v.op /\ v.op # NoOutpoint
    BY <2>2, <2>3 DEF Outpoints, NoOutpoint
  <2>5. Ops(pay) = <<v.op>>
    BY <2>1 DEF Ops
  <2> QED BY <2>4, <2>5 DEF FundingInputs
<1> QED BY <1>1, <1>2

\* At most one input follows those of the tokens, and it spends no token.
LEMMA PaymentInputs ==
  ASSUME chain \in Seq(Txs), NEW pay \in Payments
  PROVE  /\ Ops(pay) \in Seq(Created(chain)) /\ Len(Ops(pay)) \in 0..1
         /\ \A i \in 1..Len(Ops(pay)) : OutputOf(chain, Ops(pay)[i]).kind = "p2pkh"
<1>1. /\ IsPay(pay) /\ pay \in Seq(UtxoRecords) /\ FromChain(chain, pay)
      /\ \A i \in DOMAIN Ops(pay) : OutputOf(chain, Ops(pay)[i]).kind = "p2pkh"
  BY PaymentsFromChain, UtxosType DEF OutputOf, ChainOutput
<1>2. Ops(pay) \in Seq(Created(chain))
  BY <1>1, UtxosSum
<1>3. Len(Ops(pay)) \in 0..1
  <2>1. CASE pay = <<>>
    BY <2>1 DEF Ops
  <2>2. ASSUME NEW v \in UtxoRecords, pay = <<v>> PROVE Len(Ops(pay)) \in 0..1
    <3>1. Ops(pay) = <<v.op>>
      BY <2>2 DEF Ops
    <3> QED BY <3>1
  <2> QED BY <1>1, <2>1, <2>2 DEF IsPay
<1> QED BY <1>1, <1>2, <1>3, LenProperties

-----------------------------------------------------------------------------
(* One input and its payment: transfer, split, redeem, redeemSplit and issue *)

\* The inputs of such a transaction.
OneAndPayment(ch, ops, op, kind) ==
    /\ Len(ops) <= 2 /\ Distinct(ops)
    /\ ops[1] = op /\ 1 \in DOMAIN ops
    /\ \A i \in DOMAIN ops : OutputOf(ch, ops[i]).kind = IF i = 1 THEN kind ELSE "p2pkh"

LEMMA BasicTxInputs ==
  ASSUME chain \in Seq(Txs), NEW kind, kind # "p2pkh", NEW u \in Utxos(kind), NEW pay \in Payments
  PROVE  OneAndPayment(chain, <<u.op>> \o Ops(pay), u.op, kind)
<1> DEFINE ops == <<u.op>> \o Ops(pay)
<1>1. chain \in Seq(Txs)
  OBVIOUS
<1>2. u.op \in Created(chain) /\ OutputOf(chain, u.op).kind = kind
  BY <1>1, UtxosType DEF OutputOf, ChainOutput
<1>3. PICK m \in 0..1 : /\ Ops(pay) \in Seq(Created(chain)) /\ Len(Ops(pay)) = m
                        /\ \A i \in 1..m : OutputOf(chain, Ops(pay)[i]).kind = "p2pkh"
  BY <1>1, PaymentInputs
<1>4. <<u.op>> \in Seq(Created(chain)) /\ Len(<<u.op>>) = 1 /\ <<u.op>>[1] = u.op
  BY <1>2, SingletonSeq
<1>5. /\ ops \in Seq(Created(chain)) /\ Len(ops) = 1 + m /\ ops[1] = u.op
      /\ \A i \in 2..(1 + m) : ops[i] = Ops(pay)[i - 1]
  BY <1>3, <1>4, ConcatProperties
<1> HIDE DEF ops
<1>6. DOMAIN ops = 1..(1 + m)
  BY <1>5, LenProperties
<1>7. m = 1 => OutputOf(chain, ops[2]).kind = "p2pkh"
  BY <1>3, <1>5
<1>8. \A i \in DOMAIN ops : i = 1 \/ (m = 1 /\ i = 2)
  BY <1>6
<1>9. \A i \in DOMAIN ops :
         OutputOf(chain, ops[i]).kind = IF i = 1 THEN kind ELSE "p2pkh"
  BY <1>2, <1>5, <1>7, <1>8
<1>10. Distinct(ops)
  <2>1. m = 1 => ops[1] # ops[2]
    BY <1>2, <1>5, <1>7
  <2> QED BY <1>8, <2>1 DEF Distinct
<1>11. OneAndPayment(chain, ops, u.op, kind)
  BY <1>5, <1>6, <1>9, <1>10 DEF OneAndPayment
<1> QED BY <1>11 DEF ops

LEMMA BasicTxGood ==
  ASSUME chain \in Seq(Txs), LeadingZeroTxids = {}, NEW u \in Utxos("stas"), NEW pay \in Payments,
         ChangeCovered(pay), NEW outs, NEW segments,
         Covers(u.out.tok, segments, u.out.satoshis, outs)
  PROVE  GoodAlone(chain, BasicTx(u, outs, segments, pay))
<1> DEFINE tx == BasicTx(u, outs, segments, pay)
           all == segments \o ChangeSegments(pay)
           un == partialSTASUnlockingScript(all, pay)
<1>1. /\ IsPay(pay)
      /\ u.out.kind = "stas" /\ u.out = OutputOf(chain, u.op) /\ u.out.satoshis \in Nat
  <2>1. chain \in Seq(Txs)
    OBVIOUS
  <2>2. u \in UtxoRecords /\ u.out.kind = "stas" /\ u.out = OutputOf(chain, u.op)
    BY <2>1, UtxosType DEF ChainOutput, OutputOf
  <2>3. IsPay(pay)
    BY <2>1, UtxosType
  <2> QED BY <2>2, <2>3 DEF UtxoRecords, Outputs
<1>2. /\ tx.ins = <<u.op>> \o Ops(pay)
      /\ tx.outs = outs \o ChangeOutputs(pay)
      /\ tx.unlock = <<un>> \o PlainUnlocks(pay)
  BY DEF BasicTx
<1> HIDE DEF tx
<1>3. /\ Len(tx.ins) <= 2 /\ Distinct(tx.ins)
      /\ tx.ins[1] = u.op /\ 1 \in DOMAIN tx.ins
      /\ \A i \in DOMAIN tx.ins : OutputOf(chain, tx.ins[i]).kind = "stas" => i = 1
  <2>1. "stas" # "p2pkh"
    OBVIOUS
  <2>2. OneAndPayment(chain, <<u.op>> \o Ops(pay), u.op, "stas")
    BY <2>1, BasicTxInputs
  <2>3. OneAndPayment(chain, tx.ins, u.op, "stas")
    BY <1>2, <2>2
  <2> QED BY <2>3 DEF OneAndPayment
<1>4. /\ un.type = "basic" /\ un.funding = Funding(pay)
      /\ un.pairs = IF pay = <<>> THEN Append(all, NilSegment) ELSE all
  BY DEF partialSTASUnlockingScript
<1> HIDE DEF un
<1>5. tx.unlock[1] = un
  <2>1. PlainUnlocks(pay) \in Seq(Unlocks)
    BY <1>1, PayType
  <2> QED BY <1>2, <2>1, SeqHead
<1>6. Settled(u.out.tok, un, u.out.satoshis, tx.outs)
  BY <1>1, <1>2, <1>4, UnlockSettles
<1>7. tx.ins = <<u.op>> \o FundingInputs(un)
  BY <1>1, <1>2, <1>4, FundingIsPayment
<1>8. CovenantHolds(chain, tx, 1)
  <2>1. Utxo(chain, tx.ins[1]).out = u.out
    BY <1>1, <1>3 DEF Utxo, OutputOf
  <2>2. u.out.satoshis + 0 = u.out.satoshis
    BY <1>1
  <2>3. un.type \in {"basic", "merge"} /\ un.type # "merge"
    BY <1>4
  <2> QED BY <1>3, <1>5, <1>6, <1>7, <2>1, <2>2, <2>3, Zenon DEF CovenantHolds, Settled
<1>9. SpentTokens(chain, tx) = {1}
  BY <1>1, <1>3 DEF SpentTokens
<1>10. Passes(chain, tx)
  <2>1. ScriptsHold(chain, tx)
    BY <1>3, <1>8 DEF ScriptsHold, Utxo, OutputOf
  <2> QED BY <1>3, <1>4, <1>5, <1>9, <2>1 DEF Passes
<1>11. ~MergesTokens(chain, tx)
  BY <1>4, <1>5 DEF MergesTokens
<1>12. Len(tx.ins) <= MaxParentInputs
  BY <1>2, <1>3 DEF MaxParentInputs
<1> QED BY <1>9, <1>10, <1>11, <1>12 DEF GoodAlone, TxGood, Acceptable, tx

-----------------------------------------------------------------------------
(* Two token inputs: merge and mergeSplit *)

LEMMA PairSecond ==
  ASSUME NEW x, NEW y, NEW T, NEW t \in Seq(T)
  PROVE  (<<x, y>> \o t)[2] = y
<1> DEFINE S == T \cup {x, y}
           h == <<x, y>>
<1>1. h \in Seq(S) /\ Len(h) = 2 /\ h[2] = y
  OBVIOUS
<1>2. t \in Seq(S) /\ Len(t) \in Nat
  BY SeqMonotonic, LenProperties
<1> HIDE DEF S, h
<1>3. \A i \in 1..(Len(h) + Len(t)) :
         (h \o t)[i] = IF i <= Len(h) THEN h[i] ELSE t[i - Len(h)]
  <2>1. h \in Seq(S) /\ t \in Seq(S)
    BY <1>1, <1>2
  <2> QED BY <2>1, ConcatProperties
<1> QED BY <1>1, <1>2, <1>3 DEF h

\* The inputs of such a transaction.
TwoTokens(ch, ops, op1, op2) ==
    /\ Len(ops) <= 3 /\ Distinct(ops)
    /\ ops[1] = op1 /\ ops[2] = op2 /\ 1 \in DOMAIN ops /\ 2 \in DOMAIN ops
    /\ \A i \in DOMAIN ops : OutputOf(ch, ops[i]).kind = "stas" => i \in {1, 2}

LEMMA MergeTxInputs ==
  ASSUME chain \in Seq(Txs), NEW u1 \in Utxos("stas"), NEW u2 \in Utxos("stas"), u1 # u2,
         NEW pay \in Payments
  PROVE  TwoTokens(chain, <<u1.op, u2.op>> \o Ops(pay), u1.op, u2.op)
<1> DEFINE two == <<u1.op, u2.op>>
           ops == two \o Ops(pay)
<1>1. chain \in Seq(Txs)
  OBVIOUS
<1>2. /\ u1.op \in Created(chain) /\ OutputOf(chain, u1.op).kind = "stas"
      /\ u2.op \in Created(chain) /\ OutputOf(chain, u2.op).kind = "stas"
      /\ u1.op # u2.op
  <2>1. \A u \in Utxos("stas") : /\ u.op \in Created(chain) /\ u \in UtxoRecords
                                 /\ u.out = OutputOf(chain, u.op) /\ u.out.kind = "stas"
    BY <1>1, UtxosType DEF OutputOf, ChainOutput
  <2> QED BY <2>1 DEF UtxoRecords
<1>3. PICK m \in 0..1 : /\ Ops(pay) \in Seq(Created(chain)) /\ Len(Ops(pay)) = m
                        /\ \A i \in 1..m : OutputOf(chain, Ops(pay)[i]).kind = "p2pkh"
  BY <1>1, PaymentInputs
<1>4. two \in Seq(Created(chain)) /\ Len(two) = 2 /\ two[1] = u1.op /\ two[2] = u2.op
  BY <1>2
<1>5. ops = two \o Ops(pay)
  OBVIOUS
<1> HIDE DEF two, ops
<1>6. /\ two \o Ops(pay) \in Seq(Created(chain))
      /\ Len(two \o Ops(pay)) = Len(two) + Len(Ops(pay))
      /\ \A i \in 1..(Len(two) + Len(Ops(pay))) :
            (two \o Ops(pay))[i] = IF i <= Len(two) THEN two[i] ELSE Ops(pay)[i - Len(two)]
  <2>1. two \in Seq(Created(chain)) /\ Ops(pay) \in Seq(Created(chain))
    BY <1>3, <1>4
  <2> QED BY <2>1, ConcatProperties
<1>7. /\ ops \in Seq(Created(chain)) /\ Len(ops) = 2 + m
      /\ \A i \in 1..(2 + m) : ops[i] = IF i <= 2 THEN two[i] ELSE Ops(pay)[i - 2]
  BY <1>3, <1>4, <1>5, <1>6
<1>8. DOMAIN ops = 1..(2 + m)
  <2>1. ops \in Seq(Created(chain))
    BY <1>7
  <2> QED BY <1>7, <2>1, LenProperties
<1>9. ops[1] = u1.op /\ ops[2] = u2.op /\ (m = 1 => ops[3] = Ops(pay)[1])
  BY <1>4, <1>7
<1>10. m = 1 => OutputOf(chain, ops[3]).kind = "p2pkh"
  BY <1>3, <1>9
<1>11. \A i \in DOMAIN ops : i = 1 \/ i = 2 \/ (m = 1 /\ i = 3)
  BY <1>8
<1>12. Distinct(ops)
  <2>1. m = 1 => ops[3] # ops[1] /\ ops[3] # ops[2]
    BY <1>2, <1>9, <1>10
  <2> QED BY <1>2, <1>9, <1>11, <2>1 DEF Distinct
<1>13. 1 \in DOMAIN ops /\ 2 \in DOMAIN ops /\ Len(ops) <= 3
  BY <1>7, <1>8
<1>14. \A i \in DOMAIN ops : OutputOf(chain, ops[i]).kind = "stas" => i \in {1, 2}
  BY <1>10, <1>11
<1>15. TwoTokens(chain, ops, u1.op, u2.op)
  BY <1>9, <1>12, <1>13, <1>14 DEF TwoTokens
<1> QED BY <1>15 DEF ops, two

\* The pieces that the builder counts prove the other input to the covenant.
LEMMA MergeProofHolds ==
  ASSUME chain \in Seq(Txs), NEW u \in Utxos("stas"), Reachable(chain, u.op),
         NEW un, un.other = u.op, un.pieces = Pieces(chain, u)
  PROVE  MergeProof(chain, un, u.out.tok)
<1> DEFINE copies == TailCopies(chain, u.op.txid, u.out.tok)
<1>1. chain \in Seq(Txs)
  OBVIOUS
<1>2. u.op \in Created(chain) /\ u.out.kind = "stas" /\ u.out = OutputOf(chain, u.op)
  BY <1>1, UtxosType DEF OutputOf, ChainOutput
<1>3. Cardinality(copies) \in Nat
  BY <1>1, <1>2, CopiesType
<1>4. un.pieces = 1 + Cardinality(copies)
  BY DEF Pieces, numberOfPieces
<1>5. Cardinality(copies) < MaxPieces
  BY <1>2 DEF Reachable
<1>6. un.pieces - 1 = Cardinality(copies) /\ un.pieces <= MaxPieces
  <2> HIDE DEF copies
  <2> QED BY <1>3, <1>4, <1>5 DEF MaxPieces
<1>7. IsStas(Utxo(chain, un.other).out, u.out.tok)
  BY <1>2 DEF IsStas, Utxo, OutputOf
<1>8. Len(chain[un.other.txid].ins) <= MaxParentInputs /\ un.other.vout <= MaxParentVout
  BY DEF Reachable
<1> QED BY <1>6, <1>7, <1>8 DEF MergeProof

LEMMA MergeTxGood ==
  ASSUME chain \in Seq(Txs), LeadingZeroTxids = {},
         NEW u1 \in Utxos("stas"), NEW u2 \in Utxos("stas"), u1 # u2,
         u1.out.tok = u2.out.tok, NEW pay \in Payments, ChangeCovered(pay), NEW dests,
         Covers(u1.out.tok, dests, u1.out.satoshis + u2.out.satoshis,
                StasOutputs(u1.out.tok, dests))
  PROVE  GoodMerge(chain, MergeTxOf(chain, u1, u2, dests, pay), u1, u2)
<1> DEFINE tx == MergeTxOf(chain, u1, u2, dests, pay)
           all == dests \o ChangeSegments(pay)
           un1 == partialStasMergeScript(all, pay, u2.op, Pieces(chain, u2))
           un2 == partialStasMergeScript(all, pay, u1.op, Pieces(chain, u1))
           tok == u1.out.tok
           value == u1.out.satoshis + u2.out.satoshis
<1>1. /\ IsPay(pay) /\ chain \in Seq(Txs)
      /\ \A u \in Utxos("stas") : /\ u.op \in Created(chain) /\ u.out.kind = "stas"
                                  /\ u.out = OutputOf(chain, u.op)
                                  /\ u.out.satoshis \in Nat
  <2>1. chain \in Seq(Txs)
    OBVIOUS
  <2>2. \A u \in Utxos("stas") : /\ u \in UtxoRecords /\ u.op \in Created(chain)
                                 /\ u.out.kind = "stas" /\ u.out = OutputOf(chain, u.op)
    BY <2>1, UtxosType DEF ChainOutput, OutputOf
  <2>3. IsPay(pay)
    BY <2>1, UtxosType
  <2> QED BY <2>1, <2>2, <2>3 DEF UtxoRecords, Outputs
<1>2. /\ tx.ins = <<u1.op, u2.op>> \o Ops(pay)
      /\ tx.outs = StasOutputs(tok, dests) \o ChangeOutputs(pay)
      /\ tx.unlock = <<un1, un2>> \o PlainUnlocks(pay)
  BY DEF MergeTxOf
<1> HIDE DEF tx
<1>3. /\ Len(tx.ins) <= 3 /\ Distinct(tx.ins)
      /\ tx.ins[1] = u1.op /\ tx.ins[2] = u2.op
      /\ 1 \in DOMAIN tx.ins /\ 2 \in DOMAIN tx.ins
      /\ \A i \in DOMAIN tx.ins :
            OutputOf(chain, tx.ins[i]).kind = "stas" => i \in {1, 2}
  <2>1. TwoTokens(chain, <<u1.op, u2.op>> \o Ops(pay), u1.op, u2.op)
    BY MergeTxInputs
  <2>2. TwoTokens(chain, tx.ins, u1.op, u2.op)
    BY <1>2, <2>1
  <2> QED BY <2>2 DEF TwoTokens
<1>4. /\ un1.type = "merge" /\ un1.funding = Funding(pay)
      /\ un1.other = u2.op /\ un1.pieces = Pieces(chain, u2)
      /\ un1.pairs = IF pay = <<>> THEN Append(all, NilSegment) ELSE all
  BY DEF partialStasMergeScript
<1>5. /\ un2.type = "merge" /\ un2.funding = Funding(pay)
      /\ un2.other = u1.op /\ un2.pieces = Pieces(chain, u1)
      /\ un2.pairs = IF pay = <<>> THEN Append(all, NilSegment) ELSE all
  BY DEF partialStasMergeScript
<1> HIDE DEF un1, un2
<1>6. tx.unlock[1] = un1 /\ tx.unlock[2] = un2
  <2>1. PlainUnlocks(pay) \in Seq(Unlocks)
    BY <1>1, PayType
  <2> QED BY <1>2, <2>1, PairHead, PairSecond
<1>7. /\ Settled(tok, un1, value, tx.outs)
      /\ Settled(tok, un2, value, tx.outs)
  BY <1>1, <1>2, <1>4, <1>5, UnlockSettles
<1>8. /\ tx.ins = <<u1.op, u2.op>> \o FundingInputs(un1)
      /\ tx.ins = <<u1.op, u2.op>> \o FundingInputs(un2)
  BY <1>1, <1>2, <1>4, <1>5, FundingIsPayment
<1>9. /\ Utxo(chain, u1.op).out = u1.out /\ Utxo(chain, u2.op).out = u2.out
      /\ value = u2.out.satoshis + u1.out.satoshis
  BY <1>1 DEF Utxo, OutputOf
<1>10. ASSUME Reachable(chain, u2.op) PROVE CovenantHolds(chain, tx, 1)
  <2>1. MergeProof(chain, un1, u1.out.tok)
    BY <1>4, <1>10, MergeProofHolds
  <2>2. un1.type \in {"basic", "merge"}
    BY <1>4
  <2>3. tx.ins \in {<<u1.op, u2.op>> \o FundingInputs(un1), <<u2.op, u1.op>> \o FundingInputs(un1)}
    BY <1>8
  <2> QED BY <1>3, <1>4, <1>6, <1>7, <1>9, <2>1, <2>2, <2>3, Zenon
          DEF CovenantHolds, Settled
<1>11. ASSUME Reachable(chain, u1.op) PROVE CovenantHolds(chain, tx, 2)
  <2>1. MergeProof(chain, un2, u2.out.tok)
    BY <1>5, <1>11, MergeProofHolds
  <2>2. un2.type \in {"basic", "merge"}
    BY <1>5
  <2>3. tx.ins \in {<<u2.op, u1.op>> \o FundingInputs(un2), <<u1.op, u2.op>> \o FundingInputs(un2)}
    BY <1>8
  <2> QED BY <1>3, <1>5, <1>6, <1>7, <1>9, <2>1, <2>2, <2>3, Zenon
          DEF CovenantHolds, Settled
<1>12. SpentTokens(chain, tx) = {1, 2}
  BY <1>1, <1>3 DEF SpentTokens
<1>13. MergesTokens(chain, tx)
  BY <1>4, <1>6, <1>12 DEF MergesTokens
<1>14. ASSUME Reachable(chain, u1.op), Reachable(chain, u2.op) PROVE Passes(chain, tx)
  <2>1. ScriptsHold(chain, tx)
    BY <1>3, <1>10, <1>11, <1>14 DEF ScriptsHold, Utxo, OutputOf
  <2>2. \A i \in {1, 2} : tx.unlock[i].other \in Created(chain)
    BY <1>1, <1>4, <1>5, <1>6
  <2> QED BY <1>3, <1>12, <2>1, <2>2 DEF Passes
<1>15. Acceptable(chain, tx)
  BY <1>3, <1>13, <1>14 DEF Acceptable
<1>16. Len(tx.ins) <= MaxParentInputs
  BY <1>3 DEF MaxParentInputs
<1> QED BY <1>3, <1>12, <1>15, <1>16 DEF GoodMerge, TxGood, tx

-----------------------------------------------------------------------------
(* No token input: issue and contract *)

LEMMA PlainTxGood ==
  ASSUME NEW tx, Len(tx.ins) <= 3, Distinct(tx.ins),
         \A i \in DOMAIN tx.ins : OutputOf(chain, tx.ins[i]).kind # "stas",
         \A k \in DOMAIN tx.outs : tx.outs[k].kind = "stas" => tx.outs[k].satoshis > 0
  PROVE  GoodAlone(chain, tx)
<1>1. SpentTokens(chain, tx) = {}
  BY Zenon DEF SpentTokens
<1>2. ~MergesTokens(chain, tx)
  BY <1>1 DEF MergesTokens
<1>3. ScriptsHold(chain, tx)
  BY Zenon DEF ScriptsHold, Utxo, OutputOf
<1>4. Acceptable(chain, tx)
  BY <1>1, <1>3 DEF Acceptable, Passes
<1> QED BY <1>2, <1>4 DEF GoodAlone, TxGood, MaxParentInputs

LEMMA IssueTxGood ==
  ASSUME chain \in Seq(Txs), NEW u \in Utxos("contract"), NEW info \in Seq(IssueInfos),
         NEW pay \in Payments, NEW isSplittable \in BOOLEAN, NEW symbol \in Symbols,
         issueGuards(u, info, pay, symbol)
  PROVE  GoodAlone(chain, issueTx(u, info, pay, isSplittable, symbol))
<1> DEFINE tx == issueTx(u, info, pay, isSplittable, symbol)
           issued == [k \in DOMAIN info |->
                        StasOut(info[k].addr,
                                [red |-> u.out.pkh, symbol |-> symbol,
                                 isSplittable |-> isSplittable, data |-> info[k].data],
                                info[k].satoshis)]
<1>1. /\ u \in UtxoRecords /\ IsPay(pay) /\ ChangeCovered(pay)
      /\ \A k \in DOMAIN info : info[k].satoshis >= 1
  BY UtxosType DEF issueGuards, isIssueInfoValid
<1>2. tx.ins = <<u.op>> \o Ops(pay) /\ tx.outs = issued \o ChangeOutputs(pay)
  BY DEF issueTx
<1> HIDE DEF tx
<1>3. OneAndPayment(chain, tx.ins, u.op, "contract")
  <2>1. "contract" # "p2pkh"
    OBVIOUS
  <2>2. OneAndPayment(chain, <<u.op>> \o Ops(pay), u.op, "contract")
    BY <2>1, BasicTxInputs
  <2> QED BY <1>2, <2>2
<1>4. /\ issued \in Seq(Outputs)
      /\ \A k \in DOMAIN issued : issued[k].satoshis > 0
  <2>1. PICK n \in Nat : DOMAIN info = 1..n /\ \A k \in 1..n : info[k] \in IssueInfos
    BY LenProperties, ElementOfSeq
  <2>2. issued \in [1..n -> Outputs]
    BY <1>1, <2>1 DEF StasOut, Outputs, IssueInfos, UtxoRecords, Tokens
  <2>3. \A k \in 1..n : issued[k].satoshis = info[k].satoshis /\ info[k].satoshis \in Nat
    BY <2>1 DEF StasOut, IssueInfos
  <2>4. \A k \in 1..n : issued[k].satoshis > 0
    BY <1>1, <2>1, <2>3
  <2> HIDE DEF issued
  <2> QED BY <2>2, <2>4, FunctionIsSeq
<1> HIDE DEF issued
<1>5. \A k \in DOMAIN tx.outs : tx.outs[k].kind = "stas" => tx.outs[k].satoshis > 0
  BY <1>1, <1>2, <1>4, ChangeIsPlain
<1>6. \A i \in DOMAIN tx.ins : OutputOf(chain, tx.ins[i]).kind # "stas"
  BY <1>3 DEF OneAndPayment
<1>7. Len(tx.ins) <= 3 /\ Distinct(tx.ins)
  <2>1. Len(tx.ins) <= 2 /\ Distinct(tx.ins)
    BY <1>3 DEF OneAndPayment
  <2>2. Len(tx.ins) \in Nat
    <3>1. chain \in Seq(Txs)
      OBVIOUS
    <3>2. Ops(pay) \in Seq(Outpoints) /\ <<u.op>> \in Seq(Outpoints)
      BY <1>1, PayType, SingletonSeq DEF UtxoRecords
    <3>3. tx.ins \in Seq(Outpoints)
      BY <1>2, <3>2, ConcatProperties
    <3> QED BY <3>3, LenProperties
  <2> QED BY <2>1, <2>2
<1>8. GoodAlone(chain, tx)
  BY <1>5, <1>6, <1>7, PlainTxGood
<1> QED BY <1>8 DEF tx

\* Different UTXOs have different places.
LEMMA PlacesDiffer ==
  ASSUME NEW all \in Seq(Utxos("p2pkh")),
         \A i, j \in DOMAIN all : all[i] = all[j] => i = j,
         NEW ops, DOMAIN ops = DOMAIN all, \A i \in DOMAIN all : ops[i] = all[i].op
  PROVE  Distinct(ops)
<1>1. \A u, v \in Utxos("p2pkh") : u.op = v.op => u = v
  BY DEF Utxos, Utxo
<1>2. \A i \in DOMAIN all : all[i] \in Utxos("p2pkh")
  BY LenProperties, ElementOfSeq
<1> QED BY <1>1, <1>2 DEF Distinct

LEMMA ContractTxGood ==
  ASSUME chain \in Seq(Txs), NEW u \in Utxos("p2pkh"), NEW pay \in Payments,
         NEW more \in {<<>>} \cup {<<v>> : v \in Utxos("p2pkh") \ {u}},
         ToSet(<<u>> \o more) \cap ToSet(pay) = {},
         NEW symbol, NEW data, NEW amount
  PROVE  GoodAlone(chain, contractTx(<<u>> \o more, pay, symbol, data, amount))
<1> DEFINE U == Utxos("p2pkh")
           inputs == <<u>> \o more
           tx == contractTx(inputs, pay, symbol, data, amount)
           all == inputs \o pay
<1>1. /\ more \in Seq(U) /\ Len(more) \in 0..1
      /\ \A i \in 1..Len(more) : more[i] # u
  <2>1. CASE more = <<>>
    BY <2>1, EmptySeq
  <2>2. ASSUME NEW v \in U \ {u}, more = <<v>>
        PROVE  more \in Seq(U) /\ Len(more) = 1 /\ more[1] # u
    BY <2>2, SingletonSeq
  <2> HIDE DEF U
  <2> QED BY <2>1, <2>2 DEF U
<1>2. pay \in Seq(U) /\ Len(pay) \in 0..1
  <2>1. CASE pay = <<>>
    BY <2>1, EmptySeq
  <2>2. ASSUME NEW v \in U, pay = <<v>>
        PROVE  pay \in Seq(U) /\ Len(pay) = 1
    BY <2>2, SingletonSeq
  <2>3. pay = <<>> \/ \E v \in U : pay = <<v>>
    BY DEF Payments
  <2> HIDE DEF U
  <2> QED BY <2>1, <2>2, <2>3
<1>3. tx.ins = Ops(inputs) \o Ops(pay)
  BY DEF contractTx
<1>4. \A k \in DOMAIN tx.outs : tx.outs[k].kind # "stas"
  BY DEF contractTx, contractChange, P2pkhOut
<1>5. DOMAIN more = 1..Len(more) /\ DOMAIN pay = 1..Len(pay)
  BY <1>1, <1>2, LenProperties
<1> HIDE DEF tx, U
<1>6. /\ inputs \in Seq(U) /\ Len(inputs) = 1 + Len(more)
      /\ inputs[1] = u /\ (Len(more) = 1 => inputs[2] = more[1])
      /\ DOMAIN inputs = 1..(1 + Len(more))
  <2>1. <<u>> \in Seq(U) /\ Len(<<u>>) = 1 /\ <<u>>[1] = u
    BY SingletonSeq DEF U
  <2>2. /\ inputs \in Seq(U) /\ Len(inputs) = 1 + Len(more)
        /\ \A i \in 1..(1 + Len(more)) : inputs[i] = IF i <= 1 THEN <<u>>[i] ELSE more[i - 1]
    BY <1>1, <2>1, ConcatProperties
  <2> QED BY <1>1, <2>1, <2>2, LenProperties
<1> HIDE DEF inputs
<1>7. \A i \in DOMAIN inputs : \A j \in DOMAIN pay : inputs[i] # pay[j]
  BY DEF ToSet, inputs
<1>8. PICK m \in 0..1, n \in 0..1 : Len(more) = m /\ Len(pay) = n
  BY <1>1, <1>2
<1>9. /\ all \in Seq(U) /\ Len(all) = 1 + m + n
      /\ \A i \in 1..(1 + m + n) : all[i] = IF i <= 1 + m THEN inputs[i] ELSE pay[i - (1 + m)]
      /\ DOMAIN all = 1..(1 + m + n)
  BY <1>2, <1>6, <1>8, ConcatProperties, LenProperties
<1>10. \A i, j \in DOMAIN all : all[i] = all[j] => i = j
  <2> HIDE DEF all
  <2>1. m = 1 => inputs[1] # inputs[2]
    BY <1>1, <1>6, <1>8
  <2>2. \A i \in 1..(1 + m), j \in 1..n : inputs[i] # pay[j]
    BY <1>5, <1>6, <1>7, <1>8
  <2> QED BY <1>9, <2>1, <2>2
<1>11. /\ Ops(inputs) \in Seq(Outpoints) /\ Len(Ops(inputs)) = 1 + m
       /\ \A i \in 1..(1 + m) : Ops(inputs)[i] = inputs[i].op
  <2>1. U \subseteq UtxoRecords
    BY UtxosType DEF U
  <2>2. Ops(inputs) \in Seq(Outpoints)
    BY <1>6, <2>1, SeqMonotonic, UtxoSeqType
  <2>3. DOMAIN Ops(inputs) = 1..(1 + m) /\ \A i \in 1..(1 + m) : Ops(inputs)[i] = inputs[i].op
    BY <1>6, <1>8 DEF Ops
  <2> QED BY <2>2, <2>3, LenProperties
<1>12. /\ Ops(pay) \in Seq(Outpoints) /\ Len(Ops(pay)) = n
       /\ \A i \in 1..n : Ops(pay)[i] = pay[i].op
  <2>1. IsPay(pay)
    BY UtxosType
  <2>2. Ops(pay) \in Seq(Outpoints)
    BY <2>1, PayType
  <2>3. DOMAIN Ops(pay) = 1..n /\ \A i \in 1..n : Ops(pay)[i] = pay[i].op
    BY <1>5, <1>8 DEF Ops
  <2> QED BY <2>2, <2>3, LenProperties
<1>13. /\ tx.ins \in Seq(Outpoints) /\ Len(tx.ins) = 1 + m + n
       /\ \A i \in 1..(1 + m + n) :
             tx.ins[i] = IF i <= 1 + m THEN Ops(inputs)[i] ELSE Ops(pay)[i - (1 + m)]
       /\ DOMAIN tx.ins = 1..(1 + m + n)
  BY <1>3, <1>11, <1>12, ConcatProperties, LenProperties
<1> HIDE DEF all
<1>14. \A i \in DOMAIN all : tx.ins[i] = all[i].op
  <2>1. ASSUME NEW i \in 1..(1 + m + n) PROVE tx.ins[i] = all[i].op
    <3>1. CASE i <= 1 + m
      BY <1>9, <1>11, <1>13, <3>1
    <3>2. CASE ~(i <= 1 + m)
      <4>1. i - (1 + m) \in 1..n
        BY <3>2
      <4> QED BY <1>9, <1>12, <1>13, <3>2, <4>1
    <3> QED BY <3>1, <3>2
  <2> QED BY <1>9, <2>1
<1>15. Distinct(tx.ins)
  <2>1. DOMAIN tx.ins = DOMAIN all
    BY <1>9, <1>13
  <2> QED BY <1>9, <1>10, <1>14, <2>1, PlacesDiffer DEF U
<1>16. \A i \in DOMAIN tx.ins : OutputOf(chain, tx.ins[i]).kind # "stas"
  <2>1. \A v \in U : OutputOf(chain, v.op).kind = "p2pkh"
    BY UtxosType DEF OutputOf, ChainOutput, U
  <2>2. \A i \in DOMAIN all : all[i] \in U
    BY <1>9, LenProperties, ElementOfSeq
  <2> QED BY <1>9, <1>13, <1>14, <2>1, <2>2
<1>17. Len(tx.ins) <= 3
  BY <1>13
<1> QED BY <1>4, <1>15, <1>16, <1>17, PlainTxGood DEF tx, inputs

-----------------------------------------------------------------------------
(* What each call covers *)

\* transfer, redeem and merge: one output for everything that is spent.
LEMMA OneCovers ==
  ASSUME NEW tok, NEW pkh \in Keys, NEW value \in Nat, value > 0, NEW out \in Outputs,
         out = CovenantOutput(tok, 1, Segment(pkh, value))
  PROVE  Covers(tok, <<Segment(pkh, value)>>, value, <<out>>)
<1> DEFINE seg == Segment(pkh, value)
<1>1. seg \in Segments /\ seg.satoshis = value
  BY DEF Segment, Segments
<1>2. out = CovenantOutput(tok, 1, seg)
  OBVIOUS
<1> HIDE DEF seg
<1>3. <<seg>> \in Seq(Segments) /\ <<out>> \in Seq(Outputs)
  BY <1>1, SingletonSeq
<1>4. SumSatoshis(<<seg>>) = value
  BY <1>1, SumOfShort
<1>5. Covers(tok, <<seg>>, value, <<out>>)
  BY <1>1, <1>2, <1>3, <1>4 DEF Covers, MaxSegments
<1> QED BY <1>5 DEF seg

\* split, merge and mergeSplit: destinations that share out what is spent.
LEMMA DestsCover ==
  ASSUME NEW tok \in Tokens \cup {NoTok}, NEW dests \in Seq(Destinations),
         NEW n \in 1..4, Len(dests) = n, n = 1 \/ tok.isSplittable,
         \A k \in DOMAIN dests : dests[k].satoshis > 0,
         NotToIssuer(tok, dests), NEW value, SumSatoshis(dests) = value
  PROVE  Covers(tok, dests, value, StasOutputs(tok, dests))
<1> DEFINE outs == StasOutputs(tok, dests)
<1>1. outs \in Seq(Outputs) /\ dests \in Seq(Segments)
  BY StasOutputsType
<1>2. DOMAIN dests = 1..n
  BY LenProperties
<1>3. /\ DOMAIN outs = 1..n
      /\ \A k \in 1..n : outs[k] = StasOut(dests[k].pkh, tok, dests[k].satoshis)
  BY <1>2 DEF StasOutputs
<1>4. Len(outs) = n
  BY <1>1, <1>3, LenProperties
<1>5. \A k \in 1..n : outs[k] = CovenantOutput(tok, k, dests[k])
  BY <1>2, <1>3 DEF CovenantOutput, NotToIssuer
<1> HIDE DEF outs
<1>6. Covers(tok, dests, value, outs)
  BY <1>1, <1>2, <1>4, <1>5 DEF Covers, MaxSegments
<1> QED BY <1>6 DEF outs

\* redeemSplit: the rest goes to the redemption key, in front of the tokens.
LEMMA RestCovers ==
  ASSUME NEW tok \in Tokens \cup {NoTok}, NEW dests \in Seq(Destinations),
         NEW n \in 1..3, Len(dests) = n, tok.isSplittable,
         \A k \in DOMAIN dests : dests[k].satoshis > 0,
         NotToIssuer(tok, dests), tok.red \in Keys,
         NEW rest \in Nat, rest > 0, NEW value, SumSatoshis(dests) + rest = value
  PROVE  Covers(tok, <<Segment(tok.red, rest)>> \o dests, value,
                <<P2pkhOut(tok.red, rest)>> \o StasOutputs(tok, dests))
<1> DEFINE tokens == StasOutputs(tok, dests)
           out == P2pkhOut(tok.red, rest)
           seg == Segment(tok.red, rest)
           outs == <<out>> \o tokens
           segs == <<seg>> \o dests
<1>1. tokens \in Seq(Outputs) /\ dests \in Seq(Segments)
  BY StasOutputsType
<1>2. DOMAIN dests = 1..n
  BY LenProperties
<1>3. /\ DOMAIN tokens = 1..n
      /\ \A k \in 1..n : tokens[k] = StasOut(dests[k].pkh, tok, dests[k].satoshis)
  BY <1>2 DEF StasOutputs
<1>4. Len(tokens) = n
  BY <1>1, <1>3, LenProperties
<1>5. /\ out \in Outputs /\ seg \in Segments /\ seg.satoshis = rest
      /\ out = CovenantOutput(tok, 1, seg)
  BY DEF P2pkhOut, Segment, Outputs, Segments, CovenantOutput
<1> HIDE DEF tokens, out, seg
<1>6. <<out>> \in Seq(Outputs) /\ <<seg>> \in Seq(Segments)
  BY <1>5, SingletonSeq
<1>7. /\ outs \in Seq(Outputs) /\ Len(outs) = 1 + n /\ outs[1] = out
      /\ \A k \in 2..(1 + n) : outs[k] = tokens[k - 1]
  BY <1>1, <1>4, <1>6, ConcatProperties
<1>8. /\ segs \in Seq(Segments) /\ Len(segs) = 1 + n /\ segs[1] = seg
      /\ \A k \in 2..(1 + n) : segs[k] = dests[k - 1]
  BY <1>1, <1>6, ConcatProperties
<1>9. SumSatoshis(segs) = value
  <2>1. \A x \in Segments : x.satoshis \in Nat
    BY DEF Segments
  <2>2. SumSatoshis(segs) = SumSatoshis(<<seg>>) + SumSatoshis(dests)
    BY <1>1, <1>6, <2>1, SumOfConcat
  <2>3. SumSatoshis(<<seg>>) = rest
    BY <1>5, SumOfShort
  <2>4. SumSatoshis(dests) \in Nat
    BY <1>1, <2>1, SumSatoshisType
  <2> QED BY <2>2, <2>3, <2>4
<1> HIDE DEF outs, segs
<1>10. ASSUME NEW k \in 1..(1 + n)
       PROVE  segs[k].satoshis > 0 /\ outs[k] = CovenantOutput(tok, k, segs[k])
  <2>1. CASE k = 1
    BY <1>5, <1>7, <1>8, <2>1
  <2>2. CASE k # 1
    <3>1. k \in 2..(1 + n) /\ k - 1 \in 1..n
      BY <2>2
    <3>2. segs[k] = dests[k - 1] /\ outs[k] = tokens[k - 1]
      BY <1>7, <1>8, <3>1
    <3> QED BY <1>2, <1>3, <2>2, <3>1, <3>2 DEF CovenantOutput
  <2> QED BY <2>1, <2>2
<1>11. Covers(tok, segs, value, outs)
  <2>1. Len(segs) \in 1..4
    BY <1>8
  <2>2. \A k \in 1..Len(segs) :
           segs[k].satoshis > 0 /\ outs[k] = CovenantOutput(tok, k, segs[k])
    BY <1>8, <1>10
  <2> QED BY <1>7, <1>8, <1>9, <2>1, <2>2 DEF Covers, MaxSegments
<1> QED BY <1>11 DEF segs, outs, tokens, out, seg

\* Token UTXOs hold satoshis: their transactions were bounded when confirmed.
LEMMA TokensHoldSatoshis ==
  ASSUME chain \in Seq(Txs), ChainBounded, NEW u \in Utxos("stas")
  PROVE  /\ u.out.satoshis \in Nat /\ u.out.satoshis > 0
         /\ u.out.tok \in Tokens \cup {NoTok}
<1>1. chain \in Seq(Txs)
  OBVIOUS
<1>2. /\ u \in UtxoRecords /\ u.op \in Created(chain)
      /\ u.out = chain[u.op.txid].outs[u.op.vout + 1] /\ u.out.kind = "stas"
  BY <1>1, UtxosType DEF ChainOutput
<1>3. /\ u.op.txid \in DOMAIN chain
      /\ u.op.vout + 1 \in DOMAIN chain[u.op.txid].outs
  BY <1>1, <1>2, CreatedType
<1>4. TxBounded(chain, chain[u.op.txid])
  BY <1>3 DEF ChainBounded
<1>5. u.out.satoshis > 0
  BY <1>2, <1>3, <1>4 DEF TxBounded
<1> QED BY <1>2, <1>5 DEF UtxoRecords, Outputs

\* The amounts of a list of destinations.
LEMMA DestsType ==
  ASSUME NEW dests \in Seq(Destinations)
  PROVE  /\ Len(dests) \in Nat /\ (dests # <<>> => Len(dests) >= 1)
         /\ SumSatoshis(dests) \in Nat
<1>1. \A x \in Destinations : x.satoshis \in Nat
  BY DEF Destinations
<1>2. Len(dests) \in Nat /\ (dests # <<>> => Len(dests) # 0)
  BY LenProperties, EmptySeq
<1> QED BY <1>1, <1>2, SumSatoshisType

-----------------------------------------------------------------------------
(* What a node takes *)

\* The amounts are right by AcceptedPays, so Passes is all that matters.
LEMMA PassesIsAccepted ==
  ASSUME chain \in Seq(Txs), NEW tx \in BuiltTxs, Built(chain, tx), Sound(chain, tx),
         Passes(chain, tx), \A i \in DOMAIN tx.ins : tx.ins[i] \in Unspent(chain)
  PROVE  NetworkAccepts(chain, tx)
<1>1. ScriptsHold(chain, tx) /\ Distinct(tx.ins)
  BY DEF Passes
<1>2. Paid(chain, tx) \in {0, Fee}
  BY <1>1, AcceptedPays
<1>3. tx.ins \in Seq(Created(chain))
  <2>1. tx.ins \in [1..Len(tx.ins) -> Created(chain)] /\ Len(tx.ins) \in Nat
    BY LenProperties DEF Built, BuiltTxs
  <2> QED BY <2>1, FunctionIsSeq
<1>4. SumSatoshis(Ins(chain, tx.ins)) \in Nat
  BY <1>3, InsType
<1>5. SumSatoshis(tx.outs) \in Nat
  <2>1. tx.outs \in Seq(Outputs) /\ \A x \in Outputs : x.satoshis \in Nat
    BY DEF BuiltTxs, Outputs
  <2> QED BY <2>1, SumSatoshisType
<1>6. SumSatoshis(Ins(chain, tx.ins)) >= SumSatoshis(tx.outs)
  BY <1>2, <1>4, <1>5, FeeAssumption DEF Paid
<1>7. Ins(chain, tx.ins) = [i \in DOMAIN tx.ins |-> Utxo(chain, tx.ins[i]).out]
  BY DEF Ins, OutputOf, Utxo
<1> QED BY <1>1, <1>6, <1>7 DEF NetworkAccepts, Distinct

\* Both inputs that a merge names carry tokens.
LEMMA MergedTokens ==
  ASSUME NEW tx, Built(chain, tx), MergesTokens(chain, tx), NEW i \in 1..2
  PROVE  tx.ins[i] \in TokenOutputs
<1>1. SpentTokens(chain, tx) = {1, 2}
  BY DEF MergesTokens, Built, SpendsFirst, SpendsWhole
<1>2. i \in SpentTokens(chain, tx)
  BY <1>1
<1>3. /\ tx.ins[i] \in Created(chain)
      /\ OutputOf(chain, tx.ins[i]).kind = "stas"
  BY <1>2 DEF SpentTokens, Built
<1> QED BY <1>3 DEF TokenOutputs, OutputOf, ChainOutput

-----------------------------------------------------------------------------
(* Each call: what it makes of UTXOs of the chain *)

\* The transaction is typed, and its builder put it together properly.
Made(ch, tx) == tx \in BuiltTxs /\ Built(ch, tx) /\ Sound(ch, tx)

LEMMA UtxoFields ==
  ASSUME chain \in Seq(Txs), NEW kind, NEW u \in Utxos(kind)
  PROVE  /\ u \in UtxoRecords /\ u.op \in Created(chain) /\ u.out.kind = kind
         /\ u.out.satoshis \in Nat /\ u.out.tok \in Tokens \cup {NoTok}
  BY UtxosType DEF UtxoRecords, Outputs

\* One token input and its payment.
LEMMA BasicTxMade ==
  ASSUME chain \in Seq(Txs), NEW u \in Utxos("stas"), NEW pay \in Payments,
         NEW outs \in Seq(Outputs), NEW segments \in Seq(Segments), ChangeCovered(pay),
         \A k \in DOMAIN outs :
            outs[k].kind = "stas" => outs[k].pkh # outs[k].tok.red,
         SumSatoshis(outs) = SumSatoshis(segments)
  PROVE  Made(chain, BasicTx(u, outs, segments, pay))
<1>1. u \in UtxoRecords /\ IsPay(pay)
  BY UtxosType
<1>2. BasicTx(u, outs, segments, pay) \in BuiltTxs
  BY <1>1, BasicTxType
<1> QED BY <1>2, BasicTxBuilt, BasicTxSound DEF Made

LEMMA ContractMade ==
  ASSUME chain \in Seq(Txs), NEW inputs \in Seq(Utxos("p2pkh")), inputs # <<>>,
         NEW pay \in Payments, NEW symbol \in Symbols, NEW data \in Data,
         NEW perToken \in Nat, NEW amount \in Nat,
         contractGuards(inputs, pay, perToken, amount)
  PROVE  Made(chain, contractTx(inputs, pay, symbol, data, amount))
<1>1. IsPay(pay) /\ Utxos("p2pkh") \subseteq UtxoRecords
  BY UtxosType
<1>2. inputs \in Seq(UtxoRecords)
  BY <1>1, SeqMonotonic
<1>3. contractTx(inputs, pay, symbol, data, amount) \in BuiltTxs
  BY <1>1, <1>2, ContractType
<1> QED BY <1>3, ContractTxBuilt, ContractTxSound DEF Made

LEMMA IssueMade ==
  ASSUME chain \in Seq(Txs), NEW u \in Utxos("contract"), NEW info \in Seq(IssueInfos),
         NEW pay \in Payments, NEW isSplittable \in BOOLEAN, NEW symbol \in Symbols,
         issueGuards(u, info, pay, symbol)
  PROVE  Made(chain, issueTx(u, info, pay, isSplittable, symbol))
<1>1. u \in UtxoRecords /\ IsPay(pay)
  BY UtxosType
<1>2. issueTx(u, info, pay, isSplittable, symbol) \in BuiltTxs
  BY <1>1, IssueType
<1> QED BY <1>2, IssueTxBuilt, IssueTxSound DEF Made

\* One output for everything: transfer and redeem.
LEMMA OneOutputMade ==
  ASSUME chain \in Seq(Txs), NEW u \in Utxos("stas"), NEW pay \in Payments,
         ChangeCovered(pay), NEW out \in Outputs, NEW seg \in Segments,
         out.kind = "stas" => out.pkh # out.tok.red, out.satoshis = seg.satoshis
  PROVE  Made(chain, BasicTx(u, <<out>>, <<seg>>, pay))
<1>1. <<out>> \in Seq(Outputs) /\ <<seg>> \in Seq(Segments)
  BY SingletonSeq
<1>2. SumSatoshis(<<out>>) = SumSatoshis(<<seg>>)
  BY SumOfShort DEF Outputs, Segments
<1>3. \A k \in DOMAIN <<out>> :
         <<out>>[k].kind = "stas" => <<out>>[k].pkh # <<out>>[k].tok.red
  OBVIOUS
<1> QED BY <1>1, <1>2, <1>3, BasicTxMade

LEMMA TransferMade ==
  ASSUME chain \in Seq(Txs), NEW u \in Utxos("stas"), NEW dest \in Keys,
         NEW pay \in Payments, transferGuards(u, dest, pay)
  PROVE  Made(chain, transferTx(u, dest, pay))
<1> DEFINE out == StasOut(dest, u.out.tok, u.out.satoshis)
           seg == Segment(dest, u.out.satoshis)
<1>1. u.out.satoshis \in Nat /\ u.out.tok \in Tokens \cup {NoTok}
  BY UtxoFields
<1>2. /\ out \in Outputs /\ seg \in Segments /\ out.satoshis = seg.satoshis
      /\ out.pkh # out.tok.red /\ ChangeCovered(pay)
  BY <1>1 DEF StasOut, Segment, Outputs, Segments, transferGuards, getPublicKeyHash
<1>3. transferTx(u, dest, pay) = BasicTx(u, <<out>>, <<seg>>, pay)
  BY DEF transferTx
<1> HIDE DEF out, seg
<1> QED BY <1>2, <1>3, OneOutputMade

LEMMA RedeemMade ==
  ASSUME chain \in Seq(Txs), NEW u \in Utxos("stas"), NEW key \in Keys,
         NEW pay \in Payments, redeemGuards(pay)
  PROVE  Made(chain, redeemTx(u, key, pay))
<1> DEFINE out == P2pkhOut(key, u.out.satoshis)
           seg == Segment(key, u.out.satoshis)
<1>1. u.out.satoshis \in Nat
  BY UtxoFields
<1>2. /\ out \in Outputs /\ seg \in Segments /\ out.satoshis = seg.satoshis
      /\ out.kind # "stas" /\ ChangeCovered(pay)
  BY <1>1 DEF P2pkhOut, Segment, Outputs, Segments, redeemGuards
<1>3. redeemTx(u, key, pay) = BasicTx(u, <<out>>, <<seg>>, pay)
  BY DEF redeemTx
<1> HIDE DEF out, seg
<1> QED BY <1>2, <1>3, OneOutputMade

\* The outputs for destinations: tokens that do not go to the issuer.
LEMMA DestsMade ==
  ASSUME NEW tok \in Tokens \cup {NoTok}, NEW dests \in Seq(Destinations),
         NotToIssuer(tok, dests)
  PROVE  /\ StasOutputs(tok, dests) \in Seq(Outputs) /\ dests \in Seq(Segments)
         /\ SumSatoshis(StasOutputs(tok, dests)) = SumSatoshis(dests)
         /\ \A k \in DOMAIN StasOutputs(tok, dests) :
               StasOutputs(tok, dests)[k].pkh # StasOutputs(tok, dests)[k].tok.red
<1>1. \A k \in DOMAIN StasOutputs(tok, dests) :
         StasOutputs(tok, dests)[k].pkh # StasOutputs(tok, dests)[k].tok.red
  BY DEF NotToIssuer, StasOutputs, StasOut
<1> QED BY <1>1, StasOutputsType, StasOutputsSum

LEMMA SplitMade ==
  ASSUME chain \in Seq(Txs), NEW u \in Utxos("stas"), NEW dests \in Seq(Destinations),
         NEW pay \in Payments, splitGuards(u, dests, pay)
  PROVE  Made(chain, splitTx(u, dests, pay))
<1>1. u.out.tok \in Tokens \cup {NoTok}
  BY UtxoFields
<1>2. NotToIssuer(u.out.tok, dests) /\ ChangeCovered(pay)
  BY DEF splitGuards
<1> QED BY <1>1, <1>2, DestsMade, BasicTxMade DEF splitTx

LEMMA RedeemSplitMade ==
  ASSUME chain \in Seq(Txs), NEW u \in Utxos("stas"), NEW key \in Keys,
         NEW dests \in Seq(Destinations), NEW pay \in Payments,
         redeemSplitGuards(u, dests, pay)
  PROVE  Made(chain, redeemSplitTx(u, key, dests, pay))
<1> DEFINE out == P2pkhOut(key, redeemSats(u, dests))
           seg == Segment(key, redeemSats(u, dests))
           tokens == StasOutputs(u.out.tok, dests)
<1>1. u.out.tok \in Tokens \cup {NoTok} /\ u.out.satoshis \in Nat
  BY UtxoFields
<1>2. NotToIssuer(u.out.tok, dests) /\ ChangeCovered(pay)
  BY DEF redeemSplitGuards
<1>3. /\ tokens \in Seq(Outputs) /\ dests \in Seq(Segments)
      /\ SumSatoshis(tokens) = SumSatoshis(dests)
      /\ \A k \in DOMAIN tokens : tokens[k].pkh # tokens[k].tok.red
  BY <1>1, <1>2, DestsMade
<1>4. redeemSats(u, dests) \in Nat
  <2>1. \A x \in Destinations : x.satoshis \in Nat
    BY DEF Destinations
  <2> QED BY <1>1, <2>1, SumSatoshisType DEF redeemSats, redeemSplitGuards
<1>5. /\ out \in Outputs /\ seg \in Segments /\ out.kind = "p2pkh"
      /\ out.satoshis = redeemSats(u, dests) /\ seg.satoshis = redeemSats(u, dests)
  BY <1>4 DEF P2pkhOut, Segment, Outputs, Segments
<1>6. redeemSplitTx(u, key, dests, pay)
         = BasicTx(u, <<out>> \o tokens, <<seg>> \o dests, pay)
  BY DEF redeemSplitTx
<1> HIDE DEF out, seg, tokens
<1>7. /\ <<out>> \in Seq(Outputs) /\ Len(<<out>>) = 1 /\ <<out>>[1] = out
      /\ <<seg>> \in Seq(Segments)
  BY <1>5, SingletonSeq
<1>8. SumSatoshis(<<out>>) = SumSatoshis(<<seg>>)
  BY <1>4, <1>5, SumOfShort
<1>9. /\ <<out>> \o tokens \in Seq(Outputs)
      /\ SumSatoshis(<<out>> \o tokens) = SumSatoshis(<<out>>) + SumSatoshis(tokens)
  <2>1. \A x \in Outputs : x.satoshis \in Nat
    BY DEF Outputs
  <2> QED BY <1>3, <1>7, <2>1, ConcatProperties, SumOfConcat
<1>10. /\ <<seg>> \o dests \in Seq(Segments)
       /\ SumSatoshis(<<seg>> \o dests) = SumSatoshis(<<seg>>) + SumSatoshis(dests)
  <2>1. \A x \in Segments : x.satoshis \in Nat
    BY DEF Segments
  <2> QED BY <1>3, <1>7, <2>1, ConcatProperties, SumOfConcat
<1>11. SumSatoshis(<<out>> \o tokens) = SumSatoshis(<<seg>> \o dests)
  BY <1>3, <1>8, <1>9, <1>10
<1>12. ASSUME NEW k \in DOMAIN (<<out>> \o tokens), (<<out>> \o tokens)[k].kind = "stas"
       PROVE  (<<out>> \o tokens)[k].pkh # (<<out>> \o tokens)[k].tok.red
  <2>1. PICK m \in Nat : DOMAIN tokens = 1..m /\ m = Len(tokens)
    BY <1>3, LenProperties
  <2>2. DOMAIN (<<out>> \o tokens) = 1..(1 + m)
    BY <1>3, <1>7, <1>9, <2>1, ConcatProperties, LenProperties
  <2>3. /\ (<<out>> \o tokens)[1] = out
        /\ \A j \in 2..(1 + m) : (<<out>> \o tokens)[j] = tokens[j - 1]
    BY <1>3, <1>7, <2>1, ConcatProperties
  <2>4. k \in 2..(1 + m) /\ k - 1 \in 1..m
    <3>1. k # 1
      BY <1>5, <1>12, <2>3
    <3> QED BY <2>2, <3>1
  <2> QED BY <1>3, <2>1, <2>3, <2>4
<1> QED BY <1>2, <1>6, <1>9, <1>10, <1>11, <1>12, BasicTxMade

\* merge and mergeSplit hand their destinations to the same builder.
LEMMA MergeTxMade ==
  ASSUME chain \in Seq(Txs), NEW u1 \in Utxos("stas"), NEW u2 \in Utxos("stas"),
         NEW dests \in Seq(Destinations), NEW pay \in Payments,
         mergeGuards(chain, u1, u2, dests, pay)
  PROVE  Made(chain, MergeTxOf(chain, u1, u2, dests, pay))
<1>1. /\ u1 \in UtxoRecords /\ u1.op \in Created(chain)
      /\ u2 \in UtxoRecords /\ u2.op \in Created(chain) /\ IsPay(pay)
  BY UtxosType
<1>2. ChangeCovered(pay)
  BY DEF mergeGuards
<1>3. MergeTxOf(chain, u1, u2, dests, pay) \in BuiltTxs
  BY <1>1, <1>2, MergeTxType
<1> QED BY <1>2, <1>3, MergeTxBuilt, MergeTxSound DEF Made

\* The one destination of merge().
LEMMA MergeDestsType ==
  ASSUME chain \in Seq(Txs), NEW u1 \in Utxos("stas"), NEW u2 \in Utxos("stas"),
         NEW dest \in Keys
  PROVE  LET dests == mergeDests(u1, u2, dest)
             value == u1.out.satoshis + u2.out.satoshis
         IN /\ dests \in Seq(Destinations) /\ Len(dests) = 1
            /\ SumSatoshis(dests) = value
            /\ value > 0 => \A k \in DOMAIN dests : dests[k].satoshis > 0
<1> DEFINE value == u1.out.satoshis + u2.out.satoshis
           seg == Segment(dest, value)
<1>1. value \in Nat
  <2>1. u1.out.satoshis \in Nat /\ u2.out.satoshis \in Nat
    BY UtxoFields
  <2> QED BY <2>1
<1>2. seg \in Destinations /\ seg.satoshis = value
  BY <1>1 DEF Segment, Destinations
<1>3. mergeDests(u1, u2, dest) = <<seg>>
  BY DEF mergeDests
<1> HIDE DEF seg, value
<1>4. <<seg>> \in Seq(Destinations) /\ SumSatoshis(<<seg>>) = value
  BY <1>1, <1>2, SingletonSeq, SumOfShort
<1> QED BY <1>2, <1>3, <1>4 DEF value

-----------------------------------------------------------------------------
(* Each call with proper arguments: nothing is left for a node to refuse *)

LEMMA TransferGood ==
  ASSUME chain \in Seq(Txs), ChainBounded, LeadingZeroTxids = {},
         NEW u \in Utxos("stas"), NEW dest \in Keys, NEW pay \in Payments,
         transferGuards(u, dest, pay)
  PROVE  GoodAlone(chain, transferTx(u, dest, pay))
<1> DEFINE tok == u.out.tok
           value == u.out.satoshis
           out == StasOut(dest, tok, value)
<1>1. value \in Nat /\ value > 0 /\ tok \in Tokens \cup {NoTok}
  BY TokensHoldSatoshis
<1>2. out \in Outputs
  BY <1>1 DEF StasOut, Outputs
<1>3. dest # tok.red /\ ChangeCovered(pay)
  BY DEF transferGuards, getPublicKeyHash
<1>4. out = CovenantOutput(tok, 1, Segment(dest, value))
  BY <1>3 DEF CovenantOutput, Segment
<1>5. transferTx(u, dest, pay) = BasicTx(u, <<out>>, <<Segment(dest, value)>>, pay)
  BY DEF transferTx
<1> HIDE DEF out
<1>6. Covers(tok, <<Segment(dest, value)>>, value, <<out>>)
  BY <1>1, <1>2, <1>4, OneCovers
<1> QED BY <1>3, <1>5, <1>6, BasicTxGood

LEMMA SplitGood ==
  ASSUME chain \in Seq(Txs), ChainBounded, LeadingZeroTxids = {},
         NEW u \in Utxos("stas"), NEW dests \in Seq(Destinations), NEW pay \in Payments,
         SumSatoshis(dests) = u.out.satoshis, Len(dests) <= 4, splitGuards(u, dests, pay)
  PROVE  GoodAlone(chain, splitTx(u, dests, pay))
<1> DEFINE n == Len(dests)
<1>1. u.out.tok \in Tokens \cup {NoTok}
  BY TokensHoldSatoshis
<1>2. /\ dests # <<>> /\ u.out.tok.isSplittable /\ NotToIssuer(u.out.tok, dests)
      /\ ChangeCovered(pay) /\ \A k \in DOMAIN dests : dests[k].satoshis > 0
  BY DEF splitGuards
<1>3. n \in 1..4
  <2>1. n \in Nat /\ n >= 1 /\ n <= 4
    BY <1>2, DestsType
  <2> HIDE DEF n
  <2> QED BY <2>1
<1>4. Covers(u.out.tok, dests, u.out.satoshis, StasOutputs(u.out.tok, dests))
  BY <1>1, <1>2, <1>3, DestsCover
<1> QED BY <1>2, <1>4, BasicTxGood DEF splitTx

LEMMA RedeemGood ==
  ASSUME chain \in Seq(Txs), ChainBounded, LeadingZeroTxids = {},
         NEW u \in Utxos("stas"), NEW key \in Keys, NEW pay \in Payments,
         key = u.out.tok.red, redeemGuards(pay)
  PROVE  GoodAlone(chain, redeemTx(u, key, pay))
<1> DEFINE tok == u.out.tok
           value == u.out.satoshis
           out == P2pkhOut(key, value)
<1>1. value \in Nat /\ value > 0
  BY TokensHoldSatoshis
<1>2. out \in Outputs
  BY <1>1 DEF P2pkhOut, Outputs
<1>3. ChangeCovered(pay)
  BY DEF redeemGuards
<1>4. out = CovenantOutput(tok, 1, Segment(key, value))
  BY DEF CovenantOutput, Segment
<1>5. redeemTx(u, key, pay) = BasicTx(u, <<out>>, <<Segment(key, value)>>, pay)
  BY DEF redeemTx
<1> HIDE DEF out
<1>6. Covers(tok, <<Segment(key, value)>>, value, <<out>>)
  BY <1>1, <1>2, <1>4, OneCovers
<1> QED BY <1>3, <1>5, <1>6, BasicTxGood

LEMMA RedeemSplitGood ==
  ASSUME chain \in Seq(Txs), ChainBounded, LeadingZeroTxids = {},
         NEW u \in Utxos("stas"), NEW key \in Keys, NEW dests \in Seq(Destinations),
         NEW pay \in Payments, key = u.out.tok.red, Len(dests) <= 3,
         redeemSplitGuards(u, dests, pay)
  PROVE  GoodAlone(chain, redeemSplitTx(u, key, dests, pay))
<1> DEFINE n == Len(dests)
           tok == u.out.tok
           value == u.out.satoshis
           rest == redeemSats(u, dests)
           segs == <<Segment(tok.red, rest)>> \o dests
           outs == <<P2pkhOut(tok.red, rest)>> \o StasOutputs(tok, dests)
<1>1. tok \in Tokens \cup {NoTok} /\ value \in Nat /\ SumSatoshis(dests) \in Nat
  BY TokensHoldSatoshis, DestsType
<1>2. /\ dests # <<>> /\ tok.isSplittable /\ NotToIssuer(tok, dests)
      /\ ChangeCovered(pay) /\ \A k \in DOMAIN dests : dests[k].satoshis > 0
      /\ rest > 0
  BY DEF redeemSplitGuards
<1>3. n \in 1..3
  <2>1. n \in Nat /\ n >= 1 /\ n <= 3
    BY <1>2, DestsType
  <2> HIDE DEF n
  <2> QED BY <2>1
<1>4. rest \in Nat /\ SumSatoshis(dests) + rest = value
  <2> DEFINE sum == SumSatoshis(dests)
  <2>1. rest = value - sum
    BY DEF redeemSats
  <2> HIDE DEF sum, rest, value
  <2>2. rest > 0 /\ value \in Nat /\ sum \in Nat
    BY <1>1, <1>2 DEF sum
  <2>3. rest \in Nat /\ sum + rest = value
    BY <2>1, <2>2
  <2> QED BY <2>3 DEF sum
<1>5. redeemSplitTx(u, key, dests, pay) = BasicTx(u, outs, segs, pay)
  BY DEF redeemSplitTx
<1>6. Covers(tok, segs, value, outs)
  <2>1. tok.red \in Keys
    OBVIOUS
  <2> HIDE DEF rest, tok, value
  <2> QED BY <1>1, <1>2, <1>3, <1>4, <2>1, RestCovers
<1> HIDE DEF segs, outs
<1> QED BY <1>2, <1>5, <1>6, BasicTxGood

LEMMA MergeGood ==
  ASSUME chain \in Seq(Txs), ChainBounded, LeadingZeroTxids = {},
         NEW u1 \in Utxos("stas"), NEW u2 \in Utxos("stas"), u1 # u2,
         NEW dest \in Keys, NEW pay \in Payments,
         mergeGuards(chain, u1, u2, mergeDests(u1, u2, dest), pay)
  PROVE  GoodMerge(chain, mergeTx(chain, u1, u2, dest, pay), u1, u2)
<1> DEFINE dests == mergeDests(u1, u2, dest)
           tok == u1.out.tok
           value == u1.out.satoshis + u2.out.satoshis
<1>1. value \in Nat /\ value > 0 /\ tok \in Tokens \cup {NoTok}
  <2>1. /\ u1.out.satoshis \in Nat /\ u1.out.satoshis > 0
        /\ u2.out.satoshis \in Nat /\ u2.out.satoshis > 0
        /\ tok \in Tokens \cup {NoTok}
    BY TokensHoldSatoshis
  <2> QED BY <2>1
<1>2. tok = u2.out.tok /\ ChangeCovered(pay) /\ NotToIssuer(tok, dests)
  BY DEF mergeGuards, SameScript
<1>3. /\ dests \in Seq(Destinations) /\ Len(dests) = 1 /\ SumSatoshis(dests) = value
      /\ \A k \in DOMAIN dests : dests[k].satoshis > 0
  BY <1>1, MergeDestsType
<1>4. mergeTx(chain, u1, u2, dest, pay) = MergeTxOf(chain, u1, u2, dests, pay)
  BY DEF mergeTx
<1> HIDE DEF dests
<1>5. Covers(tok, dests, value, StasOutputs(tok, dests))
  <2>1. 1 \in 1..4 /\ tok \in Tokens \cup {NoTok} /\ NotToIssuer(tok, dests)
    BY <1>1, <1>2
  <2> HIDE DEF tok, value
  <2> QED BY <1>3, <2>1, DestsCover
<1> QED BY <1>2, <1>4, <1>5, MergeTxGood

LEMMA MergeSplitGood ==
  ASSUME chain \in Seq(Txs), ChainBounded, LeadingZeroTxids = {},
         NEW u1 \in Utxos("stas"), NEW u2 \in Utxos("stas"), u1 # u2,
         NEW dests \in Seq(Destinations), NEW pay \in Payments, Len(dests) = 2,
         SumSatoshis(dests) = u1.out.satoshis + u2.out.satoshis,
         \A k \in DOMAIN dests : dests[k].satoshis > 0,
         mergeGuards(chain, u1, u2, dests, pay)
  PROVE  GoodMerge(chain, mergeSplitTx(chain, u1, u2, dests, pay), u1, u2)
<1> DEFINE tok == u1.out.tok
           value == u1.out.satoshis + u2.out.satoshis
<1>1. tok \in Tokens \cup {NoTok}
  BY TokensHoldSatoshis
<1>2. /\ tok = u2.out.tok /\ ChangeCovered(pay)
      /\ tok.isSplittable /\ NotToIssuer(tok, dests)
  BY DEF mergeGuards, SameScript
<1>3. Covers(tok, dests, value, StasOutputs(tok, dests))
  <2>1. 2 \in 1..4
    OBVIOUS
  <2> QED BY <1>1, <1>2, <2>1, DestsCover
<1> QED BY <1>2, <1>3, MergeTxGood DEF mergeSplitTx

=============================================================================
