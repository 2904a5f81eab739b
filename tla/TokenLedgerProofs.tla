-------------------------- MODULE TokenLedgerProofs --------------------------
(***************************************************************************)
(* Theorems about TokenLedger for every value of its constants: types,     *)
(* tokens on the chain and their issuers, what a transaction pays to the   *)
(* miner, and that the transactions which calls return are accepted.       *)
(***************************************************************************)
EXTENDS TokenLedger, ChainProofs

-----------------------------------------------------------------------------
(* The inductive invariant *)

JobsBuilt == \A c \in Calls : jobs[c].phase # "idle" => Built(chain, jobs[c].tx)

OriginsKnown == DOMAIN origin = TokenOutputs

\* TypeOK and the properties below are inductive together with it.
LedgerInv == TypeOK /\ OriginsKnown /\ JobsBuilt

LEMMA ChainTyped == LedgerInv => chain \in Seq(Txs)
  BY DEF LedgerInv, TypeOK

LEMMA ConfirmAdds ==
  ASSUME LedgerInv, NEW tx, Confirm(tx)
  PROVE  chain \in Seq(Txs) /\ AddToChain(tx)
  BY ChainTyped DEF Confirm

LEMMA ConfirmLengthens ==
  ASSUME LedgerInv, NEW tx \in BuiltTxs, Confirm(tx)
  PROVE  /\ chain \in Seq(Txs) /\ chain' \in Seq(Txs)
         /\ DOMAIN chain' = DOMAIN chain \cup {Len(chain) + 1}
         /\ Len(chain') = Len(chain) + 1
         /\ Len(chain) + 1 \in DOMAIN chain'
         /\ chain'[Len(chain) + 1] = [ins |-> tx.ins, outs |-> tx.outs]
         /\ \A t \in DOMAIN chain : chain'[t] = chain[t]
         /\ \A op \in Created(chain) : /\ op \in Created(chain')
                                       /\ op.txid \in DOMAIN chain
                                       /\ chain'[op.txid] = chain[op.txid]
                                       /\ OutputOf(chain', op) = OutputOf(chain, op)
         /\ Created(chain') = Created(chain) \cup
               {[txid |-> Len(chain) + 1, vout |-> k - 1] : k \in DOMAIN tx.outs}
<1>1. chain \in Seq(Txs) /\ AddToChain(tx)
  BY ConfirmAdds
<1>2. chain' \in Seq(Txs) /\ DOMAIN chain' = DOMAIN chain \cup {Len(chain) + 1}
  BY <1>1, ConfirmEffect, LongerChain
<1>3. Len(chain') = Len(chain) + 1
  BY <1>1, <1>2, LenProperties
<1> QED BY <1>1, <1>2, <1>3, ConfirmEffect

-----------------------------------------------------------------------------
(* The synchronous part of a call *)

Awaits == Seq({"owner", "payment"})

LEMMA AwaitsType ==
  ASSUME NEW pay, IsPay(pay)
  PROVE  /\ [i \in DOMAIN pay |-> "payment"] \in Awaits
         /\ \A n \in Nat : OwnerThenPayment(n, pay) \in Awaits
<1>1. PICK m \in Nat : DOMAIN pay = 1..m
  BY PayType, LenProperties
<1>2. [i \in DOMAIN pay |-> "payment"] \in Awaits
  BY <1>1, FunctionIsSeq DEF Awaits
<1>3. ASSUME NEW n \in Nat PROVE OwnerThenPayment(n, pay) \in Awaits
  <2>1. [i \in 1..n |-> "owner"] \in Seq({"owner", "payment"})
    BY FunctionIsSeq
  <2> QED BY <1>2, <2>1, ConcatProperties DEF OwnerThenPayment, Awaits
<1> QED BY <1>2, <1>3

\* A call that has built a good transaction keeps the invariant.
LEMMA AwaitKeepsInv ==
  ASSUME LedgerInv, NEW c \in Calls, NEW tx \in BuiltTxs, Built(chain, tx),
         NEW awaits \in Awaits, Await(c, tx, awaits)
  PROVE  LedgerInv'
<1> DEFINE job == [phase |-> "signing", tx |-> tx, awaits |-> awaits]
<1>1. jobs' = [jobs EXCEPT ![c] = job] /\ chain' = chain /\ origin' = origin
  BY DEF Await
<1>2. job \in Jobs
  BY DEF Jobs, Awaits
<1>3. TypeOK'
  BY <1>1, <1>2 DEF LedgerInv, TypeOK, Created
<1>4. OriginsKnown'
  BY <1>1 DEF LedgerInv, OriginsKnown, TokenOutputs, Created, ChainOutput
<1>5. JobsBuilt'
  <2>1. ASSUME NEW d \in Calls, jobs'[d].phase # "idle"
        PROVE  Built(chain, jobs'[d].tx)
    <3>1. CASE d = c
      BY <1>1, <3>1 DEF LedgerInv, TypeOK
    <3>2. CASE d # c
      BY <1>1, <2>1, <3>2 DEF LedgerInv, TypeOK, JobsBuilt
    <3> QED BY <3>1, <3>2
  <2> QED BY <1>1, <2>1 DEF JobsBuilt
<1> QED BY <1>3, <1>4, <1>5 DEF LedgerInv

-----------------------------------------------------------------------------
(* Each call, up to its first await *)

LEMMA StartKeepsInv ==
  ASSUME LedgerInv, NEW c \in Calls, Start(c)
  PROVE  LedgerInv'
<1>0. chain \in Seq(Txs) /\ \A pay \in Payments : IsPay(pay)
  BY ChainTyped, UtxosType
<1>1. CASE Contract(c)
  <2>1. PICK u \in Utxos("p2pkh"), pay \in Payments, symbol \in Symbols, data \in Data,
             more \in {<<>>} \cup {<<v>> : v \in Utxos("p2pkh")},
             perToken \in SatsPerToken, amount \in TokenAmounts :
          /\ contractGuards(<<u>> \o more, pay, perToken, amount)
          /\ Await(c, contractTx(<<u>> \o more, pay, symbol, data, amount),
                   [i \in DOMAIN pay |-> "payment"] \o <<"owner">>)
    BY <1>1 DEF Contract
  <2> DEFINE inputs == <<u>> \o more
  <2>2. inputs \in Seq(Utxos("p2pkh")) /\ inputs # <<>>
    <3>1. <<u>> \in Seq(Utxos("p2pkh")) /\ Len(<<u>>) = 1
      BY SingletonSeq
    <3>2. more \in Seq(Utxos("p2pkh"))
      BY SingletonSeq, EmptySeq
    <3>3. inputs \in Seq(Utxos("p2pkh")) /\ Len(inputs) = 1 + Len(more) /\ Len(more) \in Nat
      BY <3>1, <3>2, ConcatProperties, LenProperties
    <3> QED BY <3>3, EmptySeq
  <2>3. perToken \in Nat /\ amount \in Nat
    BY AmountsAssumption
  <2> HIDE DEF inputs
  <2>4. Made(chain, contractTx(inputs, pay, symbol, data, amount))
    BY <1>0, <2>1, <2>2, <2>3, ContractMade DEF inputs
  <2>5. [i \in DOMAIN pay |-> "payment"] \o <<"owner">> \in Awaits
    <3>1. <<"owner">> \in Seq({"owner", "payment"})
      BY SingletonSeq
    <3> QED BY <1>0, <3>1, AwaitsType, ConcatProperties DEF Awaits
  <2> QED BY <2>1, <2>4, <2>5, AwaitKeepsInv DEF inputs, Made
<1>2. CASE Issue(c)
  <2>1. PICK u \in Utxos("contract"), pay \in Payments, info \in IssueLists,
             isSplittable \in BOOLEAN, symbol \in Symbols :
          /\ issueGuards(u, info, pay, symbol)
          /\ Await(c, issueTx(u, info, pay, isSplittable, symbol), OwnerThenPayment(1, pay))
    BY <1>2 DEF Issue
  <2>2. Made(chain, issueTx(u, info, pay, isSplittable, symbol))
    BY <1>0, <2>1, ListsAssumption, IssueMade
  <2> QED BY <1>0, <2>1, <2>2, AwaitsType, AwaitKeepsInv DEF Made
<1>3. CASE Transfer(c)
  <2>1. PICK u \in Utxos("stas"), dest \in Keys, pay \in Payments :
          /\ transferGuards(u, dest, pay)
          /\ Await(c, transferTx(u, dest, pay), OwnerThenPayment(1, pay))
    BY <1>3 DEF Transfer
  <2>2. Made(chain, transferTx(u, dest, pay))
    BY <1>0, <2>1, TransferMade
  <2> QED BY <1>0, <2>1, <2>2, AwaitsType, AwaitKeepsInv DEF Made
<1>4. CASE Split(c)
  <2>1. PICK u \in Utxos("stas"), dests \in DestLists, pay \in Payments :
          /\ splitGuards(u, dests, pay)
          /\ Await(c, splitTx(u, dests, pay), OwnerThenPayment(1, pay))
    BY <1>4 DEF Split
  <2>2. Made(chain, splitTx(u, dests, pay))
    BY <1>0, <2>1, ListsAssumption, SplitMade
  <2> QED BY <1>0, <2>1, <2>2, AwaitsType, AwaitKeepsInv DEF Made
<1>5. CASE Redeem(c)
  <2>1. PICK u \in Utxos("stas"), key \in Keys, pay \in Payments :
          /\ redeemGuards(pay)
          /\ Await(c, redeemTx(u, key, pay), OwnerThenPayment(1, pay))
    BY <1>5 DEF Redeem
  <2>2. Made(chain, redeemTx(u, key, pay))
    BY <1>0, <2>1, RedeemMade
  <2> QED BY <1>0, <2>1, <2>2, AwaitsType, AwaitKeepsInv DEF Made
<1>6. CASE RedeemSplit(c)
  <2>1. PICK u \in Utxos("stas"), key \in Keys, dests \in DestLists, pay \in Payments :
          /\ redeemSplitGuards(u, dests, pay)
          /\ Await(c, redeemSplitTx(u, key, dests, pay), OwnerThenPayment(1, pay))
    BY <1>6 DEF RedeemSplit
  <2>2. Made(chain, redeemSplitTx(u, key, dests, pay))
    BY <1>0, <2>1, ListsAssumption, RedeemSplitMade
  <2> QED BY <1>0, <2>1, <2>2, AwaitsType, AwaitKeepsInv DEF Made
<1>7. CASE Merge(c)
  <2>1. PICK u1 \in Utxos("stas"), u2 \in Utxos("stas"), dest \in Keys, pay \in Payments :
          /\ mergeGuards(chain, u1, u2, mergeDests(u1, u2, dest), pay)
          /\ Await(c, mergeTx(chain, u1, u2, dest, pay), OwnerThenPayment(2, pay))
    BY <1>7 DEF Merge
  <2>2. mergeDests(u1, u2, dest) \in Seq(Destinations)
    BY <1>0, MergeDestsType
  <2>3. Made(chain, mergeTx(chain, u1, u2, dest, pay))
    BY <1>0, <2>1, <2>2, MergeTxMade DEF mergeTx
  <2> QED BY <1>0, <2>1, <2>3, AwaitsType, AwaitKeepsInv DEF Made
<1>8. CASE MergeSplit(c)
  <2>1. PICK u1 \in Utxos("stas"), u2 \in Utxos("stas"), dests \in DestLists,
             pay \in Payments :
          /\ mergeGuards(chain, u1, u2, dests, pay)
          /\ Await(c, mergeSplitTx(chain, u1, u2, dests, pay), OwnerThenPayment(2, pay))
    BY <1>8 DEF MergeSplit
  <2>2. Made(chain, mergeSplitTx(chain, u1, u2, dests, pay))
    BY <1>0, <2>1, ListsAssumption, MergeTxMade DEF mergeSplitTx
  <2> QED BY <1>0, <2>1, <2>2, AwaitsType, AwaitKeepsInv DEF Made
<1> QED BY <1>1, <1>2, <1>3, <1>4, <1>5, <1>6, <1>7, <1>8 DEF Start

-----------------------------------------------------------------------------
(* The callbacks and a refused broadcast *)

\* A call that gives up or awaits one callback less keeps the invariant.
LEMMA SettleKeepsInv ==
  ASSUME LedgerInv, NEW c \in Calls,
         CallbackSigns(c) \/ CallbackRejects(c) \/ BroadcastRefused(c)
  PROVE  LedgerInv' /\ UNCHANGED <<chain, origin>>
<1> DEFINE left == Tail(jobs[c].awaits)
           next == [jobs[c] EXCEPT !.awaits = left,
                                   !.phase = IF left = <<>> THEN "returned" ELSE "signing"]
<1>1. chain' = chain /\ origin' = origin
  BY DEF CallbackSigns, CallbackRejects, BroadcastRefused
<1>2. PICK job : /\ jobs' = [jobs EXCEPT ![c] = job]
                 /\ job = IdleJob \/ (job = next /\ jobs[c].phase = "signing"
                                                  /\ jobs[c].awaits # <<>>)
  <2>1. CASE CallbackSigns(c)
    <3>1. jobs[c] \in Jobs
      BY DEF LedgerInv, TypeOK
    <3>2. jobs' = [jobs EXCEPT ![c] = next]
      BY <2>1, <3>1 DEF CallbackSigns, LedgerInv, TypeOK, Jobs
    <3> QED BY <2>1, <3>2 DEF CallbackSigns
  <2>2. CASE CallbackRejects(c) \/ BroadcastRefused(c)
    BY <2>2 DEF CallbackRejects, BroadcastRefused
  <2> QED BY <2>1, <2>2
<1>3. IdleJob \in Jobs
  <2>1. <<>> \in Seq(Outpoints) /\ <<>> \in Seq(Outputs) /\ <<>> \in Seq(Unlocks)
        /\ <<>> \in Seq({"owner", "payment"})
    BY EmptySeq
  <2> QED BY <2>1 DEF IdleJob, NoTx, Jobs, BuiltTxs
<1>4. ASSUME jobs[c].awaits # <<>> PROVE next \in Jobs /\ next.tx = jobs[c].tx
  <2>1. jobs[c] \in Jobs
    BY DEF LedgerInv, TypeOK
  <2>2. left \in Seq({"owner", "payment"})
    BY <2>1, <1>4, HeadTailProperties DEF Jobs
  <2> QED BY <2>1, <2>2 DEF Jobs
<1> HIDE DEF next
<1>5. job \in Jobs /\ (job.phase # "idle" => jobs[c].phase # "idle" /\ job.tx = jobs[c].tx)
  <2>1. CASE job = IdleJob
    BY <1>3, <2>1 DEF IdleJob
  <2>2. CASE job = next /\ jobs[c].phase = "signing" /\ jobs[c].awaits # <<>>
    BY <1>4, <2>2
  <2> QED BY <1>2, <2>1, <2>2
<1>6. TypeOK'
  BY <1>1, <1>2, <1>5 DEF LedgerInv, TypeOK, Created
<1>7. OriginsKnown'
  BY <1>1 DEF LedgerInv, OriginsKnown, TokenOutputs, Created, ChainOutput
<1>8. JobsBuilt'
  <2>1. ASSUME NEW d \in Calls, jobs'[d].phase # "idle"
        PROVE  Built(chain, jobs'[d].tx)
    BY <1>2, <1>5, <2>1 DEF LedgerInv, TypeOK, JobsBuilt
  <2> QED BY <1>1, <2>1 DEF JobsBuilt
<1> QED BY <1>1, <1>6, <1>7, <1>8 DEF LedgerInv

-----------------------------------------------------------------------------
(* A confirmed transaction *)

\* The token outputs after it, and what they stem from.
LEMMA ConfirmOrigins ==
  ASSUME LedgerInv, NEW tx \in BuiltTxs, Built(chain, tx), Confirm(tx)
  PROVE  LET new == TokenOutpoints(tx, Len(chain) + 1)
         IN /\ TokenOutputs' = TokenOutputs \cup new
            /\ DOMAIN origin' = TokenOutputs'
            /\ TokenOutputs \cap new = {}
            /\ \A op \in new :
                  /\ op.txid = Len(chain) + 1 /\ op.vout + 1 \in DOMAIN tx.outs
                  /\ op = [txid |-> op.txid, vout |-> (op.vout + 1) - 1]
                  /\ tx.outs[op.vout + 1].kind = "stas"
                  /\ OutputOf(chain', op) = tx.outs[op.vout + 1]
            /\ \A op \in TokenOutputs : origin'[op] = origin[op]
            /\ SpentTokens(chain, tx) = {} => \A op \in new : origin'[op] = op
            /\ SpentTokens(chain, tx) # {} =>
                  /\ tx.ins[1] \in TokenOutputs
                  /\ \A op \in new : origin'[op] = origin[tx.ins[1]]
<1> DEFINE t == Len(chain) + 1
           new == TokenOutpoints(tx, t)
           places == {[txid |-> t, vout |-> k - 1] : k \in DOMAIN tx.outs}
<1>0. chain \in Seq(Txs) /\ AddToChain(tx)
  BY ConfirmAdds
<1>1. PICK m \in Nat : DOMAIN tx.outs = 1..m
  BY LenProperties DEF BuiltTxs
<1>2. /\ Created(chain') = Created(chain) \cup places
      /\ chain'[t].outs = tx.outs
      /\ \A op \in Created(chain) : /\ op.txid \in DOMAIN chain
                                    /\ OutputOf(chain', op) = OutputOf(chain, op)
  <2>1. chain'[t] = [ins |-> tx.ins, outs |-> tx.outs]
    BY <1>0, ConfirmEffect
  <2>2. \A op \in Created(chain) : /\ op.txid \in DOMAIN chain
                                   /\ OutputOf(chain', op) = OutputOf(chain, op)
    BY <1>0, ConfirmEffect
  <2>3. Created(chain') = Created(chain) \cup places
    BY <1>0, ConfirmEffect
  <2> QED BY <2>1, <2>2, <2>3
<1>3. ASSUME NEW op \in places
      PROVE  /\ op.txid = t /\ op.vout + 1 \in DOMAIN tx.outs
             /\ op = [txid |-> op.txid, vout |-> (op.vout + 1) - 1]
             /\ OutputOf(chain', op) = tx.outs[op.vout + 1]
  BY <1>1, <1>2, <1>3 DEF OutputOf
<1>4. new = {op \in places : OutputOf(chain', op).kind = "stas"}
  BY <1>3 DEF TokenOutpoints
<1>5. TokenOutputs' = {op \in Created(chain') : OutputOf(chain', op).kind = "stas"}
      /\ TokenOutputs = {op \in Created(chain) : OutputOf(chain, op).kind = "stas"}
  BY DEF TokenOutputs, ChainOutput, OutputOf
<1>6. TokenOutputs' = TokenOutputs \cup new
  BY <1>2, <1>4, <1>5
<1>7. TokenOutputs \cap new = {}
  <2>1. t \notin DOMAIN chain
    BY LenProperties DEF LedgerInv, TypeOK
  <2>2. \A op \in TokenOutputs : op.txid \in DOMAIN chain
    BY <1>2, <1>5
  <2> QED BY <1>3, <1>4, <2>1, <2>2
<1>8. /\ DOMAIN origin' = TokenOutputs \cup new
      /\ \A op \in TokenOutputs : origin'[op] = origin[op]
      /\ \A op \in new : origin'[op] = OriginsOf(tx, t)[op]
  <2>1. DOMAIN origin = TokenOutputs
    BY DEF LedgerInv, OriginsKnown
  <2>2. origin' = [op \in DOMAIN origin \cup new |->
                     IF op \in DOMAIN origin THEN origin[op] ELSE OriginsOf(tx, t)[op]]
    BY DEF Confirm
  <2> HIDE DEF new, t
  <2> QED BY <1>7, <2>1, <2>2
<1>9. TokenInputs(tx) = SpentTokens(chain, tx)
  BY DEF TokenInputs, SpentTokens, OutputOf, Utxo
<1>10. \A op \in new : OriginsOf(tx, t)[op] =
                          IF SpentTokens(chain, tx) = {} THEN op ELSE origin[tx.ins[1]]
  BY <1>9, Zenon DEF OriginsOf
<1>11. SpentTokens(chain, tx) # {} => tx.ins[1] \in TokenOutputs
  BY <1>5 DEF Built, SpendsFirst, SpentTokens
<1>12. \A op \in new :
          /\ op.txid = t /\ op.vout + 1 \in DOMAIN tx.outs
          /\ op = [txid |-> op.txid, vout |-> (op.vout + 1) - 1]
          /\ tx.outs[op.vout + 1].kind = "stas"
          /\ OutputOf(chain', op) = tx.outs[op.vout + 1]
  BY <1>3, <1>4
<1> HIDE DEF t, new, places
<1>13. SpentTokens(chain, tx) = {} => \A op \in new : origin'[op] = op
  BY <1>8, <1>10
<1>14. SpentTokens(chain, tx) # {} => \A op \in new : origin'[op] = origin[tx.ins[1]]
  BY <1>8, <1>10
<1>15. DOMAIN origin' = TokenOutputs'
  BY <1>6, <1>8
<1>16. \A op \in TokenOutputs : origin'[op] = origin[op]
  BY <1>8
<1> QED BY <1>6, <1>7, <1>11, <1>12, <1>13, <1>14, <1>15, <1>16 DEF t, new

\* A broadcast that the node takes confirms a transaction a builder made.
LEMMA BroadcastConfirms ==
  ASSUME LedgerInv, NEW c \in Calls, BroadcastAccepted(c) \/ BroadcastAnswerLost(c)
  PROVE  /\ jobs[c].tx \in BuiltTxs
         /\ Built(chain, jobs[c].tx)
         /\ NetworkAccepts(chain, jobs[c].tx)
         /\ Confirm(jobs[c].tx)
         /\ jobs' \in [Calls -> Jobs]
         /\ \A d \in Calls : jobs'[d].phase # "idle" =>
               jobs'[d] = jobs[d] /\ jobs[d].phase # "idle"
<1>1. jobs[c] \in Jobs /\ jobs[c].phase = "returned" /\ Confirm(jobs[c].tx)
      /\ NetworkAccepts(chain, jobs[c].tx)
      /\ (jobs' = jobs \/ jobs' = [jobs EXCEPT ![c] = IdleJob])
  BY DEF LedgerInv, TypeOK, BroadcastAccepted, BroadcastAnswerLost
<1>2. IdleJob \in Jobs
  <2>1. <<>> \in Seq(Outpoints) /\ <<>> \in Seq(Outputs) /\ <<>> \in Seq(Unlocks)
        /\ <<>> \in Seq({"owner", "payment"})
    BY EmptySeq
  <2> QED BY <2>1 DEF IdleJob, NoTx, Jobs, BuiltTxs
<1>3. /\ jobs' \in [Calls -> Jobs]
      /\ \A d \in Calls : jobs'[d].phase # "idle" => jobs'[d] = jobs[d]
  BY <1>1, <1>2 DEF LedgerInv, TypeOK, IdleJob
<1> QED BY <1>1, <1>3 DEF Jobs, LedgerInv, JobsBuilt

LEMMA ConfirmKeepsInv ==
  ASSUME LedgerInv, NEW c \in Calls, BroadcastAccepted(c) \/ BroadcastAnswerLost(c)
  PROVE  LedgerInv'
<1> DEFINE tx == jobs[c].tx
           new == TokenOutpoints(tx, Len(chain) + 1)
<1>1. /\ tx \in BuiltTxs /\ Built(chain, tx) /\ Confirm(tx)
      /\ jobs' \in [Calls -> Jobs]
      /\ \A d \in Calls : jobs'[d].phase # "idle" =>
            jobs'[d] = jobs[d] /\ jobs[d].phase # "idle"
  BY BroadcastConfirms
<1>0. chain \in Seq(Txs) /\ AddToChain(tx)
  BY <1>1, ConfirmAdds
<1> HIDE DEF tx
<1>2. chain' \in Seq(Txs)
  BY <1>0, <1>1, ConfirmEffect
<1>3. /\ TokenOutputs' = TokenOutputs \cup new
      /\ DOMAIN origin' = TokenOutputs'
      /\ \A op \in TokenOutputs : origin'[op] = origin[op]
      /\ SpentTokens(chain, tx) = {} => \A op \in new : origin'[op] = op
      /\ SpentTokens(chain, tx) # {} =>
            /\ tx.ins[1] \in TokenOutputs
            /\ \A op \in new : origin'[op] = origin[tx.ins[1]]
  BY <1>1, ConfirmOrigins
<1>4. TokenOutputs' \subseteq Created(chain')
  BY DEF TokenOutputs
<1>5. \A op \in TokenOutputs : origin[op] \in TokenOutputs
  BY DEF LedgerInv, TypeOK, OriginsKnown
<1> HIDE DEF new
<1>6. \A op \in DOMAIN origin' : origin'[op] \in DOMAIN origin'
  BY <1>3, <1>5
<1>7. TypeOK'
  BY <1>1, <1>2, <1>3, <1>4, <1>6 DEF TypeOK
<1>8. OriginsKnown'
  BY <1>3 DEF OriginsKnown
<1>9. JobsBuilt'
  <2>1. ASSUME NEW d \in Calls, jobs'[d].phase # "idle"
        PROVE  Built(chain', jobs'[d].tx)
    <3>1. jobs'[d] = jobs[d] /\ jobs[d] \in Jobs /\ Built(chain, jobs[d].tx)
      BY <1>1, <2>1 DEF LedgerInv, TypeOK, JobsBuilt
    <3>2. jobs[d].tx \in BuiltTxs
      BY <3>1 DEF Jobs
    <3>3. Built(chain', jobs[d].tx)
      BY <1>0, <1>1, <3>1, <3>2, BuiltStaysBuilt
    <3> QED BY <3>1, <3>3
  <2> QED BY <2>1 DEF JobsBuilt
<1> QED BY <1>7, <1>8, <1>9 DEF LedgerInv

-----------------------------------------------------------------------------
(* The invariant holds *)

LEMMA InitInv == Init => LedgerInv
<1> SUFFICES ASSUME Init PROVE LedgerInv
  OBVIOUS
<1> DEFINE first == [ins |-> <<>>, outs |-> Genesis]
<1>1. chain = <<first>> /\ origin = <<>> /\ jobs = [c \in Calls |-> IdleJob]
  BY DEF Init
<1>2. first \in Txs
  BY EmptySeq, GenesisAssumption DEF Txs
<1>3. chain \in Seq(Txs) /\ DOMAIN chain = {1} /\ chain[1] = first
  BY <1>1, <1>2
<1>4. IdleJob \in Jobs /\ IdleJob.phase = "idle"
  <2>1. <<>> \in Seq(Outpoints) /\ <<>> \in Seq(Outputs) /\ <<>> \in Seq(Unlocks)
        /\ <<>> \in Seq({"owner", "payment"})
    BY EmptySeq
  <2> QED BY <2>1 DEF IdleJob, NoTx, Jobs, BuiltTxs
<1>5. DOMAIN origin = {}
  BY <1>1
<1>6. TokenOutputs = {}
  <2>1. ASSUME NEW op \in Created(chain) PROVE ChainOutput(op).kind # "stas"
    <3>1. op.txid = 1 /\ op.vout + 1 \in DOMAIN Genesis
      BY <1>3, CreatedType
    <3> QED BY <1>3, <3>1, GenesisAssumption DEF ChainOutput
  <2> QED BY <2>1 DEF TokenOutputs
<1>7. TypeOK
  BY <1>1, <1>3, <1>4, <1>5 DEF TypeOK
<1>8. JobsBuilt
  BY <1>1, <1>4 DEF JobsBuilt
<1> QED BY <1>5, <1>6, <1>7, <1>8 DEF LedgerInv, OriginsKnown

LEMMA NextKeepsInv == LedgerInv /\ [Next]_vars => LedgerInv'
<1> SUFFICES ASSUME LedgerInv, [Next]_vars PROVE LedgerInv'
  OBVIOUS
<1>1. ASSUME NEW c \in Calls, Start(c) PROVE LedgerInv'
  BY <1>1, StartKeepsInv
<1>2. ASSUME NEW c \in Calls,
             CallbackSigns(c) \/ CallbackRejects(c) \/ BroadcastRefused(c)
      PROVE  LedgerInv'
  BY <1>2, SettleKeepsInv
<1>3. ASSUME NEW c \in Calls, BroadcastAccepted(c) \/ BroadcastAnswerLost(c)
      PROVE  LedgerInv'
  BY <1>3, ConfirmKeepsInv
<1>4. CASE UNCHANGED vars
  <2>1. chain' = chain /\ jobs' = jobs /\ origin' = origin
    BY <1>4 DEF vars
  <2>2. TypeOK'
    BY <2>1 DEF LedgerInv, TypeOK
  <2>3. OriginsKnown'
    BY <2>1 DEF LedgerInv, OriginsKnown, TokenOutputs, ChainOutput
  <2>4. JobsBuilt'
    BY <2>1 DEF LedgerInv, JobsBuilt
  <2> QED BY <2>2, <2>3, <2>4 DEF LedgerInv
<1> QED BY <1>1, <1>2, <1>3, <1>4 DEF Next, Progress

\* However many calls interleave: the chain is typed, the history variable
\* knows every token output, and every call in flight holds a transaction that
\* its builder made properly from outputs of the chain (the synchronous part of
\* every *WithCallback function).
THEOREM LedgerInvariant == Spec => []LedgerInv
<1>1. Init => LedgerInv
  BY InitInv
<1>2. LedgerInv /\ [Next]_vars => LedgerInv'
  BY NextKeepsInv
<1> QED BY <1>1, <1>2, PTL DEF Spec

\* The three variables keep their types, for every number of calls, keys and
\* lists of destinations, and without any bound on amounts.
THEOREM TypeCorrect == Spec => []TypeOK
<1>1. LedgerInv => TypeOK
  BY DEF LedgerInv
<1> QED BY <1>1, LedgerInvariant, PTL

-----------------------------------------------------------------------------
(* Where tokens come from and who receives them *)

\* Every transaction that created a token spends something.
InputsCreated ==
    InputsExist /\ \A op \in TokenOutputs : 1 \in DOMAIN chain[op.txid].ins

\* TokenTx and TokenLineage with the chain and the history as arguments.
SpendsToken(ch, t) ==
    \E i \in DOMAIN ch[t].ins : OutputOf(ch, ch[t].ins[i]).kind = "stas"

Lineage(ch, or, op) ==
    LET root == or[op]
        issued == OutputOf(ch, root)
        parent == OutputOf(ch, ch[root.txid].ins[1])
    IN /\ issued.tok = OutputOf(ch, op).tok
       /\ ~SpendsToken(ch, root.txid)
       /\ parent.kind = "contract"
       /\ parent.pkh = issued.tok.red
       /\ parent.tok.symbol = issued.tok.symbol

HistoryInv ==
    InputsCreated /\ IssuerReceivesOnlyByIssue /\ TokenLineage /\ NFTIntact

LEMMA StartLeavesChain ==
  ASSUME NEW c \in Calls, Start(c)
  PROVE  chain' = chain /\ origin' = origin
  BY ZenonT(60) DEF Start, Contract, Issue, Transfer, Split, Redeem, RedeemSplit, Merge,
               MergeSplit, Await

\* A step either confirms a transaction that a builder made and the node took,
\* or leaves the chain alone.
LEMMA StepConfirmsOrNot ==
  ASSUME LedgerInv, [Next]_vars
  PROVE  \/ chain' = chain /\ origin' = origin
         \/ \E tx \in BuiltTxs :
               Built(chain, tx) /\ NetworkAccepts(chain, tx) /\ Confirm(tx)
<1>1. ASSUME NEW c \in Calls, BroadcastAccepted(c) \/ BroadcastAnswerLost(c)
      PROVE  \E tx \in BuiltTxs :
                Built(chain, tx) /\ NetworkAccepts(chain, tx) /\ Confirm(tx)
  BY <1>1, BroadcastConfirms
<1>2. ASSUME NEW c \in Calls,
             CallbackSigns(c) \/ CallbackRejects(c) \/ BroadcastRefused(c)
      PROVE  chain' = chain /\ origin' = origin
  BY <1>2, SettleKeepsInv
<1>3. CASE UNCHANGED vars
  BY <1>3 DEF vars
<1> QED BY <1>1, <1>2, <1>3, StartLeavesChain DEF Next, Progress

\* What the confirmed transaction looks like on the longer chain.
LEMMA ConfirmedTx ==
  ASSUME LedgerInv, InputsCreated,
         NEW tx \in BuiltTxs, Built(chain, tx), Confirm(tx)
  PROVE  /\ InputsCreated'
         /\ \A t \in DOMAIN chain : SpendsToken(chain', t) <=> SpendsToken(chain, t)
         /\ SpendsToken(chain', Len(chain) + 1) <=> SpentTokens(chain, tx) # {}
         /\ 1 \in DOMAIN tx.ins
<1> DEFINE last == Len(chain) + 1
           new == TokenOutpoints(tx, last)
<1>0. chain \in Seq(Txs) /\ AddToChain(tx)
  BY ConfirmAdds
<1>1. /\ chain \in Seq(Txs) /\ chain' \in Seq(Txs)
      /\ last \in DOMAIN chain'
      /\ chain'[last] = [ins |-> tx.ins, outs |-> tx.outs]
      /\ \A t \in DOMAIN chain : chain'[t] = chain[t]
      /\ \A op \in Created(chain) : /\ op \in Created(chain')
                                    /\ op.txid \in DOMAIN chain
                                    /\ chain'[op.txid] = chain[op.txid]
                                    /\ OutputOf(chain', op) = OutputOf(chain, op)
  BY <1>0, ConfirmEffect
<1>2. DOMAIN chain' = DOMAIN chain \cup {last}
  BY <1>0, LongerChain
<1>3. \A i \in DOMAIN tx.ins : tx.ins[i] \in Created(chain)
  BY DEF Built
<1>4. 1 \in DOMAIN tx.ins
  BY LenProperties, EmptySeq DEF Built, BuiltTxs
<1>5. TokenOutputs' = TokenOutputs \cup new /\ \A op \in new : op.txid = last
  BY ConfirmOrigins
<1>6. TokenOutputs \subseteq Created(chain)
  BY DEF TokenOutputs
<1> HIDE DEF last, new
<1>7. InputsExist'
  BY <1>0, InputsStayOnChain DEF InputsCreated
<1>8. ASSUME NEW op \in TokenOutputs' PROVE 1 \in DOMAIN chain'[op.txid].ins
  BY <1>1, <1>4, <1>5, <1>6, <1>8 DEF InputsCreated
<1>9. InputsCreated'
  BY <1>7, <1>8 DEF InputsCreated
<1>10. ASSUME NEW t \in DOMAIN chain
       PROVE  SpendsToken(chain', t) <=> SpendsToken(chain, t)
  BY <1>1 DEF SpendsToken, InputsCreated, InputsExist
<1>11. SpendsToken(chain', last) <=> SpentTokens(chain, tx) # {}
  <2>1. chain'[last].ins = tx.ins
    BY <1>1
  <2>2. \A i \in DOMAIN tx.ins : OutputOf(chain', tx.ins[i]) = OutputOf(chain, tx.ins[i])
    BY <1>1, <1>3
  <2>3. SpendsToken(chain', last) <=>
          \E i \in DOMAIN tx.ins : OutputOf(chain, tx.ins[i]).kind = "stas"
    BY <2>1, <2>2 DEF SpendsToken
  <2> QED BY <2>3, Zenon DEF SpentTokens
<1> QED BY <1>4, <1>9, <1>10, <1>11 DEF last

LEMMA ConfirmKeepsIssuer ==
  ASSUME LedgerInv, InputsCreated, IssuerReceivesOnlyByIssue,
         NEW tx \in BuiltTxs, Built(chain, tx), Confirm(tx)
  PROVE  IssuerReceivesOnlyByIssue'
<1> DEFINE last == Len(chain) + 1
           new == TokenOutpoints(tx, last)
<1>1. /\ TokenOutputs' = TokenOutputs \cup new
      /\ \A op \in new : /\ op.txid = last /\ op.vout + 1 \in DOMAIN tx.outs
                         /\ tx.outs[op.vout + 1].kind = "stas"
                         /\ OutputOf(chain', op) = tx.outs[op.vout + 1]
  BY ConfirmOrigins
<1>2. /\ \A t \in DOMAIN chain : SpendsToken(chain', t) <=> SpendsToken(chain, t)
      /\ SpendsToken(chain', last) <=> SpentTokens(chain, tx) # {}
  BY ConfirmedTx
<1>0. chain \in Seq(Txs) /\ AddToChain(tx)
  BY ConfirmAdds
<1>3. \A op \in TokenOutputs :
         op.txid \in DOMAIN chain /\ OutputOf(chain', op) = OutputOf(chain, op)
  BY <1>0, ConfirmEffect DEF TokenOutputs
<1>4. \A op \in TokenOutputs :
         OutputOf(chain, op).pkh = OutputOf(chain, op).tok.red =>
            ~SpendsToken(chain, op.txid)
  BY DEF IssuerReceivesOnlyByIssue, ChainOutput, OutputOf, TokenTx, SpendsToken
<1> HIDE DEF last, new
<1>5. ASSUME NEW op \in TokenOutputs',
             OutputOf(chain', op).pkh = OutputOf(chain', op).tok.red
      PROVE  ~SpendsToken(chain', op.txid)
  <2>1. CASE op \in TokenOutputs
    BY <1>2, <1>3, <1>4, <1>5, <2>1
  <2>2. CASE op \in new
    BY <1>1, <1>2, <1>5, <2>2 DEF Built, SpendsFirst
  <2> QED BY <1>1, <2>1, <2>2
<1> QED BY <1>5 DEF IssuerReceivesOnlyByIssue, ChainOutput, OutputOf, TokenTx, SpendsToken

LEMMA LineageIsLineage ==
  /\ TokenLineage <=> \A op \in TokenOutputs : Lineage(chain, origin, op)
  /\ TokenLineage' <=> \A op \in TokenOutputs' : Lineage(chain', origin', op)
  BY DEF TokenLineage, Lineage, ChainOutput, OutputOf, TokenTx, SpendsToken

LEMMA ConfirmKeepsLineage ==
  ASSUME LedgerInv, InputsCreated, TokenLineage,
         NEW tx \in BuiltTxs, Built(chain, tx), Confirm(tx), NetworkAccepts(chain, tx)
  PROVE  TokenLineage'
<1> DEFINE last == Len(chain) + 1
           new == TokenOutpoints(tx, last)
<1>1. /\ TokenOutputs' = TokenOutputs \cup new
      /\ \A op \in new : /\ op.txid = last /\ op.vout + 1 \in DOMAIN tx.outs
                         /\ tx.outs[op.vout + 1].kind = "stas"
                         /\ OutputOf(chain', op) = tx.outs[op.vout + 1]
      /\ \A op \in TokenOutputs : origin'[op] = origin[op]
      /\ SpentTokens(chain, tx) = {} => \A op \in new : origin'[op] = op
      /\ SpentTokens(chain, tx) # {} =>
            /\ tx.ins[1] \in TokenOutputs
            /\ \A op \in new : origin'[op] = origin[tx.ins[1]]
  BY ConfirmOrigins
<1>2. /\ \A t \in DOMAIN chain : SpendsToken(chain', t) <=> SpendsToken(chain, t)
      /\ SpendsToken(chain', last) <=> SpentTokens(chain, tx) # {}
      /\ 1 \in DOMAIN tx.ins
  BY ConfirmedTx
<1>0. chain \in Seq(Txs) /\ AddToChain(tx)
  BY ConfirmAdds
<1>3. /\ \A op \in Created(chain) : /\ op.txid \in DOMAIN chain
                                    /\ chain'[op.txid] = chain[op.txid]
                                    /\ OutputOf(chain', op) = OutputOf(chain, op)
      /\ chain'[last] = [ins |-> tx.ins, outs |-> tx.outs]
  BY <1>0, ConfirmEffect
<1>4. /\ TokenOutputs \subseteq Created(chain)
      /\ \A op \in TokenOutputs : origin[op] \in TokenOutputs
  BY DEF TokenOutputs, LedgerInv, TypeOK, OriginsKnown
<1>5. \A op \in TokenOutputs : Lineage(chain, origin, op)
  BY LineageIsLineage
<1> HIDE DEF last, new
<1>6. ASSUME NEW op \in TokenOutputs PROVE Lineage(chain', origin', op)
  <2> DEFINE root == origin[op]
             input == chain[root.txid].ins[1]
  <2>1. root \in TokenOutputs /\ origin'[op] = root
    BY <1>1, <1>4
  <2>2. input \in Created(chain) /\ chain'[root.txid].ins[1] = input
    BY <1>3, <1>4, <2>1 DEF InputsCreated, InputsExist
  <2>3. /\ OutputOf(chain', op) = OutputOf(chain, op)
        /\ OutputOf(chain', root) = OutputOf(chain, root)
        /\ OutputOf(chain', input) = OutputOf(chain, input)
        /\ SpendsToken(chain', root.txid) <=> SpendsToken(chain, root.txid)
    BY <1>2, <1>3, <1>4, <2>1, <2>2
  <2>4. Lineage(chain, origin, op)
    BY <1>5
  <2> QED BY <2>1, <2>2, <2>3, <2>4 DEF Lineage
<1>7. ASSUME NEW op \in new, SpentTokens(chain, tx) = {}
      PROVE  Lineage(chain', origin', op)
  <2>1. origin'[op] = op /\ op.txid = last /\ ~SpendsToken(chain', last)
    BY <1>1, <1>2, <1>7
  <2>2. chain'[last].ins[1] = tx.ins[1] /\ tx.ins[1] \in Created(chain)
    BY <1>2, <1>3 DEF Built
  <2>3. OutputOf(chain', tx.ins[1]) = OutputOf(chain, tx.ins[1])
    BY <1>3, <2>2
  <2>4. LET parent == OutputOf(chain, tx.ins[1])
            issued == OutputOf(chain', op)
        IN /\ parent.kind = "contract"
           /\ parent.pkh = issued.tok.red
           /\ parent.tok.symbol = issued.tok.symbol
    BY <1>1, <1>7 DEF Built, FromContract
  <2> QED BY <2>1, <2>2, <2>3, <2>4 DEF Lineage
<1>8. ASSUME NEW op \in new, SpentTokens(chain, tx) # {}
      PROVE  Lineage(chain', origin', op)
  <2> DEFINE prev == tx.ins[1]
  <2>1. prev \in TokenOutputs /\ origin'[op] = origin[prev] /\ origin'[prev] = origin[prev]
    BY <1>1, <1>8
  <2>2. Lineage(chain', origin', prev)
    BY <1>6, <2>1
  <2>3. OutputOf(chain, prev).kind = "stas"
    BY <2>1 DEF TokenOutputs, ChainOutput, OutputOf
  <2>4. CovenantHolds(chain, tx, 1)
    BY <1>2, <2>3 DEF NetworkAccepts, ScriptsHold, OutputOf, Utxo
  <2>5. OutputOf(chain', op).tok = OutputOf(chain, prev).tok
    BY <1>1, <1>8, <2>4, CovenantKeepsToken
  <2>6. OutputOf(chain', prev) = OutputOf(chain, prev)
    BY <1>3, <1>4, <2>1
  <2> QED BY <2>1, <2>2, <2>5, <2>6 DEF Lineage
<1>9. \A op \in TokenOutputs' : Lineage(chain', origin', op)
  BY <1>1, <1>6, <1>7, <1>8
<1> QED BY <1>9, LineageIsLineage

-----------------------------------------------------------------------------
(* Tokens that must not be split *)

\* What is unspent afterwards was unspent before and is no input, or is new.
LEMMA ConfirmSpends ==
  ASSUME LedgerInv, NEW tx \in BuiltTxs, Built(chain, tx), Confirm(tx)
  PROVE  Holdings' \subseteq
            {op \in Holdings : \A i \in DOMAIN tx.ins : op # tx.ins[i]}
               \cup TokenOutpoints(tx, Len(chain) + 1)
<1> DEFINE last == Len(chain) + 1
           new == TokenOutpoints(tx, last)
<1>1. /\ TokenOutputs' = TokenOutputs \cup new
  BY ConfirmOrigins
<1>0. chain \in Seq(Txs) /\ AddToChain(tx)
  BY ConfirmAdds
<1>2. /\ \A op \in Created(chain) : OutputOf(chain', op) = OutputOf(chain, op)
      /\ last \in DOMAIN chain' /\ chain'[last] = [ins |-> tx.ins, outs |-> tx.outs]
      /\ \A t \in DOMAIN chain : t \in DOMAIN chain' /\ chain'[t] = chain[t]
  <2>1. DOMAIN chain \subseteq DOMAIN chain'
    BY <1>0, LongerChain
  <2> QED BY <1>0, <2>1, ConfirmEffect
<1>3. /\ Holdings' = {op \in TokenOutputs' : op \notin Spent(chain')}
      /\ Holdings = {op \in TokenOutputs : op \notin Spent(chain)}
  BY DEF Holdings, TokenOutputs, Unspent
<1>4. /\ Spent(chain) \subseteq Spent(chain')
      /\ \A i \in DOMAIN tx.ins : tx.ins[i] \in Spent(chain')
  BY <1>2 DEF Spent, ToSet
<1> QED BY <1>1, <1>3, <1>4

\* A token that must not be split leaves a transaction in one output of the
\* same amount.
LEMMA NFTMovesWhole ==
  ASSUME LedgerInv, NEW tx \in BuiltTxs, Built(chain, tx), Confirm(tx),
         NetworkAccepts(chain, tx), SpentTokens(chain, tx) # {},
         ~OutputOf(chain, tx.ins[1]).tok.isSplittable
  PROVE  LET new == TokenOutpoints(tx, Len(chain) + 1)
         IN /\ \A op, other \in new : op = other
            /\ \A op \in new : OutputOf(chain', op).satoshis
                                 = OutputOf(chain, tx.ins[1]).satoshis
<1> DEFINE new == TokenOutpoints(tx, Len(chain) + 1)
           prev == OutputOf(chain, tx.ins[1])
<1>1. /\ 1 \in DOMAIN tx.ins /\ prev.kind = "stas"
      /\ 1 \in DOMAIN tx.unlock /\ tx.unlock[1].type = "basic"
  BY DEF Built, SpendsFirst, SpentTokens
<1>2. tx.unlock[1].pairs \in Seq(Segments)
  <2>1. tx.unlock[1] \in Unlocks
    BY <1>1, LenProperties, ElementOfSeq DEF BuiltTxs
  <2>2. tx.unlock[1] # PlainUnlock
    BY <1>1 DEF PlainUnlock
  <2> QED BY <2>1, <2>2 DEF Unlocks
<1>3. prev.satoshis \in Nat
  <2>1. tx.ins[1] \in Created(chain)
    BY <1>1 DEF Built
  <2>2. prev \in Outputs
    BY <2>1, CreatedType DEF OutputOf, LedgerInv, TypeOK
  <2> QED BY <2>2 DEF Outputs
<1>4. CovenantHolds(chain, tx, 1)
  BY <1>1 DEF NetworkAccepts, ScriptsHold, OutputOf, Utxo
<1>5. \A k \in DOMAIN tx.outs :
         tx.outs[k].kind = "stas" => k = 1 /\ tx.outs[k].satoshis = prev.satoshis
  BY <1>1, <1>2, <1>3, <1>4, CovenantKeepsToken
<1>6. \A op \in new :
         /\ op.txid = Len(chain) + 1 /\ op.vout + 1 \in DOMAIN tx.outs
         /\ op = [txid |-> op.txid, vout |-> (op.vout + 1) - 1]
         /\ tx.outs[op.vout + 1].kind = "stas"
         /\ OutputOf(chain', op) = tx.outs[op.vout + 1]
  BY ConfirmOrigins
<1>7. \A op \in new : /\ op = [txid |-> Len(chain) + 1, vout |-> 1 - 1]
                      /\ OutputOf(chain', op).satoshis = prev.satoshis
  BY <1>5, <1>6
<1> QED BY <1>7

LEMMA ConfirmKeepsNFT ==
  ASSUME LedgerInv, NFTIntact,
         NEW tx \in BuiltTxs, Built(chain, tx), Confirm(tx), NetworkAccepts(chain, tx)
  PROVE  NFTIntact'
<1> DEFINE new == TokenOutpoints(tx, Len(chain) + 1)
           prev == tx.ins[1]
<1>1. /\ TokenOutputs' = TokenOutputs \cup new
      /\ TokenOutputs \cap new = {}
      /\ \A op \in new : /\ op.vout + 1 \in DOMAIN tx.outs
                         /\ tx.outs[op.vout + 1].kind = "stas"
                         /\ OutputOf(chain', op) = tx.outs[op.vout + 1]
      /\ \A op \in TokenOutputs : origin'[op] = origin[op]
      /\ SpentTokens(chain, tx) = {} => \A op \in new : origin'[op] = op
      /\ SpentTokens(chain, tx) # {} =>
            /\ prev \in TokenOutputs
            /\ \A op \in new : origin'[op] = origin[prev]
  BY ConfirmOrigins
<1>2. /\ Holdings' \subseteq {op \in Holdings : \A i \in DOMAIN tx.ins : op # tx.ins[i]} \cup new
  BY ConfirmSpends
<1>0. chain \in Seq(Txs) /\ AddToChain(tx)
  BY ConfirmAdds
<1>3. /\ \A op \in TokenOutputs : OutputOf(chain', op) = OutputOf(chain, op)
      /\ \A op \in TokenOutputs : origin[op] \in TokenOutputs
      /\ Holdings \subseteq TokenOutputs
  BY <1>0, ConfirmEffect DEF TokenOutputs, Holdings, Unspent, LedgerInv, TypeOK, OriginsKnown
<1>4. \A op \in Holdings : ~OutputOf(chain, op).tok.isSplittable =>
         /\ OutputOf(chain, op).satoshis = OutputOf(chain, origin[op]).satoshis
         /\ \A other \in Holdings : origin[other] = origin[op] => other = op
  BY DEF NFTIntact, ChainOutput, OutputOf
<1>5. SpentTokens(chain, tx) # {} => 1 \in DOMAIN tx.ins /\ prev \in Holdings
  BY DEF Built, SpendsFirst, SpentTokens, NetworkAccepts, Holdings, ChainOutput, OutputOf
<1>6. ASSUME SpentTokens(chain, tx) # {}
      PROVE  \A op \in new : OutputOf(chain', op).tok = OutputOf(chain, prev).tok
  <2>1. CovenantHolds(chain, tx, 1)
    BY <1>5, <1>6 DEF NetworkAccepts, ScriptsHold, Holdings, ChainOutput, OutputOf, Utxo
  <2> QED BY <1>1, <2>1, CovenantKeepsToken
<1>7. ASSUME SpentTokens(chain, tx) # {}, ~OutputOf(chain, prev).tok.isSplittable
      PROVE  /\ \A op, other \in new : op = other
             /\ \A op \in new : OutputOf(chain', op).satoshis
                                  = OutputOf(chain, prev).satoshis
  BY <1>7, NFTMovesWhole
<1> HIDE DEF new, prev
<1>8. ASSUME NEW op \in Holdings', ~OutputOf(chain', op).tok.isSplittable
      PROVE  /\ OutputOf(chain', op).satoshis = OutputOf(chain', origin'[op]).satoshis
             /\ \A other \in Holdings' : origin'[other] = origin'[op] => other = op
  <2>1. CASE op \notin new
    <3>1. op \in Holdings /\ op \in TokenOutputs /\ origin'[op] = origin[op]
          /\ origin[op] \in TokenOutputs
      BY <1>1, <1>2, <1>3, <1>8, <2>1
    <3>2. ~OutputOf(chain, op).tok.isSplittable
      BY <1>3, <1>8, <3>1
    <3>3. ASSUME NEW other \in Holdings', origin'[other] = origin[op]
          PROVE  other = op
      <4>1. CASE other \notin new
        BY <1>1, <1>2, <1>3, <1>4, <3>1, <3>2, <3>3, <4>1
      <4>2. CASE other \in new /\ SpentTokens(chain, tx) = {}
        BY <1>1, <3>1, <3>3, <4>2
      <4>3. CASE other \in new /\ SpentTokens(chain, tx) # {}
        <5>1. prev \in Holdings /\ origin[prev] = origin[op]
          BY <1>1, <1>5, <3>3, <4>3
        <5>2. prev = op
          BY <1>4, <3>1, <3>2, <5>1
        <5>3. op # prev
          BY <1>2, <1>5, <1>8, <2>1, <4>3 DEF prev
        <5> QED BY <5>2, <5>3
      <4> QED BY <4>1, <4>2, <4>3
    <3> QED BY <1>3, <1>4, <3>1, <3>2, <3>3
  <2>2. CASE op \in new /\ SpentTokens(chain, tx) = {}
    <3>1. origin'[op] = op
      BY <1>1, <2>2
    <3>2. ASSUME NEW other \in Holdings', origin'[other] = op PROVE other = op
      <4>1. CASE other \in new
        BY <1>1, <2>2, <3>2, <4>1
      <4>2. CASE other \notin new
        BY <1>1, <1>2, <1>3, <2>2, <3>2, <4>2
      <4> QED BY <4>1, <4>2
    <3> QED BY <3>1, <3>2
  <2>3. CASE op \in new /\ SpentTokens(chain, tx) # {}
    <3>1. /\ prev \in Holdings /\ 1 \in DOMAIN tx.ins /\ origin'[op] = origin[prev]
          /\ ~OutputOf(chain, prev).tok.isSplittable
      BY <1>1, <1>5, <1>6, <1>8, <2>3
    <3>2. OutputOf(chain', op).satoshis = OutputOf(chain', origin[prev]).satoshis
      BY <1>3, <1>4, <1>7, <2>3, <3>1
    <3>3. ASSUME NEW other \in Holdings', origin'[other] = origin[prev]
          PROVE  other = op
      <4>1. CASE other \in new
        BY <1>7, <2>3, <3>1, <4>1
      <4>2. CASE other \notin new
        <5>1. other \in Holdings /\ origin[other] = origin[prev] /\ other # prev
          BY <1>1, <1>2, <1>3, <3>1, <3>3, <4>2 DEF prev
        <5> QED BY <1>4, <3>1, <5>1
      <4> QED BY <4>1, <4>2
    <3> QED BY <3>1, <3>2, <3>3
  <2> QED BY <2>1, <2>2, <2>3
<1> QED BY <1>8 DEF NFTIntact, ChainOutput, OutputOf

-----------------------------------------------------------------------------
(* The theorems *)

LEMMA InitHistory == Init => HistoryInv
<1> SUFFICES ASSUME Init PROVE HistoryInv
  OBVIOUS
<1>1. TokenOutputs = {}
  BY InitInv DEF LedgerInv, OriginsKnown, Init
<1>2. Holdings = {}
  BY <1>1 DEF Holdings, TokenOutputs, Unspent
<1>3. \A t \in DOMAIN chain : DOMAIN chain[t].ins = {}
  BY DEF Init
<1> QED BY <1>1, <1>2, <1>3
        DEF HistoryInv, InputsCreated, InputsExist, IssuerReceivesOnlyByIssue, TokenLineage,
            NFTIntact

LEMMA NextKeepsHistory ==
  LedgerInv /\ HistoryInv /\ [Next]_vars => HistoryInv'
<1> SUFFICES ASSUME LedgerInv, HistoryInv, [Next]_vars PROVE HistoryInv'
  OBVIOUS
<1>1. CASE chain' = chain /\ origin' = origin
  <2>1. InputsCreated'
    BY <1>1 DEF HistoryInv, InputsCreated, InputsExist, TokenOutputs, ChainOutput
  <2>2. IssuerReceivesOnlyByIssue'
    BY <1>1 DEF HistoryInv, IssuerReceivesOnlyByIssue, TokenOutputs, ChainOutput, TokenTx
  <2>3. TokenLineage'
    <3>1. TokenOutputs' = TokenOutputs
      BY <1>1 DEF TokenOutputs, ChainOutput
    <3>2. \A op \in TokenOutputs : Lineage(chain, origin, op)
      BY LineageIsLineage DEF HistoryInv
    <3> QED BY <1>1, <3>1, <3>2, LineageIsLineage
  <2>4. NFTIntact'
    BY <1>1 DEF HistoryInv, NFTIntact, Holdings, ChainOutput
  <2> QED BY <2>1, <2>2, <2>3, <2>4 DEF HistoryInv
<1>2. ASSUME NEW tx \in BuiltTxs, Built(chain, tx), NetworkAccepts(chain, tx), Confirm(tx)
      PROVE  HistoryInv'
  BY <1>2, ConfirmedTx, ConfirmKeepsIssuer, ConfirmKeepsLineage, ConfirmKeepsNFT
     DEF HistoryInv
<1> QED BY <1>1, <1>2, StepConfirmsOrNot

THEOREM HistoryInvariant == Spec => []HistoryInv
<1>1. Init => HistoryInv
  BY InitHistory
<1>2. LedgerInv /\ HistoryInv /\ [Next]_vars => HistoryInv'
  BY NextKeepsHistory
<1> QED BY <1>1, <1>2, LedgerInvariant, PTL DEF Spec

\* However calls interleave and answers get lost, a token output at the
\* redemption key of its own token was put there by issue(): the guards against
\* sending tokens to the issuer (transfer, split, merge, redeemSplit) leave no
\* way round, and the covenant turns the first segment of redeem into a payment.
THEOREM IssuerReceives == Spec => []IssuerReceivesOnlyByIssue
<1>1. HistoryInv => IssuerReceivesOnlyByIssue
  BY DEF HistoryInv
<1> QED BY <1>1, HistoryInvariant, PTL

\* Every token output stems from one that issue() made from a contract of its
\* redemption key and symbol, and still has the flags, symbol and data it was
\* issued with, after any number of transactions.
THEOREM LineageKept == Spec => []TokenLineage
<1>1. HistoryInv => TokenLineage
  BY DEF HistoryInv
<1> QED BY <1>1, HistoryInvariant, PTL

\* A token issued as not splittable has at most one unspent output, which holds
\* every satoshi it was issued with, after any number of transfers.
THEOREM NFTsKept == Spec => []NFTIntact
<1>1. HistoryInv => NFTIntact
  BY DEF HistoryInv
<1> QED BY <1>1, HistoryInvariant, PTL

-----------------------------------------------------------------------------
(* What the miner gets *)

JobsSound == \A c \in Calls : jobs[c].phase # "idle" => Sound(chain, jobs[c].tx)

\* MinerGetsOnlyTheFee is inductive together with it.
FeeInv == JobsSound /\ MinerGetsOnlyTheFee

-----------------------------------------------------------------------------
(* The steps *)

LEMMA AwaitKeepsFee ==
  ASSUME LedgerInv, FeeInv, NEW c \in Calls, NEW tx, Sound(chain, tx),
         NEW awaits, Await(c, tx, awaits)
  PROVE  FeeInv'
<1>1. /\ jobs' = [jobs EXCEPT ![c] = [phase |-> "signing", tx |-> tx, awaits |-> awaits]]
      /\ chain' = chain
  BY DEF Await
<1>2. ASSUME NEW d \in Calls, jobs'[d].phase # "idle" PROVE Sound(chain, jobs'[d].tx)
  <2>1. CASE d = c
    BY <1>1, <2>1 DEF LedgerInv, TypeOK
  <2>2. CASE d # c
    BY <1>1, <1>2, <2>2 DEF LedgerInv, TypeOK, FeeInv, JobsSound
  <2> QED BY <2>1, <2>2
<1>3. MinerGetsOnlyTheFee'
  BY <1>1 DEF FeeInv, MinerGetsOnlyTheFee, ChainOutput
<1> QED BY <1>1, <1>2, <1>3 DEF FeeInv, JobsSound

LEMMA StartKeepsFee ==
  ASSUME LedgerInv, FeeInv, NEW c \in Calls, Start(c)
  PROVE  FeeInv'
<1>0. chain \in Seq(Txs)
  BY ChainTyped
<1>1. CASE Contract(c)
  <2>0. PICK u \in Utxos("p2pkh"), pay \in Payments, symbol \in Symbols, data \in Data :
          \E more \in {<<>>} \cup {<<v>> : v \in Utxos("p2pkh") \ {u}} :
          \E perToken \in SatsPerToken, amount \in TokenAmounts :
             LET inputs == <<u>> \o more
             IN /\ \A i \in DOMAIN inputs : inputs[i].out.pkh = u.out.pkh
                /\ ToSet(inputs) \cap ToSet(pay) = {}
                /\ contractGuards(inputs, pay, perToken, amount)
                /\ Await(c, contractTx(inputs, pay, symbol, data, amount),
                         [i \in DOMAIN pay |-> "payment"] \o <<"owner">>)
    BY <1>1, Zenon DEF Contract
  <2>1. PICK more \in {<<>>} \cup {<<v>> : v \in Utxos("p2pkh") \ {u}},
             perToken \in SatsPerToken, amount \in TokenAmounts :
          /\ contractGuards(<<u>> \o more, pay, perToken, amount)
          /\ Await(c, contractTx(<<u>> \o more, pay, symbol, data, amount),
                   [i \in DOMAIN pay |-> "payment"] \o <<"owner">>)
    BY <2>0, Zenon
  <2> DEFINE inputs == <<u>> \o more
  <2>2. inputs \in Seq(Utxos("p2pkh"))
    <3>1. <<u>> \in Seq(Utxos("p2pkh")) /\ more \in Seq(Utxos("p2pkh"))
      BY SingletonSeq, EmptySeq
    <3> QED BY <3>1, ConcatProperties
  <2>3. contractGuards(inputs, pay, perToken, amount) /\ amount \in Nat
    BY <2>1, AmountsAssumption
  <2> HIDE DEF inputs
  <2>4. Sound(chain, contractTx(inputs, pay, symbol, data, amount))
    BY <1>0, <2>2, <2>3, ContractTxSound
  <2> QED BY <2>1, <2>4, AwaitKeepsFee DEF inputs
<1>2. CASE Issue(c)
  <2>1. PICK u \in Utxos("contract"), pay \in Payments, info \in IssueLists,
             isSplittable \in BOOLEAN, symbol \in Symbols :
          /\ issueGuards(u, info, pay, symbol)
          /\ Await(c, issueTx(u, info, pay, isSplittable, symbol), OwnerThenPayment(1, pay))
    BY <1>2 DEF Issue
  <2>2. Made(chain, issueTx(u, info, pay, isSplittable, symbol))
    BY <1>0, <2>1, ListsAssumption, IssueMade
  <2> QED BY <2>1, <2>2, AwaitKeepsFee DEF Made
<1>3. CASE Transfer(c)
  <2>1. PICK u \in Utxos("stas"), dest \in Keys, pay \in Payments :
          /\ transferGuards(u, dest, pay)
          /\ Await(c, transferTx(u, dest, pay), OwnerThenPayment(1, pay))
    BY <1>3 DEF Transfer
  <2>2. Made(chain, transferTx(u, dest, pay))
    BY <1>0, <2>1, TransferMade
  <2> QED BY <2>1, <2>2, AwaitKeepsFee DEF Made
<1>4. CASE Split(c)
  <2>1. PICK u \in Utxos("stas"), dests \in DestLists, pay \in Payments :
          /\ splitGuards(u, dests, pay)
          /\ Await(c, splitTx(u, dests, pay), OwnerThenPayment(1, pay))
    BY <1>4 DEF Split
  <2>2. Made(chain, splitTx(u, dests, pay))
    BY <1>0, <2>1, ListsAssumption, SplitMade
  <2> QED BY <2>1, <2>2, AwaitKeepsFee DEF Made
<1>5. CASE Redeem(c)
  <2>1. PICK u \in Utxos("stas"), key \in Keys, pay \in Payments :
          /\ redeemGuards(pay)
          /\ Await(c, redeemTx(u, key, pay), OwnerThenPayment(1, pay))
    BY <1>5 DEF Redeem
  <2>2. Made(chain, redeemTx(u, key, pay))
    BY <1>0, <2>1, RedeemMade
  <2> QED BY <2>1, <2>2, AwaitKeepsFee DEF Made
<1>6. CASE RedeemSplit(c)
  <2>1. PICK u \in Utxos("stas"), key \in Keys, dests \in DestLists, pay \in Payments :
          /\ redeemSplitGuards(u, dests, pay)
          /\ Await(c, redeemSplitTx(u, key, dests, pay), OwnerThenPayment(1, pay))
    BY <1>6 DEF RedeemSplit
  <2>2. Made(chain, redeemSplitTx(u, key, dests, pay))
    BY <1>0, <2>1, ListsAssumption, RedeemSplitMade
  <2> QED BY <2>1, <2>2, AwaitKeepsFee DEF Made
<1>7. CASE Merge(c)
  <2>1. PICK u1 \in Utxos("stas"), u2 \in Utxos("stas"), dest \in Keys, pay \in Payments :
          /\ mergeGuards(chain, u1, u2, mergeDests(u1, u2, dest), pay)
          /\ Await(c, mergeTx(chain, u1, u2, dest, pay), OwnerThenPayment(2, pay))
    BY <1>7 DEF Merge
  <2>2. mergeDests(u1, u2, dest) \in Seq(Destinations)
    BY <1>0, MergeDestsType
  <2>3. Made(chain, mergeTx(chain, u1, u2, dest, pay))
    BY <1>0, <2>1, <2>2, MergeTxMade DEF mergeTx
  <2> QED BY <2>1, <2>3, AwaitKeepsFee DEF Made
<1>8. CASE MergeSplit(c)
  <2>1. PICK u1 \in Utxos("stas"), u2 \in Utxos("stas"), dests \in DestLists,
             pay \in Payments :
          /\ mergeGuards(chain, u1, u2, dests, pay)
          /\ Await(c, mergeSplitTx(chain, u1, u2, dests, pay), OwnerThenPayment(2, pay))
    BY <1>8 DEF MergeSplit
  <2>2. Made(chain, mergeSplitTx(chain, u1, u2, dests, pay))
    BY <1>0, <2>1, ListsAssumption, MergeTxMade DEF mergeSplitTx
  <2> QED BY <2>1, <2>2, AwaitKeepsFee DEF Made
<1> QED BY <1>1, <1>2, <1>3, <1>4, <1>5, <1>6, <1>7, <1>8 DEF Start

LEMMA SettleKeepsFee ==
  ASSUME LedgerInv, FeeInv, NEW c \in Calls,
         CallbackSigns(c) \/ CallbackRejects(c) \/ BroadcastRefused(c)
  PROVE  FeeInv'
<1>1. chain' = chain
  BY DEF CallbackSigns, CallbackRejects, BroadcastRefused
<1>2. ASSUME NEW d \in Calls, jobs'[d].phase # "idle"
      PROVE  jobs'[d].tx = jobs[d].tx /\ jobs[d].phase # "idle"
  <2>1. CASE d # c
    BY <1>2, <2>1 DEF CallbackSigns, CallbackRejects, BroadcastRefused, LedgerInv, TypeOK
  <2>2. CASE d = c /\ CallbackSigns(c)
    <3>1. jobs[c] \in Jobs /\ jobs[c].phase = "signing"
      BY <2>2 DEF CallbackSigns, LedgerInv, TypeOK
    <3> QED BY <2>2, <3>1 DEF CallbackSigns, LedgerInv, TypeOK, Jobs
  <2>3. CASE d = c /\ (CallbackRejects(c) \/ BroadcastRefused(c))
    BY <1>2, <2>3 DEF CallbackRejects, BroadcastRefused, IdleJob, LedgerInv, TypeOK
  <2> QED BY <2>1, <2>2, <2>3
<1>3. MinerGetsOnlyTheFee'
  BY <1>1 DEF FeeInv, MinerGetsOnlyTheFee, ChainOutput
<1> QED BY <1>1, <1>2, <1>3 DEF FeeInv, JobsSound

\* MinerGetsOnlyTheFee in terms of Paid.
LEMMA FeesArePaid ==
  /\ MinerGetsOnlyTheFee <=> \A t \in DOMAIN chain \ {1} : Paid(chain, chain[t]) \in {0, Fee}
  /\ MinerGetsOnlyTheFee' <=>
        \A t \in DOMAIN chain' \ {1} : Paid(chain', chain'[t]) \in {0, Fee}
  BY DEF MinerGetsOnlyTheFee, Paid, Ins, OutputOf, ChainOutput

LEMMA ConfirmKeepsFee ==
  ASSUME LedgerInv, FeeInv, InputsCreated, NEW c \in Calls,
         BroadcastAccepted(c) \/ BroadcastAnswerLost(c)
  PROVE  FeeInv'
<1> DEFINE tx == jobs[c].tx
<1>1. /\ tx \in BuiltTxs /\ Built(chain, tx) /\ NetworkAccepts(chain, tx) /\ Confirm(tx)
      /\ \A d \in Calls : jobs'[d].phase # "idle" =>
            jobs'[d] = jobs[d] /\ jobs[d].phase # "idle"
  BY BroadcastConfirms
<1>2. Sound(chain, tx)
  BY DEF BroadcastAccepted, BroadcastAnswerLost, FeeInv, JobsSound
<1>0. chain \in Seq(Txs) /\ AddToChain(tx)
  BY <1>1, ConfirmAdds
<1> HIDE DEF tx
<1>3. JobsSound'
  <2>1. ASSUME NEW d \in Calls, jobs'[d].phase # "idle" PROVE Sound(chain', jobs'[d].tx)
    <3>1. /\ jobs'[d].tx = jobs[d].tx /\ jobs[d].tx \in BuiltTxs
          /\ Built(chain, jobs[d].tx) /\ Sound(chain, jobs[d].tx)
      BY <1>1, <2>1 DEF LedgerInv, TypeOK, Jobs, JobsBuilt, FeeInv, JobsSound
    <3>2. Sound(chain', jobs[d].tx)
      BY <1>0, <1>1, <3>1, SoundStaysSound
    <3> QED BY <3>1, <3>2
  <2> QED BY <2>1 DEF JobsSound
<1>4. /\ chain'[Len(chain) + 1] = [ins |-> tx.ins, outs |-> tx.outs]
      /\ \A t \in DOMAIN chain : chain'[t] = chain[t]
  BY <1>0, <1>1, ConfirmEffect
<1>5. DOMAIN chain' = DOMAIN chain \cup {Len(chain) + 1} 
  BY <1>0, <1>1, LongerChain
<1>6. ASSUME NEW t \in DOMAIN chain' \ {1} PROVE Paid(chain', chain'[t]) \in {0, Fee}
  <2>1. CASE t \in DOMAIN chain
    <3>1. \A i \in DOMAIN chain[t].ins : chain[t].ins[i] \in Created(chain)
      BY <2>1 DEF InputsCreated, InputsExist
    <3>2. Paid(chain', chain[t]) = Paid(chain, chain[t])
      BY <1>0, <1>1, <3>1, ConfirmKeepsPaid
    <3>3. Paid(chain, chain[t]) \in {0, Fee}
      BY <1>6, <2>1, FeesArePaid DEF FeeInv
    <3> QED BY <1>4, <2>1, <3>2, <3>3
  <2>2. CASE t = Len(chain) + 1
    <3>1. Paid(chain', chain'[t]) = Paid(chain', tx)
      BY <1>4, <2>2 DEF Paid
    <3>2. Paid(chain', tx) = Paid(chain, tx)
      BY <1>0, <1>1, ConfirmKeepsPaid DEF Built
    <3>3. Paid(chain, tx) \in {0, Fee}
      BY <1>0, <1>1, <1>2, AcceptedPays DEF NetworkAccepts
    <3> QED BY <3>1, <3>2, <3>3
  <2> QED BY <1>5, <2>1, <2>2
<1> QED BY <1>3, <1>6, FeesArePaid DEF FeeInv

-----------------------------------------------------------------------------
(* The theorem *)

LEMMA InitFee == Init => FeeInv
<1> SUFFICES ASSUME Init PROVE FeeInv
  OBVIOUS
<1>1. DOMAIN chain = {1}
  BY DEF Init
<1>2. \A c \in Calls : jobs[c].phase = "idle"
  BY DEF Init, IdleJob
<1> QED BY <1>1, <1>2 DEF FeeInv, JobsSound, MinerGetsOnlyTheFee

LEMMA NextKeepsFee == LedgerInv /\ HistoryInv /\ FeeInv /\ [Next]_vars => FeeInv'
<1> SUFFICES ASSUME LedgerInv, HistoryInv, FeeInv, [Next]_vars PROVE FeeInv'
  OBVIOUS
<1>1. ASSUME NEW c \in Calls, Start(c) PROVE FeeInv'
  BY <1>1, StartKeepsFee
<1>2. ASSUME NEW c \in Calls,
             CallbackSigns(c) \/ CallbackRejects(c) \/ BroadcastRefused(c)
      PROVE  FeeInv'
  BY <1>2, SettleKeepsFee
<1>3. ASSUME NEW c \in Calls, BroadcastAccepted(c) \/ BroadcastAnswerLost(c)
      PROVE  FeeInv'
  BY <1>3, ConfirmKeepsFee DEF HistoryInv
<1>4. CASE UNCHANGED vars
  <2>1. chain' = chain /\ jobs' = jobs
    BY <1>4 DEF vars
  <2> QED BY <2>1 DEF FeeInv, JobsSound, MinerGetsOnlyTheFee, ChainOutput
<1> QED BY <1>1, <1>2, <1>3, <1>4 DEF Next, Progress

\* Whatever destinations callers hand in and however their calls interleave,
\* a confirmed transaction pays the miner the fee or nothing: satoshis that
\* carry a token never go to fees, and handleChange loses none.
THEOREM FeesPaid == Spec => []MinerGetsOnlyTheFee
<1>1. Init => FeeInv
  BY InitFee
<1>2. LedgerInv /\ HistoryInv /\ FeeInv /\ [Next]_vars => FeeInv'
  BY NextKeepsFee
<1>3. FeeInv => MinerGetsOnlyTheFee
  BY DEF FeeInv
<1> QED BY <1>1, <1>2, <1>3, LedgerInvariant, HistoryInvariant, PTL DEF Spec

-----------------------------------------------------------------------------
(* What a call returns is accepted while its inputs are unspent, as long as *)
(* arguments are what README.md demands and no amount is zero.              *)

\* split and redeemSplit refuse a destination without satoshis; mergeSplit does
\* not look, and the covenant refuses the segment.
PositiveAmounts ==
    \A dests \in DestLists : \A k \in DOMAIN dests : dests[k].satoshis > 0

\* README.md's limit on the parents of a merge goes with the transaction.
JobGood(ch, tx) ==
    /\ TxGood(ch, tx)
    /\ MergesTokens(ch, tx) =>
          \A i \in 1..2 : Len(ch[tx.ins[i].txid].outs) <= ParentOutputs

JobsGood == \A c \in Calls : jobs[c].phase # "idle" => JobGood(chain, jobs[c].tx)

AcceptInv == JobsGood /\ ChainBounded

\* Reachable, and with it what a merge needs, is settled when a call starts.
LEMMA JobStaysGood ==
  ASSUME chain \in Seq(Txs), InputsExist, NEW tx \in BuiltTxs, AddToChain(tx),
         NEW other \in BuiltTxs, Built(chain, other), JobGood(chain, other)
  PROVE  JobGood(chain', other)
<1>1. TxGood(chain', other)
  BY TxStaysGood DEF JobGood
<1>2. \A i \in DOMAIN other.ins : chain'[other.ins[i].txid] = chain[other.ins[i].txid]
  BY ConfirmEffect DEF Built
<1>3. SpentTokens(chain', other) = SpentTokens(chain, other)
  BY SpendsSame DEF Built
<1>4. MergesTokens(chain', other) <=> MergesTokens(chain, other)
  BY <1>3 DEF MergesTokens
<1>5. MergesTokens(chain, other) => \A i \in 1..2 : i \in DOMAIN other.ins
  <2>1. MergesTokens(chain, other) => 1 \in DOMAIN other.ins /\ 2 \in DOMAIN other.ins
    BY DEF MergesTokens, Built, SpendsFirst, SpendsWhole, SpentTokens
  <2>2. \A i \in 1..2 : i = 1 \/ i = 2
    OBVIOUS
  <2> QED BY <2>1, <2>2
<1> QED BY <1>1, <1>2, <1>4, <1>5 DEF JobGood

LEMMA ConfirmKeepsAccept ==
  ASSUME LedgerInv, InputsCreated, FeeInv, AcceptInv, NEW c \in Calls,
         BroadcastAccepted(c) \/ BroadcastAnswerLost(c)
  PROVE  AcceptInv'
<1> DEFINE tx == jobs[c].tx
<1>0. chain \in Seq(Txs)
  BY ChainTyped
<1>1. /\ tx \in BuiltTxs /\ Built(chain, tx) /\ NetworkAccepts(chain, tx)
      /\ AddToChain(tx)
      /\ \A d \in Calls : jobs'[d].phase # "idle" =>
            jobs'[d] = jobs[d] /\ jobs[d].phase # "idle"
  BY BroadcastConfirms DEF Confirm
<1>2. Sound(chain, tx) /\ JobGood(chain, tx)
  BY DEF BroadcastAccepted, BroadcastAnswerLost, FeeInv, JobsSound, AcceptInv, JobsGood
<1> HIDE DEF tx
<1>3. JobsGood'
  <2>1. ASSUME NEW d \in Calls, jobs'[d].phase # "idle"
        PROVE  JobGood(chain', jobs'[d].tx)
    <3>1. /\ jobs'[d].tx = jobs[d].tx /\ jobs[d].tx \in BuiltTxs
          /\ Built(chain, jobs[d].tx) /\ JobGood(chain, jobs[d].tx)
      BY <1>1, <2>1 DEF LedgerInv, TypeOK, Jobs, JobsBuilt, AcceptInv, JobsGood
    <3>2. JobGood(chain', jobs[d].tx)
      BY <1>0, <1>1, <3>1, JobStaysGood DEF InputsCreated
    <3> QED BY <3>1, <3>2
  <2> QED BY <2>1 DEF JobsGood
<1>4. ChainBounded'
  BY <1>0, <1>1, <1>2, ChainStaysBounded
     DEF InputsCreated, AcceptInv, JobGood, NetworkAccepts
<1> QED BY <1>3, <1>4 DEF AcceptInv

LEMMA SettleKeepsAccept ==
  ASSUME LedgerInv, AcceptInv, NEW c \in Calls,
         CallbackSigns(c) \/ CallbackRejects(c) \/ BroadcastRefused(c)
  PROVE  AcceptInv'
<1>1. chain' = chain
  BY DEF CallbackSigns, CallbackRejects, BroadcastRefused
<1>2. ASSUME NEW d \in Calls, jobs'[d].phase # "idle"
      PROVE  jobs'[d].tx = jobs[d].tx /\ jobs[d].phase # "idle"
  <2>1. CASE d # c
    BY <1>2, <2>1 DEF CallbackSigns, CallbackRejects, BroadcastRefused, LedgerInv, TypeOK
  <2>2. CASE d = c /\ CallbackSigns(c)
    <3>1. jobs[c] \in Jobs /\ jobs[c].phase = "signing"
      BY <2>2 DEF CallbackSigns, LedgerInv, TypeOK
    <3> QED BY <2>2, <3>1 DEF CallbackSigns, LedgerInv, TypeOK, Jobs
  <2>3. CASE d = c /\ (CallbackRejects(c) \/ BroadcastRefused(c))
    BY <1>2, <2>3 DEF CallbackRejects, BroadcastRefused, IdleJob, LedgerInv, TypeOK
  <2> QED BY <2>1, <2>2, <2>3
<1> QED BY <1>1, <1>2 DEF AcceptInv, JobsGood, ChainBounded

LEMMA AwaitKeepsAccept ==
  ASSUME LedgerInv, AcceptInv, NEW c \in Calls, NEW tx, JobGood(chain, tx),
         NEW awaits, Await(c, tx, awaits)
  PROVE  AcceptInv'
<1>1. /\ jobs' = [jobs EXCEPT ![c] = [phase |-> "signing", tx |-> tx, awaits |-> awaits]]
      /\ chain' = chain
  BY DEF Await
<1>2. ASSUME NEW d \in Calls, jobs'[d].phase # "idle" PROVE JobGood(chain, jobs'[d].tx)
  <2>1. CASE d = c
    BY <1>1, <2>1 DEF LedgerInv, TypeOK
  <2>2. CASE d # c
    BY <1>1, <1>2, <2>2 DEF LedgerInv, TypeOK, AcceptInv, JobsGood
  <2> QED BY <2>1, <2>2
<1> QED BY <1>1, <1>2 DEF AcceptInv, JobsGood, ChainBounded

-----------------------------------------------------------------------------
(* The calls *)

\* A transaction that merges nothing is good whatever ParentOutputs is.
LEMMA AloneAccept ==
  ASSUME LedgerInv, AcceptInv, NEW c \in Calls, NEW tx, GoodAlone(chain, tx),
         NEW awaits, Await(c, tx, awaits)
  PROVE  AcceptInv'
  BY AwaitKeepsAccept DEF GoodAlone, JobGood

LEMMA MergeAccept ==
  ASSUME LedgerInv, AcceptInv, NEW c \in Calls, NEW tx, NEW u1, NEW u2,
         GoodMerge(chain, tx, u1, u2), SmallParent(u1), SmallParent(u2),
         NEW awaits, Await(c, tx, awaits)
  PROVE  AcceptInv'
<1>1. \A i \in 1..2 : Len(chain[tx.ins[i].txid].outs) <= ParentOutputs
  <2>1. \A i \in 1..2 : i = 1 \/ i = 2
    OBVIOUS
  <2> QED BY <2>1 DEF GoodMerge, SmallParent
<1> QED BY <1>1, AwaitKeepsAccept DEF GoodMerge, JobGood

LEMMA StartKeepsAccept ==
  ASSUME LedgerInv, AcceptInv, ProperCalls, PositiveAmounts, LeadingZeroTxids = {},
         NEW c \in Calls, Start(c)
  PROVE  AcceptInv'
<1>0. chain \in Seq(Txs) /\ ChainBounded
  BY ChainTyped DEF AcceptInv
<1>1. CASE Contract(c)
  <2>1. PICK u \in Utxos("p2pkh"), pay \in Payments, symbol \in Symbols, data \in Data :
          \E more \in {<<>>} \cup {<<v>> : v \in Utxos("p2pkh") \ {u}} :
          \E perToken \in SatsPerToken, amount \in TokenAmounts :
             LET inputs == <<u>> \o more
             IN /\ \A i \in DOMAIN inputs : inputs[i].out.pkh = u.out.pkh
                /\ ToSet(inputs) \cap ToSet(pay) = {}
                /\ contractGuards(inputs, pay, perToken, amount)
                /\ Await(c, contractTx(inputs, pay, symbol, data, amount),
                         [i \in DOMAIN pay |-> "payment"] \o <<"owner">>)
    BY <1>1, Zenon DEF Contract
  <2>2. PICK more \in {<<>>} \cup {<<v>> : v \in Utxos("p2pkh") \ {u}},
             perToken \in SatsPerToken, amount \in TokenAmounts :
          /\ ToSet(<<u>> \o more) \cap ToSet(pay) = {}
          /\ Await(c, contractTx(<<u>> \o more, pay, symbol, data, amount),
                   [i \in DOMAIN pay |-> "payment"] \o <<"owner">>)
    BY <2>1, Zenon
  <2>3. GoodAlone(chain, contractTx(<<u>> \o more, pay, symbol, data, amount))
    BY <1>0, <2>2, ContractTxGood
  <2> QED BY <2>2, <2>3, AloneAccept
<1>2. CASE Issue(c)
  <2>1. PICK u \in Utxos("contract"), pay \in Payments, info \in IssueLists,
             isSplittable \in BOOLEAN, symbol \in Symbols :
          /\ issueGuards(u, info, pay, symbol)
          /\ Await(c, issueTx(u, info, pay, isSplittable, symbol), OwnerThenPayment(1, pay))
    BY <1>2 DEF Issue
  <2>2. GoodAlone(chain, issueTx(u, info, pay, isSplittable, symbol))
    BY <1>0, <2>1, ListsAssumption, IssueTxGood
  <2> QED BY <2>1, <2>2, AloneAccept
<1>3. CASE Transfer(c)
  <2>1. PICK u \in Utxos("stas"), dest \in Keys, pay \in Payments :
          /\ transferGuards(u, dest, pay)
          /\ Await(c, transferTx(u, dest, pay), OwnerThenPayment(1, pay))
    BY <1>3 DEF Transfer
  <2>2. GoodAlone(chain, transferTx(u, dest, pay))
    BY <1>0, <2>1, TransferGood
  <2> QED BY <2>1, <2>2, AloneAccept
<1>4. CASE Split(c)
  <2>1. PICK u \in Utxos("stas"), dests \in DestLists, pay \in Payments :
          /\ SumSatoshis(dests) = u.out.satoshis /\ Len(dests) <= 4
          /\ splitGuards(u, dests, pay)
          /\ Await(c, splitTx(u, dests, pay), OwnerThenPayment(1, pay))
    BY <1>4, Zenon DEF Split
  <2>2. GoodAlone(chain, splitTx(u, dests, pay))
    BY <1>0, <2>1, ListsAssumption, SplitGood
  <2> QED BY <2>1, <2>2, AloneAccept
<1>5. CASE Redeem(c)
  <2>1. PICK u \in Utxos("stas"), key \in Keys, pay \in Payments :
          /\ key = u.out.tok.red
          /\ redeemGuards(pay)
          /\ Await(c, redeemTx(u, key, pay), OwnerThenPayment(1, pay))
    BY <1>5 DEF Redeem
  <2>2. GoodAlone(chain, redeemTx(u, key, pay))
    BY <1>0, <2>1, RedeemGood
  <2> QED BY <2>1, <2>2, AloneAccept
<1>6. CASE RedeemSplit(c)
  <2>1. PICK u \in Utxos("stas"), key \in Keys, dests \in DestLists, pay \in Payments :
          /\ key = u.out.tok.red /\ Len(dests) <= 3
          /\ redeemSplitGuards(u, dests, pay)
          /\ Await(c, redeemSplitTx(u, key, dests, pay), OwnerThenPayment(1, pay))
    BY <1>6, Zenon DEF RedeemSplit
  <2>2. GoodAlone(chain, redeemSplitTx(u, key, dests, pay))
    BY <1>0, <2>1, ListsAssumption, RedeemSplitGood
  <2> QED BY <2>1, <2>2, AloneAccept
<1>7. CASE Merge(c)
  <2>1. PICK u1 \in Utxos("stas"), u2 \in Utxos("stas"), dest \in Keys, pay \in Payments :
          /\ u1 # u2
          /\ SmallParent(u1) /\ SmallParent(u2)
          /\ mergeGuards(chain, u1, u2, mergeDests(u1, u2, dest), pay)
          /\ Await(c, mergeTx(chain, u1, u2, dest, pay), OwnerThenPayment(2, pay))
    BY <1>7, Zenon DEF Merge
  <2>2. GoodMerge(chain, mergeTx(chain, u1, u2, dest, pay), u1, u2)
    BY <1>0, <2>1, MergeGood
  <2> QED BY <2>1, <2>2, MergeAccept
<1>8. CASE MergeSplit(c)
  <2>1. PICK u1 \in Utxos("stas"), u2 \in Utxos("stas"), dests \in DestLists,
             pay \in Payments :
          /\ u1 # u2
          /\ Len(dests) = 2
          /\ SmallParent(u1) /\ SmallParent(u2)
          /\ SumSatoshis(dests) = u1.out.satoshis + u2.out.satoshis
          /\ mergeGuards(chain, u1, u2, dests, pay)
          /\ Await(c, mergeSplitTx(chain, u1, u2, dests, pay), OwnerThenPayment(2, pay))
    BY <1>8, Zenon DEF MergeSplit
  <2>2. dests \in Seq(Destinations) /\ \A k \in DOMAIN dests : dests[k].satoshis > 0
    BY ListsAssumption DEF PositiveAmounts
  <2>3. GoodMerge(chain, mergeSplitTx(chain, u1, u2, dests, pay), u1, u2)
    BY <1>0, <2>1, <2>2, MergeSplitGood
  <2> QED BY <2>1, <2>3, MergeAccept
<1> QED BY <1>1, <1>2, <1>3, <1>4, <1>5, <1>6, <1>7, <1>8 DEF Start

-----------------------------------------------------------------------------
(* The theorems *)

LEMMA InitAccept == Init => AcceptInv
<1> SUFFICES ASSUME Init PROVE AcceptInv
  OBVIOUS
<1>1. \A c \in Calls : jobs[c].phase = "idle"
  BY DEF Init, IdleJob
<1>2. DOMAIN chain = {1} /\ chain[1] = [ins |-> <<>>, outs |-> Genesis]
  BY DEF Init
<1>3. chain[1].ins = <<>> /\ chain[1].outs = Genesis
  BY <1>2
<1>4. Len(chain[1].ins) = 0 /\ DOMAIN chain[1].ins = {}
  BY <1>3
<1>5. SpentTokens(chain, chain[1]) = {}
  BY <1>4 DEF SpentTokens
<1>6. \A k \in DOMAIN chain[1].outs : chain[1].outs[k].kind # "stas"
  BY <1>3, GenesisAssumption
<1>7. TxBounded(chain, chain[1])
  BY <1>4, <1>5, <1>6 DEF TxBounded, MaxParentInputs
<1> QED BY <1>1, <1>2, <1>7 DEF AcceptInv, JobsGood, ChainBounded

LEMMA NextKeepsAccept ==
  ASSUME ProperCalls, PositiveAmounts, LeadingZeroTxids = {},
         LedgerInv, HistoryInv, FeeInv, AcceptInv, [Next]_vars
  PROVE  AcceptInv'
<1>1. ASSUME NEW c \in Calls, Start(c) PROVE AcceptInv'
  BY <1>1, StartKeepsAccept
<1>2. ASSUME NEW c \in Calls,
             CallbackSigns(c) \/ CallbackRejects(c) \/ BroadcastRefused(c)
      PROVE  AcceptInv'
  BY <1>2, SettleKeepsAccept
<1>3. ASSUME NEW c \in Calls, BroadcastAccepted(c) \/ BroadcastAnswerLost(c)
      PROVE  AcceptInv'
  BY <1>3, ConfirmKeepsAccept DEF HistoryInv
<1>4. CASE UNCHANGED vars
  <2>1. chain' = chain /\ jobs' = jobs
    BY <1>4 DEF vars
  <2> QED BY <2>1 DEF AcceptInv, JobsGood, ChainBounded
<1> QED BY <1>1, <1>2, <1>3, <1>4 DEF Next, Progress

\* What the calls were proper about stays true of every job and transaction.
LEMMA AcceptInvariant ==
  ASSUME ProperCalls, PositiveAmounts, LeadingZeroTxids = {}
  PROVE  Spec => [](LedgerInv /\ FeeInv /\ AcceptInv)
<1>1. Init => FeeInv /\ AcceptInv
  BY InitFee, InitAccept
<1>2. LedgerInv /\ HistoryInv /\ FeeInv /\ AcceptInv /\ [Next]_vars
        => FeeInv' /\ AcceptInv'
  BY NextKeepsFee, NextKeepsAccept
<1> QED BY <1>1, <1>2, LedgerInvariant, HistoryInvariant, PTL DEF Spec

\* A returned transaction of unspent inputs is refused only as a merge of an
\* input that the covenant cannot take in.
LEMMA OnlyReachBlocks ==
  ASSUME LedgerInv, FeeInv, AcceptInv, NEW c \in Calls, jobs[c].phase = "returned",
         \A i \in DOMAIN jobs[c].tx.ins : jobs[c].tx.ins[i] \in Unspent(chain),
         ~NetworkAccepts(chain, jobs[c].tx)
  PROVE  \E i \in 1..2 :
            LET op == jobs[c].tx.ins[i]
                parent == chain[op.txid]
            IN /\ Len(parent.outs) > MaxParentVout + 1
               /\ SpentTokens(chain, parent) = {}
               /\ MergesTokens(chain, jobs[c].tx)
<1> DEFINE tx == jobs[c].tx
<1>1. /\ chain \in Seq(Txs) /\ tx \in BuiltTxs /\ Built(chain, tx)
      /\ Sound(chain, tx) /\ JobGood(chain, tx)
  BY DEF LedgerInv, TypeOK, Jobs, JobsBuilt, FeeInv, JobsSound, AcceptInv, JobsGood
<1> HIDE DEF tx
<1>2. ~Passes(chain, tx)
  BY <1>1, PassesIsAccepted DEF tx
<1>3. /\ MergesTokens(chain, tx)
      /\ \E i \in 1..2 : ~Reachable(chain, tx.ins[i])
  BY <1>1, <1>2 DEF JobGood, TxGood, Acceptable
<1>4. PICK i \in 1..2 : ~Reachable(chain, tx.ins[i])
  BY <1>3
<1> DEFINE op == tx.ins[i]
<1>5. op \in TokenOutputs
  BY <1>1, <1>3, MergedTokens
<1> HIDE DEF op
<1>6. ~FewTokens(chain[op.txid]) /\ SpentTokens(chain, chain[op.txid]) = {}
  BY <1>1, <1>4, <1>5, MostAreReachable DEF AcceptInv, op
<1>7. Len(chain[op.txid].outs) \in Nat /\ DOMAIN chain[op.txid].outs = 1..Len(chain[op.txid].outs)
  <2>1. op \in Created(chain)
    BY <1>5 DEF TokenOutputs
  <2>2. chain[op.txid] \in Txs
    BY <1>1, <2>1, CreatedType
  <2> QED BY <2>2, LenProperties DEF Txs
<1>8. Len(chain[op.txid].outs) > MaxParentVout + 1
  <2>1. PICK k \in DOMAIN chain[op.txid].outs : ~(k <= MaxParentVout + 1)
    BY <1>6 DEF FewTokens
  <2> QED BY <1>7, <2>1 DEF MaxParentVout
<1> QED BY <1>3, <1>6, <1>8 DEF op, tx

\* A caller that keeps to README.md gets a transaction that a node accepts for
\* as long as its inputs are unspent, however its tokens came about and
\* whatever else was confirmed while the callbacks were awaited: destinations
\* share out the UTXO and hold satoshis, a redemption goes to the redemption
\* key, and parents of a merge have at most the outputs that README.md allows.
\* Txids with a leading zero byte, which reverseEndian shortens, are excluded.
THEOREM ReturnedAccepted ==
  ASSUME ProperCalls, PositiveAmounts, LeadingZeroTxids = {},
         ParentOutputs \in 0..(MaxParentVout + 1)
  PROVE  Spec => []ReturnedTxAccepted
<1>1. LedgerInv /\ FeeInv /\ AcceptInv => ReturnedTxAccepted
  <2> SUFFICES ASSUME LedgerInv, FeeInv, AcceptInv, NEW c \in Calls,
                      jobs[c].phase = "returned",
                      \A i \in DOMAIN jobs[c].tx.ins :
                         jobs[c].tx.ins[i] \in Unspent(chain),
                      ~NetworkAccepts(chain, jobs[c].tx)
               PROVE  FALSE
    BY DEF ReturnedTxAccepted
  <2>1. PICK i \in 1..2 :
           /\ Len(chain[jobs[c].tx.ins[i].txid].outs) > MaxParentVout + 1
           /\ MergesTokens(chain, jobs[c].tx)
    BY OnlyReachBlocks
  <2> DEFINE n == Len(chain[jobs[c].tx.ins[i].txid].outs)
  <2>2. n <= ParentOutputs
    BY <2>1 DEF AcceptInv, JobsGood, JobGood
  <2>3. n > MaxParentVout + 1 /\ n \in Nat
    <3>1. jobs[c].tx.ins[i] \in Created(chain) /\ chain \in Seq(Txs)
      BY <2>1, MergedTokens DEF LedgerInv, TypeOK, JobsBuilt, TokenOutputs
    <3>2. chain[jobs[c].tx.ins[i].txid] \in Txs
      BY <3>1, CreatedType
    <3> QED BY <2>1, <3>2, LenProperties DEF Txs
  <2> HIDE DEF n
  <2> QED BY <2>2, <2>3 DEF MaxParentVout
<1> QED BY <1>1, AcceptInvariant, PTL

\* Whatever number of outputs the parents of a merge have, only an input that
\* an issue() of more than four outputs created makes a node refuse it.
THEOREM WideIssues ==
  ASSUME ProperCalls, PositiveAmounts, LeadingZeroTxids = {}
  PROVE  Spec => []OnlyWideIssuesBlockMerges
<1>1. LedgerInv /\ FeeInv /\ AcceptInv => OnlyWideIssuesBlockMerges
  <2> SUFFICES ASSUME LedgerInv, FeeInv, AcceptInv, NEW c \in Calls,
                      jobs[c].phase = "returned",
                      \A i \in DOMAIN jobs[c].tx.ins :
                         jobs[c].tx.ins[i] \in Unspent(chain),
                      ~NetworkAccepts(chain, jobs[c].tx)
               PROVE  \E i \in 1..2 :
                         LET parent == jobs[c].tx.ins[i].txid
                         IN ~TokenTx(parent) /\ Len(chain[parent].outs) > 4
    BY DEF OnlyWideIssuesBlockMerges
  <2>1. PICK i \in 1..2 :
           /\ Len(chain[jobs[c].tx.ins[i].txid].outs) > MaxParentVout + 1
           /\ SpentTokens(chain, chain[jobs[c].tx.ins[i].txid]) = {}
    BY OnlyReachBlocks
  <2> DEFINE parent == jobs[c].tx.ins[i].txid
  <2>2. ~TokenTx(parent)
    BY <2>1 DEF TokenTx, SpentTokens, OutputOf, ChainOutput
  <2>3. Len(chain[parent].outs) > 4
    BY <2>1 DEF MaxParentVout
  <2> QED BY <2>2, <2>3
<1> QED BY <1>1, AcceptInvariant, PTL

=============================================================================
