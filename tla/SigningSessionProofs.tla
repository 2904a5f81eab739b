------------------------ MODULE SigningSessionProofs ------------------------
(***************************************************************************)
(* Theorems about SigningSession for every value of its constants: the two *)
(* variables keep their types, a transaction bears the signatures that a   *)
(* node demands exactly when every entry of its signingInfo has been       *)
(* carried out, those of token inputs once, whatever the signers' order,   *)
(* and there is nothing else for a node to refuse.                         *)
(***************************************************************************)
EXTENDS SigningSession, ChainProofs

-----------------------------------------------------------------------------
(* The inductive invariant *)

\* Outputs that are no ordinary ones carry the schema of a token.
CarryTokens(outs) ==
    \A k \in DOMAIN outs : outs[k].kind # "p2pkh" => outs[k].tok \in Tokens

ChainCarries == \A t \in DOMAIN chain : CarryTokens(chain[t].outs)

\* Entry k of signingInfo tells the truth about the output that input k spends,
\* whatever index it bears when the transaction is a contract.
EntryFits(ch, job, k) ==
    LET prev == Utxo(ch, job.tx.ins[k]).out
        info == job.infos[k]
    IN /\ info.publicKey = prev.pkh /\ info.prev = prev
       /\ job.op = "contract" => info.type = "undefined"
       /\ job.op # "contract" => info.inputIndex = k - 1

\* What an input bears is what its entry has been carried out for.
SignaturesFit(ch, job, i) ==
    /\ \A j \in DOMAIN job.signed[i] :
          job.signed[i][j] = SignAll(Utxo(ch, job.tx.ins[i]).out, job.tx)
    /\ Len(job.signed[i]) =
          IF job.infos[i].type = "stas" THEN job.applied[i]
          ELSE IF Applied(job, i) THEN 1 ELSE 0

Fits(ch, job) ==
    /\ CarryTokens(job.tx.outs)
    /\ DOMAIN job.infos = DOMAIN job.tx.ins
    /\ DOMAIN job.signed = DOMAIN job.tx.ins
    /\ DOMAIN job.applied = DOMAIN job.tx.ins
    /\ \A i \in DOMAIN job.tx.ins :
          /\ job.tx.ins[i] \in Created(ch)
          /\ EntryFits(ch, job, i)
          /\ SignaturesFit(ch, job, i)

SessionsFit == \A s \in InFlight : Fits(chain, sessions[s])

\* TypeOK is inductive together with it.
SessionInv == TypeOK /\ ChainCarries /\ SessionsFit

-----------------------------------------------------------------------------
(* What the callers hand in *)

OnChain(ch, utxos) ==
    /\ utxos \in Seq(UtxoRecords)
    /\ \A i \in DOMAIN utxos :
          utxos[i].op \in Created(ch) /\ utxos[i].out = Utxo(ch, utxos[i].op).out

LEMMA UtxosOnChain ==
  ASSUME chain \in Seq(Txs), ChainCarries, NEW kind, NEW u \in Utxos(kind)
  PROVE  /\ u \in UtxoRecords /\ u.out.kind = kind
         /\ u.op \in Created(chain) /\ u.out = Utxo(chain, u.op).out
         /\ kind # "p2pkh" => u.out.tok \in Tokens
<1>1. PICK op \in Unspent(chain) : u = Utxo(chain, op) /\ u.out.kind = kind
  BY DEF Utxos
<1>2. op \in Created(chain)
  BY <1>1 DEF Unspent
<1>3. /\ u.op = op /\ u.out = chain[op.txid].outs[op.vout + 1]
  BY <1>1 DEF Utxo
<1>4. /\ op \in Outpoints /\ u.out \in Outputs
      /\ op.txid \in DOMAIN chain /\ op.vout + 1 \in DOMAIN chain[op.txid].outs
  BY <1>2, <1>3, CreatedType
<1>5. u \in UtxoRecords
  BY <1>1, <1>3, <1>4 DEF UtxoRecords, Utxo
<1>6. kind # "p2pkh" => u.out.tok \in Tokens
  BY <1>1, <1>3, <1>4 DEF ChainCarries, CarryTokens
<1> QED BY <1>1, <1>2, <1>3, <1>5, <1>6

LEMMA SingleOnChain ==
  ASSUME NEW ch, NEW u \in UtxoRecords, u.op \in Created(ch), u.out = Utxo(ch, u.op).out
  PROVE  OnChain(ch, <<u>>)
  BY SingletonSeq DEF OnChain

LEMMA ConcatOnChain ==
  ASSUME NEW ch, NEW a, NEW b, OnChain(ch, a), OnChain(ch, b)
  PROVE  OnChain(ch, a \o b)
<1> DEFINE c == a \o b
           n == Len(a)
           m == Len(b)
           IsOn(u) == u.op \in Created(ch) /\ u.out = Utxo(ch, u.op).out
<1>1. /\ a \in Seq(UtxoRecords) /\ b \in Seq(UtxoRecords) /\ n \in Nat /\ m \in Nat
      /\ DOMAIN a = 1..n /\ DOMAIN b = 1..m
  BY LenProperties DEF OnChain
<1>2. /\ c \in Seq(UtxoRecords) /\ Len(c) = n + m
      /\ \A i \in 1..(n + m) : c[i] = IF i <= n THEN a[i] ELSE b[i - n]
  BY <1>1, ConcatProperties
<1>3. DOMAIN c = 1..(n + m)
  BY <1>2, LenProperties
<1>4. (\A i \in 1..n : IsOn(a[i])) /\ (\A i \in 1..m : IsOn(b[i]))
  BY <1>1 DEF OnChain
<1> HIDE DEF c, n, m, IsOn
<1>5. ASSUME NEW i \in 1..(n + m) PROVE IsOn(c[i])
  <2>1. CASE i <= n
    BY <1>1, <1>2, <1>4, <2>1
  <2>2. CASE ~(i <= n)
    BY <1>1, <1>2, <1>4, <2>2
  <2> QED BY <2>1, <2>2
<1>6. OnChain(ch, c)
  BY <1>2, <1>3, <1>5 DEF OnChain, IsOn
<1> QED BY <1>6 DEF c

LEMMA ConcatOps ==
  ASSUME NEW a \in Seq(UtxoRecords), NEW b \in Seq(UtxoRecords)
  PROVE  Ops(a \o b) = Ops(a) \o Ops(b)
<1> DEFINE c == a \o b
           n == Len(a)
           m == Len(b)
<1>1. /\ n \in Nat /\ m \in Nat /\ DOMAIN a = 1..n /\ DOMAIN b = 1..m
      /\ c \in Seq(UtxoRecords) /\ Len(c) = n + m
      /\ \A i \in 1..(n + m) : c[i] = IF i <= n THEN a[i] ELSE b[i - n]
  BY LenProperties, ConcatProperties
<1>2. DOMAIN c = 1..(n + m)
  BY <1>1, LenProperties
<1> HIDE DEF c, n, m
<1>3. /\ Ops(a) \in Seq(Outpoints) /\ Ops(b) \in Seq(Outpoints)
      /\ Ops(c) \in Seq(Outpoints)
  BY <1>1, UtxoSeqType
<1>4. Len(Ops(a)) = n /\ Len(Ops(b)) = m /\ Len(Ops(c)) = n + m
  BY <1>1, <1>2, <1>3, LenProperties DEF Ops
<1>5. /\ Ops(a) \o Ops(b) \in Seq(Outpoints)
      /\ Len(Ops(a) \o Ops(b)) = n + m
      /\ \A i \in 1..(n + m) :
            (Ops(a) \o Ops(b))[i] = IF i <= n THEN Ops(a)[i] ELSE Ops(b)[i - n]
  BY <1>3, <1>4, ConcatProperties
<1>6. ASSUME NEW i \in 1..(n + m) PROVE Ops(c)[i] = (Ops(a) \o Ops(b))[i]
  <2>1. Ops(c)[i] = c[i].op
    BY <1>2 DEF Ops
  <2>2. CASE i <= n
    <3>1. i \in 1..n
      BY <1>1, <2>2
    <3>2. Ops(a)[i] = a[i].op
      BY <1>1, <3>1 DEF Ops
    <3> QED BY <1>1, <1>5, <2>1, <2>2, <3>2
  <2>3. CASE ~(i <= n)
    <3>1. i - n \in 1..m
      BY <1>1, <2>3
    <3>2. Ops(b)[i - n] = b[i - n].op
      BY <1>1, <3>1 DEF Ops
    <3> QED BY <1>1, <1>5, <2>1, <2>3, <3>2
  <2> QED BY <2>2, <2>3
<1>7. Ops(c) = Ops(a) \o Ops(b)
  BY <1>3, <1>4, <1>5, <1>6, SeqEqual
<1> QED BY <1>7 DEF c

LEMMA PaymentsOnChain ==
  ASSUME chain \in Seq(Txs), ChainCarries, NEW pay \in Payments
  PROVE  IsPay(pay) /\ OnChain(chain, pay)
<1>1. CASE pay = <<>>
  BY <1>1, EmptySeq DEF IsPay, OnChain
<1>2. ASSUME NEW u \in Utxos("p2pkh"), pay = <<u>>
      PROVE  IsPay(pay) /\ OnChain(chain, pay)
  BY <1>2, UtxosOnChain, SingleOnChain DEF IsPay
<1> QED BY <1>1, <1>2 DEF Payments

-----------------------------------------------------------------------------
(* Tokens stay in the outputs that calls build *)

LEMMA CarryConcat ==
  ASSUME NEW a \in Seq(Outputs), NEW b \in Seq(Outputs), CarryTokens(a), CarryTokens(b)
  PROVE  CarryTokens(a \o b)
<1> DEFINE c == a \o b
           n == Len(a)
           m == Len(b)
           Carries(out) == out.kind # "p2pkh" => out.tok \in Tokens
<1>1. /\ n \in Nat /\ m \in Nat /\ DOMAIN a = 1..n /\ DOMAIN b = 1..m
      /\ c \in Seq(Outputs) /\ Len(c) = n + m
      /\ \A i \in 1..(n + m) : c[i] = IF i <= n THEN a[i] ELSE b[i - n]
  BY LenProperties, ConcatProperties
<1>2. DOMAIN c = 1..(n + m)
  BY <1>1, LenProperties
<1>3. (\A i \in 1..n : Carries(a[i])) /\ (\A i \in 1..m : Carries(b[i]))
  BY <1>1 DEF CarryTokens
<1> HIDE DEF c, n, m, Carries
<1>4. ASSUME NEW i \in 1..(n + m) PROVE Carries(c[i])
  <2>1. CASE i <= n
    BY <1>1, <1>3, <2>1
  <2>2. CASE ~(i <= n)
    BY <1>1, <1>3, <2>2
  <2> QED BY <2>1, <2>2
<1>5. CarryTokens(c)
  BY <1>2, <1>4 DEF CarryTokens, Carries
<1> QED BY <1>5 DEF c

LEMMA OneCarries ==
  ASSUME NEW out \in Outputs, out.kind = "p2pkh" \/ out.tok \in Tokens
  PROVE  <<out>> \in Seq(Outputs) /\ CarryTokens(<<out>>)
  BY SingletonSeq DEF CarryTokens

LEMMA WithChangeCarries ==
  ASSUME NEW pay, IsPay(pay), ChangeCovered(pay),
         NEW outs \in Seq(Outputs), CarryTokens(outs)
  PROVE  CarryTokens(outs \o ChangeOutputs(pay))
<1>1. ChangeOutputs(pay) \in Seq(Outputs)
  BY ChangeType
<1>2. \A k \in DOMAIN ChangeOutputs(pay) : ChangeOutputs(pay)[k].kind = "p2pkh"
  BY DEF ChangeOutputs, P2pkhOut
<1>3. CarryTokens(ChangeOutputs(pay))
  BY <1>2 DEF CarryTokens
<1> QED BY <1>1, <1>3, CarryConcat

LEMMA StasOutputsCarry ==
  ASSUME NEW tok \in Tokens, NEW dests \in Seq(Destinations)
  PROVE  StasOutputs(tok, dests) \in Seq(Outputs) /\ CarryTokens(StasOutputs(tok, dests))
<1>1. StasOutputs(tok, dests) \in Seq(Outputs)
  BY StasOutputsType
<1> QED BY <1>1 DEF StasOutputs, StasOut, CarryTokens

-----------------------------------------------------------------------------
(* Calls *)

Calls == {"contract", "issue", "transfer", "split", "redeem", "redeemSplit",
          "merge", "mergeSplit"}

InfosOf(op, inputs) ==
    IF op = "contract" THEN ContractSignInfo(inputs) ELSE SignInfoList(inputs)

LEMMA InfosType ==
  ASSUME chain \in Seq(Txs), NEW inputs, OnChain(chain, inputs), NEW op
  PROVE  /\ InfosOf(op, inputs) \in Seq(SignInfos)
         /\ DOMAIN InfosOf(op, inputs) = DOMAIN inputs
<1>1. PICK n \in Nat : DOMAIN inputs = 1..n
  BY LenProperties DEF OnChain
<1>2. \A i \in 1..n : /\ inputs[i].op.vout \in Nat /\ inputs[i].out \in Outputs
                      /\ inputs[i].out.pkh \in Keys
  <2>1. \A i \in 1..n : inputs[i] \in UtxoRecords
    BY <1>1, LenProperties, ElementOfSeq DEF OnChain
  <2> QED BY <2>1 DEF UtxoRecords, Outputs, Outpoints
<1>3. ContractSignInfo(inputs) \in [1..n -> SignInfos]
  BY <1>1, <1>2 DEF ContractSignInfo, SignInfos
<1>4. SignInfoList(inputs) \in [1..n -> SignInfos]
  BY <1>1, <1>2 DEF SignInfoList, SignInfos
<1> QED BY <1>1, <1>3, <1>4, FunctionIsSeq DEF InfosOf

\* What a call asks for is what there is to sign, and nothing is signed yet.
LEMMA OpenFits ==
  ASSUME chain \in Seq(Txs), NEW op \in Calls, NEW tx \in BuiltTxs, CarryTokens(tx.outs),
         NEW inputs, OnChain(chain, inputs), tx.ins = Ops(inputs), NEW job,
         job = [phase |-> "signing", op |-> op, tx |-> tx, infos |-> InfosOf(op, inputs),
                signed |-> [i \in DOMAIN tx.ins |-> <<>>],
                applied |-> [k \in DOMAIN InfosOf(op, inputs) |-> 0]]
  PROVE  job \in Jobs /\ Fits(chain, job)
<1> DEFINE infos == InfosOf(op, inputs)
<1>1. infos \in Seq(SignInfos) /\ DOMAIN infos = DOMAIN inputs
  BY InfosType
<1>2. PICK n \in Nat : DOMAIN inputs = 1..n
  BY LenProperties DEF OnChain
<1>3. DOMAIN tx.ins = 1..n /\ \A i \in 1..n : tx.ins[i] = inputs[i].op
  BY <1>2 DEF Ops
<1>4. \A i \in 1..n : tx.ins[i] \in Created(chain) /\ inputs[i].out = Utxo(chain, tx.ins[i]).out
  BY <1>2, <1>3 DEF OnChain
<1>5. ASSUME NEW i \in 1..n
      PROVE  /\ infos[i].publicKey = inputs[i].out.pkh /\ infos[i].prev = inputs[i].out
             /\ op = "contract" => infos[i].type = "undefined"
             /\ op # "contract" => infos[i].inputIndex = i - 1
  BY <1>2, <1>5 DEF InfosOf, ContractSignInfo, SignInfoList
<1> HIDE DEF infos
<1>6. /\ job.phase = "signing" /\ job.op = op /\ job.tx = tx /\ job.infos = infos
      /\ job.signed = [i \in 1..n |-> <<>>] /\ job.applied = [k \in 1..n |-> 0]
  BY <1>1, <1>2, <1>3 DEF infos
<1>7. job \in Jobs
  <2>1. job.signed \in Seq(Seq(Sigs)) /\ job.applied \in Seq(0..2)
    <3>1. [i \in 1..n |-> <<>>] \in [1..n -> Seq(Sigs)]
      BY EmptySeq
    <3>2. [k \in 1..n |-> 0] \in [1..n -> 0..2]
      OBVIOUS
    <3> QED BY <1>6, <3>1, <3>2, FunctionIsSeq
  <2> QED BY <1>1, <1>6, <2>1 DEF Jobs, Calls, infos
<1>8. ASSUME NEW i \in 1..n PROVE EntryFits(chain, job, i) /\ SignaturesFit(chain, job, i)
  <2>1. EntryFits(chain, job, i)
    <3>1. job.tx.ins[i] = tx.ins[i] /\ job.infos[i] = infos[i] /\ job.op = op
      BY <1>6
    <3>2. Utxo(chain, job.tx.ins[i]).out = inputs[i].out
      BY <1>4, <3>1
    <3> QED BY <1>5, <3>1, <3>2, Zenon DEF EntryFits
  <2>2. job.signed[i] = <<>> /\ DOMAIN job.signed[i] = {} /\ Len(job.signed[i]) = 0
    BY <1>6
  <2>3. job.applied[i] = 0 /\ ~Applied(job, i)
    BY <1>1, <1>2, <1>6 DEF Applied
  <2> QED BY <2>1, <2>2, <2>3 DEF SignaturesFit
<1>9. Fits(chain, job)
  BY <1>1, <1>2, <1>3, <1>4, <1>6, <1>8 DEF Fits
<1> QED BY <1>7, <1>9

\* One session changes, the chain does not.
LEMMA SessionChanges ==
  ASSUME SessionInv, NEW s \in Sessions, NEW job \in Jobs,
         job.phase # "idle" => Fits(chain, job),
         sessions' = [sessions EXCEPT ![s] = job], chain' = chain
  PROVE  SessionInv'
<1>1. TypeOK'
  BY DEF SessionInv, TypeOK
<1>2. ChainCarries'
  BY DEF SessionInv, ChainCarries
<1>3. ASSUME NEW d \in Sessions, sessions'[d].phase # "idle" PROVE Fits(chain, sessions'[d])
  BY <1>3 DEF SessionInv, TypeOK, SessionsFit, InFlight
<1>4. SessionsFit'
  BY <1>3 DEF SessionsFit, InFlight
<1> QED BY <1>1, <1>2, <1>4 DEF SessionInv

LEMMA OpenKeepsInv ==
  ASSUME SessionInv, NEW s \in Sessions, NEW op \in Calls, NEW tx \in BuiltTxs,
         CarryTokens(tx.outs), NEW inputs, OnChain(chain, inputs), tx.ins = Ops(inputs),
         Open(s, op, tx, InfosOf(op, inputs))
  PROVE  SessionInv'
<1> DEFINE job == [phase |-> "signing", op |-> op, tx |-> tx, infos |-> InfosOf(op, inputs),
                   signed |-> [i \in DOMAIN tx.ins |-> <<>>],
                   applied |-> [k \in DOMAIN InfosOf(op, inputs) |-> 0]]
<1>1. job \in Jobs /\ Fits(chain, job)
  BY OpenFits DEF SessionInv, TypeOK
<1>2. sessions' = [sessions EXCEPT ![s] = job] /\ chain' = chain
  BY DEF Open
<1> HIDE DEF job
<1> QED BY <1>1, <1>2, SessionChanges

\* One UTXO and the payment; two UTXOs and the payment.
LEMMA OneInput ==
  ASSUME SessionInv, NEW kind, NEW u \in Utxos(kind), NEW pay \in Payments
  PROVE  /\ u \in UtxoRecords /\ IsPay(pay) /\ u.out.kind = kind
         /\ kind # "p2pkh" => u.out.tok \in Tokens
         /\ OnChain(chain, <<u>>) /\ OnChain(chain, pay)
         /\ OnChain(chain, <<u>> \o pay)
         /\ Ops(<<u>> \o pay) = <<u.op>> \o Ops(pay)
<1>1. /\ u \in UtxoRecords /\ u.op \in Created(chain) /\ u.out = Utxo(chain, u.op).out
      /\ u.out.kind = kind /\ (kind # "p2pkh" => u.out.tok \in Tokens)
  BY UtxosOnChain DEF SessionInv, TypeOK
<1>2. IsPay(pay) /\ OnChain(chain, pay)
  BY PaymentsOnChain DEF SessionInv, TypeOK
<1>3. OnChain(chain, <<u>>) /\ Ops(<<u>>) = <<u.op>>
  BY <1>1, SingleOnChain DEF Ops
<1>4. OnChain(chain, <<u>> \o pay)
  BY <1>2, <1>3, ConcatOnChain
<1>5. Ops(<<u>> \o pay) = Ops(<<u>>) \o Ops(pay)
  <2> DEFINE one == <<u>>
  <2>1. one \in Seq(UtxoRecords) /\ pay \in Seq(UtxoRecords)
    BY <1>2, <1>3 DEF OnChain
  <2> HIDE DEF one
  <2>2. Ops(one \o pay) = Ops(one) \o Ops(pay)
    BY <2>1, ConcatOps
  <2> QED BY <2>2 DEF one
<1> QED BY <1>1, <1>2, <1>3, <1>4, <1>5

LEMMA TwoInputs ==
  ASSUME SessionInv, NEW u1 \in Utxos("stas"), NEW u2 \in Utxos("stas"),
         NEW pay \in Payments
  PROVE  /\ OnChain(chain, <<u1, u2>> \o pay)
         /\ Ops(<<u1, u2>> \o pay) = <<u1.op, u2.op>> \o Ops(pay)
<1>1. OnChain(chain, <<u1>>) /\ OnChain(chain, <<u2>>) /\ OnChain(chain, pay)
  BY OneInput
<1>2. <<u1, u2>> = <<u1>> \o <<u2>>
  BY PairIsConcat
<1>3. OnChain(chain, <<u1>> \o <<u2>>)
  BY <1>1, ConcatOnChain
<1>4. OnChain(chain, <<u1, u2>>)
  BY <1>2, <1>3
<1>5. Ops(<<u1, u2>>) = <<u1.op, u2.op>>
  BY DEF Ops
<1>6. OnChain(chain, <<u1, u2>> \o pay)
  BY <1>1, <1>4, ConcatOnChain
<1>7. Ops(<<u1, u2>> \o pay) = Ops(<<u1, u2>>) \o Ops(pay)
  <2> DEFINE two == <<u1, u2>>
  <2>1. two \in Seq(UtxoRecords) /\ pay \in Seq(UtxoRecords)
    BY <1>1, <1>4 DEF OnChain
  <2> HIDE DEF two
  <2>2. Ops(two \o pay) = Ops(two) \o Ops(pay)
    BY <2>1, ConcatOps
  <2> QED BY <2>2 DEF two
<1> QED BY <1>5, <1>6, <1>7

LEMMA BasicOpens ==
  ASSUME SessionInv, NEW s \in Sessions, NEW op \in Calls \ {"contract"},
         NEW u \in Utxos("stas"), NEW pay \in Payments, ChangeCovered(pay),
         NEW outs \in Seq(Outputs), CarryTokens(outs), NEW segments,
         BasicTx(u, outs, segments, pay) \in BuiltTxs,
         Open(s, op, BasicTx(u, outs, segments, pay), SignInfoList(<<u>> \o pay))
  PROVE  SessionInv'
<1> DEFINE tx == BasicTx(u, outs, segments, pay)
           inputs == <<u>> \o pay
<1>1. /\ IsPay(pay) /\ OnChain(chain, inputs)
      /\ Ops(inputs) = <<u.op>> \o Ops(pay)
  BY OneInput
<1>2. tx.ins = <<u.op>> \o Ops(pay) /\ tx.outs = outs \o ChangeOutputs(pay)
  BY DEF BasicTx
<1>3. CarryTokens(tx.outs)
  BY <1>1, <1>2, WithChangeCarries
<1>4. InfosOf(op, inputs) = SignInfoList(inputs)
  BY DEF InfosOf
<1> HIDE DEF tx, inputs
<1>5. /\ tx.ins = Ops(inputs) /\ op \in Calls /\ tx \in BuiltTxs
      /\ Open(s, op, tx, InfosOf(op, inputs))
  BY <1>1, <1>2, <1>4 DEF tx, inputs
<1> QED BY <1>1, <1>3, <1>5, OpenKeepsInv

-----------------------------------------------------------------------------
(* One lemma for each call *)

LEMMA ContractOpens ==
  ASSUME SessionInv, NEW s \in Sessions, UnsignedContract(s)
  PROVE  SessionInv'
<1>1. PICK u \in Utxos("p2pkh"), pay \in Payments, symbol \in Symbols, data \in Data,
           amount \in TokenAmounts :
        /\ contractGuards(<<u>>, pay, 1, amount)
        /\ Open(s, "contract", contractTx(<<u>>, pay, symbol, data, amount),
                ContractSignInfo(<<u>> \o pay))
  BY DEF UnsignedContract
<1> DEFINE tx == contractTx(<<u>>, pay, symbol, data, amount)
           schema == [red |-> u.out.pkh, symbol |-> symbol, isSplittable |-> TRUE,
                      data |-> data]
           backed == [kind |-> "contract", pkh |-> u.out.pkh, tok |-> schema,
                      satoshis |-> amount]
           change == contractChange(<<u>>, pay, amount)
<1>2. /\ u \in UtxoRecords /\ IsPay(pay) /\ OnChain(chain, <<u>> \o pay)
      /\ Ops(<<u>> \o pay) = <<u.op>> \o Ops(pay)
  BY OneInput
<1>3. <<u>> \in Seq(UtxoRecords) /\ amount \in Nat
  BY <1>2, SingletonSeq, ArgumentsAssumption
<1>4. tx \in BuiltTxs
  BY <1>1, <1>2, <1>3, ContractType
<1>5. tx.ins = Ops(<<u>> \o pay)
  <2>1. Ops(<<u>>) = <<u.op>>
    BY DEF Ops
  <2>2. tx.ins = Ops(<<u>>) \o Ops(pay)
    BY Zenon DEF contractTx
  <2> QED BY <1>2, <2>1, <2>2, Zenon
<1>6. CarryTokens(tx.outs)
  <2>1. schema \in Tokens
    BY <1>2 DEF Tokens, UtxoRecords, Outputs
  <2>2. change.kind = "p2pkh"
    BY DEF contractChange, P2pkhOut
  <2>3. tx.outs = <<backed, change>>
    BY DEF contractTx
  <2>4. backed.tok \in Tokens
    BY <2>1
  <2> HIDE DEF tx, change, backed
  <2>5. DOMAIN tx.outs = {1, 2} /\ tx.outs[1] = backed /\ tx.outs[2] = change
    BY <2>3
  <2> QED BY <2>2, <2>4, <2>5 DEF CarryTokens
<1> HIDE DEF tx
<1>7. Open(s, "contract", tx, InfosOf("contract", <<u>> \o pay))
  BY <1>1 DEF InfosOf, tx
<1>8. "contract" \in Calls
  BY DEF Calls
<1> QED BY <1>2, <1>4, <1>5, <1>6, <1>7, <1>8, OpenKeepsInv

LEMMA IssueOpens ==
  ASSUME SessionInv, NEW s \in Sessions, UnsignedIssue(s)
  PROVE  SessionInv'
<1>1. PICK u \in Utxos("contract"), info \in IssueLists, pay \in Payments :
        /\ issueGuards(u, info, pay, u.out.tok.symbol)
        /\ Open(s, "issue", issueTx(u, info, pay, TRUE, u.out.tok.symbol),
                SignInfoList(<<u>> \o pay))
  BY DEF UnsignedIssue
<1> DEFINE symbol == u.out.tok.symbol
           tx == issueTx(u, info, pay, TRUE, symbol)
           Tok(k) == [red |-> u.out.pkh, symbol |-> symbol, isSplittable |-> TRUE,
                      data |-> info[k].data]
           issued == [k \in DOMAIN info |-> StasOut(info[k].addr, Tok(k), info[k].satoshis)]
<1>2. /\ u \in UtxoRecords /\ IsPay(pay) /\ OnChain(chain, <<u>> \o pay)
      /\ Ops(<<u>> \o pay) = <<u.op>> \o Ops(pay) /\ u.out.tok \in Tokens
  BY OneInput
<1>3. info \in Seq(IssueInfos) /\ symbol \in Symbols
  BY <1>2, ArgumentsAssumption DEF Tokens
<1>4. tx \in BuiltTxs
  BY <1>1, <1>2, <1>3, IssueType
<1>5. tx.ins = Ops(<<u>> \o pay) /\ tx.outs = issued \o ChangeOutputs(pay)
  BY <1>2 DEF issueTx
<1>6. issued \in Seq(Outputs) /\ CarryTokens(issued)
  <2>1. PICK n \in Nat : DOMAIN info = 1..n
    BY <1>3, LenProperties
  <2>2. \A k \in 1..n : info[k] \in IssueInfos
    BY <1>3, <2>1, LenProperties, ElementOfSeq
  <2>3. ASSUME NEW k \in 1..n
        PROVE  /\ Tok(k) \in Tokens
               /\ StasOut(info[k].addr, Tok(k), info[k].satoshis) \in Outputs
    <3>1. info[k] \in IssueInfos /\ u.out.pkh \in Keys
      BY <1>2, <2>2 DEF UtxoRecords, Outputs
    <3>2. Tok(k) \in Tokens
      BY <1>3, <3>1 DEF Tokens, IssueInfos
    <3> HIDE DEF Tok
    <3> QED BY <3>1, <3>2 DEF StasOut, Outputs, IssueInfos
  <2> HIDE DEF Tok
  <2>4. issued \in [1..n -> Outputs]
    BY <2>1, <2>3
  <2>5. \A k \in 1..n : issued[k].tok \in Tokens
    BY <2>1, <2>3 DEF StasOut
  <2> QED BY <2>1, <2>4, <2>5, FunctionIsSeq DEF CarryTokens
<1>7. CarryTokens(tx.outs)
  BY <1>1, <1>2, <1>5, <1>6, WithChangeCarries DEF issueGuards
<1> HIDE DEF tx
<1>8. Open(s, "issue", tx, InfosOf("issue", <<u>> \o pay))
  BY <1>1 DEF InfosOf, tx
<1>9. "issue" \in Calls
  BY DEF Calls
<1> QED BY <1>2, <1>4, <1>5, <1>7, <1>8, <1>9, OpenKeepsInv

LEMMA TransferOpens ==
  ASSUME SessionInv, NEW s \in Sessions, UnsignedTransfer(s)
  PROVE  SessionInv'
<1>1. PICK u \in Utxos("stas"), dest \in Keys, pay \in Payments :
        /\ transferGuards(u, dest, pay)
        /\ Open(s, "transfer", transferTx(u, dest, pay), SignInfoList(<<u>> \o pay))
  BY DEF UnsignedTransfer
<1> DEFINE out == StasOut(dest, u.out.tok, u.out.satoshis)
           segments == <<Segment(dest, u.out.satoshis)>>
<1>2. u \in UtxoRecords /\ IsPay(pay) /\ u.out.tok \in Tokens /\ ChangeCovered(pay)
  BY <1>1, OneInput DEF transferGuards
<1>3. out \in Outputs /\ out.tok \in Tokens
  BY <1>2 DEF StasOut, Outputs, UtxoRecords
<1>4. transferTx(u, dest, pay) = BasicTx(u, <<out>>, segments, pay)
  BY DEF transferTx
<1>5. BasicTx(u, <<out>>, segments, pay) \in BuiltTxs
  BY <1>1, <1>2, <1>4, TransferType
<1> HIDE DEF out, segments
<1>6. <<out>> \in Seq(Outputs) /\ CarryTokens(<<out>>)
  BY <1>3, OneCarries
<1>7. "transfer" \in Calls \ {"contract"}
  BY DEF Calls
<1> QED BY <1>1, <1>2, <1>4, <1>5, <1>6, <1>7, BasicOpens

LEMMA SplitOpens ==
  ASSUME SessionInv, NEW s \in Sessions, UnsignedSplit(s)
  PROVE  SessionInv'
<1>1. PICK u \in Utxos("stas"), dests \in DestLists, pay \in Payments :
        /\ splitGuards(u, dests, pay)
        /\ Open(s, "split", splitTx(u, dests, pay), SignInfoList(<<u>> \o pay))
  BY DEF UnsignedSplit
<1> DEFINE outs == StasOutputs(u.out.tok, dests)
<1>2. /\ u \in UtxoRecords /\ IsPay(pay) /\ u.out.tok \in Tokens /\ ChangeCovered(pay)
      /\ dests \in Seq(Destinations)
  BY <1>1, OneInput, ArgumentsAssumption DEF splitGuards
<1>3. splitTx(u, dests, pay) = BasicTx(u, outs, dests, pay)
  BY DEF splitTx
<1>4. BasicTx(u, outs, dests, pay) \in BuiltTxs
  BY <1>1, <1>2, <1>3, SplitType
<1>5. outs \in Seq(Outputs) /\ CarryTokens(outs)
  BY <1>2, StasOutputsCarry
<1>6. "split" \in Calls \ {"contract"}
  BY DEF Calls
<1> HIDE DEF outs
<1> QED BY <1>1, <1>2, <1>3, <1>4, <1>5, <1>6, BasicOpens

LEMMA RedeemOpens ==
  ASSUME SessionInv, NEW s \in Sessions, UnsignedRedeem(s)
  PROVE  SessionInv'
<1>1. PICK u \in Utxos("stas"), pay \in Payments :
        /\ redeemGuards(pay)
        /\ Open(s, "redeem", redeemTx(u, u.out.tok.red, pay), SignInfoList(<<u>> \o pay))
  BY DEF UnsignedRedeem
<1> DEFINE key == u.out.tok.red
           out == P2pkhOut(key, u.out.satoshis)
           segments == <<Segment(key, u.out.satoshis)>>
<1>2. /\ u \in UtxoRecords /\ IsPay(pay) /\ ChangeCovered(pay) /\ key \in Keys
  <2>1. u \in UtxoRecords /\ IsPay(pay) /\ u.out.tok \in Tokens
    BY OneInput
  <2> QED BY <1>1, <2>1 DEF redeemGuards, Tokens
<1>3. out \in Outputs /\ out.kind = "p2pkh"
  BY <1>2 DEF P2pkhOut, Outputs, UtxoRecords
<1>4. redeemTx(u, key, pay) = BasicTx(u, <<out>>, segments, pay)
  BY DEF redeemTx
<1>5. BasicTx(u, <<out>>, segments, pay) \in BuiltTxs
  BY <1>1, <1>2, <1>4, RedeemType
<1> HIDE DEF out, segments
<1>6. <<out>> \in Seq(Outputs) /\ CarryTokens(<<out>>)
  BY <1>3, OneCarries
<1>7. "redeem" \in Calls \ {"contract"}
  BY DEF Calls
<1> QED BY <1>1, <1>2, <1>4, <1>5, <1>6, <1>7, BasicOpens

LEMMA RedeemSplitOpens ==
  ASSUME SessionInv, NEW s \in Sessions, UnsignedRedeemSplit(s)
  PROVE  SessionInv'
<1>1. PICK u \in Utxos("stas"), dests \in DestLists, pay \in Payments :
        /\ redeemSplitGuards(u, dests, pay)
        /\ Open(s, "redeemSplit", redeemSplitTx(u, u.out.tok.red, dests, pay),
                SignInfoList(<<u>> \o pay))
  BY DEF UnsignedRedeemSplit
<1> DEFINE key == u.out.tok.red
           rest == P2pkhOut(key, redeemSats(u, dests))
           outs == <<rest>> \o StasOutputs(u.out.tok, dests)
           segments == <<Segment(key, redeemSats(u, dests))>> \o dests
<1>2. /\ u \in UtxoRecords /\ IsPay(pay) /\ ChangeCovered(pay) /\ key \in Keys
      /\ u.out.tok \in Tokens /\ dests \in Seq(Destinations)
  BY <1>1, OneInput, ArgumentsAssumption DEF redeemSplitGuards, Tokens
<1>3. rest \in Outputs /\ rest.kind = "p2pkh"
  <2>1. \A x \in Destinations : x.satoshis \in Nat
    BY DEF Destinations
  <2>2. SumSatoshis(dests) \in Nat /\ u.out.satoshis \in Nat
    BY <1>2, <2>1, SumSatoshisType DEF UtxoRecords, Outputs
  <2>3. redeemSats(u, dests) \in Nat
    BY <1>1, <2>2 DEF redeemSats, redeemSplitGuards
  <2> QED BY <1>2, <2>3 DEF P2pkhOut, Outputs
<1>4. redeemSplitTx(u, key, dests, pay) = BasicTx(u, outs, segments, pay)
  BY DEF redeemSplitTx
<1>5. BasicTx(u, outs, segments, pay) \in BuiltTxs
  BY <1>1, <1>2, <1>4, RedeemSplitType
<1> HIDE DEF rest, segments
<1>6. outs \in Seq(Outputs) /\ CarryTokens(outs)
  <2>1. <<rest>> \in Seq(Outputs) /\ CarryTokens(<<rest>>)
    BY <1>3, OneCarries
  <2>2. /\ StasOutputs(u.out.tok, dests) \in Seq(Outputs)
        /\ CarryTokens(StasOutputs(u.out.tok, dests))
    BY <1>2, StasOutputsCarry
  <2> QED BY <2>1, <2>2, CarryConcat, ConcatProperties
<1>7. "redeemSplit" \in Calls \ {"contract"}
  BY DEF Calls
<1> HIDE DEF outs
<1> QED BY <1>1, <1>2, <1>4, <1>5, <1>6, <1>7, BasicOpens

\* merge and mergeSplit hand their destinations to the same builder.
LEMMA MergeTxOpens ==
  ASSUME SessionInv, NEW s \in Sessions, NEW op \in Calls \ {"contract"},
         NEW u1 \in Utxos("stas"), NEW u2 \in Utxos("stas"),
         NEW dests \in Seq(Destinations), NEW pay \in Payments,
         mergeGuards(chain, u1, u2, dests, pay),
         Open(s, op, MergeTxOf(chain, u1, u2, dests, pay), SignInfoList(<<u1, u2>> \o pay))
  PROVE  SessionInv'
<1> DEFINE tx == MergeTxOf(chain, u1, u2, dests, pay)
           outs == StasOutputs(u1.out.tok, dests)
           inputs == <<u1, u2>> \o pay
<1>1. /\ u1 \in UtxoRecords /\ u2 \in UtxoRecords /\ IsPay(pay)
      /\ u1.out.tok \in Tokens /\ ChangeCovered(pay)
      /\ chain \in Seq(Txs) /\ u1.op \in Created(chain) /\ u2.op \in Created(chain)
  BY OneInput, UtxosOnChain DEF SessionInv, TypeOK, mergeGuards
<1>2. tx \in BuiltTxs
  BY <1>1, MergeTxType
<1>3. OnChain(chain, inputs) /\ Ops(inputs) = <<u1.op, u2.op>> \o Ops(pay)
  BY TwoInputs
<1>4. tx.ins = <<u1.op, u2.op>> \o Ops(pay) /\ tx.outs = outs \o ChangeOutputs(pay)
  BY DEF MergeTxOf
<1>5. CarryTokens(tx.outs)
  BY <1>1, <1>4, StasOutputsCarry, WithChangeCarries
<1>6. InfosOf(op, inputs) = SignInfoList(inputs)
  BY DEF InfosOf
<1> HIDE DEF tx, inputs
<1>7. tx.ins = Ops(inputs) /\ op \in Calls /\ Open(s, op, tx, InfosOf(op, inputs))
  BY <1>3, <1>4, <1>6 DEF tx, inputs
<1> QED BY <1>2, <1>3, <1>5, <1>7, OpenKeepsInv

LEMMA MergeOpens ==
  ASSUME SessionInv, NEW s \in Sessions, UnsignedMerge(s)
  PROVE  SessionInv'
<1>1. PICK u1 \in Utxos("stas"), u2 \in Utxos("stas"), dest \in Keys, pay \in Payments :
        /\ mergeGuards(chain, u1, u2, mergeDests(u1, u2, dest), pay)
        /\ Open(s, "merge", mergeTx(chain, u1, u2, dest, pay),
                SignInfoList(<<u1, u2>> \o pay))
  BY DEF UnsignedMerge
<1>2. mergeDests(u1, u2, dest) \in Seq(Destinations)
  <2>1. u1.out.satoshis \in Nat /\ u2.out.satoshis \in Nat
    BY OneInput DEF UtxoRecords, Outputs
  <2>2. Segment(dest, u1.out.satoshis + u2.out.satoshis) \in Destinations
    BY <2>1 DEF Segment, Destinations
  <2> QED BY <2>2, SingletonSeq DEF mergeDests
<1>3. "merge" \in Calls \ {"contract"}
  BY DEF Calls
<1> QED BY <1>1, <1>2, <1>3, MergeTxOpens DEF mergeTx

LEMMA MergeSplitOpens ==
  ASSUME SessionInv, NEW s \in Sessions, UnsignedMergeSplit(s)
  PROVE  SessionInv'
<1>1. PICK u1 \in Utxos("stas"), u2 \in Utxos("stas"), dests \in DestLists, pay \in Payments :
        /\ mergeGuards(chain, u1, u2, dests, pay)
        /\ Open(s, "mergeSplit", mergeSplitTx(chain, u1, u2, dests, pay),
                SignInfoList(<<u1, u2>> \o pay))
  BY DEF UnsignedMergeSplit
<1>2. dests \in Seq(Destinations) /\ "mergeSplit" \in Calls \ {"contract"}
  BY ArgumentsAssumption DEF Calls
<1> QED BY <1>1, <1>2, MergeTxOpens DEF mergeSplitTx

-----------------------------------------------------------------------------
(* Signers *)

LEMMA SigType ==
  ASSUME NEW prev \in Outputs, NEW tx \in BuiltTxs
  PROVE  SignAll(prev, tx) \in Sigs /\ SignAll(prev, tx).by = prev.pkh
  BY DEF SignAll, Sigs, Outputs, BuiltTxs

\* What is known of an input of a session.
LEMMA InputOfSession ==
  ASSUME chain \in Seq(Txs), NEW job \in Jobs, Fits(chain, job),
         NEW i \in DOMAIN job.tx.ins
  PROVE  /\ Utxo(chain, job.tx.ins[i]).out \in Outputs
         /\ SignAll(Utxo(chain, job.tx.ins[i]).out, job.tx) \in Sigs
         /\ job.infos[i] \in SignInfos /\ job.infos[i].publicKey \in Keys
         /\ EntryFits(chain, job, i) /\ SignaturesFit(chain, job, i)
         /\ job.signed[i] \in Seq(Sigs) /\ job.applied[i] \in 0..2
<1>1. /\ job.tx.ins[i] \in Created(chain)
      /\ EntryFits(chain, job, i) /\ SignaturesFit(chain, job, i)
      /\ i \in DOMAIN job.infos /\ i \in DOMAIN job.signed /\ i \in DOMAIN job.applied
  BY DEF Fits
<1>2. Utxo(chain, job.tx.ins[i]).out \in Outputs
  BY <1>1, CreatedType DEF Utxo
<1>3. job.tx \in BuiltTxs
  BY DEF Jobs
<1>4. /\ job.infos \in Seq(SignInfos) /\ job.signed \in Seq(Seq(Sigs))
      /\ job.applied \in Seq(0..2)
  BY DEF Jobs
<1>5. /\ job.infos[i] \in SignInfos /\ job.signed[i] \in Seq(Sigs)
      /\ job.applied[i] \in 0..2
  BY <1>1, <1>4, LenProperties, ElementOfSeq
<1>6. job.infos[i].publicKey \in Keys
  BY <1>5 DEF SignInfos
<1> QED BY <1>1, <1>2, <1>3, <1>5, <1>6, SigType

\* The holder of a key carries out an entry.
LEMMA EntrySigned ==
  ASSUME chain \in Seq(Txs), NEW job \in Jobs, Fits(chain, job),
         NEW k \in DOMAIN job.infos, job.applied[k] < 2, job.op # "contract",
         NEW new,
         new = [job EXCEPT
                  !.signed[job.infos[k].inputIndex + 1] =
                      WithSignature(job.signed[job.infos[k].inputIndex + 1], job.infos[k],
                                    SignatureOf(job.infos, k, job.tx)),
                  !.applied[k] = @ + 1]
  PROVE  new \in Jobs /\ Fits(chain, new)
<1> DEFINE prev == Utxo(chain, job.tx.ins[k]).out
           sig == SignAll(prev, job.tx)
           there == job.signed[k]
           now == WithSignature(there, job.infos[k], sig)
           ins == job.tx.ins
<1>1. k \in DOMAIN ins /\ DOMAIN job.infos = DOMAIN ins
      /\ DOMAIN job.signed = DOMAIN ins /\ DOMAIN job.applied = DOMAIN ins
  BY DEF Fits
<1>2. /\ prev \in Outputs /\ sig \in Sigs
      /\ EntryFits(chain, job, k) /\ SignaturesFit(chain, job, k)
      /\ there \in Seq(Sigs) /\ job.applied[k] \in 0..2
      /\ job.infos[k] \in SignInfos
  BY <1>1, InputOfSession
<1>3. job.infos[k].inputIndex + 1 = k
  <2>1. job.infos[k].inputIndex = k - 1
    BY <1>2 DEF EntryFits
  <2>2. k \in Nat
    BY <1>1, LenProperties DEF Jobs, BuiltTxs
  <2> QED BY <2>1, <2>2
<1>4. SignatureOf(job.infos, k, job.tx) = sig
  <2>1. job.infos[k].prev = prev /\ job.infos[k].publicKey = prev.pkh
    BY <1>2 DEF EntryFits
  <2> QED BY <2>1 DEF SignatureOf, SignAll
<1>5. new = [job EXCEPT !.signed = [job.signed EXCEPT ![k] = now],
                        !.applied = [job.applied EXCEPT ![k] = job.applied[k] + 1]]
  BY <1>3, <1>4
<1>6. /\ new.phase = job.phase /\ new.op = job.op /\ new.tx = job.tx
      /\ new.infos = job.infos
      /\ new.signed = [job.signed EXCEPT ![k] = now]
      /\ new.applied = [job.applied EXCEPT ![k] = job.applied[k] + 1]
  BY <1>5 DEF Jobs
<1>7. now \in Seq(Sigs) /\ job.applied[k] + 1 \in 0..2
  <2>1. Append(there, sig) \in Seq(Sigs) /\ <<sig>> \in Seq(Sigs)
    BY <1>2, AppendProperties, SingletonSeq
  <2> QED BY <1>2, <2>1 DEF WithSignature
<1>8. new \in Jobs
  <2> HIDE DEF now
  <2>1. job.signed \in Seq(Seq(Sigs)) /\ job.applied \in Seq(0..2)
    BY DEF Jobs
  <2>2. new.signed \in Seq(Seq(Sigs))
    <3> DEFINE Scripts == Seq(Sigs)
    <3>1. now \in Scripts /\ job.signed \in Seq(Scripts) /\ k \in DOMAIN job.signed
      BY <1>1, <1>7, <2>1
    <3> HIDE DEF Scripts
    <3>2. [job.signed EXCEPT ![k] = now] \in Seq(Scripts)
      BY <3>1, ExceptSeq, LenProperties
    <3> QED BY <1>6, <3>2 DEF Scripts
  <2>3. new.applied \in Seq(0..2)
    BY <1>1, <1>6, <1>7, <2>1, ExceptSeq, LenProperties
  <2> QED BY <1>5, <2>2, <2>3, <1>6 DEF Jobs
<1>9. ASSUME NEW i \in DOMAIN ins
      PROVE  EntryFits(chain, new, i) /\ SignaturesFit(chain, new, i)
  <2>1. EntryFits(chain, job, i) /\ SignaturesFit(chain, job, i)
    BY <1>9, InputOfSession
  <2>2. EntryFits(chain, new, i)
    BY <1>6, <2>1 DEF EntryFits
  <2>3. \A j \in DOMAIN job.infos :
           /\ Applied(job, j) <=> job.applied[j] > 0
           /\ Applied(new, j) <=> new.applied[j] > 0
    BY <1>6 DEF Applied
  <2>4. CASE i = k
    <3>1. new.signed[i] = now /\ new.applied[i] = job.applied[k] + 1
          /\ new.applied[i] > 0 /\ Applied(new, i)
      BY <1>1, <1>2, <1>6, <2>3, <2>4
    <3>2. CASE job.infos[k].type = "stas"
      <4>1. now = Append(there, sig)
        BY <3>2 DEF WithSignature
      <4>2. Len(there) = job.applied[k] /\ \A j \in DOMAIN there : there[j] = sig
        BY <1>2, <3>2 DEF SignaturesFit
      <4> HIDE DEF sig, there, now
      <4>3. /\ Len(now) = job.applied[k] + 1 /\ DOMAIN now = 1..(job.applied[k] + 1)
            /\ now[job.applied[k] + 1] = sig
            /\ \A j \in 1..job.applied[k] : now[j] = there[j]
        BY <1>2, <4>1, <4>2, AppendProperties, LenProperties
      <4>4. \A j \in DOMAIN now : now[j] = sig
        <5>1. DOMAIN there = 1..job.applied[k]
          BY <1>2, <4>2, LenProperties
        <5>2. ASSUME NEW j \in 1..(job.applied[k] + 1) PROVE now[j] = sig
          <6>1. j = job.applied[k] + 1 \/ j \in 1..job.applied[k]
            BY <1>2
          <6> QED BY <4>2, <4>3, <5>1, <6>1
        <5> QED BY <4>3, <5>2
      <4> QED BY <1>6, <2>2, <2>4, <3>1, <3>2, <4>3, <4>4 DEF SignaturesFit, sig
    <3>3. CASE job.infos[k].type # "stas"
      <4>1. now = <<sig>>
        BY <3>3 DEF WithSignature
      <4> HIDE DEF sig, now
      <4>2. Len(now) = 1 /\ \A j \in DOMAIN now : now[j] = sig
        BY <4>1
      <4> QED BY <1>6, <2>2, <2>4, <3>1, <3>3, <4>2 DEF SignaturesFit, sig
    <3> QED BY <3>2, <3>3
  <2>5. CASE i # k
    <3>1. new.signed[i] = job.signed[i] /\ new.applied[i] = job.applied[i]
      BY <1>1, <1>6, <2>5
    <3>2. Applied(new, i) <=> Applied(job, i)
      BY <1>1, <2>3, <3>1
    <3> QED BY <1>6, <2>1, <2>2, <3>1, <3>2 DEF SignaturesFit
  <2> QED BY <2>2, <2>4, <2>5
<1>10. Fits(chain, new)
  <2>1. DOMAIN new.signed = DOMAIN ins /\ DOMAIN new.applied = DOMAIN ins
    BY <1>1, <1>6
  <2> HIDE DEF now
  <2> QED BY <1>1, <1>6, <1>9, <2>1 DEF Fits
<1> QED BY <1>8, <1>10

\* The holder of a key signs every input of a contract that belongs to it.
LEMMA KeySigned ==
  ASSUME chain \in Seq(Txs), NEW job \in Jobs, Fits(chain, job),
         NEW k \in DOMAIN job.infos, job.applied[k] < 2, job.op = "contract",
         NEW new,
         new = [job EXCEPT
                  !.signed = [i \in DOMAIN job.signed |->
                                 IF Utxo(chain, job.tx.ins[i]).out.pkh
                                      = job.infos[k].publicKey
                                   THEN <<SignAll(Utxo(chain, job.tx.ins[i]).out, job.tx)>>
                                   ELSE job.signed[i]],
                  !.applied[k] = @ + 1]
  PROVE  new \in Jobs /\ Fits(chain, new)
<1> DEFINE Prev(i) == Utxo(chain, job.tx.ins[i]).out
           Sig(i) == SignAll(Prev(i), job.tx)
           One(i) == <<Sig(i)>>
           Mine(i) == Prev(i).pkh = job.infos[k].publicKey
           ins == job.tx.ins
           now == [i \in DOMAIN ins |-> IF Mine(i) THEN One(i) ELSE job.signed[i]]
<1>1. k \in DOMAIN ins /\ DOMAIN job.infos = DOMAIN ins
      /\ DOMAIN job.signed = DOMAIN ins /\ DOMAIN job.applied = DOMAIN ins
  BY DEF Fits
<1>2. \A i \in DOMAIN ins :
         /\ Sig(i) \in Sigs /\ job.signed[i] \in Seq(Sigs) /\ job.applied[i] \in 0..2
         /\ EntryFits(chain, job, i) /\ SignaturesFit(chain, job, i)
  BY InputOfSession
<1>3. /\ new.phase = job.phase /\ new.op = job.op /\ new.tx = job.tx
      /\ new.infos = job.infos /\ new.signed = now
      /\ new.applied = [job.applied EXCEPT ![k] = job.applied[k] + 1]
  BY <1>1 DEF Jobs
<1>8. \A i \in DOMAIN ins : /\ Mine(i) => new.signed[i] = One(i)
                            /\ ~Mine(i) => new.signed[i] = job.signed[i]
  <2> HIDE DEF Mine, One, ins
  <2> QED BY <1>3
<1>9. /\ new.applied[k] > 0 /\ k \in DOMAIN new.infos
      /\ \A j \in DOMAIN ins : j # k => new.applied[j] = job.applied[j]
  <2>1. job.applied[k] \in 0..2
    BY <1>1, <1>2
  <2> HIDE DEF ins
  <2> QED BY <1>1, <1>3, <2>1
<1> HIDE DEF Sig
<1>4. \A i \in DOMAIN ins : /\ One(i) \in Seq(Sigs) /\ Len(One(i)) = 1
                            /\ \A j \in DOMAIN One(i) : One(i)[j] = Sig(i)
  BY <1>2, SingletonSeq
<1> HIDE DEF One
<1>5. new \in Jobs
  <2>1. PICK n \in Nat : DOMAIN ins = 1..n
    <3>1. ins \in Seq(Outpoints)
      BY DEF Jobs, BuiltTxs
    <3> QED BY <3>1, LenProperties
  <2>3. now \in [1..n -> Seq(Sigs)]
    BY <1>2, <1>4, <2>1
  <2>4. new.signed \in Seq(Seq(Sigs))
    BY <1>3, <2>1, <2>3, FunctionIsSeq
  <2>5. new.applied \in Seq(0..2)
    <3>1. job.applied \in Seq(0..2)
      BY DEF Jobs
    <3>2. job.applied[k] + 1 \in 0..2
      BY <1>1, <1>2
    <3> QED BY <1>1, <1>3, <3>1, <3>2, ExceptSeq, LenProperties
  <2> HIDE DEF now
  <2>6. new = [job EXCEPT !.signed = now,
                          !.applied = [job.applied EXCEPT ![k] = job.applied[k] + 1]]
    BY <1>1 DEF now, One, Sig
  <2> QED BY <1>3, <2>4, <2>5, <2>6 DEF Jobs
<1>6. ASSUME NEW i \in DOMAIN ins
      PROVE  EntryFits(chain, new, i) /\ SignaturesFit(chain, new, i)
  <2>1. EntryFits(chain, job, i) /\ SignaturesFit(chain, job, i)
    BY <1>2
  <2>2. EntryFits(chain, new, i)
    BY <1>3, <2>1 DEF EntryFits
  <2>3. job.infos[i].publicKey = Prev(i).pkh /\ job.infos[i].type = "undefined"
        /\ job.infos[k].publicKey = Prev(k).pkh
    BY <1>1, <1>2, <2>1 DEF EntryFits
  <2>4. CASE Mine(i)
    <3>1. new.signed[i] = One(i)
      BY <1>8, <2>4, Zenon
    <3>2. Applied(new, i)
      <4>1. new.applied[k] > 0 /\ k \in DOMAIN new.infos /\ new.op = "contract"
        BY <1>3, <1>9, Zenon
      <4>2. new.infos[k].publicKey = new.infos[i].publicKey
        BY <1>3, <2>3, <2>4
      <4> QED BY <4>1, <4>2 DEF Applied
    <3>3. Len(new.signed[i]) = 1 /\ \A j \in DOMAIN new.signed[i] : new.signed[i][j] = Sig(i)
      BY <1>4, <3>1, Zenon
    <3> QED BY <1>3, <2>2, <2>3, <3>2, <3>3 DEF SignaturesFit, Sig
  <2>5. CASE ~Mine(i)
    <3>1. new.signed[i] = job.signed[i]
      BY <1>8, <2>5, Zenon
    <3>2. i # k
      BY <2>3, <2>5
    <3>3. Applied(new, i) <=> Applied(job, i)
      <4>1. ASSUME NEW j \in DOMAIN ins,
                   j = i \/ job.infos[j].publicKey = job.infos[i].publicKey
            PROVE  new.applied[j] = job.applied[j]
        <5>1. j # k
          BY <2>3, <2>5, <3>2, <4>1
        <5> QED BY <1>9, <4>1, <5>1, Zenon
      <4>2. Applied(new, i)
              <=> \E j \in DOMAIN ins :
                     /\ new.applied[j] > 0
                     /\ j = i \/ job.infos[j].publicKey = job.infos[i].publicKey
        BY <1>1, <1>3 DEF Applied
      <4>3. Applied(job, i)
              <=> \E j \in DOMAIN ins :
                     /\ job.applied[j] > 0
                     /\ j = i \/ job.infos[j].publicKey = job.infos[i].publicKey
        BY <1>1 DEF Applied
      <4> QED BY <4>1, <4>2, <4>3, Zenon
    <3> QED BY <1>3, <2>1, <2>2, <2>3, <3>1, <3>3, Zenon DEF SignaturesFit
  <2> QED BY <2>4, <2>5
<1>7. Fits(chain, new)
  <2>1. DOMAIN new.signed = DOMAIN ins /\ DOMAIN new.applied = DOMAIN ins
    BY <1>1, <1>3
  <2> HIDE DEF now
  <2> QED BY <1>1, <1>3, <1>6, <2>1 DEF Fits
<1> QED BY <1>5, <1>7

LEMMA SignKeepsInv ==
  ASSUME SessionInv, NEW s \in Sessions, Sign(s)
  PROVE  SessionInv'
<1> DEFINE job == sessions[s]
<1>1. PICK k \in DOMAIN job.infos : SignEntry(s, k) \/ SignWithKey(s, k)
  BY DEF Sign
<1>2. /\ job \in Jobs /\ job.phase = "signing" /\ chain \in Seq(Txs)
      /\ sessions \in [Sessions -> Jobs]
  BY <1>1 DEF SessionInv, TypeOK, SignEntry, SignWithKey, MaySign
<1>3. Fits(chain, job)
  BY <1>2 DEF SessionInv, SessionsFit, InFlight
<1>4. job.applied[k] < 2
  <2>1. job.applied[k] < 2 \/ job.applied[k] < 1
    BY <1>1 DEF SignEntry, SignWithKey, MaySign
  <2>2. job.applied[k] \in 0..2
    <3>1. k \in DOMAIN job.tx.ins
      BY <1>3 DEF Fits
    <3> QED BY <1>2, <1>3, <3>1, InputOfSession
  <2> QED BY <2>1, <2>2
<1>5. CASE SignEntry(s, k)
  <2> DEFINE i == job.infos[k].inputIndex + 1
             now == WithSignature(job.signed[i], job.infos[k],
                                  SignatureOf(job.infos, k, job.tx))
             new == [job EXCEPT !.signed[i] = now, !.applied[k] = @ + 1]
  <2>1. /\ job.op # "contract" /\ chain' = chain
        /\ sessions' = [sessions EXCEPT ![s].signed[i] = now, ![s].applied[k] = @ + 1]
    BY <1>5 DEF SignEntry
  <2>2. new \in Jobs /\ Fits(chain, new)
    BY <1>2, <1>3, <1>4, <2>1, EntrySigned
  <2>3. sessions' = [sessions EXCEPT ![s] = new]
    <3> HIDE DEF now
    <3> QED BY <1>2, <2>1
  <2> HIDE DEF new
  <2> QED BY <2>1, <2>2, <2>3, SessionChanges
<1>6. CASE SignWithKey(s, k)
  <2> DEFINE Prev(i) == Utxo(chain, job.tx.ins[i]).out
             now == [i \in DOMAIN job.signed |->
                        IF Prev(i).pkh = job.infos[k].publicKey
                          THEN <<SignAll(Prev(i), job.tx)>> ELSE job.signed[i]]
             new == [job EXCEPT !.signed = now, !.applied[k] = @ + 1]
  <2>1. /\ job.op = "contract" /\ chain' = chain
        /\ sessions' = [sessions EXCEPT ![s].signed = now, ![s].applied[k] = @ + 1]
    BY <1>6 DEF SignWithKey
  <2>2. new \in Jobs /\ Fits(chain, new)
    BY <1>2, <1>3, <1>4, <2>1, KeySigned
  <2>3. sessions' = [sessions EXCEPT ![s] = new]
    <3> HIDE DEF now
    <3> QED BY <1>2, <2>1
  <2> HIDE DEF new
  <2> QED BY <2>1, <2>2, <2>3, SessionChanges
<1> QED BY <1>1, <1>5, <1>6

-----------------------------------------------------------------------------
(* Broadcasts *)

LEMMA IdleType == IdleSession \in Jobs /\ IdleSession.phase = "idle"
<1>1. NoTx \in BuiltTxs
  BY EmptySeq DEF NoTx, BuiltTxs
<1> QED BY <1>1, EmptySeq DEF IdleSession, Jobs

\* A transaction confirmed meanwhile leaves what a session signs in its place.
LEMMA GrowthKeepsFit ==
  ASSUME chain \in Seq(Txs), NEW tx \in Txs, NEW job \in Jobs, Fits(chain, job)
  PROVE  Fits(Append(chain, tx), job)
<1> DEFINE grown == Append(chain, tx)
<1>1. ASSUME NEW i \in DOMAIN job.tx.ins
      PROVE  /\ job.tx.ins[i] \in Created(grown)
             /\ EntryFits(grown, job, i) /\ SignaturesFit(grown, job, i)
  <2>1. /\ job.tx.ins[i] \in Created(chain)
        /\ EntryFits(chain, job, i) /\ SignaturesFit(chain, job, i)
    BY DEF Fits
  <2>2. /\ job.tx.ins[i] \in Created(grown)
        /\ grown[job.tx.ins[i].txid] = chain[job.tx.ins[i].txid]
    BY <2>1, AppendKeepsOutputs
  <2>3. Utxo(grown, job.tx.ins[i]) = Utxo(chain, job.tx.ins[i])
    BY <2>2 DEF Utxo
  <2> HIDE DEF grown
  <2> QED BY <2>1, <2>2, <2>3 DEF EntryFits, SignaturesFit
<1> HIDE DEF grown
<1>2. Fits(grown, job)
  BY <1>1 DEF Fits
<1> QED BY <1>2 DEF grown

LEMMA AcceptedKeepsInv ==
  ASSUME SessionInv, NEW s \in Sessions, BroadcastAccepted(s)
  PROVE  SessionInv'
<1> DEFINE job == sessions[s]
           tx == [ins |-> job.tx.ins, outs |-> job.tx.outs]
<1>1. /\ job.phase = "signing" /\ chain' = Append(chain, tx)
      /\ sessions' = [sessions EXCEPT ![s] = IdleSession]
  BY DEF BroadcastAccepted, AddToChain
<1>2. chain \in Seq(Txs) /\ sessions \in [Sessions -> Jobs] /\ job \in Jobs
  BY DEF SessionInv, TypeOK
<1>3. tx \in Txs /\ CarryTokens(tx.outs)
  <2>1. job.tx \in BuiltTxs
    BY <1>2 DEF Jobs
  <2>2. CarryTokens(job.tx.outs)
    BY <1>1, <1>2 DEF SessionInv, SessionsFit, InFlight, Fits
  <2> QED BY <2>1, <2>2 DEF BuiltTxs, Txs
<1> HIDE DEF tx
<1>4. TypeOK'
  <2>1. chain' \in Seq(Txs)
    BY <1>1, <1>2, <1>3, AppendProperties
  <2>2. sessions' \in [Sessions -> Jobs]
    BY <1>1, <1>2, IdleType
  <2> QED BY <2>1, <2>2 DEF TypeOK
<1>5. ChainCarries'
  <2>1. /\ DOMAIN chain' = 1..(Len(chain) + 1) /\ DOMAIN chain = 1..Len(chain)
        /\ Len(chain) \in Nat
        /\ chain'[Len(chain) + 1] = tx
        /\ \A t \in 1..Len(chain) : chain'[t] = chain[t]
    BY <1>1, <1>2, <1>3, AppendProperties, LenProperties
  <2>2. ASSUME NEW t \in 1..(Len(chain) + 1) PROVE CarryTokens(chain'[t].outs)
    <3>1. t = Len(chain) + 1 \/ t \in 1..Len(chain)
      BY <2>1
    <3>2. CASE t = Len(chain) + 1
      BY <1>3, <2>1, <3>2
    <3>3. CASE t \in 1..Len(chain)
      BY <2>1, <3>3 DEF SessionInv, ChainCarries
    <3> QED BY <3>1, <3>2, <3>3
  <2> QED BY <2>1, <2>2 DEF ChainCarries
<1>6. SessionsFit'
  <2>1. ASSUME NEW d \in Sessions, sessions'[d].phase # "idle"
        PROVE  Fits(chain', sessions'[d])
    <3>1. d # s /\ sessions'[d] = sessions[d]
      BY <1>1, <1>2, <2>1, IdleType
    <3>2. Fits(chain, sessions[d]) /\ sessions[d] \in Jobs
      BY <1>2, <2>1, <3>1 DEF SessionInv, SessionsFit, InFlight
    <3>3. Fits(Append(chain, tx), sessions[d])
      BY <1>2, <1>3, <3>2, GrowthKeepsFit
    <3> QED BY <1>1, <3>1, <3>3
  <2> QED BY <2>1 DEF SessionsFit, InFlight
<1> QED BY <1>4, <1>5, <1>6 DEF SessionInv

LEMMA RefusedKeepsInv ==
  ASSUME SessionInv, NEW s \in Sessions, BroadcastRefused(s)
  PROVE  SessionInv'
  BY IdleType, SessionChanges DEF BroadcastRefused

-----------------------------------------------------------------------------
(* The theorems *)

LEMMA InitInv == Init => SessionInv
<1> SUFFICES ASSUME Init PROVE SessionInv
  OBVIOUS
<1>1. PICK n \in Nat : DOMAIN Genesis = 1..n
  BY GenesisAssumption, LenProperties
<1>2. \A t \in 1..n : Genesis[t] \in Seq(Outputs)
  BY <1>1, GenesisAssumption, LenProperties, ElementOfSeq
<1>3. chain = [t \in 1..n |-> [ins |-> <<>>, outs |-> Genesis[t]]]
  BY <1>1 DEF Init
<1>4. \A t \in 1..n : chain[t] \in Txs /\ chain[t].outs = Genesis[t]
  BY <1>2, <1>3, EmptySeq DEF Txs
<1>5. TypeOK
  <2>1. chain \in [1..n -> Txs]
    BY <1>3, <1>4
  <2>2. chain \in Seq(Txs)
    BY <2>1, FunctionIsSeq
  <2>3. sessions \in [Sessions -> Jobs]
    BY IdleType DEF Init
  <2> QED BY <2>2, <2>3 DEF TypeOK
<1>6. ChainCarries
  BY <1>1, <1>3, <1>4, GenesisAssumption DEF ChainCarries, CarryTokens
<1>7. SessionsFit
  BY IdleType DEF Init, SessionsFit, InFlight
<1> QED BY <1>5, <1>6, <1>7 DEF SessionInv

LEMMA NextKeepsInv ==
  ASSUME SessionInv, [Next]_vars
  PROVE  SessionInv'
<1>1. ASSUME NEW s \in Sessions, OpenSession(s) PROVE SessionInv'
  BY <1>1, ContractOpens, IssueOpens, TransferOpens, SplitOpens, RedeemOpens,
     RedeemSplitOpens, MergeOpens, MergeSplitOpens DEF OpenSession
<1>2. ASSUME NEW s \in Sessions, Sign(s) PROVE SessionInv'
  BY <1>2, SignKeepsInv
<1>3. ASSUME NEW s \in Sessions, Finish(s) PROVE SessionInv'
  BY <1>3, AcceptedKeepsInv, RefusedKeepsInv DEF Finish
<1>4. CASE UNCHANGED vars
  BY <1>4 DEF vars, SessionInv, TypeOK, ChainCarries, SessionsFit, InFlight
<1> QED BY <1>1, <1>2, <1>3, <1>4 DEF Next

LEMMA SessionInvariant == Spec => []SessionInv
  BY InitInv, NextKeepsInv, PTL DEF Spec

\* What the unsigned calls return and what signers make of it keeps its type:
\* every input of a transaction under way has its place in signingInfo, in the
\* signatures and in the count of what has been carried out, and lies on the
\* chain (lib/unsigned*.js, finaliseSTASUnlockingScript).
THEOREM SessionsTyped == Spec => []TypeOK
  BY SessionInvariant, PTL DEF SessionInv

\* The signing half of AcceptedWhenSigned: a transaction bears what a node
\* demands, one good signature for each input, exactly when all entries of
\* signingInfo have been carried out, those of token inputs once.  Entries of
\* ordinary inputs may be carried out again, and other transactions may be
\* confirmed in between (lib/unsigned*.js, utils.js:141).
SignedWhenApplied ==
    \A s \in InFlight :
        FullySigned(sessions[s])
            <=> AllApplied(sessions[s]) /\ TokenEntriesOnce(sessions[s])

LEMMA SignaturesSuffice == SessionInv => SignedWhenApplied
<1> SUFFICES ASSUME SessionInv, NEW s \in InFlight
             PROVE  FullySigned(sessions[s])
                      <=> AllApplied(sessions[s]) /\ TokenEntriesOnce(sessions[s])
  BY DEF SignedWhenApplied
<1> DEFINE job == sessions[s]
<1>1. job \in Jobs /\ Fits(chain, job) /\ chain \in Seq(Txs)
  BY DEF SessionInv, TypeOK, SessionsFit, InFlight
<1>2. DOMAIN job.infos = DOMAIN job.tx.ins
  BY <1>1 DEF Fits
<1>3. ASSUME NEW i \in DOMAIN job.tx.ins
      PROVE  (Len(job.signed[i]) = 1 /\ SigHolds(chain, job.tx, i, job.signed[i][1]))
               <=> Applied(job, i) /\ (job.infos[i].type = "stas" => job.applied[i] = 1)
  <2> DEFINE prev == Utxo(chain, job.tx.ins[i]).out
             here == job.signed[i]
  <2>1. /\ SignaturesFit(chain, job, i)
        /\ here \in Seq(Sigs) /\ job.applied[i] \in 0..2
    BY <1>1, InputOfSession
  <2>2. Len(here) = 1 => SigHolds(chain, job.tx, i, here[1])
    <3> SUFFICES ASSUME Len(here) = 1 PROVE SigHolds(chain, job.tx, i, here[1])
      OBVIOUS
    <3>1. 1 \in DOMAIN here
      BY <2>1, LenProperties
    <3>2. here[1] = SignAll(prev, job.tx)
      BY <2>1, <3>1 DEF SignaturesFit
    <3> QED BY <3>2 DEF SigHolds, SignAll
  <2>3. job.applied[i] > 0 => Applied(job, i)
    BY <1>2 DEF Applied
  <2>4. CASE job.infos[i].type = "stas"
    <3>1. Len(here) = job.applied[i]
      BY <2>1, <2>4 DEF SignaturesFit
    <3> QED BY <2>1, <2>2, <2>3, <2>4, <3>1
  <2>5. CASE job.infos[i].type # "stas"
    <3>1. Len(here) = IF Applied(job, i) THEN 1 ELSE 0
      BY <2>1, <2>5 DEF SignaturesFit
    <3> QED BY <2>2, <2>5, <3>1
  <2> QED BY <2>4, <2>5
<1> QED BY <1>2, <1>3, Zenon DEF FullySigned, AllApplied, TokenEntriesOnce

THEOREM SignaturesComplete == Spec => []SignedWhenApplied
  BY SignaturesSuffice, SessionInvariant, PTL

-----------------------------------------------------------------------------
(* What a node looks at besides the signatures                             *)
(*                                                                         *)
(* A second invariant, of the transactions themselves: those under way     *)
(* lack nothing but signatures while their inputs are unspent, and the     *)
(* covenant of a merge can take in those on the chain.                     *)

\* A merge reaches every token of the transaction: those it issues must be few,
\* those it passes on are few by the covenant.
Mergeable(ch, tx) == FewTokens(tx) \/ SpentTokens(ch, tx) # {}

Proper(ch, tx) == Made(ch, tx) /\ TxGood(ch, tx) /\ Mergeable(ch, tx)

ChainProper ==
    /\ InputsExist /\ ChainBounded
    /\ \A t \in DOMAIN chain : Mergeable(chain, chain[t])

ProperInv == ChainProper /\ \A s \in InFlight : Proper(chain, sessions[s].tx)

\* A transaction confirmed meanwhile changes nothing for the others.
LEMMA StaysProper ==
  ASSUME chain \in Seq(Txs), InputsExist, NEW tx \in BuiltTxs, AddToChain(tx),
         NEW other, Proper(chain, other)
  PROVE  Proper(chain', other)
<1>1. other \in BuiltTxs /\ Built(chain, other) /\ Sound(chain, other)
  BY DEF Proper, Made
<1>2. Made(chain', other)
  BY <1>1, BuiltStaysBuilt, SoundStaysSound DEF Made
<1>3. TxGood(chain', other)
  BY <1>1, TxStaysGood DEF Proper
<1>4. SpentTokens(chain', other) = SpentTokens(chain, other)
  BY <1>1, SpendsSame DEF Built
<1> QED BY <1>2, <1>3, <1>4 DEF Proper, Mergeable

LEMMA ChainStaysProper ==
  ASSUME chain \in Seq(Txs), ChainProper, NEW tx, Proper(chain, tx),
         ScriptsHold(chain, tx), AddToChain(tx)
  PROVE  ChainProper'
<1> DEFINE last == Len(chain) + 1
           rec == [ins |-> tx.ins, outs |-> tx.outs]
<1>1. /\ tx \in BuiltTxs /\ Built(chain, tx) /\ Sound(chain, tx) /\ TxGood(chain, tx)
      /\ InputsExist /\ ChainBounded
  BY DEF Proper, Made, ChainProper
<1>2. InputsExist' /\ ChainBounded'
  BY <1>1, InputsStayOnChain, ChainStaysBounded
<1>3. chain'[last] = rec /\ \A t \in DOMAIN chain : chain'[t] = chain[t]
  BY <1>1, ConfirmEffect
<1>4. DOMAIN chain' = DOMAIN chain \cup {last}
  BY <1>1, LongerChain
<1> HIDE DEF last
<1>5. ASSUME NEW t \in DOMAIN chain PROVE Mergeable(chain', chain[t])
  <2>1. SpentTokens(chain', chain[t]) = SpentTokens(chain, chain[t])
    <3>1. \A i \in DOMAIN chain[t].ins : chain[t].ins[i] \in Created(chain)
      BY <1>1 DEF InputsExist
    <3> QED BY <1>1, <3>1, SpendsSame
  <2> QED BY <2>1 DEF ChainProper, Mergeable
<1>6. Mergeable(chain', rec)
  <2>1. Mergeable(chain', tx)
    BY <1>1, StaysProper DEF Proper
  <2>2. rec.ins = tx.ins /\ rec.outs = tx.outs
    OBVIOUS
  <2> HIDE DEF rec
  <2> QED BY <2>1, <2>2 DEF Mergeable, FewTokens, SpentTokens
<1> HIDE DEF rec
<1>7. \A t \in DOMAIN chain' : Mergeable(chain', chain'[t])
  BY <1>3, <1>4, <1>5, <1>6
<1> QED BY <1>2, <1>7 DEF ChainProper

\* The chain is as it was, and each transaction under way was so before.
LEMMA SameTxsProper ==
  ASSUME ProperInv, chain' = chain,
         \A d \in InFlight' : Proper(chain, sessions'[d].tx)
  PROVE  ProperInv'
<1>1. ChainProper'
  BY DEF ProperInv, ChainProper, InputsExist, ChainBounded
<1> QED BY <1>1 DEF ProperInv

LEMMA OpenKeepsProper ==
  ASSUME SessionInv, ProperInv, NEW s \in Sessions, NEW op, NEW tx, NEW infos,
         Proper(chain, tx), Open(s, op, tx, infos)
  PROVE  ProperInv'
<1> DEFINE job == [phase |-> "signing", op |-> op, tx |-> tx, infos |-> infos,
                   signed |-> [i \in DOMAIN tx.ins |-> <<>>],
                   applied |-> [k \in DOMAIN infos |-> 0]]
<1>1. chain' = chain /\ sessions' = [sessions EXCEPT ![s] = job]
  BY DEF Open
<1>2. job.tx = tx
  OBVIOUS
<1> HIDE DEF job
<1>3. ASSUME NEW d \in InFlight' PROVE Proper(chain, sessions'[d].tx)
  <2>1. d \in Sessions /\ sessions'[d].phase # "idle" /\ DOMAIN sessions = Sessions
    BY <1>3 DEF InFlight, SessionInv, TypeOK
  <2>2. CASE d = s
    BY <1>1, <1>2, <2>1, <2>2
  <2>3. CASE d # s
    BY <1>1, <2>1, <2>3 DEF ProperInv, InFlight
  <2> QED BY <2>2, <2>3
<1> QED BY <1>1, <1>3, SameTxsProper

LEMMA SignKeepsProper ==
  ASSUME SessionInv, ProperInv, NEW s \in Sessions, Sign(s)
  PROVE  ProperInv'
<1>1. PICK k \in DOMAIN sessions[s].infos : SignEntry(s, k) \/ SignWithKey(s, k)
  BY DEF Sign
<1>2. /\ chain' = chain /\ sessions \in [Sessions -> Jobs]
      /\ \A d \in Sessions : d # s => sessions'[d] = sessions[d]
      /\ sessions'[s].phase = sessions[s].phase /\ sessions'[s].tx = sessions[s].tx
  <2>1. sessions \in [Sessions -> Jobs] /\ sessions[s] \in Jobs
    BY DEF SessionInv, TypeOK
  <2>2. CASE SignEntry(s, k)
    BY <2>1, <2>2 DEF SignEntry, Jobs
  <2>3. CASE SignWithKey(s, k)
    BY <2>1, <2>3 DEF SignWithKey, Jobs
  <2> QED BY <1>1, <2>1, <2>2, <2>3
<1>3. ASSUME NEW d \in InFlight' PROVE Proper(chain, sessions'[d].tx)
  <2>1. d \in InFlight /\ sessions'[d].tx = sessions[d].tx
    BY <1>2, <1>3 DEF InFlight
  <2> QED BY <2>1 DEF ProperInv
<1> QED BY <1>2, <1>3, SameTxsProper

LEMMA RefusedKeepsProper ==
  ASSUME SessionInv, ProperInv, NEW s \in Sessions, BroadcastRefused(s)
  PROVE  ProperInv'
<1>1. /\ chain' = chain /\ sessions' = [sessions EXCEPT ![s] = IdleSession]
      /\ sessions \in [Sessions -> Jobs]
  BY DEF BroadcastRefused, SessionInv, TypeOK
<1>2. ASSUME NEW d \in InFlight' PROVE Proper(chain, sessions'[d].tx)
  <2>1. d \in Sessions /\ d # s /\ sessions'[d] = sessions[d] /\ d \in InFlight
    BY <1>1, <1>2, IdleType DEF InFlight
  <2> QED BY <2>1 DEF ProperInv
<1> QED BY <1>1, <1>2, SameTxsProper

LEMMA AcceptedKeepsProper ==
  ASSUME SessionInv, ProperInv, NEW s \in Sessions, BroadcastAccepted(s)
  PROVE  ProperInv'
<1> DEFINE tx == sessions[s].tx
<1>1. /\ sessions[s].phase = "signing" /\ AddToChain(tx) /\ NetworkAccepts(chain, tx)
      /\ sessions' = [sessions EXCEPT ![s] = IdleSession]
      /\ sessions \in [Sessions -> Jobs] /\ chain \in Seq(Txs)
  BY DEF BroadcastAccepted, Accepted, SessionInv, TypeOK
<1>2. Proper(chain, tx) /\ tx \in BuiltTxs
  BY <1>1 DEF ProperInv, InFlight, Proper, Made
<1> HIDE DEF tx
<1>3. ChainProper'
  BY <1>1, <1>2, ChainStaysProper DEF ProperInv, NetworkAccepts
<1>4. ASSUME NEW d \in InFlight' PROVE Proper(chain', sessions'[d].tx)
  <2>1. d \in Sessions /\ d # s /\ sessions'[d] = sessions[d] /\ d \in InFlight
    BY <1>1, <1>4, IdleType DEF InFlight
  <2>2. Proper(chain, sessions[d].tx) /\ InputsExist
    BY <2>1 DEF ProperInv, ChainProper
  <2>3. Proper(chain', sessions[d].tx)
    BY <1>1, <1>2, <2>2, StaysProper
  <2> QED BY <2>1, <2>3
<1> QED BY <1>3, <1>4 DEF ProperInv

-----------------------------------------------------------------------------
(* Each unsigned call returns a proper transaction *)

\* One that spends a token first is mergeable however many tokens it makes.
LEMMA SpenderMergeable ==
  ASSUME chain \in Seq(Txs), NEW u \in Utxos("stas"), NEW tx, Made(chain, tx),
         tx.ins[1] = u.op
  PROVE  Mergeable(chain, tx)
<1>1. OutputOf(chain, u.op).kind = "stas"
  BY UtxosType DEF OutputOf, ChainOutput
<1>2. 1 \in DOMAIN tx.ins
  BY LenProperties, EmptySeq DEF Made, Built, BuiltTxs
<1>3. 1 \in SpentTokens(chain, tx)
  BY <1>1, <1>2 DEF SpentTokens
<1> QED BY <1>3 DEF Mergeable

LEMMA BasicProper ==
  ASSUME chain \in Seq(Txs), NEW u \in Utxos("stas"), NEW pay \in Payments,
         NEW outs, NEW segments,
         Made(chain, BasicTx(u, outs, segments, pay)),
         GoodAlone(chain, BasicTx(u, outs, segments, pay))
  PROVE  Proper(chain, BasicTx(u, outs, segments, pay))
<1> DEFINE tx == BasicTx(u, outs, segments, pay)
<1>1. tx.ins[1] = u.op
  <2>1. OneAndPayment(chain, <<u.op>> \o Ops(pay), u.op, "stas")
    BY BasicTxInputs
  <2> QED BY <2>1 DEF BasicTx, OneAndPayment
<1>2. Made(chain, tx) /\ TxGood(chain, tx)
  BY DEF GoodAlone
<1> HIDE DEF tx
<1>3. Mergeable(chain, tx)
  BY <1>1, <1>2, SpenderMergeable
<1> QED BY <1>2, <1>3 DEF Proper, tx

LEMMA MergeProper ==
  ASSUME chain \in Seq(Txs), NEW u1 \in Utxos("stas"), NEW u2, NEW tx,
         Made(chain, tx), GoodMerge(chain, tx, u1, u2)
  PROVE  Proper(chain, tx)
  BY SpenderMergeable DEF GoodMerge, Proper

\* A contract has no tokens, an issue those of its list.
LEMMA ContractProper ==
  ASSUME chain \in Seq(Txs), NEW u \in Utxos("p2pkh"), NEW pay \in Payments,
         NEW symbol \in Symbols, NEW data \in Data, NEW amount \in Nat,
         u \notin ToSet(pay), contractGuards(<<u>>, pay, 1, amount)
  PROVE  Proper(chain, contractTx(<<u>>, pay, symbol, data, amount))
<1> DEFINE tx == contractTx(<<u>>, pay, symbol, data, amount)
<1>1. /\ <<u>> \in Seq(Utxos("p2pkh")) /\ <<u>> # <<>>
      /\ <<u>> \o <<>> = <<u>> /\ ToSet(<<u>>) = {u}
  BY SingletonSeq, ConcatEmptySeq DEF ToSet
<1>2. Made(chain, tx)
  BY <1>1, ContractMade
<1>3. GoodAlone(chain, tx)
  <2>1. ToSet(<<u>> \o <<>>) \cap ToSet(pay) = {}
    BY <1>1
  <2>2. GoodAlone(chain, contractTx(<<u>> \o <<>>, pay, symbol, data, amount))
    BY <2>1, ContractTxGood
  <2> QED BY <1>1, <2>2
<1>4. FewTokens(tx)
  BY DEF contractTx, contractChange, P2pkhOut, FewTokens
<1> QED BY <1>2, <1>3, <1>4 DEF GoodAlone, Mergeable, Proper

LEMMA IssueProper ==
  ASSUME chain \in Seq(Txs), NEW u \in Utxos("contract"), NEW info \in Seq(IssueInfos),
         Len(info) <= MaxParentVout + 1, NEW pay \in Payments, NEW symbol \in Symbols,
         issueGuards(u, info, pay, symbol)
  PROVE  Proper(chain, issueTx(u, info, pay, TRUE, symbol))
<1> DEFINE tx == issueTx(u, info, pay, TRUE, symbol)
           issued == [k \in DOMAIN info |->
                        StasOut(info[k].addr,
                                [red |-> u.out.pkh, symbol |-> symbol,
                                 isSplittable |-> TRUE, data |-> info[k].data],
                                info[k].satoshis)]
<1>1. Made(chain, tx) /\ GoodAlone(chain, tx)
  BY IssueMade, IssueTxGood
<1>2. u \in UtxoRecords /\ IsPay(pay) /\ ChangeCovered(pay)
  BY UtxosType DEF issueGuards
<1>3. PICK n \in Nat : DOMAIN info = 1..n /\ n = Len(info)
  BY LenProperties
<1>4. issued \in Seq(Outputs) /\ DOMAIN issued = 1..n
  <2>1. \A k \in 1..n : info[k] \in IssueInfos
    BY <1>3, LenProperties, ElementOfSeq
  <2>2. issued \in [1..n -> Outputs]
    BY <1>2, <1>3, <2>1 DEF StasOut, Outputs, IssueInfos, UtxoRecords, Tokens
  <2> HIDE DEF issued
  <2> QED BY <2>2, FunctionIsSeq
<1>5. tx.outs = issued \o ChangeOutputs(pay)
  BY DEF issueTx
<1> HIDE DEF issued, tx
<1>6. ASSUME NEW k \in DOMAIN tx.outs, tx.outs[k].kind = "stas" PROVE k <= MaxParentVout + 1
  <2>1. k \in DOMAIN issued
    BY <1>2, <1>4, <1>5, <1>6, ChangeIsPlain
  <2> QED BY <1>3, <1>4, <2>1 DEF MaxParentVout
<1> QED BY <1>1, <1>6 DEF GoodAlone, Mergeable, FewTokens, Proper, tx

\* The schema of a token or contract on the chain.
LEMMA SchemaOf ==
  ASSUME SessionInv, NEW kind, kind # "p2pkh", NEW u \in Utxos(kind)
  PROVE  u.out.tok.red \in Keys /\ u.out.tok.symbol \in Symbols
<1>1. u.out.tok \in Tokens
  BY UtxosOnChain DEF SessionInv, TypeOK
<1> QED BY <1>1 DEF Tokens

LEMMA OpenSessionKeepsProper ==
  ASSUME SessionInv, ProperInv, ProperArguments, LeadingZeroTxids = {},
         NEW s \in Sessions, OpenSession(s)
  PROVE  ProperInv'
<1>0. chain \in Seq(Txs) /\ ChainBounded
  BY DEF SessionInv, TypeOK, ProperInv, ChainProper
<1>1. CASE UnsignedContract(s)
  <2>1. PICK u \in Utxos("p2pkh"), pay \in Payments, symbol \in Symbols, data \in Data,
             amount \in TokenAmounts :
          /\ u \notin ToSet(pay)
          /\ contractGuards(<<u>>, pay, 1, amount)
          /\ Open(s, "contract", contractTx(<<u>>, pay, symbol, data, amount),
                  ContractSignInfo(<<u>> \o pay))
    BY <1>1, Zenon DEF UnsignedContract
  <2>2. Proper(chain, contractTx(<<u>>, pay, symbol, data, amount))
    BY <1>0, <2>1, ArgumentsAssumption, ContractProper
  <2> QED BY <2>1, <2>2, OpenKeepsProper
<1>2. CASE UnsignedIssue(s)
  <2>1. PICK u \in Utxos("contract"), info \in IssueLists, pay \in Payments :
          /\ issueGuards(u, info, pay, u.out.tok.symbol)
          /\ Open(s, "issue", issueTx(u, info, pay, TRUE, u.out.tok.symbol),
                  SignInfoList(<<u>> \o pay))
    BY <1>2, Zenon DEF UnsignedIssue
  <2>2. /\ info \in Seq(IssueInfos) /\ Len(info) <= MaxParentVout + 1
        /\ u.out.tok.symbol \in Symbols
    BY ArgumentsAssumption, SchemaOf DEF ProperArguments
  <2>3. Proper(chain, issueTx(u, info, pay, TRUE, u.out.tok.symbol))
    BY <1>0, <2>1, <2>2, IssueProper
  <2> QED BY <2>1, <2>3, OpenKeepsProper
<1>3. CASE UnsignedTransfer(s)
  <2>1. PICK u \in Utxos("stas"), dest \in Keys, pay \in Payments :
          /\ transferGuards(u, dest, pay)
          /\ Open(s, "transfer", transferTx(u, dest, pay), SignInfoList(<<u>> \o pay))
    BY <1>3, Zenon DEF UnsignedTransfer
  <2>2. Made(chain, transferTx(u, dest, pay)) /\ GoodAlone(chain, transferTx(u, dest, pay))
    BY <1>0, <2>1, TransferMade, TransferGood
  <2>3. Proper(chain, transferTx(u, dest, pay))
    BY <1>0, <2>2, BasicProper DEF transferTx
  <2> QED BY <2>1, <2>3, OpenKeepsProper
<1>4. CASE UnsignedSplit(s)
  <2>1. PICK u \in Utxos("stas"), dests \in DestLists, pay \in Payments :
          /\ SumSatoshis(dests) = u.out.satoshis /\ Len(dests) <= 4
          /\ splitGuards(u, dests, pay)
          /\ Open(s, "split", splitTx(u, dests, pay), SignInfoList(<<u>> \o pay))
    BY <1>4, Zenon DEF UnsignedSplit
  <2>2. dests \in Seq(Destinations)
    BY ArgumentsAssumption
  <2>3. Made(chain, splitTx(u, dests, pay)) /\ GoodAlone(chain, splitTx(u, dests, pay))
    BY <1>0, <2>1, <2>2, SplitMade, SplitGood
  <2>4. Proper(chain, splitTx(u, dests, pay))
    BY <1>0, <2>3, BasicProper DEF splitTx
  <2> QED BY <2>1, <2>4, OpenKeepsProper
<1>5. CASE UnsignedRedeem(s)
  <2>1. PICK u \in Utxos("stas"), pay \in Payments :
          /\ redeemGuards(pay)
          /\ Open(s, "redeem", redeemTx(u, u.out.tok.red, pay), SignInfoList(<<u>> \o pay))
    BY <1>5, Zenon DEF UnsignedRedeem
  <2> DEFINE key == u.out.tok.red
  <2>2. key \in Keys
    BY SchemaOf
  <2>3. Made(chain, redeemTx(u, key, pay)) /\ GoodAlone(chain, redeemTx(u, key, pay))
    BY <1>0, <2>1, <2>2, RedeemMade, RedeemGood
  <2>4. Proper(chain, redeemTx(u, key, pay))
    BY <1>0, <2>3, BasicProper DEF redeemTx
  <2> QED BY <2>1, <2>4, OpenKeepsProper
<1>6. CASE UnsignedRedeemSplit(s)
  <2>1. PICK u \in Utxos("stas"), dests \in DestLists, pay \in Payments :
          /\ Len(dests) <= 3
          /\ redeemSplitGuards(u, dests, pay)
          /\ Open(s, "redeemSplit", redeemSplitTx(u, u.out.tok.red, dests, pay),
                  SignInfoList(<<u>> \o pay))
    BY <1>6, Zenon DEF UnsignedRedeemSplit
  <2> DEFINE key == u.out.tok.red
  <2>2. key \in Keys /\ dests \in Seq(Destinations)
    BY SchemaOf, ArgumentsAssumption
  <2>3. /\ Made(chain, redeemSplitTx(u, key, dests, pay))
        /\ GoodAlone(chain, redeemSplitTx(u, key, dests, pay))
    BY <1>0, <2>1, <2>2, RedeemSplitMade, RedeemSplitGood
  <2>4. Proper(chain, redeemSplitTx(u, key, dests, pay))
    BY <1>0, <2>3, BasicProper DEF redeemSplitTx
  <2> QED BY <2>1, <2>4, OpenKeepsProper
<1>7. CASE UnsignedMerge(s)
  <2>1. PICK u1 \in Utxos("stas"), u2 \in Utxos("stas"), dest \in Keys, pay \in Payments :
          /\ u1 # u2
          /\ mergeGuards(chain, u1, u2, mergeDests(u1, u2, dest), pay)
          /\ Open(s, "merge", mergeTx(chain, u1, u2, dest, pay),
                  SignInfoList(<<u1, u2>> \o pay))
    BY <1>7, Zenon DEF UnsignedMerge
  <2>2. mergeDests(u1, u2, dest) \in Seq(Destinations)
    BY <1>0, MergeDestsType
  <2>3. Made(chain, mergeTx(chain, u1, u2, dest, pay))
    BY <1>0, <2>1, <2>2, MergeTxMade DEF mergeTx
  <2>4. GoodMerge(chain, mergeTx(chain, u1, u2, dest, pay), u1, u2)
    BY <1>0, <2>1, MergeGood
  <2>5. Proper(chain, mergeTx(chain, u1, u2, dest, pay))
    BY <1>0, <2>3, <2>4, MergeProper
  <2> QED BY <2>1, <2>5, OpenKeepsProper
<1>8. CASE UnsignedMergeSplit(s)
  <2>1. PICK u1 \in Utxos("stas"), u2 \in Utxos("stas"), dests \in DestLists,
             pay \in Payments :
          /\ u1 # u2
          /\ Len(dests) = 2
          /\ SumSatoshis(dests) = u1.out.satoshis + u2.out.satoshis
          /\ mergeGuards(chain, u1, u2, dests, pay)
          /\ Open(s, "mergeSplit", mergeSplitTx(chain, u1, u2, dests, pay),
                  SignInfoList(<<u1, u2>> \o pay))
    BY <1>8, Zenon DEF UnsignedMergeSplit
  <2>2. dests \in Seq(Destinations) /\ \A k \in DOMAIN dests : dests[k].satoshis > 0
    BY ArgumentsAssumption DEF ProperArguments
  <2>3. Made(chain, mergeSplitTx(chain, u1, u2, dests, pay))
    BY <1>0, <2>1, <2>2, MergeTxMade DEF mergeSplitTx
  <2>4. GoodMerge(chain, mergeSplitTx(chain, u1, u2, dests, pay), u1, u2)
    BY <1>0, <2>1, <2>2, MergeSplitGood
  <2>5. Proper(chain, mergeSplitTx(chain, u1, u2, dests, pay))
    BY <1>0, <2>3, <2>4, MergeProper
  <2> QED BY <2>1, <2>5, OpenKeepsProper
<1> QED BY <1>1, <1>2, <1>3, <1>4, <1>5, <1>6, <1>7, <1>8 DEF OpenSession

-----------------------------------------------------------------------------
(* The whole property *)

LEMMA InitProper == ProperArguments /\ Init => ProperInv
<1> SUFFICES ASSUME ProperArguments, Init PROVE ProperInv
  OBVIOUS
<1>1. InFlight = {}
  BY IdleType DEF Init, InFlight
<1>2. \A t \in DOMAIN chain : chain[t].ins = <<>> /\ chain[t].outs = Genesis[t]
                              /\ t \in DOMAIN Genesis
  BY DEF Init
<1>3. ASSUME NEW t \in DOMAIN chain
      PROVE  TxBounded(chain, chain[t]) /\ Mergeable(chain, chain[t])
  <2>1. Len(chain[t].ins) = 0 /\ DOMAIN chain[t].ins = {} /\ SpentTokens(chain, chain[t]) = {}
    BY <1>2 DEF SpentTokens
  <2>2. \A k \in DOMAIN chain[t].outs :
           chain[t].outs[k].kind = "stas" =>
              k <= MaxParentVout + 1 /\ chain[t].outs[k].satoshis > 0
    BY <1>2 DEF ProperArguments
  <2> QED BY <2>1, <2>2 DEF TxBounded, MaxParentInputs, Mergeable, FewTokens
<1>4. ChainProper
  BY <1>2, <1>3 DEF ChainProper, InputsExist, ChainBounded
<1> QED BY <1>1, <1>4 DEF ProperInv

LEMMA NextKeepsProper ==
  ASSUME SessionInv, ProperInv, ProperArguments, LeadingZeroTxids = {}, [Next]_vars
  PROVE  ProperInv'
<1>1. ASSUME NEW s \in Sessions, OpenSession(s) PROVE ProperInv'
  BY <1>1, OpenSessionKeepsProper
<1>2. ASSUME NEW s \in Sessions, Sign(s) PROVE ProperInv'
  BY <1>2, SignKeepsProper
<1>3. ASSUME NEW s \in Sessions, Finish(s) PROVE ProperInv'
  BY <1>3, AcceptedKeepsProper, RefusedKeepsProper DEF Finish
<1>4. CASE UNCHANGED vars
  BY <1>4, SameTxsProper DEF vars, ProperInv, InFlight
<1> QED BY <1>1, <1>2, <1>3, <1>4 DEF Next

LEMMA ProperInvariant ==
  ASSUME ProperArguments, LeadingZeroTxids = {}
  PROVE  Spec => [](SessionInv /\ ProperInv)
<1>1. Init => ProperInv
  BY InitProper
<1>2. SessionInv /\ ProperInv /\ [Next]_vars => ProperInv'
  BY NextKeepsProper
<1> QED BY <1>1, <1>2, SessionInvariant, PTL DEF Spec

\* A transaction under way whose inputs are unspent lacks nothing but signatures.
LEMMA OnlySignaturesMissing ==
  ASSUME SessionInv, ProperInv, NEW s \in InFlight, ~Stale(sessions[s])
  PROVE  NetworkAccepts(chain, sessions[s].tx)
<1> DEFINE tx == sessions[s].tx
<1>1. chain \in Seq(Txs) /\ ChainBounded /\ \A t \in DOMAIN chain : Mergeable(chain, chain[t])
  BY DEF SessionInv, TypeOK, ProperInv, ChainProper
<1>2. /\ tx \in BuiltTxs /\ Built(chain, tx) /\ Sound(chain, tx) /\ TxGood(chain, tx)
      /\ \A i \in DOMAIN tx.ins : tx.ins[i] \in Unspent(chain)
  BY DEF ProperInv, Proper, Made, Stale
<1> HIDE DEF tx
<1>3. ASSUME MergesTokens(chain, tx), NEW i \in 1..2 PROVE Reachable(chain, tx.ins[i])
  <2> DEFINE op == tx.ins[i]
  <2>1. op \in TokenOutputs
    BY <1>2, <1>3, MergedTokens
  <2>2. op.txid \in DOMAIN chain
    BY <1>1, <2>1, CreatedType DEF TokenOutputs
  <2> HIDE DEF op
  <2>3. Reachable(chain, op)
    BY <1>1, <2>1, <2>2, MostAreReachable DEF Mergeable
  <2> QED BY <2>3 DEF op
<1>4. Passes(chain, tx)
  <2>1. 1 \in 1..2 /\ 2 \in 1..2
    OBVIOUS
  <2> QED BY <1>2, <1>3, <2>1 DEF TxGood, Acceptable
<1>5. NetworkAccepts(chain, tx)
  BY <1>1, <1>2, <1>4, PassesIsAccepted
<1> QED BY <1>5 DEF tx

\* An unsigned transaction is taken, for as long as its inputs are unspent,
\* exactly when every entry of its signingInfo has been carried out, those of
\* token inputs once: the signers need nothing but the entries, their order and
\* what others confirm meanwhile do not matter, and the builders left nothing
\* else for a node to refuse (lib/unsigned*.js, utils.js:141).  Txids with a
\* leading zero byte, which reverseEndian shortens, are excluded; so are issues
\* whose tokens the covenant of a merge cannot reach (ProperArguments).
THEOREM AcceptedOnceSigned ==
  ASSUME ProperArguments, LeadingZeroTxids = {}
  PROVE  Spec => []AcceptedWhenSigned
<1>1. SessionInv /\ ProperInv => AcceptedWhenSigned
  <2> SUFFICES ASSUME SessionInv, ProperInv, NEW s \in InFlight, ~Stale(sessions[s])
               PROVE  Accepted(sessions[s])
                        <=> AllApplied(sessions[s]) /\ TokenEntriesOnce(sessions[s])
    BY DEF AcceptedWhenSigned
  <2>1. NetworkAccepts(chain, sessions[s].tx)
    BY OnlySignaturesMissing
  <2>2. FullySigned(sessions[s])
           <=> AllApplied(sessions[s]) /\ TokenEntriesOnce(sessions[s])
    BY SignaturesSuffice DEF SignedWhenApplied
  <2> QED BY <2>1, <2>2 DEF Accepted
<1> QED BY <1>1, ProperInvariant, PTL

=============================================================================
