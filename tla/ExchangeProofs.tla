---------------------------- MODULE ExchangeProofs ----------------------------
(***************************************************************************)
(* The market of SwapMarket implements the abstract Exchange, for every    *)
(* value of the constants in which those who trade neither pay fees nor    *)
(* earn commissions: of every swap the maker gets what he wanted and gives *)
(* what he offered, once; with proper takers tokens only change hands, and *)
(* careless ones may only have a token redeemed by its issuer, or exchange *)
(* plain satoshis for plain satoshis that come out as a token.             *)
(*                                                                         *)
(* The first part follows the holdings of one key in one asset through a   *)
(* confirmed transaction, output by output; the second shows what every    *)
(* answer of a taker keeps of an offer, proper or not; the third maps the  *)
(* steps.                                                                  *)
(***************************************************************************)
EXTENDS SwapMarketProofs

-----------------------------------------------------------------------------
(* Holdings *)

\* What the outputs at ops hold of an asset for a key.
HeldBy(ch, ops, k, a) ==
    {op \in ops : OutputOf(ch, op).pkh = k /\ AssetOf(OutputOf(ch, op)) = a}

Purse(ch, ops, k, a) == Total(ch, HeldBy(ch, ops, k, a))

Part(out, k, a) == IF out.pkh = k /\ AssetOf(out) = a THEN out.satoshis ELSE 0

LEMMA PurseType ==
  ASSUME NEW ch, NEW ops, IsFiniteSet(ops), \A op \in ops : Amount(ch, op) \in Nat,
         NEW k, NEW a
  PROVE  Purse(ch, ops, k, a) \in Nat
<1>1. HeldBy(ch, ops, k, a) \subseteq ops
  BY DEF HeldBy
<1>2. IsFiniteSet(HeldBy(ch, ops, k, a))
  BY <1>1, FS_Subset
<1> QED BY <1>1, <1>2, TotalType DEF Purse

\* One more output adds its part.
LEMMA PurseAdds ==
  ASSUME NEW ch, NEW ops, IsFiniteSet(ops), NEW x, x \notin ops,
         \A op \in ops \cup {x} : Amount(ch, op) \in Nat, NEW k, NEW a
  PROVE  /\ Purse(ch, ops \cup {x}, k, a)
              = Purse(ch, ops, k, a) + Part(OutputOf(ch, x), k, a)
         /\ Part(OutputOf(ch, x), k, a) \in Nat
         /\ IsFiniteSet(ops \cup {x})
<1> DEFINE old == HeldBy(ch, ops, k, a)
           new == HeldBy(ch, ops \cup {x}, k, a)
           mine == OutputOf(ch, x).pkh = k /\ AssetOf(OutputOf(ch, x)) = a
<1>1. IsFiniteSet(ops \cup {x})
  BY FS_AddElement
<1>2. old \subseteq ops /\ new \subseteq ops \cup {x} /\ x \notin old
  BY DEF HeldBy
<1>3. IsFiniteSet(new) /\ IsFiniteSet(old)
  BY <1>1, <1>2, FS_Subset
<1>4. \A op \in new : Amount(ch, op) \in Nat
  BY <1>2
<1>5. Amount(ch, x) = OutputOf(ch, x).satoshis /\ Amount(ch, x) \in Nat
  BY DEF Amount
<1>6. CASE mine
  <2>1. new = old \cup {x}
    BY <1>6 DEF HeldBy
  <2>2. x \in new /\ new \ {x} = old
    BY <1>2, <2>1
  <2> HIDE DEF new, old
  <2>3. Total(ch, new) = Amount(ch, x) + Total(ch, old)
    BY <1>3, <1>4, <2>2, TotalRemove
  <2>4. Total(ch, old) \in Nat
    BY <1>2, <1>3, TotalType
  <2>5. Part(OutputOf(ch, x), k, a) = Amount(ch, x)
    BY <1>5, <1>6 DEF Part
  <2> QED BY <1>1, <1>5, <2>3, <2>4, <2>5 DEF Purse, new, old
<1>7. CASE ~mine
  <2>1. new = old
    BY <1>7 DEF HeldBy
  <2>2. Total(ch, old) \in Nat
    BY <1>2, <1>3, TotalType
  <2>3. Part(OutputOf(ch, x), k, a) = 0
    BY <1>7 DEF Part
  <2> HIDE DEF new, old
  <2> QED BY <1>1, <2>1, <2>2, <2>3 DEF Purse, new, old
<1> QED BY <1>6, <1>7

LEMMA PurseTakes ==
  ASSUME NEW ch, NEW ops, IsFiniteSet(ops), NEW x \in ops,
         \A op \in ops : Amount(ch, op) \in Nat, NEW k, NEW a
  PROVE  /\ Purse(ch, ops, k, a)
              = Purse(ch, ops \ {x}, k, a) + Part(OutputOf(ch, x), k, a)
         /\ Part(OutputOf(ch, x), k, a) \in Nat
         /\ IsFiniteSet(ops \ {x})
<1> DEFINE rest == ops \ {x}
<1>1. IsFiniteSet(rest) /\ x \notin rest /\ rest \cup {x} = ops
  BY FS_Subset
<1> HIDE DEF rest
<1>2. Purse(ch, rest \cup {x}, k, a) = Purse(ch, rest, k, a) + Part(OutputOf(ch, x), k, a)
      /\ Part(OutputOf(ch, x), k, a) \in Nat
  BY <1>1, PurseAdds
<1> QED BY <1>1, <1>2 DEF rest

\* Outputs that stay what they are hold what they held.
LEMMA PurseStays ==
  ASSUME NEW ch, NEW longer, NEW ops, IsFiniteSet(ops),
         \A op \in ops : OutputOf(longer, op) = OutputOf(ch, op), NEW k, NEW a
  PROVE  Purse(longer, ops, k, a) = Purse(ch, ops, k, a)
<1>1. HeldBy(longer, ops, k, a) = HeldBy(ch, ops, k, a)
  BY DEF HeldBy
<1>2. HeldBy(ch, ops, k, a) \subseteq ops
  BY DEF HeldBy
<1>3. IsFiniteSet(HeldBy(ch, ops, k, a))
  BY <1>2, FS_Subset
<1>4. \A op \in HeldBy(ch, ops, k, a) : Amount(longer, op) = Amount(ch, op)
  BY <1>2 DEF Amount
<1> QED BY <1>1, <1>3, <1>4, TotalOfSameAmounts DEF Purse

-----------------------------------------------------------------------------
(* Confirmed transactions *)

LEMMA CreatedIsFinite ==
  ASSUME NEW ch \in Seq(Txs)
  PROVE  IsFiniteSet(Created(ch)) /\ \A op \in Created(ch) : Amount(ch, op) \in Nat
<1> DEFINE at(t) == {[txid |-> t, vout |-> k - 1] : k \in DOMAIN ch[t].outs}
           all == {at(t) : t \in DOMAIN ch}
<1>1. ASSUME NEW t \in DOMAIN ch PROVE IsFiniteSet(at(t))
  <2>1. ch[t] \in Txs
    BY LenProperties, ElementOfSeq
  <2>2. PICK n \in Nat : DOMAIN ch[t].outs = 1..n
    BY <2>1, LenProperties DEF Txs
  <2>3. at(t) = OutPlaces(t, n)
    BY <2>2 DEF OutPlaces
  <2>4. IsFiniteSet(OutPlaces(t, n))
    BY <2>2, PlacesNext
  <2> QED BY <2>3, <2>4
<1>2. PICK m \in Nat : DOMAIN ch = 1..m
  BY LenProperties
<1>3. IsFiniteSet(1..m)
  BY FS_Interval
<1>4. IsFiniteSet(all)
  <2> DEFINE f == [t \in 1..m |-> at(t)]
  <2>1. all = {f[t] : t \in 1..m}
    BY <1>2
  <2>2. f \in Surjection(1..m, all)
    <3> HIDE DEF at
    <3> QED BY <1>2, <2>1 DEF Surjection
  <2> HIDE DEF f, all
  <2> QED BY <1>3, <2>2, FS_Surjection
<1> HIDE DEF at
<1>5. \A s \in all : IsFiniteSet(s)
  BY <1>1
<1>6. IsFiniteSet(UNION all)
  <2> HIDE DEF all
  <2> QED BY <1>4, <1>5, FS_UNION
<1>7. Created(ch) = UNION all
  BY DEF Created, at
<1>8. ASSUME NEW op \in Created(ch) PROVE Amount(ch, op) \in Nat
  <2>1. ch[op.txid].outs[op.vout + 1] \in Outputs
    BY CreatedType
  <2> QED BY <2>1 DEF Amount, OutputOf, Outputs
<1> QED BY <1>6, <1>7, <1>8

PlaceAt(ch, k) == [txid |-> Len(ch) + 1, vout |-> k - 1]

NewOps(ch, entry) == {PlaceAt(ch, k) : k \in DOMAIN entry.outs}

InsOf(entry) == {entry.ins[i] : i \in DOMAIN entry.ins}

\* Only what was created has been spent.
SpendsCreated(ch) == Spent(ch) \subseteq Created(ch)

\* A confirmed transaction replaces the outputs it spends by its own.
LEMMA AppendUnspent ==
  ASSUME NEW ch \in Seq(Txs), NEW entry \in Txs, SpendsCreated(ch),
         InsOf(entry) \subseteq Created(ch)
  PROVE  LET longer == Append(ch, entry)
         IN /\ longer \in Seq(Txs) /\ SpendsCreated(longer)
            /\ Unspent(longer) = (Unspent(ch) \ InsOf(entry)) \cup NewOps(ch, entry)
            /\ NewOps(ch, entry) \cap Created(ch) = {}
            /\ \A op \in Created(ch) : OutputOf(longer, op) = OutputOf(ch, op)
            /\ \A k \in DOMAIN entry.outs : OutputOf(longer, PlaceAt(ch, k)) = entry.outs[k]
<1> DEFINE longer == Append(ch, entry)
           last == Len(ch) + 1
<1>1. /\ longer \in Seq(Txs) /\ Len(longer) = last
      /\ longer[last] = entry /\ \A t \in 1..Len(ch) : longer[t] = ch[t]
  BY AppendProperties
<1>2. DOMAIN ch = 1..Len(ch) /\ DOMAIN longer = 1..last /\ Len(ch) \in Nat
  BY <1>1, LenProperties
<1> HIDE DEF longer
<1>3. DOMAIN longer = DOMAIN ch \cup {last} /\ last \notin DOMAIN ch
  BY <1>2
<1>4. \A op \in Created(ch) : op.txid \in DOMAIN ch
  BY CreatedType
<1>5. \A op \in NewOps(ch, entry) : op.txid = last
  BY DEF NewOps, PlaceAt
<1>6. Created(longer) = Created(ch) \cup NewOps(ch, entry)
  <2>1. NewOps(ch, entry) = {[txid |-> last, vout |-> k - 1] : k \in DOMAIN longer[last].outs}
    BY <1>1 DEF NewOps, PlaceAt
  <2>2. \A t \in DOMAIN ch : longer[t] = ch[t]
    BY <1>1, <1>2
  <2> HIDE DEF last
  <2> QED BY <1>3, <2>1, <2>2 DEF Created
<1>7. Spent(longer) = Spent(ch) \cup InsOf(entry)
  <2>1. \A t \in DOMAIN ch : longer[t] = ch[t]
    BY <1>1, <1>2
  <2>2. ToSet(longer[last].ins) = InsOf(entry)
    BY <1>1 DEF ToSet, InsOf
  <2> HIDE DEF last
  <2> QED BY <1>3, <2>1, <2>2 DEF Spent
<1>8. NewOps(ch, entry) \cap Created(ch) = {}
  BY <1>3, <1>4, <1>5
<1>9. Unspent(longer) = (Unspent(ch) \ InsOf(entry)) \cup NewOps(ch, entry)
  BY <1>6, <1>7, <1>8 DEF Unspent, SpendsCreated
<1>10. SpendsCreated(longer)
  BY <1>6, <1>7 DEF SpendsCreated
<1>11. \A op \in Created(ch) : OutputOf(longer, op) = OutputOf(ch, op)
  BY <1>1, <1>2, <1>4 DEF OutputOf
<1>12. \A k \in DOMAIN entry.outs : OutputOf(longer, PlaceAt(ch, k)) = entry.outs[k]
  <2>1. DOMAIN entry.outs \subseteq Nat
    BY LenProperties DEF Txs
  <2>2. \A k \in Nat : k - 1 + 1 = k
    OBVIOUS
  <2> QED BY <1>1, <2>1, <2>2 DEF OutputOf, PlaceAt
<1> QED BY <1>1, <1>8, <1>9, <1>10, <1>11, <1>12 DEF longer

\* What a transaction takes out of a purse: three inputs, or one.
LEMMA ThreeTaken ==
  ASSUME NEW ch, NEW ops, IsFiniteSet(ops), \A op \in ops : Amount(ch, op) \in Nat,
         NEW x \in ops, NEW y \in ops, NEW z \in ops, x # y, x # z, y # z, NEW k, NEW a
  PROVE  /\ Purse(ch, ops, k, a)
              = Purse(ch, ops \ {x, y, z}, k, a)
                  + (Part(OutputOf(ch, x), k, a) + Part(OutputOf(ch, y), k, a)
                       + Part(OutputOf(ch, z), k, a))
         /\ IsFiniteSet(ops \ {x, y, z})
<1> DEFINE less1 == ops \ {x}
           less2 == less1 \ {y}
           less3 == less2 \ {z}
<1>1. y \in less1 /\ z \in less2 /\ less1 \subseteq ops /\ less2 \subseteq ops
      /\ less3 \subseteq ops /\ less3 = ops \ {x, y, z}
  OBVIOUS
<1>2. /\ Purse(ch, ops, k, a) = Purse(ch, less1, k, a) + Part(OutputOf(ch, x), k, a)
      /\ Part(OutputOf(ch, x), k, a) \in Nat /\ IsFiniteSet(less1)
  BY PurseTakes
<1> HIDE DEF less1
<1>3. /\ Purse(ch, less1, k, a) = Purse(ch, less2, k, a) + Part(OutputOf(ch, y), k, a)
      /\ Part(OutputOf(ch, y), k, a) \in Nat /\ IsFiniteSet(less2)
  BY <1>1, <1>2, PurseTakes
<1> HIDE DEF less2
<1>4. /\ Purse(ch, less2, k, a) = Purse(ch, less3, k, a) + Part(OutputOf(ch, z), k, a)
      /\ Part(OutputOf(ch, z), k, a) \in Nat /\ IsFiniteSet(less3)
  BY <1>1, <1>3, PurseTakes
<1> HIDE DEF less3
<1>5. Purse(ch, less3, k, a) \in Nat
  BY <1>1, <1>4, PurseType
<1> QED BY <1>1, <1>2, <1>3, <1>4, <1>5

\* What it puts into one: the first n outputs at the end of the chain.
FirstNewOps(ch, n) == {PlaceAt(ch, i) : i \in 1..n}

LEMMA OneMorePlace ==
  ASSUME NEW ch, NEW n \in Nat
  PROVE  /\ FirstNewOps(ch, n + 1) = FirstNewOps(ch, n) \cup {PlaceAt(ch, n + 1)}
         /\ PlaceAt(ch, n + 1) \notin FirstNewOps(ch, n)
<1>1. 1..(n + 1) = 1..n \cup {n + 1}
  OBVIOUS
<1>2. \A i \in 1..n : PlaceAt(ch, i).vout # PlaceAt(ch, n + 1).vout
  BY DEF PlaceAt
<1> QED BY <1>1, <1>2, Zenon DEF FirstNewOps

\* What one holds after a transaction of one, three or four outputs.
PurseGrows(ch, entry, k, a) ==
    LET longer == Append(ch, entry)
        kept == Purse(ch, Unspent(ch) \ InsOf(entry), k, a)
        held == Purse(longer, Unspent(longer), k, a)
        part(i) == Part(entry.outs[i], k, a)
    IN /\ kept \in Nat
       /\ \A i \in 1..Len(entry.outs) : part(i) \in Nat
       /\ Len(entry.outs) = 1 => held = kept + part(1)
       /\ Len(entry.outs) = 3 => held = kept + (part(1) + part(2) + part(3))
       /\ Len(entry.outs) = 4 => held = kept + (part(1) + part(2) + part(3) + part(4))

LEMMA PurseAfter ==
  ASSUME NEW ch \in Seq(Txs), NEW entry \in Txs, SpendsCreated(ch),
         InsOf(entry) \subseteq Unspent(ch), NEW k, NEW a
  PROVE  PurseGrows(ch, entry, k, a)
<1> DEFINE longer == Append(ch, entry)
           rest == Unspent(ch) \ InsOf(entry)
           part(i) == Part(entry.outs[i], k, a)
           with(n) == rest \cup FirstNewOps(ch, n)
           sum(n) == Purse(longer, with(n), k, a)
           m == Len(entry.outs)
<1>1. Unspent(ch) \subseteq Created(ch) /\ InsOf(entry) \subseteq Created(ch)
  BY DEF Unspent
<1>2. /\ longer \in Seq(Txs)
      /\ Unspent(longer) = rest \cup NewOps(ch, entry)
      /\ NewOps(ch, entry) \cap Created(ch) = {}
      /\ \A op \in Created(ch) : OutputOf(longer, op) = OutputOf(ch, op)
      /\ \A i \in DOMAIN entry.outs : OutputOf(longer, PlaceAt(ch, i)) = entry.outs[i]
  BY <1>1, AppendUnspent
<1>3. m \in Nat /\ DOMAIN entry.outs = 1..m /\ entry.outs \in Seq(Outputs)
  BY LenProperties DEF Txs
<1>4. \A i \in 1..m : part(i) \in Nat
  <2>1. \A i \in 1..m : entry.outs[i] \in Outputs
    BY <1>3, ElementOfSeq
  <2> QED BY <2>1 DEF Part, Outputs
<1>5. IsFiniteSet(Created(ch)) /\ \A op \in Created(ch) : Amount(ch, op) \in Nat
  BY CreatedIsFinite
<1>6. /\ rest \subseteq Created(ch) /\ IsFiniteSet(rest)
      /\ \A op \in rest : Amount(ch, op) \in Nat
  BY <1>1, <1>5, FS_Subset
<1>7. IsFiniteSet(Created(longer)) /\ \A op \in Created(longer) : Amount(longer, op) \in Nat
  BY <1>2, CreatedIsFinite
<1>8. NewOps(ch, entry) = FirstNewOps(ch, m)
  BY <1>3 DEF NewOps, FirstNewOps
<1>9. Unspent(longer) = with(m) /\ with(m) \subseteq Created(longer)
  BY <1>2, <1>8 DEF Unspent
<1>10. \A n \in 0..m : FirstNewOps(ch, n) \subseteq FirstNewOps(ch, m)
  BY <1>3 DEF FirstNewOps
<1> HIDE DEF longer, rest, part, m
<1>11. \A op \in rest : OutputOf(longer, op) = OutputOf(ch, op)
  BY <1>2, <1>6
<1>12. Purse(longer, rest, k, a) = Purse(ch, rest, k, a) /\ Purse(ch, rest, k, a) \in Nat
  BY <1>6, <1>11, PurseStays, PurseType
<1>13. FirstNewOps(ch, 0) = {}
  BY DEF FirstNewOps
<1>14. sum(0) = Purse(ch, rest, k, a) /\ IsFiniteSet(with(0))
  BY <1>6, <1>12, <1>13
<1>15. ASSUME NEW n \in Nat, n + 1 <= m, IsFiniteSet(with(n))
       PROVE  sum(n + 1) = sum(n) + part(n + 1) /\ IsFiniteSet(with(n + 1))
  <2>1. n + 1 \in 1..m /\ n + 1 \in 0..m
    BY <1>3, <1>15
  <2>2. FirstNewOps(ch, n + 1) \subseteq FirstNewOps(ch, m)
    BY <1>10, <2>1
  <2>3. rest \cap FirstNewOps(ch, n + 1) = {}
    BY <1>2, <1>6, <1>8, <2>2
  <2>4. \A op \in rest \cup FirstNewOps(ch, n + 1) : Amount(longer, op) \in Nat
    BY <1>7, <1>9, <2>2
  <2>5. OutputOf(longer, PlaceAt(ch, n + 1)) = entry.outs[n + 1]
    BY <1>2, <1>3, <2>1
  <2> DEFINE old == with(n)
             x == PlaceAt(ch, n + 1)
  <2>6. with(n + 1) = old \cup {x} /\ x \notin old
    <3>1. /\ FirstNewOps(ch, n + 1) = FirstNewOps(ch, n) \cup {x}
          /\ x \notin FirstNewOps(ch, n)
      BY <1>15, OneMorePlace
    <3> HIDE DEF x
    <3>2. PICK next : next = FirstNewOps(ch, n + 1)
      OBVIOUS
    <3> QED BY <2>3, <3>1, <3>2
  <2>7. /\ IsFiniteSet(old) /\ \A op \in old \cup {x} : Amount(longer, op) \in Nat
        /\ Part(OutputOf(longer, x), k, a) = part(n + 1)
        /\ sum(n) = Purse(longer, old, k, a)
    BY <1>15, <2>4, <2>5, <2>6 DEF part
  <2>8. sum(n + 1) = Purse(longer, old \cup {x}, k, a)
    BY <2>6
  <2> HIDE DEF old, x, with, sum
  <2>9. /\ Purse(longer, old \cup {x}, k, a)
              = Purse(longer, old, k, a) + Part(OutputOf(longer, x), k, a)
        /\ IsFiniteSet(old \cup {x})
    BY <2>6, <2>7, PurseAdds
  <2> QED BY <2>6, <2>7, <2>8, <2>9
<1> HIDE DEF with, sum
<1>16. /\ m >= 1 => sum(1) = sum(0) + part(1) /\ IsFiniteSet(with(1))
       /\ m >= 3 => /\ sum(2) = sum(1) + part(2) /\ IsFiniteSet(with(2))
                    /\ sum(3) = sum(2) + part(3) /\ IsFiniteSet(with(3))
       /\ m >= 4 => sum(4) = sum(3) + part(4)
  <2>1. m >= 1 => sum(0 + 1) = sum(0) + part(0 + 1) /\ IsFiniteSet(with(0 + 1))
    BY <1>3, <1>14, <1>15
  <2>2. m >= 3 => sum(1 + 1) = sum(1) + part(1 + 1) /\ IsFiniteSet(with(1 + 1))
    BY <1>3, <1>15, <2>1
  <2>3. m >= 3 => sum(2 + 1) = sum(2) + part(2 + 1) /\ IsFiniteSet(with(2 + 1))
    BY <1>3, <1>15, <2>2
  <2>4. m >= 4 => sum(3 + 1) = sum(3) + part(3 + 1)
    BY <1>3, <1>15, <2>3
  <2> QED BY <2>1, <2>2, <2>3, <2>4, <1>3
<1>17. Purse(longer, Unspent(longer), k, a) = sum(m)
  BY <1>9 DEF sum
<1>18. /\ m = 1 => sum(m) = sum(0) + part(1)
       /\ m = 3 => sum(m) = sum(0) + (part(1) + part(2) + part(3))
       /\ m = 4 => sum(m) = sum(0) + (part(1) + part(2) + part(3) + part(4))
  <2>1. sum(0) \in Nat
    BY <1>12, <1>14
  <2> QED BY <1>3, <1>4, <1>16, <2>1
<1> QED BY <1>4, <1>12, <1>14, <1>17, <1>18 DEF longer, rest, part, m, PurseGrows

-----------------------------------------------------------------------------
(* What answers keep of an offer *)

SwapOuts(m, g, p, wanted, comm, satoshis) ==
    ((<<makerWantedOutput(m.out.pkh, wanted)>>
        \o <<WithOwner(m.out, g.out.pkh, satoshis)>>)
       \o CommissionOutputs(comm))
      \o <<P2pkhOut(p.out.pkh, SwapChange(p, comm))>>

\* g is given for the offer, p pays; the amount in the second output is anything.
Bargain(offer, tx, g, p, comm, satoshis) ==
    LET m == offer.utxo
    IN /\ tx.ins = <<m.op, g.op, p.op>> /\ 2 \in DOMAIN tx.unlock
       /\ tx.outs = SwapOuts(m, g, p, offer.wanted, comm, satoshis)
       /\ m.op # g.op /\ m.op # p.op /\ g.op # p.op
       /\ g.out.pkh # m.out.pkh /\ g.out.kind # "contract"
       /\ ProperTakers => Carries(g.out, offer.wanted)
       /\ p.out.kind = "p2pkh" /\ p.out.pkh \in Payers
       /\ SwapChange(p, comm) >= 1

TradeTake(ch, published, tx) ==
    \E o \in Offers, g, p \in ChainUtxos(ch), comm \in KnownCommissions, satoshis \in Nat :
        published[o].phase # "none" /\ Bargain(published[o], tx, g, p, comm, satoshis)

OfferedByTrader(offer) ==
    /\ offer.utxo.out.pkh \in Traders /\ offer.utxo.out.kind # "contract"
    /\ offer.wanted \in WantedInfos

\* No token but those of the start and those makers ask for.
AssetsKnown(ch) ==
    \A t \in DOMAIN ch : \A i \in DOMAIN ch[t].outs : AssetOf(ch[t].outs[i]) \in AllAssets

TradeInv ==
    /\ MarketInv
    /\ SpendsCreated(chain) /\ AssetsKnown(chain)
    /\ \A o \in Offers : offers[o].phase # "none" => OfferedByTrader(offers[o])
    /\ \A t \in Takes : takes[t].phase # "idle" => TradeTake(chain, offers, takes[t].tx)

\* A taker who holds what he made of an offer.
LEMMA BodyBargains ==
  ASSUME TradeInv, NEW o \in Offers, offers[o].phase # "none",
         NEW comm \in KnownCommissions, NEW a \in Answers(o, comm),
         SwapChange(a.pay, comm) >= 1,
         NEW tx, tx.ins = BodyOf(offers[o], a.give, a.satoshis, comm, a.pay).ins,
         tx.outs = BodyOf(offers[o], a.give, a.satoshis, comm, a.pay).outs,
         2 \in DOMAIN tx.unlock
  PROVE  TradeTake(chain, offers, tx)
<1> DEFINE m == offers[o].utxo
           w == makerWantedOutput(m.out.pkh, offers[o].wanted)
<1>1. /\ chain \in Seq(Txs) /\ OfferOf(chain, offers[o]) /\ offers[o] \in PublishedOffers
      /\ a.give \in ChainUtxos(chain) /\ a.pay \in ChainUtxos(chain) /\ a.satoshis \in Nat
  BY AnswersType DEF TradeInv
<1>2. /\ a.give \in Tradeable /\ a.pay \in Payments({})
      /\ a.give.out.pkh # m.out.pkh
      /\ ProperTakers => Carries(a.give.out, offers[o].wanted)
      /\ Cardinality({a.give.op, m.op, a.pay.op}) = 3
  BY DEF Answers
<1>3. /\ a.give.out.kind # "contract"
      /\ a.pay.out.kind = "p2pkh" /\ a.pay.out.pkh \in Payers
  BY <1>2 DEF Tradeable, Payments
<1>4. a.give.op # m.op /\ a.give.op # a.pay.op /\ m.op # a.pay.op
  BY <1>2, ThreeDistinct
<1>5. offers[o].tx.ins = <<m.op>> /\ offers[o].tx.outs = <<w>>
  BY <1>1 DEF OfferOf
<1>6. m.op \in Outpoints /\ a.give.op \in Outpoints /\ a.pay.op \in Outpoints
  BY <1>1 DEF PublishedOffers, ChainUtxos, UtxoRecords
<1>7. tx.ins = <<m.op, a.give.op, a.pay.op>>
  BY <1>5, <1>6, Triple DEF BodyOf, swapBody
<1>8. tx.outs = SwapOuts(m, a.give, a.pay, offers[o].wanted, comm, a.satoshis)
  BY <1>5 DEF BodyOf, swapBody, SwapOuts
<1> HIDE DEF m, w
<1>9. Bargain(offers[o], tx, a.give, a.pay, comm, a.satoshis)
  BY <1>2, <1>3, <1>4, <1>7, <1>8 DEF Bargain, m
<1> QED BY <1>1, <1>9 DEF TradeTake

LEMMA HoldKeepsTrades ==
  ASSUME TradeInv, MarketInv', NEW t \in Takes, NEW tx, NEW phase, Hold(t, phase, tx),
         phase # "idle" => TradeTake(chain, offers, tx)
  PROVE  TradeInv'
<1> DEFINE take == [phase |-> phase, tx |-> tx]
<1>1. takes' = [takes EXCEPT ![t] = take] /\ chain' = chain /\ offers' = offers
  BY DEF Hold
<1>2. take.phase = phase /\ take.tx = tx /\ DOMAIN takes = Takes
  BY DEF TradeInv, MarketInv, TypeOK
<1> HIDE DEF take
<1>3. ASSUME NEW s \in Takes, takes'[s].phase # "idle"
      PROVE  TradeTake(chain, offers, takes'[s].tx)
  <2>1. CASE s = t
    BY <1>1, <1>2, <1>3, <2>1
  <2>2. CASE s # t
    BY <1>1, <1>2, <1>3, <2>2 DEF TradeInv
  <2> QED BY <2>1, <2>2
<1> QED BY <1>1, <1>3 DEF TradeInv

LEMMA AcceptsKeepTrades ==
  ASSUME TradeInv, MarketInv', NEW t \in Takes,
         \/ AcceptSwapOffer(t) \/ AcceptUnsignedSwapOffer(t)
         \/ AcceptUnsignedNativeSwapOffer(t)
  PROVE  TradeInv'
<1>0. NoCommission \in KnownCommissions
  BY DEF KnownCommissions
<1>1. CASE AcceptSwapOffer(t)
  <2>1. PICK o \in Published("signed"), comm \in CommissionInfos : \E a \in Answers(o, comm) :
           /\ acceptSwapOfferGuards(offers[o].tx, offers[o].utxo.out, a.give,
                                    a.satoshis, comm, a.pay)
           /\ Hold(t, "returned",
                   acceptSwapOffer(offers[o].tx, offers[o].utxo.out, a.give,
                                   a.satoshis, comm, a.pay))
    BY <1>1 DEF AcceptSwapOffer
  <2>2. PICK a \in Answers(o, comm) :
           /\ acceptSwapOfferGuards(offers[o].tx, offers[o].utxo.out, a.give,
                                    a.satoshis, comm, a.pay)
           /\ Hold(t, "returned",
                   acceptSwapOffer(offers[o].tx, offers[o].utxo.out, a.give,
                                   a.satoshis, comm, a.pay))
    BY <2>1
  <2> DEFINE tx == acceptSwapOffer(offers[o].tx, offers[o].utxo.out, a.give,
                                   a.satoshis, comm, a.pay)
             body == BodyOf(offers[o], a.give, a.satoshis, comm, a.pay)
  <2>3. o \in Offers /\ offers[o].phase # "none" /\ comm \in KnownCommissions
        /\ SwapChange(a.pay, comm) >= 1
    BY <2>2 DEF Published, KnownCommissions, acceptSwapOfferGuards
  <2>4. tx.ins = body.ins /\ tx.outs = body.outs /\ 2 \in DOMAIN tx.unlock
    BY DEF acceptSwapOffer, BodyOf
  <2> HIDE DEF tx
  <2>5. TradeTake(chain, offers, tx)
    BY <2>3, <2>4, BodyBargains
  <2> QED BY <2>2, <2>5, HoldKeepsTrades DEF tx
<1>2. CASE AcceptUnsignedSwapOffer(t)
  <2>1. PICK o \in Published("unsigned") : \E a \in Answers(o, NoCommission) :
           /\ acceptUnsignedSwapOfferGuards(offers[o].tx, a.give, a.satoshis, a.pay)
           /\ Hold(t, "sent",
                   acceptUnsignedSwapOffer(offers[o].tx, offers[o].utxo.out, a.give,
                                           a.satoshis, a.pay))
    BY <1>2 DEF AcceptUnsignedSwapOffer
  <2>2. PICK a \in Answers(o, NoCommission) :
           /\ acceptUnsignedSwapOfferGuards(offers[o].tx, a.give, a.satoshis, a.pay)
           /\ Hold(t, "sent",
                   acceptUnsignedSwapOffer(offers[o].tx, offers[o].utxo.out, a.give,
                                           a.satoshis, a.pay))
    BY <2>1
  <2> DEFINE tx == acceptUnsignedSwapOffer(offers[o].tx, offers[o].utxo.out, a.give,
                                           a.satoshis, a.pay)
             body == BodyOf(offers[o], a.give, a.satoshis, NoCommission, a.pay)
  <2>3. o \in Offers /\ offers[o].phase # "none" /\ SwapChange(a.pay, NoCommission) >= 1
    BY <2>2 DEF Published, acceptUnsignedSwapOfferGuards
  <2>4. tx.ins = body.ins /\ tx.outs = body.outs /\ 2 \in DOMAIN tx.unlock
    BY DEF acceptUnsignedSwapOffer, BodyOf
  <2> HIDE DEF tx
  <2>5. TradeTake(chain, offers, tx)
    BY <1>0, <2>3, <2>4, BodyBargains
  <2> QED BY <2>2, <2>5, HoldKeepsTrades DEF tx
<1>3. CASE AcceptUnsignedNativeSwapOffer(t)
  <2>1. PICK o \in Published("unsigned") : \E a \in Answers(o, NoCommission) :
           /\ acceptUnsignedNativeSwapOfferGuards(a.satoshis, a.pay)
           /\ Hold(t, "sent",
                   acceptUnsignedNativeSwapOffer(offers[o].tx, offers[o].utxo.out,
                                                 a.give, a.satoshis, a.pay))
    BY <1>3 DEF AcceptUnsignedNativeSwapOffer
  <2>2. PICK a \in Answers(o, NoCommission) :
           /\ acceptUnsignedNativeSwapOfferGuards(a.satoshis, a.pay)
           /\ Hold(t, "sent",
                   acceptUnsignedNativeSwapOffer(offers[o].tx, offers[o].utxo.out,
                                                 a.give, a.satoshis, a.pay))
    BY <2>1
  <2> DEFINE tx == acceptUnsignedNativeSwapOffer(offers[o].tx, offers[o].utxo.out,
                                                 a.give, a.satoshis, a.pay)
             body == BodyOf(offers[o], a.give, a.satoshis, NoCommission, a.pay)
  <2>3. o \in Offers /\ offers[o].phase # "none" /\ SwapChange(a.pay, NoCommission) >= 1
    BY <2>2 DEF Published, acceptUnsignedNativeSwapOfferGuards
  <2>4. tx.ins = body.ins /\ tx.outs = body.outs /\ 2 \in DOMAIN tx.unlock
    BY DEF acceptUnsignedNativeSwapOffer, BodyOf
  <2> HIDE DEF tx
  <2>5. TradeTake(chain, offers, tx)
    BY <1>0, <2>3, <2>4, BodyBargains
  <2> QED BY <2>2, <2>5, HoldKeepsTrades DEF tx
<1> QED BY <1>1, <1>2, <1>3

LEMMA SignsKeepTrades ==
  ASSUME TradeInv, MarketInv', NEW t \in Takes, MakerSigns(t)
  PROVE  TradeInv'
<1> DEFINE tx == takes[t].tx
           makerOut == Utxo(chain, tx.ins[1]).out
           pay == Utxo(chain, tx.ins[3])
           done == makerSignSwapOffer(tx, makerOut, pay)
<1>1. takes[t].phase = "sent" /\ Hold(t, "returned", done)
  BY DEF MakerSigns
<1>2. tx \in SwapTxs /\ TradeTake(chain, offers, tx)
  BY <1>1 DEF TradeInv, MarketInv, TypeOK
<1>3. /\ done.ins = tx.ins /\ done.outs = tx.outs
      /\ DOMAIN done.unlock = DOMAIN tx.unlock
  <2> HIDE DEF tx, makerOut, pay
  <2> QED BY <1>2 DEF makerSignSwapOffer, SwapTxs
<1> HIDE DEF done
<1>4. TradeTake(chain, offers, done)
  <2> HIDE DEF tx
  <2>1. PICK o \in Offers, g, p \in ChainUtxos(chain), comm \in KnownCommissions,
             satoshis \in Nat :
           offers[o].phase # "none" /\ Bargain(offers[o], tx, g, p, comm, satoshis)
    BY <1>2, Zenon DEF TradeTake
  <2>2. Bargain(offers[o], done, g, p, comm, satoshis)
    BY <1>3, <2>1 DEF Bargain
  <2> QED BY <2>1, <2>2 DEF TradeTake
<1> QED BY <1>1, <1>4, HoldKeepsTrades DEF done

\* An offer that is published does not touch the others.
LEMMA PublishKeepsTrades ==
  ASSUME TradeInv, MarketInv', NEW o \in Offers, offers[o].phase = "none", NEW offer,
         offers' = [offers EXCEPT ![o] = offer], OfferedByTrader(offer), chain' = chain,
         NEW t \in Takes, NEW take, takes' = [takes EXCEPT ![t] = take],
         take.phase # "idle" => TradeTake(chain, offers', take.tx)
  PROVE  TradeInv'
<1>1. DOMAIN offers = Offers /\ DOMAIN takes = Takes
  BY DEF TradeInv, MarketInv, TypeOK
<1>2. ASSUME NEW q \in Offers, offers'[q].phase # "none" PROVE OfferedByTrader(offers'[q])
  BY <1>1, <1>2 DEF TradeInv
<1>3. ASSUME NEW s \in Takes, takes[s].phase # "idle"
      PROVE  TradeTake(chain, offers', takes[s].tx)
  <2>1. PICK q \in Offers, g, p \in ChainUtxos(chain), comm \in KnownCommissions,
             satoshis \in Nat :
           offers[q].phase # "none" /\ Bargain(offers[q], takes[s].tx, g, p, comm, satoshis)
    BY <1>3, Zenon DEF TradeInv, TradeTake
  <2>2. offers'[q] = offers[q]
    BY <1>1, <2>1
  <2> QED BY <2>1, <2>2, Zenon DEF TradeTake
<1>4. ASSUME NEW s \in Takes, takes'[s].phase # "idle"
      PROVE  TradeTake(chain, offers', takes'[s].tx)
  <2>1. CASE s = t
    BY <1>1, <1>4, <2>1
  <2>2. CASE s # t
    BY <1>1, <1>3, <1>4, <2>2
  <2> QED BY <2>1, <2>2
<1> QED BY <1>2, <1>4 DEF TradeInv

LEMMA CreateKeepsTrades ==
  ASSUME TradeInv, MarketInv', NEW o \in Offers,
         CreateSwapOffer(o) \/ CreateUnsignedSwapOffer(o)
  PROVE  TradeInv'
<1>1. PICK u, wanted, phase, tx :
         /\ u \in Tradeable /\ wanted \in WantedInfos
         /\ offers[o].phase = "none"
         /\ Publish(o, phase, u, wanted, tx)
  BY DEF CreateSwapOffer, CreateUnsignedSwapOffer
<1> DEFINE offer == [phase |-> phase, utxo |-> u, wanted |-> wanted, tx |-> tx]
<1>2. offers' = [offers EXCEPT ![o] = offer] /\ chain' = chain /\ takes' = takes
  BY <1>1 DEF Publish
<1>3. OfferedByTrader(offer)
  BY <1>1 DEF OfferedByTrader, Tradeable
<1> HIDE DEF offer
<1>4. DOMAIN offers = Offers
  BY DEF TradeInv, MarketInv, TypeOK
<1>5. ASSUME NEW q \in Offers, offers'[q].phase # "none" PROVE OfferedByTrader(offers'[q])
  BY <1>2, <1>3, <1>4, <1>5 DEF TradeInv
<1>6. ASSUME NEW s \in Takes, takes[s].phase # "idle"
      PROVE  TradeTake(chain, offers', takes[s].tx)
  <2>1. PICK q \in Offers, g, p \in ChainUtxos(chain), comm \in KnownCommissions,
             satoshis \in Nat :
           offers[q].phase # "none" /\ Bargain(offers[q], takes[s].tx, g, p, comm, satoshis)
    BY <1>6, Zenon DEF TradeInv, TradeTake
  <2>2. offers'[q] = offers[q]
    BY <1>1, <1>2, <1>4, <2>1
  <2> QED BY <2>1, <2>2, Zenon DEF TradeTake
<1> QED BY <1>2, <1>5, <1>6 DEF TradeInv

LEMMA AllInOneKeepsTrades ==
  ASSUME TradeInv, MarketInv', NEW t \in Takes, AllInOneSwap(t)
  PROVE  TradeInv'
<1>1. PICK o \in Offers, u1, u2 \in Tradeable, wanted \in WantedInfos :
         \E pay \in Payments({u1.op, u2.op}) :
           /\ MayTake(t)
           /\ offers[o].phase = "none"
           /\ u1.out.kind = "stas" /\ u2.out.kind = "stas"
           /\ u1.out.pkh # u2.out.pkh
           /\ ProperTakers => ProperOffer(u1, wanted) /\ Carries(u2.out, wanted)
           /\ allInOneSwapGuards(u1, wanted, u2, u1.out.satoshis, pay)
           /\ offers' = [offers EXCEPT ![o] =
                [phase |-> "agreed", utxo |-> u1, wanted |-> wanted,
                 tx |-> createUnsignedSwapOffer(u1, wanted)]]
           /\ takes' = [takes EXCEPT ![t] =
                [phase |-> "returned",
                 tx |-> allInOneSwap(u1, wanted, u2, u1.out.satoshis, pay)]]
           /\ UNCHANGED chain
  BY Zenon DEF AllInOneSwap
<1>2. PICK pay \in Payments({u1.op, u2.op}) :
         /\ offers[o].phase = "none"
         /\ u1.out.kind = "stas" /\ u2.out.kind = "stas"
         /\ u1.out.pkh # u2.out.pkh
         /\ ProperTakers => Carries(u2.out, wanted)
         /\ allInOneSwapGuards(u1, wanted, u2, u1.out.satoshis, pay)
         /\ offers' = [offers EXCEPT ![o] =
              [phase |-> "agreed", utxo |-> u1, wanted |-> wanted,
               tx |-> createUnsignedSwapOffer(u1, wanted)]]
         /\ takes' = [takes EXCEPT ![t] =
              [phase |-> "returned",
               tx |-> allInOneSwap(u1, wanted, u2, u1.out.satoshis, pay)]]
         /\ chain' = chain
  BY <1>1
<1> DEFINE offer == [phase |-> "agreed", utxo |-> u1, wanted |-> wanted,
                     tx |-> createUnsignedSwapOffer(u1, wanted)]
           tx == allInOneSwap(u1, wanted, u2, u1.out.satoshis, pay)
           take == [phase |-> "returned", tx |-> tx]
<1>3. chain \in Seq(Txs) /\ NoCommission \in KnownCommissions
  BY DEF TradeInv, MarketInv, TypeOK, KnownCommissions
<1>4. /\ u1 \in ChainUtxos(chain) /\ u2 \in ChainUtxos(chain) /\ pay \in ChainUtxos(chain)
  BY <1>3, TradeableType DEF ChainUtxos
<1>5. /\ u1.op \in Outpoints /\ u2.op \in Outpoints /\ pay.op \in Outpoints
      /\ u1.out.satoshis \in Nat
      /\ u1.op # u2.op /\ u1.op # pay.op /\ u2.op # pay.op
      /\ u1.out.kind # "contract" /\ u2.out.kind # "contract" /\ pay.out.kind = "p2pkh"
      /\ pay.out.pkh \in Payers /\ u1.out.pkh \in Traders
  BY <1>2, <1>4 DEF ChainUtxos, UtxoRecords, Outputs, Tradeable, Payments
<1>6. SwapChange(pay, NoCommission) >= 1
  BY <1>2 DEF allInOneSwapGuards
<1>7. tx.ins = <<u1.op, u2.op, pay.op>> /\ 2 \in DOMAIN tx.unlock
  BY <1>5, Triple DEF allInOneSwap, swapBody, offerTx
<1>8. tx.outs = SwapOuts(u1, u2, pay, wanted, NoCommission, u1.out.satoshis)
  BY DEF allInOneSwap, swapBody, offerTx, SwapOuts
<1> HIDE DEF tx
<1>9. /\ offer.utxo = u1 /\ offer.wanted = wanted /\ offer.phase = "agreed"
      /\ take.phase = "returned" /\ take.tx = tx
  OBVIOUS
<1>10. /\ offers' = [offers EXCEPT ![o] = offer]
       /\ takes' = [takes EXCEPT ![t] = take] /\ chain' = chain
  BY <1>2 DEF tx
<1> HIDE DEF offer, take
<1>12. Bargain(offer, tx, u2, pay, NoCommission, u1.out.satoshis)
  BY <1>2, <1>5, <1>6, <1>7, <1>8, <1>9 DEF Bargain
<1>13. TradeTake(chain, offers', tx)
  <2>1. offers'[o] = offer
    BY <1>10 DEF TradeInv, MarketInv, TypeOK
  <2> QED BY <1>3, <1>4, <1>5, <1>9, <1>12, <2>1 DEF TradeTake
<1>14. OfferedByTrader(offer)
  BY <1>1, <1>5, <1>9 DEF OfferedByTrader
<1>15. take.phase # "idle" => TradeTake(chain, offers', take.tx)
  BY <1>9, <1>13
<1>16. offers[o].phase = "none" /\ o \in Offers
  BY <1>2
<1> QED BY <1>10, <1>14, <1>15, <1>16, PublishKeepsTrades

LEMMA AppendAssets ==
  ASSUME NEW ch \in Seq(Txs), AssetsKnown(ch), NEW entry \in Txs,
         \A i \in DOMAIN entry.outs : AssetOf(entry.outs[i]) \in AllAssets
  PROVE  AssetsKnown(Append(ch, entry))
<1> DEFINE longer == Append(ch, entry)
<1>1. /\ DOMAIN longer = DOMAIN ch \cup {Len(ch) + 1} /\ longer[Len(ch) + 1] = entry
      /\ \A t \in DOMAIN ch : longer[t] = ch[t]
  BY AppendProperties, LenProperties
<1> HIDE DEF longer
<1>2. AssetsKnown(longer)
  BY <1>1 DEF AssetsKnown
<1> QED BY <1>2 DEF longer

LEMMA KnownAsset ==
  ASSUME NEW ch \in Seq(Txs), AssetsKnown(ch), NEW u \in ChainUtxos(ch)
  PROVE  AssetOf(u.out) \in AllAssets
<1>1. PICK t \in DOMAIN ch :
         \E k \in DOMAIN ch[t].outs : u.op = [txid |-> t, vout |-> k - 1]
  BY DEF ChainUtxos, Created
<1> PICK k \in DOMAIN ch[t].outs : u.op = [txid |-> t, vout |-> k - 1]
  BY <1>1
<1>2. u.out = ch[t].outs[k - 1 + 1]
  BY DEF ChainUtxos, OutputOf
<1>3. k - 1 + 1 = k
  <2>1. ch[t] \in Txs
    BY LenProperties, ElementOfSeq
  <2>2. k \in Nat
    BY <2>1, LenProperties DEF Txs
  <2> QED BY <2>2
<1> QED BY <1>2, <1>3 DEF AssetsKnown

LEMMA ConfirmKeepsTrades ==
  ASSUME TradeInv, MarketInv', NEW entry \in Txs, chain' = Append(chain, entry),
         InsOf(entry) \subseteq Created(chain), offers' = offers,
         \A i \in DOMAIN entry.outs : AssetOf(entry.outs[i]) \in AllAssets,
         takes' = takes \/ \E t \in Takes : takes' = [takes EXCEPT ![t] = IdleTake]
  PROVE  TradeInv'
<1>1. chain \in Seq(Txs) /\ DOMAIN takes = Takes /\ SpendsCreated(chain)
  BY DEF TradeInv, MarketInv, TypeOK
<1>2. SpendsCreated(chain')
  BY <1>1, AppendUnspent
<1>3. ChainUtxos(chain) \subseteq ChainUtxos(chain')
  <2>1. \A op \in Created(chain) :
           op \in Created(chain') /\ OutputOf(chain', op) = OutputOf(chain, op)
    BY <1>1, GrowthKeeps
  <2> QED BY <2>1 DEF ChainUtxos
<1>4. ASSUME NEW s \in Takes, takes'[s].phase # "idle"
      PROVE  TradeTake(chain', offers', takes'[s].tx)
  <2>1. takes'[s] = takes[s]
    BY <1>1, <1>4 DEF IdleTake
  <2>2. PICK o \in Offers, g, p \in ChainUtxos(chain), comm \in KnownCommissions,
             satoshis \in Nat :
           offers[o].phase # "none" /\ Bargain(offers[o], takes[s].tx, g, p, comm, satoshis)
    BY <1>4, <2>1, Zenon DEF TradeInv, TradeTake
  <2>3. g \in ChainUtxos(chain') /\ p \in ChainUtxos(chain')
    BY <1>3, <2>2
  <2> QED BY <2>1, <2>2, <2>3, Zenon DEF TradeTake
<1>5. AssetsKnown(chain')
  BY <1>1, AppendAssets DEF TradeInv
<1> QED BY <1>2, <1>4, <1>5 DEF TradeInv

-----------------------------------------------------------------------------
(* Amounts of a confirmed swap *)

OutsAre(outs, m, g, p, wanted, comm, satoshis) ==
    /\ outs \in Seq(Outputs)
    /\ outs[1] = makerWantedOutput(m.out.pkh, wanted)
    /\ outs[2] = WithOwner(m.out, g.out.pkh, satoshis)
    /\ ~hasCommission(comm) =>
          /\ Len(outs) = 3
          /\ outs[3] = P2pkhOut(p.out.pkh, SwapChange(p, comm))
    /\ hasCommission(comm) =>
          /\ Len(outs) = 4
          /\ outs[3] = P2pkhOut(comm.pkh, comm.satoshis)
          /\ outs[4] = P2pkhOut(p.out.pkh, SwapChange(p, comm))

LEMMA SwapOutsParts ==
  ASSUME NEW ch \in Seq(Txs), NEW m \in ChainUtxos(ch), NEW g \in ChainUtxos(ch),
         NEW p \in ChainUtxos(ch), NEW wanted \in Wanted, NEW comm \in Commissions,
         NEW satoshis \in Nat, SwapChange(p, comm) >= 1,
         NEW outs, outs = SwapOuts(m, g, p, wanted, comm, satoshis)
  PROVE  OutsAre(outs, m, g, p, wanted, comm, satoshis)
<1> DEFINE w == makerWantedOutput(m.out.pkh, wanted)
           given == WithOwner(m.out, g.out.pkh, satoshis)
           paid == P2pkhOut(comm.pkh, comm.satoshis)
           change == P2pkhOut(p.out.pkh, SwapChange(p, comm))
           front == <<w>> \o <<given>>
<1>1. m.out \in Outputs /\ g.out.pkh \in Keys /\ p.out.pkh \in Keys /\ m.out.pkh \in Keys
      /\ p.out.satoshis \in Nat
  BY DEF ChainUtxos, UtxoRecords, Outputs
<1>2. w \in Outputs
  BY <1>1, WantedOutputType
<1>3. given \in Outputs
  BY <1>1, OwnerReplaced DEF Outputs
<1>4. change \in Outputs
  <2>1. SwapChange(p, comm) \in Nat
    BY <1>1, FeeAssumption DEF SwapChange, Commissions
  <2> QED BY <1>1, <2>1 DEF P2pkhOut, Outputs
<1>5. hasCommission(comm) => paid \in Outputs
  BY DEF hasCommission, P2pkhOut, Outputs, Commissions
<1>6. outs = (front \o CommissionOutputs(comm)) \o <<change>>
  BY DEF SwapOuts
<1> HIDE DEF w, given, paid, change
<1>7. front \in Seq(Outputs) /\ Len(front) = 2 /\ front[1] = w /\ front[2] = given
  BY <1>2, <1>3
<1> HIDE DEF front
<1> DEFINE fourth == <<change>>
<1>8. fourth \in Seq(Outputs) /\ Len(fourth) = 1 /\ fourth[1] = change
  BY <1>4, SingletonSeq
<1> HIDE DEF fourth
<1>9. CASE ~hasCommission(comm)
  <2>1. CommissionOutputs(comm) = <<>>
    BY <1>9 DEF CommissionOutputs
  <2> DEFINE all == front \o fourth
  <2>2. outs = all
    BY <1>6, <1>7, <2>1, ConcatEmptySeq DEF fourth
  <2>10. /\ all \in Seq(Outputs) /\ Len(all) = Len(front) + Len(fourth)
         /\ \A i \in 1..Len(front) : all[i] = front[i]
         /\ \A i \in 1..Len(fourth) : all[Len(front) + i] = fourth[i]
    <3>1. front \in Seq(Outputs) /\ fourth \in Seq(Outputs)
      BY <1>7, <1>8
    <3> QED BY <3>1, ConcatParts
  <2> HIDE DEF all
  <2>4. all[2 + 1] = change
    BY <1>7, <1>8, <2>10
  <2>5. Len(all) = 3 /\ all[1] = w /\ all[2] = given /\ all[3] = change
    BY <1>7, <1>8, <2>10, <2>4
  <2> QED BY <1>9, <2>2, <2>5, <2>10 DEF w, given, change, OutsAre
<1>10. CASE hasCommission(comm)
  <2> DEFINE third == <<paid>>
             middle == front \o third
  <2>1. CommissionOutputs(comm) = third
    BY <1>10 DEF CommissionOutputs, paid
  <2> DEFINE all == middle \o fourth
  <2>2. outs = all
    BY <1>6, <2>1 DEF fourth
  <2>3. third \in Seq(Outputs) /\ Len(third) = 1 /\ third[1] = paid
    BY <1>5, <1>10, SingletonSeq
  <2> HIDE DEF third
  <2>4. /\ middle \in Seq(Outputs) /\ Len(middle) = Len(front) + Len(third)
        /\ \A i \in 1..Len(front) : middle[i] = front[i]
        /\ \A i \in 1..Len(third) : middle[Len(front) + i] = third[i]
    <3>1. front \in Seq(Outputs) /\ third \in Seq(Outputs)
      BY <1>7, <2>3
    <3> QED BY <3>1, ConcatParts
  <2> HIDE DEF middle
  <2>5. middle[2 + 1] = paid
    BY <1>7, <2>3, <2>4
  <2>6. Len(middle) = 3 /\ middle[1] = w /\ middle[2] = given /\ middle[3] = paid
    BY <1>7, <2>3, <2>4, <2>5
  <2>10. /\ all \in Seq(Outputs) /\ Len(all) = Len(middle) + Len(fourth)
         /\ \A i \in 1..Len(middle) : all[i] = middle[i]
         /\ \A i \in 1..Len(fourth) : all[Len(middle) + i] = fourth[i]
    <3>1. middle \in Seq(Outputs) /\ fourth \in Seq(Outputs)
      BY <1>8, <2>4
    <3> QED BY <3>1, ConcatParts
  <2> HIDE DEF all
  <2>8. all[3 + 1] = change
    BY <1>8, <2>6, <2>10
  <2>9. Len(all) = 4 /\ all[1] = w /\ all[2] = given /\ all[3] = paid /\ all[4] = change
    BY <1>8, <2>6, <2>10, <2>8
  <2> QED BY <1>10, <2>2, <2>9, <2>10 DEF w, given, paid, change, OutsAre
<1> QED BY <1>9, <1>10

\* The covenant of either token lets output 1 have the taker's script, or be plain
\* satoshis of its own redemption key.
LEMMA CovenantFirst ==
  ASSUME NEW ch, NEW tx, NEW i \in 1..2, SwapCovenantHolds(ch, tx, i),
         Utxo(ch, tx.ins[2]).out \in Outputs
  PROVE  \/ /\ tx.outs[1].kind = "p2pkh"
            /\ tx.outs[1].pkh = Utxo(ch, tx.ins[i]).out.tok.red
         \/ /\ tx.outs[1].kind = Utxo(ch, tx.ins[2]).out.kind
            /\ tx.outs[1].tok = Utxo(ch, tx.ins[2]).out.tok
<1> DEFINE segs == Front(tx.unlock[i].pairs)
           last == Last(tx.unlock[i].pairs)
           makerOut == Utxo(ch, tx.ins[1]).out
           takerOut == Utxo(ch, tx.ins[2]).out
           this == Utxo(ch, tx.ins[i]).out
           red == this.tok.red
           n == Len(segs)
           outs == [k \in 1..n |-> SwapOutput(red, makerOut, takerOut, k, segs[k])]
           change == P2pkhOut(last.pkh, last.satoshis)
           S == {outs[k] : k \in 1..n} \cup {change}
<1>1. this = IF i = 1 THEN makerOut ELSE takerOut
  OBVIOUS
<1>2. /\ n \in MinSwapSegments..MaxSegments
      /\ tx.outs = SwapOutputs(red, makerOut, takerOut, segs, last)
  BY <1>1 DEF SwapCovenantHolds
<1>3. tx.outs = outs \o <<change>>
  BY <1>2 DEF SwapOutputs
<1>4. takerOut \in Outputs
  OBVIOUS
<1> HIDE DEF segs, last, makerOut, takerOut, this, red
<1>5. n \in Nat /\ n >= 2
  <2>1. n \in MinSwapSegments..MaxSegments
    BY <1>2
  <2> HIDE DEF n
  <2> QED BY <2>1 DEF MinSwapSegments, MaxSegments
<1> HIDE DEF n
<1>6. outs[1] = SwapOutput(red, makerOut, takerOut, 1, segs[1])
  BY <1>5
<1>7. outs \in [1..n -> S] /\ change \in S
  OBVIOUS
<1> HIDE DEF outs, change, S
<1>8. outs \in Seq(S) /\ Len(outs) = n /\ <<change>> \in Seq(S)
  BY <1>5, <1>7, FunctionIsSeq, SingletonSeq
<1>9. (outs \o <<change>>)[1] = outs[1]
  <2>1. Len(outs) \in Nat /\ Len(outs) >= 2 => (outs \o <<change>>)[1] = outs[1]
    BY <1>8, ConcatTwo
  <2> QED BY <1>5, <1>8, <2>1
<1> DEFINE first == tx.outs[1]
<1>10. first = SwapOutput(red, makerOut, takerOut, 1, segs[1])
  BY <1>3, <1>6, <1>9
<1> HIDE DEF first
<1>11. CASE segs[1].pkh = red
  <2>1. first = P2pkhOut(segs[1].pkh, segs[1].satoshis)
    BY <1>10, <1>11 DEF SwapOutput
  <2>2. first.kind = "p2pkh" /\ first.pkh = red
    BY <1>11, <2>1 DEF P2pkhOut
  <2> QED BY <2>2 DEF first, red, this
<1>12. CASE segs[1].pkh # red
  <2>1. first = WithOwner(takerOut, segs[1].pkh, segs[1].satoshis)
    BY <1>10, <1>12 DEF SwapOutput
  <2>2. first.kind = takerOut.kind /\ first.tok = takerOut.tok
    BY <1>4, <2>1, OwnerReplaced
  <2> QED BY <2>2 DEF first, takerOut
<1> QED BY <1>11, <1>12

\* The covenant of a taker's token: with no other output in its script, the first
\* one holds all of it.
LEMMA CovenantTakesAll ==
  ASSUME NEW ch, NEW tx \in SwapTxs, 2 \in DOMAIN tx.unlock, SwapCovenantHolds(ch, tx, 2),
         Utxo(ch, tx.ins[2]).out \in Outputs, Utxo(ch, tx.ins[2]).out.kind = "stas",
         Len(tx.outs) = 3 \/ (Len(tx.outs) = 4 /\ tx.outs[3].kind = "p2pkh")
  PROVE  tx.outs[1].satoshis = Utxo(ch, tx.ins[2]).out.satoshis
<1> DEFINE segs == Front(tx.unlock[2].pairs)
           last == Last(tx.unlock[2].pairs)
           makerOut == Utxo(ch, tx.ins[1]).out
           takerOut == Utxo(ch, tx.ins[2]).out
           n == Len(segs)
           outs == [k \in 1..n |-> SwapOutput(takerOut.tok.red, makerOut, takerOut, k, segs[k])]
           change == P2pkhOut(last.pkh, last.satoshis)
           S == {outs[k] : k \in 1..n} \cup {change}
<1>1. /\ n \in MinSwapSegments..MaxSegments
      /\ TakerTotal(segs) = takerOut.satoshis
      /\ tx.outs = SwapOutputs(takerOut.tok.red, makerOut, takerOut, segs, last)
  BY DEF SwapCovenantHolds, TakerAssetWhole
<1>2. tx.outs = outs \o <<change>>
  BY <1>1 DEF SwapOutputs
<1>3. segs \in Seq(Segments)
  <2>1. tx.unlock[2] \in SwapUnlocks
    BY LenProperties, ElementOfSeq DEF SwapTxs
  <2>2. tx.unlock[2].type = "swap"
    BY DEF SwapCovenantHolds
  <2>3. tx.unlock[2].pairs \in Seq(Segments)
    BY <2>1, <2>2 DEF SwapUnlocks, PlainUnlock
  <2> QED BY <2>3, LenProperties DEF Front
<1>4. takerOut \in Outputs /\ takerOut.kind = "stas"
  OBVIOUS
<1> HIDE DEF segs, last, makerOut, takerOut
<1>5. n \in 2..4
  BY <1>1 DEF MinSwapSegments, MaxSegments
<1>6. DOMAIN segs = 1..n /\ \A k \in 1..n : segs[k] \in Segments
  BY <1>3, LenProperties, ElementOfSeq
<1> HIDE DEF n
<1>7. outs \in [1..n -> S] /\ change \in S
  OBVIOUS
<1>8. outs[1] = SwapOutput(takerOut.tok.red, makerOut, takerOut, 1, segs[1])
  BY <1>5
<1>9. n >= 3 => outs[3] = SwapOutput(takerOut.tok.red, makerOut, takerOut, 3, segs[3])
  BY <1>5
<1> HIDE DEF outs, change, S
<1>10. outs \in Seq(S) /\ Len(outs) = n /\ <<change>> \in Seq(S) /\ Len(<<change>>) = 1
  BY <1>5, <1>7, FunctionIsSeq, SingletonSeq
<1>11. /\ Len(tx.outs) = n + 1 /\ \A i \in 1..n : tx.outs[i] = outs[i]
  BY <1>2, <1>10, ConcatParts
<1>12. n = 2
  <2> SUFFICES ASSUME n # 2 PROVE FALSE
    OBVIOUS
  <2>1. n = 3 /\ tx.outs[3].kind = "p2pkh" /\ tx.outs[3] = outs[3]
    BY <1>5, <1>11
  <2>2. outs[3] = WithOwner(takerOut, segs[3].pkh, segs[3].satoshis)
    BY <1>9, <2>1 DEF SwapOutput
  <2>3. outs[3].kind = "stas"
    BY <1>4, <2>2, OwnerReplaced
  <2> QED BY <2>1, <2>3
<1>13. tx.outs[1].satoshis = segs[1].satoshis
  <2>1. tx.outs[1] = outs[1]
    BY <1>11, <1>12
  <2>2. outs[1] \in {P2pkhOut(segs[1].pkh, segs[1].satoshis),
                     WithOwner(takerOut, segs[1].pkh, segs[1].satoshis)}
    BY <1>8 DEF SwapOutput
  <2> QED BY <1>4, <2>1, <2>2, OwnerReplaced DEF P2pkhOut
<1>14. TakerTotal(segs) = segs[1].satoshis
  <2>1. segs[1].satoshis \in Nat /\ segs[2].satoshis \in Nat
    BY <1>6, <1>12 DEF Segments
  <2>2. DOMAIN segs = 1..2
    BY <1>6, <1>12
  <2> QED BY <2>1, <2>2 DEF TakerTotal, SegmentTotal
<1> QED BY <1>1, <1>13, <1>14 DEF takerOut

WantOf(offer) == IF offer.wanted.type = "native" THEN NoTok ELSE offer.wanted.tok

\* What the maker of an offer gains of an asset when it is carried out.
MakerGain(offer, a) ==
    (IF WantOf(offer) = a THEN offer.wanted.satoshis ELSE 0)
      - (IF AssetOf(offer.utxo.out) = a THEN offer.utxo.out.satoshis ELSE 0)

\* What its taker gains who gives another asset for it, or the same.
TakerNet(offer, given, a) ==
    (IF AssetOf(offer.utxo.out) = a THEN offer.utxo.out.satoshis ELSE 0)
      - (IF given = a THEN offer.wanted.satoshis ELSE 0)

\* What an accepted answer to an offer looks like.
AcceptedBargain(ch, offer, tx, g, p, comm, satoshis) ==
    /\ ch \in Seq(Txs) /\ SpendsCreated(ch) /\ tx \in SwapTxs
    /\ offer \in PublishedOffers /\ OfferOf(ch, offer) /\ OfferedByTrader(offer)
    /\ g \in ChainUtxos(ch) /\ p \in ChainUtxos(ch)
    /\ comm \in Commissions /\ comm.pkh \notin Traders /\ satoshis \in Nat
    /\ Bargain(offer, tx, g, p, comm, satoshis)
    /\ SwapAccepted(ch, tx)

LEMMA BargainTypes ==
  ASSUME NEW ch, NEW offer, NEW tx, NEW g, NEW p, NEW comm, NEW satoshis,
         AcceptedBargain(ch, offer, tx, g, p, comm, satoshis)
  PROVE  /\ offer.utxo \in ChainUtxos(ch) /\ offer.wanted \in Wanted
         /\ \A u \in {offer.utxo, g, p} : /\ u \in ChainUtxos(ch)
                                          /\ u.op \in Unspent(ch) /\ u.op \in Outpoints
                                          /\ u.out \in Outputs
                                          /\ OutputOf(ch, u.op) = u.out
                                          /\ Utxo(ch, u.op).out = u.out
         /\ tx.ins[1] = offer.utxo.op /\ tx.ins[2] = g.op /\ tx.ins[3] = p.op
         /\ DOMAIN tx.ins = 1..3
<1> DEFINE m == offer.utxo
<1>1. /\ m.op \in Outpoints /\ m.out \in Outputs /\ m \in UtxoRecords
      /\ offer.wanted \in Wanted
  BY DEF AcceptedBargain, PublishedOffers, UtxoRecords
<1>2. m \in ChainUtxos(ch)
  BY <1>1 DEF AcceptedBargain, OfferOf, ChainUtxos
<1>3. \A u \in ChainUtxos(ch) : /\ u.op \in Outpoints /\ u.out \in Outputs
                               /\ OutputOf(ch, u.op) = u.out /\ Utxo(ch, u.op).out = u.out
  BY DEF ChainUtxos, UtxoRecords, Utxo, OutputOf
<1>4. g \in ChainUtxos(ch) /\ p \in ChainUtxos(ch) /\ tx.ins = <<m.op, g.op, p.op>>
  BY DEF AcceptedBargain, Bargain
<1> HIDE DEF m
<1>5. g.op \in Outpoints /\ p.op \in Outpoints
  BY <1>3, <1>4
<1>6. /\ tx.ins[1] = m.op /\ tx.ins[2] = g.op /\ tx.ins[3] = p.op /\ DOMAIN tx.ins = 1..3
  BY <1>1, <1>4, <1>5
<1>7. \A i \in DOMAIN tx.ins : tx.ins[i] \in Unspent(ch)
  BY DEF AcceptedBargain, SwapAccepted
<1>8. m.op \in Unspent(ch) /\ g.op \in Unspent(ch) /\ p.op \in Unspent(ch)
  BY <1>6, <1>7
<1> QED BY <1>1, <1>2, <1>3, <1>4, <1>6, <1>8 DEF m

\* The outputs of an answer, before its commission and change.
LEMMA BargainOuts ==
  ASSUME NEW ch, NEW offer, NEW tx, NEW g, NEW p, NEW comm, NEW satoshis,
         AcceptedBargain(ch, offer, tx, g, p, comm, satoshis)
  PROVE  OutsAre(tx.outs, offer.utxo, g, p, offer.wanted, comm, satoshis)
<1>1. /\ offer.utxo \in ChainUtxos(ch) /\ offer.wanted \in Wanted
      /\ g \in ChainUtxos(ch) /\ p \in ChainUtxos(ch)
  BY BargainTypes
<1>2. /\ ch \in Seq(Txs) /\ comm \in Commissions /\ satoshis \in Nat
      /\ SwapChange(p, comm) >= 1
      /\ tx.outs = SwapOuts(offer.utxo, g, p, offer.wanted, comm, satoshis)
  BY DEF AcceptedBargain, Bargain
<1>3. PICK m \in ChainUtxos(ch), wanted \in Wanted : m = offer.utxo /\ wanted = offer.wanted
  BY <1>1
<1>4. PICK outs : outs = tx.outs
  OBVIOUS
<1>5. outs = SwapOuts(m, g, p, wanted, comm, satoshis)
  BY <1>2, <1>3, <1>4
<1>6. OutsAre(outs, m, g, p, wanted, comm, satoshis)
  BY <1>1, <1>2, <1>5, SwapOutsParts
<1> QED BY <1>3, <1>4, <1>6

\* The covenants see to it that tokens change hands whole.
LEMMA WholeTokens ==
  ASSUME NEW ch, NEW offer, NEW tx, NEW g, NEW p, NEW comm, NEW satoshis,
         AcceptedBargain(ch, offer, tx, g, p, comm, satoshis)
  PROVE  /\ offer.utxo.out.kind = "stas" => satoshis = offer.utxo.out.satoshis
         /\ g.out.kind = "stas" => g.out.satoshis = offer.wanted.satoshis
<1> DEFINE m == offer.utxo
<1>1. /\ offer.wanted \in Wanted /\ m.out \in Outputs /\ g.out \in Outputs
      /\ Utxo(ch, tx.ins[1]).out = m.out /\ Utxo(ch, tx.ins[2]).out = g.out
      /\ DOMAIN tx.ins = 1..3
  BY BargainTypes
<1>2. tx \in SwapTxs /\ 2 \in DOMAIN tx.unlock
  BY DEF AcceptedBargain, Bargain
<1>3. /\ tx.outs[1] = makerWantedOutput(m.out.pkh, offer.wanted)
      /\ tx.outs[2] = WithOwner(m.out, g.out.pkh, satoshis)
      /\ Len(tx.outs) = 3 \/ (Len(tx.outs) = 4 /\ tx.outs[3] = P2pkhOut(comm.pkh, comm.satoshis))
  BY BargainOuts DEF OutsAre
<1>4. \A i \in 1..3 : Utxo(ch, tx.ins[i]).out.kind = "stas" => SwapCovenantHolds(ch, tx, i)
  BY <1>1 DEF AcceptedBargain, SwapAccepted
<1> HIDE DEF m
<1>5. m.out.kind = "stas" => satoshis = m.out.satoshis
  <2> SUFFICES ASSUME m.out.kind = "stas" PROVE satoshis = m.out.satoshis
    OBVIOUS
  <2>1. tx.outs[2].satoshis = m.out.satoshis
    BY <1>1, <1>4, CovenantGivesAll
  <2> QED BY <1>1, <1>3, <2>1, OwnerReplaced
<1>6. g.out.kind = "stas" => g.out.satoshis = offer.wanted.satoshis
  <2> SUFFICES ASSUME g.out.kind = "stas" PROVE g.out.satoshis = offer.wanted.satoshis
    OBVIOUS
  <2>1. tx.outs[1].satoshis = offer.wanted.satoshis
    BY <1>3 DEF makerWantedOutput, StasOut, P2pkhOut
  <2>2. Len(tx.outs) = 3 \/ (Len(tx.outs) = 4 /\ tx.outs[3].kind = "p2pkh")
    BY <1>3 DEF P2pkhOut
  <2>3. SwapCovenantHolds(ch, tx, 2)
    BY <1>1, <1>4
  <2>4. tx.outs[1].satoshis = g.out.satoshis
    BY <1>1, <1>2, <2>2, <2>3, CovenantTakesAll
  <2> QED BY <2>1, <2>4
<1> QED BY <1>5, <1>6 DEF m

\* What may stand for what the maker wants: the issuer is paid plain satoshis for
\* his token, or no token is spent at all.
Instead(offer, g) ==
    \/ AssetOf(offer.utxo.out) = NoTok /\ WantOf(offer) # NoTok /\ AssetOf(g.out) = NoTok
    \/ /\ WantOf(offer) = NoTok /\ AssetOf(g.out) # NoTok
       /\ g.out.tok.red = offer.utxo.out.pkh

\* With a token in either input the covenants see to the script of output 1.
LEMMA WhatIsGiven ==
  ASSUME NEW ch, NEW offer, NEW tx, NEW g, NEW p, NEW comm, NEW satoshis,
         AcceptedBargain(ch, offer, tx, g, p, comm, satoshis)
  PROVE  AssetOf(g.out) = WantOf(offer) \/ (~ProperTakers /\ Instead(offer, g))
<1> DEFINE m == offer.utxo
           first == tx.outs[1]
<1>1. /\ offer.wanted \in Wanted /\ m.out \in Outputs /\ g.out \in Outputs
      /\ Utxo(ch, tx.ins[1]).out = m.out /\ Utxo(ch, tx.ins[2]).out = g.out
      /\ DOMAIN tx.ins = 1..3
  BY BargainTypes
<1>2. /\ ProperTakers => Carries(g.out, offer.wanted)
      /\ m.out.kind # "contract" /\ g.out.kind # "contract"
  BY DEF AcceptedBargain, Bargain, OfferedByTrader
<1>3. first = makerWantedOutput(m.out.pkh, offer.wanted)
  BY BargainOuts DEF OutsAre
<1>4. \A i \in 1..2 : Utxo(ch, tx.ins[i]).out.kind = "stas" => SwapCovenantHolds(ch, tx, i)
  BY <1>1 DEF AcceptedBargain, SwapAccepted
<1>5. \A i \in 1..2 : Utxo(ch, tx.ins[i]).out.kind = "stas" =>
         \/ first.kind = "p2pkh" /\ first.pkh = Utxo(ch, tx.ins[i]).out.tok.red
         \/ first.kind = g.out.kind /\ first.tok = g.out.tok
  BY <1>1, <1>4, CovenantFirst
<1>6. /\ m.out.kind = "stas" =>
            \/ first.kind = "p2pkh" /\ first.pkh = m.out.tok.red
            \/ first.kind = g.out.kind /\ first.tok = g.out.tok
      /\ g.out.kind = "stas" =>
            \/ first.kind = "p2pkh" /\ first.pkh = g.out.tok.red
            \/ first.kind = g.out.kind /\ first.tok = g.out.tok
  BY <1>1, <1>5
<1>7. m.out.kind \in {"stas", "p2pkh"} /\ g.out.kind \in {"stas", "p2pkh"}
  BY <1>1, <1>2 DEF Outputs
<1> HIDE DEF m, first
<1>8. CASE offer.wanted.type = "native"
  <2>1. WantOf(offer) = NoTok /\ first.kind = "p2pkh" /\ first.pkh = m.out.pkh
    BY <1>3, <1>8 DEF WantOf, makerWantedOutput, P2pkhOut
  <2>2. ProperTakers => g.out.kind = "p2pkh"
    BY <1>2, <1>8 DEF Carries
  <2>3. g.out.kind = "stas" => g.out.tok.red = m.out.pkh
    BY <1>6, <2>1
  <2> QED BY <1>7, <2>1, <2>2, <2>3 DEF AssetOf, Instead, m
<1>9. CASE offer.wanted.type # "native"
  <2>1. /\ WantOf(offer) = offer.wanted.tok
        /\ first.kind = "stas" /\ first.tok = offer.wanted.tok
    BY <1>3, <1>9 DEF WantOf, makerWantedOutput, StasOut
  <2>2. ProperTakers => g.out.kind = "stas"
    BY <1>2, <1>9 DEF Carries, IsStas
  <2>3. g.out.kind = "stas" => AssetOf(g.out) = WantOf(offer)
    BY <1>6, <2>1 DEF AssetOf
  <2>4. g.out.kind = "p2pkh" => m.out.kind = "p2pkh" /\ AssetOf(g.out) = NoTok
    BY <1>6, <1>7, <2>1 DEF AssetOf
  <2> QED BY <1>7, <2>2, <2>3, <2>4 DEF AssetOf, Instead, m
<1> QED BY <1>8, <1>9

Confirmed(ch, tx) == Append(ch, [ins |-> tx.ins, outs |-> tx.outs])

\* One purse before and after; what goes to the commission and the change is
\* ordinary satoshis.
LEMMA BargainPurses ==
  ASSUME NEW ch, NEW offer, NEW tx, NEW g, NEW p, NEW comm, NEW satoshis,
         AcceptedBargain(ch, offer, tx, g, p, comm, satoshis), NEW k, NEW a
  PROVE  \E kept, extra \in Nat :
            /\ Purse(ch, Unspent(ch), k, a)
                 = kept + (Part(offer.utxo.out, k, a) + Part(g.out, k, a) + Part(p.out, k, a))
            /\ Purse(Confirmed(ch, tx), Unspent(Confirmed(ch, tx)), k, a)
                 = kept + (Part(makerWantedOutput(offer.utxo.out.pkh, offer.wanted), k, a)
                             + Part(WithOwner(offer.utxo.out, g.out.pkh, satoshis), k, a)
                             + extra)
            /\ a # NoTok \/ (k # p.out.pkh /\ k # comm.pkh) => extra = 0
<1> DEFINE m == offer.utxo
           entry == [ins |-> tx.ins, outs |-> tx.outs]
           longer == Append(ch, entry)
           rest == Unspent(ch) \ InsOf(entry)
           kept == Purse(ch, rest, k, a)
           part(i) == Part(entry.outs[i], k, a)
           paid == P2pkhOut(comm.pkh, comm.satoshis)
           change == P2pkhOut(p.out.pkh, SwapChange(p, comm))
           w == makerWantedOutput(m.out.pkh, offer.wanted)
           given == WithOwner(m.out, g.out.pkh, satoshis)
<1>1. /\ m \in ChainUtxos(ch) /\ offer.wanted \in Wanted
      /\ \A u \in {m, g, p} : /\ u \in ChainUtxos(ch)
                             /\ u.op \in Unspent(ch) /\ u.op \in Outpoints
                             /\ OutputOf(ch, u.op) = u.out
      /\ tx.ins[1] = m.op /\ tx.ins[2] = g.op /\ tx.ins[3] = p.op
      /\ DOMAIN tx.ins = 1..3
  BY BargainTypes
<1>2. /\ ch \in Seq(Txs) /\ tx \in SwapTxs /\ comm \in Commissions /\ satoshis \in Nat
      /\ SpendsCreated(ch)
      /\ SwapChange(p, comm) >= 1
      /\ tx.outs = SwapOuts(m, g, p, offer.wanted, comm, satoshis)
      /\ m.op # g.op /\ m.op # p.op /\ g.op # p.op
  BY DEF AcceptedBargain, Bargain
<1>3. OutsAre(tx.outs, m, g, p, offer.wanted, comm, satoshis)
  BY BargainOuts
<1> HIDE DEF m
<1>4. InsOf(entry) = {m.op, g.op, p.op}
  <2>1. InsOf(entry) = {tx.ins[i] : i \in 1..3}
    BY <1>1 DEF InsOf
  <2> QED BY <1>1, <2>1
<1>5. entry \in Txs /\ entry.outs = tx.outs /\ InsOf(entry) \subseteq Unspent(ch)
  BY <1>1, <1>2, <1>4 DEF SwapTxs, Txs
<1>6. IsFiniteSet(Unspent(ch)) /\ \A op \in Unspent(ch) : Amount(ch, op) \in Nat
  BY <1>2, CreatedIsFinite, FS_Subset DEF Unspent
<1>7. Purse(ch, Unspent(ch), k, a)
        = kept + (Part(m.out, k, a) + Part(g.out, k, a) + Part(p.out, k, a))
  <2>1. PICK x \in Unspent(ch), y \in Unspent(ch), z \in Unspent(ch) :
           x = m.op /\ y = g.op /\ z = p.op
    BY <1>1
  <2>2. Purse(ch, Unspent(ch), k, a)
          = Purse(ch, Unspent(ch) \ {x, y, z}, k, a)
              + (Part(OutputOf(ch, x), k, a) + Part(OutputOf(ch, y), k, a)
                   + Part(OutputOf(ch, z), k, a))
    BY <1>2, <1>6, <2>1, ThreeTaken
  <2>3. kept = Purse(ch, Unspent(ch) \ {x, y, z}, k, a)
    BY <1>4, <2>1
  <2> QED BY <1>1, <2>1, <2>2, <2>3
<1> HIDE DEF entry
<1>8. /\ kept \in Nat
      /\ \A i \in 1..Len(entry.outs) : part(i) \in Nat
      /\ Len(entry.outs) = 3 =>
           Purse(longer, Unspent(longer), k, a) = kept + (part(1) + part(2) + part(3))
      /\ Len(entry.outs) = 4 =>
           Purse(longer, Unspent(longer), k, a)
             = kept + (part(1) + part(2) + part(3) + part(4))
  <2>1. PurseGrows(ch, entry, k, a)
    BY <1>2, <1>5, PurseAfter
  <2> QED BY <2>1 DEF PurseGrows
<1>9. a # NoTok => Part(paid, k, a) = 0 /\ Part(change, k, a) = 0
  BY DEF Part, AssetOf, P2pkhOut
<1>10. /\ k # comm.pkh => Part(paid, k, a) = 0
       /\ k # p.out.pkh => Part(change, k, a) = 0
  BY DEF Part, P2pkhOut
<1>11. entry.outs[1] = w /\ entry.outs[2] = given
  BY <1>3, <1>5 DEF OutsAre
<1>12. Confirmed(ch, tx) = longer
  BY DEF Confirmed, entry
<1> HIDE DEF kept, longer, w, given
<1>13. CASE ~hasCommission(comm)
  <2>1. Len(entry.outs) = 3 /\ entry.outs[3] = change
    BY <1>3, <1>5, <1>13 DEF OutsAre
  <2>2. part(3) \in Nat
    BY <1>8, <2>1
  <2>3. Purse(longer, Unspent(longer), k, a)
          = kept + (Part(w, k, a) + Part(given, k, a) + part(3))
    BY <1>8, <1>11, <2>1
  <2>4. a # NoTok \/ (k # p.out.pkh /\ k # comm.pkh) => part(3) = 0
    BY <1>9, <1>10, <2>1
  <2> QED BY <1>7, <1>8, <1>12, <2>2, <2>3, <2>4 DEF w, given, m
<1>14. CASE hasCommission(comm)
  <2>1. Len(entry.outs) = 4 /\ entry.outs[3] = paid /\ entry.outs[4] = change
    BY <1>3, <1>5, <1>14 DEF OutsAre
  <2>2. part(1) \in Nat /\ part(2) \in Nat /\ part(3) \in Nat /\ part(4) \in Nat
    BY <1>8, <2>1
  <2> DEFINE extra == part(3) + part(4)
  <2>3. Purse(longer, Unspent(longer), k, a)
          = kept + (Part(w, k, a) + Part(given, k, a) + extra)
    <3>1. Purse(longer, Unspent(longer), k, a)
            = kept + (part(1) + part(2) + part(3) + part(4))
      BY <1>8, <2>1
    <3>2. part(1) + part(2) + part(3) + part(4) = part(1) + part(2) + extra
      BY <2>2
    <3>3. part(1) = Part(w, k, a) /\ part(2) = Part(given, k, a)
      BY <1>11
    <3> HIDE DEF extra, part
    <3> QED BY <3>1, <3>2, <3>3
  <2>4. extra \in Nat /\ (a # NoTok \/ (k # p.out.pkh /\ k # comm.pkh) => extra = 0)
    BY <1>9, <1>10, <2>1, <2>2
  <2> HIDE DEF extra
  <2> QED BY <1>7, <1>8, <1>12, <2>3, <2>4 DEF w, given, m
<1> QED BY <1>13, <1>14

Holds(ch, k, a) == Purse(ch, Unspent(ch), k, a)

\* The terms are kept to the satoshi on the maker's side, and on the taker's in
\* every token, whichever he gives; nobody else loses but the one who pays the fee.
LEMMA BargainAmounts ==
  ASSUME Payers \cap Traders = {},
         NEW ch, NEW offer, NEW tx, NEW g, NEW p, NEW comm, NEW satoshis,
         AcceptedBargain(ch, offer, tx, g, p, comm, satoshis), NEW a
  PROVE  LET maker == offer.utxo.out.pkh
             longer == Confirmed(ch, tx)
         IN /\ Holds(longer, maker, a) = Holds(ch, maker, a) + MakerGain(offer, a)
            /\ a # NoTok =>
                 Holds(longer, g.out.pkh, a)
                   = Holds(ch, g.out.pkh, a) + TakerNet(offer, AssetOf(g.out), a)
            /\ \A k : k # maker /\ k # g.out.pkh =>
                  /\ a # NoTok => Holds(longer, k, a) = Holds(ch, k, a)
                  /\ k # p.out.pkh => Holds(longer, k, a) >= Holds(ch, k, a)
<1> DEFINE m == offer.utxo
           longer == Confirmed(ch, tx)
           w == makerWantedOutput(m.out.pkh, offer.wanted)
           given == WithOwner(m.out, g.out.pkh, satoshis)
           gained == IF WantOf(offer) = a THEN offer.wanted.satoshis ELSE 0
           spent == IF AssetOf(m.out) = a THEN m.out.satoshis ELSE 0
           paid == IF AssetOf(g.out) = a THEN offer.wanted.satoshis ELSE 0
           before(k) == Holds(ch, k, a)
           after(k) == Holds(longer, k, a)
<1>1. /\ m.out \in Outputs /\ g.out \in Outputs /\ p.out \in Outputs /\ offer.wanted \in Wanted
  BY BargainTypes
<1>2. /\ g.out.pkh # m.out.pkh
      /\ p.out.kind = "p2pkh" /\ p.out.pkh \in Payers /\ m.out.pkh \in Traders
      /\ comm.pkh \notin Traders /\ satoshis \in Nat
  BY DEF AcceptedBargain, Bargain, OfferedByTrader
<1>3. /\ m.out.kind = "stas" => satoshis = m.out.satoshis
      /\ g.out.kind = "stas" => g.out.satoshis = offer.wanted.satoshis
  BY WholeTokens
<1>4. m.out.pkh # p.out.pkh /\ m.out.pkh # comm.pkh
  BY <1>2
<1>5. ASSUME NEW k
      PROVE  \E kept, extra \in Nat :
                /\ before(k) = kept + (Part(m.out, k, a) + Part(g.out, k, a) + Part(p.out, k, a))
                /\ after(k) = kept + (Part(w, k, a) + Part(given, k, a) + extra)
                /\ a # NoTok \/ (k # p.out.pkh /\ k # comm.pkh) => extra = 0
  BY BargainPurses DEF Holds
<1>6. /\ w.pkh = m.out.pkh /\ AssetOf(w) = WantOf(offer)
      /\ w.satoshis = offer.wanted.satoshis /\ w.satoshis \in Nat
  BY <1>1 DEF makerWantedOutput, P2pkhOut, StasOut, AssetOf, WantOf, Wanted
<1>7. /\ given.pkh = g.out.pkh /\ AssetOf(given) = AssetOf(m.out)
      /\ given.satoshis = satoshis
  BY <1>1, OwnerReplaced DEF AssetOf
<1>8. AssetOf(p.out) = NoTok
  BY <1>2 DEF AssetOf
<1>9. /\ AssetOf(m.out) # NoTok => satoshis = m.out.satoshis
      /\ AssetOf(g.out) # NoTok => g.out.satoshis = offer.wanted.satoshis
  BY <1>3 DEF AssetOf
<1>10. m.out.satoshis \in Nat /\ g.out.satoshis \in Nat /\ p.out.satoshis \in Nat
  BY <1>1 DEF Outputs
<1>11. /\ MakerGain(offer, a) = gained - spent /\ TakerNet(offer, AssetOf(g.out), a) = spent - paid
       /\ gained \in Nat /\ spent \in Nat /\ paid \in Nat
  BY <1>6, <1>10 DEF MakerGain, TakerNet
<1> HIDE DEF w, given, gained, spent, paid, before, after, m, longer
<1>12. after(m.out.pkh) = before(m.out.pkh) + (gained - spent)
  <2> DEFINE k == m.out.pkh
  <2>1. /\ Part(m.out, k, a) = spent /\ Part(g.out, k, a) = 0 /\ Part(p.out, k, a) = 0
    BY <1>2, <1>4 DEF Part, spent
  <2>2. Part(w, k, a) = gained /\ Part(given, k, a) = 0
    BY <1>2, <1>6, <1>7 DEF Part, gained
  <2>3. PICK kept \in Nat, extra \in Nat :
           /\ before(k) = kept + (Part(m.out, k, a) + Part(g.out, k, a) + Part(p.out, k, a))
           /\ after(k) = kept + (Part(w, k, a) + Part(given, k, a) + extra)
           /\ a # NoTok \/ (k # p.out.pkh /\ k # comm.pkh) => extra = 0
    BY <1>5
  <2>4. extra = 0
    BY <1>4, <2>3
  <2> QED BY <1>11, <2>1, <2>2, <2>3, <2>4
<1>13. a # NoTok => after(g.out.pkh) = before(g.out.pkh) + (spent - paid)
  <2> SUFFICES ASSUME a # NoTok
               PROVE  after(g.out.pkh) = before(g.out.pkh) + (spent - paid)
    OBVIOUS
  <2> DEFINE k == g.out.pkh
  <2>1. /\ Part(m.out, k, a) = 0 /\ Part(g.out, k, a) = paid /\ Part(p.out, k, a) = 0
    BY <1>2, <1>8, <1>9 DEF Part, paid
  <2>2. Part(w, k, a) = 0 /\ Part(given, k, a) = spent
    BY <1>2, <1>6, <1>7, <1>9 DEF Part, spent
  <2>3. PICK kept \in Nat, extra \in Nat :
           /\ before(k) = kept + (Part(m.out, k, a) + Part(g.out, k, a) + Part(p.out, k, a))
           /\ after(k) = kept + (Part(w, k, a) + Part(given, k, a) + extra)
           /\ a # NoTok \/ (k # p.out.pkh /\ k # comm.pkh) => extra = 0
    BY <1>5
  <2>4. extra = 0
    BY <2>3
  <2> QED BY <1>11, <2>1, <2>2, <2>3, <2>4
<1>14. ASSUME NEW k, k # m.out.pkh, k # g.out.pkh
       PROVE  /\ a # NoTok => after(k) = before(k)
              /\ k # p.out.pkh => after(k) >= before(k)
  <2>1. Part(m.out, k, a) = 0 /\ Part(g.out, k, a) = 0
    BY <1>14 DEF Part
  <2>2. Part(w, k, a) = 0 /\ Part(given, k, a) = 0
    BY <1>6, <1>7, <1>14 DEF Part
  <2>3. PICK kept \in Nat, extra \in Nat :
           /\ before(k) = kept + (Part(m.out, k, a) + Part(g.out, k, a) + Part(p.out, k, a))
           /\ after(k) = kept + (Part(w, k, a) + Part(given, k, a) + extra)
           /\ a # NoTok \/ (k # p.out.pkh /\ k # comm.pkh) => extra = 0
    BY <1>5
  <2>4. a # NoTok => Part(p.out, k, a) = 0 /\ extra = 0
    BY <1>8, <2>3 DEF Part
  <2>5. k # p.out.pkh => Part(p.out, k, a) = 0
    BY DEF Part
  <2> QED BY <2>1, <2>2, <2>3, <2>4, <2>5
<1> QED BY <1>11, <1>12, <1>13, <1>14 DEF m, longer, before, after

-----------------------------------------------------------------------------
(* Amounts of a withdrawal *)

\* An owner's single input becomes a single output of the same asset and amount.
LEMMA WithdrawnOutput ==
  ASSUME NEW u \in UtxoRecords, u.out.pkh \in Traders, u.out.kind # "contract",
         NEW tx \in SpentElsewhere(u)
  PROVE  \E out \in Outputs : /\ tx.ins = <<u.op>> /\ tx.outs = <<out>>
                              /\ AssetOf(out) = AssetOf(u.out)
                              /\ out.satoshis = u.out.satoshis
<1>1. u.op \in Outpoints /\ u.out \in Outputs /\ tx.ins = <<u.op>>
  BY WithdrawnType DEF UtxoRecords
<1>2. CASE u.out.kind = "stas"
  <2>1. PICK k \in Traders : tx = transferTx(u, k, <<>>)
    BY <1>2 DEF SpentElsewhere
  <2> DEFINE out == StasOut(k, u.out.tok, u.out.satoshis)
  <2>2. /\ out \in Outputs /\ AssetOf(out) = AssetOf(u.out)
        /\ out.satoshis = u.out.satoshis
    BY <1>1, <1>2, ArgumentsAssumption DEF StasOut, Outputs, AssetOf
  <2>3. <<out>> \in Seq(Outputs)
    BY <2>2, SingletonSeq
  <2>4. tx.outs = <<out>> \o <<>>
    BY <2>1 DEF transferTx, BasicTx, ChangeOutputs
  <2> HIDE DEF out
  <2>5. tx.outs = <<out>>
    BY <2>3, <2>4, ConcatEmptySeq
  <2> QED BY <1>1, <2>2, <2>5
<1>3. CASE u.out.kind # "stas"
  BY <1>1, <1>3 DEF SpentElsewhere
<1> QED BY <1>2, <1>3

\* What all keys hold of an asset together.
Together(ch, a) == SumFunction([k \in Keys |-> Holds(ch, k, a)])

OpsOf(ch, a) == {op \in Unspent(ch) : AssetOf(OutputOf(ch, op)) = a}

LEMMA TogetherIsTotal ==
  ASSUME NEW ch \in Seq(Txs), IsFiniteSet(Keys), NEW a
  PROVE  Together(ch, a) = Total(ch, OpsOf(ch, a))
<1> DEFINE bal == [k \in Keys |-> Holds(ch, k, a)]
           ops == OpsOf(ch, a)
<1>1. ops \subseteq Created(ch) /\ IsFiniteSet(ops)
  BY CreatedIsFinite, FS_Subset DEF OpsOf, Unspent
<1>2. \A k \in Keys : bal[k] = Total(ch, {op \in ops : OutputOf(ch, op).pkh = k})
  <2> SUFFICES ASSUME NEW k \in Keys
               PROVE  bal[k] = Total(ch, {op \in ops : OutputOf(ch, op).pkh = k})
    OBVIOUS
  <2>1. {op \in ops : OutputOf(ch, op).pkh = k} = HeldBy(ch, Unspent(ch), k, a)
    BY DEF HeldBy, OpsOf
  <2> QED BY <2>1 DEF Holds, Purse
<1>3. DOMAIN bal = Keys
  OBVIOUS
<1> HIDE DEF bal, ops
<1>4. SumFunction(bal) = Total(ch, ops)
  BY <1>1, <1>2, <1>3, OwnersAddUp
<1> QED BY <1>4 DEF Together, bal, ops

\* Giving something away changes neither what there is nor what others have.
LEMMA MoveAmounts ==
  ASSUME NEW ch \in Seq(Txs), SpendsCreated(ch), NEW u \in ChainUtxos(ch),
         u.op \in Unspent(ch), NEW tx, tx.ins = <<u.op>>,
         NEW out \in Outputs, tx.outs = <<out>>, AssetOf(out) = AssetOf(u.out),
         out.satoshis = u.out.satoshis, NEW a
  PROVE  /\ \A k : k # u.out.pkh => Holds(Confirmed(ch, tx), k, a) >= Holds(ch, k, a)
         /\ IsFiniteSet(Keys) => Together(Confirmed(ch, tx), a) = Together(ch, a)
<1> DEFINE entry == [ins |-> tx.ins, outs |-> tx.outs]
           longer == Append(ch, entry)
           new == PlaceAt(ch, 1)
<1>1. /\ u.op \in Outpoints /\ u.out \in Outputs /\ OutputOf(ch, u.op) = u.out
      /\ u.op \in Created(ch)
  BY DEF ChainUtxos, UtxoRecords
<1>2. /\ entry \in Txs /\ InsOf(entry) = {u.op} /\ DOMAIN entry.outs = {1}
      /\ Len(entry.outs) = 1 /\ entry.outs[1] = out
  <2>1. <<u.op>> \in Seq(Outpoints) /\ <<out>> \in Seq(Outputs)
    BY <1>1, SingletonSeq
  <2>2. entry.ins = <<u.op>> /\ entry.outs = <<out>>
    OBVIOUS
  <2>3. InsOf(entry) = {u.op}
    BY <2>2 DEF InsOf
  <2>4. DOMAIN <<out>> = {1} /\ Len(<<out>>) = 1 /\ <<out>>[1] = out
    OBVIOUS
  <2> QED BY <2>1, <2>2, <2>3, <2>4 DEF Txs
<1>3. Confirmed(ch, tx) = longer
  BY DEF Confirmed
<1> HIDE DEF entry
<1>4. /\ longer \in Seq(Txs)
      /\ Unspent(longer) = (Unspent(ch) \ {u.op}) \cup NewOps(ch, entry)
      /\ NewOps(ch, entry) \cap Created(ch) = {}
      /\ \A op \in Created(ch) : OutputOf(longer, op) = OutputOf(ch, op)
      /\ OutputOf(longer, new) = out
  BY <1>1, <1>2, AppendUnspent
<1>5. NewOps(ch, entry) = {new}
  BY <1>2 DEF NewOps
<1>6. IsFiniteSet(Unspent(ch)) /\ \A op \in Unspent(ch) : Amount(ch, op) \in Nat
  BY CreatedIsFinite, FS_Subset DEF Unspent
<1> HIDE DEF longer, new
<1>7. ASSUME NEW k, k # u.out.pkh
      PROVE  Holds(longer, k, a) >= Holds(ch, k, a)
  <2> DEFINE kept == Purse(ch, Unspent(ch) \ {u.op}, k, a)
  <2>1. /\ kept \in Nat /\ Part(out, k, a) \in Nat
        /\ Purse(longer, Unspent(longer), k, a) = kept + Part(out, k, a)
    <3>1. PurseGrows(ch, entry, k, a)
      BY <1>2, PurseAfter
    <3> QED BY <1>2, <3>1 DEF PurseGrows, longer
  <2>2. Purse(ch, Unspent(ch), k, a) = kept + Part(u.out, k, a)
    <3>1. Purse(ch, Unspent(ch), k, a) = kept + Part(OutputOf(ch, u.op), k, a)
      BY <1>6, PurseTakes
    <3> QED BY <1>1, <3>1
  <2>3. Part(u.out, k, a) = 0
    BY <1>7 DEF Part
  <2> HIDE DEF kept
  <2> QED BY <2>1, <2>2, <2>3 DEF Holds
<1>8. ASSUME IsFiniteSet(Keys) PROVE Together(longer, a) = Together(ch, a)
  <2> DEFINE ops == OpsOf(ch, a)
             later == OpsOf(longer, a)
             rest == ops \ {u.op}
  <2>1. /\ ops \subseteq Created(ch) /\ IsFiniteSet(ops)
        /\ later \subseteq Created(longer) /\ IsFiniteSet(later)
        /\ \A op \in Created(longer) : Amount(longer, op) \in Nat
        /\ \A op \in Created(ch) : Amount(ch, op) \in Nat
    BY <1>4, CreatedIsFinite, FS_Subset DEF OpsOf, Unspent
  <2>2. IsFiniteSet(rest) /\ \A op \in rest : Amount(longer, op) = Amount(ch, op)
    BY <1>4, <2>1, FS_Subset DEF Amount
  <2>3. Total(longer, rest) = Total(ch, rest)
    BY <2>2, TotalOfSameAmounts
  <2>4. later \ {new} = rest
    <3>1. \A op \in Unspent(ch) : op \in Created(ch) /\ op # new
      BY <1>4, <1>5 DEF Unspent
    <3> QED BY <1>4, <1>5, <3>1 DEF OpsOf
  <2>5. new \in later <=> u.op \in ops
    BY <1>1, <1>4, <1>5 DEF OpsOf
  <2>6. Amount(longer, new) = Amount(ch, u.op)
    BY <1>1, <1>4 DEF Amount
  <2> HIDE DEF ops, later
  <2>7. Total(longer, later) = Total(ch, ops)
    <3>1. CASE u.op \in ops
      <4>1. Total(ch, ops) = Amount(ch, u.op) + Total(ch, ops \ {u.op})
        BY <2>1, <3>1, TotalRemove
      <4>2. Total(longer, later) = Amount(longer, new) + Total(longer, later \ {new})
        BY <2>1, <2>5, <3>1, TotalRemove
      <4> QED BY <2>3, <2>4, <2>6, <4>1, <4>2
    <3>2. CASE u.op \notin ops
      <4>1. rest = ops /\ later = rest
        BY <2>4, <2>5, <3>2
      <4> QED BY <2>3, <4>1
    <3> QED BY <3>1, <3>2
  <2> QED BY <1>4, <1>8, <2>7, TogetherIsTotal DEF ops, later
<1> QED BY <1>3, <1>7, <1>8

-----------------------------------------------------------------------------
(* The invariant *)

LEMMA InitTrades == Init => TradeInv
<1> SUFFICES ASSUME Init PROVE TradeInv
  OBVIOUS
<1>1. MarketInv
  BY InitInv
<1>2. \A t \in DOMAIN chain : chain[t].ins = <<>>
  BY DEF Init
<1>3. Spent(chain) = {}
  BY <1>2 DEF Spent, ToSet
<1>4. AssetsKnown(chain)
  <2> SUFFICES ASSUME NEW t \in DOMAIN Genesis, NEW i \in DOMAIN Genesis[t]
               PROVE  AssetOf(Genesis[t][i]) \in AllAssets
    BY DEF Init, AssetsKnown
  <2>1. AssetOf(Genesis[t][i]) \in {AssetOf(out) : out \in Range(Genesis[t])}
    BY DEF Range
  <2> HIDE DEF AssetOf
  <2> QED BY <2>1 DEF AllAssets
<1> QED BY <1>1, <1>3, <1>4 DEF Init, TradeInv, SpendsCreated, NoOffer, IdleTake

\* What BroadcastAccepted confirms spends what is unspent.
LEMMA AcceptedSpends ==
  ASSUME TypeOK, NEW t \in Takes, BroadcastAccepted(t)
  PROVE  \E entry \in Txs :
            /\ entry = [ins |-> takes[t].tx.ins, outs |-> takes[t].tx.outs]
            /\ chain' = Append(chain, entry)
            /\ InsOf(entry) \subseteq Unspent(chain)
            /\ offers' = offers /\ takes' = [takes EXCEPT ![t] = IdleTake]
<1>1. PICK entry \in Txs : /\ entry = [ins |-> takes[t].tx.ins, outs |-> takes[t].tx.outs]
                          /\ chain' = Append(chain, entry)
                          /\ offers' = offers
                          /\ takes' = [takes EXCEPT ![t] = IdleTake]
  BY AcceptedEffect
<1>2. \A i \in DOMAIN takes[t].tx.ins : takes[t].tx.ins[i] \in Unspent(chain)
  BY DEF BroadcastAccepted, SwapAccepted
<1>3. InsOf(entry) \subseteq Unspent(chain)
  BY <1>1, <1>2 DEF InsOf
<1> QED BY <1>1, <1>3

LEMMA WithdrawSpends ==
  ASSUME chain \in Seq(Txs), Withdraw
  PROVE  \E u, out, tx :
            /\ u \in ChainUtxos(chain) /\ out \in Outputs
            /\ u.op \in Unspent(chain) /\ tx.ins = <<u.op>> /\ tx.outs = <<out>>
            /\ AssetOf(out) = AssetOf(u.out) /\ out.satoshis = u.out.satoshis
            /\ chain' = Confirmed(chain, tx) /\ offers' = offers /\ takes' = takes
<1>1. PICK u \in Tradeable : \E tx \in SpentElsewhere(u) :
         /\ chain' = Append(chain, [ins |-> tx.ins, outs |-> tx.outs])
         /\ offers' = offers /\ takes' = takes
  BY DEF Withdraw
<1>2. PICK tx \in SpentElsewhere(u) :
         /\ chain' = Append(chain, [ins |-> tx.ins, outs |-> tx.outs])
         /\ offers' = offers /\ takes' = takes
  BY <1>1
<1>3. /\ u \in UtxoRecords /\ u.out.pkh \in Traders /\ u.out.kind # "contract"
      /\ u \in ChainUtxos(chain)
  BY TradeableType DEF Tradeable, ChainUtxos
<1>4. u.op \in Unspent(chain)
  BY DEF Tradeable, UnspentUtxos, Utxo
<1>5. PICK out \in Outputs : /\ tx.ins = <<u.op>> /\ tx.outs = <<out>>
                            /\ AssetOf(out) = AssetOf(u.out)
                            /\ out.satoshis = u.out.satoshis
  BY <1>3, WithdrawnOutput
<1> QED BY <1>2, <1>3, <1>4, <1>5 DEF Confirmed

LEMMA SingleEntry ==
  ASSUME NEW ch \in Seq(Txs), NEW u \in ChainUtxos(ch), NEW out \in Outputs,
         NEW tx, tx.ins = <<u.op>>, tx.outs = <<out>>
  PROVE  \E entry \in Txs : /\ entry = [ins |-> tx.ins, outs |-> tx.outs]
                            /\ InsOf(entry) = {u.op}
<1>1. u.op \in Outpoints
  BY DEF ChainUtxos, UtxoRecords
<1>2. <<u.op>> \in Seq(Outpoints) /\ <<out>> \in Seq(Outputs)
  BY <1>1, SingletonSeq
<1>3. InsOf([ins |-> <<u.op>>, outs |-> <<out>>]) = {u.op}
  BY DEF InsOf
<1> QED BY <1>2, <1>3 DEF Txs

\* A swap brings no assets but those that are wanted or given.
LEMMA ConfirmedAssets ==
  ASSUME TradeInv, NEW t \in Takes, BroadcastAccepted(t)
  PROVE  \A i \in DOMAIN takes[t].tx.outs : AssetOf(takes[t].tx.outs[i]) \in AllAssets
<1> DEFINE tx == takes[t].tx
           known(i) == AssetOf(tx.outs[i]) \in AllAssets
<1>1. PICK o \in Offers, g, p \in ChainUtxos(chain), comm \in KnownCommissions,
           satoshis \in Nat :
         offers[o].phase # "none" /\ Bargain(offers[o], tx, g, p, comm, satoshis)
  BY Zenon DEF BroadcastAccepted, TradeInv, TradeTake
<1>2. /\ chain \in Seq(Txs) /\ AssetsKnown(chain) /\ OfferedByTrader(offers[o])
      /\ offers[o] \in PublishedOffers /\ OfferOf(chain, offers[o])
  BY <1>1, PublishedType DEF TradeInv, MarketInv, TypeOK, OffersKept
<1>3. comm \in Commissions
  BY ArgumentsAssumption, NoCommissionType DEF KnownCommissions
<1>4. PICK m \in ChainUtxos(chain), wanted \in Wanted :
         m = offers[o].utxo /\ wanted = offers[o].wanted
  <2>1. offers[o].utxo \in ChainUtxos(chain)
    BY <1>2 DEF OfferOf, ChainUtxos, PublishedOffers, UtxoRecords
  <2> QED BY <1>2, <2>1 DEF PublishedOffers
<1>5. tx.outs = SwapOuts(m, g, p, wanted, comm, satoshis) /\ SwapChange(p, comm) >= 1
  BY <1>1, <1>4 DEF Bargain
<1>6. PICK outs : outs = tx.outs
  OBVIOUS
<1> HIDE DEF tx
<1>7. OutsAre(outs, m, g, p, wanted, comm, satoshis)
  BY <1>1, <1>2, <1>3, <1>5, <1>6, SwapOutsParts
<1>8. NoTok \in AllAssets /\ AssetOf(m.out) \in AllAssets
  BY <1>2, KnownAsset DEF AllAssets
<1>9. wanted \in WantedInfos /\ wanted.tok \in AllAssets /\ m.out \in Outputs
  <2>1. wanted \in WantedInfos
    BY <1>2, <1>4 DEF OfferedByTrader
  <2> QED BY <2>1 DEF AllAssets, ChainUtxos, UtxoRecords
<1> HIDE DEF known
<1>10. known(1) /\ known(2)
  <2>1. AssetOf(outs[1]) \in {NoTok, wanted.tok}
    BY <1>7 DEF OutsAre, makerWantedOutput, P2pkhOut, StasOut, AssetOf
  <2>2. AssetOf(outs[2]) = AssetOf(m.out)
    BY <1>7, <1>9, OwnerReplaced DEF OutsAre, AssetOf
  <2> QED BY <1>6, <1>8, <1>9, <2>1, <2>2 DEF known
<1>11. \A pkh, amount : AssetOf(P2pkhOut(pkh, amount)) = NoTok
  BY DEF AssetOf, P2pkhOut
<1>12. CASE hasCommission(comm)
  <2>1. Len(outs) = 4 /\ AssetOf(outs[3]) = NoTok /\ AssetOf(outs[4]) = NoTok
    BY <1>7, <1>11, <1>12 DEF OutsAre
  <2>2. known(3) /\ known(4)
    BY <1>6, <1>8, <2>1 DEF known
  <2>3. DOMAIN outs = 1..4
    BY <1>7, <2>1, LenProperties DEF OutsAre
  <2>4. \A i \in DOMAIN tx.outs : known(i)
    BY <1>6, <1>10, <2>2, <2>3
  <2> QED BY <2>4 DEF known, tx
<1>13. CASE ~hasCommission(comm)
  <2>1. Len(outs) = 3 /\ AssetOf(outs[3]) = NoTok
    BY <1>7, <1>11, <1>13 DEF OutsAre
  <2>2. known(3)
    BY <1>6, <1>8, <2>1 DEF known
  <2>3. DOMAIN outs = 1..3
    BY <1>7, <2>1, LenProperties DEF OutsAre
  <2>4. \A i \in DOMAIN tx.outs : known(i)
    BY <1>6, <1>10, <2>2, <2>3
  <2> QED BY <2>4 DEF known, tx
<1> QED BY <1>12, <1>13

LEMMA NextKeepsTrades == TradeInv /\ [Next]_vars => TradeInv'
<1> SUFFICES ASSUME TradeInv, [Next]_vars PROVE TradeInv'
  OBVIOUS
<1>1. MarketInv' /\ MarketInv /\ TypeOK /\ chain \in Seq(Txs)
  BY NextKeepsInv DEF TradeInv, MarketInv, TypeOK
<1>2. CASE UNCHANGED vars
  BY <1>1, <1>2 DEF vars, TradeInv
<1>3. CASE \E o \in Offers : CreateSwapOffer(o) \/ CreateUnsignedSwapOffer(o)
  BY <1>1, <1>3, CreateKeepsTrades
<1>4. CASE \E t \in Takes : Answer(t)
  BY <1>1, <1>4, AcceptsKeepTrades, AllInOneKeepsTrades DEF Answer
<1>5. ASSUME NEW t \in Takes, Finish(t) PROVE TradeInv'
  <2>1. CASE MakerDeclines(t) \/ BroadcastRefused(t)
    <3>1. Hold(t, "idle", NoSwap)
      BY <2>1 DEF MakerDeclines, BroadcastRefused
    <3> QED BY <1>1, <3>1, HoldKeepsTrades
  <2>2. CASE BroadcastAccepted(t)
    <3>1. PICK entry \in Txs :
             /\ entry = [ins |-> takes[t].tx.ins, outs |-> takes[t].tx.outs]
             /\ chain' = Append(chain, entry)
             /\ InsOf(entry) \subseteq Unspent(chain)
             /\ offers' = offers /\ takes' = [takes EXCEPT ![t] = IdleTake]
      BY <1>1, <2>2, AcceptedSpends
    <3>2. entry.outs = takes[t].tx.outs /\ InsOf(entry) \subseteq Created(chain)
      BY <3>1 DEF Unspent
    <3>3. \A i \in DOMAIN entry.outs : AssetOf(entry.outs[i]) \in AllAssets
      BY <2>2, <3>2, ConfirmedAssets
    <3> QED BY <1>1, <3>1, <3>2, <3>3, ConfirmKeepsTrades
  <2>3. CASE MakerSigns(t)
    BY <1>1, <2>3, SignsKeepTrades
  <2> QED BY <1>5, <2>1, <2>2, <2>3 DEF Finish
<1>6. CASE Withdraw
  <2>1. PICK u, out, tx :
            /\ u \in ChainUtxos(chain) /\ out \in Outputs
            /\ u.op \in Unspent(chain) /\ tx.ins = <<u.op>> /\ tx.outs = <<out>>
            /\ AssetOf(out) = AssetOf(u.out) /\ out.satoshis = u.out.satoshis
            /\ chain' = Confirmed(chain, tx) /\ offers' = offers /\ takes' = takes
    BY <1>1, <1>6, WithdrawSpends
  <2>2. PICK entry \in Txs : /\ entry = [ins |-> tx.ins, outs |-> tx.outs]
                            /\ InsOf(entry) = {u.op}
    BY <1>1, <2>1, SingleEntry
  <2>3. InsOf(entry) \subseteq Created(chain) /\ chain' = Append(chain, entry)
    BY <2>1, <2>2 DEF Unspent, Confirmed
  <2>4. \A i \in DOMAIN entry.outs : AssetOf(entry.outs[i]) \in AllAssets
    <3>1. AssetOf(out) \in AllAssets
      BY <1>1, <2>1, KnownAsset DEF TradeInv
    <3>2. entry.outs = <<out>> /\ DOMAIN <<out>> = {1} /\ <<out>>[1] = out
      BY <2>1, <2>2
    <3> QED BY <3>1, <3>2
  <2> QED BY <1>1, <2>1, <2>3, <2>4, ConfirmKeepsTrades
<1> QED BY <1>1, <1>2, <1>3, <1>4, <1>5, <1>6 DEF Next

\* Everything confirmed spends what was created, and every answer under way
\* binds what its offer's maker wanted to what he gives, with nobody who trades
\* paying the fee.
LEMMA TradesKept == Spec => []TradeInv
  BY InitTrades, NextKeepsTrades, PTL DEF Spec

-----------------------------------------------------------------------------
(* The abstract state *)

Book == [o \in OpenOffers |-> TermsOf(offers[o])]

LEMMA BalanceIsPurses ==
  /\ Balance = [k \in Keys |-> [a \in AllAssets |-> Holds(chain, k, a)]]
  /\ Balance' = [k \in Keys |-> [a \in AllAssets |-> Holds(chain', k, a)]]
<1> DEFINE of(k, a) == {op \in Unspent(chain) : /\ ChainOutput(op).pkh = k
                                               /\ AssetOf(ChainOutput(op)) = a}
           sum(k, a) == MapThenSumSet(LAMBDA op : ChainOutput(op).satoshis, of(k, a))
<1>1. ASSUME NEW k, NEW a PROVE sum(k, a) = Holds(chain, k, a)
  <2>1. of(k, a) = HeldBy(chain, Unspent(chain), k, a)
    BY DEF HeldBy, ChainOutput, OutputOf
  <2> HIDE DEF of
  <2> QED BY <2>1, Zenon DEF Holds, Purse, Total, MapThenSumSet, MapThenFoldSet,
          ChainOutput, OutputOf
<1>2. ASSUME NEW k, NEW a PROVE sum(k, a)' = Holds(chain', k, a)
  <2>1. of(k, a)' = HeldBy(chain', Unspent(chain'), k, a)
    BY DEF HeldBy, ChainOutput, OutputOf
  <2> HIDE DEF of
  <2> QED BY <2>1, Zenon DEF Holds, Purse, Total, MapThenSumSet, MapThenFoldSet,
          ChainOutput, OutputOf
<1>3. Balance = [k \in Keys |-> [a \in AllAssets |-> sum(k, a)]]
  BY DEF Balance
<1>4. Balance' = [k \in Keys |-> [a \in AllAssets |-> sum(k, a)']]
  BY DEF Balance, AllAssets
<1> HIDE DEF sum
<1> QED BY <1>1, <1>2, <1>3, <1>4

\* What the abstract steps look at.
LEMMA BookIs ==
  ASSUME TypeOK
  PROVE  /\ DOMAIN Book = OpenOffers /\ DOMAIN Book' = OpenOffers'
         /\ \A o \in OpenOffers : Book[o] = TermsOf(offers[o])
         /\ \A o \in OpenOffers' : Book'[o] = TermsOf(offers'[o])
  BY DEF Book

LEMMA ExchangeStays ==
  ASSUME chain' = chain, offers' = offers
  PROVE  UNCHANGED Bargains!exchangeVars
<1>1. Balance' = Balance
  BY BalanceIsPurses
<1>2. OpenOffers' = OpenOffers
  BY DEF OpenOffers
<1>3. Book' = Book
  BY <1>2 DEF Book
<1> QED BY <1>1, <1>3 DEF Bargains!exchangeVars, Book

\* Publishing opens an offer.
LEMMA PostMaps ==
  ASSUME TypeOK, NEW o \in Offers, offers[o].phase = "none", NEW offer,
         offer.phase # "none", offer.utxo.op \in Unspent(chain),
         offers' = [offers EXCEPT ![o] = offer], chain' = chain
  PROVE  Bargains!Post(o)
<1>1. Balance' = Balance
  BY BalanceIsPurses
<1>2. \A q \in Offers : offers'[q] = IF q = o THEN offer ELSE offers[q]
  BY DEF TypeOK
<1>3. OpenOffers' = OpenOffers \cup {o} /\ o \notin OpenOffers
  BY <1>2 DEF OpenOffers
<1>4. \A q \in OpenOffers : Book'[q] = Book[q]
  BY <1>2, <1>3 DEF Book, OpenOffers
<1>5. Book = Restrict(Book', OpenOffers)
  BY <1>4 DEF Book, Restrict
<1>6. DOMAIN Book = OpenOffers /\ DOMAIN Book' = OpenOffers'
  BY BookIs
<1> QED BY <1>1, <1>3, <1>5, <1>6, Zenon DEF Bargains!Post, Book, Restrict, Bargains!Restrict

\* A confirmed transaction closes the offers whose output it spends.
LEMMA SpendingCloses ==
  ASSUME TradeInv, NEW entry \in Txs, chain' = Append(chain, entry),
         InsOf(entry) \subseteq Unspent(chain), offers' = offers
  PROVE  /\ OpenOffers' = {o \in OpenOffers : offers[o].utxo.op \notin InsOf(entry)}
         /\ DOMAIN Book = OpenOffers /\ DOMAIN Book' = OpenOffers'
         /\ Book' = Restrict(Book, DOMAIN Book')
<1>1. /\ chain \in Seq(Txs) /\ SpendsCreated(chain) /\ TypeOK
      /\ InsOf(entry) \subseteq Created(chain)
  BY DEF TradeInv, MarketInv, TypeOK, Unspent
<1>2. /\ Unspent(chain') = (Unspent(chain) \ InsOf(entry)) \cup NewOps(chain, entry)
      /\ NewOps(chain, entry) \cap Created(chain) = {}
  BY <1>1, AppendUnspent
<1>3. \A o \in Offers : offers[o].phase # "none" => offers[o].utxo.op \in Created(chain)
  BY DEF TradeInv, MarketInv, OffersKept, OfferOf
<1>4. OpenOffers' = {o \in OpenOffers : offers[o].utxo.op \notin InsOf(entry)}
  BY <1>2, <1>3 DEF OpenOffers
<1>5. DOMAIN Book = OpenOffers /\ DOMAIN Book' = OpenOffers'
  BY <1>1, BookIs
<1>6. Book' = [o \in OpenOffers' |-> Book[o]]
  BY <1>4 DEF Book
<1> QED BY <1>4, <1>5, <1>6 DEF Restrict

\* Both forms of an offer are posts.
LEMMA CreateMaps ==
  ASSUME TypeOK, NEW o \in Offers, CreateSwapOffer(o) \/ CreateUnsignedSwapOffer(o)
  PROVE  Bargains!Post(o)
<1>1. PICK u, wanted, phase, tx :
         /\ u \in Tradeable /\ wanted \in WantedInfos /\ phase \in {"signed", "unsigned"}
         /\ offers[o].phase = "none"
         /\ Publish(o, phase, u, wanted, tx)
  BY DEF CreateSwapOffer, CreateUnsignedSwapOffer
<1> DEFINE offer == [phase |-> phase, utxo |-> u, wanted |-> wanted, tx |-> tx]
<1>2. offers' = [offers EXCEPT ![o] = offer] /\ chain' = chain
  BY <1>1 DEF Publish
<1>3. offer.phase # "none" /\ offer.utxo.op \in Unspent(chain)
  BY <1>1 DEF Tradeable, UnspentUtxos, Utxo
<1> HIDE DEF offer
<1> QED BY <1>1, <1>2, <1>3, PostMaps

LEMMA AllInOneMaps ==
  ASSUME TypeOK, NEW t \in Takes, AllInOneSwap(t)
  PROVE  \E o \in Offers : Bargains!Post(o)
<1>1. PICK o \in Offers, u1, u2 \in Tradeable, wanted \in WantedInfos :
         \E pay \in Payments({u1.op, u2.op}) :
           /\ MayTake(t)
           /\ offers[o].phase = "none"
           /\ u1.out.kind = "stas" /\ u2.out.kind = "stas"
           /\ u1.out.pkh # u2.out.pkh
           /\ ProperTakers => ProperOffer(u1, wanted) /\ Carries(u2.out, wanted)
           /\ allInOneSwapGuards(u1, wanted, u2, u1.out.satoshis, pay)
           /\ offers' = [offers EXCEPT ![o] =
                [phase |-> "agreed", utxo |-> u1, wanted |-> wanted,
                 tx |-> createUnsignedSwapOffer(u1, wanted)]]
           /\ takes' = [takes EXCEPT ![t] =
                [phase |-> "returned",
                 tx |-> allInOneSwap(u1, wanted, u2, u1.out.satoshis, pay)]]
           /\ UNCHANGED chain
  BY Zenon DEF AllInOneSwap
<1> DEFINE offer == [phase |-> "agreed", utxo |-> u1, wanted |-> wanted,
                     tx |-> createUnsignedSwapOffer(u1, wanted)]
<1>2. /\ offers[o].phase = "none" /\ offers' = [offers EXCEPT ![o] = offer]
      /\ chain' = chain
  BY <1>1
<1>3. offer.phase # "none" /\ offer.utxo.op \in Unspent(chain)
  BY <1>1 DEF Tradeable, UnspentUtxos, Utxo
<1> HIDE DEF offer
<1> QED BY <1>2, <1>3, PostMaps

\* What the covenants let pass is what the exchange lets takers give.
LEMMA GivenInstead ==
  ASSUME NEW offer, NEW g, AssetOf(g.out) \in AllAssets,
         AssetOf(g.out) = WantOf(offer) \/ (~ProperTakers /\ Instead(offer, g))
  PROVE  AssetOf(g.out) \in Bargains!GivenFor(TermsOf(offer))
<1> DEFINE given == AssetOf(g.out)
           terms == TermsOf(offer)
           issuer == [a \in AllAssets \ {NoTok} |-> a.red]
<1>1. /\ terms.maker = offer.utxo.out.pkh /\ terms.want = WantOf(offer)
      /\ terms.give = AssetOf(offer.utxo.out)
  BY DEF TermsOf, WantOf
<1>2. given # NoTok => given = g.out.tok
  BY DEF AssetOf
<1> HIDE DEF given, terms
<1>3. given \in AllAssets /\ (given = terms.want \/ (~ProperTakers /\ Instead(offer, g)))
  BY <1>1 DEF given
<1>4. Instead(offer, g) =>
         \/ terms.give = NoTok /\ terms.want # NoTok /\ given = NoTok
         \/ terms.want = NoTok /\ given # NoTok /\ issuer[given] = terms.maker
  BY <1>1, <1>2, <1>3 DEF Instead, given
<1> QED BY <1>3, <1>4 DEF Bargains!GivenFor, Bargains!Mistaken, given, terms

\* A swap that is confirmed carries out the offer it answers.
LEMMA TradeMaps ==
  ASSUME Payers \cap Traders = {}, \A comm \in CommissionInfos : comm.pkh \notin Traders,
         TradeInv, NEW t \in Takes, BroadcastAccepted(t)
  PROVE  \E o \in Offers : Bargains!Trade(o)
<1> DEFINE tx == takes[t].tx
<1>1. /\ takes[t].phase # "idle" /\ SwapAccepted(chain, tx)
      /\ chain' = Confirmed(chain, tx) /\ TypeOK
  BY DEF BroadcastAccepted, Confirmed, TradeInv, MarketInv
<1>2. PICK o \in Offers, g, p \in ChainUtxos(chain), comm \in KnownCommissions,
           satoshis \in Nat :
         offers[o].phase # "none" /\ Bargain(offers[o], tx, g, p, comm, satoshis)
  BY <1>1, Zenon DEF TradeInv, TradeTake
<1> DEFINE offer == offers[o]
           maker == offer.utxo.out.pkh
           taker == g.out.pkh
           payer == p.out.pkh
<1>3. comm \in Commissions /\ comm.pkh \notin Traders
  <2>1. NoKey \notin Traders
    BY NoKeyAssumption, ArgumentsAssumption
  <2> QED BY <2>1, ArgumentsAssumption, NoCommissionType
          DEF KnownCommissions, NoCommission
<1>4. /\ chain \in Seq(Txs) /\ SpendsCreated(chain) /\ tx \in SwapTxs
      /\ offer \in PublishedOffers /\ OfferOf(chain, offer) /\ OfferedByTrader(offer)
  BY <1>1, <1>2, PublishedType DEF TradeInv, MarketInv, TypeOK, OffersKept
<1>5. AcceptedBargain(chain, offer, tx, g, p, comm, satoshis)
  BY <1>1, <1>2, <1>3, <1>4 DEF AcceptedBargain
<1>6. /\ offer.utxo.op \in Unspent(chain) /\ tx.ins[1] = offer.utxo.op
      /\ DOMAIN tx.ins = 1..3
      /\ offer.utxo.out \in Outputs /\ g.out \in Outputs /\ p.out \in Outputs
  BY <1>5, BargainTypes
<1>7. PICK entry \in Txs : /\ entry = [ins |-> tx.ins, outs |-> tx.outs]
                          /\ chain' = Append(chain, entry)
                          /\ InsOf(entry) \subseteq Unspent(chain)
                          /\ offers' = offers
  BY <1>1, AcceptedSpends
<1>8. /\ OpenOffers' = {q \in OpenOffers : offers[q].utxo.op \notin InsOf(entry)}
      /\ DOMAIN Book = OpenOffers /\ DOMAIN Book' = OpenOffers'
      /\ Book' = Restrict(Book, DOMAIN Book')
  BY <1>7, SpendingCloses
<1>9. o \in OpenOffers /\ o \notin OpenOffers' /\ OpenOffers' \subseteq OpenOffers \ {o}
  <2>1. offers[o].utxo.op \in InsOf(entry)
    BY <1>6, <1>7 DEF InsOf
  <2>2. o \in OpenOffers
    BY <1>2, <1>6 DEF OpenOffers
  <2> QED BY <1>8, <2>1, <2>2
<1>10. maker \in Keys /\ taker \in Keys /\ payer \in Keys /\ taker # maker
  BY <1>2, <1>6 DEF Outputs, Bargain
<1>11. /\ Book[o] = TermsOf(offer) /\ TermsOf(offer).maker = maker
       /\ \A a : /\ Bargains!Gain(TermsOf(offer), a) = MakerGain(offer, a)
                 /\ Bargains!TakerGain(TermsOf(offer), AssetOf(g.out), a)
                      = TakerNet(offer, AssetOf(g.out), a)
       /\ AssetOf(g.out) \in Bargains!GivenFor(TermsOf(offer))
  <2>1. Book[o] = TermsOf(offer) /\ TermsOf(offer).maker = maker
    BY <1>1, <1>9, BookIs DEF TermsOf
  <2>2. \A a : /\ Bargains!Gain(TermsOf(offer), a) = MakerGain(offer, a)
               /\ Bargains!TakerGain(TermsOf(offer), AssetOf(g.out), a)
                    = TakerNet(offer, AssetOf(g.out), a)
    BY DEF TermsOf, Bargains!Gain, Bargains!TakerGain, Bargains!Net,
       MakerGain, TakerNet, WantOf
  <2>3. AssetOf(g.out) \in AllAssets
    BY <1>2, <1>4, KnownAsset DEF TradeInv
  <2>4. AssetOf(g.out) = WantOf(offer) \/ (~ProperTakers /\ Instead(offer, g))
    BY <1>5, WhatIsGiven
  <2>5. AssetOf(g.out) \in Bargains!GivenFor(TermsOf(offer))
    BY <2>3, <2>4, GivenInstead
  <2> QED BY <2>1, <2>2, <2>5
<1> DEFINE before == Balance
           after == Balance'
<1>12. \A k \in Keys, a \in AllAssets : /\ before[k][a] = Holds(chain, k, a)
                                        /\ after[k][a] = Holds(chain', k, a)
  BY BalanceIsPurses
<1> HIDE DEF before, after, tx, offer, maker, taker, payer
<1>13. ASSUME NEW a
       PROVE  /\ Holds(chain', maker, a) = Holds(chain, maker, a) + MakerGain(offer, a)
              /\ a # NoTok =>
                   Holds(chain', taker, a)
                     = Holds(chain, taker, a) + TakerNet(offer, AssetOf(g.out), a)
              /\ \A k : k # maker /\ k # taker =>
                    /\ a # NoTok => Holds(chain', k, a) = Holds(chain, k, a)
                    /\ k # payer => Holds(chain', k, a) >= Holds(chain, k, a)
  BY <1>1, <1>5, BargainAmounts DEF maker, taker, payer
<1>14. NoTok \in AllAssets
  BY DEF AllAssets
<1>15. /\ \A a \in AllAssets : after[maker][a] = before[maker][a] + MakerGain(offer, a)
       /\ \A a \in AllAssets \ {NoTok} :
             after[taker][a] = before[taker][a] + TakerNet(offer, AssetOf(g.out), a)
       /\ \A k \in Keys \ {maker, taker} :
             /\ \A a \in AllAssets \ {NoTok} : after[k][a] = before[k][a]
             /\ k # payer => after[k][NoTok] >= before[k][NoTok]
  BY <1>10, <1>12, <1>13, <1>14
<1>16. /\ o \in DOMAIN Book /\ DOMAIN Book' \subseteq DOMAIN Book \ {o}
       /\ Book' = Restrict(Book, DOMAIN Book')
  BY <1>8, <1>9
<1>17. \E k \in Keys \ {Book[o].maker}, q \in Keys, given \in Bargains!GivenFor(Book[o]) :
         /\ \A a \in AllAssets :
               after[Book[o].maker][a] = before[Book[o].maker][a] + Bargains!Gain(Book[o], a)
         /\ \A a \in AllAssets \ {NoTok} :
               after[k][a] = before[k][a] + Bargains!TakerGain(Book[o], given, a)
         /\ \A other \in Keys \ {Book[o].maker, k} :
               /\ \A a \in AllAssets \ {NoTok} : after[other][a] = before[other][a]
               /\ other # q => after[other][NoTok] >= before[other][NoTok]
  BY <1>10, <1>11, <1>15
<1>18. Bargains!Trade(o)
  BY <1>16, <1>17, Zenon DEF Bargains!Trade, Bargains!OnlyCloses, Bargains!TokenAssets,
     Bargains!Restrict, Restrict, Book, before, after
<1> QED BY <1>18

\* The exchange's own sum is the library's.
LEMMA ExchangeSum ==
  ASSUME NEW w
  PROVE  Bargains!SumFunction(w) = SumFunction(w)
  BY Zenon DEF SumFunction, SumFunctionOnSet, FoldFunction, FoldFunctionOnSet,
               Bargains!SumFunction, Bargains!SumFunctionOnSet, Bargains!FoldFunctionOnSet,
               MapThenFoldSet, Bargains!MapThenFoldSet

\* An owner who spends what he may have offered gives it away.
LEMMA MoveMaps ==
  ASSUME IsFiniteSet(Keys), TradeInv, Withdraw
  PROVE  \E k \in Keys : Bargains!Move(k)
<1>1. chain \in Seq(Txs) /\ SpendsCreated(chain) /\ TypeOK
  BY DEF TradeInv, MarketInv, TypeOK
<1>2. PICK u, out, tx :
          /\ u \in ChainUtxos(chain) /\ out \in Outputs
          /\ u.op \in Unspent(chain) /\ tx.ins = <<u.op>> /\ tx.outs = <<out>>
          /\ AssetOf(out) = AssetOf(u.out) /\ out.satoshis = u.out.satoshis
          /\ chain' = Confirmed(chain, tx) /\ offers' = offers /\ takes' = takes
  BY <1>1, WithdrawSpends
<1>3. PICK entry \in Txs : /\ entry = [ins |-> tx.ins, outs |-> tx.outs]
                          /\ InsOf(entry) = {u.op}
  BY <1>1, <1>2, SingleEntry
<1>4. /\ OpenOffers' = {q \in OpenOffers : offers[q].utxo.op \notin InsOf(entry)}
      /\ DOMAIN Book = OpenOffers /\ DOMAIN Book' = OpenOffers'
      /\ Book' = Restrict(Book, DOMAIN Book')
  <2>1. chain' = Append(chain, entry) /\ InsOf(entry) \subseteq Unspent(chain)
    BY <1>2, <1>3 DEF Confirmed
  <2> QED BY <1>2, <2>1, SpendingCloses
<1> DEFINE k == u.out.pkh
<1>5. k \in Keys /\ u.out = OutputOf(chain, u.op)
  BY <1>2 DEF ChainUtxos, UtxoRecords, Outputs
<1>6. \A o \in OpenOffers \ OpenOffers' : Book[o].maker = k
  <2> SUFFICES ASSUME NEW o \in OpenOffers, o \notin OpenOffers' PROVE Book[o].maker = k
    OBVIOUS
  <2>1. offers[o].utxo.op = u.op /\ offers[o].phase # "none" /\ o \in Offers
    BY <1>3, <1>4 DEF OpenOffers
  <2>2. offers[o].utxo.out = u.out
    BY <1>5, <2>1 DEF TradeInv, MarketInv, OffersKept, OfferOf
  <2>3. Book[o] = TermsOf(offers[o])
    BY <1>1, BookIs
  <2> QED BY <2>2, <2>3 DEF TermsOf
<1> DEFINE before == Balance
           after == Balance'
<1>7. /\ before = [q \in Keys |-> [a \in AllAssets |-> Holds(chain, q, a)]]
      /\ after = [q \in Keys |-> [a \in AllAssets |-> Holds(chain', q, a)]]
  BY BalanceIsPurses
<1> HIDE DEF before, after, k
<1>8. ASSUME NEW a
      PROVE  /\ \A q : q # k => Holds(chain', q, a) >= Holds(chain, q, a)
             /\ Together(chain', a) = Together(chain, a)
  BY <1>1, <1>2, MoveAmounts DEF k
<1>9. \A q \in Keys \ {k}, a \in AllAssets : after[q][a] >= before[q][a]
  BY <1>7, <1>8
<1>10. \A a \in AllAssets \ {NoTok} :
         SumFunction([q \in Keys |-> after[q][a]]) = SumFunction([q \in Keys |-> before[q][a]])
  <2> SUFFICES ASSUME NEW a \in AllAssets
               PROVE  SumFunction([q \in Keys |-> after[q][a]])
                        = SumFunction([q \in Keys |-> before[q][a]])
    OBVIOUS
  <2>1. /\ [q \in Keys |-> after[q][a]] = [q \in Keys |-> Holds(chain', q, a)]
        /\ [q \in Keys |-> before[q][a]] = [q \in Keys |-> Holds(chain, q, a)]
    BY <1>7
  <2> QED BY <1>8, <2>1 DEF Together
<1>11. \A a \in AllAssets \ {NoTok} :
         Bargains!SumFunction([q \in Keys |-> after[q][a]])
           = Bargains!SumFunction([q \in Keys |-> before[q][a]])
  BY <1>10, ExchangeSum
<1>12. Bargains!Move(k)
  BY <1>4, <1>6, <1>9, <1>11, Zenon DEF Bargains!Move, Bargains!OnlyCloses,
     Bargains!TokenAssets, Bargains!Restrict, Restrict, Book, before, after
<1> QED BY <1>5, <1>12 DEF k

-----------------------------------------------------------------------------
(* The refinement *)

LEMMA InitExchange == Init => Bargains!ExchangeInit
<1> SUFFICES ASSUME Init PROVE Bargains!ExchangeInit
  OBVIOUS
<1>1. chain \in Seq(Txs)
  BY InitInv DEF MarketInv, TypeOK
<1>2. \A k \in Keys, a \in AllAssets : Holds(chain, k, a) \in Nat
  <2>1. IsFiniteSet(Unspent(chain)) /\ \A op \in Unspent(chain) : Amount(chain, op) \in Nat
    BY <1>1, CreatedIsFinite, FS_Subset DEF Unspent
  <2> QED BY <2>1, PurseType DEF Holds
<1>3. Balance \in [Keys -> [AllAssets -> Nat]]
  BY <1>2, BalanceIsPurses
<1>4. OpenOffers = {}
  BY DEF Init, OpenOffers, NoOffer
<1>5. Book = <<>>
  BY <1>4 DEF Book
<1> QED BY <1>3, <1>5 DEF Bargains!ExchangeInit, Book

LEMMA NextExchange ==
  ASSUME IsFiniteSet(Keys), Payers \cap Traders = {},
         \A comm \in CommissionInfos : comm.pkh \notin Traders,
         TradeInv, [Next]_vars
  PROVE  [Bargains!ExchangeNext]_Bargains!exchangeVars
<1>0. TypeOK
  BY DEF TradeInv, MarketInv
<1>1. ASSUME chain' = chain, offers' = offers
      PROVE  UNCHANGED Bargains!exchangeVars
  BY <1>1, ExchangeStays
<1>2. CASE UNCHANGED vars
  BY <1>1, <1>2 DEF vars
<1>3. CASE \E o \in Offers : CreateSwapOffer(o) \/ CreateUnsignedSwapOffer(o)
  BY <1>0, <1>3, CreateMaps DEF Bargains!ExchangeNext
<1>4. ASSUME NEW t \in Takes, AllInOneSwap(t) PROVE Bargains!ExchangeNext
  BY <1>0, <1>4, AllInOneMaps DEF Bargains!ExchangeNext
<1>5. ASSUME NEW t \in Takes, BroadcastAccepted(t) PROVE Bargains!ExchangeNext
  BY <1>5, TradeMaps DEF Bargains!ExchangeNext
<1>6. CASE Withdraw
  BY <1>6, MoveMaps DEF Bargains!ExchangeNext
<1>7. ASSUME NEW t \in Takes,
             \/ AcceptSwapOffer(t) \/ AcceptUnsignedSwapOffer(t)
             \/ AcceptUnsignedNativeSwapOffer(t) \/ MakerSigns(t) \/ MakerDeclines(t)
             \/ BroadcastRefused(t)
      PROVE  chain' = chain /\ offers' = offers
  BY <1>7 DEF AcceptSwapOffer, AcceptUnsignedSwapOffer, AcceptUnsignedNativeSwapOffer,
     MakerSigns, MakerDeclines, BroadcastRefused, Hold
<1> QED BY <1>1, <1>2, <1>3, <1>4, <1>5, <1>6, <1>7 DEF Next, Answer, Finish

\* Whatever makers, takers and owners do, in any order, and whatever takers give,
\* the market does only what the exchange allows: a maker gives only for what he
\* wanted, exactly, and once per offer, and bystanders lose nothing (swap.js), as
\* long as those who trade neither pay the fees nor earn the commissions.  With
\* proper takers tokens only change hands.  Nothing in swap.js compares what a
\* taker gives with what is wanted, and with careless ones the exchange allows just
\* two things more: a token is redeemed with its issuer, and plain satoshis given
\* for plain satoshis come out as a token.
THEOREM ExchangeImplemented ==
  ASSUME IsFiniteSet(Keys), Payers \cap Traders = {},
         \A comm \in CommissionInfos : comm.pkh \notin Traders
  PROVE  Spec => ImplementsExchange
<1>1. Init => Bargains!ExchangeInit
  BY InitExchange
<1>2. TradeInv /\ [Next]_vars => [Bargains!ExchangeNext]_Bargains!exchangeVars
  BY NextExchange
<1> QED BY <1>1, <1>2, TradesKept, PTL DEF Spec, ImplementsExchange, Bargains!ExchangeSpec

=============================================================================
