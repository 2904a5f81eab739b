----------------------------- MODULE TokenSupply -----------------------------
(***************************************************************************)
(* What the library promises about a token, without transactions: backing  *)
(* satoshis become a supply once, the supply moves between holders with    *)
(* the consent of one of them, and it leaves only by being redeemed.       *)
(***************************************************************************)
EXTENDS Integers, Functions

CONSTANTS Keys, Tokens, Backings

VARIABLES
    backing,    \* satoshis in contracts, by redemption key and symbol
    balance,    \* token satoshis by token and holder
    redeemed    \* token satoshis turned back into plain satoshis

supplyVars == <<backing, balance, redeemed>>

SupplyInit ==
    /\ backing = [b \in Backings |-> 0]
    /\ balance = [t \in Tokens |-> [k \in Keys |-> 0]]
    /\ redeemed = [t \in Tokens |-> 0]

BackingOf(t) == [red |-> t.red, symbol |-> t.symbol]

Total(bal) == SumFunction(bal)

Minted(before, after, b) ==
    SumFunction([t \in {s \in Tokens : BackingOf(s) = b} |->
                    Total(after[t]) - Total(before[t])])

\* contract(): satoshis are put behind a symbol.
Back ==
    /\ LET before == backing  after == backing'
       IN \E b \in Backings :
              /\ after[b] > before[b]
              /\ \A o \in Backings \ {b} : after[o] = before[o]
    /\ UNCHANGED <<balance, redeemed>>

\* issue(): what leaves the contract is minted, satoshi for satoshi.
Mint ==
    /\ LET before == balance  after == balance'
           was == backing  is == backing'
       IN \E b \in Backings :
              /\ is[b] < was[b]
              /\ Minted(before, after, b) = was[b] - is[b]
              /\ \A o \in Backings \ {b} :
                    is[o] = was[o] /\ Minted(before, after, o) = 0
              /\ \A t \in Tokens, k \in Keys : after[t][k] >= before[t][k]
    /\ UNCHANGED redeemed

\* Every other operation: one token, one holder who gives, nothing created;
\* what the balances lose has been redeemed.
MoveOrRedeem ==
    /\ LET before == balance  after == balance'
           was == redeemed  is == redeemed'
       IN \E t \in Tokens, giver \in Keys :
              /\ \A k \in Keys \ {giver} : after[t][k] >= before[t][k]
              /\ is[t] >= was[t]
              /\ Total(after[t]) + is[t] = Total(before[t]) + was[t]
              /\ \A s \in Tokens \ {t} : after[s] = before[s] /\ is[s] = was[s]
    /\ UNCHANGED backing

SupplyNext == Back \/ Mint \/ MoveOrRedeem

SupplySpec == SupplyInit /\ [][SupplyNext]_supplyVars

=============================================================================
