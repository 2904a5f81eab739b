---------------------------- MODULE SwapDocClaims ----------------------------
(* What a test says of swaps and the code does not do. *)
EXTENDS MCSwapMarket

\* test/functional_test/function_tests/swap_fewerSatsThanOfferedUTXO_test.js:50:
\* "Swap - 2 step token-p2pkh swap with fewer sats requested than offered UTXO"
\* is expected to be confirmed; :48 "Swap With Fewer sats than in offered utxo".
FewerSatsSwapAccepted ==
    \A t \in Takes :
        LET tx == takes[t].tx
        IN (/\ takes[t].phase = "returned"
            /\ ChainOutput(tx.ins[1]).kind = "stas"
            /\ ChainOutput(tx.ins[2]).kind = "p2pkh"
            /\ tx.outs[1].kind = "p2pkh"
            /\ tx.outs[1].satoshis <= ChainOutput(tx.ins[2]).satoshis
            /\ tx.outs[2].satoshis = ChainOutput(tx.ins[1]).satoshis
            /\ \A i \in 1..3 : tx.ins[i] \in Unspent(chain))
              => SwapAccepted(chain, tx)

=============================================================================
