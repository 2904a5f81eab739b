---------------------------- MODULE MCSwapMarket ----------------------------
(* Instances of SwapMarket for TLC. *)
EXTENDS SwapMarket

\* The issuer, a maker, a taker, one more trader, the key that pays fees, the
\* receiver of commissions.
CONSTANTS R, M, T, U, F, C, sym, other, plain, o1, o2, t1, t2

\* Offers are alike, and so are answers.
Interchangeable == Permutations(Offers) \cup Permutations(Takes)

Token(symbol, isSplittable) ==
    [red |-> R, symbol |-> symbol, isSplittable |-> isSplittable, data |-> plain]

Apples == Token(sym, TRUE)
Pears == Token(other, FALSE)

WantNative(n) == [type |-> "native", tok |-> NoTok, satoshis |-> n]
WantToken(tok, n) == [type |-> "token", tok |-> tok, satoshis |-> n]

CommissionOf(n) == [pkh |-> C, satoshis |-> n]
NoAddress(n) == [pkh |-> NoKey, satoshis |-> n]

\* Two tokens and ordinary satoshis in two hands; two payments.
TwoTokens == <<<<StasOut(M, Apples, 2)>>, <<StasOut(T, Pears, 3)>>,
               <<P2pkhOut(M, 2), P2pkhOut(T, 3), P2pkhOut(F, 3), P2pkhOut(F, 1)>>>>
TwoTokensWanted == {WantNative(3), WantToken(Pears, 3), WantToken(Apples, 2)}
CommissionWanted == TwoTokensWanted \cup {WantNative(2)}

\* Two traders can give what the third one wants, a token or ordinary satoshis;
\* some of it may be wanted, or all.  One of the two issued the token.
Shares == [Apples EXCEPT !.red = U]
ThreeTraders == <<<<StasOut(T, Shares, 2)>>,
                  <<P2pkhOut(M, 3), P2pkhOut(U, 3), P2pkhOut(F, 4)>>>>
ThreeTradersWanted == {WantNative(2), WantToken(Shares, 1), WantToken(Shares, 2)}

\* Commissions with and without an address, and none.
SmallCommissions == {NoCommission, CommissionOf(1), NoAddress(1)}
NoCommissions == {NoCommission}
=============================================================================
