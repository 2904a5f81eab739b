---------------------------- MODULE MCTokenLedger ----------------------------
(* Instances of TokenLedger for TLC. *)
EXTENDS DocClaims

\* The issuer, two holders, the key that pays fees, two calls.
CONSTANTS I, A, B, F, sym, other, plain, c1, c2

\* Calls are alike; not used where liveness is checked.
Interchangeable == Permutations(Calls)

Dest(k, n) == Segment(k, n)
Info(k, n) == [addr |-> k, satoshis |-> n, data |-> plain]

\* All lists of up to n elements of a set.
Lists(S, n) == UNION {[1..m -> S] : m \in 1..n}

\* One output of the issuer, one of the payer.
FeeGenesis == <<P2pkhOut(I, 3), P2pkhOut(F, 2)>>

\* Two outputs of the issuer, so that two tokens can be issued.
TwoTokenGenesis == <<P2pkhOut(I, 3), P2pkhOut(I, 3)>>

\* Amounts around the three satoshis that are issued, also to the issuer.
SmallDestLists == Lists({Dest(k, n) : k \in {I, A, B}, n \in 1..2}, 2)

SmallIssueLists == {<<Info(A, 3)>>, <<Info(A, 1), Info(B, 2)>>,
                    <<Info(A, 1), Info(A, 2)>>, <<Info(I, 1), Info(A, 2)>>}

\* Amounts that need not add up to what is spent.
CarelessDestLists == {<<Dest(A, 1)>>, <<Dest(B, 2), Dest(A, 1)>>,
                      <<Dest(A, 1), Dest(I, 1), Dest(A, 2)>>}

CarelessIssueLists == {<<Info(A, 1), Info(A, 2)>>, <<Info(A, 1), Info(B, 1)>>}

\* Issues of four and five outputs, one holder, seven satoshis.
WideGenesis == <<P2pkhOut(I, 7)>>
WideIssueLists == {[k \in 1..n |-> Info(A, IF k = n THEN 8 - n ELSE 1)] : n \in {4, 5}}
WideDestLists == {<<Dest(A, 1), Dest(A, 1)>>,
                  <<Dest(A, 1), Dest(A, 1), Dest(A, 1), Dest(A, 1)>>}
=============================================================================
