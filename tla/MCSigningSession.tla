-------------------------- MODULE MCSigningSession --------------------------
(* Instances of SigningSession for TLC. *)
EXTENDS SigningSession

\* The issuer, two holders, the key that pays fees.
CONSTANTS I, A, B, F, sym, plain, s1, s2

Interchangeable == Permutations(Sessions)

Apples == [red |-> I, symbol |-> sym, isSplittable |-> TRUE, data |-> plain]

ContractOut(n) == [kind |-> "contract", pkh |-> I, tok |-> Apples, satoshis |-> n]

\* Everything the eight operations start from.
AllOperations == <<<<P2pkhOut(F, 3), P2pkhOut(I, 2)>>, <<ContractOut(2)>>,
                   <<StasOut(A, Apples, 1), StasOut(A, Apples, 2)>>>>

SomeIssues == {<<[addr |-> A, satoshis |-> 2, data |-> plain]>>}
SomeDests == {<<Segment(B, 1)>>, <<Segment(B, 1), Segment(A, 1)>>,
              <<Segment(A, 2), Segment(B, 1)>>}
FewDests == {<<Segment(F, 1)>>, <<Segment(A, 2), Segment(F, 1)>>}

\* The hypothesis of the theorem AcceptedOnceSigned holds of these instances.
ASSUME ArgumentsAreProper == ProperArguments
=============================================================================
