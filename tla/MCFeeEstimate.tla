---------------------------- MODULE MCFeeEstimate ----------------------------
(* Instances of FeeEstimate for TLC: sizes on both sides of the boundaries of *)
(* the length encodings, the shortest and longest pushes.                     *)
EXTENDS FeeEstimate

\* The smallest script; one whose preimage needs the longest push.
FewScripts == {1436, 65378}
FewSchemas == {80, 300, 70000}
FewIssues == {1, 252}
FewAmounts == {1, 8}
FewVouts == {5}
SmallNatives == {226}
=============================================================================
