---------------------------- MODULE MCDCOPServer ----------------------------
(* Instances of DCOPServer for TLC.                                        *)
EXTENDS DCOPServer, TLC

CONSTANTS c1, c2, c3, kate, kate2, kded

\* "kate", its second instance "kate-2", and an id of its own
KateNames == {kate, kate2, kded}
KateVariants ==
  kate :> <<kate, kate2>> @@ kate2 :> <<kate2>> @@ kded :> <<kded>>

\* ids without unification
TwoNames == {kate, kded}
PlainVariants == [n \in Name |-> <<n>>]

OneFit == Signal \X Slot
ConnSymmetry == Permutations(Conn)
=============================================================================
