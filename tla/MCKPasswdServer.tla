--------------------------- MODULE MCKPasswdServer ---------------------------
(* Instances of KPasswdServer for TLC.                                      *)
EXTENDS KPasswdServer, TLC

CONSTANTS s1, s2, w1, w2, site, intranet, mail

I(r, d, path) == [key |-> site, realm |-> r, dir |-> d, user |-> NoUser, verifyPath |-> path]

\* Two realms of one site, one below the other, and a check by path before the
\* realm is known.
KnownRealms == {I(intranet, 0, FALSE), I(mail, 1, FALSE)}
TwoRealms == KnownRealms \union {I(mail, 1, TRUE)}

\* Each slave works for a window of its own.
OfTwoWindows == s1 :> w1 @@ s2 :> w2
=============================================================================
