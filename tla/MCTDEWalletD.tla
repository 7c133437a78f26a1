---------------------------- MODULE MCTDEWalletD ----------------------------
(* Instances of TDEWalletD for TLC.                                        *)
EXTENDS TDEWalletD, TLC

CONSTANTS kmail, konqueror, kmailName, konquerorName

\* kmail has its name alone; konqueror has a number at the end of its id
Names == kmail :> kmailName @@ konqueror :> konquerorName
AnySettings == [enabled : BOOLEAN, closeIdle : BOOLEAN]
=============================================================================
