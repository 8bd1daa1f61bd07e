----------------------------- MODULE MCStanding -----------------------------
(***************************************************************************)
(* Two wallets, one of them with its address written in two ways, and a    *)
(* content with a derivative of the other wallet, for TLC.                 *)
(***************************************************************************)
EXTENDS Standing

CONSTANTS h, k, alice, bob, Alice1, Alice2, Bob1

MCHash == {h, k}
MCParent == [x \in MCHash |-> IF x = k THEN h ELSE NoHash]
MCAddress == {Alice1, Alice2, Bob1}
MCWalletOf == [a \in MCAddress |-> IF a = Bob1 THEN bob ELSE alice]
MCCreator == [x \in MCHash |-> IF x = k THEN Bob1 ELSE Alice1]
=============================================================================
