------------------------------- MODULE MCVault ------------------------------
(* Four keys: the vault's, a leftover of the credential store, the next     *)
(* master key and the next random one; one removal at a time.               *)
EXTENDS VaultIdle, TLC

CONSTANTS k1, k2, k3, k4, c1

FourKeys == {k1, k2, k3, k4}
OneCall == {c1}

KeySymmetry == Permutations(Keys)
=============================================================================
