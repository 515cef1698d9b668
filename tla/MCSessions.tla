----------------------------- MODULE MCSessions -----------------------------
(* Mixes of requests that meet: rotation against each kind of revocation,  *)
(* and right against wrong passwords.                                      *)
EXTENDS Sessions, TLC

MCWorkloads == {
  {"login", "refresh", "logout"},
  {"login", "refresh", "role"},
  {"login", "refresh", "logout all", "scope"},
  {"login", "refresh", "suspend", "activate"},
  {"login", "password", "delete", "restore"},
  {"login", "wrong"}}

Symmetry == Permutations(Txs)
=============================================================================
