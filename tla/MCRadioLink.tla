---------------------------- MODULE MCRadioLink ----------------------------
(* Instance of RadioLink for TLC, see link.cfg.                            *)
EXTENDS RadioLink, TLC

Perms == Permutations(Requests)

\* Bound: once requests have overlapped, only the first two clients are used.
FewClients == tangled' => client'[MaxClients] = "unused"

MCSpec == Init /\ [][Next /\ FewClients]_vars
=============================================================================
