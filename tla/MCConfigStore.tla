--------------------------- MODULE MCConfigStore ---------------------------
(* Small instances of ConfigStore: two clients, two values of each         *)
(* section of the configuration.                                           *)
EXTENDS ConfigStore, TLC

CONSTANTS c1, c2, loud, soft, pd, sc
TwoClients == {c1, c2}
TwoRuleSets == {loud, soft}
TwoLists == {pd, sc}
Startup == [rules |-> loud, backends |-> pd]
Anyone == Permutations(Clients)
=============================================================================
