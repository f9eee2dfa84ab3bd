-------------------------------- MODULE MCHub --------------------------------
(* Instances of HubConnections: one user's tabs.  Users share nothing but  *)
(* the maps, which lock one key at a time.                                 *)
EXTENDS HubConnections, TLC

CONSTANTS a, c1, c2, c3

OneUser == {a}
ThreeTabs == {c1, c2, c3}
AllOfA == [c \in ThreeTabs |-> a]
Tabs == Permutations(ThreeTabs)
=============================================================================
