------------------------ MODULE MCRemoteConnections -------------------------
(* Instances of RemoteConnections for TLC: a window with a management       *)
(* connection m and an extension host e, or with one of them.               *)
EXTENDS RemoteConnections, TLC

CONSTANTS m, e

OnlyHost == {e}
OnlyManagement == {m}
Both == {m, e}
Nobody == {}

=============================================================================
