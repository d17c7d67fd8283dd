------------------------ MODULE MCPersistentProtocol ------------------------
(* Instances of PersistentProtocol for TLC. *)
EXTENDS PersistentProtocol, TLC

\* Calls of send(), by the client and by the server.
Sends(c, s) == [p \in Side |-> IF p = "client" THEN c ELSE s]

TwoFromClient == Sends(2, 0)
TwoFromServer == Sends(0, 2)
OneFromServer == Sends(0, 1)

\* The payloads are interchangeable.
Payloads == Permutations(Data)

=============================================================================
