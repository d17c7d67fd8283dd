--------------------------- MODULE ReliableChannel ---------------------------
(***************************************************************************)
(* What a pair of PersistentProtocol endpoints promises its users: in each *)
(* direction the payloads given to send() are fired on the other side's    *)
(* onMessage exactly once and in order, whatever happens to the sockets.   *)
(***************************************************************************)
EXTENDS Sequences, Naturals

CONSTANTS Sides, Other(_), Payload

VARIABLES sent, delivered

chanVars == <<sent, delivered>>

ChanInit ==
    /\ sent = [p \in Sides |-> <<>>]
    /\ delivered = [p \in Sides |-> <<>>]

Give(p) ==
    /\ \E d \in Payload : sent' = [sent EXCEPT ![p] = Append(@, d)]
    /\ UNCHANGED delivered

\* The next payload of the other side is delivered at p.
Deliver(p) ==
    /\ Len(delivered[p]) < Len(sent[Other(p)])
    /\ delivered' = [delivered EXCEPT ![p] =
                        Append(@, sent[Other(p)][Len(@) + 1])]
    /\ UNCHANGED sent

ChanNext == \E p \in Sides : Give(p) \/ Deliver(p)

ChanSpec == ChanInit /\ [][ChanNext]_chanVars

=============================================================================
