--------------------------- MODULE MCMessageStore ---------------------------
(* One normal slot and the two reserved ones, so that three requests are   *)
(* in flight with their slot numbers out of ticket order.                  *)
EXTENDS MessageStore

CONSTANTS p1, p2

Req(op, peer) == [op |-> op, peer |-> peer, large |-> FALSE]

MCPeers == {p1, p2}

Holding(n, new) == [records |-> n, unread |-> new]
Peer1Holds(held, other) == [p \in MCPeers |-> IF p = p1 THEN held ELSE other]
MCStored == {Peer1Holds(Holding(0, 0), Holding(1, 1)),
             Peer1Holds(Holding(1, 1), Holding(0, 0))}
MCRequests == {Req("CreateIncoming", p1), Req("CreateOutgoing", p2), Req("Trim", p1),
               Req("ReadHistoryPage", p1), Req("DeleteConversation", p1), Req("MarkRead", p1)}
=============================================================================
