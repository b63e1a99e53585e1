---------------------------- MODULE MCWriteQueue ----------------------------
(* WriteQueue with two normal slots, one of them large, and the two        *)
(* reserved ones: enough for two normal requests to be in flight while the *)
(* reserved slots are used, and for the queue to be as full as it can be.  *)
EXTENDS WriteQueue

Req(op, large) == [op |-> op, large |-> large]

MCRequests == {Req("CreateIncoming", FALSE), Req("CreateIncoming", TRUE),
               Req("DeleteConversation", FALSE), Req("MarkRead", FALSE)}
=============================================================================
