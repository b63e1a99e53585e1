-------------------------- MODULE MCMessageRecords --------------------------
(* MessageRecords for small devices, each with the limits that bring one   *)
(* of its hard cases within reach.                                         *)
EXTENDS MessageRecords

Device(last, block, revisions, cache, kept, leaves) ==
  [lastCounter |-> last, block |-> block, lastRevision |-> revisions,
   cacheLimit |-> cache, cardLimit |-> kept, cardLeaves |-> leaves]

OneRecord == Device(2, 1, 4, 0, 9, FALSE)
ManyRecords == Device(4, 1, 1, 1, 9, FALSE)
CardComesAndGoes == Device(4, 2, 1, 1, 9, TRUE)
FullCard == Device(3, 1, 1, 0, 1, FALSE)

MCDevices == {OneRecord, ManyRecords, CardComesAndGoes, FullCard}
\* For the statement the code does not keep.
AwayDevices == {Device(2, 1, 3, 1, 9, TRUE)}
=============================================================================
