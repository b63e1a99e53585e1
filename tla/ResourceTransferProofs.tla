----------------------- MODULE ResourceTransferProofs -----------------------
(***************************************************************************)
(* For every number of messages and parts, every window, every size of the *)
(* control pool and every bound on the network: the receipts of the        *)
(* receiver agree with its transfer and its store, a proof on the way is   *)
(* that of a message held durably, and the transfer implements             *)
(* MessageDelivery.                                                        *)
(***************************************************************************)
EXTENDS ResourceTransfer, FiniteSetTheorems, TLAPS

OutType == [id : Ids \cup {None}, link : 0 .. MaxLinks, adv : 0 .. MAX_ADV_RETRIES,
            req : BOOLEAN, pending : SUBSET Parts]
InType == [id : Ids \cup {None}, link : 0 .. MaxLinks, got : SUBSET Parts, asked : 0 .. Cardinality(Parts),
           retries : 0 .. MAX_PART_RETRIES, requestPending : BOOLEAN, cancelPending : BOOLEAN]
ContextType == context \in [Ids -> Contexts]
ControlType == control \in [Sides -> SUBSET Frames]

\* A proof that is on the way is that of a message held durably, and none is
\* in the pool of control frames.
ProofsAgree ==
  /\ \A f \in net : f.kind = "PRF" => f.id \in stored
  /\ \A side \in Sides : \A f \in control[side] : f.kind # "PRF"

\* The message under way has no outcome yet.
OneOutcome == out.id # None => outcome[out.id] = "none"

\* A transfer belongs to the present link or to one before it.
LinksInOrder == in.link <= link

Inv == Consistent /\ ProofsAgree /\ OneOutcome /\ LinksInOrder

LEMMA ConstantTypes ==
  /\ MAX_ADV_RETRIES \in Nat /\ MAX_PART_RETRIES \in Nat /\ MaxLost \in Nat
  /\ Messages \in Nat \ {0} /\ NumParts \in Nat \ {0} /\ MaxLinks \in Nat \ {0}
  /\ Ids \subseteq Nat \ {0}
  BY TransferAssumption DEF Ids

LEMMA PartsFinite == IsFiniteSet(Parts) /\ Cardinality(Parts) \in Nat
<1>1. IsFiniteSet(0 .. NumParts - 1)
  BY ConstantTypes, FS_Interval
<1>2. QED
  BY <1>1, FS_CardinalityType DEF Parts

LEMMA PartsCardinality ==
  ASSUME NEW P \in SUBSET Parts
  PROVE  Cardinality(P) \in 0 .. Cardinality(Parts)
<1>1. IsFiniteSet(P) /\ Cardinality(P) <= Cardinality(Parts)
  BY PartsFinite, FS_Subset
<1>2. Cardinality(P) \in Nat
  BY <1>1, FS_CardinalityType
<1>3. QED
  BY <1>1, <1>2, PartsFinite

LEMMA FrameTypes ==
  ASSUME NEW i \in Ids, NEW P \in SUBSET Parts
  PROVE  /\ {ADV(i), REQ(i, P), PRF(i), ICL(i), RCL(i)} \subseteq Frames
         /\ \A p \in Parts : PART(i, p) \in Frames /\ PART(i, p).kind = "PART"
         /\ \A f \in {ADV(i), REQ(i, P), ICL(i), RCL(i)} : f.kind # "PRF"
         /\ PRF(i).kind = "PRF" /\ PRF(i).id = i
  BY DEF Frames, Frame, ADV, REQ, PART, PRF, ICL, RCL

LEMMA NoTransferTypes == NoOut \in OutType /\ NoIn \in InType /\ NoOut.id = None /\ NoIn.id = None /\ NoIn.link = 0
  BY ConstantTypes, PartsFinite DEF NoOut, NoIn, OutType, InType, None

\* sendRequest keeps the transfer and sends nothing but a request.
LEMMA SendRequestKeeps ==
  ASSUME NEW v \in InType, v.id \in Ids, NEW rest \in SUBSET Frames, SendRequest(v, rest)
  PROVE  /\ in' \in InType /\ in'.id = v.id /\ in'.link = v.link
         /\ net' \subseteq Frames /\ \A f \in net' : f.kind = "PRF" => f \in rest
<1>1. CASE in' = v /\ net' = rest
  BY <1>1
<1>2. ASSUME NEW size \in Windows, NEW P, P = Window(v, size),
             in' = [v EXCEPT !.asked = Cardinality(P), !.requestPending = FALSE],
             Taken(rest, {REQ(v.id, P)})
      PROVE  /\ in' \in InType /\ in'.id = v.id /\ in'.link = v.link
             /\ net' \subseteq Frames /\ \A f \in net' : f.kind = "PRF" => f \in rest
  <2>1. P \in SUBSET Parts
    BY <1>2 DEF Window, Missing
  <2>2. Cardinality(P) \in 0 .. Cardinality(Parts)
    BY <2>1, PartsCardinality
  <2>3. in' \in InType /\ in'.id = v.id /\ in'.link = v.link
    BY <1>2, <2>2 DEF InType
  <2>4. REQ(v.id, P) \in Frames /\ REQ(v.id, P).kind # "PRF"
    BY <2>1, FrameTypes
  <2>5. net' = rest \cup {REQ(v.id, P)}
    BY <1>2 DEF Taken
  <2>6. QED
    BY <2>3, <2>4, <2>5
<1>3. CASE in' = [v EXCEPT !.requestPending = TRUE] /\ net' = rest
  BY <1>3 DEF InType
<1>4. QED
  BY <1>1, <1>2, <1>3 DEF SendRequest

\* A control frame that is retained is a rejection or a cancellation.
LEMMA RetainKeeps ==
  ASSUME NEW side \in Sides, NEW f \in Frames, f.kind # "PRF", ControlType,
         Retain(side, f) \/ UNCHANGED control
  PROVE  /\ ControlType'
         /\ \A s \in Sides : \A g \in control'[s] : g.kind = "PRF" => g \in control[s]
  BY DEF ControlType, Retain, Sides

\* A rejection closes the transfer or waits for a place in the pool.
LEMMA RejectKeeps ==
  ASSUME NEW v \in InType, v.id \in Ids, ControlType, ContextType, RejectInbound(v)
  PROVE  /\ in' \in InType /\ ContextType' /\ ControlType'
         /\ \A s \in Sides : \A g \in control'[s] : g.kind = "PRF" => g \in control[s]
         /\ \/ in' = NoIn /\ context' = [context EXCEPT ![v.id] = "none"]
            \/ in'.id = v.id /\ in'.link = v.link /\ UNCHANGED context
<1>1. CASE Retain("receiver", RCL(v.id)) /\ in' = NoIn /\ context' = [context EXCEPT ![v.id] = "none"]
  <2>1. RCL(v.id) \in Frames /\ RCL(v.id).kind # "PRF" /\ "receiver" \in Sides
    BY FrameTypes DEF Sides
  <2>2. ControlType' /\ \A s \in Sides : \A g \in control'[s] : g.kind = "PRF" => g \in control[s]
    BY <1>1, <2>1, RetainKeeps
  <2>3. ContextType'
    BY <1>1 DEF ContextType, Contexts
  <2>4. QED
    BY <1>1, <2>2, <2>3, NoTransferTypes
<1>2. CASE in' = [v EXCEPT !.cancelPending = TRUE] /\ UNCHANGED <<context, control>>
  BY <1>2 DEF InType, ContextType, ControlType
<1>3. QED
  BY <1>1, <1>2 DEF RejectInbound

Types ==
  /\ out \in OutType /\ in \in InType /\ outcome \in [Ids -> Outcomes] /\ ContextType /\ ControlType
  /\ saving \subseteq Ids /\ stored \subseteq Ids
  /\ net \subseteq Frames /\ link \in 1 .. MaxLinks /\ trouble \in 0 .. Fault

LEMMA TypesAreTypeOK == (TypeOK <=> Types) /\ (TypeOK' <=> Types')
  BY DEF TypeOK, Types, OutType, InType, ContextType, ControlType

LEMMA FaultTypes == Fault \in Nat /\ Fault \in 0 .. Fault /\ \A t \in 0 .. Fault : t < Fault => t + 1 \in 0 .. Fault
  BY ConstantTypes DEF Fault

\* What the sender does keeps its types, and brings no proof on the way.
LEMMA CloseOutboundTypes ==
  ASSUME Types, out.id # None, NEW result \in Outcomes, CloseOutbound(result)
  PROVE  out' \in OutType /\ outcome' \in [Ids -> Outcomes]
  BY NoTransferTypes DEF Types, CloseOutbound, OutType

SenderTypes ==
  /\ out' \in OutType /\ outcome' \in [Ids -> Outcomes] /\ ControlType' /\ net' \subseteq Frames
  /\ trouble' \in 0 .. Fault
  /\ \A f \in net' : f.kind = "PRF" => f \in net
  /\ \A s \in Sides : \A g \in control'[s] : g.kind = "PRF" => g \in control[s]

LEMMA EmittedTypes ==
  ASSUME out.id \in Ids, NEW parts \in SUBSET Parts
  PROVE  \A g \in Emitted(parts) : g \in Frames /\ g.kind # "PRF"
<1>1. \A k \in parts : PART(out.id, k) \in Frames /\ PART(out.id, k).kind = "PART"
  BY FrameTypes
<1>2. QED
  BY <1>1 DEF Emitted

LEMMA SenderKeeps ==
  ASSUME Types, SenderReceives \/ SenderLoop \/ CancelSend \/ (\E i \in Ids : StartSend(i))
  PROVE  SenderTypes
<1> USE DEF SenderTypes
<1>0. out.id # None => out.id \in Ids
  BY DEF Types, OutType
<1>1. ASSUME NEW i \in Ids, StartSend(i) PROVE SenderTypes
  <2>1. out' = [id |-> i, link |-> link, adv |-> MAX_ADV_RETRIES, req |-> FALSE, pending |-> {}]
    BY <1>1 DEF StartSend, NoOut
  <2>0. out' \in OutType
    BY <2>1, ConstantTypes DEF OutType, Types
  <2>2. net' = net \cup {ADV(i)} /\ ADV(i) \in Frames /\ ADV(i).kind # "PRF"
    BY <1>1, FrameTypes DEF StartSend, Taken
  <2>3. QED
    BY <1>1, <2>0, <2>2 DEF StartSend, Types, ControlType
<1>2. CASE SenderReceives
  <2>1. PICK f \in net : OnRequest(f) \/ OnProof(f) \/ OnReject(f) \/ SenderIgnores(f)
    BY <1>2 DEF SenderReceives
  <2>2. ControlType' /\ \A s \in Sides : \A g \in control'[s] : g.kind = "PRF" => g \in control[s]
    BY <1>2 DEF SenderReceives, Types, ControlType
  <2>3. f \in Frames /\ f.parts \subseteq Parts /\ f.id \in Ids /\ f.id # None
    BY <2>1, ConstantTypes DEF Types, Frames, None
  <2>4. CASE OnRequest(f)
    <3> DEFINE pending == out.pending \cup (IF f.id = out.id THEN f.parts ELSE {})
    <3> HIDE DEF pending
    <3>1. PICK parts \in Served(pending) :
            out' = [out EXCEPT !.req = TRUE, !.pending = pending \ parts] /\ Taken(net \ {f}, Emitted(parts))
      BY <2>4 DEF OnRequest, pending
    <3>2. pending \subseteq Parts /\ parts \subseteq Parts
      BY <2>3 DEF Types, OutType, Served, pending
    <3>3. out' \in OutType
      <4>1. pending \ parts \in SUBSET Parts /\ out \in OutType
        BY <3>2 DEF Types
      <4>2. out' = [out EXCEPT !.req = TRUE, !.pending = pending \ parts]
        BY <3>1
      <4>3. QED
        BY <4>1, <4>2 DEF OutType
    <3>4. \A g \in Emitted(parts) : g \in Frames /\ g.kind # "PRF"
      BY <1>0, <2>4, <3>2, EmittedTypes DEF OnRequest
    <3>5. net' = (net \ {f}) \cup Emitted(parts)
      BY <3>1 DEF Taken
    <3>6. QED
      BY <2>2, <2>4, <3>3, <3>4, <3>5 DEF OnRequest, Types
  <2>5. CASE OnProof(f)
    <3>1. out' \in OutType /\ outcome' \in [Ids -> Outcomes]
      BY <2>3, <2>5, CloseOutboundTypes DEF OnProof, Outcomes
    <3>2. QED
      BY <2>2, <2>5, <3>1 DEF OnProof, Types
  <2>6. CASE OnReject(f)
    <3>1. out' \in OutType /\ outcome' \in [Ids -> Outcomes]
      BY <2>3, <2>6, CloseOutboundTypes DEF OnReject, Outcomes
    <3>2. QED
      BY <2>2, <2>6, <3>1 DEF OnReject, Types
  <2>7. CASE SenderIgnores(f)
    BY <2>2, <2>7 DEF SenderIgnores, Types, sender
  <2>8. QED
    BY <2>1, <2>4, <2>5, <2>6, <2>7
<1>3. CASE ServePending
  <2>1. PICK parts \in Served(out.pending) :
          out' = [out EXCEPT !.pending = @ \ parts] /\ Taken(net, Emitted(parts))
    BY <1>3 DEF ServePending
  <2>2. parts \subseteq Parts /\ out' \in OutType
    BY <2>1 DEF Types, OutType, Served
  <2>3. \A g \in Emitted(parts) : g \in Frames /\ g.kind # "PRF"
    BY <1>0, <1>3, <2>2, EmittedTypes DEF ServePending
  <2>4. net' = net \cup Emitted(parts)
    BY <2>1 DEF Taken
  <2>5. QED
    BY <1>3, <2>2, <2>3, <2>4 DEF ServePending, Types, ControlType
<1>4. CASE ReAdvertise
  <2>1. out' \in OutType
    BY <1>4, ConstantTypes DEF ReAdvertise, Types, OutType
  <2>2. net' = net \cup {ADV(out.id)} /\ ADV(out.id) \in Frames /\ ADV(out.id).kind # "PRF"
    BY <1>0, <1>4, FrameTypes DEF ReAdvertise, Taken
  <2>3. trouble' \in 0 .. Fault
    BY <1>4, FaultTypes DEF ReAdvertise, FaultyIf, Types
  <2>4. QED
    BY <1>4, <2>1, <2>2, <2>3 DEF ReAdvertise, Types, ControlType
<1>5. CASE SenderIdle \/ CancelSend
  <2>1. out.id # None /\ CloseOutbound("failed") /\ net' = net
    BY <1>5 DEF SenderIdle, CancelSend, network
  <2>2. out' \in OutType /\ outcome' \in [Ids -> Outcomes]
    BY <2>1, CloseOutboundTypes DEF Outcomes
  <2>3. Retain("sender", ICL(out.id)) \/ UNCHANGED control
    BY <1>5 DEF SenderIdle, CancelSend
  <2>4. ICL(out.id) \in Frames /\ ICL(out.id).kind # "PRF" /\ "sender" \in Sides
    BY <1>0, <2>1, FrameTypes DEF Sides
  <2>5. ControlType' /\ \A s \in Sides : \A g \in control'[s] : g.kind = "PRF" => g \in control[s]
    BY <2>3, <2>4, RetainKeeps DEF Types
  <2>6. trouble' \in 0 .. Fault
    BY <1>5, FaultTypes DEF SenderIdle, CancelSend, Faulty, FaultyIf, Types
  <2>7. QED
    BY <2>1, <2>2, <2>5, <2>6 DEF Types
<1>6. CASE SenderLosesLink
  <2>1. out' \in OutType /\ outcome' \in [Ids -> Outcomes]
    BY <1>6, CloseOutboundTypes DEF SenderLosesLink, Outcomes
  <2>2. QED
    BY <1>6, <2>1 DEF SenderLosesLink, Types, ControlType, network
<1>7. QED
  BY <1>1, <1>2, <1>3, <1>4, <1>5, <1>6 DEF SenderLoop

\* What the receiver does keeps its types, and brings no proof on the way.
ReceiverTypes ==
  /\ in' \in InType /\ ContextType' /\ ControlType' /\ net' \subseteq Frames
  /\ saving' \subseteq Ids /\ stored' = stored /\ trouble' \in 0 .. Fault
  /\ \A f \in net' : f.kind = "PRF" => f \in net
  /\ \A s \in Sides : \A g \in control'[s] : g.kind = "PRF" => g \in control[s]

LEMMA SendRequestTypes ==
  ASSUME Types, NEW v \in InType, v.id \in Ids, NEW rest \in SUBSET net, SendRequest(v, rest)
  PROVE  in' \in InType /\ net' \subseteq Frames /\ \A f \in net' : f.kind = "PRF" => f \in net
<1>1. rest \in SUBSET Frames
  BY DEF Types
<1>2. QED
  BY <1>1, SendRequestKeeps

LEMMA AssembleTypes ==
  ASSUME Types, NEW v \in InType, v.id \in Ids, NEW rest \in SUBSET net, Assemble(v, rest)
  PROVE  ReceiverTypes
<1>1. CASE /\ saving' = saving \cup {v.id} /\ Admitted(v.id) /\ in' = NoIn
           /\ net' = rest /\ UNCHANGED <<stored, control, trouble>>
  <2>1. ContextType'
    BY <1>1 DEF Types, ContextType, Contexts, Admitted
  <2>2. QED
    BY <1>1, <2>1, NoTransferTypes DEF ReceiverTypes, Types, ControlType
<1>2. CASE RejectInbound(v) /\ net' = rest /\ Faulty /\ UNCHANGED <<saving, stored>>
  <2>1. /\ in' \in InType /\ ContextType' /\ ControlType'
        /\ \A s \in Sides : \A g \in control'[s] : g.kind = "PRF" => g \in control[s]
    BY <1>2, RejectKeeps DEF Types
  <2>2. trouble' \in 0 .. Fault
    BY <1>2, FaultTypes DEF Faulty
  <2>3. QED
    BY <1>2, <2>1, <2>2 DEF ReceiverTypes, Types
<1>3. QED
  BY <1>1, <1>2 DEF Assemble

LEMMA FreshTransferTypes ==
  ASSUME NEW i \in Ids, NEW l \in 1 .. MaxLinks,
         NEW v, v = [id |-> i, link |-> l, got |-> {}, asked |-> 0, retries |-> MAX_PART_RETRIES,
                     requestPending |-> FALSE, cancelPending |-> FALSE]
  PROVE  v \in InType /\ v.id = i /\ v.link = l
  BY ConstantTypes, PartsFinite DEF InType

Accepted(i) == [NoIn EXCEPT !.id = i, !.link = link, !.retries = MAX_PART_RETRIES]

LEMMA AcceptedTypes ==
  ASSUME Types, NEW i \in Ids
  PROVE  Accepted(i) \in InType /\ Accepted(i).id = i /\ Accepted(i).link = link
<1>1. PICK v : v = Accepted(i)
  OBVIOUS
<1>2. v = [id |-> i, link |-> link, got |-> {}, asked |-> 0, retries |-> MAX_PART_RETRIES,
           requestPending |-> FALSE, cancelPending |-> FALSE]
  BY <1>1 DEF NoIn, Accepted
<1>3. link \in 1 .. MaxLinks
  BY DEF Types
<1>4. v \in InType /\ v.id = i /\ v.link = link
  BY ONLY <1>2, <1>3, FreshTransferTypes, i \in Ids
<1>5. QED
  BY ONLY <1>1, <1>4

Progress(P) ==
  [in EXCEPT !.got = @ \cup P, !.retries = MAX_PART_RETRIES, !.asked = IF @ > 0 THEN @ - 1 ELSE 0]

LEMMA ProgressTypes ==
  ASSUME Types, NEW P \in SUBSET Parts
  PROVE  Progress(P) \in InType /\ Progress(P).id = in.id /\ Progress(P).link = in.link
<1>1. PICK Q \in SUBSET Parts : Q = in.got \cup P
  BY DEF InType, Types
<1>2. PICK a \in 0 .. Cardinality(Parts) : a = IF in.asked > 0 THEN in.asked - 1 ELSE 0
  BY PartsFinite DEF InType, Types
<1>3. MAX_PART_RETRIES \in 0 .. MAX_PART_RETRIES /\ in \in InType
  BY ConstantTypes DEF Types
<1>4. PICK v : v = [in EXCEPT !.got = Q, !.retries = MAX_PART_RETRIES, !.asked = a]
  OBVIOUS
<1>5. v \in InType /\ v.id = in.id /\ v.link = in.link
  BY ONLY <1>3, <1>4, Q \in SUBSET Parts, a \in 0 .. Cardinality(Parts) DEF InType
<1>6. v = Progress(P)
  BY ONLY <1>1, <1>2, <1>4, Zenon DEF Progress
<1>7. QED
  BY ONLY <1>5, <1>6

LEMMA OnAdvertisementTypes ==
  ASSUME Types, NEW f \in net, OnAdvertisement(f)
  PROVE  ReceiverTypes
<1> DEFINE rest == net \ {f}
<1>1. f.id \in Ids /\ f.id # None /\ rest \in SUBSET net /\ net \subseteq Frames
  BY ConstantTypes DEF Types, Frames, None
<1>2. RCL(f.id) \in Frames /\ RCL(f.id).kind # "PRF" /\ "receiver" \in Sides
  BY <1>1, FrameTypes DEF Sides
<1>4. Accepted(f.id) \in InType /\ Accepted(f.id).id \in Ids
  BY <1>1, AcceptedTypes
<1>5. saving' = saving /\ stored' = stored
  BY DEF OnAdvertisement
<1> HIDE DEF rest
<1>6. CASE /\ in.id = f.id /\ in.link = link /\ UNCHANGED <<context, control, trouble>>
           /\ IF in.cancelPending THEN in' = in /\ net' = rest ELSE SendRequest(in, rest)
  <2>1. in' \in InType /\ net' \subseteq Frames /\ \A g \in net' : g.kind = "PRF" => g \in net
    <3>1. in \in InType
      BY DEF Types
    <3>2. CASE SendRequest(in, rest)
      BY <1>1, <1>6, <3>1, <3>2, SendRequestTypes
    <3>3. CASE in' = in /\ net' = rest
      BY <1>1, <3>1, <3>3
    <3>4. QED
      BY <1>6, <3>2, <3>3
  <2>2. QED
    BY <1>5, <1>6, <2>1 DEF ReceiverTypes, Types, ContextType, ControlType
<1>7. CASE Retain("receiver", RCL(f.id)) \/ UNCHANGED control
  <2>1. ControlType' /\ \A s \in Sides : \A g \in control'[s] : g.kind = "PRF" => g \in control[s]
    BY <1>2, <1>7, RetainKeeps DEF Types
  <2>2. CASE net' = rest /\ (Faulty \/ UNCHANGED trouble) /\ UNCHANGED <<in, context>>
    <3>1. trouble' \in 0 .. Fault
      BY <2>2, FaultTypes DEF Faulty, Types
    <3>2. QED
      BY <1>1, <1>5, <2>1, <2>2, <3>1 DEF ReceiverTypes, Types, ContextType
  <2>3. CASE /\ context' = [context EXCEPT ![f.id] = "reserved"]
             /\ SendRequest(Accepted(f.id), rest) /\ UNCHANGED <<control, trouble>>
    <3>1. in' \in InType /\ net' \subseteq Frames /\ \A g \in net' : g.kind = "PRF" => g \in net
      BY <1>1, <1>4, <2>3, SendRequestTypes
    <3>2. ContextType'
      BY <2>3 DEF Types, ContextType, Contexts
    <3>3. QED
      BY <1>5, <2>1, <2>3, <3>1, <3>2 DEF ReceiverTypes, Types
  <2>5. QED
    BY <1>6, <2>2, <2>3 DEF OnAdvertisement, rest, Accepted
<1>8. QED
  BY <1>6, <1>7 DEF OnAdvertisement, rest, Accepted

LEMMA OnPartTypes ==
  ASSUME Types, NEW f \in net, OnPart(f)
  PROVE  ReceiverTypes
<1> DEFINE rest == net \ {f}
           v == Progress(f.parts)
<1>1. in \in InType /\ in.id \in Ids /\ f.parts \subseteq Parts /\ rest \in SUBSET net /\ net \subseteq Frames
  BY DEF OnPart, Types, InType, Frames
<1>2. v \in InType /\ v.id = in.id
  BY <1>1, ProgressTypes
<1> HIDE DEF rest, v
<1>3. CASE Assemble(v, rest) \/ Assemble(in, rest)
  BY <1>1, <1>2, <1>3, AssembleTypes
<1>4. CASE /\ SendRequest(v, rest) \/ (in' = v /\ net' = rest) \/ (in' = in /\ net' = rest)
           /\ UNCHANGED <<context, saving, stored, control, trouble>>
  <2>1. in' \in InType /\ net' \subseteq Frames /\ \A g \in net' : g.kind = "PRF" => g \in net
    <3>1. CASE SendRequest(v, rest)
      BY <1>1, <1>2, <3>1, SendRequestTypes
    <3>2. CASE net' = rest /\ in' \in {v, in}
      BY <1>1, <1>2, <3>2
    <3>3. QED
      BY <1>4, <3>1, <3>2
  <2>2. QED
    BY <1>4, <2>1 DEF ReceiverTypes, Types, ContextType, ControlType
<1>5. QED
  <2>1. Assemble(v, rest) \/ Assemble(in, rest) \/
        ( /\ SendRequest(v, rest) \/ (in' = v /\ net' = rest) \/ (in' = in /\ net' = rest)
          /\ UNCHANGED <<context, saving, stored, control, trouble>> )
    BY Zenon DEF OnPart, rest, v, Progress
  <2>2. QED
    BY <1>3, <1>4, <2>1

LEMMA ReceiverKeeps ==
  ASSUME Types, ReceiverReceives \/ ReceiverLoop
  PROVE  ReceiverTypes
<1>1. CASE ReceiverReceives
  <2>1. PICK f \in net : OnAdvertisement(f) \/ OnCancel(f) \/ OnPart(f) \/ ReceiverIgnores(f)
    BY <1>1 DEF ReceiverReceives
  <2>2. CASE OnCancel(f)
    <3>1. ContextType'
      BY <2>2 DEF OnCancel, Types, ContextType, Contexts
    <3>2. in' \in InType
      BY <2>2, NoTransferTypes DEF OnCancel, Types
    <3>3. QED
      BY <2>2, <3>1, <3>2 DEF OnCancel, ReceiverTypes, Types, ControlType
  <2>3. CASE ReceiverIgnores(f)
    BY <2>3 DEF ReceiverIgnores, receiver, ReceiverTypes, Types, ContextType, ControlType
  <2>4. QED
    BY <2>1, <2>2, <2>3, OnAdvertisementTypes, OnPartTypes
<1>2. CASE RepeatCancel
  <2>1. in \in InType /\ in.id \in Ids /\ RejectInbound(in)
    BY <1>2 DEF RepeatCancel, Receiving, Types, InType
  <2>2. /\ in' \in InType /\ ContextType' /\ ControlType'
        /\ \A s \in Sides : \A g \in control'[s] : g.kind = "PRF" => g \in control[s]
    BY <2>1, RejectKeeps DEF Types
  <2>3. QED
    BY <1>2, <2>2 DEF RepeatCancel, network, ReceiverTypes, Types
<1>3. CASE RepeatRequest
  <2>1. in \in InType /\ in.id \in Ids /\ SendRequest(in, net)
    BY <1>3 DEF RepeatRequest, Receiving, Types, InType
  <2>2. in' \in InType /\ net' \subseteq Frames /\ \A f \in net' : f.kind = "PRF" => f \in net
    BY <2>1, SendRequestTypes
  <2>3. QED
    BY <1>3, <2>2 DEF RepeatRequest, ReceiverTypes, Types, ContextType, ControlType
<1>4. CASE NoProgress
  <2>1. in \in InType /\ in.id \in Ids
    BY <1>4 DEF NoProgress, Receiving, Types, InType
  <2>2. trouble' \in 0 .. Fault
    BY <1>4, FaultTypes DEF NoProgress, FaultyIf, Types
  <2>3. CASE RejectInbound(in) /\ UNCHANGED net
    <3>1. /\ in' \in InType /\ ContextType' /\ ControlType'
          /\ \A s \in Sides : \A g \in control'[s] : g.kind = "PRF" => g \in control[s]
      BY <2>1, <2>3, RejectKeeps DEF Types
    <3>2. QED
      BY <1>4, <2>2, <2>3, <3>1 DEF NoProgress, ReceiverTypes, Types
  <2>4. CASE /\ in.retries # 0 /\ SendRequest([in EXCEPT !.retries = @ - 1], net)
             /\ UNCHANGED <<context, control>>
    <3>1. PICK v : v = [in EXCEPT !.retries = @ - 1]
      OBVIOUS
    <3>2. in.retries - 1 \in 0 .. MAX_PART_RETRIES
      BY <2>1, <2>4, ConstantTypes DEF InType
    <3>3. v \in InType /\ v.id = in.id
      BY ONLY <2>1, <3>1, <3>2 DEF InType
    <3>4. SendRequest(v, net)
      BY <2>4, <3>1
    <3>5. in' \in InType /\ net' \subseteq Frames /\ \A f \in net' : f.kind = "PRF" => f \in net
      BY <2>1, <3>3, <3>4, SendRequestTypes
    <3>6. QED
      BY <1>4, <2>2, <2>4, <3>5 DEF NoProgress, ReceiverTypes, Types, ContextType, ControlType
  <2>5. QED
    BY <1>4, <2>3, <2>4 DEF NoProgress
<1>5. CASE Deadline \/ ReceiverLosesLink
  <2>1. in' = NoIn /\ context' = [context EXCEPT ![in.id] = "none"] /\ UNCHANGED <<control, saving, stored, net>>
    BY <1>5 DEF Deadline, ReceiverLosesLink, CloseInbound, network
  <2>2. trouble' \in 0 .. Fault
    BY <1>5, FaultTypes DEF Deadline, ReceiverLosesLink, FaultyIf, Types
  <2>3. ContextType'
    BY <2>1 DEF Types, ContextType, Contexts
  <2>4. QED
    BY <2>1, <2>2, <2>3, NoTransferTypes DEF ReceiverTypes, Types, ControlType
<1>6. QED
  BY <1>1, <1>2, <1>3, <1>4, <1>5 DEF ReceiverLoop

\* Every variable keeps its type, whatever either side, the store, the radio
\* or the link does.
LEMMA TypesNext == Types /\ [Next]_vars => Types'
<1> SUFFICES ASSUME Types, [Next]_vars PROVE Types'
  OBVIOUS
<1>1. CASE SenderReceives \/ SenderLoop \/ CancelSend \/ (\E i \in Ids : StartSend(i))
  <2>1. SenderTypes
    BY <1>1, SenderKeeps
  <2>2. UNCHANGED receiver /\ link' = link
    BY <1>1 DEF SenderReceives, SenderLoop, ServePending, ReAdvertise, SenderIdle, SenderLosesLink, CancelSend,
                StartSend, network
  <2>3. QED
    BY <2>1, <2>2 DEF SenderTypes, receiver, Types, ContextType, ControlType
<1>2. CASE ReceiverReceives \/ ReceiverLoop
  <2>1. ReceiverTypes
    BY <1>2, ReceiverKeeps
  <2>2. UNCHANGED sender /\ link' = link
    BY <1>2 DEF ReceiverReceives, ReceiverLoop, RepeatCancel, RepeatRequest, NoProgress, Deadline,
                ReceiverLosesLink, network
  <2>3. QED
    BY <2>1, <2>2 DEF ReceiverTypes, sender, Types, ContextType, ControlType
<1>3. ASSUME NEW i \in Ids, StoreDone(i) PROVE Types'
  <2>1. ContextType' /\ saving' \subseteq Ids /\ stored' \subseteq Ids
    BY <1>3 DEF StoreDone, Types, ContextType, Contexts
  <2>2. trouble' \in 0 .. Fault
    BY <1>3, FaultTypes DEF StoreDone, Faulty, Types
  <2>3. QED
    BY <1>3, <2>1, <2>2 DEF StoreDone, Types, ControlType, sender, network
<1>4. ASSUME NEW i \in Ids, SendProof(i) PROVE Types'
  <2>1. ContextType'
    BY <1>4 DEF SendProof, Types, ContextType, Contexts
  <2>2. net' \subseteq Frames
    BY <1>4, FrameTypes DEF SendProof, Taken, Types
  <2>3. QED
    BY <1>4, <2>1, <2>2 DEF SendProof, Types, ControlType, sender
<1>5. CASE SendControl
  <2>1. PICK side \in Sides : \E f \in control[side] :
          control' = [control EXCEPT ![side] = @ \ {f}] /\ net' = net \cup {f}
    BY <1>5 DEF SendControl, Taken
  <2>2. ControlType' /\ net' \subseteq Frames
    BY <2>1 DEF Types, ControlType
  <2>3. QED
    BY <1>5, <2>2 DEF SendControl, Types, ContextType, sender, receiver
<1>6. CASE Lose
  <2>1. trouble' \in 0 .. Fault
    BY <1>6, FaultTypes DEF Lose, Types
  <2>2. net' \subseteq Frames
    BY <1>6 DEF Lose, Types
  <2>3. QED
    BY <1>6, <2>1, <2>2 DEF Lose, Types, ContextType, ControlType, sender, receiver
<1>7. CASE NewLink
  <2>1. trouble' \in 0 .. Fault /\ link' \in 1 .. MaxLinks
    BY <1>7, FaultTypes, ConstantTypes DEF NewLink, Faulty, Types
  <2>2. ContextType' /\ ControlType' /\ net' \subseteq Frames
    BY <1>7 DEF NewLink, ContextType, ControlType, Contexts
  <2>3. QED
    BY <1>7, <2>1, <2>2 DEF NewLink, Types, sender
<1>8. CASE UNCHANGED vars
  BY <1>8 DEF vars, Types, ContextType, ControlType
<1>9. QED
  BY <1>1, <1>2, <1>3, <1>4, <1>5, <1>6, <1>7, <1>8 DEF Next, Poll

\* A proof leaves only when the message is durable, and what is durable stays.
LEMMA ProofsNext == Types /\ ReceiptsAgree /\ ProofsAgree /\ [Next]_vars => ProofsAgree'
<1> SUFFICES ASSUME Types, ReceiptsAgree, ProofsAgree, [Next]_vars PROVE ProofsAgree'
  OBVIOUS
<1>1. CASE SenderReceives \/ SenderLoop \/ CancelSend \/ (\E i \in Ids : StartSend(i))
  <2>1. SenderTypes
    BY <1>1, SenderKeeps
  <2>2. stored' = stored
    BY <1>1 DEF SenderReceives, SenderLoop, ServePending, ReAdvertise, SenderIdle, SenderLosesLink, CancelSend,
                StartSend, receiver
  <2>3. QED
    BY <2>1, <2>2 DEF SenderTypes, ProofsAgree
<1>2. CASE ReceiverReceives \/ ReceiverLoop
  <2>1. ReceiverTypes
    BY <1>2, ReceiverKeeps
  <2>2. QED
    BY <2>1 DEF ReceiverTypes, ProofsAgree
<1>3. ASSUME NEW i \in Ids, StoreDone(i) PROVE ProofsAgree'
  <2>1. stored \subseteq stored' /\ UNCHANGED <<control, net>>
    BY <1>3 DEF StoreDone, network
  <2>2. QED
    BY <2>1 DEF ProofsAgree
<1>4. ASSUME NEW i \in Ids, SendProof(i) PROVE ProofsAgree'
  <2>1. i \in stored
    BY <1>4 DEF SendProof, ReceiptsAgree
  <2>2. net' = net \cup {PRF(i)} /\ PRF(i).id = i /\ UNCHANGED <<stored, control>>
    BY <1>4, FrameTypes DEF SendProof, Taken
  <2>3. QED
    BY <2>1, <2>2 DEF ProofsAgree
<1>5. CASE SendControl
  <2>0. PICK side \in Sides : \E f \in control[side] :
          control' = [control EXCEPT ![side] = @ \ {f}] /\ net' = net \cup {f}
    BY <1>5 DEF SendControl, Taken
  <2>1. PICK f \in control[side] : control' = [control EXCEPT ![side] = @ \ {f}] /\ net' = net \cup {f}
    BY <2>0
  <2>2. f.kind # "PRF" /\ stored' = stored
    BY <1>5 DEF SendControl, ProofsAgree, receiver
  <2>3. \A s \in Sides : control'[s] \subseteq control[s]
    BY <2>1 DEF Types, ControlType
  <2>4. QED
    BY <2>1, <2>2, <2>3 DEF ProofsAgree
<1>6. CASE Lose
  BY <1>6 DEF Lose, ProofsAgree, receiver
<1>7. CASE NewLink
  BY <1>7 DEF NewLink, ProofsAgree
<1>8. CASE UNCHANGED vars
  BY <1>8 DEF vars, ProofsAgree
<1>9. QED
  BY <1>1, <1>2, <1>3, <1>4, <1>5, <1>6, <1>7, <1>8 DEF Next, Poll

\* While the transfer, its receipt and the store are the same, they agree.
LEMMA ReceiptsStay ==
  ASSUME ReceiptsAgree, LinksInOrder, in'.id = in.id, in'.link = in.link,
         UNCHANGED <<context, saving, stored, link>>
  PROVE  ReceiptsAgree' /\ LinksInOrder'
  BY DEF ReceiptsAgree, LinksInOrder

\* A transfer that is closed takes its receipt with it.
LEMMA ReceiptsClose ==
  ASSUME Types, ReceiptsAgree, LinksInOrder, in' = NoIn, context' = [context EXCEPT ![in.id] = "none"],
         UNCHANGED <<saving, stored, link>>
  PROVE  ReceiptsAgree' /\ LinksInOrder'
<1>1. in'.id = None /\ in'.link = 0 /\ None \notin Ids /\ 0 <= link
  BY NoTransferTypes, ConstantTypes DEF None, Types
<1>2. \A j \in Ids : context'[j] = IF j = in.id THEN "none" ELSE context[j]
  BY DEF Types, ContextType
<1>3. QED
  BY <1>1, <1>2 DEF ReceiptsAgree, LinksInOrder

LEMMA ReceiptsReject ==
  ASSUME Types, ReceiptsAgree, LinksInOrder, NEW v \in InType, v.id = in.id, v.link = in.link, in.id \in Ids,
         RejectInbound(v), UNCHANGED <<saving, stored, link>>
  PROVE  ReceiptsAgree' /\ LinksInOrder'
<1>1. \/ in' = NoIn /\ context' = [context EXCEPT ![in.id] = "none"]
      \/ in'.id = in.id /\ in'.link = in.link /\ UNCHANGED context
  BY RejectKeeps DEF Types
<1>2. QED
  BY <1>1, ReceiptsStay, ReceiptsClose

LEMMA ReceiptsRequest ==
  ASSUME Types, ReceiptsAgree, LinksInOrder, NEW v \in InType, v.id = in.id, v.link = in.link, in.id \in Ids,
         NEW rest \in SUBSET net, SendRequest(v, rest), UNCHANGED <<context, saving, stored, link>>
  PROVE  ReceiptsAgree' /\ LinksInOrder'
<1>1. rest \in SUBSET Frames
  BY DEF Types
<1>2. in'.id = in.id /\ in'.link = in.link
  BY <1>1, SendRequestKeeps
<1>3. QED
  BY <1>2, ReceiptsStay

LEMMA ReceiptsAssemble ==
  ASSUME Types, ReceiptsAgree, LinksInOrder, NEW v \in InType, v.id = in.id, v.link = in.link, in.id \in Ids,
         NEW rest, Assemble(v, rest), link' = link
  PROVE  ReceiptsAgree' /\ LinksInOrder'
<1>1. CASE /\ saving' = saving \cup {v.id} /\ Admitted(v.id) /\ in' = NoIn
           /\ net' = rest /\ UNCHANGED <<stored, control, trouble>>
  <2>1. in'.id = None /\ in'.link = 0 /\ None \notin Ids /\ 0 <= link
    BY <1>1, NoTransferTypes, ConstantTypes DEF None, Types
  <2>2. \A j \in Ids : context'[j] = IF j = in.id THEN "waiting" ELSE context[j]
    BY <1>1 DEF Types, ContextType, Admitted
  <2>3. saving' = saving \cup {in.id} /\ stored' = stored
    BY <1>1
  <2>4. QED
    BY <2>1, <2>2, <2>3 DEF ReceiptsAgree, LinksInOrder
<1>2. CASE RejectInbound(v) /\ net' = rest /\ Faulty /\ UNCHANGED <<saving, stored>>
  BY <1>2, ReceiptsReject
<1>3. QED
  BY <1>1, <1>2 DEF Assemble

LEMMA ReceiptsAdvertised ==
  ASSUME Types, ReceiptsAgree, LinksInOrder, NEW f \in net, OnAdvertisement(f), link' = link
  PROVE  ReceiptsAgree' /\ LinksInOrder'
<1>1. saving' = saving /\ stored' = stored
  BY DEF OnAdvertisement
<1>2. PICK rest \in SUBSET net : rest = net \ {f}
  OBVIOUS
<1>3. f.id \in Ids /\ f.id # None /\ in \in InType
  BY ConstantTypes DEF Types, Frames, None
<1>4. CASE in' = in /\ UNCHANGED context
  BY <1>1, <1>4, ReceiptsStay
<1>5. CASE in.id = f.id /\ SendRequest(in, rest) /\ UNCHANGED context
  BY <1>1, <1>3, <1>5, ReceiptsRequest
<1>6. CASE /\ in.id = None /\ context[f.id] = "none" /\ context' = [context EXCEPT ![f.id] = "reserved"]
           /\ SendRequest(Accepted(f.id), rest)
  <2>1. Accepted(f.id) \in InType /\ Accepted(f.id).id = f.id /\ Accepted(f.id).link = link
    BY <1>3, AcceptedTypes
  <2>2. rest \in SUBSET Frames
    BY DEF Types
  <2>3. in'.id = f.id /\ in'.link = link
    BY <1>3, <1>6, <2>1, <2>2, SendRequestKeeps
  <2>4. \A j \in Ids : context'[j] = IF j = f.id THEN "reserved" ELSE context[j]
    BY <1>6 DEF Types, ContextType
  <2>5. \A j \in Ids : j # None
    BY ConstantTypes DEF None
  <2>6. link <= link
    BY ConstantTypes DEF Types
  <2>7. QED
    BY <1>1, <1>6, <2>3, <2>4, <2>5, <2>6 DEF ReceiptsAgree, LinksInOrder
<1>7. QED
  <2>1. \/ in' = in /\ UNCHANGED context
        \/ in.id = f.id /\ SendRequest(in, rest) /\ UNCHANGED context
        \/ /\ in.id = None /\ context[f.id] = "none" /\ context' = [context EXCEPT ![f.id] = "reserved"]
           /\ SendRequest(Accepted(f.id), rest)
    BY <1>2, Zenon DEF OnAdvertisement, Accepted
  <2>2. QED
    BY <1>4, <1>5, <1>6, <2>1

\* The receipts agree with the transfer and the store, whatever happens.
LEMMA ReceiptsNext ==
  Types /\ ReceiptsAgree /\ LinksInOrder /\ [Next]_vars => ReceiptsAgree' /\ LinksInOrder'
<1> SUFFICES ASSUME Types, ReceiptsAgree, LinksInOrder, [Next]_vars PROVE ReceiptsAgree' /\ LinksInOrder'
  OBVIOUS
<1>1. CASE ReceiverReceives
  <2>1. PICK f \in net : OnAdvertisement(f) \/ OnCancel(f) \/ OnPart(f) \/ ReceiverIgnores(f)
    BY <1>1 DEF ReceiverReceives
  <2>2. link' = link
    BY <1>1 DEF ReceiverReceives
  <2>3. CASE OnCancel(f)
    <3>1. CASE in.id = f.id /\ in.link = link
      BY <2>2, <2>3, <3>1, ReceiptsClose DEF OnCancel
    <3>2. CASE ~(in.id = f.id /\ in.link = link)
      <4>1. in' = in /\ UNCHANGED <<saving, stored>>
        BY <2>3, <3>2 DEF OnCancel
      <4>2. \A j \in Ids : context'[j] = IF j = f.id THEN "none" ELSE context[j]
        BY <2>3 DEF OnCancel, Types, ContextType
      <4>3. QED
        BY <2>2, <3>2, <4>1, <4>2 DEF ReceiptsAgree, LinksInOrder
    <3>3. QED
      BY <3>1, <3>2
  <2>4. CASE OnPart(f)
    <3>1. in \in InType /\ in.id \in Ids /\ f.parts \in SUBSET Parts
      BY <2>4 DEF OnPart, Types, InType, Frames
    <3>2. PICK v : v = Progress(f.parts)
      OBVIOUS
    <3>3. v \in InType /\ v.id = in.id /\ v.link = in.link
      BY <3>1, <3>2, ProgressTypes
    <3>4. PICK rest \in SUBSET net : rest = net \ {f}
      OBVIOUS
    <3>5. \/ Assemble(v, rest) \/ Assemble(in, rest)
          \/ SendRequest(v, rest) /\ UNCHANGED <<context, saving, stored>>
          \/ in' \in {v, in} /\ UNCHANGED <<context, saving, stored>>
      <4>1. \/ Assemble(v, rest) \/ Assemble(in, rest)
            \/ /\ SendRequest(v, rest) \/ in' = v \/ in' = in
               /\ UNCHANGED <<context, saving, stored, control, trouble>>
        BY <2>4, <3>2, <3>4, Zenon DEF OnPart, Progress
      <4>2. QED
        BY <4>1
    <3>6. CASE Assemble(v, rest) \/ Assemble(in, rest)
      BY <2>2, <3>1, <3>3, <3>6, ReceiptsAssemble
    <3>7. CASE SendRequest(v, rest) /\ UNCHANGED <<context, saving, stored>>
      BY <2>2, <3>1, <3>3, <3>7, ReceiptsRequest
    <3>8. CASE in' \in {v, in} /\ UNCHANGED <<context, saving, stored>>
      BY <2>2, <3>3, <3>8, ReceiptsStay
    <3>9. QED
      BY <3>5, <3>6, <3>7, <3>8
  <2>5. CASE ReceiverIgnores(f)
    BY <2>2, <2>5, ReceiptsStay DEF ReceiverIgnores, receiver
  <2>6. QED
    BY <2>1, <2>2, <2>3, <2>4, <2>5, ReceiptsAdvertised
<1>2. CASE RepeatCancel
  <2>1. in \in InType /\ in.id \in Ids /\ RejectInbound(in) /\ UNCHANGED <<saving, stored, link>>
    BY <1>2 DEF RepeatCancel, Receiving, Types, InType, network
  <2>2. QED
    BY <2>1, ReceiptsReject
<1>3. CASE RepeatRequest
  <2>1. in \in InType /\ in.id \in Ids /\ SendRequest(in, net) /\ UNCHANGED <<context, saving, stored, link>>
    BY <1>3 DEF RepeatRequest, Receiving, Types, InType
  <2>2. QED
    BY <2>1, ReceiptsRequest
<1>4. CASE NoProgress
  <2>1. in \in InType /\ in.id \in Ids /\ UNCHANGED <<saving, stored, link>>
    BY <1>4 DEF NoProgress, Receiving, Types, InType
  <2>2. CASE RejectInbound(in)
    BY <2>1, <2>2, ReceiptsReject
  <2>3. CASE in.retries # 0 /\ SendRequest([in EXCEPT !.retries = @ - 1], net) /\ UNCHANGED <<context, control>>
    <3>1. PICK v : v = [in EXCEPT !.retries = @ - 1]
      OBVIOUS
    <3>2. in.retries - 1 \in 0 .. MAX_PART_RETRIES
      BY <2>1, <2>3, ConstantTypes DEF InType
    <3>3. v \in InType /\ v.id = in.id /\ v.link = in.link
      BY ONLY <2>1, <3>1, <3>2 DEF InType
    <3>4. SendRequest(v, net) /\ UNCHANGED context
      BY <2>3, <3>1
    <3>5. QED
      BY <2>1, <3>3, <3>4, ReceiptsRequest
  <2>4. QED
    BY <1>4, <2>2, <2>3 DEF NoProgress
<1>5. CASE Deadline \/ ReceiverLosesLink
  BY <1>5, ReceiptsClose DEF Deadline, ReceiverLosesLink, CloseInbound, network
<1>6. ASSUME NEW i \in Ids, StoreDone(i) PROVE ReceiptsAgree' /\ LinksInOrder'
  <2>1. UNCHANGED <<in, link>> /\ saving' = saving \ {i} /\ stored \subseteq stored'
    BY <1>6 DEF StoreDone, network
  <2>2. CASE context[i] = "waiting"
    <3>1. \/ i \in stored' /\ context' = [context EXCEPT ![i] = "proof"]
          \/ context' = [context EXCEPT ![i] = "none"]
      BY <1>6, <2>2 DEF StoreDone
    <3>2. \/ i \in stored' /\ \A j \in Ids : context'[j] = IF j = i THEN "proof" ELSE context[j]
          \/ \A j \in Ids : context'[j] = IF j = i THEN "none" ELSE context[j]
      BY <3>1 DEF Types, ContextType
    <3>3. QED
      BY <2>1, <2>2, <3>2 DEF ReceiptsAgree, LinksInOrder
  <2>3. CASE context[i] # "waiting"
    <3>1. context' = context
      BY <1>6, <2>3 DEF StoreDone
    <3>2. QED
      BY <2>1, <2>3, <3>1 DEF ReceiptsAgree, LinksInOrder
  <2>4. QED
    BY <2>2, <2>3
<1>7. ASSUME NEW i \in Ids, SendProof(i) PROVE ReceiptsAgree' /\ LinksInOrder'
  <2>1. context[i] = "proof" /\ UNCHANGED <<in, saving, stored, link>>
    BY <1>7 DEF SendProof
  <2>2. \A j \in Ids : context'[j] = IF j = i THEN "none" ELSE context[j]
    BY <1>7 DEF SendProof, Types, ContextType
  <2>3. QED
    BY <2>1, <2>2 DEF ReceiptsAgree, LinksInOrder
<1>8. CASE NewLink
  <2>1. in' = in /\ link' = link + 1 /\ \A j \in Ids : context'[j] = "none"
    BY <1>8 DEF NewLink
  <2>2. in.link \in Nat /\ link \in Nat
    BY ConstantTypes DEF Types, InType
  <2>3. in'.link # link' /\ in'.link <= link'
    BY <2>1, <2>2 DEF LinksInOrder
  <2>4. QED
    BY <2>1, <2>3 DEF ReceiptsAgree, LinksInOrder
<1>9. CASE SenderReceives \/ SenderLoop \/ CancelSend \/ (\E i \in Ids : StartSend(i)) \/ SendControl \/ Lose
  <2>1. UNCHANGED <<receiver, link>>
    BY <1>9 DEF SenderReceives, SenderLoop, ServePending, ReAdvertise, SenderIdle, SenderLosesLink, CancelSend,
                StartSend, SendControl, Lose, network
  <2>2. QED
    BY <2>1, ReceiptsStay DEF receiver
<1>10. CASE UNCHANGED vars
  BY <1>10, ReceiptsStay DEF vars
<1>11. QED
  BY <1>1, <1>2, <1>3, <1>4, <1>5, <1>6, <1>7, <1>8, <1>9, <1>10 DEF Next, Poll, ReceiverLoop

\* The sender goes on, starts with a message that has no outcome, or settles
\* the one under way: as delivered only if the receiver holds it.
Settles(result) == out.id \in Ids /\ out'.id = None /\ outcome' = [outcome EXCEPT ![out.id] = result]

LEMMA SenderVerdicts ==
  ASSUME Types, ProofsAgree, SenderReceives \/ SenderLoop \/ CancelSend \/ (\E i \in Ids : StartSend(i))
  PROVE  /\ UNCHANGED stored
         /\ \/ out'.id = out.id /\ outcome' = outcome
            \/ out'.id \in Ids /\ outcome[out'.id] = "none" /\ outcome' = outcome
            \/ out.id \in stored /\ Settles("delivered")
            \/ Settles("failed")
<1>1. UNCHANGED stored
  BY DEF SenderReceives, SenderLoop, ServePending, ReAdvertise, SenderIdle, SenderLosesLink, CancelSend,
         StartSend, receiver
<1>2. ASSUME NEW result, out.id # None, CloseOutbound(result) PROVE Settles(result)
  BY <1>2, NoTransferTypes DEF CloseOutbound, Settles, Types, OutType
<1>3. ASSUME NEW i \in Ids, StartSend(i)
      PROVE  out'.id \in Ids /\ outcome[out'.id] = "none" /\ outcome' = outcome
  <2>1. out' = [id |-> i, link |-> link, adv |-> MAX_ADV_RETRIES, req |-> FALSE, pending |-> {}]
    BY <1>3 DEF StartSend, NoOut
  <2>2. QED
    BY <1>3, <2>1 DEF StartSend
<1>4. CASE SenderReceives
  <2>1. PICK f \in net : OnRequest(f) \/ OnProof(f) \/ OnReject(f) \/ SenderIgnores(f)
    BY <1>4 DEF SenderReceives
  <2>2. f.id # None
    BY ConstantTypes DEF Types, Frames, None
  <2>3. CASE OnRequest(f)
    <3>1. out'.id = out.id
      BY <2>3 DEF OnRequest, Types, OutType
    <3>2. QED
      BY <1>1, <2>3, <3>1 DEF OnRequest
  <2>4. CASE OnProof(f)
    <3>1. out.id \in stored /\ out.id # None
      BY <2>2, <2>4 DEF OnProof, ProofsAgree
    <3>2. QED
      BY <1>1, <1>2, <2>4, <3>1 DEF OnProof
  <2>5. CASE OnReject(f)
    BY <1>1, <1>2, <2>2, <2>5 DEF OnReject
  <2>6. CASE SenderIgnores(f)
    BY <1>1, <2>6 DEF SenderIgnores, sender
  <2>7. QED
    BY <2>1, <2>3, <2>4, <2>5, <2>6
<1>5. CASE ServePending \/ ReAdvertise
  <2>1. out'.id = out.id
    BY <1>5 DEF ServePending, ReAdvertise, Types, OutType
  <2>2. QED
    BY <1>1, <1>5, <2>1 DEF ServePending, ReAdvertise
<1>6. CASE SenderIdle \/ SenderLosesLink \/ CancelSend
  BY <1>1, <1>2, <1>6 DEF SenderIdle, SenderLosesLink, CancelSend
<1>7. QED
  BY <1>1, <1>3, <1>4, <1>5, <1>6 DEF SenderLoop

Others == ReceiverReceives \/ ReceiverLoop \/ SendControl \/ Lose \/ NewLink \/ \E i \in Ids : SendProof(i)

LEMMA OthersKeepVerdicts == ASSUME Types, Others PROVE UNCHANGED <<out, outcome, stored>>
<1>1. CASE ReceiverReceives \/ ReceiverLoop
  <2>1. stored' = stored
    BY <1>1, ReceiverKeeps DEF ReceiverTypes
  <2>2. QED
    BY <1>1, <2>1 DEF ReceiverReceives, ReceiverLoop, RepeatCancel, RepeatRequest, NoProgress, Deadline,
                      ReceiverLosesLink, sender
<1>2. CASE SendControl \/ Lose \/ NewLink \/ \E i \in Ids : SendProof(i)
  BY <1>2 DEF SendControl, Lose, NewLink, SendProof, sender, receiver
<1>3. QED
  BY <1>1, <1>2 DEF Others

LEMMA OneOutcomeNext == Types /\ ProofsAgree /\ OneOutcome /\ [Next]_vars => OneOutcome'
<1> SUFFICES ASSUME Types, ProofsAgree, OneOutcome, [Next]_vars PROVE OneOutcome'
  OBVIOUS
<1>1. CASE SenderReceives \/ SenderLoop \/ CancelSend \/ (\E i \in Ids : StartSend(i))
  BY <1>1, SenderVerdicts DEF OneOutcome, Settles
<1>2. CASE Others
  BY <1>2, OthersKeepVerdicts DEF OneOutcome
<1>3. CASE \E i \in Ids : StoreDone(i)
  BY <1>3 DEF StoreDone, sender, OneOutcome
<1>4. CASE UNCHANGED vars
  BY <1>4 DEF vars, OneOutcome
<1>5. QED
  BY <1>1, <1>2, <1>3, <1>4 DEF Next, Poll, Others

LEMMA InvInit == Init => Inv
<1> SUFFICES ASSUME Init PROVE Inv
  OBVIOUS
<1>1. out \in OutType /\ in \in InType /\ out.id = None /\ in.id = None /\ in.link = 0
  BY NoTransferTypes DEF Init
<1>2. Types
  <2>1. trouble \in 0 .. Fault /\ link \in 1 .. MaxLinks
    BY FaultTypes, ConstantTypes DEF Init
  <2>2. outcome \in [Ids -> Outcomes] /\ ContextType /\ ControlType
    BY DEF Init, Outcomes, ContextType, Contexts, ControlType
  <2>3. QED
    BY <1>1, <2>1, <2>2 DEF Init, Types
<1>3. ReceiptsAgree
  <2>1. \A i \in Ids : i # None /\ context[i] = "none"
    BY ConstantTypes DEF Init, None
  <2>2. QED
    BY <1>1, <2>1 DEF ReceiptsAgree
<1>4. ProofsAgree
  BY DEF Init, ProofsAgree
<1>5. OneOutcome /\ LinksInOrder
  BY <1>1 DEF Init, OneOutcome, LinksInOrder
<1>6. QED
  BY <1>2, <1>3, <1>4, <1>5, TypesAreTypeOK DEF Inv, Consistent

LEMMA InvNext == Inv /\ [Next]_vars => Inv'
  BY TypesNext, ReceiptsNext, ProofsNext, OneOutcomeNext, TypesAreTypeOK DEF Inv, Consistent

\* The receipts of the receiver agree with its transfer and with its store:
\* no credit is lost or given twice (RustIncomingDelivery.cpp, reserveResource
\* and retireReceipt).
THEOREM Consistency == Spec => []Consistent
<1>1. Inv => Consistent
  BY DEF Inv
<1>2. QED
  BY <1>1, InvInit, InvNext, PTL DEF Spec

\* A proof is on the way only for a message the receiver holds durably, and no
\* message has two outcomes (RustIncomingDelivery.cpp, poll and drainReceipt).
THEOREM ProofSafety == Spec => [](ProofsAgree /\ OneOutcome)
<1>1. Inv => ProofsAgree /\ OneOutcome
  BY DEF Inv
<1>2. QED
  BY <1>1, InvInit, InvNext, PTL DEF Spec

\* Every step of the transfer is a step of the delivery, or changes neither
\* the verdicts nor what is held.
LEMMA StepSimulation == Inv /\ [Next]_vars => [Delivery!Next]_<<outcome, stored>>
<1> SUFFICES ASSUME Inv, [Next]_vars PROVE [Delivery!Next]_<<outcome, stored>>
  OBVIOUS
<1>1. Types /\ ProofsAgree /\ OneOutcome
  BY TypesAreTypeOK DEF Inv, Consistent
<1>2. CASE SenderReceives \/ SenderLoop \/ CancelSend \/ (\E i \in Ids : StartSend(i))
  <2>1. \/ UNCHANGED <<outcome, stored>>
        \/ out.id \in stored /\ Settles("delivered") /\ UNCHANGED stored
        \/ Settles("failed") /\ UNCHANGED stored
    BY <1>1, <1>2, SenderVerdicts
  <2>2. ASSUME NEW result, Settles(result) PROVE out.id \in Ids /\ outcome[out.id] = "none"
    BY <1>1, <2>2, ConstantTypes DEF Settles, OneOutcome, None
  <2>3. CASE out.id \in stored /\ Settles("delivered") /\ UNCHANGED stored
    BY <2>2, <2>3 DEF Settles, Delivery!Next, Delivery!Deliver
  <2>4. CASE Settles("failed") /\ UNCHANGED stored
    BY <2>2, <2>4 DEF Settles, Delivery!Next, Delivery!Fail
  <2>5. QED
    BY <2>1, <2>3, <2>4
<1>3. CASE Others
  BY <1>1, <1>3, OthersKeepVerdicts
<1>4. ASSUME NEW i \in Ids, StoreDone(i) PROVE [Delivery!Next]_<<outcome, stored>>
  BY <1>4 DEF StoreDone, sender, Delivery!Next, Delivery!Hold
<1>5. CASE UNCHANGED vars
  BY <1>5 DEF vars
<1>6. QED
  BY <1>2, <1>3, <1>4, <1>5 DEF Next, Poll, Others

\* The transfer implements the delivery of messages: whatever is lost,
\* repeated or cancelled, a message is called delivered only if it is held
\* durably, and its verdict is final (RustResourceEngine.cpp, closeOutbound).
THEOREM Refinement == Spec => ImplementsDelivery
<1>1. Init => Delivery!Init
  BY DEF Init, Delivery!Init
<1>2. Spec => []Inv
  BY InvInit, InvNext, PTL DEF Spec
<1>3. QED
  BY <1>1, <1>2, StepSimulation, PTL DEF Spec, ImplementsDelivery, Delivery!Spec
=============================================================================
