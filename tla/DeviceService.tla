---------------------------- MODULE DeviceService ---------------------------
(***************************************************************************)
(* The device service (core/runtime/DeviceService.cpp) at work between the *)
(* UI, the outgoing engine and the storage worker.  The service task runs  *)
(* an endless cycle of polls and commands; pc says where it is in it:      *)
(*                                                                         *)
(*   control -> sends1 -> network -> sends2 -> writes -> maintain          *)
(*     ^            (claim and publish within sends)        |              *)
(*     +---- execute <---- command <------------------------+              *)
(*                                                                         *)
(* The engine runs inside the service task, in its network step; the       *)
(* storage worker, the helpers and the clock run beside it.  The UI runs   *)
(* at any time.  Ordinary requests are of three kinds: a Send, which keeps *)
(* its slot until the engine has an initial result; a Write (mark read,    *)
(* delete conversation), until the storage worker has answered; and a      *)
(* Query, which stands for the operations completed when executed.         *)
(* Settings are not modelled, and the generation of a request never        *)
(* differs from the service's, since nothing in the code changes it.       *)
(***************************************************************************)
EXTENDS ServiceMailbox, MaintenanceBarrier

\* A load says how many requests the UI makes and of which kinds, which
\* operations may end it, and whether those the service waits for do their part
\* in the end.
CONSTANT Loads
ASSUME LoadsAssumption ==
  Loads \subseteq [requests : 0 .. MaxId, ops : SUBSET NormalOps, endings : SUBSET LifecycleOps,
                    answering : BOOLEAN]
ASSUME OutcomesAssumption == {"Ok", "Failed", "Cancelled", "NotReady"} \subseteq Outcomes

VARIABLES
  pc,             \* where the service task is
  cur,            \* the slot it is at
  bound,          \* _storageOwnerBound
  serviceState,   \* _status.state
  lifecycleSlot,  \* _lifecycleSlot
  ticket,         \* ticket[s]: _sends[s], and whether the engine has a result
  told,           \* told[s]: _sends[s].cancelled
  stored,         \* stored[s]: _storageWrites[s], and whether it is answered
  rows,           \* the messages the engine holds
  suppressed,     \* the messages the engine was told to cancel
  helpers,        \* connections and other helpers of the service
  storage,        \* the storage worker
  late,           \* 120 s have passed since the lifecycle request
  rebooted,       \* the device is restarting
  load,           \* the load, constant through a behaviour
  cancelled,      \* history: the requests for which cancelSend returned true
  answered,       \* history: the requests whose result the UI has seen
  sent            \* history: the messages the engine transmitted

engineVars == <<rows, suppressed, sent>>
ticketVars == <<ticket, told, stored>>
worldVars == <<helpers, storage, late>>
historyVars == <<cancelled, answered>>
ownerVars == <<bound, serviceState, lifecycleSlot>>
deviceVars == <<rebooted, load>>
vars == <<mailboxVars, barrierVars, pc, cur, ownerVars, ticketVars, engineVars,
          worldVars, historyVars, deviceVars>>

PcValues == {"start", "control", "sends1", "claim1", "publish1", "network", "sends2",
             "claim2", "publish2", "writes", "maintain", "perform", "command", "execute"}
TicketStates == {"none", "pending", "ready"}

ServiceTypeOK ==
  /\ MailboxTypeOK /\ BarrierTypeOK
  /\ pc \in PcValues /\ cur \in Normal
  /\ bound \in BOOLEAN
  /\ serviceState \in {"Starting", "Running", "Quiescing", "Stopped", "Failed"}
  /\ lifecycleSlot \in {NoSlot, Lifecycle}
  /\ ticket \in [Normal -> TicketStates] /\ told \in [Normal -> BOOLEAN]
  /\ stored \in [Normal -> TicketStates]
  /\ rows \subseteq 1 .. MaxId /\ suppressed \subseteq 1 .. MaxId /\ sent \subseteq 1 .. MaxId
  /\ helpers \in {"running", "quiescing", "quiet"}
  /\ storage \in {"running", "stopping", "stopped"}
  /\ late \in BOOLEAN /\ rebooted \in BOOLEAN /\ load \in Loads
  /\ cancelled \subseteq 1 .. MaxId /\ answered \subseteq 1 .. MaxId

ServiceInit ==
  /\ MailboxInit /\ BarrierInit
  /\ pc = "start" /\ cur = 0 /\ bound = FALSE
  /\ serviceState = "Starting" /\ lifecycleSlot = NoSlot
  /\ ticket = [s \in Normal |-> "none"] /\ told = [s \in Normal |-> FALSE]
  /\ stored = [s \in Normal |-> "none"]
  /\ rows = {} /\ suppressed = {} /\ sent = {}
  /\ helpers = "running" /\ storage = "running" /\ late = FALSE
  /\ rebooted = FALSE /\ cancelled = {} /\ answered = {} /\ load \in Loads

Id(s) == request[s].id
At(p) == pc = p /\ ~rebooted
Goto(p) == pc' = p
-----------------------------------------------------------------------------
(* The UI task.                                                            *)

uiUnchanged == UNCHANGED <<barrierVars, pc, cur, ownerVars, ticketVars, engineVars, worldVars>>

UISubmit(op) ==
  /\ ~rebooted /\ nextId < load.requests /\ op \in load.ops \cup load.endings
  /\ Submit(op, 0)
  /\ uiUnchanged /\ UNCHANGED <<historyVars, deviceVars>>

UIPublish ==
  /\ ~rebooted /\ Publish
  /\ uiUnchanged /\ UNCHANGED <<historyVars, deviceVars>>

UICancel(s) ==
  /\ ~rebooted /\ CancelSend(s)
  /\ cancelled' = cancelled \cup {Id(s)}
  /\ uiUnchanged /\ UNCHANGED <<answered, deviceVars>>

\* ServiceClient::poll takes a result; the main loop restarts the device
\* when a lifecycle request succeeded.
UIRelease(s) ==
  /\ ~rebooted /\ Release(s)
  /\ answered' = answered \cup {Id(s)}
  /\ rebooted' = (s = Lifecycle /\ outcome[s] = "Ok")
  /\ uiUnchanged /\ UNCHANGED <<cancelled, load>>
-----------------------------------------------------------------------------
(* Beside the service task: the storage worker, the helpers, the clock.    *)

\* The storage worker answers a request.
StorageAnswers(s) ==
  /\ ~rebooted /\ stored[s] = "pending"
  /\ stored' = [stored EXCEPT ![s] = "ready"]
  /\ UNCHANGED <<mailboxVars, barrierVars, pc, cur, ownerVars, ticket, told, engineVars,
                 worldVars, historyVars, deviceVars>>

\* MessageStore::finishStop: the worker has exited and no result is left.
StorageStops ==
  /\ ~rebooted /\ storage = "stopping" /\ \A s \in Normal : stored[s] = "none"
  /\ storage' = "stopped"
  /\ UNCHANGED <<mailboxVars, barrierVars, pc, cur, ownerVars, ticketVars, engineVars,
                 helpers, late, historyVars, deviceVars>>

HelpersRetire ==
  /\ ~rebooted /\ helpers = "quiescing"
  /\ helpers' = "quiet"
  /\ UNCHANGED <<mailboxVars, barrierVars, pc, cur, ownerVars, ticketVars, engineVars,
                 storage, late, historyVars, deviceVars>>

DeadlinePasses ==
  /\ ~rebooted /\ ~late /\ phase \in {"Quiescing", "Settling"}
  /\ late' = TRUE
  /\ UNCHANGED <<mailboxVars, barrierVars, pc, cur, ownerVars, ticketVars, engineVars,
                 helpers, storage, historyVars, deviceVars>>
-----------------------------------------------------------------------------
(* The service task: start and control.                                    *)

\* bindOwner: storage is handed over, or the service starts as failed.
BindOwner(ok) ==
  /\ At("start") /\ Goto("control")
  /\ bound' = ok
  /\ serviceState' = IF ok THEN "Running" ELSE "Failed"
  /\ accepting' = ok
  /\ recovery' = ~ok
  /\ UNCHANGED <<slotVars, ringVars, uiVars, barrierVars, cur, lifecycleSlot, ticketVars,
                 engineVars, worldVars, historyVars, deviceVars>>

Forced(op) == serviceState = "Failed" /\ op = "Restart"

\* execute, for the lifecycle request just taken: the barrier begins and the
\* slot is kept, or it is answered: a restart after a failure is granted at
\* once, anything else is not ready.
ExecuteLifecycle ==
  LET op == request[Lifecycle].op
      begins == ~Forced(op) /\ serviceState = "Running" /\ phase = "Running"
  IN /\ state' = [state EXCEPT ![Lifecycle] = IF begins THEN "Running" ELSE "Done"]
     /\ outcome' = IF begins THEN outcome
                   ELSE [outcome EXCEPT ![Lifecycle] = IF Forced(op) THEN "Ok" ELSE "NotReady"]
     /\ serviceState' = IF begins THEN "Quiescing" ELSE serviceState
     /\ lifecycleSlot' = IF begins THEN Lifecycle ELSE lifecycleSlot
     /\ IF begins THEN BarrierBegin ELSE UNCHANGED barrierVars
     /\ UNCHANGED <<request, ringVars, recovery, uiVars, bound, ticketVars, engineVars,
                    worldVars, historyVars, deviceVars>>

AfterControl == IF bound THEN "sends1" ELSE "command"

\* Faulty variant: the request waits for ordinary work, as the others do.
ControlReadyWhenQuiet == state[Lifecycle] = "Ready" /\ ~NormalWorkPending
ControlReady == state[Lifecycle] = "Ready"

\* poll finds a lifecycle request, whatever ordinary work is under way.
ControlTaken ==
  /\ At("control") /\ ControlReady
  /\ ExecuteLifecycle
  /\ Goto(AfterControl) /\ cur' = 0
  /\ UNCHANGED accepting

ControlNone ==
  /\ At("control") /\ ~ControlReady
  /\ Goto(AfterControl) /\ cur' = 0
  /\ UNCHANGED <<mailboxVars, barrierVars, ownerVars, ticketVars, engineVars, worldVars,
                 historyVars, deviceVars>>
-----------------------------------------------------------------------------
(* The service task: pollSends, twice around the network step.             *)

sendsUnchanged == UNCHANGED <<barrierVars, ownerVars, stored, rows, sent, worldVars, historyVars, deviceVars>>

Passes == {<<"sends1", "claim1", "publish1", "network">>, <<"sends2", "claim2", "publish2", "writes">>}
\* The slot after cur, or the step after the pass.
NextSlot(p) == IF cur + 1 \in Normal THEN Goto(p[1]) /\ cur' = cur + 1 ELSE Goto(p[4]) /\ cur' = 0

Heard(s) == told[s] \/ CancellationRequested(s)

SendObserve(p) ==
  /\ At(p[1])
  /\ IF ticket[cur] = "none" THEN UNCHANGED <<told, suppressed>>
     ELSE /\ told' = [told EXCEPT ![cur] = Heard(cur)]
          /\ suppressed' = IF Heard(cur) THEN suppressed \cup {Id(cur)} ELSE suppressed
  /\ IF ticket[cur] = "ready" THEN Goto(p[2]) /\ UNCHANGED cur ELSE NextSlot(p)
  /\ UNCHANGED <<mailboxVars, ticket>> /\ sendsUnchanged

\* Faulty variant: the claim does not tell of a late cancellation.
CancelledAtClaimNever(s) == FALSE
\* What claimCompletion returns in its second argument.
CancelledAtClaim(s) == state[s] = "CancelRunning"

SendClaim(p) ==
  /\ At(p[2]) /\ Claim(cur)
  /\ suppressed' = IF CancelledAtClaim(cur) THEN suppressed \cup {Id(cur)} ELSE suppressed
  /\ ticket' = [ticket EXCEPT ![cur] = "none"]
  /\ told' = [told EXCEPT ![cur] = FALSE]
  /\ Goto(p[3]) /\ UNCHANGED cur /\ sendsUnchanged

SendPublish(p) ==
  /\ At(p[3]) /\ PublishCompletion(cur, "Ok")
  /\ NextSlot(p)
  /\ UNCHANGED <<ticket, told, suppressed>> /\ sendsUnchanged
-----------------------------------------------------------------------------
(* The service task: the engine's turn.  The engine takes its initial      *)
(* decision on a message (it was saved, or could not be, or its save was   *)
(* cancelled), transmits those it may, and forgets those it is done with   *)
(* once their result has been acknowledged.                                *)

engineUnchanged == UNCHANGED <<mailboxVars, barrierVars, pc, cur, ownerVars, told, stored,
                               suppressed, worldVars, historyVars, deviceVars>>

EngineDecides(s) ==
  /\ At("network") /\ ticket[s] = "pending"
  /\ ticket' = [ticket EXCEPT ![s] = "ready"]
  /\ engineUnchanged /\ UNCHANGED <<rows, sent>>

Undecided == {Id(s) : s \in {t \in Normal : ticket[t] = "pending"}}
Unacknowledged == {Id(s) : s \in {t \in Normal : ticket[t] # "none"}}

EngineTransmits(m) ==
  /\ At("network") /\ m \in rows \ (suppressed \cup Undecided \cup sent)
  /\ sent' = sent \cup {m}
  /\ engineUnchanged /\ UNCHANGED <<ticket, rows>>

EngineRetires(m) ==
  /\ At("network") /\ m \in rows \ Unacknowledged
  /\ rows' = rows \ {m}
  /\ engineUnchanged /\ UNCHANGED <<ticket, sent>>

NetworkDone ==
  /\ At("network") /\ Goto("sends2") /\ cur' = 0
  /\ UNCHANGED <<mailboxVars, barrierVars, ownerVars, ticketVars, engineVars, worldVars,
                 historyVars, deviceVars>>
-----------------------------------------------------------------------------
(* The service task: storage results and maintenance.                      *)

\* Faulty variant: one too few slots are looked at.
SettledButLast == {s \in Normal : stored[s] = "ready" /\ s + 1 \in Normal}
Settled == {s \in Normal : stored[s] = "ready"}

\* pollStorageWrites completes every slot whose storage result is there.
WritesSettle ==
  /\ At("writes") /\ Goto("maintain") /\ UNCHANGED cur
  /\ Complete(Settled, [s \in Slots |-> "Ok"])
  /\ stored' = [s \in Normal |-> IF s \in Settled THEN "none" ELSE stored[s]]
  /\ UNCHANGED <<barrierVars, ownerVars, ticket, told, engineVars, worldVars, historyVars, deviceVars>>

Snapshot(unrecoverable) ==
  [normal |-> NormalWorkPending, application |-> rows # {},
   helpers |-> ~helpersStarted \/ helpers # "quiet",
   stopped |-> storageStopStarted /\ storage = "stopped",
   unrecoverable |-> unrecoverable, late |-> late]

\* pollMaintenance.  The owner gives up (unrecoverable) only for a radio that
\* failed while it was being closed.
Maintain(unrecoverable) ==
  /\ At("maintain") /\ Stepping
  /\ LET v == Snapshot(unrecoverable)
         answers == ReportsFailure(v) /\ lifecycleSlot # NoSlot
     IN /\ BarrierStep(v)
        /\ serviceState' = IF ReportsFailure(v) THEN "Failed" ELSE serviceState
        /\ recovery' = (recovery \/ ReportsFailure(v))
        /\ state' = IF answers THEN [state EXCEPT ![Lifecycle] = "Done"] ELSE state
        /\ outcome' = IF answers THEN [outcome EXCEPT ![Lifecycle] = "Failed"] ELSE outcome
        /\ lifecycleSlot' = IF ReportsFailure(v) \/ Performs(v) THEN NoSlot ELSE lifecycleSlot
        /\ helpers' = IF BeginsHelpers(v) THEN "quiescing" ELSE helpers
        /\ storage' = IF StopsStorage(v) THEN "stopping" ELSE storage
        /\ Goto(IF Performs(v) THEN "perform" ELSE "command")
  /\ UNCHANGED <<request, ringVars, accepting, uiVars, cur, bound, ticketVars, engineVars,
                 late, historyVars, deviceVars>>

MaintainNothing ==
  /\ At("maintain") /\ ~Stepping /\ Goto("command")
  /\ UNCHANGED <<mailboxVars, barrierVars, cur, ownerVars, ticketVars, engineVars, worldVars,
                 historyVars, deviceVars>>

\* runLifecycle: the operation itself, which may fail.
Perform(ok) ==
  /\ At("perform") /\ Goto("command")
  /\ BarrierComplete(ok)
  /\ serviceState' = IF ok THEN "Stopped" ELSE "Failed"
  /\ recovery' = (recovery \/ ~ok)
  /\ state' = [state EXCEPT ![Lifecycle] = "Done"]
  /\ outcome' = [outcome EXCEPT ![Lifecycle] = IF ok THEN "Ok" ELSE "Failed"]
  /\ UNCHANGED <<request, ringVars, accepting, uiVars, cur, bound, lifecycleSlot, ticketVars,
                 engineVars, worldVars, historyVars, deviceVars>>
-----------------------------------------------------------------------------
(* The service task: commands.                                             *)

commandUnchanged == UNCHANGED <<barrierVars, ownerVars, worldVars, historyVars, deviceVars>>

\* No command this time: none waits, or the radio is busy and the oldest one
\* would write where it is executed.
CommandNone ==
  /\ At("command") /\ Goto("control")
  /\ RingEmpty \/ (bound /\ request[RingFront].op = "Query")
  /\ UNCHANGED <<mailboxVars, cur, ticketVars, engineVars>> /\ commandUnchanged

CommandTaken ==
  /\ At("command") /\ Goto("execute")
  /\ cur' = RingFront /\ TakeNormal
  /\ UNCHANGED <<ticketVars, engineVars>> /\ commandUnchanged

\* take finds the lifecycle request that came after the last control step.
CommandLifecycle ==
  /\ At("command") /\ Goto("control") /\ UNCHANGED cur
  /\ RingEmpty /\ state[Lifecycle] = "Ready" /\ NothingRunning
  /\ accepting' = FALSE
  /\ ExecuteLifecycle

\* Faulty variant: a Send that the engine refused is left in its slot.
AnsweredUnlessRefused(o) == IF o = "Failed" /\ request[cur].op = "Send" THEN {} ELSE {cur}
AnsweredSlots(o) == {cur}

\* The slot taken is answered at once, and nothing is kept for it.
Answer(o) ==
  /\ At("execute") /\ Goto("control") /\ UNCHANGED cur
  /\ Complete(AnsweredSlots(o), [s \in Slots |-> o])
  /\ UNCHANGED <<ticketVars, engineVars>> /\ commandUnchanged

\* The slot taken is kept for the answer of another component.
Retain ==
  /\ At("execute") /\ Goto("control")
  /\ UNCHANGED <<mailboxVars, cur>> /\ commandUnchanged

ExecuteQuery == request[cur].op = "Query" /\ Answer("Ok")

\* A Send while shutting down, or cancelled before it was looked at.
SendCancelled == request[cur].op = "Send" /\ (phase # "Running" \/ CancellationRequested(cur)) /\ Answer("Cancelled")

SendLive == request[cur].op = "Send" /\ phase = "Running" /\ ~CancellationRequested(cur)

SendRefused == SendLive /\ Answer("Failed")

SendAccepted ==
  /\ SendLive /\ Retain
  /\ ticket' = [ticket EXCEPT ![cur] = "pending"]
  /\ rows' = rows \cup {Id(cur)}
  /\ UNCHANGED <<told, stored, suppressed, sent>>

WriteRefused == request[cur].op = "Write" /\ Answer("Failed")

WriteAccepted ==
  /\ request[cur].op = "Write" /\ storage = "running" /\ Retain
  /\ stored' = [stored EXCEPT ![cur] = "pending"]
  /\ UNCHANGED <<ticket, told, engineVars>>
-----------------------------------------------------------------------------
UIStep ==
  \/ \E op \in NormalOps \cup LifecycleOps : UISubmit(op)
  \/ UIPublish
  \/ \E s \in Normal : UICancel(s)
  \/ \E s \in Slots : UIRelease(s)

OutsideStep ==
  \/ \E s \in Normal : StorageAnswers(s)
  \/ StorageStops
  \/ HelpersRetire
  \/ DeadlinePasses

EngineStep ==
  \/ \E s \in Normal : EngineDecides(s)
  \/ \E m \in 1 .. MaxId : EngineTransmits(m) \/ EngineRetires(m)

OwnerStep ==
  \/ \E ok \in BOOLEAN : BindOwner(ok) \/ Perform(ok)
  \/ ControlTaken \/ ControlNone
  \/ \E p \in Passes : SendObserve(p) \/ SendClaim(p) \/ SendPublish(p)
  \/ NetworkDone \/ WritesSettle
  \/ \E unrecoverable \in BOOLEAN : Maintain(unrecoverable)
  \/ MaintainNothing
  \/ CommandNone \/ CommandTaken \/ CommandLifecycle
  \/ ExecuteQuery \/ SendCancelled \/ SendRefused \/ SendAccepted
  \/ WriteRefused \/ WriteAccepted

ServiceStep == UIStep \/ OutsideStep \/ EngineStep \/ OwnerStep
ServiceSpec == ServiceInit /\ [][ServiceStep]_vars

\* Of a service whose world answers, more is known: the UI finishes what it
\* began and reads its results, the storage worker and the engine answer every
\* request, and the radio is not busy at every command, so that the oldest
\* request is taken in the end.
Answering(action) == load.answering /\ action
WorldAnswers ==
  /\ WF_vars(Answering(UIPublish)) /\ \A s \in Slots : WF_vars(Answering(UIRelease(s)))
  /\ \A s \in Normal :
       WF_vars(Answering(StorageAnswers(s))) /\ SF_vars(Answering(EngineDecides(s)))
  /\ SF_vars(Answering(CommandTaken))

\* The service task never stops, and time passes; otherwise nothing is asked
\* of the engine, the storage worker and the helpers.
FairSpec == ServiceSpec /\ WF_vars(OwnerStep) /\ WF_vars(DeadlinePasses) /\ WorldAnswers
-----------------------------------------------------------------------------
(* Properties.                                                             *)

\* From the moment the operation (a restart, a wipe, a factory reset) is
\* claimed, and for ever: no ordinary request waits or runs and none can
\* come, the engine holds no message, the helpers are quiet and the storage
\* worker has exited.
QuietTeardown ==
  claimed =>
    /\ ~NormalWorkPending /\ RingEmpty /\ publishing = NoSlot /\ ~accepting
    /\ rows = {} /\ helpers = "quiet" /\ storage = "stopped"

\* A slot that runs has exactly one party that will complete it, the service
\* at this very step, the engine's ticket or the storage ticket, and a ticket
\* is always about the request its slot still holds; with the types of all
\* variables.
RunningIsOwned ==
  ServiceTypeOK /\ \A s \in Normal :
    LET here == pc \in {"execute", "publish1", "publish2"} /\ cur = s
        sends == ticket[s] # "none"
        writes == stored[s] # "none"
    IN /\ state[s] \in RunningStates <=> here \/ sends \/ writes
       /\ ~(here /\ sends) /\ ~(here /\ writes) /\ ~(sends /\ writes)
       /\ sends => Id(s) \in rows

\* The requests whose result is published.
Shown == answered \cup {Id(s) : s \in {t \in Slots : state[t] = "Done"}}

\* A Send for which cancelSend returned true is not transmitted once its
\* result is there, whenever the cancellation came.
CancelledStaysSilent ==
  [][\A m \in cancelled \cap Shown : m \in sent' => m \in sent]_vars

\* Once the user was told that the operation failed it is not carried out
\* behind his back, even if everything settles later.
FailedNeverPerforms ==
  [][serviceState = "Failed" /\ ~claimed => ~claimed']_vars

\* A restart request is always answered, whatever the engine, the storage
\* worker and the helpers do or do not do.
LifecycleAnswered ==
  state[Lifecycle] = "Ready" ~> state[Lifecycle] # "Ready" /\ state[Lifecycle] \notin RunningStates

\* In a world that answers, every ordinary request is answered unless the
\* device restarts first.
WorkAnswered ==
  \A m \in 1 .. MaxId :
    load.answering /\ (\E s \in Normal : state[s] # "Free" /\ Id(s) = m)
      ~> (m \in answered \/ rebooted)
=============================================================================
