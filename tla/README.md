# A verification project for the Ratspeak Handheld firmware

Ratspeak Handheld is the firmware of small LoRa devices (T-Deck, T-Pager,
Cardputer). It exchanges LXMF messages over the Reticulum network, keeps them
on the internal flash and on an SD card, and shows them on the device. This
directory holds TLA+ models of the parts of the program where the order of
steps matters, the TLC configurations that check them, and proofs that the
TLA+ proof system (TLAPS) checks. Paths below are relative to the repository;
the firmware itself is under `src/`.

Contents:
1. The system
2. What is modelled, and how the models correspond to the code
3. The runs, their bounds and what they show
4. Fairness
5. What is proved
6. Findings
7. What is not modelled
8. What could come next

## 1. The system

### Tasks

| task | where | what it does |
|---|---|---|
| UI | `boards/*/main.cpp` loop, `core/runtime/ServiceClient.cpp` | screens and input; submits requests, reads results, restarts the device |
| device service | `core/runtime/ServiceRunner.cpp`, `DeviceService.cpp` | owns storage, protocol, radio and network; one endless cycle of polls and commands |
| storage worker "WriteQ" | `core/storage/WriteQueue.cpp` | executes storage requests, one at a time |

The UI and the service meet only in the `ServiceMailbox`; the service and the
worker only in the `WriteQueue`. Everything else belongs to one task. During
setup the setup task owns the storage and hands it over (`adoptOwner`).

### Components, their state and what makes them correct

**Storage request queue** (`WriteQueue`). State: an array of request slots
with an atomic state each, a FreeRTOS queue of slot numbers, ticket and
outstanding counters, the flags of shutdown, the owning task. Operations:
begin, adoptOwner, submit, the worker's loop, cancel, releaseResult,
requestStop, finishStop. Hard: cancellation races execution; two slots are
reserved so that deletions and status updates are admitted when ordinary ones
are not; the sentinel that ends the worker needs a place in the queue. Correct
if every accepted request is executed exactly once or cancelled and never
executed, in order; no slot is lost; stop always reaches the worker; the owner
changes only when nothing is under way.

**Message store** (`MessageStore`). State: running totals of conversations and
unread messages, the fence of a pending deletion, the settlement watermark.
Operations: submit with the fence, poll (settle results in ticket order, add
their deltas, trim behind saves), take and release results. Hard: the worker
publishes results while poll scans the slots; a client may release a result
early; a save queued behind a deletion would be lost or revive the
conversation. Correct if the totals are those of the media whenever all is
settled, each result is counted once and in order, nothing is admitted behind
a pending deletion of its peer, and fences lift.

**Message transactions** (`MessageTransactions`). State: for each message a
record file and perhaps a backup, on flash and on the card; per
conversation a tombstone; the counter ceiling in NVS and its cache. Operations:
create, update, mark read, erase a conversation, trim. Hard: any write may fail
on one medium and not on the other, power may be lost between any two writes,
the card may be away for a boot. Correct if an acknowledged record is never
lost or rolled back, deleted messages do not return, numbers are not reused,
a message delivered again is not stored twice.

**Atomic files** (`AtomicStream`, `FlashStore::recoverAtomicArtifact`). State:
a file, its `.tmp` and `.bak`. Operations: the write protocol, the reader,
recovery at boot. Hard: any call may fail; power loss at any point. Correct if
readers see an atomic register.

**Service mailbox and pump** (`ServiceMailbox`, `ServicePump`). State: 16
ordinary slots and one for lifecycle requests, a ring with the order of
admission, an arena of payload blocks, admission flags. Operations: submit,
cancelSend, release (UI); take, takeLifecycle, claimCompletion,
publishCompletion, complete (service). Hard: the two tasks share slots without
a lock; cancellation races completion. Correct if order is kept, nothing is
lost, taken twice or overwritten, and an accepted cancellation has its effect.

**Maintenance** (`MaintenanceBarrier`, `MaintenanceOperation`,
`FactoryReset`). State: the phase, which steps were begun, the deadline. Hard:
a wipe or restart must wait for every owner of unfinished work, must be
answered even if one of them hangs, and must not happen after it was reported
as failed.

**Factory reset** (`FactoryReset`, `FactoryResetRecovery`, `FlashStore`'s reset
functions, `TreeWipe`). State: the intent file `/.factory-reset` with its scope.
Hard: it erases a card, the NVS and many files, any of which may fail or be cut
off. Correct if a boot reads nothing of the old data until all of it is gone.

**Device service and client** (`DeviceService`, `ServiceClient`). State: which
party will complete each retained slot, the pending lifecycle request, the
settings being saved. Composes mailbox, engine, message store and maintenance.

**Incoming delivery** (`RustIncomingDelivery`). State: a row per message that
is being stored, a receipt per copy of it that wants a proof, credits of a row
and of control frames. Operations: accept, poll, drainReceipt, the hook of the
radio, the reservations of the resource engine, dropPeer, dropLink,
stopAdmissions. Hard: copies of a message arrive before, while and after it is
stored; the conversation is deleted while its record is half written; the radio
keeps frames of receipts that were retired and taken again. Correct if a proof
goes out only for a durable message, nothing goes out for a deleted
conversation, and a stop ends with every row and receipt free.

**Outgoing engine** (`RustLxmfEngine`). State: rows of messages with phase,
status, ticket and flags; one workspace for the body being sent; the cursor of
the recovery; deletion barriers. Operations: send, cancel, cancelRecord,
begin/finishPeerDelete, loop over the rows, recovery, the hook of the radio,
proofs, stop. Hard: the store answers late, the radio transmits late, proofs
come late, and cancellation, deletion and stop come in every phase. Correct if
a status says what happened, a withdrawn message is not transmitted, every
message gets its turn in the workspace, and the stop comes to an end.

**Links and resources** (`RustLinkManager`, `RustResourceEngine`). State: at
most one resource sent and one received per device, their windows, retries and
deadlines; links. Hard: both sides repeat from bounded budgets over a network
that loses and reorders; a proof waits for the store; refusals need a place in
a small pool. Correct if delivered means stored, and every transfer ends.

**Interface pump and queue** (`RustInterfacePump`, `TxLease`,
`LoRaInterface`). State: the frames the radio retains, each with the receipt
that says whether it may still go out.

**Ratchets and keys** (`RustRatchetStore`, `RustKeyMap`), **transport core**
(`protocol/src/*.rs`). State: persisted keys, path tables.

**Interfaces** (`TCPClientInterface`, `TcpClientSet`,
`RnsAutoInterface`, `WiFiInterface`), **network coordination**
(`NetworkCoordinator`, `WiFiConnection`, `AnnounceScheduler`). State:
connection phases, back-off times, carrier sensing. Hard: reconnects,
generations, quiescing.

**Identities and settings** (`IdentityManager`, `SettingsTransaction`,
`UserConfig`, `ProtocolRuntime::loadOrCreateIdentity`). State: a key file per
identity, the key of the active one again in `PATH_IDENTITY` and in the NVS, the
catalogue, the settings with the name of the active identity, their copy on the
card. Operations: the steps of a boot; create, import, switch, apply settings;
the retries of the service's poll. Hard: each change spans several of these
files, any write may fail and power may be lost after each. Correct if the
device comes up as the identity last chosen and under its name, if it comes up
at all whenever it could, if every identity stays listed, and if no key is lost
or overwritten; the one exception the code makes to the last is an old catalogue
whose migration could not be written.

**Contacts** (`AnnounceManager`). State: a catalogue kept on flash.

**History windows** (`HistoryWindow`, `ConversationWindow`). State: a window of
rows over a store that changes while pages are fetched.

Also present, without state worth a model: record formats and migration, JSON
and memory helpers, the radio driver, HAL and input, screens, boards, launcher
and tools, vendored libraries. `PROJECT.json` lists all of them.

## 2. What is modelled

| module | models | state |
|---|---|---|
| `TicketedExecutor` | abstract: what the queue promises | tickets, fates, results |
| `WriteQueue` | `WriteQueue.cpp`, `StorageContract.h` | `state`, `seq`, `request`, `result` of the slots; `fifo`; `worker`, `current`; flags; `owner` |
| `MessageStore` | `MessageStore.cpp`, `MessageStoreTransactions.cpp`, over `WriteQueue` | totals, fence, watermark, what the media hold per conversation |
| `MessageStoreProofs` | theorems about `WriteQueue`, and over them about `MessageStore` | |
| `AtomicFile` | abstract: what an atomic file is | contents, write under way |
| `AtomicStream` | `AtomicStream.h`, recovery and reading in `FlashStore.cpp` | the three files, the writer's step |
| `AtomicStreamProofs` | theorems about `AtomicStream` | |
| `MessageRecords` | `MessageTransactions.cpp` | files of every record on both media, tombstone, counters |
| `MessageRecordsProofs` | theorems about `MessageRecords` | |
| `ServiceMailbox` | `ServiceMailbox.h` | slots, ring, arena, flags |
| `MaintenanceBarrier` | `MaintenanceBarrier.h` | phase and flags |
| `DeviceService` | `DeviceService.cpp`, `ServicePump.h`, the requests of `ServiceClient.cpp`; extends the two above | the service task's place in its cycle, tickets per slot, what the engine holds |
| `DeviceServiceProofs` | theorems about `ServiceMailbox`, and over them about `DeviceService` | |
| `TxQueue` | the transmit queue of `LoRaInterface.cpp`, fed by `RustInterfacePump.cpp` | the frames retained, and whether the radio is off, on or in maintenance |
| `IncomingDelivery` | `RustIncomingDelivery.cpp`, over `TxQueue`, with the worker, one link and the receiving half of the resource engine | rows, receipts, links, what is durable |
| `IncomingDeliveryProofs` | theorems about `IncomingDelivery` | |
| `LxmfEngine` | `RustLxmfEngine.cpp`, over `TxQueue`, with the worker and the sending half of the resource engine | rows, workspace, recovery, deletion, records and tickets |
| `LxmfEngineProofs` | theorems about `LxmfEngine` | |
| `MessageDelivery` | abstract: what the delivery of a message promises | verdicts of the sender, messages held by the receiver |
| `ResourceTransfer` | `RustResourceEngine.cpp` at both ends, with the receipts of `RustIncomingDelivery.cpp` | `_out`, `_in`, receipts, control frames, the network and the link |
| `ResourceTransferProofs` | theorems about `ResourceTransfer` | |
| `DeviceIdentity` | `IdentityManager.cpp`, `SettingsTransaction.cpp`, `UserConfig.cpp`, `FactoryReset.cpp`, the reset in `FlashStore.cpp`, `performMaintenance`, the order of a boot | every file, the NVS and the card; the catalogue and the settings in memory; the steps left of the operation |
| `DeviceIdentityProofs` | theorems about `DeviceIdentity` | |

`MCWriteQueue` and `MCMessageStore` define the requests the runs submit,
`MCMessageRecords` the small devices its runs look at, `MCIncomingDelivery` who
sends what. `MCLxmfEngine`, `MCDeviceService` and `MCDeviceIdentity` define
loads: an initial state chooses one, and with it the case that a behaviour looks
at, so that one run covers several small instances. The other components are
instantiated by their `.cfg` alone.

**WriteQueue.** The worker's loop is four actions (receive, start or drop,
execute, publish), so that every access of the owner falls between any two of
them. `submit` is one action, since only the owner writes the states it reads;
each `begin` chooses (`deferred`) whether a worker executes or `submit` itself
does, as its argument does in the code. `MaxSequence`
stands for the last ticket number. The executor is `\E r \in Results`: any
result. `TicketedExecutor` is a queue of tickets without slots; the refinement
maps slots to the fate of their tickets.

**MessageStore** extends `WriteQueue` and gives each request an effect on the
media, reduced to the number of records and of unread ones per conversation.
`poll` is a loop over the slots in the code, and it is a loop here (`scanAt`):
the worker may publish between two looks, which is what the ordering of
`nextReady` has to survive.

**AtomicStream** has one action per file-system call, with success and failure,
and `PowerLoss` at any time. A torn write is the value `Torn`. A boot may tidy the
files, as it does in the directories of small records, or leave them, as it
does in the message directories.

**MessageRecords.** A record copy is its path and its `.bak`; `AtomicStream`'s
own guarantee is used for what one write may leave behind (written, failed, cut
with the new or with the old value in place). Every operation is a sequence of
writes and removals in the order of the code (`op` holds the next one), each of
which may fail; the lease makes operations exclusive, the power loss does not
respect it. The limits of the code (last counter and revision, block of reserved
numbers, cache and card limits) are scaled down to a `device` that the initial
state chooses from a few, so that one run sees each limit reached without the
others getting in its way. Message bodies are left out; the identifier matters only to
recognise a message delivered again.

**ServiceMailbox.** An action is what one task does between two points where
the other could tell. `submit` is two: the store of Ready, and the store of the
ring's tail. `take` is one, since nothing the UI can do to a slot between the
pop and the exchange makes a difference but cancelling it, which commutes.
Completion is two: claim and publication. The ring is an array with head and
tail counters, as in the code, so that a wrap over reused slots is checked
rather than assumed.

**DeviceService.** The service task's cycle is spelled out with `pc`: `poll` in
the order of `DeviceService::poll` (lifecycle request, sends, network, sends,
storage results, maintenance) and then at most one command per poll; `tick`
runs two, which is the same cycle with the boundary left out. The engine's
decisions are taken in the network step because the engine runs inside the
service task; the storage worker, the helpers, the clock and the UI interleave
freely. A `Query` stands for the operations that complete where they are
executed. The generation never changes in the code (nothing assigns
`_status.generation`), so stale requests do not arise and are not modelled.
The radio is busy at any command it likes, and then holds back operations that
write inline, as `readyForCommand` does.

**TxQueue** holds the frames the radio has taken but not sent, each with its
receipt. Every step of the radio asks the owner of the receipts which frames
are live (`leaseLive`), and hands back those that leave. An offer is started,
queued, blocked or rejected, in the cases in which `send_outgoing` answers so.
Carrier sensing, pacing and split packets decide when the radio is ready; here
it may be at any moment.

**IncomingDelivery.** Copies of a message arrive as single packets, on a link,
or as the end of a resource. The visits of `poll` to the rows and to the
receipts are single actions, since the worker may answer in between. Receipts
have their generation number, and a slot whose number is used up is not used
again (`Worn` slots begin near the end); rows have none in the model, and
`Consistent` says that no receipt outlives its row. One action is one call of
the protocol task, which runs `accept`, the hook and `dropPeer` without
interruption; the worker and the radio come in between.

**LxmfEngine.** A visit of `loop` to a row is an action, and the settlement of
its ticket another. What an attempt needs (a route, a key, a link, room in the
radio) is there or not, so an attempt ends in any of the ways it can. Time is
not followed: proof and retry times may have come at any visit, and a proof may
come at any time after a transmission. The store answers each kind of ticket in
any way it can, and the records keep the status written last. `TruthfulStatus` is
the promise of the repository's `README.md:61`: sent means that transmission
started, delivered that a proof was verified. `history` records
what was withdrawn and whether a frame of such a message went out after all.
Observations made while modelling, which contradict no statement of the
repository: a frame still in the queue of the radio when its row goes from
grace to a retry sets the status to sent again, and the stop turns it back to
queued (both in the sense of "sent means transmission started"); a recovery
query executed before a deletion and settled after it makes a row whose reads
and updates fail until the stop, which therefore settles such rows with an
error; a cancellation is not written to the record, so a message cancelled
after it was saved is sent after the next start; one record that cannot be read
makes `pending` fail as a whole, and recovery asks again without end; a row
whose status the store keeps refusing may miss its turn
(`EveryMessageTried` is about rows whose last status is saved).

**ResourceTransfer** puts a sender and a receiver together over a network that
loses and reorders frames. All deadlines are choices: each may pass at any
moment. `trouble` is a history variable that marks what a transfer need not
survive: a deadline that passed while frames were on their way (a deadline
longer than the trip, as in the code, does not), a cancellation, a refusal, a
lost proof or control frame, more losses than `MaxLost`, a new link. The window
the codec keeps is any of `Windows`. Observations: a lost proof is not repeated,
so the sender reports a failure although the message is stored; a request that
names another resource counts as an answer (`RustResourceEngine.cpp:276`); the
receipt's own deadline (`:363`) is the same as the transfer's (`:366`) and is
looked at first, so the sender is usually not told that it passed; a receiver
busy with an abandoned transfer refuses the next one until its deadline.

**DeviceIdentity.** Each file is an atomic register, which is what `AtomicStream`
shows; what is open is what the files say together. `todo` holds the steps left
of the operation under way, in the order of the code; a step makes at most one
write, which succeeds or (in a load with faults) fails, and power may be lost
before any of them. A boot is such a sequence too: restore the settings from the
card, import the key of an old device, validate the active slot, adopt
`PATH_IDENTITY`, flush, recover the name, load or create the identity, recover
again, run. A step that refuses halts the device, as the endless loops of `setup`
do. The settings are reduced to what ties them to the catalogue: whose name they
carry, whether it is pending, and the name (`nameComplete` goes with it). `card`
stands for the copy on the SD card and, on the Cardputer, in the NVS. Reads
succeed; a file may vanish altogether (`FileLost`) while the device is off.
`deleteIdentity` has no caller and is left out. Observations, all in the model
and none a promise of the code: power lost between the very first key file and
`PATH_IDENTITY` leaves a device that finds identity data, no identity, and refuses
for ever (`Stillborn`); a power loss between a key file and its catalogue leaves a
file that is never used again, and 16 of them use up the numbers (`Exhausted`); a
reset intent that is cut while it is written leaves a device that can only be
erased; a `switchTo` that fails after `PATH_IDENTITY` was replaced is reported
as failed and takes effect at the next boot; `createIdentity` may report a
failure and have created the identity; a reset of the device alone leaves the
settings on the card, which the next boot restores, though without the name.

One more observation is an exception to `Consistent`. `begin` gives the slot of an
old catalogue a key file of its own; when that write fails
(`IdentityManager.cpp:79`) the boot goes on and the slot keeps naming
`PATH_IDENTITY`. Two ways then lead to the loss of a key. A switch
(`:393`) replaces `PATH_IDENTITY`, which held the only copy of the old slot's key.
Or `createIdentity` takes the first free number, perhaps the 0 that the old slot
was to get, and the migration at the next boot (`:72`) writes over that file: the
comment at `:198` fears a number that "collides with a surviving slot's file and
would overwrite its key", and `nextFreeSlotNum` avoids it, but the migration does
not ask whether its number is free. The device `legacy` has failing
writes like the others, and `unmigrated` remembers that such a write failed.
From then on, until a reset, `Consistent` asks no more than that every identity is
listed once and the active one has its key; on every other device it asks for the
keys of all (`KeysKept`). The other three properties make no exception for it.

Operators preceded by a comment that begins with "Faulty variant" are not used
by any definition. Each is what a plausible bug would make of the definition
below it; replacing one by the other must break the property that
`PROJECT.json` names under "mutants", which shows that the property depends on
that line of the code.

## 3. Runs

| run | bounds | shows |
|---|---|---|
| `queue` | 2 ordinary slots (one large), 2 reserved, 4 tickets, with and without a worker | stop always has a place; cancelled requests are not executed and the published result is the true fate; the owner changes only when all is quiet; refinement of `TicketedExecutor`; every request is answered |
| `store` | 2 peers, 1 ordinary slot and 2 reserved, 3 tickets, one unread record of one peer or the other at start | totals exact; results settle in order and once; nothing behind a deletion; every fence lifts |
| `atomic_file` | 3 values | refinement of `AtomicFile`: reads never find a torn or a lost value |
| `records` | 4 devices: 1 record with 4 revisions; 3 records of one message with a cache of one; numbers to 3 in blocks of 2 with a card that comes and goes; limits of 0 on flash and 1 on the card | what was acknowledged is what is read; delivered stays delivered; one record per message, however often it is delivered; no number is used twice; no deleted record returns |
| `records_card_away` | 1 record, 3 revisions, a card that comes and goes | a finding, see below |
| `mailbox` | 3 ordinary slots and 1 lifecycle slot, 3 blocks of which a request takes up to 2, 4 requests | order of admission, ring against slots, credits and blocks |
| `service` | 2 ordinary slots; 3 requests (writes, queries, a restart) or 2 of any kind in a world that need not answer, 2 in one that does | quiet teardown; every running slot has one owner; cancelled messages stay silent; failed operations are not performed; lifecycle requests are answered though nothing else moves; ordinary ones are if the world answers |
| `incoming` | 2 rows, 2 receipt slots (one almost worn out), a message and a reaction of one peer and a message of another, 1 control frame, a queue of 1 | rows, receipts and queue agree; a proof only of a durable message; silence after a deletion, a stop or a closed link; a stop frees everything |
| `outgoing` | 2 records and a queue of 1, for 1 row with 2 attempts, resources and stop; 1 row with 1 attempt, a record to recover, cancellation, deletion and stop; 2 rows with 1 attempt | rows, workspace, tickets and frames agree; the status is true; withdrawn messages are not transmitted; a stop comes to an end; rows that share the workspace get their turn |
| `transfer` | 2 messages of 2 parts, 1 repetition of each kind, 2 frames on the way, 1 control frame retained, 2 links, 1 loss to survive | receipts agree with the transfer; refinement of `MessageDelivery`; every transfer ends, with a delivery unless something happened that it need not survive |
| `identity` | 3 identities, a catalogue of 2, 3 key files, 1 name; new, pre-slot and legacy devices, failing writes, or lost files | files, NVS and catalogue agree, every identity stays listed, and none loses its key unless an old slot missed its migration; the name is the one last given; the device comes up, except in three known cases; it comes up only as an identity it was told to use |
| `identity_lost` | 3 identities, catalogue of 3, 4 key files, key file and `PATH_IDENTITY` may be lost | a finding, see below |

`AckedIsDurable`, `DeliveredStaysDelivered` and `OneRecordPerMessage` are about
devices whose card stays; a device without its card cannot show what only the
card took. `CountersFresh` and `DeletedStaysDeleted` are about all of them.

Why these bounds are enough to meet the cases: `queue` fills every class of
slot and the queue itself while a fourth ticket is waiting for a slot, which is
how a missing place for the sentinel shows up. `store` has room for a save, a
deletion and a status update at once, the three kinds the fence tells apart; a
second peer shows that the fence holds back only its own. In `mailbox` the
fourth request wraps the ring of three while slots are freed in any order, and
two requests of two blocks do not fit together in an arena of three. In
`service` two ordinary requests (one retained, one waiting) and the lifecycle
request, or a lifecycle request that fails and the forced restart after it,
are the interactions of the barrier. Two sends and a restart together are left
out, since liveness over their states takes minutes; the safety properties are
proved for any number of requests. `MaxBlocks` is 0 there because blocks are
checked in `mailbox`. In `records` four revisions are one creation and enough
updates for one medium to fall behind, recover, and fall behind again; three
numbers in blocks of two let a reservation be lost with the power half used.
In `incoming` a second copy of a message takes the receipt that a control frame
or a reservation needs, a queue of one makes an eligible proof wait, and three
generations use a slot again after its frame is still with the radio. `outgoing`
has one row so that the new message after a retired one takes the same row
while old frames and tickets are still out; a load of two rows has them compete
for the workspace, without the clients the others have. Its uses are divided
among the loads because all of them together take minutes: no load cancels a
message while its resource is under way, a case the theorems about
`LxmfEngine` cover for safety. In
`transfer` one part may arrive while the other is lost, a budget of one
repetition is used up and then runs out, a full pool refuses a refusal, and the
second message starts while frames of the first are on their way. In `identity`
a third identity meets a full catalogue, the third key file is the one an
interrupted creation wasted, and any number of boots, switches, changes of the
name and resets may follow each other, since nothing in the model counts them.

`CHECK_DEADLOCK FALSE` is given where the system stops by design: in `mailbox`
and `service` when the identifiers of the bound are used up or the device is
restarting, and in `transfer` when both messages were sent.

## 4. Fairness

`queue` and `store` assume weak fairness of the worker: it is a task of its own
that blocks only in the queue, and FreeRTOS schedules it. `store` also assumes
that the owner polls, as `DeviceService::poll` does on every tick. Nothing is
assumed of clients: they may never release a result.

`service` assumes that the service task keeps running and that time passes, and
`LifecycleAnswered` needs no more: half of its behaviours assume nothing else. In
the others (`load.answering`) the UI also finishes `submit` and reads its
results (its main loop does nothing else), the storage worker answers
(which `queue` shows), and strong fairness of the engine's decision and of
commands holds: the engine's loop runs in every network step and decides each message
once its storage result is there, and the radio, which may hold back a command,
is not busy at every one.

`incoming` and `outgoing` assume that the worker executes its tickets, that the
protocol task polls every row and receipt, and that the radio drains its queue;
each is a loop that runs on every tick. `StopDrains` and `StopResolves` need no
more. `EveryMessageTried` needs strong fairness of a row's turn:
the loop visits the rows from a rotating cursor, the workspace is released at
its holder's visit, and the next ready row in order takes it. `transfer`
assumes that both loops, the store and the radio go on, and that frames that
are not lost arrive; nothing is assumed of cancellations, losses or links.
`identity` has no liveness property: a halted boot is a state (`phase`), so that
coming up is an invariant.

## 5. What is proved

For every value of the constants allowed by the assumptions in the modules:

*AtomicStreamProofs.* `Invariance`: the conjunction of `TypeOK` and
`StepsInOrder` is inductive: it says which of the three files may exist at each
step of the writer, and what they hold. With it each step of the protocol is a
step of `AtomicFile` or changes nothing there (`Refinement`), power loss and
the boot that tidies included, and a file that was ever readable stays readable
(`CopySafety`).

*MessageStoreProofs, the queue.* The properties of `WriteQueue` are not inductive. `Inv`
adds to the type invariant that `outstanding` counts the slots in use, that
tickets in use are distinct and not yet to come, and what has been recorded of
each ticket's fate agrees with the state of its slot; from it follow `Typing`
and `CancelSafety` (a cancelled request was not and will not be executed, and a
published result is the truth). `QueueInv` says that the queue holds exactly
the slots that wait, each once, and the sentinel at most once and last;
`StopInv` ties the flags of the shutdown to the worker. `Credit` derives by a
pigeonhole argument (an injection of the queue into the slots) that the queue
has a place left, from which `StopSafety`, `FinishSafety`, `HandoffSafety` and
`HeldOnce` follow.

`Refinement` (in the same module): every step of `WriteQueue` is a step of
`TicketedExecutor` or changes nothing there. The mapping counts the tickets that
are open, and a count says nothing about their order, so `OrderInv` adds it: the
queue holds the last tickets handed out in the order of their numbers, the one
taken from the queue comes before them, and the one being answered before that.
Hence the open tickets are an interval (`OpenIsInterval`) and the counts of the
mapping are its ends (`MappingHolds`); a step that claims or drops decides the
first of them and no other (`OrderNext`). That the queue always takes what is
submitted (`Credit`) is needed here too: a number given out and not queued would
leave a gap.

*MessageStoreProofs, the owner.* For every number of slots, every set of requests and every
bound on tickets. `StoreInv` says that tickets never run ahead of the counter,
that a slot in the worker's hands is in use, that the scan of `nextReady` holds
the oldest unsettled ticket among the slots it has passed (`ScanInv`: the worker
may publish behind it, which changes no ticket), that a raised fence is the
ticket of the deletion in the slot kept for deletions (`FenceInv`), and
`NothingBehindDelete`. The fence is lifted only when that ticket is settled, and
by `ScanInv` nothing younger is settled before. From it follow `FenceSafety`,
`FenceIsDeletion` and `SettleOrder`.

`Totals` (in the same module): no induction over the peers is needed, because a
sum is defined as the number of marks, as many for each peer as its count says
(`Sum`), so that what one changed count does to it is a fact about cardinalities
(`SumSplit`). `TotalsExact` alone is not inductive: a delta could be cut off at
zero when it is added. `BooksInv` says more. After each of the pending deltas,
taken in the order of their tickets, the total is a count that the media once
had, hence neither negative nor above the number of peers (`Books`). A report
extends this at the end, since the worker decides tickets in order (`OrderInv` of
the queue: everything pending is older than what is being executed,
`OlderPending`); settling takes from the front, since the scan found the oldest
(`ScanInv`); and nothing that settle ignores has a delta (`ReportInv`). The
theorem has one premise: the set `Results` of the queue holds all `Reports`.

*ResourceTransferProofs.* For every number of messages, parts and links and
every budget. `Inv` adds to `Consistent` that a proof on the way is that of a
stored message, that the pool of control frames holds no proof, that the
message under way has no outcome, and that the receiver's transfer is of the
present link or an earlier one. The first is what makes "delivered" true: a
proof may arrive long after its receipt is gone, so nothing else in the state
says that the message was stored; the last is needed when a link is replaced,
or a new number could revive an old receipt. From it follow `Consistency`,
`ProofSafety` and `Refinement` (every step is a step of `MessageDelivery` or
leaves verdicts and held messages alone).

*IncomingDeliveryProofs.* For every number of rows, receipts, peers and messages,
every length of the radio's queue and every bound on the generations. `Inv` says
that what is called committed is stored and a row of a deleted conversation is
invisible (`RowsAgree`), that a row holds exactly the receipts that point at it
(`Masks`), and, the heart of it, that a frame in the queue whose receipt is still
held *under the same generation* names the receipt's message and its peer and was
not revoked (`FramesAgree`). A frame of an earlier generation may say anything: it
is not held, so `ReceiptLive` refuses it when it reaches the radio. The actions
are compositions of few changes (receipts retired, a receipt taken, rows changed,
frames gone, the link changed), and one lemma for each says that it keeps the
agreement; the step of an action cites them. From it follow `ProofSafety` (only a
stored message or a reaction is proved) and `Silence` (nothing is proved or
announced after its deletion).

`Consistency` (in the same module) is about the bookkeeping, and `Consistent` is
far from inductive: that a queued receipt has its frame says nothing about a
receipt that is about to be queued, and that a message has one row says nothing
about a row whose ticket comes back late. `Books` adds what both rest on
(`Settled`): a row's ticket is out exactly while the store decides, or the row is
invisible and has no proofs left; a receipt is reserved exactly until its row is
committed; a held frame belongs to a queued receipt; and no two frames are of one
receipt and generation (`Single`). `Single` needs the places of the queue, not
only its contents: a filter keeps the order of what it keeps (`KeptFacts`, by the
rank of each place), and a frame is pushed only for a receipt that was not queued.
The steps fall into three kinds: rows and receipts are given up (`Lessens`,
`Retires`), a receipt is taken under its next generation, so that what the queue
holds of it is no longer held, or a proof is offered. `StopDrains` stays with the
run.

*MessageRecordsProofs.* For every number of records, numbers and revisions and
every set of devices. `DeviceInv` holds of all devices: each number in use is below
the counter in memory and below the ceiling in the NVS, so that a boot, which
starts from the ceiling, cannot give it out again; the tombstone covers exactly
what was deleted, and a tombstone still to be written covers all there is; the
operation under way writes a new record only under a fresh number and changes an
old one only while it can be read. From it follow `FreshNumbers` and
`DeletionHolds`. `CardInv` holds of a device whose card stays. No step takes the
newest copy of a record away without leaving one as new (`Lasting`): a failed write
leaves the value under its path or its backup (`Preserves`), a completed one
replaces it by a newer (`Renews`), a removal is of a copy that the other medium has
as new, or that expired. What is being committed is the newest of its record
(`RevisionsInv`), which is what makes a commit after a half-failed one safe:
copies of one revision are equal. `CardStepKeeps` draws the conclusion once for
all steps, and what remains for each action is to show that it is such a step. From
it follow `AckedRecords`, `OneRecord` (all copies under a number are of one
message, and no two numbers are of the same) and `DeliveredStays`, where the
premise on the limits of the card enters: on a card with room for every record
nothing is ever dropped (`DropsNone`, by counting). How the first premise fails is
the first finding below.

*LxmfEngineProofs.* For every number of rows, records, attempts and recovered
messages, every length of the radio's queue and every set of uses. What is true of
each row on its own is a predicate of that row and of the world around it
(`RowInv`): its ticket, phase, flags and status fit together and its status is true
(`RowOK`); its record holds its durable status, or the update that was answered and
not yet settled (`Recorded`); once its message is withdrawn it is suppressed, unless
its save is still with the store (`Silenced`); it is sent only after its record was
read, and a deletion that follows suppresses it before the record goes (`Backed`);
and while the recovery runs, rows and withdrawals are about records behind the
cursor, what was found is ahead of it (`Passed`). Few conditions relate rows: no two
are about one record and one at a time asks for the next (`Apart`), the workspace
and the transfer belong to the row that uses them (`Shared`), each open ticket is
with the worker once (`JobsInv`), the frames of the queue are of the message their
row is about and are counted (`FramesInv`), and there is room for what is being
saved (`Room`).

`FramesInv` is what lets a row be used again: a row is retired only when it counts
no frame, hence no frame of an earlier message can meet a later one. `Passed` is
what keeps two rows from recovering one record, and `Backed` is needed because the
radio asks only the row whether a frame may go, never the record. The proof says
first what each step makes of its own row (from a call on, step by step: the
answer of the store, the attempt, the proof, the age), then that it leaves the
others as they were, or only suppresses them or the like (`Follows`, `Alike`). From
it follow `Consistency`, `Truth` and `Silence`: a transmission is of a frame whose
row is live under its variant (`ReceiptLive`), or the next part of a resource in its
phase, and neither holds of a row that is suppressed (`NotWrong`). That the
stop comes to an end and each message has its turn stays with the run.

*DeviceServiceProofs, the mailbox.* For every number of slots, blocks and identifiers.
`MailboxInv` says that each entry of the ring between head and tail names a slot that
waits, that a waiting slot is named by one entry, that identifiers grow along
the ring and have been given out, and that the places behind the tail are free
to be written. The ring is an array of as many places as slots, indexed by
counters that only grow; two lemmas carry the argument: counters less than a
round apart name different places, and while a slot is being published the
ring has a place left, since its entries name different slots and none of them
is that one. From it follow `RingSafety`, `OrderSafety` (requests are taken in
the order of their admission) and `CreditSafety`.

*DeviceServiceProofs, the service.* For every number of slots, blocks and identifiers and
every set of loads; `Outcomes` must hold the four answers the service gives
(`OutcomesAssumption`). An action of the service is one of the mailbox, or
completes slots that run, or moves the lifecycle slot (`StepsOfMailbox`), so
`MailboxInv` holds in the whole (`MailboxStep`). `BarrierInv` ties the phase of
the barrier to the lifecycle slot, to the door (`accepting` only while running
and with that slot free) and to the state reported. `Quiet` then is inductive:
the step that claims the operation has just looked at the slots, the engine, the
helpers and the worker, and where the door is shut and nothing ordinary is
pending nothing becomes so (`NoNewWork`). From it follow `Teardown` and, since a
reported failure finds the barrier running or failed, `FailureIsFinal`. `OwnInv`
names for each running slot the party that will complete it (the service at this
step, the engine's ticket or the storage ticket) and gives `Ownership`.
`SilenceInv` says of a cancelled message that the engine holds: the engine knows,
or the slot is marked and the service has still to claim it. It needs that an
identifier names one request, before and after its result was seen (`NamesInv`).
From both follows `CancelSilence`: a result is shown only by claiming it, and the
claim fails on a marked slot.

*DeviceIdentityProofs.* For every number of identities, names, slots and key files.
The theorems have one premise, `Healthy`: the flash may lose the settings file and
the NVS its key, but not the key files, `PATH_IDENTITY` or the catalogue; without
it, TLC finds what `identity_lost` shows. Within it any write may fail, on each of
the three devices, and the power may be lost before any step, as often as one likes.

None of the four properties is inductive: they speak of the idle service, of the
start or of a halt, and an operation is many steps away from each. `DiskInv` says
what the files hold together whenever no reset is under way: nothing that was used;
or a key that no catalogue lists yet; or a catalogue whose slots have hashes of
their own, one of them active, `PATH_IDENTITY` among them, each key in a file of
its own unless an old slot missed its migration (`Homed`), and each name the one last given, but for the active one where the settings
tell it (`Unsettled`). It is all a power loss leaves, so a boot must get by with
it. `Stage` says what the memory holds beside the files, for each position of the
steps still to be taken: in a boot (`Read`, `Imported`, `Adopted`, `Recovering`,
`Creating`, `Reconciling`), in the service, in a switch and in a reset. `Up` is
what all of them reach for: the catalogue in memory has one active slot, that of
`PATH_IDENTITY`, whose key is in place whatever became of the others; and it lists at least what the file lists
(`Contained`), which is what allows a write of the catalogue to fail. The steps
that are left are sequences of words, each of which is told from the others by its
first word and its rest (`InOrder`), so that each action is possible at few. Two
places carry the weight: `Recover` must find the slot of the settings once and only
once, from `Distinct` and `NamedBy`; and a key file that is written is one that no
slot names, since the number is that of no file and of no slot, so that, where
every slot has its file (`Filed`), no step takes a key from its slot. From the
invariant follow `ConsistentAlways`, `NamesAreAlwaysKept` and `ComesUpAlways`, and,
with the one step that starts the service (`OnlyRun`), `RunsAsChosenAlways`.

Assumptions on constants are only those the code guarantees by construction: at
least one ordinary slot, at least one row and one attempt of a message
(`EngineAssumption`: both are positive constants of `RustLxmfEngine.h`), the
special values differ from the others (`MarksAssumption`: no file is not a
record; `ForeignAssumption`: a frame without a receipt is none of ours), the
answers of the service are among the outcomes, there are finitely many peers
(`PeersAssumption`), what the media hold at start are counts, no more records
are unread than there are, there is a number for the key file of every slot
(`Parameters`), and a missing file is not mistaken for one that was written
(`Missing`).

Only model-checked: liveness and fairness (out of reach of the prover), and
`DeviceIdentity` on a flash that loses key files, `PATH_IDENTITY` or the catalogue.
There the catalogue may name files that are gone and list less than was made, and
the invariant would need a weaker `DiskInv` for each of the losses.
The type invariants of `AtomicStream` and `WriteQueue` are proved and appear in
no run.

## 6. Findings

`MessageTransactions.cpp:368` says "A proof-confirmed record cannot regress".
The run `records_card_away` shows a history in which one does: the update to
delivered succeeds on the card and fails on the flash, which is a success for
`update`. The device is then booted without the card. The flash copy, still
"sent", may be updated, and reaches the same revision number as the delivered
copy on the card. When the card is back, `load` prefers the flash copy among
equal revisions.

A second way leads there on a device whose card never leaves, with a card limit
below the number of records: `trim` removes an expired record from the card
before its flash copy. When the flash copy is older (its last write failed) and
power is lost in between, the older status is read from then on. Since the
record was about to expire, no run is spent on it; `DeliveredStaysDelivered`
names the limit in its premise.

`ProtocolRuntime.cpp:164` says "Flash slot/path loss falls back to the NVS mirror
before any new identity is generated". The run `identity_lost` loses the key file
of the active slot and `PATH_IDENTITY`, with the key still in the NVS and the
identity still in the catalogue. The boot takes the active mark from the slot,
restores the key from the NVS, but as a second slot of the same hash; then
`SettingsTransaction::recover` refuses, because `validateSlot` wants a hash to be
listed once, and the device halts with "Settings recovery required". By then the
catalogue with two slots is saved, so every later boot halts too. When only
one of the two files is lost the device comes up (`AlwaysComesUp`).

## 7. What is not modelled

- Contents: record formats, JSON, encryption, packet encodings, message bodies,
  names of contacts. The properties here do not depend on them.
- Hardware: radio registers, SPI, display, input, power. Screens, boards and
  fonts, which are most of the repository's lines, have no state that another
  task depends on.
- Durations. Every model lets a deadline pass at any moment; what depends on how
  long something takes (carrier sensing, pacing, back-off of connections,
  announce intervals, keep-alives of links) is therefore left out.
- The status snapshot of the mailbox: a copy under a spin flag.
- Settings, scans and the paging of history inside `DeviceService`; the settings
  other than the name, and their migration.
- The contact list of `AnnounceManager`.
- Failing reads of the identity files. A read that fails once, while the key is in
  the NVS, leads to the duplicate slot described above.
- The path table, announces and link handshake; TCP, Wi-Fi and automatic
  interfaces.

`PROJECT.json` lists every component with its status.

## 8. What could come next

The path table with its bounded number of entries, the retries of connections
reduced to their order, and the paging windows over a store that changes.
Proofs still worth having: the invariants of `DeviceIdentity` on a flash that may
also lose one of the key files, `PATH_IDENTITY` or the catalogue.
