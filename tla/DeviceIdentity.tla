---------------------------- MODULE DeviceIdentity ---------------------------
(***************************************************************************)
(* Who the device is: the catalogue of identities                          *)
(* (core/reticulum/IdentityManager.cpp), the name each of them shows       *)
(* (core/config/SettingsTransaction.cpp, UserConfig.cpp), how a boot       *)
(* settles them (boards/*/main.cpp, core/protocol/ProtocolRuntime.cpp) and *)
(* the factory reset (core/runtime/FactoryReset.cpp, FlashStore.cpp).      *)
(*                                                                         *)
(* What belongs together is spread over several files and the NVS.  Each   *)
(* is replaced as a whole (module AtomicFile), but power may be lost, or a *)
(* write may fail, between any two of them.  todo holds the steps that are *)
(* left of the operation under way; a step makes at most one write.        *)
(***************************************************************************)
EXTENDS Integers, Sequences, FiniteSets

CONSTANTS
  Identities,     \* private keys, and their hashes
  Names,          \* display names other than the empty one
  MaxIdentities,  \* slots of the catalogue
  KeyFiles,       \* numbers of the key files, 0 to some maximum
  Loads,          \* what a run looks at, see below
  None, Absent    \* no key; no file

ASSUME Parameters ==
  /\ MaxIdentities \in Nat \ {0}
  /\ KeyFiles \subseteq Nat /\ 0 .. MaxIdentities - 1 \subseteq KeyFiles
  /\ None \notin Identities

\* A load says on which device a behaviour starts, whether writes may fail,
\* and which files the flash may lose although nothing wrote to them.
Devices == {"new", "preslot", "legacy"}
Files == {"key", "mirror", "catalogue", "nvs", "config"}
ASSUME Workloads ==
  Loads \subseteq [device : Devices, faults : BOOLEAN, losable : SUBSET Files]

PathIdentity == -1      \* PATH_IDENTITY as the path of a slot (old catalogues)
Unnamed == ""

VARIABLES
  keyFile,    \* keyFile[n]: /identity/id_n.key
  mirror,     \* /identity/identity.key, the file PATH_IDENTITY
  metadata,   \* /identity/slots.json
  privkey,    \* the key in the NVS
  config,     \* the saved settings: whose name, whether it is still to settle, the name
  card,       \* the copy of the settings on the SD card
  scope,      \* /.factory-reset
  slots,      \* _slots
  dirty,      \* _metadataDirty
  nvsPending, \* _nvsMirrorPending
  settings,   \* the effective settings, and whether they came from the flash
  phase,      \* what the device is doing
  todo,       \* the steps left of the operation under way
  subject,    \* the identity that operation is about, and its key file
  load,       \* the load, constant through a behaviour
  lost,       \* history: the files lost
  faulty,     \* history: a write has failed since the device was started
  made,       \* history: the identities that ever existed
  known,      \* history: the identities that were saved in a catalogue and by key
  nameOf,     \* history: the name each identity was given last
  chosen,     \* history: the identities the device may come up with
  unmigrated  \* history: a slot of an old catalogue could not be given its file

keys == <<keyFile, mirror, metadata, privkey>>
disk == <<keys, config, card, scope>>
memory == <<slots, dirty, nvsPending, settings>>
history == <<made, known, nameOf, chosen, unmigrated>>
control == <<phase, todo, faulty>>
vars == <<disk, memory, control, subject, load, lost, history>>

Slot == [hash : Identities, path : KeyFiles \cup {PathIdentity}, active : BOOLEAN,
         name : Names \cup {Unnamed}]
\* A file that is missing is none that was written.
Settings == [bound : Identities \cup {None}, pending : BOOLEAN, name : Names \cup {Unnamed}]
Copies == [bound : Identities \cup {None}, name : Names \cup {Unnamed}]
ASSUME Missing == Absent \notin Seq(Slot) /\ Absent \notin Settings /\ Absent \notin Copies

NoSubject == [key |-> None, path |-> 0]
DefaultSettings == [bound |-> None, pending |-> FALSE, name |-> Unnamed, flash |-> FALSE]

Hashes(s) == {s[i].hash : i \in DOMAIN s}
Paths(s) == {s[i].path : i \in DOMAIN s}
Least(S) == CHOOSE n \in S : \A m \in S : n <= m
IndexOf(s, h) == Least({i \in DOMAIN s : s[i].hash = h})
ActiveOf(s) == {s[i].hash : i \in {j \in DOMAIN s : s[j].active}}

\* _activeIdx, 0 for none.
Active == IF ActiveOf(slots) = {} THEN 0 ELSE Least({i \in DOMAIN slots : slots[i].active})
Running == slots[Active].hash

Activate(s, i) == [j \in DOMAIN s |-> [s[j] EXCEPT !.active = (j = i)]]
NewSlot(h, n, on) == [hash |-> h, path |-> n, active |-> on, name |-> Unnamed]

KeyAt(n) == IF n = PathIdentity THEN mirror ELSE keyFile[n]
KeyMatches(i) == KeyAt(slots[i].path) = slots[i].hash
WithKeys == {slots[i].hash : i \in {j \in DOMAIN slots : KeyMatches(j)}}

ValidateSlot(i) ==
  /\ i # 0
  /\ \A j \in DOMAIN slots \ {i} : slots[j].hash # slots[i].hash
  /\ KeyMatches(i)

FreeFiles == {n \in KeyFiles \ Paths(slots) : keyFile[n] = None}
HasIdentityData ==
  mirror # None \/ metadata # Absent \/ privkey # None \/ \E n \in KeyFiles : keyFile[n] # None
Fresh == Identities \ made
-----------------------------------------------------------------------------
(* A new device, one from before there were slots, and one whose catalogue *)
(* still names PATH_IDENTITY as the key of its only slot.                  *)

Init ==
  /\ load \in Loads
  /\ \E h \in Identities :
       LET old == load.device # "new"
           legacy == <<NewSlot(h, PathIdentity, TRUE)>>
       IN /\ mirror = IF old THEN h ELSE None
          /\ metadata = IF load.device = "legacy" THEN legacy ELSE Absent
          /\ privkey \in IF old THEN {None, h} ELSE {None}
          /\ made = IF old THEN {h} ELSE {}
          /\ known = IF old THEN {h} ELSE {}
          /\ chosen = IF old THEN {h} ELSE Identities
  /\ keyFile = [n \in KeyFiles |-> None]
  /\ config = Absent /\ card = Absent /\ scope = "clear"
  /\ slots = <<>> /\ dirty = FALSE /\ nvsPending = FALSE
  /\ settings = DefaultSettings
  /\ phase = "off" /\ todo = <<>> /\ subject = NoSubject
  /\ lost = {} /\ faulty = FALSE /\ unmigrated = FALSE
  /\ nameOf = [h \in Identities |-> Unnamed]

At(steps) == todo # <<>> /\ Head(todo) \in steps
Idle == phase = "running" /\ todo = <<>>

\* How a step ends: the next one follows; other steps come first; the
\* operation is given up; a write failed and it is given up; a write failed
\* and it goes on.
Proceed == todo' = Tail(todo) /\ UNCHANGED <<phase, faulty>>
Insert(steps) == todo' = steps \o Tail(todo) /\ UNCHANGED <<phase, faulty>>
GivenUp ==
  /\ todo' = <<>>
  /\ phase' = IF phase = "booting" THEN "halted"
              ELSE IF phase = "maintenance" THEN "stopped" ELSE phase
Refuse == GivenUp /\ UNCHANGED faulty
Fail == load.faults /\ GivenUp /\ faulty' = TRUE
Tolerate == load.faults /\ todo' = Tail(todo) /\ faulty' = TRUE /\ UNCHANGED phase
-----------------------------------------------------------------------------
(* IdentityManager: the two writes that end every change.                  *)

\* saveSlotMeta, in an operation that needs it ("meta") or in flushPending.
SaveSlotMeta ==
  /\ At({"meta", "flushMeta"})
  /\ \/ /\ Head(todo) = "flushMeta" /\ ~dirty
        /\ Proceed /\ UNCHANGED <<metadata, dirty, known>>
     \/ /\ Head(todo) = "meta" \/ dirty
        /\ metadata' = slots /\ dirty' = FALSE
        /\ known' = known \cup WithKeys
        /\ Proceed
     \/ /\ Head(todo) = "meta" \/ dirty
        /\ dirty' = TRUE
        /\ IF Head(todo) = "meta" THEN Fail ELSE Tolerate
        /\ UNCHANGED <<metadata, known>>
  /\ UNCHANGED <<keyFile, mirror, privkey, config, card, scope, slots, nvsPending, settings,
                 subject, load, lost, made, nameOf, chosen, unmigrated>>

\* mirrorActiveIdentityToNvs, in an operation that needs it ("nvs"), in one
\* that does not ("tryNvs"), or at the end of flushPending, which needs both.
FlushEnds(ok) == IF ok /\ ~dirty THEN Proceed ELSE Refuse

MirrorToNvs ==
  /\ At({"nvs", "tryNvs", "flushNvs"})
  /\ LET step == Head(todo)
         wanted == Active # 0 /\ KeyMatches(Active) /\ (step = "flushNvs" => nvsPending)
     IN \/ /\ ~wanted
           /\ CASE step = "nvs" -> Refuse
                [] step = "tryNvs" -> Proceed
                [] step = "flushNvs" -> FlushEnds(~nvsPending)
           /\ UNCHANGED <<privkey, nvsPending>>
        \/ /\ wanted
           /\ privkey' = Running /\ nvsPending' = FALSE
           /\ IF step = "flushNvs" THEN FlushEnds(TRUE) ELSE Proceed
        \/ /\ wanted
           /\ nvsPending' = TRUE
           /\ IF step = "tryNvs" THEN Tolerate ELSE Fail
           /\ UNCHANGED privkey
  /\ UNCHANGED <<keyFile, mirror, metadata, config, card, scope, slots, dirty, settings,
                 subject, load, lost, history>>
-----------------------------------------------------------------------------
(* A boot.                                                                 *)

\* Faulty variant: a pending reset does not keep the old data from being read.
MayLoadAnyway == TRUE
MayLoad == scope = "clear"

\* UserConfig::load, IdentityManager::loadSlotMeta, or the reset recovery.
Start ==
  /\ phase = "off"
  /\ faulty' = FALSE
  /\ IF MayLoad
     THEN /\ phase' = "booting"
          /\ slots' = IF metadata = Absent THEN <<>> ELSE metadata
          /\ settings' = IF config = Absent THEN DefaultSettings
                         ELSE [bound |-> config.bound, pending |-> config.pending,
                               name |-> config.name, flash |-> TRUE]
          /\ \E restore \in IF config = Absent /\ card # Absent
                            THEN {<<>>, <<"restore">>} ELSE {<<>>} :
               todo' = restore \o
                 <<"import", "activate", "adopt", "tryNvs", "flushMeta", "flushNvs",
                   "recover", "identity", "reconcile", "run">>
     ELSE /\ phase' = "recovery"
          /\ UNCHANGED <<slots, settings, todo>>
  /\ UNCHANGED <<disk, dirty, nvsPending, subject, load, lost, history>>

\* UserConfig::load, from the card.
RestoreSettings ==
  /\ At({"restore"})
  /\ \/ /\ config' = [bound |-> card.bound, pending |-> FALSE, name |-> card.name]
        /\ settings' = [bound |-> card.bound, pending |-> FALSE, name |-> card.name,
                        flash |-> FALSE]
        /\ Proceed
     \/ Fail /\ UNCHANGED <<config, settings>>
  /\ UNCHANGED <<keys, card, scope, slots, dirty, nvsPending, subject, load, lost, history>>

\* IdentityManager::begin: without a catalogue the key in PATH_IDENTITY
\* becomes its first slot; with an old one that key moves to a file of its own.
OldSlots == {i \in DOMAIN slots : slots[i].path = PathIdentity /\ mirror = slots[i].hash}

ImportKey ==
  /\ At({"import"})
  /\ LET first == slots = <<>> /\ mirror # None
         i == Least(OldSlots)
     IN \/ /\ first /\ privkey \notin {None, mirror}
           /\ Refuse /\ UNCHANGED <<keyFile, slots, dirty, unmigrated>>
        \/ /\ first /\ privkey \in {None, mirror}
           /\ keyFile' = [keyFile EXCEPT ![0] = mirror]
           /\ slots' = <<NewSlot(mirror, 0, TRUE)>> /\ dirty' = TRUE
           /\ Proceed /\ UNCHANGED unmigrated
        \/ /\ OldSlots # {}
           /\ keyFile' = [keyFile EXCEPT ![i - 1] = mirror]
           /\ slots' = [slots EXCEPT ![i].path = i - 1] /\ dirty' = TRUE
           /\ Proceed /\ UNCHANGED unmigrated
        \/ /\ OldSlots # {} \/ (first /\ privkey \in {None, mirror})
           /\ unmigrated' = (unmigrated \/ OldSlots # {})
           /\ Tolerate /\ UNCHANGED <<keyFile, slots, dirty>>
        \/ /\ ~first /\ OldSlots = {}
           /\ Proceed /\ UNCHANGED <<keyFile, slots, dirty, unmigrated>>
  /\ UNCHANGED <<mirror, metadata, privkey, config, card, scope, nvsPending, settings,
                 subject, load, lost, made, known, nameOf, chosen>>

\* The active slot must hold the key it names.
ValidateActive ==
  /\ At({"activate"})
  /\ LET invalid == Active # 0 /\ ~KeyMatches(Active)
     IN /\ slots' = IF invalid THEN Activate(slots, 0) ELSE slots
        /\ dirty' = (dirty \/ invalid)
  /\ Proceed
  /\ UNCHANGED <<disk, nvsPending, settings, subject, load, lost, history>>

\* adoptPathIdentityWhenNoActive: PATH_IDENTITY says who is active, if the
\* catalogue lists it or an unlisted key file holds the same key.
Staged == {n \in KeyFiles \ Paths(slots) : keyFile[n] = mirror}
Candidates ==
  IF mirror \in Hashes(slots) THEN slots
  ELSE IF Staged # {} /\ Len(slots) < MaxIdentities
       THEN Append(slots, NewSlot(mirror, Least(Staged), FALSE))
       ELSE <<>>

\* Faulty variant: the catalogue decides whenever it names an active slot.
DisagreesNever == Active = 0
Disagrees == ~(Active = IndexOf(Candidates, mirror) /\ KeyMatches(Active))

AdoptPathIdentity ==
  /\ At({"adopt"})
  /\ LET i == IndexOf(Candidates, mirror)
         path == Candidates[i].path
     IN \/ /\ mirror = None
           /\ Proceed /\ UNCHANGED <<keyFile, slots>>
        \/ /\ mirror # None /\ Candidates = <<>>
           /\ Refuse /\ UNCHANGED <<keyFile, slots>>
        \/ /\ mirror # None /\ Candidates # <<>> /\ ~Disagrees
           /\ Proceed /\ UNCHANGED <<keyFile, slots>>
        \/ /\ mirror # None /\ Candidates # <<>> /\ Disagrees
           /\ keyFile' = [n \in KeyFiles |-> IF n = path THEN mirror ELSE keyFile[n]]
           /\ slots' = Activate(Candidates, i)
           /\ Insert(<<"meta">>)
        \/ /\ mirror # None /\ Candidates # <<>> /\ Disagrees
           /\ Fail /\ UNCHANGED <<keyFile, slots>>
  /\ UNCHANGED <<mirror, metadata, privkey, config, card, scope, dirty, nvsPending, settings,
                 subject, load, lost, history>>

\* ProtocolRuntime::loadOrCreateIdentity: the active slot, else the key in
\* the NVS, else a new identity if there is no trace of an old one.
KeysToLoad == IF privkey # None THEN {privkey} ELSE IF HasIdentityData THEN {} ELSE Fresh

LoadOrCreateIdentity ==
  /\ At({"identity"})
  /\ \/ /\ Active # 0
        /\ Insert(<<"tryNvs">>) /\ UNCHANGED <<keyFile, subject, made, nameOf>>
     \/ /\ Active = 0
        /\ (privkey = None /\ HasIdentityData) \/ Len(slots) >= MaxIdentities \/ FreeFiles = {}
        /\ Refuse /\ UNCHANGED <<keyFile, subject, made, nameOf>>
     \/ /\ Active = 0 /\ Len(slots) < MaxIdentities /\ FreeFiles # {}
        /\ \E h \in KeysToLoad :
             /\ keyFile' = [keyFile EXCEPT ![Least(FreeFiles)] = h]
             /\ subject' = [key |-> h, path |-> Least(FreeFiles)]
             /\ made' = made \cup {h}
             /\ nameOf' = [nameOf EXCEPT ![h] = Unnamed]
        /\ Insert(<<"rawMirror", "meta", "nvs", "tryNvs">>)
     \/ /\ Active = 0 /\ Len(slots) < MaxIdentities /\ FreeFiles # {} /\ KeysToLoad # {}
        /\ Fail /\ UNCHANGED <<keyFile, subject, made, nameOf>>
  /\ UNCHANGED <<mirror, metadata, privkey, config, card, scope, memory, load, lost,
                 known, chosen, unmigrated>>

\* createIdentityFromRaw, after the key file.
WriteRawMirror ==
  /\ At({"rawMirror"})
  /\ \/ /\ mirror' = subject.key
        /\ slots' = Append(Activate(slots, 0), NewSlot(subject.key, subject.path, TRUE))
        /\ Proceed
     \/ Fail /\ UNCHANGED <<mirror, slots>>
  /\ UNCHANGED <<keyFile, metadata, privkey, config, card, scope, dirty, nvsPending, settings,
                 subject, load, lost, history>>

\* The interfaces start and the service takes requests.
Run ==
  /\ At({"run"})
  /\ phase' = "running" /\ todo' = <<>>
  /\ chosen' = {Running}
  /\ UNCHANGED <<disk, memory, faulty, subject, load, lost, made, known, nameOf, unmigrated>>
-----------------------------------------------------------------------------
(* SettingsTransaction: the name of the active identity is in the          *)
(* catalogue and in the settings.                                          *)

Bound(h, pending, name) == [bound |-> h, pending |-> pending, name |-> name]
Effective(c) == [bound |-> c.bound, pending |-> c.pending, name |-> c.name, flash |-> TRUE]

\* Faulty variant: settings that carry a name are taken at their word.
AgreesByName == settings.flash /\ settings.name # Unnamed
Agrees ==
  settings = Effective(Bound(Running, FALSE, slots[Active].name))

\* recover: at boot, after a switch, and until a change of the name settled.
Recover ==
  /\ At({"recover", "reconcile"})
  /\ LET needless == /\ phase = "booting" /\ Head(todo) = "recover"
                     /\ Active = 0 /\ ~settings.pending
         settles == config # Absent /\ config.pending /\ config.bound = Running
     IN \/ /\ needless
           /\ Proceed /\ UNCHANGED <<config, settings>>
        \/ /\ ~needless /\ ~(ValidateSlot(Active) /\ (settings.pending => settles))
           /\ Refuse /\ UNCHANGED <<config, settings>>
        \/ /\ ValidateSlot(Active) /\ settings.pending /\ settles
           /\ Insert(<<"settleName", "settleConfig">>) /\ UNCHANGED <<config, settings>>
        \/ /\ ValidateSlot(Active) /\ ~settings.pending /\ Agrees
           /\ Proceed /\ UNCHANGED <<config, settings>>
        \/ /\ ValidateSlot(Active) /\ ~settings.pending /\ ~Agrees
           /\ config' = Bound(Running, FALSE, slots[Active].name)
           /\ settings' = Effective(config')
           /\ Proceed
        \/ /\ ValidateSlot(Active) /\ ~settings.pending /\ ~Agrees
           /\ Fail /\ UNCHANGED <<config, settings>>
  /\ UNCHANGED <<keys, card, scope, slots, dirty, nvsPending, subject, load, lost, history>>

\* settle: IdentityManager::setDisplayName, then the settings once more.
SettleName ==
  /\ At({"settleName"})
  /\ LET named == [slots EXCEPT ![Active].name = config.name]
     IN \/ /\ slots = named
           /\ Proceed /\ UNCHANGED <<metadata, slots, dirty, known>>
        \/ /\ slots # named
           /\ metadata' = named /\ slots' = named /\ dirty' = FALSE
           /\ known' = known \cup WithKeys
           /\ Proceed
        \/ /\ slots # named
           /\ Fail /\ UNCHANGED <<metadata, slots, dirty, known>>
  /\ UNCHANGED <<keyFile, mirror, privkey, config, card, scope, nvsPending, settings,
                 subject, load, lost, made, nameOf, chosen, unmigrated>>

SettleConfig ==
  /\ At({"settleConfig"})
  /\ \/ /\ config' = [config EXCEPT !.pending = FALSE]
        /\ settings' = Effective(config')
        /\ Proceed
     \/ Fail /\ UNCHANGED <<config, settings>>
  /\ UNCHANGED <<keys, card, scope, slots, dirty, nvsPending, subject, load, lost, history>>
-----------------------------------------------------------------------------
(* The running device.                                                     *)

\* createIdentity and importIdentity, with a key that the catalogue does not list.
AddIdentity(h) ==
  /\ Idle /\ h \notin Hashes(slots)
  /\ Len(slots) < MaxIdentities /\ FreeFiles # {}
  /\ \/ /\ keyFile' = [keyFile EXCEPT ![Least(FreeFiles)] = h]
        /\ slots' = Append(slots, NewSlot(h, Least(FreeFiles), FALSE))
        /\ made' = made \cup {h} /\ nameOf' = [nameOf EXCEPT ![h] = Unnamed]
        /\ todo' = <<"meta", "tryNvs">>
        /\ UNCHANGED <<phase, faulty>>
     \/ Fail /\ UNCHANGED <<keyFile, slots, made, nameOf>>
  /\ UNCHANGED <<mirror, metadata, privkey, config, card, scope, dirty, nvsPending, settings,
                 subject, load, lost, known, chosen, unmigrated>>

CreateIdentity == \E h \in Fresh : AddIdentity(h)
ImportIdentity == \E h \in Identities : AddIdentity(h)

\* apply: the settings are saved with the new name, marked as not settled.
Marked(name) == name # slots[Active].name

ApplySettings(name) ==
  /\ Idle /\ ~settings.pending /\ ValidateSlot(Active)
  /\ \/ /\ config' = Bound(Running, Marked(name), name)
        /\ settings' = IF Marked(name)
                       THEN [settings EXCEPT !.pending = TRUE, !.bound = Running]
                       ELSE Effective(config')
        /\ todo' = IF Marked(name) THEN <<"settleName", "settleConfig">> ELSE <<>>
        /\ nameOf' = [nameOf EXCEPT ![Running] = name]
        /\ UNCHANGED <<phase, faulty>>
     \/ Fail /\ UNCHANGED <<config, settings, nameOf>>
  /\ UNCHANGED <<keys, card, scope, slots, dirty, nvsPending, subject, load, lost,
                 made, known, chosen, unmigrated>>

\* What the service's poll retries: a name that did not settle, the
\* catalogue and the NVS, the copy on the card.
RetryRecover == settings.pending /\ todo' = <<"recover">>
RetryFlush == (dirty \/ nvsPending) /\ todo' = <<"flushMeta", "flushNvs">>
Retry ==
  /\ Idle /\ (RetryRecover \/ RetryFlush)
  /\ UNCHANGED <<disk, memory, phase, faulty, subject, load, lost, history>>

BackUpSettings ==
  /\ Idle /\ ~settings.pending
  /\ card' = [bound |-> settings.bound, name |-> settings.name]
  /\ UNCHANGED <<keys, config, scope, memory, control, subject, load, lost, history>>

\* Faulty variant: the operation does not wait for a name to settle.
MayMaintainAlways == TRUE
MayMaintain == ~settings.pending

\* performMaintenance: nothing may be pending, then the operation.
Maintenance(steps, h) ==
  /\ Idle
  /\ IF MayMaintain
     THEN phase' = "maintenance" /\ todo' = <<"flushMeta", "flushNvs">> \o steps \o <<"stop">>
     ELSE phase' = "stopped" /\ todo' = <<>>
  /\ subject' = [NoSubject EXCEPT !.key = h]
  /\ UNCHANGED <<disk, memory, faulty, load, lost, history>>

ResetSteps == <<"scope", "card", "nvsErase", "wipe", "finish">>
SwitchIdentity == \E h \in Hashes(slots) : Maintenance(<<"switch">>, h)
RequestReset == Maintenance(ResetSteps, None)
RequestRestart == Maintenance(<<>>, None)

\* switchTo: PATH_IDENTITY first, then the catalogue, the NVS and the settings.
SwitchTo ==
  /\ At({"switch"})
  /\ LET i == IndexOf(slots, subject.key)
     IN \/ /\ i = Active
           /\ Insert(<<"nvs", "recover">>) /\ UNCHANGED <<mirror, slots, chosen>>
        \/ /\ i # Active /\ ~KeyMatches(i)
           /\ Refuse /\ UNCHANGED <<mirror, slots, chosen>>
        \/ /\ i # Active /\ KeyMatches(i)
           /\ mirror' = subject.key /\ slots' = Activate(slots, i)
           /\ chosen' = {subject.key}
           /\ Insert(<<"meta", "nvs", "recover">>)
        \/ /\ i # Active /\ KeyMatches(i)
           /\ Fail /\ UNCHANGED <<mirror, slots, chosen>>
  /\ UNCHANGED <<keyFile, metadata, privkey, config, card, scope, dirty, nvsPending, settings,
                 subject, load, lost, made, known, nameOf, unmigrated>>

\* The operation is over; what follows is a restart.
Stop ==
  /\ At({"stop"})
  /\ phase' = "stopped" /\ todo' = <<>>
  /\ UNCHANGED <<disk, memory, faulty, subject, load, lost, history>>
-----------------------------------------------------------------------------
(* performFactoryReset, from the maintenance or from the recovery at boot. *)

ScopeKnown == scope \in {"device", "everything"}

PrepareReset ==
  /\ At({"scope"})
  /\ \/ ScopeKnown /\ Proceed /\ UNCHANGED scope
     \/ ~ScopeKnown /\ scope' \in {"device", "everything"} /\ Proceed
     \/ ~ScopeKnown /\ Fail /\ UNCHANGED scope
  /\ UNCHANGED <<keys, config, card, memory, subject, load, lost, history>>

WipeCard ==
  /\ At({"card"})
  /\ \/ scope = "device" /\ Proceed /\ UNCHANGED card
     \/ scope = "everything" /\ Proceed /\ card' = Absent
     \/ scope = "everything" /\ Fail /\ card' \in {card, Absent}
  /\ UNCHANGED <<keys, config, scope, memory, subject, load, lost, history>>

EraseNvs ==
  /\ At({"nvsErase"})
  /\ \/ privkey' = None /\ Proceed
     \/ privkey' \in {privkey, None} /\ Fail
  /\ UNCHANGED <<keyFile, mirror, metadata, config, card, scope, memory, subject, load, lost,
                 history>>

\* wipeForReset removes one file after the other, in the order of the directory.
Wiped ==
  mirror = None /\ metadata = Absent /\ config = Absent /\ \A n \in KeyFiles : keyFile[n] = None

RemoveFile ==
  \/ /\ \E n \in KeyFiles : keyFile[n] # None /\ keyFile' = [keyFile EXCEPT ![n] = None]
     /\ UNCHANGED <<mirror, metadata, config>>
  \/ mirror # None /\ mirror' = None /\ UNCHANGED <<keyFile, metadata, config>>
  \/ metadata # Absent /\ metadata' = Absent /\ UNCHANGED <<keyFile, mirror, config>>
  \/ config # Absent /\ config' = Absent /\ UNCHANGED <<keyFile, mirror, metadata>>

WipeForReset ==
  /\ At({"wipe"})
  /\ \/ RemoveFile /\ UNCHANGED control
     \/ Wiped /\ Proceed /\ UNCHANGED <<keyFile, mirror, metadata, config>>
     \/ Fail /\ UNCHANGED <<keyFile, mirror, metadata, config>>
  /\ UNCHANGED <<privkey, card, scope, memory, subject, load, lost, history>>

\* completeReset: the scope goes last.
CompleteReset ==
  /\ At({"finish"})
  /\ \/ /\ scope' = "clear" /\ Proceed
        /\ known' = {} /\ chosen' = Fresh
        /\ nameOf' = [h \in Identities |-> Unnamed] /\ unmigrated' = FALSE
     \/ Fail /\ UNCHANGED <<scope, known, chosen, nameOf, unmigrated>>
  /\ UNCHANGED <<keys, config, card, memory, subject, load, lost, made>>

\* factoryResetRecovery: the user confirms the reset once more.
ConfirmReset ==
  /\ phase = "recovery" /\ todo = <<>>
  /\ todo' = ResetSteps \o <<"stop">>
  /\ UNCHANGED <<disk, memory, phase, faulty, subject, load, lost, history>>
-----------------------------------------------------------------------------
(* Restarts, and a flash that loses a file.                                *)

\* Power is lost, or the device is restarted.  A scope that was being
\* written is not readable then; the root directory is never tidied.
PowerLoss ==
  /\ phase # "off"
  /\ phase' = "off" /\ todo' = <<>> /\ subject' = NoSubject /\ faulty' = FALSE
  /\ slots' = <<>> /\ dirty' = FALSE /\ nvsPending' = FALSE /\ settings' = DefaultSettings
  /\ scope' \in IF At({"scope"}) /\ ~ScopeKnown THEN {scope, "torn"} ELSE {scope}
  /\ UNCHANGED <<keys, config, card, load, lost, history>>

\* The identities that a copy which is left names as the active one.
Witnesses(m, c, n) ==
  ({m, n} \ {None}) \cup (IF c = Absent THEN {} ELSE ActiveOf(c))

NamesWithout ==
  [h \in Identities |-> IF config # Absent /\ config.pending /\ config.bound = h
                        THEN config.name ELSE Unnamed]
NamesListed ==
  [h \in Identities |->
    IF metadata # Absent /\ h \in Hashes(metadata)
    THEN metadata[IndexOf(metadata, h)].name ELSE Unnamed]

FileLost(f) ==
  /\ phase = "off" /\ scope = "clear" /\ f \in load.losable \ lost
  /\ lost' = lost \cup {f}
  /\ \/ /\ f = "key"
        /\ \E n \in KeyFiles :
             /\ keyFile[n] # None /\ keyFile' = [keyFile EXCEPT ![n] = None]
             /\ known' = IF keyFile[n] = mirror THEN known ELSE known \ {keyFile[n]}
        /\ UNCHANGED <<mirror, metadata, privkey, config, nameOf, chosen>>
     \/ /\ f = "mirror" /\ mirror # None /\ mirror' = None
        /\ chosen' = chosen \cup Witnesses(None, metadata, privkey)
        /\ known' = IF metadata = Absent THEN known \cap {privkey} ELSE known
        /\ UNCHANGED <<keyFile, metadata, privkey, config, nameOf>>
     \/ /\ f = "catalogue" /\ metadata # Absent /\ metadata' = Absent
        /\ chosen' = chosen \cup Witnesses(mirror, Absent, privkey)
        /\ known' = known \cap {IF mirror # None THEN mirror ELSE privkey}
        /\ nameOf' = NamesWithout
        /\ UNCHANGED <<keyFile, mirror, privkey, config>>
     \/ /\ f = "nvs" /\ privkey # None /\ privkey' = None
        /\ UNCHANGED <<keyFile, mirror, metadata, config, known, nameOf, chosen>>
     \/ /\ f = "config" /\ config # Absent /\ config' = Absent
        /\ nameOf' = NamesListed
        /\ UNCHANGED <<keyFile, mirror, metadata, privkey, known, chosen>>
  /\ UNCHANGED <<card, scope, memory, control, subject, load, made, unmigrated>>

BootStep ==
  \/ Start \/ RestoreSettings \/ ImportKey \/ ValidateActive \/ AdoptPathIdentity
  \/ LoadOrCreateIdentity \/ WriteRawMirror \/ Run
SharedStep == SaveSlotMeta \/ MirrorToNvs \/ Recover \/ SettleName \/ SettleConfig
ServiceStep ==
  \/ CreateIdentity \/ ImportIdentity
  \/ \E name \in Names \cup {Unnamed} : ApplySettings(name)
  \/ Retry \/ BackUpSettings
  \/ SwitchIdentity \/ RequestReset \/ RequestRestart \/ SwitchTo \/ Stop
ResetStep ==
  PrepareReset \/ WipeCard \/ EraseNvs \/ WipeForReset \/ CompleteReset \/ ConfirmReset
Disaster == PowerLoss \/ \E f \in Files : FileLost(f)

Next == BootStep \/ SharedStep \/ ServiceStep \/ ResetStep \/ Disaster
Spec == Init /\ [][Next]_vars
-----------------------------------------------------------------------------
(* Properties.                                                             *)

TypeOK ==
  /\ keyFile \in [KeyFiles -> Identities \cup {None}]
  /\ {mirror, privkey} \subseteq Identities \cup {None}
  /\ scope \in {"clear", "torn", "device", "everything"}
  /\ \A i \in DOMAIN slots : slots[i] \in Slot
  /\ Len(slots) <= MaxIdentities
  /\ {dirty, nvsPending, faulty, unmigrated} \subseteq BOOLEAN
  /\ phase \in {"off", "recovery", "booting", "halted", "running", "maintenance", "stopped"}
  /\ known \subseteq made /\ made \subseteq Identities
  /\ lost \subseteq load.losable /\ load \in Loads

\* What the flash says is what the service knows, unless a retry is due.
Saved ==
  /\ dirty \/ metadata = slots
  /\ privkey = Running \/ nvsPending
  /\ mirror = Running \/ "mirror" \in lost

\* Whatever was catalogued once is still listed, once, and the active identity
\* has its key; each of the others has its own too, in a file that no other uses.
Kept ==
  /\ known \subseteq Hashes(slots)
  /\ \A i, j \in DOMAIN slots : i # j => slots[i].hash # slots[j].hash
  /\ \E i \in DOMAIN slots : ActiveOf(slots) = {slots[i].hash} /\ KeyMatches(i)
KeysKept ==
  /\ known \subseteq WithKeys
  /\ \A i, j \in DOMAIN slots : i # j => slots[i].path # slots[j].path

\* Between two operations of a running device the catalogue, PATH_IDENTITY and
\* the NVS say the same and every identity is listed, through failed writes and
\* power losses anywhere.  None loses its key either, but on a device where
\* begin could not write the key of an old slot to its file (IdentityManager.cpp:79):
\* the next migration then overwrites what createIdentity put there, and a switch
\* the PATH_IDENTITY that held the key.
Consistent == TypeOK /\ (Idle => Saved /\ Kept /\ (unmigrated \/ KeysKept))

\* The device comes up only with an identity it was told to use: the one
\* last switched to, where replacing PATH_IDENTITY is the moment that counts,
\* and after a reset a new one.
RunsAsChosen == [][phase # "running" /\ phase' = "running" => slots[Active].hash \in chosen]_vars

\* A running device shows under each identity the name that was given to it
\* last, as soon as the settings are not pending, and a change that was
\* reported as committed survives.
NamesAreKept ==
  Idle =>
    /\ ~settings.pending =>
         /\ settings = Effective(Bound(Running, FALSE, nameOf[Running]))
         /\ config = Bound(Running, FALSE, nameOf[Running])
    /\ settings.pending => config = Bound(Running, TRUE, nameOf[Running])
    /\ \A i \in DOMAIN slots :
         slots[i].name = nameOf[slots[i].hash] \/ (settings.pending /\ i = Active)

\* What a boot cannot decide by itself: the very first key was written and
\* nothing else; without a catalogue two copies of the key differ; power was
\* lost so often between a key file and its catalogue that no file is left.
Stillborn == metadata = Absent /\ mirror = None /\ privkey = None
Contradictory == metadata = Absent /\ mirror # None /\ privkey \notin {None, mirror}
Exhausted == metadata = Absent /\ \A n \in KeyFiles : keyFile[n] # None

\* No power loss and no single lost file keeps a device from starting, as
\* long as it can write, but for these three cases.
AlwaysComesUp ==
  phase = "halted" /\ ~faulty /\ Cardinality(lost) <= 1 =>
    Stillborn \/ Contradictory \/ Exhausted

\* ProtocolRuntime.cpp:164, "Flash slot/path loss falls back to the NVS mirror
\* before any new identity is generated": a device without a pending name that
\* can write and has the key of its identity in the NVS starts.
FallsBackToNvs == phase = "halted" /\ ~faulty /\ ~settings.pending => privkey = None
=============================================================================
