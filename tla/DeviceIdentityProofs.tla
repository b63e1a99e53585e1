------------------------ MODULE DeviceIdentityProofs ------------------------
(***************************************************************************)
(* The invariants of DeviceIdentity, for every number of identities,       *)
(* names, slots and key files: with any write that fails, the power lost   *)
(* at every step, and a flash that may lose the settings file and the NVS. *)
(* The invariant says what the files hold together, and, for each position *)
(* of the steps an operation still has to take, what the memory holds      *)
(* beside them.                                                            *)
(***************************************************************************)
EXTENDS DeviceIdentity, FiniteSetTheorems, SequenceTheorems, WellFoundedInduction, TLAPS

-----------------------------------------------------------------------------
(* The invariant.                                                          *)

Keys == Identities \cup {None}
Titles == Names \cup {Unnamed}

\* The flash keeps the keys, their mirror and the catalogue.
Healthy == load.losable \subseteq {"nvs", "config"}

Listing(s) == s \in Seq(Slot) /\ Len(s) <= MaxIdentities /\ Hashes(s) \subseteq made
Typed ==
  /\ keyFile \in [KeyFiles -> made \cup {None}]
  /\ mirror \in made \cup {None} /\ privkey \in made \cup {None}
  /\ metadata # Absent => Listing(metadata)
  /\ Listing(slots)
  /\ config \in Settings \cup {Absent} /\ card \in Copies \cup {Absent}
  /\ scope \in {"clear", "torn", "device", "everything"}
  /\ dirty \in BOOLEAN /\ nvsPending \in BOOLEAN /\ faulty \in BOOLEAN /\ unmigrated \in BOOLEAN
  /\ settings \in [bound : Keys, pending : BOOLEAN, name : Titles, flash : BOOLEAN]
  /\ phase \in {"off", "recovery", "booting", "halted", "running", "maintenance", "stopped"}
  /\ subject \in [key : Keys, path : KeyFiles]
  /\ known \subseteq made /\ made \subseteq Identities /\ chosen \subseteq Identities
  /\ nameOf \in [Identities -> Titles]
Loadable == load \in Loads /\ lost \subseteq load.losable /\ Healthy

\* Catalogues: every slot has a hash of its own; one is active; every key is in
\* a file of its own; each slot shows the name last given to it, but where the
\* settings still have to tell it.
Distinct(s) == \A i, j \in DOMAIN s : i # j => s[i].hash # s[j].hash
OnlyActive(s, a) == a \in DOMAIN s /\ \A j \in DOMAIN s : s[j].active <=> j = a
NoneOn(s) == \A j \in DOMAIN s : ~s[j].active
OneActive(s) == \E a \in DOMAIN s : OnlyActive(s, a)
Filed(s) ==
  /\ \A i \in DOMAIN s : s[i].path \in KeyFiles /\ keyFile[s[i].path] = s[i].hash
  /\ \A i, j \in DOMAIN s : i # j => s[i].path # s[j].path
Homed(s) == unmigrated \/ Filed(s)
Old(s) == Len(s) = 1 /\ s[1].path = PathIdentity /\ s[1].hash = mirror
Unsettled == config # Absent /\ config.pending
NamedBy(s) == \A i \in DOMAIN s : s[i].name = nameOf[s[i].hash] \/ (Unsettled /\ s[i].hash = mirror)

\* What the flash holds: nothing that was used; a key that is not catalogued
\* yet; or a catalogue.
Blank == mirror = None /\ metadata = Absent /\ privkey = None /\ known = {} /\ Fresh \subseteq chosen
Uncatalogued ==
  /\ metadata = Absent /\ privkey \in {None, mirror} /\ known \subseteq {mirror}
  /\ nameOf[mirror] = Unnamed
Catalogued ==
  /\ metadata # Absent /\ Distinct(metadata) /\ OneActive(metadata)
  /\ Homed(metadata) \/ Old(metadata)
  /\ mirror \in Hashes(metadata) /\ known \subseteq Hashes(metadata) /\ NamedBy(metadata)
Held ==
  /\ Blank \/ (mirror \in chosen /\ (Uncatalogued \/ Catalogued))
  /\ Unsettled => metadata # Absent /\ config.bound = mirror /\ config.name = nameOf[mirror]
DiskInv == scope = "clear" => Held

\* What the memory holds beside it.
Contained ==
  metadata # Absent =>
    \A i \in DOMAIN metadata :
      \E j \in DOMAIN slots : slots[j].hash = metadata[i].hash /\ slots[j].name = metadata[i].name
Loaded ==
  /\ Distinct(slots) /\ Homed(slots) /\ known \subseteq Hashes(slots) /\ NamedBy(slots)
  /\ Contained /\ mirror \in Hashes(slots)
Up ==
  /\ Loaded
  /\ \E a \in DOMAIN slots : OnlyActive(slots, a) /\ slots[a].hash = mirror /\ KeyMatches(a)
Empty == Blank /\ slots = <<>> /\ ~dirty /\ ~nvsPending
SettingsOK ==
  /\ settings.pending <=> Unsettled
  /\ settings.flash /\ ~settings.pending => config # Absent /\ settings = Effective(config)
Synced == dirty \/ metadata = slots
Stored == ~dirty /\ metadata = slots
NvsOK == nvsPending \/ privkey = mirror
Shown == ~settings.pending => settings = Effective(Bound(mirror, FALSE, nameOf[mirror]))
Served == Up /\ NvsOK /\ SettingsOK /\ metadata # Absent /\ Shown
Renamed == \A i \in DOMAIN slots : slots[i].hash = mirror => slots[i].name = config.name

\* The steps that may be left.
Then(step, t) == <<step>> \o t
SRun == Then("run", <<>>)
SReconcile == Then("reconcile", SRun)
STryNvs2 == Then("tryNvs", SReconcile)
SNvs == Then("nvs", STryNvs2)
SMeta2 == Then("meta", SNvs)
SRaw == Then("rawMirror", SMeta2)
SIdentity == Then("identity", SReconcile)
SRecover == Then("recover", SIdentity)
SFlushNvs == Then("flushNvs", SRecover)
SFlushMeta == Then("flushMeta", SFlushNvs)
STryNvs == Then("tryNvs", SFlushMeta)
SMeta == Then("meta", STryNvs)
SAdopt == Then("adopt", STryNvs)
SActivate == Then("activate", SAdopt)
SImport == Then("import", SActivate)
SRestore == Then("restore", SImport)
STry == Then("tryNvs", <<>>)
SSave == Then("meta", STry)
SAgain == Then("recover", <<>>)
SStop == Then("stop", <<>>)
SFinish == Then("finish", SStop)
SWipe == Then("wipe", SFinish)
SErase == Then("nvsErase", SWipe)
SCard == Then("card", SErase)
SScope == Then("scope", SCard)
SRecoverM == Then("recover", SStop)
SNvsM == Then("nvs", SRecoverM)
SMetaM == Then("meta", SNvsM)
SSwitch == Then("switch", SStop)
SettleC(t) == Then("settleConfig", t)
SettleN(t) == Then("settleName", SettleC(t))
FlushN(t) == Then("flushNvs", t)
FlushM(t) == Then("flushMeta", FlushN(t))

\* A boot.  Before the import memory is what was read.
Read ==
  /\ todo = SImport \/ (todo = SRestore /\ ~Unsettled /\ card # Absent)
  /\ slots = (IF metadata = Absent THEN <<>> ELSE metadata) /\ ~dirty /\ ~nvsPending
Unread == slots = <<>> /\ metadata = Absent /\ mirror # None /\ faulty /\ ~dirty
Imported ==
  /\ todo \in {SActivate, SAdopt} /\ ~nvsPending
  /\ \/ Empty \/ Unread
     \/ Loaded /\ Synced /\ (OneActive(slots) \/ (unmigrated /\ NoneOn(slots)))
Adopted ==
  \/ todo = SMeta /\ Up /\ ~nvsPending
  \/ todo = STryNvs /\ ~nvsPending /\ (Empty \/ (Up /\ Synced))
  \/ todo = SFlushMeta /\ (Empty \/ (Up /\ Synced /\ NvsOK)) /\ (nvsPending => faulty)
  \/ todo = SFlushNvs /\ (Empty \/ (Up /\ Synced /\ NvsOK)) /\ (nvsPending \/ dirty => faulty)
Recovering ==
  \/ todo \in {SRecover, SIdentity} /\ (Empty \/ (Up /\ Stored))
  \/ todo = SettleN(SIdentity) /\ Up /\ Stored /\ settings.pending
  \/ todo = SettleC(SIdentity) /\ Up /\ Stored /\ settings.pending /\ Renamed
Creating ==
  \/ /\ todo = SRaw /\ Empty
     /\ subject.key \in made \cap chosen /\ nameOf[subject.key] = Unnamed
     /\ keyFile[subject.path] = subject.key
  \/ todo = SMeta2 /\ Up /\ ~Unsettled
  \/ todo \in {SNvs, STryNvs2} /\ Up /\ Stored
Reconciling ==
  /\ Up /\ Stored /\ NvsOK
  /\ \/ todo = SReconcile
     \/ todo = SettleN(SRun) /\ settings.pending
     \/ todo = SettleC(SRun) /\ settings.pending /\ Renamed
     \/ todo = SRun /\ Served /\ ~settings.pending
Booting ==
  /\ phase = "booting" /\ scope = "clear" /\ SettingsOK
  /\ Read \/ Imported \/ Adopted \/ Recovering \/ Creating \/ Reconciling

\* The service, and its maintenance.
Serving ==
  /\ phase = "running" /\ scope = "clear" /\ Served
  /\ \/ todo = SSave
     \/ /\ Synced
        /\ \/ todo \in {<<>>, STry, FlushM(<<>>), FlushN(<<>>)}
           \/ todo \in {SAgain, SettleN(<<>>)} /\ settings.pending
           \/ todo = SettleC(<<>>) /\ settings.pending /\ Renamed
Flushing ==
  /\ Served /\ Synced
  /\ \E t \in {SStop, SSwitch, SScope} :
       /\ todo \in {FlushM(t), FlushN(t)}
       /\ t = SSwitch => subject.key \in Hashes(slots)
Switching ==
  \/ todo = SSwitch /\ Served /\ Stored /\ subject.key \in Hashes(slots)
  \/ todo = SMetaM /\ Up /\ SettingsOK
  \/ todo \in {SNvsM, SRecoverM} /\ Up /\ SettingsOK /\ Stored
Maintained ==
  /\ phase = "maintenance" /\ scope = "clear" /\ ~settings.pending
  /\ Flushing \/ Switching
Resetting ==
  /\ phase \in {"maintenance", "recovery"}
  /\ \/ todo \in {SScope, SStop}
     \/ todo \in {SCard, SErase} /\ ScopeKnown
     \/ todo = SWipe /\ ScopeKnown /\ privkey = None
     \/ todo = SFinish /\ ScopeKnown /\ privkey = None /\ Wiped
Resting ==
  /\ todo = <<>>
  /\ \/ phase = "off" /\ ~dirty /\ ~nvsPending
     \/ phase \in {"recovery", "stopped"}
     \/ phase = "halted" /\ (faulty \/ Stillborn)

Stage == Booting \/ Serving \/ Maintained \/ Resetting \/ Resting
IInv == Typed /\ Loadable /\ DiskInv /\ Stage

-----------------------------------------------------------------------------
(* The steps, one after the other.                                         *)

Words ==
  {"restore", "import", "activate", "adopt", "tryNvs", "flushMeta", "flushNvs", "recover",
   "identity", "reconcile", "run", "rawMirror", "meta", "nvs", "settleName", "settleConfig",
   "switch", "stop", "scope", "card", "nvsErase", "wipe", "finish"}
Steps == Seq(Words)

Ends(s, step, t) == s \in Steps /\ s # <<>> /\ Head(s) = step /\ Tail(s) = t

\* What concatenation does, for any values.
LEMMA SplitTwo ==
  ASSUME NEW a1, NEW a2
  PROVE  <<a1, a2>> = <<a1>> \o <<a2>>
<1> DEFINE S == {a1, a2}
           s == <<a1, a2>>
           t == <<a1>> \o <<a2>>
<1>1. a1 \in S /\ a2 \in S
  OBVIOUS
<1> HIDE DEF S
<1>2. s \in Seq(S) /\ t \in Seq(S) /\ Len(s) = 2 /\ Len(t) = 2
  BY <1>1
<1>3. \A i \in 1 .. Len(s) : s[i] = t[i]
  BY <1>1
<1>4. s = t
  <2> HIDE DEF s, t
  <2> QED
    BY <1>2, <1>3, SeqEqual
<1>5. QED
  BY <1>4

LEMMA SplitThree ==
  ASSUME NEW a1, NEW a2, NEW a3
  PROVE  <<a1, a2, a3>> = <<a1>> \o <<a2, a3>>
<1> DEFINE S == {a1, a2, a3}
           s == <<a1, a2, a3>>
           t == <<a1>> \o <<a2, a3>>
<1>1. a1 \in S /\ a2 \in S /\ a3 \in S
  OBVIOUS
<1> HIDE DEF S
<1>2. s \in Seq(S) /\ t \in Seq(S) /\ Len(s) = 3 /\ Len(t) = 3
  BY <1>1
<1>3. \A i \in 1 .. Len(s) : s[i] = t[i]
  BY <1>1
<1>4. s = t
  <2> HIDE DEF s, t
  <2> QED
    BY <1>2, <1>3, SeqEqual
<1>5. QED
  BY <1>4

LEMMA SplitFour ==
  ASSUME NEW a1, NEW a2, NEW a3, NEW a4
  PROVE  <<a1, a2, a3, a4>> = <<a1>> \o <<a2, a3, a4>>
<1> DEFINE S == {a1, a2, a3, a4}
           s == <<a1, a2, a3, a4>>
           t == <<a1>> \o <<a2, a3, a4>>
<1>1. a1 \in S /\ a2 \in S /\ a3 \in S /\ a4 \in S
  OBVIOUS
<1> HIDE DEF S
<1>2. s \in Seq(S) /\ t \in Seq(S) /\ Len(s) = 4 /\ Len(t) = 4
  BY <1>1
<1>3. \A i \in 1 .. Len(s) : s[i] = t[i]
  BY <1>1
<1>4. s = t
  <2> HIDE DEF s, t
  <2> QED
    BY <1>2, <1>3, SeqEqual
<1>5. QED
  BY <1>4

LEMMA SplitFive ==
  ASSUME NEW a1, NEW a2, NEW a3, NEW a4, NEW a5
  PROVE  <<a1, a2, a3, a4, a5>> = <<a1, a2, a3>> \o <<a4, a5>>
<1> DEFINE S == {a1, a2, a3, a4, a5}
           s == <<a1, a2, a3, a4, a5>>
           t == <<a1, a2, a3>> \o <<a4, a5>>
<1>1. a1 \in S /\ a2 \in S /\ a3 \in S /\ a4 \in S /\ a5 \in S
  OBVIOUS
<1> HIDE DEF S
<1>2. s \in Seq(S) /\ t \in Seq(S) /\ Len(s) = 5 /\ Len(t) = 5
  BY <1>1
<1>3. \A i \in 1 .. Len(s) : s[i] = t[i]
  BY <1>1
<1>4. s = t
  <2> HIDE DEF s, t
  <2> QED
    BY <1>2, <1>3, SeqEqual
<1>5. QED
  BY <1>4

LEMMA SplitSeven ==
  ASSUME NEW a1, NEW a2, NEW a3, NEW a4, NEW a5, NEW a6, NEW a7
  PROVE  <<a1, a2, a3, a4, a5, a6, a7>> = <<a1, a2, a3>> \o <<a4, a5, a6, a7>>
<1> DEFINE S == {a1, a2, a3, a4, a5, a6, a7}
           s == <<a1, a2, a3, a4, a5, a6, a7>>
           t == <<a1, a2, a3>> \o <<a4, a5, a6, a7>>
<1>1. a1 \in S /\ a2 \in S /\ a3 \in S /\ a4 \in S /\ a5 \in S
      /\ a6 \in S /\ a7 \in S
  OBVIOUS
<1> HIDE DEF S
<1>2. s \in Seq(S) /\ t \in Seq(S) /\ Len(s) = 7 /\ Len(t) = 7
  BY <1>1
<1>3. \A i \in 1 .. Len(s) : s[i] = t[i]
  BY <1>1
<1>4. s = t
  <2> HIDE DEF s, t
  <2> QED
    BY <1>2, <1>3, SeqEqual
<1>5. QED
  BY <1>4

LEMMA SplitTen ==
  ASSUME NEW a1, NEW a2, NEW a3, NEW a4, NEW a5, NEW a6, NEW a7, NEW a8, NEW a9, NEW a10
  PROVE  <<a1, a2, a3, a4, a5, a6, a7, a8, a9, a10>> = <<a1, a2, a3>> \o <<a4, a5, a6, a7, a8, a9, a10>>
<1> DEFINE S == {a1, a2, a3, a4, a5, a6, a7, a8, a9, a10}
           s == <<a1, a2, a3, a4, a5, a6, a7, a8, a9, a10>>
           t == <<a1, a2, a3>> \o <<a4, a5, a6, a7, a8, a9, a10>>
<1>1. a1 \in S /\ a2 \in S /\ a3 \in S /\ a4 \in S /\ a5 \in S
      /\ a6 \in S /\ a7 \in S /\ a8 \in S /\ a9 \in S /\ a10 \in S
  OBVIOUS
<1> HIDE DEF S
<1>2. s \in Seq(S) /\ t \in Seq(S) /\ Len(s) = 10 /\ Len(t) = 10
  BY <1>1
<1>3. \A i \in 1 .. Len(s) : s[i] = t[i]
  BY <1>1
<1>4. s = t
  <2> HIDE DEF s, t
  <2> QED
    BY <1>2, <1>3, SeqEqual
<1>5. QED
  BY <1>4

LEMMA One == ASSUME NEW x, NEW t \in Steps PROVE <<x>> \o t = Then(x, t)
BY DEF Then

LEMMA Two == ASSUME NEW x, NEW y, NEW t \in Steps PROVE <<x, y>> \o t = Then(x, Then(y, t))
<1> DEFINE S == Words \cup {x, y}
<1>1. x \in S /\ y \in S /\ t \in Seq(S)
  BY SeqMonotonic DEF Steps
<1> HIDE DEF S
<1>2. (<<x>> \o <<y>>) \o t = <<x>> \o (<<y>> \o t)
  BY <1>1, ConcatAssociative
<1>3. <<x, y>> = <<x>> \o <<y>>
  BY SplitTwo
<1>4. QED
  BY <1>2, <1>3 DEF Then

LEMMA Three ==
  ASSUME NEW x, NEW y, NEW z, NEW t \in Steps
  PROVE  <<x, y, z>> \o t = Then(x, Then(y, Then(z, t)))
<1> DEFINE S == Words \cup {x, y, z}
<1>1. x \in S /\ y \in S /\ z \in S /\ t \in Seq(S)
  BY SeqMonotonic DEF Steps
<1> HIDE DEF S
<1>2. <<x>> \in Seq(S) /\ <<y, z>> \in Seq(S)
  BY <1>1
<1>3. (<<x>> \o <<y, z>>) \o t = <<x>> \o (<<y, z>> \o t)
  BY <1>1, <1>2, ConcatAssociative
<1>4. <<x, y, z>> = <<x>> \o <<y, z>>
  BY SplitThree
<1>5. <<y, z>> \o t = Then(y, Then(z, t))
  BY Two
<1>6. QED
  BY <1>3, <1>4, <1>5 DEF Then

LEMMA Four ==
  ASSUME NEW x, NEW y, NEW z, NEW w, NEW t \in Steps
  PROVE  <<x, y, z, w>> \o t = Then(x, Then(y, Then(z, Then(w, t))))
<1> DEFINE S == Words \cup {x, y, z, w}
<1>1. x \in S /\ y \in S /\ z \in S /\ w \in S /\ t \in Seq(S)
  BY SeqMonotonic DEF Steps
<1> HIDE DEF S
<1>2. <<x>> \in Seq(S) /\ <<y, z, w>> \in Seq(S)
  BY <1>1
<1>3. (<<x>> \o <<y, z, w>>) \o t = <<x>> \o (<<y, z, w>> \o t)
  BY <1>1, <1>2, ConcatAssociative
<1>4. <<x, y, z, w>> = <<x>> \o <<y, z, w>>
  BY SplitFour
<1>5. <<y, z, w>> \o t = Then(y, Then(z, Then(w, t)))
  BY Three
<1>6. QED
  BY <1>3, <1>4, <1>5 DEF Then

LEMMA ThenEnds ==
  ASSUME NEW step \in Words, NEW t \in Steps
  PROVE  Ends(Then(step, t), step, t) /\ Then(step, t) \in Steps
<1>1. t \in Seq(Words)
  BY DEF Steps
<1>2. /\ <<step>> \in Seq(Words) /\ <<step>> \o t \in Seq(Words)
      /\ <<step>> \o t # <<>> /\ Head(<<step>> \o t) = step /\ Tail(<<step>> \o t) = t
  BY <1>1
<1>3. QED
  BY <1>2 DEF Then, Ends, Steps

LEMMA Nothing == <<>> \in Steps /\ \A t \in Steps : t \o <<>> = t /\ <<>> \o t = t
BY ConcatEmptySeq DEF Steps

LEMMA Associative == ASSUME NEW x \in Steps, NEW y \in Steps, NEW z \in Steps
                     PROVE  (x \o y) \o z = x \o (y \o z) /\ x \o y \in Steps
BY ConcatAssociative DEF Steps

LEMMA Single == ASSUME NEW x \in Words PROVE <<x>> \in Steps /\ Then(x, <<>>) = <<x>>
<1>1. <<x>> \in Steps
  BY DEF Steps
<1>2. QED
  BY <1>1, Nothing DEF Then

LEMMA Pair == ASSUME NEW x \in Words, NEW y \in Words PROVE <<x, y>> \in Steps /\ Then(x, Then(y, <<>>)) = <<x, y>>
<1>1. <<x, y>> \in Steps
  BY DEF Steps
<1>2. QED
  BY <1>1, Single, SplitTwo DEF Then

LEMMA Triple == ASSUME NEW x \in Words, NEW y \in Words, NEW z \in Words PROVE <<x, y, z>> \in Steps
BY DEF Steps

LEMMA AllWords ==
  /\ "restore" \in Words /\ "import" \in Words /\ "activate" \in Words /\ "adopt" \in Words
  /\ "tryNvs" \in Words /\ "flushMeta" \in Words /\ "flushNvs" \in Words /\ "recover" \in Words
  /\ "identity" \in Words /\ "reconcile" \in Words /\ "run" \in Words /\ "rawMirror" \in Words
  /\ "meta" \in Words /\ "nvs" \in Words /\ "settleName" \in Words /\ "settleConfig" \in Words
  /\ "switch" \in Words /\ "stop" \in Words /\ "scope" \in Words /\ "card" \in Words
  /\ "nvsErase" \in Words /\ "wipe" \in Words /\ "finish" \in Words
BY DEF Words

\* What each of the named sequences begins with.
BootEnds ==
  /\ Ends(SRun, "run", <<>>) /\ Ends(SReconcile, "reconcile", SRun)
  /\ Ends(STryNvs2, "tryNvs", SReconcile) /\ Ends(SNvs, "nvs", STryNvs2)
  /\ Ends(SMeta2, "meta", SNvs) /\ Ends(SRaw, "rawMirror", SMeta2)
  /\ Ends(SIdentity, "identity", SReconcile) /\ Ends(SRecover, "recover", SIdentity)
  /\ Ends(SFlushNvs, "flushNvs", SRecover) /\ Ends(SFlushMeta, "flushMeta", SFlushNvs)
  /\ Ends(STryNvs, "tryNvs", SFlushMeta) /\ Ends(SMeta, "meta", STryNvs)
  /\ Ends(SAdopt, "adopt", STryNvs) /\ Ends(SActivate, "activate", SAdopt)
  /\ Ends(SImport, "import", SActivate) /\ Ends(SRestore, "restore", SImport)
ServiceEnds ==
  /\ Ends(STry, "tryNvs", <<>>) /\ Ends(SSave, "meta", STry) /\ Ends(SAgain, "recover", <<>>)
  /\ Ends(SStop, "stop", <<>>) /\ Ends(SFinish, "finish", SStop) /\ Ends(SWipe, "wipe", SFinish)
  /\ Ends(SErase, "nvsErase", SWipe) /\ Ends(SCard, "card", SErase) /\ Ends(SScope, "scope", SCard)
  /\ Ends(SRecoverM, "recover", SStop) /\ Ends(SNvsM, "nvs", SRecoverM)
  /\ Ends(SMetaM, "meta", SNvsM) /\ Ends(SSwitch, "switch", SStop)
SettleEnds(t) == Ends(SettleN(t), "settleName", SettleC(t)) /\ Ends(SettleC(t), "settleConfig", t)
FlushEnd(t) == Ends(FlushM(t), "flushMeta", FlushN(t)) /\ Ends(FlushN(t), "flushNvs", t)
Order ==
  /\ BootEnds /\ ServiceEnds
  /\ SettleEnds(SIdentity) /\ SettleEnds(SRun) /\ SettleEnds(<<>>)
  /\ FlushEnd(<<>>) /\ FlushEnd(SStop) /\ FlushEnd(SSwitch) /\ FlushEnd(SScope)

LEMMA InOrder == Order
<1>0. <<>> \in Steps
  BY Nothing
<1>1. BootEnds
  <2>1. Ends(SRun, "run", <<>>) /\ SRun \in Steps
    BY <1>0, ThenEnds, AllWords DEF SRun
  <2>2. Ends(SReconcile, "reconcile", SRun) /\ SReconcile \in Steps
    BY <2>1, ThenEnds, AllWords DEF SReconcile
  <2>3. Ends(STryNvs2, "tryNvs", SReconcile) /\ STryNvs2 \in Steps
    BY <2>2, ThenEnds, AllWords DEF STryNvs2
  <2>4. Ends(SNvs, "nvs", STryNvs2) /\ SNvs \in Steps
    BY <2>3, ThenEnds, AllWords DEF SNvs
  <2>5. Ends(SMeta2, "meta", SNvs) /\ SMeta2 \in Steps
    BY <2>4, ThenEnds, AllWords DEF SMeta2
  <2>6. Ends(SRaw, "rawMirror", SMeta2) /\ SRaw \in Steps
    BY <2>5, ThenEnds, AllWords DEF SRaw
  <2>7. Ends(SIdentity, "identity", SReconcile) /\ SIdentity \in Steps
    BY <2>2, ThenEnds, AllWords DEF SIdentity
  <2>8. Ends(SRecover, "recover", SIdentity) /\ SRecover \in Steps
    BY <2>7, ThenEnds, AllWords DEF SRecover
  <2>9. Ends(SFlushNvs, "flushNvs", SRecover) /\ SFlushNvs \in Steps
    BY <2>8, ThenEnds, AllWords DEF SFlushNvs
  <2>10. Ends(SFlushMeta, "flushMeta", SFlushNvs) /\ SFlushMeta \in Steps
    BY <2>9, ThenEnds, AllWords DEF SFlushMeta
  <2>11. Ends(STryNvs, "tryNvs", SFlushMeta) /\ STryNvs \in Steps
    BY <2>10, ThenEnds, AllWords DEF STryNvs
  <2>12. Ends(SMeta, "meta", STryNvs) /\ SMeta \in Steps
    BY <2>11, ThenEnds, AllWords DEF SMeta
  <2>13. Ends(SAdopt, "adopt", STryNvs) /\ SAdopt \in Steps
    BY <2>11, ThenEnds, AllWords DEF SAdopt
  <2>14. Ends(SActivate, "activate", SAdopt) /\ SActivate \in Steps
    BY <2>13, ThenEnds, AllWords DEF SActivate
  <2>15. Ends(SImport, "import", SActivate) /\ SImport \in Steps
    BY <2>14, ThenEnds, AllWords DEF SImport
  <2>16. Ends(SRestore, "restore", SImport) /\ SRestore \in Steps
    BY <2>15, ThenEnds, AllWords DEF SRestore
  <2>17. QED
    BY <2>1, <2>2, <2>3, <2>4, <2>5, <2>6, <2>7, <2>8, <2>9, <2>10, <2>11, <2>12, <2>13, <2>14, <2>15, <2>16 DEF BootEnds
<1>2. ServiceEnds
  <2>1. Ends(STry, "tryNvs", <<>>) /\ STry \in Steps
    BY <1>0, ThenEnds, AllWords DEF STry
  <2>2. Ends(SSave, "meta", STry) /\ SSave \in Steps
    BY <2>1, ThenEnds, AllWords DEF SSave
  <2>3. Ends(SAgain, "recover", <<>>) /\ SAgain \in Steps
    BY <1>0, ThenEnds, AllWords DEF SAgain
  <2>4. Ends(SStop, "stop", <<>>) /\ SStop \in Steps
    BY <1>0, ThenEnds, AllWords DEF SStop
  <2>5. Ends(SFinish, "finish", SStop) /\ SFinish \in Steps
    BY <2>4, ThenEnds, AllWords DEF SFinish
  <2>6. Ends(SWipe, "wipe", SFinish) /\ SWipe \in Steps
    BY <2>5, ThenEnds, AllWords DEF SWipe
  <2>7. Ends(SErase, "nvsErase", SWipe) /\ SErase \in Steps
    BY <2>6, ThenEnds, AllWords DEF SErase
  <2>8. Ends(SCard, "card", SErase) /\ SCard \in Steps
    BY <2>7, ThenEnds, AllWords DEF SCard
  <2>9. Ends(SScope, "scope", SCard) /\ SScope \in Steps
    BY <2>8, ThenEnds, AllWords DEF SScope
  <2>10. Ends(SRecoverM, "recover", SStop) /\ SRecoverM \in Steps
    BY <2>4, ThenEnds, AllWords DEF SRecoverM
  <2>11. Ends(SNvsM, "nvs", SRecoverM) /\ SNvsM \in Steps
    BY <2>10, ThenEnds, AllWords DEF SNvsM
  <2>12. Ends(SMetaM, "meta", SNvsM) /\ SMetaM \in Steps
    BY <2>11, ThenEnds, AllWords DEF SMetaM
  <2>13. Ends(SSwitch, "switch", SStop) /\ SSwitch \in Steps
    BY <2>4, ThenEnds, AllWords DEF SSwitch
  <2>14. QED
    BY <2>1, <2>2, <2>3, <2>4, <2>5, <2>6, <2>7, <2>8, <2>9, <2>10, <2>11, <2>12, <2>13 DEF ServiceEnds
<1>3. ASSUME NEW t \in Steps
      PROVE  SettleEnds(t) /\ FlushEnd(t)
  <2>1. SettleEnds(t)
    BY ThenEnds, AllWords DEF SettleEnds, SettleN, SettleC
  <2>2. FlushEnd(t)
    BY ThenEnds, AllWords DEF FlushEnd, FlushM, FlushN
  <2>3. QED
    BY <2>1, <2>2
<1>4. SIdentity \in Steps /\ SRun \in Steps /\ SStop \in Steps /\ SSwitch \in Steps /\ SScope \in Steps
  BY <1>1, <1>2 DEF BootEnds, ServiceEnds, Ends
<1>5. QED
  BY <1>0, <1>1, <1>2, <1>3, <1>4 DEF Order

\* The sequences that operations begin with.
LEMMA BootSequence ==
  LET boot == <<"import", "activate", "adopt", "tryNvs", "flushMeta", "flushNvs",
                "recover", "identity", "reconcile", "run">>
  IN <<>> \o boot = SImport /\ <<"restore">> \o boot = SRestore
<1> DEFINE b == <<"run">>
           c == <<"recover", "identity", "reconcile", "run">>
           d == <<"tryNvs", "flushMeta", "flushNvs", "recover", "identity", "reconcile", "run">>
           e == <<"import", "activate", "adopt", "tryNvs", "flushMeta", "flushNvs",
                  "recover", "identity", "reconcile", "run">>
<1> USE AllWords
<1>0. SRun \in Steps /\ SRecover \in Steps /\ STryNvs \in Steps
  BY InOrder DEF Order, BootEnds, Ends
<1>1. b = SRun
  BY Single DEF SRun
<1>2. c = SRecover
  <2>1. c = <<"recover">> \o <<"identity", "reconcile", "run">>
    BY SplitFour
  <2>2. <<"identity", "reconcile", "run">> = <<"identity">> \o <<"reconcile", "run">>
    BY SplitThree
  <2>3. <<"reconcile", "run">> = Then("reconcile", b)
    BY SplitTwo DEF Then
  <2>4. QED
    BY <2>1, <2>2, <2>3, <1>1 DEF SRecover, SIdentity, SReconcile, Then
<1>3. d = STryNvs
  <2>2. d = <<"tryNvs", "flushMeta", "flushNvs">> \o c
    BY SplitSeven
  <2>3. QED
    <3>1. <<"tryNvs", "flushMeta", "flushNvs">> \o SRecover = Then("tryNvs", Then("flushMeta", Then("flushNvs", SRecover)))
      BY <1>0, Three
    <3>2. QED
      BY <2>2, <3>1, <1>2 DEF STryNvs, SFlushMeta, SFlushNvs
<1>4. e = SImport
  <2>2. e = <<"import", "activate", "adopt">> \o d
    BY SplitTen
  <2>3. QED
    <3>1. <<"import", "activate", "adopt">> \o STryNvs = Then("import", Then("activate", Then("adopt", STryNvs)))
      BY <1>0, Three
    <3>2. QED
      BY <2>2, <3>1, <1>3 DEF SImport, SActivate, SAdopt
<1> HIDE DEF b, c, d, e
<1>5. e \in Steps
  BY <1>4, InOrder DEF Order, BootEnds, Ends
<1>6. <<>> \o e = e /\ <<"restore">> \o e = Then("restore", e)
  BY <1>5, Nothing, One
<1>7. <<>> \o e = SImport /\ <<"restore">> \o e = SRestore
  BY <1>4, <1>6 DEF SRestore
<1>8. QED
  BY <1>7 DEF e

LEMMA MaintenanceSequence ==
  /\ <<"flushMeta", "flushNvs">> \o <<>> \o <<"stop">> = FlushM(SStop)
  /\ <<"flushMeta", "flushNvs">> \o <<"switch">> \o <<"stop">> = FlushM(SSwitch)
  /\ <<"flushMeta", "flushNvs">> \o ResetSteps \o <<"stop">> = FlushM(SScope)
  /\ ResetSteps \o <<"stop">> = SScope
  /\ <<"flushMeta", "flushNvs">> = FlushM(<<>>)
  /\ <<"recover">> = SAgain /\ <<"meta", "tryNvs">> = SSave
  /\ <<"settleName", "settleConfig">> = SettleN(<<>>)
<1> DEFINE f == <<"flushMeta", "flushNvs">>
           p == <<"stop">>
<1> USE AllWords
<1>1. <<>> \in Steps
  BY Nothing
<1>2. p = SStop /\ p \in Steps
  BY Single DEF SStop
<1>3. \A x, y \in Words : <<x, y>> = Then(x, Then(y, <<>>))
  BY Pair
<1>4. f = FlushM(<<>>) /\ f \in Steps
  <2>1. f = Then("flushMeta", Then("flushNvs", <<>>)) /\ f \in Steps
    BY Pair
  <2>2. QED
    BY <2>1 DEF FlushM, FlushN
<1>5. \A x, y \in Steps : f \o x \o y = f \o (x \o y)
  BY <1>4, Associative
<1>6. \A t \in Steps : f \o t = FlushM(t)
  BY Two DEF FlushM, FlushN
<1>7. <<"switch">> \o p = SSwitch /\ <<"switch">> \in Steps /\ SSwitch \in Steps
  BY <1>2, Single, One, ThenEnds DEF SSwitch
<1>8. ResetSteps \o p = SScope /\ ResetSteps \in Steps /\ SScope \in Steps
  <2> DEFINE g == <<"wipe", "finish">>
             h == <<"scope", "card", "nvsErase">>
  <2>1. g \in Steps
    BY Pair
  <2>2. h \o g = Then("scope", Then("card", Then("nvsErase", g))) /\ h \o g \in Steps
    <3> HIDE DEF g
    <3>1. h \o g = Then("scope", Then("card", Then("nvsErase", g)))
      BY <2>1, Three
    <3>2. QED
      BY <2>1, <3>1, ThenEnds
  <2>3. ResetSteps = h \o g
    BY SplitFive DEF ResetSteps
  <2>4. g \o p = SWipe /\ SWipe \in Steps
    <3>1. g \o p = Then("wipe", Then("finish", p))
      BY <1>2, Two
    <3>2. QED
      BY <3>1, <1>2, ThenEnds DEF SWipe, SFinish
  <2>5. h \in Steps
    BY Triple
  <2>6. (h \o g) \o p = h \o (g \o p)
    <3> HIDE DEF g, h
    <3> QED
      BY <2>1, <2>5, <1>2, Associative
  <2>7. h \o SWipe = SScope
    <3>1. <<"scope", "card", "nvsErase">> \o SWipe = Then("scope", Then("card", Then("nvsErase", SWipe)))
      <4>1. SWipe \in Steps
        BY <2>4
      <4>2. QED
        BY <4>1, Three
    <3>2. QED
      BY <3>1 DEF SScope, SCard, SErase
  <2>8. SScope \in Steps
    BY <2>4, ThenEnds DEF SScope, SCard, SErase
  <2> HIDE DEF g, h
  <2>9. QED
    BY <2>2, <2>3, <2>4, <2>6, <2>7, <2>8
<1>9. f \o <<>> = f
  BY <1>4, Nothing
<1>10. /\ f \o <<>> \o p = FlushM(SStop) /\ f \o <<"switch">> \o p = FlushM(SSwitch)
       /\ f \o ResetSteps \o p = FlushM(SScope)
  <2> HIDE DEF f, p
  <2> QED
    BY <1>2, <1>5, <1>6, <1>7, <1>8, <1>9
<1>11. <<"recover">> = SAgain /\ <<"meta", "tryNvs">> = SSave /\ <<"settleName", "settleConfig">> = SettleN(<<>>)
  BY <1>3, Single DEF SAgain, SSave, STry, SettleN, SettleC
<1>12. QED
  BY <1>4, <1>8, <1>10, <1>11

-----------------------------------------------------------------------------
(* What the operators return.                                              *)

LEMMA LeastOf ==
  ASSUME NEW S, S \subseteq Nat, S # {}
  PROVE  Least(S) \in S
<1>1. PICK n \in S : \A m \in S : ~(<<m, n>> \in OpToRel(<, Nat))
  BY NatLessThanWellFounded, WFMin
<1>2. \A m \in S : ~(m < n)
  BY <1>1 DEF OpToRel
<1>3. \A m \in S : n <= m
  BY <1>2
<1>4. QED
  BY <1>3 DEF Least

LEMMA ListingFacts ==
  ASSUME NEW s, Typed, Listing(s)
  PROVE  /\ s \in Seq(Slot) /\ Len(s) \in Nat /\ DOMAIN s = 1 .. Len(s) /\ DOMAIN s \subseteq Nat \ {0}
         /\ s # Absent
         /\ \A i \in DOMAIN s : /\ s[i] \in Slot /\ s[i].hash \in made /\ s[i].hash \in Identities
                                /\ s[i].hash # None /\ s[i].name \in Titles /\ s[i].active \in BOOLEAN
                                /\ s[i].path \in KeyFiles \cup {PathIdentity}
                                /\ s[i].hash \in Hashes(s)
<1>1. /\ s \in Seq(Slot) /\ Len(s) \in Nat /\ DOMAIN s = 1 .. Len(s) /\ DOMAIN s \subseteq Nat \ {0}
      /\ \A i \in DOMAIN s : s[i] \in Slot
  BY DEF Listing
<1>2. s # Absent
  BY <1>1, Missing
<1>3. \A i \in DOMAIN s : s[i].hash \in Hashes(s)
  BY DEF Hashes
<1>4. \A i \in DOMAIN s : s[i].hash \in made
  BY <1>3 DEF Listing
<1>5. made \subseteq Identities
  BY DEF Typed
<1>6. \A i \in DOMAIN s : /\ s[i].name \in Titles /\ s[i].active \in BOOLEAN
                          /\ s[i].path \in KeyFiles \cup {PathIdentity}
  BY <1>1 DEF Slot, Titles
<1>7. QED
  BY <1>1, <1>2, <1>3, <1>4, <1>5, <1>6, Parameters

LEMMA IndexIs ==
  ASSUME NEW s \in Seq(Slot), Distinct(s), NEW i \in DOMAIN s
  PROVE  IndexOf(s, s[i].hash) = i
<1> DEFINE S == {j \in DOMAIN s : s[j].hash = s[i].hash}
<1>1. S = {i}
  BY DEF Distinct
<1>2. S \subseteq Nat
  OBVIOUS
<1>3. Least(S) \in S
  <2> HIDE DEF S
  <2> QED
    BY <1>1, <1>2, LeastOf
<1>4. QED
  BY <1>1, <1>3 DEF IndexOf

\* The active slot.
LEMMA ActiveIs ==
  ASSUME slots \in Seq(Slot), NEW a, OnlyActive(slots, a)
  PROVE  Active = a /\ Active # 0
<1> DEFINE S == {i \in DOMAIN slots : slots[i].active}
<1>1. S = {a} /\ S \subseteq Nat
  BY DEF OnlyActive
<1>2. Least(S) \in S
  <2> HIDE DEF S
  <2> QED
    BY <1>1, LeastOf
<1>3. slots[a].hash \in ActiveOf(slots)
  BY DEF OnlyActive, ActiveOf
<1>4. Active = Least(S)
  BY <1>3 DEF Active
<1>5. a # 0
  BY DEF OnlyActive
<1>6. QED
  BY <1>1, <1>2, <1>4, <1>5

LEMMA NoneActive == slots = <<>> \/ NoneOn(slots) => Active = 0
BY DEF Active, ActiveOf, NoneOn

LEMMA FiledMatches ==
  ASSUME Filed(slots), NEW i \in DOMAIN slots
  PROVE  KeyMatches(i)
<1>1. slots[i].path # PathIdentity
  BY Parameters DEF Filed, PathIdentity
<1>2. QED
  BY <1>1 DEF Filed, KeyMatches, KeyAt

LEMMA KeysKnown == WithKeys \subseteq Hashes(slots)
BY DEF WithKeys, Hashes

LEMMA UpFacts ==
  ASSUME Typed, Up
  PROVE  /\ Active \in DOMAIN slots /\ OnlyActive(slots, Active) /\ Active # 0
         /\ Running = mirror /\ slots[Active].hash = mirror
         /\ KeyMatches(Active) /\ ValidateSlot(Active) /\ WithKeys \subseteq Hashes(slots)
         /\ mirror \in Hashes(slots) /\ mirror \in made /\ mirror \in Identities /\ mirror # None
<1>1. PICK a \in DOMAIN slots : OnlyActive(slots, a) /\ slots[a].hash = mirror /\ KeyMatches(a)
  BY DEF Up
<1>2. Listing(slots) /\ slots \in Seq(Slot)
  BY DEF Typed, Listing
<1>3. Active = a /\ Active # 0
  BY <1>1, <1>2, ActiveIs
<1>4. Loaded /\ Distinct(slots)
  BY DEF Up, Loaded
<1>5. KeyMatches(a)
  BY <1>1
<1>6. ValidateSlot(a)
  BY <1>1, <1>3, <1>4, <1>5 DEF ValidateSlot, Distinct
<1>7. mirror \in Hashes(slots) /\ mirror \in made /\ mirror \in Identities /\ mirror # None
  BY <1>1, <1>2, ListingFacts
<1>8. WithKeys \subseteq Hashes(slots)
  BY KeysKnown
<1>9. QED
  BY <1>1, <1>3, <1>5, <1>6, <1>7, <1>8 DEF Running

LEMMA EmptyFacts ==
  ASSUME Empty, scope = "clear", DiskInv
  PROVE  /\ slots = <<>> /\ Active = 0 /\ metadata = Absent /\ mirror = None /\ privkey = None
         /\ known = {} /\ Fresh \subseteq chosen /\ ~dirty /\ ~nvsPending /\ ~Unsettled
BY NoneActive DEF Empty, Blank, DiskInv, Held

LEMMA StoredFacts == Typed /\ Stored => metadata # Absent /\ metadata = slots /\ ~dirty /\ Synced
BY ListingFacts DEF Typed, Stored, Synced

\* A mirror on the flash is one the device may come up with.
LEMMA UpHeld ==
  ASSUME Typed, Up, scope = "clear", DiskInv
  PROVE  mirror \in chosen /\ (Uncatalogued \/ Catalogued) /\ ~Blank
BY UpFacts DEF DiskInv, Held, Blank

-----------------------------------------------------------------------------
(* What steps leave alone, and what their writes make of the invariant.    *)

LEMMA UpFrame ==
  ASSUME UNCHANGED <<keyFile, mirror, metadata, config, slots, known, nameOf, unmigrated>>
  PROVE  /\ Loaded => Loaded'
         /\ Up => Up'
         /\ OneActive(slots) => OneActive(slots)'
         /\ unmigrated /\ NoneOn(slots) => (unmigrated /\ NoneOn(slots))'
         /\ Unsettled' = Unsettled
         /\ Renamed => Renamed'
BY DEF Loaded, Up, OneActive, NoneOn, OnlyActive, Distinct, Homed, Filed, NamedBy, Contained,
       Unsettled, Hashes, Renamed, KeyMatches, KeyAt

LEMMA DiskFrame ==
  ASSUME UNCHANGED <<keyFile, mirror, metadata, privkey, config, scope, load, made, known, nameOf, chosen, unmigrated>>
  PROVE  /\ DiskInv => DiskInv'
         /\ Blank => Blank'
<1>1. Blank => Blank'
  BY DEF Blank, Fresh
<1>2. Uncatalogued => Uncatalogued'
  BY DEF Uncatalogued
<1>3. Catalogued => Catalogued'
  BY DEF Catalogued, OneActive, OnlyActive, Distinct, Homed, Filed, Old, NamedBy, Unsettled, Hashes
<1>4. QED
  BY <1>1, <1>2, <1>3 DEF DiskInv, Held, Unsettled

LEMMA SettingsFrame ==
  ASSUME UNCHANGED <<config, settings>>, SettingsOK
  PROVE  SettingsOK'
BY DEF SettingsOK, Unsettled, Effective

LEMMA ServedFrame ==
  ASSUME UNCHANGED <<keyFile, mirror, metadata, config, slots, known, nameOf, unmigrated, settings>>, Served, NvsOK'
  PROVE  Served'
<1>1. Up' /\ SettingsOK'
  BY UpFrame, SettingsFrame DEF Served
<1>2. QED
  BY <1>1 DEF Served, Shown, Effective, Bound

\* The key in the NVS is the running one.
LEMMA NvsWrites ==
  ASSUME privkey' \in {None, mirror}, DiskInv, ~Blank \/ privkey' = privkey,
         UNCHANGED <<keyFile, mirror, metadata, config, scope, load, made, known, nameOf, chosen, unmigrated>>
  PROVE  DiskInv'
<1>2. Uncatalogued => Uncatalogued'
  BY DEF Uncatalogued
<1>3. Catalogued => Catalogued'
  BY DEF Catalogued, OneActive, OnlyActive, Distinct, Homed, Filed, Old, NamedBy, Unsettled, Hashes
<1>4. Blank => Blank'
  BY DEF Blank, Fresh
<1>5. QED
  BY <1>2, <1>3, <1>4 DEF DiskInv, Held, Unsettled

\* The catalogue is written: it lists what the memory lists.
LEMMA Saves ==
  ASSUME Typed, Up, DiskInv, scope = "clear",
         metadata' = slots, dirty' = FALSE, known' = known \cup WithKeys,
         UNCHANGED <<keyFile, mirror, config, scope, slots, load, made, nameOf, chosen, unmigrated>>
  PROVE  DiskInv' /\ Up' /\ Stored' /\ metadata' # Absent /\ known' \subseteq made' /\ Listing(metadata)'
         /\ Unsettled' = Unsettled
<1>1. /\ Loaded /\ Distinct(slots) /\ Homed(slots) /\ NamedBy(slots) /\ known \subseteq Hashes(slots)
      /\ \E a \in DOMAIN slots : OnlyActive(slots, a) /\ slots[a].hash = mirror /\ KeyMatches(a)
  BY DEF Up, Loaded
<1>2. Listing(slots) /\ slots # Absent
  BY ListingFacts DEF Typed
<1>3. mirror \in Hashes(slots) /\ mirror \in chosen /\ WithKeys \subseteq Hashes(slots)
  BY UpFacts, UpHeld
<1>4. known' \subseteq Hashes(slots)
  BY <1>1, <1>3
<1>5. Distinct(slots)' /\ Homed(slots)' /\ NamedBy(slots)' /\ Unsettled' = Unsettled
  BY <1>1 DEF Distinct, Homed, Filed, NamedBy, Unsettled
<1>6. OneActive(slots)' /\ (\E a \in DOMAIN slots : OnlyActive(slots, a) /\ slots[a].hash = mirror /\ KeyMatches(a))'
  BY <1>1 DEF OneActive, OnlyActive, KeyMatches, KeyAt
<1>7. Contained'
  BY DEF Contained
<1>8. Up'
  BY <1>3, <1>4, <1>5, <1>6, <1>7 DEF Up, Loaded, Hashes
<1>9. Catalogued'
  BY <1>2, <1>3, <1>4, <1>5, <1>6 DEF Catalogued, Hashes, Distinct, OneActive, OnlyActive, Homed, Filed, NamedBy
<1>10. (Unsettled => metadata # Absent /\ config.bound = mirror /\ config.name = nameOf[mirror])'
  BY <1>2, <1>5 DEF DiskInv, Held
<1>11. DiskInv'
  BY <1>3, <1>9, <1>10 DEF DiskInv, Held
<1>12. Stored'
  BY DEF Stored
<1>13. known' \subseteq made' /\ Listing(metadata)'
  BY <1>2, <1>4 DEF Listing, Hashes
<1>14. QED
  BY <1>2, <1>5, <1>8, <1>11, <1>12, <1>13

\* Which keys the files hold is of no concern once a migration was missed.
LEMMA KeysAside ==
  ASSUME DiskInv, unmigrated' \/ UNCHANGED <<keyFile, unmigrated>>,
         UNCHANGED <<mirror, metadata, privkey, config, scope, load, made, known, nameOf, chosen>>
  PROVE  DiskInv'
<1>1. Uncatalogued => Uncatalogued'
  BY DEF Uncatalogued
<1>2. Catalogued => Catalogued'
  BY DEF Catalogued, OneActive, OnlyActive, Distinct, Homed, Filed, Old, NamedBy, Unsettled, Hashes
<1>3. Blank => Blank'
  BY DEF Blank, Fresh
<1>4. QED
  BY <1>1, <1>2, <1>3 DEF DiskInv, Held, Unsettled

-----------------------------------------------------------------------------
(* Where the device is when it takes a step.                               *)

Begins(s, step) == s # <<>> /\ Head(s) = step
BootBegins ==
  /\ Begins(SRun, "run") /\ Begins(SReconcile, "reconcile") /\ Begins(STryNvs2, "tryNvs")
  /\ Begins(SNvs, "nvs") /\ Begins(SMeta2, "meta") /\ Begins(SRaw, "rawMirror")
  /\ Begins(SIdentity, "identity") /\ Begins(SRecover, "recover") /\ Begins(SFlushNvs, "flushNvs")
  /\ Begins(SFlushMeta, "flushMeta") /\ Begins(STryNvs, "tryNvs") /\ Begins(SMeta, "meta")
  /\ Begins(SAdopt, "adopt") /\ Begins(SActivate, "activate") /\ Begins(SImport, "import")
  /\ Begins(SRestore, "restore")
ServiceBegins ==
  /\ Begins(STry, "tryNvs") /\ Begins(SSave, "meta") /\ Begins(SAgain, "recover")
  /\ Begins(SStop, "stop") /\ Begins(SFinish, "finish") /\ Begins(SWipe, "wipe")
  /\ Begins(SErase, "nvsErase") /\ Begins(SCard, "card") /\ Begins(SScope, "scope")
  /\ Begins(SRecoverM, "recover") /\ Begins(SNvsM, "nvs") /\ Begins(SMetaM, "meta")
  /\ Begins(SSwitch, "switch")
OtherBegins ==
  /\ Begins(SettleN(SIdentity), "settleName") /\ Begins(SettleC(SIdentity), "settleConfig") /\ Begins(SettleN(SRun), "settleName")
  /\ Begins(SettleC(SRun), "settleConfig") /\ Begins(SettleN(<<>>), "settleName") /\ Begins(SettleC(<<>>), "settleConfig")
  /\ Begins(FlushM(<<>>), "flushMeta") /\ Begins(FlushN(<<>>), "flushNvs") /\ Begins(FlushM(SStop), "flushMeta")
  /\ Begins(FlushN(SStop), "flushNvs") /\ Begins(FlushM(SSwitch), "flushMeta") /\ Begins(FlushN(SSwitch), "flushNvs")
  /\ Begins(FlushM(SScope), "flushMeta") /\ Begins(FlushN(SScope), "flushNvs")

LEMMA Beginnings == BootBegins /\ ServiceBegins /\ OtherBegins
<1>1. BootBegins
  BY InOrder DEF Order, BootEnds, Ends, BootBegins, Begins
<1>2. ServiceBegins
  BY InOrder DEF Order, ServiceEnds, Ends, ServiceBegins, Begins
<1>3. OtherBegins
  BY InOrder DEF Order, SettleEnds, FlushEnd, Ends, OtherBegins, Begins
<1>4. QED
  BY <1>1, <1>2, <1>3

LEMMA BootPlaces ==
  ASSUME Stage, todo # <<>>
  PROVE  /\ Head(todo) = "restore" => Booting /\ Read /\ todo = SRestore
         /\ Head(todo) = "import" => Booting /\ Read /\ todo = SImport
         /\ Head(todo) = "activate" => Booting /\ Imported /\ todo = SActivate
         /\ Head(todo) = "adopt" => Booting /\ Imported /\ todo = SAdopt
         /\ Head(todo) = "identity" => Booting /\ (Empty \/ (Up /\ Stored)) /\ todo = SIdentity
         /\ Head(todo) = "rawMirror" => Booting /\ Creating /\ todo = SRaw
         /\ Head(todo) = "reconcile" => Booting /\ Up /\ Stored /\ NvsOK /\ todo = SReconcile
         /\ Head(todo) = "run" => Booting /\ Reconciling /\ todo = SRun
BY Beginnings DEF Stage, Booting, Read, Imported, Adopted, Recovering, Creating, Reconciling, Serving, Flushing,
       Switching, Maintained, Resetting, Resting, BootBegins, ServiceBegins, OtherBegins, Begins

LEMMA SavingPlaces ==
  ASSUME Stage, todo # <<>>, Head(todo) \in {"meta", "flushMeta"}
  PROVE  \/ Booting /\ Up /\ ~nvsPending /\ todo = SMeta
         \/ Booting /\ Up /\ ~Unsettled /\ todo = SMeta2
         \/ Serving /\ todo = SSave
         \/ Maintained /\ Up /\ SettingsOK /\ todo = SMetaM
         \/ Booting /\ (Empty \/ (Up /\ Synced /\ NvsOK)) /\ (nvsPending => faulty) /\ todo = SFlushMeta
         \/ Serving /\ Synced /\ todo = FlushM(<<>>)
         \/ /\ Maintained /\ Served /\ Synced
            /\ \E t \in {SStop, SSwitch, SScope} :
                 todo = FlushM(t) /\ (t = SSwitch => subject.key \in Hashes(slots))
BY Beginnings DEF Stage, Booting, Read, Imported, Adopted, Recovering, Creating, Reconciling, Serving, Flushing,
       Switching, Maintained, Resetting, Resting, BootBegins, ServiceBegins, OtherBegins, Begins

LEMMA NvsPlaces ==
  ASSUME Stage, todo # <<>>, Head(todo) \in {"nvs", "tryNvs", "flushNvs"}
  PROVE  \/ Booting /\ ~nvsPending /\ (Empty \/ (Up /\ Synced)) /\ todo = STryNvs
         \/ Booting /\ Up /\ Stored /\ todo \in {SNvs, STryNvs2}
         \/ Serving /\ Synced /\ todo = STry
         \/ Maintained /\ Up /\ SettingsOK /\ Stored /\ todo = SNvsM
         \/ /\ Booting /\ (Empty \/ (Up /\ Synced /\ NvsOK)) /\ (nvsPending \/ dirty => faulty)
            /\ todo = SFlushNvs
         \/ Serving /\ Synced /\ todo = FlushN(<<>>)
         \/ /\ Maintained /\ Served /\ Synced
            /\ \E t \in {SStop, SSwitch, SScope} :
                 todo = FlushN(t) /\ (t = SSwitch => subject.key \in Hashes(slots))
BY Beginnings DEF Stage, Booting, Read, Imported, Adopted, Recovering, Creating, Reconciling, Serving, Flushing,
       Switching, Maintained, Resetting, Resting, BootBegins, ServiceBegins, OtherBegins, Begins

LEMMA RecoverPlaces ==
  ASSUME Stage, todo # <<>>, Head(todo) \in {"recover", "reconcile"}
  PROVE  \/ Booting /\ (Empty \/ (Up /\ Stored)) /\ todo = SRecover
         \/ Booting /\ Up /\ Stored /\ NvsOK /\ todo = SReconcile
         \/ Serving /\ Synced /\ settings.pending /\ todo = SAgain
         \/ Maintained /\ Up /\ Stored /\ SettingsOK /\ todo = SRecoverM
BY Beginnings DEF Stage, Booting, Read, Imported, Adopted, Recovering, Creating, Reconciling, Serving, Flushing,
       Switching, Maintained, Resetting, Resting, BootBegins, ServiceBegins, OtherBegins, Begins

LEMMA SettlePlaces ==
  ASSUME Stage, todo # <<>>
  PROVE  /\ Head(todo) = "settleName" =>
              \/ Booting /\ Up /\ Stored /\ settings.pending /\ todo = SettleN(SIdentity)
              \/ Booting /\ Up /\ Stored /\ NvsOK /\ settings.pending /\ todo = SettleN(SRun)
              \/ Serving /\ Synced /\ settings.pending /\ todo = SettleN(<<>>)
         /\ Head(todo) = "settleConfig" =>
              \/ Booting /\ Up /\ Stored /\ settings.pending /\ Renamed /\ todo = SettleC(SIdentity)
              \/ Booting /\ Up /\ Stored /\ NvsOK /\ settings.pending /\ Renamed /\ todo = SettleC(SRun)
              \/ Serving /\ Synced /\ settings.pending /\ Renamed /\ todo = SettleC(<<>>)
BY Beginnings DEF Stage, Booting, Read, Imported, Adopted, Recovering, Creating, Reconciling, Serving, Flushing,
       Switching, Maintained, Resetting, Resting, BootBegins, ServiceBegins, OtherBegins, Begins

LEMMA OtherPlaces ==
  ASSUME Stage, todo # <<>>
  PROVE  /\ Head(todo) = "switch" => /\ Maintained /\ Served /\ Stored /\ subject.key \in Hashes(slots)
                                     /\ todo = SSwitch
         /\ Head(todo) = "stop" => phase \in {"maintenance", "recovery"} /\ todo = SStop
         /\ Head(todo) = "scope" => Resetting /\ todo = SScope
         /\ Head(todo) = "card" => Resetting /\ ScopeKnown /\ todo = SCard
         /\ Head(todo) = "nvsErase" => Resetting /\ ScopeKnown /\ todo = SErase
         /\ Head(todo) = "wipe" => Resetting /\ ScopeKnown /\ privkey = None /\ todo = SWipe
         /\ Head(todo) = "finish" => Resetting /\ ScopeKnown /\ privkey = None /\ Wiped /\ todo = SFinish
BY Beginnings DEF Stage, Booting, Read, Imported, Adopted, Recovering, Creating, Reconciling, Serving, Flushing,
       Switching, Maintained, Resetting, Resting, BootBegins, ServiceBegins, OtherBegins, Begins

LEMMA IdlePlaces ==
  ASSUME Stage, todo = <<>>
  PROVE  /\ phase = "off" => ~dirty /\ ~nvsPending
         /\ phase = "running" => Serving /\ Synced
         /\ phase \in {"off", "running", "recovery", "stopped", "halted"}
         /\ phase = "halted" => faulty \/ Stillborn
BY Beginnings DEF Stage, Booting, Read, Imported, Adopted, Recovering, Creating, Reconciling, Serving, Flushing,
       Switching, Maintained, Resetting, Resting, BootBegins, ServiceBegins, OtherBegins, Begins

\* An operation that is given up leaves the device halted, stopped or idle.
LEMMA HaltedPlaces ==
  ASSUME todo' = <<>>, phase' = "halted", faulty' \/ Stillborn'
  PROVE  Stage'
BY DEF Stage, Resting

LEMMA StoppedPlaces ==
  ASSUME todo' = <<>>, phase' \in {"stopped", "recovery"}
  PROVE  Stage'
BY DEF Stage, Resting

\* What follows each step.
BootTails ==
  /\ Tail(SRun) = <<>> /\ Tail(SReconcile) = SRun /\ Tail(STryNvs2) = SReconcile
  /\ Tail(SNvs) = STryNvs2 /\ Tail(SMeta2) = SNvs /\ Tail(SRaw) = SMeta2
  /\ Tail(SIdentity) = SReconcile /\ Tail(SRecover) = SIdentity /\ Tail(SFlushNvs) = SRecover
  /\ Tail(SFlushMeta) = SFlushNvs /\ Tail(STryNvs) = SFlushMeta /\ Tail(SMeta) = STryNvs
  /\ Tail(SAdopt) = STryNvs /\ Tail(SActivate) = SAdopt /\ Tail(SImport) = SActivate
  /\ Tail(SRestore) = SImport
ServiceTails ==
  /\ Tail(STry) = <<>> /\ Tail(SSave) = STry /\ Tail(SAgain) = <<>>
  /\ Tail(SStop) = <<>> /\ Tail(SFinish) = SStop /\ Tail(SWipe) = SFinish
  /\ Tail(SErase) = SWipe /\ Tail(SCard) = SErase /\ Tail(SScope) = SCard
  /\ Tail(SRecoverM) = SStop /\ Tail(SNvsM) = SRecoverM /\ Tail(SMetaM) = SNvsM
  /\ Tail(SSwitch) = SStop
OtherTails ==
  /\ Tail(SettleN(SIdentity)) = SettleC(SIdentity) /\ Tail(SettleC(SIdentity)) = SIdentity /\ Tail(SettleN(SRun)) = SettleC(SRun)
  /\ Tail(SettleC(SRun)) = SRun /\ Tail(SettleN(<<>>)) = SettleC(<<>>) /\ Tail(SettleC(<<>>)) = <<>>
  /\ Tail(FlushM(<<>>)) = FlushN(<<>>) /\ Tail(FlushN(<<>>)) = <<>> /\ Tail(FlushM(SStop)) = FlushN(SStop)
  /\ Tail(FlushN(SStop)) = SStop /\ Tail(FlushM(SSwitch)) = FlushN(SSwitch) /\ Tail(FlushN(SSwitch)) = SSwitch
  /\ Tail(FlushM(SScope)) = FlushN(SScope) /\ Tail(FlushN(SScope)) = SScope

LEMMA Continuations == BootTails /\ ServiceTails /\ OtherTails
<1>1. BootTails
  BY InOrder DEF Order, BootEnds, Ends, BootTails
<1>2. ServiceTails
  BY InOrder DEF Order, ServiceEnds, Ends, ServiceTails
<1>3. OtherTails
  BY InOrder DEF Order, SettleEnds, FlushEnd, Ends, OtherTails
<1>4. QED
  BY <1>1, <1>2, <1>3

\* What comes in between.
LEMMA Insertions ==
  /\ <<"meta">> \o Tail(SAdopt) = SMeta
  /\ <<"tryNvs">> \o Tail(SIdentity) = STryNvs2
  /\ <<"rawMirror", "meta", "nvs", "tryNvs">> \o Tail(SIdentity) = SRaw
  /\ <<"settleName", "settleConfig">> \o Tail(SRecover) = SettleN(SIdentity)
  /\ <<"settleName", "settleConfig">> \o Tail(SReconcile) = SettleN(SRun)
  /\ <<"settleName", "settleConfig">> \o Tail(SAgain) = SettleN(<<>>)
  /\ <<"nvs", "recover">> \o Tail(SSwitch) = SNvsM
  /\ <<"meta", "nvs", "recover">> \o Tail(SSwitch) = SMetaM
<1>1. /\ STryNvs \in Steps /\ SReconcile \in Steps /\ SIdentity \in Steps /\ SRun \in Steps
      /\ SStop \in Steps /\ <<>> \in Steps
  BY InOrder, Nothing DEF Order, BootEnds, ServiceEnds, Ends
<1>2. /\ Tail(SAdopt) = STryNvs /\ Tail(SIdentity) = SReconcile /\ Tail(SRecover) = SIdentity
      /\ Tail(SReconcile) = SRun /\ Tail(SAgain) = <<>> /\ Tail(SSwitch) = SStop
  BY Continuations DEF BootTails, ServiceTails
<1>3. <<"meta">> \o STryNvs = SMeta
  BY <1>1, One DEF SMeta
<1>4. <<"tryNvs">> \o SReconcile = STryNvs2
  BY <1>1, One DEF STryNvs2
<1>5. <<"rawMirror", "meta", "nvs", "tryNvs">> \o SReconcile = SRaw
  <2>1. <<"rawMirror", "meta", "nvs", "tryNvs">> \o SReconcile
          = Then("rawMirror", Then("meta", Then("nvs", Then("tryNvs", SReconcile))))
    BY <1>1, Four
  <2>2. QED
    BY <2>1 DEF SRaw, SMeta2, SNvs, STryNvs2
<1>6. \A t \in Steps : <<"settleName", "settleConfig">> \o t = SettleN(t)
  BY Two DEF SettleN, SettleC
<1>7. <<"nvs", "recover">> \o SStop = SNvsM
  BY <1>1, Two DEF SNvsM, SRecoverM
<1>8. <<"meta", "nvs", "recover">> \o SStop = SMetaM
  <2>1. <<"meta", "nvs", "recover">> \o SStop = Then("meta", Then("nvs", Then("recover", SStop)))
    BY <1>1, Three
  <2>2. QED
    BY <2>1 DEF SMetaM, SNvsM, SRecoverM
<1>9. QED
  BY <1>1, <1>2, <1>3, <1>4, <1>5, <1>6, <1>7, <1>8


-----------------------------------------------------------------------------
(* A boot.                                                                 *)

LEMMA LoadFrame == ASSUME Loadable, UNCHANGED <<load, lost>> PROVE Loadable'
BY DEF Loadable, Healthy

\* A step that writes nothing the invariant of the flash is about.
LEMMA TypedFrame ==
  ASSUME Typed,
         UNCHANGED <<keyFile, mirror, metadata, privkey, card, scope, slots, subject,
                     made, known, nameOf, chosen, unmigrated>>,
         config' \in Settings \cup {Absent},
         settings' \in [bound : Keys, pending : BOOLEAN, name : Titles, flash : BOOLEAN],
         dirty' \in BOOLEAN, nvsPending' \in BOOLEAN, faulty' \in BOOLEAN,
         phase' \in {"off", "recovery", "booting", "halted", "running", "maintenance", "stopped"}
  PROVE  Typed'
BY DEF Typed, Listing, Hashes

LEMMA StartKeeps == ASSUME IInv, Start PROVE IInv'
<1> USE DEF Start
<1>1. Typed /\ Loadable /\ DiskInv /\ Stage
  BY DEF IInv
<1>2. todo = <<>> /\ ~dirty /\ ~nvsPending
  BY <1>1 DEF Stage, Booting, Read, Imported, Adopted, Recovering, Creating, Reconciling, Serving, Flushing,
       Switching, Maintained, Resetting, Resting
<1>3. Loadable'
  BY <1>1, LoadFrame
<1>4. DiskInv'
  BY <1>1, DiskFrame DEF disk, keys, history
<1>5. CASE ~MayLoad
  <2>1. Typed'
    BY <1>1, <1>5, TypedFrame DEF Typed, disk, keys, history
  <2>2. Stage'
    BY <1>2, <1>5, StoppedPlaces
  <2>3. QED
    BY <1>3, <1>4, <2>1, <2>2 DEF IInv
<1>6. CASE MayLoad
  <2>1. Listing(slots)'
    <3>1. CASE metadata = Absent
      BY <1>1, <1>6, <3>1, Parameters DEF Listing, Hashes, disk, keys, history
    <3>2. CASE metadata # Absent
      BY <1>1, <1>6, <3>2 DEF Typed, Listing, Hashes, disk, keys, history
    <3>3. QED
      BY <3>1, <3>2
  <2>2. settings' \in [bound : Keys, pending : BOOLEAN, name : Titles, flash : BOOLEAN]
    <3>1. CASE config = Absent
      <4>1. settings' = DefaultSettings
        BY <1>6, <3>1
      <4>2. DefaultSettings \in [bound : Keys, pending : BOOLEAN, name : Titles, flash : BOOLEAN]
        BY DEF DefaultSettings, Keys, Titles
      <4>3. QED
        BY <4>1, <4>2
    <3>2. CASE config # Absent
      <4>1. config \in Settings
        BY <1>1, <3>2 DEF Typed
      <4>2. settings' = [bound |-> config.bound, pending |-> config.pending, name |-> config.name, flash |-> TRUE]
        BY <1>6, <3>2
      <4>3. config.bound \in Keys /\ config.pending \in BOOLEAN /\ config.name \in Titles
        BY <4>1 DEF Settings, Keys, Titles
      <4> HIDE DEF Start
      <4>4. QED
        BY <4>2, <4>3
    <3>3. QED
      BY <3>1, <3>2
  <2>3. Typed'
    BY <1>1, <1>6, <2>1, <2>2 DEF Typed, Listing, Hashes, disk, keys, history
  <2>4. SettingsOK'
    <3>1. CASE config = Absent
      BY <1>6, <3>1 DEF SettingsOK, Unsettled, DefaultSettings, disk
    <3>2. CASE config # Absent
      <4>1. config \in Settings /\ config' = config
        BY <1>1, <3>2 DEF Typed, disk
      <4>2. settings' = [bound |-> config.bound, pending |-> config.pending, name |-> config.name, flash |-> TRUE]
        BY <1>6, <3>2
      <4>3. settings'.pending = config.pending /\ settings' = Effective(config)'
        BY <4>1, <4>2 DEF Effective
      <4>4. QED
        BY <3>2, <4>1, <4>3 DEF SettingsOK, Unsettled
    <3>3. QED
      BY <3>1, <3>2
  <2>5. todo' = SImport \/ (todo' = SRestore /\ config = Absent /\ card # Absent)
    BY <1>6, BootSequence
  <2>6. Read'
    BY <1>2, <1>6, <2>5 DEF Read, Unsettled, disk, keys
  <2>7. Stage'
    BY <1>6, <2>4, <2>6 DEF Stage, Booting, MayLoad, disk
  <2>8. QED
    BY <1>3, <1>4, <2>3, <2>7 DEF IInv
<1>7. QED
  BY <1>5, <1>6

LEMMA RestoreKeeps == ASSUME IInv, RestoreSettings PROVE IInv'
<1> USE DEF RestoreSettings
<1>1. Typed /\ Loadable /\ DiskInv /\ Stage
  BY DEF IInv
<1>2. Booting /\ Read /\ todo = SRestore /\ phase = "booting" /\ scope = "clear"
  BY <1>1, BootPlaces DEF At, Booting
<1>3. ~Unsettled /\ card # Absent /\ card \in Copies
  BY <1>1, <1>2, Beginnings DEF Read, Typed, BootBegins, Begins
<1>4. Loadable'
  BY <1>1, LoadFrame
<1>5. CASE Fail /\ UNCHANGED <<config, settings>>
  <2>1. DiskInv'
    BY <1>1, <1>5, DiskFrame DEF keys, history
  <2>2. Typed'
    BY <1>1, <1>5, TypedFrame DEF Typed, keys, history, Fail, GivenUp
  <2>3. Stage'
    BY <1>2, <1>5, HaltedPlaces DEF Fail, GivenUp
  <2>4. QED
    BY <1>4, <2>1, <2>2, <2>3 DEF IInv
<1>6. CASE /\ config' = [bound |-> card.bound, pending |-> FALSE, name |-> card.name]
           /\ settings' = [bound |-> card.bound, pending |-> FALSE, name |-> card.name, flash |-> FALSE]
           /\ Proceed
  <2>1. config' \in Settings /\ config' # Absent
    <3>1. config' \in Settings
      BY <1>3, <1>6 DEF Copies, Settings
    <3>2. QED
      BY <3>1, Missing
  <2>2. settings' \in [bound : Keys, pending : BOOLEAN, name : Titles, flash : BOOLEAN]
    BY <1>3, <1>6 DEF Copies, Keys, Titles
  <2>3. Typed'
    BY <1>1, <1>6, <2>1, <2>2, TypedFrame DEF Typed, keys, history, Proceed
  <2>4. ~Unsettled'
    BY <1>6 DEF Unsettled
  <2>5. DiskInv'
    <3>1. Blank => Blank'
      BY DEF Blank, Fresh, keys, history
    <3>2. Uncatalogued => Uncatalogued'
      BY DEF Uncatalogued, keys, history
    <3>3. Catalogued => Catalogued'
      BY <1>3, <2>4 DEF Catalogued, OneActive, OnlyActive, Distinct, Homed, Filed, Old, NamedBy, Hashes, keys, history
    <3>4. QED
      BY <1>1, <2>4, <3>1, <3>2, <3>3 DEF DiskInv, Held, keys, history
  <2>6. SettingsOK'
    BY <1>6, <2>4 DEF SettingsOK
  <2>7. Read'
    BY <1>2, <1>6, Continuations, Beginnings DEF Read, Proceed, BootTails, BootBegins, Begins, keys
  <2>8. Stage'
    BY <1>2, <1>6, <2>6, <2>7 DEF Stage, Booting, Proceed
  <2>9. QED
    BY <1>4, <2>3, <2>5, <2>8 DEF IInv
<1>7. QED
  BY <1>5, <1>6

\* A catalogue of one slot.
LEMMA FirstSlot ==
  ASSUME NEW h \in Identities, NEW n \in KeyFiles \cup {PathIdentity}
  PROVE  LET s == <<NewSlot(h, n, TRUE)>>
         IN /\ s \in Seq(Slot) /\ Len(s) = 1 /\ Len(s) <= MaxIdentities /\ DOMAIN s = {1}
            /\ s[1].hash = h /\ s[1].path = n /\ s[1].active = TRUE /\ s[1].name = Unnamed
            /\ Hashes(s) = {h} /\ Distinct(s) /\ OnlyActive(s, 1) /\ s # <<>>
<1> DEFINE v == NewSlot(h, n, TRUE)
           s == <<v>>
<1>1. v \in Slot /\ v.hash = h /\ v.path = n /\ v.active = TRUE /\ v.name = Unnamed
  BY DEF NewSlot, Slot
<1> HIDE DEF v
<1>2. s \in Seq(Slot) /\ Len(s) = 1 /\ DOMAIN s = {1} /\ s[1] = v /\ s # <<>>
  BY <1>1
<1>3. Len(s) <= MaxIdentities
  BY <1>2, Parameters
<1> HIDE DEF s
<1>4. Hashes(s) = {h} /\ Distinct(s) /\ OnlyActive(s, 1)
  BY <1>1, <1>2 DEF Hashes, Distinct, OnlyActive
<1>5. QED
  BY <1>1, <1>2, <1>3, <1>4 DEF s, v

\* Before the import: nothing, the key alone, or a catalogue, maybe with an old slot.
LEMMA ReadPlaces ==
  ASSUME Typed, DiskInv, Loadable, scope = "clear", Read
  PROVE  \/ Blank /\ slots = <<>> /\ mirror = None /\ OldSlots = {}
         \/ /\ Uncatalogued /\ slots = <<>> /\ mirror \in Identities /\ mirror \in made /\ mirror # None
            /\ metadata = Absent /\ ~Unsettled /\ OldSlots = {}
         \/ Catalogued /\ slots = metadata /\ slots # <<>> /\ Homed(slots) /\ OldSlots = {}
         \/ Catalogued /\ slots = metadata /\ slots # <<>> /\ OldSlots # {} /\ (unmigrated \/ Old(slots))
<1>1. Held
  BY DEF DiskInv
<1>2. CASE Blank
  BY <1>2 DEF Read, Blank, OldSlots
<1>3. CASE mirror \in chosen /\ Uncatalogued
  <2>1. mirror \in Identities /\ mirror \in made /\ mirror # None
    BY <1>3, Parameters DEF Typed
  <2>2. QED
    BY <1>1, <1>3, <2>1 DEF Read, Uncatalogued, Held, OldSlots
<1>4. CASE Catalogued
  <2>1. slots = metadata /\ slots # <<>>
    BY <1>4 DEF Read, Catalogued, OneActive, OnlyActive
  <2>2. CASE Filed(metadata)
    <3>1. \A i \in DOMAIN slots : slots[i].path # PathIdentity
      BY <2>1, <2>2, Parameters DEF Filed, PathIdentity
    <3>2. QED
      BY <1>4, <2>1, <2>2, <3>1 DEF OldSlots, Homed
  <2>3. CASE Old(metadata)
    <3>1. DOMAIN slots = {1}
      BY <2>1, <2>3, ListingFacts DEF Old, Typed
    <3>2. OldSlots # {}
      BY <2>1, <2>3, <3>1 DEF OldSlots, Old
    <3>3. QED
      BY <1>4, <2>1, <2>3, <3>1, <3>2
  <2>4. CASE unmigrated
    BY <1>4, <2>1, <2>4 DEF Homed
  <2>5. QED
    BY <1>4, <2>2, <2>3, <2>4 DEF Catalogued, Homed
<1>5. QED
  BY <1>1, <1>2, <1>3, <1>4 DEF Held

\* The slot that an old catalogue keeps at PATH_IDENTITY.
LEMMA OldSlotIs ==
  ASSUME Typed, Catalogued, slots = metadata, OldSlots # {}
  PROVE  /\ Least(OldSlots) \in DOMAIN slots /\ slots[Least(OldSlots)].hash = mirror
         /\ Least(OldSlots) - 1 \in KeyFiles /\ mirror \in made
<1> DEFINE i == Least(OldSlots)
<1>1. Listing(slots) /\ DOMAIN slots = 1 .. Len(slots) /\ Len(slots) \in Nat /\ Len(slots) <= MaxIdentities
  BY ListingFacts DEF Typed, Listing
<1>2. OldSlots \subseteq DOMAIN slots /\ OldSlots \subseteq Nat
  BY <1>1 DEF OldSlots
<1>3. i \in OldSlots
  BY <1>2, LeastOf
<1> HIDE DEF i
<1>4. i \in DOMAIN slots /\ slots[i].hash = mirror
  BY <1>3 DEF OldSlots
<1>5. i \in 1 .. MaxIdentities
  BY <1>1, <1>4, Parameters
<1>6. i - 1 \in KeyFiles
  BY <1>5, Parameters
<1>7. mirror \in made
  BY <1>1, <1>4, ListingFacts
<1>8. QED
  BY <1>4, <1>6, <1>7 DEF i

\* It moves to a file of its own.
Moving(s, i, n) == [s EXCEPT ![i].path = n]

LEMMA Moved ==
  ASSUME NEW s \in Seq(Slot), NEW i \in DOMAIN s, NEW n \in KeyFiles
  PROVE  LET t == Moving(s, i, n)
         IN /\ t \in Seq(Slot) /\ Len(t) = Len(s) /\ DOMAIN t = DOMAIN s
            /\ \A j \in DOMAIN s : /\ t[j].hash = s[j].hash /\ t[j].name = s[j].name
                                   /\ t[j].active = s[j].active
                                   /\ t[j].path = IF j = i THEN n ELSE s[j].path
            /\ Hashes(t) = Hashes(s)
<1> DEFINE v == [s[i] EXCEPT !.path = n]
           t == [s EXCEPT ![i] = v]
<1>0. Moving(s, i, n) = t
  BY DEF Moving
<1>1. s[i] \in Slot
  OBVIOUS
<1>2. v \in Slot /\ v.hash = s[i].hash /\ v.name = s[i].name /\ v.active = s[i].active /\ v.path = n
  BY <1>1 DEF Slot
<1> HIDE DEF v
<1>3. t \in Seq(Slot) /\ Len(t) = Len(s) /\ DOMAIN t = DOMAIN s
  BY <1>2
<1>4. t[i] = v /\ \A j \in DOMAIN s : j # i => t[j] = s[j]
  OBVIOUS
<1> HIDE DEF t
<1>5. \A j \in DOMAIN s : /\ t[j].hash = s[j].hash /\ t[j].name = s[j].name
                          /\ t[j].active = s[j].active
                          /\ t[j].path = IF j = i THEN n ELSE s[j].path
  BY <1>2, <1>4
<1>6. Hashes(t) = Hashes(s)
  BY <1>3, <1>5 DEF Hashes
<1>7. QED
  BY <1>0, <1>3, <1>5, <1>6

\* A step that changes the catalogue in memory and the key files.
LEMMA SlotsTyped ==
  ASSUME Typed, Listing(slots)', keyFile' \in [KeyFiles -> made \cup {None}],
         UNCHANGED <<mirror, metadata, privkey, config, card, scope, nvsPending, settings, subject,
                     made, known, nameOf, chosen, unmigrated>>,
         dirty' \in BOOLEAN, faulty' \in BOOLEAN,
         phase' \in {"off", "recovery", "booting", "halted", "running", "maintenance", "stopped"}
  PROVE  Typed'
BY DEF Typed, Listing, Hashes

LEMMA ImportKeeps == ASSUME IInv, ImportKey PROVE IInv'
<1> USE DEF ImportKey
<1>1. Typed /\ Loadable /\ DiskInv /\ Stage
  BY DEF IInv
<1>2. Booting /\ Read /\ todo = SImport /\ phase = "booting" /\ scope = "clear" /\ SettingsOK
  BY <1>1, BootPlaces DEF At, Booting
<1>3. ~dirty /\ ~nvsPending
  BY <1>2 DEF Read
<1>4. Loadable' /\ SettingsOK'
  BY <1>1, <1>2, LoadFrame, SettingsFrame
<1>5. Tail(todo) = SActivate
  BY <1>2, Continuations DEF BootTails
<1>6. ASSUME Typed', DiskInv', todo' = SActivate, phase' = "booting", Imported' PROVE IInv'
  BY <1>1, <1>2, <1>4, <1>6 DEF IInv, Stage, Booting
<1>7. Least({1}) = 1
  <2>1. Least({1}) \in {1}
    BY LeastOf
  <2>2. QED
    BY <2>1
<1>8. CASE Proceed /\ UNCHANGED <<keyFile, slots, dirty, unmigrated>> /\ ~(slots = <<>> /\ mirror # None) /\ OldSlots = {}
  <2>1. Typed' /\ DiskInv'
    BY <1>1, <1>8, TypedFrame, DiskFrame DEF Typed, Proceed, history
  <2>2. todo' = SActivate /\ phase' = "booting"
    BY <1>2, <1>5, <1>8 DEF Proceed
  <2>3. CASE Blank /\ slots = <<>>
    <3>1. Blank'
      BY <1>8, <2>3, DiskFrame DEF history
    <3>2. Empty'
      BY <1>3, <1>8, <2>3, <3>1 DEF Empty
    <3>3. QED
      BY <1>3, <1>6, <2>1, <2>2, <3>2 DEF Imported
  <2>4. CASE Catalogued /\ slots = metadata /\ Homed(slots)
    <3>1. Loaded /\ Synced /\ OneActive(slots)
      BY <2>4 DEF Catalogued, Loaded, Contained, Synced, Distinct, NamedBy, Hashes, OneActive, OnlyActive
    <3>2. Loaded' /\ Synced' /\ OneActive(slots)'
      BY <1>8, <3>1, UpFrame DEF Synced, history
    <3>3. QED
      BY <1>3, <1>6, <2>1, <2>2, <3>2 DEF Imported
  <2>5. QED
    BY <1>1, <1>2, <1>8, <2>3, <2>4, ReadPlaces
<1>9. CASE /\ slots = <<>> /\ mirror # None
           /\ keyFile' = [keyFile EXCEPT ![0] = mirror]
           /\ slots' = <<NewSlot(mirror, 0, TRUE)>> /\ dirty' = TRUE
           /\ Proceed /\ UNCHANGED unmigrated
  <2>1. Uncatalogued /\ mirror \in Identities /\ mirror \in made /\ metadata = Absent /\ ~Unsettled
    BY <1>1, <1>2, <1>9, ReadPlaces
  <2>2. 0 \in KeyFiles
    BY Parameters
  <2>3. /\ slots' \in Seq(Slot) /\ Len(slots') <= MaxIdentities /\ DOMAIN slots' = {1}
        /\ slots'[1].hash = mirror /\ slots'[1].path = 0 /\ slots'[1].name = Unnamed
        /\ Hashes(slots') = {mirror} /\ Distinct(slots') /\ OnlyActive(slots', 1)
    BY <1>9, <2>1, <2>2, FirstSlot
  <2>4. keyFile' \in [KeyFiles -> made \cup {None}] /\ keyFile'[0] = mirror
    BY <1>1, <1>9, <2>1, <2>2 DEF Typed
  <2>5. Typed'
    <3>1. Listing(slots)'
      BY <2>1, <2>3 DEF Listing, history
    <3>2. /\ dirty' \in BOOLEAN /\ faulty' \in BOOLEAN
          /\ phase' \in {"off", "recovery", "booting", "halted", "running", "maintenance", "stopped"}
      BY <1>1, <1>9 DEF Proceed, Typed
    <3>3. QED
      BY <1>1, <1>9, <2>4, <3>1, <3>2, SlotsTyped
  <2>6. Uncatalogued' /\ ~Unsettled'
    BY <2>1 DEF Uncatalogued, Unsettled, history
  <2>7. DiskInv'
    BY <1>1, <1>2, <2>1, <2>6, Parameters DEF DiskInv, Held, Blank, history
  <2>8. Loaded'
    BY <2>1, <2>2, <2>3, <2>4, <2>6 DEF Loaded, Homed, Filed, NamedBy, Contained, Uncatalogued, Hashes, Distinct, history
  <2>9. Synced' /\ OneActive(slots)'
    BY <1>9, <2>3 DEF Synced, OneActive, OnlyActive
  <2>10. QED
    BY <1>2, <1>3, <1>5, <1>6, <1>9, <2>5, <2>7, <2>8, <2>9 DEF Imported, Proceed
<1>10. CASE /\ OldSlots # {}
            /\ keyFile' = [keyFile EXCEPT ![Least(OldSlots) - 1] = mirror]
            /\ slots' = [slots EXCEPT ![Least(OldSlots)].path = Least(OldSlots) - 1] /\ dirty' = TRUE
            /\ Proceed /\ UNCHANGED unmigrated
  <2> DEFINE i == Least(OldSlots)
             n == i - 1
  <2>1. Catalogued /\ slots = metadata /\ (unmigrated \/ Old(slots))
    BY <1>1, <1>2, <1>10, ReadPlaces
  <2>2. i \in DOMAIN slots /\ slots[i].hash = mirror /\ n \in KeyFiles /\ mirror \in made
    BY <1>1, <1>10, <2>1, OldSlotIs
  <2>3. keyFile' = [keyFile EXCEPT ![n] = mirror] /\ slots' = [slots EXCEPT ![i].path = n]
    BY <1>10
  <2> HIDE DEF i, n
  <2>4. Listing(slots) /\ slots \in Seq(Slot)
    BY <1>1 DEF Typed, Listing
  <2>5. /\ slots' \in Seq(Slot) /\ Len(slots') = Len(slots) /\ DOMAIN slots' = DOMAIN slots
        /\ \A j \in DOMAIN slots : /\ slots'[j].hash = slots[j].hash /\ slots'[j].name = slots[j].name
                                   /\ slots'[j].active = slots[j].active
                                   /\ slots'[j].path = IF j = i THEN n ELSE slots[j].path
        /\ Hashes(slots') = Hashes(slots)
    <3>1. slots' = Moving(slots, i, n)
      BY <2>3 DEF Moving
    <3>2. QED
      BY ONLY <2>2, <2>4, <3>1, Moved
  <2>6. keyFile' \in [KeyFiles -> made \cup {None}] /\ keyFile'[n] = mirror
    BY <1>1, <2>2, <2>3 DEF Typed
  <2>7. Typed'
    <3>1. Listing(slots)'
      BY <2>4, <2>5 DEF Listing, Hashes
    <3>2. /\ dirty' \in BOOLEAN /\ faulty' \in BOOLEAN
          /\ phase' \in {"off", "recovery", "booting", "halted", "running", "maintenance", "stopped"}
      BY <1>1, <1>10 DEF Proceed, Typed
    <3>3. QED
      BY <1>1, <1>10, <2>6, <3>1, <3>2, SlotsTyped
  <2>8. DiskInv'
    <3>1. Homed(metadata)' \/ Old(metadata)'
      BY <1>10, <2>1 DEF Homed, Old
    <3>2. Catalogued'
      BY <1>10, <2>1, <3>1 DEF Catalogued, OneActive, OnlyActive, Distinct, NamedBy, Unsettled, Hashes
    <3>3. QED
      BY <1>1, <1>2, <2>1, <3>2 DEF DiskInv, Held, Blank, Uncatalogued, Catalogued, Unsettled
  <2>9. Homed(slots)'
    <3>1. CASE Old(slots)
      <4>1. DOMAIN slots' = {1} /\ i = 1
        BY <2>2, <2>4, <2>5, <3>1 DEF Old
      <4>2. slots'[1].path = n /\ slots'[1].hash = mirror
        BY <2>2, <2>5, <4>1
      <4>3. QED
        BY <2>2, <2>6, <4>1, <4>2 DEF Homed, Filed
    <3>2. QED
      BY <1>10, <2>1, <3>1 DEF Homed
  <2>10. Distinct(slots)' /\ OneActive(slots)'
    BY <2>1, <2>5 DEF Distinct, OneActive, OnlyActive, Catalogued
  <2>11. NamedBy(slots)' /\ Contained'
    BY <2>1, <2>5 DEF NamedBy, Contained, Catalogued, Unsettled
  <2>12. Loaded'
    BY <2>1, <2>5, <2>9, <2>10, <2>11 DEF Loaded, Catalogued, Hashes
  <2>13. QED
    BY <1>2, <1>3, <1>5, <1>6, <1>10, <2>7, <2>8, <2>10, <2>12 DEF Imported, Synced, Proceed
<1>11. CASE /\ OldSlots # {} \/ (slots = <<>> /\ mirror # None)
            /\ unmigrated' = (unmigrated \/ OldSlots # {})
            /\ Tolerate /\ UNCHANGED <<keyFile, slots, dirty>>
  <2>1. todo' = SActivate /\ phase' = "booting" /\ faulty' = TRUE
    BY <1>2, <1>5, <1>11 DEF Tolerate
  <2>2. unmigrated' \in BOOLEAN /\ (unmigrated' = TRUE \/ unmigrated' = unmigrated)
    BY <1>1, <1>11 DEF Typed
  <2>3. Typed'
    BY <1>1, <1>11, <2>1, <2>2 DEF Typed, Listing, Hashes
  <2>4. DiskInv'
    BY <1>1, <1>11, <2>2, KeysAside
  <2>5. CASE OldSlots = {}
    <3>1. slots = <<>> /\ mirror # None /\ metadata = Absent
      BY <1>1, <1>2, <1>11, <2>5, ReadPlaces
    <3>2. Unread'
      BY <1>3, <1>11, <2>1, <3>1 DEF Unread
    <3>3. QED
      BY <1>3, <1>6, <1>11, <2>1, <2>3, <2>4, <3>2 DEF Imported
  <2>6. CASE OldSlots # {}
    <3>1. Catalogued /\ slots = metadata
      BY <1>1, <1>2, <2>6, ReadPlaces
    <3>2. unmigrated' = TRUE
      BY <1>11, <2>6
    <3>3. Loaded' /\ OneActive(slots)' /\ Synced'
      BY <1>11, <3>1, <3>2 DEF Catalogued, Loaded, Homed, Contained, Synced, Distinct, NamedBy, Hashes,
                               Unsettled, OneActive, OnlyActive
    <3>4. QED
      BY <1>3, <1>6, <1>11, <2>1, <2>3, <2>4, <3>3 DEF Imported
  <2>7. QED
    BY <2>5, <2>6
<1>12. ~(slots = <<>> /\ mirror # None /\ privkey \notin {None, mirror})
  BY <1>1, <1>2, ReadPlaces DEF Uncatalogued
<1>13. QED
  BY <1>8, <1>9, <1>10, <1>11, <1>12

\* Another slot becomes the active one.
LEMMA ActivateFacts ==
  ASSUME NEW s \in Seq(Slot), NEW i
  PROVE  LET t == Activate(s, i)
         IN /\ t \in Seq(Slot) /\ Len(t) = Len(s) /\ DOMAIN t = DOMAIN s
            /\ \A j \in DOMAIN s : /\ t[j].hash = s[j].hash /\ t[j].path = s[j].path
                                   /\ t[j].name = s[j].name /\ (t[j].active <=> j = i)
            /\ Hashes(t) = Hashes(s)
            /\ i \in DOMAIN s => OnlyActive(t, i)
<1> DEFINE t == Activate(s, i)
<1>1. \A j \in DOMAIN s : s[j] \in Slot
  OBVIOUS
<1>2. t = [j \in DOMAIN s |-> [s[j] EXCEPT !.active = (j = i)]]
  BY DEF Activate
<1>3. \A v \in Slot : \A b \in BOOLEAN :
        /\ [v EXCEPT !.active = b] \in Slot
        /\ [v EXCEPT !.active = b].hash = v.hash /\ [v EXCEPT !.active = b].path = v.path
        /\ [v EXCEPT !.active = b].name = v.name /\ [v EXCEPT !.active = b].active = b
  BY DEF Slot
<1>4. \A j \in DOMAIN s : (j = i) \in BOOLEAN
  OBVIOUS
<1>5. \A j \in DOMAIN s : t[j] = [s[j] EXCEPT !.active = (j = i)]
  BY <1>2
<1>6. \A j \in DOMAIN s : /\ t[j] \in Slot /\ t[j].hash = s[j].hash /\ t[j].path = s[j].path
                          /\ t[j].name = s[j].name /\ t[j].active = (j = i)
  <2> SUFFICES ASSUME NEW j \in DOMAIN s
               PROVE  /\ t[j] \in Slot /\ t[j].hash = s[j].hash /\ t[j].path = s[j].path
                      /\ t[j].name = s[j].name /\ t[j].active = (j = i)
    OBVIOUS
  <2>1. s[j] \in Slot
    BY <1>1
  <2> HIDE DEF t
  <2>2. CASE j = i
    <3>1. t[j] = [s[j] EXCEPT !.active = TRUE]
      BY <1>5, <2>2
    <3>2. QED
      BY <1>3, <2>1, <2>2, <3>1
  <2>3. CASE j # i
    <3>1. t[j] = [s[j] EXCEPT !.active = FALSE]
      BY <1>5, <2>3
    <3>2. QED
      BY <1>3, <2>1, <2>3, <3>1
  <2>4. QED
    BY <2>2, <2>3
<1>7. DOMAIN t = DOMAIN s
  BY <1>2
<1>8. t \in Seq(Slot) /\ Len(t) = Len(s)
  <2>1. t \in [1 .. Len(s) -> Slot] /\ Len(s) \in Nat /\ DOMAIN s = 1 .. Len(s)
    BY <1>2, <1>6, <1>7
  <2> HIDE DEF t
  <2>2. QED
    BY <2>1
<1> HIDE DEF t
<1>9. Hashes(t) = Hashes(s)
  BY <1>6, <1>7 DEF Hashes
<1>10. i \in DOMAIN s => OnlyActive(t, i)
  BY <1>6, <1>7 DEF OnlyActive
<1>11. QED
  BY <1>6, <1>7, <1>8, <1>9, <1>10 DEF t

\* The same slots, but for which of them is active.
LEMMA Reactivated ==
  ASSUME DOMAIN slots' = DOMAIN slots,
         \A j \in DOMAIN slots : /\ slots'[j].hash = slots[j].hash /\ slots'[j].path = slots[j].path
                                 /\ slots'[j].name = slots[j].name,
         Hashes(slots') = Hashes(slots),
         Loaded, UNCHANGED <<keyFile, metadata, config, known, nameOf, unmigrated>>,
         mirror' \in Hashes(slots), mirror' = mirror \/ ~Unsettled
  PROVE  Loaded'
<1>1. Distinct(slots)' /\ Homed(slots)' /\ Contained'
  BY DEF Loaded, Distinct, Homed, Filed, Contained
<1>2. NamedBy(slots)'
  BY DEF Loaded, NamedBy, Unsettled
<1>3. Hashes(slots)' = Hashes(slots)
  BY DEF Hashes
<1>4. QED
  BY <1>1, <1>2, <1>3 DEF Loaded

LEMMA ActivateKeeps == ASSUME IInv, ValidateActive PROVE IInv'
<1> USE DEF ValidateActive
<1>1. Typed /\ Loadable /\ DiskInv /\ Stage
  BY DEF IInv
<1>2. Booting /\ Imported /\ todo = SActivate /\ phase = "booting" /\ scope = "clear" /\ SettingsOK
  BY <1>1, BootPlaces DEF At, Booting
<1>3. Loadable' /\ SettingsOK'
  BY <1>1, <1>2, LoadFrame, SettingsFrame DEF disk
<1>4. todo' = SAdopt /\ phase' = "booting" /\ faulty' = faulty
  BY <1>2, Continuations DEF BootTails, Proceed
<1>5. DiskInv'
  BY <1>1, DiskFrame DEF disk, keys, history
<1>6. ASSUME Typed', Imported' PROVE IInv'
  BY <1>2, <1>3, <1>4, <1>5, <1>6 DEF IInv, Stage, Booting, disk
<1>7. CASE ~(Active # 0 /\ ~KeyMatches(Active))
  <2>1. slots' = slots /\ dirty' = dirty
    BY <1>1, <1>7 DEF Typed
  <2>2. Typed'
    BY <1>1, <2>1, TypedFrame DEF Typed, Proceed, disk, keys, history
  <2>3. Empty => Empty'
    BY <2>1, DiskFrame DEF Empty, disk, keys, history
  <2>4. Unread => Unread'
    BY <1>4, <2>1 DEF Unread, disk, keys
  <2>5. Loaded /\ Synced => (Loaded /\ Synced)'
    BY <2>1, UpFrame DEF Synced, disk, keys, history
  <2>6. /\ OneActive(slots) => OneActive(slots)'
        /\ unmigrated /\ NoneOn(slots) => (unmigrated /\ NoneOn(slots))'
    BY <2>1, UpFrame DEF disk, keys, history
  <2>7. Imported'
    BY <1>2, <1>4, <2>3, <2>4, <2>5, <2>6 DEF Imported
  <2>8. QED
    BY <1>6, <2>2, <2>7
<1>8. CASE Active # 0 /\ ~KeyMatches(Active)
  <2>1. Loaded /\ Synced /\ OneActive(slots) /\ ~nvsPending
    BY <1>2, <1>8, NoneActive DEF Imported, Empty, Unread
  <2>2. Listing(slots) /\ slots \in Seq(Slot)
    BY <1>1 DEF Typed, Listing
  <2>3. PICK a : OnlyActive(slots, a)
    BY <2>1 DEF OneActive
  <2>4. Active = a /\ a \in DOMAIN slots
    BY <2>2, <2>3, ActiveIs DEF OnlyActive
  <2>5. unmigrated
    BY <1>8, <2>1, <2>4, FiledMatches DEF Loaded, Homed
  <2>6. slots' = Activate(slots, 0) /\ dirty' = TRUE
    BY <1>1, <1>8 DEF Typed
  <2>7. /\ slots' \in Seq(Slot) /\ Len(slots') = Len(slots) /\ DOMAIN slots' = DOMAIN slots
        /\ \A j \in DOMAIN slots : /\ slots'[j].hash = slots[j].hash /\ slots'[j].path = slots[j].path
                                   /\ slots'[j].name = slots[j].name /\ (slots'[j].active <=> j = 0)
        /\ Hashes(slots') = Hashes(slots)
    BY <2>2, <2>6, ActivateFacts
  <2>8. NoneOn(slots)'
    BY <2>2, <2>7 DEF NoneOn
  <2>9. Typed'
    <3>1. Listing(slots)'
      BY <2>2, <2>7 DEF Listing, Hashes, history
    <3>2. QED
      BY <1>1, <1>4, <2>6, <3>1, SlotsTyped DEF Typed, disk, keys, history
  <2>10. mirror' \in Hashes(slots) /\ mirror' = mirror
    BY <2>1 DEF Loaded, disk, keys
  <2>11. Loaded'
    BY <2>1, <2>7, <2>10, Reactivated DEF disk, keys, history
  <2>12. Imported'
    BY <1>4, <2>1, <2>5, <2>6, <2>8, <2>11 DEF Imported, Synced, history
  <2>13. QED
    BY <1>6, <2>9, <2>12
<1>9. QED
  BY <1>7, <1>8

\* What PATH_IDENTITY makes of the catalogue.
LEMMA AdoptPlaces ==
  ASSUME Typed, DiskInv, scope = "clear", Imported
  PROVE  \/ Empty /\ mirror = None
         \/ Unread /\ mirror \in made /\ (Candidates = <<>> \/ (Staged # {} /\ Candidates = <<NewSlot(mirror, Least(Staged), FALSE)>>))
         \/ /\ Loaded /\ Synced /\ mirror \in made /\ Candidates = slots /\ slots # <<>>
            /\ OneActive(slots) \/ (unmigrated /\ NoneOn(slots))
<1>1. CASE Empty
  BY <1>1 DEF Empty, Blank
<1>2. CASE Unread
  <2>1. mirror \in made
    BY <1>2 DEF Unread, Typed
  <2>2. Hashes(slots) = {}
    BY <1>2 DEF Unread, Hashes
  <2>3. Append(slots, NewSlot(mirror, Least(Staged), FALSE)) = <<NewSlot(mirror, Least(Staged), FALSE)>>
    BY <1>2 DEF Unread
  <2>4. QED
    BY <1>2, <2>1, <2>2, <2>3 DEF Candidates
<1>3. CASE Loaded /\ Synced /\ (OneActive(slots) \/ (unmigrated /\ NoneOn(slots)))
  <2>1. mirror \in Hashes(slots) /\ slots # <<>>
    BY <1>3 DEF Loaded, Hashes
  <2>2. mirror \in made
    BY <2>1 DEF Typed, Listing
  <2>3. QED
    BY <1>3, <2>1, <2>2 DEF Candidates
<1>4. QED
  BY <1>1, <1>2, <1>3 DEF Imported

LEMMA StagedFacts ==
  ASSUME Staged # {}
  PROVE  Least(Staged) \in KeyFiles /\ keyFile[Least(Staged)] = mirror
<1>1. Staged \subseteq Nat
  BY Parameters DEF Staged
<1>2. Least(Staged) \in Staged
  BY <1>1, LeastOf
<1>3. QED
  BY <1>2 DEF Staged

LEMMA AdoptKeeps == ASSUME IInv, AdoptPathIdentity PROVE IInv'
<1> USE DEF AdoptPathIdentity
<1>1. Typed /\ Loadable /\ DiskInv /\ Stage
  BY DEF IInv
<1>2. Booting /\ Imported /\ todo = SAdopt /\ phase = "booting" /\ scope = "clear" /\ SettingsOK /\ ~nvsPending
  BY <1>1, BootPlaces DEF At, Booting, Imported
<1>3. Loadable' /\ SettingsOK'
  BY <1>1, <1>2, LoadFrame, SettingsFrame
<1>4. CASE UNCHANGED <<keyFile, slots>> /\ Fail
  <2>1. Typed' /\ DiskInv'
    BY <1>1, <1>4, TypedFrame, DiskFrame DEF Typed, Fail, GivenUp, history
  <2>2. Stage'
    BY <1>2, <1>4, HaltedPlaces DEF Fail, GivenUp
  <2>3. QED
    BY <1>3, <2>1, <2>2 DEF IInv
<1>5. CASE UNCHANGED <<keyFile, slots>> /\ mirror # None /\ Candidates = <<>> /\ Refuse
  <2>1. Typed' /\ DiskInv'
    BY <1>1, <1>5, TypedFrame, DiskFrame DEF Typed, Refuse, GivenUp, history
  <2>2. Unread
    <3>1. Empty \/ Unread
      BY <1>1, <1>2, <1>5, AdoptPlaces
    <3>2. QED
      BY <1>5, <3>1 DEF Empty, Blank
  <2>3. Stage'
    BY <1>2, <1>5, <2>2, HaltedPlaces DEF Refuse, GivenUp, Unread
  <2>4. QED
    BY <1>3, <2>1, <2>3 DEF IInv
<1>6. CASE UNCHANGED <<keyFile, slots>> /\ Proceed /\ (mirror = None \/ (Candidates # <<>> /\ ~Disagrees))
  <2>1. Typed' /\ DiskInv'
    BY <1>1, <1>6, TypedFrame, DiskFrame DEF Typed, Proceed, history
  <2>2. todo' = STryNvs /\ phase' = "booting"
    BY <1>2, <1>6, Continuations DEF BootTails, Proceed
  <2>3. CASE Empty
    <3>1. Empty'
      BY <1>6, <2>3, DiskFrame DEF Empty, history
    <3>2. QED
      BY <1>2, <1>3, <2>1, <2>2, <3>1 DEF IInv, Stage, Booting, Adopted
  <2>4. CASE /\ Loaded /\ Synced /\ mirror \in made /\ Candidates = slots
             /\ OneActive(slots) \/ (unmigrated /\ NoneOn(slots))
    <3>1. PICK i \in DOMAIN slots : slots[i].hash = mirror
      BY <2>4 DEF Loaded, Hashes
    <3>2. slots \in Seq(Slot) /\ Distinct(slots) /\ mirror # None
      BY <1>1, <2>4, Parameters DEF Typed, Listing, Loaded
    <3>3. IndexOf(slots, mirror) = i /\ i # 0
      BY <3>1, <3>2, IndexIs
    <3>4. Active = i /\ KeyMatches(i)
      BY <1>6, <2>4, <3>2, <3>3 DEF Disagrees
    <3>5. PICK a : OnlyActive(slots, a)
      BY <2>4, <3>3, <3>4, NoneActive DEF OneActive
    <3>6. a = i
      BY <3>2, <3>4, <3>5, ActiveIs
    <3>7. Up
      BY <2>4, <3>1, <3>4, <3>5, <3>6 DEF Up
    <3>8. Up' /\ Synced'
      BY <1>6, <2>4, <3>7, UpFrame DEF Synced, history
    <3>9. QED
      BY <1>2, <1>3, <2>1, <2>2, <3>8 DEF IInv, Stage, Booting, Adopted
  <2>5. ~Unread
    <3>1. SUFFICES ASSUME Unread PROVE FALSE
      OBVIOUS
    <3>2. PICK n : Candidates = <<NewSlot(mirror, n, FALSE)>> /\ ~Disagrees
      BY <1>1, <1>2, <1>6, <3>1, AdoptPlaces DEF Unread, Loaded, Hashes, Empty, Blank
    <3>3. IndexOf(Candidates, mirror) = 1
      <4>1. {i \in DOMAIN Candidates : Candidates[i].hash = mirror} = {1}
        BY <3>2 DEF NewSlot
      <4>2. Least({1}) \in {1}
        BY LeastOf
      <4>3. QED
        BY <4>1, <4>2 DEF IndexOf
    <3>4. QED
      BY <3>1, <3>2, <3>3, NoneActive DEF Disagrees, Unread
  <2>6. QED
    BY <1>2, <2>3, <2>4, <2>5, <1>1, AdoptPlaces
<1>7. CASE /\ mirror # None /\ Candidates # <<>> /\ Disagrees
           /\ keyFile' = [n \in KeyFiles |-> IF n = Candidates[IndexOf(Candidates, mirror)].path
                                             THEN mirror ELSE keyFile[n]]
           /\ slots' = Activate(Candidates, IndexOf(Candidates, mirror))
           /\ Insert(<<"meta">>)
  <2>1. todo' = SMeta /\ phase' = "booting" /\ faulty' = faulty
    BY <1>2, <1>7, Insertions DEF Insert
  <2>2. ASSUME keyFile' \in [KeyFiles -> made \cup {None}], unmigrated \/ keyFile' = keyFile,
               Listing(slots)', Up'
        PROVE  IInv'
    <3>1. Typed'
      BY <1>1, <2>1, <2>2, SlotsTyped DEF Typed, history
    <3>2. DiskInv'
      BY <1>1, <2>2, KeysAside DEF history
    <3>3. QED
      BY <1>2, <1>3, <2>1, <2>2, <3>1, <3>2 DEF IInv, Stage, Booting, Adopted
  <2>3. CASE Loaded /\ mirror \in made /\ Candidates = slots
    <3>1. PICK i \in DOMAIN slots : slots[i].hash = mirror
      BY <2>3 DEF Loaded, Hashes
    <3>2. slots \in Seq(Slot) /\ Distinct(slots) /\ Homed(slots) /\ Listing(slots)
      BY <1>1, <2>3 DEF Typed, Listing, Loaded
    <3>3. IndexOf(slots, mirror) = i
      BY <3>1, <3>2, IndexIs
    <3>4. keyFile' = [n \in KeyFiles |-> IF n = slots[i].path THEN mirror ELSE keyFile[n]]
      BY <1>7, <2>3, <3>3
    <3>5. keyFile' \in [KeyFiles -> made \cup {None}]
      BY <1>1, <2>3, <3>4 DEF Typed
    <3>6. unmigrated \/ keyFile' = keyFile
      BY <1>1, <3>1, <3>2, <3>4 DEF Typed, Homed, Filed
    <3>7. slots' = Activate(slots, i)
      BY <1>7, <2>3, <3>3
    <3>8. /\ slots' \in Seq(Slot) /\ Len(slots') = Len(slots) /\ DOMAIN slots' = DOMAIN slots
          /\ \A j \in DOMAIN slots : /\ slots'[j].hash = slots[j].hash /\ slots'[j].path = slots[j].path
                                     /\ slots'[j].name = slots[j].name
          /\ Hashes(slots') = Hashes(slots) /\ OnlyActive(slots', i)
      BY <3>1, <3>2, <3>7, ActivateFacts
    <3>9. Listing(slots)'
      BY <3>2, <3>8 DEF Listing, history
    <3>10. Loaded'
      <4>1. CASE keyFile' = keyFile
        BY <2>3, <3>8, <4>1, Reactivated DEF Loaded, history
      <4>2. CASE unmigrated
        <5>1. Distinct(slots)' /\ Contained' /\ NamedBy(slots)'
          BY <2>3, <3>8 DEF Loaded, Distinct, Contained, NamedBy, Unsettled, history
        <5>2. Homed(slots)'
          BY <4>2 DEF Homed, history
        <5>3. Hashes(slots)' = Hashes(slots)
          BY <3>8 DEF Hashes
        <5>4. QED
          BY <2>3, <5>1, <5>2, <5>3 DEF Loaded, history
      <4>3. QED
        BY <3>6, <4>1, <4>2
    <3>11. KeyMatches(i)'
      <4>1. slots'[i].hash = mirror /\ slots'[i].path = slots[i].path /\ mirror' = mirror
        BY <3>1, <3>8
      <4>2. slots[i].path \in KeyFiles \cup {PathIdentity}
        BY <1>1, <3>1, ListingFacts DEF Typed
      <4>3. QED
        BY <3>4, <4>1, <4>2 DEF KeyMatches, KeyAt
    <3>12. Up'
      BY <3>1, <3>8, <3>10, <3>11 DEF Up, OnlyActive
    <3>13. QED
      BY <2>2, <3>9, <3>12, <3>5, <3>6
  <2>4. CASE Unread /\ mirror \in made /\ Staged # {}
             /\ Candidates = <<NewSlot(mirror, Least(Staged), FALSE)>>
    <3> DEFINE n == Least(Staged)
    <3>1. n \in KeyFiles /\ keyFile[n] = mirror
      BY <2>4, StagedFacts
    <3> HIDE DEF n
    <3>2. Candidates = <<NewSlot(mirror, n, FALSE)>>
      BY <2>4 DEF n
    <3>3. mirror \in Identities /\ NewSlot(mirror, n, FALSE) \in Slot
      BY <1>1, <2>4, <3>1 DEF Typed, NewSlot, Slot
    <3>4. IndexOf(Candidates, mirror) = 1
      <4>1. {i \in DOMAIN Candidates : Candidates[i].hash = mirror} = {1}
        BY <3>2 DEF NewSlot
      <4>2. Least({1}) \in {1}
        BY LeastOf
      <4>3. QED
        BY <4>1, <4>2 DEF IndexOf
    <3>5. Candidates[1].path = n
      BY <3>2 DEF NewSlot
    <3>6. keyFile' = keyFile
      BY <1>1, <1>7, <3>1, <3>4, <3>5 DEF Typed
    <3>7. slots' = Activate(<<NewSlot(mirror, n, FALSE)>>, 1)
      BY <1>7, <3>2, <3>4
    <3> DEFINE v == NewSlot(mirror, n, FALSE)
                 c == <<v>>
    <3>9. /\ slots' \in Seq(Slot) /\ Len(slots') <= MaxIdentities /\ DOMAIN slots' = {1}
          /\ slots'[1].hash = mirror /\ slots'[1].path = n /\ slots'[1].name = Unnamed
          /\ Hashes(slots') = {mirror} /\ Distinct(slots') /\ OnlyActive(slots', 1)
      <4>1. v.hash = mirror /\ v.path = n /\ v.name = Unnamed /\ v \in Slot
        BY <3>3 DEF NewSlot
      <4> HIDE DEF v
      <4>2. c \in Seq(Slot) /\ DOMAIN c = {1} /\ Len(c) = 1 /\ c[1] = v
        BY <4>1
      <4>3. slots' = Activate(c, 1)
        BY <3>7 DEF v
      <4> HIDE DEF c
      <4>4. /\ slots' \in Seq(Slot) /\ Len(slots') = 1 /\ DOMAIN slots' = {1}
            /\ slots'[1].hash = mirror /\ slots'[1].path = n /\ slots'[1].name = Unnamed
            /\ OnlyActive(slots', 1)
        BY <4>1, <4>2, <4>3, ActivateFacts
      <4>5. Hashes(slots') = {mirror} /\ Distinct(slots')
        BY <4>4 DEF Hashes, Distinct
      <4>6. QED
        BY <4>4, <4>5, Parameters
    <3>10. Listing(slots)'
      BY <2>4, <3>9 DEF Listing, history
    <3>11. Uncatalogued /\ metadata = Absent
      BY <1>1, <1>2, <1>7, <2>4 DEF DiskInv, Held, Unread, Blank, Catalogued
    <3>12. Loaded'
      BY <3>1, <3>6, <3>9, <3>11 DEF Loaded, Homed, Filed, NamedBy, Contained, Uncatalogued, Hashes, Distinct, history
    <3>13. KeyMatches(1)'
      <4>1. n # PathIdentity
        BY <3>1, Parameters DEF PathIdentity
      <4>2. keyFile'[n] = mirror' /\ slots'[1].path = n /\ slots'[1].hash = mirror'
        BY <3>1, <3>6, <3>9
      <4>3. QED
        BY <4>1, <4>2 DEF KeyMatches, KeyAt
    <3>14. Up'
      BY <3>9, <3>12, <3>13 DEF Up, OnlyActive
    <3>15. QED
      BY <1>1, <2>2, <3>6, <3>10, <3>14 DEF Typed
  <2>5. QED
    BY <1>1, <1>2, <1>7, <2>3, <2>4, AdoptPlaces
<1>8. QED
  BY <1>4, <1>5, <1>6, <1>7

LEMMA FreeFacts ==
  ASSUME FreeFiles # {}
  PROVE  /\ Least(FreeFiles) \in KeyFiles /\ keyFile[Least(FreeFiles)] = None
         /\ Least(FreeFiles) \notin Paths(slots)
<1>1. FreeFiles \subseteq Nat
  BY Parameters DEF FreeFiles
<1>2. Least(FreeFiles) \in FreeFiles
  BY <1>1, LeastOf
<1>3. QED
  BY <1>2 DEF FreeFiles

LEMMA IdentityKeeps == ASSUME IInv, LoadOrCreateIdentity PROVE IInv'
<1> USE DEF LoadOrCreateIdentity
<1>1. Typed /\ Loadable /\ DiskInv /\ Stage
  BY DEF IInv
<1>2. /\ Booting /\ todo = SIdentity /\ phase = "booting" /\ scope = "clear" /\ SettingsOK
      /\ Empty \/ (Up /\ Stored)
  BY <1>1, BootPlaces DEF At, Booting
<1>3. Loadable' /\ SettingsOK'
  BY <1>1, <1>2, LoadFrame, SettingsFrame DEF memory
<1>4. CASE Active # 0 /\ Insert(<<"tryNvs">>) /\ UNCHANGED <<keyFile, subject, made, nameOf>>
  <2>1. Up /\ Stored
    BY <1>1, <1>2, <1>4, EmptyFacts
  <2>2. todo' = STryNvs2 /\ phase' = "booting" /\ faulty' = faulty
    BY <1>2, <1>4, Insertions DEF Insert
  <2>3. Typed' /\ DiskInv'
    BY <1>1, <1>4, <2>2, TypedFrame, DiskFrame DEF Typed, memory
  <2>4. Up' /\ Stored'
    BY <1>4, <2>1, UpFrame DEF Stored, memory
  <2>5. QED
    BY <1>2, <1>3, <2>2, <2>3, <2>4 DEF IInv, Stage, Booting, Creating
<1>5. CASE Active = 0 /\ (Refuse \/ Fail) /\ UNCHANGED <<keyFile, subject, made, nameOf>>
  <2>1. Empty
    BY <1>1, <1>2, <1>5, UpFacts
  <2>2. Stillborn'
    BY <1>1, <1>2, <2>1, EmptyFacts DEF Stillborn
  <2>3. todo' = <<>> /\ phase' = "halted" /\ faulty' \in BOOLEAN
    BY <1>1, <1>2, <1>5 DEF Refuse, Fail, GivenUp, Typed
  <2>4. Typed' /\ DiskInv'
    BY <1>1, <1>5, <2>3, TypedFrame, DiskFrame DEF Typed, memory
  <2>5. Stage'
    BY <2>2, <2>3, HaltedPlaces
  <2>6. QED
    BY <1>3, <2>4, <2>5 DEF IInv
<1>6. CASE /\ Active = 0 /\ FreeFiles # {} /\ Insert(<<"rawMirror", "meta", "nvs", "tryNvs">>)
           /\ \E h \in KeysToLoad :
                /\ keyFile' = [keyFile EXCEPT ![Least(FreeFiles)] = h]
                /\ subject' = [key |-> h, path |-> Least(FreeFiles)]
                /\ made' = made \cup {h}
                /\ nameOf' = [nameOf EXCEPT ![h] = Unnamed]
  <2>1. Empty
    BY <1>1, <1>2, <1>6, UpFacts
  <2>2. /\ slots = <<>> /\ metadata = Absent /\ mirror = None /\ privkey = None
        /\ known = {} /\ Fresh \subseteq chosen /\ ~dirty /\ ~nvsPending /\ ~Unsettled
    BY <1>1, <1>2, <2>1, EmptyFacts
  <2>3. PICK h \in Fresh :
          /\ keyFile' = [keyFile EXCEPT ![Least(FreeFiles)] = h]
          /\ subject' = [key |-> h, path |-> Least(FreeFiles)]
          /\ made' = made \cup {h}
          /\ nameOf' = [nameOf EXCEPT ![h] = Unnamed]
    BY <1>6, <2>2 DEF KeysToLoad
  <2> DEFINE n == Least(FreeFiles)
  <2>4. n \in KeyFiles
    BY <1>6, FreeFacts
  <2> HIDE DEF n
  <2>5. keyFile' = [keyFile EXCEPT ![n] = h] /\ subject' = [key |-> h, path |-> n]
    BY <2>3 DEF n
  <2>6. h \in Identities /\ h \in chosen /\ h \in made'
    BY <2>2, <2>3 DEF Fresh
  <2>7. /\ todo' = SRaw /\ phase' = "booting" /\ faulty' = faulty
        /\ UNCHANGED <<mirror, metadata, privkey, config, card, scope, slots, dirty, nvsPending, settings,
                       known, chosen, unmigrated>>
    BY <1>2, <1>6, Insertions DEF Insert, memory
  <2>8. /\ keyFile' \in [KeyFiles -> made' \cup {None}] /\ keyFile'[n] = h
        /\ subject' \in [key : Keys, path : KeyFiles]
        /\ nameOf' \in [Identities -> Titles] /\ nameOf'[h] = Unnamed
        /\ made' \subseteq Identities
    BY <1>1, <2>3, <2>4, <2>5, <2>6 DEF Typed, Keys, Titles
  <2>9. Listing(slots)'
    BY <1>1, <2>3, <2>7 DEF Typed, Listing, Hashes
  <2>10. Typed'
    BY <1>1, <2>2, <2>3, <2>7, <2>8, <2>9 DEF Typed
  <2>11. Blank'
    BY <2>2, <2>3, <2>7 DEF Blank, Fresh
  <2>12. DiskInv'
    BY <2>2, <2>7, <2>11 DEF DiskInv, Held, Unsettled
  <2>13. Empty'
    BY <2>2, <2>7, <2>11 DEF Empty
  <2>14. Creating'
    BY <2>5, <2>6, <2>7, <2>8, <2>13 DEF Creating
  <2>15. QED
    BY <1>2, <1>3, <2>7, <2>10, <2>12, <2>14 DEF IInv, Stage, Booting
<1>7. QED
  BY <1>4, <1>5, <1>6

LEMMA RawMirrorKeeps == ASSUME IInv, WriteRawMirror PROVE IInv'
<1> USE DEF WriteRawMirror
<1>1. Typed /\ Loadable /\ DiskInv /\ Stage
  BY DEF IInv
<1>2. /\ Booting /\ Creating /\ todo = SRaw /\ phase = "booting" /\ scope = "clear" /\ SettingsOK
  BY <1>1, BootPlaces DEF At, Booting
<1>3. /\ Empty /\ subject.key \in made \cap chosen /\ nameOf[subject.key] = Unnamed
      /\ keyFile[subject.path] = subject.key
  BY <1>2, Beginnings DEF Creating, BootBegins, Begins
<1>4. /\ slots = <<>> /\ metadata = Absent /\ mirror = None /\ privkey = None
      /\ known = {} /\ ~dirty /\ ~nvsPending /\ ~Unsettled
  BY <1>1, <1>2, <1>3, EmptyFacts
<1>5. Loadable' /\ SettingsOK'
  BY <1>1, <1>2, LoadFrame, SettingsFrame
<1>6. CASE Fail /\ UNCHANGED <<mirror, slots>>
  <2>1. Typed' /\ DiskInv'
    BY <1>1, <1>6, TypedFrame, DiskFrame DEF Typed, Fail, GivenUp, history
  <2>2. Stage'
    BY <1>2, <1>6, HaltedPlaces DEF Fail, GivenUp
  <2>3. QED
    BY <1>5, <2>1, <2>2 DEF IInv
<1>7. CASE /\ mirror' = subject.key
           /\ slots' = Append(Activate(slots, 0), NewSlot(subject.key, subject.path, TRUE))
           /\ Proceed
  <2> DEFINE h == subject.key
             n == subject.path
  <2>1. h \in made /\ h \in Identities /\ h \in chosen /\ n \in KeyFiles /\ keyFile[n] = h /\ h # None
    BY <1>1, <1>3, Parameters DEF Typed
  <2>2. slots' = <<NewSlot(h, n, TRUE)>>
    <3>1. Activate(slots, 0) = <<>>
      <4>1. Activate(slots, 0) \in Seq(Slot) /\ Len(Activate(slots, 0)) = Len(slots)
        BY <1>1, ActivateFacts DEF Typed, Listing
      <4>2. Len(slots) = 0
        BY <1>4
      <4>3. QED
        BY <4>1, <4>2
    <3>2. slots' = Append(<<>>, NewSlot(h, n, TRUE))
      BY <1>7, <3>1
    <3>3. \A v : Append(<<>>, v) = <<v>>
      OBVIOUS
    <3>4. QED
      BY <3>2, <3>3
  <2> HIDE DEF h, n
  <2>3. /\ slots' \in Seq(Slot) /\ Len(slots') <= MaxIdentities /\ DOMAIN slots' = {1}
        /\ slots'[1].hash = h /\ slots'[1].path = n /\ slots'[1].name = Unnamed
        /\ Hashes(slots') = {h} /\ Distinct(slots') /\ OnlyActive(slots', 1)
    BY <2>1, <2>2, FirstSlot
  <2>4. /\ todo' = SMeta2 /\ phase' = "booting" /\ faulty' = faulty /\ mirror' = h
        /\ UNCHANGED <<keyFile, metadata, privkey, config, card, scope, dirty, nvsPending, settings,
                       subject, load, made, known, nameOf, chosen, unmigrated>>
    BY <1>2, <1>7, Continuations DEF BootTails, Proceed, h, history
  <2>5. Listing(slots)'
    BY <2>1, <2>3, <2>4 DEF Listing
  <2>6. Typed'
    BY <1>1, <1>4, <2>1, <2>4, <2>5 DEF Typed
  <2>7. Uncatalogued'
    BY <1>3, <1>4, <2>4 DEF Uncatalogued, h
  <2>8. DiskInv'
    BY <1>4, <2>1, <2>4, <2>7 DEF DiskInv, Held, Unsettled
  <2>9. ~Unsettled'
    BY <1>4, <2>4 DEF Unsettled
  <2>10. nameOf[h] = Unnamed
    BY <1>3 DEF h
  <2>11. Loaded'
    BY <1>4, <2>1, <2>3, <2>4, <2>10 DEF Loaded, Homed, Filed, NamedBy, Contained, Hashes, Distinct
  <2>12. Up'
    <3>1. KeyMatches(1)'
      BY <2>1, <2>3, <2>4, Parameters DEF KeyMatches, KeyAt, PathIdentity
    <3>2. QED
      BY <2>3, <2>4, <2>11, <3>1 DEF Up, OnlyActive
  <2>13. QED
    BY <1>2, <1>5, <2>4, <2>6, <2>8, <2>9, <2>12 DEF IInv, Stage, Booting, Creating
<1>8. QED
  BY <1>6, <1>7

\* Where a boot ends: the device runs with the identity PATH_IDENTITY names.
LEMMA RunPlaces ==
  ASSUME Typed, DiskInv, Stage, Run
  PROVE  /\ Booting /\ phase = "booting" /\ scope = "clear" /\ todo = SRun
         /\ Served /\ Stored /\ NvsOK /\ ~settings.pending
         /\ Running = mirror /\ mirror \in chosen /\ mirror \in Identities
<1>1. Booting /\ Reconciling /\ todo = SRun /\ phase = "booting" /\ scope = "clear"
  BY BootPlaces DEF Run, At, Booting
<1>2. Served /\ Stored /\ NvsOK /\ ~settings.pending /\ Up
  BY <1>1, Beginnings DEF Reconciling, BootBegins, OtherBegins, Begins
<1>3. QED
  BY <1>1, <1>2, UpFacts, UpHeld

LEMMA RunKeeps == ASSUME IInv, Run PROVE IInv'
<1>1. Typed /\ Loadable /\ DiskInv /\ Stage
  BY DEF IInv
<1>2. /\ scope = "clear" /\ Served /\ Stored /\ NvsOK
      /\ Running = mirror /\ mirror \in chosen /\ mirror \in Identities
  BY <1>1, RunPlaces
<1>3. /\ phase' = "running" /\ todo' = <<>> /\ chosen' = {mirror}
      /\ UNCHANGED <<keyFile, mirror, metadata, privkey, config, card, scope, slots, dirty, nvsPending,
                     settings, faulty, subject, load, lost, made, known, nameOf, unmigrated>>
  BY <1>2 DEF Run, disk, keys, memory
<1>4. Typed'
  BY <1>1, <1>2, <1>3 DEF Typed, Listing, Hashes
<1>5. Loadable'
  BY <1>1, <1>3, LoadFrame
<1>6. DiskInv'
  <2>1. Uncatalogued \/ Catalogued
    BY <1>1, <1>2, UpHeld DEF Served
  <2>2. Uncatalogued => Uncatalogued'
    BY <1>3 DEF Uncatalogued
  <2>3. Catalogued => Catalogued'
    BY <1>3 DEF Catalogued, OneActive, OnlyActive, Distinct, Homed, Filed, Old, NamedBy, Unsettled, Hashes
  <2>4. QED
    BY <1>1, <1>2, <1>3, <2>1, <2>2, <2>3 DEF DiskInv, Held, Unsettled
<1>7. Served' /\ Synced'
  <2>1. NvsOK' /\ Synced'
    BY <1>2, <1>3 DEF NvsOK, Stored, Synced
  <2>2. QED
    BY <1>2, <1>3, <2>1, ServedFrame
<1>8. QED
  BY <1>2, <1>3, <1>4, <1>5, <1>6, <1>7 DEF IInv, Stage, Serving

-----------------------------------------------------------------------------
(* The two writes that end every change.                                   *)

LEMMA SaveKeeps == ASSUME IInv, SaveSlotMeta PROVE IInv'
<1> USE DEF SaveSlotMeta
<1>1. Typed /\ Loadable /\ DiskInv /\ Stage
  BY DEF IInv
<1>2. \/ Booting /\ Up /\ ~nvsPending /\ todo = SMeta
      \/ Booting /\ Up /\ ~Unsettled /\ todo = SMeta2
      \/ Serving /\ todo = SSave
      \/ Maintained /\ Up /\ SettingsOK /\ todo = SMetaM
      \/ Booting /\ (Empty \/ (Up /\ Synced /\ NvsOK)) /\ (nvsPending => faulty) /\ todo = SFlushMeta
      \/ Serving /\ Synced /\ todo = FlushM(<<>>)
      \/ /\ Maintained /\ Served /\ Synced
         /\ \E t \in {SStop, SSwitch, SScope} :
              todo = FlushM(t) /\ (t = SSwitch => subject.key \in Hashes(slots))
  BY <1>1, SavingPlaces DEF At
<1>3. scope = "clear" /\ phase \in {"booting", "running", "maintenance"} /\ SettingsOK
      /\ (Serving => Served) /\ (Serving => Up)
  BY <1>2 DEF Booting, Serving, Maintained, Served
<1>4. Loadable'
  BY <1>1, LoadFrame
<1>5. /\ Booting => phase = "booting" /\ scope = "clear" /\ SettingsOK
      /\ Serving => phase = "running" /\ scope = "clear" /\ Served /\ Up
      /\ Maintained => phase = "maintenance" /\ scope = "clear" /\ ~settings.pending
  BY DEF Booting, Serving, Maintained, Served
\* The catalogue is not written because nothing is waiting, or could not be.
<1>6. ASSUME UNCHANGED <<metadata, known>>, dirty' \in BOOLEAN, dirty' = dirty \/ dirty',
             phase' \in {"booting", "running", "maintenance", "halted", "stopped"}, faulty' \in BOOLEAN
      PROVE  /\ Typed' /\ DiskInv' /\ SettingsOK'
             /\ Up => Up'
             /\ ~dirty' /\ Empty => Empty'
             /\ Synced => Synced'
             /\ NvsOK => NvsOK'
             /\ Served => Served'
  <2>1. Typed' /\ DiskInv' /\ SettingsOK'
    BY <1>1, <1>3, <1>6, TypedFrame, DiskFrame, SettingsFrame DEF Typed
  <2>2. (Up => Up') /\ (Blank => Blank')
    BY <1>6, UpFrame, DiskFrame
  <2>3. (NvsOK => NvsOK') /\ (Synced => Synced') /\ (~dirty' /\ Empty => Empty')
    BY <1>6, <2>2 DEF NvsOK, Synced, Empty
  <2>4. Served => Served'
    BY <1>6, <2>3, ServedFrame DEF Served
  <2>5. QED
    BY <2>1, <2>2, <2>3, <2>4
\* The catalogue is written.
<1>7. ASSUME Up, metadata' = slots, dirty' = FALSE, known' = known \cup WithKeys, Proceed
      PROVE  /\ Typed' /\ DiskInv' /\ SettingsOK' /\ Up' /\ Stored' /\ Synced'
             /\ NvsOK => NvsOK'
             /\ Served => Served'
             /\ ~Unsettled => ~Unsettled'
  <2>1. DiskInv' /\ Up' /\ Stored' /\ metadata' # Absent /\ known' \subseteq made' /\ Listing(metadata)'
        /\ Unsettled' = Unsettled
    BY <1>1, <1>3, <1>7, Saves
  <2>2. Typed'
    <3>1. Listing(slots)'
      BY <1>1 DEF Typed, Listing, Hashes
    <3>2. dirty' \in BOOLEAN /\ UNCHANGED <<phase, faulty>>
      BY <1>7 DEF Proceed
    <3> HIDE DEF SaveSlotMeta
    <3>3. UNCHANGED <<keyFile, mirror, privkey, config, card, scope, slots, nvsPending, settings,
                      subject, load, lost, made, nameOf, chosen, unmigrated>>
      BY DEF SaveSlotMeta
    <3>4. QED
      BY <1>1, <2>1, <3>1, <3>2, <3>3 DEF Typed
  <2>3. SettingsOK' /\ Synced'
    BY <1>3, <2>1, SettingsFrame DEF Stored, Synced
  <2>4. NvsOK => NvsOK'
    BY DEF NvsOK
  <2>5. Served => Served'
    BY <2>1, <2>3, <2>4 DEF Served, Shown, Effective, Bound
  <2>6. QED
    BY <2>1, <2>2, <2>3, <2>4, <2>5
<1>8. CASE Head(todo) = "flushMeta" /\ ~dirty /\ Proceed /\ UNCHANGED <<metadata, dirty, known>>
  <2>1. /\ Typed' /\ DiskInv' /\ SettingsOK' /\ (Up => Up') /\ (~dirty' /\ Empty => Empty')
        /\ (Synced => Synced') /\ (NvsOK => NvsOK') /\ (Served => Served')
    BY <1>1, <1>3, <1>6, <1>8 DEF Proceed, Typed
  <2>2. CASE Booting /\ (Empty \/ (Up /\ Synced /\ NvsOK)) /\ (nvsPending => faulty) /\ todo = SFlushMeta
    <3>1. todo' = SFlushNvs /\ phase' = "booting" /\ faulty' = faulty
      BY <1>5, <1>8, <2>2, Continuations DEF BootTails, Proceed
    <3>2. QED
      BY <1>4, <1>5, <1>8, <2>1, <2>2, <3>1 DEF IInv, Stage, Booting, Adopted
  <2>3. CASE Serving /\ Synced /\ todo = FlushM(<<>>)
    <3>1. todo' = FlushN(<<>>) /\ phase' = "running"
      BY <1>5, <1>8, <2>3, Continuations DEF OtherTails, Proceed
    <3>2. QED
      BY <1>4, <1>5, <2>1, <2>3, <3>1 DEF IInv, Stage, Serving
  <2>4. CASE /\ Maintained /\ Served /\ Synced
             /\ \E t \in {SStop, SSwitch, SScope} :
                  todo = FlushM(t) /\ (t = SSwitch => subject.key \in Hashes(slots))
    <3>1. PICK t \in {SStop, SSwitch, SScope} :
            todo = FlushM(t) /\ (t = SSwitch => subject.key \in Hashes(slots))
      BY <2>4
    <3>2. todo' = FlushN(t) /\ phase' = "maintenance"
      BY <1>5, <1>8, <2>4, <3>1, Continuations DEF OtherTails, Proceed
    <3>3. (t = SSwitch => subject.key \in Hashes(slots))'
      BY <3>1 DEF Hashes
    <3>4. Flushing'
      BY <2>1, <2>4, <3>1, <3>2, <3>3 DEF Flushing
    <3>5. QED
      BY <1>4, <1>5, <2>1, <2>4, <3>2, <3>4 DEF IInv, Stage, Maintained
  <2>5. QED
    BY <1>2, <1>8, <2>2, <2>3, <2>4, Beginnings DEF BootBegins, ServiceBegins, Begins
<1>9. CASE (Head(todo) = "meta" \/ dirty) /\ metadata' = slots /\ dirty' = FALSE
           /\ known' = known \cup WithKeys /\ Proceed
  <2>1. Up
    BY <1>2, <1>3, <1>9, Beginnings DEF BootBegins, OtherBegins, Begins, Empty, Served
  <2>2. /\ Typed' /\ DiskInv' /\ SettingsOK' /\ Up' /\ Stored' /\ Synced'
        /\ (NvsOK => NvsOK') /\ (Served => Served') /\ (~Unsettled => ~Unsettled')
    BY <1>7, <1>9, <2>1
  <2>3. CASE Booting
    <3>1. phase' = "booting" /\ faulty' = faulty /\ Tail(SMeta) = STryNvs /\ Tail(SMeta2) = SNvs
          /\ Tail(SFlushMeta) = SFlushNvs /\ ~dirty'
      BY <1>5, <1>9, <2>3, Continuations DEF BootTails, Proceed
    <3>2. CASE todo = SMeta /\ ~nvsPending
      BY <1>4, <1>5, <1>9, <2>2, <2>3, <3>1, <3>2 DEF IInv, Stage, Booting, Adopted, Proceed
    <3>3. CASE todo = SMeta2
      BY <1>4, <1>5, <1>9, <2>2, <2>3, <3>1, <3>3 DEF IInv, Stage, Booting, Creating, Proceed
    <3>4. CASE todo = SFlushMeta /\ NvsOK /\ (nvsPending => faulty)
      BY <1>4, <1>5, <1>9, <2>2, <2>3, <3>1, <3>4 DEF IInv, Stage, Booting, Adopted, Proceed
    <3>5. todo = SFlushMeta => NvsOK
      BY <1>2, <2>3, <2>1, <1>5, EmptyFacts, UpFacts, <1>1, Beginnings DEF BootBegins, Begins, Empty, Blank, NvsOK
    <3>6. QED
      BY <1>2, <1>5, <2>3, <3>2, <3>3, <3>4, <3>5
  <2>4. CASE Serving
    <3>1. phase' = "running" /\ Tail(SSave) = STry /\ Tail(FlushM(<<>>)) = FlushN(<<>>)
      BY <1>5, <1>9, <2>4, Continuations DEF ServiceTails, OtherTails, Proceed
    <3>2. QED
      BY <1>2, <1>4, <1>5, <1>9, <2>2, <2>4, <3>1 DEF IInv, Stage, Serving, Proceed
  <2>5. CASE Maintained /\ todo = SMetaM
    <3>1. phase' = "maintenance" /\ todo' = SNvsM
      BY <1>5, <1>9, <2>5, Continuations DEF ServiceTails, Proceed
    <3>2. QED
      BY <1>4, <1>5, <2>2, <2>5, <3>1 DEF IInv, Stage, Maintained, Switching
  <2>6. CASE /\ Maintained /\ Served
             /\ \E t \in {SStop, SSwitch, SScope} :
                  todo = FlushM(t) /\ (t = SSwitch => subject.key \in Hashes(slots))
    <3>1. PICK t \in {SStop, SSwitch, SScope} :
            todo = FlushM(t) /\ (t = SSwitch => subject.key \in Hashes(slots))
      BY <2>6
    <3>2. todo' = FlushN(t) /\ phase' = "maintenance"
      BY <1>5, <1>9, <2>6, <3>1, Continuations DEF OtherTails, Proceed
    <3>3. (t = SSwitch => subject.key \in Hashes(slots))'
      BY <3>1 DEF Hashes
    <3>4. Flushing'
      BY <2>2, <2>6, <3>1, <3>2, <3>3 DEF Flushing
    <3>5. QED
      BY <1>4, <1>5, <2>2, <2>6, <3>2, <3>4 DEF IInv, Stage, Maintained
  <2>7. QED
    BY <1>2, <2>3, <2>4, <2>5, <2>6
<1>10. CASE /\ Head(todo) = "meta" \/ dirty
            /\ dirty' = TRUE
            /\ IF Head(todo) = "meta" THEN Fail ELSE Tolerate
            /\ UNCHANGED <<metadata, known>>
  <2>1. /\ Typed' /\ DiskInv' /\ SettingsOK' /\ (Up => Up')
        /\ (Synced => Synced') /\ (NvsOK => NvsOK') /\ (Served => Served')
    BY <1>1, <1>3, <1>6, <1>10 DEF Fail, Tolerate, GivenUp, Typed
  <2>2. Synced'
    BY <1>10 DEF Synced
  <2>3. faulty'
    BY <1>10 DEF Fail, Tolerate
  <2>4. CASE Booting /\ Fail
    <3>1. Stage'
      BY <1>5, <2>3, <2>4, HaltedPlaces DEF Fail, GivenUp
    <3>2. QED
      BY <1>4, <2>1, <3>1 DEF IInv
  <2>5. CASE Maintained /\ Fail
    <3>1. Stage'
      BY <1>5, <2>5, StoppedPlaces DEF Fail, GivenUp
    <3>2. QED
      BY <1>4, <2>1, <3>1 DEF IInv
  <2>6. CASE Serving /\ Fail
    <3>1. todo' = <<>> /\ phase' = "running"
      BY <1>5, <2>6 DEF Fail, GivenUp
    <3>2. QED
      BY <1>4, <1>5, <2>1, <2>2, <2>6, <3>1 DEF IInv, Stage, Serving
  <2>7. CASE Booting /\ todo = SFlushMeta /\ dirty /\ Up /\ NvsOK /\ Tolerate
    <3>1. todo' = SFlushNvs /\ phase' = "booting"
      BY <1>5, <2>7, Continuations DEF BootTails, Tolerate
    <3>2. QED
      BY <1>4, <1>5, <2>1, <2>2, <2>3, <2>7, <3>1 DEF IInv, Stage, Booting, Adopted
  <2>8. CASE Serving /\ todo = FlushM(<<>>) /\ Tolerate
    <3>1. todo' = FlushN(<<>>) /\ phase' = "running"
      BY <1>5, <2>8, Continuations DEF OtherTails, Tolerate
    <3>2. QED
      BY <1>4, <1>5, <2>1, <2>2, <2>8, <3>1 DEF IInv, Stage, Serving
  <2>9. CASE /\ Maintained /\ Served /\ Tolerate
             /\ \E t \in {SStop, SSwitch, SScope} :
                  todo = FlushM(t) /\ (t = SSwitch => subject.key \in Hashes(slots))
    <3>1. PICK t \in {SStop, SSwitch, SScope} :
            todo = FlushM(t) /\ (t = SSwitch => subject.key \in Hashes(slots))
      BY <2>9
    <3>2. todo' = FlushN(t) /\ phase' = "maintenance"
      BY <1>5, <2>9, <3>1, Continuations DEF OtherTails, Tolerate
    <3>3. (t = SSwitch => subject.key \in Hashes(slots))'
      BY <3>1 DEF Hashes
    <3>4. Flushing'
      BY <2>1, <2>2, <2>9, <3>1, <3>2, <3>3 DEF Flushing
    <3>5. QED
      BY <1>4, <1>5, <2>1, <2>9, <3>2, <3>4 DEF IInv, Stage, Maintained
  <2>10. /\ Head(SMeta) = "meta" /\ Head(SMeta2) = "meta" /\ Head(SSave) = "meta" /\ Head(SMetaM) = "meta"
         /\ Head(SFlushMeta) # "meta" /\ Head(FlushM(<<>>)) # "meta"
         /\ \A t \in {SStop, SSwitch, SScope} : Head(FlushM(t)) # "meta"
    BY Beginnings DEF BootBegins, ServiceBegins, OtherBegins, Begins
  <2>11. CASE Head(todo) = "meta"
    BY <1>2, <1>10, <2>4, <2>5, <2>6, <2>10, <2>11
  <2>12. CASE Head(todo) # "meta"
    <3>1. dirty /\ Tolerate
      BY <1>10, <2>12
    <3>2. ~Empty
      BY <3>1 DEF Empty
    <3>3. QED
      BY <1>2, <2>7, <2>8, <2>9, <2>10, <2>12, <3>1, <3>2
  <2>13. QED
    BY <2>11, <2>12
<1>11. QED
  BY <1>8, <1>9, <1>10

\* An operation of the maintenance, as far as flushPending.
LEMMA FlushPlaces ==
  ASSUME NEW t \in {SStop, SSwitch, SScope}, phase' = "maintenance", scope' = "clear",
         ~settings'.pending, Served', Stored',
         todo' = t, t = SSwitch => (subject.key \in Hashes(slots))'
  PROVE  Stage'
<1>1. CASE t = SSwitch
  BY <1>1 DEF Stage, Maintained, Switching
<1>2. CASE t \in {SStop, SScope}
  BY <1>2 DEF Stage, Maintained, Resetting
<1>3. QED
  BY <1>1, <1>2

LEMMA MirrorKeeps == ASSUME IInv, MirrorToNvs PROVE IInv'
<1> USE DEF MirrorToNvs
<1>1. Typed /\ Loadable /\ DiskInv /\ Stage
  BY DEF IInv
<1>2. \/ Booting /\ ~nvsPending /\ (Empty \/ (Up /\ Synced)) /\ todo = STryNvs
      \/ Booting /\ Up /\ Stored /\ todo \in {SNvs, STryNvs2}
      \/ Serving /\ Synced /\ todo = STry
      \/ Maintained /\ Up /\ SettingsOK /\ Stored /\ todo = SNvsM
      \/ /\ Booting /\ (Empty \/ (Up /\ Synced /\ NvsOK)) /\ (nvsPending \/ dirty => faulty)
         /\ todo = SFlushNvs
      \/ Serving /\ Synced /\ todo = FlushN(<<>>)
      \/ /\ Maintained /\ Served /\ Synced
         /\ \E t \in {SStop, SSwitch, SScope} :
              todo = FlushN(t) /\ (t = SSwitch => subject.key \in Hashes(slots))
  BY <1>1, NvsPlaces DEF At
<1>3. /\ Booting => phase = "booting" /\ scope = "clear" /\ SettingsOK
      /\ Serving => phase = "running" /\ scope = "clear" /\ Served /\ Up /\ SettingsOK
      /\ Maintained => phase = "maintenance" /\ scope = "clear" /\ ~settings.pending
      /\ Served => Up /\ SettingsOK /\ NvsOK
  BY DEF Booting, Serving, Maintained, Served
<1>4. scope = "clear" /\ SettingsOK /\ Loadable' /\ SettingsOK'
  BY <1>1, <1>2, <1>3, LoadFrame, SettingsFrame
<1>5. /\ Head(STryNvs) = "tryNvs" /\ Head(SNvs) = "nvs" /\ Head(STryNvs2) = "tryNvs"
      /\ Head(STry) = "tryNvs" /\ Head(SNvsM) = "nvs" /\ Head(SFlushNvs) = "flushNvs"
      /\ Head(FlushN(<<>>)) = "flushNvs"
      /\ \A t \in {SStop, SSwitch, SScope} : Head(FlushN(t)) = "flushNvs"
  BY Beginnings DEF BootBegins, ServiceBegins, OtherBegins, Begins
<1>6. /\ Tail(STryNvs) = SFlushMeta /\ Tail(SNvs) = STryNvs2 /\ Tail(STryNvs2) = SReconcile
      /\ Tail(STry) = <<>> /\ Tail(SNvsM) = SRecoverM /\ Tail(SFlushNvs) = SRecover
      /\ Tail(FlushN(<<>>)) = <<>>
      /\ \A t \in {SStop, SSwitch, SScope} : Tail(FlushN(t)) = t
  BY Continuations DEF BootTails, ServiceTails, OtherTails
<1>7. Empty \/ Up
  BY <1>2, <1>3
<1>8. Empty => Active = 0 /\ ~dirty /\ ~nvsPending /\ ~Up
  BY <1>1, <1>4, EmptyFacts, UpFacts
<1>9. Up => Active # 0 /\ KeyMatches(Active) /\ Running = mirror /\ mirror # None
  BY <1>1, UpFacts
\* What any of the outcomes leaves as it was.
<1>10. ASSUME privkey' = privkey \/ (Up /\ privkey' = mirror), nvsPending' \in BOOLEAN,
              faulty' \in BOOLEAN,
              phase' \in {"booting", "running", "maintenance", "halted", "stopped"}
       PROVE  /\ Typed' /\ DiskInv' /\ (Up => Up') /\ Stored' = Stored /\ Synced' = Synced
              /\ Renamed' = Renamed
  <2>1. privkey' \in made \cup {None}
    BY <1>1, <1>9, <1>10 DEF Typed
  <2>2. Listing(slots)' /\ (metadata # Absent => Listing(metadata))'
    BY <1>1 DEF Typed, Listing, Hashes, history
  <2>3. Typed'
    <3> HIDE DEF MirrorToNvs
    <3>1. UNCHANGED <<keyFile, mirror, metadata, config, card, scope, slots, dirty, settings,
                      subject, made, known, nameOf, chosen, unmigrated>>
      BY DEF MirrorToNvs, history
    <3>2. QED
      BY <1>1, <1>10, <2>1, <2>2, <3>1 DEF Typed
  <2>4. DiskInv'
    <3>1. CASE privkey' = privkey
      BY <1>1, <3>1, DiskFrame DEF history
    <3>2. CASE Up /\ privkey' = mirror
      BY <1>1, <1>4, <3>2, NvsWrites, UpHeld DEF history
    <3>3. QED
      BY <1>10, <3>1, <3>2
  <2>5. Up => Up'
    BY UpFrame DEF history
  <2>6. QED
    BY <2>3, <2>4, <2>5 DEF Stored, Synced, Renamed, history
<1>11. ASSUME privkey' = privkey, nvsPending' = nvsPending
       PROVE  (Empty => Empty') /\ NvsOK' = NvsOK /\ (Served => Served')
  <2>1. Blank => Blank'
    BY <1>11, DiskFrame DEF history
  <2>2. NvsOK' = NvsOK
    BY <1>11 DEF NvsOK
  <2>3. Served => Served'
    BY <1>11, <2>2, ServedFrame DEF Served, history
  <2>4. QED
    BY <1>11, <2>1, <2>2, <2>3 DEF Empty
<1>12. ASSUME Served, NvsOK' PROVE Served'
  BY <1>12, ServedFrame DEF history
<1> DEFINE step == Head(todo)
           wanted == Active # 0 /\ KeyMatches(Active) /\ (step = "flushNvs" => nvsPending)
\* There is nothing to write.
<1>13. CASE /\ ~wanted
            /\ CASE step = "nvs" -> Refuse
                 [] step = "tryNvs" -> Proceed
                 [] step = "flushNvs" -> FlushEnds(~nvsPending)
            /\ UNCHANGED <<privkey, nvsPending>>
  <2>1. CASE step \in {"nvs", "tryNvs"}
    <3>1. Empty /\ ~Up
      BY <1>7, <1>9, <1>13, <2>1
    <3>2. Booting /\ todo = STryNvs /\ Proceed
      BY <1>2, <1>3, <1>5, <1>13, <2>1, <3>1
    <3>3. todo' = SFlushMeta /\ phase' = "booting" /\ faulty' = faulty
      BY <1>3, <1>6, <3>2 DEF Proceed
    <3>4. Typed' /\ DiskInv' /\ Empty'
      BY <1>1, <1>10, <1>11, <1>13, <3>1, <3>3 DEF Typed
    <3>5. ~nvsPending'
      BY <1>8, <1>13, <3>1
    <3>6. QED
      BY <1>4, <1>3, <3>2, <3>3, <3>4, <3>5 DEF IInv, Stage, Booting, Adopted
  <2>2. CASE step = "flushNvs"
    <3>1. ~nvsPending
      BY <1>7, <1>8, <1>9, <1>13, <2>2
    <3>2. IF ~dirty THEN Proceed ELSE Refuse
      BY <1>13, <2>2, <3>1 DEF FlushEnds
    <3>3. phase' \in {"booting", "running", "maintenance", "halted", "stopped"} /\ faulty' = faulty
      BY <1>2, <1>3, <3>2 DEF Proceed, Refuse, GivenUp
    <3>4. /\ Typed' /\ DiskInv' /\ (Up => Up') /\ Stored' = Stored /\ Synced' = Synced
          /\ (Empty => Empty') /\ NvsOK' = NvsOK /\ (Served => Served')
      BY <1>1, <1>10, <1>11, <1>13, <3>3 DEF Typed
    <3>5. CASE /\ Booting /\ (Empty \/ (Up /\ Synced /\ NvsOK)) /\ (nvsPending \/ dirty => faulty)
               /\ todo = SFlushNvs
      <4>1. CASE ~dirty
        <5>1. todo' = SRecover /\ phase' = "booting"
          BY <1>3, <1>6, <3>2, <3>5, <4>1 DEF Proceed
        <5>2. Empty' \/ (Up' /\ Stored')
          BY <3>4, <3>5, <4>1 DEF Stored, Synced
        <5>3. QED
          BY <1>3, <1>4, <3>4, <3>5, <5>1, <5>2 DEF IInv, Stage, Booting, Recovering
      <4>2. CASE dirty
        <5>1. Stage'
          BY <1>3, <3>2, <3>5, <4>2, HaltedPlaces DEF Refuse, GivenUp
        <5>2. QED
          BY <1>4, <3>4, <5>1 DEF IInv
      <4>3. QED
        BY <4>1, <4>2
    <3>6. CASE Serving /\ Synced /\ todo = FlushN(<<>>)
      <4>1. todo' = <<>> /\ phase' = "running"
        BY <1>3, <1>6, <3>2, <3>6 DEF Proceed, Refuse, GivenUp
      <4>2. QED
        BY <1>3, <1>4, <3>4, <3>6, <4>1 DEF IInv, Stage, Serving
    <3>7. CASE /\ Maintained /\ Served /\ Synced
               /\ \E t \in {SStop, SSwitch, SScope} :
                    todo = FlushN(t) /\ (t = SSwitch => subject.key \in Hashes(slots))
      <4>1. CASE dirty
        <5>1. Stage'
          BY <1>3, <3>2, <3>7, <4>1, StoppedPlaces DEF Refuse, GivenUp
        <5>2. QED
          BY <1>4, <3>4, <5>1 DEF IInv
      <4>2. CASE ~dirty
        <5>1. PICK t \in {SStop, SSwitch, SScope} :
                todo = FlushN(t) /\ (t = SSwitch => subject.key \in Hashes(slots))
          BY <3>7
        <5>2. todo' = t /\ phase' = "maintenance"
          BY <1>3, <1>6, <3>2, <3>7, <4>2, <5>1 DEF Proceed
        <5>3. Served' /\ Stored'
          BY <3>4, <3>7, <4>2 DEF Stored, Synced
        <5>4. t = SSwitch => (subject.key \in Hashes(slots))'
          BY <5>1 DEF Hashes
        <5>5. Stage'
          BY <1>3, <1>4, <3>7, <5>1, <5>2, <5>3, <5>4, FlushPlaces
        <5>6. QED
          BY <1>4, <3>4, <5>5 DEF IInv
      <4>3. QED
        BY <4>1, <4>2
    <3>8. QED
      BY <1>2, <1>5, <2>2, <3>5, <3>6, <3>7
  <2>3. QED
    BY <2>1, <2>2 DEF At
\* The key is written.
<1>14. CASE /\ wanted
            /\ privkey' = Running /\ nvsPending' = FALSE
            /\ IF step = "flushNvs" THEN FlushEnds(TRUE) ELSE Proceed
  <2>1. Up
    BY <1>7, <1>8, <1>14
  <2>2. privkey' = mirror /\ NvsOK'
    BY <1>9, <1>14, <2>1 DEF NvsOK, history
  <2>3. /\ phase' \in {"booting", "running", "maintenance", "halted", "stopped"} /\ faulty' = faulty
        /\ faulty' \in BOOLEAN
    BY <1>1, <1>2, <1>3, <1>14 DEF Proceed, FlushEnds, Refuse, GivenUp, Typed
  <2>4. /\ Typed' /\ DiskInv' /\ Up' /\ Stored' = Stored /\ Synced' = Synced
        /\ (Served => Served')
    BY <1>10, <1>12, <1>14, <2>1, <2>2, <2>3
  <2>5. CASE Proceed /\ step # "flushNvs"
    <3>1. todo' = Tail(todo) /\ phase' = phase /\ ~nvsPending'
      BY <1>14, <2>5 DEF Proceed
    <3>2. CASE Booting /\ (Up /\ Synced) /\ todo = STryNvs
      BY <1>3, <1>4, <1>6, <2>2, <2>4, <3>1, <3>2 DEF IInv, Stage, Booting, Adopted
    <3>3. CASE Booting /\ Stored /\ todo = SNvs
      BY <1>3, <1>4, <1>6, <2>2, <2>4, <3>1, <3>3 DEF IInv, Stage, Booting, Creating
    <3>4. CASE Booting /\ Stored /\ todo = STryNvs2
      BY <1>3, <1>4, <1>6, <2>2, <2>4, <3>1, <3>4 DEF IInv, Stage, Booting, Reconciling
    <3>5. CASE Serving /\ Synced /\ todo = STry
      BY <1>3, <1>4, <1>6, <2>2, <2>4, <3>1, <3>5 DEF IInv, Stage, Serving
    <3>6. CASE Maintained /\ Stored /\ todo = SNvsM
      BY <1>3, <1>4, <1>6, <2>2, <2>4, <3>1, <3>6 DEF IInv, Stage, Maintained, Switching
    <3>7. QED
      BY <1>2, <1>5, <1>8, <2>1, <2>5, <3>2, <3>3, <3>4, <3>5, <3>6
  <2>6. CASE step = "flushNvs" /\ ~dirty /\ Proceed
    <3>1. todo' = Tail(todo) /\ phase' = phase /\ ~nvsPending'
      BY <1>14, <2>6 DEF Proceed
    <3>2. CASE Booting /\ Synced /\ todo = SFlushNvs
      <4>1. Stored'
        BY <2>4, <2>6, <3>2 DEF Stored, Synced
      <4>2. QED
        BY <1>3, <1>4, <1>6, <2>4, <3>1, <3>2, <4>1 DEF IInv, Stage, Booting, Recovering
    <3>3. CASE Serving /\ Synced /\ todo = FlushN(<<>>)
      BY <1>3, <1>4, <1>6, <2>4, <3>1, <3>3 DEF IInv, Stage, Serving
    <3>4. CASE /\ Maintained /\ Served /\ Synced
               /\ \E t \in {SStop, SSwitch, SScope} :
                    todo = FlushN(t) /\ (t = SSwitch => subject.key \in Hashes(slots))
      <4>1. PICK t \in {SStop, SSwitch, SScope} :
              todo = FlushN(t) /\ (t = SSwitch => subject.key \in Hashes(slots))
        BY <3>4
      <4>2. todo' = t /\ phase' = "maintenance"
        BY <1>3, <1>6, <3>1, <3>4, <4>1
      <4>3. Served' /\ Stored'
        BY <2>4, <2>6, <3>4 DEF Stored, Synced
      <4>4. t = SSwitch => (subject.key \in Hashes(slots))'
        BY <4>1 DEF Hashes
      <4>5. Stage'
        BY <1>3, <1>4, <3>4, <4>1, <4>2, <4>3, <4>4, FlushPlaces
      <4>6. QED
        BY <1>4, <2>4, <4>5 DEF IInv
    <3>5. QED
      BY <1>2, <1>5, <1>8, <2>1, <2>6, <3>2, <3>3, <3>4
  <2>7. CASE step = "flushNvs" /\ dirty /\ Refuse
    <3>1. todo' = <<>> /\ (phase = "booting" => phase' = "halted") /\ faulty' = faulty
          /\ (phase = "maintenance" => phase' = "stopped") /\ (phase = "running" => phase' = "running")
      BY <2>7 DEF Refuse, GivenUp
    <3>2. CASE Booting /\ faulty
      <4>1. Stage'
        BY <1>3, <3>1, <3>2, HaltedPlaces
      <4>2. QED
        BY <1>4, <2>4, <4>1 DEF IInv
    <3>3. CASE Serving /\ Synced
      BY <1>3, <1>4, <2>4, <3>1, <3>3 DEF IInv, Stage, Serving
    <3>4. CASE Maintained
      <4>1. Stage'
        BY <1>3, <3>1, <3>4, StoppedPlaces
      <4>2. QED
        BY <1>4, <2>4, <4>1 DEF IInv
    <3>5. QED
      BY <1>2, <1>5, <2>7, <3>2, <3>3, <3>4
  <2>8. QED
    BY <1>14, <2>5, <2>6, <2>7 DEF FlushEnds
\* The write fails.
<1>15. CASE /\ wanted
            /\ nvsPending' = TRUE
            /\ IF step = "tryNvs" THEN Tolerate ELSE Fail
            /\ UNCHANGED privkey
  <2>1. Up /\ NvsOK' /\ faulty' = TRUE
    BY <1>7, <1>8, <1>15 DEF NvsOK, Tolerate, Fail
  <2>2. phase' \in {"booting", "running", "maintenance", "halted", "stopped"}
    BY <1>2, <1>3, <1>15 DEF Tolerate, Fail, GivenUp
  <2>3. /\ Typed' /\ DiskInv' /\ Up' /\ Stored' = Stored /\ Synced' = Synced
        /\ (Served => Served')
    BY <1>10, <1>12, <1>15, <2>1, <2>2
  <2>4. CASE step = "tryNvs"
    <3>1. todo' = Tail(todo) /\ phase' = phase
      BY <1>15, <2>4 DEF Tolerate
    <3>2. CASE Booting /\ Synced /\ todo = STryNvs
      BY <1>3, <1>4, <1>6, <2>1, <2>3, <3>1, <3>2 DEF IInv, Stage, Booting, Adopted
    <3>3. CASE Booting /\ Stored /\ todo = STryNvs2
      BY <1>3, <1>4, <1>6, <2>1, <2>3, <3>1, <3>3 DEF IInv, Stage, Booting, Reconciling
    <3>4. CASE Serving /\ Synced /\ todo = STry
      BY <1>3, <1>4, <1>6, <2>1, <2>3, <3>1, <3>4 DEF IInv, Stage, Serving
    <3>5. QED
      BY <1>2, <1>5, <1>8, <2>1, <2>4, <3>2, <3>3, <3>4
  <2>5. CASE step # "tryNvs"
    <3>1. todo' = <<>> /\ (phase = "booting" => phase' = "halted")
          /\ (phase = "maintenance" => phase' = "stopped") /\ (phase = "running" => phase' = "running")
      BY <1>15, <2>5 DEF Fail, GivenUp
    <3>2. CASE Booting
      <4>1. Stage'
        BY <1>3, <2>1, <3>1, <3>2, HaltedPlaces
      <4>2. QED
        BY <1>4, <2>3, <4>1 DEF IInv
    <3>3. CASE Serving /\ Synced
      BY <1>3, <1>4, <2>3, <3>1, <3>3 DEF IInv, Stage, Serving
    <3>4. CASE Maintained
      <4>1. Stage'
        BY <1>3, <3>1, <3>4, StoppedPlaces
      <4>2. QED
        BY <1>4, <2>3, <4>1 DEF IInv
    <3>5. QED
      BY <1>2, <3>2, <3>3, <3>4
  <2>6. QED
    BY <2>4, <2>5
<1>16. QED
  BY <1>13, <1>14, <1>15

-----------------------------------------------------------------------------
(* The name that is shown: it is settled in the catalogue, then in the      *)
(* settings.                                                               *)

\* Settings that are saved as settled.
LEMMA ConfigWrites ==
  ASSUME UNCHANGED <<keyFile, mirror, metadata, privkey, scope, slots, load, made, known, nameOf, chosen, unmigrated>>,
         ~Unsettled, ~Unsettled'
  PROVE  (DiskInv => DiskInv') /\ (Up => Up')
<1>1. Blank => Blank'
  BY DEF Blank, Fresh
<1>2. Uncatalogued => Uncatalogued'
  BY DEF Uncatalogued
<1>3. Catalogued => Catalogued'
  BY DEF Catalogued, OneActive, OnlyActive, Distinct, Homed, Filed, Old, NamedBy, Hashes
<1>4. DiskInv => DiskInv'
  BY <1>1, <1>2, <1>3 DEF DiskInv, Held
<1>5. Up => Up'
  BY DEF Up, Loaded, OnlyActive, Distinct, Homed, Filed, NamedBy, Contained, Hashes, KeyMatches, KeyAt
<1>6. QED
  BY <1>4, <1>5

LEMMA RecoverKeeps == ASSUME IInv, Recover PROVE IInv'
<1> USE DEF Recover
<1>1. Typed /\ Loadable /\ DiskInv /\ Stage
  BY DEF IInv
<1>2. \/ Booting /\ (Empty \/ (Up /\ Stored)) /\ todo = SRecover
      \/ Booting /\ Up /\ Stored /\ NvsOK /\ todo = SReconcile
      \/ Serving /\ Synced /\ settings.pending /\ todo = SAgain
      \/ Maintained /\ Up /\ Stored /\ SettingsOK /\ todo = SRecoverM
  BY <1>1, RecoverPlaces DEF At
<1>3. /\ Booting => phase = "booting" /\ scope = "clear" /\ SettingsOK
      /\ Serving => phase = "running" /\ scope = "clear" /\ Served /\ Up /\ SettingsOK
      /\ Maintained => phase = "maintenance" /\ scope = "clear" /\ ~settings.pending
  BY DEF Booting, Serving, Maintained, Served
<1>4. scope = "clear" /\ SettingsOK /\ Loadable'
  BY <1>1, <1>2, <1>3, LoadFrame
<1>5. /\ Tail(SRecover) = SIdentity /\ Tail(SReconcile) = SRun /\ Tail(SRecoverM) = SStop
      /\ Head(SRecover) = "recover" /\ Head(SReconcile) = "reconcile" /\ Head(SRecoverM) = "recover"
      /\ Head(SAgain) = "recover"
  BY Continuations, Beginnings DEF BootTails, ServiceTails, BootBegins, ServiceBegins, Begins
<1>6. /\ Empty => Booting /\ todo = SRecover /\ Active = 0 /\ ~settings.pending /\ ~Up
      /\ Empty \/ Up
  BY <1>1, <1>2, <1>3, <1>4, EmptyFacts, UpFacts DEF SettingsOK
<1>7. Up => /\ Active # 0 /\ Running = mirror /\ ValidateSlot(Active) /\ mirror \in Keys /\ mirror # None
            /\ mirror \in Identities /\ Active \in DOMAIN slots /\ slots[Active].hash = mirror
            /\ slots[Active].name \in Titles
  BY <1>1, UpFacts, ListingFacts DEF Typed, Keys
<1>8. settings.pending => /\ config # Absent /\ config.pending /\ config.bound = mirror
                          /\ config.name = nameOf[mirror] /\ Unsettled
  BY <1>1, <1>4 DEF SettingsOK, Unsettled, DiskInv, Held
<1>9. Up /\ ~settings.pending => slots[Active].name = nameOf[mirror] /\ ~Unsettled
  BY <1>4, <1>7 DEF SettingsOK, Up, Loaded, NamedBy
\* Nothing is written.
<1>10. ASSUME UNCHANGED <<config, settings>>, faulty' \in BOOLEAN,
              phase' \in {"booting", "running", "maintenance", "halted", "stopped"}
       PROVE  /\ Typed' /\ DiskInv' /\ SettingsOK' /\ (Empty => Empty') /\ (Up => Up')
              /\ Stored' = Stored /\ Synced' = Synced /\ NvsOK' = NvsOK /\ (Served => Served')
  <2>1. Typed' /\ DiskInv' /\ SettingsOK' /\ (Blank => Blank')
    BY <1>1, <1>4, <1>10, TypedFrame, DiskFrame, SettingsFrame DEF Typed, keys, history
  <2>2. Up => Up'
    BY <1>10, UpFrame DEF keys, history
  <2>3. Stored' = Stored /\ Synced' = Synced /\ NvsOK' = NvsOK /\ (Empty => Empty')
    BY <2>1 DEF Stored, Synced, NvsOK, Empty, keys
  <2>4. Served => Served'
    BY <1>10, <2>3, ServedFrame DEF Served, keys, history
  <2>5. QED
    BY <2>1, <2>2, <2>3, <2>4
<1> DEFINE needless == phase = "booting" /\ Head(todo) = "recover" /\ Active = 0 /\ ~settings.pending
           settles == config # Absent /\ config.pending /\ config.bound = Running
<1>11. CASE needless /\ Proceed /\ UNCHANGED <<config, settings>>
  <2>1. Empty /\ todo' = SIdentity /\ phase' = "booting" /\ faulty' = faulty
    BY <1>3, <1>5, <1>6, <1>7, <1>11 DEF Proceed
  <2>2. Typed' /\ DiskInv' /\ SettingsOK' /\ Empty'
    BY <1>1, <1>10, <1>11, <2>1 DEF Typed
  <2>3. QED
    BY <1>4, <2>1, <2>2 DEF IInv, Stage, Booting, Recovering
<1>12. ~(~needless /\ ~(ValidateSlot(Active) /\ (settings.pending => settles)))
  <2>1. CASE Empty
    BY <1>3, <1>5, <1>6, <2>1
  <2>2. CASE Up
    BY <1>7, <1>8, <2>2
  <2>3. QED
    BY <1>6, <2>1, <2>2
<1>13. CASE /\ ValidateSlot(Active) /\ settings.pending /\ settles
            /\ Insert(<<"settleName", "settleConfig">>) /\ UNCHANGED <<config, settings>>
  <2>1. Up /\ phase' = phase /\ faulty' = faulty
    BY <1>6, <1>13 DEF Insert
  <2>2. phase \in {"booting", "running", "maintenance"} /\ faulty \in BOOLEAN
    BY <1>1, <1>2, <1>3 DEF Typed
  <2>3. /\ Typed' /\ DiskInv' /\ SettingsOK' /\ Up' /\ Stored' = Stored /\ Synced' = Synced
        /\ NvsOK' = NvsOK /\ (Served => Served') /\ settings'.pending
    BY <1>10, <1>13, <2>1, <2>2
  <2>4. CASE Booting /\ Stored /\ todo = SRecover
    <3>1. todo' = SettleN(SIdentity)
      BY <1>13, <2>4, Insertions DEF Insert
    <3>2. QED
      BY <1>3, <1>4, <2>1, <2>3, <2>4, <3>1 DEF IInv, Stage, Booting, Recovering
  <2>5. CASE Booting /\ Stored /\ NvsOK /\ todo = SReconcile
    <3>1. todo' = SettleN(SRun)
      BY <1>13, <2>5, Insertions DEF Insert
    <3>2. QED
      BY <1>3, <1>4, <2>1, <2>3, <2>5, <3>1 DEF IInv, Stage, Booting, Reconciling
  <2>6. CASE Serving /\ Synced /\ todo = SAgain
    <3>1. todo' = SettleN(<<>>)
      BY <1>13, <2>6, Insertions DEF Insert
    <3>2. QED
      BY <1>3, <1>4, <2>1, <2>3, <2>6, <3>1 DEF IInv, Stage, Serving
  <2>7. QED
    BY <1>2, <1>3, <1>6, <1>13, <2>1, <2>4, <2>5, <2>6
\* The settings agree with the catalogue, or are written so that they do.
<1>14. ASSUME ValidateSlot(Active), ~settings.pending, Proceed, Typed', DiskInv', SettingsOK', Up',
              ~settings'.pending, Shown', Stored' = Stored, NvsOK' = NvsOK
       PROVE  IInv'
  <2>1. Up /\ phase' = phase /\ faulty' = faulty /\ todo' = Tail(todo)
    BY <1>6, <1>14 DEF Proceed, ValidateSlot
  <2>2. CASE Booting /\ Stored /\ todo = SRecover
    BY <1>3, <1>4, <1>5, <1>14, <2>1, <2>2 DEF IInv, Stage, Booting, Recovering
  <2>3. CASE Booting /\ Stored /\ NvsOK /\ todo = SReconcile
    <3>1. metadata' # Absent
      BY <1>14, <2>3, StoredFacts, <1>1 DEF keys
    <3>2. Served'
      BY <1>14, <2>3, <3>1 DEF Served
    <3>3. QED
      BY <1>3, <1>4, <1>5, <1>14, <2>1, <2>3, <3>2 DEF IInv, Stage, Booting, Reconciling
  <2>4. CASE Maintained /\ todo = SRecoverM
    BY <1>3, <1>4, <1>5, <1>14, <2>1, <2>4 DEF IInv, Stage, Resetting
  <2>5. QED
    BY <1>2, <1>14, <1>6, <2>1, <2>2, <2>3, <2>4
<1>15. CASE ValidateSlot(Active) /\ ~settings.pending /\ Agrees /\ Proceed /\ UNCHANGED <<config, settings>>
  <2>1. Up /\ phase' = phase /\ faulty' = faulty
    BY <1>6, <1>15 DEF Proceed, ValidateSlot
  <2>2. phase \in {"booting", "running", "maintenance"} /\ faulty \in BOOLEAN
    BY <1>1, <1>2, <1>3 DEF Typed
  <2>3. Typed' /\ DiskInv' /\ SettingsOK' /\ Up' /\ Stored' = Stored /\ NvsOK' = NvsOK
    BY <1>10, <1>15, <2>1, <2>2
  <2>4. settings = Effective(Bound(mirror, FALSE, nameOf[mirror]))
    BY <1>7, <1>9, <1>15, <2>1 DEF Agrees
  <2>5. Shown'
    BY <1>15, <2>4 DEF Shown, Effective, Bound, keys, history
  <2>6. QED
    BY <1>14, <1>15, <2>3, <2>5
<1>16. CASE /\ ValidateSlot(Active) /\ ~settings.pending /\ ~Agrees
            /\ config' = Bound(Running, FALSE, slots[Active].name)
            /\ settings' = Effective(config')
            /\ Proceed
  <2>1. Up /\ phase' = phase /\ faulty' = faulty
    BY <1>6, <1>16 DEF Proceed, ValidateSlot
  <2>2. config' = Bound(mirror, FALSE, nameOf[mirror]) /\ nameOf[mirror] \in Titles
    BY <1>7, <1>9, <1>16, <2>1
  <2>3. /\ config' \in Settings /\ config' # Absent /\ ~config'.pending
        /\ settings' \in [bound : Keys, pending : BOOLEAN, name : Titles, flash : BOOLEAN]
        /\ ~settings'.pending
    <3>0. mirror \in Keys /\ nameOf[mirror] \in Titles
      BY <1>7, <2>1, <2>2
    <3>1. config' = [bound |-> mirror, pending |-> FALSE, name |-> nameOf[mirror]]
      BY <2>2 DEF Bound
    <3>2. settings' = [bound |-> mirror, pending |-> FALSE, name |-> nameOf[mirror], flash |-> TRUE]
      <4>1. settings' = Effective(config')
        BY <1>16
      <4>2. config'.bound = mirror /\ config'.pending = FALSE /\ config'.name = nameOf[mirror]
        BY ONLY <3>1
      <4>3. QED
        BY ONLY <4>1, <4>2 DEF Effective
    <3>3. config' \in Settings
      BY ONLY <3>0, <3>1 DEF Settings, Keys, Titles
    <3>4. config' # Absent
      BY <3>3, Missing
    <3>5. settings' \in [bound : Keys, pending : BOOLEAN, name : Titles, flash : BOOLEAN]
      BY ONLY <3>0, <3>2
    <3>6. ~config'.pending /\ ~settings'.pending
      BY ONLY <3>1, <3>2
    <3>7. QED
      BY ONLY <3>3, <3>4, <3>5, <3>6
  <2>4. ~Unsettled /\ ~Unsettled'
    BY <1>9, <1>16, <2>1, <2>3 DEF Unsettled
  <2>5. DiskInv' /\ Up'
    BY <1>1, <2>1, <2>4, ConfigWrites DEF keys, history
  <2>6. Typed'
    BY <1>1, <2>1, <2>3, TypedFrame DEF Typed, keys, history
  <2>7. SettingsOK'
    <3>1. settings' = Effective(config')
      BY <1>16
    <3>2. (Effective(config))' = Effective(config')
      BY DEF Effective
    <3>3. QED
      BY <2>3, <2>4, <3>1, <3>2 DEF SettingsOK
  <2>8. Shown'
    <3>1. settings' = Effective(Bound(mirror, FALSE, nameOf[mirror]))
      BY <1>16, <2>2
    <3>2. mirror' = mirror /\ nameOf' = nameOf
      BY DEF keys, history
    <3>3. QED
      BY <3>1, <3>2 DEF Shown, Effective, Bound
  <2>9. Stored' = Stored /\ NvsOK' = NvsOK
    BY DEF Stored, NvsOK, keys
  <2>10. QED
    BY <1>14, <1>16, <2>3, <2>5, <2>6, <2>7, <2>8, <2>9
<1>17. CASE ValidateSlot(Active) /\ ~settings.pending /\ ~Agrees /\ Fail /\ UNCHANGED <<config, settings>>
  <2>1. /\ todo' = <<>> /\ faulty' = TRUE /\ (phase = "booting" => phase' = "halted")
        /\ (phase = "maintenance" => phase' = "stopped")
    BY <1>17 DEF Fail, GivenUp
  <2>2. phase \in {"booting", "maintenance"}
    BY <1>2, <1>3, <1>17
  <2>3. Typed' /\ DiskInv'
    BY <1>10, <1>17, <2>1, <2>2
  <2>4. Stage'
    BY <2>1, <2>2, HaltedPlaces, StoppedPlaces
  <2>5. QED
    BY <1>4, <2>3, <2>4 DEF IInv
<1>18. QED
  BY <1>11, <1>12, <1>13, <1>15, <1>16, <1>17

\* The catalogue with another name for one slot.
Renaming(s, a, n) == [s EXCEPT ![a].name = n]

LEMMA NamedFacts ==
  ASSUME NEW s \in Seq(Slot), NEW a \in DOMAIN s, NEW n \in Titles
  PROVE  /\ Renaming(s, a, n) \in Seq(Slot) /\ Len(Renaming(s, a, n)) = Len(s)
         /\ DOMAIN Renaming(s, a, n) = DOMAIN s
         /\ \A j \in DOMAIN s : /\ Renaming(s, a, n)[j].hash = s[j].hash
                                /\ Renaming(s, a, n)[j].path = s[j].path
                                /\ Renaming(s, a, n)[j].active = s[j].active
                                /\ Renaming(s, a, n)[j].name = IF j = a THEN n ELSE s[j].name
         /\ Hashes(Renaming(s, a, n)) = Hashes(s)
<1> DEFINE c == Renaming(s, a, n)
<1> DEFINE v == [s[a] EXCEPT !.name = n]
<1>1. s[a] \in Slot
  OBVIOUS
<1>2. v \in Slot /\ v.hash = s[a].hash /\ v.path = s[a].path /\ v.active = s[a].active /\ v.name = n
  BY <1>1 DEF Slot, Titles
<1>3. c = [s EXCEPT ![a] = v]
  BY DEF Renaming
<1> HIDE DEF v, c
<1>4. c \in Seq(Slot) /\ Len(c) = Len(s) /\ DOMAIN c = DOMAIN s
  BY <1>2, <1>3
<1>5. \A j \in DOMAIN s : c[j] = IF j = a THEN v ELSE s[j]
  BY <1>3
<1>6. \A j \in DOMAIN s : c[j].hash = s[j].hash /\ c[j].path = s[j].path /\ c[j].active = s[j].active
  BY <1>2, <1>5
<1>7. \A j \in DOMAIN s : c[j].name = IF j = a THEN n ELSE s[j].name
  BY <1>2, <1>5
<1>8. Hashes(c) = Hashes(s)
  BY <1>4, <1>6 DEF Hashes
<1>9. QED
  BY <1>4, <1>6, <1>7, <1>8 DEF c

LEMMA SettleNameKeeps == ASSUME IInv, SettleName PROVE IInv'
<1> USE DEF SettleName
<1>1. Typed /\ Loadable /\ DiskInv /\ Stage
  BY DEF IInv
<1>2. \/ Booting /\ Up /\ Stored /\ settings.pending /\ todo = SettleN(SIdentity)
      \/ Booting /\ Up /\ Stored /\ NvsOK /\ settings.pending /\ todo = SettleN(SRun)
      \/ Serving /\ Synced /\ settings.pending /\ todo = SettleN(<<>>)
  BY <1>1, SettlePlaces DEF At
<1>3. /\ Booting => phase = "booting" /\ scope = "clear" /\ SettingsOK
      /\ Serving => phase = "running" /\ scope = "clear" /\ Served /\ Up /\ SettingsOK
  BY DEF Booting, Serving, Served
<1>4. scope = "clear" /\ SettingsOK /\ Up /\ settings.pending /\ Loadable' /\ SettingsOK'
      /\ phase \in {"booting", "running"}
  BY <1>1, <1>2, <1>3, LoadFrame, SettingsFrame
<1>5. /\ Tail(SettleN(SIdentity)) = SettleC(SIdentity) /\ Tail(SettleN(SRun)) = SettleC(SRun)
      /\ Tail(SettleN(<<>>)) = SettleC(<<>>)
  BY Continuations DEF OtherTails
<1>6. /\ Active \in DOMAIN slots /\ OnlyActive(slots, Active) /\ slots[Active].hash = mirror
      /\ WithKeys \subseteq Hashes(slots) /\ KeyMatches(Active) /\ mirror \in Hashes(slots) /\ mirror \in chosen
  BY <1>1, <1>4, UpFacts, UpHeld
<1>7. /\ config # Absent /\ config.pending /\ config.bound = mirror
      /\ config.name = nameOf[mirror] /\ Unsettled
  BY <1>1, <1>4 DEF SettingsOK, Unsettled, DiskInv, Held
<1>8. Listing(slots) /\ slots \in Seq(Slot) /\ config.name \in Titles
  BY <1>1, <1>7 DEF Typed, Listing, Settings, Titles
<1>9. /\ Distinct(slots) /\ Homed(slots) /\ NamedBy(slots) /\ known \subseteq Hashes(slots)
  BY <1>4 DEF Up, Loaded
<1> DEFINE named == [slots EXCEPT ![Active].name = config.name]
<1>10. /\ named \in Seq(Slot) /\ Len(named) = Len(slots) /\ DOMAIN named = DOMAIN slots
       /\ \A j \in DOMAIN slots : /\ named[j].hash = slots[j].hash /\ named[j].path = slots[j].path
                                  /\ named[j].active = slots[j].active
       /\ \A j \in DOMAIN slots : named[j].name = IF j = Active THEN config.name ELSE slots[j].name
       /\ Hashes(named) = Hashes(slots)
  <2>1. named = Renaming(slots, Active, config.name)
    BY DEF Renaming
  <2> HIDE DEF named
  <2>2. QED
    BY ONLY <1>6, <1>8, <2>1, NamedFacts
<1> HIDE DEF named
\* Nothing is written.
<1>11. ASSUME UNCHANGED <<metadata, slots, dirty, known>>, faulty' \in BOOLEAN,
              phase' \in {"booting", "running", "halted"}
       PROVE  /\ Typed' /\ DiskInv' /\ Up' /\ Stored' = Stored /\ Synced' = Synced /\ NvsOK' = NvsOK
              /\ (Served => Served') /\ Renamed' = Renamed
  <2>1. Typed' /\ DiskInv'
    BY <1>1, <1>11, TypedFrame, DiskFrame DEF Typed
  <2>2. Up' /\ Stored' = Stored /\ Synced' = Synced /\ NvsOK' = NvsOK /\ Renamed' = Renamed
    BY <1>4, <1>11, UpFrame DEF Stored, Synced, NvsOK, Renamed
  <2>3. Served => Served'
    BY <1>11, <2>2, ServedFrame DEF Served
  <2>4. QED
    BY <2>1, <2>2, <2>3
<1>12. ASSUME Proceed, Typed', DiskInv', Up', Stored => Stored', Synced => Synced', NvsOK' = NvsOK,
              Served => Served', Renamed'
       PROVE  IInv'
  <2>1. todo' = Tail(todo) /\ phase' = phase /\ settings'.pending
    BY <1>4, <1>12 DEF Proceed
  <2>2. CASE Booting /\ Stored /\ todo = SettleN(SIdentity)
    BY <1>3, <1>4, <1>5, <1>12, <2>1, <2>2 DEF IInv, Stage, Booting, Recovering
  <2>3. CASE Booting /\ Stored /\ NvsOK /\ todo = SettleN(SRun)
    BY <1>3, <1>4, <1>5, <1>12, <2>1, <2>3 DEF IInv, Stage, Booting, Reconciling
  <2>4. CASE Serving /\ Synced /\ todo = SettleN(<<>>)
    BY <1>3, <1>4, <1>5, <1>12, <2>1, <2>4 DEF IInv, Stage, Serving
  <2>5. QED
    BY <1>2, <2>2, <2>3, <2>4
<1>13. CASE slots = named /\ Proceed /\ UNCHANGED <<metadata, slots, dirty, known>>
  <2>1. slots[Active].name = config.name
    BY <1>6, <1>10, <1>13
  <2>2. Renamed
    BY <1>6, <1>9, <2>1 DEF Renamed, Distinct
  <2>3. phase' \in {"booting", "running", "halted"} /\ faulty' \in BOOLEAN
    BY <1>1, <1>4, <1>13 DEF Proceed, Typed
  <2>4. /\ Typed' /\ DiskInv' /\ Up' /\ Stored' = Stored /\ Synced' = Synced /\ NvsOK' = NvsOK
        /\ (Served => Served') /\ Renamed' = Renamed
    BY <1>11, <1>13, <2>3
  <2>5. Renamed' /\ (Stored => Stored') /\ (Synced => Synced')
    BY <2>2, <2>4
  <2>6. QED
    BY <1>12, <1>13, <2>4, <2>5
<1>14. CASE /\ metadata' = named /\ slots' = named /\ dirty' = FALSE
            /\ known' = known \cup WithKeys /\ Proceed
  <2> HIDE DEF SettleName
  <2>0. UNCHANGED <<keyFile, mirror, privkey, config, card, scope, nvsPending, settings,
                    subject, load, lost, made, nameOf, chosen, unmigrated>>
    BY DEF SettleName
  <2>1. known' \subseteq Hashes(slots) /\ Hashes(slots') = Hashes(slots)
    BY <1>6, <1>9, <1>10, <1>14
  <2>2. Listing(slots)' /\ Listing(metadata)' /\ metadata' # Absent
    <3>1. Listing(slots)'
      BY <1>8, <1>10, <1>14, <2>0 DEF Listing
    <3>2. metadata' # Absent
      BY <1>10, <1>14, Missing
    <3>3. QED
      BY <1>14, <3>1, <3>2 DEF Listing, Hashes
  <2>3. Typed'
    <3>1. known' \subseteq made'
      BY <1>8, <2>0, <2>1 DEF Listing
    <3>2. dirty' \in BOOLEAN /\ UNCHANGED <<phase, faulty>>
      BY <1>14 DEF Proceed
    <3>3. QED
      BY <1>1, <2>0, <2>2, <3>1, <3>2 DEF Typed
  <2>4. Unsettled' = Unsettled
    BY <2>0 DEF Unsettled
  <2>5. /\ Distinct(slots)' /\ Homed(slots)' /\ OnlyActive(slots', Active) /\ slots'[Active].hash = mirror
        /\ Active \in DOMAIN slots'
    BY <1>6, <1>9, <1>10, <1>14, <2>0 DEF Distinct, Homed, Filed, OnlyActive
  <2>6. NamedBy(slots)'
    BY <1>6, <1>7, <1>9, <1>10, <1>14, <2>0, <2>4 DEF NamedBy
  <2>7. Contained'
    BY <1>14 DEF Contained
  <2>8. Loaded'
    BY <1>6, <2>0, <2>1, <2>5, <2>6, <2>7 DEF Loaded, Hashes
  <2>9. Up'
    <3>1. PICK a : a = Active
      OBVIOUS
    <3>2. a \in DOMAIN slots /\ KeyMatches(a) /\ slots'[a].hash = slots[a].hash /\ slots'[a].path = slots[a].path
      BY <1>6, <1>10, <1>14, <3>1
    <3>3. KeyMatches(a)'
      BY <2>0, <3>2 DEF KeyMatches, KeyAt
    <3>4. QED
      BY <2>0, <2>5, <2>8, <3>1, <3>3 DEF Up, OnlyActive
  <2>10. Catalogued'
    BY <1>6, <1>14, <2>0, <2>1, <2>2, <2>5, <2>6
       DEF Catalogued, Hashes, Distinct, OneActive, OnlyActive, Homed, Filed, NamedBy
  <2>11. DiskInv'
    BY <1>6, <1>7, <2>0, <2>2, <2>10 DEF DiskInv, Held
  <2>12. Stored' /\ Synced' /\ NvsOK' = NvsOK
    BY <1>14, <2>0 DEF Stored, Synced, NvsOK
  <2>13. Served => Served'
    BY <1>4, <2>0, <2>2, <2>9, <2>12 DEF Served, Shown
  <2>14. Renamed'
    BY <1>6, <1>9, <1>10, <1>14, <2>0 DEF Renamed, Distinct
  <2>15. QED
    BY <1>12, <1>14, <2>3, <2>9, <2>11, <2>12, <2>13, <2>14
<1>15. CASE Fail /\ UNCHANGED <<metadata, slots, dirty, known>>
  <2>1. /\ todo' = <<>> /\ faulty' = TRUE /\ (phase = "booting" => phase' = "halted")
        /\ (phase = "running" => phase' = "running")
    BY <1>15 DEF Fail, GivenUp
  <2>2. /\ Typed' /\ DiskInv' /\ Synced' = Synced /\ (Served => Served')
    BY <1>4, <1>11, <1>15, <2>1
  <2>3. CASE phase = "booting"
    <3>1. Stage'
      BY <2>1, <2>3, HaltedPlaces
    <3>2. QED
      BY <1>4, <2>2, <3>1 DEF IInv
  <2>4. CASE phase = "running"
    BY <1>2, <1>3, <1>4, <2>1, <2>2, <2>4 DEF IInv, Stage, Serving
  <2>5. QED
    BY <1>4, <2>3, <2>4
<1>16. QED
  BY <1>13, <1>14, <1>15 DEF named

LEMMA SettleConfigKeeps == ASSUME IInv, SettleConfig PROVE IInv'
<1> USE DEF SettleConfig
<1>1. Typed /\ Loadable /\ DiskInv /\ Stage
  BY DEF IInv
<1>2. \/ Booting /\ Up /\ Stored /\ settings.pending /\ Renamed /\ todo = SettleC(SIdentity)
      \/ Booting /\ Up /\ Stored /\ NvsOK /\ settings.pending /\ Renamed /\ todo = SettleC(SRun)
      \/ Serving /\ Synced /\ settings.pending /\ Renamed /\ todo = SettleC(<<>>)
  BY <1>1, SettlePlaces DEF At
<1>3. /\ Booting => phase = "booting" /\ scope = "clear" /\ SettingsOK
      /\ Serving => phase = "running" /\ scope = "clear" /\ Served /\ Up /\ SettingsOK /\ metadata # Absent /\ NvsOK
      /\ Stored => metadata # Absent
  BY <1>1, StoredFacts DEF Booting, Serving, Served
<1>4. scope = "clear" /\ SettingsOK /\ Up /\ settings.pending /\ Renamed /\ metadata # Absent /\ Loadable'
      /\ phase \in {"booting", "running"}
  BY <1>1, <1>2, <1>3, LoadFrame
<1>5. /\ Tail(SettleC(SIdentity)) = SIdentity /\ Tail(SettleC(SRun)) = SRun
      /\ Tail(SettleC(<<>>)) = <<>>
  BY Continuations DEF OtherTails
<1>6. /\ config # Absent /\ config.pending /\ config.bound = mirror
      /\ config.name = nameOf[mirror] /\ Unsettled /\ config \in Settings
  BY <1>1, <1>4 DEF SettingsOK, Unsettled, DiskInv, Held, Typed
<1>7. mirror \in Keys /\ mirror \in chosen /\ nameOf[mirror] \in Titles /\ Catalogued
  BY <1>1, <1>4, UpFacts, UpHeld DEF Typed, Keys, Uncatalogued
<1>8. CASE /\ config' = [config EXCEPT !.pending = FALSE]
           /\ settings' = Effective(config')
           /\ Proceed
  <2> HIDE DEF SettleConfig
  <2>0. UNCHANGED <<keyFile, mirror, metadata, privkey, card, scope, slots, dirty, nvsPending,
                    subject, load, lost, made, known, nameOf, chosen, unmigrated>>
    BY DEF SettleConfig, keys, history
  <2>1. config' = [bound |-> mirror, pending |-> FALSE, name |-> nameOf[mirror]]
    <3>1. config' = [bound |-> config.bound, pending |-> FALSE, name |-> config.name]
      BY ONLY <1>6, <1>8 DEF Settings
    <3>2. QED
      BY <1>6, <3>1
  <2>2. settings' = [bound |-> mirror, pending |-> FALSE, name |-> nameOf[mirror], flash |-> TRUE]
    <3>1. settings' = Effective(config')
      BY <1>8
    <3>2. config'.bound = mirror /\ config'.pending = FALSE /\ config'.name = nameOf[mirror]
      BY ONLY <2>1
    <3>3. QED
      BY ONLY <3>1, <3>2 DEF Effective
  <2>3. config' \in Settings
    BY ONLY <1>7, <2>1 DEF Settings, Keys, Titles
  <2>4. config' # Absent
    BY <2>3, Missing
  <2>5. settings' \in [bound : Keys, pending : BOOLEAN, name : Titles, flash : BOOLEAN]
    BY ONLY <1>7, <2>2
  <2>6. ~config'.pending /\ ~settings'.pending /\ ~Unsettled'
    BY <2>1, <2>2 DEF Unsettled
  <2>7. phase' = phase /\ faulty' = faulty /\ todo' = Tail(todo)
    BY <1>8 DEF Proceed
  <2>8. Typed'
    BY <1>1, <2>0, <2>3, <2>5, <2>7, TypedFrame DEF Typed
  <2>9. \A i \in DOMAIN slots : slots[i].name = nameOf[slots[i].hash]
    BY <1>4, <1>6 DEF Up, Loaded, NamedBy, Renamed
  <2>10. \A i \in DOMAIN metadata : metadata[i].name = nameOf[metadata[i].hash]
    BY <1>4, <2>9 DEF Up, Loaded, Contained
  <2>11. Up'
    BY <1>4, <2>0, <2>9 DEF Up, Loaded, OnlyActive, Distinct, Homed, Filed, NamedBy, Contained, Hashes, KeyMatches, KeyAt
  <2>12. Catalogued'
    BY <1>7, <2>0, <2>10 DEF Catalogued, OneActive, OnlyActive, Distinct, Homed, Filed, Old, NamedBy, Hashes
  <2>13. DiskInv'
    BY <1>7, <2>0, <2>6, <2>12 DEF DiskInv, Held
  <2>14. SettingsOK'
    <3>1. settings' = Effective(config') /\ (Effective(config))' = Effective(config')
      BY <1>8 DEF Effective
    <3>2. QED
      BY <2>4, <2>6, <3>1 DEF SettingsOK
  <2>15. Shown'
    <3>1. settings' = Effective(Bound(mirror, FALSE, nameOf[mirror]))
      BY <2>2 DEF Effective, Bound
    <3>2. QED
      BY <2>0, <3>1 DEF Shown, Effective, Bound
  <2>16. Stored' = Stored /\ Synced' = Synced /\ NvsOK' = NvsOK
    BY <2>0 DEF Stored, Synced, NvsOK
  <2>17. NvsOK => Served'
    BY <1>4, <2>0, <2>11, <2>14, <2>15, <2>16 DEF Served
  <2>18. CASE Booting /\ Stored /\ todo = SettleC(SIdentity)
    BY <1>3, <1>4, <1>5, <2>0, <2>7, <2>8, <2>11, <2>13, <2>14, <2>16, <2>18
       DEF IInv, Stage, Booting, Recovering
  <2>19. CASE Booting /\ Stored /\ NvsOK /\ todo = SettleC(SRun)
    BY <1>3, <1>4, <1>5, <2>0, <2>6, <2>7, <2>8, <2>11, <2>13, <2>14, <2>16, <2>17, <2>19
       DEF IInv, Stage, Booting, Reconciling
  <2>20. CASE Serving /\ Synced /\ todo = SettleC(<<>>)
    BY <1>3, <1>4, <1>5, <2>0, <2>7, <2>8, <2>13, <2>16, <2>17, <2>20 DEF IInv, Stage, Serving
  <2>21. QED
    BY <1>2, <2>18, <2>19, <2>20
<1>9. CASE Fail /\ UNCHANGED <<config, settings>>
  <2>1. /\ todo' = <<>> /\ faulty' = TRUE /\ (phase = "booting" => phase' = "halted")
        /\ (phase = "running" => phase' = "running")
    BY <1>9 DEF Fail, GivenUp
  <2>2. phase' \in {"halted", "running"}
    BY <1>4, <2>1
  <2>3. Typed' /\ DiskInv'
    BY <1>1, <1>9, <2>1, <2>2, TypedFrame, DiskFrame DEF Typed, keys, history
  <2>4. CASE phase = "booting"
    <3>1. Stage'
      BY <2>1, <2>4, HaltedPlaces
    <3>2. QED
      BY <1>4, <2>3, <3>1 DEF IInv
  <2>5. CASE phase = "running"
    <3>1. Serving /\ Synced
      BY <1>2, <1>3, <2>5
    <3>2. Served' /\ Synced'
      <4>1. NvsOK' /\ Synced'
        BY <1>3, <3>1 DEF NvsOK, Synced, keys
      <4>2. QED
        BY <1>3, <1>9, <3>1, <4>1, ServedFrame DEF keys, history
    <3>3. QED
      BY <1>3, <1>4, <2>1, <2>3, <2>5, <3>1, <3>2 DEF IInv, Stage, Serving
  <2>6. QED
    BY <1>4, <2>4, <2>5
<1>10. QED
  BY <1>8, <1>9

-----------------------------------------------------------------------------
(* The running device.                                                     *)

LEMMA IdleFacts ==
  ASSUME Typed, Loadable, DiskInv, Stage, Idle
  PROVE  /\ phase = "running" /\ todo = <<>> /\ scope = "clear" /\ Serving /\ Served /\ Synced
         /\ Up /\ NvsOK /\ SettingsOK /\ metadata # Absent /\ Shown /\ Loaded
         /\ mirror \in chosen /\ Catalogued /\ mirror \in Hashes(slots)
<1>1. phase = "running" /\ todo = <<>> /\ Serving /\ Synced
  BY IdlePlaces DEF Idle
<1>2. scope = "clear" /\ Served
  BY <1>1 DEF Serving
<1>3. Up /\ NvsOK /\ SettingsOK /\ metadata # Absent /\ Shown /\ Loaded
  BY <1>2 DEF Served, Up
<1>4. mirror \in chosen /\ Catalogued
  BY <1>2, <1>3, UpHeld DEF Uncatalogued
<1>5. QED
  BY <1>1, <1>2, <1>3, <1>4 DEF Loaded

\* The catalogue with one more slot.
LEMMA AppendFacts ==
  ASSUME NEW s \in Seq(Slot), NEW v \in Slot
  PROVE  /\ Append(s, v) \in Seq(Slot) /\ Len(Append(s, v)) = Len(s) + 1 /\ Len(s) \in Nat
         /\ DOMAIN s = 1 .. Len(s) /\ DOMAIN Append(s, v) = 1 .. (Len(s) + 1)
         /\ \A j \in DOMAIN s : j \in DOMAIN Append(s, v) /\ Append(s, v)[j] = s[j]
         /\ Append(s, v)[Len(s) + 1] = v
         /\ \A j \in DOMAIN Append(s, v) : j \in DOMAIN s \/ j = Len(s) + 1
         /\ Hashes(Append(s, v)) = Hashes(s) \cup {v.hash}
<1> DEFINE c == Append(s, v)
<1>1. /\ c \in Seq(Slot) /\ Len(c) = Len(s) + 1 /\ Len(s) \in Nat
      /\ DOMAIN s = 1 .. Len(s) /\ DOMAIN c = 1 .. (Len(s) + 1)
      /\ c[Len(s) + 1] = v
  OBVIOUS
<1>2. \A j \in DOMAIN s : c[j] = s[j]
  OBVIOUS
<1> HIDE DEF c
<1>3. \A j \in DOMAIN s : j \in DOMAIN c
  BY <1>1
<1>4. \A j \in DOMAIN c : j \in DOMAIN s \/ j = Len(s) + 1
  BY <1>1
<1>5. Hashes(c) = Hashes(s) \cup {v.hash}
  <2>1. Len(s) + 1 \in DOMAIN c
    BY <1>1
  <2>2. Hashes(c) \subseteq Hashes(s) \cup {v.hash}
    BY <1>1, <1>2, <1>4 DEF Hashes
  <2>3. Hashes(s) \cup {v.hash} \subseteq Hashes(c)
    BY <1>1, <1>2, <1>3, <2>1 DEF Hashes
  <2>4. QED
    BY <2>2, <2>3
<1>6. QED
  BY <1>1, <1>2, <1>3, <1>4, <1>5 DEF c

LEMMA AddKeeps ==
  ASSUME IInv, NEW h \in Identities, AddIdentity(h)
  PROVE  IInv'
<1> USE DEF AddIdentity
<1>1. Typed /\ Loadable /\ DiskInv /\ Stage
  BY DEF IInv
<1>2. /\ phase = "running" /\ todo = <<>> /\ scope = "clear" /\ Serving /\ Served /\ Synced
      /\ Up /\ NvsOK /\ SettingsOK /\ metadata # Absent /\ Shown /\ Loaded
      /\ mirror \in chosen /\ Catalogued /\ mirror \in Hashes(slots)
  BY <1>1, IdleFacts
<1>3. Loadable' /\ SettingsOK'
  BY <1>1, <1>2, LoadFrame, SettingsFrame
<1>4. CASE Fail /\ UNCHANGED <<keyFile, slots, made, nameOf>>
  <2>1. todo' = <<>> /\ phase' = "running" /\ faulty' = TRUE
    BY <1>2, <1>4 DEF Fail, GivenUp
  <2>2. Typed' /\ DiskInv'
    BY <1>1, <1>4, <2>1, TypedFrame, DiskFrame DEF Typed
  <2>3. Synced' /\ NvsOK'
    BY <1>2, <1>4 DEF Synced, NvsOK
  <2>4. Served'
    BY <1>2, <1>4, <2>3, ServedFrame
  <2>5. QED
    BY <1>2, <1>3, <2>1, <2>2, <2>3, <2>4 DEF IInv, Stage, Serving
<1>5. CASE /\ keyFile' = [keyFile EXCEPT ![Least(FreeFiles)] = h]
           /\ slots' = Append(slots, NewSlot(h, Least(FreeFiles), FALSE))
           /\ made' = made \cup {h} /\ nameOf' = [nameOf EXCEPT ![h] = Unnamed]
           /\ todo' = <<"meta", "tryNvs">>
           /\ UNCHANGED <<phase, faulty>>
  <2> DEFINE n == Least(FreeFiles)
             v == NewSlot(h, n, FALSE)
             k == Len(slots) + 1
  <2>1. n \in KeyFiles /\ keyFile[n] = None /\ n \notin Paths(slots)
    BY FreeFacts
  <2> HIDE DEF n
  <2>2. v \in Slot /\ v.hash = h /\ v.path = n /\ v.active = FALSE /\ v.name = Unnamed
    BY <2>1 DEF NewSlot, Slot
  <2> HIDE DEF v
  <2>3. keyFile' = [keyFile EXCEPT ![n] = h] /\ slots' = Append(slots, v)
    BY <1>5 DEF n, v
  <2>4. Listing(slots) /\ slots \in Seq(Slot) /\ Len(slots) < MaxIdentities /\ h \notin Hashes(slots)
    BY <1>1 DEF Typed, Listing
  <2>5. /\ slots' \in Seq(Slot) /\ Len(slots') = k /\ Len(slots) \in Nat
        /\ DOMAIN slots = 1 .. Len(slots) /\ DOMAIN slots' = 1 .. k
        /\ \A j \in DOMAIN slots : j \in DOMAIN slots' /\ slots'[j] = slots[j]
        /\ slots'[k] = v /\ k \notin DOMAIN slots
        /\ \A j \in DOMAIN slots' : j \in DOMAIN slots \/ j = k
        /\ Hashes(slots') = Hashes(slots) \cup {h}
    BY <2>2, <2>3, <2>4, AppendFacts
  <2> HIDE DEF k, AddIdentity
  <2>6. /\ UNCHANGED <<mirror, metadata, privkey, config, card, scope, dirty, nvsPending, settings,
                       subject, load, lost, known, chosen, unmigrated, phase, faulty>>
        /\ made' = made \cup {h} /\ nameOf' = [nameOf EXCEPT ![h] = Unnamed]
        /\ todo' = SSave
    BY <1>5, MaintenanceSequence DEF AddIdentity
  <2>7. h # mirror /\ nameOf'[h] = Unnamed /\ (\A g \in Identities : g # h => nameOf'[g] = nameOf[g])
        /\ nameOf' \in [Identities -> Titles]
    BY <1>1, <1>2, <2>4, <2>6 DEF Typed, Titles
  <2>8. mirror \in Identities /\ nameOf'[mirror] = nameOf[mirror]
    BY <1>1, <1>2, <2>7, UpFacts
  <2>9. /\ keyFile' \in [KeyFiles -> made' \cup {None}] /\ keyFile'[n] = h
        /\ \A m \in KeyFiles : m # n => keyFile'[m] = keyFile[m]
    BY <1>1, <2>1, <2>3, <2>6 DEF Typed
  <2>10. Listing(slots)'
    <3>1. Hashes(slots) \subseteq made /\ MaxIdentities \in Nat
      BY <2>4, Parameters DEF Listing
    <3>2. Len(slots') <= MaxIdentities
      BY <2>4, <2>5, <3>1 DEF k
    <3>3. QED
      BY <2>5, <2>6, <3>1, <3>2 DEF Listing
  <2>11. Typed'
    <3>1. made' \subseteq Identities /\ known' \subseteq made'
      BY <1>1, <2>6 DEF Typed
    <3>2. (metadata # Absent => Listing(metadata))'
      BY <1>1, <2>6 DEF Typed, Listing, Hashes
    <3>3. mirror' \in made' \cup {None} /\ privkey' \in made' \cup {None}
      BY <1>1, <2>6 DEF Typed
    <3>4. QED
      BY <1>1, <2>6, <2>7, <2>9, <2>10, <3>1, <3>2, <3>3 DEF Typed
  <2>12. Unsettled' = Unsettled
    BY <2>6 DEF Unsettled
  <2>13. \A i \in DOMAIN slots : /\ slots[i].hash \in Identities /\ slots[i].hash # h /\ slots[i].hash # None
                                 /\ slots[i].path # n
    <3>1. \A i \in DOMAIN slots : slots[i].hash \in Hashes(slots) /\ slots[i].path \in Paths(slots)
      BY DEF Hashes, Paths
    <3>2. QED
      BY <1>1, <2>1, <2>4, <3>1, ListingFacts
  <2>14. Distinct(slots)'
    BY <1>2, <2>2, <2>5, <2>13 DEF Loaded, Distinct
  <2>15. Homed(slots)'
    <3>1. CASE unmigrated
      BY <2>6, <3>1 DEF Homed
    <3>2. CASE Filed(slots)
      <4>1. \A i \in DOMAIN slots' :
              slots'[i].path \in KeyFiles /\ keyFile'[slots'[i].path] = slots'[i].hash
        BY <2>1, <2>2, <2>5, <2>9, <2>13, <3>2 DEF Filed
      <4>2. \A i, j \in DOMAIN slots' : i # j => slots'[i].path # slots'[j].path
        BY <2>2, <2>5, <2>13, <3>2 DEF Filed
      <4>3. QED
        BY <4>1, <4>2 DEF Homed, Filed
    <3>3. QED
      BY <1>2, <3>1, <3>2 DEF Loaded, Homed
  <2>16. NamedBy(slots)'
    BY <1>2, <2>2, <2>5, <2>6, <2>7, <2>12, <2>13 DEF Loaded, NamedBy
  <2>17. Contained'
    BY <1>2, <2>5, <2>6 DEF Loaded, Contained
  <2>18. Loaded'
    BY <1>2, <2>5, <2>6, <2>14, <2>15, <2>16, <2>17 DEF Loaded
  <2>19. Up'
    <3>1. PICK a \in DOMAIN slots : OnlyActive(slots, a) /\ slots[a].hash = mirror /\ KeyMatches(a)
      BY <1>2 DEF Up
    <3>2. OnlyActive(slots', a) /\ a \in DOMAIN slots' /\ slots'[a].hash = mirror'
      BY <2>2, <2>5, <2>6, <3>1 DEF OnlyActive
    <3>3. slots[a].path # n /\ slots[a].path \in KeyFiles \cup {PathIdentity}
      BY <1>1, <2>13, <3>1, ListingFacts DEF Typed
    <3>4. KeyMatches(a)'
      <4>1. slots'[a].path = slots[a].path /\ slots'[a].hash = slots[a].hash /\ mirror' = mirror
        BY <2>5, <2>6, <3>1
      <4>2. slots[a].path # PathIdentity => keyFile'[slots[a].path] = keyFile[slots[a].path]
        BY <2>9, <3>3
      <4>3. QED
        BY <3>1, <4>1, <4>2 DEF KeyMatches, KeyAt
    <3>5. QED
      BY <2>18, <3>2, <3>4 DEF Up, OnlyActive
  <2>20. \A i \in DOMAIN metadata : metadata[i].hash \in Identities /\ metadata[i].hash # h /\ metadata[i].hash # None
    BY <1>2, <2>13 DEF Loaded, Contained
  <2>21. Homed(metadata) => Homed(metadata)'
    <3>1. SUFFICES ASSUME Filed(metadata), NEW i \in DOMAIN metadata
                   PROVE  metadata[i].path \in KeyFiles /\ keyFile'[metadata[i].path] = metadata[i].hash
      BY <2>6 DEF Homed, Filed
    <3>2. metadata[i].path \in KeyFiles /\ keyFile[metadata[i].path] = metadata[i].hash
      BY <3>1 DEF Filed
    <3>3. metadata[i].path # n
      BY <2>1, <2>20, <3>2
    <3>4. QED
      BY <2>9, <3>2, <3>3
  <2>22. NamedBy(metadata)'
    BY <1>2, <2>6, <2>7, <2>12, <2>20 DEF Catalogued, NamedBy
  <2>23. Catalogued'
    BY <1>2, <2>6, <2>21, <2>22 DEF Catalogued, OneActive, OnlyActive, Distinct, Old, Hashes
  <2>24. DiskInv'
    BY <1>1, <1>2, <2>6, <2>8, <2>12, <2>23 DEF DiskInv, Held
  <2>25. Shown'
    BY <1>2, <2>6, <2>8 DEF Shown, Effective, Bound
  <2>26. NvsOK'
    BY <1>2, <2>6 DEF NvsOK
  <2>27. Served'
    BY <1>2, <1>3, <2>6, <2>19, <2>25, <2>26 DEF Served
  <2>28. QED
    BY <1>2, <1>3, <2>6, <2>11, <2>24, <2>27 DEF IInv, Stage, Serving
<1>6. QED
  BY <1>4, <1>5

LEMMA CreateKeeps == ASSUME IInv, CreateIdentity PROVE IInv'
BY AddKeeps DEF CreateIdentity, Fresh

LEMMA ImportingKeeps == ASSUME IInv, ImportIdentity PROVE IInv'
BY AddKeeps DEF ImportIdentity

LEMMA ApplyKeeps ==
  ASSUME IInv, NEW name \in Names \cup {Unnamed}, ApplySettings(name)
  PROVE  IInv'
<1> USE DEF ApplySettings
<1>1. Typed /\ Loadable /\ DiskInv /\ Stage
  BY DEF IInv
<1>2. /\ phase = "running" /\ todo = <<>> /\ scope = "clear" /\ Serving /\ Served /\ Synced
      /\ Up /\ NvsOK /\ SettingsOK /\ metadata # Absent /\ Shown /\ Loaded
      /\ mirror \in chosen /\ Catalogued /\ mirror \in Hashes(slots)
  BY <1>1, IdleFacts
<1>3. Loadable'
  BY <1>1, LoadFrame
<1>4. /\ Active \in DOMAIN slots /\ slots[Active].hash = mirror /\ Running = mirror
      /\ mirror \in Keys /\ mirror \in Identities /\ name \in Titles
  BY <1>1, <1>2, UpFacts DEF Keys, Titles
<1>5. ~Unsettled /\ ~settings.pending
  BY <1>2 DEF SettingsOK
<1>6. slots[Active].name = nameOf[mirror]
  BY <1>4, <1>5, <1>2 DEF Loaded, NamedBy
<1>7. CASE Fail /\ UNCHANGED <<config, settings, nameOf>>
  <2>1. todo' = <<>> /\ phase' = "running" /\ faulty' = TRUE
    BY <1>2, <1>7 DEF Fail, GivenUp
  <2>2. Typed' /\ DiskInv'
    BY <1>1, <1>7, <2>1, TypedFrame, DiskFrame DEF Typed, keys
  <2>3. Synced' /\ NvsOK'
    BY <1>2, <1>7 DEF Synced, NvsOK, keys
  <2>4. Served'
    BY <1>2, <1>7, <2>3, ServedFrame DEF keys
  <2>5. QED
    BY <1>2, <1>3, <2>1, <2>2, <2>3, <2>4 DEF IInv, Stage, Serving
<1>8. CASE /\ config' = Bound(Running, Marked(name), name)
           /\ settings' = IF Marked(name)
                          THEN [settings EXCEPT !.pending = TRUE, !.bound = Running]
                          ELSE Effective(config')
           /\ todo' = IF Marked(name) THEN <<"settleName", "settleConfig">> ELSE <<>>
           /\ nameOf' = [nameOf EXCEPT ![Running] = name]
           /\ UNCHANGED <<phase, faulty>>
  <2> HIDE DEF ApplySettings
  <2>0. UNCHANGED <<keyFile, mirror, metadata, privkey, card, scope, slots, dirty, nvsPending,
                    subject, load, lost, made, known, chosen, unmigrated, phase, faulty>>
    BY <1>8 DEF ApplySettings, keys
  <2>1. /\ nameOf' = [nameOf EXCEPT ![mirror] = name] /\ nameOf' \in [Identities -> Titles]
        /\ nameOf'[mirror] = name /\ \A g \in Identities : g # mirror => nameOf'[g] = nameOf[g]
    BY <1>1, <1>4, <1>8 DEF Typed
  <2>2. Synced' /\ NvsOK'
    BY <1>2, <2>0 DEF Synced, NvsOK
  <2>3. ASSUME config' \in Settings,
               settings' \in [bound : Keys, pending : BOOLEAN, name : Titles, flash : BOOLEAN]
        PROVE  Typed'
    <3>1. Listing(slots)' /\ (metadata # Absent => Listing(metadata))'
      BY <1>1, <2>0 DEF Typed, Listing, Hashes
    <3>2. QED
      BY <1>1, <2>0, <2>1, <2>3, <3>1 DEF Typed
  <2>4. CASE ~Marked(name)
    <3>1. name = nameOf[mirror] /\ nameOf' = nameOf
      BY <1>1, <1>4, <1>6, <2>1, <2>4 DEF Marked, Typed
    <3>2. config' = [bound |-> mirror, pending |-> FALSE, name |-> name]
      <4>1. Marked(name) = FALSE
        BY <2>4 DEF Marked
      <4>2. QED
        BY <1>4, <1>8, <4>1 DEF Bound
    <3>3. settings' = [bound |-> mirror, pending |-> FALSE, name |-> name, flash |-> TRUE]
      <4>1. settings' = Effective(config')
        BY <1>8, <2>4
      <4>2. config'.bound = mirror /\ config'.pending = FALSE /\ config'.name = name
        BY ONLY <3>2
      <4>3. QED
        BY ONLY <4>1, <4>2 DEF Effective
    <3>4. config' \in Settings
      BY ONLY <1>4, <3>2 DEF Settings, Keys, Titles
    <3>5. config' # Absent
      BY <3>4, Missing
    <3>6. settings' \in [bound : Keys, pending : BOOLEAN, name : Titles, flash : BOOLEAN]
      BY ONLY <1>4, <3>3
    <3>7. ~Unsettled' /\ ~settings'.pending
      BY <3>2, <3>3 DEF Unsettled
    <3>8. DiskInv' /\ Up'
      BY <1>1, <1>2, <1>5, <2>0, <3>1, <3>7, ConfigWrites
    <3>9. SettingsOK'
      <4>1. settings' = Effective(config') /\ (Effective(config))' = Effective(config')
        BY <1>8, <2>4 DEF Effective
      <4>2. QED
        BY <3>5, <3>7, <4>1 DEF SettingsOK
    <3>10. Shown'
      <4>1. settings' = Effective(Bound(mirror, FALSE, nameOf[mirror]))
        BY <3>1, <3>3 DEF Effective, Bound
      <4>2. QED
        BY <2>0, <3>1, <4>1 DEF Shown, Effective, Bound
    <3>11. Served'
      BY <1>2, <2>0, <2>2, <3>8, <3>9, <3>10 DEF Served
    <3>12. todo' = <<>> /\ phase' = "running"
      BY <1>2, <1>8, <2>0, <2>4
    <3>13. QED
      BY <1>2, <1>3, <2>0, <2>2, <2>3, <3>4, <3>6, <3>8, <3>11, <3>12 DEF IInv, Stage, Serving
  <2>5. CASE Marked(name)
    <3>1. config' = [bound |-> mirror, pending |-> TRUE, name |-> name]
      <4>1. Marked(name) = TRUE
        BY <2>5 DEF Marked
      <4>2. QED
        BY <1>4, <1>8, <4>1 DEF Bound
    <3>2. /\ settings' \in [bound : Keys, pending : BOOLEAN, name : Titles, flash : BOOLEAN]
          /\ settings'.pending = TRUE
      <4>1. settings' = [settings EXCEPT !.pending = TRUE, !.bound = mirror]
        BY <1>4, <1>8, <2>5
      <4>2. settings \in [bound : Keys, pending : BOOLEAN, name : Titles, flash : BOOLEAN]
        BY <1>1 DEF Typed
      <4>3. QED
        BY ONLY <1>4, <4>1, <4>2
    <3>3. config' \in Settings /\ config'.bound = mirror /\ config'.name = name /\ config'.pending = TRUE
      BY ONLY <1>4, <3>1 DEF Settings, Keys, Titles
    <3>4. config' # Absent /\ Unsettled'
      BY <3>3, Missing DEF Unsettled
    <3>5. /\ \A i \in DOMAIN slots : slots[i].hash \in Identities
          /\ \A i \in DOMAIN metadata : metadata[i].hash \in Identities
      BY <1>1, <1>2, ListingFacts DEF Typed
    <3>6. NamedBy(slots)' /\ NamedBy(metadata)'
      BY <1>2, <1>5, <2>0, <2>1, <3>4, <3>5 DEF Loaded, Catalogued, NamedBy
    <3>7. Up'
      BY <1>2, <2>0, <3>6 DEF Up, Loaded, OnlyActive, Distinct, Homed, Filed, Contained, Hashes, KeyMatches, KeyAt
    <3>8. Catalogued'
      BY <1>2, <2>0, <3>6 DEF Catalogued, OneActive, OnlyActive, Distinct, Homed, Filed, Old, Hashes
    <3>9. DiskInv'
      BY <1>2, <2>0, <2>1, <3>3, <3>8 DEF DiskInv, Held
    <3>10. SettingsOK' /\ Shown'
      BY <3>2, <3>4 DEF SettingsOK, Shown
    <3>11. Served'
      BY <1>2, <2>0, <2>2, <3>7, <3>10 DEF Served
    <3>12. todo' = SettleN(<<>>) /\ phase' = "running"
      BY <1>2, <1>8, <2>0, <2>5, MaintenanceSequence
    <3>13. QED
      BY <1>2, <1>3, <2>0, <2>2, <2>3, <3>2, <3>3, <3>9, <3>11, <3>12 DEF IInv, Stage, Serving
  <2>6. QED
    BY <2>4, <2>5
<1>9. QED
  BY <1>7, <1>8

LEMMA RetryKeeps == ASSUME IInv, Retry PROVE IInv'
<1> USE DEF Retry
<1>1. Typed /\ Loadable /\ DiskInv /\ Stage
  BY DEF IInv
<1>2. phase = "running" /\ scope = "clear" /\ Serving /\ Served /\ Synced /\ NvsOK
  BY <1>1, IdleFacts
<1>3. Typed' /\ DiskInv' /\ Loadable'
  BY <1>1, TypedFrame, DiskFrame, LoadFrame DEF Typed, disk, keys, memory, history
<1>4. Served' /\ Synced'
  <2>1. NvsOK' /\ Synced'
    BY <1>2 DEF NvsOK, Synced, disk, keys, memory
  <2>2. QED
    BY <1>2, <2>1, ServedFrame DEF disk, keys, memory, history
<1>5. todo' = FlushM(<<>>) \/ (todo' = SAgain /\ settings'.pending)
  BY MaintenanceSequence DEF RetryRecover, RetryFlush, memory
<1>6. QED
  BY <1>2, <1>3, <1>4, <1>5 DEF IInv, Stage, Serving, disk

LEMMA BackUpKeeps == ASSUME IInv, BackUpSettings PROVE IInv'
<1> USE DEF BackUpSettings
<1>1. Typed /\ Loadable /\ DiskInv /\ Stage
  BY DEF IInv
<1>2. phase = "running" /\ todo = <<>> /\ scope = "clear" /\ Serving /\ Served /\ Synced /\ NvsOK
  BY <1>1, IdleFacts
<1>3. DiskInv' /\ Loadable'
  BY <1>1, DiskFrame, LoadFrame DEF keys, history
<1>4. Typed'
  <2>1. card' \in Copies
    <3>1. settings.bound \in Identities \cup {None} /\ settings.name \in Names \cup {Unnamed}
      BY <1>1 DEF Typed, Keys, Titles
    <3>2. card' = [bound |-> settings.bound, name |-> settings.name]
      OBVIOUS
    <3>3. QED
      BY ONLY <3>1, <3>2 DEF Copies
  <2> HIDE DEF BackUpSettings
  <2>2. UNCHANGED <<keys, config, scope, memory, control, subject, load, lost, history>>
    BY DEF BackUpSettings
  <2>3. QED
    BY <1>1, <2>1, <2>2 DEF Typed, Listing, Hashes, keys, memory, control, history
<1>5. Served' /\ Synced'
  <2>1. NvsOK' /\ Synced'
    BY <1>2 DEF NvsOK, Synced, keys, memory
  <2>2. QED
    BY <1>2, <2>1, ServedFrame DEF keys, memory, history
<1>6. QED
  BY <1>2, <1>3, <1>4, <1>5 DEF IInv, Stage, Serving, control

LEMMA MaintenanceKeeps ==
  ASSUME IInv, NEW steps, NEW h \in Keys, Maintenance(steps, h),
         NEW t \in {SStop, SSwitch, SScope}, t = SSwitch => h \in Hashes(slots),
         <<"flushMeta", "flushNvs">> \o steps \o <<"stop">> = FlushM(t)
  PROVE  IInv'
<1> USE DEF Maintenance
<1>1. Typed /\ Loadable /\ DiskInv /\ Stage
  BY DEF IInv
<1>2. phase = "running" /\ todo = <<>> /\ scope = "clear" /\ Serving /\ Served /\ Synced /\ NvsOK
  BY <1>1, IdleFacts
<1>3. DiskInv' /\ Loadable'
  BY <1>1, DiskFrame, LoadFrame DEF disk, keys, history
<1>4. subject' \in [key : Keys, path : KeyFiles] /\ subject'.key = h
  <2>1. subject' = [key |-> h, path |-> 0]
    BY DEF NoSubject
  <2>2. 0 \in KeyFiles
    BY Parameters
  <2>3. QED
    BY ONLY <2>1, <2>2, h \in Keys
<1>5. Typed'
  <2>1. phase' \in {"maintenance", "stopped"}
    OBVIOUS
  <2>2. UNCHANGED <<disk, memory, faulty, history>>
    OBVIOUS
  <2> HIDE DEF Maintenance
  <2>3. QED
    BY <1>1, <1>4, <2>1, <2>2 DEF Typed, Listing, Hashes, disk, keys, memory, history
<1>6. Served' /\ Synced'
  <2>1. NvsOK' /\ Synced'
    BY <1>2 DEF NvsOK, Synced, disk, keys, memory
  <2>2. QED
    BY <1>2, <2>1, ServedFrame DEF disk, keys, memory, history
<1>7. CASE ~MayMaintain
  <2>1. Stage'
    BY <1>7, StoppedPlaces
  <2>2. QED
    BY <1>3, <1>5, <2>1 DEF IInv
<1>8. CASE MayMaintain
  <2>1. phase' = "maintenance" /\ todo' = FlushM(t) /\ ~settings'.pending
    BY <1>8 DEF MayMaintain, memory
  <2>2. t = SSwitch => (subject.key \in Hashes(slots))'
    BY <1>4 DEF Hashes, memory
  <2>3. Flushing'
    BY <1>6, <2>1, <2>2 DEF Flushing
  <2>4. QED
    BY <1>2, <1>3, <1>5, <2>1, <2>3 DEF IInv, Stage, Maintained, disk
<1>9. QED
  BY <1>7, <1>8

\* The three operations of the maintenance.
LEMMA RequestsKeep == ASSUME IInv, SwitchIdentity \/ RequestReset \/ RequestRestart PROVE IInv'
<1>1. CASE SwitchIdentity
  <2>1. PICK h \in Hashes(slots) : Maintenance(<<"switch">>, h)
    BY <1>1 DEF SwitchIdentity
  <2>2. h \in Keys
    BY <2>1 DEF IInv, Typed, Listing, Keys
  <2>3. QED
    BY <2>1, <2>2, MaintenanceKeeps, MaintenanceSequence
<1>2. None \in Keys
  BY DEF Keys
<1>3. SStop # SSwitch /\ SScope # SSwitch
  BY Beginnings DEF ServiceBegins, Begins
<1>4. CASE RequestReset
  BY <1>2, <1>3, <1>4, MaintenanceKeeps, MaintenanceSequence DEF RequestReset
<1>5. CASE RequestRestart
  BY <1>2, <1>3, <1>5, MaintenanceKeeps, MaintenanceSequence DEF RequestRestart
<1>6. QED
  BY <1>1, <1>4, <1>5

\* PATH_IDENTITY and the catalogue name another identity.
LEMMA SwitchKeeps == ASSUME IInv, SwitchTo PROVE IInv'
<1> USE DEF SwitchTo
<1>1. Typed /\ Loadable /\ DiskInv /\ Stage
  BY DEF IInv
<1>2. Maintained /\ Served /\ Stored /\ subject.key \in Hashes(slots) /\ todo = SSwitch
  BY <1>1, OtherPlaces DEF At
<1>3. /\ phase = "maintenance" /\ scope = "clear" /\ ~settings.pending /\ SettingsOK /\ Up /\ NvsOK
      /\ metadata # Absent /\ metadata = slots /\ ~dirty /\ Loaded /\ Synced
  BY <1>1, <1>2, StoredFacts DEF Maintained, Served, Up
<1>4. Loadable' /\ SettingsOK' /\ ~Unsettled /\ Unsettled' = Unsettled
  BY <1>1, <1>3, LoadFrame, SettingsFrame DEF SettingsOK, Unsettled
<1>5. Listing(slots) /\ slots \in Seq(Slot) /\ Distinct(slots)
  BY <1>1, <1>3 DEF Typed, Listing, Loaded
<1>6. PICK i \in DOMAIN slots : slots[i].hash = subject.key
  BY <1>2 DEF Hashes
<1>7. IndexOf(slots, subject.key) = i
  BY <1>5, <1>6, IndexIs
<1>8. /\ Insert(<<"nvs", "recover">>) => todo' = SNvsM
      /\ Insert(<<"meta", "nvs", "recover">>) => todo' = SMetaM
  BY <1>2, Insertions DEF Insert
<1>9. CASE i = Active /\ Insert(<<"nvs", "recover">>) /\ UNCHANGED <<mirror, slots, chosen>>
  <2>1. phase' = phase /\ faulty' = faulty
    BY <1>9 DEF Insert
  <2>2. Typed' /\ DiskInv'
    BY <1>1, <1>9, <2>1, TypedFrame, DiskFrame DEF Typed
  <2>3. Up' /\ Stored'
    BY <1>2, <1>3, <1>9, UpFrame DEF Stored
  <2>4. QED
    BY <1>3, <1>4, <1>8, <1>9, <2>1, <2>2, <2>3 DEF IInv, Stage, Maintained, Switching
<1>10. CASE i # Active /\ (Refuse \/ Fail) /\ UNCHANGED <<mirror, slots, chosen>>
  <2>1. phase' = "stopped" /\ todo' = <<>> /\ faulty' \in BOOLEAN
    BY <1>1, <1>3, <1>10 DEF Refuse, Fail, GivenUp, Typed
  <2>2. Typed' /\ DiskInv'
    BY <1>1, <1>10, <2>1, TypedFrame, DiskFrame DEF Typed
  <2>3. Stage'
    BY <2>1, StoppedPlaces
  <2>4. QED
    BY <1>4, <2>2, <2>3 DEF IInv
<1>11. CASE /\ KeyMatches(i)
            /\ mirror' = subject.key /\ slots' = Activate(slots, i)
            /\ chosen' = {subject.key}
            /\ Insert(<<"meta", "nvs", "recover">>)
  <2> HIDE DEF SwitchTo
  <2>0. /\ UNCHANGED <<keyFile, metadata, privkey, config, card, scope, dirty, nvsPending, settings,
                       subject, load, lost, made, known, nameOf, unmigrated, phase, faulty>>
        /\ todo' = SMetaM
    BY <1>8, <1>11 DEF SwitchTo, Insert
  <2>1. /\ slots' \in Seq(Slot) /\ Len(slots') = Len(slots) /\ DOMAIN slots' = DOMAIN slots
        /\ \A j \in DOMAIN slots : /\ slots'[j].hash = slots[j].hash /\ slots'[j].path = slots[j].path
                                   /\ slots'[j].name = slots[j].name
        /\ Hashes(slots') = Hashes(slots) /\ OnlyActive(slots', i)
    BY <1>5, <1>6, <1>11, ActivateFacts
  <2>2. Listing(slots)'
    BY <1>5, <2>0, <2>1 DEF Listing
  <2>3. mirror' \in made' /\ mirror' \in chosen' /\ chosen' \subseteq Identities /\ mirror' \in Hashes(slots)
    <3>1. subject.key \in made
      BY <1>2, <1>5 DEF Listing
    <3>2. QED
      BY <1>1, <1>2, <1>11, <2>0, <3>1 DEF Typed
  <2>4. Typed'
    <3>1. (metadata # Absent => Listing(metadata))'
      BY <1>1, <2>0 DEF Typed, Listing, Hashes
    <3>2. QED
      BY <1>1, <2>0, <2>2, <2>3, <3>1 DEF Typed
  <2>5. \A j \in DOMAIN slots : slots[j].name = nameOf[slots[j].hash]
    BY <1>3, <1>4 DEF Loaded, NamedBy
  <2>6. Loaded'
    BY <1>3, <2>0, <2>1, <2>3, <2>5 DEF Loaded, Distinct, Homed, Filed, NamedBy, Contained, Hashes
  <2>7. Up'
    <3>1. KeyMatches(i)'
      BY <1>6, <1>11, <2>0, <2>1 DEF KeyMatches, KeyAt
    <3>2. QED
      BY <1>6, <1>11, <2>1, <2>6, <3>1 DEF Up, OnlyActive
  <2>8. Catalogued'
    <3>1. Catalogued
      BY <1>1, <1>3, UpHeld DEF Uncatalogued
    <3>2. Homed(metadata)' /\ NamedBy(metadata)'
      BY <1>3, <2>0, <2>5 DEF Loaded, Homed, Filed, NamedBy
    <3>3. QED
      BY <1>3, <2>0, <2>3, <3>1, <3>2 DEF Catalogued, OneActive, OnlyActive, Distinct, Hashes
  <2>9. DiskInv'
    BY <1>4, <2>3, <2>8 DEF DiskInv, Held
  <2>10. QED
    BY <1>3, <1>4, <2>0, <2>4, <2>7, <2>9 DEF IInv, Stage, Maintained, Switching
<1>12. QED
  BY <1>7, <1>9, <1>10, <1>11

\* What comes after the operation is a restart.
LEMMA StopKeeps == ASSUME IInv, Stop PROVE IInv'
<1> USE DEF Stop
<1>1. Typed /\ Loadable /\ DiskInv /\ Stage
  BY DEF IInv
<1>2. Typed' /\ DiskInv' /\ Loadable'
  BY <1>1, TypedFrame, DiskFrame, LoadFrame DEF Typed, disk, keys, memory, history
<1>3. Stage'
  BY StoppedPlaces
<1>4. QED
  BY <1>2, <1>3 DEF IInv

-----------------------------------------------------------------------------
(* The factory reset, and the loss of power.                               *)

\* While the scope is set the files may be as they are.
LEMMA ResetFrame ==
  ASSUME Typed, Loadable,
         keyFile' \in [KeyFiles -> made \cup {None}],
         mirror' \in {mirror, None}, privkey' \in {privkey, None}, metadata' \in {metadata, Absent},
         config' \in {config, Absent}, card' \in {card, Absent},
         scope' \in {"torn", "device", "everything"}, faulty' \in BOOLEAN,
         phase' \in {"maintenance", "stopped", "recovery"},
         UNCHANGED <<slots, dirty, nvsPending, settings, subject, load, lost, made, known, nameOf, chosen, unmigrated>>
  PROVE  Typed' /\ Loadable' /\ DiskInv'
<1>1. Listing(slots)' /\ (metadata # Absent => Listing(metadata))'
  BY DEF Typed, Listing, Hashes
<1>2. Typed'
  BY <1>1 DEF Typed
<1>3. Loadable' /\ DiskInv'
  BY LoadFrame DEF DiskInv
<1>4. QED
  BY <1>2, <1>3

LEMMA ResetPlaces ==
  ASSUME Resetting
  PROVE  phase \in {"maintenance", "recovery"} /\ (GivenUp => todo' = <<>> /\ phase' \in {"stopped", "recovery"})
BY DEF Resetting, GivenUp

LEMMA PrepareKeeps == ASSUME IInv, PrepareReset PROVE IInv'
<1> USE DEF PrepareReset
<1>1. Typed /\ Loadable /\ DiskInv /\ Stage
  BY DEF IInv
<1>2. Resetting /\ todo = SScope /\ Tail(SScope) = SCard /\ phase \in {"maintenance", "recovery"}
  BY <1>1, OtherPlaces, Continuations, ResetPlaces DEF At, ServiceTails
<1>3. CASE Fail /\ UNCHANGED scope
  <2>1. todo' = <<>> /\ phase' \in {"stopped", "recovery"} /\ faulty' = TRUE
    BY <1>2, <1>3, ResetPlaces DEF Fail
  <2>2. Typed' /\ DiskInv' /\ Loadable'
    BY <1>1, <1>3, <2>1, TypedFrame, DiskFrame, LoadFrame DEF Typed, keys, memory, history
  <2>3. QED
    BY <2>1, <2>2, StoppedPlaces DEF IInv
<1>4. CASE Proceed /\ scope' \in {"device", "everything"}
  <2>1. todo' = SCard /\ phase' = phase /\ faulty' = faulty
    BY <1>2, <1>4 DEF Proceed
  <2>2. Typed' /\ DiskInv' /\ Loadable'
    BY <1>1, <1>2, <1>4, <2>1, ResetFrame DEF Typed, keys, memory, history
  <2>3. ScopeKnown'
    BY <1>4 DEF ScopeKnown
  <2>4. QED
    BY <1>2, <2>1, <2>2, <2>3 DEF IInv, Stage, Resetting
<1>5. QED
  BY <1>3, <1>4 DEF ScopeKnown

LEMMA WipeCardKeeps == ASSUME IInv, WipeCard PROVE IInv'
<1> USE DEF WipeCard
<1>1. Typed /\ Loadable /\ DiskInv /\ Stage
  BY DEF IInv
<1>2. /\ Resetting /\ ScopeKnown /\ todo = SCard /\ Tail(SCard) = SErase
      /\ phase \in {"maintenance", "recovery"}
  BY <1>1, OtherPlaces, Continuations, ResetPlaces DEF At, ServiceTails
<1>3. scope' \in {"torn", "device", "everything"} /\ scope' = scope /\ ScopeKnown'
  BY <1>2 DEF ScopeKnown
<1>4. CASE Fail /\ card' \in {card, Absent}
  <2>1. todo' = <<>> /\ phase' \in {"stopped", "recovery"} /\ faulty' = TRUE
    BY <1>2, <1>4, ResetPlaces DEF Fail
  <2>2. Typed' /\ DiskInv' /\ Loadable'
    BY <1>1, <1>3, <1>4, <2>1, ResetFrame DEF Typed, keys, memory, history
  <2>3. QED
    BY <2>1, <2>2, StoppedPlaces DEF IInv
<1>5. CASE Proceed /\ card' \in {card, Absent}
  <2>1. todo' = SErase /\ phase' = phase /\ faulty' = faulty
    BY <1>2, <1>5 DEF Proceed
  <2>2. Typed' /\ DiskInv' /\ Loadable'
    BY <1>1, <1>2, <1>3, <1>5, <2>1, ResetFrame DEF Typed, keys, memory, history
  <2>3. QED
    BY <1>2, <1>3, <2>1, <2>2 DEF IInv, Stage, Resetting
<1>6. QED
  BY <1>4, <1>5

LEMMA EraseKeeps == ASSUME IInv, EraseNvs PROVE IInv'
<1> USE DEF EraseNvs
<1>1. Typed /\ Loadable /\ DiskInv /\ Stage
  BY DEF IInv
<1>2. /\ Resetting /\ ScopeKnown /\ todo = SErase /\ Tail(SErase) = SWipe
      /\ phase \in {"maintenance", "recovery"}
  BY <1>1, OtherPlaces, Continuations, ResetPlaces DEF At, ServiceTails
<1>3. scope' \in {"torn", "device", "everything"} /\ scope' = scope /\ ScopeKnown'
  BY <1>2 DEF ScopeKnown
<1>4. CASE Fail /\ privkey' \in {privkey, None}
  <2>1. todo' = <<>> /\ phase' \in {"stopped", "recovery"} /\ faulty' = TRUE
    BY <1>2, <1>4, ResetPlaces DEF Fail
  <2>2. Typed' /\ DiskInv' /\ Loadable'
    BY <1>1, <1>3, <1>4, <2>1, ResetFrame DEF Typed, memory, history
  <2>3. QED
    BY <2>1, <2>2, StoppedPlaces DEF IInv
<1>5. CASE Proceed /\ privkey' = None
  <2>1. todo' = SWipe /\ phase' = phase /\ faulty' = faulty
    BY <1>2, <1>5 DEF Proceed
  <2>2. Typed' /\ DiskInv' /\ Loadable'
    BY <1>1, <1>2, <1>3, <1>5, <2>1, ResetFrame DEF Typed, memory, history
  <2>3. QED
    BY <1>2, <1>3, <1>5, <2>1, <2>2 DEF IInv, Stage, Resetting
<1>6. QED
  BY <1>4, <1>5

LEMMA WipeKeeps == ASSUME IInv, WipeForReset PROVE IInv'
<1> USE DEF WipeForReset
<1>1. Typed /\ Loadable /\ DiskInv /\ Stage
  BY DEF IInv
<1>2. /\ Resetting /\ ScopeKnown /\ todo = SWipe /\ Tail(SWipe) = SFinish /\ privkey = None
      /\ phase \in {"maintenance", "recovery"}
  BY <1>1, OtherPlaces, Continuations, ResetPlaces DEF At, ServiceTails
<1>3. scope' \in {"torn", "device", "everything"} /\ scope' = scope /\ ScopeKnown' /\ privkey' = None
  BY <1>2 DEF ScopeKnown
<1>4. CASE RemoveFile /\ UNCHANGED control
  <2>1. /\ mirror' \in {mirror, None} /\ metadata' \in {metadata, Absent} /\ config' \in {config, Absent}
        /\ keyFile' = keyFile \/ \E n \in KeyFiles : keyFile' = [keyFile EXCEPT ![n] = None]
    BY <1>4 DEF RemoveFile
  <2>2. keyFile' \in [KeyFiles -> made \cup {None}]
    BY <1>1, <2>1 DEF Typed
  <2>3. todo' = SWipe /\ phase' = phase /\ faulty' = faulty
    BY <1>2, <1>4 DEF control
  <2>4. Typed' /\ DiskInv' /\ Loadable'
    BY <1>1, <1>2, <1>3, <2>1, <2>2, <2>3, ResetFrame DEF Typed, memory, history
  <2>5. QED
    BY <1>2, <1>3, <2>3, <2>4 DEF IInv, Stage, Resetting
<1>5. CASE Wiped /\ Proceed /\ UNCHANGED <<keyFile, mirror, metadata, config>>
  <2>1. todo' = SFinish /\ phase' = phase /\ faulty' = faulty
    BY <1>2, <1>5 DEF Proceed
  <2>2. Typed' /\ DiskInv' /\ Loadable'
    BY <1>1, <1>2, <1>3, <1>5, <2>1, ResetFrame DEF Typed, memory, history
  <2>3. Wiped'
    BY <1>5 DEF Wiped
  <2>4. QED
    BY <1>2, <1>3, <2>1, <2>2, <2>3 DEF IInv, Stage, Resetting
<1>6. CASE Fail /\ UNCHANGED <<keyFile, mirror, metadata, config>>
  <2>1. todo' = <<>> /\ phase' \in {"stopped", "recovery"} /\ faulty' = TRUE
    BY <1>2, <1>6, ResetPlaces DEF Fail
  <2>2. Typed' /\ DiskInv' /\ Loadable'
    BY <1>1, <1>3, <1>6, <2>1, ResetFrame DEF Typed, memory, history
  <2>3. QED
    BY <2>1, <2>2, StoppedPlaces DEF IInv
<1>7. QED
  BY <1>4, <1>5, <1>6

\* The scope goes when nothing is left that was used before.
LEMMA CompleteKeeps == ASSUME IInv, CompleteReset PROVE IInv'
<1> USE DEF CompleteReset
<1>1. Typed /\ Loadable /\ DiskInv /\ Stage
  BY DEF IInv
<1>2. /\ Resetting /\ ScopeKnown /\ todo = SFinish /\ Tail(SFinish) = SStop /\ privkey = None /\ Wiped
      /\ phase \in {"maintenance", "recovery"}
  BY <1>1, OtherPlaces, Continuations, ResetPlaces DEF At, ServiceTails
<1>3. CASE Fail /\ UNCHANGED <<scope, known, chosen, nameOf, unmigrated>>
  <2>1. todo' = <<>> /\ phase' \in {"stopped", "recovery"} /\ faulty' = TRUE
    BY <1>2, <1>3, ResetPlaces DEF Fail
  <2>2. scope' \in {"torn", "device", "everything"}
    BY <1>2, <1>3 DEF ScopeKnown
  <2>3. Typed' /\ DiskInv' /\ Loadable'
    BY <1>1, <1>3, <2>1, <2>2, ResetFrame DEF Typed, keys, memory
  <2>4. QED
    BY <2>1, <2>3, StoppedPlaces DEF IInv
<1>4. CASE /\ scope' = "clear" /\ Proceed
           /\ known' = {} /\ chosen' = Fresh
           /\ nameOf' = [h \in Identities |-> Unnamed] /\ unmigrated' = FALSE
  <2> HIDE DEF CompleteReset
  <2>0. UNCHANGED <<keyFile, mirror, metadata, privkey, config, card, slots, dirty, nvsPending, settings,
                    subject, load, lost, made>>
    BY DEF CompleteReset, keys, memory
  <2>1. todo' = SStop /\ phase' = phase /\ faulty' = faulty
    BY <1>2, <1>4 DEF Proceed
  <2>2. Listing(slots)' /\ (metadata # Absent => Listing(metadata))'
    BY <1>1, <2>0 DEF Typed, Listing, Hashes
  <2>3. nameOf' \in [Identities -> Titles] /\ known' \subseteq made' /\ chosen' \subseteq Identities
    BY <1>4 DEF Fresh, Titles
  <2>4. Typed'
    BY <1>1, <1>4, <2>0, <2>1, <2>2, <2>3 DEF Typed
  <2>5. Loadable'
    BY <1>1, <2>0, LoadFrame
  <2>6. Blank' /\ ~Unsettled'
    BY <1>2, <1>4, <2>0 DEF Blank, Wiped, Fresh, Unsettled
  <2>7. DiskInv'
    BY <2>6 DEF DiskInv, Held
  <2>8. QED
    BY <1>2, <2>1, <2>4, <2>5, <2>7 DEF IInv, Stage, Resetting
<1>5. QED
  BY <1>3, <1>4

LEMMA ConfirmKeeps == ASSUME IInv, ConfirmReset PROVE IInv'
<1> USE DEF ConfirmReset
<1>1. Typed /\ Loadable /\ DiskInv /\ Stage
  BY DEF IInv
<1>2. Typed' /\ DiskInv' /\ Loadable'
  BY <1>1, TypedFrame, DiskFrame, LoadFrame DEF Typed, disk, keys, memory, history
<1>3. todo' = SScope /\ phase' = "recovery"
  BY MaintenanceSequence
<1>4. QED
  BY <1>2, <1>3 DEF IInv, Stage, Resetting

\* What is in memory is gone; the files are as they were.
LEMMA PowerLossKeeps == ASSUME IInv, PowerLoss PROVE IInv'
<1> USE DEF PowerLoss
<1>1. Typed /\ Loadable /\ DiskInv /\ Stage
  BY DEF IInv
<1>2. scope' \in {scope, "torn"}
  OBVIOUS
<1>3. DiskInv'
  <2>1. CASE scope' = scope
    BY <1>1, <2>1, DiskFrame DEF keys, history
  <2>2. CASE scope' # scope
    BY <1>2, <2>2 DEF DiskInv
  <2>3. QED
    BY <2>1, <2>2
<1>4. Loadable'
  BY <1>1, LoadFrame
<1>5. Typed'
  <2>1. Listing(slots)'
    BY Parameters DEF Listing, Hashes
  <2>2. (metadata # Absent => Listing(metadata))'
    BY <1>1 DEF Typed, Listing, Hashes, keys, history
  <2>3. settings' \in [bound : Keys, pending : BOOLEAN, name : Titles, flash : BOOLEAN]
    <3>1. settings' = [bound |-> None, pending |-> FALSE, name |-> Unnamed, flash |-> FALSE]
      BY DEF DefaultSettings
    <3>2. None \in Keys /\ Unnamed \in Titles
      BY DEF Keys, Titles
    <3>3. QED
      BY ONLY <3>1, <3>2
  <2>4. subject' \in [key : Keys, path : KeyFiles]
    <3>1. subject' = [key |-> None, path |-> 0]
      BY DEF NoSubject
    <3>2. None \in Keys /\ 0 \in KeyFiles
      BY Parameters DEF Keys
    <3>3. QED
      BY ONLY <3>1, <3>2
  <2>5. scope' \in {"clear", "torn", "device", "everything"}
    BY <1>1, <1>2 DEF Typed
  <2>6. /\ UNCHANGED <<keyFile, mirror, metadata, privkey, config, card, made, known, nameOf, chosen, unmigrated>>
        /\ dirty' = FALSE /\ nvsPending' = FALSE /\ faulty' = FALSE /\ phase' = "off"
    BY DEF keys, history
  <2> HIDE DEF PowerLoss
  <2>7. QED
    BY <1>1, <2>1, <2>2, <2>3, <2>4, <2>5, <2>6 DEF Typed
<1>6. Stage'
  BY DEF Stage, Resting
<1>7. QED
  BY <1>3, <1>4, <1>5, <1>6 DEF IInv

\* The NVS may lose its copy of the key; the settings file its settings, of which the catalogue then tells
\* the names.
LEMMA LossKeeps == ASSUME IInv, NEW f \in Files, FileLost(f) PROVE IInv'
<1>1. Typed /\ Loadable /\ DiskInv /\ Stage
  BY DEF IInv
<1>2. /\ phase = "off" /\ scope = "clear" /\ f \in {"nvs", "config"} /\ lost' = lost \cup {f}
      /\ f \in load.losable
      /\ UNCHANGED <<keyFile, mirror, metadata, card, scope, slots, dirty, nvsPending, settings, phase, todo,
                     faulty, subject, load, made, known, chosen, unmigrated>>
  BY <1>1 DEF FileLost, Loadable, Healthy, memory, control
<1>3. todo = <<>> /\ ~dirty /\ ~nvsPending /\ Held
  BY <1>1, <1>2 DEF Stage, Booting, Serving, Maintained, Resetting, Resting, DiskInv
<1>4. Stage'
  BY <1>2, <1>3 DEF Stage, Resting
<1>5. Loadable'
  BY <1>1, <1>2 DEF Loadable, Healthy
<1>6. CASE f = "nvs"
  <2>1. privkey # None /\ privkey' = None /\ UNCHANGED <<config, nameOf>>
    BY <1>6 DEF FileLost
  <2>2. Typed'
    BY <1>1, <1>2, <2>1 DEF Typed, Listing, Hashes
  <2>3. DiskInv'
    BY <1>1, <1>2, <2>1, NvsWrites DEF Blank
  <2>4. QED
    BY <1>4, <1>5, <2>2, <2>3 DEF IInv
<1>7. CASE f = "config"
  <2>1. config # Absent /\ config' = Absent /\ nameOf' = NamesListed /\ privkey' = privkey
    BY <1>7 DEF FileLost
  <2>2. ASSUME metadata # Absent
        PROVE  /\ Catalogued /\ metadata \in Seq(Slot) /\ Distinct(metadata)
               /\ \A i \in DOMAIN metadata : nameOf'[metadata[i].hash] = metadata[i].name
    <3>1. Catalogued /\ metadata \in Seq(Slot) /\ Distinct(metadata)
      BY <1>1, <1>3, <2>2 DEF Held, Blank, Uncatalogued, Catalogued, Typed, Listing
    <3>2. ASSUME NEW i \in DOMAIN metadata
          PROVE  nameOf'[metadata[i].hash] = metadata[i].name
      <4>1. IndexOf(metadata, metadata[i].hash) = i
        BY <3>1, IndexIs
      <4>2. metadata[i].hash \in Identities /\ metadata[i].hash \in Hashes(metadata)
        BY <1>1, <2>2, ListingFacts DEF Typed, Hashes
      <4>3. QED
        BY <2>1, <2>2, <4>1, <4>2 DEF NamesListed
    <3>3. QED
      BY <3>1, <3>2
  <2>3. nameOf' \in [Identities -> Titles]
    <3>1. ASSUME NEW h \in Identities
          PROVE  (IF metadata # Absent /\ h \in Hashes(metadata)
                  THEN metadata[IndexOf(metadata, h)].name ELSE Unnamed) \in Titles
      <4>1. CASE metadata # Absent /\ h \in Hashes(metadata)
        <5>1. PICK i \in DOMAIN metadata : h = metadata[i].hash
          BY <4>1 DEF Hashes
        <5>2. IndexOf(metadata, h) = i
          BY <2>2, <4>1, <5>1, IndexIs
        <5>3. metadata[i].name \in Titles
          BY <1>1, <4>1, <5>1, ListingFacts DEF Typed
        <5>4. QED
          BY <4>1, <5>2, <5>3
      <4>2. CASE ~(metadata # Absent /\ h \in Hashes(metadata))
        BY <4>2 DEF Titles
      <4>3. QED
        BY <4>1, <4>2
    <3>2. QED
      BY <2>1, <3>1 DEF NamesListed
  <2>4. Typed'
    BY <1>1, <1>2, <2>1, <2>3 DEF Typed, Listing, Hashes
  <2>5. Blank => Blank'
    BY <1>2, <2>1 DEF Blank, Fresh
  <2>6. mirror \in chosen /\ Uncatalogued => Uncatalogued'
    <3>1. SUFFICES ASSUME mirror \in chosen, Uncatalogued
          PROVE  Uncatalogued'
      OBVIOUS
    <3>2. mirror \in Identities /\ metadata = Absent
      BY <1>1, <3>1 DEF Typed, Uncatalogued
    <3>3. nameOf'[mirror] = Unnamed
      BY <2>1, <3>2 DEF NamesListed
    <3>4. QED
      BY <1>2, <2>1, <3>1, <3>3 DEF Uncatalogued
  <2>7. Catalogued => Catalogued'
    <3>1. SUFFICES ASSUME Catalogued
          PROVE  Catalogued'
      OBVIOUS
    <3>2. NamedBy(metadata)'
      BY <1>2, <2>2, <3>1 DEF NamedBy, Catalogued
    <3>3. QED
      BY <1>2, <3>1, <3>2 DEF Catalogued, OneActive, OnlyActive, Distinct, Homed, Filed, Old, Hashes
  <2>8. DiskInv'
    BY <1>2, <1>3, <2>1, <2>5, <2>6, <2>7 DEF DiskInv, Held, Unsettled
  <2>9. QED
    BY <1>4, <1>5, <2>4, <2>8 DEF IInv
<1>8. QED
  BY <1>2, <1>6, <1>7


-----------------------------------------------------------------------------
(* The invariant holds from the start, and through every step.             *)

LEMMA InitHolds == ASSUME Init, Healthy PROVE IInv
<1>1. PICK h \in Identities :
        LET old == load.device # "new"
            legacy == <<NewSlot(h, PathIdentity, TRUE)>>
        IN /\ mirror = IF old THEN h ELSE None
           /\ metadata = IF load.device = "legacy" THEN legacy ELSE Absent
           /\ privkey \in IF old THEN {None, h} ELSE {None}
           /\ made = IF old THEN {h} ELSE {}
           /\ known = IF old THEN {h} ELSE {}
           /\ chosen = IF old THEN {h} ELSE Identities
  BY DEF Init
<1>2. /\ load \in Loads /\ keyFile = [n \in KeyFiles |-> None]
      /\ config = Absent /\ card = Absent /\ scope = "clear"
      /\ slots = <<>> /\ dirty = FALSE /\ nvsPending = FALSE
      /\ settings = DefaultSettings /\ phase = "off" /\ todo = <<>> /\ subject = NoSubject
      /\ lost = {} /\ faulty = FALSE /\ unmigrated = FALSE /\ nameOf = [g \in Identities |-> Unnamed]
  BY DEF Init
<1>3. Stage /\ Loadable
  BY <1>2, Healthy DEF Stage, Resting, Loadable
<1>4. ~Unsettled
  BY <1>2 DEF Unsettled
<1>5. ASSUME mirror \in made \cup {None}, privkey \in made \cup {None}, made \subseteq Identities,
             known \subseteq made, chosen \subseteq Identities, metadata # Absent => Listing(metadata)
      PROVE  Typed
  <2>1. Listing(slots)
    BY <1>2, Parameters DEF Listing, Hashes
  <2>2. settings \in [bound : Keys, pending : BOOLEAN, name : Titles, flash : BOOLEAN]
    <3>1. settings = [bound |-> None, pending |-> FALSE, name |-> Unnamed, flash |-> FALSE]
      BY <1>2 DEF DefaultSettings
    <3>2. None \in Keys /\ Unnamed \in Titles
      BY DEF Keys, Titles
    <3>3. QED
      BY ONLY <3>1, <3>2
  <2>3. subject \in [key : Keys, path : KeyFiles]
    <3>1. subject = [key |-> None, path |-> 0]
      BY <1>2 DEF NoSubject
    <3>2. None \in Keys /\ 0 \in KeyFiles
      BY Parameters DEF Keys
    <3>3. QED
      BY ONLY <3>1, <3>2
  <2>4. nameOf \in [Identities -> Titles] /\ keyFile \in [KeyFiles -> made \cup {None}]
    BY <1>2 DEF Titles
  <2>5. QED
    BY <1>2, <1>5, <2>1, <2>2, <2>3, <2>4 DEF Typed
<1>6. CASE load.device = "new"
  <2>1. /\ mirror = None /\ metadata = Absent /\ privkey = None /\ made = {} /\ known = {}
        /\ chosen = Identities
    BY <1>1, <1>6
  <2>2. Typed
    BY <1>5, <2>1
  <2>3. DiskInv
    BY <1>4, <2>1 DEF DiskInv, Held, Blank, Fresh
  <2>4. QED
    BY <1>3, <2>2, <2>3 DEF IInv
<1>7. CASE load.device # "new" /\ load.device # "legacy"
  <2>1. /\ mirror = h /\ metadata = Absent /\ privkey \in {None, h} /\ made = {h} /\ known = {h}
        /\ chosen = {h}
    BY <1>1, <1>7
  <2>2. Typed
    BY <1>5, <2>1
  <2>3. DiskInv
    BY <1>2, <1>4, <2>1 DEF DiskInv, Held, Uncatalogued
  <2>4. QED
    BY <1>3, <2>2, <2>3 DEF IInv
<1>8. CASE load.device = "legacy"
  <2> DEFINE s == <<NewSlot(h, PathIdentity, TRUE)>>
  <2>1. /\ mirror = h /\ metadata = s /\ privkey \in {None, h} /\ made = {h} /\ known = {h}
        /\ chosen = {h}
    BY <1>1, <1>8
  <2>2. /\ s \in Seq(Slot) /\ Len(s) = 1 /\ Len(s) <= MaxIdentities /\ DOMAIN s = {1}
        /\ s[1].hash = h /\ s[1].path = PathIdentity /\ s[1].active = TRUE /\ s[1].name = Unnamed
        /\ Hashes(s) = {h} /\ Distinct(s) /\ OnlyActive(s, 1) /\ s # <<>>
    BY FirstSlot
  <2> HIDE DEF s
  <2>3. Listing(metadata) /\ metadata # Absent
    <3>1. metadata # Absent
      BY <2>1, <2>2, Missing
    <3>2. QED
      BY <2>1, <2>2, <3>1 DEF Listing
  <2>4. Typed
    BY <1>5, <2>1, <2>3
  <2>5. NamedBy(metadata)
    BY <1>2, <2>1, <2>2 DEF NamedBy
  <2>6. Old(metadata) /\ OneActive(metadata)
    BY <2>1, <2>2 DEF Old, OneActive, OnlyActive
  <2>7. Catalogued
    BY <2>1, <2>2, <2>3, <2>5, <2>6 DEF Catalogued
  <2>8. DiskInv
    BY <1>4, <2>1, <2>7 DEF DiskInv, Held
  <2>9. QED
    BY <1>3, <2>4, <2>8 DEF IInv
<1>9. QED
  BY <1>6, <1>7, <1>8

\* A step that is none.
LEMMA StutterKeeps == ASSUME IInv, UNCHANGED vars PROVE IInv'
<1>1. UNCHANGED <<keyFile, mirror, metadata, privkey, config, card, scope, slots, dirty, nvsPending,
                  settings, phase, todo, faulty, subject, load, lost, made, known, nameOf, chosen, unmigrated>>
  BY DEF vars, disk, keys, memory, control, history
<1>2. Typed' /\ DiskInv' /\ Loadable'
  BY <1>1, TypedFrame, DiskFrame, LoadFrame DEF IInv, Typed
<1>3. /\ Up => Up'
      /\ Loaded => Loaded'
      /\ OneActive(slots) => OneActive(slots)'
      /\ unmigrated /\ NoneOn(slots) => (unmigrated /\ NoneOn(slots))'
      /\ Renamed => Renamed'
      /\ Blank => Blank'
      /\ Unsettled' = Unsettled
      /\ SettingsOK => SettingsOK'
  BY <1>1, UpFrame, DiskFrame, SettingsFrame
<1>4. NvsOK' = NvsOK /\ Synced' = Synced /\ Stored' = Stored /\ Hashes(slots)' = Hashes(slots)
      /\ ScopeKnown' = ScopeKnown /\ Wiped' = Wiped /\ Stillborn' = Stillborn /\ (Empty => Empty')
  BY <1>1, <1>3 DEF NvsOK, Synced, Stored, Hashes, ScopeKnown, Wiped, Stillborn, Empty
<1>5. Served => Served'
  BY <1>1, <1>4, ServedFrame DEF Served
<1>6. Stage'
  <2>1. CASE Booting
    BY <1>1, <1>3, <1>4, <1>5, <2>1
       DEF Stage, Booting, Read, Imported, Unread, Adopted, Recovering, Creating, Reconciling
  <2>2. CASE Serving
    BY <1>1, <1>3, <1>4, <1>5, <2>2 DEF Stage, Serving
  <2>3. CASE Maintained
    BY <1>1, <1>3, <1>4, <1>5, <2>3 DEF Stage, Maintained, Flushing, Switching
  <2>4. CASE Resetting \/ Resting
    BY <1>1, <1>4, <2>4 DEF Stage, Resetting, Resting
  <2>5. QED
    BY <2>1, <2>2, <2>3, <2>4 DEF IInv, Stage
<1>7. QED
  BY <1>2, <1>6 DEF IInv

LEMMA StepKeeps == ASSUME IInv, [Next]_vars PROVE IInv'
<1>1. CASE BootStep
  BY <1>1, StartKeeps, RestoreKeeps, ImportKeeps, ActivateKeeps, AdoptKeeps, IdentityKeeps, RawMirrorKeeps,
     RunKeeps DEF BootStep
<1>2. CASE SharedStep
  BY <1>2, SaveKeeps, MirrorKeeps, RecoverKeeps, SettleNameKeeps, SettleConfigKeeps DEF SharedStep
<1>3. CASE ServiceStep
  BY <1>3, CreateKeeps, ImportingKeeps, ApplyKeeps, RetryKeeps, BackUpKeeps, RequestsKeep, SwitchKeeps,
     StopKeeps DEF ServiceStep
<1>4. CASE ResetStep
  BY <1>4, PrepareKeeps, WipeCardKeeps, EraseKeeps, WipeKeeps, CompleteKeeps, ConfirmKeeps DEF ResetStep
<1>5. CASE Disaster
  BY <1>5, PowerLossKeeps, LossKeeps DEF Disaster
<1>6. CASE UNCHANGED vars
  BY <1>6, StutterKeeps
<1>7. QED
  BY <1>1, <1>2, <1>3, <1>4, <1>5, <1>6 DEF Next

\* The invariant, on every device whose flash keeps its keys and its catalogue.
THEOREM Invariance == Spec /\ Healthy => []IInv
<1>1. Init /\ Healthy => IInv
  BY InitHolds
<1>2. IInv /\ [Next]_vars => IInv'
  BY StepKeeps
<1>3. QED
  BY <1>1, <1>2, PTL DEF Spec

-----------------------------------------------------------------------------
(* What the invariant says of the device.                                  *)

LEMMA ConsistentFollows == ASSUME IInv PROVE Consistent
<1>1. Typed /\ Loadable /\ DiskInv /\ Stage
  BY DEF IInv
<1>2. TypeOK
  <2>1. /\ keyFile \in [KeyFiles -> Identities \cup {None}]
        /\ {mirror, privkey} \subseteq Identities \cup {None}
    BY <1>1 DEF Typed
  <2>2. (\A i \in DOMAIN slots : slots[i] \in Slot) /\ Len(slots) <= MaxIdentities
    BY <1>1 DEF Typed, Listing
  <2>3. {dirty, nvsPending, faulty, unmigrated} \subseteq BOOLEAN
    BY <1>1 DEF Typed
  <2>4. /\ phase \in {"off", "recovery", "booting", "halted", "running", "maintenance", "stopped"}
        /\ scope \in {"clear", "torn", "device", "everything"}
        /\ known \subseteq made /\ made \subseteq Identities
    BY <1>1 DEF Typed
  <2>5. lost \subseteq load.losable /\ load \in Loads
    BY <1>1 DEF Loadable
  <2>6. QED
    BY <2>1, <2>2, <2>3, <2>4, <2>5 DEF TypeOK
<1>3. ASSUME Idle PROVE Saved /\ Kept /\ (unmigrated \/ KeysKept)
  <2>1. Serving /\ Served /\ Synced /\ Up /\ NvsOK /\ Loaded
    BY <1>1, <1>3, IdleFacts
  <2>2. Active \in DOMAIN slots /\ OnlyActive(slots, Active) /\ Running = mirror
        /\ KeyMatches(Active)
    BY <1>1, <2>1, UpFacts
  <2>3. Saved
    BY <2>1, <2>2 DEF Saved, Synced, NvsOK
  <2>4. known \subseteq Hashes(slots) /\ \A i, j \in DOMAIN slots : i # j => slots[i].hash # slots[j].hash
    BY <2>1 DEF Loaded, Distinct
  <2>5. ActiveOf(slots) = {slots[Active].hash}
    BY <2>2 DEF ActiveOf, OnlyActive
  <2>6. Kept
    BY <2>2, <2>4, <2>5 DEF Kept
  <2>7. ASSUME ~unmigrated PROVE KeysKept
    <3>1. Filed(slots)
      BY <2>1, <2>7 DEF Loaded, Homed
    <3>2. \A i \in DOMAIN slots : KeyMatches(i)
      BY <3>1, FiledMatches
    <3>3. Hashes(slots) \subseteq WithKeys
      BY <3>2 DEF Hashes, WithKeys
    <3>4. QED
      BY <2>4, <3>1, <3>3 DEF KeysKept, Filed
  <2>8. QED
    BY <2>3, <2>6, <2>7
<1>4. QED
  BY <1>2, <1>3 DEF Consistent

LEMMA NamesFollow == ASSUME IInv PROVE NamesAreKept
<1>1. Typed /\ Loadable /\ DiskInv /\ Stage
  BY DEF IInv
<1>2. SUFFICES ASSUME Idle
      PROVE  /\ ~settings.pending =>
                  /\ settings = Effective(Bound(Running, FALSE, nameOf[Running]))
                  /\ config = Bound(Running, FALSE, nameOf[Running])
             /\ settings.pending => config = Bound(Running, TRUE, nameOf[Running])
             /\ \A i \in DOMAIN slots :
                  slots[i].name = nameOf[slots[i].hash] \/ (settings.pending /\ i = Active)
  BY DEF NamesAreKept
<1>3. Served /\ Up /\ SettingsOK /\ Shown /\ Loaded /\ scope = "clear"
  BY <1>1, <1>2, IdleFacts
<1>4. /\ Active \in DOMAIN slots /\ OnlyActive(slots, Active) /\ Running = mirror
      /\ slots[Active].hash = mirror
  BY <1>1, <1>3, UpFacts
<1>5. ASSUME ~settings.pending
      PROVE  /\ settings = Effective(Bound(Running, FALSE, nameOf[Running]))
             /\ config = Bound(Running, FALSE, nameOf[Running])
  <2>1. settings = Effective(Bound(mirror, FALSE, nameOf[mirror]))
    BY <1>3, <1>5 DEF Shown
  <2>2. settings = [bound |-> mirror, pending |-> FALSE, name |-> nameOf[mirror], flash |-> TRUE]
    BY ONLY <2>1 DEF Effective, Bound
  <2>3. settings.flash
    BY ONLY <2>2
  <2>4. config # Absent /\ settings = Effective(config) /\ config \in Settings
    BY <1>1, <1>3, <1>5, <2>3 DEF SettingsOK, Typed
  <2>5. settings.bound = config.bound /\ settings.pending = config.pending /\ settings.name = config.name
    BY ONLY <2>4 DEF Effective
  <2>6. config = [bound |-> config.bound, pending |-> config.pending, name |-> config.name]
    BY ONLY <2>4 DEF Settings
  <2>7. config = [bound |-> mirror, pending |-> FALSE, name |-> nameOf[mirror]]
    <3>1. settings.bound = mirror /\ settings.pending = FALSE /\ settings.name = nameOf[mirror]
      BY ONLY <2>2
    <3>2. config.pending = FALSE
      BY <1>3, <1>5, <2>4 DEF SettingsOK, Unsettled, Settings
    <3>3. QED
      BY ONLY <2>5, <2>6, <3>1, <3>2
  <2>8. QED
    BY <1>4, <2>1, <2>7 DEF Bound
<1>6. ASSUME settings.pending
      PROVE  config = Bound(Running, TRUE, nameOf[Running])
  <2>1. Unsettled /\ config.bound = mirror /\ config.name = nameOf[mirror] /\ config \in Settings
    BY <1>1, <1>3, <1>6 DEF SettingsOK, DiskInv, Held, Unsettled, Typed
  <2>2. config.pending = TRUE
    BY <2>1 DEF Unsettled, Settings
  <2>3. config = [bound |-> config.bound, pending |-> config.pending, name |-> config.name]
    BY ONLY <2>1 DEF Settings
  <2>4. config = [bound |-> mirror, pending |-> TRUE, name |-> nameOf[mirror]]
    BY <2>1, <2>2, <2>3
  <2>5. QED
    BY <1>4, <2>4 DEF Bound
<1>7. ASSUME NEW i \in DOMAIN slots
      PROVE  slots[i].name = nameOf[slots[i].hash] \/ (settings.pending /\ i = Active)
  BY <1>3, <1>4 DEF Loaded, NamedBy, SettingsOK, Distinct
<1>8. QED
  BY <1>5, <1>6, <1>7

LEMMA ComesUpFollows == ASSUME IInv PROVE AlwaysComesUp
<1>1. Stage
  BY DEF IInv
<1>2. phase = "halted" => faulty \/ Stillborn
  BY <1>1 DEF Stage, Booting, Serving, Maintained, Resetting, Resting
<1>3. QED
  BY <1>2 DEF AlwaysComesUp

\* Only the end of a boot makes the device run.
LEMMA OnlyRun == ASSUME Next, phase # "running", phase' = "running" PROVE Run
<1>1. ~Proceed /\ ~Refuse /\ ~Fail /\ ~Tolerate /\ ~(\E t : Insert(t))
  BY DEF Proceed, Refuse, Fail, Tolerate, Insert, GivenUp
<1>2. ~FlushEnds(TRUE) /\ ~FlushEnds(~nvsPending)
  BY <1>1 DEF FlushEnds
<1>3. CASE BootStep
  <2>1. ~Start
    BY DEF Start
  <2>2. ~RestoreSettings /\ ~ImportKey
    BY <1>1 DEF RestoreSettings, ImportKey
  <2>3. ~ValidateActive /\ ~AdoptPathIdentity
    BY <1>1 DEF ValidateActive, AdoptPathIdentity
  <2>4. ~LoadOrCreateIdentity /\ ~WriteRawMirror
    BY <1>1 DEF LoadOrCreateIdentity, WriteRawMirror
  <2>5. QED
    BY <1>3, <2>1, <2>2, <2>3, <2>4 DEF BootStep
<1>4. ~SharedStep
  <2>1. ~SaveSlotMeta
    BY <1>1 DEF SaveSlotMeta
  <2>2. ~MirrorToNvs
    BY <1>1, <1>2 DEF MirrorToNvs, At
  <2>3. ~Recover
    BY <1>1 DEF Recover
  <2>4. ~SettleName /\ ~SettleConfig
    BY <1>1 DEF SettleName, SettleConfig
  <2>5. QED
    BY <2>1, <2>2, <2>3, <2>4 DEF SharedStep
<1>5. ~ServiceStep
  <2>1. ~SwitchTo /\ ~Stop
    BY <1>1 DEF SwitchTo, Stop
  <2>2. QED
    BY <2>1 DEF ServiceStep, CreateIdentity, ImportIdentity, AddIdentity, ApplySettings, Retry, BackUpSettings,
                SwitchIdentity, RequestReset, RequestRestart, Maintenance, Idle
<1>6. ~ResetStep
  BY <1>1 DEF ResetStep, PrepareReset, WipeCard, EraseNvs, WipeForReset, CompleteReset, ConfirmReset, control
<1>7. ~Disaster
  BY DEF Disaster, PowerLoss, FileLost, control
<1>8. QED
  BY <1>3, <1>4, <1>5, <1>6, <1>7 DEF Next

LEMMA RunsChosen ==
  ASSUME IInv, [Next]_vars, phase # "running", phase' = "running"
  PROVE  slots[Active].hash \in chosen
<1>1. Next
  BY DEF vars, control
<1>2. Run
  BY <1>1, OnlyRun
<1>3. QED
  BY <1>2, RunPlaces DEF IInv, Running

\* IdentityManager.cpp and ProtocolRuntime.cpp: whenever the service runs and no operation is under way, the
\* catalogue in memory is the one on the flash unless a retry is due, PATH_IDENTITY and the NVS hold the
\* key of the active slot, every identity ever catalogued is listed, and the active one has its key in the
\* file it names.  Whichever writes fail, the others keep their keys too, each in a file of its own, but on a
\* device where the key of an old slot could not be given its file (IdentityManager.cpp:79).
THEOREM ConsistentAlways == Spec /\ Healthy => []Consistent
<1>1. IInv => Consistent
  BY ConsistentFollows
<1>2. QED
  BY <1>1, Invariance, PTL

\* SettingsTransaction.cpp: the service shows, and the saved settings and the catalogue hold, the name last given
\* to each identity; a change that was committed is settled by a retry, or at the next boot.
THEOREM NamesAreAlwaysKept == Spec /\ Healthy => []NamesAreKept
<1>1. IInv => NamesAreKept
  BY NamesFollow
<1>2. QED
  BY <1>1, Invariance, PTL

\* boards/*/main.cpp: wherever power is lost, a device that can write starts again, but for the one whose very
\* first key was written and nothing else.
THEOREM ComesUpAlways == Spec /\ Healthy => []AlwaysComesUp
<1>1. IInv => AlwaysComesUp
  BY ComesUpFollows
<1>2. QED
  BY <1>1, Invariance, PTL

\* IdentityManager::begin, switchTo: a device starts to run only as the identity it was told to be, the one last
\* written to PATH_IDENTITY, and after a reset as a new one.
THEOREM RunsAsChosenAlways == Spec /\ Healthy => RunsAsChosen
<1>1. IInv /\ [Next]_vars => [phase # "running" /\ phase' = "running" => slots[Active].hash \in chosen]_vars
  BY RunsChosen
<1>2. QED
  BY <1>1, Invariance, PTL DEF Spec, RunsAsChosen
=============================================================================
