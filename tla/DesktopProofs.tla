--------------------------- MODULE DesktopProofs ---------------------------
(***************************************************************************)
(* Proofs about Desktop: its types, that the system has one hotkey of ours *)
(* but for those it does not let go of, and that settings.json is what an  *)
(* AppState has in memory.  Each part of the inductive invariant speaks of *)
(* other tasks, and has a lemma of its own.                                *)
(***************************************************************************)
EXTENDS Desktop, TLAPS

\* A boot under way has an index to go to.
RoomToBoot == reloader.phase \in {"booting", "booted"} => current < MaxBoots

\* Settings are only changed on AppStates that have been managed.
SetOnServed == \A c \in Sets : call[c].phase = "saving" => call[c].boot <= current

-----------------------------------------------------------------------------
(* Types.                                                                  *)

LEMMA InitTypes == Init => TypeOK /\ RoomToBoot
<1> SUFFICES ASSUME Init PROVE TypeOK /\ RoomToBoot
  OBVIOUS
<1> USE DesktopAssumption
<1>1. 1 \in Boots
  BY DEF Boots
<1>2. settings \in [Boots -> Hotkeys] /\ settingsFile \in Hotkeys
  BY <1>1 DEF Init
<1>3. call \in [Sets -> Calls] /\ join \in [Joins -> JoinCalls]
  BY <1>1 DEF Init, Calls, JoinCalls
<1>4. hotkey \in HotkeyWatchers /\ registered \in SUBSET Accelerators
  BY DEF Init, HotkeyWatchers, Hotkeys
<1>5. identity \in [Boots -> Ids] /\ idFile \in Ids /\ reloader \in Reloaders
  BY <1>1 DEF Init, Ids, Reloaders
<1>6. current \in Boots
  BY <1>1 DEF Init
<1>7. RoomToBoot
  BY DEF Init, RoomToBoot
<1> QED BY <1>2, <1>3, <1>4, <1>5, <1>6, <1>7 DEF TypeOK

\* What the calls of settings_set do to the types.
LEMMA SetTypes ==
  ASSUME TypeOK, NEW c \in Sets,
         \/ \E b \in Boots, h \in Hotkeys \cup {None} : SettingsSet(c, b, h)
         \/ SetStep(c)
  PROVE  /\ settings' \in [Boots -> Hotkeys] /\ settingsFile' \in Hotkeys \cup {Torn}
         /\ call' \in [Sets -> Calls] /\ hotkey' \in HotkeyWatchers
         /\ UNCHANGED <<registered, ids>>
<1>1. call[c] \in Calls
  BY DEF TypeOK
<1>2. ASSUME NEW b \in Boots, NEW h \in Hotkeys \cup {None}, SettingsSet(c, b, h)
      PROVE  /\ settings' \in [Boots -> Hotkeys] /\ settingsFile' \in Hotkeys \cup {Torn}
             /\ call' \in [Sets -> Calls] /\ UNCHANGED <<keys, ids>>
  <2>1. settings[b] \in Hotkeys /\ Set(settings[b], h) \in Hotkeys
    BY DEF TypeOK, Set
  <2>2. [phase |-> "saving", boot |-> b, mixed |-> FALSE] \in Calls
    BY DEF Calls
  <2> QED BY <1>2, <2>1, <2>2 DEF SettingsSet, TypeOK
<1>3. ASSUME NEW phase \in {"saved", "failed"}, SaveEnds(c, phase)
      PROVE  call' \in [Sets -> Calls] /\ UNCHANGED <<settings, keys, ids>>
  <2>1. ASSUME NEW d \in Sets
        PROVE  /\ [call[d] EXCEPT !.phase = phase] \in Calls
               /\ [call[d] EXCEPT !.mixed = @ \/ call[d].phase = "saving"] \in Calls
    <3>1. call[d] \in Calls
      BY DEF TypeOK
    <3> QED BY <3>1 DEF Calls
  <2> QED BY <1>3, <2>1 DEF SaveEnds
<1>4. CASE Save(c)
  <2>1. settingsFile' \in Hotkeys \cup {Torn}
    BY <1>1, <1>4 DEF Save, Saved, TypeOK, Calls
  <2> QED BY <1>3, <1>4, <2>1 DEF Save, keys, TypeOK
<1>5. CASE SaveFails(c)
  BY <1>3, <1>5 DEF SaveFails, keys, TypeOK
<1>6. CASE SettingsChanged(c)
  <2>1. call' \in [Sets -> Calls]
    BY <1>1, <1>6 DEF SettingsChanged, TypeOK, Calls
  <2>2. hotkey' \in HotkeyWatchers
    BY <1>6 DEF SettingsChanged, TypeOK, HotkeyWatchers
  <2> QED BY <1>6, <2>1, <2>2 DEF SettingsChanged, TypeOK
<1> QED BY <1>2, <1>4, <1>5, <1>6 DEF SetStep, keys, TypeOK

\* The hotkey watcher.
LEMMA HotkeyTypes ==
  ASSUME TypeOK, HotkeyStep
  PROVE  /\ hotkey' \in HotkeyWatchers /\ registered' \in SUBSET Accelerators
         /\ UNCHANGED <<settings, settingsFile, call, ids>>
<1>1. settings[1] \in Hotkeys /\ hotkey \in HotkeyWatchers
  BY DesktopAssumption DEF TypeOK, Boots
<1>2. \A accel \in Hotkeys : With(accel) \in SUBSET Accelerators
  BY DEF With, TypeOK, Hotkeys
<1>3. CASE SetupHotkey
  BY <1>1, <1>2, <1>3 DEF SetupHotkey, Register, HotkeyWatchers
<1>4. CASE AwaitChange
  BY <1>1, <1>4 DEF AwaitChange, HotkeyWatchers, TypeOK
<1>5. CASE SameHotkey
  BY <1>1, <1>5 DEF SameHotkey, HotkeyWatchers, TypeOK
<1>6. CASE UnregisterLast
  BY <1>1, <1>6 DEF UnregisterLast, Unregister, HotkeyWatchers, TypeOK
<1>7. CASE RegisterNew
  BY <1>1, <1>2, <1>7 DEF RegisterNew, Register, HotkeyWatchers
<1> QED BY <1>3, <1>4, <1>5, <1>6, <1>7 DEF HotkeyStep

\* The joins.
LEMMA JoinTypes ==
  ASSUME TypeOK, NEW j \in Joins,
         (\E b \in Boots : JoinWrites(j, b)) \/ JoinStep(j)
  PROVE  /\ join' \in [Joins -> JoinCalls] /\ idFile' \in Ids \cup {Torn}
         /\ reloader' \in Reloaders
         /\ UNCHANGED <<settings, settingsFile, call, keys, identity, current>>
<1>1. join[j] \in JoinCalls /\ reloader \in Reloaders
  BY DEF TypeOK
<1>2. ASSUME NEW b \in Boots, JoinWrites(j, b)
      PROVE  join' \in [Joins -> JoinCalls] /\ idFile' \in {idFile, Torn}
  <2>1. [phase |-> "writing", boot |-> b, mixed |-> FALSE] \in JoinCalls
    BY DEF JoinCalls
  <2> QED BY <1>2, <2>1 DEF JoinWrites, TypeOK
<1>3. CASE \E b \in Boots : JoinWrites(j, b)
  BY <1>2, <1>3 DEF JoinWrites, TypeOK
<1>4. ASSUME NEW phase \in {"written", "done"}, WriteEnds(j, phase)
      PROVE  join' \in [Joins -> JoinCalls]
  <2>1. ASSUME NEW k \in Joins
        PROVE  /\ [join[k] EXCEPT !.phase = phase] \in JoinCalls
               /\ [join[k] EXCEPT !.mixed = @ \/ join[k].phase = "writing"] \in JoinCalls
    <3>1. join[k] \in JoinCalls
      BY DEF TypeOK
    <3> QED BY <3>1 DEF JoinCalls
  <2> QED BY <1>4, <2>1 DEF WriteEnds
<1>5. CASE JoinWrote(j) \/ JoinWriteFails(j)
  <2>1. idFile' \in Ids \cup {Torn}
    BY <1>5 DEF JoinWrote, JoinWriteFails, TypeOK, Ids
  <2> QED BY <1>4, <1>5, <2>1 DEF JoinWrote, JoinWriteFails, WriteEnds, TypeOK
<1>6. CASE JoinFails(j)
  BY <1>1, <1>6 DEF JoinFails, TypeOK, JoinCalls
<1>7. CASE SignalReload(j)
  <2>1. join' \in [Joins -> JoinCalls]
    BY <1>1, <1>7 DEF SignalReload, TypeOK, JoinCalls
  <2>2. reloader' \in Reloaders
    BY <1>1, <1>7 DEF SignalReload, Reloaders
  <2> QED BY <1>7, <2>1, <2>2 DEF SignalReload, TypeOK
<1> QED BY <1>3, <1>5, <1>6, <1>7 DEF JoinStep

\* The reload watcher.
LEMMA ReloadTypes ==
  ASSUME TypeOK, RoomToBoot, ReloadStep
  PROVE  /\ settings' \in [Boots -> Hotkeys] /\ identity' \in [Boots -> Ids]
         /\ reloader' \in Reloaders /\ current' \in Boots
         /\ RoomToBoot'
         /\ UNCHANGED <<settingsFile, call, keys, idFile, join>>
<1>1. reloader \in Reloaders /\ current \in Boots /\ current \in Nat
  BY DEF TypeOK, Boots
<1>2. CASE AwaitRequest
  <2>1. reloader' \in Reloaders /\ reloader'.phase = "waiting"
    BY <1>1, <1>2 DEF AwaitRequest, Reloaders
  <2> QED BY <1>2, <2>1 DEF AwaitRequest, TypeOK, RoomToBoot
<1>3. CASE ReadIdentity
  <2>1. reloader' \in Reloaders
    BY <1>1, <1>3 DEF ReadIdentity, IdentityOnDisk, Reloaders, TypeOK
  <2> QED BY <1>3, <2>1 DEF ReadIdentity, TypeOK, RoomToBoot
<1>4. CASE ReadSettings
  <2>1. reloader.id \in Ids /\ settingsFile \in Hotkeys
    BY <1>1, <1>4 DEF ReadSettings, Reloaders, TypeOK
  <2>2. reloader' \in Reloaders /\ reloader'.phase = "booted"
    BY <1>1, <1>4 DEF ReadSettings, Reloaders
  <2>3. settings' \in [Boots -> Hotkeys] /\ identity' \in [Boots -> Ids]
    BY <1>4, <2>1 DEF ReadSettings, TypeOK
  <2>4. current < MaxBoots
    BY <1>4 DEF ReadSettings, RoomToBoot
  <2> QED BY <1>4, <2>2, <2>3, <2>4 DEF ReadSettings, TypeOK, RoomToBoot
<1>5. CASE ReloadFails
  <2>1. reloader' \in Reloaders /\ reloader'.phase = "waiting"
    BY <1>1, <1>5 DEF ReloadFails, Reloaders
  <2> QED BY <1>5, <2>1 DEF ReloadFails, TypeOK, RoomToBoot
<1>6. CASE Swap
  <2>1. reloader' \in Reloaders /\ reloader'.phase = "swapped"
    BY <1>1, <1>6 DEF Swap, Reloaders
  <2>2. current' \in Boots
    BY <1>1, <1>6, DesktopAssumption DEF Swap, RoomToBoot, Boots
  <2> QED BY <1>6, <2>1, <2>2 DEF Swap, TypeOK, RoomToBoot
<1> QED BY <1>2, <1>3, <1>4, <1>5, <1>6 DEF ReloadStep

\* Types.
LEMMA StepTypes ==
  ASSUME TypeOK, RoomToBoot, [Next]_vars
  PROVE  TypeOK' /\ RoomToBoot'
<1>1. ASSUME NEW c \in Sets, \/ \E b \in Boots, h \in Hotkeys \cup {None} : SettingsSet(c, b, h)
                             \/ SetStep(c)
      PROVE  TypeOK' /\ RoomToBoot'
  BY <1>1, SetTypes DEF TypeOK, RoomToBoot, ids
<1>2. CASE HotkeyStep
  BY <1>2, HotkeyTypes DEF TypeOK, RoomToBoot, ids
<1>3. ASSUME NEW j \in Joins,
             (\E b \in Boots : JoinWrites(j, b)) \/ JoinStep(j)
      PROVE  TypeOK' /\ RoomToBoot'
  <2>1. TypeOK'
    BY <1>3, JoinTypes DEF TypeOK, keys
  <2>2. current' = current /\ (reloader'.phase = reloader.phase \/ reloader'.phase = "requested")
    BY <1>3 DEF JoinWrites, JoinStep, JoinWrote, JoinWriteFails, WriteEnds, JoinFails, SignalReload,
               TypeOK, Reloaders
  <2> QED BY <2>1, <2>2 DEF RoomToBoot
<1>4. CASE ReloadStep
  BY <1>4, ReloadTypes DEF TypeOK, keys
<1>5. CASE UNCHANGED vars
  BY <1>5 DEF TypeOK, RoomToBoot, vars
<1> QED BY <1>1, <1>2, <1>3, <1>4, <1>5 DEF Next

-----------------------------------------------------------------------------
(* One hotkey.                                                             *)

\* Only the watcher registers, and a call only wakes it while it waits.
LEMMA StepHotkey ==
  ASSUME TypeOK, OneHotkey, [Next]_vars
  PROVE  OneHotkey'
<1>1. CASE UNCHANGED keys
  BY <1>1 DEF OneHotkey, Mine, keys
<1>2. CASE HotkeyStep
  <2>1. hotkey \in HotkeyWatchers
    BY DEF TypeOK
  <2>2. CASE SetupHotkey
    <3>1. registered' = With(settings[1]) /\ Mine = {} /\ Mine' = {settings[1]} \ (Refused \cup {NoKey})
      BY <2>1, <2>2 DEF SetupHotkey, Register, Mine, HotkeyWatchers
    <3> QED BY <3>1 DEF With, OneHotkey
  <2>3. CASE AwaitChange \/ SameHotkey
    BY <2>1, <2>3 DEF AwaitChange, SameHotkey, OneHotkey, Mine, HotkeyWatchers
  <2>4. CASE UnregisterLast
    <3>1. Unregister(hotkey.last) /\ Mine' = {}
          /\ Mine = {hotkey.last} \ (Refused \cup {NoKey})
      BY <2>1, <2>4 DEF UnregisterLast, Mine, HotkeyWatchers
    <3> QED BY <3>1 DEF Unregister, OneHotkey
  <2>5. CASE RegisterNew
    <3>1. registered' = With(hotkey.new) /\ Mine = {} /\ Mine' = {hotkey.new} \ (Refused \cup {NoKey})
      BY <2>1, <2>5 DEF RegisterNew, Register, Mine, HotkeyWatchers
    <3> QED BY <3>1 DEF With, OneHotkey
  <2> QED BY <1>2, <2>2, <2>3, <2>4, <2>5 DEF HotkeyStep
<1>3. ASSUME NEW c \in Sets, SettingsChanged(c) PROVE OneHotkey'
  <2>1. hotkey \in HotkeyWatchers
    BY DEF TypeOK
  <2> QED BY <1>3, <2>1 DEF SettingsChanged, Wakes, OneHotkey, Mine, HotkeyWatchers
<1>4. ASSUME NEW c \in Sets, \/ \E b \in Boots, h \in Hotkeys \cup {None} : SettingsSet(c, b, h)
                             \/ Save(c) \/ SaveFails(c)
      PROVE  UNCHANGED keys
  BY <1>4 DEF SettingsSet, Save, SaveFails, SaveEnds
<1>5. ASSUME NEW j \in Joins,
             (\E b \in Boots : JoinWrites(j, b)) \/ JoinStep(j)
      PROVE  UNCHANGED keys
  BY <1>5 DEF JoinWrites, JoinStep, JoinWrote, JoinWriteFails, WriteEnds, JoinFails, SignalReload
<1>6. CASE ReloadStep
  BY <1>1, <1>6 DEF ReloadStep, AwaitRequest, ReadIdentity, ReadSettings, ReloadFails, Swap
<1>7. CASE UNCHANGED vars
  BY <1>1, <1>7 DEF vars, keys
<1> QED BY <1>1, <1>2, <1>3, <1>4, <1>5, <1>6, <1>7 DEF Next, SetStep

-----------------------------------------------------------------------------
(* The settings on disk.                                                   *)

\* Calls begin on AppStates that are managed or were, and the count only grows.
LEMMA StepServed ==
  ASSUME TypeOK, SetOnServed, [Next]_vars
  PROVE  SetOnServed'
<1>0. current \in Nat /\ 1 <= current
  BY DEF TypeOK, Boots
<1>1. ASSUME UNCHANGED call, current' \in {current, current + 1} PROVE SetOnServed'
  <2>1. ASSUME NEW c \in Sets PROVE call[c].boot \in Nat
    BY DEF TypeOK, Calls, Boots
  <2> QED BY <1>0, <1>1, <2>1 DEF SetOnServed
<1>2. ASSUME NEW c \in Sets, NEW b \in Boots, NEW h \in Hotkeys \cup {None}, SettingsSet(c, b, h)
      PROVE  SetOnServed'
  BY <1>0, <1>2 DEF SettingsSet, SetOnServed, TypeOK, ids
<1>3. ASSUME NEW c \in Sets, NEW phase \in {"saved", "failed"}, SaveEnds(c, phase)
      PROVE  SetOnServed'
  <2>1. ASSUME NEW d \in Sets, call'[d].phase = "saving"
        PROVE  call'[d].boot = call[d].boot /\ call[d].phase = "saving"
    <3>1. call[d] \in Calls
      BY DEF TypeOK
    <3> QED BY <1>3, <2>1, <3>1 DEF SaveEnds, Calls
  <2> QED BY <1>3, <2>1 DEF SaveEnds, SetOnServed, ids
<1>4. ASSUME NEW c \in Sets, Save(c) \/ SaveFails(c) PROVE SetOnServed'
  BY <1>3, <1>4 DEF Save, SaveFails
<1>5. ASSUME NEW c \in Sets, SettingsChanged(c) PROVE SetOnServed'
  BY <1>5 DEF SettingsChanged, SetOnServed, TypeOK, Calls, ids
<1>6. CASE HotkeyStep
  BY <1>1, <1>6, HotkeyTypes DEF ids
<1>7. ASSUME NEW j \in Joins,
             (\E b \in Boots : JoinWrites(j, b)) \/ JoinStep(j)
      PROVE  SetOnServed'
  BY <1>1, <1>7, JoinTypes
<1>8. CASE ReloadStep
  BY <1>1, <1>8 DEF ReloadStep, AwaitRequest, ReadIdentity, ReadSettings, ReloadFails, Swap
<1>9. CASE UNCHANGED vars
  BY <1>1, <1>9 DEF vars
<1> QED BY <1>2, <1>4, <1>5, <1>6, <1>7, <1>8, <1>9 DEF Next, SetStep

\* A save that ends alone leaves what its AppState has in memory.
LEMMA StepSaved ==
  ASSUME TypeOK, SetOnServed, SettingsSaved, [Next]_vars
  PROVE  SettingsSaved'
<1> DEFINE Quiet == \A c \in Sets : call[c].phase \notin {"saving", "failed"} /\ ~call[c].mixed
           OfAnAppState == \E b \in 1..current : settingsFile = settings[b]
<1>0. current \in Nat /\ 1 <= current /\ current <= MaxBoots /\ (Quiet => OfAnAppState)
  BY DEF TypeOK, Boots, SettingsSaved
<1>1. ASSUME UNCHANGED <<settings, settingsFile, call, current>> PROVE SettingsSaved'
  BY <1>1 DEF SettingsSaved
<1>2. ASSUME NEW c \in Sets, NEW b \in Boots, NEW h \in Hotkeys \cup {None}, SettingsSet(c, b, h)
      PROVE  SettingsSaved'
  <2>1. call'[c].phase = "saving"
    BY <1>2 DEF SettingsSet, TypeOK
  <2> QED BY <2>1 DEF SettingsSaved
<1>3. ASSUME NEW c \in Sets, Save(c) PROVE SettingsSaved'
  <2> SUFFICES ASSUME Quiet' PROVE OfAnAppState'
    BY DEF SettingsSaved
  <2>1. call[c] \in Calls /\ call[c].phase = "saving" /\ current' = current
        /\ settings' = settings
    BY <1>3 DEF Save, SaveEnds, TypeOK, ids
  <2>2. call'[c].mixed = call[c].mixed
    BY <1>3, <2>1 DEF Save, SaveEnds, Calls
  <2>3. settingsFile' = settings[call[c].boot]
    BY <1>3, <2>2 DEF Save, Saved
  <2>4. call[c].boot \in 1..current
    BY <1>0, <2>1 DEF SetOnServed, Calls, Boots
  <2> QED BY <2>1, <2>3, <2>4
<1>4. ASSUME NEW c \in Sets, SaveFails(c) PROVE SettingsSaved'
  <2>1. call'[c].phase = "failed"
    <3>1. call[c] \in Calls
      BY DEF TypeOK
    <3> QED BY <1>4, <3>1 DEF SaveFails, SaveEnds, Calls
  <2> QED BY <2>1 DEF SettingsSaved
<1>5. ASSUME NEW c \in Sets, SettingsChanged(c) PROVE SettingsSaved'
  <2>1. UNCHANGED <<settings, settingsFile, current>>
    BY <1>5 DEF SettingsChanged, ids
  <2>2. Quiet' => Quiet
    <3>1. ASSUME NEW d \in Sets, call'[d].phase \notin {"saving", "failed"}, ~call'[d].mixed
          PROVE  call[d].phase \notin {"saving", "failed"} /\ ~call[d].mixed
      <4>1. call[d] \in Calls /\ call[c].phase = "saved"
        BY <1>5 DEF TypeOK, SettingsChanged
      <4> QED BY <1>5, <3>1, <4>1 DEF SettingsChanged, Calls, TypeOK
    <3> QED BY <3>1
  <2> QED BY <1>0, <2>1, <2>2 DEF SettingsSaved
<1>6. CASE HotkeyStep
  BY <1>1, <1>6, HotkeyTypes DEF ids
<1>7. ASSUME NEW j \in Joins,
             (\E b \in Boots : JoinWrites(j, b)) \/ JoinStep(j)
      PROVE  SettingsSaved'
  BY <1>1, <1>7, JoinTypes
<1>8. CASE ReadSettings
  <2>1. UNCHANGED <<call, settingsFile, current>>
        /\ settings' = [settings EXCEPT ![current + 1] = settingsFile]
    BY <1>8 DEF ReadSettings, keys
  <2>2. \A b \in 1..current : settings'[b] = settings[b]
    BY <1>0, <2>1 DEF TypeOK, Boots
  <2> QED BY <1>0, <2>1, <2>2 DEF SettingsSaved
<1>9. CASE Swap
  <2>1. UNCHANGED <<settings, settingsFile, call>> /\ current' = current + 1
    BY <1>9 DEF Swap
  <2>2. 1..current \subseteq 1..current'
    BY <1>0, <2>1
  <2> QED BY <1>0, <2>1, <2>2 DEF SettingsSaved
<1>10. CASE AwaitRequest \/ ReadIdentity \/ ReloadFails
  BY <1>1, <1>10 DEF AwaitRequest, ReadIdentity, ReloadFails
<1>11. CASE UNCHANGED vars
  BY <1>1, <1>11 DEF vars
<1> QED BY <1>2, <1>3, <1>4, <1>5, <1>6, <1>7, <1>8, <1>9, <1>10, <1>11
        DEF Next, SetStep, ReloadStep

-----------------------------------------------------------------------------
(* The invariant as a whole.                                               *)

DesktopInv ==
  /\ TypeOK /\ RoomToBoot
  /\ OneHotkey
  /\ SetOnServed /\ SettingsSaved

LEMMA DesktopInvariant == Spec => []DesktopInv
<1>1. Init => DesktopInv
  <2> SUFFICES ASSUME Init
               PROVE  OneHotkey /\ SetOnServed /\ SettingsSaved
    BY InitTypes DEF DesktopInv
  <2>1. 1 \in Boots
    BY DesktopAssumption DEF Boots
  <2>2. OneHotkey /\ SetOnServed
    BY DEF Init, OneHotkey, Mine, SetOnServed
  <2>3. SettingsSaved
    BY <2>1 DEF Init, SettingsSaved
  <2> QED BY <2>2, <2>3
<1>2. DesktopInv /\ [Next]_vars => DesktopInv'
  BY StepTypes, StepHotkey, StepServed, StepSaved DEF DesktopInv
<1> QED BY <1>1, <1>2, PTL DEF Spec

-----------------------------------------------------------------------------
\* The variables keep their types.
THEOREM DesktopTypeCorrect == Spec => []TypeOK
BY DesktopInvariant, PTL DEF DesktopInv

\* The system has the accelerator that the watcher will take back next and none during
\* a switch, besides those it did not let go of, whatever it refuses (register_hotkey,
\* unregister_hotkey).
THEOREM OneHotkeyAtMost == Spec => []OneHotkey
BY DesktopInvariant, PTL DEF DesktopInv

\* Unless a save failed or two AppStates wrote at once, settings.json is what an
\* AppState has in memory.
THEOREM SettingsAreSaved == Spec => []SettingsSaved
BY DesktopInvariant, PTL DEF DesktopInv
=============================================================================
