------------------------------- MODULE Desktop ------------------------------
(***************************************************************************)
(* The tasks of the desktop process around its AppStates: settings_set and *)
(* the watcher that registers the hotkey, and the watcher that replaces    *)
(* the AppState when a join asks for it (main.rs, settings.rs, identity.rs,*)
(* dispatch.rs).                                                           *)
(*                                                                         *)
(* Boot 1 is the AppState of the start.  The socket server and the hotkey  *)
(* watcher keep it for good; a call of the window is served by the AppState*)
(* that is managed when the call comes.  A tokio Notify wakes by           *)
(* notify_waiters only who waits on that very Notify at that moment.       *)
(***************************************************************************)
EXTENDS Naturals

CONSTANTS
  Accelerators,      \* what a hotkey can be set to
  NoKey,             \* the empty accelerator: no hotkey
  Default,           \* the hotkey of a device that has no settings.json
  Refused,           \* the accelerators that the system does not let us register
  Sticky,            \* and those that it may not let go of
  Sets, Joins,       \* calls of settings_set and devices_pair_join, each made once
  MaxBoots,          \* bound of the model: how many AppStates there may be
  OwnId,             \* the identity before any join; a join brings an identity of its own
  None, Torn

Boots == 1..MaxBoots
Hotkeys == Accelerators \cup {NoKey}
Ids == {OwnId} \cup Joins

ASSUME DesktopAssumption ==
  /\ MaxBoots \in Nat \ {0}
  /\ Default \in Hotkeys /\ Refused \subseteq Accelerators /\ Sticky \subseteq Accelerators
  /\ NoKey \notin Accelerators
  /\ None \notin Hotkeys
  /\ Torn \notin Hotkeys \cup Ids

VARIABLES
  settings,      \* boot -> AppState.settings: its hotkey, all that anybody here reads
  settingsFile,  \* settings.json
  call,          \* the calls of settings_set
  hotkey,        \* the hotkey watcher: where it is, `last`, `new_hotkey`
  registered,    \* the accelerators the system sends us
  identity,      \* boot -> AppState.identity
  idFile,        \* identity.json
  join,          \* the joins
  reloader,      \* the reload watcher: where it is, on which boot, what it has read
  current        \* the managed AppState

vars == <<settings, settingsFile, call, hotkey, registered, identity, idFile, join,
          reloader, current>>
keys == <<hotkey, registered>>
ids == <<identity, idFile, join, reloader, current>>

Calls == [phase : {"idle", "saving", "saved", "failed", "done"}, boot : Boots, mixed : BOOLEAN]
HotkeyWatchers ==
  [phase : {"setup", "starting", "waiting", "woken", "switching"}, last : Hotkeys, new : Hotkeys]
JoinCalls == [phase : {"idle", "writing", "written", "done"}, boot : Boots, mixed : BOOLEAN]
Reloaders ==
  [phase : {"starting", "waiting", "requested", "booting", "booted", "swapped"},
   boot : Boots, id : Ids]

Init ==
  /\ settings = [b \in Boots |-> Default]
  /\ settingsFile = settings[1]
  /\ call = [c \in Sets |-> [phase |-> "idle", boot |-> 1, mixed |-> FALSE]]
  /\ hotkey = [phase |-> "setup", last |-> NoKey, new |-> NoKey]
  /\ registered = {}
  /\ identity = [b \in Boots |-> OwnId]
  /\ idFile = OwnId
  /\ join = [j \in Joins |-> [phase |-> "idle", boot |-> 1, mixed |-> FALSE]]
  /\ reloader = [phase |-> "starting", boot |-> 1, id |-> OwnId]
  /\ current = 1

-----------------------------------------------------------------------------
(* settings_set.  The write lock of one AppState's settings is held from   *)
(* the change in memory to the end of the save, and released before the    *)
(* watcher is told.                                                        *)

Locked(b) == \E c \in Sets : call[c].phase = "saving" /\ call[c].boot = b

\* A call that gives no hotkey changes the other fields only.
Set(s, h) == IF h = None THEN s ELSE h

\* Served by socket or window; fs::write truncates the file first, if it can open it.
SettingsSet(c, b, h) ==
  /\ call[c].phase = "idle" /\ b \in {1, current} /\ ~Locked(b)
  /\ settings' = [settings EXCEPT ![b] = Set(@, h)]
  /\ settingsFile' \in {settingsFile, Torn}
  /\ call' = [call EXCEPT ![c] = [phase |-> "saving", boot |-> b, mixed |-> FALSE]]
  /\ UNCHANGED <<keys, ids>>

\* What two AppStates write to the file at once may end up in one another.
SaveEnds(c, phase) ==
  /\ call[c].phase = "saving"
  /\ call' = [d \in Sets |->
       IF d = c THEN [call[d] EXCEPT !.phase = phase]
       ELSE [call[d] EXCEPT !.mixed = @ \/ call[d].phase = "saving"]]
  /\ UNCHANGED <<settings, keys, ids>>

Saved(b) == settings[b]

Save(c) ==
  /\ SaveEnds(c, "saved")
  /\ settingsFile' \in {Saved(call[c].boot)} \cup (IF call[c].mixed THEN {Torn} ELSE {})

\* The call returns the error, and what it has changed in memory stays; the file is
\* as it was, or cut off.
SaveErrorIgnored(c) == SaveEnds(c, "saved") /\ settingsFile' \in {settingsFile, Torn}
SaveFails(c) ==
  /\ SaveEnds(c, "failed")
  /\ settingsFile' \in {settingsFile, Torn}

\* signal_settings_changed
Wakes(b) == hotkey.phase = "waiting" /\ b = 1

SettingsChanged(c) ==
  /\ call[c].phase = "saved"
  /\ call' = [call EXCEPT ![c].phase = "done"]
  /\ hotkey' = IF Wakes(call[c].boot) THEN [hotkey EXCEPT !.phase = "woken"] ELSE hotkey
  /\ UNCHANGED <<settings, settingsFile, registered, ids>>

-----------------------------------------------------------------------------
(* The hotkey watcher, and the registration in setup before it.            *)

WithEmpty(accel) == registered \cup ({accel} \ Refused)
With(accel) == registered \cup ({accel} \ (Refused \cup {NoKey}))

\* register_hotkey, unregister_hotkey
Register(accel) == registered' = With(accel)
StaysRegistered(accel) == registered' = registered
Unregister(accel) ==
  \/ registered' = registered \ {accel}
  \/ accel \in Sticky /\ registered' = registered

\* setup registers the hotkey it finds, when the socket is served already.
SetupHotkey ==
  /\ hotkey.phase = "setup" /\ ~Locked(1)
  /\ Register(settings[1])
  /\ hotkey' = [hotkey EXCEPT !.phase = "starting", !.last = settings[1]]
  /\ UNCHANGED <<settings, settingsFile, call, ids>>

AwaitChange ==
  /\ hotkey.phase = "starting"
  /\ hotkey' = [hotkey EXCEPT !.phase = "waiting"]
  /\ UNCHANGED <<settings, settingsFile, call, registered, ids>>

SameHotkey ==
  /\ hotkey.phase = "woken" /\ ~Locked(1)
  /\ settings[1] = hotkey.last
  /\ hotkey' = [hotkey EXCEPT !.phase = "waiting"]
  /\ UNCHANGED <<settings, settingsFile, call, registered, ids>>

UnregisterLast ==
  /\ hotkey.phase = "woken" /\ ~Locked(1)
  /\ settings[1] # hotkey.last
  /\ Unregister(hotkey.last)
  /\ hotkey' = [hotkey EXCEPT !.phase = "switching", !.new = settings[1]]
  /\ UNCHANGED <<settings, settingsFile, call, ids>>

RegisterOnly ==
  /\ hotkey.phase = "switching"
  /\ Register(hotkey.new)
  /\ hotkey' = [hotkey EXCEPT !.phase = "waiting"]
  /\ UNCHANGED <<settings, settingsFile, call, ids>>
RegisterNew ==
  /\ hotkey.phase = "switching"
  /\ Register(hotkey.new)
  /\ hotkey' = [hotkey EXCEPT !.phase = "waiting", !.last = hotkey.new]
  /\ UNCHANGED <<settings, settingsFile, call, ids>>

HotkeyStep == SetupHotkey \/ AwaitChange \/ SameHotkey \/ UnregisterLast \/ RegisterNew

-----------------------------------------------------------------------------
(* A join, as far as this process sees it (Pairing has the whole): the     *)
(* identity is replaced on disk, then signal_reload.                       *)

\* fs::write truncates the file first, if it can open it.
JoinWrites(j, b) ==
  /\ join[j].phase = "idle" /\ b \in {1, current}
  /\ join' = [join EXCEPT ![j] = [phase |-> "writing", boot |-> b, mixed |-> FALSE]]
  /\ idFile' \in {idFile, Torn}
  /\ UNCHANGED <<settings, settingsFile, call, keys, identity, reloader, current>>

\* What two joins write to the file at once may end up in one another.
WriteEnds(j, phase) ==
  /\ join[j].phase = "writing"
  /\ join' = [k \in Joins |->
       IF k = j THEN [join[k] EXCEPT !.phase = phase]
       ELSE [join[k] EXCEPT !.mixed = @ \/ join[k].phase = "writing"]]
  /\ UNCHANGED <<settings, settingsFile, call, keys, identity, reloader, current>>

JoinWrote(j) ==
  /\ WriteEnds(j, "written")
  /\ idFile' \in {j} \cup (IF join[j].mixed THEN {Torn} ELSE {})

\* The file cannot be opened, written or protected: it may be any of old, cut off, new.
JoinWriteFails(j) == WriteEnds(j, "done") /\ idFile' \in {idFile, Torn, j}

\* A later step of the join fails: nobody is told of the identity it has written.
JoinFails(j) ==
  /\ join[j].phase = "written"
  /\ join' = [join EXCEPT ![j].phase = "done"]
  /\ UNCHANGED <<settings, settingsFile, call, keys, identity, idFile, reloader, current>>

Requested(b) == reloader.phase = "waiting" /\ reloader.boot = b

SignalReload(j) ==
  /\ join[j].phase = "written"
  /\ join' = [join EXCEPT ![j].phase = "done"]
  /\ reloader' = IF Requested(join[j].boot) THEN [reloader EXCEPT !.phase = "requested"]
                 ELSE reloader
  /\ UNCHANGED <<settings, settingsFile, call, keys, identity, idFile, current>>

-----------------------------------------------------------------------------
(* The reload watcher.                                                     *)

AwaitRequest ==
  /\ reloader.phase \in {"starting", "swapped"}
  /\ reloader' = [reloader EXCEPT !.phase = "waiting", !.boot = current]
  /\ UNCHANGED <<settings, settingsFile, call, keys, identity, idFile, join, current>>

\* boot_with_dev reads the identity first ...
IdentityAsItWas == identity[current]
IdentityOnDisk == idFile

ReadIdentity ==
  /\ reloader.phase = "requested" /\ idFile # Torn
  /\ current < MaxBoots
  /\ reloader' = [reloader EXCEPT !.phase = "booting", !.id = IdentityOnDisk]
  /\ UNCHANGED <<settings, settingsFile, call, keys, identity, idFile, join, current>>

\* ... and the settings last, without the lock of those that write them.
ReadSettings ==
  /\ reloader.phase = "booting" /\ settingsFile # Torn
  /\ settings' = [settings EXCEPT ![current + 1] = settingsFile]
  /\ identity' = [identity EXCEPT ![current + 1] = reloader.id]
  /\ reloader' = [reloader EXCEPT !.phase = "booted"]
  /\ UNCHANGED <<settingsFile, call, keys, idFile, join, current>>

\* A file cannot be read, or the stores are still open: the old AppState stays.
ReloadFails ==
  /\ reloader.phase \in {"requested", "booting"}
  /\ reloader' = [reloader EXCEPT !.phase = "waiting"]
  /\ UNCHANGED <<settings, settingsFile, call, keys, identity, idFile, join, current>>

Swap ==
  /\ reloader.phase = "booted"
  /\ current' = current + 1
  /\ reloader' = [reloader EXCEPT !.phase = "swapped"]
  /\ UNCHANGED <<settings, settingsFile, call, keys, identity, idFile, join>>

ReloadStep == AwaitRequest \/ ReadIdentity \/ ReadSettings \/ ReloadFails \/ Swap

-----------------------------------------------------------------------------
SetStep(c) == Save(c) \/ SaveFails(c) \/ SettingsChanged(c)

JoinStep(j) == JoinWrote(j) \/ JoinWriteFails(j) \/ JoinFails(j) \/ SignalReload(j)

Next ==
  \/ \E c \in Sets :
       \/ \E b \in Boots, h \in Hotkeys \cup {None} : SettingsSet(c, b, h)
       \/ SetStep(c)
  \/ HotkeyStep \/ ReloadStep
  \/ \E j \in Joins : (\E b \in Boots : JoinWrites(j, b)) \/ JoinStep(j)

Spec == Init /\ [][Next]_vars

\* Tasks that have work go on.
FairSpec ==
  Spec /\ WF_vars(HotkeyStep) /\ WF_vars(ReloadStep) /\ \A c \in Sets : WF_vars(SetStep(c))

-----------------------------------------------------------------------------
(* What must hold.                                                         *)

TypeOK ==
  /\ settings \in [Boots -> Hotkeys] /\ settingsFile \in Hotkeys \cup {Torn}
  /\ call \in [Sets -> Calls]
  /\ hotkey \in HotkeyWatchers /\ registered \in SUBSET Accelerators
  /\ identity \in [Boots -> Ids] /\ idFile \in Ids \cup {Torn}
  /\ join \in [Joins -> JoinCalls] /\ reloader \in Reloaders
  /\ current \in Boots

\* Through any number of changes and refusals the system has the accelerator that the
\* watcher will take back next, none during a switch, and besides it only such as it did
\* not let go of, which the watcher forgets.
Mine == IF hotkey.phase \in {"setup", "switching"} THEN {}
        ELSE {hotkey.last} \ (Refused \cup {NoKey})
OneHotkey == Mine \subseteq registered /\ registered \ Mine \subseteq Sticky

\* Unless a save failed, or two AppStates wrote at once, settings.json is what one
\* AppState has in memory: a settings_set that returned Ok is there after a restart
\* until some other call has written.
SettingsSaved ==
  (\A c \in Sets : call[c].phase \notin {"saving", "failed"} /\ ~call[c].mixed)
    => \E b \in 1..current : settingsFile = settings[b]

\* A reload that was asked for ends with the identity that is on disk in the managed
\* AppState, unless it fails or the identity is written again.
IdentityFollows ==
  \A i \in Joins, b \in Boots :
    (reloader.phase = "requested" /\ current = b /\ idFile = i)
      ~> (identity[current] = i \/ idFile # i \/ (reloader.phase = "waiting" /\ current = b))

\* A change that finds the watcher waiting is registered in the end, unless another
\* change of the hotkey comes first.
HotkeyFollows ==
  \A h \in Hotkeys :
    (hotkey.phase = "woken" /\ settings[1] = h)
      ~> (hotkey.last = h \/ settings[1] # h)

\* main.rs:144: "We re-register dynamically when the user changes it via settings_set".
HotkeyChanges ==
  \A c \in Sets, b \in Boots, h \in Hotkeys :
    (call[c].phase = "saved" /\ call[c].boot = b /\ settings[b] = h
       /\ hotkey.phase = "waiting")
      ~> (hotkey.last = h \/ settings[b] # h)
=============================================================================
