# shmark in TLA+

shmark shares files between the devices and groups of a few people over iroh:
a *device* is a data directory and the process that owns it, a *group* is an
iroh-docs document replicated between its members, a *share* is an entry of that
document which names blobs. This directory models the parts of it that are hard
to test: pairing a second device, the shares of a group on several nodes, the
local files that remember groups, contacts and notes, the processes that may
serve a data directory, the tasks of the desktop process, the lists and
notifications of its window, and what a text on the clipboard resolves to. TLC
checks the models on small instances; TLAPS proves the most important facts for
all instances.

    tlc -workers 2 -config PairingStandalone.cfg MCPairing    # one run
    tlapm PairingProofs.tla                                   # one module's proofs

`PROJECT.json` lists the runs, the mutants that show each property can fail, the
source lines each definition stands for, the findings, the hazards and the
theorems.

## 1. Inventory

| Component | Source | State | Operations | Talks to |
|---|---|---|---|---|
| Pairing | `shmark-core/src/pairing.rs`, `devices_pair_*` in `shmark-api/src/dispatch.rs` | tokens pending per AppState (memory only) | mint a code; serve one connection: consume token, sign cert, gather tickets, answer; join: dial, save identity, save cert, import groups, ask for a reload | the other device (QUIC), identity, device, groups, reload |
| Identity, device | `identity.rs`, `device.rs` | `identity.json`, `device.json` (iroh key and cert) | load or create, save, replace cert | read at boot, overwritten by a join |
| Groups | `groups.rs`, `groups_*` handlers | index by namespace, `groups.json` | new, join, rename, mark seen, remove, share code | docs; pairing reads the file behind its back |
| Contacts and notes | `contacts.rs`, `contacts_*`, `groups_set_note`, `context_dump`, `resolve_recipient` | contacts by key, group notes by alias, `contacts.json` | upsert, remove, set note, resolve | groups (by alias) |
| Shares | `shares.rs`, `share_*`, `shares_list`, `groups_list` | doc entries, contents, blobs (iroh stores) | create from a file, directory or URL; list; auto-pin; preview; download; count unread | docs and blobs of other nodes |
| AppState | `state.rs`, `node.rs` | everything of one boot, behind `Arc` and `RwLock` | boot from disk, signal shutdown, settings changed, reload | all of the above |
| Socket server, daemon | `server.rs`, `shmark-cli/src/commands/daemon.rs`, `client.rs` | socket file, shutdown `Notify` | serve, accept, start, stop, status | AppState; other processes |
| Settings | `settings.rs`, `settings_set` | `settings.json`, `settings_changed` | get, set | hotkey watcher, auto-pin, resolver |
| Desktop shell | `shmark-tauri/src/main.rs`, `dev_consumer.rs`, `dev.rs` | managed `Arc<AppState>`, registered hotkey | start, reload, re-register the hotkey, dev bridge | AppState, window |
| Path resolver | `resolve.rs` | none | clipboard text to path, URL or candidates | file system |
| Frontend | `frontend/src` | lists last fetched, view, shares seen | poll every 3 s, open, share, settings, notify | RPC, events |
| CLI | `shmark-cli` | none | one RPC per command | socket |

Behaviour that is hard, by component:

* **Pairing.** A join is a round trip and then four kinds of saves with nothing
  atomic about them: connections break between the host's side effect and the
  answer, processes stop between two saves, two joins or a join and a
  `groups_new` interleave, the reload that follows may fail, may not be heard and
  leaves RPCs on the AppState of before. Correct means: a token is good for one
  join, in time, at the AppState that minted it; identity and cert belong
  together; groups imported stay; every call ends; both devices end with one identity.
* **Groups, contacts.** Whole-file saves by whoever holds the lock of *its*
  AppState, changes in memory that outlive a failed save, aliases that collide
  and change. Correct means: files are images of the memory of a live AppState
  as long as saves go well and do not overlap, nothing entered is forgotten, names
  resolve to what they name.
* **Shares.** Entries, their contents and the blobs they name travel apart and
  in any order, nodes come and go, clocks differ, fetches fail half-way. Correct
  means: no dangling share, append-only documents, downloads that are whole or
  fail, pins that are made up for, unread counts that reflect what was opened.
* **Daemon.** Nothing is locked: `exists`, `connect`, `remove_file`, `bind` and
  the opening of the stores are steps that those of other processes come between.
  Correct means: one listener at a time, whose socket file no other server takes
  away; who is told to stop ends; every call of the CLI returns.
* **Desktop.** Three long-lived tasks wait on `Notify`s that wake only who waits at
  that moment, one of them replaces the AppState the others hold, and the system
  may refuse a hotkey or not let go of one. Correct means: one hotkey of ours, the
  one the watcher will take back, besides those it could not; `settings.json` is
  somebody's settings; a reload that was asked for ends with the identity on disk.
* **Frontend.** A refresh is three calls served at different moments, several
  refreshes are in flight at once, and a reload empties what was seen. Correct
  means: no notification twice or for one's own shares, none missed, and lists
  that end up right whatever the order of the answers and whatever failed meanwhile.
* **Resolver, share form.** Walks of several roots stop at a limit and return
  files in no order; the form reads the clipboard once and calls may fail, be
  repeated or outlive the form. Correct means: what is unique is found, what is
  offered is the newest, what is shared was meant, and once.

## 2. Modules

| Module | Models | Abstract spec | Instances | Proofs |
|---|---|---|---|---|
| `Pairing` | pairing and everything a join touches, processes, reloads | `PairCodes` | `MCPairing` | `PairingProofs`, `PairingDiskProofs` |
| `Shares` | the shares of one group on many nodes | `ShareLog` | `MCShares` | `SharesProofs` |
| `Registry` | groups index, contacts, notes, names | | `MCRegistry` | `RegistryProofs` |
| `Daemon` | socket file, stores, processes, `daemon start` and `stop` | | `MCDaemon` | `DaemonProofs` |
| `Desktop` | `settings_set`, hotkey and reload watchers | | `MCDesktop` | `DesktopProofs` |
| `Inbox` | refreshes, lists and notifications of the window | | `MCInbox` | `InboxProofs` |
| `Resolve`, `Clipboard` | `resolve.rs`, and the form that shares what it finds | reference operators `Meant`, `Doubled` | `MCClipboard` | `ClipboardProofs` |

`Daemon` is about which process has the data directory. `Pairing`, `Shares` and
`Registry` describe what happens inside such a process, on its files and between
its node and others. `Desktop` is about the tasks of a desktop process, `Inbox`
and `Clipboard` about its window. What two modules both touch appears in each as
far as it matters there: the reload is the boot of a second AppState on the same
files in `Pairing`, two indexes for one file in `Registry`, the hand-over between
watchers in `Desktop`, and an identity and a list that change between two calls
in `Inbox`. `Clipboard` extends `Resolve`; `Shares` implements
`ShareLog` and `Pairing` implements `PairCodes`.

### Pairing

`app[d][b]` is the AppState of boot `b` of device `d`. A reload does not end an
AppState, it starts another: the socket server and the RPCs in flight keep the
one they cloned. So `live` (its process runs) and `open` (its iroh endpoint
accepts) are per boot, and the lock `groups.write()` (`saving`) is too, while
`idFile`, `certFile`, `groupsFile` and `docs` are per device. An identity is
named by the device that created it; a cert by the identity that signed it;
signatures and keys are not modelled beyond that.

`join[j]` is one call of `devices_pair_join`, and its `phase` says which of its
awaits or saves it is at:

    idle -> dialled -> served -> gathering -> answered -> savingIdentity -> savedIdentity
         -> savingDevice -> savedDevice (-> imported -> savingGroups -> savedDevice)* -> done

`fs::write` truncates and then writes: the first step leaves `Torn`, the second the
content, or a mix of two if another writer came between (`Written`). Every save may
also fail, before the truncation or after it (`CutOff`), and those of identity and
device after the write too, when the permissions are set. The call then errs with
its process alive; an index keeps the group it could not save, and `saved` of its
AppState says whether its latest save went well. The host side takes three steps:
`HandleRequest` (token consumed, cert signed), `GatherTickets`, in which
`gather_group_tickets` reads the file without the lock of the index, and `Respond`,
after its loop has opened and shared one group after the other. The loop passes over
those that are missing or err, so any part of what was read is sent. Between
`Reload` and `CloseOldNode` two nodes have one key, and either may get a connection.
`Crash` kills a process anywhere; `daemon_stop` is the same for RPCs in flight,
which nobody waits for.

`signal_reload` is `notify_waiters`: `Finish` wakes the watcher only if it waits
at that moment on the `Notify` of the AppState the join runs on (`Heard`). Only
devices in `Desktops` have a watcher. `ReloadMayFail` says whether booting a
second AppState beside the first may fail for reasons outside this repository
(the stores of the old node are still open at that time). Left out: the
`display_name` and `created_at` of identities; the aliases of tickets and
`groups_remove` (see `Registry`), which takes a group off the index on request and
leaves its document, so that a host that is gathering shares it all the same.

`PairCodes` is the promise of the codes all devices show: a code becomes good
when it is shown, is redeemed by one join within its time, and what is no longer
good never is again. `Promise == INSTANCE PairCodes` maps `shown` to the moment a
code was minted (`ShownAt`), `good` to the tokens that are pending at an AppState
whose endpoint is open (`Offered`) and `given` to the token a join got an identity
for (`Given`). An aged code may stay pending until the next one is shown; a kill, a
reload's closing of the old node and an unanswerable request are `Void`, and all
that concerns files and groups is a stutter.

### Shares

One group. `entries`, `content` and `blobs` are what each node has of the
document, of the contents of its entries and of the items of shares. The three
travel apart: iroh-docs brings the first two (`SyncEntry`, `SyncContent`,
external), shmark asks iroh-blobs for the third. `Connected` is both nodes
online. `draft[id]` is a `create` at work, one blob at a time; `Publish` is
`publish_record`. `Listable` is the condition under which `Shares::list`
succeeds; `Poll`, previews, downloads and the unread count all start there.
`Provider` is the author's node, the one source the code offers the downloader.
`auto_pin` tasks (`pin`) pass over items they cannot fetch; `download` gives up
at the first. Every member is a person of its own, so "author is not me" is a
comparison of nodes.

`seenAt` is `last_seen_at` of the group in memory and `seenFile` that in
`groups.json`, which a restart goes back to. `groups_mark_seen` writes both
(`MarkSeen`), or changes memory and fails (`MarkSeenFails`); `groups_join` and
`devices_pair_join` of a group that is there put a new entry in its place, seen
never (`Rejoin`). `listed` and `looked` are what the user was last shown, and what
had been shown when a mark was saved since the group was last joined; they exist for
the properties on unread counts and influence nothing. `Skew` is how far a node's
wall clock is ahead. A download fails at an item that cannot be fetched or cannot be
exported; a create may fail anywhere, or hang, as a URL is fetched without a limit
of time.

`ShareLog` is the promise: an append-only log, of which every member has a part
that grows out of what others have. `Shares` names the refinement
`Log == INSTANCE ShareLog WITH record <- record, entries <- entries`;
`AppendOnly == Log!Spec` is checked as a property and proved as `ImplementsLog`.

### Registry

`app[b].groups` and `app[b].book` are `Groups` and `Contacts` of one AppState. Each
operation changes memory and truncates the file (`PutGroups`, `PutBook`) and writes
it in a later step (`GroupsWritten`, `BookWritten`), under a lock of its own
AppState that is held over both. With `Reloads` two AppStates may be live at once,
as after a reload of the desktop (`forked`), and their locks do not keep each
other's saves apart: the two may overlap (`mixed`), and what either leaves is its
own content or a mix (`Outcomes`). `SavesFail` is the set of files whose save may
fail: before it truncates or in the write, with the change left in memory, as the
code does. `groups_set_note` is two steps since it takes two locks one after the
other. `docs` (the documents that exist, so that `groups_new` makes a new one) and
`entered` (the groups whose entry returned Ok) record what really happened, for the
properties. `created_locally` is left out: nothing reads it but the list that is
shown.

### Daemon

`phase[p]` is where process `p` is between its start and its end, and it runs
once; a restart is another process:

    unborn (-> looking -> probing -> clearing)  the desktop's setup
      -> booting -> booted (-> unlinking) -> binding -> permitting -> serving
      -> stopping -> closing -> gone            a daemon
      -> stopping -> unserved                   the desktop: its server is a task

`socket` is the process whose listener the file `shmark.sock` was bound by, which
may be dead, or alive and unlinked. `Owners` are the processes between boot and
end, which have the stores open. `StoresExclusive` says that iroh's stores refuse
a second process: an assumption on code outside the repository, and the one that
"exactly one process that owns the Iroh data dir" (SPEC.md:112) rests on, as
nothing in the repository keeps two daemons from booting. Each system call of
`serve` may fail (`ServeFails`). `told` are the processes whose `Notify` was
signalled; `notify_one` leaves a permit, so that is a set and not an event.

A `call` is a `daemon start` or `daemon stop` with the steps of `client::call`:
look, connect, be accepted, be answered, or see the connection close (`HangUp`),
which happens to those still in the backlog when the listener is dropped, and to
those accepted by a process that ends first. `Die` is a kill, a crash or the
tray's "Quit", which leave the file behind.

### Desktop

`settings[b]` is the settings of the AppState of boot `b`; the hotkey stands for
all fields, as it is the only one another task reads. `call[c]` is one
`settings_set`: it holds the write lock from the change in memory to the end of
the save, which takes two steps and may fail, and signals only after the lock is
released. `Wakes` is `notify_waiters`: the hotkey watcher hears a change only if
it waits at that moment, and only on the AppState of the start (boot 1), whose
`Notify` it keeps through reloads. `registered` is what the system has accepted
from us; `Refused` are the accelerators it turns down and `Sticky` those it may not
let go of, which `register_hotkey` and `unregister_hotkey` log and go on from.

`join[j]` is a join as the desktop sees it: the identity file truncated and written,
either of which may fail or be mixed with that of another join, and `signal_reload`,
unless a step before it fails. `reloader` reads the identity first and the settings
last, so what is written between the two belongs to no single moment. `Desktop` has
the order of these reads, `Pairing` what the reload does to nodes, tokens and groups.

### Inbox

`refresh[r]` is one run of `refresh()` in `App.tsx`: `identity_show`,
`shares_list` (and `groups_list`, which nothing here depends on) are called at
once and each is served by the AppState managed when it is served, in either
order. `shares`, `bootError` are what is shown; `seen`, `firstLoad`,
`notificationsReady` are the refs. `Reloaded` is the `shmark://reloaded` event,
which empties `seen`. `crossed` records that a refresh was in flight when the
AppState or the refs were replaced: it marks the exception the properties make.
`RefreshFails` may happen to any refresh at any time: `shares_list` errs as a whole
when a single group cannot be listed. `GroupsRemove` and `GroupsJoin` take a group's
shares off the list and put them back. `notified` counts, since a share was last put
on or taken off the list, to two, which is enough to see a second time.

### Resolve and Clipboard

A path is the sequence of its segments. `Resolve(t, searchRoots, present)` is the
set of what `paths_resolve` may return for a trimmed text, the configured roots and
the files there are: a walk meets the files under its root in no fixed order, so a
search that stops at `HardLimit` may keep any of the last root's, and files of one
age may be truncated either way. A file under two roots is met twice. `Skipped` are
the pairs of a root and a file that the walk of that root passes over (hidden or
ignored from there, too deep). `Meant` is the reference: the files under the roots
whose path ends in the text. `Defaults` keeps each of the default roots that exist
at its place in the list, since only the order of the roots matters.

`Clipboard` is the form: opened by hotkey or button, it reads the clipboard and
resolves it once (`asked` is what it found in that instant), offers candidates
and submits. A submitted call goes on when the form is closed, and its success
closes whichever form is then open.

### Settings

`auto_pin` is on in `Shares`, its default (`settings.rs:41`); the hotkey is in
`Desktop`, `search_roots` are in `Resolve`.

## 3. Properties and runs

"Fair" runs use `FairSpec`. States are distinct states found.

| Run | Checks | States | Shows |
|---|---|---|---|
| PairingStandalone | `TypeOK`, `TokenHonouredOnce`, `CodesAreOneTime`, `SplitNeedsInterruption`, `ImportedGroupStays`, `IndexOnDisk`, `OneIdentityWhenPaired` | 1.9 M | two daemons, two joins in either direction, a kill, failing saves, a clock past the TTL |
| PairingReload (fair) | `JoinEnds` | 132 k | a desktop with two reloads that may fail, failing saves, a response that is too long: no join waits for ever |
| SharesSafe (fair) | `TypeOK`, `SharesRecoverable`, `DownloadedWhole`, `ReadStaysRead`, `AppendOnly`, `EverythingPinned` | 293 k | two members, the reader's clock ahead, two shares with a blob in common, failing marks, a group joined again |
| RegistrySafe | `TypeOK`, `SavedIsOnDisk`, `NothingForgotten` | 302 k | groups, contacts and notes; failing saves, restart, two live AppStates whose saves of one file overlap |
| DaemonSafe (fair) | `TypeOK`, `OneListener`, `OwnSocketOnly`, `DaemonEnds`, `CallEnds` | 233 k | two daemons and the desktop, a start and a stop, ctrl-c and deaths anywhere |
| DesktopSafe (fair) | `TypeOK`, `OneHotkey`, `SettingsSaved`, `IdentityFollows`, `HotkeyFollows` | 78 k | two `settings_set` on two AppStates, a refused hotkey and one that sticks, a join and its reload |
| InboxSafe (fair) | `TypeOK`, `NotifiedOnce`, `OwnNotNotified`, `ShownForGood`, `ArrivalsNotified` | 158 k | two refreshes at once that may fail, a group removed and joined, two reloads |
| ClipboardSafe | `TypeOK`, `UniqueResolves`, `NewestOffered`, `SharedIsMeant`, `SharedOnce` | 56 k | all subsets of six files, nested, hidden and missing roots, ten texts, three forms |

`ImportedGroupStays` and `OneIdentityWhenPaired` leave out devices in `Desktops`,
whose reload leaves two AppStates that overwrite each other's files: TLC finds a
counterexample to the first on a desktop. No device of
`PairingStandalone` is one, which is the strict case; the theorems cover any mix of
daemons and desktops.

### Where the code does not do what it says

Each of these runs checks one sentence of the documentation or of a comment and
TLC finds a behaviour of the code that contradicts it; `PROJECT.json` quotes them.

| Run | Statement | What happens |
|---|---|---|
| PairingSplit | the cert proves whose the device is | the second save of a join fails, or a kill comes before it; boot checks the signature only |
| SharesShown | an entry propagates as soon as one peer connects | one entry without content hides the group |
| DaemonStop | `daemon stop` shuts the daemon down | the desktop's socket server ends, the process and its hold on the stores stay |
| DesktopHotkey | the hotkey is re-registered when `settings_set` changes it | a change made on the AppState of a reload signals a `Notify` nobody waits on |

Other statements the code does not keep, met while reading. No run checks them;
most follow from a definition at once, so that a run would only repeat it:

* SPEC.md:371, both devices have the same view of groups: a host whose
  `groups.json` is being rewritten sends no ticket (`pairing.rs:204`), and a group
  that cannot be opened or shared is passed over (`pairing.rs:216-234`), so the
  joiner may be sent none of them or a part.
* SPEC.md:371, both devices end with one identity: the pair handler serves the
  identity of its boot (`pairing.rs:180`), which on a standalone daemon that has
  just joined is not the one on disk. `OneIdentityWhenPaired` has exactly this
  exception.
* `main.rs:154-156`, reload lets the new identity take effect without a restart:
  the socket server keeps the old AppState, and the two then overwrite each
  other's `groups.json`. `NothingForgotten` holds only while `~forked`.
* `main.rs:262-264`, RPCs in flight have migrated when the old node is shut down:
  an RPC holds the `Arc` it cloned when it began (`main.rs:32`). `ImportFails`
  and `RefreshFails` are what comes of it.
* `main.rs:144-145`, the hotkey is re-registered dynamically: one that the system does
  not let go of stays beside the new one (`main.rs:295-297`), one that is set while
  the watcher switches is not heard of (`main.rs:309-316`), and `DesktopHotkey`
  above is a third way.
* `dispatch.rs:418-421`, a join's reload picks the new identity up: nobody waits
  for it in `shmark daemon foreground`, and the desktop's watcher keeps the old
  state if it meets a half-written `groups.json` (`main.rs:240`).
* SPEC.md:309 on other peers as sources: the author's node is the only provider
  asked (`shares.rs:369`).
* `groups.rs:21-22`, opening the group clears its count: `groups_list` counts a
  group it cannot list as having nothing unread (`dispatch.rs:67`), a clock that
  runs ahead of the reader's keeps its shares unread after the group was opened, a
  share written before that and synced after it never counts (`dispatch.rs:76`), and
  joining the group again or a mark that could not be saved brings read shares back.
* `groups.rs:17`, `created_locally` tells who made the group: joining it again
  overwrites the flag (`dispatch.rs:160`).
* SPEC.md:59, a routing note is attached to a group: it is kept by alias and a
  rename leaves it behind (`contacts.rs:128`).
* `dispatch.rs:564-565`, `none` means nothing matched: a name that two groups
  have is answered `none` too (`dispatch.rs:580`).
* README.md:53-54, the CLI reaches whoever owns the socket: a `start` or a desktop
  that found nobody at the socket removes the file later (`daemon.rs:93`,
  `main.rs:102`), which may by then be that of a daemon that has begun to listen.
  `OwnSocketOnly` allows exactly this.

### Bounds

* Pairing: two devices can pair in both directions, two joins can overlap on one
  device or cross; two tokens are one per join or one contended by both;
  `MaxTime = TTL = 1` reaches the last moment a token is good and the first it is
  not; one crash per behaviour suffices to cut any step off and `MaxBoots` of 2
  or 3 to live on after it. `MaxTickets = 1` with two groups lets a response be
  too long: `RejectResponse` happens in both runs. `PairingReload` has no crashes and
  no clock, so that two reloads fit. Joins are symmetric in `PairingStandalone`: no
  definition tells one from another (it checks safety only).
* Shares: one member shares, the other polls and downloads; two shares with a
  common blob are what it takes for a fetch that serves both. The clock makes one
  tick, so that a share is written before, at and after marking seen. The reader's
  clock is one ahead (`ReaderAhead`), so that stamps of the two nodes meet in every
  order with a mark that covers them; where the author's is ahead the property makes
  its exception, and the theorem has any skews. A peer
  other than the author is never asked for a blob, so a third member adds no
  source; the theorems hold for any number.
* Registry: two namespaces under one name collide, two boots are one restart or one
  reload. `MCRegistry!OneAtATime` lets the clock move only where no reload has left
  two AppStates, since times matter for unread counts, which no property there
  reads, and lets one of the two files at a time be at odds with memory, since no
  property relates them: each alone fills the run. One name, one person and one note
  are in the run, and only saves of the index fail; the theorems cover any number
  and failures of both. Namespaces and names are symmetric: no property or action
  picks one.
* Daemon: of three processes one can hold the stores, one be on its way to them
  and one be the desktop; a start and a stop overlap with each other and with
  everything the processes do by themselves. More calls add nothing that two
  kinds of them, ctrl-c and launches by hand do not do; the theorems hold for
  any number.
* Desktop: two calls of `settings_set` may meet on one AppState or write from two;
  of the three accelerators one is refused and one may stick, and `NoKey` is a
  fourth value; one join and one reload make the second AppState.
* Inbox: two refreshes can overtake each other, and each of two reloads can cross
  them. No step treats one share by another, so that each property of one share has
  its counterexample in a run with that share alone: there from the start or
  arriving, removed, joined, imported, by others or one's own. A third refresh adds
  no order two of them do not have; the theorems hold for any number of both.
* Clipboard: six files give one name in several directories, two under nested
  roots, two of one age, one that is ignored and one that is hidden from one root and
  not from another. `HardLimit` is 3 and `MaxShown` 2
  instead of 50 and 5, so that both are reached. Three forms: one whose call is
  under way, one opened meanwhile, one after.

`CHECK_DEADLOCK FALSE` in all: every counter is bounded, so each model stops.
Runs fire all actions between them.

### Fairness

* Pairing: weak fairness of the steps of a spawned task while its process runs
  (tokio polls what is ready), of the watcher, of the holder of the lock, and of
  `LoseConnection` once the host is gone (QUIC's idle timeout). No fairness for
  users, clocks, crashes, starts, connections that are merely slow, or for
  `FinishNewGroup` of a killed process.
* Shares: weak fairness of the poll (an interval timer of the window), of `auto_pin`
  tasks and of iroh-docs between reachable nodes. None for creates, whose fetch of a
  URL has no timeout (`shares.rs:138-147`), nor for going online or restarts:
  `EverythingPinned` says what happens *if* everybody stays online.
* Daemon: weak fairness of what a running process or call does next; strong
  fairness of `GiveUp`, which is enabled again and again while `start` polls, since
  its deadline is five seconds and they pass. None for users, kills and failing
  `accept`s.
* Desktop: weak fairness of the hotkey watcher, of the reload watcher and of each
  `settings_set` under way, all tasks that tokio polls when they are ready. None for
  joins, which wait for the network.
* Inbox: weak fairness of the three-second timer, of each refresh under way (its
  calls are answered or fail) and of the delivery of the reload event. None for
  shares, joins and the permission. Nothing keeps calls from failing for good, one
  entry without content is enough: `ShownForGood` and `ArrivalsNotified` say what
  happens *if* they stop (`NoMoreFailures`).

## 4. Proofs

All proofs are in `*Proofs.tla`, checked by TLAPS without assumptions other than
the `ASSUME`s on constants in the component modules, which TLC evaluates in
every run. No instance size enters.

* `PairingProofs`. `TokenHonouredOnce` is not inductive, nor is `HonouredInTime`,
  that a join got its identity in time and from the AppState that minted its code.
  `TokenInv` adds that a dialled token has been minted (`DialledCodes`), that a
  join's issuer is set exactly from `served` on (`CallShape`), that a pending
  token was minted by the very AppState that has it (`PendingIsMinted`), and that
  the token of an honoured join is pending nowhere (`HonouredIsSpent`). The last
  is the argument: serving takes the token out of the one AppState that can have
  it, boots start with none, and no token is minted twice. Theorems:
  `TypeCorrect`, `TokenSingleUse`, `TokenInTime`.
  `CodesKeepPromise` is the refinement of `PairCodes`, step by step: `CreateCode` is
  `Show` (`CreateShows`: dropping aged codes only shrinks what is good),
  `HandleRequest` is `Redeem`, or `Void` if it refuses (`HandleRedeems`: under
  `TokenInv` the join has no identity yet and its token is pending at this AppState
  alone), `Tick` is `Pass`, and every other action leaves the codes or only closes an
  AppState (`QuietVoids`).
* `PairingDiskProofs`, in layers. `IndexInv`: only an AppState that was booted and
  whose process runs is live, open or locked (`LiveIsBooted`); a call under way is
  on a live one (`CallsLive`) and holds the lock while it saves (`LockHeld`); the
  file of a *sole* live AppState is its index unless its latest save failed or,
  while the lock is held, torn (`FileOfSoleIndex`). A second AppState may write what
  it likes: the statement is about a device only when one is left, which comes about
  by a start, and that reads the file. Gives `IndexIsOnDisk`. `CertInv`: two calls
  have saved an identity on a device, or one has and the files are as it left them
  (`LeftBy`), or none has and they are as at first, or one stopped in its save of
  the identity and anything may be there (`CertOf`). Gives `SplitIsInterrupted`.
  `DeskInv` is about the devices that are no desktops, whatever the desktops among
  their peers do. Only the latest AppState of such a device is live (`OneBoot`).
  Then what a join imported is in the file and in every live index (`ImportedStay`):
  only the save that completes an import adds to it, and that save begins with the
  file torn and the group in the index. And identities: the one on disk is that of
  the boot unless a join since replaced it (`BootIds`), a join is given that of the
  AppState that served it, desktop or not (`IssuedBy`), and has it on disk once
  saved unless another join of the device saves (`SavedIds`). Theorems
  `ImportedGroupsStay`, `PairedIsOneIdentity`. Last, what joins wait for.
  `LocksAreHeldByTheLiving`: who has the lock of an index is in a running process
  and writes that index next, waiting for nobody (`HolderSaves`), so no kill, lost
  connection or reload leaves a lock behind. `JoinsGoForward`: each step that
  concerns a join raises its `Stage`, or takes one group off the finite set it was
  sent and returns to import the next (`ImportsFromTodo`: it only imports what it
  has still to import). It is the decreasing measure behind `JoinEnds`.
* `SharesProofs`. `ShareInv` adds to `SharesRecoverable` that the blobs a draft
  has counted are in its author's store, under an id nothing was published
  under (`DraftsInStore`), and that a download at
  item *i* has exported all items before *i* (`DownloadsInOrder`). Theorems:
  `SharesTypeCorrect`, `NoShareDangles`, `DownloadsAreWhole`, and `ImplementsLog`
  (initial states map to initial states; each action is `Publish`, `Replicate` or
  a stutter of `ShareLog`, under `TypeOK`). `SeenStaysSeen` proves
  `ReadStaysRead` for any skews: what was marked was written no later than both marks,
  in memory and, if it is not torn, in the file, unless its author's clock is ahead of
  the reader's (`SeenInOrder`).
* `RegistryProofs`. `RegInv` is `TypeOK` and `SavedIsOnDisk` with the fact that the
  latest boot is live, which is who a file falls to when the others stop. A save that
  ends leaves the whole index of its AppState or, if another began meanwhile, a file
  that counts as mixed until a save begins alone.
  `EnteredKept` says that an entered group is in the memory of the one live
  AppState too, from which a later save writes it.
  Theorems: `RegistryTypeCorrect`, `FilesAreImages` and, with no reloads,
  `NoGroupForgotten`.
* `DaemonProofs`. `DaemonInv` is `TypeOK`, that a connected call knows to whom
  (`PeerKnown`), and that two processes never have the stores open at once
  (`OneOwner`), which is inductive as a boot requires that nobody has. A process
  listens only while it is an owner, which gives `OneServer`; and a server that
  removes a socket file is an owner, so the file is not that of another listener
  (`NoForeignUnlink`). Both under `StoresExclusive`.
  `ProcessesOnlyAge` is the measure behind `DaemonEnds`: each step of a process raises
  its `Age`, `serve` has no way back to its accept loop. `StopReachesItsPeer`: whom a
  `daemon stop` reached has booted, is who it then signals, and a daemon (unlike the
  desktop, which lives on as `unserved`) that has booted is serving, about to, or on
  its way out (`StopInv`).
* `DesktopProofs`. `DesktopInv` is `TypeOK` with: a reload under way has room for
  its boot (`RoomToBoot`), `OneHotkey` (inductive), a `settings_set` is served by
  an AppState there is (`SetOnServed`), and `SettingsSaved` (inductive with it: a save
  that nobody disturbed writes the memory of its AppState, which its lock keeps as
  it is). Theorems: `DesktopTypeCorrect`, `OneHotkeyAtMost`, `SettingsAreSaved`.
* `InboxProofs`. As long as nothing has crossed, what was notified and is not gone from
  every list (`Gone`) is in `seen`,
  or after a reload in the list of every refresh that may be the first to settle
  (`NotifiedIsSeen`), the identity a refresh was told is the current one
  (`IdentityIsCurrent`), and what was notified is by others (`OthersNotified`) and
  was counted once (`OnceEach`). Always, a refresh only lists what the AppState has
  or had (`KnownWasListed`) and each reload is heard of once (`Heard`). Since the set
  that is compared with is read when the refresh settles and not when it began,
  overlapping refreshes notify once.
  Theorems: `InboxTypeCorrect`, `NoDoubleNotification`, `OwnSharesAreSilent`.
  Two more are the steps that `ShownForGood` and `ArrivalsNotified` rest on. The
  refreshes that asked before a share was listed (`Behind`) become fewer and never
  more, and a listed share disappears only by the settling of one of them
  (`OnlyLateRefreshesForget`). With permission and after the first load a share of
  somebody else enters `seen` only together with its notification
  (`ArrivalsAreNotPassedOver`).
* `ClipboardProofs`. Lemmas about `Resolve` for all files, roots and texts: what
  kind of answer it gives (`ResolvedKind`), that having a suffix is being a
  concatenation (`SuffixSplits`), and that all it offers is meant
  (`OffersAreMeant`). Theorems: `ClipboardTypeCorrect`, `OnlyMeantIsShared` and
  `OneShareEach`, by `OneCallEach`: a form's calls under way and shares made are one
  together, and none while it can be submitted.
  `UniqueIsResolved` and `NewestAreOffered` are about how many matches there are. What
  the walks meet is finite (`MetIsFinite`) and, root by root, just what the text means
  (`MetIsMeant`, with `SplitIsSuffix` as the converse of `SuffixSplits`); a limit that
  a finite set does not exceed leaves all of it (`LimitLeavesAll`), so what is
  offered are the newest of all that was met (`OffersTheNewest`). The assumptions
  are that the files are finitely many and the roots sequences of paths.

Every invariant and action property of a passing run, and both refinements, are
proved. Only model-checked are the liveness properties (`JoinEnds`,
`EverythingPinned`, `DaemonEnds`, `CallEnds`, `IdentityFollows`, `HotkeyFollows`,
`ShownForGood`, `ArrivalsNotified`): they need fairness, hence `ENABLED`, which is out
of the prover's reach, and an induction over the measures. Of four of them the part
that is safety is proved: the measures never go back, and locks have live holders.
That the next step is enabled and taken is what TLC adds. No definition is
recursive.

## 5. Not modelled, and why

* Cryptography (assumed to work), the wire formats, QUIC, iroh-docs set
  reconciliation and the blob protocol (external: modelled by what the code relies
  on), names, descriptions and sizes of shares, logging, JSON and rendering.
* The CLI's commands but `daemon`: one call of the API each and a printout.
* Read-only handlers: `resolve_recipient` (two lookups that `Registry` has as
  `Resolves`), `context_dump`, `groups_share_code`, `devices_list`,
  `settings_get`.
* Read-only share codes: a reader cannot publish, which shrinks what the model
  allows. Several groups on one node: each has its own document and the handlers
  treat them one by one, except that `shares_list` without a group fails as a
  whole when one group does.
* The note form of `GroupView.tsx`. It keeps a draft and makes one call; its
  hazards are in strings: the note is found in the markdown of `context_dump` by a
  pattern into which the alias goes unescaped, a draft survives a change of alias
  and is then saved under the other group, and a note ends at its first blank
  line.
* Of the form: pressing the hotkey while it is open does nothing; `file://` texts
  are not percent-decoded; `default_roots` names `code` and `Code`, which is one
  directory twice where case does not count, so that each file is met twice
  (`UniqueResolves` excludes files under two roots).
* The dev bridge (`dev.rs`, `dev_consumer.rs`), with which tests drive the window: a
  queue with one consumer, which takes a request when the one before is answered.
* Settings other than those named above, the tray, windows and the
  single-instance plugin of the toolkit.

## 6. What could come next

A composition of `Pairing`'s files with `Desktop`'s watchers, so that one run
shows a join, the reload it asks for and the settings written meanwhile; the two
nodes with one key, which is where iroh's own behaviour starts to matter; the
daemon's `status`. Of proofs: `Registry` as an implementation of an abstract
register of groups, the measures of `EverythingPinned` (a blob that is had is never
lost) and of `CallEnds` (a call never goes back, except to poll).
