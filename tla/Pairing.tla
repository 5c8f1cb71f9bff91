------------------------------ MODULE Pairing ------------------------------
(***************************************************************************)
(* Multi-device pairing (shmark-core/src/pairing.rs, the devices_pair_*    *)
(* handlers of shmark-api/src/dispatch.rs, AppState::boot and the reload   *)
(* watcher of shmark-tauri).                                               *)
(*                                                                         *)
(* A device is a data directory (identity.json, device.json, groups.json   *)
(* and the iroh-docs store) and the process that owns it.  The process     *)
(* holds one AppState per boot: a reload builds a new AppState while the   *)
(* socket server and the RPCs in flight keep the old one.  A join is one   *)
(* call of devices_pair_join: its network round trip and its saves are     *)
(* separate steps, so that crashes and other calls come between them.      *)
(*                                                                         *)
(* An identity is named by the device that generated it.                   *)
(***************************************************************************)
EXTENDS Naturals, FiniteSets

CONSTANTS
  Devices, Tokens, Joins, Namespaces,
  Desktops,      \* the devices run by shmark-tauri: only it watches for reloads
  Home,          \* the groups each device has before anything is paired
  TTL,           \* TOKEN_TTL, in ticks of the clock
  MaxTickets,    \* how many tickets fit in MAX_MSG_BYTES
  ReloadMayFail, \* whether booting beside the old node may fail by itself
  MaxTime, MaxBoots, MaxCrashes,   \* bounds of the model
  None, Torn

Boots == 1..MaxBoots
Times == 0..MaxTime
Codes == [host : Devices, boot : Boots, at : Times]   \* PairCode, and when it was minted

ASSUME PairingAssumption ==
  /\ Desktops \subseteq Devices
  /\ Home \in [Devices -> SUBSET Namespaces]
  /\ TTL \in Nat \ {0} /\ MaxTickets \in Nat /\ ReloadMayFail \in BOOLEAN
  /\ MaxTime \in Nat /\ MaxBoots \in Nat \ {0} /\ MaxCrashes \in Nat
  /\ Devices # {} /\ Tokens # {}
  /\ \A code \in Codes : code # None
  /\ None \notin Devices \cup Joins \cup Namespaces \cup Tokens \cup Times
  /\ Torn \notin Devices /\ \A gs \in SUBSET Namespaces : Torn # gs
  /\ "rpc" \notin Joins \cup {None}

VARIABLES
  now,        \* the monotonic clock behind Instant
  crashes,
  codes,      \* token -> the pairing code that carries it, None before it is minted
  app,        \* the AppState of each boot of each device
  current,    \* device -> its latest boot
  watcher,    \* device -> where its reload watcher is
  idFile,     \* identity.json
  certFile,   \* the cert in device.json, by the identity that signed it
  groupsFile, \* groups.json
  docs,       \* the namespaces replicated in the iroh-docs store
  join        \* the devices_pair_join calls

vars == <<now, crashes, codes, app, current, watcher,
          idFile, certFile, groupsFile, docs, join>>
disk == <<idFile, certFile, groupsFile, docs>>

AppStates ==
  [live     : BOOLEAN,            \* the process that booted it still runs
   open     : BOOLEAN,            \* its iroh node accepts connections
   identity : Devices,
   pending  : SUBSET Tokens,      \* PairingHost.pending; the Instant is codes[t].at
   groups   : SUBSET Namespaces,
   saved    : BOOLEAN,            \* the latest save of groups.json went well
   saving   : Joins \cup {None, "rpc"}]   \* who holds groups.write() and is saving

Phases == {"idle", "dialled", "served", "gathering", "answered",
           "savingIdentity", "savedIdentity", "savingDevice", "savedDevice", "imported",
           "savingGroups", "done", "failed"}

JoinCalls ==
  [phase    : Phases,
   reached  : Phases,             \* the phase it failed in
   dev      : Devices,
   boot     : Boots,
   token    : Tokens,
   servedBy : Boots,              \* the host's AppState that took the token
   servedAt : Times,
   issuer   : Devices \cup {None},  \* whose identity and cert it was given
   tickets  : SUBSET Namespaces,  \* while the host gathers: the groups it read
   todo     : SUBSET Namespaces,  \* tickets still to import
   ns       : Namespaces \cup {None}]

\* AppState::boot: identity and groups come from disk, no token is pending.
Booted(id, gs) ==
  [live |-> TRUE, open |-> TRUE, identity |-> id, pending |-> {},
   groups |-> gs, saved |-> TRUE, saving |-> None]

NotBooted(d) == [Booted(d, {}) EXCEPT !.live = FALSE, !.open = FALSE]

NotCalled ==
  [phase |-> "idle", reached |-> "idle", dev |-> CHOOSE d \in Devices : TRUE,
   boot |-> 1, token |-> CHOOSE t \in Tokens : TRUE, servedBy |-> 1, servedAt |-> 0,
   issuer |-> None, tickets |-> {}, todo |-> {}, ns |-> None]

Init ==
  /\ now = 0
  /\ crashes = 0
  /\ codes = [t \in Tokens |-> None]
  /\ app = [d \in Devices |-> [b \in Boots |->
             IF b = 1 THEN Booted(d, Home[d]) ELSE NotBooted(d)]]
  /\ current = [d \in Devices |-> 1]
  /\ watcher = [d \in Devices |-> "waiting"]
  /\ idFile = [d \in Devices |-> d]
  /\ certFile = [d \in Devices |-> d]
  /\ groupsFile = Home
  /\ docs = Home
  /\ join = [j \in Joins |-> NotCalled]

-----------------------------------------------------------------------------
Up(d) == app[d][current[d]].live
Intact(d) == Torn \notin {idFile[d], certFile[d], groupsFile[d]}
InFlight(j) == join[j].phase \notin {"idle", "done", "failed"}
OnTheWire(j) == join[j].phase \in {"dialled", "served", "gathering", "answered"}
Host(j) == codes[join[j].token].host

Failed(j) == [join[j] EXCEPT !.phase = "failed", !.reached = join[j].phase]
Fail(j) == join' = [join EXCEPT ![j] = Failed(j)]
Goto(j, phase) == join' = [join EXCEPT ![j].phase = phase]

\* fs::write truncates, then writes.  What a write leaves when another one got
\* in after the truncation: the new content, or the two of them mixed.
Written(old, new) == IF old \in {Torn, new} THEN {new} ELSE {new, Torn}

\* What is left when it fails after the truncation.
CutOff(old) == {old, Torn}

FreshInclusive(t) == now - codes[t].at <= TTL
Fresh(t) == now - codes[t].at < TTL

\* Groups::upsert
Replaced(groups, n) == {n}
Upserted(groups, n) == groups \cup {n}
Unsaved(s, n) == [s EXCEPT !.groups = Upserted(@, n), !.saved = FALSE]

\* Groups::save serialises the whole index of its own AppState.
SerialisedAtStart(d, b) == Home[d]
Serialised(d, b) == app[d][b].groups

\* groups.write() of one AppState: other AppStates have locks of their own.
Unlocked(d, b) == app[d][b].saving = None
KeepLock(s) == s
Unlock(s) == [s EXCEPT !.saving = None]
Released(s, ok) == [Unlock(s) EXCEPT !.saved = ok]

-----------------------------------------------------------------------------
(* The host.                                                               *)

\* mint_token inserts the token first and purges afterwards.
Minted(pending, t) == {u \in pending : Fresh(u)} \cup {t}

\* devices_pair_create, on any AppState whose node is still open.
CreateCode(d, b, t) ==
  /\ app[d][b].open
  /\ codes[t] = None
  /\ codes' = [codes EXCEPT ![t] = [host |-> d, boot |-> b, at |-> now]]
  /\ app' = [app EXCEPT ![d][b].pending = Minted(@, t)]
  /\ UNCHANGED <<now, crashes, current, watcher, disk, join>>

KeepToken(pending, t) == pending
Consumed(pending, t) == pending \ {t}

\* PairProtocol::handle up to the signed cert.  Between the boot of a new node
\* and the shutdown of the old one either of them may take the connection.
\* A token found expired is consumed like one found valid.
HandleRequest(j, b) ==
  LET h == Host(j)
      t == join[j].token
      s == app[h][b]
  IN /\ join[j].phase = "dialled"
     /\ s.open
     /\ app' = [app EXCEPT ![h][b].pending = Consumed(@, t)]
     /\ IF t \in s.pending /\ Fresh(t)
        THEN join' = [join EXCEPT ![j].phase = "served", ![j].servedBy = b,
                                  ![j].servedAt = now, ![j].issuer = s.identity]
        ELSE Fail(j)
     /\ UNCHANGED <<now, crashes, codes, current, watcher, disk>>

\* gather_group_tickets reads groups.json, not the index in memory; a file it
\* cannot parse yields no ticket.
Listed(h) == IF groupsFile[h] = Torn THEN {} ELSE groupsFile[h]

GatherTickets(j) ==
  /\ join[j].phase = "served"
  /\ app[Host(j)][join[j].servedBy].open
  /\ join' = [join EXCEPT ![j].phase = "gathering", ![j].tickets = Listed(Host(j)),
                          ![j].todo = Listed(Host(j))]
  /\ UNCHANGED <<now, crashes, codes, app, current, watcher, disk>>

\* Each group it read is then opened and shared in turn; one whose doc is missing or
\* cannot be opened or shared is passed over, and the rest is sent.
Respond(j) ==
  /\ join[j].phase = "gathering"
  /\ app[Host(j)][join[j].servedBy].open
  /\ \E sent \in SUBSET (join[j].tickets \cap docs[Host(j)]) :
       join' = [join EXCEPT ![j].phase = "answered", ![j].tickets = sent, ![j].todo = sent]
  /\ UNCHANGED <<now, crashes, codes, app, current, watcher, disk>>

\* groups_new: create the doc, enter the group in the index and begin the save,
\* all but the first under groups.write(), which FinishNewGroup releases.
NewGroup(d, b, n) ==
  /\ app[d][b].open
  /\ Unlocked(d, b)
  /\ \A e \in Devices : n \notin docs[e]
  /\ docs' = [docs EXCEPT ![d] = @ \cup {n}]
  /\ app' = [app EXCEPT ![d][b].groups = Upserted(@, n), ![d][b].saving = "rpc"]
  /\ groupsFile' = [groupsFile EXCEPT ![d] = Torn]
  /\ UNCHANGED <<now, crashes, codes, current, watcher, idFile, certFile, join>>

\* The save fails before it has touched the file: the index keeps the group.
NewGroupFails(d, b, n) ==
  /\ app[d][b].open
  /\ Unlocked(d, b)
  /\ \A e \in Devices : n \notin docs[e]
  /\ docs' = [docs EXCEPT ![d] = @ \cup {n}]
  /\ app' = [app EXCEPT ![d][b] = Unsaved(@, n)]
  /\ UNCHANGED <<now, crashes, codes, current, watcher, idFile, certFile, groupsFile, join>>

FinishNewGroup(d, b) ==
  /\ app[d][b].saving = "rpc"
  /\ \E content \in Written(groupsFile[d], Serialised(d, b)) :
       groupsFile' = [groupsFile EXCEPT ![d] = content]
  /\ app' = [app EXCEPT ![d][b] = Released(@, TRUE)]
  /\ UNCHANGED <<now, crashes, codes, current, watcher, idFile, certFile, docs, join>>

FinishNewGroupFails(d, b) ==
  /\ app[d][b].saving = "rpc"
  /\ \E content \in CutOff(groupsFile[d]) : groupsFile' = [groupsFile EXCEPT ![d] = content]
  /\ app' = [app EXCEPT ![d][b] = Released(@, FALSE)]
  /\ UNCHANGED <<now, crashes, codes, current, watcher, idFile, certFile, docs, join>>

-----------------------------------------------------------------------------
(* The joiner: devices_pair_join.                                          *)

\* pair_join dials the address in the code (iroh refuses to dial oneself).
Dial(j, d, b, t) ==
  /\ join[j].phase = "idle"
  /\ app[d][b].open
  /\ codes[t] # None
  /\ codes[t].host # d
  /\ join' = [join EXCEPT ![j] = [NotCalled EXCEPT !.phase = "dialled", !.dev = d,
                                                   !.boot = b, !.token = t]]
  /\ UNCHANGED <<now, crashes, codes, app, current, watcher, disk>>

\* The connection breaks or times out: whatever the host did stays done.
LoseConnection(j) ==
  /\ OnTheWire(j)
  /\ Fail(j)
  /\ UNCHANGED <<now, crashes, codes, app, current, watcher, disk>>

Readable(j) == Cardinality(join[j].tickets) <= MaxTickets

\* The response is read, its cert verified, and identity.json truncated.
SaveIdentity(j) ==
  /\ join[j].phase = "answered"
  /\ Readable(j)
  /\ idFile' = [idFile EXCEPT ![join[j].dev] = Torn]
  /\ Goto(j, "savingIdentity")
  /\ UNCHANGED <<now, crashes, codes, app, current, watcher, certFile, groupsFile, docs>>

\* read_to_end(MAX_MSG_BYTES) rejects a longer response.
RejectResponse(j) ==
  /\ join[j].phase = "answered"
  /\ ~Readable(j)
  /\ Fail(j)
  /\ UNCHANGED <<now, crashes, codes, app, current, watcher, disk>>

WriteIdentity(j) ==
  LET d == join[j].dev IN
  /\ join[j].phase = "savingIdentity"
  /\ \E content \in Written(idFile[d], join[j].issuer) :
       idFile' = [idFile EXCEPT ![d] = content]
  /\ Goto(j, "savedIdentity")
  /\ UNCHANGED <<now, crashes, codes, app, current, watcher, certFile, groupsFile, docs>>

\* Identity::save fails: before the truncation, in the write, or after it, when the
\* permissions cannot be set.
SaveIdentityFails(j) ==
  LET d == join[j].dev IN
  /\ \/ join[j].phase = "answered" /\ Readable(j) /\ UNCHANGED idFile
     \/ /\ join[j].phase = "savingIdentity"
        /\ \E content \in CutOff(idFile[d]) \cup {join[j].issuer} :
             idFile' = [idFile EXCEPT ![d] = content]
  /\ Fail(j)
  /\ UNCHANGED <<now, crashes, codes, app, current, watcher, certFile, groupsFile, docs>>

\* Device::load, replace_cert, and the truncation of device.json.
ReplaceCert(j) ==
  LET d == join[j].dev IN
  /\ join[j].phase = "savedIdentity"
  /\ IF certFile[d] = Torn
     THEN Fail(j) /\ UNCHANGED certFile
     ELSE Goto(j, "savingDevice") /\ certFile' = [certFile EXCEPT ![d] = Torn]
  /\ UNCHANGED <<now, crashes, codes, app, current, watcher, idFile, groupsFile, docs>>

CertOfOldIdentity(j) == app[join[j].dev][join[j].boot].identity
NoCert(j) == None
NewCert(j) == join[j].issuer   \* resp.signed_cert; it names the node that dialled

WriteDevice(j) ==
  LET d == join[j].dev IN
  /\ join[j].phase = "savingDevice"
  /\ \E content \in Written(certFile[d], NewCert(j)) :
       certFile' = [certFile EXCEPT ![d] = content]
  /\ Goto(j, "savedDevice")
  /\ UNCHANGED <<now, crashes, codes, app, current, watcher, idFile, groupsFile, docs>>

\* Device::save fails, likewise.
SaveDeviceFails(j) ==
  LET d == join[j].dev IN
  /\ \/ join[j].phase = "savedIdentity" /\ UNCHANGED certFile
     \/ /\ join[j].phase = "savingDevice"
        /\ \E content \in CutOff(certFile[d]) \cup {NewCert(j)} :
             certFile' = [certFile EXCEPT ![d] = content]
  /\ Fail(j)
  /\ UNCHANGED <<now, crashes, codes, app, current, watcher, idFile, groupsFile, docs>>

ImportDoc(j, n) ==
  /\ join[j].phase = "savedDevice"
  /\ n \in join[j].todo
  /\ app[join[j].dev][join[j].boot].open
  /\ docs' = [docs EXCEPT ![join[j].dev] = @ \cup {n}]
  /\ join' = [join EXCEPT ![j].phase = "imported", ![j].ns = n]
  /\ UNCHANGED <<now, crashes, codes, app, current, watcher, idFile, certFile, groupsFile>>

\* `docs.import(ticket).await?` fails; it always does once the node is shut down.
ImportFails(j) ==
  /\ join[j].phase = "savedDevice"
  /\ join[j].todo # {}
  /\ Fail(j)
  /\ UNCHANGED <<now, crashes, codes, app, current, watcher, disk>>

\* groups.write().upsert: the index of the AppState this call started on.
UpsertGroup(j) ==
  LET d == join[j].dev
      b == join[j].boot
  IN /\ join[j].phase = "imported"
     /\ Unlocked(d, b)
     /\ app' = [app EXCEPT ![d][b].groups = Upserted(@, join[j].ns), ![d][b].saving = j]
     /\ groupsFile' = [groupsFile EXCEPT ![d] = Torn]
     /\ Goto(j, "savingGroups")
     /\ UNCHANGED <<now, crashes, codes, current, watcher, idFile, certFile, docs>>

WriteGroups(j) ==
  LET d == join[j].dev
      b == join[j].boot
  IN /\ join[j].phase = "savingGroups"
     /\ \E content \in Written(groupsFile[d], Serialised(d, b)) :
          groupsFile' = [groupsFile EXCEPT ![d] = content]
     /\ app' = [app EXCEPT ![d][b] = Released(@, TRUE)]
     /\ join' = [join EXCEPT ![j].phase = "savedDevice", ![j].ns = None,
                             ![j].todo = @ \ {join[j].ns}]
     /\ UNCHANGED <<now, crashes, codes, current, watcher, idFile, certFile, docs>>

\* Groups::save fails before the truncation, or in the write: the index of this
\* AppState keeps the group, and the call fails.
UpsertFails(j) ==
  LET d == join[j].dev
      b == join[j].boot
  IN /\ join[j].phase = "imported"
     /\ Unlocked(d, b)
     /\ app' = [app EXCEPT ![d][b] = Unsaved(@, join[j].ns)]
     /\ Fail(j)
     /\ UNCHANGED <<now, crashes, codes, current, watcher, disk>>

WriteGroupsFails(j) ==
  LET d == join[j].dev
      b == join[j].boot
  IN /\ join[j].phase = "savingGroups"
     /\ \E content \in CutOff(groupsFile[d]) : groupsFile' = [groupsFile EXCEPT ![d] = content]
     /\ app' = [app EXCEPT ![d][b] = Released(@, FALSE)]
     /\ Fail(j)
     /\ UNCHANGED <<now, crashes, codes, current, watcher, idFile, certFile, docs>>

\* signal_reload is notify_waiters: it wakes the watcher only if the watcher
\* waits at this moment, and on the Notify of this very AppState.
Heard(d, b) == d \in Desktops /\ watcher[d] = "waiting" /\ current[d] = b

Finish(j) ==
  LET d == join[j].dev IN
  /\ join[j].phase = "savedDevice"
  /\ join[j].todo = {}
  /\ watcher' = IF Heard(d, join[j].boot)
                THEN [watcher EXCEPT ![d] = "booting"] ELSE watcher
  /\ Goto(j, "done")
  /\ UNCHANGED <<now, crashes, codes, app, current, disk>>

-----------------------------------------------------------------------------
(* The processes: reload, stop, restart.                                   *)

FromDiskButIdentity(d) == Booted(app[d][current[d]].identity, groupsFile[d])
FromDisk(d) == Booted(idFile[d], groupsFile[d])

\* The watcher boots a new AppState from disk beside the old one and swaps it in.
Reload(d) ==
  /\ watcher[d] = "booting"
  /\ Intact(d)
  /\ current[d] < MaxBoots
  /\ current' = [current EXCEPT ![d] = @ + 1]
  /\ app' = [app EXCEPT ![d][current[d] + 1] = FromDisk(d)]
  /\ watcher' = [watcher EXCEPT ![d] = "closing"]
  /\ UNCHANGED <<now, crashes, codes, disk, join>>

\* "AppState reload failed; keeping old state".
ReloadFails(d) ==
  /\ watcher[d] = "booting"
  /\ ReloadMayFail \/ ~Intact(d)
  /\ watcher' = [watcher EXCEPT ![d] = "waiting"]
  /\ UNCHANGED <<now, crashes, codes, app, current, disk, join>>

\* old.node.shutdown(); the AppState itself lives on in whoever cloned it.
CloseOldNode(d) ==
  /\ watcher[d] = "closing"
  /\ app' = [app EXCEPT ![d][current[d] - 1].open = FALSE]
  /\ watcher' = [watcher EXCEPT ![d] = "waiting"]
  /\ UNCHANGED <<now, crashes, codes, current, disk, join>>

Killed(s) == [s EXCEPT !.live = FALSE, !.open = FALSE, !.saving = None]

\* The process stops at any point: killed, or daemon_stop, which does not wait
\* for the handlers in flight.
Crash(d) ==
  /\ Up(d)
  /\ crashes < MaxCrashes
  /\ crashes' = crashes + 1
  /\ app' = [app EXCEPT ![d] = [b \in Boots |-> Killed(app[d][b])]]
  /\ watcher' = [watcher EXCEPT ![d] = "waiting"]
  /\ join' = [j \in Joins |-> IF InFlight(j) /\ join[j].dev = d THEN Failed(j) ELSE join[j]]
  /\ UNCHANGED <<now, codes, current, disk>>

\* AppState::boot refuses a file it cannot parse, and asks nothing else of them:
\* load_or_create verifies the cert, not that it names the identity it loaded.
Start(d) ==
  /\ ~Up(d)
  /\ Intact(d)
  /\ current[d] < MaxBoots
  /\ current' = [current EXCEPT ![d] = @ + 1]
  /\ app' = [app EXCEPT ![d][current[d] + 1] = FromDisk(d)]
  /\ UNCHANGED <<now, crashes, codes, watcher, disk, join>>

Tick ==
  /\ now < MaxTime
  /\ now' = now + 1
  /\ UNCHANGED <<crashes, codes, app, current, watcher, disk, join>>

-----------------------------------------------------------------------------
HostStep ==
  \/ \E d \in Devices, b \in Boots :
       \/ \E t \in Tokens : CreateCode(d, b, t)
       \/ \E n \in Namespaces : NewGroup(d, b, n) \/ NewGroupFails(d, b, n)
       \/ FinishNewGroup(d, b) \/ FinishNewGroupFails(d, b)
  \/ \E j \in Joins : GatherTickets(j) \/ Respond(j) \/ \E b \in Boots : HandleRequest(j, b)

JoinStep(j) ==
  \/ SaveIdentity(j) \/ RejectResponse(j) \/ WriteIdentity(j) \/ SaveIdentityFails(j)
  \/ ReplaceCert(j) \/ WriteDevice(j) \/ SaveDeviceFails(j)
  \/ \E n \in Namespaces : ImportDoc(j, n)
  \/ ImportFails(j) \/ UpsertGroup(j) \/ UpsertFails(j)
  \/ WriteGroups(j) \/ WriteGroupsFails(j) \/ Finish(j)

ProcessStep(d) ==
  Reload(d) \/ ReloadFails(d) \/ CloseOldNode(d) \/ Crash(d) \/ Start(d)

Next ==
  \/ HostStep
  \/ \E j \in Joins :
       \/ \E d \in Devices, b \in Boots, t \in Tokens : Dial(j, d, b, t)
       \/ LoseConnection(j)
       \/ JoinStep(j)
  \/ \E d \in Devices : ProcessStep(d)
  \/ Tick

Spec == Init /\ [][Next]_vars

\* What the runtime guarantees: a spawned task makes progress while its process
\* runs, and QUIC closes a connection whose other end is gone.
HostGone(j) ==
  LET open == {b \in Boots : app[Host(j)][b].open} IN
  IF join[j].phase \in {"served", "gathering"} THEN join[j].servedBy \notin open ELSE open = {}

Fairness ==
  /\ \A j \in Joins :
       /\ WF_vars(JoinStep(j))
       /\ WF_vars(\E b \in Boots : HandleRequest(j, b))
       /\ WF_vars(GatherTickets(j) \/ Respond(j))
       /\ WF_vars(OnTheWire(j) /\ HostGone(j) /\ LoseConnection(j))
  /\ \A d \in Devices :
       /\ WF_vars(Reload(d) \/ ReloadFails(d))
       /\ WF_vars(CloseOldNode(d))
       /\ WF_vars(\E b \in Boots : FinishNewGroup(d, b) \/ FinishNewGroupFails(d, b))

FairSpec == Spec /\ Fairness

-----------------------------------------------------------------------------
\* The types of the variables.
TypeOK ==
  /\ now \in Times
  /\ crashes \in 0..MaxCrashes
  /\ codes \in [Tokens -> Codes \cup {None}]
  /\ app \in [Devices -> [Boots -> AppStates]]
  /\ current \in [Devices -> Boots]
  /\ watcher \in [Devices -> {"waiting", "booting", "closing"}]
  /\ idFile \in [Devices -> Devices \cup {Torn}]
  /\ certFile \in [Devices -> Devices \cup {Torn}]
  /\ groupsFile \in [Devices -> {Torn} \cup SUBSET Namespaces]
  /\ docs \in [Devices -> SUBSET Namespaces]
  /\ join \in [Joins -> JoinCalls]

Honoured(j) == join[j].issuer # None

\* "The token is consumed exactly once" (pairing.rs:25): however often a code is
\* dialled, and whatever becomes of the response, two joins never get an
\* identity from the same token.
TokenHonouredOnce ==
  \A j, k \in Joins :
    j # k /\ Honoured(j) /\ Honoured(k) => join[j].token # join[k].token

\* A token is honoured before its TTL is over, and only by the AppState that
\* minted it: a reload or a restart of the host voids the codes it has shown.
HonouredInTime ==
  \A j \in Joins : Honoured(j) =>
    LET code == codes[join[j].token] IN
    /\ code # None
    /\ join[j].servedBy = code.boot
    /\ join[j].servedAt - code.at < TTL

\* The tokens that an AppState which still answers would take.
ShownAt(t) == IF codes[t] = None THEN None ELSE codes[t].at
Offered ==
  {t \in Tokens : codes[t] # None /\ LET s == app[codes[t].host][codes[t].boot] IN
                                     s.open /\ t \in s.pending}
Given(j) == IF Honoured(j) THEN join[j].token ELSE None

\* All hosts together keep the promise of PairCodes: a code is redeemed once, in time,
\* at the AppState that showed it, and once it is spent or void nothing, no restart,
\* reload or second request, makes it good again.
Promise == INSTANCE PairCodes WITH
  shown <- [t \in Tokens |-> ShownAt(t)],
  good  <- Offered,
  given <- [j \in Joins |-> Given(j)]
CodesAreOneTime == Promise!Spec

Saves(j) == {join[j].phase, join[j].reached} \cap
            {"savedIdentity", "savingDevice", "savedDevice", "imported", "savingGroups", "done"}

Stopped(j) == "savedIdentity" \in Saves(j) \/ join[j].reached = "savingIdentity"

\* identity.json and the cert of device.json name different identities only
\* while a join is between its two saves, after one was cut off there or failed when
\* it saved the identity, or when two joins of the same device both saved.
SplitNeedsInterruption ==
  \A d \in Devices :
    LET savers == {j \in Joins : join[j].dev = d /\ Saves(j) # {}} IN
    Torn \notin {idFile[d], certFile[d]} /\ idFile[d] # certFile[d] =>
      \/ \E j \in Joins : join[j].dev = d /\ Stopped(j)
      \/ \E j, k \in savers : j # k

\* A group that a join imported stays in groups.json: later saves of the same
\* index, other joins, stops and restarts do not lose it.  A desktop that reloads
\* saves from two indexes.
ImportedGroupStays ==
  \A j \in Joins :
    LET d == join[j].dev IN
    \/ d \in Desktops
    \/ groupsFile[d] = Torn
    \/ join[j].tickets \ join[j].todo \subseteq groupsFile[d]

LiveBoots(d) == {b \in Boots : app[d][b].live}

\* Whenever nobody is saving and the latest save did not fail, groups.json holds what
\* the only live index holds, also the groups whose own save failed before: a restart
\* forgets nothing that an RPC was told is there.
IndexOnDisk ==
  \A d \in Devices : \A b \in Boots :
    LiveBoots(d) = {b} /\ app[d][b].saving = None /\ app[d][b].saved =>
      groupsFile[d] = app[d][b].groups

Replaces(j) == Saves(j) # {} \/ "savingIdentity" \in {join[j].phase, join[j].reached}

\* After a completed join both devices have one identity on disk, the host a boot
\* after a join of its own too, unless another join replaced that of the joiner, or
\* that of the host since it booted.  On a desktop a join may run on an old AppState
\* and replace it after the new one booted.
OneIdentityWhenPaired ==
  \A j \in Joins : join[j].phase = "done" /\ Host(j) \notin Desktops =>
    \/ idFile[join[j].dev] = idFile[Host(j)]
    \/ \E k \in Joins \ {j} :
         /\ Replaces(k)
         /\ \/ join[k].dev = join[j].dev
            \/ join[k].dev = Host(j) /\ join[k].boot >= join[j].servedBy

\* Every join that has begun comes to an end: no lost message, dead host or
\* held lock leaves devices_pair_join waiting.
JoinEnds == \A j \in Joins : InFlight(j) ~> ~InFlight(j)

-----------------------------------------------------------------------------
(* A statement of the documentation that the code does not keep.           *)

\* "the cert proves the device belongs to a human identity" (device.rs:64): a
\* device that runs with no join in flight has a cert from its own identity.
CertProvesIdentity ==
  \A d \in Devices :
    Up(d) /\ (\A j \in Joins : InFlight(j) => join[j].dev # d) => certFile[d] = idFile[d]
=============================================================================
