------------------------- MODULE PairingDiskProofs -------------------------
(***************************************************************************)
(* Proofs about what Pairing leaves on disk: groups.json holds the index,  *)
(* identity.json and device.json differ only after an interruption, and,   *)
(* where nothing reloads, imported groups stay and paired devices have one *)
(* identity.                                                               *)
(***************************************************************************)
EXTENDS PairingProofs

-----------------------------------------------------------------------------
(* What steps do to calls and AppStates, field by field.                   *)

\* The one call j is in phase p now and had reached r; nothing else of it changed,
\* and no other call did.
Moves(j, p, r) ==
  /\ \A k \in Joins \ {j} : join'[k] = join[k]
  /\ join'[j].phase = p /\ join'[j].reached = r
  /\ join'[j].dev = join[j].dev /\ join'[j].boot = join[j].boot
  /\ join'[j].token = join[j].token /\ join'[j].servedBy = join[j].servedBy
  /\ join'[j].issuer = join[j].issuer
  /\ join'[j].tickets = join[j].tickets /\ join'[j].todo = join[j].todo
  /\ join'[j].ns = join[j].ns

\* A call that fails or goes on moves.
LEMMA MovesWhen ==
  ASSUME TypeOK, NEW j \in Joins
  PROVE  /\ Fail(j) => Moves(j, "failed", join[j].phase)
         /\ \A p \in Phases : Goto(j, p) => Moves(j, p, join[j].reached)
<1>1. join \in [Joins -> JoinCalls] /\ join[j] \in JoinCalls
  BY DEF TypeOK
<1>2. ASSUME Fail(j)
      PROVE  Moves(j, "failed", join[j].phase)
  <2>1. join'[j] = Failed(j) /\ \A k \in Joins \ {j} : join'[k] = join[k]
    BY <1>1, <1>2 DEF Fail
  <2> QED BY <1>1, <2>1 DEF Moves, Failed, JoinCalls
<1>3. ASSUME NEW p \in Phases, Goto(j, p)
      PROVE  Moves(j, p, join[j].reached)
  <2>1. join'[j] = [join[j] EXCEPT !.phase = p] /\ \A k \in Joins \ {j} : join'[k] = join[k]
    BY <1>1, <1>3 DEF Goto
  <2> QED BY <1>1, <2>1 DEF Moves, JoinCalls
<1> QED BY <1>2, <1>3

\* What the index knows of an AppState is as before, and its node is not opened.
SameApp(d, b) ==
  /\ app'[d][b].live = app[d][b].live
  /\ app'[d][b].groups = app[d][b].groups
  /\ app'[d][b].saving = app[d][b].saving /\ app'[d][b].saved = app[d][b].saved
  /\ app'[d][b].identity = app[d][b].identity
  /\ app'[d][b].open => app[d][b].open

\* Codes and the end of an old node concern no index.
AppsSame == \A d \in Devices, b \in Boots : SameApp(d, b)

LEMMA AppsSameWhen ==
  ASSUME TypeOK, DialledCodes
  PROVE  /\ \A d \in Devices, b \in Boots, t \in Tokens : CreateCode(d, b, t) => AppsSame
         /\ \A j \in Joins, b \in Boots : HandleRequest(j, b) => AppsSame
         /\ \A d \in Devices : CloseOldNode(d) => AppsSame
         /\ app' = app => AppsSame
<1>0. /\ app \in [Devices -> [Boots -> AppStates]]
      /\ \A e \in Devices, c \in Boots : app[e][c] \in AppStates
  BY DEF TypeOK
<1>1. ASSUME NEW d \in Devices, NEW b \in Boots, NEW t \in Tokens, CreateCode(d, b, t)
      PROVE  AppsSame
  <2> DEFINE s == [app[d][b] EXCEPT !.pending = Minted(@, t)]
  <2>1. app' = [app EXCEPT ![d][b] = s]
    BY <1>0, <1>1 DEF CreateCode
  <2>2. /\ app'[d][b] = s
        /\ \A e \in Devices, c \in Boots : e # d \/ c # b => app'[e][c] = app[e][c]
    BY <1>0, <2>1
  <2>3. SameApp(d, b)
    BY <1>0, <2>2 DEF SameApp, AppStates
  <2> QED BY <2>2, <2>3 DEF AppsSame, SameApp
<1>2. ASSUME NEW j \in Joins, NEW b \in Boots, HandleRequest(j, b)
      PROVE  AppsSame
  <2> DEFINE h == Host(j)
             s == [app[h][b] EXCEPT !.pending = Consumed(@, join[j].token)]
  <2>1. h \in Devices
    BY <1>2 DEF HandleRequest, DialledCodes, Host, Codes, TypeOK, JoinCalls
  <2>2. app' = [app EXCEPT ![h][b] = s]
    BY <1>0, <1>2, <2>1 DEF HandleRequest
  <2>3. /\ app'[h][b] = s
        /\ \A e \in Devices, c \in Boots : e # h \/ c # b => app'[e][c] = app[e][c]
    BY <1>0, <2>1, <2>2
  <2>4. SameApp(h, b)
    BY <1>0, <2>1, <2>3 DEF SameApp, AppStates
  <2> QED BY <2>3, <2>4 DEF AppsSame, SameApp
<1>3. ASSUME NEW d \in Devices, CloseOldNode(d)
      PROVE  AppsSame
  <2> DEFINE old == current[d] - 1
             s == [app[d][old] EXCEPT !.open = FALSE]
  <2>1. app' = [app EXCEPT ![d][old] = s]
    BY <1>3 DEF CloseOldNode
  <2>2. CASE old \in Boots
    <3>1. /\ app'[d][old] = s
          /\ \A e \in Devices, c \in Boots : e # d \/ c # old => app'[e][c] = app[e][c]
      <4> HIDE DEF s, old
      <4> QED BY <1>0, <2>1, <2>2
    <3>2. SameApp(d, old)
      BY <1>0, <2>2, <3>1 DEF SameApp, AppStates
    <3> QED BY <3>1, <3>2 DEF AppsSame, SameApp
  <2>3. CASE old \notin Boots
    BY <1>0, <2>1, <2>3 DEF AppsSame, SameApp
  <2> QED BY <2>2, <2>3
<1>4. CASE app' = app
  BY <1>4 DEF AppsSame, SameApp
<1> QED BY <1>1, <1>2, <1>3, <1>4

\* Two calls have the same device, code, phase and so on.
SameCaller(old, new) ==
  /\ new.dev = old.dev /\ new.boot = old.boot /\ new.token = old.token
  /\ new.reached = old.reached

\* The host's answer in two steps, and the failures of a save: of the identity or the
\* cert, or of the index.
Answers(j) == GatherTickets(j) \/ Respond(j)
SaveFails(j) == SaveIdentityFails(j) \/ SaveDeviceFails(j)
IndexFails(j) == UpsertFails(j) \/ WriteGroupsFails(j)

\* Served, and with what; the tickets gathered or sent; a group imported, and entered.
IsServed(j, b) ==
  /\ join[j].phase = "dialled" /\ join'[j].phase = "served" /\ app[Host(j)][b].open
  /\ SameCaller(join[j], join'[j])
  /\ join'[j].servedBy = b /\ join'[j].issuer = app[Host(j)][b].identity
  /\ join'[j].tickets = join[j].tickets /\ join'[j].todo = join[j].todo
  /\ \A k \in Joins \ {j} : join'[k] = join[k]

IsAnswered(j) ==
  /\ \/ join[j].phase = "served" /\ join'[j].phase = "gathering"
     \/ join[j].phase = "gathering" /\ join'[j].phase = "answered"
  /\ SameCaller(join[j], join'[j])
  /\ join'[j].servedBy = join[j].servedBy /\ join'[j].issuer = join[j].issuer
  /\ join'[j].todo = join'[j].tickets
  /\ \A k \in Joins \ {j} : join'[k] = join[k]

Imports(j, p, n, todo) ==
  /\ join'[j].phase = p
  /\ SameCaller(join[j], join'[j])
  /\ join'[j].servedBy = join[j].servedBy /\ join'[j].issuer = join[j].issuer
  /\ join'[j].tickets = join[j].tickets /\ join'[j].todo = todo /\ join'[j].ns = n
  /\ \A k \in Joins \ {j} : join'[k] = join[k]

Begins(j, d, b, t) ==
  /\ join[j].phase = "idle"
  /\ join'[j].phase = "dialled" /\ join'[j].reached = "idle"
  /\ join'[j].dev = d /\ join'[j].boot = b /\ join'[j].token = t
  /\ join'[j].issuer = None
  /\ join'[j].tickets = {} /\ join'[j].todo = {}
  /\ \A k \in Joins \ {j} : join'[k] = join[k]

\* What the other steps of a call do to it.
LEMMA CallsOf ==
  ASSUME TypeOK, NEW j \in Joins
  PROVE  /\ \A b \in Boots : HandleRequest(j, b) =>
              \/ IsServed(j, b)
              \/ join[j].phase = "dialled" /\ Moves(j, "failed", "dialled")
         /\ Answers(j) => IsAnswered(j)
         /\ \A n \in Namespaces : ImportDoc(j, n) =>
              join[j].phase = "savedDevice" /\ Imports(j, "imported", n, join[j].todo)
         /\ WriteGroups(j) =>
              /\ join[j].phase = "savingGroups"
              /\ Imports(j, "savedDevice", None, join[j].todo \ {join[j].ns})
         /\ \A d \in Devices, b \in Boots, t \in Tokens : Dial(j, d, b, t) => Begins(j, d, b, t)
<1>0. join \in [Joins -> JoinCalls] /\ join[j] \in JoinCalls
  BY DEF TypeOK
<1>1. ASSUME NEW b \in Boots, HandleRequest(j, b)
      PROVE  IsServed(j, b) \/ (join[j].phase = "dialled" /\ Moves(j, "failed", "dialled"))
  <2>1. CASE Fail(j)
    BY <1>1, <2>1, MovesWhen DEF HandleRequest
  <2>2. CASE join' = [join EXCEPT ![j] = [join[j] EXCEPT !.phase = "served", !.servedBy = b,
                        !.servedAt = now, !.issuer = app[Host(j)][b].identity]]
    BY <1>0, <1>1, <2>2 DEF HandleRequest, IsServed, SameCaller, JoinCalls
  <2> QED BY <1>0, <1>1, <2>1, <2>2 DEF HandleRequest
<1>2. ASSUME Answers(j)
      PROVE  IsAnswered(j)
  <2>1. CASE GatherTickets(j)
    <3>1. join' = [join EXCEPT ![j] = [join[j] EXCEPT !.phase = "gathering",
                     !.tickets = Listed(Host(j)), !.todo = Listed(Host(j))]]
      BY <1>0, <2>1 DEF GatherTickets
    <3> QED BY <1>0, <2>1, <3>1 DEF GatherTickets, IsAnswered, SameCaller, JoinCalls
  <2>2. CASE Respond(j)
    <3>1. PICK sent \in SUBSET (join[j].tickets \cap docs[Host(j)]) :
            join' = [join EXCEPT ![j] = [join[j] EXCEPT !.phase = "answered",
                                                        !.tickets = sent, !.todo = sent]]
      BY <1>0, <2>2 DEF Respond
    <3> QED BY <1>0, <2>2, <3>1 DEF Respond, IsAnswered, SameCaller, JoinCalls
  <2> QED BY <1>2, <2>1, <2>2 DEF Answers
<1>3. ASSUME NEW n \in Namespaces, ImportDoc(j, n)
      PROVE  join[j].phase = "savedDevice" /\ Imports(j, "imported", n, join[j].todo)
  <2>1. join' = [join EXCEPT ![j] = [join[j] EXCEPT !.phase = "imported", !.ns = n]]
    BY <1>0, <1>3 DEF ImportDoc
  <2> QED BY <1>0, <1>3, <2>1 DEF ImportDoc, Imports, SameCaller, JoinCalls
<1>4. ASSUME WriteGroups(j)
      PROVE  /\ join[j].phase = "savingGroups"
             /\ Imports(j, "savedDevice", None, join[j].todo \ {join[j].ns})
  <2>1. join' = [join EXCEPT ![j] = [join[j] EXCEPT !.phase = "savedDevice", !.ns = None,
                   !.todo = join[j].todo \ {join[j].ns}]]
    BY <1>0, <1>4 DEF WriteGroups
  <2> QED BY <1>0, <1>4, <2>1 DEF WriteGroups, Imports, SameCaller, JoinCalls
<1>5. ASSUME NEW d \in Devices, NEW b \in Boots, NEW t \in Tokens, Dial(j, d, b, t)
      PROVE  Begins(j, d, b, t)
  BY <1>0, <1>5 DEF Dial, Begins, NotCalled
<1> QED BY <1>1, <1>2, <1>3, <1>4, <1>5

\* A step of a call that only moves says from where and to where.
LEMMA MovesOf ==
  ASSUME TypeOK, NEW j \in Joins
  PROVE  /\ LoseConnection(j) => OnTheWire(j) /\ Moves(j, "failed", join[j].phase)
         /\ RejectResponse(j) => join[j].phase = "answered" /\ Moves(j, "failed", join[j].phase)
         /\ ImportFails(j) => join[j].phase = "savedDevice" /\ Moves(j, "failed", join[j].phase)
         /\ SaveIdentity(j) =>
              join[j].phase = "answered" /\ Moves(j, "savingIdentity", join[j].reached)
         /\ WriteIdentity(j) =>
              join[j].phase = "savingIdentity" /\ Moves(j, "savedIdentity", join[j].reached)
         /\ ReplaceCert(j) =>
              /\ join[j].phase = "savedIdentity"
              /\ \/ certFile' = certFile /\ Moves(j, "failed", join[j].phase)
                 \/ /\ certFile' = [certFile EXCEPT ![join[j].dev] = Torn]
                    /\ Moves(j, "savingDevice", join[j].reached)
         /\ WriteDevice(j) =>
              join[j].phase = "savingDevice" /\ Moves(j, "savedDevice", join[j].reached)
         /\ UpsertGroup(j) =>
              join[j].phase = "imported" /\ Moves(j, "savingGroups", join[j].reached)
         /\ Finish(j) => join[j].phase = "savedDevice" /\ Moves(j, "done", join[j].reached)
         /\ SaveIdentityFails(j) => /\ join[j].phase \in {"answered", "savingIdentity"}
                                    /\ Moves(j, "failed", join[j].phase)
         /\ SaveDeviceFails(j) => /\ join[j].phase \in {"savedIdentity", "savingDevice"}
                                  /\ Moves(j, "failed", join[j].phase)
         /\ UpsertFails(j) => join[j].phase = "imported" /\ Moves(j, "failed", join[j].phase)
         /\ WriteGroupsFails(j) =>
              join[j].phase = "savingGroups" /\ Moves(j, "failed", join[j].phase)
<1>1. /\ Fail(j) => Moves(j, "failed", join[j].phase)
      /\ \A p \in Phases : Goto(j, p) => Moves(j, p, join[j].reached)
  BY MovesWhen
<1>2. {"savingIdentity", "savedIdentity", "savingDevice", "savedDevice", "savingGroups", "done"}
        \subseteq Phases
  BY DEF Phases
<1> HIDE DEF Phases
<1>3. /\ SaveIdentityFails(j) => /\ join[j].phase \in {"answered", "savingIdentity"}
                                /\ Moves(j, "failed", join[j].phase)
      /\ SaveDeviceFails(j) => /\ join[j].phase \in {"savedIdentity", "savingDevice"}
                              /\ Moves(j, "failed", join[j].phase)
      /\ UpsertFails(j) => join[j].phase = "imported" /\ Moves(j, "failed", join[j].phase)
      /\ WriteGroupsFails(j) =>
           join[j].phase = "savingGroups" /\ Moves(j, "failed", join[j].phase)
  <2>1. SaveIdentityFails(j) => Fail(j) /\ join[j].phase \in {"answered", "savingIdentity"}
    BY DEF SaveIdentityFails
  <2>2. SaveDeviceFails(j) => Fail(j) /\ join[j].phase \in {"savedIdentity", "savingDevice"}
    BY DEF SaveDeviceFails
  <2>3. UpsertFails(j) => Fail(j) /\ join[j].phase = "imported"
    BY DEF UpsertFails
  <2>4. WriteGroupsFails(j) => Fail(j) /\ join[j].phase = "savingGroups"
    BY DEF WriteGroupsFails
  <2> QED BY <1>1, <2>1, <2>2, <2>3, <2>4
<1> QED
  BY <1>1, <1>2, <1>3
  DEF LoseConnection, RejectResponse, ImportFails, SaveIdentity, WriteIdentity, ReplaceCert,
      WriteDevice, UpsertGroup, Finish

\* A step of no call, unless the process stops: it replaces neither identity nor cert.
NoCall ==
  \/ Tick \/ UNCHANGED vars
  \/ \E d \in Devices : Reload(d) \/ ReloadFails(d) \/ CloseOldNode(d) \/ Start(d)
  \/ \E d \in Devices, b \in Boots :
       GroupsNewStep(d, b) \/ \E t \in Tokens : CreateCode(d, b, t)

LEMMA NoCallMoves == NoCall => UNCHANGED <<idFile, certFile, join>>
<1>1. Tick \/ UNCHANGED vars => UNCHANGED <<idFile, certFile, join>>
  BY DEF Tick, vars, disk
<1>2. ASSUME NEW d \in Devices
      PROVE  /\ Reload(d) => UNCHANGED <<idFile, certFile, join>>
             /\ ReloadFails(d) => UNCHANGED <<idFile, certFile, join>>
             /\ CloseOldNode(d) => UNCHANGED <<idFile, certFile, join>>
             /\ Start(d) => UNCHANGED <<idFile, certFile, join>>
  <2>1. Reload(d) => UNCHANGED <<idFile, certFile, join>>
    BY DEF Reload, disk
  <2>2. ReloadFails(d) => UNCHANGED <<idFile, certFile, join>>
    BY DEF ReloadFails, disk
  <2>3. CloseOldNode(d) => UNCHANGED <<idFile, certFile, join>>
    BY DEF CloseOldNode, disk
  <2>4. Start(d) => UNCHANGED <<idFile, certFile, join>>
    BY DEF Start, disk
  <2> QED BY <2>1, <2>2, <2>3, <2>4
<1>3. ASSUME NEW d \in Devices, NEW b \in Boots
      PROVE  /\ \A t \in Tokens : CreateCode(d, b, t) => UNCHANGED <<idFile, certFile, join>>
             /\ GroupsNewStep(d, b) => UNCHANGED <<idFile, certFile, join>>
  <2>1. \A t \in Tokens : CreateCode(d, b, t) => UNCHANGED <<idFile, certFile, join>>
    BY DEF CreateCode, disk
  <2>2. \A n \in Namespaces : NewGroup(d, b, n) \/ NewGroupFails(d, b, n)
                              => UNCHANGED <<idFile, certFile, join>>
    BY DEF NewGroup, NewGroupFails
  <2>3. FinishNewGroup(d, b) \/ FinishNewGroupFails(d, b) => UNCHANGED <<idFile, certFile, join>>
    BY DEF FinishNewGroup, FinishNewGroupFails
  <2> QED BY <2>1, <2>2, <2>3 DEF GroupsNewStep
<1> QED BY <1>1, <1>2, <1>3 DEF NoCall

-----------------------------------------------------------------------------
(* groups.json and the index of the only live AppState.                    *)

\* A live AppState is of the latest boot or one before, and its process runs; only a
\* live one has its node open or its lock held.
LiveIsBooted ==
  \A d \in Devices, b \in Boots :
    /\ app[d][b].live => b <= current[d] /\ app[d][current[d]].live
    /\ app[d][b].open \/ app[d][b].saving # None => app[d][b].live

\* A call under way is on a live AppState.
CallsLive == \A j \in Joins : InFlight(j) => app[join[j].dev][join[j].boot].live

\* A call that saves the index holds its lock.
LockHeld ==
  \A j \in Joins :
    join[j].phase = "savingGroups" => app[join[j].dev][join[j].boot].saving = j

Sole(d, b) == app[d][b].live /\ \A c \in Boots : app[d][c].live => c = b

\* The only live AppState of a device has in memory what groups.json holds, unless it
\* is just writing it or failed to.
FileOfSoleIndex ==
  \A d \in Devices, b \in Boots : Sole(d, b) =>
    /\ app[d][b].saving # None => groupsFile[d] = Torn
    /\ app[d][b].saving = None /\ app[d][b].saved => groupsFile[d] = app[d][b].groups

IndexInv == LiveIsBooted /\ CallsLive /\ LockHeld /\ FileOfSoleIndex

\* Nobody dials, and nobody begins to save the index.
CallKept(k) ==
  /\ InFlight(k)' => InFlight(k) /\ join'[k].dev = join[k].dev /\ join'[k].boot = join[k].boot
  /\ join'[k].phase = "savingGroups" => join[k].phase = "savingGroups"

\* A step that touches neither the index nor its file keeps what is known of them.
LEMMA IndexQuiet ==
  ASSUME TypeOK, IndexInv, AppsSame,
         \A k \in Joins : CallKept(k), UNCHANGED <<current, groupsFile>>
  PROVE  IndexInv'
<1>1. \A k \in Joins : join[k].dev \in Devices /\ join[k].boot \in Boots
  BY DEF TypeOK, JoinCalls
<1>2. \A d \in Devices : current[d] \in Boots
  BY DEF TypeOK
<1>3. LiveIsBooted'
  BY <1>2 DEF IndexInv, LiveIsBooted, AppsSame, SameApp
<1>4. CallsLive'
  BY <1>1 DEF IndexInv, CallsLive, AppsSame, SameApp, CallKept
<1>5. LockHeld'
  BY <1>1 DEF IndexInv, LockHeld, AppsSame, SameApp, CallKept, InFlight
<1>6. FileOfSoleIndex'
  BY DEF IndexInv, FileOfSoleIndex, Sole, AppsSame, SameApp
<1> QED BY <1>3, <1>4, <1>5, <1>6 DEF IndexInv

\* The lock of one AppState is taken by somebody who changes its index, and the file is
\* cut off.
Takes(d, b, who) ==
  /\ app'[d][b].live /\ app'[d][b].saving = who /\ app'[d][b].open = app[d][b].open
  /\ \A e \in Devices, c \in Boots : e # d \/ c # b => app'[e][c] = app[e][c]
  /\ groupsFile'[d] = Torn /\ \A e \in Devices \ {d} : groupsFile'[e] = groupsFile[e]

\* The change in memory and the cut file are such a step.
LEMMA TakesWhen ==
  ASSUME TypeOK, NEW d \in Devices, NEW b \in Boots, NEW n \in Namespaces, NEW who,
         app[d][b].live,
         app' = [app EXCEPT ![d][b] = [app[d][b] EXCEPT !.groups = Upserted(@, n), !.saving = who]],
         groupsFile' = [groupsFile EXCEPT ![d] = Torn]
  PROVE  Takes(d, b, who)
<1> DEFINE s == [app[d][b] EXCEPT !.groups = Upserted(@, n), !.saving = who]
<1>1. app[d][b] \in AppStates
  BY DEF TypeOK
<1>3. /\ app'[d][b] = s
      /\ \A e \in Devices, c \in Boots : e # d \/ c # b => app'[e][c] = app[e][c]
  BY DEF TypeOK
<1>4. s.live /\ s.saving = who /\ s.open = app[d][b].open
  BY <1>1 DEF AppStates
<1>5. groupsFile'[d] = Torn /\ \A e \in Devices \ {d} : groupsFile'[e] = groupsFile[e]
  BY DEF TypeOK
<1> QED BY <1>3, <1>4, <1>5 DEF Takes

\* It keeps what is known of the index, if whoever takes the lock is noted as its holder.
LEMMA IndexTaken ==
  ASSUME TypeOK, IndexInv, NEW d \in Devices, NEW b \in Boots, NEW who,
         who # None, app[d][b].live, app[d][b].saving = None,
         Takes(d, b, who), current' = current,
         \A k \in Joins : InFlight(k)' => /\ InFlight(k)
                                          /\ join'[k].dev = join[k].dev /\ join'[k].boot = join[k].boot,
         \A k \in Joins : join'[k].phase = "savingGroups" =>
           \/ join[k].phase = "savingGroups"
           \/ k = who /\ join[k].dev = d /\ join[k].boot = b
  PROVE  IndexInv'
<1>1. \A k \in Joins : join[k].dev \in Devices /\ join[k].boot \in Boots
  BY DEF TypeOK, JoinCalls
<1>2. \A e \in Devices : current[e] \in Boots
  BY DEF TypeOK
<1>3. LiveIsBooted'
  BY <1>2 DEF IndexInv, LiveIsBooted, Takes
<1>4. CallsLive'
  BY <1>1 DEF IndexInv, CallsLive, Takes
<1>5. LockHeld'
  BY <1>1, PairingAssumption DEF IndexInv, LockHeld, InFlight, Takes
<1>6. FileOfSoleIndex'
  BY DEF IndexInv, FileOfSoleIndex, Sole, Takes
<1> QED BY <1>3, <1>4, <1>5, <1>6 DEF IndexInv

\* The file is written, or the write fails, and the lock released.
LEMMA IndexReleased ==
  ASSUME TypeOK, IndexInv, NEW d \in Devices, NEW b \in Boots, app[d][b].saving # None,
         NEW ok \in BOOLEAN,
         app' = [app EXCEPT ![d][b] = Released(app[d][b], ok)],
         \E content : /\ groupsFile' = [groupsFile EXCEPT ![d] = content]
                      /\ ok => content \in Written(groupsFile[d], Serialised(d, b)),
         current' = current, \A k \in Joins : CallKept(k),
         \A k \in Joins : join'[k].phase = "savingGroups" => k # app[d][b].saving
  PROVE  IndexInv'
<1> DEFINE s == Released(app[d][b], ok)
<1>1. \A k \in Joins : join[k].dev \in Devices /\ join[k].boot \in Boots
  BY DEF TypeOK, JoinCalls
<1>2. \A e \in Devices : current[e] \in Boots
  BY DEF TypeOK
<1>3. /\ app'[d][b] = s
      /\ \A e \in Devices, c \in Boots : e # d \/ c # b => app'[e][c] = app[e][c]
  BY DEF TypeOK
<1>4. /\ app[d][b].live
      /\ s.live /\ s.saving = None /\ s.open = app[d][b].open
      /\ s.groups = app[d][b].groups /\ s.saved = ok
  <2>1. app[d][b] \in AppStates
    BY DEF TypeOK
  <2>2. app[d][b].live
    BY DEF IndexInv, LiveIsBooted
  <2>3. /\ s.live = app[d][b].live /\ s.open = app[d][b].open
        /\ s.groups = app[d][b].groups /\ s.saving = None /\ s.saved = ok
    BY <2>1, SavingType
  <2> QED BY <2>2, <2>3
<1>5. /\ ok => groupsFile'[d] \in Written(groupsFile[d], app[d][b].groups)
      /\ \A e \in Devices \ {d} : groupsFile'[e] = groupsFile[e]
  BY DEF TypeOK, Serialised
<1> HIDE DEF s
<1>6. LiveIsBooted'
  BY <1>2, <1>3, <1>4 DEF IndexInv, LiveIsBooted
<1>7. CallsLive'
  BY <1>1, <1>3, <1>4 DEF IndexInv, CallsLive, CallKept
<1>8. LockHeld'
  BY <1>1, <1>3, <1>4 DEF IndexInv, LockHeld, InFlight, CallKept
<1>9. FileOfSoleIndex'
  <2> SUFFICES ASSUME NEW e \in Devices, NEW c \in Boots, Sole(e, c)'
               PROVE  /\ app'[e][c].saving # None => groupsFile'[e] = Torn
                      /\ app'[e][c].saving = None /\ app'[e][c].saved =>
                           groupsFile'[e] = app'[e][c].groups
    BY DEF FileOfSoleIndex
  <2>1. Sole(e, c)
    BY <1>3, <1>4 DEF Sole
  <2>2. CASE e = d
    <3>1. c = b
      BY <1>4, <2>1, <2>2 DEF Sole
    <3>2. groupsFile[d] = Torn
      BY <2>1, <2>2, <3>1 DEF IndexInv, FileOfSoleIndex
    <3>3. ok => groupsFile'[d] = app[d][b].groups
      BY <1>5, <3>2 DEF Written
    <3> QED BY <1>3, <1>4, <2>2, <3>1, <3>3
  <2>3. CASE e # d
    BY <1>3, <1>5, <2>1, <2>3 DEF IndexInv, FileOfSoleIndex
  <2> QED BY <2>2, <2>3
<1> QED BY <1>6, <1>7, <1>8, <1>9 DEF IndexInv

\* A group is entered and its save fails before the file is touched.
LEMMA IndexUnsaved ==
  ASSUME TypeOK, IndexInv, NEW d \in Devices, NEW b \in Boots, NEW n \in Namespaces,
         app[d][b].saving = None,
         app' = [app EXCEPT ![d][b] = Unsaved(app[d][b], n)],
         UNCHANGED <<current, groupsFile>>, \A k \in Joins : CallKept(k)
  PROVE  IndexInv'
<1> DEFINE s == Unsaved(app[d][b], n)
<1>1. \A k \in Joins : join[k].dev \in Devices /\ join[k].boot \in Boots
  BY DEF TypeOK, JoinCalls
<1>2. \A e \in Devices : current[e] \in Boots
  BY DEF TypeOK
<1>3. /\ app'[d][b] = s
      /\ \A e \in Devices, c \in Boots : e # d \/ c # b => app'[e][c] = app[e][c]
  BY DEF TypeOK
<1>4. /\ s.live = app[d][b].live /\ s.open = app[d][b].open
      /\ s.saving = None /\ ~s.saved
  <2>1. app[d][b] \in AppStates
    BY DEF TypeOK
  <2> QED BY <2>1, SavingType
<1> HIDE DEF s
<1>5. LiveIsBooted'
  BY <1>2, <1>3, <1>4 DEF IndexInv, LiveIsBooted
<1>6. CallsLive'
  BY <1>1, <1>3, <1>4 DEF IndexInv, CallsLive, CallKept
<1>7. LockHeld'
  BY <1>1, <1>3, <1>4, PairingAssumption DEF IndexInv, LockHeld, InFlight, CallKept
<1>8. FileOfSoleIndex'
  BY <1>3, <1>4 DEF IndexInv, FileOfSoleIndex, Sole
<1> QED BY <1>5, <1>6, <1>7, <1>8 DEF IndexInv

\* A new AppState begins with what groups.json holds; a step that does this changes no
\* call and no file.
LEMMA IndexBooted ==
  ASSUME TypeOK, IndexInv, NEW d \in Devices, Reload(d) \/ Start(d)
  PROVE  IndexInv'
<1> DEFINE b == current[d] + 1
           s == FromDisk(d)
<1>1. \A k \in Joins : join[k].dev \in Devices /\ join[k].boot \in Boots
  BY DEF TypeOK, JoinCalls
<1>2. /\ b \in Boots /\ \A e \in Devices : current[e] \in Boots
      /\ b <= b /\ \A c \in Boots : c <= current[d] => c # b /\ c <= b
  BY PairingAssumption DEF TypeOK, Reload, Start, Boots
<1>3. /\ app'[d][b] = s
      /\ \A e \in Devices, c \in Boots : e # d \/ c # b => app'[e][c] = app[e][c]
  BY <1>2 DEF Reload, Start, TypeOK
<1>4. s.live /\ s.open /\ s.saving = None /\ s.groups = groupsFile[d]
  BY DEF FromDisk, Booted
<1>5. /\ current'[d] = b /\ \A e \in Devices \ {d} : current'[e] = current[e]
      /\ groupsFile' = groupsFile /\ join' = join
  BY DEF Reload, Start, TypeOK, disk
<1> HIDE DEF s, b
<1>6. LiveIsBooted'
  <2>1. \A c \in Boots : app'[d][c].live => c <= b
    BY <1>2, <1>3 DEF IndexInv, LiveIsBooted
  <2>2. \A c \in Boots : app'[d][c].open \/ app'[d][c].saving # None => app'[d][c].live
    BY <1>3, <1>4 DEF IndexInv, LiveIsBooted
  <2>3. \A e \in Devices \ {d}, c \in Boots :
          /\ app'[e][c].live => c <= current'[e] /\ app'[e][current'[e]].live
          /\ app'[e][c].open \/ app'[e][c].saving # None => app'[e][c].live
    BY <1>2, <1>3, <1>5 DEF IndexInv, LiveIsBooted
  <2> QED BY <1>3, <1>4, <1>5, <2>1, <2>2, <2>3 DEF LiveIsBooted
<1>7. CallsLive'
  BY <1>1, <1>3, <1>4, <1>5 DEF IndexInv, CallsLive, InFlight
<1>8. LockHeld'
  <2> SUFFICES ASSUME NEW j \in Joins, join[j].phase = "savingGroups"
               PROVE  app'[join[j].dev][join[j].boot].saving = j
    BY <1>5 DEF LockHeld
  <2>1. app[join[j].dev][join[j].boot].live /\ app[join[j].dev][join[j].boot].saving = j
    BY DEF IndexInv, CallsLive, LockHeld, InFlight
  <2>2. join[j].dev = d => join[j].boot # b
    BY <1>1, <1>2, <2>1 DEF IndexInv, LiveIsBooted
  <2> QED BY <1>1, <1>3, <2>1, <2>2
<1>9. FileOfSoleIndex'
  <2> SUFFICES ASSUME NEW e \in Devices, NEW c \in Boots, Sole(e, c)'
               PROVE  /\ app'[e][c].saving # None => groupsFile[e] = Torn
                      /\ app'[e][c].saving = None /\ app'[e][c].saved =>
                           groupsFile[e] = app'[e][c].groups
    BY <1>5 DEF FileOfSoleIndex
  <2>1. CASE e = d
    <3>1. c = b
      BY <1>2, <1>3, <1>4, <2>1 DEF Sole
    <3> QED BY <1>3, <1>4, <2>1, <3>1
  <2>2. CASE e # d
    BY <1>3, <2>2 DEF Sole, IndexInv, FileOfSoleIndex
  <2> QED BY <2>1, <2>2
<1> QED BY <1>6, <1>7, <1>8, <1>9 DEF IndexInv

\* A process that stops leaves no live AppState, and ends its calls.
LEMMA IndexCrashed ==
  ASSUME TypeOK, IndexInv, NEW d \in Devices, Crash(d)
  PROVE  IndexInv'
<1>1. \A k \in Joins : join[k].dev \in Devices /\ join[k].boot \in Boots /\ join[k] \in JoinCalls
  BY DEF TypeOK, JoinCalls
<1>2. \A e \in Devices : current[e] \in Boots
  BY DEF TypeOK
<1>3. /\ \A c \in Boots : app'[d][c] = Killed(app[d][c])
      /\ \A e \in Devices, c \in Boots : e # d => app'[e][c] = app[e][c]
      /\ \A c \in Boots : app[d][c] \in AppStates
  BY DEF TypeOK, Crash
<1>4. \A c \in Boots : ~app'[d][c].live /\ ~app'[d][c].open /\ app'[d][c].saving = None
  <2> TAKE c \in Boots
  <2>1. app[d][c] \in AppStates /\ app'[d][c] = [app[d][c] EXCEPT !.live = FALSE, !.open = FALSE, !.saving = None]
    BY <1>3 DEF Killed
  <2> QED BY <2>1 DEF AppStates
<1>5. UNCHANGED <<current, groupsFile>>
  BY DEF Crash, disk
<1>6. ASSUME NEW k \in Joins, InFlight(k)'
      PROVE  join'[k] = join[k] /\ join[k].dev # d
  <2>1. CASE InFlight(k) /\ join[k].dev = d
    <3>1. join'[k] = Failed(k)
      BY <2>1 DEF Crash
    <3> QED BY <1>1, <1>6, <3>1, FailedType DEF InFlight
  <2>2. CASE ~(InFlight(k) /\ join[k].dev = d)
    <3>1. join'[k] = join[k]
      BY <2>2 DEF Crash
    <3> QED BY <1>6, <2>2, <3>1 DEF InFlight
  <2> QED BY <2>1, <2>2
<1>7. LiveIsBooted'
  BY <1>2, <1>3, <1>4, <1>5 DEF IndexInv, LiveIsBooted
<1>8. CallsLive'
  BY <1>1, <1>3, <1>6 DEF IndexInv, CallsLive, InFlight
<1>9. LockHeld'
  BY <1>1, <1>3, <1>6 DEF IndexInv, LockHeld, InFlight
<1>10. FileOfSoleIndex'
  BY <1>3, <1>4, <1>5 DEF IndexInv, FileOfSoleIndex, Sole
<1> QED BY <1>7, <1>8, <1>9, <1>10 DEF IndexInv

\* Steps of calls that touch no index.
LEMMA CallsKept ==
  ASSUME TypeOK, NEW j \in Joins,
         \/ LoseConnection(j) \/ SaveIdentity(j) \/ RejectResponse(j) \/ WriteIdentity(j)
         \/ ReplaceCert(j) \/ WriteDevice(j) \/ ImportFails(j) \/ Finish(j)
         \/ SaveFails(j) \/ IndexFails(j)
         \/ Answers(j) \/ \E b \in Boots : HandleRequest(j, b)
         \/ WriteGroups(j) \/ \E n \in Namespaces : ImportDoc(j, n)
  PROVE  \A k \in Joins : CallKept(k)
<1>1. CASE \E p \in Phases \ {"idle", "savingGroups"}, r \in Phases : InFlight(j) /\ Moves(j, p, r)
  BY <1>1 DEF Moves, CallKept, InFlight
<1>2. CASE \/ LoseConnection(j) \/ SaveIdentity(j) \/ RejectResponse(j) \/ WriteIdentity(j)
           \/ ReplaceCert(j) \/ WriteDevice(j) \/ ImportFails(j) \/ Finish(j)
           \/ SaveFails(j) \/ IndexFails(j)
  <2>1. join[j].phase \in Phases /\ join[j].reached \in Phases
    BY DEF TypeOK, JoinCalls
  <2>2. \E p \in Phases \ {"idle", "savingGroups"}, r \in Phases : InFlight(j) /\ Moves(j, p, r)
    <3>1. CASE SaveFails(j) \/ IndexFails(j)
      <4>1. Moves(j, "failed", join[j].phase) /\ InFlight(j)
        BY <3>1, MovesOf DEF SaveFails, IndexFails, InFlight
      <4> QED BY <2>1, <4>1 DEF Phases
    <3>2. CASE ~(SaveFails(j) \/ IndexFails(j))
      BY <1>2, <2>1, <3>2, MovesOf DEF InFlight, OnTheWire, Phases
    <3> QED BY <3>1, <3>2
  <2> QED BY <1>1, <2>2
<1>3. CASE Answers(j)
  <2>1. IsAnswered(j)
    BY <1>3, CallsOf
  <2> QED BY <2>1 DEF IsAnswered, SameCaller, CallKept, InFlight
<1>4. ASSUME NEW b \in Boots, HandleRequest(j, b)
      PROVE  \A k \in Joins : CallKept(k)
  <2>1. CASE IsServed(j, b)
    BY <2>1 DEF IsServed, SameCaller, CallKept, InFlight
  <2>2. CASE join[j].phase = "dialled" /\ Moves(j, "failed", "dialled")
    BY <1>1, <2>2 DEF InFlight, Phases
  <2> QED BY <1>4, <2>1, <2>2, CallsOf
<1>5. CASE WriteGroups(j)
  <2>1. join[j].phase = "savingGroups" /\ Imports(j, "savedDevice", None, join[j].todo \ {join[j].ns})
    BY <1>5, CallsOf
  <2> QED BY <2>1 DEF Imports, SameCaller, CallKept, InFlight
<1>6. ASSUME NEW n \in Namespaces, ImportDoc(j, n)
      PROVE  \A k \in Joins : CallKept(k)
  <2>1. join[j].phase = "savedDevice" /\ Imports(j, "imported", n, join[j].todo)
    BY <1>6, CallsOf
  <2> QED BY <2>1 DEF Imports, SameCaller, CallKept, InFlight
<1> QED BY <1>2, <1>3, <1>4, <1>5, <1>6

\* A step of the host keeps what is known of the index.
LEMMA IndexHost ==
  ASSUME TokenInv, IndexInv, HostStep
  PROVE  IndexInv'
<1>0. TypeOK /\ DialledCodes
  BY DEF TokenInv
<1>1. join' = join => \A k \in Joins : CallKept(k)
  BY DEF CallKept, InFlight
<1>2. ASSUME NEW d \in Devices, NEW b \in Boots, NEW t \in Tokens, CreateCode(d, b, t)
      PROVE  IndexInv'
  <2>1. AppsSame /\ UNCHANGED <<current, groupsFile>> /\ join' = join
    BY <1>0, <1>2, AppsSameWhen DEF CreateCode, disk
  <2> QED BY <1>0, <1>1, <2>1, IndexQuiet
<1>3. ASSUME NEW d \in Devices, NEW b \in Boots, NEW n \in Namespaces, NewGroup(d, b, n)
      PROVE  IndexInv'
  <2>1. /\ app[d][b].live /\ app[d][b].saving = None
        /\ current' = current /\ groupsFile' = [groupsFile EXCEPT ![d] = Torn]
    BY <1>3 DEF NewGroup, Unlocked, IndexInv, LiveIsBooted
  <2>2. Takes(d, b, "rpc")
    <3>1. app' = [app EXCEPT ![d][b] =
                    [app[d][b] EXCEPT !.groups = Upserted(@, n), !.saving = "rpc"]]
      BY <1>0, <1>3 DEF NewGroup, AppStates, Upserted, TypeOK
    <3> QED BY <1>0, <2>1, <3>1, TakesWhen
  <2>3. /\ \A k \in Joins : InFlight(k)' => /\ InFlight(k)
                                            /\ join'[k].dev = join[k].dev /\ join'[k].boot = join[k].boot
        /\ \A k \in Joins : join'[k].phase = "savingGroups" => join[k].phase = "savingGroups"
    BY <1>3 DEF NewGroup, InFlight
  <2>4. "rpc" # None
    BY PairingAssumption
  <2> QED BY <1>0, <2>1, <2>2, <2>3, <2>4, IndexTaken
<1>4. ASSUME NEW d \in Devices, NEW b \in Boots, FinishNewGroup(d, b)
      PROVE  IndexInv'
  <2>1. app[d][b].saving # None
    BY <1>4, PairingAssumption DEF FinishNewGroup
  <2>2. \A k \in Joins : k # app[d][b].saving
    BY <1>4, PairingAssumption DEF FinishNewGroup
  <2>3. app' = [app EXCEPT ![d][b] = Released(app[d][b], TRUE)]
    BY <1>0, <1>4 DEF FinishNewGroup, TypeOK
  <2> QED BY <1>0, <1>1, <1>4, <2>1, <2>2, <2>3, IndexReleased DEF FinishNewGroup
<1>6. ASSUME NEW d \in Devices, NEW b \in Boots, FinishNewGroupFails(d, b)
      PROVE  IndexInv'
  <2>1. app[d][b].saving # None
    BY <1>6, PairingAssumption DEF FinishNewGroupFails
  <2>2. \A k \in Joins : k # app[d][b].saving
    BY <1>6, PairingAssumption DEF FinishNewGroupFails
  <2>3. app' = [app EXCEPT ![d][b] = Released(app[d][b], FALSE)]
    BY <1>0, <1>6 DEF FinishNewGroupFails, TypeOK
  <2>4. /\ \E content : groupsFile' = [groupsFile EXCEPT ![d] = content]
        /\ current' = current /\ join' = join
    BY <1>6 DEF FinishNewGroupFails
  <2>5. \A k \in Joins : CallKept(k)
    BY <1>1, <2>4
  <2>6. \A k \in Joins : join'[k].phase = "savingGroups" => k # app[d][b].saving
    BY <2>2
  <2> QED BY <1>0, <2>1, <2>3, <2>4, <2>5, <2>6, IndexReleased
<1>7. ASSUME NEW d \in Devices, NEW b \in Boots, NEW n \in Namespaces, NewGroupFails(d, b, n)
      PROVE  IndexInv'
  <2>1. /\ app' = [app EXCEPT ![d][b] = Unsaved(app[d][b], n)]
        /\ app[d][b].saving = None /\ UNCHANGED <<current, groupsFile>> /\ join' = join
    BY <1>0, <1>7 DEF NewGroupFails, Unlocked, TypeOK
  <2> QED BY <1>0, <1>1, <2>1, IndexUnsaved
<1>5. ASSUME NEW j \in Joins, Answers(j) \/ \E b \in Boots : HandleRequest(j, b)
      PROVE  IndexInv'
  <2>1. AppsSame /\ UNCHANGED <<current, groupsFile>>
    BY <1>0, <1>5, AppsSameWhen DEF Answers, GatherTickets, Respond, HandleRequest, disk
  <2>2. \A k \in Joins : CallKept(k)
    BY <1>0, <1>5, CallsKept
  <2> QED BY <1>0, <2>1, <2>2, IndexQuiet
<1> QED BY <1>2, <1>3, <1>4, <1>5, <1>6, <1>7 DEF HostStep, Answers

\* So does a step of a joiner,
LEMMA IndexJoin ==
  ASSUME TokenInv, IndexInv, NEW j \in Joins,
         \/ JoinStep(j) \/ LoseConnection(j)
         \/ \E d \in Devices, b \in Boots, t \in Tokens : Dial(j, d, b, t)
  PROVE  IndexInv'
<1> DEFINE d == join[j].dev
           b == join[j].boot
<1>0. TypeOK /\ DialledCodes /\ CallShape
  BY DEF TokenInv
<1>1. d \in Devices /\ b \in Boots /\ join[j].ns \in Namespaces \cup {None}
  BY <1>0 DEF TypeOK, JoinCalls
<1>2. CASE \/ LoseConnection(j) \/ SaveIdentity(j) \/ RejectResponse(j) \/ WriteIdentity(j)
           \/ ReplaceCert(j) \/ WriteDevice(j) \/ ImportFails(j) \/ Finish(j)
           \/ SaveFails(j) \/ \E n \in Namespaces : ImportDoc(j, n)
  <2>1. app' = app /\ UNCHANGED <<current, groupsFile>>
    BY <1>2
    DEF LoseConnection, SaveIdentity, RejectResponse, WriteIdentity, ReplaceCert, WriteDevice,
        ImportFails, Finish, SaveFails, SaveIdentityFails, SaveDeviceFails, ImportDoc, disk
  <2>2. AppsSame
    BY <1>0, <2>1, AppsSameWhen
  <2>3. \A k \in Joins : CallKept(k)
    BY <1>0, <1>2, CallsKept
  <2> QED BY <1>0, <2>1, <2>2, <2>3, IndexQuiet
<1>3. CASE UpsertGroup(j)
  <2> DEFINE n == join[j].ns
  <2>1. join[j].phase = "imported" /\ Moves(j, "savingGroups", join[j].reached)
    BY <1>0, <1>3, MovesOf
  <2>2. n \in Namespaces /\ j # None
    BY <1>0, <1>1, <2>1, PairingAssumption DEF CallShape
  <2>3. /\ app[d][b].live /\ app[d][b].saving = None
        /\ current' = current /\ groupsFile' = [groupsFile EXCEPT ![d] = Torn]
    BY <1>3, <2>1 DEF UpsertGroup, Unlocked, IndexInv, CallsLive, InFlight
  <2>4. Takes(d, b, j)
    <3>1. app' = [app EXCEPT ![d][b] = [app[d][b] EXCEPT !.groups = Upserted(@, n), !.saving = j]]
      BY <1>0, <1>1, <1>3 DEF UpsertGroup, AppStates, Upserted, TypeOK
    <3> HIDE DEF d, b, n
    <3> QED BY <1>0, <1>1, <2>2, <2>3, <3>1, TakesWhen
  <2>5. /\ \A k \in Joins : InFlight(k)' => /\ InFlight(k)
                                            /\ join'[k].dev = join[k].dev /\ join'[k].boot = join[k].boot
        /\ \A k \in Joins : join'[k].phase = "savingGroups" =>
             \/ join[k].phase = "savingGroups"
             \/ k = j /\ join[k].dev = d /\ join[k].boot = b
    BY <2>1 DEF Moves, InFlight
  <2> HIDE DEF d, b, n
  <2> QED BY <1>0, <1>1, <2>2, <2>3, <2>4, <2>5, IndexTaken
<1>4. CASE WriteGroups(j)
  <2>1. app[d][b].saving = j /\ j # None
    BY <1>4, PairingAssumption DEF WriteGroups, IndexInv, LockHeld
  <2>2. \A k \in Joins : CallKept(k)
    BY <1>0, <1>4, CallsKept
  <2>3. join'[j].phase = "savedDevice"
    BY <1>0, <1>4, CallsOf DEF Imports
  <2>4. app' = [app EXCEPT ![d][b] = Released(app[d][b], TRUE)]
    BY <1>0, <1>1, <1>4 DEF WriteGroups, TypeOK
  <2>5. /\ current' = current
        /\ \E content \in Written(groupsFile[d], Serialised(d, b)) :
              groupsFile' = [groupsFile EXCEPT ![d] = content]
    BY <1>4 DEF WriteGroups
  <2>6. \A k \in Joins : join'[k].phase = "savingGroups" => k # app[d][b].saving
    BY <2>1, <2>3
  <2> HIDE DEF d, b
  <2> QED BY <1>0, <1>1, <2>1, <2>2, <2>4, <2>5, <2>6, IndexReleased
<1>5. ASSUME NEW e \in Devices, NEW c \in Boots, NEW t \in Tokens, Dial(j, e, c, t)
      PROVE  IndexInv'
  <2>1. Begins(j, e, c, t)
    BY <1>0, <1>5, CallsOf
  <2>2. app' = app /\ UNCHANGED <<current, groupsFile>> /\ app[e][c].live
    BY <1>5 DEF Dial, disk, IndexInv, LiveIsBooted
  <2>3. \A k \in Joins \ {j} : join'[k] = join[k]
    BY <2>1 DEF Begins
  <2>4. CallsLive'
    BY <2>1, <2>2, <2>3 DEF Begins, IndexInv, CallsLive, InFlight
  <2>5. LockHeld'
    BY <2>1, <2>2, <2>3 DEF Begins, IndexInv, LockHeld
  <2> QED BY <2>2, <2>4, <2>5 DEF IndexInv, LiveIsBooted, FileOfSoleIndex, Sole
<1>6. CASE UpsertFails(j)
  <2>1. join[j].phase = "imported"
    BY <1>6 DEF UpsertFails
  <2>2. join[j].ns \in Namespaces
    BY <1>0, <1>1, <2>1 DEF CallShape
  <2>3. /\ app' = [app EXCEPT ![d][b] = Unsaved(app[d][b], join[j].ns)]
        /\ app[d][b].saving = None /\ UNCHANGED <<current, groupsFile>>
    BY <1>0, <1>1, <1>6 DEF UpsertFails, Unlocked, TypeOK, disk
  <2>4. \A k \in Joins : CallKept(k)
    BY <1>0, <1>6, CallsKept DEF IndexFails
  <2> HIDE DEF d, b
  <2> QED BY <1>0, <1>1, <2>2, <2>3, <2>4, IndexUnsaved
<1>7. CASE WriteGroupsFails(j)
  <2>1. app[d][b].saving = j /\ j # None
    BY <1>7, PairingAssumption DEF WriteGroupsFails, IndexInv, LockHeld
  <2>2. \A k \in Joins : CallKept(k)
    BY <1>0, <1>7, CallsKept DEF IndexFails
  <2>3. join'[j].phase = "failed"
    BY <1>0, <1>7, MovesOf DEF Moves
  <2>4. app' = [app EXCEPT ![d][b] = Released(app[d][b], FALSE)]
    BY <1>0, <1>1, <1>7 DEF WriteGroupsFails, TypeOK
  <2>5. /\ current' = current
        /\ \E content : groupsFile' = [groupsFile EXCEPT ![d] = content]
    BY <1>7 DEF WriteGroupsFails
  <2>6. \A k \in Joins : join'[k].phase = "savingGroups" => k # app[d][b].saving
    BY <2>1, <2>3
  <2> HIDE DEF d, b
  <2> QED BY <1>0, <1>1, <2>1, <2>2, <2>4, <2>5, <2>6, IndexReleased
<1> QED BY <1>2, <1>3, <1>4, <1>5, <1>6, <1>7 DEF JoinStep, SaveFails

\* and a step of a process.
LEMMA IndexProcess ==
  ASSUME TokenInv, IndexInv, NEW d \in Devices, ProcessStep(d) \/ Tick
  PROVE  IndexInv'
<1>0. TypeOK /\ DialledCodes
  BY DEF TokenInv
<1>1. CASE ReloadFails(d) \/ CloseOldNode(d) \/ Tick
  <2>1. AppsSame /\ UNCHANGED <<current, groupsFile>> /\ join' = join
    BY <1>0, <1>1, AppsSameWhen DEF ReloadFails, CloseOldNode, Tick, disk
  <2>2. \A k \in Joins : CallKept(k)
    BY <2>1 DEF CallKept, InFlight
  <2> QED BY <1>0, <2>1, <2>2, IndexQuiet
<1>2. CASE Reload(d) \/ Start(d)
  BY <1>0, <1>2, IndexBooted
<1>3. CASE Crash(d)
  BY <1>0, <1>3, IndexCrashed
<1> QED BY <1>1, <1>2, <1>3 DEF ProcessStep

\* Every step keeps it.
LEMMA IndexNext == TokenInv /\ IndexInv /\ [Next]_vars => IndexInv'
<1> SUFFICES ASSUME TokenInv, IndexInv, [Next]_vars PROVE IndexInv'
  OBVIOUS
<1>1. CASE UNCHANGED vars
  BY <1>1 DEF vars, IndexInv, LiveIsBooted, CallsLive, LockHeld, FileOfSoleIndex, Sole, InFlight
<1>2. CASE Tick
  <2>1. PICK d \in Devices : TRUE
    BY PairingAssumption
  <2> QED BY <1>2, <2>1, IndexProcess
<1> QED BY <1>1, <1>2, IndexHost, IndexJoin, IndexProcess DEF Next

\* At first each device has one boot, and its home groups on disk.
LEMMA IndexInit == Init => IndexInv
<1> SUFFICES ASSUME Init PROVE IndexInv
  OBVIOUS
<1>1. \A d \in Devices, b \in Boots :
        app[d][b] = IF b = 1 THEN Booted(d, Home[d]) ELSE NotBooted(d)
  BY DEF Init
<1>2. \A d \in Devices : /\ Booted(d, Home[d]).live /\ Booted(d, Home[d]).saving = None
                         /\ Booted(d, Home[d]).groups = Home[d]
                         /\ ~NotBooted(d).live /\ ~NotBooted(d).open /\ NotBooted(d).saving = None
  BY DEF Booted, NotBooted
<1>3. \A j \in Joins : join[j].phase = "idle"
  BY NotCalledType DEF Init
<1>4. \A d \in Devices : current[d] = 1 /\ groupsFile[d] = Home[d]
  BY DEF Init
<1>5. 1 \in Boots /\ \A b \in Boots : b = 1 => b <= 1
  BY Bounds
<1>6. LiveIsBooted
  BY <1>1, <1>2, <1>4, <1>5 DEF LiveIsBooted
<1>7. CallsLive /\ LockHeld
  BY <1>3 DEF CallsLive, LockHeld, InFlight
<1>8. FileOfSoleIndex
  BY <1>1, <1>2, <1>4 DEF FileOfSoleIndex, Sole
<1> QED BY <1>6, <1>7, <1>8 DEF IndexInv

\* Whenever nobody is saving and the latest save did not fail, groups.json holds what
\* the only live index holds, for any interleaving of joins, group calls, failed saves,
\* reloads, crashes and restarts.
THEOREM IndexIsOnDisk == Spec => []IndexOnDisk
<1>1. Init => TokenInv /\ IndexInv
  BY TokenInit, IndexInit
<1>2. TokenInv /\ IndexInv /\ [Next]_vars => (TokenInv /\ IndexInv)'
  BY TokenNext, IndexNext
<1>3. IndexInv => IndexOnDisk
  BY DEF IndexInv, FileOfSoleIndex, Sole, IndexOnDisk, LiveBoots
<1> QED BY <1>1, <1>2, <1>3, PTL DEF Spec

-----------------------------------------------------------------------------
(* identity.json and the cert in device.json.                              *)

\* A call that has saved an identity on the device.
Saver(j, d) == join[j].dev = d /\ Saves(j) # {}

\* The files are as the call j left them.
LeftBy(j, d) ==
  /\ idFile[d] \in {Torn, join[j].issuer}
  /\ "savedIdentity" \in Saves(j) \/ certFile[d] \in {Torn, join[j].issuer}

\* Two calls saved on the device, or one and the files are as it left them, or one failed
\* when it saved the identity, or none did and they are as they were at first.
CertOf(d) ==
  \/ \E j \in Joins : join[j].dev = d /\ join[j].reached = "savingIdentity"
  \/ \E j, k \in Joins : j # k /\ Saver(j, d) /\ Saver(k, d)
  \/ \E j \in Joins : Saver(j, d) /\ LeftBy(j, d)
  \/ /\ \A j \in Joins : ~Saver(j, d)
     /\ certFile[d] # Torn /\ idFile[d] \in {Torn, certFile[d]}

\* Only a call that failed has reached something.
FreshCalls == \A j \in Joins : join[j].phase # "failed" => join[j].reached = "idle"

CertInv == FreshCalls /\ \A d \in Devices : CertOf(d)

\* What a call has saved is as before.
SaverKept(k) ==
  /\ Saves(k)' # {} <=> Saves(k) # {}
  /\ Saves(k) # {} => join'[k].dev = join[k].dev /\ join'[k].issuer = join[k].issuer
  /\ "savedIdentity" \in Saves(k) => "savedIdentity" \in Saves(k)'
  /\ join[k].reached = "savingIdentity" =>
       join'[k].reached = "savingIdentity" /\ join'[k].dev = join[k].dev

\* Calls that stay as they are, or move on without a save.
LEMMA SaversOfMoves ==
  ASSUME TypeOK, FreshCalls, NEW j \in Joins, NEW p \in Phases, NEW r \in Phases, Moves(j, p, r)
  PROVE  /\ p = "failed" \/ r = "idle" => FreshCalls'
         /\ \A k \in Joins \ {j} : SaverKept(k) /\ \A d \in Devices : Saver(k, d)' <=> Saver(k, d)
         /\ p = "failed" /\ r = join[j].phase /\ InFlight(j) => SaverKept(j)
<1>1. p = "failed" \/ r = "idle" => FreshCalls'
  BY DEF FreshCalls, Moves
<1>2. \A k \in Joins \ {j} : SaverKept(k) /\ \A d \in Devices : Saver(k, d)' <=> Saver(k, d)
  BY DEF Moves, SaverKept, Saver, Saves
<1>3. ASSUME p = "failed", r = join[j].phase, InFlight(j)
      PROVE  SaverKept(j)
  BY <1>3 DEF FreshCalls, Moves, SaverKept, Saves, InFlight
<1> QED BY <1>1, <1>2, <1>3

\* A step after which everything saved is as before keeps what is known, and so does one
\* that cuts identity.json off, or fails to save it.
LEMMA CertQuiet ==
  ASSUME TypeOK, CertInv, FreshCalls', certFile' = certFile,
         \A d \in Devices :
           \/ idFile'[d] \in {idFile[d], Torn}
           \/ \E k \in Joins : join'[k].dev = d /\ join'[k].reached = "savingIdentity",
         \A k \in Joins : SaverKept(k)
  PROVE  CertInv'
<1>1. ASSUME NEW d \in Devices,
             ~ \E k \in Joins : join'[k].dev = d /\ join'[k].reached = "savingIdentity"
      PROVE  CertOf(d)'
  <2>a. /\ idFile'[d] \in {idFile[d], Torn}
        /\ ~ \E k \in Joins : join[k].dev = d /\ join[k].reached = "savingIdentity"
    BY <1>1 DEF SaverKept
  <2>0. CertOf(d) /\ \A k \in Joins : Saver(k, d) => Saver(k, d)'
    BY DEF CertInv, SaverKept, Saver
  <2>1. CASE \E j, k \in Joins : j # k /\ Saver(j, d) /\ Saver(k, d)
    BY <2>0, <2>1 DEF CertOf
  <2>2. ASSUME NEW j \in Joins, Saver(j, d), LeftBy(j, d)
        PROVE  CertOf(d)'
    <3>1. LeftBy(j, d)'
      BY <2>2, <2>a DEF LeftBy, Saver, SaverKept
    <3> QED BY <2>0, <2>2, <3>1 DEF CertOf
  <2>3. CASE /\ \A j \in Joins : ~Saver(j, d)
             /\ certFile[d] # Torn /\ idFile[d] \in {Torn, certFile[d]}
    <3>1. CASE \A j \in Joins : ~Saver(j, d)'
      BY <2>3, <2>a, <3>1 DEF CertOf
    <3>2. ASSUME NEW j \in Joins, Saver(j, d)'
          PROVE  FALSE
      BY <2>3, <3>2 DEF Saver, SaverKept
    <3> QED BY <3>1, <3>2
  <2> QED BY <2>a, <2>0, <2>1, <2>2, <2>3 DEF CertOf
<1>2. ASSUME NEW d \in Devices,
             \E k \in Joins : join'[k].dev = d /\ join'[k].reached = "savingIdentity"
      PROVE  CertOf(d)'
  BY <1>2 DEF CertOf
<1> QED BY <1>1, <1>2 DEF CertInv

\* Calls other than j have saved what they had; j has, too, or saves now; only the device
\* of j has other files.
LEMMA CertSaved ==
  ASSUME TypeOK, CertInv, FreshCalls', NEW j \in Joins,
         \A k \in Joins \ {j} : SaverKept(k) /\ \A d \in Devices : Saver(k, d)' <=> Saver(k, d),
         join'[j].dev = join[j].dev, join'[j].issuer = join[j].issuer,
         join[j].reached = "idle", Saves(j)' # {},
         \A d \in Devices \ {join[j].dev} :
           idFile'[d] = idFile[d] /\ certFile'[d] = certFile[d],
         \/ Saves(j) = {}
         \/ certFile'[join[j].dev] \in {Torn, join[j].issuer} /\ idFile' = idFile,
         Saves(j) = {} => "savedIdentity" \in Saves(j)' /\ idFile'[join[j].dev] \in {Torn, join[j].issuer}
  PROVE  CertInv'
<1>1. ASSUME NEW d \in Devices
      PROVE  CertOf(d)'
  <2>0. CertOf(d) /\ \A k \in Joins : Saver(k, d) => Saver(k, d)'
    BY DEF CertInv, Saver
  <2>4. CASE \E i \in Joins : join[i].dev = d /\ join[i].reached = "savingIdentity"
    BY <2>4 DEF CertOf, SaverKept
  <2>1. CASE \E i, k \in Joins : i # k /\ Saver(i, d) /\ Saver(k, d)
    BY <2>0, <2>1 DEF CertOf
  <2>2. ASSUME NEW i \in Joins, Saver(i, d), LeftBy(i, d)
        PROVE  CertOf(d)'
    <3>1. CASE i # j /\ d = join[j].dev
      <4>1. Saver(j, d)'
        BY <3>1 DEF Saver
      <4> QED BY <2>0, <2>2, <3>1, <4>1 DEF CertOf
    <3>2. CASE i # j /\ d # join[j].dev
      <4>1. LeftBy(i, d)'
        BY <2>2, <3>2 DEF LeftBy, Saver, SaverKept
      <4> QED BY <2>0, <2>2, <4>1 DEF CertOf
    <3>3. CASE i = j
      <4>1. LeftBy(j, d)'
        BY <2>2, <3>3 DEF LeftBy, Saver
      <4> QED BY <2>0, <2>2, <3>3, <4>1 DEF CertOf
    <3> QED BY <3>1, <3>2, <3>3
  <2>3. CASE /\ \A k \in Joins : ~Saver(k, d)
             /\ certFile[d] # Torn /\ idFile[d] \in {Torn, certFile[d]}
    <3>1. CASE d = join[j].dev
      <4>1. Saver(j, d)' /\ LeftBy(j, d)'
        BY <2>3, <3>1 DEF Saver, LeftBy
      <4> QED BY <4>1 DEF CertOf
    <3>2. CASE d # join[j].dev
      <4>1. \A k \in Joins : ~Saver(k, d)'
        BY <2>3, <3>2 DEF Saver
      <4> QED BY <2>3, <3>2, <4>1 DEF CertOf
    <3> QED BY <3>1, <3>2
  <2> QED BY <2>0, <2>1, <2>2, <2>3, <2>4 DEF CertOf
<1> QED BY <1>1 DEF CertInv

\* Steps of calls that save neither identity nor cert, or only cut identity.json off.
LEMMA SaversKept ==
  ASSUME TypeOK, FreshCalls, NEW j \in Joins,
         \/ LoseConnection(j) \/ SaveIdentity(j) \/ RejectResponse(j) \/ ImportFails(j)
         \/ Finish(j) \/ UpsertGroup(j) \/ WriteGroups(j) \/ IndexFails(j) \/ Answers(j)
         \/ \E n \in Namespaces : ImportDoc(j, n)
         \/ \E b \in Boots : HandleRequest(j, b)
         \/ \E d \in Devices, b \in Boots, t \in Tokens : Dial(j, d, b, t)
  PROVE  FreshCalls' /\ \A k \in Joins : SaverKept(k)
<1>0. join[j].phase \in Phases /\ join[j].reached \in Phases
  BY DEF TypeOK, JoinCalls
<1>p. {"failed", "savingIdentity", "done", "savingGroups", "idle", "dialled"} \subseteq Phases
  BY DEF Phases
<1>1. CASE LoseConnection(j) \/ RejectResponse(j) \/ ImportFails(j) \/ IndexFails(j)
  <2>1. Moves(j, "failed", join[j].phase) /\ InFlight(j)
    BY <1>1, MovesOf DEF IndexFails, OnTheWire, InFlight
  <2> QED BY <1>0, <1>p, <2>1, SaversOfMoves
<1>2. ASSUME NEW p \in {"savingIdentity", "done", "savingGroups"}, Moves(j, p, join[j].reached),
             join[j].phase \in {"answered", "savedDevice", "imported"},
             p = "savingIdentity" <=> join[j].phase = "answered"
      PROVE  FreshCalls' /\ \A k \in Joins : SaverKept(k)
  <2>1. join[j].reached = "idle"
    BY <1>2 DEF FreshCalls
  <2>2. SaverKept(j)
    BY <1>2, <2>1 DEF Moves, SaverKept, Saves
  <2> QED BY <1>0, <1>2, <1>p, <2>1, <2>2, SaversOfMoves
<1>3. CASE SaveIdentity(j) \/ Finish(j) \/ UpsertGroup(j)
  BY <1>2, <1>3, MovesOf
<1>4. ASSUME \A k \in Joins \ {j} : join'[k] = join[k],
             join'[j].phase # "failed", join'[j].reached = "idle",
             SaverKept(j)
      PROVE  FreshCalls' /\ \A k \in Joins : SaverKept(k)
  BY <1>4 DEF FreshCalls, SaverKept, Saves
<1>5. CASE WriteGroups(j)
  <2>1. join[j].phase = "savingGroups" /\ Imports(j, "savedDevice", None, join[j].todo \ {join[j].ns})
    BY <1>5, CallsOf
  <2> QED BY <1>4, <2>1 DEF Imports, SameCaller, FreshCalls, SaverKept, Saves
<1>6. ASSUME NEW n \in Namespaces, ImportDoc(j, n)
      PROVE  FreshCalls' /\ \A k \in Joins : SaverKept(k)
  <2>1. join[j].phase = "savedDevice" /\ Imports(j, "imported", n, join[j].todo)
    BY <1>6, CallsOf
  <2> QED BY <1>4, <2>1 DEF Imports, SameCaller, FreshCalls, SaverKept, Saves
<1>7. CASE Answers(j)
  <2>1. IsAnswered(j)
    BY <1>7, CallsOf
  <2> QED BY <1>4, <2>1 DEF IsAnswered, SameCaller, FreshCalls, SaverKept, Saves
<1>8. ASSUME NEW b \in Boots, HandleRequest(j, b)
      PROVE  FreshCalls' /\ \A k \in Joins : SaverKept(k)
  <2>1. CASE IsServed(j, b)
    BY <1>4, <2>1 DEF IsServed, SameCaller, FreshCalls, SaverKept, Saves
  <2>2. CASE join[j].phase = "dialled" /\ Moves(j, "failed", "dialled")
    BY <1>0, <1>p, <2>2, SaversOfMoves DEF InFlight
  <2> QED BY <1>8, <2>1, <2>2, CallsOf
<1>9. ASSUME NEW d \in Devices, NEW b \in Boots, NEW t \in Tokens, Dial(j, d, b, t)
      PROVE  FreshCalls' /\ \A k \in Joins : SaverKept(k)
  <2>1. Begins(j, d, b, t)
    BY <1>9, CallsOf
  <2> QED BY <1>4, <2>1 DEF Begins, FreshCalls, SaverKept, Saves
<1> QED BY <1>1, <1>3, <1>5, <1>6, <1>7, <1>8, <1>9

\* The steps that write identity.json or device.json, or fail to.
LEMMA CertWrites ==
  ASSUME TypeOK, CertInv, NEW j \in Joins,
         WriteIdentity(j) \/ ReplaceCert(j) \/ WriteDevice(j) \/ SaveFails(j)
  PROVE  CertInv'
<1> DEFINE d == join[j].dev
<1>0. /\ join[j].phase \in Phases /\ join[j].reached \in Phases /\ d \in Devices
      /\ FreshCalls
  BY DEF TypeOK, JoinCalls, CertInv
<1>p. {"failed", "savedIdentity", "savingDevice", "savedDevice", "idle"} \subseteq Phases
  BY DEF Phases
<1>1. CASE WriteIdentity(j)
  <2>1. join[j].phase = "savingIdentity" /\ Moves(j, "savedIdentity", join[j].reached)
    BY <1>1, MovesOf
  <2>2. join[j].reached = "idle"
    BY <1>0, <2>1 DEF FreshCalls
  <2>3. Saves(j) = {} /\ "savedIdentity" \in Saves(j)'
    BY <2>1, <2>2 DEF Saves, Moves
  <2>4. /\ certFile' = certFile
        /\ idFile'[d] \in {Torn, join[j].issuer}
        /\ \A e \in Devices \ {d} : idFile'[e] = idFile[e]
    BY <1>0, <1>1, WrittenType DEF WriteIdentity, TypeOK
  <2>5. FreshCalls' /\ \A k \in Joins \ {j} : SaverKept(k) /\ \A e \in Devices : Saver(k, e)' <=> Saver(k, e)
    BY <1>0, <1>p, <2>1, <2>2, SaversOfMoves
  <2> QED BY <2>1, <2>2, <2>3, <2>4, <2>5, CertSaved DEF Moves
<1>2. CASE ReplaceCert(j) /\ ~Fail(j)
  <2>1. /\ join[j].phase = "savedIdentity" /\ Moves(j, "savingDevice", join[j].reached)
        /\ certFile' = [certFile EXCEPT ![d] = Torn] /\ idFile' = idFile
    BY <1>2, MovesWhen, <1>p DEF ReplaceCert
  <2>2. join[j].reached = "idle"
    BY <1>0, <2>1 DEF FreshCalls
  <2>3. Saves(j) # {} /\ Saves(j)' # {}
    BY <2>1 DEF Saves, Moves
  <2>4. certFile'[d] = Torn /\ \A e \in Devices \ {d} : certFile'[e] = certFile[e]
    BY <1>0, <2>1 DEF TypeOK
  <2>5. FreshCalls' /\ \A k \in Joins \ {j} : SaverKept(k) /\ \A e \in Devices : Saver(k, e)' <=> Saver(k, e)
    BY <1>0, <1>p, <2>1, <2>2, SaversOfMoves
  <2> QED BY <2>1, <2>2, <2>3, <2>4, <2>5, CertSaved DEF Moves
<1>3. CASE ReplaceCert(j) /\ Fail(j)
  <2>1. /\ join[j].phase = "savedIdentity" /\ Moves(j, "failed", join[j].phase)
        /\ idFile' = idFile
    BY <1>3, MovesWhen DEF ReplaceCert
  <2>2. certFile' = certFile
    <3>1. ~Goto(j, "savingDevice")
      BY <1>p, <2>1, MovesWhen DEF Moves
    <3> QED BY <1>3, <3>1 DEF ReplaceCert
  <2>3. FreshCalls' /\ \A k \in Joins : SaverKept(k)
    BY <1>0, <1>p, <2>1, SaversOfMoves DEF InFlight
  <2> QED BY <2>1, <2>2, <2>3, CertQuiet
<1>4. CASE WriteDevice(j)
  <2>1. join[j].phase = "savingDevice" /\ Moves(j, "savedDevice", join[j].reached)
    BY <1>4, MovesOf
  <2>2. join[j].reached = "idle"
    BY <1>0, <2>1 DEF FreshCalls
  <2>3. Saves(j) # {} /\ Saves(j)' # {}
    BY <2>1 DEF Saves, Moves
  <2>4. /\ idFile' = idFile
        /\ certFile'[d] \in {Torn, join[j].issuer}
        /\ \A e \in Devices \ {d} : certFile'[e] = certFile[e]
    BY <1>0, <1>4, WrittenType DEF WriteDevice, NewCert, TypeOK
  <2>5. FreshCalls' /\ \A k \in Joins \ {j} : SaverKept(k) /\ \A e \in Devices : Saver(k, e)' <=> Saver(k, e)
    BY <1>0, <1>p, <2>1, <2>2, SaversOfMoves
  <2> QED BY <2>1, <2>2, <2>3, <2>4, <2>5, CertSaved DEF Moves
<1>5. CASE SaveIdentityFails(j)
  <2>1. /\ join[j].phase \in {"answered", "savingIdentity"}
        /\ Moves(j, "failed", join[j].phase)
    BY <1>5, MovesOf
  <2>2. FreshCalls' /\ \A k \in Joins : SaverKept(k)
    BY <1>0, <1>p, <2>1, SaversOfMoves DEF InFlight
  <2>3. certFile' = certFile
    BY <1>5 DEF SaveIdentityFails
  <2>4. ASSUME NEW e \in Devices
        PROVE  \/ idFile'[e] \in {idFile[e], Torn}
               \/ \E k \in Joins : join'[k].dev = e /\ join'[k].reached = "savingIdentity"
    <3>1. CASE join[j].phase = "answered"
      BY <1>5, <3>1 DEF SaveIdentityFails
    <3>2. CASE join[j].phase = "savingIdentity" /\ e = d
      BY <2>1, <3>2 DEF Moves
    <3>3. CASE join[j].phase = "savingIdentity" /\ e # d
      BY <1>0, <1>5, <3>3 DEF SaveIdentityFails, TypeOK
    <3> QED BY <2>1, <3>1, <3>2, <3>3
  <2> QED BY <2>2, <2>3, <2>4, CertQuiet
<1>6. CASE SaveDeviceFails(j)
  <2>1. /\ join[j].phase \in {"savedIdentity", "savingDevice"}
        /\ Moves(j, "failed", join[j].phase) /\ idFile' = idFile
    BY <1>6, MovesOf DEF SaveDeviceFails
  <2>2. FreshCalls' /\ \A k \in Joins : SaverKept(k)
    BY <1>0, <1>p, <2>1, SaversOfMoves DEF InFlight
  <2>3. CASE certFile' = certFile
    BY <2>1, <2>2, <2>3, CertQuiet
  <2>4. CASE certFile' # certFile
    <3>1. /\ join[j].phase = "savingDevice"
          /\ certFile'[d] \in {Torn, join[j].issuer}
          /\ \A e \in Devices \ {d} : certFile'[e] = certFile[e]
      BY <1>0, <1>6, <2>4 DEF SaveDeviceFails, CutOff, NewCert, TypeOK
    <3>2. join[j].reached = "idle" /\ Saves(j) # {} /\ Saves(j)' # {}
      BY <1>0, <2>1, <3>1 DEF FreshCalls, Saves, Moves
    <3>3. \A k \in Joins \ {j} : \A e \in Devices : Saver(k, e)' <=> Saver(k, e)
      BY <1>0, <1>p, <2>1, SaversOfMoves
    <3> QED BY <2>1, <2>2, <3>1, <3>2, <3>3, CertSaved DEF Moves
  <2> QED BY <2>3, <2>4
<1> QED BY <1>1, <1>2, <1>3, <1>4, <1>5, <1>6 DEF SaveFails

\* Every step keeps what is known of identity and cert.
LEMMA CertNext == TypeOK /\ CertInv /\ [Next]_vars => CertInv'
<1> SUFFICES ASSUME TypeOK, CertInv, [Next]_vars PROVE CertInv'
  OBVIOUS
<1>0. FreshCalls
  BY DEF CertInv
<1>1. CASE UNCHANGED <<idFile, certFile, join>>
  BY <1>1 DEF CertInv, FreshCalls, CertOf, Saver, Saves, LeftBy
<1>2. ASSUME NEW j \in Joins,
             WriteIdentity(j) \/ ReplaceCert(j) \/ WriteDevice(j) \/ SaveFails(j)
      PROVE  CertInv'
  BY <1>2, CertWrites
<1>3. ASSUME NEW j \in Joins,
         \/ LoseConnection(j) \/ SaveIdentity(j) \/ RejectResponse(j) \/ ImportFails(j)
         \/ Finish(j) \/ UpsertGroup(j) \/ WriteGroups(j) \/ IndexFails(j) \/ Answers(j)
         \/ \E n \in Namespaces : ImportDoc(j, n)
         \/ \E b \in Boots : HandleRequest(j, b)
         \/ \E d \in Devices, b \in Boots, t \in Tokens : Dial(j, d, b, t)
      PROVE  CertInv'
  <2>1. FreshCalls' /\ \A k \in Joins : SaverKept(k)
    BY <1>0, <1>3, SaversKept
  <2>2. certFile' = certFile /\ \A d \in Devices : idFile'[d] \in {idFile[d], Torn}
    BY <1>3 DEF LoseConnection, SaveIdentity, RejectResponse, ImportFails, Finish, UpsertGroup,
                WriteGroups, IndexFails, UpsertFails, WriteGroupsFails, Answers, GatherTickets,
                Respond, ImportDoc, HandleRequest, Dial, disk, TypeOK
  <2> QED BY <2>1, <2>2, CertQuiet
<1>4. ASSUME NEW d \in Devices, Crash(d)
      PROVE  CertInv'
  <2>1. \A k \in Joins : join'[k] = join[k] \/ (InFlight(k) /\ join'[k] = Failed(k))
    BY <1>4 DEF Crash
  <2>2. \A k \in Joins : join[k] \in JoinCalls
    BY DEF TypeOK
  <2>3. ASSUME NEW k \in Joins
        PROVE  SaverKept(k) /\ (join'[k].phase # "failed" => join'[k].reached = "idle")
    <3>1. CASE join'[k] = join[k]
      BY <1>0, <3>1 DEF SaverKept, Saves, FreshCalls
    <3>2. CASE InFlight(k) /\ join'[k] = Failed(k)
      <4>1. /\ join'[k].phase = "failed" /\ join'[k].reached = join[k].phase
            /\ join'[k].dev = join[k].dev /\ join'[k].issuer = join[k].issuer
        BY <2>2, <3>2 DEF Failed, JoinCalls
      <4> QED BY <1>0, <3>2, <4>1 DEF SaverKept, Saves, FreshCalls, InFlight
    <3> QED BY <2>1, <3>1, <3>2
  <2>4. FreshCalls' /\ \A k \in Joins : SaverKept(k)
    BY <2>3 DEF FreshCalls
  <2>5. certFile' = certFile /\ idFile' = idFile
    BY <1>4 DEF Crash, disk
  <2> QED BY <2>4, <2>5, CertQuiet
<1>5. CASE NoCall
  BY <1>1, <1>5, NoCallMoves
<1> QED
  BY <1>2, <1>3, <1>4, <1>5
  DEF NoCall, GroupsNewStep, Answers, SaveFails, IndexFails, Next, HostStep, JoinStep, ProcessStep

\* At first both name the identity the device made.
LEMMA CertInit == Init => CertInv
<1> SUFFICES ASSUME Init PROVE CertInv
  OBVIOUS
<1>1. \A j \in Joins : join[j].phase = "idle" /\ join[j].reached = "idle"
  BY DEF Init, NotCalled
<1>2. \A d \in Devices : idFile[d] = d /\ certFile[d] = d /\ d # Torn
  BY PairingAssumption DEF Init
<1> QED BY <1>1, <1>2 DEF CertInv, FreshCalls, CertOf, Saver, Saves

\* identity.json and the cert of device.json disagree only between the two saves of a
\* join, after one was cut off there or failed in its save of identity.json
\* (dispatch.rs:396-405, identity.rs:65-75), or when two joins saved on one device.
THEOREM SplitIsInterrupted == Spec => []SplitNeedsInterruption
<1>1. Init => TokenInv /\ CertInv
  BY TokenInit, CertInit
<1>2. TokenInv /\ CertInv /\ [Next]_vars => (TokenInv /\ CertInv)'
  BY TokenNext, CertNext DEF TokenInv
<1>3. CertInv => SplitNeedsInterruption
  BY DEF CertInv, CertOf, Saver, LeftBy, Stopped, SplitNeedsInterruption
<1> QED BY <1>1, <1>2, <1>3, PTL DEF Spec

-----------------------------------------------------------------------------
(* The groups of a device: in the memory of its AppStates, in groups.json  *)
(* and in its doc store.                                                   *)

\* The group a call enters in the index is in the store, then in the index.
ImportedDocs ==
  \A j \in Joins :
    /\ join[j].phase = "imported" => join[j].ns \in docs[join[j].dev]
    /\ join[j].phase = "savingGroups" => join[j].ns \in app[join[j].dev][join[j].boot].groups

\* What a step may do to the groups of a device: nothing, though the process may stop;
SameGroups(d, b) ==
  /\ app'[d][b].groups = app[d][b].groups /\ app'[d][b].identity = app[d][b].identity
  /\ app'[d][b].live => app[d][b].live

GroupsStill(d) ==
  /\ groupsFile'[d] = groupsFile[d] /\ current'[d] = current[d]
  /\ \A b \in Boots : SameGroups(d, b)

\* enter one in the index of a live AppState, whose save begins or fails at once;
GroupsEntered(d) ==
  /\ groupsFile'[d] \in {groupsFile[d], Torn} /\ current'[d] = current[d]
  /\ \E b \in Boots, n \in docs'[d] :
       /\ app'[d][b].groups = app[d][b].groups \cup {n}
       /\ app'[d][b].identity = app[d][b].identity /\ app[d][b].live
       /\ \A c \in Boots \ {b} : SameGroups(d, c)

\* write the index of a live AppState, or fail to;
GroupsWritten(d) ==
  /\ current'[d] = current[d]
  /\ \A b \in Boots : SameGroups(d, b)
  /\ \E b \in Boots : app[d][b].live /\ groupsFile'[d] \in {app[d][b].groups, Torn, groupsFile[d]}

\* or boot.
GroupsRead(d) ==
  LET b == current[d] + 1 IN
  /\ groupsFile'[d] = groupsFile[d] /\ groupsFile[d] # Torn
  /\ b \in Boots /\ current'[d] = b /\ app'[d][b].groups = groupsFile[d]
  /\ app'[d][b].identity = idFile[d]
  /\ \A c \in Boots \ {b} : SameGroups(d, c)

GroupsStep(d) ==
  /\ docs[d] \subseteq docs'[d]
  /\ GroupsStill(d) \/ GroupsEntered(d) \/ GroupsWritten(d) \/ GroupsRead(d)

\* Nothing happens to the groups of a device whose AppStates and files stay.
LEMMA StillWhen ==
  ASSUME TypeOK, NEW d \in Devices, \A b \in Boots : app'[d][b] = app[d][b],
         groupsFile'[d] = groupsFile[d], current'[d] = current[d]
  PROVE  GroupsStill(d)
BY DEF GroupsStill, SameGroups

\* Each step is one of these, for each device.
LEMMA GroupsEach ==
  ASSUME TokenInv, IndexInv, ImportedDocs, [Next]_vars, NEW d \in Devices
  PROVE  GroupsStep(d)
<1>0. /\ TypeOK /\ DialledCodes /\ CallShape
      /\ docs \in [Devices -> SUBSET Namespaces] /\ groupsFile \in [Devices -> {Torn} \cup SUBSET Namespaces]
      /\ app \in [Devices -> [Boots -> AppStates]] /\ current \in [Devices -> Boots]
      /\ \A e \in Devices, c \in Boots : app[e][c] \in AppStates
  BY DEF TokenInv, TypeOK
<1>1. ASSUME AppsSame, UNCHANGED <<current, groupsFile>>, docs[d] \subseteq docs'[d]
      PROVE  GroupsStep(d)
  BY <1>1 DEF AppsSame, SameApp, SameGroups, GroupsStill, GroupsStep
<1>2. CASE \/ \E e \in Devices, b \in Boots, t \in Tokens : CreateCode(e, b, t)
           \/ \E j \in Joins, b \in Boots : HandleRequest(j, b)
           \/ \E e \in Devices : CloseOldNode(e)
  <2>1. AppsSame
    BY <1>0, <1>2, AppsSameWhen
  <2>2. UNCHANGED <<current, groupsFile, docs>>
    <3>1. ASSUME NEW j \in Joins, NEW b \in Boots, HandleRequest(j, b)
          PROVE  UNCHANGED <<current, disk>>
      BY <3>1 DEF HandleRequest
    <3>2. ASSUME NEW e \in Devices, NEW b \in Boots, NEW t \in Tokens, CreateCode(e, b, t)
          PROVE  UNCHANGED <<current, disk>>
      BY <3>2 DEF CreateCode
    <3>3. ASSUME NEW e \in Devices, CloseOldNode(e)
          PROVE  UNCHANGED <<current, disk>>
      BY <3>3 DEF CloseOldNode
    <3> QED BY <1>2, <3>1, <3>2, <3>3 DEF disk
  <2> QED BY <1>1, <2>1, <2>2
<1>3. CASE \/ Tick \/ \E e \in Devices : ReloadFails(e)
           \/ \E j \in Joins :
                \/ Answers(j) \/ LoseConnection(j) \/ SaveIdentity(j) \/ RejectResponse(j)
                \/ WriteIdentity(j) \/ ReplaceCert(j) \/ WriteDevice(j) \/ ImportFails(j)
                \/ Finish(j) \/ SaveFails(j)
                \/ \E e \in Devices, b \in Boots, t \in Tokens : Dial(j, e, b, t)
           \/ UNCHANGED vars
  <2>1. app' = app /\ UNCHANGED <<current, groupsFile, docs>>
    BY <1>3 DEF Tick, ReloadFails, Answers, GatherTickets, Respond, LoseConnection, SaveIdentity,
                RejectResponse, WriteIdentity, ReplaceCert, WriteDevice, ImportFails, Finish,
                SaveFails, SaveIdentityFails, SaveDeviceFails, Dial, vars, disk
  <2> QED BY <1>0, <1>1, <2>1, AppsSameWhen
<1>4. ASSUME NEW j \in Joins, NEW n \in Namespaces, ImportDoc(j, n)
      PROVE  GroupsStep(d)
  <2>1. app' = app /\ UNCHANGED <<current, groupsFile>> /\ docs[d] \subseteq docs'[d]
    BY <1>0, <1>4 DEF ImportDoc
  <2> QED BY <1>0, <1>1, <2>1, AppsSameWhen
<1>5. ASSUME NEW e \in Devices, NEW b \in Boots, NEW n \in docs'[e], NEW s,
             s.groups = app[e][b].groups \cup {n}, s.identity = app[e][b].identity,
             app' = [app EXCEPT ![e][b] = s], app[e][b].live, current' = current,
             groupsFile' = groupsFile \/ groupsFile' = [groupsFile EXCEPT ![e] = Torn],
             docs[d] \subseteq docs'[d]
      PROVE  GroupsStep(d)
  <2>1. /\ app'[e][b] = s
        /\ \A f \in Devices, c \in Boots : f # e \/ c # b => app'[f][c] = app[f][c]
    BY <1>0, <1>5
  <2>2. CASE d = e
    <3>1. /\ app'[d][b].groups = app[d][b].groups \cup {n} /\ app[d][b].live
          /\ app'[d][b].identity = app[d][b].identity
      BY <1>5, <2>1, <2>2
    <3>2. \A c \in Boots \ {b} : SameGroups(d, c)
      BY <2>1 DEF SameGroups
    <3>3. groupsFile'[d] \in {groupsFile[d], Torn} /\ current'[d] = current[d]
      BY <1>0, <1>5, <2>2
    <3> QED BY <1>5, <2>2, <3>1, <3>2, <3>3 DEF GroupsEntered, GroupsStep
  <2>3. CASE d # e
    <3>1. groupsFile'[d] = groupsFile[d]
      BY <1>0, <1>5, <2>3
    <3> QED BY <1>0, <1>5, <2>1, <2>3, <3>1, StillWhen DEF GroupsStep
  <2> QED BY <2>2, <2>3
<1>6. ASSUME NEW e \in Devices, NEW b \in Boots, NEW n \in Namespaces,
             NewGroup(e, b, n) \/ NewGroupFails(e, b, n)
      PROVE  GroupsStep(d)
  <2>1. PICK s : /\ app' = [app EXCEPT ![e][b] = s]
                 /\ s.groups = app[e][b].groups \cup {n} /\ s.identity = app[e][b].identity
    <3>1. CASE NewGroup(e, b, n)
      <4> DEFINE t == [app[e][b] EXCEPT !.groups = Upserted(@, n), !.saving = "rpc"]
      <4>1. app' = [app EXCEPT ![e][b] = t]
        BY <3>1 DEF NewGroup
      <4>2. t.groups = app[e][b].groups \cup {n} /\ t.identity = app[e][b].identity
        BY <1>0 DEF AppStates, Upserted
      <4> HIDE DEF t
      <4> QED BY <4>1, <4>2
    <3>2. CASE NewGroupFails(e, b, n)
      <4> DEFINE t == Unsaved(app[e][b], n)
      <4>1. app' = [app EXCEPT ![e][b] = t]
        BY <3>2 DEF NewGroupFails
      <4>2. t.groups = app[e][b].groups \cup {n} /\ t.identity = app[e][b].identity
        <5>1. app[e][b] \in AppStates
          BY <1>0
        <5> QED BY <5>1, SavingType DEF Upserted
      <4> HIDE DEF t
      <4> QED BY <4>1, <4>2
    <3> QED BY <1>6, <3>1, <3>2
  <2>2. n \in docs'[e] /\ docs[d] \subseteq docs'[d] /\ app[e][b].live
    BY <1>0, <1>6 DEF NewGroup, NewGroupFails, IndexInv, LiveIsBooted
  <2>3. /\ groupsFile' = groupsFile \/ groupsFile' = [groupsFile EXCEPT ![e] = Torn]
        /\ current' = current
    BY <1>6 DEF NewGroup, NewGroupFails
  <2> QED BY <1>5, <2>1, <2>2, <2>3
<1>7. ASSUME NEW j \in Joins, UpsertGroup(j) \/ UpsertFails(j)
      PROVE  GroupsStep(d)
  <2> DEFINE e == join[j].dev
             b == join[j].boot
             n == join[j].ns
  <2>0. e \in Devices /\ b \in Boots /\ join[j].phase = "imported" /\ n \in Namespaces
    BY <1>0, <1>7 DEF TypeOK, JoinCalls, UpsertGroup, UpsertFails, CallShape
  <2>1. n \in docs[e] /\ docs' = docs /\ app[e][b].live
    BY <1>7, <2>0 DEF UpsertGroup, UpsertFails, disk, ImportedDocs, IndexInv, CallsLive, InFlight
  <2>2. PICK s : /\ app' = [app EXCEPT ![e][b] = s]
                 /\ s.groups = app[e][b].groups \cup {n} /\ s.identity = app[e][b].identity
    <3>1. CASE UpsertGroup(j)
      <4> DEFINE t == [app[e][b] EXCEPT !.groups = Upserted(@, n), !.saving = j]
      <4>1. app' = [app EXCEPT ![e][b] = t]
        BY <1>0, <2>0, <3>1 DEF UpsertGroup, AppStates, Upserted
      <4>2. t.groups = app[e][b].groups \cup {n} /\ t.identity = app[e][b].identity
        BY <1>0, <2>0 DEF AppStates, Upserted
      <4> HIDE DEF t, e, b
      <4> QED BY <4>1, <4>2
    <3>2. CASE UpsertFails(j)
      <4> DEFINE t == Unsaved(app[e][b], n)
      <4>1. app' = [app EXCEPT ![e][b] = t]
        BY <1>0, <2>0, <3>2 DEF UpsertFails
      <4>2. t.groups = app[e][b].groups \cup {n} /\ t.identity = app[e][b].identity
        <5>1. app[e][b] \in AppStates /\ n \in Namespaces
          BY <1>0, <2>0
        <5> HIDE DEF e, b, n
        <5> QED BY <5>1, SavingType DEF Upserted
      <4> HIDE DEF t, e, b
      <4> QED BY <4>1, <4>2
    <3> QED BY <1>7, <3>1, <3>2
  <2>3. /\ groupsFile' = groupsFile \/ groupsFile' = [groupsFile EXCEPT ![e] = Torn]
        /\ current' = current
    BY <1>7 DEF UpsertGroup, UpsertFails, disk
  <2> HIDE DEF e, b, n
  <2> QED BY <1>5, <2>0, <2>1, <2>2, <2>3
<1>8. ASSUME NEW e \in Devices, NEW b \in Boots, app[e][b].live, NEW ok \in BOOLEAN,
             app' = [app EXCEPT ![e][b] = Released(app[e][b], ok)],
             \E content \in {app[e][b].groups, Torn, groupsFile[e]} :
                groupsFile' = [groupsFile EXCEPT ![e] = content],
             current' = current, docs' = docs
      PROVE  GroupsStep(d)
  <2> DEFINE s == Released(app[e][b], ok)
  <2>1. /\ app'[e][b] = s
        /\ \A f \in Devices, c \in Boots : f # e \/ c # b => app'[f][c] = app[f][c]
    BY <1>0, <1>8
  <2>2. s.groups = app[e][b].groups /\ s.identity = app[e][b].identity
    BY <1>0, SavingType
  <2>3. CASE d = e
    <3>1. \A c \in Boots : SameGroups(d, c)
      BY <1>8, <2>1, <2>2, <2>3 DEF SameGroups
    <3>2. groupsFile'[d] \in {app[d][b].groups, Torn, groupsFile[d]}
      BY <1>0, <1>8, <2>3
    <3> QED BY <1>8, <2>3, <3>1, <3>2 DEF GroupsWritten, GroupsStep
  <2>4. CASE d # e
    <3>1. groupsFile'[d] = groupsFile[d]
      BY <1>0, <1>8, <2>4
    <3> QED BY <1>0, <1>8, <2>1, <2>4, <3>1, StillWhen DEF GroupsStep
  <2> QED BY <2>3, <2>4
<1>9. ASSUME NEW e \in Devices, NEW b \in Boots, FinishNewGroup(e, b) \/ FinishNewGroupFails(e, b)
      PROVE  GroupsStep(d)
  <2>1. app[e][b].live /\ current' = current /\ docs' = docs
    BY <1>9, PairingAssumption
    DEF FinishNewGroup, FinishNewGroupFails, IndexInv, LiveIsBooted
  <2>2. \E ok \in BOOLEAN : app' = [app EXCEPT ![e][b] = Released(app[e][b], ok)]
    BY <1>0, <1>9 DEF FinishNewGroup, FinishNewGroupFails
  <2>3. \E content \in {app[e][b].groups, Torn, groupsFile[e]} :
           groupsFile' = [groupsFile EXCEPT ![e] = content]
    BY <1>9 DEF FinishNewGroup, FinishNewGroupFails, Serialised, Written, CutOff
  <2> QED BY <1>8, <2>1, <2>2, <2>3
<1>10. ASSUME NEW j \in Joins, WriteGroups(j) \/ WriteGroupsFails(j)
       PROVE  GroupsStep(d)
  <2> DEFINE e == join[j].dev
             b == join[j].boot
  <2>0. e \in Devices /\ b \in Boots /\ app[e][b].live
    BY <1>0, <1>10
    DEF TypeOK, JoinCalls, WriteGroups, WriteGroupsFails, IndexInv, CallsLive, InFlight
  <2>1. \E ok \in BOOLEAN : app' = [app EXCEPT ![e][b] = Released(app[e][b], ok)]
    BY <1>0, <1>10, <2>0 DEF WriteGroups, WriteGroupsFails
  <2>2. /\ current' = current /\ docs' = docs
        /\ \E content \in {app[e][b].groups, Torn, groupsFile[e]} :
              groupsFile' = [groupsFile EXCEPT ![e] = content]
    BY <1>10 DEF WriteGroups, WriteGroupsFails, Serialised, Written, CutOff
  <2> HIDE DEF e, b
  <2> QED BY <1>8, <2>0, <2>1, <2>2
<1>11. ASSUME NEW e \in Devices, Reload(e) \/ Start(e)
       PROVE  GroupsStep(d)
  <2> DEFINE b == current[e] + 1
  <2>1. /\ b \in Boots /\ UNCHANGED <<groupsFile, docs>> /\ groupsFile[e] # Torn
        /\ current' = [current EXCEPT ![e] = b]
        /\ app' = [app EXCEPT ![e][b] = FromDisk(e)]
    BY <1>0, <1>11, PairingAssumption DEF Reload, Start, Intact, disk, Boots
  <2>2. /\ app'[e][b] = FromDisk(e)
        /\ \A f \in Devices, c \in Boots : f # e \/ c # b => app'[f][c] = app[f][c]
    BY <1>0, <2>1
  <2>3. FromDisk(e).groups = groupsFile[e] /\ FromDisk(e).identity = idFile[e]
    BY DEF FromDisk, Booted
  <2>4. CASE d = e
    <3>1. \A c \in Boots \ {b} : SameGroups(d, c)
      BY <2>2 DEF SameGroups
    <3> QED BY <1>0, <2>1, <2>2, <2>3, <2>4, <3>1 DEF GroupsRead, GroupsStep
  <2>5. CASE d # e
    BY <1>0, <2>1, <2>2, <2>5, StillWhen DEF GroupsStep
  <2> QED BY <2>4, <2>5
<1>12. ASSUME NEW e \in Devices, Crash(e)
       PROVE  GroupsStep(d)
  <2>1. \A c \in Boots : SameGroups(d, c)
    <3> TAKE c \in Boots
    <3>1. app'[d][c] = IF d = e THEN Killed(app[d][c]) ELSE app[d][c]
      BY <1>0, <1>12 DEF Crash
    <3>2. /\ Killed(app[d][c]).groups = app[d][c].groups /\ ~Killed(app[d][c]).live
          /\ Killed(app[d][c]).identity = app[d][c].identity
      BY <1>0 DEF Killed, AppStates
    <3> QED BY <3>1, <3>2 DEF SameGroups
  <2>2. UNCHANGED <<current, groupsFile, docs>>
    BY <1>12 DEF Crash, disk
  <2> QED BY <2>1, <2>2 DEF GroupsStill, GroupsStep
<1> QED
  BY <1>2, <1>3, <1>4, <1>6, <1>7, <1>9, <1>10, <1>11, <1>12
  DEF Next, HostStep, JoinStep, ProcessStep, Answers, SaveFails

\* What a step may do to a call: move it on, dial, serve, answer, import or enter.
Keeps(j) ==
  /\ join'[j].dev = join[j].dev /\ join'[j].boot = join[j].boot
  /\ join'[j].token = join[j].token /\ join'[j].servedBy = join[j].servedBy
  /\ join'[j].issuer = join[j].issuer
  /\ join'[j].tickets = join[j].tickets /\ join'[j].todo = join[j].todo
  /\ join'[j].ns = join[j].ns

MovesOn(j) ==
  /\ Keeps(j)
  /\ join'[j].phase \in {"idle", "dialled", "served", "gathering", "imported"} =>
       join'[j].phase = join[j].phase
  /\ join'[j].phase = "savingGroups" =>
       join[j].phase = "savingGroups" \/ (join[j].phase = "imported" /\ UpsertGroup(j))
  /\ join'[j].phase = "savingIdentity" => join[j].phase = "savingIdentity" \/ SaveIdentity(j)
  /\ Saves(j)' # {} => Saves(j) # {} \/ WriteIdentity(j)
  /\ Replaces(j) => Replaces(j)'
  /\ join[j].phase = "idle" <=> join'[j].phase = "idle"

CallStep(j) ==
  \/ MovesOn(j)
  \/ \E b \in Boots : HandleRequest(j, b) /\ IsServed(j, b)
  \/ Answers(j) /\ IsAnswered(j)
  \/ \E n \in Namespaces : ImportDoc(j, n) /\ Imports(j, "imported", n, join[j].todo)
  \/ /\ WriteGroups(j) /\ join[j].phase = "savingGroups"
     /\ Imports(j, "savedDevice", None, join[j].todo \ {join[j].ns})
  \/ \E d \in Devices, b \in Boots, t \in Tokens : Dial(j, d, b, t) /\ Begins(j, d, b, t)

\* Each step is one of these, for each call.
LEMMA CallsEach ==
  ASSUME TypeOK, FreshCalls, [Next]_vars, NEW j \in Joins
  PROVE  CallStep(j)
<1>0. join[j] \in JoinCalls /\ join \in [Joins -> JoinCalls]
  BY DEF TypeOK
<1>1. ASSUME join'[j] = join[j]
      PROVE  CallStep(j)
  BY <1>1 DEF MovesOn, Keeps, CallStep, Saves, Replaces
<1>2. CASE join' = join
  BY <1>1, <1>2
<1>3. ASSUME NEW k \in Joins,
             \/ LoseConnection(k) \/ SaveIdentity(k) \/ RejectResponse(k) \/ WriteIdentity(k)
             \/ ReplaceCert(k) \/ WriteDevice(k) \/ ImportFails(k) \/ Finish(k) \/ UpsertGroup(k)
             \/ SaveFails(k) \/ IndexFails(k)
      PROVE  CallStep(j)
  <2>1. PICK p \in {"failed", "savingIdentity", "savedIdentity", "savingDevice", "savedDevice",
                   "savingGroups", "done"}, r \in Phases :
          /\ Moves(k, p, r) /\ join[k].phase # "idle"
          /\ p = "savingGroups" => join[k].phase = "imported" /\ UpsertGroup(k)
          /\ p = "savingIdentity" => SaveIdentity(k)
          /\ p = "savedIdentity" => WriteIdentity(k)
          /\ p \in {"savingDevice", "savedDevice", "savingGroups", "done"} => Saves(k) # {}
          /\ join[k].phase # "failed" /\ r = IF p = "failed" THEN join[k].phase ELSE join[k].reached
    <3>1. join[k].phase \in Phases /\ join[k].reached \in Phases
      BY DEF TypeOK, JoinCalls
    <3> HIDE DEF Phases
    <3>2. CASE SaveFails(k) \/ IndexFails(k)
      BY <3>1, <3>2, MovesOf DEF SaveFails, IndexFails
    <3> QED BY <1>3, <3>1, <3>2, MovesOf DEF OnTheWire, Saves
  <2>2. CASE k = j
    <3>1. Keeps(j) /\ join'[j].phase = p /\ join'[j].reached = r
      BY <2>1, <2>2 DEF Moves, Keeps
    <3>2. CASE p = "failed"
      BY <2>1, <2>2, <3>1, <3>2 DEF MovesOn, CallStep, Saves, Replaces, FreshCalls
    <3>3. CASE p # "failed"
      <4>1. Replaces(j)'
        BY <3>1, <3>3 DEF Replaces, Saves
      <4>2. Saves(j)' # {} => Saves(j) # {} \/ WriteIdentity(j)
        <5>1. r = "idle"
          BY <2>1, <2>2, <3>3 DEF FreshCalls
        <5> QED BY <2>1, <2>2, <3>1, <3>3, <5>1 DEF Saves
      <4> QED BY <2>1, <2>2, <3>1, <3>3, <4>1, <4>2 DEF MovesOn, CallStep
    <3> QED BY <3>2, <3>3
  <2>3. CASE k # j
    BY <1>1, <2>1, <2>3 DEF Moves
  <2> QED BY <2>2, <2>3
<1>4. ASSUME NEW k \in Joins, NEW b \in Boots, HandleRequest(k, b)
      PROVE  CallStep(j)
  <2>1. CASE IsServed(k, b)
    <3>1. CASE k = j
      BY <1>4, <2>1, <3>1 DEF CallStep
    <3>2. CASE k # j
      BY <1>1, <2>1, <3>2 DEF IsServed
    <3> QED BY <3>1, <3>2
  <2>2. CASE join[k].phase = "dialled" /\ Moves(k, "failed", "dialled")
    <3>1. CASE k = j
      BY <2>2, <3>1 DEF Moves, Keeps, MovesOn, CallStep, Saves, Replaces, FreshCalls
    <3>2. CASE k # j
      BY <1>1, <2>2, <3>2 DEF Moves
    <3> QED BY <3>1, <3>2
  <2> QED BY <1>4, <2>1, <2>2, CallsOf
<1>5. ASSUME NEW k \in Joins, Answers(k)
      PROVE  CallStep(j)
  <2>1. IsAnswered(k)
    BY <1>5, CallsOf
  <2> QED BY <1>1, <1>5, <2>1 DEF IsAnswered, CallStep
<1>6. ASSUME NEW k \in Joins, NEW n \in Namespaces, ImportDoc(k, n)
      PROVE  CallStep(j)
  <2>1. Imports(k, "imported", n, join[k].todo)
    BY <1>6, CallsOf
  <2>2. CASE k = j
    BY <1>6, <2>1, <2>2 DEF CallStep
  <2>3. CASE k # j
    BY <1>1, <2>1, <2>3 DEF Imports
  <2> QED BY <2>2, <2>3
<1>7. ASSUME NEW k \in Joins, WriteGroups(k)
      PROVE  CallStep(j)
  <2>1. join[k].phase = "savingGroups" /\ Imports(k, "savedDevice", None, join[k].todo \ {join[k].ns})
    BY <1>7, CallsOf
  <2>2. CASE k = j
    BY <1>7, <2>1, <2>2 DEF CallStep
  <2>3. CASE k # j
    BY <1>1, <2>1, <2>3 DEF Imports
  <2> QED BY <2>2, <2>3
<1>8. ASSUME NEW k \in Joins, NEW d \in Devices, NEW b \in Boots, NEW t \in Tokens, Dial(k, d, b, t)
      PROVE  CallStep(j)
  <2>1. Begins(k, d, b, t)
    BY <1>8, CallsOf
  <2>2. CASE k = j
    BY <1>8, <2>1, <2>2 DEF CallStep
  <2>3. CASE k # j
    BY <1>1, <2>1, <2>3 DEF Begins
  <2> QED BY <2>2, <2>3
<1>9. ASSUME NEW d \in Devices, Crash(d)
      PROVE  CallStep(j)
  <2>1. CASE InFlight(j) /\ join[j].dev = d
    <3>1. join'[j] = Failed(j)
      BY <1>9, <2>1 DEF Crash
    <3>2. Keeps(j) /\ join'[j].phase = "failed" /\ join'[j].reached = join[j].phase
      BY <1>0, <3>1 DEF Failed, JoinCalls, Keeps
    <3> QED BY <2>1, <3>2 DEF InFlight, MovesOn, CallStep, Saves, Replaces, FreshCalls
  <2>2. CASE ~(InFlight(j) /\ join[j].dev = d)
    BY <1>1, <1>9, <2>2 DEF Crash
  <2> QED BY <2>1, <2>2
<1>10. CASE NoCall
  BY <1>2, <1>10, NoCallMoves
<1> QED
  BY <1>3, <1>4, <1>5, <1>6, <1>7, <1>8, <1>9, <1>10
  DEF NoCall, GroupsNewStep, Answers, SaveFails, IndexFails, Next, HostStep, JoinStep, ProcessStep

\* Which steps mint, boot, replace the identity on disk or concern the reload watcher.
LEMMA OnlyBy ==
  ASSUME [Next]_vars
  PROVE  /\ codes' = codes \/ \E d \in Devices, b \in Boots, t \in Tokens : CreateCode(d, b, t)
         /\ current' = current \/ \E d \in Devices : Reload(d) \/ Start(d)
         /\ \/ idFile' = idFile
            \/ \E j \in Joins : SaveIdentity(j) \/ WriteIdentity(j) \/ SaveIdentityFails(j)
         /\ \/ watcher' = watcher
            \/ \E d \in Devices : Reload(d) \/ ReloadFails(d) \/ CloseOldNode(d) \/ Crash(d)
            \/ \E j \in Joins : Finish(j)
<1> DEFINE Same == /\ codes' = codes /\ current' = current
                   /\ idFile' = idFile /\ watcher' = watcher
<1>1. ASSUME NEW d \in Devices, NEW b \in Boots, NEW t \in Tokens, CreateCode(d, b, t)
      PROVE  current' = current /\ idFile' = idFile /\ watcher' = watcher
  BY <1>1 DEF CreateCode, disk
<1>2. ASSUME NEW d \in Devices, NEW b \in Boots, NEW n \in Namespaces,
             NewGroup(d, b, n) \/ NewGroupFails(d, b, n)
      PROVE  Same
  BY <1>2 DEF NewGroup, NewGroupFails
<1>3. ASSUME NEW d \in Devices, NEW b \in Boots, FinishNewGroup(d, b) \/ FinishNewGroupFails(d, b)
      PROVE  Same
  BY <1>3 DEF FinishNewGroup, FinishNewGroupFails
<1>4. ASSUME NEW j \in Joins, NEW b \in Boots, HandleRequest(j, b)
      PROVE  Same
  <2>1. UNCHANGED <<codes, current, watcher, disk>>
    BY <1>4 DEF HandleRequest
  <2> QED BY <2>1 DEF disk
<1>5. ASSUME NEW j \in Joins,
             GatherTickets(j) \/ Respond(j) \/ LoseConnection(j) \/ RejectResponse(j)
      PROVE  Same
  BY <1>5 DEF GatherTickets, Respond, LoseConnection, RejectResponse, disk
<1>6. ASSUME NEW j \in Joins, NEW d \in Devices, NEW b \in Boots, NEW t \in Tokens, Dial(j, d, b, t)
      PROVE  Same
  BY <1>6 DEF Dial, disk
<1>7. ASSUME NEW j \in Joins, SaveIdentity(j) \/ WriteIdentity(j) \/ SaveIdentityFails(j)
      PROVE  codes' = codes /\ current' = current /\ watcher' = watcher
  BY <1>7 DEF SaveIdentity, WriteIdentity, SaveIdentityFails
<1>8. ASSUME NEW j \in Joins, ReplaceCert(j) \/ WriteDevice(j) \/ SaveDeviceFails(j)
      PROVE  Same
  BY <1>8 DEF ReplaceCert, WriteDevice, SaveDeviceFails
<1>9. ASSUME NEW j \in Joins, ImportFails(j) \/ \E n \in Namespaces : ImportDoc(j, n)
      PROVE  Same
  BY <1>9 DEF ImportDoc, ImportFails, disk
<1>10. ASSUME NEW j \in Joins, UpsertGroup(j) \/ UpsertFails(j)
       PROVE  Same
  BY <1>10 DEF UpsertGroup, UpsertFails, disk
<1>11. ASSUME NEW j \in Joins, WriteGroups(j) \/ WriteGroupsFails(j)
       PROVE  Same
  BY <1>11 DEF WriteGroups, WriteGroupsFails
<1>12. ASSUME NEW j \in Joins, Finish(j)
       PROVE  codes' = codes /\ current' = current /\ idFile' = idFile
  BY <1>12 DEF Finish, disk
<1>13. ASSUME NEW d \in Devices, Reload(d) \/ Start(d)
       PROVE  codes' = codes /\ idFile' = idFile /\ (Start(d) => watcher' = watcher)
  BY <1>13 DEF Reload, Start, disk
<1>14. ASSUME NEW d \in Devices, ReloadFails(d) \/ CloseOldNode(d) \/ Crash(d)
       PROVE  codes' = codes /\ current' = current /\ idFile' = idFile
  BY <1>14 DEF ReloadFails, CloseOldNode, Crash, disk
<1>15. CASE Tick \/ UNCHANGED vars
  BY <1>15 DEF Tick, vars, disk
<1>16. CASE HostStep
  BY <1>1, <1>2, <1>3, <1>4, <1>5, <1>16 DEF HostStep
<1>17. ASSUME NEW j \in Joins, JoinStep(j)
       PROVE  /\ codes' = codes /\ current' = current
              /\ idFile' = idFile \/ SaveIdentity(j) \/ WriteIdentity(j) \/ SaveIdentityFails(j)
              /\ watcher' = watcher \/ Finish(j)
  BY <1>5, <1>7, <1>8, <1>9, <1>10, <1>11, <1>12, <1>17 DEF JoinStep
<1>18. ASSUME NEW d \in Devices, ProcessStep(d)
       PROVE  /\ codes' = codes /\ idFile' = idFile
              /\ current' = current \/ Reload(d) \/ Start(d)
              /\ watcher' = watcher \/ Reload(d) \/ ReloadFails(d) \/ CloseOldNode(d) \/ Crash(d)
  BY <1>13, <1>14, <1>18 DEF ProcessStep
<1> QED BY <1>5, <1>6, <1>15, <1>16, <1>17, <1>18 DEF Next

\* What is minted stays minted.
LEMMA CodesKept ==
  ASSUME TypeOK, [Next]_vars, NEW t \in Tokens, codes[t] # None
  PROVE  codes'[t] = codes[t]
<1>1. ASSUME NEW d \in Devices, NEW b \in Boots, NEW u \in Tokens, CreateCode(d, b, u)
      PROVE  codes'[t] = codes[t]
  BY <1>1 DEF CreateCode, TypeOK
<1> QED BY <1>1, OnlyBy

\* A call that has begun stays the same call, and what it was given stays.
LEMMA CallsGoOn ==
  ASSUME TypeOK, DialledCodes, HonouredIsSpent, FreshCalls, [Next]_vars, NEW j \in Joins
  PROVE  /\ join[j].phase # "idle" =>
              /\ join'[j].phase # "idle"
              /\ join'[j].dev = join[j].dev /\ join'[j].boot = join[j].boot
              /\ Host(j)' = Host(j)
         /\ join[j].issuer # None =>
              join'[j].issuer = join[j].issuer /\ join'[j].servedBy = join[j].servedBy
         /\ Replaces(j) => Replaces(j)' /\ join[j].phase # "idle"
<1>1. CallStep(j)
  BY CallsEach
<1>2. Replaces(j) => join[j].phase \notin {"idle", "dialled", "served", "gathering"}
  BY DEF Replaces, Saves, FreshCalls
<1>3. Replaces(j) => Replaces(j)'
  BY <1>1, <1>2 DEF CallStep, MovesOn, IsServed, IsAnswered, Imports, Begins, Replaces, Saves
<1>4. join[j].issuer # None =>
        join'[j].issuer = join[j].issuer /\ join'[j].servedBy = join[j].servedBy
  BY <1>1
  DEF CallStep, MovesOn, Keeps, IsServed, IsAnswered, Imports, Begins, HonouredIsSpent, Honoured
<1>5. ASSUME join[j].phase # "idle"
      PROVE  /\ join'[j].phase # "idle" /\ join'[j].token = join[j].token
             /\ join'[j].dev = join[j].dev /\ join'[j].boot = join[j].boot
  BY <1>1, <1>5 DEF CallStep, MovesOn, Keeps, IsServed, IsAnswered, Imports, Begins, SameCaller
<1>6. ASSUME join[j].phase # "idle"
      PROVE  Host(j)' = Host(j)
  <2>1. join[j].token \in Tokens /\ codes[join[j].token] # None
    BY <1>6 DEF TypeOK, JoinCalls, DialledCodes
  <2>2. codes'[join[j].token] = codes[join[j].token]
    BY <2>1, CodesKept
  <2> QED BY <1>5, <1>6, <2>2 DEF Host
<1> QED BY <1>2, <1>3, <1>4, <1>5, <1>6

\* The groups of a boot only grow, its identity stays, and there are ever more boots.
LEMMA BootsGoOn ==
  ASSUME TypeOK, NEW d \in Devices, GroupsStep(d), NEW b \in Boots, b <= current[d]
  PROVE  /\ app[d][b].groups \subseteq app'[d][b].groups
         /\ app'[d][b].identity = app[d][b].identity
         /\ b <= current'[d]
<1>0. current[d] \in Nat /\ b \in Nat
  <2>1. current[d] \in Boots
    BY DEF TypeOK
  <2> QED BY <2>1, Bounds
<1>1. b # current[d] + 1 /\ b <= current[d] + 1
  BY <1>0
<1>2. CASE GroupsStill(d)
  BY <1>2 DEF GroupsStill, SameGroups
<1>3. CASE GroupsEntered(d)
  <2>1. PICK c \in Boots, n \in docs'[d] :
          /\ app'[d][c].groups = app[d][c].groups \cup {n}
          /\ app'[d][c].identity = app[d][c].identity
          /\ \A a \in Boots \ {c} : SameGroups(d, a)
    BY <1>3 DEF GroupsEntered
  <2> QED BY <1>3, <2>1 DEF GroupsEntered, SameGroups
<1>4. CASE GroupsWritten(d)
  BY <1>4 DEF GroupsWritten, SameGroups
<1>5. CASE GroupsRead(d)
  BY <1>1, <1>5 DEF GroupsRead, SameGroups
<1> QED BY <1>2, <1>3, <1>4, <1>5 DEF GroupsStep

\* Every group in an index or in groups.json is in the doc store.
KnownDocs ==
  \A d \in Devices :
    /\ groupsFile[d] = Torn \/ groupsFile[d] \subseteq docs[d]
    /\ \A b \in Boots : app[d][b].groups \subseteq docs[d]

DocsInv == ImportedDocs /\ KnownDocs

\* Every step keeps this.
LEMMA DocsNext ==
  ASSUME TokenInv, IndexInv, FreshCalls, DocsInv, [Next]_vars
  PROVE  DocsInv'
<1>0. TypeOK /\ ImportedDocs /\ KnownDocs
  BY DEF TokenInv, DocsInv
<1>1. \A d \in Devices : GroupsStep(d)
  BY <1>0, GroupsEach
<1>2. KnownDocs'
  <2> SUFFICES ASSUME NEW d \in Devices
               PROVE  /\ groupsFile'[d] = Torn \/ groupsFile'[d] \subseteq docs'[d]
                      /\ \A b \in Boots : app'[d][b].groups \subseteq docs'[d]
    BY DEF KnownDocs
  <2>0. /\ docs[d] \subseteq docs'[d] /\ \A b \in Boots : app[d][b].groups \subseteq docs[d]
        /\ groupsFile[d] = Torn \/ groupsFile[d] \subseteq docs[d]
    BY <1>0, <1>1 DEF KnownDocs, GroupsStep
  <2>1. CASE GroupsStill(d)
    BY <2>0, <2>1 DEF GroupsStill, SameGroups
  <2>2. CASE GroupsEntered(d)
    BY <2>0, <2>2 DEF GroupsEntered, SameGroups
  <2>3. CASE GroupsWritten(d)
    BY <2>0, <2>3 DEF GroupsWritten, SameGroups
  <2>4. CASE GroupsRead(d)
    BY <2>0, <2>4 DEF GroupsRead, SameGroups
  <2> QED BY <1>1, <2>1, <2>2, <2>3, <2>4 DEF GroupsStep
<1>3. ASSUME NEW j \in Joins
      PROVE  /\ join'[j].phase = "imported" => join'[j].ns \in docs'[join'[j].dev]
             /\ join'[j].phase = "savingGroups" =>
                  join'[j].ns \in app'[join'[j].dev][join'[j].boot].groups
  <2> DEFINE d == join[j].dev
             b == join[j].boot
  <2>0. d \in Devices /\ b \in Boots /\ CallStep(j)
    BY <1>0, CallsEach DEF TypeOK, JoinCalls
  <2>1. CASE MovesOn(j) /\ ~UpsertGroup(j)
    <3>1. join'[j].phase = "savingGroups" => app[d][b].groups \subseteq app'[d][b].groups
      <4>1. join'[j].phase = "savingGroups" => b <= current[d]
        BY <2>0, <2>1 DEF MovesOn, IndexInv, CallsLive, LiveIsBooted, InFlight
      <4> QED BY <1>0, <1>1, <2>0, <4>1, BootsGoOn
    <3> QED BY <1>0, <1>1, <2>0, <2>1, <3>1 DEF MovesOn, Keeps, ImportedDocs, GroupsStep
  <2>2. CASE UpsertGroup(j)
    <3>1. app'[d][b].groups = app[d][b].groups \cup {join[j].ns}
      <4>1. app \in [Devices -> [Boots -> AppStates]] /\ app[d][b] \in AppStates
        BY <1>0, <2>0 DEF TypeOK
      <4>2. app'[d][b] = [app[d][b] EXCEPT !.groups = Upserted(@, join[j].ns), !.saving = j]
        BY <2>0, <2>2, <4>1 DEF UpsertGroup
      <4> QED BY <4>1, <4>2 DEF AppStates, Upserted
    <3>2. Moves(j, "savingGroups", join[j].reached)
      BY <1>0, <2>2, MovesOf
    <3> QED BY <3>1, <3>2 DEF Moves
  <2>3. ASSUME NEW n \in Namespaces, ImportDoc(j, n), Imports(j, "imported", n, join[j].todo)
        PROVE  /\ join'[j].phase = "imported" => join'[j].ns \in docs'[join'[j].dev]
               /\ join'[j].phase # "savingGroups"
    BY <1>0, <2>0, <2>3 DEF ImportDoc, Imports, SameCaller, TypeOK
  <2> QED BY <2>0, <2>1, <2>2, <2>3 DEF CallStep, IsServed, IsAnswered, Imports, Begins
<1> QED BY <1>2, <1>3 DEF DocsInv, ImportedDocs

\* At first no call has begun, and the home groups are everywhere.
LEMMA DocsInit == Init => DocsInv
<1> SUFFICES ASSUME Init PROVE DocsInv
  OBVIOUS
<1>1. \A j \in Joins : join[j].phase = "idle"
  BY NotCalledType DEF Init
<1>2. \A d \in Devices, b \in Boots : app[d][b].groups \subseteq Home[d]
  <2> TAKE d \in Devices, b \in Boots
  <2>1. Booted(d, Home[d]).groups = Home[d] /\ NotBooted(d).groups = {}
    BY DEF Booted, NotBooted
  <2> QED BY <2>1 DEF Init
<1> QED BY <1>1, <1>2 DEF DocsInv, ImportedDocs, KnownDocs, Init

-----------------------------------------------------------------------------
(* Where nothing reloads: the devices that the desktop shell does not run.  *)

Headless == Devices \ Desktops

\* The only live AppState of such a device is its latest.
OneBoot ==
  \A d \in Headless :
    /\ watcher[d] = "waiting"
    /\ \A b \in Boots : app[d][b].live => b = current[d]

\* A set of groups that nothing on the device forgets.
Kept(S, d) ==
  /\ groupsFile[d] = Torn \/ S \subseteq groupsFile[d]
  /\ \A b \in Boots : app[d][b].live => S \subseteq app[d][b].groups

\* And it is one after the step.
KeptNext(S, d) ==
  /\ groupsFile'[d] = Torn \/ S \subseteq groupsFile'[d]
  /\ \A b \in Boots : app'[d][b].live => S \subseteq app'[d][b].groups

\* What a join has imported is such a set.
ImportedStay ==
  \A j \in Joins :
    join[j].dev \in Headless => Kept(join[j].tickets \ join[j].todo, join[j].dev)

\* The identity on disk is that of the boot, unless a join made since replaced it.
ReplacedSince(d, b) ==
  \E k \in Joins : Replaces(k) /\ join[k].dev = d /\ join[k].boot >= b

BootIds ==
  \A d \in Headless, b \in Boots : b <= current[d] =>
    idFile[d] = app[d][b].identity \/ ReplacedSince(d, b)

\* A join is given the identity of the AppState that served it, on another device.
IssuedBy ==
  \A j \in Joins :
    /\ join[j].phase # "idle" => Host(j) # join[j].dev
    /\ join[j].issuer # None =>
         /\ join[j].phase # "idle" /\ join[j].servedBy <= current[Host(j)]
         /\ join[j].issuer = app[Host(j)][join[j].servedBy].identity

\* And that identity is on the joiner's disk once saved, unless another join of the
\* device saves one too.
Other(j) == \E k \in Joins \ {j} : Replaces(k) /\ join[k].dev = join[j].dev

SavedIds ==
  \A j \in Joins :
    /\ join[j].phase = "savingIdentity" => idFile[join[j].dev] = Torn \/ Other(j)
    /\ Saves(j) # {} => idFile[join[j].dev] = join[j].issuer \/ Other(j)

AloneInv == OneBoot /\ ImportedStay /\ BootIds /\ IssuedBy /\ SavedIds

\* Only a boot makes another AppState the latest, and only a join's save changes the
\* identity on disk.
LEMMA ChangedBy ==
  ASSUME TypeOK, [Next]_vars, NEW d \in Devices
  PROVE  /\ current'[d] # current[d] => Reload(d) \/ Start(d)
         /\ idFile'[d] # idFile[d] =>
              \E k \in Joins :
                /\ join[k].dev = d /\ InFlight(k) /\ join'[k].dev = d /\ Replaces(k)'
                /\ SaveIdentity(k) \/ WriteIdentity(k) \/ SaveIdentityFails(k)
<1>1. ASSUME NEW e \in Devices, Reload(e) \/ Start(e)
      PROVE  idFile' = idFile /\ (e # d => current'[d] = current[d])
  BY <1>1 DEF Reload, Start, disk, TypeOK
<1>2. ASSUME NEW k \in Joins, SaveIdentity(k) \/ WriteIdentity(k) \/ SaveIdentityFails(k)
      PROVE  /\ current' = current /\ InFlight(k) /\ join'[k].dev = join[k].dev
             /\ join[k].dev # d => idFile'[d] = idFile[d]
             /\ idFile'[d] # idFile[d] => Replaces(k)'
  <2>1. CASE SaveIdentity(k)
    <3>1. join[k].phase = "answered" /\ Moves(k, "savingIdentity", join[k].reached)
      BY <2>1, MovesOf
    <3> QED BY <2>1, <3>1 DEF SaveIdentity, TypeOK, Moves, InFlight, Replaces
  <2>2. CASE WriteIdentity(k)
    <3>1. join[k].phase = "savingIdentity" /\ Moves(k, "savedIdentity", join[k].reached)
      BY <2>2, MovesOf
    <3> QED BY <2>2, <3>1 DEF WriteIdentity, TypeOK, Moves, InFlight, Replaces, Saves
  <2>3. CASE SaveIdentityFails(k)
    <3>1. join[k].phase \in {"answered", "savingIdentity"} /\ Moves(k, "failed", join[k].phase)
      BY <2>3, MovesOf
    <3>2. idFile'[d] # idFile[d] => join[k].phase = "savingIdentity"
      BY <2>3 DEF SaveIdentityFails
    <3> QED BY <2>3, <3>1, <3>2 DEF SaveIdentityFails, TypeOK, Moves, InFlight, Replaces
  <2> QED BY <1>2, <2>1, <2>2, <2>3
<1>3. idFile'[d] # idFile[d] =>
        \E k \in Joins : SaveIdentity(k) \/ WriteIdentity(k) \/ SaveIdentityFails(k)
  BY OnlyBy
<1>4. current'[d] # current[d] => \E e \in Devices : Reload(e) \/ Start(e)
  BY OnlyBy
<1> QED BY <1>1, <1>2, <1>3, <1>4

\* Every step keeps OneBoot: no join is heard, and a process starts where none runs.
LEMMA OneBootNext ==
  ASSUME TokenInv, IndexInv, ImportedDocs, OneBoot, [Next]_vars
  PROVE  OneBoot'
<1>0. TypeOK
  BY DEF TokenInv
<1> SUFFICES ASSUME NEW d \in Devices, d \in Headless
             PROVE  /\ watcher'[d] = "waiting"
                    /\ \A b \in Boots : app'[d][b].live => b = current'[d]
  BY DEF OneBoot, Headless
<1>1. watcher'[d] = "waiting"
  <2>1. ASSUME NEW e \in Devices, Reload(e) \/ ReloadFails(e) \/ CloseOldNode(e) \/ Crash(e)
        PROVE  watcher'[d] = "waiting"
    BY <1>0, <2>1 DEF OneBoot, Reload, ReloadFails, CloseOldNode, Crash, TypeOK
  <2>2. ASSUME NEW j \in Joins, Finish(j)
        PROVE  watcher'[d] = watcher[d]
    BY <1>0, <2>2 DEF Finish, Heard, Headless, TypeOK
  <2> QED BY <2>1, <2>2, OnlyBy DEF OneBoot
<1>2. CASE GroupsStill(d) \/ GroupsWritten(d)
  BY <1>1, <1>2 DEF GroupsStill, GroupsWritten, SameGroups, OneBoot
<1>3. CASE GroupsEntered(d)
  <2>1. PICK b \in Boots : app[d][b].live /\ \A c \in Boots \ {b} : SameGroups(d, c)
    BY <1>3 DEF GroupsEntered
  <2> QED BY <1>1, <1>3, <2>1 DEF GroupsEntered, SameGroups, OneBoot
<1>4. CASE GroupsRead(d)
  <2>1. current[d] \in Nat /\ current[d] \in Boots
    <3>1. current[d] \in Boots
      BY <1>0 DEF TypeOK
    <3> QED BY <3>1, Bounds
  <2>2. current'[d] = current[d] + 1 /\ \A c \in Boots \ {current'[d]} : SameGroups(d, c)
    BY <1>4 DEF GroupsRead
  <2>3. Start(d)
    BY <1>0, <2>1, <2>2, ChangedBy DEF OneBoot, Reload
  <2>4. \A b \in Boots : ~app[d][b].live
    BY <2>3 DEF Start, Up, OneBoot
  <2> QED BY <1>1, <2>2, <2>4 DEF SameGroups
<1> QED BY <1>0, <1>2, <1>3, <1>4, GroupsEach DEF GroupsStep

\* Nothing a device has ever had in its index and on disk gets lost.
LEMMA KeptStays ==
  ASSUME NEW d \in Devices, GroupsStep(d), NEW S, Kept(S, d)
  PROVE  KeptNext(S, d)
<1>1. CASE GroupsStill(d)
  BY <1>1 DEF GroupsStill, SameGroups, Kept, KeptNext
<1>2. CASE GroupsEntered(d)
  <2>1. PICK b \in Boots, n \in docs'[d] :
          /\ app'[d][b].groups = app[d][b].groups \cup {n} /\ app[d][b].live
          /\ \A c \in Boots \ {b} : SameGroups(d, c)
    BY <1>2 DEF GroupsEntered
  <2> QED BY <1>2, <2>1 DEF GroupsEntered, SameGroups, Kept, KeptNext
<1>3. CASE GroupsWritten(d)
  BY <1>3 DEF GroupsWritten, SameGroups, Kept, KeptNext
<1>4. CASE GroupsRead(d)
  BY <1>4 DEF GroupsRead, SameGroups, Kept, KeptNext
<1> QED BY <1>1, <1>2, <1>3, <1>4 DEF GroupsStep

\* Every step keeps what is known of imported groups: only a save that a join
\* completes adds to them, and the only live index then has the group.
LEMMA ImportedNext ==
  ASSUME TokenInv, IndexInv, FreshCalls, ImportedDocs, OneBoot, ImportedStay, [Next]_vars
  PROVE  ImportedStay'
<1>0. TypeOK /\ \A d \in Devices : GroupsStep(d)
  BY GroupsEach DEF TokenInv
<1> SUFFICES ASSUME NEW j \in Joins, join'[j].dev \in Headless
             PROVE  KeptNext(join'[j].tickets \ join'[j].todo, join'[j].dev)
  BY DEF ImportedStay, Kept, KeptNext
<1> DEFINE d == join[j].dev
           b == join[j].boot
           S == join[j].tickets \ join[j].todo
<1>1. d \in Devices /\ b \in Boots /\ CallStep(j) /\ (d \in Headless => Kept(S, d))
  BY <1>0, CallsEach DEF TypeOK, JoinCalls, ImportedStay
<1>2. ASSUME join'[j].tickets \ join'[j].todo = S, join'[j].dev = d
      PROVE  KeptNext(join'[j].tickets \ join'[j].todo, join'[j].dev)
  BY <1>0, <1>1, <1>2, KeptStays
<1>3. ASSUME join'[j].tickets = join'[j].todo
      PROVE  KeptNext(join'[j].tickets \ join'[j].todo, join'[j].dev)
  BY <1>3 DEF KeptNext
<1>4. CASE MovesOn(j) \/ \E c \in Boots : IsServed(j, c)
  BY <1>2, <1>4 DEF MovesOn, Keeps, IsServed, SameCaller
<1>5. CASE IsAnswered(j) \/ \E e \in Devices, c \in Boots, t \in Tokens : Begins(j, e, c, t)
  BY <1>3, <1>5 DEF IsAnswered, Begins
<1>6. CASE \E n \in Namespaces : Imports(j, "imported", n, join[j].todo)
  BY <1>2, <1>6 DEF Imports, SameCaller
<1>7. CASE WriteGroups(j) /\ Imports(j, "savedDevice", None, join[j].todo \ {join[j].ns})
  <2> DEFINE T == S \cup {join[j].ns}
  <2>1. /\ join[j].phase = "savingGroups" /\ join'[j].dev = d /\ d \in Headless
        /\ join'[j].tickets \ join'[j].todo \subseteq T
    BY <1>7 DEF WriteGroups, Imports, SameCaller
  <2>2. app[d][b].live /\ app[d][b].saving = j
    BY <2>1 DEF IndexInv, CallsLive, LockHeld, InFlight
  <2>3. Sole(d, b)
    BY <1>1, <2>1, <2>2 DEF Sole, OneBoot
  <2>4. groupsFile[d] = Torn
    BY <1>1, <2>2, <2>3, PairingAssumption DEF IndexInv, FileOfSoleIndex
  <2>5. \A c \in Boots : app[d][c].live => T \subseteq app[d][c].groups
    BY <1>1, <2>1, <2>3 DEF Sole, ImportedDocs, Kept
  <2>6. KeptNext(T, d)
    <3>1. Kept(T, d)
      BY <2>4, <2>5 DEF Kept
    <3> HIDE DEF T, d
    <3> QED BY <1>0, <1>1, <3>1, KeptStays
  <2> QED BY <2>1, <2>6 DEF KeptNext
<1> QED BY <1>1, <1>4, <1>5, <1>6, <1>7 DEF CallStep

\* The host of a call that has begun is a device.
LEMMA DialledHost ==
  ASSUME TypeOK, DialledCodes, NEW j \in Joins, join[j].phase # "idle"
  PROVE  Host(j) \in Devices
<1>1. join[j].token \in Tokens /\ codes[join[j].token] # None
  BY DEF TypeOK, JoinCalls, DialledCodes
<1>2. codes[join[j].token] \in Codes
  BY <1>1 DEF TypeOK
<1> QED BY <1>2 DEF Host, Codes

\* A join that replaces the identity of a device still does after a step, on the same
\* AppState.
LEMMA ReplacersStay ==
  ASSUME TypeOK, DialledCodes, HonouredIsSpent, FreshCalls, [Next]_vars
  PROVE  /\ \A d \in Devices, b \in Boots : ReplacedSince(d, b) => ReplacedSince(d, b)'
         /\ \A j \in Joins : join[j].phase # "idle" /\ Other(j) => Other(j)'
<1>1. ASSUME NEW k \in Joins, Replaces(k)
      PROVE  Replaces(k)' /\ join'[k].dev = join[k].dev /\ join'[k].boot = join[k].boot
  BY <1>1, CallsGoOn
<1>2. ASSUME NEW j \in Joins, join[j].phase # "idle"
      PROVE  join'[j].dev = join[j].dev
  BY <1>2, CallsGoOn
<1> QED BY <1>1, <1>2 DEF ReplacedSince, Other

\* Every step keeps BootIds: who replaces the identity is on the latest boot.
LEMMA BootIdsNext ==
  ASSUME TokenInv, IndexInv, FreshCalls, ImportedDocs, OneBoot, BootIds, [Next]_vars
  PROVE  BootIds'
<1>0. TypeOK /\ DialledCodes /\ HonouredIsSpent
  BY DEF TokenInv
<1> SUFFICES ASSUME NEW d \in Devices, d \in Headless, NEW b \in Boots, b <= current'[d]
             PROVE  idFile'[d] = app'[d][b].identity \/ ReplacedSince(d, b)'
  BY DEF BootIds, Headless
<1>1. current[d] \in Nat /\ b \in Nat /\ current[d] \in Boots
  <2>1. current[d] \in Boots
    BY <1>0 DEF TypeOK
  <2> QED BY <2>1, Bounds
<1>2. CASE b <= current[d]
  <2>1. app'[d][b].identity = app[d][b].identity
    BY <1>0, <1>2, GroupsEach, BootsGoOn
  <2>2. CASE idFile'[d] = idFile[d]
    BY <1>0, <1>2, <2>1, <2>2, ReplacersStay DEF BootIds
  <2>3. CASE idFile'[d] # idFile[d]
    <3>1. PICK k \in Joins : join[k].dev = d /\ InFlight(k) /\ Replaces(k)'
      BY <1>0, <2>3, ChangedBy
    <3>2. join[k].phase # "idle"
      BY <3>1 DEF InFlight
    <3>3. join[k].boot = current[d] /\ join'[k].dev = d /\ join'[k].boot = join[k].boot
      <4>1. join[k].boot \in Boots
        BY <1>0 DEF TypeOK, JoinCalls
      <4> QED BY <1>0, <3>1, <3>2, <4>1, CallsGoOn DEF IndexInv, CallsLive, OneBoot
    <3> QED BY <1>1, <1>2, <3>1, <3>3 DEF ReplacedSince
  <2> QED BY <2>2, <2>3
<1>3. CASE ~(b <= current[d])
  <2>1. current'[d] # current[d]
    BY <1>3
  <2>2. GroupsRead(d)
    BY <1>0, <2>1, GroupsEach DEF GroupsStep, GroupsStill, GroupsEntered, GroupsWritten
  <2>3. b = current[d] + 1
    BY <1>1, <1>3, <2>2 DEF GroupsRead
  <2>4. Reload(d) \/ Start(d)
    BY <1>0, <2>1, ChangedBy
  <2> QED BY <2>2, <2>3, <2>4 DEF GroupsRead, Reload, Start, disk
<1> QED BY <1>2, <1>3

\* Every step keeps IssuedBy.
LEMMA IssuedNext ==
  ASSUME TokenInv, IndexInv, FreshCalls, ImportedDocs, IssuedBy, [Next]_vars
  PROVE  IssuedBy'
<1>0. TypeOK /\ DialledCodes /\ HonouredIsSpent
  BY DEF TokenInv
<1> SUFFICES ASSUME NEW j \in Joins
             PROVE  /\ join'[j].phase # "idle" => Host(j)' # join'[j].dev
                    /\ join'[j].issuer # None =>
                         /\ join'[j].phase # "idle" /\ join'[j].servedBy <= current'[Host(j)']
                         /\ join'[j].issuer = app'[Host(j)'][join'[j].servedBy].identity
  BY DEF IssuedBy
<1> DEFINE h == Host(j)
<1>1. CallStep(j)
  BY <1>0, CallsEach
<1>2. CASE join[j].phase # "idle"
  <2>1. h' = h /\ join'[j].dev = join[j].dev /\ join'[j].phase # "idle" /\ h \in Devices
    BY <1>0, <1>2, CallsGoOn, DialledHost
  <2>2. ASSUME NEW c \in Boots, c <= current[h]
        PROVE  c <= current'[h] /\ app'[h][c].identity = app[h][c].identity
    BY <1>0, <2>1, <2>2, GroupsEach, BootsGoOn
  <2>3. CASE join[j].issuer # None
    <3>1. join'[j].issuer = join[j].issuer /\ join'[j].servedBy = join[j].servedBy
      BY <1>0, <2>3, CallsGoOn
    <3>2. join[j].servedBy \in Boots
      BY <1>0 DEF TypeOK, JoinCalls
    <3> QED BY <1>2, <2>1, <2>2, <2>3, <3>1, <3>2 DEF IssuedBy
  <2>4. CASE join[j].issuer = None
    <3>1. CASE \E c \in Boots : IsServed(j, c)
      <4>1. PICK c \in Boots : IsServed(j, c)
        BY <3>1
      <4>2. c <= current[h]
        BY <2>1, <4>1 DEF IsServed, IndexInv, LiveIsBooted
      <4> QED BY <1>2, <2>1, <2>2, <4>1, <4>2 DEF IsServed, IssuedBy
    <3>2. CASE ~ \E c \in Boots : IsServed(j, c)
      <4>1. join'[j].issuer = None
        BY <1>1, <1>2, <2>4, <3>2 DEF CallStep, MovesOn, Keeps, IsAnswered, Imports, Begins
      <4> QED BY <1>2, <2>1, <4>1 DEF IssuedBy
    <3> QED BY <3>1, <3>2
  <2> QED BY <2>3, <2>4
<1>3. CASE join[j].phase = "idle"
  <2>1. join[j].issuer = None
    BY <1>3 DEF IssuedBy
  <2>2. CASE MovesOn(j)
    BY <1>3, <2>1, <2>2 DEF MovesOn, Keeps
  <2>3. ASSUME NEW d \in Devices, NEW b \in Boots, NEW t \in Tokens,
               Dial(j, d, b, t), Begins(j, d, b, t)
        PROVE  Host(j)' # join'[j].dev /\ join'[j].issuer = None
    BY <2>3 DEF Dial, Begins, Host
  <2> QED BY <1>1, <1>3, <2>2, <2>3 DEF CallStep, IsServed, IsAnswered, ImportDoc
<1> QED BY <1>2, <1>3

\* Every step keeps SavedIds.
LEMMA SavedIdsNext ==
  ASSUME TokenInv, FreshCalls, SavedIds, [Next]_vars
  PROVE  SavedIds'
<1>0. TypeOK /\ DialledCodes /\ HonouredIsSpent
  BY DEF TokenInv
<1> SUFFICES ASSUME NEW j \in Joins, ~Other(j)'
             PROVE  /\ join'[j].phase = "savingIdentity" => idFile'[join'[j].dev] = Torn
                    /\ Saves(j)' # {} => idFile'[join'[j].dev] = join'[j].issuer
  BY DEF SavedIds
<1> DEFINE d == join[j].dev
<1>1. CallStep(j) /\ d \in Devices
  BY <1>0, CallsEach DEF TypeOK, JoinCalls
<1>2. /\ join'[j].phase = "savingIdentity" => join[j].phase = "savingIdentity" \/ SaveIdentity(j)
      /\ Saves(j)' # {} => Saves(j) # {} \/ WriteIdentity(j)
  <2>1. CASE MovesOn(j)
    BY <2>1 DEF MovesOn
  <2>2. CASE IsAnswered(j) \/ \E b \in Boots : IsServed(j, b)
    BY <2>2 DEF IsServed, IsAnswered, SameCaller, FreshCalls, Saves
  <2>3. CASE \/ \E m \in Namespaces : ImportDoc(j, m) /\ Imports(j, "imported", m, join[j].todo)
             \/ /\ join[j].phase = "savingGroups"
                /\ Imports(j, "savedDevice", None, join[j].todo \ {join[j].ns})
    BY <2>3 DEF ImportDoc, Imports, Saves
  <2>4. CASE \E e \in Devices, b \in Boots, t \in Tokens : Begins(j, e, b, t)
    BY <2>4 DEF Begins, Saves
  <2> QED BY <1>1, <2>1, <2>2, <2>3, <2>4 DEF CallStep
<1>3. Saves(j) # {} => join[j].phase \notin {"idle", "dialled", "served", "gathering", "answered",
                                          "savingIdentity"}
  BY DEF Saves, FreshCalls
<1>4. ASSUME join[j].phase \notin {"idle", "dialled", "served"}
      PROVE  join'[j].dev = d /\ join'[j].issuer = join[j].issuer
  BY <1>1, <1>4 DEF CallStep, MovesOn, Keeps, IsServed, IsAnswered, Imports, Begins, SameCaller
<1>5. join[j].phase # "idle" => ~Other(j)
  BY <1>0, ReplacersStay
<1>6. ASSUME idFile'[d] # idFile[d], join[j].phase # "idle"
      PROVE  SaveIdentity(j) \/ WriteIdentity(j) \/ SaveIdentityFails(j)
  <2>1. PICK k \in Joins : /\ join'[k].dev = d /\ Replaces(k)'
                           /\ SaveIdentity(k) \/ WriteIdentity(k) \/ SaveIdentityFails(k)
    BY <1>0, <1>1, <1>6, ChangedBy
  <2>2. join'[j].dev = d
    BY <1>0, <1>6, CallsGoOn
  <2> QED BY <2>1, <2>2 DEF Other
<1>7. ASSUME join'[j].phase = "savingIdentity"
      PROVE  idFile'[join'[j].dev] = Torn
  <2>1. CASE SaveIdentity(j)
    BY <1>0, <1>1, <1>4, <2>1 DEF SaveIdentity, TypeOK
  <2>2. CASE join[j].phase = "savingIdentity" /\ ~SaveIdentity(j)
    <3>1. ~WriteIdentity(j) /\ ~SaveIdentityFails(j)
      BY <1>0, <1>7, MovesOf DEF Moves
    <3> QED BY <1>4, <1>5, <1>6, <2>2, <3>1 DEF SavedIds
  <2> QED BY <1>2, <1>7, <2>1, <2>2
<1>8. ASSUME Saves(j)' # {}
      PROVE  idFile'[join'[j].dev] = join'[j].issuer
  <2>1. CASE WriteIdentity(j)
    <3>1. join[j].phase = "savingIdentity" /\ idFile[d] = Torn
      BY <1>5, <2>1 DEF WriteIdentity, SavedIds
    <3>2. idFile'[d] = join[j].issuer
      BY <1>0, <1>1, <2>1, <3>1 DEF WriteIdentity, Written, TypeOK
    <3> QED BY <1>4, <3>1, <3>2
  <2>2. CASE Saves(j) # {}
    <3>1. ~SaveIdentity(j) /\ ~WriteIdentity(j) /\ ~SaveIdentityFails(j)
      BY <1>3, <2>2 DEF SaveIdentity, WriteIdentity, SaveIdentityFails
    <3> QED BY <1>3, <1>4, <1>5, <1>6, <2>2, <3>1 DEF SavedIds
  <2> QED BY <1>2, <1>8, <2>1, <2>2
<1> QED BY <1>7, <1>8

\* The strengthening of the three properties of devices that do not reload.
DeskInv == TokenInv /\ IndexInv /\ CertInv /\ DocsInv /\ AloneInv

\* At first every device is alone.
LEMMA AloneInit == Init => AloneInv
<1> SUFFICES ASSUME Init PROVE AloneInv
  OBVIOUS
<1>1. /\ \A j \in Joins : join[j] = NotCalled
      /\ \A d \in Devices : current[d] = 1 /\ idFile[d] = d /\ watcher[d] = "waiting"
      /\ \A d \in Devices : 1 \in Boots /\ app[d][1].identity = d
      /\ \A d \in Devices, b \in Boots : app[d][b].live => b = 1
      /\ \A b \in Boots : b <= 1 => b = 1
  <2>1. 1 \in Boots /\ \A b \in Boots : b <= 1 => b = 1
    BY PairingAssumption DEF Boots
  <2>2. ASSUME NEW d \in Devices, NEW b \in Boots
        PROVE  (app[d][b].live => b = 1) /\ (b = 1 => app[d][b].identity = idFile[d])
    <3>1. Booted(d, Home[d]).identity = d /\ ~NotBooted(d).live
      BY DEF Booted, NotBooted
    <3> QED BY <3>1 DEF Init
  <2> QED BY <2>1, <2>2 DEF Init
<1>2. /\ NotCalled.phase = "idle" /\ NotCalled.reached = "idle" /\ NotCalled.issuer = None
      /\ NotCalled.tickets = {} /\ NotCalled.todo = {}
  BY DEF NotCalled
<1>3. \A j \in Joins : Saves(j) = {} /\ ~Replaces(j)
  BY <1>1, <1>2 DEF Saves, Replaces
<1>4. OneBoot /\ ImportedStay
  BY <1>1, <1>2 DEF OneBoot, ImportedStay, Kept, Headless
<1>5. BootIds /\ IssuedBy /\ SavedIds
  BY <1>1, <1>2, <1>3 DEF BootIds, IssuedBy, SavedIds, Headless
<1> QED BY <1>4, <1>5 DEF AloneInv

\* Every step keeps the whole invariant.
LEMMA DeskNext == DeskInv /\ [Next]_vars => DeskInv'
<1> SUFFICES ASSUME DeskInv, [Next]_vars PROVE DeskInv'
  OBVIOUS
<1>1. /\ TokenInv /\ IndexInv /\ CertInv /\ FreshCalls /\ TypeOK /\ DocsInv /\ ImportedDocs
      /\ OneBoot /\ ImportedStay /\ BootIds /\ IssuedBy /\ SavedIds
  BY DEF DeskInv, CertInv, TokenInv, AloneInv, DocsInv
<1>2. TokenInv' /\ IndexInv' /\ CertInv' /\ DocsInv'
  BY <1>1, TokenNext, IndexNext, CertNext, DocsNext
<1>3. OneBoot' /\ ImportedStay'
  BY <1>1, OneBootNext, ImportedNext
<1>4. BootIds' /\ IssuedBy' /\ SavedIds'
  BY <1>1, BootIdsNext, IssuedNext, SavedIdsNext
<1> QED BY <1>2, <1>3, <1>4 DEF DeskInv, AloneInv

\* The whole invariant always holds.
LEMMA DeskAlways == Spec => []DeskInv
<1>1. Init => DeskInv
  BY TokenInit, IndexInit, CertInit, DocsInit, AloneInit DEF DeskInv
<1>2. DeskInv /\ [Next]_vars => DeskInv'
  BY DeskNext
<1> QED BY <1>1, <1>2, PTL DEF Spec

\* A group that a join imported stays in groups.json (dispatch.rs: the imports of
\* devices_pair_join and the saves of Groups), unless its device reloads.
THEOREM ImportedGroupsStay == Spec => []ImportedGroupStays
<1>1. DeskInv => ImportedGroupStays
  <2> SUFFICES ASSUME DeskInv, NEW j \in Joins, join[j].dev \notin Desktops
               PROVE  \/ groupsFile[join[j].dev] = Torn
                      \/ join[j].tickets \ join[j].todo \subseteq groupsFile[join[j].dev]
    BY DEF ImportedGroupStays
  <2>1. join[j].dev \in Headless
    BY DEF DeskInv, TokenInv, TypeOK, JoinCalls, Headless
  <2> QED BY <2>1 DEF DeskInv, AloneInv, ImportedStay, Kept
<1> QED BY <1>1, DeskAlways, PTL

\* After a completed join both devices have one identity on disk unless another join
\* replaced one of them (Identity::save in devices_pair_join), or the host reloads.
THEOREM PairedIsOneIdentity == Spec => []OneIdentityWhenPaired
<1>1. ASSUME DeskInv
      PROVE  OneIdentityWhenPaired
  <2> SUFFICES ASSUME NEW j \in Joins, join[j].phase = "done", Host(j) \notin Desktops
               PROVE  \/ idFile[join[j].dev] = idFile[Host(j)]
                      \/ \E k \in Joins \ {j} :
                           /\ Replaces(k)
                           /\ \/ join[k].dev = join[j].dev
                              \/ join[k].dev = Host(j) /\ join[k].boot >= join[j].servedBy
    BY DEF OneIdentityWhenPaired
  <2>1. TypeOK /\ DialledCodes /\ CallShape /\ BootIds /\ IssuedBy /\ SavedIds
    BY <1>1 DEF DeskInv, TokenInv, AloneInv
  <2>2. Host(j) \in Devices /\ join[j].servedBy \in Boots /\ Host(j) # join[j].dev
    BY <2>1, DialledHost DEF IssuedBy, TypeOK, JoinCalls
  <2>3. idFile[join[j].dev] = join[j].issuer \/ Other(j)
    BY <2>1 DEF SavedIds, Saves
  <2>4. /\ join[j].servedBy <= current[Host(j)]
        /\ join[j].issuer = app[Host(j)][join[j].servedBy].identity
    BY <2>1 DEF CallShape, IssuedBy
  <2>5. idFile[Host(j)] = join[j].issuer \/ ReplacedSince(Host(j), join[j].servedBy)
    BY <2>1, <2>2, <2>4 DEF BootIds, Headless
  <2>6. ReplacedSince(Host(j), join[j].servedBy) =>
          \E k \in Joins \ {j} :
            Replaces(k) /\ join[k].dev = Host(j) /\ join[k].boot >= join[j].servedBy
    BY <2>2 DEF ReplacedSince
  <2> QED BY <2>3, <2>5, <2>6 DEF Other
<1> QED BY <1>1, DeskAlways, PTL

-----------------------------------------------------------------------------
(* Why joins end: each lock has a live holder, and no call ever goes back. *)

\* Whoever holds the lock of an index is a group call or a join that is about to write
\* that index.
HolderSaves ==
  \A d \in Devices, b \in Boots, j \in Joins : app[d][b].saving = j =>
    join[j].phase = "savingGroups" /\ join[j].dev = d /\ join[j].boot = b

\* Only the call k may have changed, and it was not writing an index.
OnlyIdler(k) ==
  join[k].phase # "savingGroups" /\ \A j \in Joins \ {k} : join'[j] = join[j]

\* No step of a join but the end of its save is one of a call that writes the index.
LEMMA IdlersStep ==
  ASSUME TypeOK, NEW k \in Joins,
         \/ LoseConnection(k) \/ SaveIdentity(k) \/ RejectResponse(k) \/ WriteIdentity(k)
         \/ ReplaceCert(k) \/ WriteDevice(k) \/ ImportFails(k) \/ Finish(k) \/ UpsertGroup(k)
         \/ SaveFails(k) \/ UpsertFails(k)
         \/ Answers(k) \/ \E b \in Boots : HandleRequest(k, b)
         \/ \E n \in Namespaces : ImportDoc(k, n)
         \/ \E d \in Devices, b \in Boots, t \in Tokens : Dial(k, d, b, t)
  PROVE  OnlyIdler(k)
<1>1. ASSUME NEW p, NEW r, Moves(k, p, r), join[k].phase # "savingGroups"
      PROVE  OnlyIdler(k)
  BY <1>1 DEF Moves, OnlyIdler
<1>2. CASE \/ LoseConnection(k) \/ SaveIdentity(k) \/ RejectResponse(k) \/ WriteIdentity(k)
           \/ ReplaceCert(k) \/ WriteDevice(k) \/ ImportFails(k) \/ Finish(k) \/ UpsertGroup(k)
  BY <1>1, <1>2, MovesOf DEF OnTheWire
<1>7. CASE SaveFails(k) \/ UpsertFails(k)
  BY <1>1, <1>7, MovesOf DEF SaveFails
<1>3. ASSUME NEW b \in Boots, HandleRequest(k, b)
      PROVE  OnlyIdler(k)
  BY <1>1, <1>3, CallsOf DEF IsServed, OnlyIdler
<1>4. CASE Answers(k)
  BY <1>4, CallsOf DEF IsAnswered, OnlyIdler
<1>5. ASSUME NEW n \in Namespaces, ImportDoc(k, n)
      PROVE  OnlyIdler(k)
  BY <1>5, CallsOf DEF Imports, OnlyIdler
<1>6. ASSUME NEW d \in Devices, NEW b \in Boots, NEW t \in Tokens, Dial(k, d, b, t)
      PROVE  OnlyIdler(k)
  BY <1>6, CallsOf DEF Begins, OnlyIdler
<1> QED BY <1>2, <1>3, <1>4, <1>5, <1>6, <1>7

\* Every step keeps it.
LEMMA HolderNext ==
  ASSUME TokenInv, IndexInv, HolderSaves, [Next]_vars
  PROVE  HolderSaves'
<1>0. /\ TypeOK /\ DialledCodes /\ CallShape /\ app \in [Devices -> [Boots -> AppStates]]
      /\ \A d \in Devices, b \in Boots : app[d][b] \in AppStates
  BY DEF TokenInv, TypeOK
<1>1. ASSUME AppsSame, join' = join \/ \E k \in Joins : OnlyIdler(k)
      PROVE  HolderSaves'
  BY <1>1 DEF HolderSaves, AppsSame, SameApp, OnlyIdler
<1>2. ASSUME NEW d \in Devices, NEW b \in Boots, NEW n \in Namespaces, NewGroup(d, b, n)
      PROVE  HolderSaves'
  <2>1. /\ app'[d][b].saving = "rpc" /\ join' = join
        /\ \A e \in Devices, c \in Boots : e # d \/ c # b => app'[e][c] = app[e][c]
    <3>1. app' = [app EXCEPT ![d][b] =
                    [app[d][b] EXCEPT !.groups = Upserted(@, n), !.saving = "rpc"]]
      BY <1>2 DEF NewGroup
    <3>2. [app[d][b] EXCEPT !.groups = Upserted(@, n), !.saving = "rpc"].saving = "rpc"
      BY <1>0 DEF AppStates
    <3> QED BY <1>0, <1>2, <3>1, <3>2 DEF NewGroup
  <2> QED BY <2>1, PairingAssumption DEF HolderSaves
<1>3. ASSUME NEW d \in Devices, NEW b \in Boots, NEW ok \in BOOLEAN,
             app' = [app EXCEPT ![d][b] = Released(@, ok)],
             \/ join' = join
             \/ \E k \in Joins : /\ join[k].dev = d /\ join[k].boot = b
                                 /\ \A j \in Joins \ {k} : join'[j] = join[j]
      PROVE  HolderSaves'
  <2>1. /\ app'[d][b] = Released(app[d][b], ok)
        /\ \A e \in Devices, c \in Boots : e # d \/ c # b => app'[e][c] = app[e][c]
    BY <1>0, <1>3
  <2>2. app'[d][b].saving = None
    <3>1. app[d][b] \in AppStates
      BY <1>0
    <3>2. Released(app[d][b], ok).saving = None
      BY <3>1, SavingType
    <3> QED BY <2>1, <3>2
  <2> QED BY <1>3, <2>1, <2>2, PairingAssumption DEF HolderSaves
<1>12. ASSUME NEW d \in Devices, NEW b \in Boots, NEW n \in Namespaces,
              app' = [app EXCEPT ![d][b] = Unsaved(@, n)],
              join' = join \/ \E k \in Joins : OnlyIdler(k)
       PROVE  HolderSaves'
  <2>1. /\ app'[d][b] = Unsaved(app[d][b], n)
        /\ \A e \in Devices, c \in Boots : e # d \/ c # b => app'[e][c] = app[e][c]
    BY <1>0, <1>12
  <2>2. app'[d][b].saving = app[d][b].saving
    <3>1. app[d][b] \in AppStates
      BY <1>0
    <3>2. Unsaved(app[d][b], n).saving = app[d][b].saving
      BY <3>1, SavingType
    <3> QED BY <2>1, <3>2
  <2> QED BY <1>12, <2>1, <2>2 DEF HolderSaves, OnlyIdler
<1>13. ASSUME NEW k \in Joins, UpsertFails(k)
       PROVE  HolderSaves'
  <2>1. /\ join[k].dev \in Devices /\ join[k].boot \in Boots /\ join[k].ns \in Namespaces
        /\ app' = [app EXCEPT ![join[k].dev][join[k].boot] = Unsaved(@, join[k].ns)]
    BY <1>0, <1>13 DEF TypeOK, JoinCalls, CallShape, UpsertFails
  <2>2. OnlyIdler(k)
    BY <1>0, <1>13, IdlersStep
  <2> QED BY <1>12, <2>1, <2>2
<1>14. ASSUME NEW d \in Devices, NEW b \in Boots, NEW n \in Namespaces, NewGroupFails(d, b, n)
       PROVE  HolderSaves'
  BY <1>12, <1>14 DEF NewGroupFails
<1>4. ASSUME NEW k \in Joins, WriteGroups(k) \/ WriteGroupsFails(k)
      PROVE  HolderSaves'
  <2>1. \A j \in Joins \ {k} : join'[j] = join[j]
    BY <1>0, <1>4, CallsOf, MovesOf DEF Imports, Moves
  <2>2. join[k].dev \in Devices /\ join[k].boot \in Boots
    BY <1>0 DEF TypeOK, JoinCalls
  <2>3. PICK ok \in BOOLEAN : app' = [app EXCEPT ![join[k].dev][join[k].boot] = Released(@, ok)]
    BY <1>4 DEF WriteGroups, WriteGroupsFails
  <2> DEFINE d == join[k].dev
             b == join[k].boot
  <2>4. /\ d \in Devices /\ b \in Boots /\ app' = [app EXCEPT ![d][b] = Released(@, ok)]
        /\ join[k].dev = d /\ join[k].boot = b
    BY <2>2, <2>3
  <2> HIDE DEF d, b
  <2> QED BY <1>3, <2>1, <2>4
<1>5. ASSUME NEW k \in Joins, UpsertGroup(k)
      PROVE  HolderSaves'
  <2> DEFINE d == join[k].dev
             b == join[k].boot
  <2>1. d \in Devices /\ b \in Boots
    BY <1>0 DEF TypeOK, JoinCalls
  <2>2. join[k].phase = "imported" /\ Moves(k, "savingGroups", join[k].reached)
    BY <1>0, <1>5, MovesOf
  <2>3. /\ app'[d][b].saving = k
        /\ \A e \in Devices, c \in Boots : e # d \/ c # b => app'[e][c] = app[e][c]
    <3>1. app' = [app EXCEPT ![d][b] =
                    [app[d][b] EXCEPT !.groups = Upserted(@, join[k].ns), !.saving = k]]
      BY <1>0, <1>5, <2>1 DEF UpsertGroup, AppStates, Upserted, TypeOK
    <3>2. [app[d][b] EXCEPT !.groups = Upserted(@, join[k].ns), !.saving = k].saving = k
      BY <1>0, <2>1 DEF AppStates
    <3> QED BY <1>0, <2>1, <3>1, <3>2
  <2> QED BY <2>1, <2>2, <2>3 DEF HolderSaves, Moves
<1>6. ASSUME NEW d \in Devices, Reload(d) \/ Start(d)
      PROVE  HolderSaves'
  <2> DEFINE b == current[d] + 1
  <2>1. b \in Boots
    BY <1>0, <1>6, PairingAssumption DEF TypeOK, Reload, Start, Boots
  <2>2. /\ app'[d][b] = FromDisk(d) /\ join' = join
        /\ \A e \in Devices, c \in Boots : e # d \/ c # b => app'[e][c] = app[e][c]
    BY <1>0, <1>6, <2>1 DEF Reload, Start
  <2>3. FromDisk(d).saving = None
    BY DEF FromDisk, Booted
  <2> QED BY <2>2, <2>3, PairingAssumption DEF HolderSaves
<1>7. ASSUME NEW d \in Devices, Crash(d)
      PROVE  HolderSaves'
  <2>1. /\ \A e \in Devices, c \in Boots : e # d => app'[e][c] = app[e][c]
        /\ \A c \in Boots : app'[d][c] = Killed(app[d][c])
    BY <1>0, <1>7 DEF Crash
  <2>2. \A c \in Boots : app'[d][c].saving = None
    <3> TAKE c \in Boots
    <3>1. /\ app[d][c] \in AppStates
          /\ app'[d][c] = [app[d][c] EXCEPT !.live = FALSE, !.open = FALSE, !.saving = None]
      BY <1>0, <2>1 DEF Killed
    <3> QED BY <3>1 DEF AppStates
  <2>3. \A j \in Joins : join[j].dev # d => join'[j] = join[j]
    BY <1>7 DEF Crash
  <2> QED BY <2>1, <2>2, <2>3, PairingAssumption DEF HolderSaves
<1>8. ASSUME NEW k \in Joins,
             \/ LoseConnection(k) \/ SaveIdentity(k) \/ RejectResponse(k) \/ WriteIdentity(k)
             \/ ReplaceCert(k) \/ WriteDevice(k) \/ ImportFails(k) \/ Finish(k)
             \/ SaveFails(k) \/ Answers(k) \/ \E b \in Boots : HandleRequest(k, b)
             \/ \E n \in Namespaces : ImportDoc(k, n)
             \/ \E d \in Devices, b \in Boots, t \in Tokens : Dial(k, d, b, t)
      PROVE  HolderSaves'
  <2>1. OnlyIdler(k)
    BY <1>0, <1>8, IdlersStep
  <2>2. app' = app \/ \E b \in Boots : HandleRequest(k, b)
    BY <1>8
    DEF LoseConnection, SaveIdentity, RejectResponse, WriteIdentity, ReplaceCert, WriteDevice,
        ImportFails, Finish, SaveFails, SaveIdentityFails, SaveDeviceFails, Answers, GatherTickets,
        Respond, ImportDoc, Dial
  <2> QED BY <1>0, <1>1, <2>1, <2>2, AppsSameWhen
<1>9. ASSUME NEW d \in Devices,
             \/ ReloadFails(d) \/ CloseOldNode(d)
             \/ \E b \in Boots, t \in Tokens : CreateCode(d, b, t)
      PROVE  HolderSaves'
  <2>1. AppsSame
    BY <1>0, <1>9, AppsSameWhen DEF ReloadFails
  <2>2. join' = join
    BY <1>9 DEF ReloadFails, CloseOldNode, CreateCode
  <2> QED BY <1>1, <2>1, <2>2
<1>10. ASSUME NEW d \in Devices, NEW b \in Boots, FinishNewGroup(d, b) \/ FinishNewGroupFails(d, b)
       PROVE  HolderSaves'
  BY <1>3, <1>10 DEF FinishNewGroup, FinishNewGroupFails
<1>11. CASE Tick \/ UNCHANGED vars
  BY <1>11 DEF Tick, vars, HolderSaves
<1> QED
  BY <1>2, <1>4, <1>5, <1>6, <1>7, <1>8, <1>9, <1>10, <1>11, <1>13, <1>14
  DEF Next, HostStep, JoinStep, ProcessStep, SaveFails, Answers

\* No lock of an index is left behind: whoever holds one is in a process that runs, and
\* is a group call or a join that writes this index next, without waiting for anybody
\* (the groups.write() guards of dispatch.rs, dropped after each save).
NoLockIsLeft ==
  \A d \in Devices, b \in Boots :
    LET holder == app[d][b].saving IN
    holder # None =>
      /\ app[d][b].live
      /\ \/ holder = "rpc"
         \/ /\ holder \in Joins
            /\ join[holder].phase = "savingGroups"
            /\ join[holder].dev = d /\ join[holder].boot = b

THEOREM LocksAreHeldByTheLiving == Spec => []NoLockIsLeft
<1>1. Init => TokenInv /\ IndexInv /\ HolderSaves
  <2>1. ASSUME Init
        PROVE  HolderSaves
    <3>1. \A d \in Devices, b \in Boots : app[d][b].saving = None
      <4>1. \A d \in Devices : Booted(d, Home[d]).saving = None /\ NotBooted(d).saving = None
        BY DEF Booted, NotBooted
      <4> QED BY <2>1, <4>1 DEF Init
    <3> QED BY <3>1, PairingAssumption DEF HolderSaves
  <2> QED BY <2>1, TokenInit, IndexInit
<1>2. /\ TokenInv /\ IndexInv /\ HolderSaves /\ [Next]_vars
      => (TokenInv /\ IndexInv /\ HolderSaves)'
  BY TokenNext, IndexNext, HolderNext
<1>3. TokenInv /\ IndexInv /\ HolderSaves => NoLockIsLeft
  <2> SUFFICES ASSUME TokenInv, IndexInv, HolderSaves, NEW d \in Devices, NEW b \in Boots,
                      app[d][b].saving # None
               PROVE  /\ app[d][b].live
                      /\ app[d][b].saving = "rpc" \/ app[d][b].saving \in Joins
    BY DEF NoLockIsLeft, HolderSaves
  <2>1. app[d][b].saving \in Joins \cup {None, "rpc"}
    BY DEF TokenInv, TypeOK, AppStates
  <2> QED BY <2>1 DEF IndexInv, LiveIsBooted
<1> QED BY <1>1, <1>2, <1>3, PTL DEF Spec

\* How far a call has got, and what it has still to import.
Stage(p) ==
  CASE p = "idle"           -> 0
    [] p = "dialled"        -> 1
    [] p = "served"         -> 2
    [] p = "gathering"      -> 3
    [] p = "answered"       -> 4
    [] p = "savingIdentity" -> 5
    [] p = "savedIdentity"  -> 6
    [] p = "savingDevice"   -> 7
    [] p = "savedDevice"    -> 8
    [] p = "imported"       -> 9
    [] p = "savingGroups"   -> 10
    [] p \in {"done", "failed"} -> 11

\* The call gets to a later stage with the same tickets to import, which it has been
\* sent once and for all when answered; or it has imported one of them.
Nearer(j) ==
  \/ /\ Stage(join[j].phase) < Stage(join'[j].phase)
     /\ join'[j].todo = join[j].todo \/ join[j].phase \in {"served", "gathering"}
  \/ /\ join[j].phase = "savingGroups" /\ join'[j].phase = "savedDevice"
     /\ join[j].ns \in join[j].todo /\ join'[j].todo = join[j].todo \ {join[j].ns}

\* A call has no tickets to import before it is answered, and one that imports a group
\* has its ticket among those it has still to import.
ImportsFromTodo ==
  \A j \in Joins :
    /\ join[j].phase \in {"idle", "dialled", "served"} => join[j].todo = {}
    /\ join[j].phase \in {"imported", "savingGroups"} => join[j].ns \in join[j].todo

\* Each step moves each call forward, if it concerns it at all.
LEMMA CallsNearer ==
  ASSUME TypeOK, ImportsFromTodo, [Next]_vars, NEW j \in Joins, join'[j] # join[j]
  PROVE  Nearer(j)
<1>0. join[j] \in JoinCalls /\ join[j].phase \in Phases
  BY DEF TypeOK, JoinCalls
<1>1. ASSUME NEW p, NEW r, Moves(j, p, r), Stage(join[j].phase) < Stage(p)
      PROVE  Nearer(j)
  BY <1>1 DEF Moves, Nearer
<1>2. ASSUME NEW k \in Joins,
             \/ LoseConnection(k) \/ SaveIdentity(k) \/ RejectResponse(k) \/ WriteIdentity(k)
             \/ ReplaceCert(k) \/ WriteDevice(k) \/ ImportFails(k) \/ Finish(k) \/ UpsertGroup(k)
             \/ SaveFails(k) \/ IndexFails(k)
      PROVE  Nearer(j)
  <2>1. PICK p \in Phases, r \in Phases :
          Moves(k, p, r) /\ Stage(join[k].phase) < Stage(p)
    <3>1. join[k].phase \in Phases /\ join[k].reached \in Phases
      BY DEF TypeOK, JoinCalls
    <3>2. Stage("failed") = 11 /\ \A p \in Phases \ {"done", "failed"} : Stage(p) < 11
      BY DEF Phases, Stage
    <3>3. CASE /\ join[k].phase \in Phases \ {"done", "failed"}
               /\ Moves(k, "failed", join[k].phase)
      <4>1. "failed" \in Phases
        BY DEF Phases
      <4> QED BY <3>1, <3>2, <3>3, <4>1
    <3>4. /\ Stage("imported") < Stage("savingGroups")
          /\ Stage("savedDevice") < Stage("done")
          /\ Stage("answered") < Stage("savingIdentity")
          /\ Stage("savingIdentity") < Stage("savedIdentity")
          /\ Stage("savedIdentity") < Stage("savingDevice")
          /\ Stage("savingDevice") < Stage("savedDevice")
          /\ {"savingGroups", "done", "savingIdentity", "savedIdentity", "savingDevice",
              "savedDevice"} \subseteq Phases
      BY DEF Phases, Stage
    <3>5. {"dialled", "served", "gathering", "answered", "savingIdentity", "savedIdentity",
           "savingDevice", "savedDevice", "imported", "savingGroups"}
            \subseteq Phases \ {"done", "failed"}
      BY DEF Phases
    <3> HIDE DEF Phases
    <3>6. CASE SaveFails(k) \/ IndexFails(k)
      BY <3>1, <3>3, <3>5, <3>6, MovesOf DEF SaveFails, IndexFails
    <3> QED BY <1>2, <3>1, <3>3, <3>4, <3>5, <3>6, MovesOf DEF OnTheWire
  <2>2. k = j
    BY <2>1 DEF Moves
  <2> QED BY <1>1, <2>1, <2>2
<1>3. ASSUME NEW k \in Joins, NEW b \in Boots, HandleRequest(k, b)
      PROVE  Nearer(j)
  <2>1. \/ IsServed(k, b)
        \/ join[k].phase = "dialled" /\ Moves(k, "failed", "dialled")
    BY <1>3, CallsOf
  <2>2. k = j
    BY <2>1 DEF IsServed, Moves
  <2> QED BY <2>1, <2>2 DEF IsServed, Moves, Nearer, Stage
<1>4. ASSUME NEW k \in Joins, Answers(k)
      PROVE  Nearer(j)
  <2>1. IsAnswered(k)
    BY <1>4, CallsOf
  <2>2. k = j
    BY <2>1 DEF IsAnswered
  <2> QED BY <2>1, <2>2 DEF IsAnswered, Nearer, Stage
<1>5. ASSUME NEW k \in Joins, NEW n \in Namespaces, ImportDoc(k, n)
      PROVE  Nearer(j)
  <2>1. join[k].phase = "savedDevice" /\ Imports(k, "imported", n, join[k].todo)
    BY <1>5, CallsOf
  <2>2. k = j
    BY <2>1 DEF Imports
  <2> QED BY <2>1, <2>2 DEF Imports, Nearer, Stage
<1>6. ASSUME NEW k \in Joins, WriteGroups(k)
      PROVE  Nearer(j)
  <2>1. /\ join[k].phase = "savingGroups"
        /\ Imports(k, "savedDevice", None, join[k].todo \ {join[k].ns})
    BY <1>6, CallsOf
  <2>2. k = j
    BY <2>1 DEF Imports
  <2> QED BY <2>1, <2>2 DEF Imports, Nearer, ImportsFromTodo
<1>7. ASSUME NEW k \in Joins, NEW d \in Devices, NEW b \in Boots, NEW t \in Tokens,
             Dial(k, d, b, t)
      PROVE  Nearer(j)
  <2>1. Begins(k, d, b, t)
    BY <1>7, CallsOf
  <2>2. k = j
    BY <2>1 DEF Begins
  <2>3. join[j].todo = {}
    BY <2>1, <2>2 DEF Begins, ImportsFromTodo
  <2> QED BY <2>1, <2>2, <2>3 DEF Begins, Nearer, Stage
<1>8. ASSUME NEW d \in Devices, Crash(d)
      PROVE  Nearer(j)
  <2>1. InFlight(j) /\ join'[j] = Failed(j)
    BY <1>8 DEF Crash
  <2>2. join'[j].phase = "failed" /\ join'[j].todo = join[j].todo
    BY <1>0, <2>1 DEF Failed, JoinCalls
  <2> QED BY <1>0, <2>1, <2>2 DEF InFlight, Nearer, Stage, Phases
<1>9. ~NoCall
  BY NoCallMoves
<1> QED
  BY <1>2, <1>3, <1>4, <1>5, <1>6, <1>7, <1>8, <1>9
  DEF NoCall, GroupsNewStep, Answers, SaveFails, IndexFails, Next, HostStep, JoinStep, ProcessStep

\* Every step keeps this.
LEMMA TodoNext ==
  ASSUME TypeOK, FreshCalls, ImportsFromTodo, [Next]_vars
  PROVE  ImportsFromTodo'
<1> SUFFICES ASSUME NEW j \in Joins
             PROVE  /\ join'[j].phase \in {"idle", "dialled", "served"} => join'[j].todo = {}
                    /\ join'[j].phase \in {"imported", "savingGroups"} =>
                         join'[j].ns \in join'[j].todo
  BY DEF ImportsFromTodo
<1>1. CallStep(j)
  BY CallsEach
<1>2. CASE MovesOn(j)
  BY <1>2 DEF MovesOn, Keeps, ImportsFromTodo
<1>3. CASE IsAnswered(j) \/ \E b \in Boots : IsServed(j, b)
  BY <1>3 DEF IsAnswered, IsServed, ImportsFromTodo
<1>4. CASE \E n \in Namespaces : ImportDoc(j, n) /\ Imports(j, "imported", n, join[j].todo)
  BY <1>4 DEF ImportDoc, Imports
<1>5. CASE Imports(j, "savedDevice", None, join[j].todo \ {join[j].ns})
  BY <1>5 DEF Imports
<1>6. CASE \E d \in Devices, b \in Boots, t \in Tokens : Begins(j, d, b, t)
  BY <1>6 DEF Begins
<1> QED BY <1>1, <1>2, <1>3, <1>4, <1>5, <1>6 DEF CallStep

\* A devices_pair_join never goes back and imports no group twice, whatever its host,
\* its process and other calls do meanwhile: each step that concerns it takes it to a
\* later stage, or imports one of the groups it was sent and returns for the next.
\* Since a response holds finitely many tickets, no join goes on for ever.
THEOREM JoinsGoForward ==
  Spec => [][\A j \in Joins : join'[j] # join[j] => Nearer(j)]_vars
<1> DEFINE IInv == TokenInv /\ CertInv /\ ImportsFromTodo
<1>1. Init => IInv
  <2>1. ASSUME Init
        PROVE  ImportsFromTodo
    BY <2>1 DEF Init, NotCalled, ImportsFromTodo
  <2> QED BY <2>1, TokenInit, CertInit
<1>2. IInv /\ [Next]_vars => IInv'
  BY TokenNext, CertNext, TodoNext DEF TokenInv, CertInv
<1>3. IInv /\ [Next]_vars => [\A j \in Joins : join'[j] # join[j] => Nearer(j)]_vars
  BY CallsNearer DEF TokenInv
<1> QED BY <1>1, <1>2, <1>3, PTL DEF Spec
=============================================================================
