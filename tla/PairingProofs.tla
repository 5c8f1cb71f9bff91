--------------------------- MODULE PairingProofs ---------------------------
(***************************************************************************)
(* Proofs about Pairing: type correctness, that a pairing token is         *)
(* honoured at most once, in time and by the AppState that minted it, and  *)
(* that Pairing implements PairCodes.                                      *)
(***************************************************************************)
EXTENDS Pairing, TLAPS

\* A call that has begun dials a code that was minted.
DialledCodes ==
  \A j \in Joins : join[j].phase # "idle" => codes[join[j].token] # None

\* A token is pending only in the AppState that minted it.
PendingIsMinted ==
  \A d \in Devices, b \in Boots : \A t \in app[d][b].pending :
    codes[t] # None /\ codes[t].host = d /\ codes[t].boot = b

\* A call that was given an identity has begun, and its token is pending nowhere.
HonouredIsSpent ==
  \A j \in Joins : Honoured(j) =>
    /\ join[j].phase \notin {"idle", "dialled"}
    /\ \A d \in Devices, b \in Boots : join[j].token \notin app[d][b].pending

\* A call carries an identity from the moment it is served, and a namespace
\* while it enters one in the index.
CallShape ==
  \A j \in Joins :
    /\ join[j].phase \notin {"idle", "dialled", "failed"} => join[j].issuer # None
    /\ join[j].phase \in {"imported", "savingGroups"} => join[j].ns # None

\* The inductive invariant.
TokenInv ==
  /\ TypeOK
  /\ DialledCodes
  /\ CallShape
  /\ PendingIsMinted
  /\ HonouredIsSpent
  /\ HonouredInTime
  /\ TokenHonouredOnce

-----------------------------------------------------------------------------
(* The records the actions build have their types.                         *)

\* A freshly booted AppState is an AppState.
LEMMA BootedType ==
  ASSUME NEW id \in Devices, NEW gs \in SUBSET Namespaces
  PROVE  Booted(id, gs) \in AppStates
BY DEF Booted, AppStates

\* So is the placeholder of a boot that has not happened.
LEMMA NotBootedType ==
  ASSUME NEW d \in Devices
  PROVE  NotBooted(d) \in AppStates
BY DEF NotBooted, Booted, AppStates

\* Stopping the process leaves an AppState, with the pending tokens it had.
LEMMA KilledType ==
  ASSUME NEW s \in AppStates
  PROVE  Killed(s) \in AppStates /\ Killed(s).pending = s.pending /\ Killed(s).open = FALSE
BY DEF Killed, AppStates

\* Entering a group whose save fails, and releasing the lock, change an AppState only in
\* its index and what its save came to.
LEMMA SavingType ==
  ASSUME NEW s \in AppStates
  PROVE  /\ \A n \in Namespaces :
              /\ Unsaved(s, n) \in AppStates
              /\ Unsaved(s, n).live = s.live /\ Unsaved(s, n).open = s.open
              /\ Unsaved(s, n).pending = s.pending /\ Unsaved(s, n).identity = s.identity
              /\ Unsaved(s, n).groups = Upserted(s.groups, n)
              /\ Unsaved(s, n).saving = s.saving /\ Unsaved(s, n).saved = FALSE
         /\ \A ok \in BOOLEAN :
              /\ Released(s, ok) \in AppStates
              /\ Released(s, ok).live = s.live /\ Released(s, ok).open = s.open
              /\ Released(s, ok).pending = s.pending /\ Released(s, ok).identity = s.identity
              /\ Released(s, ok).groups = s.groups
              /\ Released(s, ok).saving = None /\ Released(s, ok).saved = ok
<1>1. ASSUME NEW n \in Namespaces
      PROVE  /\ Unsaved(s, n) \in AppStates
             /\ Unsaved(s, n).live = s.live /\ Unsaved(s, n).open = s.open
             /\ Unsaved(s, n).pending = s.pending /\ Unsaved(s, n).identity = s.identity
             /\ Unsaved(s, n).groups = Upserted(s.groups, n)
             /\ Unsaved(s, n).saving = s.saving /\ Unsaved(s, n).saved = FALSE
  BY DEF Unsaved, Upserted, AppStates
<1>2. ASSUME NEW ok \in BOOLEAN
      PROVE  /\ Released(s, ok) \in AppStates
             /\ Released(s, ok).live = s.live /\ Released(s, ok).open = s.open
             /\ Released(s, ok).pending = s.pending /\ Released(s, ok).identity = s.identity
             /\ Released(s, ok).groups = s.groups
             /\ Released(s, ok).saving = None /\ Released(s, ok).saved = ok
  BY DEF Released, Unlock, AppStates
<1> QED BY <1>1, <1>2

\* A call not made is a join record, neither dialled nor honoured.
LEMMA NotCalledType ==
  /\ NotCalled \in JoinCalls
  /\ NotCalled.phase = "idle"
  /\ NotCalled.issuer = None
<1>1. (CHOOSE d \in Devices : TRUE) \in Devices
  BY PairingAssumption
<1>2. (CHOOSE t \in Tokens : TRUE) \in Tokens
  BY PairingAssumption
<1>3. 1 \in Boots /\ 0 \in Times
  BY PairingAssumption DEF Boots, Times
<1> QED  BY <1>1, <1>2, <1>3 DEF NotCalled, JoinCalls, Phases

\* A call that fails keeps its token and whatever it was given.
LEMMA FailedType ==
  ASSUME NEW j \in Joins, join[j] \in JoinCalls
  PROVE  /\ Failed(j) \in JoinCalls
         /\ Failed(j).phase = "failed"
         /\ Failed(j).token = join[j].token
         /\ Failed(j).issuer = join[j].issuer
         /\ Failed(j).servedBy = join[j].servedBy
         /\ Failed(j).servedAt = join[j].servedAt
BY DEF Failed, JoinCalls, Phases

\* The bounds of the model are natural numbers.
LEMMA Bounds ==
  /\ Times \subseteq Nat /\ Boots \subseteq Nat
  /\ 0 \in Times /\ 1 \in Boots
BY PairingAssumption DEF Times, Boots

-----------------------------------------------------------------------------
(* Type correctness.                                                       *)

\* The initial state is well typed.
LEMMA TypeInit == Init => TypeOK
<1> SUFFICES ASSUME Init PROVE TypeOK
  OBVIOUS
<1>1. app \in [Devices -> [Boots -> AppStates]]
  <2>1. \A d \in Devices : Home[d] \in SUBSET Namespaces
    BY PairingAssumption
  <2>2. \A d \in Devices : Booted(d, Home[d]) \in AppStates /\ NotBooted(d) \in AppStates
    BY <2>1, BootedType, NotBootedType
  <2> QED  BY <2>2 DEF Init
<1>2. join \in [Joins -> JoinCalls]
  BY NotCalledType DEF Init
<1>3. groupsFile \in [Devices -> {Torn} \cup SUBSET Namespaces] /\ docs \in [Devices -> SUBSET Namespaces]
  BY PairingAssumption DEF Init
<1> QED  BY <1>1, <1>2, <1>3, Bounds, PairingAssumption DEF Init, TypeOK, Codes

\* What a write leaves in a file is the new content or an unreadable file.
LEMMA WrittenType ==
  ASSUME NEW old, NEW new, NEW content \in Written(old, new)
  PROVE  content \in {new, Torn}
BY DEF Written

\* A step of the host keeps the types.
LEMMA TypeHost ==
  ASSUME TypeOK, DialledCodes, HostStep
  PROVE  TypeOK'
<1>0. /\ app \in [Devices -> [Boots -> AppStates]]
      /\ join \in [Joins -> JoinCalls]
      /\ groupsFile \in [Devices -> {Torn} \cup SUBSET Namespaces]
      /\ docs \in [Devices -> SUBSET Namespaces]
      /\ codes \in [Tokens -> Codes \cup {None}]
  BY DEF TypeOK
<1>a. ASSUME NEW d \in Devices, NEW b \in Boots
      PROVE  /\ app[d][b] \in AppStates
             /\ app[d][b].groups \in SUBSET Namespaces
             /\ app[d][b].pending \in SUBSET Tokens
             /\ app[d][b].identity \in Devices
  <2>1. app[d][b] \in AppStates
    BY <1>0
  <2> QED  BY <2>1 DEF AppStates
<1>1. ASSUME NEW d \in Devices, NEW b \in Boots, NEW t \in Tokens, CreateCode(d, b, t)
      PROVE  TypeOK'
  <2>1. Minted(app[d][b].pending, t) \in SUBSET Tokens
    BY <1>a DEF Minted
  <2>2. [app[d][b] EXCEPT !.pending = Minted(@, t)] \in AppStates
    BY <1>a, <2>1 DEF AppStates
  <2>3. app' \in [Devices -> [Boots -> AppStates]]
    BY <1>0, <1>1, <2>2 DEF CreateCode
  <2>4. [host |-> d, boot |-> b, at |-> now] \in Codes
    BY DEF TypeOK, Codes
  <2> QED  BY <1>1, <2>3, <2>4 DEF CreateCode, TypeOK, disk
<1>2. ASSUME NEW d \in Devices, NEW b \in Boots, NEW n \in Namespaces, NewGroup(d, b, n)
      PROVE  TypeOK'
  <2>0. app[d][b] \in AppStates
    BY <1>a
  <2>1. [app[d][b] EXCEPT !.groups = Upserted(@, n), !.saving = "rpc"] \in AppStates
    BY <2>0 DEF AppStates, Upserted
  <2>2. app' \in [Devices -> [Boots -> AppStates]]
    BY <1>0, <1>2, <2>1 DEF NewGroup
  <2> QED  BY <1>2, <2>2 DEF NewGroup, TypeOK
<1>3. ASSUME NEW d \in Devices, NEW b \in Boots, FinishNewGroup(d, b)
      PROVE  TypeOK'
  <2>1. Released(app[d][b], TRUE) \in AppStates
    BY <1>a, SavingType
  <2>2. app' \in [Devices -> [Boots -> AppStates]]
    BY <1>0, <1>3, <2>1 DEF FinishNewGroup
  <2>3. groupsFile' \in [Devices -> {Torn} \cup SUBSET Namespaces]
    BY <1>0, <1>a, <1>3, WrittenType DEF FinishNewGroup, Serialised
  <2> QED  BY <1>3, <2>2, <2>3 DEF FinishNewGroup, TypeOK
<1>6. ASSUME NEW d \in Devices, NEW b \in Boots, NEW n \in Namespaces, NewGroupFails(d, b, n)
      PROVE  TypeOK'
  <2>1. Unsaved(app[d][b], n) \in AppStates
    BY <1>a, SavingType
  <2>2. app' \in [Devices -> [Boots -> AppStates]]
    BY <1>0, <1>6, <2>1 DEF NewGroupFails
  <2> QED  BY <1>6, <2>2 DEF NewGroupFails, TypeOK
<1>7. ASSUME NEW d \in Devices, NEW b \in Boots, FinishNewGroupFails(d, b)
      PROVE  TypeOK'
  <2>1. Released(app[d][b], FALSE) \in AppStates
    BY <1>a, SavingType
  <2>2. app' \in [Devices -> [Boots -> AppStates]]
    BY <1>0, <1>7, <2>1 DEF FinishNewGroupFails
  <2>3. groupsFile' \in [Devices -> {Torn} \cup SUBSET Namespaces]
    BY <1>0, <1>7 DEF FinishNewGroupFails, CutOff
  <2> QED  BY <1>7, <2>2, <2>3 DEF FinishNewGroupFails, TypeOK
<1>4. ASSUME NEW j \in Joins, GatherTickets(j)
      PROVE  TypeOK'
  <2>1. join[j] \in JoinCalls /\ join[j].token \in Tokens
    BY <1>0 DEF JoinCalls
  <2>2. Host(j) \in Devices
    BY <1>0, <1>4, <2>1 DEF GatherTickets, DialledCodes, Host, Codes
  <2>3. Listed(Host(j)) \in SUBSET Namespaces
    BY <1>0, <2>2 DEF Listed
  <2>4. [join[j] EXCEPT !.phase = "gathering", !.tickets = Listed(Host(j)),
                        !.todo = Listed(Host(j))] \in JoinCalls
    BY <2>1, <2>3 DEF JoinCalls, Phases
  <2>5. join' \in [Joins -> JoinCalls]
    BY <1>0, <1>4, <2>4 DEF GatherTickets
  <2> QED  BY <1>4, <2>5 DEF GatherTickets, TypeOK, disk
<1>8. ASSUME NEW j \in Joins, Respond(j)
      PROVE  TypeOK'
  <2>1. PICK sent \in SUBSET (join[j].tickets \cap docs[Host(j)]) :
          join' = [join EXCEPT ![j] = [join[j] EXCEPT !.phase = "answered",
                                                      !.tickets = sent, !.todo = sent]]
    BY <1>0, <1>8 DEF Respond
  <2>2. join[j] \in JoinCalls /\ join[j].tickets \in SUBSET Namespaces
    BY <1>0 DEF JoinCalls
  <2>3. [join[j] EXCEPT !.phase = "answered", !.tickets = sent, !.todo = sent] \in JoinCalls
    BY <2>2 DEF JoinCalls, Phases
  <2>4. join' \in [Joins -> JoinCalls]
    BY <1>0, <2>1, <2>3
  <2> QED  BY <1>8, <2>4 DEF Respond, TypeOK, disk
<1>5. ASSUME NEW j \in Joins, NEW b \in Boots, HandleRequest(j, b)
      PROVE  TypeOK'
  <2>1. join[j] \in JoinCalls /\ join[j].token \in Tokens
    BY <1>0 DEF JoinCalls
  <2>2. Host(j) \in Devices
    BY <1>0, <1>5, <2>1 DEF HandleRequest, DialledCodes, Host, Codes
  <2> DEFINE s == app[Host(j)][b]
  <2>3. s \in AppStates /\ s.identity \in Devices
    BY <1>a, <2>2
  <2>4. [s EXCEPT !.pending = Consumed(@, join[j].token)] \in AppStates
    BY <2>3 DEF AppStates, Consumed
  <2>5. app' \in [Devices -> [Boots -> AppStates]]
    BY <1>0, <1>5, <2>2, <2>4 DEF HandleRequest
  <2>6. now \in Times
    BY DEF TypeOK
  <2>7. [join[j] EXCEPT !.phase = "served", !.servedBy = b, !.servedAt = now,
                        !.issuer = s.identity] \in JoinCalls
    BY <2>1, <2>3, <2>6 DEF JoinCalls, Phases
  <2>8. Failed(j) \in JoinCalls
    BY <2>1, FailedType
  <2>9. join' \in [Joins -> JoinCalls]
    <3>1. CASE join[j].token \in s.pending /\ Fresh(join[j].token)
      BY <1>0, <1>5, <2>7, <3>1 DEF HandleRequest
    <3>2. CASE ~(join[j].token \in s.pending /\ Fresh(join[j].token))
      BY <1>0, <1>5, <2>8, <3>2 DEF HandleRequest, Fail
    <3> QED  BY <3>1, <3>2
  <2> QED  BY <1>5, <2>5, <2>9 DEF HandleRequest, TypeOK, disk
<1> QED  BY <1>1, <1>2, <1>3, <1>4, <1>5, <1>6, <1>7, <1>8 DEF HostStep

\* A step of the joiner keeps the types.
LEMMA TypeJoin ==
  ASSUME TypeOK, CallShape, NEW j \in Joins, JoinStep(j)
  PROVE  TypeOK'
<1> DEFINE d == join[j].dev
           b == join[j].boot
<1>0. /\ app \in [Devices -> [Boots -> AppStates]]
      /\ join \in [Joins -> JoinCalls]
      /\ idFile \in [Devices -> Devices \cup {Torn}]
      /\ certFile \in [Devices -> Devices \cup {Torn}]
      /\ groupsFile \in [Devices -> {Torn} \cup SUBSET Namespaces]
      /\ docs \in [Devices -> SUBSET Namespaces]
  BY DEF TypeOK
<1>a. join[j] \in JoinCalls
  BY <1>0
<1>b. /\ d \in Devices /\ b \in Boots
      /\ join[j].issuer \in Devices \cup {None}
      /\ join[j].ns \in Namespaces \cup {None}
      /\ join[j].todo \in SUBSET Namespaces
  BY <1>a DEF JoinCalls
<1>c. app[d][b] \in AppStates /\ app[d][b].groups \in SUBSET Namespaces
  <2>1. app[d][b] \in AppStates
    BY <1>0, <1>b
  <2> QED  BY <2>1 DEF AppStates
<1>d. \A phase \in Phases : Goto(j, phase) => join' \in [Joins -> JoinCalls]
  <2>1. \A phase \in Phases : [join[j] EXCEPT !.phase = phase] \in JoinCalls
    BY <1>a DEF JoinCalls
  <2> QED  BY <1>0, <2>1 DEF Goto
<1>e. Fail(j) => join' \in [Joins -> JoinCalls]
  BY <1>0, <1>a, FailedType DEF Fail
<1>1. CASE SaveIdentity(j)
  <2>1. join' \in [Joins -> JoinCalls]
    BY <1>1, <1>d DEF SaveIdentity, Phases
  <2> QED  BY <1>1, <1>b, <2>1 DEF SaveIdentity, TypeOK
<1>2. CASE RejectResponse(j)
  BY <1>2, <1>e DEF RejectResponse, TypeOK, disk
<1>3. CASE WriteIdentity(j)
  <2>1. join' \in [Joins -> JoinCalls]
    BY <1>3, <1>d DEF WriteIdentity, Phases
  <2>2. join[j].issuer \in Devices
    BY <1>3, <1>b DEF WriteIdentity, CallShape
  <2>3. idFile' \in [Devices -> Devices \cup {Torn}]
    BY <1>0, <1>3, <1>b, <2>2, WrittenType DEF WriteIdentity
  <2> QED  BY <1>3, <2>1, <2>3 DEF WriteIdentity, TypeOK
<1>4. CASE ReplaceCert(j)
  <2>1. join' \in [Joins -> JoinCalls]
    BY <1>4, <1>d, <1>e DEF ReplaceCert, Phases
  <2>2. certFile' \in [Devices -> Devices \cup {Torn}]
    BY <1>0, <1>4, <1>b DEF ReplaceCert
  <2> QED  BY <1>4, <2>1, <2>2 DEF ReplaceCert, TypeOK
<1>5. CASE WriteDevice(j)
  <2>1. join' \in [Joins -> JoinCalls]
    BY <1>5, <1>d DEF WriteDevice, Phases
  <2>2. join[j].issuer \in Devices
    BY <1>5, <1>b DEF WriteDevice, CallShape
  <2>3. certFile' \in [Devices -> Devices \cup {Torn}]
    BY <1>0, <1>5, <1>b, <2>2, WrittenType DEF WriteDevice, NewCert
  <2> QED  BY <1>5, <2>1, <2>3 DEF WriteDevice, TypeOK
<1>6. ASSUME NEW n \in Namespaces, ImportDoc(j, n)
      PROVE  TypeOK'
  <2>1. [join[j] EXCEPT !.phase = "imported", !.ns = n] \in JoinCalls
    BY <1>a DEF JoinCalls, Phases
  <2>2. join' \in [Joins -> JoinCalls]
    BY <1>0, <1>6, <2>1 DEF ImportDoc
  <2> QED  BY <1>6, <1>b, <2>2 DEF ImportDoc, TypeOK
<1>7. CASE ImportFails(j)
  BY <1>7, <1>e DEF ImportFails, TypeOK, disk
<1>8. CASE UpsertGroup(j)
  <2>1. join' \in [Joins -> JoinCalls]
    BY <1>8, <1>d DEF UpsertGroup, Phases
  <2>2. join[j].ns \in Namespaces
    BY <1>8, <1>b DEF UpsertGroup, CallShape
  <2>3. [app[d][b] EXCEPT !.groups = Upserted(@, join[j].ns), !.saving = j] \in AppStates
    BY <1>c, <2>2 DEF AppStates, Upserted
  <2>4. app' \in [Devices -> [Boots -> AppStates]]
    <3>1. app' = [app EXCEPT ![d][b] = [app[d][b] EXCEPT !.groups = Upserted(@, join[j].ns),
                                                        !.saving = j]]
      BY <1>0, <1>b, <1>c, <1>8 DEF UpsertGroup, AppStates, Upserted
    <3> QED  BY <1>0, <1>b, <2>3, <3>1
  <2> QED  BY <1>8, <1>b, <2>1, <2>4 DEF UpsertGroup, TypeOK
<1>9. CASE WriteGroups(j)
  <2>1. [join[j] EXCEPT !.phase = "savedDevice", !.ns = None,
                        !.todo = @ \ {join[j].ns}] \in JoinCalls
    BY <1>a DEF JoinCalls, Phases
  <2>2. join' \in [Joins -> JoinCalls]
    BY <1>0, <1>9, <2>1 DEF WriteGroups
  <2>3. Released(app[d][b], TRUE) \in AppStates
    BY <1>c, SavingType
  <2>4. app' \in [Devices -> [Boots -> AppStates]]
    BY <1>0, <1>b, <1>9, <2>3 DEF WriteGroups
  <2>5. groupsFile' \in [Devices -> {Torn} \cup SUBSET Namespaces]
    BY <1>0, <1>b, <1>c, <1>9, WrittenType DEF WriteGroups, Serialised
  <2> QED  BY <1>9, <2>2, <2>4, <2>5 DEF WriteGroups, TypeOK
<1>10. CASE Finish(j)
  <2>1. join' \in [Joins -> JoinCalls]
    BY <1>10, <1>d DEF Finish, Phases
  <2> QED  BY <1>10, <1>b, <2>1 DEF Finish, TypeOK, disk
<1>11. CASE SaveIdentityFails(j)
  <2>1. join' \in [Joins -> JoinCalls]
    BY <1>11, <1>e DEF SaveIdentityFails
  <2>2. join[j].issuer \in Devices
    BY <1>11, <1>b DEF SaveIdentityFails, CallShape
  <2>3. idFile' \in [Devices -> Devices \cup {Torn}]
    BY <1>0, <1>11, <1>b, <2>2 DEF SaveIdentityFails, CutOff
  <2> QED  BY <1>11, <2>1, <2>3 DEF SaveIdentityFails, TypeOK
<1>12. CASE SaveDeviceFails(j)
  <2>1. join' \in [Joins -> JoinCalls]
    BY <1>12, <1>e DEF SaveDeviceFails
  <2>2. join[j].issuer \in Devices
    BY <1>12, <1>b DEF SaveDeviceFails, CallShape
  <2>3. certFile' \in [Devices -> Devices \cup {Torn}]
    BY <1>0, <1>12, <1>b, <2>2 DEF SaveDeviceFails, CutOff, NewCert
  <2> QED  BY <1>12, <2>1, <2>3 DEF SaveDeviceFails, TypeOK
<1>13. CASE UpsertFails(j)
  <2>1. join' \in [Joins -> JoinCalls]
    BY <1>13, <1>e DEF UpsertFails
  <2>2. join[j].ns \in Namespaces
    BY <1>13, <1>b DEF UpsertFails, CallShape
  <2>3. Unsaved(app[d][b], join[j].ns) \in AppStates
    BY <1>c, <2>2, SavingType
  <2>4. app' \in [Devices -> [Boots -> AppStates]]
    BY <1>0, <1>b, <1>13, <2>3 DEF UpsertFails
  <2> QED  BY <1>13, <2>1, <2>4 DEF UpsertFails, TypeOK, disk
<1>14. CASE WriteGroupsFails(j)
  <2>1. join' \in [Joins -> JoinCalls]
    BY <1>14, <1>e DEF WriteGroupsFails
  <2>2. Released(app[d][b], FALSE) \in AppStates
    BY <1>c, SavingType
  <2>3. app' \in [Devices -> [Boots -> AppStates]]
    BY <1>0, <1>b, <1>14, <2>2 DEF WriteGroupsFails
  <2>4. groupsFile' \in [Devices -> {Torn} \cup SUBSET Namespaces]
    BY <1>0, <1>b, <1>14 DEF WriteGroupsFails, CutOff
  <2> QED  BY <1>14, <2>1, <2>3, <2>4 DEF WriteGroupsFails, TypeOK
<1> QED  BY <1>1, <1>2, <1>3, <1>4, <1>5, <1>6, <1>7, <1>8, <1>9, <1>10, <1>11, <1>12,
           <1>13, <1>14 DEF JoinStep

\* A dial and a lost connection keep the types.
LEMMA TypeRest ==
  ASSUME TypeOK, NEW d \in Devices, NEW j \in Joins,
         LoseConnection(j) \/ \E b \in Boots, t \in Tokens : Dial(j, d, b, t)
  PROVE  TypeOK'
<1>0. /\ app \in [Devices -> [Boots -> AppStates]]
      /\ join \in [Joins -> JoinCalls]
  BY DEF TypeOK
<1>1. ASSUME NEW b \in Boots, NEW t \in Tokens, Dial(j, d, b, t)
      PROVE  TypeOK'
  <2>1. [NotCalled EXCEPT !.phase = "dialled", !.dev = d, !.boot = b, !.token = t] \in JoinCalls
    BY NotCalledType DEF JoinCalls, Phases
  <2>2. join' \in [Joins -> JoinCalls]
    BY <1>0, <1>1, <2>1 DEF Dial
  <2> QED  BY <1>1, <2>2 DEF Dial, TypeOK, disk
<1>2. CASE LoseConnection(j)
  <2>1. join' \in [Joins -> JoinCalls]
    BY <1>0, <1>2, FailedType DEF LoseConnection, Fail
  <2> QED  BY <1>2, <2>1 DEF LoseConnection, TypeOK, disk
<1> QED  BY <1>1, <1>2

\* A step of a process and a tick keep the types.
LEMMA TypeProcess ==
  ASSUME TypeOK, NEW d \in Devices, ProcessStep(d) \/ Tick
  PROVE  TypeOK'
<1>0. /\ app \in [Devices -> [Boots -> AppStates]]
      /\ join \in [Joins -> JoinCalls]
      /\ current \in [Devices -> Boots]
      /\ idFile \in [Devices -> Devices \cup {Torn}]
      /\ groupsFile \in [Devices -> {Torn} \cup SUBSET Namespaces]
  BY DEF TypeOK
<1>3. CASE Reload(d) \/ Start(d)
  <2>1. idFile[d] \in Devices /\ groupsFile[d] \in SUBSET Namespaces
    BY <1>0, <1>3 DEF Reload, Start, Intact
  <2>2. current[d] + 1 \in Boots
    BY <1>0, <1>3, PairingAssumption DEF Reload, Start, Boots
  <2>3. app' \in [Devices -> [Boots -> AppStates]]
    <3>1. FromDisk(d) \in AppStates
      BY <2>1, BootedType DEF FromDisk
    <3>2. app' = [app EXCEPT ![d][current[d] + 1] = FromDisk(d)]
      BY <1>3 DEF Reload, Start
    <3> QED  BY <1>0, <2>2, <3>1, <3>2
  <2>4. current' \in [Devices -> Boots]
    BY <1>0, <1>3, <2>2 DEF Reload, Start
  <2>5. watcher' \in [Devices -> {"waiting", "booting", "closing"}]
    BY <1>3 DEF Reload, Start, TypeOK
  <2> QED  BY <1>3, <2>3, <2>4, <2>5 DEF Reload, Start, TypeOK, disk
<1>4. CASE ReloadFails(d)
  BY <1>4 DEF ReloadFails, TypeOK, disk
<1>5. CASE CloseOldNode(d)
  <2>1. \A b \in Boots : [app[d][b] EXCEPT !.open = FALSE] \in AppStates
    <3> TAKE b \in Boots
    <3>1. app[d][b] \in AppStates
      BY <1>0
    <3> QED  BY <3>1 DEF AppStates
  <2>2. app' \in [Devices -> [Boots -> AppStates]]
    <3>1. CASE current[d] - 1 \in Boots
      BY <1>0, <1>5, <2>1, <3>1 DEF CloseOldNode
    <3>2. CASE current[d] - 1 \notin Boots
      BY <1>0, <1>5, <3>2 DEF CloseOldNode
    <3> QED  BY <3>1, <3>2
  <2> QED  BY <1>5, <2>2 DEF CloseOldNode, TypeOK, disk
<1>6. CASE Crash(d)
  <2>1. app' \in [Devices -> [Boots -> AppStates]]
    BY <1>0, <1>6, KilledType DEF Crash
  <2>2. \A k \in Joins : Failed(k) \in JoinCalls
    BY <1>0, FailedType
  <2>3. join' \in [Joins -> JoinCalls]
    BY <1>0, <1>6, <2>2 DEF Crash
  <2>4. crashes' \in 0..MaxCrashes
    BY <1>6, PairingAssumption DEF Crash, TypeOK
  <2> QED  BY <1>6, <2>1, <2>3, <2>4 DEF Crash, TypeOK, disk
<1>7. CASE Tick
  BY <1>7, PairingAssumption DEF Tick, TypeOK, disk, Times
<1> QED  BY <1>3, <1>4, <1>5, <1>6, <1>7 DEF ProcessStep

-----------------------------------------------------------------------------
(* The tokens.                                                             *)

\* What most actions do to the tokens: nothing new is minted, nothing becomes
\* pending, no AppState answers for a pending token that did not before, and no call
\* is served or given another token.
QuietCall(j) ==
  /\ join'[j].token = join[j].token
  /\ join'[j].issuer = join[j].issuer
  /\ join'[j].servedBy = join[j].servedBy
  /\ join'[j].servedAt = join[j].servedAt
  /\ join'[j].phase = "idle" <=> join[j].phase = "idle"
  /\ join'[j].phase = "dialled" => join[j].phase = "dialled"
  /\ join'[j].phase \notin {"idle", "dialled", "failed"} =>
       join[j].phase \notin {"idle", "dialled", "failed"}
  /\ join'[j].phase \in {"imported", "savingGroups"} => join'[j].ns # None

Quiet ==
  /\ codes' = codes
  /\ \A d \in Devices, b \in Boots : app'[d][b].pending \subseteq app[d][b].pending
  /\ \A d \in Devices, b \in Boots :
       app'[d][b].open => app[d][b].open \/ app'[d][b].pending = {}
  /\ \A j \in Joins : QuietCall(j)

\* Such a step keeps everything that is known about tokens.
LEMMA QuietStep ==
  ASSUME TokenInv, TypeOK', Quiet
  PROVE  TokenInv'
<1> USE DEF Quiet, QuietCall, TokenInv
<1>1. DialledCodes'
  BY DEF DialledCodes
<1>2. CallShape'
  BY DEF CallShape
<1>3. PendingIsMinted'
  BY DEF PendingIsMinted
<1>4. HonouredIsSpent'
  BY DEF HonouredIsSpent, Honoured
<1>5. HonouredInTime'
  BY DEF HonouredInTime, Honoured
<1>6. TokenHonouredOnce'
  BY DEF TokenHonouredOnce, Honoured
<1> QED  BY <1>1, <1>2, <1>3, <1>4, <1>5, <1>6

\* A call that only changes its phase, within the phases after it was dialled,
\* or that fails, is quiet; and so is one that does not change.
LEMMA QuietCalls ==
  ASSUME TypeOK, CallShape, NEW j \in Joins,
         join[j].phase # "idle"
  PROVE  /\ Fail(j) => \A k \in Joins : QuietCall(k)
         /\ \A phase \in Phases \ {"idle", "dialled"} :
              /\ join[j].phase \notin {"dialled", "failed"}
              /\ phase \in {"imported", "savingGroups"} => join[j].ns # None
              /\ Goto(j, phase)
              => \A k \in Joins : QuietCall(k)
         /\ join' = join => \A k \in Joins : QuietCall(k)
<1>1. join \in [Joins -> JoinCalls]
  BY DEF TypeOK
<1>2. \A k \in Joins : join[k] \in JoinCalls
  BY <1>1
<1>3. ASSUME Fail(j), NEW k \in Joins
      PROVE  QuietCall(k)
  <2>1. CASE k = j
    BY <1>1, <1>2, <1>3, <2>1, FailedType DEF Fail, QuietCall
  <2>2. CASE k # j
    BY <1>1, <1>3, <2>2 DEF Fail, QuietCall, CallShape
  <2> QED  BY <2>1, <2>2
<1>4. ASSUME NEW phase \in Phases \ {"idle", "dialled"},
             join[j].phase \notin {"dialled", "failed"},
             phase \in {"imported", "savingGroups"} => join[j].ns # None,
             Goto(j, phase), NEW k \in Joins
      PROVE  QuietCall(k)
  <2>1. CASE k = j
    <3>1. join'[j] = [join[j] EXCEPT !.phase = phase]
      BY <1>1, <1>4 DEF Goto
    <3> QED  BY <1>2, <1>4, <2>1, <3>1 DEF JoinCalls, QuietCall
  <2>2. CASE k # j
    BY <1>1, <1>4, <2>2 DEF Goto, QuietCall, CallShape
  <2> QED  BY <2>1, <2>2
<1>5. ASSUME join' = join, NEW k \in Joins
      PROVE  QuietCall(k)
  BY <1>5 DEF QuietCall, CallShape
<1> QED  BY <1>3, <1>4, <1>5

\* Minting a token keeps the invariant: the token is new, so no call has it.
LEMMA TokenMint ==
  ASSUME TokenInv, TypeOK', NEW d \in Devices, NEW b \in Boots, NEW t \in Tokens,
         CreateCode(d, b, t)
  PROVE  TokenInv'
<1> USE DEF TokenInv
<1>1. /\ app \in [Devices -> [Boots -> AppStates]]
      /\ codes \in [Tokens -> Codes \cup {None}]
      /\ join \in [Joins -> JoinCalls]
  BY DEF TypeOK
<1>2. /\ codes[t] = None
      /\ codes' = [codes EXCEPT ![t] = [host |-> d, boot |-> b, at |-> now]]
      /\ join' = join
  BY DEF CreateCode
<1>3. codes'[t].host = d /\ codes'[t].boot = b /\ codes'[t] # None
  <2>1. codes'[t] = [host |-> d, boot |-> b, at |-> now]
    BY <1>1, <1>2
  <2>2. codes'[t] \in Codes
    BY <2>1 DEF TypeOK, Codes
  <2> QED  BY <2>1, <2>2, PairingAssumption
<1>4. \A e \in Devices, c \in Boots :
        app'[e][c].pending = IF e = d /\ c = b THEN Minted(app[d][b].pending, t)
                                               ELSE app[e][c].pending
  <2>1. app[d][b] \in AppStates
    BY <1>1
  <2>2. app' = [app EXCEPT ![d][b] = [app[d][b] EXCEPT !.pending = Minted(@, t)]]
    BY DEF CreateCode
  <2>3. [app[d][b] EXCEPT !.pending = Minted(@, t)].pending = Minted(app[d][b].pending, t)
    BY <2>1 DEF AppStates
  <2> QED  BY <1>1, <2>2, <2>3
<1>5. \A j \in Joins : join[j].phase # "idle" => join[j].token # t
  BY <1>2 DEF DialledCodes
<1>6. DialledCodes'
  BY <1>1, <1>2, <1>3 DEF DialledCodes, JoinCalls
<1>7. CallShape'
  BY <1>2 DEF CallShape
<1>8. PendingIsMinted'
  <2> SUFFICES ASSUME NEW e \in Devices, NEW c \in Boots, NEW u \in app'[e][c].pending
               PROVE  codes'[u] # None /\ codes'[u].host = e /\ codes'[u].boot = c
    BY DEF PendingIsMinted
  <2>1. CASE u = t
    <3>1. t \notin app[e][c].pending
      BY <1>2 DEF PendingIsMinted
    <3> QED  BY <1>3, <1>4, <2>1, <3>1
  <2>2. CASE u # t
    <3>1. u \in app[e][c].pending
      BY <1>4, <2>2 DEF Minted
    <3>2. codes'[u] = codes[u]
      BY <1>1, <1>2, <2>2
    <3> QED  BY <3>1, <3>2 DEF PendingIsMinted
  <2> QED  BY <2>1, <2>2
<1>9. HonouredIsSpent'
  <2> SUFFICES ASSUME NEW j \in Joins, Honoured(j)'
               PROVE  /\ join'[j].phase \notin {"idle", "dialled"}
                      /\ \A e \in Devices, c \in Boots : join'[j].token \notin app'[e][c].pending
    BY DEF HonouredIsSpent
  <2>1. Honoured(j) /\ join'[j] = join[j]
    BY <1>2 DEF Honoured
  <2>2. /\ join[j].phase \notin {"idle", "dialled"} /\ join[j].token # t
        /\ \A e \in Devices, c \in Boots : join[j].token \notin app[e][c].pending
    BY <1>5, <2>1 DEF HonouredIsSpent
  <2>3. join[j].token \notin Minted(app[d][b].pending, t)
    BY <2>2 DEF Minted
  <2> QED  BY <1>4, <2>1, <2>2, <2>3
<1>10. HonouredInTime'
  <2> SUFFICES ASSUME NEW j \in Joins, Honoured(j)
               PROVE  codes'[join[j].token] = codes[join[j].token]
    BY <1>2 DEF HonouredInTime, Honoured
  <2>1. join[j].token # t
    BY <1>5 DEF HonouredIsSpent
  <2> QED  BY <1>1, <1>2, <2>1
<1>11. TokenHonouredOnce'
  BY <1>2 DEF TokenHonouredOnce, Honoured
<1> QED  BY <1>6, <1>7, <1>8, <1>9, <1>10, <1>11

\* So does dialling a minted code: the call that begins was not honoured.
LEMMA TokenDial ==
  ASSUME TokenInv, TypeOK', NEW j \in Joins, NEW d \in Devices, NEW b \in Boots,
         NEW t \in Tokens, Dial(j, d, b, t)
  PROVE  TokenInv'
<1> USE DEF TokenInv
<1>1. join \in [Joins -> JoinCalls] /\ codes \in [Tokens -> Codes \cup {None}]
  BY DEF TypeOK
<1>2. codes' = codes /\ app' = app /\ codes[t] # None
  BY DEF Dial
<1>3. /\ join'[j].phase = "dialled" /\ join'[j].token = t
      /\ join'[j].issuer = None
  <2>1. join'[j] = [NotCalled EXCEPT !.phase = "dialled", !.dev = d, !.boot = b, !.token = t]
    BY <1>1 DEF Dial
  <2> QED  BY <2>1, NotCalledType DEF JoinCalls
<1>4. \A k \in Joins \ {j} : join'[k] = join[k]
  BY <1>1 DEF Dial
<1>5. DialledCodes'
  BY <1>2, <1>3, <1>4 DEF DialledCodes
<1>6. CallShape'
  BY <1>3, <1>4 DEF CallShape
<1>7. PendingIsMinted'
  BY <1>2 DEF PendingIsMinted
<1>8. HonouredIsSpent'
  BY <1>2, <1>3, <1>4 DEF HonouredIsSpent, Honoured
<1>9. HonouredInTime'
  BY <1>2, <1>3, <1>4 DEF HonouredInTime, Honoured
<1>10. TokenHonouredOnce'
  BY <1>3, <1>4 DEF TokenHonouredOnce, Honoured
<1> QED  BY <1>5, <1>6, <1>7, <1>8, <1>9, <1>10

\* So does answering a request: the token taken is spent for every call.
LEMMA TokenHandle ==
  ASSUME TokenInv, TypeOK', NEW j \in Joins, NEW b \in Boots, HandleRequest(j, b)
  PROVE  TokenInv'
<1> USE DEF TokenInv
<1> DEFINE h == Host(j)
           t == join[j].token
           s == app[h][b]
<1>1. /\ app \in [Devices -> [Boots -> AppStates]]
      /\ codes \in [Tokens -> Codes \cup {None}]
      /\ join \in [Joins -> JoinCalls]
      /\ join[j] \in JoinCalls
      /\ now \in Times
  BY DEF TypeOK
<1>2. /\ join[j].phase = "dialled"
      /\ codes' = codes
      /\ codes[t] \in Codes /\ h \in Devices /\ t \in Tokens
  BY <1>1 DEF HandleRequest, DialledCodes, Host, JoinCalls, Codes
<1>3. \A e \in Devices, c \in Boots :
        app'[e][c].pending = IF e = h /\ c = b THEN s.pending \ {t}
                                               ELSE app[e][c].pending
  <2>1. s \in AppStates
    BY <1>1, <1>2
  <2>2. app' = [app EXCEPT ![h][b] = [s EXCEPT !.pending = @ \ {t}]]
    BY DEF HandleRequest, Consumed
  <2>3. [s EXCEPT !.pending = @ \ {t}].pending = s.pending \ {t}
    BY <2>1 DEF AppStates
  <2> QED  BY <1>1, <1>2, <2>2, <2>3
<1>4. PendingIsMinted'
  BY <1>2, <1>3 DEF PendingIsMinted
<1>5. CASE t \in s.pending /\ Fresh(t)
  <2>1. /\ join'[j].phase = "served" /\ join'[j].token = t
        /\ join'[j].servedBy = b /\ join'[j].servedAt = now
        /\ join'[j].issuer = s.identity
    <3>1. join'[j] = [join[j] EXCEPT !.phase = "served", !.servedBy = b, !.servedAt = now,
                                     !.issuer = s.identity]
      BY <1>1, <1>5 DEF HandleRequest
    <3> QED  BY <1>1, <3>1 DEF JoinCalls
  <2>2. join'[j].issuer # None
    <3>1. s \in AppStates
      BY <1>1, <1>2
    <3> QED  BY <2>1, <3>1, PairingAssumption DEF AppStates
  <2>3. \A k \in Joins \ {j} : join'[k] = join[k]
    BY <1>1, <1>5 DEF HandleRequest
  <2>4. codes[t].host = h /\ codes[t].boot = b
    BY <1>2, <1>5 DEF PendingIsMinted
  <2>5. \A e \in Devices, c \in Boots : t \notin app'[e][c].pending
    BY <1>2, <1>3, <2>4 DEF PendingIsMinted
  <2>6. \A k \in Joins \ {j} : Honoured(k) => join[k].token # t
    BY <1>2, <1>5 DEF HonouredIsSpent
  <2>7. DialledCodes'
    BY <1>2, <2>1, <2>3 DEF DialledCodes
  <2>8. CallShape'
    BY <2>1, <2>2, <2>3 DEF CallShape
  <2>9. HonouredIsSpent'
    BY <1>3, <2>1, <2>3, <2>5 DEF HonouredIsSpent, Honoured
  <2>10. HonouredInTime'
    BY <1>2, <1>5, <2>1, <2>3, <2>4 DEF HonouredInTime, Honoured, Fresh, DialledCodes
  <2>11. TokenHonouredOnce'
    BY <2>1, <2>3, <2>6 DEF TokenHonouredOnce, Honoured
  <2> QED  BY <1>4, <2>7, <2>8, <2>9, <2>10, <2>11
<1>6. CASE ~(t \in s.pending /\ Fresh(t))
  <2>1. Fail(j)
    BY <1>6 DEF HandleRequest
  <2>2. \A k \in Joins : QuietCall(k)
    BY <1>2, <2>1, QuietCalls
  <2>3. DialledCodes'
    BY <1>2, <2>2 DEF DialledCodes, QuietCall
  <2>4. CallShape'
    BY <2>2 DEF CallShape, QuietCall
  <2>5. HonouredIsSpent'
    BY <1>3, <2>2 DEF HonouredIsSpent, Honoured, QuietCall
  <2>6. HonouredInTime'
    BY <1>2, <2>2 DEF HonouredInTime, Honoured, QuietCall
  <2>7. TokenHonouredOnce'
    BY <2>2 DEF TokenHonouredOnce, Honoured, QuietCall
  <2> QED  BY <1>4, <2>3, <2>4, <2>5, <2>6, <2>7
<1> QED  BY <1>5, <1>6

\* The other steps of a call are quiet.
LEMMA TokenJoin ==
  ASSUME TypeOK, CallShape, NEW j \in Joins,
         JoinStep(j) \/ LoseConnection(j) \/ GatherTickets(j) \/ Respond(j)
  PROVE  Quiet
<1> DEFINE d == join[j].dev
           b == join[j].boot
<1>1. /\ app \in [Devices -> [Boots -> AppStates]]
      /\ join \in [Joins -> JoinCalls]
      /\ join[j] \in JoinCalls
      /\ d \in Devices /\ b \in Boots
  BY DEF TypeOK, JoinCalls
<1>2. app[d][b] \in AppStates
  BY <1>1
<1>3. CASE SaveIdentity(j)
  <2>1. Goto(j, "savingIdentity") /\ join[j].phase = "answered"
    BY <1>3 DEF SaveIdentity
  <2>2. \A k \in Joins : QuietCall(k)
    BY <2>1, QuietCalls DEF Phases
  <2> QED  BY <1>3, <2>2 DEF SaveIdentity, Quiet
<1>4. CASE RejectResponse(j) \/ ImportFails(j) \/ LoseConnection(j)
  <2>1. Fail(j) /\ join[j].phase # "idle"
    BY <1>4 DEF RejectResponse, ImportFails, LoseConnection, OnTheWire
  <2>2. \A k \in Joins : QuietCall(k)
    BY <2>1, QuietCalls
  <2>3. codes' = codes /\ app' = app
    BY <1>4 DEF RejectResponse, ImportFails, LoseConnection
  <2> QED  BY <2>2, <2>3 DEF Quiet
<1>5. CASE WriteIdentity(j)
  <2>1. Goto(j, "savedIdentity") /\ join[j].phase = "savingIdentity"
    BY <1>5 DEF WriteIdentity
  <2>2. \A k \in Joins : QuietCall(k)
    BY <2>1, QuietCalls DEF Phases
  <2> QED  BY <1>5, <2>2 DEF WriteIdentity, Quiet
<1>6. CASE ReplaceCert(j)
  <2>1. (Fail(j) \/ Goto(j, "savingDevice")) /\ join[j].phase = "savedIdentity"
    BY <1>6 DEF ReplaceCert
  <2>2. \A k \in Joins : QuietCall(k)
    BY <2>1, QuietCalls DEF Phases
  <2> QED  BY <1>6, <2>2 DEF ReplaceCert, Quiet
<1>7. CASE WriteDevice(j)
  <2>1. Goto(j, "savedDevice") /\ join[j].phase = "savingDevice"
    BY <1>7 DEF WriteDevice
  <2>2. \A k \in Joins : QuietCall(k)
    BY <2>1, QuietCalls DEF Phases
  <2> QED  BY <1>7, <2>2 DEF WriteDevice, Quiet
<1>8. ASSUME NEW n \in Namespaces, ImportDoc(j, n)
      PROVE  Quiet
  <2>1. join'[j] = [join[j] EXCEPT !.phase = "imported", !.ns = n]
    BY <1>1, <1>8 DEF ImportDoc
  <2>2. QuietCall(j)
    <3>1. n # None
      BY PairingAssumption
    <3> QED  BY <1>1, <1>8, <2>1, <3>1 DEF ImportDoc, JoinCalls, QuietCall
  <2>3. \A k \in Joins \ {j} : QuietCall(k)
    BY <1>1, <1>8 DEF ImportDoc, QuietCall, CallShape
  <2> QED  BY <1>8, <2>2, <2>3 DEF ImportDoc, Quiet
<1>9. CASE UpsertGroup(j)
  <2>1. Goto(j, "savingGroups") /\ join[j].phase = "imported" /\ join[j].ns # None
    BY <1>9 DEF UpsertGroup, CallShape
  <2>2. \A k \in Joins : QuietCall(k)
    BY <2>1, QuietCalls DEF Phases
  <2>3. app' = [app EXCEPT ![d][b] = [app[d][b] EXCEPT !.groups = Upserted(@, join[j].ns),
                                                      !.saving = j]]
    BY <1>1, <1>2, <1>9 DEF UpsertGroup, AppStates, Upserted
  <2>4. /\ [app[d][b] EXCEPT !.groups = Upserted(@, join[j].ns), !.saving = j].pending = app[d][b].pending
        /\ [app[d][b] EXCEPT !.groups = Upserted(@, join[j].ns), !.saving = j].open = app[d][b].open
    BY <1>2 DEF AppStates
  <2>5. \A e \in Devices, c \in Boots :
          app'[e][c].pending = app[e][c].pending /\ app'[e][c].open = app[e][c].open
    BY <1>1, <2>3, <2>4
  <2> QED  BY <1>9, <2>2, <2>5 DEF UpsertGroup, Quiet
<1>10. CASE WriteGroups(j)
  <2>1. join'[j] = [join[j] EXCEPT !.phase = "savedDevice", !.ns = None,
                                   !.todo = @ \ {join[j].ns}]
    BY <1>1, <1>10 DEF WriteGroups
  <2>2. QuietCall(j)
    BY <1>1, <1>10, <2>1 DEF WriteGroups, JoinCalls, QuietCall
  <2>3. \A k \in Joins \ {j} : QuietCall(k)
    BY <1>1, <1>10 DEF WriteGroups, QuietCall, CallShape
  <2>4. app' = [app EXCEPT ![d][b] = Released(app[d][b], TRUE)]
    BY <1>10 DEF WriteGroups
  <2>5. /\ Released(app[d][b], TRUE).pending = app[d][b].pending
        /\ Released(app[d][b], TRUE).open = app[d][b].open
    BY <1>2, SavingType
  <2>6. \A e \in Devices, c \in Boots :
          app'[e][c].pending = app[e][c].pending /\ app'[e][c].open = app[e][c].open
    BY <1>1, <2>4, <2>5
  <2> QED  BY <1>10, <2>2, <2>3, <2>6 DEF WriteGroups, Quiet
<1>11. CASE Finish(j)
  <2>1. Goto(j, "done") /\ join[j].phase = "savedDevice"
    BY <1>11 DEF Finish
  <2>2. \A k \in Joins : QuietCall(k)
    BY <2>1, QuietCalls DEF Phases
  <2> QED  BY <1>11, <2>2 DEF Finish, Quiet
<1>12. CASE GatherTickets(j)
  <2>1. join'[j] = [join[j] EXCEPT !.phase = "gathering", !.tickets = Listed(Host(j)),
                                   !.todo = Listed(Host(j))]
    BY <1>1, <1>12 DEF GatherTickets
  <2>2. QuietCall(j)
    BY <1>1, <1>12, <2>1 DEF GatherTickets, JoinCalls, QuietCall
  <2>3. \A k \in Joins \ {j} : QuietCall(k)
    BY <1>1, <1>12 DEF GatherTickets, QuietCall, CallShape
  <2> QED  BY <1>12, <2>2, <2>3 DEF GatherTickets, Quiet
<1>13. CASE Respond(j)
  <2>1. PICK sent \in SUBSET (join[j].tickets \cap docs[Host(j)]) :
          join' = [join EXCEPT ![j] = [join[j] EXCEPT !.phase = "answered",
                                                      !.tickets = sent, !.todo = sent]]
    BY <1>1, <1>13 DEF Respond
  <2>2. QuietCall(j)
    BY <1>1, <1>13, <2>1 DEF Respond, JoinCalls, QuietCall
  <2>3. \A k \in Joins \ {j} : QuietCall(k)
    BY <1>1, <2>1 DEF QuietCall, CallShape
  <2> QED  BY <1>13, <2>2, <2>3 DEF Respond, Quiet
<1>14. CASE SaveIdentityFails(j) \/ SaveDeviceFails(j)
  <2>1. Fail(j) /\ join[j].phase # "idle" /\ codes' = codes /\ app' = app
    BY <1>14 DEF SaveIdentityFails, SaveDeviceFails
  <2>2. \A k \in Joins : QuietCall(k)
    BY <2>1, QuietCalls
  <2> QED  BY <2>1, <2>2 DEF Quiet
<1>15. CASE UpsertFails(j)
  <2>1. /\ Fail(j) /\ join[j].phase = "imported" /\ codes' = codes
        /\ app' = [app EXCEPT ![d][b] = Unsaved(app[d][b], join[j].ns)]
        /\ join[j].ns \in Namespaces
    BY <1>1, <1>15 DEF UpsertFails, CallShape, JoinCalls
  <2>2. \A k \in Joins : QuietCall(k)
    BY <2>1, QuietCalls
  <2>3. /\ Unsaved(app[d][b], join[j].ns).pending = app[d][b].pending
        /\ Unsaved(app[d][b], join[j].ns).open = app[d][b].open
    BY <1>2, <2>1, SavingType
  <2>4. \A e \in Devices, c \in Boots :
          app'[e][c].pending = app[e][c].pending /\ app'[e][c].open = app[e][c].open
    BY <1>1, <2>1, <2>3
  <2> QED  BY <2>1, <2>2, <2>4 DEF Quiet
<1>16. CASE WriteGroupsFails(j)
  <2>1. /\ Fail(j) /\ join[j].phase = "savingGroups" /\ codes' = codes
        /\ app' = [app EXCEPT ![d][b] = Released(app[d][b], FALSE)]
    BY <1>16 DEF WriteGroupsFails
  <2>2. \A k \in Joins : QuietCall(k)
    BY <2>1, QuietCalls
  <2>3. /\ Released(app[d][b], FALSE).pending = app[d][b].pending
        /\ Released(app[d][b], FALSE).open = app[d][b].open
    BY <1>2, SavingType
  <2>4. \A e \in Devices, c \in Boots :
          app'[e][c].pending = app[e][c].pending /\ app'[e][c].open = app[e][c].open
    BY <1>1, <2>1, <2>3
  <2> QED  BY <2>1, <2>2, <2>4 DEF Quiet
<1> QED  BY <1>3, <1>4, <1>5, <1>6, <1>7, <1>8, <1>9, <1>10, <1>11, <1>12, <1>13, <1>14,
           <1>15, <1>16 DEF JoinStep

\* The steps of groups_new.
GroupsNewStep(d, b) ==
  \/ FinishNewGroup(d, b) \/ FinishNewGroupFails(d, b)
  \/ \E n \in Namespaces : NewGroup(d, b, n) \/ NewGroupFails(d, b, n)

\* They and the steps of a process and of the clock are quiet, too.
LEMMA TokenProcess ==
  ASSUME TypeOK, CallShape, NEW d \in Devices,
         \/ \E b \in Boots : GroupsNewStep(d, b)
         \/ ProcessStep(d)
         \/ Tick
  PROVE  Quiet
<1>1. /\ app \in [Devices -> [Boots -> AppStates]]
      /\ join \in [Joins -> JoinCalls]
      /\ current \in [Devices -> Boots]
      /\ \A b \in Boots : app[d][b] \in AppStates
  BY DEF TypeOK
<1>2. join' = join => \A k \in Joins : QuietCall(k)
  BY DEF QuietCall, CallShape
<1>3. ASSUME NEW b \in Boots, NEW n \in Namespaces, NewGroup(d, b, n)
      PROVE  Quiet
  <2>1. app' = [app EXCEPT ![d][b] = [app[d][b] EXCEPT !.groups = Upserted(@, n), !.saving = "rpc"]]
    BY <1>1, <1>3 DEF NewGroup, AppStates, Upserted
  <2>2. /\ [app[d][b] EXCEPT !.groups = Upserted(@, n), !.saving = "rpc"].pending = app[d][b].pending
        /\ [app[d][b] EXCEPT !.groups = Upserted(@, n), !.saving = "rpc"].open = app[d][b].open
    BY <1>1 DEF AppStates
  <2>3. \A e \in Devices, c \in Boots :
          app'[e][c].pending = app[e][c].pending /\ app'[e][c].open = app[e][c].open
    BY <1>1, <2>1, <2>2
  <2> QED  BY <1>2, <1>3, <2>3 DEF NewGroup, Quiet
<1>4. ASSUME NEW b \in Boots, FinishNewGroup(d, b)
      PROVE  Quiet
  <2>1. /\ Released(app[d][b], TRUE).pending = app[d][b].pending
        /\ Released(app[d][b], TRUE).open = app[d][b].open
    BY <1>1, SavingType
  <2>2. \A e \in Devices, c \in Boots :
          app'[e][c].pending = app[e][c].pending /\ app'[e][c].open = app[e][c].open
    BY <1>1, <1>4, <2>1 DEF FinishNewGroup
  <2> QED  BY <1>2, <1>4, <2>2 DEF FinishNewGroup, Quiet
<1>9. ASSUME NEW b \in Boots, NEW n \in Namespaces, NewGroupFails(d, b, n)
      PROVE  Quiet
  <2>1. /\ Unsaved(app[d][b], n).pending = app[d][b].pending
        /\ Unsaved(app[d][b], n).open = app[d][b].open
    BY <1>1, SavingType
  <2>2. \A e \in Devices, c \in Boots :
          app'[e][c].pending = app[e][c].pending /\ app'[e][c].open = app[e][c].open
    BY <1>1, <1>9, <2>1 DEF NewGroupFails
  <2> QED  BY <1>2, <1>9, <2>2 DEF NewGroupFails, Quiet
<1>10. ASSUME NEW b \in Boots, FinishNewGroupFails(d, b)
      PROVE  Quiet
  <2>1. /\ Released(app[d][b], FALSE).pending = app[d][b].pending
        /\ Released(app[d][b], FALSE).open = app[d][b].open
    BY <1>1, SavingType
  <2>2. \A e \in Devices, c \in Boots :
          app'[e][c].pending = app[e][c].pending /\ app'[e][c].open = app[e][c].open
    BY <1>1, <1>10, <2>1 DEF FinishNewGroupFails
  <2> QED  BY <1>2, <1>10, <2>2 DEF FinishNewGroupFails, Quiet
<1>5. CASE Reload(d) \/ Start(d)
  <2>1. app' = [app EXCEPT ![d][current[d] + 1] = FromDisk(d)]
    BY <1>5 DEF Reload, Start
  <2>2. FromDisk(d).pending = {}
    BY DEF FromDisk, Booted
  <2>3. \A e \in Devices, c \in Boots :
          app'[e][c] = app[e][c] \/ app'[e][c].pending = {}
    BY <1>1, <2>1, <2>2
  <2> QED  BY <1>2, <1>5, <2>3 DEF Reload, Start, Quiet
<1>6. CASE ReloadFails(d) \/ Tick
  BY <1>2, <1>6 DEF ReloadFails, Tick, Quiet
<1>7. CASE CloseOldNode(d)
  <2>1. \A b \in Boots : /\ [app[d][b] EXCEPT !.open = FALSE].pending = app[d][b].pending
                       /\ [app[d][b] EXCEPT !.open = FALSE].open = FALSE
    BY <1>1 DEF AppStates
  <2>2. app' = [app EXCEPT ![d][current[d] - 1] = [app[d][current[d] - 1] EXCEPT !.open = FALSE]]
    BY <1>7 DEF CloseOldNode
  <2>3. \A e \in Devices, c \in Boots :
          app'[e][c] = app[e][c] \/ (app'[e][c].pending = app[e][c].pending /\ app'[e][c].open = FALSE)
    BY <1>1, <2>1, <2>2
  <2> QED  BY <1>2, <1>7, <2>3 DEF CloseOldNode, Quiet
<1>8. CASE Crash(d)
  <2>1. \A e \in Devices, c \in Boots :
          app'[e][c] = app[e][c] \/ (app'[e][c].pending = app[e][c].pending /\ app'[e][c].open = FALSE)
    BY <1>1, <1>8, KilledType DEF Crash
  <2>2. ASSUME NEW k \in Joins
        PROVE  QuietCall(k)
    <3>1. CASE InFlight(k) /\ join[k].dev = d
      <4>1. join'[k] = Failed(k)
        BY <1>8, <3>1 DEF Crash
      <4> QED  BY <1>1, <3>1, <4>1, FailedType DEF QuietCall, InFlight
    <3>2. CASE ~(InFlight(k) /\ join[k].dev = d)
      BY <1>8, <3>2 DEF Crash, QuietCall, CallShape
    <3> QED  BY <3>1, <3>2
  <2> QED  BY <1>8, <2>1, <2>2 DEF Crash, Quiet
<1> QED  BY <1>3, <1>4, <1>5, <1>6, <1>7, <1>8, <1>9, <1>10 DEF ProcessStep, GroupsNewStep

-----------------------------------------------------------------------------
\* The invariant holds at first: nothing is minted, dialled or pending.
LEMMA TokenInit == Init => TokenInv
<1> SUFFICES ASSUME Init PROVE TokenInv
  OBVIOUS
<1>1. TypeOK
  BY TypeInit
<1>2. \A j \in Joins : join[j].phase = "idle" /\ join[j].issuer = None
  BY NotCalledType DEF Init
<1>3. \A d \in Devices, b \in Boots : app[d][b].pending = {}
  <2> SUFFICES ASSUME NEW d \in Devices, NEW b \in Boots PROVE app[d][b].pending = {}
    OBVIOUS
  <2>1. Booted(d, Home[d]).pending = {} /\ NotBooted(d).pending = {}
    BY DEF Booted, NotBooted
  <2> QED  BY <2>1 DEF Init
<1> QED
  BY <1>1, <1>2, <1>3
  DEF TokenInv, DialledCodes, CallShape, PendingIsMinted, HonouredIsSpent,
      HonouredInTime, TokenHonouredOnce, Honoured

\* Every step keeps it.
LEMMA TokenNext == TokenInv /\ [Next]_vars => TokenInv'
<1> SUFFICES ASSUME TokenInv, [Next]_vars PROVE TokenInv'
  OBVIOUS
<1>0. TypeOK /\ DialledCodes /\ CallShape
  BY DEF TokenInv
<1>d. PICK someone \in Devices : TRUE
  BY PairingAssumption
<1>1. CASE HostStep
  <2>1. TypeOK'
    BY <1>0, <1>1, TypeHost
  <2>2. ASSUME NEW d \in Devices, NEW b \in Boots, NEW t \in Tokens, CreateCode(d, b, t)
        PROVE  TokenInv'
    BY <2>1, <2>2, TokenMint
  <2>3. ASSUME NEW d \in Devices, NEW b \in Boots, GroupsNewStep(d, b)
        PROVE  TokenInv'
    <3>1. Quiet
      BY <1>0, <2>3, TokenProcess
    <3> QED  BY <2>1, <3>1, QuietStep
  <2>4. ASSUME NEW j \in Joins, GatherTickets(j) \/ Respond(j)
        PROVE  TokenInv'
    <3>1. Quiet
      BY <1>0, <2>4, TokenJoin
    <3> QED  BY <2>1, <3>1, QuietStep
  <2>5. ASSUME NEW j \in Joins, NEW b \in Boots, HandleRequest(j, b)
        PROVE  TokenInv'
    BY <2>1, <2>5, TokenHandle
  <2> QED  BY <1>1, <2>2, <2>3, <2>4, <2>5 DEF HostStep, GroupsNewStep
<1>2. ASSUME NEW j \in Joins, NEW d \in Devices, NEW b \in Boots, NEW t \in Tokens,
             Dial(j, d, b, t)
      PROVE  TokenInv'
  <2>1. TypeOK'
    BY <1>0, <1>2, TypeRest
  <2> QED  BY <1>2, <2>1, TokenDial
<1>3. ASSUME NEW j \in Joins, LoseConnection(j)
      PROVE  TokenInv'
  <2>1. TypeOK'
    BY <1>0, <1>3, <1>d, TypeRest
  <2>2. Quiet
    BY <1>0, <1>3, TokenJoin
  <2> QED  BY <2>1, <2>2, QuietStep
<1>4. ASSUME NEW j \in Joins, JoinStep(j)
      PROVE  TokenInv'
  <2>1. TypeOK'
    BY <1>0, <1>4, TypeJoin
  <2>2. Quiet
    BY <1>0, <1>4, TokenJoin
  <2> QED  BY <2>1, <2>2, QuietStep
<1>5. ASSUME NEW d \in Devices, ProcessStep(d) \/ Tick
      PROVE  TokenInv'
  <2>1. TypeOK'
    BY <1>0, <1>5, TypeProcess
  <2>2. Quiet
    BY <1>0, <1>5, TokenProcess
  <2> QED  BY <2>1, <2>2, QuietStep
<1>6. CASE UNCHANGED vars
  BY <1>6
  DEF vars, disk, TokenInv, TypeOK, DialledCodes, CallShape, PendingIsMinted,
      HonouredIsSpent, HonouredInTime, TokenHonouredOnce, Honoured
<1> QED  BY <1>1, <1>2, <1>3, <1>4, <1>5, <1>6, <1>d DEF Next

\* Pairing keeps the types of its variables, for any number of devices, tokens,
\* calls and groups.
THEOREM TypeCorrect == Spec => []TypeOK
<1>1. Init => TokenInv
  BY TokenInit
<1>2. TokenInv /\ [Next]_vars => TokenInv'
  BY TokenNext
<1>3. TokenInv => TypeOK
  BY DEF TokenInv
<1> QED  BY <1>1, <1>2, <1>3, PTL DEF Spec

\* A pairing token is honoured at most once: no interleaving of calls, hosts,
\* reloads, crashes and lost connections gives an identity to two joins that
\* dialled the same code.
THEOREM TokenSingleUse == Spec => []TokenHonouredOnce
<1>1. Init => TokenInv
  BY TokenInit
<1>2. TokenInv /\ [Next]_vars => TokenInv'
  BY TokenNext
<1>3. TokenInv => TokenHonouredOnce
  BY DEF TokenInv
<1> QED  BY <1>1, <1>2, <1>3, PTL DEF Spec

\* A pairing token is honoured only within its TTL and only by the AppState that
\* minted it, so a reload or restart of the host voids it.
THEOREM TokenInTime == Spec => []HonouredInTime
<1>1. Init => TokenInv
  BY TokenInit
<1>2. TokenInv /\ [Next]_vars => TokenInv'
  BY TokenNext
<1>3. TokenInv => HonouredInTime
  BY DEF TokenInv
<1> QED  BY <1>1, <1>2, <1>3, PTL DEF Spec
-----------------------------------------------------------------------------
(* Pairing implements PairCodes.                                           *)

bar == <<now, [t \in Tokens |-> ShownAt(t)], Offered, [j \in Joins |-> Given(j)]>>

\* A quiet step voids codes, or nothing.
LEMMA QuietVoids ==
  ASSUME TypeOK, PendingIsMinted, Quiet, now' = now
  PROVE  Promise!Void
<1>1. \A t \in Tokens : ShownAt(t)' = ShownAt(t)
  BY DEF Quiet, ShownAt
<1>2. Offered' \subseteq Offered
  <2> SUFFICES ASSUME NEW t \in Offered' PROVE t \in Offered
    OBVIOUS
  <2> DEFINE d == codes[t].host
             b == codes[t].boot
  <2>1. t \in Tokens /\ codes[t] # None /\ app'[d][b].open /\ t \in app'[d][b].pending
    BY DEF Offered, Quiet
  <2>2. d \in Devices /\ b \in Boots
    BY <2>1 DEF TypeOK, Codes
  <2>3. t \in app[d][b].pending /\ app[d][b].open
    BY <2>1, <2>2 DEF Quiet
  <2> QED BY <2>1, <2>3 DEF Offered
<1>3. \A j \in Joins : Given(j)' = Given(j)
  BY DEF Quiet, QuietCall, Given, Honoured
<1> QED BY <1>1, <1>2, <1>3 DEF Promise!Void

\* CreateCode shows a code.
LEMMA CreateShows ==
  ASSUME TokenInv, NEW d \in Devices, NEW b \in Boots, NEW t \in Tokens, CreateCode(d, b, t)
  PROVE  Promise!Show(t)
<1>1. /\ app \in [Devices -> [Boots -> AppStates]]
      /\ codes \in [Tokens -> Codes \cup {None}]
      /\ app[d][b] \in AppStates /\ now \in Times
  BY DEF TokenInv, TypeOK
<1>2. /\ app[d][b].open /\ codes[t] = None /\ now' = now /\ join' = join
      /\ codes' = [codes EXCEPT ![t] = [host |-> d, boot |-> b, at |-> now]]
      /\ app' = [app EXCEPT ![d][b] = [app[d][b] EXCEPT !.pending = Minted(@, t)]]
  BY DEF CreateCode
<1>3. /\ codes'[t] = [host |-> d, boot |-> b, at |-> now] /\ codes'[t] # None
      /\ \A u \in Tokens \ {t} : codes'[u] = codes[u]
  <2>1. codes'[t] = [host |-> d, boot |-> b, at |-> now]
    BY <1>1, <1>2
  <2>2. codes'[t] \in Codes
    BY <1>1, <2>1 DEF Codes
  <2> QED BY <1>1, <1>2, <2>1, <2>2, PairingAssumption
<1>4. /\ app'[d][b].pending = Minted(app[d][b].pending, t) /\ app'[d][b].open
      /\ \A e \in Devices, c \in Boots : (e = d /\ c = b) \/ app'[e][c] = app[e][c]
  <2>1. /\ [app[d][b] EXCEPT !.pending = Minted(@, t)].pending = Minted(app[d][b].pending, t)
        /\ [app[d][b] EXCEPT !.pending = Minted(@, t)].open = app[d][b].open
    BY <1>1 DEF AppStates
  <2> QED BY <1>1, <1>2, <2>1
<1>5. /\ ShownAt(t) = None
      /\ [u \in Tokens |-> ShownAt(u)]' = [[u \in Tokens |-> ShownAt(u)] EXCEPT ![t] = now]
  <2>1. ShownAt(t)' = now
    BY <1>3 DEF ShownAt
  <2>2. \A u \in Tokens \ {t} : ShownAt(u)' = ShownAt(u)
    BY <1>3 DEF ShownAt
  <2> QED BY <1>2, <2>1, <2>2 DEF ShownAt
<1>6. t \in Offered'
  BY <1>3, <1>4 DEF Offered, Minted
<1>7. Offered' \subseteq Offered \cup {t}
  <2> SUFFICES ASSUME NEW u \in Offered', u # t PROVE u \in Offered
    OBVIOUS
  <2> DEFINE e == codes[u].host
             c == codes[u].boot
  <2>1. u \in Tokens /\ codes[u] # None /\ app'[e][c].open /\ u \in app'[e][c].pending
    BY <1>3 DEF Offered
  <2>2. e \in Devices /\ c \in Boots
    BY <1>1, <2>1 DEF Codes
  <2>3. app[e][c].open /\ u \in app[e][c].pending
    BY <1>2, <1>4, <2>1, <2>2 DEF Minted
  <2> QED BY <2>1, <2>3 DEF Offered
<1>8. [j \in Joins |-> Given(j)]' = [j \in Joins |-> Given(j)]
  BY <1>2 DEF Given, Honoured
<1> QED BY <1>2, <1>5, <1>6, <1>7, <1>8 DEF Promise!Show

\* HandleRequest redeems a code that is offered and fresh, and voids it otherwise.
LEMMA HandleRedeems ==
  ASSUME TokenInv, NEW j \in Joins, NEW b \in Boots, HandleRequest(j, b)
  PROVE  Promise!Void \/ \E t \in Tokens : Promise!Redeem(j, t)
<1> DEFINE t == join[j].token
           h == Host(j)
           s == app[h][b]
<1>1. /\ app \in [Devices -> [Boots -> AppStates]]
      /\ codes \in [Tokens -> Codes \cup {None}]
      /\ join \in [Joins -> JoinCalls] /\ join[j] \in JoinCalls
      /\ now \in Times
  BY DEF TokenInv, TypeOK
<1>2. /\ join[j].phase = "dialled" /\ s.open /\ codes' = codes /\ now' = now
      /\ codes[t] \in Codes /\ codes[t] # None /\ h = codes[t].host /\ h \in Devices /\ t \in Tokens
  BY <1>1 DEF TokenInv, HandleRequest, DialledCodes, Host, JoinCalls, Codes
<1>3. s \in AppStates
  BY <1>1, <1>2
<1>4. /\ app'[h][b].pending = s.pending \ {t} /\ app'[h][b].open
      /\ \A e \in Devices, c \in Boots : (e = h /\ c = b) \/ app'[e][c] = app[e][c]
  <2>1. app' = [app EXCEPT ![h][b] = [s EXCEPT !.pending = @ \ {t}]]
    BY DEF HandleRequest, Consumed
  <2>2. /\ [s EXCEPT !.pending = @ \ {t}].pending = s.pending \ {t}
        /\ [s EXCEPT !.pending = @ \ {t}].open = s.open
    BY <1>3 DEF AppStates
  <2> QED BY <1>1, <1>2, <2>1, <2>2
<1>5. [u \in Tokens |-> ShownAt(u)]' = [u \in Tokens |-> ShownAt(u)]
  BY <1>2 DEF ShownAt
<1>6. \A u \in Tokens \ {t} : u \in Offered' <=> u \in Offered
  <2> SUFFICES ASSUME NEW u \in Tokens \ {t}, codes[u] # None
               PROVE  u \in Offered' <=> u \in Offered
    BY <1>2 DEF Offered
  <2> DEFINE e == codes[u].host
             c == codes[u].boot
  <2>1. e \in Devices /\ c \in Boots
    BY <1>1 DEF Codes
  <2>2. /\ u \in app'[e][c].pending <=> u \in app[e][c].pending
        /\ app'[e][c].open <=> app[e][c].open
    <3>1. CASE e = h /\ c = b
      BY <1>2, <1>4, <3>1
    <3>2. CASE ~(e = h /\ c = b)
      <4>1. app'[e][c] = app[e][c]
        BY <1>4, <2>1, <3>2
      <4> QED BY <4>1
    <3> QED BY <3>1, <3>2
  <2> QED BY <1>2, <2>2 DEF Offered
<1>7. t \in Offered' => t \in Offered
  <2>1. ~(codes[t].boot = b) => app'[h][codes[t].boot] = app[h][codes[t].boot]
    BY <1>2, <1>4 DEF Codes
  <2>2. codes[t].boot = b => t \notin Offered'
    BY <1>2, <1>4 DEF Offered
  <2> QED BY <1>2, <2>1, <2>2 DEF Offered
<1>8. CASE t \in s.pending /\ Fresh(t)
  <2>1. codes[t].boot = b
    BY <1>2, <1>8 DEF TokenInv, PendingIsMinted
  <2>2. t \in Offered /\ t \notin Offered'
    BY <1>2, <1>4, <1>8, <2>1 DEF Offered
  <2>3. Offered' = Offered \ {t}
    BY <1>6, <2>2 DEF Offered
  <2>4. now - [u \in Tokens |-> ShownAt(u)][t] < TTL
    BY <1>2, <1>8 DEF Fresh, ShownAt
  <2>5. Given(j) = None /\ Given(j)' = t
    <3>1. ~Honoured(j)
      BY <1>2 DEF TokenInv, HonouredIsSpent
    <3>2. join'[j].token = t /\ join'[j].issuer = s.identity
      <4>1. join'[j] = [join[j] EXCEPT !.phase = "served", !.servedBy = b, !.servedAt = now,
                                       !.issuer = s.identity]
        BY <1>1, <1>8 DEF HandleRequest
      <4> QED BY <1>1, <4>1 DEF JoinCalls
    <3>3. join'[j].issuer # None
      BY <1>3, <3>2, PairingAssumption DEF AppStates
    <3> QED BY <3>1, <3>2, <3>3 DEF Given, Honoured
  <2>6. \A k \in Joins \ {j} : Given(k)' = Given(k)
    BY <1>1, <1>8 DEF HandleRequest, Given, Honoured
  <2>7. [k \in Joins |-> Given(k)]' = [[k \in Joins |-> Given(k)] EXCEPT ![j] = t]
    BY <2>5, <2>6
  <2>8. Promise!Redeem(j, t)
    BY <1>2, <1>5, <2>2, <2>3, <2>4, <2>5, <2>7 DEF Promise!Redeem
  <2> QED BY <1>2, <2>8
<1>9. CASE ~(t \in s.pending /\ Fresh(t))
  <2>1. Fail(j)
    BY <1>9 DEF HandleRequest
  <2>2. \A k \in Joins : QuietCall(k)
    BY <1>2, <2>1, QuietCalls DEF TokenInv
  <2>3. [k \in Joins |-> Given(k)]' = [k \in Joins |-> Given(k)]
    BY <2>2 DEF QuietCall, Given, Honoured
  <2>4. Offered' \subseteq Offered
    BY <1>6, <1>7 DEF Offered
  <2> QED BY <1>2, <1>5, <2>3, <2>4 DEF Promise!Void
<1> QED BY <1>8, <1>9

\* Every step of Pairing is a step of PairCodes or none.
LEMMA StepKeepsPromise == TokenInv /\ [Next]_vars => [Promise!Next]_bar
<1> SUFFICES ASSUME TokenInv, [Next]_vars PROVE Promise!Next \/ UNCHANGED bar
  BY DEF bar
<1>0. TypeOK /\ DialledCodes /\ CallShape /\ PendingIsMinted
  BY DEF TokenInv
<1>d. PICK someone \in Devices : TRUE
  BY PairingAssumption
<1>q. Quiet /\ now' = now => Promise!Next
  BY <1>0, QuietVoids DEF Promise!Next
<1>1. ASSUME NEW d \in Devices, NEW b \in Boots, NEW t \in Tokens, CreateCode(d, b, t)
      PROVE  Promise!Next
  BY <1>1, CreateShows DEF Promise!Next
<1>2. ASSUME NEW d \in Devices, NEW b \in Boots, GroupsNewStep(d, b)
      PROVE  Promise!Next
  <2>1. Quiet
    BY <1>0, <1>2, TokenProcess
  <2>2. now' = now
    BY <1>2 DEF GroupsNewStep, FinishNewGroup, FinishNewGroupFails, NewGroup, NewGroupFails
  <2> QED BY <1>q, <2>1, <2>2
<1>3. ASSUME NEW j \in Joins, NEW b \in Boots, HandleRequest(j, b)
      PROVE  Promise!Next
  BY <1>3, HandleRedeems DEF Promise!Next
<1>4. ASSUME NEW j \in Joins,
             JoinStep(j) \/ LoseConnection(j) \/ GatherTickets(j) \/ Respond(j)
      PROVE  Promise!Next
  <2>1. Quiet
    BY <1>0, <1>4, TokenJoin
  <2>2. now' = now
    BY <1>4 DEF JoinStep, LoseConnection, GatherTickets, Respond, SaveIdentity,
       RejectResponse, WriteIdentity, SaveIdentityFails, ReplaceCert, WriteDevice,
       SaveDeviceFails, ImportDoc, ImportFails, UpsertGroup, UpsertFails, WriteGroups,
       WriteGroupsFails, Finish
  <2> QED BY <1>q, <2>1, <2>2
<1>5. ASSUME NEW j \in Joins, NEW d \in Devices, NEW b \in Boots, NEW t \in Tokens,
             Dial(j, d, b, t)
      PROVE  UNCHANGED bar
  <2>1. /\ join[j].phase = "idle" /\ codes' = codes /\ app' = app /\ now' = now
        /\ join \in [Joins -> JoinCalls]
        /\ join' = [join EXCEPT ![j] = [NotCalled EXCEPT !.phase = "dialled", !.dev = d,
                                                         !.boot = b, !.token = t]]
    BY <1>0, <1>5 DEF Dial, TypeOK
  <2>2. Given(j) = None
    BY <2>1 DEF TokenInv, HonouredIsSpent, Given
  <2>3. Given(j)' = None
    <3>1. [NotCalled EXCEPT !.phase = "dialled", !.dev = d, !.boot = b, !.token = t].issuer = None
      BY NotCalledType DEF JoinCalls
    <3> QED BY <2>1, <3>1 DEF Given, Honoured
  <2>4. \A k \in Joins \ {j} : Given(k)' = Given(k)
    BY <2>1 DEF Given, Honoured
  <2> QED BY <2>1, <2>2, <2>3, <2>4 DEF bar, ShownAt, Offered
<1>6. ASSUME NEW d \in Devices, ProcessStep(d)
      PROVE  Promise!Next
  <2>1. Quiet
    BY <1>0, <1>6, TokenProcess
  <2>2. now' = now
    BY <1>6 DEF ProcessStep, Reload, ReloadFails, CloseOldNode, Crash, Start
  <2> QED BY <1>q, <2>1, <2>2
<1>7. CASE Tick
  <2>1. now' = now + 1 /\ codes' = codes /\ app' = app /\ join' = join
    BY <1>7 DEF Tick
  <2>2. Promise!Pass
    BY <2>1 DEF Promise!Pass, ShownAt, Offered, Given, Honoured
  <2> QED BY <2>2 DEF Promise!Next
<1>8. CASE UNCHANGED vars
  BY <1>8 DEF vars, bar, ShownAt, Offered, Given, Honoured
<1> QED BY <1>1, <1>2, <1>3, <1>4, <1>5, <1>6, <1>7, <1>8 DEF Next, HostStep, GroupsNewStep

\* The codes of all hosts are one-time codes: whatever connections, processes and
\* reloads do, pairing implements PairCodes.
THEOREM CodesKeepPromise == Spec => CodesAreOneTime
<1>1. Init => Promise!Init
  <2> SUFFICES ASSUME Init PROVE Promise!Init
    OBVIOUS
  <2>1. now = 0 /\ codes = [t \in Tokens |-> None]
    BY DEF Init
  <2>2. \A j \in Joins : Given(j) = None
    BY NotCalledType DEF Init, Given, Honoured
  <2> QED BY <2>1, <2>2 DEF Promise!Init, ShownAt, Offered
<1> QED BY <1>1, TokenInit, TokenNext, StepKeepsPromise, PTL
        DEF Spec, CodesAreOneTime, Promise!Spec, bar
=============================================================================
