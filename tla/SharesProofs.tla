---------------------------- MODULE SharesProofs ---------------------------
(***************************************************************************)
(* Proofs about Shares: its types, that no share dangles, that a download  *)
(* that returns Ok is whole, that what was seen stays seen unless its      *)
(* author's clock is ahead, and that the docs together implement the log   *)
(* of ShareLog.                                                            *)
(***************************************************************************)
EXTENDS Shares, TLAPS

\* A create at work has added the items it has counted to its node's store, and
\* nothing is published under its id yet.
DraftsInStore ==
  \A id \in Ids : draft[id] # None =>
    /\ record[id] = None
    /\ draft[id].added <= Len(Items[id])
    /\ \A i \in 1..draft[id].added : Items[id][i] \in blobs[draft[id].node]

\* A download has written, and has in its store, the items before the one it is at.
DownloadsInOrder ==
  \A d \in Nodes, id \in Ids : load[d][id] # 0 =>
    /\ load[d][id] <= Len(Items[id]) + 1
    /\ files[d][id] = 1..(load[d][id] - 1)
    /\ \A i \in files[d][id] : Items[id][i] \in blobs[d]

ShareInv == TypeOK /\ DraftsInStore /\ SharesRecoverable /\ DownloadsInOrder

\* What was shown when a mark was saved is not later than the mark, in memory and
\* in a groups.json that is not torn, unless its author's clock is ahead.
Behind(at, seen, lead) == lead \/ seen = None \/ at <= seen
Lead(d, id) == Skew[record[id].author] > Skew[d]

\* What was listed or seen is published, and no stamp is later than the clock it
\* was taken from shows.
SeenInOrder ==
  /\ \A id \in Ids : record[id] # None => record[id].at <= Clock(record[id].author)
  /\ \A d \in Nodes : \A id \in listed[d] : record[id] # None
  /\ \A d \in Nodes : \A id \in looked[d] :
       /\ record[id] # None
       /\ Behind(record[id].at, seenAt[d], Lead(d, id))
       /\ Behind(record[id].at, seenFile[d], Lead(d, id))

-----------------------------------------------------------------------------
\* Every share has at least one item, numbered from 1, and each needs a blob.
LEMMA ItemsType ==
  ASSUME NEW id \in Ids
  PROVE  /\ Len(Items[id]) \in Nat \ {0}
         /\ DOMAIN Items[id] = 1..Len(Items[id])
         /\ \A i \in 1..Len(Items[id]) : Items[id][i] \in Blobs
         /\ ItemBlobs(id) = {Items[id][i] : i \in 1..Len(Items[id])}
<1>1. Items[id] \in Seq(Blobs) /\ Items[id] # <<>>
  BY SharesAssumption
<1> QED BY <1>1 DEF ItemBlobs

-----------------------------------------------------------------------------
(* Types.                                                                  *)

\* The initial state has the types.
LEMMA InitTypes == Init => TypeOK
  BY SharesAssumption DEF Init, TypeOK, Times

\* A clock shows a natural number.
LEMMA ClockNat ==
  ASSUME TypeOK, NEW d \in Nodes
  PROVE  Clock(d) \in Nat /\ Clock(d) = now + Skew[d]
<1>1. now \in Nat /\ Skew[d] \in Nat
  BY SharesAssumption DEF TypeOK, Times
<1> QED BY <1>1 DEF Clock

\* A draft has a node and a count, and one blob more keeps the node.
LEMMA DraftType ==
  ASSUME NEW one \in Drafts
  PROVE  /\ one.node \in Nodes /\ one.added \in Nat
         /\ [one EXCEPT !.added = @ + 1] = [node |-> one.node, added |-> one.added + 1]
BY DEF Drafts

\* Every step keeps the types.
LEMMA StepTypes ==
  ASSUME TypeOK, [Next]_vars
  PROVE  TypeOK'
<1> USE DEF TypeOK, log, tasks, marks, inbox
<1>1. ASSUME NEW d \in Nodes, NEW id \in Ids, StartCreate(d, id)
     PROVE  TypeOK'
  BY <1>1 DEF StartCreate, Drafts
<1>2. ASSUME NEW id \in Ids, AddBlob(id)
     PROVE  TypeOK'
  <2>1. draft[id] \in Drafts
    BY <1>2 DEF AddBlob
  <2>2. draft[id].node \in Nodes /\ draft[id].added \in Nat
    BY <2>1, DraftType
  <2>3. Items[id][draft[id].added + 1] \in Blobs
    <3>1. draft[id].added + 1 \in 1..Len(Items[id])
      BY <1>2, <2>2, ItemsType DEF AddBlob
    <3> QED BY <3>1, ItemsType
  <2>4. [draft[id] EXCEPT !.added = @ + 1] = [node |-> draft[id].node, added |-> draft[id].added + 1]
    BY <2>1, DraftType
  <2>5. [draft[id] EXCEPT !.added = @ + 1] \in Drafts
    BY <2>2, <2>4 DEF Drafts
  <2>6. draft' \in [Ids -> Drafts \cup {None}]
    BY <1>2, <2>5 DEF AddBlob
  <2>7. blobs' \in [Nodes -> SUBSET Blobs]
    BY <1>2, <2>2, <2>3 DEF AddBlob
  <2> QED BY <1>2, <2>6, <2>7 DEF AddBlob
<1>3. ASSUME NEW id \in Ids, Publish(id)
     PROVE  TypeOK'
  <2> DEFINE d == draft[id].node
  <2>1. d \in Nodes
    BY <1>3 DEF Publish, Drafts
  <2>2. [author |-> d, at |-> Clock(d)] \in Records
    BY <2>1, ClockNat DEF Records, Stamps
  <2>3. record' \in [Ids -> Records \cup {None}]
    BY <1>3, <2>2 DEF Publish
  <2> QED BY <1>3, <2>1, <2>3 DEF Publish
<1>4. ASSUME NEW id \in Ids, CreateFails(id)
     PROVE  TypeOK'
  BY <1>4 DEF CreateFails, Times
<1>5. ASSUME NEW d \in Nodes, NEW e \in Nodes, NEW id \in Ids, SyncEntry(d, e, id)
     PROVE  TypeOK'
  BY <1>5 DEF SyncEntry, Times
<1>6. ASSUME NEW d \in Nodes, NEW e \in Nodes, NEW id \in Ids, SyncContent(d, e, id)
     PROVE  TypeOK'
  BY <1>6 DEF SyncContent, Times
<1>7. ASSUME NEW d \in Nodes, Poll(d)
     PROVE  TypeOK'
  BY <1>7 DEF Poll, Times
<1>8. ASSUME NEW d \in Nodes, NEW id \in Ids, NEW i \in DOMAIN Items[id], PinItem(d, id, i)
     PROVE  TypeOK'
  BY <1>8, ItemsType DEF PinItem
<1>9. ASSUME NEW d \in Nodes, NEW id \in Ids, NEW i \in DOMAIN Items[id], ReadItem(d, id, i)
     PROVE  TypeOK'
  BY <1>9, ItemsType DEF ReadItem
<1>10. ASSUME NEW d \in Nodes, NEW id \in Ids, StartDownload(d, id)
     PROVE  TypeOK'
  BY <1>10 DEF StartDownload, Times
<1>11. ASSUME NEW d \in Nodes, NEW id \in Ids, DownloadItem(d, id)
     PROVE  TypeOK'
  BY <1>11, ItemsType DEF DownloadItem, Loading
<1>12. ASSUME NEW d \in Nodes, NEW id \in Ids, DownloadFails(d, id)
     PROVE  TypeOK'
  BY <1>12, ItemsType DEF DownloadFails, GiveUp, Loading
<1>13. ASSUME NEW d \in Nodes, MarkSeen(d)
     PROVE  TypeOK'
  BY <1>13, ClockNat DEF MarkSeen
<1>13a. ASSUME NEW d \in Nodes, MarkSeenFails(d)
     PROVE  TypeOK'
  BY <1>13a, ClockNat DEF MarkSeenFails, SaveFails, NotMarked
<1>13b. ASSUME NEW d \in Nodes, Rejoin(d)
     PROVE  TypeOK'
  <2>1. seenAt' \in [Nodes -> Nat] /\ looked' \in [Nodes -> SUBSET Ids]
    BY <1>13b DEF Rejoin
  <2>2. seenFile' \in [Nodes -> Nat \cup {None}]
    <3>1. [seenFile EXCEPT ![d] = 0] \in [Nodes -> Nat \cup {None}]
      OBVIOUS
    <3>2. [seenFile EXCEPT ![d] = None] \in [Nodes -> Nat \cup {None}]
      OBVIOUS
    <3>3. \/ seenFile' = [seenFile EXCEPT ![d] = 0] \/ seenFile' = seenFile
          \/ seenFile' = [seenFile EXCEPT ![d] = None]
      BY <1>13b DEF Rejoin, SaveFails
    <3> QED BY <3>1, <3>2, <3>3
  <2> QED BY <1>13b, <2>1, <2>2 DEF Rejoin
<1>14. ASSUME NEW d \in Nodes, Connect(d)
     PROVE  TypeOK'
  BY <1>14 DEF Connect, Times
<1>15. ASSUME NEW d \in Nodes, Disconnect(d)
     PROVE  TypeOK'
  BY <1>15 DEF Disconnect, Times
<1>16. ASSUME NEW d \in Nodes, Restart(d)
     PROVE  TypeOK'
  BY <1>16 DEF Restart, Times
<1>17. CASE Tick
  BY <1>17, SharesAssumption DEF Tick, Times
<1>18. CASE UNCHANGED vars
  BY <1>18 DEF vars, Times
<1>19. QED
  BY <1>1, <1>2, <1>3, <1>4, <1>5, <1>6, <1>7, <1>8, <1>9, <1>10, <1>11, <1>12, <1>13, <1>13a, <1>13b, <1>14, <1>15, <1>16, <1>17, <1>18, SharesAssumption DEF Next, Create, Sync, Pin, Download
-----------------------------------------------------------------------------
(* What no step takes back.                                                *)

\* Stores and docs only grow, and a published record stays.
LEMMA Grows ==
  ASSUME TypeOK, DraftsInStore, [Next]_vars
  PROVE  /\ \A d \in Nodes : /\ blobs[d] \subseteq blobs'[d]
                             /\ entries[d] \subseteq entries'[d]
                             /\ content[d] \subseteq content'[d]
         /\ \A id \in Ids : record[id] # None => record'[id] = record[id]
<1> DEFINE Goal == /\ \A d \in Nodes : /\ blobs[d] \subseteq blobs'[d]
                                       /\ entries[d] \subseteq entries'[d]
                                       /\ content[d] \subseteq content'[d]
                   /\ \A id \in Ids : record[id] # None => record'[id] = record[id]
<1> USE DEF TypeOK
<1>1. ASSUME NEW id \in Ids, AddBlob(id) PROVE Goal
  BY <1>1 DEF AddBlob
<1>2. ASSUME NEW id \in Ids, Publish(id) PROVE Goal
  <2>1. record[id] = None
    BY <1>2 DEF Publish, DraftsInStore
  <2> QED BY <1>2, <2>1 DEF Publish
<1>3. ASSUME NEW d \in Nodes, NEW e \in Nodes, NEW id \in Ids, SyncEntry(d, e, id) PROVE Goal
  BY <1>3 DEF SyncEntry
<1>4. ASSUME NEW d \in Nodes, NEW e \in Nodes, NEW id \in Ids, SyncContent(d, e, id) PROVE Goal
  BY <1>4 DEF SyncContent, log
<1>5. ASSUME NEW d \in Nodes, NEW id \in Ids, NEW i \in DOMAIN Items[id], PinItem(d, id, i)
      PROVE  Goal
  BY <1>5 DEF PinItem, log
<1>6. ASSUME NEW d \in Nodes, NEW id \in Ids, NEW i \in DOMAIN Items[id], ReadItem(d, id, i)
      PROVE  Goal
  BY <1>6 DEF ReadItem, log
<1>7. ASSUME NEW d \in Nodes, NEW id \in Ids, DownloadItem(d, id) PROVE Goal
  BY <1>7 DEF DownloadItem, log
<1>8. CASE UNCHANGED <<record, entries, content, blobs>>
  BY <1>8
<1>9. ASSUME NEW d \in Nodes, \/ Poll(d) \/ MarkSeen(d) \/ MarkSeenFails(d) \/ Rejoin(d)
                              \/ Connect(d) \/ Disconnect(d) \/ Restart(d)
      PROVE  Goal
  BY <1>9, <1>8 DEF Poll, MarkSeen, MarkSeenFails, Rejoin, Connect, Disconnect, Restart, log
<1>10. ASSUME NEW d \in Nodes, NEW id \in Ids,
              \/ StartCreate(d, id) \/ CreateFails(id)
              \/ StartDownload(d, id)
       PROVE  Goal
  BY <1>10, <1>8 DEF StartCreate, CreateFails, StartDownload, log
<1>11. ASSUME NEW id \in Ids, CreateFails(id) PROVE Goal
  BY <1>11, <1>8 DEF CreateFails
<1>14. ASSUME NEW d \in Nodes, NEW id \in Ids, DownloadFails(d, id) PROVE Goal
  BY <1>14 DEF DownloadFails, log
<1>12. CASE Tick
  BY <1>12, <1>8 DEF Tick, log
<1>13. CASE UNCHANGED vars
  BY <1>13, <1>8 DEF vars
<1> QED
  BY <1>1, <1>2, <1>3, <1>4, <1>5, <1>6, <1>7, <1>9, <1>10, <1>11, <1>12, <1>13, <1>14,
     SharesAssumption DEF Next, Create, Sync, Pin, Download

-----------------------------------------------------------------------------
(* Each part of the invariant is kept by every step.                       *)

\* Creates at work: what they counted is in the store.
LEMMA StepDrafts ==
  ASSUME ShareInv, [Next]_vars
  PROVE  DraftsInStore'
<1> USE DEF ShareInv
<1>1. \A d \in Nodes : blobs[d] \subseteq blobs'[d]
  BY Grows
<1>2. ASSUME UNCHANGED <<draft, record>> PROVE DraftsInStore'
  <2>1. \A id \in Ids : draft[id] # None => draft[id].node \in Nodes
    BY DEF TypeOK, Drafts
  <2> QED BY <1>1, <1>2, <2>1 DEF DraftsInStore
<1>3. ASSUME NEW d \in Nodes, NEW id \in Ids, StartCreate(d, id) PROVE DraftsInStore'
  BY <1>3, ItemsType DEF StartCreate, Unused, DraftsInStore, TypeOK
<1>4. ASSUME NEW id \in Ids, AddBlob(id) PROVE DraftsInStore'
  <2> SUFFICES ASSUME NEW x \in Ids, draft'[x] # None
               PROVE  /\ record'[x] = None
                      /\ draft'[x].added <= Len(Items[x])
                      /\ \A i \in 1..draft'[x].added : Items[x][i] \in blobs'[draft'[x].node]
    BY DEF DraftsInStore
  <2>1. /\ draft[id] \in Drafts /\ draft[id].node \in Nodes /\ draft[id].added \in Nat
        /\ Len(Items[id]) \in Nat
    BY <1>4, ItemsType DEF AddBlob, TypeOK, Drafts
  <2>2. CASE x = id
    <3>1. draft'[id].node = draft[id].node /\ draft'[id].added = draft[id].added + 1
      BY <1>4, <2>1 DEF AddBlob, TypeOK, Drafts
    <3>2. Items[id][draft[id].added + 1] \in blobs'[draft[id].node]
      BY <1>4, <2>1 DEF AddBlob, TypeOK
    <3>3. \A i \in 1..draft[id].added : Items[id][i] \in blobs'[draft[id].node]
      BY <1>1, <1>4, <2>1 DEF AddBlob, DraftsInStore
    <3>4. record'[id] = None
      BY <1>4 DEF AddBlob, DraftsInStore
    <3>5. draft[id].added + 1 <= Len(Items[id])
      BY <1>4, <2>1 DEF AddBlob
    <3>6. \A i \in 1..(draft[id].added + 1) : i \in 1..draft[id].added \/ i = draft[id].added + 1
      BY <2>1
    <3> QED BY <2>2, <3>1, <3>2, <3>3, <3>4, <3>5, <3>6
  <2>3. CASE x # id
    <3>1. draft'[x] = draft[x] /\ record'[x] = record[x]
      BY <1>4, <2>3 DEF AddBlob, TypeOK
    <3>2. draft[x].node \in Nodes
      BY <3>1 DEF TypeOK, Drafts
    <3> QED BY <1>1, <3>1, <3>2 DEF DraftsInStore
  <2> QED BY <2>2, <2>3
<1>5. ASSUME NEW id \in Ids, Publish(id) PROVE DraftsInStore'
  BY <1>5 DEF Publish, DraftsInStore, TypeOK
<1>6. ASSUME NEW id \in Ids, CreateFails(id) PROVE DraftsInStore'
  BY <1>6 DEF CreateFails, DraftsInStore, TypeOK
<1>7. ASSUME NEW d \in Nodes, Restart(d) PROVE DraftsInStore'
  BY <1>7 DEF Restart, DraftsInStore, TypeOK
<1>8. QED
  <2>1. \/ \E d \in Nodes, id \in Ids : StartCreate(d, id)
        \/ \E id \in Ids : AddBlob(id) \/ Publish(id) \/ CreateFails(id)
        \/ \E d \in Nodes : Restart(d)
        \/ UNCHANGED <<draft, record>>
    BY SharesAssumption DEF Next, Create, Sync, Pin, Download, SyncEntry, SyncContent,
       Poll, MarkSeen, MarkSeenFails, Rejoin, PinItem, ReadItem, StartDownload, DownloadItem, DownloadFails,
       Connect, Disconnect, Tick, vars, log
  <2> QED BY <2>1, <1>2, <1>3, <1>4, <1>5, <1>6, <1>7

\* Published shares: whoever has the entry, the author has all of it.
LEMMA StepRecoverable ==
  ASSUME ShareInv, [Next]_vars
  PROVE  SharesRecoverable'
<1> USE DEF ShareInv
<1> DEFINE Whole(id) == /\ record[id] # None
                        /\ id \in content[record[id].author]
                        /\ ItemBlobs(id) \subseteq blobs[record[id].author]
<1>1. ASSUME NEW id \in Ids, Whole(id) PROVE Whole(id)'
  <2>1. record'[id] = record[id] /\ record[id].author \in Nodes
    BY <1>1, Grows DEF TypeOK, Records
  <2>2. ItemBlobs(id)' = ItemBlobs(id)
    BY DEF ItemBlobs
  <2>3. /\ blobs[record[id].author] \subseteq blobs'[record[id].author]
        /\ content[record[id].author] \subseteq content'[record[id].author]
    BY <2>1, Grows
  <2> QED BY <1>1, <2>1, <2>2, <2>3
<1>2. \A d \in Nodes : \A id \in entries[d] : id \in Ids /\ Whole(id)
  BY DEF SharesRecoverable, TypeOK
<1>3. CASE UNCHANGED entries
  <2> SUFFICES ASSUME NEW d \in Nodes, NEW id \in entries[d] PROVE Whole(id)'
    BY <1>3 DEF SharesRecoverable
  <2> QED BY <1>1, <1>2
<1>4. ASSUME NEW id \in Ids, Publish(id) PROVE SharesRecoverable'
  <2> DEFINE a == draft[id].node
  <2>1. a \in Nodes /\ draft[id].added = Len(Items[id])
    BY <1>4 DEF Publish, AllAdded, TypeOK, Drafts
  <2>2. record' = [record EXCEPT ![id] = [author |-> a, at |-> Clock(a)]]
    BY <1>4 DEF Publish
  <2>3. None # [author |-> a, at |-> Clock(a)]
    BY <2>1, SharesAssumption, ClockNat DEF TypeOK
  <2>4. record'[id] # None /\ record'[id].author = a
    BY <2>2, <2>3 DEF TypeOK
  <2>5. id \in content'[a]
    BY <1>4, <2>1 DEF Publish, TypeOK
  <2>6. ItemBlobs(id) \subseteq blobs[a]
    <3>1. \A i \in 1..Len(Items[id]) : Items[id][i] \in blobs[a]
      BY <1>4, <2>1 DEF Publish, DraftsInStore
    <3> QED BY <3>1, ItemsType
  <2>7. ItemBlobs(id)' \subseteq blobs'[a]
    BY <1>4, <2>6 DEF Publish, ItemBlobs
  <2>8. Whole(id)'
    BY <2>4, <2>5, <2>7
  <2> SUFFICES ASSUME NEW d \in Nodes, NEW x \in entries'[d] PROVE Whole(x)'
    BY DEF SharesRecoverable
  <2>9. x = id \/ x \in entries[d]
    BY <1>4 DEF Publish, TypeOK
  <2> QED BY <1>1, <1>2, <2>8, <2>9
<1>5. ASSUME NEW d \in Nodes, NEW e \in Nodes, NEW id \in Ids, SyncEntry(d, e, id)
      PROVE  SharesRecoverable'
  <2>1. Whole(id)
    BY <1>2, <1>5 DEF SyncEntry
  <2> SUFFICES ASSUME NEW n \in Nodes, NEW x \in entries'[n] PROVE Whole(x)'
    BY DEF SharesRecoverable
  <2>2. x = id \/ x \in entries[n]
    BY <1>5 DEF SyncEntry, TypeOK
  <2> QED BY <1>1, <1>2, <2>1, <2>2
<1>6. QED
  <2>1. \/ \E id \in Ids : Publish(id)
        \/ \E d \in Nodes, e \in Nodes, id \in Ids : SyncEntry(d, e, id)
        \/ UNCHANGED entries
    BY SharesAssumption DEF Next, Create, Sync, Pin, Download, StartCreate, AddBlob,
       CreateFails, SyncContent, Poll, MarkSeen, MarkSeenFails, Rejoin, PinItem, ReadItem, StartDownload,
       DownloadItem, DownloadFails, Connect, Disconnect, Restart, Tick, vars, log
  <2> QED BY <2>1, <1>3, <1>4, <1>5

\* Downloads: the items before the one at work are written and in the store.
LEMMA StepDownloads ==
  ASSUME ShareInv, [Next]_vars
  PROVE  DownloadsInOrder'
<1> USE DEF ShareInv
<1>1. \A d \in Nodes : blobs[d] \subseteq blobs'[d]
  BY Grows
<1>2. ASSUME UNCHANGED <<load, files>> PROVE DownloadsInOrder'
  BY <1>1, <1>2 DEF DownloadsInOrder
<1>3. ASSUME NEW d \in Nodes, NEW id \in Ids, StartDownload(d, id) PROVE DownloadsInOrder'
  <2> SUFFICES ASSUME NEW n \in Nodes, NEW x \in Ids, load'[n][x] # 0
               PROVE  /\ load'[n][x] <= Len(Items[x]) + 1
                      /\ files'[n][x] = 1..(load'[n][x] - 1)
                      /\ \A i \in files'[n][x] : Items[x][i] \in blobs'[n]
    BY DEF DownloadsInOrder
  <2>1. CASE n = d /\ x = id
    <3>1. load'[n][x] = 1 /\ files'[n][x] = {}
      BY <1>3, <2>1 DEF StartDownload, TypeOK
    <3> QED BY <3>1, ItemsType
  <2>2. CASE ~(n = d /\ x = id)
    <3>1. load'[n][x] = load[n][x] /\ files'[n][x] = files[n][x]
      BY <1>3, <2>2 DEF StartDownload, TypeOK
    <3> QED BY <1>1, <3>1 DEF DownloadsInOrder
  <2> QED BY <2>1, <2>2
<1>4. ASSUME NEW d \in Nodes, NEW id \in Ids, DownloadItem(d, id) PROVE DownloadsInOrder'
  <2> SUFFICES ASSUME NEW n \in Nodes, NEW x \in Ids, load'[n][x] # 0
               PROVE  /\ load'[n][x] <= Len(Items[x]) + 1
                      /\ files'[n][x] = 1..(load'[n][x] - 1)
                      /\ \A i \in files'[n][x] : Items[x][i] \in blobs'[n]
    BY DEF DownloadsInOrder
  <2>1. CASE n = d /\ x = id
    <3> DEFINE k == load[d][id]
    <3>1. k \in 1..Len(Items[id]) /\ Len(Items[id]) \in Nat
      BY <1>4, ItemsType DEF DownloadItem, Loading
    <3>2. load'[d][id] = k + 1 /\ files'[d][id] = files[d][id] \cup {k}
      BY <1>4 DEF DownloadItem, TypeOK
    <3>3. files[d][id] = 1..(k - 1) /\ \A i \in files[d][id] : Items[id][i] \in blobs[d]
      BY <3>1 DEF DownloadsInOrder
    <3>4. Items[id][k] \in blobs'[d]
      BY <1>4 DEF DownloadItem, TypeOK
    <3>5. (1..(k - 1)) \cup {k} = 1..((k + 1) - 1)
      BY <3>1
    <3> HIDE DEF k
    <3> QED BY <1>1, <2>1, <3>1, <3>2, <3>3, <3>4, <3>5
  <2>2. CASE ~(n = d /\ x = id)
    <3>1. load'[n][x] = load[n][x] /\ files'[n][x] = files[n][x]
      BY <1>4, <2>2 DEF DownloadItem, TypeOK
    <3> QED BY <1>1, <3>1 DEF DownloadsInOrder
  <2> QED BY <2>1, <2>2
<1>5. ASSUME NEW d \in Nodes, NEW id \in Ids, DownloadFails(d, id) PROVE DownloadsInOrder'
  BY <1>1, <1>5 DEF DownloadFails, GiveUp, DownloadsInOrder, TypeOK
<1>6. ASSUME NEW d \in Nodes, Restart(d) PROVE DownloadsInOrder'
  BY <1>1, <1>6 DEF Restart, DownloadsInOrder, TypeOK
<1>7. QED
  <2>1. \/ \E d \in Nodes, id \in Ids :
             StartDownload(d, id) \/ DownloadItem(d, id) \/ DownloadFails(d, id)
        \/ \E d \in Nodes : Restart(d)
        \/ UNCHANGED <<load, files>>
    BY SharesAssumption DEF Next, Create, Sync, Pin, Download, StartCreate, AddBlob, Publish,
       CreateFails, SyncEntry, SyncContent, Poll, MarkSeen, MarkSeenFails, Rejoin, PinItem, ReadItem,
       Connect, Disconnect, Tick, vars, log, tasks
  <2> QED BY <2>1, <1>2, <1>3, <1>4, <1>5, <1>6

\* The inductive invariant holds at first and through every step.
LEMMA ShareInvariant == Spec => []ShareInv
<1>1. Init => ShareInv
  BY InitTypes DEF Init, ShareInv, DraftsInStore, SharesRecoverable, DownloadsInOrder
<1>2. ShareInv /\ [Next]_vars => ShareInv'
  BY StepTypes, StepDrafts, StepRecoverable, StepDownloads DEF ShareInv
<1> QED BY <1>1, <1>2, PTL DEF Spec

\* Stamps: a seen share is not later than the last look, if the author's clock is
\* not ahead.
LEMMA StepSeen ==
  ASSUME ShareInv, SeenInOrder, [Next]_vars
  PROVE  SeenInOrder'
<1> USE DEF ShareInv
<1>1. /\ now \in Nat /\ now' \in Nat /\ now <= now' /\ Skew \in [Nodes -> Nat]
      /\ \A d \in Nodes : Clock(d) \in Nat /\ Clock(d)' \in Nat /\ Clock(d) <= Clock(d)'
  <2>1. now \in Nat /\ now' \in Nat
    BY StepTypes DEF TypeOK, Times
  <2>2. now <= now'
    BY <2>1 DEF Next, Create, Sync, Pin, Download, StartCreate, AddBlob, Publish, CreateFails,
       SyncEntry, SyncContent, Poll, MarkSeen, MarkSeenFails, Rejoin, PinItem, ReadItem,
       StartDownload, DownloadItem, DownloadFails, Connect, Disconnect, Restart, Tick, vars
  <2>3. Skew \in [Nodes -> Nat]
    BY SharesAssumption
  <2> QED BY <2>1, <2>2, <2>3 DEF Clock
<1>2. \A id \in Ids : record[id] # None => record[id].author \in Nodes /\ record[id].at \in Nat
  BY DEF TypeOK, Records, Stamps
<1>3. /\ \A d \in Nodes : seenAt[d] \in Nat /\ listed[d] \subseteq Ids /\ looked[d] \subseteq Ids
      /\ None \notin Nat
  BY SharesAssumption DEF TypeOK
<1> DEFINE Taken == \A id \in Ids : record[id] # None => record[id].at <= Clock(record[id].author)
           Shown == \A d \in Nodes : \A id \in listed[d] : record[id] # None
           Marked(d, id) == /\ record[id] # None
                            /\ Behind(record[id].at, seenAt[d], Lead(d, id))
                            /\ Behind(record[id].at, seenFile[d], Lead(d, id))
           Kept == \A d \in Nodes : \A id \in looked[d] : Marked(d, id)
<1>4. ASSUME UNCHANGED record PROVE Taken'
  <2>1. \A x, y, z \in Nat : x <= y /\ y <= z => x <= z
    OBVIOUS
  <2> QED BY <1>1, <1>2, <1>4, <2>1 DEF SeenInOrder
<1>5. ASSUME UNCHANGED <<record, listed>> PROVE Shown'
  BY <1>5 DEF SeenInOrder
<1>6. ASSUME UNCHANGED <<record, marks>> PROVE Kept'
  BY <1>6 DEF SeenInOrder, Behind, Lead, marks
<1>7. ASSUME Taken', Shown', Kept' PROVE SeenInOrder'
  BY <1>7 DEF SeenInOrder
<1> HIDE DEF Taken, Shown, Kept
<1>8. ASSUME NEW id \in Ids, Publish(id) PROVE SeenInOrder'
  <2> DEFINE a == draft[id].node
  <2>1. a \in Nodes /\ record[id] = None
    BY <1>8 DEF Publish, DraftsInStore, TypeOK, Drafts
  <2>2. /\ record' = [record EXCEPT ![id] = [author |-> a, at |-> Clock(a)]]
        /\ seenAt' = seenAt /\ seenFile' = seenFile /\ listed' = listed /\ looked' = looked
        /\ now' = now
    BY <1>8 DEF Publish, inbox, marks
  <2>3. \A x \in Ids : x # id => record'[x] = record[x]
    BY <2>2 DEF TypeOK
  <2>4. record'[id].author = a /\ record'[id].at = Clock(a)
    BY <2>2 DEF TypeOK
  <2>5. \A d \in Nodes : Clock(d)' = Clock(d)
    BY <2>2 DEF Clock
  <2>6. Taken'
    <3> SUFFICES ASSUME NEW x \in Ids, record'[x] # None
                 PROVE  record'[x].at <= Clock(record[x].author)'
      BY DEF Taken
    <3>1. CASE x = id
      BY <1>1, <2>1, <2>4, <2>5, <3>1
    <3>2. CASE x # id
      BY <1>2, <2>3, <2>5, <3>2 DEF SeenInOrder
    <3> QED BY <3>1, <3>2
  <2>7. Shown'
    BY <1>3, <2>1, <2>2, <2>3 DEF SeenInOrder, Shown
  <2>8. Kept'
    <3> SUFFICES ASSUME NEW d \in Nodes, NEW x \in looked[d] PROVE Marked(d, x)'
      BY <2>2 DEF Kept
    <3>1. x \in Ids /\ record[x] # None
      BY <1>3 DEF SeenInOrder
    <3>2. record'[x] = record[x]
      BY <2>1, <2>3, <3>1
    <3> QED BY <2>2, <3>1, <3>2 DEF SeenInOrder, Behind, Lead
  <2> QED BY <1>7, <2>6, <2>7, <2>8
<1>9. ASSUME NEW d \in Nodes, Poll(d) PROVE SeenInOrder'
  <2>1. \A id \in entries[d] : record[id] # None
    BY DEF SharesRecoverable
  <2>2. /\ record' = record /\ UNCHANGED marks
        /\ \A n \in Nodes : listed'[n] = IF n = d THEN entries[d] ELSE listed[n]
    BY <1>9 DEF Poll, log, TypeOK
  <2>3. Shown'
    BY <2>1, <2>2 DEF SeenInOrder, Shown
  <2> QED BY <1>4, <1>6, <1>7, <2>2, <2>3
<1>10. ASSUME NEW d \in Nodes, MarkSeen(d) PROVE SeenInOrder'
  <2>1. /\ record' = record /\ listed' = listed
        /\ \A n \in Nodes : /\ seenAt'[n] = IF n = d THEN Clock(d) ELSE seenAt[n]
                            /\ seenFile'[n] = IF n = d THEN Clock(d) ELSE seenFile[n]
                            /\ looked'[n] = IF n = d THEN looked[d] \cup listed[d] ELSE looked[n]
    BY <1>10 DEF MarkSeen, log, TypeOK
  <2>2. Kept'
    <3> SUFFICES ASSUME NEW n \in Nodes, NEW id \in looked'[n] PROVE Marked(n, id)'
      BY DEF Kept
    <3>1. CASE n # d
      BY <2>1, <3>1 DEF SeenInOrder, Behind, Lead
    <3>2. CASE n = d
      <4>1. id \in Ids /\ record[id] # None
        BY <1>3, <2>1, <3>2 DEF SeenInOrder
      <4>2. Lead(d, id) \/ record[id].at <= Clock(d)
        <5>1. record[id].at <= Clock(record[id].author) /\ record[id].author \in Nodes
              /\ record[id].at \in Nat
          BY <1>2, <4>1 DEF SeenInOrder
        <5>2. /\ Clock(d) = now + Skew[d] /\ Clock(record[id].author) = now + Skew[record[id].author]
              /\ Skew[d] \in Nat /\ Skew[record[id].author] \in Nat
          BY <1>1, <5>1 DEF Clock
        <5> QED BY <1>1, <5>1, <5>2 DEF Lead
      <4>3. Lead(d, id)' = Lead(d, id)
        BY <2>1 DEF Lead
      <4> QED BY <2>1, <3>2, <4>1, <4>2, <4>3 DEF Behind
    <3> QED BY <3>1, <3>2
  <2> QED BY <1>4, <1>5, <1>7, <2>1, <2>2
<1>11. ASSUME NEW d \in Nodes, MarkSeenFails(d) PROVE SeenInOrder'
  <2>1. /\ record' = record /\ listed' = listed /\ looked' = looked
        /\ \A n \in Nodes : /\ seenAt'[n] = IF n = d THEN Clock(d) ELSE seenAt[n]
                            /\ seenFile'[n] \in {seenFile[n], None}
    BY <1>11 DEF MarkSeenFails, NotMarked, SaveFails, log, TypeOK
  <2>2. Kept'
    <3> SUFFICES ASSUME NEW n \in Nodes, NEW id \in looked[n] PROVE Marked(n, id)'
      BY <2>1 DEF Kept
    <3>1. Lead(n, id)' = Lead(n, id)
      BY <2>1 DEF Lead
    <3>2. Marked(n, id) /\ id \in Ids
      BY <1>3 DEF SeenInOrder
    <3>3. Behind(record[id].at, seenFile'[n], Lead(n, id))
      BY <2>1, <3>2 DEF Behind
    <3>4. Behind(record[id].at, seenAt'[n], Lead(n, id))
      <4>1. CASE n # d
        BY <2>1, <3>2, <4>1
      <4>2. CASE n = d
        <5>1. record[id].at <= Clock(record[id].author) /\ record[id].author \in Nodes
              /\ record[id].at \in Nat
          BY <1>2, <3>2 DEF SeenInOrder
        <5>2. /\ Clock(d) = now + Skew[d] /\ Clock(record[id].author) = now + Skew[record[id].author]
              /\ Skew[d] \in Nat /\ Skew[record[id].author] \in Nat
          BY <1>1, <5>1 DEF Clock
        <5>3. Lead(d, id) \/ record[id].at <= Clock(d)
          BY <1>1, <5>1, <5>2 DEF Lead
        <5>4. seenAt'[n] = Clock(d)
          BY <2>1, <4>2
        <5> QED BY <4>2, <5>3, <5>4 DEF Behind
      <4> QED BY <4>1, <4>2
    <3> QED BY <2>1, <3>1, <3>2, <3>3, <3>4
  <2> QED BY <1>4, <1>5, <1>7, <2>1, <2>2
<1>12. ASSUME NEW d \in Nodes, Rejoin(d) PROVE SeenInOrder'
  <2>1. /\ record' = record /\ listed' = listed
        /\ \A n \in Nodes : /\ looked'[n] = IF n = d THEN {} ELSE looked[n]
                            /\ n # d => seenAt'[n] = seenAt[n] /\ seenFile'[n] = seenFile[n]
    BY <1>12 DEF Rejoin, SaveFails, log, TypeOK
  <2>2. Kept'
    BY <2>1 DEF Kept, SeenInOrder, Behind, Lead
  <2> QED BY <1>4, <1>5, <1>7, <2>1, <2>2
<1>13. ASSUME NEW d \in Nodes, Restart(d) PROVE SeenInOrder'
  <2>1. /\ record' = record /\ looked' = looked /\ seenFile' = seenFile
        /\ \A n \in Nodes : /\ listed'[n] = IF n = d THEN {} ELSE listed[n]
                            /\ seenAt'[n] = IF n = d THEN seenFile[n] ELSE seenAt[n]
    BY <1>13 DEF Restart, TypeOK
  <2>2. Shown'
    BY <2>1 DEF Shown, SeenInOrder
  <2>3. Kept'
    <3> SUFFICES ASSUME NEW n \in Nodes, NEW id \in looked[n] PROVE Marked(n, id)'
      BY <2>1 DEF Kept
    <3>1. Lead(n, id)' = Lead(n, id) /\ Marked(n, id)
      BY <2>1 DEF Lead, SeenInOrder
    <3>2. seenAt'[n] = seenFile[n] \/ seenAt'[n] = seenAt[n]
      BY <2>1
    <3> QED BY <2>1, <3>1, <3>2
  <2> QED BY <1>4, <1>7, <2>1, <2>2, <2>3
<1>14. QED
  <2>1. \/ \E id \in Ids : Publish(id)
        \/ \E d \in Nodes : \/ Poll(d) \/ MarkSeen(d) \/ MarkSeenFails(d) \/ Rejoin(d)
                            \/ Restart(d)
        \/ UNCHANGED <<record, inbox>>
    BY SharesAssumption DEF Next, Create, Sync, Pin, Download, StartCreate, AddBlob,
       CreateFails, SyncEntry, SyncContent, PinItem, ReadItem, StartDownload,
       DownloadItem, DownloadFails, Connect, Disconnect, Tick, vars, log, inbox, marks
  <2>2. ASSUME UNCHANGED <<record, inbox>> PROVE SeenInOrder'
    BY <1>4, <1>5, <1>6, <1>7, <2>2 DEF inbox
  <2> QED BY <2>1, <2>2, <1>8, <1>9, <1>10, <1>11, <1>12, <1>13

-----------------------------------------------------------------------------
\* The variables keep their types: shmark's nodes only hold what they can hold.
THEOREM SharesTypeCorrect == Spec => []TypeOK
BY ShareInvariant, PTL DEF ShareInv

\* An entry anybody holds can be read from its author: create adds every blob
\* before publish_record writes the entry.
THEOREM NoShareDangles == Spec => []SharesRecoverable
BY ShareInvariant, PTL DEF ShareInv

\* download returns Ok only when every item is written and local.
THEOREM DownloadsAreWhole == Spec => []DownloadedWhole
<1>1. ShareInv => DownloadedWhole
  <2> SUFFICES ASSUME ShareInv, NEW d \in Nodes, NEW id \in Ids, Downloaded(d, id)
               PROVE  files[d][id] = DOMAIN Items[id] /\ AllLocal(d, id)
    BY DEF DownloadedWhole
  <2>1. load[d][id] = Len(Items[id]) + 1
    <3>1. load[d][id] \in Nat /\ Len(Items[id]) \in Nat
      BY ItemsType DEF ShareInv, TypeOK
    <3>2. load[d][id] <= Len(Items[id]) + 1 /\ load[d][id] > Len(Items[id])
      BY <3>1 DEF ShareInv, DownloadsInOrder, Downloaded
    <3> QED BY <3>1, <3>2
  <2>2. files[d][id] = 1..Len(Items[id])
        /\ \A i \in 1..Len(Items[id]) : Items[id][i] \in blobs[d]
    BY <2>1, ItemsType DEF ShareInv, DownloadsInOrder
  <2> QED BY <2>2, ItemsType DEF AllLocal
<1> QED BY <1>1, ShareInvariant, PTL

\* What was shown when a mark was saved never turns unread again, whatever the
\* skews, unless its author's clock is ahead of the reader's.
THEOREM SeenStaysSeen == Spec => []ReadStaysRead
<1>1. Init => SeenInOrder
  BY DEF Init, SeenInOrder
<1>2. ShareInv /\ SeenInOrder /\ [Next]_vars => SeenInOrder'
  BY StepSeen
<1>3. ShareInv /\ SeenInOrder => ReadStaysRead
  <2> SUFFICES ASSUME ShareInv, SeenInOrder, NEW d \in Nodes, NEW id \in Unread(d),
                      id \in looked[d]
               PROVE  Lead(d, id)
    BY DEF ReadStaysRead, Lead
  <2>1. id \in Ids /\ record[id] # None /\ Behind(record[id].at, seenAt[d], Lead(d, id))
    BY DEF ShareInv, TypeOK, SeenInOrder
  <2>2. record[id].at \in Nat /\ seenAt[d] \in Nat /\ None \notin Nat
    BY <2>1, SharesAssumption DEF ShareInv, TypeOK, Records, Stamps
  <2>3. record[id].at > seenAt[d]
    BY DEF Unread, After
  <2> QED BY <2>1, <2>2, <2>3 DEF Behind
<1> QED BY <1>1, <1>2, <1>3, ShareInvariant, PTL DEF Spec

\* The docs of the members, together, implement the append-only log.
THEOREM ImplementsLog == Spec => AppendOnly
<1>1. Init => Log!Init
  BY DEF Init, Log!Init
<1>2. ShareInv /\ [Next]_vars => [Log!Next]_<<record, entries>>
  <2> SUFFICES ASSUME ShareInv, [Next]_vars
               PROVE  Log!Next \/ UNCHANGED <<record, entries>>
    OBVIOUS
  <2>1. ASSUME NEW id \in Ids, Publish(id) PROVE Log!Next
    <3> DEFINE a == draft[id].node
    <3>1. a \in Nodes /\ record[id] = None
      BY <2>1 DEF Publish, ShareInv, DraftsInStore, TypeOK, Drafts
    <3>2. /\ record' = [record EXCEPT ![id] = [author |-> a, at |-> Clock(a)]]
          /\ entries' = [entries EXCEPT ![a] = @ \cup {id}]
      BY <2>1 DEF Publish
    <3>3. record'[id] = [author |-> a, at |-> Clock(a)] /\ record'[id] # None
      BY <3>1, <3>2, SharesAssumption, ClockNat DEF ShareInv, TypeOK
    <3>4. Log!Publish(a, id, record'[id])
      BY <3>1, <3>2, <3>3 DEF Log!Publish
    <3> HIDE DEF a
    <3> QED BY <3>1, <3>4 DEF Log!Next
  <2>2. ASSUME NEW d \in Nodes, NEW e \in Nodes, NEW id \in Ids, SyncEntry(d, e, id)
        PROVE  Log!Next
    <3>1. Log!Replicate(d, e, id)
      BY <2>2 DEF SyncEntry, Log!Replicate
    <3> QED BY <3>1 DEF Log!Next
  <2>3. \/ \E id \in Ids : Publish(id)
        \/ \E d \in Nodes, e \in Nodes, id \in Ids : SyncEntry(d, e, id)
        \/ UNCHANGED <<record, entries>>
    BY SharesAssumption DEF Next, Create, Sync, Pin, Download, StartCreate, AddBlob,
       CreateFails, SyncContent, Poll, MarkSeen, MarkSeenFails, Rejoin, PinItem, ReadItem, StartDownload,
       DownloadItem, DownloadFails, Connect, Disconnect, Restart, Tick, vars, log
  <2> QED BY <2>1, <2>2, <2>3
<1> QED BY <1>1, <1>2, ShareInvariant, PTL DEF Spec, AppendOnly, Log!Spec

=============================================================================
