------------------------------- MODULE Shares ------------------------------
(***************************************************************************)
(* The shares of one group (shmark-core/src/shares.rs and the share        *)
(* handlers of dispatch.rs) on the nodes of its members.  iroh-docs        *)
(* replicates the entries of the group's doc and, separately, the content  *)
(* each entry points to; the blobs of the items are fetched by shmark.     *)
(* Every member is another person: its identity is named by its node.      *)
(***************************************************************************)
EXTENDS Naturals, Sequences

CONSTANTS
  Nodes, Ids, Blobs,
  Items,     \* the items of each share, by the blob each one needs
  Skew,      \* how far the clock of each node runs ahead
  Sharers, Readers, Downloaders,   \* bounds: who shares, polls the UI, downloads
  MaxTime,   \* bound of the clock
  None

Times == 0..MaxTime
Stamps == Nat
Records == [author : Nodes, at : Stamps]
Drafts == [node : Nodes, added : Nat]

ASSUME SharesAssumption ==
  /\ Items \in [Ids -> Seq(Blobs)] /\ \A id \in Ids : Items[id] # <<>>
  /\ Skew \in [Nodes -> Nat] /\ MaxTime \in Nat
  /\ Sharers \cup Readers \cup Downloaders \subseteq Nodes
  /\ \A n \in Nodes, at \in Times : None # [author |-> n, at |-> at + Skew[n]]
  /\ None \notin Nat

VARIABLES
  now,
  online,    \* node -> whether other nodes reach it
  draft,     \* share id -> the create() at work on it: its node, blobs added so far
  record,    \* share id -> the ShareRecord published under it
  entries,   \* node -> doc entries it has
  content,   \* node -> entries whose content (the ShareRecord) is in its blob store
  blobs,     \* node -> item blobs in its store
  pin,       \* node -> share id -> the items its auto_pin tasks are at
  load,      \* node -> share id -> item its download is at, 0 when none runs, past
             \* the last item when it returned Ok
  files,     \* node -> share id -> the items its latest download exported
  seenAt,    \* node -> last_seen_at of the group, in memory
  seenFile,  \* node -> last_seen_at in its groups.json, None when that is torn
  listed,    \* node -> the shares its user was last shown
  looked     \* node -> the shares shown when a mark_seen returned Ok, since the
             \* group was last joined

vars == <<now, online, draft, record, entries, content, blobs, pin, load, files,
          seenAt, seenFile, listed, looked>>
log == <<draft, record, entries>>
tasks == <<pin, load, files>>
marks == <<seenAt, seenFile, looked>>
inbox == <<marks, listed>>

Init ==
  /\ now = 0
  /\ online = [d \in Nodes |-> TRUE]
  /\ draft = [id \in Ids |-> None]
  /\ record = [id \in Ids |-> None]
  /\ entries = [d \in Nodes |-> {}]
  /\ content = [d \in Nodes |-> {}]
  /\ blobs = [d \in Nodes |-> {}]
  /\ pin = [d \in Nodes |-> [id \in Ids |-> {}]]
  /\ load = [d \in Nodes |-> [id \in Ids |-> 0]]
  /\ files = [d \in Nodes |-> [id \in Ids |-> {}]]
  /\ seenAt = [d \in Nodes |-> 0]
  /\ seenFile = [d \in Nodes |-> 0]
  /\ listed = [d \in Nodes |-> {}]
  /\ looked = [d \in Nodes |-> {}]

ItemBlobs(id) == {Items[id][i] : i \in DOMAIN Items[id]}

-----------------------------------------------------------------------------
(* Sharing.                                                                *)

\* create: one file, the files of a directory or the body of a URL.
NotAtWork(id) == draft[id] = None
Unused(id) == record[id] = None /\ draft[id] = None

StartCreate(d, id) ==
  /\ Unused(id)
  /\ draft' = [draft EXCEPT ![id] = [node |-> d, added |-> 0]]
  /\ UNCHANGED <<now, online, record, entries, content, blobs, tasks, inbox>>

AddBlob(id) ==
  /\ draft[id] # None
  /\ draft[id].added < Len(Items[id])
  /\ blobs' = [blobs EXCEPT ![draft[id].node] = @ \cup {Items[id][draft[id].added + 1]}]
  /\ draft' = [draft EXCEPT ![id].added = @ + 1]
  /\ UNCHANGED <<now, online, record, entries, content, tasks, inbox>>

AllButOneAdded(id) == draft[id].added + 1 >= Len(Items[id])
AllAdded(id) == draft[id].added = Len(Items[id])

\* now_secs, of the wall clock.
BeforeEpoch(d) == now + Skew[d] - 1
Clock(d) == now + Skew[d]

\* publish_record: the record under a fresh id, in the local doc.
Publish(id) ==
  LET d == draft[id].node IN
  /\ draft[id] # None
  /\ AllAdded(id)
  /\ record' = [record EXCEPT ![id] = [author |-> d, at |-> Clock(d)]]
  /\ entries' = [entries EXCEPT ![d] = @ \cup {id}]
  /\ content' = [content EXCEPT ![d] = @ \cup {id}]
  /\ draft' = [draft EXCEPT ![id] = None]
  /\ UNCHANGED <<now, online, blobs, tasks, inbox>>

\* A file cannot be read, the fetch of a URL fails, the doc cannot be opened or
\* written: `?` gives up, nothing is published, blobs already added stay.
CreateFails(id) ==
  /\ draft[id] # None
  /\ draft' = [draft EXCEPT ![id] = None]
  /\ UNCHANGED <<now, online, record, entries, content, blobs, tasks, inbox>>

-----------------------------------------------------------------------------
(* Replication, by iroh-docs.                                              *)

Connected(d, e) == d # e /\ online[d] /\ online[e]

SyncEntry(d, e, id) ==
  /\ Connected(d, e)
  /\ id \in entries[e] \ entries[d]
  /\ entries' = [entries EXCEPT ![d] = @ \cup {id}]
  /\ UNCHANGED <<now, online, draft, record, content, blobs, tasks, inbox>>

SyncContent(d, e, id) ==
  /\ Connected(d, e)
  /\ id \in (entries[d] \ content[d]) \cap content[e]
  /\ content' = [content EXCEPT ![d] = @ \cup {id}]
  /\ UNCHANGED <<now, online, log, blobs, tasks, inbox>>

-----------------------------------------------------------------------------
(* Reading.                                                                *)

\* Shares::list gives up at the first entry whose content is not here.
Listable(d) == entries[d] \subseteq content[d]

AllLocal(d, id) == ItemBlobs(id) \subseteq blobs[d]

OfOthers(d) == {id \in entries[d] : record[id].author # d}
NewToPin(d, id) == id \in OfOthers(d) \ listed[d] /\ ~AllLocal(d, id)
ToPin(d, id) == id \in OfOthers(d) /\ ~AllLocal(d, id)

\* shares_list, polled by the UI: lists, and spawns auto_pin for the shares of
\* others that miss a blob.
Poll(d) ==
  /\ Listable(d)
  /\ listed' = [listed EXCEPT ![d] = entries[d]]
  /\ pin' = [pin EXCEPT ![d] = [id \in Ids |->
                pin[d][id] \cup IF ToPin(d, id) THEN {1} ELSE {}]]
  /\ UNCHANGED <<now, online, log, content, blobs, load, files, marks>>

\* downloader.download(hash, [author_node]): local blobs succeed at once, others
\* come from the author's node and from nowhere else.
Provider(d, id, blob) ==
  LET a == record[id].author IN Connected(d, a) /\ blob \in blobs[a]
Fetchable(d, id, blob) == blob \in blobs[d] \/ Provider(d, id, blob)

\* auto_pin: an item that cannot be fetched is passed over.
PinItem(d, id, i) ==
  /\ i \in pin[d][id]
  /\ blobs' = [blobs EXCEPT ![d] = @ \cup {b \in {Items[id][i]} : Fetchable(d, id, b)}]
  /\ pin' = [pin EXCEPT ![d][id] = (@ \ {i}) \cup ({i + 1} \cap DOMAIN Items[id])]
  /\ UNCHANGED <<now, online, log, content, load, files, inbox>>

\* share_get_bytes, the preview of one item.
ReadItem(d, id, i) ==
  /\ Listable(d) /\ id \in entries[d]
  /\ Fetchable(d, id, Items[id][i])
  /\ blobs' = [blobs EXCEPT ![d] = @ \cup {Items[id][i]}]
  /\ UNCHANGED <<now, online, log, content, tasks, inbox>>

\* share_download finds the record by listing the group.  One download of a
\* share at a time: the model keeps no destinations apart.
Loading(d, id) == load[d][id] \in DOMAIN Items[id]
Downloaded(d, id) == load[d][id] > Len(Items[id])

StartDownload(d, id) ==
  /\ Listable(d) /\ id \in entries[d]
  /\ ~Loading(d, id)
  /\ load' = [load EXCEPT ![d][id] = 1]
  /\ files' = [files EXCEPT ![d][id] = {}]
  /\ UNCHANGED <<now, online, log, content, blobs, pin, inbox>>

\* One item: download, then export under the destination.
DownloadItem(d, id) ==
  LET blob == Items[id][load[d][id]] IN
  /\ Loading(d, id)
  /\ Fetchable(d, id, blob)
  /\ blobs' = [blobs EXCEPT ![d] = @ \cup {blob}]
  /\ files' = [files EXCEPT ![d][id] = @ \cup {load[d][id]}]
  /\ load' = [load EXCEPT ![d][id] = @ + 1]
  /\ UNCHANGED <<now, online, log, content, pin, inbox>>

\* The first item that cannot be fetched, or cannot be exported once it is in the
\* store, ends the call; the files written stay.
PassOver(d, id) == [load EXCEPT ![d][id] = @ + 1]
GiveUp(d, id) == [load EXCEPT ![d][id] = 0]

DownloadFails(d, id) ==
  LET blob == Items[id][load[d][id]] IN
  /\ Loading(d, id)
  /\ \E got \in SUBSET {blob} :
       /\ got # {} => Fetchable(d, id, blob)
       /\ blobs' = [blobs EXCEPT ![d] = @ \cup got]
  /\ load' = GiveUp(d, id)
  /\ UNCHANGED <<now, online, log, content, pin, files, inbox>>

\* groups_mark_seen, when the user opens the group or one of its shares.
MarkSeen(d) ==
  /\ seenAt' = [seenAt EXCEPT ![d] = Clock(d)]
  /\ seenFile' = [seenFile EXCEPT ![d] = Clock(d)]
  /\ looked' = [looked EXCEPT ![d] = @ \cup listed[d]]
  /\ UNCHANGED <<now, online, log, content, blobs, tasks, listed>>

\* fs::write fails before it truncates groups.json, or after.
SaveFails(d) == seenFile' \in {seenFile, [seenFile EXCEPT ![d] = None]}

\* The save fails: the mark is in memory only and the call returns an error.
Swallowed(d) == [looked EXCEPT ![d] = @ \cup listed[d]]
NotMarked(d) == looked

MarkSeenFails(d) ==
  /\ seenAt' = [seenAt EXCEPT ![d] = Clock(d)]
  /\ SaveFails(d)
  /\ looked' = NotMarked(d)
  /\ UNCHANGED <<now, online, log, content, blobs, tasks, listed>>

\* groups_join and devices_pair_join of a group that is there: upsert puts a new
\* LocalGroup, seen never, in its place.
Rejoin(d) ==
  /\ seenAt' = [seenAt EXCEPT ![d] = 0]
  /\ seenFile' = [seenFile EXCEPT ![d] = 0] \/ SaveFails(d)
  /\ looked' = [looked EXCEPT ![d] = {}]
  /\ UNCHANGED <<now, online, log, content, blobs, tasks, listed>>

\* groups_list: unread shares are those of others later than last_seen_at; a
\* group that cannot be listed counts none.
After(stamp, seen) == stamp > seen
Unread(d) ==
  IF Listable(d)
  THEN {id \in OfOthers(d) : After(record[id].at, seenAt[d])}
  ELSE {}

-----------------------------------------------------------------------------
Connect(d) ==
  /\ ~online[d]
  /\ online' = [online EXCEPT ![d] = TRUE]
  /\ UNCHANGED <<now, log, content, blobs, tasks, inbox>>

Disconnect(d) ==
  /\ online[d]
  /\ online' = [online EXCEPT ![d] = FALSE]
  /\ UNCHANGED <<now, log, content, blobs, tasks, inbox>>

\* The process stops and is started again, to be reached by others later: calls
\* and tasks are gone, docs, blobs and groups.json are on disk.  No boot accepts a
\* torn groups.json.
Restart(d) ==
  /\ seenFile[d] # None
  /\ seenAt' = [seenAt EXCEPT ![d] = seenFile[d]]
  /\ online' = [online EXCEPT ![d] = FALSE]
  /\ draft' = [id \in Ids |-> IF draft[id] # None /\ draft[id].node = d
                              THEN None ELSE draft[id]]
  /\ pin' = [pin EXCEPT ![d] = [id \in Ids |-> {}]]
  /\ load' = [load EXCEPT ![d] = [id \in Ids |-> 0]]
  /\ listed' = [listed EXCEPT ![d] = {}]
  /\ UNCHANGED <<now, record, entries, content, blobs, files, seenFile, looked>>

Tick ==
  /\ now < MaxTime
  /\ now' = now + 1
  /\ UNCHANGED <<online, log, content, blobs, tasks, inbox>>

Create(id) == AddBlob(id) \/ Publish(id) \/ CreateFails(id)

Sync(d) == \E e \in Nodes, id \in Ids : SyncEntry(d, e, id) \/ SyncContent(d, e, id)

Pin(d) == \E id \in Ids : \E i \in DOMAIN Items[id] : PinItem(d, id, i)

Download(d) ==
  \E id \in Ids :
    \/ StartDownload(d, id) \/ DownloadItem(d, id) \/ DownloadFails(d, id)
    \/ \E i \in DOMAIN Items[id] : ReadItem(d, id, i)

Next ==
  \/ \E d \in Sharers, id \in Ids : StartCreate(d, id)
  \/ \E id \in Ids : Create(id)
  \/ \E d \in Readers : Poll(d) \/ MarkSeen(d) \/ MarkSeenFails(d) \/ Rejoin(d)
  \/ \E d \in Downloaders : Download(d)
  \/ \E d \in Nodes : Sync(d) \/ Pin(d) \/ Connect(d) \/ Disconnect(d) \/ Restart(d)
  \/ Tick

Spec == Init /\ [][Next]_vars

\* The UI polls, an auto_pin task goes on, iroh-docs sends what a reachable peer
\* has.  A create may hang: nothing limits how long a URL is fetched.
Fairness ==
  /\ \A d \in Readers : WF_vars(Poll(d))
  /\ \A d \in Nodes :
       /\ \A id \in Ids : \A i \in DOMAIN Items[id] : WF_vars(PinItem(d, id, i))
       /\ \A e \in Nodes, id \in Ids :
            WF_vars(SyncEntry(d, e, id)) /\ WF_vars(SyncContent(d, e, id))

FairSpec == Spec /\ Fairness

-----------------------------------------------------------------------------
(* What must hold.                                                         *)

TypeOK ==
  /\ now \in Times
  /\ online \in [Nodes -> BOOLEAN]
  /\ draft \in [Ids -> Drafts \cup {None}]
  /\ record \in [Ids -> Records \cup {None}]
  /\ entries \in [Nodes -> SUBSET Ids] /\ content \in [Nodes -> SUBSET Ids]
  /\ blobs \in [Nodes -> SUBSET Blobs]
  /\ pin \in [Nodes -> [Ids -> SUBSET Nat]] /\ files \in [Nodes -> [Ids -> SUBSET Nat]]
  /\ load \in [Nodes -> [Ids -> Nat]]
  /\ seenAt \in [Nodes -> Nat] /\ seenFile \in [Nodes -> Nat \cup {None}]
  /\ listed \in [Nodes -> SUBSET Ids] /\ looked \in [Nodes -> SUBSET Ids]

\* The docs of all members together are the append-only log of ShareLog: a
\* record is published once and stays as it is, whatever is created, killed or
\* restarted, and members only get entries that some member has.
Log == INSTANCE ShareLog WITH record <- record, entries <- entries
AppendOnly == Log!Spec

\* No share dangles: whoever has an entry, its author still has the record and
\* every blob of its items, through failed creates, restarts and syncs, so that
\* reaching the author is always enough to read it.
SharesRecoverable ==
  \A d \in Nodes : \A id \in entries[d] :
    /\ record[id] # None
    /\ id \in content[record[id].author] /\ ItemBlobs(id) \subseteq blobs[record[id].author]

\* A download that returned Ok has written every item of the share, however the
\* author came and went and other tasks fetched meanwhile.
DownloadedWhole ==
  \A d \in Nodes, id \in Ids :
    Downloaded(d, id) => files[d][id] = DOMAIN Items[id] /\ AllLocal(d, id)

\* A share its user was shown when a mark_seen returned Ok never counts as unread
\* again, whatever arrives later, whichever saves fail and however often the
\* process is restarted: until the group is joined anew, and save for a share
\* whose author's clock is ahead of the reader's.
ReadStaysRead ==
  \A d \in Nodes : \A id \in Unread(d) \cap looked[d] : Skew[record[id].author] > Skew[d]

\* If from some time on everybody is reachable, every share gets to be local to
\* everybody: auto_pin makes up for all that failed before.
EverythingPinned ==
  <>[](\A d \in Nodes : online[d]) =>
    \A d \in Readers, id \in Ids : record[id] # None ~> AllLocal(d, id)

-----------------------------------------------------------------------------
(* What the code or its docs say and the code does not do.                 *)

\* SPEC.md:305-306: the entry "propagates trivially as soon as one peer connects".  So a
\* member for ever in touch with the author of a share is shown the share.
ShownOnceConnected ==
  \A d \in Readers, id \in Ids :
    <>[](record[id] # None /\ (record[id].author = d \/ Connected(d, record[id].author)))
      => <>(id \in listed[d])
=============================================================================
