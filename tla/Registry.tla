------------------------------ MODULE Registry -----------------------------
(***************************************************************************)
(* What a device calls its groups and people, and what its user notes      *)
(* about them: groups.rs and contacts.rs of shmark-core under the          *)
(* groups_* and contacts_* handlers of dispatch.rs.                        *)
(*                                                                         *)
(* Each AppState has one Groups and one Contacts, each behind a lock of    *)
(* its own and saved as a whole to one file by every call that changes it. *)
(* fs::write truncates the file and then writes it, and may fail at either. *)
(* After a reload the socket server goes on with the AppState it was        *)
(* started with while the window uses the new one: their locks are not the  *)
(* same, so that two saves of one file may overlap.                         *)
(***************************************************************************)
EXTENDS Naturals

CONSTANTS
  Namespaces, People, Names, Notes,
  MaxBoots, MaxTime,      \* bounds of the model
  SavesFail,              \* the files whose save may fail
  Reloads,                \* whether the AppState is reloaded
  None, Torn

Boots == 1..MaxBoots
Times == 0..MaxTime
LocalGroups == [name : Names, last_seen_at : Times]
Contacts == [name : Names, note : Notes \cup {None}]
Queries == Names \cup Namespaces \cup People

Indexes == [Namespaces -> LocalGroups \cup {None}]
Books == [contacts : [People -> Contacts \cup {None}], group_notes : [Names -> Notes \cup {None}]]

ASSUME RegistryAssumption ==
  /\ MaxBoots \in Nat \ {0} /\ MaxTime \in Nat
  /\ SavesFail \subseteq {"groups", "contacts"} /\ Reloads \in BOOLEAN
  /\ None \notin LocalGroups \cup Contacts \cup Notes
  /\ Torn \notin Books /\ Torn \notin Indexes

VARIABLES
  now,
  app,         \* boot -> its AppState
  current,     \* the latest boot
  groupsFile,  \* groups.json
  bookFile,    \* contacts.json
  mixed,       \* the files whose latest save began beside another AppState's
  noting,      \* boot -> the groups_set_note between its two locks, one at a time
  docs,        \* the docs that exist, on whatever device
  entered,     \* the groups whose entry returned Ok and whose removal was not asked since
  forked       \* whether two AppStates have served at once

vars == <<now, app, current, groupsFile, bookFile, mixed, noting, docs, entered,
          forked>>
process == <<now, current, forked>>
world == <<docs, entered>>
files == <<groupsFile, bookFile, mixed>>

\* A save from when the file is truncated: at work, ended well, or failed.
Saves == {"writing", "saved", "failed"}

AppStates ==
  [live : BOOLEAN,            \* it answers calls
   groups : Indexes,          \* Groups.by_namespace
   book : Books,              \* Contacts.by_pubkey and Contacts.group_notes
   groupsSave : Saves,        \* the latest save of each; a lock is held while one is
   bookSave : Saves,          \* at work
   entering : Namespaces \cup {None}]  \* the group whose entry is being saved

SetNotes == [name : Names, note : Notes \cup {None}]

NoGroups == [n \in Namespaces |-> None]
NoBook == [contacts |-> [p \in People |-> None], group_notes |-> [x \in Names |-> None]]

Booted(gs, book) ==
  [live |-> TRUE, groups |-> gs, book |-> book, groupsSave |-> "saved", bookSave |-> "saved",
   entering |-> None]
LoadedWithoutNotes(gs, book) == Booted(gs, [book EXCEPT !.group_notes = NoBook.group_notes])
Loaded(gs, book) == Booted(gs, book)
NotBooted == [Booted(NoGroups, NoBook) EXCEPT !.live = FALSE]

Init ==
  /\ now = 0
  /\ app = [b \in Boots |-> IF b = 1 THEN Loaded(NoGroups, NoBook) ELSE NotBooted]
  /\ current = 1
  /\ groupsFile = NoGroups
  /\ bookFile = NoBook
  /\ mixed = {}
  /\ noting = [b \in Boots |-> None]
  /\ docs = {}
  /\ entered = {}
  /\ forked = FALSE

-----------------------------------------------------------------------------
(* Names.                                                                  *)

\* The keys a name stands for: itself if it is one, else all that have the name.
Matches(map, q) ==
  IF q \in {k \in DOMAIN map : map[k] # None} THEN {q}
  ELSE {k \in DOMAIN map : map[k] # None /\ map[k].name = q}

\* resolve_key fails unless there is exactly one.
Resolves(map, q, k) == Matches(map, q) = {k}

-----------------------------------------------------------------------------
(* Changes: the index in memory, then the whole file.  A save that fails    *)
(* leaves the change in memory, and the file as it was or truncated.        *)

\* The file is truncated, maybe while another AppState is writing it.
Overlaps(file, beside) == mixed' = IF beside THEN mixed \cup {file} ELSE mixed \ {file}

\* What the file may hold when its writing ends: beside another's, the shorter of
\* the two may keep the tail of the longer.
Outcomes(file, whole, old, ok) ==
  IF ok THEN {whole} \cup (IF file \in mixed THEN {Torn} ELSE {}) ELSE {old, Torn}

\* Under groups.write(): the index becomes gs, for the sake of group n or None.
PutGroups(b, gs, n) ==
  /\ app[b].groupsSave # "writing"
  /\ \/ /\ app' = [app EXCEPT ![b].groups = gs, ![b].groupsSave = "writing",
                              ![b].entering = n]
        /\ groupsFile' = Torn
        /\ Overlaps("groups", \E c \in Boots : app[c].live /\ app[c].groupsSave = "writing")
     \/ /\ "groups" \in SavesFail
        /\ app' = [app EXCEPT ![b].groups = gs, ![b].groupsSave = "failed"]
        /\ UNCHANGED <<groupsFile, mixed>>

GroupsWritten(b) ==
  /\ app[b].groupsSave = "writing"
  /\ \E ok \in {TRUE, "groups" \notin SavesFail} :
       /\ groupsFile' \in Outcomes("groups", app[b].groups, groupsFile, ok)
       /\ app' = [app EXCEPT ![b].groupsSave = IF ok THEN "saved" ELSE "failed",
                              ![b].entering = None]
       /\ entered' = entered \cup IF ok THEN {app[b].entering} \ {None} ELSE {}
  /\ UNCHANGED <<process, bookFile, mixed, noting, docs>>

\* Under contacts.write().
PutBook(b, book) ==
  /\ app[b].bookSave # "writing"
  /\ \/ /\ app' = [app EXCEPT ![b].book = book, ![b].bookSave = "writing"]
        /\ bookFile' = Torn
        /\ Overlaps("contacts", \E c \in Boots : app[c].live /\ app[c].bookSave = "writing")
     \/ /\ "contacts" \in SavesFail
        /\ app' = [app EXCEPT ![b].book = book, ![b].bookSave = "failed"]
        /\ UNCHANGED <<bookFile, mixed>>

BookWritten(b) ==
  /\ app[b].bookSave = "writing"
  /\ \E ok \in {TRUE, "contacts" \notin SavesFail} :
       /\ bookFile' \in Outcomes("contacts", app[b].book, bookFile, ok)
       /\ app' = [app EXCEPT ![b].bookSave = IF ok THEN "saved" ELSE "failed"]
  /\ UNCHANGED <<process, groupsFile, mixed, noting, world>>

\* make_local_group
NeverSeen(x) == [name |-> x, last_seen_at |-> None]
LocalGroup(x) == [name |-> x, last_seen_at |-> 0]

\* Groups::upsert: keyed by namespace, in place of whatever was there.
ReplacingTheName(gs, n, g) ==
  [m \in Namespaces |->
    IF m = n THEN g ELSE IF gs[m] # None /\ gs[m].name = g.name THEN None ELSE gs[m]]
Upserted(gs, n, g) == [gs EXCEPT ![n] = g]

EnterGroup(b, n, g) ==
  /\ PutGroups(b, Upserted(app[b].groups, n, g), n)
  /\ UNCHANGED <<process, bookFile, noting, entered>>

\* groups_new, in a doc nobody had before.
GroupsNew(b, n, x) ==
  /\ n \notin docs
  /\ docs' = docs \cup {n}
  /\ EnterGroup(b, n, LocalGroup(x))

\* groups_join, with a share code of any group; devices_pair_join does the same
\* for each ticket it was given.
GroupsJoin(b, n, x) ==
  /\ docs' = docs \cup {n}
  /\ EnterGroup(b, n, LocalGroup(x))

GroupsRename(b, q, x) ==
  /\ \E n \in Namespaces : /\ Resolves(app[b].groups, q, n)
                           /\ PutGroups(b, [app[b].groups EXCEPT ![n].name = x], None)
  /\ UNCHANGED <<process, bookFile, noting, world>>

GroupsMarkSeen(b, q) ==
  /\ \E n \in Namespaces : /\ Resolves(app[b].groups, q, n)
                           /\ PutGroups(b, [app[b].groups EXCEPT ![n].last_seen_at = now], None)
  /\ UNCHANGED <<process, bookFile, noting, world>>

GroupsRemove(b, q) ==
  /\ \E n \in Namespaces : /\ Resolves(app[b].groups, q, n)
                           /\ PutGroups(b, [app[b].groups EXCEPT ![n] = None], None)
                           /\ entered' = entered \ {n}
  /\ UNCHANGED <<process, bookFile, noting, docs>>

-----------------------------------------------------------------------------
ContactsUpsert(b, p, x) ==
  LET old == app[b].book.contacts[p]
      new == IF old = None THEN [name |-> x, note |-> None] ELSE [old EXCEPT !.name = x]
  IN /\ PutBook(b, [app[b].book EXCEPT !.contacts[p] = new])
     /\ UNCHANGED <<process, groupsFile, noting, world>>

ContactsRemove(b, q) ==
  /\ \E p \in People : /\ Resolves(app[b].book.contacts, q, p)
                       /\ PutBook(b, [app[b].book EXCEPT !.contacts[p] = None])
  /\ UNCHANGED <<process, groupsFile, noting, world>>

ContactsSetNote(b, q, note) ==
  /\ \E p \in People : /\ Resolves(app[b].book.contacts, q, p)
                       /\ PutBook(b, [app[b].book EXCEPT !.contacts[p].note = note])
  /\ UNCHANGED <<process, groupsFile, noting, world>>

\* groups_set_note finds the group under groups.read(), which is released ...
GroupsSetNote(b, q, note) ==
  /\ noting[b] = None /\ app[b].groupsSave # "writing"
  /\ \E n \in Namespaces :
       /\ Resolves(app[b].groups, q, n)
       /\ noting' = [noting EXCEPT ![b] =
            [name |-> app[b].groups[n].name, note |-> note]]
  /\ UNCHANGED <<process, app, files, world>>

\* ... before contacts.write(), under which the note is stored by the alias.
StoreNote(b) ==
  LET c == noting[b] IN
  /\ c # None
  /\ PutBook(b, [app[b].book EXCEPT !.group_notes[c.name] = c.note])
  /\ noting' = [noting EXCEPT ![b] = None]
  /\ UNCHANGED <<process, groupsFile, docs, entered>>

-----------------------------------------------------------------------------
OnDisk == Torn \notin {groupsFile, bookFile}

\* The reload watcher boots a new AppState; the socket server keeps the old one.
Reload ==
  /\ Reloads /\ OnDisk
  /\ current < MaxBoots
  /\ current' = current + 1
  /\ app' = [app EXCEPT ![current + 1] = Loaded(groupsFile, bookFile)]
  /\ forked' = TRUE
  /\ UNCHANGED <<now, files, noting, world>>

\* The process stops and starts again, when it can read its files.
Restart ==
  /\ OnDisk
  /\ current < MaxBoots
  /\ current' = current + 1
  /\ app' = [b \in Boots |-> IF b = current + 1 THEN Loaded(groupsFile, bookFile)
                             ELSE NotBooted]
  /\ noting' = [b \in Boots |-> None]
  /\ UNCHANGED <<now, files, forked, world>>

Tick ==
  /\ now < MaxTime
  /\ now' = now + 1
  /\ UNCHANGED <<app, current, files, noting, forked, world>>

Groups(b) ==
  \/ \E n \in Namespaces, x \in Names : GroupsNew(b, n, x) \/ GroupsJoin(b, n, x)
  \/ \E q \in Queries : \/ GroupsMarkSeen(b, q) \/ GroupsRemove(b, q)
                        \/ \E x \in Names : GroupsRename(b, q, x)

Book(b) ==
  \/ \E p \in People, x \in Names : ContactsUpsert(b, p, x)
  \/ \E q \in Queries : \/ ContactsRemove(b, q)
                        \/ \E note \in Notes \cup {None} : ContactsSetNote(b, q, note)
  \/ StoreNote(b)

Next ==
  \/ \E b \in Boots :
       /\ app[b].live
       /\ \/ Groups(b) \/ Book(b) \/ GroupsWritten(b) \/ BookWritten(b)
          \/ \E q \in Queries, note \in Notes \cup {None} : GroupsSetNote(b, q, note)
  \/ Reload \/ Restart \/ Tick

Spec == Init /\ [][Next]_vars

-----------------------------------------------------------------------------
(* What must hold.                                                         *)

TypeOK ==
  /\ now \in Times /\ current \in Boots
  /\ app \in [Boots -> AppStates]
  /\ groupsFile \in {Torn} \cup Indexes /\ bookFile \in {Torn} \cup Books
  /\ mixed \subseteq {"groups", "contacts"}
  /\ noting \in [Boots -> {None} \cup SetNotes]
  /\ docs \in SUBSET Namespaces /\ entered \in SUBSET Namespaces
  /\ forked \in BOOLEAN

Live == {b \in Boots : app[b].live}

\* Unless one is being written or a latest save failed, each file is what one live
\* AppState has in memory, all of it, or torn by two AppStates whose saves overlapped:
\* with one AppState, a restart finds all that any call has done.
SavedIsOnDisk ==
  /\ (\A b \in Live : app[b].groupsSave = "saved") =>
        \/ \E b \in Live : groupsFile = app[b].groups
        \/ groupsFile = Torn /\ "groups" \in mixed
  /\ (\A b \in Live : app[b].bookSave = "saved") =>
        \/ \E b \in Live : bookFile = app[b].book
        \/ bookFile = Torn /\ "contacts" \in mixed

\* A group whose groups_new or groups_join returned Ok stays in groups.json until
\* its removal is asked, through renames, joins under the same alias, failed saves
\* of other calls and restarts, as long as one AppState serves at a time.
NothingForgotten ==
  ~forked /\ groupsFile # Torn => \A n \in entered : groupsFile[n] # None
=============================================================================
