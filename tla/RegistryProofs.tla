--------------------------- MODULE RegistryProofs --------------------------
(***************************************************************************)
(* Proofs about Registry: its types, that the files are whole images of a  *)
(* live AppState unless a save is at work, failed or overlapped another,   *)
(* and that with one AppState at a time no entered group is forgotten.     *)
(***************************************************************************)
EXTENDS Registry, TLAPS

Known(gs) == {n \in Namespaces : gs[n] # None}

\* As long as there has been one AppState at a time, all that was entered is in
\* its memory, and in the file; what is being entered is in its memory.
EnteredKept ==
  ~forked =>
    /\ Live = {current}
    /\ entered \subseteq Known(app[current].groups)
    /\ groupsFile # Torn => entered \subseteq Known(groupsFile)
    /\ app[current].groupsSave = "writing" =>
         {app[current].entering} \ {None} \subseteq Known(app[current].groups)

RegInv == TypeOK /\ app[current].live /\ SavedIsOnDisk

-----------------------------------------------------------------------------
(* The two saves, each from the change in memory to the end of the write.  *)

\* One AppState replaced by another.
LEMMA OneReplaced ==
  ASSUME TypeOK, NEW b \in Boots, NEW s \in AppStates, app' = [app EXCEPT ![b] = s]
  PROVE  /\ app' \in [Boots -> AppStates]
         /\ app'[b] = s /\ \A c \in Boots : c # b => app'[c] = app[c]
BY DEF TypeOK

\* What a change of the group index does to the AppStates and the file.
LEMMA PutGroupsEffect ==
  ASSUME TypeOK, NEW b \in Boots, NEW gs \in Indexes, NEW n \in Namespaces \cup {None},
         PutGroups(b, gs, n)
  PROVE  /\ app' \in [Boots -> AppStates]
         /\ groupsFile' \in {Torn} \cup Indexes /\ mixed' \subseteq {"groups", "contacts"}
         /\ "contacts" \in mixed => "contacts" \in mixed'
         /\ \A c \in Boots : /\ c # b => app'[c] = app[c]
                             /\ app'[c].live = app[c].live
                             /\ app'[c].book = app[c].book
                             /\ app'[c].bookSave = app[c].bookSave
         /\ app'[b].groups = gs
         /\ \/ app'[b].groupsSave = "writing" /\ groupsFile' = Torn /\ app'[b].entering = n
            \/ app'[b].groupsSave = "failed" /\ groupsFile' = groupsFile
<1>1. app[b] \in AppStates
  BY DEF TypeOK
<1>2. CASE /\ app' = [app EXCEPT ![b].groups = gs, ![b].groupsSave = "writing",
                                 ![b].entering = n]
           /\ groupsFile' = Torn
           /\ Overlaps("groups", \E c \in Boots : app[c].live /\ app[c].groupsSave = "writing")
  <2> DEFINE s == [app[b] EXCEPT !.groups = gs, !.groupsSave = "writing", !.entering = n]
  <2>1. /\ s \in AppStates /\ s.live = app[b].live /\ s.groups = gs
        /\ s.groupsSave = "writing" /\ s.entering = n
        /\ s.book = app[b].book /\ s.bookSave = app[b].bookSave
    BY <1>1 DEF AppStates, Saves
  <2>2. app' = [app EXCEPT ![b] = s]
    BY <1>1, <1>2 DEF TypeOK, AppStates
  <2> HIDE DEF s
  <2>3. /\ app' \in [Boots -> AppStates]
        /\ app'[b] = s /\ \A c \in Boots : c # b => app'[c] = app[c]
    BY <2>1, <2>2, OneReplaced
  <2>4. mixed' \subseteq {"groups", "contacts"} /\ ("contacts" \in mixed => "contacts" \in mixed')
    BY <1>2 DEF Overlaps, TypeOK
  <2> QED BY <1>2, <2>1, <2>3, <2>4
<1>3. CASE /\ app' = [app EXCEPT ![b].groups = gs, ![b].groupsSave = "failed"]
           /\ UNCHANGED <<groupsFile, mixed>>
  <2> DEFINE s == [app[b] EXCEPT !.groups = gs, !.groupsSave = "failed"]
  <2>1. /\ s \in AppStates /\ s.live = app[b].live /\ s.groups = gs
        /\ s.groupsSave = "failed"
        /\ s.book = app[b].book /\ s.bookSave = app[b].bookSave
    BY <1>1 DEF AppStates, Saves
  <2>2. app' = [app EXCEPT ![b] = s]
    BY <1>1, <1>3 DEF TypeOK, AppStates
  <2> HIDE DEF s
  <2>3. /\ app' \in [Boots -> AppStates]
        /\ app'[b] = s /\ \A c \in Boots : c # b => app'[c] = app[c]
    BY <2>1, <2>2, OneReplaced
  <2> QED BY <1>3, <2>1, <2>3 DEF TypeOK
<1> QED BY <1>2, <1>3 DEF PutGroups

\* The end of a write of groups.json.
LEMMA GroupsWrittenEffect ==
  ASSUME TypeOK, NEW b \in Boots, GroupsWritten(b)
  PROVE  /\ app' \in [Boots -> AppStates]
         /\ groupsFile' \in {Torn} \cup Indexes /\ entered' \in SUBSET Namespaces
         /\ \A c \in Boots : /\ c # b => app'[c] = app[c]
                             /\ app'[c].live = app[c].live
                             /\ app'[c].groups = app[c].groups
                             /\ app'[c].book = app[c].book
                             /\ app'[c].bookSave = app[c].bookSave
         /\ \/ /\ app'[b].groupsSave = "saved"
               /\ groupsFile' = app[b].groups \/ (groupsFile' = Torn /\ "groups" \in mixed)
               /\ entered' = entered \cup ({app[b].entering} \ {None})
            \/ /\ app'[b].groupsSave = "failed"
               /\ groupsFile' \in {groupsFile, Torn}
               /\ entered' = entered
<1>1. app[b] \in AppStates
  BY DEF TypeOK
<1>2. PICK ok \in {TRUE, "groups" \notin SavesFail} :
        /\ groupsFile' \in Outcomes("groups", app[b].groups, groupsFile, ok)
        /\ app' = [app EXCEPT ![b].groupsSave = IF ok THEN "saved" ELSE "failed",
                              ![b].entering = None]
        /\ entered' = entered \cup IF ok THEN {app[b].entering} \ {None} ELSE {}
  BY DEF GroupsWritten
<1> DEFINE s == [app[b] EXCEPT !.groupsSave = IF ok THEN "saved" ELSE "failed",
                               !.entering = None]
<1>3. /\ s \in AppStates /\ s.live = app[b].live /\ s.groups = app[b].groups
      /\ s.groupsSave = IF ok THEN "saved" ELSE "failed"
      /\ s.book = app[b].book /\ s.bookSave = app[b].bookSave
  BY <1>1 DEF AppStates, Saves
<1>4. app' = [app EXCEPT ![b] = s]
  BY <1>1, <1>2 DEF TypeOK, AppStates
<1> HIDE DEF s
<1>5. /\ app' \in [Boots -> AppStates]
      /\ app'[b] = s /\ \A c \in Boots : c # b => app'[c] = app[c]
  BY <1>3, <1>4, OneReplaced
<1>6. app[b].groups \in Indexes /\ app[b].entering \in Namespaces \cup {None}
  BY <1>1 DEF AppStates
<1>7. groupsFile' \in {Torn} \cup Indexes /\ entered' \in SUBSET Namespaces
  BY <1>2, <1>6 DEF Outcomes, TypeOK
<1>8. CASE ok
  BY <1>2, <1>3, <1>5, <1>7, <1>8 DEF Outcomes
<1>9. CASE ~ok
  BY <1>2, <1>3, <1>5, <1>7, <1>9 DEF Outcomes
<1> QED BY <1>8, <1>9

\* The same of a change of the contacts and notes.
LEMMA PutBookEffect ==
  ASSUME TypeOK, NEW b \in Boots, NEW book \in Books, PutBook(b, book)
  PROVE  /\ app' \in [Boots -> AppStates]
         /\ bookFile' \in {Torn} \cup Books /\ mixed' \subseteq {"groups", "contacts"}
         /\ "groups" \in mixed => "groups" \in mixed'
         /\ \A c \in Boots : /\ c # b => app'[c] = app[c]
                             /\ app'[c].live = app[c].live
                             /\ app'[c].groups = app[c].groups
                             /\ app'[c].groupsSave = app[c].groupsSave
                             /\ app'[c].entering = app[c].entering
         /\ app'[b].bookSave \in {"writing", "failed"}
<1>1. app[b] \in AppStates
  BY DEF TypeOK
<1>2. ASSUME NEW save \in {"writing", "failed"},
             app' = [app EXCEPT ![b].book = book, ![b].bookSave = save]
      PROVE  /\ app' \in [Boots -> AppStates]
             /\ \A c \in Boots : /\ c # b => app'[c] = app[c]
                                 /\ app'[c].live = app[c].live
                                 /\ app'[c].groups = app[c].groups
                                 /\ app'[c].groupsSave = app[c].groupsSave
                                 /\ app'[c].entering = app[c].entering
             /\ app'[b].bookSave = save
  <2> DEFINE s == [app[b] EXCEPT !.book = book, !.bookSave = save]
  <2>1. /\ s \in AppStates /\ s.live = app[b].live /\ s.groups = app[b].groups
        /\ s.groupsSave = app[b].groupsSave /\ s.entering = app[b].entering
        /\ s.bookSave = save
    BY <1>1 DEF AppStates, Saves
  <2>2. app' = [app EXCEPT ![b] = s]
    BY <1>1, <1>2 DEF TypeOK, AppStates
  <2> HIDE DEF s
  <2>3. /\ app' \in [Boots -> AppStates]
        /\ app'[b] = s /\ \A c \in Boots : c # b => app'[c] = app[c]
    BY <2>1, <2>2, OneReplaced
  <2> QED BY <2>1, <2>3
<1>3. CASE /\ app' = [app EXCEPT ![b].book = book, ![b].bookSave = "writing"]
           /\ bookFile' = Torn
           /\ Overlaps("contacts", \E c \in Boots : app[c].live /\ app[c].bookSave = "writing")
  <2>1. mixed' \subseteq {"groups", "contacts"} /\ ("groups" \in mixed => "groups" \in mixed')
    BY <1>3 DEF Overlaps, TypeOK
  <2> QED BY <1>2, <1>3, <2>1
<1>4. CASE /\ app' = [app EXCEPT ![b].book = book, ![b].bookSave = "failed"]
           /\ UNCHANGED <<bookFile, mixed>>
  BY <1>2, <1>4 DEF TypeOK
<1> QED BY <1>3, <1>4 DEF PutBook

\* The end of a write of contacts.json.
LEMMA BookWrittenEffect ==
  ASSUME TypeOK, NEW b \in Boots, BookWritten(b)
  PROVE  /\ app' \in [Boots -> AppStates]
         /\ bookFile' \in {Torn} \cup Books
         /\ \A c \in Boots : /\ c # b => app'[c] = app[c]
                             /\ app'[c].live = app[c].live
                             /\ app'[c].groups = app[c].groups
                             /\ app'[c].groupsSave = app[c].groupsSave
                             /\ app'[c].entering = app[c].entering
                             /\ app'[c].book = app[c].book
         /\ \/ /\ app'[b].bookSave = "saved"
               /\ bookFile' = app[b].book \/ (bookFile' = Torn /\ "contacts" \in mixed)
            \/ app'[b].bookSave = "failed"
<1>1. app[b] \in AppStates
  BY DEF TypeOK
<1>2. PICK ok \in {TRUE, "contacts" \notin SavesFail} :
        /\ bookFile' \in Outcomes("contacts", app[b].book, bookFile, ok)
        /\ app' = [app EXCEPT ![b].bookSave = IF ok THEN "saved" ELSE "failed"]
  BY DEF BookWritten
<1> DEFINE s == [app[b] EXCEPT !.bookSave = IF ok THEN "saved" ELSE "failed"]
<1>3. /\ s \in AppStates /\ s.live = app[b].live /\ s.groups = app[b].groups
      /\ s.groupsSave = app[b].groupsSave /\ s.entering = app[b].entering
      /\ s.book = app[b].book /\ s.bookSave = IF ok THEN "saved" ELSE "failed"
  BY <1>1 DEF AppStates, Saves
<1>4. app' = [app EXCEPT ![b] = s]
  BY <1>1, <1>2 DEF TypeOK, AppStates
<1> HIDE DEF s
<1>5. /\ app' \in [Boots -> AppStates]
      /\ app'[b] = s /\ \A c \in Boots : c # b => app'[c] = app[c]
  BY <1>3, <1>4, OneReplaced
<1>6. app[b].book \in Books
  BY <1>1 DEF AppStates
<1>7. bookFile' \in {Torn} \cup Books
  BY <1>2, <1>6 DEF Outcomes, TypeOK
<1>8. CASE ok
  BY <1>2, <1>3, <1>5, <1>7, <1>8 DEF Outcomes
<1>9. CASE ~ok
  BY <1>2, <1>3, <1>5, <1>7, <1>9 DEF Outcomes
<1> QED BY <1>8, <1>9

-----------------------------------------------------------------------------
(* What the calls do, in terms of the two saves.                           *)

\* The calls that change the group index leave the contacts alone, and take out
\* of what is known only what is no longer counted as entered; what they enter is
\* known from then on.
LEMMA GroupCalls ==
  ASSUME TypeOK, NEW b \in Boots, Groups(b)
  PROVE  \E gs \in Indexes, n \in Namespaces \cup {None} :
           /\ PutGroups(b, gs, n)
           /\ {n} \ {None} \subseteq Known(gs)
           /\ UNCHANGED <<now, current, forked, bookFile, noting>>
           /\ docs' \in SUBSET Namespaces
           /\ entered' \subseteq entered
           /\ entered' \cap Known(app[b].groups) \subseteq Known(gs)
<1> DEFINE old == app[b].groups
           GroupChange(gs, n) ==
             /\ PutGroups(b, gs, n)
             /\ {n} \ {None} \subseteq Known(gs)
             /\ UNCHANGED <<now, current, forked, bookFile, noting>>
             /\ docs' \in SUBSET Namespaces
             /\ entered' \subseteq entered
             /\ entered' \cap Known(old) \subseteq Known(gs)
           Changed == \E gs \in Indexes, n \in Namespaces \cup {None} : GroupChange(gs, n)
<1>1. /\ app[b] \in AppStates /\ old \in Indexes /\ 0 \in Times /\ now \in Times
      /\ docs \in SUBSET Namespaces
      /\ entered \in SUBSET Namespaces
  BY RegistryAssumption DEF TypeOK, AppStates, Times
<1> HIDE DEF old
<1>2. ASSUME NEW n \in Namespaces, NEW x \in Names,
             EnterGroup(b, n, LocalGroup(x)), docs' \in SUBSET Namespaces
      PROVE  Changed
  <2> DEFINE g == LocalGroup(x)
             gs == [old EXCEPT ![n] = g]
  <2>1. g \in LocalGroups /\ g # None
    BY <1>1, RegistryAssumption DEF LocalGroup, LocalGroups
  <2>2. gs \in Indexes /\ n \in Known(gs) /\ Known(old) \subseteq Known(gs)
    BY <1>1, <2>1 DEF Indexes, Known
  <2>3. PutGroups(b, gs, n) /\ UNCHANGED <<now, current, forked, bookFile, noting, entered>>
    BY <1>2 DEF EnterGroup, Upserted, process, old
  <2> HIDE DEF gs
  <2> QED BY <1>1, <1>2, <2>2, <2>3
<1>3. CASE \E n \in Namespaces, x \in Names : GroupsNew(b, n, x)
  BY <1>1, <1>2, <1>3 DEF GroupsNew, old
<1>4. CASE \E n \in Namespaces, x \in Names : GroupsJoin(b, n, x)
  BY <1>1, <1>2, <1>4 DEF GroupsJoin, old
<1>5. ASSUME NEW m \in Namespaces, NEW q \in Queries, Resolves(old, q, m) PROVE m \in Known(old)
  BY <1>5 DEF Resolves, Matches, Known, Indexes
<1>6. ASSUME NEW q \in Queries, NEW x \in Names, GroupsRename(b, q, x)
      PROVE  Changed
  <2>1. PICK m \in Namespaces : /\ Resolves(old, q, m)
                                /\ PutGroups(b, [old EXCEPT ![m].name = x], None)
    BY <1>6 DEF GroupsRename, old
  <2> DEFINE gs == [old EXCEPT ![m].name = x]
  <2>2. old[m] \in LocalGroups
    BY <1>1, <1>5, <2>1 DEF Known, Indexes
  <2>3. [old[m] EXCEPT !.name = x] \in LocalGroups
    BY <2>2 DEF LocalGroups
  <2>4. gs = [old EXCEPT ![m] = [old[m] EXCEPT !.name = x]]
    OBVIOUS
  <2>5. gs \in Indexes /\ Known(old) \subseteq Known(gs)
    BY <1>1, <2>3, <2>4, RegistryAssumption DEF Indexes, Known
  <2>6. UNCHANGED <<now, current, forked, bookFile, noting, docs, entered>>
    BY <1>6 DEF GroupsRename, process, world
  <2> HIDE DEF gs
  <2> QED BY <1>1, <2>1, <2>5, <2>6 DEF old, gs
<1>7. ASSUME NEW q \in Queries, GroupsMarkSeen(b, q)
      PROVE  Changed
  <2>1. PICK m \in Namespaces : /\ Resolves(old, q, m)
                                /\ PutGroups(b, [old EXCEPT ![m].last_seen_at = now], None)
    BY <1>7 DEF GroupsMarkSeen, old
  <2> DEFINE gs == [old EXCEPT ![m].last_seen_at = now]
  <2>2. old[m] \in LocalGroups
    BY <1>1, <1>5, <2>1 DEF Known, Indexes
  <2>3. [old[m] EXCEPT !.last_seen_at = now] \in LocalGroups
    BY <1>1, <2>2 DEF LocalGroups
  <2>4. gs = [old EXCEPT ![m] = [old[m] EXCEPT !.last_seen_at = now]]
    OBVIOUS
  <2>5. gs \in Indexes /\ Known(old) \subseteq Known(gs)
    BY <1>1, <2>3, <2>4, RegistryAssumption DEF Indexes, Known
  <2>6. UNCHANGED <<now, current, forked, bookFile, noting, docs, entered>>
    BY <1>7 DEF GroupsMarkSeen, process, world
  <2> HIDE DEF gs
  <2> QED BY <1>1, <2>1, <2>5, <2>6 DEF old, gs
<1>8. ASSUME NEW q \in Queries, GroupsRemove(b, q)
      PROVE  Changed
  <2>1. PICK m \in Namespaces : /\ PutGroups(b, [old EXCEPT ![m] = None], None)
                                /\ entered' = entered \ {m}
    BY <1>8 DEF GroupsRemove, old
  <2> DEFINE gs == [old EXCEPT ![m] = None]
  <2>2. gs \in Indexes /\ Known(old) \ {m} \subseteq Known(gs)
    BY <1>1 DEF Indexes, Known
  <2>3. UNCHANGED <<now, current, forked, bookFile, noting, docs>>
    BY <1>8 DEF GroupsRemove, process
  <2> HIDE DEF gs
  <2> QED BY <1>1, <2>1, <2>2, <2>3 DEF old, gs
<1> QED BY <1>3, <1>4, <1>6, <1>7, <1>8 DEF Groups, old

\* The calls that change contacts and notes leave the group index alone.
LEMMA BookCalls ==
  ASSUME TypeOK, NEW b \in Boots, Book(b)
  PROVE  \E book \in Books :
           /\ PutBook(b, book)
           /\ UNCHANGED <<now, current, forked, groupsFile, docs, entered>>
           /\ noting' \in [Boots -> {None} \cup SetNotes]
<1> DEFINE old == app[b].book
           BookChange(book) ==
             /\ PutBook(b, book)
             /\ UNCHANGED <<now, current, forked, groupsFile, docs, entered>>
             /\ noting' \in [Boots -> {None} \cup SetNotes]
<1>1. /\ old \in Books /\ noting \in [Boots -> {None} \cup SetNotes]
  BY DEF TypeOK, AppStates
<1>2. /\ old.contacts \in [People -> Contacts \cup {None}]
      /\ old.group_notes \in [Names -> Notes \cup {None}]
      /\ old = [contacts |-> old.contacts, group_notes |-> old.group_notes]
  BY <1>1 DEF Books
<1>3. ASSUME NEW c \in [People -> Contacts \cup {None}]
      PROVE  [old EXCEPT !.contacts = c] \in Books
  BY <1>1, <1>3 DEF Books
<1>4. ASSUME NEW k \in People, NEW r \in Contacts \cup {None}
      PROVE  [old EXCEPT !.contacts[k] = r] \in Books
  <2>1. [old EXCEPT !.contacts[k] = r] = [old EXCEPT !.contacts = [old.contacts EXCEPT ![k] = r]]
    OBVIOUS
  <2>2. [old.contacts EXCEPT ![k] = r] \in [People -> Contacts \cup {None}]
    BY <1>2
  <2> QED BY <1>3, <2>1, <2>2
<1>5. ASSUME NEW p \in People, NEW x \in Names, ContactsUpsert(b, p, x)
      PROVE  \E book \in Books : BookChange(book)
  <2> DEFINE c == old.contacts[p]
             new == IF c = None THEN [name |-> x, note |-> None] ELSE [c EXCEPT !.name = x]
  <2>1. new \in Contacts
    <3>1. CASE c = None
      BY <3>1 DEF Contacts
    <3>2. CASE c # None
      <4>1. c \in Contacts
        BY <1>2, <3>2
      <4> QED BY <3>2, <4>1 DEF Contacts
    <3> QED BY <3>1, <3>2
  <2>2. PutBook(b, [old EXCEPT !.contacts[p] = new])
        /\ UNCHANGED <<now, current, forked, groupsFile, noting, docs, entered>>
    BY <1>5 DEF ContactsUpsert, process, world
  <2> HIDE DEF new
  <2>3. [old EXCEPT !.contacts[p] = new] \in Books
    BY <1>4, <2>1
  <2> HIDE DEF old
  <2> QED BY <1>1, <2>2, <2>3
<1>6. ASSUME NEW q \in Queries, ContactsRemove(b, q)
      PROVE  \E book \in Books : BookChange(book)
  <2>1. PICK k \in People : PutBook(b, [old EXCEPT !.contacts[k] = None])
    BY <1>6 DEF ContactsRemove
  <2>2. UNCHANGED <<now, current, forked, groupsFile, noting, docs, entered>>
    BY <1>6 DEF ContactsRemove, process, world
  <2>3. [old EXCEPT !.contacts[k] = None] \in Books
    BY <1>4
  <2> HIDE DEF old
  <2> QED BY <1>1, <2>1, <2>2, <2>3
<1>7. ASSUME NEW q \in Queries, NEW note \in Notes \cup {None}, ContactsSetNote(b, q, note)
      PROVE  \E book \in Books : BookChange(book)
  <2>1. PICK k \in People : /\ Resolves(old.contacts, q, k)
                            /\ PutBook(b, [old EXCEPT !.contacts[k].note = note])
    BY <1>7 DEF ContactsSetNote
  <2>2. UNCHANGED <<now, current, forked, groupsFile, noting, docs, entered>>
    BY <1>7 DEF ContactsSetNote, process, world
  <2>3. old.contacts[k] \in Contacts
    BY <1>2, <2>1 DEF Resolves, Matches
  <2>4. [old.contacts[k] EXCEPT !.note = note] \in Contacts
    BY <2>3 DEF Contacts
  <2>5. [old EXCEPT !.contacts[k].note = note]
          = [old EXCEPT !.contacts[k] = [old.contacts[k] EXCEPT !.note = note]]
    OBVIOUS
  <2>6. [old EXCEPT !.contacts[k].note = note] \in Books
    BY <1>4, <2>4, <2>5
  <2> HIDE DEF old
  <2> QED BY <1>1, <2>1, <2>2, <2>6
<1>8. CASE StoreNote(b)
  <2> DEFINE c == noting[b]
             book == [old EXCEPT !.group_notes[c.name] = c.note]
  <2>1. c \in SetNotes
    BY <1>1, <1>8 DEF StoreNote
  <2>2. c.name \in Names /\ c.note \in Notes \cup {None}
    BY <2>1 DEF SetNotes
  <2>3. book = [old EXCEPT !.group_notes = [old.group_notes EXCEPT ![c.name] = c.note]]
    OBVIOUS
  <2>4. [old.group_notes EXCEPT ![c.name] = c.note] \in [Names -> Notes \cup {None}]
    BY <1>2, <2>2
  <2>5. book \in Books
    BY <1>1, <2>3, <2>4 DEF Books
  <2>6. /\ PutBook(b, book)
        /\ noting' = [noting EXCEPT ![b] = None]
        /\ UNCHANGED <<now, current, forked, groupsFile, docs, entered>>
    BY <1>8 DEF StoreNote, process
  <2> HIDE DEF book, old
  <2> QED BY <1>1, <2>2, <2>5, <2>6
<1> QED BY <1>5, <1>6, <1>7, <1>8 DEF Book


\* Booting an AppState from files that can be read.
LEMMA LoadedType ==
  ASSUME NEW gs \in Indexes, NEW book \in Books
  PROVE  /\ Loaded(gs, book) \in AppStates /\ Loaded(gs, book).live
         /\ Loaded(gs, book).groups = gs /\ Loaded(gs, book).book = book
         /\ Loaded(gs, book).groupsSave = "saved"
         /\ NotBooted \in AppStates /\ ~NotBooted.live
<1>1. NoGroups \in Indexes
  BY DEF NoGroups, Indexes
<1>2. NoBook \in Books
  BY DEF NoBook, Books
<1> QED BY <1>1, <1>2 DEF Loaded, Booted, AppStates, NotBooted, Saves

-----------------------------------------------------------------------------
(* Every step keeps the invariant.                                         *)

LEMMA InitTypes == Init => TypeOK /\ app[current].live
<1> SUFFICES ASSUME Init PROVE TypeOK /\ app[current].live
  OBVIOUS
<1>1. NoGroups \in Indexes /\ NoBook \in Books
  BY DEF NoGroups, Indexes, NoBook, Books
<1>2. app \in [Boots -> AppStates] /\ app[1].live /\ 1 \in Boots
  BY <1>1, LoadedType, RegistryAssumption DEF Init, Boots
<1>3. now \in Times /\ current \in Boots /\ app[current].live
  BY <1>2, RegistryAssumption DEF Init, Times
<1>4. forked \in BOOLEAN
  BY DEF Init
<1>5. noting \in [Boots -> {None} \cup SetNotes]
  BY DEF Init
<1>6. mixed \subseteq {"groups", "contacts"}
  BY DEF Init
<1> QED BY <1>1, <1>2, <1>3, <1>4, <1>5, <1>6 DEF Init, TypeOK

\* Types.
LEMMA StepTypes ==
  ASSUME TypeOK, [Next]_vars
  PROVE  TypeOK'
<1>1. ASSUME NEW b \in Boots, Groups(b) PROVE TypeOK'
  <2>1. PICK gs \in Indexes, n \in Namespaces \cup {None} :
          /\ PutGroups(b, gs, n)
          /\ UNCHANGED <<now, current, forked, bookFile, noting>>
          /\ docs' \in SUBSET Namespaces
          /\ entered' \subseteq entered
    BY <1>1, GroupCalls
  <2>2. /\ app' \in [Boots -> AppStates] /\ groupsFile' \in {Torn} \cup Indexes
        /\ mixed' \subseteq {"groups", "contacts"}
    BY <2>1, PutGroupsEffect
  <2> QED BY <2>1, <2>2 DEF TypeOK
<1>2. ASSUME NEW b \in Boots, Book(b) PROVE TypeOK'
  <2>1. PICK book \in Books :
          /\ PutBook(b, book)
          /\ UNCHANGED <<now, current, forked, groupsFile, docs, entered>>
          /\ noting' \in [Boots -> {None} \cup SetNotes]
    BY <1>2, BookCalls
  <2>2. /\ app' \in [Boots -> AppStates] /\ bookFile' \in {Torn} \cup Books
        /\ mixed' \subseteq {"groups", "contacts"}
    BY <2>1, PutBookEffect
  <2> QED BY <2>1, <2>2 DEF TypeOK
<1>3. ASSUME NEW b \in Boots, GroupsWritten(b) PROVE TypeOK'
  BY <1>3, GroupsWrittenEffect DEF TypeOK, GroupsWritten, process
<1>4. ASSUME NEW b \in Boots, BookWritten(b) PROVE TypeOK'
  BY <1>4, BookWrittenEffect DEF TypeOK, BookWritten, process, world
<1>5. ASSUME NEW b \in Boots, NEW q \in Queries, NEW note \in Notes \cup {None},
             GroupsSetNote(b, q, note)
      PROVE  TypeOK'
  <2>1. PICK n \in Namespaces :
          /\ Resolves(app[b].groups, q, n)
          /\ noting' = [noting EXCEPT ![b] =
               [name |-> app[b].groups[n].name, note |-> note]]
    BY <1>5 DEF GroupsSetNote
  <2>2. app[b].groups \in Indexes
    BY DEF TypeOK, AppStates
  <2>3. app[b].groups[n] \in LocalGroups
    BY <2>1, <2>2 DEF Resolves, Matches, Indexes
  <2>4. [name |-> app[b].groups[n].name, note |-> note] \in SetNotes
    BY <2>3 DEF SetNotes, LocalGroups
  <2>5. noting' \in [Boots -> {None} \cup SetNotes]
    BY <2>1, <2>4 DEF TypeOK
  <2> QED BY <1>5, <2>5 DEF GroupsSetNote, TypeOK, process, world, files
<1>6. ASSUME Reload \/ Restart PROVE TypeOK'
  <2>1. /\ groupsFile \in Indexes /\ bookFile \in Books
        /\ current' = current + 1 /\ current < MaxBoots
    BY <1>6 DEF Reload, Restart, OnDisk, TypeOK
  <2>2. current' \in Boots
    BY <2>1, RegistryAssumption DEF TypeOK, Boots
  <2>3. app' \in [Boots -> AppStates]
    BY <1>6, <2>1, LoadedType DEF Reload, Restart, TypeOK
  <2> QED BY <1>6, <2>2, <2>3 DEF Reload, Restart, TypeOK, world, files
<1>7. CASE Tick
  BY <1>7, RegistryAssumption DEF Tick, TypeOK, Times, world, files
<1>8. CASE UNCHANGED vars
  BY <1>8 DEF vars, TypeOK
<1> QED BY <1>1, <1>2, <1>3, <1>4, <1>5, <1>6, <1>7, <1>8 DEF Next

\* The latest AppState lives, and the files are whole images.
LEMMA StepSaved ==
  ASSUME RegInv, [Next]_vars
  PROVE  app'[current'].live /\ SavedIsOnDisk'
<1> USE DEF RegInv
<1> DEFINE GroupsImage == (\A c \in Live : app[c].groupsSave = "saved") =>
                             \/ \E c \in Live : groupsFile = app[c].groups
                             \/ groupsFile = Torn /\ "groups" \in mixed
           BookImage == (\A c \in Live : app[c].bookSave = "saved") =>
                             \/ \E c \in Live : bookFile = app[c].book
                             \/ bookFile = Torn /\ "contacts" \in mixed
<1>0. /\ current \in Boots /\ app \in [Boots -> AppStates]
      /\ SavedIsOnDisk <=> GroupsImage /\ BookImage
      /\ SavedIsOnDisk' <=> GroupsImage' /\ BookImage'
  BY DEF TypeOK, SavedIsOnDisk
<1>1. ASSUME NEW b \in Boots, app[b].live, Groups(b) PROVE app'[current'].live /\ SavedIsOnDisk'
  <2>1. PICK gs \in Indexes, n \in Namespaces \cup {None} :
          PutGroups(b, gs, n) /\ UNCHANGED <<now, current, forked, bookFile, noting>>
    BY <1>1, GroupCalls
  <2>2. /\ \A c \in Boots : /\ app'[c].live = app[c].live
                            /\ app'[c].book = app[c].book
                            /\ app'[c].bookSave = app[c].bookSave
        /\ app'[b].groupsSave # "saved"
        /\ "contacts" \in mixed => "contacts" \in mixed'
    BY <2>1, PutGroupsEffect
  <2>3. Live' = Live /\ b \in Live
    BY <1>1, <2>2 DEF Live
  <2>4. GroupsImage'
    BY <2>2, <2>3
  <2>5. BookImage'
    BY <1>0, <2>1, <2>2, <2>3 DEF Live
  <2> QED BY <1>0, <2>1, <2>2, <2>4, <2>5
<1>2. ASSUME NEW b \in Boots, app[b].live, Book(b) PROVE app'[current'].live /\ SavedIsOnDisk'
  <2>1. PICK book \in Books :
          PutBook(b, book) /\ UNCHANGED <<now, current, forked, groupsFile, docs, entered>>
    BY <1>2, BookCalls
  <2>2. /\ \A c \in Boots : /\ app'[c].live = app[c].live
                            /\ app'[c].groups = app[c].groups
                            /\ app'[c].groupsSave = app[c].groupsSave
        /\ app'[b].bookSave # "saved"
        /\ "groups" \in mixed => "groups" \in mixed'
    BY <2>1, PutBookEffect
  <2>3. Live' = Live /\ b \in Live
    BY <1>2, <2>2 DEF Live
  <2>4. BookImage'
    BY <2>2, <2>3
  <2>5. GroupsImage'
    BY <1>0, <2>1, <2>2, <2>3 DEF Live
  <2> QED BY <1>0, <2>1, <2>2, <2>4, <2>5
<1>3. ASSUME NEW b \in Boots, app[b].live, GroupsWritten(b)
      PROVE  app'[current'].live /\ SavedIsOnDisk'
  <2>1. /\ \A c \in Boots : /\ app'[c].live = app[c].live
                            /\ app'[c].groups = app[c].groups
                            /\ app'[c].book = app[c].book
                            /\ app'[c].bookSave = app[c].bookSave
        /\ app'[b].groupsSave = "saved" =>
             groupsFile' = app[b].groups \/ (groupsFile' = Torn /\ "groups" \in mixed)
    BY <1>3, GroupsWrittenEffect
  <2>2. current' = current /\ bookFile' = bookFile /\ mixed' = mixed
    BY <1>3 DEF GroupsWritten, process
  <2>3. Live' = Live /\ b \in Live
    BY <1>3, <2>1 DEF Live
  <2>4. GroupsImage'
    BY <2>1, <2>2, <2>3
  <2>5. BookImage'
    BY <1>0, <2>1, <2>2, <2>3 DEF Live
  <2> QED BY <1>0, <2>1, <2>2, <2>4, <2>5
<1>4. ASSUME NEW b \in Boots, app[b].live, BookWritten(b)
      PROVE  app'[current'].live /\ SavedIsOnDisk'
  <2>1. /\ \A c \in Boots : /\ app'[c].live = app[c].live
                            /\ app'[c].groups = app[c].groups
                            /\ app'[c].groupsSave = app[c].groupsSave
                            /\ app'[c].book = app[c].book
        /\ app'[b].bookSave = "saved" =>
             bookFile' = app[b].book \/ (bookFile' = Torn /\ "contacts" \in mixed)
    BY <1>4, BookWrittenEffect
  <2>2. current' = current /\ groupsFile' = groupsFile /\ mixed' = mixed
    BY <1>4 DEF BookWritten, process
  <2>3. Live' = Live /\ b \in Live
    BY <1>4, <2>1 DEF Live
  <2>4. BookImage'
    BY <2>1, <2>2, <2>3
  <2>5. GroupsImage'
    BY <1>0, <2>1, <2>2, <2>3 DEF Live
  <2> QED BY <1>0, <2>1, <2>2, <2>4, <2>5
<1>5. ASSUME UNCHANGED <<app, current, files>>
      PROVE  app'[current'].live /\ SavedIsOnDisk'
  BY <1>5 DEF SavedIsOnDisk, Live, files
<1>6. ASSUME Reload \/ Restart PROVE app'[current'].live /\ SavedIsOnDisk'
  <2>1. /\ groupsFile \in Indexes /\ bookFile \in Books
        /\ current' = current + 1 /\ current < MaxBoots
        /\ groupsFile' = groupsFile /\ bookFile' = bookFile
    BY <1>6 DEF Reload, Restart, OnDisk, TypeOK, files
  <2>2. current + 1 \in Boots
    BY <2>1, RegistryAssumption DEF TypeOK, Boots
  <2>3. app'[current + 1] = Loaded(groupsFile, bookFile)
    BY <1>0, <1>6, <2>2 DEF Reload, Restart
  <2>4. /\ app'[current + 1].live
        /\ app'[current + 1].groups = groupsFile' /\ app'[current + 1].book = bookFile'
    BY <2>1, <2>3, LoadedType
  <2>5. current + 1 \in Live'
    BY <2>2, <2>4 DEF Live
  <2> QED BY <2>1, <2>4, <2>5 DEF SavedIsOnDisk
<1> QED
  BY <1>1, <1>2, <1>3, <1>4, <1>5, <1>6 DEF Next, GroupsSetNote, Tick, process, world, vars, files

\* What is entered stays, with one AppState at a time: a step with a reload before
\* it, or a reload itself, has nothing to show.
LEMMA StepEntered ==
  ASSUME RegInv, EnteredKept, [Next]_vars
  PROVE  EnteredKept'
<1> USE DEF RegInv
<1> SUFFICES ASSUME ~forked, ~forked' PROVE EnteredKept'
  <2>1. CASE forked'
    BY <2>1 DEF EnteredKept
  <2>2. CASE forked
    <3>1. forked' = forked
      <4>1. ASSUME NEW b \in Boots, Groups(b) PROVE forked' = forked
        BY <4>1, GroupCalls
      <4>2. ASSUME NEW b \in Boots, Book(b) PROVE forked' = forked
        BY <4>2, BookCalls
      <4>3. CASE Reload
        BY <2>2, <4>3 DEF Reload, TypeOK
      <4> QED BY <4>1, <4>2, <4>3 DEF Next, GroupsSetNote, GroupsWritten, BookWritten,
              Restart, Tick, process, world, vars
    <3> QED BY <2>2, <3>1 DEF EnteredKept
  <2> QED BY <2>1, <2>2
<1>0. current \in Boots /\ app \in [Boots -> AppStates]
  BY DEF TypeOK
<1>1. ASSUME NEW b \in Boots, app[b].live, Groups(b) PROVE EnteredKept'
  <2>1. b = current
    BY <1>1 DEF EnteredKept, Live
  <2>2. PICK gs \in Indexes, n \in Namespaces \cup {None} :
          /\ PutGroups(b, gs, n)
          /\ {n} \ {None} \subseteq Known(gs)
          /\ UNCHANGED <<now, current, forked, bookFile, noting>>
          /\ entered' \subseteq entered
          /\ entered' \cap Known(app[b].groups) \subseteq Known(gs)
    BY <1>1, GroupCalls
  <2>3. /\ \A c \in Boots : app'[c].live = app[c].live
        /\ app'[b].groups = gs
        /\ \/ app'[b].groupsSave = "writing" /\ groupsFile' = Torn /\ app'[b].entering = n
           \/ app'[b].groupsSave = "failed" /\ groupsFile' = groupsFile
    BY <2>2, PutGroupsEffect
  <2>4. Live' = {current'}
    BY <2>2, <2>3 DEF EnteredKept, Live
  <2>5. entered' \subseteq Known(gs)
    BY <2>1, <2>2 DEF EnteredKept
  <2>6. app'[current'].groups = gs
    BY <2>1, <2>2, <2>3
  <2>7. groupsFile' # Torn => entered' \subseteq Known(groupsFile')
    BY <2>2, <2>3 DEF EnteredKept
  <2>8. app'[current'].groupsSave = "writing" => {app'[current'].entering} \ {None} \subseteq Known(gs)
    BY <2>1, <2>2, <2>3
  <2>9. entered' \subseteq Known(app'[current'].groups)
    BY <2>5, <2>6
  <2>10. app'[current'].groupsSave = "writing" =>
           {app'[current'].entering} \ {None} \subseteq Known(app'[current'].groups)
    BY <2>6, <2>8
  <2> QED BY <2>4, <2>7, <2>9, <2>10 DEF EnteredKept, Known
<1>2. ASSUME NEW b \in Boots, Book(b) PROVE EnteredKept'
  <2>1. PICK book \in Books :
          PutBook(b, book) /\ UNCHANGED <<now, current, forked, groupsFile, docs, entered>>
    BY <1>2, BookCalls
  <2>2. \A c \in Boots : /\ app'[c].live = app[c].live /\ app'[c].groups = app[c].groups
                         /\ app'[c].groupsSave = app[c].groupsSave
                         /\ app'[c].entering = app[c].entering
    BY <2>1, PutBookEffect
  <2> QED BY <1>0, <2>1, <2>2 DEF EnteredKept, Live, Known
<1>3. ASSUME NEW b \in Boots, app[b].live, GroupsWritten(b) PROVE EnteredKept'
  <2>1. b = current /\ app[b].groupsSave = "writing"
    BY <1>3 DEF EnteredKept, Live, GroupsWritten
  <2>2. current' = current
    BY <1>3 DEF GroupsWritten, process
  <2>3. /\ \A c \in Boots : app'[c].live = app[c].live /\ app'[c].groups = app[c].groups
        /\ \/ /\ app'[b].groupsSave = "saved"
              /\ groupsFile' = app[b].groups \/ groupsFile' = Torn
              /\ entered' = entered \cup ({app[b].entering} \ {None})
           \/ /\ app'[b].groupsSave = "failed"
              /\ groupsFile' \in {groupsFile, Torn}
              /\ entered' = entered
    BY <1>3, GroupsWrittenEffect
  <2>4. Live' = {current'}
    BY <2>2, <2>3 DEF EnteredKept, Live
  <2>5. entered' \subseteq Known(app[current].groups)
    BY <2>1, <2>3 DEF EnteredKept
  <2>6. groupsFile' # Torn => entered' \subseteq Known(groupsFile')
    BY <2>1, <2>3, <2>5 DEF EnteredKept
  <2> QED BY <1>0, <2>1, <2>2, <2>3, <2>4, <2>5, <2>6 DEF EnteredKept, Known
<1>4. ASSUME NEW b \in Boots, BookWritten(b) PROVE EnteredKept'
  <2>1. \A c \in Boots : /\ app'[c].live = app[c].live /\ app'[c].groups = app[c].groups
                         /\ app'[c].groupsSave = app[c].groupsSave
                         /\ app'[c].entering = app[c].entering
    BY <1>4, BookWrittenEffect
  <2>2. UNCHANGED <<current, groupsFile, entered>>
    BY <1>4 DEF BookWritten, process, world
  <2> QED BY <1>0, <2>1, <2>2 DEF EnteredKept, Live, Known
<1>5. ASSUME UNCHANGED <<app, current, groupsFile, entered>> PROVE EnteredKept'
  BY <1>5 DEF EnteredKept, Live, Known
<1>6. ASSUME Restart PROVE EnteredKept'
  <2>1. /\ groupsFile \in Indexes /\ bookFile \in Books /\ groupsFile # Torn
        /\ current' = current + 1 /\ current < MaxBoots
        /\ groupsFile' = groupsFile /\ entered' = entered
    BY <1>6 DEF Restart, OnDisk, TypeOK, world, files
  <2>2. current + 1 \in Boots
    BY <2>1, RegistryAssumption DEF TypeOK, Boots
  <2>3. \A b \in Boots : app'[b] = IF b = current + 1 THEN Loaded(groupsFile, bookFile)
                                   ELSE NotBooted
    BY <1>6 DEF Restart
  <2>4. /\ Live' = {current'} /\ app'[current'].groups = groupsFile
        /\ app'[current'].groupsSave = "saved"
    BY <2>1, <2>2, <2>3, LoadedType DEF Live
  <2> QED BY <2>1, <2>4 DEF EnteredKept, Known
<1> QED
  BY <1>1, <1>2, <1>3, <1>4, <1>5, <1>6 DEF Next, GroupsSetNote, Reload, Tick, process, world,
     vars, files

\* The inductive invariant.
LEMMA RegInvariant == Spec => []RegInv
<1>1. Init => RegInv
  <2> SUFFICES ASSUME Init PROVE SavedIsOnDisk
    BY InitTypes DEF RegInv
  <2>1. 1 \in Boots /\ app[1] = Loaded(NoGroups, NoBook)
    BY RegistryAssumption DEF Init, Boots
  <2>2. NoGroups \in Indexes /\ NoBook \in Books
    BY DEF NoGroups, Indexes, NoBook, Books
  <2>3. 1 \in Live /\ app[1].groups = groupsFile /\ app[1].book = bookFile
    BY <2>1, <2>2, LoadedType DEF Live, Init
  <2> QED BY <2>3 DEF SavedIsOnDisk
<1>2. RegInv /\ [Next]_vars => RegInv'
  BY StepTypes, StepSaved DEF RegInv
<1> QED BY <1>1, <1>2, PTL DEF Spec

-----------------------------------------------------------------------------
\* The variables keep their types.
THEOREM RegistryTypeCorrect == Spec => []TypeOK
BY RegInvariant, PTL DEF RegInv

\* groups.json and contacts.json are each the whole memory of a live AppState, unless
\* a save is at work, the latest of an AppState failed, or two of them overlapped.
THEOREM FilesAreImages == Spec => []SavedIsOnDisk
BY RegInvariant, PTL DEF RegInv

\* Until a reload, groups_new and groups_join are durable once they return Ok.
THEOREM NoGroupForgotten == Spec => []NothingForgotten
<1>1. Init => EnteredKept
  <2> SUFFICES ASSUME Init PROVE EnteredKept
    OBVIOUS
  <2>1. \A b \in Boots : app[b] = IF b = 1 THEN Loaded(NoGroups, NoBook) ELSE NotBooted
    BY DEF Init
  <2>2. NoGroups \in Indexes /\ NoBook \in Books /\ 1 \in Boots
    BY RegistryAssumption DEF NoGroups, Indexes, NoBook, Books, Boots
  <2>3. Live = {1}
    BY <2>1, <2>2, LoadedType DEF Live
  <2>4. app[1].groupsSave = "saved"
    BY <2>1, <2>2, LoadedType
  <2> QED BY <2>3, <2>4 DEF EnteredKept, Init
<1>2. RegInv /\ EnteredKept /\ [Next]_vars => EnteredKept'
  BY StepEntered
<1>3. EnteredKept => NothingForgotten
  BY DEF EnteredKept, NothingForgotten, Known
<1> QED BY <1>1, <1>2, <1>3, RegInvariant, PTL DEF Spec
=============================================================================
