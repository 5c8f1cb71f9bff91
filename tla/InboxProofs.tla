---------------------------- MODULE InboxProofs ----------------------------
(***************************************************************************)
(* Proofs about Inbox: its types, and that a reload that no refresh        *)
(* straddles makes the window notify neither a share twice nor a share of  *)
(* its own user, though it empties the set of seen shares.                 *)
(***************************************************************************)
EXTENDS Inbox, TLAPS

\* Each reload is heard of once; nobody has an identity of a boot to come.
Heard == events < current /\ \A s \in Shares : author[s] \in 1..current \cup {Peer}

\* What has been notified, and what a refresh has been told, was listed some time; a
\* refresh that is over has been told nothing.
KnownWasListed ==
  /\ \A s \in Shares : notified[s] > 0 => s \notin Never
  /\ \A r \in Refreshes : /\ refresh[r].list \cap Never = {}
                          /\ refresh[r].phase = "idle" => refresh[r].list = {}

\* Removed, and no answer on its way names it.
Gone(s) == s \notin listed /\ \A r \in Refreshes : s \notin refresh[r].list

\* The first load after the set of seen shares was emptied puts in all that was
\* notified before and is still listed, since every refresh in flight began after it
\* was emptied; what is not listed any more is notified no more.
NotifiedIsSeen ==
  \A s \in Shares : notified[s] > 0 =>
    \/ Gone(s)
    \/ IF firstLoad
       THEN /\ s \in listed
            /\ \A r \in Refreshes :
                 refresh[r].phase \in {"listed", "answered"} => s \in refresh[r].list
       ELSE s \in seen

\* A refresh that has asked for the identity has that of the managed AppState.
IdentityIsCurrent ==
  \A r \in Refreshes : refresh[r].phase \in {"identified", "answered"} => refresh[r].id = current

OthersNotified == \A s \in Shares : notified[s] > 0 => author[s] # current

OnceEach == \A s \in Shares : notified[s] <= 1

Uncrossed == NotifiedIsSeen /\ IdentityIsCurrent /\ OthersNotified /\ OnceEach

InboxInv == TypeOK /\ Heard /\ KnownWasListed /\ (~crossed => Uncrossed)

-----------------------------------------------------------------------------
(* Types, and what is listed.                                              *)

LEMMA BootNumbers == MaxBoots \in Nat \ {0} /\ Boots \subseteq Nat /\ Peer \notin Boots /\ 1 \in Boots
BY InboxAssumption DEF Boots

LEMMA InitInv == Init => InboxInv
<1> SUFFICES ASSUME Init PROVE InboxInv
  OBVIOUS
<1> USE BootNumbers
<1>1. Idle \in Requests /\ Idle.phase = "idle" /\ Idle.list = {}
  BY DEF Idle, Requests
<1>2. /\ current = 1 /\ events = 0 /\ refresh = [r \in Refreshes |-> Idle]
      /\ author = [s \in Shares |-> Peer] /\ notified = [s \in Shares |-> 0]
  BY DEF Init
<1>3. TypeOK
  <2>1. current \in Boots /\ author \in [Shares -> Identities] /\ events \in 0..(MaxBoots - 1)
    BY <1>2 DEF Identities
  <2>2. refresh \in [Refreshes -> Requests] /\ notified \in [Shares -> 0..2]
    BY <1>1, <1>2
  <2>3. bootError \in BOOLEAN /\ firstLoad \in BOOLEAN /\ notificationsReady \in BOOLEAN
        /\ crossed \in BOOLEAN
    BY DEF Init
  <2> QED BY <2>1, <2>2, <2>3 DEF Init, TypeOK
<1>4. Heard
  BY <1>2 DEF Heard
<1>5. KnownWasListed
  BY <1>1, <1>2 DEF KnownWasListed
<1>6. Uncrossed
  BY <1>1, <1>2
     DEF Uncrossed, NotifiedIsSeen, IdentityIsCurrent, OthersNotified, OnceEach
<1> QED BY <1>3, <1>4, <1>5, <1>6 DEF InboxInv

\* What a step of a refresh that only gets an answer does.
LEMMA AnswerEffect ==
  ASSUME InboxInv, NEW r \in Refreshes, IdentityShow(r) \/ SharesList(r)
  PROVE  /\ UNCHANGED <<daemon, window, crossed>>
         /\ refresh' \in [Refreshes -> Requests]
         /\ \A q \in Refreshes : q # r => refresh'[q] = refresh[q]
         /\ \/ refresh'[r].phase \notin {"identified", "answered"}
            \/ refresh'[r].id = current
            \/ refresh[r].phase = "identified" /\ refresh'[r].id = refresh[r].id
         /\ \/ refresh'[r].phase \notin {"listed", "answered"}
            \/ refresh'[r].list = listed
            \/ refresh[r].phase = "listed" /\ refresh'[r].list = refresh[r].list
         /\ refresh'[r].list \subseteq listed \cup refresh[r].list /\ refresh'[r].phase # "idle"
<1>1. /\ refresh[r] \in Requests /\ current \in Boots /\ listed \in SUBSET Shares
      /\ refresh[r].list \in SUBSET Shares /\ refresh[r].id \in Boots
  BY DEF InboxInv, TypeOK, Requests
<1>2. PICK to \in {"identified", "listed", "answered"}, id \in Boots, list \in SUBSET Shares :
        /\ Answer(r, refresh[r].phase, to, id, list)
        /\ \/ to = "listed"
           \/ id = current
           \/ refresh[r].phase = "identified" /\ id = refresh[r].id
        /\ \/ to = "identified"
           \/ list = listed
           \/ refresh[r].phase = "listed" /\ list = refresh[r].list
        /\ list \subseteq listed \cup refresh[r].list
  <2>1. CASE Answer(r, "asked", "identified", current, {})
    <3>1. refresh[r].phase = "asked" /\ {} \in SUBSET Shares /\ {} \subseteq listed \cup refresh[r].list
      BY <2>1 DEF Answer
    <3> QED BY <1>1, <2>1, <3>1, Zenon
  <2>2. CASE Answer(r, "listed", "answered", current, refresh[r].list)
    BY <1>1, <2>2 DEF Answer
  <2>3. CASE Answer(r, "asked", "listed", 1, listed)
    BY <1>1, <2>3, BootNumbers DEF Answer
  <2>4. CASE Answer(r, "identified", "answered", refresh[r].id, listed)
    BY <1>1, <2>4 DEF Answer
  <2> QED BY <2>1, <2>2, <2>3, <2>4 DEF IdentityShow, SharesList
<1> DEFINE new == [refresh[r] EXCEPT !.phase = to, !.id = id, !.list = list]
<1>3. new \in Requests /\ new.phase = to /\ new.id = id /\ new.list = list
  BY <1>1 DEF Requests
<1>4. refresh' = [refresh EXCEPT ![r] = new] /\ UNCHANGED <<daemon, window, crossed>>
  BY <1>2 DEF Answer
<1> HIDE DEF new
<1>5. /\ refresh' \in [Refreshes -> Requests] /\ refresh'[r] = new
      /\ \A q \in Refreshes : q # r => refresh'[q] = refresh[q]
  BY <1>3, <1>4 DEF InboxInv, TypeOK
<1> QED BY <1>2, <1>3, <1>4, <1>5

\* What the window does with the answers.
LEMMA SettleEffect ==
  ASSUME InboxInv, NEW r \in Refreshes, Settle(r)
  PROVE  /\ UNCHANGED <<daemon, crossed>> /\ refresh[r].phase = "answered"
         /\ shares' \in SUBSET Shares /\ bootError' = FALSE /\ firstLoad' = FALSE
         /\ notificationsReady' = notificationsReady
         /\ seen' = seen \cup refresh[r].list /\ seen' \in SUBSET Shares
         /\ refresh' \in [Refreshes -> Requests]
         /\ refresh' = [refresh EXCEPT ![r] = Idle]
         /\ notified' \in [Shares -> 0..2]
         /\ \A s \in Shares :
              \/ notified'[s] = notified[s]
              \/ /\ notified'[s] = notified[s] + 1
                 /\ ~firstLoad /\ s \in refresh[r].list \ seen /\ author[s] # refresh[r].id
<1>1. refresh[r] \in Requests /\ refresh[r].list \in SUBSET Shares /\ seen \in SUBSET Shares
  BY DEF InboxInv, TypeOK, Requests
<1>2. Idle \in Requests
  BY BootNumbers DEF Idle, Requests
<1>3. PICK ss \in SUBSET Shares :
        /\ notified' = [s \in Shares |->
             IF s \in ss /\ notificationsReady /\ notified[s] < 2
             THEN notified[s] + 1 ELSE notified[s]]
        /\ ss # {} => ~firstLoad
        /\ \A s \in ss : s \in refresh[r].list \ seen /\ author[s] # refresh[r].id
  <2> DEFINE ss == IF firstLoad THEN {} ELSE OfOthers(Fresh(r), refresh[r].id)
  <2>1. Notify(ss)
    BY DEF Settle
  <2>2. /\ ss \in SUBSET Shares /\ (ss # {} => ~firstLoad)
        /\ \A s \in ss : s \in refresh[r].list \ seen /\ author[s] # refresh[r].id
    BY <1>1 DEF OfOthers, Fresh
  <2> HIDE DEF ss
  <2> QED BY <2>1, <2>2 DEF Notify
<1>4. \A s \in Shares : notified[s] \in 0..2
  BY DEF InboxInv, TypeOK
<1>5. notified' \in [Shares -> 0..2]
  <2>1. \A s \in Shares : notified'[s] \in 0..2
    BY <1>3, <1>4
  <2> QED BY <1>3, <2>1
<1> QED BY <1>1, <1>2, <1>3, <1>5
        DEF Settle, Shown, SeenAfter, InboxInv, TypeOK

\* A refresh is asked for: by the timer, or on hearing of a reload.
LEMMA AskEffect ==
  ASSUME InboxInv, NEW r \in Refreshes, refresh[r].phase = "idle",
         refresh' = [refresh EXCEPT ![r] = Asked]
  PROVE  /\ refresh' \in [Refreshes -> Requests]
         /\ refresh'[r].phase = "asked" /\ refresh'[r].list = {}
         /\ \A q \in Refreshes : q # r => refresh'[q] = refresh[q]
<1>1. Asked \in Requests /\ Asked.phase = "asked" /\ Asked.list = {}
  BY BootNumbers DEF Asked, Idle, Requests, InboxInv, TypeOK
<1> QED BY <1>1 DEF InboxInv, TypeOK

\* A refresh is over.
LEMMA OverEffect ==
  ASSUME InboxInv, NEW r \in Refreshes, refresh' = [refresh EXCEPT ![r] = Idle]
  PROVE  /\ refresh' \in [Refreshes -> Requests]
         /\ refresh'[r].phase = "idle" /\ refresh'[r].list = {}
         /\ \A q \in Refreshes : q # r => refresh'[q] = refresh[q]
<1>1. Idle \in Requests /\ Idle.phase = "idle" /\ Idle.list = {}
  BY BootNumbers DEF Idle, Requests
<1> QED BY <1>1 DEF InboxInv, TypeOK

-----------------------------------------------------------------------------
(* Every step keeps the invariant.                                         *)

\* Shares, which the window does not see yet.
LEMMA ShareStep ==
  ASSUME InboxInv, NEW s \in Shares, NEW who \in Identities, Share(s, who)
  PROVE  InboxInv'
<1>0. /\ current \in Boots /\ current \in Nat /\ 1 <= current
      /\ author \in [Shares -> Identities] /\ notified \in [Shares -> 0..2]
  BY BootNumbers DEF InboxInv, TypeOK, Boots
<1>1. /\ s \in Never /\ who \in {Peer, current}
      /\ author' = [author EXCEPT ![s] = who] /\ listed' = listed \cup {s}
      /\ UNCHANGED <<current, removed, events, refresh, window, crossed>>
  BY DEF Share
<1>2. TypeOK'
  BY <1>0, <1>1 DEF InboxInv, TypeOK, window, Never
<1>3. Heard'
  BY <1>0, <1>1 DEF InboxInv, Heard
<1>4. KnownWasListed'
  BY <1>1 DEF InboxInv, KnownWasListed, Never, window
<1>5. ~(notified[s] > 0)
  BY <1>1 DEF InboxInv, KnownWasListed
<1>6. ASSUME Uncrossed PROVE Uncrossed'
  <2>1. IdentityIsCurrent' /\ OnceEach'
    BY <1>1, <1>6 DEF Uncrossed, IdentityIsCurrent, OnceEach, window
  <2>2. OthersNotified'
    BY <1>0, <1>1, <1>5, <1>6 DEF Uncrossed, OthersNotified, window
  <2>3. \A t \in Shares : notified[t] > 0 => (t \in listed' <=> t \in listed)
    BY <1>1, <1>5
  <2>4. NotifiedIsSeen'
    BY <1>1, <1>6, <2>3 DEF Uncrossed, NotifiedIsSeen, Gone, window
  <2> QED BY <2>1, <2>2, <2>4 DEF Uncrossed
<1> QED BY <1>1, <1>2, <1>3, <1>4, <1>6 DEF InboxInv

\* Groups are removed or joined again: what is notified counts from there.
LEMMA GroupsStep ==
  ASSUME InboxInv, NEW ss \in SUBSET (listed \cup removed),
         notified' = Counted(ss, 0),
         listed' \cup removed' = listed \cup removed, listed' \cap removed' = {},
         \A t \in Shares \ ss : t \in listed' <=> t \in listed,
         UNCHANGED <<current, author, events, refresh, shares, bootError, seen, firstLoad,
                     notificationsReady, crossed>>
  PROVE  InboxInv'
<1>1. /\ notified \in [Shares -> 0..2]
      /\ notified' = [t \in Shares |-> IF t \in ss THEN 0 ELSE notified[t]]
  BY DEF InboxInv, TypeOK, Counted
<1>2. /\ notified' \in [Shares -> 0..2]
      /\ \A t \in Shares : notified'[t] > 0 => t \notin ss /\ notified'[t] = notified[t]
      /\ \A t \in Shares : notified'[t] <= 1 \/ notified'[t] = notified[t]
  BY <1>1
<1>3. TypeOK' /\ Heard'
  BY <1>2 DEF InboxInv, TypeOK, Heard
<1>4. KnownWasListed'
  BY <1>2 DEF InboxInv, KnownWasListed, Never
<1>5. ASSUME Uncrossed PROVE Uncrossed'
  <2>1. IdentityIsCurrent' /\ OnceEach' /\ OthersNotified'
    BY <1>2, <1>5 DEF Uncrossed, IdentityIsCurrent, OnceEach, OthersNotified
  <2>2. NotifiedIsSeen'
    BY <1>2, <1>5 DEF Uncrossed, NotifiedIsSeen, Gone
  <2> QED BY <2>1, <2>2 DEF Uncrossed
<1> QED BY <1>3, <1>4, <1>5 DEF InboxInv

\* A reload, which the window does not see yet either.
LEMMA ReloadStep ==
  ASSUME InboxInv, NEW imported \in SUBSET (Shares \ listed),
         NEW own \in SUBSET (imported \ removed), Reload(imported, own)
  PROVE  InboxInv'
<1>0. /\ current \in Boots /\ current \in Nat /\ 1 <= current /\ events \in Nat
      /\ author \in [Shares -> Identities] /\ notified \in [Shares -> 0..2]
      /\ MaxBoots \in Nat /\ Peer \notin Boots
  BY BootNumbers DEF InboxInv, TypeOK, Boots
<1>1. /\ current < MaxBoots /\ current' = current + 1 /\ events' = events + 1
      /\ author' = [t \in Shares |-> IF t \in own THEN current + 1 ELSE author[t]]
      /\ listed' = listed \cup imported /\ removed' = removed \ imported
      /\ notified' = [t \in Shares |-> IF t \in imported THEN 0 ELSE notified[t]]
      /\ crossed' = (crossed \/ InFlight # {})
      /\ UNCHANGED <<refresh, shares, bootError, seen, firstLoad, notificationsReady>>
  BY DEF Reload, Emitted, Counted
<1>2. current' \in Boots
  BY <1>0, <1>1 DEF Boots
<1>3. /\ notified' \in [Shares -> 0..2]
      /\ \A t \in Shares : notified'[t] > 0 => t \notin imported /\ notified'[t] = notified[t]
      /\ \A t \in Shares : notified'[t] <= 1 \/ notified'[t] = notified[t]
  BY <1>0, <1>1
<1>4. TypeOK'
  <2>1. events' \in 0..(MaxBoots - 1)
    BY <1>0, <1>1 DEF InboxInv, Heard
  <2>2. author' \in [Shares -> Identities]
    BY <1>0, <1>1, <1>2 DEF Identities
  <2>3. /\ listed' \in SUBSET Shares /\ removed' \in SUBSET Shares
        /\ listed' \cap removed' = {} /\ crossed' \in BOOLEAN
    BY <1>1 DEF InboxInv, TypeOK
  <2> QED BY <1>1, <1>2, <1>3, <2>1, <2>2, <2>3 DEF InboxInv, TypeOK
<1>5. Heard'
  BY <1>0, <1>1 DEF InboxInv, Heard
<1>6. KnownWasListed'
  BY <1>1, <1>3 DEF InboxInv, KnownWasListed, Never
<1>7. ASSUME ~crossed' PROVE Uncrossed'
  <2>1. ~crossed /\ InFlight = {} /\ Uncrossed
    BY <1>1, <1>7 DEF InboxInv
  <2>2. OnceEach'
    BY <1>3, <2>1 DEF Uncrossed, OnceEach
  <2>3. NotifiedIsSeen'
    BY <1>1, <1>3, <2>1 DEF Uncrossed, NotifiedIsSeen, Gone
  <2>4. IdentityIsCurrent'
    BY <1>1, <2>1 DEF IdentityIsCurrent, InFlight
  <2>5. OthersNotified'
    <3>1. ASSUME NEW t \in Shares, notified'[t] > 0 PROVE author'[t] # current + 1
      <4>1. t \notin own /\ author[t] \in 1..current \cup {Peer}
        BY <1>3, <3>1 DEF InboxInv, Heard
      <4>2. current + 1 # Peer
        BY <1>0, <1>1 DEF Boots
      <4> QED BY <1>0, <1>1, <4>1, <4>2
    <3> QED BY <1>1, <3>1 DEF OthersNotified
  <2> QED BY <2>2, <2>3, <2>4, <2>5 DEF Uncrossed
<1> QED BY <1>4, <1>5, <1>6, <1>7 DEF InboxInv

\* A refresh that begins, is answered or fails changes neither what is seen nor
\* what is notified.
LEMMA RefreshStep ==
  ASSUME InboxInv, NEW r \in Refreshes,
         Refresh(r) \/ IdentityShow(r) \/ SharesList(r) \/ RefreshFails(r)
  PROVE  InboxInv'
<1>1. /\ UNCHANGED <<daemon, crossed, shares, seen, firstLoad, notificationsReady, notified>>
      /\ bootError' \in BOOLEAN
      /\ refresh' \in [Refreshes -> Requests]
      /\ \A q \in Refreshes : q # r => refresh'[q] = refresh[q]
      /\ \/ refresh'[r].phase \notin {"identified", "answered"}
         \/ refresh'[r].id = current
         \/ refresh[r].phase = "identified" /\ refresh'[r].id = refresh[r].id
      /\ \/ refresh'[r].phase \notin {"listed", "answered"}
         \/ refresh'[r].list = listed
         \/ refresh[r].phase = "listed" /\ refresh'[r].list = refresh[r].list
      /\ refresh'[r].list \subseteq listed \cup refresh[r].list
      /\ refresh'[r].phase = "idle" => refresh'[r].list = {}
  <2>1. CASE Refresh(r)
    BY <2>1, AskEffect DEF Refresh, InboxInv, TypeOK, window
  <2>2. CASE IdentityShow(r) \/ SharesList(r)
    BY <2>2, AnswerEffect DEF InboxInv, TypeOK, window
  <2>3. CASE RefreshFails(r)
    BY <2>3, OverEffect DEF RefreshFails
  <2> QED BY <2>1, <2>2, <2>3
<1>2. TypeOK' /\ Heard'
  BY <1>1 DEF InboxInv, TypeOK, Heard, daemon
<1>3. KnownWasListed'
  BY <1>1 DEF InboxInv, KnownWasListed, Never, daemon
<1>4. ASSUME ~crossed PROVE Uncrossed'
  <2>1. Uncrossed
    BY <1>4 DEF InboxInv
  <2>2. OthersNotified' /\ OnceEach'
    BY <1>1, <2>1 DEF Uncrossed, OthersNotified, OnceEach, daemon
  <2>3. IdentityIsCurrent'
    BY <1>1, <2>1 DEF Uncrossed, IdentityIsCurrent, daemon
  <2>4. NotifiedIsSeen'
    <3> SUFFICES ASSUME NEW s \in Shares, notified[s] > 0
                 PROVE  \/ Gone(s)'
                        \/ IF firstLoad
                           THEN /\ s \in listed
                                /\ \A q \in Refreshes : refresh'[q].phase \in {"listed", "answered"}
                                                        => s \in refresh'[q].list
                           ELSE s \in seen
      BY <1>1 DEF NotifiedIsSeen, daemon
    <3>1. CASE Gone(s)
      BY <1>1, <3>1 DEF Gone, daemon
    <3>2. CASE ~Gone(s)
      BY <1>1, <2>1, <3>2 DEF Uncrossed, NotifiedIsSeen
    <3> QED BY <3>1, <3>2
  <2> QED BY <2>2, <2>3, <2>4 DEF Uncrossed
<1> QED BY <1>1, <1>2, <1>3, <1>4 DEF InboxInv

\* The answers reach the window: what is notified was not seen before and is now.
LEMMA SettleStep ==
  ASSUME InboxInv, NEW r \in Refreshes, Settle(r)
  PROVE  InboxInv'
<1>1. /\ UNCHANGED <<daemon, crossed>> /\ refresh[r].phase = "answered"
      /\ shares' \in SUBSET Shares /\ bootError' = FALSE /\ firstLoad' = FALSE
      /\ notificationsReady' = notificationsReady
      /\ seen' = seen \cup refresh[r].list /\ seen' \in SUBSET Shares
      /\ notified' \in [Shares -> 0..2]
      /\ \A s \in Shares :
           \/ notified'[s] = notified[s]
           \/ /\ notified'[s] = notified[s] + 1
              /\ ~firstLoad /\ s \in refresh[r].list \ seen /\ author[s] # refresh[r].id
  BY SettleEffect
<1>2. /\ refresh' \in [Refreshes -> Requests]
      /\ refresh'[r].phase = "idle" /\ refresh'[r].list = {}
      /\ \A q \in Refreshes : q # r => refresh'[q] = refresh[q]
  BY SettleEffect, OverEffect
<1>3. \A s \in Shares : notified[s] \in Nat
  BY DEF InboxInv, TypeOK
<1>4. TypeOK' /\ Heard'
  BY <1>1, <1>2 DEF InboxInv, TypeOK, Heard, daemon
<1>5. KnownWasListed'
  <2>1. /\ \A s \in Shares : s \in Never' <=> s \in Never
        /\ \A q \in Refreshes : refresh[q].list \in SUBSET Shares
    BY <1>1 DEF InboxInv, TypeOK, Requests, Never, daemon
  <2>2. \A s \in Shares : s \in refresh[r].list => s \notin Never
    BY DEF InboxInv, KnownWasListed
  <2>3. ASSUME NEW s \in Shares, notified'[s] > 0 PROVE s \notin Never'
    BY <1>1, <1>3, <2>1, <2>2, <2>3 DEF InboxInv, KnownWasListed
  <2>4. ASSUME NEW q \in Refreshes
        PROVE  /\ refresh'[q].list \cap Never' = {}
               /\ refresh'[q].phase = "idle" => refresh'[q].list = {}
    BY <1>2, <2>1 DEF InboxInv, KnownWasListed
  <2> QED BY <2>3, <2>4 DEF KnownWasListed
<1>6. ASSUME ~crossed PROVE Uncrossed'
  <2>1. /\ NotifiedIsSeen /\ IdentityIsCurrent /\ OthersNotified /\ OnceEach
        /\ UNCHANGED <<current, author>>
    BY <1>1, <1>6 DEF InboxInv, Uncrossed, daemon
  <2>2. NotifiedIsSeen'
    <3> SUFFICES ASSUME NEW s \in Shares, notified'[s] > 0 PROVE Gone(s)' \/ s \in seen'
      BY <1>1 DEF NotifiedIsSeen
    <3>1. CASE notified'[s] = notified[s]
      <4>1. CASE Gone(s)
        BY <1>1, <1>2, <4>1 DEF Gone, daemon
      <4>2. CASE ~Gone(s)
        BY <1>1, <2>1, <3>1, <4>2 DEF NotifiedIsSeen
      <4> QED BY <4>1, <4>2
    <3>2. CASE notified'[s] # notified[s]
      BY <1>1, <3>2
    <3> QED BY <3>1, <3>2
  <2>3. IdentityIsCurrent'
    BY <1>2, <2>1 DEF IdentityIsCurrent
  <2>4. OthersNotified'
    <3>1. refresh[r].id = current
      BY <1>1, <2>1 DEF IdentityIsCurrent
    <3> QED BY <1>1, <1>3, <2>1, <3>1 DEF OthersNotified
  <2>5. OnceEach'
    <3> SUFFICES ASSUME NEW s \in Shares PROVE notified'[s] <= 1
      BY DEF OnceEach
    <3>1. CASE notified'[s] = notified[s]
      BY <2>1, <3>1 DEF OnceEach
    <3>2. CASE notified'[s] # notified[s]
      <4>1. ~firstLoad /\ s \notin seen /\ notified'[s] = notified[s] + 1
        BY <1>1, <3>2
      <4>2. ~Gone(s)
        BY <1>1, <3>2 DEF Gone
      <4>3. ~(notified[s] > 0)
        BY <2>1, <4>1, <4>2 DEF NotifiedIsSeen
      <4> QED BY <1>3, <4>1, <4>3
    <3> QED BY <3>1, <3>2
  <2> QED BY <2>2, <2>3, <2>4, <2>5 DEF Uncrossed
<1> QED BY <1>1, <1>4, <1>5, <1>6 DEF InboxInv

\* The window hears of a reload and empties its set.
LEMMA ReloadedStep ==
  ASSUME InboxInv, NEW r \in Refreshes, Reloaded(r)
  PROVE  InboxInv'
<1>1. /\ events > 0 /\ events' = events - 1 /\ seen' = {} /\ firstLoad' = TRUE
      /\ refresh[r].phase = "idle" /\ refresh' = [refresh EXCEPT ![r] = Asked]
      /\ crossed' = (crossed \/ InFlight # {})
      /\ UNCHANGED <<current, author, listed, removed, shares, bootError, notificationsReady, notified>>
  BY DEF Reloaded
<1>2. /\ refresh' \in [Refreshes -> Requests]
      /\ refresh'[r].phase = "asked" /\ refresh'[r].list = {}
      /\ \A q \in Refreshes : q # r => refresh'[q] = refresh[q]
  BY <1>1, AskEffect
<1>3. TypeOK'
  <2>1. events' \in 0..(MaxBoots - 1)
    BY <1>1, BootNumbers DEF InboxInv, TypeOK
  <2>2. crossed' \in BOOLEAN /\ seen' \in SUBSET Shares /\ firstLoad' \in BOOLEAN
    BY <1>1 DEF InboxInv, TypeOK
  <2> QED BY <1>1, <1>2, <2>1, <2>2 DEF InboxInv, TypeOK
<1>4. Heard'
  BY <1>1, BootNumbers DEF InboxInv, TypeOK, Heard, Boots
<1>5. KnownWasListed'
  BY <1>1, <1>2 DEF InboxInv, KnownWasListed, Never
<1>6. ASSUME ~crossed' PROVE Uncrossed'
  <2>1. Uncrossed /\ \A q \in Refreshes : refresh[q].phase = "idle" /\ refresh[q].list = {}
    BY <1>1, <1>6 DEF InboxInv, InFlight, KnownWasListed
  <2>2. \A q \in Refreshes : refresh'[q].phase \in {"idle", "asked"}
    BY <1>2, <2>1
  <2>3. IdentityIsCurrent'
    BY <2>2 DEF IdentityIsCurrent
  <2>5. NotifiedIsSeen'
    <3>1. \A q \in Refreshes : refresh'[q].list = {} \/ refresh'[q] = refresh[q]
      BY <1>2
    <3>2. \A s \in Shares : Gone(s) => Gone(s)'
      BY <1>1, <3>1 DEF Gone
    <3>3. \A s \in Shares : Gone(s) \/ s \in listed
      BY <2>1 DEF Gone
    <3> QED BY <1>1, <2>2, <3>2, <3>3 DEF NotifiedIsSeen
  <2>4. OthersNotified' /\ OnceEach'
    BY <1>1, <2>1 DEF Uncrossed, OthersNotified, OnceEach
  <2> QED BY <2>3, <2>4, <2>5 DEF Uncrossed
<1> QED BY <1>3, <1>4, <1>5, <1>6 DEF InboxInv

\* The inductive invariant.
LEMMA InboxInvariant == Spec => []InboxInv
<1>1. InboxInv /\ [Next]_vars => InboxInv'
  <2> SUFFICES ASSUME InboxInv, [Next]_vars PROVE InboxInv'
    OBVIOUS
  <2>1. CASE \E r \in Refreshes : Refresh(r) \/ Go(r) \/ Reloaded(r)
    BY <2>1, RefreshStep, SettleStep, ReloadedStep DEF Go
  <2>2. ASSUME UNCHANGED <<daemon, refresh, shares, bootError, seen, firstLoad, notified, crossed>>,
               notificationsReady' \in BOOLEAN
        PROVE  InboxInv'
    <3>1. TypeOK' /\ Heard' /\ KnownWasListed'
      BY <2>2 DEF InboxInv, TypeOK, Heard, KnownWasListed, Never, daemon
    <3>2. Uncrossed => Uncrossed'
      BY <2>2 DEF Uncrossed, NotifiedIsSeen, Gone, IdentityIsCurrent, OthersNotified, OnceEach, daemon
    <3> QED BY <2>2, <3>1, <3>2 DEF InboxInv
  <2>3. CASE GrantPermission
    BY <2>2, <2>3 DEF GrantPermission
  <2>4. CASE UNCHANGED vars
    BY <2>2, <2>4 DEF vars, daemon, InboxInv, TypeOK
  <2>5. ASSUME NEW ss \in SUBSET listed, GroupsRemove(ss) PROVE InboxInv'
    <3>1. /\ notified' = Counted(ss, 0) /\ ss \subseteq listed \cup removed
          /\ UNCHANGED <<current, author, events, refresh, shares, bootError, seen, firstLoad,
                         notificationsReady, crossed>>
      BY <2>5 DEF GroupsRemove
    <3>2. /\ listed' \cup removed' = listed \cup removed /\ listed' \cap removed' = {}
          /\ \A t \in Shares \ ss : t \in listed' <=> t \in listed
      BY <2>5 DEF GroupsRemove, InboxInv, TypeOK
    <3> QED BY <3>1, <3>2, GroupsStep
  <2>6. ASSUME NEW ss \in SUBSET removed, GroupsJoin(ss) PROVE InboxInv'
    <3>1. /\ notified' = Counted(ss, 0) /\ ss \subseteq listed \cup removed
          /\ UNCHANGED <<current, author, events, refresh, shares, bootError, seen, firstLoad,
                         notificationsReady, crossed>>
      BY <2>6 DEF GroupsJoin
    <3>2. /\ listed' \cup removed' = listed \cup removed /\ listed' \cap removed' = {}
          /\ \A t \in Shares \ ss : t \in listed' <=> t \in listed
      BY <2>6 DEF GroupsJoin, InboxInv, TypeOK
    <3> QED BY <3>1, <3>2, GroupsStep
  <2>7. CASE (\E ss \in SUBSET listed : GroupsRemove(ss)) \/ (\E ss \in SUBSET removed : GroupsJoin(ss))
    BY <2>5, <2>6, <2>7
  <2>8. CASE \/ \E s \in Shares, who \in Identities : Share(s, who)
             \/ \E imported \in SUBSET (Shares \ listed) :
                  \E own \in SUBSET (imported \ removed) : Reload(imported, own)
    BY <2>8, ShareStep, ReloadStep
  <2> QED BY <2>1, <2>3, <2>4, <2>7, <2>8, Zenon DEF Next
<1> QED BY <1>1, InitInv, PTL DEF Spec

-----------------------------------------------------------------------------
\* The variables keep their types.
THEOREM InboxTypeCorrect == Spec => []TypeOK
BY InboxInvariant, PTL DEF InboxInv

\* However many refreshes overlap, a share is notified once at most, unless one of
\* them was in flight across a reload.
THEOREM NoDoubleNotification == Spec => []NotifiedOnce
<1>1. InboxInv => NotifiedOnce
  BY DEF InboxInv, Uncrossed, OnceEach, NotifiedOnce
<1> QED BY <1>1, InboxInvariant, PTL

\* And no share of the user's own identity is.
THEOREM OwnSharesAreSilent == Spec => []OwnNotNotified
<1>1. InboxInv => OwnNotNotified
  BY DEF InboxInv, Uncrossed, OthersNotified, OwnNotNotified
<1> QED BY <1>1, InboxInvariant, PTL

-----------------------------------------------------------------------------
(* Why what is listed is shown for good, and what arrives is notified.     *)

\* The refreshes that have asked for the list before s was in it, and have not reached
\* the window yet.
Behind(s) ==
  {r \in Refreshes : refresh[r].phase \in {"listed", "answered"} /\ s \notin refresh[r].list}

\* No refresh falls behind a share that is listed, and only one that is forgets it.
LEMMA BehindStep ==
  ASSUME InboxInv, [Next]_vars, NEW s \in listed
  PROVE  /\ Behind(s)' \subseteq Behind(s)
         /\ s \in shares \ shares' => Behind(s)' # Behind(s)
<1>1. ASSUME UNCHANGED <<refresh, shares>>
      PROVE  Behind(s)' = Behind(s) /\ shares' = shares
  BY <1>1 DEF Behind
<1>2. ASSUME NEW r \in Refreshes, refresh'[r].phase \in {"idle", "asked"},
             \A q \in Refreshes : q # r => refresh'[q] = refresh[q]
      PROVE  Behind(s)' = Behind(s) \ {r}
  BY <1>2 DEF Behind
<1>3. ASSUME NEW r \in Refreshes, Refresh(r) \/ Reloaded(r)
      PROVE  Behind(s)' \subseteq Behind(s) /\ shares' = shares
  <2>1. /\ refresh[r].phase = "idle" /\ refresh' = [refresh EXCEPT ![r] = Asked]
        /\ shares' = shares
    BY <1>3 DEF Refresh, Reloaded, window
  <2> QED BY <1>2, <2>1, AskEffect
<1>4. ASSUME NEW r \in Refreshes, RefreshFails(r)
      PROVE  Behind(s)' \subseteq Behind(s) /\ shares' = shares
  <2>1. refresh' = [refresh EXCEPT ![r] = Idle] /\ shares' = shares
    BY <1>4 DEF RefreshFails
  <2> QED BY <1>2, <2>1, OverEffect
<1>5. ASSUME NEW r \in Refreshes, IdentityShow(r) \/ SharesList(r)
      PROVE  Behind(s)' \subseteq Behind(s) /\ shares' = shares
  BY <1>5, AnswerEffect DEF Behind, window
<1>6. ASSUME NEW r \in Refreshes, Settle(r)
      PROVE  /\ Behind(s)' \subseteq Behind(s)
             /\ s \notin shares' => Behind(s)' # Behind(s)
  <2>1. refresh' = [refresh EXCEPT ![r] = Idle] /\ refresh[r].phase = "answered"
    BY <1>6 DEF Settle
  <2>2. Behind(s)' = Behind(s) \ {r}
    BY <1>2, <2>1, OverEffect
  <2>3. s \notin shares' => r \in Behind(s)
    BY <1>6, <2>1 DEF Settle, Shown, Behind
  <2> QED BY <2>2, <2>3
<1>7. CASE \/ \E t \in Shares, who \in Identities : Share(t, who)
           \/ (\E ss \in SUBSET listed : GroupsRemove(ss)) \/ (\E ss \in SUBSET removed : GroupsJoin(ss))
           \/ \E imported \in SUBSET (Shares \ listed) :
                \E own \in SUBSET (imported \ removed) : Reload(imported, own)
           \/ GrantPermission \/ UNCHANGED vars
  BY <1>1, <1>7 DEF Share, GroupsRemove, GroupsJoin, Reload, GrantPermission, window, vars
<1> QED BY <1>3, <1>4, <1>5, <1>6, <1>7 DEF Next, Go

\* A share that is listed disappears from the window only when a refresh that listed
\* the shares before it arrived is answered late; no new refresh becomes late, so the
\* share disappears at most as often as there were refreshes in flight (refresh in
\* App.tsx, which does not wait for the one before).
THEOREM OnlyLateRefreshesForget ==
  Spec => [][\A s \in listed : /\ Behind(s)' \subseteq Behind(s)
                               /\ s \in shares \ shares' => Behind(s)' # Behind(s)]_vars
<1>1. InboxInv /\ [Next]_vars =>
        [\A s \in listed : /\ Behind(s)' \subseteq Behind(s)
                           /\ s \in shares \ shares' => Behind(s)' # Behind(s)]_vars
  BY BehindStep
<1> QED BY <1>1, InboxInvariant, PTL DEF Spec

\* Once the window has loaded and has permission, no share of somebody else is counted
\* among the seen ones without having been notified, whichever refresh brings it first.
THEOREM ArrivalsAreNotPassedOver ==
  Spec => [][\A s \in Shares :
               s \in seen' \ seen /\ author[s] = Peer /\ ~firstLoad /\ notificationsReady
                 => notified'[s] > 0]_vars
<1> DEFINE A == \A s \in Shares :
                  s \in seen' \ seen /\ author[s] = Peer /\ ~firstLoad /\ notificationsReady
                    => notified'[s] > 0
<1>1. InboxInv /\ [Next]_vars => [A]_vars
  <2> SUFFICES ASSUME InboxInv, [Next]_vars, NEW s \in Shares, s \in seen' \ seen,
                      author[s] = Peer, ~firstLoad, notificationsReady
               PROVE  notified'[s] > 0
    OBVIOUS
  <2>1. PICK r \in Refreshes : Settle(r)
    BY DEF Next, Go, Share, GroupsRemove, GroupsJoin, Reload, GrantPermission, Refresh, IdentityShow, SharesList, Answer,
           RefreshFails, Reloaded, window, vars
  <2>2. s \in refresh[r].list
    BY <2>1, SettleEffect
  <2>3. refresh[r].id # Peer /\ notified[s] \in 0..2
    BY BootNumbers DEF InboxInv, TypeOK, Requests
  <2>4. s \in OfOthers(Fresh(r), refresh[r].id)
    BY <2>2, <2>3 DEF OfOthers, Fresh
  <2>5. notified'[s] = IF notified[s] < 2 THEN notified[s] + 1 ELSE notified[s]
    BY <2>1, <2>4 DEF Settle, Notify
  <2> QED BY <2>3, <2>5
<1> HIDE DEF A
<1>2. Spec => [][A]_vars
  BY <1>1, InboxInvariant, PTL DEF Spec
<1> QED BY <1>2 DEF A
=============================================================================
