-------------------------------- MODULE Inbox -------------------------------
(***************************************************************************)
(* What the window knows of the shares and what it tells its user          *)
(* (App.tsx): a refresh every three seconds, after a reload and after what *)
(* the user does in a modal, none of which waits for the one before.       *)
(*                                                                         *)
(* A refresh is three calls at once.  Each is served by the AppState that  *)
(* is managed when it is served, so that a reload may come between them.   *)
(* An AppState has the identity of its boot.  What it lists grows by       *)
(* sharing and joining and shrinks when a group is removed.                *)
(***************************************************************************)
EXTENDS Naturals

CONSTANTS
  Shares,
  Refreshes,   \* bound of the model: how many refreshes are in flight at once
  MaxBoots,    \* bound of the model: how many AppStates there may be
  Peer         \* the identity of anybody else

Boots == 1..MaxBoots
Identities == Boots \cup {Peer}

ASSUME InboxAssumption == MaxBoots \in Nat \ {0} /\ Peer \notin Boots

VARIABLES
  current,     \* the managed AppState
  author,      \* the shares made so far, and by whom (Peer for those not made yet)
  listed,      \* what shares_list of the managed AppState has
  removed,     \* what it had, of groups that were removed and not joined again
  events,      \* how many shmark://reloaded are on their way
  refresh,     \* the refreshes
  shares, bootError,  \* what the window shows
  seen, firstLoad, notificationsReady,  \* its refs
  notified,    \* how often each was since it was last put on or taken off the list, up to two
  crossed      \* a refresh was in flight when the AppState or the refs were replaced

vars == <<current, author, listed, removed, events, refresh, shares, bootError,
          seen, firstLoad, notificationsReady, notified, crossed>>
daemon == <<current, author, listed, removed, events>>
window == <<shares, bootError, seen, firstLoad, notificationsReady, notified>>

Requests ==
  [phase : {"idle", "asked", "identified", "listed", "answered"},
   id : Boots,               \* the answer of identity_show
   list : SUBSET Shares]     \* the answer of shares_list
Idle == [phase |-> "idle", id |-> 1, list |-> {}]
InFlight == {r \in Refreshes : refresh[r].phase # "idle"}

Init ==
  /\ current = 1
  /\ author = [s \in Shares |-> Peer]
  /\ listed \in SUBSET Shares /\ removed = {}
  /\ events = 0
  /\ refresh = [r \in Refreshes |-> Idle]
  /\ shares = {} /\ bootError = FALSE
  /\ seen = {} /\ firstLoad = TRUE /\ notificationsReady = FALSE
  /\ notified = [s \in Shares |-> 0]
  /\ crossed = FALSE

-----------------------------------------------------------------------------
(* What happens to the AppState meanwhile.                                 *)

Never == Shares \ (listed \cup removed)

\* Somebody's share arrives, or the user shares something.
Share(s, who) ==
  /\ s \in Never /\ who \in {Peer, current}
  /\ author' = [author EXCEPT ![s] = who]
  /\ listed' = listed \cup {s}
  /\ UNCHANGED <<current, removed, events, refresh, window, crossed>>

Counted(ss, n) == [s \in Shares |-> IF s \in ss THEN n ELSE notified[s]]

\* groups_remove: the list is shorter, and the group's document is left as it is.
GroupsRemove(ss) ==
  /\ ss # {}
  /\ listed' = listed \ ss /\ removed' = removed \cup ss
  /\ notified' = Counted(ss, 0)
  /\ UNCHANGED <<current, author, events, refresh, shares, bootError, seen, firstLoad,
                 notificationsReady, crossed>>

\* groups_join again.
GroupsJoin(ss) ==
  /\ ss # {}
  /\ listed' = listed \cup ss /\ removed' = removed \ ss
  /\ notified' = Counted(ss, 0)
  /\ UNCHANGED <<current, author, events, refresh, shares, bootError, seen, firstLoad,
                 notificationsReady, crossed>>

EmittedTwice == events + 2
Emitted == events + 1

\* A join ended: the new AppState has the host's identity, its groups and what is in
\* them, by others or by that very identity, removed groups among them.
Reload(imported, own) ==
  /\ current < MaxBoots
  /\ current' = current + 1
  /\ author' = [s \in Shares |-> IF s \in own THEN current + 1 ELSE author[s]]
  /\ listed' = listed \cup imported /\ removed' = removed \ imported
  /\ notified' = Counted(imported, 0)
  /\ events' = Emitted
  /\ crossed' = (crossed \/ InFlight # {})
  /\ UNCHANGED <<refresh, shares, bootError, seen, firstLoad, notificationsReady>>

-----------------------------------------------------------------------------
(* A refresh.                                                              *)

Asked == [Idle EXCEPT !.phase = "asked"]

Refresh(r) ==
  /\ refresh[r].phase = "idle"
  /\ refresh' = [refresh EXCEPT ![r] = Asked]
  /\ UNCHANGED <<daemon, window, crossed>>

Answer(r, from, to, id, list) ==
  /\ refresh[r].phase = from
  /\ refresh' = [refresh EXCEPT ![r] = [@ EXCEPT !.phase = to, !.id = id, !.list = list]]
  /\ UNCHANGED <<daemon, window, crossed>>

IdentityShow(r) ==
  \/ Answer(r, "asked", "identified", current, {})
  \/ Answer(r, "listed", "answered", current, refresh[r].list)

SharesList(r) ==
  \/ Answer(r, "asked", "listed", 1, listed)
  \/ Answer(r, "identified", "answered", refresh[r].id, listed)

\* Not in the set of seen shares as it is now, which may not be that of the beginning.
FreshAfterwards(r) == refresh[r].list \ (seen \cup refresh[r].list)
Fresh(r) == refresh[r].list \ seen

SeenReplaced(r) == refresh[r].list
SeenAfter(r) == seen \cup refresh[r].list

\* setShares, setBootError(null)
OnlyFresh(r) == Fresh(r)
Shown(r) == refresh[r].list

OfAll(ss, id) == ss
OfOthers(ss, id) == {s \in ss : author[s] # id}

\* notifyNewShare, for each of them.
Notify(ss) ==
  notified' = [s \in Shares |->
    IF s \in ss /\ notificationsReady /\ notified[s] < 2 THEN notified[s] + 1 ELSE notified[s]]

\* All three have answered.
Settle(r) ==
  /\ refresh[r].phase = "answered"
  /\ shares' = Shown(r)
  /\ bootError' = FALSE
  /\ seen' = SeenAfter(r)
  /\ firstLoad' = FALSE
  /\ Notify(IF firstLoad THEN {} ELSE OfOthers(Fresh(r), refresh[r].id))
  /\ refresh' = [refresh EXCEPT ![r] = Idle]
  /\ UNCHANGED <<daemon, notificationsReady, crossed>>

\* One of the calls errs: shares_list does when a single group cannot be listed, or
\* when the node was shut down under it.
RefreshFails(r) ==
  /\ refresh[r].phase # "idle"
  /\ bootError' = TRUE
  /\ refresh' = [refresh EXCEPT ![r] = Idle]
  /\ UNCHANGED <<daemon, shares, seen, firstLoad, notificationsReady, notified, crossed>>

\* The window hears shmark://reloaded.
Reloaded(r) ==
  /\ events > 0 /\ refresh[r].phase = "idle"
  /\ events' = events - 1
  /\ seen' = {}
  /\ firstLoad' = TRUE
  /\ crossed' = (crossed \/ InFlight # {})
  /\ refresh' = [refresh EXCEPT ![r] = Asked]
  /\ UNCHANGED <<current, author, listed, removed, shares, bootError, notificationsReady, notified>>

GrantPermission ==
  /\ ~notificationsReady
  /\ notificationsReady' = TRUE
  /\ UNCHANGED <<daemon, refresh, shares, bootError, seen, firstLoad, notified, crossed>>

-----------------------------------------------------------------------------
Go(r) == IdentityShow(r) \/ SharesList(r) \/ Settle(r) \/ RefreshFails(r)

Next ==
  \/ \E s \in Shares, who \in Identities : Share(s, who)
  \/ \E ss \in SUBSET listed : GroupsRemove(ss)
  \/ \E ss \in SUBSET removed : GroupsJoin(ss)
  \/ \E imported \in SUBSET (Shares \ listed) : \E own \in SUBSET (imported \ removed) :
       Reload(imported, own)
  \/ \E r \in Refreshes : Refresh(r) \/ Go(r) \/ Reloaded(r)
  \/ GrantPermission

Spec == Init /\ [][Next]_vars

\* The timer fires, calls are answered, events arrive.
FairSpec ==
  /\ Spec
  /\ WF_vars(\E r \in Refreshes : Refresh(r)) /\ WF_vars(\E r \in Refreshes : Reloaded(r))
  /\ \A r \in Refreshes : WF_vars(Go(r))

-----------------------------------------------------------------------------
(* What must hold.                                                         *)

TypeOK ==
  /\ current \in Boots /\ author \in [Shares -> Identities]
  /\ listed \in SUBSET Shares /\ removed \in SUBSET Shares /\ listed \cap removed = {}
  /\ events \in 0..(MaxBoots - 1) /\ refresh \in [Refreshes -> Requests]
  /\ shares \in SUBSET Shares /\ bootError \in BOOLEAN
  /\ seen \in SUBSET Shares /\ firstLoad \in BOOLEAN /\ notificationsReady \in BOOLEAN
  /\ notified \in [Shares -> 0..2] /\ crossed \in BOOLEAN

\* No share is notified twice, though refreshes overlap and the set of seen shares is
\* emptied by a reload, unless a refresh was in flight across the reload.
NotifiedOnce == \A s \in Shares : notified[s] <= 1 \/ crossed

\* Nor is a share of the user's own identity ever notified, with the same exception:
\* then the identity may be of the old AppState and the list of the new one.
OwnNotNotified ==
  \A s \in Shares : notified[s] > 0 /\ author[s] = current => crossed

NoMoreFailures == <>[][~\E r \in Refreshes : RefreshFails(r)]_vars

\* Once the calls stop failing, the window settles on the list, whatever order refreshes
\* are answered in: what stays listed is shown for good and without the error screen,
\* what stays off the list is gone for good.
ShownForGood ==
  NoMoreFailures => \A s \in Shares :
    /\ <>[](s \in listed) => <>[](s \in shares /\ ~bootError)
    /\ <>[](s \notin listed) => <>[](s \notin shares)

\* Once the window has loaded and permission is given, a share of somebody else that
\* is listed and not yet seen is notified, if it is not removed, there is no further
\* reload and the calls stop failing.
ArrivalsNotified ==
  NoMoreFailures => \A s \in Shares :
    (s \in listed \ seen /\ author[s] = Peer
       /\ ~firstLoad /\ notificationsReady /\ events = 0 /\ current = MaxBoots)
      ~> (notified[s] > 0 \/ s \notin listed)
=============================================================================
