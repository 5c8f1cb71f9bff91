----------------------------- MODULE PairCodes ------------------------------
(***************************************************************************)
(* What a device promises about the pairing codes it shows: a code is good *)
(* for one join, for a time, and no longer than the AppState that showed   *)
(* it.  A code that was used, has aged or lost its AppState is never good  *)
(* again.                                                                  *)
(***************************************************************************)
EXTENDS Naturals

CONSTANTS Tokens, Joins, TTL, None

VARIABLES
  now,     \* the clock
  shown,   \* token -> when it was shown, None before
  good,    \* the tokens that would be taken now, if not too old
  given    \* join -> the token it was given an identity for, None before

\* Showing a code may drop old ones.
Show(t) ==
  /\ shown[t] = None
  /\ shown' = [shown EXCEPT ![t] = now]
  /\ t \in good' /\ good' \subseteq good \cup {t}
  /\ UNCHANGED <<now, given>>

Redeem(j, t) ==
  /\ t \in good
  /\ now - shown[t] < TTL
  /\ given[j] = None
  /\ given' = [given EXCEPT ![j] = t]
  /\ good' = good \ {t}
  /\ UNCHANGED <<now, shown>>

\* A request too late or without effect, a restart, a reload.
Void ==
  /\ good' \subseteq good
  /\ UNCHANGED <<now, shown, given>>

Pass ==
  /\ now' = now + 1
  /\ UNCHANGED <<shown, good, given>>

Init ==
  /\ now = 0
  /\ shown = [t \in Tokens |-> None]
  /\ good = {}
  /\ given = [j \in Joins |-> None]

Next ==
  \/ \E t \in Tokens : Show(t) \/ \E j \in Joins : Redeem(j, t)
  \/ Void \/ Pass

Spec == Init /\ [][Next]_<<now, shown, good, given>>
=============================================================================
