------------------------------ MODULE Clipboard -----------------------------
(***************************************************************************)
(* "Share from clipboard" (ShareFromClipboard.tsx, opened by App.tsx) over *)
(* paths_resolve and share_create.                                         *)
(*                                                                         *)
(* The form reads the clipboard once, when it is opened, and may then find *)
(* any text, any setting and any files there.  A share that was submitted  *)
(* goes on when its form is closed; the answer then closes whichever form  *)
(* is open.                                                                *)
(***************************************************************************)
EXTENDS Resolve

CONSTANTS
  Texts,           \* what may be on the clipboard
  RootChoices,     \* what search_roots may be set to
  MaxForms,        \* bound of the model: how often the form is opened
  None

Forms == 1..MaxForms
Worlds == [text : Texts, searchRoots : RootChoices, files : SUBSET Files]

ASSUME ClipboardAssumption ==
  /\ MaxForms \in Nat
  /\ RootChoices \subseteq Seq(Seq(STRING))
  /\ \A t \in Texts : t.kind \in TextKinds /\ t.lead \in Leads /\ t.segments \in Seq(STRING)

VARIABLES
  n,         \* the number of the form that is open, or was last
  form,      \* where it is
  asked,     \* what it found on the clipboard, in the settings and on the disk
  resolution, chosen,  \* its state
  sending,   \* form -> how many calls of share_create it has under way
  created    \* form -> how many shares it has made

vars == <<n, form, asked, resolution, chosen, sending, created>>

Kinds == {"empty", "url", "path", "candidates", "not_found", "unsupported"}
Phases == {"closed", "reading", "resolved", "busy", "failed"}

Init ==
  /\ n = 0 /\ form = "closed"
  /\ asked = None /\ resolution = None /\ chosen = None
  /\ sending = [k \in Forms |-> 0]
  /\ created = [k \in Forms |-> 0]

-----------------------------------------------------------------------------
\* The hotkey and the buttons: nothing happens to a form that is open.
Open ==
  /\ form = "closed" /\ n < MaxForms
  /\ n' = n + 1 /\ form' = "reading"
  /\ UNCHANGED <<asked, resolution, chosen, sending, created>>

\* The form is unmounted, and its state with it.
Hide == form' = "closed" /\ UNCHANGED <<n, asked, resolution, chosen>>
Dismiss ==
  /\ form' = "closed"
  /\ asked' = None /\ resolution' = None /\ chosen' = None
  /\ UNCHANGED n

Close == form # "closed" /\ Dismiss /\ UNCHANGED <<sending, created>>

Sole(r) == IF r.kind = "path" THEN CHOOSE h \in r.hits : TRUE ELSE None

\* readText, then paths_resolve.
PathsResolve(w) ==
  /\ form = "reading"
  /\ asked' = w
  /\ resolution' \in Resolve(w.text, w.searchRoots, w.files)
  /\ chosen' = Sole(resolution')
  /\ form' = "resolved"
  /\ UNCHANGED <<n, sending, created>>

\* The clipboard cannot be read, or the call fails.
ReadFails ==
  /\ form = "reading"
  /\ form' = "failed"
  /\ UNCHANGED <<n, asked, resolution, chosen, sending, created>>

\* One of the list, or none: back to the list.
PickCandidate ==
  /\ form \in {"resolved", "busy"} /\ resolution.kind = "candidates"
  /\ chosen' \in IF chosen = None THEN resolution.hits ELSE {None}
  /\ UNCHANGED <<n, form, asked, resolution, sending, created>>

-----------------------------------------------------------------------------
Ready == resolution.kind = "url" \/ chosen # None

\* The button is disabled while the form is busy.
MaySubmitTwice == form \in {"resolved", "busy"}
MaySubmit == form = "resolved"

Submit ==
  /\ MaySubmit /\ Ready
  /\ form' = "busy"
  /\ sending' = [sending EXCEPT ![n] = @ + 1]
  /\ UNCHANGED <<n, asked, resolution, chosen, created>>

Answered(k) == sending[k] > 0 /\ sending' = [sending EXCEPT ![k] = @ - 1]

\* share_create went well, and onShared closes the form that is open now.
ShareCreated(k) ==
  /\ Answered(k)
  /\ created' = [created EXCEPT ![k] = @ + 1]
  /\ Dismiss

\* It failed (the source or the group is gone, the URL does not answer): the form that
\* sent it shows the error and may try again, if it is still open.
BackFrom(k) == IF k = n /\ form = "busy" THEN "resolved" ELSE form

ShareFails(k) ==
  /\ Answered(k)
  /\ form' = BackFrom(k)
  /\ UNCHANGED <<n, asked, resolution, chosen, created>>

-----------------------------------------------------------------------------
Resolving == (\E w \in Worlds : PathsResolve(w)) \/ ReadFails
Sending(k) == ShareCreated(k) \/ ShareFails(k)

Next ==
  \/ Open \/ Close \/ Resolving \/ PickCandidate \/ Submit
  \/ \E k \in Forms : Sending(k)

Spec == Init /\ [][Next]_vars

-----------------------------------------------------------------------------
(* What must hold.                                                         *)

TypeOK ==
  /\ n \in {0} \cup Forms /\ form \in Phases
  /\ asked \in Worlds \cup {None}
  /\ IF form \in {"resolved", "busy"} THEN resolution.kind \in Kinds
     ELSE resolution = None /\ chosen = None
  /\ chosen # None => chosen \in resolution.hits
  /\ sending \in [Forms -> Nat] /\ created \in [Forms -> Nat]

Relative ==
  form \in {"resolved", "busy"} /\ asked.text.kind \in {"path", "prose"} /\ asked.text.lead = ""
Wanted == Meant(asked.text, Roots(asked.searchRoots, asked.files), asked.files)

\* A relative path or a name that is the end of just one file's path under the roots
\* resolves to that file at once, wherever else its segments occur, unless that file
\* is under two roots.
UniqueResolves ==
  \A f \in Files :
    (Relative /\ Wanted = {f} /\ f \notin Doubled(Roots(asked.searchRoots, asked.files), asked.files))
      => resolution.kind = "path" /\ {h[2] : h \in resolution.hits} = {f}

\* Every match is offered, unless the places of the list are all taken by matches that
\* are no older, as long as the walks do not end at their limit.  A file that two roots
\* lead to is two matches and takes two places.
NewestOffered ==
  (Relative /\ Cardinality(Met(asked.text, Roots(asked.searchRoots, asked.files), asked.files))
                 <= HardLimit)
    => \A f \in Wanted :
         \/ \E h \in resolution.hits : h[2] = f
         \/ /\ Cardinality(resolution.hits) = MaxShown
            /\ \A h \in resolution.hits : Mtime[h[2]] >= Mtime[f]

\* What is shared was there and was meant by the text that the form has read: a file
\* whose path ends in it, or the very path.
SharedIsMeant ==
  form = "busy" /\ chosen # None =>
    IF Relative THEN chosen[2] \in Wanted
    ELSE chosen[2] \in Direct(asked.text) /\ Exists(asked.files, chosen[2])

\* One form makes one share, whatever is clicked while the call is under way, and though
\* a call that failed may be repeated.
SharedOnce == \A k \in Forms : created[k] <= 1
=============================================================================
