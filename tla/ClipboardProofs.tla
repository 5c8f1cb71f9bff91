-------------------------- MODULE ClipboardProofs --------------------------
(***************************************************************************)
(* Proofs about Clipboard: its types, that a form makes one share at most, *)
(* whatever is clicked and however calls outlive their forms, that what it *)
(* shares is what the text means, and that what it offers is not chosen by *)
(* the order of a walk.                                                    *)
(***************************************************************************)
EXTENDS Clipboard, SequenceTheorems, FiniteSetTheorems, TLAPS

\* The calls of a form and the shares it has made are one together; a form that can
\* be submitted has neither, and forms to come have neither.
OneCallEach ==
  /\ \A k \in Forms : sending[k] + created[k] <= 1
  /\ \A k \in Forms : k > n => sending[k] + created[k] = 0
  /\ form \in {"reading", "resolved", "failed"} => sending[n] + created[n] = 0
  /\ form # "closed" => n \in Forms

\* A form that has resolved its text keeps what it was told.
Resolved ==
  form \in {"resolved", "busy"} =>
    asked \in Worlds /\ resolution \in Resolve(asked.text, asked.searchRoots, asked.files)

ClipboardInv == TypeOK /\ OneCallEach /\ Resolved

-----------------------------------------------------------------------------
(* What the resolver returns.                                              *)

\* A resolution has one of six kinds, and a path is always one that was found.
LEMMA ResolvedKind ==
  ASSUME NEW w \in Worlds, NEW r \in Resolve(w.text, w.searchRoots, w.files)
  PROVE  r.kind \in Kinds /\ (r.kind = "path" => r.hits # {})
<1> DEFINE t == w.text
           roots == Roots(w.searchRoots, w.files)
           found == {p \in Direct(t) : Exists(w.files, p)}
<1>1. CASE t.kind \in {"blank", "url"}
  BY <1>1 DEF Resolve, Is, Kinds
<1>2. CASE t.kind \notin {"blank", "url"} /\ found # {}
  <2>1. r = Is("path", {<<0, p>> : p \in found})
    BY <1>2 DEF Resolve
  <2> QED BY <1>2, <2>1 DEF Is, Kinds
<1>3. CASE t.kind \notin {"blank", "url"} /\ found = {}
  <2>1. PICK top : r = Searched(t, top)
    BY <1>3 DEF Resolve
  <2> QED BY <2>1 DEF Searched, Is, Kinds
<1> QED BY <1>1, <1>2, <1>3

\* IsSuffix splits a sequence in two.
LEMMA SuffixSplits ==
  ASSUME NEW S, NEW s \in Seq(S), NEW f \in Seq(S), IsSuffix(s, f)
  PROVE  \E p \in Prefixes(f) : f = p \o s
<1> DEFINE len == Len(s)
           m == Len(f) - Len(s)
           p == SubSeq(f, 1, m)
<1>1. /\ Len(Reverse(s)) = len /\ Len(Reverse(f)) = Len(f)
      /\ \A i \in 1..len : Reverse(s)[i] = s[len - i + 1]
      /\ \A i \in 1..Len(f) : Reverse(f)[i] = f[Len(f) - i + 1]
  BY DEF Reverse
<1>2. Reverse(s) \in Seq(S) /\ Reverse(f) \in Seq(S)
  BY DEF Reverse
<1>3. len \in Nat /\ Len(f) \in Nat /\ len <= Len(f)
      /\ SubSeq(Reverse(s), 1, len) = SubSeq(Reverse(f), 1, len)
  BY <1>1 DEF IsSuffix, IsPrefix
<1>4. \A i \in 1..len : Reverse(s)[i] = Reverse(f)[i]
  <2> TAKE i \in 1..len
  <2>1. SubSeq(Reverse(s), 1, len)[i] = Reverse(s)[i] /\ SubSeq(Reverse(f), 1, len)[i] = Reverse(f)[i]
    BY <1>1, <1>2, <1>3
  <2> QED BY <1>3, <2>1
<1>5. \A j \in 1..len : s[j] = f[m + j]
  <2> TAKE j \in 1..len
  <2>1. PICK k \in 1..len : k = len - j + 1
    <3>1. len - j + 1 \in 1..len
      BY <1>3
    <3> QED BY <3>1
  <2>2. k \in 1..Len(f) /\ len - k + 1 = j /\ Len(f) - k + 1 = m + j
    BY <1>3, <2>1
  <2>3. Reverse(s)[k] = s[j] /\ Reverse(f)[k] = f[m + j]
    BY <1>1, <2>2
  <2> QED BY <1>4, <2>3
<1>6. m \in 0..Len(f)
  BY <1>3
<1>7. p \in Seq(S) /\ Len(p) = m /\ \A i \in 1..m : p[i] = f[i]
  BY <1>6
<1>8. f = p \o s
  <2>1. /\ p \o s \in Seq(S) /\ Len(p \o s) = Len(f)
        /\ \A i \in 1..Len(f) : (p \o s)[i] = IF i <= m THEN p[i] ELSE s[i - m]
    BY <1>3, <1>6, <1>7
  <2>2. \A i \in 1..Len(f) : (p \o s)[i] = f[i]
    <3> TAKE i \in 1..Len(f)
    <3>1. CASE i <= m
      BY <1>7, <2>1, <3>1
    <3>2. CASE ~(i <= m)
      <4>1. i - m \in 1..len /\ m + (i - m) = i
        BY <1>3, <1>6, <3>2
      <4> QED BY <1>5, <2>1, <3>2, <4>1
    <3> QED BY <3>1, <3>2
  <2> QED BY <2>1, <2>2, SeqEqual
<1>9. p \in Prefixes(f)
  BY <1>6 DEF Prefixes
<1> QED BY <1>8, <1>9

\* What the form knows of the file it has found.
FoundFile(w, h) ==
  IF w.text.lead = "" THEN h[2] \in Meant(w.text, Roots(w.searchRoots, w.files), w.files)
  ELSE h[2] \in Direct(w.text) /\ Exists(w.files, h[2])

\* Whatever is offered exists and is what the text means: the very path if the text
\* leads from somewhere, else a file whose path ends in it.
LEMMA OffersAreMeant ==
  ASSUME NEW w \in Worlds, NEW r \in Resolve(w.text, w.searchRoots, w.files), NEW h \in r.hits
  PROVE  w.text.kind \notin {"blank", "url"} /\ FoundFile(w, h)
<1> DEFINE t == w.text
           roots == Roots(w.searchRoots, w.files)
           found == {p \in Direct(t) : Exists(w.files, p)}
<1>1. t \in Texts /\ w.files \in SUBSET Files
  BY DEF Worlds
<1>2. t.kind \notin {"blank", "url"}
  BY DEF Resolve, Is
<1>3. CASE found # {}
  <2>1. r = Is("path", {<<0, p>> : p \in found})
    BY <1>2, <1>3 DEF Resolve
  <2>2. h[2] \in found
    BY <2>1 DEF Is
  <2>3. t.lead # ""
    BY <2>2 DEF Direct
  <2> QED BY <1>2, <2>2, <2>3 DEF FoundFile
<1>4. CASE found = {}
  <2>1. PICK hits \in Hits(t, roots, w.files) : \E top \in Newest(hits) : r = Searched(t, top)
    BY <1>2, <1>4 DEF Resolve
  <2>2. PICK top \in Newest(hits) : r = Searched(t, top)
    BY <2>1
  <2>3. hits \subseteq Met(t, roots, w.files)
    BY <2>1 DEF Hits, kSubset
  <2>4. top \subseteq hits
    BY <2>2 DEF Newest, AnyOf, kSubset
  <2>5. h \in top
    BY <2>2 DEF Searched, Is
  <2>6. h \in Met(t, roots, w.files)
    BY <2>3, <2>4, <2>5
  <2> DEFINE f == h[2]
  <2>7. h[1] \in DOMAIN roots /\ f \in w.files /\ LeadsTo(roots[h[1]], f) /\ MatchesQuery(f, t)
    BY <2>6 DEF Met, Walked, LeadsTo
  <2>8. t.lead = "" /\ IsSuffix(t.segments, f)
    BY <2>7 DEF MatchesQuery
  <2>9. t.segments \in Seq(STRING) /\ f \in Seq(STRING)
    BY <1>1, <2>7, ClipboardAssumption, ResolveAssumption
  <2>10. \E p \in Prefixes(f) : f = p \o t.segments
    BY <2>8, <2>9, SuffixSplits
  <2>11. f \in Meant(t, roots, w.files)
    BY <2>7, <2>10 DEF Meant
  <2> QED BY <1>2, <2>8, <2>11 DEF FoundFile
<1> QED BY <1>3, <1>4

-----------------------------------------------------------------------------
(* What the limits leave of what the walks meet.                           *)

\* A sequence that is put behind another one is its suffix.
LEMMA SplitIsSuffix ==
  ASSUME NEW S, NEW s \in Seq(S), NEW f \in Seq(S), NEW p \in Prefixes(f), f = p \o s
  PROVE  IsSuffix(s, f)
<1> DEFINE len == Len(s)
           m == Len(p)
<1>1. p \in Seq(S)
  BY DEF Prefixes
<1>2. len \in Nat /\ m \in Nat /\ Len(f) = m + len
  BY <1>1
<1>3. \A j \in 1..len : f[m + j] = s[j]
  BY <1>1, <1>2
<1>4. /\ Reverse(s) \in Seq(S) /\ Reverse(f) \in Seq(S)
      /\ Len(Reverse(s)) = len /\ Len(Reverse(f)) = Len(f)
      /\ \A i \in 1..len : Reverse(s)[i] = s[len - i + 1]
      /\ \A i \in 1..Len(f) : Reverse(f)[i] = f[Len(f) - i + 1]
  BY DEF Reverse
<1>5. \A i \in 1..len : Reverse(s)[i] = Reverse(f)[i]
  <2> TAKE i \in 1..len
  <2>1. PICK j \in 1..len : j = len - i + 1
    <3>1. len - i + 1 \in 1..len
      BY <1>2
    <3> QED BY <3>1
  <2>2. i \in 1..Len(f) /\ Len(f) - i + 1 = m + j
    BY <1>2, <2>1
  <2> QED BY <1>3, <1>4, <2>1, <2>2
<1>6. SubSeq(Reverse(s), 1, len) = SubSeq(Reverse(f), 1, len)
  <2>1. /\ SubSeq(Reverse(s), 1, len) \in Seq(S) /\ SubSeq(Reverse(f), 1, len) \in Seq(S)
        /\ Len(SubSeq(Reverse(s), 1, len)) = len /\ Len(SubSeq(Reverse(f), 1, len)) = len
    BY <1>2, <1>4
  <2>2. \A i \in 1..len : SubSeq(Reverse(s), 1, len)[i] = SubSeq(Reverse(f), 1, len)[i]
    BY <1>2, <1>4, <1>5
  <2> QED BY <2>1, <2>2, SeqEqual
<1> QED BY <1>2, <1>4, <1>6 DEF IsSuffix, IsPrefix

\* A limit that a finite set does not exceed leaves all of it.
LEMMA LimitLeavesAll ==
  ASSUME NEW S, IsFiniteSet(S), NEW limit \in Nat, Cardinality(S) <= limit
  PROVE  kSubset(Fewest(limit, Cardinality(S)), S) = {S}
<1>1. Cardinality(S) \in Nat
  BY FS_CardinalityType
<1>2. Fewest(limit, Cardinality(S)) = Cardinality(S)
  BY <1>1 DEF Fewest
<1>3. \A T \in SUBSET S : Cardinality(T) = Cardinality(S) => T = S
  BY FS_Subset
<1> QED BY <1>2, <1>3 DEF kSubset

\* The walks of a world meet finitely many files.
LEMMA MetIsFinite ==
  ASSUME NEW w \in Worlds
  PROVE  IsFiniteSet(Met(w.text, Roots(w.searchRoots, w.files), w.files))
<1> DEFINE roots == Roots(w.searchRoots, w.files)
<1>1. IsFiniteSet(w.files)
  BY ResolveAssumption, FS_Subset DEF Worlds
<1>2. \A q \in Seq(Seq(STRING)) : IsFiniteSet(DOMAIN q)
  <2> TAKE q \in Seq(Seq(STRING))
  <2>1. DOMAIN q = 1..Len(q) /\ Len(q) \in Int
    OBVIOUS
  <2> QED BY <2>1, FS_Interval
<1>3. IsFiniteSet(DOMAIN roots)
  <2>1. CASE w.searchRoots = <<>>
    <3>1. DOMAIN roots \in SUBSET (DOMAIN DefaultRoots)
      BY <2>1 DEF Roots, Defaults
    <3> QED BY <1>2, <3>1, ResolveAssumption, FS_Subset
  <2>2. CASE w.searchRoots # <<>>
    <3>1. roots \in Seq(Seq(STRING))
      BY <2>2, ClipboardAssumption DEF Roots, Worlds
    <3> QED BY <1>2, <3>1
  <2> QED BY <2>1, <2>2
<1>4. IsFiniteSet((DOMAIN roots) \X w.files)
  BY <1>1, <1>3, FS_Product
<1>5. Met(w.text, roots, w.files) \in SUBSET ((DOMAIN roots) \X w.files)
  BY DEF Met
<1> QED BY <1>4, <1>5, FS_Subset

\* A pair is made of its parts.
LEMMA PairOfParts ==
  ASSUME NEW A, NEW B, NEW x \in A \X B
  PROVE  x = <<x[1], x[2]>>
<1>1. \E a \in A, b \in B : x = <<a, b>>
  OBVIOUS
<1> QED BY <1>1

\* A file is met under a root exactly if the text means it.
LEMMA MetIsMeant ==
  ASSUME NEW w \in Worlds, w.text.lead = ""
  PROVE  /\ \A m \in Met(w.text, Roots(w.searchRoots, w.files), w.files) :
              /\ m[1] \in DOMAIN Roots(w.searchRoots, w.files)
              /\ LeadsTo(Roots(w.searchRoots, w.files)[m[1]], m[2])
              /\ m = <<m[1], m[2]>>
              /\ m[2] \in Meant(w.text, Roots(w.searchRoots, w.files), w.files)
         /\ \A f \in Meant(w.text, Roots(w.searchRoots, w.files), w.files) :
              \E m \in Met(w.text, Roots(w.searchRoots, w.files), w.files) : m[2] = f
<1> DEFINE t == w.text
           roots == Roots(w.searchRoots, w.files)
<1>1. /\ t.segments \in Seq(STRING)
      /\ \A f \in w.files : f \in Seq(STRING)
  BY ClipboardAssumption, ResolveAssumption DEF Worlds
<1>2. ASSUME NEW m \in Met(t, roots, w.files)
      PROVE  /\ m[1] \in DOMAIN roots /\ LeadsTo(roots[m[1]], m[2])
             /\ m = <<m[1], m[2]>> /\ m[2] \in Meant(t, roots, w.files)
  <2>1. /\ m[1] \in DOMAIN roots /\ LeadsTo(roots[m[1]], m[2]) /\ m = <<m[1], m[2]>>
        /\ m[2] \in w.files /\ MatchesQuery(m[2], t)
    <3>1. m \in (DOMAIN roots) \X w.files
      BY DEF Met
    <3>2. LeadsTo(roots[m[1]], m[2]) /\ MatchesQuery(m[2], t)
      BY DEF Met, Walked, LeadsTo
    <3>3. m[1] \in DOMAIN roots /\ m[2] \in w.files
      BY <3>1
    <3>4. m = <<m[1], m[2]>>
      BY <3>1, PairOfParts
    <3> QED BY <3>2, <3>3, <3>4
  <2>2. \E p \in Prefixes(m[2]) : m[2] = p \o t.segments
    BY <1>1, <2>1, SuffixSplits DEF MatchesQuery
  <2> QED BY <2>1, <2>2 DEF Meant
<1>3. ASSUME NEW f \in Meant(t, roots, w.files)
      PROVE  \E m \in Met(t, roots, w.files) : m[2] = f
  <2>1. f \in w.files
    BY DEF Meant
  <2>2. PICK i \in DOMAIN roots : LeadsTo(roots[i], f)
    BY DEF Meant
  <2>3. IsSuffix(t.segments, f)
    BY <1>1, <2>1, SplitIsSuffix DEF Meant
  <2>4. <<i, f>> \in Met(t, roots, w.files)
    BY <2>1, <2>2, <2>3 DEF Met, MatchesQuery, Walked, LeadsTo
  <2> QED BY <2>4
<1> QED BY <1>2, <1>3

\* A text without a lead is searched for: what is offered are the newest of the files
\* met, which are all of the files met unless the walks end at their limit.
LEMMA OffersTheNewest ==
  ASSUME NEW w \in Worlds, w.text.kind \in {"path", "prose"}, w.text.lead = "",
         NEW r \in Resolve(w.text, w.searchRoots, w.files),
         Cardinality(Met(w.text, Roots(w.searchRoots, w.files), w.files)) <= HardLimit
  PROVE  \E top \in Newest(Met(w.text, Roots(w.searchRoots, w.files), w.files)) :
           r = Searched(w.text, top)
<1> DEFINE t == w.text
           roots == Roots(w.searchRoots, w.files)
           met == Met(t, roots, w.files)
<1>1. {p \in Direct(t) : Exists(w.files, p)} = {}
  BY DEF Direct
<1>2. PICK hits \in Hits(t, roots, w.files) : \E top \in Newest(hits) : r = Searched(t, top)
  BY <1>1 DEF Resolve
<1>3. hits \in kSubset(Fewest(HardLimit, Cardinality(met)), met)
  BY <1>2 DEF Hits
<1>4. hits = met
  <2>1. IsFiniteSet(met) /\ HardLimit \in Nat
    BY MetIsFinite, ResolveAssumption
  <2>2. kSubset(Fewest(HardLimit, Cardinality(met)), met) = {met}
    BY <2>1, LimitLeavesAll
  <2> QED BY <1>3, <2>2
<1> QED BY <1>2, <1>4

-----------------------------------------------------------------------------
(* Every step keeps the invariant.                                         *)

LEMMA InitInv == Init => ClipboardInv
<1> SUFFICES ASSUME Init PROVE ClipboardInv
  OBVIOUS
<1>1. /\ n = 0 /\ form = "closed" /\ asked = None /\ resolution = None /\ chosen = None
      /\ sending = [k \in Forms |-> 0] /\ created = [k \in Forms |-> 0]
  BY DEF Init
<1>2. TypeOK
  BY <1>1 DEF TypeOK, Phases
<1>3. OneCallEach
  BY <1>1 DEF OneCallEach
<1>4. Resolved
  BY <1>1 DEF Resolved
<1> QED BY <1>2, <1>3, <1>4 DEF ClipboardInv

\* The form by itself: opened, closed, resolved, picked from.
LEMMA FormStep ==
  ASSUME ClipboardInv, Open \/ Close \/ Resolving \/ PickCandidate
  PROVE  ClipboardInv'
<1> USE DEF ClipboardInv
<1>0. /\ n \in Nat /\ Forms \subseteq Nat /\ \A k \in Forms : k \in Nat
      /\ sending \in [Forms -> Nat] /\ created \in [Forms -> Nat]
  BY DEF TypeOK, Forms
<1>1. CASE Open
  <2>1. /\ form = "closed" /\ n' = n + 1 /\ n' \in Forms /\ form' = "reading"
        /\ UNCHANGED <<asked, resolution, chosen, sending, created>>
    BY <1>0, <1>1, ClipboardAssumption DEF Open, Forms
  <2>2. TypeOK'
    BY <2>1 DEF TypeOK, Phases
  <2>3. OneCallEach'
    BY <1>0, <2>1 DEF OneCallEach
  <2>4. Resolved'
    BY <2>1 DEF Resolved
  <2> QED BY <2>2, <2>3, <2>4
<1>2. CASE Close
  <2>1. /\ form' = "closed" /\ asked' = None /\ resolution' = None /\ chosen' = None
        /\ UNCHANGED <<n, sending, created>>
    BY <1>2 DEF Close, Dismiss
  <2> QED BY <2>1 DEF TypeOK, Phases, OneCallEach, Resolved
<1>3. ASSUME NEW w \in Worlds, PathsResolve(w) PROVE ClipboardInv'
  <2>1. /\ form = "reading" /\ form' = "resolved" /\ asked' = w
        /\ resolution' \in Resolve(w.text, w.searchRoots, w.files)
        /\ chosen' = Sole(resolution') /\ UNCHANGED <<n, sending, created>>
    BY <1>3 DEF PathsResolve
  <2>2. resolution'.kind \in Kinds /\ (resolution'.kind = "path" => resolution'.hits # {})
    BY <2>1, ResolvedKind
  <2>3. chosen' # None => chosen' \in resolution'.hits
    BY <2>1, <2>2 DEF Sole
  <2>4. TypeOK'
    BY <2>1, <2>2, <2>3 DEF TypeOK, Phases
  <2>5. OneCallEach'
    BY <2>1 DEF OneCallEach
  <2>6. Resolved'
    BY <2>1 DEF Resolved
  <2> QED BY <2>4, <2>5, <2>6
<1>4. CASE ReadFails
  BY <1>4 DEF ReadFails, TypeOK, Phases, OneCallEach, Resolved
<1>5. CASE PickCandidate
  <2>1. chosen' # None => chosen' \in resolution.hits
    BY <1>5 DEF PickCandidate
  <2> QED BY <1>5, <2>1 DEF PickCandidate, TypeOK, OneCallEach, Resolved
<1> QED BY <1>1, <1>2, <1>3, <1>4, <1>5 DEF Resolving

\* Only a form with no call and no share submits.
LEMMA SubmitStep ==
  ASSUME ClipboardInv, Submit
  PROVE  ClipboardInv'
<1> USE DEF ClipboardInv
<1>1. /\ form = "resolved" /\ form' = "busy" /\ n \in Forms
      /\ sending' = [sending EXCEPT ![n] = @ + 1]
      /\ UNCHANGED <<n, asked, resolution, chosen, created>>
  BY DEF Submit, MaySubmit, OneCallEach
<1>2. /\ sending \in [Forms -> Nat] /\ created \in [Forms -> Nat] /\ Forms \subseteq Nat
      /\ sending[n] + created[n] = 0
  BY <1>1 DEF TypeOK, OneCallEach, Forms
<1>3. /\ sending' \in [Forms -> Nat] /\ sending'[n] = sending[n] + 1
      /\ \A k \in Forms : k # n => sending'[k] = sending[k]
  BY <1>1, <1>2
<1>4. TypeOK' /\ Resolved'
  BY <1>1, <1>3 DEF TypeOK, Phases, Resolved
<1>5. \A k \in Forms : sending'[k] + created'[k] <= 1
  <2> TAKE k \in Forms
  <2>1. CASE k = n
    BY <1>1, <1>2, <1>3, <2>1
  <2>2. CASE k # n
    BY <1>1, <1>3, <2>2 DEF OneCallEach
  <2> QED BY <2>1, <2>2
<1>6. \A k \in Forms : k > n => sending'[k] + created'[k] = 0
  BY <1>1, <1>2, <1>3 DEF OneCallEach
<1> QED BY <1>1, <1>4, <1>5, <1>6 DEF OneCallEach

\* An answer ends a call, of a form that may be gone.
LEMMA AnswerStep ==
  ASSUME ClipboardInv, NEW k \in Forms, Sending(k)
  PROVE  ClipboardInv'
<1> USE DEF ClipboardInv
<1>1. /\ sending \in [Forms -> Nat] /\ created \in [Forms -> Nat] /\ Forms \subseteq Nat
      /\ n \in Nat
  BY DEF TypeOK, Forms
<1>2. sending[k] > 0 /\ sending' = [sending EXCEPT ![k] = @ - 1]
  BY DEF Sending, ShareCreated, ShareFails, Answered
<1>3. sending[k] = 1 /\ created[k] = 0 /\ k <= n
  BY <1>1, <1>2 DEF OneCallEach
<1>4. /\ sending' \in [Forms -> Nat] /\ sending'[k] = 0
      /\ \A m \in Forms : m # k => sending'[m] = sending[m]
  BY <1>1, <1>2, <1>3
<1>5. k = n => form \in {"busy", "closed"}
  BY <1>1, <1>3 DEF OneCallEach, TypeOK, Phases
<1>6. CASE ShareCreated(k)
  <2>1. /\ created' = [created EXCEPT ![k] = @ + 1] /\ form' = "closed" /\ n' = n
        /\ asked' = None /\ resolution' = None /\ chosen' = None
    BY <1>6 DEF ShareCreated, Dismiss
  <2>2. /\ created' \in [Forms -> Nat] /\ created'[k] = 1
        /\ \A m \in Forms : m # k => created'[m] = created[m]
    BY <1>1, <1>3, <2>1
  <2>3. TypeOK' /\ Resolved'
    BY <1>4, <2>1, <2>2 DEF TypeOK, Phases, Resolved
  <2>4. \A m \in Forms : sending'[m] + created'[m] <= 1
    <3> TAKE m \in Forms
    <3>1. CASE m = k
      BY <1>4, <2>2, <3>1
    <3>2. CASE m # k
      BY <1>4, <2>2, <3>2 DEF OneCallEach
    <3> QED BY <3>1, <3>2
  <2>5. \A m \in Forms : m > n => sending'[m] + created'[m] = 0
    BY <1>1, <1>3, <1>4, <2>2 DEF OneCallEach
  <2> QED BY <2>1, <2>3, <2>4, <2>5 DEF OneCallEach
<1>7. CASE ShareFails(k)
  <2>1. /\ form' = BackFrom(k) /\ UNCHANGED <<n, asked, resolution, chosen, created>>
    BY <1>7 DEF ShareFails
  <2>2. \A m \in Forms : sending'[m] + created[m] <= sending[m] + created[m]
    BY <1>1, <1>3, <1>4
  <2>3. /\ \A m \in Forms : sending'[m] + created'[m] <= 1
        /\ \A m \in Forms : m > n => sending'[m] + created'[m] = 0
    BY <1>1, <1>4, <2>1, <2>2 DEF OneCallEach
  <2>4. CASE k = n /\ form = "busy"
    <3>1. form' = "resolved"
      BY <2>1, <2>4 DEF BackFrom
    <3> QED BY <1>3, <1>4, <2>1, <2>3, <2>4, <3>1 DEF TypeOK, Phases, OneCallEach, Resolved
  <2>5. CASE ~(k = n /\ form = "busy")
    <3>1. form' = form
      BY <2>1, <2>5 DEF BackFrom
    <3>2. form \in {"reading", "resolved", "failed"} => k # n
      BY <1>5
    <3>3. form \in {"reading", "resolved", "failed"} => sending'[n] + created'[n] = 0
      BY <1>4, <2>1, <3>2 DEF OneCallEach
    <3> QED BY <1>4, <2>1, <2>3, <3>1, <3>3 DEF TypeOK, OneCallEach, Resolved
  <2> QED BY <2>4, <2>5
<1> QED BY <1>6, <1>7 DEF Sending

\* The inductive invariant.
LEMMA ClipboardInvariant == Spec => []ClipboardInv
<1>1. ClipboardInv /\ [Next]_vars => ClipboardInv'
  <2> SUFFICES ASSUME ClipboardInv, [Next]_vars PROVE ClipboardInv'
    OBVIOUS
  <2>1. CASE UNCHANGED vars
    BY <2>1 DEF vars, ClipboardInv, TypeOK, OneCallEach, Resolved
  <2> QED BY <2>1, FormStep, SubmitStep, AnswerStep DEF Next
<1> QED BY <1>1, InitInv, PTL DEF Spec

-----------------------------------------------------------------------------
\* The variables keep their types.
THEOREM ClipboardTypeCorrect == Spec => []TypeOK
BY ClipboardInvariant, PTL DEF ClipboardInv

\* A form makes one share at most, though its call may outlive it and may fail and be
\* made again.
THEOREM OneShareEach == Spec => []SharedOnce
<1>1. ClipboardInv => SharedOnce
  BY DEF ClipboardInv, OneCallEach, SharedOnce, TypeOK
<1> QED BY <1>1, ClipboardInvariant, PTL

\* What is shared existed and is what the text means, for all files, roots and texts.
THEOREM OnlyMeantIsShared == Spec => []SharedIsMeant
<1>1. ClipboardInv => SharedIsMeant
  <2> SUFFICES ASSUME ClipboardInv, form = "busy", chosen # None
               PROVE  IF Relative THEN chosen[2] \in Wanted
                      ELSE chosen[2] \in Direct(asked.text) /\ Exists(asked.files, chosen[2])
    BY DEF SharedIsMeant
  <2>1. /\ asked \in Worlds /\ chosen \in resolution.hits
        /\ resolution \in Resolve(asked.text, asked.searchRoots, asked.files)
    BY DEF ClipboardInv, Resolved, TypeOK
  <2>2. asked.text.kind \notin {"blank", "url"} /\ FoundFile(asked, chosen)
    BY <2>1, OffersAreMeant
  <2>3. asked.text.kind \in {"path", "prose"}
    BY <2>1, <2>2, ClipboardAssumption DEF Worlds, TextKinds
  <2> QED BY <2>2, <2>3 DEF FoundFile, Relative, Wanted
<1> QED BY <1>1, ClipboardInvariant, PTL

\* A relative text that is the end of one file's path, met under one root, resolves to
\* that file at once, for all files, roots and texts.
THEOREM UniqueIsResolved == Spec => []UniqueResolves
<1>1. ClipboardInv => UniqueResolves
  <2> SUFFICES ASSUME ClipboardInv, Relative,
                      NEW f \in Files, Wanted = {f},
                      f \notin Doubled(Roots(asked.searchRoots, asked.files), asked.files)
               PROVE  resolution.kind = "path" /\ {h[2] : h \in resolution.hits} = {f}
    BY DEF UniqueResolves
  <2> DEFINE t == asked.text
             roots == Roots(asked.searchRoots, asked.files)
             met == Met(t, roots, asked.files)
  <2>1. /\ asked \in Worlds /\ t.kind \in {"path", "prose"} /\ t.lead = ""
        /\ resolution \in Resolve(t, asked.searchRoots, asked.files)
    BY DEF ClipboardInv, Resolved, Relative
  <2>2. Meant(t, roots, asked.files) = {f} /\ f \in asked.files
    BY DEF Wanted, Meant
  <2>3. PICK m \in met : m[2] = f
    BY <2>1, <2>2, MetIsMeant
  <2>4. met = {m}
    <3>1. ASSUME NEW h \in met PROVE h = m
      <4>1. /\ h[1] \in DOMAIN roots /\ LeadsTo(roots[h[1]], h[2]) /\ h = <<h[1], h[2]>> /\ h[2] = f
            /\ m[1] \in DOMAIN roots /\ LeadsTo(roots[m[1]], m[2]) /\ m = <<m[1], m[2]>>
        BY <2>1, <2>2, <2>3, MetIsMeant
      <4>2. h[1] = m[1]
        BY <2>2, <2>3, <4>1 DEF Doubled
      <4> QED BY <2>3, <4>1, <4>2
    <3> QED BY <3>1
  <2>5. IsFiniteSet(met) /\ Cardinality(met) = 1
    BY <2>4, FS_Singleton
  <2>6. PICK top \in Newest(met) : resolution = Searched(t, top)
    <3>1. Cardinality(met) <= HardLimit
      BY <2>5, ResolveAssumption
    <3> QED BY <2>1, <3>1, OffersTheNewest
  <2>7. top = met
    <3>1. top \in kSubset(Fewest(MaxShown, Cardinality(met)), met)
      BY <2>6 DEF Newest, AnyOf
    <3>2. MaxShown \in Nat /\ Cardinality(met) <= MaxShown
      BY <2>5, ResolveAssumption
    <3> QED BY <2>5, <3>1, <3>2, LimitLeavesAll
  <2>8. resolution = Is("path", met)
    BY <2>4, <2>5, <2>6, <2>7 DEF Searched
  <2> QED BY <2>3, <2>4, <2>8 DEF Is
<1> QED BY <1>1, ClipboardInvariant, PTL

\* As long as the walks do not end at their limit, a file that the text means is kept
\* back only by as many matches, none of them older, as the list has places.
THEOREM NewestAreOffered == Spec => []NewestOffered
<1>1. ClipboardInv => NewestOffered
  <2> DEFINE t == asked.text
             roots == Roots(asked.searchRoots, asked.files)
             met == Met(t, roots, asked.files)
  <2> SUFFICES ASSUME ClipboardInv, Relative, Cardinality(met) <= HardLimit,
                      NEW f \in Wanted, ~\E h \in resolution.hits : h[2] = f
               PROVE  /\ Cardinality(resolution.hits) = MaxShown
                      /\ \A h \in resolution.hits : Mtime[h[2]] >= Mtime[f]
    BY DEF NewestOffered
  <2>1. /\ asked \in Worlds /\ t.kind \in {"path", "prose"} /\ t.lead = ""
        /\ resolution \in Resolve(t, asked.searchRoots, asked.files)
    BY DEF ClipboardInv, Resolved, Relative
  <2>2. PICK top \in Newest(met) : resolution = Searched(t, top)
    BY <2>1, OffersTheNewest
  <2>3. resolution.hits = top
    BY <2>2 DEF Searched, Is
  <2>4. PICK m \in met : m[2] = f
    BY <2>1, MetIsMeant DEF Wanted
  <2>5. m \in met \ top
    BY <2>3, <2>4
  <2>6. \A h \in top : Mtime[h[2]] >= Mtime[f]
    BY <2>2, <2>4, <2>5 DEF Newest
  <2>7. top \in kSubset(Fewest(MaxShown, Cardinality(met)), met)
    BY <2>2 DEF Newest, AnyOf
  <2>8. IsFiniteSet(met) /\ Cardinality(met) \in Nat /\ MaxShown \in Nat
    BY <2>1, MetIsFinite, FS_CardinalityType, ResolveAssumption
  <2>9. ~(Cardinality(met) <= MaxShown)
    BY <2>5, <2>7, <2>8, LimitLeavesAll
  <2>10. Fewest(MaxShown, Cardinality(met)) = MaxShown
    BY <2>8, <2>9 DEF Fewest
  <2>11. Cardinality(top) = MaxShown
    BY <2>7, <2>10 DEF kSubset
  <2> QED BY <2>3, <2>6, <2>11
<1> QED BY <1>1, ClipboardInvariant, PTL
=============================================================================
