------------------------------- MODULE Resolve ------------------------------
(***************************************************************************)
(* What a text on the clipboard stands for: resolve.rs, with the roots of  *)
(* settings.rs.                                                            *)
(*                                                                         *)
(* A path is the sequence of its segments.  A file under a root is met     *)
(* once by the walk of that root, in no particular order; a file under two *)
(* roots is met twice.                                                     *)
(***************************************************************************)
EXTENDS Naturals, SequencesExt

CONSTANTS
  Files,            \* the paths of the files that may exist
  Mtime,            \* their times of change
  Skipped,          \* the roots and files whose walk passes over it: hidden or
                    \* ignored from there, too deep
  Dotted,           \* the segments with a dot in them
  Home,             \* the home directory
  DefaultRoots,     \* the directories that default_roots tries
  HardLimit, MaxShown  \* 50 and 5

ASSUME ResolveAssumption ==
  /\ Files \subseteq Seq(STRING) /\ IsFiniteSet(Files)
  /\ DefaultRoots \in Seq(Seq(STRING))
  /\ Mtime \in [Files -> Nat] /\ Skipped \subseteq Seq(STRING) \X Files
  /\ HardLimit \in Nat \ {0} /\ MaxShown \in Nat \ {0}

\* The trimmed text: empty, an http(s) URL, or a path that leads from "/", from "~/" or
\* from nowhere, with or without file:// before it; prose is long or of several lines.
TextKinds == {"blank", "url", "path", "prose"}
Leads == {"/", "~/", ""}

\* expand_direct, or no path at all if the text has no lead.
Direct(t) == CASE t.lead = "/" -> {t.segments}
               [] t.lead = "~/" -> {Home \o t.segments}
               [] t.lead = "" -> {}

\* A file, or a directory with something in it.
Exists(present, p) == \E f \in present : IsPrefix(p, f)

\* looks_like_path
LooksLikePath(t) ==
  t.kind = "path" /\ (t.lead # "" \/ Len(t.segments) > 1 \/ Head(t.segments) \in Dotted)

\* effective_search_roots.  Of the default roots those that exist, each at its place in
\* the list: only the order of the roots matters.
Defaults(present) ==
  [i \in {j \in DOMAIN DefaultRoots : Exists(present, DefaultRoots[j])} |-> DefaultRoots[i]]
Roots(searchRoots, present) == IF searchRoots = <<>> THEN Defaults(present) ELSE searchRoots

\* matches_query: the segments of the query are the last ones of the path, whole.
ByName(f, t) == t.lead = "" /\ Last(f) = Last(t.segments)
MatchesQuery(f, t) == t.lead = "" /\ IsSuffix(t.segments, f)

\* What the walk of a root comes by.
BelowOf(root, f) == IsPrefix(root, f)
Walked(root, f) == IsPrefix(root, f) /\ <<root, f>> \notin Skipped

\* Every match of every walk.
Met(t, roots, present) ==
  {m \in (DOMAIN roots) \X present : Walked(roots[m[1]], m[2]) /\ MatchesQuery(m[2], t)}

Fewest(a, b) == IF a < b THEN a ELSE b

\* search stops at its limit, in the order of the roots.
Hits(t, roots, present) ==
  LET met == Met(t, roots, present) IN
  {hits \in kSubset(Fewest(HardLimit, Cardinality(met)), met) :
     \A h \in hits, m \in met \ hits : h[1] <= m[1]}

\* The newest of them: sorted by mtime, then truncated.
AnyOf(hits) == kSubset(Fewest(MaxShown, Cardinality(hits)), hits)
Newest(hits) == {top \in AnyOf(hits) :
                   \A h \in top, m \in hits \ top : Mtime[h[2]] >= Mtime[m[2]]}

Is(kind, hits) == [kind |-> kind, hits |-> hits]

Searched(t, top) ==
  IF top = {} THEN Is(IF LooksLikePath(t) THEN "not_found" ELSE "unsupported", {})
  ELSE Is(IF Cardinality(top) = 1 THEN "path" ELSE "candidates", top)

\* resolve, as the set of what it may return.  What exists is returned as it is,
\* file or directory, and met under no root.
Resolve(t, searchRoots, present) ==
  IF t.kind \in {"blank", "url"} THEN {Is(IF t.kind = "url" THEN "url" ELSE "empty", {})}
  ELSE LET found == {p \in Direct(t) : Exists(present, p)} IN
       IF found # {} THEN {Is("path", {<<0, p>> : p \in found})}
       ELSE {Searched(t, top) :
               top \in UNION {Newest(hits) : hits \in Hits(t, Roots(searchRoots, present), present)}}

-----------------------------------------------------------------------------
(* The reference: the files that a text without a lead means, if it names   *)
(* the end of their path and one of the roots leads to them, and those that *)
(* two roots lead to.                                                       *)
LeadsTo(root, f) == IsPrefix(root, f) /\ <<root, f>> \notin Skipped

Meant(t, roots, present) ==
  {f \in present : /\ \E p \in Prefixes(f) : f = p \o t.segments
                   /\ \E i \in DOMAIN roots : LeadsTo(roots[i], f)}

Doubled(roots, present) ==
  {f \in present : \E i, j \in DOMAIN roots :
     i # j /\ LeadsTo(roots[i], f) /\ LeadsTo(roots[j], f)}
=============================================================================
