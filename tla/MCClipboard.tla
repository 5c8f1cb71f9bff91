---------------------------- MODULE MCClipboard ----------------------------
(* Instances of Clipboard for TLC: a home with two projects in it, files of *)
(* one name in several directories, one of them ignored, one hidden from    *)
(* one root and not from the other, and two changed at the same time.       *)
EXTENDS Clipboard, TLC

CodeDir == <<"home", "code">>
A == <<"home", "code", "a", "x.md">>
B == <<"home", "code", "b", "x.md">>
Top == <<"home", "code", "x.md">>
Ignored == <<"home", "code", "node_modules", "x.md">>
Hidden == <<"home", "code", ".p", "x.md">>
HiddenDir == <<"home", "code", ".p">>
Doc == <<"home", "docs", "x.md">>

SomeFiles == {A, B, Top, Ignored, Hidden, Doc}
SkippedFiles == {<<CodeDir, Ignored>>, <<CodeDir, Hidden>>}
Times == (A :> 1) @@ (B :> 2) @@ (Top :> 2) @@ (Ignored :> 3) @@ (Hidden :> 3) @@ (Doc :> 1)
HomeDir == <<"home">>
TwoDefaults == <<CodeDir, <<"home", "docs">>>>
NestedRoots == <<CodeDir, <<"home", "code", "a">>>>
SomeRoots == {<<>>, NestedRoots, <<CodeDir, HiddenDir>>, <<<<"home", "docs">>, <<"nowhere">>>>}

Path(lead, segments) == [kind |-> "path", lead |-> lead, segments |-> segments]
SomeTexts ==
  { [kind |-> "blank", lead |-> "", segments |-> <<>>],
    [kind |-> "url", lead |-> "", segments |-> <<>>],
    [kind |-> "prose", lead |-> "", segments |-> <<"some words">>],
    Path("", <<"x.md">>), Path("", <<"a", "x.md">>), Path("", <<"word">>),
    Path("", <<"b", "word">>), Path("/", <<"nowhere">>), Path("/", CodeDir), Path("~/", <<"code", "b", "x.md">>) }
=============================================================================
