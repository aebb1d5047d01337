----------------------------- MODULE MCMetadata -----------------------------
(***************************************************************************)
(* Small instances of Metadata: names of one part, whose identifiers are   *)
(* distinct, and names with hyphens, whose identifiers need not be.        *)
(***************************************************************************)
EXTENDS Metadata, TLC

PlainClusters == {<<"a">>}
PlainDatabases == {<<"c">>, <<"d">>}

\* "a" and "a-b", "b-c" and "c"
HyphenClusters == {<<"a">>, <<"a", "b">>}
HyphenDatabases == {<<"b", "c">>, <<"c">>}

Interchangeable == Permutations(Request) \cup Permutations(Value)
=============================================================================
