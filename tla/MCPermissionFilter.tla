-------------------------- MODULE MCPermissionFilter --------------------------
EXTENDS PermissionFilter

\* A well-formed raw pattern.
Pat(neg, abs, dir, toks) == [neg |-> neg, abs |-> abs, dir |-> dir, toks |-> toks, valid |-> TRUE]

\* Every flag combination over pattern shapes with and without a slash,
\* a leading, a middle-less and a trailing "**".
MCPatterns ==
    {Pat(n, a, d, t) : n \in BOOLEAN, a \in BOOLEAN, d \in BOOLEAN,
                       t \in {<<"s">>, <<"*">>, <<"a", "s">>, <<"s", "**">>, <<"**", "s">>}}

\* Request inputs for the matcher run: the root, a directory and a path
\* inside it, as files, names and directories.
MCRoots == {<<>>, <<"a">>}
MCFiles == {<<"s">>, <<"a", "s">>}
MCDirs  == {<<>>, <<"s">>, <<"a", "s">>}

\* Inputs of the bypass runs.
MCRootTop      == {<<>>}
MCRootBoth     == {<<>>, <<"s">>, <<"a">>}
MCFileName     == {<<"a">>, <<"s">>}
MCFileNested   == {<<"s", "a">>}
MCFileBoth     == MCFileName \cup MCFileNested
MCDirTop       == {<<>>}

\* Single patterns that show one way around the check each.
MCAnchoredPair == {Pat(FALSE, TRUE, FALSE, <<"a", "s">>)}   \* "/a/s"
MCDirOnly      == {Pat(FALSE, FALSE, TRUE, <<"s">>)}        \* "s/"
MCHiddenPatterns == MCAnchoredPair \cup MCDirOnly
=============================================================================
