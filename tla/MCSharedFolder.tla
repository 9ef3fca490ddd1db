--------------------------- MODULE MCSharedFolder ---------------------------
(* A guest (1) and a phone of the owner's (2) at one computer.             *)
EXTENDS SharedFolder

MCRelation == <<"guest", "own">>
MCKind == <<"phone", "phone">>

\* A folder, a file in a folder of it, and a name at the top; rules for the
\* folder or for the one in it.
MCPlace == {<<<<"d">>>>, <<<<"d">>, <<"s">>, <<"a">>>>, <<<<"e">>>>}
MCRuleFolder == {<<<<"d">>>>, <<<<"d">>, <<"s">>>>}

MCWritten == {<<3>>}
MCAdded == {<<1, 2>>}
MCSharingDir == <<".qurb-sharing">>
=============================================================================
