------------------------------ MODULE MCVaults ------------------------------
EXTENDS Vaults

\* One chunk to a content, no sharing rules, and one name to fall back on.
MCChunksOf == [c \in Content |-> {c}]
MCFolders == [p \in Path |-> {}]
MCRuleOf == [p \in {} |-> {}]
MCReceivedPath == [p \in Path |-> "b"]
MCRoutes == {<<1, 2>>, <<2, 1>>}
=============================================================================
