------------------------------ MODULE MCWatch ------------------------------
EXTENDS Watch

\* A directory with a file in it, and the scratch file an editor saves it by.
MCParent == [p \in Path |-> IF p = "dir" THEN "root" ELSE "dir"]
=============================================================================
