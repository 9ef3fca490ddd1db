------------------------------ MODULE MCPhone ------------------------------
(***************************************************************************)
(* Up to two own computers and three times of being set up: four pairings  *)
(* with one computer, two among two.  A pass has two files to be collected *)
(* from it, one of them offered only to a holder and on Wi-Fi.  Two files  *)
(* are fetched: of three chunks and its later version, which differs in    *)
(* the middle one, or of one chunk that the later version also has.  A     *)
(* folder, one in it with a photo, and a film and the chats of WhatsApp's  *)
(* are backed up: with many choices, or many runs, or some of each.        *)
(***************************************************************************)
EXTENDS Phone

CONSTANTS c1, c2, ck1, ck2, ck3, ck4, pictures, camera, photo

MCHomes == {{c1}, {c1, c2}}
MCMaxPairings == [n \in 0..2 |-> CASE n = 0 -> 0 [] n = 1 -> 4 [] n = 2 -> 2]
MCLefts == {{"shared", "backup"}}
MCManifest == [c \in {"one", "two", "tiny"} |->
                 CASE c = "one" -> <<ck1, ck2, ck3>> [] c = "two" -> <<ck1, ck4, ck3>> [] c = "tiny" -> <<ck4>>]
MCInside == [f \in {pictures, camera} |-> IF f = pictures THEN {camera} ELSE {}]
MCFolderOf == [f \in BackupFile |-> IF f = photo THEN camera ELSE WhatsApp]
MCBounds == {[choices |-> 3, edits |-> 1, runs |-> 0, ahead |-> 0], [choices |-> 3, edits |-> 1, runs |-> 0, ahead |-> 1],
             [choices |-> 2, edits |-> 0, runs |-> 1, ahead |-> 0], [choices |-> 1, edits |-> 1, runs |-> 2, ahead |-> 0],
             [choices |-> 0, edits |-> 2, runs |-> 2, ahead |-> 0], [choices |-> 0, edits |-> 1, runs |-> 4, ahead |-> 0]}
=============================================================================
