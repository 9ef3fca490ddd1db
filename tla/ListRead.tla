------------------------------ MODULE ListRead ------------------------------
(***************************************************************************)
(* What a device promises when it reads another's file list: it comes away  *)
(* with a list that was that device's at some moment of the reading.        *)
(***************************************************************************)
CONSTANTS List,    \* the lists there can be
          Nothing  \* what a device has before its first reading

VARIABLES list,    \* the list the other device would send now
          during,  \* the lists it would have sent since the reading began
          got      \* the list last read

Init == list \in List /\ during = {} /\ got = Nothing

Change == /\ list' \in List
          /\ during' = IF during = {} THEN {} ELSE during \cup {list'}
          /\ UNCHANGED got

Begin == during' = {list} /\ UNCHANGED <<list, got>>

Return == during # {} /\ got' \in during /\ during' = {} /\ UNCHANGED list

Abandon == during' = {} /\ UNCHANGED <<list, got>>

\* The device that reads is started again: it has not read anything.
Forget == during' = {} /\ got' = Nothing /\ UNCHANGED list

Next == Change \/ Begin \/ Return \/ Abandon \/ Forget

Spec == Init /\ [][Next]_<<list, during, got>>
=============================================================================
