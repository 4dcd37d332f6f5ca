--------------------------- MODULE MCFlashManager ---------------------------
(***************************************************************************)
(* FlashManager on a page of a few words, with entries of two lengths.     *)
(***************************************************************************)
EXTENDS FlashManager, TLC

CONSTANTS a, b

MCLEN == (a :> 2) @@ (b :> 3)

\* The values of "a" tell an old entry from a new one; "b" has one value.
OneValue == \A j \in DOMAIN ram'.queue : ram'.queue[j].handle = b => ram'.queue[j].value # 2

MCNext == (KeptRequest(a) /\ OneValue) \/ Operate

\* The flash is served in every free timeslot.
MCStoreSpec == Init /\ [][MCNext \/ KeptPowerCycle(a)]_vars /\ WF_vars(Operate)

\* The power fails while a defragmentation relies on the recovery page, too.
MCInDefrag == Stored[a] # NONE /\ PowerCycle

MCDefragSpec == Init /\ [][MCNext \/ MCInDefrag]_vars
=============================================================================
