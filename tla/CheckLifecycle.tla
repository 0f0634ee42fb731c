--------------------------- MODULE CheckLifecycle ---------------------------
(***************************************************************************)
(* What the license checks of an import promise to whoever reads one: one  *)
(* look at Entra at a time counts, each look is of what was so after it    *)
(* began, and a check that has ended stays as it is.  Without the sweeps,  *)
(* claims, tokens, retries and faults that ImportLicenses needs.           *)
(***************************************************************************)
VARIABLES
    \* the row's status, the groups it joined, the licenses Entra lists
    row, joined, granted,
    \* the check: status, the groups looked for and those of them listed
    status, looked, listed,
    \* the look that counts: how far it is, the groups it looks for and what
    \* it saw of them, and whether nobody may take the check from it yet
    look, groups, sees, leased

world == <<row, joined, granted>>
found == <<looked, listed>>
check == <<status, found>>
atWork == <<look, groups, sees, leased>>

Init ==
    /\ row = "open" /\ joined = {} /\ granted = {}
    /\ status = "waiting" /\ looked = {} /\ listed = {}
    /\ look = "none" /\ groups = {} /\ sees = {} /\ leased = FALSE

\* The import and Entra do as they like.
Elsewhere == UNCHANGED <<check, atWork>>

\* A waiting check of a row that has ended is taken up, instead of a look
\* whose lease is over, ...
Begin ==
    /\ status = "waiting" /\ row \in {"succeeded", "partial"} /\ ~leased
    /\ look' = "begun" /\ groups' = {} /\ sees' = {} /\ leased' = TRUE
    /\ UNCHANGED <<world, check>>

\* ... looks for what the row has joined by then, ...
Aim ==
    /\ look = "begun"
    /\ look' = IF joined = {} THEN "unjoined" ELSE "aimed"
    /\ groups' = joined
    /\ UNCHANGED <<world, check, sees, leased>>

\* ... and sees what is listed then, or nothing.
See ==
    /\ look = "aimed"
    /\ \/ look' = "seen" /\ sees' = granted \cap groups
       \/ look' = "nothing" /\ UNCHANGED sees
    /\ UNCHANGED <<world, check, groups, leased>>

Ends == look' = "none" /\ groups' = {} /\ sees' = {} /\ leased' = FALSE

\* A look counts once: all that was looked for is listed, or not yet.
Record ==
    /\ \/ /\ look = "seen" /\ looked' = groups /\ listed' = sees
          /\ status' = IF groups = sees THEN "settled" ELSE "waiting"
       \/ look = "unjoined" /\ status' = "stopped" /\ UNCHANGED found
       \/ look = "nothing" /\ UNCHANGED check
    /\ Ends /\ UNCHANGED world

Dies == look # "none" /\ Ends /\ UNCHANGED <<world, check>>

LeaseEnds ==
    /\ leased /\ leased' = FALSE
    /\ UNCHANGED <<world, check, look, groups, sees>>

\* A check is given up, and what a look at it still finds with it.
Stop ==
    /\ status = "waiting" /\ ~leased /\ status' = "stopped"
    /\ Ends /\ UNCHANGED <<world, found>>

Next == Elsewhere \/ Begin \/ Aim \/ See \/ Record \/ Dies \/ LeaseEnds \/ Stop

Spec == Init /\ [][Next]_<<world, check, atWork>>
=============================================================================
