------------------------------ MODULE MCAccounts ------------------------------
(***************************************************************************)
(* Values of the constants for TLC, and one worker alone with accounts.    *)
(***************************************************************************)
EXTENDS AccountsProperties, TLC

\* Names are in lower case, one of them empty.
MCLower == [n \in Names \cup {NoName} |-> n]

WorkersAreAlike == Permutations(Workers)

\* One worker serves all the requests for accounts, while the others are busy
\* with those of other components on the same connection.
Lone == CHOOSE w \in Workers : TRUE

LoneNext == Step(Lone) \/ Arrival(Lone) \/ OtherStatement \/ Crash

\* A thread in a handler is scheduled again, and what a statement does is done:
\* nobody has to send a request, and no statement has to fail.
Serves == Step(Lone) /\ ~LogoutFails(Lone) /\ ~DeleteUserFails(Lone)

LoneSpec == Init /\ [][LoneNext]_vars /\ WF_vars(Serves)
=============================================================================
