---------------------------- MODULE MCAccountsRace ----------------------------
(***************************************************************************)
(* Two instances of the account handlers in one run, of workers that race. *)
(* In "accounts" users are deleted and register again, statements fail and *)
(* the machine stops, with one login. In "sessions" there are two logins,  *)
(* so that a logout whose iterator dangles has another session to erase,   *)
(* and nobody is deleted.                                                  *)
(***************************************************************************)
EXTENDS MCAccounts

VARIABLE part   \* which of the two

allvars == <<vars, part>>

Deletions == INSTANCE AccountsProperties WITH
  MaxLogins <- 1, DiskFaults <- TRUE, Crashes <- TRUE

Logins == INSTANCE AccountsProperties WITH
  Offered <- Offered \ {"delete_user"}

MCInit == Init /\ part \in {"accounts", "sessions"}

MCNext ==
  /\ \/ part = "accounts" /\ Deletions!Next
     \/ part = "sessions" /\ Logins!Next
  /\ UNCHANGED part

MCSpec == MCInit /\ [][MCNext]_allvars
=============================================================================
