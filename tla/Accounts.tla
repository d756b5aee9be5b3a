------------------------------ MODULE Accounts ------------------------------
(***************************************************************************)
(* What src/auth/user_manager.py promises of users.json: an account that is *)
(* there keeps its password, through crashes and restarts; accounts come    *)
(* with a save, and go only while the simulation prepares the file for a    *)
(* new run.                                                                 *)
(***************************************************************************)
CONSTANTS User, Password, None

VARIABLES
  accounts,      \* the password of each user, None without an account
  preparing      \* the simulation is about to empty the file

vars == <<accounts, preparing>>

Init ==
  /\ accounts \in [User -> Password \union {None}]
  /\ preparing = FALSE

Prepare == preparing' \in BOOLEAN /\ UNCHANGED accounts

Save ==
  /\ accounts' \in [User -> Password \union {None}]
  /\ \A u \in User : accounts[u] # None => accounts'[u] = accounts[u]
  /\ UNCHANGED preparing

Reset ==
  /\ preparing
  /\ accounts' = [u \in User |-> None]
  /\ preparing' = FALSE

Next == Prepare \/ Save \/ Reset

Spec == Init /\ [][Next]_vars
=============================================================================
