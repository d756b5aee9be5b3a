----------------------------- MODULE UserManager -----------------------------
(***************************************************************************)
(* src/auth/user_manager.py: the cache of accounts, their file, and the     *)
(* process that loads it when it starts, prepares the users of a run        *)
(* (setup_users in src/simulation.py) and then serves.                      *)
(***************************************************************************)
EXTENDS Naturals

CONSTANTS
  User, Password,
  Blank,        \* a password of white space: User() takes it, from_dict() does not
  None,         \* no password, user, thread
  Cut,          \* what a file holds that is no JSON: its writing was cut short
  Main,         \* the thread that runs the simulation
  Worker,       \* the threads of the servers
  Wanted,       \* the users of the simulation
  Common,       \* the password that it gives all of them
  Faults,       \* which file operations may fail: "load", "save", "mailbox"
  MaxCalls,     \* how many calls are made in one run of the process
  MaxCrashes

Thread == Worker \union {Main}

ASSUME UserAssumption ==
  /\ None \notin Password \union User \union Thread /\ Main \notin Worker
  /\ Cut \notin [User -> Password \union {None}]
  /\ Wanted \subseteq User /\ Common \in Password \ {Blank}
  /\ Faults \subseteq {"load", "save", "mailbox"}
  /\ MaxCalls \in Nat /\ MaxCrashes \in Nat

VARIABLES
  cache,        \* self.users: the password of each user
  db,           \* users.json: its records, or Cut
  tmp,          \* users.json.tmp
  mailboxes,    \* the mailbox directories
  lock,         \* the thread that holds _lock
  call,         \* where each thread is
  phase,        \* of the process: see Start and setup_users
  calls, crashes,
  created       \* history: the accounts that create_user() saved, with their mailboxes

vars == <<cache, db, tmp, mailboxes, lock, call, phase, calls, crashes, created>>

Nobody == [u \in User |-> None]
Idle == [at |-> "idle", user |-> None, pw |-> None, saved |-> FALSE, found |-> None]

\* What from_dict() takes of a file.
Loaded(file) ==
  IF file = Cut THEN Nobody
  ELSE [u \in User |-> IF file[u] = Blank THEN None ELSE file[u]]

Init ==
  /\ cache = Nobody /\ tmp = Nobody
  /\ db \in [User -> Password \union {None}] \union {Cut}
  /\ mailboxes \in SUBSET User
  /\ lock = None
  /\ call = [t \in Thread |-> Idle]
  /\ phase = "down"
  /\ calls = 0 /\ crashes = 0
  /\ created = Nobody

-----------------------------------------------------------------------------
(* The process.                                                             *)

\* UserManager() loads the file, of which it takes nothing when that fails.  The process
\* is the simulation, or one that serves the accounts it finds.
_load_users ==
  /\ phase = "down"
  /\ phase' \in {"clean", "serve"}
  /\ \/ cache' = Loaded(db)
     \/ "load" \in Faults /\ cache' = Nobody
  /\ UNCHANGED <<db, tmp, mailboxes, lock, call, calls, crashes, created>>

\* The mailboxes are removed and users.json is written anew, in place.
ensure_directories ==
  /\ phase = "clean"
  /\ phase' = "truncate"
  /\ mailboxes' = {} /\ created' = Nobody
  /\ UNCHANGED <<cache, db, tmp, lock, call, calls, crashes>>

ensure_users_json ==
  /\ \/ phase = "truncate" /\ phase' = "empty" /\ db' = Cut
     \/ phase = "empty" /\ phase' = "setup" /\ db' = Nobody
  /\ UNCHANGED <<cache, tmp, mailboxes, lock, call, calls, crashes, created>>

\* The loop of setup_users() is done: the servers start.
start_servers ==
  /\ phase = "setup" /\ lock = None
  /\ \A u \in Wanted : cache[u] # None
  /\ phase' = "serve"
  /\ UNCHANGED <<cache, db, tmp, mailboxes, lock, call, calls, crashes, created>>

\* The process dies, wherever its threads are.
Crash ==
  /\ phase # "down" /\ crashes < MaxCrashes
  /\ phase' = "down"
  /\ cache' = Nobody /\ lock' = None /\ call' = [t \in Thread |-> Idle]
  /\ calls' = 0 /\ crashes' = crashes + 1
  /\ UNCHANGED <<db, tmp, mailboxes, created>>

-----------------------------------------------------------------------------
(* The calls.                                                               *)

At(t, place) == call[t].at = place
Goes(t, place) == call' = [call EXCEPT ![t].at = place]

\* Who calls: setup_users() for a user it does not find, and the servers' threads.
MayCreate(t, u, pw) ==
  \/ phase = "setup" /\ t = Main /\ u \in Wanted /\ pw = Common
  \/ phase = "serve" /\ t \in Worker /\ calls < MaxCalls

\* Mutant: nobody looks whether there is such a user.
create_userAgain(t, u, pw) ==
  /\ At(t, "idle") /\ MayCreate(t, u, pw)
  /\ lock = None
  /\ lock' = t
  /\ cache' = [cache EXCEPT ![u] = pw]
  /\ call' = [call EXCEPT ![t] = [Idle EXCEPT !.at = "write", !.user = u, !.pw = pw]]
  /\ calls' = calls + 1
  /\ UNCHANGED <<db, tmp, mailboxes, phase, crashes, created>>

\* create_user() adds a user to the cache, unless there is one.
create_user(t, u, pw) ==
  /\ At(t, "idle") /\ MayCreate(t, u, pw)
  /\ lock = None /\ cache[u] = None
  /\ lock' = t
  /\ cache' = [cache EXCEPT ![u] = pw]
  /\ call' = [call EXCEPT ![t] = [Idle EXCEPT !.at = "write", !.user = u, !.pw = pw]]
  /\ calls' = calls + 1
  /\ UNCHANGED <<db, tmp, mailboxes, phase, crashes, created>>

\* Mutant: the file is written in place.
WriteInPlace(t) ==
  /\ At(t, "write")
  /\ \/ tmp' = cache /\ db' = Cut /\ Goes(t, "replace")
     \/ "save" \in Faults /\ Goes(t, "mailbox") /\ tmp' \in {tmp, Cut} /\ UNCHANGED db
  /\ UNCHANGED <<cache, mailboxes, lock, phase, calls, crashes, created>>

\* Mutant: only the new user is written.
WriteOne(t) ==
  /\ At(t, "write")
  /\ \/ tmp' = [Nobody EXCEPT ![call[t].user] = call[t].pw] /\ Goes(t, "replace")
     \/ "save" \in Faults /\ Goes(t, "mailbox") /\ tmp' \in {tmp, Cut}
  /\ UNCHANGED <<cache, db, mailboxes, lock, phase, calls, crashes, created>>

\* _save_users(): the temporary file, then its replacement; an error is logged.
WriteTemporary(t) ==
  /\ At(t, "write")
  /\ \/ tmp' = cache /\ Goes(t, "replace")
     \/ "save" \in Faults /\ Goes(t, "mailbox") /\ tmp' \in {tmp, Cut}
  /\ UNCHANGED <<cache, db, mailboxes, lock, phase, calls, crashes, created>>

\* Mutant: the lock is let go with the save.
ReplaceAndRelease(t) ==
  /\ At(t, "replace")
  /\ \/ /\ db' = tmp
        /\ call' = [call EXCEPT ![t].at = "mailbox", ![t].saved = TRUE]
     \/ "save" \in Faults /\ UNCHANGED db /\ Goes(t, "mailbox")
  /\ lock' = None
  /\ UNCHANGED <<cache, tmp, mailboxes, phase, calls, crashes, created>>

Replace(t) ==
  /\ At(t, "replace")
  /\ \/ /\ db' = tmp
        /\ call' = [call EXCEPT ![t].at = "mailbox", ![t].saved = TRUE]
     \/ "save" \in Faults /\ UNCHANGED db /\ Goes(t, "mailbox")
  /\ UNCHANGED <<cache, tmp, mailboxes, lock, phase, calls, crashes, created>>

\* Mutant: a mailbox that cannot be made leaves the lock taken.
MakeMailboxOrHang(t) ==
  /\ At(t, "mailbox")
  /\ \/ /\ mailboxes' = mailboxes \union {call[t].user}
        /\ created' = IF call[t].saved THEN [created EXCEPT ![call[t].user] = call[t].pw]
                                       ELSE created
        /\ lock' = None
     \/ "mailbox" \in Faults /\ UNCHANGED <<mailboxes, created, lock>>
  /\ call' = [call EXCEPT ![t] = Idle]
  /\ UNCHANGED <<cache, db, tmp, phase, calls, crashes>>

\* The mailbox and its empty metadata, and the lock is free: the user is returned.
MakeMailbox(t) ==
  /\ At(t, "mailbox")
  /\ \/ /\ mailboxes' = mailboxes \union {call[t].user}
        /\ created' = IF call[t].saved THEN [created EXCEPT ![call[t].user] = call[t].pw]
                                       ELSE created
     \/ "mailbox" \in Faults /\ UNCHANGED <<mailboxes, created>>
  /\ lock' = None
  /\ call' = [call EXCEPT ![t] = Idle]
  /\ UNCHANGED <<cache, db, tmp, phase, calls, crashes>>

\* authenticate() looks the user up under the lock and compares behind it.
get_user(t, u, pw) ==
  /\ At(t, "idle") /\ phase = "serve" /\ t \in Worker /\ calls < MaxCalls
  /\ lock = None
  /\ call' = [call EXCEPT ![t] = [Idle EXCEPT !.at = "verify", !.user = u, !.pw = pw,
                                              !.found = cache[u]]]
  /\ calls' = calls + 1
  /\ UNCHANGED <<cache, db, tmp, mailboxes, lock, phase, crashes, created>>

Accepts(t) == At(t, "verify") /\ call[t].found = call[t].pw

verify_password(t) ==
  /\ At(t, "verify")
  /\ call' = [call EXCEPT ![t] = Idle]
  /\ UNCHANGED <<cache, db, tmp, mailboxes, lock, phase, calls, crashes, created>>

Saves(t) == WriteTemporary(t) \/ Replace(t) \/ MakeMailbox(t)

Prepares == ensure_directories \/ ensure_users_json \/ start_servers

Next ==
  \/ _load_users \/ Prepares \/ Crash
  \/ \E t \in Thread : Saves(t) \/ verify_password(t)
  \/ \E t \in Thread, u \in User, pw \in Password : create_user(t, u, pw) \/ get_user(t, u, pw)

Spec == Init /\ [][Next]_vars

\* A thread inside a call runs on, and so does the main thread while it prepares.
FairSpec ==
  /\ Spec
  /\ WF_vars(Prepares)
  /\ WF_vars(\E u \in Wanted : create_user(Main, u, Common))
  /\ \A t \in Thread : WF_vars(Saves(t)) /\ WF_vars(verify_password(t))

-----------------------------------------------------------------------------
(* Properties.                                                              *)

File == [User -> Password \union {None}]
CallRecord == [at : {"idle", "write", "replace", "mailbox", "verify"},
               user : User \union {None}, pw : Password \union {None},
               saved : BOOLEAN, found : Password \union {None}]

\* TypeOK: the shape of every variable, and the lock is held exactly by the thread that
\* is between adding a user and returning it.
TypeOK ==
  /\ cache \in File /\ db \in File \union {Cut} /\ tmp \in File \union {Cut}
  /\ mailboxes \subseteq User /\ lock \in Thread \union {None}
  /\ call \in [Thread -> CallRecord]
  /\ \A t \in Thread : At(t, "write") \/ At(t, "replace") \/ At(t, "mailbox") <=> lock = t
  /\ phase \in {"down", "clean", "truncate", "empty", "setup", "serve"}
  /\ calls \in Nat /\ crashes \in Nat /\ created \in File

\* users.json implements Accounts: through failed saves, crashes between any two steps
\* and half-written files no account that was saved is lost or gets another password,
\* but when the simulation writes the file anew.
AccountsSpec == INSTANCE Accounts WITH accounts <- Loaded(db), preparing <- phase = "truncate"
Durable == AccountsSpec!Spec

\* An account that create_user() returned after its save and its mailbox worked is still
\* there after any crash, can be loaded, and has its mailbox: only the simulation's next
\* start, which removes both, may end that.
CreatedSurvives ==
  \A u \in User :
    created[u] \notin {None, Blank} => Loaded(db)[u] = created[u] /\ u \in mailboxes

\* While the process runs, a login is accepted with the one password the account has,
\* now and when it was looked up: an account is not created twice, and what the file
\* holds is what the servers go by.
LoginIsCurrent ==
  \A t \in Thread : Accepts(t) => /\ cache[call[t].user] = call[t].pw
                                  /\ Loaded(db)[call[t].user] \in {None, call[t].pw}

\* Every call returns unless the process dies, and a simulation that starts gets to the
\* point where its users are there, whatever its files do.
CallsReturn ==
  /\ \A t \in Thread : ~At(t, "idle") ~> At(t, "idle")
  /\ phase \in {"clean", "truncate", "empty", "setup"} ~> phase \in {"serve", "down"}
=============================================================================
