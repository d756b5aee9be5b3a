-------------------------- MODULE UserManagerProofs --------------------------
(***************************************************************************)
(* Theorems about module UserManager, for any users, passwords and threads  *)
(* and any number of calls and crashes.  Types and the lock hold whatever   *)
(* fails; the others need users.json to be readable when the process starts *)
(* (what it overwrites when it is not is lost).                             *)
(***************************************************************************)
EXTENDS UserManager, TLAPS

\* users.json can be read, even if not written.
Readable == "load" \notin Faults

\* A thread inside a call knows its user and password.
ArgInv == \A t \in Thread :
  call[t].at # "idle" => call[t].user \in User /\ call[t].pw \in Password

TypeInv == TypeOK /\ ArgInv

\* What the process knows of its file: while it runs, the cache has every account of it,
\* and more only where a save is under way or has failed.
CacheInv ==
  phase # "down" => \A u \in User : Loaded(db)[u] # None => cache[u] = Loaded(db)[u]

\* Inside a call a thread works for a user that the cache holds, and has written what the
\* cache holds.
CallInv == \A t \in Thread : LET c == call[t] IN
  /\ c.at # "idle" => phase \in {"setup", "serve"}
  /\ lock = t => cache[c.user] = c.pw
  /\ c.at = "replace" => tmp = cache
  /\ c.saved => c.at = "mailbox" /\ db = cache
  /\ c.at = "verify" /\ c.found # None => cache[c.user] = c.found

\* While the simulation writes the file anew, nothing is in it and nothing in the history.
CreatedInv ==
  /\ CreatedSurvives
  /\ phase \in {"truncate", "empty"} => created = Nobody
  /\ phase = "empty" => db = Cut

IInv == TypeInv /\ CacheInv /\ CallInv /\ CreatedInv

-----------------------------------------------------------------------------
(* Type correctness and the lock                                           *)

LEMMA LoadedType == ASSUME NEW f \in File \union {Cut} PROVE Loaded(f) \in File
BY UserAssumption DEF File, Loaded, Nobody

LEMMA NobodyType == Nobody \in File /\ \A u \in User : Nobody[u] = None
BY DEF File, Nobody

LEMMA IdleType == Idle \in CallRecord /\ Idle.at = "idle" /\ Idle.saved = FALSE
BY DEF Idle, CallRecord

LEMMA NoThread == None \notin Thread /\ Main \in Thread
BY UserAssumption DEF Thread

LEMMA TypeInit == Init => TypeInv
<1> SUFFICES ASSUME Init PROVE TypeInv
  OBVIOUS
<1> QED
  BY NobodyType, IdleType, NoThread DEF Init, TypeInv, ArgInv, TypeOK, File, At

LEMMA TypeStep == TypeInv /\ [Next]_vars => TypeInv'
<1> SUFFICES ASSUME TypeInv, [Next]_vars PROVE TypeInv'
  OBVIOUS
<1> USE NoThread, NobodyType, IdleType DEF TypeInv, ArgInv, TypeOK, CallRecord, At, Goes
<1>1. CASE _load_users
  BY <1>1, LoadedType DEF _load_users
<1>2. CASE ensure_directories
  BY <1>2 DEF ensure_directories
<1>3. CASE ensure_users_json
  BY <1>3 DEF ensure_users_json
<1>4. CASE start_servers
  BY <1>4 DEF start_servers
<1>5. CASE Crash
  <2>1. crashes' \in Nat /\ calls' \in Nat
    BY <1>5 DEF Crash
  <2> QED
    BY <1>5, <2>1 DEF Crash
<1>6. ASSUME NEW t \in Thread, WriteTemporary(t) PROVE TypeInv'
  BY <1>6 DEF WriteTemporary
<1>7. ASSUME NEW t \in Thread, Replace(t) PROVE TypeInv'
  BY <1>7 DEF Replace
<1>8. ASSUME NEW t \in Thread, MakeMailbox(t) PROVE TypeInv'
  <2>1. mailboxes' \subseteq User
    BY <1>8 DEF MakeMailbox
  <2>2. created' \in File
    BY <1>8 DEF MakeMailbox, File
  <2>3. call' \in [Thread -> CallRecord]
    BY <1>8 DEF MakeMailbox
  <2> QED
    BY <1>8, <2>1, <2>2, <2>3 DEF MakeMailbox
<1>9. ASSUME NEW t \in Thread, verify_password(t) PROVE TypeInv'
  BY <1>9 DEF verify_password
<1>10. ASSUME NEW t \in Thread, NEW u \in User, NEW pw \in Password, create_user(t, u, pw)
       PROVE  TypeInv'
  <2> DEFINE c == call'[t]
  <2>1. c \in CallRecord
    BY <1>10 DEF create_user, Idle, File
  <2>2. c.user = u /\ c.pw = pw /\ c.at = "write"
    BY <1>10 DEF create_user, Idle
  <2>3. \A v \in Thread \ {t} : call'[v] = call[v]
    BY <1>10 DEF create_user, Idle
  <2>4. call' \in [Thread -> CallRecord]
    BY <1>10, <2>1, <2>3 DEF create_user
  <2>5. cache' \in File
    BY <1>10 DEF create_user, File
  <2>6. \A v \in Thread : At(v, "write")' \/ At(v, "replace")' \/ At(v, "mailbox")' <=> lock' = v
    BY <1>10, <2>2, <2>3 DEF create_user
  <2>7. calls' \in Nat
    BY <1>10 DEF create_user
  <2> HIDE DEF c
  <2>8. ArgInv'
    BY <1>10, <2>2, <2>3 DEF c
  <2> QED
    BY <1>10, <2>4, <2>5, <2>6, <2>7, <2>8 DEF create_user
<1>11. ASSUME NEW t \in Thread, NEW u \in User, NEW pw \in Password, get_user(t, u, pw)
       PROVE  TypeInv'
  <2> DEFINE c == call'[t]
  <2>1. c \in CallRecord
    BY <1>11 DEF get_user, Idle, File
  <2>2. c.user = u /\ c.pw = pw /\ c.at = "verify"
    BY <1>11 DEF get_user, Idle
  <2>3. \A v \in Thread \ {t} : call'[v] = call[v]
    BY <1>11 DEF get_user, Idle
  <2>4. call' \in [Thread -> CallRecord]
    BY <1>11, <2>1, <2>3 DEF get_user
  <2>5. cache' \in File
    BY <1>11 DEF get_user, File
  <2>6. \A v \in Thread : At(v, "write")' \/ At(v, "replace")' \/ At(v, "mailbox")' <=> lock' = v
    BY <1>11, <2>2, <2>3 DEF get_user
  <2>7. calls' \in Nat
    BY <1>11 DEF get_user
  <2> HIDE DEF c
  <2>8. ArgInv'
    BY <1>11, <2>2, <2>3 DEF c
  <2> QED
    BY <1>11, <2>4, <2>5, <2>6, <2>7, <2>8 DEF get_user
<1>12. CASE UNCHANGED vars
  BY <1>12 DEF vars
<1> QED
  BY <1>1, <1>2, <1>3, <1>4, <1>5, <1>6, <1>7, <1>8, <1>9, <1>10, <1>11, <1>12
     DEF Next, Prepares, Saves

\* Every variable of the user manager has its type, and the thread that holds the lock is
\* the one inside create_user(), whatever fails and wherever the process dies.
THEOREM UserTypeCorrect == Spec => []TypeOK
<1> QED
  BY TypeInit, TypeStep, PTL DEF Spec, TypeInv

-----------------------------------------------------------------------------
(* What is in the file stays                                               *)

LEMMA LoadedLemma ==
  /\ Loaded(Cut) = Nobody /\ Loaded(Nobody) = Nobody
  /\ \A f \in File, u \in User : /\ f # Cut
                                 /\ Loaded(f)[u] # None => Loaded(f)[u] = f[u]
                                 /\ f[u] # Blank => Loaded(f)[u] = f[u]
BY UserAssumption DEF Loaded, Nobody, File

LEMMA InvInit == Init => IInv
<1> SUFFICES ASSUME Init PROVE IInv
  OBVIOUS
<1> QED
  BY TypeInit, IdleType, NoThread, NobodyType
     DEF Init, IInv, CacheInv, CallInv, CreatedInv, CreatedSurvives

\* The steps of the process itself, during which no call is open but that of a crash.
LEMMA ProcessStep ==
  ASSUME IInv, TypeInv', Readable, _load_users \/ Prepares \/ Crash
  PROVE  IInv'
<1> USE NoThread, NobodyType, IdleType, LoadedLemma, UserAssumption
    DEF IInv, TypeInv, TypeOK, CacheInv, CallInv, CreatedInv, CreatedSurvives, At
<1>1. CASE _load_users
  BY <1>1 DEF _load_users, Readable
<1>2. CASE ensure_directories
  BY <1>2 DEF ensure_directories
<1>3. CASE ensure_users_json
  BY <1>3 DEF ensure_users_json
<1>4. CASE start_servers
  BY <1>4 DEF start_servers
<1>5. CASE Crash
  BY <1>5 DEF Crash
<1> QED
  BY <1>1, <1>2, <1>3, <1>4, <1>5 DEF Prepares

LEMMA CreateStep ==
  ASSUME IInv, TypeInv', NEW t \in Thread, NEW u \in User, NEW pw \in Password,
         create_user(t, u, pw)
  PROVE  IInv'
<1> USE NoThread, UserAssumption DEF IInv, TypeInv, TypeOK, At, create_user, MayCreate
<1>1. call'[t].user = u /\ call'[t].pw = pw /\ call'[t].at = "write" /\ call'[t].saved = FALSE
  BY DEF Idle, CallRecord
<1>2. \A v \in Thread \ {t} : call'[v] = call[v] /\ lock # v /\ lock' # v
  OBVIOUS
<1>3. \A v \in User : cache[v] # None => cache'[v] = cache[v]
  BY DEF File
<1>4. CacheInv'
  BY <1>3, LoadedType DEF CacheInv, File
<1>5. CallInv'
  <2>1. cache'[u] = pw
    BY DEF File
  <2>2. ASSUME NEW v \in Thread \ {t} PROVE call[v].at \in {"idle", "verify"}
    BY <1>2, <2>2 DEF CallRecord
  <2>3. ASSUME NEW v \in Thread \ {t}, call[v].at = "verify", call[v].found # None
        PROVE  cache'[call[v].user] = call[v].found
    <3>1. cache[call[v].user] = call[v].found /\ call[v].user \in User
      BY <2>3 DEF CallInv, ArgInv
    <3> QED
      BY <3>1, <2>3, <1>3
  <2> QED
    BY <1>1, <1>2, <2>1, <2>2, <2>3 DEF CallInv
<1>6. CreatedInv'
  BY DEF CreatedInv, CreatedSurvives
<1> QED
  BY <1>4, <1>5, <1>6

LEMMA SaveStep ==
  ASSUME IInv, TypeInv', NEW t \in Thread, Saves(t)
  PROVE  IInv'
<1> USE NoThread, UserAssumption DEF IInv, TypeInv, TypeOK, At, Goes
<1>1. \A v \in Thread \ {t} : call'[v] = call[v] /\ call[v].at \in {"idle", "verify"}
  BY DEF Saves, WriteTemporary, Replace, MakeMailbox, CallRecord
<1>2. CASE WriteTemporary(t)
  BY <1>1, <1>2 DEF WriteTemporary, CallInv, CacheInv, CreatedInv, CreatedSurvives, CallRecord
<1>3. CASE Replace(t)
  <2>1. tmp = cache /\ phase \in {"setup", "serve"}
    BY <1>3 DEF Replace, CallInv
  <2>2. CacheInv'
    BY <1>3, <2>1, LoadedLemma DEF Replace, CacheInv
  <2>3. CallInv'
    BY <1>1, <1>3, <2>1 DEF Replace, CallInv, CallRecord
  <2>4. CreatedSurvives'
    <3>1. ASSUME NEW u \in User, created[u] \notin {None, Blank}, db' = tmp
          PROVE  Loaded(db')[u] = created[u]
      <4>1. Loaded(db)[u] = created[u]
        BY <3>1 DEF CreatedInv, CreatedSurvives
      <4>2. cache[u] = created[u]
        BY <3>1, <4>1, <2>1 DEF CacheInv
      <4> QED
        BY <3>1, <4>2, <2>1, LoadedLemma
    <3> QED
      BY <1>3, <3>1 DEF Replace, CreatedInv, CreatedSurvives
  <2> QED
    BY <1>3, <2>1, <2>2, <2>3, <2>4 DEF Replace, CreatedInv
<1>4. CASE MakeMailbox(t)
  <2>1. CacheInv' /\ CallInv'
    BY <1>1, <1>4, IdleType DEF MakeMailbox, CacheInv, CallInv
  <2>2. call[t].user \in User /\ cache[call[t].user] = call[t].pw /\ phase \in {"setup", "serve"}
    BY <1>4 DEF MakeMailbox, CallInv, ArgInv
  <2>3. ASSUME call[t].saved, call[t].pw # Blank
        PROVE  Loaded(db)[call[t].user] = call[t].pw
    BY <2>2, <2>3, LoadedLemma DEF CallInv
  <2>4. CreatedSurvives'
    BY <1>4, <2>2, <2>3 DEF MakeMailbox, CreatedInv, CreatedSurvives, File
  <2> QED
    BY <1>4, <2>1, <2>2, <2>4 DEF MakeMailbox, CreatedInv
<1> QED
  BY <1>2, <1>3, <1>4 DEF Saves

LEMMA LoginStep ==
  ASSUME IInv, TypeInv', NEW t \in Thread,
         verify_password(t) \/ \E u \in User, pw \in Password : get_user(t, u, pw)
  PROVE  IInv'
<1> USE NoThread, IdleType DEF IInv, TypeInv, TypeOK, At
<1>1. CASE verify_password(t)
  BY <1>1 DEF verify_password, CacheInv, CallInv, CreatedInv, CreatedSurvives
<1>2. ASSUME NEW u \in User, NEW pw \in Password, get_user(t, u, pw) PROVE IInv'
  <2>1. call'[t].user = u /\ call'[t].at = "verify" /\ call'[t].saved = FALSE
        /\ call'[t].found = cache[u]
    BY <1>2 DEF get_user, Idle, CallRecord
  <2>2. \A v \in Thread \ {t} : call'[v] = call[v]
    BY <1>2 DEF get_user
  <2>3. CallInv'
    BY <1>2, <2>1, <2>2 DEF get_user, CallInv
  <2> QED
    BY <1>2, <2>3 DEF get_user, CacheInv, CreatedInv, CreatedSurvives
<1> QED
  BY <1>1, <1>2

LEMMA InvStep == Readable /\ IInv /\ [Next]_vars => IInv'
<1> SUFFICES ASSUME Readable, IInv, [Next]_vars PROVE IInv'
  OBVIOUS
<1>1. TypeInv'
  BY TypeStep DEF IInv
<1>2. CASE UNCHANGED vars
  BY <1>1, <1>2 DEF vars, IInv, CacheInv, CallInv, CreatedInv, CreatedSurvives, At
<1>3. CASE Next
  BY <1>1, <1>3, ProcessStep, CreateStep, SaveStep, LoginStep DEF Next
<1> QED
  BY <1>2, <1>3

LEMMA InvCorrect == Readable => (Spec => []IInv)
<1> SUFFICES ASSUME Readable PROVE Spec => []IInv
  OBVIOUS
<1> QED
  BY InvInit, InvStep, PTL DEF Spec

\* An account whose creation was saved, and that has its mailbox, is there after any crash
\* and any failed save: every save writes all that the file held, because the cache never
\* has less.
THEOREM CreatedIsKept == Readable => (Spec => []CreatedSurvives)
<1> SUFFICES ASSUME Readable PROVE Spec => []CreatedSurvives
  OBVIOUS
<1>1. IInv => CreatedSurvives
  BY DEF IInv, CreatedInv
<1> QED
  BY <1>1, InvCorrect, PTL

\* authenticate() compares behind the lock with a user it found before: what it accepts is
\* the password of the account by then.
THEOREM LoginsAreCurrent == Readable => (Spec => []LoginIsCurrent)
<1> SUFFICES ASSUME Readable PROVE Spec => []LoginIsCurrent
  OBVIOUS
<1>1. ASSUME IInv, NEW t \in Thread, Accepts(t)
      PROVE  /\ cache[call[t].user] = call[t].pw
             /\ Loaded(db)[call[t].user] \in {None, call[t].pw}
  <2>1. /\ call[t].user \in User /\ call[t].pw \in Password /\ phase # "down"
        /\ call[t].found = call[t].pw /\ call[t].at = "verify"
    BY <1>1 DEF IInv, TypeInv, ArgInv, CallInv, Accepts, At
  <2>2. cache[call[t].user] = call[t].pw
    BY <1>1, <2>1, UserAssumption DEF IInv, CallInv
  <2> QED
    BY <1>1, <2>1, <2>2 DEF IInv, CacheInv
<1>2. IInv => LoginIsCurrent
  BY <1>1 DEF LoginIsCurrent
<1> QED
  BY <1>2, InvCorrect, PTL

-----------------------------------------------------------------------------
(* Refinement                                                              *)

LEMMA AccountsInit == Init => AccountsSpec!Init
BY LoadedType DEF Init, AccountsSpec!Init, File

LEMMA AccountsStep == Readable /\ IInv /\ [Next]_vars => [AccountsSpec!Next]_(AccountsSpec!vars)
<1> SUFFICES ASSUME Readable, IInv, [Next]_vars
             PROVE  [AccountsSpec!Next]_(AccountsSpec!vars)
  OBVIOUS
<1>1. Loaded(db') \in File
  BY TypeStep, LoadedType DEF IInv, TypeInv, TypeOK
<1>2. CASE db' = db
  <2>1. (phase' = "truncate") \in BOOLEAN
    OBVIOUS
  <2>2. Loaded(db)' = Loaded(db)
    BY <1>2
  <2> QED
    BY <2>1, <2>2, Zenon DEF AccountsSpec!Next, AccountsSpec!Prepare
<1>3. CASE ensure_users_json
  <2>1. CASE phase = "truncate"
    <3>1. phase' = "empty" /\ Loaded(db') = [u \in User |-> None]
      BY <1>3, <2>1, LoadedLemma DEF ensure_users_json, Nobody
    <3>2. (phase' = "truncate") = FALSE
      BY <3>1
    <3> QED
      BY <2>1, <3>1, <3>2, Zenon DEF AccountsSpec!Next, AccountsSpec!Reset
  <2>2. CASE phase # "truncate"
    <3>1. Loaded(db)' = Loaded(db) /\ phase = "empty" /\ phase' = "setup"
      <4>1. phase = "empty" /\ phase' = "setup" /\ db' = Nobody
        BY <1>3, <2>2 DEF ensure_users_json
      <4>2. db = Cut
        BY <4>1 DEF IInv, CreatedInv
      <4> QED
        BY <4>1, <4>2, LoadedLemma
    <3>2. ((phase' = "truncate") = FALSE) /\ ((phase = "truncate") = FALSE)
      BY <3>1
    <3> QED
      BY <3>1, <3>2, Zenon DEF AccountsSpec!vars
  <2> QED
    BY <2>1, <2>2
<1>4. ASSUME NEW t \in Thread, Replace(t), db' # db
      PROVE  AccountsSpec!Save
  <2>1. db' = cache /\ phase' = phase /\ phase # "down"
    BY <1>4 DEF Replace, IInv, CallInv, At
  <2>2. ASSUME NEW u \in User, Loaded(db)[u] # None PROVE Loaded(db')[u] = Loaded(db)[u]
    <3>1. cache[u] = Loaded(db)[u]
      BY <2>1, <2>2 DEF IInv, CacheInv
    <3>2. db \in File /\ cache \in File /\ Loaded(db)[u] # Blank
      BY <2>2, LoadedLemma, NobodyType DEF IInv, TypeInv, TypeOK, Loaded
    <3> QED
      BY <2>1, <3>1, <3>2, LoadedLemma
  <2> QED
    BY <1>1, <2>1, <2>2 DEF AccountsSpec!Save, File
<1>5. db' = db \/ ensure_users_json \/ \E t \in Thread : Replace(t)
  BY DEF Next, Prepares, Saves, vars, _load_users, ensure_directories, start_servers, Crash,
         create_user, WriteTemporary, MakeMailbox, get_user, verify_password
<1> QED
  BY <1>2, <1>3, <1>4, <1>5 DEF AccountsSpec!Next

\* users.json implements module Accounts: every step but the emptying of the file by the
\* simulation leaves each account that it holds with its password.
THEOREM FileImplementsAccounts == Readable => (Spec => Durable)
<1> SUFFICES ASSUME Readable PROVE Spec => Durable
  OBVIOUS
<1> QED
  BY InvCorrect, AccountsInit, AccountsStep, PTL DEF Spec, Durable, AccountsSpec!Spec
=============================================================================
