---------------------------- MODULE MailboxStore ----------------------------
(***************************************************************************)
(* src/mailbox: the StorageManager with its registry of per-user locks, the *)
(* MailboxWriter and the MailboxReader, over the files they keep on disk.   *)
(*                                                                         *)
(* Workers are the threads of the SMTP and POP3 servers.  Every file-system *)
(* call is a step of its own, so two workers interleave between any two of  *)
(* them unless a lock keeps them apart; the process may crash between any   *)
(* two, and any of them may fail where the code handles the failure.        *)
(***************************************************************************)
EXTENDS Naturals, FiniteSets

CONSTANTS
  User, Msg,
  Worker,
  Boot,         \* the creator of the locks that exist at the start
  NoLock, NoWorker, NoFile,
  Warm,         \* the users whose lock exists at the start: those used before
  Faults,       \* the calls that may fail: "stage", "move", "load", "save", "read"
  MaxCalls,     \* bound: calls each worker makes
  MaxCrashes    \* bound: crashes of the process

ASSUME SentinelAssumption ==
  /\ Boot \notin Worker /\ NoWorker \notin Worker
  /\ NoLock \notin Worker \union {Boot}
ASSUME SetAssumption == User # {} /\ Msg # {}
ASSUME MailboxBoundAssumption ==
  /\ Warm \subseteq User
  /\ Faults \subseteq {"stage", "move", "load", "save", "read"}
  /\ MaxCalls \in Nat /\ MaxCrashes \in Nat

\* A lock is named by the worker that created it; no worker creates two locks for
\* one user in the life of a process.
Lock == Worker \union {Boot}

\* metadata.json: the messages it has an entry for, and those flagged deleted.
Metadata == [messages : SUBSET Msg, deleted : SUBSET Msg]
NoMetadata == [messages |-> {}, deleted |-> {}]

ASSUME NoFileAssumption == NoFile \notin Metadata

VARIABLES
  \* In memory: StorageManager.locks and who holds each lock object.
  locks, holder,
  \* On disk, for each user: message files, temp files, metadata.json, its .tmp.
  files, temp_files, metadata, metadata_tmp,
  \* The locals of each worker: the call it is in, the lock it was given, the
  \* metadata it loaded, and whether the call succeeds.
  pc, job, my_lock, loaded, ok,
  \* The file names given out, and the bounds' counters.
  used, calls, crashes,
  \* History: what was reported to callers, and which deletions were asked for.
  saved, removed, dele_called

memoryVars == <<locks, holder>>
diskVars == <<files, temp_files, metadata, metadata_tmp>>
workerVars == <<pc, job, my_lock, loaded, ok>>
boundVars == <<used, calls, crashes>>
historyVars == <<saved, removed, dele_called>>
vars == <<memoryVars, diskVars, workerVars, boundVars, historyVars>>

InitialLocks == [u \in User |-> IF u \in Warm THEN Boot ELSE NoLock]
AllFree == [u \in User |-> [l \in Lock |-> NoWorker]]
NoJob == [op |-> "none", user |-> CHOOSE u \in User : TRUE, msg |-> CHOOSE m \in Msg : TRUE]

Init ==
  /\ locks = InitialLocks
  /\ holder = AllFree
  /\ files = [u \in User |-> {}]
  /\ temp_files = [u \in User |-> {}]
  /\ metadata = [u \in User |-> NoFile]
  /\ metadata_tmp = [u \in User |-> NoFile]
  /\ pc = [w \in Worker |-> "idle"]
  /\ job = [w \in Worker |-> NoJob]
  /\ my_lock = [w \in Worker |-> NoLock]
  /\ loaded = [w \in Worker |-> NoMetadata]
  /\ ok = [w \in Worker |-> FALSE]
  /\ used = {}
  /\ calls = [w \in Worker |-> 0]
  /\ crashes = 0
  /\ saved = [u \in User |-> {}]
  /\ removed = [u \in User |-> {}]
  /\ dele_called = [u \in User |-> {}]

Goto(w, l) == pc' = [pc EXCEPT ![w] = l]

-----------------------------------------------------------------------------
(* StorageManager                                                          *)

\* A save gets a file name nobody had.
save_email(w, u, m) ==
  /\ m \notin used
  /\ used' = used \union {m}
  /\ job' = [job EXCEPT ![w] = [op |-> "save", user |-> u, msg |-> m]]
  /\ UNCHANGED dele_called

\* A deletion names a message that an earlier listing may have shown.
delete_email(w, u, m) ==
  /\ m \in used
  /\ job' = [job EXCEPT ![w] = [op |-> "delete", user |-> u, msg |-> m]]
  /\ dele_called' = [dele_called EXCEPT ![u] = @ \union {m}]
  /\ UNCHANGED used

\* list_messages, get_message_content and get_message_uid.
read_mailbox(w, u, m) ==
  /\ job' = [job EXCEPT ![w] = [op |-> "read", user |-> u, msg |-> m]]
  /\ UNCHANGED <<used, dele_called>>

Call(w) ==
  /\ pc[w] = "idle"
  /\ calls[w] < MaxCalls
  /\ calls' = [calls EXCEPT ![w] = @ + 1]
  /\ \E u \in User, m \in Msg :
       save_email(w, u, m) \/ delete_email(w, u, m) \/ read_mailbox(w, u, m)
  /\ Goto(w, "check")
  /\ UNCHANGED <<memoryVars, diskVars, my_lock, loaded, ok, crashes, saved, removed>>

\* Mutant: a lock is created for every call.
CheckLock_alwaysCreates(w) ==
  /\ pc[w] = "check"
  /\ Goto(w, "create")
  /\ UNCHANGED <<memoryVars, diskVars, job, my_lock, loaded, ok, boundVars, historyVars>>

\* get_lock tests, creates and fetches with nothing to keep two workers apart.
CheckLock(w) ==
  /\ pc[w] = "check"
  /\ Goto(w, IF locks[job[w].user] = NoLock THEN "create" ELSE "fetch")
  /\ UNCHANGED <<memoryVars, diskVars, job, my_lock, loaded, ok, boundVars, historyVars>>

CreateLock(w) ==
  /\ pc[w] = "create"
  /\ locks' = [locks EXCEPT ![job[w].user] = w]
  /\ Goto(w, "fetch")
  /\ UNCHANGED <<holder, diskVars, job, my_lock, loaded, ok, boundVars, historyVars>>

FetchLock(w) ==
  /\ pc[w] = "fetch"
  /\ my_lock' = [my_lock EXCEPT ![w] = locks[job[w].user]]
  /\ Goto(w, "acquire")
  /\ UNCHANGED <<memoryVars, diskVars, job, loaded, ok, boundVars, historyVars>>

FirstStep == [save |-> "stage", delete |-> "load", read |-> "read"]

\* The locals of a call that is over.
Forget(ws) ==
  /\ job' = [w \in Worker |-> IF w \in ws THEN NoJob ELSE job[w]]
  /\ my_lock' = [w \in Worker |-> IF w \in ws THEN NoLock ELSE my_lock[w]]
  /\ loaded' = [w \in Worker |-> IF w \in ws THEN NoMetadata ELSE loaded[w]]
  /\ ok' = [w \in Worker |-> ok[w] /\ w \notin ws]

\* Mutant: the lock is taken without waiting for its holder.
Acquire_noWait(w) == LET u == job[w].user IN
  /\ pc[w] = "acquire"
  /\ holder' = [holder EXCEPT ![u][my_lock[w]] = w]
  /\ Goto(w, FirstStep[job[w].op])
  /\ UNCHANGED <<locks, diskVars, job, my_lock, loaded, ok, boundVars, historyVars>>

\* "with lock:" is entered.
Acquire(w) == LET u == job[w].user IN
  /\ pc[w] = "acquire"
  /\ holder[u][my_lock[w]] = NoWorker
  /\ holder' = [holder EXCEPT ![u][my_lock[w]] = w]
  /\ Goto(w, FirstStep[job[w].op])
  /\ UNCHANGED <<locks, diskVars, job, my_lock, loaded, ok, boundVars, historyVars>>

\* The block is left, whatever happened in it, and the result returned.
Release(w) == LET j == job[w] IN
  /\ pc[w] = "release"
  /\ holder' = [holder EXCEPT ![j.user][my_lock[w]] = NoWorker]
  /\ saved' = IF ok[w] /\ j.op = "save" THEN [saved EXCEPT ![j.user] = @ \union {j.msg}] ELSE saved
  /\ removed' = IF ok[w] /\ j.op = "delete" THEN [removed EXCEPT ![j.user] = @ \union {j.msg}]
                                            ELSE removed
  /\ Goto(w, "idle")
  /\ Forget({w})
  /\ UNCHANGED <<locks, diskVars, boundVars, dele_called>>

-----------------------------------------------------------------------------
(* MailboxWriter and MailboxReader                                         *)

\* Mutant: a failed write is reported as a success.
StageMessage_failureReported(w) == LET u == job[w].user  m == job[w].msg IN
  /\ pc[w] = "stage"
  /\ \/ /\ temp_files' = [temp_files EXCEPT ![u] = @ \union {m}]
        /\ Goto(w, "move")
        /\ UNCHANGED ok
     \/ /\ "stage" \in Faults
        /\ ok' = [ok EXCEPT ![w] = TRUE]
        /\ Goto(w, "release")
        /\ UNCHANGED temp_files
  /\ UNCHANGED <<memoryVars, files, metadata, metadata_tmp, job, my_lock, loaded, boundVars,
                 historyVars>>

\* Mutant: the early return of a failed write leaves the lock held.
StageMessage_lockKept(w) == LET u == job[w].user  m == job[w].msg IN
  /\ pc[w] = "stage"
  /\ \/ /\ temp_files' = [temp_files EXCEPT ![u] = @ \union {m}]
        /\ Goto(w, "move")
        /\ UNCHANGED <<job, my_lock, loaded, ok>>
     \/ /\ "stage" \in Faults
        /\ Goto(w, "idle")
        /\ Forget({w})
        /\ UNCHANGED temp_files
  /\ UNCHANGED <<memoryVars, files, metadata, metadata_tmp, boundVars, historyVars>>

\* The message is written to a temp file; a write that fails may leave one behind.
StageMessage(w) == LET u == job[w].user  m == job[w].msg IN
  /\ pc[w] = "stage"
  /\ \/ /\ temp_files' = [temp_files EXCEPT ![u] = @ \union {m}]
        /\ Goto(w, "move")
     \/ /\ "stage" \in Faults
        /\ temp_files' \in {temp_files, [temp_files EXCEPT ![u] = @ \union {m}]}
        /\ Goto(w, "release")
  /\ UNCHANGED <<memoryVars, files, metadata, metadata_tmp, job, my_lock, loaded, ok, boundVars,
                 historyVars>>

\* Mutant: a failed move is logged and the metadata updated all the same.
MoveMessage_failureIgnored(w) == LET u == job[w].user  m == job[w].msg IN
  /\ pc[w] = "move"
  /\ \/ /\ files' = [files EXCEPT ![u] = @ \union {m}]
        /\ temp_files' = [temp_files EXCEPT ![u] = @ \ {m}]
     \/ "move" \in Faults /\ UNCHANGED <<files, temp_files>>
  /\ Goto(w, "load")
  /\ UNCHANGED <<memoryVars, metadata, metadata_tmp, job, my_lock, loaded, ok, boundVars,
                 historyVars>>

\* os.replace(temp_path, final_path).
MoveMessage(w) == LET u == job[w].user  m == job[w].msg IN
  /\ pc[w] = "move"
  /\ \/ /\ files' = [files EXCEPT ![u] = @ \union {m}]
        /\ temp_files' = [temp_files EXCEPT ![u] = @ \ {m}]
        /\ Goto(w, "load")
     \/ /\ "move" \in Faults
        /\ UNCHANGED <<files, temp_files>>
        /\ Goto(w, "release")
  /\ UNCHANGED <<memoryVars, metadata, metadata_tmp, job, my_lock, loaded, ok, boundVars,
                 historyVars>>

\* What _load_metadata returns: a missing file is an empty mailbox.
OnDisk(u) == IF metadata[u] = NoFile THEN NoMetadata ELSE metadata[u]

\* ...and so is one that cannot be read or parsed.
_load_metadata(u, x) == x = OnDisk(u) \/ ("load" \in Faults /\ x = NoMetadata)

\* Mutant: a save rewrites the entries without their deleted flags.
LoadMetadata_flagsLost(w) == LET u == job[w].user  m == job[w].msg IN
  /\ pc[w] = "load"
  /\ \E x \in {OnDisk(u), NoMetadata} :
       /\ _load_metadata(u, x)
       /\ \/ /\ job[w].op = "save"
             /\ loaded' = [loaded EXCEPT ![w] = [messages |-> x.messages \union {m},
                                                 deleted |-> {}]]
             /\ Goto(w, "write_tmp")
          \/ /\ job[w].op = "delete"
             /\ m \in x.messages
             /\ loaded' = [loaded EXCEPT ![w] = [x EXCEPT !.deleted = @ \union {m}]]
             /\ Goto(w, "write_tmp")
          \/ /\ job[w].op = "delete"
             /\ m \notin x.messages
             /\ Goto(w, "release")
             /\ UNCHANGED loaded
  /\ UNCHANGED <<memoryVars, diskVars, job, my_lock, ok, boundVars, historyVars>>

\* write_email adds its entry to the copy it loaded; mark_message_as_deleted flags
\* an entry, and returns False when there is none.
LoadMetadata(w) == LET u == job[w].user  m == job[w].msg IN
  /\ pc[w] = "load"
  /\ \E x \in {OnDisk(u), NoMetadata} :
       /\ _load_metadata(u, x)
       /\ \/ /\ job[w].op = "save"
             /\ loaded' = [loaded EXCEPT ![w] = [x EXCEPT !.messages = @ \union {m}]]
             /\ Goto(w, "write_tmp")
          \/ /\ job[w].op = "delete"
             /\ m \in x.messages
             /\ loaded' = [loaded EXCEPT ![w] = [x EXCEPT !.deleted = @ \union {m}]]
             /\ Goto(w, "write_tmp")
          \/ /\ job[w].op = "delete"
             /\ m \notin x.messages
             /\ Goto(w, "release")
             /\ UNCHANGED loaded
  /\ UNCHANGED <<memoryVars, diskVars, job, my_lock, ok, boundVars, historyVars>>

\* _save_metadata swallows every error, and its callers report success.
SaveFails(w) ==
  /\ "save" \in Faults
  /\ pc[w] \in {"write_tmp", "replace"}
  /\ ok' = [ok EXCEPT ![w] = TRUE]
  /\ Goto(w, "release")
  /\ UNCHANGED <<memoryVars, diskVars, job, my_lock, loaded, boundVars, historyVars>>

WriteTmp(w) ==
  /\ pc[w] = "write_tmp"
  /\ metadata_tmp' = [metadata_tmp EXCEPT ![job[w].user] = loaded[w]]
  /\ Goto(w, "replace")
  /\ UNCHANGED <<memoryVars, files, temp_files, metadata, job, my_lock, loaded, ok, boundVars,
                 historyVars>>

\* os.replace(metadata.json.tmp, metadata.json); a .tmp that another worker took
\* away meanwhile is one more swallowed error.
ReplaceMetadata(w) == LET u == job[w].user IN
  /\ pc[w] = "replace"
  /\ metadata' = IF metadata_tmp[u] = NoFile THEN metadata
                 ELSE [metadata EXCEPT ![u] = metadata_tmp[u]]
  /\ metadata_tmp' = [metadata_tmp EXCEPT ![u] = NoFile]
  /\ ok' = [ok EXCEPT ![w] = TRUE]
  /\ Goto(w, "release")
  /\ UNCHANGED <<memoryVars, files, temp_files, job, my_lock, loaded, boundVars, historyVars>>

\* Mutant: a mailbox with no metadata.json has no default.
ReadMailbox_noDefault(w) == LET u == job[w].user IN
  /\ pc[w] = "read"
  /\ loaded' = [loaded EXCEPT ![w] = metadata[u]]
  /\ ok' = [ok EXCEPT ![w] = TRUE]
  /\ Goto(w, "release")
  /\ UNCHANGED <<memoryVars, diskVars, job, my_lock, boundVars, historyVars>>

\* The reader's three operations take what the disk holds and change nothing.
ReadMailbox(w) == LET u == job[w].user IN
  /\ pc[w] = "read"
  /\ \/ loaded' = [loaded EXCEPT ![w] = OnDisk(u)]
     \/ "read" \in Faults /\ loaded' = [loaded EXCEPT ![w] = NoMetadata]
  /\ ok' = [ok EXCEPT ![w] = TRUE]
  /\ Goto(w, "release")
  /\ UNCHANGED <<memoryVars, diskVars, job, my_lock, boundVars, historyVars>>

\* The process dies and is started again: the disk is all that is left.  As at the
\* start, the locks of the warm users are the first thing that is created again.
Crash ==
  /\ crashes < MaxCrashes
  /\ crashes' = crashes + 1
  /\ locks' = InitialLocks
  /\ holder' = AllFree
  /\ pc' = [w \in Worker |-> "idle"]
  /\ Forget(Worker)
  /\ UNCHANGED <<diskVars, used, calls, historyVars>>

-----------------------------------------------------------------------------
WorkerStep(w) ==
  \/ CheckLock(w) \/ CreateLock(w) \/ FetchLock(w) \/ Acquire(w) \/ Release(w)
  \/ StageMessage(w) \/ MoveMessage(w) \/ LoadMetadata(w) \/ WriteTmp(w) \/ SaveFails(w)
  \/ ReplaceMetadata(w) \/ ReadMailbox(w)

Next == Crash \/ \E w \in Worker : Call(w) \/ WorkerStep(w)

Spec == Init /\ [][Next]_vars

\* A thread that is not waiting for a lock runs on, and one that waits gets the lock
\* when it stays free.
FairSpec == Spec /\ \A w \in Worker : WF_vars(WorkerStep(w))

-----------------------------------------------------------------------------
(* Properties                                                              *)

PcState == {"idle", "check", "create", "fetch", "acquire", "release", "stage", "move", "load",
            "write_tmp", "replace", "read"}
Critical == {"release", "stage", "move", "load", "write_tmp", "replace", "read"}
Job == [op : {"none", "save", "delete", "read"}, user : User, msg : Msg]

\* Every variable holds a value of its kind.
TypeOK ==
  /\ locks \in [User -> Lock \union {NoLock}]
  /\ holder \in [User -> [Lock -> Worker \union {NoWorker}]]
  /\ files \in [User -> SUBSET Msg]
  /\ temp_files \in [User -> SUBSET Msg]
  /\ metadata \in [User -> Metadata \union {NoFile}]
  /\ metadata_tmp \in [User -> Metadata \union {NoFile}]
  /\ pc \in [Worker -> PcState]
  /\ job \in [Worker -> Job]
  /\ my_lock \in [Worker -> Lock \union {NoLock}]
  /\ loaded \in [Worker -> Metadata]
  /\ ok \in [Worker -> BOOLEAN]
  /\ used \subseteq Msg
  /\ calls \in [Worker -> 0..MaxCalls]
  /\ crashes \in 0..MaxCrashes
  /\ saved \in [User -> SUBSET Msg]
  /\ removed \in [User -> SUBSET Msg]
  /\ dele_called \in [User -> SUBSET Msg]

\* What a listing shows: the entries that are not flagged.
Visible(u) == OnDisk(u).messages \ OnDisk(u).deleted

\* The per-user lock keeps mailbox operations of one user apart (storage_manager
\* 29-33): no two workers are inside the locked block of the same user.
MutualExclusion ==
  \A v, w \in Worker :
    v # w /\ pc[v] \in Critical /\ pc[w] \in Critical => job[v].user # job[w].user

\* A message whose save was reported stays listed until its deletion is asked for,
\* through every interleaving and crash: no writer puts back metadata it loaded
\* before another one's update.
SavedIsListed ==
  \A u \in User : saved[u] \subseteq Visible(u) \union dele_called[u]

\* Every entry of metadata.json, and every listing handed out, names a message file
\* that is there: a crash can lose an entry for a file, never a file for an entry.
EntriesHaveFiles ==
  /\ \A u \in User : OnDisk(u).messages \subseteq files[u]
  /\ \A w \in Worker : job[w].op = "read" /\ pc[w] = "release" =>
       loaded[w].messages \subseteq files[job[w].user]

\* A deletion that was reported is never undone.
RemovedStaysHidden == \A u \in User : removed[u] \intersect Visible(u) = {}

\* No call blocks for good: the lock is released on every path (with lock, 124-147).
CallsReturn == \A w \in Worker : (pc[w] # "idle") ~> (pc[w] = "idle")

\* What a caller can see of the disk: the messages listed, and those that were.
Listed == [u \in User |-> Visible(u)]
Past == [u \in User |-> OnDisk(u).messages \intersect OnDisk(u).deleted]
Box == INSTANCE Mailbox WITH box <- Listed, past <- Past

\* The store is a mailbox: every step of it deposits or discards one message,
\* reports one result, or changes nothing a caller can see.
BoxSpec == Box!Spec
=============================================================================
