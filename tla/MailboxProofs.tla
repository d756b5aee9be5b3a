--------------------------- MODULE MailboxProofs ---------------------------
(***************************************************************************)
(* Theorems about module MailboxStore.  Type correctness and                *)
(* EntriesHaveFiles hold whatever fails and however many locks there are;   *)
(* MutualExclusion needs the users' locks to exist before they are raced    *)
(* for; the promises of module Mailbox also need metadata.json to be        *)
(* readable and writable.                                                   *)
(***************************************************************************)
EXTENDS MailboxStore, TLAPS

\* A worker inside a call knows its operation, and the steps fit the operation.
OpInv == \A w \in Worker : LET op == job[w].op IN
  /\ pc[w] # "idle" => op # "none"
  /\ pc[w] \in {"stage", "move"} => op = "save"
  /\ pc[w] \in {"load", "write_tmp", "replace"} => op \in {"save", "delete"}
  /\ pc[w] = "read" => op = "read"

TypeInv == TypeOK /\ OpInv

\* What EntriesHaveFiles needs of the copies of the metadata that are on their way.
MessagesOf(x) == IF x = NoFile THEN {} ELSE x.messages

FilesInv ==
  /\ \A u \in User : /\ MessagesOf(metadata[u]) \subseteq files[u]
                     /\ MessagesOf(metadata_tmp[u]) \subseteq files[u]
  /\ \A w \in Worker :
       /\ pc[w] = "load" /\ job[w].op = "save" => job[w].msg \in files[job[w].user]
       /\ pc[w] \in {"write_tmp", "replace"} => loaded[w].messages \subseteq files[job[w].user]
       /\ pc[w] = "release" /\ job[w].op = "read" =>
            loaded[w].messages \subseteq files[job[w].user]

\* Every user's lock exists from the start.
WarmStore == Warm = User

\* There is one lock for each user, and a worker in its locked block holds it.
LockInv ==
  /\ \A u \in User : locks[u] = Boot
  /\ \A w \in Worker :
       /\ pc[w] # "create"
       /\ pc[w] \in {"acquire"} \union Critical => my_lock[w] = Boot
       /\ pc[w] \in Critical => holder[job[w].user][Boot] = w

\* metadata.json can be read and written.
SoundDisk == "load" \notin Faults /\ "save" \notin Faults

\* The metadata x after job j.
Updated(x, j) == IF j.op = "save" THEN [x EXCEPT !.messages = @ \union {j.msg}]
                                  ELSE [x EXCEPT !.deleted = @ \union {j.msg}]

\* What metadata.json holds for each user.
Disk == [u \in User |-> OnDisk(u)]

\* What was reported is on the disk.
ReportedInv == \A u \in User :
  /\ Disk[u].messages \subseteq used
  /\ Disk[u].deleted \subseteq Disk[u].messages
  /\ Disk[u].deleted \subseteq dele_called[u]
  /\ saved[u] \subseteq Disk[u].messages
  /\ removed[u] \subseteq Disk[u].deleted

\* Between its load and its replacement of metadata.json a worker's copy differs from
\* the disk by its own update only, and it succeeds once that update is there.
CopyInv(w) == LET j == job[w] IN
  /\ j.op = "save" => j.msg \in used
  /\ j.op = "save" /\ pc[w] # "release" => \A u \in User : j.msg \notin Disk[u].messages
  /\ j.op = "delete" => j.msg \in dele_called[j.user]
  /\ pc[w] \in {"write_tmp", "replace"} => loaded[w] = Updated(Disk[j.user], j)
  /\ pc[w] \in {"write_tmp", "replace"} /\ j.op = "delete" => j.msg \in Disk[j.user].messages
  /\ pc[w] = "replace" => metadata_tmp[j.user] = loaded[w]
  /\ ok[w] => pc[w] = "release"
  /\ ok[w] /\ j.op = "save" => j.msg \in Disk[j.user].messages
  /\ ok[w] /\ j.op = "delete" => j.msg \in Disk[j.user].deleted

\* No two workers save under one file name.
OwnNames == \A v, w \in Worker :
  v # w /\ job[v].op = "save" /\ job[w].op = "save" => job[v].msg # job[w].msg

StoreInv == ReportedInv /\ (\A w \in Worker : CopyInv(w)) /\ OwnNames

-----------------------------------------------------------------------------
(* Type correctness                                                        *)

LEMMA NoJobType == NoJob \in Job
BY SetAssumption DEF NoJob, Job

LEMMA LoadType ==
  ASSUME TypeOK, NEW u \in User, NEW x, _load_metadata(u, x)
  PROVE  x \in Metadata
BY DEF TypeOK, _load_metadata, OnDisk, NoMetadata, Metadata

LEMMA UserSets ==
  ASSUME NEW f \in [User -> SUBSET Msg], NEW u \in User, NEW m \in Msg
  PROVE  /\ [f EXCEPT ![u] = @ \union {m}] \in [User -> SUBSET Msg]
         /\ [f EXCEPT ![u] = @ \ {m}] \in [User -> SUBSET Msg]
<1>1. f[u] \union {m} \in SUBSET Msg /\ f[u] \ {m} \in SUBSET Msg
  OBVIOUS
<1> QED
  BY <1>1

LEMMA TypeInit == Init => TypeInv
BY NoJobType, MailboxBoundAssumption
   DEF Init, TypeInv, TypeOK, OpInv, InitialLocks, AllFree, Lock, PcState, NoMetadata, Metadata

LEMMA TypeStep == TypeInv /\ [Next]_vars => TypeInv'
<1> SUFFICES ASSUME TypeInv, [Next]_vars PROVE TypeInv'
  OBVIOUS
<1> USE DEF TypeInv, Goto, memoryVars, diskVars, workerVars, boundVars, historyVars
<1>1. ASSUME NEW w \in Worker, Call(w) PROVE TypeInv'
  <2>1. PICK u \in User, m \in Msg :
          save_email(w, u, m) \/ delete_email(w, u, m) \/ read_mailbox(w, u, m)
    BY <1>1 DEF Call
  <2>2. PICK op \in {"save", "delete", "read"} :
          job' = [job EXCEPT ![w] = [op |-> op, user |-> u, msg |-> m]]
    BY <2>1 DEF save_email, delete_email, read_mailbox
  <2>3. job' \in [Worker -> Job] /\ job'[w].op = op /\ \A v \in Worker \ {w} : job'[v] = job[v]
    BY <2>2 DEF TypeOK, Job
  <2>4. used' \subseteq Msg /\ dele_called' \in [User -> SUBSET Msg]
    BY <2>1 DEF TypeOK, save_email, delete_email, read_mailbox
  <2>5. calls' \in [Worker -> 0..MaxCalls]
    <3>1. calls[w] + 1 \in 0..MaxCalls
      BY <1>1, MailboxBoundAssumption DEF Call, TypeOK
    <3> QED
      BY <1>1, <3>1 DEF Call, TypeOK
  <2>6. OpInv'
    BY <1>1, <2>3 DEF Call, OpInv, TypeOK
  <2> QED
    BY <1>1, <2>3, <2>4, <2>5, <2>6 DEF Call, TypeOK, PcState
<1>2. ASSUME NEW w \in Worker, CheckLock(w) \/ CreateLock(w) \/ FetchLock(w) PROVE TypeInv'
  <2>1. job[w].user \in User
    BY DEF TypeOK, Job
  <2>2. CASE CheckLock(w)
    BY <2>2 DEF CheckLock, TypeOK, OpInv, PcState
  <2>3. CASE CreateLock(w)
    BY <2>1, <2>3 DEF CreateLock, TypeOK, OpInv, PcState, Lock
  <2>4. CASE FetchLock(w)
    BY <2>1, <2>4 DEF FetchLock, TypeOK, OpInv, PcState
  <2> QED
    BY <1>2, <2>2, <2>3, <2>4
<1>3. ASSUME NEW w \in Worker, Acquire(w) PROVE TypeInv'
  <2>1. job[w].op \in {"save", "delete", "read"}
    BY <1>3 DEF Acquire, OpInv, TypeOK, Job
  <2>2. pc'[w] = FirstStep[job[w].op] /\ \A v \in Worker \ {w} : pc'[v] = pc[v]
    BY <1>3 DEF Acquire, TypeOK
  <2>3. /\ job[w].op = "save" => pc'[w] = "stage"
        /\ job[w].op = "delete" => pc'[w] = "load"
        /\ job[w].op = "read" => pc'[w] = "read"
    BY <2>2 DEF FirstStep
  <2>4. OpInv'
    BY <1>3, <2>1, <2>2, <2>3 DEF Acquire, OpInv
  <2>5. pc' \in [Worker -> PcState]
    BY <1>3, <2>1, <2>2, <2>3 DEF Acquire, TypeOK, PcState
  <2>6. holder' \in [User -> [Lock -> Worker \union {NoWorker}]]
    BY <1>3 DEF Acquire, TypeOK, Job
  <2> QED
    BY <1>3, <2>4, <2>5, <2>6 DEF Acquire, TypeOK
<1>4. ASSUME NEW w \in Worker, Release(w) PROVE TypeInv'
  <2>1. job[w] \in Job
    BY DEF TypeOK
  <2>2. /\ job' \in [Worker -> Job] /\ my_lock' \in [Worker -> Lock \union {NoLock}]
        /\ loaded' \in [Worker -> Metadata] /\ ok' \in [Worker -> BOOLEAN]
        /\ \A v \in Worker \ {w} : job'[v] = job[v]
    BY <1>4, NoJobType DEF Release, Forget, TypeOK, NoMetadata, Metadata
  <2>3. OpInv'
    BY <1>4, <2>2 DEF Release, OpInv, TypeOK
  <2>4. holder' \in [User -> [Lock -> Worker \union {NoWorker}]]
    BY <1>4, <2>1 DEF Release, TypeOK, Job
  <2>5. saved' \in [User -> SUBSET Msg] /\ removed' \in [User -> SUBSET Msg]
    BY <1>4, <2>1 DEF Release, TypeOK, Job
  <2> QED
    BY <1>4, <2>2, <2>3, <2>4, <2>5 DEF Release, TypeOK, PcState
<1>5. ASSUME NEW w \in Worker, StageMessage(w) \/ MoveMessage(w) PROVE TypeInv'
  <2>1. job[w].user \in User /\ job[w].msg \in Msg
    BY DEF TypeOK, Job
  <2>2. CASE StageMessage(w)
    <3>1. temp_files' \in [User -> SUBSET Msg]
      BY <2>1, <2>2 DEF StageMessage, TypeOK
    <3>2. pc' \in [Worker -> PcState] /\ OpInv'
      BY <2>2 DEF StageMessage, TypeOK, OpInv, PcState
    <3> QED
      BY <2>2, <3>1, <3>2 DEF StageMessage, TypeOK
  <2>3. CASE MoveMessage(w)
    <3>0. files \in [User -> SUBSET Msg] /\ temp_files \in [User -> SUBSET Msg]
      BY DEF TypeOK
    <3>1. files' \in [User -> SUBSET Msg] /\ temp_files' \in [User -> SUBSET Msg]
      BY <2>1, <2>3, <3>0, UserSets DEF MoveMessage
    <3>2. pc' \in [Worker -> PcState]
      BY <2>3 DEF MoveMessage, TypeOK, PcState
    <3>3. job[w].op = "save" /\ job' = job
      BY <2>3 DEF MoveMessage, OpInv
    <3>4. \E l \in {"load", "release"} : pc' = [pc EXCEPT ![w] = l]
      BY <2>3 DEF MoveMessage
    <3>5. OpInv'
      BY <3>3, <3>4 DEF OpInv, TypeOK
    <3> QED
      BY <2>3, <3>1, <3>2, <3>5 DEF MoveMessage, TypeOK
  <2> QED
    BY <1>5, <2>2, <2>3
<1>6. ASSUME NEW w \in Worker, LoadMetadata(w) PROVE TypeInv'
  <2>1. job[w] \in Job
    BY DEF TypeOK
  <2>2. PICK x \in {OnDisk(job[w].user), NoMetadata} :
          /\ _load_metadata(job[w].user, x)
          /\ \/ /\ job[w].op = "save"
                /\ loaded' = [loaded EXCEPT ![w] = [x EXCEPT !.messages = @ \union {job[w].msg}]]
                /\ Goto(w, "write_tmp")
             \/ /\ job[w].op = "delete"
                /\ loaded' = [loaded EXCEPT ![w] = [x EXCEPT !.deleted = @ \union {job[w].msg}]]
                /\ Goto(w, "write_tmp")
             \/ job[w].op = "delete" /\ Goto(w, "release") /\ UNCHANGED loaded
    BY <1>6 DEF LoadMetadata
  <2>3. x \in Metadata
    BY <2>1, <2>2, LoadType DEF Job
  <2>4. /\ [x EXCEPT !.messages = @ \union {job[w].msg}] \in Metadata
        /\ [x EXCEPT !.deleted = @ \union {job[w].msg}] \in Metadata
    BY <2>1, <2>3 DEF Metadata, Job
  <2>5. loaded' \in [Worker -> Metadata]
    BY <2>2, <2>4 DEF TypeOK
  <2>6. OpInv' /\ pc' \in [Worker -> PcState]
    BY <1>6, <2>2 DEF LoadMetadata, OpInv, TypeOK, PcState
  <2> QED
    BY <1>6, <2>5, <2>6 DEF LoadMetadata, TypeOK
<1>7. ASSUME NEW w \in Worker, WriteTmp(w) \/ SaveFails(w) \/ ReplaceMetadata(w) PROVE TypeInv'
  <2>1. job[w].user \in User
    BY DEF TypeOK, Job
  <2>2. CASE WriteTmp(w)
    BY <2>1, <2>2 DEF WriteTmp, TypeOK, OpInv, PcState
  <2>3. CASE SaveFails(w)
    BY <2>3 DEF SaveFails, TypeOK, OpInv, PcState
  <2>4. CASE ReplaceMetadata(w)
    BY <2>1, <2>4 DEF ReplaceMetadata, TypeOK, OpInv, PcState
  <2> QED
    BY <1>7, <2>2, <2>3, <2>4
<1>8. ASSUME NEW w \in Worker, ReadMailbox(w) PROVE TypeInv'
  <2>1. OnDisk(job[w].user) \in Metadata /\ NoMetadata \in Metadata
    BY DEF TypeOK, Job, OnDisk, NoMetadata, Metadata
  <2> QED
    BY <1>8, <2>1 DEF ReadMailbox, TypeOK, OpInv, PcState
<1>9. ASSUME Crash PROVE TypeInv'
  <2>1. crashes' \in 0..MaxCrashes
    BY <1>9, MailboxBoundAssumption DEF Crash, TypeOK
  <2> QED
    BY <1>9, <2>1, NoJobType, MailboxBoundAssumption
    DEF Crash, Forget, TypeOK, OpInv, PcState, InitialLocks, AllFree, Lock, NoMetadata, Metadata
<1>10. CASE UNCHANGED vars
  BY <1>10 DEF vars, TypeOK, OpInv
<1> QED
  BY <1>1, <1>2, <1>3, <1>4, <1>5, <1>6, <1>7, <1>8, <1>9, <1>10 DEF Next, WorkerStep

\* Every variable holds a value of its kind, whatever fails and crashes.
THEOREM StoreTypeCorrect == Spec => []TypeOK
<1>1. TypeInv => TypeOK
  BY DEF TypeInv
<1> QED
  BY <1>1, TypeInit, TypeStep, PTL DEF Spec

-----------------------------------------------------------------------------
(* Entries have files                                                      *)

LEMMA DiskLemma ==
  ASSUME NEW u \in User
  PROVE  OnDisk(u).messages = MessagesOf(metadata[u])
BY DEF OnDisk, MessagesOf, NoMetadata

LEMMA FilesInit == Init => FilesInv
BY DEF Init, FilesInv, MessagesOf

LEMMA FilesStep == TypeInv /\ FilesInv /\ [Next]_vars => FilesInv'
<1> SUFFICES ASSUME TypeInv, FilesInv, [Next]_vars PROVE FilesInv'
  OBVIOUS
<1> USE DEF Goto, memoryVars, diskVars, workerVars, boundVars, historyVars
<1>0. /\ \A w \in Worker : job[w].user \in User /\ job[w].msg \in Msg
      /\ pc \in [Worker -> PcState] /\ job \in [Worker -> Job]
      /\ loaded \in [Worker -> Metadata]
      /\ files \in [User -> SUBSET Msg]
  BY DEF TypeInv, TypeOK, Job
<1>1. ASSUME NEW w \in Worker, Call(w) PROVE FilesInv'
  <2>1. \A v \in Worker \ {w} : job'[v] = job[v] /\ pc'[v] = pc[v]
    BY <1>1, <1>0 DEF Call, save_email, delete_email, read_mailbox
  <2>2. pc'[w] = "check" /\ UNCHANGED <<files, metadata, metadata_tmp, loaded>>
    BY <1>1, <1>0 DEF Call
  <2> QED
    BY <2>1, <2>2 DEF FilesInv
<1>2. ASSUME NEW w \in Worker, CheckLock(w) \/ CreateLock(w) \/ FetchLock(w) PROVE FilesInv'
  <2>1. /\ \A v \in Worker \ {w} : pc'[v] = pc[v]
        /\ pc'[w] \in {"create", "fetch", "acquire"}
        /\ UNCHANGED <<files, metadata, metadata_tmp, loaded, job>>
    BY <1>2, <1>0 DEF CheckLock, CreateLock, FetchLock
  <2> QED
    BY <2>1 DEF FilesInv
<1>3. ASSUME NEW w \in Worker, Acquire(w) PROVE FilesInv'
  <2>1. /\ \A v \in Worker \ {w} : pc'[v] = pc[v]
        /\ pc'[w] = FirstStep[job[w].op]
        /\ UNCHANGED <<files, metadata, metadata_tmp, loaded, job>>
    BY <1>3, <1>0 DEF Acquire
  <2>2. job[w].op \in {"save", "delete", "read"}
    BY <1>3, <1>0 DEF Acquire, TypeInv, OpInv, Job
  <2>3. pc'[w] \in {"stage", "load", "read"} /\ (pc'[w] = "load" => job[w].op = "delete")
    BY <2>1, <2>2 DEF FirstStep
  <2> QED
    BY <2>1, <2>3 DEF FilesInv
<1>4. ASSUME NEW w \in Worker, Release(w) PROVE FilesInv'
  <2>1. /\ \A v \in Worker \ {w} : pc'[v] = pc[v] /\ job'[v] = job[v] /\ loaded'[v] = loaded[v]
        /\ pc'[w] = "idle"
        /\ UNCHANGED <<files, metadata, metadata_tmp>>
    BY <1>4, <1>0 DEF Release, Forget
  <2> QED
    BY <2>1 DEF FilesInv
<1>5. ASSUME NEW w \in Worker, StageMessage(w) PROVE FilesInv'
  <2>1. /\ \A v \in Worker \ {w} : pc'[v] = pc[v]
        /\ pc'[w] \in {"move", "release"} /\ job[w].op = "save"
        /\ UNCHANGED <<files, metadata, metadata_tmp, loaded, job>>
    BY <1>5, <1>0 DEF StageMessage, TypeInv, OpInv
  <2> QED
    BY <2>1 DEF FilesInv
<1>6. ASSUME NEW w \in Worker, MoveMessage(w) PROVE FilesInv'
  <2>1. /\ \A v \in Worker \ {w} : pc'[v] = pc[v]
        /\ job[w].op = "save"
        /\ UNCHANGED <<metadata, metadata_tmp, loaded, job>>
    BY <1>6, <1>0 DEF MoveMessage, TypeInv, OpInv
  <2>2. \/ pc'[w] = "load" /\ job[w].msg \in files'[job[w].user]
        \/ pc'[w] = "release"
    BY <1>6, <1>0 DEF MoveMessage
  <2>3. \A u \in User : files[u] \subseteq files'[u]
    BY <1>6, <1>0 DEF MoveMessage
  <2> QED
    BY <2>1, <2>2, <2>3, <1>0 DEF FilesInv
<1>7. ASSUME NEW w \in Worker, LoadMetadata(w) PROVE FilesInv'
  <2>1. /\ \A v \in Worker \ {w} : pc'[v] = pc[v] /\ loaded'[v] = loaded[v]
        /\ job[w].op \in {"save", "delete"}
        /\ UNCHANGED <<files, metadata, metadata_tmp, job>>
    BY <1>7, <1>0 DEF LoadMetadata, TypeInv, OpInv
  <2>2. \A x \in {OnDisk(job[w].user), NoMetadata} :
          x \in Metadata /\ x.messages \subseteq files[job[w].user]
    BY <1>0, DiskLemma DEF FilesInv, NoMetadata, Metadata, OnDisk, TypeInv, TypeOK
  <2>3. PICK x \in {OnDisk(job[w].user), NoMetadata} :
          \/ /\ job[w].op = "save"
             /\ loaded'[w] = [x EXCEPT !.messages = @ \union {job[w].msg}]
             /\ pc'[w] = "write_tmp"
          \/ /\ job[w].op = "delete"
             /\ loaded'[w] = [x EXCEPT !.deleted = @ \union {job[w].msg}]
             /\ pc'[w] = "write_tmp"
          \/ pc'[w] = "release"
    BY <1>7, <1>0 DEF LoadMetadata
  <2>4. job[w].op = "save" => job[w].msg \in files[job[w].user]
    BY <1>7 DEF LoadMetadata, FilesInv
  <2>5. pc'[w] = "write_tmp" => loaded'[w].messages \subseteq files[job[w].user]
    BY <2>2, <2>3, <2>4 DEF Metadata
  <2>6. pc'[w] \in {"write_tmp", "release"}
    BY <2>3
  <2> QED
    BY <2>1, <2>5, <2>6 DEF FilesInv
<1>8. ASSUME NEW w \in Worker, SaveFails(w) PROVE FilesInv'
  <2>1. /\ \A v \in Worker \ {w} : pc'[v] = pc[v]
        /\ pc'[w] = "release" /\ job[w].op \in {"save", "delete"}
        /\ UNCHANGED <<files, metadata, metadata_tmp, loaded, job>>
    BY <1>8, <1>0 DEF SaveFails, TypeInv, OpInv
  <2> QED
    BY <2>1 DEF FilesInv
<1>9. ASSUME NEW w \in Worker, WriteTmp(w) PROVE FilesInv'
  <2>1. /\ \A v \in Worker \ {w} : pc'[v] = pc[v]
        /\ pc[w] = "write_tmp" /\ pc'[w] = "replace"
        /\ metadata_tmp' = [metadata_tmp EXCEPT ![job[w].user] = loaded[w]]
        /\ UNCHANGED <<files, metadata, loaded, job>>
    BY <1>9, <1>0 DEF WriteTmp
  <2>2. MessagesOf(loaded[w]) = loaded[w].messages
    BY <1>0, NoFileAssumption DEF MessagesOf
  <2>3. metadata_tmp \in [User -> Metadata \union {NoFile}]
    BY DEF TypeInv, TypeOK
  <2>4. \A u \in User : MessagesOf(metadata_tmp'[u]) \subseteq files[u]
    BY <2>1, <2>2, <2>3, <1>0 DEF FilesInv
  <2> QED
    BY <2>1, <2>4 DEF FilesInv
<1>10. ASSUME NEW w \in Worker, ReplaceMetadata(w) PROVE FilesInv'
  <2>1. /\ \A v \in Worker \ {w} : pc'[v] = pc[v]
        /\ pc'[w] = "release" /\ job[w].op \in {"save", "delete"}
        /\ UNCHANGED <<files, loaded, job>>
    BY <1>10, <1>0 DEF ReplaceMetadata, TypeInv, OpInv
  <2>2. metadata_tmp \in [User -> Metadata \union {NoFile}]
        /\ metadata \in [User -> Metadata \union {NoFile}]
    BY DEF TypeInv, TypeOK
  <2>3. \A u \in User : /\ metadata'[u] \in {metadata[u], metadata_tmp[u]}
                        /\ metadata_tmp'[u] \in {metadata_tmp[u], NoFile}
    BY <1>10, <1>0, <2>2 DEF ReplaceMetadata
  <2>4. MessagesOf(NoFile) = {}
    BY DEF MessagesOf
  <2>5. \A u \in User : /\ MessagesOf(metadata'[u]) \subseteq files[u]
                        /\ MessagesOf(metadata_tmp'[u]) \subseteq files[u]
    BY <2>3, <2>4 DEF FilesInv
  <2> QED
    BY <2>1, <2>5 DEF FilesInv
<1>11. ASSUME NEW w \in Worker, ReadMailbox(w) PROVE FilesInv'
  <2>1. /\ \A v \in Worker \ {w} : pc'[v] = pc[v] /\ loaded'[v] = loaded[v]
        /\ pc'[w] = "release" /\ loaded'[w] \in {OnDisk(job[w].user), NoMetadata}
        /\ UNCHANGED <<files, metadata, metadata_tmp, job>>
    BY <1>11, <1>0 DEF ReadMailbox
  <2>2. loaded'[w].messages \subseteq files[job[w].user]
    BY <2>1, <1>0, DiskLemma DEF FilesInv, NoMetadata
  <2> QED
    BY <2>1, <2>2 DEF FilesInv
<1>12. ASSUME Crash PROVE FilesInv'
  BY <1>12 DEF Crash, FilesInv
<1>13. CASE UNCHANGED vars
  BY <1>13 DEF vars, FilesInv
<1> QED
  BY <1>1, <1>2, <1>3, <1>4, <1>5, <1>6, <1>7, <1>8, <1>9, <1>10, <1>11, <1>12, <1>13
  DEF Next, WorkerStep

\* Every entry of metadata.json and every listing names a message file that is there,
\* whatever fails, crashes or races.
THEOREM EntriesAlwaysHaveFiles == Spec => []EntriesHaveFiles
<1>1. TypeInv /\ FilesInv => EntriesHaveFiles
  BY DiskLemma DEF FilesInv, EntriesHaveFiles
<1> QED
  BY <1>1, TypeInit, TypeStep, FilesInit, FilesStep, PTL DEF Spec

-----------------------------------------------------------------------------
(* One lock for each user                                                  *)

LEMMA LockInit == WarmStore /\ Init => LockInv
BY DEF WarmStore, Init, InitialLocks, LockInv, Critical

LEMMA LockStep == WarmStore /\ TypeInv /\ LockInv /\ [Next]_vars => LockInv'
<1> SUFFICES ASSUME WarmStore, TypeInv, LockInv, [Next]_vars PROVE LockInv'
  OBVIOUS
<1> USE DEF Goto, memoryVars, diskVars, workerVars, boundVars, historyVars
<1>0. /\ \A w \in Worker : job[w].user \in User
      /\ pc \in [Worker -> PcState] /\ job \in [Worker -> Job]
      /\ my_lock \in [Worker -> Lock \union {NoLock}]
      /\ holder \in [User -> [Lock -> Worker \union {NoWorker}]]
      /\ Boot \in Lock /\ Boot # NoLock
  BY SentinelAssumption DEF TypeInv, TypeOK, Job, Lock
<1>1. ASSUME NEW w \in Worker, Call(w) PROVE LockInv'
  <2>1. /\ \A v \in Worker \ {w} : job'[v] = job[v] /\ pc'[v] = pc[v]
        /\ pc'[w] = "check"
        /\ UNCHANGED <<locks, holder, my_lock>>
    BY <1>1, <1>0 DEF Call, save_email, delete_email, read_mailbox
  <2> QED
    BY <2>1 DEF LockInv, Critical
<1>2. ASSUME NEW w \in Worker, CheckLock(w) \/ CreateLock(w) \/ FetchLock(w) PROVE LockInv'
  <2>1. /\ \A v \in Worker \ {w} : pc'[v] = pc[v] /\ my_lock'[v] = my_lock[v]
        /\ pc'[w] = "fetch" \/ (pc'[w] = "acquire" /\ my_lock'[w] = Boot)
        /\ UNCHANGED <<locks, holder, job>>
    <3>1. locks[job[w].user] = Boot /\ pc[w] # "create"
      BY <1>0 DEF LockInv
    <3>2. CASE CheckLock(w)
      BY <3>1, <3>2, <1>0 DEF CheckLock
    <3>3. CASE FetchLock(w)
      BY <3>1, <3>3, <1>0 DEF FetchLock
    <3> QED
      BY <1>2, <3>1, <3>2, <3>3 DEF CreateLock
  <2> QED
    BY <2>1 DEF LockInv, Critical
<1>3. ASSUME NEW w \in Worker, Acquire(w) PROVE LockInv'
  <2> DEFINE u == job[w].user
  <2>1. /\ \A v \in Worker \ {w} : pc'[v] = pc[v]
        /\ my_lock[w] = Boot /\ holder[u][Boot] = NoWorker
        /\ holder' = [holder EXCEPT ![u][Boot] = w]
        /\ UNCHANGED <<locks, my_lock, job>>
    BY <1>3, <1>0 DEF Acquire, LockInv
  <2>2. pc'[w] # "create"
    <3>1. job[w].op \in {"save", "delete", "read"} /\ pc'[w] = FirstStep[job[w].op]
      BY <1>3, <1>0 DEF Acquire, TypeInv, OpInv, Job
    <3> QED
      BY <3>1 DEF FirstStep
  <2>3. \A v \in Worker \ {w} : pc[v] \in Critical => job[v].user # u
    BY <2>1, SentinelAssumption DEF LockInv
  <2>4. holder'[u][Boot] = w /\ \A x \in User \ {u} : holder'[x] = holder[x]
    BY <2>1, <1>0
  <2> QED
    BY <2>1, <2>2, <2>3, <2>4, <1>0 DEF LockInv, Critical
<1>4. ASSUME NEW w \in Worker, Release(w) PROVE LockInv'
  <2> DEFINE u == job[w].user
  <2>1. /\ \A v \in Worker \ {w} :
             pc'[v] = pc[v] /\ job'[v] = job[v] /\ my_lock'[v] = my_lock[v]
        /\ pc[w] = "release" /\ pc'[w] = "idle"
        /\ \A x \in User \ {u} : holder'[x] = holder[x]
        /\ UNCHANGED locks
    BY <1>4, <1>0 DEF Release, Forget
  <2>2. \A v \in Worker \ {w} : pc[v] \in Critical => job[v].user # u
    BY <2>1 DEF LockInv, Critical
  <2> QED
    BY <2>1, <2>2, <1>0 DEF LockInv, Critical
<1>5. ASSUME NEW w \in Worker,
             \/ StageMessage(w) \/ MoveMessage(w) \/ LoadMetadata(w) \/ WriteTmp(w)
             \/ SaveFails(w) \/ ReplaceMetadata(w) \/ ReadMailbox(w)
      PROVE  LockInv'
  <2>1. /\ pc[w] \in Critical
        /\ \E l \in Critical : pc' = [pc EXCEPT ![w] = l]
        /\ UNCHANGED <<locks, holder, my_lock, job>>
    <3>1. CASE StageMessage(w)
      BY <3>1 DEF StageMessage, Critical
    <3>2. CASE MoveMessage(w)
      BY <3>2 DEF MoveMessage, Critical
    <3>3. CASE LoadMetadata(w)
      BY <3>3 DEF LoadMetadata, Critical
    <3>4. CASE WriteTmp(w) \/ SaveFails(w) \/ ReplaceMetadata(w) \/ ReadMailbox(w)
      BY <3>4 DEF WriteTmp, SaveFails, ReplaceMetadata, ReadMailbox, Critical
    <3> QED
      BY <1>5, <3>1, <3>2, <3>3, <3>4
  <2> QED
    BY <2>1, <1>0 DEF LockInv, Critical
<1>6. ASSUME Crash PROVE LockInv'
  BY <1>6 DEF Crash, LockInv, InitialLocks, WarmStore, Critical
<1>7. CASE UNCHANGED vars
  BY <1>7 DEF vars, LockInv
<1> QED
  BY <1>1, <1>2, <1>3, <1>4, <1>5, <1>6, <1>7 DEF Next, WorkerStep

LEMMA LockExcludes == TypeInv /\ LockInv => MutualExclusion
BY DEF LockInv, MutualExclusion

\* When the users' locks exist before they are raced for, no two workers are inside
\* the locked block of one user, through every failure and crash.
THEOREM LocksExclude == WarmStore => (Spec => []MutualExclusion)
<1> SUFFICES ASSUME WarmStore PROVE Spec => []MutualExclusion
  OBVIOUS
<1>1. Init => TypeInv /\ LockInv
  BY TypeInit, LockInit
<1>2. TypeInv /\ LockInv /\ [Next]_vars => (TypeInv /\ LockInv)'
  BY TypeStep, LockStep
<1> QED
  BY <1>1, <1>2, LockExcludes, PTL DEF Spec

-----------------------------------------------------------------------------
(* What is reported is on the disk                                         *)

LEMMA StoreInit == Init => StoreInv
<1> SUFFICES ASSUME Init PROVE StoreInv
  OBVIOUS
<1>1. \A u \in User : Disk[u] = NoMetadata
  BY DEF Init, Disk, OnDisk
<1>2. ReportedInv
  BY <1>1 DEF Init, ReportedInv, NoMetadata
<1>3. \A w \in Worker : pc[w] = "idle" /\ job[w].op = "none" /\ ~ok[w]
  BY DEF Init, NoJob
<1>4. OwnNames
  BY <1>3 DEF OwnNames
<1>5. ASSUME NEW w \in Worker PROVE CopyInv(w)
  BY <1>3 DEF CopyInv
<1> QED
  BY <1>2, <1>4, <1>5 DEF StoreInv

\* The copy of a worker is undisturbed by the steps of others.
LEMMA CopyFrame ==
  ASSUME NEW v \in Worker, CopyInv(v), job[v].user \in User, pc'[v] = pc[v], job'[v] = job[v],
         loaded'[v] = loaded[v], ok'[v] = ok[v], UNCHANGED <<metadata_tmp, Disk>>,
         used \subseteq used', \A u \in User : dele_called[u] \subseteq dele_called'[u]
  PROVE  CopyInv(v)'
BY DEF CopyInv

\* A step of w that touches neither the metadata nor a history variable, and ends
\* neither at the metadata steps nor in a success.
LEMMA StoreFrame ==
  ASSUME TypeInv, StoreInv, NEW w \in Worker,
         UNCHANGED <<metadata, metadata_tmp, job, loaded, ok, used, historyVars>>,
         \A v \in Worker \ {w} : pc'[v] = pc[v],
         pc[w] # "release", pc'[w] \notin {"write_tmp", "replace"}
  PROVE  StoreInv'
<1>1. UNCHANGED <<saved, removed, dele_called, used, Disk, job, metadata_tmp, loaded, ok>>
  BY DEF historyVars, Disk, OnDisk
<1>2. \A v \in Worker : job[v].user \in User
  BY DEF TypeInv, TypeOK, Job
<1>3. ReportedInv' /\ OwnNames'
  BY <1>1 DEF StoreInv, ReportedInv, OwnNames
<1>4. CopyInv(w)'
  BY <1>1 DEF StoreInv, CopyInv
<1>5. ASSUME NEW v \in Worker \ {w} PROVE CopyInv(v)'
  BY <1>1, <1>2, CopyFrame DEF StoreInv
<1> QED
  BY <1>3, <1>4, <1>5 DEF StoreInv

\* The replacement of metadata.json makes the update of w's job and no other.
LEMMA ReplaceEffect ==
  ASSUME TypeInv, StoreInv, NEW w \in Worker, ReplaceMetadata(w)
  PROVE  LET u == job[w].user  m == job[w].msg IN
         /\ \A x \in User \ {u} : Disk'[x] = Disk[x]
         /\ Disk'[u].messages = IF job[w].op = "save" THEN Disk[u].messages \union {m}
                                                      ELSE Disk[u].messages
         /\ Disk'[u].deleted = IF job[w].op = "save" THEN Disk[u].deleted
                                                     ELSE Disk[u].deleted \union {m}
<1> DEFINE u == job[w].user
           m == job[w].msg
<1>1. /\ u \in User /\ loaded[w] \in Metadata /\ metadata \in [User -> Metadata \union {NoFile}]
      /\ pc[w] = "replace"
  BY DEF TypeInv, TypeOK, Job, ReplaceMetadata
<1>2. metadata_tmp[u] = loaded[w] /\ loaded[w] = Updated(Disk[u], job[w]) /\ loaded[w] # NoFile
  BY <1>1, NoFileAssumption DEF StoreInv, CopyInv
<1>3. metadata' = [metadata EXCEPT ![u] = loaded[w]]
  BY <1>2 DEF ReplaceMetadata
<1>4. Disk'[u] = Updated(Disk[u], job[w]) /\ \A x \in User \ {u} : Disk'[x] = Disk[x]
  BY <1>1, <1>2, <1>3 DEF Disk, OnDisk
<1>5. Disk[u] \in Metadata
  BY <1>1 DEF Disk, OnDisk, NoMetadata, Metadata
<1> QED
  BY <1>4, <1>5 DEF Updated, Metadata

LEMMA StoreStep ==
  SoundDisk /\ TypeInv /\ LockInv /\ StoreInv /\ [Next]_vars => StoreInv'
<1> SUFFICES ASSUME SoundDisk, TypeInv, LockInv, StoreInv, [Next]_vars PROVE StoreInv'
  OBVIOUS
<1> USE DEF Goto, memoryVars, diskVars, workerVars, boundVars
<1>0. /\ \A w \in Worker : job[w].user \in User /\ job[w].msg \in Msg
      /\ pc \in [Worker -> PcState] /\ job \in [Worker -> Job]
      /\ loaded \in [Worker -> Metadata] /\ ok \in [Worker -> BOOLEAN]
      /\ metadata \in [User -> Metadata \union {NoFile}]
      /\ metadata_tmp \in [User -> Metadata \union {NoFile}]
      /\ saved \in [User -> SUBSET Msg] /\ removed \in [User -> SUBSET Msg]
      /\ dele_called \in [User -> SUBSET Msg]
  BY DEF TypeInv, TypeOK, Job
<1>00. MutualExclusion
  BY LockExcludes
<1>01. ReportedInv /\ (\A w \in Worker : CopyInv(w)) /\ OwnNames
  BY DEF StoreInv
<1>1. ASSUME NEW w \in Worker, Call(w) PROVE StoreInv'
  <2>1. PICK u \in User, m \in Msg :
          save_email(w, u, m) \/ delete_email(w, u, m) \/ read_mailbox(w, u, m)
    BY <1>1 DEF Call
  <2>2. /\ \A v \in Worker \ {w} : job'[v] = job[v] /\ pc'[v] = pc[v]
        /\ job'[w].user = u /\ job'[w].msg = m
        /\ pc[w] = "idle" /\ pc'[w] = "check"
        /\ UNCHANGED <<metadata_tmp, loaded, ok, saved, removed, Disk>>
    <3>1. PICK op \in {"save", "delete", "read"} :
            job' = [job EXCEPT ![w] = [op |-> op, user |-> u, msg |-> m]]
      BY <2>1 DEF save_email, delete_email, read_mailbox
    <3> QED
      BY <1>1, <3>1, <1>0 DEF Call, Disk, OnDisk
  <2>3. /\ used \subseteq used'
        /\ \A x \in User : dele_called[x] \subseteq dele_called'[x]
        /\ job'[w].op = "save" => m \in used' /\ m \notin used
        /\ job'[w].op = "delete" => m \in dele_called'[u]
    <3>1. CASE save_email(w, u, m)
      BY <3>1, <1>0 DEF save_email
    <3>2. CASE delete_email(w, u, m)
      BY <3>2, <1>0 DEF delete_email
    <3>3. CASE read_mailbox(w, u, m)
      BY <3>3, <1>0 DEF read_mailbox
    <3> QED
      BY <2>1, <3>1, <3>2, <3>3
  <2>4. ReportedInv'
    BY <2>2, <2>3, <1>01 DEF ReportedInv
  <2>5. OwnNames'
    <3>1. \A v \in Worker : job[v].op = "save" => job[v].msg \in used
      BY <1>01 DEF CopyInv
    <3> QED
      BY <2>2, <2>3, <3>1, <1>01 DEF OwnNames
  <2>6. CopyInv(w)'
    <3>1. ~ok[w]
      BY <2>2, <1>01 DEF CopyInv
    <3>2. m \notin used => \A x \in User : m \notin Disk[x].messages
      BY <1>01 DEF ReportedInv
    <3> QED
      BY <2>2, <2>3, <3>1, <3>2 DEF CopyInv
  <2>7. ASSUME NEW v \in Worker \ {w} PROVE CopyInv(v)'
    BY ONLY <2>2, <2>3, <2>7, <1>0, <1>01, CopyFrame
  <2> QED
    BY <2>4, <2>5, <2>6, <2>7 DEF StoreInv
<1>2. ASSUME NEW w \in Worker, CheckLock(w) \/ CreateLock(w) \/ FetchLock(w) PROVE StoreInv'
  <2>1. /\ UNCHANGED <<metadata, metadata_tmp, job, loaded, ok, used, historyVars>>
        /\ \A v \in Worker \ {w} : pc'[v] = pc[v]
        /\ pc[w] # "release" /\ pc'[w] \notin {"write_tmp", "replace"}
    BY <1>2, <1>0 DEF CheckLock, CreateLock, FetchLock
  <2> QED
    BY ONLY <2>1, TypeInv, StoreInv, StoreFrame
<1>3. ASSUME NEW w \in Worker, Acquire(w) PROVE StoreInv'
  <2>1. job[w].op \in {"save", "delete", "read"} /\ pc'[w] = FirstStep[job[w].op]
    BY <1>3, <1>0 DEF Acquire, TypeInv, OpInv, Job
  <2>2. /\ UNCHANGED <<metadata, metadata_tmp, job, loaded, ok, used, historyVars>>
        /\ \A v \in Worker \ {w} : pc'[v] = pc[v]
        /\ pc[w] # "release" /\ pc'[w] \notin {"write_tmp", "replace"}
    BY <1>3, <1>0, <2>1 DEF Acquire, FirstStep
  <2> QED
    BY ONLY <2>2, TypeInv, StoreInv, StoreFrame
<1>4. ASSUME NEW w \in Worker, StageMessage(w) \/ MoveMessage(w) PROVE StoreInv'
  <2>1. /\ UNCHANGED <<metadata, metadata_tmp, job, loaded, ok, used, historyVars>>
        /\ \A v \in Worker \ {w} : pc'[v] = pc[v]
        /\ pc[w] # "release" /\ pc'[w] \notin {"write_tmp", "replace"}
    BY <1>4, <1>0 DEF StageMessage, MoveMessage
  <2> QED
    BY ONLY <2>1, TypeInv, StoreInv, StoreFrame
<1>5. ASSUME NEW w \in Worker, Release(w) PROVE StoreInv'
  <2>1. /\ \A v \in Worker \ {w} :
             pc'[v] = pc[v] /\ job'[v] = job[v] /\ loaded'[v] = loaded[v] /\ ok'[v] = ok[v]
        /\ pc'[w] = "idle" /\ job'[w].op = "none" /\ ~ok'[w]
        /\ UNCHANGED <<metadata_tmp, used, dele_called, Disk>>
    BY <1>5, <1>0 DEF Release, Forget, NoJob, Disk, OnDisk
  <2>2. \A u \in User : saved'[u] \subseteq Disk[u].messages
    BY <1>5, <1>0, <1>01 DEF Release, ReportedInv, CopyInv
  <2>3. \A u \in User : removed'[u] \subseteq Disk[u].deleted
    BY <1>5, <1>0, <1>01 DEF Release, ReportedInv, CopyInv
  <2>4. ReportedInv'
    BY <2>1, <2>2, <2>3, <1>01 DEF ReportedInv
  <2>5. OwnNames'
    BY <2>1, <1>01 DEF OwnNames
  <2>6. CopyInv(w)'
    BY <2>1 DEF CopyInv
  <2>7. ASSUME NEW v \in Worker \ {w} PROVE CopyInv(v)'
    BY ONLY <2>1, <2>7, <1>0, <1>01, CopyFrame
  <2> QED
    BY <2>4, <2>5, <2>6, <2>7 DEF StoreInv
<1>6. ASSUME NEW w \in Worker, LoadMetadata(w) PROVE StoreInv'
  <2> DEFINE u == job[w].user
             m == job[w].msg
  <2>1. /\ \A v \in Worker \ {w} : pc'[v] = pc[v] /\ loaded'[v] = loaded[v]
        /\ pc[w] = "load" /\ job[w].op \in {"save", "delete"}
        /\ UNCHANGED <<metadata_tmp, job, ok, used, saved, removed, dele_called, Disk>>
    BY <1>6, <1>0 DEF LoadMetadata, TypeInv, OpInv, historyVars, Disk, OnDisk
  <2>2. \/ pc'[w] = "release" /\ job[w].op = "delete"
        \/ /\ pc'[w] = "write_tmp" /\ loaded'[w] = Updated(Disk[u], job[w])
           /\ job[w].op = "delete" => m \in Disk[u].messages
    <3>1. PICK x \in {OnDisk(u), NoMetadata} :
            /\ _load_metadata(u, x)
            /\ \/ /\ job[w].op = "save" /\ Goto(w, "write_tmp")
                  /\ loaded' = [loaded EXCEPT ![w] = [x EXCEPT !.messages = @ \union {m}]]
               \/ /\ job[w].op = "delete" /\ m \in x.messages /\ Goto(w, "write_tmp")
                  /\ loaded' = [loaded EXCEPT ![w] = [x EXCEPT !.deleted = @ \union {m}]]
               \/ job[w].op = "delete" /\ Goto(w, "release")
      BY <1>6 DEF LoadMetadata
    <3>2. x = Disk[u]
      BY <3>1, <1>0 DEF _load_metadata, SoundDisk, Disk
    <3> QED
      BY <3>1, <3>2, <1>0 DEF Updated
  <2>3. ReportedInv' /\ OwnNames'
    BY <2>1, <1>01 DEF ReportedInv, OwnNames
  <2>4. CopyInv(w)'
    BY <2>1, <2>2, <1>01 DEF CopyInv, Updated
  <2>5. ASSUME NEW v \in Worker \ {w} PROVE CopyInv(v)'
    BY ONLY <2>1, <2>5, <1>0, <1>01, CopyFrame
  <2> QED
    BY <2>3, <2>4, <2>5 DEF StoreInv
<1>7. ASSUME NEW w \in Worker, WriteTmp(w) PROVE StoreInv'
  <2> DEFINE u == job[w].user
  <2>1. /\ \A v \in Worker \ {w} : pc'[v] = pc[v]
        /\ pc[w] = "write_tmp" /\ pc'[w] = "replace"
        /\ metadata_tmp'[u] = loaded[w]
        /\ \A x \in User \ {u} : metadata_tmp'[x] = metadata_tmp[x]
        /\ UNCHANGED <<job, loaded, ok, used, saved, removed, dele_called, Disk>>
    BY <1>7, <1>0 DEF WriteTmp, historyVars, Disk, OnDisk
  <2>2. ReportedInv' /\ OwnNames'
    BY <2>1, <1>01 DEF ReportedInv, OwnNames
  <2>3. CopyInv(w)'
    BY <2>1, <1>01 DEF CopyInv, Updated
  <2>4. ASSUME NEW v \in Worker \ {w} PROVE CopyInv(v)'
    <3>1. pc[v] = "replace" => job[v].user # u
      BY <2>1, <1>00 DEF MutualExclusion, Critical
    <3>2. pc[v] = "replace" => metadata_tmp'[job[v].user] = loaded[v]
      BY <3>1, <2>1, <1>0, <1>01 DEF CopyInv
    <3> HIDE DEF u
    <3> QED
      BY <3>2, <2>1, <1>01 DEF CopyInv, Updated
  <2> QED
    BY <2>2, <2>3, <2>4 DEF StoreInv
<1>8. ASSUME NEW w \in Worker, ReplaceMetadata(w) PROVE StoreInv'
  <2> DEFINE u == job[w].user
             m == job[w].msg
  <2>1. /\ \A v \in Worker \ {w} : pc'[v] = pc[v] /\ ok'[v] = ok[v]
        /\ pc[w] = "replace" /\ pc'[w] = "release" /\ job[w].op \in {"save", "delete"}
        /\ \A x \in User \ {u} : metadata_tmp'[x] = metadata_tmp[x] /\ metadata'[x] = metadata[x]
        /\ UNCHANGED <<job, loaded, used, saved, removed, dele_called>>
    BY <1>8, <1>0 DEF ReplaceMetadata, TypeInv, OpInv, historyVars
  <2>4. \A x \in User \ {u} : Disk'[x] = Disk[x]
    BY ReplaceEffect, <1>8
  <2>6. /\ Disk'[u].messages = IF job[w].op = "save" THEN Disk[u].messages \union {m}
                                                     ELSE Disk[u].messages
        /\ Disk'[u].deleted = IF job[w].op = "save" THEN Disk[u].deleted
                                                    ELSE Disk[u].deleted \union {m}
    BY ReplaceEffect, <1>8
  <2>7. \A v \in Worker \ {w} : pc[v] \in Critical => job[v].user # u
    BY <2>1, <1>00 DEF MutualExclusion, Critical
  <2>8. /\ job[w].op = "save" => m \in used
        /\ job[w].op = "delete" => m \in Disk[u].messages /\ m \in dele_called[u]
    BY <2>1, <1>01 DEF CopyInv
  <2>9. ReportedInv'
    BY <2>1, <2>4, <2>6, <2>8, <1>01 DEF ReportedInv
  <2>10. OwnNames'
    BY <2>1, <1>01 DEF OwnNames
  <2>11. CopyInv(w)'
    BY <2>1, <2>6, <2>8, <1>01 DEF CopyInv
  <2>12. ASSUME NEW v \in Worker \ {w} PROVE CopyInv(v)'
    <3>1. CopyInv(v)
      BY <1>01
    <3>2. job[v].op = "save" /\ pc[v] # "release" =>
            \A x \in User : job[v].msg \notin Disk'[x].messages
      <4>1. job[v].op = "save" /\ job[w].op = "save" => job[v].msg # m
        BY <1>01 DEF OwnNames
      <4> QED
        BY <2>4, <2>6, <3>1, <4>1 DEF CopyInv
    <3>3. pc[v] \in {"write_tmp", "replace"} \/ ok[v] =>
            /\ Disk'[job[v].user] = Disk[job[v].user]
            /\ metadata_tmp'[job[v].user] = metadata_tmp[job[v].user]
      BY <3>1, <2>1, <2>4, <2>7, <1>0 DEF CopyInv, Critical
    <3>4. /\ pc'[v] = pc[v] /\ ok'[v] = ok[v]
          /\ UNCHANGED <<job, loaded, used, dele_called>>
      BY <2>1
    <3> QED
      BY ONLY <3>1, <3>2, <3>3, <3>4 DEF CopyInv
  <2> QED
    BY <2>9, <2>10, <2>11, <2>12 DEF StoreInv
<1>9. ASSUME NEW w \in Worker, ReadMailbox(w) PROVE StoreInv'
  <2>1. /\ \A v \in Worker \ {w} : pc'[v] = pc[v] /\ loaded'[v] = loaded[v] /\ ok'[v] = ok[v]
        /\ pc'[w] = "release" /\ job[w].op = "read"
        /\ UNCHANGED <<metadata_tmp, job, used, saved, removed, dele_called, Disk>>
    BY <1>9, <1>0 DEF ReadMailbox, TypeInv, OpInv, historyVars, Disk, OnDisk
  <2>2. ReportedInv' /\ OwnNames'
    BY <2>1, <1>01 DEF ReportedInv, OwnNames
  <2>3. CopyInv(w)'
    BY <2>1 DEF CopyInv
  <2>4. ASSUME NEW v \in Worker \ {w} PROVE CopyInv(v)'
    BY ONLY <2>1, <2>4, <1>0, <1>01, CopyFrame
  <2> QED
    BY <2>2, <2>3, <2>4 DEF StoreInv
<1>10. ASSUME Crash PROVE StoreInv'
  <2>1. /\ \A w \in Worker : pc'[w] = "idle" /\ job'[w].op = "none" /\ ~ok'[w]
        /\ UNCHANGED <<used, saved, removed, dele_called, Disk>>
    BY <1>10 DEF Crash, Forget, NoJob, historyVars, Disk, OnDisk
  <2>2. ReportedInv' /\ OwnNames'
    BY <2>1, <1>01 DEF ReportedInv, OwnNames
  <2>3. ASSUME NEW w \in Worker PROVE CopyInv(w)'
    BY <2>1 DEF CopyInv
  <2> QED
    BY <2>2, <2>3 DEF StoreInv
<1>11. CASE UNCHANGED vars
  <2>1. UNCHANGED <<pc, job, loaded, ok, metadata_tmp, used, saved, removed, dele_called, Disk>>
    BY <1>11 DEF vars, historyVars, Disk, OnDisk
  <2>2. ReportedInv' /\ OwnNames'
    BY <2>1, <1>01 DEF ReportedInv, OwnNames
  <2>3. ASSUME NEW w \in Worker PROVE CopyInv(w)'
    BY ONLY <2>1, <2>3, <1>0, <1>01, CopyFrame
  <2> QED
    BY <2>2, <2>3 DEF StoreInv
<1>12. ~ \E w \in Worker : SaveFails(w)
  BY DEF SaveFails, SoundDisk
<1> QED
  BY <1>1, <1>2, <1>3, <1>4, <1>5, <1>6, <1>7, <1>8, <1>9, <1>10, <1>11, <1>12
  DEF Next, WorkerStep

\* The store when locks are there and metadata.json can be read and written.
SoundStore == WarmStore /\ SoundDisk

LEMMA StoreCorrect == SoundStore => (Spec => [](TypeInv /\ LockInv /\ StoreInv))
<1> SUFFICES ASSUME SoundStore PROVE Spec => [](TypeInv /\ LockInv /\ StoreInv)
  OBVIOUS
<1>1. Init => TypeInv /\ LockInv /\ StoreInv
  BY TypeInit, LockInit, StoreInit DEF SoundStore
<1>2. TypeInv /\ LockInv /\ StoreInv /\ [Next]_vars => (TypeInv /\ LockInv /\ StoreInv)'
  BY TypeStep, LockStep, StoreStep DEF SoundStore
<1> QED
  BY <1>1, <1>2, PTL DEF Spec

\* A message whose save was reported stays listed until its deletion is asked for.
THEOREM SavedStaysListed == SoundStore => (Spec => []SavedIsListed)
<1> SUFFICES ASSUME SoundStore PROVE Spec => []SavedIsListed
  OBVIOUS
<1>1. Spec => [](TypeInv /\ LockInv /\ StoreInv)
  BY StoreCorrect
<1>2. StoreInv => SavedIsListed
  BY DEF StoreInv, ReportedInv, Disk, SavedIsListed, Visible
<1> QED
  BY <1>1, <1>2, PTL

\* A deletion that was reported is never undone.
THEOREM RemovedNeverReturns == SoundStore => (Spec => []RemovedStaysHidden)
<1> SUFFICES ASSUME SoundStore PROVE Spec => []RemovedStaysHidden
  OBVIOUS
<1>1. Spec => [](TypeInv /\ LockInv /\ StoreInv)
  BY StoreCorrect
<1>2. StoreInv => RemovedStaysHidden
  BY DEF StoreInv, ReportedInv, Disk, RemovedStaysHidden, Visible
<1> QED
  BY <1>1, <1>2, PTL

-----------------------------------------------------------------------------
(* The store is a mailbox                                                  *)

LEMMA BoxInit == Init => Box!Init
<1> SUFFICES ASSUME Init PROVE Box!Init
  OBVIOUS
<1>1. \A u \in User : OnDisk(u) = NoMetadata
  BY DEF Init, OnDisk
<1> QED
  BY <1>1 DEF Init, Box!Init, Listed, Past, Visible, NoMetadata

\* Only the replacement of metadata.json and the return of a call are seen.
LEMMA Unseen ==
  ASSUME [Next]_vars, ~ \E w \in Worker : ReplaceMetadata(w) \/ Release(w)
  PROVE  UNCHANGED <<metadata, saved, removed>>
<1> USE DEF diskVars, historyVars
<1>1. ASSUME NEW w \in Worker, Call(w) PROVE UNCHANGED <<metadata, saved, removed>>
  BY <1>1 DEF Call
<1>2. ASSUME NEW w \in Worker, WorkerStep(w) PROVE UNCHANGED <<metadata, saved, removed>>
  <2>1. CASE CheckLock(w) \/ CreateLock(w) \/ FetchLock(w) \/ Acquire(w)
    BY <2>1 DEF CheckLock, CreateLock, FetchLock, Acquire
  <2>2. CASE StageMessage(w) \/ MoveMessage(w)
    BY <2>2 DEF StageMessage, MoveMessage
  <2>3. CASE LoadMetadata(w) \/ WriteTmp(w) \/ SaveFails(w) \/ ReadMailbox(w)
    BY <2>3 DEF LoadMetadata, WriteTmp, SaveFails, ReadMailbox
  <2> QED
    BY <1>2, <2>1, <2>2, <2>3 DEF WorkerStep
<1>3. CASE Crash
  BY <1>3 DEF Crash
<1>4. CASE UNCHANGED vars
  BY <1>4 DEF vars
<1> QED
  BY <1>1, <1>2, <1>3, <1>4 DEF Next

LEMMA BoxStep == TypeInv /\ StoreInv /\ [Next]_vars => [Box!Next]_Box!vars
<1> SUFFICES ASSUME TypeInv, StoreInv, [Next]_vars PROVE [Box!Next]_Box!vars
  OBVIOUS
<1>0. \A w \in Worker : job[w].user \in User /\ job[w].msg \in Msg
  BY DEF TypeInv, TypeOK, Job
<1>1. ASSUME NEW w \in Worker, ReplaceMetadata(w) PROVE [Box!Next]_Box!vars
  <2> DEFINE u == job[w].user
             m == job[w].msg
  <2>1. UNCHANGED <<saved, removed>> /\ job[w].op \in {"save", "delete"} /\ pc[w] = "replace"
    BY <1>1 DEF ReplaceMetadata, TypeInv, OpInv, historyVars
  <2>2. /\ \A x \in User \ {u} : Disk'[x] = Disk[x]
        /\ Disk'[u].messages = IF job[w].op = "save" THEN Disk[u].messages \union {m}
                                                     ELSE Disk[u].messages
        /\ Disk'[u].deleted = IF job[w].op = "save" THEN Disk[u].deleted
                                                    ELSE Disk[u].deleted \union {m}
    BY <1>1, ReplaceEffect
  <2>3. CASE job[w].op = "save"
    <3>1. m \notin Disk[u].messages
      BY <2>1, <2>3, <1>0 DEF StoreInv, CopyInv
    <3>2. Disk[u].deleted \subseteq Disk[u].messages
      BY <1>0 DEF StoreInv, ReportedInv
    <3>3. Listed' = [Listed EXCEPT ![u] = @ \union {m}]
      <4>1. Disk'[u].messages \ Disk'[u].deleted = (Disk[u].messages \ Disk[u].deleted) \union {m}
        BY <2>2, <2>3, <3>1, <3>2
      <4>2. Listed'[u] = Listed[u] \union {m} /\ \A x \in User \ {u} : Listed'[x] = Listed[x]
        BY <2>2, <4>1, <1>0 DEF Listed, Visible, Disk
      <4> QED
        BY <4>2, <1>0 DEF Listed
    <3>4. Past' = Past
      <4>1. Disk'[u].messages \intersect Disk'[u].deleted
              = Disk[u].messages \intersect Disk[u].deleted
        BY <2>2, <2>3, <3>1, <3>2
      <4>2. \A x \in User : Past'[x] = Past[x]
        BY <2>2, <4>1 DEF Past, Disk
      <4> QED
        BY <4>2 DEF Past
    <3>5. m \notin Listed[u] \union Past[u]
      BY <3>1, <1>0 DEF Listed, Past, Visible, Disk
    <3>6. Box!Deposit(u, m)
      BY <2>1, <3>3, <3>4, <3>5 DEF Box!Deposit
    <3> QED
      BY <3>6, <1>0 DEF Box!Next
  <2>4. CASE job[w].op = "delete" /\ m \notin Disk[u].deleted
    <3>1. m \in Disk[u].messages
      BY <2>1, <2>4 DEF StoreInv, CopyInv
    <3>2. Listed' = [Listed EXCEPT ![u] = @ \ {m}]
      BY <2>2, <2>4, <1>0 DEF Listed, Visible, Disk
    <3>3. Past' = [Past EXCEPT ![u] = @ \union {m}]
      <4>1. Past'[u] = Past[u] \union {m}
        BY <2>2, <2>4, <3>1, <1>0 DEF Past, Disk
      <4>2. \A x \in User \ {u} : Past'[x] = Past[x]
        BY <2>2 DEF Past, Disk
      <4> QED
        BY <4>1, <4>2, <1>0 DEF Past
    <3>4. m \in Listed[u]
      BY <2>4, <3>1, <1>0 DEF Listed, Visible, Disk
    <3>5. Box!Discard(u, m)
      BY <2>1, <3>2, <3>3, <3>4 DEF Box!Discard
    <3> QED
      BY <3>5, <1>0 DEF Box!Next
  <2>5. CASE job[w].op = "delete" /\ m \in Disk[u].deleted
    <3>1. Listed' = Listed /\ Past' = Past
      BY <2>2, <2>5, <1>0 DEF Listed, Past, Visible, Disk
    <3> QED
      BY <2>1, <3>1 DEF Box!vars
  <2> QED
    BY <2>1, <2>3, <2>4, <2>5
<1>2. ASSUME NEW w \in Worker, Release(w) PROVE [Box!Next]_Box!vars
  <2> DEFINE u == job[w].user
             m == job[w].msg
  <2>1. UNCHANGED metadata
    BY <1>2 DEF Release, diskVars
  <2>2. Listed' = Listed /\ Past' = Past
    BY <2>1 DEF Listed, Past, Visible, OnDisk
  <2>3. CASE ok[w] /\ job[w].op = "save"
    <3>1. saved' = [saved EXCEPT ![u] = @ \union {m}] /\ removed' = removed
      BY <1>2, <2>3 DEF Release
    <3>2. m \in Disk[u].messages
      BY <2>3 DEF StoreInv, CopyInv
    <3>3. m \in Listed[u] \union Past[u]
      BY <3>2, <1>0 DEF Listed, Past, Visible, Disk
    <3>4. Box!ReportSaved(u, m)
      BY <2>2, <3>1, <3>3 DEF Box!ReportSaved
    <3> QED
      BY <3>4, <1>0 DEF Box!Next
  <2>4. CASE ok[w] /\ job[w].op = "delete"
    <3>1. removed' = [removed EXCEPT ![u] = @ \union {m}] /\ saved' = saved
      BY <1>2, <2>4 DEF Release
    <3>2. m \in Disk[u].deleted /\ m \in Disk[u].messages
      BY <2>4, <1>0 DEF StoreInv, CopyInv, ReportedInv
    <3>3. m \in Past[u]
      BY <3>2, <1>0 DEF Past, Disk
    <3>4. Box!ReportRemoved(u, m)
      BY <2>2, <3>1, <3>3 DEF Box!ReportRemoved
    <3> QED
      BY <3>4, <1>0 DEF Box!Next
  <2>5. CASE ~(ok[w] /\ job[w].op \in {"save", "delete"})
    <3>1. UNCHANGED <<saved, removed>>
      BY <1>2, <2>5 DEF Release
    <3> QED
      BY <2>2, <3>1 DEF Box!vars
  <2> QED
    BY <2>3, <2>4, <2>5
<1>3. CASE ~ \E w \in Worker : ReplaceMetadata(w) \/ Release(w)
  <2>1. UNCHANGED <<metadata, saved, removed>>
    BY <1>3, Unseen
  <2>2. Listed' = Listed /\ Past' = Past
    BY <2>1 DEF Listed, Past, Visible, OnDisk
  <2> QED
    BY <2>1, <2>2 DEF Box!vars
<1> QED
  BY <1>1, <1>2, <1>3

\* The store implements module Mailbox: each step of it deposits or discards one
\* message, reports one result that is true, or changes nothing a caller can see.
THEOREM StoreIsMailbox == SoundStore => (Spec => BoxSpec)
<1> SUFFICES ASSUME SoundStore PROVE Spec => BoxSpec
  OBVIOUS
<1>1. Spec => [](TypeInv /\ LockInv /\ StoreInv)
  BY StoreCorrect
<1> QED
  BY <1>1, BoxInit, BoxStep, PTL DEF Spec, BoxSpec, Box!Spec
=============================================================================
