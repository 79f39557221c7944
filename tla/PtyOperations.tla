---------------------------- MODULE PtyOperations ----------------------------
(***************************************************************************)
(* The operation store behind `kilix pty request` (verb kill, request/v1): *)
(* config/kilix_pty_request.py, class Store, reserve() and execute().      *)
(*                                                                         *)
(* Callers are processes.  Each asks for an operation id with a request    *)
(* (its fingerprint is `key`).  All of them share a directory that holds,  *)
(* per operation, one JSON record and one lock file, and whose own flock   *)
(* is the store lock.  A lock file is an inode: it can be unlinked while   *)
(* somebody still has it open, and the path can later name another inode.  *)
(* A caller that finds no record writes a durable `intent`, releases the   *)
(* store lock and dispatches the terminate request while it keeps the      *)
(* flock of the operation's lock file; a caller that finds an intent waits *)
(* on that flock.                                                          *)
(*                                                                         *)
(* Data that is abstracted: record contents are reduced to the phase, the  *)
(* fingerprint and the kind of receipt; answers are left out, except that  *)
(* `promised` remembers a receipt the program handed out as durable; the   *)
(* scratch files of Store.write and the file checks of Store.read appear   *)
(* only as the failure StoreUnavailable.                                   *)
(***************************************************************************)
EXTENDS Naturals, FiniteSets

CONSTANTS
    Callers,        \* processes that run `kilix pty request`
    Ops,            \* operation ids
    Keys,           \* request fingerprints
    Inodes,         \* inode numbers a lock file can have
    None,           \* "no record", "no lock file", "nobody"
    StoreLimit,     \* STORE_LIMIT
    WaitForOwner,   \* WAIT_FOR_OWNER, in clock ticks
    CallTimeout,    \* the upper bound of TIMEOUT, in clock ticks
    UncertainTtl,   \* UNCERTAIN_TTL, in clock ticks
    PowerMayFail    \* may the machine stop (PowerLoss)?

RecentReceipt == WaitForOwner + CallTimeout

Receipts == {"verified_absent", "uncertain", "interrupted"}
Record == [phase : {"intent"}, key : Keys, receipt : {None}]
            \cup [phase : {"done"}, key : Keys, receipt : Receipts]
Intent(k) == [phase |-> "intent", key |-> k, receipt |-> None]
Done(k, r) == [phase |-> "done", key |-> k, receipt |-> r]

ASSUME OperationsAssumption ==
    /\ IsFiniteSet(Ops)
    /\ StoreLimit \in Nat \ {0}
    /\ WaitForOwner \in Nat \ {0}
    /\ CallTimeout \in Nat
    /\ UncertainTtl \in Nat
    /\ RecentReceipt <= UncertainTtl
    /\ PowerMayFail \in BOOLEAN
    /\ None \notin Callers \cup Ops \cup Keys \cup Inodes \cup Record \cup Receipts \cup {"unsent"}

VARIABLES
    record,     \* the record every reader sees
    disk,       \* the record the machine finds after it stops now
    age,        \* ticks since a record of the operation was last written (its mtime)
    lockFile,   \* the inode the operation's lock path names
    holder,     \* who holds the flock of an inode
    storeLock,  \* who holds the store lock
    skipped,    \* records make_room has passed over (local to the store-lock holder)
    pc, op, key,
    seen,       \* this call has read a record for its operation
    fd,         \* the lock file this caller has open (owner, held or waiting)
    elapsed,    \* ticks since reserve() began
    document,   \* what the dispatch returned
    sends,      \* history: terminate requests since the operation was last free to be tried
    promised    \* history: the receipt a caller was given as durably saved

store == <<record, disk, age, lockFile, holder, storeLock, skipped>>
caller == <<pc, op, key, seen, fd, elapsed, document>>
history == <<sends, promised>>
vars == <<store, caller, history>>

InReserve == {"enter", "read", "probe", "settle", "room", "unlink", "own", "intent", "open", "wait"}
Dispatching == {"dispatch", "sent", "finish", "save"}
UnderStoreLock == {"read", "probe", "settle", "room", "unlink", "own", "intent", "save"}
Steps == {"idle", "close"} \cup InReserve \cup Dispatching

-----------------------------------------------------------------------------
Records == {o \in Ops : record[o] # None}

(* Mutant of Full: one record too many. *)
OverFull == Cardinality(Records) > StoreLimit

Full == Cardinality(Records) >= StoreLimit

Free(i) == holder[i] = None

(* flock by c on inode i, and the close of every descriptor c has open *)
Flocked(i, c) == holder' = [holder EXCEPT ![i] = c]
Released(c) == [i \in Inodes |-> IF holder[i] = c THEN None ELSE holder[i]]

(* An inode number is free for a new file once no path and no descriptor refers to it. *)
Unused(i) == /\ \A o \in Ops : lockFile[o] # i
             /\ \A c \in Callers : fd[c] # i

(* owner_lock: open the lock path with O_CREAT; i is the inode the descriptor refers to *)
OwnerLock(o, i) ==
    /\ i \in Inodes
    /\ IF lockFile[o] = None
       THEN Unused(i) /\ lockFile' = [lockFile EXCEPT ![o] = i]
       ELSE i = lockFile[o] /\ lockFile' = lockFile

(* Mutant of Write: the directory is never fsynced. *)
WriteUnflushed(o, r, synced) ==
    /\ record' = [record EXCEPT ![o] = r]
    /\ age' = [age EXCEPT ![o] = 0]
    /\ disk' = disk

(* Store.write: the record is replaced, then the directory is fsynced (which
   makes every entry of the directory durable) or, when `synced` is FALSE,
   the fsync fails and DurabilityError is raised. *)
Write(o, r, synced) ==
    /\ record' = [record EXCEPT ![o] = r]
    /\ age' = [age EXCEPT ![o] = 0]
    /\ disk' = IF synced THEN record' ELSE disk

(* Mutant of Prunable: a fresh receipt may make room (RECENT_RECEIPT forgotten). *)
PrunableAtAnyAge(o) == record[o] # None /\ record[o].phase = "done"

(* prunable *)
Prunable(o) ==
    /\ record[o] # None
    /\ record[o].phase = "done"
    /\ IF record[o].receipt = "verified_absent"
       THEN age[o] > RecentReceipt
       ELSE age[o] > UncertainTtl

(* Mutant of LockIsCurrent: whoever holds some lock file of the operation owns it. *)
AnyLockIsCurrent(c) == fd[c] # None

(* lock_is_current *)
LockIsCurrent(c) == lockFile[op[c]] = fd[c]

(* The call ends (return, or a Refusal): every descriptor is closed. *)
Answer(c) ==
    /\ pc' = [pc EXCEPT ![c] = "idle"]
    /\ op' = [op EXCEPT ![c] = None]
    /\ key' = [key EXCEPT ![c] = None]
    /\ seen' = [seen EXCEPT ![c] = FALSE]
    /\ fd' = [fd EXCEPT ![c] = None]
    /\ elapsed' = [elapsed EXCEPT ![c] = 0]
    /\ document' = [document EXCEPT ![c] = None]
    /\ holder' = Released(c)
    /\ storeLock' = IF storeLock = c THEN None ELSE storeLock
    /\ skipped' = IF storeLock = c THEN {} ELSE skipped

(* ... most often with the store as it is. *)
Leave(c) == Answer(c) /\ UNCHANGED <<record, disk, age, lockFile, history>>

Goto(c, step) == pc' = [pc EXCEPT ![c] = step]

-----------------------------------------------------------------------------
Init ==
    /\ record = [o \in Ops |-> None]
    /\ disk = [o \in Ops |-> None]
    /\ age = [o \in Ops |-> 0]
    /\ lockFile = [o \in Ops |-> None]
    /\ holder = [i \in Inodes |-> None]
    /\ storeLock = None
    /\ skipped = {}
    /\ pc = [c \in Callers |-> "idle"]
    /\ op = [c \in Callers |-> None]
    /\ key = [c \in Callers |-> None]
    /\ seen = [c \in Callers |-> FALSE]
    /\ fd = [c \in Callers |-> None]
    /\ elapsed = [c \in Callers |-> 0]
    /\ document = [c \in Callers |-> None]
    /\ sends = [o \in Ops |-> 0]
    /\ promised = [o \in Ops |-> None]

(* execute: consent and the caller's identity are given; reserve begins. *)
Ask(c) ==
    /\ pc[c] = "idle"
    /\ \E o \in Ops, k \in Keys :
        /\ op' = [op EXCEPT ![c] = o]
        /\ key' = [key EXCEPT ![c] = k]
    /\ Goto(c, "enter")
    /\ UNCHANGED <<store, seen, fd, elapsed, document, history>>

(* locked: the store lock is taken when it is free (and polled until then). *)
TakeStoreLock(c, from, to) ==
    /\ pc[c] = from
    /\ storeLock = None
    /\ storeLock' = c
    /\ Goto(c, to)
    /\ UNCHANGED <<record, disk, age, lockFile, holder, skipped,
                   op, key, seen, fd, elapsed, document, history>>

EnterStore(c) == TakeStoreLock(c, "enter", "read")

(* Any OSError or ValueError in reserve: the store lock timed out, an unreadable
   record, a failed open, write or rename.  Nothing of the store has changed. *)
StoreUnavailable(c) ==
    /\ pc[c] \in InReserve \ {"unlink", "wait"}   \* what unlink and the poll raise is handled
    /\ Leave(c)

(* The record is gone though this call has seen one: receipt_evicted. *)
AnswerEvicted(c) ==
    /\ pc[c] = "read"
    /\ record[op[c]] = None
    /\ seen[c]
    /\ Leave(c)

(* operation_id_reused, or the saved receipt replayed. *)
AnswerFromRecord(c) ==
    /\ pc[c] = "read"
    /\ record[op[c]] # None
    /\ record[op[c]].key # key[c] \/ record[op[c]].phase = "done"
    /\ Leave(c)

(* No record and none seen: admission. *)
StartAdmission(c) ==
    /\ pc[c] = "read"
    /\ record[op[c]] = None
    /\ ~seen[c]
    /\ Goto(c, "room")
    /\ UNCHANGED <<store, op, key, seen, fd, elapsed, document, history>>

(* An intent of this very request.  A waiter that holds the current lock file
   knows that its owner is gone; a lock on an obsolete inode is closed. *)
SeeIntent(c) ==
    /\ pc[c] = "read"
    /\ record[op[c]] # None
    /\ record[op[c]].key = key[c]
    /\ record[op[c]].phase = "intent"
    /\ seen' = [seen EXCEPT ![c] = TRUE]
    /\ IF fd[c] # None /\ LockIsCurrent(c)
       THEN Goto(c, "settle") /\ UNCHANGED <<fd, holder>>
       ELSE /\ Goto(c, "probe")
            /\ fd' = [fd EXCEPT ![c] = None]
            /\ holder' = Released(c)
    /\ UNCHANGED <<record, disk, age, lockFile, storeLock, skipped, op, key, elapsed, document, history>>

(* The probe: an intent whose lock nobody holds is an orphan. *)
Probe(c) ==
    /\ pc[c] = "probe"
    /\ \E i \in Inodes :
        /\ OwnerLock(op[c], i)
        /\ IF Free(i)
           THEN Goto(c, "settle") /\ UNCHANGED storeLock
           ELSE Goto(c, "open") /\ storeLock' = None
    /\ UNCHANGED <<record, disk, age, holder, skipped,
                   op, key, seen, fd, elapsed, document, history>>

(* The dispatcher died: its intent becomes a saved `interrupted` receipt. *)
SettleOrphan(c) ==
    /\ pc[c] = "settle"
    /\ \E synced \in BOOLEAN :
        /\ Write(op[c], Done(record[op[c]].key, "interrupted"), synced)
        /\ promised' = IF synced THEN [promised EXCEPT ![op[c]] = "interrupted"] ELSE promised
    /\ Answer(c)
    /\ UNCHANGED <<lockFile, sends>>

(* Outside the store lock: open the lock file to wait for its owner. *)
OpenWaiting(c) ==
    /\ pc[c] = "open"
    /\ \E i \in Inodes :
        /\ OwnerLock(op[c], i)
        /\ fd' = [fd EXCEPT ![c] = i]
    /\ Goto(c, "wait")
    /\ UNCHANGED <<record, disk, age, holder, storeLock, skipped,
                   op, key, seen, elapsed, document, history>>

(* Before the deadline the waiter may win the flock; it keeps it and looks again. *)
WinOwner(c) ==
    /\ pc[c] = "wait"
    /\ elapsed[c] < WaitForOwner
    /\ Free(fd[c])
    /\ Flocked(fd[c], c)
    /\ Goto(c, "enter")
    /\ UNCHANGED <<record, disk, age, lockFile, storeLock, skipped,
                   op, key, seen, fd, elapsed, document, history>>

(* Mutant of GiveUpWaiting: the deadline is never reached. *)
WaitPastDeadline(c) ==
    /\ pc[c] = "wait"
    /\ elapsed[c] > WaitForOwner
    /\ Leave(c)

(* in_progress *)
GiveUpWaiting(c) ==
    /\ pc[c] = "wait"
    /\ elapsed[c] >= WaitForOwner
    /\ Leave(c)

-----------------------------------------------------------------------------
(* make_room, oldest record first, one record at a time. *)
Oldest(o) == /\ o \in Records \ skipped
             /\ \A p \in Records \ skipped : age[p] <= age[o]

MayExamine(c, o) == /\ pc[c] = "room"
                    /\ Full
                    /\ Oldest(o)

(* The lock of a record that makes room is taken first when it exists. *)
LockIsBusy(o) == lockFile[o] # None /\ ~Free(lockFile[o])

SkipRecord(c, o) ==
    /\ MayExamine(c, o)
    /\ ~Prunable(o) \/ LockIsBusy(o)
    /\ skipped' = skipped \cup {o}
    /\ UNCHANGED <<record, disk, age, lockFile, holder, storeLock, caller, history>>

(* The record is unlinked (no directory fsync here); its lock file is next. *)
PruneRecord(c, o) ==
    /\ MayExamine(c, o)
    /\ Prunable(o)
    /\ ~LockIsBusy(o)
    /\ record' = [record EXCEPT ![o] = None]
    /\ sends' = [sends EXCEPT ![o] = 0]
    /\ promised' = [promised EXCEPT ![o] = None]
    /\ IF lockFile[o] = None
       THEN UNCHANGED <<holder, fd, pc>>
       ELSE /\ Flocked(lockFile[o], c)
            /\ fd' = [fd EXCEPT ![c] = lockFile[o]]
            /\ Goto(c, "unlink")
    /\ UNCHANGED <<disk, age, lockFile, storeLock, skipped, op, key, seen, elapsed, document>>

UnlinkLock(c) ==
    /\ pc[c] = "unlink"
    /\ lockFile' = [o \in Ops |-> IF lockFile[o] = fd[c] THEN None ELSE lockFile[o]]
    /\ holder' = Released(c)
    /\ fd' = [fd EXCEPT ![c] = None]
    /\ Goto(c, "room")
    /\ UNCHANGED <<record, disk, age, storeLock, skipped, op, key, seen, elapsed, document, history>>

(* Lock files nobody holds and that have no record are swept; then the store
   has room or the request is refused with store_full. *)
SweepLocks(c) ==
    /\ pc[c] = "room"
    /\ Full => Records \subseteq skipped
    /\ lockFile' = [o \in Ops |->
                      IF record[o] = None /\ lockFile[o] # None /\ holder[lockFile[o]] = None
                      THEN None ELSE lockFile[o]]
    /\ IF Full
       THEN Answer(c)
       ELSE /\ Goto(c, "own")
            /\ skipped' = {}
            /\ UNCHANGED <<holder, storeLock, op, key, seen, fd, elapsed, document>>
    /\ UNCHANGED <<record, disk, age, history>>

(* The owner lock is taken without waiting. *)
ClaimLock(c) ==
    /\ pc[c] = "own"
    /\ \E i \in Inodes :
        /\ OwnerLock(op[c], i)
        /\ Free(i)
        /\ Flocked(i, c)
        /\ fd' = [fd EXCEPT ![c] = i]
    /\ Goto(c, "intent")
    /\ UNCHANGED <<record, disk, age, storeLock, skipped, op, key, seen, elapsed, document, history>>

(* ... and BlockingIOError when somebody holds it: refused as store_unavailable. *)
ClaimRefused(c) ==
    /\ pc[c] = "own"
    /\ LockIsBusy(op[c])
    /\ Leave(c)

(* Mutant of WriteIntent: the owner's descriptor is closed on the way out of reserve. *)
WriteIntentUnowned(c) ==
    /\ pc[c] = "intent"
    /\ Write(op[c], Intent(key[c]), TRUE)
    /\ Goto(c, "dispatch")
    /\ storeLock' = None
    /\ holder' = Released(c)
    /\ elapsed' = [elapsed EXCEPT ![c] = 0]
    /\ UNCHANGED <<lockFile, skipped, op, key, seen, fd, document, history>>

(* Mutant of WriteIntent: dispatches although the intent may not survive. *)
WriteIntentUnflushed(c) ==
    /\ pc[c] = "intent"
    /\ \E synced \in BOOLEAN : Write(op[c], Intent(key[c]), synced)
    /\ Goto(c, "dispatch")
    /\ storeLock' = None
    /\ elapsed' = [elapsed EXCEPT ![c] = 0]
    /\ UNCHANGED <<lockFile, holder, skipped, op, key, seen, fd, document, history>>

(* The durable intent; when it cannot be made durable it stays visible and the
   request is refused, with nothing dispatched. *)
WriteIntent(c) ==
    /\ pc[c] = "intent"
    /\ Write(op[c], Intent(key[c]), TRUE)
    /\ Goto(c, "dispatch")
    /\ storeLock' = None
    /\ elapsed' = [elapsed EXCEPT ![c] = 0]
    /\ UNCHANGED <<lockFile, holder, skipped, op, key, seen, fd, document, history>>

IntentNotDurable(c) ==
    /\ pc[c] = "intent"
    /\ Write(op[c], Intent(key[c]), FALSE)
    /\ Answer(c)
    /\ UNCHANGED <<lockFile, history>>

-----------------------------------------------------------------------------
(* run_kill: the broker is sent the terminate request ... *)
Send(c) ==
    /\ pc[c] = "dispatch"
    /\ sends' = [sends EXCEPT ![op[c]] = @ + 1]
    /\ Goto(c, "sent")
    /\ UNCHANGED <<store, op, key, seen, fd, elapsed, document, promised>>

(* ... and the outcome is observed; or nothing was sent (refused, not_found, not_sent). *)
ReturnDocument(c) ==
    /\ \/ pc[c] = "dispatch" /\ document' = [document EXCEPT ![c] = "unsent"]
       \/ pc[c] = "sent" /\ \E r \in {"verified_absent", "uncertain"} :
                               document' = [document EXCEPT ![c] = r]
    /\ Goto(c, "finish")
    /\ UNCHANGED <<store, op, key, seen, fd, elapsed, history>>

(* dispatch_failed: an exception, the request may be out, the intent stays. *)
DispatchFails(c) ==
    /\ pc[c] \in {"dispatch", "sent"}
    /\ Goto(c, "close")
    /\ UNCHANGED <<store, op, key, seen, fd, elapsed, document, history>>

EnterSave(c) == TakeStoreLock(c, "finish", "save")

(* The store lock timed out, or the write, unlink or rename failed: the intent stays. *)
SaveFails(c) ==
    /\ pc[c] \in {"finish", "save"}
    /\ storeLock' = IF storeLock = c THEN None ELSE storeLock
    /\ Goto(c, "close")
    /\ UNCHANGED <<record, disk, age, lockFile, holder, skipped,
                   op, key, seen, fd, elapsed, document, history>>

(* A request that was sent leaves a receipt. *)
SaveReceipt(c) ==
    /\ pc[c] = "save"
    /\ document[c] # "unsent"
    /\ \E synced \in BOOLEAN :
        /\ Write(op[c], Done(key[c], document[c]), synced)
        /\ promised' = IF synced THEN [promised EXCEPT ![op[c]] = document[c]] ELSE promised
    /\ storeLock' = None
    /\ Goto(c, "close")
    /\ UNCHANGED <<lockFile, holder, skipped, op, key, seen, fd, elapsed, document, sends>>

(* Mutant of Forget: whatever the dispatch returned. *)
ForgetAlways(c) ==
    /\ pc[c] = "save"
    /\ record' = [record EXCEPT ![op[c]] = None]
    /\ \E synced \in BOOLEAN : disk' = IF synced THEN record' ELSE disk
    /\ storeLock' = None
    /\ Goto(c, "close")
    /\ UNCHANGED <<age, lockFile, holder, skipped, op, key, seen, fd, elapsed, document, history>>

(* One that sent nothing is forgotten, so that the same id can be tried again. *)
Forget(c) ==
    /\ pc[c] = "save"
    /\ document[c] = "unsent"
    /\ record' = [record EXCEPT ![op[c]] = None]
    /\ \E synced \in BOOLEAN : disk' = IF synced THEN record' ELSE disk
    /\ storeLock' = None
    /\ Goto(c, "close")
    /\ UNCHANGED <<age, lockFile, holder, skipped, op, key, seen, fd, elapsed, document, history>>

(* finally: os.close(owner), then the answer. *)
CloseOwner(c) ==
    /\ pc[c] = "close"
    /\ Leave(c)

-----------------------------------------------------------------------------
(* The process dies; the kernel closes its descriptors. *)
Crash(c) ==
    /\ pc[c] # "idle"
    /\ Leave(c)

(* The machine stops: each directory entry that was not flushed is as it was
   on disk or as it was seen.  Lock files are as they were, and unlocked. *)
PowerLoss ==
    /\ PowerMayFail
    /\ record' \in [Ops -> {record[o] : o \in Ops} \cup {disk[o] : o \in Ops}]
    /\ \A o \in Ops : record'[o] \in {record[o], disk[o]}
    /\ disk' = record'
    /\ holder' = [i \in Inodes |-> None]
    /\ storeLock' = None
    /\ skipped' = {}
    /\ pc' = [c \in Callers |-> "idle"]
    /\ op' = [c \in Callers |-> None]
    /\ key' = [c \in Callers |-> None]
    /\ seen' = [c \in Callers |-> FALSE]
    /\ fd' = [c \in Callers |-> None]
    /\ elapsed' = [c \in Callers |-> 0]
    /\ document' = [c \in Callers |-> None]
    /\ UNCHANGED <<age, lockFile, history>>

(* Time passes, up to the bounds beyond which no comparison changes. *)
Capped(n, bound) == IF n < bound THEN n + 1 ELSE n

Tick ==
    /\ age' = [o \in Ops |-> IF record[o] = None /\ disk[o] = None
                             THEN age[o] ELSE Capped(age[o], UncertainTtl + 1)]
    /\ elapsed' = [c \in Callers |-> IF pc[c] \in InReserve
                                     THEN Capped(elapsed[c], WaitForOwner) ELSE elapsed[c]]
    /\ UNCHANGED <<record, disk, lockFile, holder, storeLock, skipped,
                   pc, op, key, seen, fd, document, history>>

Progress(c) ==
    \/ EnterStore(c) \/ StoreUnavailable(c)
    \/ AnswerEvicted(c) \/ AnswerFromRecord(c) \/ StartAdmission(c) \/ SeeIntent(c)
    \/ Probe(c) \/ SettleOrphan(c) \/ OpenWaiting(c) \/ WinOwner(c) \/ GiveUpWaiting(c)
    \/ \E o \in Ops : SkipRecord(c, o) \/ PruneRecord(c, o)
    \/ UnlinkLock(c) \/ SweepLocks(c) \/ ClaimLock(c) \/ ClaimRefused(c)
    \/ WriteIntent(c) \/ IntentNotDurable(c)
    \/ Send(c) \/ ReturnDocument(c) \/ DispatchFails(c)
    \/ EnterSave(c) \/ SaveFails(c) \/ SaveReceipt(c) \/ Forget(c) \/ CloseOwner(c)

Next == \/ \E c \in Callers : Ask(c) \/ Progress(c) \/ Crash(c)
        \/ PowerLoss
        \/ Tick

Spec == Init /\ [][Next]_vars

(* A live process keeps executing, and the clock keeps running. *)
FairSpec == /\ Spec
            /\ \A c \in Callers : WF_vars(Progress(c))
            /\ WF_vars(Tick)
-----------------------------------------------------------------------------
(* Types. *)
TypeOK ==
    /\ record \in [Ops -> Record \cup {None}]
    /\ disk \in [Ops -> Record \cup {None}]
    /\ age \in [Ops -> 0 .. (UncertainTtl + 1)]
    /\ lockFile \in [Ops -> Inodes \cup {None}]
    /\ holder \in [Inodes -> Callers \cup {None}]
    /\ storeLock \in Callers \cup {None}
    /\ skipped \subseteq Ops
    /\ pc \in [Callers -> Steps]
    /\ op \in [Callers -> Ops \cup {None}]
    /\ key \in [Callers -> Keys \cup {None}]
    /\ seen \in [Callers -> BOOLEAN]
    /\ fd \in [Callers -> Inodes \cup {None}]
    /\ elapsed \in [Callers -> 0 .. WaitForOwner]
    /\ document \in [Callers -> Receipts \cup {"unsent", None}]
    /\ sends \in [Ops -> Nat]
    /\ promised \in [Ops -> Receipts \cup {None}]

(* While a process dispatches an operation, the record is its intent and it
   holds the flock of the file the lock path names: no orphan recovery, prune,
   sweep or forget of another process can take the operation from it (reserve,
   make_room, lock_is_current). *)
OwnerGuardsIntent ==
    \A c \in Callers :
        pc[c] \in Dispatching =>
            /\ record[op[c]] = Intent(key[c])
            /\ lockFile[op[c]] = fd[c]
            /\ holder[fd[c]] = c

(* Between two moments at which the operation was free to be tried, at most one
   terminate request is sent for it, whatever callers wait, retry, time out or
   die (reserve: "a caller that has seen a record for the id never dispatches it"). *)
AtMostOnce == \A o \in Ops : sends[o] <= 1

(* A terminate request that may have gone out has left a record, both for the
   next reader and for the reader after the machine stopped (execute: "the
   intent is on disk before this runs"). *)
EvidenceSurvives ==
    \A o \in Ops : sends[o] > 0 => record[o] # None /\ disk[o] # None

(* A receipt saved without DurabilityError is what every later call replays
   until it is pruned, also after the machine stopped. *)
PromiseKept ==
    \A o \in Ops : promised[o] # None =>
        /\ record[o] # None /\ record[o].receipt = promised[o]
        /\ disk[o] # None /\ disk[o].receipt = promised[o]

(* An intent is written only where there is room for it: the count make_room took
   still holds then, and the store stays within STORE_LIMIT. *)
RoomBeforeIntent ==
    [][\A c \in Callers :
          WriteIntent(c) \/ IntentNotDurable(c) => Cardinality(Records') <= StoreLimit]_vars

(* A call that saw its operation in progress and still waits for it, or has
   just won its lock. *)
AwaitsReceipt(c, o) ==
    /\ op[c] = o
    /\ seen[c]
    /\ \/ pc[c] \in {"open", "wait"} /\ elapsed[c] < WaitForOwner
       \/ pc[c] \in {"enter", "read"} /\ fd[c] = lockFile[o]

(* Making room never takes a receipt from a caller that waits for it
   (RECENT_RECEIPT: "a caller that saw the operation in progress finds its
   receipt when it looks again"); only the machine's stop ends both. *)
ReceiptKeptForWaiters ==
    [][\A o \in Ops, c \in Callers :
          /\ record[o] # None /\ record[o].phase = "done" /\ record'[o] = None
          /\ AwaitsReceipt(c, o)
          => op'[c] # o]_vars

(* Only the process that holds an unresolved intent removes it or saves another
   receipt than `interrupted`, and nobody declares it interrupted while that
   process is alive (prunable, forget, reserve's orphan path). *)
IntentEndsByItsOwner ==
    [][\A o \in Ops, c \in Callers :
          /\ record[o] # None /\ record[o].phase = "intent" /\ record'[o] # record[o]
          /\ pc[c] \in Dispatching /\ op[c] = o
          => pc'[c] # pc[c]]_vars

(* Every call is answered: no waiter, store-lock poller or admission waits for
   ever, since every wait has a deadline. *)
EveryCallAnswered == \A c \in Callers : pc[c] # "idle" ~> pc[c] = "idle"

(* reserve's comment on the owner lock of an operation without a record:
   "nobody can hold it: no record". *)
NobodyHoldsWithoutRecord ==
    \A c \in Callers : pc[c] = "own" => ~LockIsBusy(op[c])

-----------------------------------------------------------------------------
(* A live process dispatches the operation. *)
Claimed(o) == \E c \in Callers : op[c] = o /\ pc[c] \in Dispatching

(* What the store promises, operation by operation (TerminateOnce). *)
Life(o) == IF record[o] = None THEN "free"
           ELSE IF record[o].phase = "done" THEN IF sends[o] > 0 THEN "closed" ELSE "settled"
           ELSE IF sends[o] > 0 THEN "out"
           ELSE IF Claimed(o) THEN "claimed"
           ELSE "abandoned"

lives == [o \in Ops |-> Life(o)]

Promise == INSTANCE TerminateOnce WITH life <- lives

(* The store, with its waiters, recovery, pruning and failures, implements
   TerminateOnce: only the one live process that claimed an operation sends its
   request, and no crash makes an operation whose request is out free or claimed. *)
ImplementsTerminateOnce == Promise!Spec

-----------------------------------------------------------------------------
(* The inductive invariant behind OwnerGuardsIntent, AtMostOnce, EvidenceSurvives,
   PromiseKept and the refinement, in parts: who holds which lock, ... *)
LockInv ==
    /\ \A c \in Callers : pc[c] \in UnderStoreLock <=> storeLock = c
    /\ \A i \in Inodes : holder[i] # None => fd[holder[i]] = i

(* ... what a call has open at each step, ... *)
CallInv ==
    \A c \in Callers :
        /\ pc[c] # "idle" => op[c] \in Ops /\ key[c] \in Keys
        /\ pc[c] \in {"idle", "probe", "room", "own", "open"} => fd[c] = None
        /\ pc[c] \in {"probe", "settle", "open", "wait"} => seen[c]
        /\ pc[c] \in {"room", "unlink", "own", "intent"} \cup Dispatching => ~seen[c]
        /\ pc[c] \in {"enter", "read"} /\ ~seen[c] => fd[c] = None
        /\ pc[c] \in {"enter", "read"} /\ fd[c] # None => holder[fd[c]] = c
        /\ pc[c] = "wait" => fd[c] \in Inodes
        /\ pc[c] \in {"unlink", "intent"} => fd[c] \in Inodes /\ holder[fd[c]] = c
        /\ pc[c] \in {"finish", "save"} => document[c] \in {"unsent", "verified_absent", "uncertain"}

(* ... what it knows of its record there, ... *)
RecordInv ==
    \A c \in Callers :
        /\ pc[c] \in {"room", "unlink", "own", "intent"} => record[op[c]] = None
        /\ pc[c] = "intent" => lockFile[op[c]] = fd[c]
        /\ pc[c] \in {"probe", "settle"} => record[op[c]] = Intent(key[c])
        /\ pc[c] = "settle" => \A d \in Callers : pc[d] \in Dispatching => op[d] # op[c]
        /\ pc[c] \in Dispatching => disk[op[c]] # None /\ fd[c] \in Inodes

(* ... that the room it made is still there, ... *)
RoomInv == \A c \in Callers : pc[c] \in {"own", "intent"} => ~Full

(* ... that a receipt is younger than the wait of those who wait for it, ... *)
WaitInv ==
    \A c \in Callers :
        /\ pc[c] = "idle" => ~seen[c]
        /\ pc[c] \in {"enter", "read"} /\ seen[c] => fd[c] \in Inodes
        /\ pc[c] \in {"open", "wait"} /\ record[op[c]] # None /\ record[op[c]].phase = "done"
           => age[op[c]] <= elapsed[c] \/ elapsed[c] >= WaitForOwner

(* ... that an intent which is dispatched, or was, is on disk as it is, ... *)
DiskInv ==
    \A o \in Ops :
        /\ record[o] # None /\ record[o].phase = "intent"
        /\ sends[o] > 0 \/ Claimed(o)
        => disk[o] = record[o]

(* ... and which requests are out. *)
SendInv ==
    \A c \in Callers :
        /\ pc[c] = "dispatch" => sends[op[c]] = 0
        /\ pc[c] \in {"finish", "save"} /\ document[c] = "unsent" => sends[op[c]] = 0

IInv == /\ TypeOK /\ LockInv /\ CallInv /\ RecordInv /\ OwnerGuardsIntent /\ RoomInv
        /\ WaitInv /\ DiskInv /\ SendInv /\ AtMostOnce /\ EvidenceSurvives /\ PromiseKept
=============================================================================
