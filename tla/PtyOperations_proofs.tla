------------------------ MODULE PtyOperations_proofs ------------------------
(***************************************************************************)
(* Proofs about the operation store, for every set of callers, operations, *)
(* fingerprints and inodes and every value of the bounds.  The inductive   *)
(* invariant is IInv of PtyOperations; each of the lemmas below proves     *)
(* that one part of it is preserved, action by action.                     *)
(***************************************************************************)
EXTENDS PtyOperations, FiniteSetTheorems, TLAPS

(* Store.write: what the replaced record and the directory fsync change. *)
LEMMA WriteEffect ==
    ASSUME TypeOK, NEW o \in Ops, NEW r, NEW synced \in BOOLEAN, Write(o, r, synced)
    PROVE  /\ record' = [record EXCEPT ![o] = r]
           /\ record'[o] = r
           /\ \A p \in Ops : p # o => record'[p] = record[p]
           /\ \A p \in Ops : disk'[p] = disk[p] \/ disk'[p] = record'[p]
           /\ synced => disk' = record'
           /\ age' = [age EXCEPT ![o] = 0]
           /\ disk' \in {disk, record'}
  BY DEF Write, TypeOK

(* Receipts and intents are records, and nothing else is None. *)
LEMMA RecordTypes ==
    /\ \A k \in Keys : Intent(k) \in Record /\ Intent(k).phase = "intent" /\ Intent(k).key = k
                        /\ Intent(k).receipt = None
    /\ \A k \in Keys, r \in Receipts : Done(k, r) \in Record /\ Done(k, r).phase = "done"
                        /\ Done(k, r).receipt = r /\ Done(k,r) # None
    /\ \A r \in Record : r.phase = "intent" => r = Intent(r.key)
    /\ None \notin Record
  BY OperationsAssumption DEF Intent, Done, Record

(* Every step preserves the types of the store and of the calls. *)
LEMMA TypeStep == ASSUME IInv, [Next]_vars PROVE TypeOK'
<1> USE OperationsAssumption DEF Goto, store, caller, history, InReserve, Dispatching, UnderStoreLock, IInv, TypeOK, Steps, LockInv, CallInv, RecordInv, OwnerGuardsIntent
<1>1. ASSUME NEW c \in Callers, Leave(c) PROVE TypeOK'
  BY <1>1 DEF Leave, Answer, Released
<1>2. ASSUME NEW c \in Callers, Ask(c) PROVE TypeOK'
  BY <1>2 DEF Ask
<1>3. ASSUME NEW c \in Callers, EnterStore(c) PROVE TypeOK'
  BY <1>3 DEF EnterStore, TakeStoreLock
<1>4. ASSUME NEW c \in Callers, StartAdmission(c) PROVE TypeOK'
  BY <1>4 DEF StartAdmission
<1>5. ASSUME NEW c \in Callers, SeeIntent(c) PROVE TypeOK'
  BY <1>5 DEF SeeIntent, Released, LockIsCurrent
<1>6. ASSUME NEW c \in Callers, Probe(c) PROVE TypeOK'
  BY <1>6 DEF Probe, OwnerLock, Unused, Free
<1>7. ASSUME NEW c \in Callers, SettleOrphan(c) PROVE TypeOK'
  <2>1. PICK synced \in BOOLEAN : Write(op[c], Done(record[op[c]].key, "interrupted"), synced)
              /\ promised' = IF synced THEN [promised EXCEPT ![op[c]] = "interrupted"] ELSE promised
    BY <1>7 DEF SettleOrphan
  <2>2. op[c] \in Ops /\ key[c] \in Keys /\ record[op[c]] = Intent(key[c])
    BY <1>7 DEF SettleOrphan
  <2>3. "interrupted" \in Receipts
    BY DEF Receipts
  <2>4. Done(record[op[c]].key, "interrupted") \in Record /\ Done(record[op[c]].key, "interrupted") # None
           /\ Done(record[op[c]].key, "interrupted").receipt = "interrupted"
    BY <2>2, <2>3, RecordTypes
  <2>5. Answer(c) /\ UNCHANGED <<lockFile, sends>>
    BY <1>7 DEF SettleOrphan
  <2>6. /\ record' \in [Ops -> Record \cup {None}]
        /\ disk' \in [Ops -> Record \cup {None}]
        /\ age' \in [Ops -> 0 .. (UncertainTtl + 1)]
    BY <2>1, <2>2, <2>4, WriteEffect
  <2>7. promised' \in [Ops -> Receipts \cup {None}]
    BY <2>1, <2>2, <2>3
  <2> QED
    BY <2>5, <2>6, <2>7 DEF Answer, Released
<1>8. ASSUME NEW c \in Callers, OpenWaiting(c) PROVE TypeOK'
  BY <1>8 DEF OpenWaiting, OwnerLock, Unused
<1>9. ASSUME NEW c \in Callers, WinOwner(c) PROVE TypeOK'
  BY <1>9 DEF WinOwner, Flocked, Free
<1>10. ASSUME NEW c \in Callers, NEW o \in Ops, SkipRecord(c, o) PROVE TypeOK'
  BY <1>10 DEF SkipRecord, MayExamine, Oldest, Records
<1>11. ASSUME NEW c \in Callers, NEW o \in Ops, PruneRecord(c, o) PROVE TypeOK'
  BY <1>11 DEF PruneRecord, MayExamine, Oldest, Records, Flocked, LockIsBusy, Free, Prunable
<1>12. ASSUME NEW c \in Callers, UnlinkLock(c) PROVE TypeOK'
  BY <1>12 DEF UnlinkLock, Released
<1>13. ASSUME NEW c \in Callers, SweepLocks(c) PROVE TypeOK'
  <2>1. lockFile' \in [Ops -> Inodes \cup {None}]
    BY <1>13 DEF SweepLocks
  <2>2. CASE Answer(c)
    <3>1. UNCHANGED <<record, disk, age, history>>
      BY <1>13 DEF SweepLocks
    <3> QED
      BY <2>1, <2>2, <3>1 DEF Answer, Released
  <2>3. CASE ~Full
    BY <1>13, <2>1, <2>3 DEF SweepLocks
  <2> QED
    BY <1>13, <2>2, <2>3 DEF SweepLocks
<1>14. ASSUME NEW c \in Callers, ClaimLock(c) PROVE TypeOK'
  BY <1>14 DEF ClaimLock, OwnerLock, Unused, Free, Flocked
<1>15. ASSUME NEW c \in Callers, WriteIntent(c) PROVE TypeOK'
  BY <1>15 DEF WriteIntent, Write, Intent, Record
<1>16. ASSUME NEW c \in Callers, IntentNotDurable(c) PROVE TypeOK'
  BY <1>16 DEF IntentNotDurable, Write, Intent, Answer, Released, Record
<1>17. ASSUME NEW c \in Callers, Send(c) PROVE TypeOK'
  BY <1>17 DEF Send
<1>18. ASSUME NEW c \in Callers, ReturnDocument(c) PROVE TypeOK'
  BY <1>18 DEF ReturnDocument, Receipts
<1>19. ASSUME NEW c \in Callers, DispatchFails(c) PROVE TypeOK'
  BY <1>19 DEF DispatchFails
<1>20. ASSUME NEW c \in Callers, EnterSave(c) PROVE TypeOK'
  BY <1>20 DEF EnterSave, TakeStoreLock
<1>21. ASSUME NEW c \in Callers, SaveFails(c) PROVE TypeOK'
  BY <1>21 DEF SaveFails
<1>22. ASSUME NEW c \in Callers, SaveReceipt(c) PROVE TypeOK'
  <2>1. PICK synced \in BOOLEAN : Write(op[c], Done(key[c], document[c]), synced)
              /\ promised' = IF synced THEN [promised EXCEPT ![op[c]] = document[c]] ELSE promised
    BY <1>22 DEF SaveReceipt
  <2>2. op[c] \in Ops /\ key[c] \in Keys /\ record[op[c]] = Intent(key[c])
    BY <1>22 DEF SaveReceipt
  <2>3. document[c] \in Receipts
    BY <1>22 DEF SaveReceipt, Receipts
  <2>4. Done(key[c], document[c]) \in Record /\ Done(key[c], document[c]) # None
           /\ Done(key[c], document[c]).receipt = document[c]
    BY <2>2, <2>3, RecordTypes
  <2> HIDE DEF Intent
  <2>5. /\ record' = [record EXCEPT ![op[c]] = Done(key[c], document[c])]
        /\ disk' \in {disk, record'}
        /\ age' = [age EXCEPT ![op[c]] = 0]
    BY <2>1, <2>2, WriteEffect
  <2>6. /\ record' \in [Ops -> Record \cup {None}]
        /\ disk' \in [Ops -> Record \cup {None}]
    BY <2>2, <2>4, <2>5
  <2>7. age' \in [Ops -> 0 .. (UncertainTtl + 1)]
    BY <2>2, <2>5
  <2>8. promised' \in [Ops -> Receipts \cup {None}]
    BY <2>1, <2>2, <2>3
  <2> QED
    BY <1>22, <2>6, <2>7, <2>8 DEF SaveReceipt
<1>23. ASSUME NEW c \in Callers, Forget(c) PROVE TypeOK'
  <2>1. disk' \in {disk, record'}
    BY <1>23 DEF Forget
  <2>2. \A d \in Callers : d # c /\ pc[d] \in Dispatching => op[d] # op[c]
    BY <1>23 DEF Forget
  <2> QED
    BY <1>23, <2>1, <2>2 DEF Forget
<1>24. CASE PowerLoss
  <2>1. /\ record' \in [Ops -> Record \cup {None}]
        /\ disk' \in [Ops -> Record \cup {None}]
    <3>1. /\ record' \in [Ops -> {record[o] : o \in Ops} \cup {disk[o] : o \in Ops}]
          /\ disk' = record'
      BY <1>24 DEF PowerLoss
    <3>2. {record[o] : o \in Ops} \cup {disk[o] : o \in Ops} \subseteq Record \cup {None}
      OBVIOUS
    <3> QED
      BY <3>1, <3>2
  <2>2. /\ op' \in [Callers -> Ops \cup {None}]
        /\ key' \in [Callers -> Keys \cup {None}]
        /\ seen' \in [Callers -> BOOLEAN]
        /\ fd' \in [Callers -> Inodes \cup {None}]
        /\ document' \in [Callers -> Receipts \cup {"unsent", None}]
    BY <1>24 DEF PowerLoss
  <2>3. pc' \in [Callers -> Steps] /\ elapsed' \in [Callers -> 0 .. WaitForOwner]
    BY <1>24 DEF PowerLoss
  <2>4. holder' \in [Inodes -> Callers \cup {None}] /\ storeLock' \in Callers \cup {None} /\ skipped' \subseteq Ops
    BY <1>24 DEF PowerLoss
  <2> QED
    BY <1>24, <2>1, <2>2, <2>3, <2>4 DEF PowerLoss
<1>25. CASE Tick
  BY <1>25 DEF Tick, Capped, RecentReceipt
<1>26. CASE UNCHANGED vars
  BY <1>26 DEF vars
<1> QED
  BY <1>1, <1>2, <1>3, <1>4, <1>5, <1>6, <1>7, <1>8, <1>9, <1>10, <1>11, <1>12, <1>13, <1>14, <1>15, <1>16, <1>17, <1>18, <1>19, <1>20, <1>21, <1>22, <1>23, <1>24, <1>25, <1>26
  DEF Next, Progress, StoreUnavailable, AnswerEvicted, AnswerFromRecord,
      GiveUpWaiting, ClaimRefused, CloseOwner, Crash

(* Every step preserves who holds the store lock and which descriptor a flock belongs to. *)
LEMMA LockStep == ASSUME IInv, [Next]_vars PROVE LockInv'
<1> USE OperationsAssumption DEF Goto, store, caller, history, InReserve, Dispatching, UnderStoreLock, IInv, TypeOK, Steps, LockInv, CallInv
<1>1. ASSUME NEW c \in Callers, Leave(c) PROVE LockInv'
  BY <1>1 DEF Leave, Answer, Released
<1>2. ASSUME NEW c \in Callers, Ask(c) PROVE LockInv'
  BY <1>2 DEF Ask
<1>3. ASSUME NEW c \in Callers, EnterStore(c) PROVE LockInv'
  BY <1>3 DEF EnterStore, TakeStoreLock
<1>4. ASSUME NEW c \in Callers, StartAdmission(c) PROVE LockInv'
  BY <1>4 DEF StartAdmission
<1>5. ASSUME NEW c \in Callers, SeeIntent(c) PROVE LockInv'
  BY <1>5 DEF SeeIntent, Released, LockIsCurrent
<1>6. ASSUME NEW c \in Callers, Probe(c) PROVE LockInv'
  BY <1>6 DEF Probe, OwnerLock, Unused, Free
<1>7. ASSUME NEW c \in Callers, SettleOrphan(c) PROVE LockInv'
  BY <1>7 DEF SettleOrphan, Answer, Released, Write
<1>8. ASSUME NEW c \in Callers, OpenWaiting(c) PROVE LockInv'
  BY <1>8 DEF OpenWaiting, OwnerLock, Unused
<1>9. ASSUME NEW c \in Callers, WinOwner(c) PROVE LockInv'
  BY <1>9 DEF WinOwner, Flocked, Free
<1>10. ASSUME NEW c \in Callers, NEW o \in Ops, SkipRecord(c, o) PROVE LockInv'
  BY <1>10 DEF SkipRecord, MayExamine, Oldest, Records
<1>11. ASSUME NEW c \in Callers, NEW o \in Ops, PruneRecord(c, o) PROVE LockInv'
  BY <1>11 DEF PruneRecord, MayExamine, Oldest, Records, Flocked, LockIsBusy, Free, Prunable
<1>12. ASSUME NEW c \in Callers, UnlinkLock(c) PROVE LockInv'
  BY <1>12 DEF UnlinkLock, Released
<1>13. ASSUME NEW c \in Callers, SweepLocks(c) PROVE LockInv'
  BY <1>13 DEF SweepLocks, Answer, Released
<1>14. ASSUME NEW c \in Callers, ClaimLock(c) PROVE LockInv'
  BY <1>14 DEF ClaimLock, OwnerLock, Unused, Free, Flocked
<1>15. ASSUME NEW c \in Callers, WriteIntent(c) PROVE LockInv'
  BY <1>15 DEF WriteIntent, Write, Intent
<1>16. ASSUME NEW c \in Callers, IntentNotDurable(c) PROVE LockInv'
  BY <1>16 DEF IntentNotDurable, Write, Intent, Answer, Released
<1>17. ASSUME NEW c \in Callers, Send(c) PROVE LockInv'
  BY <1>17 DEF Send
<1>18. ASSUME NEW c \in Callers, ReturnDocument(c) PROVE LockInv'
  BY <1>18 DEF ReturnDocument
<1>19. ASSUME NEW c \in Callers, DispatchFails(c) PROVE LockInv'
  BY <1>19 DEF DispatchFails
<1>20. ASSUME NEW c \in Callers, EnterSave(c) PROVE LockInv'
  BY <1>20 DEF EnterSave, TakeStoreLock
<1>21. ASSUME NEW c \in Callers, SaveFails(c) PROVE LockInv'
  BY <1>21 DEF SaveFails
<1>22. ASSUME NEW c \in Callers, SaveReceipt(c) PROVE LockInv'
  BY <1>22 DEF SaveReceipt, Write
<1>23. ASSUME NEW c \in Callers, Forget(c) PROVE LockInv'
  BY <1>23 DEF Forget
<1>24. CASE PowerLoss
  BY <1>24 DEF PowerLoss
<1>25. CASE Tick
  BY <1>25 DEF Tick, Capped, RecentReceipt
<1>26. CASE UNCHANGED vars
  BY <1>26 DEF vars
<1> QED
  BY <1>1, <1>2, <1>3, <1>4, <1>5, <1>6, <1>7, <1>8, <1>9, <1>10, <1>11, <1>12, <1>13, <1>14, <1>15, <1>16, <1>17, <1>18, <1>19, <1>20, <1>21, <1>22, <1>23, <1>24, <1>25, <1>26
  DEF Next, Progress, StoreUnavailable, AnswerEvicted, AnswerFromRecord,
      GiveUpWaiting, ClaimRefused, CloseOwner, Crash

(* Every step preserves what a call has open and whether it has seen a record. *)
LEMMA CallStep == ASSUME IInv, [Next]_vars PROVE CallInv'
<1> USE OperationsAssumption DEF Goto, store, caller, history, InReserve, Dispatching, UnderStoreLock, IInv, TypeOK, Steps, LockInv, CallInv
<1>1. ASSUME NEW c \in Callers, Leave(c) PROVE CallInv'
  BY <1>1 DEF Leave, Answer, Released
<1>2. ASSUME NEW c \in Callers, Ask(c) PROVE CallInv'
  BY <1>2 DEF Ask
<1>3. ASSUME NEW c \in Callers, EnterStore(c) PROVE CallInv'
  BY <1>3 DEF EnterStore, TakeStoreLock
<1>4. ASSUME NEW c \in Callers, StartAdmission(c) PROVE CallInv'
  BY <1>4 DEF StartAdmission
<1>5. ASSUME NEW c \in Callers, SeeIntent(c) PROVE CallInv'
  BY <1>5 DEF SeeIntent, Released, LockIsCurrent
<1>6. ASSUME NEW c \in Callers, Probe(c) PROVE CallInv'
  BY <1>6 DEF Probe, OwnerLock, Unused, Free
<1>7. ASSUME NEW c \in Callers, SettleOrphan(c) PROVE CallInv'
  BY <1>7 DEF SettleOrphan, Answer, Released
<1>8. ASSUME NEW c \in Callers, OpenWaiting(c) PROVE CallInv'
  BY <1>8 DEF OpenWaiting, OwnerLock, Unused
<1>9. ASSUME NEW c \in Callers, WinOwner(c) PROVE CallInv'
  BY <1>9 DEF WinOwner, Flocked, Free
<1>10. ASSUME NEW c \in Callers, NEW o \in Ops, SkipRecord(c, o) PROVE CallInv'
  BY <1>10 DEF SkipRecord, MayExamine, Oldest, Records
<1>11. ASSUME NEW c \in Callers, NEW o \in Ops, PruneRecord(c, o) PROVE CallInv'
  BY <1>11 DEF PruneRecord, MayExamine, Oldest, Records, Flocked, LockIsBusy, Free, Prunable
<1>12. ASSUME NEW c \in Callers, UnlinkLock(c) PROVE CallInv'
  BY <1>12 DEF UnlinkLock, Released
<1>13. ASSUME NEW c \in Callers, SweepLocks(c) PROVE CallInv'
  BY <1>13 DEF SweepLocks, Answer, Released
<1>14. ASSUME NEW c \in Callers, ClaimLock(c) PROVE CallInv'
  BY <1>14 DEF ClaimLock, OwnerLock, Unused, Free, Flocked
<1>15. ASSUME NEW c \in Callers, WriteIntent(c) PROVE CallInv'
  BY <1>15 DEF WriteIntent, Write, Intent
<1>16. ASSUME NEW c \in Callers, IntentNotDurable(c) PROVE CallInv'
  BY <1>16 DEF IntentNotDurable, Write, Intent, Answer, Released
<1>17. ASSUME NEW c \in Callers, Send(c) PROVE CallInv'
  BY <1>17 DEF Send
<1>18. ASSUME NEW c \in Callers, ReturnDocument(c) PROVE CallInv'
  BY <1>18 DEF ReturnDocument
<1>19. ASSUME NEW c \in Callers, DispatchFails(c) PROVE CallInv'
  BY <1>19 DEF DispatchFails
<1>20. ASSUME NEW c \in Callers, EnterSave(c) PROVE CallInv'
  BY <1>20 DEF EnterSave, TakeStoreLock
<1>21. ASSUME NEW c \in Callers, SaveFails(c) PROVE CallInv'
  BY <1>21 DEF SaveFails
<1>22. ASSUME NEW c \in Callers, SaveReceipt(c) PROVE CallInv'
  BY <1>22 DEF SaveReceipt
<1>23. ASSUME NEW c \in Callers, Forget(c) PROVE CallInv'
  BY <1>23 DEF Forget
<1>24. CASE PowerLoss
  BY <1>24 DEF PowerLoss
<1>25. CASE Tick
  BY <1>25 DEF Tick, Capped, RecentReceipt
<1>26. CASE UNCHANGED vars
  BY <1>26 DEF vars
<1> QED
  BY <1>1, <1>2, <1>3, <1>4, <1>5, <1>6, <1>7, <1>8, <1>9, <1>10, <1>11, <1>12, <1>13, <1>14, <1>15, <1>16, <1>17, <1>18, <1>19, <1>20, <1>21, <1>22, <1>23, <1>24, <1>25, <1>26
  DEF Next, Progress, StoreUnavailable, AnswerEvicted, AnswerFromRecord,
      GiveUpWaiting, ClaimRefused, CloseOwner, Crash

(* Every step preserves what a call knows of its record: none during admission,
   its own intent while it probes, settles or dispatches. *)
LEMMA RecordStep == ASSUME IInv, [Next]_vars PROVE RecordInv'
<1> USE OperationsAssumption DEF Goto, store, caller, history, InReserve, Dispatching, UnderStoreLock, IInv, TypeOK, Steps, LockInv, CallInv, RecordInv, OwnerGuardsIntent
<1>1. ASSUME NEW c \in Callers, Leave(c) PROVE RecordInv'
  BY <1>1 DEF Leave, Answer, Released
<1>2. ASSUME NEW c \in Callers, Ask(c) PROVE RecordInv'
  BY <1>2 DEF Ask
<1>3. ASSUME NEW c \in Callers, EnterStore(c) PROVE RecordInv'
  BY <1>3 DEF EnterStore, TakeStoreLock
<1>4. ASSUME NEW c \in Callers, StartAdmission(c) PROVE RecordInv'
  BY <1>4 DEF StartAdmission
<1>5. ASSUME NEW c \in Callers, SeeIntent(c) PROVE RecordInv'
  <2>1. op[c] \in Ops /\ record[op[c]] = Intent(key[c])
    BY <1>5, RecordTypes DEF SeeIntent
  <2>2. ASSUME fd[c] # None, LockIsCurrent(c), NEW d \in Callers, pc[d] \in Dispatching
        PROVE  op[d] # op[c]
    BY <1>5, <2>2 DEF SeeIntent, LockIsCurrent
  <2> HIDE DEF Intent
  <2> QED
    BY <1>5, <2>1, <2>2 DEF SeeIntent, Released
<1>6. ASSUME NEW c \in Callers, Probe(c) PROVE RecordInv'
  BY <1>6 DEF Probe, OwnerLock, Unused, Free
<1>7. ASSUME NEW c \in Callers, SettleOrphan(c) PROVE RecordInv'
  <2>1. PICK synced \in BOOLEAN : Write(op[c], Done(record[op[c]].key, "interrupted"), synced)
              /\ promised' = IF synced THEN [promised EXCEPT ![op[c]] = "interrupted"] ELSE promised
    BY <1>7 DEF SettleOrphan
  <2>2. op[c] \in Ops /\ key[c] \in Keys /\ record[op[c]] = Intent(key[c])
    BY <1>7 DEF SettleOrphan
  <2>3. "interrupted" \in Receipts
    BY DEF Receipts
  <2>4. Done(record[op[c]].key, "interrupted") \in Record /\ Done(record[op[c]].key, "interrupted") # None
           /\ Done(record[op[c]].key, "interrupted").receipt = "interrupted"
    BY <2>2, <2>3, RecordTypes
  <2>5. \A d \in Callers : d # c => pc[d] \notin UnderStoreLock
    BY <1>7 DEF SettleOrphan
  <2>6. \A d \in Callers : d # c /\ pc[d] \in Dispatching =>
            op[d] # op[c] /\ op[d] \in Ops /\ record[op[d]] # None
    BY <1>7, RecordTypes DEF SettleOrphan
  <2> HIDE DEF Intent
  <2> QED
    BY <1>7, <2>1, <2>2, <2>3, <2>4, WriteEffect, <2>5, <2>6 DEF SettleOrphan, Answer, Released
<1>8. ASSUME NEW c \in Callers, OpenWaiting(c) PROVE RecordInv'
  BY <1>8 DEF OpenWaiting, OwnerLock, Unused
<1>9. ASSUME NEW c \in Callers, WinOwner(c) PROVE RecordInv'
  BY <1>9 DEF WinOwner, Flocked, Free
<1>10. ASSUME NEW c \in Callers, NEW o \in Ops, SkipRecord(c, o) PROVE RecordInv'
  BY <1>10 DEF SkipRecord, MayExamine, Oldest, Records
<1>11. ASSUME NEW c \in Callers, NEW o \in Ops, PruneRecord(c, o) PROVE RecordInv'
  BY <1>11 DEF PruneRecord, MayExamine, Oldest, Records, Flocked, LockIsBusy, Free, Prunable
<1>12. ASSUME NEW c \in Callers, UnlinkLock(c) PROVE RecordInv'
  BY <1>12 DEF UnlinkLock, Released
<1>13. ASSUME NEW c \in Callers, SweepLocks(c) PROVE RecordInv'
  BY <1>13 DEF SweepLocks, Answer, Released
<1>14. ASSUME NEW c \in Callers, ClaimLock(c) PROVE RecordInv'
  BY <1>14 DEF ClaimLock, OwnerLock, Unused, Free, Flocked
<1>15. ASSUME NEW c \in Callers, WriteIntent(c) PROVE RecordInv'
  <2>1. op[c] \in Ops /\ key[c] \in Keys /\ record[op[c]] = None /\ Intent(key[c]) # None
    BY <1>15, RecordTypes DEF WriteIntent
  <2>2. \A d \in Callers : pc[d] \in Dispatching => /\ op[d] # op[c]
                                                   /\ op[d] \in Ops /\ record[op[d]] # None
    BY <2>1, RecordTypes
  <2>3. Write(op[c], Intent(key[c]), TRUE)
    BY <1>15 DEF WriteIntent
  <2>4. \A d \in Callers : d # c => pc[d] \notin UnderStoreLock
    BY <1>15 DEF WriteIntent
  <2>5. /\ disk' = record' /\ record'[op[c]] # None
        /\ \A d \in Callers : pc[d] \in Dispatching => disk'[op[d]] # None
    BY <2>1, <2>2, <2>3 DEF Write
  <2>6. pc' = [pc EXCEPT ![c] = "dispatch"] /\ fd[c] \in Inodes /\ UNCHANGED <<op, fd>>
    BY <1>15 DEF WriteIntent
  <2> HIDE DEF Intent
  <2> QED
    BY <2>1, <2>2, <2>4, <2>5, <2>6
<1>16. ASSUME NEW c \in Callers, IntentNotDurable(c) PROVE RecordInv'
  BY <1>16 DEF IntentNotDurable, Write, Intent, Answer, Released
<1>17. ASSUME NEW c \in Callers, Send(c) PROVE RecordInv'
  BY <1>17 DEF Send
<1>18. ASSUME NEW c \in Callers, ReturnDocument(c) PROVE RecordInv'
  BY <1>18 DEF ReturnDocument
<1>19. ASSUME NEW c \in Callers, DispatchFails(c) PROVE RecordInv'
  BY <1>19 DEF DispatchFails
<1>20. ASSUME NEW c \in Callers, EnterSave(c) PROVE RecordInv'
  BY <1>20 DEF EnterSave, TakeStoreLock
<1>21. ASSUME NEW c \in Callers, SaveFails(c) PROVE RecordInv'
  BY <1>21 DEF SaveFails
<1>22. ASSUME NEW c \in Callers, SaveReceipt(c) PROVE RecordInv'
  <2>1. PICK synced \in BOOLEAN : Write(op[c], Done(key[c], document[c]), synced)
              /\ promised' = IF synced THEN [promised EXCEPT ![op[c]] = document[c]] ELSE promised
    BY <1>22 DEF SaveReceipt
  <2>2. op[c] \in Ops /\ key[c] \in Keys /\ record[op[c]] = Intent(key[c])
    BY <1>22 DEF SaveReceipt
  <2>3. document[c] \in Receipts
    BY <1>22 DEF SaveReceipt, Receipts
  <2>4. Done(key[c], document[c]) \in Record /\ Done(key[c], document[c]) # None
           /\ Done(key[c], document[c]).receipt = document[c]
    BY <2>2, <2>3, RecordTypes
  <2>5. \A d \in Callers : d # c => pc[d] \notin UnderStoreLock
    BY <1>22 DEF SaveReceipt
  <2>6. \A d \in Callers : d # c /\ pc[d] \in Dispatching =>
            op[d] # op[c] /\ op[d] \in Ops /\ record[op[d]] # None
    BY <1>22, RecordTypes DEF SaveReceipt
  <2> HIDE DEF Intent
  <2> QED
    BY <1>22, <2>1, <2>2, <2>3, <2>4, WriteEffect, <2>5, <2>6 DEF SaveReceipt
<1>23. ASSUME NEW c \in Callers, Forget(c) PROVE RecordInv'
  <2>1. disk' \in {disk, record'}
    BY <1>23 DEF Forget
  <2>2. \A d \in Callers : d # c /\ pc[d] \in Dispatching => op[d] # op[c]
    BY <1>23 DEF Forget
  <2>5. \A d \in Callers : d # c => pc[d] \notin UnderStoreLock
    BY <1>23 DEF Forget
  <2>6. \A d \in Callers : d # c /\ pc[d] \in Dispatching =>
            op[d] # op[c] /\ op[d] \in Ops /\ record[op[d]] # None
    BY <1>23, RecordTypes DEF Forget
  <2> QED
    BY <1>23, <2>1, <2>2, <2>5, <2>6 DEF Forget
<1>24. CASE PowerLoss
  BY <1>24 DEF PowerLoss
<1>25. CASE Tick
  BY <1>25 DEF Tick, Capped, RecentReceipt
<1>26. CASE UNCHANGED vars
  BY <1>26 DEF vars
<1> QED
  BY <1>1, <1>2, <1>3, <1>4, <1>5, <1>6, <1>7, <1>8, <1>9, <1>10, <1>11, <1>12, <1>13, <1>14, <1>15, <1>16, <1>17, <1>18, <1>19, <1>20, <1>21, <1>22, <1>23, <1>24, <1>25, <1>26
  DEF Next, Progress, StoreUnavailable, AnswerEvicted, AnswerFromRecord,
      GiveUpWaiting, ClaimRefused, CloseOwner, Crash

(* No step of anyone takes the record or the lock from a process that dispatches. *)
LEMMA OwnerStep == ASSUME IInv, [Next]_vars PROVE OwnerGuardsIntent'
<1> USE OperationsAssumption DEF Goto, store, caller, history, InReserve, Dispatching, UnderStoreLock, IInv, TypeOK, Steps, LockInv, CallInv, RecordInv, OwnerGuardsIntent
<1>1. ASSUME NEW c \in Callers, Leave(c) PROVE OwnerGuardsIntent'
  BY <1>1 DEF Leave, Answer, Released
<1>2. ASSUME NEW c \in Callers, Ask(c) PROVE OwnerGuardsIntent'
  BY <1>2 DEF Ask
<1>3. ASSUME NEW c \in Callers, EnterStore(c) PROVE OwnerGuardsIntent'
  BY <1>3 DEF EnterStore, TakeStoreLock
<1>4. ASSUME NEW c \in Callers, StartAdmission(c) PROVE OwnerGuardsIntent'
  BY <1>4 DEF StartAdmission
<1>5. ASSUME NEW c \in Callers, SeeIntent(c) PROVE OwnerGuardsIntent'
  BY <1>5 DEF SeeIntent, Released, LockIsCurrent
<1>6. ASSUME NEW c \in Callers, Probe(c) PROVE OwnerGuardsIntent'
  BY <1>6 DEF Probe, OwnerLock, Unused, Free
<1>7. ASSUME NEW c \in Callers, SettleOrphan(c) PROVE OwnerGuardsIntent'
  <2>1. PICK synced \in BOOLEAN : Write(op[c], Done(record[op[c]].key, "interrupted"), synced)
              /\ promised' = IF synced THEN [promised EXCEPT ![op[c]] = "interrupted"] ELSE promised
    BY <1>7 DEF SettleOrphan
  <2>2. op[c] \in Ops /\ key[c] \in Keys /\ record[op[c]] = Intent(key[c])
    BY <1>7 DEF SettleOrphan
  <2>3. "interrupted" \in Receipts
    BY DEF Receipts
  <2>4. Done(record[op[c]].key, "interrupted") \in Record /\ Done(record[op[c]].key, "interrupted") # None
           /\ Done(record[op[c]].key, "interrupted").receipt = "interrupted"
    BY <2>2, <2>3, RecordTypes
  <2> HIDE DEF Intent
  <2> QED
    BY <1>7, <2>1, <2>2, <2>3, <2>4, WriteEffect DEF SettleOrphan, Answer, Released
<1>8. ASSUME NEW c \in Callers, OpenWaiting(c) PROVE OwnerGuardsIntent'
  BY <1>8 DEF OpenWaiting, OwnerLock, Unused
<1>9. ASSUME NEW c \in Callers, WinOwner(c) PROVE OwnerGuardsIntent'
  BY <1>9 DEF WinOwner, Flocked, Free
<1>10. ASSUME NEW c \in Callers, NEW o \in Ops, SkipRecord(c, o) PROVE OwnerGuardsIntent'
  BY <1>10 DEF SkipRecord, MayExamine, Oldest, Records
<1>11. ASSUME NEW c \in Callers, NEW o \in Ops, PruneRecord(c, o) PROVE OwnerGuardsIntent'
  BY <1>11 DEF PruneRecord, MayExamine, Oldest, Records, Flocked, LockIsBusy, Free, Prunable
<1>12. ASSUME NEW c \in Callers, UnlinkLock(c) PROVE OwnerGuardsIntent'
  BY <1>12 DEF UnlinkLock, Released
<1>13. ASSUME NEW c \in Callers, SweepLocks(c) PROVE OwnerGuardsIntent'
  BY <1>13 DEF SweepLocks, Answer, Released
<1>14. ASSUME NEW c \in Callers, ClaimLock(c) PROVE OwnerGuardsIntent'
  BY <1>14 DEF ClaimLock, OwnerLock, Unused, Free, Flocked
<1>15. ASSUME NEW c \in Callers, WriteIntent(c) PROVE OwnerGuardsIntent'
  BY <1>15 DEF WriteIntent, Write, Intent
<1>16. ASSUME NEW c \in Callers, IntentNotDurable(c) PROVE OwnerGuardsIntent'
  BY <1>16 DEF IntentNotDurable, Write, Intent, Answer, Released
<1>17. ASSUME NEW c \in Callers, Send(c) PROVE OwnerGuardsIntent'
  BY <1>17 DEF Send
<1>18. ASSUME NEW c \in Callers, ReturnDocument(c) PROVE OwnerGuardsIntent'
  BY <1>18 DEF ReturnDocument
<1>19. ASSUME NEW c \in Callers, DispatchFails(c) PROVE OwnerGuardsIntent'
  BY <1>19 DEF DispatchFails
<1>20. ASSUME NEW c \in Callers, EnterSave(c) PROVE OwnerGuardsIntent'
  BY <1>20 DEF EnterSave, TakeStoreLock
<1>21. ASSUME NEW c \in Callers, SaveFails(c) PROVE OwnerGuardsIntent'
  BY <1>21 DEF SaveFails
<1>22. ASSUME NEW c \in Callers, SaveReceipt(c) PROVE OwnerGuardsIntent'
  <2>1. PICK synced \in BOOLEAN : Write(op[c], Done(key[c], document[c]), synced)
              /\ promised' = IF synced THEN [promised EXCEPT ![op[c]] = document[c]] ELSE promised
    BY <1>22 DEF SaveReceipt
  <2>2. op[c] \in Ops /\ key[c] \in Keys /\ record[op[c]] = Intent(key[c])
    BY <1>22 DEF SaveReceipt
  <2>3. document[c] \in Receipts
    BY <1>22 DEF SaveReceipt, Receipts
  <2>4. Done(key[c], document[c]) \in Record /\ Done(key[c], document[c]) # None
           /\ Done(key[c], document[c]).receipt = document[c]
    BY <2>2, <2>3, RecordTypes
  <2> HIDE DEF Intent
  <2> QED
    BY <1>22, <2>1, <2>2, <2>3, <2>4, WriteEffect DEF SaveReceipt
<1>23. ASSUME NEW c \in Callers, Forget(c) PROVE OwnerGuardsIntent'
  <2>1. disk' \in {disk, record'}
    BY <1>23 DEF Forget
  <2>2. \A d \in Callers : d # c /\ pc[d] \in Dispatching => op[d] # op[c]
    BY <1>23 DEF Forget
  <2> QED
    BY <1>23, <2>1, <2>2 DEF Forget
<1>24. CASE PowerLoss
  BY <1>24 DEF PowerLoss
<1>25. CASE Tick
  BY <1>25 DEF Tick, Capped, RecentReceipt
<1>26. CASE UNCHANGED vars
  BY <1>26 DEF vars
<1> QED
  BY <1>1, <1>2, <1>3, <1>4, <1>5, <1>6, <1>7, <1>8, <1>9, <1>10, <1>11, <1>12, <1>13, <1>14, <1>15, <1>16, <1>17, <1>18, <1>19, <1>20, <1>21, <1>22, <1>23, <1>24, <1>25, <1>26
  DEF Next, Progress, StoreUnavailable, AnswerEvicted, AnswerFromRecord,
      GiveUpWaiting, ClaimRefused, CloseOwner, Crash

(* Every step preserves that at most one request is out, and only with a durable record. *)
LEMMA SendStep == ASSUME IInv, [Next]_vars PROVE (SendInv /\ AtMostOnce /\ EvidenceSurvives)'
<1> USE OperationsAssumption DEF Goto, store, caller, history, InReserve, Dispatching, UnderStoreLock, IInv, TypeOK, Steps, LockInv, CallInv, RecordInv, OwnerGuardsIntent, SendInv, AtMostOnce, EvidenceSurvives
<1>1. ASSUME NEW c \in Callers, Leave(c) PROVE (SendInv /\ AtMostOnce /\ EvidenceSurvives)'
  BY <1>1 DEF Leave, Answer, Released
<1>2. ASSUME NEW c \in Callers, Ask(c) PROVE (SendInv /\ AtMostOnce /\ EvidenceSurvives)'
  BY <1>2 DEF Ask
<1>3. ASSUME NEW c \in Callers, EnterStore(c) PROVE (SendInv /\ AtMostOnce /\ EvidenceSurvives)'
  BY <1>3 DEF EnterStore, TakeStoreLock
<1>4. ASSUME NEW c \in Callers, StartAdmission(c) PROVE (SendInv /\ AtMostOnce /\ EvidenceSurvives)'
  BY <1>4 DEF StartAdmission
<1>5. ASSUME NEW c \in Callers, SeeIntent(c) PROVE (SendInv /\ AtMostOnce /\ EvidenceSurvives)'
  BY <1>5 DEF SeeIntent, Released, LockIsCurrent
<1>6. ASSUME NEW c \in Callers, Probe(c) PROVE (SendInv /\ AtMostOnce /\ EvidenceSurvives)'
  BY <1>6 DEF Probe, OwnerLock, Unused, Free
<1>7. ASSUME NEW c \in Callers, SettleOrphan(c) PROVE (SendInv /\ AtMostOnce /\ EvidenceSurvives)'
  <2>1. PICK synced \in BOOLEAN : Write(op[c], Done(record[op[c]].key, "interrupted"), synced)
              /\ promised' = IF synced THEN [promised EXCEPT ![op[c]] = "interrupted"] ELSE promised
    BY <1>7 DEF SettleOrphan
  <2>2. op[c] \in Ops /\ key[c] \in Keys /\ record[op[c]] = Intent(key[c])
    BY <1>7 DEF SettleOrphan
  <2>3. "interrupted" \in Receipts
    BY DEF Receipts
  <2>4. Done(record[op[c]].key, "interrupted") \in Record /\ Done(record[op[c]].key, "interrupted") # None
           /\ Done(record[op[c]].key, "interrupted").receipt = "interrupted"
    BY <2>2, <2>3, RecordTypes
  <2> HIDE DEF Intent
  <2> QED
    BY <1>7, <2>1, <2>2, <2>3, <2>4, WriteEffect DEF SettleOrphan, Answer, Released
<1>8. ASSUME NEW c \in Callers, OpenWaiting(c) PROVE (SendInv /\ AtMostOnce /\ EvidenceSurvives)'
  BY <1>8 DEF OpenWaiting, OwnerLock, Unused
<1>9. ASSUME NEW c \in Callers, WinOwner(c) PROVE (SendInv /\ AtMostOnce /\ EvidenceSurvives)'
  BY <1>9 DEF WinOwner, Flocked, Free
<1>10. ASSUME NEW c \in Callers, NEW o \in Ops, SkipRecord(c, o) PROVE (SendInv /\ AtMostOnce /\ EvidenceSurvives)'
  BY <1>10 DEF SkipRecord, MayExamine, Oldest, Records
<1>11. ASSUME NEW c \in Callers, NEW o \in Ops, PruneRecord(c, o) PROVE (SendInv /\ AtMostOnce /\ EvidenceSurvives)'
  BY <1>11 DEF PruneRecord, MayExamine, Oldest, Records, Flocked, LockIsBusy, Free, Prunable
<1>12. ASSUME NEW c \in Callers, UnlinkLock(c) PROVE (SendInv /\ AtMostOnce /\ EvidenceSurvives)'
  BY <1>12 DEF UnlinkLock, Released
<1>13. ASSUME NEW c \in Callers, SweepLocks(c) PROVE (SendInv /\ AtMostOnce /\ EvidenceSurvives)'
  BY <1>13 DEF SweepLocks, Answer, Released
<1>14. ASSUME NEW c \in Callers, ClaimLock(c) PROVE (SendInv /\ AtMostOnce /\ EvidenceSurvives)'
  BY <1>14 DEF ClaimLock, OwnerLock, Unused, Free, Flocked
<1>15. ASSUME NEW c \in Callers, WriteIntent(c) PROVE (SendInv /\ AtMostOnce /\ EvidenceSurvives)'
  BY <1>15 DEF WriteIntent, Write, Intent
<1>16. ASSUME NEW c \in Callers, IntentNotDurable(c) PROVE (SendInv /\ AtMostOnce /\ EvidenceSurvives)'
  BY <1>16 DEF IntentNotDurable, Write, Intent, Answer, Released
<1>17. ASSUME NEW c \in Callers, Send(c) PROVE (SendInv /\ AtMostOnce /\ EvidenceSurvives)'
  <2>1. op[c] \in Ops /\ sends[op[c]] = 0 
    BY <1>17 DEF Send
  <2>2. record[op[c]] # None /\ disk[op[c]] # None
    BY <1>17, RecordTypes DEF Send
  <2>3. \A d \in Callers : d # c /\ pc[d] \in Dispatching => op[d] # op[c]
    BY <1>17 DEF Send
  <2>4. sends'[op[c]] = 1 /\ \A o \in Ops : o # op[c] => sends'[o] = sends[o]
    BY <1>17, <2>1 DEF Send
  <2>5. pc' = [pc EXCEPT ![c] = "sent"] /\ UNCHANGED <<op, document, record, disk>>
    BY <1>17 DEF Send
  <2> QED
    BY <2>1, <2>2, <2>3, <2>4, <2>5
<1>18. ASSUME NEW c \in Callers, ReturnDocument(c) PROVE (SendInv /\ AtMostOnce /\ EvidenceSurvives)'
  BY <1>18 DEF ReturnDocument
<1>19. ASSUME NEW c \in Callers, DispatchFails(c) PROVE (SendInv /\ AtMostOnce /\ EvidenceSurvives)'
  BY <1>19 DEF DispatchFails
<1>20. ASSUME NEW c \in Callers, EnterSave(c) PROVE (SendInv /\ AtMostOnce /\ EvidenceSurvives)'
  BY <1>20 DEF EnterSave, TakeStoreLock
<1>21. ASSUME NEW c \in Callers, SaveFails(c) PROVE (SendInv /\ AtMostOnce /\ EvidenceSurvives)'
  BY <1>21 DEF SaveFails
<1>22. ASSUME NEW c \in Callers, SaveReceipt(c) PROVE (SendInv /\ AtMostOnce /\ EvidenceSurvives)'
  <2>1. PICK synced \in BOOLEAN : Write(op[c], Done(key[c], document[c]), synced)
              /\ promised' = IF synced THEN [promised EXCEPT ![op[c]] = document[c]] ELSE promised
    BY <1>22 DEF SaveReceipt
  <2>2. op[c] \in Ops /\ key[c] \in Keys /\ record[op[c]] = Intent(key[c])
    BY <1>22 DEF SaveReceipt
  <2>3. document[c] \in Receipts
    BY <1>22 DEF SaveReceipt, Receipts
  <2>4. Done(key[c], document[c]) \in Record /\ Done(key[c], document[c]) # None
           /\ Done(key[c], document[c]).receipt = document[c]
    BY <2>2, <2>3, RecordTypes
  <2> HIDE DEF Intent
  <2> QED
    BY <1>22, <2>1, <2>2, <2>3, <2>4, WriteEffect DEF SaveReceipt
<1>23. ASSUME NEW c \in Callers, Forget(c) PROVE (SendInv /\ AtMostOnce /\ EvidenceSurvives)'
  <2>1. disk' \in {disk, record'}
    BY <1>23 DEF Forget
  <2>2. \A d \in Callers : d # c /\ pc[d] \in Dispatching => op[d] # op[c]
    BY <1>23 DEF Forget
  <2> QED
    BY <1>23, <2>1, <2>2 DEF Forget
<1>24. CASE PowerLoss
  BY <1>24 DEF PowerLoss
<1>25. CASE Tick
  BY <1>25 DEF Tick, Capped, RecentReceipt
<1>26. CASE UNCHANGED vars
  BY <1>26 DEF vars
<1> QED
  BY <1>1, <1>2, <1>3, <1>4, <1>5, <1>6, <1>7, <1>8, <1>9, <1>10, <1>11, <1>12, <1>13, <1>14, <1>15, <1>16, <1>17, <1>18, <1>19, <1>20, <1>21, <1>22, <1>23, <1>24, <1>25, <1>26
  DEF Next, Progress, StoreUnavailable, AnswerEvicted, AnswerFromRecord,
      GiveUpWaiting, ClaimRefused, CloseOwner, Crash

(* No step replaces a receipt that was saved durably, except by pruning it. *)
LEMMA PromiseStep == ASSUME IInv, [Next]_vars PROVE PromiseKept'
<1> USE OperationsAssumption DEF Goto, store, caller, history, InReserve, Dispatching, UnderStoreLock, IInv, TypeOK, Steps, LockInv, CallInv, RecordInv, OwnerGuardsIntent, PromiseKept
<1>1. ASSUME NEW c \in Callers, Leave(c) PROVE PromiseKept'
  BY <1>1 DEF Leave, Answer, Released
<1>2. ASSUME NEW c \in Callers, Ask(c) PROVE PromiseKept'
  BY <1>2 DEF Ask
<1>3. ASSUME NEW c \in Callers, EnterStore(c) PROVE PromiseKept'
  BY <1>3 DEF EnterStore, TakeStoreLock
<1>4. ASSUME NEW c \in Callers, StartAdmission(c) PROVE PromiseKept'
  BY <1>4 DEF StartAdmission
<1>5. ASSUME NEW c \in Callers, SeeIntent(c) PROVE PromiseKept'
  BY <1>5 DEF SeeIntent, Released, LockIsCurrent
<1>6. ASSUME NEW c \in Callers, Probe(c) PROVE PromiseKept'
  BY <1>6 DEF Probe, OwnerLock, Unused, Free
<1>7. ASSUME NEW c \in Callers, SettleOrphan(c) PROVE PromiseKept'
  <2>1. PICK synced \in BOOLEAN : Write(op[c], Done(record[op[c]].key, "interrupted"), synced)
              /\ promised' = IF synced THEN [promised EXCEPT ![op[c]] = "interrupted"] ELSE promised
    BY <1>7 DEF SettleOrphan
  <2>2. op[c] \in Ops /\ key[c] \in Keys /\ record[op[c]] = Intent(key[c])
    BY <1>7 DEF SettleOrphan
  <2>3. "interrupted" \in Receipts
    BY DEF Receipts
  <2>4. Done(record[op[c]].key, "interrupted") \in Record /\ Done(record[op[c]].key, "interrupted") # None
           /\ Done(record[op[c]].key, "interrupted").receipt = "interrupted"
    BY <2>2, <2>3, RecordTypes
  <2>5. promised[op[c]] = None
    BY <2>2, RecordTypes
  <2>6. promised'[op[c]] \in {None, "interrupted"} /\ (promised'[op[c]] # None => synced)
          /\ \A o \in Ops : o # op[c] => promised'[o] = promised[o]
    BY <2>1, <2>2, <2>5
  <2> HIDE DEF Intent
  <2> QED
    BY <1>7, <2>1, <2>2, <2>3, <2>4, WriteEffect, <2>5, <2>6 DEF SettleOrphan, Answer, Released
<1>8. ASSUME NEW c \in Callers, OpenWaiting(c) PROVE PromiseKept'
  BY <1>8 DEF OpenWaiting, OwnerLock, Unused
<1>9. ASSUME NEW c \in Callers, WinOwner(c) PROVE PromiseKept'
  BY <1>9 DEF WinOwner, Flocked, Free
<1>10. ASSUME NEW c \in Callers, NEW o \in Ops, SkipRecord(c, o) PROVE PromiseKept'
  BY <1>10 DEF SkipRecord, MayExamine, Oldest, Records
<1>11. ASSUME NEW c \in Callers, NEW o \in Ops, PruneRecord(c, o) PROVE PromiseKept'
  BY <1>11 DEF PruneRecord, MayExamine, Oldest, Records, Flocked, LockIsBusy, Free, Prunable
<1>12. ASSUME NEW c \in Callers, UnlinkLock(c) PROVE PromiseKept'
  BY <1>12 DEF UnlinkLock, Released
<1>13. ASSUME NEW c \in Callers, SweepLocks(c) PROVE PromiseKept'
  BY <1>13 DEF SweepLocks, Answer, Released
<1>14. ASSUME NEW c \in Callers, ClaimLock(c) PROVE PromiseKept'
  BY <1>14 DEF ClaimLock, OwnerLock, Unused, Free, Flocked
<1>15. ASSUME NEW c \in Callers, WriteIntent(c) PROVE PromiseKept'
  BY <1>15 DEF WriteIntent, Write, Intent
<1>16. ASSUME NEW c \in Callers, IntentNotDurable(c) PROVE PromiseKept'
  BY <1>16 DEF IntentNotDurable, Write, Intent, Answer, Released
<1>17. ASSUME NEW c \in Callers, Send(c) PROVE PromiseKept'
  BY <1>17 DEF Send
<1>18. ASSUME NEW c \in Callers, ReturnDocument(c) PROVE PromiseKept'
  BY <1>18 DEF ReturnDocument
<1>19. ASSUME NEW c \in Callers, DispatchFails(c) PROVE PromiseKept'
  BY <1>19 DEF DispatchFails
<1>20. ASSUME NEW c \in Callers, EnterSave(c) PROVE PromiseKept'
  BY <1>20 DEF EnterSave, TakeStoreLock
<1>21. ASSUME NEW c \in Callers, SaveFails(c) PROVE PromiseKept'
  BY <1>21 DEF SaveFails
<1>22. ASSUME NEW c \in Callers, SaveReceipt(c) PROVE PromiseKept'
  <2>1. PICK synced \in BOOLEAN : Write(op[c], Done(key[c], document[c]), synced)
              /\ promised' = IF synced THEN [promised EXCEPT ![op[c]] = document[c]] ELSE promised
    BY <1>22 DEF SaveReceipt
  <2>2. op[c] \in Ops /\ key[c] \in Keys /\ record[op[c]] = Intent(key[c])
    BY <1>22 DEF SaveReceipt
  <2>3. document[c] \in Receipts
    BY <1>22 DEF SaveReceipt, Receipts
  <2>4. Done(key[c], document[c]) \in Record /\ Done(key[c], document[c]) # None
           /\ Done(key[c], document[c]).receipt = document[c]
    BY <2>2, <2>3, RecordTypes
  <2>5. promised[op[c]] = None
    BY <2>2, RecordTypes
  <2>6. promised'[op[c]] \in {None, document[c]} /\ (promised'[op[c]] # None => synced)
          /\ \A o \in Ops : o # op[c] => promised'[o] = promised[o]
    BY <2>1, <2>2, <2>5
  <2> HIDE DEF Intent
  <2> QED
    BY <1>22, <2>1, <2>2, <2>3, <2>4, WriteEffect, <2>5, <2>6 DEF SaveReceipt
<1>23. ASSUME NEW c \in Callers, Forget(c) PROVE PromiseKept'
  <2>1. disk' \in {disk, record'}
    BY <1>23 DEF Forget
  <2>2. \A d \in Callers : d # c /\ pc[d] \in Dispatching => op[d] # op[c]
    BY <1>23 DEF Forget
  <2>3. op[c] \in Ops /\ promised[op[c]] = None
    BY <1>23, RecordTypes DEF Forget
  <2> QED
    BY <1>23, <2>1, <2>2, <2>3 DEF Forget
<1>24. CASE PowerLoss
  BY <1>24 DEF PowerLoss
<1>25. CASE Tick
  BY <1>25 DEF Tick, Capped, RecentReceipt
<1>26. CASE UNCHANGED vars
  BY <1>26 DEF vars
<1> QED
  BY <1>1, <1>2, <1>3, <1>4, <1>5, <1>6, <1>7, <1>8, <1>9, <1>10, <1>11, <1>12, <1>13, <1>14, <1>15, <1>16, <1>17, <1>18, <1>19, <1>20, <1>21, <1>22, <1>23, <1>24, <1>25, <1>26
  DEF Next, Progress, StoreUnavailable, AnswerEvicted, AnswerFromRecord,
      GiveUpWaiting, ClaimRefused, CloseOwner, Crash

(* Records are added and removed under the store lock only, so the room a caller
   has made stays until it uses it. *)
LEMMA RoomStep == ASSUME IInv, [Next]_vars PROVE RoomInv'
<1> SUFFICES ASSUME NEW c \in Callers, pc'[c] \in {"own", "intent"}
             PROVE ~Full'
  BY DEF RoomInv
<1> USE DEF IInv, TypeOK, RoomInv, Goto, store, caller
<1>1. record' = record /\ ~Full => ~Full'
  BY DEF Full, Records
<1>2. record' = record /\ pc[c] \in {"own", "intent"} => ~Full'
  BY <1>1
<1>3. ASSUME NEW d \in Callers, Leave(d) \/ Ask(d) PROVE ~Full'
  BY <1>2, <1>3 DEF Leave, Answer, Ask
<1>4. ASSUME NEW d \in Callers, EnterStore(d) \/ EnterSave(d) \/ StartAdmission(d) \/ SeeIntent(d)
      PROVE  ~Full'
  BY <1>2, <1>4 DEF EnterStore, EnterSave, TakeStoreLock, StartAdmission, SeeIntent
<1>5. ASSUME NEW d \in Callers, Probe(d) \/ OpenWaiting(d) \/ WinOwner(d) PROVE ~Full'
  BY <1>2, <1>5 DEF Probe, OpenWaiting, WinOwner
<1>6. ASSUME NEW d \in Callers, UnlinkLock(d) \/ Send(d) \/ ReturnDocument(d) PROVE ~Full'
  BY <1>2, <1>6 DEF UnlinkLock, Send, ReturnDocument
<1>7. ASSUME NEW d \in Callers, DispatchFails(d) \/ SaveFails(d) \/ (\E o \in Ops : SkipRecord(d, o))
      PROVE  ~Full'
  BY <1>2, <1>7 DEF DispatchFails, SaveFails, SkipRecord
<1>8. ASSUME NEW d \in Callers, SweepLocks(d) PROVE ~Full'
  <2>1. CASE Full
    BY <1>2, <1>8, <2>1 DEF SweepLocks, Answer
  <2>2. CASE ~Full
    BY <1>1, <1>8, <2>2 DEF SweepLocks
  <2> QED
    BY <2>1, <2>2
<1>9. ASSUME NEW d \in Callers, ClaimLock(d) PROVE ~Full'
  BY <1>1, <1>2, <1>9 DEF ClaimLock
<1>10. ASSUME NEW d \in Callers, pc[d] \in UnderStoreLock,
              pc' = [pc EXCEPT ![d] = pc'[d]], pc'[d] \notin {"own", "intent"} PROVE FALSE
  <2>1. c # d /\ pc[c] \in UnderStoreLock
    BY <1>10 DEF UnderStoreLock
  <2> QED
    BY <1>10, <2>1 DEF LockInv
<1>11. ASSUME NEW d \in Callers, SettleOrphan(d) \/ IntentNotDurable(d) PROVE FALSE
  BY <1>10, <1>11 DEF SettleOrphan, IntentNotDurable, Answer, UnderStoreLock
<1>12. ASSUME NEW d \in Callers, WriteIntent(d) \/ SaveReceipt(d) \/ Forget(d) PROVE FALSE
  BY <1>10, <1>12 DEF WriteIntent, SaveReceipt, Forget, UnderStoreLock
<1>13. ASSUME NEW d \in Callers, NEW o \in Ops, PruneRecord(d, o) PROVE FALSE
  <2>1. pc[d] = "room" /\ pc' \in {pc, [pc EXCEPT ![d] = "unlink"]}
    BY <1>13 DEF PruneRecord, MayExamine
  <2> QED
    BY <1>10, <2>1 DEF UnderStoreLock
<1>14. CASE PowerLoss
  BY <1>14 DEF PowerLoss
<1>15. CASE Tick \/ UNCHANGED vars
  BY <1>2, <1>15 DEF Tick, vars
<1> QED
  BY <1>3, <1>4, <1>5, <1>6, <1>7, <1>8, <1>9, <1>11, <1>12, <1>13, <1>14, <1>15
  DEF Next, Progress, StoreUnavailable, AnswerEvicted, AnswerFromRecord,
      GiveUpWaiting, ClaimRefused, CloseOwner, Crash

(* A receipt is saved while its waiters wait, and they and it grow old together. *)
LEMMA WaitStep == ASSUME IInv, [Next]_vars PROVE WaitInv'
<1> USE OperationsAssumption DEF Goto, store, caller, history, IInv, TypeOK, CallInv, WaitInv
<1>1. ASSUME NEW c \in Callers, Leave(c) PROVE WaitInv'
  BY <1>1 DEF Leave, Answer
<1>2. ASSUME NEW c \in Callers, EnterStore(c) \/ EnterSave(c) \/ StartAdmission(c) PROVE WaitInv'
  BY <1>2 DEF EnterStore, EnterSave, TakeStoreLock, StartAdmission
<1>3. ASSUME NEW c \in Callers, SeeIntent(c) PROVE WaitInv'
  BY <1>3 DEF SeeIntent
<1>4. ASSUME NEW c \in Callers, Probe(c) PROVE WaitInv'
  <2>1. record[op[c]].phase = "intent"
    <3>1. record[op[c]] = Intent(key[c])
      BY <1>4 DEF Probe, RecordInv
    <3> QED
      BY <3>1 DEF Intent
  <2>2. /\ pc' \in {[pc EXCEPT ![c] = s] : s \in {"settle", "open"}}
        /\ UNCHANGED <<record, age, op, seen, fd, elapsed>>
    BY <1>4 DEF Probe
  <2> QED
    BY <2>1, <2>2
<1>5. ASSUME NEW c \in Callers, OpenWaiting(c) \/ WinOwner(c) PROVE WaitInv'
  BY <1>5 DEF OpenWaiting, WinOwner
<1>6. ASSUME NEW c \in Callers, UnlinkLock(c) \/ Send(c) \/ ReturnDocument(c) PROVE WaitInv'
  BY <1>6 DEF UnlinkLock, Send, ReturnDocument
<1>7. ASSUME NEW c \in Callers, DispatchFails(c) \/ SaveFails(c) \/ (\E o \in Ops : SkipRecord(c, o))
      PROVE  WaitInv'
  BY <1>7 DEF DispatchFails, SaveFails, SkipRecord
<1>8. ASSUME NEW c \in Callers, SweepLocks(c) \/ ClaimLock(c) PROVE WaitInv'
  BY <1>8 DEF SweepLocks, Answer, ClaimLock
<1>9. ASSUME NEW c \in Callers, NEW o \in Ops, PruneRecord(c, o) PROVE WaitInv'
  BY <1>9 DEF PruneRecord, MayExamine
<1>10. ASSUME NEW c \in Callers, Forget(c) PROVE WaitInv'
  BY <1>10 DEF Forget
<1>11. ASSUME NEW c \in Callers, Ask(c) PROVE WaitInv'
  BY <1>11 DEF Ask
<1>12. ASSUME NEW c \in Callers, SettleOrphan(c) PROVE WaitInv'
  <2>1. Done(record[op[c]].key, "interrupted") \in Record
    BY <1>12, RecordTypes DEF SettleOrphan, RecordInv, Receipts
  <2>2. PICK synced \in BOOLEAN : Write(op[c], Done(record[op[c]].key, "interrupted"), synced)
    BY <1>12 DEF SettleOrphan
  <2>3. Answer(c) /\ op[c] \in Ops
    BY <1>12 DEF SettleOrphan
  <2> QED
    BY <2>1, <2>2, <2>3 DEF Write, Answer
<1>13. ASSUME NEW c \in Callers, WriteIntent(c) \/ IntentNotDurable(c) PROVE WaitInv'
  <2>1. Intent(key[c]) \in Record
    BY <1>13, RecordTypes DEF WriteIntent, IntentNotDurable
  <2>2. PICK synced \in BOOLEAN : Write(op[c], Intent(key[c]), synced)
    BY <1>13 DEF WriteIntent, IntentNotDurable
  <2> QED
    BY <1>13, <2>1, <2>2 DEF Write, WriteIntent, IntentNotDurable, Answer
<1>14. ASSUME NEW c \in Callers, SaveReceipt(c) PROVE WaitInv'
  <2>1. Done(key[c], document[c]) \in Record
    BY <1>14, RecordTypes DEF SaveReceipt, Receipts
  <2>2. PICK synced \in BOOLEAN : Write(op[c], Done(key[c], document[c]), synced)
    BY <1>14 DEF SaveReceipt
  <2> QED
    BY <1>14, <2>1, <2>2 DEF Write, SaveReceipt
<1>15. CASE PowerLoss
  BY <1>15 DEF PowerLoss
<1>16. CASE Tick
  BY <1>16 DEF Tick, Capped, InReserve
<1>17. CASE UNCHANGED vars
  BY <1>17 DEF vars
<1> QED
  BY <1>1, <1>2, <1>3, <1>4, <1>5, <1>6, <1>7, <1>8, <1>9, <1>10, <1>11, <1>12, <1>13, <1>14, <1>15,
     <1>16, <1>17
  DEF Next, Progress, StoreUnavailable, AnswerEvicted, AnswerFromRecord,
      GiveUpWaiting, ClaimRefused, CloseOwner, Crash

(* An intent that is dispatched was flushed with the directory, and nobody but its
   dispatcher or a recovery, which end it, writes it again. *)
LEMMA DiskStep == ASSUME IInv, [Next]_vars PROVE DiskInv'
<1> USE OperationsAssumption DEF IInv, TypeOK, DiskInv, Claimed, Goto, store, caller, history, Dispatching
<1>1. ASSUME UNCHANGED <<record, disk, sends>>,
             NEW c \in Callers, \A d \in Callers \ {c} : op'[d] = op[d] /\ pc'[d] = pc[d],
             pc'[c] \in Dispatching => pc[c] \in Dispatching /\ op'[c] = op[c]
      PROVE  DiskInv'
  BY <1>1
<1>2. ASSUME NEW c \in Callers, Leave(c) \/ Ask(c) \/ EnterStore(c) \/ EnterSave(c) PROVE DiskInv'
  BY <1>1, <1>2 DEF Leave, Answer, Ask, EnterStore, EnterSave, TakeStoreLock
<1>3. ASSUME NEW c \in Callers, StartAdmission(c) \/ SeeIntent(c) \/ Probe(c) PROVE DiskInv'
  BY <1>1, <1>3 DEF StartAdmission, SeeIntent, Probe
<1>4. ASSUME NEW c \in Callers, OpenWaiting(c) \/ WinOwner(c) \/ UnlinkLock(c) PROVE DiskInv'
  BY <1>1, <1>4 DEF OpenWaiting, WinOwner, UnlinkLock
<1>5. ASSUME NEW c \in Callers, SweepLocks(c) \/ ClaimLock(c) \/ (\E o \in Ops : SkipRecord(c, o))
      PROVE  DiskInv'
  BY <1>1, <1>5 DEF SweepLocks, Answer, ClaimLock, SkipRecord
<1>6. ASSUME NEW c \in Callers, ReturnDocument(c) \/ DispatchFails(c) \/ SaveFails(c) PROVE DiskInv'
  BY <1>1, <1>6 DEF ReturnDocument, DispatchFails, SaveFails
<1>7. ASSUME NEW c \in Callers, Send(c) PROVE DiskInv'
  <2>1. op[c] \in Ops /\ disk[op[c]] = record[op[c]]
    <3>1. record[op[c]] = Intent(key[c]) /\ op[c] \in Ops /\ key[c] \in Keys
      BY <1>7 DEF Send, OwnerGuardsIntent, CallInv
    <3> QED
      BY <1>7, <3>1, RecordTypes DEF Send
  <2> QED
    BY <1>1, <1>7, <2>1 DEF Send
<1>8. ASSUME NEW c \in Callers, NEW o \in Ops, PruneRecord(c, o) PROVE DiskInv'
  BY <1>8 DEF PruneRecord, MayExamine
<1>9. ASSUME NEW c \in Callers, NEW r, NEW synced \in BOOLEAN, op[c] \in Ops, Write(op[c], r, synced),
             UNCHANGED sends, \A d \in Callers \ {c} : op'[d] = op[d] /\ pc'[d] = pc[d],
             \/ synced
             \/ pc'[c] \notin Dispatching /\ \/ r.phase # "intent"
                                             \/ sends[op[c]] = 0 /\ record[op[c]] = None
      PROVE  DiskInv'
  <2>1. CASE synced
    BY <1>9, <2>1 DEF Write
  <2>2. CASE ~synced
    <3>1. /\ record' = [record EXCEPT ![op[c]] = r] /\ disk' = disk
          /\ pc'[c] \notin Dispatching
      BY <1>9, <2>2 DEF Write
    <3>2. record[op[c]] = None => \A d \in Callers : pc[d] \in Dispatching => op[d] # op[c]
      BY <1>9, RecordTypes DEF OwnerGuardsIntent, CallInv
    <3> QED
      BY <1>9, <2>2, <3>1, <3>2
  <2> QED
    BY <2>1, <2>2
<1>10. ASSUME NEW c \in Callers, SettleOrphan(c) PROVE DiskInv'
  <2>1. op[c] \in Ops /\ Done(record[op[c]].key, "interrupted").phase # "intent"
    BY <1>10 DEF SettleOrphan, CallInv, Done
  <2> QED
    BY <1>9, <1>10, <2>1 DEF SettleOrphan, Answer
<1>11. ASSUME NEW c \in Callers, WriteIntent(c) PROVE DiskInv'
  BY <1>9, <1>11 DEF WriteIntent, CallInv
<1>12. ASSUME NEW c \in Callers, IntentNotDurable(c) PROVE DiskInv'
  <2>1. op[c] \in Ops /\ record[op[c]] = None /\ sends[op[c]] = 0
    BY <1>12 DEF IntentNotDurable, CallInv, RecordInv, EvidenceSurvives
  <2>2. /\ pc'[c] = "idle" /\ sends' = sends
        /\ \A d \in Callers \ {c} : op'[d] = op[d] /\ pc'[d] = pc[d]
    BY <1>12 DEF IntentNotDurable, Answer
  <2>3. Write(op[c], Intent(key[c]), FALSE)
    BY <1>12 DEF IntentNotDurable
  <2> QED
    BY <1>9, <2>1, <2>2, <2>3
<1>13. ASSUME NEW c \in Callers, SaveReceipt(c) PROVE DiskInv'
  <2>1. op[c] \in Ops /\ Done(key[c], document[c]).phase # "intent"
    BY <1>13 DEF SaveReceipt, CallInv, Done
  <2> QED
    BY <1>9, <1>13, <2>1 DEF SaveReceipt
<1>14. ASSUME NEW c \in Callers, Forget(c) PROVE DiskInv'
  BY <1>14 DEF Forget, CallInv
<1>15. CASE PowerLoss
  BY <1>15 DEF PowerLoss
<1>16. CASE Tick \/ UNCHANGED vars
  BY <1>16 DEF Tick, vars
<1> QED
  BY <1>2, <1>3, <1>4, <1>5, <1>6, <1>7, <1>8, <1>10, <1>11, <1>12, <1>13, <1>14, <1>15, <1>16
  DEF Next, Progress, StoreUnavailable, AnswerEvicted, AnswerFromRecord,
      GiveUpWaiting, ClaimRefused, CloseOwner, Crash

(* Writing one record adds at most one to the count that make_room took. *)
LEMMA OneMoreRecord ==
    ASSUME TypeOK, NEW o \in Ops, NEW r \in Record, NEW synced \in BOOLEAN, Write(o, r, synced)
    PROVE  Cardinality(Records') <= Cardinality(Records) + 1
<1>1. Records' = Records \cup {o}
  BY OperationsAssumption, WriteEffect DEF Records, TypeOK
<1>2. IsFiniteSet(Records)
  BY OperationsAssumption, FS_Subset DEF Records
<1>3. Cardinality(Records) \in Nat
  BY <1>2, FS_CardinalityType
<1>4. Cardinality(Records \cup {o}) = IF o \in Records THEN Cardinality(Records) ELSE Cardinality(Records) + 1
  BY <1>2, FS_AddElement
<1>5. Cardinality(Records') = Cardinality(Records \cup {o})
  BY <1>1
<1> QED
  BY <1>3, <1>4, <1>5

(* An intent is written where there is room. *)
LEMMA RoomForIntent ==
    ASSUME IInv, NEW c \in Callers, WriteIntent(c) \/ IntentNotDurable(c)
    PROVE  Cardinality(Records') <= StoreLimit
<1>1. pc[c] = "intent" /\ op[c] \in Ops /\ key[c] \in Keys
  BY DEF WriteIntent, IntentNotDurable, IInv, CallInv
<1>2. ~Full
  BY <1>1 DEF IInv, RoomInv
<1>3. PICK synced \in BOOLEAN : Write(op[c], Intent(key[c]), synced)
  BY DEF WriteIntent, IntentNotDurable
<1>4. Cardinality(Records') <= Cardinality(Records) + 1
  <2>1. TypeOK /\ Intent(key[c]) \in Record
    BY <1>1, RecordTypes DEF IInv
  <2> QED
    BY <1>1, <1>3, <2>1, OneMoreRecord
<1>5. Cardinality(Records) \in Nat /\ Cardinality(Records') \in Nat
  <2>1. Records \subseteq Ops /\ Records' \subseteq Ops
    BY DEF Records
  <2> QED
    BY <2>1, OperationsAssumption, FS_Subset, FS_CardinalityType
<1> QED
  BY <1>2, <1>4, <1>5, OperationsAssumption DEF Full

(* Only the process that dispatches an intent ends it: a settled orphan has no live
   dispatcher, a pruned record is done, and a claim is made where there is no record. *)
LEMMA OwnerEndsStep ==
    ASSUME IInv, Next, NEW o \in Ops, NEW d \in Callers,
           record[o] # None, record[o].phase = "intent", record'[o] # record[o],
           pc[d] \in Dispatching, op[d] = o
    PROVE  pc'[d] # pc[d]
<1> USE OperationsAssumption DEF IInv, TypeOK
<1>1. ASSUME NEW c \in Callers, SettleOrphan(c) PROVE pc'[d] # pc[d]
  <2>1. op[c] \in Ops /\ op[c] # o
    BY <1>1 DEF SettleOrphan, CallInv, RecordInv
  <2>2. record'[o] = record[o]
    BY <1>1, <2>1 DEF SettleOrphan, Write
  <2> QED
    BY <2>2
<1>2. ASSUME NEW c \in Callers, NEW p \in Ops, PruneRecord(c, p) PROVE pc'[d] # pc[d]
  BY <1>2 DEF PruneRecord, Prunable
<1>3. ASSUME NEW c \in Callers, WriteIntent(c) \/ IntentNotDurable(c) PROVE pc'[d] # pc[d]
  BY <1>3 DEF WriteIntent, IntentNotDurable, Write, RecordInv, CallInv
<1>4. ASSUME NEW c \in Callers, SaveReceipt(c) \/ Forget(c) PROVE pc'[d] # pc[d]
  <2>1. pc[c] = "save" /\ pc'[c] = "close" /\ op[c] \in Ops
    BY <1>4 DEF SaveReceipt, Forget, Goto, CallInv
  <2>2. op[c] = o
    BY <1>4, <2>1 DEF SaveReceipt, Forget, Write
  <2>3. c = d
    BY <2>1, <2>2 DEF OwnerGuardsIntent, Dispatching
  <2> QED
    BY <2>1, <2>3
<1>5. CASE PowerLoss
  BY <1>5 DEF PowerLoss, Dispatching
<1>6. CASE UNCHANGED record
  BY <1>6
<1> QED
  BY <1>1, <1>2, <1>3, <1>4, <1>5, <1>6
  DEF Next, Progress, Ask, EnterStore, TakeStoreLock, StoreUnavailable, AnswerEvicted, AnswerFromRecord,
      StartAdmission, SeeIntent, Probe, OpenWaiting, WinOwner, GiveUpWaiting, SkipRecord, UnlinkLock,
      SweepLocks, ClaimLock, ClaimRefused, Send, ReturnDocument, DispatchFails, EnterSave, SaveFails,
      CloseOwner, Crash, Tick, Leave, store

(* Who waits for a receipt finds it: it is too young to be pruned while its waiters
   wait, and its lock is busy when one of them has won it. *)
LEMMA ReceiptKeptStep ==
    ASSUME IInv, Next, NEW o \in Ops, NEW d \in Callers,
           record[o] # None, record[o].phase = "done", record'[o] = None, AwaitsReceipt(d, o)
    PROVE  op'[d] # o
<1> USE OperationsAssumption DEF IInv, TypeOK
<1>1. ASSUME NEW c \in Callers, PruneRecord(c, o) PROVE FALSE
  <2>1. ~(Prunable(o) /\ age[o] <= WaitForOwner)
    BY DEF Prunable, RecentReceipt
  <2>2. CASE pc[d] \in {"open", "wait"} /\ elapsed[d] < WaitForOwner
    <3>1. age[o] <= elapsed[d]
      BY <2>2 DEF AwaitsReceipt, WaitInv
    <3>2. age[o] <= WaitForOwner
      BY <2>2, <3>1
    <3> QED
      BY <1>1, <2>1, <3>2 DEF PruneRecord
  <2>3. CASE pc[d] \in {"enter", "read"} /\ fd[d] = lockFile[o]
    <3>1. fd[d] \in Inodes /\ holder[fd[d]] = d
      BY <2>3 DEF AwaitsReceipt, WaitInv, CallInv
    <3> QED
      BY <1>1, <2>3, <3>1 DEF PruneRecord, LockIsBusy, Free
  <2> QED
    BY <2>2, <2>3 DEF AwaitsReceipt
<1>2. ASSUME NEW c \in Callers, NEW p \in Ops, PruneRecord(c, p), p # o PROVE FALSE
  BY <1>2 DEF PruneRecord
<1>3. ASSUME NEW c \in Callers, Forget(c) PROVE FALSE
  <2>1. op[c] \in Ops /\ record[op[c]] = Intent(key[c])
    BY <1>3 DEF Forget, CallInv, OwnerGuardsIntent, Dispatching
  <2>2. op[c] # o
    BY <2>1 DEF Intent
  <2> QED
    BY <1>3, <2>2 DEF Forget
<1>4. ASSUME NEW c \in Callers, NEW r \in Record, NEW synced \in BOOLEAN, NEW p \in Ops, Write(p, r, synced)
      PROVE  FALSE
  BY <1>4, RecordTypes DEF Write
<1>5. ASSUME NEW c \in Callers, SettleOrphan(c) PROVE FALSE
  <2>1. op[c] \in Ops /\ record[op[c]] = Intent(key[c]) /\ key[c] \in Keys
    BY <1>5 DEF SettleOrphan, CallInv, RecordInv
  <2>2. Done(record[op[c]].key, "interrupted") \in Record
    BY <2>1, RecordTypes DEF Receipts
  <2> QED
    BY <1>4, <1>5, <2>1, <2>2 DEF SettleOrphan
<1>6. ASSUME NEW c \in Callers, WriteIntent(c) \/ IntentNotDurable(c) PROVE FALSE
  <2>1. op[c] \in Ops /\ Intent(key[c]) \in Record
    BY <1>6, RecordTypes DEF WriteIntent, IntentNotDurable, CallInv
  <2> QED
    BY <1>4, <1>6, <2>1 DEF WriteIntent, IntentNotDurable
<1>7. ASSUME NEW c \in Callers, SaveReceipt(c) PROVE FALSE
  <2>1. op[c] \in Ops /\ key[c] \in Keys /\ document[c] \in Receipts
    BY <1>7 DEF SaveReceipt, CallInv, Receipts
  <2>2. Done(key[c], document[c]) \in Record
    BY <2>1, RecordTypes
  <2> QED
    BY <1>4, <1>7, <2>1, <2>2 DEF SaveReceipt
<1>8. CASE PowerLoss
  BY <1>8 DEF PowerLoss
<1>9. CASE UNCHANGED record
  BY <1>9
<1> QED
  BY <1>1, <1>2, <1>3, <1>5, <1>6, <1>7, <1>8, <1>9
  DEF Next, Progress, Ask, EnterStore, TakeStoreLock, StoreUnavailable, AnswerEvicted, AnswerFromRecord,
      StartAdmission, SeeIntent, Probe, OpenWaiting, WinOwner, GiveUpWaiting, SkipRecord, UnlinkLock,
      SweepLocks, ClaimLock, ClaimRefused, Send, ReturnDocument, DispatchFails, EnterSave, SaveFails,
      CloseOwner, Crash, Tick, Leave, store

(* The initial state satisfies the inductive invariant. *)
LEMMA InitInv == Init => IInv
<1> SUFFICES ASSUME Init PROVE IInv
  OBVIOUS
<1>1. TypeOK
  BY OperationsAssumption DEF Init, TypeOK, Steps, InReserve, RecentReceipt
<1> QED
  BY <1>1, OperationsAssumption
  DEF Init, IInv, LockInv, CallInv, RecordInv, OwnerGuardsIntent, SendInv, AtMostOnce,
      EvidenceSurvives, PromiseKept, RoomInv, WaitInv, DiskInv, Claimed, UnderStoreLock, Dispatching

(* The inductive invariant holds in every reachable state. *)
THEOREM Invariance == Spec => []IInv
<1>1. IInv /\ [Next]_vars => IInv'
  BY TypeStep, LockStep, CallStep, RecordStep, OwnerStep, RoomStep, WaitStep, DiskStep,
     SendStep, PromiseStep DEF IInv
<1> QED
  BY InitInv, <1>1, PTL DEF Spec

(* Types. *)
THEOREM TypeCorrect == Spec => []TypeOK
<1>1. IInv => TypeOK
  BY DEF IInv
<1> QED
  BY Invariance, <1>1, PTL

(* A process that dispatches an operation keeps its intent on record and its lock
   current and locked: nobody can recover, prune, sweep or forget it. *)
THEOREM DispatcherIsGuarded == Spec => []OwnerGuardsIntent
<1>1. IInv => OwnerGuardsIntent
  BY DEF IInv
<1> QED
  BY Invariance, <1>1, PTL

(* At most one terminate request per operation until its record is pruned. *)
THEOREM SendsAtMostOnce == Spec => []AtMostOnce
<1>1. IInv => AtMostOnce
  BY DEF IInv
<1> QED
  BY Invariance, <1>1, PTL

(* A request that may be out has a record, for readers and after the machine stopped. *)
THEOREM SentIsRecorded == Spec => []EvidenceSurvives
<1>1. IInv => EvidenceSurvives
  BY DEF IInv
<1> QED
  BY Invariance, <1>1, PTL

(* A receipt that was saved durably is the receipt every later call replays. *)
THEOREM DurableReceiptStays == Spec => []PromiseKept
<1>1. IInv => PromiseKept
  BY DEF IInv
<1> QED
  BY Invariance, <1>1, PTL

(* An unresolved intent is removed, or its receipt saved, by the live process that
   dispatches it and by nobody else. *)
THEOREM OwnerEndsItsIntent == Spec => IntentEndsByItsOwner
<1>1. IInv /\ [Next]_vars =>
        [\A o \in Ops, c \in Callers :
            /\ record[o] # None /\ record[o].phase = "intent" /\ record'[o] # record[o]
            /\ pc[c] \in Dispatching /\ op[c] = o
            => pc'[c] # pc[c]]_vars
  BY OwnerEndsStep
<1> QED
  BY Invariance, <1>1, PTL DEF Spec, IntentEndsByItsOwner

(* Whenever an intent is written, the store stays within STORE_LIMIT. *)
THEOREM RoomIsMadeFirst == Spec => RoomBeforeIntent
<1>1. IInv /\ [Next]_vars =>
        [\A c \in Callers :
            WriteIntent(c) \/ IntentNotDurable(c) => Cardinality(Records') <= StoreLimit]_vars
  BY RoomForIntent
<1> QED
  BY Invariance, <1>1, PTL DEF Spec, RoomBeforeIntent

(* Making room takes no receipt from a call that waits for it. *)
THEOREM WaitersFindReceipt == Spec => ReceiptKeptForWaiters
<1>1. IInv /\ [Next]_vars =>
        [\A o \in Ops, c \in Callers :
            /\ record[o] # None /\ record[o].phase = "done" /\ record'[o] = None
            /\ AwaitsReceipt(c, o)
            => op'[c] # o]_vars
  BY ReceiptKeptStep
<1> QED
  BY Invariance, <1>1, PTL DEF Spec, ReceiptKeptForWaiters

(* The lives of TerminateOnce, by the record, the request and the dispatcher. *)
LEMMA LifeCases ==
    ASSUME IInv, NEW o \in Ops
    PROVE  /\ Life(o) \in Promise!Lives
           /\ Life(o) = "free" <=> record[o] = None
           /\ Life(o) = "settled" <=> record[o] # None /\ record[o].phase = "done" /\ sends[o] = 0
           /\ Life(o) = "closed" <=> record[o] # None /\ record[o].phase = "done" /\ sends[o] > 0
           /\ Life(o) = "out" <=> record[o] # None /\ record[o].phase = "intent" /\ sends[o] > 0
           /\ Life(o) = "claimed" <=> record[o] # None /\ record[o].phase = "intent"
                                      /\ sends[o] = 0 /\ Claimed(o)
           /\ Life(o) = "abandoned" <=> record[o] # None /\ record[o].phase = "intent"
                                        /\ sends[o] = 0 /\ ~Claimed(o)
  BY RecordTypes DEF IInv, TypeOK, Record, Life, Claimed, Promise!Lives

(* A step that changes one life only, or none. *)
LEMMA LifeMoves ==
    ASSUME NEW o \in Ops, \A p \in Ops : p # o => Life(p)' = Life(p)
    PROVE  /\ \A from, to : Life(o) \in from /\ Life(o)' = to
                             => Promise!Becomes(o, from, to)
           /\ Life(o)' = Life(o) => UNCHANGED lives
  BY DEF Promise!Becomes, lives

(* A call that changes nothing of other operations leaves their lives alone. *)
LEMMA OtherLives ==
    ASSUME NEW c \in Callers, NEW o \in Ops,
           \A p \in Ops \ {o} : record'[p] = record[p] /\ sends'[p] = sends[p],
           \A d \in Callers \ {c} : op'[d] = op[d] /\ pc'[d] = pc[d],
           pc[c] \in Dispatching => op[c] = o,
           pc'[c] \in Dispatching => op'[c] = o
    PROVE  \A p \in Ops : p # o => Life(p)' = Life(p)
<1> SUFFICES ASSUME NEW p \in Ops, p # o PROVE Life(p)' = Life(p)
  OBVIOUS
<1>1. Claimed(p)' <=> Claimed(p)
  BY DEF Claimed
<1> QED
  BY <1>1 DEF Life, Claimed

(* A call outside the dispatch that writes no record changes no life. *)
LEMMA SameLives ==
    ASSUME UNCHANGED <<record, sends>>, NEW c \in Callers,
           \A d \in Callers \ {c} : op'[d] = op[d] /\ pc'[d] = pc[d],
           pc[c] \in Dispatching <=> pc'[c] \in Dispatching,
           pc[c] \in Dispatching => op'[c] = op[c]
    PROVE  UNCHANGED lives
<1>1. ASSUME NEW p \in Ops PROVE Claimed(p)' <=> Claimed(p)
  BY DEF Claimed
<1>2. ASSUME NEW p \in Ops PROVE Life(p)' = Life(p)
  BY <1>1 DEF Life, Claimed
<1> QED
  BY <1>2 DEF lives

(* A process that stops dispatching, for whatever reason, abandons its claim. *)
LEMMA OwnerGone ==
    ASSUME IInv, IInv', UNCHANGED <<record, sends>>, NEW c \in Callers,
           \A d \in Callers \ {c} : op'[d] = op[d] /\ pc'[d] = pc[d],
           pc'[c] \notin Dispatching
    PROVE  [Promise!Next]_lives
<1>1. CASE pc[c] \notin Dispatching
  BY <1>1, SameLives
<1>2. CASE pc[c] \in Dispatching
  <2>1. PICK o \in Ops : o = op[c] /\ record[o] = Intent(key[c]) /\ key[c] \in Keys
    BY <1>2 DEF IInv, CallInv, OwnerGuardsIntent, Dispatching
  <2>2. record[o] # None /\ record[o].phase = "intent" /\ Claimed(o)
    BY <1>2, <2>1, RecordTypes DEF Claimed
  <2>3. ~Claimed(o)'
    BY <1>2, <2>1 DEF Claimed, IInv, OwnerGuardsIntent
  <2>4. \A p \in Ops : p # o => Life(p)' = Life(p)
    BY <1>2, <2>1, OtherLives
  <2>5. CASE sends[o] = 0
    <3>1. Life(o) = "claimed"
      BY <2>1, <2>2, <2>5, LifeCases
    <3>2. Life(o)' = "abandoned"
      BY <2>2, <2>3, <2>5 DEF Life, Claimed
    <3> QED
      BY <2>1, <2>4, <3>1, <3>2, LifeMoves DEF Promise!Next, Promise!Abandon
  <2>6. CASE sends[o] > 0
    <3>1. Life(o) = "out" /\ Life(o)' = "out"
      BY <2>2, <2>6 DEF Life
    <3> QED
      BY <2>1, <2>4, <3>1, LifeMoves
  <2>7. sends[o] \in Nat
    BY <2>1 DEF IInv, TypeOK
  <2> QED
    BY <2>5, <2>6, <2>7
<1> QED
  BY <1>1, <1>2


(* Every step of the store is a step of TerminateOnce, or changes no life. *)
LEMMA RefineStep == ASSUME IInv, IInv', [Next]_vars PROVE [Promise!Next]_lives
<1> USE OperationsAssumption
<1> USE DEF Goto, store, caller, history
<1>1. ASSUME NEW c \in Callers, Leave(c) PROVE [Promise!Next]_lives
  <2>1. \A d \in Callers \ {c} : op'[d] = op[d] /\ pc'[d] = pc[d]
    BY <1>1 DEF Leave, Answer, IInv, TypeOK
  <2>2. pc'[c] \notin Dispatching /\ UNCHANGED <<record, sends>>
    BY <1>1 DEF Leave, Answer, IInv, TypeOK, Dispatching
  <2> QED
    BY <2>1, <2>2, OwnerGone
<1>2. ASSUME NEW c \in Callers, DispatchFails(c) \/ SaveFails(c) PROVE [Promise!Next]_lives
  <2>1. \A d \in Callers \ {c} : op'[d] = op[d] /\ pc'[d] = pc[d]
    BY <1>2 DEF DispatchFails, SaveFails, IInv, TypeOK
  <2>2. pc'[c] \notin Dispatching /\ UNCHANGED <<record, sends>>
    BY <1>2 DEF DispatchFails, SaveFails, IInv, TypeOK, Dispatching
  <2> QED
    BY <2>1, <2>2, OwnerGone
<1>3. ASSUME NEW c \in Callers,
             \/ Ask(c) \/ EnterStore(c) \/ StartAdmission(c) \/ SeeIntent(c) \/ Probe(c)
             \/ OpenWaiting(c) \/ WinOwner(c) \/ UnlinkLock(c) \/ ClaimLock(c)
      PROVE  UNCHANGED lives
  <2>1. UNCHANGED <<record, sends>>
    BY <1>3 DEF Ask, EnterStore, TakeStoreLock, StartAdmission, SeeIntent, Probe,
                OpenWaiting, WinOwner, UnlinkLock, ClaimLock
  <2>2. \A d \in Callers \ {c} : op'[d] = op[d] /\ pc'[d] = pc[d]
    BY <1>3 DEF Ask, EnterStore, TakeStoreLock, StartAdmission, SeeIntent, Probe,
                OpenWaiting, WinOwner, UnlinkLock, ClaimLock, IInv, TypeOK
  <2>3. pc[c] \notin Dispatching /\ pc'[c] \notin Dispatching
    BY <1>3 DEF Ask, EnterStore, TakeStoreLock, StartAdmission, SeeIntent, Probe,
                OpenWaiting, WinOwner, UnlinkLock, ClaimLock, Dispatching, IInv, TypeOK
  <2> QED
    BY <2>1, <2>2, <2>3, SameLives
<1>4. ASSUME NEW c \in Callers, EnterSave(c) \/ ReturnDocument(c) PROVE UNCHANGED lives
  <2>1. /\ UNCHANGED <<record, sends, op>>
        /\ \A d \in Callers \ {c} : pc'[d] = pc[d]
        /\ pc[c] \in Dispatching /\ pc'[c] \in Dispatching
    BY <1>4 DEF EnterSave, TakeStoreLock, ReturnDocument, Dispatching, IInv, TypeOK
  <2> QED
    BY <2>1, SameLives
<1>5. ASSUME NEW c \in Callers, SweepLocks(c) \/ (\E o \in Ops : SkipRecord(c, o))
      PROVE  UNCHANGED lives
  <2>1. /\ UNCHANGED <<record, sends>>
        /\ \A d \in Callers \ {c} : op'[d] = op[d] /\ pc'[d] = pc[d]
        /\ pc[c] \notin Dispatching /\ pc'[c] \notin Dispatching
    BY <1>5 DEF SweepLocks, SkipRecord, MayExamine, Answer, Dispatching, IInv, TypeOK
  <2> QED
    BY <2>1, SameLives
<1>6. ASSUME NEW c \in Callers, NEW o \in Ops, PruneRecord(c, o) PROVE Promise!Next
  <2>1. /\ record[o] # None /\ record[o].phase = "done" /\ record'[o] = None
        /\ \A p \in Ops \ {o} : record'[p] = record[p] /\ sends'[p] = sends[p]
        /\ pc[c] \notin Dispatching /\ pc'[c] \notin Dispatching
        /\ \A d \in Callers \ {c} : op'[d] = op[d] /\ pc'[d] = pc[d]
    BY <1>6 DEF PruneRecord, MayExamine, Prunable, Dispatching, IInv, TypeOK
  <2>2. \A p \in Ops : p # o => Life(p)' = Life(p)
    BY <2>1, OtherLives
  <2>3. Life(o) \in {"settled", "closed"} /\ Life(o)' = "free"
    BY <2>1 DEF Life
  <2> QED
    BY <2>2, <2>3, LifeMoves DEF Promise!Next, Promise!Expire
<1>7. ASSUME NEW c \in Callers, WriteIntent(c) \/ IntentNotDurable(c) PROVE Promise!Next
  <2>1. PICK o \in Ops : o = op[c] /\ key[c] \in Keys /\ record[o] = None /\ pc[c] = "intent"
    <3>1. pc[c] = "intent"
      BY <1>7 DEF WriteIntent, IntentNotDurable
    <3> QED
      BY <3>1 DEF IInv, CallInv, RecordInv
  <2>2. PICK synced \in BOOLEAN : Write(o, Intent(key[c]), synced)
    BY <1>7, <2>1 DEF WriteIntent, IntentNotDurable
  <2>3. /\ record'[o] # None /\ record'[o].phase = "intent"
        /\ \A p \in Ops \ {o} : record'[p] = record[p]
    BY <2>1, <2>2, RecordTypes, WriteEffect DEF IInv
  <2>4. UNCHANGED sends /\ sends[o] = 0
    <3>1. UNCHANGED sends
      BY <1>7 DEF WriteIntent, IntentNotDurable
    <3> QED
      BY <2>1, <3>1 DEF IInv, TypeOK, EvidenceSurvives
  <2>5. /\ pc' \in {[pc EXCEPT ![c] = s] : s \in {"dispatch", "idle"}}
        /\ op' \in {op, [op EXCEPT ![c] = None]}
        /\ pc'[c] \in Dispatching => op' = op
    <3>1. CASE WriteIntent(c)
      BY <3>1 DEF WriteIntent
    <3>2. CASE IntentNotDurable(c)
      BY <3>2 DEF IntentNotDurable, Answer, Dispatching, IInv, TypeOK
    <3> QED
      BY <1>7, <3>1, <3>2
  <2>6. /\ \A d \in Callers \ {c} : op'[d] = op[d] /\ pc'[d] = pc[d]
        /\ pc[c] \notin Dispatching /\ (pc'[c] \in Dispatching => op'[c] = o)
    BY <2>1, <2>5 DEF Dispatching, IInv, TypeOK
  <2>7. \A p \in Ops : p # o => Life(p)' = Life(p)
    BY <2>1, <2>3, <2>4, <2>6, OtherLives
  <2>8. Life(o) = "free" /\ Life(o)' \in {"claimed", "abandoned"}
    BY <2>1, <2>3, <2>4 DEF Life
  <2> QED
    BY <2>7, <2>8, LifeMoves DEF Promise!Next, Promise!Claim, Promise!Abandon
<1>8. ASSUME NEW c \in Callers, Send(c) PROVE Promise!Next
  <2>1. PICK o \in Ops : o = op[c] /\ key[c] \in Keys /\ record[o] = Intent(key[c]) /\ sends[o] = 0
    BY <1>8 DEF Send, IInv, CallInv, OwnerGuardsIntent, SendInv, Dispatching
  <2>2. record[o] # None /\ record[o].phase = "intent" /\ Claimed(o)
    BY <1>8, <2>1, RecordTypes DEF Claimed, Send, Dispatching
  <2>3. /\ record' = record /\ sends'[o] = 1 /\ \A p \in Ops \ {o} : sends'[p] = sends[p]
        /\ op' = op /\ \A d \in Callers \ {c} : pc'[d] = pc[d]
    BY <1>8, <2>1 DEF Send, IInv, TypeOK
  <2>4. \A p \in Ops : p # o => Life(p)' = Life(p)
    BY <2>1, <2>3, OtherLives
  <2>5. Life(o) = "claimed"
    BY <2>1, <2>2, LifeCases
  <2>6. Life(o)' = "out"
    BY <2>2, <2>3 DEF Life
  <2> QED
    BY <2>4, <2>5, <2>6, LifeMoves DEF Promise!Next, Promise!Send
<1>9. ASSUME NEW c \in Callers, SettleOrphan(c) \/ SaveReceipt(c) PROVE Promise!Next
  <2>1. PICK o \in Ops : o = op[c] /\ key[c] \in Keys /\ record[o] = Intent(key[c])
    BY <1>9 DEF SettleOrphan, SaveReceipt, IInv, CallInv, RecordInv, OwnerGuardsIntent, Dispatching
  <2>2. PICK k \in Keys, r \in Receipts, synced \in BOOLEAN : Write(o, Done(k, r), synced)
    <3>1. CASE SettleOrphan(c)
      BY <3>1, <2>1, RecordTypes DEF SettleOrphan, Receipts
    <3>2. CASE SaveReceipt(c)
      BY <3>2, <2>1 DEF SaveReceipt, Receipts, IInv, CallInv
    <3> QED
      BY <1>9, <3>1, <3>2
  <2>3. record[o] # None /\ record[o].phase = "intent"
    BY <2>1, RecordTypes
  <2>4. /\ record'[o] # None /\ record'[o].phase = "done"
        /\ \A p \in Ops \ {o} : record'[p] = record[p]
    BY <2>2, RecordTypes, WriteEffect DEF IInv
  <2>5. UNCHANGED sends /\ sends[o] \in Nat
    BY <1>9, <2>1 DEF SettleOrphan, SaveReceipt, IInv, TypeOK
  <2>6. /\ \A d \in Callers \ {c} : op'[d] = op[d] /\ pc'[d] = pc[d]
        /\ pc'[c] \notin Dispatching
    BY <1>9 DEF SettleOrphan, SaveReceipt, Answer, IInv, TypeOK, Dispatching
  <2>7. \A p \in Ops : p # o => Life(p)' = Life(p)
    BY <2>1, <2>4, <2>5, <2>6, OtherLives
  <2>8. CASE sends[o] = 0
    <3>1. Life(o) \in {"claimed", "abandoned"} /\ Life(o)' = "settled"
      BY <2>3, <2>4, <2>5, <2>8 DEF Life
    <3> QED
      BY <2>7, <3>1, LifeMoves DEF Promise!Next, Promise!Settle
  <2>9. CASE sends[o] > 0
    <3>1. Life(o) = "out" /\ Life(o)' = "closed"
      BY <2>3, <2>4, <2>5, <2>9 DEF Life
    <3> QED
      BY <2>7, <3>1, LifeMoves DEF Promise!Next, Promise!Close
  <2> QED
    BY <2>5, <2>8, <2>9
<1>10. ASSUME NEW c \in Callers, Forget(c) PROVE Promise!Next
  <2>1. PICK o \in Ops : o = op[c] /\ key[c] \in Keys /\ record[o] = Intent(key[c]) /\ sends[o] = 0
    BY <1>10 DEF Forget, IInv, CallInv, OwnerGuardsIntent, SendInv, Dispatching
  <2>2. record[o] # None /\ record[o].phase = "intent" /\ Claimed(o)
    BY <1>10, <2>1, RecordTypes DEF Claimed, Forget, Dispatching
  <2>3. /\ record'[o] = None /\ UNCHANGED sends
        /\ \A p \in Ops \ {o} : record'[p] = record[p]
        /\ op' = op /\ \A d \in Callers \ {c} : pc'[d] = pc[d]
        /\ pc'[c] \notin Dispatching
    BY <1>10, <2>1 DEF Forget, IInv, TypeOK, Dispatching
  <2>4. \A p \in Ops : p # o => Life(p)' = Life(p)
    BY <2>1, <2>3, OtherLives
  <2>5. Life(o) = "claimed" /\ Life(o)' = "free"
    BY <2>1, <2>2, <2>3, LifeCases DEF Life
  <2> QED
    BY <2>4, <2>5, LifeMoves DEF Promise!Next, Promise!Release
<1>11. CASE PowerLoss
  <2>1. ASSUME NEW o \in Ops PROVE Life(o)' \in Promise!Regressions[Life(o)]
    <3>1. /\ record'[o] \in {record[o], disk[o]} /\ UNCHANGED sends /\ sends[o] \in Nat
          /\ ~Claimed(o)' /\ record'[o] \in Record \cup {None}
      BY <1>11 DEF PowerLoss, Claimed, Dispatching, IInv, TypeOK
    <3>2. CASE record[o] # None /\ record[o].phase = "intent" /\ (sends[o] > 0 \/ Claimed(o))
      <4>1. record'[o] = record[o]
        BY <3>1, <3>2 DEF IInv, DiskInv, Claimed
      <4> QED
        BY <3>1, <3>2, <4>1, LifeCases DEF Life, Claimed, Promise!Regressions
    <3>3. CASE sends[o] > 0 /\ record[o].phase # "intent"
      <4>1. record[o] # None /\ record'[o] # None
        BY <3>1, <3>3 DEF IInv, EvidenceSurvives
      <4> QED
        BY <3>1, <3>3, <4>1, LifeCases DEF Life, Claimed, Promise!Regressions, IInv, TypeOK, Record
    <3>4. CASE sends[o] = 0 /\ ~(record[o] # None /\ record[o].phase = "intent" /\ Claimed(o))
      <4>1. Life(o) \in {"free", "abandoned", "settled"}
        BY <3>4, LifeCases DEF Promise!Lives
      <4>2. Life(o)' \in {"free", "abandoned", "settled"}
        BY <3>1, <3>4 DEF Life, Claimed
      <4> QED
        BY <4>1, <4>2 DEF Promise!Regressions
    <3>5. record[o] = None => sends[o] = 0
      BY <3>1 DEF IInv, EvidenceSurvives
    <3> QED
      BY <3>1, <3>2, <3>3, <3>4, <3>5
  <2>2. ASSUME NEW o \in Ops PROVE Life(o)' \in Promise!Lives
    BY LifeCases, <2>2 DEF Promise!Lives, Life
  <2> QED
    BY <2>1, <2>2 DEF Promise!Next, Promise!Restart, lives
<1>12. CASE Tick \/ UNCHANGED vars
  <2>1. UNCHANGED <<record, sends, op, pc>>
    BY <1>12 DEF Tick, vars
  <2> QED
    BY <2>1 DEF lives, Life, Claimed
<1> QED
  BY <1>1, <1>2, <1>3, <1>4, <1>5, <1>6, <1>7, <1>8, <1>9, <1>10, <1>11, <1>12
  DEF Next, Progress, StoreUnavailable, AnswerEvicted, AnswerFromRecord,
      GiveUpWaiting, ClaimRefused, CloseOwner, Crash

(* The store implements TerminateOnce. *)
THEOREM StoreTerminatesOnce == Spec => ImplementsTerminateOnce
<1>1. Init => Promise!Init
  BY DEF Init, Promise!Init, Life, lives
<1>2. IInv /\ IInv' /\ [Next]_vars => [Promise!Next]_lives
  BY RefineStep
<1> QED
  BY <1>1, <1>2, Invariance, PTL DEF Spec, ImplementsTerminateOnce, Promise!Spec

-----------------------------------------------------------------------------
(* Who keeps a request from being tried again. *)

(* A lock file belongs to one operation, a descriptor refers to the lock file of the
   operation of its call, except while a record makes room, and a waiter that polls
   does not hold the lock. *)
FileInv ==
    /\ \A o, p \in Ops : lockFile[o] # None /\ lockFile[o] = lockFile[p] => o = p
    /\ \A c \in Callers, o \in Ops : pc[c] # "unlink" /\ fd[c] # None /\ lockFile[o] = fd[c] => op[c] = o
    /\ \A c \in Callers : pc[c] = "wait" => holder[fd[c]] # c

(* What NobodyHoldsWithoutRecord leaves: an admission that finds the owner lock of its
   operation busy, though there is no record, was kept out by a call about the same
   operation that is over, or by one that waited for that call and only looks for its
   receipt. Neither of them sends anything (reserve, execute). *)
BusyUntilAnswered ==
    \A c \in Callers :
        pc[c] = "own" /\ LockIsBusy(op[c]) =>
            LET d == holder[lockFile[op[c]]]
            IN  op[d] = op[c] /\ (pc[d] = "close" \/ (pc[d] = "enter" /\ seen[d]))

(* Every step preserves whose the lock files are: a new one is a file nobody refers to. *)
LEMMA FileStep == ASSUME IInv, FileInv, [Next]_vars PROVE FileInv'
<1> USE OperationsAssumption DEF Goto, store, caller, history, InReserve, Dispatching, UnderStoreLock, IInv, TypeOK, Steps, LockInv, CallInv, FileInv
<1>1. ASSUME NEW c \in Callers, Leave(c) PROVE FileInv'
  BY <1>1 DEF Leave, Answer, Released
<1>2. ASSUME NEW c \in Callers, Ask(c) PROVE FileInv'
  BY <1>2 DEF Ask
<1>3. ASSUME NEW c \in Callers, EnterStore(c) PROVE FileInv'
  BY <1>3 DEF EnterStore, TakeStoreLock
<1>4. ASSUME NEW c \in Callers, StartAdmission(c) PROVE FileInv'
  BY <1>4 DEF StartAdmission
<1>5. ASSUME NEW c \in Callers, SeeIntent(c) PROVE FileInv'
  BY <1>5 DEF SeeIntent, Released, LockIsCurrent
<1>6. ASSUME NEW c \in Callers, Probe(c) PROVE FileInv'
  <2>1. PICK i \in Inodes : OwnerLock(op[c], i)
    BY <1>6 DEF Probe
  <2>2. op[c] \in Ops /\ UNCHANGED <<holder, op, fd>> /\ pc' \in {[pc EXCEPT ![c] = "settle"], [pc EXCEPT ![c] = "open"]}
    BY <1>6 DEF Probe
  <2>3. \A o \in Ops : lockFile'[o] = lockFile[o] \/ (o = op[c] /\ lockFile'[o] = i /\ Unused(i))
    BY <2>1, <2>2 DEF OwnerLock
  <2>4. \A o, p \in Ops : lockFile'[o] # None /\ lockFile'[o] = lockFile'[p] => o = p
    BY <2>3 DEF Unused
  <2>5. \A e \in Callers, o \in Ops : pc'[e] # "unlink" /\ fd'[e] # None /\ lockFile'[o] = fd'[e] => op'[e] = o
    BY <1>6, <2>2, <2>3 DEF Unused, Probe
  <2>6. \A e \in Callers : pc'[e] = "wait" => holder'[fd'[e]] # e
    BY <2>2
  <2> QED BY <2>4, <2>5, <2>6
<1>7. ASSUME NEW c \in Callers, SettleOrphan(c) PROVE FileInv'
  BY <1>7 DEF SettleOrphan, Answer, Released
<1>8. ASSUME NEW c \in Callers, OpenWaiting(c) PROVE FileInv'
  BY <1>8 DEF OpenWaiting, OwnerLock, Unused
<1>9. ASSUME NEW c \in Callers, WinOwner(c) PROVE FileInv'
  BY <1>9 DEF WinOwner, Flocked, Free
<1>10. ASSUME NEW c \in Callers, NEW o \in Ops, SkipRecord(c, o) PROVE FileInv'
  BY <1>10 DEF SkipRecord, MayExamine, Oldest, Records
<1>11. ASSUME NEW c \in Callers, NEW o \in Ops, PruneRecord(c, o) PROVE FileInv'
  BY <1>11 DEF PruneRecord, MayExamine, Oldest, Records, Flocked, LockIsBusy, Free, Prunable
<1>12. ASSUME NEW c \in Callers, UnlinkLock(c) PROVE FileInv'
  BY <1>12 DEF UnlinkLock, Released
<1>13. ASSUME NEW c \in Callers, SweepLocks(c) PROVE FileInv'
  <2>1. \A o \in Ops : lockFile'[o] \in {lockFile[o], None}
    BY <1>13 DEF SweepLocks
  <2>2. \A e \in Callers \ {c} : pc'[e] = pc[e] /\ op'[e] = op[e] /\ fd'[e] = fd[e]
    BY <1>13 DEF SweepLocks, Answer
  <2>3. fd'[c] = None /\ pc'[c] # "wait"
    BY <1>13 DEF SweepLocks, Answer
  <2>4. \A i \in Inodes : holder'[i] \in {holder[i], None}
    BY <1>13 DEF SweepLocks, Answer, Released
  <2>5. \A e \in Callers : pc[e] = "wait" => fd[e] \in Inodes
    OBVIOUS
  <2>6. \A e \in Callers : pc'[e] = "wait" => holder'[fd'[e]] # e
    BY <2>2, <2>3, <2>4, <2>5
  <2> QED BY <2>1, <2>2, <2>3, <2>6
<1>14. ASSUME NEW c \in Callers, ClaimLock(c) PROVE FileInv'
  <2>1. PICK i \in Inodes : /\ OwnerLock(op[c], i) /\ Flocked(i, c)
                             /\ fd' = [fd EXCEPT ![c] = i] /\ pc' = [pc EXCEPT ![c] = "intent"]
    BY <1>14 DEF ClaimLock
  <2>2. op[c] \in Ops /\ op' = op
    BY <1>14 DEF ClaimLock
  <2>3. \A o \in Ops : lockFile'[o] = lockFile[o] \/ (o = op[c] /\ lockFile'[o] = i /\ Unused(i))
    BY <2>1, <2>2 DEF OwnerLock
  <2>4. lockFile'[op[c]] = i
    BY <2>1, <2>2 DEF OwnerLock
  <2>5. \A o, p \in Ops : lockFile'[o] # None /\ lockFile'[o] = lockFile'[p] => o = p
    BY <2>3 DEF Unused
  <2>6. \A e \in Callers, o \in Ops : pc'[e] # "unlink" /\ fd'[e] # None /\ lockFile'[o] = fd'[e] => op'[e] = o
    <3>1. \A o \in Ops : lockFile'[o] = i => o = op[c]
      BY <2>2, <2>4, <2>5
    <3>2. \A e \in Callers \ {c} : pc'[e] = pc[e] /\ fd'[e] = fd[e]
      BY <2>1
    <3>3. fd'[c] = i
      BY <2>1
    <3> QED BY <2>2, <2>3, <3>1, <3>2, <3>3 DEF Unused
  <2>7. \A e \in Callers : pc'[e] = "wait" => holder'[fd'[e]] # e
    BY <2>1 DEF Flocked
  <2> QED BY <2>5, <2>6, <2>7
<1>15. ASSUME NEW c \in Callers, WriteIntent(c) PROVE FileInv'
  BY <1>15 DEF WriteIntent, Write, Intent
<1>16. ASSUME NEW c \in Callers, IntentNotDurable(c) PROVE FileInv'
  BY <1>16 DEF IntentNotDurable, Write, Intent, Answer, Released
<1>17. ASSUME NEW c \in Callers, Send(c) PROVE FileInv'
  BY <1>17 DEF Send
<1>18. ASSUME NEW c \in Callers, ReturnDocument(c) PROVE FileInv'
  BY <1>18 DEF ReturnDocument
<1>19. ASSUME NEW c \in Callers, DispatchFails(c) PROVE FileInv'
  BY <1>19 DEF DispatchFails
<1>20. ASSUME NEW c \in Callers, EnterSave(c) PROVE FileInv'
  BY <1>20 DEF EnterSave, TakeStoreLock
<1>21. ASSUME NEW c \in Callers, SaveFails(c) PROVE FileInv'
  BY <1>21 DEF SaveFails
<1>22. ASSUME NEW c \in Callers, SaveReceipt(c) PROVE FileInv'
  BY <1>22 DEF SaveReceipt
<1>23. ASSUME NEW c \in Callers, Forget(c) PROVE FileInv'
  BY <1>23 DEF Forget
<1>24. CASE PowerLoss
  BY <1>24 DEF PowerLoss
<1>25. CASE Tick
  BY <1>25 DEF Tick, Capped, RecentReceipt
<1>26. CASE UNCHANGED vars
  BY <1>26 DEF vars
<1> QED
  BY <1>1, <1>2, <1>3, <1>4, <1>5, <1>6, <1>7, <1>8, <1>9, <1>10, <1>11, <1>12, <1>13, <1>14, <1>15, <1>16, <1>17, <1>18, <1>19, <1>20, <1>21, <1>22, <1>23, <1>24, <1>25, <1>26
  DEF Next, Progress, StoreUnavailable, AnswerEvicted, AnswerFromRecord,
      GiveUpWaiting, ClaimRefused, CloseOwner, Crash

(* A request refused because its owner lock is busy was kept out by a call that is over
   or only waits: no request is on its way that the refusal does not tell of. *)
THEOREM RefusedWhileLeaving == Spec => []BusyUntilAnswered
<1>1. Init => FileInv
  BY OperationsAssumption DEF Init, FileInv
<1>2. IInv /\ FileInv /\ [Next]_vars => FileInv'
  BY FileStep
<1>3. IInv /\ FileInv => BusyUntilAnswered
  <2> SUFFICES ASSUME IInv, FileInv, NEW c \in Callers, pc[c] = "own", LockIsBusy(op[c])
               PROVE  LET d == holder[lockFile[op[c]]]
                      IN  op[d] = op[c] /\ (pc[d] = "close" \/ (pc[d] = "enter" /\ seen[d]))
    BY DEF BusyUntilAnswered
  <2> DEFINE i == lockFile[op[c]]
             d == holder[i]
  <2>1. /\ op[c] \in Ops /\ record[op[c]] = None /\ storeLock = c
        /\ i \in Inodes /\ d \in Callers /\ fd[d] = i /\ i # None
    BY OperationsAssumption DEF IInv, TypeOK, LockInv, CallInv, RecordInv, LockIsBusy, Free, UnderStoreLock
  <2> HIDE DEF i, d
  <2>2. d # c
    BY <2>1, OperationsAssumption DEF IInv, CallInv
  <2>3. pc[d] \notin UnderStoreLock
    BY <2>1, <2>2 DEF IInv, LockInv
  <2>4. op[d] = op[c]
    BY <2>1, <2>3 DEF FileInv, UnderStoreLock, i
  <2>5. pc[d] \notin Dispatching
    <3> SUFFICES ASSUME pc[d] \in Dispatching PROVE FALSE
      OBVIOUS
    <3>1. record[op[d]] = Intent(key[d])
      BY <2>1 DEF IInv, OwnerGuardsIntent
    <3>2. key[d] \in Keys
      BY <2>1 DEF IInv, CallInv, Dispatching
    <3> QED BY <2>1, <2>4, <3>1, <3>2, RecordTypes
  <2>6. pc[d] \notin {"idle", "open"}
    BY <2>1, OperationsAssumption DEF IInv, CallInv
  <2>7. pc[d] # "wait"
    BY <2>1 DEF FileInv, d
  <2>8. pc[d] = "enter" => seen[d]
    BY <2>1, OperationsAssumption DEF IInv, CallInv
  <2>9. pc[d] \in Steps
    BY <2>1 DEF IInv, TypeOK
  <2>10. op[d] = op[c] /\ (pc[d] = "close" \/ (pc[d] = "enter" /\ seen[d]))
    BY <2>3, <2>4, <2>5, <2>6, <2>7, <2>8, <2>9 DEF Steps, InReserve, UnderStoreLock
  <2> QED BY <2>10 DEF i, d
<1> QED BY <1>1, <1>2, <1>3, Invariance, PTL DEF Spec

=============================================================================
