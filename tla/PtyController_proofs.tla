------------------------ MODULE PtyController_proofs ------------------------
(***************************************************************************)
(* Proofs about controllers that end sessions by selector, for any number  *)
(* of processes, operation ids, fingerprints and session incarnations, and *)
(* whether or not the machine may stop.                                    *)
(*                                                                         *)
(* The inductive invariant follows a request from its owner's lock to the  *)
(* evidence it leaves: the owner of an operation holds its lock from the   *)
(* reservation on (Owned), the record is therefore the one it wrote last   *)
(* (Recorded), its grant is consumed and bound to what it resolved         *)
(* (Granted), and a request that went out is in the record every reader    *)
(* sees and in the one the machine finds after it stops (Evident).         *)
(***************************************************************************)
EXTENDS PtyController, TLAPS

Owned ==
    \A p \in Procs :
        /\ pc[p] # "idle" => op[p] \in Ops /\ key[p] \in Keys
        /\ pc[p] \in Performing \cup {"failed"} => owner[op[p]] = p

Recorded ==
    \A p \in Procs :
        /\ pc[p] \in Performing => record[op[p]] # None /\ record[op[p]].key = key[p]
        /\ pc[p] \in {"resolve", "bind"} => record[op[p]].phase = "reserved"
        /\ pc[p] \in {"check", "arm"} => record[op[p]].phase = "resolved"
        /\ pc[p] \in {"send", "sent"} => record[op[p]].phase = "dispatch"
        /\ pc[p] \in {"check", "arm", "send", "sent"} => record[op[p]].binding = binding[p]
        /\ pc[p] \in {"bind", "check", "arm", "send", "sent"} => binding[p] \in Incarnations
        /\ pc[p] = "finish" =>
              /\ record[op[p]].phase # "done"
              /\ outcome[p] \in {"no", "yes"}
              /\ outcome[p] = "yes" => record[op[p]].phase = "dispatch"

Granted ==
    \A p \in Procs :
        /\ pc[p] # "idle" => grant[p] # None /\ grant[p].consumed
        /\ pc[p] \in {"arm", "send", "sent"} => binding[p] = grant[p].binding
        /\ grant[p] = None => underGrant[p] = 0 /\ said[p] = NoReceipt
        /\ grant[p] # None /\ ~grant[p].consumed => underGrant[p] = 0
        /\ pc[p] \in {"reserve", "wait", "resolve", "bind", "check", "arm", "send"} => underGrant[p] = 0
        /\ underGrant[p] <= 1

(* A record that admits that its request may be out. *)
Evident(r) == r # None /\ r.phase \in {"dispatch", "done"} /\ r.sent # "no"

Evidence ==
    /\ \A p \in Procs :
        /\ pc[p] \in {"resolve", "bind", "check", "arm", "send"} => sends[op[p]] = 0
        /\ pc[p] = "send" => Evident(record[op[p]]) /\ Evident(disk[op[p]])
        /\ pc[p] = "finish" /\ outcome[p] = "no" => sends[op[p]] = 0
    /\ \A o \in Ops : sends[o] <= 1 /\ (sends[o] > 0 => Evident(record[o]) /\ Evident(disk[o]))

(* What is not resolved for readers is not resolved on disk either. *)
Flushed ==
    /\ \A p \in Procs : pc[p] \in Performing => disk[op[p]] # None /\ disk[op[p]].phase # "done"
    /\ \A o \in Ops : sends[o] > 0 /\ record[o].phase # "done" => disk[o].phase # "done"

(* RecordsReadable, in two parts. *)
StoreOK ==
    /\ record \in [Ops -> Record \cup {None}]
    /\ disk \in [Ops -> Record \cup {None}]
    /\ \A o \in Ops : Readable(record[o]) /\ Readable(disk[o])

RestOK ==
    /\ owner \in [Ops -> Procs \cup {None}]
    /\ current \in Incarnations \cup {None}
    /\ pc \in [Procs -> Performing \cup {"idle", "reserve", "wait", "failed"}]
    /\ op \in [Procs -> Ops \cup {None}]
    /\ key \in [Procs -> Keys \cup {None}]
    /\ seen \in [Procs -> BOOLEAN]
    /\ binding \in [Procs -> Incarnations \cup {None}]
    /\ outcome \in [Procs -> Sent \cup {NoReceipt}]
    /\ said \in [Procs -> Sent \cup {NoReceipt}]
    /\ sends \in [Ops -> Nat]
    /\ grant \in [Procs -> Grant \cup {None}]
    /\ underGrant \in [Procs -> Nat]

IInv == RecordsReadable /\ Owned /\ Recorded /\ Granted /\ Evidence /\ Flushed

(* What records and grants are made of, and what changing a field of one makes. *)
LEMMA Fields ==
    ASSUME NEW r \in Record
    PROVE  /\ r # None /\ r.phase \in Phases /\ r.key \in Keys
           /\ r.binding \in Incarnations \cup {None} /\ r.sent \in Sent \cup {NoReceipt}
  BY SelectorAssumption DEF Record

(* The record a reservation writes. *)
LEMMA Reservation ==
    ASSUME NEW k \in Keys, NEW r,
           r = [phase |-> "reserved", key |-> k, binding |-> None, sent |-> NoReceipt]
    PROVE  /\ r \in Record /\ r # None /\ Readable(r)
           /\ r.phase = "reserved" /\ r.key = k /\ r.sent = NoReceipt
  BY SelectorAssumption DEF Record, Phases, Sent, NoReceipt, Readable

(* What save_phase and the receipts make of a record. *)
Rebind(r, f, b) == [r EXCEPT !.phase = f, !.binding = b]
Close(r, s) == [r EXCEPT !.phase = "done", !.sent = s]

(* A record whose phase is saved with its binding. *)
LEMMA Rebound ==
    ASSUME NEW r \in Record, NEW f \in {"resolved", "dispatch"}, NEW b \in Incarnations
    PROVE  /\ Rebind(r, f, b) \in Record /\ Rebind(r, f, b) # None
           /\ Rebind(r, f, b).phase = f /\ Rebind(r, f, b).binding = b
           /\ Rebind(r, f, b).key = r.key /\ Rebind(r, f, b).sent = r.sent
           /\ r.phase # "done" /\ Readable(r) => Readable(Rebind(r, f, b)) /\ r.sent = NoReceipt
  BY SelectorAssumption DEF Record, Phases, Sent, NoReceipt, Readable, Rebind

(* ... or without touching the binding. *)
LEMMA Armed ==
    ASSUME NEW r \in Record, NEW n, n = [r EXCEPT !.phase = "dispatch"]
    PROVE  /\ n \in Record /\ n # None
           /\ n.phase = "dispatch" /\ n.binding = r.binding /\ n.key = r.key /\ n.sent = r.sent
           /\ r.phase = "resolved" /\ Readable(r) => Readable(n) /\ n.sent = NoReceipt
  BY SelectorAssumption DEF Record, Phases, Sent, NoReceipt, Readable

(* A record that is closed with a receipt. *)
LEMMA Closed ==
    ASSUME NEW r \in Record, NEW s \in Sent
    PROVE  /\ Close(r, s) \in Record /\ Close(r, s) # None
           /\ Close(r, s).phase = "done" /\ Close(r, s).sent = s
           /\ Close(r, s).binding = r.binding /\ Close(r, s).key = r.key
           /\ Readable(r) /\ (r.phase = "dispatch" \/ s = "no") => Readable(Close(r, s))
  BY SelectorAssumption DEF Record, Phases, Sent, NoReceipt, Readable, Close

(* A grant that expires or is consumed is still a grant, of the same binding. *)
LEMMA GrantFacts ==
    \A g \in Grant :
        /\ g # None /\ g.binding \in Incarnations /\ g.op \in Ops /\ g.key \in Keys
        /\ \A n : n = [g EXCEPT !.fresh = FALSE]
            => n \in Grant /\ n.binding = g.binding /\ n.consumed = g.consumed
        /\ \A n : n = [g EXCEPT !.consumed = TRUE]
            => n \in Grant /\ n.binding = g.binding /\ n.consumed
  BY GrantAssumption DEF Grant

(* What select makes is a grant. *)
LEMMA NewGrant ==
    \A o \in Ops, k \in Keys, b \in Incarnations :
        [op |-> o, key |-> k, binding |-> b, fresh |-> TRUE, consumed |-> FALSE] \in Grant
  BY DEF Grant

(* A record is written, durably or not. *)
Wrote(o, r) == record' = [record EXCEPT ![o] = r] /\ disk' \in {disk, record'}

(* Writing a readable record keeps the store readable. *)
LEMMA PutReadable ==
    ASSUME StoreOK, NEW o \in Ops, NEW r \in Record, Readable(r), Wrote(o, r)
    PROVE  /\ StoreOK'
           /\ record'[o] = r
           /\ \A q \in Ops : q # o => record'[q] = record[q]
           /\ \A q \in Ops : disk'[q] = disk[q] \/ disk'[q] = record'[q]
<1>1. \A q \in Ops : record'[q] = (IF q = o THEN r ELSE record[q]) /\ (disk'[q] = disk[q] \/ disk'[q] = record'[q])
  BY DEF StoreOK, Wrote
<1>2. \A q \in Ops : Readable(record'[q]) /\ Readable(disk'[q])
  BY <1>1 DEF StoreOK
<1>3. \A q \in Ops : Readable(record[q])' /\ Readable(disk[q])'
  BY <1>2 DEF Readable
<1> QED
  BY <1>1, <1>3 DEF StoreOK, Wrote

(* Of the steps of execute only Send sends. *)
LEMMA OnlySendSends ==
    ASSUME TypeOK, NEW p \in Procs, ExecuteStep(p), pc[p] # "idle" => op[p] \in Ops
    PROVE  \/ Send(p) /\ underGrant' = [underGrant EXCEPT ![p] = @ + 1] /\ UNCHANGED grant
           \/ Execute(p) /\ UNCHANGED <<grant, underGrant>>
<1>1. CASE Send(p)
  <2>1. sends'[op[p]] # sends[op[p]]
    BY <1>1 DEF Send, TypeOK
  <2> QED
    BY <1>1, <2>1 DEF ExecuteStep
<1>2. CASE ~Send(p)
  <2>1. UNCHANGED sends
    BY <1>2 DEF ExecuteStep, Execute, Reserve, ReserveFails, StoreFull, AnswerFromStore,
       CloseInterrupted, Wait, WinLock, InProgress, Resolve, Bind, Stop, Arm, EndAnswer,
       Finish, Unsaved, AnswerFailed
  <2> QED
    BY <1>2, <2>1 DEF ExecuteStep
<1> QED
  BY <1>1, <1>2

(* The steps there are to consider. *)
LEMMA StepCases ==
    ASSUME IInv, [Next]_vars
    PROVE
      \/ \E p \in Procs : Select(p)
      \/ \E p \in Procs : Revoke(p)
      \/ \E p \in Procs : Expire(p)
      \/ \E p \in Procs, o \in Ops, k \in Keys : DispatchRefused(p, o, k)
      \/ \E p \in Procs, o \in Ops, k \in Keys : Dispatch(p, o, k)
      \/ \E p \in Procs : CheckPasses(p)
      \/ \E p \in Procs : Reserve(p) /\ UNCHANGED <<grant, underGrant>>
      \/ \E p \in Procs : ReserveFails(p) /\ UNCHANGED <<grant, underGrant>>
      \/ \E p \in Procs : StoreFull(p) /\ UNCHANGED <<grant, underGrant>>
      \/ \E p \in Procs : AnswerFromStore(p) /\ UNCHANGED <<grant, underGrant>>
      \/ \E p \in Procs : CloseInterrupted(p) /\ UNCHANGED <<grant, underGrant>>
      \/ \E p \in Procs : (Wait(p) \/ WinLock(p)) /\ UNCHANGED <<grant, underGrant>>
      \/ \E p \in Procs : InProgress(p) /\ UNCHANGED <<grant, underGrant>>
      \/ \E p \in Procs : (Resolve(p) \/ Stop(p) \/ EndAnswer(p)) /\ UNCHANGED <<grant, underGrant>>
      \/ \E p \in Procs : Bind(p) /\ UNCHANGED <<grant, underGrant>>
      \/ \E p \in Procs : Arm(p) /\ UNCHANGED <<grant, underGrant>>
      \/ \E p \in Procs : Send(p) /\ underGrant' = [underGrant EXCEPT ![p] = @ + 1] /\ UNCHANGED grant
      \/ \E p \in Procs : Finish(p) /\ UNCHANGED <<grant, underGrant>>
      \/ \E p \in Procs : Unsaved(p) /\ UNCHANGED <<grant, underGrant>>
      \/ \E p \in Procs : AnswerFailed(p) /\ UNCHANGED <<grant, underGrant>>
      \/ \E p \in Procs : Cancel(p)
      \/ \E p \in Procs : Die(p)
      \/ SessionChanges /\ UNCHANGED <<grant, underGrant>>
      \/ (\E o \in Ops : Evict(o)) /\ UNCHANGED <<grant, underGrant>>
      \/ PowerLoss /\ grant' = [p \in Procs |-> None] /\ underGrant' = [p \in Procs |-> 0]
      \/ UNCHANGED vars
<1>1. CASE UNCHANGED vars
  BY <1>1
<1>2. CASE Environment
  BY <1>2 DEF Environment
<1>3. ASSUME NEW p \in Procs, Step(p), ~ExecuteStep(p)
      PROVE  \/ Select(p) \/ Revoke(p) \/ Expire(p) \/ CheckPasses(p) \/ Cancel(p) \/ Die(p)
             \/ \E o \in Ops, k \in Keys : Dispatch(p, o, k) \/ DispatchRefused(p, o, k)
  BY <1>3 DEF Step
<1>4. ASSUME NEW p \in Procs, ExecuteStep(p)
      PROVE  \/ Send(p) /\ underGrant' = [underGrant EXCEPT ![p] = @ + 1] /\ UNCHANGED grant
             \/ Execute(p) /\ UNCHANGED <<grant, underGrant>>
  BY <1>4, OnlySendSends DEF IInv, RecordsReadable, Owned
<1>5. ASSUME NEW p \in Procs, Execute(p)
      PROVE  \/ Reserve(p) \/ ReserveFails(p) \/ StoreFull(p) \/ AnswerFromStore(p)
             \/ CloseInterrupted(p) \/ Wait(p) \/ WinLock(p) \/ InProgress(p)
             \/ Resolve(p) \/ Stop(p) \/ EndAnswer(p) \/ Bind(p) \/ Arm(p)
             \/ Send(p) \/ Finish(p) \/ Unsaved(p) \/ AnswerFailed(p)
  BY <1>5 DEF Execute
<1>6. ASSUME NEW p \in Procs, Send(p), UNCHANGED underGrant, ExecuteStep(p) PROVE FALSE
  <2>1. sends'[op[p]] # sends[op[p]] /\ underGrant'[p] # underGrant[p]
    BY <1>6 DEF Send, IInv, RecordsReadable, TypeOK, Owned, ExecuteStep
  <2> QED
    BY <1>6, <2>1
<1> QED
  BY <1>1, <1>2, <1>3, <1>4, <1>5, <1>6 DEF Next

(* The store: its types, and that its records are readable. *)
LEMMA StoreSplit == RecordsReadable <=> StoreOK /\ RestOK
  BY DEF RecordsReadable, TypeOK, StoreOK, RestOK

(* Returning an answer keeps the types. *)
LEMMA Returned ==
    ASSUME RestOK, NEW p \in Procs, NEW s \in Sent \cup {NoReceipt}, Return(p, s),
           UNCHANGED <<current, sends, grant, underGrant>>
    PROVE  RestOK'
  BY DEF RestOK, Return, Goto

(* A step that writes no record keeps the store. *)
LEMMA SameStore == ASSUME StoreOK, UNCHANGED <<record, disk>> PROVE StoreOK'
  BY DEF StoreOK, Readable

(* The store keeps its types and stays readable. *)
LEMMA StoreStep == ASSUME IInv, [Next]_vars PROVE StoreOK'
<1> USE SelectorAssumption, GrantAssumption DEF Goto, store, call, selectorVars, Performing
<1>a. StoreOK
  BY StoreSplit DEF IInv
<1>1. ASSUME NEW p \in Procs, Select(p) PROVE StoreOK'
  BY <1>1, SameStore, <1>a DEF Select, Regrant, SetGrant
<1>2. ASSUME NEW p \in Procs, Revoke(p) PROVE StoreOK'
  BY <1>2, SameStore, <1>a DEF Revoke, Regrant, SetGrant
<1>3. ASSUME NEW p \in Procs, Expire(p) PROVE StoreOK'
  BY <1>3, SameStore, <1>a DEF Expire, SetGrant, selectorVars
<1>4. ASSUME NEW p \in Procs, NEW o \in Ops, NEW k \in Keys, DispatchRefused(p, o, k)
      PROVE  StoreOK'
  BY <1>4, SameStore, <1>a DEF DispatchRefused, Regrant, SetGrant
<1>5. ASSUME NEW p \in Procs, NEW o \in Ops, NEW k \in Keys, Dispatch(p, o, k) PROVE StoreOK'
  BY <1>5, SameStore, <1>a DEF Dispatch, SetGrant, Begin
<1>6. ASSUME NEW p \in Procs, CheckPasses(p) PROVE StoreOK'
  BY <1>6, SameStore, <1>a DEF CheckPasses, Pass, Check
<1>7. ASSUME NEW p \in Procs, Reserve(p), UNCHANGED <<grant, underGrant>> PROVE StoreOK'
  <2>1. PICK r : r = [phase |-> "reserved", key |-> key[p], binding |-> None, sent |-> NoReceipt]
                  /\ Wrote(op[p], r) /\ disk' = record'
    BY <1>7 DEF Reserve, Put, Wrote
  <2>2. op[p] \in Ops /\ key[p] \in Keys
    BY <1>7 DEF Reserve, IInv, Owned
  <2>4. r \in Record /\ Readable(r)
    BY <2>1, <2>2, Reservation
  <2> QED
    BY <1>a, <2>1, <2>2, <2>4, PutReadable
<1>8. ASSUME NEW p \in Procs, ReserveFails(p), UNCHANGED <<grant, underGrant>> PROVE StoreOK'
  <2>1. CASE UNCHANGED <<record, disk>>
    BY <1>a, <2>1, SameStore
  <2>2. CASE Put(op[p], [phase |-> "reserved", key |-> key[p], binding |-> None, sent |-> NoReceipt], FALSE)
    <3>1. PICK r : r = [phase |-> "reserved", key |-> key[p], binding |-> None, sent |-> NoReceipt]
                    /\ Wrote(op[p], r)
      BY <2>2 DEF Put, Wrote
    <3>2. op[p] \in Ops /\ key[p] \in Keys
      BY <1>8 DEF ReserveFails, IInv, Owned
    <3>3. r \in Record /\ Readable(r)
      BY <3>1, <3>2, Reservation
    <3> QED
      BY <1>a, <3>1, <3>2, <3>3, PutReadable
  <2> QED
    BY <1>8, <2>1, <2>2 DEF ReserveFails
<1>9. ASSUME NEW p \in Procs, StoreFull(p), UNCHANGED <<grant, underGrant>> PROVE StoreOK'
  BY <1>9, SameStore, <1>a DEF StoreFull, Return
<1>10. ASSUME NEW p \in Procs, AnswerFromStore(p), UNCHANGED <<grant, underGrant>>
      PROVE  StoreOK'
  BY <1>10, SameStore, <1>a DEF AnswerFromStore, Return
<1>11. ASSUME NEW p \in Procs, CloseInterrupted(p), UNCHANGED <<grant, underGrant>>
      PROVE  StoreOK'
  <2>1. PICK s, r : /\ s = InterruptedSent(record[op[p]])
                    /\ r = Close(record[op[p]], s)
                    /\ Wrote(op[p], r)
    <3>1. PICK synced \in BOOLEAN :
            Put(op[p], [record[op[p]] EXCEPT !.phase = "done",
            !.sent = InterruptedSent(record[op[p]])], synced)
      BY <1>11 DEF CloseInterrupted
    <3> QED
      BY <3>1 DEF Put, Wrote, Close
  <2>2. op[p] \in Ops /\ record[op[p]] \in Record /\ Readable(record[op[p]])
    BY <1>11, StoreSplit DEF CloseInterrupted, IInv, Owned, StoreOK
  <2>3. s \in Sent /\ (record[op[p]].phase = "dispatch" \/ s = "no")
    BY <2>1 DEF InterruptedSent, Sent
  <2>4. r \in Record /\ Readable(r)
    BY <2>1, <2>2, <2>3, Closed
  <2> QED
    BY <1>a, <2>1, <2>2, <2>4, PutReadable
<1>12. ASSUME NEW p \in Procs, Wait(p) \/ WinLock(p), UNCHANGED <<grant, underGrant>>
      PROVE  StoreOK'
  BY <1>12, SameStore, <1>a DEF Wait, WinLock
<1>13. ASSUME NEW p \in Procs, InProgress(p), UNCHANGED <<grant, underGrant>> PROVE StoreOK'
  BY <1>13, SameStore, <1>a DEF InProgress, Return
<1>14. ASSUME NEW p \in Procs, Resolve(p) \/ Stop(p) \/ EndAnswer(p), UNCHANGED <<grant, underGrant>>
      PROVE  StoreOK'
  BY <1>14, SameStore, <1>a DEF Resolve, Stop, EndAnswer, Outcome
<1>15. ASSUME NEW p \in Procs, Bind(p), UNCHANGED <<grant, underGrant>> PROVE StoreOK'
  <2>1. PICK r : r = Rebind(record[op[p]], "resolved", binding[p])
                  /\ Wrote(op[p], r) /\ disk' = record'
    BY <1>15 DEF Bind, SavePhase, Put, Wrote, Rebind
  <2>2. /\ op[p] \in Ops /\ record[op[p]] \in Record /\ Readable(record[op[p]])
        /\ record[op[p]].key = key[p]
    BY <1>15, StoreSplit DEF Bind, IInv, Owned, Recorded, StoreOK, Performing
  <2>3. record[op[p]].phase # "done" /\ binding[p] \in Incarnations
    BY <1>15 DEF Bind, IInv, Recorded, Performing
  <2>4. r \in Record /\ Readable(r)
    BY <2>1, <2>2, <2>3, Rebound
  <2> QED
    BY <1>a, <2>1, <2>2, <2>4, PutReadable
<1>16. ASSUME NEW p \in Procs, Arm(p), UNCHANGED <<grant, underGrant>> PROVE StoreOK'
  <2>1. PICK r : r = Rebind(record[op[p]], "dispatch", binding[p])
                  /\ Wrote(op[p], r) /\ disk' = record'
    BY <1>16 DEF Arm, SavePhase, Put, Wrote, Rebind
  <2>2. /\ op[p] \in Ops /\ record[op[p]] \in Record /\ Readable(record[op[p]])
        /\ record[op[p]].key = key[p]
    BY <1>16, StoreSplit DEF Arm, IInv, Owned, Recorded, StoreOK, Performing
  <2>3. record[op[p]].phase # "done" /\ binding[p] \in Incarnations
    BY <1>16 DEF Arm, IInv, Recorded, Performing
  <2>4. r \in Record /\ Readable(r)
    BY <2>1, <2>2, <2>3, Rebound
  <2> QED
    BY <1>a, <2>1, <2>2, <2>4, PutReadable
<1>17. ASSUME NEW p \in Procs, Send(p), underGrant' = [underGrant EXCEPT ![p] = @ + 1], UNCHANGED grant
      PROVE  StoreOK'
  BY <1>17, SameStore, <1>a DEF Send
<1>18. ASSUME NEW p \in Procs, Finish(p), UNCHANGED <<grant, underGrant>> PROVE StoreOK'
  <2>1. PICK r : r = Close(record[op[p]], outcome[p])
                  /\ Wrote(op[p], r) /\ disk' = record'
    BY <1>18 DEF Finish, Put, Wrote, Close
  <2>2. /\ op[p] \in Ops /\ record[op[p]] \in Record /\ Readable(record[op[p]])
        /\ record[op[p]].key = key[p]
    BY <1>18, StoreSplit DEF Finish, IInv, Owned, Recorded, StoreOK, Performing
  <2>3. outcome[p] \in Sent /\ (record[op[p]].phase = "dispatch" \/ outcome[p] = "no")
    BY <1>18 DEF Finish, IInv, Recorded, Sent, Performing
  <2>4. r \in Record /\ Readable(r)
    BY <2>1, <2>2, <2>3, Closed
  <2> QED
    BY <1>a, <2>1, <2>2, <2>4, PutReadable
<1>19. ASSUME NEW p \in Procs, Unsaved(p), UNCHANGED <<grant, underGrant>> PROVE StoreOK'
  <2>2. /\ op[p] \in Ops /\ record[op[p]] \in Record /\ Readable(record[op[p]])
        /\ record[op[p]].key = key[p]
    BY <1>19, StoreSplit DEF Unsaved, IInv, Owned, Recorded, StoreOK, Performing
  <2>3. CASE pc[p] = "bind"
             /\ Put(op[p], [record[op[p]] EXCEPT !.phase = "resolved", !.binding = binding[p]], FALSE)
    <3>1. PICK r : r = Rebind(record[op[p]], "resolved", binding[p])
                    /\ Wrote(op[p], r)
      BY <2>3 DEF Put, Wrote, Rebind, Close
    <3>2. record[op[p]].phase # "done" /\ binding[p] \in Incarnations
      BY <2>3 DEF IInv, Recorded, Sent, Performing
    <3>3. r \in Record /\ Readable(r)
      BY <2>2, <3>1, <3>2, Rebound
    <3> QED
      BY <1>a, <2>2, <3>1, <3>3, PutReadable
  <2>4. CASE pc[p] = "arm"
             /\ Put(op[p], [record[op[p]] EXCEPT !.phase = "dispatch"], FALSE)
    <3>1. PICK r : r = [record[op[p]] EXCEPT !.phase = "dispatch"]
                    /\ Wrote(op[p], r)
      BY <2>4 DEF Put, Wrote, Rebind, Close
    <3>2. record[op[p]].phase = "resolved"
      BY <2>4 DEF IInv, Recorded, Sent, Performing
    <3>3. r \in Record /\ Readable(r)
      BY <2>2, <3>1, <3>2, Armed
    <3> QED
      BY <1>a, <2>2, <3>1, <3>3, PutReadable
  <2>5. CASE pc[p] = "finish"
             /\ Put(op[p], [record[op[p]] EXCEPT !.phase = "done", !.sent = outcome[p]], FALSE)
    <3>1. PICK r : r = Close(record[op[p]], outcome[p])
                    /\ Wrote(op[p], r)
      BY <2>5 DEF Put, Wrote, Rebind, Close
    <3>2. outcome[p] \in Sent /\ (record[op[p]].phase = "dispatch" \/ outcome[p] = "no")
      BY <2>5 DEF IInv, Recorded, Sent, Performing
    <3>3. r \in Record /\ Readable(r)
      BY <2>2, <3>1, <3>2, Closed
    <3> QED
      BY <1>a, <2>2, <3>1, <3>3, PutReadable
  <2>6. CASE UNCHANGED <<record, disk>>
    BY <1>a, <2>6, SameStore
  <2> QED
    BY <1>19, <2>3, <2>4, <2>5, <2>6 DEF Unsaved
<1>20. ASSUME NEW p \in Procs, AnswerFailed(p), UNCHANGED <<grant, underGrant>> PROVE StoreOK'
  BY <1>20, SameStore, <1>a DEF AnswerFailed, KnownSent, Return
<1>21. ASSUME NEW p \in Procs, Cancel(p) PROVE StoreOK'
  BY <1>21, SameStore, <1>a DEF Cancel, Abort, Return
<1>22. ASSUME NEW p \in Procs, Die(p) PROVE StoreOK'
  BY <1>22, SameStore, <1>a DEF Die, Abort, Return, SetGrant
<1>23. CASE SessionChanges /\ UNCHANGED <<grant, underGrant>>
  BY <1>23, SameStore, <1>a DEF SessionChanges
<1>24. CASE (\E o \in Ops : Evict(o)) /\ UNCHANGED <<grant, underGrant>>
  BY <1>24, <1>a DEF Evict, StoreOK, Readable
<1>25. CASE PowerLoss /\ grant' = [p \in Procs |-> None] /\ underGrant' = [p \in Procs |-> 0]
  BY <1>25, <1>a DEF PowerLoss, StoreOK, Readable
<1>26. CASE UNCHANGED vars
  BY <1>26, SameStore, <1>a DEF vars
<1> QED
  BY <1>1, <1>2, <1>3, <1>4, <1>5, <1>6, <1>7, <1>8, <1>9, <1>10, <1>11, <1>12, <1>13, <1>14,
     <1>15, <1>16, <1>17, <1>18, <1>19, <1>20, <1>21, <1>22, <1>23, <1>24, <1>25, <1>26, StepCases

(* The other variables keep their types. *)
LEMMA RestStep == ASSUME IInv, [Next]_vars PROVE RestOK'
<1> USE SelectorAssumption, GrantAssumption DEF Goto, store, call, selectorVars, Performing, RestOK
<1>a. RestOK /\ \A p \in Procs : pc[p] # "idle" => op[p] \in Ops /\ key[p] \in Keys
  BY StoreSplit DEF IInv, Owned
<1>1. ASSUME NEW p \in Procs, Select(p) PROVE RestOK'
  <2>1. PICK g \in Grant \cup {None} : Regrant(p, g)
    BY <1>1, <1>a, NewGrant DEF Select
  <2> QED
    BY <1>a, <2>1 DEF Regrant, SetGrant
<1>2. ASSUME NEW p \in Procs, Revoke(p) PROVE RestOK'
  BY <1>2, <1>a DEF Revoke, Regrant, SetGrant
<1>3. ASSUME NEW p \in Procs, Expire(p) PROVE RestOK'
  BY <1>3, <1>a, GrantFacts DEF Expire, SetGrant, selectorVars
<1>4. ASSUME NEW p \in Procs, NEW o \in Ops, NEW k \in Keys, DispatchRefused(p, o, k)
      PROVE  RestOK'
  BY <1>4, <1>a DEF DispatchRefused, Regrant, SetGrant
<1>5. ASSUME NEW p \in Procs, NEW o \in Ops, NEW k \in Keys, Dispatch(p, o, k) PROVE RestOK'
  BY <1>5, <1>a, GrantFacts DEF Dispatch, SetGrant, Begin
<1>6. ASSUME NEW p \in Procs, CheckPasses(p) PROVE RestOK'
  BY <1>6, <1>a DEF CheckPasses, Pass, Check
<1>7. ASSUME NEW p \in Procs, Reserve(p), UNCHANGED <<grant, underGrant>> PROVE RestOK'
  BY <1>7, <1>a DEF Reserve, Put
<1>8. ASSUME NEW p \in Procs, ReserveFails(p), UNCHANGED <<grant, underGrant>> PROVE RestOK'
  BY <1>8, <1>a DEF ReserveFails, Return, Sent
<1>9. ASSUME NEW p \in Procs, StoreFull(p), UNCHANGED <<grant, underGrant>> PROVE RestOK'
  BY <1>9, <1>a DEF StoreFull, Return, Sent
<1>10. ASSUME NEW p \in Procs, AnswerFromStore(p), UNCHANGED <<grant, underGrant>>
      PROVE  RestOK'
  <2>1. record[op[p]] # None => record[op[p]].sent \in Sent \cup {NoReceipt}
    BY <1>10, <1>a, StoreSplit, Fields DEF AnswerFromStore, StoreOK, IInv
  <2>2. \E s \in Sent \cup {NoReceipt} : Return(p, s)
    BY <1>10, <2>1 DEF AnswerFromStore, Sent
  <2> QED
    BY <1>10, <1>a, <2>2, Returned DEF AnswerFromStore
<1>11. ASSUME NEW p \in Procs, CloseInterrupted(p), UNCHANGED <<grant, underGrant>>
      PROVE  RestOK'
  <2>1. InterruptedSent(record[op[p]]) \in Sent /\ "unknown" \in Sent
    BY DEF InterruptedSent, Sent
  <2> QED
    BY <1>11, <1>a, <2>1 DEF CloseInterrupted, Return
<1>12. ASSUME NEW p \in Procs, Wait(p) \/ WinLock(p), UNCHANGED <<grant, underGrant>>
      PROVE  RestOK'
  <2>1. CASE Wait(p)
    BY <1>12, <1>a, <2>1 DEF Wait
  <2>2. CASE WinLock(p)
    BY <1>12, <1>a, <2>2 DEF WinLock
  <2> QED
    BY <1>12, <2>1, <2>2
<1>13. ASSUME NEW p \in Procs, InProgress(p), UNCHANGED <<grant, underGrant>> PROVE RestOK'
  BY <1>13, <1>a DEF InProgress, Return, Sent
<1>14. ASSUME NEW p \in Procs, Resolve(p) \/ Stop(p) \/ EndAnswer(p), UNCHANGED <<grant, underGrant>>
      PROVE  RestOK'
  BY <1>14, <1>a DEF Resolve, Stop, EndAnswer, Outcome, Sent
<1>15. ASSUME NEW p \in Procs, Bind(p), UNCHANGED <<grant, underGrant>> PROVE RestOK'
  BY <1>15, <1>a DEF Bind, SavePhase, Put
<1>16. ASSUME NEW p \in Procs, Arm(p), UNCHANGED <<grant, underGrant>> PROVE RestOK'
  BY <1>16, <1>a DEF Arm, SavePhase, Put
<1>17. ASSUME NEW p \in Procs, Send(p), underGrant' = [underGrant EXCEPT ![p] = @ + 1], UNCHANGED grant
      PROVE  RestOK'
  BY <1>17, <1>a DEF Send
<1>18. ASSUME NEW p \in Procs, Finish(p), UNCHANGED <<grant, underGrant>> PROVE RestOK'
  BY <1>18, <1>a DEF Finish, Put, Return
<1>19. ASSUME NEW p \in Procs, Unsaved(p), UNCHANGED <<grant, underGrant>> PROVE RestOK'
  BY <1>19, <1>a DEF Unsaved, Put
<1>20. ASSUME NEW p \in Procs, AnswerFailed(p), UNCHANGED <<grant, underGrant>> PROVE RestOK'
  <2>1. KnownSent(record[op[p]], key[p]) \in Sent \cup {NoReceipt}
    BY <1>20, <1>a, StoreSplit, Fields DEF AnswerFailed, StoreOK, IInv, KnownSent, Sent
  <2>2. \E s \in Sent \cup {NoReceipt} : Return(p, s)
    BY <1>20, <2>1 DEF AnswerFailed, Sent
  <2> QED
    BY <1>20, <1>a, <2>2, Returned DEF AnswerFailed
<1>21. ASSUME NEW p \in Procs, Cancel(p) PROVE RestOK'
  BY <1>21, <1>a DEF Cancel, Abort, Return
<1>22. ASSUME NEW p \in Procs, Die(p) PROVE RestOK'
  BY <1>22, <1>a DEF Die, Abort, Return, SetGrant
<1>23. CASE SessionChanges /\ UNCHANGED <<grant, underGrant>>
  BY <1>23, <1>a DEF SessionChanges
<1>24. CASE (\E o \in Ops : Evict(o)) /\ UNCHANGED <<grant, underGrant>>
  BY <1>24, <1>a DEF Evict
<1>25. CASE PowerLoss /\ grant' = [p \in Procs |-> None] /\ underGrant' = [p \in Procs |-> 0]
  BY <1>25, <1>a DEF PowerLoss
<1>26. CASE UNCHANGED vars
  BY <1>26, <1>a DEF vars
<1> QED
  BY <1>1, <1>2, <1>3, <1>4, <1>5, <1>6, <1>7, <1>8, <1>9, <1>10, <1>11, <1>12, <1>13, <1>14,
     <1>15, <1>16, <1>17, <1>18, <1>19, <1>20, <1>21, <1>22, <1>23, <1>24, <1>25, <1>26, StepCases

(* An owner keeps its lock ... *)
LEMMA OwnedStep == ASSUME IInv, [Next]_vars PROVE Owned'
<1> USE SelectorAssumption, GrantAssumption DEF Goto, store, call, selectorVars, Performing, IInv,
   RecordsReadable, TypeOK, Evident,
      Owned
<1>1. ASSUME NEW p \in Procs, Select(p) PROVE Owned'
  BY <1>1 DEF Select, Regrant, SetGrant
<1>2. ASSUME NEW p \in Procs, Revoke(p) PROVE Owned'
  BY <1>2 DEF Revoke, Regrant, SetGrant
<1>3. ASSUME NEW p \in Procs, Expire(p) PROVE Owned'
  BY <1>3 DEF Expire, SetGrant, selectorVars
<1>4. ASSUME NEW p \in Procs, NEW o \in Ops, NEW k \in Keys, DispatchRefused(p, o, k)
      PROVE  Owned'
  BY <1>4 DEF DispatchRefused, Regrant, SetGrant
<1>5. ASSUME NEW p \in Procs, NEW o \in Ops, NEW k \in Keys, Dispatch(p, o, k) PROVE Owned'
  BY <1>5 DEF Dispatch, SetGrant, Begin
<1>6. ASSUME NEW p \in Procs, CheckPasses(p) PROVE Owned'
  BY <1>6 DEF CheckPasses, Pass, Check
<1>7. ASSUME NEW p \in Procs, Reserve(p), UNCHANGED <<grant, underGrant>> PROVE Owned'
  BY <1>7 DEF Reserve, Put
<1>8. ASSUME NEW p \in Procs, ReserveFails(p), UNCHANGED <<grant, underGrant>> PROVE Owned'
  BY <1>8 DEF ReserveFails, Put, Return
<1>9. ASSUME NEW p \in Procs, StoreFull(p), UNCHANGED <<grant, underGrant>> PROVE Owned'
  BY <1>9 DEF StoreFull, Return
<1>10. ASSUME NEW p \in Procs, AnswerFromStore(p), UNCHANGED <<grant, underGrant>> PROVE Owned'
  BY <1>10 DEF AnswerFromStore, Return
<1>11. ASSUME NEW p \in Procs, CloseInterrupted(p), UNCHANGED <<grant, underGrant>>
      PROVE  Owned'
  BY <1>11 DEF CloseInterrupted, InterruptedSent, Put, Return
<1>12. ASSUME NEW p \in Procs, Wait(p) \/ WinLock(p), UNCHANGED <<grant, underGrant>>
      PROVE  Owned'
  BY <1>12 DEF Wait, WinLock
<1>13. ASSUME NEW p \in Procs, InProgress(p), UNCHANGED <<grant, underGrant>> PROVE Owned'
  BY <1>13 DEF InProgress, Return
<1>14. ASSUME NEW p \in Procs, Resolve(p) \/ Stop(p) \/ EndAnswer(p), UNCHANGED <<grant, underGrant>>
      PROVE  Owned'
  BY <1>14 DEF Resolve, Stop, EndAnswer, Outcome
<1>15. ASSUME NEW p \in Procs, Bind(p), UNCHANGED <<grant, underGrant>> PROVE Owned'
  BY <1>15 DEF Bind, SavePhase, Put
<1>16. ASSUME NEW p \in Procs, Arm(p), UNCHANGED <<grant, underGrant>> PROVE Owned'
  BY <1>16 DEF Arm, SavePhase, Put
<1>17. ASSUME NEW p \in Procs, Send(p), underGrant' = [underGrant EXCEPT ![p] = @ + 1], UNCHANGED grant
      PROVE  Owned'
  BY <1>17 DEF Send
<1>18. ASSUME NEW p \in Procs, Finish(p), UNCHANGED <<grant, underGrant>> PROVE Owned'
  BY <1>18 DEF Finish, Put, Return
<1>19. ASSUME NEW p \in Procs, Unsaved(p), UNCHANGED <<grant, underGrant>> PROVE Owned'
  BY <1>19 DEF Unsaved, Put
<1>20. ASSUME NEW p \in Procs, AnswerFailed(p), UNCHANGED <<grant, underGrant>> PROVE Owned'
  BY <1>20 DEF AnswerFailed, KnownSent, Return
<1>21. ASSUME NEW p \in Procs, Cancel(p) PROVE Owned'
  BY <1>21 DEF Cancel, Abort, Return
<1>22. ASSUME NEW p \in Procs, Die(p) PROVE Owned'
  BY <1>22 DEF Die, Abort, Return, SetGrant
<1>23. CASE SessionChanges /\ UNCHANGED <<grant, underGrant>>
  BY <1>23 DEF SessionChanges
<1>24. CASE (\E o \in Ops : Evict(o)) /\ UNCHANGED <<grant, underGrant>>
  BY <1>24 DEF Evict
<1>25. CASE PowerLoss /\ grant' = [p \in Procs |-> None] /\ underGrant' = [p \in Procs |-> 0]
  BY <1>25 DEF PowerLoss
<1>26. CASE UNCHANGED vars
  BY <1>26 DEF vars
<1> QED
  BY <1>1, <1>2, <1>3, <1>4, <1>5, <1>6, <1>7, <1>8, <1>9, <1>10, <1>11, <1>12, <1>13, <1>14,
     <1>15, <1>16, <1>17, <1>18, <1>19, <1>20, <1>21, <1>22, <1>23, <1>24, <1>25, <1>26, StepCases

(* ... and its record. *)
LEMMA RecordedStep == ASSUME IInv, [Next]_vars PROVE Recorded'
<1> USE SelectorAssumption, GrantAssumption DEF Goto, store, call, selectorVars, Performing, IInv,
   RecordsReadable, TypeOK, Evident,
      Owned, Recorded, Readable, Record
<1>a. StoreOK
  BY StoreSplit
<1>1. ASSUME NEW p \in Procs, Select(p) PROVE Recorded'
  BY <1>1 DEF Select, Regrant, SetGrant
<1>2. ASSUME NEW p \in Procs, Revoke(p) PROVE Recorded'
  BY <1>2 DEF Revoke, Regrant, SetGrant
<1>3. ASSUME NEW p \in Procs, Expire(p) PROVE Recorded'
  BY <1>3 DEF Expire, SetGrant, selectorVars
<1>4. ASSUME NEW p \in Procs, NEW o \in Ops, NEW k \in Keys, DispatchRefused(p, o, k)
      PROVE  Recorded'
  BY <1>4 DEF DispatchRefused, Regrant, SetGrant
<1>5. ASSUME NEW p \in Procs, NEW o \in Ops, NEW k \in Keys, Dispatch(p, o, k) PROVE Recorded'
  BY <1>5 DEF Dispatch, SetGrant, Begin
<1>6. ASSUME NEW p \in Procs, CheckPasses(p) PROVE Recorded'
  BY <1>6 DEF CheckPasses, Pass, Check
<1>7. ASSUME NEW p \in Procs, Reserve(p), UNCHANGED <<grant, underGrant>> PROVE Recorded'
  <2>1. PICK r : r = [phase |-> "reserved", key |-> key[p], binding |-> None, sent |-> NoReceipt]
                  /\ Wrote(op[p], r) /\ disk' = record'
    BY <1>7 DEF Reserve, Put, Wrote
  <2>2. op[p] \in Ops /\ key[p] \in Keys
    BY <1>7 DEF Reserve, IInv, Owned
  <2>4. r \in Record /\ Readable(r) /\ r # None /\ r.key = key[p] /\ r.phase = "reserved"
    BY <2>1, <2>2, Reservation
  <2>5. record'[op[p]] = r /\ \A q \in Ops : q # op[p] => record'[q] = record[q]
    BY <1>a, <2>1, <2>2, <2>4, PutReadable
  <2>6. \A q \in Procs : q # p /\ pc[q] \in Performing => op[q] # op[p]
    BY <1>7 DEF Reserve
  <2> QED
    BY <1>7, <2>2, <2>4, <2>5, <2>6 DEF Reserve
<1>8. ASSUME NEW p \in Procs, ReserveFails(p), UNCHANGED <<grant, underGrant>> PROVE Recorded'
  BY <1>8 DEF ReserveFails, Put, Return
<1>9. ASSUME NEW p \in Procs, StoreFull(p), UNCHANGED <<grant, underGrant>> PROVE Recorded'
  BY <1>9 DEF StoreFull, Return
<1>10. ASSUME NEW p \in Procs, AnswerFromStore(p), UNCHANGED <<grant, underGrant>>
      PROVE  Recorded'
  BY <1>10 DEF AnswerFromStore, Return
<1>11. ASSUME NEW p \in Procs, CloseInterrupted(p), UNCHANGED <<grant, underGrant>>
      PROVE  Recorded'
  BY <1>11 DEF CloseInterrupted, InterruptedSent, Put, Return
<1>12. ASSUME NEW p \in Procs, Wait(p) \/ WinLock(p), UNCHANGED <<grant, underGrant>>
      PROVE  Recorded'
  BY <1>12 DEF Wait, WinLock
<1>13. ASSUME NEW p \in Procs, InProgress(p), UNCHANGED <<grant, underGrant>> PROVE Recorded'
  BY <1>13 DEF InProgress, Return
<1>14. ASSUME NEW p \in Procs, Resolve(p) \/ Stop(p) \/ EndAnswer(p), UNCHANGED <<grant, underGrant>>
      PROVE  Recorded'
  BY <1>14 DEF Resolve, Stop, EndAnswer, Outcome
<1>15. ASSUME NEW p \in Procs, Bind(p), UNCHANGED <<grant, underGrant>> PROVE Recorded'
  <2>1. PICK r : r = Rebind(record[op[p]], "resolved", binding[p])
                  /\ Wrote(op[p], r) /\ disk' = record'
    BY <1>15 DEF Bind, SavePhase, Put, Wrote, Rebind
  <2>2. /\ op[p] \in Ops /\ record[op[p]] \in Record /\ Readable(record[op[p]])
        /\ record[op[p]].key = key[p]
    BY <1>15, StoreSplit DEF Bind, IInv, Owned, Recorded, StoreOK, Performing
  <2>3. record[op[p]].phase # "done" /\ binding[p] \in Incarnations
    BY <1>15 DEF Bind, IInv, Recorded, Performing
  <2>4. r \in Record /\ Readable(r) /\ r # None /\ r.key = key[p] /\ r.phase = "resolved" /\ r.binding = binding[p]
    BY <2>1, <2>2, <2>3, Rebound
  <2>5. record'[op[p]] = r /\ \A q \in Ops : q # op[p] => record'[q] = record[q]
    BY <1>a, <2>1, <2>2, <2>4, PutReadable
  <2>6. \A q \in Procs : q # p /\ pc[q] \in Performing => op[q] # op[p]
    BY <1>15 DEF Bind
  <2> QED
    BY <1>15, <2>2, <2>3, <2>4, <2>5, <2>6 DEF Bind
<1>16. ASSUME NEW p \in Procs, Arm(p), UNCHANGED <<grant, underGrant>> PROVE Recorded'
  <2>1. PICK r : r = Rebind(record[op[p]], "dispatch", binding[p])
                  /\ Wrote(op[p], r) /\ disk' = record'
    BY <1>16 DEF Arm, SavePhase, Put, Wrote, Rebind
  <2>2. /\ op[p] \in Ops /\ record[op[p]] \in Record /\ Readable(record[op[p]])
        /\ record[op[p]].key = key[p]
    BY <1>16, StoreSplit DEF Arm, IInv, Owned, Recorded, StoreOK, Performing
  <2>3. record[op[p]].phase # "done" /\ binding[p] \in Incarnations
    BY <1>16 DEF Arm, IInv, Recorded, Performing
  <2>4. r \in Record /\ Readable(r) /\ r # None /\ r.key = key[p] /\ r.phase = "dispatch" /\ r.binding = binding[p]
    BY <2>1, <2>2, <2>3, Rebound
  <2>5. record'[op[p]] = r /\ \A q \in Ops : q # op[p] => record'[q] = record[q]
    BY <1>a, <2>1, <2>2, <2>4, PutReadable
  <2>6. \A q \in Procs : q # p /\ pc[q] \in Performing => op[q] # op[p]
    BY <1>16 DEF Arm
  <2> QED
    BY <1>16, <2>2, <2>3, <2>4, <2>5, <2>6 DEF Arm
<1>17. ASSUME NEW p \in Procs, Send(p), underGrant' = [underGrant EXCEPT ![p] = @ + 1], UNCHANGED grant
      PROVE  Recorded'
  BY <1>17 DEF Send
<1>18. ASSUME NEW p \in Procs, Finish(p), UNCHANGED <<grant, underGrant>> PROVE Recorded'
  BY <1>18 DEF Finish, Put, Return
<1>19. ASSUME NEW p \in Procs, Unsaved(p), UNCHANGED <<grant, underGrant>> PROVE Recorded'
  BY <1>19 DEF Unsaved, Put
<1>20. ASSUME NEW p \in Procs, AnswerFailed(p), UNCHANGED <<grant, underGrant>> PROVE Recorded'
  BY <1>20 DEF AnswerFailed, KnownSent, Return
<1>21. ASSUME NEW p \in Procs, Cancel(p) PROVE Recorded'
  BY <1>21 DEF Cancel, Abort, Return
<1>22. ASSUME NEW p \in Procs, Die(p) PROVE Recorded'
  BY <1>22 DEF Die, Abort, Return, SetGrant
<1>23. CASE SessionChanges /\ UNCHANGED <<grant, underGrant>>
  BY <1>23 DEF SessionChanges
<1>24. CASE (\E o \in Ops : Evict(o)) /\ UNCHANGED <<grant, underGrant>>
  BY <1>24 DEF Evict
<1>25. CASE PowerLoss /\ grant' = [p \in Procs |-> None] /\ underGrant' = [p \in Procs |-> 0]
  BY <1>25 DEF PowerLoss
<1>26. CASE UNCHANGED vars
  BY <1>26 DEF vars
<1> QED
  BY <1>1, <1>2, <1>3, <1>4, <1>5, <1>6, <1>7, <1>8, <1>9, <1>10, <1>11, <1>12, <1>13, <1>14,
     <1>15, <1>16, <1>17, <1>18, <1>19, <1>20, <1>21, <1>22, <1>23, <1>24, <1>25, <1>26, StepCases

(* What is unresolved is unresolved on disk. *)
LEMMA FlushedStep == ASSUME IInv, [Next]_vars PROVE Flushed'
<1> USE SelectorAssumption, GrantAssumption DEF Goto, store, call, selectorVars, Performing, IInv,
   RecordsReadable, TypeOK, Evident,
      Owned, Recorded, Evidence, Flushed
<1>a. StoreOK
  BY StoreSplit
<1>1. ASSUME NEW p \in Procs, Select(p) PROVE Flushed'
  BY <1>1 DEF Select, Regrant, SetGrant
<1>2. ASSUME NEW p \in Procs, Revoke(p) PROVE Flushed'
  BY <1>2 DEF Revoke, Regrant, SetGrant
<1>3. ASSUME NEW p \in Procs, Expire(p) PROVE Flushed'
  BY <1>3 DEF Expire, SetGrant, selectorVars
<1>4. ASSUME NEW p \in Procs, NEW o \in Ops, NEW k \in Keys, DispatchRefused(p, o, k)
      PROVE  Flushed'
  BY <1>4 DEF DispatchRefused, Regrant, SetGrant
<1>5. ASSUME NEW p \in Procs, NEW o \in Ops, NEW k \in Keys, Dispatch(p, o, k) PROVE Flushed'
  BY <1>5 DEF Dispatch, SetGrant, Begin
<1>6. ASSUME NEW p \in Procs, CheckPasses(p) PROVE Flushed'
  BY <1>6 DEF CheckPasses, Pass, Check
<1>7. ASSUME NEW p \in Procs, Reserve(p), UNCHANGED <<grant, underGrant>> PROVE Flushed'
  <2> HIDE DEF Readable, Record, Granted
  <2>1. PICK r : r = [phase |-> "reserved", key |-> key[p], binding |-> None, sent |-> NoReceipt]
                  /\ Wrote(op[p], r) /\ disk' = record'
    BY <1>7 DEF Reserve, SavePhase, Put, Wrote, Rebind
  <2>2. op[p] \in Ops /\ key[p] \in Keys
    BY <1>7 DEF Reserve
  <2>3. r \in Record /\ Readable(r) /\ r # None /\ r.phase # "done"
    BY <2>1, <2>2, Reservation
  <2>4. record'[op[p]] = r /\ \A o \in Ops : o # op[p] => record'[o] = record[o]
    BY <1>a, <2>1, <2>2, <2>3, PutReadable
  <2>5. /\ \A q \in Procs : pc[q] \in Performing => op[q] \in Ops /\ record[op[q]] # None
        /\ \A q \in Procs : q # p /\ pc[q] \in Performing => op[q] # op[p]
        /\ \A q \in Procs : q # p /\ pc[q] \in Performing => record[op[q]].phase # "done"
        /\ UNCHANGED <<op, sends>>
        /\ \E s \in Performing : pc' = [pc EXCEPT ![p] = s]
        /\ pc \in [Procs -> Performing \cup {"idle", "reserve", "wait", "failed"}]
    BY <1>7 DEF Reserve
  <2> HIDE DEF IInv, Owned, Recorded, Evidence, Performing
  <2>6. ASSUME NEW q \in Procs, pc'[q] \in Performing
        PROVE  record'[op[q]] # None /\ record'[op[q]].phase # "done"
    BY <2>2, <2>3, <2>4, <2>5, <2>6
  <2> QED
    BY <2>1, <2>5, <2>6
<1>8. ASSUME NEW p \in Procs, ReserveFails(p), UNCHANGED <<grant, underGrant>> PROVE Flushed'
  BY <1>8 DEF ReserveFails, Put, Return
<1>9. ASSUME NEW p \in Procs, StoreFull(p), UNCHANGED <<grant, underGrant>> PROVE Flushed'
  BY <1>9 DEF StoreFull, Return
<1>10. ASSUME NEW p \in Procs, AnswerFromStore(p), UNCHANGED <<grant, underGrant>>
      PROVE  Flushed'
  BY <1>10 DEF AnswerFromStore, Return
<1>11. ASSUME NEW p \in Procs, CloseInterrupted(p), UNCHANGED <<grant, underGrant>>
      PROVE  Flushed'
  BY <1>11 DEF CloseInterrupted, InterruptedSent, Put, Return
<1>12. ASSUME NEW p \in Procs, Wait(p) \/ WinLock(p), UNCHANGED <<grant, underGrant>>
      PROVE  Flushed'
  BY <1>12 DEF Wait, WinLock
<1>13. ASSUME NEW p \in Procs, InProgress(p), UNCHANGED <<grant, underGrant>> PROVE Flushed'
  BY <1>13 DEF InProgress, Return
<1>14. ASSUME NEW p \in Procs, Resolve(p) \/ Stop(p) \/ EndAnswer(p), UNCHANGED <<grant, underGrant>>
      PROVE  Flushed'
  BY <1>14 DEF Resolve, Stop, EndAnswer, Outcome
<1>15. ASSUME NEW p \in Procs, Bind(p), UNCHANGED <<grant, underGrant>> PROVE Flushed'
  <2> HIDE DEF Readable, Record, Granted
  <2>1. PICK r : r = Rebind(record[op[p]], "resolved", binding[p])
                  /\ Wrote(op[p], r) /\ disk' = record'
    BY <1>15 DEF Bind, SavePhase, Put, Wrote, Rebind
  <2>2. /\ op[p] \in Ops /\ record[op[p]] \in Record /\ Readable(record[op[p]])
        /\ record[op[p]].phase # "done" /\ binding[p] \in Incarnations
    BY <1>15, <1>a DEF Bind, StoreOK
  <2>3. r \in Record /\ Readable(r) /\ r # None /\ r.phase # "done"
    <3> HIDE DEF IInv, Owned, Recorded, Evidence, Flushed, StoreOK, Wrote
    <3> QED
      BY <2>1, <2>2, Rebound
  <2>4. record'[op[p]] = r /\ \A o \in Ops : o # op[p] => record'[o] = record[o]
    BY <1>a, <2>1, <2>2, <2>3, PutReadable
  <2>5. /\ \A q \in Procs : pc[q] \in Performing => op[q] \in Ops /\ record[op[q]] # None
        /\ \A q \in Procs : q # p /\ pc[q] \in Performing => op[q] # op[p]
        /\ \A q \in Procs : q # p /\ pc[q] \in Performing => record[op[q]].phase # "done"
        /\ UNCHANGED <<op, sends>>
        /\ \E s \in Performing : pc' = [pc EXCEPT ![p] = s]
        /\ pc \in [Procs -> Performing \cup {"idle", "reserve", "wait", "failed"}]
    BY <1>15 DEF Bind
  <2> HIDE DEF IInv, Owned, Recorded, Evidence, Performing
  <2>6. ASSUME NEW q \in Procs, pc'[q] \in Performing
        PROVE  record'[op[q]] # None /\ record'[op[q]].phase # "done"
    BY <2>2, <2>3, <2>4, <2>5, <2>6
  <2> QED
    BY <2>1, <2>5, <2>6
<1>16. ASSUME NEW p \in Procs, Arm(p), UNCHANGED <<grant, underGrant>> PROVE Flushed'
  <2> HIDE DEF Readable, Record, Granted
  <2>1. PICK r : r = Rebind(record[op[p]], "dispatch", binding[p])
                  /\ Wrote(op[p], r) /\ disk' = record'
    BY <1>16 DEF Arm, SavePhase, Put, Wrote, Rebind
  <2>2. /\ op[p] \in Ops /\ record[op[p]] \in Record /\ Readable(record[op[p]])
        /\ record[op[p]].phase # "done" /\ binding[p] \in Incarnations
    BY <1>16, <1>a DEF Arm, StoreOK
  <2>3. r \in Record /\ Readable(r) /\ r # None /\ r.phase # "done"
    <3> HIDE DEF IInv, Owned, Recorded, Evidence, Flushed, StoreOK, Wrote
    <3> QED
      BY <2>1, <2>2, Rebound
  <2>4. record'[op[p]] = r /\ \A o \in Ops : o # op[p] => record'[o] = record[o]
    BY <1>a, <2>1, <2>2, <2>3, PutReadable
  <2>5. /\ \A q \in Procs : pc[q] \in Performing => op[q] \in Ops /\ record[op[q]] # None
        /\ \A q \in Procs : q # p /\ pc[q] \in Performing => op[q] # op[p]
        /\ \A q \in Procs : q # p /\ pc[q] \in Performing => record[op[q]].phase # "done"
        /\ UNCHANGED <<op, sends>>
        /\ \E s \in Performing : pc' = [pc EXCEPT ![p] = s]
        /\ pc \in [Procs -> Performing \cup {"idle", "reserve", "wait", "failed"}]
    BY <1>16 DEF Arm
  <2> HIDE DEF IInv, Owned, Recorded, Evidence, Performing
  <2>6. ASSUME NEW q \in Procs, pc'[q] \in Performing
        PROVE  record'[op[q]] # None /\ record'[op[q]].phase # "done"
    BY <2>2, <2>3, <2>4, <2>5, <2>6
  <2> QED
    BY <2>1, <2>5, <2>6
<1>17. ASSUME NEW p \in Procs, Send(p), underGrant' = [underGrant EXCEPT ![p] = @ + 1], UNCHANGED grant
      PROVE  Flushed'
  BY <1>17 DEF Send
<1>18. ASSUME NEW p \in Procs, Finish(p), UNCHANGED <<grant, underGrant>> PROVE Flushed'
  BY <1>18 DEF Finish, Put, Return
<1>19. ASSUME NEW p \in Procs, Unsaved(p), UNCHANGED <<grant, underGrant>> PROVE Flushed'
  BY <1>19 DEF Unsaved, Put
<1>20. ASSUME NEW p \in Procs, AnswerFailed(p), UNCHANGED <<grant, underGrant>> PROVE Flushed'
  BY <1>20 DEF AnswerFailed, KnownSent, Return
<1>21. ASSUME NEW p \in Procs, Cancel(p) PROVE Flushed'
  BY <1>21 DEF Cancel, Abort, Return
<1>22. ASSUME NEW p \in Procs, Die(p) PROVE Flushed'
  BY <1>22 DEF Die, Abort, Return, SetGrant
<1>23. CASE SessionChanges /\ UNCHANGED <<grant, underGrant>>
  BY <1>23 DEF SessionChanges
<1>24. CASE (\E o \in Ops : Evict(o)) /\ UNCHANGED <<grant, underGrant>>
  BY <1>24 DEF Evict
<1>25. CASE PowerLoss /\ grant' = [p \in Procs |-> None] /\ underGrant' = [p \in Procs |-> 0]
  BY <1>25 DEF PowerLoss
<1>26. CASE UNCHANGED vars
  BY <1>26 DEF vars
<1> QED
  BY <1>1, <1>2, <1>3, <1>4, <1>5, <1>6, <1>7, <1>8, <1>9, <1>10, <1>11, <1>12, <1>13, <1>14,
     <1>15, <1>16, <1>17, <1>18, <1>19, <1>20, <1>21, <1>22, <1>23, <1>24, <1>25, <1>26, StepCases

(* A grant is consumed once, and what it was bound to is what is sent. *)
LEMMA GrantedStep == ASSUME IInv, [Next]_vars PROVE Granted'
<1> USE SelectorAssumption, GrantAssumption DEF Goto, store, call, selectorVars, Performing, IInv,
   RecordsReadable, TypeOK, Evident,
      Owned, Recorded, Granted, Grant
<1>1. ASSUME NEW p \in Procs, Select(p) PROVE Granted'
  BY <1>1 DEF Select, Regrant, SetGrant
<1>2. ASSUME NEW p \in Procs, Revoke(p) PROVE Granted'
  BY <1>2 DEF Revoke, Regrant, SetGrant
<1>3. ASSUME NEW p \in Procs, Expire(p) PROVE Granted'
  BY <1>3, GrantFacts DEF Expire, SetGrant, selectorVars
<1>4. ASSUME NEW p \in Procs, NEW o \in Ops, NEW k \in Keys, DispatchRefused(p, o, k)
      PROVE  Granted'
  BY <1>4 DEF DispatchRefused, Regrant, SetGrant
<1>5. ASSUME NEW p \in Procs, NEW o \in Ops, NEW k \in Keys, Dispatch(p, o, k) PROVE Granted'
  BY <1>5, GrantFacts DEF Dispatch, SetGrant, Begin
<1>6. ASSUME NEW p \in Procs, CheckPasses(p) PROVE Granted'
  BY <1>6 DEF CheckPasses, Pass, Check
<1>7. ASSUME NEW p \in Procs, Reserve(p), UNCHANGED <<grant, underGrant>> PROVE Granted'
  BY <1>7 DEF Reserve, Put
<1>8. ASSUME NEW p \in Procs, ReserveFails(p), UNCHANGED <<grant, underGrant>> PROVE Granted'
  BY <1>8 DEF ReserveFails, Put, Return
<1>9. ASSUME NEW p \in Procs, StoreFull(p), UNCHANGED <<grant, underGrant>> PROVE Granted'
  BY <1>9 DEF StoreFull, Return
<1>10. ASSUME NEW p \in Procs, AnswerFromStore(p), UNCHANGED <<grant, underGrant>>
      PROVE  Granted'
  BY <1>10 DEF AnswerFromStore, Return
<1>11. ASSUME NEW p \in Procs, CloseInterrupted(p), UNCHANGED <<grant, underGrant>>
      PROVE  Granted'
  BY <1>11 DEF CloseInterrupted, InterruptedSent, Put, Return
<1>12. ASSUME NEW p \in Procs, Wait(p) \/ WinLock(p), UNCHANGED <<grant, underGrant>>
      PROVE  Granted'
  BY <1>12 DEF Wait, WinLock
<1>13. ASSUME NEW p \in Procs, InProgress(p), UNCHANGED <<grant, underGrant>> PROVE Granted'
  BY <1>13 DEF InProgress, Return
<1>14. ASSUME NEW p \in Procs, Resolve(p) \/ Stop(p) \/ EndAnswer(p), UNCHANGED <<grant, underGrant>>
      PROVE  Granted'
  BY <1>14 DEF Resolve, Stop, EndAnswer, Outcome
<1>15. ASSUME NEW p \in Procs, Bind(p), UNCHANGED <<grant, underGrant>> PROVE Granted'
  BY <1>15 DEF Bind, SavePhase, Put
<1>16. ASSUME NEW p \in Procs, Arm(p), UNCHANGED <<grant, underGrant>> PROVE Granted'
  BY <1>16 DEF Arm, SavePhase, Put
<1>17. ASSUME NEW p \in Procs, Send(p), underGrant' = [underGrant EXCEPT ![p] = @ + 1], UNCHANGED grant
      PROVE  Granted'
  BY <1>17 DEF Send
<1>18. ASSUME NEW p \in Procs, Finish(p), UNCHANGED <<grant, underGrant>> PROVE Granted'
  BY <1>18 DEF Finish, Put, Return
<1>19. ASSUME NEW p \in Procs, Unsaved(p), UNCHANGED <<grant, underGrant>> PROVE Granted'
  BY <1>19 DEF Unsaved, Put
<1>20. ASSUME NEW p \in Procs, AnswerFailed(p), UNCHANGED <<grant, underGrant>> PROVE Granted'
  BY <1>20 DEF AnswerFailed, KnownSent, Return
<1>21. ASSUME NEW p \in Procs, Cancel(p) PROVE Granted'
  BY <1>21 DEF Cancel, Abort, Return
<1>22. ASSUME NEW p \in Procs, Die(p) PROVE Granted'
  BY <1>22 DEF Die, Abort, Return, SetGrant
<1>23. CASE SessionChanges /\ UNCHANGED <<grant, underGrant>>
  BY <1>23 DEF SessionChanges
<1>24. CASE (\E o \in Ops : Evict(o)) /\ UNCHANGED <<grant, underGrant>>
  BY <1>24 DEF Evict
<1>25. CASE PowerLoss /\ grant' = [p \in Procs |-> None] /\ underGrant' = [p \in Procs |-> 0]
  BY <1>25 DEF PowerLoss
<1>26. CASE UNCHANGED vars
  BY <1>26 DEF vars
<1> QED
  BY <1>1, <1>2, <1>3, <1>4, <1>5, <1>6, <1>7, <1>8, <1>9, <1>10, <1>11, <1>12, <1>13, <1>14,
     <1>15, <1>16, <1>17, <1>18, <1>19, <1>20, <1>21, <1>22, <1>23, <1>24, <1>25, <1>26, StepCases

(* A request that went out leaves evidence. *)
LEMMA EvidenceStep == ASSUME IInv, [Next]_vars PROVE Evidence'
<1> USE SelectorAssumption, GrantAssumption DEF Goto, store, call, selectorVars, Performing, IInv,
   RecordsReadable, TypeOK, Evident,
      Owned, Recorded, Readable, Record, Evidence, Granted
<1>a. StoreOK
  BY StoreSplit
<1>1. ASSUME NEW p \in Procs, Select(p) PROVE Evidence'
  BY <1>1 DEF Select, Regrant, SetGrant
<1>2. ASSUME NEW p \in Procs, Revoke(p) PROVE Evidence'
  BY <1>2 DEF Revoke, Regrant, SetGrant
<1>3. ASSUME NEW p \in Procs, Expire(p) PROVE Evidence'
  BY <1>3 DEF Expire, SetGrant, selectorVars
<1>4. ASSUME NEW p \in Procs, NEW o \in Ops, NEW k \in Keys, DispatchRefused(p, o, k)
      PROVE  Evidence'
  BY <1>4 DEF DispatchRefused, Regrant, SetGrant
<1>5. ASSUME NEW p \in Procs, NEW o \in Ops, NEW k \in Keys, Dispatch(p, o, k) PROVE Evidence'
  BY <1>5 DEF Dispatch, SetGrant, Begin
<1>6. ASSUME NEW p \in Procs, CheckPasses(p) PROVE Evidence'
  BY <1>6 DEF CheckPasses, Pass, Check
<1>7. ASSUME NEW p \in Procs, Reserve(p), UNCHANGED <<grant, underGrant>> PROVE Evidence'
  BY <1>7 DEF Reserve, Put
<1>8. ASSUME NEW p \in Procs, ReserveFails(p), UNCHANGED <<grant, underGrant>> PROVE Evidence'
  BY <1>8 DEF ReserveFails, Put, Return
<1>9. ASSUME NEW p \in Procs, StoreFull(p), UNCHANGED <<grant, underGrant>> PROVE Evidence'
  BY <1>9 DEF StoreFull, Return
<1>10. ASSUME NEW p \in Procs, AnswerFromStore(p), UNCHANGED <<grant, underGrant>>
      PROVE  Evidence'
  BY <1>10 DEF AnswerFromStore, Return
<1>11. ASSUME NEW p \in Procs, CloseInterrupted(p), UNCHANGED <<grant, underGrant>>
      PROVE  Evidence'
  <2>1. PICK s, r : /\ s = InterruptedSent(record[op[p]])
                    /\ r = Close(record[op[p]], s)
                    /\ Wrote(op[p], r)
    <3>1. PICK synced \in BOOLEAN :
            Put(op[p], [record[op[p]] EXCEPT !.phase = "done",
            !.sent = InterruptedSent(record[op[p]])], synced)
      BY <1>11 DEF CloseInterrupted
    <3> QED
      BY <3>1 DEF Put, Wrote, Close
  <2>2. op[p] \in Ops /\ record[op[p]] \in Record /\ Readable(record[op[p]])
    BY <1>11, StoreSplit DEF CloseInterrupted, IInv, Owned, StoreOK
  <2>3. s \in Sent /\ (record[op[p]].phase = "dispatch" \/ s = "no")
    BY <2>1 DEF InterruptedSent, Sent
  <2>4. r \in Record /\ Readable(r) /\ r # None /\ r.phase = "done" /\ r.sent = s
    BY <2>1, <2>2, <2>3, Closed
  <2>5. /\ record'[op[p]] = r /\ \A q \in Ops : q # op[p] => record'[q] = record[q]
        /\ \A q \in Ops : disk'[q] = disk[q] \/ disk'[q] = record'[q]
    BY <1>a, <2>1, <2>2, <2>4, PutReadable
  <2>6. sends[op[p]] > 0 => s = "yes"
    BY <1>11, <2>1, <2>2 DEF CloseInterrupted, InterruptedSent
  <2>7. \A q \in Ops : sends[q] > 0 => Evident(record'[q]) /\ Evident(disk'[q])
    BY <2>4, <2>5, <2>6
  <2>8. \A q \in Procs : pc[q] = "send" => op[q] \in Ops /\ op[q] # op[p]
    BY <1>11, <2>2 DEF CloseInterrupted
  <2>9. \A q \in Procs : pc[q] = "send" => Evident(record'[op[q]]) /\ Evident(disk'[op[q]])
    BY <2>5, <2>8
  <2>10. /\ \A q \in Procs :
              /\ pc[q] \in {"resolve", "bind", "check", "arm", "send"} => sends[op[q]] = 0
              /\ pc[q] = "finish" /\ outcome[q] = "no" => sends[op[q]] = 0
         /\ \A q \in Ops : sends[q] <= 1
         /\ pc \in [Procs -> Performing \cup {"idle", "reserve", "wait", "failed"}]
         /\ \E s2 : Return(p, s2)
         /\ UNCHANGED sends
         /\ op \in [Procs -> Ops \cup {None}] /\ outcome \in [Procs -> Sent \cup {NoReceipt}]
    BY <1>11 DEF CloseInterrupted
  <2> HIDE DEF IInv, Owned, Recorded, Granted, Readable, Record, Evident
  <2>11. ASSUME NEW q \in Procs
         PROVE  /\ pc'[q] \in {"resolve", "bind", "check", "arm", "send"} => sends'[op'[q]] = 0
                /\ pc'[q] = "send" => Evident(record'[op'[q]]) /\ Evident(disk'[op'[q]])
                /\ pc'[q] = "finish" /\ outcome'[q] = "no" => sends'[op'[q]] = 0
    BY <2>9, <2>10 DEF Return
  <2>12. \A q \in Ops : sends'[q] <= 1 /\ (sends'[q] > 0 => Evident(record'[q]) /\ Evident(disk'[q]))
    BY <2>7, <2>10
  <2> QED
    BY <2>11, <2>12 DEF Evident
<1>12. ASSUME NEW p \in Procs, Wait(p) \/ WinLock(p), UNCHANGED <<grant, underGrant>>
      PROVE  Evidence'
  BY <1>12 DEF Wait, WinLock
<1>13. ASSUME NEW p \in Procs, InProgress(p), UNCHANGED <<grant, underGrant>> PROVE Evidence'
  BY <1>13 DEF InProgress, Return
<1>14. ASSUME NEW p \in Procs, Resolve(p) \/ Stop(p) \/ EndAnswer(p), UNCHANGED <<grant, underGrant>>
      PROVE  Evidence'
  BY <1>14 DEF Resolve, Stop, EndAnswer, Outcome
<1>15. ASSUME NEW p \in Procs, Bind(p), UNCHANGED <<grant, underGrant>> PROVE Evidence'
  BY <1>15 DEF Bind, SavePhase, Put
<1>16. ASSUME NEW p \in Procs, Arm(p), UNCHANGED <<grant, underGrant>> PROVE Evidence'
  <2>1. PICK r : r = Rebind(record[op[p]], "dispatch", binding[p])
                  /\ Wrote(op[p], r) /\ disk' = record'
    BY <1>16 DEF Arm, SavePhase, Put, Wrote, Rebind
  <2>2. /\ op[p] \in Ops /\ record[op[p]] \in Record /\ Readable(record[op[p]])
        /\ record[op[p]].key = key[p]
    BY <1>16, StoreSplit DEF Arm, IInv, Owned, Recorded, StoreOK, Performing
  <2>3. record[op[p]].phase # "done" /\ binding[p] \in Incarnations
    BY <1>16 DEF Arm, IInv, Recorded, Performing
  <2>4. r \in Record /\ Readable(r) /\ r # None /\ r.key = key[p] /\ r.phase = "dispatch" /\ r.sent = NoReceipt
    BY <2>1, <2>2, <2>3, Rebound
  <2>5. /\ record'[op[p]] = r /\ \A q \in Ops : q # op[p] => record'[q] = record[q]
        /\ \A q \in Ops : disk'[q] = record'[q]
    BY <1>a, <2>1, <2>2, <2>4, PutReadable
  <2>6. Evident(r) /\ sends[op[p]] = 0
    BY <1>16, <2>4 DEF Arm, NoReceipt
  <2>7. \A q \in Procs : q # p /\ pc[q] = "send" => op[q] # op[p]
    BY <1>16 DEF Arm
  <2>8. /\ \A q \in Procs : pc[q] # "idle" => op[q] \in Ops
        /\ \A q \in Ops : sends[q] <= 1 /\ (sends[q] > 0 => Evident(record[q]))
        /\ pc[p] = "arm" /\ pc' = [pc EXCEPT ![p] = "send"]
        /\ UNCHANGED <<op, outcome, sends>>
        /\ pc \in [Procs -> Performing \cup {"idle", "reserve", "wait", "failed"}]
    BY <1>16 DEF Arm
  <2>9. \A q \in Ops : sends[q] > 0 => Evident(record'[q]) /\ Evident(disk'[q])
    BY <2>5, <2>6, <2>8
  <2>10. \A q \in Procs :
          /\ pc[q] \in {"resolve", "bind", "check", "arm", "send"} => sends[op[q]] = 0
          /\ pc[q] = "send" => Evident(record[op[q]])
          /\ pc[q] = "finish" /\ outcome[q] = "no" => sends[op[q]] = 0
    OBVIOUS
  <2> HIDE DEF IInv, Owned, Recorded, Granted, Readable, Record, Evident
  <2>11. ASSUME NEW q \in Procs
         PROVE  /\ pc'[q] \in {"resolve", "bind", "check", "arm", "send"} => sends'[op'[q]] = 0
                /\ pc'[q] = "send" => Evident(record'[op'[q]]) /\ Evident(disk'[op'[q]])
                /\ pc'[q] = "finish" /\ outcome'[q] = "no" => sends'[op'[q]] = 0
    BY <2>2, <2>5, <2>6, <2>7, <2>8, <2>10
  <2>12. \A q \in Ops : sends'[q] <= 1 /\ (sends'[q] > 0 => Evident(record'[q]) /\ Evident(disk'[q]))
    BY <2>8, <2>9
  <2> QED
    BY <2>11, <2>12 DEF Evident
<1>17. ASSUME NEW p \in Procs, Send(p), underGrant' = [underGrant EXCEPT ![p] = @ + 1], UNCHANGED grant
      PROVE  Evidence'
  <2> HIDE DEF Readable, Record, Granted
  <2>1. op[p] \in Ops /\ sends[op[p]] = 0 /\ Evident(record[op[p]]) /\ Evident(disk[op[p]])
    BY <1>17 DEF Send
  <2> QED
    BY <1>17, <2>1 DEF Send
<1>18. ASSUME NEW p \in Procs, Finish(p), UNCHANGED <<grant, underGrant>> PROVE Evidence'
  <2>1. PICK r : r = Close(record[op[p]], outcome[p])
                  /\ Wrote(op[p], r) /\ disk' = record'
    BY <1>18 DEF Finish, Put, Wrote, Close
  <2>2. /\ op[p] \in Ops /\ record[op[p]] \in Record /\ Readable(record[op[p]])
        /\ record[op[p]].key = key[p]
    BY <1>18, StoreSplit DEF Finish, IInv, Owned, Recorded, StoreOK, Performing
  <2>3. outcome[p] \in Sent /\ (record[op[p]].phase = "dispatch" \/ outcome[p] = "no")
    BY <1>18 DEF Finish, IInv, Recorded, Sent, Performing
  <2>4. r \in Record /\ Readable(r) /\ r # None /\ r.phase = "done" /\ r.sent = outcome[p]
    BY <2>1, <2>2, <2>3, Closed
  <2>5. /\ record'[op[p]] = r /\ \A q \in Ops : q # op[p] => record'[q] = record[q]
        /\ \A q \in Ops : disk'[q] = disk[q] \/ disk'[q] = record'[q]
    BY <1>a, <2>1, <2>2, <2>4, PutReadable
  <2>6. sends[op[p]] > 0 => outcome[p] # "no"
    BY <1>18, <2>2 DEF Finish
  <2>7. \A q \in Ops : sends[q] > 0 => Evident(record'[q]) /\ Evident(disk'[q])
    BY <2>4, <2>5, <2>6
  <2>8. \A q \in Procs : pc[q] = "send" => op[q] \in Ops /\ op[q] # op[p]
    BY <1>18, <2>2 DEF Finish
  <2>9. \A q \in Procs : pc[q] = "send" => Evident(record'[op[q]]) /\ Evident(disk'[op[q]])
    BY <2>5, <2>8
  <2>10. /\ \A q \in Procs :
              /\ pc[q] \in {"resolve", "bind", "check", "arm", "send"} => sends[op[q]] = 0
              /\ pc[q] = "finish" /\ outcome[q] = "no" => sends[op[q]] = 0
         /\ \A q \in Ops : sends[q] <= 1
         /\ pc \in [Procs -> Performing \cup {"idle", "reserve", "wait", "failed"}]
         /\ \E s2 : Return(p, s2)
         /\ UNCHANGED sends
         /\ op \in [Procs -> Ops \cup {None}] /\ outcome \in [Procs -> Sent \cup {NoReceipt}]
    BY <1>18 DEF Finish
  <2> HIDE DEF IInv, Owned, Recorded, Granted, Readable, Record, Evident
  <2>11. ASSUME NEW q \in Procs
         PROVE  /\ pc'[q] \in {"resolve", "bind", "check", "arm", "send"} => sends'[op'[q]] = 0
                /\ pc'[q] = "send" => Evident(record'[op'[q]]) /\ Evident(disk'[op'[q]])
                /\ pc'[q] = "finish" /\ outcome'[q] = "no" => sends'[op'[q]] = 0
    BY <2>9, <2>10 DEF Return
  <2>12. \A q \in Ops : sends'[q] <= 1 /\ (sends'[q] > 0 => Evident(record'[q]) /\ Evident(disk'[q]))
    BY <2>7, <2>10
  <2> QED
    BY <2>11, <2>12 DEF Evident
<1>19. ASSUME NEW p \in Procs, Unsaved(p), UNCHANGED <<grant, underGrant>> PROVE Evidence'
  <2> HIDE DEF Readable, Record, Granted
  <2>1. UNCHANGED sends /\ op[p] \in Ops /\ disk' = disk /\ UNCHANGED <<op, outcome>>
        /\ pc' = [pc EXCEPT ![p] = "failed"]
    BY <1>19 DEF Unsaved, Put
  <2>2. \A q \in Ops : q # op[p] => record'[q] = record[q]
    BY <1>19, <1>a DEF Unsaved, Put, StoreOK
  <2>3. sends[op[p]] > 0 => Evident(record'[op[p]])
    <3>1. op[p] \in Ops /\ record[op[p]] \in Record /\ Readable(record[op[p]])
      BY <1>19, <1>a DEF Unsaved, StoreOK
    <3>2. CASE pc[p] = "finish"
               /\ Put(op[p], [record[op[p]] EXCEPT !.phase = "done", !.sent = outcome[p]], FALSE)
      <4>1. record'[op[p]] = Close(record[op[p]], outcome[p]) /\ outcome[p] \in Sent
        BY <1>a, <3>1, <3>2 DEF Put, Close, StoreOK, Sent
      <4> QED
        BY <3>1, <3>2, <4>1, Closed
    <3>3. CASE pc[p] \in {"bind", "arm"}
      BY <3>1, <3>3
    <3>4. CASE UNCHANGED <<record, disk>>
      BY <3>1, <3>4
    <3> QED
      BY <1>19, <3>2, <3>3, <3>4 DEF Unsaved
  <2>4. \A q \in Procs : pc[q] = "send" => op[q] \in Ops /\ (q # p => op[q] # op[p])
    BY <1>19 DEF Unsaved
  <2>5. \A q \in Ops : sends[q] > 0 => Evident(record'[q]) /\ Evident(disk'[q])
    BY <2>1, <2>2, <2>3
  <2>6. \A q \in Procs :
          /\ pc[q] \in {"resolve", "bind", "check", "arm", "send"} => sends[op[q]] = 0
          /\ pc[q] = "send" => Evident(record[op[q]]) /\ Evident(disk[op[q]])
          /\ pc[q] = "finish" /\ outcome[q] = "no" => sends[op[q]] = 0
    OBVIOUS
  <2>7. (\A q \in Ops : sends[q] <= 1) /\ pc \in [Procs -> Performing \cup {"idle", "reserve", "wait", "failed"}]
    OBVIOUS
  <2> HIDE DEF IInv, Owned, Recorded, Evident
  <2>8. ASSUME NEW q \in Procs
        PROVE  /\ pc'[q] \in {"resolve", "bind", "check", "arm", "send"} => sends'[op'[q]] = 0
               /\ pc'[q] = "send" => Evident(record'[op'[q]]) /\ Evident(disk'[op'[q]])
               /\ pc'[q] = "finish" /\ outcome'[q] = "no" => sends'[op'[q]] = 0
    BY <2>1, <2>2, <2>4, <2>6, <2>7
  <2>9. \A q \in Ops : sends'[q] <= 1 /\ (sends'[q] > 0 => Evident(record'[q]) /\ Evident(disk'[q]))
    BY <2>1, <2>5, <2>7
  <2> QED
    BY <2>8, <2>9 DEF Evident
<1>20. ASSUME NEW p \in Procs, AnswerFailed(p), UNCHANGED <<grant, underGrant>> PROVE Evidence'
  BY <1>20 DEF AnswerFailed, KnownSent, Return
<1>21. ASSUME NEW p \in Procs, Cancel(p) PROVE Evidence'
  BY <1>21 DEF Cancel, Abort, Return
<1>22. ASSUME NEW p \in Procs, Die(p) PROVE Evidence'
  BY <1>22 DEF Die, Abort, Return, SetGrant
<1>23. CASE SessionChanges /\ UNCHANGED <<grant, underGrant>>
  BY <1>23 DEF SessionChanges
<1>24. CASE (\E o \in Ops : Evict(o)) /\ UNCHANGED <<grant, underGrant>>
  BY <1>24 DEF Evict
<1>25. CASE PowerLoss /\ grant' = [p \in Procs |-> None] /\ underGrant' = [p \in Procs |-> 0]
  <2>1. /\ \A o \in Ops : record'[o] \in {record[o], disk[o]}
        /\ disk' = record' /\ sends' = sends /\ \A p \in Procs : pc'[p] = "idle"
    BY <1>25 DEF PowerLoss
  <2>2. \A o \in Ops : sends[o] <= 1 /\ (sends[o] > 0 => Evident(record[o]) /\ Evident(disk[o]))
    OBVIOUS
  <2>3. \A o \in Ops : sends'[o] <= 1 /\ (sends'[o] > 0 => Evident(record'[o]) /\ Evident(disk'[o]))
    <3> HIDE DEF IInv, Evidence
    <3> QED BY <2>1, <2>2
  <2> QED BY <2>1, <2>3
<1>26. CASE UNCHANGED vars
  BY <1>26 DEF vars
<1> QED
  BY <1>1, <1>2, <1>3, <1>4, <1>5, <1>6, <1>7, <1>8, <1>9, <1>10, <1>11, <1>12, <1>13, <1>14,
     <1>15, <1>16, <1>17, <1>18, <1>19, <1>20, <1>21, <1>22, <1>23, <1>24, <1>25, <1>26, StepCases

(* Nothing is reserved, granted or sent at first. *)
LEMMA InitInv == InitController => IInv
<1> SUFFICES ASSUME InitController PROVE IInv
  OBVIOUS
<1>1. RecordsReadable
  BY SelectorAssumption, GrantAssumption
  DEF InitController, Init, RecordsReadable, TypeOK, Readable, Sent, NoReceipt
<1>2. Owned /\ Recorded /\ Granted /\ Evidence /\ Flushed
  BY DEF InitController, Init, Owned, Recorded, Granted, Evidence, Flushed, Performing
<1> QED
  BY <1>1, <1>2 DEF IInv

(* The invariant is inductive. *)
LEMMA InvStep == ASSUME IInv, [Next]_vars PROVE IInv'
<1>1. RecordsReadable'
  BY StoreStep, RestStep DEF RecordsReadable, TypeOK, StoreOK, RestOK
<1> QED
  BY <1>1, OwnedStep, RecordedStep, GrantedStep, EvidenceStep, FlushedStep DEF IInv

(* The inductive invariant holds in every reachable state. *)
THEOREM Invariance == Spec => []IInv
<1>1. IInv /\ [Next]_vars => IInv'
  BY InvStep
<1> QED
  BY InitInv, <1>1, PTL DEF Spec

(* A retained record is one its reader accepts, also after the machine stopped. *)
THEOREM EveryRecordReadable == Spec => []RecordsReadable
<1>1. IInv => RecordsReadable
  BY DEF IInv
<1> QED
  BY Invariance, <1>1, PTL

(* A request goes to the incarnation its user selected, which the record names. *)
THEOREM RequestIsBound == Spec => []BoundToSelection
<1>1. IInv => BoundToSelection
  BY DEF IInv, Recorded, Granted, BoundToSelection, Performing
<1> QED
  BY Invariance, <1>1, PTL

(* One selection sends at most one request. *)
THEOREM SelectionSendsOnce == Spec => []OneSendPerSelection
<1>1. IInv => OneSendPerSelection
  BY DEF IInv, Granted, OneSendPerSelection
<1> QED
  BY Invariance, <1>1, PTL

(* One operation id sends at most one request while its record is retained. *)
THEOREM OperationSendsOnce == Spec => []OneSendPerOperation
<1>1. IInv => OneSendPerOperation
  BY DEF IInv, Evidence, OneSendPerOperation
<1> QED
  BY Invariance, <1>1, PTL

(* No record says unsent of a request that went out. *)
THEOREM RecordsAreHonest == Spec => []HonestRecord
<1>1. IInv => HonestRecord
  BY DEF IInv, RecordsReadable, TypeOK, Evidence, Evident, HonestRecord
<1> QED
  BY Invariance, <1>1, PTL

(* An answer that says unsent to the owner of a fingerprint. *)
RefusedUnsent(p) ==
    /\ pc[p] # "idle" /\ pc'[p] = "idle" /\ said'[p] = "no"
    /\ record[op[p]] # None /\ record[op[p]].key = key[p]

UnsentIsTrue == \A q \in Procs : RefusedUnsent(q) => sends[op[q]] = 0

(* ... is true, whichever step gives it. *)
LEMMA RefusalStep ==
    ASSUME IInv, [Next]_vars
    PROVE  UnsentIsTrue
<1> USE SelectorAssumption, GrantAssumption DEF Goto, store, call, selectorVars, Performing, IInv,
   RecordsReadable, TypeOK, Evident, RefusedUnsent, UnsentIsTrue,
      Owned, Evidence
<1>1. ASSUME NEW p \in Procs, Select(p) PROVE UnsentIsTrue
  BY <1>1 DEF Select, Regrant, SetGrant
<1>2. ASSUME NEW p \in Procs, Revoke(p) PROVE UnsentIsTrue
  BY <1>2 DEF Revoke, Regrant, SetGrant
<1>3. ASSUME NEW p \in Procs, Expire(p) PROVE UnsentIsTrue
  BY <1>3 DEF Expire, SetGrant, selectorVars
<1>4. ASSUME NEW p \in Procs, NEW o \in Ops, NEW k \in Keys, DispatchRefused(p, o, k)
      PROVE  UnsentIsTrue
  BY <1>4 DEF DispatchRefused, Regrant, SetGrant
<1>5. ASSUME NEW p \in Procs, NEW o \in Ops, NEW k \in Keys, Dispatch(p, o, k)
      PROVE  UnsentIsTrue
  BY <1>5 DEF Dispatch, SetGrant, Begin
<1>6. ASSUME NEW p \in Procs, CheckPasses(p) PROVE UnsentIsTrue
  BY <1>6 DEF CheckPasses, Pass, Check
<1>7. ASSUME NEW p \in Procs, Reserve(p), UNCHANGED <<grant, underGrant>> PROVE UnsentIsTrue
  BY <1>7 DEF Reserve, Put
<1>8. ASSUME NEW p \in Procs, ReserveFails(p), UNCHANGED <<grant, underGrant>>
      PROVE  UnsentIsTrue
  BY <1>8 DEF ReserveFails, Put, Return
<1>9. ASSUME NEW p \in Procs, StoreFull(p), UNCHANGED <<grant, underGrant>> PROVE UnsentIsTrue
  BY <1>9 DEF StoreFull, Return
<1>10. ASSUME NEW p \in Procs, AnswerFromStore(p), UNCHANGED <<grant, underGrant>>
      PROVE  UnsentIsTrue
  BY <1>10 DEF AnswerFromStore, Return
<1>11. ASSUME NEW p \in Procs, CloseInterrupted(p), UNCHANGED <<grant, underGrant>>
      PROVE  UnsentIsTrue
  BY <1>11 DEF CloseInterrupted, InterruptedSent, Put, Return
<1>12. ASSUME NEW p \in Procs, Wait(p) \/ WinLock(p), UNCHANGED <<grant, underGrant>>
      PROVE  UnsentIsTrue
  BY <1>12 DEF Wait, WinLock
<1>13. ASSUME NEW p \in Procs, InProgress(p), UNCHANGED <<grant, underGrant>>
      PROVE  UnsentIsTrue
  BY <1>13 DEF InProgress, Return
<1>14. ASSUME NEW p \in Procs, Resolve(p) \/ Stop(p) \/ EndAnswer(p), UNCHANGED <<grant, underGrant>>
      PROVE  UnsentIsTrue
  BY <1>14 DEF Resolve, Stop, EndAnswer, Outcome
<1>15. ASSUME NEW p \in Procs, Bind(p), UNCHANGED <<grant, underGrant>> PROVE UnsentIsTrue
  BY <1>15 DEF Bind, SavePhase, Put
<1>16. ASSUME NEW p \in Procs, Arm(p), UNCHANGED <<grant, underGrant>> PROVE UnsentIsTrue
  BY <1>16 DEF Arm, SavePhase, Put
<1>17. ASSUME NEW p \in Procs, Send(p), underGrant' = [underGrant EXCEPT ![p] = @ + 1], UNCHANGED grant
      PROVE  UnsentIsTrue
  BY <1>17 DEF Send
<1>18. ASSUME NEW p \in Procs, Finish(p), UNCHANGED <<grant, underGrant>> PROVE UnsentIsTrue
  BY <1>18 DEF Finish, Put, Return
<1>19. ASSUME NEW p \in Procs, Unsaved(p), UNCHANGED <<grant, underGrant>> PROVE UnsentIsTrue
  BY <1>19 DEF Unsaved, Put
<1>20. ASSUME NEW p \in Procs, AnswerFailed(p), UNCHANGED <<grant, underGrant>>
      PROVE  UnsentIsTrue
  BY <1>20 DEF AnswerFailed, KnownSent, Return
<1>21. ASSUME NEW p \in Procs, Cancel(p) PROVE UnsentIsTrue
  BY <1>21 DEF Cancel, Abort, Return, NoReceipt
<1>22. ASSUME NEW p \in Procs, Die(p) PROVE UnsentIsTrue
  BY <1>22 DEF Die, Abort, Return, SetGrant, NoReceipt
<1>23. CASE SessionChanges /\ UNCHANGED <<grant, underGrant>>
  BY <1>23 DEF SessionChanges
<1>24. CASE (\E o \in Ops : Evict(o)) /\ UNCHANGED <<grant, underGrant>>
  BY <1>24 DEF Evict
<1>25. CASE PowerLoss /\ grant' = [p \in Procs |-> None] /\ underGrant' = [p \in Procs |-> 0]
  BY <1>25 DEF PowerLoss, NoReceipt
<1>26. CASE UNCHANGED vars
  BY <1>26 DEF vars
<1> QED
  BY <1>1, <1>2, <1>3, <1>4, <1>5, <1>6, <1>7, <1>8, <1>9, <1>10, <1>11, <1>12, <1>13, <1>14,
     <1>15, <1>16, <1>17, <1>18, <1>19, <1>20, <1>21, <1>22, <1>23, <1>24, <1>25, <1>26, StepCases

(* An answer that says request_sent false to the owner of a fingerprint is true. *)
THEOREM RefusalsAreTrue == Spec => TruthfulRefusal
<1>1. IInv /\ [Next]_vars =>
        [\A p \in Procs :
            /\ pc[p] # "idle" /\ pc'[p] = "idle" /\ said'[p] = "no"
            /\ record[op[p]] # None /\ record[op[p]].key = key[p]
            => sends[op[p]] = 0]_vars
  BY RefusalStep DEF RefusedUnsent, UnsentIsTrue
<1> QED
  BY Invariance, <1>1, PTL DEF Spec, TruthfulRefusal

-----------------------------------------------------------------------------
(* A process performs the operation. *)
Claimed(o) == \E p \in Procs : op[p] = o /\ pc[p] \in Performing

lives == [o \in Ops |-> Life(o)]

(* The lives of TerminateOnce, by the record, the request and the performer. *)
LEMMA LifeCases ==
    ASSUME IInv, NEW o \in Ops
    PROVE  /\ Life(o) \in Promise!Lives
           /\ Life(o) = "free" <=> record[o] = None
           /\ Life(o) = "settled" <=> record[o] # None /\ record[o].phase = "done" /\ sends[o] = 0
           /\ Life(o) = "closed" <=> record[o] # None /\ record[o].phase = "done" /\ sends[o] > 0
           /\ Life(o) = "out" <=> record[o] # None /\ record[o].phase # "done" /\ sends[o] > 0
           /\ Life(o) = "claimed" <=> record[o] # None /\ record[o].phase # "done"
                                      /\ sends[o] = 0 /\ Claimed(o)
           /\ Life(o) = "abandoned" <=> record[o] # None /\ record[o].phase # "done"
                                        /\ sends[o] = 0 /\ ~Claimed(o)
<1>1. sends[o] \in Nat
  BY DEF IInv, RecordsReadable, TypeOK
<1> QED
  BY <1>1 DEF Life, Claimed, Promise!Lives

(* A step that changes one life only, or none. *)
LEMMA LifeMoves ==
    ASSUME NEW o \in Ops, \A q \in Ops : q # o => Life(q)' = Life(q)
    PROVE  /\ \A from, to : Life(o) \in from /\ Life(o)' = to
                             => Promise!Becomes(o, from, to)
           /\ Life(o)' = Life(o) => UNCHANGED lives
  BY DEF Promise!Becomes, lives

(* A process that changes nothing of other operations leaves their lives alone. *)
LEMMA OtherLives ==
    ASSUME NEW p \in Procs, NEW o \in Ops,
           \A q \in Ops \ {o} : record'[q] = record[q] /\ sends'[q] = sends[q],
           \A d \in Procs \ {p} : op'[d] = op[d] /\ pc'[d] = pc[d],
           pc[p] \in Performing => op[p] = o,
           pc'[p] \in Performing => op'[p] = o
    PROVE  \A q \in Ops : q # o => Life(q)' = Life(q)
<1> SUFFICES ASSUME NEW q \in Ops, q # o PROVE Life(q)' = Life(q)
  OBVIOUS
<1>1. Claimed(q)' <=> Claimed(q)
  BY DEF Claimed
<1> QED
  BY <1>1 DEF Life, Claimed

(* A process that goes on performing, or does not perform, and writes no record changes no life. *)
LEMMA SameLives ==
    ASSUME UNCHANGED <<record, sends>>, NEW p \in Procs,
           \A d \in Procs \ {p} : op'[d] = op[d] /\ pc'[d] = pc[d],
           pc[p] \in Performing <=> pc'[p] \in Performing,
           pc[p] \in Performing => op'[p] = op[p]
    PROVE  UNCHANGED lives
<1>1. ASSUME NEW q \in Ops PROVE Claimed(q)' <=> Claimed(q)
  BY DEF Claimed
<1>2. ASSUME NEW q \in Ops PROVE Life(q)' = Life(q)
  BY <1>1 DEF Life, Claimed
<1> QED
  BY <1>2 DEF lives

(* The performer of an operation is its owner: there is one. *)
LEMMA OnePerformer ==
    ASSUME IInv, NEW p \in Procs, pc[p] \in Performing
    PROVE  /\ op[p] \in Ops /\ record[op[p]] # None /\ record[op[p]].phase # "done"
           /\ \A q \in Procs : pc[q] \in Performing /\ op[q] = op[p] => q = p
  BY DEF IInv, Owned, Recorded, Performing

(* A process that stops performing, for whatever reason, abandons its claim. *)
LEMMA OwnerGone ==
    ASSUME IInv, IInv', UNCHANGED <<record, sends>>, NEW p \in Procs,
           \A d \in Procs \ {p} : op'[d] = op[d] /\ pc'[d] = pc[d],
           pc'[p] \notin Performing
    PROVE  [Promise!Next]_lives
<1>1. CASE pc[p] \notin Performing
  BY <1>1, SameLives
<1>2. CASE pc[p] \in Performing
  <2>1. PICK o \in Ops : o = op[p] /\ record[o] # None /\ record[o].phase # "done" /\ Claimed(o)
    BY <1>2, OnePerformer DEF Claimed
  <2>2. ~Claimed(o)'
    BY <1>2, <2>1, OnePerformer DEF Claimed
  <2>3. \A q \in Ops : q # o => Life(q)' = Life(q)
    BY <1>2, <2>1, OtherLives
  <2>4. CASE sends[o] = 0
    <3>1. Life(o) = "claimed"
      BY <2>1, <2>4, LifeCases
    <3>2. Life(o)' = "abandoned"
      BY <2>1, <2>2, <2>4 DEF Life, Claimed
    <3> QED
      BY <2>1, <2>3, <3>1, <3>2, LifeMoves DEF Promise!Next, Promise!Abandon
  <2>5. CASE sends[o] > 0
    <3>1. Life(o) = "out" /\ Life(o)' = "out"
      BY <2>1, <2>5 DEF Life
    <3> QED
      BY <2>1, <2>3, <3>1, LifeMoves
  <2>6. sends[o] \in Nat
    BY <2>1 DEF IInv, RecordsReadable, TypeOK
  <2> QED
    BY <2>4, <2>5, <2>6
<1> QED
  BY <1>1, <1>2

(* Closing a record that no process performs any more, or that its performer leaves. *)
LEMMA ClosesLife ==
    ASSUME IInv, NEW p \in Procs, NEW o \in Ops, NEW r,
           r # None, r.phase = "done", record[o] # None, record[o].phase # "done",
           record' = [record EXCEPT ![o] = r], UNCHANGED sends,
           \A d \in Procs \ {p} : op'[d] = op[d] /\ pc'[d] = pc[d],
           pc[p] \in Performing => op[p] = o,
           pc'[p] \notin Performing
    PROVE  [Promise!Next]_lives
<1>1. record'[o] = r /\ \A q \in Ops \ {o} : record'[q] = record[q] /\ sends'[q] = sends[q]
  BY DEF IInv, RecordsReadable, TypeOK
<1>2. \A q \in Ops : q # o => Life(q)' = Life(q)
  BY <1>1, OtherLives
<1>3. sends[o] \in Nat
  BY DEF IInv, RecordsReadable, TypeOK
<1>4. CASE sends[o] = 0
  <2>1. Life(o) \in {"claimed", "abandoned"} /\ Life(o)' = "settled"
    BY <1>1, <1>4 DEF Life
  <2> QED
    BY <1>2, <2>1, LifeMoves DEF Promise!Next, Promise!Settle
<1>5. CASE sends[o] > 0
  <2>1. Life(o) = "out" /\ Life(o)' = "closed"
    BY <1>1, <1>5 DEF Life
  <2> QED
    BY <1>2, <2>1, LifeMoves DEF Promise!Next, Promise!Close
<1> QED
  BY <1>3, <1>4, <1>5

(* Writing an unfinished record of the operation this process performs changes no life. *)
LEMMA PhaseKeepsLife ==
    ASSUME IInv, NEW p \in Procs, NEW r, pc[p] \in Performing, pc'[p] \in Performing,
           r # None, r.phase # "done",
           record' = [record EXCEPT ![op[p]] = r], UNCHANGED <<sends, op>>,
           \A d \in Procs \ {p} : pc'[d] = pc[d]
    PROVE  UNCHANGED lives
<1>1. PICK o \in Ops : o = op[p] /\ record[o] # None /\ record[o].phase # "done" /\ Claimed(o) /\ Claimed(o)'
  BY OnePerformer DEF Claimed
<1>2. record'[o] = r /\ \A q \in Ops \ {o} : record'[q] = record[q] /\ sends'[q] = sends[q]
  BY <1>1 DEF IInv, RecordsReadable, TypeOK
<1>3. \A q \in Ops : q # o => Life(q)' = Life(q)
  BY <1>1, <1>2, OtherLives
<1>4. Life(o)' = Life(o)
  BY <1>1, <1>2 DEF Life, Claimed
<1> QED
  BY <1>3, <1>4, LifeMoves

(* A process that stops performing with an unfinished record written or not. *)
LEMMA PhaseLost ==
    ASSUME IInv, NEW p \in Procs, NEW r, pc[p] \in Performing, pc'[p] \notin Performing,
           r # None, r.phase # "done",
           record' = [record EXCEPT ![op[p]] = r], UNCHANGED <<sends, op>>,
           \A d \in Procs \ {p} : pc'[d] = pc[d]
    PROVE  [Promise!Next]_lives
<1>1. PICK o \in Ops : o = op[p] /\ record[o] # None /\ record[o].phase # "done" /\ Claimed(o)
  BY OnePerformer DEF Claimed
<1>2. ~Claimed(o)'
  BY <1>1, OnePerformer DEF Claimed
<1>3. record'[o] = r /\ \A q \in Ops \ {o} : record'[q] = record[q] /\ sends'[q] = sends[q]
  BY <1>1 DEF IInv, RecordsReadable, TypeOK
<1>4. \A q \in Ops : q # o => Life(q)' = Life(q)
  BY <1>1, <1>3, OtherLives
<1>5. sends[o] \in Nat
  BY <1>1 DEF IInv, RecordsReadable, TypeOK
<1>6. CASE sends[o] = 0
  <2>1. Life(o) = "claimed"
    BY <1>1, <1>6, LifeCases
  <2>2. Life(o)' = "abandoned"
    BY <1>1, <1>2, <1>3, <1>6 DEF Life, Claimed
  <2> QED
    BY <1>1, <1>4, <2>1, <2>2, LifeMoves DEF Promise!Next, Promise!Abandon
<1>7. CASE sends[o] > 0
  <2>1. Life(o) = "out" /\ Life(o)' = "out"
    BY <1>1, <1>3, <1>7 DEF Life
  <2> QED
    BY <1>4, <2>1, LifeMoves
<1> QED
  BY <1>5, <1>6, <1>7

(* After the machine stopped every life is one Restart allows. *)
LEMMA RestartStep ==
    ASSUME IInv, IInv', PowerLoss
    PROVE  Promise!Restart
<1>1. \A o \in Ops : ~Claimed(o)'
  BY DEF PowerLoss, Claimed, Performing
<1>2. \A o \in Ops : sends'[o] = sends[o] /\ sends[o] \in Nat /\ record'[o] \in {record[o], disk[o]}
  BY DEF PowerLoss, IInv, RecordsReadable, TypeOK
<1>3. \A o \in Ops : sends[o] > 0 =>
        /\ record[o] # None /\ disk[o] # None
        /\ record[o].phase # "done" => disk[o].phase # "done"
  BY DEF IInv, Evidence, Evident, Flushed
<1>4. \A o \in Ops : Claimed(o) => disk[o] # None /\ disk[o].phase # "done"
  BY DEF IInv, Flushed, Claimed
<1>5. ASSUME NEW o \in Ops
      PROVE  lives'[o] = Life(o)' /\ lives[o] = Life(o) /\ Life(o) \in Promise!Lives /\ Life(o)' \in Promise!Lives
  BY LifeCases, <1>2 DEF lives, Life, Promise!Lives
<1>6. ASSUME NEW o \in Ops PROVE Life(o)' \in Promise!Regressions[Life(o)]
  <2>1. CASE Life(o) \in {"free", "settled", "abandoned"}
    <3>1. sends[o] = 0
      BY <1>2, <1>3, <2>1, LifeCases
    <3>2. Life(o)' \in {"free", "settled", "abandoned"}
      BY <1>1, <1>2, <3>1 DEF Life, Claimed
    <3> QED
      BY <2>1, <3>2 DEF Promise!Regressions
  <2>2. CASE Life(o) = "claimed"
    <3>1. sends[o] = 0 /\ record'[o] # None /\ record'[o].phase # "done"
      BY <1>2, <1>4, <2>2, LifeCases
    <3>2. Life(o)' = "abandoned"
      BY <1>1, <1>2, <3>1 DEF Life, Claimed
    <3> QED
      BY <2>2, <3>2 DEF Promise!Regressions
  <2>3. CASE Life(o) = "out"
    <3>1. sends[o] > 0 /\ record'[o] # None /\ record'[o].phase # "done"
      BY <1>2, <1>3, <2>3, LifeCases
    <3>2. Life(o)' = "out"
      BY <1>2, <3>1 DEF Life
    <3> QED
      BY <2>3, <3>2 DEF Promise!Regressions
  <2>4. CASE Life(o) = "closed"
    <3>1. sends[o] > 0 /\ record'[o] # None
      BY <1>2, <1>3, <2>4, LifeCases
    <3>2. Life(o)' \in {"out", "closed"}
      BY <1>2, <3>1 DEF Life
    <3> QED
      BY <2>4, <3>2 DEF Promise!Regressions
  <2> QED
    BY <1>5, <2>1, <2>2, <2>3, <2>4 DEF Promise!Lives
<1>7. lives' \in [Ops -> Promise!Lives]
  BY <1>5 DEF lives
<1> QED
  BY <1>5, <1>6, <1>7 DEF Promise!Restart, lives

(* Every step of the controllers is a step of TerminateOnce, or changes no life. *)
LEMMA RefineStep == ASSUME IInv, IInv', [Next]_vars PROVE [Promise!Next]_lives
<1> USE DEF Goto, store, call, selectorVars
<1>a. /\ record \in [Ops -> Record \cup {None}] /\ sends \in [Ops -> Nat]
      /\ pc \in [Procs -> Performing \cup {"idle", "reserve", "wait", "failed"}]
      /\ op \in [Procs -> Ops \cup {None}]
      /\ {"idle", "reserve", "wait", "failed"} \cap Performing = {}
      /\ {"resolve", "bind", "check", "arm", "send", "sent", "finish"} = Performing
      /\ \A p \in Procs :
            /\ pc[p] # "idle" => op[p] \in Ops
            /\ pc[p] \in {"bind", "check", "arm"} => binding[p] \in Incarnations
            /\ pc[p] = "finish" => outcome[p] \in {"no", "yes"}
  BY DEF IInv, RecordsReadable, TypeOK, Owned, Recorded, Performing
<1>b. IInv /\ IInv'
  OBVIOUS
<1>c. \A o \in Ops : record[o] = None => sends[o] = 0
  BY <1>a DEF IInv, Evidence, Evident
<1>d. \A p \in Procs : pc[p] = "send" => sends[op[p]] = 0
  BY DEF IInv, Evidence
<1>e. \A p \in Procs : pc[p] # "idle" => key[p] \in Keys
  BY DEF IInv, Owned
<1> HIDE DEF IInv
<1>1. ASSUME NEW p \in Procs, Select(p) PROVE [Promise!Next]_lives
  <2>1. UNCHANGED <<record, sends, op, pc>>
    BY <1>1 DEF Select, Regrant, SetGrant
  <2> QED
    BY <2>1, SameLives
<1>2. ASSUME NEW p \in Procs, Revoke(p) PROVE [Promise!Next]_lives
  <2>1. UNCHANGED <<record, sends, op, pc>>
    BY <1>2 DEF Revoke, Regrant, SetGrant
  <2> QED
    BY <2>1, SameLives
<1>3. ASSUME NEW p \in Procs, Expire(p) PROVE [Promise!Next]_lives
  <2>1. UNCHANGED <<record, sends, op, pc>>
    BY <1>3 DEF Expire, SetGrant, selectorVars
  <2> QED
    BY <2>1, SameLives
<1>4. ASSUME NEW p \in Procs, NEW o \in Ops, NEW k \in Keys, DispatchRefused(p, o, k)
      PROVE  [Promise!Next]_lives
  <2>1. UNCHANGED <<record, sends, op, pc>>
    BY <1>4 DEF DispatchRefused, Regrant, SetGrant
  <2> QED
    BY <2>1, SameLives
<1>5. ASSUME NEW p \in Procs, NEW o \in Ops, NEW k \in Keys, Dispatch(p, o, k)
      PROVE  [Promise!Next]_lives
  <2>1. /\ UNCHANGED <<record, sends>> /\ \A d \in Procs \ {p} : op'[d] = op[d] /\ pc'[d] = pc[d]
        /\ (pc[p] \in Performing <=> pc'[p] \in Performing) /\ (pc[p] \in Performing => op'[p] = op[p])
    BY <1>5, <1>a DEF Dispatch, SetGrant, Begin
  <2> QED
    BY <2>1, SameLives
<1>6. ASSUME NEW p \in Procs, CheckPasses(p) PROVE [Promise!Next]_lives
  <2>1. /\ UNCHANGED <<record, sends>> /\ \A d \in Procs \ {p} : op'[d] = op[d] /\ pc'[d] = pc[d]
        /\ (pc[p] \in Performing <=> pc'[p] \in Performing) /\ (pc[p] \in Performing => op'[p] = op[p])
    BY <1>6, <1>a DEF CheckPasses, Pass, Check
  <2> QED
    BY <2>1, SameLives
<1>7. ASSUME NEW p \in Procs, Reserve(p), UNCHANGED <<grant, underGrant>>
      PROVE  [Promise!Next]_lives
  <2>1. PICK o \in Ops : o = op[p]
    BY <1>7, <1>a DEF Reserve
  <2>2. /\ record[o] = None /\ sends[o] = 0 /\ UNCHANGED sends
        /\ record'[o] # None /\ record'[o].phase # "done"
        /\ \A q \in Ops \ {o} : record'[q] = record[q] /\ sends'[q] = sends[q]
    <3>1. PICK r : r = [phase |-> "reserved", key |-> key[p], binding |-> None, sent |-> NoReceipt]
                    /\ record' = [record EXCEPT ![o] = r]
      BY <1>7, <2>1 DEF Reserve, Put
    <3>2. r # None /\ r.phase # "done"
      BY <1>7, <1>e, <3>1, Reservation DEF Reserve
    <3>3. record[o] = None /\ UNCHANGED sends
      BY <1>7, <2>1 DEF Reserve
    <3> QED
      BY <1>a, <1>c, <3>1, <3>2, <3>3
  <2>3. /\ \A d \in Procs \ {p} : op'[d] = op[d] /\ pc'[d] = pc[d]
        /\ pc[p] \notin Performing /\ pc'[p] \in Performing /\ op'[p] = o
    BY <1>7, <1>a, <2>1 DEF Reserve
  <2>4. Life(o) = "free" /\ Life(o)' = "claimed"
    BY <2>2, <2>3 DEF Life
  <2>5. \A q \in Ops : q # o => Life(q)' = Life(q)
    BY <2>2, <2>3, OtherLives
  <2> QED
    BY <2>4, <2>5, LifeMoves DEF Promise!Next, Promise!Claim
<1>8. ASSUME NEW p \in Procs, ReserveFails(p), UNCHANGED <<grant, underGrant>>
      PROVE  [Promise!Next]_lives
  <2>1. PICK o \in Ops : o = op[p]
    BY <1>8, <1>a DEF ReserveFails
  <2>2. /\ \A d \in Procs \ {p} : op'[d] = op[d] /\ pc'[d] = pc[d]
        /\ pc[p] \notin Performing /\ pc'[p] \notin Performing /\ UNCHANGED sends
    BY <1>8, <1>a DEF ReserveFails, Return
  <2>3. CASE UNCHANGED record
    BY <1>b, <2>2, <2>3, OwnerGone
  <2>4. CASE /\ record[op[p]] = None
            /\ Put(op[p], [phase |-> "reserved", key |-> key[p], binding |-> None, sent |-> NoReceipt], FALSE)
    <3>1. /\ record[o] = None /\ sends[o] = 0
          /\ record'[o] # None /\ record'[o].phase # "done"
          /\ \A q \in Ops \ {o} : record'[q] = record[q]
      <4>1. PICK r : r = [phase |-> "reserved", key |-> key[p], binding |-> None, sent |-> NoReceipt]
                      /\ record' = [record EXCEPT ![o] = r]
        BY <2>1, <2>4 DEF Put
      <4>2. r # None /\ r.phase # "done"
        BY <1>8, <1>e, <4>1, Reservation DEF ReserveFails
      <4> QED
        BY <1>a, <1>c, <2>1, <2>4, <4>1, <4>2
    <3>2. ~Claimed(o)
      BY <1>b, <3>1, OnePerformer DEF Claimed
    <3>3. ~Claimed(o)'
      BY <2>2, <3>2 DEF Claimed
    <3>4. Life(o) = "free" /\ Life(o)' = "abandoned"
      BY <2>2, <3>1, <3>3 DEF Life, Claimed
    <3>5. \A q \in Ops : q # o => Life(q)' = Life(q)
      BY <2>2, <3>1, OtherLives
    <3> QED
      BY <3>4, <3>5, LifeMoves DEF Promise!Next, Promise!Abandon
  <2> QED
    BY <1>8, <2>3, <2>4 DEF ReserveFails
<1>9. ASSUME NEW p \in Procs, StoreFull(p), UNCHANGED <<grant, underGrant>>
      PROVE  [Promise!Next]_lives
  <2>1. /\ UNCHANGED <<record, sends>> /\ \A d \in Procs \ {p} : op'[d] = op[d] /\ pc'[d] = pc[d]
        /\ pc'[p] \notin Performing
    BY <1>9, <1>a DEF StoreFull, Return
  <2> QED
    BY <2>1, <1>b, OwnerGone
<1>10. ASSUME NEW p \in Procs, AnswerFromStore(p), UNCHANGED <<grant, underGrant>>
      PROVE  [Promise!Next]_lives
  <2>1. /\ UNCHANGED <<record, sends>> /\ \A d \in Procs \ {p} : op'[d] = op[d] /\ pc'[d] = pc[d]
        /\ pc'[p] \notin Performing
    BY <1>10, <1>a DEF AnswerFromStore, Return
  <2> QED
    BY <2>1, <1>b, OwnerGone
<1>11. ASSUME NEW p \in Procs, CloseInterrupted(p), UNCHANGED <<grant, underGrant>>
      PROVE  [Promise!Next]_lives
  <2>1. PICK s, r : /\ s \in Sent /\ r = Close(record[op[p]], s)
                    /\ record' = [record EXCEPT ![op[p]] = r]
    BY <1>11 DEF CloseInterrupted, Put, Close, InterruptedSent, Sent
  <2>2. op[p] \in Ops /\ record[op[p]] # None /\ record[op[p]].phase # "done" /\ record[op[p]] \in Record
    BY <1>11, <1>a DEF CloseInterrupted
  <2>3. r # None /\ r.phase = "done"
    BY <2>1, <2>2, Closed
  <2>4. /\ \A d \in Procs \ {p} : op'[d] = op[d] /\ pc'[d] = pc[d]
        /\ pc[p] \notin Performing /\ pc'[p] \notin Performing /\ UNCHANGED sends
    BY <1>11, <1>a DEF CloseInterrupted, Return
  <2> QED
    BY <1>b, <2>1, <2>2, <2>3, <2>4, ClosesLife
<1>12. ASSUME NEW p \in Procs, Wait(p) \/ WinLock(p), UNCHANGED <<grant, underGrant>>
      PROVE  [Promise!Next]_lives
  <2>1. /\ UNCHANGED <<record, sends>> /\ \A d \in Procs \ {p} : op'[d] = op[d] /\ pc'[d] = pc[d]
        /\ (pc[p] \in Performing <=> pc'[p] \in Performing) /\ (pc[p] \in Performing => op'[p] = op[p])
    BY <1>12, <1>a DEF Wait, WinLock
  <2> QED
    BY <2>1, SameLives
<1>13. ASSUME NEW p \in Procs, InProgress(p), UNCHANGED <<grant, underGrant>>
      PROVE  [Promise!Next]_lives
  <2>1. /\ UNCHANGED <<record, sends>> /\ \A d \in Procs \ {p} : op'[d] = op[d] /\ pc'[d] = pc[d]
        /\ pc'[p] \notin Performing
    BY <1>13, <1>a DEF InProgress, Return
  <2> QED
    BY <2>1, <1>b, OwnerGone
<1>14. ASSUME NEW p \in Procs, Resolve(p) \/ Stop(p) \/ EndAnswer(p), UNCHANGED <<grant, underGrant>>
      PROVE  [Promise!Next]_lives
  <2>1. /\ UNCHANGED <<record, sends>> /\ \A d \in Procs \ {p} : op'[d] = op[d] /\ pc'[d] = pc[d]
        /\ (pc[p] \in Performing <=> pc'[p] \in Performing) /\ (pc[p] \in Performing => op'[p] = op[p])
    BY <1>14, <1>a DEF Resolve, Stop, EndAnswer, Outcome
  <2> QED
    BY <2>1, SameLives
<1>15. ASSUME NEW p \in Procs, Bind(p), UNCHANGED <<grant, underGrant>>
      PROVE  [Promise!Next]_lives
  <2>1. PICK r : r = Rebind(record[op[p]], "resolved", binding[p]) /\ record' = [record EXCEPT ![op[p]] = r]
    BY <1>15 DEF Bind, SavePhase, Put, Rebind
  <2>2. op[p] \in Ops /\ record[op[p]] \in Record /\ binding[p] \in Incarnations
    BY <1>15, <1>a DEF Bind, SavePhase
  <2>3. r # None /\ r.phase # "done"
    BY <2>1, <2>2, Rebound
  <2>4. /\ pc[p] \in Performing /\ pc'[p] \in Performing /\ UNCHANGED <<sends, op>>
        /\ \A d \in Procs \ {p} : pc'[d] = pc[d]
    BY <1>15, <1>a DEF Bind
  <2> QED
    BY <1>b, <2>1, <2>3, <2>4, PhaseKeepsLife
<1>16. ASSUME NEW p \in Procs, Arm(p), UNCHANGED <<grant, underGrant>>
      PROVE  [Promise!Next]_lives
  <2>1. PICK r : r = Rebind(record[op[p]], "dispatch", binding[p]) /\ record' = [record EXCEPT ![op[p]] = r]
    BY <1>16 DEF Arm, SavePhase, Put, Rebind
  <2>2. op[p] \in Ops /\ record[op[p]] \in Record /\ binding[p] \in Incarnations
    BY <1>16, <1>a DEF Arm, SavePhase
  <2>3. r # None /\ r.phase # "done"
    BY <2>1, <2>2, Rebound
  <2>4. /\ pc[p] \in Performing /\ pc'[p] \in Performing /\ UNCHANGED <<sends, op>>
        /\ \A d \in Procs \ {p} : pc'[d] = pc[d]
    BY <1>16, <1>a DEF Arm
  <2> QED
    BY <1>b, <2>1, <2>3, <2>4, PhaseKeepsLife
<1>17. ASSUME NEW p \in Procs, Send(p), underGrant' = [underGrant EXCEPT ![p] = @ + 1], UNCHANGED grant
      PROVE  [Promise!Next]_lives
  <2>1. PICK o \in Ops : o = op[p]
    BY <1>17, <1>a DEF Send
  <2>2. /\ UNCHANGED <<record, op>> /\ \A d \in Procs \ {p} : pc'[d] = pc[d]
        /\ pc[p] \in Performing /\ pc'[p] \in Performing
        /\ sends[o] = 0 /\ sends'[o] = 1 /\ \A q \in Ops \ {o} : sends'[q] = sends[q]
    BY <1>17, <1>a, <1>d, <2>1 DEF Send
  <2>3. record[o] # None /\ record[o].phase # "done" /\ Claimed(o)
    BY <1>b, <2>1, <2>2, OnePerformer DEF Claimed
  <2>4. Life(o) = "claimed" /\ Life(o)' = "out"
    BY <2>2, <2>3 DEF Life, Claimed
  <2>5. \A q \in Ops : q # o => Life(q)' = Life(q)
    BY <2>1, <2>2, OtherLives
  <2> QED
    BY <2>4, <2>5, LifeMoves DEF Promise!Next, Promise!Send
<1>18. ASSUME NEW p \in Procs, Finish(p), UNCHANGED <<grant, underGrant>>
      PROVE  [Promise!Next]_lives
  <2>1. PICK r : r = Close(record[op[p]], outcome[p]) /\ record' = [record EXCEPT ![op[p]] = r]
    BY <1>18 DEF Finish, Put, Close
  <2>2. /\ op[p] \in Ops /\ record[op[p]] \in Record /\ outcome[p] \in Sent
        /\ record[op[p]] # None /\ record[op[p]].phase # "done"
    BY <1>18, <1>a, <1>b, OnePerformer DEF Finish, Sent
  <2>3. r # None /\ r.phase = "done"
    BY <2>1, <2>2, Closed
  <2>4. /\ \A d \in Procs \ {p} : op'[d] = op[d] /\ pc'[d] = pc[d]
        /\ pc'[p] \notin Performing /\ UNCHANGED sends
    BY <1>18, <1>a DEF Finish, Return
  <2> QED
    BY <1>b, <2>1, <2>2, <2>3, <2>4, ClosesLife
<1>19. ASSUME NEW p \in Procs, Unsaved(p), UNCHANGED <<grant, underGrant>>
      PROVE  [Promise!Next]_lives
  <2>1. /\ op[p] \in Ops /\ record[op[p]] \in Record /\ pc[p] \in Performing
        /\ record[op[p]] # None /\ record[op[p]].phase # "done"
    BY <1>19, <1>a, <1>b, OnePerformer DEF Unsaved
  <2>2. /\ \A d \in Procs \ {p} : op'[d] = op[d] /\ pc'[d] = pc[d]
        /\ pc'[p] \notin Performing /\ UNCHANGED <<sends, op>>
    BY <1>19, <1>a DEF Unsaved
  <2>3. CASE UNCHANGED record
    BY <1>b, <2>2, <2>3, OwnerGone
  <2>4. CASE /\ pc[p] = "bind"
            /\ Put(op[p], [record[op[p]] EXCEPT !.phase = "resolved", !.binding = binding[p]], FALSE)
    <3>1. PICK r : r = Rebind(record[op[p]], "resolved", binding[p]) /\ record' = [record EXCEPT ![op[p]] = r]
      BY <2>4 DEF Put, Rebind
    <3>2. r # None /\ r.phase # "done"
      BY <1>a, <2>1, <2>4, <3>1, Rebound
    <3> QED
      BY <1>b, <2>1, <2>2, <3>1, <3>2, PhaseLost
  <2>5. CASE pc[p] = "arm" /\ Put(op[p], [record[op[p]] EXCEPT !.phase = "dispatch"], FALSE)
    <3>1. PICK r : r = [record[op[p]] EXCEPT !.phase = "dispatch"] /\ record' = [record EXCEPT ![op[p]] = r]
      BY <2>5 DEF Put
    <3>2. r # None /\ r.phase # "done"
      BY <2>1, <3>1, Armed
    <3> QED
      BY <1>b, <2>1, <2>2, <3>1, <3>2, PhaseLost
  <2>6. CASE /\ pc[p] = "finish"
            /\ Put(op[p], [record[op[p]] EXCEPT !.phase = "done", !.sent = outcome[p]], FALSE)
    <3>1. PICK r : r = Close(record[op[p]], outcome[p]) /\ record' = [record EXCEPT ![op[p]] = r]
      BY <2>6 DEF Put, Close
    <3>2. r # None /\ r.phase = "done"
      BY <1>a, <2>1, <2>6, <3>1, Closed DEF Sent
    <3> QED
      BY <1>b, <2>1, <2>2, <3>1, <3>2, ClosesLife
  <2> QED
    BY <1>19, <2>3, <2>4, <2>5, <2>6 DEF Unsaved, Put
<1>20. ASSUME NEW p \in Procs, AnswerFailed(p), UNCHANGED <<grant, underGrant>>
      PROVE  [Promise!Next]_lives
  <2>1. /\ UNCHANGED <<record, sends>> /\ \A d \in Procs \ {p} : op'[d] = op[d] /\ pc'[d] = pc[d]
        /\ pc'[p] \notin Performing
    BY <1>20, <1>a DEF AnswerFailed, KnownSent, Return
  <2> QED
    BY <2>1, <1>b, OwnerGone
<1>21. ASSUME NEW p \in Procs, Cancel(p) PROVE [Promise!Next]_lives
  <2>1. /\ UNCHANGED <<record, sends>> /\ \A d \in Procs \ {p} : op'[d] = op[d] /\ pc'[d] = pc[d]
        /\ pc'[p] \notin Performing
    BY <1>21, <1>a DEF Cancel, Abort, Return
  <2> QED
    BY <2>1, <1>b, OwnerGone
<1>22. ASSUME NEW p \in Procs, Die(p) PROVE [Promise!Next]_lives
  <2>1. /\ UNCHANGED <<record, sends>> /\ \A d \in Procs \ {p} : op'[d] = op[d] /\ pc'[d] = pc[d]
        /\ pc'[p] \notin Performing
    BY <1>22, <1>a DEF Die, Abort, Return, SetGrant
  <2> QED
    BY <2>1, <1>b, OwnerGone
<1>23. CASE SessionChanges /\ UNCHANGED <<grant, underGrant>>
  BY <1>23 DEF SessionChanges, lives, Life
<1>24. CASE (\E o \in Ops : Evict(o)) /\ UNCHANGED <<grant, underGrant>>
  <2>1. PICK o \in Ops : Evict(o)
    BY <1>24
  <2>2. /\ record[o] # None /\ record[o].phase = "done" /\ record'[o] = None /\ UNCHANGED <<op, pc>>
        /\ \A q \in Ops \ {o} : record'[q] = record[q] /\ sends'[q] = sends[q]
    BY <1>a, <2>1 DEF Evict
  <2>3. Life(o) \in {"settled", "closed"} /\ Life(o)' = "free"
    BY <2>2 DEF Life
  <2>4. \A q \in Ops : q # o => Life(q)' = Life(q)
    BY <2>2 DEF Life
  <2> QED
    BY <2>3, <2>4, LifeMoves DEF Promise!Next, Promise!Expire
<1>25. CASE PowerLoss
  BY <1>b, <1>25, RestartStep DEF Promise!Next
<1>26. CASE UNCHANGED vars
  BY <1>26 DEF vars, lives, Life
<1> QED
  BY <1>b, <1>1, <1>2, <1>3, <1>4, <1>5, <1>6, <1>7, <1>8, <1>9, <1>10, <1>11, <1>12, <1>13, <1>14,
     <1>15, <1>16, <1>17, <1>18, <1>19, <1>20, <1>21, <1>22, <1>23, <1>24, <1>25, <1>26, StepCases

(* The selector store under its controllers implements TerminateOnce. *)
THEOREM SelectorTerminatesOnce == Spec => ImplementsTerminateOnce
<1>1. InitController => Promise!Init
  BY DEF InitController, Init, Promise!Init, Life, lives
<1>2. IInv /\ IInv' /\ [Next]_vars => [Promise!Next]_lives
  BY RefineStep
<1> QED
  BY <1>1, <1>2, Invariance, PTL DEF Spec, ImplementsTerminateOnce, Promise!Spec, lives
=============================================================================
