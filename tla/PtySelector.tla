---------------------------- MODULE PtySelector ----------------------------
(***************************************************************************)
(* Ending a session by selector (request v2): config/kilix_pty_selector.py,*)
(* reserve(), save_phase(), perform() and execute(), on the store class it *)
(* inherits from kilix_pty_request.                                        *)
(*                                                                         *)
(* A process reserves the operation id, resolves the selector to one       *)
(* incarnation of a session, records the binding, records that it is about *)
(* to dispatch, sends the bound request and saves the receipt.  A record   *)
(* is never forgotten; one whose owner stopped is closed by the next       *)
(* caller, as `uncertain` from the phase dispatch and as unsent before it. *)
(*                                                                         *)
(* Abstraction: each `with store.locked()` block is one action, and the    *)
(* owner's flock is `owner` (PtyOperations models both in detail, inodes   *)
(* and pruning included).  The broker's census is `current`, the           *)
(* incarnation the selector resolves to, or None when it is not actionable.*)
(***************************************************************************)
EXTENDS Naturals

CONSTANTS
    Procs,          \* processes that end sessions by selector (supervisors)
    Ops,            \* operation ids
    Keys,           \* fingerprints: request, captured caller and runtime
    Incarnations,   \* session incarnations a selector can resolve to
    None,
    PowerMayFail

Phases == {"reserved", "resolved", "dispatch", "done"}
Sent == {"yes", "no", "unknown"}        \* request_sent of a receipt: true, false, null
NoReceipt == "none"

Record == [phase : Phases, key : Keys, binding : Incarnations \cup {None},
           sent : Sent \cup {NoReceipt}]

ASSUME SelectorAssumption ==
    /\ None \notin Procs \cup Ops \cup Keys \cup Incarnations \cup Record
    /\ PowerMayFail \in BOOLEAN

VARIABLES
    record,     \* the record every reader sees, per operation
    disk,       \* ... and the one the machine finds after it stops
    owner,      \* who holds the operation's lock
    current,    \* the incarnation the selector resolves to now
    pc, op, key,
    seen,       \* reserve: this call has read a record
    binding,    \* perform: the incarnation this call resolved
    outcome,    \* perform: request_sent of the receipt it returns
    said,       \* request_sent of the answer the process keeps for its caller
    sends       \* history: requests sent since the operation was last free

store == <<record, disk, owner>>
call == <<pc, op, key, seen, binding, outcome>>
selectorVars == <<store, current, call, said, sends>>

Performing == {"resolve", "bind", "check", "arm", "send", "sent", "finish"}

-----------------------------------------------------------------------------
(* Store.write; an fsync of the directory makes all of it durable. *)
Put(o, r, synced) ==
    /\ record' = [record EXCEPT ![o] = r]
    /\ disk' = IF synced THEN record' ELSE disk

Goto(p, step) == pc' = [pc EXCEPT ![p] = step]

(* The call returns a receipt; `finally` closes the owner lock. *)
Return(p, sent) ==
    /\ Goto(p, "idle")
    /\ said' = [said EXCEPT ![p] = sent]
    /\ op' = [op EXCEPT ![p] = None]
    /\ key' = [key EXCEPT ![p] = None]
    /\ seen' = [seen EXCEPT ![p] = FALSE]
    /\ binding' = [binding EXCEPT ![p] = None]
    /\ outcome' = [outcome EXCEPT ![p] = NoReceipt]
    /\ owner' = [o \in Ops |-> IF owner[o] = p THEN None ELSE owner[o]]

(* perform returns a receipt for execute to save. *)
Outcome(p, sent) == /\ outcome' = [outcome EXCEPT ![p] = sent]
                    /\ Goto(p, "finish")

(* Mutant of InterruptedSent: an owner that stopped is taken not to have sent. *)
InterruptedUnsent(r) == "no"

(* request_sent of the receipt that closes a record whose owner stopped
   (interrupted). *)
InterruptedSent(r) == IF r.phase = "dispatch" THEN "yes" ELSE "no"

-----------------------------------------------------------------------------
Init ==
    /\ record = [o \in Ops |-> None]
    /\ disk = [o \in Ops |-> None]
    /\ owner = [o \in Ops |-> None]
    /\ current \in Incarnations \cup {None}
    /\ pc = [p \in Procs |-> "idle"]
    /\ op = [p \in Procs |-> None]
    /\ key = [p \in Procs |-> None]
    /\ seen = [p \in Procs |-> FALSE]
    /\ binding = [p \in Procs |-> None]
    /\ outcome = [p \in Procs |-> NoReceipt]
    /\ said = [p \in Procs |-> NoReceipt]
    /\ sends = [o \in Ops |-> 0]

(* execute(verb end) up to reserve *)
Begin(p, o, k) ==
    /\ pc[p] = "idle"
    /\ Goto(p, "reserve")
    /\ op' = [op EXCEPT ![p] = o]
    /\ key' = [key EXCEPT ![p] = k]
    /\ said' = [said EXCEPT ![p] = NoReceipt]
    /\ UNCHANGED <<store, current, seen, binding, outcome, sends>>

(* The id is free: the reservation is durable before anything is resolved. *)
Reserve(p) ==
    /\ pc[p] = "reserve"
    /\ record[op[p]] = None
    /\ ~seen[p]
    /\ owner[op[p]] = None
    /\ Put(op[p], [phase |-> "reserved", key |-> key[p], binding |-> None, sent |-> NoReceipt], TRUE)
    /\ owner' = [owner EXCEPT ![op[p]] = p]
    /\ Goto(p, "resolve")
    /\ UNCHANGED <<current, op, key, seen, binding, outcome, said, sends>>

(* reserve raises before this process owns the operation: the store cannot be
   locked, read or written, or somebody holds the lock of a free id.  The
   reservation may be visible.  The prior history of the id is unknown. *)
ReserveFails(p) ==
    /\ pc[p] = "reserve"
    /\ \/ UNCHANGED <<record, disk>>
       \/ /\ record[op[p]] = None /\ ~seen[p]
          /\ Put(op[p], [phase |-> "reserved", key |-> key[p], binding |-> None, sent |-> NoReceipt], FALSE)
    /\ Return(p, "unknown")
    /\ UNCHANGED <<current, sends>>

(* store_full: refused before anything is resolved. *)
StoreFull(p) ==
    /\ pc[p] = "reserve"
    /\ record[op[p]] = None /\ ~seen[p]
    /\ Return(p, "no")
    /\ UNCHANGED <<record, disk, current, sends>>

(* receipt_evicted, operation_id_reused, or the saved receipt *)
AnswerFromStore(p) ==
    /\ pc[p] = "reserve"
    /\ \/ record[op[p]] = None /\ seen[p] /\ Return(p, "unknown")
       \/ record[op[p]] # None /\ record[op[p]].key # key[p] /\ Return(p, "no")
       \/ /\ record[op[p]] # None /\ record[op[p]].key = key[p] /\ record[op[p]].phase = "done"
          /\ Return(p, record[op[p]].sent)
    /\ UNCHANGED <<record, disk, current, sends>>

(* Nobody owns an unfinished record, or this waiter won its lock: it is closed. *)
CloseInterrupted(p) ==
    /\ pc[p] = "reserve"
    /\ record[op[p]] # None /\ record[op[p]].key = key[p] /\ record[op[p]].phase # "done"
    /\ owner[op[p]] \in {None, p}
    /\ LET sent == InterruptedSent(record[op[p]]) IN
       \E synced \in BOOLEAN :
        /\ Put(op[p], [record[op[p]] EXCEPT !.phase = "done", !.sent = sent], synced)
        /\ Return(p, IF synced THEN sent ELSE "unknown")
    /\ UNCHANGED <<current, sends>>

(* A live process owns it: wait for its lock, ... *)
Wait(p) ==
    /\ pc[p] = "reserve"
    /\ record[op[p]] # None /\ record[op[p]].key = key[p] /\ record[op[p]].phase # "done"
    /\ owner[op[p]] \notin {None, p}
    /\ seen' = [seen EXCEPT ![p] = TRUE]
    /\ Goto(p, "wait")
    /\ UNCHANGED <<store, current, op, key, binding, outcome, said, sends>>

(* ... look again with the lock, or answer in_progress at the deadline. *)
WinLock(p) ==
    /\ pc[p] = "wait"
    /\ owner[op[p]] = None
    /\ owner' = [owner EXCEPT ![op[p]] = p]
    /\ Goto(p, "reserve")
    /\ UNCHANGED <<record, disk, current, op, key, seen, binding, outcome, said, sends>>

InProgress(p) ==
    /\ pc[p] = "wait"
    /\ Return(p, "unknown")
    /\ UNCHANGED <<record, disk, current, sends>>

-----------------------------------------------------------------------------
(* The census: one actionable incarnation that is not the caller's own, or a refusal. *)
Resolve(p) ==
    /\ pc[p] = "resolve"
    /\ \/ /\ current # None
          /\ binding' = [binding EXCEPT ![p] = current]
          /\ Goto(p, "bind")
          /\ UNCHANGED outcome
       \/ Outcome(p, "no") /\ UNCHANGED binding
    /\ UNCHANGED <<store, current, op, key, seen, said, sends>>

(* Mutant of SavePhase: the phase is saved without the binding it is about. *)
SavePhaseUnbound(p, from, to) ==
    /\ record[op[p]] # None
    /\ record[op[p]].key = key[p]
    /\ record[op[p]].phase = from
    /\ Put(op[p], [record[op[p]] EXCEPT !.phase = to], TRUE)

(* save_phase: the record is still this owner's and in the phase it was left in. *)
SavePhase(p, from, to) ==
    /\ record[op[p]] # None
    /\ record[op[p]].key = key[p]
    /\ record[op[p]].phase = from
    /\ Put(op[p], [record[op[p]] EXCEPT !.phase = to, !.binding = binding[p]], TRUE)

Bind(p) ==
    /\ pc[p] = "bind"
    /\ SavePhase(p, "reserved", "resolved")
    /\ Goto(p, "check")
    /\ UNCHANGED <<owner, current, op, key, seen, binding, outcome, said, sends>>

(* runtime_identity and before_dispatch let it go on ... *)
Pass(p) ==
    /\ pc[p] = "check"
    /\ Goto(p, "arm")
    /\ UNCHANGED <<store, current, op, key, seen, binding, outcome, said, sends>>

(* ... or stop it. *)
Stop(p) ==
    /\ pc[p] = "check"
    /\ Outcome(p, "no")
    /\ UNCHANGED <<store, current, op, key, seen, binding, said, sends>>

(* Mutant of Arm: the phase is not recorded before the request is sent. *)
ArmInMemory(p) ==
    /\ pc[p] = "arm"
    /\ Goto(p, "send")
    /\ UNCHANGED <<store, current, op, key, seen, binding, outcome, said, sends>>

(* The durable phase before the only possible mutation. *)
Arm(p) ==
    /\ pc[p] = "arm"
    /\ SavePhase(p, "resolved", "dispatch")
    /\ Goto(p, "send")
    /\ UNCHANGED <<owner, current, op, key, seen, binding, outcome, said, sends>>

(* broker end, bound to the incarnation in binding: it reaches no other session. *)
Send(p) ==
    /\ pc[p] = "send"
    /\ sends' = [sends EXCEPT ![op[p]] = @ + 1]
    /\ Goto(p, "sent")
    /\ UNCHANGED <<store, current, op, key, seen, binding, outcome, said>>

(* The broker's answer: nothing was sent (and says so), no usable answer, or
   the request went out and was refused, accepted or left uncertain. *)
EndAnswer(p) ==
    /\ \/ pc[p] = "send" /\ \E sent \in {"no", "yes"} : Outcome(p, sent)
       \/ pc[p] = "sent" /\ Outcome(p, "yes")
    /\ UNCHANGED <<store, current, op, key, seen, binding, said, sends>>

(* The receipt is saved and returned. *)
Finish(p) ==
    /\ pc[p] = "finish"
    /\ record[op[p]] # None /\ record[op[p]].key = key[p]
    /\ Put(op[p], [record[op[p]] EXCEPT !.phase = "done", !.sent = outcome[p]], TRUE)
    /\ Return(p, outcome[p])
    /\ UNCHANGED <<current, sends>>

(* A phase or the receipt could not be saved, or may not survive; or something raised. *)
Unsaved(p) ==
    /\ pc[p] \in Performing
    /\ \/ UNCHANGED <<record, disk>>
       \/ /\ pc[p] = "bind"
          /\ Put(op[p], [record[op[p]] EXCEPT !.phase = "resolved", !.binding = binding[p]], FALSE)
       \/ /\ pc[p] = "arm"
          /\ Put(op[p], [record[op[p]] EXCEPT !.phase = "dispatch"], FALSE)
       \/ /\ pc[p] = "finish"
          /\ Put(op[p], [record[op[p]] EXCEPT !.phase = "done", !.sent = outcome[p]], FALSE)
    /\ Goto(p, "failed")
    /\ UNCHANGED <<owner, current, op, key, seen, binding, outcome, said, sends>>

(* Mutant of KnownSent: only a saved receipt is evidence. *)
KnownSentFromReceipt(r, k) ==
    IF r # None /\ r.key = k /\ r.phase = "done" THEN r.sent ELSE "no"

(* What a failed owner knows of its request: what the record says, else that it may be out. *)
KnownSent(r, k) ==
    IF r = None \/ r.key # k THEN "yes"
    ELSE IF r.phase = "done" THEN r.sent
    ELSE IF r.phase = "dispatch" THEN "yes" ELSE "no"

(* Mutant of AnswerFailed: a failed owner frees the id for a clean retry. *)
AnswerFailedAndFree(p) ==
    /\ pc[p] = "failed"
    /\ Return(p, KnownSent(record[op[p]], key[p]))
    /\ Put(op[p], None, TRUE)
    /\ UNCHANGED <<current, sends>>

AnswerFailed(p) ==
    /\ pc[p] = "failed"
    /\ \/ Return(p, KnownSent(record[op[p]], key[p]))
       \/ Return(p, "yes")              \* the record cannot be read
    /\ UNCHANGED <<record, disk, current, sends>>

(* KeyboardInterrupt, SystemExit, or the process dies: the owner lock is closed, nothing is
   saved and nothing is answered. *)
Abort(p) ==
    /\ pc[p] # "idle"
    /\ Return(p, NoReceipt)
    /\ UNCHANGED <<record, disk, current, sends>>

-----------------------------------------------------------------------------
(* make_room of a caller with another id drops an old receipt nobody holds.
   Ages are not modelled: the receipt may go under a waiter (a clock that jumps). *)
Evict(o) ==
    /\ record[o] # None /\ record[o].phase = "done"
    /\ owner[o] = None
    /\ record' = [record EXCEPT ![o] = None]
    /\ sends' = [sends EXCEPT ![o] = 0]
    /\ UNCHANGED <<disk, owner, current, call, said>>

(* Sessions end and are replaced: the selector resolves to something else. *)
SessionChanges ==
    /\ current' \in (Incarnations \cup {None}) \ {current}
    /\ UNCHANGED <<store, call, said, sends>>

(* Every process stops with the machine; unflushed records may be earlier ones. *)
PowerLoss ==
    /\ PowerMayFail
    /\ record' \in [Ops -> {record[o] : o \in Ops} \cup {disk[o] : o \in Ops}]
    /\ \A o \in Ops : record'[o] \in {record[o], disk[o]}
    /\ disk' = record'
    /\ owner' = [o \in Ops |-> None]
    /\ pc' = [p \in Procs |-> "idle"]
    /\ op' = [p \in Procs |-> None]
    /\ key' = [p \in Procs |-> None]
    /\ seen' = [p \in Procs |-> FALSE]
    /\ binding' = [p \in Procs |-> None]
    /\ outcome' = [p \in Procs |-> NoReceipt]
    /\ said' = [p \in Procs |-> NoReceipt]
    /\ UNCHANGED <<current, sends>>

(* The steps of execute that do not depend on who called it. *)
Execute(p) ==
    \/ Reserve(p) \/ ReserveFails(p) \/ StoreFull(p) \/ AnswerFromStore(p)
    \/ CloseInterrupted(p) \/ Wait(p) \/ WinLock(p) \/ InProgress(p)
    \/ Resolve(p) \/ Bind(p) \/ Stop(p) \/ Arm(p) \/ Send(p) \/ EndAnswer(p)
    \/ Finish(p) \/ Unsaved(p) \/ AnswerFailed(p)
=============================================================================
