---------------------------- MODULE AgentActions ----------------------------
(***************************************************************************)
(* Structured agent actions (`kilix action`): config/agent_actions.py,     *)
(* ledger(), GuardedClient, execute(), finish() and dispatch(), on top of  *)
(* deliver() of AgentDelivery and launch() of agent_control.               *)
(*                                                                         *)
(* An operation has a durable record of its own: checked before it is      *)
(* executed, intent right before each terminal mutation, final with the    *)
(* receipt.  Its lock is per operation id; the delivery it executes takes  *)
(* the ledger of the target besides.  Whoever asks again for a recorded    *)
(* operation gets its record and executes nothing.                         *)
(*                                                                         *)
(* Abstraction: source and target are fixed, identity checks that refuse   *)
(* before the record change nothing, and pane.open and agent.launch are    *)
(* the operation "launch" with one mutation.                               *)
(***************************************************************************)
EXTENDS AgentDelivery

Results == {"created", "blocked", "uncertain"} \cup Final

(* operation_id, operation, message and body; a fresh delivery uses its own id. *)
Requests ==
    {q \in [op : Ids, kind : {"deliver", "finish", "launch"}, msg : Ids, body : Bodies] :
        q.kind # "finish" => q.msg = q.op}

Action == [digest : Requests, phase : {"checked", "intent", "final"}, status : Results]

ASSUME ActionAssumption == None \notin Requests \cup Action \cup Results

VARIABLES
    actions,    \* operation id -> its record
    active,     \* operation id -> who holds its lock
    apc,        \* what dispatch does
    request,    \* ... and the request it does it for
    result,     \* status of the executed operation
    runs,       \* history: how often an operation was executed
    effects     \* history: terminal mutations an operation has attempted

actionVars == <<actions, active, apc, request, result, runs, effects>>
vars == <<deliveryVars, actionVars>>

InitActions ==
    /\ Init
    /\ actions = [o \in Ids |-> None]
    /\ active = [o \in Ids |-> None]
    /\ apc = [p \in Callers |-> "idle"]
    /\ request = [p \in Callers |-> None]
    /\ result = [p \in Callers |-> None]
    /\ runs = [o \in Ids |-> 0]
    /\ effects = [o \in Ids |-> 0]

At(p, step) == apc' = [apc EXCEPT ![p] = step]
Store(p, phase, status) ==
    actions' = [actions EXCEPT ![request[p].op] =
                   [digest |-> request[p], phase |-> phase, status |-> status]]

(* dispatch returns, and closes the lock of the operation. *)
Return(p) ==
    /\ At(p, "idle")
    /\ request' = [request EXCEPT ![p] = None]
    /\ result' = [result EXCEPT ![p] = None]
    /\ active' = [o \in Ids |-> IF active[o] = p THEN None ELSE active[o]]

(* The request is valid, the identities are verified and the operation's lock is
   free; otherwise nothing changes. *)
Dispatch(p, q) ==
    /\ apc[p] = "idle"
    /\ active[q.op] = None
    /\ active' = [active EXCEPT ![q.op] = p]
    /\ request' = [request EXCEPT ![p] = q]
    /\ At(p, "read")
    /\ UNCHANGED <<deliveryVars, actions, result, runs, effects>>

(* The operation is recorded (or its id belongs to another request), or the record
   cannot be read. *)
Replay(p) ==
    /\ apc[p] = "read"
    /\ Return(p)
    /\ UNCHANGED <<deliveryVars, actions, runs, effects>>

(* The record is durable before the operation is executed. *)
Execute(p) ==
    /\ At(p, "execute")
    /\ runs' = [runs EXCEPT ![request[p].op] = @ + 1]
    /\ UNCHANGED deliveryVars

(* Mutant of Check: an operation that was only checked is executed again. *)
CheckAgain(p) ==
    /\ apc[p] = "read"
    /\ actions[request[p].op] # None => actions[request[p].op].phase = "checked"
    /\ Store(p, "checked", "blocked")
    /\ Execute(p)
    /\ UNCHANGED <<active, request, result, effects>>

Check(p) ==
    /\ apc[p] = "read"
    /\ actions[request[p].op] = None
    /\ Store(p, "checked", "blocked")
    /\ Execute(p)
    /\ UNCHANGED <<active, request, result, effects>>

(* The record is not saved, or not for sure: the operation is not executed. *)
CheckFails(p) ==
    /\ apc[p] = "read"
    /\ actions[request[p].op] = None
    /\ Store(p, "checked", "blocked") \/ UNCHANGED actions
    /\ Return(p)
    /\ UNCHANGED <<deliveryVars, runs, effects>>

-----------------------------------------------------------------------------
(* A terminal mutation is about to go out: GuardedClient.run verifies both panes
   and records the intent. *)
Mutating(p) ==
    /\ apc[p] = "execute"
    /\ pc[p] \in {"pasting", "keying"} \/ request[p].kind = "launch"

Intended(p) == actions[request[p].op].phase = "intent"

BeforeMutation(p) ==
    /\ Mutating(p)
    /\ ~Intended(p)
    /\ Store(p, "intent", "uncertain")
    /\ UNCHANGED <<deliveryVars, active, apc, request, result, runs, effects>>

(* The intent is not saved, or not for sure: the mutation does not go out. *)
IntentUnsaved(p) ==
    /\ Mutating(p)
    /\ ~Intended(p)
    /\ Store(p, "intent", "uncertain") \/ UNCHANGED actions
    /\ IF request[p].kind = "launch" THEN UNCHANGED deliveryVars
       ELSE Answer(p) /\ UNCHANGED <<receipts, world, count>>
    /\ At(p, "final")
    /\ result' = [result EXCEPT ![p] = "uncertain"]
    /\ UNCHANGED <<active, request, runs, effects>>

Effect(p) == effects' = [effects EXCEPT ![request[p].op] = @ + 1]

(* The operation returns this status. *)
Executed(p, status) ==
    /\ At(p, "final")
    /\ result' = [result EXCEPT ![p] = status]

(* Mutant of SendInput: the first input does not wait for the intent. *)
SendUnintended(p) ==
    /\ Paste(p) \/ Press(p)
    /\ Effect(p)
    /\ UNCHANGED <<actions, active, apc, request, result, runs>>

(* The paste or the key of the delivery goes out. *)
SendInput(p) ==
    /\ Paste(p) \/ Press(p)
    /\ Intended(p)
    /\ Effect(p)
    /\ UNCHANGED <<actions, active, apc, request, result, runs>>

(* The operation is a delivery, and deliver takes the ledger of the target. *)
Begin(p) ==
    /\ apc[p] = "execute" /\ request[p].kind # "launch"
    /\ Deliver(p, request[p].msg, request[p].body, request[p].kind = "finish")
    /\ UNCHANGED actionVars

(* A step of the delivery that sends nothing. *)
DeliveryStep(p) ==
    /\ \/ RecoverStaged(p) \/ RecoverSubmitted(p) \/ FindComposerEmpty(p)
       \/ Intend(p) \/ CheckTarget(p) \/ SeeDraft(p) \/ Arm(p) \/ SeeSubmitted(p)
    /\ UNCHANGED actionVars

(* The input the delivery was about to send may have gone out, after the intent. *)
MaySend(p) ==
    IF <<pastes, keys>>' # <<pastes, keys>> THEN Intended(p) /\ Effect(p) ELSE UNCHANGED effects

(* The delivery gives up. *)
DeliveryGivesUp(p) ==
    /\ GiveUp(p)
    /\ MaySend(p)
    /\ Executed(p, "uncertain")
    /\ UNCHANGED <<actions, active, request, runs>>

(* Mutant of DeliveryReturns: an unresolved recovery counts as delivered. *)
DeliveryReturnsSubmitted(p) ==
    /\ \/ (AnswerFromReceipt(p) \/ Confirm(p) \/ RecoverFails(p)) /\ Executed(p, FinalPhase(p))
       \/ Refuse(p) /\ Executed(p, "blocked")
    /\ UNCHANGED <<actions, active, request, runs, effects>>

(* The delivery returns. *)
DeliveryReturns(p) ==
    /\ \/ (AnswerFromReceipt(p) \/ Confirm(p)) /\ Executed(p, FinalPhase(p))
       \/ Refuse(p) /\ Executed(p, "blocked")
       \/ RecoverFails(p) /\ Executed(p, "uncertain")
    /\ UNCHANGED <<actions, active, request, runs, effects>>

(* launch refuses before it starts a pane, or deliver does not get the ledger: blocked,
   unless the intent is recorded. *)
StartsNothing(p) ==
    /\ apc[p] = "execute" /\ pc[p] = "idle"
    /\ Executed(p, IF Intended(p) THEN "uncertain" ELSE "blocked")
    /\ UNCHANGED <<deliveryVars, actions, active, request, runs, effects>>

(* A pane is started; it is verified, or its answer or its geometry is not usable. *)
Launch(p) ==
    /\ apc[p] = "execute" /\ request[p].kind = "launch"
    /\ Intended(p)
    /\ Effect(p)
    /\ Executed(p, "created") \/ Executed(p, "uncertain")
    /\ UNCHANGED <<deliveryVars, actions, active, request, runs>>

(* The final receipt is saved and returned. *)
Finish(p) ==
    /\ apc[p] = "final"
    /\ Store(p, "final", result[p])
    /\ Return(p)
    /\ UNCHANGED <<deliveryVars, runs, effects>>

(* ... or returned without having been saved. *)
FinishUnsaved(p) ==
    /\ apc[p] = "final"
    /\ Return(p)
    /\ UNCHANGED <<deliveryVars, actions, runs, effects>>

(* The process is killed: both locks are released.  The kitten it had started may
   outlive it with its input. *)
Killed(p) ==
    /\ apc[p] # "idle"
    /\ IF pc[p] = "idle" THEN UNCHANGED <<deliveryVars, effects>> ELSE Crash(p) /\ MaySend(p)
    /\ Return(p)
    /\ UNCHANGED <<actions, runs>>

DispatchSteps(p) ==
    \/ Replay(p) \/ Check(p) \/ CheckFails(p) \/ BeforeMutation(p) \/ IntentUnsaved(p)
    \/ SendInput(p)
    \/ Begin(p) \/ DeliveryStep(p) \/ DeliveryGivesUp(p) \/ DeliveryReturns(p)
    \/ StartsNothing(p) \/ Launch(p) \/ Finish(p) \/ FinishUnsaved(p)

NextAction ==
    \/ \E p \in Callers :
        \/ \E q \in Requests : Dispatch(p, q)
        \/ DispatchSteps(p)
        \/ Killed(p)
    \/ Environment /\ UNCHANGED actionVars

ActionSpec == InitActions /\ [][NextAction]_vars

-----------------------------------------------------------------------------
(* Types. *)
ActionTypeOK ==
    /\ TypeOK
    /\ actions \in [Ids -> Action \cup {None}]
    /\ active \in [Ids -> Callers \cup {None}]
    /\ apc \in [Callers -> {"idle", "read", "execute", "final"}]
    /\ request \in [Callers -> Requests \cup {None}]
    /\ result \in [Callers -> Results \cup {None}]
    /\ runs \in [Ids -> Nat]
    /\ effects \in [Ids -> Nat]

(* An operation is executed at most once, whoever repeats its request while it
   runs, after it was killed or after its record was not saved ("Preserve that ID
   through retries", docs/structured-actions.md). *)
ExecutedOnce == \A o \in Ids : runs[o] <= 1

(* Nothing reaches the terminal under an operation without a durable intent, and a
   final `blocked` is final: nothing was sent or launched under that id. *)
BlockedDidNothing ==
    \A o \in Ids : effects[o] > 0 =>
        /\ actions[o] # None
        /\ actions[o].phase = "intent" \/ (actions[o].phase = "final" /\ actions[o].status # "blocked")

(* The two ledgers agree: an operation that says `submitted` or `deferred` has a
   delivery receipt for its message and body that says the same; both keep their
   types. *)
LedgersAgree ==
    /\ ActionTypeOK
    /\ \A o \in Ids : actions[o] # None /\ actions[o].phase = "final" /\ actions[o].status \in Final =>
        LET q == actions[o].digest IN
            /\ receipts[q.msg] # None
            /\ receipts[q.msg].phase = actions[o].status /\ receipts[q.msg].digest = q.body
=============================================================================
