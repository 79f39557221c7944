------------------------ MODULE AgentActions_proofs ------------------------
(***************************************************************************)
(* Proofs about AgentActions, for any number of callers and operations:    *)
(* its deliveries are those of AgentDelivery, an operation is executed     *)
(* once, and its record is true of the terminal and of the receipts.       *)
(***************************************************************************)
EXTENDS AgentActions, AgentDelivery_proofs

(* Whoever is in dispatch holds the lock of its operation. *)
Held ==
    \A p \in Callers : apc[p] # "idle" => request[p] \in Requests /\ active[request[p].op] = p

(* A delivery runs under the operation that started it. *)
Linked ==
    \A p \in Callers : pc[p] # "idle" =>
        /\ apc[p] = "execute" /\ request[p].kind # "launch"
        /\ msg[p] = request[p].msg /\ body[p] = request[p].body

(* The record of an operation that is executed says so, and belongs to its request. *)
Taken ==
    \A p \in Callers : apc[p] \in {"execute", "final"} =>
        /\ actions[request[p].op] # None
        /\ actions[request[p].op].digest = request[p]
        /\ actions[request[p].op].phase # "final"
        /\ apc[p] = "final" => result[p] \in Results

Once == \A o \in Ids : runs[o] <= 1 /\ (actions[o] = None => runs[o] = 0)

(* Nothing was sent under an operation whose delivery has not taken up its message, or
   that returned blocked. *)
Honest ==
    /\ BlockedDidNothing
    /\ \A p \in Callers :
        (apc[p] = "execute" /\ pc[p] \in {"idle", "look", "intend"}) \/ (apc[p] = "final" /\ result[p] = "blocked")
            => effects[request[p].op] = 0

(* The receipt that a status of a delivery is about. *)
Receipted(q, status) ==
    receipts[q.msg] # None /\ receipts[q.msg].phase = status /\ receipts[q.msg].digest = q.body

Agree ==
    /\ \A o \in Ids : actions[o] # None /\ actions[o].phase = "final" /\ actions[o].status \in Final =>
            Receipted(actions[o].digest, actions[o].status)
    /\ \A p \in Callers : apc[p] = "final" /\ result[p] \in Final => Receipted(request[p], result[p])

AInv == ActionTypeOK /\ Held /\ Linked /\ Taken /\ Once /\ Honest /\ Agree

-----------------------------------------------------------------------------
LEMMA RequestFields ==
    ASSUME NEW q \in Requests
    PROVE  q.op \in Ids /\ q.msg \in Ids /\ q.body \in Bodies /\ q.kind \in {"deliver", "finish", "launch"}
BY DEF Requests

LEMMA AtFacts ==
    ASSUME ActionTypeOK, NEW p \in Callers, NEW step \in {"idle", "read", "execute", "final"}, At(p, step)
    PROVE  /\ apc' \in [Callers -> {"idle", "read", "execute", "final"}]
           /\ apc'[p] = step
           /\ \A q \in Callers : q # p => apc'[q] = apc[q]
BY DEF ActionTypeOK, At

LEMMA ReturnFacts ==
    ASSUME ActionTypeOK, Held, NEW p \in Callers, Return(p)
    PROVE  /\ apc' \in [Callers -> {"idle", "read", "execute", "final"}]
           /\ request' \in [Callers -> Requests \cup {None}]
           /\ result' \in [Callers -> Results \cup {None}]
           /\ active' \in [Ids -> Callers \cup {None}]
           /\ apc'[p] = "idle"
           /\ \A q \in Callers : q # p =>
                  /\ apc'[q] = apc[q] /\ request'[q] = request[q] /\ result'[q] = result[q]
                  /\ apc[q] # "idle" => active'[request[q].op] = q
<1>1. /\ apc' \in [Callers -> {"idle", "read", "execute", "final"}]
      /\ request' \in [Callers -> Requests \cup {None}]
      /\ result' \in [Callers -> Results \cup {None}]
      /\ active' \in [Ids -> Callers \cup {None}]
  BY DEF ActionTypeOK, Return, At
<1>2. apc'[p] = "idle"
  BY DEF ActionTypeOK, Return, At
<1>3. ASSUME NEW q \in Callers, q # p
      PROVE  /\ apc'[q] = apc[q] /\ request'[q] = request[q] /\ result'[q] = result[q]
             /\ apc[q] # "idle" => active'[request[q].op] = q
  <2>1. apc'[q] = apc[q] /\ request'[q] = request[q] /\ result'[q] = result[q]
    BY <1>3 DEF ActionTypeOK, Return, At
  <2>2. ASSUME apc[q] # "idle" PROVE active'[request[q].op] = q
    <3>1. request[q] \in Requests /\ active[request[q].op] = q
      BY <2>2 DEF Held
    <3>2. request[q].op \in Ids
      BY <3>1, RequestFields
    <3> QED BY <3>1, <3>2, <1>3 DEF Return
  <2> QED BY <2>1, <2>2
<1> QED BY <1>1, <1>2, <1>3

LEMMA StoreFacts ==
    ASSUME ActionTypeOK, Held, NEW p \in Callers, apc[p] # "idle",
           NEW phase \in {"checked", "intent", "final"}, NEW status \in Results, Store(p, phase, status)
    PROVE  /\ actions' \in [Ids -> Action \cup {None}]
           /\ request[p].op \in Ids
           /\ actions'[request[p].op] # None
           /\ actions'[request[p].op].digest = request[p]
           /\ actions'[request[p].op].phase = phase
           /\ actions'[request[p].op].status = status
           /\ \A o \in Ids : o # request[p].op => actions'[o] = actions[o]
<1>1. request[p] \in Requests /\ request[p].op \in Ids
  BY RequestFields DEF Held
<1> DEFINE r == [digest |-> request[p], phase |-> phase, status |-> status]
<1>2. r \in Action /\ r # None
  BY <1>1, ActionAssumption DEF Action
<1>3. actions' = [actions EXCEPT ![request[p].op] = r]
  BY DEF Store
<1>4. r.digest = request[p] /\ r.phase = phase /\ r.status = status
  OBVIOUS
<1> HIDE DEF r
<1> QED BY <1>1, <1>2, <1>3, <1>4 DEF ActionTypeOK

(* No two callers work on one operation. *)
LEMMA Exclusive ==
    ASSUME Held, NEW p \in Callers, NEW q \in Callers, p # q, apc[p] # "idle", apc[q] # "idle"
    PROVE  request[p].op # request[q].op
BY DEF Held

-----------------------------------------------------------------------------
(* What the steps of a delivery do, as far as the operation around it can tell. *)
LEMMA DeliveryStepFacts ==
    ASSUME IInv, NEW p \in Callers,
           RecoverStaged(p) \/ RecoverSubmitted(p) \/ FindComposerEmpty(p)
           \/ Intend(p) \/ CheckTarget(p) \/ Paste(p) \/ Press(p) \/ SeeDraft(p) \/ Arm(p) \/ SeeSubmitted(p)
    PROVE  /\ pc[p] # "idle" /\ pc'[p] # "idle"
           /\ \A q \in Callers : q # p => pc'[q] = pc[q]
           /\ msg' = msg /\ body' = body
           /\ pc'[p] \in {"idle", "look", "intend"} => pc[p] \in {"idle", "look", "intend"}
<1> USE DEF IInv, TypeOK, Goto, call
<1>2. CASE RecoverStaged(p)
  BY <1>2 DEF RecoverStaged, Unfinished
<1>3. CASE RecoverSubmitted(p)
  BY <1>3 DEF RecoverSubmitted, Unfinished
<1>4. CASE FindComposerEmpty(p)
  BY <1>4 DEF FindComposerEmpty
<1>5. CASE Intend(p)
  BY <1>5 DEF Intend
<1>6. CASE CheckTarget(p)
  BY <1>6 DEF CheckTarget
<1>7. CASE Paste(p)
  BY <1>7 DEF Paste
<1>8. CASE Press(p)
  BY <1>8 DEF Press
<1>9. CASE SeeDraft(p)
  BY <1>9 DEF SeeDraft
<1>10. CASE Arm(p)
  BY <1>10 DEF Arm
<1>11. CASE SeeSubmitted(p)
  BY <1>11 DEF SeeSubmitted
<1> QED BY <1>2, <1>3, <1>4, <1>5, <1>6, <1>7, <1>8, <1>9, <1>10, <1>11

LEMMA DeliveryReturnFacts ==
    ASSUME IInv, NEW p \in Callers,
           AnswerFromReceipt(p) \/ Refuse(p) \/ RecoverFails(p) \/ Confirm(p) \/ GiveUp(p) \/ Crash(p)
    PROVE  /\ pc[p] # "idle" /\ pc'[p] = "idle"
           /\ \A q \in Callers : q # p => pc'[q] = pc[q] /\ msg'[q] = msg[q] /\ body'[q] = body[q]
<1>1. Answer(p) /\ pc[p] # "idle"
  BY DEF AnswerFromReceipt, Refuse, RecoverFails, Unfinished, Confirm, GiveUp, Crash, Recorded, Steps
<1> QED BY <1>1, AnswerFacts DEF IInv

(* A receipt that is final stays as it is. *)
LEMMA FinalStays ==
    ASSUME IInv, [Next]_deliveryVars, NEW m \in Ids, receipts[m] # None, receipts[m].phase \in Final
    PROVE  receipts'[m] = receipts[m]
<1> USE DEF world, kittens, call, count
<1>1. ASSUME NEW p \in Callers, NEW r, Save(p, r), msg[p] # m
      PROVE  receipts'[m] = receipts[m]
  BY <1>1 DEF Save, IInv, TypeOK
<1>2. ASSUME NEW p \in Callers, pc[p] \in {"intend", "arm", "armStaged", "confirm"}
      PROVE  msg[p] # m
  BY <1>2 DEF IInv, RecordInv, MyReceipt, Recorded, Steps, Final
<1>3. ASSUME NEW p \in Callers, Intend(p) \/ Arm(p) \/ Confirm(p) PROVE receipts'[m] = receipts[m]
  <2>1. msg[p] # m
    BY <1>2, <1>3 DEF Intend, Arm, Confirm
  <2> QED BY <1>1, <1>3, <2>1 DEF Intend, Arm, Confirm, Close, SavePhase
<1>4. ASSUME NEW p \in Callers, GiveUp(p) PROVE receipts'[m] = receipts[m]
  <2>1. CASE GiveUpIntend(p) \/ GiveUpArm(p)
    <3>1. msg[p] # m
      BY <1>2, <2>1 DEF GiveUpIntend, GiveUpArm
    <3> QED BY <1>1, <2>1, <3>1 DEF GiveUpIntend, GiveUpArm, SavePhase
  <2>2. CASE GiveUpQuiet(p) \/ GiveUpPaste(p) \/ GiveUpPress(p)
    BY <2>2 DEF GiveUpQuiet, GiveUpPaste, GiveUpPress
  <2> QED BY <1>3, <1>4, <2>1, <2>2, WaysToGiveUp
<1>5. ASSUME NEW p \in Callers, DeliverySteps(p) PROVE receipts'[m] = receipts[m]
  <2>1. CASE AnswerFromReceipt(p) \/ Refuse(p) \/ RecoverSubmitted(p)
             \/ RecoverFails(p) \/ FindComposerEmpty(p) \/ CheckTarget(p)
    BY <2>1 DEF AnswerFromReceipt, Refuse, RecoverSubmitted, RecoverFails,
                FindComposerEmpty, CheckTarget
  <2>2. CASE RecoverStaged(p) \/ SeeDraft(p) \/ SeeSubmitted(p) \/ Paste(p) \/ Press(p)
    BY <2>2 DEF RecoverStaged, SeeDraft, SeeSubmitted, Paste, Press
  <2> QED BY <1>3, <1>4, <1>5, <2>1, <2>2 DEF DeliverySteps
<1>6. ASSUME NEW p \in Callers, \/ \E n \in Ids, b \in Bodies, finish \in BOOLEAN : Deliver(p, n, b, finish)
                                \/ Crash(p)
      PROVE  receipts'[m] = receipts[m]
  BY <1>6 DEF Deliver, Crash
<1>7. CASE Environment \/ UNCHANGED deliveryVars
  BY <1>7 DEF Environment, AgentReads, AgentWorks, LateInput, HumanTypes, HumanClears, Scroll, AgentRestarts, deliveryVars
<1> QED BY <1>5, <1>6, <1>7 DEF Next

-----------------------------------------------------------------------------
(* Every step of an operation is a step of a delivery, or none of its business. *)
LEMMA StepDelivers ==
    ASSUME Held, Linked, [NextAction]_vars
    PROVE  [Next]_deliveryVars
<1>1. CASE UNCHANGED vars
  BY <1>1 DEF vars
<1>2. CASE Environment
  BY <1>2 DEF Next
<1>3. ASSUME NEW p \in Callers, \/ \E q \in Requests : Dispatch(p, q)
                                \/ Replay(p) \/ CheckFails(p) \/ BeforeMutation(p) \/ StartsNothing(p)
                                \/ Launch(p) \/ Finish(p) \/ FinishUnsaved(p)
      PROVE  UNCHANGED deliveryVars
  BY <1>3 DEF Dispatch, Replay, CheckFails, BeforeMutation, StartsNothing, Launch, Finish, FinishUnsaved
<1>4. ASSUME NEW p \in Callers, Check(p)
      PROVE  UNCHANGED deliveryVars
  BY <1>4 DEF Check, Execute
<1>begin. ASSUME NEW p \in Callers, Begin(p)
          PROVE  Next
  <2>1. request[p].msg \in Ids /\ request[p].body \in Bodies /\ (request[p].kind = "finish") \in BOOLEAN
    BY <1>begin, RequestFields DEF Held, Begin
  <2>2. Deliver(p, request[p].msg, request[p].body, request[p].kind = "finish")
    BY <1>begin DEF Begin
  <2> QED BY <2>1, <2>2 DEF Next
<1>5. ASSUME NEW p \in Callers, SendInput(p) \/ DeliveryStep(p) \/ DeliveryGivesUp(p) \/ DeliveryReturns(p)
      PROVE  Next
  <2>1. DeliverySteps(p)
    BY <1>5 DEF SendInput, DeliveryStep, DeliveryGivesUp, DeliveryReturns, DeliverySteps
  <2> QED BY <2>1 DEF Next
<1>6. ASSUME NEW p \in Callers, IntentUnsaved(p)
      PROVE  [Next]_deliveryVars
  <2>1. CASE request[p].kind = "launch"
    BY <1>6, <2>1 DEF IntentUnsaved
  <2>2. CASE request[p].kind # "launch"
    <3>1. Crash(p)
      BY <1>6, <2>2 DEF IntentUnsaved, Mutating, Crash, world, kittens, count
    <3> QED BY <3>1 DEF Next
  <2> QED BY <2>1, <2>2
<1>7. ASSUME NEW p \in Callers, Killed(p)
      PROVE  [Next]_deliveryVars
  BY <1>7 DEF Killed, Next
<1> QED BY <1>1, <1>2, <1>3, <1>4, <1>begin, <1>5, <1>6, <1>7 DEF NextAction, DispatchSteps


LEMMA KeepsDispatch ==
    ASSUME IInv, IInv', AInv, NEW p \in Callers, NEW q \in Requests, Dispatch(p, q)
    PROVE  AInv'
<1> USE DEF AInv
<1>op. q.op \in Ids /\ q.msg \in Ids /\ apc[p] = "idle" /\ pc[p] = "idle"
  BY RequestFields DEF Held, Linked, Mutating, Dispatch
<1>call. /\ apc' \in [Callers -> {"idle", "read", "execute", "final"}]
         /\ request' \in [Callers -> Requests \cup {None}]
         /\ active' \in [Ids -> Callers \cup {None}]
         /\ apc'[p] = "read" /\ request'[p] = q /\ active[q.op] = None /\ active'[q.op] = p
         /\ \A c \in Callers : c # p => apc'[c] = apc[c] /\ request'[c] = request[c]
         /\ \A o \in Ids : o # q.op => active'[o] = active[o]
  BY <1>op DEF Dispatch, At, ActionTypeOK
<1>delivery. UNCHANGED <<receipts, pc, msg, body>>
  BY DEF Dispatch, deliveryVars, call
<1>types. ActionTypeOK'
  BY <1>op, <1>call, <1>delivery DEF ActionTypeOK, IInv, Dispatch, actionVars, Mutating, Intended, Effect, Executed
<1>held. Held'
  <2>1. \A c \in Callers : c # p /\ apc[c] # "idle" => request[c] \in Requests /\ request[c].op \in Ids /\ request[c].op # q.op
    BY <1>call, <1>op, RequestFields, DeliveryAssumption DEF Held
  <2> QED BY <1>call, <1>op, <2>1 DEF Held
<1>linked. Linked'
  BY <1>op, <1>call, <1>delivery DEF Linked, Dispatch, actionVars, Mutating, Intended, Effect, Executed
<1>taken. Taken'
  BY <1>op, <1>call, <1>delivery DEF Held, Taken, ActionTypeOK, Dispatch, actionVars, Mutating, Intended, Effect, Executed
<1>once. Once'
  BY <1>op, <1>call, <1>delivery DEF Once, ActionTypeOK, Dispatch, actionVars, Mutating, Intended, Effect, Executed
<1>honest. Honest'
  BY <1>op, <1>call, <1>delivery DEF Held, Honest, Taken, BlockedDidNothing, ActionTypeOK, Dispatch, actionVars, Mutating, Intended, Effect, Executed
<1>agree. Agree'
  BY <1>op, <1>call, <1>delivery DEF Held, Agree, Receipted, ActionTypeOK, Taken, Dispatch, actionVars, Mutating, Intended, Effect, Executed
<1> QED BY <1>types, <1>held, <1>linked, <1>taken, <1>once, <1>honest, <1>agree

LEMMA KeepsReplay ==
    ASSUME IInv, IInv', AInv, NEW p \in Callers, Replay(p)
    PROVE  AInv'
<1> USE DEF AInv
<1>op. request[p] \in Requests /\ request[p].op \in Ids /\ request[p].msg \in Ids /\ apc[p] # "idle"
  BY RequestFields DEF Held, Linked, Mutating, Replay
<1>call. /\ apc' \in [Callers -> {"idle", "read", "execute", "final"}]
         /\ request' \in [Callers -> Requests \cup {None}]
         /\ result' \in [Callers -> Results \cup {None}]
         /\ active' \in [Ids -> Callers \cup {None}]
         /\ apc'[p] = "idle"
         /\ \A q \in Callers : q # p =>
                /\ apc'[q] = apc[q] /\ request'[q] = request[q] /\ result'[q] = result[q]
                /\ apc[q] # "idle" => active'[request[q].op] = q
  BY ReturnFacts DEF Replay
<1>delivery. UNCHANGED <<receipts, pc, msg, body>>
  BY DEF Replay, deliveryVars, call
<1>others. \A q \in Callers : q # p /\ apc[q] # "idle" =>
            request[q] \in Requests /\ request[q].op \in Ids /\ request[q].op # request[p].op
  BY <1>op, Exclusive, RequestFields DEF Held
<1>types. ActionTypeOK'
  BY <1>op, <1>call, <1>delivery, <1>others DEF ActionTypeOK, IInv, Replay, actionVars, Mutating, Intended, Effect, Executed
<1>held. Held'
  BY <1>op, <1>call, <1>delivery, <1>others DEF Held, Replay, actionVars, Mutating, Intended, Effect, Executed
<1>linked. Linked'
  BY <1>op, <1>call, <1>delivery, <1>others DEF Linked, Replay, actionVars, Mutating, Intended, Effect, Executed
<1>taken. Taken'
  BY <1>op, <1>call, <1>delivery, <1>others DEF Held, Taken, ActionTypeOK, Replay, actionVars, Mutating, Intended, Effect, Executed
<1>once. Once'
  BY <1>op, <1>call, <1>delivery, <1>others DEF Once, ActionTypeOK, Replay, actionVars, Mutating, Intended, Effect, Executed
<1>honest. Honest'
  BY <1>op, <1>call, <1>delivery, <1>others DEF Held, Honest, Taken, BlockedDidNothing, ActionTypeOK, Replay, actionVars, Mutating, Intended, Effect, Executed
<1>agree. Agree'
  BY <1>op, <1>call, <1>delivery, <1>others DEF Held, Agree, Receipted, ActionTypeOK, Taken, Replay, actionVars, Mutating, Intended, Effect, Executed
<1> QED BY <1>types, <1>held, <1>linked, <1>taken, <1>once, <1>honest, <1>agree

LEMMA KeepsCheck ==
    ASSUME IInv, IInv', AInv, NEW p \in Callers, Check(p)
    PROVE  AInv'
<1> USE DEF AInv
<1>op. request[p] \in Requests /\ request[p].op \in Ids /\ request[p].msg \in Ids /\ apc[p] # "idle"
  BY RequestFields DEF Held, Linked, Mutating, Check
<1>call. /\ apc' \in [Callers -> {"idle", "read", "execute", "final"}]
         /\ apc'[p] = "execute"
         /\ \A q \in Callers : q # p => apc'[q] = apc[q]
  BY AtFacts DEF Check, Execute
<1>store. /\ actions' \in [Ids -> Action \cup {None}]
          /\ actions'[request[p].op] # None
          /\ actions'[request[p].op].digest = request[p]
          /\ actions'[request[p].op].phase = "checked"
          /\ actions'[request[p].op].status = "blocked"
          /\ \A o \in Ids : o # request[p].op => actions'[o] = actions[o]
  BY <1>op, StoreFacts DEF Check, Results, Taken
<1>delivery. UNCHANGED <<receipts, pc, msg, body>>
  BY DEF Check, Execute, deliveryVars, call
<1>others. \A q \in Callers : q # p /\ apc[q] # "idle" =>
            request[q] \in Requests /\ request[q].op \in Ids /\ request[q].op # request[p].op
  BY <1>op, Exclusive, RequestFields DEF Held
<1>run. /\ runs' \in [Ids -> Nat] /\ runs'[request[p].op] = 1
        /\ \A o \in Ids : o # request[p].op => runs'[o] = runs[o]
  BY <1>op DEF Check, Execute, Once, ActionTypeOK
<1>types. ActionTypeOK'
  BY <1>call, <1>store, <1>run DEF ActionTypeOK, IInv, Check
<1>held. Held'
  BY <1>op, <1>call, <1>store, <1>delivery, <1>others, <1>run DEF Held, Check, actionVars, Mutating, Intended, Effect, Executed
<1>linked. Linked'
  BY <1>op, <1>call, <1>store, <1>delivery, <1>others, <1>run DEF Linked, Check, actionVars, Mutating, Intended, Effect, Executed
<1>taken. Taken'
  BY <1>op, <1>call, <1>store, <1>delivery, <1>others, <1>run DEF Held, Taken, ActionTypeOK, Check, actionVars, Mutating, Intended, Effect, Executed
<1>once. Once'
  BY <1>store, <1>run DEF Once
<1>honest. Honest'
  BY <1>op, <1>call, <1>store, <1>delivery, <1>others, <1>run DEF Held, Honest, Taken, BlockedDidNothing, ActionTypeOK, Check, actionVars, Mutating, Intended, Effect, Executed
<1>agree. Agree'
  BY <1>op, <1>call, <1>store, <1>delivery, <1>others, <1>run DEF Held, Agree, Receipted, ActionTypeOK, Taken, Check, actionVars, Mutating, Intended, Effect, Executed
<1> QED BY <1>types, <1>held, <1>linked, <1>taken, <1>once, <1>honest, <1>agree

LEMMA KeepsCheckFails ==
    ASSUME IInv, IInv', AInv, NEW p \in Callers, CheckFails(p)
    PROVE  AInv'
<1> USE DEF AInv
<1>op. request[p] \in Requests /\ request[p].op \in Ids /\ request[p].msg \in Ids /\ apc[p] # "idle"
  BY RequestFields DEF Held, Linked, Mutating, CheckFails
<1>call. /\ apc' \in [Callers -> {"idle", "read", "execute", "final"}]
         /\ request' \in [Callers -> Requests \cup {None}]
         /\ result' \in [Callers -> Results \cup {None}]
         /\ active' \in [Ids -> Callers \cup {None}]
         /\ apc'[p] = "idle"
         /\ \A q \in Callers : q # p =>
                /\ apc'[q] = apc[q] /\ request'[q] = request[q] /\ result'[q] = result[q]
                /\ apc[q] # "idle" => active'[request[q].op] = q
  BY ReturnFacts DEF CheckFails
<1>store. \/ actions' = actions
          \/ /\ actions' \in [Ids -> Action \cup {None}]
             /\ actions'[request[p].op] # None
             /\ actions'[request[p].op].digest = request[p]
             /\ actions'[request[p].op].phase = "checked"
             /\ actions'[request[p].op].status = "blocked"
             /\ \A o \in Ids : o # request[p].op => actions'[o] = actions[o]
  BY <1>op, StoreFacts DEF CheckFails, Results, Taken
<1>delivery. UNCHANGED <<receipts, pc, msg, body>>
  BY DEF CheckFails, deliveryVars, call
<1>others. \A q \in Callers : q # p /\ apc[q] # "idle" =>
            request[q] \in Requests /\ request[q].op \in Ids /\ request[q].op # request[p].op
  BY <1>op, Exclusive, RequestFields DEF Held
<1>types. ActionTypeOK'
  BY <1>op, <1>call, <1>store, <1>delivery, <1>others DEF ActionTypeOK, IInv, CheckFails, actionVars, Mutating, Intended, Effect, Executed
<1>held. Held'
  BY <1>op, <1>call, <1>store, <1>delivery, <1>others DEF Held, CheckFails, actionVars, Mutating, Intended, Effect, Executed
<1>linked. Linked'
  BY <1>op, <1>call, <1>store, <1>delivery, <1>others DEF Linked, CheckFails, actionVars, Mutating, Intended, Effect, Executed
<1>taken. Taken'
  BY <1>op, <1>call, <1>store, <1>delivery, <1>others DEF Held, Taken, ActionTypeOK, CheckFails, actionVars, Mutating, Intended, Effect, Executed
<1>once. Once'
  BY <1>op, <1>call, <1>store, <1>delivery, <1>others DEF Once, ActionTypeOK, CheckFails, actionVars, Mutating, Intended, Effect, Executed
<1>honest. Honest'
  BY <1>op, <1>call, <1>store, <1>delivery, <1>others DEF Held, Honest, Taken, BlockedDidNothing, ActionTypeOK, CheckFails, actionVars, Mutating, Intended, Effect, Executed
<1>agree. Agree'
  BY <1>op, <1>call, <1>store, <1>delivery, <1>others DEF Held, Agree, Receipted, ActionTypeOK, Taken, CheckFails, actionVars, Mutating, Intended, Effect, Executed
<1> QED BY <1>types, <1>held, <1>linked, <1>taken, <1>once, <1>honest, <1>agree

LEMMA KeepsBeforeMutation ==
    ASSUME IInv, IInv', AInv, NEW p \in Callers, BeforeMutation(p)
    PROVE  AInv'
<1> USE DEF AInv
<1>op. request[p] \in Requests /\ request[p].op \in Ids /\ request[p].msg \in Ids /\ apc[p] # "idle"
  BY RequestFields DEF Held, Linked, Mutating, BeforeMutation
<1>store. /\ actions' \in [Ids -> Action \cup {None}]
          /\ actions'[request[p].op] # None
          /\ actions'[request[p].op].digest = request[p]
          /\ actions'[request[p].op].phase = "intent"
          /\ actions'[request[p].op].status = "uncertain"
          /\ \A o \in Ids : o # request[p].op => actions'[o] = actions[o]
  BY <1>op, StoreFacts DEF BeforeMutation, Results, Taken
<1>delivery. UNCHANGED <<receipts, pc, msg, body>>
  BY DEF BeforeMutation, deliveryVars, call
<1>others. \A q \in Callers : q # p /\ apc[q] # "idle" =>
            request[q] \in Requests /\ request[q].op \in Ids /\ request[q].op # request[p].op
  BY <1>op, Exclusive, RequestFields DEF Held
<1>types. ActionTypeOK'
  BY <1>op, <1>store, <1>delivery, <1>others DEF ActionTypeOK, IInv, BeforeMutation, actionVars, Mutating, Intended, Effect, Executed
<1>held. Held'
  BY <1>op, <1>store, <1>delivery, <1>others DEF Held, BeforeMutation, actionVars, Mutating, Intended, Effect, Executed
<1>linked. Linked'
  BY <1>op, <1>store, <1>delivery, <1>others DEF Linked, BeforeMutation, actionVars, Mutating, Intended, Effect, Executed
<1>taken. Taken'
  BY <1>op, <1>store, <1>delivery, <1>others DEF Held, Taken, ActionTypeOK, BeforeMutation, actionVars, Mutating, Intended, Effect, Executed
<1>once. Once'
  BY <1>op, <1>store, <1>delivery, <1>others DEF Once, ActionTypeOK, BeforeMutation, actionVars, Mutating, Intended, Effect, Executed
<1>honest. Honest'
  BY <1>op, <1>store, <1>delivery, <1>others DEF Held, Honest, Taken, BlockedDidNothing, ActionTypeOK, BeforeMutation, actionVars, Mutating, Intended, Effect, Executed
<1>agree. Agree'
  BY <1>op, <1>store, <1>delivery, <1>others DEF Held, Agree, Receipted, ActionTypeOK, Taken, BeforeMutation, actionVars, Mutating, Intended, Effect, Executed
<1> QED BY <1>types, <1>held, <1>linked, <1>taken, <1>once, <1>honest, <1>agree

LEMMA KeepsIntentUnsaved ==
    ASSUME IInv, IInv', AInv, NEW p \in Callers, IntentUnsaved(p)
    PROVE  AInv'
<1> USE DEF AInv
<1>op. request[p] \in Requests /\ request[p].op \in Ids /\ request[p].msg \in Ids /\ apc[p] # "idle"
  BY RequestFields DEF Held, Linked, Mutating, IntentUnsaved
<1>call. /\ apc' \in [Callers -> {"idle", "read", "execute", "final"}]
         /\ apc'[p] = "final"
         /\ \A q \in Callers : q # p => apc'[q] = apc[q]
  BY AtFacts DEF IntentUnsaved, Executed
<1>result. /\ result' \in [Callers -> Results \cup {None}]
           /\ result'[p] \in Results
           /\ \A q \in Callers : q # p => result'[q] = result[q]
  BY DEF IntentUnsaved, Executed, ActionTypeOK, Results, Final, FinalPhase
<1>store. \/ actions' = actions
          \/ /\ actions' \in [Ids -> Action \cup {None}]
             /\ actions'[request[p].op] # None
             /\ actions'[request[p].op].digest = request[p]
             /\ actions'[request[p].op].phase = "intent"
             /\ actions'[request[p].op].status = "uncertain"
             /\ \A o \in Ids : o # request[p].op => actions'[o] = actions[o]
  BY <1>op, StoreFacts DEF IntentUnsaved, Results, Taken
<1>delivery. /\ pc'[p] = "idle"
             /\ \A q \in Callers : q # p => pc'[q] = pc[q] /\ msg'[q] = msg[q] /\ body'[q] = body[q]
  <2>1. CASE request[p].kind = "launch"
    BY <2>1, <1>op DEF IntentUnsaved, deliveryVars, call, Linked
  <2>2. CASE request[p].kind # "launch"
    BY <2>2, AnswerFacts DEF IntentUnsaved, IInv
  <2> QED BY <2>1, <2>2
<1>others. \A q \in Callers : q # p /\ apc[q] # "idle" =>
            request[q] \in Requests /\ request[q].op \in Ids /\ request[q].op # request[p].op
  BY <1>op, Exclusive, RequestFields DEF Held
<1>kept. \A m \in Ids : receipts[m] # None /\ receipts[m].phase \in Final => receipts'[m] = receipts[m]
  <2>1. NextAction
    BY DEF NextAction, DispatchSteps
  <2> QED BY <2>1, StepDelivers, FinalStays
<1>types. ActionTypeOK'
  BY <1>op, <1>call, <1>result, <1>store, <1>delivery, <1>others, <1>kept DEF ActionTypeOK, IInv, IntentUnsaved, actionVars, Mutating, Intended, Effect, Executed
<1>held. Held'
  BY <1>op, <1>call, <1>result, <1>store, <1>delivery, <1>others, <1>kept DEF Held, IntentUnsaved, actionVars, Mutating, Intended, Effect, Executed
<1>linked. Linked'
  BY <1>op, <1>call, <1>result, <1>store, <1>delivery, <1>others, <1>kept DEF Linked, IntentUnsaved, actionVars, Mutating, Intended, Effect, Executed
<1>taken. Taken'
  BY <1>op, <1>call, <1>result, <1>store, <1>delivery, <1>others, <1>kept DEF Held, Taken, ActionTypeOK, IntentUnsaved, actionVars, Mutating, Intended, Effect, Executed
<1>once. Once'
  BY <1>op, <1>call, <1>result, <1>store, <1>delivery, <1>others, <1>kept DEF Once, ActionTypeOK, IntentUnsaved, actionVars, Mutating, Intended, Effect, Executed
<1>honest. Honest'
  BY <1>op, <1>call, <1>result, <1>store, <1>delivery, <1>others, <1>kept DEF Held, Honest, Taken, BlockedDidNothing, ActionTypeOK, IntentUnsaved, actionVars, Mutating, Intended, Effect, Executed
<1>agree. Agree'
  <2>0. \A o \in Ids : actions[o] # None => actions[o].digest \in Requests
    BY DEF ActionTypeOK, Action
  <2>1. \A r \in Requests, st \in Final : Receipted(r, st) =>
           receipts'[r.msg] # None /\ receipts'[r.msg].phase = st /\ receipts'[r.msg].digest = r.body
    BY <1>kept, RequestFields DEF Receipted
  <2>2. \A o \in Ids : actions'[o] # None /\ actions'[o].phase = "final" => actions'[o] = actions[o]
    BY <1>store, <1>op DEF IntentUnsaved, actionVars
  <2>3. \A o \in Ids : actions'[o] # None /\ actions'[o].phase = "final" /\ actions'[o].status \in Final =>
            LET r == actions'[o].digest IN
            receipts'[r.msg] # None /\ receipts'[r.msg].phase = actions'[o].status /\ receipts'[r.msg].digest = r.body
    BY <2>0, <2>1, <2>2 DEF Agree
  <2>4. ASSUME NEW c \in Callers, apc'[c] = "final", result'[c] \in Final
        PROVE  /\ receipts'[request'[c].msg] # None /\ receipts'[request'[c].msg].phase = result'[c]
               /\ receipts'[request'[c].msg].digest = request'[c].body
    BY <2>0, <2>1, <2>4, <1>call, <1>result, <1>op, <1>others DEF Agree, IntentUnsaved, Executed, Final, Results, actionVars, IntentUnsaved, StartsNothing, Launch, Effect
  <2> QED BY <2>3, <2>4 DEF Agree, Receipted
<1> QED BY <1>types, <1>held, <1>linked, <1>taken, <1>once, <1>honest, <1>agree

LEMMA KeepsSendInput ==
    ASSUME IInv, IInv', AInv, NEW p \in Callers, SendInput(p)
    PROVE  AInv'
<1> USE DEF AInv
<1>delivery. /\ pc[p] # "idle" /\ pc'[p] # "idle"
             /\ \A q \in Callers : q # p => pc'[q] = pc[q]
             /\ msg' = msg /\ body' = body
             /\ pc'[p] \in {"idle", "look", "intend"} => pc[p] \in {"idle", "look", "intend"}
  BY DeliveryStepFacts DEF SendInput
<1>op. request[p] \in Requests /\ request[p].op \in Ids /\ request[p].msg \in Ids /\ apc[p] # "idle"
  BY <1>delivery, RequestFields DEF Held, Linked
<1>others. \A q \in Callers : q # p /\ apc[q] # "idle" =>
            request[q] \in Requests /\ request[q].op \in Ids /\ request[q].op # request[p].op
  BY <1>op, Exclusive, RequestFields DEF Held
<1>kept. \A m \in Ids : receipts[m] # None /\ receipts[m].phase \in Final => receipts'[m] = receipts[m]
  <2>1. NextAction
    BY DEF NextAction, DispatchSteps
  <2> QED BY <2>1, StepDelivers, FinalStays
<1>sent. /\ pc'[p] \in {"drafted", "submitted"} /\ apc[p] = "execute"
         /\ actions[request[p].op].phase = "intent"
         /\ effects' \in [Ids -> Nat] /\ \A o \in Ids : o # request[p].op => effects'[o] = effects[o]
  <2>1. apc[p] = "execute"
    BY <1>delivery DEF Linked
  <2>2. pc'[p] \in {"drafted", "submitted"}
    BY DEF SendInput, Paste, Press, Goto, IInv, TypeOK
  <2>3. Intended(p) /\ Effect(p)
    BY DEF SendInput
  <2>4. effects' \in [Ids -> Nat] /\ \A o \in Ids : o # request[p].op => effects'[o] = effects[o]
    BY <2>3, <1>op DEF Effect, ActionTypeOK
  <2> QED BY <2>1, <2>2, <2>3, <2>4 DEF Intended
<1>types. ActionTypeOK'
  BY <1>op, <1>delivery, <1>others, <1>kept, <1>sent DEF ActionTypeOK, IInv, SendInput, actionVars, Mutating, Intended, Effect, Executed
<1>held. Held'
  BY <1>op, <1>delivery, <1>others, <1>kept, <1>sent DEF Held, SendInput, actionVars, Mutating, Intended, Effect, Executed
<1>linked. Linked'
  BY <1>op, <1>delivery, <1>others, <1>kept, <1>sent DEF Linked, SendInput, actionVars, Mutating, Intended, Effect, Executed
<1>taken. Taken'
  BY <1>op, <1>delivery, <1>others, <1>kept, <1>sent DEF Held, Taken, ActionTypeOK, SendInput, actionVars, Mutating, Intended, Effect, Executed
<1>once. Once'
  BY <1>op, <1>delivery, <1>others, <1>kept, <1>sent DEF Once, ActionTypeOK, SendInput, actionVars, Mutating, Intended, Effect, Executed
<1>honest. Honest'
  <2>1. UNCHANGED <<actions, apc, request, result>>
    BY DEF SendInput
  <2>2. BlockedDidNothing'
    BY <2>1, <1>op, <1>sent DEF Honest, BlockedDidNothing, Taken
  <2>3. ASSUME NEW c \in Callers,
               (apc[c] = "execute" /\ pc'[c] \in {"idle", "look", "intend"}) \/ (apc[c] = "final" /\ result[c] = "blocked")
        PROVE  effects'[request[c].op] = 0
    <3>1. c # p
      BY <2>3, <1>sent
    <3>2. effects[request[c].op] = 0
      BY <2>3, <3>1, <1>delivery DEF Honest
    <3> QED BY <2>3, <3>1, <3>2, <1>others, <1>sent
  <2> QED BY <2>1, <2>2, <2>3 DEF Honest
<1>agree. Agree'
  <2>0. \A o \in Ids : actions[o] # None => actions[o].digest \in Requests
    BY DEF ActionTypeOK, Action
  <2>1. \A r \in Requests, st \in Final : Receipted(r, st) =>
           receipts'[r.msg] # None /\ receipts'[r.msg].phase = st /\ receipts'[r.msg].digest = r.body
    BY <1>kept, RequestFields DEF Receipted
  <2>2. \A o \in Ids : actions'[o] # None /\ actions'[o].phase = "final" => actions'[o] = actions[o]
    BY <1>op DEF SendInput, actionVars
  <2>3. \A o \in Ids : actions'[o] # None /\ actions'[o].phase = "final" /\ actions'[o].status \in Final =>
            LET r == actions'[o].digest IN
            receipts'[r.msg] # None /\ receipts'[r.msg].phase = actions'[o].status /\ receipts'[r.msg].digest = r.body
    BY <2>0, <2>1, <2>2 DEF Agree
  <2>4. ASSUME NEW c \in Callers, apc'[c] = "final", result'[c] \in Final
        PROVE  /\ receipts'[request'[c].msg] # None /\ receipts'[request'[c].msg].phase = result'[c]
               /\ receipts'[request'[c].msg].digest = request'[c].body
    BY <2>0, <2>1, <2>4, <1>op, <1>others DEF Agree, SendInput, Executed, Final, Results, actionVars, IntentUnsaved, StartsNothing, Launch, Effect
  <2> QED BY <2>3, <2>4 DEF Agree, Receipted
<1> QED BY <1>types, <1>held, <1>linked, <1>taken, <1>once, <1>honest, <1>agree

LEMMA KeepsBegin ==
    ASSUME IInv, IInv', AInv, NEW p \in Callers, Begin(p)
    PROVE  AInv'
<1> USE DEF AInv
<1>op. request[p] \in Requests /\ request[p].op \in Ids /\ request[p].msg \in Ids /\ apc[p] = "execute"
  BY RequestFields DEF Held, Begin
<1>delivery. /\ pc[p] = "idle" /\ pc'[p] = "look"
             /\ msg'[p] = request[p].msg /\ body'[p] = request[p].body
             /\ \A q \in Callers : q # p => pc'[q] = pc[q] /\ msg'[q] = msg[q] /\ body'[q] = body[q]
             /\ receipts' = receipts
  BY DEF Begin, Deliver, Goto, IInv, TypeOK
<1>others. \A q \in Callers : q # p /\ apc[q] # "idle" =>
            request[q] \in Requests /\ request[q].op \in Ids /\ request[q].op # request[p].op
  BY <1>op, Exclusive, RequestFields DEF Held
<1>kept. \A m \in Ids : receipts[m] # None /\ receipts[m].phase \in Final => receipts'[m] = receipts[m]
  BY <1>delivery
<1>types. ActionTypeOK'
  BY <1>op, <1>delivery, <1>others, <1>kept DEF ActionTypeOK, IInv, Begin, actionVars, Mutating, Intended, Effect, Executed
<1>held. Held'
  BY <1>op, <1>delivery, <1>others, <1>kept DEF Held, Begin, actionVars, Mutating, Intended, Effect, Executed
<1>linked. Linked'
  BY <1>op, <1>delivery, <1>others, <1>kept DEF Linked, Begin, actionVars, Mutating, Intended, Effect, Executed
<1>taken. Taken'
  BY <1>op, <1>delivery, <1>others, <1>kept DEF Held, Taken, ActionTypeOK, Begin, actionVars, Mutating, Intended, Effect, Executed
<1>once. Once'
  BY <1>op, <1>delivery, <1>others, <1>kept DEF Once, ActionTypeOK, Begin, actionVars, Mutating, Intended, Effect, Executed
<1>honest. Honest'
  BY <1>op, <1>delivery, <1>others, <1>kept DEF Held, Honest, Taken, BlockedDidNothing, ActionTypeOK, Begin, actionVars, Mutating, Intended, Effect, Executed
<1>agree. Agree'
  <2>0. \A o \in Ids : actions[o] # None => actions[o].digest \in Requests
    BY DEF ActionTypeOK, Action
  <2>1. \A r \in Requests, st \in Final : Receipted(r, st) =>
           receipts'[r.msg] # None /\ receipts'[r.msg].phase = st /\ receipts'[r.msg].digest = r.body
    BY <1>kept, RequestFields DEF Receipted
  <2>2. \A o \in Ids : actions'[o] # None /\ actions'[o].phase = "final" => actions'[o] = actions[o]
    BY <1>op DEF Begin, actionVars
  <2>3. \A o \in Ids : actions'[o] # None /\ actions'[o].phase = "final" /\ actions'[o].status \in Final =>
            LET r == actions'[o].digest IN
            receipts'[r.msg] # None /\ receipts'[r.msg].phase = actions'[o].status /\ receipts'[r.msg].digest = r.body
    BY <2>0, <2>1, <2>2 DEF Agree
  <2>4. ASSUME NEW c \in Callers, apc'[c] = "final", result'[c] \in Final
        PROVE  /\ receipts'[request'[c].msg] # None /\ receipts'[request'[c].msg].phase = result'[c]
               /\ receipts'[request'[c].msg].digest = request'[c].body
    BY <2>0, <2>1, <2>4, <1>op, <1>others DEF Agree, Begin, Executed, Final, Results, actionVars, IntentUnsaved, StartsNothing, Launch, Effect
  <2> QED BY <2>3, <2>4 DEF Agree, Receipted
<1> QED BY <1>types, <1>held, <1>linked, <1>taken, <1>once, <1>honest, <1>agree

LEMMA KeepsDeliveryStep ==
    ASSUME IInv, IInv', AInv, NEW p \in Callers, DeliveryStep(p)
    PROVE  AInv'
<1> USE DEF AInv
<1>delivery. /\ pc[p] # "idle" /\ pc'[p] # "idle"
             /\ \A q \in Callers : q # p => pc'[q] = pc[q]
             /\ msg' = msg /\ body' = body
             /\ pc'[p] \in {"idle", "look", "intend"} => pc[p] \in {"idle", "look", "intend"}
  BY DeliveryStepFacts DEF DeliveryStep
<1>op. request[p] \in Requests /\ request[p].op \in Ids /\ request[p].msg \in Ids /\ apc[p] # "idle"
  BY <1>delivery, RequestFields DEF Held, Linked
<1>others. \A q \in Callers : q # p /\ apc[q] # "idle" =>
            request[q] \in Requests /\ request[q].op \in Ids /\ request[q].op # request[p].op
  BY <1>op, Exclusive, RequestFields DEF Held
<1>kept. \A m \in Ids : receipts[m] # None /\ receipts[m].phase \in Final => receipts'[m] = receipts[m]
  <2>1. NextAction
    BY DEF NextAction, DispatchSteps
  <2> QED BY <2>1, StepDelivers, FinalStays
<1>types. ActionTypeOK'
  BY <1>op, <1>delivery, <1>others, <1>kept DEF ActionTypeOK, IInv, DeliveryStep, actionVars, Mutating, Intended, Effect, Executed
<1>held. Held'
  BY <1>op, <1>delivery, <1>others, <1>kept DEF Held, DeliveryStep, actionVars, Mutating, Intended, Effect, Executed
<1>linked. Linked'
  BY <1>op, <1>delivery, <1>others, <1>kept DEF Linked, DeliveryStep, actionVars, Mutating, Intended, Effect, Executed
<1>taken. Taken'
  BY <1>op, <1>delivery, <1>others, <1>kept DEF Held, Taken, ActionTypeOK, DeliveryStep, actionVars, Mutating, Intended, Effect, Executed
<1>once. Once'
  BY <1>op, <1>delivery, <1>others, <1>kept DEF Once, ActionTypeOK, DeliveryStep, actionVars, Mutating, Intended, Effect, Executed
<1>honest. Honest'
  BY <1>op, <1>delivery, <1>others, <1>kept DEF Held, Honest, Taken, BlockedDidNothing, ActionTypeOK, DeliveryStep, actionVars, Mutating, Intended, Effect, Executed
<1>agree. Agree'
  <2>0. \A o \in Ids : actions[o] # None => actions[o].digest \in Requests
    BY DEF ActionTypeOK, Action
  <2>1. \A r \in Requests, st \in Final : Receipted(r, st) =>
           receipts'[r.msg] # None /\ receipts'[r.msg].phase = st /\ receipts'[r.msg].digest = r.body
    BY <1>kept, RequestFields DEF Receipted
  <2>2. \A o \in Ids : actions'[o] # None /\ actions'[o].phase = "final" => actions'[o] = actions[o]
    BY <1>op DEF DeliveryStep, actionVars
  <2>3. \A o \in Ids : actions'[o] # None /\ actions'[o].phase = "final" /\ actions'[o].status \in Final =>
            LET r == actions'[o].digest IN
            receipts'[r.msg] # None /\ receipts'[r.msg].phase = actions'[o].status /\ receipts'[r.msg].digest = r.body
    BY <2>0, <2>1, <2>2 DEF Agree
  <2>4. ASSUME NEW c \in Callers, apc'[c] = "final", result'[c] \in Final
        PROVE  /\ receipts'[request'[c].msg] # None /\ receipts'[request'[c].msg].phase = result'[c]
               /\ receipts'[request'[c].msg].digest = request'[c].body
    BY <2>0, <2>1, <2>4, <1>op, <1>others DEF Agree, DeliveryStep, Executed, Final, Results, actionVars, IntentUnsaved, StartsNothing, Launch, Effect
  <2> QED BY <2>3, <2>4 DEF Agree, Receipted
<1> QED BY <1>types, <1>held, <1>linked, <1>taken, <1>once, <1>honest, <1>agree

LEMMA KeepsDeliveryGivesUp ==
    ASSUME IInv, IInv', AInv, NEW p \in Callers, DeliveryGivesUp(p)
    PROVE  AInv'
<1> USE DEF AInv
<1>call. /\ apc' \in [Callers -> {"idle", "read", "execute", "final"}]
         /\ apc'[p] = "final"
         /\ \A q \in Callers : q # p => apc'[q] = apc[q]
  BY AtFacts DEF DeliveryGivesUp, Executed
<1>result. /\ result' \in [Callers -> Results \cup {None}]
           /\ result'[p] \in Results
           /\ \A q \in Callers : q # p => result'[q] = result[q]
  BY DEF DeliveryGivesUp, Executed, ActionTypeOK, Results, Final, FinalPhase
<1>delivery. /\ pc[p] # "idle" /\ pc'[p] = "idle"
             /\ \A q \in Callers : q # p => pc'[q] = pc[q] /\ msg'[q] = msg[q] /\ body'[q] = body[q]
  BY DeliveryReturnFacts DEF DeliveryGivesUp
<1>op. request[p] \in Requests /\ request[p].op \in Ids /\ request[p].msg \in Ids /\ apc[p] # "idle"
  BY <1>delivery, RequestFields DEF Held, Linked
<1>others. \A q \in Callers : q # p /\ apc[q] # "idle" =>
            request[q] \in Requests /\ request[q].op \in Ids /\ request[q].op # request[p].op
  BY <1>op, Exclusive, RequestFields DEF Held
<1>kept. \A m \in Ids : receipts[m] # None /\ receipts[m].phase \in Final => receipts'[m] = receipts[m]
  <2>1. NextAction
    BY DEF NextAction, DispatchSteps
  <2> QED BY <2>1, StepDelivers, FinalStays
<1>sent. /\ \/ effects' = effects
            \/ Intended(p)
         /\ effects' \in [Ids -> Nat] /\ \A o \in Ids : o # request[p].op => effects'[o] = effects[o]
         /\ result'[p] = "uncertain" /\ UNCHANGED <<request, actions>> /\ apc[p] = "execute"
  BY <1>op, <1>delivery DEF DeliveryGivesUp, MaySend, Executed, Effect, ActionTypeOK, Linked
<1>types. ActionTypeOK'
  BY <1>op, <1>call, <1>result, <1>delivery, <1>others, <1>kept, <1>sent DEF ActionTypeOK, IInv, DeliveryGivesUp, actionVars, Mutating, Intended, Effect, Executed
<1>held. Held'
  BY <1>op, <1>call, <1>result, <1>delivery, <1>others, <1>kept, <1>sent DEF Held, DeliveryGivesUp, actionVars, Mutating, Intended, Effect, Executed
<1>linked. Linked'
  BY <1>op, <1>call, <1>result, <1>delivery, <1>others, <1>kept, <1>sent DEF Linked, DeliveryGivesUp, actionVars, Mutating, Intended, Effect, Executed
<1>taken. Taken'
  BY <1>op, <1>call, <1>result, <1>delivery, <1>others, <1>kept, <1>sent DEF Held, Taken, ActionTypeOK, DeliveryGivesUp, actionVars, Mutating, Intended, Effect, Executed
<1>once. Once'
  BY <1>op, <1>call, <1>result, <1>delivery, <1>others, <1>kept, <1>sent DEF Once, ActionTypeOK, DeliveryGivesUp, actionVars, Mutating, Intended, Effect, Executed
<1>honest. Honest'
  BY <1>op, <1>call, <1>result, <1>delivery, <1>others, <1>kept, <1>sent DEF Held, Honest, Taken, BlockedDidNothing, ActionTypeOK, DeliveryGivesUp, actionVars, Mutating, Intended, Effect, Executed
<1>agree. Agree'
  <2>0. \A o \in Ids : actions[o] # None => actions[o].digest \in Requests
    BY DEF ActionTypeOK, Action
  <2>1. \A r \in Requests, st \in Final : Receipted(r, st) =>
           receipts'[r.msg] # None /\ receipts'[r.msg].phase = st /\ receipts'[r.msg].digest = r.body
    BY <1>kept, RequestFields DEF Receipted
  <2>2. \A o \in Ids : actions'[o] # None /\ actions'[o].phase = "final" => actions'[o] = actions[o]
    BY <1>op DEF DeliveryGivesUp, actionVars
  <2>3. \A o \in Ids : actions'[o] # None /\ actions'[o].phase = "final" /\ actions'[o].status \in Final =>
            LET r == actions'[o].digest IN
            receipts'[r.msg] # None /\ receipts'[r.msg].phase = actions'[o].status /\ receipts'[r.msg].digest = r.body
    BY <2>0, <2>1, <2>2 DEF Agree
  <2>4. ASSUME NEW c \in Callers, apc'[c] = "final", result'[c] \in Final
        PROVE  /\ receipts'[request'[c].msg] # None /\ receipts'[request'[c].msg].phase = result'[c]
               /\ receipts'[request'[c].msg].digest = request'[c].body
    BY <2>0, <2>1, <2>4, <1>call, <1>result, <1>op, <1>others DEF Agree, DeliveryGivesUp, Executed, Final, Results, actionVars, IntentUnsaved, StartsNothing, Launch, Effect
  <2> QED BY <2>3, <2>4 DEF Agree, Receipted
<1> QED BY <1>types, <1>held, <1>linked, <1>taken, <1>once, <1>honest, <1>agree

LEMMA KeepsDeliveryReturns ==
    ASSUME IInv, IInv', AInv, NEW p \in Callers, DeliveryReturns(p)
    PROVE  AInv'
<1> USE DEF AInv
<1>call. /\ apc' \in [Callers -> {"idle", "read", "execute", "final"}]
         /\ apc'[p] = "final"
         /\ \A q \in Callers : q # p => apc'[q] = apc[q]
  BY AtFacts DEF DeliveryReturns, Executed
<1>result. /\ result' \in [Callers -> Results \cup {None}]
           /\ result'[p] \in Results
           /\ \A q \in Callers : q # p => result'[q] = result[q]
  BY DEF DeliveryReturns, Executed, ActionTypeOK, Results, Final, FinalPhase
<1>delivery. /\ pc[p] # "idle" /\ pc'[p] = "idle"
             /\ \A q \in Callers : q # p => pc'[q] = pc[q] /\ msg'[q] = msg[q] /\ body'[q] = body[q]
  BY DeliveryReturnFacts DEF DeliveryReturns
<1>op. request[p] \in Requests /\ request[p].op \in Ids /\ request[p].msg \in Ids /\ apc[p] # "idle"
  BY <1>delivery, RequestFields DEF Held, Linked
<1>others. \A q \in Callers : q # p /\ apc[q] # "idle" =>
            request[q] \in Requests /\ request[q].op \in Ids /\ request[q].op # request[p].op
  BY <1>op, Exclusive, RequestFields DEF Held
<1>kept. \A m \in Ids : receipts[m] # None /\ receipts[m].phase \in Final => receipts'[m] = receipts[m]
  <2>1. NextAction
    BY DEF NextAction, DispatchSteps
  <2> QED BY <2>1, StepDelivers, FinalStays
<1>linked0. apc[p] = "execute" /\ msg[p] = request[p].msg /\ body[p] = request[p].body
  BY <1>delivery DEF Linked
<1>blocked. result'[p] = "blocked" => pc[p] \in {"idle", "look", "intend"}
  BY DEF DeliveryReturns, Executed, ActionTypeOK, FinalPhase, Refuse
<1>types. ActionTypeOK'
  BY <1>op, <1>call, <1>result, <1>delivery, <1>others, <1>kept, <1>linked0, <1>blocked DEF ActionTypeOK, IInv, DeliveryReturns, actionVars, Mutating, Intended, Effect, Executed
<1>held. Held'
  BY <1>op, <1>call, <1>result, <1>delivery, <1>others, <1>kept, <1>linked0, <1>blocked DEF Held, DeliveryReturns, actionVars, Mutating, Intended, Effect, Executed
<1>linked. Linked'
  BY <1>op, <1>call, <1>result, <1>delivery, <1>others, <1>kept, <1>linked0, <1>blocked DEF Linked, DeliveryReturns, actionVars, Mutating, Intended, Effect, Executed
<1>taken. Taken'
  BY <1>op, <1>call, <1>result, <1>delivery, <1>others, <1>kept, <1>linked0, <1>blocked DEF Held, Taken, ActionTypeOK, DeliveryReturns, actionVars, Mutating, Intended, Effect, Executed
<1>once. Once'
  BY <1>op, <1>call, <1>result, <1>delivery, <1>others, <1>kept, <1>linked0, <1>blocked DEF Once, ActionTypeOK, DeliveryReturns, actionVars, Mutating, Intended, Effect, Executed
<1>honest. Honest'
  BY <1>op, <1>call, <1>result, <1>delivery, <1>others, <1>kept, <1>linked0, <1>blocked DEF Held, Honest, Taken, BlockedDidNothing, ActionTypeOK, DeliveryReturns, actionVars, Mutating, Intended, Effect, Executed
<1>agree. Agree'
  <2>0. \A o \in Ids : actions[o] # None => actions[o].digest \in Requests
    BY DEF ActionTypeOK, Action
  <2>1. \A r \in Requests, st \in Final : Receipted(r, st) =>
           receipts'[r.msg] # None /\ receipts'[r.msg].phase = st /\ receipts'[r.msg].digest = r.body
    BY <1>kept, RequestFields DEF Receipted
  <2>2. \A o \in Ids : actions'[o] # None /\ actions'[o].phase = "final" => actions'[o] = actions[o]
    BY <1>op DEF DeliveryReturns, actionVars
  <2>3. \A o \in Ids : actions'[o] # None /\ actions'[o].phase = "final" /\ actions'[o].status \in Final =>
            LET r == actions'[o].digest IN
            receipts'[r.msg] # None /\ receipts'[r.msg].phase = actions'[o].status /\ receipts'[r.msg].digest = r.body
    BY <2>0, <2>1, <2>2 DEF Agree
  <2>4. ASSUME NEW c \in Callers, apc'[c] = "final", result'[c] \in Final
        PROVE  /\ receipts'[request'[c].msg] # None /\ receipts'[request'[c].msg].phase = result'[c]
               /\ receipts'[request'[c].msg].digest = request'[c].body
    <3>1. CASE c # p
      BY <3>1, <2>1, <2>0, <1>call, <1>result, <1>others, <2>4 DEF Agree, DeliveryReturns
    <3>2. CASE c = p
      <4>1. result'[p] = FinalPhase(p) /\ (AnswerFromReceipt(p) \/ Confirm(p))
        BY <3>2, <2>4 DEF DeliveryReturns, Executed, ActionTypeOK, Final
      <4>2. CASE AnswerFromReceipt(p)
        <5>1. receipts' = receipts /\ MyReceipt(p) # None /\ MyReceipt(p).digest = body[p] /\ MyReceipt(p).phase \in Final
          BY <4>2 DEF AnswerFromReceipt
        <5>2. MyReceipt(p).phase = FinalPhase(p)
          BY <5>1, <1>op, <1>linked0 DEF IInv, CountInv, MyReceipt, FinalPhase
        <5> QED BY <3>2, <4>1, <5>1, <5>2, <1>linked0 DEF MyReceipt, DeliveryReturns
      <4>3. CASE Confirm(p)
        <5>1. MyReceipt(p) # None /\ MyReceipt(p).digest = body[p]
          BY <4>3 DEF Confirm, IInv, RecordInv, Recorded, Steps
        <5>2. MyReceipt(p) \in Receipt
          BY <5>1, <1>op, <1>linked0 DEF IInv, TypeOK, MyReceipt
        <5>3. [MyReceipt(p) EXCEPT !.phase = FinalPhase(p)] \in Receipt
          BY <5>2 DEF Receipt, Phases, Final, FinalPhase
        <5>4. /\ receipts'[msg[p]] = [MyReceipt(p) EXCEPT !.phase = FinalPhase(p)]
          BY <4>3, <5>3, <1>op, <1>linked0, SaveFacts DEF Confirm, Close, SavePhase, IInv
        <5>5. receipts'[msg[p]].phase = FinalPhase(p) /\ receipts'[msg[p]].digest = body[p] /\ receipts'[msg[p]] # None
          BY <5>1, <5>2, <5>3, <5>4, DeliveryAssumption DEF Receipt
        <5> QED BY <3>2, <4>1, <5>5, <1>linked0 DEF DeliveryReturns
      <4> QED BY <4>1, <4>2, <4>3
    <3> QED BY <3>1, <3>2
  <2> QED BY <2>3, <2>4 DEF Agree, Receipted
<1> QED BY <1>types, <1>held, <1>linked, <1>taken, <1>once, <1>honest, <1>agree

LEMMA KeepsStartsNothing ==
    ASSUME IInv, IInv', AInv, NEW p \in Callers, StartsNothing(p)
    PROVE  AInv'
<1> USE DEF AInv
<1>op. request[p] \in Requests /\ request[p].op \in Ids /\ request[p].msg \in Ids /\ apc[p] # "idle"
  BY RequestFields DEF Held, Linked, Mutating, StartsNothing
<1>call. /\ apc' \in [Callers -> {"idle", "read", "execute", "final"}]
         /\ apc'[p] = "final"
         /\ \A q \in Callers : q # p => apc'[q] = apc[q]
  BY AtFacts DEF StartsNothing, Executed
<1>result. /\ result' \in [Callers -> Results \cup {None}]
           /\ result'[p] \in Results
           /\ \A q \in Callers : q # p => result'[q] = result[q]
  BY DEF StartsNothing, Executed, ActionTypeOK, Results, Final, FinalPhase
<1>delivery. UNCHANGED <<receipts, pc, msg, body>>
  BY DEF StartsNothing, deliveryVars, call
<1>others. \A q \in Callers : q # p /\ apc[q] # "idle" =>
            request[q] \in Requests /\ request[q].op \in Ids /\ request[q].op # request[p].op
  BY <1>op, Exclusive, RequestFields DEF Held
<1>types. ActionTypeOK'
  BY <1>op, <1>call, <1>result, <1>delivery, <1>others DEF ActionTypeOK, IInv, StartsNothing, actionVars, Mutating, Intended, Effect, Executed
<1>held. Held'
  BY <1>op, <1>call, <1>result, <1>delivery, <1>others DEF Held, StartsNothing, actionVars, Mutating, Intended, Effect, Executed
<1>linked. Linked'
  BY <1>op, <1>call, <1>result, <1>delivery, <1>others DEF Linked, StartsNothing, actionVars, Mutating, Intended, Effect, Executed
<1>taken. Taken'
  BY <1>op, <1>call, <1>result, <1>delivery, <1>others DEF Held, Taken, ActionTypeOK, StartsNothing, actionVars, Mutating, Intended, Effect, Executed
<1>once. Once'
  BY <1>op, <1>call, <1>result, <1>delivery, <1>others DEF Once, ActionTypeOK, StartsNothing, actionVars, Mutating, Intended, Effect, Executed
<1>honest. Honest'
  BY <1>op, <1>call, <1>result, <1>delivery, <1>others DEF Held, Honest, Taken, BlockedDidNothing, ActionTypeOK, StartsNothing, actionVars, Mutating, Intended, Effect, Executed
<1>agree. Agree'
  <2>0. \A o \in Ids : actions[o] # None => actions[o].digest \in Requests
    BY DEF ActionTypeOK, Action
  <2>1. \A r \in Requests, st \in Final : Receipted(r, st) =>
           receipts'[r.msg] # None /\ receipts'[r.msg].phase = st /\ receipts'[r.msg].digest = r.body
    BY <1>delivery, RequestFields DEF Receipted
  <2>2. \A o \in Ids : actions'[o] # None /\ actions'[o].phase = "final" => actions'[o] = actions[o]
    BY <1>op DEF StartsNothing, actionVars
  <2>3. \A o \in Ids : actions'[o] # None /\ actions'[o].phase = "final" /\ actions'[o].status \in Final =>
            LET r == actions'[o].digest IN
            receipts'[r.msg] # None /\ receipts'[r.msg].phase = actions'[o].status /\ receipts'[r.msg].digest = r.body
    BY <2>0, <2>1, <2>2 DEF Agree
  <2>4. ASSUME NEW c \in Callers, apc'[c] = "final", result'[c] \in Final
        PROVE  /\ receipts'[request'[c].msg] # None /\ receipts'[request'[c].msg].phase = result'[c]
               /\ receipts'[request'[c].msg].digest = request'[c].body
    BY <2>0, <2>1, <2>4, <1>call, <1>result, <1>op, <1>others DEF Agree, StartsNothing, Executed, Final, Results, actionVars, IntentUnsaved, StartsNothing, Launch, Effect
  <2> QED BY <2>3, <2>4 DEF Agree, Receipted
<1> QED BY <1>types, <1>held, <1>linked, <1>taken, <1>once, <1>honest, <1>agree

LEMMA KeepsLaunch ==
    ASSUME IInv, IInv', AInv, NEW p \in Callers, Launch(p)
    PROVE  AInv'
<1> USE DEF AInv
<1>op. request[p] \in Requests /\ request[p].op \in Ids /\ request[p].msg \in Ids /\ apc[p] # "idle"
  BY RequestFields DEF Held, Linked, Mutating, Launch
<1>call. /\ apc' \in [Callers -> {"idle", "read", "execute", "final"}]
         /\ apc'[p] = "final"
         /\ \A q \in Callers : q # p => apc'[q] = apc[q]
  BY AtFacts DEF Launch, Executed
<1>result. /\ result' \in [Callers -> Results \cup {None}]
           /\ result'[p] \in Results
           /\ \A q \in Callers : q # p => result'[q] = result[q]
  BY DEF Launch, Executed, ActionTypeOK, Results, Final, FinalPhase
<1>delivery. UNCHANGED <<receipts, pc, msg, body>>
  BY DEF Launch, deliveryVars, call
<1>others. \A q \in Callers : q # p /\ apc[q] # "idle" =>
            request[q] \in Requests /\ request[q].op \in Ids /\ request[q].op # request[p].op
  BY <1>op, Exclusive, RequestFields DEF Held
<1>types. ActionTypeOK'
  BY <1>op, <1>call, <1>result, <1>delivery, <1>others DEF ActionTypeOK, IInv, Launch, actionVars, Mutating, Intended, Effect, Executed
<1>held. Held'
  BY <1>op, <1>call, <1>result, <1>delivery, <1>others DEF Held, Launch, actionVars, Mutating, Intended, Effect, Executed
<1>linked. Linked'
  BY <1>op, <1>call, <1>result, <1>delivery, <1>others DEF Linked, Launch, actionVars, Mutating, Intended, Effect, Executed
<1>taken. Taken'
  BY <1>op, <1>call, <1>result, <1>delivery, <1>others DEF Held, Taken, ActionTypeOK, Launch, actionVars, Mutating, Intended, Effect, Executed
<1>once. Once'
  BY <1>op, <1>call, <1>result, <1>delivery, <1>others DEF Once, ActionTypeOK, Launch, actionVars, Mutating, Intended, Effect, Executed
<1>honest. Honest'
  BY <1>op, <1>call, <1>result, <1>delivery, <1>others DEF Held, Honest, Taken, BlockedDidNothing, ActionTypeOK, Launch, actionVars, Mutating, Intended, Effect, Executed
<1>agree. Agree'
  <2>0. \A o \in Ids : actions[o] # None => actions[o].digest \in Requests
    BY DEF ActionTypeOK, Action
  <2>1. \A r \in Requests, st \in Final : Receipted(r, st) =>
           receipts'[r.msg] # None /\ receipts'[r.msg].phase = st /\ receipts'[r.msg].digest = r.body
    BY <1>delivery, RequestFields DEF Receipted
  <2>2. \A o \in Ids : actions'[o] # None /\ actions'[o].phase = "final" => actions'[o] = actions[o]
    BY <1>op DEF Launch, actionVars
  <2>3. \A o \in Ids : actions'[o] # None /\ actions'[o].phase = "final" /\ actions'[o].status \in Final =>
            LET r == actions'[o].digest IN
            receipts'[r.msg] # None /\ receipts'[r.msg].phase = actions'[o].status /\ receipts'[r.msg].digest = r.body
    BY <2>0, <2>1, <2>2 DEF Agree
  <2>4. ASSUME NEW c \in Callers, apc'[c] = "final", result'[c] \in Final
        PROVE  /\ receipts'[request'[c].msg] # None /\ receipts'[request'[c].msg].phase = result'[c]
               /\ receipts'[request'[c].msg].digest = request'[c].body
    BY <2>0, <2>1, <2>4, <1>call, <1>result, <1>op, <1>others DEF Agree, Launch, Executed, Final, Results, actionVars, IntentUnsaved, StartsNothing, Launch, Effect
  <2> QED BY <2>3, <2>4 DEF Agree, Receipted
<1> QED BY <1>types, <1>held, <1>linked, <1>taken, <1>once, <1>honest, <1>agree

LEMMA KeepsFinish ==
    ASSUME IInv, IInv', AInv, NEW p \in Callers, Finish(p)
    PROVE  AInv'
<1> USE DEF AInv
<1>op. request[p] \in Requests /\ request[p].op \in Ids /\ request[p].msg \in Ids /\ apc[p] # "idle"
  BY RequestFields DEF Held, Linked, Mutating, Finish
<1>call. /\ apc' \in [Callers -> {"idle", "read", "execute", "final"}]
         /\ request' \in [Callers -> Requests \cup {None}]
         /\ result' \in [Callers -> Results \cup {None}]
         /\ active' \in [Ids -> Callers \cup {None}]
         /\ apc'[p] = "idle"
         /\ \A q \in Callers : q # p =>
                /\ apc'[q] = apc[q] /\ request'[q] = request[q] /\ result'[q] = result[q]
                /\ apc[q] # "idle" => active'[request[q].op] = q
  BY ReturnFacts DEF Finish
<1>store. /\ actions' \in [Ids -> Action \cup {None}]
          /\ actions'[request[p].op] # None
          /\ actions'[request[p].op].digest = request[p]
          /\ actions'[request[p].op].phase = "final"
          /\ actions'[request[p].op].status = result[p]
          /\ \A o \in Ids : o # request[p].op => actions'[o] = actions[o]
  BY <1>op, StoreFacts DEF Finish, Results, Taken
<1>delivery. UNCHANGED <<receipts, pc, msg, body>>
  BY DEF Finish, deliveryVars, call
<1>others. \A q \in Callers : q # p /\ apc[q] # "idle" =>
            request[q] \in Requests /\ request[q].op \in Ids /\ request[q].op # request[p].op
  BY <1>op, Exclusive, RequestFields DEF Held
<1>types. ActionTypeOK'
  BY <1>op, <1>call, <1>store, <1>delivery, <1>others DEF ActionTypeOK, IInv, Finish, actionVars, Mutating, Intended, Effect, Executed
<1>held. Held'
  BY <1>op, <1>call, <1>store, <1>delivery, <1>others DEF Held, Finish, actionVars, Mutating, Intended, Effect, Executed
<1>linked. Linked'
  BY <1>op, <1>call, <1>store, <1>delivery, <1>others DEF Linked, Finish, actionVars, Mutating, Intended, Effect, Executed
<1>taken. Taken'
  BY <1>op, <1>call, <1>store, <1>delivery, <1>others DEF Held, Taken, ActionTypeOK, Finish, actionVars, Mutating, Intended, Effect, Executed
<1>once. Once'
  BY <1>op, <1>call, <1>store, <1>delivery, <1>others DEF Once, ActionTypeOK, Finish, actionVars, Mutating, Intended, Effect, Executed
<1>honest. Honest'
  BY <1>op, <1>call, <1>store, <1>delivery, <1>others DEF Held, Honest, Taken, BlockedDidNothing, ActionTypeOK, Finish, actionVars, Mutating, Intended, Effect, Executed
<1>agree. Agree'
  BY <1>op, <1>call, <1>store, <1>delivery, <1>others DEF Held, Agree, Receipted, ActionTypeOK, Taken, Finish, actionVars, Mutating, Intended, Effect, Executed
<1> QED BY <1>types, <1>held, <1>linked, <1>taken, <1>once, <1>honest, <1>agree

LEMMA KeepsFinishUnsaved ==
    ASSUME IInv, IInv', AInv, NEW p \in Callers, FinishUnsaved(p)
    PROVE  AInv'
<1> USE DEF AInv
<1>op. request[p] \in Requests /\ request[p].op \in Ids /\ request[p].msg \in Ids /\ apc[p] # "idle"
  BY RequestFields DEF Held, Linked, Mutating, FinishUnsaved
<1>call. /\ apc' \in [Callers -> {"idle", "read", "execute", "final"}]
         /\ request' \in [Callers -> Requests \cup {None}]
         /\ result' \in [Callers -> Results \cup {None}]
         /\ active' \in [Ids -> Callers \cup {None}]
         /\ apc'[p] = "idle"
         /\ \A q \in Callers : q # p =>
                /\ apc'[q] = apc[q] /\ request'[q] = request[q] /\ result'[q] = result[q]
                /\ apc[q] # "idle" => active'[request[q].op] = q
  BY ReturnFacts DEF FinishUnsaved
<1>delivery. UNCHANGED <<receipts, pc, msg, body>>
  BY DEF FinishUnsaved, deliveryVars, call
<1>others. \A q \in Callers : q # p /\ apc[q] # "idle" =>
            request[q] \in Requests /\ request[q].op \in Ids /\ request[q].op # request[p].op
  BY <1>op, Exclusive, RequestFields DEF Held
<1>types. ActionTypeOK'
  BY <1>op, <1>call, <1>delivery, <1>others DEF ActionTypeOK, IInv, FinishUnsaved, actionVars, Mutating, Intended, Effect, Executed
<1>held. Held'
  BY <1>op, <1>call, <1>delivery, <1>others DEF Held, FinishUnsaved, actionVars, Mutating, Intended, Effect, Executed
<1>linked. Linked'
  BY <1>op, <1>call, <1>delivery, <1>others DEF Linked, FinishUnsaved, actionVars, Mutating, Intended, Effect, Executed
<1>taken. Taken'
  BY <1>op, <1>call, <1>delivery, <1>others DEF Held, Taken, ActionTypeOK, FinishUnsaved, actionVars, Mutating, Intended, Effect, Executed
<1>once. Once'
  BY <1>op, <1>call, <1>delivery, <1>others DEF Once, ActionTypeOK, FinishUnsaved, actionVars, Mutating, Intended, Effect, Executed
<1>honest. Honest'
  BY <1>op, <1>call, <1>delivery, <1>others DEF Held, Honest, Taken, BlockedDidNothing, ActionTypeOK, FinishUnsaved, actionVars, Mutating, Intended, Effect, Executed
<1>agree. Agree'
  BY <1>op, <1>call, <1>delivery, <1>others DEF Held, Agree, Receipted, ActionTypeOK, Taken, FinishUnsaved, actionVars, Mutating, Intended, Effect, Executed
<1> QED BY <1>types, <1>held, <1>linked, <1>taken, <1>once, <1>honest, <1>agree

LEMMA KeepsKilled ==
    ASSUME IInv, IInv', AInv, NEW p \in Callers, Killed(p)
    PROVE  AInv'
<1> USE DEF AInv
<1>op. request[p] \in Requests /\ request[p].op \in Ids /\ request[p].msg \in Ids /\ apc[p] # "idle"
  BY RequestFields DEF Held, Linked, Mutating, Killed
<1>call. /\ apc' \in [Callers -> {"idle", "read", "execute", "final"}]
         /\ request' \in [Callers -> Requests \cup {None}]
         /\ result' \in [Callers -> Results \cup {None}]
         /\ active' \in [Ids -> Callers \cup {None}]
         /\ apc'[p] = "idle"
         /\ \A q \in Callers : q # p =>
                /\ apc'[q] = apc[q] /\ request'[q] = request[q] /\ result'[q] = result[q]
                /\ apc[q] # "idle" => active'[request[q].op] = q
  BY ReturnFacts DEF Killed
<1>delivery. /\ pc'[p] = "idle"
             /\ \A q \in Callers : q # p => pc'[q] = pc[q] /\ msg'[q] = msg[q] /\ body'[q] = body[q]
  <2>1. CASE pc[p] = "idle"
    BY <2>1 DEF Killed, deliveryVars, call
  <2>2. CASE pc[p] # "idle"
    BY <2>2, DeliveryReturnFacts DEF Killed
  <2> QED BY <2>1, <2>2
<1>others. \A q \in Callers : q # p /\ apc[q] # "idle" =>
            request[q] \in Requests /\ request[q].op \in Ids /\ request[q].op # request[p].op
  BY <1>op, Exclusive, RequestFields DEF Held
<1>kept. \A m \in Ids : receipts[m] # None /\ receipts[m].phase \in Final => receipts'[m] = receipts[m]
  <2>1. NextAction
    BY DEF NextAction, DispatchSteps
  <2> QED BY <2>1, StepDelivers, FinalStays
<1>sent. /\ \/ effects' = effects
            \/ Intended(p) /\ apc[p] = "execute"
         /\ effects' \in [Ids -> Nat] /\ \A o \in Ids : o # request[p].op => effects'[o] = effects[o]
         /\ actions' = actions /\ runs' = runs
  <2>1. CASE pc[p] = "idle"
    BY <2>1 DEF Killed, ActionTypeOK
  <2>2. CASE pc[p] # "idle"
    BY <1>op, <2>2 DEF Killed, MaySend, Effect, ActionTypeOK, Linked
  <2> QED BY <2>1, <2>2
<1>types. ActionTypeOK'
  BY <1>op, <1>call, <1>delivery, <1>others, <1>kept, <1>sent DEF ActionTypeOK, IInv, Killed, actionVars, Mutating, Intended, Effect, Executed
<1>held. Held'
  BY <1>op, <1>call, <1>delivery, <1>others, <1>kept, <1>sent DEF Held, Killed, actionVars, Mutating, Intended, Effect, Executed
<1>linked. Linked'
  BY <1>op, <1>call, <1>delivery, <1>others, <1>kept, <1>sent DEF Linked, Killed, actionVars, Mutating, Intended, Effect, Executed
<1>taken. Taken'
  BY <1>op, <1>call, <1>delivery, <1>others, <1>kept, <1>sent DEF Held, Taken, ActionTypeOK, Killed, actionVars, Mutating, Intended, Effect, Executed
<1>once. Once'
  BY <1>op, <1>call, <1>delivery, <1>others, <1>kept, <1>sent DEF Once, ActionTypeOK, Killed, actionVars, Mutating, Intended, Effect, Executed
<1>honest. Honest'
  BY <1>op, <1>call, <1>delivery, <1>others, <1>kept, <1>sent DEF Held, Honest, Taken, BlockedDidNothing, ActionTypeOK, Killed, actionVars, Mutating, Intended, Effect, Executed
<1>agree. Agree'
  <2>0. \A o \in Ids : actions[o] # None => actions[o].digest \in Requests
    BY DEF ActionTypeOK, Action
  <2>1. \A r \in Requests, st \in Final : Receipted(r, st) =>
           receipts'[r.msg] # None /\ receipts'[r.msg].phase = st /\ receipts'[r.msg].digest = r.body
    BY <1>kept, RequestFields DEF Receipted
  <2>2. \A o \in Ids : actions'[o] # None /\ actions'[o].phase = "final" => actions'[o] = actions[o]
    BY <1>op DEF Killed, actionVars
  <2>3. \A o \in Ids : actions'[o] # None /\ actions'[o].phase = "final" /\ actions'[o].status \in Final =>
            LET r == actions'[o].digest IN
            receipts'[r.msg] # None /\ receipts'[r.msg].phase = actions'[o].status /\ receipts'[r.msg].digest = r.body
    BY <2>0, <2>1, <2>2 DEF Agree
  <2>4. ASSUME NEW c \in Callers, apc'[c] = "final", result'[c] \in Final
        PROVE  /\ receipts'[request'[c].msg] # None /\ receipts'[request'[c].msg].phase = result'[c]
               /\ receipts'[request'[c].msg].digest = request'[c].body
    BY <2>0, <2>1, <2>4, <1>call, <1>op, <1>others DEF Agree, Killed, Executed, Final, Results, actionVars, IntentUnsaved, StartsNothing, Launch, Effect
  <2> QED BY <2>3, <2>4 DEF Agree, Receipted
<1> QED BY <1>types, <1>held, <1>linked, <1>taken, <1>once, <1>honest, <1>agree

LEMMA KeepsOutside ==
    ASSUME IInv, IInv', AInv, Environment /\ UNCHANGED actionVars
    PROVE  AInv'
<1> USE DEF AInv, actionVars
<1>1. UNCHANGED <<receipts, pc, msg, body>>
  BY DEF Environment, AgentReads, AgentWorks, LateInput, HumanTypes, HumanClears, Scroll, AgentRestarts, call
<1>2. ActionTypeOK'
  BY DEF ActionTypeOK, IInv
<1>3. Held' /\ Linked' /\ Taken' /\ Once'
  BY <1>1 DEF Held, Linked, Taken, Once
<1>4. Honest'
  BY <1>1 DEF Honest, BlockedDidNothing
<1>5. Agree'
  BY <1>1 DEF Agree, Receipted
<1> QED BY <1>2, <1>3, <1>4, <1>5

LEMMA ActionInit == InitActions => IInv /\ AInv
<1> SUFFICES ASSUME InitActions PROVE IInv /\ AInv
  OBVIOUS
<1>1. IInv
  BY InitInv DEF InitActions
<1>2. ActionTypeOK
  BY <1>1 DEF InitActions, ActionTypeOK, IInv
<1>3. Held /\ Linked /\ Taken /\ Once
  BY DEF InitActions, Init, Held, Linked, Taken, Once
<1>4. Honest
  BY DEF InitActions, Init, Honest, BlockedDidNothing
<1>5. Agree
  BY DEF InitActions, Agree
<1> QED BY <1>1, <1>2, <1>3, <1>4, <1>5 DEF AInv

LEMMA ActionStep == IInv /\ AInv /\ [NextAction]_vars => IInv' /\ AInv'
<1> SUFFICES ASSUME IInv, AInv, [NextAction]_vars PROVE IInv' /\ AInv'
  OBVIOUS
<1>1. IInv'
  BY StepDelivers, NextInv DEF AInv
<1>2. CASE UNCHANGED vars
  <2> USE <1>2 DEF vars, actionVars, deliveryVars, call, AInv
  <2>1. ActionTypeOK'
    BY <1>1 DEF ActionTypeOK, IInv
  <2>2. Held' /\ Linked' /\ Taken' /\ Once'
    BY DEF Held, Linked, Taken, Once
  <2>3. Honest' /\ Agree'
    BY DEF Honest, BlockedDidNothing, Agree, Receipted
  <2> QED BY <1>1, <2>1, <2>2, <2>3
<1>3. CASE Environment /\ UNCHANGED actionVars
  BY <1>1, <1>3, KeepsOutside
<1>4. ASSUME NEW p \in Callers, NEW q \in Requests, Dispatch(p, q) PROVE AInv'
  BY <1>1, <1>4, KeepsDispatch
<1>5. ASSUME NEW p \in Callers, Killed(p) PROVE AInv'
  BY <1>1, <1>5, KeepsKilled
<1>6. ASSUME NEW p \in Callers, DispatchSteps(p) PROVE AInv'
  <2>1. CASE Replay(p) \/ Check(p) \/ CheckFails(p) \/ BeforeMutation(p) \/ IntentUnsaved(p)
    BY <1>1, <2>1, KeepsReplay, KeepsCheck, KeepsCheckFails, KeepsBeforeMutation, KeepsIntentUnsaved
  <2>2. CASE SendInput(p) \/ Begin(p) \/ DeliveryStep(p) \/ DeliveryGivesUp(p) \/ DeliveryReturns(p)
    BY <1>1, <2>2, KeepsSendInput, KeepsBegin, KeepsDeliveryStep, KeepsDeliveryGivesUp, KeepsDeliveryReturns
  <2>3. CASE StartsNothing(p) \/ Launch(p) \/ Finish(p) \/ FinishUnsaved(p)
    BY <1>1, <2>3, KeepsStartsNothing, KeepsLaunch, KeepsFinish, KeepsFinishUnsaved
  <2> QED BY <1>6, <2>1, <2>2, <2>3 DEF DispatchSteps
<1> QED BY <1>1, <1>2, <1>3, <1>4, <1>5, <1>6 DEF NextAction

(* agent_actions.py, execute and GuardedClient: an operation drives its delivery by the
   steps of deliver() alone, so all that AgentDelivery promises holds of it. *)
THEOREM ActionsDeliver == ActionSpec => Spec
<1>1. InitActions => Init
  BY DEF InitActions
<1>2. AInv /\ [NextAction]_vars => [Next]_deliveryVars
  BY StepDelivers DEF AInv
<1> QED BY <1>1, <1>2, ActionInit, ActionStep, PTL DEF ActionSpec, Spec

(* The invariant of the operations: a dispatch holds the lock of its operation (Held),
   a delivery runs under it (Linked), its record is its own and not final (Taken). *)
THEOREM ActionInvariance == ActionSpec => [](IInv /\ AInv)
BY ActionInit, ActionStep, PTL DEF ActionSpec

(* agent_actions.py, dispatch: an operation is executed at most once, whoever repeats
   its request, and whatever was killed or not saved in between. *)
THEOREM OperationExecutedOnce == ActionSpec => []ExecutedOnce
<1>1. AInv => ExecutedOnce
  BY DEF AInv, Once, ExecutedOnce
<1> QED BY <1>1, ActionInvariance, PTL

(* agent_actions.py, before_mutation and finish: what reached the terminal is under a
   durable intent, and no final record of it says blocked. *)
THEOREM BlockedIsTrue == ActionSpec => []BlockedDidNothing
<1>1. AInv => BlockedDidNothing
  BY DEF AInv, Honest
<1> QED BY <1>1, ActionInvariance, PTL

(* agent_actions.py, finish, and agent_delivery.py, confirm: an operation that says
   submitted or deferred has the final receipt of its message and body that says so. *)
THEOREM RecordsAgree == ActionSpec => []LedgersAgree
<1>1. AInv => LedgersAgree
  BY DEF AInv, Agree, Receipted, LedgersAgree
<1> QED BY <1>1, ActionInvariance, PTL

(* What the delivery promises holds of the operations that drive it: input reaches a
   terminal once, under a record, only a paste that outlived its killed sender mixes
   with another message, and submitted is true (GuardedClient of agent_actions.py). *)
THEOREM OperationsDeliverSafely ==
    ActionSpec => [](AtMostOnceInput /\ InputIsRecorded /\ SubmittedIsTrue /\ NothingMixed)
BY ActionsDeliver, DeliveredAtMostOnce, InputRecorded, SubmissionIsTrue, DeliveriesNeverMix, PTL

(* A message goes through its stages once, also when operations send it. *)
THEOREM OperationsDeliverOnce == ActionSpec => ImplementsDeliverOnce
BY ActionsDeliver, LedgerDeliversOnce, PTL
=============================================================================
