------------------------ MODULE PtySupervisor_proofs ------------------------
(***************************************************************************)
(* Proofs about the terminal supervisor, for any number of supervisors and *)
(* of other processes with controllers of their own.                       *)
(*                                                                         *)
(* A supervision is a client of the controller that keeps its rules: every *)
(* step of it is a step of PtyController, or leaves the controller alone   *)
(* (SupervisorUsesController).  All that is proved of the controller then  *)
(* holds of supervisions, and what is added here relates the stages of a   *)
(* supervision to the grant the user confirmed.                            *)
(***************************************************************************)
EXTENDS PtySupervisor, PtyController_proofs

Stages == {"off", "shown", "actor", "call", "report"}

SupervisorTypeOK ==
    /\ stage \in [Supervised -> Stages]
    /\ confirmed \in [Supervised -> Incarnations \cup {None}]
    /\ heard \in [Supervised -> Outcomes]
    /\ unheard \in [Supervised -> BOOLEAN]

(* A request is in flight only in the stage "call", ... *)
InFlight == \A p \in Supervised : stage[p] # "call" => pc[p] = "idle"

(* ... the grant of an actor is the one its user confirmed, ... *)
GrantConfirmed ==
    \A p \in Supervised : stage[p] \in {"actor", "call"} /\ grant[p] # None
                          => grant[p].binding = confirmed[p]

(* ... and only a request in flight, or one that was cut off, has no receipt yet. *)
UnheardInFlight == \A p \in Supervised : unheard[p] => stage[p] \in {"call", "report"}

SInv == SupervisorTypeOK /\ InFlight /\ GrantConfirmed /\ UnheardInFlight /\ UnheardIsUncertain

-----------------------------------------------------------------------------
(* A step of execute moves its own process. *)
LEMMA ExecuteMoves ==
    ASSUME NEW p \in Procs, Execute(p)
    PROVE  \E s : pc' = [pc EXCEPT ![p] = s]
<1> USE DEF Goto, Return, Outcome
<1>1. CASE Reserve(p) \/ ReserveFails(p) \/ StoreFull(p) \/ AnswerFromStore(p) \/ CloseInterrupted(p)
  BY <1>1 DEF Reserve, ReserveFails, StoreFull, AnswerFromStore, CloseInterrupted
<1>2. CASE Wait(p) \/ WinLock(p) \/ InProgress(p) \/ Resolve(p) \/ Bind(p) \/ Stop(p)
  BY <1>2 DEF Wait, WinLock, InProgress, Resolve, Bind, Stop
<1>3. CASE Arm(p) \/ Send(p) \/ EndAnswer(p) \/ Finish(p) \/ Unsaved(p) \/ AnswerFailed(p)
  BY <1>3 DEF Arm, Send, EndAnswer, Finish, Unsaved, AnswerFailed
<1> QED
  BY <1>1, <1>2, <1>3 DEF Execute

(* A process changes the control and the grant of no other. *)
LEMMA OnlyOwnMoves ==
    ASSUME IInv, NEW p \in Procs, Step(p), NEW q \in Procs, q # p
    PROVE  pc'[q] = pc[q] /\ grant'[q] = grant[q]
<1>a. pc \in [Procs -> Performing \cup {"idle", "reserve", "wait", "failed"}]
      /\ grant \in [Procs -> Grant \cup {None}]
  BY DEF IInv, RecordsReadable, TypeOK
<1> USE DEF Goto, Return, SetGrant, Regrant, call, selectorVars
<1>1. CASE Select(p) \/ Revoke(p) \/ Expire(p)
  BY <1>1, <1>a DEF Select, Revoke, Expire
<1>2. CASE \E o \in Ops, k \in Keys : Dispatch(p, o, k) \/ DispatchRefused(p, o, k)
  BY <1>2, <1>a DEF Dispatch, DispatchRefused, Begin
<1>3. CASE CheckPasses(p)
  BY <1>3, <1>a DEF CheckPasses, Pass
<1>4. CASE ExecuteStep(p)
  BY <1>4, <1>a, ExecuteMoves DEF ExecuteStep
<1>5. CASE Cancel(p) \/ Die(p)
  BY <1>5, <1>a DEF Cancel, Die, Abort
<1> QED
  BY <1>1, <1>2, <1>3, <1>4, <1>5 DEF Step

(* Revoking what is not there changes nothing. *)
LEMMA NothingToRevoke ==
    ASSUME IInv, NEW p \in Procs, pc[p] = "idle", Regrant(p, None)
    PROVE  Revoke(p) \/ UNCHANGED vars
<1>1. CASE grant[p] # None
  BY <1>1 DEF Revoke
<1>2. CASE grant[p] = None
  <2>1. said[p] = NoReceipt /\ underGrant[p] = 0
    BY <1>2 DEF IInv, Granted
  <2>2. UNCHANGED <<grant, said, underGrant>>
    BY <1>2, <2>1 DEF Regrant, SetGrant, IInv, RecordsReadable, TypeOK
  <2> QED
    BY <2>2 DEF Regrant, vars, selectorVars, store, call
<1> QED
  BY <1>1, <1>2

(* Ending the process, or what it does, is a step of the controller. *)
LEMMA Unwinds ==
    ASSUME IInv, NEW p \in Procs, Unwind(p)
    PROVE  (Step(p) \/ UNCHANGED vars) /\ pc'[p] = "idle"
<1>a. pc \in [Procs -> Performing \cup {"idle", "reserve", "wait", "failed"}]
  BY DEF IInv, RecordsReadable, TypeOK
<1>1. CASE pc[p] = "idle"
  <2>1. pc'[p] = "idle"
    BY <1>1 DEF Unwind, Regrant, call
  <2> QED
    BY <1>1, <2>1, NothingToRevoke DEF Unwind, Step
<1>2. CASE pc[p] # "idle"
  <2>1. Die(p)
    BY <1>2 DEF Unwind
  <2> QED
    BY <1>a, <2>1 DEF Step, Die, Abort, Return, Goto
<1> QED
  BY <1>1, <1>2

(* A step of a supervision is a step of its controller, or leaves it alone. *)
LEMMA SupervisorStepIsStep ==
    ASSUME IInv, SInv, NEW p \in Supervised, SupervisorStep(p)
    PROVE  Step(p) \/ UNCHANGED vars
<1>a. p \in Procs
  BY SupervisedAssumption
<1>1. CASE Show(p) \/ NotIssued(p) \/ Answered(p) \/ Exit(p)
  BY <1>1 DEF Show, NotIssued, Answered, Exit
<1>2. CASE Issue(p) \/ RawMismatch(p) \/ CallStep(p) \/ (Expire(p) /\ UNCHANGED supervisorVars)
  BY <1>2 DEF Issue, RawMismatch, CallStep, Step
<1>3. CASE CallEnd(p)
  <2>1. grant[p].op \in Ops /\ grant[p].key \in Keys
    BY <1>3, <1>a, GrantFacts DEF CallEnd, IInv, RecordsReadable, TypeOK
  <2> QED
    BY <1>3, <2>1 DEF CallEnd, Step
<1>4. CASE CallRefused(p)
  BY <1>4 DEF CallRefused, Step
<1>5. CASE StopActor(p)
  BY <1>5, <1>a, NothingToRevoke DEF StopActor, Step, SInv, InFlight
<1>6. CASE WorkDeadline(p) \/ Crash(p)
  BY <1>6, <1>a, Unwinds DEF WorkDeadline, Crash
<1> QED
  BY <1>1, <1>2, <1>3, <1>4, <1>5, <1>6 DEF SupervisorStep

(* Every step of the supervised system is one of the controllers. *)
LEMMA SupervisorNextIsNext ==
    ASSUME IInv, SInv, [SupervisorNext]_allVars
    PROVE  [Next]_vars
<1>1. CASE UNCHANGED allVars
  BY <1>1 DEF allVars
<1>2. ASSUME NEW p \in Supervised, SupervisorStep(p) PROVE [Next]_vars
  BY <1>2, SupervisorStepIsStep, SupervisedAssumption DEF Next
<1>3. ASSUME NEW p \in Procs \ Supervised, Step(p) PROVE [Next]_vars
  BY <1>3 DEF Next
<1>4. CASE SupervisorEnvironment
  BY <1>4 DEF SupervisorEnvironment, Next, Environment
<1> QED
  BY <1>1, <1>2, <1>3, <1>4 DEF SupervisorNext

-----------------------------------------------------------------------------
(* What the invariant says of one supervision. *)
Supervision(p) ==
    /\ stage[p] # "call" => pc[p] = "idle"
    /\ stage[p] \in {"actor", "call"} /\ grant[p] # None => grant[p].binding = confirmed[p]
    /\ unheard[p] => stage[p] \in {"call", "report"}
    /\ stage[p] = "report" /\ unheard[p] => heard[p] = "uncertain"

LEMMA SInvParts == SInv <=> SupervisorTypeOK /\ \A p \in Supervised : Supervision(p)
  BY DEF SInv, InFlight, GrantConfirmed, UnheardInFlight, UnheardIsUncertain, Supervision

(* A supervision keeps its types. *)
LEMMA SupervisorTypeStep ==
    ASSUME IInv, SInv, [SupervisorNext]_allVars
    PROVE  SupervisorTypeOK'
<1>a. SupervisorTypeOK /\ current \in Incarnations \cup {None}
  BY DEF SInv, IInv, RecordsReadable, TypeOK
<1> USE DEF SupervisorTypeOK, Stages, Outcomes, supervisorVars, Enter, Reset, Report, Hear
<1>1. CASE UNCHANGED allVars
  BY <1>a, <1>1 DEF allVars
<1>2. ASSUME NEW p \in Supervised, SupervisorStep(p) PROVE SupervisorTypeOK'
  <2>1. CASE Show(p) \/ NotIssued(p) \/ Issue(p) \/ Exit(p)
    BY <1>a, <2>1 DEF Show, NotIssued, Issue, Exit
  <2>2. CASE CallEnd(p) \/ CallRefused(p) \/ RawMismatch(p) \/ CallStep(p)
    BY <1>a, <2>2 DEF CallEnd, CallRefused, RawMismatch, CallStep
  <2>3. CASE Answered(p)
    BY <1>a, <2>3 DEF Answered, Results
  <2>4. CASE StopActor(p) \/ WorkDeadline(p) \/ Crash(p)
    BY <1>a, <2>4 DEF StopActor, WorkDeadline, Crash
  <2>5. CASE UNCHANGED supervisorVars
    BY <1>a, <2>5
  <2> QED
    BY <1>2, <2>1, <2>2, <2>3, <2>4, <2>5 DEF SupervisorStep
<1>3. CASE UNCHANGED supervisorVars
  BY <1>a, <1>3
<1>4. CASE /\ stage' = [p \in Supervised |-> "off"]
           /\ confirmed' = [p \in Supervised |-> None]
           /\ heard' = [p \in Supervised |-> "not_requested"]
           /\ unheard' = [p \in Supervised |-> FALSE]
  BY <1>4
<1> QED
  BY <1>1, <1>2, <1>3, <1>4 DEF SupervisorNext, SupervisorEnvironment

(* Its own steps keep what is said of a supervision, ... *)
LEMMA OwnSupervision ==
    ASSUME IInv, SInv, NEW p \in Supervised, SupervisorStep(p)
    PROVE  Supervision(p)'
<1>a. /\ p \in Procs /\ SupervisorTypeOK /\ Supervision(p)
      /\ pc \in [Procs -> Performing \cup {"idle", "reserve", "wait", "failed"}]
      /\ grant \in [Procs -> Grant \cup {None}]
  BY SupervisedAssumption, SInvParts DEF IInv, RecordsReadable, TypeOK
<1> USE DEF SupervisorTypeOK, Supervision, supervisorVars, Enter, Reset, Report, Hear,
            vars, selectorVars, call
<1>1. CASE Show(p) \/ NotIssued(p) \/ Exit(p)
  BY <1>a, <1>1 DEF Show, NotIssued, Exit, Stages
<1>2. CASE Issue(p)
  BY <1>a, <1>2 DEF Issue, Select, Regrant, Stages
<1>3. CASE CallEnd(p)
  <2>1. PICK g \in Grant : /\ g = grant[p] /\ grant'[p] \in Grant
                           /\ grant'[p].binding = g.binding
    BY <1>a, <1>3, GrantFacts DEF CallEnd, Dispatch, SetGrant
  <2> QED
    BY <1>a, <1>3, <2>1, GrantFacts DEF CallEnd, Stages
<1>4. CASE CallRefused(p)
  BY <1>a, <1>4 DEF CallRefused, DispatchRefused, Regrant, SetGrant, Stages
<1>5. CASE RawMismatch(p)
  BY <1>a, <1>5 DEF RawMismatch, Revoke, Regrant, SetGrant
<1>6. CASE CallStep(p)
  BY <1>a, <1>6 DEF CallStep, CheckPasses, ExecuteStep
<1>7. CASE Answered(p)
  BY <1>a, <1>7 DEF Answered, Stages
<1>8. CASE StopActor(p)
  BY <1>a, <1>8 DEF StopActor, Regrant, Stages
<1>9. CASE WorkDeadline(p) \/ Crash(p)
  BY <1>a, <1>9, Unwinds DEF WorkDeadline, Crash, Stages
<1>10. CASE Expire(p) /\ UNCHANGED supervisorVars
  <2>1. PICK g \in Grant : /\ g = grant[p] /\ grant'[p] \in Grant
                           /\ grant'[p].binding = g.binding
    BY <1>a, <1>10, GrantFacts DEF Expire, SetGrant
  <2> QED
    BY <1>a, <1>10, <2>1, GrantFacts DEF Expire
<1> QED
  BY <1>1, <1>2, <1>3, <1>4, <1>5, <1>6, <1>7, <1>8, <1>9, <1>10 DEF SupervisorStep

(* ... and so do the steps of everybody else. *)
LEMMA OtherSupervisions ==
    ASSUME IInv, SInv, NEW p \in Procs, NEW q \in Supervised, q # p,
           \/ p \in Supervised /\ SupervisorStep(p)
           \/ Step(p) /\ UNCHANGED supervisorVars
    PROVE  Supervision(q)'
<1>1. q \in Procs /\ Supervision(q) /\ SupervisorTypeOK
  BY SupervisedAssumption, SInvParts
<1>2. pc'[q] = pc[q] /\ grant'[q] = grant[q]
  BY <1>1, SupervisorStepIsStep, OnlyOwnMoves DEF vars, selectorVars, call
<1>3. /\ stage'[q] = stage[q] /\ confirmed'[q] = confirmed[q]
      /\ heard'[q] = heard[q] /\ unheard'[q] = unheard[q]
  <2> USE DEF SupervisorTypeOK, supervisorVars, Enter, Reset, Report, Hear
  <2>1. CASE UNCHANGED supervisorVars
    BY <2>1
  <2>2. CASE p \in Supervised /\ (Show(p) \/ NotIssued(p) \/ Issue(p) \/ Exit(p))
    BY <1>1, <2>2 DEF Show, NotIssued, Issue, Exit
  <2>3. CASE p \in Supervised /\ (CallEnd(p) \/ CallRefused(p) \/ RawMismatch(p) \/ CallStep(p))
    BY <1>1, <2>3 DEF CallEnd, CallRefused, RawMismatch, CallStep
  <2>4. CASE p \in Supervised /\ (Answered(p) \/ StopActor(p) \/ WorkDeadline(p) \/ Crash(p))
    BY <1>1, <2>4 DEF Answered, StopActor, WorkDeadline, Crash
  <2> QED
    BY <2>1, <2>2, <2>3, <2>4 DEF SupervisorStep
<1> QED
  BY <1>1, <1>2, <1>3 DEF Supervision

(* The invariant of a supervision is inductive, given that of the controllers. *)
LEMMA SInvStep == ASSUME IInv, SInv, [SupervisorNext]_allVars PROVE SInv'
<1>1. CASE UNCHANGED allVars
  <2>1. \A p \in Supervised : Supervision(p)'
    BY <1>1, SInvParts DEF allVars, supervisorVars, vars, selectorVars, call, Supervision
  <2> QED
    BY <2>1, SupervisorTypeStep DEF SInv, InFlight, GrantConfirmed, UnheardInFlight,
       UnheardIsUncertain, Supervision
<1>2. ASSUME NEW p \in Procs, NEW q \in Supervised,
             \/ p \in Supervised /\ SupervisorStep(p)
             \/ p \notin Supervised /\ Step(p) /\ UNCHANGED supervisorVars
      PROVE  Supervision(q)'
  BY <1>2, OwnSupervision, OtherSupervisions
<1>3. CASE SupervisorEnvironment
  <2>1. ASSUME NEW q \in Supervised PROVE Supervision(q)'
    <3>1. q \in Procs /\ Supervision(q)
      BY SupervisedAssumption, SInvParts
    <3>2. CASE (SessionChanges \/ \E o \in Ops : Evict(o)) /\ UNCHANGED <<grant, underGrant, supervisorVars>>
      BY <3>1, <3>2 DEF SessionChanges, Evict, call, supervisorVars, Supervision
    <3>3. CASE PowerLoss /\ stage' = [p \in Supervised |-> "off"] /\ unheard' = [p \in Supervised |-> FALSE]
      BY <3>1, <3>3 DEF PowerLoss, Supervision
    <3> QED
      BY <1>3, <3>2, <3>3 DEF SupervisorEnvironment
  <2> QED
    BY <2>1, SupervisorTypeStep DEF SInv, InFlight, GrantConfirmed, UnheardInFlight,
       UnheardIsUncertain, Supervision
<1>4. CASE \E p \in Procs : \/ p \in Supervised /\ SupervisorStep(p)
                            \/ p \notin Supervised /\ Step(p) /\ UNCHANGED supervisorVars
  <2>1. \A q \in Supervised : Supervision(q)'
    BY <1>2, <1>4
  <2> QED
    BY <2>1, SupervisorTypeStep DEF SInv, InFlight, GrantConfirmed, UnheardInFlight,
       UnheardIsUncertain, Supervision
<1> QED
  BY <1>1, <1>3, <1>4, SupervisedAssumption DEF SupervisorNext

(* No supervision has begun at first. *)
LEMMA SupervisorInitInv == SupervisorInit => IInv /\ SInv
<1> SUFFICES ASSUME SupervisorInit PROVE SInv
  BY InitInv DEF SupervisorInit
<1> QED
  BY SupervisedAssumption
  DEF SupervisorInit, InitController, Init, SInv, SupervisorTypeOK, Stages, Outcomes,
      InFlight, GrantConfirmed, UnheardInFlight, UnheardIsUncertain

(* Both invariants hold in every reachable state of the supervised system. *)
THEOREM SupervisorInvariance == SupervisorSpec => [](IInv /\ SInv)
<1>1. IInv /\ SInv /\ [SupervisorNext]_allVars => IInv' /\ SInv'
  <2> SUFFICES ASSUME IInv, SInv, [SupervisorNext]_allVars PROVE IInv' /\ SInv'
    OBVIOUS
  <2>1. [Next]_vars
    BY SupervisorNextIsNext
  <2> QED
    BY <2>1, SInvStep, InvStep
<1> QED
  BY SupervisorInitInv, <1>1, PTL DEF SupervisorSpec

(* A supervisor uses its controller by the controller's rules: what is proved of
   controllers holds of supervisions. *)
THEOREM SupervisorUsesController == SupervisorSpec => Spec
<1>1. SupervisorInit => InitController
  BY DEF SupervisorInit
<1>2. IInv /\ SInv /\ [SupervisorNext]_allVars => [Next]_vars
  BY SupervisorNextIsNext
<1> QED
  BY <1>1, <1>2, SupervisorInvariance, PTL DEF SupervisorSpec, Spec

(* What a supervision ends is the session its user read before typing END. *)
THEOREM ConfirmedSessionEnds == SupervisorSpec => []ConfirmedIsEnded
<1>1. IInv /\ SInv => ConfirmedIsEnded
  BY SupervisedAssumption DEF IInv, Granted, SInv, GrantConfirmed, ConfirmedIsEnded
<1> QED
  BY SupervisorInvariance, <1>1, PTL

(* A request without a recorded receipt is reported as uncertain. *)
THEOREM CutOffIsUncertain == SupervisorSpec => []UnheardIsUncertain
<1>1. SInv => UnheardIsUncertain
  BY DEF SInv
<1> QED
  BY SupervisorInvariance, <1>1, PTL

(* Whatever is promised of records and requests holds of supervisions: a record can be
   read, a request is bound to the selection, one selection and one operation send one
   request, and no receipt denies it (kilix_pty_supervisor.py uses its controller alone). *)
THEOREM SupervisionIsSafe ==
    SupervisorSpec => [](RecordsReadable /\ BoundToSelection /\ OneSendPerSelection
                           /\ OneSendPerOperation /\ HonestRecord)
BY SupervisorUsesController, EveryRecordReadable, RequestIsBound, SelectionSendsOnce, OperationSendsOnce,
   RecordsAreHonest, PTL

(* An end request that a supervisor reports as refused and unsent was not sent. *)
THEOREM SupervisorRefusesTruly == SupervisorSpec => TruthfulRefusal
BY SupervisorUsesController, RefusalsAreTrue, PTL

(* Supervisors and other processes together keep the promise of the operation store. *)
THEOREM SupervisionTerminatesOnce == SupervisorSpec => ImplementsTerminateOnce
BY SupervisorUsesController, SelectorTerminatesOnce, PTL
=============================================================================
